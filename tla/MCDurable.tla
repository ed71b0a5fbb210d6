------------------------------ MODULE MCDurable -----------------------------
(* An order calls an activity and starts its shipment, a workflow that     *)
(* calls one as well; two workers serve both.  Two starts of one order.    *)
EXTENDS Durable

MCScript == [order |-> <<"activity", "ship">>, ship |-> <<"activity">>]
MCStartOf == [s \in Starts |-> "order"]
MCServes == [k \in Workers |-> {"order", "ship"}]
=============================================================================
