------------------------------ MODULE MCHooks -------------------------------
(* Two jobs on both sides of a slice boundary; a query that begins inside  *)
(* the first slice, one that ends in it, and one that gives start and end. *)
EXTENDS Hooks, TLC

MCMinutes == {3, 5}
MCQueries ==
    {[start |-> 4, end |-> NoTime, range |-> 1],
     [start |-> NoTime, end |-> 4, range |-> 2],
     [start |-> 2, end |-> 5, range |-> NoTime]}
=============================================================================
