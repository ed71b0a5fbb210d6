-------------------------- MODULE MCWorkflowFaults --------------------------
(***************************************************************************)
(* The graph of MCWorkflow on faulty processes, and two smaller ones: a    *)
(* trigger with one plain activity, and a trigger with two workers of      *)
(* which the second may call a third.                                      *)
(***************************************************************************)
EXTENDS WorkflowFaults, MCWorkflow

LoneOwner == (a1 :> p)

LoneKind == (a1 :> "activity")

LoneChildren == (p :> {a1}) @@ (a1 :> {})

NoSpawns == [n \in Node |-> {}]

PairOwner == (w1 :> p) @@ (w2 :> p) @@ (aw :> p)

PairKind == (w1 :> "worker") @@ (w2 :> "worker") @@ (aw :> "worker")

PairChildren == (p :> {w1, w2}) @@ (w1 :> {}) @@ (w2 :> {aw}) @@ (aw :> {})
=============================================================================
