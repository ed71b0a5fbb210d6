----------------------------- MODULE MCWorkflow -----------------------------
(***************************************************************************)
(* One parent flow and one child flow, after tests/functional/awaiter and  *)
(* tests/functional/parallel: the trigger of p calls an await and a worker *)
(* in parallel, the await starts job c (one worker) and, once answered,    *)
(* may call a plain activity.                                              *)
(***************************************************************************)
EXTENDS Workflow, TLC

CONSTANTS p, c, aw, w1, w2, a1

MCOwner == (aw :> p) @@ (w2 :> p) @@ (a1 :> p) @@ (w1 :> c)

MCKind == (aw :> "await") @@ (w2 :> "worker") @@ (a1 :> "activity") @@ (w1 :> "worker")

MCChildren ==
    (p :> {aw, w2}) @@ (c :> {w1}) @@ (aw :> {a1}) @@ (w2 :> {}) @@ (a1 :> {}) @@ (w1 :> {})

MCSpawns == [n \in Node |-> IF n = aw THEN {c} ELSE {}]
=============================================================================
