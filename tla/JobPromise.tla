----------------------------- MODULE JobPromise -----------------------------
(***************************************************************************)
(* What the engine promises about jobs, without streams, ledgers or        *)
(* processes: a job is published once; an activity that completes spawns   *)
(* its children in the same step; an activity completes once; the job is   *)
(* concluded (its parent answered, its subscribers notified) once, and     *)
(* only when none of its activities is still to complete.                  *)
(***************************************************************************)
EXTENDS FiniteSets, Naturals

CONSTANTS Job, Node, Owner, NoNode

VARIABLES
    published,  \* jobs that exist
    parent,     \* the await activity a job answers to, or NoNode
    spawned,    \* activities that were called for
    completed,  \* activities that completed
    concluded   \* jobs whose completion was announced

vars == <<published, parent, spawned, completed, concluded>>

Outstanding(j) == {n \in spawned \ completed : Owner[n] = j}

Init ==
    /\ published = {}
    /\ parent = [j \in Job |-> NoNode]
    /\ spawned = {}
    /\ completed = {}
    /\ concluded = {}

\* A new job spawns some activities of its graph.
Publish(j, caller, A) ==
    /\ j \notin published
    /\ \A n \in A : Owner[n] = j
    /\ caller # NoNode => caller \in spawned \ completed
    /\ published' = published \cup {j}
    /\ parent' = [parent EXCEPT ![j] = caller]
    /\ spawned' = spawned \cup A
    /\ UNCHANGED <<completed, concluded>>

\* An activity completes and spawns activities that were never called before.
Complete(n, A) ==
    /\ n \in spawned \ completed
    /\ A \cap spawned = {}
    /\ \A k \in A : Owner[k] = Owner[n]
    /\ completed' = completed \cup {n}
    /\ spawned' = spawned \cup A
    /\ UNCHANGED <<published, parent, concluded>>

\* A job with nothing left to do is announced, before its caller moves on.
Conclude(j) ==
    /\ j \in published \ concluded
    /\ Outstanding(j) = {}
    /\ parent[j] # NoNode => parent[j] \notin completed
    /\ concluded' = concluded \cup {j}
    /\ UNCHANGED <<published, parent, spawned, completed>>

Next ==
    \/ \E j \in Job, caller \in Node \cup {NoNode}, A \in SUBSET Node :
         Publish(j, caller, A)
    \/ \E n \in Node, A \in SUBSET Node : Complete(n, A)
    \/ \E j \in Job : Conclude(j)

Spec == Init /\ [][Next]_vars
=============================================================================
