--------------------------- MODULE WorkflowFaults ---------------------------
(***************************************************************************)
(* Workflow on streams that deliver at least once.  An engine or a client  *)
(* may stop between any two round trips; the entry the engine had not      *)
(* acknowledged stays pending in the consumer group until an engine claims *)
(* it (xpending, xclaim).  A worker may stop after it published its answer *)
(* and before it acknowledged the request, which is then answered again.   *)
(* MaxFaults bounds the stops, below the reclaimCount of 3 at which an     *)
(* entry is dead-lettered (see StreamSignaler).                            *)
(***************************************************************************)
EXTENDS Workflow

CONSTANTS
    Mortal,     \* the processes that may stop
    MaxFaults   \* how many stops are considered

VARIABLES
    orphans,    \* orphans[m]: entries delivered to an engine that stopped
    faults      \* stops so far

faultVars == <<orphans, faults>>
allVars == <<vars, faultVars>>

FaultyInit ==
    /\ Init
    /\ orphans = [m \in Msg |-> 0]
    /\ faults = 0

\* The process is gone with its local state; Redis is not.
Crash(p) ==
    /\ p \in Mortal
    /\ faults < MaxFaults
    /\ proc[p].pc # "idle"
    /\ proc' = [proc EXCEPT ![p] = Idle]
    /\ orphans' = IF p \in Engine THEN Add(orphans, {proc[p].msg}) ELSE orphans
    /\ faults' = faults + 1
    /\ UNCHANGED <<jobVars, ledger, stream, work, history>>

\* claimUnacknowledged hands the entry to consumeOne as if it were new.
Reclaim(e, m) ==
    /\ proc[e].pc = "idle"
    /\ orphans[m] > 0
    /\ WithinBound(m)
    /\ orphans' = [orphans EXCEPT ![m] = @ - 1]
    /\ proc' = [proc EXCEPT ![e] = Dispatch(m)]
    /\ UNCHANGED <<jobVars, ledger, stream, work, history, faults>>

\* The worker's publishResponse without its ackAndDelete.
AnswerTwice(n, s) ==
    /\ work[n] > 0
    /\ s \in Answers \ {"pending"}
    /\ faults < MaxFaults
    /\ faults' = faults + 1
    /\ stream' = Add(stream, {Response(n, s)})
    /\ UNCHANGED <<jobVars, ledger, work, proc, history, orphans>>

-----------------------------------------------------------------------------
FaultyNext ==
    \/ Next /\ UNCHANGED faultVars
    \/ \E p \in Process : Crash(p)
    \/ \E e \in Engine, m \in Msg : Reclaim(e, m)
    \/ \E n \in Node, s \in Status : AnswerTwice(n, s)

FaultySpec == FaultyInit /\ [][FaultyNext]_allVars

\* Every engine is restarted and goes on consuming; stops are never due.
FaultyFairSpec ==
    /\ FaultySpec
    /\ \A e \in Engine :
         WF_allVars((EngineStep(e) /\ UNCHANGED faultVars) \/ \E m \in Msg : Reclaim(e, m))
    /\ \A c \in Client : WF_allVars(Handle(c) /\ UNCHANGED faultVars)
    /\ \A n \in Node : WF_allVars(WorkerStep(n) /\ UNCHANGED faultVars)

-----------------------------------------------------------------------------
(* collator/README.md: redelivered entries and repeated answers "are never *)
(* processed": whatever is delivered again, each of the ledger's three     *)
(* status digits that guard a save is lowered by one save only.            *)
LegsCloseOnce ==
    \A n \in Node : ledger[n] # Absent => ledger[n].exit \in 8..9 /\ ledger[n].leg2 \in 8..9

(* An activity's ledger is preset before the activity is called and never  *)
(* again: a preset under a running activity would undo its leg 1 entry.    *)
KeepsLedgers ==
    \A n \in Node : ledger[n] # Absent => ledger'[n].entry <= ledger[n].entry

NoReseed == [][KeepsLedgers]_allVars

(* An activity that was called for eventually completes, as long as some   *)
(* engine is restarted: the recovery collator/README.md describes under    *)
(* "Error Handling".                                                       *)
ActivitiesComplete == \A n \in Node : n \in spawned ~> n \in completed
=============================================================================
