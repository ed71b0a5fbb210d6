-------------------------------- MODULE Hooks -------------------------------
(***************************************************************************)
(* Time hooks, web hooks, statistics and task queues together: jobs are    *)
(* triggered and indexed, fall asleep or wait for a signal, and are called *)
(* back by pollers, by hook and by hookAll, on several engines at a time.  *)
(***************************************************************************)
EXTENDS TimeHooks, TaskQueues

vars == <<hookActivityVars, timeVars, queueVars>>

Init == HookActivityInit /\ TimeInit /\ TaskInit

Next ==
    \/ \E j \in Jobs :
          \/ Trigger(j) /\ UNCHANGED timeVars
          \/ \E m \in Minutes, f \in Facets :
                TriggerCounted(j, m, f) /\ UNCHANGED timeVars
          \/ \E d \in Durations : PushTimeHook(j, d) /\ UNCHANGED queueVars
          \/ (AddSlot(j) \/ StopRegistration(j)) /\ UNCHANGED queueVars
          \/ SaveLeg1(j) /\ UNCHANGED <<timeVars, queueVars>>
    \/ \E e \in Engines :
          \/ EngineStep(e) /\ UNCHANGED <<timeVars, queueVars>>
          \/ (PollerStep(e) \/ StopPoller(e)) /\ UNCHANGED queueVars
    \/ \E l \in Loops : LoopStep(l) /\ UNCHANGED timeVars
    \/ \E q \in Queries, facets \in SUBSET Facets :
          HookAll(q, facets) /\ UNCHANGED timeVars
    \/ Tick /\ UNCHANGED queueVars

\* Time passes, and every process goes on with what it began; nobody need
\* trigger a job, call hookAll or stop.
Fairness ==
    /\ WF_vars(Tick /\ UNCHANGED queueVars)
    /\ WF_vars(\E j \in Jobs : AddSlot(j) /\ UNCHANGED queueVars)
    /\ \A e \in Engines :
          /\ WF_vars(EngineStep(e) /\ UNCHANGED <<timeVars, queueVars>>)
          /\ WF_vars(PollerStep(e) /\ UNCHANGED queueVars)
    /\ \A l \in Loops : WF_vars(LoopStep(l) /\ UNCHANGED timeVars)

Spec == Init /\ [][Next]_vars /\ Fairness

\* A job hooked several times (by hookAll's double draining, or by two callers)
\* goes on once: whatever finds its signal after leg 2 was saved is refused.
\* Only deliveries that found it before can complete it again.
NoLateResume ==
    \A e \in Engines : delivery[e].step = "granted" => ~delivery[e].late
=============================================================================
