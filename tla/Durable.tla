------------------------------- MODULE Durable ------------------------------
(***************************************************************************)
(* Durable workflows: the workers, each of which consumes the entries of   *)
(* its topic one at a time and runs the workflow's function for each, the  *)
(* calls such a run makes, and the client's starts.  An entry that is not  *)
(* acknowledged in time, because its worker stopped or because the run is  *)
(* still waiting, is claimed by another worker, which runs the function    *)
(* from the beginning; the fourth claim fails the job instead.             *)
(***************************************************************************)
EXTENDS DurableCalls

CONSTANTS
    Serves,      \* the workflows each worker's topic is for
    MaxClaims    \* reclaimCount, 3

ASSUME ServesAssumption == Serves \in [Workers -> SUBSET Workflows]
ASSUME MaxClaimsAssumption == MaxClaims \in Nat \ {0}

VARIABLES
    run,       \* what each worker runs
    result,    \* per start: "none", "refused", or the response it has got
    threw      \* workflows a run of which threw

runVars == <<run, result, threw>>
vars == <<appVars, jobVars, callVars, mishaps, runVars>>

Idle == [st |-> "idle"]

Init ==
    /\ CallsInit /\ refusals = 0
    /\ \/ NothingDeployed /\ mishaps = MaxMishaps
       \/ AllInPlace /\ mishaps = 0
    /\ run = [k \in Workers |-> Idle]
    /\ result = [s \in Starts |-> "none"]
    /\ threw = {}

-----------------------------------------------------------------------------
(* The client.                                                             *)

\* pub needs an app.
Start(s) ==
    /\ setup[s] = "ready" /\ call[s] = NoCall /\ result[s] = "none"
    /\ IF app = "none" THEN result' = [result EXCEPT ![s] = "refused"] /\ UNCHANGED call
       ELSE BeginCall(s, JobOf(StartOf[s]), "claim") /\ UNCHANGED result
    /\ UNCHANGED <<appVars, jobVars, lost, missed, mishaps, run, threw>>

EndStart(s) ==
    /\ \/ At(s, "return") /\ result' = [result EXCEPT ![s] = call[s].val]
       \/ At(s, "throw") /\ result' = [result EXCEPT ![s] = "refused"]
    /\ call' = [call EXCEPT ![s] = NoCall]
    /\ UNCHANGED <<appVars, jobVars, lost, missed, mishaps, run, threw>>

-----------------------------------------------------------------------------
(* wrapWorkflowFunction                                                    *)

Runs(k) == run[k].st # "idle"

BeginRunAcknowledged(k, w) ==   \* variant: acknowledged as it is read
    /\ run' = [run EXCEPT ![k] = [st |-> "running", of |-> w, counter |-> 0, val |-> "own"]]
    /\ entry' = [entry EXCEPT ![w] = [st |-> "gone", count |-> @.count + 1]]

BeginRun(k, w) ==
    /\ run' = [run EXCEPT ![k] = [st |-> "running", of |-> w, counter |-> 0, val |-> "own"]]
    /\ entry' = [entry EXCEPT ![w] = [st |-> "pending", count |-> @.count + 1]]

Take(k, w) ==
    /\ Consumes(k) /\ ~Runs(k) /\ w \in Serves[k]
    /\ entry[w].st = "queued"
    /\ BeginRun(k, w)
    /\ UNCHANGED <<appVars, job, value, due, answers, unpublished, callVars, mishaps>>
    /\ UNCHANGED <<result, threw>>

ClaimableWithinLimit(w) ==   \* variant: at its limit it is left alone
    entry[w].st = "pending" /\ entry[w].count <= MaxClaims

\* Nothing tells a claimant whether the run that has the entry goes on.
Claimable(w) == entry[w].st = "pending"

WithinLimit(w) == entry[w].count <= MaxClaims

Claim(k, w) ==
    /\ Consumes(k) /\ ~Runs(k) /\ w \in Serves[k]
    /\ Claimable(w)
    /\ IF WithinLimit(w)
       THEN BeginRun(k, w) /\ UNCHANGED answers
       ELSE /\ answers' = answers \cup {<<JobOf(w), "error", "wrong">>}
            /\ entry' = [entry EXCEPT ![w].st = "gone"] /\ UNCHANGED run
    /\ UNCHANGED <<appVars, job, value, due, unpublished, callVars, mishaps>>
    /\ UNCHANGED <<result, threw>>

CallJob(w, n) == IF Script[w][n] = "activity" THEN <<w, n>> ELSE JobOf(Script[w][n])

NextCall(k) ==
    LET w == run[k].of
        n == run[k].counter + 1
    IN  /\ run[k].st = "running" /\ call[k] = NoCall /\ n <= Len(Script[w])
        /\ run' = [run EXCEPT ![k].counter = n]
        /\ BeginCall(k, CallJob(w, n), IF Script[w][n] = "activity" THEN "look" ELSE "claim")
        /\ UNCHANGED <<appVars, jobVars, lost, missed, mishaps, result, threw>>

EndCall(k) ==
    /\ run[k].st = "running" /\ At(k, "return")
    /\ run' = [run EXCEPT ![k].val = IF call[k].val = "own" THEN @ ELSE "wrong"]
    /\ call' = [call EXCEPT ![k] = NoCall]
    /\ UNCHANGED <<appVars, jobVars, lost, missed, mishaps, result, threw>>

\* The function has returned, or a call of it has thrown: its answer is
\* published, and then its entry acknowledged.
Respond(k, status) ==
    /\ answers' = answers \cup {<<JobOf(run[k].of), status, run[k].val>>}
    /\ run' = [run EXCEPT ![k] = [st |-> "answered", of |-> @.of]]

Answer(k) ==
    /\ run[k].st = "running" /\ call[k] = NoCall
    /\ run[k].counter = Len(Script[run[k].of])
    /\ Respond(k, "success")
    /\ UNCHANGED <<appVars, job, value, entry, due, unpublished, callVars, mishaps>>
    /\ UNCHANGED <<result, threw>>

AnswerThrown(k) ==
    /\ run[k].st = "running" /\ At(k, "throw")
    /\ Respond(k, "pending")
    /\ call' = [call EXCEPT ![k] = NoCall]
    /\ threw' = threw \cup {run[k].of}
    /\ UNCHANGED <<appVars, job, value, entry, due, unpublished, lost, missed, mishaps>>
    /\ UNCHANGED result

Acknowledge(k) ==
    /\ run[k].st = "answered"
    /\ entry' = [entry EXCEPT ![run[k].of].st = "gone"]
    /\ run' = [run EXCEPT ![k] = Idle]
    /\ UNCHANGED <<appVars, job, value, due, answers, unpublished, callVars, mishaps>>
    /\ UNCHANGED <<result, threw>>

\* A worker stops, and with it the run and the call it is in; another begins.
StopWorker(k) ==
    /\ Runs(k) /\ Mishap
    /\ run' = [run EXCEPT ![k] = Idle]
    /\ call' = [call EXCEPT ![k] = NoCall]
    /\ UNCHANGED <<appVars, jobVars, lost, missed, result, threw>>

-----------------------------------------------------------------------------
EngineStep ==
    \/ \E j \in due : Perform(j)
    \/ \E a \in answers : Conclude(a)
    \/ \E j \in unpublished : Publish(j)

WorkerStep(k) ==
    \/ \E w \in Workflows : Take(k, w) \/ Claim(k, w)
    \/ NextCall(k) \/ EndCall(k) \/ Answer(k) \/ AnswerThrown(k) \/ Acknowledge(k)

Next ==
    \/ \E p \in Callers : AppStep(p) /\ UNCHANGED <<jobVars, callVars, mishaps, runVars>>
    \/ \E c \in Callers : CallStep(c) /\ UNCHANGED <<appVars, runVars>>
    \/ EngineStep /\ UNCHANGED <<appVars, runVars>>
    \/ \E s \in Starts : Start(s) \/ EndStart(s)
    \/ \E k \in Workers : WorkerStep(k) \/ StopWorker(k)

\* Processes go on, streams are read, timers fire, and idle workers claim.
Fairness ==
    /\ \A p \in Callers : WF_vars(AppStep(p) /\ UNCHANGED <<jobVars, callVars, mishaps, runVars>>)
    /\ \A c \in Callers : WF_vars(CallStep(c) /\ UNCHANGED <<appVars, runVars>>)
    /\ \A c \in Callers : WF_vars(Subscribe(c) /\ UNCHANGED <<appVars, runVars>>)
    /\ WF_vars(EngineStep /\ UNCHANGED <<appVars, runVars>>)
    /\ \A s \in Starts : WF_vars(Start(s) \/ EndStart(s))
    /\ \A k \in Workers : WF_vars(WorkerStep(k))

Spec == Init /\ [][Next]_vars /\ Fairness

-----------------------------------------------------------------------------
ChildWrong(w) ==
    \E n \in DOMAIN Script[w] :
        Script[w][n] # "activity" /\ value[JobOf(Script[w][n])] = "wrong"

\* A workflow is answered with anything but what its activities returned only
\* if its entry was delivered again, or a child was so answered; and only in a
\* workflow that is run again does a call wait where nothing is ever published.
ReplaysStray ==
    /\ \A w \in Workflows :
          value[JobOf(w)] = "wrong" => entry[w].count > 1 \/ ChildWrong(w)
    /\ \A k \in Workers : At(k, "listen") => entry[run[k].of].count > 1

\* A workflow is never forgotten: while its job is open, its entry is there, or
\* a response is, unless a run of it threw.
NotForgotten ==
    \A w \in Workflows :
        (job[JobOf(w)] = "open" /\ entry[w].st = "gone") =>
            w \in threw \/ \E a \in answers : a[1] = JobOf(w)

\* Every workflow that is created is settled: its job is over, or a run of it
\* threw, or every worker there is for it is in a run for good.
Settles ==
    <>[](\A w \in Workflows :
            job[JobOf(w)] = "open" =>
                \/ w \in threw
                \/ \A k \in Workers : (w \in Serves[k] /\ Consumes(k)) => Runs(k))

\* A start whose job is over has its result, unless the message was published
\* between its second look at the status and its subscription.
ResultArrives ==
    <>[](\A s \in Starts : (At(s, "settle") /\ IsOver(call[s].job)) => s \in missed)
=============================================================================
