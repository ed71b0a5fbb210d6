---------------------------- MODULE DurableCalls ----------------------------
(***************************************************************************)
(* The calls of durable workflows.  A workflow is a job whose one activity *)
(* is a function some worker runs; in it, each call of an activity is a    *)
(* job of its own, known by the workflow and the index of the call, and    *)
(* each child workflow is one too.  A call of an activity looks its job up *)
(* first: a workflow that is run again is to find it there.  A start, in a *)
(* client or of a child, waits for its result with a subscription.         *)
(***************************************************************************)
EXTENDS DurableApps

CONSTANTS
    Script,    \* what each workflow calls: "activity", or the child it starts
    StartOf,   \* the workflow each start begins
    MaxMishaps \* bound on activity functions that throw, calls given up while
               \* their activity goes on, and workers that stop

Workflows == DOMAIN Script
ASSUME ScriptAssumption ==
    \A w \in Workflows : Script[w] \in Seq({"activity"} \cup Workflows)
ASSUME StartOfAssumption == StartOf \in [Starts -> Workflows]
ASSUME CallersAssumption == Starts \cap Workers = {}

JobOf(w) == <<w, 0>>
Jobs == {JobOf(w) : w \in Workflows}
            \cup UNION {{<<w, i>> : i \in {n \in DOMAIN Script[w] : Script[w][n] = "activity"}}
                          : w \in Workflows}
IsWorkflow(j) == j[2] = 0
Callers == Starts \cup Workers

VARIABLES
    job,        \* per job: "absent", "claimed", "open", "done" or "failed"
    value,      \* its response: its "own", a "wrong" one, or "none"
    entry,      \* per workflow, its stream entry and how often it was delivered
    due,        \* activity jobs whose function is to run
    answers,    \* <<job, status, value>>: responses on the engines' stream
    unpublished,  \* jobs that are over, before their message is published
    call,       \* the call each start or worker waits in
    lost,       \* jobs whose message no callback was there for
    missed,     \* starts whose message came between their recheck and their
                \* subscription
    mishaps

jobVars == <<job, value, entry, due, answers, unpublished>>
callVars == <<call, lost, missed>>

NoCall == [st |-> "none"]
NoEntry == [st |-> "none", count |-> 0]

CallsInit ==
    /\ job = [j \in Jobs |-> "absent"]
    /\ value = [j \in Jobs |-> "none"]
    /\ entry = [w \in Workflows |-> NoEntry]
    /\ due = {} /\ answers = {} /\ unpublished = {}
    /\ call = [c \in Callers |-> NoCall]
    /\ lost = {} /\ missed = {}

Mishap == mishaps < MaxMishaps /\ mishaps' = mishaps + 1

IsOver(j) == job[j] \in {"done", "failed"}

At(c, st) == call[c].st = st
CallTo(c, st) == [call EXCEPT ![c].st = st]

\* A call returns when it is at "return"; it fails when it is at "throw".
Return(c, v) == [call EXCEPT ![c] = [st |-> "return", job |-> @.job, val |-> v]]
Throw(c) == [call EXCEPT ![c] = [st |-> "throw", job |-> @.job]]

-----------------------------------------------------------------------------
(* pub: the trigger claims the id of the job, then saves it and publishes  *)
(* the entry for a worker.                                                 *)

BeginCall(c, j, st) == call' = [call EXCEPT ![c] = [st |-> st, job |-> j]]

ClaimId(c) ==
    LET j == call[c].job IN
    /\ At(c, "claim")
    /\ IF job[j] = "absent"
       THEN job' = [job EXCEPT ![j] = "claimed"] /\ call' = CallTo(c, "create")
       ELSE call' = Throw(c) /\ UNCHANGED job    \* DuplicateJobError
    /\ UNCHANGED <<value, entry, due, answers, unpublished, lost, missed, mishaps>>

Create(c) ==
    LET j == call[c].job IN
    /\ At(c, "create")
    /\ job' = [job EXCEPT ![j] = "open"]
    /\ IF IsWorkflow(j)
       THEN /\ entry' = [entry EXCEPT ![j[1]].st = "queued"]
            /\ call' = CallTo(c, "status") /\ UNCHANGED due
       ELSE due' = due \cup {j} /\ call' = CallTo(c, "register") /\ UNCHANGED entry
    /\ UNCHANGED <<value, answers, unpublished, lost, missed, mishaps>>

-----------------------------------------------------------------------------
(* wrapActivity: getState first.  A job that is open, its response pending, *)
(* is taken for one that has been answered; one that has been answered is   *)
(* waited for, on a topic nothing is published to.                          *)

Look(c) ==
    LET j == call[c].job IN
    /\ At(c, "look")
    /\ call' = CASE job[j] = "absent" -> CallTo(c, "claim")
                 [] job[j] \in {"claimed", "open"} -> Return(c, "wrong")
                 [] IsOver(j) -> CallTo(c, "listen")
    /\ UNCHANGED <<jobVars, lost, missed, mishaps>>

\* pubsub registers its callback when pub has returned.
Register(c) ==
    /\ At(c, "register")
    /\ call' = CallTo(c, "await")
    /\ UNCHANGED <<jobVars, lost, missed, mishaps>>

\* The timer: it rejects the call unless a message has resolved it.
Timeout(c) ==
    /\ At(c, "await")
    /\ \/ call[c].job \in lost /\ UNCHANGED mishaps
       \/ call[c].job \notin lost /\ Mishap
    /\ call' = Throw(c)
    /\ UNCHANGED <<jobVars, lost, missed>>

-----------------------------------------------------------------------------
(* result: the status, or a subscription and one more look at the status.  *)
(* The two are sent on two connections.                                    *)

ReadStatus(c) ==
    LET j == call[c].job IN
    /\ At(c, "status")
    /\ call' = IF IsOver(j) THEN Return(c, value[j])
               ELSE [call EXCEPT ![c] = [st |-> "settle", job |-> j,
                                         subscribed |-> FALSE, rechecked |-> FALSE]]
    /\ UNCHANGED <<jobVars, lost, missed, mishaps>>

Subscribe(c) ==
    /\ At(c, "settle") /\ ~call[c].subscribed
    /\ call' = [call EXCEPT ![c].subscribed = TRUE]
    /\ UNCHANGED <<jobVars, lost, missed, mishaps>>

NoRecheck(c) ==   \* variant: the status is not looked at again
    [call EXCEPT ![c].rechecked = TRUE]

Rechecked(c) ==
    IF IsOver(call[c].job) THEN Return(c, value[call[c].job])
    ELSE [call EXCEPT ![c].rechecked = TRUE]

Recheck(c) ==
    /\ At(c, "settle") /\ ~call[c].rechecked
    /\ call' = Rechecked(c)
    /\ UNCHANGED <<jobVars, lost, missed, mishaps>>

-----------------------------------------------------------------------------
(* wrapActivityFunctions: a function that throws answers with a pending    *)
(* status, which leaves its job open.                                      *)

Perform(j) ==
    /\ j \in due
    /\ due' = due \ {j}
    /\ \/ answers' = answers \cup {<<j, "success", "own">>} /\ UNCHANGED mishaps
       \/ /\ Mishap
          /\ answers' = answers \cup {<<j, "pending", "none">>}
    /\ UNCHANGED <<job, value, entry, unpublished, callVars>>

EndsJobAlways(a) == ~IsOver(a[1])   \* variant: a pending response ends it too

EndsJob(a) == a[2] # "pending" /\ ~IsOver(a[1])

\* The engine takes a response; the first that is not pending ends the job.
Conclude(a) ==
    LET j == a[1] IN
    /\ a \in answers
    /\ answers' = answers \ {a}
    /\ IF ~EndsJob(a) THEN UNCHANGED <<job, value, unpublished>>
       ELSE /\ job' = [job EXCEPT ![j] = IF a[2] = "success" THEN "done" ELSE "failed"]
            /\ value' = [value EXCEPT ![j] = a[3]]
            /\ unpublished' = unpublished \cup {j}
    /\ UNCHANGED <<entry, due, callVars, mishaps>>

Waiting(j) == {c \in Callers : At(c, "settle") /\ call[c].job = j}

\* runJobCompletionTasks: to the engine that waits for an activity, or to those
\* that have subscribed to a workflow's topic and id.
Publish(j) ==
    LET hears(c) == IF IsWorkflow(j) THEN c \in Waiting(j) /\ call[c].subscribed
                    ELSE At(c, "await") /\ call[c].job = j
    IN  /\ j \in unpublished
        /\ unpublished' = unpublished \ {j}
        /\ call' = [c \in Callers |->
                      IF hears(c) THEN [st |-> "return", job |-> j, val |-> value[j]] ELSE call[c]]
        /\ lost' = IF ~IsWorkflow(j) /\ \A c \in Callers : ~hears(c) THEN lost \cup {j} ELSE lost
        /\ missed' = missed \cup {c \in Waiting(j) : call[c].rechecked /\ ~hears(c)}
        /\ UNCHANGED <<job, value, entry, due, answers, mishaps>>

CallStep(c) ==
    \/ ClaimId(c) \/ Create(c) \/ Look(c) \/ Register(c) \/ Timeout(c)
    \/ ReadStatus(c) \/ Subscribe(c) \/ Recheck(c)
=============================================================================
