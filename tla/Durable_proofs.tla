---------------------------- MODULE Durable_proofs --------------------------
(***************************************************************************)
(* A workflow whose job is open is never forgotten, and only one that is   *)
(* run again comes to a wrong result of its own: whatever workflows call,  *)
(* however many workers run them, stop or give calls up.                   *)
(***************************************************************************)
EXTENDS Durable, TLAPS

Waits == {"claim", "create", "look", "register", "await", "listen", "status", "throw"}
Values == {"none", "own", "wrong"}

CallSet ==
    {NoCall} \cup [st : Waits, job : Jobs]
             \cup [st : {"return"}, job : Jobs, val : Values]
             \cup [st : {"settle"}, job : Jobs, subscribed : BOOLEAN, rechecked : BOOLEAN]

RunSet ==
    {Idle} \cup [st : {"running"}, of : Workflows, counter : Nat, val : Values]
           \cup [st : {"answered"}, of : Workflows]

TypeInv ==
    /\ job \in [Jobs -> {"absent", "claimed", "open", "done", "failed"}]
    /\ value \in [Jobs -> Values]
    /\ entry \in [Workflows -> [st : {"none", "queued", "pending", "gone"}, count : Nat]]
    /\ due \in SUBSET Jobs
    /\ answers \in SUBSET (Jobs \X {"success", "pending", "error"} \X Values)
    /\ unpublished \in SUBSET Jobs
    /\ call \in [Callers -> CallSet]
    /\ run \in [Workers -> RunSet]

\* Its trigger has saved it.
Past(j) == job[j] \in {"open", "done", "failed"}

Begun ==
    /\ \A a \in answers : Past(a[1])
    /\ \A j \in due : Past(j) /\ ~IsWorkflow(j)
    /\ \A w \in Workflows : entry[w].st # "none" => Past(JobOf(w))
    /\ \A k \in Workers : Runs(k) => Past(JobOf(run[k].of))

\* One call creates a job that is claimed, and only such a job is created.
CreatesOnce ==
    \A c, d \in Callers :
        At(c, "create") =>
            /\ job[call[c].job] = "claimed"
            /\ (At(d, "create") /\ call[d].job = call[c].job) => c = d

\* Its job is over, or will be when a response is taken, or a run of it threw.
Settled(w) ==
    \/ IsOver(JobOf(w))
    \/ w \in threw
    \/ \E a \in answers : a[1] = JobOf(w) /\ a[2] # "pending"

PendingThrew ==
    \A w \in Workflows : \A a \in answers :
        (a[1] = JobOf(w) /\ a[2] = "pending") => w \in threw

AnsweredSettled == \A k \in Workers : run[k].st = "answered" => Settled(run[k].of)

GoneSettled == \A w \in Workflows : entry[w].st = "gone" => Settled(w)

IInv == TypeInv /\ Begun /\ CreatesOnce /\ PendingThrew /\ AnsweredSettled /\ GoneSettled

-----------------------------------------------------------------------------
(* Jobs.                                                                   *)

LEMMA JobOfType == \A w \in Workflows : JobOf(w) \in Jobs /\ IsWorkflow(JobOf(w))
  BY DEF Jobs, JobOf, IsWorkflow

LEMMA JobOfInjective == \A v, w \in Workflows : JobOf(v) = JobOf(w) => v = w
  BY DEF JobOf

LEMMA WorkflowJobs ==
    ASSUME NEW j \in Jobs, IsWorkflow(j)
    PROVE  j[1] \in Workflows /\ j = JobOf(j[1])
<1>1. CASE j \in {JobOf(w) : w \in Workflows}
  BY <1>1 DEF JobOf
<1>2. ASSUME NEW w \in Workflows,
             j \in {<<w, i>> : i \in {n \in DOMAIN Script[w] : Script[w][n] = "activity"}}
      PROVE  FALSE
  BY <1>2, ScriptAssumption DEF IsWorkflow
<1> QED
  BY <1>1, <1>2 DEF Jobs

LEMMA CalledJobs ==
    ASSUME NEW w \in Workflows, NEW n \in Nat, n + 1 <= Len(Script[w])
    PROVE  CallJob(w, n + 1) \in Jobs
<1>1. n + 1 \in DOMAIN Script[w] /\ Script[w][n + 1] \in {"activity"} \cup Workflows
  BY ScriptAssumption
<1>2. CASE Script[w][n + 1] = "activity"
  BY <1>1, <1>2 DEF CallJob, Jobs
<1>3. CASE Script[w][n + 1] # "activity"
  BY <1>1, <1>3, JobOfType DEF CallJob
<1> QED
  BY <1>2, <1>3

-----------------------------------------------------------------------------
(* Steps of calls and runs.                                                *)

LEMMA CallToStep ==
    ASSUME call \in [Callers -> CallSet], NEW c \in Callers, call[c].st \in Waits,
           NEW st \in Waits, call' = CallTo(c, st)
    PROVE  /\ call' \in [Callers -> CallSet]
           /\ call'[c].st = st /\ call'[c].job = call[c].job
           /\ \A d \in Callers \ {c} : call'[d] = call[d]
<1>1. call[c] \in [st : Waits, job : Jobs]
  BY DEF CallSet, NoCall, Waits
<1> QED
  BY <1>1 DEF CallTo, CallSet

LEMMA BusyJob ==
    ASSUME call \in [Callers -> CallSet], NEW c \in Callers,
           call[c].st \in Waits \cup {"settle", "return"}
    PROVE  call[c].job \in Jobs
  BY DEF CallSet, NoCall, Waits

LEMMA ReturnStep ==
    ASSUME call \in [Callers -> CallSet], NEW c \in Callers, call[c].job \in Jobs,
           NEW v \in Values, call' = Return(c, v)
    PROVE  /\ call' \in [Callers -> CallSet]
           /\ call'[c].st = "return"
           /\ \A d \in Callers \ {c} : call'[d] = call[d]
  BY DEF Return, CallSet

LEMMA ThrowStep ==
    ASSUME call \in [Callers -> CallSet], NEW c \in Callers, call[c].job \in Jobs,
           call' = Throw(c)
    PROVE  /\ call' \in [Callers -> CallSet]
           /\ call'[c].st = "throw"
           /\ \A d \in Callers \ {c} : call'[d] = call[d]
  BY DEF Throw, CallSet, Waits

LEMMA SettleStep ==
    ASSUME call \in [Callers -> CallSet], NEW c \in Callers, At(c, "settle"),
           \/ call' = [call EXCEPT ![c].subscribed = TRUE]
           \/ call' = [call EXCEPT ![c].rechecked = TRUE]
    PROVE  /\ call' \in [Callers -> CallSet]
           /\ call'[c].st = "settle"
           /\ \A d \in Callers \ {c} : call'[d] = call[d]
<1>1. call[c] \in [st : {"settle"}, job : Jobs, subscribed : BOOLEAN, rechecked : BOOLEAN]
  BY DEF CallSet, NoCall, Waits, At
<1>2. \A d \in Callers \ {c} : call'[d] = call[d]
  OBVIOUS
<1>3. call'[c] \in [st : {"settle"}, job : Jobs, subscribed : BOOLEAN, rechecked : BOOLEAN]
  <2>1. CASE call' = [call EXCEPT ![c].subscribed = TRUE]
    BY <1>1, <2>1
  <2>2. CASE call' = [call EXCEPT ![c].rechecked = TRUE]
    BY <1>1, <2>2
  <2> QED
    BY <2>1, <2>2
<1>4. call' = [d \in Callers |-> call'[d]]
  OBVIOUS
<1>5. \A d \in Callers : call'[d] \in CallSet
  BY <1>2, <1>3 DEF CallSet
<1> QED
  BY <1>2, <1>3, <1>4, <1>5

-----------------------------------------------------------------------------
(* What a step leaves of the invariant's parts.                            *)

\* A job that is past is never claimed or created again, and what settles a
\* workflow is only replaced by its being over.
LEMMA SettledKept ==
    ASSUME NEW w \in Workflows, Settled(w),
           threw \subseteq threw',
           IsOver(JobOf(w)) => IsOver(JobOf(w))',
           \A a \in answers : a \in answers' \/ a[1] # JobOf(w)
                                \/ a[2] = "pending" \/ IsOver(JobOf(w))'
    PROVE  Settled(w)'
  BY DEF Settled, JobOf

\* A step of one call that creates nothing, and may move its run on.
LEMMA CallOnlyStep ==
    ASSUME IInv, UNCHANGED <<jobVars, threw>>,
           call' \in [Callers -> CallSet],
           \A d \in Callers : call'[d].st = "create" => call'[d] = call[d],
           run' \in [Workers -> RunSet],
           \A k \in Workers : run'[k].st # run[k].st => run'[k].st = "idle",
           \A k \in Workers : run'[k].st # "idle" => run'[k].of = run[k].of
    PROVE  IInv'
<1>1. TypeInv'
  BY DEF IInv, TypeInv, jobVars
<1>2. Begun'
  BY DEF IInv, Begun, Past, Runs, jobVars, JobOf
<1>3. CreatesOnce'
  BY DEF IInv, CreatesOnce, At, jobVars
<1>4. \A w \in Workflows : Settled(w)' <=> Settled(w)
  BY DEF Settled, IsOver, jobVars, JobOf
<1>5. PendingThrew' /\ GoneSettled'
  BY <1>4 DEF IInv, PendingThrew, GoneSettled, jobVars, JobOf
<1>6. AnsweredSettled'
  <2> SUFFICES ASSUME NEW k \in Workers, run'[k].st = "answered"
               PROVE  Settled(run[k].of)'
    BY DEF AnsweredSettled
  <2>1. run[k].st = "answered" /\ run'[k].of = run[k].of
    OBVIOUS
  <2>2. PICK w \in Workflows : w = run[k].of
    BY <2>1 DEF IInv, TypeInv, RunSet, Idle
  <2>3. Settled(w)
    BY <2>1, <2>2 DEF IInv, AnsweredSettled
  <2>4. Settled(w)'
    BY <1>4, <2>3
  <2> QED
    BY <2>1, <2>2, <2>4 DEF Settled, IsOver, JobOf
<1> QED
  BY <1>1, <1>2, <1>3, <1>5, <1>6 DEF IInv

LEMMA BegunKept ==
    ASSUME IInv,
           \A j \in Jobs : Past(j) => Past(j)',
           \A a \in answers' : a \in answers \/ Past(a[1])',
           \A j \in due' : j \in due \/ (Past(j)' /\ ~IsWorkflow(j)),
           \A w \in Workflows : entry'[w].st # "none" =>
               entry[w].st # "none" \/ Past(JobOf(w))',
           \A k \in Workers : run'[k].st # "idle" =>
               \/ run[k].st # "idle" /\ run'[k].of = run[k].of
               \/ Past(JobOf(run[k].of))'
    PROVE  Begun'
<1>1. \A a \in answers' : Past(a[1])'
  BY DEF IInv, TypeInv, Begun
<1>2. \A j \in due' : Past(j)' /\ ~IsWorkflow(j)
  BY DEF IInv, TypeInv, Begun
<1>3. \A w \in Workflows : entry'[w].st # "none" => Past(JobOf(w))'
  BY JobOfType DEF IInv, Begun
<1>4. ASSUME NEW k \in Workers, run'[k].st # "idle"
      PROVE  Past(JobOf(run[k].of))'
  <2>1. CASE run[k].st # "idle" /\ run'[k].of = run[k].of
    <3>1. run[k].of \in Workflows
      BY <2>1 DEF IInv, TypeInv, RunSet, Idle
    <3>2. Past(JobOf(run[k].of))
      BY <2>1 DEF IInv, Begun, Runs
    <3>3. PICK j \in Jobs : j = JobOf(run[k].of)
      BY <3>1, JobOfType
    <3>4. Past(j)'
      BY <3>2, <3>3
    <3> QED
      BY <2>1, <3>3, <3>4 DEF Past, JobOf
  <2> QED
    BY <1>4, <2>1
<1> QED
  BY <1>1, <1>2, <1>3, <1>4 DEF Begun, Runs, IsWorkflow

LEMMA SettledsKept ==
    ASSUME IInv,
           threw \subseteq threw',
           \A w \in Workflows : IsOver(JobOf(w)) => IsOver(JobOf(w))',
           \A w \in Workflows : \A a \in answers :
               \/ a \in answers' \/ a[1] # JobOf(w) \/ a[2] = "pending"
               \/ IsOver(JobOf(w))',
           \A w \in Workflows : entry'[w].st = "gone" =>
               entry[w].st = "gone" \/ Settled(w)',
           \A k \in Workers : run'[k].st = "answered" =>
               \/ run[k].st = "answered" /\ run'[k].of = run[k].of
               \/ Settled(run[k].of)',
           \A a \in answers' :
               \/ a \in answers \/ a[2] # "pending"
               \/ \A w \in Workflows : a[1] = JobOf(w) => w \in threw'
    PROVE  PendingThrew' /\ AnsweredSettled' /\ GoneSettled'
<1>1. ASSUME NEW w \in Workflows, Settled(w)
      PROVE  Settled(w)'
  BY <1>1, SettledKept
<1>2. PendingThrew'
  BY DEF IInv, PendingThrew, JobOf
<1>3. GoneSettled'
  BY <1>1 DEF IInv, GoneSettled
<1>4. ASSUME NEW k \in Workers, run'[k].st = "answered"
      PROVE  Settled(run[k].of)'
  <2>1. CASE run[k].st = "answered" /\ run'[k].of = run[k].of
    <3>1. PICK w \in Workflows : w = run[k].of
      BY <2>1 DEF IInv, TypeInv, RunSet, Idle
    <3>2. Settled(w)
      BY <2>1, <3>1 DEF IInv, AnsweredSettled
    <3>3. Settled(w)'
      BY <1>1, <3>2
    <3> QED
      BY <2>1, <3>1, <3>3 DEF Settled, IsOver, JobOf
  <2> QED
    BY <1>4, <2>1
<1> QED
  BY <1>2, <1>3, <1>4 DEF AnsweredSettled

-----------------------------------------------------------------------------
(* One lemma per step that is not a call's alone.                          *)

LEMMA ClaimIdStep ==
    ASSUME IInv, NEW c \in Callers, ClaimId(c), UNCHANGED runVars
    PROVE  IInv'
<1> USE DEF IInv
<1>1. PICK j \in Jobs : j = call[c].job
  BY BusyJob DEF TypeInv, ClaimId, At, Waits
<1>2. CASE job[j] # "absent"
  <2>1. call' = Throw(c) /\ UNCHANGED jobVars
    BY <1>1, <1>2 DEF ClaimId, jobVars
  <2>2. call' \in [Callers -> CallSet] /\ \A d \in Callers : call'[d].st = "create" => call'[d] = call[d]
    BY <1>1, <2>1, ThrowStep DEF TypeInv
  <2> QED
    BY <2>1, <2>2, CallOnlyStep DEF runVars, TypeInv
<1>3. CASE job[j] = "absent"
  <2>1. /\ job' = [job EXCEPT ![j] = "claimed"] /\ call' = CallTo(c, "create")
        /\ UNCHANGED <<value, entry, due, answers, unpublished, run, threw>>
    BY <1>1, <1>3 DEF ClaimId, runVars
  <2>2. /\ call' \in [Callers -> CallSet]
        /\ call'[c].st = "create" /\ call'[c].job = j
        /\ \A d \in Callers \ {c} : call'[d] = call[d]
    BY <1>1, <2>1, CallToStep DEF TypeInv, ClaimId, At, Waits
  <2>3. job'[j] = "claimed" /\ \A i \in Jobs \ {j} : job'[i] = job[i]
    BY <2>1 DEF TypeInv
  <2>4. TypeInv'
    BY <2>1, <2>2 DEF TypeInv
  <2>5. \A i \in Jobs : Past(i) => Past(i)'
    BY <1>3, <2>3 DEF Past
  <2>6. Begun'
    BY <2>1, <2>5, BegunKept DEF Begun, Runs
  <2>7. CreatesOnce'
    <3> SUFFICES ASSUME NEW d \in Callers, NEW b \in Callers, At(d, "create")'
                 PROVE  /\ job'[call'[d].job] = "claimed"
                        /\ (At(b, "create")' /\ call'[b].job = call'[d].job) => d = b
      BY DEF CreatesOnce, At
    <3>1. \A e \in Callers \ {c} : At(e, "create")' =>
             /\ At(e, "create") /\ call[e].job = call'[e].job /\ call[e].job \in Jobs
             /\ job[call[e].job] = "claimed"
      BY <2>2, BusyJob DEF TypeInv, CreatesOnce, At, Waits
    <3> QED
      BY <1>3, <2>2, <2>3, <3>1 DEF CreatesOnce, At
  <2>8. \A w \in Workflows : IsOver(JobOf(w)) => IsOver(JobOf(w))'
    BY <1>3, <2>3, JobOfType DEF IsOver, JobOf
  <2>9. PendingThrew' /\ AnsweredSettled' /\ GoneSettled'
    BY <2>1, <2>8, SettledsKept
  <2> QED
    BY <2>4, <2>6, <2>7, <2>9
<1> QED
  BY <1>2, <1>3

LEMMA CreateStep ==
    ASSUME IInv, NEW c \in Callers, Create(c), UNCHANGED runVars
    PROVE  IInv'
<1> USE DEF IInv
<1>1. PICK j \in Jobs : j = call[c].job
  BY BusyJob DEF TypeInv, Create, At, Waits
<1>2. /\ job[j] = "claimed" /\ job' = [job EXCEPT ![j] = "open"]
      /\ UNCHANGED <<value, answers, unpublished, run, threw>>
  BY <1>1 DEF Create, CreatesOnce, runVars
<1>3. job'[j] = "open" /\ \A i \in Jobs \ {j} : job'[i] = job[i]
  BY <1>2 DEF TypeInv
<1>4. /\ call' \in [Callers -> CallSet]
      /\ call'[c].st # "create"
      /\ \A d \in Callers \ {c} : call'[d] = call[d]
  <2>1. call' = CallTo(c, "status") \/ call' = CallTo(c, "register")
    BY DEF Create
  <2> QED
    BY <2>1, CallToStep DEF TypeInv, Create, At, Waits
<1>5. /\ entry' \in [Workflows -> [st : {"none", "queued", "pending", "gone"}, count : Nat]]
      /\ \A w \in Workflows : entry'[w].st # "none" => entry[w].st # "none" \/ JobOf(w) = j
      /\ \A w \in Workflows : entry'[w].st = "gone" => entry[w].st = "gone"
      /\ due' \in SUBSET Jobs
      /\ \A i \in due' : i \in due \/ (i = j /\ ~IsWorkflow(j))
  <2>1. CASE IsWorkflow(j)
    <3>1. PICK w \in Workflows : w = j[1] /\ j = JobOf(w)
      BY <2>1, WorkflowJobs
    <3>2. entry' = [entry EXCEPT ![w].st = "queued"] /\ due' = due
      BY <1>1, <2>1, <3>1 DEF Create
    <3> QED
      BY <3>1, <3>2 DEF TypeInv
  <2>2. CASE ~IsWorkflow(j)
    BY <1>1, <2>2 DEF Create, TypeInv
  <2> QED
    BY <2>1, <2>2
<1>6. TypeInv'
  BY <1>2, <1>4, <1>5 DEF TypeInv
<1>7. \A i \in Jobs : Past(i) \/ i = j => Past(i)'
  BY <1>2, <1>3 DEF Past
<1>8. Begun'
  <2>1. \A w \in Workflows : entry'[w].st # "none" => entry[w].st # "none" \/ Past(JobOf(w))'
    BY <1>3, <1>5 DEF Past, JobOf
  <2> QED
    BY <1>2, <1>5, <1>7, <2>1, BegunKept DEF Begun, Runs
<1>9. CreatesOnce'
  <2>1. \A e \in Callers : At(e, "create")' =>
           /\ e # c /\ At(e, "create") /\ call'[e] = call[e] /\ call[e].job \in Jobs \ {j}
    BY <1>1, <1>4, BusyJob DEF TypeInv, CreatesOnce, At, Waits, Create
  <2> QED
    BY <1>3, <2>1 DEF CreatesOnce, At
<1>10. \A w \in Workflows : IsOver(JobOf(w)) => IsOver(JobOf(w))'
  BY <1>2, <1>3, JobOfType DEF IsOver, JobOf
<1>11. PendingThrew' /\ AnsweredSettled' /\ GoneSettled'
  BY <1>2, <1>5, <1>10, SettledsKept
<1> QED
  BY <1>6, <1>8, <1>9, <1>11

LEMMA PerformStep ==
    ASSUME IInv, NEW j \in due, Perform(j), UNCHANGED runVars
    PROVE  IInv'
<1> USE DEF IInv
<1>1. /\ due' = due \ {j} /\ UNCHANGED <<job, value, entry, unpublished, call, run, threw>>
      /\ answers \subseteq answers'
      /\ \A a \in answers' : a \in answers \/ a[1] = j
  BY DEF Perform, callVars, runVars
<1>2. j \in Jobs /\ Past(j) /\ ~IsWorkflow(j)
  BY DEF TypeInv, Begun
<1>3. answers' \in SUBSET (Jobs \X {"success", "pending", "error"} \X Values)
  BY <1>2 DEF Perform, TypeInv, Values
<1>4. TypeInv'
  BY <1>1, <1>3 DEF TypeInv
<1>5. Begun'
  BY <1>1, <1>2, BegunKept DEF Begun, Runs, Past
<1>6. CreatesOnce'
  BY <1>1 DEF CreatesOnce, At
<1>7. \A w \in Workflows : JobOf(w) # j
  BY <1>2, JobOfType
<1>8. \A w \in Workflows : IsOver(JobOf(w)) => IsOver(JobOf(w))'
  BY <1>1 DEF IsOver, JobOf
<1>9. PendingThrew' /\ AnsweredSettled' /\ GoneSettled'
  BY <1>1, <1>7, <1>8, SettledsKept
<1> QED
  BY <1>4, <1>5, <1>6, <1>9

LEMMA ConcludeStep ==
    ASSUME IInv, NEW a \in answers, Conclude(a), UNCHANGED runVars
    PROVE  IInv'
<1> USE DEF IInv
<1>1. PICK j \in Jobs : j = a[1]
  BY DEF TypeInv
<1>2. /\ answers' = answers \ {a}
      /\ UNCHANGED <<entry, due, call, run, threw>>
      /\ Past(j)
  BY <1>1 DEF Conclude, callVars, runVars, Begun
<1>3. /\ job' \in [Jobs -> {"absent", "claimed", "open", "done", "failed"}]
      /\ value' \in [Jobs -> Values]
      /\ unpublished' \in SUBSET Jobs
      /\ \A i \in Jobs \ {j} : job'[i] = job[i]
      /\ Past(j)'
      /\ IsOver(j) => IsOver(j)'
      /\ a[2] # "pending" => IsOver(j)'
  <2>1. CASE EndsJob(a)
    <3>1. job' = [job EXCEPT ![j] = IF a[2] = "success" THEN "done" ELSE "failed"]
      BY <1>1, <2>1 DEF Conclude
    <3>2. value' = [value EXCEPT ![j] = a[3]] /\ a[3] \in Values
      BY <1>1, <2>1 DEF Conclude, TypeInv
    <3>3. unpublished' \in SUBSET Jobs
      BY <1>1, <2>1 DEF Conclude, TypeInv
    <3> QED
      BY <3>1, <3>2, <3>3 DEF TypeInv, Past, IsOver
  <2>2. CASE ~EndsJob(a)
    BY <1>1, <1>2, <2>2 DEF Conclude, EndsJob, TypeInv, Past, IsOver
  <2> QED
    BY <2>1, <2>2
<1>4. TypeInv'
  BY <1>2, <1>3 DEF TypeInv
<1>5. \A i \in Jobs : Past(i) => Past(i)'
  BY <1>3 DEF Past
<1>6. Begun'
  BY <1>2, <1>5, BegunKept DEF Begun, Runs
<1>7. CreatesOnce'
  <2>1. \A c \in Callers : At(c, "create") => call[c].job \in Jobs \ {j}
    BY <1>2, BusyJob DEF TypeInv, CreatesOnce, At, Waits, Past
  <2> QED
    BY <1>2, <1>3, <2>1 DEF CreatesOnce, At
<1>8. \A w \in Workflows : IsOver(JobOf(w)) => IsOver(JobOf(w))'
  BY <1>3, JobOfType DEF IsOver, JobOf
<1>9. \A w \in Workflows : \A b \in answers :
         \/ b \in answers' \/ b[1] # JobOf(w) \/ b[2] = "pending" \/ IsOver(JobOf(w))'
  BY <1>1, <1>2, <1>3 DEF IsOver, JobOf
<1>10. PendingThrew' /\ AnsweredSettled' /\ GoneSettled'
  BY <1>2, <1>8, <1>9, SettledsKept
<1> QED
  BY <1>4, <1>6, <1>7, <1>10

LEMMA PublishStep ==
    ASSUME IInv, NEW j \in unpublished, Publish(j), UNCHANGED runVars
    PROVE  IInv'
<1> USE DEF IInv
<1>0. j \in Jobs
  BY DEF TypeInv
<1>1. PICK H \in SUBSET Callers :
         call' = [c \in Callers |->
                    IF c \in H THEN [st |-> "return", job |-> j, val |-> value[j]] ELSE call[c]]
  <2>1. PICK H : H = {c \in Callers : IF IsWorkflow(j) THEN c \in Waiting(j) /\ call[c].subscribed
                                     ELSE At(c, "await") /\ call[c].job = j}
    OBVIOUS
  <2> QED
    BY <2>1, SMTT(30) DEF Publish
<1>2. call' \in [Callers -> CallSet]
  BY <1>0, <1>1 DEF TypeInv, CallSet
<1>3. UNCHANGED <<job, value, entry, due, answers, run, threw>> /\ unpublished' \in SUBSET Jobs
  BY DEF Publish, runVars, TypeInv
<1>4. TypeInv'
  BY <1>2, <1>3 DEF TypeInv
<1>5. CreatesOnce'
  BY <1>1, <1>3 DEF CreatesOnce, At
<1>6. Begun'
  BY <1>3, BegunKept DEF Begun, Runs, Past
<1>7. \A w \in Workflows : IsOver(JobOf(w)) => IsOver(JobOf(w))'
  BY <1>3 DEF IsOver, JobOf
<1>8. PendingThrew' /\ AnsweredSettled' /\ GoneSettled'
  BY <1>3, <1>7, SettledsKept
<1> QED
  BY <1>4, <1>5, <1>6, <1>8

\* A worker takes the entry of w, or claims it, and begins a run.
LEMMA BeginRunStep ==
    ASSUME IInv, NEW k \in Workers, NEW w \in Workflows,
           entry[w].st \in {"queued", "pending"}, BeginRun(k, w),
           UNCHANGED <<job, value, due, answers, unpublished, call, threw>>
    PROVE  IInv'
<1> USE DEF IInv
<1>1. /\ entry' = [entry EXCEPT ![w] = [st |-> "pending", count |-> @.count + 1]]
      /\ run' = [run EXCEPT ![k] = [st |-> "running", of |-> w, counter |-> 0, val |-> "own"]]
  BY DEF BeginRun
<1>2. /\ entry'[w].st = "pending" /\ \A v \in Workflows \ {w} : entry'[v] = entry[v]
      /\ run'[k].st = "running" /\ run'[k].of = w
      /\ \A l \in Workers \ {k} : run'[l] = run[l]
  BY <1>1 DEF TypeInv
<1>3. TypeInv'
  <2>1. entry' \in [Workflows -> [st : {"none", "queued", "pending", "gone"}, count : Nat]]
    BY <1>1 DEF TypeInv
  <2>2. run' \in [Workers -> RunSet]
    BY <1>1 DEF TypeInv, RunSet, Values
  <2> QED
    BY <2>1, <2>2 DEF TypeInv
<1>4. Past(JobOf(w))
  BY DEF Begun
<1>5. Begun'
  <2>1. \A l \in Workers : run'[l].st # "idle" =>
           \/ run[l].st # "idle" /\ run'[l].of = run[l].of
           \/ Past(JobOf(run[l].of))'
    BY <1>2, <1>4 DEF Past, JobOf
  <2>2. \A v \in Workflows : entry'[v].st # "none" => entry[v].st # "none" \/ Past(JobOf(v))'
    BY <1>2
  <2> QED
    BY <2>1, <2>2, BegunKept DEF Past
<1>6. CreatesOnce'
  BY DEF CreatesOnce, At
<1>7. \A v \in Workflows : IsOver(JobOf(v)) => IsOver(JobOf(v))'
  BY DEF IsOver, JobOf
<1>8. PendingThrew' /\ AnsweredSettled' /\ GoneSettled'
  <2>1. \A l \in Workers : run'[l].st = "answered" => run[l].st = "answered" /\ run'[l].of = run[l].of
    BY <1>2
  <2> QED
    BY <1>2, <1>7, <2>1, SettledsKept
<1> QED
  BY <1>3, <1>5, <1>6, <1>8

LEMMA TakeStep ==
    ASSUME IInv, NEW k \in Workers, NEW w \in Workflows, Take(k, w)
    PROVE  IInv'
  BY BeginRunStep DEF Take, callVars

LEMMA ClaimEntryStep ==
    ASSUME IInv, NEW k \in Workers, NEW w \in Workflows, Claim(k, w)
    PROVE  IInv'
<1> USE DEF IInv
<1>1. CASE WithinLimit(w)
  BY <1>1, BeginRunStep DEF Claim, Claimable, callVars
<1>2. CASE ~WithinLimit(w)
  <2>1. /\ answers' = answers \cup {<<JobOf(w), "error", "wrong">>}
        /\ entry' = [entry EXCEPT ![w].st = "gone"]
        /\ UNCHANGED <<job, value, due, unpublished, call, run, threw>>
        /\ entry[w].st = "pending"
    BY <1>2 DEF Claim, Claimable, callVars
  <2>2. /\ entry'[w].st = "gone" /\ \A v \in Workflows \ {w} : entry'[v] = entry[v]
        /\ entry' \in [Workflows -> [st : {"none", "queued", "pending", "gone"}, count : Nat]]
    BY <2>1 DEF TypeInv
  <2>3. TypeInv'
    BY <2>1, <2>2, JobOfType DEF TypeInv, Values
  <2>4. Past(JobOf(w))
    BY <2>1 DEF Begun
  <2>5. Begun'
    <3>1. \A a \in answers' : a \in answers \/ Past(a[1])'
      BY <2>1, <2>4 DEF Past, JobOf
    <3>2. \A v \in Workflows : entry'[v].st # "none" => entry[v].st # "none" \/ Past(JobOf(v))'
      BY <2>1, <2>2
    <3> QED
      BY <2>1, <3>1, <3>2, BegunKept DEF Past, Runs
  <2>6. CreatesOnce'
    BY <2>1 DEF CreatesOnce, At
  <2>7. Settled(w)'
    <3>1. PICK a : a = <<JobOf(w), "error", "wrong">>
      OBVIOUS
    <3>2. a \in answers' /\ a[1] = JobOf(w) /\ a[2] # "pending"
      BY <2>1, <3>1
    <3> QED
      BY <3>2 DEF Settled, JobOf
  <2>8. \A v \in Workflows : IsOver(JobOf(v)) => IsOver(JobOf(v))'
    BY <2>1 DEF IsOver, JobOf
  <2>9. PendingThrew' /\ AnsweredSettled' /\ GoneSettled'
    <3>1. \A v \in Workflows : entry'[v].st = "gone" => entry[v].st = "gone" \/ Settled(v)'
      BY <2>2, <2>7
    <3>2. \A a \in answers' : a \in answers \/ a[2] # "pending"
      BY <2>1
    <3> QED
      BY <2>1, <2>8, <3>1, <3>2, SettledsKept
  <2> QED
    BY <2>3, <2>5, <2>6, <2>9
<1> QED
  BY <1>1, <1>2

LEMMA NextCallStep ==
    ASSUME IInv, NEW k \in Workers, NextCall(k)
    PROVE  IInv'
<1> USE DEF IInv
<1>1. PICK w \in Workflows, n \in Nat : w = run[k].of /\ n = run[k].counter
  BY DEF NextCall, TypeInv, RunSet, Idle
<1>2. PICK r : r = run[k]
  OBVIOUS
<1>3. r \in [st : {"running"}, of : Workflows, counter : Nat, val : Values]
  BY <1>2 DEF NextCall, TypeInv, RunSet, Idle
<1>4. /\ run' = [run EXCEPT ![k].counter = n + 1]
      /\ \E st \in {"look", "claim"} :
            call' = [call EXCEPT ![k] = [st |-> st, job |-> CallJob(w, n + 1)]]
      /\ UNCHANGED <<jobVars, threw>>
      /\ n + 1 <= Len(Script[w])
  BY <1>1 DEF NextCall, BeginCall
<1>5. run' \in [Workers -> RunSet] /\ run'[k].st = "running" /\ run'[k].of = run[k].of
  <2>1. run' = [run EXCEPT ![k] = [r EXCEPT !.counter = n + 1]]
    BY <1>2, <1>4 DEF TypeInv
  <2>2. [r EXCEPT !.counter = n + 1] \in [st : {"running"}, of : Workflows, counter : Nat, val : Values]
    BY <1>3
  <2> QED
    BY <1>2, <1>3, <2>1, <2>2 DEF TypeInv, RunSet
<1>6. CallJob(w, n + 1) \in Jobs
  BY <1>4, CalledJobs
<1>7. /\ call' \in [Callers -> CallSet]
      /\ \A d \in Callers : call'[d].st = "create" => call'[d] = call[d]
  BY <1>4, <1>6 DEF TypeInv, CallSet, Waits, Callers
<1>8. \A l \in Workers \ {k} : run'[l] = run[l]
  BY <1>4 DEF TypeInv
<1>9. run[k].st = "running"
  BY DEF NextCall
<1> QED
  BY <1>4, <1>5, <1>7, <1>8, <1>9, CallOnlyStep

LEMMA EndCallStep ==
    ASSUME IInv, NEW k \in Workers, EndCall(k)
    PROVE  IInv'
<1> USE DEF IInv
<1>1. PICK r : r = run[k]
  OBVIOUS
<1>2. r \in [st : {"running"}, of : Workflows, counter : Nat, val : Values]
  BY <1>1 DEF EndCall, TypeInv, RunSet, Idle
<1>3. PICK v \in Values : run' = [run EXCEPT ![k] = [r EXCEPT !.val = v]]
  BY <1>1, <1>2 DEF EndCall, TypeInv, Values
<1>4. [r EXCEPT !.val = v] \in [st : {"running"}, of : Workflows, counter : Nat, val : Values]
  BY <1>2
<1>5. /\ run' \in [Workers -> RunSet] /\ run'[k].st = "running" /\ run'[k].of = run[k].of
      /\ \A l \in Workers \ {k} : run'[l] = run[l]
  BY <1>1, <1>2, <1>3, <1>4 DEF TypeInv, RunSet
<1>6. call' = [call EXCEPT ![k] = NoCall] /\ UNCHANGED <<jobVars, threw>>
  BY DEF EndCall
<1>7. /\ call' \in [Callers -> CallSet]
      /\ \A d \in Callers : call'[d].st = "create" => call'[d] = call[d]
  BY <1>6 DEF TypeInv, CallSet, NoCall, Callers
<1>8. run[k].st = "running"
  BY DEF EndCall
<1> QED
  BY <1>5, <1>6, <1>7, <1>8, CallOnlyStep

\* The run of k ends with an answer a, which settles its workflow.
LEMMA RespondStep ==
    ASSUME IInv, NEW k \in Workers, NEW w \in Workflows, NEW v \in Values,
           NEW status \in {"success", "pending"},
           run[k].st = "running", w = run[k].of, v = run[k].val,
           Respond(k, status),
           threw' = IF status = "pending" THEN threw \cup {w} ELSE threw,
           call' \in [Callers -> CallSet],
           \A d \in Callers : call'[d].st = "create" => call'[d] = call[d],
           UNCHANGED <<job, value, entry, due, unpublished>>
    PROVE  IInv'
<1> USE DEF IInv
<1>1. PICK a : a = <<JobOf(w), status, v>>
  OBVIOUS
<1>2. /\ answers' = answers \cup {a}
      /\ run' = [run EXCEPT ![k] = [st |-> "answered", of |-> w]]
  BY <1>1 DEF Respond, TypeInv
<1>3. /\ a[1] = JobOf(w) /\ a[2] = status
      /\ a \in Jobs \X {"success", "pending", "error"} \X Values
  BY <1>1, JobOfType
<1>4. /\ run' \in [Workers -> RunSet]
      /\ run'[k].st = "answered" /\ run'[k].of = w
      /\ \A l \in Workers \ {k} : run'[l] = run[l]
  BY <1>2 DEF TypeInv, RunSet
<1>5. TypeInv'
  BY <1>2, <1>3, <1>4 DEF TypeInv
<1>6. Past(JobOf(w))
  BY DEF Begun, Runs
<1>7. Begun'
  <2>1. \A b \in answers' : b \in answers \/ Past(b[1])'
    BY <1>2, <1>3, <1>6 DEF Past, JobOf
  <2>2. \A l \in Workers : run'[l].st # "idle" => run[l].st # "idle" /\ run'[l].of = run[l].of
    BY <1>4
  <2> QED
    BY <2>1, <2>2, BegunKept DEF Past
<1>8. CreatesOnce'
  BY DEF CreatesOnce, At
<1>9. Settled(w)'
  BY <1>2, <1>3 DEF Settled, JobOf
<1>10. \A u \in Workflows : IsOver(JobOf(u)) => IsOver(JobOf(u))'
  BY DEF IsOver, JobOf
<1>11. PendingThrew' /\ AnsweredSettled' /\ GoneSettled'
  <2>1. \A l \in Workers : run'[l].st = "answered" =>
           \/ run[l].st = "answered" /\ run'[l].of = run[l].of
           \/ Settled(run[l].of)'
    BY <1>4, <1>9 DEF Settled, IsOver, JobOf
  <2>2. \A b \in answers' :
           \/ b \in answers \/ b[2] # "pending"
           \/ \A u \in Workflows : b[1] = JobOf(u) => u \in threw'
    BY <1>2, <1>3, JobOfInjective
  <2> QED
    BY <1>2, <1>10, <2>1, <2>2, SettledsKept
<1> QED
  BY <1>5, <1>7, <1>8, <1>11

LEMMA AnswerStep ==
    ASSUME IInv, NEW k \in Workers, Answer(k)
    PROVE  IInv'
<1>1. PICK w \in Workflows, v \in Values : w = run[k].of /\ v = run[k].val
  BY DEF Answer, IInv, TypeInv, RunSet, Idle
<1> QED
  BY <1>1, RespondStep DEF Answer, callVars, IInv, TypeInv

LEMMA AnswerThrownStep ==
    ASSUME IInv, NEW k \in Workers, AnswerThrown(k)
    PROVE  IInv'
<1>1. PICK w \in Workflows, v \in Values : w = run[k].of /\ v = run[k].val
  BY DEF AnswerThrown, IInv, TypeInv, RunSet, Idle
<1>2. /\ call' \in [Callers -> CallSet]
      /\ \A d \in Callers : call'[d].st = "create" => call'[d] = call[d]
  BY DEF AnswerThrown, IInv, TypeInv, CallSet, NoCall, Callers
<1> QED
  BY <1>1, <1>2, RespondStep DEF AnswerThrown

LEMMA AcknowledgeStep ==
    ASSUME IInv, NEW k \in Workers, Acknowledge(k)
    PROVE  IInv'
<1> USE DEF IInv
<1>1. PICK w \in Workflows : w = run[k].of
  BY DEF Acknowledge, TypeInv, RunSet, Idle
<1>2. /\ entry' = [entry EXCEPT ![w].st = "gone"] /\ run' = [run EXCEPT ![k] = Idle]
      /\ UNCHANGED <<job, value, due, answers, unpublished, call, threw>>
      /\ Settled(w)
  BY <1>1 DEF Acknowledge, callVars, AnsweredSettled
<1>3. /\ entry' \in [Workflows -> [st : {"none", "queued", "pending", "gone"}, count : Nat]]
      /\ entry'[w].st = "gone" /\ \A v \in Workflows \ {w} : entry'[v] = entry[v]
      /\ run' \in [Workers -> RunSet]
      /\ run'[k].st = "idle" /\ \A l \in Workers \ {k} : run'[l] = run[l]
  BY <1>2 DEF TypeInv, RunSet, Idle
<1>4. TypeInv'
  BY <1>2, <1>3 DEF TypeInv
<1>5. Begun'
  <2>1. \A v \in Workflows : entry'[v].st # "none" => entry[v].st # "none" \/ Past(JobOf(v))'
    BY <1>1, <1>2, <1>3 DEF Begun, Runs, Past, JobOf, Acknowledge
  <2> QED
    BY <1>2, <1>3, <2>1, BegunKept DEF Past
<1>6. CreatesOnce'
  BY <1>2 DEF CreatesOnce, At
<1>7. Settled(w)'
  BY <1>2 DEF Settled, IsOver, JobOf
<1>8. \A u \in Workflows : IsOver(JobOf(u)) => IsOver(JobOf(u))'
  BY <1>2 DEF IsOver, JobOf
<1>9. PendingThrew' /\ AnsweredSettled' /\ GoneSettled'
  <2>1. \A v \in Workflows : entry'[v].st = "gone" => entry[v].st = "gone" \/ Settled(v)'
    BY <1>3, <1>7
  <2> QED
    BY <1>2, <1>3, <1>8, <2>1, SettledsKept
<1> QED
  BY <1>4, <1>5, <1>6, <1>9

LEMMA StopWorkerStep ==
    ASSUME IInv, NEW k \in Workers, StopWorker(k)
    PROVE  IInv'
<1>1. /\ run' \in [Workers -> RunSet]
      /\ run'[k].st = "idle" /\ \A l \in Workers \ {k} : run'[l] = run[l]
  BY DEF StopWorker, IInv, TypeInv, RunSet, Idle
<1>2. /\ call' \in [Callers -> CallSet]
      /\ \A d \in Callers : call'[d].st = "create" => call'[d] = call[d]
  BY DEF StopWorker, IInv, TypeInv, CallSet, NoCall, Callers
<1> QED
  BY <1>1, <1>2, CallOnlyStep DEF StopWorker

-----------------------------------------------------------------------------
(* Calls alone.                                                            *)

LEMMA UnmovedRuns ==
    ASSUME IInv, UNCHANGED <<jobVars, run, threw>>, call' \in [Callers -> CallSet],
           \A d \in Callers : call'[d].st = "create" => call'[d] = call[d]
    PROVE  IInv'
  BY CallOnlyStep DEF IInv, TypeInv

LEMMA WaitingStep ==
    ASSUME IInv, NEW c \in Callers, UNCHANGED runVars,
           Look(c) \/ Register(c) \/ Timeout(c) \/ ReadStatus(c) \/ Subscribe(c) \/ Recheck(c)
    PROVE  IInv'
<1> USE DEF IInv
<1>1. PICK j \in Jobs : j = call[c].job
  BY BusyJob DEF TypeInv, Waits, At, Look, Register, Timeout, ReadStatus, Subscribe, Recheck
<1>2. value[j] \in Values /\ "wrong" \in Values
  BY DEF TypeInv, Values
<1>3. UNCHANGED <<jobVars, run, threw>>
  BY DEF Look, Register, Timeout, ReadStatus, Subscribe, Recheck, runVars
<1>4. \/ call[c].st \in Waits /\ \E st \in Waits \ {"create"} : call' = CallTo(c, st)
      \/ \E v \in Values : call' = Return(c, v)
      \/ call' = Throw(c)
      \/ call' = [call EXCEPT ![c] = [st |-> "settle", job |-> j,
                                     subscribed |-> FALSE, rechecked |-> FALSE]]
      \/ At(c, "settle") /\ (\/ call' = [call EXCEPT ![c].subscribed = TRUE]
                             \/ call' = [call EXCEPT ![c].rechecked = TRUE])
  <2>1. CASE Look(c)
    <3>1. job[j] \in {"absent", "claimed", "open", "done", "failed"}
      BY DEF TypeInv
    <3>2. CASE job[j] = "absent"
      BY <1>1, <2>1, <3>2 DEF Look, Waits, At
    <3>3. CASE job[j] \in {"claimed", "open"}
      BY <1>1, <1>2, <2>1, <3>3 DEF Look, Waits, At
    <3>4. CASE job[j] \in {"done", "failed"}
      BY <1>1, <2>1, <3>4 DEF Look, Waits, At, IsOver
    <3> QED
      BY <3>1, <3>2, <3>3, <3>4
  <2>2. CASE Register(c)
    BY <2>2 DEF Register, Waits, At
  <2>3. CASE Timeout(c)
    BY <2>3 DEF Timeout
  <2>4. CASE ReadStatus(c)
    BY <1>1, <1>2, <2>4 DEF ReadStatus
  <2>5. CASE Subscribe(c)
    BY <2>5 DEF Subscribe
  <2>6. CASE Recheck(c)
    BY <1>1, <1>2, <2>6 DEF Recheck, Rechecked
  <2> QED
    BY <2>1, <2>2, <2>3, <2>4, <2>5, <2>6
<1>5. /\ call' \in [Callers -> CallSet]
      /\ \A d \in Callers : call'[d].st = "create" => call'[d] = call[d]
  <2>1. call \in [Callers -> CallSet]
    BY DEF TypeInv
  <2>2. ASSUME call' = [call EXCEPT ![c] = [st |-> "settle", job |-> j,
                                          subscribed |-> FALSE, rechecked |-> FALSE]]
        PROVE  /\ call' \in [Callers -> CallSet] /\ call'[c].st = "settle"
               /\ \A d \in Callers \ {c} : call'[d] = call[d]
    BY <2>1, <2>2 DEF CallSet
  <2> QED
    BY <1>1, <1>4, <2>1, <2>2, CallToStep, ReturnStep, ThrowStep, SettleStep
<1> QED
  BY <1>3, <1>5, UnmovedRuns

LEMMA StartStep ==
    ASSUME IInv, NEW s \in Starts, Start(s) \/ EndStart(s)
    PROVE  IInv'
<1> USE DEF IInv
<1>1. UNCHANGED <<jobVars, run, threw>>
  BY DEF Start, EndStart
<1>2. \/ UNCHANGED call
      \/ call' = [call EXCEPT ![s] = [st |-> "claim", job |-> JobOf(StartOf[s])]]
      \/ call' = [call EXCEPT ![s] = NoCall]
  BY DEF Start, EndStart, BeginCall
<1>3. JobOf(StartOf[s]) \in Jobs
  BY JobOfType, StartOfAssumption
<1>4. /\ call' \in [Callers -> CallSet]
      /\ \A d \in Callers : call'[d].st = "create" => call'[d] = call[d]
  BY <1>2, <1>3 DEF TypeInv, CallSet, NoCall, Waits, Callers
<1> QED
  BY <1>1, <1>4, UnmovedRuns

-----------------------------------------------------------------------------
(* The invariant, and what follows from it.                                *)

LEMMA InitHolds == Init => IInv
<1> SUFFICES ASSUME Init PROVE IInv
  OBVIOUS
<1>1. TypeInv
  BY DEF Init, CallsInit, TypeInv, NoEntry, NoCall, Idle, CallSet, RunSet, Values
<1>2. Begun
  BY DEF Init, CallsInit, Begun, NoEntry, Runs, Idle
<1>3. CreatesOnce
  BY DEF Init, CallsInit, CreatesOnce, NoCall, At
<1>4. PendingThrew /\ AnsweredSettled /\ GoneSettled
  BY DEF Init, CallsInit, PendingThrew, AnsweredSettled, GoneSettled, NoEntry, Idle
<1> QED
  BY <1>1, <1>2, <1>3, <1>4 DEF IInv

LEMMA StepHolds == IInv /\ [Next]_vars => IInv'
<1> SUFFICES ASSUME IInv, [Next]_vars PROVE IInv'
  OBVIOUS
<1>1. ASSUME NEW c \in Callers, CallStep(c), UNCHANGED runVars
      PROVE  IInv'
  BY <1>1, ClaimIdStep, CreateStep, WaitingStep DEF CallStep
<1>2. ASSUME EngineStep, UNCHANGED runVars
      PROVE  IInv'
  BY <1>2, PerformStep, ConcludeStep, PublishStep DEF EngineStep
<1>3. ASSUME NEW k \in Workers, WorkerStep(k) \/ StopWorker(k)
      PROVE  IInv'
  BY <1>3, TakeStep, ClaimEntryStep, NextCallStep, EndCallStep, AnswerStep, AnswerThrownStep,
     AcknowledgeStep, StopWorkerStep DEF WorkerStep
<1>4. CASE UNCHANGED <<jobVars, callVars, runVars>>
  BY <1>4, UnmovedRuns DEF callVars, runVars, IInv, TypeInv
<1>5. CASE UNCHANGED vars
  BY <1>4, <1>5 DEF vars
<1> QED
  BY <1>1, <1>2, <1>3, <1>4, <1>5, StartStep DEF Next

\* An entry is acknowledged only when its workflow's response is published, or
\* its job failed for good, or a run of it threw: whichever worker took it, and
\* wherever workers stop in between.
THEOREM NothingForgotten == Spec => []NotForgotten
<1>1. IInv => NotForgotten
  BY DEF IInv, GoneSettled, Settled, IsOver, NotForgotten
<1> QED
  BY <1>1, InitHolds, StepHolds, PTL DEF Spec

-----------------------------------------------------------------------------
(* What comes back wrong.  A workflow's first run finds none of its         *)
(* activities' jobs: only a run of it creates them, at the call it has come *)
(* to, and until the entry is delivered again there is one such run.        *)

Delivered(w) == entry[w].count > 0
Many(w) == entry[w].count > 1
Stray(w) == Many(w) \/ ChildWrong(w)

Has(k, w) == Runs(k) /\ run[k].of = w
Running(k, w) == run[k].st = "running" /\ run[k].of = w
Asks(k) == call[k].st \in {"look", "claim"}

\* A start calls a workflow, a run what its script says; it looks up activities only.
CallsOfRuns ==
    /\ \A s \in Starts : call[s].st # "none" => IsWorkflow(call[s].job)
    /\ \A k \in Workers : call[k].st # "none" =>
         \E w \in Workflows : \E n \in DOMAIN Script[w] :
           /\ Running(k, w) /\ run[k].counter = n /\ call[k].job = CallJob(w, n)
           /\ call[k].st = "look" => Script[w][n] = "activity"

RunsCounted ==
    \A k \in Workers : \A w \in Workflows : Has(k, w) =>
      Delivered(w) /\ \A l \in Workers \ {k} : Has(l, w) => Many(w)

FirstRun ==
    \A w \in Workflows : \A n \in DOMAIN Script[w] :
      (Script[w][n] = "activity" /\ job[<<w, n>>] # "absent" /\ ~Many(w)) =>
        /\ Delivered(w)
        /\ \A k \in Workers : Running(k, w) =>
             n <= run[k].counter /\ (n = run[k].counter => ~Asks(k))

\* Activities answer what is theirs; nothing but an end sets a value.
ValuesOver ==
    /\ \A j \in Jobs :
         /\ IsOver(j) => value[j] \in {"own", "wrong"}
         /\ ~IsOver(j) => value[j] = "none"
         /\ ~IsWorkflow(j) => value[j] # "wrong"
    /\ \A j \in unpublished : IsOver(j)
    /\ \A a \in answers :
         /\ a[2] # "pending" => a[3] \in {"own", "wrong"}
         /\ ~IsWorkflow(a[1]) => a[3] # "wrong"
    /\ \A k \in Workers : run[k].st = "running" => run[k].val \in {"own", "wrong"}

WrongStrays ==
    \A w \in Workflows :
      /\ value[JobOf(w)] = "wrong" => Stray(w)
      /\ \A a \in answers : (a[1] = JobOf(w) /\ a[3] = "wrong") => Stray(w)
      /\ \A k \in Workers : Running(k, w) =>
           /\ run[k].val = "wrong" => Stray(w)
           /\ (call[k].st = "return" /\ call[k].val # "own") => Stray(w)
           /\ call[k].st = "listen" => Many(w)

StrayInv == CallsOfRuns /\ RunsCounted /\ FirstRun /\ ValuesOver /\ WrongStrays

-----------------------------------------------------------------------------
(* What a step leaves of these.                                            *)

\* What is wrong stays wrong, and no delivery is taken back.
LEMMA StrayKept ==
    ASSUME \A v \in Workflows : Many(v) => Many(v)',
           \A v \in Workflows : value[JobOf(v)] = "wrong" => value'[JobOf(v)] = "wrong"
    PROVE  \A w \in Workflows : Stray(w) => Stray(w)'
<1> SUFFICES ASSUME NEW w \in Workflows, ChildWrong(w) PROVE ChildWrong(w)'
  BY DEF Stray
<1>1. PICK n \in DOMAIN Script[w] :
         Script[w][n] # "activity" /\ value[JobOf(Script[w][n])] = "wrong"
  BY DEF ChildWrong
<1>2. Script[w][n] \in Workflows
  BY <1>1, ScriptAssumption
<1>3. value'[JobOf(Script[w][n])] = "wrong"
  BY <1>1, <1>2
<1> QED
  BY <1>1, <1>3 DEF ChildWrong, JobOf

\* A call that goes on is a call for the same job.
LEMMA CallsKept ==
    ASSUME CallsOfRuns,
           \A c \in Callers : call'[c].st # "none" =>
               /\ call[c].st # "none" /\ call'[c].job = call[c].job
               /\ call'[c].st = "look" => call[c].st = "look",
           \A k \in Workers : (run[k].st = "running" /\ call'[k].st # "none") =>
               run'[k].st = "running" /\ run'[k].of = run[k].of /\ run'[k].counter = run[k].counter
    PROVE  CallsOfRuns'
  BY DEF CallsOfRuns, Running, Callers, IsWorkflow, CallJob, JobOf

\* Runs end, and entries are delivered again.
LEMMA CountsKept ==
    ASSUME RunsCounted,
           \A w \in Workflows : (Delivered(w) => Delivered(w)') /\ (Many(w) => Many(w)'),
           \A k \in Workers : run'[k].st # "idle" => Runs(k) /\ run'[k].of = run[k].of
    PROVE  RunsCounted'
  BY DEF RunsCounted, Has, Runs

LEMMA CallNumbers ==
    ASSUME NEW w \in Workflows, NEW n \in DOMAIN Script[w]
    PROVE  n \in Nat
<1>1. Script[w] \in Seq({"activity"} \cup Workflows)
  BY ScriptAssumption
<1> QED
  BY <1>1

LEMMA RunNumbers ==
    ASSUME TypeInv, NEW k \in Workers, run[k].st = "running"
    PROVE  run[k].counter \in Nat
<1>1. run[k] \in RunSet
  BY DEF TypeInv
<1> QED
  BY <1>1 DEF RunSet, Idle

LEMMA FirstRunKept ==
    ASSUME TypeInv, FirstRun,
           \A w \in Workflows : (Delivered(w) => Delivered(w)') /\ (Many(w) => Many(w)'),
           \A w \in Workflows : \A n \in DOMAIN Script[w] :
               (Script[w][n] = "activity" /\ job'[<<w, n>>] # "absent") =>
                   job[<<w, n>>] # "absent",
           \A k \in Workers : run'[k].st = "running" =>
               /\ run[k].st = "running" /\ run'[k].of = run[k].of
               /\ \/ run'[k].counter = run[k].counter /\ (Asks(k)' => Asks(k))
                  \/ run'[k].counter = run[k].counter + 1
    PROVE  FirstRun'
<1> SUFFICES ASSUME NEW w \in Workflows, NEW n \in DOMAIN Script[w],
                    Script[w][n] = "activity", job'[<<w, n>>] # "absent", ~Many(w)'
             PROVE  /\ Delivered(w)'
                    /\ \A k \in Workers : Running(k, w)' =>
                         n <= run'[k].counter /\ (n = run'[k].counter => ~Asks(k)')
  BY DEF FirstRun
<1>1. ~Many(w) /\ job[<<w, n>>] # "absent"
  OBVIOUS
<1>2. Delivered(w)'
  BY <1>1 DEF FirstRun
<1>3. ASSUME NEW k \in Workers, Running(k, w)'
      PROVE  n <= run'[k].counter /\ (n = run'[k].counter => ~Asks(k)')
  <2>1. Running(k, w)
    BY <1>3 DEF Running
  <2>2. n <= run[k].counter /\ (n = run[k].counter => ~Asks(k))
    BY <1>1, <2>1 DEF FirstRun
  <2>3. run[k].counter \in Nat /\ n \in Nat
    BY <2>1, CallNumbers, RunNumbers DEF Running
  <2>4. CASE run'[k].counter = run[k].counter /\ (Asks(k)' => Asks(k))
    BY <2>2, <2>4
  <2>5. CASE run'[k].counter = run[k].counter + 1
    BY <2>2, <2>3, <2>5
  <2> QED
    BY <1>3, <2>4, <2>5 DEF Running
<1> QED
  BY <1>2, <1>3

LEMMA WrongsKept ==
    ASSUME WrongStrays,
           \A w \in Workflows : (Many(w) => Many(w)') /\ (Stray(w) => Stray(w)'),
           \A w \in Workflows : value'[JobOf(w)] = "wrong" =>
               value[JobOf(w)] = "wrong" \/ Stray(w)',
           \A w \in Workflows : \A a \in answers' : (a[1] = JobOf(w) /\ a[3] = "wrong") =>
               a \in answers \/ Stray(w)',
           \A w \in Workflows : \A k \in Workers : Running(k, w)' =>
               /\ run'[k].val = "wrong" =>
                    (Running(k, w) /\ run[k].val = "wrong") \/ Stray(w)'
               /\ (call'[k].st = "return" /\ call'[k].val # "own") =>
                    (Running(k, w) /\ call[k].st = "return" /\ call[k].val # "own") \/ Stray(w)'
               /\ call'[k].st = "listen" =>
                    (Running(k, w) /\ call[k].st = "listen") \/ Many(w)'
    PROVE  WrongStrays'
<1>1. ASSUME NEW w \in Workflows
      PROVE  /\ value'[JobOf(w)] = "wrong" => Stray(w)'
             /\ \A a \in answers' : (a[1] = JobOf(w) /\ a[3] = "wrong") => Stray(w)'
  BY DEF WrongStrays
<1>2. ASSUME NEW w \in Workflows, NEW k \in Workers, Running(k, w)'
      PROVE  /\ run'[k].val = "wrong" => Stray(w)'
             /\ (call'[k].st = "return" /\ call'[k].val # "own") => Stray(w)'
             /\ call'[k].st = "listen" => Many(w)'
  BY <1>2 DEF WrongStrays
<1> QED
  BY <1>1, <1>2 DEF WrongStrays, JobOf

LEMMA ValuesStay ==
    ASSUME ValuesOver, value' = value, unpublished' \subseteq unpublished,
           \A j \in Jobs \cup unpublished : IsOver(j)' <=> IsOver(j),
           \A a \in answers' :
               \/ a \in answers
               \/ /\ a[2] # "pending" => a[3] \in {"own", "wrong"}
                  /\ ~IsWorkflow(a[1]) => a[3] # "wrong",
           \A k \in Workers : run'[k].st = "running" =>
               run'[k].val \in {"own", "wrong"} \/ (run[k].st = "running" /\ run'[k].val = run[k].val)
    PROVE  ValuesOver'
  BY DEF ValuesOver, IsWorkflow

\* Calls move, and nothing else.
LEMMA CallsMove ==
    ASSUME IInv, StrayInv, UNCHANGED <<jobVars, run>>,
           \A c \in Callers : call'[c].st # "none" =>
               /\ call[c].st # "none" /\ call'[c].job = call[c].job
               /\ call'[c].st = "look" => call[c].st = "look",
           \A c \in Callers : Asks(c)' => Asks(c),
           \A w \in Workflows : \A k \in Workers : Running(k, w) =>
               /\ (call'[k].st = "return" /\ call'[k].val # "own") =>
                    (call[k].st = "return" /\ call[k].val # "own") \/ Stray(w)
               /\ call'[k].st = "listen" => call[k].st = "listen" \/ Many(w)
    PROVE  StrayInv'
<1> USE DEF IInv, StrayInv
<1>1. /\ \A w \in Workflows : Many(w)' <=> Many(w)
      /\ \A w \in Workflows : Delivered(w)' <=> Delivered(w)
      /\ \A w \in Workflows : Stray(w)' <=> Stray(w)
  BY DEF Many, Delivered, Stray, ChildWrong, jobVars, JobOf
<1>2. CallsOfRuns'
  BY CallsKept
<1>3. RunsCounted'
  BY <1>1, CountsKept DEF Runs
<1>4. FirstRun'
  BY <1>1, FirstRunKept DEF jobVars, Callers
<1>5. ValuesOver'
  BY ValuesStay DEF jobVars, IsOver
<1>6. WrongStrays'
  BY <1>1, WrongsKept DEF jobVars, Running
<1> QED
  BY <1>2, <1>3, <1>4, <1>5, <1>6

\* A run in a call of an activity whose job is there, or about to be looked up
\* and there, is not the first.
LEMMA FoundAgain ==
    ASSUME IInv, StrayInv, NEW k \in Workers, NEW w \in Workflows, Running(k, w),
           call[k].st = "look", job[call[k].job] # "absent"
    PROVE  Many(w)
<1>1. PICK n \in DOMAIN Script[w] :
         run[k].counter = n /\ call[k].job = CallJob(w, n) /\ Script[w][n] = "activity"
  BY DEF StrayInv, CallsOfRuns, Running
<1>2. call[k].job = <<w, n>>
  BY <1>1 DEF CallJob
<1> QED
  BY <1>1, <1>2 DEF StrayInv, FirstRun, Asks

\* A job that is over returns what is wrong only if it is a workflow's.
LEMMA WrongChild ==
    ASSUME IInv, StrayInv, NEW k \in Workers, NEW w \in Workflows, Running(k, w),
           call[k].st # "none", IsOver(call[k].job), value[call[k].job] # "own"
    PROVE  Stray(w)
<1>1. PICK n \in DOMAIN Script[w] : call[k].job = CallJob(w, n)
  BY DEF StrayInv, CallsOfRuns, Running
<1>2. CASE Script[w][n] = "activity"
  <2>1. call[k].job \in Jobs /\ ~IsWorkflow(call[k].job)
    <3>1. n # 0
      BY ScriptAssumption
    <3> QED
      BY <1>1, <1>2, <3>1 DEF CallJob, Jobs, IsWorkflow
  <2> QED
    BY <2>1 DEF StrayInv, ValuesOver
<1>3. CASE Script[w][n] # "activity"
  <2>1. call[k].job = JobOf(Script[w][n]) /\ call[k].job \in Jobs
    BY <1>1, <1>3, ScriptAssumption, JobOfType DEF CallJob
  <2>2. value[JobOf(Script[w][n])] = "wrong"
    BY <2>1 DEF StrayInv, ValuesOver
  <2> QED
    BY <1>3, <2>2 DEF Stray, ChildWrong
<1> QED
  BY <1>2, <1>3

LEMMA WaitingStray ==
    ASSUME IInv, StrayInv, NEW c \in Callers, UNCHANGED runVars,
           Look(c) \/ Register(c) \/ Timeout(c) \/ ReadStatus(c) \/ Subscribe(c) \/ Recheck(c)
    PROVE  StrayInv'
<1>1. PICK j \in Jobs : j = call[c].job
  BY BusyJob DEF IInv, TypeInv, Waits, At, Look, Register, Timeout, ReadStatus, Subscribe, Recheck
<1>2. UNCHANGED <<jobVars, run>> /\ call[c].st # "none" /\ call \in [Callers -> CallSet]
  BY DEF Look, Register, Timeout, ReadStatus, Subscribe, Recheck, runVars, At, IInv, TypeInv
<1>3. /\ \A d \in Callers \ {c} : call'[d] = call[d]
      /\ call'[c].job = call[c].job
      /\ call'[c].st # "look"
      /\ Asks(c)' => Asks(c)
      /\ call'[c].st = "return" =>
           \/ call[c].st = "look" /\ job[j] # "absent"
           \/ IsOver(j) /\ call'[c].val = value[j]
      /\ call'[c].st = "listen" => call[c].st = "look" /\ job[j] # "absent"
  <2>1. CASE Look(c)
    <3>1. CASE job[j] = "absent"
      <4>1. call' = CallTo(c, "claim")
        BY <1>1, <2>1, <3>1 DEF Look, IsOver
      <4> QED
        BY <1>1, <1>2, <2>1, <4>1, CallToStep DEF Look, At, Asks, Waits
    <3>2. CASE job[j] \in {"claimed", "open"}
      <4>1. call' = Return(c, "wrong") /\ job[j] # "absent"
        BY <1>1, <2>1, <3>2 DEF Look, IsOver
      <4>2. "wrong" \in Values
        BY DEF Values
      <4>3. call'[c].st = "return" /\ call'[c].job = call[c].job
            /\ \A d \in Callers \ {c} : call'[d] = call[d]
        BY <1>2, <4>1 DEF Return
      <4> QED
        BY <1>1, <1>2, <2>1, <4>1, <4>3 DEF Look, At, Asks
    <3>3. CASE IsOver(j)
      <4>1. job[j] \in {"done", "failed"}
        BY <3>3 DEF IsOver
      <4>2. call' = CallTo(c, "listen")
        BY <1>1, <2>1, <4>1 DEF Look, IsOver
      <4> QED
        BY <1>1, <1>2, <2>1, <4>1, <4>2, CallToStep DEF Look, At, Asks, Waits
    <3>4. job[j] \in {"absent", "claimed", "open", "done", "failed"}
      BY DEF IInv, TypeInv
    <3> QED
      BY <3>1, <3>2, <3>3, <3>4 DEF IsOver
  <2>2. CASE Register(c)
    BY <1>2, <2>2, CallToStep DEF Register, At, Waits, Asks
  <2>3. CASE Timeout(c)
    BY <1>2, <2>3 DEF Timeout, Throw, Asks
  <2>4. CASE ReadStatus(c)
    BY <1>1, <1>2, <2>4 DEF ReadStatus, Return, Asks
  <2>5. CASE Subscribe(c)
    BY <1>2, <2>5, SettleStep DEF Subscribe, At, Asks, CallSet
  <2>6. CASE Recheck(c)
    <3>1. CASE IsOver(j)
      BY <1>1, <1>2, <2>6, <3>1 DEF Recheck, Rechecked, Return, Asks
    <3>2. CASE ~IsOver(j)
      BY <1>1, <1>2, <2>6, <3>2, SettleStep DEF Recheck, Rechecked, At, Asks
    <3> QED
      BY <3>1, <3>2
  <2> QED
    BY <2>1, <2>2, <2>3, <2>4, <2>5, <2>6
<1>4. ASSUME NEW w \in Workflows, NEW k \in Workers, Running(k, w)
      PROVE  /\ (call'[k].st = "return" /\ call'[k].val # "own") =>
                  (call[k].st = "return" /\ call[k].val # "own") \/ Stray(w)
             /\ call'[k].st = "listen" => call[k].st = "listen" \/ Many(w)
  <2>1. CASE k = c
    BY <1>1, <1>2, <1>3, <1>4, <2>1, FoundAgain, WrongChild DEF Stray
  <2>2. CASE k # c
    BY <1>3, <2>2 DEF Callers
  <2> QED
    BY <2>1, <2>2
<1>5. \A d \in Callers : (Asks(d)' => Asks(d)) /\ (call'[d].st # "none" =>
               /\ call[d].st # "none" /\ call'[d].job = call[d].job
               /\ call'[d].st = "look" => call[d].st = "look")
  BY <1>2, <1>3 DEF Asks
<1> QED
  BY <1>2, <1>4, <1>5, CallsMove

\* The first run creates the job of the call it is in, and no other run does.
LEMMA ClaimIdStray ==
    ASSUME IInv, StrayInv, NEW c \in Callers, ClaimId(c), UNCHANGED runVars
    PROVE  StrayInv'
<1> USE DEF IInv, StrayInv
<1>1. PICK j \in Jobs : j = call[c].job
  BY BusyJob DEF TypeInv, ClaimId, At, Waits
<1>2. call \in [Callers -> CallSet] /\ call[c].st = "claim"
  BY DEF ClaimId, At, TypeInv
<1>3. CASE job[j] # "absent"
  <2>1. call' = Throw(c) /\ UNCHANGED <<jobVars, run>>
    BY <1>1, <1>3 DEF ClaimId, jobVars, runVars
  <2>2. /\ call'[c].st = "throw" /\ call'[c].job = call[c].job
        /\ \A d \in Callers \ {c} : call'[d] = call[d]
    BY <1>2, <2>1 DEF Throw
  <2>3. \A d \in Callers : (Asks(d)' => Asks(d)) /\ (call'[d].st # "none" =>
               /\ call[d].st # "none" /\ call'[d].job = call[d].job
               /\ call'[d].st = "look" => call[d].st = "look")
    BY <1>2, <2>2 DEF Asks
  <2>4. \A d \in Callers : call'[d].st \in {"return", "listen"} => call'[d] = call[d]
    BY <2>2
  <2> QED
    BY <2>1, <2>3, <2>4, CallsMove DEF Callers
<1>4. CASE job[j] = "absent"
  <2>1. /\ job' = [job EXCEPT ![j] = "claimed"] /\ call' = CallTo(c, "create")
        /\ UNCHANGED <<value, entry, due, answers, unpublished, run, threw>>
    BY <1>1, <1>4 DEF ClaimId, runVars
  <2>2. /\ call'[c].st = "create" /\ call'[c].job = j
        /\ \A d \in Callers \ {c} : call'[d] = call[d]
    BY <1>1, <1>2, <2>1, CallToStep DEF Waits
  <2>3. job'[j] = "claimed" /\ \A i \in Jobs \ {j} : job'[i] = job[i]
    BY <2>1 DEF TypeInv
  <2>4. /\ \A w \in Workflows : Many(w)' <=> Many(w)
        /\ \A w \in Workflows : Delivered(w)' <=> Delivered(w)
        /\ \A w \in Workflows : Stray(w)' <=> Stray(w)
    BY <2>1 DEF Many, Delivered, Stray, ChildWrong, JobOf
  <2>5. CallsOfRuns'
    <3>1. \A d \in Callers : call'[d].st # "none" =>
               /\ call[d].st # "none" /\ call'[d].job = call[d].job
               /\ call'[d].st = "look" => call[d].st = "look"
      BY <1>1, <1>2, <2>2
    <3> QED
      BY <2>1, <3>1, CallsKept
  <2>6. RunsCounted'
    BY <2>1, <2>4, CountsKept DEF Runs
  <2>7. FirstRun'
    <3> SUFFICES ASSUME NEW w \in Workflows, NEW n \in DOMAIN Script[w],
                        Script[w][n] = "activity", job'[<<w, n>>] # "absent", ~Many(w)
                 PROVE  /\ Delivered(w)
                        /\ \A k \in Workers : Running(k, w) =>
                             n <= run[k].counter /\ (n = run[k].counter => ~Asks(k)')
      BY <2>1, <2>4 DEF FirstRun, Running
    <3>1. CASE job[<<w, n>>] # "absent"
      <4>1. \A k \in Workers : Asks(k)' => Asks(k)
        BY <2>2 DEF Asks, Callers
      <4> QED
        BY <3>1, <4>1 DEF FirstRun
    <3>2. CASE job[<<w, n>>] = "absent"
      <4>1. <<w, n>> \in Jobs /\ n \in Nat /\ n # 0
        BY ScriptAssumption DEF Jobs
      <4>2. j = <<w, n>>
        BY <2>3, <3>2, <4>1
      <4>3. c \in Workers
        <5>1. ~IsWorkflow(call[c].job)
          BY <1>1, <4>1, <4>2 DEF IsWorkflow
        <5>2. call[c].st # "none"
          BY <1>2
        <5> QED
          BY <5>1, <5>2 DEF CallsOfRuns, Callers
      <4>4. PICK v \in Workflows : \E m \in DOMAIN Script[v] :
               Running(c, v) /\ run[c].counter = m /\ j = CallJob(v, m)
        BY <1>1, <1>2, <4>3 DEF CallsOfRuns
      <4>5. v = w /\ run[c].counter = n
        BY <4>1, <4>2, <4>4 DEF CallJob, JobOf
      <4>6. Delivered(w) /\ \A k \in Workers \ {c} : ~Running(k, w)
        BY <4>3, <4>4, <4>5 DEF RunsCounted, Has, Running, Runs
      <4> QED
        BY <2>2, <4>1, <4>3, <4>5, <4>6 DEF Asks
    <3> QED
      BY <3>1, <3>2
  <2>8. ValuesOver'
    <3>1. \A i \in Jobs \cup unpublished : IsOver(i)' <=> IsOver(i)
      BY <1>4, <2>3 DEF TypeInv, IsOver
    <3> QED
      BY <2>1, <3>1, ValuesStay
  <2>9. WrongStrays'
    <3>1. \A k \in Workers : call'[k].st \in {"return", "listen"} => call'[k] = call[k]
      BY <2>2 DEF Callers
    <3> QED
      BY <2>1, <2>4, <3>1, WrongsKept DEF Running
  <2> QED
    BY <2>5, <2>6, <2>7, <2>8, <2>9
<1> QED
  BY <1>3, <1>4

LEMMA CreateStray ==
    ASSUME IInv, StrayInv, NEW c \in Callers, Create(c), UNCHANGED runVars
    PROVE  StrayInv'
<1> USE DEF IInv, StrayInv
<1>1. PICK j \in Jobs : j = call[c].job
  BY BusyJob DEF TypeInv, Create, At, Waits
<1>2. call \in [Callers -> CallSet] /\ call[c].st = "create"
  BY DEF Create, At, TypeInv
<1>3. /\ job[j] = "claimed" /\ job' = [job EXCEPT ![j] = "open"]
      /\ UNCHANGED <<value, answers, unpublished, run, threw>>
  BY <1>1 DEF Create, CreatesOnce, runVars
<1>4. job'[j] = "open" /\ \A i \in Jobs \ {j} : job'[i] = job[i]
  BY <1>3 DEF TypeInv
<1>5. /\ call'[c].st \in {"status", "register"} /\ call'[c].job = j
      /\ \A d \in Callers \ {c} : call'[d] = call[d]
  <2>1. call' = CallTo(c, "status") \/ call' = CallTo(c, "register")
    BY DEF Create
  <2> QED
    BY <1>1, <1>2, <2>1, CallToStep DEF Waits
<1>6. \A w \in Workflows : entry'[w].count = entry[w].count
  <2>1. CASE IsWorkflow(j)
    <3>1. PICK w \in Workflows : w = j[1]
      BY <2>1, WorkflowJobs
    <3>2. entry' = [entry EXCEPT ![w].st = "queued"]
      BY <1>1, <2>1, <3>1 DEF Create
    <3> QED
      BY <3>1, <3>2 DEF TypeInv
  <2>2. CASE ~IsWorkflow(j)
    BY <1>1, <2>2 DEF Create
  <2> QED
    BY <2>1, <2>2
<1>7. /\ \A w \in Workflows : Many(w)' <=> Many(w)
      /\ \A w \in Workflows : Delivered(w)' <=> Delivered(w)
      /\ \A w \in Workflows : Stray(w)' <=> Stray(w)
  BY <1>3, <1>6 DEF Many, Delivered, Stray, ChildWrong, JobOf
<1>8. CallsOfRuns'
  <2>1. \A d \in Callers : call'[d].st # "none" =>
             /\ call[d].st # "none" /\ call'[d].job = call[d].job
             /\ call'[d].st = "look" => call[d].st = "look"
    BY <1>1, <1>2, <1>5
  <2> QED
    BY <1>3, <2>1, CallsKept
<1>9. RunsCounted'
  BY <1>3, <1>7, CountsKept DEF Runs
<1>10. FirstRun'
  <2>1. \A i \in Jobs : job'[i] # "absent" => job[i] # "absent"
    BY <1>3, <1>4
  <2>2. \A w \in Workflows : \A n \in DOMAIN Script[w] :
           Script[w][n] = "activity" => <<w, n>> \in Jobs
    BY DEF Jobs
  <2>3. \A k \in Workers : Asks(k)' => Asks(k)
    BY <1>5 DEF Asks, Callers
  <2> QED
    BY <1>3, <1>7, <2>1, <2>2, <2>3, FirstRunKept
<1>11. ValuesOver'
  <2>1. \A i \in Jobs \cup unpublished : IsOver(i)' <=> IsOver(i)
    BY <1>3, <1>4 DEF TypeInv, IsOver
  <2> QED
    BY <1>3, <2>1, ValuesStay
<1>12. WrongStrays'
  <2>1. \A k \in Workers : call'[k].st \in {"return", "listen"} => call'[k] = call[k]
    BY <1>5 DEF Callers
  <2> QED
    BY <1>3, <1>7, <2>1, WrongsKept DEF Running
<1> QED
  BY <1>8, <1>9, <1>10, <1>11, <1>12

\* What the engines do: no call begins, and no entry is delivered.
LEMMA EngineKeeps ==
    ASSUME IInv, StrayInv, UNCHANGED <<entry, run>>,
           \A d \in Callers : call'[d] = call[d]
               \/ (call[d].st # "none" /\ call'[d].st = "return" /\ call'[d].job = call[d].job),
           \A j \in Jobs : job'[j] # "absent" => job[j] # "absent",
           \A w \in Workflows : Stray(w) => Stray(w)'
    PROVE  CallsOfRuns' /\ RunsCounted' /\ FirstRun'
<1> USE DEF IInv, StrayInv
<1>1. \A w \in Workflows : (Delivered(w)' <=> Delivered(w)) /\ (Many(w)' <=> Many(w))
  BY DEF Delivered, Many
<1>2. CallsOfRuns'
  <2>1. \A d \in Callers : call'[d].st # "none" =>
             /\ call[d].st # "none" /\ call'[d].job = call[d].job
             /\ call'[d].st = "look" => call[d].st = "look"
    OBVIOUS
  <2> QED
    BY <2>1, CallsKept
<1>3. RunsCounted'
  BY <1>1, CountsKept DEF Runs
<1>4. FirstRun'
  <2>1. \A w \in Workflows : \A n \in DOMAIN Script[w] :
           Script[w][n] = "activity" => <<w, n>> \in Jobs
    BY DEF Jobs
  <2>2. \A k \in Workers : Asks(k)' => Asks(k)
    BY DEF Asks, Callers
  <2> QED
    BY <1>1, <2>1, <2>2, FirstRunKept
<1> QED
  BY <1>2, <1>3, <1>4

LEMMA PerformStray ==
    ASSUME IInv, StrayInv, NEW j \in due, Perform(j), UNCHANGED runVars
    PROVE  StrayInv'
<1> USE DEF IInv, StrayInv
<1>1. UNCHANGED <<job, value, entry, unpublished, call, run, threw>>
  BY DEF Perform, callVars, runVars
<1>2. ~IsWorkflow(j)
  BY DEF Begun
<1>3. \A a \in answers' :
         a \in answers \/ (a[1] = j /\ (a[2] = "pending" \/ a[3] = "own") /\ a[3] # "wrong")
  BY DEF Perform
<1>4. /\ \A w \in Workflows : Many(w)' <=> Many(w)
      /\ \A w \in Workflows : Stray(w)' <=> Stray(w)
  BY <1>1 DEF Many, Stray, ChildWrong, JobOf
<1>5. CallsOfRuns' /\ RunsCounted' /\ FirstRun'
  BY <1>1, <1>4, EngineKeeps
<1>6. ValuesOver'
  BY <1>1, <1>2, <1>3, ValuesStay DEF IsOver
<1>7. WrongStrays'
  BY <1>1, <1>3, <1>4, WrongsKept DEF Running
<1> QED
  BY <1>5, <1>6, <1>7

LEMMA ConcludeStray ==
    ASSUME IInv, StrayInv, NEW a \in answers, Conclude(a), UNCHANGED runVars
    PROVE  StrayInv'
<1> USE DEF IInv, StrayInv
<1>1. PICK j \in Jobs : j = a[1]
  BY DEF TypeInv
<1>2. /\ answers' = answers \ {a}
      /\ UNCHANGED <<entry, due, call, run, threw>>
  BY DEF Conclude, callVars, runVars
<1>3. CASE ~EndsJob(a)
  <2>1. UNCHANGED <<job, value, unpublished>>
    BY <1>3 DEF Conclude
  <2>2. /\ \A w \in Workflows : Many(w)' <=> Many(w)
        /\ \A w \in Workflows : Stray(w)' <=> Stray(w)
    BY <1>2, <2>1 DEF Many, Stray, ChildWrong, JobOf
  <2>3. CallsOfRuns' /\ RunsCounted' /\ FirstRun'
    BY <1>2, <2>1, <2>2, EngineKeeps
  <2>4. ValuesOver'
    BY <1>2, <2>1, ValuesStay DEF IsOver
  <2>5. WrongStrays'
    BY <1>2, <2>1, <2>2, WrongsKept DEF Running
  <2> QED
    BY <2>3, <2>4, <2>5
<1>4. CASE EndsJob(a)
  <2>1. PICK v : v = a[3]
    OBVIOUS
  <2>2. /\ job' = [job EXCEPT ![j] = IF a[2] = "success" THEN "done" ELSE "failed"]
        /\ value' = [value EXCEPT ![j] = v]
        /\ unpublished' = unpublished \cup {j}
        /\ ~IsOver(j)
    BY <1>1, <1>4, <2>1 DEF Conclude, EndsJob
  <2>3. /\ v \in {"own", "wrong"}
        /\ ~IsWorkflow(j) => v # "wrong"
    BY <1>1, <1>4, <2>1 DEF EndsJob, ValuesOver
  <2>4. /\ IsOver(j)' /\ \A i \in Jobs \ {j} : IsOver(i)' <=> IsOver(i)
        /\ value'[j] = v /\ \A i \in Jobs \ {j} : value'[i] = value[i]
        /\ \A i \in Jobs \ {j} : job'[i] = job[i]
    BY <2>2 DEF TypeInv, IsOver
  <2>5. job[j] # "absent" /\ value[j] = "none"
    BY <1>1, <2>2 DEF Begun, Past, ValuesOver
  <2>6. \A w \in Workflows : Many(w)' <=> Many(w)
    BY <1>2 DEF Many
  <2>7. \A w \in Workflows : value[JobOf(w)] = "wrong" => value'[JobOf(w)] = "wrong"
    BY <2>4, <2>5, JobOfType
  <2>8. \A w \in Workflows : Stray(w) => Stray(w)'
    BY <2>6, <2>7, StrayKept
  <2>9. CallsOfRuns' /\ RunsCounted' /\ FirstRun'
    BY <1>2, <2>4, <2>5, <2>8, EngineKeeps
  <2>10. ValuesOver'
    <3>1. \A i \in Jobs :
            /\ IsOver(i)' => value'[i] \in {"own", "wrong"}
            /\ ~IsOver(i)' => value'[i] = "none"
            /\ ~IsWorkflow(i) => value'[i] # "wrong"
      BY <2>3, <2>4 DEF ValuesOver
    <3>2. \A i \in unpublished' : IsOver(i)'
      BY <2>2, <2>4 DEF ValuesOver, TypeInv
    <3> QED
      BY <1>2, <3>1, <3>2 DEF ValuesOver, IsWorkflow
  <2>11. WrongStrays'
    <3>1. \A w \in Workflows : value'[JobOf(w)] = "wrong" =>
             value[JobOf(w)] = "wrong" \/ Stray(w)'
      BY <1>1, <2>1, <2>4, <2>8, JobOfType DEF WrongStrays
    <3> QED
      BY <1>2, <2>6, <2>8, <3>1, WrongsKept DEF Running
  <2> QED
    BY <2>9, <2>10, <2>11
<1> QED
  BY <1>3, <1>4

LEMMA PublishStray ==
    ASSUME IInv, StrayInv, NEW j \in unpublished, Publish(j), UNCHANGED runVars
    PROVE  StrayInv'
<1> USE DEF IInv, StrayInv
<1>1. PICK H \in SUBSET Callers :
         /\ H \subseteq {c \in Callers : call[c].st \in {"settle", "await"} /\ call[c].job = j}
         /\ call' = [c \in Callers |->
                       IF c \in H THEN [st |-> "return", job |-> j, val |-> value[j]] ELSE call[c]]
  <2>1. PICK H : H = {c \in Callers : IF IsWorkflow(j) THEN c \in Waiting(j) /\ call[c].subscribed
                                     ELSE At(c, "await") /\ call[c].job = j}
    OBVIOUS
  <2>2. H \subseteq {c \in Callers : call[c].st \in {"settle", "await"} /\ call[c].job = j}
    BY <2>1 DEF Waiting, At
  <2> QED
    BY <2>1, <2>2 DEF Publish
<1>2. /\ UNCHANGED <<job, value, entry, due, answers, run, threw>>
      /\ unpublished' \subseteq unpublished
  BY DEF Publish, runVars
<1>3. IsOver(j)
  BY DEF ValuesOver
<1>4. /\ \A w \in Workflows : Many(w)' <=> Many(w)
      /\ \A w \in Workflows : Stray(w)' <=> Stray(w)
  BY <1>2 DEF Many, Stray, ChildWrong, JobOf
<1>5. \A d \in Callers : call'[d] = call[d]
          \/ /\ call[d].st # "none" /\ call'[d].st = "return" /\ call'[d].job = call[d].job
             /\ call'[d].val = value[j] /\ call[d].job = j
  BY <1>1
<1>6. CallsOfRuns' /\ RunsCounted' /\ FirstRun'
  BY <1>2, <1>4, <1>5, EngineKeeps
<1>7. ValuesOver'
  BY <1>2, ValuesStay DEF IsOver
<1>8. WrongStrays'
  <2>1. ASSUME NEW w \in Workflows, NEW k \in Workers, Running(k, w), call'[k] # call[k],
               call'[k].val # "own"
        PROVE  Stray(w)
    <3>1. call[k].st # "none" /\ call'[k].val = value[j] /\ call[k].job = j
      BY <1>5, <2>1 DEF Callers
    <3> QED
      BY <1>3, <2>1, <3>1, WrongChild
  <2>2. ASSUME NEW k \in Workers, call'[k].st = "listen"
        PROVE  call'[k] = call[k]
    BY <1>5, <2>2 DEF Callers
  <2> QED
    BY <1>2, <1>4, <2>1, <2>2, WrongsKept DEF Running
<1> QED
  BY <1>6, <1>7, <1>8

\* A worker in no call begins a run.
LEMMA BeginRunStray ==
    ASSUME IInv, StrayInv, NEW k \in Workers, NEW w \in Workflows, ~Runs(k), BeginRun(k, w),
           UNCHANGED <<job, value, answers, unpublished, call>>
    PROVE  StrayInv'
<1> USE DEF IInv, StrayInv
<1>1. /\ entry' = [entry EXCEPT ![w] = [st |-> "pending", count |-> @.count + 1]]
      /\ run' = [run EXCEPT ![k] = [st |-> "running", of |-> w, counter |-> 0, val |-> "own"]]
  BY DEF BeginRun
<1>2. /\ run'[k].st = "running" /\ run'[k].of = w /\ run'[k].counter = 0 /\ run'[k].val = "own"
      /\ \A l \in Workers \ {k} : run'[l] = run[l]
  BY <1>1 DEF TypeInv
<1>3. /\ entry'[w].count = entry[w].count + 1 /\ entry[w].count \in Nat
      /\ \A v \in Workflows \ {w} : entry'[v].count = entry[v].count
  BY <1>1 DEF TypeInv
<1>4. /\ \A v \in Workflows : (Delivered(v) => Delivered(v)') /\ (Many(v) => Many(v)')
      /\ \A v \in Workflows \ {w} : (Delivered(v)' <=> Delivered(v)) /\ (Many(v)' <=> Many(v))
      /\ Delivered(w)' /\ (Delivered(w) => Many(w)')
  BY <1>3 DEF Many, Delivered
<1>5. \A v \in Workflows : Stray(v) => Stray(v)'
  BY <1>4, StrayKept
<1>6. call'[k].st = "none"
  BY DEF CallsOfRuns, Running, Runs
<1>7. CallsOfRuns'
  BY <1>2, <1>6 DEF CallsOfRuns, Running, IsWorkflow, CallJob, JobOf
<1>8. RunsCounted'
  <2>1. \A l \in Workers \ {k} : \A v \in Workflows : Has(l, v)' => Has(l, v)
    BY <1>2 DEF Has, Runs
  <2>2. \A v \in Workflows : Has(k, v)' => v = w
    BY <1>2 DEF Has
  <2> QED
    BY <1>4, <2>1, <2>2 DEF RunsCounted
<1>9. FirstRun'
  <2>1. ASSUME NEW v \in Workflows, NEW n \in DOMAIN Script[v],
               Script[v][n] = "activity", job[<<v, n>>] # "absent", ~Many(v)'
        PROVE  /\ Delivered(v)'
               /\ \A l \in Workers : Running(l, v)' =>
                    n <= run'[l].counter /\ (n = run'[l].counter => ~Asks(l)')
    <3>1. v # w
      BY <1>4, <2>1 DEF FirstRun
    <3>2. \A l \in Workers : Running(l, v)' => l # k /\ Running(l, v)
      BY <1>2, <3>1 DEF Running
    <3> QED
      BY <1>2, <1>4, <2>1, <3>1, <3>2 DEF FirstRun, Asks
  <2> QED
    BY <2>1 DEF FirstRun
<1>10. ValuesOver'
  BY <1>2, ValuesStay DEF IsOver
<1>11. WrongStrays'
  <2>1. \A v \in Workflows : \A l \in Workers \ {k} : Running(l, v)' => Running(l, v)
    BY <1>2 DEF Running
  <2> QED
    BY <1>2, <1>4, <1>5, <1>6, <2>1, WrongsKept
<1> QED
  BY <1>7, <1>8, <1>9, <1>10, <1>11

\* Steps of k that leave no run of it, or leave its run with no call.
LEMMA RunEnds ==
    ASSUME IInv, StrayInv, NEW k \in Workers, call' = [call EXCEPT ![k] = NoCall],
           \A w \in Workflows : entry'[w].count = entry[w].count,
           UNCHANGED <<job, value, unpublished>>,
           \A l \in Workers \ {k} : run'[l] = run[l],
           run'[k].st # "idle" => Runs(k) /\ run'[k].of = run[k].of,
           run'[k].st = "running" => /\ run[k].st = "running" /\ run'[k].counter = run[k].counter
                                     /\ run'[k].val \in {"own", "wrong"},
           \A w \in Workflows : (Running(k, w)' /\ run'[k].val = "wrong") => Stray(w),
           \A a \in answers' : a \in answers
               \/ /\ IsWorkflow(a[1])
                  /\ a[2] # "pending" => a[3] \in {"own", "wrong"}
                  /\ \A w \in Workflows : (a[1] = JobOf(w) /\ a[3] = "wrong") => Stray(w)
    PROVE  StrayInv'
<1> USE DEF IInv, StrayInv
<1>1. /\ \A w \in Workflows : (Delivered(w)' <=> Delivered(w)) /\ (Many(w)' <=> Many(w))
      /\ \A w \in Workflows : Stray(w)' <=> Stray(w)
  BY DEF Delivered, Many, Stray, ChildWrong, JobOf
<1>2. call'[k].st = "none" /\ \A d \in Callers \ {k} : call'[d] = call[d]
  BY DEF TypeInv, NoCall, Callers
<1>3. CallsOfRuns'
  BY <1>2, CallsKept DEF Callers
<1>4. RunsCounted'
  BY <1>1, CountsKept DEF Runs
<1>5. FirstRun'
  <2>1. \A l \in Workers : Asks(l)' => Asks(l)
    BY <1>2 DEF Asks, Callers
  <2> QED
    BY <1>1, <2>1, FirstRunKept
<1>6. ValuesOver'
  BY ValuesStay DEF IsOver
<1>7. WrongStrays'
  BY <1>1, <1>2, WrongsKept DEF Running, Callers
<1> QED
  BY <1>3, <1>4, <1>5, <1>6, <1>7

\* The fourth claim fails a workflow whose entry was delivered before.
LEMMA ClaimStray ==
    ASSUME IInv, StrayInv, NEW k \in Workers, NEW w \in Workflows, Claim(k, w)
    PROVE  StrayInv'
<1> USE DEF IInv, StrayInv
<1>1. CASE WithinLimit(w)
  BY <1>1, BeginRunStray DEF Claim, callVars
<1>2. CASE ~WithinLimit(w)
  <2>1. /\ answers' = answers \cup {<<JobOf(w), "error", "wrong">>}
        /\ entry' = [entry EXCEPT ![w].st = "gone"]
        /\ UNCHANGED <<job, value, unpublished, call, run>>
    BY <1>2 DEF Claim, callVars
  <2>2. \A v \in Workflows : entry'[v].count = entry[v].count
    BY <2>1 DEF TypeInv
  <2>3. Many(w)
    <3>1. PICK n \in Nat : n = entry[w].count
      BY DEF TypeInv
    <3>2. n > MaxClaims
      BY <1>2, <3>1, MaxClaimsAssumption DEF WithinLimit
    <3> QED
      BY <3>1, <3>2, MaxClaimsAssumption DEF Many
  <2>4. /\ \A v \in Workflows : (Delivered(v)' <=> Delivered(v)) /\ (Many(v)' <=> Many(v))
        /\ \A v \in Workflows : Stray(v)' <=> Stray(v)
    BY <2>1, <2>2 DEF Delivered, Many, Stray, ChildWrong, JobOf
  <2>5. CallsOfRuns' /\ RunsCounted' /\ FirstRun'
    <3>1. CallsOfRuns'
      BY <2>1, CallsKept
    <3>2. RunsCounted'
      BY <2>1, <2>4, CountsKept DEF Runs
    <3>3. FirstRun'
      BY <2>1, <2>4, FirstRunKept DEF Asks
    <3> QED
      BY <3>1, <3>2, <3>3
  <2>6. \A a \in answers' : a \in answers \/ (a[1] = JobOf(w) /\ a[3] = "wrong")
    BY <2>1
  <2>7. ValuesOver'
    <3>1. \A a \in answers' :
             a \in answers \/ (a[3] \in {"own", "wrong"} /\ IsWorkflow(a[1]))
      BY <2>6, JobOfType
    <3> QED
      BY <2>1, <3>1, ValuesStay DEF IsOver
  <2>8. WrongStrays'
    <3>1. \A v \in Workflows : \A a \in answers' :
             (a[1] = JobOf(v) /\ a[3] = "wrong") => a \in answers \/ Stray(v)'
      BY <2>3, <2>4, <2>6, JobOfInjective DEF Stray
    <3> QED
      BY <2>1, <2>4, <3>1, WrongsKept DEF Running
  <2> QED
    BY <2>5, <2>7, <2>8
<1> QED
  BY <1>1, <1>2

LEMMA NextCallStray ==
    ASSUME IInv, StrayInv, NEW k \in Workers, NextCall(k)
    PROVE  StrayInv'
<1> USE DEF IInv, StrayInv
<1>1. PICK w \in Workflows, n \in Nat : w = run[k].of /\ n = run[k].counter
  BY DEF NextCall, TypeInv, RunSet, Idle
<1>2. /\ run' = [run EXCEPT ![k].counter = n + 1]
      /\ call' = [call EXCEPT ![k] = [st |-> IF Script[w][n + 1] = "activity" THEN "look" ELSE "claim",
                                      job |-> CallJob(w, n + 1)]]
      /\ UNCHANGED <<jobVars, threw>>
      /\ n + 1 <= Len(Script[w])
      /\ run[k].st = "running" /\ call[k] = NoCall
  BY <1>1 DEF NextCall, BeginCall
<1>3. n + 1 \in DOMAIN Script[w]
  BY <1>2, ScriptAssumption
<1>4. /\ run'[k].st = "running" /\ run'[k].of = w /\ run'[k].counter = n + 1
      /\ run'[k].val = run[k].val
      /\ \A l \in Workers \ {k} : run'[l] = run[l]
  <2>1. run[k] \in [st : {"running"}, of : Workflows, counter : Nat, val : Values]
    BY <1>2 DEF TypeInv, RunSet, Idle
  <2> QED
    BY <1>1, <1>2, <2>1 DEF TypeInv
<1>5. /\ call'[k].st \in {"look", "claim"} /\ call'[k].job = CallJob(w, n + 1)
      /\ call'[k].st = "look" => Script[w][n + 1] = "activity"
      /\ \A d \in Callers \ {k} : call'[d] = call[d]
  BY <1>2 DEF TypeInv, Callers
<1>6. /\ \A v \in Workflows : (Delivered(v)' <=> Delivered(v)) /\ (Many(v)' <=> Many(v))
      /\ \A v \in Workflows : Stray(v)' <=> Stray(v)
  BY <1>2 DEF jobVars, Delivered, Many, Stray, ChildWrong, JobOf
<1>7. CallsOfRuns'
  <2>1. \A s \in Starts : call'[s] = call[s]
    BY <1>5, CallersAssumption DEF Callers
  <2>2. Running(k, w)' /\ run'[k].counter = n + 1
    BY <1>4 DEF Running
  <2>3. ASSUME NEW l \in Workers \ {k}, call'[l].st # "none"
        PROVE  \E v \in Workflows : \E m \in DOMAIN Script[v] :
                 /\ Running(l, v)' /\ run'[l].counter = m /\ call'[l].job = CallJob(v, m)
                 /\ call'[l].st = "look" => Script[v][m] = "activity"
    BY <1>4, <1>5, <2>3 DEF CallsOfRuns, Running, Callers
  <2> QED
    BY <1>3, <1>5, <2>1, <2>2, <2>3 DEF CallsOfRuns, IsWorkflow, CallJob, JobOf
<1>8. RunsCounted'
  <2>1. \A l \in Workers : run'[l].st # "idle" => Runs(l) /\ run'[l].of = run[l].of
    BY <1>1, <1>2, <1>4 DEF Runs
  <2> QED
    BY <1>6, <2>1, CountsKept
<1>9. FirstRun'
  <2>1. \A l \in Workers : run'[l].st = "running" =>
           /\ run[l].st = "running" /\ run'[l].of = run[l].of
           /\ \/ run'[l].counter = run[l].counter /\ (Asks(l)' => Asks(l))
              \/ run'[l].counter = run[l].counter + 1
    BY <1>1, <1>2, <1>4, <1>5 DEF Asks, Callers
  <2> QED
    BY <1>2, <1>6, <2>1, FirstRunKept DEF jobVars
<1>10. ValuesOver'
  <2>1. \A l \in Workers : run'[l].st = "running" => run[l].st = "running" /\ run'[l].val = run[l].val
    BY <1>2, <1>4
  <2> QED
    BY <1>2, <2>1, ValuesStay DEF IsOver, jobVars
<1>11. WrongStrays'
  <2>1. \A v \in Workflows : \A l \in Workers : Running(l, v)' => Running(l, v) /\ run'[l].val = run[l].val
    BY <1>1, <1>2, <1>4 DEF Running
  <2>2. \A l \in Workers : call'[l].st \in {"return", "listen"} => call'[l] = call[l]
    BY <1>5 DEF Callers
  <2> QED
    BY <1>2, <1>6, <2>1, <2>2, WrongsKept DEF jobVars
<1> QED
  BY <1>7, <1>8, <1>9, <1>10, <1>11

LEMMA EndCallStray ==
    ASSUME IInv, StrayInv, NEW k \in Workers, EndCall(k)
    PROVE  StrayInv'
<1> USE DEF IInv, StrayInv
<1>1. /\ call' = [call EXCEPT ![k] = NoCall] /\ UNCHANGED jobVars
      /\ run[k].st = "running" /\ call[k].st = "return"
  BY DEF EndCall, At
<1>2. run[k] \in [st : {"running"}, of : Workflows, counter : Nat, val : Values]
  BY <1>1 DEF TypeInv, RunSet, Idle
<1>3. run' = [run EXCEPT ![k].val = IF call[k].val = "own" THEN @ ELSE "wrong"]
  BY DEF EndCall
<1>4. /\ run'[k].st = "running" /\ run'[k].of = run[k].of /\ run'[k].counter = run[k].counter
      /\ call[k].val = "own" => run'[k].val = run[k].val
      /\ call[k].val # "own" => run'[k].val = "wrong"
      /\ \A l \in Workers \ {k} : run'[l] = run[l]
  BY <1>2, <1>3 DEF TypeInv
<1>5. run[k].val \in {"own", "wrong"}
  BY <1>1 DEF ValuesOver
<1>6. \A w \in Workflows : (Running(k, w)' /\ run'[k].val = "wrong") => Stray(w)
  BY <1>1, <1>4 DEF Running, WrongStrays
<1>7. Runs(k)
  BY <1>1 DEF Runs
<1>8. run'[k].val \in {"own", "wrong"}
  BY <1>4, <1>5
<1> QED
  BY <1>1, <1>4, <1>6, <1>7, <1>8, RunEnds DEF jobVars

\* A run answers with what its calls have returned.
LEMMA RespondStray ==
    ASSUME IInv, StrayInv, NEW k \in Workers, NEW status \in {"success", "pending"},
           run[k].st = "running", Respond(k, status), call' = [call EXCEPT ![k] = NoCall],
           UNCHANGED <<job, value, entry, unpublished>>
    PROVE  StrayInv'
<1> USE DEF IInv, StrayInv
<1>1. PICK w \in Workflows : w = run[k].of
  BY DEF TypeInv, RunSet, Idle
<1>2. PICK a : a = <<JobOf(w), status, run[k].val>>
  OBVIOUS
<1>3. /\ answers' = answers \cup {a}
      /\ run' = [run EXCEPT ![k] = [st |-> "answered", of |-> w]]
  BY <1>1, <1>2 DEF Respond, TypeInv
<1>4. /\ a[1] = JobOf(w) /\ a[3] = run[k].val
      /\ run[k].val \in {"own", "wrong"}
      /\ run[k].val = "wrong" => Stray(w)
  BY <1>1, <1>2 DEF ValuesOver, WrongStrays, Running
<1>5. /\ run'[k].st = "answered" /\ run'[k].of = w
      /\ \A l \in Workers \ {k} : run'[l] = run[l]
  BY <1>3 DEF TypeInv
<1>6. \A b \in answers' : b \in answers
               \/ /\ IsWorkflow(b[1])
                  /\ b[2] # "pending" => b[3] \in {"own", "wrong"}
                  /\ \A v \in Workflows : (b[1] = JobOf(v) /\ b[3] = "wrong") => Stray(v)
  BY <1>3, <1>4, JobOfType, JobOfInjective
<1>7. Runs(k)
  BY DEF Runs
<1>8. \A v \in Workflows : ~Running(k, v)'
  BY <1>5 DEF Running
<1> QED
  BY <1>1, <1>5, <1>6, <1>7, <1>8, RunEnds

LEMMA AnswerStray ==
    ASSUME IInv, StrayInv, NEW k \in Workers, Answer(k)
    PROVE  StrayInv'
<1>1. call' = [call EXCEPT ![k] = NoCall]
  BY DEF Answer, callVars, IInv, TypeInv, Callers
<1> QED
  BY <1>1, RespondStray DEF Answer, callVars

\* A run that is over, and one whose worker stops.
LEMMA IdleStray ==
    ASSUME IInv, StrayInv, NEW k \in Workers, Acknowledge(k) \/ StopWorker(k)
    PROVE  StrayInv'
<1> USE DEF IInv, StrayInv
<1>1. /\ run' = [run EXCEPT ![k] = Idle]
      /\ UNCHANGED <<job, value, answers, unpublished>>
  BY DEF Acknowledge, StopWorker, jobVars
<1>2. call' = [call EXCEPT ![k] = NoCall]
  <2>1. CASE Acknowledge(k)
    <3>1. call[k].st = "none" /\ call' = call
      BY <2>1 DEF Acknowledge, callVars, CallsOfRuns, Running
    <3>2. call[k] = NoCall
      BY <3>1 DEF TypeInv, CallSet, NoCall, Waits, Callers
    <3> QED
      BY <3>1, <3>2 DEF TypeInv, Callers
  <2>2. CASE StopWorker(k)
    BY <2>2 DEF StopWorker
  <2> QED
    BY <2>1, <2>2
<1>3. \A w \in Workflows : entry'[w].count = entry[w].count
  BY DEF Acknowledge, StopWorker, jobVars, TypeInv
<1>4. run'[k].st = "idle" /\ \A l \in Workers \ {k} : run'[l] = run[l]
  BY <1>1 DEF TypeInv, Idle
<1>5. \A w \in Workflows : ~Running(k, w)'
  BY <1>4 DEF Running
<1> QED
  BY <1>1, <1>2, <1>3, <1>4, <1>5, RunEnds

LEMMA StartStray ==
    ASSUME IInv, StrayInv, NEW s \in Starts, Start(s) \/ EndStart(s)
    PROVE  StrayInv'
<1> USE DEF IInv, StrayInv
<1>1. UNCHANGED <<jobVars, run>>
  BY DEF Start, EndStart
<1>2. \A k \in Workers : call'[k] = call[k]
  <2>1. \A k \in Workers : k \in Callers \ {s}
    BY CallersAssumption DEF Callers
  <2> QED
    BY <2>1 DEF Start, EndStart, BeginCall, TypeInv
<1>3. \A t \in Starts : call'[t] = call[t] \/ call'[t].st = "none" \/ IsWorkflow(call'[t].job)
  <2>1. JobOf(StartOf[s]) \in Jobs /\ IsWorkflow(JobOf(StartOf[s]))
    BY JobOfType, StartOfAssumption
  <2> QED
    BY <2>1 DEF Start, EndStart, BeginCall, TypeInv, NoCall, Callers
<1>4. /\ \A w \in Workflows : (Delivered(w)' <=> Delivered(w)) /\ (Many(w)' <=> Many(w))
      /\ \A w \in Workflows : Stray(w)' <=> Stray(w)
  BY <1>1 DEF jobVars, Delivered, Many, Stray, ChildWrong, JobOf
<1>5. CallsOfRuns'
  BY <1>1, <1>2, <1>3 DEF CallsOfRuns, Running, IsWorkflow, CallJob, JobOf
<1>6. RunsCounted'
  BY <1>1, <1>4, CountsKept DEF Runs
<1>7. FirstRun'
  BY <1>1, <1>2, <1>4, FirstRunKept DEF jobVars, Asks
<1>8. ValuesOver'
  BY <1>1, ValuesStay DEF jobVars, IsOver
<1>9. WrongStrays'
  BY <1>1, <1>2, <1>4, WrongsKept DEF jobVars, Running
<1> QED
  BY <1>5, <1>6, <1>7, <1>8, <1>9

-----------------------------------------------------------------------------
LEMMA InitStray == Init => StrayInv
<1> SUFFICES ASSUME Init PROVE StrayInv
  OBVIOUS
<1>1. /\ \A c \in Callers : call[c].st = "none"
      /\ \A k \in Workers : run[k].st = "idle"
      /\ \A j \in Jobs : job[j] = "absent" /\ value[j] = "none"
      /\ answers = {} /\ unpublished = {}
  BY DEF Init, CallsInit, NoCall, Idle
<1>2. CallsOfRuns
  BY <1>1 DEF CallsOfRuns, Callers
<1>3. RunsCounted
  BY <1>1 DEF RunsCounted, Has, Runs
<1>4. FirstRun
  BY <1>1 DEF FirstRun, Jobs
<1>5. ValuesOver
  BY <1>1 DEF ValuesOver, IsOver
<1>6. WrongStrays
  BY <1>1, JobOfType DEF WrongStrays, Running
<1> QED
  BY <1>2, <1>3, <1>4, <1>5, <1>6 DEF StrayInv

LEMMA StepStray == IInv /\ StrayInv /\ [Next]_vars => StrayInv'
<1> SUFFICES ASSUME IInv, StrayInv, [Next]_vars PROVE StrayInv'
  OBVIOUS
<1>1. ASSUME NEW c \in Callers, CallStep(c), UNCHANGED runVars
      PROVE  StrayInv'
  BY <1>1, ClaimIdStray, CreateStray, WaitingStray DEF CallStep
<1>2. ASSUME EngineStep, UNCHANGED runVars
      PROVE  StrayInv'
  BY <1>2, PerformStray, ConcludeStray, PublishStray DEF EngineStep
<1>3. ASSUME NEW k \in Workers, WorkerStep(k) \/ StopWorker(k)
      PROVE  StrayInv'
  <2>1. ASSUME NEW w \in Workflows, Take(k, w) PROVE StrayInv'
    BY <2>1, BeginRunStray DEF Take, callVars
  <2>2. CASE AnswerThrown(k)
    BY <2>2, RespondStray DEF AnswerThrown
  <2> QED
    BY <1>3, <2>1, <2>2, ClaimStray, NextCallStray, EndCallStray, AnswerStray, IdleStray
       DEF WorkerStep
<1>4. CASE UNCHANGED <<jobVars, callVars, runVars>>
  BY <1>4, CallsMove DEF callVars, runVars, Asks
<1>5. CASE UNCHANGED vars
  BY <1>4, <1>5 DEF vars
<1> QED
  BY <1>1, <1>2, <1>3, <1>4, <1>5, StartStray DEF Next

\* What a workflow is answered with is what its activities returned, however
\* its calls and its children's runs interleave, as long as its entry is read
\* once and no child went wrong; and only a workflow that is run again waits on
\* a topic to which nothing is published.
THEOREM ReplaysAloneStray == Spec => []ReplaysStray
<1>1. IInv /\ StrayInv => ReplaysStray
  <2> SUFFICES ASSUME IInv, StrayInv PROVE ReplaysStray
    OBVIOUS
  <2>1. \A w \in Workflows : value[JobOf(w)] = "wrong" => entry[w].count > 1 \/ ChildWrong(w)
    BY DEF StrayInv, WrongStrays, Stray, Many
  <2>2. ASSUME NEW k \in Workers, At(k, "listen")
        PROVE  entry[run[k].of].count > 1
    <3>1. PICK w \in Workflows : Running(k, w)
      BY <2>2 DEF StrayInv, CallsOfRuns, At
    <3> QED
      BY <2>2, <3>1 DEF StrayInv, WrongStrays, At, Many, Running
  <2> QED
    BY <2>1, <2>2 DEF ReplaysStray
<1> QED
  BY <1>1, InitHolds, StepHolds, InitStray, StepStray, PTL DEF Spec
=============================================================================
