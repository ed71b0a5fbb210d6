------------------------------ MODULE Workflow ------------------------------
(***************************************************************************)
(* Jobs run by a quorum of engines and by workers.  No process owns a job: *)
(* an engine takes one entry from the engine stream, runs one leg of one   *)
(* activity against the job hash in Redis, journals the consequences to    *)
(* the streams and acknowledges the entry.  A handler is a sequence of     *)
(* Redis round trips; each round trip is one action here, so that handlers *)
(* of different engines interleave between any two of them.                *)
(*                                                                         *)
(* Every entry is delivered to one engine, which survives until it has     *)
(* acknowledged it; WorkflowFaults takes both of these away.               *)
(*                                                                         *)
(* Abstracted: job data, mapping rules and symbols (a transition rule may  *)
(* or may not hold); the dimensional address of a message; the order of a  *)
(* stream (several engines, each reading a batch, process entries in any   *)
(* order); hooks and sleeps; expiry of the job hash.                       *)
(***************************************************************************)
EXTENDS Collator, FiniteSets

CONSTANTS
    Job,            \* job ids
    Node,           \* the activities of all jobs (a trigger is its job)
    Owner,          \* Owner[n]: the job of activity n
    Kind,           \* Kind[n]: "activity", "worker" or "await"
    Children,       \* Children[x]: targets of the transitions of x, job or activity
    Unconditional,  \* targets whose transition rule is the literal `true`
    Spawns,         \* Spawns[n]: the ids a job started by await n can get
    FixedId,        \* job ids computed by `stats.id` (others are nanoids)
    Roots,          \* job ids clients may publish
    Engine,         \* consumers of the engine stream
    Client,         \* callers of pub, each inside some engine's process
    Answers,        \* statuses a worker may answer with
    MaxThreads,     \* bound on leg 2 entries per activity
    NoNode, NoJob

Process == Engine \cup Client

Status == {"pending", "success", "error"}

\* What the compiler makes of a deployed graph.
ASSUME GraphAssumption ==
    /\ Owner \in [Node -> Job]
    /\ Kind \in [Node -> {"activity", "worker", "await"}]
    /\ Children \in [Job \cup Node -> SUBSET Node]
    /\ Spawns \in [Node -> SUBSET Job]
    /\ Answers \subseteq Status
    /\ NoNode \notin Node /\ NoJob \notin Job

\* Every activity has one parent, in its own job (bindParents keeps one).
ASSUME TreeAssumption ==
    /\ IsFiniteSet(Node)
    /\ \A j \in Job : \A n \in Children[j] : Owner[n] = j
    /\ \A n \in Node : \A k \in Children[n] : Owner[k] = Owner[n]
    /\ \A x, y \in Job \cup Node : x # y => Children[x] \cap Children[y] = {}

\* Entries of the engine stream, by StreamDataType.
Transition(n) == [type |-> "transition", node |-> n, status |-> "success"]
Response(n, s) == [type |-> "response", node |-> n, status |-> s]
Await(n) == [type |-> "await", node |-> n, status |-> "success"]
Result(n) == [type |-> "result", node |-> n, status |-> "success"]

Msg ==
    {Transition(n) : n \in Node} \cup {Response(n, s) : n \in Node, s \in Status}
        \cup {Await(n) : n \in Node} \cup {Result(n) : n \in Node}

\* Names of different sorts are different.
ASSUME SortsAssumption ==
    /\ Process \cap (Job \cup Node) = {} /\ Job \cap Node = {}
    /\ Engine \cap Client = {}
    /\ Msg \cap (Process \cup Job \cup Node) = {}

NoMsg == [type |-> "none", node |-> NoNode, status |-> "none"]

VARIABLES
    claimed,    \* jobs whose ':' field was set by HSETNX
    saved,      \* jobs whose trigger state was saved
    status,     \* status[j]: the job's semaphore, field ':'
    parent,     \* parent[j]: metadata pj/pa, the await activity to answer
    ledger,     \* ledger[n]: the activity's collation integer
    stream,     \* engine stream: how many entries of each kind wait
    work,       \* work[n]: worker requests of n on its topic's stream
    proc,       \* proc[p]: the handler process p is running
    \* What was done, for the properties.  No guard reads these.
    spawned,    \* activities whose parent counted them in the semaphore
    completed,  \* activities that counted themselves out of it
    notified    \* notified[j]: runs of runJobCompletionTasks

jobVars == <<claimed, saved, status, parent>>
history == <<spawned, completed, notified>>
vars == <<jobVars, ledger, stream, work, proc, history>>

\* A process between two messages.
Idle == [pc |-> "idle", msg |-> NoMsg, job |-> NoJob, adj |-> {}, js |-> 0]

Init ==
    /\ claimed = {}
    /\ saved = {}
    /\ status = [j \in Job |-> 0]
    /\ parent = [j \in Job |-> NoNode]
    /\ ledger = [n \in Node |-> Absent]
    /\ stream = [m \in Msg |-> 0]
    /\ work = [n \in Node |-> 0]
    /\ proc = [p \in Process |-> Idle]
    /\ spawned = {}
    /\ completed = {}
    /\ notified = [j \in Job |-> 0]

-----------------------------------------------------------------------------
(* Shared steps of the handlers.                                           *)

\* xadd of a set of entries, one each.
Add(s, M) == [m \in Msg |-> s[m] + (IF m \in M THEN 1 ELSE 0)]

\* filterAdjacent: the transitions whose rule holds for the data at hand.
FilterAdjacent(x) ==
    {A \in SUBSET Children[x] : Children[x] \cap Unconditional \subseteq A}

\* authorizeEntry: the children's ledgers are preset with the parent's save.
Preset(l, A) == [n \in Node |-> IF n \in A THEN Seed ELSE l[n]]

Goto(p, pc) == proc' = [proc EXCEPT ![p].pc = pc]

\* The handler has nothing left to do but to acknowledge its entry; a client's
\* promise resolves instead.
Finish(p) ==
    IF p \in Engine THEN Goto(p, "ack") ELSE proc' = [proc EXCEPT ![p] = Idle]

\* Variant: the activity forgets to count itself out.
CountOutShort(p, n, A) ==
    /\ status' = [status EXCEPT ![Owner[n]] = @ + Cardinality(A)]
    /\ proc' = [proc EXCEPT ![p].pc = "transition",
                            ![p].adj = A, ![p].js = status'[Owner[n]]]
    /\ spawned' = spawned \cup A
    /\ completed' = completed \cup {n}
    /\ UNCHANGED <<claimed, saved, parent, notified>>

\* setStatus(adjacencyList.length - 1), in the transaction that saves n.
CountOut(p, n, A) ==
    /\ status' = [status EXCEPT ![Owner[n]] = @ + Cardinality(A) - 1]
    /\ proc' = [proc EXCEPT ![p].pc = "transition",
                            ![p].adj = A, ![p].js = status'[Owner[n]]]
    /\ spawned' = spawned \cup A
    /\ completed' = completed \cup {n}
    /\ UNCHANGED <<claimed, saved, parent, notified>>

-----------------------------------------------------------------------------
(* Triggers: a client's pub, or an await entry on the engine stream.       *)

\* Variant: HSET instead of HSETNX.
ClaimAnew(p, j) ==
    /\ claimed' = claimed \cup {j}
    /\ status' = [status EXCEPT ![j] = 1]
    /\ proc' = [proc EXCEPT ![p].pc = "seed", ![p].job = j]
    /\ UNCHANGED <<saved, parent, ledger, stream, work, history>>

\* setStateNX on a new id.
ClaimJob(p, j) ==
    /\ j \notin claimed
    /\ claimed' = claimed \cup {j}
    /\ status' = [status EXCEPT ![j] = 1]
    /\ proc' = [proc EXCEPT ![p].pc = "seed", ![p].job = j]
    /\ UNCHANGED <<saved, parent, ledger, stream, work, history>>

\* pub: the id is taken already (DuplicateJobError) or a job starts.
Publish(c, j) ==
    /\ proc[c].pc = "idle"
    /\ j \in Roots
    /\ ClaimJob(c, j)

StartChild(e, j) ==
    /\ proc[e].pc = "claim"
    /\ j \in Spawns[proc[e].msg.node]
    /\ ClaimJob(e, j)

\* setStateNX finds the id in use: the handler throws DuplicateJobError.
RefuseChild(e, j) ==
    /\ proc[e].pc = "claim"
    /\ j \in Spawns[proc[e].msg.node] \cap FixedId \cap claimed
    /\ Goto(e, "fail")
    /\ UNCHANGED <<jobVars, ledger, stream, work, history>>

\* Variant: the claim's 1 is added to instead of overwritten.
SaveTriggerAdds(p) ==
    /\ proc[p].pc = "seed"
    /\ \E A \in FilterAdjacent(proc[p].job) :
         /\ ledger' = Preset(ledger, A)
         /\ status' = [status EXCEPT ![proc[p].job] = @ + Cardinality(A)]
         /\ spawned' = spawned \cup A
         /\ proc' = [proc EXCEPT ![p].pc = "transition",
                                 ![p].adj = A, ![p].js = Cardinality(A)]
    /\ saved' = saved \cup {proc[p].job}
    /\ parent' = [parent EXCEPT ![proc[p].job] = proc[p].msg.node]
    /\ UNCHANGED <<claimed, stream, work, completed, notified>>

\* The trigger's transaction: it overwrites ':' with the number of children.
SaveTrigger(p) ==
    /\ proc[p].pc = "seed"
    /\ \E A \in FilterAdjacent(proc[p].job) :
         /\ ledger' = Preset(ledger, A)
         /\ status' = [status EXCEPT ![proc[p].job] = Cardinality(A)]
         /\ spawned' = spawned \cup A
         /\ proc' = [proc EXCEPT ![p].pc = "transition",
                                 ![p].adj = A, ![p].js = Cardinality(A)]
    /\ saved' = saved \cup {proc[p].job}
    /\ parent' = [parent EXCEPT ![proc[p].job] = proc[p].msg.node]
    /\ UNCHANGED <<claimed, stream, work, completed, notified>>

-----------------------------------------------------------------------------
(* An engine takes an entry and dispatches on its type.                    *)

\* processStreamMessage.  The leg 2 handlers read the job state first
\* (getState); the status read there is used after the next round trip.
Dispatch(m) ==
    LET label ==
            IF m.type = "transition" THEN "enter"
            ELSE IF m.type = "await" THEN "claim"
            ELSE IF Kind[m.node] = "activity" THEN "fail"
            ELSE "reenter"
    IN  [pc |-> label, msg |-> m, job |-> Owner[m.node], adj |-> {},
         js |-> IF label = "reenter" THEN status[Owner[m.node]] ELSE 0]

\* The bound on leg 2 entries: answers beyond it stay in their stream.
WithinBound(m) ==
    m.type \in {"response", "result"} => ledger[m.node].entered < MaxThreads

Deliver(e, m) ==
    /\ proc[e].pc = "idle"
    /\ stream[m] > 0
    /\ WithinBound(m)
    /\ stream' = [stream EXCEPT ![m] = @ - 1]
    /\ proc' = [proc EXCEPT ![e] = Dispatch(m)]
    /\ UNCHANGED <<jobVars, ledger, work, history>>

-----------------------------------------------------------------------------
(* Leg 1, started by a transition entry.                                   *)

\* notarizeEntry: increment, then verify.
Enter(e) ==
    LET n == proc[e].msg.node
        l == NotarizeEntry(ledger[n])
    IN  /\ proc[e].pc = "enter"
        /\ ledger' = [ledger EXCEPT ![n] = l]
        /\ Goto(e, IF EntryFault(l) = "none" THEN "save" ELSE "fail")
        /\ UNCHANGED <<jobVars, stream, work, history>>

\* Activity.process: no second leg, the children are called at once.
SaveActivity(e) ==
    LET n == proc[e].msg.node
    IN  /\ proc[e].pc = "save"
        /\ Kind[n] = "activity"
        /\ \E A \in FilterAdjacent(n) :
             /\ ledger' = Preset([ledger EXCEPT ![n] = NotarizeEarlyCompletion(@)], A)
             /\ CountOut(e, n, A)
        /\ UNCHANGED <<stream, work>>

\* Variant: the activity is not executed.
SaveAndStop(e) ==
    LET n == proc[e].msg.node
    IN  /\ proc[e].pc = "save"
        /\ Kind[n] # "activity"
        /\ ledger' = [ledger EXCEPT ![n] = AuthorizeReentry(@)]
        /\ Goto(e, "ack")
        /\ UNCHANGED <<jobVars, stream, work, history>>

\* Worker.process and Await.process: open leg 2, leave the semaphore alone.
SaveDuplex(e) ==
    LET n == proc[e].msg.node
    IN  /\ proc[e].pc = "save"
        /\ Kind[n] # "activity"
        /\ ledger' = [ledger EXCEPT ![n] = AuthorizeReentry(@)]
        /\ Goto(e, "exec")
        /\ UNCHANGED <<jobVars, stream, work, history>>

\* execActivity: ask the worker, or the engine for a job of its own.
ExecActivity(e) ==
    LET n == proc[e].msg.node
    IN  /\ proc[e].pc = "exec"
        /\ IF Kind[n] = "worker"
           THEN work' = [work EXCEPT ![n] = @ + 1] /\ UNCHANGED stream
           ELSE stream' = Add(stream, {Await(n)}) /\ UNCHANGED work
        /\ Goto(e, "ack")
        /\ UNCHANGED <<jobVars, ledger, history>>

-----------------------------------------------------------------------------
(* A worker runs the user's function and journals its answer.  An answer   *)
(* of "pending" promises another one.                                      *)

\* Variant: a worker answers what it was not asked.
WorkerAnswersUnasked(n, s) ==
    /\ s \in Answers
    /\ stream' = Add(stream, {Response(n, s)})
    /\ work' = [work EXCEPT ![n] = @ - 1]
    /\ UNCHANGED <<jobVars, ledger, proc, history>>

WorkerAnswer(n, s) ==
    /\ work[n] > 0
    /\ s \in Answers
    /\ s = "pending" => ledger[n].entered + stream[Response(n, s)] < MaxThreads - 1
    /\ stream' = Add(stream, {Response(n, s)})
    /\ work' = [work EXCEPT ![n] = IF s = "pending" THEN @ ELSE @ - 1]
    /\ UNCHANGED <<jobVars, ledger, proc, history>>

-----------------------------------------------------------------------------
(* Leg 2, started by an answer: Worker.processEvent, Await.processEvent.   *)

\* notarizeReentry: increment, then verify.  A worker's handler then looks at
\* the status it read before, and ends without saving if the job is over.
Reenter(e) ==
    LET n == proc[e].msg.node
        l == NotarizeReentry(ledger[n])
    IN  /\ proc[e].pc = "reenter"
        /\ ledger' = [ledger EXCEPT ![n] = l]
        /\ Goto(e, IF ReentryFault(l) # "none" THEN "fail"
                   ELSE IF Kind[n] = "worker" /\ proc[e].js <= 0 THEN "ack"
                   ELSE "resave")
        /\ UNCHANGED <<jobVars, stream, work, history>>

\* processPending: the thread ends, leg 2 stays open, no child is called, and
\* yet the children's ledgers are preset.
SavePending(e) ==
    LET n == proc[e].msg.node
    IN  /\ Kind[n] = "worker" /\ proc[e].msg.status = "pending"
        /\ \E A \in FilterAdjacent(n) :
             ledger' = Preset([ledger EXCEPT ![n] = NotarizeContinuation(@)], A)
        /\ Goto(e, "ack")
        /\ UNCHANGED <<jobVars, stream, work, history>>

\* processSuccess and processError: the same steps on other data.  Await
\* takes every status but "success" for an error.
SaveCompletion(e) ==
    LET n == proc[e].msg.node
    IN  /\ Kind[n] = "worker" => proc[e].msg.status # "pending"
        /\ \E A \in FilterAdjacent(n) :
             /\ ledger' = Preset([ledger EXCEPT ![n] = NotarizeCompletion(@)], A)
             /\ CountOut(e, n, A)
        /\ UNCHANGED <<stream, work>>

\* What a leg 2 that was granted saves depends on the answer's status.
SaveAnswer(e) ==
    /\ proc[e].pc = "resave"
    /\ SavePending(e) \/ SaveCompletion(e)

-----------------------------------------------------------------------------
(* After a save: transition.                                               *)

\* Variant: the transition rules are not asked.
CallEveryChild(p) ==
    /\ proc[p].pc = "transition"
    /\ proc[p].adj # {}
    /\ stream' = Add(stream, {Transition(n) : n \in {k \in Node : Owner[k] = proc[p].job}})
    /\ Finish(p)
    /\ UNCHANGED <<jobVars, ledger, work, history>>

\* The children's entries are added in one transaction.
CallChildren(p) ==
    /\ proc[p].pc = "transition"
    /\ proc[p].adj # {}
    /\ stream' = Add(stream, {Transition(n) : n \in proc[p].adj})
    /\ Finish(p)
    /\ UNCHANGED <<jobVars, ledger, work, history>>

\* Variant: every branch that ends concludes its job.
ConcludeBranch(p) ==
    LET j == proc[p].job
    IN  /\ proc[p].pc = "transition"
        /\ proc[p].adj = {}
        /\ stream' = Add(stream, IF parent[j] = NoNode THEN {} ELSE {Result(parent[j])})
        /\ notified' = [notified EXCEPT ![j] = @ + 1]
        /\ Finish(p)
        /\ UNCHANGED <<jobVars, ledger, work, spawned, completed>>

\* Variant: the parent is answered only below 0.
ConcludeBelowZero(p) ==
    LET j == proc[p].job
    IN  /\ proc[p].pc = "transition"
        /\ proc[p].adj = {} /\ proc[p].js < 0
        /\ stream' = Add(stream, IF parent[j] = NoNode THEN {} ELSE {Result(parent[j])})
        /\ notified' = [notified EXCEPT ![j] = @ + 1]
        /\ Finish(p)
        /\ UNCHANGED <<jobVars, ledger, work, spawned, completed>>

\* No children, and the save returned a semaphore of 0 or less:
\* runJobCompletionTasks answers the parent and tells the subscribers.
ConcludeJob(p) ==
    LET j == proc[p].job
    IN  /\ proc[p].pc = "transition"
        /\ proc[p].adj = {} /\ proc[p].js <= 0
        /\ stream' = Add(stream, IF parent[j] = NoNode THEN {} ELSE {Result(parent[j])})
        /\ notified' = [notified EXCEPT ![j] = @ + 1]
        /\ Finish(p)
        /\ UNCHANGED <<jobVars, ledger, work, spawned, completed>>

\* No children, but other activities of the job are outstanding.
EndBranch(p) ==
    /\ proc[p].pc = "transition"
    /\ proc[p].adj = {} /\ proc[p].js > 0
    /\ Finish(p)
    /\ UNCHANGED <<jobVars, ledger, stream, work, history>>

-----------------------------------------------------------------------------
(* The end of consumeOne.                                                  *)

\* A handler that threw: structureUnhandledError is published as an answer
\* to the activity the entry was for.
Fail(e) ==
    /\ proc[e].pc = "fail"
    /\ stream' = Add(stream, {Response(proc[e].msg.node, "error")})
    /\ Goto(e, "ack")
    /\ UNCHANGED <<jobVars, ledger, work, history>>

\* xack and xdel, one transaction.
Ack(e) ==
    /\ proc[e].pc = "ack"
    /\ proc' = [proc EXCEPT ![e] = Idle]
    /\ UNCHANGED <<jobVars, ledger, stream, work, history>>

-----------------------------------------------------------------------------
Handle(p) ==
    \/ SaveTrigger(p)
    \/ CallChildren(p)
    \/ ConcludeJob(p)
    \/ EndBranch(p)

EngineStep(e) ==
    \/ \E m \in Msg : Deliver(e, m)
    \/ \E j \in Job : StartChild(e, j) \/ RefuseChild(e, j)
    \/ Enter(e) \/ SaveActivity(e) \/ SaveDuplex(e) \/ ExecActivity(e)
    \/ Reenter(e) \/ SaveAnswer(e)
    \/ Fail(e) \/ Ack(e)
    \/ Handle(e)

ClientStep(c) == (\E j \in Job : Publish(c, j)) \/ Handle(c)

WorkerStep(n) == \E s \in Status : WorkerAnswer(n, s)

Next ==
    \/ \E e \in Engine : EngineStep(e)
    \/ \E c \in Client : ClientStep(c)
    \/ \E n \in Node : WorkerStep(n)

Spec == Init /\ [][Next]_vars

\* The consume loops never stop, a started pub runs to its end, and a worker's
\* function returns.
Fairness ==
    /\ \A e \in Engine : WF_vars(EngineStep(e))
    /\ \A c \in Client : WF_vars(Handle(c))
    /\ \A n \in Node : WF_vars(WorkerStep(n))

FairSpec == Spec /\ Fairness

-----------------------------------------------------------------------------
Handler ==
    [pc : {"idle", "claim", "seed", "enter", "save", "exec", "reenter",
           "resave", "transition", "fail", "ack"},
     msg : Msg \cup {NoMsg}, job : Job \cup {NoJob},
     adj : SUBSET Node, js : Int]

TypeOK ==
    /\ claimed \subseteq Job /\ saved \subseteq Job
    /\ status \in [Job -> Int]
    /\ parent \in [Job -> Node \cup {NoNode}]
    /\ ledger \in [Node -> Ledger]
    /\ stream \in [Msg -> Nat]
    /\ work \in [Node -> Nat]
    /\ proc \in [Process -> Handler]
    /\ spawned \subseteq Node /\ completed \subseteq Node
    /\ notified \in [Job -> Nat]

Outstanding(j) == {n \in spawned \ completed : Owner[n] = j}

(* distributed_orchestration.md, "Shared Semaphore State": the number that *)
(* every save adjusts by (children - 1) is, between any two round trips of *)
(* any engines, the number of activities still to complete.                *)
SemaphoreCounts == \A j \in saved : status[j] = Cardinality(Outstanding(j))

\* Where an activity's next step can come from: a process that handles its
\* entry or is about to call it, a job started on its behalf, an entry of the
\* engine stream, or (named by the activity) a request on its worker's stream.
Places == Process \cup Job \cup Msg \cup Node

Holds(x, n) ==
    \/ /\ x \in Process
       /\ \/ /\ proc[x].msg.node = n
             /\ proc[x].pc \notin {"idle", "transition", "ack"}
          \/ proc[x].pc = "transition" /\ n \in proc[x].adj
    \/ x \in Job /\ x \in saved /\ parent[x] = n /\ notified[x] = 0
    \/ x \in Msg /\ x.node = n /\ stream[x] > 0
    \/ x \in Node /\ x = n /\ work[n] > 0

Holders(n) == {x \in Places : Holds(x, n)}

(* No activity is handled in two places at once, and none is handled after *)
(* it completed or before its parent called it: the ledger checks need not *)
(* refuse anything as long as entries are delivered once.                  *)
CustodyExclusive ==
    /\ \A n \in Node : \A x, y \in Holders(n) : x = y
    /\ \A n \in Node : Holders(n) # {} => n \in spawned \ completed
    /\ \A m \in Msg : stream[m] <= 1
    /\ \A n \in Node : work[n] <= 1

(* collator/README.md, "chain of custody": an activity that was called and *)
(* has not completed is in some entry's or some handler's care.            *)
CustodyKept == \A n \in spawned \ completed : Holders(n) # {}

(* A job's parent and subscribers hear of its completion at most once, and *)
(* never while one of its activities is outstanding.                       *)
ConcludedOnce ==
    \A j \in Job : /\ notified[j] <= 1
                   /\ notified[j] > 0 => Outstanding(j) = {}

(* The handlers, taken together, keep the promise of JobPromise.           *)
Promise == INSTANCE JobPromise
    WITH published <- saved, concluded <- {j \in Job : notified[j] > 0}

ImplementsPromise == Promise!Spec

(* faq.md: "the entire process [...] will inevitably conclude".            *)
JobsConclude == \A j \in Job : j \in claimed ~> notified[j] > 0
=============================================================================
