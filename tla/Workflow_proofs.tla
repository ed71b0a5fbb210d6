--------------------------- MODULE Workflow_proofs --------------------------
(***************************************************************************)
(* What holds of Workflow for every graph, every number of engines, clients*)
(* and jobs, and every interleaving of their round trips; and of           *)
(* WorkflowFaults, wherever its one engine and its clients stop.           *)
(***************************************************************************)
EXTENDS WorkflowFaults, Collator_proofs, FiniteSetTheorems

Labels ==
    {"idle", "claim", "seed", "enter", "save", "exec", "reenter", "resave",
     "transition", "fail", "ack"}

\* A busy process has a job; a busy engine an entry; a client never has one.
ProcOK ==
    /\ \A p \in Process : proc[p].pc # "idle" => proc[p].job \in Job
    /\ \A e \in Engine : proc[e].pc # "idle" => proc[e].msg \in Msg
    /\ \A c \in Client :
         proc[c].msg = NoMsg /\ proc[c].pc \in {"idle", "seed", "transition"}

TypeInv == TypeOK /\ ProcOK

-----------------------------------------------------------------------------
(* How each kind of step leaves the processes.                             *)

LEMMA GotoStep ==
    ASSUME proc \in [Process -> Handler], NEW p \in Process, NEW l \in Labels,
           Goto(p, l)
    PROVE  /\ proc' \in [Process -> Handler]
           /\ proc'[p].pc = l /\ proc'[p].msg = proc[p].msg
           /\ proc'[p].job = proc[p].job /\ proc'[p].adj = proc[p].adj
           /\ proc'[p].js = proc[p].js
           /\ \A q \in Process : q # p => proc'[q] = proc[q]
  BY DEF Goto, Handler, Labels

LEMMA TransitionStep ==
    ASSUME proc \in [Process -> Handler], NEW p \in Process,
           NEW A \in SUBSET Node, NEW s \in Int,
           proc' = [proc EXCEPT ![p].pc = "transition", ![p].adj = A, ![p].js = s]
    PROVE  /\ proc' \in [Process -> Handler]
           /\ proc'[p].pc = "transition" /\ proc'[p].msg = proc[p].msg
           /\ proc'[p].job = proc[p].job /\ proc'[p].adj = A
           /\ proc'[p].js = s
           /\ \A q \in Process : q # p => proc'[q] = proc[q]
  BY ZenonT(60) DEF Handler

LEMMA ClaimStep ==
    ASSUME proc \in [Process -> Handler], NEW p \in Process, NEW j \in Job,
           proc' = [proc EXCEPT ![p].pc = "seed", ![p].job = j]
    PROVE  /\ proc' \in [Process -> Handler]
           /\ proc'[p].pc = "seed" /\ proc'[p].msg = proc[p].msg
           /\ proc'[p].job = j /\ proc'[p].adj = proc[p].adj
           /\ proc'[p].js = proc[p].js
           /\ \A q \in Process : q # p => proc'[q] = proc[q]
  BY DEF Handler

LEMMA IdleType == Idle \in Handler
  BY DEF Idle, Handler

LEMMA IdleStep ==
    ASSUME proc \in [Process -> Handler], NEW p \in Process,
           proc' = [proc EXCEPT ![p] = Idle]
    PROVE  /\ proc' \in [Process -> Handler]
           /\ proc'[p] = Idle
           /\ \A q \in Process : q # p => proc'[q] = proc[q]
  BY IdleType

\* What Finish leaves of an engine and of a client.
LEMMA FinishStep ==
    ASSUME TypeInv, NEW p \in Process, Finish(p), proc[p].pc # "idle"
    PROVE  /\ proc' \in [Process -> Handler]
           /\ proc'[p].pc \in {"ack", "idle"}
           /\ ProcOK'
           /\ \A q \in Process : q # p => proc'[q] = proc[q]
<1>1. CASE p \in Engine
  <2>1. Goto(p, "ack") /\ "ack" \in Labels
    BY <1>1 DEF Finish, Labels
  <2>2. p \notin Client
    BY <1>1, SortsAssumption
  <2> QED
    BY <1>1, <2>1, <2>2, GotoStep DEF TypeInv, TypeOK, ProcOK, Process
<1>2. CASE p \notin Engine
  <2>1. proc' = [proc EXCEPT ![p] = Idle] /\ p \in Client
    BY <1>2 DEF Finish, Process
  <2>2. /\ proc' \in [Process -> Handler] /\ proc'[p] = Idle
        /\ \A q \in Process : q # p => proc'[q] = proc[q]
    BY <2>1, IdleStep DEF TypeInv, TypeOK
  <2>3. Idle.pc = "idle" /\ Idle.msg = NoMsg
    BY DEF Idle
  <2> QED
    BY <1>2, <2>1, <2>2, <2>3 DEF TypeInv, ProcOK, Process
<1> QED
  BY <1>1, <1>2

-----------------------------------------------------------------------------
(* What the messages and the data are.                                     *)

LEMMA MsgFields ==
    ASSUME NEW m \in Msg
    PROVE  /\ m.node \in Node /\ m.status \in Status
           /\ \/ m = Transition(m.node) /\ m.type = "transition"
              \/ m = Response(m.node, m.status) /\ m.type = "response"
              \/ m = Await(m.node) /\ m.type = "await"
              \/ m = Result(m.node) /\ m.type = "result"
<1>1. CASE \E n \in Node : m = Transition(n)
  BY <1>1 DEF Transition, Status
<1>2. CASE \E n \in Node, s \in Status : m = Response(n, s)
  BY <1>2 DEF Response
<1>3. CASE \E n \in Node : m = Await(n)
  BY <1>3 DEF Await, Status
<1>4. CASE \E n \in Node : m = Result(n)
  BY <1>4 DEF Result, Status
<1> QED
  BY <1>1, <1>2, <1>3, <1>4 DEF Msg

LEMMA NoMsgFields == NoMsg.node \notin Node /\ NoMsg \notin Msg
<1>1. NoMsg.node \notin Node
  BY GraphAssumption DEF NoMsg
<1> QED
  BY <1>1, MsgFields

LEMMA MsgTypes ==
    ASSUME NEW n \in Node
    PROVE  /\ Transition(n) \in Msg /\ Await(n) \in Msg /\ Result(n) \in Msg
           /\ \A s \in Status : Response(n, s) \in Msg
  BY DEF Msg

LEMMA AddType ==
    ASSUME NEW s \in [Msg -> Nat], NEW M
    PROVE  Add(s, M) \in [Msg -> Nat]
  BY DEF Add

LEMMA SeedType == Seed \in Ledger /\ Absent \in Ledger
  BY DEF Seed, Absent, Digits, Ledger

LEMMA PresetType ==
    ASSUME NEW l \in [Node -> Ledger], NEW A
    PROVE  Preset(l, A) \in [Node -> Ledger]
  BY SeedType DEF Preset

LEMMA FilterType ==
    ASSUME NEW x \in Job \cup Node, NEW A \in FilterAdjacent(x)
    PROVE  A \subseteq Children[x] /\ A \subseteq Node
           /\ IsFiniteSet(A) /\ Cardinality(A) \in Nat /\ Cardinality(A) \in Int
<1>1. A \subseteq Children[x] /\ A \subseteq Node
  BY GraphAssumption DEF FilterAdjacent
<1>2. IsFiniteSet(A)
  BY <1>1, TreeAssumption, FS_Subset
<1> QED
  BY <1>1, <1>2, FS_CardinalityType

-----------------------------------------------------------------------------
(* Type correctness.                                                       *)

LEMMA InitType == Init => TypeInv
  BY SeedType, IdleType, GraphAssumption
  DEF Init, TypeInv, TypeOK, ProcOK, Idle, Process

LEMMA ClaimJobType ==
    ASSUME TypeInv, NEW p \in Process, NEW j \in Job, ClaimJob(p, j),
           p \in Engine => proc[p].msg \in Msg
    PROVE  TypeInv'
<1>1. /\ proc' \in [Process -> Handler]
      /\ proc'[p].pc = "seed" /\ proc'[p].msg = proc[p].msg /\ proc'[p].job = j
      /\ \A q \in Process : q # p => proc'[q] = proc[q]
  BY ClaimStep DEF ClaimJob, TypeInv, TypeOK
<1>2. ProcOK'
  BY <1>1 DEF TypeInv, ProcOK, Process
<1>3. TypeOK'
  BY <1>1 DEF ClaimJob, history, TypeInv, TypeOK
<1> QED
  BY <1>2, <1>3 DEF TypeInv

LEMMA SaveTriggerType ==
    ASSUME TypeInv, NEW p \in Process, SaveTrigger(p)
    PROVE  TypeInv'
<1>1. proc[p].job \in Job
  BY DEF SaveTrigger, TypeInv, ProcOK
<1>2. PICK A \in FilterAdjacent(proc[p].job) :
        /\ ledger' = Preset(ledger, A)
        /\ status' = [status EXCEPT ![proc[p].job] = Cardinality(A)]
        /\ spawned' = spawned \cup A
        /\ proc' = [proc EXCEPT ![p].pc = "transition",
                                ![p].adj = A, ![p].js = Cardinality(A)]
  BY DEF SaveTrigger
<1>3. A \in SUBSET Node /\ Cardinality(A) \in Int
  BY <1>1, FilterType
<1>4. /\ proc' \in [Process -> Handler]
      /\ proc'[p].pc = "transition" /\ proc'[p].msg = proc[p].msg
      /\ proc'[p].job = proc[p].job
      /\ \A q \in Process : q # p => proc'[q] = proc[q]
  BY <1>2, <1>3, TransitionStep DEF TypeInv, TypeOK
<1>5. ProcOK'
  BY <1>4 DEF SaveTrigger, TypeInv, ProcOK, Process
<1>6. ledger' \in [Node -> Ledger]
  BY <1>2, PresetType DEF TypeInv, TypeOK
<1>7. proc[p].msg.node \in Node \cup {NoNode}
  BY MsgFields DEF TypeInv, TypeOK, Handler, NoMsg
<1>8. TypeOK'
  BY <1>1, <1>2, <1>3, <1>4, <1>6, <1>7 DEF SaveTrigger, TypeInv, TypeOK
<1> QED
  BY <1>5, <1>8 DEF TypeInv

\* An engine's step that only moves it on, changes its ledger or adds entries.
LEMMA EngineGotoType ==
    ASSUME TypeInv, NEW e \in Engine, proc[e].pc # "idle",
           NEW l \in Labels, Goto(e, l)
    PROVE  proc' \in [Process -> Handler] /\ ProcOK'
<1>1. e \in Process /\ e \notin Client
  BY SortsAssumption DEF Process
<1>2. /\ proc' \in [Process -> Handler]
      /\ proc'[e].pc = l /\ proc'[e].msg = proc[e].msg
      /\ proc'[e].job = proc[e].job
      /\ \A q \in Process : q # e => proc'[q] = proc[q]
  BY <1>1, GotoStep DEF TypeInv, TypeOK
<1> QED
  BY <1>1, <1>2 DEF TypeInv, ProcOK, Process

LEMMA DispatchType ==
    ASSUME TypeInv, NEW m \in Msg
    PROVE  /\ Dispatch(m) \in Handler
           /\ Dispatch(m).pc \in {"enter", "claim", "fail", "reenter"}
           /\ Dispatch(m).msg = m /\ Dispatch(m).job = Owner[m.node]
           /\ Dispatch(m).adj = {}
  BY MsgFields, GraphAssumption DEF Dispatch, Handler, TypeInv, TypeOK

LEMMA DeliverType ==
    ASSUME TypeInv, NEW e \in Engine, NEW m \in Msg, Deliver(e, m)
    PROVE  TypeInv'
<1>1. e \in Process /\ e \notin Client
  BY SortsAssumption DEF Process
<1>2. proc' = [proc EXCEPT ![e] = Dispatch(m)] /\ Owner[m.node] \in Job
  BY MsgFields, GraphAssumption DEF Deliver
<1>3. proc' \in [Process -> Handler] /\ ProcOK'
  BY <1>1, <1>2, DispatchType DEF TypeInv, TypeOK, ProcOK, Process
<1>4. stream' \in [Msg -> Nat]
  BY DEF Deliver, TypeInv, TypeOK
<1> QED
  BY <1>3, <1>4 DEF Deliver, TypeInv, TypeOK, jobVars, history

LEMMA EnterType ==
    ASSUME TypeInv, NEW e \in Engine, Enter(e)
    PROVE  TypeInv'
<1> DEFINE n == proc[e].msg.node
<1>1. n \in Node /\ ledger[n] \in Ledger
  BY MsgFields DEF Enter, TypeInv, TypeOK, ProcOK
<1>2. ledger' \in [Node -> Ledger]
  BY <1>1, SingleIncrements DEF Enter, TypeInv, TypeOK
<1>3. proc' \in [Process -> Handler] /\ ProcOK'
  BY EngineGotoType DEF Enter, Labels
<1> QED
  BY <1>2, <1>3 DEF Enter, TypeInv, TypeOK, jobVars, history

\* The transaction that counts an activity out and its children in.
LEMMA CountOutType ==
    ASSUME TypeInv, NEW e \in Engine, proc[e].pc # "idle", NEW n \in Node,
           NEW A \in FilterAdjacent(n), CountOut(e, n, A)
    PROVE  /\ status' \in [Job -> Int] /\ proc' \in [Process -> Handler] /\ ProcOK'
           /\ spawned' \subseteq Node /\ completed' \subseteq Node
           /\ UNCHANGED <<claimed, saved, parent, notified>>
<1>1. e \in Process /\ e \notin Client
  BY SortsAssumption DEF Process
<1>2. A \in SUBSET Node /\ Cardinality(A) \in Int /\ Owner[n] \in Job
  BY FilterType, GraphAssumption
<1>3. status' \in [Job -> Int] /\ status'[Owner[n]] \in Int
  BY <1>2 DEF CountOut, TypeInv, TypeOK
<1>4. /\ proc' \in [Process -> Handler]
      /\ proc'[e].pc = "transition" /\ proc'[e].msg = proc[e].msg
      /\ proc'[e].job = proc[e].job
      /\ \A q \in Process : q # e => proc'[q] = proc[q]
  BY <1>1, <1>2, <1>3, TransitionStep DEF CountOut, TypeInv, TypeOK
<1>5. ProcOK'
  BY <1>1, <1>4 DEF TypeInv, ProcOK, Process
<1> QED
  BY <1>2, <1>3, <1>4, <1>5 DEF CountOut, TypeInv, TypeOK

LEMMA SaveActivityType ==
    ASSUME TypeInv, NEW e \in Engine, SaveActivity(e)
    PROVE  TypeInv'
<1> DEFINE n == proc[e].msg.node
<1>1. n \in Node /\ ledger[n] \in Ledger
  BY MsgFields DEF SaveActivity, TypeInv, TypeOK, ProcOK
<1>2. PICK A \in FilterAdjacent(n) :
        /\ ledger' = Preset([ledger EXCEPT ![n] = NotarizeEarlyCompletion(@)], A)
        /\ CountOut(e, n, A)
  BY DEF SaveActivity
<1>3. ledger' \in [Node -> Ledger]
  <2>1. [ledger EXCEPT ![n] = NotarizeEarlyCompletion(@)] \in [Node -> Ledger]
    BY <1>1, EarlyCompletionIncrement DEF TypeInv, TypeOK
  <2> QED
    BY <1>2, <2>1, PresetType
<1>4. /\ status' \in [Job -> Int] /\ proc' \in [Process -> Handler] /\ ProcOK'
      /\ spawned' \subseteq Node /\ completed' \subseteq Node
      /\ UNCHANGED <<claimed, saved, parent, notified>>
  BY <1>1, <1>2, CountOutType DEF SaveActivity
<1> QED
  BY <1>3, <1>4 DEF SaveActivity, TypeInv, TypeOK

LEMMA SaveDuplexType ==
    ASSUME TypeInv, NEW e \in Engine, SaveDuplex(e)
    PROVE  TypeInv'
<1> DEFINE n == proc[e].msg.node
<1>1. n \in Node /\ ledger[n] \in Ledger
  BY MsgFields DEF SaveDuplex, TypeInv, TypeOK, ProcOK
<1>2. ledger' \in [Node -> Ledger]
  BY <1>1, SingleIncrements DEF SaveDuplex, TypeInv, TypeOK
<1>3. proc' \in [Process -> Handler] /\ ProcOK'
  BY EngineGotoType DEF SaveDuplex, Labels
<1> QED
  BY <1>2, <1>3 DEF SaveDuplex, TypeInv, TypeOK, jobVars, history

LEMMA ExecActivityType ==
    ASSUME TypeInv, NEW e \in Engine, ExecActivity(e)
    PROVE  TypeInv'
<1> DEFINE n == proc[e].msg.node
<1>1. n \in Node
  BY MsgFields DEF ExecActivity, TypeInv, TypeOK, ProcOK
<1>2. work' \in [Node -> Nat] /\ stream' \in [Msg -> Nat]
  BY <1>1, AddType DEF ExecActivity, TypeInv, TypeOK
<1>3. proc' \in [Process -> Handler] /\ ProcOK'
  BY EngineGotoType DEF ExecActivity, Labels
<1> QED
  BY <1>2, <1>3 DEF ExecActivity, TypeInv, TypeOK, jobVars, history

LEMMA WorkerAnswerType ==
    ASSUME TypeInv, NEW n \in Node, NEW s \in Status, WorkerAnswer(n, s)
    PROVE  TypeInv'
<1>1. work' \in [Node -> Nat] /\ stream' \in [Msg -> Nat]
  BY AddType DEF WorkerAnswer, TypeInv, TypeOK
<1> QED
  BY <1>1 DEF WorkerAnswer, TypeInv, TypeOK, ProcOK, jobVars, history

LEMMA ReenterType ==
    ASSUME TypeInv, NEW e \in Engine, Reenter(e)
    PROVE  TypeInv'
<1> DEFINE n == proc[e].msg.node
<1>1. n \in Node /\ ledger[n] \in Ledger
  BY MsgFields DEF Reenter, TypeInv, TypeOK, ProcOK
<1>2. ledger' \in [Node -> Ledger]
  BY <1>1, SingleIncrements DEF Reenter, TypeInv, TypeOK
<1>3. \E l \in Labels : Goto(e, l)
  BY DEF Reenter, Labels
<1>4. proc' \in [Process -> Handler] /\ ProcOK'
  BY <1>3, EngineGotoType DEF Reenter
<1> QED
  BY <1>2, <1>4 DEF Reenter, TypeInv, TypeOK, jobVars, history

LEMMA SavePendingType ==
    ASSUME TypeInv, NEW e \in Engine, proc[e].pc = "resave", SavePending(e)
    PROVE  TypeInv'
<1> DEFINE n == proc[e].msg.node
<1>1. n \in Node /\ ledger[n] \in Ledger
  BY MsgFields DEF SavePending, TypeInv, TypeOK, ProcOK
<1>2. [ledger EXCEPT ![n] = NotarizeContinuation(@)] \in [Node -> Ledger]
  BY <1>1, SingleIncrements DEF TypeInv, TypeOK
<1>3. ledger' \in [Node -> Ledger]
  BY <1>2, PresetType, ZenonT(60) DEF SavePending
<1>4. proc' \in [Process -> Handler] /\ ProcOK'
  BY EngineGotoType DEF SavePending, Labels
<1> QED
  BY <1>3, <1>4 DEF SavePending, TypeInv, TypeOK, jobVars, history

LEMMA SaveCompletionType ==
    ASSUME TypeInv, NEW e \in Engine, proc[e].pc = "resave", SaveCompletion(e)
    PROVE  TypeInv'
<1> DEFINE n == proc[e].msg.node
<1>1. n \in Node /\ ledger[n] \in Ledger
  BY MsgFields DEF SaveCompletion, TypeInv, TypeOK, ProcOK
<1>2. PICK A \in FilterAdjacent(n) :
        /\ ledger' = Preset([ledger EXCEPT ![n] = NotarizeCompletion(@)], A)
        /\ CountOut(e, n, A)
  BY DEF SaveCompletion
<1>3. ledger' \in [Node -> Ledger]
  <2>1. [ledger EXCEPT ![n] = NotarizeCompletion(@)] \in [Node -> Ledger]
    BY <1>1, CompletionIncrement DEF TypeInv, TypeOK
  <2> QED
    BY <1>2, <2>1, PresetType
<1>4. /\ status' \in [Job -> Int] /\ proc' \in [Process -> Handler] /\ ProcOK'
      /\ spawned' \subseteq Node /\ completed' \subseteq Node
      /\ UNCHANGED <<claimed, saved, parent, notified>>
  BY <1>1, <1>2, CountOutType DEF SaveCompletion
<1> QED
  BY <1>3, <1>4 DEF SaveCompletion, TypeInv, TypeOK

\* transition: the handler's entry or promise is all that is left.
LEMMA HandleEndType ==
    ASSUME TypeInv, NEW p \in Process, CallChildren(p) \/ ConcludeJob(p) \/ EndBranch(p)
    PROVE  TypeInv'
<1>1. Finish(p) /\ proc[p].pc # "idle"
  BY DEF CallChildren, ConcludeJob, EndBranch
<1>2. proc' \in [Process -> Handler] /\ ProcOK'
  BY <1>1, FinishStep
<1>3. stream' \in [Msg -> Nat]
  BY AddType DEF CallChildren, ConcludeJob, EndBranch, TypeInv, TypeOK
<1>4. notified' \in [Job -> Nat]
  BY DEF CallChildren, ConcludeJob, EndBranch, history, TypeInv, TypeOK
<1>5. UNCHANGED <<jobVars, ledger, work, spawned, completed>>
  BY DEF CallChildren, ConcludeJob, EndBranch, history
<1> QED
  BY <1>2, <1>3, <1>4, <1>5 DEF TypeInv, TypeOK, jobVars

LEMMA AckType ==
    ASSUME TypeInv, NEW e \in Engine, Ack(e)
    PROVE  TypeInv'
<1>1. e \in Process /\ e \notin Client
  BY SortsAssumption DEF Process
<1>2. proc' \in [Process -> Handler] /\ ProcOK'
  BY <1>1, IdleStep DEF Ack, Idle, TypeInv, TypeOK, ProcOK, Process
<1> QED
  BY <1>2 DEF Ack, TypeInv, TypeOK, jobVars, history

LEMMA FailType ==
    ASSUME TypeInv, NEW e \in Engine, Fail(e)
    PROVE  TypeInv'
<1>1. stream' \in [Msg -> Nat]
  BY AddType DEF Fail, TypeInv, TypeOK
<1>2. proc' \in [Process -> Handler] /\ ProcOK'
  BY EngineGotoType DEF Fail, Labels
<1> QED
  BY <1>1, <1>2 DEF Fail, TypeInv, TypeOK, jobVars, history

LEMMA RefuseChildType ==
    ASSUME TypeInv, NEW e \in Engine, NEW j \in Job, RefuseChild(e, j)
    PROVE  TypeInv'
<1>1. proc' \in [Process -> Handler] /\ ProcOK'
  BY EngineGotoType DEF RefuseChild, Labels
<1> QED
  BY <1>1 DEF RefuseChild, TypeInv, TypeOK, jobVars, history

LEMMA NextType == TypeInv /\ [Next]_vars => TypeInv'
<1> SUFFICES ASSUME TypeInv, [Next]_vars PROVE TypeInv'
  OBVIOUS
<1>1. ASSUME NEW p \in Process, Handle(p) PROVE TypeInv'
  BY <1>1, SaveTriggerType, HandleEndType DEF Handle
<1>2. ASSUME NEW e \in Engine, EngineStep(e) PROVE TypeInv'
  <2>1. e \in Process
    BY DEF Process
  <2>2. ASSUME NEW j \in Job, StartChild(e, j) PROVE TypeInv'
    BY <2>1, <2>2, ClaimJobType DEF StartChild, TypeInv, ProcOK
  <2> QED
    BY <1>1, <1>2, <2>1, <2>2, DeliverType, RefuseChildType, EnterType,
       SaveActivityType, SaveDuplexType, ExecActivityType, ReenterType,
       SavePendingType, SaveCompletionType, FailType, AckType
    DEF EngineStep, SaveAnswer
<1>3. ASSUME NEW c \in Client, ClientStep(c) PROVE TypeInv'
  <2>1. c \in Process /\ c \notin Engine
    BY SortsAssumption DEF Process
  <2>2. ASSUME NEW j \in Job, Publish(c, j) PROVE TypeInv'
    BY <2>1, <2>2, ClaimJobType DEF Publish
  <2> QED
    BY <1>1, <1>3, <2>1, <2>2 DEF ClientStep
<1>4. ASSUME NEW n \in Node, WorkerStep(n) PROVE TypeInv'
  BY <1>4, WorkerAnswerType DEF WorkerStep
<1>5. CASE UNCHANGED vars
  BY <1>5 DEF vars, jobVars, history, TypeInv, TypeOK, ProcOK
<1> QED
  BY <1>2, <1>3, <1>4, <1>5 DEF Next

LEMMA TypeInvariant == Spec => []TypeInv
  BY InitType, NextType, PTL DEF Spec

(* Every variable keeps to its sort: the semaphore stays an integer, no    *)
(* stream is read below empty, and a handler's entry is one of the         *)
(* activities' own.                                                        *)
THEOREM TypeCorrect == Spec => []TypeOK
<1>1. TypeInv => TypeOK
  BY DEF TypeInv
<1> QED
  BY <1>1, TypeInvariant, PTL

-----------------------------------------------------------------------------
(* The chain of custody and the semaphore.                                 *)
(*                                                                         *)
(* The ledger is not mentioned: as long as each entry is delivered once and*)
(* no worker promises a further answer, no activity is in two places,      *)
(* whatever the two checks that read the ledger decide.                    *)

Called == spawned \ completed

\* Holds, one sort of place at a time.
ProcHolds(p, n) ==
    \/ proc[p].msg.node = n /\ proc[p].pc \notin {"idle", "transition", "ack"}
    \/ proc[p].pc = "transition" /\ n \in proc[p].adj
JobHolds(j, n) == j \in saved /\ parent[j] = n /\ notified[j] = 0
MsgHolds(m, n) == m.node = n /\ stream[m] > 0

\* n is in nobody's care but x's.
Sole(x, n) == \A y \in Places : Holds(y, n) <=> y = x

\* The chain of custody of one activity.
InCustody(n) ==
    /\ n \in Called => \E x \in Places : Sole(x, n)
    /\ n \notin Called => \A y \in Places : ~ Holds(y, n)

Custody ==
    /\ \A n \in Node : InCustody(n)
    /\ \A m \in Msg : stream[m] <= 1
    /\ \A n \in Node : work[n] <= 1

\* No answer promises another one.
NoPending ==
    /\ "pending" \notin Answers
    /\ \A m \in Msg : stream[m] > 0 => m.status # "pending"

\* An activity is called by a parent that was saved, in a job that was.
Books ==
    /\ saved \subseteq claimed
    /\ completed \subseteq spawned
    /\ \A k \in spawned : Owner[k] \in saved
    /\ \A x \in Job \cup Node :
         \A k \in Children[x] \cap spawned : x \in saved \cup completed

\* A process on its way to conclude a job.
Concluding(p) == proc[p].pc = "transition" /\ proc[p].adj = {} /\ proc[p].js <= 0

OnNode == {"enter", "save", "exec", "reenter", "resave"}

HandlerOK(p) ==
    /\ proc[p].pc = "seed" => proc[p].job \in claimed \ saved
    /\ proc[p].pc = "transition" => proc[p].job \in saved
    /\ proc[p].pc \in OnNode => proc[p].job = Owner[proc[p].msg.node]
    /\ Concluding(p) => Outstanding(proc[p].job) = {} /\ notified[proc[p].job] = 0

\* No two processes seed one job, and no two conclude one.
Apart(p, q) ==
    \/ proc[p].pc = "seed" /\ proc[q].pc = "seed"
    \/ Concluding(p) /\ Concluding(q)
    => proc[p].job # proc[q].job

Handlers ==
    /\ \A p \in Process : HandlerOK(p)
    /\ \A p, q \in Process : p # q => Apart(p, q)

Counts ==
    /\ SemaphoreCounts
    /\ \A j \in Job : notified[j] <= 1
    /\ \A j \in Job : notified[j] > 0 => j \in saved /\ Outstanding(j) = {}

Accounts == Books /\ Handlers /\ Counts

\* No handler has an answer that promises another, or found its job over.
Finals ==
    \A p \in Process : /\ proc[p].msg.status # "pending"
                       /\ proc[p].pc = "reenter" => proc[p].js > 0

\* The inductive invariant.
Safe == TypeInv /\ Custody /\ NoPending /\ Accounts /\ Finals
-----------------------------------------------------------------------------
(* Places and the moves between them.                                      *)

LEMMA HoldsProc ==
    ASSUME NEW x \in Process, NEW n
    PROVE  x \in Places /\ (Holds(x, n) <=> ProcHolds(x, n))
                       /\ (Holds(x, n)' <=> ProcHolds(x, n)')
  BY SortsAssumption DEF Holds, ProcHolds, Places

LEMMA HoldsJob ==
    ASSUME NEW x \in Job, NEW n
    PROVE  x \in Places /\ (Holds(x, n) <=> JobHolds(x, n))
                       /\ (Holds(x, n)' <=> JobHolds(x, n)')
  BY SortsAssumption DEF Holds, JobHolds, Places

LEMMA HoldsMsg ==
    ASSUME NEW x \in Msg, NEW n
    PROVE  x \in Places /\ (Holds(x, n) <=> MsgHolds(x, n))
                       /\ (Holds(x, n)' <=> MsgHolds(x, n)')
  BY SortsAssumption DEF Holds, MsgHolds, Places

LEMMA HoldsWork ==
    ASSUME NEW x \in Node, NEW n
    PROVE  x \in Places /\ (Holds(x, n) <=> x = n /\ work[n] > 0)
                       /\ (Holds(x, n)' <=> x = n /\ work'[n] > 0)
  BY SortsAssumption DEF Holds, Places

\* Nothing moved n.
LEMMA StaysInCustody ==
    ASSUME NEW n \in Node, InCustody(n), n \in Called' <=> n \in Called,
           \A y \in Process : ProcHolds(y, n)' <=> ProcHolds(y, n),
           \A y \in Job : JobHolds(y, n)' <=> JobHolds(y, n),
           \A y \in Msg : MsgHolds(y, n)' <=> MsgHolds(y, n),
           work'[n] > 0 <=> work[n] > 0
    PROVE  InCustody(n)'
<1>1. \A y \in Places : Holds(y, n)' <=> Holds(y, n)
  BY HoldsProc, HoldsJob, HoldsMsg, HoldsWork DEF Places
<1>2. Called' = spawned' \ completed'
  BY DEF Called
<1>3. (\E x \in Places : Sole(x, n)) => (\E x \in Places : Sole(x, n)')
  BY <1>1 DEF Sole
<1> QED
  BY <1>1, <1>3 DEF InCustody

\* n went to a process, to an entry, to a job or to a worker.
LEMMA MovesToProc ==
    ASSUME NEW n \in Node, n \in Called', NEW x \in Process,
           \A y \in Process : ProcHolds(y, n)' <=> y = x,
           \A y \in Job : ~ JobHolds(y, n)',
           \A y \in Msg : ~ MsgHolds(y, n)', ~ (work'[n] > 0)
    PROVE  InCustody(n)'
<1>1. x \in Places /\ x \notin Job /\ x \notin Msg /\ x \notin Node
  BY SortsAssumption DEF Places
<1>2. \A y \in Places : Holds(y, n)' <=> y = x
  BY <1>1, HoldsProc, HoldsJob, HoldsMsg, HoldsWork DEF Places
<1> QED
  BY <1>1, <1>2 DEF InCustody, Sole

LEMMA MovesToMsg ==
    ASSUME NEW n \in Node, n \in Called', NEW x \in Msg,
           \A y \in Process : ~ ProcHolds(y, n)',
           \A y \in Job : ~ JobHolds(y, n)',
           \A y \in Msg : MsgHolds(y, n)' <=> y = x, ~ (work'[n] > 0)
    PROVE  InCustody(n)'
<1>1. x \in Places /\ x \notin Job /\ x \notin Process /\ x \notin Node
  BY SortsAssumption DEF Places
<1>2. \A y \in Places : Holds(y, n)' <=> y = x
  BY <1>1, HoldsProc, HoldsJob, HoldsMsg, HoldsWork DEF Places
<1> QED
  BY <1>1, <1>2 DEF InCustody, Sole

LEMMA MovesToJob ==
    ASSUME NEW n \in Node, n \in Called', NEW x \in Job,
           \A y \in Process : ~ ProcHolds(y, n)',
           \A y \in Job : JobHolds(y, n)' <=> y = x,
           \A y \in Msg : ~ MsgHolds(y, n)', ~ (work'[n] > 0)
    PROVE  InCustody(n)'
<1>1. x \in Places /\ x \notin Msg /\ x \notin Process /\ x \notin Node
  BY SortsAssumption DEF Places
<1>2. \A y \in Places : Holds(y, n)' <=> y = x
  BY <1>1, HoldsProc, HoldsJob, HoldsMsg, HoldsWork DEF Places
<1> QED
  BY <1>1, <1>2 DEF InCustody, Sole

LEMMA MovesToWork ==
    ASSUME NEW n \in Node, n \in Called', work'[n] > 0,
           \A y \in Process : ~ ProcHolds(y, n)',
           \A y \in Job : ~ JobHolds(y, n)',
           \A y \in Msg : ~ MsgHolds(y, n)'
    PROVE  InCustody(n)'
<1>1. n \in Places /\ n \notin Msg /\ n \notin Process /\ n \notin Job
  BY SortsAssumption DEF Places
<1>2. \A y \in Places : Holds(y, n)' <=> y = n
  BY <1>1, HoldsProc, HoldsJob, HoldsMsg, HoldsWork DEF Places
<1> QED
  BY <1>1, <1>2 DEF InCustody, Sole

\* n completed.
LEMMA LeavesCustody ==
    ASSUME NEW n \in Node, n \notin Called',
           \A y \in Process : ~ ProcHolds(y, n)',
           \A y \in Job : ~ JobHolds(y, n)',
           \A y \in Msg : ~ MsgHolds(y, n)', ~ (work'[n] > 0)
    PROVE  InCustody(n)'
<1>1. \A y \in Places : ~ Holds(y, n)'
  BY HoldsProc, HoldsJob, HoldsMsg, HoldsWork DEF Places
<1> QED
  BY <1>1 DEF InCustody

\* Who holds n is the only one to.
LEMMA OnlyProc ==
    ASSUME NEW n \in Node, InCustody(n), NEW x \in Process, ProcHolds(x, n)
    PROVE  /\ n \in Called
           /\ \A y \in Process : ProcHolds(y, n) <=> y = x
           /\ \A y \in Job : ~ JobHolds(y, n)
           /\ \A y \in Msg : ~ MsgHolds(y, n)
           /\ ~ (work[n] > 0)
<1>1. x \notin Job /\ x \notin Msg /\ x \notin Node
  BY SortsAssumption
<1>2. n \in Called /\ Sole(x, n)
  BY HoldsProc DEF InCustody, Sole
<1> QED
  BY <1>1, <1>2, HoldsProc, HoldsJob, HoldsMsg, HoldsWork DEF Sole

LEMMA OnlyMsg ==
    ASSUME NEW n \in Node, InCustody(n), NEW x \in Msg, MsgHolds(x, n)
    PROVE  /\ n \in Called
           /\ \A y \in Process : ~ ProcHolds(y, n)
           /\ \A y \in Job : ~ JobHolds(y, n)
           /\ \A y \in Msg : MsgHolds(y, n) <=> y = x
           /\ ~ (work[n] > 0)
<1>1. x \notin Job /\ x \notin Process /\ x \notin Node
  BY SortsAssumption
<1>2. n \in Called /\ Sole(x, n)
  BY HoldsMsg DEF InCustody, Sole
<1> QED
  BY <1>1, <1>2, HoldsProc, HoldsJob, HoldsMsg, HoldsWork DEF Sole

LEMMA OnlyJob ==
    ASSUME NEW n \in Node, InCustody(n), NEW x \in Job, JobHolds(x, n)
    PROVE  /\ n \in Called
           /\ \A y \in Process : ~ ProcHolds(y, n)
           /\ \A y \in Job : JobHolds(y, n) <=> y = x
           /\ \A y \in Msg : ~ MsgHolds(y, n)
           /\ ~ (work[n] > 0)
<1>1. x \notin Msg /\ x \notin Process /\ x \notin Node
  BY SortsAssumption
<1>2. n \in Called /\ Sole(x, n)
  BY HoldsJob DEF InCustody, Sole
<1> QED
  BY <1>1, <1>2, HoldsProc, HoldsJob, HoldsMsg, HoldsWork DEF Sole

LEMMA OnlyWork ==
    ASSUME NEW n \in Node, InCustody(n), work[n] > 0
    PROVE  /\ n \in Called
           /\ \A y \in Process : ~ ProcHolds(y, n)
           /\ \A y \in Job : ~ JobHolds(y, n)
           /\ \A y \in Msg : ~ MsgHolds(y, n)
<1>1. n \notin Msg /\ n \notin Process /\ n \notin Job
  BY SortsAssumption
<1>2. n \in Called /\ Sole(n, n)
  BY HoldsWork DEF InCustody, Sole
<1> QED
  BY <1>1, <1>2, HoldsProc, HoldsJob, HoldsMsg, HoldsWork DEF Sole

\* What was not called is in nobody's care.
LEMMA HeldByNone ==
    ASSUME NEW n \in Node, InCustody(n), n \notin Called
    PROVE  /\ \A y \in Process : ~ ProcHolds(y, n)
           /\ \A y \in Job : ~ JobHolds(y, n)
           /\ \A y \in Msg : ~ MsgHolds(y, n)
           /\ ~ (work[n] > 0)
  BY HoldsProc, HoldsJob, HoldsMsg, HoldsWork DEF InCustody

-----------------------------------------------------------------------------
(* Custody, handler by handler.                                            *)

LEMMA AddOne ==
    ASSUME stream \in [Msg -> Nat], NEW M \in SUBSET Msg, stream' = Add(stream, M)
    PROVE  /\ \A m \in M : stream'[m] = stream[m] + 1
           /\ \A m \in Msg : m \notin M => stream'[m] = stream[m]
  BY DEF Add

\* A handler went on, or ended with nothing in its care.
LEMMA Unmoved ==
    ASSUME Custody, NoPending,
           \A p \in Process : \A n \in Node : ProcHolds(p, n)' <=> ProcHolds(p, n),
           UNCHANGED <<saved, parent, notified, stream, work, spawned, completed>>
    PROVE  Custody' /\ NoPending'
<1>1. ASSUME NEW n \in Node PROVE InCustody(n)'
  BY <1>1, StaysInCustody DEF Custody, JobHolds, MsgHolds, Called
<1> QED
  BY <1>1 DEF Custody, NoPending

LEMMA GotoUnmoved ==
    ASSUME TypeInv, Custody, NoPending, NEW p \in Process, NEW l \in Labels, Goto(p, l),
           proc[p].pc \notin {"idle", "transition", "ack"},
           l \notin {"idle", "transition", "ack"},
           UNCHANGED <<saved, parent, notified, stream, work, spawned, completed>>
    PROVE  Custody' /\ NoPending'
<1>1. \A q \in Process : \A n \in Node : ProcHolds(q, n)' <=> ProcHolds(q, n)
  BY GotoStep DEF ProcHolds, TypeInv, TypeOK
<1> QED
  BY <1>1, Unmoved

LEMMA ClaimJobCustody ==
    ASSUME TypeInv, Custody, NoPending, NEW p \in Process, NEW j \in Job, ClaimJob(p, j),
           \/ proc[p].pc = "claim"
           \/ proc[p].pc = "idle" /\ proc[p].msg = NoMsg
    PROVE  Custody' /\ NoPending'
<1>1. /\ proc'[p].pc = "seed" /\ proc'[p].msg = proc[p].msg
      /\ \A q \in Process : q # p => proc'[q] = proc[q]
  BY ClaimStep DEF ClaimJob, TypeInv, TypeOK
<1>2. \A q \in Process : \A n \in Node : ProcHolds(q, n)' <=> ProcHolds(q, n)
  BY <1>1, NoMsgFields DEF ProcHolds
<1> QED
  BY <1>2, Unmoved DEF ClaimJob, history

LEMMA DeliverCustody ==
    ASSUME TypeInv, Custody, NoPending, NEW e \in Engine, NEW m \in Msg, Deliver(e, m)
    PROVE  Custody' /\ NoPending'
<1>1. e \in Process /\ m.node \in Node
  BY MsgFields DEF Process
<1>2. /\ proc'[e].msg = m /\ proc'[e].pc \in {"enter", "claim", "fail", "reenter"}
      /\ \A q \in Process : q # e => proc'[q] = proc[q]
  BY <1>1, DispatchType DEF Deliver, TypeInv, TypeOK
<1>3. stream'[m] = 0 /\ \A y \in Msg : y # m => stream'[y] = stream[y]
  BY DEF Deliver, Custody, TypeInv, TypeOK
<1>4. \A k \in Node : ProcHolds(e, k)' <=> k = m.node
  BY <1>2 DEF ProcHolds
<1>5. InCustody(m.node)'
  <2>1. MsgHolds(m, m.node) /\ InCustody(m.node)
    BY <1>1 DEF Deliver, Custody, MsgHolds
  <2>2. /\ m.node \in Called
        /\ \A y \in Process : ~ ProcHolds(y, m.node)
        /\ \A y \in Job : ~ JobHolds(y, m.node)
        /\ \A y \in Msg : MsgHolds(y, m.node) <=> y = m
        /\ ~ (work[m.node] > 0)
    BY <1>1, <2>1, OnlyMsg
  <2>3. \A y \in Process : ProcHolds(y, m.node)' <=> y = e
    BY <1>1, <1>2, <1>4, <2>2 DEF ProcHolds
  <2>4. \A y \in Msg : ~ MsgHolds(y, m.node)'
    BY <1>3, <2>2 DEF MsgHolds
  <2> QED
    BY <1>1, <2>2, <2>3, <2>4, MovesToProc DEF Deliver, JobHolds, Called, jobVars, history
<1>6. ASSUME NEW k \in Node, k # m.node PROVE InCustody(k)'
  <2>1. \A y \in Process : ProcHolds(y, k)' <=> ProcHolds(y, k)
    <3>1. ~ ProcHolds(e, k)
      BY DEF Deliver, ProcHolds
    <3> QED
      BY <1>2, <1>4, <1>6, <3>1 DEF ProcHolds
  <2>2. \A y \in Msg : MsgHolds(y, k)' <=> MsgHolds(y, k)
    BY <1>3, <1>6 DEF MsgHolds
  <2> QED
    BY <2>1, <2>2, StaysInCustody DEF Deliver, Custody, JobHolds, Called, jobVars, history
<1>7. \A y \in Msg : stream'[y] <= 1
  BY <1>3 DEF Custody
<1> QED
  BY <1>3, <1>5, <1>6, <1>7 DEF Deliver, Custody, NoPending

\* A process about to acknowledge, or idle again, holds nothing.
LEMMA FinishHolds ==
    ASSUME TypeInv, NEW p \in Process, Finish(p), proc[p].pc = "transition"
    PROVE  /\ \A n : ~ ProcHolds(p, n)'
           /\ \A q \in Process : q # p => proc'[q] = proc[q]
<1>1. /\ proc'[p].pc \in {"ack", "idle"}
      /\ \A q \in Process : q # p => proc'[q] = proc[q]
  BY FinishStep
<1> QED
  BY <1>1 DEF ProcHolds

LEMMA EndBranchCustody ==
    ASSUME TypeInv, Custody, NoPending, NEW p \in Process, EndBranch(p)
    PROVE  Custody' /\ NoPending'
<1>1. \A q \in Process : \A n \in Node : ProcHolds(q, n)' <=> ProcHolds(q, n)
  BY FinishHolds DEF EndBranch, ProcHolds
<1> QED
  BY <1>1, Unmoved DEF EndBranch, jobVars, history

LEMMA AckCustody ==
    ASSUME TypeInv, Custody, NoPending, NEW e \in Engine, Ack(e)
    PROVE  Custody' /\ NoPending'
<1>1. e \in Process
  BY DEF Process
<1>2. /\ proc'[e] = Idle
      /\ \A q \in Process : q # e => proc'[q] = proc[q]
  BY <1>1, IdleStep DEF Ack, TypeInv, TypeOK
<1>3. \A q \in Process : \A n \in Node : ProcHolds(q, n)' <=> ProcHolds(q, n)
  BY <1>2 DEF Ack, Idle, ProcHolds
<1> QED
  BY <1>3, Unmoved DEF Ack, jobVars, history

LEMMA CallChildrenCustody ==
    ASSUME TypeInv, Custody, NoPending, NEW p \in Process, CallChildren(p)
    PROVE  Custody' /\ NoPending'
<1> DEFINE A == proc[p].adj
           M == {Transition(k) : k \in A}
<1>1. A \subseteq Node
  BY DEF TypeInv, TypeOK, Handler
<1>2. M \subseteq Msg /\ \A m \in M : m.node \in A /\ m = Transition(m.node)
                                      /\ m.status = "success"
  BY <1>1, MsgTypes DEF Transition
<1>3. /\ \A m \in M : stream'[m] = stream[m] + 1
      /\ \A m \in Msg : m \notin M => stream'[m] = stream[m]
  BY <1>2, AddOne DEF CallChildren, TypeInv, TypeOK
<1>4. /\ \A n : ~ ProcHolds(p, n)'
      /\ \A q \in Process : q # p => proc'[q] = proc[q]
  BY FinishHolds DEF CallChildren
<1>5. \A n \in Node : ProcHolds(p, n) <=> n \in A
  BY DEF CallChildren, ProcHolds
<1>6. ASSUME NEW n \in Node, n \in A
      PROVE  InCustody(n)' /\ \A m \in M : m.node = n => stream'[m] = 1
  <2>1. /\ n \in Called
        /\ \A y \in Process : ProcHolds(y, n) <=> y = p
        /\ \A y \in Job : ~ JobHolds(y, n)
        /\ \A y \in Msg : ~ MsgHolds(y, n)
        /\ ~ (work[n] > 0)
    BY <1>5, <1>6, OnlyProc DEF Custody
  <2>2. \A y \in Process : ~ ProcHolds(y, n)'
    BY <1>4, <2>1 DEF ProcHolds
  <2>3. Transition(n) \in M /\ Transition(n) \in Msg /\ Transition(n).node = n
    BY <1>6, MsgTypes DEF Transition
  <2>4. \A m \in Msg : m.node = n => stream[m] = 0
    BY <2>1 DEF MsgHolds, TypeInv, TypeOK
  <2>5. \A y \in Msg : MsgHolds(y, n)' <=> y = Transition(n)
    BY <1>2, <1>3, <2>3, <2>4 DEF MsgHolds
  <2>6. InCustody(n)'
    BY <2>1, <2>2, <2>3, <2>5, MovesToMsg DEF CallChildren, JobHolds, Called, jobVars, history
  <2> QED
    BY <1>2, <1>3, <2>4, <2>6
<1>7. ASSUME NEW n \in Node, n \notin A PROVE InCustody(n)'
  <2>1. \A y \in Process : ProcHolds(y, n)' <=> ProcHolds(y, n)
    BY <1>4, <1>5, <1>7 DEF ProcHolds
  <2>2. \A y \in Msg : MsgHolds(y, n)' <=> MsgHolds(y, n)
    BY <1>2, <1>3, <1>7 DEF MsgHolds
  <2> QED
    BY <2>1, <2>2, StaysInCustody DEF CallChildren, Custody, JobHolds, Called, jobVars, history
<1>8. \A m \in Msg : stream'[m] <= 1
  BY <1>1, <1>2, <1>3, <1>6 DEF Custody
<1>9. NoPending'
  <2>1. \A m \in Msg : stream'[m] > 0 => m.status # "pending"
    BY <1>2, <1>3 DEF NoPending
  <2> QED
    BY <2>1 DEF NoPending
<1> QED
  BY <1>6, <1>7, <1>8, <1>9 DEF CallChildren, Custody

\* The entry one activity's custody moves to.
LEMMA MovesToEntry ==
    ASSUME TypeInv, Custody, NoPending, NEW n \in Node, n \in Called, NEW m \in Msg,
           m.node = n, m.status # "pending", \A y \in Msg : ~ MsgHolds(y, n),
           stream' = Add(stream, {m}),
           \A y \in Process : ~ ProcHolds(y, n)',
           \A y \in Job : ~ JobHolds(y, n)', ~ (work'[n] > 0),
           \A k \in Node : k # n =>
             /\ \A y \in Process : ProcHolds(y, k)' <=> ProcHolds(y, k)
             /\ \A y \in Job : JobHolds(y, k)' <=> JobHolds(y, k)
             /\ work'[k] = work[k],
           work' \in [Node -> Nat],
           UNCHANGED <<spawned, completed>>
    PROVE  Custody' /\ NoPending'
<1>1. /\ stream'[m] = stream[m] + 1
      /\ \A y \in Msg : y # m => stream'[y] = stream[y]
  BY DEF Add, TypeInv, TypeOK
<1>2. stream[m] = 0
  BY DEF MsgHolds, TypeInv, TypeOK
<1>3. \A y \in Msg : MsgHolds(y, n)' <=> y = m
  <2>1. stream'[m] > 0
    BY <1>1, <1>2
  <2> QED
    BY <1>1, <2>1 DEF MsgHolds
<1>4. InCustody(n)'
  BY <1>3, MovesToMsg DEF Called
<1>5. ASSUME NEW k \in Node, k # n PROVE InCustody(k)'
  <2>1. \A y \in Msg : MsgHolds(y, k)' <=> MsgHolds(y, k)
    BY <1>1, <1>5 DEF MsgHolds
  <2> QED
    BY <1>5, <2>1, StaysInCustody DEF Custody, Called
<1>6. \A y \in Msg : stream'[y] <= 1
  BY <1>1, <1>2 DEF Custody
<1>7. \A k \in Node : work'[k] <= 1
  <2>1. work'[n] \in Nat
    OBVIOUS
  <2>2. work'[n] <= 1
    BY <2>1
  <2> QED
    BY <2>2 DEF Custody
<1>8. NoPending'
  <2>1. \A y \in Msg : stream'[y] > 0 => y.status # "pending"
    BY <1>1 DEF NoPending
  <2> QED
    BY <2>1 DEF NoPending
<1> QED
  BY <1>4, <1>5, <1>6, <1>7, <1>8 DEF Custody

LEMMA ConcludeJobCustody ==
    ASSUME TypeInv, Custody, NoPending, NEW p \in Process, ConcludeJob(p), HandlerOK(p)
    PROVE  Custody' /\ NoPending'
<1>0. PICK j, n : j = proc[p].job /\ n = parent[j]
  OBVIOUS
<1>1. j \in Job /\ j \in saved /\ notified[j] = 0 /\ UNCHANGED <<saved, parent>>
  BY <1>0 DEF ConcludeJob, HandlerOK, Concluding, TypeInv, ProcOK, jobVars
<1>2. \A q \in Process : \A k \in Node : ProcHolds(q, k)' <=> ProcHolds(q, k)
  BY FinishHolds DEF ConcludeJob, ProcHolds
<1>3. notified'[j] = 1 /\ \A i \in Job : i # j => notified'[i] = notified[i]
  BY <1>0, <1>1 DEF ConcludeJob, TypeInv, TypeOK
<1>4. \A k \in Node : k # n => \A i \in Job : JobHolds(i, k)' <=> JobHolds(i, k)
  BY <1>0, <1>1, <1>3 DEF JobHolds
<1>5. CASE n = NoNode
  <2>1. n \notin Node
    BY <1>5, GraphAssumption
  <2>2. stream' = stream
    BY <1>0, <1>5 DEF ConcludeJob, Add, TypeInv, TypeOK
  <2>3. ASSUME NEW k \in Node PROVE InCustody(k)'
    BY <1>2, <1>4, <2>1, <2>2, StaysInCustody
    DEF ConcludeJob, Custody, MsgHolds, Called
  <2> QED
    BY <2>2, <2>3 DEF ConcludeJob, Custody, NoPending
<1>6. CASE n # NoNode
  <2>1. n \in Node
    BY <1>0, <1>1, <1>6 DEF TypeInv, TypeOK
  <2>2. /\ Result(n) \in Msg /\ Result(n).node = n /\ Result(n).status # "pending"
        /\ stream' = Add(stream, {Result(n)})
    BY <1>0, <1>6, <2>1, MsgTypes DEF ConcludeJob, Result
  <2>3. JobHolds(j, n)
    BY <1>0, <1>1 DEF JobHolds
  <2>4. /\ n \in Called
        /\ \A y \in Process : ~ ProcHolds(y, n)
        /\ \A y \in Job : JobHolds(y, n) <=> y = j
        /\ \A y \in Msg : ~ MsgHolds(y, n)
        /\ ~ (work[n] > 0)
    BY <1>1, <2>1, <2>3, OnlyJob DEF Custody
  <2>5. \A y \in Job : ~ JobHolds(y, n)'
    BY <1>1, <1>3, <2>4 DEF JobHolds
  <2>6. work' = work /\ UNCHANGED <<spawned, completed>> /\ work' \in [Node -> Nat]
    BY DEF ConcludeJob, TypeInv, TypeOK
  <2> QED
    BY <1>2, <1>4, <2>1, <2>2, <2>4, <2>5, <2>6, MovesToEntry
<1> QED
  BY <1>5, <1>6

\* An engine's entry becomes another entry, or a request, for its activity.
LEMMA EngineLetsGo ==
    ASSUME TypeInv, Custody, NEW e \in Engine,
           proc[e].pc \notin {"idle", "transition", "ack"}, Goto(e, "ack"),
           NEW n, n = proc[e].msg.node
    PROVE  /\ n \in Node /\ n \in Called
           /\ \A y \in Process : ~ ProcHolds(y, n)'
           /\ \A y \in Job : ~ JobHolds(y, n)
           /\ \A y \in Msg : ~ MsgHolds(y, n)
           /\ ~ (work[n] > 0)
           /\ \A k \in Node : k # n =>
                \A y \in Process : ProcHolds(y, k)' <=> ProcHolds(y, k)
<1>1. e \in Process /\ "ack" \in Labels
  BY DEF Process, Labels
<1>2. n \in Node
  BY MsgFields DEF TypeInv, ProcOK
<1>3. /\ proc'[e].pc = "ack"
      /\ \A q \in Process : q # e => proc'[q] = proc[q]
  BY <1>1, GotoStep DEF TypeInv, TypeOK
<1>4. ProcHolds(e, n)
  BY DEF ProcHolds
<1>5. /\ n \in Called
      /\ \A y \in Process : ProcHolds(y, n) <=> y = e
      /\ \A y \in Job : ~ JobHolds(y, n)
      /\ \A y \in Msg : ~ MsgHolds(y, n)
      /\ ~ (work[n] > 0)
  BY <1>1, <1>2, <1>4, OnlyProc DEF Custody
<1>6. \A k \in Node : ~ ProcHolds(e, k)'
  BY <1>3 DEF ProcHolds
<1>7. \A k \in Node : k # n => ~ ProcHolds(e, k)
  BY DEF ProcHolds
<1>8. \A q \in Process : q # e => \A k \in Node : ProcHolds(q, k)' <=> ProcHolds(q, k)
  BY <1>3 DEF ProcHolds
<1> QED
  BY <1>2, <1>5, <1>6, <1>7, <1>8

LEMMA FailCustody ==
    ASSUME TypeInv, Custody, NoPending, NEW e \in Engine, Fail(e)
    PROVE  Custody' /\ NoPending'
<1>0. PICK n, m : n = proc[e].msg.node /\ m = Response(n, "error")
  OBVIOUS
<1>1. /\ n \in Node /\ n \in Called
      /\ \A y \in Process : ~ ProcHolds(y, n)'
      /\ \A y \in Job : ~ JobHolds(y, n)
      /\ \A y \in Msg : ~ MsgHolds(y, n)
      /\ ~ (work[n] > 0)
      /\ \A k \in Node : k # n =>
           \A y \in Process : ProcHolds(y, k)' <=> ProcHolds(y, k)
  BY <1>0, EngineLetsGo DEF Fail
<1>2. m \in Msg /\ m.node = n /\ m.status # "pending"
  BY <1>0, <1>1, MsgTypes DEF Response, Status
<1>3. stream' = Add(stream, {m})
  BY <1>0 DEF Fail
<1>4. /\ \A k \in Node : \A y \in Job : JobHolds(y, k)' <=> JobHolds(y, k)
      /\ work' = work /\ work \in [Node -> Nat]
      /\ UNCHANGED <<spawned, completed>>
  BY DEF Fail, JobHolds, jobVars, history, TypeInv, TypeOK
<1> QED
  BY <1>1, <1>2, <1>3, <1>4, MovesToEntry

LEMMA ExecActivityCustody ==
    ASSUME TypeInv, Custody, NoPending, NEW e \in Engine, ExecActivity(e)
    PROVE  Custody' /\ NoPending'
<1>0. PICK n, m : n = proc[e].msg.node /\ m = Await(n)
  OBVIOUS
<1>1. /\ n \in Node /\ n \in Called
      /\ \A y \in Process : ~ ProcHolds(y, n)'
      /\ \A y \in Job : ~ JobHolds(y, n)
      /\ \A y \in Msg : ~ MsgHolds(y, n)
      /\ ~ (work[n] > 0)
      /\ \A k \in Node : k # n =>
           \A y \in Process : ProcHolds(y, k)' <=> ProcHolds(y, k)
  BY <1>0, EngineLetsGo DEF ExecActivity
<1>2. /\ \A k \in Node : \A y \in Job : JobHolds(y, k)' <=> JobHolds(y, k)
      /\ work \in [Node -> Nat]
      /\ UNCHANGED <<spawned, completed>>
  BY DEF ExecActivity, JobHolds, jobVars, history, TypeInv, TypeOK
<1>3. CASE Kind[n] = "worker"
  <2>1. /\ stream' = stream /\ work'[n] = 1
        /\ \A k \in Node : k # n => work'[k] = work[k]
    BY <1>0, <1>1, <1>2, <1>3 DEF ExecActivity, TypeInv, TypeOK
  <2>2. InCustody(n)'
    BY <1>1, <1>2, <2>1, MovesToWork DEF MsgHolds, Called
  <2>3. ASSUME NEW k \in Node, k # n PROVE InCustody(k)'
    BY <1>1, <1>2, <2>1, <2>3, StaysInCustody DEF Custody, MsgHolds, Called
  <2> QED
    BY <1>1, <2>1, <2>2, <2>3 DEF Custody, NoPending
<1>4. CASE Kind[n] # "worker"
  <2>1. m \in Msg /\ m.node = n /\ m.status # "pending"
    BY <1>0, <1>1, MsgTypes DEF Await
  <2>2. stream' = Add(stream, {m}) /\ work' = work
    BY <1>0, <1>4 DEF ExecActivity
  <2> QED
    BY <1>1, <1>2, <2>1, <2>2, MovesToEntry
<1> QED
  BY <1>3, <1>4

LEMMA WorkerAnswerCustody ==
    ASSUME TypeInv, Custody, NoPending, NEW n \in Node, NEW s \in Status,
           WorkerAnswer(n, s)
    PROVE  Custody' /\ NoPending'
<1> DEFINE m == Response(n, s)
<1>1. s # "pending"
  BY DEF WorkerAnswer, NoPending
<1>2. /\ n \in Called
      /\ \A y \in Process : ~ ProcHolds(y, n)
      /\ \A y \in Job : ~ JobHolds(y, n)
      /\ \A y \in Msg : ~ MsgHolds(y, n)
  BY OnlyWork DEF WorkerAnswer, Custody
<1>3. m \in Msg /\ m.node = n /\ m.status # "pending"
  BY <1>1, MsgTypes DEF Response
<1>4. /\ work' = [work EXCEPT ![n] = @ - 1] /\ work[n] > 0 /\ work \in [Node -> Nat]
      /\ stream' = Add(stream, {m})
  BY <1>1 DEF WorkerAnswer, TypeInv, TypeOK
<1>5. /\ work' \in [Node -> Nat] /\ ~ (work'[n] > 0)
      /\ \A k \in Node : k # n => work'[k] = work[k]
  BY <1>4 DEF Custody
<1>6. /\ \A k \in Node : \A y \in Job : JobHolds(y, k)' <=> JobHolds(y, k)
      /\ \A k \in Node : \A y \in Process : ProcHolds(y, k)' <=> ProcHolds(y, k)
      /\ UNCHANGED <<spawned, completed>>
  BY DEF WorkerAnswer, JobHolds, ProcHolds, jobVars, history
<1> HIDE DEF m
<1> QED
  BY <1>2, <1>3, <1>4, <1>5, <1>6, MovesToEntry

\* The children of what was not saved yet were not called yet.
LEMMA UncalledChildren ==
    ASSUME TypeInv, Books, NEW x \in Job \cup Node, x \notin saved \cup completed,
           NEW A \in FilterAdjacent(x)
    PROVE  /\ A \subseteq Node /\ A \subseteq Children[x]
           /\ A \cap spawned = {} /\ A \cap completed = {}
<1>1. A \subseteq Node /\ A \subseteq Children[x]
  BY FilterType
<1> QED
  BY <1>1 DEF Books

\* They are in nobody's care.
LEMMA FreshChildren ==
    ASSUME TypeInv, Custody, Books, NEW x \in Job \cup Node, x \notin saved \cup completed,
           NEW A \in FilterAdjacent(x)
    PROVE  /\ A \subseteq Node /\ A \cap spawned = {} /\ A \cap completed = {}
           /\ \A k \in A : /\ \A y \in Process : ~ ProcHolds(y, k)
                           /\ \A y \in Job : ~ JobHolds(y, k)
                           /\ \A y \in Msg : ~ MsgHolds(y, k)
                           /\ ~ (work[k] > 0)
<1>1. A \subseteq Node /\ A \subseteq Children[x]
  BY FilterType
<1>2. A \cap spawned = {} /\ A \cap completed = {}
  BY UncalledChildren
<1>3. \A k \in A : k \in Node /\ InCustody(k) /\ k \notin Called
  BY <1>1, <1>2 DEF Custody, Called
<1> QED
  BY <1>1, <1>2, <1>3, HeldByNone

LEMMA SaveTriggerCustody ==
    ASSUME TypeInv, Custody, NoPending, Books, Counts, NEW p \in Process,
           HandlerOK(p), SaveTrigger(p)
    PROVE  Custody' /\ NoPending'
<1>0. PICK j, n : j = proc[p].job /\ n = proc[p].msg.node
  OBVIOUS
<1>1. PICK A \in FilterAdjacent(j) :
        /\ spawned' = spawned \cup A
        /\ proc' = [proc EXCEPT ![p].pc = "transition",
                                ![p].adj = A, ![p].js = Cardinality(A)]
  BY <1>0 DEF SaveTrigger
<1>2. j \in Job /\ j \notin saved /\ j \notin Node
  BY <1>0, SortsAssumption DEF SaveTrigger, HandlerOK, TypeInv, ProcOK
<1>3. /\ A \subseteq Node /\ A \cap spawned = {} /\ A \cap completed = {}
      /\ \A k \in A : /\ \A y \in Process : ~ ProcHolds(y, k)
                      /\ \A y \in Job : ~ JobHolds(y, k)
                      /\ \A y \in Msg : ~ MsgHolds(y, k)
                      /\ ~ (work[k] > 0)
  <2>1. j \notin saved \cup completed
    BY <1>2 DEF TypeInv, TypeOK
  <2> QED
    BY <1>2, <2>1, FreshChildren
<1>4. /\ proc'[p].pc = "transition" /\ proc'[p].adj = A
      /\ \A q \in Process : q # p => proc'[q] = proc[q]
  BY <1>1, <1>2, <1>3, FilterType, TransitionStep DEF TypeInv, TypeOK
<1>5. \A k : ProcHolds(p, k)' <=> k \in A
  BY <1>4 DEF ProcHolds
<1>6. \A k \in Node : ProcHolds(p, k) <=> k = n
  BY <1>0 DEF SaveTrigger, ProcHolds
<1>7. notified[j] = 0
  BY <1>2 DEF Counts, TypeInv, TypeOK
<1>8. /\ saved' = saved \cup {j} /\ parent' = [parent EXCEPT ![j] = n]
      /\ notified' = notified /\ stream' = stream /\ work' = work
      /\ completed' = completed
  BY <1>0 DEF SaveTrigger
<1>9. /\ \A y \in Job : y # j => \A k : JobHolds(y, k)' <=> JobHolds(y, k)
      /\ \A k : ~ JobHolds(j, k)
      /\ \A k : JobHolds(j, k)' <=> k = n
  <2>1. parent'[j] = n /\ \A y \in Job : y # j => parent'[y] = parent[y]
    BY <1>2, <1>8 DEF TypeInv, TypeOK
  <2> QED
    BY <1>2, <1>7, <1>8, <2>1 DEF JobHolds
<1>10. \A k : \A y \in Msg : MsgHolds(y, k)' <=> MsgHolds(y, k)
  BY <1>8 DEF MsgHolds
<1>11. ASSUME NEW k \in Node, k \in A PROVE InCustody(k)'
  <2>1. k # n
    BY <1>3, <1>6, <1>11
  <2>2. k \in Called'
    BY <1>1, <1>3, <1>8, <1>11 DEF Called
  <2>3. \A y \in Process : ProcHolds(y, k)' <=> y = p
    BY <1>3, <1>4, <1>5, <1>11 DEF ProcHolds
  <2> QED
    BY <1>3, <1>8, <1>9, <1>10, <1>11, <2>1, <2>2, <2>3, MovesToProc
<1>12. ASSUME NEW k \in Node, k = n PROVE InCustody(k)'
  <2>1. /\ k \in Called
        /\ \A y \in Process : ProcHolds(y, k) <=> y = p
        /\ \A y \in Job : ~ JobHolds(y, k)
        /\ \A y \in Msg : ~ MsgHolds(y, k)
        /\ ~ (work[k] > 0)
    BY <1>6, <1>12, OnlyProc DEF Custody
  <2>2. k \notin A /\ k \in Called'
    BY <1>1, <1>3, <1>8, <2>1 DEF Called
  <2>3. \A y \in Process : ~ ProcHolds(y, k)'
    BY <1>4, <1>5, <2>1, <2>2 DEF ProcHolds
  <2> QED
    BY <1>2, <1>8, <1>9, <1>10, <1>12, <2>1, <2>2, <2>3, MovesToJob
<1>13. ASSUME NEW k \in Node, k \notin A, k # n PROVE InCustody(k)'
  <2>1. k \in Called' <=> k \in Called
    BY <1>1, <1>8, <1>13 DEF Called
  <2>2. \A y \in Process : ProcHolds(y, k)' <=> ProcHolds(y, k)
    BY <1>4, <1>5, <1>6, <1>13 DEF ProcHolds
  <2> QED
    BY <1>8, <1>9, <1>10, <1>13, <2>1, <2>2, StaysInCustody DEF Custody
<1> QED
  BY <1>8, <1>11, <1>12, <1>13 DEF Custody, NoPending

LEMMA CountOutCustody ==
    ASSUME TypeInv, Custody, NoPending, Books, NEW e \in Engine,
           proc[e].pc \in {"save", "resave"},
           NEW n \in Node, n = proc[e].msg.node,
           NEW A \in FilterAdjacent(n), CountOut(e, n, A), UNCHANGED <<stream, work>>
    PROVE  /\ Custody' /\ NoPending'
           /\ n \in Called /\ A \cap spawned = {} /\ A \cap completed = {}
<1>1. e \in Process
  BY DEF Process
<1>2. ProcHolds(e, n) /\ \A k \in Node : ProcHolds(e, k) <=> k = n
  BY DEF ProcHolds
<1>3. /\ n \in Called
      /\ \A y \in Process : ProcHolds(y, n) <=> y = e
      /\ \A y \in Job : ~ JobHolds(y, n)
      /\ \A y \in Msg : ~ MsgHolds(y, n)
      /\ ~ (work[n] > 0)
  BY <1>1, <1>2, OnlyProc DEF Custody
<1>4. n \notin saved \cup completed
  BY <1>3, SortsAssumption DEF Called, TypeInv, TypeOK
<1>5. /\ A \subseteq Node /\ A \cap spawned = {} /\ A \cap completed = {}
      /\ \A k \in A : /\ \A y \in Process : ~ ProcHolds(y, k)
                      /\ \A y \in Job : ~ JobHolds(y, k)
                      /\ \A y \in Msg : ~ MsgHolds(y, k)
                      /\ ~ (work[k] > 0)
  BY <1>4, FreshChildren
<1>6. /\ proc'[e].pc = "transition" /\ proc'[e].adj = A
      /\ \A q \in Process : q # e => proc'[q] = proc[q]
  <2>1. status'[Owner[n]] \in Int
    BY CountOutType, GraphAssumption
  <2> QED
    BY <1>1, <1>5, <2>1, TransitionStep DEF CountOut, TypeInv, TypeOK
<1>7. \A k : ProcHolds(e, k)' <=> k \in A
  BY <1>6 DEF ProcHolds
<1>8. /\ spawned' = spawned \cup A /\ completed' = completed \cup {n}
      /\ \A k : \A y \in Job : JobHolds(y, k)' <=> JobHolds(y, k)
      /\ \A k : \A y \in Msg : MsgHolds(y, k)' <=> MsgHolds(y, k)
      /\ stream' = stream /\ work' = work
  BY DEF CountOut, JobHolds, MsgHolds
<1>9. n \notin A
  BY <1>3, <1>5 DEF Called
<1>10. ASSUME NEW k \in Node, k \in A PROVE InCustody(k)'
  <2>1. k \in Called'
    BY <1>5, <1>8, <1>9, <1>10 DEF Called
  <2>2. \A y \in Process : ProcHolds(y, k)' <=> y = e
    BY <1>5, <1>6, <1>7, <1>10 DEF ProcHolds
  <2> QED
    BY <1>1, <1>5, <1>8, <1>10, <2>1, <2>2, MovesToProc
<1>11. InCustody(n)'
  <2>1. n \notin Called'
    BY <1>8 DEF Called
  <2>2. \A y \in Process : ~ ProcHolds(y, n)'
    BY <1>3, <1>6, <1>7, <1>9 DEF ProcHolds
  <2> QED
    BY <1>3, <1>8, <2>1, <2>2, LeavesCustody
<1>12. ASSUME NEW k \in Node, k \notin A, k # n PROVE InCustody(k)'
  <2>1. k \in Called' <=> k \in Called
    BY <1>8, <1>12 DEF Called
  <2>2. \A y \in Process : ProcHolds(y, k)' <=> ProcHolds(y, k)
    BY <1>2, <1>6, <1>7, <1>12 DEF ProcHolds
  <2> QED
    BY <1>8, <1>12, <2>1, <2>2, StaysInCustody DEF Custody
<1> QED
  BY <1>3, <1>5, <1>8, <1>10, <1>11, <1>12 DEF Custody, NoPending

-----------------------------------------------------------------------------
(* The semaphore, the tree of calls and the conclusions.                   *)

\* Outstanding as it is before and after a step.
LEMMA OutstandingIs ==
    \A j : /\ Outstanding(j) = {n \in Called : Owner[n] = j}
           /\ Outstanding(j)' = {n \in Called' : Owner[n] = j}
  BY DEF Outstanding, Called

LEMMA OutstandingFinite ==
    ASSUME TypeInv, NEW j
    PROVE  IsFiniteSet(Outstanding(j)) /\ Cardinality(Outstanding(j)) \in Nat
           /\ (Cardinality(Outstanding(j)) = 0 <=> Outstanding(j) = {})
<1>1. Outstanding(j) \subseteq Node
  BY DEF Outstanding, TypeInv, TypeOK
<1>2. IsFiniteSet(Outstanding(j))
  BY <1>1, TreeAssumption, FS_Subset
<1> QED
  BY <1>2, FS_CardinalityType, FS_EmptySet

\* A step that counts nothing, seeds nothing and concludes nothing.
LEMMA QuietAccounts ==
    ASSUME Accounts, NEW p \in Process,
           UNCHANGED <<claimed, saved, status, spawned, completed, notified>>,
           \A q \in Process : q # p => proc'[q] = proc[q],
           HandlerOK(p)', proc'[p].pc # "seed", ~ Concluding(p)'
    PROVE  Accounts'
<1>1. \A j : Outstanding(j)' = Outstanding(j)
  BY DEF Outstanding
<1>2. Books'
  BY DEF Accounts, Books
<1>3. Counts'
  BY <1>1 DEF Accounts, Counts, SemaphoreCounts
<1>4. ASSUME NEW q \in Process, q # p PROVE HandlerOK(q)'
  BY <1>1, <1>4 DEF Accounts, Handlers, HandlerOK, Concluding
<1>5. ASSUME NEW q \in Process, NEW r \in Process, q # r PROVE Apart(q, r)'
  BY <1>5 DEF Accounts, Handlers, Apart, Concluding
<1> QED
  BY <1>2, <1>3, <1>4, <1>5 DEF Accounts, Handlers

LEMMA GotoAccounts ==
    ASSUME TypeInv, Accounts, NEW p \in Process, NEW l \in Labels, Goto(p, l),
           l \in {"save", "exec", "resave", "fail", "ack"},
           l \in OnNode => proc[p].pc \in OnNode,
           UNCHANGED <<claimed, saved, status, spawned, completed, notified>>
    PROVE  Accounts'
<1>1. /\ proc'[p].pc = l /\ proc'[p].msg = proc[p].msg /\ proc'[p].job = proc[p].job
      /\ \A q \in Process : q # p => proc'[q] = proc[q]
  BY GotoStep DEF TypeInv, TypeOK
<1>2. ~ Concluding(p)'
  BY <1>1 DEF Concluding
<1>3. HandlerOK(p)'
  BY <1>1, <1>2 DEF Accounts, Handlers, HandlerOK, OnNode
<1> QED
  BY <1>1, <1>2, <1>3, QuietAccounts

LEMMA IdleAccounts ==
    ASSUME TypeInv, Accounts, NEW p \in Process, proc' = [proc EXCEPT ![p] = Idle],
           UNCHANGED <<claimed, saved, status, spawned, completed, notified>>
    PROVE  Accounts'
<1>1. proc'[p] = Idle /\ \A q \in Process : q # p => proc'[q] = proc[q]
  BY IdleStep DEF TypeInv, TypeOK
<1>2. proc'[p].pc = "idle"
  BY <1>1 DEF Idle
<1>3. HandlerOK(p)' /\ ~ Concluding(p)'
  BY <1>2 DEF HandlerOK, Concluding, OnNode
<1> QED
  BY <1>1, <1>2, <1>3, QuietAccounts

LEMMA FinishAccounts ==
    ASSUME TypeInv, Accounts, NEW p \in Process, Finish(p),
           UNCHANGED <<claimed, saved, status, spawned, completed, notified>>
    PROVE  Accounts'
<1>1. CASE p \in Engine
  <2>1. Goto(p, "ack")
    BY <1>1 DEF Finish
  <2>2. "ack" \in Labels /\ "ack" \notin OnNode
    BY DEF Labels, OnNode
  <2> QED
    BY <2>1, <2>2, GotoAccounts
<1>2. CASE p \notin Engine
  BY <1>2, IdleAccounts DEF Finish
<1> QED
  BY <1>1, <1>2

LEMMA ClaimJobAccounts ==
    ASSUME TypeInv, Accounts, NEW p \in Process, NEW j \in Job, ClaimJob(p, j)
    PROVE  Accounts'
<1>1. /\ proc'[p].pc = "seed" /\ proc'[p].msg = proc[p].msg /\ proc'[p].job = j
      /\ \A q \in Process : q # p => proc'[q] = proc[q]
  BY ClaimStep DEF ClaimJob, TypeInv, TypeOK
<1>2. /\ j \notin claimed /\ j \notin saved /\ claimed' = claimed \cup {j}
      /\ UNCHANGED <<saved, spawned, completed, notified>>
  BY DEF ClaimJob, history, Accounts, Books
<1>3. \A i \in saved : status'[i] = status[i]
  BY <1>2 DEF ClaimJob, TypeInv, TypeOK
<1>4. \A i : Outstanding(i)' = Outstanding(i)
  BY <1>2 DEF Outstanding
<1>5. Books' /\ Counts'
  BY <1>2, <1>3, <1>4 DEF Accounts, Books, Counts, SemaphoreCounts
<1>6. HandlerOK(p)'
  BY <1>1, <1>2 DEF Accounts, Handlers, HandlerOK, Concluding, OnNode
<1>7. ASSUME NEW q \in Process, q # p PROVE HandlerOK(q)' /\ Apart(q, p)' /\ Apart(p, q)'
  <2>1. HandlerOK(q)'
    BY <1>1, <1>2, <1>4, <1>7 DEF Accounts, Handlers, HandlerOK, Concluding
  <2>2. proc[q].pc = "seed" => proc[q].job # j
    BY <1>2 DEF Accounts, Handlers, HandlerOK
  <2> QED
    BY <1>1, <1>7, <2>1, <2>2 DEF Apart, Concluding
<1>8. ASSUME NEW q \in Process, NEW r \in Process, q # r, q # p, r # p PROVE Apart(q, r)'
  BY <1>1, <1>8 DEF Accounts, Handlers, Apart, Concluding
<1> QED
  BY <1>5, <1>6, <1>7, <1>8 DEF Accounts, Handlers

LEMMA DispatchAccounts ==
    ASSUME TypeInv, Accounts, NEW e \in Engine, NEW m \in Msg,
           proc' = [proc EXCEPT ![e] = Dispatch(m)],
           UNCHANGED <<claimed, saved, status, spawned, completed, notified>>
    PROVE  Accounts'
<1>1. e \in Process /\ m.node \in Node
  BY MsgFields DEF Process
<1>2. /\ proc'[e] = Dispatch(m)
      /\ \A q \in Process : q # e => proc'[q] = proc[q]
  BY <1>1 DEF TypeInv, TypeOK
<1>3. /\ proc'[e].msg = m /\ proc'[e].job = Owner[m.node]
      /\ proc'[e].pc \in {"enter", "claim", "fail", "reenter"}
  BY <1>2, DispatchType DEF Dispatch
<1>4. HandlerOK(e)' /\ ~ Concluding(e)'
  BY <1>1, <1>3 DEF HandlerOK, Concluding
<1> QED
  BY <1>1, <1>2, <1>3, <1>4, QuietAccounts

LEMMA DeliverAccounts ==
    ASSUME TypeInv, Accounts, NEW e \in Engine, NEW m \in Msg, Deliver(e, m)
    PROVE  Accounts'
  BY DispatchAccounts DEF Deliver, jobVars, history

LEMMA SaveTriggerAccounts ==
    ASSUME TypeInv, Accounts, NEW p \in Process, SaveTrigger(p)
    PROVE  Accounts'
<1>0. PICK j : j = proc[p].job
  OBVIOUS
<1>1. PICK A \in FilterAdjacent(j) :
        /\ status' = [status EXCEPT ![j] = Cardinality(A)]
        /\ spawned' = spawned \cup A
        /\ proc' = [proc EXCEPT ![p].pc = "transition",
                                ![p].adj = A, ![p].js = Cardinality(A)]
  BY <1>0 DEF SaveTrigger
<1>2. /\ j \in Job /\ j \in claimed /\ j \notin saved
      /\ HandlerOK(p) /\ proc[p].pc = "seed"
  BY <1>0 DEF SaveTrigger, Accounts, Handlers, HandlerOK, TypeInv, ProcOK
<1>3. /\ A \subseteq Children[j] /\ A \subseteq Node
      /\ IsFiniteSet(A) /\ Cardinality(A) \in Int
      /\ \A k \in A : Owner[k] = j
  BY <1>2, FilterType, TreeAssumption
<1>4. A \cap spawned = {} /\ A \cap completed = {}
  <2>1. j \notin saved \cup completed
    BY <1>2, SortsAssumption DEF TypeInv, TypeOK
  <2> QED
    BY <1>2, <2>1, UncalledChildren DEF Accounts
<1>5. /\ saved' = saved \cup {j}
      /\ UNCHANGED <<claimed, completed, notified>>
  BY <1>0 DEF SaveTrigger
<1>6. /\ proc'[p].pc = "transition" /\ proc'[p].msg = proc[p].msg
      /\ proc'[p].job = j /\ proc'[p].adj = A
      /\ \A q \in Process : q # p => proc'[q] = proc[q]
  BY <1>0, <1>1, <1>3, TransitionStep DEF TypeInv, TypeOK
<1>7. Outstanding(j)' = A /\ \A i : i # j => Outstanding(i)' = Outstanding(i)
  <2>1. \A k \in spawned : Owner[k] # j
    BY <1>2 DEF Accounts, Books
  <2> QED
    BY <1>1, <1>3, <1>4, <1>5, <2>1 DEF Outstanding
<1>8. Books'
  <2>1. \A x \in Job \cup Node : \A k \in Children[x] \cap spawned' : x \in saved' \cup completed'
    <3> SUFFICES ASSUME NEW x \in Job \cup Node, NEW k \in Children[x] \cap spawned'
                 PROVE  x \in saved' \cup completed'
      OBVIOUS
    <3>1. CASE k \in spawned
      BY <1>5, <3>1 DEF Accounts, Books
    <3>2. CASE k \in A
      <4>1. x = j
        BY <1>2, <1>3, <3>2, TreeAssumption
      <4> QED
        BY <1>5, <4>1
    <3> QED
      BY <1>1, <3>1, <3>2
  <2>2. saved' \subseteq claimed' /\ completed' \subseteq spawned'
    BY <1>1, <1>2, <1>5 DEF Accounts, Books
  <2>3. \A k \in spawned' : Owner[k] \in saved'
    BY <1>1, <1>3, <1>5 DEF Accounts, Books
  <2> QED
    BY <2>1, <2>2, <2>3 DEF Books
<1>9. Counts'
  <2>1. status'[j] = Cardinality(A) /\ \A i \in Job : i # j => status'[i] = status[i]
    BY <1>1, <1>2, <1>3 DEF TypeInv, TypeOK
  <2>2. \A i \in saved' : status'[i] = Cardinality(Outstanding(i)')
    BY <1>2, <1>5, <1>7, <2>1 DEF Accounts, Counts, SemaphoreCounts, TypeInv, TypeOK
  <2>3. \A i \in Job : notified'[i] <= 1
    BY <1>5 DEF Accounts, Counts
  <2>4. \A i \in Job : notified'[i] > 0 => i \in saved' /\ Outstanding(i)' = {}
    BY <1>2, <1>5, <1>7 DEF Accounts, Counts
  <2> QED
    BY <2>2, <2>3, <2>4 DEF Counts, SemaphoreCounts
<1>10. HandlerOK(p)'
  <2>1. notified'[j] = 0
    BY <1>2, <1>5 DEF Accounts, Counts, TypeInv, TypeOK
  <2> QED
    BY <1>2, <1>5, <1>6, <1>7, <2>1 DEF HandlerOK, Concluding, OnNode
<1>11. ASSUME NEW q \in Process, q # p PROVE HandlerOK(q)' /\ Apart(q, p)' /\ Apart(p, q)'
  <2>1. HandlerOK(q) /\ Apart(p, q)
    BY <1>11 DEF Accounts, Handlers
  <2>2. proc[q].pc = "seed" => proc[q].job # j
    BY <1>0, <1>2, <2>1 DEF Apart
  <2>3. proc[q].pc = "transition" => proc[q].job # j
    BY <1>2, <2>1 DEF HandlerOK
  <2>4. HandlerOK(q)'
    BY <1>5, <1>6, <1>7, <1>11, <2>1, <2>2, <2>3 DEF HandlerOK, Concluding
  <2> QED
    BY <1>6, <1>11, <2>3, <2>4 DEF Apart, Concluding
<1>12. ASSUME NEW q \in Process, NEW r \in Process, q # r, q # p, r # p PROVE Apart(q, r)'
  BY <1>6, <1>12 DEF Accounts, Handlers, Apart, Concluding
<1> QED
  BY <1>8, <1>9, <1>10, <1>11, <1>12 DEF Accounts, Handlers

LEMMA CountOutAccounts ==
    ASSUME TypeInv, Accounts, NEW e \in Engine,
           proc[e].pc \in {"save", "resave"},
           NEW n \in Node, n = proc[e].msg.node, n \in Called,
           NEW A \in FilterAdjacent(n), CountOut(e, n, A),
           A \cap spawned = {}, A \cap completed = {}
    PROVE  Accounts'
<1>0. PICK o : o = Owner[n]
  OBVIOUS
<1>1. e \in Process /\ HandlerOK(e)
  BY DEF Process, Accounts, Handlers
<1>2. /\ A \subseteq Children[n] /\ A \subseteq Node
      /\ IsFiniteSet(A) /\ Cardinality(A) \in Int
      /\ \A k \in A : Owner[k] = o
  BY <1>0, FilterType, TreeAssumption
<1>3. o \in saved /\ o \in Job /\ n \in Outstanding(o)
  BY <1>0, GraphAssumption DEF Called, Outstanding, Accounts, Books
<1>4. /\ status' = [status EXCEPT ![o] = @ + Cardinality(A) - 1]
      /\ proc' = [proc EXCEPT ![e].pc = "transition",
                              ![e].adj = A, ![e].js = status'[o]]
      /\ spawned' = spawned \cup A /\ completed' = completed \cup {n}
      /\ UNCHANGED <<claimed, saved, notified>>
  BY <1>0 DEF CountOut
<1>5. /\ status'[o] = status[o] + Cardinality(A) - 1 /\ status'[o] \in Int
      /\ \A i \in Job : i # o => status'[i] = status[i]
  BY <1>2, <1>3, <1>4 DEF TypeInv, TypeOK
<1>6. /\ proc'[e].pc = "transition" /\ proc'[e].msg = proc[e].msg
      /\ proc'[e].job = proc[e].job /\ proc'[e].adj = A /\ proc'[e].js = status'[o]
      /\ \A q \in Process : q # e => proc'[q] = proc[q]
  <2>1. proc \in [Process -> Handler] /\ A \in SUBSET Node
    BY <1>2 DEF TypeInv, TypeOK
  <2>2. status'[o] \in Int
    BY <1>5
  <2>3. PICK s \in Int : s = status'[o]
    BY <2>2
  <2>4. proc' = [proc EXCEPT ![e].pc = "transition", ![e].adj = A, ![e].js = s]
    BY <1>4, <2>3
  <2>5. /\ proc'[e].pc = "transition" /\ proc'[e].msg = proc[e].msg
        /\ proc'[e].job = proc[e].job /\ proc'[e].adj = A /\ proc'[e].js = s
        /\ \A q \in Process : q # e => proc'[q] = proc[q]
    BY <1>1, <2>1, <2>4 DEF Handler
  <2> QED
    BY <2>3, <2>5
<1>7. /\ Outstanding(o)' = (Outstanding(o) \ {n}) \cup A
      /\ \A i : i # o => Outstanding(i)' = Outstanding(i)
  <2>1. n \notin A
    BY DEF Called
  <2> QED
    BY <1>0, <1>2, <1>4, <2>1 DEF Outstanding
<1>8. Cardinality(Outstanding(o)') = Cardinality(Outstanding(o)) + Cardinality(A) - 1
  <2>1. PICK S, T : S = Outstanding(o) /\ T = Outstanding(o) \ {n}
    OBVIOUS
  <2>2. /\ IsFiniteSet(S) /\ Cardinality(S) \in Nat
        /\ IsFiniteSet(T) /\ Cardinality(T) = Cardinality(S) - 1
    BY <1>3, <2>1, OutstandingFinite, FS_RemoveElement
  <2>3. T \cap A = {}
    BY <2>1 DEF Outstanding
  <2>4. Cardinality(T \cup A) = Cardinality(T) + Cardinality(A) - Cardinality(T \cap A)
    BY <1>2, <2>2, FS_Union
  <2>5. Cardinality(T \cap A) = 0
    BY <2>3, FS_EmptySet
  <2>6. Cardinality(T \cup A) = Cardinality(S) + Cardinality(A) - 1
    BY <1>2, <2>2, <2>4, <2>5
  <2> QED
    BY <1>7, <2>1, <2>6
<1>9. status[o] = Cardinality(Outstanding(o)) /\ status'[o] = Cardinality(Outstanding(o)')
  BY <1>3, <1>5, <1>8 DEF Accounts, Counts, SemaphoreCounts
<1>10. notified[o] = 0
  BY <1>3 DEF Accounts, Counts, TypeInv, TypeOK
<1>11. Books'
  <2>1. \A x \in Job \cup Node : \A k \in Children[x] \cap spawned' : x \in saved' \cup completed'
    <3> SUFFICES ASSUME NEW x \in Job \cup Node, NEW k \in Children[x] \cap spawned'
                 PROVE  x \in saved' \cup completed'
      OBVIOUS
    <3>1. CASE k \in spawned
      BY <1>4, <3>1 DEF Accounts, Books
    <3>2. CASE k \in A
      <4>1. x = n
        BY <1>2, <3>2, TreeAssumption
      <4> QED
        BY <1>4, <4>1
    <3> QED
      BY <1>4, <3>1, <3>2
  <2>2. saved' \subseteq claimed' /\ completed' \subseteq spawned'
    BY <1>4 DEF Called, Accounts, Books
  <2>3. \A k \in spawned' : Owner[k] \in saved'
    BY <1>2, <1>3, <1>4 DEF Accounts, Books
  <2> QED
    BY <2>1, <2>2, <2>3 DEF Books
<1>12. Counts'
  <2>1. \A i \in saved' : status'[i] = Cardinality(Outstanding(i)')
    BY <1>4, <1>5, <1>7, <1>9 DEF Accounts, Counts, SemaphoreCounts, TypeInv, TypeOK
  <2>2. \A i \in Job : notified'[i] <= 1
    BY <1>4 DEF Accounts, Counts
  <2>3. \A i \in Job : notified'[i] > 0 => i \in saved' /\ Outstanding(i)' = {}
    BY <1>4, <1>7, <1>10 DEF Accounts, Counts
  <2> QED
    BY <2>1, <2>2, <2>3 DEF Counts, SemaphoreCounts
<1>13. proc[e].job = o
  BY <1>0, <1>1 DEF HandlerOK, OnNode
<1>14. HandlerOK(e)'
  <2>1. Concluding(e)' => Outstanding(o)' = {}
    <3>1. Outstanding(o)' \subseteq Node
      BY <1>2, <1>7 DEF Outstanding, TypeInv, TypeOK
    <3>2. IsFiniteSet(Outstanding(o)')
      BY <3>1, TreeAssumption, FS_Subset
    <3>3. Cardinality(Outstanding(o)') \in Nat
          /\ (Cardinality(Outstanding(o)') = 0 => Outstanding(o)' = {})
      BY <3>2, FS_CardinalityType, FS_EmptySet
    <3> QED
      BY <1>6, <1>9, <3>3 DEF Concluding
  <2>2. proc'[e].job = o /\ o \in saved' /\ notified'[o] = 0
    BY <1>3, <1>4, <1>6, <1>10, <1>13
  <2>3. proc'[e].pc = "transition" /\ "transition" \notin OnNode
    BY <1>6 DEF OnNode
  <2> QED
    BY <2>1, <2>2, <2>3 DEF HandlerOK
<1>15. ASSUME NEW q \in Process, q # e PROVE HandlerOK(q)' /\ Apart(q, e)' /\ Apart(e, q)'
  <2>1. HandlerOK(q)
    BY <1>15 DEF Accounts, Handlers
  <2>2. Concluding(q) => proc[q].job # o
    BY <1>3, <2>1 DEF HandlerOK
  <2>3. HandlerOK(q)'
    <3>1. proc'[q] = proc[q] /\ UNCHANGED <<claimed, saved, notified>>
      BY <1>4, <1>6, <1>15
    <3>2. Concluding(q)' <=> Concluding(q)
      BY <3>1 DEF Concluding
    <3>3. Concluding(q) => Outstanding(proc[q].job)' = {}
      <4> SUFFICES ASSUME Concluding(q) PROVE Outstanding(proc[q].job)' = {}
        OBVIOUS
      <4>1. PICK i : i = proc[q].job
        OBVIOUS
      <4>2. i # o /\ Outstanding(i) = {} /\ proc'[q].job = i
        BY <2>1, <2>2, <3>1, <4>1 DEF HandlerOK
      <4>3. Outstanding(i)' = {}
        BY <1>7, <4>2
      <4> QED
        BY <4>2, <4>3 DEF Outstanding
    <3> QED
      BY <2>1, <3>1, <3>2, <3>3 DEF HandlerOK
  <2> QED
    BY <1>6, <1>13, <1>15, <2>2, <2>3 DEF Apart, Concluding
<1>16. ASSUME NEW q \in Process, NEW r \in Process, q # r, q # e, r # e PROVE Apart(q, r)'
  BY <1>6, <1>16 DEF Accounts, Handlers, Apart, Concluding
<1> QED
  BY <1>11, <1>12, <1>14, <1>15, <1>16 DEF Accounts, Handlers

LEMMA ConcludeJobAccounts ==
    ASSUME TypeInv, Accounts, NEW p \in Process, ConcludeJob(p)
    PROVE  Accounts'
<1>0. PICK j : j = proc[p].job
  OBVIOUS
<1>1. /\ j \in Job /\ Concluding(p) /\ j \in saved
      /\ Outstanding(j) = {} /\ notified[j] = 0
  BY <1>0 DEF ConcludeJob, Concluding, Accounts, Handlers, HandlerOK, TypeInv, ProcOK
<1>2. /\ notified'[j] = 1 /\ \A i \in Job : i # j => notified'[i] = notified[i]
      /\ UNCHANGED <<claimed, saved, status, spawned, completed>>
  BY <1>0, <1>1 DEF ConcludeJob, jobVars, TypeInv, TypeOK
<1>3. \A i : Outstanding(i)' = Outstanding(i)
  BY <1>2 DEF Outstanding
<1>4. Books' /\ Counts'
  BY <1>1, <1>2, <1>3 DEF Accounts, Books, Counts, SemaphoreCounts
<1>5. /\ proc'[p].pc \in {"ack", "idle"}
      /\ \A q \in Process : q # p => proc'[q] = proc[q]
  BY <1>1, FinishStep DEF ConcludeJob, Concluding
<1>6. HandlerOK(p)' /\ ~ Concluding(p)'
  BY <1>5 DEF HandlerOK, Concluding, OnNode
<1>7. ASSUME NEW q \in Process, q # p PROVE HandlerOK(q)' /\ Apart(q, p)' /\ Apart(p, q)'
  <2>1. HandlerOK(q) /\ Apart(p, q)
    BY <1>7 DEF Accounts, Handlers
  <2>2. Concluding(q) => proc[q].job # j
    BY <1>0, <1>1, <2>1 DEF Apart
  <2>3. proc'[q] = proc[q] /\ (Concluding(q)' <=> Concluding(q))
    BY <1>5, <1>7 DEF Concluding
  <2>4. proc[q].pc # "idle" => proc[q].job \in Job
    BY DEF TypeInv, ProcOK
  <2>5. Concluding(q) => Outstanding(proc[q].job)' = {} /\ notified'[proc[q].job] = 0
    <3> SUFFICES ASSUME Concluding(q)
                 PROVE  Outstanding(proc[q].job)' = {} /\ notified'[proc[q].job] = 0
      OBVIOUS
    <3>1. PICK i : i = proc[q].job
      OBVIOUS
    <3>2. i \in Job /\ i # j /\ Outstanding(i) = {} /\ notified[i] = 0 /\ proc'[q].job = i
      BY <2>1, <2>2, <2>3, <2>4, <3>1 DEF HandlerOK, Concluding
    <3>3. Outstanding(i)' = {} /\ notified'[i] = 0
      BY <1>2, <1>3, <3>2
    <3> QED
      BY <3>1, <3>2, <3>3 DEF Outstanding
  <2>6. HandlerOK(q)'
    BY <1>2, <2>1, <2>3, <2>5 DEF HandlerOK
  <2> QED
    BY <1>5, <1>6, <2>6 DEF Apart
<1>8. ASSUME NEW q \in Process, NEW r \in Process, q # r, q # p, r # p PROVE Apart(q, r)'
  BY <1>5, <1>8 DEF Accounts, Handlers, Apart, Concluding
<1> QED
  BY <1>4, <1>6, <1>7, <1>8 DEF Accounts, Handlers

-----------------------------------------------------------------------------
(* Every step keeps the invariant.                                         *)

LEMMA NoMsgStatus == NoMsg.status # "pending" /\ Idle.msg.status # "pending"
  BY DEF NoMsg, Idle

LEMMA FinalsKept ==
    ASSUME Finals,
           \A p \in Process :
               \/ proc'[p] = proc[p]
               \/ /\ proc'[p].msg = proc[p].msg \/ proc'[p].msg.status # "pending"
                  /\ proc'[p].pc # "reenter"
    PROVE  Finals'
  BY DEF Finals

\* A job that one of its entries comes from is not over.
LEMMA DeliverFinals ==
    ASSUME Safe, NEW e \in Engine, NEW m \in Msg, Deliver(e, m)
    PROVE  Finals'
<1> USE DEF Safe
<1>1. e \in Process /\ m.node \in Node /\ m.status # "pending"
  BY MsgFields DEF Process, Deliver, NoPending
<1>2. /\ proc'[e] = Dispatch(m)
      /\ \A q \in Process : q # e => proc'[q] = proc[q]
  BY <1>1 DEF Deliver, TypeInv, TypeOK
<1>3. /\ proc'[e].msg = m
      /\ proc'[e].pc = "reenter" => proc'[e].js = status[Owner[m.node]]
  BY <1>2, DispatchType DEF Dispatch
<1>4. status[Owner[m.node]] > 0
  <2>1. m.node \in Called
    BY <1>1, OnlyMsg DEF Deliver, Custody, MsgHolds
  <2>2. Owner[m.node] \in saved /\ m.node \in Outstanding(Owner[m.node])
    BY <2>1 DEF Called, Outstanding, Accounts, Books
  <2>3. status[Owner[m.node]] = Cardinality(Outstanding(Owner[m.node]))
    BY <2>2 DEF Accounts, Counts, SemaphoreCounts
  <2>4. Cardinality(Outstanding(Owner[m.node])) \in Nat \ {0}
    BY <2>2, OutstandingFinite
  <2> QED
    BY <2>3, <2>4
<1> QED
  BY <1>1, <1>2, <1>3, <1>4 DEF Finals

LEMMA IdleFinals ==
    ASSUME Safe, NEW p \in Process, proc' = [proc EXCEPT ![p] = Idle]
    PROVE  Finals'
<1>1. proc'[p] = Idle /\ \A q \in Process : q # p => proc'[q] = proc[q]
  BY IdleStep DEF Safe, TypeInv, TypeOK
<1>2. proc'[p].pc = "idle" /\ proc'[p].msg.status # "pending"
  BY <1>1, NoMsgStatus DEF Idle
<1> QED
  BY <1>1, <1>2, FinalsKept DEF Safe

LEMMA GotoFinals ==
    ASSUME Safe, NEW p \in Process, NEW l \in Labels \ {"reenter"}, Goto(p, l)
    PROVE  Finals'
<1>1. /\ proc'[p].pc = l /\ proc'[p].msg = proc[p].msg
      /\ \A q \in Process : q # p => proc'[q] = proc[q]
  BY GotoStep DEF Safe, TypeInv, TypeOK
<1> QED
  BY <1>1, FinalsKept DEF Safe

LEMMA SaveFinals ==
    ASSUME Safe, NEW p \in Process, NEW A \in SUBSET Node, NEW s,
           proc' = [proc EXCEPT ![p].pc = "transition", ![p].adj = A, ![p].js = s]
    PROVE  Finals'
<1>1. /\ proc'[p].pc = "transition" /\ proc'[p].msg = proc[p].msg
      /\ \A q \in Process : q # p => proc'[q] = proc[q]
  BY DEF Safe, TypeInv, TypeOK, Handler
<1> QED
  BY <1>1, FinalsKept DEF Safe

LEMMA HandleFinals ==
    ASSUME Safe, NEW p \in Process, Handle(p)
    PROVE  Finals'
<1>1. CASE SaveTrigger(p)
  <2>1. PICK A \in FilterAdjacent(proc[p].job) :
          proc' = [proc EXCEPT ![p].pc = "transition", ![p].adj = A, ![p].js = Cardinality(A)]
    BY <1>1 DEF SaveTrigger
  <2>2. A \in SUBSET Node
    BY <1>1, FilterType DEF SaveTrigger, Safe, TypeInv, ProcOK
  <2> QED
    BY <2>1, <2>2, SaveFinals
<1>2. ASSUME Finish(p) PROVE Finals'
  BY <1>2, GotoFinals, IdleFinals DEF Finish, Labels
<1> QED
  BY <1>1, <1>2 DEF Handle, CallChildren, ConcludeJob, EndBranch

LEMMA NextFinals == Safe /\ [Next]_vars => Finals'
<1> SUFFICES ASSUME Safe, [Next]_vars PROVE Finals'
  OBVIOUS
<1>1. ASSUME NEW p \in Process, NEW j \in Job, ClaimJob(p, j) PROVE Finals'
  <2>1. /\ proc'[p].pc = "seed" /\ proc'[p].msg = proc[p].msg
        /\ \A q \in Process : q # p => proc'[q] = proc[q]
    BY <1>1, ClaimStep DEF ClaimJob, Safe, TypeInv, TypeOK
  <2> QED
    BY <2>1, FinalsKept DEF Safe
<1>2. ASSUME NEW e \in Engine, EngineStep(e) PROVE Finals'
  <2>1. e \in Process
    BY DEF Process
  <2>2. ASSUME NEW n \in Node, NEW A \in FilterAdjacent(n), CountOut(e, n, A) PROVE Finals'
    BY <2>1, <2>2, FilterType, SaveFinals DEF CountOut
  <2>3. proc[e].pc # "idle" => proc[e].msg.node \in Node
    BY MsgFields DEF Safe, TypeInv, ProcOK
  <2>4. ASSUME SaveActivity(e) \/ (SaveCompletion(e) /\ proc[e].pc = "resave")
        PROVE  Finals'
    BY <2>2, <2>3, <2>4 DEF SaveActivity, SaveCompletion
  <2>5. ASSUME \E l \in {"save", "exec", "resave", "fail", "ack"} : Goto(e, l) PROVE Finals'
    BY <2>1, <2>5, GotoFinals DEF Labels
  <2>6. ASSUME \/ \E j \in Job : RefuseChild(e, j)
               \/ Enter(e) \/ SaveDuplex(e) \/ ExecActivity(e) \/ Reenter(e)
               \/ SavePending(e) \/ Fail(e)
        PROVE  Finals'
    BY <2>5, <2>6 DEF RefuseChild, Enter, SaveDuplex, ExecActivity, Reenter, SavePending, Fail
  <2>7. ASSUME NEW j \in Job, StartChild(e, j) PROVE Finals'
    BY <1>1, <2>1, <2>7 DEF StartChild
  <2>8. CASE Ack(e)
    BY <2>1, <2>8, IdleFinals DEF Ack
  <2>9. CASE SaveAnswer(e)
    BY <2>4, <2>6, <2>9 DEF SaveAnswer
  <2>10. CASE \E m \in Msg : Deliver(e, m)
    BY <2>10, DeliverFinals
  <2>11. CASE Handle(e)
    BY <2>1, <2>11, HandleFinals
  <2> QED
    BY <1>2, <2>4, <2>6, <2>7, <2>8, <2>9, <2>10, <2>11 DEF EngineStep
<1>3. ASSUME NEW c \in Client, ClientStep(c) PROVE Finals'
  BY <1>1, <1>3, HandleFinals DEF ClientStep, Publish, Process
<1>4. ASSUME UNCHANGED proc PROVE Finals'
  BY <1>4, FinalsKept DEF Safe
<1> QED
  BY <1>2, <1>3, <1>4 DEF Next, WorkerStep, WorkerAnswer, vars

LEMMA InitSafe == "pending" \notin Answers /\ Init => Safe
<1> SUFFICES ASSUME "pending" \notin Answers, Init PROVE Safe
  OBVIOUS
<1>1. TypeInv
  BY InitType
<1>2. Called = {}
  BY DEF Init, Called
<1>3. \A p \in Process : proc[p] = Idle
  BY DEF Init
<1>4. ASSUME NEW n \in Node PROVE InCustody(n)
  <2>1. /\ \A y \in Process : ~ ProcHolds(y, n)
        /\ \A y \in Job : ~ JobHolds(y, n)
        /\ \A y \in Msg : ~ MsgHolds(y, n)
        /\ ~ (work[n] > 0)
    BY <1>3 DEF Init, Idle, ProcHolds, JobHolds, MsgHolds
  <2> QED
    BY <1>2, <2>1, HoldsProc, HoldsJob, HoldsMsg, HoldsWork DEF InCustody, Places
<1>5. Custody /\ NoPending
  BY <1>4 DEF Init, Custody, NoPending
<1>6. Handlers /\ Finals
  BY <1>3, NoMsgStatus DEF Handlers, HandlerOK, Finals, Apart, Concluding, OnNode, Idle
<1>7. Books /\ Counts
  BY DEF Init, Books, Counts, SemaphoreCounts
<1> QED
  BY <1>1, <1>5, <1>6, <1>7 DEF Safe, Accounts

LEMMA HandleSafe ==
    ASSUME Safe, NEW p \in Process, Handle(p)
    PROVE  Custody' /\ NoPending' /\ Accounts'
<1>1. TypeInv /\ Custody /\ NoPending /\ Accounts /\ Books /\ Counts /\ HandlerOK(p)
  BY DEF Safe, Accounts, Handlers
<1>2. CASE SaveTrigger(p)
  BY <1>1, <1>2, SaveTriggerCustody, SaveTriggerAccounts
<1>3. CASE CallChildren(p)
  BY <1>1, <1>3, CallChildrenCustody, FinishAccounts DEF CallChildren, jobVars, history
<1>4. CASE ConcludeJob(p)
  BY <1>1, <1>4, ConcludeJobCustody, ConcludeJobAccounts
<1>5. CASE EndBranch(p)
  BY <1>1, <1>5, EndBranchCustody, FinishAccounts DEF EndBranch, jobVars, history
<1> QED
  BY <1>2, <1>3, <1>4, <1>5 DEF Handle

\* The handlers that move their entry on.
LEMMA GotoSafe ==
    ASSUME Safe, NEW e \in Engine, NEW l \in {"save", "exec", "resave", "fail"}, Goto(e, l),
           proc[e].pc \notin {"idle", "transition", "ack"},
           l \in OnNode => proc[e].pc \in OnNode,
           UNCHANGED <<jobVars, stream, work, history>>
    PROVE  Custody' /\ NoPending' /\ Accounts'
<1>1. TypeInv /\ Custody /\ NoPending /\ Accounts /\ e \in Process
  BY DEF Safe, Process
<1>2. l \in Labels /\ l \notin {"idle", "transition", "ack"}
  BY DEF Labels
<1>3. UNCHANGED <<claimed, saved, status, parent, notified, stream, work, spawned, completed>>
  BY DEF jobVars, history
<1>4. Custody' /\ NoPending'
  BY <1>1, <1>2, <1>3, GotoUnmoved
<1>5. Accounts'
  BY <1>1, <1>2, <1>3, GotoAccounts
<1> QED
  BY <1>4, <1>5

LEMMA CountOutSafe ==
    ASSUME Safe, NEW e \in Engine, proc[e].pc \in {"save", "resave"},
           NEW n, n = proc[e].msg.node,
           NEW A \in FilterAdjacent(n), CountOut(e, n, A), UNCHANGED <<stream, work>>
    PROVE  Custody' /\ NoPending' /\ Accounts'
<1>1. TypeInv /\ Custody /\ NoPending /\ Accounts /\ Books
  BY DEF Safe, Accounts
<1>2. n \in Node
  BY <1>1, MsgFields DEF TypeInv, ProcOK
<1>3. /\ Custody' /\ NoPending'
      /\ n \in Called /\ A \cap spawned = {} /\ A \cap completed = {}
  BY <1>1, <1>2, CountOutCustody
<1>4. Accounts'
  BY <1>1, <1>2, <1>3, CountOutAccounts
<1> QED
  BY <1>3, <1>4

LEMMA EngineSafe ==
    ASSUME Safe, NEW e \in Engine, EngineStep(e)
    PROVE  Custody' /\ NoPending' /\ Accounts'
<1>1. TypeInv /\ Custody /\ NoPending /\ Accounts /\ e \in Process
  BY DEF Safe, Process
<1>2. PICK n : n = proc[e].msg.node
  OBVIOUS
<1>3. /\ proc[e].msg.status # "pending"
      /\ proc[e].pc = "reenter" => proc[e].js > 0
  BY <1>1 DEF Safe, Finals
<1>4. ASSUME NEW m \in Msg, Deliver(e, m) PROVE Custody' /\ NoPending' /\ Accounts'
  BY <1>1, <1>4, DeliverCustody, DeliverAccounts
<1>5. ASSUME NEW j \in Job, StartChild(e, j) PROVE Custody' /\ NoPending' /\ Accounts'
  BY <1>1, <1>5, ClaimJobCustody, ClaimJobAccounts DEF StartChild
<1>6. ASSUME NEW j \in Job, RefuseChild(e, j) PROVE Custody' /\ NoPending' /\ Accounts'
  BY <1>6, GotoSafe DEF RefuseChild, OnNode
<1>7. CASE Enter(e)
  <2>1. \E l \in {"save", "fail"} : Goto(e, l)
    BY <1>7 DEF Enter
  <2> QED
    BY <1>7, <2>1, GotoSafe DEF Enter, OnNode
<1>8. CASE SaveActivity(e)
  BY <1>2, <1>8, CountOutSafe DEF SaveActivity
<1>9. CASE SaveDuplex(e)
  BY <1>9, GotoSafe DEF SaveDuplex, OnNode
<1>10. CASE ExecActivity(e)
  <2>1. Goto(e, "ack") /\ "ack" \in Labels /\ "ack" \notin OnNode
    BY <1>10 DEF ExecActivity, Labels, OnNode
  <2>2. UNCHANGED <<claimed, saved, status, spawned, completed, notified>>
    BY <1>10 DEF ExecActivity, jobVars, history
  <2> QED
    BY <1>1, <1>10, <2>1, <2>2, ExecActivityCustody, GotoAccounts
<1>11. CASE Reenter(e)
  <2>1. proc[e].pc = "reenter" /\ proc[e].js > 0
    BY <1>3, <1>11 DEF Reenter
  <2>2. ~ (proc[e].js <= 0)
    BY <1>1, <2>1 DEF TypeInv, TypeOK, Handler
  <2>3. \E l \in {"resave", "fail"} : Goto(e, l)
    BY <1>11, <2>2 DEF Reenter
  <2> QED
    BY <1>11, <2>1, <2>3, GotoSafe DEF Reenter, OnNode
<1>12. CASE SaveAnswer(e)
  <2>1. proc[e].pc = "resave" /\ ~ SavePending(e)
    BY <1>3, <1>12 DEF SaveAnswer, SavePending
  <2>2. SaveCompletion(e)
    BY <1>12, <2>1 DEF SaveAnswer
  <2> QED
    BY <1>2, <2>1, <2>2, CountOutSafe DEF SaveCompletion
<1>13. CASE Fail(e)
  <2>1. Goto(e, "ack") /\ "ack" \in Labels /\ "ack" \notin OnNode
    BY <1>13 DEF Fail, Labels, OnNode
  <2>2. UNCHANGED <<claimed, saved, status, spawned, completed, notified>>
    BY <1>13 DEF Fail, jobVars, history
  <2> QED
    BY <1>1, <1>13, <2>1, <2>2, FailCustody, GotoAccounts
<1>14. CASE Ack(e)
  BY <1>1, <1>14, AckCustody, IdleAccounts DEF Ack, jobVars, history
<1>15. CASE Handle(e)
  BY <1>1, <1>15, HandleSafe
<1> QED
  BY <1>4, <1>5, <1>6, <1>7, <1>8, <1>9, <1>10, <1>11, <1>12, <1>13, <1>14, <1>15
  DEF EngineStep

LEMMA NextSafe == Safe /\ [Next]_vars => Safe'
<1> SUFFICES ASSUME Safe, [Next]_vars PROVE Safe'
  OBVIOUS
<1>1. TypeInv /\ Custody /\ NoPending /\ Accounts
  BY DEF Safe
<1>2. TypeInv' /\ Finals'
  BY <1>1, NextType, NextFinals
<1>3. ASSUME NEW e \in Engine, EngineStep(e) PROVE Custody' /\ NoPending' /\ Accounts'
  BY <1>3, EngineSafe
<1>4. ASSUME NEW c \in Client, ClientStep(c) PROVE Custody' /\ NoPending' /\ Accounts'
  <2>1. c \in Process /\ proc[c].msg = NoMsg
    BY <1>1 DEF Process, TypeInv, ProcOK
  <2>2. ASSUME NEW j \in Job, Publish(c, j) PROVE Custody' /\ NoPending' /\ Accounts'
    BY <1>1, <2>1, <2>2, ClaimJobCustody, ClaimJobAccounts DEF Publish
  <2> QED
    BY <1>4, <2>1, <2>2, HandleSafe DEF ClientStep
<1>5. ASSUME NEW n \in Node, WorkerStep(n) PROVE Custody' /\ NoPending' /\ Accounts'
  <2>1. PICK s \in Status : WorkerAnswer(n, s)
    BY <1>5 DEF WorkerStep
  <2>2. Custody' /\ NoPending'
    BY <1>1, <2>1, WorkerAnswerCustody
  <2>3. UNCHANGED <<claimed, saved, status, spawned, completed, notified, proc>>
    BY <2>1 DEF WorkerAnswer, jobVars, history
  <2>4. Accounts'
    BY <1>1, <2>3 DEF Accounts, Books, Handlers, HandlerOK, Apart, Concluding,
                      Counts, SemaphoreCounts, Outstanding
  <2> QED
    BY <2>2, <2>4
<1>6. ASSUME UNCHANGED vars PROVE Custody' /\ NoPending' /\ Accounts'
  <2>1. UNCHANGED <<claimed, saved, status, parent, stream, work, proc,
                    spawned, completed, notified>>
    BY <1>6 DEF vars, jobVars, history
  <2>2. Custody' /\ NoPending'
    BY <1>1, <2>1, Unmoved DEF ProcHolds
  <2>3. Accounts'
    BY <1>1, <2>1 DEF Accounts, Books, Handlers, HandlerOK, Apart, Concluding,
                      Counts, SemaphoreCounts, Outstanding
  <2> QED
    BY <2>2, <2>3
<1>7. Custody' /\ NoPending' /\ Accounts'
  BY <1>3, <1>4, <1>5, <1>6 DEF Next
<1> QED
  BY <1>2, <1>7 DEF Safe

LEMMA SafeInvariant == ASSUME "pending" \notin Answers PROVE Spec => []Safe
<1>1. Init => Safe
  BY InitSafe
<1> QED
  BY <1>1, NextSafe, PTL DEF Spec

-----------------------------------------------------------------------------
(* The semaphore, at every moment of every interleaving, is the number of  *)
(* activities still to complete (setStatus in the saves of trigger.ts,     *)
(* activity.ts, worker.ts and await.ts), as long as no worker answers      *)
(* "pending" and no entry is delivered twice.                              *)
THEOREM SemaphoreCorrect ==
    ASSUME "pending" \notin Answers
    PROVE  Spec => []SemaphoreCounts
<1>1. Safe => SemaphoreCounts
  BY DEF Safe, Accounts, Counts
<1> QED
  BY <1>1, SafeInvariant, PTL

(* An activity is in one place at a time, and only between its call and    *)
(* its completion, whatever the checks of collator/index.ts decide.        *)
THEOREM CustodyIsExclusive ==
    ASSUME "pending" \notin Answers
    PROVE  Spec => []CustodyExclusive
<1>1. Safe => CustodyExclusive
  <2> SUFFICES ASSUME Safe PROVE CustodyExclusive
    OBVIOUS
  <2>1. ASSUME NEW n \in Node, NEW x \in Holders(n) PROVE n \in Called /\ Sole(x, n)
    BY <2>1 DEF Safe, Custody, InCustody, Holders, Sole
  <2>2. \A n \in Node : \A x, y \in Holders(n) : x = y
    BY <2>1 DEF Sole, Holders
  <2>3. \A n \in Node : Holders(n) # {} => n \in spawned \ completed
    BY <2>1 DEF Called
  <2> QED
    BY <2>2, <2>3 DEF Safe, Custody, CustodyExclusive
<1> QED
  BY <1>1, SafeInvariant, PTL

(* No activity is lost: what was called and has not completed is always in *)
(* some entry's, handler's, worker's or child job's care.                  *)
THEOREM CustodyIsKept ==
    ASSUME "pending" \notin Answers
    PROVE  Spec => []CustodyKept
<1>1. Safe => CustodyKept
  <2> SUFFICES ASSUME Safe, NEW n \in spawned \ completed PROVE Holders(n) # {}
    BY DEF CustodyKept
  <2>1. n \in Node /\ n \in Called
    BY DEF Safe, TypeInv, TypeOK, Called
  <2>2. \E x \in Places : Sole(x, n)
    BY <2>1 DEF Safe, Custody, InCustody
  <2> QED
    BY <2>2 DEF Holders, Sole
<1> QED
  BY <1>1, SafeInvariant, PTL

(* runJobCompletionTasks runs at most once for a job, and only when none   *)
(* of its activities is outstanding: two engines that end two branches at  *)
(* the same time never both see the semaphore at 0.                        *)
THEOREM ConcludedAtMostOnce ==
    ASSUME "pending" \notin Answers
    PROVE  Spec => []ConcludedOnce
<1>1. Safe => ConcludedOnce
  BY DEF Safe, Accounts, Counts, ConcludedOnce
<1> QED
  BY <1>1, SafeInvariant, PTL

-----------------------------------------------------------------------------
(* The handlers keep the promise of JobPromise.                            *)

Concluded == {j \in Job : notified[j] > 0}

LEMMA InitPromise == Init => Promise!Init
  BY DEF Init, Promise!Init

LEMMA QuietPromise ==
    ASSUME UNCHANGED <<saved, parent, spawned, completed, notified>>
    PROVE  UNCHANGED Promise!vars
  BY DEF Promise!vars

LEMMA SaveTriggerPromise ==
    ASSUME Safe, NEW p \in Process, SaveTrigger(p)
    PROVE  Promise!Next
<1>0. PICK j, n : j = proc[p].job /\ n = proc[p].msg.node
  OBVIOUS
<1>1. TypeInv /\ Custody /\ HandlerOK(p)
  BY DEF Safe, Accounts, Handlers
<1>2. PICK A \in FilterAdjacent(j) : spawned' = spawned \cup A
  BY <1>0 DEF SaveTrigger
<1>3. j \in Job /\ j \notin saved
  BY <1>0, <1>1 DEF SaveTrigger, HandlerOK, TypeInv, ProcOK
<1>4. A \subseteq Node /\ \A k \in A : Owner[k] = j
  BY <1>3, FilterType, TreeAssumption
<1>5. n \in Node \cup {NoNode} /\ (n # NoNode => n \in spawned \ completed)
  <2>1. n \in Node \cup {NoNode}
    BY <1>0, <1>1, MsgFields DEF TypeInv, TypeOK, Handler, NoMsg
  <2>2. ASSUME n \in Node PROVE n \in Called
    BY <1>0, <1>1, <2>2, OnlyProc DEF SaveTrigger, ProcHolds, Custody
  <2> QED
    BY <2>1, <2>2 DEF Called
<1>6. /\ saved' = saved \cup {j} /\ parent' = [parent EXCEPT ![j] = n]
      /\ UNCHANGED <<completed, notified>>
  BY <1>0 DEF SaveTrigger
<1>7. Promise!Publish(j, n, A)
  BY <1>2, <1>3, <1>4, <1>5, <1>6 DEF Promise!Publish
<1> QED
  BY <1>3, <1>4, <1>5, <1>7 DEF Promise!Next

LEMMA CountOutPromise ==
    ASSUME Safe, NEW e \in Engine, proc[e].pc \in {"save", "resave"},
           NEW n, n = proc[e].msg.node,
           NEW A \in FilterAdjacent(n), CountOut(e, n, A), UNCHANGED <<stream, work>>
    PROVE  Promise!Next
<1>1. TypeInv /\ Custody /\ NoPending /\ Books
  BY DEF Safe, Accounts
<1>2. n \in Node
  BY <1>1, MsgFields DEF TypeInv, ProcOK
<1>3. n \in Called /\ A \cap spawned = {}
  BY <1>1, <1>2, CountOutCustody
<1>4. A \subseteq Node /\ \A k \in A : Owner[k] = Owner[n]
  BY <1>2, FilterType, TreeAssumption
<1>5. Promise!Complete(n, A)
  BY <1>3, <1>4 DEF Promise!Complete, CountOut, Called
<1> QED
  BY <1>2, <1>4, <1>5 DEF Promise!Next

LEMMA ConcludeJobPromise ==
    ASSUME Safe, NEW p \in Process, ConcludeJob(p)
    PROVE  Promise!Next
<1>0. PICK j : j = proc[p].job
  OBVIOUS
<1>1. TypeInv /\ Custody /\ HandlerOK(p)
  BY DEF Safe, Accounts, Handlers
<1>2. j \in Job /\ j \in saved /\ Outstanding(j) = {} /\ notified[j] = 0
  BY <1>0, <1>1 DEF ConcludeJob, Concluding, HandlerOK, TypeInv, ProcOK
<1>3. /\ notified'[j] = 1 /\ \A i \in Job : i # j => notified'[i] = notified[i]
      /\ UNCHANGED <<saved, parent, spawned, completed>>
  BY <1>0, <1>1, <1>2 DEF ConcludeJob, jobVars, TypeInv, TypeOK
<1>4. parent[j] # NoNode => parent[j] \notin completed
  <2>1. ASSUME parent[j] # NoNode PROVE parent[j] \in Called
    <3>1. parent[j] \in Node
      BY <1>1, <1>2, <2>1 DEF TypeInv, TypeOK
    <3>2. JobHolds(j, parent[j])
      BY <1>2 DEF JobHolds
    <3> QED
      BY <1>1, <1>2, <3>1, <3>2, OnlyJob DEF Custody
  <2> QED
    BY <2>1 DEF Called
<1>5. Concluded' = Concluded \cup {j} /\ j \notin Concluded
  BY <1>2, <1>3 DEF Concluded
<1>6. Promise!Conclude(j)
  BY <1>2, <1>3, <1>4, <1>5 DEF Promise!Conclude, Promise!Outstanding, Outstanding, Concluded
<1> QED
  BY <1>2, <1>6 DEF Promise!Next

LEMMA HandlePromise ==
    ASSUME Safe, NEW p \in Process, Handle(p)
    PROVE  [Promise!Next]_(Promise!vars)
<1>1. CASE SaveTrigger(p)
  BY <1>1, SaveTriggerPromise
<1>2. CASE ConcludeJob(p)
  BY <1>2, ConcludeJobPromise
<1>3. CASE CallChildren(p) \/ EndBranch(p)
  BY <1>3, QuietPromise DEF CallChildren, EndBranch, jobVars, history
<1> QED
  BY <1>1, <1>2, <1>3 DEF Handle

LEMMA EnginePromise ==
    ASSUME Safe, NEW e \in Engine, EngineStep(e)
    PROVE  [Promise!Next]_(Promise!vars)
<1>1. e \in Process /\ HandlerOK(e) /\ NoPending
  BY DEF Process, Safe, Accounts, Handlers
<1>2. PICK n : n = proc[e].msg.node
  OBVIOUS
<1>3. CASE SaveActivity(e)
  BY <1>2, <1>3, CountOutPromise DEF SaveActivity
<1>4. CASE SaveAnswer(e)
  <2>1. proc[e].pc = "resave" /\ SaveCompletion(e)
    BY <1>1, <1>4 DEF SaveAnswer, SavePending, Safe, Finals
  <2> QED
    BY <1>2, <2>1, CountOutPromise DEF SaveCompletion
<1>5. ASSUME \/ \E m \in Msg : Deliver(e, m)
             \/ \E j \in Job : StartChild(e, j) \/ RefuseChild(e, j)
             \/ Enter(e) \/ SaveDuplex(e) \/ ExecActivity(e) \/ Reenter(e)
             \/ Fail(e) \/ Ack(e)
      PROVE  UNCHANGED <<saved, parent, spawned, completed, notified>>
  BY <1>5 DEF Deliver, StartChild, RefuseChild, ClaimJob, Enter, SaveDuplex,
              ExecActivity, Reenter, Fail, Ack, jobVars, history
<1> QED
  BY <1>1, <1>3, <1>4, <1>5, QuietPromise, HandlePromise DEF EngineStep

LEMMA NextPromise == Safe /\ [Next]_vars => [Promise!Next]_(Promise!vars)
<1> SUFFICES ASSUME Safe, [Next]_vars PROVE [Promise!Next]_(Promise!vars)
  OBVIOUS
<1>1. ASSUME NEW c \in Client, ClientStep(c) PROVE [Promise!Next]_(Promise!vars)
  <2>1. c \in Process
    BY DEF Process
  <2>2. ASSUME NEW j \in Job, Publish(c, j) PROVE UNCHANGED Promise!vars
    BY <2>2, QuietPromise DEF Publish, ClaimJob, history
  <2> QED
    BY <1>1, <2>1, <2>2, HandlePromise DEF ClientStep
<1>2. ASSUME NEW n \in Node, WorkerStep(n) PROVE UNCHANGED Promise!vars
  BY <1>2, QuietPromise DEF WorkerStep, WorkerAnswer, jobVars, history
<1>3. CASE UNCHANGED vars
  BY <1>3, QuietPromise DEF vars, jobVars, history
<1> QED
  BY <1>1, <1>2, <1>3, EnginePromise DEF Next

(* What the quorum of engines does to jobs is what JobPromise allows: each *)
(* save completes one activity and calls its children in one step, and a   *)
(* job is announced once, when nothing of it is outstanding and before the *)
(* await that started it completes.                                        *)
THEOREM PromiseKept ==
    ASSUME "pending" \notin Answers
    PROVE  Spec => ImplementsPromise
<1>1. Init => Promise!Init
  BY InitPromise
<1> QED
  BY <1>1, NextPromise, SafeInvariant, PTL DEF Spec, ImplementsPromise, Promise!Spec

-----------------------------------------------------------------------------
(* One engine that may stop anywhere.                                      *)
(*                                                                         *)
(* Nothing is exclusive any more: an entry may be journaled and handled any*)
(* number of times.  What is left is the ledger: an activity's is fresh    *)
(* until the activity is called, its third digit says whether it completed,*)
(* and no entry names an activity that was not called.                     *)

LedgerOK(n) ==
    /\ n \notin spawned => ledger[n] \in {Absent, Seed}
    /\ n \in spawned => /\ ledger[n].exit \in 8..9 /\ ledger[n].leg2 \in 8..9
                        /\ n \in completed <=> ledger[n].leg2 = 8

Ledgers == \A n \in Node : LedgerOK(n)

\* What a handler works on, and what it is about to call, was called for.
HandlerKnown(q) ==
    /\ q \in Engine /\ proc[q].pc # "idle" => proc[q].msg.node \in spawned
    /\ proc[q].pc = "transition" => proc[q].adj \subseteq spawned

Entries ==
    /\ orphans \in [Msg -> Nat]
    /\ \A m \in Msg : stream[m] > 0 \/ orphans[m] > 0 => m.node \in spawned

Known ==
    /\ Entries
    /\ \A n \in Node : work[n] > 0 => n \in spawned
    /\ \A j \in Job : parent[j] \in spawned \cup {NoNode}
    /\ \A q \in Process : HandlerKnown(q)

\* What a check found holds until the save: there is one engine, and clients
\* write no ledger but fresh ones.
Granted(e) ==
    /\ proc[e].pc = "save" => ledger[proc[e].msg.node] = Entered
    /\ proc[e].pc = "resave" => ledger[proc[e].msg.node].leg2 = 9

FaultSafe ==
    /\ TypeInv /\ Accounts /\ Ledgers /\ Known
    /\ \A e \in Engine : Granted(e)

OneEngine == \A e, f \in Engine : e = f

\* Presetting activities that were not called undoes nothing.
LEMMA PresetLedgers ==
    ASSUME TypeInv, Ledgers, NEW n \in spawned, NEW v \in Ledger,
           NEW A \in SUBSET Node, A \cap spawned = {},
           ledger' = Preset([ledger EXCEPT ![n] = v], A),
           spawned' = spawned \/ spawned' = spawned \cup A,
           completed \subseteq spawned,
           completed' = completed \/ completed' = completed \cup {n},
           v.exit \in 8..9, v.leg2 \in 8..9, n \in completed' <=> v.leg2 = 8,
           v.entry <= ledger[n].entry
    PROVE  /\ Ledgers' /\ KeepsLedgers
           /\ \A k \in spawned : k # n => ledger'[k] = ledger[k]
           /\ ledger'[n] = v
<1>1. n \in Node /\ n \notin A
  BY DEF TypeInv, TypeOK
<1>2. /\ \A k \in A : ledger'[k] = Seed
      /\ \A k \in Node : k \notin A /\ k # n => ledger'[k] = ledger[k]
      /\ ledger'[n] = v
  BY <1>1 DEF Preset, TypeInv, TypeOK
<1>3. /\ Seed.exit = 9 /\ Seed.leg2 = 9 /\ Seed.entry = 9
      /\ \A k \in Node : ledger[k].entry \in Int
  BY DEF Seed, Digits, TypeInv, TypeOK, Ledger
<1>4. ASSUME NEW k \in A PROVE LedgerOK(k)' /\ (ledger[k] # Absent => ledger'[k].entry <= ledger[k].entry)
  <2>1. k \notin spawned /\ k \notin completed' /\ ledger'[k] = Seed
    BY <1>1, <1>2
  <2>2. ledger[k] \in {Absent, Seed}
    BY <2>1 DEF Ledgers, LedgerOK
  <2>3. LedgerOK(k)'
    BY <1>3, <2>1 DEF LedgerOK
  <2> QED
    BY <1>3, <2>1, <2>2, <2>3
<1>5. ASSUME NEW k \in Node, k \notin A, k # n
      PROVE  LedgerOK(k)' /\ ledger'[k].entry <= ledger[k].entry
  <2>1. (k \in spawned' <=> k \in spawned) /\ (k \in completed' <=> k \in completed)
    BY <1>5
  <2>2. ledger'[k] = ledger[k] /\ LedgerOK(k)
    BY <1>2, <1>5 DEF Ledgers
  <2> QED
    BY <1>3, <2>1, <2>2 DEF LedgerOK
<1>6. LedgerOK(n)'
  BY <1>1, <1>2 DEF LedgerOK
<1>7. Ledgers'
  BY <1>4, <1>5, <1>6 DEF Ledgers
<1>8. KeepsLedgers
  BY <1>2, <1>4, <1>5 DEF KeepsLedgers
<1> QED
  BY <1>1, <1>2, <1>7, <1>8 DEF TypeInv, TypeOK

\* The trigger's save calls for the activities it presets.
LEMMA SeedLedgers ==
    ASSUME TypeInv, Ledgers, NEW A \in SUBSET Node, A \cap spawned = {},
           completed \subseteq spawned,
           ledger' = Preset(ledger, A), spawned' = spawned \cup A, completed' = completed
    PROVE  /\ Ledgers' /\ KeepsLedgers
           /\ \A k \in spawned : ledger'[k] = ledger[k]
<1>1. /\ \A k \in A : ledger'[k] = Seed
      /\ \A k \in Node : k \notin A => ledger'[k] = ledger[k]
  BY DEF Preset, TypeInv, TypeOK
<1>2. /\ Seed.exit = 9 /\ Seed.leg2 = 9 /\ Seed.entry = 9
      /\ \A k \in Node : ledger[k].entry \in Int
  BY DEF Seed, Digits, TypeInv, TypeOK, Ledger
<1>3. ASSUME NEW k \in A PROVE LedgerOK(k)' /\ (ledger[k] # Absent => ledger'[k].entry <= ledger[k].entry)
  <2>1. k \notin spawned /\ k \notin completed' /\ ledger'[k] = Seed
    BY <1>1
  <2>2. ledger[k] \in {Absent, Seed}
    BY <2>1 DEF Ledgers, LedgerOK
  <2>3. LedgerOK(k)'
    BY <1>2, <2>1 DEF LedgerOK
  <2> QED
    BY <1>2, <2>1, <2>2, <2>3
<1>4. ASSUME NEW k \in Node, k \notin A
      PROVE  LedgerOK(k)' /\ ledger'[k].entry <= ledger[k].entry
  <2>1. (k \in spawned' <=> k \in spawned) /\ (k \in completed' <=> k \in completed)
    BY <1>4
  <2>2. ledger'[k] = ledger[k] /\ LedgerOK(k)
    BY <1>1, <1>4 DEF Ledgers
  <2> QED
    BY <1>2, <2>1, <2>2 DEF LedgerOK
<1>5. Ledgers' /\ KeepsLedgers
  BY <1>3, <1>4 DEF Ledgers, KeepsLedgers
<1> QED
  BY <1>1, <1>5 DEF TypeInv, TypeOK

\* One HINCRBYFLOAT on the ledger of an activity that was called.
LEMMA OneLedger ==
    ASSUME TypeInv, Ledgers, NEW n \in spawned, NEW v \in Ledger,
           ledger' = [ledger EXCEPT ![n] = v],
           UNCHANGED <<spawned, completed>>,
           v.exit \in 8..9, v.leg2 = ledger[n].leg2, v.entry <= ledger[n].entry
    PROVE  Ledgers' /\ KeepsLedgers /\ ledger'[n] = v
<1>1. n \in Node /\ LedgerOK(n)
  BY DEF TypeInv, TypeOK, Ledgers
<1>2. /\ \A k \in Node : k # n => ledger'[k] = ledger[k]
      /\ ledger'[n] = v /\ \A k \in Node : ledger[k].entry \in Int
  BY <1>1 DEF TypeInv, TypeOK, Ledger
<1>3. LedgerOK(n)'
  BY <1>1, <1>2 DEF LedgerOK
<1>4. ASSUME NEW k \in Node, k # n PROVE LedgerOK(k)'
  BY <1>2, <1>4 DEF Ledgers, LedgerOK
<1>5. Ledgers'
  BY <1>3, <1>4 DEF Ledgers
<1> QED
  BY <1>2, <1>5 DEF KeepsLedgers

LEMMA SameLedgers ==
    ASSUME TypeInv, Ledgers, UNCHANGED <<ledger, spawned, completed>>
    PROVE  Ledgers' /\ KeepsLedgers
<1>1. \A k \in Node : ledger[k].entry \in Int
  BY DEF TypeInv, TypeOK, Ledger
<1> QED
  BY <1>1 DEF Ledgers, LedgerOK, KeepsLedgers

-----------------------------------------------------------------------------
(* Every step keeps this.                                                  *)

LEMMA FaultStep ==
    ASSUME FaultSafe, OneEngine, TypeInv', Accounts', Ledgers', Entries',
           NEW p \in Process, \A q \in Process : q # p => proc'[q] = proc[q],
           spawned \subseteq spawned',
           \A n \in Node : work'[n] > 0 => n \in spawned,
           \A j \in Job : parent'[j] \in spawned \cup {NoNode},
           HandlerKnown(p)',
           p \in Engine => Granted(p)',
           p \notin Engine => \A k \in spawned : ledger'[k] = ledger[k]
    PROVE  FaultSafe'
<1>1. ASSUME NEW q \in Process, q # p PROVE HandlerKnown(q)'
  BY <1>1 DEF FaultSafe, Known, HandlerKnown
<1>2. Known'
  BY <1>1 DEF Known
<1>3. ASSUME NEW e \in Engine PROVE Granted(e)'
  <2>1. CASE e = p
    BY <2>1
  <2>2. CASE e # p
    <3>1. p \notin Engine /\ e \in Process
      BY <2>2 DEF OneEngine, Process
    <3>2. proc'[e] = proc[e] /\ HandlerKnown(e) /\ Granted(e)
      BY <2>2, <3>1 DEF FaultSafe, Known
    <3>3. proc[e].pc # "idle" => ledger'[proc[e].msg.node] = ledger[proc[e].msg.node]
      BY <3>1, <3>2 DEF HandlerKnown
    <3> QED
      BY <3>2, <3>3 DEF Granted
  <2> QED
    BY <2>1, <2>2
<1> QED
  BY <1>2, <1>3 DEF FaultSafe

\* Adding entries for activities that were called.
LEMMA AddEntries ==
    ASSUME TypeInv, Entries, NEW M \in SUBSET Msg, \A m \in M : m.node \in spawned,
           stream' = Add(stream, M), orphans' = orphans, spawned' = spawned
    PROVE  Entries'
<1>1. \A m \in Msg : stream'[m] > 0 => stream[m] > 0 \/ m \in M
  BY DEF Add, TypeInv, TypeOK
<1> QED
  BY <1>1 DEF Entries

LEMMA SameEntries ==
    ASSUME Entries, UNCHANGED <<stream, orphans>>, spawned \subseteq spawned'
    PROVE  Entries'
  BY DEF Entries

LEMMA ClaimFault ==
    ASSUME FaultSafe, OneEngine, NEW p \in Process, NEW j \in Job, ClaimJob(p, j),
           orphans' = orphans, TypeInv', p \in Engine => proc[p].pc # "idle"
    PROVE  FaultSafe' /\ KeepsLedgers
<1>1. TypeInv /\ Accounts /\ Ledgers /\ Known
  BY DEF FaultSafe
<1>2. /\ proc'[p].pc = "seed" /\ proc'[p].msg = proc[p].msg
      /\ \A q \in Process : q # p => proc'[q] = proc[q]
  BY <1>1, ClaimStep DEF ClaimJob, TypeInv, TypeOK
<1>3. UNCHANGED <<parent, ledger, stream, work, spawned, completed, orphans>>
  BY DEF ClaimJob, history
<1>4. Accounts'
  BY <1>1, ClaimJobAccounts
<1>5. Ledgers' /\ KeepsLedgers
  BY <1>1, <1>3, SameLedgers
<1>6. Entries'
  BY <1>1, <1>3, SameEntries DEF Known
<1>7. HandlerKnown(p)'
  BY <1>1, <1>2, <1>3 DEF Known, HandlerKnown
<1>8. Granted(p)'
  BY <1>2 DEF Granted
<1>9. /\ \A n \in Node : work'[n] > 0 => n \in spawned
      /\ \A i \in Job : parent'[i] \in spawned \cup {NoNode}
      /\ spawned \subseteq spawned'
  BY <1>1, <1>3 DEF Known
<1> QED
  BY <1>2, <1>3, <1>4, <1>5, <1>6, <1>7, <1>8, <1>9, FaultStep

LEMMA SaveTriggerFault ==
    ASSUME FaultSafe, OneEngine, NEW p \in Process, SaveTrigger(p),
           orphans' = orphans, TypeInv'
    PROVE  FaultSafe' /\ KeepsLedgers
<1>1. TypeInv /\ Accounts /\ Ledgers /\ Known
  BY DEF FaultSafe
<1>2. PICK j : j = proc[p].job
  OBVIOUS
<1>3. PICK A \in FilterAdjacent(j) :
        /\ ledger' = Preset(ledger, A)
        /\ spawned' = spawned \cup A
        /\ proc' = [proc EXCEPT ![p].pc = "transition",
                                ![p].adj = A, ![p].js = Cardinality(A)]
  BY <1>2 DEF SaveTrigger
<1>4. j \in Job /\ j \notin saved \cup completed
  <2>1. j \in Job /\ j \notin saved
    BY <1>1, <1>2 DEF SaveTrigger, Accounts, Handlers, HandlerOK, TypeInv, ProcOK
  <2> QED
    BY <1>1, <2>1, SortsAssumption DEF TypeInv, TypeOK
<1>5. A \subseteq Node /\ A \cap spawned = {} /\ Cardinality(A) \in Int
  BY <1>1, <1>4, UncalledChildren, FilterType DEF Accounts
<1>6. /\ proc'[p].pc = "transition" /\ proc'[p].msg = proc[p].msg /\ proc'[p].adj = A
      /\ \A q \in Process : q # p => proc'[q] = proc[q]
  BY <1>1, <1>3, <1>5, TransitionStep, ZenonT(60) DEF TypeInv, TypeOK
<1>7. Accounts'
  BY <1>1, SaveTriggerAccounts
<1>8. UNCHANGED <<stream, work, completed, orphans>>
  BY DEF SaveTrigger
<1>9. Ledgers' /\ KeepsLedgers /\ \A k \in spawned : ledger'[k] = ledger[k]
  BY <1>1, <1>3, <1>5, <1>8, SeedLedgers DEF Accounts, Books
<1>10. spawned \subseteq spawned'
  BY <1>3
<1>11. Entries'
  BY <1>1, <1>8, <1>10, SameEntries DEF Known
<1>12. proc[p].pc = "seed"
  BY DEF SaveTrigger
<1>13. HandlerKnown(p)'
  BY <1>1, <1>3, <1>6, <1>10, <1>12 DEF Known, HandlerKnown
<1>14. proc[p].msg.node \in spawned \cup {NoNode}
  <2>1. CASE p \in Engine
    BY <1>1, <1>12, <2>1 DEF Known, HandlerKnown
  <2>2. CASE p \notin Engine
    BY <1>1, <2>2 DEF TypeInv, ProcOK, Process, NoMsg
  <2> QED
    BY <2>1, <2>2
<1>15. \A i \in Job : parent'[i] \in spawned \cup {NoNode}
  BY <1>1, <1>14 DEF SaveTrigger, Known, TypeInv, TypeOK
<1>16. \A n \in Node : work'[n] > 0 => n \in spawned
  BY <1>1, <1>8 DEF Known
<1>17. Granted(p)'
  BY <1>6 DEF Granted
<1> QED
  BY <1>6, <1>7, <1>9, <1>10, <1>11, <1>13, <1>15, <1>16, <1>17, FaultStep

\* The end of a handler: the entries it adds are for activities it called, or
\* for the one that awaits its job.
LEMMA HandleEndFault ==
    ASSUME FaultSafe, OneEngine, NEW p \in Process,
           CallChildren(p) \/ ConcludeJob(p) \/ EndBranch(p),
           orphans' = orphans, TypeInv'
    PROVE  FaultSafe' /\ KeepsLedgers
<1>1. TypeInv /\ Accounts /\ Ledgers /\ Known
  BY DEF FaultSafe
<1>2. /\ Finish(p) /\ proc[p].pc = "transition"
      /\ UNCHANGED <<claimed, saved, status, parent, ledger, work, spawned, completed>>
  BY DEF CallChildren, ConcludeJob, EndBranch, jobVars, history
<1>3. /\ proc'[p].pc \in {"ack", "idle"} /\ proc'[p].msg \in {proc[p].msg, Idle.msg}
      /\ (p \in Engine => proc'[p].msg = proc[p].msg)
      /\ \A q \in Process : q # p => proc'[q] = proc[q]
  BY <1>1, <1>2 DEF Finish, Goto, Idle, Handler, TypeInv, TypeOK
<1>4. Accounts'
  <2>1. CASE ConcludeJob(p)
    BY <1>1, <2>1, ConcludeJobAccounts
  <2>2. CASE CallChildren(p) \/ EndBranch(p)
    <3>1. UNCHANGED <<claimed, saved, status, spawned, completed, notified>>
      BY <2>2 DEF CallChildren, EndBranch, jobVars, history
    <3> QED
      BY <1>1, <1>2, <3>1, FinishAccounts
  <2> QED
    BY <2>1, <2>2
<1>5. Ledgers' /\ KeepsLedgers
  BY <1>1, <1>2, SameLedgers
<1>6. Entries'
  <2>1. CASE CallChildren(p)
    <3>1. PICK M : M = {Transition(n) : n \in proc[p].adj}
      OBVIOUS
    <3>2. proc[p].adj \subseteq spawned /\ spawned \subseteq Node
      BY <1>1, <1>2 DEF Known, HandlerKnown, TypeInv, TypeOK
    <3>3. M \in SUBSET Msg /\ \A m \in M : m.node \in spawned
      BY <3>1, <3>2, MsgTypes DEF Transition
    <3>4. stream' = Add(stream, M)
      BY <2>1, <3>1 DEF CallChildren
    <3> QED
      BY <1>1, <1>2, <3>3, <3>4, AddEntries DEF Known
  <2>2. CASE ConcludeJob(p)
    <3>0. PICK j : j = proc[p].job
      OBVIOUS
    <3>1. PICK M : M = IF parent[j] = NoNode THEN {} ELSE {Result(parent[j])}
      OBVIOUS
    <3>2. j \in Job /\ parent[j] \in spawned \cup {NoNode} /\ spawned \subseteq Node
      BY <1>1, <1>2, <3>0 DEF Known, TypeInv, TypeOK, ProcOK
    <3>3. M \in SUBSET Msg /\ \A m \in M : m.node \in spawned
      BY <3>1, <3>2, MsgTypes DEF Result
    <3>4. stream' = Add(stream, M)
      BY <2>2, <3>0, <3>1 DEF ConcludeJob
    <3> QED
      BY <1>1, <1>2, <3>3, <3>4, AddEntries DEF Known
  <2>3. CASE EndBranch(p)
    BY <1>1, <1>2, <2>3, SameEntries DEF EndBranch, Known
  <2> QED
    BY <2>1, <2>2, <2>3
<1>7. HandlerKnown(p)'
  BY <1>1, <1>2, <1>3 DEF Known, HandlerKnown
<1>8. Granted(p)'
  BY <1>3 DEF Granted
<1>9. /\ \A n \in Node : work'[n] > 0 => n \in spawned
      /\ \A i \in Job : parent'[i] \in spawned \cup {NoNode}
      /\ spawned \subseteq spawned'
  BY <1>1, <1>2 DEF Known
<1> QED
  BY <1>2, <1>3, <1>4, <1>5, <1>6, <1>7, <1>8, <1>9, FaultStep

\* An engine moves on with its entry; what it was granted it has just checked.
LEMMA GotoFault ==
    ASSUME FaultSafe, OneEngine, NEW e \in Engine, proc[e].pc # "idle",
           NEW l \in Labels, Goto(e, l),
           l \in {"save", "exec", "resave", "fail", "ack"},
           l \in OnNode => proc[e].pc \in OnNode,
           UNCHANGED <<claimed, saved, status, parent, spawned, completed, notified>>,
           TypeInv', Ledgers', Entries',
           \A k \in Node : work'[k] > 0 => k \in spawned,
           NEW n, n = proc[e].msg.node,
           l = "save" => ledger'[n] = Entered,
           l = "resave" => ledger'[n].leg2 = 9
    PROVE  FaultSafe'
<1>1. e \in Process /\ TypeInv /\ Accounts /\ Known
  BY DEF Process, FaultSafe
<1>2. /\ proc'[e].pc = l /\ proc'[e].msg = proc[e].msg
      /\ \A q \in Process : q # e => proc'[q] = proc[q]
  BY <1>1, GotoStep DEF TypeInv, TypeOK
<1>3. Accounts'
  BY <1>1, GotoAccounts
<1>4. HandlerKnown(e)'
  BY <1>1, <1>2 DEF Known, HandlerKnown
<1>5. Granted(e)'
  BY <1>2 DEF Granted
<1>6. spawned \subseteq spawned' /\ \A j \in Job : parent'[j] \in spawned \cup {NoNode}
  BY <1>1 DEF Known
<1> QED
  BY <1>1, <1>2, <1>3, <1>4, <1>5, <1>6, FaultStep

\* Leg 1 is granted to an activity that finds 8 99 000000 000000.
LEMMA EnterFault ==
    ASSUME FaultSafe, OneEngine, NEW e \in Engine, Enter(e), orphans' = orphans, TypeInv'
    PROVE  FaultSafe' /\ KeepsLedgers
<1>1. PICK n : n = proc[e].msg.node
  OBVIOUS
<1>2. PICK v : v = NotarizeEntry(ledger[n])
  OBVIOUS
<1>3. /\ TypeInv /\ Ledgers /\ Known /\ e \in Process /\ proc[e].pc = "enter"
  BY DEF FaultSafe, Enter, Process
<1>4. n \in spawned /\ n \in Node
  BY <1>1, <1>3 DEF Known, HandlerKnown, TypeInv, TypeOK
<1>5. /\ v \in Ledger /\ v.exit \in 8..9 /\ v.leg2 = ledger[n].leg2
      /\ v.entry <= ledger[n].entry
  BY <1>2, <1>3, <1>4, SMTT(30) DEF NotarizeEntry, Ledger, Ledgers, LedgerOK, TypeInv, TypeOK
<1>6. /\ ledger' = [ledger EXCEPT ![n] = v]
      /\ UNCHANGED <<claimed, saved, status, parent, stream, work, spawned, completed, notified>>
  BY <1>1, <1>2 DEF Enter, jobVars, history
<1>7. Ledgers' /\ KeepsLedgers /\ ledger'[n] = v
  BY <1>3, <1>4, <1>5, <1>6, OneLedger
<1>8. PICK l : l = IF EntryFault(v) = "none" THEN "save" ELSE "fail"
  OBVIOUS
<1>9. Goto(e, l) /\ l \in Labels /\ l \in {"save", "fail"}
  BY <1>1, <1>2, <1>8 DEF Enter, Labels
<1>10. l = "save" => ledger'[n] = Entered
  BY <1>7, <1>8 DEF EntryFault
<1>11. Entries' /\ \A k \in Node : work'[k] > 0 => k \in spawned
  BY <1>3, <1>6, SameEntries DEF Known
<1>12. proc[e].pc \in OnNode
  BY <1>3 DEF OnNode
<1>13. FaultSafe'
  BY <1>1, <1>3, <1>6, <1>7, <1>9, <1>10, <1>11, <1>12, GotoFault
<1> QED
  BY <1>7, <1>13

\* Leg 2 is granted as long as the third digit is 9.
LEMMA ReenterFault ==
    ASSUME FaultSafe, OneEngine, NEW e \in Engine, Reenter(e), orphans' = orphans, TypeInv'
    PROVE  FaultSafe' /\ KeepsLedgers
<1>1. PICK n : n = proc[e].msg.node
  OBVIOUS
<1>2. PICK v : v = NotarizeReentry(ledger[n])
  OBVIOUS
<1>3. /\ TypeInv /\ Ledgers /\ Known /\ e \in Process /\ proc[e].pc = "reenter"
  BY DEF FaultSafe, Reenter, Process
<1>4. n \in spawned /\ n \in Node
  BY <1>1, <1>3 DEF Known, HandlerKnown, TypeInv, TypeOK
<1>5. /\ v \in Ledger /\ v.exit \in 8..9 /\ v.leg2 = ledger[n].leg2 /\ v.leg2 \in 8..9
      /\ v.entry <= ledger[n].entry
  BY <1>2, <1>3, <1>4, SMTT(30) DEF NotarizeReentry, Ledger, Ledgers, LedgerOK, TypeInv, TypeOK
<1>6. /\ ledger' = [ledger EXCEPT ![n] = v]
      /\ UNCHANGED <<claimed, saved, status, parent, stream, work, spawned, completed, notified>>
  BY <1>1, <1>2 DEF Reenter, jobVars, history
<1>7. Ledgers' /\ KeepsLedgers /\ ledger'[n] = v
  BY <1>3, <1>4, <1>5, <1>6, OneLedger
<1>8. PICK l : l = IF ReentryFault(v) # "none" THEN "fail"
                   ELSE IF Kind[n] = "worker" /\ proc[e].js <= 0 THEN "ack"
                   ELSE "resave"
  OBVIOUS
<1>9. Goto(e, l)
  BY <1>1, <1>2, <1>8 DEF Reenter
<1>10. l \in Labels /\ l \in {"fail", "ack", "resave"}
  BY <1>8 DEF Labels
<1>11. l = "resave" => ~ Inactive(v)
  BY <1>8 DEF ReentryFault
<1>12. l = "resave" => ledger'[n].leg2 = 9
  BY <1>5, <1>7, <1>11 DEF Inactive
<1>13. Entries' /\ \A k \in Node : work'[k] > 0 => k \in spawned
  BY <1>3, <1>6, SameEntries DEF Known
<1>14. proc[e].pc \in OnNode
  BY <1>3 DEF OnNode
<1>15. FaultSafe'
  BY <1>1, <1>3, <1>6, <1>7, <1>9, <1>10, <1>12, <1>13, <1>14, GotoFault
<1> QED
  BY <1>7, <1>15

LEMMA SaveDuplexFault ==
    ASSUME FaultSafe, OneEngine, NEW e \in Engine, SaveDuplex(e), orphans' = orphans, TypeInv'
    PROVE  FaultSafe' /\ KeepsLedgers
<1>1. PICK n : n = proc[e].msg.node
  OBVIOUS
<1>2. PICK v : v = AuthorizeReentry(ledger[n])
  OBVIOUS
<1>3. /\ TypeInv /\ Ledgers /\ Known /\ e \in Process /\ proc[e].pc = "save"
  BY DEF FaultSafe, SaveDuplex, Process
<1>4. n \in spawned /\ n \in Node /\ ledger[n] = Entered
  BY <1>1, <1>3 DEF Known, HandlerKnown, TypeInv, TypeOK, FaultSafe, Granted
<1>5. /\ v \in Ledger /\ v.exit \in 8..9 /\ v.leg2 = ledger[n].leg2
      /\ v.entry <= ledger[n].entry
  BY <1>2, <1>4 DEF AuthorizeReentry, Ledger, Entered, Digits
<1>6. /\ ledger' = [ledger EXCEPT ![n] = v]
      /\ UNCHANGED <<claimed, saved, status, parent, stream, work, spawned, completed, notified>>
  BY <1>1, <1>2 DEF SaveDuplex, jobVars, history
<1>7. Ledgers' /\ KeepsLedgers /\ ledger'[n] = v
  BY <1>3, <1>4, <1>5, <1>6, OneLedger
<1>8. PICK l : l = "exec"
  OBVIOUS
<1>9. Goto(e, l) /\ l \in Labels
  BY <1>8 DEF SaveDuplex, Labels
<1>10. Entries' /\ \A k \in Node : work'[k] > 0 => k \in spawned
  BY <1>3, <1>6, SameEntries DEF Known
<1>11. proc[e].pc \in OnNode
  BY <1>3 DEF OnNode
<1>12. FaultSafe'
  BY <1>1, <1>3, <1>6, <1>7, <1>8, <1>9, <1>10, <1>11, GotoFault
<1> QED
  BY <1>7, <1>12

LEMMA ExecActivityFault ==
    ASSUME FaultSafe, OneEngine, NEW e \in Engine, ExecActivity(e), orphans' = orphans, TypeInv'
    PROVE  FaultSafe' /\ KeepsLedgers
<1>1. PICK n : n = proc[e].msg.node
  OBVIOUS
<1>2. /\ TypeInv /\ Ledgers /\ Known /\ e \in Process /\ proc[e].pc = "exec"
  BY DEF FaultSafe, ExecActivity, Process
<1>3. n \in spawned /\ n \in Node
  BY <1>1, <1>2 DEF Known, HandlerKnown, TypeInv, TypeOK
<1>4. UNCHANGED <<claimed, saved, status, parent, ledger, spawned, completed, notified>>
  BY DEF ExecActivity, jobVars, history
<1>5. Ledgers' /\ KeepsLedgers
  BY <1>2, <1>4, SameLedgers
<1>6. Entries' /\ \A k \in Node : work'[k] > 0 => k \in spawned
  <2>1. CASE Kind[n] = "worker"
    <3>1. work' = [work EXCEPT ![n] = @ + 1] /\ UNCHANGED stream
      BY <1>1, <2>1 DEF ExecActivity
    <3>2. \A k \in Node : work'[k] > 0 => k \in spawned
      BY <1>2, <1>3, <3>1 DEF Known, TypeInv, TypeOK
    <3> QED
      BY <1>2, <1>4, <3>1, <3>2, SameEntries DEF Known
  <2>2. CASE Kind[n] # "worker"
    <3>1. PICK M : M = {Await(n)}
      OBVIOUS
    <3>2. stream' = Add(stream, M) /\ UNCHANGED work
      BY <1>1, <2>2, <3>1 DEF ExecActivity
    <3>3. M \in SUBSET Msg /\ \A m \in M : m.node \in spawned
      BY <1>3, <3>1, MsgTypes DEF Await
    <3> QED
      BY <1>2, <1>4, <3>2, <3>3, AddEntries DEF Known
  <2> QED
    BY <2>1, <2>2
<1>7. PICK l : l = "ack"
  OBVIOUS
<1>8. Goto(e, l) /\ l \in Labels
  BY <1>7 DEF ExecActivity, Labels
<1>9. proc[e].pc \in OnNode
  BY <1>2 DEF OnNode
<1>10. FaultSafe'
  BY <1>1, <1>2, <1>4, <1>5, <1>6, <1>7, <1>8, <1>9, GotoFault
<1> QED
  BY <1>5, <1>10

\* The handler that threw, and the one that found its child's id in use.
LEMMA FailFault ==
    ASSUME FaultSafe, OneEngine, NEW e \in Engine, Fail(e), orphans' = orphans, TypeInv'
    PROVE  FaultSafe' /\ KeepsLedgers
<1>1. PICK n : n = proc[e].msg.node
  OBVIOUS
<1>2. /\ TypeInv /\ Ledgers /\ Known /\ e \in Process /\ proc[e].pc = "fail"
  BY DEF FaultSafe, Fail, Process
<1>3. n \in spawned /\ n \in Node
  BY <1>1, <1>2 DEF Known, HandlerKnown, TypeInv, TypeOK
<1>4. UNCHANGED <<claimed, saved, status, parent, ledger, work, spawned, completed, notified>>
  BY DEF Fail, jobVars, history
<1>5. Ledgers' /\ KeepsLedgers
  BY <1>2, <1>4, SameLedgers
<1>6. Entries'
  <2>1. PICK M : M = {Response(n, "error")}
    OBVIOUS
  <2>2. M \in SUBSET Msg /\ \A m \in M : m.node \in spawned
    <3>1. Response(n, "error") \in Msg /\ Response(n, "error").node = n
      BY <1>3, MsgTypes DEF Response, Status
    <3> QED
      BY <1>3, <2>1, <3>1
  <2>3. stream' = Add(stream, M)
    BY <1>1, <2>1 DEF Fail
  <2> QED
    BY <1>2, <1>4, <2>2, <2>3, AddEntries DEF Known
<1>7. PICK l : l = "ack"
  OBVIOUS
<1>8. Goto(e, l) /\ l \in Labels /\ l \notin OnNode
  BY <1>7 DEF Fail, Labels, OnNode
<1>9. \A k \in Node : work'[k] > 0 => k \in spawned
  BY <1>2, <1>4 DEF Known
<1>10. FaultSafe'
  BY <1>1, <1>2, <1>4, <1>5, <1>6, <1>7, <1>8, <1>9, GotoFault
<1> QED
  BY <1>5, <1>10

LEMMA RefuseChildFault ==
    ASSUME FaultSafe, OneEngine, NEW e \in Engine, NEW j \in Job, RefuseChild(e, j),
           orphans' = orphans, TypeInv'
    PROVE  FaultSafe' /\ KeepsLedgers
<1>1. PICK n : n = proc[e].msg.node
  OBVIOUS
<1>2. /\ TypeInv /\ Ledgers /\ Known /\ proc[e].pc = "claim"
  BY DEF FaultSafe, RefuseChild
<1>3. UNCHANGED <<claimed, saved, status, parent, ledger, stream, work,
                  spawned, completed, notified>>
  BY DEF RefuseChild, jobVars, history
<1>4. Ledgers' /\ KeepsLedgers
  BY <1>2, <1>3, SameLedgers
<1>5. Entries' /\ \A k \in Node : work'[k] > 0 => k \in spawned
  BY <1>2, <1>3, SameEntries DEF Known
<1>6. PICK l : l = "fail"
  OBVIOUS
<1>7. Goto(e, l) /\ l \in Labels /\ l \notin OnNode
  BY <1>6 DEF RefuseChild, Labels, OnNode
<1>8. FaultSafe'
  BY <1>1, <1>2, <1>3, <1>4, <1>5, <1>6, <1>7, GotoFault
<1> QED
  BY <1>4, <1>8

\* The transaction that closes the ledger, counts the activity out and its
\* children in: the third digit was 9, so it did so for no one before.
LEMMA CountOutFault ==
    ASSUME FaultSafe, OneEngine, NEW e \in Engine, proc[e].pc \in {"save", "resave"},
           NEW n, n = proc[e].msg.node, NEW A \in FilterAdjacent(n),
           NEW v \in Ledger, ledger' = Preset([ledger EXCEPT ![n] = v], A),
           CountOut(e, n, A), UNCHANGED <<stream, work, orphans>>, TypeInv',
           ledger[n].leg2 = 9, v.leg2 = 8, v.exit \in 8..9, v.entry <= ledger[n].entry
    PROVE  FaultSafe' /\ KeepsLedgers
<1>1. /\ TypeInv /\ Accounts /\ Ledgers /\ Known /\ e \in Process
      /\ proc[e].pc # "idle" /\ completed \subseteq spawned
  BY DEF FaultSafe, Process, Accounts, Books
<1>2. n \in spawned /\ n \in Node /\ LedgerOK(n)
  BY <1>1 DEF Known, HandlerKnown, TypeInv, TypeOK, Ledgers
<1>3. n \notin completed /\ n \in Called
  BY <1>2 DEF LedgerOK, Called
<1>4. n \notin saved \cup completed
  BY <1>1, <1>2, <1>3, SortsAssumption DEF TypeInv, TypeOK
<1>5. /\ A \in SUBSET Node /\ A \cap spawned = {} /\ A \cap completed = {}
      /\ Cardinality(A) \in Int
  BY <1>1, <1>2, <1>4, UncalledChildren, FilterType DEF Accounts
<1>6. Accounts'
  BY <1>1, <1>2, <1>3, <1>5, CountOutAccounts
<1>7. /\ spawned' = spawned \cup A /\ completed' = completed \cup {n}
      /\ parent' = parent
  BY DEF CountOut
<1>8. Ledgers' /\ KeepsLedgers
  <2>1. v.leg2 \in 8..9 /\ (n \in completed' <=> v.leg2 = 8)
    BY <1>7
  <2> QED
    BY <1>1, <1>2, <1>5, <1>7, <2>1, PresetLedgers
<1>9. /\ proc'[e].pc = "transition" /\ proc'[e].msg = proc[e].msg /\ proc'[e].adj = A
      /\ \A q \in Process : q # e => proc'[q] = proc[q]
  <2>1. status'[Owner[n]] \in Int
    BY <1>2, GraphAssumption DEF TypeInv, TypeOK
  <2>2. PICK s \in Int : s = status'[Owner[n]]
    BY <2>1
  <2>3. proc' = [proc EXCEPT ![e].pc = "transition", ![e].adj = A, ![e].js = s]
    BY <2>2 DEF CountOut
  <2> QED
    BY <1>1, <1>5, <2>3, TransitionStep, ZenonT(60) DEF TypeInv, TypeOK
<1>10. Entries'
  BY <1>1, <1>7, SameEntries DEF Known
<1>11. HandlerKnown(e)'
  BY <1>1, <1>7, <1>9 DEF Known, HandlerKnown
<1>12. Granted(e)'
  BY <1>9 DEF Granted
<1>13. /\ \A k \in Node : work'[k] > 0 => k \in spawned
       /\ \A j \in Job : parent'[j] \in spawned \cup {NoNode}
       /\ spawned \subseteq spawned'
  BY <1>1, <1>7 DEF Known
<1> QED
  BY <1>1, <1>6, <1>8, <1>9, <1>10, <1>11, <1>12, <1>13, FaultStep

\* What a completion leaves of the digits.
LEMMA CompletionDigits ==
    ASSUME NEW l \in Ledger
    PROVE  /\ NotarizeCompletion(l).leg2 = l.leg2 - 1
           /\ NotarizeCompletion(l).exit = l.exit
<1> DEFINE closed == [l EXCEPT !.leg2 = @ - 1]
<1>1. closed \in Ledger /\ closed.leg2 = l.leg2 - 1 /\ closed.exit = l.exit
  BY DEF Ledger
<1>2. NotarizeCompletion(l) = NotarizeContinuation(closed)
  BY DEF NotarizeCompletion
<1> HIDE DEF closed
<1> QED
  BY <1>1, <1>2 DEF NotarizeContinuation, Ledger

LEMMA EarlyDigits ==
    /\ NotarizeEarlyCompletion(Entered) \in Ledger
    /\ NotarizeEarlyCompletion(Entered).leg2 = 8
    /\ NotarizeEarlyCompletion(Entered).exit = 8
    /\ NotarizeEarlyCompletion(Entered).entry = 8
<1>1. PICK l : l = Entered
  OBVIOUS
<1>2. l \in Ledger /\ l.entry = 8 /\ l.exit = 9 /\ l.leg2 = 9
  BY <1>1 DEF Entered, Digits, Ledger
<1>3. PICK left : left = AuthorizeReentry(l)
  OBVIOUS
<1>4. left \in Ledger /\ left.entry = 8 /\ left.exit = 8 /\ left.leg2 = 9
  BY <1>2, <1>3 DEF AuthorizeReentry, Ledger
<1>5. PICK in : in = NotarizeReentry(left)
  OBVIOUS
<1>6. in \in Ledger /\ in.entry = 8 /\ in.exit = 8 /\ in.leg2 = 9
  BY <1>4, <1>5 DEF NotarizeReentry, Ledger
<1>7. NotarizeEarlyCompletion(Entered) = NotarizeCompletion(in)
  BY <1>1, <1>3, <1>5 DEF NotarizeEarlyCompletion
<1> QED
  BY <1>6, <1>7, CompletionDigits, CompletionIncrement

LEMMA SaveActivityFault ==
    ASSUME FaultSafe, OneEngine, NEW e \in Engine, SaveActivity(e), orphans' = orphans, TypeInv'
    PROVE  FaultSafe' /\ KeepsLedgers
<1>1. PICK n : n = proc[e].msg.node
  OBVIOUS
<1>2. PICK v : v = NotarizeEarlyCompletion(ledger[n])
  OBVIOUS
<1>3. proc[e].pc = "save" /\ ledger[n] = Entered /\ UNCHANGED <<stream, work>>
  BY <1>1 DEF SaveActivity, FaultSafe, Granted
<1>4. /\ v \in Ledger /\ v.leg2 = 8 /\ v.exit \in 8..9 /\ v.entry <= ledger[n].entry
      /\ ledger[n].leg2 = 9
  <2>1. Entered.entry = 8 /\ Entered.leg2 = 9
    BY DEF Entered, Digits
  <2> QED
    BY <1>2, <1>3, <2>1, EarlyDigits
<1>5. PICK A \in FilterAdjacent(n) :
        /\ ledger' = Preset([ledger EXCEPT ![n] = NotarizeEarlyCompletion(@)], A)
        /\ CountOut(e, n, A)
  BY <1>1 DEF SaveActivity
<1>6. ledger' = Preset([ledger EXCEPT ![n] = v], A)
  BY <1>2, <1>5
<1> QED
  BY <1>1, <1>3, <1>4, <1>5, <1>6, CountOutFault

LEMMA SaveCompletionFault ==
    ASSUME FaultSafe, OneEngine, NEW e \in Engine, proc[e].pc = "resave", SaveCompletion(e),
           orphans' = orphans, TypeInv'
    PROVE  FaultSafe' /\ KeepsLedgers
<1>1. PICK n : n = proc[e].msg.node
  OBVIOUS
<1>2. PICK v : v = NotarizeCompletion(ledger[n])
  OBVIOUS
<1>3. ledger[n].leg2 = 9 /\ UNCHANGED <<stream, work>>
  BY <1>1 DEF SaveCompletion, FaultSafe, Granted
<1>4. n \in spawned /\ n \in Node /\ LedgerOK(n) /\ ledger[n] \in Ledger
  BY <1>1 DEF FaultSafe, Known, HandlerKnown, Process, TypeInv, TypeOK, Ledgers
<1>5. v \in Ledger /\ v.leg2 = 8 /\ v.exit \in 8..9 /\ v.entry <= ledger[n].entry
  <2>1. ledger[n].exit \in 8..9 /\ ledger[n].entry \in Int
    BY <1>4 DEF LedgerOK, Ledger
  <2> QED
    BY <1>2, <1>3, <1>4, <2>1, CompletionDigits, CompletionIncrement
<1>6. PICK A \in FilterAdjacent(n) :
        /\ ledger' = Preset([ledger EXCEPT ![n] = NotarizeCompletion(@)], A)
        /\ CountOut(e, n, A)
  BY <1>1 DEF SaveCompletion
<1>7. ledger' = Preset([ledger EXCEPT ![n] = v], A)
  BY <1>2, <1>6
<1> QED
  BY <1>1, <1>3, <1>5, <1>6, <1>7, CountOutFault

\* The children of an activity whose leg 2 stays open are preset again; none of
\* them was called.
LEMMA SavePendingFault ==
    ASSUME FaultSafe, OneEngine, NEW e \in Engine, proc[e].pc = "resave", SavePending(e),
           orphans' = orphans, TypeInv'
    PROVE  FaultSafe' /\ KeepsLedgers
<1>1. PICK n : n = proc[e].msg.node
  OBVIOUS
<1>2. PICK v : v = NotarizeContinuation(ledger[n])
  OBVIOUS
<1>3. /\ TypeInv /\ Ledgers /\ Accounts /\ Known /\ e \in Process
      /\ ledger[n].leg2 = 9 /\ completed \subseteq spawned
  BY <1>1 DEF FaultSafe, Granted, Process, Accounts, Books
<1>4. n \in spawned /\ n \in Node /\ LedgerOK(n) /\ ledger[n] \in Ledger
  BY <1>1, <1>3 DEF Known, HandlerKnown, TypeInv, TypeOK, Ledgers
<1>5. n \notin completed /\ n \notin saved \cup completed
  <2>1. n \notin completed
    BY <1>3, <1>4 DEF LedgerOK
  <2> QED
    BY <1>3, <1>4, <2>1, SortsAssumption DEF TypeInv, TypeOK
<1>6. /\ v \in Ledger /\ v.leg2 \in 8..9 /\ v.exit \in 8..9 /\ v.entry <= ledger[n].entry
      /\ v.leg2 = 9
  BY <1>2, <1>3, <1>4 DEF NotarizeContinuation, Ledger, LedgerOK
<1>7. PICK A \in FilterAdjacent(n) :
        ledger' = Preset([ledger EXCEPT ![n] = NotarizeContinuation(@)], A)
  BY <1>1 DEF SavePending
<1>8. ledger' = Preset([ledger EXCEPT ![n] = v], A)
  BY <1>2, <1>7
<1>9. A \in SUBSET Node /\ A \cap spawned = {}
  BY <1>3, <1>4, <1>5, UncalledChildren DEF Accounts
<1>10. UNCHANGED <<claimed, saved, status, parent, stream, work, spawned, completed, notified>>
  BY DEF SavePending, jobVars, history
<1>11. n \in completed' <=> v.leg2 = 8
  BY <1>5, <1>6, <1>10
<1>12. Ledgers' /\ KeepsLedgers
  BY <1>3, <1>4, <1>6, <1>8, <1>9, <1>10, <1>11, PresetLedgers
<1>13. Entries' /\ \A k \in Node : work'[k] > 0 => k \in spawned
  BY <1>3, <1>10, SameEntries DEF Known
<1>14. PICK l : l = "ack"
  OBVIOUS
<1>15. Goto(e, l) /\ l \in Labels /\ l \notin OnNode
  BY <1>14 DEF SavePending, Labels, OnNode
<1>16. FaultSafe'
  BY <1>1, <1>3, <1>10, <1>12, <1>13, <1>14, <1>15, GotoFault
<1> QED
  BY <1>12, <1>16

\* An entry is taken from the stream, or from an engine that stopped.
LEMMA DispatchFault ==
    ASSUME FaultSafe, OneEngine, TypeInv', NEW e \in Engine, NEW m \in Msg,
           stream[m] > 0 \/ orphans[m] > 0, proc' = [proc EXCEPT ![e] = Dispatch(m)],
           UNCHANGED <<jobVars, ledger, work, history>>, Entries'
    PROVE  FaultSafe' /\ KeepsLedgers
<1>1. TypeInv /\ Accounts /\ Ledgers /\ Known /\ e \in Process
  BY DEF FaultSafe, Process
<1>2. UNCHANGED <<claimed, saved, status, parent, ledger, work, spawned, completed, notified>>
  BY DEF jobVars, history
<1>3. Accounts'
  BY <1>1, <1>2, DispatchAccounts
<1>4. Ledgers' /\ KeepsLedgers
  BY <1>1, <1>2, SameLedgers
<1>5. /\ proc'[e] = Dispatch(m)
      /\ \A q \in Process : q # e => proc'[q] = proc[q]
  BY <1>1 DEF TypeInv, TypeOK
<1>6. proc'[e].msg = m /\ proc'[e].pc \in {"enter", "claim", "fail", "reenter"}
  BY <1>1, <1>5, DispatchType
<1>7. m.node \in spawned
  BY <1>1 DEF Known, Entries
<1>8. HandlerKnown(e)'
  BY <1>2, <1>6, <1>7 DEF HandlerKnown
<1>9. Granted(e)'
  BY <1>6 DEF Granted
<1>10. /\ \A n \in Node : work'[n] > 0 => n \in spawned
       /\ \A j \in Job : parent'[j] \in spawned \cup {NoNode}
       /\ spawned \subseteq spawned'
  BY <1>1, <1>2 DEF Known
<1> QED
  BY <1>1, <1>3, <1>4, <1>5, <1>8, <1>9, <1>10, FaultStep

\* A process lets go of what it had, after the acknowledgement or at a stop.
LEMMA IdleFault ==
    ASSUME FaultSafe, OneEngine, TypeInv', NEW p \in Process,
           proc' = [proc EXCEPT ![p] = Idle],
           UNCHANGED <<jobVars, ledger, stream, work, history>>, Entries'
    PROVE  FaultSafe' /\ KeepsLedgers
<1>1. TypeInv /\ Accounts /\ Ledgers /\ Known
  BY DEF FaultSafe
<1>2. UNCHANGED <<claimed, saved, status, parent, ledger, work, spawned, completed, notified>>
  BY DEF jobVars, history
<1>3. Accounts'
  BY <1>1, <1>2, IdleAccounts
<1>4. Ledgers' /\ KeepsLedgers
  BY <1>1, <1>2, SameLedgers
<1>5. proc'[p] = Idle /\ \A q \in Process : q # p => proc'[q] = proc[q]
  BY <1>1, IdleStep DEF TypeInv, TypeOK
<1>6. HandlerKnown(p)' /\ Granted(p)'
  BY <1>5 DEF Idle, HandlerKnown, Granted
<1>7. /\ \A n \in Node : work'[n] > 0 => n \in spawned
      /\ \A j \in Job : parent'[j] \in spawned \cup {NoNode}
      /\ spawned \subseteq spawned'
  BY <1>1, <1>2 DEF Known
<1> QED
  BY <1>3, <1>4, <1>5, <1>6, <1>7, FaultStep

\* A worker's answer, or an answer of its that it gives again.
LEMMA AnswerFault ==
    ASSUME FaultSafe, OneEngine, TypeInv', NEW n \in Node, work[n] > 0,
           NEW s \in Status, stream' = Add(stream, {Response(n, s)}),
           \A k \in Node : work'[k] > 0 => k = n \/ work[k] > 0,
           UNCHANGED <<jobVars, ledger, proc, history, orphans>>
    PROVE  FaultSafe' /\ KeepsLedgers
<1>1. TypeInv /\ Accounts /\ Ledgers /\ Known
  BY DEF FaultSafe
<1>2. UNCHANGED <<claimed, saved, status, parent, ledger, proc, spawned, completed, notified>>
  BY DEF jobVars, history
<1>3. n \in spawned
  BY <1>1 DEF Known
<1>4. Entries'
  <2>1. PICK M : M = {Response(n, s)}
    OBVIOUS
  <2>2. Response(n, s) \in Msg /\ Response(n, s).node = n
    BY MsgTypes DEF Response
  <2>3. M \in SUBSET Msg /\ \A m \in M : m.node \in spawned
    BY <1>3, <2>1, <2>2
  <2>4. stream' = Add(stream, M)
    BY <2>1
  <2> QED
    BY <1>1, <1>2, <2>3, <2>4, AddEntries DEF Known
<1>5. Ledgers' /\ KeepsLedgers
  BY <1>1, <1>2, SameLedgers
<1>6. Accounts'
  BY <1>1, <1>2 DEF Accounts, Books, Handlers, HandlerOK, Apart, Concluding,
                    Counts, SemaphoreCounts, Outstanding
<1>7. Known'
  BY <1>1, <1>2, <1>3, <1>4 DEF Known, HandlerKnown
<1>8. \A e \in Engine : Granted(e)'
  BY <1>2 DEF FaultSafe, Granted
<1> QED
  BY <1>5, <1>6, <1>7, <1>8 DEF FaultSafe

LEMMA HandleFault ==
    ASSUME FaultSafe, OneEngine, NEW p \in Process, Handle(p), orphans' = orphans, TypeInv'
    PROVE  FaultSafe' /\ KeepsLedgers
  BY SaveTriggerFault, HandleEndFault DEF Handle

LEMMA EngineFault ==
    ASSUME FaultSafe, OneEngine, NEW e \in Engine, EngineStep(e), orphans' = orphans, TypeInv'
    PROVE  FaultSafe' /\ KeepsLedgers
<1>1. e \in Process /\ TypeInv /\ Known
  BY DEF Process, FaultSafe
<1>2. ASSUME NEW m \in Msg, Deliver(e, m) PROVE FaultSafe' /\ KeepsLedgers
  <2>1. /\ stream[m] > 0 /\ proc' = [proc EXCEPT ![e] = Dispatch(m)]
        /\ stream' = [stream EXCEPT ![m] = @ - 1]
        /\ UNCHANGED <<jobVars, ledger, work, history>>
    BY <1>2 DEF Deliver
  <2>2. \A k \in Msg : stream'[k] > 0 => stream[k] > 0
    BY <1>1, <2>1 DEF TypeInv, TypeOK
  <2>3. Entries'
    BY <1>1, <2>1, <2>2 DEF Known, Entries, history
  <2> QED
    BY <2>1, <2>3, DispatchFault
<1>3. ASSUME NEW j \in Job, StartChild(e, j) PROVE FaultSafe' /\ KeepsLedgers
  <2>1. ClaimJob(e, j) /\ proc[e].pc # "idle"
    BY <1>3 DEF StartChild
  <2> QED
    BY <1>1, <2>1, ClaimFault
<1>4. CASE Ack(e)
  <2>1. /\ proc' = [proc EXCEPT ![e] = Idle]
        /\ UNCHANGED <<jobVars, ledger, stream, work, history>>
    BY <1>4 DEF Ack
  <2>2. Entries'
    BY <1>1, <2>1, SameEntries DEF Known, history
  <2> QED
    BY <1>1, <2>1, <2>2, IdleFault
<1>5. ASSUME SaveAnswer(e) PROVE FaultSafe' /\ KeepsLedgers
  BY <1>5, SavePendingFault, SaveCompletionFault DEF SaveAnswer
<1> QED
  BY <1>1, <1>2, <1>3, <1>4, <1>5, RefuseChildFault, EnterFault, SaveActivityFault,
     SaveDuplexFault, ExecActivityFault, ReenterFault, FailFault, HandleFault
  DEF EngineStep

LEMMA NextFault ==
    ASSUME FaultSafe, OneEngine, Next, UNCHANGED faultVars
    PROVE  FaultSafe' /\ KeepsLedgers
<1>1. orphans' = orphans /\ TypeInv /\ TypeInv'
  BY NextType DEF FaultSafe, faultVars
<1>2. ASSUME NEW e \in Engine, EngineStep(e) PROVE FaultSafe' /\ KeepsLedgers
  BY <1>1, <1>2, EngineFault
<1>3. ASSUME NEW c \in Client, ClientStep(c) PROVE FaultSafe' /\ KeepsLedgers
  <2>1. c \in Process /\ c \notin Engine
    BY SortsAssumption DEF Process
  <2>2. ASSUME NEW j \in Job, Publish(c, j) PROVE FaultSafe' /\ KeepsLedgers
    BY <1>1, <2>1, <2>2, ClaimFault DEF Publish
  <2> QED
    BY <1>1, <1>3, <2>1, <2>2, HandleFault DEF ClientStep
<1>4. ASSUME NEW n \in Node, NEW s \in Status, WorkerAnswer(n, s)
      PROVE  FaultSafe' /\ KeepsLedgers
  <2>1. /\ work[n] > 0 /\ stream' = Add(stream, {Response(n, s)})
        /\ UNCHANGED <<jobVars, ledger, proc, history, orphans>>
    BY <1>1, <1>4 DEF WorkerAnswer
  <2>2. \A k \in Node : k # n => work'[k] = work[k]
    BY <1>1, <1>4 DEF WorkerAnswer, TypeInv, TypeOK
  <2> QED
    BY <1>1, <2>1, <2>2, AnswerFault
<1> QED
  BY <1>2, <1>3, <1>4 DEF Next, WorkerStep

\* A stop, a reclaimed entry, an answer given twice.
LEMMA CrashFault ==
    ASSUME FaultSafe, OneEngine, NEW p \in Process, Crash(p)
    PROVE  FaultSafe' /\ KeepsLedgers
<1>1. TypeInv /\ Known
  BY DEF FaultSafe
<1>2. /\ proc' = [proc EXCEPT ![p] = Idle]
      /\ UNCHANGED <<jobVars, ledger, stream, work, history>>
      /\ proc[p].pc # "idle"
  BY DEF Crash
<1>3. /\ proc' \in [Process -> Handler] /\ proc'[p] = Idle
      /\ \A q \in Process : q # p => proc'[q] = proc[q]
  BY <1>1, <1>2, IdleStep DEF TypeInv, TypeOK
<1>4. ProcOK'
  BY <1>1, <1>3 DEF Idle, TypeInv, ProcOK, Process
<1>5. TypeInv'
  BY <1>1, <1>2, <1>3, <1>4 DEF TypeInv, TypeOK, jobVars, history
<1>6. spawned' = spawned /\ stream' = stream
  BY <1>2 DEF history
<1>7. Entries'
  <2>1. CASE p \in Engine
    <3>1. PICK m : m = proc[p].msg
      OBVIOUS
    <3>2. orphans' = Add(orphans, {m})
      BY <2>1, <3>1 DEF Crash
    <3>3. m.node \in spawned
      BY <1>1, <1>2, <2>1, <3>1 DEF Known, HandlerKnown
    <3>4. orphans' \in [Msg -> Nat]
      BY <1>1, <3>2, AddType DEF Known, Entries
    <3>5. \A k \in Msg : orphans'[k] > 0 => orphans[k] > 0 \/ k = m
      BY <1>1, <3>2 DEF Add, Known, Entries
    <3> QED
      BY <1>1, <1>6, <3>3, <3>4, <3>5 DEF Known, Entries
  <2>2. CASE p \notin Engine
    <3>1. orphans' = orphans
      BY <2>2 DEF Crash
    <3> QED
      BY <1>1, <1>6, <3>1, SameEntries DEF Known
  <2> QED
    BY <2>1, <2>2
<1> QED
  BY <1>2, <1>5, <1>7, IdleFault

LEMMA ReclaimFault ==
    ASSUME FaultSafe, OneEngine, NEW e \in Engine, NEW m \in Msg, Reclaim(e, m)
    PROVE  FaultSafe' /\ KeepsLedgers
<1>1. TypeInv /\ Known /\ e \in Process /\ e \notin Client
  BY SortsAssumption DEF FaultSafe, Process
<1>2. /\ orphans[m] > 0 /\ proc' = [proc EXCEPT ![e] = Dispatch(m)]
      /\ orphans' = [orphans EXCEPT ![m] = @ - 1]
      /\ UNCHANGED <<jobVars, ledger, stream, work, history>>
  BY DEF Reclaim
<1>3. Owner[m.node] \in Job
  BY MsgFields, GraphAssumption
<1>4. proc' \in [Process -> Handler] /\ ProcOK'
  BY <1>1, <1>2, <1>3, DispatchType DEF TypeInv, TypeOK, ProcOK, Process
<1>5. TypeInv'
  BY <1>1, <1>2, <1>4 DEF TypeInv, TypeOK, jobVars, history
<1>6. /\ orphans' \in [Msg -> Nat]
      /\ \A k \in Msg : orphans'[k] > 0 => orphans[k] > 0
  BY <1>1, <1>2 DEF Known, Entries
<1>7. Entries'
  BY <1>1, <1>2, <1>6 DEF Known, Entries, history
<1> QED
  BY <1>2, <1>5, <1>7, DispatchFault

LEMMA AnswerTwiceFault ==
    ASSUME FaultSafe, OneEngine, NEW n \in Node, NEW s \in Status, AnswerTwice(n, s)
    PROVE  FaultSafe' /\ KeepsLedgers
<1>1. TypeInv
  BY DEF FaultSafe
<1>2. /\ work[n] > 0 /\ stream' = Add(stream, {Response(n, s)}) /\ work' = work
      /\ UNCHANGED <<jobVars, ledger, work, proc, history, orphans>>
  BY DEF AnswerTwice
<1>3. stream' \in [Msg -> Nat]
  BY <1>1, <1>2, AddType DEF TypeInv, TypeOK
<1>4. TypeInv'
  BY <1>1, <1>2, <1>3 DEF TypeInv, TypeOK, ProcOK, jobVars, history
<1> QED
  BY <1>2, <1>4, AnswerFault

LEMMA FaultyNextSafe ==
    ASSUME OneEngine, FaultSafe, [FaultyNext]_allVars
    PROVE  FaultSafe' /\ [KeepsLedgers]_allVars
<1>1. CASE UNCHANGED allVars
  <2>1. UNCHANGED <<claimed, saved, status, parent, ledger, stream, work, proc,
                    spawned, completed, notified, orphans>>
    BY <1>1 DEF allVars, faultVars, vars, jobVars, history
  <2>2. TypeInv' /\ Accounts'
    BY <2>1 DEF FaultSafe, TypeInv, TypeOK, ProcOK, Accounts, Books, Handlers,
                HandlerOK, Apart, Concluding, Counts, SemaphoreCounts, Outstanding
  <2>3. Ledgers' /\ Known' /\ \A e \in Engine : Granted(e)'
    BY <2>1 DEF FaultSafe, Ledgers, LedgerOK, Known, Entries, HandlerKnown, Granted
  <2> QED
    BY <1>1, <2>2, <2>3 DEF FaultSafe
<1>2. CASE FaultyNext
  BY <1>2, NextFault, CrashFault, ReclaimFault, AnswerTwiceFault DEF FaultyNext
<1> QED
  BY <1>1, <1>2

LEMMA FaultyInitSafe == FaultyInit => FaultSafe
<1> SUFFICES ASSUME FaultyInit PROVE FaultSafe
  OBVIOUS
<1>1. Init /\ orphans = [m \in Msg |-> 0]
  BY DEF FaultyInit
<1>2. \A q \in Process : proc[q] = Idle
  BY <1>1 DEF Init
<1>3. \A q \in Process : proc[q].pc = "idle"
  BY <1>2 DEF Idle
<1>4. Accounts
  <2>1. Books /\ Counts
    BY <1>1 DEF Init, Books, Counts, SemaphoreCounts
  <2>2. Handlers
    BY <1>3 DEF Handlers, HandlerOK, Apart, Concluding, OnNode
  <2> QED
    BY <2>1, <2>2 DEF Accounts
<1>5. Ledgers
  BY <1>1 DEF Init, Ledgers, LedgerOK
<1>6. Known
  <2>1. Entries
    BY <1>1 DEF Init, Entries
  <2>2. \A q \in Process : HandlerKnown(q)
    BY <1>3 DEF HandlerKnown
  <2> QED
    BY <1>1, <2>1, <2>2 DEF Init, Known
<1>7. \A e \in Engine : Granted(e)
  BY <1>3 DEF Granted, Process
<1> QED
  BY <1>1, <1>4, <1>5, <1>6, <1>7, InitType DEF FaultSafe

LEMMA FaultSafeInvariant ==
    ASSUME OneEngine
    PROVE  FaultySpec => [](FaultSafe) /\ [][KeepsLedgers]_allVars
<1>1. FaultyInit => FaultSafe
  BY FaultyInitSafe
<1>2. FaultSafe /\ [FaultyNext]_allVars => FaultSafe' /\ [KeepsLedgers]_allVars
  BY FaultyNextSafe
<1> QED
  BY <1>1, <1>2, PTL DEF FaultySpec

(* A quorum of one engine repeats no save: however often it and the clients*)
(* stop between two round trips, entries are claimed and handled again, and*)
(* workers answer twice or answer "pending" first, each status digit of an *)
(* activity's ledger is lowered by one save only (verifyInteger in         *)
(* collator/index.ts).                                                     *)
THEOREM LegsCloseAtMostOnce ==
    ASSUME OneEngine
    PROVE  FaultySpec => []LegsCloseOnce
<1>1. FaultSafe => LegsCloseOnce
  <2> SUFFICES ASSUME FaultSafe, NEW n \in Node, ledger[n] # Absent
               PROVE  ledger[n].exit \in 8..9 /\ ledger[n].leg2 \in 8..9
    BY DEF LegsCloseOnce
  <2>1. LedgerOK(n)
    BY DEF FaultSafe, Ledgers
  <2>2. Seed.exit = 9 /\ Seed.leg2 = 9
    BY DEF Seed, Digits
  <2> QED
    BY <2>1, <2>2 DEF LedgerOK
<1> QED
  BY <1>1, FaultSafeInvariant, PTL

(* ... the semaphore still is the number of activities to complete: no     *)
(* entry handled again counts an activity out twice or a child in twice.   *)
THEOREM SemaphoreSurvivesStops ==
    ASSUME OneEngine
    PROVE  FaultySpec => []SemaphoreCounts
<1>1. FaultSafe => SemaphoreCounts
  BY DEF FaultSafe, Accounts, Counts
<1> QED
  BY <1>1, FaultSafeInvariant, PTL

(* ... a job is still concluded at most once, and then has no activity     *)
(* outstanding.                                                            *)
THEOREM ConcludedOnceDespiteStops ==
    ASSUME OneEngine
    PROVE  FaultySpec => []ConcludedOnce
<1>1. FaultSafe => ConcludedOnce
  BY DEF FaultSafe, Accounts, Counts, ConcludedOnce
<1> QED
  BY <1>1, FaultSafeInvariant, PTL

(* ... and no preset undoes the leg 1 entry of an activity that runs: what *)
(* authorizeEntry presets was never called, the children of a "pending"    *)
(* answer that are preset again included.                                  *)
THEOREM NeverReseeded ==
    ASSUME OneEngine
    PROVE  FaultySpec => NoReseed
  BY FaultSafeInvariant, PTL DEF NoReseed
=============================================================================
