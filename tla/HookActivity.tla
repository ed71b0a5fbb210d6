---------------------------- MODULE HookActivity ----------------------------
(***************************************************************************)
(* An activity that sleeps or waits for a web hook, one per job: leg 1     *)
(* registers the hook and saves; leg 2 is entered by entries of the engine *)
(* stream.  The collation ledger is that of Collator.  Who puts the        *)
(* entries there is left to TimeHooks and TaskQueues.                      *)
(***************************************************************************)
EXTENDS Collator, FiniteSets

CONSTANTS
    Engines,  \* each consumes the engine stream, one entry at a time
    Jobs      \* ids of the jobs, each with one hook activity

VARIABLES
    kind,      \* what the graph's activity waits for: "sleep" or "signal"
    ledger,    \* the activity's digits
    leg1,      \* how far leg 1 is: "none", "called", ..., "open"
    signals,   \* jobs whose signal `topic:jobId` is in the signals hash
    entries,   \* TIMEHOOK and WEBHOOK entries in the stream, per job
    delivery,  \* what each engine is doing with the entry it took
    resumed,   \* jobs whose activity completed leg 2
    refused    \* jobs with a hook refused because leg 1 was not saved

legVars == <<ledger, leg1, signals>>
legTwoVars == <<delivery, resumed, refused>>
hookActivityVars == <<kind, legVars, entries, legTwoVars>>

Idle == [step |-> "idle"]
Deliveries == {Idle} \cup
    [step : {"found", "granted", "saved"}, job : Jobs, late : BOOLEAN]

HookActivityInit ==
    /\ kind \in {"sleep", "signal"}
    /\ ledger = [j \in Jobs |-> Absent]
    /\ leg1 = [j \in Jobs |-> "none"]
    /\ signals = {}
    /\ entries = [j \in Jobs |-> 0]
    /\ delivery = [e \in Engines |-> Idle]
    /\ resumed = {}
    /\ refused = {}

\* publishMessage(null, ...): hook and hookTime append to the engine stream.
Publish(j) == entries' = [entries EXCEPT ![j] = @ + 1]

-----------------------------------------------------------------------------
(* Leg 1.                                                                  *)

\* notarizeEntry, the first round trip of process.  Nothing else reads the
\* ledger until the next one, so it is one step with it.
WithLeg1(j) == NotarizeEntry(ledger[j])

EntersLeg1(j) == leg1[j] = "called" /\ EntryFault(WithLeg1(j)) = "none"

\* registerWebHook: an HSET of the transaction, whatever the hash held.
RegisterWebHook(j) == signals' = signals \cup {j}

\* The transaction.  A time hook was registered before it, by round trips of
\* its own.
SaveLeg1(j) ==
    /\ \/ kind = "signal" /\ EntersLeg1(j) /\ RegisterWebHook(j)
       \/ kind = "sleep" /\ leg1[j] = "listed" /\ UNCHANGED signals
    /\ ledger' = [ledger EXCEPT ![j] =
                    AuthorizeReentry(IF kind = "signal" THEN WithLeg1(j) ELSE @)]
    /\ leg1' = [leg1 EXCEPT ![j] = "open"]
    /\ UNCHANGED <<kind, entries, legTwoVars>>

-----------------------------------------------------------------------------
(* Leg 2: one round trip per action.                                       *)

Took(j) == entries' = [entries EXCEPT ![j] = @ - 1]

\* getHookSignal finds no job: "already resolved", the entry is acknowledged.
IgnoreHook(e, j) ==
    /\ delivery[e] = Idle /\ entries[j] > 0
    /\ kind = "signal" /\ j \notin signals
    /\ Took(j)
    /\ UNCHANGED <<kind, legVars, legTwoVars>>

\* A web hook finds its job by the signal, a time hook carries it.  The record
\* notes whether the activity had completed leg 2 by then.
TakeHook(e, j) ==
    /\ delivery[e] = Idle /\ entries[j] > 0
    /\ kind = "signal" => j \in signals
    /\ Took(j)
    /\ delivery' = [delivery EXCEPT ![e] =
                      [step |-> "found", job |-> j, late |-> j \in resumed]]
    /\ UNCHANGED <<kind, legVars, resumed, refused>>

\* notarizeReentry.  A refusal throws: the entry is spent, the signal stays.
Reenter(e) ==
    LET j == delivery[e].job IN
    /\ delivery[e].step = "found"
    /\ ledger' = [ledger EXCEPT ![j] = NotarizeReentry(@)]
    /\ IF ReentryFault(ledger'[j]) = "none"
       THEN delivery' = [delivery EXCEPT ![e].step = "granted"]
       ELSE delivery' = [delivery EXCEPT ![e] = Idle]
    /\ refused' = IF ReentryFault(ledger'[j]) = "forbidden" THEN refused \cup {j} ELSE refused
    /\ UNCHANGED <<kind, leg1, signals, entries, resumed>>

\* The transaction: state, completion and the job's semaphore.
SaveLeg2(e) ==
    LET j == delivery[e].job IN
    /\ delivery[e].step = "granted"
    /\ ledger' = [ledger EXCEPT ![j] = NotarizeCompletion(@)]
    /\ resumed' = resumed \cup {j}
    /\ delivery' = [delivery EXCEPT ![e] =
                      IF kind = "signal" THEN [@ EXCEPT !.step = "saved"] ELSE Idle]
    /\ UNCHANGED <<kind, leg1, signals, entries, refused>>

\* deleteWebHookSignal
DeleteSignal(e) ==
    /\ delivery[e].step = "saved"
    /\ signals' = signals \ {delivery[e].job}
    /\ delivery' = [delivery EXCEPT ![e] = Idle]
    /\ UNCHANGED <<kind, ledger, leg1, entries, resumed, refused>>

EngineStep(e) ==
    \/ \E j \in Jobs : IgnoreHook(e, j) \/ TakeHook(e, j)
    \/ Reenter(e) \/ SaveLeg2(e) \/ DeleteSignal(e)

=============================================================================
