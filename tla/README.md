# A TLA+ model of PubSubDB

PubSubDB runs workflows ("jobs") on a quorum of engines and workers that share
nothing but Redis. No process owns a job. An engine takes an entry from the
engine stream, runs one *leg* of one *activity* against the job's hash, journals
what follows to the streams and acknowledges the entry. Four groups of modules
model it:

1. **Jobs**: what holds a job together is a 15-digit integer per activity (the
   collation *ledger*), one number per job (the *semaphore*) and the delivery
   rules of Redis streams.
2. **Hooks**: activities that sleep or wait for a signal, the lists and queues
   from which they are woken, and the statistics by which `hookAll` finds them.
3. **Releases**: how an app's versions are compiled, deployed under concurrent
   deployments, activated by a quorum, and how state is stored under the symbols
   a deployment has bound.
4. **Durable**: workflows written as functions, replayed from the beginning when
   their entry is claimed.

All are checked with TLC, and the safety properties that matter most are proved
with TLAPS for every value of the constants.

Paths below are relative to `src/services/` unless they start with `src/`.

## The system and what is modelled

| Part | State | Operations | Model |
|---|---|---|---|
| collator (`collator/index.ts`) | per activity, a 15-digit integer in the job hash | six increments (HINCRBYFLOAT), two checks, thread index | `Collator`, `CollatorCalls`, `CollatorInteger`: all |
| activities (`activities/*.ts`) | none of their own; the job hash | leg 1 `process`, leg 2 `processEvent`, `transition`; trigger; hooks | `Workflow`: trigger, plain activity, worker, await. `HookActivity`: an activity that sleeps or waits. `TaskQueues`: the statistics a trigger writes |
| engine (`engine/index.ts`) | job callbacks, cache mode | dispatch of stream entries, `pub`, `pubsub`, completion tasks, `hook`, `hookAll`, `getVID` | `Workflow`: dispatch, `pub`, completion; `Hooks`: hooks; `RollCall`: cache mode; `DurableCalls`: callbacks and timeouts |
| stream signaler (`signaler/stream.ts`) | a consumer group per stream | read, call, retry, respond, acknowledge, claim, dead-letter | `StreamSignaler`: all, callbacks that return nothing included |
| worker (`worker/index.ts`) | its topic's stream | runs the user's function through a signaler | `WorkerAnswer` in `Workflow`, `AnswerTwice` in `WorkflowFaults` |
| store, job hash (`store/index.ts`) | status and state of each job | status, state, `setStateNX`, `collate` | `Workflow`; fields and values in `Serializer` |
| task service and time hooks (`task/index.ts`) | a list of jobs per time slot, the sorted set of slots | register, pop, publish | `TimeHooks`: all |
| web hook signals (`signaler/store.ts`) | hash of signals | register, look up, delete | `HookActivity`: all |
| task queues | index lists, processed lists, the work item queue, an item each engine remembers, a loop per engine and 'work' message | `hookAll`, drain, remove, rename | `TaskQueues`: all |
| reporter (`reporter/index.ts`) | none; the counters and lists of the statistics | count, segments, facets, ids, work items | `Reporter`: all but the other metrics |
| compiler (`compiler/`) | manifest | derive paths, transitions, hook rules; deploy; activate | `Compiler`, `Deployment`; for `Workflow`, its result is a constant |
| symbols and cache (`store/cache.ts`) | ranges and symbols per target, value symbols, cached copies | reserve, seed, bind, read | `Symbols`, `Deployment` |
| serializer (`serializer/index.ts`) | none | stringify, parse, compress, decompress | `Serializer`: all |
| quorum (`quorum/index.ts`) | a counter per engine, the version announced | ping and pong, activate | `RollCall`: all but two calls of `activate` at a time on one engine |
| pub/sub (`sub/`) | subscriptions | publish, subscribe | what they deliver: `RollCall`, `DurableCalls` |
| durable (`durable/`) | engines and workers per topic, a counter per run | start, result, proxied activities, child workflows, replay | `DurableApps`, `DurableCalls`, `Durable` |
| mapper, pipe, telemetry, logger, connector, `emit`, `iterate` | none | data transformation, I/O, stubs | not modelled |

**How the parts meet.** A client calls `pub`, which runs the trigger inside its
own engine process: HSETNX on the job's `:` field claims the id, a transaction
saves the trigger's state, overwrites `:` with the number of children and presets
each child's ledger, and a second transaction adds one TRANSITION entry per child
to the engine stream. An engine that takes such an entry enters leg 1
(`notarizeEntry`: increment, then check the returned value). A plain activity
saves, adds (children - 1) to the semaphore and calls its children. A worker or
an await saves, which opens leg 2, and asks: the worker through its topic's
stream, the await through an AWAIT entry that starts another job. The answer
(RESPONSE, or RESULT when the other job ends) starts leg 2 (`notarizeReentry`),
whose save counts the activity out. The handler whose save brings the semaphore
to 0 and that has no child to call runs `runJobCompletionTasks`: it answers the
parent and tells subscribers. A handler that throws is answered with an error
RESPONSE to the same activity.

A sleeping activity is put in the list of its slot by the engine that runs leg 1,
and every quorum member polls the slots that are due; whichever pops a job
appends a TIMEHOOK entry. A web hook, or one of `hookAll`'s, is a WEBHOOK entry
whose job is found by its signal. Either entry is leg 2 of the activity. The
trigger's transaction also counts the job in the slice of its minute and appends
its id to an index list; `hookAll` asks the reporter for the lists that match a
query, queues them, and every engine drains that queue. A deployment writes
symbols, hook rules and the parts of a version with many round trips and names
the version last; an activation calls the roll, has everybody stop caching and
writes the version. Every execution asks which version to serve, on another
connection than the one announcements come by, and reads symbols from its store's
copy. A durable workflow is a job with one worker
activity, whose function makes each activity and child a job of its own.

**What is hard.** Handlers of several engines interleave between any two round
trips; increments and checks are atomic but saves follow them one or more round
trips later; entries are delivered again when a consumer is slow or gone; the
answer of a worker may be repeated; a stop between two round trips leaves the
first one done; registration and polling share two structures that nothing
updates together; copies of symbols and versions are of any age, and a read returns
after what it is compared with has changed; a message is
published before its subscriber has subscribed; a workflow is run again while
what it called goes on. `PROJECT.json` lists these hazards at their lines.

**What makes each part correct.** Collator: leg 1 is granted once, leg 2 never
before leg 1 was saved and never after it was closed, threads are distinct, and
the arithmetic on the integer means what its digits say. Jobs: the semaphore
counts the outstanding activities, each of which is in exactly one entry's or
handler's care, and a job is concluded once, when nothing is outstanding. Stream:
a request is kept until it is answered or a callback that was done with it returned
nothing, one or the other happens, and it is called at most as often as its limits
allow. Hooks: a job is taken from its list once, not before its slot,
and woken but for known losses; every id `hookAll` selected is hooked, and an
activity goes on once. Releases: targets do not share symbols, a path keeps its
symbol, what one engine stores another reads, a version that can be served is
complete, and an activation reaches every engine. Durable: a workflow is not
forgotten, and its result is its own and arrives.

## The modules

`Collator` has the ledger as five fields and the increments and checks as
operators on them. It has no state; everything else uses it.

`CollatorCalls` puts the operators under every order of calls the handlers can
make, redelivered entries included. `ledger` is the code's state; the other
variables record what calls returned (`entries`, `threads`, `grants`) and which
handlers are under way (`leg1`, `open`).

`CollatorInteger` is the same with the integer the code keeps: constants are
added to a number and digits are read back by their position in its decimal form,
sign and length included (`DigitBelow`). `Decoded` is the refinement mapping and
`ImplementsCalls` the statement that the integer implements the fields.
`CounterWidth` is 6 in the code; with it smaller, TLC's integers suffice and the
overflow is in reach.

`Workflow` has the job hashes (`claimed`, `saved`, `status`, `parent`, `ledger`),
the streams as counts of entries (`stream`, `work`) and one handler per process
(`proc`). Each Redis round trip, or transaction, is one action:

| Action | Code |
|---|---|
| `Publish`, `StartChild`, `RefuseChild` | `setStateNX` and `DuplicateJobError` in `Trigger.process` |
| `SaveTrigger` | the trigger's transaction |
| `Deliver` | one entry of xreadgroup, `processStreamMessage` up to the first write |
| `Enter` | `notarizeEntry` |
| `SaveActivity`, `SaveDuplex` | the leg 1 transactions of `Activity` and of `Worker`/`Await` |
| `ExecActivity` | `execActivity` |
| `WorkerAnswer` | the worker's consumer: user function, `publishResponse`, acknowledgement |
| `Reenter` | `getState` (its status is kept from `Deliver`), `notarizeReentry`, the worker's completeness check |
| `SaveAnswer` | the leg 2 transactions, `SavePending` or `SaveCompletion` |
| `CallChildren`, `ConcludeJob`, `EndBranch` | `transition` |
| `Fail`, `Ack` | `structureUnhandledError` and `publishResponse`; `ackAndDelete` |

`spawned`, `completed` and `notified` are written by the actions and read by no
guard: they say what was done, for the properties. Data is abstracted: a
transition rule may hold or not (`FilterAdjacent`) unless it is the literal
`true` (`Unconditional`); order within a stream is dropped, because several
engines that read batches process entries in any order anyway.

`JobPromise` is what a caller may rely on, without streams, ledgers or processes.
`ImplementsPromise` says that `Workflow` implements it, with `published <- saved`
and `concluded <-` the jobs that were notified.

`WorkflowFaults` adds what can go wrong around the handlers: `Crash` between any
two round trips (the entry stays pending), `Reclaim` of such an entry, and
`AnswerTwice`, a worker stopped between its answer and its acknowledgement.

`StreamSignaler` is one stream with its consumer group and the consume loop,
entry by entry: here batches, retries, delivery counts and dead letters are
explicit, which `Workflow` abstracts to `Deliver` and `Ack`. What a callback
returns is an outcome: a response, a failure that may be retried, an error that may
not, or nothing, which is how every callback of an engine ends that succeeds
(`StreamDataResponse|void`); then nothing is published and the entry goes. The
ghost `silent` has the requests that ended so. `Workflow` needs no such case: its
engine handlers publish what follows themselves, and the functions its workers run
are taken to answer; one that does not leaves its activity open.

**Hooks.** `HookActivity` is the activity, one per job, on the ledger of
`Collator`: leg 1 registers and saves, leg 2 is entered by entries of the
stream. `TimeHooks` puts sleepers' entries there, `TaskQueues` those of web
hooks; `Reporter` is what the queries compute, as operators on counters and
lists. `Hooks` composes them.

| Action | Code |
|---|---|
| `PushTimeHook`, `AddSlot` | the RPUSH and the ZADD of `registerTimeHook`; notarizeEntry is one step with the former |
| `SaveLeg1` | the transaction of leg 1, `registerWebHook` in it |
| `FindSlot`, `PopJob`, `DropSlot` | ZRANGEBYSCORE, LPOP and ZREM of `getNextTimeJob` |
| `FireTimeHook` | `hookTime` |
| `StopRegistration`, `StopPoller` | the engine stops, or a call of the poller's loop fails |
| `IgnoreHook`, `TakeHook`, `Reenter`, `SaveLeg2`, `DeleteSignal` | `processWebHookEvent` and `processTimeHookEvent`, round trip by round trip |
| `TriggerCounted` | the trigger with `setStats` |
| `HookAll` | `hookAll`, `getWorkItems`, `enqueueWorkItems` and the 'work' message |
| `BeginLoop` | the message is received: one more loop on the engine, whether or not one is running there |
| `GetQueue`, `MoveId`, `HookId`, `RemoveItem`, `RenameBack` | `processWebHooks`: `getActiveTaskQueue`, LMOVE, `hook`, ZREM, RENAME |

Ghosts: `wish`, `pops`, `dropped`, `refused`, `hooked`, `targets`, `created`, and
`late` in a delivery's record. The loops of one engine share the item it remembers
(`cached`). Time is in ticks for sleeps (a slot is 15
seconds, `Fidelity` ticks) and in minutes for statistics. `Reporter.Window` and
`TimeSeries` are what the code computes. What a query asks for is stated apart from
them, after the documentation: `Asked` is the window (`range` pinned by `start` or
`end`, or `start` to `end`) and `TriggeredIn` the jobs triggered in the UTC slices it
overlaps. `StatsAgree` compares the two for queries with one of start and end, on
clocks that are whole hours off UTC. For a query with both, and on other clocks, the
code does not count what is asked for: see "What the code does otherwise than said".

**Releases.** `Compiler` is a function of the manifest. `Symbols` has the
binding of paths to symbols, one round trip per action; `Deployment` the rest of a
deployment up to `setApp`; `RollCall` (the quorum) the activation and `getVID`;
`Serializer` the conversions, as operators on tagged values. `Release` composes
them with `Execute`, a job's reads and writes of state.

| Action | Code |
|---|---|
| `Reserve`, `MoveCursor`, `SetRange`, `Seed` | `reserveSymbolRange` of a target that had no range, `seedSymbols` |
| `ReadRange`, `ReadSymbols` | `reserveSymbolRange` of one that had |
| `BindSymbols` | `bindSymbols` and `addSymbols` |
| `ReadValues`, `AddValues` | `getSymbolValues`, `filterSymVals` and `addSymbolValues` |
| `SaveHookRules`, `SavePart`, `SetApp` | `setHookRules`; schemas, subscriptions, transitions, consumer groups; `setApp` |
| `RequestQuorum`, `Announce`, `Confirm`, `ActivateAppVersion` | `activate` |
| `Receive` | `subscriptionHandler` |
| `AskVersion`, `AskAgain` | `getSchema` and `getVID` send a read of the app (the store's first one, or `refresh`) |
| `ServeRefreshed`, `ServeFirst`, `ServeCopy` (`GetVID`) | the reply is there, or nothing had to be read: `getVID` compares it with `untilVersion`, caches and returns |
| `Execute` | `GetVID`, with the `setState` and `getState` of the job |

`asked` has an engine's reads under way, in order. What a reply is compared with is
`cacheMode` and `until` when it is there, not when it was asked for. The engine and
its quorum service each have a store, with a cache of its own; the store of the model
is the engine's.

Ghosts: `raced` (targets two deployments were at together, or one left half
made), `unsettled` and `settledBy` (which activations overlapped), `old` in a read
that an announcement overtook and `misled` (engines that resumed caching on such a
read). The properties use them to say exactly which schedules break a promise.

**Durable.** `DurableApps` is the deployment on first use, `DurableCalls` the jobs
and the calls that wait for them, `Durable` the workers, their runs and the
client. A call is known by its workflow and its index, as in the code. Ghosts:
`lost`, `missed`, `threw`.

`MCWorkflow`, `MCWorkflowFaults`, `MCHooks`, `MCRelease` and `MCDurable` give the
graphs, queries, manifests and scripts. The modules whose names end in `_proofs`
hold the theorems. Definitions whose comment starts with "Variant" or that are
marked `\* variant` (`CountOutShort`, `AddsNoSlot`, ...) are plausible mistakes in
the definition they precede. No specification uses them; putting one in place of
its original makes the property it is listed with in `PROJECT.json` fail, so each
property is known to depend on the code.

## The runs

| Run | Bounds | Shows |
|---|---|---|
| `collator_integer` | counters of 2 digits, 5 deliveries, 7 leg 2 entries | the integer implements the fields; leg 1 once, no answer before the exit, distinct threads, a closed leg 2 stays closed |
| `collator_overflow` | counters of 1 digit, 10 entries | **violated**: a full counter reopens leg 2 |
| `workflow` | 2 engines, 1 client, 2 jobs, 4 activities | semaphore, custody, conclusion, refinement of `JobPromise`, every job concludes |
| `workflow_faults` | 1 engine, 1 client, 2 stops or repeated answers, 2 leg 2 entries per activity | what was saved stays consistent: semaphore, ledger digits, one conclusion, no second preset |
| `crash_recovery` | 1 plain activity, 1 stop | **violated**: an activity entered but not saved is never run again |
| `duplicate_answer` | 2 engines, 3 workers, 1 repeated answer | **violated**: both answers are accepted and the job concludes early |
| `late_pending` | 2 engines, 3 workers, no fault | **violated**: a late pending answer resets a running child's ledger |
| `stream_signaler` | 2 consumers, 1 request, retry limit 0 (one retry), reclaim count 1, 1 claim of a live entry, 2 lost batches | a request is kept until answered or silently done with, repeats come from claims only, calls are bounded, every request ends so |
| `hooks` | 2 engines, each with a poller and, per 'work' message, a drain loop, clocks an hour off UTC, 2 jobs, 3 ticks, slots of 2, sleeps of 1 or 2, 1 stop, 1 `hookAll`, 3 queries | no early or double hook, statistics and index lists that agree, a late hook is refused, sleepers wake but for three known losses, every selected id is hooked |
| `release` | 2 engines, 2 versions of a graph, ranges of 6 with 2 slots, roll calls of 2, 1 read under way per engine, 1 stop; 2 deployments of an undeployed app; of a deployed one, a deployment and an activation, 2 activations, or 1 by engines just started | disjoint ranges, distinct symbols, copies that only lag, complete versions, state that reads back, topics that resolve, an activation that overlapped no other reaches every engine that was not misled |
| `durable` | 2 starts of one workflow, which calls an activity and a child that calls one too; 2 workers, 1 claim before the limit, 1 mishap | wrong responses and stray waits need a replay, no workflow is forgotten, workflows settle, results arrive |
| `stream_retries` | 1 consumer, a policy of 3 | **violated**: it retries 4 times |

Why the bounds suffice. The collator's checks look at digits only, and 5
deliveries of a leg 1 entry and 7 of a leg 2 entry take the first three digits
through every outcome of the checks; on a ledger that expired the digits shift
beyond these (see "What the code does otherwise"). The graph of `workflow` (after
`src/tests/functional/awaiter` and `parallel`) has what the handlers treat
differently: parallel branches, a conditional child, a child job, an id that two
callers compute, each kind of activity. Two engines and a client give each
pair of handlers the chance to interleave; nothing in the code relates three.
`workflow_faults` has one engine on purpose: with two, one repeated answer is
enough to break `ConcludedOnce`, which is what `duplicate_answer` shows. With one,
every order of stops, redeliveries and answers remains. `MaxFaults` stays below
the reclaim count of 3; dead letters are in `StreamSignaler`. `MaxThreads` cuts the
endless exchange of error responses that every refused entry starts.
In `stream_signaler` limits of 0 and 1 put each counter at, and one beyond, its
boundary.

In `hooks`, two jobs are what it takes for one to be listed while the other's slot
is dropped, and two engines for one to drain what another renames. `kind` makes
the jobs of a behaviour all sleep or all wait: the two share nothing but leg 2. The
minutes 3 and 5 lie on both sides of a slice boundary, the queries begin inside a
slice, end in one, and give both ends. `MaxHookAlls` is 1 because two calls on one
list can leave nothing to rename, which ends a loop with an error (see below), and
an id that is triggered and selected between the last LMOVE and the ZREM is never
hooked. With one, an engine has one loop; `StatisticsAgree` is proved for any number
of calls, and so of loops on an engine. `Zone` is 60: local time is not UTC, and the
minutes of an hour are the same in both.
In `release`, the second version reads one path more (so a range grows), makes its
graph private and brings a value of its own; the ranges have room for it and one
path more. In a roll call of two rounds one count is compared (the code has four, and
the last is never read); that a round passed is no premise of a property, and the
theorem holds for any number of rounds. One read under way (`MaxReads`) is enough for
an announcement to overtake it; the theorem holds for any number. A budget
(`Budgets`) is a number of deployments, of activations, and of engines that
have run jobs before; those that have not may have read the app when they started, or
were started before it was deployed. Budgets are separate because the product of two
deployments with two activations is too large. In
`durable`, one claim before the limit gives a first run, a replay, and the failure
of a job at its limit (3 in the code); one mishap is an activity that throws, a
call given up, or a worker that stops.

Deadlock is not checked where a state without successor is legitimate:
all jobs done, bounds used up, streams empty.

Fairness. `workflow` assumes weak fairness of each engine (its consume loop
reschedules itself with `setImmediate` or, after an error, `setTimeout`), of a
client's `pub` once begun, and of each worker's function. It assumes no fairness
among entries. `crash_recovery` assumes the same of restarted engines, and that
they claim; stops are never required. `stream_signaler` also assumes strong
fairness of reading and claiming: each turn of the loop reads before it looks for
old entries, and an entry nobody handles only grows older.

## What the violated runs mean

Each is a disagreement between the code and its documentation or tests, quoted
under `findings` in `PROJECT.json`. `collator_overflow`: one million leg 2
entries, refused ones included, carry into the digit that closes leg 2; the
unending error responses make that number reachable. `crash_recovery`: the
documented recovery of an activity entered but not left does not exist.
`duplicate_answer`: leg 2's check and its save are two round trips, and nothing
refuses the second entry between them. `late_pending`: `processPending` presets
ledgers of children it does not call. `stream_retries`: `>=` where the count
starts at 0.

## What is proved

For every value of the constants, with the TLA+ proof system:

- `Collator_proofs`: lemmas on the operators; what a granted entry says of the
  ledger before it, and by how much each call changes each field.
- `CollatorCalls_proofs`: `LegOneRunsOnce`, `AnswersFollowExit` and
  `ThreadsAreDistinct`, for any number of deliveries and entries. None of the
  three is inductive. The invariant relates the digits to what happened: digit 1
  is its start less the number of deliveries, digit 2 is lowered exactly when leg
  1 was left, the entry counter is the number of leg 2 entries so far, and every
  thread granted is below it. `ClosedIsFinal`: no answer is granted once the third
  digit closed leg 2.
- `CollatorInteger_proofs`: the one integer implements the five fields at every
  width of the counters up to the code's six digits (`WidthAssumption`).
  `IntegerImplementsCalls` is the refinement, for up to 8 deliveries, as many
  leg 2 entries as a counter holds less one, and at most 9 answers under way at any
  time (`NineAtOnce`), on a ledger that was preset; on one that expired, up to 8
  entries (`PresetOrShort`). The bounds are where the statement stops being true: see
  the next section. `IntegerImplementsFewCalls` needs neither hypothesis, for up to
  8 of each. With it, and `CollatorCalls_proofs` by INSTANCE, what the fields promise
  holds of the integer: `IntegerEntryOnce`, `IntegerAnswersFollowExit`,
  `IntegerThreadsDistinct`, `IntegerClosedIsFinal`. The powers of ten are a
  recursive function, `tens`, which the proof unfolds into a table of 16; adding a
  unit adds 1 to one group of digits as long as the group does not overflow, and
  the decimal string has 15 characters while the first digit is not 0. `FieldInv`
  says why none overflows: the entry counter is ahead of the exit counter by at least
  what is under way, and once leg 2 is closed its digit is at least that, too.
- `Workflow_proofs`: `TypeCorrect`, type correctness of `Workflow`, for every
  graph, any set of engines and clients and any set of job ids, from
  `GraphAssumption` (what the compiler makes of a graph) and `SortsAssumption`
  (names of different sorts differ). The invariant adds to `TypeOK` what a
  handler's label implies about the entry it holds, without which `Dispatch` and
  the saves could not be typed.
  In the same module, `SemaphoreCorrect`, `CustodyIsExclusive`, `CustodyIsKept`
  and `ConcludedAtMostOnce`, the safety invariants of `Workflow`, and
  `PromiseKept`, its refinement of `JobPromise`. They also need `TreeAssumption`
  (one parent per activity, in its own job, and finitely many activities) and the
  hypothesis `"pending" \notin Answers`. `late_pending` shows what an answer of
  "pending" can do on two engines, and `duplicate_answer` why each entry has to
  be delivered once there. Last, the safety of `WorkflowFaults` on one engine:
  `LegsCloseAtMostOnce`, `SemaphoreSurvivesStops`, `ConcludedOnceDespiteStops` and
  `NeverReseeded`, for any graph, any clients and answers ("pending" too) and any
  number of stops, reclaimed entries and repeated answers. Their hypothesis
  `OneEngine` is needed: the two runs just named break it.

The inductive invariant of the theorems on `Workflow` is `Safe`, the conjunction of

- `Custody`: an outstanding activity is in exactly one place, any other in none,
  and no entry or request waits twice. `CustodyExclusive` and `CustodyKept`
  follow, but are not inductive without the rest.
- `Books`: a child was called only by a parent that was saved, in a job that
  was. Hence the children a save calls were in nobody's care before.
- `Handlers`: what a label implies. A seeding process is alone with its job; a
  process about to conclude has nothing outstanding in its job and is alone with
  it.
- `Counts`: `SemaphoreCounts` and `ConcludedOnce`. The save that brings the
  semaphore to 0 removes the last outstanding activity, so no other handler of
  that job can be about to conclude.
- `Finals`: a leg 2 handler of a worker read a positive status (its activity was
  outstanding), so it is never turned away as late, and no answer is "pending".

This argument never mentions the ledger: with entries delivered once, the checks
of the collator are not what keeps these invariants. With stops and repeated
answers it is the other way round. `Custody` is lost (an entry may wait any number
of times), and `FaultSafe` puts the ledger in its place, on top of the same
`Books`, `Handlers` and `Counts`:

- `Ledgers`: the ledger of an activity that was not called is absent or just
  preset; that of one that was has its second and third digit at 8 or 9, and the
  third at 8 exactly when the activity completed.
- `Known`: every entry, request and handler is about an activity that was called.
- `Granted`: between a granted check and its save the digits the check read do
  not change. This is where one engine is needed; clients preset only ledgers of
  activities that were not called.

So a save that counts an activity out found the third digit at 9, hence the
activity was outstanding, hence its children were not called and presetting them
undoes nothing. TLC confirms `FaultSafe` on the graph of `workflow_faults`, and
refutes it with a second engine.

- `StreamSignaler_proofs`: `StreamTypes`, `RequestsKept`, `RepeatsAreOnlyClaims`
  and `CallsAreBounded`, for any finite set of consumers, any limits, any number
  of requests, lost batches and claims. The first adds to the types that no batch
  holds an entry twice. The other three rest on counting: the answers of a
  request and those still to be given (to entries no consumer has seen, and by
  consumers that have one in hand) are at most one more than its claims; the
  calls of an entry and those still to be made are at most its deliveries, and at
  most one more than the reclaim count. `IInv` adds that an entry that can still
  be answered, or a response on its way, is there for each request that has neither an
  answer nor a callback that returned nothing (`RequestsKept`).
- `Hooks_proofs`: `HooksAreNotEarly`, `JobsAreTakenOnce` and
  `LateHooksAreRefused`, for any engines, jobs, durations, queries and number of
  stops, from `ClockAssumption`. `TimeInv` says that a job stands in the list of
  its own slot, once, until it is taken, and that a poller works on a slot that is
  due; `LegInv` that the third digit is 9 only until leg 2 was first saved, and that
  a delivery which began after that finds it below 9. `IndexIsKept`, from
  `ListsAssumption` (finitely many lists): `IndexKept`, as long as `hookAll` was
  called at most once. A second call may queue an id that was triggered
  meanwhile and that RENAME then loses (TLC finds it with `MaxHookAlls` at 2), so
  the theorem says so. `IndexInv`: a list and its processed list hold what was
  triggered with their facet and slice, once; a loop that found a list empty, and
  is or may become the one that renames, has every queued id in the processed list.
  `StatisticsAgree`: `StatsAgree`, for any number of calls of `hookAll`, any queries
  and minutes (`TimesAssumption`), any granularity that divides the hour, and clocks
  that are whole hours off UTC (`Zone % 60 = 0`, without which it is false):
  `CountedInUTC` shows that a job is then counted in the slice of its own minute, and
  `WindowAsked` that the code looks where one of start and end says. `StatsInv` says
  that a slice's counter is the number of jobs triggered in
  it, a facet's the number of those with the facet. What the reporter adds up is a
  fold, the value of a recursion on finite sets; `TotalIs` shows that it has a
  solution, and `TotalCounts` that a sum over slices is the number of jobs in any of
  them. `SlicesOverlap` is the arithmetic of the rounding: the slices the
  reporter enumerates are those that overlap the query. A facet's counter is not
  the slice's (`FacetsAssumption`).
- `Release_proofs`: `TargetsShareNoSymbols` and `DeployedIsComplete`, for any
  manifest that meets `ManifestAssumption`, any number of engines, deployments,
  activations and stops. For the first, `RangeInv`: every range that is set, or
  about to be set by an engine that moved the cursor, is a block of its own below
  the cursor. For the second, `CompleteInv`: each deployment under way is *on
  course* (the targets it does not list any more have all their symbols, what it
  knows of the present target is part of what is stored, hook rules and parts
  before its present step are saved), and nothing that is stored is taken away,
  whoever overwrites it. The theorem holds on raced targets too: symbols may
  be wrong there, but there is one for each path. `ActivationsReachAll`: an
  engine caches another version than the stored one only while an announcement is in
  its inbox, unless activations overlapped, somebody deployed since, or it is misled.
  `QuorumInv` speaks of the reads under way, too: one that no announcement has
  overtaken either is not the version the engine waits for, or is what the app is.
  `OnlyOldCopiesRenumber`, an action property: values are numbered without a gap,
  so what is added to an up-to-date copy comes after all it holds.
- The same module: `SymbolsStayDistinct` and `CopiesNeverContradict`, from
  `ManifestAssumption` (which includes that there are finitely many paths) and
  `NumberingAssumption` (versions are numbered as they come in the manifest).
  On a target that never raced one deployment at a time is between reading
  symbols and binding more, and the symbols lie below the range's start, its slots
  and their own number together. The bound is not reached: a deployment that finds
  symbols counts the metadata's twice, which leaves a gap and no collision.
  `StoredIsReadBack`
  combines these with the conversions of `Serializer`, for values of the types it
  knows (`SamplesAssumption`). `HookedTopicsAreFound`: `TopicsResolve`, for any app
  whose graphs are rooted (`Rooted`: the trigger leads to every activity of its
  graph, perhaps along several ways, and back to none; a hook leads to no trigger;
  a private graph's topic is not the name of an activity, or its key would be that
  of the activity's transitions). The validator checks none of this but the ids; the
  deployer counts on it ("DAGs have one parent", `compiler/deployer.ts:157`), and
  the graphs of the tests are rooted. The climb is a recursive function; that it has
  one value, the root, is shown by a minimal counterexample in the distance from the
  trigger.
- `Durable_proofs`: `NothingForgotten`, for any workflows, callers and mishaps.
  The invariant follows an answer from the run to the job: a job is created by
  one call, an acknowledged or spent entry means that the job is over, an answer is
  there, or a run threw, and a pending answer that a run threw. Also
  `ReplaysAloneStray`: on top of that (`StrayInv`), until an entry is delivered again
  one run has it, and the jobs of its activities exist only up to the call this run
  has come to; so it looks up none that is open or over.

Induction over the naturals is available where it is needed: `WFMin` of the
library's `WellFoundedInduction` speaks of a set, not of an operator, so that a set of
counterexamples that is not empty has a smallest one (`SmallestNumber` in
`Hooks_proofs`, `LeastNumber` in `Release_proofs`).

Model-checked only:

- everything temporal under fairness (`JobsConclude`, `RequestsConclude`,
  `SleepersWake`, `TargetsHooked`, `Settles`, `ResultArrives`), which is out of the
  prover's reach;
- the five violated runs, each of which refutes one statement on one instance;
- where a theorem has a hypothesis, what happens beyond it: several engines with
  stops (`crash_recovery`), answers of "pending" (`late_pending`), a second
  `hookAll` on one list, more calls than a digit can count.

Every invariant and every action property of a passing run is stated by a theorem.

## What the code does otherwise than said, without a run of its own

Met while modelling; each is in a model's guard or exception, not a separate run.

- Sleeps fire up to one slot (15 s) early, since slots are rounded down; a hook
  published before leg 1 was saved is refused and lost; a job pushed to a list just
  found empty stays there until its slot is added again (`Stranded`). A poller's
  loop ends for good after any error.
- Several engines that remember one work item drain the ids twice (jobs are
  hooked twice; the ledger refuses late ones). RENAME loses the id of a job
  triggered after the last LMOVE, so index lists may be shorter than counts. Two
  `hookAll` calls on one list can leave nothing to rename.
- The ledger of a job that expired counts from 0, and the number is read by its
  first digits, wherever they come to stand: the 109th leg 2 entry of such an
  activity makes it 109000000, whose digits 1, 0 and 9 read as a leg 1 that was left
  and a leg 2 that is open, and is granted. (The endless exchange of error responses
  gets there.) From the 9th on it is refused for another reason than the fields would
  give, as is the 9th delivery of a leg 1 entry, when the first digit is 0 and so not
  printed. `collator_integer` stays below these bounds.
- `compiler/index.ts:54` says that deploying does not activate a version, but
  `setApp` writes it as the app's version at once. The validator is not awaited.
- The store's cache is never invalidated (`store/cache.ts:3`), so symbols, value
  symbols and hook rules may be old copies; a value symbol can be given a second
  meaning (the exception in `ValuesKept`). "path assignments are immutable"
  (`compiler/deployer.ts:50`) fails for two deployments at one target at once, and
  a deployer that stops between HSETNX and its range leaves `?:?`, from which every
  later deployment counts NaN. One that stops between its range and the metadata's
  symbols leaves these out for good: `VersionsComplete` claims the paths that
  activities map or read, not the metadata's.
- Hook rules are one hash for all versions. `getSubscriptionTopic` finds no topic in
  a private graph. A string like `/t` or `/d7`, or one that is a symbol of the
  target, is changed when read back.
- `reporter/index.ts:50` and `developer_guide.md:405` ask for `start` and `end`, or
  one of them and a `range`. Given both, the code takes a range of 0 after `start`
  (`reporter/index.ts:57`, `:76`) and counts the one slice `start` is in: jobs
  triggered later, but before `end`, are not counted. `StatsAgree` does not claim
  such queries (`PinnedByOne`).
- `getTimeSeries` (`modules/utils.ts:96`) rounds the minutes of the local clock and
  sets them in a UTC time; the reporter rounds minutes of UTC. On a clock half an
  hour off UTC, with slices of 15 minutes, a job of 10:05 is counted in the slice of
  10:30. `StatisticsAgree` assumes whole hours.
- `system_lifecycle.md:93` has "all engines ... running the same version of the app".
  `getVID` awaits the app and then compares the reply with `untilVersion`, which a
  message may have set in between. A read that saw version 2 is under way while the
  app goes to 1; an activation of 2 announces itself (and gives up, or is not written
  yet); the reply equals what was announced, and the engine leaves 'nocache' with a
  version the app is not on. It serves it until something else is announced.
  `misled` has these engines, and `ActivationReachesAll` excepts them.
- Two activations that overlap leave engines serving different versions; the
  roll call's last count is never read. An activation that gives up after its
  announcement leaves engines in 'nocache'.
- Durable: a replayed workflow takes an open activity's response as undefined and
  waits for ever for a finished one (`durable/workflow.ts:106`), and its worker's loop
  with it. A run that throws leaves its job open. A failed job's `result()`
  resolves with what it has. Ids of children are concatenated without a
  separator. A second `start` does not wait for the first one's deployment.

## What is not modelled

Data: mapping rules and pipes (a rule is the pair of what it reads), job data
other than what `Serializer` tells apart, metrics other than count and index.
Telemetry, logging, throttling and back-off times, which only delay. Dimensional
addresses beyond the thread index. Expiry of the job hash (only its effect on a
ledger, `Absent`) and scrubbing. Corrupt entries; worker functions that return
nothing in `Workflow` (in `StreamSignaler` they do); two calls of `activate` at a time
on one engine, which share its counter of pongs; the two `getVID` calls of one
`getSchema`, which are two executions here. Streams that lose what was
journaled before their group existed; streams by topic, in which the retry of an
AWAIT entry gets lost. The engine's copies of schemas and subscriptions, which are
of versions that do not change.

In `Workflow` the graph is a constant (`GraphAssumption`, `TreeAssumption`): an
activity with two incoming transitions is deployed without complaint
(`bindParents` keeps the last parent) but is not a graph the engine supports.
`bindParents`, `bindCycleTarget` and the copying of metadata into activities are
compile time and left out. `Workflow` has no hooks and `HookActivity` no semaphore:
a hooked activity's leg 2 saves as any other's. The registry of durable
activities is filled before anything runs. `emit` and `iterate` are stubs in the source;
connections, stream and pub/sub clients are wrappers of Redis commands.

## What is left

1. Hooked activities in `Workflow`, with their semaphore; streams by topic.
2. Proofs of what a second `hookAll` on one list keeps, and of the refinement by an
   integer whose counter overflows (`collator_overflow` shows what is lost).
