----------------------------- MODULE TaskQueues -----------------------------
(***************************************************************************)
(* Triggers count and index their jobs; hookAll puts the index lists a     *)
(* query selects into the work item queue; every engine drains that queue, *)
(* a job id at a time, into one web hook per id.                           *)
(*                                                                         *)
(* Each call of hookAll starts one more loop on every engine, and the      *)
(* loops of an engine share the item it remembers.  A loop that finds the  *)
(* list empty takes the item off the queue and renames the list of         *)
(* processed ids back; another that still remembers the item drains the    *)
(* same ids again.  So a job may be hooked more than once, and the ids may *)
(* be left in the processed list; what must hold is that none is missed or *)
(* forgotten.                                                              *)
(***************************************************************************)
EXTENDS HookActivity, SequencesExt, Reporter

CONSTANTS
    Facets,       \* values jobs are indexed by
    Minutes,      \* when jobs are triggered
    Queries,      \* start, end and range of getStats, getIds and hookAll
    MaxHookAlls   \* bound on calls of hookAll

VARIABLES
    created,    \* per job, the minute and facet it was triggered with
    counts,     \* the general statistics: per slice, "count" and each facet
    index,      \* per facet and slice, the ids still to be processed
    processed,  \* the same, already processed
    queue,      \* the work items: index lists, in the order of their score
    cached,     \* the item each engine remembers
    loop,       \* where each processWebHooks is, its item and its job
    hooked,     \* jobs whose web hook hookAll published
    targets,    \* jobs that stood in a list when hookAll queued it
    hookAlls

statsVars == <<created, counts, index>>
drainVars == <<processed, queue, cached, loop, hooked>>
queueVars == <<statsVars, drainVars, targets, hookAlls>>

NoItem == <<>>
Slices == {TimeSeries(m) : m \in Minutes}
Lists == Facets \X Slices

ASSUME ListsAssumption == IsFiniteSet(Lists)

\* A facet's counter is `count:<path>:<value>` (resolveTarget).
ASSUME FacetsAssumption == "count" \notin Facets

ASSUME TimesAssumption ==
    /\ Minutes \subseteq Nat
    /\ Queries \subseteq [{"start", "end", "range"} -> Nat \cup {NoTime}]

\* The loop an engine's n-th 'work' message starts.
Loops == Engines \X (1..MaxHookAlls)

NotYet == [minute |-> -1, facet |-> ""]
AtRest == [step |-> "rest", item |-> NoItem, job |-> ""]

TaskInit ==
    /\ created = [j \in Jobs |-> NotYet]
    /\ counts = [t \in Slices |-> [f \in Facets \cup {"count"} |-> 0]]
    /\ index = [k \in Lists |-> <<>>]
    /\ processed = [k \in Lists |-> <<>>]
    /\ queue = <<>>
    /\ cached = [e \in Engines |-> NoItem]
    /\ loop = [l \in Loops |-> AtRest]
    /\ hooked = {}
    /\ targets = {}
    /\ hookAlls = 0

Ids(list) == ToSet(list)

-----------------------------------------------------------------------------
(* The trigger, one transaction.  Jobs of a graph without measures are      *)
(* neither counted nor indexed; here these are the graphs that sleep.      *)

Call(j) ==
    /\ leg1[j] = "none"
    /\ leg1' = [leg1 EXCEPT ![j] = "called"]
    /\ ledger' = [ledger EXCEPT ![j] = Seed]
    /\ UNCHANGED <<drainVars, targets, hookAlls>>
    /\ UNCHANGED <<kind, signals, entries, legTwoVars>>

Trigger(j) == kind = "sleep" /\ Call(j) /\ UNCHANGED statsVars

\* setStats
SetStats(j, t, f) ==
    /\ counts' = [counts EXCEPT ![t]["count"] = @ + 1, ![t][f] = @ + 1]
    /\ index' = [index EXCEPT ![<<f, t>>] = Append(@, j)]

\* A measure of the graph counts its jobs by a facet, another indexes them.
TriggerCounted(j, m, f) ==
    /\ kind = "signal" /\ Call(j)
    /\ created' = [created EXCEPT ![j] = [minute |-> m, facet |-> f]]
    /\ SetStats(j, TimeSeries(m), f)

-----------------------------------------------------------------------------
(* hookAll and enqueueWorkItems; the 'work' message starts a loop on every *)
(* engine, whether one is running there or not.                            *)

\* addTaskQueues: ZADD NX, so an item that is queued keeps its place.
AddTaskQueues(items) == queue' = queue \o SetToSeq(items \ Ids(queue))

WakeLoops ==
    loop' = [l \in Loops |-> IF l[2] = hookAlls + 1 THEN [AtRest EXCEPT !.step = "woken"] ELSE loop[l]]

HookAll(q, facets) ==
    LET items == WorkItems(index, FacetsOf(counts, Facets, facets, q), q)
    IN  /\ kind = "signal"   \* getHookRule: the topic leads to an activity
        /\ hookAlls < MaxHookAlls
        /\ ValidOptions(q)
        /\ items # {}
        /\ hookAlls' = hookAlls + 1
        /\ AddTaskQueues(items) /\ WakeLoops
        /\ targets' = targets \cup UNION {Ids(index[k]) : k \in items}
        /\ UNCHANGED <<statsVars, processed, cached, hooked, hookActivityVars>>

-----------------------------------------------------------------------------
(* processWebHooks: one round trip per action.                             *)

Goto(l, s, k, j) == loop' = [loop EXCEPT ![l] = [step |-> s, item |-> k, job |-> j]]

\* getActiveTaskQueue: an item its engine remembers is not asked for again.  The
\* next iteration looks for one in the step that ends the one before.
Iterate(l) ==
    LET k == cached[l[1]] IN Goto(l, IF k = NoItem THEN "get" ELSE "move", k, "")

\* The message is received.
BeginLoop(l) ==
    /\ loop[l].step = "woken" /\ Iterate(l)
    /\ UNCHANGED <<statsVars, processed, queue, cached, hooked, targets, hookAlls>>
    /\ UNCHANGED hookActivityVars

\* getActiveTaskQueue, ZRANGE.
GetQueue(l) ==
    /\ loop[l].step = "get"
    /\ IF queue = <<>> THEN UNCHANGED cached /\ Goto(l, "rest", NoItem, "")
       ELSE /\ cached' = [cached EXCEPT ![l[1]] = Head(queue)]
            /\ Goto(l, "move", Head(queue), "")
    /\ UNCHANGED <<statsVars, processed, queue, hooked, targets, hookAlls>>
    /\ UNCHANGED hookActivityVars

CopiedFrom(list) == list   \* variant: the id stays in the source as well

MovedFrom(list) == Tail(list)

\* LMOVE source processed LEFT RIGHT
MoveId(l) ==
    LET k == loop[l].item IN
    /\ loop[l].step = "move"
    /\ IF index[k] = <<>>
       THEN Goto(l, "remove", k, "") /\ UNCHANGED <<index, processed>>
       ELSE /\ index' = [index EXCEPT ![k] = MovedFrom(@)]
            /\ processed' = [processed EXCEPT ![k] = Append(@, Head(index[k]))]
            /\ Goto(l, "hook", k, Head(index[k]))
    /\ UNCHANGED <<created, counts, queue, cached, hooked, targets, hookAlls>>
    /\ UNCHANGED hookActivityVars

StopAtOne(l) == Goto(l, "remove", loop[l].item, "")   \* variant: one id per item

GoOn(l) == Iterate(l)

\* hook: a WEBHOOK entry for the id; then the next id.
HookId(l) ==
    /\ loop[l].step = "hook"
    /\ Publish(loop[l].job)
    /\ hooked' = hooked \cup {loop[l].job}
    /\ GoOn(l)
    /\ UNCHANGED <<statsVars, processed, queue, cached, targets, hookAlls>>
    /\ UNCHANGED <<kind, legVars, legTwoVars>>

\* deleteProcessedTaskQueue, ZREM: only one loop removes the item.
RemoveItem(l) ==
    LET k == loop[l].item IN
    /\ loop[l].step = "remove"
    /\ queue' = RemoveFirst(queue, k)
    /\ IF k \in Ids(queue)
       THEN Goto(l, "rename", k, "") /\ UNCHANGED cached
       ELSE Goto(l, "get", NoItem, "") /\ cached' = [cached EXCEPT ![l[1]] = NoItem]
    /\ UNCHANGED <<statsVars, processed, hooked, targets, hookAlls, hookActivityVars>>

\* deleteProcessedTaskQueue, RENAME: replaces whatever the source holds.  There
\* is nothing to rename, and the loop ends with an error, if two calls of
\* hookAll drain one list (MaxHookAlls > 1).
RenameBack(l) ==
    LET k == loop[l].item IN
    /\ loop[l].step = "rename"
    /\ IF processed[k] = <<>>
       THEN Goto(l, "rest", NoItem, "") /\ UNCHANGED <<index, processed, cached>>
       ELSE /\ index' = [index EXCEPT ![k] = processed[k]]
            /\ processed' = [processed EXCEPT ![k] = <<>>]
            /\ cached' = [cached EXCEPT ![l[1]] = NoItem]
            /\ Goto(l, "get", NoItem, "")
    /\ UNCHANGED <<created, counts, queue, hooked, targets, hookAlls>>
    /\ UNCHANGED hookActivityVars

LoopStep(l) ==
    BeginLoop(l) \/ GetQueue(l) \/ MoveId(l) \/ HookId(l) \/ RemoveItem(l) \/ RenameBack(l)

-----------------------------------------------------------------------------
(* Properties of statistics and task queues, checked in Hooks.             *)

\* What a query asks for, by the documentation: "Include `start` and `end` values
\* or use a `range` and pin the direction using `start` or `end`".
Asked(q) ==
    LET range == IF q.range = NoTime THEN 0 ELSE q.range
    IN  <<IF q.start # NoTime THEN q.start ELSE q.end - range,
          IF q.end # NoTime THEN q.end ELSE q.start + range>>

PinnedByOne(q) == (q.start = NoTime) # (q.end = NoTime)

\* The jobs that were triggered in the slices, of the UTC clock, which w overlaps.
TriggeredIn(w) ==
    {j \in Jobs : LET m == created[j].minute
                      t == m - (m % Granularity)
                  IN  created[j] # NotYet /\ t <= w[2] /\ t + Granularity > w[1]}

\* The statistics of a query agree: its count is what its segments add up to, and
\* it lists no more ids of a facet than it counts.  If a range is pinned by start
\* or by end, the count is the number of jobs triggered in the slices of the range,
\* however it falls into them.  Of a query with both, which the documentation
\* allows, this is false: the code ignores the end; and so it is if the clocks are
\* not whole hours off UTC.  (A facet may list fewer ids: they are missing while a
\* list is drained, and RENAME loses the id of a job triggered after the drain's
\* last LMOVE.)
StatsAgree ==
    \A q \in {x \in Queries : ValidOptions(x)} :
        LET count == Aggregate(counts, "count", q)
            parts == Segments(counts, q)
        IN  /\ PinnedByOne(q) => count = Cardinality(TriggeredIn(Asked(q)))
            /\ count = MapThenSumSet(LAMBDA t : parts[t], DOMAIN parts)
            /\ \A f \in Facets : CountOfFacet(index, f, q) <= Aggregate(counts, f, q)

\* While several engines drain a list and triggers append to it, an id is never
\* in it twice, processed or not; an id that stood in the list when hookAll
\* queued it is never forgotten, though RENAME replaces the list.
IndexKept ==
    \A k \in Lists :
        LET list == index[k] \o processed[k] IN
        /\ IsInjective(list)
        /\ \A j \in targets :
              (created[j].facet = k[1] /\ TimeSeries(created[j].minute) = k[2])
                  => j \in Ids(list)

\* Every job hookAll selected gets its web hook, whichever engines drain.
TargetsHooked == <>[](targets \subseteq hooked)
=============================================================================
