------------------------------- MODULE Symbols ------------------------------
(***************************************************************************)
(* Deployments, as far as symbols go.  A job's hash stores a path under a  *)
(* symbol; each target has a range of symbols, reserved once, in which     *)
(* each deployment binds the paths that are new.  Any engine may deploy.   *)
(* Each action is one round trip: two deployments may read one range       *)
(* before either binds, and one that meets a reservation half made reads   *)
(* '?:?' for a range.                                                      *)
(***************************************************************************)
EXTENDS Compiler, Sequences, TLC

CONSTANTS
    Engines,
    Slots,       \* of a range, kept for metadata: 26
    MetaPaths,   \* the metadata paths a target is seeded with: 10 or 16
    RangeSize,   \* 286
    MaxStops     \* bound on deployments that stop half way

VARIABLES
    cursor,    \* where the next range begins
    ranges,    \* per target: Absent, Pending or its limits
    symkeys,   \* per target, the symbols of its paths
    symCache,  \* what each engine's store has cached of them, or NoCopy
    deploy,    \* where each engine's deployment is
    raced,     \* targets two deployments were at together, or one left half made
    stops

rangeVars == <<cursor, ranges>>
symbolVars == <<rangeVars, symkeys, symCache, deploy, raced, stops>>

Absent == <<>>
NaN == -1          \* the number parseInt makes of '?', and all counted from it
Pending == <<NaN>>   \* '?:?'
\* A store has cached at most one copy.
NoCopy == {}
TheCopy(cache) == CHOOSE c \in cache : TRUE

AllTargets == UNION {Targets(v) : v \in Versions}
AllPaths == UNION {PathsOf(v, t) : v \in Versions, t \in AllTargets}

ASSUME VersionsAssumption ==
    \A v \in Versions : ValidActivityIds(v) /\ ValidReferences(v)
\* A version has graphs, and no activity is called like one's topic; a hook rule
\* leads to an activity.
ASSUME ManifestAssumption ==
    /\ \A v \in Versions : /\ Manifest[v] # {}
                           /\ \A g \in Manifest[v] : g.subscribes \notin Activities(v)
                           /\ \A h \in HookRules(v) : h[2] # NoTopic
    /\ IsFiniteSet(AllTargets) /\ IsFiniteSet(AllPaths)
\* Versions are numbered as they are made.
ASSUME NumberingAssumption == Len(Manifest) \in Nat /\ Versions = 1..Len(Manifest)
ASSUME RangeAssumption ==
    /\ Slots \in Nat /\ RangeSize \in Nat
    /\ IsFiniteSet(MetaPaths) /\ Cardinality(MetaPaths) <= Slots /\ Slots < RangeSize

\* Object.entries: some order, fixed by the set.
Order(S) ==
    CHOOSE f \in [1..Cardinality(S) -> S] : \A i, j \in DOMAIN f : f[i] = f[j] => i = j

Undeployed == [step |-> "none"]

SymbolsInit ==
    /\ cursor = 0
    /\ ranges = [t \in AllTargets |-> Absent]
    /\ symkeys = [t \in AllTargets |-> <<>>]
    /\ symCache = [e \in Engines |-> [t \in AllTargets |-> NoCopy]]
    /\ deploy = [e \in Engines |-> Undeployed]
    /\ raced = {}
    /\ stops = 0

\* The paths of S, numbered from start; from NaN, each gets NaN.
Numbered(S, start) ==
    LET order == Order(S)
    IN  [p \in S |-> IF start = NaN THEN NaN
                     ELSE start - 1 + CHOOSE i \in DOMAIN order : order[i] = p]

\* HSET: the fields, and what the hash has besides.
WithFields(fields, hash) ==
    [p \in DOMAIN fields \cup DOMAIN hash |-> IF p \in DOMAIN fields THEN fields[p] ELSE hash[p]]

Target(e) == Head(deploy[e].todo)

AtTarget(e) ==
    deploy[e].step \in {"cursor", "range", "seed", "read range", "read symbols", "bind"}

Goto(e, step) == [deploy EXCEPT ![e].step = step]

-----------------------------------------------------------------------------
BeginDeploy(e, v) ==
    /\ deploy[e].step \in {"none", "done"}
    /\ deploy' = [deploy EXCEPT ![e] =
                    [step |-> "reserve", version |-> v, todo |-> Order(Targets(v)),
                     lower |-> 0, known |-> <<>>]]
    /\ UNCHANGED <<rangeVars, symkeys, symCache, raced, stops>>

\* HSETNX target '?:?'
Reserve(e) ==
    LET t == Target(e) IN
    /\ deploy[e].step = "reserve"
    /\ IF ranges[t] = Absent
       THEN /\ ranges' = [ranges EXCEPT ![t] = Pending]
            /\ deploy' = Goto(e, "cursor")
       ELSE UNCHANGED ranges /\ deploy' = Goto(e, "read range")
    /\ raced' = IF \/ ranges[t] = Pending
                   \/ \E d \in Engines \ {e} : AtTarget(d) /\ Target(d) = t
                THEN raced \cup {t} ELSE raced
    /\ UNCHANGED <<cursor, symkeys, symCache, stops>>

\* HINCRBY :cursor
MoveCursor(e) ==
    /\ deploy[e].step = "cursor"
    /\ cursor' = cursor + RangeSize
    /\ deploy' = [deploy EXCEPT ![e].step = "range", ![e].lower = cursor]
    /\ UNCHANGED <<ranges, symkeys, symCache, raced, stops>>

LimitsOneTooMany(lower) == <<lower, lower + RangeSize>>   \* variant

Limits(lower) == <<lower, lower + RangeSize - 1>>

SetRange(e) ==
    /\ deploy[e].step = "range"
    /\ ranges' = [ranges EXCEPT ![Target(e)] = Limits(deploy[e].lower)]
    /\ deploy' = Goto(e, "seed")
    /\ UNCHANGED <<cursor, symkeys, symCache, raced, stops>>

\* seedSymbols
Seed(e) ==
    LET lower == deploy[e].lower IN
    /\ deploy[e].step = "seed"
    /\ symkeys' = [symkeys EXCEPT ![Target(e)] = WithFields(Numbered(MetaPaths, lower), @)]
    /\ deploy' = Goto(e, "bind")
    /\ UNCHANGED <<rangeVars, symCache, raced, stops>>

ReadRange(e) ==
    /\ deploy[e].step = "read range"
    /\ deploy' = [deploy EXCEPT ![e].step = "read symbols", ![e].lower = ranges[Target(e)][1]]
    /\ UNCHANGED <<rangeVars, symkeys, symCache, raced, stops>>

ReadSymbols(e) ==
    /\ deploy[e].step = "read symbols"
    /\ deploy' = [deploy EXCEPT ![e].step = "bind", ![e].known = symkeys[Target(e)]]
    /\ UNCHANGED <<rangeVars, symkeys, symCache, raced, stops>>

StartAtSlots(lower, known) ==   \* variant: symbols bound before are not counted
    IF lower = NaN THEN NaN ELSE lower + Slots

\* After the slots, and after as many symbols as the target has, metadata
\* included.
StartIndex(lower, known) ==
    IF lower = NaN THEN NaN ELSE lower + Slots + Cardinality(DOMAIN known)

EveryPath(e) ==   \* variant: paths bound before are bound again
    PathsOf(deploy[e].version, Target(e))

\* bindSymbols and addSymbols, which drops the engine's own copy.
NewPaths(e) == PathsOf(deploy[e].version, Target(e)) \ DOMAIN deploy[e].known

NextTarget(e) ==
    [deploy EXCEPT ![e].todo = Tail(@), ![e].known = <<>>, ![e].lower = 0,
                   ![e].step = IF Len(deploy[e].todo) > 1 THEN "reserve" ELSE "values"]

BindSymbols(e) ==
    LET t == Target(e)
        start == StartIndex(deploy[e].lower, deploy[e].known)
        new == NewPaths(e)
    IN  /\ deploy[e].step = "bind"
        /\ IF start # NaN /\ start + Cardinality(new) > deploy[e].lower + RangeSize
           THEN /\ deploy' = [deploy EXCEPT ![e] = [step |-> "failed"]]
                /\ UNCHANGED <<symkeys, symCache>>
           ELSE /\ symkeys' = [symkeys EXCEPT ![t] = WithFields(Numbered(new, start), @)]
                /\ symCache' = IF new = {} THEN symCache
                               ELSE [symCache EXCEPT ![e][t] = NoCopy]
                /\ deploy' = NextTarget(e)
        /\ UNCHANGED <<rangeVars, raced, stops>>

\* The engine stops; a reservation it was making stays as it is.
StopDeploy(e) ==
    /\ deploy[e].step \notin {"none", "done", "failed"} /\ stops < MaxStops
    /\ stops' = stops + 1
    /\ deploy' = [deploy EXCEPT ![e] = [step |-> "failed"]]
    /\ UNCHANGED <<rangeVars, symkeys, symCache, raced>>

SymbolStep(e) ==
    Reserve(e) \/ MoveCursor(e) \/ SetRange(e) \/ Seed(e)
        \/ ReadRange(e) \/ ReadSymbols(e) \/ BindSymbols(e)

\* getSymbols: read once, then from the store's cache.
CacheSymbols(e, targets) ==
    symCache' = [symCache EXCEPT ![e] =
        [t \in AllTargets |-> IF t \in targets /\ @[t] = NoCopy THEN {symkeys[t]} ELSE @[t]]]

-----------------------------------------------------------------------------
(* Properties of symbols, checked in Release.                              *)

Limited(t) == ranges[t] \notin {Absent, Pending}

\* However many engines deploy at once, and wherever they stop, no two targets
\* have a number in common.
RangesDisjoint ==
    \A t, u \in AllTargets :
        (t # u /\ Limited(t) /\ Limited(u)) =>
            ranges[t][2] < ranges[u][1] \/ ranges[u][2] < ranges[t][1]

\* A symbol is bound inside the range of its target, to one path: of any two
\* paths in the job's hash, neither overwrites the other.  It takes two
\* deployments at the same target at the same time, or one that stopped with
\* the range reserved and not set, to break this.
SymbolsDistinct ==
    \A t \in AllTargets \ raced :
        /\ \A p \in DOMAIN symkeys[t] : symkeys[t][p] \in ranges[t][1]..ranges[t][2]
        /\ \A p, q \in DOMAIN symkeys[t] : symkeys[t][p] = symkeys[t][q] => p = q

\* "path assignments are immutable": what an engine has cached of a target is
\* an older copy, never another assignment, with the same exception.
CopiesOnlyLag ==
    \A e \in Engines : \A t \in AllTargets \ raced :
        \A copy \in symCache[e][t] : \A p \in DOMAIN copy :
            p \in DOMAIN symkeys[t] /\ symkeys[t][p] = copy[p]
=============================================================================
