------------------------------- MODULE Release ------------------------------
(***************************************************************************)
(* Releasing versions of an app to a fleet of engines: deployments,        *)
(* activations, and the executions in between, in which engines take the   *)
(* version to serve and copies of the symbols, and exchange state through  *)
(* the job's hash.                                                         *)
(***************************************************************************)
EXTENDS RollCall, Serializer

CONSTANTS
    Samples,        \* values that are stored and read back
    FreshDeploys,   \* bound on deployments of an app that begins undeployed
    Budgets         \* bounds on deployments and activations of a deployed one,
                    \* and the number of engines that have run jobs of it

ASSUME SamplesAssumption == \A x \in Samples : IsValue(x)

VARIABLES deploysLeft, activationsLeft

vars == <<deployVars, quorumVars, deploysLeft, activationsLeft>>

\* The app with every version deployed, one after the other, and engines that
\* have run jobs of the last one, or have run none yet; the store of these has read
\* the app if it was deployed when they were started.
Base(t) == (CHOOSE i \in 1..Cardinality(AllTargets) : Order(AllTargets)[i] = t) * RangeSize

PathsBefore(t, v) == UNION {PathsOf(w, t) : w \in {x \in Versions : x < v /\ t \in Targets(x)}}

DeployedKeys(t) ==
    LET new(v) == PathsOf(v, t) \ PathsBefore(t, v)
        start(v) == Base(t) + Slots + Cardinality(PathsBefore(t, v))
                    + (IF \A w \in Versions : w < v => t \notin Targets(w) THEN 0
                       ELSE Cardinality(MetaPaths))
        binds == {v \in Versions : t \in Targets(v)}
    IN  [p \in MetaPaths \cup UNION {PathsOf(v, t) : v \in binds} |->
            IF p \in MetaPaths THEN Numbered(MetaPaths, Base(t))[p]
            ELSE LET v == CHOOSE w \in binds : p \in new(w) IN Numbered(new(v), start(v))[p]]

StartFresh ==
    /\ DeploymentInit
    /\ apps = [e \in Engines |-> None] /\ storeApp = apps
    /\ deploysLeft = FreshDeploys /\ activationsLeft = 0

\* Such a deployment ended well: no target outgrew its range.  The apps left out
\* map a metadata path as well, and begin with StartFresh only.
Fits ==
    /\ MetaPaths \cap AllPaths = {}
    /\ \A t \in AllTargets :
          Cardinality(DOMAIN DeployedKeys(t)) + Slots <= RangeSize

StartDeployed ==
    /\ Fits
    /\ cursor = RangeSize * (Cardinality(AllTargets) + 1)
    /\ ranges = [t \in AllTargets |-> <<Base(t), Base(t) + RangeSize - 1>>]
    /\ symkeys = [t \in AllTargets |-> DeployedKeys(t)]
    /\ deploy = [e \in Engines |-> Undeployed]
    /\ raced = {} /\ stops = MaxStops
    /\ symvals = LET all == UNION {Values[v] : v \in Versions} IN Order(all)
    /\ hookRules = [t \in Topics |-> (CHOOSE h \in UNION {HookRules(v) : v \in Versions} : h[1] = t)[2]]
    /\ saved = [v \in Versions |-> {Parts[i] : i \in DOMAIN Parts}]
    /\ app = [version |-> Len(Manifest), deployed |-> Versions]
    /\ \E b \in Budgets, ran \in SUBSET Engines :
         /\ deploysLeft = b[1] /\ activationsLeft = b[2] /\ Cardinality(ran) = b[3]
         /\ symCache = [e \in Engines |->
                          [t \in AllTargets |-> IF e \in ran THEN {symkeys[t]} ELSE NoCopy]]
         /\ valCache = [e \in Engines |-> IF e \in ran THEN {symvals} ELSE NoCopy]
         /\ apps = [e \in Engines |-> IF e \in ran THEN app.version ELSE None]
         /\ storeApp \in {s \in [Engines -> {app.version, None}] : \A e \in ran : s[e] = app.version}

Init == QuorumInit /\ (StartFresh \/ StartDeployed)

\* setState and getState of the store: the keys, then the values.
FetchSymbols(e, targets) == CacheSymbols(e, targets) /\ CacheValues(e)

\* The engine asks for its version and runs a job of it, storing and reading
\* state of each of its targets, or only asks.
Execute(e) ==
    /\ \E v \in Versions : /\ GetVID(e, v)
                           /\ FetchSymbols(e, Targets(v)) \/ UNCHANGED <<symCache, valCache>>
    /\ UNCHANGED <<rangeVars, symkeys, deploy, raced, stops>>
    /\ UNCHANGED <<symvals, hookRules, saved, app, deploysLeft, activationsLeft>>

DeployStep(e) ==
    \/ BindTargets(e) \/ ReadValues(e) \/ AddValues(e) \/ SaveHookRules(e) \/ SavePart(e)

QuorumStep(e) ==
    \/ RequestQuorum(e) \/ Announce(e) \/ Confirm(e) \/ Receive(e)
    \/ AskVersion(e) \/ AskAgain(e)

Next ==
    \E e \in Engines :
        \/ \E v \in Versions :
              /\ deploysLeft > 0 /\ deploysLeft' = deploysLeft - 1
              /\ Begin(e, v) /\ UNCHANGED <<quorumVars, activationsLeft>>
        \/ (DeployStep(e) \/ Stop(e)) /\ UNCHANGED <<quorumVars, deploysLeft, activationsLeft>>
        \/ /\ SetApp(e)
           /\ storeApp' = [storeApp EXCEPT ![e] = app'.version]
           /\ settledBy' = "deployment"
           /\ UNCHANGED <<cacheMode, until, apps, asked, misled, rollVars, unsettled>>
           /\ UNCHANGED <<deploysLeft, activationsLeft>>
        \/ \E v \in app.deployed :
              /\ activationsLeft > 0 /\ activationsLeft' = activationsLeft - 1
              /\ BeginActivate(e, v) /\ UNCHANGED <<deployVars, deploysLeft>>
        \/ QuorumStep(e) /\ UNCHANGED <<deployVars, deploysLeft, activationsLeft>>
        \/ ActivateAppVersion(e) /\ UNCHANGED <<symbolVars, deploysLeft, activationsLeft>>
        \/ Execute(e)

Spec == Init /\ [][Next]_vars

\* What an engine stores of an unraced target, another reads back, whichever
\* copies they have, provided the reader's are at least as new and both or
\* neither know the path; only strings that look like a type mark or a symbol, and
\* the empty string, are changed.
StateReadsBack ==
    \A t \in AllTargets \ raced :
        LET keyCopies == UNION {symCache[e][t] : e \in Engines}
            valCopies == UNION {valCache[e] : e \in Engines}
        IN  \A keys, theirKeys \in keyCopies, vals, theirVals \in valCopies :
            (/\ \A s \in DOMAIN vals : s \in DOMAIN theirVals /\ vals[s] = theirVals[s]
             /\ DOMAIN keys \subseteq DOMAIN theirKeys)
            => /\ \A p \in DOMAIN keys \cup (AllPaths \ DOMAIN theirKeys) :
                     Field(p, keys) = Field(p, theirKeys)
               /\ \A x \in Samples :
                     \/ ReadBack(x, keys, vals, theirKeys, theirVals) = x
                     \/ IsEmpty(x) \/ LooksLikeMark(x) \/ LooksLikeSymbol(x, theirKeys)

WithTopics ==
    {v \in Versions : \A h \in HookRules(v) : \A g \in Manifest[v] :
        h[2] \in DOMAIN g.activities =>
            SubscriptionTopic(v, h[2]) = IF g.private THEN NoTopic ELSE g.subscribes}

\* hookAll can tell the topic of every hooked activity of a version one serves,
\* if its graph is public.
TopicsResolve == app.deployed \subseteq WithTopics
=============================================================================
