----------------------------- MODULE Deployment -----------------------------
(***************************************************************************)
(* The rest of a deployment: symbols for frequent values, hook rules, the  *)
(* parts of the version, and last the version itself.  Value symbols are   *)
(* numbered by how many the deployer's store knows of; hook rules are one  *)
(* hash for all versions; and the last step makes the new version the      *)
(* app's, before anybody activates it.                                     *)
(***************************************************************************)
EXTENDS Symbols

CONSTANT Values   \* per version, the values worth a symbol

VARIABLES
    symvals,    \* the value each value symbol stands for
    valCache,   \* what each engine's store has cached of them, or NoCopy
    hookRules,  \* per topic, the activity it leads to
    saved,      \* per version, the parts that are saved
    app         \* the app's hash: its version, and the versions deployed

versionVars == <<symvals, valCache, hookRules, saved, app>>
deployVars == <<symbolVars, versionVars>>

None == 0
ASSUME ValuesAssumption == IsFiniteSet(UNION {Values[v] : v \in Versions})

Parts == <<"schemas", "subscriptions", "transitions", "consumer groups">>
Topics == UNION {{h[1] : h \in HookRules(v)} : v \in Versions}

DeploymentInit ==
    /\ SymbolsInit
    /\ symvals = <<>>
    /\ valCache = [e \in Engines |-> NoCopy]
    /\ hookRules = [t \in Topics |-> NoTopic]
    /\ saved = [v \in Versions |-> {}]
    /\ app = [version |-> None, deployed |-> {}]

Begin(e, v) == BeginDeploy(e, v) /\ UNCHANGED versionVars

BindTargets(e) == SymbolStep(e) /\ UNCHANGED versionVars

Stop(e) == StopDeploy(e) /\ UNCHANGED versionVars

-----------------------------------------------------------------------------
Copy(e) == IF valCache[e] = NoCopy THEN symvals ELSE TheCopy(valCache[e])

\* getSymbolValues: the store's copy is used if there is one, however old.
CacheValues(e) == valCache' = [valCache EXCEPT ![e] = {Copy(e)}]

ReadValues(e) ==
    /\ deploy[e].step = "values"
    /\ CacheValues(e)
    /\ deploy' = [deploy EXCEPT ![e].step = "add values", ![e].known = Copy(e)]
    /\ UNCHANGED <<rangeVars, symkeys, symCache, raced, stops>>
    /\ UNCHANGED <<symvals, hookRules, saved, app>>

FilterAfresh(known, proposed) ==   \* variant: numbered from the first again
    LET new == proposed \ {known[s] : s \in DOMAIN known}
    IN  Order(new)

\* filterSymVals: values not yet known are numbered after those that are.
FilterSymVals(known, proposed) ==
    LET new == proposed \ {known[s] : s \in DOMAIN known}
        order == Order(new)
        first == Cardinality(DOMAIN known) + 1
    IN  [s \in first..first + Cardinality(new) - 1 |-> order[s - first + 1]]

\* addSymbolValues: HSET, if there is anything to add.
AddValues(e) ==
    LET new == FilterSymVals(deploy[e].known, Values[deploy[e].version]) IN
    /\ deploy[e].step = "add values"
    /\ symvals' = WithFields(new, symvals)
    /\ valCache' = IF new = <<>> THEN valCache ELSE [valCache EXCEPT ![e] = NoCopy]
    /\ deploy' = [deploy EXCEPT ![e].step = "hooks", ![e].known = <<>>]
    /\ UNCHANGED <<rangeVars, symkeys, symCache, raced, stops>>
    /\ UNCHANGED <<hookRules, saved, app>>

\* deployHookPatterns: a topic leads where the last deployment said.
SaveHookRules(e) ==
    LET rules == HookRules(deploy[e].version) IN
    /\ deploy[e].step = "hooks"
    /\ hookRules' = [t \in Topics |->
                       IF \E r \in rules : r[1] = t THEN (CHOOSE r \in rules : r[1] = t)[2]
                       ELSE hookRules[t]]
    /\ deploy' = Goto(e, Parts[1])
    /\ UNCHANGED <<rangeVars, symkeys, symCache, raced, stops>>
    /\ UNCHANGED <<symvals, valCache, saved, app>>

PartAfterUnlessLast(i) ==   \* variant: the last part is not waited for
    IF i >= Len(Parts) - 1 THEN "app" ELSE Parts[i + 1]

PartAfter(i) == IF i = Len(Parts) THEN "app" ELSE Parts[i + 1]

\* deployActivitySchemas ... deployConsumerGroups
SavePart(e) ==
    \E i \in DOMAIN Parts :
        /\ deploy[e].step = Parts[i]
        /\ saved' = [saved EXCEPT ![deploy[e].version] = @ \cup {Parts[i]}]
        /\ deploy' = Goto(e, PartAfter(i))
        /\ UNCHANGED <<rangeVars, symkeys, symCache, raced, stops>>
        /\ UNCHANGED <<symvals, valCache, hookRules, app>>

\* setApp: the version is recorded as deployed, and becomes the app's version.
SetApp(e) ==
    LET v == deploy[e].version IN
    /\ deploy[e].step = "app"
    /\ app' = [version |-> v, deployed |-> app.deployed \cup {v}]
    /\ deploy' = [deploy EXCEPT ![e] = [step |-> "done"]]
    /\ UNCHANGED <<rangeVars, symkeys, symCache, raced, stops>>
    /\ UNCHANGED <<symvals, valCache, hookRules, saved>>

-----------------------------------------------------------------------------
(* Properties of versions, checked in Release.                             *)

\* A version anybody can be served is complete, wherever other deployments are
\* or have stopped: its parts are saved, and there is a symbol for each path that
\* an activity or a job saves, or that is read of an activity by its name.  Paths
\* of metadata are not claimed: a deployment that stops before Seed leaves them out.
VersionsComplete ==
    \A v \in app.deployed :
        /\ \A i \in DOMAIN Parts : Parts[i] \in saved[v]
        /\ \A t \in Targets(v) : PathsOf(v, t) \subseteq DOMAIN symkeys[t]
        /\ \A a \in Activities(v) : \A c \in Consumes(v, a) :
              c[1] \in Activities(v) \ {a} => c[2] \in DOMAIN symkeys[c[1]]
        /\ \A h \in HookRules(v) : hookRules[h[1]] # NoTopic

\* A value symbol in use is given to another value only by a deployment that
\* numbered from an old copy: one its store had cached, or one read before
\* another deployment added to the hash.
KeepsValues ==
    \A s \in DOMAIN symvals :
        \/ symvals'[s] = symvals[s]
        \/ \E e \in Engines : /\ deploy[e].step = "add values" /\ deploy'[e].step = "hooks"
                              /\ deploy[e].known # symvals

ValuesKept == [][KeepsValues]_versionVars
=============================================================================
