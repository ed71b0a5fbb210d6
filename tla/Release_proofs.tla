---------------------------- MODULE Release_proofs ---------------------------
(***************************************************************************)
(* What deployments guarantee, for any number of engines deploying any     *)
(* versions of any manifest at once, and stopping anywhere: targets do not *)
(* share symbols, and a version that can be served is complete; and what   *)
(* engines that serve an app may rely on meanwhile: after an activation    *)
(* all serve one version, and only old copies number values again.         *)
(***************************************************************************)
EXTENDS Release, FiniteSetTheorems, SequenceTheorems, WellFoundedInduction, TLAPS

Ended == {"none", "done", "failed"}

\* A deployment that is under way knows its version, its targets and a range.
DeployShaped ==
    /\ DOMAIN deploy = Engines
    /\ \A e \in Engines :
         /\ "step" \in DOMAIN deploy[e]
         /\ deploy[e].step \notin Ended =>
              {"version", "todo", "lower", "known"} \subseteq DOMAIN deploy[e]

Ranges == {Absent, Pending} \cup (Nat \X Nat)

(* Every range that is set, or about to be set, is a block of its own below *)
(* the cursor.                                                              *)
RangeTypes ==
    /\ cursor \in Nat
    /\ DOMAIN ranges = AllTargets

Setting(e) == deploy[e].step = "range"

Block(t, l) == l \in Nat /\ ranges[t] = <<l, l + RangeSize - 1>> /\ l + RangeSize <= cursor

Blocks ==
    /\ \A t \in AllTargets : Limited(t) => \E l : Block(t, l)
    /\ \A e \in Engines : Setting(e) =>
          deploy[e].lower \in Nat /\ deploy[e].lower + RangeSize <= cursor

Apart(l, m) == l + RangeSize <= m \/ m + RangeSize <= l

BlocksApart ==
    /\ \A t, u \in AllTargets : (t # u /\ Limited(t) /\ Limited(u)) =>
          Apart(ranges[t][1], ranges[u][1])
    /\ \A t \in AllTargets, e \in Engines : (Limited(t) /\ Setting(e)) =>
          Apart(ranges[t][1], deploy[e].lower)
    /\ \A d, e \in Engines : (d # e /\ Setting(d) /\ Setting(e)) =>
          Apart(deploy[d].lower, deploy[e].lower)

RangeInv == DeployShaped /\ RangeTypes /\ Blocks /\ BlocksApart

-----------------------------------------------------------------------------
LEMMA BlockLimits ==
    ASSUME NEW t \in AllTargets, NEW l, Block(t, l)
    PROVE  ranges[t][1] = l /\ ranges[t][2] = l + RangeSize - 1
  BY DEF Block

\* A step that leaves cursor and ranges alone and begins to set no range.
LEMMA RangesStay ==
    ASSUME RangeInv, UNCHANGED <<cursor, ranges>>, DeployShaped',
           \A e \in Engines : Setting(e)' => Setting(e) /\ deploy'[e].lower = deploy[e].lower
    PROVE  RangeInv'
<1>1. RangeTypes'
  BY DEF RangeInv, RangeTypes
<1>2. \A t \in AllTargets : Limited(t)' <=> Limited(t)
  BY DEF Limited
<1>3. Blocks'
  BY <1>2 DEF RangeInv, Blocks, Block
<1>4. BlocksApart'
  BY <1>2 DEF RangeInv, BlocksApart
<1> QED
  BY <1>1, <1>3, <1>4 DEF RangeInv

\* One engine's deployment changes, to one of the given form.
LEMMA ShapeKept ==
    ASSUME DeployShaped, NEW e \in Engines, NEW d, deploy' = [deploy EXCEPT ![e] = d],
           "step" \in DOMAIN d,
           d.step \notin Ended => {"version", "todo", "lower", "known"} \subseteq DOMAIN d
    PROVE  DeployShaped' /\ deploy'[e] = d /\ \A f \in Engines : f # e => deploy'[f] = deploy[f]
  BY DEF DeployShaped

LEMMA StepSet ==
    ASSUME DeployShaped, NEW e \in Engines, deploy[e].step \notin Ended, NEW s,
           deploy' = Goto(e, s)
    PROVE  /\ DeployShaped'
           /\ deploy'[e] = [deploy[e] EXCEPT !.step = s]
           /\ deploy'[e].step = s
           /\ deploy'[e].lower = deploy[e].lower /\ deploy'[e].todo = deploy[e].todo
           /\ deploy'[e].version = deploy[e].version /\ deploy'[e].known = deploy[e].known
           /\ \A f \in Engines : f # e => deploy'[f] = deploy[f]
<1>1. PICK d : d = [deploy[e] EXCEPT !.step = s]
  OBVIOUS
<1>2. /\ DOMAIN d = DOMAIN deploy[e] /\ d.step = s
      /\ d.lower = deploy[e].lower /\ d.todo = deploy[e].todo
      /\ d.version = deploy[e].version /\ d.known = deploy[e].known
  BY <1>1 DEF DeployShaped
<1>3. deploy' = [deploy EXCEPT ![e] = d]
  BY <1>1 DEF Goto, DeployShaped
<1> QED
  BY <1>1, <1>2, <1>3, ShapeKept DEF DeployShaped

\* The steps in which a deployment goes on without touching the cursor or a
\* range, and does not come to set one.
LEMMA OneGoesOn ==
    ASSUME RangeInv, UNCHANGED <<cursor, ranges>>, NEW e \in Engines, NEW d,
           deploy' = [deploy EXCEPT ![e] = d],
           "step" \in DOMAIN d, d.step # "range",
           d.step \notin Ended => {"version", "todo", "lower", "known"} \subseteq DOMAIN d
    PROVE  RangeInv'
<1>1. DeployShaped' /\ deploy'[e] = d /\ \A f \in Engines : f # e => deploy'[f] = deploy[f]
  BY ShapeKept DEF RangeInv
<1>2. ASSUME NEW f \in Engines, Setting(f)'
      PROVE  Setting(f) /\ deploy'[f].lower = deploy[f].lower
  BY <1>1, <1>2 DEF Setting
<1> QED
  BY <1>1, <1>2, RangesStay

\* The fields of a deployment under way, after some of them were replaced.
LEMMA FieldsKept ==
    ASSUME DeployShaped, NEW e \in Engines, deploy[e].step \notin Ended, NEW d,
           DOMAIN d = DOMAIN deploy[e]
    PROVE  {"step", "version", "todo", "lower", "known"} \subseteq DOMAIN d
  BY DEF DeployShaped

LEMMA BeginKeepsRanges ==
    ASSUME RangeInv, NEW e \in Engines, NEW v \in Versions, BeginDeploy(e, v)
    PROVE  RangeInv'
<1>1. PICK d : d = [step |-> "reserve", version |-> v, todo |-> Order(Targets(v)),
                    lower |-> 0, known |-> <<>>]
  OBVIOUS
<1>2. /\ d.step = "reserve" /\ "step" \in DOMAIN d
      /\ {"version", "todo", "lower", "known"} \subseteq DOMAIN d
  BY <1>1
<1>3. deploy' = [deploy EXCEPT ![e] = d] /\ UNCHANGED <<cursor, ranges>>
  BY <1>1 DEF BeginDeploy, rangeVars
<1> QED
  BY <1>2, <1>3, OneGoesOn

\* Steps that only move on within their deployment.
LEMMA MoveKeepsRanges ==
    ASSUME RangeInv, NEW e \in Engines, deploy[e].step \notin Ended,
           UNCHANGED <<cursor, ranges>>, NEW d, DOMAIN d = DOMAIN deploy[e],
           deploy' = [deploy EXCEPT ![e] = d], d.step # "range"
    PROVE  RangeInv'
<1>1. {"step", "version", "todo", "lower", "known"} \subseteq DOMAIN d
  BY FieldsKept DEF RangeInv
<1> QED
  BY <1>1, OneGoesOn

LEMMA ReserveKeepsRanges ==
    ASSUME RangeInv, NEW e \in Engines, Reserve(e) PROVE RangeInv'
<1>1. deploy[e].step = "reserve" /\ UNCHANGED cursor
  BY DEF Reserve
<1>2. CASE ranges[Target(e)] = Absent
  <2>1. ranges' = [ranges EXCEPT ![Target(e)] = Pending] /\ deploy' = Goto(e, "cursor")
    BY <1>2 DEF Reserve
  <2>2. /\ DeployShaped' /\ deploy'[e].step = "cursor"
        /\ \A f \in Engines : f # e => deploy'[f] = deploy[f]
    BY <1>1, <2>1, StepSet DEF RangeInv, Ended
  <2>3. ASSUME NEW f \in Engines, Setting(f)'
        PROVE  Setting(f) /\ deploy'[f].lower = deploy[f].lower
    BY <2>2, <2>3 DEF Setting
  <2>4. ASSUME NEW t \in AllTargets, Limited(t)'
        PROVE  Limited(t) /\ ranges'[t] = ranges[t]
    BY <2>1, <2>4 DEF RangeInv, RangeTypes, Limited
  <2>5. RangeTypes'
    BY <1>1, <2>1 DEF RangeInv, RangeTypes
  <2>6. Blocks'
    BY <1>1, <2>3, <2>4 DEF RangeInv, Blocks, Block
  <2>7. BlocksApart'
    BY <2>3, <2>4 DEF RangeInv, BlocksApart
  <2> QED
    BY <2>2, <2>5, <2>6, <2>7 DEF RangeInv
<1>3. CASE ranges[Target(e)] # Absent
  <2>1. UNCHANGED ranges /\ deploy' = Goto(e, "read range")
    BY <1>3 DEF Reserve
  <2>2. /\ DeployShaped' /\ deploy'[e].step = "read range"
        /\ \A f \in Engines : f # e => deploy'[f] = deploy[f]
    BY <1>1, <2>1, StepSet DEF RangeInv, Ended
  <2>3. ASSUME NEW f \in Engines, Setting(f)'
        PROVE  Setting(f) /\ deploy'[f].lower = deploy[f].lower
    BY <2>2, <2>3 DEF Setting
  <2> QED
    BY <1>1, <2>1, <2>2, <2>3, RangesStay
<1> QED
  BY <1>2, <1>3

\* The block an engine gets is beyond all others.
LEMMA CursorKeepsRanges ==
    ASSUME RangeInv, NEW e \in Engines, MoveCursor(e) PROVE RangeInv'
<1>1. PICK d : d = [deploy[e] EXCEPT !.step = "range", !.lower = cursor]
  OBVIOUS
<1>2. deploy[e].step = "cursor" /\ cursor' = cursor + RangeSize /\ UNCHANGED ranges
  BY DEF MoveCursor, rangeVars
<1>3. DOMAIN d = DOMAIN deploy[e] /\ d.step = "range" /\ d.lower = cursor
  BY <1>1, <1>2 DEF RangeInv, DeployShaped, Ended
<1>4. deploy' = [deploy EXCEPT ![e] = d]
  BY <1>1 DEF MoveCursor, RangeInv, DeployShaped
<1>5. {"step", "version", "todo", "lower", "known"} \subseteq DOMAIN d
  BY <1>2, <1>3, FieldsKept DEF RangeInv, Ended
<1>6. DeployShaped' /\ deploy'[e] = d /\ \A f \in Engines : f # e => deploy'[f] = deploy[f]
  BY <1>4, <1>5, ShapeKept DEF RangeInv
<1>7. cursor \in Nat /\ RangeSize \in Nat /\ cursor' \in Nat
  BY <1>2, RangeAssumption DEF RangeInv, RangeTypes
<1>8. RangeTypes'
  BY <1>2, <1>7 DEF RangeInv, RangeTypes
<1>9. \A t \in AllTargets : (Limited(t)' <=> Limited(t)) /\ ranges'[t] = ranges[t]
  BY <1>2 DEF Limited
<1>10. ASSUME NEW t \in AllTargets, Limited(t)
       PROVE  /\ ranges[t][1] \in Nat /\ ranges[t][1] + RangeSize <= cursor
              /\ \E l : l \in Nat /\ ranges[t] = <<l, l + RangeSize - 1>>
                        /\ l + RangeSize <= cursor + RangeSize
  <2>1. PICK l : l \in Nat /\ ranges[t] = <<l, l + RangeSize - 1>> /\ l + RangeSize <= cursor
    BY <1>10 DEF RangeInv, Blocks, Block
  <2>2. ranges[t][1] = l /\ l + RangeSize <= cursor + RangeSize
    BY <1>7, <2>1
  <2> QED
    BY <2>1, <2>2
<1>11. \A f \in Engines : f # e /\ Setting(f) =>
          deploy[f].lower \in Nat /\ deploy[f].lower + RangeSize <= cursor
  BY DEF RangeInv, Blocks
<1>12. Blocks'
  <2>1. ASSUME NEW t \in AllTargets, Limited(t)' PROVE \E l : Block(t, l)'
    BY <1>2, <1>9, <1>10, <2>1 DEF Block
  <2>2. ASSUME NEW f \in Engines, Setting(f)'
        PROVE  deploy'[f].lower \in Nat /\ deploy'[f].lower + RangeSize <= cursor'
    <3>1. CASE f = e
      BY <1>2, <1>3, <1>6, <1>7, <3>1
    <3>2. CASE f # e
      BY <1>2, <1>6, <1>7, <1>11, <2>2, <3>2 DEF Setting
    <3> QED
      BY <3>1, <3>2
  <2> QED
    BY <2>1, <2>2 DEF Blocks
<1>13. BlocksApart'
  <2>1. ASSUME NEW t \in AllTargets, NEW u \in AllTargets, t # u, Limited(t)', Limited(u)'
        PROVE  Apart(ranges'[t][1], ranges'[u][1])
    BY <1>9, <2>1 DEF RangeInv, BlocksApart
  <2>2. ASSUME NEW t \in AllTargets, NEW f \in Engines, Limited(t)', Setting(f)'
        PROVE  Apart(ranges'[t][1], deploy'[f].lower)
    <3>1. CASE f = e
      BY <1>3, <1>6, <1>9, <1>10, <2>2, <3>1 DEF Apart
    <3>2. CASE f # e
      BY <1>6, <1>9, <2>2, <3>2 DEF RangeInv, BlocksApart, Setting
    <3> QED
      BY <3>1, <3>2
  <2>3. ASSUME NEW f \in Engines, NEW g \in Engines, f # g, Setting(f)', Setting(g)'
        PROVE  Apart(deploy'[f].lower, deploy'[g].lower)
    <3>1. CASE f = e
      BY <1>3, <1>6, <1>7, <1>11, <2>3, <3>1 DEF Apart, Setting
    <3>2. CASE g = e
      BY <1>3, <1>6, <1>7, <1>11, <2>3, <3>2 DEF Apart, Setting
    <3>3. CASE f # e /\ g # e
      BY <1>6, <2>3, <3>3 DEF RangeInv, BlocksApart, Setting
    <3> QED
      BY <3>1, <3>2, <3>3
  <2> QED
    BY <2>1, <2>2, <2>3 DEF BlocksApart
<1> QED
  BY <1>6, <1>8, <1>12, <1>13 DEF RangeInv

LEMMA SetKeepsRanges ==
    ASSUME RangeInv, NEW e \in Engines, SetRange(e) PROVE RangeInv'
<1>1. PICK l, u : l = deploy[e].lower /\ u = Target(e)
  OBVIOUS
<1>2. /\ Setting(e) /\ UNCHANGED cursor
      /\ ranges' = [ranges EXCEPT ![u] = <<l, l + RangeSize - 1>>]
      /\ deploy' = Goto(e, "seed")
  BY <1>1 DEF SetRange, Limits, Setting
<1>3. /\ DeployShaped' /\ deploy'[e].step = "seed"
      /\ \A f \in Engines : f # e => deploy'[f] = deploy[f]
  BY <1>2, StepSet DEF RangeInv, Ended, Setting
<1>4. l \in Nat /\ l + RangeSize <= cursor
  BY <1>1, <1>2 DEF RangeInv, Blocks
<1>5. ASSUME NEW f \in Engines, Setting(f)'
      PROVE  f # e /\ Setting(f) /\ deploy'[f].lower = deploy[f].lower
  BY <1>3, <1>5 DEF Setting
<1>6. ASSUME NEW t \in AllTargets, Limited(t)'
      PROVE  \/ t = u /\ ranges'[t] = <<l, l + RangeSize - 1>> /\ ranges'[t][1] = l
             \/ t # u /\ Limited(t) /\ ranges'[t] = ranges[t]
  BY <1>2, <1>6 DEF RangeInv, RangeTypes, Limited
<1>7. RangeTypes'
  BY <1>2 DEF RangeInv, RangeTypes
<1>8. Blocks'
  <2>1. ASSUME NEW t \in AllTargets, Limited(t)' PROVE \E m : Block(t, m)'
    BY <1>2, <1>4, <1>6, <2>1 DEF RangeInv, Blocks, Block
  <2> QED
    BY <1>2, <1>5, <2>1 DEF RangeInv, Blocks
<1>9. \A t \in AllTargets : Limited(t) => Apart(ranges[t][1], l) /\ Apart(l, ranges[t][1])
  BY <1>1, <1>2 DEF RangeInv, BlocksApart, Apart
<1>10. \A f \in Engines : f # e /\ Setting(f) => Apart(l, deploy[f].lower)
  BY <1>1, <1>2 DEF RangeInv, BlocksApart
<1>11. BlocksApart'
  <2>1. ASSUME NEW t \in AllTargets, NEW w \in AllTargets, t # w, Limited(t)', Limited(w)'
        PROVE  Apart(ranges'[t][1], ranges'[w][1])
    BY <1>6, <1>9, <2>1 DEF RangeInv, BlocksApart
  <2>2. ASSUME NEW t \in AllTargets, NEW f \in Engines, Limited(t)', Setting(f)'
        PROVE  Apart(ranges'[t][1], deploy'[f].lower)
    BY <1>5, <1>6, <1>10, <2>2 DEF RangeInv, BlocksApart
  <2>3. ASSUME NEW f \in Engines, NEW g \in Engines, f # g, Setting(f)', Setting(g)'
        PROVE  Apart(deploy'[f].lower, deploy'[g].lower)
    BY <1>5, <2>3 DEF RangeInv, BlocksApart
  <2> QED
    BY <2>1, <2>2, <2>3 DEF BlocksApart
<1> QED
  BY <1>3, <1>7, <1>8, <1>11 DEF RangeInv

PartSet == {"schemas", "subscriptions", "transitions", "consumer groups"}

LEMMA PartsListed ==
    /\ Len(Parts) = 4 /\ DOMAIN Parts = 1..4
    /\ Parts[1] = "schemas" /\ Parts[2] = "subscriptions"
    /\ Parts[3] = "transitions" /\ Parts[4] = "consumer groups"
    /\ \A i \in DOMAIN Parts : Parts[i] \in PartSet
<1>1. /\ Len(Parts) = 4 /\ DOMAIN Parts = 1..4
      /\ Parts[1] = "schemas" /\ Parts[2] = "subscriptions"
  BY DEF Parts
<1>2. Parts[3] = "transitions"
  BY DEF Parts
<1>3. Parts[4] = "consumer groups"
  BY DEF Parts
<1>4. ASSUME NEW i \in DOMAIN Parts PROVE Parts[i] \in PartSet
  <2>1. i = 1 \/ i = 2 \/ i = 3 \/ i = 4
    BY <1>1
  <2> QED
    BY <1>1, <1>2, <1>3, <2>1 DEF PartSet
<1> QED
  BY <1>1, <1>2, <1>3, <1>4

LEMMA PartNext ==
    ASSUME NEW i \in DOMAIN Parts
    PROVE  /\ PartAfter(i) \in PartSet \cup {"app"} /\ Parts[i] \in PartSet
           /\ PartSet \cap (Ended \cup {"range", "app"}) = {}
<1>1. i \in 1..4 /\ (i = 4 \/ i + 1 \in DOMAIN Parts)
  <2>1. i \in 1..4
    BY PartsListed
  <2>2. i = 4 \/ i + 1 \in 1..4
    BY <2>1
  <2> QED
    BY <2>1, <2>2, PartsListed
<1>2. PartAfter(i) \in PartSet \cup {"app"}
  BY <1>1, PartsListed DEF PartAfter
<1> QED
  BY <1>2, PartsListed DEF PartSet, Ended

\* The other steps of a deployment.
LEMMA DeployStepKeepsRanges ==
    ASSUME RangeInv, NEW e \in Engines, DeployStep(e) \/ Stop(e) PROVE RangeInv'
<1>1. ASSUME deploy[e].step \notin Ended, UNCHANGED <<cursor, ranges>>, NEW s, s # "range",
             deploy' = Goto(e, s)
      PROVE  RangeInv'
  <2>1. PICK d : d = [deploy[e] EXCEPT !.step = s]
    OBVIOUS
  <2>2. DOMAIN d = DOMAIN deploy[e] /\ d.step = s
    BY <1>1, <2>1 DEF RangeInv, DeployShaped
  <2>3. deploy' = [deploy EXCEPT ![e] = d]
    BY <1>1, <2>1 DEF Goto, RangeInv, DeployShaped
  <2> QED
    BY <1>1, <2>2, <2>3, MoveKeepsRanges
<1>2. CASE Seed(e)
  BY <1>1, <1>2 DEF Seed, rangeVars, Ended
<1>3. CASE ReadRange(e)
  <2>1. PICK d : d = [deploy[e] EXCEPT !.step = "read symbols", !.lower = ranges[Target(e)][1]]
    OBVIOUS
  <2>2. deploy[e].step = "read range" /\ UNCHANGED <<cursor, ranges>>
    BY <1>3 DEF ReadRange, rangeVars
  <2>3. DOMAIN d = DOMAIN deploy[e] /\ d.step = "read symbols"
    BY <2>1, <2>2 DEF RangeInv, DeployShaped
  <2>4. deploy' = [deploy EXCEPT ![e] = d]
    BY <1>3, <2>1 DEF ReadRange, RangeInv, DeployShaped
  <2> QED
    BY <2>2, <2>3, <2>4, MoveKeepsRanges DEF Ended
<1>4. CASE ReadSymbols(e)
  <2>1. PICK d : d = [deploy[e] EXCEPT !.step = "bind", !.known = symkeys[Target(e)]]
    OBVIOUS
  <2>2. deploy[e].step = "read symbols" /\ UNCHANGED <<cursor, ranges>>
    BY <1>4 DEF ReadSymbols, rangeVars
  <2>3. DOMAIN d = DOMAIN deploy[e] /\ d.step = "bind"
    BY <2>1, <2>2 DEF RangeInv, DeployShaped
  <2>4. deploy' = [deploy EXCEPT ![e] = d]
    BY <1>4, <2>1 DEF ReadSymbols, RangeInv, DeployShaped
  <2> QED
    BY <2>2, <2>3, <2>4, MoveKeepsRanges DEF Ended
<1>5. ASSUME UNCHANGED <<cursor, ranges>>, NEW s, s \in Ended,
             deploy' = [deploy EXCEPT ![e] = [step |-> s]]
      PROVE  RangeInv'
  <2>1. PICK d : d = [step |-> s]
    OBVIOUS
  <2>2. "step" \in DOMAIN d /\ d.step = s
    BY <2>1
  <2> QED
    BY <1>5, <2>1, <2>2, OneGoesOn DEF Ended
<1>6. CASE BindSymbols(e)
  <2>1. deploy[e].step = "bind" /\ UNCHANGED <<cursor, ranges>>
    BY <1>6 DEF BindSymbols, rangeVars
  <2>2. CASE deploy' = [deploy EXCEPT ![e] = [step |-> "failed"]]
    BY <1>5, <2>1, <2>2 DEF Ended
  <2>3. CASE deploy' = NextTarget(e)
    <3>1. PICK s : s = IF Len(deploy[e].todo) > 1 THEN "reserve" ELSE "values"
      OBVIOUS
    <3>2. PICK d : d = [deploy[e] EXCEPT !.todo = Tail(@), !.known = <<>>, !.lower = 0,
                                         !.step = s]
      OBVIOUS
    <3>3. DOMAIN d = DOMAIN deploy[e] /\ d.step = s /\ s \in {"reserve", "values"}
      BY <2>1, <3>1, <3>2 DEF RangeInv, DeployShaped
    <3>4. deploy' = [deploy EXCEPT ![e] = d]
      BY <2>3, <3>1, <3>2 DEF NextTarget, RangeInv, DeployShaped
    <3> QED
      BY <2>1, <3>3, <3>4, MoveKeepsRanges DEF Ended
  <2> QED
    BY <1>6, <2>2, <2>3 DEF BindSymbols
<1>7. CASE ReadValues(e)
  <2>1. PICK d : d = [deploy[e] EXCEPT !.step = "add values", !.known = Copy(e)]
    OBVIOUS
  <2>2. deploy[e].step = "values" /\ UNCHANGED <<cursor, ranges>>
    BY <1>7 DEF ReadValues, rangeVars
  <2>3. DOMAIN d = DOMAIN deploy[e] /\ d.step = "add values"
    BY <2>1, <2>2 DEF RangeInv, DeployShaped
  <2>4. deploy' = [deploy EXCEPT ![e] = d]
    BY <1>7, <2>1 DEF ReadValues, RangeInv, DeployShaped
  <2> QED
    BY <2>2, <2>3, <2>4, MoveKeepsRanges DEF Ended
<1>8. CASE AddValues(e)
  <2>1. PICK d : d = [deploy[e] EXCEPT !.step = "hooks", !.known = <<>>]
    OBVIOUS
  <2>2. deploy[e].step = "add values" /\ UNCHANGED <<cursor, ranges>>
    BY <1>8 DEF AddValues, rangeVars
  <2>3. DOMAIN d = DOMAIN deploy[e] /\ d.step = "hooks"
    BY <2>1, <2>2 DEF RangeInv, DeployShaped
  <2>4. deploy' = [deploy EXCEPT ![e] = d]
    BY <1>8, <2>1 DEF AddValues, RangeInv, DeployShaped
  <2> QED
    BY <2>2, <2>3, <2>4, MoveKeepsRanges DEF Ended
<1>9. CASE SaveHookRules(e)
  BY <1>1, <1>9 DEF SaveHookRules, rangeVars, Ended, Parts
<1>10. CASE SavePart(e)
  <2>1. PICK i \in DOMAIN Parts : /\ deploy[e].step = Parts[i] /\ deploy' = Goto(e, PartAfter(i))
                                 /\ UNCHANGED <<cursor, ranges>>
    BY <1>10 DEF SavePart, rangeVars
  <2>2. deploy[e].step \notin Ended /\ PartAfter(i) # "range"
    BY <2>1, PartsListed, PartNext DEF Ended
  <2> QED
    BY <1>1, <2>1, <2>2
<1>11. CASE Stop(e)
  BY <1>5, <1>11 DEF Stop, StopDeploy, rangeVars, Ended
<1> QED
  BY <1>2, <1>3, <1>4, <1>6, <1>7, <1>8, <1>9, <1>10, <1>11,
     ReserveKeepsRanges, CursorKeepsRanges, SetKeepsRanges
  DEF DeployStep, BindTargets, SymbolStep

LEMMA SetAppKeepsRanges ==
    ASSUME RangeInv, NEW e \in Engines, SetApp(e) PROVE RangeInv'
<1>1. PICK d : d = [step |-> "done"]
  OBVIOUS
<1>2. "step" \in DOMAIN d /\ d.step = "done"
  BY <1>1
<1>3. deploy' = [deploy EXCEPT ![e] = d] /\ UNCHANGED <<cursor, ranges>>
  BY <1>1 DEF SetApp, rangeVars
<1> QED
  BY <1>2, <1>3, OneGoesOn DEF Ended

\* Activations and executions deploy nothing.
LEMMA RangesUntouched ==
    ASSUME RangeInv, UNCHANGED <<cursor, ranges, deploy>> PROVE RangeInv'
<1>1. DeployShaped'
  BY DEF RangeInv, DeployShaped
<1>2. \A e \in Engines : Setting(e)' => Setting(e) /\ deploy'[e].lower = deploy[e].lower
  BY DEF Setting
<1> QED
  BY <1>1, <1>2, RangesStay

LEMMA RangeInvKept == ASSUME RangeInv, [Next]_vars PROVE RangeInv'
<1>1. CASE UNCHANGED vars
  BY <1>1, RangesUntouched DEF vars, deployVars, symbolVars, rangeVars
<1>2. ASSUME NEW e \in Engines, NEW v \in Versions, Begin(e, v) PROVE RangeInv'
  BY <1>2, BeginKeepsRanges DEF Begin
<1>3. ASSUME NEW e \in Engines, DeployStep(e) \/ Stop(e) PROVE RangeInv'
  BY <1>3, DeployStepKeepsRanges
<1>4. ASSUME NEW e \in Engines, SetApp(e) PROVE RangeInv'
  BY <1>4, SetAppKeepsRanges
<1>5. ASSUME UNCHANGED deployVars \/ UNCHANGED symbolVars PROVE RangeInv'
  BY <1>5, RangesUntouched DEF deployVars, symbolVars, rangeVars
<1>6. ASSUME NEW e \in Engines, Execute(e) PROVE RangeInv'
  BY <1>6, RangesUntouched DEF Execute, rangeVars
<1> QED
  BY <1>1, <1>2, <1>3, <1>4, <1>5, <1>6 DEF Next

-----------------------------------------------------------------------------
(* Where it begins.                                                        *)

LEMMA OrderEnumerates ==
    ASSUME NEW S, IsFiniteSet(S)
    PROVE  /\ Cardinality(S) \in Nat
           /\ Order(S) \in [1..Cardinality(S) -> S]
           /\ \A i, j \in 1..Cardinality(S) : Order(S)[i] = Order(S)[j] => i = j
           /\ \A x \in S : \E i \in 1..Cardinality(S) : Order(S)[i] = x
<1>1. Cardinality(S) \in Nat /\ ExistsBijection(1..Cardinality(S), S)
  BY FS_CardinalityType
<1>2. PICK g : g \in Bijection(1..Cardinality(S), S)
  BY <1>1 DEF ExistsBijection
<1>3. /\ g \in [1..Cardinality(S) -> S]
      /\ \A i, j \in DOMAIN g : g[i] = g[j] => i = j
  BY <1>2 DEF Bijection, Injection, IsInjective
<1>4. PICK f : f = Order(S)
  OBVIOUS
<1>5. /\ f \in [1..Cardinality(S) -> S]
      /\ \A i, j \in DOMAIN f : f[i] = f[j] => i = j
  BY <1>3, <1>4, ZenonT(60) DEF Order
<1>6. f \in Injection(1..Cardinality(S), S)
  BY <1>5 DEF Injection, IsInjective
<1>7. Cardinality(1..Cardinality(S)) = Cardinality(S)
  BY <1>1, FS_Interval
<1>8. f \in Surjection(1..Cardinality(S), S)
  BY <1>6, <1>7, FS_Injection
<1>9. \A x \in S : \E i \in 1..Cardinality(S) : f[i] = x
  BY <1>8 DEF Surjection
<1> QED
  BY <1>1, <1>4, <1>5, <1>9

LEMMA BasesApart ==
    /\ Cardinality(AllTargets) \in Nat
    /\ \A t \in AllTargets : Base(t) \in Nat
           /\ Base(t) + RangeSize <= RangeSize * (Cardinality(AllTargets) + 1)
    /\ \A t, u \in AllTargets : t # u => Apart(Base(t), Base(u))
<1>1. PICK n, f : n = Cardinality(AllTargets) /\ f = Order(AllTargets)
  OBVIOUS
<1>2. /\ n \in Nat /\ f \in [1..n -> AllTargets]
      /\ \A t \in AllTargets : \E i \in 1..n : f[i] = t
  BY <1>1, ManifestAssumption, OrderEnumerates
<1>3. RangeSize \in Nat
  BY RangeAssumption
<1>4. ASSUME NEW t \in AllTargets
      PROVE  \E i \in 1..n : f[i] = t /\ Base(t) = i * RangeSize
  BY <1>1, <1>2, <1>4 DEF Base
<1>5. ASSUME NEW i \in 1..n, NEW j \in 1..n, i < j
      PROVE  i * RangeSize + RangeSize <= j * RangeSize
  <2>1. PICK k \in Nat : j = i + 1 + k
    <3>1. j - i - 1 \in Nat /\ j = i + 1 + (j - i - 1)
      BY <1>2, <1>5
    <3> QED
      BY <3>1
  <2>2. j * RangeSize = i * RangeSize + RangeSize + k * RangeSize
    BY <1>2, <1>3, <2>1
  <2>3. k * RangeSize \in Nat /\ i * RangeSize \in Nat
    BY <1>2, <1>3
  <2> QED
    BY <1>3, <2>2, <2>3
<1>6. ASSUME NEW t \in AllTargets
      PROVE  Base(t) \in Nat /\ Base(t) + RangeSize <= RangeSize * (n + 1)
  <2>1. PICK i \in 1..n : Base(t) = i * RangeSize
    BY <1>4
  <2>2. PICK k \in Nat : n = i + k
    <3>1. n - i \in Nat /\ n = i + (n - i)
      BY <1>2
    <3> QED
      BY <3>1
  <2>3. RangeSize * (n + 1) = i * RangeSize + RangeSize + k * RangeSize
    BY <1>2, <1>3, <2>2
  <2>4. k * RangeSize \in Nat /\ i * RangeSize \in Nat
    BY <1>2, <1>3
  <2> QED
    BY <1>3, <2>1, <2>3, <2>4
<1>7. ASSUME NEW t \in AllTargets, NEW u \in AllTargets, t # u
      PROVE  Apart(Base(t), Base(u))
  <2>1. PICK i \in 1..n : f[i] = t /\ Base(t) = i * RangeSize
    BY <1>4
  <2>2. PICK j \in 1..n : f[j] = u /\ Base(u) = j * RangeSize
    BY <1>4
  <2>3. i < j \/ j < i
    BY <1>2, <1>7, <2>1, <2>2
  <2> QED
    BY <1>5, <2>1, <2>2, <2>3 DEF Apart
<1> QED
  BY <1>1, <1>2, <1>6, <1>7

LEMMA RangeInvInitially == ASSUME Init PROVE RangeInv
<1>1. deploy = [e \in Engines |-> Undeployed]
  BY DEF Init, StartFresh, StartDeployed, DeploymentInit, SymbolsInit
<1>2. DeployShaped /\ \A e \in Engines : ~Setting(e)
  BY <1>1 DEF DeployShaped, Undeployed, Ended, Setting
<1>3. CASE StartFresh
  <2>1. cursor = 0 /\ ranges = [t \in AllTargets |-> Absent]
    BY <1>3 DEF StartFresh, DeploymentInit, SymbolsInit
  <2>2. \A t \in AllTargets : ~Limited(t)
    BY <2>1 DEF Limited
  <2> QED
    BY <1>2, <2>1, <2>2 DEF RangeInv, RangeTypes, Blocks, BlocksApart
<1>4. CASE StartDeployed
  <2>1. /\ cursor = RangeSize * (Cardinality(AllTargets) + 1)
        /\ ranges = [t \in AllTargets |-> <<Base(t), Base(t) + RangeSize - 1>>]
    BY <1>4 DEF StartDeployed
  <2>2. RangeTypes
    BY <2>1, BasesApart, RangeAssumption DEF RangeTypes
  <2>3. Blocks
    BY <1>2, <2>1, BasesApart DEF Blocks, Block
  <2>4. BlocksApart
    BY <1>2, <2>1, BasesApart DEF BlocksApart
  <2> QED
    BY <1>2, <2>2, <2>3, <2>4 DEF RangeInv
<1> QED
  BY <1>3, <1>4 DEF Init

\* Whatever deployments overlap and wherever they stop, no symbol belongs to two
\* targets: the cursor gives each reservation a block of its own, and a target
\* whose range is overwritten gets another block.
THEOREM TargetsShareNoSymbols == Spec => []RangesDisjoint
<1>1. RangeInv => RangesDisjoint
  <2> SUFFICES ASSUME RangeInv, NEW t \in AllTargets, NEW u \in AllTargets,
                      t # u, Limited(t), Limited(u)
      PROVE  ranges[t][2] < ranges[u][1] \/ ranges[u][2] < ranges[t][1]
    BY DEF RangesDisjoint
  <2>1. PICK l : Block(t, l)
    BY DEF RangeInv, Blocks
  <2>2. PICK m : Block(u, m)
    BY DEF RangeInv, Blocks
  <2>3. Apart(l, m) /\ l \in Nat /\ m \in Nat
    BY <2>1, <2>2, BlockLimits DEF RangeInv, BlocksApart, Block
  <2> QED
    BY <2>1, <2>2, <2>3, BlockLimits, RangeAssumption DEF Apart
<1> QED
  BY <1>1, RangeInvInitially, RangeInvKept, PTL DEF Spec

-----------------------------------------------------------------------------
(* Versions: what a deployment has done by each of its steps.               *)

TargetSteps == {"reserve", "cursor", "range", "seed", "read range", "read symbols", "bind"}

Bound(v, t) == PathsOf(v, t) \subseteq DOMAIN symkeys[t]

HooksLead(v) == \A h \in HookRules(v) : hookRules[h[1]] # NoTopic

PartDone(step, i) == step = "app" \/ \E j \in DOMAIN Parts : step = Parts[j] /\ i < j

\* Targets still to do are listed; the first is that whose symbols were read.
ListsTargets(d) ==
    /\ d.todo \in Seq(AllTargets) /\ d.todo # <<>>
    /\ \A t \in Targets(d.version) :
          Bound(d.version, t) \/ \E i \in 1..Len(d.todo) : d.todo[i] = t
    /\ DOMAIN d.known \subseteq DOMAIN symkeys[Head(d.todo)]

OnCourse(d) ==
    /\ d.version \in Versions
    /\ IF d.step \in TargetSteps THEN ListsTargets(d)
       ELSE \A t \in Targets(d.version) : Bound(d.version, t)
    /\ d.step \in PartSet \cup {"app"} => HooksLead(d.version)
    /\ \A i \in DOMAIN Parts : PartDone(d.step, i) => Parts[i] \in saved[d.version]

Complete(v) ==
    /\ v \in Versions
    /\ \A i \in DOMAIN Parts : Parts[i] \in saved[v]
    /\ \A t \in Targets(v) : Bound(v, t)
    /\ HooksLead(v)

StoreShaped ==
    /\ DOMAIN symkeys = AllTargets
    /\ DOMAIN saved = Versions
    /\ DOMAIN hookRules = Topics
    /\ {"version", "deployed"} \subseteq DOMAIN app

CompleteInv ==
    /\ DeployShaped /\ StoreShaped
    /\ \A e \in Engines : deploy[e].step \notin Ended => OnCourse(deploy[e])
    /\ \A v \in app.deployed : Complete(v)

\* Nothing that is stored is taken away.
Grows ==
    /\ \A t \in AllTargets : DOMAIN symkeys[t] \subseteq DOMAIN symkeys'[t]
    /\ \A v \in Versions : saved[v] \subseteq saved'[v]
    /\ \A t \in Topics : hookRules[t] # NoTopic => hookRules'[t] # NoTopic

LEMMA TargetsOfVersion ==
    ASSUME NEW v \in Versions
    PROVE  /\ Targets(v) \subseteq AllTargets /\ IsFiniteSet(Targets(v)) /\ Targets(v) # {}
           /\ \A h \in HookRules(v) : h[1] \in Topics
<1>1. Targets(v) \subseteq AllTargets
  BY DEF AllTargets
<1>2. IsFiniteSet(Targets(v))
  BY <1>1, ManifestAssumption, FS_Subset
<1>3. Targets(v) # {}
  BY ManifestAssumption DEF Targets
<1>4. \A h \in HookRules(v) : h[1] \in Topics
  BY DEF Topics
<1> QED
  BY <1>1, <1>2, <1>3, <1>4

LEMMA StaysBound ==
    ASSUME Grows, NEW v \in Versions, NEW t \in Targets(v), Bound(v, t) PROVE Bound(v, t)'
  BY TargetsOfVersion DEF Grows, Bound

LEMMA StillLead == ASSUME Grows, NEW v \in Versions, HooksLead(v) PROVE HooksLead(v)'
  BY TargetsOfVersion DEF Grows, HooksLead

LEMMA StaysComplete == ASSUME Grows, NEW v, Complete(v) PROVE Complete(v)'
<1>1. v \in Versions
  BY DEF Complete
<1>2. \A i \in DOMAIN Parts : Parts[i] \in saved'[v]
  BY <1>1 DEF Complete, Grows
<1>3. ASSUME NEW t \in Targets(v) PROVE Bound(v, t)'
  BY <1>1, StaysBound DEF Complete
<1>4. HooksLead(v)'
  BY <1>1, StillLead DEF Complete
<1> QED
  BY <1>1, <1>2, <1>3, <1>4 DEF Complete

LEMMA StaysOnCourse == ASSUME Grows, NEW d, OnCourse(d) PROVE OnCourse(d)'
<1>1. d.version \in Versions
  BY DEF OnCourse
<1>2. ASSUME d.step \in TargetSteps PROVE ListsTargets(d)'
  <2>1. ListsTargets(d)
    BY <1>2 DEF OnCourse
  <2>2. Head(d.todo) \in AllTargets
    BY <2>1 DEF ListsTargets
  <2>3. DOMAIN d.known \subseteq DOMAIN symkeys'[Head(d.todo)]
    BY <2>1, <2>2 DEF ListsTargets, Grows
  <2>4. ASSUME NEW t \in Targets(d.version)
        PROVE  Bound(d.version, t)' \/ \E i \in 1..Len(d.todo) : d.todo[i] = t
    BY <1>1, <2>1, StaysBound DEF ListsTargets
  <2> QED
    BY <2>1, <2>3, <2>4 DEF ListsTargets
<1>3. ASSUME d.step \notin TargetSteps, NEW t \in Targets(d.version)
      PROVE  Bound(d.version, t)'
  BY <1>1, <1>3, StaysBound DEF OnCourse
<1>4. d.step \in PartSet \cup {"app"} => HooksLead(d.version)'
  BY <1>1, StillLead DEF OnCourse
<1>5. \A i \in DOMAIN Parts : PartDone(d.step, i) => Parts[i] \in saved'[d.version]
  BY <1>1 DEF OnCourse, Grows
<1> QED
  BY <1>1, <1>2, <1>3, <1>4, <1>5 DEF OnCourse, PartDone

\* One deployment goes on, and is on course after that.
LEMMA OneOnCourse ==
    ASSUME CompleteInv, Grows, StoreShaped', app' = app, DeployShaped',
           NEW e \in Engines, \A f \in Engines : f # e => deploy'[f] = deploy[f],
           NEW d, deploy'[e] = d, d.step \notin Ended => OnCourse(d)'
    PROVE  CompleteInv'
<1>1. ASSUME NEW f \in Engines, deploy'[f].step \notin Ended PROVE OnCourse(deploy[f])'
  <2>1. CASE f = e
    BY <1>1, <2>1 DEF OnCourse, ListsTargets, Bound, HooksLead
  <2>2. CASE f # e
    <3>1. PICK c : c = deploy[f]
      OBVIOUS
    <3>2. OnCourse(c) /\ c = deploy'[f]
      BY <1>1, <2>2, <3>1 DEF CompleteInv
    <3>3. OnCourse(c)'
      BY <3>2, StaysOnCourse
    <3> QED
      BY <3>2, <3>3 DEF OnCourse, ListsTargets, Bound, HooksLead
  <2> QED
    BY <2>1, <2>2
<1>2. ASSUME NEW v \in app.deployed PROVE Complete(v)'
  BY StaysComplete DEF CompleteInv
<1> QED
  BY <1>1, <1>2 DEF CompleteInv

LEMMA StepsApart ==
    /\ TargetSteps \cap (Ended \cup PartSet \cup {"app", "values", "add values", "hooks"}) = {}
    /\ PartSet \cap (Ended \cup {"app", "values", "add values", "hooks"}) = {}
    /\ \A i, j \in DOMAIN Parts : Parts[i] = Parts[j] => i = j
    /\ \A i \in DOMAIN Parts : Parts[i] \in PartSet
    /\ \A x : x \notin PartSet \cup {"app"} => \A i \in DOMAIN Parts : ~PartDone(x, i)
<1>1. \A i, j \in DOMAIN Parts : Parts[i] = Parts[j] => i = j
  <2> SUFFICES ASSUME NEW i \in 1..4, NEW j \in 1..4, Parts[i] = Parts[j] PROVE i = j
    BY PartsListed
  <2>1. i = 1 \/ i = 2 \/ i = 3 \/ i = 4
    OBVIOUS
  <2>2. j = 1 \/ j = 2 \/ j = 3 \/ j = 4
    OBVIOUS
  <2>3. CASE i = 1
    BY <2>2, <2>3, PartsListed
  <2>4. CASE i = 2
    BY <2>2, <2>4, PartsListed
  <2>5. CASE i = 3
    BY <2>2, <2>5, PartsListed
  <2>6. CASE i = 4
    BY <2>2, <2>6, PartsListed
  <2> QED
    BY <2>1, <2>3, <2>4, <2>5, <2>6
<1>2. \A x : x \notin PartSet \cup {"app"} => \A i \in DOMAIN Parts : ~PartDone(x, i)
  BY PartsListed DEF PartDone
<1> QED
  BY <1>1, <1>2, PartsListed DEF TargetSteps, PartSet, Ended

\* A deployment goes on with its version, and is on course after that.
LEMMA GoesOn ==
    ASSUME CompleteInv, Grows, StoreShaped', app' = app, NEW e \in Engines,
           deploy[e].step \notin Ended, NEW d, deploy' = [deploy EXCEPT ![e] = d],
           DOMAIN d = DOMAIN deploy[e], OnCourse(d)'
    PROVE  CompleteInv'
<1>1. {"step", "version", "todo", "lower", "known"} \subseteq DOMAIN d
  BY FieldsKept DEF CompleteInv
<1>2. DeployShaped' /\ deploy'[e] = d /\ \A f \in Engines : f # e => deploy'[f] = deploy[f]
  BY <1>1, ShapeKept DEF CompleteInv
<1> QED
  BY <1>2, OneOnCourse

LEMMA StepFields ==
    ASSUME DeployShaped, NEW e \in Engines, deploy[e].step \notin Ended, NEW s, NEW d,
           d = [deploy[e] EXCEPT !.step = s]
    PROVE  /\ DOMAIN d = DOMAIN deploy[e] /\ d.step = s /\ d.todo = deploy[e].todo
           /\ d.version = deploy[e].version /\ d.known = deploy[e].known
           /\ Goto(e, s) = [deploy EXCEPT ![e] = d]
  BY DEF DeployShaped, Goto

\* A step between two round trips at the same target.
LEMMA AtSameTarget ==
    ASSUME CompleteInv, Grows, StoreShaped', app' = app, NEW e \in Engines,
           deploy[e].step \in TargetSteps, NEW d, deploy' = [deploy EXCEPT ![e] = d],
           DOMAIN d = DOMAIN deploy[e], d.step \in TargetSteps,
           d.todo = deploy[e].todo, d.version = deploy[e].version,
           \/ d.known = deploy[e].known
           \/ DOMAIN d.known \subseteq DOMAIN symkeys[Target(e)]
    PROVE  CompleteInv'
<1>1. deploy[e].step \notin Ended /\ OnCourse(deploy[e])
  BY StepsApart DEF CompleteInv
<1>2. PICK c : c = deploy[e]
  OBVIOUS
<1>3. OnCourse(c) /\ OnCourse(c)'
  BY <1>1, <1>2, StaysOnCourse
<1>4. ListsTargets(c) /\ ListsTargets(c)'
  BY <1>2, <1>3 DEF OnCourse
<1>5. DOMAIN d.known \subseteq DOMAIN symkeys'[Head(c.todo)]
  <2>1. CASE d.known = c.known
    BY <1>4, <2>1 DEF ListsTargets
  <2>2. CASE DOMAIN d.known \subseteq DOMAIN symkeys[Target(e)]
    <3>1. Target(e) = Head(c.todo) /\ Head(c.todo) \in AllTargets
      BY <1>2, <1>4 DEF Target, ListsTargets
    <3> QED
      BY <2>2, <3>1 DEF Grows
  <2> QED
    BY <1>2, <2>1, <2>2
<1>6. ListsTargets(d)'
  BY <1>2, <1>4, <1>5 DEF ListsTargets
<1>7. OnCourse(d)'
  BY <1>2, <1>3, <1>6, StepsApart DEF OnCourse
<1> QED
  BY <1>1, <1>7, GoesOn

LEMMA SameTarget ==
    ASSUME CompleteInv, Grows, StoreShaped', app' = app, NEW e \in Engines,
           deploy[e].step \in TargetSteps, NEW s \in TargetSteps, deploy' = Goto(e, s)
    PROVE  CompleteInv'
<1>1. PICK d : d = [deploy[e] EXCEPT !.step = s]
  OBVIOUS
<1>2. deploy[e].step \notin Ended /\ DeployShaped
  BY StepsApart DEF CompleteInv
<1>3. /\ DOMAIN d = DOMAIN deploy[e] /\ d.step = s /\ d.todo = deploy[e].todo
      /\ d.version = deploy[e].version /\ d.known = deploy[e].known
      /\ deploy' = [deploy EXCEPT ![e] = d]
  BY <1>1, <1>2, StepFields
<1> QED
  BY <1>3, AtSameTarget

LEMMA SymbolsUnchanged ==
    ASSUME UNCHANGED <<symkeys, saved, hookRules>> PROVE Grows
  BY DEF Grows

LEMMA ShapeUnchanged ==
    ASSUME StoreShaped, UNCHANGED <<symkeys, saved, hookRules, app>> PROVE StoreShaped'
  BY DEF StoreShaped

\* Symbols are only ever added.
LEMMA SymbolsAdded ==
    ASSUME StoreShaped, UNCHANGED <<saved, hookRules, app>>, NEW t, NEW f,
           symkeys' = [symkeys EXCEPT ![t] = WithFields(f, symkeys[t])]
    PROVE  Grows /\ StoreShaped'
           /\ (t \in AllTargets => DOMAIN f \subseteq DOMAIN symkeys'[t])
<1>1. DOMAIN WithFields(f, symkeys[t]) = DOMAIN f \cup DOMAIN symkeys[t]
  BY DEF WithFields
<1>2. DOMAIN symkeys' = AllTargets
  BY DEF StoreShaped
<1>3. ASSUME NEW u \in AllTargets PROVE DOMAIN symkeys[u] \subseteq DOMAIN symkeys'[u]
  BY <1>1 DEF StoreShaped
<1> QED
  BY <1>1, <1>2, <1>3 DEF Grows, StoreShaped

LEMMA BindKeepsComplete ==
    ASSUME CompleteInv, NEW e \in Engines, BindSymbols(e), UNCHANGED versionVars
    PROVE  CompleteInv'
<1>1. /\ deploy[e].step = "bind" /\ UNCHANGED <<saved, hookRules, app>>
      /\ deploy[e].step \in TargetSteps /\ deploy[e].step \notin Ended
  BY DEF BindSymbols, versionVars, TargetSteps, Ended
<1>2. OnCourse(deploy[e]) /\ StoreShaped /\ DeployShaped
  BY <1>1 DEF CompleteInv
<1>3. CASE deploy' = [deploy EXCEPT ![e] = [step |-> "failed"]] /\ UNCHANGED symkeys
  <2>1. PICK d : d = [step |-> "failed"]
    OBVIOUS
  <2>2. "step" \in DOMAIN d /\ d.step = "failed"
    BY <2>1
  <2>3. DeployShaped' /\ deploy'[e] = d /\ \A f \in Engines : f # e => deploy'[f] = deploy[f]
    BY <1>2, <1>3, <2>1, <2>2, ShapeKept DEF Ended
  <2>4. Grows /\ StoreShaped'
    BY <1>1, <1>2, <1>3, SymbolsUnchanged, ShapeUnchanged
  <2> QED
    BY <1>1, <2>2, <2>3, <2>4, OneOnCourse DEF Ended
<1>4. ASSUME deploy' = NextTarget(e), NEW f,
             DOMAIN f = NewPaths(e), symkeys' = [symkeys EXCEPT ![Target(e)] = WithFields(f, symkeys[Target(e)])]
      PROVE  CompleteInv'
  <2>1. PICK c, t : c = deploy[e] /\ t = Target(e)
    OBVIOUS
  <2>2. /\ c.version \in Versions /\ c.todo \in Seq(AllTargets) /\ c.todo # <<>>
        /\ t = Head(c.todo) /\ t \in AllTargets /\ DOMAIN c.known \subseteq DOMAIN symkeys[t]
    BY <1>1, <1>2, <2>1 DEF OnCourse, ListsTargets, Target
  <2>3. Grows /\ StoreShaped' /\ DOMAIN f \subseteq DOMAIN symkeys'[t]
    BY <1>1, <1>2, <1>4, <2>1, <2>2, SymbolsAdded
  <2>4. DOMAIN symkeys[t] \subseteq DOMAIN symkeys'[t]
    BY <2>2, <2>3 DEF Grows
  <2>5. PathsOf(c.version, t) \subseteq DOMAIN symkeys'[t]
    BY <1>4, <2>1, <2>2, <2>3, <2>4 DEF NewPaths
  <2>6. PICK s : s = IF Len(c.todo) > 1 THEN "reserve" ELSE "values"
    OBVIOUS
  <2>7. PICK d : d = [deploy[e] EXCEPT !.todo = Tail(@), !.known = <<>>, !.lower = 0, !.step = s]
    OBVIOUS
  <2>8. /\ DOMAIN d = DOMAIN deploy[e] /\ d.step = s /\ d.version = c.version
        /\ d.todo = Tail(c.todo) /\ d.known = <<>>
    BY <1>1, <1>2, <2>1, <2>7 DEF DeployShaped
  <2>9. deploy' = [deploy EXCEPT ![e] = d]
    BY <1>2, <1>4, <2>1, <2>6, <2>7 DEF NextTarget, DeployShaped
  <2>10. {"step", "version", "todo", "lower", "known"} \subseteq DOMAIN d
    BY <1>1, <1>2, <2>8, FieldsKept
  <2>11. DeployShaped' /\ deploy'[e] = d /\ \A g \in Engines : g # e => deploy'[g] = deploy[g]
    BY <1>2, <2>9, <2>10, ShapeKept
  <2>12. OnCourse(c)'
    BY <1>2, <2>1, <2>3, StaysOnCourse
  <2>13. ListsTargets(c)'
    BY <1>1, <2>1, <2>12 DEF OnCourse
  <2>17. /\ Len(c.todo) \in Nat /\ Len(c.todo) > 0 /\ Tail(c.todo) \in Seq(AllTargets)
         /\ Len(Tail(c.todo)) = Len(c.todo) - 1
    BY <2>2
  <2>18. PICK n : n \in Nat /\ n > 0 /\ n = Len(c.todo) /\ n - 1 = Len(Tail(c.todo))
    BY <2>17
  <2>19. n \in Nat /\ n > 0
    BY <2>18
  <2>20. (n = 1 \/ n > 1) /\ (n > 1 => n - 1 # 0) /\ (n = 1 => n - 1 = 0)
    BY <2>19
  <2>14. ASSUME NEW u \in Targets(c.version), NEW i \in 1..Len(c.todo), c.todo[i] = u
         PROVE  \/ Bound(c.version, u)'
                \/ i - 1 \in 1..Len(Tail(c.todo)) /\ Tail(c.todo)[i - 1] = u
    <3>1. CASE i = 1
      <4>1. u = t
        BY <2>2, <2>14, <3>1
      <4> QED
        BY <2>5, <4>1 DEF Bound
    <3>2. CASE i # 1
      <4>1. /\ Len(Tail(c.todo)) = Len(c.todo) - 1 /\ Len(c.todo) \in Nat
            /\ \A k \in 1..Len(Tail(c.todo)) : Tail(c.todo)[k] = c.todo[k + 1]
        BY <2>2
      <4>2. i - 1 \in 1..Len(Tail(c.todo)) /\ (i - 1) + 1 = i
        BY <3>2, <4>1
      <4> QED
        BY <2>14, <4>1, <4>2
    <3> QED
      BY <3>1, <3>2
  <2>15. \A u \in Targets(c.version) :
            Bound(c.version, u)' \/ \E i \in 1..Len(Tail(c.todo)) : Tail(c.todo)[i] = u
    BY <2>13, <2>14 DEF ListsTargets
  <2>16. OnCourse(d)'
    <3>1. CASE n > 1
      <4>1. s = "reserve" /\ Tail(c.todo) \in Seq(AllTargets) /\ Tail(c.todo) # <<>>
        <5>1. s = "reserve"
          BY <2>6, <2>18, <3>1
        <5>2. Len(Tail(c.todo)) # 0
          BY <2>18, <2>20, <3>1
        <5>3. Len(<<>>) = 0
          OBVIOUS
        <5>4. Tail(c.todo) # <<>>
          BY <5>2, <5>3
        <5> QED
          BY <2>17, <5>1, <5>4
      <4>2. DOMAIN d.known = {}
        BY <2>8
      <4>3. ListsTargets(d)'
        BY <2>8, <2>15, <4>1, <4>2 DEF ListsTargets
      <4> QED
        BY <2>2, <2>8, <4>1, <4>3, StepsApart DEF OnCourse, TargetSteps
    <3>2. CASE n = 1
      <4>1. s = "values" /\ Len(Tail(c.todo)) = 0
        BY <2>6, <2>18, <2>20, <3>2
      <4>2. \A u \in Targets(c.version) : Bound(c.version, u)'
        BY <2>15, <4>1
      <4>3. s \notin TargetSteps /\ s \notin PartSet \cup {"app"}
        BY <4>1, StepsApart DEF PartSet, TargetSteps
      <4>4. \A i \in DOMAIN Parts : ~PartDone(s, i)
        BY <4>3, StepsApart
      <4> QED
        BY <2>2, <2>8, <4>2, <4>3, <4>4 DEF OnCourse
    <3> QED
      BY <2>20, <3>1, <3>2
  <2> QED
    BY <1>1, <2>3, <2>11, <2>16, OneOnCourse
<1>5. \A S, n : DOMAIN Numbered(S, n) = S
  BY DEF Numbered
<1>6. \/ deploy' = [deploy EXCEPT ![e] = [step |-> "failed"]] /\ UNCHANGED symkeys
      \/ /\ deploy' = NextTarget(e)
         /\ symkeys' = [symkeys EXCEPT ![Target(e)] =
              WithFields(Numbered(NewPaths(e), StartIndex(deploy[e].lower, deploy[e].known)),
                         symkeys[Target(e)])]
  BY DEF BindSymbols
<1> QED
  BY <1>3, <1>4, <1>5, <1>6

LEMMA TargetStepKeepsComplete ==
    ASSUME CompleteInv, NEW e \in Engines, SymbolStep(e), UNCHANGED versionVars
    PROVE  CompleteInv'
<1>1. UNCHANGED <<saved, hookRules, app>> /\ DeployShaped /\ StoreShaped
  BY DEF versionVars, CompleteInv
<1>2. UNCHANGED symkeys => Grows /\ StoreShaped'
  BY <1>1, SymbolsUnchanged, ShapeUnchanged
<1>3. CASE Reserve(e)
  <2>1. /\ deploy[e].step \in TargetSteps /\ UNCHANGED symkeys
        /\ deploy' = Goto(e, "cursor") \/ deploy' = Goto(e, "read range")
    BY <1>3 DEF Reserve, TargetSteps
  <2> QED
    BY <1>1, <1>2, <2>1, SameTarget DEF TargetSteps
<1>4. CASE MoveCursor(e)
  <2>1. PICK d : d = [deploy[e] EXCEPT !.step = "range", !.lower = cursor]
    OBVIOUS
  <2>2. deploy[e].step \in TargetSteps /\ deploy[e].step \notin Ended /\ UNCHANGED symkeys
    BY <1>4 DEF MoveCursor, TargetSteps, Ended
  <2>3. /\ DOMAIN d = DOMAIN deploy[e] /\ d.step = "range" /\ d.todo = deploy[e].todo
        /\ d.version = deploy[e].version /\ d.known = deploy[e].known
    BY <1>1, <2>1, <2>2 DEF DeployShaped
  <2>4. deploy' = [deploy EXCEPT ![e] = d]
    BY <1>1, <1>4, <2>1 DEF MoveCursor, DeployShaped
  <2> QED
    BY <1>1, <1>2, <2>2, <2>3, <2>4, AtSameTarget DEF TargetSteps
<1>5. CASE SetRange(e)
  BY <1>1, <1>2, <1>5, SameTarget DEF SetRange, TargetSteps
<1>6. CASE Seed(e)
  <2>1. PICK f : f = Numbered(MetaPaths, deploy[e].lower)
    OBVIOUS
  <2>2. /\ deploy[e].step \in TargetSteps /\ deploy' = Goto(e, "bind")
        /\ symkeys' = [symkeys EXCEPT ![Target(e)] = WithFields(f, symkeys[Target(e)])]
    BY <1>6, <2>1 DEF Seed, TargetSteps
  <2>3. Grows /\ StoreShaped'
    BY <1>1, <2>2, SymbolsAdded
  <2> QED
    BY <1>1, <2>2, <2>3, SameTarget DEF TargetSteps
<1>7. CASE ReadRange(e)
  <2>1. PICK d : d = [deploy[e] EXCEPT !.step = "read symbols", !.lower = ranges[Target(e)][1]]
    OBVIOUS
  <2>2. deploy[e].step \in TargetSteps /\ deploy[e].step \notin Ended /\ UNCHANGED symkeys
    BY <1>7 DEF ReadRange, TargetSteps, Ended
  <2>3. /\ DOMAIN d = DOMAIN deploy[e] /\ d.step = "read symbols" /\ d.todo = deploy[e].todo
        /\ d.version = deploy[e].version /\ d.known = deploy[e].known
    BY <1>1, <2>1, <2>2 DEF DeployShaped
  <2>4. deploy' = [deploy EXCEPT ![e] = d]
    BY <1>1, <1>7, <2>1 DEF ReadRange, DeployShaped
  <2> QED
    BY <1>1, <1>2, <2>2, <2>3, <2>4, AtSameTarget DEF TargetSteps
<1>8. CASE ReadSymbols(e)
  <2>1. PICK d : d = [deploy[e] EXCEPT !.step = "bind", !.known = symkeys[Target(e)]]
    OBVIOUS
  <2>2. deploy[e].step \in TargetSteps /\ deploy[e].step \notin Ended /\ UNCHANGED symkeys
    BY <1>8 DEF ReadSymbols, TargetSteps, Ended
  <2>3. /\ DOMAIN d = DOMAIN deploy[e] /\ d.step = "bind" /\ d.todo = deploy[e].todo
        /\ d.version = deploy[e].version /\ d.known = symkeys[Target(e)]
    BY <1>1, <2>1, <2>2 DEF DeployShaped
  <2>4. deploy' = [deploy EXCEPT ![e] = d]
    BY <1>1, <1>8, <2>1 DEF ReadSymbols, DeployShaped
  <2> QED
    BY <1>1, <1>2, <2>2, <2>3, <2>4, AtSameTarget DEF TargetSteps
<1> QED
  BY <1>3, <1>4, <1>5, <1>6, <1>7, <1>8, BindKeepsComplete DEF SymbolStep

\* A deployment that is past its targets, but has not come to the parts.
LEMMA PastTargets ==
    ASSUME CompleteInv, Grows, StoreShaped', app' = app, NEW e \in Engines,
           deploy[e].step \in {"values", "add values"}, NEW d,
           deploy' = [deploy EXCEPT ![e] = d], DOMAIN d = DOMAIN deploy[e],
           d.step \in {"add values", "hooks"}, d.version = deploy[e].version
    PROVE  CompleteInv'
<1>1. deploy[e].step \notin Ended /\ OnCourse(deploy[e])
  BY DEF Ended, CompleteInv
<1>2. PICK c : c = deploy[e]
  OBVIOUS
<1>3. OnCourse(c)'
  BY <1>1, <1>2, StaysOnCourse
<1>4. /\ c.version \in Versions
      /\ \A t \in Targets(c.version) : Bound(c.version, t)'
  BY <1>2, <1>3 DEF OnCourse, TargetSteps
<1>5. d.step \notin TargetSteps /\ d.step \notin PartSet \cup {"app"}
  BY DEF TargetSteps, PartSet
<1>6. OnCourse(d)'
  BY <1>2, <1>4, <1>5, StepsApart DEF OnCourse
<1> QED
  BY <1>1, <1>6, GoesOn

LEMMA ValuesKeepComplete ==
    ASSUME CompleteInv, NEW e \in Engines, ReadValues(e) \/ AddValues(e) PROVE CompleteInv'
<1>1. /\ UNCHANGED <<symkeys, saved, hookRules, app>> /\ DeployShaped /\ StoreShaped
      /\ deploy[e].step \in {"values", "add values"} /\ deploy[e].step \notin Ended
  BY DEF ReadValues, AddValues, CompleteInv, Ended
<1>2. Grows /\ StoreShaped'
  BY <1>1, SymbolsUnchanged, ShapeUnchanged
<1>3. CASE ReadValues(e)
  <2>1. PICK d : d = [deploy[e] EXCEPT !.step = "add values", !.known = Copy(e)]
    OBVIOUS
  <2>2. /\ DOMAIN d = DOMAIN deploy[e] /\ d.step = "add values"
        /\ d.version = deploy[e].version
    BY <1>1, <2>1 DEF DeployShaped
  <2>3. deploy' = [deploy EXCEPT ![e] = d]
    BY <1>1, <1>3, <2>1 DEF ReadValues, DeployShaped
  <2> QED
    BY <1>1, <1>2, <2>2, <2>3, PastTargets
<1>4. CASE AddValues(e)
  <2>1. PICK d : d = [deploy[e] EXCEPT !.step = "hooks", !.known = <<>>]
    OBVIOUS
  <2>2. DOMAIN d = DOMAIN deploy[e] /\ d.step = "hooks" /\ d.version = deploy[e].version
    BY <1>1, <2>1 DEF DeployShaped
  <2>3. deploy' = [deploy EXCEPT ![e] = d]
    BY <1>1, <1>4, <2>1 DEF AddValues, DeployShaped
  <2> QED
    BY <1>1, <1>2, <2>2, <2>3, PastTargets
<1> QED
  BY <1>3, <1>4

\* Now each topic of the version leads somewhere.
LEMMA HookRulesKeepComplete ==
    ASSUME CompleteInv, NEW e \in Engines, SaveHookRules(e) PROVE CompleteInv'
<1>1. /\ UNCHANGED <<symkeys, saved, app>> /\ DeployShaped /\ StoreShaped
      /\ deploy[e].step = "hooks" /\ deploy[e].step \notin Ended /\ OnCourse(deploy[e])
      /\ deploy' = Goto(e, "schemas")
  BY PartsListed DEF SaveHookRules, CompleteInv, Ended
<1>2. PICK c, rules : c = deploy[e] /\ rules = HookRules(c.version)
  OBVIOUS
<1>3. c.version \in Versions /\ \A t \in Targets(c.version) : Bound(c.version, t)
  BY <1>1, <1>2 DEF OnCourse, TargetSteps
<1>4. hookRules' = [t \in Topics |->
          IF \E r \in rules : r[1] = t THEN (CHOOSE r \in rules : r[1] = t)[2] ELSE hookRules[t]]
  BY <1>2 DEF SaveHookRules
<1>5. ASSUME NEW t \in Topics, \E r \in rules : r[1] = t PROVE hookRules'[t] # NoTopic
  BY <1>2, <1>3, <1>4, <1>5, ManifestAssumption
<1>6. Grows /\ StoreShaped'
  BY <1>1, <1>4, <1>5 DEF Grows, StoreShaped
<1>7. HooksLead(c.version)'
  BY <1>2, <1>3, <1>5, TargetsOfVersion DEF HooksLead
<1>8. PICK d : d = [deploy[e] EXCEPT !.step = "schemas"]
  OBVIOUS
<1>9. /\ DOMAIN d = DOMAIN deploy[e] /\ d.step = "schemas" /\ d.version = c.version
      /\ deploy' = [deploy EXCEPT ![e] = d]
  BY <1>1, <1>2, <1>8, StepFields
<1>10. \A t \in Targets(c.version) : Bound(c.version, t)'
  BY <1>3, <1>6, StaysBound
<1>11. \A i \in DOMAIN Parts : ~PartDone("schemas", i)
  <2> SUFFICES ASSUME NEW i \in 1..4, PartDone("schemas", i) PROVE FALSE
    BY PartsListed
  <2>1. PICK j \in DOMAIN Parts : Parts[j] = Parts[1] /\ i < j
    BY PartsListed DEF PartDone
  <2>2. 1 \in DOMAIN Parts
    <3>1. DOMAIN Parts = 1..4
      BY PartsListed
    <3> QED
      BY <3>1
  <2>3. \A k, m \in DOMAIN Parts : Parts[k] = Parts[m] => k = m
    BY StepsApart
  <2>4. j = 1
    BY <2>1, <2>2, <2>3
  <2> QED
    BY <2>1, <2>4
<1>12. OnCourse(d)'
  BY <1>3, <1>7, <1>9, <1>10, <1>11, StepsApart DEF OnCourse, TargetSteps
<1> QED
  BY <1>1, <1>6, <1>9, <1>12, GoesOn

LEMMA PartKeepsComplete ==
    ASSUME CompleteInv, NEW e \in Engines, SavePart(e) PROVE CompleteInv'
<1>1. PICK i \in DOMAIN Parts :
        /\ deploy[e].step = Parts[i]
        /\ saved' = [saved EXCEPT ![deploy[e].version] = @ \cup {Parts[i]}]
        /\ deploy' = Goto(e, PartAfter(i)) /\ UNCHANGED <<symkeys, hookRules, app>>
  BY DEF SavePart
<1>2. PICK c, s : c = deploy[e] /\ s = PartAfter(i)
  OBVIOUS
<1>3. /\ deploy[e].step \in PartSet /\ deploy[e].step \notin Ended
      /\ OnCourse(c) /\ StoreShaped /\ DeployShaped
  BY <1>1, <1>2, PartsListed, StepsApart DEF CompleteInv
<1>4. c.version \in Versions /\ Parts[i] \in saved'[c.version]
  BY <1>1, <1>2, <1>3 DEF OnCourse, StoreShaped
<1>5. Grows /\ StoreShaped'
  BY <1>1, <1>3 DEF Grows, StoreShaped
<1>6. OnCourse(c)'
  BY <1>3, <1>5, StaysOnCourse
<1>7. /\ HooksLead(c.version)' /\ \A t \in Targets(c.version) : Bound(c.version, t)'
      /\ \A k \in DOMAIN Parts : PartDone(c.step, k) => Parts[k] \in saved'[c.version]
  BY <1>2, <1>3, <1>6, StepsApart DEF OnCourse, PartDone
<1>8. PICK d : d = [deploy[e] EXCEPT !.step = s]
  OBVIOUS
<1>9. /\ DOMAIN d = DOMAIN deploy[e] /\ d.step = s /\ d.version = c.version
      /\ deploy' = [deploy EXCEPT ![e] = d]
  BY <1>1, <1>2, <1>3, <1>8, StepFields
<1>10. s \in PartSet \cup {"app"} /\ s \notin TargetSteps
  BY <1>2, PartNext, StepsApart
<1>11. ASSUME NEW k \in DOMAIN Parts, PartDone(s, k), k # i PROVE PartDone(c.step, k)
  <2>1. /\ i \in 1..4 /\ k \in 1..4 /\ DOMAIN Parts = 1..4 /\ Len(Parts) = 4
        /\ \A m \in DOMAIN Parts : Parts[m] # "app"
    BY PartsListed DEF PartSet
  <2>2. k < i
    <3>1. CASE i = 4
      BY <1>11, <2>1, <3>1
    <3>2. CASE i # 4
      <4>1. s = Parts[i + 1] /\ i + 1 \in DOMAIN Parts
        BY <1>2, <2>1, <3>2 DEF PartAfter
      <4>2. PICK j \in DOMAIN Parts : Parts[j] = Parts[i + 1] /\ k < j
        BY <1>11, <2>1, <4>1 DEF PartDone
      <4>3. \A l, m \in DOMAIN Parts : Parts[l] = Parts[m] => l = m
        BY StepsApart
      <4>4. j = i + 1
        BY <4>1, <4>2, <4>3
      <4> QED
        BY <1>11, <2>1, <4>2, <4>4
    <3> QED
      BY <3>1, <3>2
  <2> QED
    BY <1>1, <1>2, <2>2 DEF PartDone
<1>12. \A k \in DOMAIN Parts : PartDone(s, k) => Parts[k] \in saved'[c.version]
  BY <1>4, <1>7, <1>11
<1>13. OnCourse(d)'
  BY <1>4, <1>7, <1>9, <1>10, <1>12 DEF OnCourse, PartDone
<1> QED
  BY <1>1, <1>3, <1>5, <1>9, <1>13, GoesOn

LEMMA StopKeepsComplete ==
    ASSUME CompleteInv, NEW e \in Engines, Stop(e) PROVE CompleteInv'
<1>1. PICK d : d = [step |-> "failed"]
  OBVIOUS
<1>2. "step" \in DOMAIN d /\ d.step = "failed" /\ d.step \in Ended
  BY <1>1 DEF Ended
<1>3. deploy' = [deploy EXCEPT ![e] = d] /\ UNCHANGED <<symkeys, saved, hookRules, app>>
  BY <1>1 DEF Stop, StopDeploy, versionVars
<1>4. DeployShaped' /\ deploy'[e] = d /\ \A f \in Engines : f # e => deploy'[f] = deploy[f]
  BY <1>2, <1>3, ShapeKept DEF CompleteInv
<1>5. Grows /\ StoreShaped'
  BY <1>3, SymbolsUnchanged, ShapeUnchanged DEF CompleteInv
<1> QED
  BY <1>2, <1>3, <1>4, <1>5, OneOnCourse

LEMMA OrderIsSeq ==
    ASSUME NEW S, IsFiniteSet(S), S # {}
    PROVE  /\ Order(S) \in Seq(S) /\ Order(S) # <<>>
           /\ \A x \in S : \E i \in 1..Len(Order(S)) : Order(S)[i] = x
<1>1. PICK f, n : f = Order(S) /\ n = Cardinality(S)
  OBVIOUS
<1>2. n \in Nat /\ f \in [1..n -> S] /\ \A x \in S : \E i \in 1..n : f[i] = x
  BY <1>1, OrderEnumerates
<1>3. f \in Seq(S) /\ Len(f) = n
  BY <1>2, SeqDef
<1>4. PICK x, i : x \in S /\ i \in 1..n /\ f[i] = x
  BY <1>2
<1>5. n > 0
  BY <1>2, <1>4
<1>6. Len(<<>>) = 0
  OBVIOUS
<1>7. f # <<>>
  BY <1>3, <1>5, <1>6
<1> QED
  BY <1>1, <1>2, <1>3, <1>7

LEMMA BeginKeepsComplete ==
    ASSUME CompleteInv, NEW e \in Engines, NEW v \in Versions, Begin(e, v) PROVE CompleteInv'
<1>1. PICK o : o = Order(Targets(v))
  OBVIOUS
<1>2. PICK d : d = [step |-> "reserve", version |-> v, todo |-> o, lower |-> 0, known |-> <<>>]
  OBVIOUS
<1>3. /\ d.step = "reserve" /\ d.version = v /\ d.todo = o /\ d.known = <<>>
      /\ {"step", "version", "todo", "lower", "known"} \subseteq DOMAIN d
  BY <1>2
<1>4. deploy' = [deploy EXCEPT ![e] = d] /\ UNCHANGED <<symkeys, saved, hookRules, app>>
  BY <1>1, <1>2 DEF Begin, BeginDeploy, versionVars
<1>5. DeployShaped' /\ deploy'[e] = d /\ \A f \in Engines : f # e => deploy'[f] = deploy[f]
  BY <1>3, <1>4, ShapeKept DEF CompleteInv
<1>6. Grows /\ StoreShaped'
  BY <1>4, SymbolsUnchanged, ShapeUnchanged DEF CompleteInv
<1>7. /\ o \in Seq(Targets(v)) /\ o # <<>>
      /\ \A t \in Targets(v) : \E i \in 1..Len(o) : o[i] = t
  BY <1>1, TargetsOfVersion, OrderIsSeq
<1>8. o \in Seq(AllTargets)
  BY <1>7, TargetsOfVersion
<1>9. DOMAIN d.known = {}
  BY <1>3
<1>10. ListsTargets(d)'
  BY <1>3, <1>7, <1>8, <1>9 DEF ListsTargets
<1>11. OnCourse(d)'
  BY <1>3, <1>10, StepsApart DEF OnCourse, TargetSteps
<1> QED
  BY <1>4, <1>5, <1>6, <1>11, OneOnCourse

\* The version is complete when it is written to the app's hash.
LEMMA SetAppKeepsComplete ==
    ASSUME CompleteInv, NEW e \in Engines, SetApp(e) PROVE CompleteInv'
<1>1. PICK c, d : c = deploy[e] /\ d = [step |-> "done"]
  OBVIOUS
<1>2. "step" \in DOMAIN d /\ d.step = "done" /\ d.step \in Ended
  BY <1>1 DEF Ended
<1>3. /\ c.step = "app" /\ c.step \notin Ended /\ c.step \notin TargetSteps
      /\ deploy' = [deploy EXCEPT ![e] = d] /\ UNCHANGED <<symkeys, saved, hookRules>>
      /\ app' = [version |-> c.version, deployed |-> app.deployed \cup {c.version}]
  BY <1>1 DEF SetApp, Ended, TargetSteps
<1>4. DeployShaped' /\ deploy'[e] = d /\ \A f \in Engines : f # e => deploy'[f] = deploy[f]
  BY <1>2, <1>3, ShapeKept DEF CompleteInv
<1>5. Grows
  BY <1>3, SymbolsUnchanged
<1>6. StoreShaped' /\ app'.deployed = app.deployed \cup {c.version}
  BY <1>3 DEF CompleteInv, StoreShaped
<1>7. OnCourse(c)
  BY <1>1, <1>3 DEF CompleteInv
<1>8. \A i \in DOMAIN Parts : PartDone(c.step, i)
  BY <1>3 DEF PartDone
<1>9. Complete(c.version)
  BY <1>3, <1>7, <1>8 DEF OnCourse, Complete
<1>10. ASSUME NEW v \in app'.deployed PROVE Complete(v)'
  <2>1. Complete(v)
    BY <1>6, <1>9, <1>10 DEF CompleteInv
  <2> QED
    BY <1>5, <2>1, StaysComplete
<1>11. ASSUME NEW f \in Engines, deploy'[f].step \notin Ended PROVE OnCourse(deploy[f])'
  <2>1. f # e
    BY <1>2, <1>4, <1>11
  <2>2. PICK b : b = deploy[f]
    OBVIOUS
  <2>3. b = deploy'[f] /\ OnCourse(b)
    BY <1>4, <1>11, <2>1, <2>2 DEF CompleteInv
  <2>4. OnCourse(b)'
    BY <1>5, <2>3, StaysOnCourse
  <2> QED
    BY <2>3, <2>4 DEF OnCourse, ListsTargets, Bound, HooksLead
<1> QED
  BY <1>4, <1>6, <1>10, <1>11 DEF CompleteInv

\* Activations and executions deploy nothing.
LEMMA NothingDeployed ==
    ASSUME CompleteInv, UNCHANGED <<symkeys, saved, hookRules, deploy>>,
           DOMAIN app' = DOMAIN app, app'.deployed = app.deployed
    PROVE  CompleteInv'
<1>1. DeployShaped' /\ StoreShaped' /\ Grows
  BY SymbolsUnchanged DEF CompleteInv, DeployShaped, StoreShaped
<1>2. ASSUME NEW v \in app'.deployed PROVE Complete(v)'
  BY <1>1, <1>2, StaysComplete DEF CompleteInv
<1>3. ASSUME NEW e \in Engines, deploy'[e].step \notin Ended PROVE OnCourse(deploy[e])'
  <2>1. PICK c : c = deploy[e]
    OBVIOUS
  <2>2. c = deploy'[e] /\ OnCourse(c)
    BY <1>3, <2>1 DEF CompleteInv
  <2>3. OnCourse(c)'
    BY <1>1, <2>2, StaysOnCourse
  <2> QED
    BY <2>2, <2>3 DEF OnCourse, ListsTargets, Bound, HooksLead
<1> QED
  BY <1>1, <1>2, <1>3 DEF CompleteInv

LEMMA CompleteInvKept == ASSUME CompleteInv, [Next]_vars PROVE CompleteInv'
<1>1. ASSUME UNCHANGED deployVars PROVE CompleteInv'
  BY <1>1, NothingDeployed DEF deployVars, symbolVars, versionVars
<1>2. ASSUME NEW e \in Engines, NEW v \in Versions, Begin(e, v) PROVE CompleteInv'
  BY <1>2, BeginKeepsComplete
<1>3. ASSUME NEW e \in Engines, DeployStep(e) \/ Stop(e) PROVE CompleteInv'
  BY <1>3, TargetStepKeepsComplete, ValuesKeepComplete, HookRulesKeepComplete,
     PartKeepsComplete, StopKeepsComplete
  DEF DeployStep, BindTargets
<1>4. ASSUME NEW e \in Engines, SetApp(e) PROVE CompleteInv'
  BY <1>4, SetAppKeepsComplete
<1>5. ASSUME NEW e \in Engines, ActivateAppVersion(e), UNCHANGED symbolVars
      PROVE  CompleteInv'
  <2>1. /\ UNCHANGED <<symkeys, saved, hookRules, deploy>>
        /\ app' = app \/ app' = [app EXCEPT !.version = roll[e].version]
    BY <1>5 DEF ActivateAppVersion, symbolVars
  <2>2. DOMAIN app' = DOMAIN app /\ app'.deployed = app.deployed
    BY <2>1 DEF CompleteInv, StoreShaped
  <2> QED
    BY <2>1, <2>2, NothingDeployed
<1>6. ASSUME NEW e \in Engines, Execute(e) PROVE CompleteInv'
  BY <1>6, NothingDeployed DEF Execute
<1> QED
  BY <1>1, <1>2, <1>3, <1>4, <1>5, <1>6 DEF Next, vars

LEMMA CompleteInvInitially == ASSUME Init PROVE CompleteInv
<1>1. deploy = [e \in Engines |-> Undeployed]
  BY DEF Init, StartFresh, StartDeployed, DeploymentInit, SymbolsInit
<1>2. DeployShaped /\ \A e \in Engines : deploy[e].step \in Ended
  BY <1>1 DEF DeployShaped, Undeployed, Ended
<1>3. CASE StartFresh
  <2>1. /\ DOMAIN symkeys = AllTargets /\ DOMAIN saved = Versions /\ DOMAIN hookRules = Topics
        /\ app = [version |-> None, deployed |-> {}]
    BY <1>3 DEF StartFresh, DeploymentInit, SymbolsInit
  <2>2. StoreShaped /\ app.deployed = {}
    BY <2>1 DEF StoreShaped
  <2> QED
    BY <1>2, <2>2 DEF CompleteInv
<1>4. CASE StartDeployed
  <2>1. /\ symkeys = [t \in AllTargets |-> DeployedKeys(t)]
        /\ hookRules = [t \in Topics |->
              (CHOOSE h \in UNION {HookRules(v) : v \in Versions} : h[1] = t)[2]]
        /\ saved = [v \in Versions |-> {Parts[i] : i \in DOMAIN Parts}]
        /\ app = [version |-> Len(Manifest), deployed |-> Versions]
    BY <1>4 DEF StartDeployed
  <2>2. StoreShaped /\ app.deployed = Versions
    BY <2>1 DEF StoreShaped
  <2>3. ASSUME NEW v \in Versions PROVE Complete(v)
    <3>1. \A i \in DOMAIN Parts : Parts[i] \in saved[v]
      BY <2>1
    <3>2. ASSUME NEW t \in Targets(v) PROVE Bound(v, t)
      <4>1. t \in AllTargets
        BY TargetsOfVersion
      <4>2. PathsOf(v, t) \subseteq DOMAIN DeployedKeys(t)
        BY DEF DeployedKeys
      <4> QED
        BY <2>1, <4>1, <4>2 DEF Bound
    <3>3. ASSUME NEW h \in HookRules(v) PROVE hookRules[h[1]] # NoTopic
      <4>1. PICK rules : rules = UNION {HookRules(w) : w \in Versions}
        OBVIOUS
      <4>2. h \in rules /\ h[1] \in Topics /\ \A r \in rules : r[2] # NoTopic
        BY <4>1, ManifestAssumption, TargetsOfVersion
      <4> QED
        BY <2>1, <4>1, <4>2
    <3> QED
      BY <3>1, <3>2, <3>3 DEF Complete, HooksLead
  <2> QED
    BY <1>2, <2>2, <2>3 DEF CompleteInv
<1> QED
  BY <1>3, <1>4 DEF Init

\* What an activity reads of another by name, the other saves.
LEMMA ConsumedIsProduced ==
    ASSUME NEW v \in Versions, NEW a \in Activities(v), NEW c \in Consumes(v, a),
           c[1] \in Activities(v) \ {a}
    PROVE  c[1] \in Targets(v) /\ c[2] \in PathsOf(v, c[1])
<1>1. PICK r \in Config(v, a).rules :
        c = <<CASE r[1] = "$job" -> GraphOf(v, a).subscribes
                [] r[1] = "$self" -> a
                [] OTHER -> r[1], r[2]>>
  BY DEF Consumes
<1>2. c[2] = r[2]
  BY <1>1
<1>3. c[1] = r[1]
  <2>1. r[1] = "$job" => c[1] = GraphOf(v, a).subscribes
    BY <1>1
  <2>2. r[1] # "$job" /\ r[1] = "$self" => c[1] = a
    BY <1>1
  <2>3. GraphOf(v, a) \in Manifest[v]
    BY DEF GraphOf, Activities
  <2>4. r[1] # "$job" /\ r[1] # "$self"
    BY <2>1, <2>2, <2>3, ManifestAssumption
  <2> QED
    BY <1>1, <2>4
<1>4. c[2] \in Produces(v, c[1])
  BY <1>2, <1>3 DEF Produces, Rules
<1> QED
  BY <1>4 DEF PathsOf, Targets

\* However deployments overlap and wherever they stop, a version is recorded as
\* deployed only when its parts and its hook rules are saved and there is a
\* symbol for each path that is saved, or that an activity reads of another.
THEOREM DeployedIsComplete == Spec => []VersionsComplete
<1>1. CompleteInv => VersionsComplete
  <2> SUFFICES ASSUME CompleteInv, NEW v \in app.deployed
      PROVE  /\ \A i \in DOMAIN Parts : Parts[i] \in saved[v]
             /\ \A t \in Targets(v) : PathsOf(v, t) \subseteq DOMAIN symkeys[t]
             /\ \A a \in Activities(v) : \A c \in Consumes(v, a) :
                   c[1] \in Activities(v) \ {a} => c[2] \in DOMAIN symkeys[c[1]]
             /\ \A h \in HookRules(v) : hookRules[h[1]] # NoTopic
    BY DEF VersionsComplete
  <2>1. /\ v \in Versions /\ \A i \in DOMAIN Parts : Parts[i] \in saved[v]
        /\ \A t \in Targets(v) : PathsOf(v, t) \subseteq DOMAIN symkeys[t]
        /\ \A h \in HookRules(v) : hookRules[h[1]] # NoTopic
    BY DEF CompleteInv, Complete, Bound, HooksLead
  <2>2. ASSUME NEW a \in Activities(v), NEW c \in Consumes(v, a),
               c[1] \in Activities(v) \ {a}
        PROVE  c[2] \in DOMAIN symkeys[c[1]]
    <3>1. c[1] \in Targets(v) /\ c[2] \in PathsOf(v, c[1])
      BY <2>1, <2>2, ConsumedIsProduced
    <3> QED
      BY <2>1, <3>1
  <2> QED
    BY <2>1, <2>2
<1> QED
  BY <1>1, CompleteInvInitially, CompleteInvKept, PTL DEF Spec

-----------------------------------------------------------------------------
(* The quorum.  What an engine has heard, and what it will hear, decides   *)
(* which version it goes on to cache.                                      *)

Messages ==
    [type : {"ping"}, originator : Engines] \cup [type : {"activate"}, version : Versions]

Announced(d) == roll[d].step \in {"announced", "confirmed"}

RollTypes ==
    /\ DOMAIN roll = Engines
    /\ \A d \in Engines :
         /\ roll[d].step \in {"roll", "announced", "confirmed"} => roll[d].version \in Versions
         /\ roll[d].step = "roll" => {"step", "version", "counts", "called"} \subseteq DOMAIN roll[d]
         /\ Announced(d) => {"step", "version"} \subseteq DOMAIN roll[d]

Reads == [reply : Versions \cup {None}, refresh : BOOLEAN, old : BOOLEAN]

ServeTypes ==
    /\ cacheMode \in [Engines -> {"cache", "nocache"}]
    /\ until \in [Engines -> Versions \cup {None}]
    /\ DOMAIN apps = Engines
    /\ inbox \in [Engines -> Seq(Messages)]
    /\ asked \in [Engines -> Seq(Reads)]
    /\ DOMAIN app = {"version", "deployed"} /\ app.deployed \subseteq Versions
    /\ app.version \in Versions \cup {None}

IsAnnouncement(m) == m.type = "activate"

Heard(q) == \A i \in 1..Len(q) : ~IsAnnouncement(q[i])

\* The last announcement an engine with inbox q hears, or has heard, is of v.
HearsLast(q, u, v) ==
    \/ Heard(q) /\ u = v
    \/ \E i \in 1..Len(q) :
          /\ IsAnnouncement(q[i]) /\ q[i].version = v
          /\ \A j \in 1..Len(q) : i < j => ~IsAnnouncement(q[j])

\* An engine that caches, caches what it has last heard of.
CachesWhatItHeard ==
    \A e \in Engines :
        (cacheMode[e] = "cache" /\ until[e] # None) => apps[e] = until[e]

\* An announcement nobody overlapped is the last one.
LastAnnounced ==
    \A d \in Engines \ unsettled : Announced(d) =>
        \A e \in Engines : HearsLast(inbox[e], until[e], roll[d].version)

\* Once such an activation is written, engines that have heard it cache its version,
\* or another if they are misled; what they have asked for since they heard it is
\* that version, or not the one that is awaited.
Settled ==
    settledBy = "activation" =>
        \A e \in Engines : Heard(inbox[e]) =>
            /\ until[e] # None
            /\ cacheMode[e] = "cache" => apps[e] = app.version \/ e \in misled
            /\ \A i \in 1..Len(asked[e]) :
                 (~asked[e][i].old /\ asked[e][i].reply = until[e]) => until[e] = app.version

QuorumInv == RollTypes /\ ServeTypes /\ CachesWhatItHeard /\ LastAnnounced /\ Settled

LEMMA NoneIsNoVersion == None \notin Versions
  BY NumberingAssumption DEF None

-----------------------------------------------------------------------------
(* Inboxes.                                                                *)

\* A message at the end of an inbox.
LEMMA Appended ==
    ASSUME NEW q \in Seq(Messages), NEW m \in Messages, NEW u, NEW v
    PROVE  /\ Append(q, m) \in Seq(Messages)
           /\ ~IsAnnouncement(m) => (Heard(Append(q, m)) <=> Heard(q))
           /\ IsAnnouncement(m) => ~Heard(Append(q, m))
           /\ (~IsAnnouncement(m) /\ HearsLast(q, u, v)) => HearsLast(Append(q, m), u, v)
           /\ (IsAnnouncement(m) /\ m.version = v) => HearsLast(Append(q, m), u, v)
<1>1. PICK r, n : r = Append(q, m) /\ n = Len(q)
  OBVIOUS
<1>2. /\ r \in Seq(Messages) /\ n \in Nat /\ Len(r) = n + 1 /\ r[n + 1] = m
      /\ \A i \in 1..n : r[i] = q[i]
  BY <1>1
<1>3. /\ n + 1 \in 1..Len(r) /\ \A i \in 1..n : i \in 1..Len(r)
      /\ \A i \in 1..Len(r) : i \in 1..n \/ i = n + 1
      /\ \A j \in 1..Len(r) : ~(n + 1 < j)
  BY <1>2
<1>4. ~IsAnnouncement(m) => (Heard(r) <=> Heard(q))
  BY <1>1, <1>2, <1>3 DEF Heard
<1>5. IsAnnouncement(m) => ~Heard(r)
  BY <1>2, <1>3 DEF Heard
<1>6. ASSUME ~IsAnnouncement(m), HearsLast(q, u, v) PROVE HearsLast(r, u, v)
  <2>1. CASE Heard(q) /\ u = v
    BY <1>4, <1>6, <2>1 DEF HearsLast
  <2>2. CASE ~(Heard(q) /\ u = v)
    <3>1. PICK i \in 1..n : /\ IsAnnouncement(q[i]) /\ q[i].version = v
                            /\ \A j \in 1..n : i < j => ~IsAnnouncement(q[j])
      BY <1>1, <1>6, <2>2 DEF HearsLast
    <3>2. /\ i \in 1..Len(r) /\ IsAnnouncement(r[i]) /\ r[i].version = v
          /\ \A j \in 1..Len(r) : i < j => ~IsAnnouncement(r[j])
      BY <1>2, <1>3, <1>6, <3>1
    <3> QED
      BY <3>2 DEF HearsLast
  <2> QED
    BY <2>1, <2>2
<1>7. (IsAnnouncement(m) /\ m.version = v) => HearsLast(r, u, v)
  BY <1>2, <1>3 DEF HearsLast
<1> QED
  BY <1>1, <1>2, <1>4, <1>5, <1>6, <1>7

\* A message taken from the front of an inbox; w is what was heard last, then.
LEMMA Taken ==
    ASSUME NEW q \in Seq(Messages), q # <<>>, NEW u, NEW v, NEW w,
           w = IF IsAnnouncement(Head(q)) THEN Head(q).version ELSE u
    PROVE  /\ Head(q) \in Messages /\ Tail(q) \in Seq(Messages)
           /\ Heard(Tail(q)) <=> (\A i \in 1..Len(q) : i # 1 => ~IsAnnouncement(q[i]))
           /\ ~IsAnnouncement(Head(q)) => (Heard(Tail(q)) <=> Heard(q))
           /\ HearsLast(q, u, v) => HearsLast(Tail(q), w, v)
<1>1. PICK r, n, m : r = Tail(q) /\ n = Len(q) /\ m = Head(q)
  OBVIOUS
<1>2. /\ r \in Seq(Messages) /\ n \in Nat /\ n # 0 /\ m = q[1] /\ m \in Messages
      /\ Len(r) = n - 1 /\ \A i \in 1..Len(r) : r[i] = q[i + 1]
  BY <1>1
<1>3. /\ 1 \in 1..n
      /\ \A i \in 1..n : i # 1 => i - 1 \in 1..Len(r) /\ r[i - 1] = q[i]
      /\ \A i \in 1..Len(r) : i + 1 \in 1..n /\ i + 1 # 1 /\ r[i] = q[i + 1]
  <2>1. \A i \in 1..n : i # 1 => i - 1 \in 1..(n - 1) /\ (i - 1) + 1 = i
    BY <1>2
  <2>2. \A i \in 1..(n - 1) : i + 1 \in 1..n /\ i + 1 # 1
    BY <1>2
  <2>3. 1 \in 1..n
    BY <1>2
  <2> QED
    BY <1>2, <2>1, <2>2, <2>3
<1>4. Heard(r) <=> (\A i \in 1..n : i # 1 => ~IsAnnouncement(q[i]))
  <2>1. ASSUME Heard(r), NEW i \in 1..n, i # 1 PROVE ~IsAnnouncement(q[i])
    BY <1>3, <2>1 DEF Heard
  <2>2. ASSUME \A i \in 1..n : i # 1 => ~IsAnnouncement(q[i]) PROVE Heard(r)
    BY <1>3, <2>2 DEF Heard
  <2> QED
    BY <2>1, <2>2
<1>5. ~IsAnnouncement(m) => (Heard(r) <=> Heard(q))
  BY <1>1, <1>2, <1>4 DEF Heard
<1>6. ASSUME HearsLast(q, u, v) PROVE HearsLast(r, w, v)
  <2>1. CASE Heard(q) /\ u = v
    <3>1. ~IsAnnouncement(m)
      BY <1>1, <1>2, <1>3, <2>1 DEF Heard
    <3> QED
      BY <1>1, <1>5, <2>1, <3>1 DEF HearsLast
  <2>2. CASE ~(Heard(q) /\ u = v)
    <3>1. PICK i \in 1..n : /\ IsAnnouncement(q[i]) /\ q[i].version = v
                            /\ \A j \in 1..n : i < j => ~IsAnnouncement(q[j])
      BY <1>1, <1>6, <2>2 DEF HearsLast
    <3>2. CASE i = 1
      <4>1. w = v
        BY <1>1, <1>2, <3>1, <3>2
      <4>2. \A j \in 1..n : j # 1 => 1 < j
        OBVIOUS
      <4>3. Heard(r)
        BY <1>4, <3>1, <3>2, <4>2
      <4> QED
        BY <4>1, <4>3 DEF HearsLast
    <3>3. CASE i # 1
      <4>1. PICK k : k = i - 1 /\ k \in 1..Len(r) /\ r[k] = q[i]
        BY <1>3, <3>3
      <4>2. ASSUME NEW j \in 1..Len(r), k < j PROVE ~IsAnnouncement(r[j])
        <5>1. j + 1 \in 1..n /\ r[j] = q[j + 1] /\ i < j + 1
          BY <1>2, <1>3, <4>1, <4>2
        <5> QED
          BY <3>1, <5>1
      <4> QED
        BY <3>1, <4>1, <4>2 DEF HearsLast
    <3> QED
      BY <3>2, <3>3
  <2> QED
    BY <2>1, <2>2
<1> QED
  BY <1>1, <1>2, <1>4, <1>5, <1>6

-----------------------------------------------------------------------------
(* Reads of the app.                                                       *)

\* A read that was under way before, if it is not old then nor now, or a new one.
Derived(r, e) ==
    \/ \E j \in 1..Len(asked[e]) : r.reply = asked[e][j].reply /\ (~r.old => ~asked[e][j].old)
    \/ r.reply = app.version

ReadsDerive ==
    /\ asked' \in [Engines -> Seq(Reads)]
    /\ \A e \in Engines : \A i \in 1..Len(asked'[e]) : Derived(asked'[e][i], e)

LEMMA TheReply ==
    ASSUME asked \in [Engines -> Seq(Reads)], NEW e \in Engines, asked[e] # <<>>
    PROVE  /\ Reply(e) \in Reads /\ \E j \in 1..Len(asked[e]) : Reply(e) = asked[e][j]
           /\ Tail(asked[e]) \in Seq(Reads)
           /\ \A i \in 1..Len(Tail(asked[e])) : Derived(Tail(asked[e])[i], e)
<1>1. PICK q \in Seq(Reads) : q = asked[e] /\ q # <<>>
  OBVIOUS
<1>2. 1 \in 1..Len(q) /\ Head(q) = q[1] /\ q[1] \in Reads
  BY <1>1
<1>3. Tail(q) \in Seq(Reads) /\ \A i \in 1..Len(Tail(q)) : i + 1 \in 1..Len(q) /\ Tail(q)[i] = q[i + 1]
  BY <1>1
<1> QED
  BY <1>1, <1>2, <1>3 DEF Reply, Derived

\* One more read, behind those in q.
LEMMA OneMoreRead ==
    ASSUME app.version \in Versions \cup {None}, NEW e \in Engines, NEW refresh \in BOOLEAN,
           NEW q \in Seq(Reads), \A i \in 1..Len(q) : Derived(q[i], e)
    PROVE  /\ Append(q, Asking(refresh)) \in Seq(Reads)
           /\ \A i \in 1..Len(Append(q, Asking(refresh))) : Derived(Append(q, Asking(refresh))[i], e)
<1>1. PICK r : r = Asking(refresh)
  OBVIOUS
<1>2. r \in Reads /\ r.reply = app.version
  BY <1>1 DEF Asking, Reads
<1>3. /\ Append(q, r) \in Seq(Reads) /\ Len(Append(q, r)) = Len(q) + 1
      /\ Append(q, r)[Len(q) + 1] = r /\ \A i \in 1..Len(q) : Append(q, r)[i] = q[i]
  BY <1>2
<1>4. \A i \in 1..Len(Append(q, r)) : i \in 1..Len(q) \/ i = Len(q) + 1
  BY <1>3
<1>5. Derived(r, e)
  BY <1>2 DEF Derived
<1> QED
  BY <1>1, <1>3, <1>4, <1>5

\* The reads of the others stay.
LEMMA OneReads ==
    ASSUME asked \in [Engines -> Seq(Reads)], NEW e \in Engines, NEW q \in Seq(Reads),
           \A i \in 1..Len(q) : Derived(q[i], e),
           asked' = [asked EXCEPT ![e] = q]
    PROVE  ReadsDerive
<1>1. asked' \in [Engines -> Seq(Reads)] /\ asked'[e] = q
      /\ \A x \in Engines \ {e} : asked'[x] = asked[x]
  OBVIOUS
<1>2. \A x \in Engines : \A i \in 1..Len(asked[x]) : Derived(asked[x][i], x)
  BY DEF Derived
<1> QED
  BY <1>1, <1>2 DEF ReadsDerive

\* What an engine hears makes its reads old, and answers none.
LEMMA ReadsGrowOld ==
    ASSUME asked \in [Engines -> Seq(Reads)], NEW e \in Engines,
           asked' = [asked EXCEPT ![e] = [i \in DOMAIN @ |-> [@[i] EXCEPT !.old = TRUE]]]
    PROVE  ReadsDerive /\ \A i \in 1..Len(asked'[e]) : asked'[e][i].old
<1>1. PICK p \in Seq(Reads) : p = asked[e]
  OBVIOUS
<1>2. PICK q : q = [i \in DOMAIN p |-> [p[i] EXCEPT !.old = TRUE]]
  OBVIOUS
<1>3. DOMAIN p = 1..Len(p) /\ Len(p) \in Nat /\ \A i \in 1..Len(p) : p[i] \in Reads
  BY <1>1
<1>4. \A i \in 1..Len(p) : q[i] \in Reads /\ q[i].old /\ q[i].reply = p[i].reply
  BY <1>2, <1>3 DEF Reads
<1>5. q \in [1..Len(p) -> Reads]
  BY <1>2, <1>3, <1>4
<1>6. q \in Seq(Reads) /\ Len(q) = Len(p)
  <2>1. q \in Seq(Reads)
    BY <1>3, <1>5, SeqDef
  <2>2. DOMAIN q = 1..Len(p) /\ DOMAIN q = 1..Len(q) /\ Len(q) \in Nat
    BY <1>5, <2>1
  <2> QED
    BY <1>3, <2>1, <2>2
<1>7. asked' = [asked EXCEPT ![e] = q] /\ asked'[e] = q
  BY <1>1, <1>2
<1>8. \A i \in 1..Len(q) : Derived(q[i], e)
  BY <1>1, <1>4, <1>6 DEF Derived
<1> QED
  BY <1>4, <1>6, <1>7, <1>8, OneReads

LEMMA ReadsOfAsking ==
    ASSUME asked \in [Engines -> Seq(Reads)], app.version \in Versions \cup {None},
           NEW e \in Engines, AskVersion(e) \/ AskAgain(e)
    PROVE  ReadsDerive
<1>1. CASE AskVersion(e)
  <2>1. PICK b \in BOOLEAN : b = (storeApp[e] # None)
    OBVIOUS
  <2>2. PICK q \in Seq(Reads) : q = asked[e]
    OBVIOUS
  <2>3. asked' = [asked EXCEPT ![e] = Append(q, Asking(b))]
    BY <1>1, <2>1, <2>2 DEF AskVersion
  <2>4. \A i \in 1..Len(q) : Derived(q[i], e)
    BY <2>2 DEF Derived
  <2> QED
    BY <2>3, <2>4, OneMoreRead, OneReads
<1>2. CASE AskAgain(e)
  <2>1. PICK q \in Seq(Reads) : q = Tail(asked[e]) /\ \A i \in 1..Len(q) : Derived(q[i], e)
    BY <1>2, TheReply DEF AskAgain
  <2>2. asked' = [asked EXCEPT ![e] = Append(q, Asking(TRUE))]
    BY <1>2, <2>1 DEF AskAgain
  <2> QED
    BY <2>1, <2>2, OneMoreRead, OneReads
<1> QED
  BY <1>1, <1>2

LEMMA ReadsOfGetVID ==
    ASSUME asked \in [Engines -> Seq(Reads)], NEW e \in Engines, NEW v, GetVID(e, v)
    PROVE  ReadsDerive
<1>1. CASE asked' = asked
  BY <1>1 DEF ReadsDerive, Derived
<1>2. CASE asked[e] # <<>> /\ asked' = [asked EXCEPT ![e] = Tail(@)]
  BY <1>2, TheReply, OneReads
<1> QED
  BY <1>1, <1>2 DEF GetVID, ServeRefreshed, ServeFirst, ServeCopy

-----------------------------------------------------------------------------
(* Each step of the quorum.                                                *)

LEMMA QuorumUntouched ==
    ASSUME QuorumInv, UNCHANGED <<cacheMode, until, apps, asked, misled, roll, inbox, unsettled, settledBy, app>>
    PROVE  QuorumInv'
<1>1. RollTypes' /\ ServeTypes'
  BY DEF QuorumInv, RollTypes, ServeTypes, Announced
<1>2. CachesWhatItHeard' /\ LastAnnounced' /\ Settled'
  BY DEF QuorumInv, CachesWhatItHeard, LastAnnounced, Settled, Announced
<1> QED
  BY <1>1, <1>2 DEF QuorumInv

\* The roll of one engine changes, and nothing else; it announces nothing.
LEMMA OneRollMoves ==
    ASSUME QuorumInv, NEW e \in Engines, NEW r, roll' = [roll EXCEPT ![e] = r],
           UNCHANGED <<cacheMode, until, apps, asked, misled, inbox, unsettled, settledBy, app>>,
           r.step \in {"roll", "announced", "confirmed"} => r.version \in Versions,
           r.step = "roll" => {"step", "version", "counts", "called"} \subseteq DOMAIN r,
           r.step \in {"announced", "confirmed"} => {"step", "version"} \subseteq DOMAIN r,
           r.step \in {"announced", "confirmed"} => Announced(e) /\ r.version = roll[e].version
    PROVE  QuorumInv'
<1>1. \A d \in Engines : roll'[d] = IF d = e THEN r ELSE roll[d]
  BY DEF QuorumInv, RollTypes
<1>2. RollTypes'
  BY <1>1 DEF QuorumInv, RollTypes, Announced
<1>3. ServeTypes' /\ CachesWhatItHeard' /\ Settled'
  BY DEF QuorumInv, ServeTypes, CachesWhatItHeard, Settled
<1>4. \A d \in Engines : Announced(d)' => Announced(d) /\ roll'[d].version = roll[d].version
  BY <1>1 DEF Announced
<1>5. LastAnnounced'
  BY <1>4 DEF QuorumInv, LastAnnounced
<1> QED
  BY <1>2, <1>3, <1>5 DEF QuorumInv

LEMMA BeginActivateKeepsQuorum ==
    ASSUME QuorumInv, NEW e \in Engines, NEW v \in app.deployed, BeginActivate(e, v),
           UNCHANGED deployVars
    PROVE  QuorumInv'
<1>1. PICK r : r = [step |-> "roll", version |-> v, counts |-> <<>>, called |-> 0]
  OBVIOUS
<1>2. r.step = "roll" /\ r.version = v /\ DOMAIN r = {"step", "version", "counts", "called"}
  BY <1>1
<1>3. v \in Versions
  BY DEF QuorumInv, ServeTypes
<1>4. /\ roll' = [roll EXCEPT ![e] = r]
      /\ UNCHANGED <<cacheMode, until, apps, asked, misled, inbox, unsettled, settledBy, app>>
  BY <1>1 DEF BeginActivate, serveVars, deployVars, versionVars
<1> QED
  BY <1>2, <1>3, <1>4, OneRollMoves

\* A ping announces nothing.
LEMMA RequestKeepsQuorum ==
    ASSUME QuorumInv, NEW e \in Engines, RequestQuorum(e), UNCHANGED deployVars
    PROVE  QuorumInv'
<1>1. PICK m : m = [type |-> "ping", originator |-> e]
  OBVIOUS
<1>2. m \in Messages /\ ~IsAnnouncement(m)
  BY <1>1 DEF Messages, IsAnnouncement
<1>3. /\ inbox' = [d \in Engines |-> Append(inbox[d], m)]
      /\ UNCHANGED <<cacheMode, until, apps, asked, misled, unsettled, settledBy, app>>
  BY <1>1 DEF RequestQuorum, PublishToAll, serveVars, deployVars, versionVars
<1>4. \A d \in Engines : inbox[d] \in Seq(Messages)
  BY DEF QuorumInv, ServeTypes
<1>5. inbox' \in [Engines -> Seq(Messages)]
  BY <1>2, <1>3, <1>4, Appended
<1>6. ServeTypes' /\ CachesWhatItHeard'
  BY <1>3, <1>5 DEF QuorumInv, ServeTypes, CachesWhatItHeard
<1>7. \A d \in Engines : Heard(inbox'[d]) <=> Heard(inbox[d])
  BY <1>2, <1>3, <1>4, Appended
<1>8. Settled'
  BY <1>3, <1>7 DEF QuorumInv, Settled
<1>9. PICK c, k : roll' = [roll EXCEPT ![e].called = c, ![e].counts = k]
  <2>1. roll' = [roll EXCEPT ![e].called = @ + 1,
                             ![e].counts = IF roll[e].called = 0 THEN @ ELSE Append(@, quorum[e])]
    BY DEF RequestQuorum
  <2>2. roll' = [roll EXCEPT ![e].called = roll[e].called + 1,
                             ![e].counts = IF roll[e].called = 0 THEN roll[e].counts
                                           ELSE Append(roll[e].counts, quorum[e])]
    BY <2>1 DEF QuorumInv, RollTypes
  <2> QED
    BY <2>2
<1>10. PICK r : r = [roll[e] EXCEPT !.called = c, !.counts = k]
  OBVIOUS
<1>11. /\ roll[e].step = "roll" /\ roll[e].version \in Versions
       /\ {"step", "version", "counts", "called"} \subseteq DOMAIN roll[e]
  BY DEF RequestQuorum, QuorumInv, RollTypes
<1>12. roll' = [roll EXCEPT ![e] = r]
  BY <1>9, <1>10 DEF QuorumInv, RollTypes
<1>13. r.step = "roll" /\ r.version = roll[e].version /\ DOMAIN r = DOMAIN roll[e]
  BY <1>10, <1>11
<1>14. \A d \in Engines : roll'[d] = IF d = e THEN r ELSE roll[d]
  BY <1>12 DEF QuorumInv, RollTypes
<1>15. RollTypes'
  BY <1>11, <1>12, <1>13, <1>14 DEF QuorumInv, RollTypes, Announced
<1>16. \A d \in Engines : Announced(d)' => Announced(d) /\ roll'[d].version = roll[d].version
  BY <1>13, <1>14 DEF Announced
<1>17. LastAnnounced'
  <2> SUFFICES ASSUME NEW d \in Engines \ unsettled, Announced(d)', NEW x \in Engines
      PROVE  HearsLast(inbox'[x], until[x], roll'[d].version)
    BY <1>3 DEF LastAnnounced
  <2>1. HearsLast(inbox[x], until[x], roll[d].version) /\ roll'[d].version = roll[d].version
    BY <1>16 DEF QuorumInv, LastAnnounced
  <2> QED
    BY <1>2, <1>3, <1>4, <2>1, Appended
<1> QED
  BY <1>6, <1>8, <1>15, <1>17 DEF QuorumInv

\* The announcement is the last one; those it overlaps are unsettled from now on.
LEMMA AnnounceKeepsQuorum ==
    ASSUME QuorumInv, NEW e \in Engines, Announce(e), UNCHANGED deployVars
    PROVE  QuorumInv'
<1>1. /\ roll[e].step = "roll" /\ roll[e].version \in Versions
      /\ UNCHANGED <<cacheMode, until, apps, asked, misled, settledBy, app>>
  BY DEF Announce, serveVars, deployVars, versionVars, QuorumInv, RollTypes
<1>2. CASE ~Agree(roll[e].counts)
  <2>1. PICK r : r = NoRoll
    OBVIOUS
  <2>2. r.step = "none" /\ roll' = [roll EXCEPT ![e] = r] /\ UNCHANGED <<inbox, unsettled>>
    BY <1>2, <2>1 DEF Announce, NoRoll
  <2> QED
    BY <1>1, <2>2, OneRollMoves
<1>3. CASE Agree(roll[e].counts)
  <2>1. PICK v, m, r : /\ v = roll[e].version /\ m = [type |-> "activate", version |-> v]
                       /\ r = [step |-> "announced", version |-> v]
    OBVIOUS
  <2>2. /\ m \in Messages /\ IsAnnouncement(m) /\ m.version = v
        /\ r.step = "announced" /\ r.version = v /\ DOMAIN r = {"step", "version"}
    BY <1>1, <2>1 DEF Messages, IsAnnouncement
  <2>3. PICK open : open = {d \in Engines \ {e} : roll[d].step \in {"announced", "confirmed"}}
    OBVIOUS
  <2>4. /\ inbox' = [d \in Engines |-> Append(inbox[d], m)]
        /\ unsettled' = IF open = {} THEN unsettled \ {e} ELSE unsettled \cup open \cup {e}
    BY <1>3, <2>1, <2>3 DEF Announce, PublishToAll
  <2>5. roll' = [roll EXCEPT ![e] = [step |-> "announced", version |-> @.version]]
    BY <1>3 DEF Announce
  <2>6. roll' = [roll EXCEPT ![e] = r]
    BY <2>1, <2>5 DEF QuorumInv, RollTypes
  <2>7. \A d \in Engines : roll'[d] = IF d = e THEN r ELSE roll[d]
    BY <2>6 DEF QuorumInv, RollTypes
  <2>8. \A d \in Engines : inbox[d] \in Seq(Messages)
    BY DEF QuorumInv, ServeTypes
  <2>9. inbox' \in [Engines -> Seq(Messages)] /\ \A d \in Engines : ~Heard(inbox'[d])
    BY <2>2, <2>4, <2>8, Appended
  <2>10. RollTypes'
    BY <1>1, <2>1, <2>2, <2>6, <2>7 DEF QuorumInv, RollTypes, Announced
  <2>11. ServeTypes' /\ CachesWhatItHeard' /\ Settled'
    BY <1>1, <2>9 DEF QuorumInv, ServeTypes, CachesWhatItHeard, Settled
  <2>12. ASSUME NEW d \in Engines \ unsettled', Announced(d)' PROVE d = e
    BY <2>3, <2>4, <2>7, <2>12 DEF Announced
  <2>13. LastAnnounced'
    <3> SUFFICES ASSUME NEW d \in Engines \ unsettled', Announced(d)', NEW x \in Engines
        PROVE  HearsLast(inbox'[x], until'[x], roll'[d].version)
      BY DEF LastAnnounced
    <3>1. roll'[d].version = v
      BY <2>2, <2>7, <2>12
    <3> QED
      BY <2>2, <2>4, <2>8, <3>1, Appended
  <2> QED
    BY <2>10, <2>11, <2>13 DEF QuorumInv
<1> QED
  BY <1>2, <1>3

LEMMA ConfirmKeepsQuorum ==
    ASSUME QuorumInv, NEW e \in Engines, Confirm(e), UNCHANGED deployVars
    PROVE  QuorumInv'
<1>1. PICK r : r = IF until[e] = roll[e].version THEN [roll[e] EXCEPT !.step = "confirmed"]
                   ELSE NoRoll
  OBVIOUS
<1>2. Announced(e) /\ roll[e].version \in Versions /\ {"step", "version"} \subseteq DOMAIN roll[e]
  BY DEF Confirm, QuorumInv, RollTypes, Announced
<1>3. /\ roll' = [roll EXCEPT ![e] = r]
      /\ UNCHANGED <<cacheMode, until, apps, asked, misled, inbox, unsettled, settledBy, app>>
  BY <1>1 DEF Confirm, serveVars, deployVars, versionVars, QuorumInv, RollTypes
<1>4. \/ r.step = "none"
      \/ r.step = "confirmed" /\ r.version = roll[e].version /\ DOMAIN r = DOMAIN roll[e]
  BY <1>1, <1>2 DEF NoRoll
<1> QED
  BY <1>2, <1>3, <1>4, OneRollMoves

\* What was announced is heard, or a ping is.
LEMMA ReceiveKeepsQuorum ==
    ASSUME QuorumInv, NEW e \in Engines, Receive(e), UNCHANGED deployVars
    PROVE  QuorumInv'
<1>1. PICK q, m : q = inbox[e] /\ m = Head(q)
  OBVIOUS
<1>2. /\ q # <<>> /\ inbox' = [inbox EXCEPT ![e] = Tail(q)]
      /\ UNCHANGED <<apps, roll, unsettled, settledBy, app>>
      /\ asked \in [Engines -> Seq(Reads)]
  BY <1>1 DEF Receive, deployVars, versionVars, QuorumInv, ServeTypes
<1>3. /\ q \in Seq(Messages) /\ cacheMode \in [Engines -> {"cache", "nocache"}]
      /\ until \in [Engines -> Versions \cup {None}] /\ inbox \in [Engines -> Seq(Messages)]
  BY <1>1 DEF QuorumInv, ServeTypes
<1>4. PICK w : w = IF IsAnnouncement(m) THEN m.version ELSE until[e]
  OBVIOUS
<1>5. /\ m \in Messages /\ Tail(q) \in Seq(Messages)
      /\ ~IsAnnouncement(m) => (Heard(Tail(q)) <=> Heard(q))
      /\ \A v : HearsLast(q, until[e], v) => HearsLast(Tail(q), w, v)
  BY <1>1, <1>2, <1>3, <1>4, Taken
<1>6. /\ IsAnnouncement(m) =>
           /\ cacheMode' = [cacheMode EXCEPT ![e] = "nocache"]
           /\ until' = [until EXCEPT ![e] = m.version]
           /\ asked' = [asked EXCEPT ![e] = [i \in DOMAIN @ |-> [@[i] EXCEPT !.old = TRUE]]]
           /\ misled' = misled \ {e}
      /\ ~IsAnnouncement(m) => UNCHANGED <<cacheMode, until, asked, misled>>
  <2>1. m.type = "ping" \/ m.type = "activate"
    BY <1>5 DEF Messages
  <2>2. IsAnnouncement(m) => m.type # "ping"
    BY DEF IsAnnouncement
  <2>3. ~IsAnnouncement(m) => m.type = "ping"
    BY <2>1 DEF IsAnnouncement
  <2> QED
    BY <1>1, <2>2, <2>3 DEF Receive
<1>7. IsAnnouncement(m) => m.version \in Versions
  BY <1>5 DEF Messages, IsAnnouncement
<1>8. /\ \A x \in Engines : x # e => /\ inbox'[x] = inbox[x] /\ until'[x] = until[x]
                                     /\ cacheMode'[x] = cacheMode[x]
      /\ inbox'[e] = Tail(q) /\ until'[e] = w
      /\ cacheMode'[e] = IF IsAnnouncement(m) THEN "nocache" ELSE cacheMode[e]
  BY <1>2, <1>3, <1>4, <1>6
<1>9. ServeTypes'
  <2>1. inbox' \in [Engines -> Seq(Messages)]
    BY <1>2, <1>3, <1>5
  <2>2. /\ cacheMode' \in [Engines -> {"cache", "nocache"}]
        /\ until' \in [Engines -> Versions \cup {None}]
    BY <1>3, <1>6, <1>7
  <2>3. asked' \in [Engines -> Seq(Reads)]
    BY <1>2, <1>6, ReadsGrowOld DEF ReadsDerive
  <2> QED
    BY <1>2, <2>1, <2>2, <2>3 DEF QuorumInv, ServeTypes
<1>10. RollTypes'
  BY <1>2 DEF QuorumInv, RollTypes, Announced
<1>11. CachesWhatItHeard'
  <2> SUFFICES ASSUME NEW x \in Engines, cacheMode'[x] = "cache", until'[x] # None
      PROVE  apps'[x] = until'[x]
    BY DEF CachesWhatItHeard
  <2>1. cacheMode[x] = "cache" /\ until'[x] = until[x] /\ apps' = apps
    BY <1>2, <1>4, <1>8
  <2> QED
    BY <2>1 DEF QuorumInv, CachesWhatItHeard
<1>12. LastAnnounced'
  <2> SUFFICES ASSUME NEW d \in Engines \ unsettled, Announced(d)', NEW x \in Engines
      PROVE  HearsLast(inbox'[x], until'[x], roll[d].version)
    BY <1>2 DEF LastAnnounced
  <2>1. HearsLast(inbox[x], until[x], roll[d].version)
    BY <1>2 DEF QuorumInv, LastAnnounced, Announced
  <2> QED
    BY <1>1, <1>5, <1>8, <2>1
<1>13. Settled'
  <2> SUFFICES ASSUME settledBy = "activation", NEW x \in Engines, Heard(inbox'[x])
      PROVE  /\ until'[x] # None
             /\ cacheMode'[x] = "cache" => apps[x] = app.version \/ x \in misled'
             /\ \A i \in 1..Len(asked'[x]) :
                  (~asked'[x][i].old /\ asked'[x][i].reply = until'[x]) => until'[x] = app.version
    BY <1>2 DEF Settled
  <2>1. CASE x # e
    <3>1. asked'[x] = asked[x] /\ (x \in misled => x \in misled')
      BY <1>2, <1>6, <2>1
    <3> QED
      BY <1>8, <2>1, <3>1 DEF QuorumInv, Settled
  <2>2. CASE x = e /\ IsAnnouncement(m)
    <3>1. \A i \in 1..Len(asked'[e]) : asked'[e][i].old
      BY <1>2, <1>6, <2>2, ReadsGrowOld
    <3>2. until'[e] # None /\ cacheMode'[e] # "cache"
      BY <1>4, <1>7, <1>8, <2>2, NoneIsNoVersion
    <3> QED
      BY <2>2, <3>1, <3>2
  <2>3. CASE x = e /\ ~IsAnnouncement(m)
    BY <1>1, <1>4, <1>5, <1>6, <1>8, <2>3 DEF QuorumInv, Settled
  <2> QED
    BY <2>1, <2>2, <2>3
<1> QED
  BY <1>9, <1>10, <1>11, <1>12, <1>13 DEF QuorumInv

\* The version is written: if nobody overlapped, it is what all have heard last.
LEMMA ActivateKeepsQuorum ==
    ASSUME QuorumInv, NEW e \in Engines, ActivateAppVersion(e)
    PROVE  QuorumInv'
<1>1. PICK v, r : v = roll[e].version /\ r = NoRoll
  OBVIOUS
<1>2. /\ r.step = "none" /\ roll' = [roll EXCEPT ![e] = r] /\ Announced(e) /\ v \in Versions
      /\ UNCHANGED <<cacheMode, until, apps, asked, misled, inbox, unsettled>>
  BY <1>1 DEF ActivateAppVersion, serveVars, Announced, QuorumInv, RollTypes, NoRoll
<1>3. CASE UNCHANGED <<app, settledBy>>
  BY <1>2, <1>3, OneRollMoves
<1>4. CASE /\ app' = [app EXCEPT !.version = v]
           /\ settledBy' = IF e \in unsettled THEN "overlapping" ELSE "activation"
  <2>1. /\ app'.version = v /\ app'.deployed = app.deployed
        /\ DOMAIN app' = {"version", "deployed"}
    BY <1>4 DEF QuorumInv, ServeTypes
  <2>2. ServeTypes' /\ CachesWhatItHeard'
    BY <1>2, <2>1 DEF QuorumInv, ServeTypes, CachesWhatItHeard
  <2>3. \A d \in Engines : roll'[d] = IF d = e THEN r ELSE roll[d]
    BY <1>2 DEF QuorumInv, RollTypes
  <2>4. RollTypes'
    BY <1>2, <2>3 DEF QuorumInv, RollTypes, Announced
  <2>5. LastAnnounced'
    BY <1>2, <2>3 DEF QuorumInv, LastAnnounced, Announced
  <2>6. Settled'
    <3> SUFFICES ASSUME e \notin unsettled, NEW x \in Engines, Heard(inbox[x])
        PROVE  until[x] = v /\ until[x] # None /\ (cacheMode[x] = "cache" => apps[x] = v)
      BY <1>2, <1>4, <2>1 DEF Settled
    <3>1. HearsLast(inbox[x], until[x], v)
      BY <1>1, <1>2 DEF QuorumInv, LastAnnounced
    <3>2. until[x] = v
      BY <3>1 DEF HearsLast, Heard
    <3> QED
      BY <1>2, <3>2, NoneIsNoVersion DEF QuorumInv, CachesWhatItHeard
  <2> QED
    BY <2>2, <2>4, <2>5, <2>6 DEF QuorumInv
<1> QED
  BY <1>1, <1>3, <1>4 DEF ActivateAppVersion

\* A deployment writes its version to the app, and nobody relies on that.
LEMMA SetAppKeepsQuorum ==
    ASSUME QuorumInv, NEW e \in Engines, SetApp(e), deploy[e].version \in Versions,
           settledBy' = "deployment",
           UNCHANGED <<cacheMode, until, apps, asked, misled, roll, inbox, unsettled>>
    PROVE  QuorumInv'
<1>1. PICK v : v = deploy[e].version
  OBVIOUS
<1>2. app' = [version |-> v, deployed |-> app.deployed \cup {v}] /\ v \in Versions
  BY <1>1 DEF SetApp
<1>3. ServeTypes' /\ CachesWhatItHeard'
  BY <1>2 DEF QuorumInv, ServeTypes, CachesWhatItHeard
<1>4. RollTypes' /\ LastAnnounced' /\ Settled'
  BY DEF QuorumInv, RollTypes, LastAnnounced, Announced, Settled
<1> QED
  BY <1>3, <1>4 DEF QuorumInv

\* A read is on its way: what is cached stays.
LEMMA AskingKeepsQuorum ==
    ASSUME QuorumInv, NEW e \in Engines, AskVersion(e) \/ AskAgain(e), UNCHANGED app
    PROVE  QuorumInv'
<1>1. UNCHANGED <<cacheMode, until, apps, misled, roll, inbox, unsettled, settledBy>>
  BY DEF AskVersion, AskAgain, rollVars
<1>2. ReadsDerive
  BY ReadsOfAsking DEF QuorumInv, ServeTypes
<1>3. RollTypes' /\ ServeTypes' /\ LastAnnounced' /\ CachesWhatItHeard'
  BY <1>1, <1>2
  DEF QuorumInv, RollTypes, ServeTypes, LastAnnounced, Announced, CachesWhatItHeard, ReadsDerive
<1>4. Settled'
  BY <1>1, <1>2 DEF QuorumInv, Settled, ReadsDerive, Derived
<1> QED
  BY <1>3, <1>4 DEF QuorumInv

\* An engine is told which version to serve.
LEMMA ServingKeepsQuorum ==
    ASSUME QuorumInv, NEW e \in Engines, NEW v \in Versions, GetVID(e, v), UNCHANGED app
    PROVE  QuorumInv'
<1>1. UNCHANGED <<until, roll, inbox, unsettled, settledBy>>
  BY DEF GetVID, rollVars
<1>2. /\ cacheMode \in [Engines -> {"cache", "nocache"}] /\ DOMAIN apps = Engines
      /\ until[e] \in Versions \cup {None} /\ asked \in [Engines -> Seq(Reads)]
  BY DEF QuorumInv, ServeTypes
<1>3. ReadsDerive /\ misled \subseteq misled'
  BY <1>2, ReadsOfGetVID DEF GetVID, ServeRefreshed, ServeFirst, ServeCopy
\* Caching goes on with what was cached, or resumes with what is awaited.
<1>4. \/ UNCHANGED <<cacheMode, apps>>
      \/ /\ cacheMode' = [cacheMode EXCEPT ![e] = "cache"] /\ v = until[e]
         /\ apps' = [apps EXCEPT ![e] = v]
         /\ asked[e] # <<>> /\ v = Reply(e).reply
         /\ (Reply(e).old /\ cacheMode[e] = "nocache") => e \in misled'
      \/ /\ UNCHANGED cacheMode /\ cacheMode[e] = "cache" /\ apps' = [apps EXCEPT ![e] = v]
         /\ apps[e] # None => v = apps[e]
  BY DEF GetVID, ServeRefreshed, ServeFirst, ServeCopy, ResumesCaching, Served
<1>5. /\ \A x \in Engines : x # e => cacheMode'[x] = cacheMode[x] /\ apps'[x] = apps[x]
      /\ cacheMode' \in [Engines -> {"cache", "nocache"}] /\ DOMAIN apps' = Engines
      /\ cacheMode'[e] = "cache" =>
            \/ /\ v = until[e] /\ apps'[e] = v /\ asked[e] # <<>> /\ v = Reply(e).reply
               /\ (Reply(e).old /\ cacheMode[e] = "nocache") => e \in misled'
            \/ cacheMode[e] = "cache" /\ (apps[e] # None => apps'[e] = apps[e])
  BY <1>2, <1>4
<1>6. RollTypes' /\ ServeTypes' /\ LastAnnounced'
  BY <1>1, <1>3, <1>5
  DEF QuorumInv, RollTypes, ServeTypes, LastAnnounced, Announced, ReadsDerive
<1>7. CachesWhatItHeard'
  BY <1>1, <1>5 DEF QuorumInv, CachesWhatItHeard
<1>8. Settled'
  <2> SUFFICES ASSUME settledBy = "activation", NEW x \in Engines, Heard(inbox[x])
      PROVE  /\ until[x] # None
             /\ cacheMode'[x] = "cache" => apps'[x] = app.version \/ x \in misled'
             /\ \A i \in 1..Len(asked'[x]) :
                  (~asked'[x][i].old /\ asked'[x][i].reply = until[x]) => until[x] = app.version
    BY <1>1 DEF Settled
  <2>1. /\ until[x] # None
        /\ cacheMode[x] = "cache" => apps[x] = app.version \/ x \in misled
        /\ \A i \in 1..Len(asked[x]) :
             (~asked[x][i].old /\ asked[x][i].reply = until[x]) => until[x] = app.version
    BY DEF QuorumInv, Settled
  <2>2. \A i \in 1..Len(asked'[x]) :
           (~asked'[x][i].old /\ asked'[x][i].reply = until[x]) => until[x] = app.version
    BY <1>3, <2>1 DEF ReadsDerive, Derived
  <2>3. ASSUME cacheMode'[x] = "cache" PROVE apps'[x] = app.version \/ x \in misled'
    <3>1. CASE x # e \/ (cacheMode[e] = "cache" /\ (apps[e] # None => apps'[e] = apps[e]))
      BY <1>3, <1>5, <2>1, <2>3, <3>1 DEF QuorumInv, CachesWhatItHeard
    <3>2. CASE /\ x = e /\ v = until[e] /\ apps'[e] = v /\ asked[e] # <<>> /\ v = Reply(e).reply
               /\ (Reply(e).old /\ cacheMode[e] = "nocache") => e \in misled'
      <4>1. PICK j \in 1..Len(asked[e]) : Reply(e) = asked[e][j]
        BY <1>2, <3>2, TheReply
      <4>2. CASE cacheMode[e] = "cache"
        BY <1>3, <2>1, <3>2, <4>2 DEF QuorumInv, CachesWhatItHeard
      <4>3. CASE cacheMode[e] = "nocache"
        BY <2>1, <3>2, <4>1, <4>3
      <4> QED
        BY <1>2, <4>2, <4>3
    <3> QED
      BY <1>5, <2>3, <3>1, <3>2
  <2> QED
    BY <2>1, <2>2, <2>3
<1> QED
  BY <1>6, <1>7, <1>8 DEF QuorumInv

LEMMA QuorumInvKept == ASSUME CompleteInv, QuorumInv, [Next]_vars PROVE QuorumInv'
<1>1. ASSUME UNCHANGED <<quorumVars, app>> PROVE QuorumInv'
  BY <1>1, QuorumUntouched DEF quorumVars, serveVars, rollVars
<1>2. CASE UNCHANGED vars
  BY <1>1, <1>2 DEF vars, deployVars, versionVars
<1>3. ASSUME NEW e \in Engines,
             \/ \E v \in Versions : Begin(e, v)
             \/ DeployStep(e)
             \/ Stop(e),
             UNCHANGED quorumVars
      PROVE  QuorumInv'
  <2>1. UNCHANGED app
    BY <1>3 DEF Begin, DeployStep, Stop, BindTargets, ReadValues, AddValues, SaveHookRules,
       SavePart, versionVars
  <2> QED
    BY <1>1, <1>3, <2>1
<1>4. ASSUME NEW e \in Engines, SetApp(e), settledBy' = "deployment",
             UNCHANGED <<cacheMode, until, apps, asked, misled, rollVars, unsettled>>
      PROVE  QuorumInv'
  <2>1. deploy[e].step \notin Ended
    BY <1>4 DEF SetApp, Ended
  <2>2. deploy[e].version \in Versions
    BY <2>1 DEF CompleteInv, OnCourse
  <2> QED
    BY <1>4, <2>2, SetAppKeepsQuorum DEF rollVars
<1>5. ASSUME NEW e \in Engines, NEW v \in app.deployed, BeginActivate(e, v), UNCHANGED deployVars
      PROVE  QuorumInv'
  BY <1>5, BeginActivateKeepsQuorum
<1>6. ASSUME NEW e \in Engines, QuorumStep(e), UNCHANGED deployVars PROVE QuorumInv'
  <2>1. UNCHANGED app
    BY <1>6 DEF deployVars, versionVars
  <2> QED
    BY <1>6, <2>1, RequestKeepsQuorum, AnnounceKeepsQuorum, ConfirmKeepsQuorum,
       ReceiveKeepsQuorum, AskingKeepsQuorum
    DEF QuorumStep
<1>7. ASSUME NEW e \in Engines, ActivateAppVersion(e) PROVE QuorumInv'
  BY <1>7, ActivateKeepsQuorum
<1>8. ASSUME NEW e \in Engines, Execute(e) PROVE QuorumInv'
  BY <1>8, ServingKeepsQuorum DEF Execute
<1> QED
  BY <1>2, <1>3, <1>4, <1>5, <1>6, <1>7, <1>8 DEF Next

LEMMA QuorumInvInitially == ASSUME Init PROVE QuorumInv
<1>1. /\ cacheMode = [e \in Engines |-> "cache"] /\ until = [e \in Engines |-> None]
      /\ roll = [e \in Engines |-> NoRoll] /\ inbox = [e \in Engines |-> <<>>]
      /\ settledBy = "nobody" /\ asked = [e \in Engines |-> <<>>]
  BY DEF Init, QuorumInit
<1>2. DOMAIN apps = Engines
  BY DEF Init, StartFresh, StartDeployed
<1>3. /\ DOMAIN app = {"version", "deployed"} /\ app.deployed \subseteq Versions
      /\ app.version \in Versions \cup {None}
  <2>1. Len(Manifest) \in Versions \cup {None}
    BY NumberingAssumption DEF None
  <2> QED
    BY <2>1 DEF Init, StartFresh, StartDeployed, DeploymentInit
<1>4. <<>> \in Seq(Messages) /\ <<>> \in Seq(Reads)
  OBVIOUS
<1>5. RollTypes /\ ServeTypes
  BY <1>1, <1>2, <1>3, <1>4 DEF RollTypes, ServeTypes, NoRoll, Announced
<1>6. CachesWhatItHeard /\ LastAnnounced /\ Settled
  BY <1>1 DEF CachesWhatItHeard, LastAnnounced, Settled, NoRoll, Announced
<1> QED
  BY <1>5, <1>6 DEF QuorumInv

\* However many engines activate versions, however often, and however late pings,
\* answers, announcements and reads arrive, an activation that overlapped no other
\* one reaches every engine that has heard what was announced; but one that resumed
\* caching on a read it had asked for before it heard the announcement that the
\* reply equals.  The counts of the roll call have no part in the argument: the
\* order of the announcements has, and of what is read between them.
THEOREM ActivationsReachAll == Spec => []ActivationReachesAll
<1>1. QuorumInv => ActivationReachesAll
  <2> SUFFICES ASSUME QuorumInv, settledBy = "activation", NEW e \in Engines, inbox[e] = <<>>
      PROVE  Served(e) = app.version \/ e \in misled
    BY DEF ActivationReachesAll
  <2>1. Heard(inbox[e])
    BY DEF Heard
  <2>2. /\ until[e] # None
        /\ cacheMode[e] = "cache" => apps[e] = app.version \/ e \in misled
        /\ cacheMode[e] \in {"cache", "nocache"}
    BY <2>1 DEF QuorumInv, Settled, ServeTypes
  <2>3. cacheMode[e] = "cache" => apps[e] # None
    BY <2>2 DEF QuorumInv, CachesWhatItHeard
  <2> QED
    BY <2>2, <2>3 DEF Served
<1>2. Init => CompleteInv /\ QuorumInv
  BY CompleteInvInitially, QuorumInvInitially
<1>3. CompleteInv /\ QuorumInv /\ [Next]_vars => (CompleteInv /\ QuorumInv)'
  BY CompleteInvKept, QuorumInvKept
<1> QED
  BY <1>1, <1>2, <1>3, PTL DEF Spec

-----------------------------------------------------------------------------
(* Value symbols are numbered without gaps, in the hash as in every copy,  *)
(* so those a deployment adds to the copy it read are new to that copy.    *)

Counted(f) == \E n \in Nat : DOMAIN f = 1..n

CountedInv ==
    /\ Counted(symvals)
    /\ DOMAIN valCache = Engines
    /\ \A e \in Engines : \A c \in valCache[e] :
          Counted(c) /\ DOMAIN c \subseteq DOMAIN symvals
    /\ \A e \in Engines : deploy[e].step = "add values" =>
          Counted(deploy[e].known) /\ DOMAIN deploy[e].known \subseteq DOMAIN symvals

LEMMA CopyCounted ==
    ASSUME CountedInv, NEW e \in Engines
    PROVE  /\ Counted(Copy(e)) /\ DOMAIN Copy(e) \subseteq DOMAIN symvals
           /\ valCache[e] # NoCopy => Copy(e) \in valCache[e]
<1>1. CASE valCache[e] = NoCopy
  BY <1>1 DEF Copy, CountedInv
<1>2. CASE valCache[e] # NoCopy
  <2>1. Copy(e) = TheCopy(valCache[e]) /\ \E c : c \in valCache[e]
    BY <1>2 DEF Copy, NoCopy
  <2>2. Copy(e) \in valCache[e]
    BY <2>1 DEF TheCopy
  <2> QED
    BY <2>2 DEF CountedInv
<1> QED
  BY <1>1, <1>2

\* What is added comes after what is known, and goes on without a gap.
LEMMA FilteredValues ==
    ASSUME NEW known, NEW n \in Nat, DOMAIN known = 1..n, NEW v \in Versions
    PROVE  \E k \in Nat : DOMAIN FilterSymVals(known, Values[v]) = (n + 1)..(n + k)
<1>1. PICK new : new = Values[v] \ {known[s] : s \in DOMAIN known}
  OBVIOUS
<1>2. PICK all : all = UNION {Values[w] : w \in Versions}
  OBVIOUS
<1>3. IsFiniteSet(new)
  <2>1. new \subseteq all /\ IsFiniteSet(all)
    BY <1>1, <1>2, ValuesAssumption
  <2> QED
    BY <2>1, FS_Subset
<1>4. PICK k : k = Cardinality(new) /\ k \in Nat
  BY <1>3, FS_CardinalityType
<1>5. Cardinality(DOMAIN known) = n
  <2>1. Cardinality(1..n) = n
    BY FS_Interval
  <2> QED
    BY <2>1
<1>6. DOMAIN FilterSymVals(known, Values[v]) = (n + 1)..((n + 1) + k - 1)
  BY <1>1, <1>4, <1>5 DEF FilterSymVals
<1>7. (n + 1)..((n + 1) + k - 1) = (n + 1)..(n + k)
  BY <1>4
<1> QED
  BY <1>4, <1>6, <1>7

\* Steps that do not touch the values, and read none.
LEMMA ValuesUntouched ==
    ASSUME CountedInv, UNCHANGED <<symvals>>, DOMAIN valCache' = Engines,
           \A e \in Engines : valCache'[e] \subseteq valCache[e] \cup {Copy(e)},
           \A e \in Engines : deploy'[e].step = "add values" =>
              \/ deploy[e].step = "add values" /\ deploy'[e].known = deploy[e].known
              \/ deploy'[e].known = Copy(e)
    PROVE  CountedInv'
<1>1. \A e \in Engines : \A c \in valCache'[e] : Counted(c) /\ DOMAIN c \subseteq DOMAIN symvals
  BY CopyCounted, ZenonT(60) DEF CountedInv
<1>2. \A e \in Engines : deploy'[e].step = "add values" =>
         Counted(deploy'[e].known) /\ DOMAIN deploy'[e].known \subseteq DOMAIN symvals
  BY CopyCounted DEF CountedInv
<1> QED
  BY <1>1, <1>2 DEF CountedInv, Counted

LEMMA AddKeepsCounted ==
    ASSUME CompleteInv, CountedInv, NEW e \in Engines, AddValues(e)
    PROVE  CountedInv'
<1>1. PICK known, new : known = deploy[e].known /\ new = FilterSymVals(known, Values[deploy[e].version])
  OBVIOUS
<1>2. /\ deploy[e].step = "add values" /\ symvals' = WithFields(new, symvals)
      /\ valCache' = IF new = <<>> THEN valCache ELSE [valCache EXCEPT ![e] = NoCopy]
      /\ deploy' = [deploy EXCEPT ![e].step = "hooks", ![e].known = <<>>]
  BY <1>1 DEF AddValues
<1>3. deploy[e].version \in Versions
  BY <1>2 DEF CompleteInv, OnCourse, Ended
<1>4. PICK m \in Nat : DOMAIN known = 1..m
  BY <1>1, <1>2 DEF CountedInv, Counted
<1>5. PICK n \in Nat : DOMAIN symvals = 1..n
  BY DEF CountedInv, Counted
<1>6. m <= n
  <2>1. 1..m \subseteq 1..n
    BY <1>1, <1>2, <1>4, <1>5 DEF CountedInv
  <2>2. m = 0 \/ m \in 1..m
    BY <1>4
  <2>3. m = 0 \/ m \in 1..n
    BY <2>1, <2>2
  <2> QED
    BY <1>4, <1>5, <2>3
<1>7. PICK k \in Nat : DOMAIN new = (m + 1)..(m + k)
  BY <1>1, <1>3, <1>4, FilteredValues, SMTT(30)
<1>8. DOMAIN symvals' = DOMAIN new \cup DOMAIN symvals
  BY <1>2 DEF WithFields
<1>9. Counted(symvals')
  <2>1. CASE m + k <= n
    <3>1. (m + 1)..(m + k) \cup 1..n = 1..n
      BY <1>4, <1>5, <1>7, <2>1
    <3> QED
      BY <1>5, <1>7, <1>8, <3>1 DEF Counted
  <2>2. CASE n < m + k
    <3>1. (m + 1)..(m + k) \cup 1..n = 1..(m + k) /\ m + k \in Nat
      BY <1>4, <1>5, <1>6, <1>7, <2>2
    <3> QED
      BY <1>5, <1>7, <1>8, <3>1 DEF Counted
  <2> QED
    BY <1>4, <1>5, <1>7, <2>1, <2>2
<1>10. \A c : DOMAIN c \subseteq DOMAIN symvals => DOMAIN c \subseteq DOMAIN symvals'
  BY <1>8
<1>11. DOMAIN valCache' = Engines /\ \A d \in Engines : valCache'[d] \subseteq valCache[d]
  BY <1>2 DEF CountedInv, NoCopy
<1>12. \A d \in Engines : deploy'[d].step = "add values" =>
          deploy[d].step = "add values" /\ deploy'[d].known = deploy[d].known
  <2>1. deploy'[e].step = "hooks" /\ \A d \in Engines : d # e => deploy'[d] = deploy[d]
    BY <1>2 DEF CompleteInv, DeployShaped, Ended
  <2> QED
    BY <2>1
<1>13. \A d \in Engines : \A c \in valCache'[d] : Counted(c) /\ DOMAIN c \subseteq DOMAIN symvals'
  BY <1>10, <1>11 DEF CountedInv
<1>14. \A d \in Engines : deploy'[d].step = "add values" =>
          Counted(deploy'[d].known) /\ DOMAIN deploy'[d].known \subseteq DOMAIN symvals'
  BY <1>10, <1>12 DEF CountedInv
<1> QED
  BY <1>9, <1>11, <1>13, <1>14 DEF CountedInv, Counted

\* Each step of a deployment is one engine's, and only one reads the values.
LEMMA OneDeploys ==
    ASSUME DeployShaped, NEW e \in Engines,
           \/ \E v \in Versions : BeginDeploy(e, v)
           \/ SymbolStep(e) \/ SaveHookRules(e) \/ SavePart(e) \/ SetApp(e) \/ StopDeploy(e)
    PROVE  /\ \A d \in Engines : d # e => deploy'[d] = deploy[d]
           /\ deploy'[e].step # "add values"
<1>1. \A d \in Engines : d # e => deploy'[d] = deploy[d]
  <2>1. CASE \E v \in Versions : BeginDeploy(e, v)
    BY <2>1 DEF DeployShaped, BeginDeploy
  <2>2. CASE SymbolStep(e)
    BY <2>2 DEF DeployShaped, SymbolStep, Reserve, MoveCursor, SetRange, Seed, ReadRange,
       ReadSymbols, BindSymbols, Goto, NextTarget
  <2>3. CASE SaveHookRules(e) \/ SavePart(e) \/ SetApp(e) \/ StopDeploy(e)
    BY <2>3 DEF DeployShaped, SaveHookRules, SavePart, SetApp, StopDeploy, Goto
  <2> QED
    BY <2>1, <2>2, <2>3
<1>2. deploy[e].step \notin Ended => "step" \in DOMAIN deploy[e]
  BY DEF DeployShaped
<1>4. CASE \E v \in Versions : BeginDeploy(e, v)
  BY <1>4 DEF BeginDeploy, DeployShaped
<1>5. CASE SymbolStep(e)
  <2>1. CASE Reserve(e) \/ SetRange(e) \/ Seed(e)
    <3>1. PICK s \in {"cursor", "read range", "seed", "bind"} :
                deploy[e].step \notin Ended /\ deploy' = Goto(e, s)
      BY <2>1 DEF Reserve, SetRange, Seed, Ended
    <3>2. deploy'[e].step = s
      BY <3>1, StepSet
    <3> QED
      BY <1>1, <3>2
  <2>2. CASE MoveCursor(e) \/ ReadRange(e) \/ ReadSymbols(e)
    BY <1>2, <2>2 DEF MoveCursor, ReadRange, ReadSymbols, Ended, DeployShaped
  <2>3. CASE BindSymbols(e)
    <3>1. deploy[e].step = "bind" /\ "step" \in DOMAIN deploy[e]
      BY <2>3 DEF BindSymbols, DeployShaped
    <3>2. deploy' = [deploy EXCEPT ![e] = [step |-> "failed"]] \/ deploy' = NextTarget(e)
      BY <2>3 DEF BindSymbols
    <3>3. CASE deploy' = [deploy EXCEPT ![e] = [step |-> "failed"]]
      BY <3>3 DEF DeployShaped
    <3>4. CASE deploy' = NextTarget(e)
      BY <3>1, <3>4 DEF NextTarget, DeployShaped
    <3> QED
      BY <3>2, <3>3, <3>4
  <2> QED
    BY <1>5, <2>1, <2>2, <2>3 DEF SymbolStep
<1>6. CASE SaveHookRules(e)
  <2>1. deploy[e].step \notin Ended /\ deploy' = Goto(e, "schemas")
    BY <1>6, PartsListed DEF SaveHookRules, Ended
  <2>2. deploy'[e].step = "schemas"
    BY <2>1, StepSet
  <2> QED
    BY <1>1, <2>2
<1>7. CASE SavePart(e)
  <2>1. PICK i \in DOMAIN Parts : deploy[e].step = Parts[i] /\ deploy' = Goto(e, PartAfter(i))
    BY <1>7 DEF SavePart
  <2>2. PICK s : s = PartAfter(i)
    OBVIOUS
  <2>3. s # "add values" /\ Parts[i] \notin Ended
    BY <2>2, PartNext DEF PartSet
  <2>4. deploy'[e].step = s
    BY <2>1, <2>2, <2>3, StepSet
  <2> QED
    BY <1>1, <2>3, <2>4
<1>8. CASE SetApp(e) \/ StopDeploy(e)
  <2>1. deploy'[e] = [step |-> "done"] \/ deploy'[e] = [step |-> "failed"]
    BY <1>8 DEF SetApp, StopDeploy, DeployShaped
  <2>2. CASE deploy'[e] = [step |-> "done"]
    BY <1>1, <2>2
  <2>3. CASE deploy'[e] = [step |-> "failed"]
    BY <1>1, <2>3
  <2> QED
    BY <2>1, <2>2, <2>3
<1> QED
  BY <1>1, <1>4, <1>5, <1>6, <1>7, <1>8

LEMMA CountedInvKept ==
    ASSUME CompleteInv, CountedInv, [Next]_vars PROVE CountedInv'
<1>1. DeployShaped /\ DOMAIN valCache = Engines
  BY DEF CompleteInv, CountedInv
<1>2. ASSUME UNCHANGED <<symvals, valCache, deploy>> PROVE CountedInv'
  BY <1>2, ValuesUntouched DEF CountedInv
<1>3. ASSUME NEW e \in Engines, UNCHANGED <<symvals, valCache>>,
             \/ \E v \in Versions : BeginDeploy(e, v)
             \/ SymbolStep(e) \/ SaveHookRules(e) \/ SavePart(e) \/ SetApp(e) \/ StopDeploy(e)
      PROVE  CountedInv'
  <2>1. /\ \A d \in Engines : d # e => deploy'[d] = deploy[d]
        /\ deploy'[e].step # "add values"
    BY <1>1, <1>3, OneDeploys
  <2>2. \A d \in Engines : deploy'[d].step = "add values" =>
           deploy[d].step = "add values" /\ deploy'[d].known = deploy[d].known
    BY <2>1
  <2> QED
    BY <1>1, <1>3, <2>2, ValuesUntouched
<1>4. CASE UNCHANGED vars
  BY <1>2, <1>4 DEF vars, deployVars, symbolVars, versionVars
<1>5. ASSUME NEW e \in Engines, DeployStep(e) PROVE CountedInv'
  <2>1. CASE BindTargets(e)
    BY <1>3, <2>1 DEF BindTargets, versionVars
  <2>2. CASE SaveHookRules(e) \/ SavePart(e)
    BY <1>3, <2>2 DEF SaveHookRules, SavePart
  <2>3. CASE AddValues(e)
    BY <2>3, AddKeepsCounted
  <2>4. CASE ReadValues(e)
    <3>1. /\ UNCHANGED symvals /\ valCache' = [valCache EXCEPT ![e] = {Copy(e)}]
          /\ deploy[e].step = "values"
          /\ deploy' = [deploy EXCEPT ![e].step = "add values", ![e].known = Copy(e)]
      BY <2>4 DEF ReadValues, CacheValues
    <3>2. /\ DOMAIN valCache' = Engines
          /\ \A d \in Engines : valCache'[d] \subseteq valCache[d] \cup {Copy(d)}
      BY <1>1, <3>1
    <3>3. {"step", "known"} \subseteq DOMAIN deploy[e]
      BY <1>1, <3>1 DEF DeployShaped, Ended
    <3>4. deploy'[e].known = Copy(e) /\ \A d \in Engines : d # e => deploy'[d] = deploy[d]
      BY <1>1, <3>1, <3>3 DEF DeployShaped
    <3> QED
      BY <3>1, <3>2, <3>4, ValuesUntouched
  <2> QED
    BY <1>5, <2>1, <2>2, <2>3, <2>4 DEF DeployStep
<1>6. ASSUME NEW e \in Engines, Execute(e) PROVE CountedInv'
  <2>1. /\ UNCHANGED <<symvals, deploy>>
        /\ valCache' = valCache \/ valCache' = [valCache EXCEPT ![e] = {Copy(e)}]
    BY <1>6 DEF Execute, FetchSymbols, CacheValues
  <2>2. /\ DOMAIN valCache' = Engines
        /\ \A d \in Engines : valCache'[d] \subseteq valCache[d] \cup {Copy(d)}
    BY <1>1, <2>1
  <2> QED
    BY <2>1, <2>2, ValuesUntouched
<1>7. ASSUME NEW e \in Engines, NEW v \in Versions, Begin(e, v) PROVE CountedInv'
  BY <1>3, <1>7 DEF Begin, versionVars
<1>8. ASSUME NEW e \in Engines, SetApp(e) \/ Stop(e) PROVE CountedInv'
  BY <1>3, <1>8 DEF SetApp, Stop, versionVars
<1>9. ASSUME UNCHANGED deployVars PROVE CountedInv'
  BY <1>2, <1>9 DEF deployVars, symbolVars, versionVars
<1>10. ASSUME NEW e \in Engines, ActivateAppVersion(e), UNCHANGED symbolVars PROVE CountedInv'
  BY <1>2, <1>10 DEF ActivateAppVersion, symbolVars
<1> QED
  BY <1>4, <1>5, <1>6, <1>7, <1>8, <1>9, <1>10 DEF Next

LEMMA CountedInvInitially == ASSUME Init PROVE CountedInv
<1>1. deploy = [e \in Engines |-> Undeployed]
  BY DEF Init, StartFresh, StartDeployed, DeploymentInit, SymbolsInit
<1>2. \A e \in Engines : deploy[e].step # "add values"
  BY <1>1 DEF Undeployed
<1>3. CASE StartFresh
  <2>1. symvals = <<>> /\ valCache = [e \in Engines |-> NoCopy]
    BY <1>3 DEF StartFresh, DeploymentInit
  <2>2. DOMAIN <<>> = 1..0
    OBVIOUS
  <2> QED
    BY <1>2, <2>1, <2>2 DEF CountedInv, Counted, NoCopy
<1>4. CASE StartDeployed
  <2>1. PICK all : all = UNION {Values[v] : v \in Versions}
    OBVIOUS
  <2>2. /\ symvals = Order(all) /\ DOMAIN valCache = Engines
        /\ \A e \in Engines : valCache[e] = {symvals} \/ valCache[e] = {}
    BY <1>4, <2>1 DEF StartDeployed, NoCopy
  <2>3. Counted(symvals)
    BY <2>1, <2>2, ValuesAssumption, OrderEnumerates DEF Counted
  <2> QED
    BY <1>2, <2>2, <2>3 DEF CountedInv
<1> QED
  BY <1>3, <1>4 DEF Init

\* Deployments that number from a copy that is not old take no symbol away from
\* the value it stands for, whatever else happens in between.
THEOREM OnlyOldCopiesRenumber == Spec => ValuesKept
<1>1. ASSUME CompleteInv, CountedInv, [Next]_vars PROVE [KeepsValues]_versionVars
  <2>1. CASE UNCHANGED symvals
    BY <2>1 DEF KeepsValues
  <2>2. ASSUME NEW e \in Engines, AddValues(e) PROVE KeepsValues
    <3>1. PICK known, new : /\ known = deploy[e].known
                            /\ new = FilterSymVals(known, Values[deploy[e].version])
      OBVIOUS
    <3>2. /\ deploy[e].step = "add values" /\ symvals' = WithFields(new, symvals)
          /\ deploy' = [deploy EXCEPT ![e].step = "hooks", ![e].known = <<>>]
      BY <2>2, <3>1 DEF AddValues
    <3>3. deploy[e].version \in Versions /\ deploy'[e].step = "hooks"
      BY <1>1, <3>2 DEF CompleteInv, OnCourse, DeployShaped, Ended
    <3>4. CASE known # symvals
      BY <3>1, <3>2, <3>3, <3>4 DEF KeepsValues
    <3>5. CASE known = symvals
      <4>1. PICK n \in Nat : DOMAIN symvals = 1..n
        BY <1>1 DEF CountedInv, Counted
      <4>2. PICK v : v = deploy[e].version /\ v \in Versions
        BY <3>3
      <4>3. PICK k \in Nat : DOMAIN new = (n + 1)..(n + k)
        BY <3>1, <3>5, <4>1, <4>2, FilteredValues
      <4>4. \A s \in DOMAIN symvals : s \notin DOMAIN new
        BY <4>1, <4>3
      <4> QED
        BY <3>2, <4>4 DEF WithFields, KeepsValues
    <3> QED
      BY <3>4, <3>5
  <2>3. UNCHANGED symvals \/ \E e \in Engines : AddValues(e)
    BY <1>1 DEF Next, vars, deployVars, versionVars, Begin, DeployStep, BindTargets, ReadValues,
       SaveHookRules, SavePart, Stop, SetApp, ActivateAppVersion, Execute
  <2> QED
    BY <2>1, <2>2, <2>3
<1>2. Init => CompleteInv /\ CountedInv
  BY CompleteInvInitially, CountedInvInitially
<1>3. CompleteInv /\ CountedInv /\ [Next]_vars => (CompleteInv /\ CountedInv)'
  BY CompleteInvKept, CountedInvKept
<1>4. CompleteInv /\ CountedInv /\ [Next]_vars => [KeepsValues]_versionVars
  BY <1>1
<1> QED
  BY <1>2, <1>3, <1>4, PTL DEF Spec, ValuesKept

-----------------------------------------------------------------------------
(* What the symbols of a target are good for: as long as no two            *)
(* deployments meet at it, however many engines deploy and wherever they   *)
(* stop, each symbol stands for one path, and no engine's copy says        *)
(* otherwise; so what one engine stores another reads back.                *)
At(e, t) == AtTarget(e) /\ Target(e) = t

Injective(f) == \A p, q \in DOMAIN f : f[p] = f[q] => p = q

Within(f, l, u) == \A p \in DOMAIN f : f[p] \in Int /\ l <= f[p] /\ f[p] < u

\* The symbols of a target whose range begins at l.
Assigned(f, l) ==
    /\ IsFiniteSet(DOMAIN f) /\ Injective(f)
    /\ Within(f, l, l + Slots + Cardinality(DOMAIN f)) /\ Within(f, l, l + RangeSize)

Kept(t) == IF Limited(t) THEN Assigned(symkeys[t], ranges[t][1]) ELSE symkeys[t] = <<>>

Alone(t) == \A d, e \in Engines : At(d, t) /\ At(e, t) => d = e

\* What a deployment at t knows of it is still so; one that has seeded it knows
\* of no symbols, and there are only those of the slots.
UpToDate(d, t) ==
    /\ d.step \in {"cursor", "range"} => ranges[t] = Pending
    /\ d.step \in {"seed", "read range", "read symbols", "bind"} => Limited(t)
    /\ d.step \in {"seed", "read symbols", "bind"} => d.lower = ranges[t][1]
    /\ d.step = "seed" => symkeys[t] = <<>>
    /\ d.step = "bind" =>
          \/ d.known = symkeys[t]
          \/ d.known = <<>> /\ Within(symkeys[t], ranges[t][1], ranges[t][1] + Slots)

\* A deployment is past a target it has bound.
Past(d, t) ==
    /\ d.step \notin Ended /\ t \in Targets(d.version)
    /\ d.step \in TargetSteps => \A i \in 1..Len(d.todo) : d.todo[i] # t

\* A target that some deployment is past, that is served, or that was copied.
Used(t) ==
    \/ \E v \in app.deployed : t \in Targets(v)
    \/ \E e \in Engines : Past(deploy[e], t) \/ symCache[e][t] # NoCopy

\* Nobody will replace a symbol of t.
Finished(t) ==
    /\ Limited(t)
    /\ \A e \in Engines : At(e, t) =>
          /\ deploy[e].step # "seed"
          /\ deploy[e].step = "bind" => deploy[e].known = symkeys[t]

OlderCopy(c, f) == \A p \in DOMAIN c : p \in DOMAIN f /\ f[p] = c[p]

Copied(t) == \A e \in Engines : \A c \in symCache[e][t] : OlderCopy(c, symkeys[t])

Sound(t) ==
    /\ Alone(t) /\ Kept(t) /\ Copied(t)
    /\ \A e \in Engines : At(e, t) => UpToDate(deploy[e], t)
    /\ Used(t) => Finished(t)

KnowsNothingYet ==
    \A e \in Engines :
        deploy[e].step \in {"reserve", "cursor", "range", "seed"} => deploy[e].known = <<>>

ServesDeployed ==
    /\ app.version \in app.deployed \cup {None}
    /\ DOMAIN apps = Engines /\ DOMAIN storeApp = Engines
    /\ asked \in [Engines -> Seq(Reads)]
    /\ \A e \in Engines :
         /\ {apps[e], storeApp[e]} \subseteq app.deployed \cup {None}
         /\ \A i \in 1..Len(asked[e]) : asked[e][i].reply \in app.deployed \cup {None}

CopiesShaped ==
    /\ DOMAIN symCache = Engines
    /\ \A e \in Engines : DOMAIN symCache[e] = AllTargets

SymbolInv ==
    /\ CopiesShaped /\ KnowsNothingYet /\ ServesDeployed
    /\ \A t \in AllTargets \ raced : Sound(t)

-----------------------------------------------------------------------------
(* Assignments of symbols.                                                 *)

LEMMA NumberedFrom ==
    ASSUME NEW S, IsFiniteSet(S), NEW start \in Nat
    PROVE  /\ DOMAIN Numbered(S, start) = S /\ Injective(Numbered(S, start))
           /\ Within(Numbered(S, start), start, start + Cardinality(S))
<1>1. PICK n, o, f : n = Cardinality(S) /\ o = Order(S) /\ f = Numbered(S, start)
  OBVIOUS
<1>2. /\ n \in Nat /\ o \in [1..n -> S]
      /\ \A i, j \in 1..n : o[i] = o[j] => i = j
      /\ \A x \in S : \E i \in 1..n : o[i] = x
  BY <1>1, OrderEnumerates
<1>3. start # NaN
  BY DEF NaN
<1>4. DOMAIN f = S /\ \A p \in S : f[p] = start - 1 + CHOOSE i \in DOMAIN o : o[i] = p
  BY <1>1, <1>3 DEF Numbered
<1>5. ASSUME NEW p \in S PROVE \E i \in 1..n : o[i] = p /\ f[p] = start - 1 + i
  <2>1. PICK i : i = CHOOSE j \in 1..n : o[j] = p
    OBVIOUS
  <2>2. i \in 1..n /\ o[i] = p
    BY <1>2, <2>1
  <2>3. f[p] = start - 1 + i
    BY <1>2, <1>4, <2>1
  <2> QED
    BY <2>2, <2>3
<1>6. Within(f, start, start + n)
  BY <1>2, <1>4, <1>5 DEF Within
<1>7. ASSUME NEW p \in S, NEW q \in S, f[p] = f[q] PROVE p = q
  <2>1. PICK i \in 1..n : o[i] = p /\ f[p] = start - 1 + i
    BY <1>5
  <2>2. PICK j \in 1..n : o[j] = q /\ f[q] = start - 1 + j
    BY <1>5
  <2>3. start - 1 + i = start - 1 + j
    BY <1>7, <2>1, <2>2
  <2>4. i = j
    BY <2>3
  <2> QED
    BY <2>1, <2>2, <2>4
<1> QED
  BY <1>1, <1>4, <1>6, <1>7 DEF Injective

\* Fields numbered after all others clash with none of them.
LEMMA FieldsAfter ==
    ASSUME NEW f, NEW g, NEW l \in Int, NEW m \in Int, NEW u \in Int, l <= m, m <= u,
           IsFiniteSet(DOMAIN f), Injective(f), Within(f, l, m),
           IsFiniteSet(DOMAIN g), Injective(g), Within(g, m, u)
    PROVE  /\ DOMAIN WithFields(g, f) = DOMAIN g \cup DOMAIN f
           /\ IsFiniteSet(DOMAIN WithFields(g, f)) /\ Injective(WithFields(g, f))
           /\ Within(WithFields(g, f), l, u)
<1>1. PICK h : h = WithFields(g, f)
  OBVIOUS
<1>2. /\ DOMAIN h = DOMAIN g \cup DOMAIN f
      /\ \A p \in DOMAIN g : h[p] = g[p]
      /\ \A p \in DOMAIN f : p \notin DOMAIN g => h[p] = f[p]
  BY <1>1 DEF WithFields
<1>3. IsFiniteSet(DOMAIN h)
  BY <1>2, FS_Union
<1>4. ASSUME NEW p \in DOMAIN h
      PROVE  \/ p \in DOMAIN g /\ h[p] \in Int /\ m <= h[p] /\ h[p] < u
             \/ p \notin DOMAIN g /\ p \in DOMAIN f /\ h[p] \in Int /\ l <= h[p] /\ h[p] < m
  BY <1>2 DEF Within
<1>5. Within(h, l, u)
  <2> SUFFICES ASSUME NEW p \in DOMAIN h PROVE h[p] \in Int /\ l <= h[p] /\ h[p] < u
    BY DEF Within
  <2>1. PICK x : x = h[p]
    OBVIOUS
  <2>2. x \in Int /\ ((m <= x /\ x < u) \/ (l <= x /\ x < m))
    BY <1>4, <2>1
  <2>3. l <= x /\ x < u
    BY <2>2
  <2> QED
    BY <2>1, <2>2, <2>3
<1>6. ASSUME NEW p \in DOMAIN h, NEW q \in DOMAIN h, h[p] = h[q] PROVE p = q
  <2>1. CASE p \in DOMAIN g /\ q \in DOMAIN g
    BY <1>2, <1>6, <2>1 DEF Injective
  <2>2. CASE p \notin DOMAIN g /\ q \notin DOMAIN g
    BY <1>2, <1>6, <2>2 DEF Injective
  <2>3. CASE p \in DOMAIN g /\ q \notin DOMAIN g
    <3>1. PICK x : x = h[p] /\ x = h[q]
      BY <1>6
    <3>2. x \in Int /\ m <= x /\ x < m
      BY <1>4, <2>3, <3>1
    <3> QED
      BY <3>2
  <2>4. CASE p \notin DOMAIN g /\ q \in DOMAIN g
    <3>1. PICK x : x = h[p] /\ x = h[q]
      BY <1>6
    <3>2. x \in Int /\ m <= x /\ x < m
      BY <1>4, <2>4, <3>1
    <3> QED
      BY <3>2
  <2> QED
    BY <2>1, <2>2, <2>3, <2>4
<1> QED
  BY <1>1, <1>2, <1>3, <1>5, <1>6 DEF Injective

LEMMA PathsFinite ==
    ASSUME NEW v \in Versions, NEW t \in AllTargets PROVE IsFiniteSet(PathsOf(v, t))
<1>1. PathsOf(v, t) \subseteq AllPaths
  BY DEF AllPaths
<1> QED
  BY <1>1, ManifestAssumption, FS_Subset

\* The fields of a target's slots.
LEMMA SeededAssigned ==
    ASSUME NEW l \in Nat
    PROVE  /\ Assigned(WithFields(Numbered(MetaPaths, l), <<>>), l)
           /\ Within(WithFields(Numbered(MetaPaths, l), <<>>), l, l + Slots)
<1>1. PICK g, c : g = Numbered(MetaPaths, l) /\ c = Cardinality(MetaPaths)
  OBVIOUS
<1>2. /\ DOMAIN g = MetaPaths /\ IsFiniteSet(MetaPaths)
      /\ Injective(g) /\ Within(g, l, l + c)
  BY <1>1, NumberedFrom, RangeAssumption
<1>3. c \in Nat /\ Slots \in Nat /\ RangeSize \in Nat /\ c <= Slots /\ Slots < RangeSize
  BY <1>1, RangeAssumption, FS_CardinalityType
<1>4. WithFields(g, <<>>) = g
  <2>1. DOMAIN WithFields(g, <<>>) = DOMAIN g
    BY DEF WithFields
  <2>2. \A p \in DOMAIN g : WithFields(g, <<>>)[p] = g[p]
    BY DEF WithFields
  <2>3. g = [p \in MetaPaths |-> g[p]]
    BY <1>1 DEF Numbered
  <2> QED
    BY <1>2, <2>1, <2>2, <2>3 DEF WithFields
<1>5. Within(g, l, l + Slots)
  BY <1>2, <1>3 DEF Within
<1>6. Within(g, l, l + Slots + c) /\ Within(g, l, l + RangeSize)
  BY <1>2, <1>3 DEF Within
<1> QED
  BY <1>1, <1>2, <1>4, <1>5, <1>6 DEF Assigned

\* New paths are numbered after the paths that are known, or after the slots if
\* there are no symbols but theirs.
LEMMA BoundAssigned ==
    ASSUME NEW f, NEW l \in Nat, Assigned(f, l), NEW known,
           known = f \/ (known = <<>> /\ Within(f, l, l + Slots)),
           NEW S, IsFiniteSet(S), S \cap DOMAIN known = {},
           StartIndex(l, known) + Cardinality(S) <= l + RangeSize
    PROVE  Assigned(WithFields(Numbered(S, StartIndex(l, known)), f), l)
<1>1. PICK n, k, s : n = Cardinality(DOMAIN f) /\ k = Cardinality(S) /\ s = StartIndex(l, known)
  OBVIOUS
<1>2. n \in Nat /\ k \in Nat /\ Slots \in Nat /\ RangeSize \in Nat
  BY <1>1, FS_CardinalityType, RangeAssumption DEF Assigned
<1>3. IsFiniteSet(DOMAIN f) /\ Injective(f) /\ Within(f, l, l + Slots + n)
  BY <1>1 DEF Assigned
<1>4. l # NaN
  BY DEF NaN
<1>5. CASE known = f
  <2>1. s = l + Slots + n /\ s \in Nat /\ l <= s /\ s <= s + k /\ s + k <= l + RangeSize
    BY <1>1, <1>2, <1>4, <1>5 DEF StartIndex
  <2>2. PICK g, h : g = Numbered(S, s) /\ h = WithFields(g, f)
    OBVIOUS
  <2>3. DOMAIN g = S /\ Injective(g) /\ Within(g, s, s + k)
    BY <1>1, <2>1, <2>2, NumberedFrom
  <2>4. Within(f, l, s)
    BY <1>3, <2>1
  <2>5. /\ DOMAIN h = S \cup DOMAIN f /\ IsFiniteSet(DOMAIN h) /\ Injective(h)
        /\ Within(h, l, s + k)
    <3>1. s + k \in Int /\ s \in Int /\ l \in Int
      BY <1>2, <2>1
    <3>2. IsFiniteSet(DOMAIN g)
      BY <2>3
    <3> QED
      BY <3>2, <1>3, <2>1, <2>2, <2>3, <2>4, <3>1, FieldsAfter
  <2>6. Cardinality(DOMAIN h) = k + n
    <3>1. S \cap DOMAIN f = {}
      BY <1>5
    <3>2. Cardinality(S \cap DOMAIN f) = 0
      BY <3>1, FS_EmptySet
    <3>3. Cardinality(S \cup DOMAIN f) = Cardinality(S) + Cardinality(DOMAIN f) - Cardinality(S \cap DOMAIN f)
      BY <1>3, FS_Union
    <3> QED
      BY <1>1, <1>2, <2>5, <3>2, <3>3
  <2>7. s + k = l + Slots + Cardinality(DOMAIN h)
    BY <1>2, <2>1, <2>6
  <2>8. Within(h, l, l + RangeSize)
    BY <1>2, <2>1, <2>5 DEF Within
  <2> QED
    BY <1>1, <2>2, <2>5, <2>7, <2>8 DEF Assigned
<1>6. CASE known = <<>> /\ Within(f, l, l + Slots)
  <2>1. Cardinality(DOMAIN known) = 0
    <3>1. DOMAIN known = {}
      BY <1>6
    <3> QED
      BY <3>1, FS_EmptySet
  <2>2. s = l + Slots /\ s \in Nat /\ l <= s /\ s <= s + k /\ s + k <= l + RangeSize
    BY <1>1, <1>2, <1>4, <2>1 DEF StartIndex
  <2>3. PICK g, h : g = Numbered(S, s) /\ h = WithFields(g, f)
    OBVIOUS
  <2>4. DOMAIN g = S /\ Injective(g) /\ Within(g, s, s + k)
    BY <1>1, <2>2, <2>3, NumberedFrom
  <2>5. /\ DOMAIN h = S \cup DOMAIN f /\ IsFiniteSet(DOMAIN h) /\ Injective(h)
        /\ Within(h, l, s + k)
    <3>1. s + k \in Int /\ s \in Int /\ l \in Int /\ Within(f, l, s)
      BY <1>2, <1>6, <2>2
    <3>2. IsFiniteSet(DOMAIN g)
      BY <2>4
    <3> QED
      BY <3>2, <1>3, <2>2, <2>3, <2>4, <3>1, FieldsAfter
  <2>6. PICK m : m = Cardinality(DOMAIN h) /\ m \in Nat /\ k <= m
    <3>1. S \subseteq DOMAIN h
      BY <2>5
    <3>2. Cardinality(S) <= Cardinality(DOMAIN h)
      BY <2>5, <3>1, FS_Subset
    <3>3. Cardinality(DOMAIN h) \in Nat
      BY <2>5, FS_CardinalityType
    <3> QED
      BY <1>1, <3>2, <3>3
  <2>7. Within(h, l, l + RangeSize)
    BY <1>2, <2>2, <2>5 DEF Within
  <2>8. Within(h, l, l + Slots + m)
    BY <1>2, <2>2, <2>5, <2>6 DEF Within
  <2> QED
    BY <1>1, <2>3, <2>5, <2>6, <2>7, <2>8 DEF Assigned
<1> QED
  BY <1>5, <1>6

-----------------------------------------------------------------------------
(* Steps.                                                                  *)

\* A target nobody comes to, and whose symbols stay.
LEMMA Elsewhere ==
    ASSUME NEW t \in AllTargets, Sound(t), ranges'[t] = ranges[t], symkeys'[t] = symkeys[t],
           \A f \in Engines : At(f, t)' => At(f, t) /\ deploy'[f] = deploy[f],
           \A f \in Engines : symCache'[f][t] \subseteq symCache[f][t] \cup {symkeys[t]},
           Used(t)' => Used(t)
    PROVE  Sound(t)'
<1>1. Limited(t)' <=> Limited(t)
  BY DEF Limited
<1>2. Alone(t)'
  BY DEF Sound, Alone
<1>3. Kept(t)'
  BY <1>1 DEF Sound, Kept
<1>4. Copied(t)'
  BY DEF Sound, Copied, OlderCopy
<1>5. ASSUME NEW f \in Engines, At(f, t)' PROVE UpToDate(deploy[f], t)'
  BY <1>1, <1>5 DEF Sound, UpToDate
<1>6. ASSUME Used(t)' PROVE Finished(t)'
  BY <1>1, <1>6 DEF Sound, Finished
<1> QED
  BY <1>2, <1>3, <1>4, <1>5, <1>6 DEF Sound

\* The target an engine is at, when no other engine is.
LEMMA AtHome ==
    ASSUME NEW t \in AllTargets, NEW e \in Engines,
           \A f \in Engines : At(f, t)' => f = e,
           Kept(t)', Copied(t)', At(e, t)' => UpToDate(deploy[e], t)',
           Used(t)' => Finished(t)'
    PROVE  Sound(t)'
  BY DEF Sound, Alone

\* One engine's deployment goes on; nothing is deployed by that, nor copied.
LEMMA StaysUsed ==
    ASSUME NEW t \in AllTargets, NEW e \in Engines, Used(t)', app'.deployed = app.deployed,
           \A f \in Engines : symCache'[f][t] # NoCopy => symCache[f][t] # NoCopy,
           \A f \in Engines : f # e => deploy'[f] = deploy[f],
           Past(deploy'[e], t) => Past(deploy[e], t)
    PROVE  Used(t)
<1>1. CASE \E v \in app'.deployed : t \in Targets(v)
  BY <1>1 DEF Used
<1>2. ASSUME NEW f \in Engines, Past(deploy'[f], t) PROVE Used(t)
  BY <1>2 DEF Used
<1>3. ASSUME NEW f \in Engines, symCache'[f][t] # NoCopy PROVE Used(t)
  BY <1>3 DEF Used
<1> QED
  BY <1>1, <1>2, <1>3 DEF Used, Past

\* A round trip of a deployment that stays at its target.
LEMMA HereOnly ==
    ASSUME SymbolInv, DeployShaped, NEW e \in Engines, deploy[e].step \in TargetSteps,
           NEW d, deploy' = [deploy EXCEPT ![e] = d], DOMAIN d = DOMAIN deploy[e],
           d.step \in TargetSteps, d.todo = deploy[e].todo, d.version = deploy[e].version,
           d.step \in {"reserve", "cursor", "range", "seed"} => d.known = <<>>,
           UNCHANGED <<symCache, app, apps, storeApp, asked>>, raced \subseteq raced',
           \A t \in AllTargets : t # Target(e) => ranges'[t] = ranges[t] /\ symkeys'[t] = symkeys[t],
           Target(e) \in AllTargets \ raced' =>
              /\ \A f \in Engines : f # e => ~At(f, Target(e))
              /\ \E u : u = Target(e) /\ Kept(u)' /\ Copied(u)' /\ UpToDate(d, u)'
                        /\ (Used(u) => Finished(u)')
    PROVE  SymbolInv'
<1>1. /\ deploy[e].step \notin Ended /\ d.step \notin Ended
      /\ "step" \in DOMAIN d /\ {"version", "todo", "lower", "known"} \subseteq DOMAIN d
  BY StepsApart DEF DeployShaped
<1>2. deploy'[e] = d /\ \A f \in Engines : f # e => deploy'[f] = deploy[f]
  BY <1>1, ShapeKept
<1>3. \A t \in AllTargets : Past(d, t) => Past(deploy[e], t)
  BY <1>1 DEF Past
<1>4. \A t \in AllTargets : Used(t)' => Used(t)
  <2> TAKE t \in AllTargets
  <2>1. ASSUME Used(t)' PROVE Used(t)
    BY <1>2, <1>3, <2>1, StaysUsed
  <2> QED
    BY <2>1
<1>5. ASSUME NEW f \in Engines, NEW t, At(f, t)'
      PROVE  (f = e /\ t = Target(e)) \/ (f # e /\ At(f, t))
  <2>1. CASE f = e
    BY <1>2, <1>5, <2>1 DEF At, Target
  <2>2. CASE f # e
    BY <1>2, <1>5, <2>2 DEF At, AtTarget, Target
  <2> QED
    BY <2>1, <2>2
<1>6. CopiesShaped' /\ ServesDeployed' /\ KnowsNothingYet'
  BY <1>2 DEF SymbolInv, CopiesShaped, ServesDeployed, KnowsNothingYet
<1>7. ASSUME NEW t \in AllTargets \ raced', t # Target(e) PROVE Sound(t)'
  <2>1. Sound(t)
    BY DEF SymbolInv
  <2>2. \A f \in Engines : At(f, t)' => At(f, t) /\ deploy'[f] = deploy[f]
    BY <1>2, <1>5, <1>7
  <2>3. \A f \in Engines : symCache'[f][t] \subseteq symCache[f][t] \cup {symkeys[t]}
    OBVIOUS
  <2> QED
    BY <1>4, <1>7, <2>1, <2>2, <2>3, Elsewhere
<1>8. ASSUME NEW t \in AllTargets \ raced', t = Target(e) PROVE Sound(t)'
  <2>1. /\ \A f \in Engines : f # e => ~At(f, t)
        /\ Kept(t)' /\ Copied(t)' /\ UpToDate(d, t)' /\ (Used(t) => Finished(t)')
    <3>1. PICK u : u = Target(e) /\ Kept(u)' /\ Copied(u)' /\ UpToDate(d, u)'
                   /\ (Used(u) => Finished(u)')
      BY <1>8
    <3>2. u = t
      BY <1>8, <3>1
    <3> QED
      BY <1>8, <3>1, <3>2
  <2>2. \A f \in Engines : At(f, t)' => f = e
    BY <1>5, <2>1
  <2>3. Used(t)' => Finished(t)'
    BY <1>4, <2>1
  <2>4. UpToDate(deploy[e], t)'
    BY <1>2, <2>1 DEF UpToDate
  <2> QED
    BY <2>1, <2>2, <2>3, <2>4, AtHome
<1> QED
  BY <1>6, <1>7, <1>8 DEF SymbolInv

LEMMA AtATarget ==
    ASSUME CompleteInv, NEW e \in Engines, deploy[e].step \in TargetSteps
    PROVE  /\ DeployShaped /\ deploy[e].step \notin Ended
           /\ {"version", "todo", "lower", "known"} \subseteq DOMAIN deploy[e]
           /\ Target(e) \in AllTargets /\ Target(e) = Head(deploy[e].todo)
           /\ deploy[e].version \in Versions
           /\ deploy[e].todo \in Seq(AllTargets) /\ deploy[e].todo # <<>>
<1>1. deploy[e].step \notin Ended /\ DeployShaped
  BY StepsApart DEF CompleteInv
<1>2. OnCourse(deploy[e])
  BY <1>1 DEF CompleteInv
<1>3. /\ deploy[e].version \in Versions
      /\ deploy[e].todo \in Seq(AllTargets) /\ deploy[e].todo # <<>>
  BY <1>2 DEF OnCourse, ListsTargets
<1> QED
  BY <1>1, <1>3 DEF DeployShaped, Target

\* What is known of the target an engine is at.
LEMMA KnownHere ==
    ASSUME SymbolInv, NEW e \in Engines, AtTarget(e), NEW t \in AllTargets \ raced, t = Target(e)
    PROVE  /\ Sound(t) /\ At(e, t) /\ UpToDate(deploy[e], t)
           /\ \A f \in Engines : f # e => ~At(f, t)
<1>1. Sound(t) /\ At(e, t)
  BY DEF SymbolInv, At
<1> QED
  BY <1>1 DEF Sound, Alone

LEMMA ReserveSound ==
    ASSUME CompleteInv, SymbolInv, RangeInv, NEW e \in Engines, Reserve(e),
           UNCHANGED <<app, apps, storeApp, asked>>
    PROVE  SymbolInv'
<1>1. PICK t : t = Target(e)
  OBVIOUS
<1>2. /\ deploy[e].step = "reserve" /\ UNCHANGED <<symkeys, symCache>> /\ raced \subseteq raced'
      /\ t \notin raced' => ranges[t] # Pending /\ \A f \in Engines : f # e => ~At(f, t)
  BY <1>1 DEF Reserve, At
<1>3. PICK s :
         /\ s \in {"cursor", "read range"} /\ deploy' = Goto(e, s)
         /\ s = "cursor" => ranges[t] = Absent /\ ranges' = [ranges EXCEPT ![t] = Pending]
         /\ s = "read range" => ranges[t] # Absent /\ ranges' = ranges
  <2>1. CASE ranges[t] = Absent
    <3>1. deploy' = Goto(e, "cursor") /\ ranges' = [ranges EXCEPT ![t] = Pending]
      BY <1>1, <2>1 DEF Reserve
    <3>2. PICK s : s = "cursor"
      OBVIOUS
    <3>3. s \in {"cursor", "read range"} /\ s # "read range"
      BY <3>2
    <3> QED
      BY <2>1, <3>1, <3>2, <3>3
  <2>2. CASE ranges[t] # Absent
    <3>1. deploy' = Goto(e, "read range") /\ ranges' = ranges
      BY <1>1, <2>2 DEF Reserve
    <3> QED
      BY <2>2, <3>1
  <2> QED
    BY <2>1, <2>2
<1>4. PICK d : d = [deploy[e] EXCEPT !.step = s]
  OBVIOUS
<1>5. /\ deploy[e].step \in TargetSteps /\ s \in TargetSteps
      /\ t \in AllTargets /\ DeployShaped /\ deploy[e].step \notin Ended
  BY <1>1, <1>2, <1>3, AtATarget DEF TargetSteps
<1>6. /\ DOMAIN d = DOMAIN deploy[e] /\ d.step = s /\ d.todo = deploy[e].todo
      /\ d.version = deploy[e].version /\ d.known = deploy[e].known
      /\ deploy' = [deploy EXCEPT ![e] = d]
  <2>1. deploy' = Goto(e, s) /\ DeployShaped /\ deploy[e].step \notin Ended
    BY <1>3, <1>5
  <2> QED
    BY <1>4, <2>1, StepFields
<1>7. d.known = <<>>
  BY <1>2, <1>6 DEF SymbolInv, KnowsNothingYet
<1>8. \A u \in AllTargets : u # t => ranges'[u] = ranges[u] /\ symkeys'[u] = symkeys[u]
  BY <1>2, <1>3 DEF RangeInv, RangeTypes
<1>9. ASSUME t \notin raced'
      PROVE  Kept(t)' /\ Copied(t)' /\ UpToDate(d, t)' /\ (Used(t) => Finished(t)')
  <2>1. Sound(t) /\ Copied(t)'
    BY <1>2, <1>5, <1>9 DEF SymbolInv, Sound, Copied
  <2>2. CASE s = "cursor"
    <3>1. ~Limited(t) /\ ranges'[t] = Pending /\ ~Limited(t)'
      BY <1>3, <1>5, <2>2 DEF RangeInv, RangeTypes, Limited
    <3>2. Kept(t)'
      BY <1>2, <2>1, <3>1 DEF Sound, Kept
    <3>3. UpToDate(d, t)'
      BY <1>6, <2>2, <3>1 DEF UpToDate
    <3>4. ~Used(t)
      BY <2>1, <3>1 DEF Sound, Finished
    <3> QED
      BY <2>1, <3>2, <3>3, <3>4
  <2>3. CASE s = "read range"
    <3>1. Limited(t) /\ Limited(t)' /\ ranges'[t] = ranges[t]
      BY <1>2, <1>3, <1>9, <2>3 DEF Limited
    <3>2. Kept(t)'
      BY <1>2, <2>1, <3>1 DEF Sound, Kept
    <3>3. UpToDate(d, t)'
      BY <1>6, <2>3, <3>1 DEF UpToDate
    <3>4. deploy'[e] = d /\ \A f \in Engines : f # e => deploy'[f] = deploy[f]
      BY <1>5, <1>6 DEF DeployShaped
    <3>5. \A f \in Engines : At(f, t)' => f = e
      <4>1. ASSUME NEW f \in Engines, f # e, At(f, t)' PROVE At(f, t)
        BY <3>4, <4>1 DEF At, AtTarget, Target
      <4> QED
        BY <1>2, <1>9, <4>1
    <3>6. Finished(t)'
      BY <1>6, <2>3, <3>1, <3>4, <3>5 DEF Finished
    <3> QED
      BY <2>1, <3>2, <3>3, <3>6
  <2> QED
    BY <1>3, <2>2, <2>3
<1> QED
  BY <1>1, <1>2, <1>5, <1>6, <1>7, <1>8, <1>9, HereOnly

LEMMA LimitsAreLimits ==
    ASSUME NEW l, NEW u PROVE <<l, u>> \notin {Absent, Pending} /\ <<l, u>>[1] = l
<1>1. PICK r : r = <<l, u>>
  OBVIOUS
<1>2. Len(r) = 2 /\ Len(<<>>) = 0 /\ Len(<<NaN>>) = 1 /\ r[1] = l
  BY <1>1
<1> QED
  BY <1>1, <1>2 DEF Absent, Pending

LEMMA NothingAssigned == \A l : Assigned(<<>>, l)
<1>1. DOMAIN <<>> = {}
  OBVIOUS
<1>2. IsFiniteSet(DOMAIN <<>>)
  BY <1>1, FS_EmptySet
<1> QED
  BY <1>1, <1>2 DEF Assigned, Injective, Within

LEMMA CursorSound ==
    ASSUME CompleteInv, SymbolInv, RangeInv, NEW e \in Engines, MoveCursor(e),
           UNCHANGED <<app, apps, storeApp, asked>>
    PROVE  SymbolInv'
<1>1. PICK t, d : t = Target(e) /\ d = [deploy[e] EXCEPT !.step = "range", !.lower = cursor]
  OBVIOUS
<1>2. /\ deploy[e].step = "cursor" /\ UNCHANGED <<ranges, symkeys, symCache, raced>>
      /\ AtTarget(e)
  BY DEF MoveCursor, AtTarget
<1>3. /\ deploy[e].step \in TargetSteps /\ t \in AllTargets /\ DeployShaped
      /\ {"version", "todo", "lower", "known"} \subseteq DOMAIN deploy[e]
  BY <1>1, <1>2, AtATarget DEF TargetSteps
<1>4. /\ DOMAIN d = DOMAIN deploy[e] /\ d.step = "range" /\ d.todo = deploy[e].todo
      /\ d.version = deploy[e].version /\ d.known = deploy[e].known
  BY <1>1, <1>3 DEF DeployShaped
<1>5. deploy' = [deploy EXCEPT ![e] = d]
  BY <1>1, <1>3 DEF MoveCursor, DeployShaped
<1>6. d.known = <<>> /\ d.step \in TargetSteps
  BY <1>2, <1>4 DEF SymbolInv, KnowsNothingYet, TargetSteps
<1>7. ASSUME t \notin raced'
      PROVE  /\ \A f \in Engines : f # e => ~At(f, t)
             /\ Kept(t)' /\ Copied(t)' /\ UpToDate(d, t)' /\ (Used(t) => Finished(t)')
  <2>1. /\ Sound(t) /\ At(e, t) /\ UpToDate(deploy[e], t)
        /\ \A f \in Engines : f # e => ~At(f, t)
    BY <1>1, <1>2, <1>3, <1>7, KnownHere
  <2>2. ranges[t] = Pending /\ ~Limited(t) /\ ~Limited(t)'
    BY <1>2, <2>1 DEF UpToDate, Limited
  <2>3. Kept(t)' /\ Copied(t)'
    BY <1>2, <2>1, <2>2 DEF Sound, Kept, Copied
  <2>4. UpToDate(d, t)'
    BY <1>2, <1>4, <2>2 DEF UpToDate
  <2>5. ~Used(t)
    BY <2>1, <2>2 DEF Sound, Finished
  <2> QED
    BY <2>1, <2>3, <2>4, <2>5
<1> QED
  BY <1>1, <1>2, <1>3, <1>4, <1>5, <1>6, <1>7, HereOnly

LEMMA SetSound ==
    ASSUME CompleteInv, SymbolInv, RangeInv, NEW e \in Engines, SetRange(e),
           UNCHANGED <<app, apps, storeApp, asked>>
    PROVE  SymbolInv'
<1>1. PICK t, d, l : /\ t = Target(e) /\ d = [deploy[e] EXCEPT !.step = "seed"]
                     /\ l = deploy[e].lower
  OBVIOUS
<1>2. /\ deploy[e].step = "range" /\ UNCHANGED <<symkeys, symCache, raced>>
      /\ AtTarget(e) /\ deploy' = Goto(e, "seed")
      /\ ranges' = [ranges EXCEPT ![t] = <<l, l + RangeSize - 1>>]
  BY <1>1 DEF SetRange, AtTarget, Limits
<1>3. /\ deploy[e].step \in TargetSteps /\ t \in AllTargets /\ DeployShaped
      /\ deploy[e].step \notin Ended
  BY <1>1, <1>2, AtATarget DEF TargetSteps
<1>4. /\ DOMAIN d = DOMAIN deploy[e] /\ d.step = "seed" /\ d.todo = deploy[e].todo
      /\ d.version = deploy[e].version /\ d.known = deploy[e].known
      /\ deploy' = [deploy EXCEPT ![e] = d]
  BY <1>1, <1>2, <1>3, StepFields
<1>5. d.lower = l
  BY <1>1, <1>3 DEF DeployShaped
<1>6. d.known = <<>> /\ d.step \in TargetSteps
  BY <1>2, <1>4 DEF SymbolInv, KnowsNothingYet, TargetSteps
<1>7. /\ ranges'[t] = <<l, l + RangeSize - 1>>
      /\ \A u \in AllTargets : u # t => ranges'[u] = ranges[u]
  BY <1>2, <1>3 DEF RangeInv, RangeTypes
<1>8. Limited(t)' /\ ranges'[t][1] = l
  BY <1>7, LimitsAreLimits DEF Limited
<1>9. ASSUME t \notin raced'
      PROVE  /\ \A f \in Engines : f # e => ~At(f, t)
             /\ Kept(t)' /\ Copied(t)' /\ UpToDate(d, t)' /\ (Used(t) => Finished(t)')
  <2>1. /\ Sound(t) /\ At(e, t) /\ UpToDate(deploy[e], t)
        /\ \A f \in Engines : f # e => ~At(f, t)
    BY <1>1, <1>2, <1>3, <1>9, KnownHere
  <2>2. ranges[t] = Pending /\ ~Limited(t) /\ symkeys'[t] = <<>>
    BY <1>2, <2>1 DEF UpToDate, Limited, Sound, Kept
  <2>3. Kept(t)' /\ Copied(t)'
    BY <1>2, <1>8, <2>1, <2>2, NothingAssigned DEF Sound, Kept, Copied
  <2>4. UpToDate(d, t)'
    BY <1>4, <1>5, <1>8, <2>2 DEF UpToDate
  <2>5. ~Used(t)
    BY <2>1, <2>2 DEF Sound, Finished
  <2> QED
    BY <2>1, <2>3, <2>4, <2>5
<1> QED
  BY <1>1, <1>2, <1>3, <1>4, <1>6, <1>7, <1>9, HereOnly

LEMMA SeedSound ==
    ASSUME CompleteInv, SymbolInv, RangeInv, NEW e \in Engines, Seed(e),
           UNCHANGED <<app, apps, storeApp, asked>>
    PROVE  SymbolInv'
<1>1. PICK t, d, l, g : /\ t = Target(e) /\ d = [deploy[e] EXCEPT !.step = "bind"]
                        /\ l = deploy[e].lower /\ g = Numbered(MetaPaths, l)
  OBVIOUS
<1>2. /\ deploy[e].step = "seed" /\ UNCHANGED <<ranges, symCache, raced>>
      /\ AtTarget(e) /\ deploy' = Goto(e, "bind")
      /\ symkeys' = [symkeys EXCEPT ![t] = WithFields(g, symkeys[t])]
  BY <1>1 DEF Seed, AtTarget, rangeVars
<1>3. /\ deploy[e].step \in TargetSteps /\ t \in AllTargets /\ DeployShaped
      /\ deploy[e].step \notin Ended
  BY <1>1, <1>2, AtATarget DEF TargetSteps
<1>4. /\ DOMAIN d = DOMAIN deploy[e] /\ d.step = "bind" /\ d.todo = deploy[e].todo
      /\ d.version = deploy[e].version /\ d.known = deploy[e].known
      /\ deploy' = [deploy EXCEPT ![e] = d]
  BY <1>1, <1>2, <1>3, StepFields
<1>5. d.lower = l
  BY <1>1, <1>3 DEF DeployShaped
<1>6. d.known = <<>> /\ d.step \in TargetSteps
  BY <1>2, <1>4 DEF SymbolInv, KnowsNothingYet, TargetSteps
<1>7. /\ symkeys'[t] = WithFields(g, symkeys[t])
      /\ \A u \in AllTargets : u # t => symkeys'[u] = symkeys[u]
  BY <1>2, <1>3 DEF CompleteInv, StoreShaped
<1>8. ASSUME t \notin raced'
      PROVE  /\ \A f \in Engines : f # e => ~At(f, t)
             /\ Kept(t)' /\ Copied(t)' /\ UpToDate(d, t)' /\ (Used(t) => Finished(t)')
  <2>1. /\ Sound(t) /\ At(e, t) /\ UpToDate(deploy[e], t)
        /\ \A f \in Engines : f # e => ~At(f, t)
    BY <1>1, <1>2, <1>3, <1>8, KnownHere
  <2>2. /\ Limited(t) /\ Limited(t)' /\ ranges'[t] = ranges[t] /\ l = ranges[t][1]
        /\ symkeys[t] = <<>>
    BY <1>1, <1>2, <2>1 DEF UpToDate, Limited
  <2>3. PICK m : Block(t, m)
    BY <1>3, <2>2 DEF RangeInv, Blocks
  <2>4. l \in Nat
    BY <2>2, <2>3, BlockLimits DEF Block
  <2>5. Assigned(symkeys'[t], l) /\ Within(symkeys'[t], l, l + Slots)
    BY <1>1, <1>7, <2>2, <2>4, SeededAssigned
  <2>6. Kept(t)'
    BY <2>2, <2>5 DEF Kept
  <2>7. UpToDate(d, t)'
    BY <1>4, <1>5, <1>6, <2>2, <2>5 DEF UpToDate
  <2>8. ~Used(t)
    BY <1>2, <2>1 DEF Sound, Finished
  <2>9. Copied(t)'
    BY <1>2, <2>8 DEF Used, Copied, NoCopy
  <2> QED
    BY <2>1, <2>6, <2>7, <2>8, <2>9
<1> QED
  BY <1>1, <1>2, <1>3, <1>4, <1>6, <1>7, <1>8, HereOnly

\* What a deployment reads at its target, it then knows.
LEMMA ReadsSound ==
    ASSUME CompleteInv, SymbolInv, RangeInv, NEW e \in Engines, ReadRange(e) \/ ReadSymbols(e),
           UNCHANGED <<app, apps, storeApp, asked>>
    PROVE  SymbolInv'
<1>1. PICK t, c : t = Target(e) /\ c = deploy[e]
  OBVIOUS
<1>2. /\ c.step \in {"read range", "read symbols"}
      /\ UNCHANGED <<ranges, symkeys, symCache, raced>> /\ AtTarget(e)
  BY <1>1 DEF ReadRange, ReadSymbols, AtTarget, rangeVars
<1>3. /\ c.step \in TargetSteps /\ t \in AllTargets /\ DeployShaped
      /\ {"version", "todo", "lower", "known"} \subseteq DOMAIN c
  BY <1>1, <1>2, AtATarget DEF TargetSteps
<1>4. PICK d : /\ deploy' = [deploy EXCEPT ![e] = d] /\ DOMAIN d = DOMAIN c
               /\ d.todo = c.todo /\ d.version = c.version
               /\ \/ c.step = "read range" /\ d.step = "read symbols" /\ d.lower = ranges[t][1]
                  \/ /\ c.step = "read symbols" /\ d.step = "bind" /\ d.lower = c.lower
                     /\ d.known = symkeys[t]
  <2>1. CASE ReadRange(e)
    <3>1. PICK d : d = [c EXCEPT !.step = "read symbols", !.lower = ranges[t][1]]
      OBVIOUS
    <3>2. /\ DOMAIN d = DOMAIN c /\ d.todo = c.todo /\ d.version = c.version
          /\ d.step = "read symbols" /\ d.lower = ranges[t][1]
      BY <1>1, <1>3, <3>1 DEF DeployShaped
    <3>3. deploy' = [deploy EXCEPT ![e] = d] /\ c.step = "read range"
      BY <1>1, <1>3, <2>1, <3>1 DEF ReadRange, DeployShaped
    <3> QED
      BY <3>2, <3>3
  <2>2. CASE ReadSymbols(e)
    <3>1. PICK d : d = [c EXCEPT !.step = "bind", !.known = symkeys[t]]
      OBVIOUS
    <3>2. /\ DOMAIN d = DOMAIN c /\ d.todo = c.todo /\ d.version = c.version
          /\ d.step = "bind" /\ d.lower = c.lower /\ d.known = symkeys[t]
      BY <1>1, <1>3, <3>1 DEF DeployShaped
    <3>3. deploy' = [deploy EXCEPT ![e] = d] /\ c.step = "read symbols"
      BY <1>1, <1>3, <2>2, <3>1 DEF ReadSymbols, DeployShaped
    <3> QED
      BY <3>2, <3>3
  <2> QED
    BY <2>1, <2>2
<1>5. d.step \in TargetSteps /\ d.step \notin {"reserve", "cursor", "range", "seed"}
  BY <1>4 DEF TargetSteps
<1>6. ASSUME t \notin raced'
      PROVE  /\ \A f \in Engines : f # e => ~At(f, t)
             /\ Kept(t)' /\ Copied(t)' /\ UpToDate(d, t)' /\ (Used(t) => Finished(t)')
  <2>1. /\ Sound(t) /\ At(e, t) /\ UpToDate(c, t)
        /\ \A f \in Engines : f # e => ~At(f, t)
    BY <1>1, <1>2, <1>3, <1>6, KnownHere
  <2>2. /\ Limited(t) /\ Limited(t)'
        /\ c.step = "read symbols" => c.lower = ranges[t][1]
    BY <1>2, <2>1 DEF UpToDate, Limited
  <2>3. Kept(t)' /\ Copied(t)'
    BY <1>2, <2>1, <2>2 DEF Sound, Kept, Copied
  <2>4. UpToDate(d, t)'
    BY <1>2, <1>4, <2>2 DEF UpToDate
  <2>5. Finished(t)'
    <3>1. deploy'[e] = d /\ \A f \in Engines : f # e => deploy'[f] = deploy[f]
      BY <1>3, <1>4 DEF DeployShaped
    <3>2. ASSUME NEW f \in Engines, f # e, At(f, t)' PROVE FALSE
      BY <2>1, <3>1, <3>2 DEF At, AtTarget, Target
    <3> QED
      BY <1>2, <1>4, <2>2, <3>1, <3>2 DEF Finished
  <2> QED
    BY <2>1, <2>3, <2>4, <2>5
<1> QED
  BY <1>1, <1>2, <1>3, <1>4, <1>5, <1>6, HereOnly

\* A deployment's step that is none at a target; what it comes to have deployed
\* it is past.
LEMMA Leaves ==
    ASSUME SymbolInv, DeployShaped, NEW e \in Engines, NEW d,
           deploy' = [deploy EXCEPT ![e] = d], "step" \in DOMAIN d,
           d.step \notin Ended => {"version", "todo", "lower", "known"} \subseteq DOMAIN d,
           d.step \notin TargetSteps \/ (d.step = "reserve" /\ d.known = <<>>),
           \A t \in AllTargets : Past(d, t) => Past(deploy[e], t),
           UNCHANGED <<ranges, symkeys, symCache, raced>>, ServesDeployed',
           \A t \in AllTargets : \A v \in app'.deployed : t \in Targets(v) => Used(t)
    PROVE  SymbolInv'
<1>1. deploy'[e] = d /\ \A f \in Engines : f # e => deploy'[f] = deploy[f]
  BY ShapeKept
<1>2. CopiesShaped' /\ KnowsNothingYet'
  BY <1>1 DEF SymbolInv, CopiesShaped, KnowsNothingYet, TargetSteps
<1>3. ASSUME NEW t \in AllTargets \ raced PROVE Sound(t)'
  <2>1. Sound(t)
    BY DEF SymbolInv
  <2>2. ASSUME NEW f \in Engines, At(f, t)' PROVE At(f, t) /\ deploy'[f] = deploy[f]
    <3>1. f # e
      BY <1>1, <2>2 DEF At, AtTarget, TargetSteps
    <3> QED
      BY <1>1, <2>2, <3>1 DEF At, AtTarget, Target
  <2>3. ASSUME Used(t)' PROVE Used(t)
    <3>1. CASE \E v \in app'.deployed : t \in Targets(v)
      BY <3>1
    <3>2. ASSUME NEW f \in Engines, Past(deploy'[f], t) PROVE Used(t)
      BY <1>1, <3>2 DEF Used
    <3>3. ASSUME NEW f \in Engines, symCache'[f][t] # NoCopy PROVE Used(t)
      BY <3>3 DEF Used
    <3> QED
      BY <2>3, <3>1, <3>2, <3>3 DEF Used, Past
  <2>4. \A f \in Engines : symCache'[f][t] \subseteq symCache[f][t] \cup {symkeys[t]}
    OBVIOUS
  <2> QED
    BY <2>1, <2>2, <2>3, <2>4, Elsewhere
<1> QED
  BY <1>2, <1>3 DEF SymbolInv

LEMMA StillServes ==
    ASSUME SymbolInv, UNCHANGED <<app, apps, storeApp, asked>>
    PROVE  ServesDeployed' /\ \A t \in AllTargets : \A v \in app'.deployed : t \in Targets(v) => Used(t)
  BY DEF SymbolInv, ServesDeployed, Used

\* The next target, if there is one.
LEMMA Moved ==
    ASSUME CompleteInv, NEW e \in Engines, deploy[e].step = "bind", deploy' = NextTarget(e)
    PROVE  \E d : /\ deploy' = [deploy EXCEPT ![e] = d] /\ DOMAIN d = DOMAIN deploy[e]
                  /\ d.known = <<>> /\ d.step \in {"reserve", "values"}
                  /\ \A t \in AllTargets : Past(d, t) => t = Target(e) \/ Past(deploy[e], t)
<1>1. PICK c, s : c = deploy[e] /\ s = IF Len(c.todo) > 1 THEN "reserve" ELSE "values"
  OBVIOUS
<1>2. /\ c.step \in TargetSteps /\ c.step \notin Ended /\ DeployShaped
      /\ {"step", "version", "todo", "lower", "known"} \subseteq DOMAIN c
      /\ c.todo \in Seq(AllTargets) /\ c.todo # <<>> /\ Target(e) = Head(c.todo)
  <2>1. deploy[e].step \in TargetSteps
    BY DEF TargetSteps
  <2> QED
    BY <1>1, <2>1, AtATarget DEF DeployShaped
<1>3. PICK d : d = [c EXCEPT !.todo = Tail(@), !.known = <<>>, !.lower = 0, !.step = s]
  OBVIOUS
<1>4. /\ DOMAIN d = DOMAIN c /\ d.step = s /\ d.version = c.version
      /\ d.todo = Tail(c.todo) /\ d.known = <<>>
  BY <1>2, <1>3
<1>5. deploy' = [deploy EXCEPT ![e] = d]
  BY <1>1, <1>2, <1>3 DEF NextTarget, DeployShaped
<1>6. /\ Len(c.todo) \in Nat /\ Len(Tail(c.todo)) = Len(c.todo) - 1
      /\ \A i \in 1..Len(Tail(c.todo)) : Tail(c.todo)[i] = c.todo[i + 1]
      /\ Head(c.todo) = c.todo[1]
  BY <1>2
<1>7. ASSUME NEW t \in AllTargets, Past(d, t), t # Target(e) PROVE Past(c, t)
  <2>1. \A i \in 1..Len(d.todo) : d.todo[i] # t
    <3>1. CASE s = "reserve"
      BY <1>4, <1>7, <3>1 DEF Past, TargetSteps
    <3>2. CASE s = "values"
      <4>1. ~(Len(c.todo) > 1)
        BY <1>1, <3>2
      <4>2. PICK n, m : n = Len(c.todo) /\ m = Len(Tail(c.todo))
        OBVIOUS
      <4>3. n \in Nat /\ m = n - 1 /\ ~(n > 1)
        BY <1>6, <4>1, <4>2
      <4>4. 1..m = {}
        BY <4>3
      <4> QED
        BY <1>4, <4>2, <4>4
    <3> QED
      BY <1>1, <3>1, <3>2
  <2>2. PICK n, q : n = Len(c.todo) /\ q = Tail(c.todo)
    OBVIOUS
  <2>3. n \in Nat /\ Len(q) = n - 1 /\ \A i \in 1..n - 1 : q[i] = c.todo[i + 1] /\ q[i] # t
    BY <1>4, <1>6, <2>1, <2>2
  <2>4. ASSUME NEW i \in 1..n PROVE c.todo[i] # t
    <3>1. CASE i = 1
      BY <1>2, <1>6, <1>7, <3>1
    <3>2. CASE i # 1
      <4>1. i - 1 \in 1..n - 1 /\ (i - 1) + 1 = i
        BY <2>3, <3>2
      <4> QED
        BY <2>3, <4>1
    <3> QED
      BY <3>1, <3>2
  <2> QED
    BY <1>2, <1>4, <1>7, <2>2, <2>4 DEF Past
<1> QED
  BY <1>1, <1>4, <1>5, <1>7

LEMMA BindSound ==
    ASSUME CompleteInv, SymbolInv, RangeInv, NEW e \in Engines, BindSymbols(e),
           UNCHANGED <<app, apps, storeApp, asked>>
    PROVE  SymbolInv'
<1>1. PICK t, c, start, new : /\ t = Target(e) /\ c = deploy[e] /\ new = NewPaths(e)
                              /\ start = StartIndex(c.lower, c.known)
  OBVIOUS
<1>2. /\ c.step = "bind" /\ AtTarget(e) /\ UNCHANGED <<ranges, raced>>
      /\ \/ /\ deploy' = [deploy EXCEPT ![e] = [step |-> "failed"]]
            /\ UNCHANGED <<symkeys, symCache>>
         \/ /\ ~(start # NaN /\ start + Cardinality(new) > c.lower + RangeSize)
            /\ symkeys' = [symkeys EXCEPT ![t] = WithFields(Numbered(new, start), symkeys[t])]
            /\ symCache' = symCache \/ symCache' = [symCache EXCEPT ![e][t] = NoCopy]
            /\ deploy' = NextTarget(e)
  BY <1>1 DEF BindSymbols, AtTarget, rangeVars
<1>3. /\ c.step \in TargetSteps /\ t \in AllTargets /\ DeployShaped /\ c.version \in Versions
      /\ {"version", "todo", "lower", "known"} \subseteq DOMAIN c
  <2>1. deploy[e].step \in TargetSteps
    BY <1>1, <1>2 DEF TargetSteps
  <2> QED
    BY <1>1, <2>1, AtATarget
<1>4. CASE /\ deploy' = [deploy EXCEPT ![e] = [step |-> "failed"]]
           /\ UNCHANGED <<symkeys, symCache>>
  <2>1. PICK d : d = [step |-> "failed"]
    OBVIOUS
  <2>2. /\ "step" \in DOMAIN d /\ d.step = "failed" /\ d.step \in Ended /\ d.step \notin TargetSteps
        /\ \A u : ~Past(d, u)
    BY <2>1 DEF Ended, TargetSteps, Past
  <2> QED
    BY <1>2, <1>3, <1>4, <2>1, <2>2, StillServes, Leaves
<1>5. CASE /\ ~(start # NaN /\ start + Cardinality(new) > c.lower + RangeSize)
           /\ symkeys' = [symkeys EXCEPT ![t] = WithFields(Numbered(new, start), symkeys[t])]
           /\ symCache' = symCache \/ symCache' = [symCache EXCEPT ![e][t] = NoCopy]
           /\ deploy' = NextTarget(e)
  <2>1. PICK d : /\ deploy' = [deploy EXCEPT ![e] = d] /\ DOMAIN d = DOMAIN c
                 /\ d.known = <<>> /\ d.step \in {"reserve", "values"}
                 /\ \A u \in AllTargets : Past(d, u) => u = t \/ Past(c, u)
    BY <1>1, <1>2, <1>5, Moved
  <2>2. deploy'[e] = d /\ \A f \in Engines : f # e => deploy'[f] = deploy[f]
    BY <1>3, <2>1 DEF DeployShaped
  <2>3. /\ symkeys'[t] = WithFields(Numbered(new, start), symkeys[t])
        /\ \A u \in AllTargets : u # t => symkeys'[u] = symkeys[u]
    BY <1>3, <1>5 DEF CompleteInv, StoreShaped
  <2>4. /\ DOMAIN symCache' = Engines
        /\ \A f \in Engines : /\ DOMAIN symCache'[f] = AllTargets
                              /\ \A u \in AllTargets : symCache'[f][u] \subseteq symCache[f][u]
    BY <1>3, <1>5 DEF SymbolInv, CopiesShaped, NoCopy
  <2>5. CopiesShaped' /\ KnowsNothingYet' /\ ServesDeployed'
    BY <2>1, <2>2, <2>4 DEF SymbolInv, CopiesShaped, KnowsNothingYet, ServesDeployed
  <2>6. ASSUME NEW f \in Engines, NEW u, At(f, u)' PROVE f # e /\ At(f, u) /\ deploy'[f] = deploy[f]
    <3>1. f # e
      BY <2>1, <2>2, <2>6 DEF At, AtTarget
    <3> QED
      BY <2>2, <2>6, <3>1 DEF At, AtTarget, Target
  <2>7. \A u \in AllTargets, f \in Engines : symCache'[f][u] # NoCopy => symCache[f][u] # NoCopy
    BY <2>4 DEF NoCopy
  <2>8. ASSUME NEW u \in AllTargets \ raced, u # t PROVE Sound(u)'
    <3>1. Sound(u)
      BY DEF SymbolInv
    <3>2. Past(deploy'[e], u) => Past(deploy[e], u)
      BY <1>1, <2>1, <2>2, <2>8
    <3>3. Used(u)' => Used(u)
      <4>1. ASSUME Used(u)' PROVE Used(u)
        BY <2>2, <2>7, <3>2, <4>1, StaysUsed
      <4> QED
        BY <4>1
    <3>4. \A f \in Engines : symCache'[f][u] \subseteq symCache[f][u] \cup {symkeys[u]}
      BY <2>4
    <3>5. ranges'[u] = ranges[u] /\ symkeys'[u] = symkeys[u]
      BY <1>2, <2>3, <2>8
    <3> QED
      BY <2>6, <3>1, <3>3, <3>4, <3>5, Elsewhere
  <2>9. ASSUME t \notin raced PROVE Sound(t)'
    <3>1. /\ Sound(t) /\ At(e, t) /\ UpToDate(c, t)
          /\ \A f \in Engines : f # e => ~At(f, t)
      BY <1>1, <1>2, <1>3, <2>9, KnownHere
    <3>2. /\ Limited(t) /\ Limited(t)' /\ c.lower = ranges[t][1] /\ ranges'[t] = ranges[t]
          /\ c.known = symkeys[t] \/ (c.known = <<>> /\ Within(symkeys[t], c.lower, c.lower + Slots))
      BY <1>2, <3>1 DEF UpToDate, Limited
    <3>3. PICK m : Block(t, m)
      BY <1>3, <3>2 DEF RangeInv, Blocks
    <3>4. PICK l : l = c.lower /\ l \in Nat /\ l # NaN
      <4>1. c.lower \in Nat
        BY <3>2, <3>3, BlockLimits DEF Block
      <4> QED
        BY <4>1 DEF NaN
    <3>5. Assigned(symkeys[t], l)
      BY <3>1, <3>2, <3>4 DEF Sound, Kept
    <3>6. IsFiniteSet(new) /\ new \cap DOMAIN c.known = {}
      <4>1. IsFiniteSet(PathsOf(c.version, t))
        BY <1>3, PathsFinite
      <4> QED
        BY <1>1, <4>1, FS_Subset DEF NewPaths
    <3>7. start + Cardinality(new) <= l + RangeSize
      <4>1. PICK n : n = Cardinality(DOMAIN c.known) /\ n \in Nat
        <5>1. DOMAIN <<>> = {}
          OBVIOUS
        <5>2. IsFiniteSet(DOMAIN c.known)
          BY <3>2, <3>5, <5>1, FS_EmptySet DEF Assigned
        <5> QED
          BY <5>2, FS_CardinalityType
      <4>2. PICK k : k = Cardinality(new) /\ k \in Nat
        BY <3>6, FS_CardinalityType
      <4>3. start = l + Slots + n
        BY <1>1, <3>4, <4>1 DEF StartIndex
      <4>4. Slots \in Nat /\ RangeSize \in Nat
        BY RangeAssumption
      <4>5. start \in Nat /\ start # NaN
        BY <3>4, <4>1, <4>3, <4>4 DEF NaN
      <4>6. ~(start + k > l + RangeSize)
        BY <1>5, <3>4, <4>2, <4>5
      <4> QED
        BY <3>4, <4>2, <4>4, <4>5, <4>6
    <3>8. Assigned(symkeys'[t], l)
      <4>1. PICK f, known : f = symkeys[t] /\ known = c.known
        OBVIOUS
      <4>2. known = f \/ (known = <<>> /\ Within(f, l, l + Slots))
        BY <3>2, <3>4, <4>1
      <4>3. start = StartIndex(l, known)
        BY <1>1, <3>4, <4>1
      <4>4. Assigned(f, l) /\ IsFiniteSet(new) /\ new \cap DOMAIN known = {}
            /\ StartIndex(l, known) + Cardinality(new) <= l + RangeSize
        BY <3>5, <3>6, <3>7, <4>1, <4>3
      <4>5. Assigned(WithFields(Numbered(new, StartIndex(l, known)), f), l)
        BY <3>4, <4>2, <4>4, BoundAssigned
      <4> QED
        BY <2>3, <4>1, <4>3, <4>5
    <3>9. Kept(t)'
      BY <3>2, <3>4, <3>8 DEF Kept
    <3>10. Finished(t)'
      BY <2>6, <3>1, <3>2 DEF Finished
    <3>11. Copied(t)'
      <4> SUFFICES ASSUME NEW f \in Engines, NEW copy \in symCache'[f][t], NEW p \in DOMAIN copy
          PROVE  p \in DOMAIN symkeys'[t] /\ symkeys'[t][p] = copy[p]
        BY DEF Copied, OlderCopy
      <4>1. copy \in symCache[f][t] /\ symCache[f][t] # NoCopy
        BY <1>3, <2>4 DEF NoCopy
      <4>2. Used(t) /\ OlderCopy(copy, symkeys[t])
        BY <3>1, <4>1 DEF Used, Sound, Copied
      <4>3. c.known = symkeys[t]
        BY <1>1, <1>2, <3>1, <4>2 DEF Sound, Finished
      <4>4. p \in DOMAIN symkeys[t] /\ symkeys[t][p] = copy[p] /\ p \notin new
        BY <3>6, <4>2, <4>3 DEF OlderCopy
      <4>5. DOMAIN Numbered(new, start) = new
        BY DEF Numbered
      <4> QED
        BY <2>3, <4>4, <4>5 DEF WithFields
    <3>12. \A f \in Engines : At(f, t)' => f = e
      BY <2>6, <3>1
    <3>13. At(e, t)' => UpToDate(deploy[e], t)'
      BY <2>6
    <3> QED
      BY <1>3, <3>9, <3>10, <3>11, <3>12, <3>13, AtHome
  <2> QED
    BY <1>2, <2>5, <2>8, <2>9 DEF SymbolInv
<1> QED
  BY <1>2, <1>4, <1>5

LEMMA SymbolStepSound ==
    ASSUME CompleteInv, SymbolInv, RangeInv, NEW e \in Engines, SymbolStep(e),
           UNCHANGED <<app, apps, storeApp, asked>>
    PROVE  SymbolInv'
  BY ReserveSound, CursorSound, SetSound, SeedSound, ReadsSound, BindSound DEF SymbolStep

LEMMA BeginSound ==
    ASSUME CompleteInv, SymbolInv, NEW e \in Engines, NEW v \in Versions, BeginDeploy(e, v),
           UNCHANGED <<app, apps, storeApp, asked>>
    PROVE  SymbolInv'
<1>1. PICK o, d : /\ o = Order(Targets(v))
                  /\ d = [step |-> "reserve", version |-> v, todo |-> o, lower |-> 0, known |-> <<>>]
  OBVIOUS
<1>2. /\ d.step = "reserve" /\ d.version = v /\ d.todo = o /\ d.known = <<>>
      /\ {"step", "version", "todo", "lower", "known"} \subseteq DOMAIN d
  BY <1>1
<1>3. deploy' = [deploy EXCEPT ![e] = d] /\ UNCHANGED <<ranges, symkeys, symCache, raced>>
  BY <1>1 DEF BeginDeploy, rangeVars
<1>4. \A t \in Targets(v) : \E i \in 1..Len(o) : o[i] = t
  BY <1>1, TargetsOfVersion, OrderIsSeq
<1>5. \A t : ~Past(d, t)
  BY <1>2, <1>4 DEF Past, TargetSteps
<1>6. DeployShaped
  BY DEF CompleteInv
<1>7. "step" \in DOMAIN d /\ {"version", "todo", "lower", "known"} \subseteq DOMAIN d
  BY <1>2
<1> QED
  BY <1>2, <1>3, <1>5, <1>6, <1>7, StillServes, Leaves

\* The steps past all targets.
LEMMA PastSound ==
    ASSUME CompleteInv, SymbolInv, NEW e \in Engines,
           deploy[e].step \notin Ended \cup TargetSteps, NEW d, DOMAIN d = DOMAIN deploy[e],
           deploy' = [deploy EXCEPT ![e] = d], d.step \notin TargetSteps,
           d.version = deploy[e].version,
           UNCHANGED <<ranges, symkeys, symCache, raced, app, apps, storeApp, asked>>
    PROVE  SymbolInv'
<1>1. DeployShaped /\ "step" \in DOMAIN d /\ {"version", "todo", "lower", "known"} \subseteq DOMAIN d
  BY DEF CompleteInv, DeployShaped
<1>2. \A t \in AllTargets : Past(d, t) => Past(deploy[e], t)
  BY DEF Past
<1> QED
  BY <1>1, <1>2, StillServes, Leaves

LEMMA PartsSound ==
    ASSUME CompleteInv, SymbolInv, NEW e \in Engines,
           ReadValues(e) \/ AddValues(e) \/ SaveHookRules(e) \/ SavePart(e),
           UNCHANGED <<apps, storeApp, asked>>
    PROVE  SymbolInv'
<1>1. /\ deploy[e].step \in PartSet \cup {"values", "add values", "hooks"}
      /\ UNCHANGED <<ranges, symkeys, symCache, raced, app>>
  BY PartsListed DEF ReadValues, AddValues, SaveHookRules, SavePart, rangeVars
<1>2. deploy[e].step \notin Ended \cup TargetSteps /\ DeployShaped
  BY <1>1, StepsApart DEF CompleteInv, Ended, TargetSteps
<1>3. ASSUME NEW s, s \notin TargetSteps, deploy' = Goto(e, s) PROVE SymbolInv'
  <2>1. PICK d : d = [deploy[e] EXCEPT !.step = s]
    OBVIOUS
  <2>2. /\ DOMAIN d = DOMAIN deploy[e] /\ d.step = s /\ d.version = deploy[e].version
        /\ deploy' = [deploy EXCEPT ![e] = d]
    BY <1>2, <1>3, <2>1, StepFields
  <2> QED
    BY <1>1, <1>2, <1>3, <2>2, PastSound
<1>4. CASE ReadValues(e)
  <2>1. PICK d : d = [deploy[e] EXCEPT !.step = "add values", !.known = Copy(e)]
    OBVIOUS
  <2>2. /\ DOMAIN d = DOMAIN deploy[e] /\ d.step = "add values" /\ d.version = deploy[e].version
    BY <1>2, <2>1 DEF DeployShaped
  <2>3. deploy' = [deploy EXCEPT ![e] = d] /\ d.step \notin TargetSteps
    BY <1>2, <1>4, <2>1, <2>2 DEF ReadValues, DeployShaped, TargetSteps
  <2> QED
    BY <1>1, <1>2, <2>2, <2>3, PastSound
<1>5. CASE AddValues(e)
  <2>1. PICK d : d = [deploy[e] EXCEPT !.step = "hooks", !.known = <<>>]
    OBVIOUS
  <2>2. /\ DOMAIN d = DOMAIN deploy[e] /\ d.step = "hooks" /\ d.version = deploy[e].version
    BY <1>2, <2>1 DEF DeployShaped
  <2>3. deploy' = [deploy EXCEPT ![e] = d] /\ d.step \notin TargetSteps
    BY <1>2, <1>5, <2>1, <2>2 DEF AddValues, DeployShaped, TargetSteps
  <2> QED
    BY <1>1, <1>2, <2>2, <2>3, PastSound
<1>6. CASE SaveHookRules(e)
  <2>1. deploy' = Goto(e, Parts[1]) /\ Parts[1] \notin TargetSteps
    BY <1>6, PartsListed DEF SaveHookRules, TargetSteps
  <2> QED
    BY <1>3, <2>1
<1>7. CASE SavePart(e)
  <2>1. PICK i \in DOMAIN Parts : deploy' = Goto(e, PartAfter(i))
    BY <1>7 DEF SavePart
  <2>2. PartAfter(i) \notin TargetSteps
    BY PartNext, StepsApart
  <2> QED
    BY <1>3, <2>1, <2>2
<1> QED
  BY <1>4, <1>5, <1>6, <1>7

LEMMA StopSound ==
    ASSUME CompleteInv, SymbolInv, NEW e \in Engines, StopDeploy(e),
           UNCHANGED <<app, apps, storeApp, asked>>
    PROVE  SymbolInv'
<1>1. PICK d : d = [step |-> "failed"]
  OBVIOUS
<1>2. /\ "step" \in DOMAIN d /\ d.step = "failed" /\ d.step \in Ended /\ d.step \notin TargetSteps
      /\ \A u : ~Past(d, u)
  BY <1>1 DEF Ended, TargetSteps, Past
<1>3. deploy' = [deploy EXCEPT ![e] = d] /\ UNCHANGED <<ranges, symkeys, symCache, raced>>
  BY <1>1 DEF StopDeploy, rangeVars
<1>4. DeployShaped
  BY DEF CompleteInv
<1> QED
  BY <1>2, <1>3, <1>4, StillServes, Leaves

\* A version is deployed by one that is past all its targets.
LEMMA SetAppSound ==
    ASSUME CompleteInv, SymbolInv, NEW e \in Engines, SetApp(e),
           storeApp' = [storeApp EXCEPT ![e] = app'.version], UNCHANGED <<apps, asked>>
    PROVE  SymbolInv'
<1>1. PICK c, d : c = deploy[e] /\ d = [step |-> "done"]
  OBVIOUS
<1>2. /\ "step" \in DOMAIN d /\ d.step = "done" /\ d.step \in Ended /\ d.step \notin TargetSteps
      /\ \A u : ~Past(d, u)
  BY <1>1 DEF Ended, TargetSteps, Past
<1>3. /\ deploy' = [deploy EXCEPT ![e] = d] /\ UNCHANGED <<ranges, symkeys, symCache, raced>>
      /\ app' = [version |-> c.version, deployed |-> app.deployed \cup {c.version}]
      /\ c.step = "app" /\ c.step \notin Ended \cup TargetSteps
  BY <1>1 DEF SetApp, rangeVars, Ended, TargetSteps
<1>4. app'.version = c.version /\ app'.deployed = app.deployed \cup {c.version}
  BY <1>3
<1>5. ServesDeployed'
  <2>1. ASSUME NEW f \in Engines PROVE {apps'[f], storeApp'[f]} \subseteq app'.deployed \cup {None}
    BY <1>4 DEF SymbolInv, ServesDeployed
  <2> QED
    BY <1>4, <2>1 DEF SymbolInv, ServesDeployed
<1>6. ASSUME NEW t \in AllTargets, NEW v \in app'.deployed, t \in Targets(v) PROVE Used(t)
  <2>1. CASE v \in app.deployed
    BY <1>6, <2>1 DEF Used
  <2>2. CASE v = c.version
    <3>1. Past(deploy[e], t)
      BY <1>1, <1>3, <1>6, <2>2 DEF Past
    <3> QED
      BY <3>1 DEF Used
  <2> QED
    BY <1>4, <2>1, <2>2
<1>7. DeployShaped
  BY DEF CompleteInv
<1> QED
  BY <1>2, <1>3, <1>5, <1>6, <1>7, Leaves

\* Nobody deploys; copies are only taken of targets in use.
LEMMA NobodyDeploys ==
    ASSUME SymbolInv, UNCHANGED <<ranges, symkeys, deploy, raced>>,
           app'.deployed = app.deployed, ServesDeployed', CopiesShaped',
           \A t \in AllTargets, f \in Engines :
              symCache'[f][t] = symCache[f][t] \/ (symCache'[f][t] = {symkeys[t]} /\ Used(t))
    PROVE  SymbolInv'
<1>1. KnowsNothingYet'
  BY DEF SymbolInv, KnowsNothingYet
<1>2. ASSUME NEW t \in AllTargets \ raced PROVE Sound(t)'
  <2>1. Sound(t)
    BY DEF SymbolInv
  <2>2. \A f \in Engines : At(f, t)' => At(f, t) /\ deploy'[f] = deploy[f]
    BY DEF At, AtTarget, Target
  <2>3. Used(t)' => Used(t)
    BY DEF Used, Past
  <2>4. \A f \in Engines : symCache'[f][t] \subseteq symCache[f][t] \cup {symkeys[t]}
    BY <1>2
  <2> QED
    BY <2>1, <2>2, <2>3, <2>4, Elsewhere
<1> QED
  BY <1>1, <1>2 DEF SymbolInv

LEMMA ExecuteSound ==
    ASSUME SymbolInv, NEW e \in Engines, Execute(e) PROVE SymbolInv'
<1>1. PICK v \in Versions : /\ GetVID(e, v)
                            /\ FetchSymbols(e, Targets(v)) \/ UNCHANGED <<symCache, valCache>>
  BY DEF Execute
<1>2. /\ UNCHANGED <<ranges, symkeys, deploy, raced, app>>
      /\ \/ symCache' = symCache
         \/ symCache' = [symCache EXCEPT ![e] =
              [t \in AllTargets |-> IF t \in Targets(v) /\ @[t] = NoCopy THEN {symkeys[t]} ELSE @[t]]]
  BY <1>1 DEF Execute, FetchSymbols, CacheSymbols, rangeVars
<1>3. ServesDeployed
  BY DEF SymbolInv
<1>4. v # None
  BY NoneIsNoVersion
<1>5. asked[e] # <<>> => Reply(e).reply \in app.deployed \cup {None}
  BY <1>3, TheReply DEF ServesDeployed
<1>6. v \in app.deployed
  BY <1>1, <1>3, <1>4, <1>5
  DEF GetVID, ServeRefreshed, ServeFirst, ServeCopy, ServesDeployed, Served
<1>7. ServesDeployed'
  <2>1. ReadsDerive
    BY <1>1, <1>3, ReadsOfGetVID DEF ServesDeployed
  <2>2. /\ \/ storeApp' = storeApp \/ storeApp' = [storeApp EXCEPT ![e] = v]
           \/ asked[e] # <<>> /\ storeApp' = [storeApp EXCEPT ![e] = Reply(e).reply]
        /\ apps' = apps \/ apps' = [apps EXCEPT ![e] = v]
    BY <1>1 DEF GetVID, ServeRefreshed, ServeFirst, ServeCopy
  <2>3. /\ DOMAIN apps' = Engines /\ DOMAIN storeApp' = Engines
        /\ \A x \in Engines : {apps'[x], storeApp'[x]} \subseteq app.deployed \cup {None}
    <3>1. DOMAIN apps = Engines /\ DOMAIN storeApp = Engines
          /\ \A x \in Engines : {apps[x], storeApp[x]} \subseteq app.deployed \cup {None}
      BY <1>3 DEF ServesDeployed
    <3>2. PICK a, b : /\ a \in app.deployed \cup {None} /\ b \in app.deployed \cup {None}
                      /\ apps' = apps \/ apps' = [apps EXCEPT ![e] = a]
                      /\ storeApp' = storeApp \/ storeApp' = [storeApp EXCEPT ![e] = b]
      BY <1>5, <1>6, <2>2
    <3> QED
      BY <3>1, <3>2
  <2>4. ASSUME NEW x \in Engines, NEW i \in 1..Len(asked'[x])
        PROVE  asked'[x][i].reply \in app.deployed \cup {None}
    <3>1. Derived(asked'[x][i], x)
      BY <2>1 DEF ReadsDerive
    <3>2. /\ \A j \in 1..Len(asked[x]) : asked[x][j].reply \in app.deployed \cup {None}
          /\ app.version \in app.deployed \cup {None}
      BY <1>3 DEF ServesDeployed
    <3> QED
      BY <3>1, <3>2 DEF Derived
  <2>5. asked' \in [Engines -> Seq(Reads)] /\ app' = app
    BY <1>2, <2>1 DEF ReadsDerive
  <2> QED
    BY <1>3, <2>3, <2>4, <2>5 DEF ServesDeployed
<1>8. ASSUME NEW t \in AllTargets, NEW f \in Engines
      PROVE  symCache'[f][t] = symCache[f][t] \/ (symCache'[f][t] = {symkeys[t]} /\ Used(t))
  <2>1. CASE f = e /\ t \in Targets(v)
    <3>1. Used(t)
      BY <1>6, <2>1 DEF Used
    <3> QED
      BY <1>2, <2>1, <3>1 DEF SymbolInv, CopiesShaped
  <2>2. CASE ~(f = e /\ t \in Targets(v))
    BY <1>2, <2>2 DEF SymbolInv, CopiesShaped
  <2> QED
    BY <2>1, <2>2
<1>9. CopiesShaped'
  BY <1>2 DEF SymbolInv, CopiesShaped
<1> QED
  BY <1>2, <1>7, <1>8, <1>9, NobodyDeploys

\* An engine asks for the version of the app.
LEMMA AskingSound ==
    ASSUME SymbolInv, CompleteInv, NEW e \in Engines, AskVersion(e) \/ AskAgain(e),
           UNCHANGED deployVars
    PROVE  SymbolInv'
<1>1. UNCHANGED <<ranges, symkeys, symCache, deploy, raced, app>>
  BY DEF deployVars, symbolVars, rangeVars, versionVars
<1>2. ServesDeployed /\ app.deployed \subseteq Versions
  BY DEF SymbolInv, CompleteInv, Complete
<1>3. ReadsDerive
  BY <1>2, ReadsOfAsking DEF ServesDeployed
<1>4. ServesDeployed'
  <2>1. /\ apps' = apps
        /\ \/ storeApp' = storeApp
           \/ asked[e] # <<>> /\ storeApp' = [storeApp EXCEPT ![e] = Reply(e).reply]
    BY DEF AskVersion, AskAgain
  <2>2. asked[e] # <<>> => Reply(e).reply \in app.deployed \cup {None}
    BY <1>2, TheReply DEF ServesDeployed
  <2>3. /\ DOMAIN apps' = Engines /\ DOMAIN storeApp' = Engines
        /\ \A x \in Engines : {apps'[x], storeApp'[x]} \subseteq app.deployed \cup {None}
    BY <1>2, <2>1, <2>2 DEF ServesDeployed
  <2> QED
    BY <1>1, <1>2, <1>3, <2>3 DEF ServesDeployed, ReadsDerive, Derived
<1>5. CopiesShaped'
  BY <1>1 DEF SymbolInv, CopiesShaped
<1> QED
  BY <1>1, <1>4, <1>5, NobodyDeploys

\* It hears an announcement, and what it asked for is old.
LEMMA HearingSound ==
    ASSUME SymbolInv, NEW e \in Engines, Receive(e), UNCHANGED deployVars
    PROVE  SymbolInv'
<1>1. UNCHANGED <<ranges, symkeys, symCache, deploy, raced, app, apps, storeApp>>
  BY DEF deployVars, symbolVars, rangeVars, versionVars, Receive
<1>2. ServesDeployed
  BY DEF SymbolInv
<1>3. ReadsDerive
  <2>1. CASE asked' = asked
    BY <1>2, <2>1 DEF ServesDeployed, ReadsDerive, Derived
  <2>2. CASE asked' = [asked EXCEPT ![e] = [i \in DOMAIN @ |-> [@[i] EXCEPT !.old = TRUE]]]
    BY <1>2, <2>2, ReadsGrowOld DEF ServesDeployed
  <2> QED
    BY <2>1, <2>2 DEF Receive
<1>4. ServesDeployed' /\ CopiesShaped'
  BY <1>1, <1>2, <1>3 DEF SymbolInv, ServesDeployed, ReadsDerive, Derived, CopiesShaped
<1> QED
  BY <1>1, <1>4, NobodyDeploys

LEMMA SymbolInvKept ==
    ASSUME CompleteInv, RangeInv, SymbolInv, [Next]_vars PROVE SymbolInv'
<1>1. ASSUME UNCHANGED deployVars, UNCHANGED <<apps, storeApp, asked>> PROVE SymbolInv'
  <2>1. UNCHANGED <<ranges, symkeys, symCache, deploy, raced, app>>
    BY <1>1 DEF deployVars, symbolVars, rangeVars, versionVars
  <2>2. ServesDeployed' /\ CopiesShaped'
    BY <1>1, <2>1 DEF SymbolInv, ServesDeployed, CopiesShaped
  <2> QED
    BY <2>1, <2>2, NobodyDeploys
<1>2. ASSUME NEW e \in Engines, NEW v \in Versions, Begin(e, v), UNCHANGED quorumVars
      PROVE  SymbolInv'
  BY <1>2, BeginSound DEF Begin, versionVars, quorumVars, serveVars
<1>3. ASSUME NEW e \in Engines, DeployStep(e) \/ Stop(e), UNCHANGED quorumVars
      PROVE  SymbolInv'
  <2>1. UNCHANGED <<apps, storeApp, asked>>
    BY <1>3 DEF quorumVars, serveVars
  <2>2. CASE BindTargets(e)
    BY <2>1, <2>2, SymbolStepSound DEF BindTargets, versionVars
  <2>3. CASE Stop(e)
    BY <2>1, <2>3, StopSound DEF Stop, versionVars
  <2> QED
    BY <1>3, <2>1, <2>2, <2>3, PartsSound DEF DeployStep
<1>4. ASSUME NEW e \in Engines, SetApp(e), storeApp' = [storeApp EXCEPT ![e] = app'.version],
             UNCHANGED <<apps, asked>>
      PROVE  SymbolInv'
  BY <1>4, SetAppSound
<1>5. ASSUME NEW e \in Engines, \/ \E v \in app.deployed : BeginActivate(e, v)
                                \/ QuorumStep(e), UNCHANGED deployVars
      PROVE  SymbolInv'
  <2>1. CASE AskVersion(e) \/ AskAgain(e) \/ Receive(e)
    BY <1>5, <2>1, AskingSound, HearingSound
  <2>2. CASE ~(AskVersion(e) \/ AskAgain(e) \/ Receive(e))
    <3>1. UNCHANGED <<apps, storeApp, asked>>
      BY <1>5, <2>2 DEF BeginActivate, QuorumStep, RequestQuorum, Announce, Confirm, serveVars
    <3> QED
      BY <1>1, <1>5, <3>1
  <2> QED
    BY <2>1, <2>2
<1>6. ASSUME NEW e \in Engines, ActivateAppVersion(e), UNCHANGED symbolVars PROVE SymbolInv'
  <2>1. /\ UNCHANGED <<ranges, symkeys, symCache, deploy, raced, apps, storeApp, asked>>
        /\ \/ app' = app
           \/ roll[e].version \in app.deployed /\ app' = [app EXCEPT !.version = roll[e].version]
    BY <1>6 DEF ActivateAppVersion, symbolVars, rangeVars, serveVars
  <2>2. /\ app'.deployed = app.deployed
        /\ app'.version = app.version \/ app'.version \in app.deployed
    BY <2>1 DEF CompleteInv, StoreShaped
  <2>3. ServesDeployed' /\ CopiesShaped'
    BY <2>1, <2>2 DEF SymbolInv, ServesDeployed, CopiesShaped
  <2> QED
    BY <2>1, <2>2, <2>3, NobodyDeploys
<1>7. CASE UNCHANGED vars
  BY <1>1, <1>7 DEF vars, quorumVars, serveVars
<1> QED
  BY <1>2, <1>3, <1>4, <1>5, <1>6, <1>7, ExecuteSound DEF Next

-----------------------------------------------------------------------------
(* Where it begins: every version deployed, one after the other.           *)

LEMMA LeastNumber ==
    ASSUME NEW S, S \subseteq Nat, S # {}
    PROVE  \E w \in S : \A x \in S : ~(x < w)
<1>1. PICK R : R = OpToRel(<, Nat)
  OBVIOUS
<1>2. IsWellFoundedOn(R, Nat)
  BY <1>1, NatLessThanWellFounded
<1>3. \E w \in S : \A x \in S : ~(<<x, w>> \in R)
  BY <1>2, WFMin
<1>4. PICK w \in S : \A x \in S : <<x, w>> \notin R
  BY <1>3
<1>5. \A x, y \in Nat : x < y => <<x, y>> \in R
  BY <1>1 DEF OpToRel
<1> QED
  BY <1>4, <1>5

LEMMA FirstVersion ==
    ASSUME NEW S, S \subseteq Versions, S # {}
    PROVE  \E w \in S : \A x \in S : ~(x < w)
<1>1. S \subseteq Nat
  BY NumberingAssumption
<1> QED
  BY <1>1, LeastNumber

Binds(t) == {v \in Versions : t \in Targets(v)}

NewIn(v, t) == PathsOf(v, t) \ PathsBefore(t, v)

StartsAt(v, t) ==
    Base(t) + Slots + Cardinality(PathsBefore(t, v))
        + (IF \A w \in Versions : w < v => t \notin Targets(w) THEN 0 ELSE Cardinality(MetaPaths))

\* The paths a version adds, and their numbers.
LEMMA AddedPaths ==
    ASSUME NEW t \in AllTargets, NEW v \in Binds(t), Fits
    PROVE  /\ IsFiniteSet(NewIn(v, t)) /\ IsFiniteSet(PathsBefore(t, v))
           /\ PathsBefore(t, v) \subseteq AllPaths /\ NewIn(v, t) \subseteq AllPaths
           /\ NewIn(v, t) \cap MetaPaths = {} /\ NewIn(v, t) \cap PathsBefore(t, v) = {}
           /\ StartsAt(v, t) \in Nat /\ Base(t) + Slots <= StartsAt(v, t)
           /\ Cardinality(NewIn(v, t)) \in Nat
           /\ Cardinality(PathsBefore(t, v)) + Cardinality(NewIn(v, t))
                = Cardinality(PathsBefore(t, v) \cup NewIn(v, t))
<1>1. PICK new, before : new = NewIn(v, t) /\ before = PathsBefore(t, v)
  OBVIOUS
<1>2. new \subseteq AllPaths /\ before \subseteq AllPaths
  BY <1>1 DEF NewIn, PathsBefore, AllPaths, Binds
<1>3. IsFiniteSet(new) /\ IsFiniteSet(before)
  BY <1>2, ManifestAssumption, FS_Subset
<1>4. new \cap MetaPaths = {} /\ new \cap before = {}
  BY <1>1, <1>2 DEF Fits, NewIn
<1>5. Cardinality(new) \in Nat /\ Cardinality(before) \in Nat
  BY <1>3, FS_CardinalityType
<1>6. Base(t) \in Nat /\ Slots \in Nat /\ Cardinality(MetaPaths) \in Nat
  BY BasesApart, RangeAssumption, FS_CardinalityType
<1>7. StartsAt(v, t) \in Nat /\ Base(t) + Slots <= StartsAt(v, t)
  BY <1>1, <1>5, <1>6 DEF StartsAt
<1>8. Cardinality(before) + Cardinality(new) = Cardinality(before \cup new)
  <2>1. before \cap new = {}
    BY <1>4
  <2>2. Cardinality(before \cap new) = 0
    BY <2>1, FS_EmptySet
  <2>3. Cardinality(before \cup new) = Cardinality(before) + Cardinality(new) - Cardinality(before \cap new)
    BY <1>3, FS_Union
  <2> QED
    BY <1>5, <2>2, <2>3
<1> QED
  BY <1>1, <1>2, <1>3, <1>4, <1>5, <1>7, <1>8

LEMMA StartsInOrder ==
    ASSUME NEW t \in AllTargets, NEW v \in Binds(t), NEW w \in Binds(t), Fits, w < v
    PROVE  StartsAt(w, t) + Cardinality(NewIn(w, t)) <= StartsAt(v, t)
<1>1. PICK b, n, c, m : /\ b = Cardinality(PathsBefore(t, w)) /\ n = Cardinality(NewIn(w, t))
                        /\ c = Cardinality(PathsBefore(t, v)) /\ m = Cardinality(MetaPaths)
  OBVIOUS
<1>2. w \in Versions /\ v \in Versions /\ t \in Targets(w)
      /\ w \in Int /\ v \in Int /\ Versions \subseteq Int
  BY NumberingAssumption DEF Binds
<1>3. PathsBefore(t, w) \subseteq PathsBefore(t, v)
  <2>1. \A x \in Versions : x < w => x < v
    BY <1>2
  <2> QED
    BY <2>1 DEF PathsBefore
<1>4. NewIn(w, t) \subseteq PathsBefore(t, v)
  BY <1>2 DEF PathsBefore, NewIn
<1>5. b + n = Cardinality(PathsBefore(t, w) \cup NewIn(w, t))
  BY <1>1, AddedPaths
<1>6. PathsBefore(t, w) \cup NewIn(w, t) \subseteq PathsBefore(t, v)
  BY <1>3, <1>4
<1>7. IsFiniteSet(PathsBefore(t, v)) /\ IsFiniteSet(PathsBefore(t, w))
  BY AddedPaths
<1>8. b + n <= c
  BY <1>1, <1>5, <1>6, <1>7, FS_Subset
<1>9. b \in Nat /\ n \in Nat /\ c \in Nat /\ m \in Nat /\ Base(t) \in Nat /\ Slots \in Nat
  BY <1>1, <1>7, AddedPaths, BasesApart, RangeAssumption, FS_CardinalityType
<1>10. StartsAt(v, t) = Base(t) + Slots + c + m
  BY <1>1, <1>2 DEF StartsAt
<1>11. StartsAt(w, t) = Base(t) + Slots + b \/ StartsAt(w, t) = Base(t) + Slots + b + m
  BY <1>1, <1>9 DEF StartsAt
<1> QED
  BY <1>1, <1>8, <1>9, <1>10, <1>11

LEMMA DeployedAssigned ==
    ASSUME NEW t \in AllTargets, Fits PROVE Assigned(DeployedKeys(t), Base(t))
<1>1. PICK f, l, n, m : /\ f = DeployedKeys(t) /\ l = Base(t) /\ n = Cardinality(DOMAIN f)
                        /\ m = Cardinality(MetaPaths)
  OBVIOUS
<1>2. DOMAIN f = MetaPaths \cup UNION {PathsOf(v, t) : v \in Binds(t)}
  BY <1>1 DEF DeployedKeys, Binds
<1>3. IsFiniteSet(DOMAIN f)
  <2>1. UNION {PathsOf(v, t) : v \in Binds(t)} \subseteq AllPaths
    BY DEF AllPaths, Binds
  <2>2. IsFiniteSet(UNION {PathsOf(v, t) : v \in Binds(t)})
    BY <2>1, ManifestAssumption, FS_Subset
  <2> QED
    BY <1>2, <2>2, RangeAssumption, FS_Union, ZenonT(60)
<1>4. /\ l \in Nat /\ n \in Nat /\ m \in Nat /\ Slots \in Nat /\ RangeSize \in Nat
      /\ m <= Slots /\ Slots < RangeSize /\ n + Slots <= RangeSize
  BY <1>1, <1>3, BasesApart, RangeAssumption, FS_CardinalityType DEF Fits
<1>5. PICK g : /\ g = Numbered(MetaPaths, l) /\ DOMAIN g = MetaPaths /\ Injective(g)
               /\ Within(g, l, l + m)
  BY <1>1, <1>4, NumberedFrom, RangeAssumption
<1>6. \A p \in MetaPaths : p \in DOMAIN f /\ f[p] = g[p]
  BY <1>1, <1>2, <1>5 DEF DeployedKeys
<1>7. ASSUME NEW p \in DOMAIN f, p \notin MetaPaths
      PROVE  \E v \in Binds(t) : p \in NewIn(v, t) /\ f[p] = Numbered(NewIn(v, t), StartsAt(v, t))[p]
  <2>1. PICK S : S = {v \in Binds(t) : p \in PathsOf(v, t)}
    OBVIOUS
  <2>2. S # {} /\ S \subseteq Versions
    BY <1>2, <1>7, <2>1 DEF Binds
  <2>3. PICK w \in S : \A x \in S : ~(x < w)
    BY <2>2, FirstVersion
  <2>4. w \in Binds(t) /\ p \in NewIn(w, t)
    BY <2>1, <2>3 DEF NewIn, PathsBefore, Binds
  <2>5. PICK v : v = CHOOSE x \in Binds(t) : p \in NewIn(x, t)
    OBVIOUS
  <2>6. v \in Binds(t) /\ p \in NewIn(v, t)
    BY <2>4, <2>5
  <2>7. f[p] = Numbered(NewIn(v, t), StartsAt(v, t))[p]
    BY <1>1, <1>2, <1>7, <2>5 DEF DeployedKeys, NewIn, StartsAt, Binds
  <2> QED
    BY <2>6, <2>7
<1>8. ASSUME NEW v \in Binds(t)
      PROVE  /\ DOMAIN Numbered(NewIn(v, t), StartsAt(v, t)) = NewIn(v, t)
             /\ Injective(Numbered(NewIn(v, t), StartsAt(v, t)))
             /\ Within(Numbered(NewIn(v, t), StartsAt(v, t)), StartsAt(v, t),
                       StartsAt(v, t) + Cardinality(NewIn(v, t)))
             /\ StartsAt(v, t) \in Nat /\ l + Slots <= StartsAt(v, t)
             /\ Cardinality(NewIn(v, t)) \in Nat
             /\ StartsAt(v, t) + Cardinality(NewIn(v, t)) <= l + Slots + n
  <2>1. PICK before, new : before = PathsBefore(t, v) /\ new = NewIn(v, t)
    OBVIOUS
  <2>2. /\ IsFiniteSet(new) /\ IsFiniteSet(before) /\ before \subseteq AllPaths
        /\ new \subseteq AllPaths
        /\ StartsAt(v, t) \in Nat /\ l + Slots <= StartsAt(v, t)
        /\ Cardinality(before) + Cardinality(new) = Cardinality(before \cup new)
        /\ Cardinality(new) \in Nat
    BY <1>1, <2>1, AddedPaths
  <2>3. /\ DOMAIN Numbered(new, StartsAt(v, t)) = new
        /\ Injective(Numbered(new, StartsAt(v, t)))
        /\ Within(Numbered(new, StartsAt(v, t)), StartsAt(v, t), StartsAt(v, t) + Cardinality(new))
    BY <2>2, NumberedFrom
  <2>4. before \cup new \subseteq DOMAIN f /\ MetaPaths \subseteq DOMAIN f
        /\ MetaPaths \cap (before \cup new) = {}
    BY <1>2, <2>1, <2>2 DEF PathsBefore, NewIn, Binds, Fits
  <2>5. PICK k : k = Cardinality(before \cup new) /\ k \in Nat
    BY <2>2, FS_Union, FS_CardinalityType
  <2>6. m + k <= n
    <3>1. IsFiniteSet(before \cup new) /\ IsFiniteSet(MetaPaths)
      BY <2>2, FS_Union, RangeAssumption
    <3>2. Cardinality(MetaPaths \cap (before \cup new)) = 0
      BY <2>4, FS_EmptySet
    <3>3. Cardinality(MetaPaths \cup (before \cup new))
            = Cardinality(MetaPaths) + Cardinality(before \cup new)
                - Cardinality(MetaPaths \cap (before \cup new))
      BY <3>1, FS_Union
    <3>4. MetaPaths \cup (before \cup new) \subseteq DOMAIN f
      BY <2>4
    <3>5. Cardinality(MetaPaths \cup (before \cup new)) <= n
      BY <1>1, <1>3, <3>4, FS_Subset
    <3> QED
      BY <1>1, <1>4, <2>5, <3>2, <3>3, <3>5
  <2>7. StartsAt(v, t) <= l + Slots + Cardinality(before) + m /\ Cardinality(before) \in Nat
    <3>1. Cardinality(before) \in Nat
      BY <2>2, FS_CardinalityType
    <3> QED
      BY <1>1, <1>4, <2>1, <3>1 DEF StartsAt
  <2>8. StartsAt(v, t) + Cardinality(new) <= l + Slots + n
    <3>1. PICK s, b, c : s = StartsAt(v, t) /\ b = Cardinality(before) /\ c = Cardinality(new)
      OBVIOUS
    <3>2. s \in Nat /\ b \in Nat /\ c \in Nat /\ s <= l + Slots + b + m /\ b + c = k
      BY <2>2, <2>5, <2>7, <3>1
    <3>3. s + c <= l + Slots + n
      BY <1>4, <2>5, <2>6, <3>2
    <3> QED
      BY <3>1, <3>3
  <2> QED
    BY <2>1, <2>2, <2>3, <2>8
<1>9. ASSUME NEW p \in DOMAIN f
      PROVE  \/ /\ p \in MetaPaths /\ f[p] = g[p]
                /\ f[p] \in Int /\ l <= f[p] /\ f[p] < l + m
             \/ \E v \in Binds(t) :
                   /\ p \in NewIn(v, t) /\ f[p] = Numbered(NewIn(v, t), StartsAt(v, t))[p]
                   /\ f[p] \in Int /\ StartsAt(v, t) <= f[p]
                   /\ f[p] < StartsAt(v, t) + Cardinality(NewIn(v, t))
  <2>1. CASE p \in MetaPaths
    BY <1>5, <1>6, <2>1 DEF Within
  <2>2. CASE p \notin MetaPaths
    <3>1. PICK v \in Binds(t) :
                p \in NewIn(v, t) /\ f[p] = Numbered(NewIn(v, t), StartsAt(v, t))[p]
      BY <1>7, <2>2
    <3> QED
      BY <1>8, <3>1 DEF Within
  <2> QED
    BY <2>1, <2>2
<1>10. ASSUME NEW p \in DOMAIN f PROVE f[p] \in Int /\ l <= f[p] /\ f[p] < l + Slots + n
  <2>1. CASE p \in MetaPaths
    <3>1. f[p] \in Int /\ l <= f[p] /\ f[p] < l + m
      BY <1>5, <1>6, <2>1 DEF Within
    <3> QED
      BY <1>4, <3>1
  <2>2. CASE p \notin MetaPaths
    <3>1. PICK v \in Binds(t) :
             /\ f[p] \in Int /\ StartsAt(v, t) <= f[p]
             /\ f[p] < StartsAt(v, t) + Cardinality(NewIn(v, t))
      BY <1>9, <2>2
    <3>2. PICK s, c, x : s = StartsAt(v, t) /\ c = Cardinality(NewIn(v, t)) /\ x = f[p]
      OBVIOUS
    <3>3. /\ s \in Nat /\ c \in Nat /\ l + Slots <= s /\ s + c <= l + Slots + n
          /\ x \in Int /\ s <= x /\ x < s + c
      BY <1>8, <3>1, <3>2
    <3>4. l <= x /\ x < l + Slots + n
      BY <1>4, <3>3
    <3> QED
      BY <3>2, <3>3, <3>4
  <2> QED
    BY <2>1, <2>2
<1>11. ASSUME NEW p \in DOMAIN f, NEW q \in DOMAIN f, f[p] = f[q] PROVE p = q
  <2>1. CASE p \in MetaPaths /\ q \in MetaPaths
    BY <1>5, <1>6, <1>11, <2>1 DEF Injective
  <2>2. ASSUME NEW r \in DOMAIN f, NEW z \in DOMAIN f, f[r] = f[z],
               r \in MetaPaths, z \notin MetaPaths
        PROVE  FALSE
    <3>1. f[r] \in Int /\ f[r] < l + m
      BY <1>5, <1>6, <2>2 DEF Within
    <3>2. PICK v \in Binds(t) : StartsAt(v, t) <= f[z]
      BY <1>9, <2>2
    <3>3. PICK s, x : s = StartsAt(v, t) /\ x = f[r] /\ x = f[z]
      BY <2>2
    <3>4. s \in Nat /\ l + Slots <= s /\ s <= x /\ x \in Int /\ x < l + m
      BY <1>8, <3>1, <3>2, <3>3
    <3> QED
      BY <1>4, <3>4
  <2>3. CASE p \notin MetaPaths /\ q \notin MetaPaths
    <3>1. PICK v \in Binds(t) :
             /\ p \in NewIn(v, t) /\ f[p] = Numbered(NewIn(v, t), StartsAt(v, t))[p]
             /\ f[p] \in Int /\ StartsAt(v, t) <= f[p]
             /\ f[p] < StartsAt(v, t) + Cardinality(NewIn(v, t))
      BY <1>9, <2>3
    <3>2. PICK w \in Binds(t) :
             /\ q \in NewIn(w, t) /\ f[q] = Numbered(NewIn(w, t), StartsAt(w, t))[q]
             /\ f[q] \in Int /\ StartsAt(w, t) <= f[q]
             /\ f[q] < StartsAt(w, t) + Cardinality(NewIn(w, t))
      BY <1>9, <2>3
    <3>3. CASE v = w
      BY <1>8, <1>11, <3>1, <3>2, <3>3 DEF Injective
    <3>4. PICK x, s, c, r, d : /\ x = f[p] /\ x = f[q]
                               /\ s = StartsAt(v, t) /\ c = Cardinality(NewIn(v, t))
                               /\ r = StartsAt(w, t) /\ d = Cardinality(NewIn(w, t))
      BY <1>11
    <3>5. /\ x \in Int /\ s <= x /\ x < s + c /\ r <= x /\ x < r + d
          /\ s \in Nat /\ c \in Nat /\ r \in Nat /\ d \in Nat
      BY <1>8, <3>1, <3>2, <3>4
    <3>6. CASE v < w
      <4>1. s + c <= r
        BY <3>4, <3>6, StartsInOrder
      <4> QED
        BY <3>5, <4>1
    <3>7. CASE w < v
      <4>1. r + d <= s
        BY <3>4, <3>7, StartsInOrder
      <4> QED
        BY <3>5, <4>1
    <3>8. v = w \/ v < w \/ w < v
      BY NumberingAssumption DEF Binds
    <3> QED
      BY <3>3, <3>6, <3>7, <3>8
  <2> QED
    BY <1>11, <2>1, <2>2, <2>3
<1>12. Within(f, l, l + Slots + n)
  BY <1>10 DEF Within
<1>13. Within(f, l, l + RangeSize)
  <2> SUFFICES ASSUME NEW p \in DOMAIN f PROVE f[p] \in Int /\ l <= f[p] /\ f[p] < l + RangeSize
    BY DEF Within
  <2>1. PICK x : x = f[p] /\ x \in Int /\ l <= x /\ x < l + Slots + n
    BY <1>10
  <2>2. x < l + RangeSize
    BY <1>4, <2>1
  <2> QED
    BY <2>1, <2>2
<1> QED
  BY <1>1, <1>3, <1>11, <1>12, <1>13 DEF Assigned, Injective

LEMMA SymbolInvInitially == ASSUME Init PROVE SymbolInv
<1>1. /\ deploy = [e \in Engines |-> Undeployed] /\ raced = {}
      /\ symCache \in [Engines -> [AllTargets -> {NoCopy} \cup {{symkeys[t]} : t \in AllTargets}]]
      /\ DOMAIN apps = Engines /\ DOMAIN storeApp = Engines
      /\ \A e \in Engines : apps[e] \in {app.version, None} /\ storeApp[e] \in {app.version, None}
      /\ asked = [e \in Engines |-> <<>>]
  BY DEF Init, StartFresh, StartDeployed, DeploymentInit, SymbolsInit, QuorumInit
<1>2. /\ \A e \in Engines : deploy[e].step = "none"
      /\ \A e \in Engines : \A t : ~At(e, t) /\ ~Past(deploy[e], t)
  <2>1. \A e \in Engines : deploy[e].step = "none"
    BY <1>1 DEF Undeployed
  <2> QED
    BY <2>1 DEF At, AtTarget, Past, Ended
<1>3. CopiesShaped /\ KnowsNothingYet
  BY <1>1, <1>2 DEF CopiesShaped, KnowsNothingYet
<1>6. asked \in [Engines -> Seq(Reads)] /\ \A e \in Engines : \A i \in 1..Len(asked[e]) : FALSE
  <2>1. <<>> \in Seq(Reads) /\ Len(<<>>) = 0 /\ \A i \in 1..0 : FALSE
    OBVIOUS
  <2> QED
    BY <1>1, <2>1
<1>4. CASE StartFresh
  <2>1. /\ ranges = [t \in AllTargets |-> Absent] /\ symkeys = [t \in AllTargets |-> <<>>]
        /\ symCache = [e \in Engines |-> [t \in AllTargets |-> NoCopy]]
        /\ app = [version |-> None, deployed |-> {}]
    BY <1>4 DEF StartFresh, DeploymentInit, SymbolsInit
  <2>2. ServesDeployed
    BY <1>1, <1>6, <2>1 DEF ServesDeployed
  <2>3. ASSUME NEW t \in AllTargets PROVE Sound(t)
    <3>1. ~Limited(t) /\ symkeys[t] = <<>> /\ \A e \in Engines : symCache[e][t] = NoCopy
      BY <2>1 DEF Limited
    <3>2. ~Used(t)
      BY <1>2, <2>1, <3>1 DEF Used
    <3> QED
      BY <1>2, <3>1, <3>2 DEF Sound, Alone, Kept, Copied, NoCopy
  <2> QED
    BY <1>3, <2>2, <2>3 DEF SymbolInv
<1>5. CASE StartDeployed
  <2>1. /\ Fits /\ ranges = [t \in AllTargets |-> <<Base(t), Base(t) + RangeSize - 1>>]
        /\ symkeys = [t \in AllTargets |-> DeployedKeys(t)]
        /\ \A e \in Engines, t \in AllTargets :
             symCache[e][t] = {symkeys[t]} \/ symCache[e][t] = {}
        /\ app = [version |-> Len(Manifest), deployed |-> Versions]
    BY <1>5 DEF StartDeployed, NoCopy
  <2>2. Len(Manifest) \in Versions \cup {None}
    BY NumberingAssumption DEF None
  <2>3. ServesDeployed
    BY <1>1, <1>6, <2>1, <2>2 DEF ServesDeployed
  <2>4. ASSUME NEW t \in AllTargets PROVE Sound(t)
    <3>1. PICK b, f : b = Base(t) /\ f = DeployedKeys(t)
      OBVIOUS
    <3>2. ranges[t] = <<b, b + RangeSize - 1>> /\ symkeys[t] = f /\ Assigned(f, b)
      BY <2>1, <3>1, DeployedAssigned
    <3>3. Limited(t) /\ ranges[t][1] = b
      BY <3>2, LimitsAreLimits DEF Limited
    <3>4. Kept(t) /\ Finished(t)
      BY <1>2, <3>2, <3>3 DEF Kept, Finished
    <3>5. Copied(t)
      BY <2>1 DEF Copied, OlderCopy
    <3> QED
      BY <1>2, <3>4, <3>5 DEF Sound, Alone
  <2> QED
    BY <1>3, <2>3, <2>4 DEF SymbolInv
<1> QED
  BY <1>4, <1>5 DEF Init

SymbolsSound == CompleteInv /\ RangeInv /\ SymbolInv

LEMMA SymbolsSoundAlways == Spec => []SymbolsSound
<1>1. Init => SymbolsSound
  BY CompleteInvInitially, RangeInvInitially, SymbolInvInitially DEF SymbolsSound
<1>2. SymbolsSound /\ [Next]_vars => SymbolsSound'
  BY CompleteInvKept, RangeInvKept, SymbolInvKept DEF SymbolsSound
<1> QED
  BY <1>1, <1>2, PTL DEF Spec

\* Any number of engines may deploy, one after the other or at different targets,
\* and stop wherever they are: no symbol stands for two paths of a target, and none
\* is outside its range, unless two deployments met at the target.
THEOREM SymbolsStayDistinct == Spec => []SymbolsDistinct
<1>1. ASSUME SymbolsSound PROVE SymbolsDistinct
  <2> SUFFICES ASSUME NEW t \in AllTargets \ raced
      PROVE  /\ \A p \in DOMAIN symkeys[t] : symkeys[t][p] \in ranges[t][1]..ranges[t][2]
             /\ \A p, q \in DOMAIN symkeys[t] : symkeys[t][p] = symkeys[t][q] => p = q
    BY DEF SymbolsDistinct
  <2>1. Kept(t)
    BY <1>1 DEF SymbolsSound, SymbolInv, Sound
  <2>2. CASE ~Limited(t)
    <3>1. DOMAIN symkeys[t] = {}
      BY <2>1, <2>2 DEF Kept
    <3> QED
      BY <3>1
  <2>3. CASE Limited(t)
    <3>1. PICK l : Block(t, l)
      BY <1>1, <2>3 DEF SymbolsSound, RangeInv, Blocks
    <3>2. l \in Nat /\ ranges[t][1] = l /\ ranges[t][2] = l + RangeSize - 1 /\ RangeSize \in Nat
      BY <3>1, BlockLimits, RangeAssumption DEF Block
    <3>3. Injective(symkeys[t]) /\ Within(symkeys[t], l, l + RangeSize)
      BY <2>1, <2>3, <3>2 DEF Kept, Assigned
    <3>4. ASSUME NEW p \in DOMAIN symkeys[t] PROVE symkeys[t][p] \in l..(l + RangeSize - 1)
      <4>1. PICK x : x = symkeys[t][p] /\ x \in Int /\ l <= x /\ x < l + RangeSize
        BY <3>3 DEF Within
      <4>2. x \in l..(l + RangeSize - 1)
        BY <3>2, <4>1
      <4> QED
        BY <4>1, <4>2
    <3> QED
      BY <3>2, <3>3, <3>4 DEF Injective
  <2> QED
    BY <2>2, <2>3
<1> QED
  BY <1>1, SymbolsSoundAlways, PTL

\* A copy an engine has cached of such a target is never wrong, only old: the one
\* deployment that replaces symbols, the first, does so before any engine serves a
\* version with the target.
THEOREM CopiesNeverContradict == Spec => []CopiesOnlyLag
<1>1. ASSUME SymbolsSound PROVE CopiesOnlyLag
  BY <1>1 DEF SymbolsSound, SymbolInv, Sound, Copied, OlderCopy, CopiesOnlyLag
<1> QED
  BY <1>1, SymbolsSoundAlways, PTL

-----------------------------------------------------------------------------
(* Values.  What one engine stores another reads, if the copies they have   *)
(* agree; only a string that looks like a symbol is taken for one.          *)

\* The provers tell the cases of a string apart only by names for these.
NoMark == ""

NoColons == 0

LEMMA TupleParts ==
    ASSUME NEW m, NEW n, NEW k, NEW o, NEW s, s = <<m, n, k, o>>
    PROVE  s[1] = m /\ s[2] = n /\ s[3] = k /\ s[4] = o
OBVIOUS

LEMMA TextParts ==
    ASSUME NEW m, NEW n, NEW k, NEW o, NEW j
    PROVE  (<<m, n, k, o>> = Text(j, o)) <=> (m = NoMark /\ n = NoColons /\ k = j)
<1>1. PICK z : z = Text(j, o)
  OBVIOUS
<1>2. z = <<NoMark, NoColons, j, o>> /\ z[1] = NoMark /\ z[2] = NoColons /\ z[3] = j
  BY <1>1 DEF Text, NoMark, NoColons
<1> QED
  BY <1>1, <1>2

\* Copies of which the reader's has all that the writer's has.
Agreeing(keys, vals, theirKeys, theirVals) ==
    /\ Injective(theirKeys)
    /\ \A p \in DOMAIN keys : p \in DOMAIN theirKeys /\ theirKeys[p] = keys[p]
    /\ \A i \in DOMAIN vals : i \in DOMAIN theirVals /\ vals[i] = theirVals[i]

CountsColons(s) == s[2] \in Nat

LEMMA StringReadsBack ==
    ASSUME NEW keys, NEW vals, NEW theirKeys, NEW theirVals,
           Agreeing(keys, vals, theirKeys, theirVals),
           NEW e, e = NoMark, NEW n, NEW k, NEW o, NEW s, s = <<e, n, k, o>>, CountsColons(s),
           ~ \E p \in DOMAIN theirKeys : s = Text("symbol", theirKeys[p])
    PROVE  Unpackage(Package(<<"string", s>>, keys, vals), theirKeys, theirVals) = <<"string", s>>
<1>1. /\ s[1] = "" /\ s[2] = n /\ s[3] = k /\ s[4] = o
      /\ \A j : s = Text(j, s[4]) <=> (n = 0 /\ k = j)
      /\ \A i : WithColons(s, i) = <<e, i, k, o>>
  <2>1. /\ s[1] = e /\ s[2] = n /\ s[3] = k /\ s[4] = o
        /\ \A j : s = Text(j, s[4]) <=> (e = NoMark /\ n = NoColons /\ k = j)
        /\ \A i : WithColons(s, i) = <<e, i, k, o>>
    <3>1. s[1] = e /\ s[2] = n /\ s[3] = k /\ s[4] = o
      BY TupleParts
    <3>2. \A j : s = Text(j, o) <=> (e = NoMark /\ n = NoColons /\ k = j)
      BY TextParts
    <3> QED
      BY <3>1, <3>2 DEF WithColons
  <2> QED
    BY <2>1 DEF NoMark, NoColons
<1>2. PICK x, w : x = <<"string", s>> /\ w = Stringify(x, vals)
  OBVIOUS
<1>3. ToText(x) = s
  <2>1. x[1] = "string" /\ x[2] = s
    BY <1>2
  <2> QED
    BY <2>1 DEF ToText
<1>4. PICK pathOf : /\ pathOf = ReverseKeyMap(theirKeys)
                    /\ DOMAIN pathOf = {theirKeys[p] : p \in DOMAIN theirKeys}
                    /\ \A p \in DOMAIN theirKeys : pathOf[theirKeys[p]] = p
  <2>1. PICK f : f = ReverseKeyMap(theirKeys)
    OBVIOUS
  <2>2. DOMAIN f = {theirKeys[p] : p \in DOMAIN theirKeys}
    BY <2>1 DEF ReverseKeyMap
  <2>3. ASSUME NEW p \in DOMAIN theirKeys PROVE f[theirKeys[p]] = p
    <3>1. PICK y : y = theirKeys[p]
      OBVIOUS
    <3>2. f[y] = CHOOSE q \in DOMAIN theirKeys : theirKeys[q] = y
      BY <2>1, <3>1 DEF ReverseKeyMap
    <3>3. f[y] \in DOMAIN theirKeys /\ theirKeys[f[y]] = y
      BY <3>1, <3>2
    <3> QED
      BY <3>1, <3>3 DEF Agreeing, Injective
  <2> QED
    BY <2>1, <2>2, <2>3
\* A string of two letters gets one more colon, and loses it.
<1>5. CASE k = "value symbol"
  <2>1. PICK i : i = n + 1 /\ w = <<e, i, k, o>>
    BY <1>1, <1>2, <1>3, <1>5, ZenonT(60) DEF Stringify, TwoLetters, EscapeTwoLetters
  <2>2. /\ w[1] = e /\ w[2] = i /\ w[3] = k /\ w[4] = o
        /\ \A j : w = Text(j, w[4]) <=> (e = NoMark /\ i = NoColons /\ k = j)
        /\ \A j : WithColons(w, j) = <<e, j, k, o>>
    <3>1. w[1] = e /\ w[2] = i /\ w[3] = k /\ w[4] = o
      BY <2>1, TupleParts
    <3>2. \A j : w = Text(j, o) <=> (e = NoMark /\ i = NoColons /\ k = j)
      BY <2>1, TextParts
    <3> QED
      BY <3>1, <3>2 DEF WithColons
  <2>3. Compress(w, keys) = w /\ Decompress(w, theirKeys) = w
    BY <1>5, <2>2 DEF Compress, Decompress
  <2>4. w[2] > 0 /\ w[2] - 1 = s[2]
    <3>1. PICK c \in Nat : c = s[2] /\ c = n
      BY <1>1 DEF CountsColons
    <3>2. w[2] = c + 1
      BY <2>1, <2>2, <3>1
    <3> QED
      BY <3>1, <3>2
  <2>5. TwoLetters(w)
    BY <1>1, <1>5, <2>2 DEF TwoLetters
  <2>6. WithColons(w, w[2] - 1) = s
    <3>1. PICK j : j = w[2] - 1 /\ j = n
      BY <1>1, <2>4
    <3>2. WithColons(w, j) = s
      BY <2>2, <3>1
    <3> QED
      BY <3>1, <3>2
  <2>7. Parse(w, theirVals) = <<"string", s>>
    BY <2>4, <2>5, <2>6 DEF Parse
  <2> QED
    BY <1>2, <2>3, <2>7 DEF Package, Unpackage
\* A value with a symbol.
<1>6. CASE k = "value" /\ n = 0 /\ o \in DOMAIN ReverseValueMap(vals)
  <2>1. PICK i : i = ReverseValueMap(vals)[o]
    OBVIOUS
  <2>2. i \in DOMAIN vals /\ vals[i] = o
    <3>1. PICK f : f = ReverseValueMap(vals)
      OBVIOUS
    <3>2. o \in {vals[j] : j \in DOMAIN vals}
      BY <1>6 DEF ReverseValueMap
    <3>3. i = CHOOSE j \in DOMAIN vals : vals[j] = o
      BY <2>1, <3>2 DEF ReverseValueMap
    <3> QED
      BY <3>2, <3>3
  <2>3. w = Text("value symbol", i)
    BY <1>1, <1>2, <1>3, <1>6, <2>1 DEF Stringify, TwoLetters
  <2>4. /\ w[1] = NoMark /\ w[2] = NoColons /\ w[3] = "value symbol" /\ w[4] = i
        /\ w # Text("symbol", w[4])
    <3>1. PICK l, z : l = "value symbol" /\ z = NoColons
      OBVIOUS
    <3>2. w = <<e, z, l, i>>
      BY <2>3, <3>1 DEF Text, NoMark, NoColons
    <3>3. /\ w[1] = e /\ w[2] = z /\ w[3] = l /\ w[4] = i
          /\ \A j : w = Text(j, w[4]) <=> (e = NoMark /\ z = NoColons /\ l = j)
      <4>1. w[1] = e /\ w[2] = z /\ w[3] = l /\ w[4] = i
        BY <3>2, TupleParts
      <4>2. \A j : w = Text(j, i) <=> (e = NoMark /\ z = NoColons /\ l = j)
        BY <3>2, TextParts
      <4> QED
        BY <4>1, <4>2
    <3>4. w[1] = NoMark /\ w[2] = NoColons
      BY <3>1, <3>3
    <3>5. \A j : w = Text(j, w[4]) => l = j
      BY <3>1, <3>3
    <3>6. w # Text("symbol", w[4])
      BY <3>1, <3>5
    <3> QED
      BY <3>1, <3>3, <3>4, <3>6
  <2>5. Compress(w, keys) = w /\ Decompress(w, theirKeys) = w
    BY <2>4 DEF Compress, Decompress
  <2>6. Parse(w, theirVals) = <<"string", Text("value", o)>>
    <3>1. i \in DOMAIN theirVals /\ theirVals[i] = o
      BY <2>2 DEF Agreeing
    <3>2. ~(w[2] > 0)
      <4>1. w[2] = 0
        BY <2>4 DEF NoColons
      <4> QED
        BY <4>1
    <3>3. TwoLetters(w)
      BY <2>4 DEF TwoLetters, NoMark
    <3> QED
      BY <2>4, <3>1, <3>2, <3>3 DEF Parse
  <2>7. Text("value", o) = s
    BY <1>1, <1>6
  <2> QED
    BY <1>2, <2>5, <2>6, <2>7 DEF Package, Unpackage
\* Any other string is stored as it is, if it is no path with a symbol.
<1>7. CASE k # "value symbol" /\ ~(k = "value" /\ n = 0 /\ o \in DOMAIN ReverseValueMap(vals))
  <2>1. w = s
    BY <1>1, <1>2, <1>3, <1>7 DEF Stringify, TwoLetters
  <2>2. Parse(s, theirVals) = <<"string", s>>
    BY <1>1, <1>7 DEF Parse, TwoLetters, FromText
  <2>3. CASE n = 0 /\ k = "path" /\ o \in DOMAIN keys
    <3>1. PICK y : y = keys[o] /\ y = theirKeys[o] /\ o \in DOMAIN theirKeys
      BY <2>3 DEF Agreeing
    <3>2. Compress(w, keys) = Text("symbol", y)
      BY <1>1, <2>1, <2>3, <3>1 DEF Compress
    <3>3. PICK z : z = Text("symbol", y) /\ z[4] = y
      <4>1. Text("symbol", y)[4] = y
        BY DEF Text
      <4> QED
        BY <4>1
    <3>4. y \in DOMAIN pathOf /\ pathOf[y] = o
      BY <1>4, <3>1
    <3>5. Decompress(z, theirKeys) = Text("path", o)
      BY <1>4, <3>3, <3>4 DEF Decompress
    <3>6. Text("path", o) = s
      BY <1>1, <2>3
    <3> QED
      BY <1>2, <2>2, <3>2, <3>3, <3>5, <3>6 DEF Package, Unpackage
  <2>4. CASE ~(n = 0 /\ k = "path" /\ o \in DOMAIN keys)
    <3>1. Compress(w, keys) = s
      BY <1>1, <2>1, <2>4 DEF Compress
    <3>2. ~(s = Text("symbol", s[4]) /\ s[4] \in DOMAIN pathOf)
      BY <1>4
    <3>3. Decompress(s, theirKeys) = s
      BY <1>4, <3>2 DEF Decompress
    <3> QED
      BY <1>2, <2>2, <3>1, <3>3 DEF Package, Unpackage
  <2> QED
    BY <2>3, <2>4
<1> QED
  BY <1>5, <1>6, <1>7

\* What is marked is neither two letters, nor a value, a path or a symbol.
LEMMA MarkedStays ==
    ASSUME NEW keys, NEW vals, NEW theirKeys, NEW theirVals, NEW x, NEW m, m # NoMark, NEW o,
           ToText(x) = Marked(m, o)
    PROVE  /\ Unpackage(Package(x, keys, vals), theirKeys, theirVals) = FromText(Marked(m, o))
           /\ Marked(m, o)[1] = m /\ Marked(m, o)[4] = o
<1>1. PICK s, z, k : s = Marked(m, o) /\ s = <<m, z, k, o>>
  BY DEF Marked
<1>2. s[1] = m /\ s[4] = o /\ \A j : s # Text(j, s[4])
  <2>1. /\ s[1] = m /\ s[2] = z /\ s[3] = k /\ s[4] = o
        /\ \A j : s = Text(j, s[4]) <=> (m = NoMark /\ z = NoColons /\ k = j)
    <3>1. s[1] = m /\ s[2] = z /\ s[3] = k /\ s[4] = o
      BY <1>1, TupleParts
    <3>2. \A j : s = Text(j, o) <=> (m = NoMark /\ z = NoColons /\ k = j)
      BY <1>1, TextParts
    <3> QED
      BY <3>1, <3>2
  <2> QED
    BY <2>1 DEF NoMark
<1>3. ~TwoLetters(s) /\ s[1] # ""
  BY <1>2 DEF TwoLetters, NoMark
<1>4. Stringify(x, vals) = s
  <2>1. ToText(x) = s
    BY <1>1
  <2> QED
    BY <1>2, <1>3, <2>1 DEF Stringify
<1>5. Compress(s, keys) = s /\ Parse(s, theirVals) = FromText(s)
  BY <1>3 DEF Compress, Parse
<1>6. Decompress(s, theirKeys) = s
  BY <1>2 DEF Decompress
<1> QED
  BY <1>1, <1>2, <1>4, <1>5, <1>6 DEF Package, Unpackage

LEMMA ValueReadsBack ==
    ASSUME NEW keys, NEW vals, NEW theirKeys, NEW theirVals,
           Agreeing(keys, vals, theirKeys, theirVals), NEW x, IsValue(x),
           ~LooksLikeMark(x), ~LooksLikeSymbol(x, theirKeys)
    PROVE  Unpackage(Package(x, keys, vals), theirKeys, theirVals) = x
<1> DEFINE Back == Unpackage(Package(x, keys, vals), theirKeys, theirVals)
<1>1. CASE x[1] = "string"
  <2>1. PICK s : s = x[2]
    OBVIOUS
  <2>2. x = <<"string", <<s[1], s[2], s[3], s[4]>>>> /\ s[2] \in Nat
    BY <1>1, <2>1 DEF IsValue
  <2>3. s = <<s[1], s[2], s[3], s[4]>> /\ x = <<"string", s>>
    BY <2>1, <2>2
  <2>4. s[1] = ""
    BY <1>1, <2>1 DEF LooksLikeMark
  <2>5. ~ \E p \in DOMAIN theirKeys : s = Text("symbol", theirKeys[p])
    BY <1>1, <2>1 DEF LooksLikeSymbol
  <2>6. PICK e, n, k, o : e = s[1] /\ n = s[2] /\ k = s[3] /\ o = s[4]
    OBVIOUS
  <2>7. e = NoMark /\ CountsColons(s) /\ s = <<e, n, k, o>>
    BY <2>2, <2>3, <2>4, <2>6 DEF NoMark, CountsColons
  <2>8. Unpackage(Package(<<"string", s>>, keys, vals), theirKeys, theirVals) = <<"string", s>>
    BY <2>5, <2>7, StringReadsBack
  <2> QED
    BY <2>3, <2>8
<1>2. CASE x[1] = "boolean"
  <2>1. PICK b : x = <<"boolean", b>> /\ b \in BOOLEAN /\ b = x[2]
    BY <1>2 DEF IsValue
  <2>2. PICK m, o : m = (IF b THEN "/t" ELSE "/f") /\ o = ""
    OBVIOUS
  <2>3. m # NoMark /\ ToText(x) = Marked(m, o)
    BY <1>2, <2>1, <2>2 DEF ToText, NoMark
  <2>4. Back = FromText(Marked(m, o)) /\ Marked(m, o)[1] = m
    BY <2>3, MarkedStays
  <2>5. CASE b = TRUE
    <3>1. FromText(Marked(m, o)) = <<"boolean", TRUE>>
      BY <2>2, <2>4, <2>5 DEF FromText
    <3> QED
      BY <2>1, <2>4, <2>5, <3>1
  <2>6. CASE b = FALSE
    <3>1. FromText(Marked(m, o)) = <<"boolean", FALSE>>
      BY <2>2, <2>4, <2>6 DEF FromText
    <3> QED
      BY <2>1, <2>4, <2>6, <3>1
  <2> QED
    BY <2>1, <2>5, <2>6
<1>3. CASE x[1] = "number"
  <2>1. PICK m, o : m = "/d" /\ o = x[2]
    OBVIOUS
  <2>2. x = <<"number", o>> /\ ToText(x) = Marked(m, o)
    BY <1>3, <2>1 DEF IsValue, ToText
  <2>3. Back = FromText(Marked(m, o)) /\ Marked(m, o)[1] = m /\ Marked(m, o)[4] = o
    <3>1. m # NoMark
      BY <2>1 DEF NoMark
    <3> QED
      BY <2>2, <3>1, MarkedStays
  <2>4. FromText(Marked(m, o)) = <<"number", o>>
    BY <2>1, <2>3 DEF FromText
  <2> QED
    BY <2>2, <2>3, <2>4
<1>4. CASE x[1] = "object"
  <2>1. PICK m, o : m = "/s" /\ o = x[2]
    OBVIOUS
  <2>2. x = <<"object", o>> /\ ToText(x) = Marked(m, o)
    BY <1>4, <2>1 DEF IsValue, ToText
  <2>3. Back = FromText(Marked(m, o)) /\ Marked(m, o)[1] = m /\ Marked(m, o)[4] = o
    <3>1. m # NoMark
      BY <2>1 DEF NoMark
    <3> QED
      BY <2>2, <3>1, MarkedStays
  <2>4. FromText(Marked(m, o)) = <<"object", o>>
    BY <2>1, <2>3 DEF FromText
  <2> QED
    BY <2>2, <2>3, <2>4
<1>5. CASE x[1] \notin {"string", "boolean", "number", "object"}
  <2>1. PICK m, o : m = "/n" /\ o = ""
    OBVIOUS
  <2>2. x = <<"null">>
    BY <1>5 DEF IsValue
  <2>3. x[1] = "null"
    BY <2>2
  <2>4. ToText(x) = Marked(m, o)
    BY <2>1, <2>3 DEF ToText
  <2>5. Back = FromText(Marked(m, o)) /\ Marked(m, o)[1] = m
    <3>1. m # NoMark
      BY <2>1 DEF NoMark
    <3> QED
      BY <2>4, <3>1, MarkedStays
  <2>6. FromText(Marked(m, o)) = <<"null">>
    BY <2>1, <2>5 DEF FromText
  <2> QED
    BY <2>2, <2>5, <2>6
<1> QED
  BY <1>1, <1>2, <1>3, <1>4, <1>5

\* What an engine stores of such a target, in the job's hash, another reads back,
\* whichever copies of the symbols of paths and values the two have cached, if the
\* reader's are at least as new.
THEOREM StoredIsReadBack == Spec => []StateReadsBack
<1>1. ASSUME SymbolsSound PROVE StateReadsBack
  <2> SUFFICES ASSUME NEW t \in AllTargets \ raced,
                      NEW keys \in UNION {symCache[e][t] : e \in Engines},
                      NEW theirKeys \in UNION {symCache[e][t] : e \in Engines},
                      NEW vals \in UNION {valCache[e] : e \in Engines},
                      NEW theirVals \in UNION {valCache[e] : e \in Engines},
                      \A s \in DOMAIN vals : s \in DOMAIN theirVals /\ vals[s] = theirVals[s],
                      DOMAIN keys \subseteq DOMAIN theirKeys
      PROVE  /\ \A p \in DOMAIN keys \cup (AllPaths \ DOMAIN theirKeys) :
                   Field(p, keys) = Field(p, theirKeys)
             /\ \A x \in Samples :
                   \/ ReadBack(x, keys, vals, theirKeys, theirVals) = x
                   \/ IsEmpty(x) \/ LooksLikeMark(x) \/ LooksLikeSymbol(x, theirKeys)
    BY DEF StateReadsBack
  <2>1. OlderCopy(keys, symkeys[t]) /\ OlderCopy(theirKeys, symkeys[t]) /\ Injective(symkeys[t])
    <3>1. Copied(t) /\ Kept(t)
      BY <1>1 DEF SymbolsSound, SymbolInv, Sound
    <3>2. DOMAIN <<>> = {}
      OBVIOUS
    <3>3. Injective(symkeys[t])
      BY <3>1, <3>2 DEF Kept, Assigned, Injective
    <3> QED
      BY <3>1, <3>3 DEF Copied
  <2>2. \A p \in DOMAIN keys : p \in DOMAIN theirKeys /\ theirKeys[p] = keys[p]
    BY <2>1 DEF OlderCopy
  <2>3. Injective(theirKeys)
    BY <2>1 DEF OlderCopy, Injective
  <2>4. ASSUME NEW p \in DOMAIN keys \cup (AllPaths \ DOMAIN theirKeys)
        PROVE  Field(p, keys) = Field(p, theirKeys)
    BY <2>2 DEF Field
  <2>5. ASSUME NEW x \in Samples, ~IsEmpty(x), ~LooksLikeMark(x), ~LooksLikeSymbol(x, theirKeys)
        PROVE  ReadBack(x, keys, vals, theirKeys, theirVals) = x
    <3>1. Agreeing(keys, vals, theirKeys, theirVals)
      BY <2>2, <2>3 DEF Agreeing
    <3>2. IsValue(x)
      BY SamplesAssumption
    <3> QED
      BY <2>5, <3>1, <3>2, ValueReadsBack DEF ReadBack
  <2> QED
    BY <2>4, <2>5
<1> QED
  BY <1>1, SymbolsSoundAlways, PTL

-----------------------------------------------------------------------------
(* Topics.  getSubscriptionTopic climbs from an activity to a key nothing   *)
(* leads to: where activities hang below the trigger of their graph, that  *)
(* is the trigger, or the topic of a private graph.                        *)

\* Each graph is a rooted tree, or a DAG: the trigger leads to every activity and
\* back to none, and a hook leads to another activity than a trigger.  The topic of
\* a private graph, a name with a dot, is not the key of an activity's transitions.
Rooted(v) ==
    /\ ValidActivityIds(v)
    /\ \A g \in Manifest[v] :
          /\ \E a \in DOMAIN g.activities : g.activities[a].type = "trigger"
          /\ g.private => g.subscribes \notin Activities(v)
          /\ \A p \in g.transitions :
                p[1] \in DOMAIN g.activities /\ p[2] \in DOMAIN g.activities \ {Trigger(g)}
          /\ \A a \in DOMAIN g.activities \ {Trigger(g)} : \E p \in g.transitions : p[2] = a
          /\ \E depth \in [DOMAIN g.activities -> Nat] :
                \A p \in g.transitions : depth[p[1]] < depth[p[2]]
          /\ \A h \in HookRules(v) : h[2] # Trigger(g)

RootOf(g) == IF g.private THEN g.subscribes ELSE Trigger(g)

RootIn(v, x) == IF x \in Activities(v) THEN RootOf(GraphOf(v, x)) ELSE x

Depth(g) ==
    CHOOSE depth \in [DOMAIN g.activities -> Nat] :
        \A p \in g.transitions : depth[p[1]] < depth[p[2]]

Height(v, x) == IF x \in Activities(v) THEN Depth(GraphOf(v, x))[x] + 1 ELSE 0

OneUp(v, x) == CHOOSE p \in Above(v, x) : TRUE

Climbs(top, v) ==
    top = [x \in Targets(v) |-> IF Above(v, x) = {} THEN x ELSE top[OneUp(v, x)]]

LEMMA TheGraph ==
    ASSUME NEW v, Rooted(v), NEW g \in Manifest[v], NEW a \in DOMAIN g.activities
    PROVE  a \in Activities(v) /\ GraphOf(v, a) = g
<1>1. GraphOf(v, a) \in Manifest[v] /\ a \in DOMAIN GraphOf(v, a).activities
  BY DEF GraphOf
<1>2. a \in Activities(v)
  BY DEF Activities
<1> QED
  BY <1>1, <1>2 DEF Rooted, ValidActivityIds

LEMMA PairParts ==
    ASSUME NEW m, NEW n
    PROVE  \E q : q = <<m, n>> /\ q[1] = m /\ q[2] = n
<1>1. PICK q : q = <<m, n>>
  OBVIOUS
<1>2. q[1] = m /\ q[2] = n
  BY <1>1
<1> QED
  BY <1>1, <1>2

LEMMA TheTrigger ==
    ASSUME NEW v, Rooted(v), NEW g \in Manifest[v]
    PROVE  Trigger(g) \in DOMAIN g.activities
  BY DEF Rooted, Trigger

\* What leads to an activity: activities of its graph that are nearer to the
\* trigger; and to the trigger, the topic, if the graph is private.
LEMMA WhatIsAbove ==
    ASSUME NEW v, Rooted(v)
    PROVE  /\ \A x : x \notin Activities(v) => Above(v, x) = {}
           /\ \A g \in Manifest[v] :
                 /\ Above(v, Trigger(g)) = IF g.private THEN {g.subscribes} ELSE {}
                 /\ \A a \in DOMAIN g.activities \ {Trigger(g)} :
                       /\ Above(v, a) # {}
                       /\ \A p \in Above(v, a) :
                             p \in DOMAIN g.activities /\ Depth(g)[p] < Depth(g)[a]
<1>1. ASSUME NEW q \in Transitions(v)
      PROVE  \E g \in Manifest[v] :
                \/ q \in g.transitions /\ q[1] \in DOMAIN g.activities
                   /\ q[2] \in DOMAIN g.activities \ {Trigger(g)}
                \/ g.private /\ q[1] = g.subscribes /\ q[2] = Trigger(g)
  <2>1. PICK g \in Manifest[v] :
           q \in g.transitions \cup (IF g.private THEN {<<g.subscribes, Trigger(g)>>} ELSE {})
    BY DEF Transitions
  <2>2. CASE q \in g.transitions
    BY <2>2 DEF Rooted
  <2>3. CASE q \notin g.transitions
    BY <2>1, <2>3
  <2> QED
    BY <2>2, <2>3
<1>2. ASSUME NEW x, x \notin Activities(v), NEW q \in Transitions(v), q[2] = x PROVE FALSE
  <2>1. PICK g \in Manifest[v] : q[2] \in DOMAIN g.activities
    BY <1>1, TheTrigger
  <2> QED
    BY <1>2, <2>1, TheGraph
<1>3. ASSUME NEW g \in Manifest[v], NEW q \in Transitions(v), q[2] = Trigger(g)
      PROVE  g.private /\ q[1] = g.subscribes
  <2>1. PICK h \in Manifest[v] :
                \/ q[2] \in DOMAIN h.activities \ {Trigger(h)}
                \/ h.private /\ q[1] = h.subscribes /\ q[2] = Trigger(h)
    BY <1>1
  <2>2. q[2] \in DOMAIN h.activities /\ q[2] \in DOMAIN g.activities
    BY <1>3, <2>1, TheTrigger
  <2>3. h = g
    BY <2>2, TheGraph
  <2> QED
    BY <1>3, <2>1, <2>3
<1>4. ASSUME NEW g \in Manifest[v], g.private
      PROVE  \E q \in Transitions(v) : q[1] = g.subscribes /\ q[2] = Trigger(g)
  <2>1. PICK q : q = <<g.subscribes, Trigger(g)>> /\ q[1] = g.subscribes /\ q[2] = Trigger(g)
    <3>1. PICK m, n : m = g.subscribes /\ n = Trigger(g)
      OBVIOUS
    <3>2. \E q : q = <<m, n>> /\ q[1] = m /\ q[2] = n
      BY PairParts
    <3> QED
      BY <3>1, <3>2
  <2>2. q \in Transitions(v)
    BY <1>4, <2>1 DEF Transitions
  <2> QED
    BY <2>1, <2>2
<1>5. ASSUME NEW g \in Manifest[v], NEW a \in DOMAIN g.activities \ {Trigger(g)}
      PROVE  /\ Above(v, a) # {}
             /\ \A p \in Above(v, a) : p \in DOMAIN g.activities /\ Depth(g)[p] < Depth(g)[a]
  <2>1. PICK q \in g.transitions : q[2] = a
    BY <1>5 DEF Rooted
  <2>2. q \in Transitions(v)
    BY DEF Transitions
  <2>3. Above(v, a) # {}
    BY <2>1, <2>2 DEF Above
  <2>4. \A p \in g.transitions : Depth(g)[p[1]] < Depth(g)[p[2]]
    BY DEF Rooted, Depth
  <2>5. ASSUME NEW p \in Above(v, a)
        PROVE  p \in DOMAIN g.activities /\ Depth(g)[p] < Depth(g)[a]
    <3>1. PICK r \in Transitions(v) : r[1] = p /\ r[2] = a
      BY DEF Above
    <3>2. PICK h \in Manifest[v] :
                \/ r \in h.transitions /\ r[1] \in DOMAIN h.activities
                   /\ r[2] \in DOMAIN h.activities \ {Trigger(h)}
                \/ h.private /\ r[1] = h.subscribes /\ r[2] = Trigger(h)
      BY <1>1
    <3>3. r[2] \in DOMAIN h.activities
      BY <3>2, TheTrigger
    <3>4. h = g
      BY <3>1, <3>3, TheGraph
    <3> QED
      BY <1>5, <2>4, <3>1, <3>2, <3>4
  <2> QED
    BY <2>3, <2>5
<1>6. ASSUME NEW x, x \notin Activities(v) PROVE Above(v, x) = {}
  BY <1>2, <1>6 DEF Above
<1>7. ASSUME NEW g \in Manifest[v]
      PROVE  Above(v, Trigger(g)) = IF g.private THEN {g.subscribes} ELSE {}
  BY <1>3, <1>4 DEF Above
<1> QED
  BY <1>5, <1>6, <1>7

\* One step up is a target below the same root, and it is nearer to it.
LEMMA StepUp ==
    ASSUME NEW v, Rooted(v), NEW x \in Targets(v)
    PROVE  /\ Height(v, x) \in Nat
           /\ Above(v, x) = {} => RootIn(v, x) = x
           /\ Above(v, x) # {} =>
                /\ OneUp(v, x) \in Targets(v)
                /\ RootIn(v, OneUp(v, x)) = RootIn(v, x)
                /\ Height(v, OneUp(v, x)) < Height(v, x)
<1>1. \A g \in Manifest[v] : /\ Depth(g) \in [DOMAIN g.activities -> Nat]
                             /\ g.subscribes \in Targets(v)
                             /\ g.private => g.subscribes \notin Activities(v)
                             /\ Trigger(g) \in DOMAIN g.activities
  BY TheTrigger DEF Rooted, Depth, Targets
<1>2. Activities(v) \subseteq Targets(v)
  BY DEF Targets
<1>3. CASE x \notin Activities(v)
  BY <1>3, WhatIsAbove DEF RootIn, Height
<1>4. CASE x \in Activities(v)
  <2>1. PICK g \in Manifest[v] : x \in DOMAIN g.activities
    BY <1>4 DEF Activities
  <2>2. GraphOf(v, x) = g
    BY <2>1, TheGraph
  <2>3. Depth(g)[x] \in Nat /\ Height(v, x) = Depth(g)[x] + 1 /\ RootIn(v, x) = RootOf(g)
    BY <1>1, <1>4, <2>1, <2>2 DEF Height, RootIn
  <2>4. Above(v, x) # {} => OneUp(v, x) \in Above(v, x)
    BY DEF OneUp
  <2>5. CASE x = Trigger(g) /\ ~g.private
    BY <2>3, <2>5, WhatIsAbove DEF RootOf
  <2>6. CASE x = Trigger(g) /\ g.private
    <3>1. OneUp(v, x) = g.subscribes /\ Above(v, x) # {}
      BY <2>4, <2>6, WhatIsAbove
    <3>2. RootIn(v, g.subscribes) = g.subscribes /\ Height(v, g.subscribes) = 0
      BY <1>1, <2>6 DEF RootIn, Height
    <3> QED
      BY <1>1, <2>3, <2>6, <3>1, <3>2 DEF RootOf
  <2>7. CASE x # Trigger(g)
    <3>1. Above(v, x) # {} /\ OneUp(v, x) \in DOMAIN g.activities
          /\ Depth(g)[OneUp(v, x)] < Depth(g)[x]
      BY <2>1, <2>4, <2>7, WhatIsAbove
    <3>2. OneUp(v, x) \in Activities(v) /\ GraphOf(v, OneUp(v, x)) = g
      BY <3>1, TheGraph
    <3>3. Depth(g)[OneUp(v, x)] \in Nat
      BY <1>1, <3>1
    <3>4. RootIn(v, OneUp(v, x)) = RootOf(g)
          /\ Height(v, OneUp(v, x)) = Depth(g)[OneUp(v, x)] + 1
      BY <3>2 DEF RootIn, Height
    <3> QED
      BY <1>2, <2>3, <3>1, <3>2, <3>3, <3>4
  <2> QED
    BY <2>5, <2>6, <2>7
<1> QED
  BY <1>3, <1>4

\* The climb has one outcome: whoever it leads astray first is next to one it does
\* not.
LEMMA ClimbEndsAtRoot ==
    ASSUME NEW v, Rooted(v), NEW a \in Activities(v), Above(v, a) # {}
    PROVE  TopKey(v, a) = RootOf(GraphOf(v, a))
<1> DEFINE top == CHOOSE t : Climbs(t, v)
           roots == [x \in Targets(v) |-> RootIn(v, x)]
           Astray == {x \in Targets(v) : top[x] # RootIn(v, x)}
<1>1. Climbs(roots, v)
  <2>1. ASSUME NEW x \in Targets(v)
        PROVE  roots[x] = IF Above(v, x) = {} THEN x ELSE roots[OneUp(v, x)]
    BY StepUp
  <2>2. roots = [x \in Targets(v) |-> roots[x]]
    OBVIOUS
  <2> HIDE DEF roots
  <2> QED
    BY <2>1, <2>2 DEF Climbs
<1>2. Climbs(top, v)
  BY <1>1
<1>3. TopKey(v, a) = top[a]
  BY DEF TopKey, Climbs, OneUp
<1> HIDE DEF top
<1>4. \A x \in Targets(v) : top[x] = IF Above(v, x) = {} THEN x ELSE top[OneUp(v, x)]
  BY <1>2 DEF Climbs
<1>5. Astray = {}
  <2> SUFFICES ASSUME Astray # {} PROVE FALSE
    OBVIOUS
  <2> DEFINE S == {Height(v, x) : x \in Astray}
  <2>1. S \subseteq Nat /\ S # {}
    BY StepUp
  <2>2. PICK n \in S : \A m \in S : ~(m < n)
    <3> HIDE DEF S
    <3> QED
      BY <2>1, LeastNumber
  <2>3. PICK x \in Targets(v) : top[x] # RootIn(v, x) /\ n = Height(v, x)
    BY <2>2
  <2>4. Above(v, x) # {}
    BY <1>4, <2>3, StepUp
  <2>5. OneUp(v, x) \in Targets(v) /\ RootIn(v, OneUp(v, x)) = RootIn(v, x)
        /\ Height(v, OneUp(v, x)) < n
    BY <2>3, <2>4, StepUp
  <2>6. top[OneUp(v, x)] # RootIn(v, OneUp(v, x))
    BY <1>4, <2>3, <2>4, <2>5
  <2>7. Height(v, OneUp(v, x)) \in S
    BY <2>5, <2>6
  <2> QED
    BY <2>2, <2>5, <2>7
<1>6. a \in Targets(v) /\ a \notin Astray
  BY <1>5 DEF Targets
<1> QED
  BY <1>3, <1>6 DEF RootIn

LEMMA TopicOfGraph ==
    ASSUME NEW v, Rooted(v), NEW g \in Manifest[v], NEW a \in DOMAIN g.activities,
           a # Trigger(g)
    PROVE  SubscriptionTopic(v, a) = IF g.private THEN NoTopic ELSE g.subscribes
<1> DEFINE topics == {s[1] : s \in {r \in Subscriptions(v) : r[2] = TopKey(v, a)}}
<1>1. TopKey(v, a) = RootOf(g)
  BY TheGraph, WhatIsAbove, ClimbEndsAtRoot
<1>2. \A r \in Subscriptions(v) : \E h \in Manifest[v] :
         r = <<h.subscribes, Trigger(h)>> /\ r[1] = h.subscribes /\ r[2] = Trigger(h)
  BY DEF Subscriptions
<1>3. CASE g.private
  <2>1. \A r \in Subscriptions(v) : r[2] # g.subscribes
    <3> SUFFICES ASSUME NEW r \in Subscriptions(v), r[2] = g.subscribes PROVE FALSE
      OBVIOUS
    <3>1. PICK h \in Manifest[v] : r[2] = Trigger(h)
      BY <1>2
    <3>2. r[2] \in Activities(v)
      BY <3>1, TheTrigger, TheGraph
    <3> QED
      BY <1>3, <3>2 DEF Rooted
  <2>2. topics = {}
    BY <1>1, <1>3, <2>1 DEF RootOf
  <2> QED
    BY <1>3, <2>2 DEF SubscriptionTopic
<1>4. CASE ~g.private
  <2>1. TopKey(v, a) = Trigger(g)
    BY <1>1, <1>4 DEF RootOf
  <2>2. \A r \in Subscriptions(v) : r[2] = Trigger(g) => r[1] = g.subscribes
    <3> SUFFICES ASSUME NEW r \in Subscriptions(v), r[2] = Trigger(g) PROVE r[1] = g.subscribes
      OBVIOUS
    <3>1. PICK h \in Manifest[v] : r[1] = h.subscribes /\ r[2] = Trigger(h)
      BY <1>2
    <3>2. r[2] \in DOMAIN h.activities /\ r[2] \in DOMAIN g.activities
      BY <3>1, TheTrigger
    <3>3. h = g
      BY <3>2, TheGraph
    <3> QED
      BY <3>1, <3>3
  <2>3. PICK r \in Subscriptions(v) : r[1] = g.subscribes /\ r[2] = Trigger(g)
    <3>1. PICK r : r = <<g.subscribes, Trigger(g)>> /\ r[1] = g.subscribes /\ r[2] = Trigger(g)
      <4>1. PICK m, n : m = g.subscribes /\ n = Trigger(g)
        OBVIOUS
      <4>2. \E r : r = <<m, n>> /\ r[1] = m /\ r[2] = n
        BY PairParts
      <4> QED
        BY <4>1, <4>2
    <3>2. r \in Subscriptions(v)
      BY <3>1 DEF Subscriptions
    <3> QED
      BY <3>1, <3>2
  <2>4. topics = {g.subscribes}
    BY <2>1, <2>2, <2>3
  <2>5. SubscriptionTopic(v, a) = IF topics = {} THEN NoTopic ELSE CHOOSE t \in topics : TRUE
    BY DEF SubscriptionTopic
  <2> QED
    BY <1>4, <2>4, <2>5
<1> QED
  BY <1>3, <1>4

\* hookAll, which climbs the transitions of the version it is served, finds the
\* topic of the graph of a hooked activity whichever version that is, and none if the
\* graph is private: for any app whose graphs are rooted, the climb ends at the
\* trigger of the same graph, along whatever parents it takes.
THEOREM HookedTopicsAreFound == (\A v \in Versions : Rooted(v)) => (Spec => []TopicsResolve)
<1> SUFFICES ASSUME \A v \in Versions : Rooted(v) PROVE Spec => []TopicsResolve
  OBVIOUS
<1>1. Versions \subseteq WithTopics
  <2> SUFFICES ASSUME NEW v \in Versions, NEW h \in HookRules(v), NEW g \in Manifest[v],
                      h[2] \in DOMAIN g.activities
      PROVE SubscriptionTopic(v, h[2]) = IF g.private THEN NoTopic ELSE g.subscribes
    BY DEF WithTopics
  <2>1. h[2] # Trigger(g)
    BY DEF Rooted
  <2> QED
    BY <2>1, TopicOfGraph
<1>2. CompleteInv => TopicsResolve
  BY <1>1 DEF CompleteInv, Complete, TopicsResolve
<1> QED
  BY <1>2, CompleteInvInitially, CompleteInvKept, PTL DEF Spec
=============================================================================
