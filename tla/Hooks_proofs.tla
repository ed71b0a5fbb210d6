----------------------------- MODULE Hooks_proofs ----------------------------
(***************************************************************************)
(* What sleeping and hooked jobs may rely on, for any number of engines,   *)
(* pollers, jobs and hooks: however the round trips interleave and whoever *)
(* stops, no job is woken early, taken twice from its list, or resumed by  *)
(* a hook that found its signal after the activity had ended.              *)
(***************************************************************************)
EXTENDS Hooks, Collator_proofs, FiniteSetTheorems, SequenceTheorems, WellFoundedInduction

LegSteps == {"none", "called", "pushed", "listed", "stopped", "open"}

PollerSet ==
    [step : {"poll", "pop", "drop", "fire", "dead"}, slot : Slots, job : Jobs \cup {NoJob}]

LegTypes ==
    /\ kind \in {"sleep", "signal"}
    /\ ledger \in [Jobs -> Ledger]
    /\ leg1 \in [Jobs -> LegSteps]
    /\ delivery \in [Engines -> Deliveries]
    /\ resumed \subseteq Jobs

TimeTypes ==
    /\ now \in Nat
    /\ wish \in [Jobs -> Nat]
    /\ slot \in [Jobs -> Slots]
    /\ lists \in [Slots -> Seq(Jobs)]
    /\ slotSet \subseteq Slots
    /\ poller \in [Engines -> PollerSet]
    /\ pops \in [Jobs -> Nat]

Registered(j) == leg1[j] \notin {"none", "called"}

(* The third digit opens with the seed and closes with the first           *)
(* completion; a delivery that is late therefore finds it closed.          *)
DigitTells ==
    \A j \in Jobs :
      /\ ledger[j].leg2 <= 9
      /\ leg1[j] = "none" => ledger[j].leg2 < 9
      /\ j \in resumed => ledger[j].leg2 < 9 /\ leg1[j] # "none"

DeliveriesKnow ==
    \A e \in Engines :
      /\ delivery[e].step = "granted" => leg1[delivery[e].job] # "none" /\ ~delivery[e].late
      /\ delivery[e].step = "found" => (delivery[e].late => delivery[e].job \in resumed)

LegInv == LegTypes /\ DigitTells /\ DeliveriesKnow

(* A job is in the list of the slot it was given, once, until it is popped. *)
ListsKept ==
    \A s \in Slots : \A i \in 1..Len(lists[s]) :
      /\ Registered(lists[s][i])
      /\ slot[lists[s][i]] = s
      /\ pops[lists[s][i]] = 0
      /\ \A k \in 1..Len(lists[s]) : lists[s][k] = lists[s][i] => k = i

PopsKept == \A j \in Jobs : pops[j] <= 1 /\ (~Registered(j) => pops[j] = 0)

SlotsRounded == \A j \in Jobs : slot[j] = AwakenTimeSlot(wish[j])

PollersInTime ==
    \A e \in Engines :
      /\ poller[e].step \in {"pop", "fire"} => poller[e].slot <= now
      /\ poller[e].step = "fire" =>
            poller[e].job \in Jobs /\ slot[poller[e].job] = poller[e].slot
            /\ Registered(poller[e].job)

TimeInv == TimeTypes /\ ListsKept /\ PopsKept /\ SlotsRounded /\ PollersInTime

-----------------------------------------------------------------------------
(* Leg 1 and leg 2.                                                        *)

\* What the increments leave of the digits.
LEMMA Increments ==
    ASSUME NEW l \in Ledger
    PROVE  /\ NotarizeEntry(l) \in Ledger /\ NotarizeEntry(l).leg2 = l.leg2
           /\ AuthorizeReentry(l) \in Ledger /\ AuthorizeReentry(l).leg2 = l.leg2
           /\ NotarizeReentry(l) \in Ledger /\ NotarizeReentry(l).leg2 = l.leg2
           /\ NotarizeCompletion(l) \in Ledger /\ NotarizeCompletion(l).leg2 = l.leg2 - 1
<1>1. /\ NotarizeEntry(l) \in Ledger /\ NotarizeEntry(l).leg2 = l.leg2
      /\ AuthorizeReentry(l) \in Ledger /\ AuthorizeReentry(l).leg2 = l.leg2
      /\ NotarizeReentry(l) \in Ledger /\ NotarizeReentry(l).leg2 = l.leg2
  BY DEF Ledger, NotarizeEntry, AuthorizeReentry, NotarizeReentry
<1>2. PICK m : m = [l EXCEPT !.leg2 = @ - 1]
  OBVIOUS
<1>3. m \in Ledger /\ m.leg2 = l.leg2 - 1
  BY <1>2 DEF Ledger
<1>4. NotarizeContinuation(m) \in Ledger /\ NotarizeContinuation(m).leg2 = l.leg2 - 1
  BY <1>3 DEF Ledger, NotarizeContinuation
<1> QED
  BY <1>1, <1>2, <1>4 DEF NotarizeCompletion

LEMMA Seeds == Seed \in Ledger /\ Seed.leg2 = 9 /\ Absent \in Ledger /\ Absent.leg2 = 0
  BY DEF Seed, Absent, Digits, Ledger

\* A step that leaves deliveries alone, changes the ledger of jobs whose leg 1
\* was called without touching the third digit, and forgets no call.
LEMMA LegOneKeeps ==
    ASSUME LegInv, UNCHANGED <<kind, delivery, resumed>>,
           leg1' \in [Jobs -> LegSteps], ledger' \in [Jobs -> Ledger],
           \A j \in Jobs :
             /\ leg1[j] # "none" => leg1'[j] # "none" /\ ledger'[j].leg2 = ledger[j].leg2
             /\ leg1[j] = "none" =>
                  ledger'[j].leg2 <= 9 /\ (leg1'[j] = "none" => ledger'[j].leg2 < 9)
    PROVE  LegInv'
<1>1. LegTypes'
  BY DEF LegInv, LegTypes
<1>2. DigitTells'
  <2> SUFFICES ASSUME NEW j \in Jobs
      PROVE  /\ ledger'[j].leg2 <= 9
             /\ leg1'[j] = "none" => ledger'[j].leg2 < 9
             /\ j \in resumed => ledger'[j].leg2 < 9 /\ leg1'[j] # "none"
    BY DEF DigitTells
  <2> QED
    BY DEF LegInv, DigitTells
<1>3. DeliveriesKnow'
  <2> SUFFICES ASSUME NEW e \in Engines
      PROVE  /\ delivery[e].step = "granted" =>
                  leg1'[delivery[e].job] # "none" /\ ~delivery[e].late
             /\ delivery[e].step = "found" => (delivery[e].late => delivery[e].job \in resumed)
    BY DEF DeliveriesKnow
  <2>1. delivery[e] \in Deliveries
    BY DEF LegInv, LegTypes
  <2>2. delivery[e].step = "granted" => delivery[e].job \in Jobs
    BY <2>1 DEF Deliveries, Idle
  <2> QED
    BY <2>2 DEF LegInv, DeliveriesKnow
<1> QED
  BY <1>1, <1>2, <1>3 DEF LegInv

\* The trigger seeds the ledger.
LEMMA CallKeeps == ASSUME LegInv, NEW j \in Jobs, Call(j) PROVE LegInv'
<1>1. /\ leg1[j] = "none" /\ leg1' = [leg1 EXCEPT ![j] = "called"]
      /\ ledger' = [ledger EXCEPT ![j] = Seed]
      /\ UNCHANGED <<kind, delivery, resumed>>
  BY DEF Call, legTwoVars
<1>2. leg1' \in [Jobs -> LegSteps] /\ ledger' \in [Jobs -> Ledger]
  BY <1>1, Seeds DEF LegInv, LegTypes, LegSteps
<1>3. ASSUME NEW k \in Jobs
      PROVE  /\ leg1[k] # "none" => leg1'[k] # "none" /\ ledger'[k].leg2 = ledger[k].leg2
             /\ leg1[k] = "none" =>
                  ledger'[k].leg2 <= 9 /\ (leg1'[k] = "none" => ledger'[k].leg2 < 9)
  <2>1. CASE k = j
    BY <1>1, <2>1, Seeds DEF LegInv, LegTypes
  <2>2. CASE k # j
    BY <1>1, <2>2 DEF LegInv, LegTypes, DigitTells
  <2> QED
    BY <2>1, <2>2
<1> QED
  BY <1>1, <1>2, <1>3, LegOneKeeps

\* Leg 1 after its call: the third digit is not touched.
LEMMA RegisterKeeps ==
    ASSUME LegInv, NEW j \in Jobs, leg1[j] # "none",
           UNCHANGED <<kind, delivery, resumed>>,
           NEW l \in Ledger, l.leg2 = ledger[j].leg2, ledger' = [ledger EXCEPT ![j] = l],
           NEW x \in LegSteps, x # "none", leg1' = [leg1 EXCEPT ![j] = x]
    PROVE  LegInv'
<1>1. leg1' \in [Jobs -> LegSteps] /\ ledger' \in [Jobs -> Ledger]
  BY DEF LegInv, LegTypes
<1>2. ASSUME NEW k \in Jobs
      PROVE  /\ leg1[k] # "none" => leg1'[k] # "none" /\ ledger'[k].leg2 = ledger[k].leg2
             /\ leg1[k] = "none" =>
                  ledger'[k].leg2 <= 9 /\ (leg1'[k] = "none" => ledger'[k].leg2 < 9)
  <2>1. CASE k = j
    BY <2>1 DEF LegInv, LegTypes
  <2>2. CASE k # j
    BY <2>2 DEF LegInv, LegTypes, DigitTells
  <2> QED
    BY <2>1, <2>2
<1> QED
  BY <1>1, <1>2, LegOneKeeps

LEMMA PushKeeps ==
    ASSUME LegInv, NEW j \in Jobs, NEW d \in Durations, PushTimeHook(j, d) PROVE LegInv'
<1>1. /\ leg1[j] = "called"
      /\ ledger' = [ledger EXCEPT ![j] = WithLeg1(j)]
      /\ leg1' = [leg1 EXCEPT ![j] = IF AddsSlot(Len(lists'[AwakenTimeSlot(now + d)]))
                                     THEN "pushed" ELSE "listed"]
      /\ UNCHANGED <<kind, delivery, resumed>>
  BY DEF PushTimeHook, EntersLeg1, legTwoVars
<1>2. ledger[j] \in Ledger
  BY DEF LegInv, LegTypes
<1>3. WithLeg1(j) \in Ledger /\ WithLeg1(j).leg2 = ledger[j].leg2
  BY <1>2, Increments DEF WithLeg1
<1>4. PICK x \in {"pushed", "listed"} : leg1' = [leg1 EXCEPT ![j] = x]
  BY <1>1
<1> QED
  BY <1>1, <1>3, <1>4, RegisterKeeps DEF LegSteps

LEMMA SlotKeeps ==
    ASSUME LegInv, NEW j \in Jobs, AddSlot(j) \/ StopRegistration(j) PROVE LegInv'
<1>1. /\ leg1[j] = "pushed"
      /\ UNCHANGED <<kind, ledger, delivery, resumed>>
  BY DEF AddSlot, StopRegistration, legTwoVars
<1>2. PICK x \in {"listed", "stopped"} : leg1' = [leg1 EXCEPT ![j] = x]
  BY DEF AddSlot, StopRegistration
<1>3. ledger[j] \in Ledger /\ ledger' = [ledger EXCEPT ![j] = ledger[j]]
  BY <1>1 DEF LegInv, LegTypes
<1> QED
  BY <1>1, <1>2, <1>3, RegisterKeeps DEF LegSteps

LEMMA SaveLeg1Keeps == ASSUME LegInv, NEW j \in Jobs, SaveLeg1(j) PROVE LegInv'
<1>1. /\ leg1[j] \in {"called", "listed"}
      /\ leg1' = [leg1 EXCEPT ![j] = "open"]
      /\ UNCHANGED <<kind, delivery, resumed>>
  BY DEF SaveLeg1, EntersLeg1, legTwoVars
<1>2. ledger[j] \in Ledger
  BY DEF LegInv, LegTypes
<1>3. PICK m \in {ledger[j], NotarizeEntry(ledger[j])} :
          ledger' = [ledger EXCEPT ![j] = AuthorizeReentry(m)]
  BY <1>2 DEF SaveLeg1, WithLeg1, LegInv, LegTypes
<1>4. m \in Ledger /\ m.leg2 = ledger[j].leg2
  BY <1>2, <1>3, Increments
<1>5. AuthorizeReentry(m) \in Ledger /\ AuthorizeReentry(m).leg2 = ledger[j].leg2
  BY <1>4, Increments
<1> QED
  BY <1>1, <1>3, <1>5, RegisterKeeps DEF LegSteps

\* An engine leaves leg 1 alone; it may close a ledger whose job it resumes, and
\* what it holds of its entry stays true.
LEMMA LegTwoKeeps ==
    ASSUME LegInv, UNCHANGED <<kind, leg1>>,
           NEW e \in Engines, NEW d \in Deliveries, delivery' = [delivery EXCEPT ![e] = d],
           ledger' \in [Jobs -> Ledger], resumed' \subseteq Jobs, resumed \subseteq resumed',
           \A j \in Jobs :
             /\ ledger'[j].leg2 <= ledger[j].leg2
             /\ j \in resumed' \ resumed => ledger'[j].leg2 < 9 /\ leg1[j] # "none",
           d.step = "granted" => leg1[d.job] # "none" /\ ~d.late,
           d.step = "found" => (d.late => d.job \in resumed')
    PROVE  LegInv'
<1>1. LegTypes'
  BY DEF LegInv, LegTypes
<1>2. DigitTells'
  <2> SUFFICES ASSUME NEW j \in Jobs
      PROVE  /\ ledger'[j].leg2 <= 9
             /\ leg1'[j] = "none" => ledger'[j].leg2 < 9
             /\ j \in resumed' => ledger'[j].leg2 < 9 /\ leg1'[j] # "none"
    BY DEF DigitTells
  <2>1. ledger[j].leg2 \in Int /\ ledger'[j].leg2 \in Int
    BY DEF LegInv, LegTypes, Ledger
  <2> QED
    BY <2>1 DEF LegInv, DigitTells
<1>3. DeliveriesKnow'
  <2> SUFFICES ASSUME NEW f \in Engines
      PROVE  /\ delivery'[f].step = "granted" =>
                  leg1'[delivery'[f].job] # "none" /\ ~delivery'[f].late
             /\ delivery'[f].step = "found" =>
                  (delivery'[f].late => delivery'[f].job \in resumed')
    BY DEF DeliveriesKnow
  <2>1. CASE f = e
    BY <2>1 DEF LegInv, LegTypes
  <2>2. CASE f # e
    <3>1. delivery'[f] = delivery[f]
      BY <2>2 DEF LegInv, LegTypes
    <3> QED
      BY <3>1 DEF LegInv, DeliveriesKnow
  <2> QED
    BY <2>1, <2>2
<1> QED
  BY <1>1, <1>2, <1>3 DEF LegInv

\* The ledger of one job is replaced by one whose third digit is not higher.
LEMMA LedgerLowered ==
    ASSUME LegInv, NEW j \in Jobs, NEW l \in Ledger, l.leg2 <= ledger[j].leg2,
           ledger' = [ledger EXCEPT ![j] = l]
    PROVE  /\ ledger' \in [Jobs -> Ledger]
           /\ ledger'[j] = l
           /\ \A k \in Jobs : ledger'[k].leg2 <= ledger[k].leg2
<1>1. ledger' \in [Jobs -> Ledger] /\ ledger'[j] = l
  BY DEF LegInv, LegTypes
<1>2. ASSUME NEW k \in Jobs PROVE ledger'[k].leg2 <= ledger[k].leg2
  <2>1. ledger[k].leg2 \in Int
    BY DEF LegInv, LegTypes, Ledger
  <2> QED
    BY <2>1 DEF LegInv, LegTypes
<1> QED
  BY <1>1, <1>2

LEMMA JobHeld ==
    ASSUME LegInv, NEW e \in Engines, delivery[e].step \in {"found", "granted", "saved"}
    PROVE  /\ delivery[e].job \in Jobs
           /\ delivery[e] \in
                [step : {"found", "granted", "saved"}, job : Jobs, late : BOOLEAN]
           /\ ledger[delivery[e].job] \in Ledger
           /\ ledger[delivery[e].job].leg2 \in Int
  BY DEF LegInv, LegTypes, Deliveries, Idle, Ledger

LEMMA IdleIsOne == Idle \in Deliveries /\ Idle.step = "idle"
  BY DEF Idle, Deliveries

LEMMA LevelDigits ==
    ASSUME LegInv, NEW j \in Jobs PROVE ledger[j] \in Ledger /\ ledger[j].leg2 <= ledger[j].leg2
  BY DEF LegInv, LegTypes, Ledger

LEMMA EngineKeeps ==
    ASSUME LegInv, NEW e \in Engines, EngineStep(e)
    PROVE  LegInv'
<1>1. CASE \E j \in Jobs : IgnoreHook(e, j)
  BY <1>1 DEF IgnoreHook, legVars, legTwoVars, LegInv, LegTypes, DigitTells, DeliveriesKnow
<1>2. ASSUME NEW j \in Jobs, TakeHook(e, j) PROVE LegInv'
  <2>1. PICK d : d = [step |-> "found", job |-> j, late |-> j \in resumed]
    OBVIOUS
  <2>2. /\ d \in Deliveries /\ d.step = "found" /\ d.job = j
        /\ d.late => j \in resumed
    <3>1. (j \in resumed) \in BOOLEAN
      OBVIOUS
    <3>2. d \in [step : {"found", "granted", "saved"}, job : Jobs, late : BOOLEAN]
      BY <2>1, <3>1
    <3>3. d.step = "found" /\ d.job = j /\ d.late = (j \in resumed)
      BY <2>1
    <3> QED
      BY <3>2, <3>3 DEF Deliveries
  <2>3. /\ delivery' = [delivery EXCEPT ![e] = d]
        /\ UNCHANGED <<kind, ledger, leg1, resumed>>
    BY <1>2, <2>1 DEF TakeHook, legVars
  <2>4. ledger' \in [Jobs -> Ledger] /\ resumed' \subseteq Jobs
    BY <2>3 DEF LegInv, LegTypes
  <2> QED
    BY <2>2, <2>3, <2>4, LevelDigits, LegTwoKeeps
<1>3. CASE Reenter(e)
  <2>1. PICK j : j = delivery[e].job
    OBVIOUS
  <2>2. /\ delivery[e].step = "found"
        /\ ledger' = [ledger EXCEPT ![j] = NotarizeReentry(ledger[j])]
        /\ UNCHANGED <<kind, leg1, resumed>>
    BY <1>3, <2>1 DEF Reenter
  <2>3. j \in Jobs /\ ledger[j] \in Ledger /\ ledger[j].leg2 \in Int
    BY <2>1, <2>2, JobHeld
  <2>4. NotarizeReentry(ledger[j]) \in Ledger /\ NotarizeReentry(ledger[j]).leg2 = ledger[j].leg2
    BY <2>3, Increments
  <2>5. /\ ledger' \in [Jobs -> Ledger] /\ ledger'[j] = NotarizeReentry(ledger[j])
        /\ \A k \in Jobs : ledger'[k].leg2 <= ledger[k].leg2
    <3>1. NotarizeReentry(ledger[j]).leg2 <= ledger[j].leg2
      BY <2>3, <2>4
    <3> QED
      BY <2>2, <2>3, <2>4, <3>1, LedgerLowered
  <2>6. resumed' \subseteq Jobs
    BY <2>2 DEF LegInv, LegTypes
  <2>7. CASE ReentryFault(ledger'[j]) = "none"
    <3>1. ~(ledger[j].leg2 < 9)
      BY <2>4, <2>5, <2>7, ReentryGranted
    <3>2. j \notin resumed /\ leg1[j] # "none"
      BY <2>3, <3>1 DEF LegInv, DigitTells
    <3>3. PICK d : d = [delivery[e] EXCEPT !.step = "granted"]
      OBVIOUS
    <3>4. /\ d \in Deliveries /\ d.step = "granted" /\ d.job = j
          /\ d.late = delivery[e].late
      <4>1. delivery[e] \in
              [step : {"found", "granted", "saved"}, job : Jobs, late : BOOLEAN]
        BY <2>2, JobHeld
      <4> QED
        BY <2>1, <3>3, <4>1 DEF Deliveries
    <3>5. delivery' = [delivery EXCEPT ![e] = d]
      BY <1>3, <2>1, <2>7, <3>3 DEF Reenter, LegInv, LegTypes
    <3>6. ~d.late
      BY <2>1, <2>2, <3>2, <3>4 DEF LegInv, DeliveriesKnow
    <3> QED
      BY <2>2, <2>5, <2>6, <3>2, <3>4, <3>5, <3>6, LegTwoKeeps
  <2>8. CASE ReentryFault(ledger'[j]) # "none"
    <3>1. delivery' = [delivery EXCEPT ![e] = Idle]
      BY <1>3, <2>1, <2>8 DEF Reenter
    <3> QED
      BY <2>2, <2>5, <2>6, <3>1, IdleIsOne, LegTwoKeeps
  <2> QED
    BY <2>7, <2>8
<1>4. CASE SaveLeg2(e)
  <2>1. PICK j : j = delivery[e].job
    OBVIOUS
  <2>2. /\ delivery[e].step = "granted"
        /\ ledger' = [ledger EXCEPT ![j] = NotarizeCompletion(ledger[j])]
        /\ resumed' = resumed \cup {j}
        /\ UNCHANGED <<kind, leg1>>
    BY <1>4, <2>1 DEF SaveLeg2
  <2>3. j \in Jobs /\ ledger[j] \in Ledger /\ ledger[j].leg2 \in Int
    BY <2>1, <2>2, JobHeld
  <2>4. NotarizeCompletion(ledger[j]) \in Ledger
        /\ NotarizeCompletion(ledger[j]).leg2 = ledger[j].leg2 - 1
    BY <2>3, Increments
  <2>5. /\ ledger' \in [Jobs -> Ledger] /\ ledger'[j] = NotarizeCompletion(ledger[j])
        /\ \A k \in Jobs : ledger'[k].leg2 <= ledger[k].leg2
    <3>1. NotarizeCompletion(ledger[j]).leg2 <= ledger[j].leg2
      BY <2>3, <2>4
    <3> QED
      BY <2>2, <2>3, <2>4, <3>1, LedgerLowered
  <2>6. resumed' \subseteq Jobs /\ resumed \subseteq resumed'
    BY <2>2, <2>3 DEF LegInv, LegTypes
  <2>7. leg1[j] # "none" /\ ledger'[j].leg2 < 9
    BY <2>1, <2>2, <2>3, <2>4, <2>5 DEF LegInv, DigitTells, DeliveriesKnow
  <2>8. PICK d \in Deliveries :
            d.step \in {"saved", "idle"} /\ delivery' = [delivery EXCEPT ![e] = d]
    <3>1. PICK x : x = [delivery[e] EXCEPT !.step = "saved"]
      OBVIOUS
    <3>2. x \in Deliveries /\ x.step = "saved"
      <4>1. delivery[e] \in
              [step : {"found", "granted", "saved"}, job : Jobs, late : BOOLEAN]
        BY <2>2, JobHeld
      <4> QED
        BY <3>1, <4>1 DEF Deliveries
    <3>3. delivery' = [delivery EXCEPT ![e] = x] \/ delivery' = [delivery EXCEPT ![e] = Idle]
      BY <1>4, <3>1 DEF SaveLeg2, LegInv, LegTypes
    <3> QED
      BY <3>2, <3>3, IdleIsOne
  <2>9. \A k \in resumed' \ resumed : k = j
    BY <2>2
  <2> QED
    BY <2>2, <2>5, <2>6, <2>7, <2>8, <2>9, LegTwoKeeps
<1>5. CASE DeleteSignal(e)
  <2>1. /\ delivery' = [delivery EXCEPT ![e] = Idle]
        /\ UNCHANGED <<kind, ledger, leg1, resumed>>
    BY <1>5 DEF DeleteSignal
  <2>2. ledger' \in [Jobs -> Ledger] /\ resumed' \subseteq Jobs
    BY <2>1 DEF LegInv, LegTypes
  <2> QED
    BY <2>1, <2>2, LevelDigits, IdleIsOne, LegTwoKeeps
<1> QED
  BY <1>1, <1>2, <1>3, <1>4, <1>5 DEF EngineStep

-----------------------------------------------------------------------------
(* The whole next-state relation, for leg 1 and leg 2.                     *)

LEMMA LegInvInitially == ASSUME Init PROVE LegInv
<1>1. /\ kind \in {"sleep", "signal"}
      /\ ledger = [j \in Jobs |-> Absent] /\ leg1 = [j \in Jobs |-> "none"]
      /\ delivery = [e \in Engines |-> Idle] /\ resumed = {}
  BY DEF Init, HookActivityInit
<1>2. LegTypes
  BY <1>1, Seeds, IdleIsOne DEF LegTypes, LegSteps
<1>3. DigitTells
  BY <1>1, Seeds DEF DigitTells
<1>4. DeliveriesKnow
  BY <1>1, IdleIsOne DEF DeliveriesKnow
<1> QED
  BY <1>2, <1>3, <1>4 DEF LegInv

LEMMA LegInvStutters ==
    ASSUME LegInv, UNCHANGED <<kind, ledger, leg1, delivery, resumed>> PROVE LegInv'
  BY DEF LegInv, LegTypes, DigitTells, DeliveriesKnow

\* Pollers, the clock and the drain loops leave activities alone, but for the
\* entries they publish.
LEMMA OthersKeepLegs ==
    ASSUME \/ \E e \in Engines : PollerStep(e) \/ StopPoller(e)
           \/ \E l \in Loops : LoopStep(l)
           \/ \E q \in Queries, facets \in SUBSET Facets : HookAll(q, facets)
           \/ Tick
    PROVE  UNCHANGED <<kind, ledger, leg1, delivery, resumed>>
<1>1. CASE \E e \in Engines : PollerStep(e) \/ StopPoller(e)
  BY <1>1 DEF PollerStep, StopPoller, FindSlot, PopJob, DropSlot, FireTimeHook,
              hookActivityVars, legVars, legTwoVars
<1>2. CASE \E l \in Loops : LoopStep(l)
  BY <1>2 DEF LoopStep, BeginLoop, GetQueue, MoveId, HookId, RemoveItem, RenameBack,
              hookActivityVars, legVars, legTwoVars
<1>3. CASE \E q \in Queries, facets \in SUBSET Facets : HookAll(q, facets)
  BY <1>3 DEF HookAll, hookActivityVars, legVars, legTwoVars
<1>4. CASE Tick
  BY <1>4 DEF Tick, hookActivityVars, legVars, legTwoVars
<1> QED
  BY <1>1, <1>2, <1>3, <1>4

LEMMA LegInvKept == ASSUME LegInv, [Next]_vars PROVE LegInv'
<1>1. ASSUME NEW j \in Jobs, Call(j) PROVE LegInv'
  BY <1>1, CallKeeps
<1>2. ASSUME NEW j \in Jobs, Trigger(j) PROVE LegInv'
  BY <1>1, <1>2 DEF Trigger
<1>3. ASSUME NEW j \in Jobs, NEW m \in Minutes, NEW f \in Facets, TriggerCounted(j, m, f)
      PROVE  LegInv'
  BY <1>1, <1>3 DEF TriggerCounted
<1>4. CASE UNCHANGED vars
  BY <1>4, LegInvStutters DEF vars, hookActivityVars, legVars, legTwoVars
<1>5. ASSUME \/ \E e \in Engines : PollerStep(e) \/ StopPoller(e)
             \/ \E l \in Loops : LoopStep(l)
             \/ \E q \in Queries, facets \in SUBSET Facets : HookAll(q, facets)
             \/ Tick
      PROVE  LegInv'
  BY <1>5, OthersKeepLegs, LegInvStutters
<1> QED
  BY <1>2, <1>3, <1>4, <1>5, PushKeeps, SlotKeeps, SaveLeg1Keeps, EngineKeeps DEF Next

\* A hook that found its signal after leg 2 was saved is never granted, however
\* many engines, callers and drain loops hook the job: the saved completion
\* lowered the digit that the increment of a late delivery reads.
THEOREM LateHooksAreRefused == Spec => []NoLateResume
<1>1. LegInv => NoLateResume
  BY DEF LegInv, DeliveriesKnow, NoLateResume
<1> QED
  BY <1>1, LegInvInitially, LegInvKept, PTL DEF Spec

-----------------------------------------------------------------------------
(* Slots, lists and pollers.                                               *)

\* A slot starts at most Fidelity - 1 ticks before the time it stands for.
LEMMA SlotOfTime ==
    ASSUME NEW t \in Nat
    PROVE  /\ AwakenTimeSlot(t) \in 0..t
           /\ t - AwakenTimeSlot(t) <= Fidelity - 1
<1>1. t \div Fidelity \in Nat
  BY ClockAssumption
<1>2. (t \div Fidelity) * Fidelity \in Nat
  BY <1>1, ClockAssumption
<1>3. (t \div Fidelity) * Fidelity <= t
  BY ClockAssumption
<1>4. t - (t \div Fidelity) * Fidelity <= Fidelity - 1
  BY ClockAssumption
<1> QED
  BY <1>2, <1>3, <1>4 DEF AwakenTimeSlot

LEMMA ListElements ==
    ASSUME TimeTypes, NEW s \in Slots
    PROVE  /\ lists[s] \in Seq(Jobs) /\ Len(lists[s]) \in Nat
           /\ \A i \in 1..Len(lists[s]) : lists[s][i] \in Jobs
  BY DEF TimeTypes

LEMMA TimeInvInitially == ASSUME Init PROVE TimeInv
<1>1. /\ now = 0 /\ wish = [j \in Jobs |-> 0] /\ slot = [j \in Jobs |-> 0]
      /\ lists = [s \in Slots |-> <<>>] /\ slotSet = {}
      /\ poller = [e \in Engines |-> [step |-> "poll", slot |-> 0, job |-> NoJob]]
      /\ pops = [j \in Jobs |-> 0]
  BY DEF Init, TimeInit
<1>2. 0 \in Slots
  BY ClockAssumption DEF Slots
<1>3. [step |-> "poll", slot |-> 0, job |-> NoJob] \in PollerSet
  BY <1>2 DEF PollerSet
<1>4. TimeTypes
  BY <1>1, <1>2, <1>3 DEF TimeTypes
<1>5. ListsKept
  BY <1>1 DEF ListsKept
<1>6. PopsKept
  BY <1>1 DEF PopsKept
<1>7. SlotsRounded
  BY <1>1, SlotOfTime DEF SlotsRounded
<1>8. PollersInTime
  BY <1>1 DEF PollersInTime
<1> QED
  BY <1>4, <1>5, <1>6, <1>7, <1>8 DEF TimeInv

\* Steps of the activities register a job or leave it so.
LEMMA TimeInvStutters ==
    ASSUME TimeInv, UNCHANGED <<now, wish, slot, lists, slotSet, poller, pops>>,
           \A j \in Jobs : Registered(j) => Registered(j)'
    PROVE  TimeInv'
<1>1. TimeTypes'
  BY DEF TimeInv, TimeTypes
<1>2. ListsKept'
  BY ListElements DEF TimeInv, ListsKept
<1>3. PopsKept'
  BY DEF TimeInv, PopsKept
<1>4. SlotsRounded'
  BY DEF TimeInv, SlotsRounded, AwakenTimeSlot
<1>5. PollersInTime'
  BY DEF TimeInv, PollersInTime
<1> QED
  BY <1>1, <1>2, <1>3, <1>4, <1>5 DEF TimeInv

LEMMA PushKeepsTime ==
    ASSUME LegTypes, TimeInv, NEW j \in Jobs, NEW d \in Durations, PushTimeHook(j, d)
    PROVE  TimeInv'
<1>1. PICK t, s : t = now + d /\ s = AwakenTimeSlot(t)
  OBVIOUS
<1>2. /\ leg1[j] = "called" /\ t <= MaxNow
      /\ wish' = [wish EXCEPT ![j] = t] /\ slot' = [slot EXCEPT ![j] = s]
      /\ lists' = [lists EXCEPT ![s] = Append(lists[s], j)]
      /\ UNCHANGED <<now, slotSet, poller, pops>>
  BY <1>1 DEF PushTimeHook, EntersLeg1
<1>3. leg1'[j] \notin {"none", "called"} /\ \A k \in Jobs : k # j => leg1'[k] = leg1[k]
  <2>1. leg1' = [leg1 EXCEPT ![j] = IF AddsSlot(Len(lists'[AwakenTimeSlot(now + d)]))
                                    THEN "pushed" ELSE "listed"]
    BY DEF PushTimeHook
  <2> QED
    BY <2>1 DEF LegTypes
<1>4. t \in Nat /\ s \in Slots /\ s = AwakenTimeSlot(t)
  <2>1. t \in Nat
    BY <1>1, ClockAssumption DEF TimeInv, TimeTypes
  <2>2. s \in 0..t
    BY <1>1, <2>1, SlotOfTime
  <2> QED
    BY <1>1, <1>2, <2>1, <2>2, ClockAssumption DEF Slots
<1>5. lists[s] \in Seq(Jobs) /\ Len(lists[s]) \in Nat
  BY <1>4, ListElements DEF TimeInv
<1>6. ~Registered(j) /\ pops[j] = 0
  BY <1>2 DEF Registered, TimeInv, PopsKept
<1>7. TimeTypes'
  <2>1. Append(lists[s], j) \in Seq(Jobs)
    BY <1>5
  <2> QED
    BY <1>2, <1>4, <2>1 DEF TimeInv, TimeTypes
<1>8. ASSUME NEW k \in Jobs, Registered(k)
      PROVE  k # j /\ leg1'[k] \notin {"none", "called"} /\ slot'[k] = slot[k] /\ pops'[k] = pops[k]
  BY <1>2, <1>3, <1>6, <1>8 DEF Registered, TimeInv, TimeTypes
<1>9. ListsKept'
  <2> SUFFICES ASSUME NEW r \in Slots, NEW i \in 1..Len(lists'[r])
      PROVE  /\ leg1'[lists'[r][i]] \notin {"none", "called"}
             /\ slot'[lists'[r][i]] = r
             /\ pops'[lists'[r][i]] = 0
             /\ \A k \in 1..Len(lists'[r]) : lists'[r][k] = lists'[r][i] => k = i
    BY DEF ListsKept, Registered
  <2>1. \A n \in 1..Len(lists[r]) :
          /\ lists[r][n] \in Jobs /\ lists[r][n] # j
          /\ leg1'[lists[r][n]] \notin {"none", "called"} /\ slot'[lists[r][n]] = r /\ pops'[lists[r][n]] = 0
          /\ \A k \in 1..Len(lists[r]) : lists[r][k] = lists[r][n] => k = n
    BY <1>8, ListElements DEF TimeInv, ListsKept
  <2>2. CASE r # s
    <3>1. lists'[r] = lists[r]
      BY <1>2, <1>4, <2>2 DEF TimeInv, TimeTypes
    <3> QED
      BY <2>1, <3>1
  <2>3. CASE r = s
    <3>1. lists'[r] = Append(lists[s], j)
      BY <1>2, <1>4, <2>3 DEF TimeInv, TimeTypes
    <3>2. /\ Len(lists'[r]) = Len(lists[r]) + 1
          /\ lists'[r][Len(lists[r]) + 1] = j
          /\ \A n \in 1..Len(lists[r]) : lists'[r][n] = lists[r][n]
      BY <1>5, <2>3, <3>1
    <3>3. leg1'[j] \notin {"none", "called"} /\ slot'[j] = s /\ pops'[j] = 0
      BY <1>2, <1>3, <1>4, <1>6 DEF Registered, TimeInv, TimeTypes
    <3>4. PICK n : n \in Nat /\ n = Len(lists[r])
      BY <1>5, <2>3
    <3>5. ASSUME NEW k \in 1..Len(lists'[r]), k # n + 1 PROVE k \in 1..n
      <4>1. Len(lists'[r]) = n + 1
        BY <3>2, <3>4
      <4> QED
        BY <3>4, <3>5, <4>1
    <3>6. CASE i = Len(lists[r]) + 1
      <4>1. lists'[r][i] = j
        BY <3>2, <3>6
      <4>2. leg1'[j] \notin {"none", "called"} /\ slot'[j] = r /\ pops'[j] = 0
        BY <2>3, <3>3
      <4>3. ASSUME NEW k \in 1..Len(lists'[r]), lists'[r][k] = j PROVE k = i
        <5>1. k \notin 1..Len(lists[r])
          BY <2>1, <3>2, <4>3
        <5>2. k = n + 1
          BY <3>4, <3>5, <5>1
        <5> QED
          BY <3>4, <3>6, <5>2
      <4> QED
        BY <4>1, <4>2, <4>3
    <3>7. CASE i # Len(lists[r]) + 1
      <4>1. i \in 1..Len(lists[r])
        BY <3>4, <3>5, <3>7
      <4>2. lists'[r][i] = lists[r][i]
        BY <3>2, <4>1
      <4>3. ASSUME NEW k \in 1..Len(lists'[r]), lists'[r][k] = lists'[r][i] PROVE k = i
        <5>1. lists'[r][k] # j
          BY <2>1, <4>1, <4>2, <4>3
        <5>2. k # n + 1
          BY <3>2, <3>4, <5>1
        <5>3. k \in 1..Len(lists[r])
          BY <3>4, <3>5, <5>2
        <5>4. lists[r][k] = lists[r][i]
          BY <3>2, <4>2, <4>3, <5>3
        <5> QED
          BY <2>1, <4>1, <5>3, <5>4
      <4> QED
        BY <2>1, <4>1, <4>2, <4>3
    <3> QED
      BY <3>6, <3>7
  <2> QED
    BY <2>2, <2>3
<1>10. PopsKept'
  <2> SUFFICES ASSUME NEW k \in Jobs
      PROVE  pops[k] <= 1 /\ (leg1'[k] \in {"none", "called"} => pops[k] = 0)
    BY <1>2 DEF PopsKept, Registered
  <2> QED
    BY <1>8 DEF TimeInv, PopsKept
<1>11. SlotsRounded'
  <2> SUFFICES ASSUME NEW k \in Jobs PROVE slot'[k] = AwakenTimeSlot(wish'[k])
    BY DEF SlotsRounded, AwakenTimeSlot
  <2>1. CASE k = j
    BY <1>2, <1>4, <2>1 DEF TimeInv, TimeTypes
  <2>2. CASE k # j
    BY <1>2, <2>2 DEF TimeInv, TimeTypes, SlotsRounded
  <2> QED
    BY <2>1, <2>2
<1>12. PollersInTime'
  <2> SUFFICES ASSUME NEW e \in Engines
      PROVE  /\ poller[e].step \in {"pop", "fire"} => poller[e].slot <= now
             /\ poller[e].step = "fire" =>
                  poller[e].job \in Jobs /\ slot'[poller[e].job] = poller[e].slot
                  /\ leg1'[poller[e].job] \notin {"none", "called"}
    BY <1>2 DEF PollersInTime, Registered
  <2> QED
    BY <1>8 DEF TimeInv, PollersInTime
<1> QED
  BY <1>7, <1>9, <1>10, <1>11, <1>12 DEF TimeInv

\* A poller moves, lists, clock and jobs stay.
LEMMA PollerMoves ==
    ASSUME TimeInv, UNCHANGED <<now, wish, slot, lists, pops, leg1>>, slotSet' \subseteq Slots,
           NEW e \in Engines, NEW p \in PollerSet, poller' = [poller EXCEPT ![e] = p],
           p.step \in {"pop", "fire"} => p.slot <= now,
           p.step # "fire"
    PROVE  TimeInv'
<1>1. TimeTypes'
  BY DEF TimeInv, TimeTypes
<1>2. ListsKept' /\ PopsKept' /\ SlotsRounded'
  BY DEF TimeInv, ListsKept, PopsKept, SlotsRounded, Registered, AwakenTimeSlot
<1>3. PollersInTime'
  <2> SUFFICES ASSUME NEW f \in Engines
      PROVE  /\ poller'[f].step \in {"pop", "fire"} => poller'[f].slot <= now
             /\ poller'[f].step = "fire" =>
                  poller'[f].job \in Jobs /\ slot[poller'[f].job] = poller'[f].slot
                  /\ Registered(poller'[f].job)
    BY DEF PollersInTime, Registered
  <2>1. CASE f = e
    BY <2>1 DEF TimeInv, TimeTypes
  <2>2. CASE f # e
    <3>1. poller'[f] = poller[f]
      BY <2>2 DEF TimeInv, TimeTypes
    <3> QED
      BY <3>1 DEF TimeInv, PollersInTime
  <2> QED
    BY <2>1, <2>2
<1> QED
  BY <1>1, <1>2, <1>3 DEF TimeInv

LEMMA PollerTyped ==
    ASSUME TimeInv, NEW e \in Engines
    PROVE  poller[e] \in PollerSet /\ poller[e].slot \in Slots /\ poller[e].slot \in Nat
  BY ClockAssumption DEF TimeInv, TimeTypes, PollerSet, Slots

LEMMA FindKeeps == ASSUME TimeInv, NEW e \in Engines, FindSlot(e) PROVE TimeInv'
<1>1. PICK s \in Due(now) : poller' = [poller EXCEPT ![e].step = "pop", ![e].slot = s]
  BY DEF FindSlot
<1>2. s \in Slots /\ s <= now
  BY <1>1 DEF Due, TimeInv, TimeTypes
<1>3. PICK p : p = [poller[e] EXCEPT !.step = "pop", !.slot = s]
  OBVIOUS
<1>4. p \in PollerSet /\ p.step = "pop" /\ p.slot = s
  BY <1>2, <1>3, PollerTyped DEF PollerSet
<1>5. poller' = [poller EXCEPT ![e] = p]
  BY <1>1, <1>3 DEF TimeInv, TimeTypes
<1>6. UNCHANGED <<now, wish, slot, lists, slotSet, pops, leg1>>
  BY DEF FindSlot, clockVars, hookActivityVars, legVars
<1> QED
  BY <1>2, <1>4, <1>5, <1>6, PollerMoves DEF TimeInv, TimeTypes

\* The head of a list is taken: nobody else lists that job any more.
LEMMA PopKeeps == ASSUME TimeInv, NEW e \in Engines, PopJob(e) PROVE TimeInv'
<1>1. PICK s : s = poller[e].slot
  OBVIOUS
<1>2. s \in Slots /\ poller[e].step = "pop" /\ s <= now
  BY <1>1, PollerTyped DEF PopJob, TimeInv, PollersInTime
<1>3. UNCHANGED <<now, wish, slot, slotSet, leg1>>
  BY DEF PopJob, clockVars, hookActivityVars, legVars
<1>4. lists[s] \in Seq(Jobs) /\ Len(lists[s]) \in Nat
  BY <1>2, ListElements DEF TimeInv
<1>5. CASE lists[s] = <<>>
  <2>1. PICK p : p = [poller[e] EXCEPT !.step = "drop"]
    OBVIOUS
  <2>2. p \in PollerSet /\ p.step = "drop"
    BY <2>1, PollerTyped DEF PollerSet
  <2>3. poller' = [poller EXCEPT ![e] = p] /\ UNCHANGED <<lists, pops>>
    BY <1>1, <1>5, <2>1 DEF PopJob, TimeInv, TimeTypes
  <2> QED
    BY <1>3, <2>2, <2>3, PollerMoves DEF TimeInv, TimeTypes
<1>6. CASE lists[s] # <<>>
  <2>1. PICK j : j = Head(lists[s])
    OBVIOUS
  <2>2. /\ j \in Jobs /\ j = lists[s][1] /\ 1 \in 1..Len(lists[s])
        /\ Tail(lists[s]) \in Seq(Jobs) /\ Len(Tail(lists[s])) = Len(lists[s]) - 1
        /\ \A n \in 1..Len(Tail(lists[s])) : Tail(lists[s])[n] = lists[s][n + 1]
    BY <1>4, <1>6, <2>1
  <2>3. /\ poller' = [poller EXCEPT ![e].step = "fire", ![e].job = j]
        /\ lists' = [lists EXCEPT ![s] = Tail(lists[s])]
        /\ pops' = [pops EXCEPT ![j] = pops[j] + 1]
    BY <1>1, <1>6, <2>1 DEF PopJob, Pop
  <2>4. /\ Registered(j) /\ slot[j] = s /\ pops[j] = 0
        /\ \A k \in 1..Len(lists[s]) : lists[s][k] = j => k = 1
    BY <1>2, <2>2 DEF TimeInv, ListsKept
  <2>5. PICK p : p = [poller[e] EXCEPT !.step = "fire", !.job = j]
    OBVIOUS
  <2>6. /\ p \in PollerSet /\ p.step = "fire" /\ p.job = j /\ p.slot = s
        /\ poller' = [poller EXCEPT ![e] = p]
    <3>1. p \in PollerSet /\ p.step = "fire" /\ p.job = j /\ p.slot = s
      BY <1>1, <2>2, <2>5, PollerTyped DEF PollerSet
    <3>2. poller' = [poller EXCEPT ![e] = p]
      BY <2>3, <2>5 DEF TimeInv, TimeTypes
    <3> QED
      BY <3>1, <3>2
  <2>7. TimeTypes'
    <3>1. lists' \in [Slots -> Seq(Jobs)]
      BY <2>2, <2>3 DEF TimeInv, TimeTypes
    <3>2. pops' \in [Jobs -> Nat]
      BY <2>2, <2>3, <2>4 DEF TimeInv, TimeTypes
    <3>3. poller' \in [Engines -> PollerSet]
      BY <2>6 DEF TimeInv, TimeTypes
    <3> QED
      BY <1>3, <3>1, <3>2, <3>3 DEF TimeInv, TimeTypes
  <2>8. ListsKept'
    <3> SUFFICES ASSUME NEW r \in Slots, NEW i \in 1..Len(lists'[r])
        PROVE  /\ leg1[lists'[r][i]] \notin {"none", "called"}
               /\ slot[lists'[r][i]] = r
               /\ pops'[lists'[r][i]] = 0
               /\ \A k \in 1..Len(lists'[r]) : lists'[r][k] = lists'[r][i] => k = i
      BY <1>3 DEF ListsKept, Registered
    <3>1. \A n \in 1..Len(lists[r]) :
            /\ lists[r][n] \in Jobs /\ leg1[lists[r][n]] \notin {"none", "called"}
            /\ slot[lists[r][n]] = r /\ pops[lists[r][n]] = 0
            /\ \A k \in 1..Len(lists[r]) : lists[r][k] = lists[r][n] => k = n
      BY ListElements DEF TimeInv, ListsKept, Registered
    <3>2. CASE r # s
      <4>1. lists'[r] = lists[r]
        BY <1>2, <2>3, <3>2 DEF TimeInv, TimeTypes
      <4>2. lists[r][i] # j
        BY <2>4, <3>1, <3>2, <4>1
      <4>3. pops'[lists[r][i]] = pops[lists[r][i]]
        BY <2>3, <3>1, <4>1, <4>2 DEF TimeInv, TimeTypes
      <4> QED
        BY <3>1, <4>1, <4>3
    <3>3. CASE r = s
      <4>1. lists'[r] = Tail(lists[s])
        BY <1>2, <2>3, <3>3 DEF TimeInv, TimeTypes
      <4>2. i + 1 \in 1..Len(lists[s]) /\ i + 1 # 1 /\ lists'[r][i] = lists[s][i + 1]
        BY <1>4, <2>2, <4>1
      <4>3. lists[s][i + 1] # j
        BY <2>4, <4>2
      <4>4. pops'[lists[s][i + 1]] = pops[lists[s][i + 1]]
        BY <2>3, <3>1, <3>3, <4>2, <4>3 DEF TimeInv, TimeTypes
      <4>5. ASSUME NEW k \in 1..Len(lists'[r]), lists'[r][k] = lists'[r][i]
            PROVE  k = i
        <5>1. k + 1 \in 1..Len(lists[s]) /\ lists'[r][k] = lists[s][k + 1]
          BY <1>4, <2>2, <4>1
        <5>2. k + 1 = i + 1
          BY <3>1, <3>3, <4>2, <4>5, <5>1
        <5>3. k \in Int /\ i \in Int
          OBVIOUS
        <5> QED
          BY <5>2, <5>3
      <4> QED
        BY <3>1, <3>3, <4>2, <4>4, <4>5
    <3> QED
      BY <3>2, <3>3
  <2>9. PopsKept'
    <3> SUFFICES ASSUME NEW k \in Jobs
        PROVE  pops'[k] <= 1 /\ (leg1[k] \in {"none", "called"} => pops'[k] = 0)
      BY <1>3 DEF PopsKept, Registered
    <3>1. CASE k = j
      BY <2>2, <2>3, <2>4, <3>1 DEF TimeInv, TimeTypes, Registered
    <3>2. CASE k # j
      BY <2>3, <3>2 DEF TimeInv, TimeTypes, PopsKept, Registered
    <3> QED
      BY <3>1, <3>2
  <2>10. SlotsRounded'
    BY <1>3 DEF TimeInv, SlotsRounded, AwakenTimeSlot
  <2>11. PollersInTime'
    <3> SUFFICES ASSUME NEW f \in Engines
        PROVE  /\ poller'[f].step \in {"pop", "fire"} => poller'[f].slot <= now
               /\ poller'[f].step = "fire" =>
                    poller'[f].job \in Jobs /\ slot[poller'[f].job] = poller'[f].slot
                    /\ leg1[poller'[f].job] \notin {"none", "called"}
      BY <1>3 DEF PollersInTime, Registered
    <3>1. CASE f = e
      BY <1>2, <2>2, <2>4, <2>6, <3>1 DEF TimeInv, TimeTypes, Registered
    <3>2. CASE f # e
      <4>1. poller'[f] = poller[f]
        BY <2>6, <3>2 DEF TimeInv, TimeTypes
      <4> QED
        BY <4>1 DEF TimeInv, PollersInTime, Registered
    <3> QED
      BY <3>1, <3>2
  <2> QED
    BY <2>7, <2>8, <2>9, <2>10, <2>11 DEF TimeInv
<1> QED
  BY <1>5, <1>6

LEMMA PollerKeeps ==
    ASSUME TimeInv, NEW e \in Engines, PollerStep(e) \/ StopPoller(e) PROVE TimeInv'
<1>1. CASE DropSlot(e)
  <2>1. PICK p : p = [poller[e] EXCEPT !.step = "poll", !.slot = 0]
    OBVIOUS
  <2>2. 0 \in Slots
    BY ClockAssumption DEF Slots
  <2>3. p \in PollerSet /\ p.step = "poll"
    BY <2>1, <2>2, PollerTyped DEF PollerSet
  <2>4. /\ poller' = [poller EXCEPT ![e] = p] /\ slotSet' \subseteq Slots
        /\ UNCHANGED <<now, wish, slot, lists, pops, leg1>>
    BY <1>1, <2>1 DEF DropSlot, clockVars, hookActivityVars, legVars, TimeInv, TimeTypes
  <2> QED
    BY <2>3, <2>4, PollerMoves
<1>2. CASE FireTimeHook(e)
  <2>1. PICK p : p = [poller[e] EXCEPT !.step = "pop", !.job = NoJob]
    OBVIOUS
  <2>2. p \in PollerSet /\ p.step = "pop" /\ p.slot = poller[e].slot
    BY <2>1, PollerTyped DEF PollerSet
  <2>3. /\ poller' = [poller EXCEPT ![e] = p] /\ poller[e].step = "fire"
        /\ UNCHANGED <<now, wish, slot, lists, slotSet, pops, leg1>>
    BY <1>2, <2>1 DEF FireTimeHook, clockVars, legVars, TimeInv, TimeTypes
  <2>4. p.slot <= now /\ slotSet' \subseteq Slots
    BY <2>2, <2>3 DEF TimeInv, TimeTypes, PollersInTime
  <2> QED
    BY <2>2, <2>3, <2>4, PollerMoves
<1>3. CASE StopPoller(e)
  <2>1. PICK p : p = [poller[e] EXCEPT !.step = "dead"]
    OBVIOUS
  <2>2. p \in PollerSet /\ p.step = "dead"
    BY <2>1, PollerTyped DEF PollerSet
  <2>3. /\ poller' = [poller EXCEPT ![e] = p] /\ slotSet' \subseteq Slots
        /\ UNCHANGED <<now, wish, slot, lists, pops, leg1>>
    BY <1>3, <2>1 DEF StopPoller, clockVars, hookActivityVars, legVars, TimeInv, TimeTypes
  <2> QED
    BY <2>2, <2>3, PollerMoves
<1> QED
  BY <1>1, <1>2, <1>3, FindKeeps, PopKeeps DEF PollerStep

LEMMA TickKeeps == ASSUME TimeInv, Tick PROVE TimeInv'
<1>1. /\ now' = now + 1
      /\ UNCHANGED <<wish, slot, lists, slotSet, poller, pops, leg1>>
  BY DEF Tick, hookActivityVars, legVars
<1>2. TimeTypes'
  BY <1>1 DEF TimeInv, TimeTypes
<1>3. ListsKept' /\ PopsKept' /\ SlotsRounded'
  BY <1>1 DEF TimeInv, ListsKept, PopsKept, SlotsRounded, Registered, AwakenTimeSlot
<1>4. PollersInTime'
  <2> SUFFICES ASSUME NEW e \in Engines
      PROVE  /\ poller[e].step \in {"pop", "fire"} => poller[e].slot <= now + 1
             /\ poller[e].step = "fire" =>
                  poller[e].job \in Jobs /\ slot[poller[e].job] = poller[e].slot
                  /\ Registered(poller[e].job)
    BY <1>1 DEF PollersInTime, Registered
  <2>1. poller[e].slot \in Nat /\ now \in Nat
    BY PollerTyped DEF TimeInv, TimeTypes
  <2> QED
    BY <2>1 DEF TimeInv, PollersInTime
<1> QED
  BY <1>2, <1>3, <1>4 DEF TimeInv

\* Activities, triggers and drain loops leave lists and pollers alone.
LEMMA ActivitiesKeepTime ==
    ASSUME LegTypes, TimeInv, UNCHANGED timeVars,
           \/ UNCHANGED leg1
           \/ \E j \in Jobs, x \in LegSteps :
                 /\ leg1' = [leg1 EXCEPT ![j] = x]
                 /\ Registered(j) => x \notin {"none", "called"}
    PROVE  TimeInv'
<1>1. ASSUME NEW k \in Jobs, Registered(k) PROVE leg1'[k] \notin {"none", "called"}
  BY <1>1 DEF LegTypes, Registered
<1> QED
  BY <1>1, TimeInvStutters DEF timeVars, clockVars, Registered

LEMMA TimeInvKept == ASSUME LegInv, TimeInv, [Next]_vars PROVE TimeInv'
<1>1. LegTypes
  BY DEF LegInv
<1>2. ASSUME NEW j \in Jobs, Call(j), UNCHANGED timeVars PROVE TimeInv'
  <2>1. leg1' = [leg1 EXCEPT ![j] = "called"] /\ ~Registered(j) /\ "called" \in LegSteps
    BY <1>2 DEF Call, Registered, LegSteps
  <2> QED
    BY <1>1, <1>2, <2>1, ActivitiesKeepTime
<1>3. ASSUME NEW j \in Jobs,
             \/ Trigger(j) /\ UNCHANGED timeVars
             \/ \E m \in Minutes, f \in Facets : TriggerCounted(j, m, f) /\ UNCHANGED timeVars
      PROVE  TimeInv'
  BY <1>2, <1>3 DEF Trigger, TriggerCounted
<1>4. ASSUME NEW j \in Jobs, NEW d \in Durations, PushTimeHook(j, d) PROVE TimeInv'
  BY <1>1, <1>4, PushKeepsTime
<1>5. ASSUME NEW j \in Jobs, AddSlot(j) \/ StopRegistration(j) PROVE TimeInv'
  <2>1. /\ slotSet' = slotSet \/ slotSet' = slotSet \cup {slot[j]}
        /\ UNCHANGED <<now, wish, slot, lists, poller, pops>>
    BY <1>5 DEF AddSlot, StopRegistration, clockVars
  <2>2. PICK x \in {"listed", "stopped"} : leg1' = [leg1 EXCEPT ![j] = x]
    BY <1>5 DEF AddSlot, StopRegistration
  <2>3. \A k \in Jobs : Registered(k) => leg1'[k] \notin {"none", "called"}
    BY <1>1, <2>2 DEF LegTypes, Registered
  <2>4. TimeTypes'
    BY <2>1 DEF TimeInv, TimeTypes
  <2>5. ListsKept' /\ PopsKept' /\ SlotsRounded'
    BY <2>1, <2>3, ListElements
    DEF TimeInv, ListsKept, PopsKept, SlotsRounded, Registered, AwakenTimeSlot
  <2>6. PollersInTime'
    BY <2>1, <2>3 DEF TimeInv, PollersInTime, Registered
  <2> QED
    BY <2>4, <2>5, <2>6 DEF TimeInv
<1>6. ASSUME NEW j \in Jobs, SaveLeg1(j), UNCHANGED timeVars PROVE TimeInv'
  <2>1. leg1' = [leg1 EXCEPT ![j] = "open"] /\ "open" \in LegSteps
    BY <1>6 DEF SaveLeg1, LegSteps
  <2> QED
    BY <1>1, <1>6, <2>1, ActivitiesKeepTime
<1>7. ASSUME NEW e \in Engines, EngineStep(e), UNCHANGED timeVars PROVE TimeInv'
  <2>1. UNCHANGED leg1
    BY <1>7 DEF EngineStep, IgnoreHook, TakeHook, Reenter, SaveLeg2, DeleteSignal, legVars
  <2> QED
    BY <1>1, <1>7, <2>1, ActivitiesKeepTime
<1>8. ASSUME NEW e \in Engines, PollerStep(e) \/ StopPoller(e) PROVE TimeInv'
  BY <1>8, PollerKeeps
<1>9. ASSUME \/ \E l \in Loops : LoopStep(l)
             \/ \E q \in Queries, facets \in SUBSET Facets : HookAll(q, facets),
             UNCHANGED timeVars
      PROVE  TimeInv'
  BY <1>1, <1>9, OthersKeepLegs, ActivitiesKeepTime
<1>10. CASE Tick
  BY <1>10, TickKeeps
<1>11. CASE UNCHANGED vars
  <2>1. UNCHANGED timeVars /\ UNCHANGED leg1
    BY <1>11 DEF vars, hookActivityVars, legVars
  <2> QED
    BY <1>1, <2>1, ActivitiesKeepTime
<1> QED
  BY <1>3, <1>4, <1>5, <1>6, <1>7, <1>8, <1>9, <1>10, <1>11 DEF Next

\* A poller that publishes a hook holds a job of a slot that has come, and no
\* slot starts Fidelity ticks or more before the times it stands for.
THEOREM HooksAreNotEarly == Spec => []HookNotEarly
<1>1. TimeInv => HookNotEarly
  <2> SUFFICES ASSUME TimeInv, NEW e \in Engines, poller[e].step = "fire"
      PROVE  now >= wish[poller[e].job] - (Fidelity - 1)
    BY DEF HookNotEarly
  <2>1. PICK j : j = poller[e].job
    OBVIOUS
  <2>2. /\ j \in Jobs /\ wish[j] \in Nat /\ poller[e].slot \in Nat /\ now \in Nat
        /\ AwakenTimeSlot(wish[j]) = poller[e].slot /\ poller[e].slot <= now
    BY <2>1, PollerTyped DEF TimeInv, TimeTypes, PollersInTime, SlotsRounded
  <2>3. wish[j] - AwakenTimeSlot(wish[j]) <= Fidelity - 1
    BY <2>2, SlotOfTime
  <2> QED
    BY <2>1, <2>2, <2>3, ClockAssumption
<1> QED
  BY <1>1, LegInvInitially, TimeInvInitially, LegInvKept, TimeInvKept, PTL DEF Spec

\* A job stands in one list, once, until one poller takes it.
THEOREM JobsAreTakenOnce == Spec => []TakenOnce
<1>1. TimeInv => TakenOnce
  <2> SUFFICES ASSUME TimeInv, NEW j \in Jobs
      PROVE  Cardinality({i \in 1..Len(lists[slot[j]]) : lists[slot[j]][i] = j}) + pops[j] <= 1
    BY DEF TakenOnce
  <2>1. slot[j] \in Slots /\ pops[j] \in Nat /\ pops[j] <= 1
    BY DEF TimeInv, TimeTypes, PopsKept
  <2>2. CASE \E i \in 1..Len(lists[slot[j]]) : lists[slot[j]][i] = j
    <3>1. PICK i \in 1..Len(lists[slot[j]]) : lists[slot[j]][i] = j
      BY <2>2
    <3>2. pops[j] = 0 /\ {k \in 1..Len(lists[slot[j]]) : lists[slot[j]][k] = j} = {i}
      BY <2>1, <3>1 DEF TimeInv, ListsKept
    <3>3. Cardinality({i}) = 1
      BY FS_Singleton
    <3>4. Cardinality({k \in 1..Len(lists[slot[j]]) : lists[slot[j]][k] = j}) = 1
      BY <3>2, <3>3
    <3> QED
      BY <3>2, <3>4
  <2>3. CASE ~ \E i \in 1..Len(lists[slot[j]]) : lists[slot[j]][i] = j
    <3>1. {k \in 1..Len(lists[slot[j]]) : lists[slot[j]][k] = j} = {}
      BY <2>3
    <3>2. Cardinality({k \in 1..Len(lists[slot[j]]) : lists[slot[j]][k] = j}) = 0
      BY <3>1, FS_EmptySet
    <3> QED
      BY <2>1, <3>2
  <2> QED
    BY <2>2, <2>3
<1> QED
  BY <1>1, LegInvInitially, TimeInvInitially, LegInvKept, TimeInvKept, PTL DEF Spec
-----------------------------------------------------------------------------
(* The index lists.  All of it is about lists as sets of ids that stand in  *)
(* them once; what happens between two round trips of a drain is in the     *)
(* last two parts, which hold until hookAll is called a second time.        *)

LoopSteps == {"rest", "woken", "get", "move", "hook", "remove", "rename"}

LoopStates == [step : LoopSteps, item : Lists \cup {NoItem}, job : Jobs \cup {""}]

IndexTypes ==
    /\ created \in [Jobs -> [minute : Minutes \cup {-1}, facet : Facets \cup {""}]]
    /\ index \in [Lists -> Seq(Jobs)]
    /\ processed \in [Lists -> Seq(Jobs)]
    /\ queue \in Seq(Lists)
    /\ cached \in [Engines -> Lists \cup {NoItem}]
    /\ loop \in [Loops -> LoopStates]
    /\ targets \subseteq Jobs
    /\ hookAlls \in Nat

Of(j, k) == created[j].facet = k[1] /\ TimeSeries(created[j].minute) = k[2]

\* The lists hold jobs that were triggered with their facet and slice, each once.
OwnLists ==
    \A k \in Lists :
      /\ \A j \in Ids(index[k]) \cup Ids(processed[k]) : Of(j, k) /\ leg1[j] # "none"
      /\ IsInjective(index[k]) /\ IsInjective(processed[k])
      /\ Ids(index[k]) \cap Ids(processed[k]) = {}

AtWork(w) == loop[w].step \notin {"rest", "woken", "get"}

LoopsKnow ==
    /\ IsInjective(queue)
    /\ \A w \in Loops : AtWork(w) => loop[w].item \in Lists
    /\ \A j \in targets : leg1[j] # "none"

BeforeHookAll ==
    /\ queue = <<>> /\ targets = {}
    /\ \A w \in Loops : loop[w].step = "rest"

\* Who found a list empty, and is or may still be the one to remove its item,
\* finds every id that is to be kept in the processed list.
Emptied(w) ==
    \/ loop[w].step = "remove" /\ loop[w].item \in Ids(queue)
    \/ loop[w].step = "rename"

AfterOneHookAll ==
    /\ \A j \in targets, k \in Lists :
          Of(j, k) => j \in Ids(index[k]) \cup Ids(processed[k])
    /\ \A w \in Loops : Emptied(w) =>
          \A j \in targets : Of(j, loop[w].item) => j \in Ids(processed[loop[w].item])
    /\ \A w \in Loops : loop[w].step = "rename" =>
          /\ loop[w].item \notin Ids(queue)
          /\ \A f \in Loops \ {w} : loop[f].step = "rename" => loop[f].item # loop[w].item

IndexInv ==
    /\ IndexTypes /\ OwnLists /\ LoopsKnow
    /\ hookAlls = 0 => BeforeHookAll
    /\ hookAlls <= 1 => AfterOneHookAll


LEMMA EmptyList == Ids(<<>>) = {} /\ IsInjective(<<>>)
<1>1. DOMAIN <<>> = {}
  OBVIOUS
<1> QED
  BY <1>1 DEF Ids, ToSet, IsInjective

LEMMA ListOf ==
    ASSUME NEW S, NEW s \in Seq(S)
    PROVE  /\ Len(s) \in Nat /\ DOMAIN s = 1..Len(s)
           /\ Ids(s) = {s[i] : i \in 1..Len(s)} /\ Ids(s) \subseteq S
  BY DEF Ids, ToSet

LEMMA AppendList ==
    ASSUME NEW S, NEW s \in Seq(S), NEW x \in S
    PROVE  /\ Append(s, x) \in Seq(S) /\ Ids(Append(s, x)) = Ids(s) \cup {x}
           /\ (IsInjective(s) /\ x \notin Ids(s)) => IsInjective(Append(s, x))
<1>1. PICK t : t = Append(s, x)
  OBVIOUS
<1>2. /\ t \in Seq(S) /\ Len(t) = Len(s) + 1 /\ t[Len(s) + 1] = x
      /\ \A i \in 1..Len(s) : t[i] = s[i]
  BY <1>1, AppendProperties
<1>3. PICK n \in Nat : n = Len(s)
  BY ListOf
<1>4. /\ DOMAIN t = 1..(n + 1) /\ DOMAIN s = 1..n
      /\ Ids(t) = {t[i] : i \in 1..(n + 1)} /\ Ids(s) = {s[i] : i \in 1..n}
  BY <1>2, <1>3, ListOf
<1>5. 1..(n + 1) = 1..n \cup {n + 1} /\ n + 1 \notin 1..n
  OBVIOUS
<1>6. t[n + 1] = x /\ \A i \in 1..n : t[i] = s[i]
  BY <1>2, <1>3
<1>7. Ids(t) = Ids(s) \cup {x}
  BY <1>4, <1>5, <1>6
<1>8. ASSUME IsInjective(s), x \notin Ids(s) PROVE IsInjective(t)
  <2>1. \A i \in 1..n : t[i] # x
    BY <1>4, <1>6, <1>8
  <2>2. \A i, k \in 1..n : t[i] = t[k] => i = k
    BY <1>4, <1>6, <1>8 DEF IsInjective
  <2> QED
    BY <1>4, <1>5, <1>6, <2>1, <2>2 DEF IsInjective
<1> QED
  BY <1>1, <1>2, <1>7, <1>8

LEMMA TailList ==
    ASSUME NEW S, NEW s \in Seq(S), s # <<>>
    PROVE  /\ Head(s) \in S /\ Tail(s) \in Seq(S) /\ Ids(s) = Ids(Tail(s)) \cup {Head(s)}
           /\ IsInjective(s) => (IsInjective(Tail(s)) /\ Head(s) \notin Ids(Tail(s)))
<1>1. PICK t, x : t = Tail(s) /\ x = Head(s)
  OBVIOUS
<1>2. /\ x \in S /\ x = s[1] /\ t \in Seq(S) /\ Len(t) = Len(s) - 1
      /\ \A i \in 1..Len(t) : t[i] = s[i + 1]
  BY <1>1, HeadTailProperties
<1>3. PICK n \in Nat : n = Len(t)
  BY <1>2, ListOf
<1>4. Len(s) = n + 1
  BY <1>2, <1>3, ListOf
<1>5. /\ DOMAIN s = 1..(n + 1) /\ DOMAIN t = 1..n
      /\ Ids(s) = {s[i] : i \in 1..(n + 1)} /\ Ids(t) = {t[i] : i \in 1..n}
  BY <1>2, <1>3, <1>4, ListOf
<1>6. \A i \in 1..n : t[i] = s[i + 1] /\ i + 1 \in 1..(n + 1) /\ i + 1 # 1
  BY <1>2, <1>3
<1>7. 1 \in 1..(n + 1) /\ \A i \in 1..(n + 1) : i = 1 \/ (i - 1 \in 1..n /\ i = (i - 1) + 1)
  OBVIOUS
<1>8. Ids(s) \subseteq Ids(t) \cup {x}
  <2> SUFFICES ASSUME NEW i \in 1..(n + 1) PROVE s[i] = x \/ s[i] \in Ids(t)
    BY <1>5
  <2>1. CASE i = 1
    BY <1>2, <2>1
  <2>2. CASE i # 1
    <3>1. PICK k : k = i - 1 /\ k \in 1..n /\ i = k + 1
      BY <1>7, <2>2
    <3>2. t[k] = s[i]
      BY <1>6, <3>1
    <3> QED
      BY <1>5, <3>1, <3>2
  <2> QED
    BY <2>1, <2>2
<1>9. Ids(t) \cup {x} \subseteq Ids(s)
  BY <1>2, <1>5, <1>6, <1>7
<1>10. ASSUME IsInjective(s) PROVE IsInjective(t) /\ x \notin Ids(t)
  <2>1. \A i, k \in 1..(n + 1) : s[i] = s[k] => i = k
    BY <1>5, <1>10 DEF IsInjective
  <2>2. \A i, k \in 1..n : i + 1 = k + 1 => i = k
    OBVIOUS
  <2>3. \A i, k \in 1..n : t[i] = t[k] => i = k
    BY <1>6, <2>1, <2>2
  <2>4. \A i \in 1..n : t[i] # x
    BY <1>2, <1>6, <1>7, <2>1
  <2> QED
    BY <1>5, <2>3, <2>4 DEF IsInjective
<1> QED
  BY <1>1, <1>2, <1>8, <1>9, <1>10

LEMMA ConcatList ==
    ASSUME NEW S, NEW s \in Seq(S), NEW t \in Seq(S)
    PROVE  /\ Ids(s \o t) = Ids(s) \cup Ids(t)
           /\ (IsInjective(s) /\ IsInjective(t) /\ Ids(s) \cap Ids(t) = {})
              => IsInjective(s \o t)
<1>1. PICK u : u = s \o t
  OBVIOUS
<1>2. PICK m, n \in Nat : m = Len(s) /\ n = Len(t)
  BY ListOf
<1>3. /\ u \in Seq(S) /\ Len(u) = m + n
      /\ \A i \in 1..(m + n) : u[i] = IF i <= m THEN s[i] ELSE t[i - m]
  BY <1>1, <1>2, ConcatProperties
<1>4. /\ DOMAIN u = 1..(m + n) /\ DOMAIN s = 1..m /\ DOMAIN t = 1..n
      /\ Ids(u) = {u[i] : i \in 1..(m + n)} /\ Ids(s) = {s[i] : i \in 1..m}
      /\ Ids(t) = {t[i] : i \in 1..n}
  BY <1>2, <1>3, ListOf
<1>5. \A i \in 1..(m + n) :
         (i \in 1..m /\ u[i] = s[i]) \/ (i - m \in 1..n /\ i > m /\ u[i] = t[i - m])
  BY <1>3
<1>6. \A i \in 1..m : i \in 1..(m + n) /\ u[i] = s[i]
  BY <1>3
<1>7. \A i \in 1..n : m + i \in 1..(m + n) /\ u[m + i] = t[i]
  <2>1. \A i \in 1..n : m + i \in 1..(m + n) /\ ~(m + i <= m) /\ ((m + i) - m = i)
    OBVIOUS
  <2> QED
    BY <1>3, <2>1
<1>8. Ids(u) = Ids(s) \cup Ids(t)
  BY <1>4, <1>5, <1>6, <1>7
<1>9. ASSUME IsInjective(s), IsInjective(t), Ids(s) \cap Ids(t) = {} PROVE IsInjective(u)
  <2> SUFFICES ASSUME NEW i \in 1..(m + n), NEW k \in 1..(m + n), u[i] = u[k] PROVE i = k
    BY <1>4 DEF IsInjective
  <2>1. \A a, b \in 1..m : s[a] = s[b] => a = b
    BY <1>4, <1>9 DEF IsInjective
  <2>2. \A a, b \in 1..n : t[a] = t[b] => a = b
    BY <1>4, <1>9 DEF IsInjective
  <2>3. \A a \in 1..m, b \in 1..n : s[a] # t[b]
    BY <1>4, <1>9
  <2>4. i - m = k - m => i = k
    OBVIOUS
  <2> QED
    BY <1>5, <2>1, <2>2, <2>3, <2>4
<1> QED
  BY <1>1, <1>8, <1>9

LEMMA RemoveList ==
    ASSUME NEW S, NEW s \in Seq(S), IsInjective(s), NEW x
    PROVE  /\ RemoveFirst(s, x) \in Seq(S) /\ IsInjective(RemoveFirst(s, x))
           /\ Ids(RemoveFirst(s, x)) = Ids(s) \ {x}
<1>1. PICK n \in Nat : n = Len(s) /\ DOMAIN s = 1..n /\ Ids(s) = {s[i] : i \in 1..n}
  BY ListOf
<1>2. \A i, k \in 1..n : s[i] = s[k] => i = k
  BY <1>1 DEF IsInjective
<1>3. CASE ~ \E i \in 1..n : s[i] = x
  <2>1. RemoveFirst(s, x) = s
    BY <1>1, <1>3 DEF RemoveFirst
  <2> QED
    BY <1>1, <1>3, <2>1
<1>4. CASE \E i \in 1..n : s[i] = x
  <2>1. PICK p \in 1..n : s[p] = x
    BY <1>4
  <2>2. {i \in 1..n : s[i] = x} = {p}
    BY <1>2, <2>1
  <2>3. Min({p}) = p
    BY DEF Min
  <2>4. SelectInSeq(s, LAMBDA v : v = x) = p
    BY <1>1, <2>2, <2>3 DEF SelectInSeq
  <2>5. PICK a, b, t : a = SubSeq(s, 1, p - 1) /\ b = SubSeq(s, p + 1, n) /\ t = a \o b
    OBVIOUS
  <2>6. RemoveFirst(s, x) = t
    BY <1>1, <1>4, <2>4, <2>5 DEF RemoveFirst, RemoveAt
  <2>7. a \in Seq(S) /\ Len(a) = p - 1 /\ \A i \in 1..(p - 1) : a[i] = s[i]
    BY <1>1, <2>5, SubSeqProperties
  <2>8. b \in Seq(S) /\ Len(b) = n - p /\ \A i \in 1..(n - p) : b[i] = s[p + i]
    <3>1. p + 1 \in 1..(n + 1) /\ n \in p..n /\ (n - (p + 1)) + 1 = n - p
      OBVIOUS
    <3>2. Len(b) = n - p /\ b \in Seq(S)
      BY <1>1, <2>5, <3>1, SubSeqProperties
    <3>3. \A i \in 1..(n - p) : b[i] = s[(p + 1) + i - 1]
      BY <1>1, <2>5, <3>1, <3>2, SubSeqProperties
    <3>4. \A i \in 1..(n - p) : (p + 1) + i - 1 = p + i
      OBVIOUS
    <3> QED
      BY <3>2, <3>3, <3>4
  <2>9. Ids(a) = {s[i] : i \in 1..(p - 1)}
    <3>1. Ids(a) = {a[i] : i \in 1..(p - 1)}
      BY <2>7, ListOf
    <3> QED
      BY <2>7, <3>1
  <2>10. Ids(b) = {s[i] : i \in (p + 1)..n}
    <3>1. Ids(b) = {b[i] : i \in 1..(n - p)}
      BY <2>8, ListOf
    <3>2. \A i \in 1..(n - p) : p + i \in (p + 1)..n
      OBVIOUS
    <3>3. \A i \in (p + 1)..n : i - p \in 1..(n - p) /\ p + (i - p) = i
      OBVIOUS
    <3>4. ASSUME NEW i \in (p + 1)..n PROVE s[i] \in Ids(b)
      <4>1. PICK k \in 1..(n - p) : p + k = i
        BY <3>3
      <4>2. b[k] = s[i]
        BY <2>8, <4>1
      <4> QED
        BY <3>1, <4>2
    <3>5. ASSUME NEW i \in 1..(n - p) PROVE \E k \in (p + 1)..n : b[i] = s[k]
      <4>1. PICK k : k = p + i /\ k \in (p + 1)..n
        BY <3>2
      <4>2. b[i] = s[k]
        BY <2>8, <4>1
      <4> QED
        BY <4>1, <4>2
    <3>6. {b[i] : i \in 1..(n - p)} \subseteq {s[k] : k \in (p + 1)..n}
      BY <3>5
    <3>7. {s[k] : k \in (p + 1)..n} \subseteq Ids(b)
      BY <3>4
    <3> QED
      BY <3>1, <3>6, <3>7
  <2>11. IsInjective(a)
    <3>1. DOMAIN a = 1..(p - 1) /\ \A i \in 1..(p - 1) : i \in 1..n
      BY <2>7, ListOf
    <3> QED
      BY <1>2, <2>7, <3>1 DEF IsInjective
  <2>12. IsInjective(b)
    <3>1. DOMAIN b = 1..(n - p)
      BY <2>8, ListOf
    <3>2. \A i \in 1..(n - p) : p + i \in 1..n
      OBVIOUS
    <3>3. \A i, k \in 1..(n - p) : p + i = p + k => i = k
      OBVIOUS
    <3> QED
      BY <1>2, <2>8, <3>1, <3>2, <3>3 DEF IsInjective
  <2>13. \A i \in 1..(p - 1), k \in (p + 1)..n : i \in 1..n /\ k \in 1..n /\ i # k
    OBVIOUS
  <2>14. Ids(a) \cap Ids(b) = {}
    BY <1>2, <2>9, <2>10, <2>13
  <2>15. \A i \in 1..n : i \in 1..(p - 1) \/ i = p \/ i \in (p + 1)..n
    OBVIOUS
  <2>16. p \notin 1..(p - 1) /\ p \notin (p + 1)..n
    OBVIOUS
  <2>17. Ids(a) \cup Ids(b) = Ids(s) \ {x}
    BY <1>1, <1>2, <2>1, <2>9, <2>10, <2>13, <2>15, <2>16
  <2>18. t \in Seq(S)
    BY <2>5, <2>7, <2>8, ConcatProperties
  <2>19. Ids(t) = Ids(a) \cup Ids(b) /\ IsInjective(t)
    <3>1. a \in Seq(S) /\ b \in Seq(S) /\ t = a \o b
      BY <2>5, <2>7, <2>8
    <3> QED
      BY <2>11, <2>12, <2>14, <3>1, ConcatList
  <2> QED
    BY <2>6, <2>17, <2>18, <2>19
<1> QED
  BY <1>3, <1>4

LEMMA SetInList ==
    ASSUME NEW S, IsFiniteSet(S)
    PROVE  SetToSeq(S) \in Seq(S) /\ IsInjective(SetToSeq(S))
<1>1. Cardinality(S) \in Nat /\ ExistsBijection(1..Cardinality(S), S)
  BY FS_CardinalityType
<1>2. PICK g : g \in Bijection(1..Cardinality(S), S)
  BY <1>1 DEF ExistsBijection
<1>3. g \in [1..Cardinality(S) -> S] /\ IsInjective(g)
  BY <1>2 DEF Bijection, Injection
<1>4. PICK f : f = SetToSeq(S)
  OBVIOUS
<1>5. f \in [1..Cardinality(S) -> S] /\ IsInjective(f)
  BY <1>3, <1>4 DEF SetToSeq
<1>6. f \in Seq(S)
  BY <1>1, <1>5, SeqDef
<1> QED
  BY <1>4, <1>5, <1>6
-----------------------------------------------------------------------------

LEMMA IndexTyped ==
    ASSUME IndexTypes, NEW k \in Lists
    PROVE  /\ index[k] \in Seq(Jobs) /\ processed[k] \in Seq(Jobs)
           /\ Ids(index[k]) \subseteq Jobs /\ Ids(processed[k]) \subseteq Jobs
  BY ListOf DEF IndexTypes

LEMMA IndexInvInitially == ASSUME Init PROVE IndexInv
<1>1. /\ created = [j \in Jobs |-> NotYet]
      /\ index = [k \in Lists |-> <<>>] /\ processed = [k \in Lists |-> <<>>]
      /\ queue = <<>> /\ cached = [e \in Engines |-> NoItem]
      /\ loop = [w \in Loops |-> AtRest] /\ targets = {} /\ hookAlls = 0
  BY DEF Init, TaskInit
<1>2. NotYet \in [minute : Minutes \cup {-1}, facet : Facets \cup {""}]
  BY DEF NotYet
<1>3. AtRest \in LoopStates /\ AtRest.step = "rest"
  BY DEF AtRest, LoopStates, LoopSteps
<1>4. IndexTypes
  <2>1. \A S : <<>> \in Seq(S)
    OBVIOUS
  <2>2. index \in [Lists -> Seq(Jobs)] /\ processed \in [Lists -> Seq(Jobs)] /\ queue \in Seq(Lists)
    BY <1>1, <2>1
  <2>3. created \in [Jobs -> [minute : Minutes \cup {-1}, facet : Facets \cup {""}]]
    BY <1>1, <1>2
  <2>4. loop \in [Loops -> LoopStates]
    BY <1>1, <1>3
  <2>5. cached \in [Engines -> Lists \cup {NoItem}] /\ targets \subseteq Jobs /\ hookAlls \in Nat
    BY <1>1
  <2> QED
    BY <2>2, <2>3, <2>4, <2>5 DEF IndexTypes
<1>5. OwnLists
  <2> SUFFICES ASSUME NEW k \in Lists
      PROVE /\ \A j \in Ids(index[k]) \cup Ids(processed[k]) : Of(j, k) /\ leg1[j] # "none"
            /\ IsInjective(index[k]) /\ IsInjective(processed[k])
            /\ Ids(index[k]) \cap Ids(processed[k]) = {}
    BY DEF OwnLists
  <2>1. index[k] = <<>> /\ processed[k] = <<>>
    BY <1>1
  <2> QED
    BY <2>1, EmptyList
<1>6. \A w \in Loops : loop[w].step = "rest"
  BY <1>1, <1>3
<1>7. LoopsKnow
  BY <1>1, <1>6, EmptyList DEF LoopsKnow, AtWork
<1>8. BeforeHookAll
  BY <1>1, <1>6 DEF BeforeHookAll
<1>9. AfterOneHookAll
  BY <1>1, <1>6 DEF AfterOneHookAll, Emptied
<1> QED
  BY <1>4, <1>5, <1>7, <1>8, <1>9 DEF IndexInv

\* What leaves the lists and loops alone: leg 1 never goes back to where it began.
LEMMA IndexStutters ==
    ASSUME IndexInv, UNCHANGED <<created, index, processed, queue, cached, loop, targets, hookAlls>>,
           \A j \in Jobs : leg1[j] # "none" => leg1'[j] # "none"
    PROVE  IndexInv'
<1>1. IndexTypes'
  BY DEF IndexInv, IndexTypes
<1>2. OwnLists'
  BY IndexTyped DEF IndexInv, OwnLists, Of
<1>3. LoopsKnow'
  BY DEF IndexInv, IndexTypes, LoopsKnow, AtWork
<1>4. (hookAlls = 0 => BeforeHookAll)'
  BY DEF IndexInv, BeforeHookAll
<1>5. (hookAlls <= 1 => AfterOneHookAll)'
  BY DEF IndexInv, AfterOneHookAll, Emptied, Of
<1> QED
  BY <1>1, <1>2, <1>3, <1>4, <1>5 DEF IndexInv

LEMMA TriggerKeepsIndex ==
    ASSUME LegTypes, IndexInv, NEW j \in Jobs, NEW m \in Minutes, NEW f \in Facets,
           TriggerCounted(j, m, f)
    PROVE  IndexInv'
<1>1. PICK k : k = <<f, TimeSeries(m)>>
  OBVIOUS
<1>2. k \in Lists /\ k[1] = f /\ k[2] = TimeSeries(m)
  BY <1>1 DEF Lists, Slices
<1>3. /\ leg1[j] = "none" /\ leg1' = [leg1 EXCEPT ![j] = "called"]
      /\ created' = [created EXCEPT ![j] = [minute |-> m, facet |-> f]]
      /\ index' = [index EXCEPT ![k] = Append(index[k], j)]
      /\ UNCHANGED <<processed, queue, cached, loop, targets, hookAlls>>
  BY <1>1 DEF TriggerCounted, Call, SetStats, drainVars
<1>4. IndexTypes /\ OwnLists /\ LoopsKnow
  BY DEF IndexInv
<1>5. /\ j \notin targets
      /\ \A l \in Lists : j \notin Ids(index[l]) /\ j \notin Ids(processed[l])
  BY <1>3, <1>4 DEF OwnLists, LoopsKnow
<1>6. /\ \A i \in Jobs \ {j}, l \in Lists : Of(i, l)' <=> Of(i, l)
      /\ Of(j, k)'
  <2>1. created'[j] = [minute |-> m, facet |-> f] /\ \A i \in Jobs \ {j} : created'[i] = created[i]
    BY <1>3, <1>4 DEF IndexTypes
  <2> QED
    BY <1>2, <2>1 DEF Of
<1>7. /\ index'[k] = Append(index[k], j) /\ index'[k] \in Seq(Jobs)
      /\ Ids(index'[k]) = Ids(index[k]) \cup {j} /\ IsInjective(index'[k])
      /\ \A l \in Lists \ {k} : index'[l] = index[l]
  <2>1. index'[k] = Append(index[k], j) /\ \A l \in Lists \ {k} : index'[l] = index[l]
    BY <1>2, <1>3, <1>4 DEF IndexTypes
  <2>2. index[k] \in Seq(Jobs) /\ IsInjective(index[k]) /\ j \notin Ids(index[k])
    BY <1>2, <1>4, <1>5, IndexTyped DEF OwnLists
  <2> QED
    BY <2>1, <2>2, AppendList
<1>8. /\ leg1'[j] # "none"
      /\ \A i \in Jobs : leg1[i] # "none" => leg1'[i] # "none"
  BY <1>3 DEF LegTypes
<1>9. IndexTypes'
  <2>1. created' \in [Jobs -> [minute : Minutes \cup {-1}, facet : Facets \cup {""}]]
    <3>1. PICK r : r = [minute |-> m, facet |-> f]
      OBVIOUS
    <3>2. r \in [minute : Minutes \cup {-1}, facet : Facets \cup {""}]
      BY <3>1
    <3>3. created' = [created EXCEPT ![j] = r]
      BY <1>3, <3>1
    <3> QED
      BY <1>4, <3>2, <3>3 DEF IndexTypes
  <2>2. index' \in [Lists -> Seq(Jobs)]
    BY <1>2, <1>3, <1>4, <1>7 DEF IndexTypes
  <2> QED
    BY <1>3, <1>4, <2>1, <2>2 DEF IndexTypes
<1>10. OwnLists'
  <2> SUFFICES ASSUME NEW l \in Lists
      PROVE /\ \A i \in Ids(index'[l]) \cup Ids(processed'[l]) : Of(i, l)' /\ leg1'[i] # "none"
            /\ IsInjective(index'[l]) /\ IsInjective(processed'[l])
            /\ Ids(index'[l]) \cap Ids(processed'[l]) = {}
    BY DEF OwnLists
  <2>1. /\ \A i \in Ids(index[l]) \cup Ids(processed[l]) :
             /\ i \in Jobs /\ i # j
             /\ Of(i, l) /\ leg1[i] # "none"
        /\ IsInjective(index[l]) /\ IsInjective(processed[l])
        /\ Ids(index[l]) \cap Ids(processed[l]) = {}
    BY <1>4, <1>5, IndexTyped DEF OwnLists
  <2>2. \A i \in Ids(index[l]) \cup Ids(processed[l]) : Of(i, l)' /\ leg1'[i] # "none"
    BY <1>6, <1>8, <2>1
  <2>3. processed'[l] = processed[l]
    BY <1>3
  <2>4. CASE l # k
    <3>1. index'[l] = index[l]
      BY <1>7, <2>4
    <3> QED
      BY <2>1, <2>2, <2>3, <3>1
  <2>5. CASE l = k
    BY <1>5, <1>6, <1>7, <1>8, <2>1, <2>2, <2>3, <2>5
  <2> QED
    BY <2>4, <2>5
<1>11. LoopsKnow'
  BY <1>3, <1>4, <1>8 DEF IndexTypes, LoopsKnow, AtWork
<1>12. (hookAlls = 0 => BeforeHookAll)'
  BY <1>3 DEF IndexInv, BeforeHookAll
<1>13. ASSUME AfterOneHookAll PROVE AfterOneHookAll'
  <2>1. \A i \in targets : i \in Jobs /\ i # j
    BY <1>4, <1>5 DEF IndexTypes
  <2>2. ASSUME NEW i \in targets, NEW l \in Lists, Of(i, l)'
        PROVE  i \in Ids(index'[l]) \cup Ids(processed'[l])
    <3>1. Of(i, l)
      BY <1>6, <2>1, <2>2
    <3>2. i \in Ids(index[l]) \cup Ids(processed[l])
      BY <1>13, <3>1 DEF AfterOneHookAll
    <3> QED
      BY <1>3, <1>7, <3>2
  <2>3. ASSUME NEW w \in Loops, Emptied(w)', NEW i \in targets, Of(i, loop[w].item)'
        PROVE  i \in Ids(processed'[loop'[w].item])
    <3>1. PICK h : h = loop[w].item /\ h = loop'[w].item /\ h \in Lists /\ Emptied(w)
      BY <1>3, <1>4, <2>3 DEF Emptied, LoopsKnow, AtWork
    <3>2. Of(i, h)
      <4>1. created'[i] = created[i]
        BY <1>3, <1>4, <2>1 DEF IndexTypes
      <4> QED
        BY <2>3, <3>1, <4>1 DEF Of
    <3> QED
      BY <1>3, <1>13, <3>1, <3>2 DEF AfterOneHookAll
  <2>4. \A w \in Loops : loop'[w].step = "rename" =>
          /\ loop'[w].item \notin Ids(queue')
          /\ \A g \in Loops \ {w} : loop'[g].step = "rename" => loop'[g].item # loop'[w].item
    BY <1>3, <1>13 DEF AfterOneHookAll
  <2> QED
    BY <1>3, <2>2, <2>3, <2>4 DEF AfterOneHookAll
<1> QED
  BY <1>3, <1>9, <1>10, <1>11, <1>12, <1>13 DEF IndexInv

\* A step of one loop.
LEMMA LoopMoves ==
    ASSUME IndexTypes, NEW w \in Loops, NEW s \in LoopSteps, NEW k \in Lists \cup {NoItem},
           NEW j \in Jobs \cup {""}, Goto(w, s, k, j)
    PROVE  /\ loop' \in [Loops -> LoopStates]
           /\ loop'[w].step = s /\ loop'[w].item = k
           /\ \A f \in Loops \ {w} : loop'[f] = loop[f]
<1>1. PICK p : p = [step |-> s, item |-> k, job |-> j]
  OBVIOUS
<1>2. p \in LoopStates /\ p.step = s /\ p.item = k
  BY <1>1 DEF LoopStates
<1>3. loop' = [loop EXCEPT ![w] = p] /\ loop \in [Loops -> LoopStates]
  BY <1>1 DEF Goto, IndexTypes
<1>4. loop' \in [Loops -> LoopStates] /\ loop'[w] = p /\ \A f \in Loops \ {w} : loop'[f] = loop[f]
  BY <1>2, <1>3
<1> QED
  BY <1>2, <1>4

\* Once a loop is under way, hookAll was called.
LEMMA HookAllWasCalled ==
    ASSUME IndexInv, NEW w \in Loops, loop[w].step # "rest"
    PROVE  hookAlls # 0 /\ hookAlls \in Nat
  BY DEF IndexInv, IndexTypes, BeforeHookAll

\* A step of a loop that leaves the lists alone.
LEMMA LoopOnly ==
    ASSUME IndexInv, NEW w \in Loops, NEW s \in LoopSteps, NEW k \in Lists \cup {NoItem},
           Goto(w, s, k, ""), loop[w].step # "rest",
           UNCHANGED <<created, index, processed, targets, hookAlls, leg1>>,
           queue' \in Seq(Lists), IsInjective(queue'), Ids(queue') \subseteq Ids(queue),
           cached' \in [Engines -> Lists \cup {NoItem}],
           s \notin {"rest", "woken", "get"} => k \in Lists,
           s = "remove" => index[k] = <<>>,
           s = "rename" => /\ k = loop[w].item /\ loop[w].step = "remove"
                           /\ k \in Ids(queue) /\ k \notin Ids(queue')
    PROVE  IndexInv'
<1>1. IndexTypes /\ OwnLists /\ LoopsKnow
  BY DEF IndexInv
<1>2. /\ loop' \in [Loops -> LoopStates]
      /\ loop'[w].step = s /\ loop'[w].item = k
      /\ \A f \in Loops \ {w} : loop'[f] = loop[f]
  <2>1. PICK j \in Jobs \cup {""} : j = ""
    OBVIOUS
  <2> QED
    BY <1>1, <2>1, LoopMoves
<1>3. IndexTypes'
  BY <1>1, <1>2 DEF IndexTypes
<1>4. OwnLists'
  BY <1>1 DEF OwnLists, Of
<1>5. LoopsKnow'
  BY <1>1, <1>2 DEF LoopsKnow, AtWork
<1>6. hookAlls' # 0
  BY HookAllWasCalled
<1>7. ASSUME AfterOneHookAll PROVE AfterOneHookAll'
  <2>1. \A j, l : Of(j, l)' <=> Of(j, l)
    BY DEF Of
  <2>2. \A j \in targets, l \in Lists : Of(j, l) => j \in Ids(index[l]) \cup Ids(processed[l])
    BY <1>7 DEF AfterOneHookAll
  <2>3. ASSUME NEW f \in Loops, Emptied(f)', NEW j \in targets, NEW l, l = loop'[f].item, Of(j, l)
        PROVE  j \in Ids(processed[l])
    <3>1. CASE f # w
      <4>1. Emptied(f) /\ l = loop[f].item
        BY <1>2, <2>3, <3>1 DEF Emptied
      <4> QED
        BY <1>7, <2>3, <4>1 DEF AfterOneHookAll
    <3>2. CASE f = w /\ s = "remove"
      <4>1. l \in Lists /\ index[l] = <<>>
        BY <1>2, <2>3, <3>2
      <4>2. j \in Ids(index[l]) \cup Ids(processed[l]) /\ Ids(index[l]) = {}
        BY <2>2, <2>3, <4>1, EmptyList
      <4> QED
        BY <4>2
    <3>3. CASE f = w /\ s = "rename"
      <4>1. Emptied(w) /\ l = loop[w].item
        BY <1>2, <2>3, <3>3 DEF Emptied
      <4> QED
        BY <1>7, <2>3, <4>1 DEF AfterOneHookAll
    <3>4. f = w => s \in {"remove", "rename"}
      BY <1>2, <2>3 DEF Emptied
    <3> QED
      BY <3>1, <3>2, <3>3, <3>4
  <2>4. ASSUME NEW f \in Loops, loop'[f].step = "rename"
        PROVE  /\ loop'[f].item \notin Ids(queue')
               /\ \A g \in Loops \ {f} : loop'[g].step = "rename" => loop'[g].item # loop'[f].item
    <3>1. \A g \in Loops \ {w} : loop[g].step = "rename" =>
             /\ loop[g].item \notin Ids(queue)
             /\ \A h \in Loops \ {g} : loop[h].step = "rename" => loop[h].item # loop[g].item
      BY <1>7 DEF AfterOneHookAll
    <3>2. CASE f # w
      <4>1. loop[f].step = "rename" /\ loop'[f] = loop[f]
        BY <1>2, <2>4, <3>2
      <4>2. loop[f].item \notin Ids(queue)
        BY <3>1, <3>2, <4>1
      <4>3. ASSUME NEW g \in Loops \ {f}, loop'[g].step = "rename" PROVE loop'[g].item # loop'[f].item
        <5>1. CASE g # w
          BY <1>2, <3>1, <3>2, <4>1, <4>3, <5>1
        <5>2. CASE g = w
          <6>1. s = "rename"
            BY <1>2, <4>3, <5>2
          <6> QED
            BY <1>2, <4>1, <4>2, <5>2, <6>1
        <5> QED
          BY <5>1, <5>2
      <4> QED
        BY <4>1, <4>2, <4>3
    <3>3. CASE f = w
      <4>1. s = "rename"
        BY <1>2, <2>4, <3>3
      <4>2. ASSUME NEW g \in Loops \ {w}, loop'[g].step = "rename" PROVE loop'[g].item # loop'[w].item
        <5>1. loop[g].item \notin Ids(queue) /\ loop'[g] = loop[g]
          BY <1>2, <3>1, <4>2
        <5> QED
          BY <1>2, <4>1, <5>1
      <4> QED
        BY <1>2, <3>3, <4>1, <4>2
    <3> QED
      BY <3>2, <3>3
  <2>5. \A f \in Loops : Emptied(f)' => \A j \in targets : Of(j, loop[f].item)' => j \in Ids(processed[loop'[f].item])
    BY <2>3 DEF Of
  <2>6. (\A j \in targets, l \in Lists : Of(j, l) => j \in Ids(index[l]) \cup Ids(processed[l]))'
    BY <2>1, <2>2
  <2> QED
    BY <2>4, <2>5, <2>6 DEF AfterOneHookAll
<1> QED
  BY <1>3, <1>4, <1>5, <1>6, <1>7 DEF IndexInv

\* A loop looks for its next item: what its engine remembers is one.
LEMMA IterateKeepsIndex ==
    ASSUME IndexInv, NEW w \in Loops, loop[w].step # "rest", Iterate(w),
           UNCHANGED <<created, index, processed, queue, cached, targets, hookAlls, leg1>>
    PROVE  IndexInv'
<1>1. IndexTypes /\ LoopsKnow
  BY DEF IndexInv
<1>2. PICK k \in Lists \cup {NoItem} : k = cached[w[1]]
  <2>1. w[1] \in Engines
    BY DEF Loops
  <2> QED
    BY <1>1, <2>1 DEF IndexTypes
<1>3. PICK s \in LoopSteps : s = IF k = NoItem THEN "get" ELSE "move"
  BY DEF LoopSteps
<1>4. Goto(w, s, k, "") /\ (s \notin {"rest", "woken", "get"} => k \in Lists) /\ s \in {"get", "move"}
  BY <1>2, <1>3 DEF Iterate
<1>5. queue' \in Seq(Lists) /\ IsInjective(queue') /\ cached' \in [Engines -> Lists \cup {NoItem}]
  BY <1>1 DEF IndexTypes, LoopsKnow
<1> QED
  BY <1>4, <1>5, LoopOnly

LEMMA BeginKeepsIndex == ASSUME IndexInv, NEW w \in Loops, BeginLoop(w) PROVE IndexInv'
  BY IterateKeepsIndex DEF BeginLoop, statsVars, hookActivityVars, legVars

LEMMA GetKeepsIndex == ASSUME IndexInv, NEW w \in Loops, GetQueue(w) PROVE IndexInv'
<1>1. IndexTypes /\ LoopsKnow
  BY DEF IndexInv
<1>2. loop[w].step # "rest" /\ UNCHANGED <<created, index, processed, queue, targets, hookAlls, leg1>>
  BY DEF GetQueue, statsVars, hookActivityVars, legVars
<1>3. queue' \in Seq(Lists) /\ IsInjective(queue')
  BY <1>1, <1>2 DEF IndexTypes, LoopsKnow
<1>4. CASE queue = <<>>
  <2>1. PICK s, k : s = "rest" /\ s \in LoopSteps /\ k = NoItem /\ Goto(w, s, k, "")
    BY <1>4 DEF GetQueue, LoopSteps
  <2>2. cached' = cached
    BY <1>4 DEF GetQueue
  <2> QED
    BY <1>1, <1>2, <1>3, <2>1, <2>2, LoopOnly DEF IndexTypes
<1>5. CASE queue # <<>>
  <2>1. PICK s, k : s = "move" /\ s \in LoopSteps /\ k = Head(queue) /\ Goto(w, s, k, "")
    BY <1>5 DEF GetQueue, LoopSteps
  <2>2. k \in Lists /\ cached' = [cached EXCEPT ![w[1]] = k]
    BY <1>1, <1>5, <2>1, TailList DEF GetQueue, IndexTypes
  <2>3. cached' \in [Engines -> Lists \cup {NoItem}]
    BY <1>1, <2>2 DEF IndexTypes
  <2> QED
    BY <1>2, <1>3, <2>1, <2>2, <2>3, LoopOnly
<1> QED
  BY <1>4, <1>5

LEMMA RemoveKeepsIndex == ASSUME IndexInv, NEW w \in Loops, RemoveItem(w) PROVE IndexInv'
<1>1. IndexTypes /\ LoopsKnow
  BY DEF IndexInv
<1>2. PICK k : k = loop[w].item
  OBVIOUS
<1>3. /\ loop[w].step = "remove" /\ queue' = RemoveFirst(queue, k)
      /\ UNCHANGED <<created, index, processed, targets, hookAlls, leg1>>
  BY <1>2 DEF RemoveItem, statsVars, hookActivityVars, legVars
<1>4. queue' \in Seq(Lists) /\ IsInjective(queue') /\ Ids(queue') = Ids(queue) \ {k}
  BY <1>1, <1>3, RemoveList DEF IndexTypes, LoopsKnow
<1>5. k \in Lists
  BY <1>1, <1>2, <1>3 DEF LoopsKnow, AtWork
<1>6. CASE k \in Ids(queue)
  <2>1. PICK s : s = "rename" /\ s \in LoopSteps /\ Goto(w, s, k, "")
    BY <1>2, <1>6 DEF RemoveItem, LoopSteps
  <2>2. cached' = cached
    BY <1>2, <1>6 DEF RemoveItem
  <2> QED
    BY <1>1, <1>2, <1>3, <1>4, <1>5, <1>6, <2>1, <2>2, LoopOnly DEF IndexTypes
<1>7. CASE k \notin Ids(queue)
  <2>1. PICK s, n : s = "get" /\ s \in LoopSteps /\ n = NoItem /\ Goto(w, s, n, "")
    BY <1>2, <1>7 DEF RemoveItem, LoopSteps
  <2>2. cached' = [cached EXCEPT ![w[1]] = NoItem]
    BY <1>2, <1>7 DEF RemoveItem
  <2>3. cached' \in [Engines -> Lists \cup {NoItem}]
    BY <1>1, <2>2 DEF IndexTypes
  <2> QED
    BY <1>3, <1>4, <2>1, <2>3, LoopOnly
<1> QED
  BY <1>6, <1>7

LEMMA HookKeepsIndex == ASSUME IndexInv, NEW w \in Loops, HookId(w) PROVE IndexInv'
  BY IterateKeepsIndex DEF HookId, GoOn, statsVars, legVars

\* The id that is moved stays in one of the two lists.
LEMMA MoveKeepsIndex == ASSUME IndexInv, NEW w \in Loops, MoveId(w) PROVE IndexInv'
<1>1. IndexTypes /\ OwnLists /\ LoopsKnow
  BY DEF IndexInv
<1>2. PICK k : k = loop[w].item
  OBVIOUS
<1>3. /\ loop[w].step = "move" /\ k \in Lists
      /\ UNCHANGED <<created, queue, cached, targets, hookAlls, leg1>>
  BY <1>1, <1>2 DEF MoveId, LoopsKnow, AtWork, hookActivityVars, legVars
<1>4. queue' \in Seq(Lists) /\ IsInjective(queue') /\ cached' \in [Engines -> Lists \cup {NoItem}]
  BY <1>1, <1>3 DEF IndexTypes, LoopsKnow
<1>5. CASE index[k] = <<>>
  <2>1. PICK s : s = "remove" /\ s \in LoopSteps /\ Goto(w, s, k, "")
    BY <1>2, <1>5 DEF MoveId, LoopSteps
  <2>2. UNCHANGED <<index, processed>>
    BY <1>2, <1>5 DEF MoveId
  <2> QED
    BY <1>2, <1>3, <1>4, <1>5, <2>1, <2>2, LoopOnly
<1>6. CASE index[k] # <<>>
  <2>1. PICK j, t : j = Head(index[k]) /\ t = Tail(index[k])
    OBVIOUS
  <2>2. /\ j \in Jobs /\ t \in Seq(Jobs) /\ Ids(index[k]) = Ids(t) \cup {j}
        /\ IsInjective(t) /\ j \notin Ids(t)
    BY <1>1, <1>3, <1>6, <2>1, IndexTyped, TailList DEF OwnLists
  <2>3. PICK p : p = Append(processed[k], j)
    OBVIOUS
  <2>4. p \in Seq(Jobs) /\ Ids(p) = Ids(processed[k]) \cup {j} /\ IsInjective(p)
    <3>1. processed[k] \in Seq(Jobs) /\ IsInjective(processed[k]) /\ j \notin Ids(processed[k])
      BY <1>1, <1>3, <2>2, IndexTyped DEF OwnLists
    <3> QED
      BY <2>2, <2>3, <3>1, AppendList
  <2>5. /\ index' = [index EXCEPT ![k] = t] /\ processed' = [processed EXCEPT ![k] = p]
        /\ Goto(w, "hook", k, j)
    BY <1>2, <1>6, <2>1, <2>3 DEF MoveId, MovedFrom
  <2>6. /\ index'[k] = t /\ processed'[k] = p
        /\ \A l \in Lists \ {k} : index'[l] = index[l] /\ processed'[l] = processed[l]
        /\ index' \in [Lists -> Seq(Jobs)] /\ processed' \in [Lists -> Seq(Jobs)]
    BY <1>1, <1>3, <2>2, <2>4, <2>5 DEF IndexTypes
  <2>7. /\ loop' \in [Loops -> LoopStates]
        /\ loop'[w].step = "hook" /\ loop'[w].item = k /\ \A f \in Loops \ {w} : loop'[f] = loop[f]
    <3>1. PICK s : s = "hook" /\ s \in LoopSteps
      BY DEF LoopSteps
    <3>2. Goto(w, s, k, j) /\ j \in Jobs \cup {""} /\ k \in Lists \cup {NoItem}
      BY <1>3, <2>2, <2>5, <3>1
    <3> QED
      BY <1>1, <3>1, <3>2, LoopMoves
  <2>8. \A l \in Lists : /\ Ids(index'[l]) \cup Ids(processed'[l]) = Ids(index[l]) \cup Ids(processed[l])
                         /\ Ids(processed[l]) \subseteq Ids(processed'[l])
    BY <2>2, <2>4, <2>6
  <2>9. IndexTypes'
    BY <1>1, <1>3, <2>6, <2>7 DEF IndexTypes
  <2>10. OwnLists'
    <3> SUFFICES ASSUME NEW l \in Lists
        PROVE /\ \A i \in Ids(index'[l]) \cup Ids(processed'[l]) : Of(i, l)' /\ leg1'[i] # "none"
              /\ IsInjective(index'[l]) /\ IsInjective(processed'[l])
              /\ Ids(index'[l]) \cap Ids(processed'[l]) = {}
      BY DEF OwnLists
    <3>1. \A i \in Ids(index'[l]) \cup Ids(processed'[l]) : Of(i, l)' /\ leg1'[i] # "none"
      BY <1>1, <1>3, <2>8 DEF OwnLists, Of
    <3>2. CASE l = k
      <4>1. Ids(index[k]) \cap Ids(processed[k]) = {}
        BY <1>1, <1>3 DEF OwnLists
      <4>2. Ids(t) \cap Ids(p) = {}
        BY <2>2, <2>4, <4>1
      <4> QED
        BY <2>2, <2>4, <2>6, <3>1, <3>2, <4>2
    <3>3. CASE l # k
      BY <1>1, <2>6, <3>1, <3>3 DEF OwnLists
    <3> QED
      BY <3>2, <3>3
  <2>11. LoopsKnow'
    BY <1>1, <1>3, <2>7 DEF LoopsKnow, AtWork
  <2>12. hookAlls' # 0
    BY <1>3, HookAllWasCalled
  <2>13. ASSUME AfterOneHookAll PROVE AfterOneHookAll'
    <3>1. (\A i \in targets, l \in Lists : Of(i, l) => i \in Ids(index[l]) \cup Ids(processed[l]))'
      BY <1>3, <2>8, <2>13 DEF AfterOneHookAll, Of
    <3>2. ASSUME NEW f \in Loops, Emptied(f)', NEW i \in targets, Of(i, loop[f].item)'
          PROVE  i \in Ids(processed'[loop'[f].item])
      <4>1. Emptied(f) /\ loop'[f] = loop[f]
        BY <1>3, <2>7, <3>2 DEF Emptied
      <4>2. loop[f].item \in Lists
        BY <1>1, <4>1 DEF Emptied, LoopsKnow, AtWork
      <4>3. Of(i, loop[f].item)
        BY <1>3, <3>2, <4>1 DEF Of
      <4> QED
        BY <2>8, <2>13, <4>1, <4>2, <4>3 DEF AfterOneHookAll
    <3>3. \A f \in Loops : loop'[f].step = "rename" =>
            /\ loop'[f].item \notin Ids(queue')
            /\ \A g \in Loops \ {f} : loop'[g].step = "rename" => loop'[g].item # loop'[f].item
      BY <1>3, <2>7, <2>13 DEF AfterOneHookAll
    <3> QED
      BY <1>3, <3>1, <3>2, <3>3 DEF AfterOneHookAll
  <2> QED
    BY <1>3, <2>9, <2>10, <2>11, <2>12, <2>13 DEF IndexInv
<1> QED
  BY <1>5, <1>6

\* The list that is replaced holds no id that is to be kept, and nobody else finds
\* the item of the list that is renamed.
LEMMA RenameKeepsIndex == ASSUME IndexInv, NEW w \in Loops, RenameBack(w) PROVE IndexInv'
<1>1. IndexTypes /\ OwnLists /\ LoopsKnow
  BY DEF IndexInv
<1>2. PICK k : k = loop[w].item
  OBVIOUS
<1>3. /\ loop[w].step = "rename" /\ k \in Lists
      /\ UNCHANGED <<created, queue, targets, hookAlls, leg1>>
  BY <1>1, <1>2 DEF RenameBack, LoopsKnow, AtWork, hookActivityVars, legVars
<1>4. queue' \in Seq(Lists) /\ IsInjective(queue')
  BY <1>1, <1>3 DEF IndexTypes, LoopsKnow
<1>5. CASE processed[k] = <<>>
  <2>1. PICK s, n : s = "rest" /\ s \in LoopSteps /\ Goto(w, s, n, "") /\ n = NoItem
    BY <1>2, <1>5 DEF RenameBack, LoopSteps
  <2>2. UNCHANGED <<index, processed, cached>>
    BY <1>2, <1>5 DEF RenameBack
  <2> QED
    BY <1>1, <1>3, <1>4, <2>1, <2>2, LoopOnly DEF IndexTypes
<1>6. CASE processed[k] # <<>>
  <2>1. /\ index' = [index EXCEPT ![k] = processed[k]]
        /\ processed' = [processed EXCEPT ![k] = <<>>]
        /\ cached' = [cached EXCEPT ![w[1]] = NoItem]
    BY <1>2, <1>6 DEF RenameBack
  <2>2. PICK s, it : s = "get" /\ s \in LoopSteps /\ it = NoItem /\ Goto(w, s, it, "")
    BY <1>2, <1>6 DEF RenameBack, LoopSteps
  <2>3. PICK p : p = processed[k] /\ p \in Seq(Jobs) /\ IsInjective(p)
    BY <1>1, <1>3, IndexTyped DEF OwnLists
  <2>4. PICK n : n = <<>> /\ n \in Seq(Jobs) /\ Ids(n) = {} /\ IsInjective(n)
    <3>1. PICK n : n = <<>>
      OBVIOUS
    <3>2. n \in Seq(Jobs)
      BY <3>1
    <3>3. Ids(n) = {} /\ IsInjective(n)
      BY <3>1, EmptyList
    <3> QED
      BY <3>1, <3>2, <3>3
  <2>5. /\ index'[k] = p /\ processed'[k] = n
        /\ \A l \in Lists \ {k} : index'[l] = index[l] /\ processed'[l] = processed[l]
        /\ index' \in [Lists -> Seq(Jobs)] /\ processed' \in [Lists -> Seq(Jobs)]
    BY <1>1, <1>3, <2>1, <2>3, <2>4 DEF IndexTypes
  <2>6. /\ loop' \in [Loops -> LoopStates]
        /\ loop'[w].step = "get" /\ \A f \in Loops \ {w} : loop'[f] = loop[f]
    <3>1. PICK j \in Jobs \cup {""} : j = ""
      OBVIOUS
    <3> QED
      BY <1>1, <2>2, <3>1, LoopMoves
  <2>7. cached' \in [Engines -> Lists \cup {NoItem}]
    BY <1>1, <2>1 DEF IndexTypes
  <2>8. IndexTypes'
    BY <1>1, <1>3, <2>5, <2>6, <2>7 DEF IndexTypes
  <2>9. OwnLists'
    <3> SUFFICES ASSUME NEW l \in Lists
        PROVE /\ \A i \in Ids(index'[l]) \cup Ids(processed'[l]) : Of(i, l)' /\ leg1'[i] # "none"
              /\ IsInjective(index'[l]) /\ IsInjective(processed'[l])
              /\ Ids(index'[l]) \cap Ids(processed'[l]) = {}
      BY DEF OwnLists
    <3>1. \A i \in Ids(index[l]) \cup Ids(processed[l]) : Of(i, l)' /\ leg1'[i] # "none"
      BY <1>1, <1>3 DEF OwnLists, Of
    <3>2. CASE l = k
      BY <2>3, <2>4, <2>5, <3>1, <3>2
    <3>3. CASE l # k
      BY <1>1, <2>5, <3>1, <3>3 DEF OwnLists
    <3> QED
      BY <3>2, <3>3
  <2>10. LoopsKnow'
    BY <1>1, <1>3, <2>6, <2>7 DEF LoopsKnow, AtWork
  <2>11. hookAlls' # 0
    BY <1>3, HookAllWasCalled
  <2>12. ASSUME AfterOneHookAll PROVE AfterOneHookAll'
    <3>1. \A i \in targets : Of(i, k) => i \in Ids(p)
      BY <1>2, <1>3, <2>3, <2>12 DEF AfterOneHookAll, Emptied
    <3>2. ASSUME NEW i \in targets, NEW l \in Lists, Of(i, l)
          PROVE  i \in Ids(index'[l]) \cup Ids(processed'[l])
      <4>1. CASE l = k
        BY <2>5, <3>1, <3>2, <4>1
      <4>2. CASE l # k
        BY <2>5, <2>12, <3>2, <4>2 DEF AfterOneHookAll
      <4> QED
        BY <4>1, <4>2
    <3>3. (\A i \in targets, l \in Lists : Of(i, l) => i \in Ids(index[l]) \cup Ids(processed[l]))'
      BY <1>3, <3>2 DEF Of
    <3>4. ASSUME NEW f \in Loops, Emptied(f)', NEW i \in targets, Of(i, loop[f].item)'
          PROVE  i \in Ids(processed'[loop'[f].item])
      <4>1. f # w /\ Emptied(f) /\ loop'[f] = loop[f]
        BY <1>3, <2>6, <2>7, <3>4 DEF Emptied
      <4>2. loop[f].item \in Lists
        BY <1>1, <4>1 DEF Emptied, LoopsKnow, AtWork
      <4>3. loop[f].item # k
        BY <1>2, <1>3, <2>12, <4>1 DEF AfterOneHookAll, Emptied
      <4>4. Of(i, loop[f].item)
        BY <1>3, <3>4, <4>1 DEF Of
      <4>5. i \in Ids(processed[loop[f].item])
        BY <2>12, <4>1, <4>4 DEF AfterOneHookAll
      <4> QED
        BY <2>5, <4>1, <4>2, <4>3, <4>5
    <3>5. ASSUME NEW f \in Loops, loop'[f].step = "rename"
          PROVE  /\ loop'[f].item \notin Ids(queue')
                 /\ \A g \in Loops \ {f} : loop'[g].step = "rename" => loop'[g].item # loop'[f].item
      <4>1. \A g \in Loops : loop'[g].step = "rename" =>
               g # w /\ loop'[g] = loop[g]
        BY <2>6, <2>7
      <4> QED
        BY <1>3, <2>12, <3>5, <4>1 DEF AfterOneHookAll
    <3> QED
      BY <1>3, <3>3, <3>4, <3>5 DEF AfterOneHookAll
  <2> QED
    BY <1>3, <2>8, <2>9, <2>10, <2>11, <2>12 DEF IndexInv
<1> QED
  BY <1>5, <1>6

LEMMA HookAllKeepsIndex ==
    ASSUME IndexInv, NEW q \in Queries, NEW facets \in SUBSET Facets, HookAll(q, facets)
    PROVE  IndexInv'
<1>1. IndexTypes /\ OwnLists /\ LoopsKnow
  BY DEF IndexInv
<1>2. PICK items : items = WorkItems(index, FacetsOf(counts, Facets, facets, q), q)
  OBVIOUS
<1>3. /\ hookAlls' = hookAlls + 1 /\ AddTaskQueues(items) /\ WakeLoops
      /\ targets' = targets \cup UNION {Ids(index[k]) : k \in items}
      /\ UNCHANGED <<created, index, processed, cached, leg1>>
  BY <1>2 DEF HookAll, statsVars, hookActivityVars, legVars
<1>4. items \subseteq Lists
  <2>1. PICK fs : items = WorkItems(index, fs, q)
    BY <1>2
  <2> QED
    BY <1>1, <2>1 DEF WorkItems, JobIds, IndexTypes
<1>5. PICK new : new = items \ Ids(queue) /\ new \subseteq Lists /\ IsFiniteSet(new)
  <2>1. PICK new : new = items \ Ids(queue)
    OBVIOUS
  <2>2. new \subseteq Lists
    BY <1>4, <2>1
  <2>3. IsFiniteSet(new)
    BY <2>2, ListsAssumption, FS_Subset
  <2> QED
    BY <2>1, <2>2, <2>3
<1>6. PICK t : /\ t = SetToSeq(new) /\ t \in Seq(new) /\ IsInjective(t)
               /\ Ids(t) \subseteq new /\ t \in Seq(Lists)
  <2>1. PICK t : t = SetToSeq(new) /\ t \in Seq(new) /\ IsInjective(t)
    BY <1>5, SetInList
  <2>2. Ids(t) \subseteq new
    BY <2>1, ListOf
  <2>3. t \in Seq(Lists)
    BY <1>5, <2>1, SeqMonotonic
  <2> QED
    BY <2>1, <2>2, <2>3
<1>7. queue' \in Seq(Lists) /\ IsInjective(queue')
  <2>1. queue' = queue \o t
    BY <1>3, <1>5, <1>6 DEF AddTaskQueues
  <2>2. queue \in Seq(Lists) /\ IsInjective(queue) /\ Ids(queue) \cap Ids(t) = {}
    BY <1>1, <1>5, <1>6 DEF IndexTypes, LoopsKnow
  <2>3. queue \o t \in Seq(Lists)
    BY <1>6, <2>2, ConcatProperties
  <2> QED
    BY <1>6, <2>1, <2>2, <2>3, ConcatList
<1>8. \A w \in Loops : loop'[w] \in LoopStates /\ (loop'[w] = loop[w] \/ loop'[w].step = "woken")
  <2>1. PICK p : p = [AtRest EXCEPT !.step = "woken"]
    OBVIOUS
  <2>2. p \in LoopStates /\ p.step = "woken"
    BY <2>1 DEF AtRest, LoopStates, LoopSteps
  <2>3. loop' = [w \in Loops |-> IF w[2] = hookAlls + 1 THEN p ELSE loop[w]]
    BY <1>3, <2>1 DEF WakeLoops
  <2> QED
    BY <1>1, <2>2, <2>3 DEF IndexTypes
<1>9. \A j \in targets' : j \in Jobs /\ leg1'[j] # "none"
  <2>1. \A k \in items : \A j \in Ids(index[k]) : j \in Jobs /\ leg1[j] # "none"
    BY <1>1, <1>4, IndexTyped DEF OwnLists
  <2>2. \A j \in targets : j \in Jobs /\ leg1[j] # "none"
    BY <1>1 DEF IndexTypes, LoopsKnow
  <2> QED
    BY <1>3, <2>1, <2>2
<1>10. hookAlls' \in Nat /\ hookAlls' # 0 /\ (hookAlls' <= 1 => hookAlls = 0)
  <2>1. PICK h \in Nat : h = hookAlls /\ hookAlls' = h + 1
    BY <1>1, <1>3 DEF IndexTypes
  <2> QED
    BY <2>1
<1>11. IndexTypes'
  <2>1. loop' \in [Loops -> LoopStates]
    <3>1. loop' = [w \in Loops |-> loop'[w]]
      BY <1>3 DEF WakeLoops
    <3> QED
      BY <1>8, <3>1
  <2>2. targets' \subseteq Jobs /\ hookAlls' \in Nat
    BY <1>9, <1>10
  <2> QED
    BY <1>1, <1>3, <1>7, <2>1, <2>2 DEF IndexTypes
<1>12. OwnLists'
  BY <1>1, <1>3 DEF OwnLists, Of
<1>13. LoopsKnow'
  <2>1. ASSUME NEW w \in Loops, AtWork(w)' PROVE loop'[w].item \in Lists
    BY <1>1, <1>8, <2>1 DEF AtWork, LoopsKnow
  <2> QED
    BY <1>7, <1>9, <2>1 DEF LoopsKnow
<1>14. ASSUME hookAlls' <= 1 PROVE AfterOneHookAll'
  <2>1. hookAlls = 0
    BY <1>14, <1>10
  <2>2. BeforeHookAll
    BY <2>1 DEF IndexInv
  <2>3. \A w \in Loops : loop'[w].step \in {"rest", "woken"}
    BY <1>8, <2>2 DEF BeforeHookAll
  <2>4. \A w \in Loops : ~Emptied(w)' /\ loop'[w].step # "rename"
    BY <2>3 DEF Emptied
  <2>5. ASSUME NEW j \in targets', NEW l \in Lists, Of(j, l) PROVE j \in Ids(index[l])
    <3>1. PICK k \in items : j \in Ids(index[k])
      BY <1>3, <2>2 DEF BeforeHookAll
    <3>2. Of(j, k) /\ k \in Lists
      BY <1>1, <1>4, <3>1 DEF OwnLists
    <3>3. k = <<k[1], k[2]>> /\ l = <<l[1], l[2]>>
      BY <3>2 DEF Lists
    <3>4. k = l
      BY <2>5, <3>2, <3>3 DEF Of
    <3> QED
      BY <3>1, <3>4
  <2>6. (\A j \in targets, l \in Lists : Of(j, l) => j \in Ids(index[l]) \cup Ids(processed[l]))'
    BY <1>3, <2>5 DEF Of
  <2> QED
    BY <2>4, <2>6 DEF AfterOneHookAll
<1> QED
  BY <1>11, <1>12, <1>13, <1>14, <1>10 DEF IndexInv

LEMMA IndexInvKept == ASSUME LegInv, IndexInv, [Next]_vars PROVE IndexInv'
<1>1. LegTypes
  BY DEF LegInv
<1>2. ASSUME UNCHANGED queueVars, \A j \in Jobs : leg1[j] # "none" => leg1'[j] # "none"
      PROVE  IndexInv'
  BY <1>2, IndexStutters DEF queueVars, statsVars, drainVars
<1>3. ASSUME NEW j \in Jobs, Trigger(j) PROVE IndexInv'
  <2>1. UNCHANGED queueVars /\ leg1' = [leg1 EXCEPT ![j] = "called"]
    BY <1>3 DEF Trigger, Call, queueVars
  <2> QED
    BY <1>1, <1>2, <2>1 DEF LegTypes
<1>4. ASSUME NEW j \in Jobs, NEW m \in Minutes, NEW f \in Facets, TriggerCounted(j, m, f)
      PROVE  IndexInv'
  BY <1>1, <1>4, TriggerKeepsIndex
<1>5. ASSUME UNCHANGED queueVars, NEW j \in Jobs,
             \/ \E d \in Durations : PushTimeHook(j, d)
             \/ AddSlot(j) \/ StopRegistration(j) \/ SaveLeg1(j)
      PROVE  IndexInv'
  <2>1. PICK x \in {"pushed", "listed", "stopped", "open"} : leg1' = [leg1 EXCEPT ![j] = x]
    BY <1>5 DEF PushTimeHook, AddSlot, StopRegistration, SaveLeg1
  <2> QED
    BY <1>1, <1>2, <1>5, <2>1 DEF LegTypes
<1>6. ASSUME UNCHANGED queueVars, UNCHANGED leg1 PROVE IndexInv'
  BY <1>2, <1>6
<1>7. ASSUME UNCHANGED queueVars, NEW e \in Engines,
             EngineStep(e) \/ PollerStep(e) \/ StopPoller(e)
      PROVE  IndexInv'
  <2>1. UNCHANGED leg1
    BY <1>7 DEF EngineStep, IgnoreHook, TakeHook, Reenter, SaveLeg2, DeleteSignal, legVars,
         PollerStep, StopPoller, FindSlot, PopJob, DropSlot, FireTimeHook,
         hookActivityVars
  <2> QED
    BY <1>6, <1>7, <2>1
<1>8. ASSUME NEW w \in Loops, LoopStep(w) PROVE IndexInv'
  BY <1>8, BeginKeepsIndex, GetKeepsIndex, MoveKeepsIndex, HookKeepsIndex, RemoveKeepsIndex, RenameKeepsIndex
  DEF LoopStep
<1>9. ASSUME NEW q \in Queries, NEW facets \in SUBSET Facets, HookAll(q, facets) PROVE IndexInv'
  BY <1>9, HookAllKeepsIndex
<1>10. CASE UNCHANGED vars
  BY <1>6, <1>10 DEF vars, hookActivityVars, legVars
<1>11. CASE Tick /\ UNCHANGED queueVars
  BY <1>6, <1>11 DEF Tick, hookActivityVars, legVars
<1> QED
  BY <1>3, <1>4, <1>5, <1>7, <1>8, <1>9, <1>10, <1>11 DEF Next

\* While any number of engines drain the lists a call of hookAll queued, and
\* triggers append to them, no id it found there is forgotten and none stands in a
\* list twice: the engine that renames a processed list over a list is the one that
\* took the item off the queue, after everything it was queued for had been moved.
\* A second call may queue what a trigger appended meanwhile, which RENAME loses.
THEOREM IndexIsKept == Spec => [](hookAlls <= 1 => IndexKept)
<1>1. ASSUME IndexInv, hookAlls <= 1 PROVE IndexKept
  <2> SUFFICES ASSUME NEW k \in Lists
      PROVE  /\ IsInjective(index[k] \o processed[k])
             /\ \A j \in targets :
                   (created[j].facet = k[1] /\ TimeSeries(created[j].minute) = k[2])
                     => j \in Ids(index[k] \o processed[k])
    BY DEF IndexKept
  <2>1. /\ index[k] \in Seq(Jobs) /\ processed[k] \in Seq(Jobs)
        /\ IsInjective(index[k]) /\ IsInjective(processed[k])
        /\ Ids(index[k]) \cap Ids(processed[k]) = {}
    BY <1>1, IndexTyped DEF IndexInv, OwnLists
  <2>2. /\ IsInjective(index[k] \o processed[k])
        /\ Ids(index[k] \o processed[k]) = Ids(index[k]) \cup Ids(processed[k])
    BY <2>1, ConcatList
  <2> QED
    BY <1>1, <2>2 DEF IndexInv, AfterOneHookAll, Of
<1>2. IndexInv => (hookAlls <= 1 => IndexKept)
  BY <1>1
<1> QED
  BY <1>2, LegInvInitially, LegInvKept, IndexInvInitially, IndexInvKept, PTL DEF Spec

-----------------------------------------------------------------------------
(* Sums.  A total is unfolded one element at a time; what it adds up to is  *)
(* a number of jobs, each counted where it belongs.                         *)

LEMMA SmallestNumber ==
    ASSUME NEW S, S \subseteq Nat, S # {}
    PROVE  \E n \in S : \A m \in S : n <= m
<1>1. PICK R : R = OpToRel(<, Nat)
  OBVIOUS
<1>2. IsWellFoundedOn(R, Nat)
  BY <1>1, NatLessThanWellFounded
<1>3. \E n \in S : \A m \in S : ~(<<m, n>> \in R)
  BY <1>2, WFMin
<1>4. \A m, n \in Nat : m < n => <<m, n>> \in R
  BY <1>1 DEF OpToRel
<1>5. PICK n \in S : \A m \in S : ~(<<m, n>> \in R)
  BY <1>3
<1>6. ASSUME NEW m \in S PROVE n <= m
  <2>1. n \in Nat /\ m \in Nat /\ ~(m < n)
    BY <1>4, <1>5
  <2> QED
    BY <2>1
<1> QED
  BY <1>5, <1>6

Picked(s) == CHOOSE x \in s : TRUE

Added(f, g, s) == IF s = {} THEN 0 ELSE f[Picked(s)] + g[s \ {Picked(s)}]

Sums(g, f, S) == g = [s \in SUBSET S |-> Added(f, g, s)]

Total(f, S) == MapThenSumSet(LAMBDA x : f[x], S)

\* The recursion of a total has a solution on a finite set: it is built up by
\* the size of the subsets.
LEMMA SumsExist ==
    ASSUME NEW f, NEW S, IsFiniteSet(S)
    PROVE  \E g : Sums(g, f, S)
<1> DEFINE Upto(n) == {s \in SUBSET S : Cardinality(s) <= n}
           Solved(n) == \E g : g = [s \in Upto(n) |-> Added(f, g, s)]
           Open == {n \in Nat : ~Solved(n)}
<1>1. \A s \in SUBSET S : IsFiniteSet(s) /\ Cardinality(s) \in Nat /\ Cardinality(s) <= Cardinality(S)
  BY FS_Subset, FS_CardinalityType
<1>2. \A s \in SUBSET S : s # {} =>
         /\ Picked(s) \in s /\ s \ {Picked(s)} \in SUBSET S
         /\ Cardinality(s \ {Picked(s)}) = Cardinality(s) - 1
  BY <1>1, FS_RemoveElement DEF Picked
<1>3. Cardinality({}) = 0
  BY FS_EmptySet
<1>4. Open = {}
  <2> SUFFICES ASSUME Open # {} PROVE FALSE
    OBVIOUS
  <2>1. PICK n \in Open : \A m \in Open : n <= m
    <3>1. Open \subseteq Nat
      OBVIOUS
    <3> HIDE DEF Open
    <3> QED
      BY <3>1, SmallestNumber
  <2>2. n \in Nat
    BY <2>1
  <2>3. CASE n = 0
    <3>1. \A s \in Upto(0) : s = {}
      <4> SUFFICES ASSUME NEW s \in Upto(0), s # {} PROVE FALSE
        OBVIOUS
      <4>1. Cardinality(s \ {Picked(s)}) \in Nat /\ Cardinality(s) \in Nat
        BY <1>1, <1>2
      <4> QED
        BY <1>2, <4>1
    <3> DEFINE g == [s \in Upto(0) |-> 0]
    <3>2. g = [s \in Upto(0) |-> Added(f, g, s)]
      BY <3>1 DEF Added
    <3>3. Solved(0)
      <4> HIDE DEF g, Upto
      <4> QED
        BY <3>2
    <3> QED
      BY <2>1, <2>3, <3>3
  <2>4. CASE n # 0
    <3>1. n - 1 \in Nat /\ n - 1 \notin Open
      <4> HIDE DEF Open
      <4> QED
        BY <2>1, <2>2, <2>4
    <3>2. PICK g : g = [s \in Upto(n - 1) |-> Added(f, g, s)]
      BY <3>1
    <3> DEFINE h == [s \in Upto(n) |-> Added(f, g, s)]
    <3>3. \A s \in Upto(n - 1) : s \in Upto(n) /\ h[s] = g[s]
      <4> SUFFICES ASSUME NEW s \in Upto(n - 1) PROVE s \in Upto(n) /\ h[s] = g[s]
        OBVIOUS
      <4>1. s \in Upto(n)
        BY <1>1, <2>2
      <4>2. g[s] = Added(f, g, s)
        <5> HIDE DEF Upto
        <5> QED
          BY <3>2
      <4> HIDE DEF Upto
      <4> QED
        BY <4>1, <4>2
    <3>4. \A s \in Upto(n) : s # {} => s \ {Picked(s)} \in Upto(n - 1)
      BY <1>1, <1>2, <2>2
    <3>5. \A s \in Upto(n) : Added(f, h, s) = Added(f, g, s)
      <4> HIDE DEF Upto, h
      <4> QED
        BY <3>3, <3>4 DEF Added
    <3>6. h = [s \in Upto(n) |-> Added(f, h, s)]
      <4> HIDE DEF Upto
      <4> QED
        BY <3>5
    <3>7. Solved(n)
      <4> HIDE DEF Upto, h
      <4> QED
        BY <3>6
    <3> QED
      BY <2>1, <3>7
  <2> QED
    BY <2>3, <2>4
<1>5. Solved(Cardinality(S)) /\ Upto(Cardinality(S)) = SUBSET S
  BY <1>1, <1>4, FS_CardinalityType
<1> HIDE DEF Upto
<1> QED
  BY <1>5 DEF Sums

Unfolds(g, f, S) ==
    /\ Total(f, S) = g[S] /\ g[{}] = 0
    /\ \A s \in SUBSET S : s # {} =>
         Picked(s) \in s /\ g[s] = f[Picked(s)] + g[s \ {Picked(s)}]

\* What a total is: the value of its recursion.
LEMMA TotalIs ==
    ASSUME NEW f, NEW S, IsFiniteSet(S)
    PROVE  \E g : Unfolds(g, f, S)
<1> DEFINE g == CHOOSE h : Sums(h, f, S)
<1>1. Sums(g, f, S)
  BY SumsExist
<1>2. Total(f, S) = g[S]
  BY DEF Total, MapThenSumSet, MapThenFoldSet, Sums, Added, Picked
<1> HIDE DEF g
<1>3. \A s \in SUBSET S : g[s] = Added(f, g, s)
  BY <1>1 DEF Sums
<1>4. \A s : s # {} => Picked(s) \in s
  BY DEF Picked
<1>5. g[{}] = 0
  BY <1>3 DEF Added
<1>6. \A s \in SUBSET S : s # {} => g[s] = f[Picked(s)] + g[s \ {Picked(s)}]
  BY <1>3 DEF Added
<1> QED
  BY <1>2, <1>4, <1>5, <1>6 DEF Unfolds

\* Those that belong to one summand, and to any of them.
At(A, h, k) == {a \in A : h[a] = k}

Within(A, h, S) == {a \in A : h[a] \in S}

\* A total of numbers that do not exceed how many elements of A belong to each
\* summand does not exceed how many belong to any of them.
LEMMA TotalCounts ==
    ASSUME NEW A, IsFiniteSet(A), NEW h, NEW S, IsFiniteSet(S), NEW f,
           \A k \in S : f[k] \in Nat /\ f[k] <= Cardinality(At(A, h, k))
    PROVE  LET all == Cardinality(Within(A, h, S)) IN
           /\ Total(f, S) \in Nat /\ Total(f, S) <= all
           /\ (\A k \in S : f[k] = Cardinality(At(A, h, k))) => Total(f, S) = all
<1> DEFINE In(s) == Within(A, h, s)
           One(k) == At(A, h, k)
           Exact == \A k \in S : f[k] = Cardinality(One(k))
<1>1. PICK g : Unfolds(g, f, S)
  BY TotalIs
<1> DEFINE Right(s) == /\ g[s] \in Nat /\ g[s] <= Cardinality(In(s))
                       /\ Exact => g[s] = Cardinality(In(s))
           Wrong == {Cardinality(s) : s \in {t \in SUBSET S : ~Right(t)}}
<1>2. \A B \in SUBSET A : IsFiniteSet(B) /\ Cardinality(B) \in Nat
  BY FS_Subset, FS_CardinalityType
<1>3. \A s \in SUBSET S : IsFiniteSet(s) /\ Cardinality(s) \in Nat
  BY FS_Subset, FS_CardinalityType
<1>4. Wrong = {}
  <2> SUFFICES ASSUME Wrong # {} PROVE FALSE
    OBVIOUS
  <2>1. PICK n \in Wrong : \A m \in Wrong : n <= m
    <3>1. Wrong \subseteq Nat
      <4> HIDE DEF Right
      <4> QED
        BY <1>3
    <3> HIDE DEF Wrong
    <3> QED
      BY <3>1, SmallestNumber
  <2>2. PICK s \in SUBSET S : ~Right(s) /\ n = Cardinality(s)
    <3> HIDE DEF Right
    <3> QED
      BY <2>1
  <2>3. CASE s = {}
    <3>1. In({}) = {} /\ Cardinality({}) = 0
      BY FS_EmptySet DEF Within
    <3>2. g[{}] = 0 /\ Cardinality(In({})) = 0
      BY <1>1, <3>1 DEF Unfolds
    <3>3. Right({})
      <4> HIDE DEF In, Exact
      <4> QED
        BY <3>2
    <3> QED
      BY <2>2, <2>3, <3>3
  <2>4. CASE s # {}
    <3> DEFINE x == Picked(s)
               r == s \ {x}
    <3>1. x \in s /\ x \in S /\ g[s] = f[x] + g[r] /\ r \in SUBSET S
      BY <1>1, <2>4 DEF Unfolds
    <3>2. Cardinality(r) = n - 1 /\ Cardinality(r) \in Nat /\ n \in Nat
      BY <1>3, <2>2, <3>1, FS_RemoveElement
    <3>3. Right(r)
      <4> HIDE DEF Right, r
      <4>1. Cardinality(r) \notin Wrong
        BY <2>1, <3>2
      <4> QED
        BY <3>1, <4>1
    <3>4. /\ In(s) = In(r) \cup One(x) /\ In(r) \cap One(x) = {}
          /\ In(r) \in SUBSET A /\ One(x) \in SUBSET A
      BY <3>1 DEF At, Within
    <3>5. /\ Cardinality(In(s)) = Cardinality(In(r)) + Cardinality(One(x))
          /\ Cardinality(In(r)) \in Nat /\ Cardinality(One(x)) \in Nat
      <4>1. Cardinality({}) = 0
        BY FS_EmptySet
      <4> HIDE DEF In, One, r, x
      <4>2. Cardinality(In(r) \cup One(x)) = Cardinality(In(r)) + Cardinality(One(x)) - Cardinality({})
        BY <1>2, <3>4, FS_Union
      <4> QED
        BY <1>2, <3>4, <4>1, <4>2
    <3>6. f[x] \in Nat /\ f[x] <= Cardinality(One(x)) /\ (Exact => f[x] = Cardinality(One(x)))
      BY <3>1
    <3>7. Right(s)
      <4>1. /\ g[r] \in Nat /\ g[r] <= Cardinality(In(r))
            /\ Exact => g[r] = Cardinality(In(r))
        BY <3>3
      <4> HIDE DEF In, One, Exact, r, x
      <4> QED
        BY <3>1, <3>5, <3>6, <4>1
    <3> QED
      BY <2>2, <3>7
  <2> QED
    BY <2>3, <2>4
<1>5. Right(S)
  <2> HIDE DEF Right
  <2> QED
    BY <1>4
<1> QED
  BY <1>1, <1>5 DEF Unfolds

\* Slices are the multiples of the granularity, which divides the hour.
LEMMA Multiples ==
    ASSUME NEW t \in Int, NEW m \in 0..59
    PROVE  \E p \in Int :
             /\ SliceOfHour(t, m) = p * Granularity
             /\ SliceOfHour(t, m) <= (t - (t % 60)) + m
             /\ (t - (t % 60)) + m < SliceOfHour(t, m) + Granularity
             /\ SliceOfHour(t, m) >= t - (t % 60)
<1> DEFINE g == Granularity
           h == 60 \div g
           a == t \div 60
           b == m \div g
<1>1. g \in Nat /\ g >= 1 /\ h \in Int /\ h * g = 60
  BY GranularityAssumption
<1>2. a \in Int /\ t - (t % 60) = 60 * a
  OBVIOUS
<1>3. b \in Nat /\ b * g <= m /\ m < b * g + g
  BY <1>1
<1> HIDE DEF h, a, b
<1>4. (a * h + b) * g = a * (h * g) + b * g
  BY <1>1, <1>2, <1>3
<1>5. a * h + b \in Int /\ b * g \in Nat
  BY <1>1, <1>2, <1>3
<1>6. SliceOfHour(t, m) = 60 * a + b * g
  BY <1>2 DEF SliceOfHour, b
<1>7. a * (h * g) = 60 * a
  BY <1>1, <1>2
<1> DEFINE p == a * h + b
<1>8. p \in Int /\ SliceOfHour(t, m) = p * g
  BY <1>4, <1>5, <1>6, <1>7
<1> HIDE DEF p
<1>9. SliceOfHour(t, m) \in Int /\ m \in Int
  BY <1>2, <1>5, <1>6
<1>10. /\ SliceOfHour(t, m) <= 60 * a + m /\ 60 * a + m < SliceOfHour(t, m) + g
       /\ SliceOfHour(t, m) >= 60 * a
  BY <1>1, <1>2, <1>3, <1>5, <1>6, <1>9
<1> QED
  BY <1>2, <1>8, <1>10 DEF g

LEMMA WindowBounds ==
    ASSUME NEW q \in Queries
    PROVE  Window(q)[1] \in Int /\ Window(q)[2] \in Int
  BY TimesAssumption DEF Window, NoTime

\* The slices of a query are those that overlap its window.
LEMMA SlicesOverlap ==
    ASSUME NEW q \in Queries, NEW t \in Int, \E p \in Int : t = p * Granularity
    PROVE  t \in DateTimeSets(q) <=>
             t <= Window(q)[2] /\ t + Granularity > Window(q)[1]
<1> DEFINE g == Granularity
           u == Window(q)[1]
           v == Window(q)[2]
           first == SliceOfHour(u, u % 60)
<1>1. g \in Nat /\ g >= 1
  BY GranularityAssumption
<1>2. u \in Int /\ v \in Int
  BY WindowBounds
<1>3. PICK p \in Int : t = p * g
  OBVIOUS
<1>4. PICK o \in Int : first = o * g /\ first <= u /\ u < first + g
  <2>1. u % 60 \in 0..59 /\ (u - (u % 60)) + (u % 60) = u
    <3> HIDE DEF u
    <3> QED
      BY <1>2
  <2>2. \E o \in Int :
           /\ SliceOfHour(u, u % 60) = o * Granularity
           /\ SliceOfHour(u, u % 60) <= u
           /\ u < SliceOfHour(u, u % 60) + Granularity
    <3> HIDE DEF u
    <3>1. PICK m \in 0..59 : m = u % 60 /\ (u - (u % 60)) + m = u
      BY <2>1
    <3>2. \E o \in Int : /\ SliceOfHour(u, m) = o * Granularity
                         /\ SliceOfHour(u, m) <= (u - (u % 60)) + m
                         /\ (u - (u % 60)) + m < SliceOfHour(u, m) + Granularity
      BY <1>2, Multiples
    <3> QED
      BY <3>1, <3>2
  <2> QED
    BY <2>2
<1>5. DateTimeSets(q) = {x \in first..v : (x - first) % g = 0}
  BY DEF DateTimeSets
<1> HIDE DEF u, v, first, g
<1>6. (p - o) * g = t - first /\ t - first \in Int /\ first \in Int
  BY <1>1, <1>3, <1>4
<1>7. (t - first) % g = 0
  <2>1. \A n \in Int : (n * g) % g = 0
    BY <1>1
  <2> QED
    BY <1>6, <2>1
<1>8. t + g > u => t >= first
  <2> SUFFICES ASSUME t + g > u, t < first PROVE FALSE
    BY <1>6
  <2>1. p - o \in Int /\ (p - o) * g < 0
    BY <1>6
  <2>2. p - o <= -1
    BY <1>1, <2>1
  <2>3. (p - o) * g <= -g
    BY <1>1, <2>1, <2>2
  <2> QED
    BY <1>1, <1>2, <1>4, <1>6, <2>3
<1>9. t >= first => t + g > u
  BY <1>1, <1>2, <1>4, <1>6
<1> QED
  BY <1>2, <1>5, <1>6, <1>7, <1>8, <1>9 DEF u, v, g

\* The totals the reporter takes, as totals of functions.
LEMMA AggregateIs ==
    ASSUME NEW counters, NEW target, NEW q
    PROVE  LET d == DOMAIN JobStats(counters, q) IN
           Aggregate(counters, target, q) = Total([t \in d |-> counters[t][target]], d)
  BY DEF Total, MapThenSumSet, MapThenFoldSet, Aggregate

LEMMA CountOfFacetIs ==
    ASSUME NEW stored, NEW facet, NEW q
    PROVE  LET ids == JobIds(stored, {facet}, q) IN
           CountOfFacet(stored, facet, q) = Total([k \in DOMAIN ids |-> Len(ids[k])], DOMAIN ids)
  BY DEF Total, MapThenSumSet, MapThenFoldSet, CountOfFacet

-----------------------------------------------------------------------------
(* The counters: each is the number of jobs that were triggered in its      *)
(* slice, or there and with its facet.                                      *)

Triggered == {j \in Jobs : created[j] # NotYet}

SliceOf == [j \in Jobs |-> TimeSeries(created[j].minute)]

PlaceOf == [j \in Jobs |-> <<created[j].facet, TimeSeries(created[j].minute)>>]

CountTypes ==
    /\ IsFiniteSet(Triggered)
    /\ \A j \in Triggered : /\ created[j].minute \in Minutes /\ created[j].facet \in Facets
                            /\ leg1[j] # "none"
    /\ counts \in [Slices -> [Facets \cup {"count"} -> Nat]]

JobsCounted ==
    \A t \in Slices : counts[t]["count"] = Cardinality(At(Triggered, SliceOf, t))

FacetsCounted ==
    \A k \in Lists : counts[k[2]][k[1]] = Cardinality(At(Triggered, PlaceOf, k))

StatsInv == CountTypes /\ JobsCounted /\ FacetsCounted

LEMMA StatsInvInitially == ASSUME Init PROVE StatsInv
<1>1. /\ created = [j \in Jobs |-> NotYet]
      /\ counts = [t \in Slices |-> [f \in Facets \cup {"count"} |-> 0]]
  BY DEF Init, TaskInit
<1>2. Triggered = {}
  BY <1>1 DEF Triggered
<1>3. IsFiniteSet(Triggered) /\ Cardinality({}) = 0
  BY <1>2, FS_EmptySet
<1>4. CountTypes
  BY <1>1, <1>2, <1>3 DEF CountTypes
<1>5. \A k \in Lists : k[1] \in Facets /\ k[2] \in Slices
  BY DEF Lists
<1>6. JobsCounted
  <2> SUFFICES ASSUME NEW t \in Slices
      PROVE counts[t]["count"] = Cardinality(At(Triggered, SliceOf, t))
    BY DEF JobsCounted
  <2>1. At(Triggered, SliceOf, t) = {}
    BY <1>2 DEF At
  <2> QED
    BY <1>1, <1>3, <2>1
<1>7. FacetsCounted
  <2> SUFFICES ASSUME NEW k \in Lists
      PROVE counts[k[2]][k[1]] = Cardinality(At(Triggered, PlaceOf, k))
    BY DEF FacetsCounted
  <2>1. At(Triggered, PlaceOf, k) = {}
    BY <1>2 DEF At
  <2> QED
    BY <1>1, <1>3, <1>5, <2>1
<1> QED
  BY <1>4, <1>6, <1>7 DEF StatsInv

\* One more job belongs to one of the numbers.
LEMMA OneMore ==
    ASSUME NEW A, IsFiniteSet(A), NEW j, j \notin A, NEW g, NEW h,
           \A i \in A : h[i] = g[i], NEW k
    PROVE  Cardinality(At(A \cup {j}, h, k)) =
             IF h[j] = k THEN Cardinality(At(A, g, k)) + 1
             ELSE Cardinality(At(A, g, k))
<1> DEFINE B == At(A, g, k)
<1>1. IsFiniteSet(B) /\ j \notin B
  BY FS_Subset DEF At
<1>2. CASE h[j] = k
  <2>1. At(A \cup {j}, h, k) = B \cup {j}
    BY <1>2 DEF At
  <2> HIDE DEF B
  <2>2. Cardinality(B \cup {j}) = Cardinality(B) + 1
    BY <1>1, FS_AddElement
  <2> QED
    BY <1>2, <2>1, <2>2 DEF B
<1>3. CASE h[j] # k
  <2>1. At(A \cup {j}, h, k) = B
    BY <1>3 DEF At
  <2> QED
    BY <1>3, <2>1
<1> QED
  BY <1>2, <1>3

LEMMA TriggerKeepsStats ==
    ASSUME LegTypes, IndexTypes, StatsInv, NEW j \in Jobs, NEW m \in Minutes, NEW f \in Facets,
           TriggerCounted(j, m, f)
    PROVE  StatsInv'
<1> DEFINE u == TimeSeries(m)
           fields == Facets \cup {"count"}
<1>1. u \in Slices /\ f \in fields /\ "count" \in fields /\ f # "count"
  BY FacetsAssumption DEF Slices
<1>2. /\ leg1[j] = "none" /\ leg1' = [leg1 EXCEPT ![j] = "called"]
      /\ created' = [created EXCEPT ![j] = [minute |-> m, facet |-> f]]
      /\ counts' = [counts EXCEPT ![u]["count"] = @ + 1, ![u][f] = @ + 1]
  BY DEF TriggerCounted, Call, SetStats
<1> HIDE DEF u
<1>3. /\ created'[j] = [minute |-> m, facet |-> f] /\ \A i \in Jobs \ {j} : created'[i] = created[i]
      /\ created'[j].minute = m /\ created'[j].facet = f
  BY <1>2 DEF IndexTypes
<1>4. [minute |-> m, facet |-> f] # NotYet
  <2>1. PICK r : r = [minute |-> m, facet |-> f]
    OBVIOUS
  <2>2. r.minute \in Nat
    BY <2>1, TimesAssumption
  <2>3. NotYet.minute = -1
    BY DEF NotYet
  <2>4. r # NotYet
    BY <2>2, <2>3
  <2> QED
    BY <2>1, <2>4
<1>5. j \notin Triggered
  BY <1>2 DEF StatsInv, CountTypes
<1>6. Triggered' = Triggered \cup {j}
  <2>1. \A i \in Jobs : created'[i] # NotYet <=> i = j \/ created[i] # NotYet
    BY <1>3, <1>4
  <2> QED
    BY <2>1 DEF Triggered
<1>7. IsFiniteSet(Triggered) /\ IsFiniteSet(Triggered')
  BY <1>6, FS_AddElement DEF StatsInv, CountTypes
<1>8. counts \in [Slices -> [fields -> Nat]]
  BY DEF StatsInv, CountTypes
<1>9. /\ counts' \in [Slices -> [fields -> Nat]]
      /\ \A t \in Slices : counts'[t]["count"] =
            IF t = u THEN counts[t]["count"] + 1 ELSE counts[t]["count"]
      /\ \A t \in Slices, x \in Facets : counts'[t][x] =
            IF t = u /\ x = f THEN counts[t][x] + 1 ELSE counts[t][x]
  <2> DEFINE row == counts[u]
             new == [row EXCEPT !["count"] = @ + 1, ![f] = @ + 1]
  <2>1. row \in [fields -> Nat]
    BY <1>1, <1>8
  <2>2. counts' = [counts EXCEPT ![u] = new]
    BY <1>1, <1>2, <1>8
  <2> HIDE DEF row
  <2>3. /\ new \in [fields -> Nat] /\ new["count"] = row["count"] + 1 /\ new[f] = row[f] + 1
        /\ \A x \in fields \ {"count", f} : new[x] = row[x]
    BY <1>1, <2>1
  <2> HIDE DEF new, fields
  <2>4. /\ counts' \in [Slices -> [fields -> Nat]] /\ counts'[u] = new
        /\ \A t \in Slices \ {u} : counts'[t] = counts[t]
    BY <1>1, <1>8, <2>2, <2>3
  <2>5. \A x \in Facets : x \in fields /\ x # "count"
    BY FacetsAssumption DEF fields
  <2> QED
    BY <1>1, <2>3, <2>4, <2>5 DEF row
<1>10. CountTypes'
  <2>1. \A i \in Triggered' : /\ created'[i].minute \in Minutes /\ created'[i].facet \in Facets
                              /\ leg1'[i] # "none"
    <3> SUFFICES ASSUME NEW i \in Triggered'
        PROVE created'[i].minute \in Minutes /\ created'[i].facet \in Facets /\ leg1'[i] # "none"
      OBVIOUS
    <3>1. CASE i = j
      BY <1>2, <1>3, <3>1 DEF LegTypes
    <3>2. CASE i # j
      <4>1. i \in Triggered /\ i \in Jobs
        BY <1>6, <3>2 DEF Triggered
      <4>2. created'[i] = created[i] /\ leg1'[i] = leg1[i]
        BY <1>2, <1>3, <3>2, <4>1 DEF LegTypes
      <4> QED
        BY <4>1, <4>2 DEF StatsInv, CountTypes
    <3> QED
      BY <3>1, <3>2
  <2> QED
    BY <1>7, <1>9, <2>1 DEF CountTypes
<1>11. Triggered \subseteq Jobs
  BY DEF Triggered
<1>12. /\ \A i \in Triggered : SliceOf'[i] = SliceOf[i] /\ PlaceOf'[i] = PlaceOf[i]
       /\ SliceOf'[j] = u /\ PlaceOf'[j] = <<f, u>>
  BY <1>3, <1>5, <1>11 DEF SliceOf, PlaceOf, u
<1>13. JobsCounted'
  <2> SUFFICES ASSUME NEW t \in Slices
      PROVE counts'[t]["count"] = Cardinality(At(Triggered', SliceOf', t))
    BY DEF JobsCounted
  <2>1. counts[t]["count"] = Cardinality(At(Triggered, SliceOf, t))
    BY DEF StatsInv, JobsCounted
  <2>2. Cardinality(At(Triggered \cup {j}, SliceOf', t)) =
          IF SliceOf'[j] = t THEN Cardinality(At(Triggered, SliceOf, t)) + 1
          ELSE Cardinality(At(Triggered, SliceOf, t))
    <3>1. PICK g, h, A : g = SliceOf /\ h = SliceOf' /\ A = Triggered
      OBVIOUS
    <3>2. j \notin A /\ IsFiniteSet(A) /\ \A i \in A : h[i] = g[i]
      BY <1>5, <1>7, <1>12, <3>1
    <3>3. Cardinality(At(A \cup {j}, h, t)) =
            IF h[j] = t THEN Cardinality(At(A, g, t)) + 1 ELSE Cardinality(At(A, g, t))
      BY <3>2, OneMore
    <3> QED
      BY <3>1, <3>3
  <2> QED
    BY <1>6, <1>9, <1>12, <2>1, <2>2
<1>14. FacetsCounted'
  <2> SUFFICES ASSUME NEW k \in Lists
      PROVE counts'[k[2]][k[1]] = Cardinality(At(Triggered', PlaceOf', k))
    BY DEF FacetsCounted
  <2>1. counts[k[2]][k[1]] = Cardinality(At(Triggered, PlaceOf, k))
    BY DEF StatsInv, FacetsCounted
  <2>2. Cardinality(At(Triggered \cup {j}, PlaceOf', k)) =
          IF PlaceOf'[j] = k THEN Cardinality(At(Triggered, PlaceOf, k)) + 1
          ELSE Cardinality(At(Triggered, PlaceOf, k))
    <3>1. PICK g, h, A : g = PlaceOf /\ h = PlaceOf' /\ A = Triggered
      OBVIOUS
    <3>2. j \notin A /\ IsFiniteSet(A) /\ \A i \in A : h[i] = g[i]
      BY <1>5, <1>7, <1>12, <3>1
    <3>3. Cardinality(At(A \cup {j}, h, k)) =
            IF h[j] = k THEN Cardinality(At(A, g, k)) + 1 ELSE Cardinality(At(A, g, k))
      BY <3>2, OneMore
    <3> QED
      BY <3>1, <3>3
  <2>3. k[1] \in Facets /\ k[2] \in Slices /\ k = <<k[1], k[2]>>
    BY DEF Lists
  <2>4. <<f, u>> = k <=> k[2] = u /\ k[1] = f
    BY <2>3
  <2> QED
    BY <1>6, <1>9, <1>12, <2>1, <2>2, <2>3, <2>4
<1> QED
  BY <1>10, <1>13, <1>14 DEF StatsInv

LEMMA StatsStutter ==
    ASSUME StatsInv, UNCHANGED <<created, counts>>,
           \A j \in Jobs : leg1[j] # "none" => leg1'[j] # "none"
    PROVE  StatsInv'
<1>1. Triggered' = Triggered /\ Triggered \subseteq Jobs
  BY DEF Triggered
<1>2. SliceOf' = SliceOf /\ PlaceOf' = PlaceOf
  BY DEF SliceOf, PlaceOf
<1>3. CountTypes'
  BY <1>1 DEF StatsInv, CountTypes
<1> QED
  BY <1>1, <1>2, <1>3 DEF StatsInv, JobsCounted, FacetsCounted

LEMMA StatsInvKept == ASSUME LegInv, IndexInv, StatsInv, [Next]_vars PROVE StatsInv'
<1>1. LegTypes /\ IndexTypes
  BY DEF LegInv, IndexInv
<1>2. ASSUME UNCHANGED <<created, counts, leg1>> PROVE StatsInv'
  BY <1>2, StatsStutter
<1>3. ASSUME NEW j \in Jobs, Trigger(j) PROVE StatsInv'
  <2>1. UNCHANGED <<created, counts>> /\ leg1' = [leg1 EXCEPT ![j] = "called"]
    BY <1>3 DEF Trigger, Call, statsVars
  <2> QED
    BY <1>1, <2>1, StatsStutter DEF LegTypes
<1>4. ASSUME NEW j \in Jobs, NEW m \in Minutes, NEW f \in Facets, TriggerCounted(j, m, f)
      PROVE  StatsInv'
  BY <1>1, <1>4, TriggerKeepsStats
<1>5. ASSUME UNCHANGED queueVars, NEW j \in Jobs,
             \/ \E d \in Durations : PushTimeHook(j, d)
             \/ AddSlot(j) \/ StopRegistration(j) \/ SaveLeg1(j)
      PROVE  StatsInv'
  <2>1. PICK x \in {"pushed", "listed", "stopped", "open"} : leg1' = [leg1 EXCEPT ![j] = x]
    BY <1>5 DEF PushTimeHook, AddSlot, StopRegistration, SaveLeg1
  <2>2. UNCHANGED <<created, counts>>
    BY <1>5 DEF queueVars, statsVars
  <2> QED
    BY <1>1, <2>1, <2>2, StatsStutter DEF LegTypes
<1>6. ASSUME UNCHANGED queueVars, NEW e \in Engines,
             EngineStep(e) \/ PollerStep(e) \/ StopPoller(e)
      PROVE  StatsInv'
  <2>1. UNCHANGED leg1
    BY <1>6 DEF EngineStep, IgnoreHook, TakeHook, Reenter, SaveLeg2, DeleteSignal, legVars,
         PollerStep, StopPoller, FindSlot, PopJob, DropSlot, FireTimeHook,
         hookActivityVars
  <2> QED
    BY <1>2, <1>6, <2>1 DEF queueVars, statsVars
<1>7. ASSUME NEW w \in Loops, LoopStep(w) PROVE StatsInv'
  <2>1. UNCHANGED leg1
    BY <1>7, OthersKeepLegs
  <2>2. UNCHANGED <<created, counts>>
    BY <1>7 DEF LoopStep, BeginLoop, GetQueue, MoveId, HookId, RemoveItem, RenameBack, statsVars
  <2> QED
    BY <1>2, <2>1, <2>2
<1>8. ASSUME NEW q \in Queries, NEW facets \in SUBSET Facets, HookAll(q, facets) PROVE StatsInv'
  BY <1>2, <1>8 DEF HookAll, statsVars, hookActivityVars, legVars
<1>9. CASE UNCHANGED vars
  BY <1>2, <1>9 DEF vars, queueVars, statsVars, hookActivityVars, legVars
<1>10. CASE Tick /\ UNCHANGED queueVars
  BY <1>2, <1>10 DEF Tick, queueVars, statsVars, hookActivityVars, legVars
<1> QED
  BY <1>3, <1>4, <1>5, <1>6, <1>7, <1>8, <1>9, <1>10 DEF Next

-----------------------------------------------------------------------------
(* What a query answers, from the counters.                                *)

LEMMA DateTimesFinite ==
    ASSUME NEW q \in Queries
    PROVE  IsFiniteSet(DateTimeSets(q))
<1> DEFINE u == Window(q)[1]
           v == Window(q)[2]
           first == SliceOfHour(u, u % 60)
<1>1. u \in Int /\ v \in Int
  BY WindowBounds
<1> HIDE DEF u, v
<1>2. first \in Int
  BY <1>1, GranularityAssumption DEF SliceOfHour
<1> HIDE DEF first
<1>3. IsFiniteSet(first..v)
  BY <1>1, <1>2, FS_Interval
<1>4. DateTimeSets(q) \subseteq first..v
  BY DEF DateTimeSets, first, u, v
<1> QED
  BY <1>3, <1>4, FS_Subset

\* The slice a job is counted in is a slice; that of no time lies before them all.
LEMMA SliceOfTime ==
    /\ \A m \in Int : \E p \in Int : TimeSeries(m) = p * Granularity
    /\ \A m \in Nat : TimeSeries(m) >= 0
    /\ TimeSeries(-1) < 0
<1>1. ASSUME NEW m \in Int
      PROVE  /\ \E p \in Int : TimeSeries(m) = p * Granularity
             /\ TimeSeries(m) \in Int
             /\ TimeSeries(m) >= m - (m % 60) /\ TimeSeries(m) <= (m - (m % 60)) + 59
  <2>1. PICK x \in 0..59 : x = (m + Zone) % 60
    <3>1. \A z \in Int : z % 60 \in 0..59
      OBVIOUS
    <3> QED
      BY <3>1, ZoneAssumption
  <2>2. TimeSeries(m) = SliceOfHour(m, x)
    BY <2>1 DEF TimeSeries
  <2>3. SliceOfHour(m, x) \in Int
    BY GranularityAssumption DEF SliceOfHour
  <2>4. PICK p \in Int : SliceOfHour(m, x) = p * Granularity /\ SliceOfHour(m, x) <= (m - (m % 60)) + x
                         /\ SliceOfHour(m, x) >= m - (m % 60)
    BY Multiples
  <2>5. m % 60 \in Int
    OBVIOUS
  <2>6. SliceOfHour(m, x) <= (m - (m % 60)) + 59
    BY <2>3, <2>4, <2>5
  <2> QED
    BY <2>2, <2>3, <2>4, <2>6
<1>2. (-1) % 60 = 59
  <2>1. PICK x \in Int : x = -1
    OBVIOUS
  <2>2. PICK d \in Int, r \in 0..59 : d = x \div 60 /\ r = x % 60 /\ x = 60 * d + r
    OBVIOUS
  <2>3. r = 59
    BY <2>1, <2>2
  <2> QED
    BY <2>1, <2>2, <2>3
<1>3. ASSUME NEW m \in Nat PROVE TimeSeries(m) >= 0
  <2>1. PICK n \in Int : n = m
    OBVIOUS
  <2>3. TimeSeries(n) \in Int /\ TimeSeries(n) >= n - (n % 60)
    BY <1>1
  <2>2. m - (m % 60) \in Nat
    OBVIOUS
  <2> QED
    BY <2>1, <2>2, <2>3
<1>4. TimeSeries(-1) < 0
  <2>1. TimeSeries(-1) \in Int /\ TimeSeries(-1) <= (-1 - 59) + 59
    BY <1>1, <1>2
  <2> QED
    BY <2>1
<1> QED
  BY <1>1, <1>3, <1>4

LEMMA LengthOfList ==
    ASSUME NEW S, NEW s \in Seq(S), IsInjective(s)
    PROVE  IsFiniteSet(Ids(s)) /\ Cardinality(Ids(s)) = Len(s)
<1>1. Len(s) \in Nat /\ s \in [1..Len(s) -> Ids(s)] /\ Ids(s) = {s[i] : i \in 1..Len(s)}
  BY ListOf
<1>2. \A a, b \in 1..Len(s) : s[a] = s[b] => a = b
  BY <1>1 DEF IsInjective
<1>3. s \in Surjection(1..Len(s), Ids(s)) /\ s \in Injection(1..Len(s), Ids(s))
  BY <1>1, <1>2 DEF Surjection, Injection
<1>4. IsFiniteSet(1..Len(s)) /\ Cardinality(1..Len(s)) = Len(s)
  <2>1. PICK n \in Nat : n = Len(s)
    BY <1>1
  <2>2. IsFiniteSet(1..n) /\ Cardinality(1..n) = IF 1 > n THEN 0 ELSE n - 1 + 1
    BY FS_Interval
  <2> QED
    BY <2>1, <2>2
<1> QED
  BY <1>3, <1>4, FS_Surjection

LEMMA TriggeredSlices ==
    ASSUME StatsInv, NEW j \in Triggered
    PROVE  /\ SliceOf[j] \in Slices /\ SliceOf[j] \in Int
           /\ \E p \in Int : SliceOf[j] = p * Granularity
<1>1. j \in Jobs /\ created[j].minute \in Minutes
  BY DEF StatsInv, CountTypes, Triggered
<1>2. created[j].minute \in Int
  BY <1>1, TimesAssumption
<1>3. SliceOf[j] = TimeSeries(created[j].minute)
  BY <1>1 DEF SliceOf
<1>4. \E p \in Int : SliceOf[j] = p * Granularity
  BY <1>2, <1>3, SliceOfTime
<1>5. SliceOf[j] \in Int
  BY <1>4, GranularityAssumption
<1> QED
  BY <1>1, <1>3, <1>4, <1>5 DEF Slices

\* The slices of a query in which something was counted.
Counted(q) == DOMAIN JobStats(counts, q)

LEMMA CountedSlices ==
    ASSUME StatsInv, NEW q \in Queries
    PROVE  /\ IsFiniteSet(Counted(q)) /\ IsFiniteSet(DateTimeSets(q))
           /\ Counted(q) = {t \in DateTimeSets(q) : t \in Slices /\ counts[t]["count"] > 0}
           /\ \A t \in DateTimeSets(q) \ Counted(q) : At(Triggered, SliceOf, t) = {}
           /\ \A t \in Slices : counts[t]["count"] \in Nat
<1>1. /\ DOMAIN counts = Slices
      /\ \A t \in Slices : counts[t]["count"] \in Nat
  BY DEF StatsInv, CountTypes
<1>2. Counted(q) = {t \in DateTimeSets(q) : t \in Slices /\ counts[t]["count"] > 0}
  BY <1>1 DEF Counted, JobStats
<1>3. IsFiniteSet(DateTimeSets(q)) /\ IsFiniteSet(Counted(q))
  BY <1>2, DateTimesFinite, FS_Subset
<1>4. ASSUME NEW t \in DateTimeSets(q) \ Counted(q) PROVE At(Triggered, SliceOf, t) = {}
  <2> SUFFICES ASSUME NEW j \in Triggered, SliceOf[j] = t PROVE FALSE
    BY DEF At
  <2>1. t \in Slices
    BY TriggeredSlices
  <2>2. counts[t]["count"] = 0
    BY <1>1, <1>2, <1>4, <2>1
  <2>3. Cardinality(At(Triggered, SliceOf, t)) = 0
    BY <2>1, <2>2 DEF StatsInv, JobsCounted
  <2>4. IsFiniteSet(At(Triggered, SliceOf, t))
    BY FS_Subset DEF StatsInv, CountTypes, At
  <2>5. At(Triggered, SliceOf, t) = {}
    BY <2>3, <2>4, FS_EmptySet
  <2>6. j \in At(Triggered, SliceOf, t)
    BY DEF At
  <2> QED
    BY <2>5, <2>6
<1> QED
  BY <1>1, <1>2, <1>3, <1>4

\* The slice that holds a minute, and its place in the hour.
LEMMA SliceOfMinute ==
    ASSUME NEW m \in Nat, NEW t \in Int, \E p \in Int : t = p * Granularity,
           t <= m, m < t + Granularity
    PROVE  t = m - (m % Granularity)
<1> DEFINE g == Granularity
<1>1. g \in Nat /\ g >= 1
  BY GranularityAssumption
<1> HIDE DEF g
<1>2. PICK p \in Int : t = p * g
  BY DEF g
<1>3. PICK d \in Int, r \in 0..(g - 1) : m = d * g + r /\ r = m % g
  <2>1. m \div g \in Int /\ m % g \in 0..(g - 1) /\ m = g * (m \div g) + (m % g)
    BY <1>1
  <2>2. g * (m \div g) = (m \div g) * g
    BY <1>1, <2>1
  <2> QED
    BY <2>1, <2>2
<1>4. (p - d) * g = t - (m - r) /\ p - d \in Int
  BY <1>1, <1>2, <1>3
<1>5. (p - d) * g < g /\ (p - d) * g > -g
  BY <1>1, <1>3, <1>4 DEF g
<1>6. p - d = 0
  <2>1. p - d >= 1 => (p - d) * g >= g
    BY <1>1, <1>4
  <2>2. p - d <= -1 => (p - d) * g <= -g
    BY <1>1, <1>4
  <2> QED
    BY <1>1, <1>4, <1>5, <2>1, <2>2
<1>7. t = m - r
  BY <1>1, <1>3, <1>4, <1>6
<1> QED
  BY <1>3, <1>7 DEF g

\* With the clocks whole hours off UTC, a job is counted in the slice of its minute.
LEMMA CountedInUTC ==
    ASSUME Zone % 60 = 0, NEW m \in Nat
    PROVE  TimeSeries(m) = m - (m % Granularity)
<1>1. PICK x \in 0..59 : x = m % 60
  OBVIOUS
<1>2. (m + Zone) % 60 = x
  BY <1>1, ZoneAssumption
<1>3. TimeSeries(m) = SliceOfHour(m, x) /\ (m - (m % 60)) + x = m
  BY <1>1, <1>2 DEF TimeSeries
<1>4. PICK t : t = TimeSeries(m)
  OBVIOUS
<1>5. (\E p \in Int : t = p * Granularity) /\ t <= m /\ m < t + Granularity
  <2>1. m \in Int /\ x \in 0..59
    OBVIOUS
  <2>2. PICK p \in Int :
          /\ SliceOfHour(m, x) = p * Granularity
          /\ SliceOfHour(m, x) <= (m - (m % 60)) + x
          /\ (m - (m % 60)) + x < SliceOfHour(m, x) + Granularity
    BY <2>1, Multiples
  <2>3. t = SliceOfHour(m, x)
    BY <1>3, <1>4
  <2> QED
    BY <1>3, <2>2, <2>3
<1>6. t \in Int
  BY <1>5, GranularityAssumption
<1> QED
  BY <1>4, <1>5, <1>6, SliceOfMinute

\* Where a query with one of start and end asks the reporter to look.
LEMMA WindowAsked ==
    ASSUME NEW q \in Queries, PinnedByOne(q)
    PROVE  Asked(q) = <<Window(q)[1], Window(q)[2]>>
<1>1. PICK r : r = IF q.range = NoTime THEN 0 ELSE q.range
  OBVIOUS
<1>2. CASE q.start # NoTime
  <2>1. q.end = NoTime
    BY <1>2 DEF PinnedByOne
  <2>2. Window(q) = <<q.start, q.start + r>> /\ Asked(q) = <<q.start, q.start + r>>
    BY <1>1, <1>2, <2>1 DEF Window, Asked
  <2> QED
    BY <2>2
<1>3. CASE q.start = NoTime
  <2>1. q.end # NoTime
    BY <1>3 DEF PinnedByOne
  <2>2. Window(q) = <<q.end - r, q.end>> /\ Asked(q) = <<q.end - r, q.end>>
    BY <1>1, <1>3, <2>1 DEF Window, Asked
  <2> QED
    BY <2>2
<1> QED
  BY <1>2, <1>3

\* The jobs of the slices of a query are counted there.
LEMMA JobsOfQuery ==
    ASSUME StatsInv, NEW q \in Queries
    PROVE  Within(Triggered, SliceOf, Counted(q)) = Within(Triggered, SliceOf, DateTimeSets(q))
<1>1. ASSUME NEW j \in Triggered, SliceOf[j] \in DateTimeSets(q), SliceOf[j] \notin Counted(q)
      PROVE  FALSE
  <2>1. At(Triggered, SliceOf, SliceOf[j]) = {}
    BY <1>1, CountedSlices
  <2> QED
    BY <2>1 DEF At
<1>2. \A j \in Triggered : SliceOf[j] \in DateTimeSets(q) <=> SliceOf[j] \in Counted(q)
  BY <1>1, CountedSlices
<1> QED
  BY <1>2 DEF Within

\* They are the jobs triggered in the slices it asks for.
LEMMA JobsAskedFor ==
    ASSUME StatsInv, Zone % 60 = 0, NEW q \in Queries, PinnedByOne(q)
    PROVE  Within(Triggered, SliceOf, DateTimeSets(q)) = TriggeredIn(Asked(q))
<1>1. PICK u, v : /\ u = Window(q)[1] /\ v = Window(q)[2]
                  /\ Asked(q)[1] = u /\ Asked(q)[2] = v
  <2>1. Asked(q)[1] = Window(q)[1] /\ Asked(q)[2] = Window(q)[2]
    BY WindowAsked
  <2> QED
    BY <2>1
<1>2. ASSUME NEW j \in Triggered
      PROVE  /\ SliceOf[j] = created[j].minute - (created[j].minute % Granularity)
             /\ SliceOf[j] \in DateTimeSets(q) <=> (SliceOf[j] <= v /\ SliceOf[j] + Granularity > u)
  <2>1. j \in Jobs /\ created[j].minute \in Minutes
    BY DEF StatsInv, CountTypes, Triggered
  <2>2. created[j].minute \in Nat
    BY <2>1, TimesAssumption
  <2>3. SliceOf[j] = TimeSeries(created[j].minute)
    BY <2>1 DEF SliceOf
  <2> QED
    BY <1>1, <2>2, <2>3, CountedInUTC, TriggeredSlices, SlicesOverlap
<1>3. Triggered = {j \in Jobs : created[j] # NotYet}
  BY DEF Triggered
<1>4. TriggeredIn(Asked(q)) =
        {j \in Triggered :
           /\ created[j].minute - (created[j].minute % Granularity) <= v
           /\ (created[j].minute - (created[j].minute % Granularity)) + Granularity > u}
  BY <1>1, <1>3 DEF TriggeredIn
<1> QED
  BY <1>2, <1>4 DEF Within

\* A list names no job twice, and only jobs triggered where it belongs.
LEMMA ListsAreShort ==
    ASSUME StatsInv, IndexInv, NEW k \in Lists
    PROVE  Len(index[k]) \in Nat /\ Len(index[k]) <= Cardinality(At(Triggered, PlaceOf, k))
<1>1. index[k] \in Seq(Jobs) /\ IsInjective(index[k])
  BY IndexTyped DEF IndexInv, OwnLists
<1>2. \A j \in Ids(index[k]) : j \in Jobs /\ Of(j, k)
  BY <1>1, ListOf DEF IndexInv, OwnLists
<1>3. k[2] >= 0 /\ k[2] \in Int /\ k = <<k[1], k[2]>>
  <2>1. k[2] \in Slices /\ k = <<k[1], k[2]>>
    BY DEF Lists
  <2>2. PICK m \in Minutes : k[2] = TimeSeries(m)
    BY <2>1 DEF Slices
  <2>3. m \in Nat /\ m \in Int
    BY TimesAssumption
  <2>4. k[2] >= 0
    BY <2>2, <2>3, SliceOfTime
  <2>5. \E p \in Int : k[2] = p * Granularity
    BY <2>2, <2>3, SliceOfTime
  <2> QED
    BY <2>1, <2>4, <2>5, GranularityAssumption
<1>4. ASSUME NEW j \in Ids(index[k]) PROVE j \in At(Triggered, PlaceOf, k)
  <2>1. j \in Jobs /\ created[j].facet = k[1] /\ TimeSeries(created[j].minute) = k[2]
    BY <1>2 DEF Of
  <2>2. created[j] # NotYet
    <3> SUFFICES ASSUME created[j] = NotYet PROVE FALSE
      OBVIOUS
    <3>1. created[j].minute = -1
      <4>1. NotYet.minute = -1
        BY DEF NotYet
      <4> QED
        BY <4>1
    <3>2. TimeSeries(-1) = k[2]
      BY <2>1, <3>1
    <3>3. TimeSeries(-1) < 0
      BY SliceOfTime
    <3> HIDE DEF NotYet
    <3> QED
      BY <1>3, <3>2, <3>3
  <2>3. PlaceOf[j] = k
    BY <1>3, <2>1 DEF PlaceOf
  <2> QED
    BY <2>1, <2>2, <2>3 DEF At, Triggered
<1>5. IsFiniteSet(At(Triggered, PlaceOf, k))
  BY FS_Subset DEF StatsInv, CountTypes, At
<1>6. Ids(index[k]) \subseteq At(Triggered, PlaceOf, k)
  BY <1>4
<1> QED
  BY <1>1, <1>5, <1>6, LengthOfList, ListOf, FS_Subset

LEMMA CountIsRight ==
    ASSUME StatsInv, NEW q \in Queries
    PROVE  Aggregate(counts, "count", q) = Cardinality(Within(Triggered, SliceOf, Counted(q)))
<1> DEFINE d == Counted(q)
           f == [t \in d |-> counts[t]["count"]]
<1>1. Aggregate(counts, "count", q) = Total(f, d)
  BY AggregateIs DEF Counted
<1>2. \A t \in d : t \in Slices /\ counts[t]["count"] \in Nat
  BY CountedSlices
<1>3. \A t \in d : f[t] = Cardinality(At(Triggered, SliceOf, t)) /\ f[t] \in Nat
  BY <1>2 DEF StatsInv, JobsCounted
<1>4. IsFiniteSet(d) /\ IsFiniteSet(Triggered)
  BY CountedSlices DEF StatsInv, CountTypes
<1> HIDE DEF f, d
<1>5. \A t \in d : f[t] <= Cardinality(At(Triggered, SliceOf, t))
  BY <1>3
<1>6. Total(f, d) = Cardinality(Within(Triggered, SliceOf, d))
  BY <1>3, <1>4, <1>5, TotalCounts
<1> QED
  BY <1>1, <1>6 DEF d

LEMMA SegmentsAddUp ==
    ASSUME StatsInv, NEW q \in Queries
    PROVE  LET parts == Segments(counts, q) IN
           MapThenSumSet(LAMBDA t : parts[t], DOMAIN parts) =
             Cardinality(Within(Triggered, SliceOf, DateTimeSets(q)))
<1> DEFINE parts == Segments(counts, q)
           d == DateTimeSets(q)
<1>1. DOMAIN parts = d
  BY DEF Segments
<1>2. MapThenSumSet(LAMBDA t : parts[t], DOMAIN parts) = Total(parts, d)
  BY <1>1 DEF Total
<1>3. \A t \in d : parts[t] = Cardinality(At(Triggered, SliceOf, t)) /\ parts[t] \in Nat
  <2> SUFFICES ASSUME NEW t \in d
      PROVE parts[t] = Cardinality(At(Triggered, SliceOf, t)) /\ parts[t] \in Nat
    OBVIOUS
  <2>1. CASE t \in Counted(q)
    <3>1. t \in Slices /\ counts[t]["count"] \in Nat
      BY <2>1, CountedSlices
    <3>2. parts[t] = counts[t]["count"]
      BY <2>1 DEF Segments, Counted
    <3> QED
      BY <3>1, <3>2 DEF StatsInv, JobsCounted
  <2>2. CASE t \notin Counted(q)
    <3>1. At(Triggered, SliceOf, t) = {}
      BY <2>2, CountedSlices
    <3>2. parts[t] = 0
      BY <2>2 DEF Segments, Counted
    <3> QED
      BY <3>1, <3>2, FS_EmptySet
  <2> QED
    BY <2>1, <2>2
<1>4. IsFiniteSet(d) /\ IsFiniteSet(Triggered)
  BY CountedSlices DEF StatsInv, CountTypes
<1> HIDE DEF parts, d
<1>5. \A t \in d : parts[t] <= Cardinality(At(Triggered, SliceOf, t))
  BY <1>3
<1>6. Total(parts, d) = Cardinality(Within(Triggered, SliceOf, d))
  BY <1>3, <1>4, <1>5, TotalCounts
<1> QED
  BY <1>2, <1>6 DEF parts, d

\* A facet's ids are no more than the jobs triggered with it in the slices of the
\* query; its counters add up to these.
LEMMA FacetsAgree ==
    ASSUME StatsInv, IndexInv, NEW q \in Queries, NEW x \in Facets
    PROVE  CountOfFacet(index, x, q) <= Aggregate(counts, x, q)
<1> DEFINE ids == JobIds(index, {x}, q)
           places == DOMAIN ids
           lens == [k \in places |-> Len(ids[k])]
           d == Counted(q)
           f == [t \in d |-> counts[t][x]]
           own == {j \in Triggered : created[j].facet = x}
<1>1. CountOfFacet(index, x, q) = Total(lens, places) /\ Aggregate(counts, x, q) = Total(f, d)
  BY AggregateIs, CountOfFacetIs DEF Counted
<1>2. places = {k \in Lists : k[1] = x /\ k[2] \in DateTimeSets(q)}
      /\ \A k \in places : ids[k] = index[k]
  BY DEF JobIds, IndexInv, IndexTypes
<1>3. IsFiniteSet(places) /\ IsFiniteSet(d) /\ IsFiniteSet(Triggered) /\ IsFiniteSet(own)
  BY <1>2, ListsAssumption, CountedSlices, FS_Subset DEF StatsInv, CountTypes
<1>4. \A k \in places : lens[k] \in Nat /\ lens[k] <= Cardinality(At(Triggered, PlaceOf, k))
  BY <1>2, ListsAreShort
<1>5. ASSUME NEW t \in d PROVE f[t] = Cardinality(At(own, SliceOf, t)) /\ f[t] \in Nat
  <2>1. t \in Slices /\ <<x, t>> \in Lists
    BY CountedSlices DEF Lists
  <2>2. counts[t][x] = Cardinality(At(Triggered, PlaceOf, <<x, t>>)) /\ counts[t][x] \in Nat
    <3>1. PICK k \in Lists : k = <<x, t>> /\ k[1] = x /\ k[2] = t
      BY <2>1
    <3>2. counts[k[2]][k[1]] = Cardinality(At(Triggered, PlaceOf, k))
      BY DEF StatsInv, FacetsCounted
    <3>3. counts[t][x] \in Nat
      BY <2>1 DEF StatsInv, CountTypes
    <3> QED
      BY <3>1, <3>2, <3>3
  <2>3. \A j \in Triggered : PlaceOf[j] = <<x, t>> <=> created[j].facet = x /\ SliceOf[j] = t
    BY DEF Triggered, PlaceOf, SliceOf
  <2>4. At(own, SliceOf, t) = At(Triggered, PlaceOf, <<x, t>>)
    BY <2>3 DEF At
  <2> QED
    BY <2>2, <2>4
<1>6. Within(Triggered, PlaceOf, places) \subseteq Within(own, SliceOf, d)
  <2> SUFFICES ASSUME NEW j \in Triggered, PlaceOf[j] \in places
      PROVE created[j].facet = x /\ SliceOf[j] \in d
    BY DEF Within
  <2>1. PlaceOf[j] = <<created[j].facet, SliceOf[j]>>
    BY DEF Triggered, PlaceOf, SliceOf
  <2>2. created[j].facet = x /\ SliceOf[j] \in DateTimeSets(q)
    BY <1>2, <2>1
  <2>3. SliceOf[j] \in d
    <3> SUFFICES ASSUME SliceOf[j] \notin d PROVE FALSE
      OBVIOUS
    <3>1. At(Triggered, SliceOf, SliceOf[j]) = {}
      BY <2>2, CountedSlices
    <3> QED
      BY <3>1 DEF At
  <2> QED
    BY <2>2, <2>3
<1>7. IsFiniteSet(Within(own, SliceOf, d))
  <2> HIDE DEF own, d
  <2> QED
    BY <1>3, FS_Subset DEF Within
<1> HIDE DEF ids, places, lens, d, f, own
<1>8. Total(lens, places) \in Nat /\ Total(lens, places) <= Cardinality(Within(Triggered, PlaceOf, places))
  BY <1>3, <1>4, TotalCounts
<1>9. \A t \in d : f[t] <= Cardinality(At(own, SliceOf, t))
  BY <1>5
<1>10. Total(f, d) = Cardinality(Within(own, SliceOf, d))
  BY <1>3, <1>5, <1>9, TotalCounts
<1>11. /\ Cardinality(Within(Triggered, PlaceOf, places)) <= Cardinality(Within(own, SliceOf, d))
       /\ Cardinality(Within(Triggered, PlaceOf, places)) \in Nat
       /\ Cardinality(Within(own, SliceOf, d)) \in Nat
  BY <1>6, <1>7, FS_Subset, FS_CardinalityType
<1> QED
  BY <1>1, <1>8, <1>10, <1>11

\* However engines drain the lists while triggers count and index, the statistics
\* of every query agree, if the engines' clocks are whole hours off UTC: the count
\* is the number of jobs triggered in the slices of the range it asks for, for any
\* start or end and any granularity that divides the hour; for every query its
\* segments add up to it, and no facet lists more ids than it counts, whatever
\* lists have been renamed.
THEOREM StatisticsAgree ==
    ASSUME Zone % 60 = 0
    PROVE  Spec => []StatsAgree
<1>1. ASSUME StatsInv, IndexInv PROVE StatsAgree
  <2> SUFFICES ASSUME NEW q \in Queries
      PROVE LET count == Aggregate(counts, "count", q)
                parts == Segments(counts, q)
            IN  /\ PinnedByOne(q) => count = Cardinality(TriggeredIn(Asked(q)))
                /\ count = MapThenSumSet(LAMBDA t : parts[t], DOMAIN parts)
                /\ \A f \in Facets : CountOfFacet(index, f, q) <= Aggregate(counts, f, q)
    BY DEF StatsAgree
  <2>1. PICK n : n = Cardinality(Within(Triggered, SliceOf, Counted(q)))
    OBVIOUS
  <2>2. Aggregate(counts, "count", q) = n
    BY <1>1, <2>1, CountIsRight
  <2>3. Within(Triggered, SliceOf, Counted(q)) = Within(Triggered, SliceOf, DateTimeSets(q))
    BY <1>1, JobsOfQuery
  <2>4. LET parts == Segments(counts, q) IN
        MapThenSumSet(LAMBDA t : parts[t], DOMAIN parts) = n
    BY <1>1, <2>1, <2>3, SegmentsAddUp
  <2>5. PinnedByOne(q) => Cardinality(TriggeredIn(Asked(q))) = n
    BY <1>1, <2>1, <2>3, JobsAskedFor
  <2>6. \A f \in Facets : CountOfFacet(index, f, q) <= Aggregate(counts, f, q)
    BY <1>1, FacetsAgree
  <2> QED
    BY <2>2, <2>4, <2>5, <2>6
<1>2. LegInv /\ IndexInv /\ StatsInv /\ [Next]_vars => StatsInv'
  BY StatsInvKept
<1>3. StatsInv /\ IndexInv => StatsAgree
  BY <1>1
<1>4. Init => StatsInv
  BY StatsInvInitially
<1> QED
  BY <1>2, <1>3, <1>4, LegInvInitially, LegInvKept, IndexInvInitially, IndexInvKept, PTL DEF Spec
=============================================================================
