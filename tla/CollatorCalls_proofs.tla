------------------------ MODULE CollatorCalls_proofs ------------------------
(***************************************************************************)
(* What one activity's ledger guarantees, for any number of deliveries and *)
(* re-entries.  All three theorems rest on one inductive invariant: a      *)
(* granted entry leaves a first digit below 9 behind, leg 1's own save is  *)
(* what lowers the second digit of a preset ledger, and every thread       *)
(* number is below the counter it was taken from.                          *)
(***************************************************************************)
EXTENDS CollatorCalls, Collator_proofs, FiniteSetTheorems

CallsTypeOK ==
    /\ ledger \in Ledger
    /\ deliveries \in Int /\ reentries \in Int
    /\ entries \in Int
    /\ leg1 \in {"out", "in", "left"}
    /\ open \subseteq Int /\ threads \subseteq Int
    /\ grants \in Nat

\* An entry that was granted is visible in the first digit.
EntryMark ==
    /\ entries = 0 <=> leg1 = "out"
    /\ entries # 0 => entries = 1 /\ ledger.entry <= 8

\* Until leg 1 is saved, an answer finds a second digit of 9, or the third
\* digit of a ledger that was never preset.
ExitMark ==
    /\ open \subseteq threads
    /\ leg1 # "left" => threads = {} /\ (ledger.exit = 9 \/ ledger.leg2 = 0)

\* Thread numbers come from a counter that only grows.
ThreadMark ==
    /\ IsFiniteSet(threads)
    /\ Cardinality(threads) = grants
    /\ \A d \in threads : d < ledger.entered

CallsInv == CallsTypeOK /\ EntryMark /\ ExitMark /\ ThreadMark

-----------------------------------------------------------------------------
LEMMA InitCallsInv == Init => CallsInv
<1> SUFFICES ASSUME Init PROVE CallsInv
  OBVIOUS
<1>1. CallsTypeOK
  BY DEF Init, CallsTypeOK, Ledger, Seed, Absent, Digits
<1>2. EntryMark
  BY DEF Init, EntryMark
<1>3. ExitMark
  BY DEF Init, ExitMark, Seed, Absent, Digits
<1>4. ThreadMark
  BY FS_EmptySet DEF Init, ThreadMark
<1> QED
  BY <1>1, <1>2, <1>3, <1>4 DEF CallsInv

LEMMA NextCallsInv == CallsInv /\ [Next]_vars => CallsInv'
<1> SUFFICES ASSUME CallsInv, [Next]_vars PROVE CallsInv'
  OBVIOUS
<1> USE DEF CallsInv
<1>1. CASE EnterLeg1
  <2>1. /\ ledger' = NotarizeEntry(ledger) /\ ledger' \in Ledger
        /\ ledger'.entry = ledger.entry - 1 /\ ledger'.exit = ledger.exit
        /\ ledger'.leg2 = ledger.leg2 /\ ledger'.entered = ledger.entered
    BY <1>1, SingleIncrements DEF EnterLeg1, CallsTypeOK
  <2>2. UNCHANGED <<open, threads, grants>>
    BY <1>1 DEF EnterLeg1
  <2>3. CASE verdict' = "none"
    <3>1. ledger' = Entered
      BY <1>1, <2>3, EntryGranted DEF EnterLeg1
    <3>2. ledger'.entry = 8 /\ ledger.entry = 9
      BY <2>1, <3>1 DEF Entered, Digits, CallsTypeOK, Ledger
    <3>3. entries = 0 /\ entries' = 1 /\ leg1 = "out" /\ leg1' = "in"
      BY <1>1, <2>3, <3>2 DEF EnterLeg1, EntryMark, CallsTypeOK
    <3>4. CallsTypeOK'
      BY <1>1, <2>1, <2>2, <3>3 DEF EnterLeg1, CallsTypeOK
    <3> QED
      BY <2>1, <2>2, <3>2, <3>3, <3>4 DEF EntryMark, ExitMark, ThreadMark
  <2>4. CASE verdict' # "none"
    <3>1. UNCHANGED <<entries, leg1>>
      BY <1>1, <2>4 DEF EnterLeg1
    <3>2. CallsTypeOK'
      BY <1>1, <2>1, <2>2, <3>1 DEF EnterLeg1, CallsTypeOK
    <3> QED
      BY <2>1, <2>2, <3>1, <3>2 DEF EntryMark, ExitMark, ThreadMark, CallsTypeOK, Ledger
  <2> QED
    BY <2>3, <2>4
<1>2. CASE LeaveLeg1
  BY <1>2, SingleIncrements
  DEF LeaveLeg1, CallsTypeOK, EntryMark, ExitMark, ThreadMark
<1>3. CASE CompleteEarly
  <2>1. /\ ledger' \in Ledger /\ ledger'.entry = ledger.entry
        /\ ledger'.entered = ledger.entered + 1
    BY <1>3, EarlyCompletionIncrement DEF CompleteEarly, CallsTypeOK
  <2> QED
    BY <1>3, <2>1 DEF CompleteEarly, CallsTypeOK, EntryMark, ExitMark, ThreadMark, Ledger
<1>4. CASE EnterLeg2
  <2>1. /\ ledger' = NotarizeReentry(ledger) /\ ledger' \in Ledger
        /\ ledger'.entry = ledger.entry /\ ledger'.exit = ledger.exit
        /\ ledger'.leg2 = ledger.leg2 /\ ledger'.entered = ledger.entered + 1
    BY <1>4, SingleIncrements DEF EnterLeg2, CallsTypeOK
  <2>2. UNCHANGED <<deliveries, entries, leg1>>
    BY <1>4 DEF EnterLeg2
  <2>3. CASE verdict' = "none"
    <3> DEFINE d == DimensionalIndex(ledger')
    <3>1. d = ledger.entered /\ d \in Int
      BY <2>1 DEF DimensionalIndex, CallsTypeOK, Ledger
    <3>2. /\ open' = open \cup {d} /\ threads' = threads \cup {d}
          /\ grants' = grants + 1 /\ reentries' = reentries + 1
      BY <1>4, <2>3 DEF EnterLeg2
    <3>3. leg1 = "left"
      <4>1. ledger'.exit < 9 /\ ~(ledger'.leg2 < 9)
        BY <1>4, <2>3, ReentryGranted DEF EnterLeg2
      <4> QED
        BY <2>1, <4>1 DEF ExitMark, CallsTypeOK, Ledger
    <3>4. d \notin threads
      BY <3>1 DEF ThreadMark
    <3>5. IsFiniteSet(threads') /\ Cardinality(threads') = grants'
      BY <3>2, <3>4, FS_AddElement DEF ThreadMark
    <3>6. CallsTypeOK'
      <4>1. grants' \in Nat /\ reentries' \in Int
        BY <3>2 DEF CallsTypeOK
      <4>2. open' \subseteq Int /\ threads' \subseteq Int
        BY <3>1, <3>2 DEF CallsTypeOK
      <4> QED
        BY <2>1, <2>2, <4>1, <4>2 DEF CallsTypeOK
    <3>7. \A t \in threads' : t < ledger'.entered
      BY <2>1, <3>1, <3>2 DEF ThreadMark, CallsTypeOK, Ledger
    <3> QED
      BY <2>1, <2>2, <3>2, <3>3, <3>5, <3>6, <3>7 DEF EntryMark, ExitMark, ThreadMark
  <2>4. CASE verdict' # "none"
    <3>1. UNCHANGED <<open, threads, grants>> /\ reentries' = reentries + 1
      BY <1>4, <2>4 DEF EnterLeg2
    <3> QED
      BY <2>1, <2>2, <3>1 DEF CallsTypeOK, EntryMark, ExitMark, ThreadMark, Ledger
  <2> QED
    BY <2>3, <2>4
<1>5. CASE Continue \/ Complete
  <2>1. /\ ledger' \in Ledger /\ ledger'.entry = ledger.entry
        /\ ledger'.entered = ledger.entered
    BY <1>5, SingleIncrements, CompletionIncrement DEF Continue, Complete, CallsTypeOK
  <2>2. /\ UNCHANGED <<deliveries, reentries, entries, leg1, threads, grants>>
        /\ open # {} /\ open' \subseteq open
    BY <1>5 DEF Continue, Complete
  <2>3. leg1 = "left"
    BY <2>2 DEF ExitMark
  <2> QED
    BY <2>1, <2>2, <2>3 DEF CallsTypeOK, EntryMark, ExitMark, ThreadMark
<1>6. CASE UNCHANGED vars
  BY <1>6 DEF vars, callVars, CallsTypeOK, EntryMark, ExitMark, ThreadMark
<1> QED
  BY <1>1, <1>2, <1>3, <1>4, <1>5, <1>6 DEF Next

LEMMA CallsInvariant == Spec => []CallsInv
  BY InitCallsInv, NextCallsInv, PTL DEF Spec

-----------------------------------------------------------------------------
(* However often the stream delivers the entry that starts an activity,    *)
(* leg 1 is granted once.                                                  *)
THEOREM LegOneRunsOnce == Spec => []EntryOnce
<1>1. CallsInv => EntryOnce
  BY DEF CallsInv, EntryMark, EntryOnce
<1> QED
  BY <1>1, CallsInvariant, PTL

(* No answer is accepted by an activity whose leg 1 was not saved.         *)
THEOREM AnswersFollowExit == Spec => []NoAnswerBeforeExit
<1>1. CallsInv => NoAnswerBeforeExit
  BY DEF CallsInv, ExitMark, NoAnswerBeforeExit
<1> QED
  BY <1>1, CallsInvariant, PTL

(* No two granted answers share a thread, and so no two of them address    *)
(* their children alike.                                                   *)
THEOREM ThreadsAreDistinct == Spec => []ThreadsDistinct
<1>1. CallsInv => ThreadsDistinct
  BY DEF CallsInv, ThreadMark, ThreadsDistinct
<1> QED
  BY <1>1, CallsInvariant, PTL

(* Once a final answer is saved no later answer of the activity is let in. *)
THEOREM ClosedIsFinal == Spec => ClosedStaysClosed
<1>1. ASSUME CallsInv, [Next]_vars, Inactive(ledger)
      PROVE  grants' = grants
  <2>1. CASE EnterLeg2
    <3>1. ledger' = NotarizeReentry(ledger) /\ ledger'.leg2 = ledger.leg2
      BY <1>1, <2>1, SingleIncrements DEF EnterLeg2, CallsInv, CallsTypeOK
    <3>2. verdict' # "none"
      BY <1>1, <2>1, <3>1, ReentryGranted DEF EnterLeg2, Inactive
    <3> QED
      BY <2>1, <3>2 DEF EnterLeg2
  <2>2. CASE ~EnterLeg2
    BY <1>1, <2>2
    DEF Next, EnterLeg1, LeaveLeg1, CompleteEarly, Continue, Complete, vars, callVars
  <2> QED
    BY <2>1, <2>2
<1>2. CallsInv /\ [Next]_vars => [Inactive(ledger) => grants' = grants]_vars
  BY <1>1
<1> QED
  BY <1>2, CallsInvariant, PTL DEF Spec, ClosedStaysClosed
=============================================================================
