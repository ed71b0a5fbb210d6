--------------------------- MODULE Collator_proofs --------------------------
(***************************************************************************)
(* Facts about the digit ledger, for the proofs of the modules built on it.*)
(***************************************************************************)
EXTENDS Collator, TLAPS

(* What verifyInteger's verdicts say about the digits.                     *)

\* Leg 1 is granted only on the value a first decrement of the seed leaves.
LEMMA EntryGranted ==
    ASSUME NEW l, EntryFault(l) = "none"
    PROVE  l = Entered
  BY DEF EntryFault

\* Leg 2 is granted only while the third digit is 9 and the second is not.
LEMMA ReentryGranted ==
    ASSUME NEW l, ReentryFault(l) = "none"
    PROVE  l.exit < 9 /\ ~(l.leg2 < 9)
  BY DEF ReentryFault, PrimedForReentry, Inactive

\* Each increment changes the digits its name says and no others.
LEMMA SingleIncrements ==
    ASSUME NEW l \in Ledger
    PROVE  /\ NotarizeEntry(l) \in Ledger
           /\ NotarizeEntry(l).entry = l.entry - 1
           /\ NotarizeEntry(l).exit = l.exit
           /\ NotarizeEntry(l).leg2 = l.leg2
           /\ NotarizeEntry(l).entered = l.entered
           /\ AuthorizeReentry(l) \in Ledger
           /\ AuthorizeReentry(l).entry = l.entry
           /\ AuthorizeReentry(l).entered = l.entered
           /\ NotarizeReentry(l) \in Ledger
           /\ NotarizeReentry(l).entry = l.entry
           /\ NotarizeReentry(l).exit = l.exit
           /\ NotarizeReentry(l).leg2 = l.leg2
           /\ NotarizeReentry(l).entered = l.entered + 1
           /\ NotarizeContinuation(l) \in Ledger
           /\ NotarizeContinuation(l).entry = l.entry
           /\ NotarizeContinuation(l).entered = l.entered
<1>1. /\ NotarizeEntry(l) \in Ledger
      /\ NotarizeEntry(l).entry = l.entry - 1
      /\ NotarizeEntry(l).exit = l.exit
      /\ NotarizeEntry(l).leg2 = l.leg2
      /\ NotarizeEntry(l).entered = l.entered
  BY DEF Ledger, NotarizeEntry
<1>2. /\ AuthorizeReentry(l) \in Ledger
      /\ AuthorizeReentry(l).entry = l.entry
      /\ AuthorizeReentry(l).entered = l.entered
  BY DEF Ledger, AuthorizeReentry
<1>3. /\ NotarizeReentry(l) \in Ledger
      /\ NotarizeReentry(l).entry = l.entry
      /\ NotarizeReentry(l).exit = l.exit
      /\ NotarizeReentry(l).leg2 = l.leg2
      /\ NotarizeReentry(l).entered = l.entered + 1
  BY DEF Ledger, NotarizeReentry
<1>4. /\ NotarizeContinuation(l) \in Ledger
      /\ NotarizeContinuation(l).entry = l.entry
      /\ NotarizeContinuation(l).entered = l.entered
  BY DEF Ledger, NotarizeContinuation
<1> QED
  BY <1>1, <1>2, <1>3, <1>4

LEMMA CompletionIncrement ==
    ASSUME NEW l \in Ledger
    PROVE  /\ NotarizeCompletion(l) \in Ledger
           /\ NotarizeCompletion(l).entry = l.entry
           /\ NotarizeCompletion(l).entered = l.entered
<1> DEFINE closed == [l EXCEPT !.leg2 = @ - 1]
<1>1. closed \in Ledger /\ closed.entry = l.entry /\ closed.entered = l.entered
  BY DEF Ledger
<1>2. NotarizeCompletion(l) = NotarizeContinuation(closed)
  BY DEF NotarizeCompletion
<1> HIDE DEF closed
<1> QED
  BY <1>1, <1>2, SingleIncrements

LEMMA EarlyCompletionIncrement ==
    ASSUME NEW l \in Ledger
    PROVE  /\ NotarizeEarlyCompletion(l) \in Ledger
           /\ NotarizeEarlyCompletion(l).entry = l.entry
           /\ NotarizeEarlyCompletion(l).entered = l.entered + 1
<1> DEFINE left == AuthorizeReentry(l)
           in == NotarizeReentry(left)
<1>1. left \in Ledger /\ left.entry = l.entry /\ left.entered = l.entered
  BY SingleIncrements
<1>2. NotarizeEarlyCompletion(l) = NotarizeCompletion(in)
  BY DEF NotarizeEarlyCompletion
<1> HIDE DEF left
<1>3. in \in Ledger /\ in.entry = left.entry /\ in.entered = left.entered + 1
  BY <1>1, SingleIncrements
<1> HIDE DEF in
<1> QED
  BY <1>1, <1>2, <1>3, CompletionIncrement
=============================================================================
