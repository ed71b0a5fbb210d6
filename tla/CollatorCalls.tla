---------------------------- MODULE CollatorCalls ---------------------------
(***************************************************************************)
(* The collation ledger of one activity under every order of calls its     *)
(* handlers can make: each stream entry may be delivered again, and leg 2  *)
(* may be entered by several engines before one of them saves.  A handler  *)
(* increments and verifies in one Redis round trip (notarizeEntry,         *)
(* notarizeReentry) and increments again when its transaction is executed, *)
(* one or more round trips later.                                          *)
(*                                                                         *)
(* The code keeps the ledger only; the other variables record what its     *)
(* calls returned and which handlers are under way.                        *)
(***************************************************************************)
EXTENDS Collator, FiniteSets

CONSTANTS
    MaxDeliveries,  \* deliveries of the stream entry that starts leg 1
    MaxReentries    \* leg 2 entries, granted or refused

VARIABLES
    ledger,      \* the digits
    verdict,     \* what the last verifyInteger decided
    deliveries,  \* leg 1 deliveries so far
    reentries,   \* leg 2 entries so far, granted or refused
    entries,     \* leg 1 entries granted so far
    leg1,        \* "out", "in" (granted, not saved) or "left" (saved)
    open,        \* threads granted by leg 2 entries that are not saved yet
    threads,     \* every thread ever granted
    grants       \* how many leg 2 entries were granted

callVars == <<verdict, deliveries, reentries, entries, leg1, open, threads, grants>>
vars == <<ledger, callVars>>

\* Either the parent preset the seed, or the job hash is gone.
Init ==
    /\ ledger \in {Seed, Absent}
    /\ verdict = "none"
    /\ deliveries = 0
    /\ reentries = 0
    /\ entries = 0
    /\ leg1 = "out"
    /\ open = {}
    /\ threads = {}
    /\ grants = 0

\* Leg 1 begins (process): a refused entry keeps its decrement.
EnterLeg1 ==
    /\ deliveries < MaxDeliveries
    /\ deliveries' = deliveries + 1
    /\ ledger' = NotarizeEntry(ledger)
    /\ verdict' = EntryFault(ledger')
    /\ IF verdict' = "none"
       THEN entries' = entries + 1 /\ leg1' = "in"
       ELSE UNCHANGED <<entries, leg1>>
    /\ UNCHANGED <<reentries, open, threads, grants>>

\* Leg 1 of a duplex activity (worker, await, hook) is saved.
LeaveLeg1 ==
    /\ leg1 = "in"
    /\ ledger' = AuthorizeReentry(ledger)
    /\ leg1' = "left"
    /\ UNCHANGED <<verdict, deliveries, reentries, entries, open, threads, grants>>

\* Leg 1 of a plain activity is saved and closes leg 2 with it.
CompleteEarly ==
    /\ leg1 = "in"
    /\ ledger' = NotarizeEarlyCompletion(ledger)
    /\ leg1' = "left"
    /\ UNCHANGED <<verdict, deliveries, reentries, entries, open, threads, grants>>

\* Leg 2 begins (processEvent): a refused entry keeps its increment.
EnterLeg2 ==
    /\ reentries < MaxReentries
    /\ reentries' = reentries + 1
    /\ ledger' = NotarizeReentry(ledger)
    /\ verdict' = ReentryFault(ledger')
    /\ IF verdict' = "none"
       THEN /\ open' = open \cup {DimensionalIndex(ledger')}
            /\ threads' = threads \cup {DimensionalIndex(ledger')}
            /\ grants' = grants + 1
       ELSE UNCHANGED <<open, threads, grants>>
    /\ UNCHANGED <<deliveries, entries, leg1>>

\* A pending answer is saved: the thread ends, leg 2 stays open.
Continue ==
    /\ \E d \in open : open' = open \ {d}
    /\ ledger' = NotarizeContinuation(ledger)
    /\ UNCHANGED <<verdict, deliveries, reentries, entries, leg1, threads, grants>>

\* A final answer is saved: the thread ends and closes leg 2.
Complete ==
    /\ \E d \in open : open' = open \ {d}
    /\ ledger' = NotarizeCompletion(ledger)
    /\ UNCHANGED <<verdict, deliveries, reentries, entries, leg1, threads, grants>>

Next ==
    EnterLeg1 \/ LeaveLeg1 \/ CompleteEarly \/ EnterLeg2 \/ Continue \/ Complete

Spec == Init /\ [][Next]_vars

-----------------------------------------------------------------------------
(* Leg 1 of an activity runs once however often its stream entry is        *)
(* delivered: the second delivery finds a first digit below 8.             *)
EntryOnce == entries <= 1

(* No answer is accepted before leg 1 has been saved: the second digit is  *)
(* only lowered by leg 1's own transaction.                                *)
NoAnswerBeforeExit == threads # {} => leg1 = "left"

(* Every granted leg 2 entry gets a thread number of its own, which is     *)
(* what keeps the dimensional addresses of its children apart.             *)
ThreadsDistinct == Cardinality(threads) = grants

(* Once a final answer is saved, no later leg 2 entry is ever granted.     *)
ClosedStaysClosed == [][Inactive(ledger) => grants' = grants]_vars
=============================================================================
