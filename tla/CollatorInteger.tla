--------------------------- MODULE CollatorInteger --------------------------
(***************************************************************************)
(* CollatorCalls as the code computes it: one integer, changed by adding   *)
(* decimal constants to it and read back by indexing its decimal string.   *)
(* The code's counters are six digits wide; CounterWidth makes them        *)
(* narrower so that TLC's integers hold the number and reach the overflow. *)
(***************************************************************************)
EXTENDS Integers, FiniteSets

CONSTANTS
    CounterWidth,   \* digits of each thread counter, 6 in the code
    MaxDeliveries,
    MaxReentries

\* At six digits the number has 15, which JavaScript adds and prints exactly.
ASSUME WidthAssumption == CounterWidth \in 1..6

VARIABLES amount, verdict, deliveries, reentries, entries, leg1, open, threads, grants

callVars == <<verdict, deliveries, reentries, entries, leg1, open, threads, grants>>
vars == <<amount, callVars>>

\* 1, 10, 100, ...
tens[k \in 0..15] == IF k = 0 THEN 1 ELSE 10 * tens[k - 1]

Slots == tens[CounterWidth]

\* One unit of each digit group: 1, 1_000_000, 1_000_000_000_000, ...
ExitedUnit == 1
EnteredUnitShort == Slots \div 10   \* variant: a zero is missing
EnteredUnit == Slots
Leg2Unit == Slots * Slots
ExitUnit == 10 * Leg2Unit
EntryUnit == 100 * Leg2Unit

SeedAmount == 999 * Leg2Unit

Magnitude(n) == IF n < 0 THEN -n ELSE n

\* Characters in the decimal form of a number's magnitude.
DecimalLength(n) ==
    IF n = 0 THEN 1
    ELSE CHOOSE k \in 1..15 : tens[k - 1] <= Magnitude(n) /\ Magnitude(n) < tens[k]

\* getDigitAtIndex(num, i) < bound.  The sign is a character of its own and
\* parses to NaN, which is below nothing; past the end the code gets null,
\* which compares as 0.
DigitBelow(num, i, bound) ==
    LET at == IF num < 0 THEN i - 1 ELSE i
        length == DecimalLength(num)
    IN  /\ at >= 0
        /\ at < length =>
             (Magnitude(num) \div tens[length - 1 - at]) % 10 < bound

IsPrimedByEntry(num) == DigitBelow(num, 0, 9)   \* variant: leg 1 may be unsaved
IsPrimed(num) == DigitBelow(num, 0, 9) /\ DigitBelow(num, 1, 9)

IsInactiveAfterTwo(num) == DigitBelow(num, 2, 8)   \* variant: off by one
IsInactive(num) == DigitBelow(num, 2, 9)

VerifyEntryLate(num) ==   \* variant: one digit late, and no check of the rest
    IF num = -EntryUnit THEN "missing"
    ELSE IF DigitBelow(num, 0, 7) THEN "duplicate"
    ELSE "none"

VerifyEntry(num) ==
    IF num = -EntryUnit THEN "missing"
    ELSE IF DigitBelow(num, 0, 8) THEN "duplicate"
    ELSE IF num # 899 * Leg2Unit THEN "invalid"
    ELSE "none"

VerifyReentry(num) ==
    IF ~IsPrimed(num) THEN "forbidden"
    ELSE IF IsInactive(num) THEN "inactive"
    ELSE "none"

\* getDimensionalIndex: the characters of the entered counter, less one.
ThreadOfExits(num) == num % Slots   \* variant: the wrong six digits
ThreadOf(num) == ((num \div EnteredUnit) % Slots) - 1

-----------------------------------------------------------------------------
Init ==
    /\ amount \in {SeedAmount, 0}
    /\ verdict = "none"
    /\ deliveries = 0
    /\ reentries = 0
    /\ entries = 0
    /\ leg1 = "out"
    /\ open = {}
    /\ threads = {}
    /\ grants = 0

\* notarizeEntry
EnterLeg1 ==
    /\ deliveries < MaxDeliveries
    /\ deliveries' = deliveries + 1
    /\ amount' = amount - EntryUnit
    /\ verdict' = VerifyEntry(amount')
    /\ IF verdict' = "none"
       THEN entries' = entries + 1 /\ leg1' = "in"
       ELSE UNCHANGED <<entries, leg1>>
    /\ UNCHANGED <<reentries, open, threads, grants>>

\* authorizeReentry
LeaveLeg1 ==
    /\ leg1 = "in"
    /\ amount' = amount - ExitUnit
    /\ leg1' = "left"
    /\ UNCHANGED <<verdict, deliveries, reentries, entries, open, threads, grants>>

\* notarizeEarlyCompletion: one constant for four digit groups
CompleteEarly ==
    /\ leg1 = "in"
    /\ amount' = amount + (EnteredUnit + ExitedUnit) - (ExitUnit + Leg2Unit)
    /\ leg1' = "left"
    /\ UNCHANGED <<verdict, deliveries, reentries, entries, open, threads, grants>>

\* notarizeReentry.  MaxReentries bounds the calls for TLC; the code has no
\* such check, so its counter runs over once Slots calls were made.  A field
\* that is absent reads by its first three digits: the 9th call finds it
\* forbidden instead of closed, and the 109th finds it open.
EnterLeg2 ==
    /\ reentries < MaxReentries
    /\ reentries' = reentries + 1
    /\ amount' = amount + EnteredUnit
    /\ verdict' = VerifyReentry(amount')
    /\ IF verdict' = "none"
       THEN /\ open' = open \cup {ThreadOf(amount')}
            /\ threads' = threads \cup {ThreadOf(amount')}
            /\ grants' = grants + 1
       ELSE UNCHANGED <<open, threads, grants>>
    /\ UNCHANGED <<deliveries, entries, leg1>>

\* notarizeContinuation
Continue ==
    /\ \E d \in open : open' = open \ {d}
    /\ amount' = amount + ExitedUnit
    /\ UNCHANGED <<verdict, deliveries, reentries, entries, leg1, threads, grants>>

\* notarizeCompletion
Complete ==
    /\ \E d \in open : open' = open \ {d}
    /\ amount' = amount + ExitedUnit - Leg2Unit
    /\ UNCHANGED <<verdict, deliveries, reentries, entries, leg1, threads, grants>>

Next ==
    EnterLeg1 \/ LeaveLeg1 \/ CompleteEarly \/ EnterLeg2 \/ Continue \/ Complete

Spec == Init /\ [][Next]_vars

-----------------------------------------------------------------------------
(* The digit groups of the number, read as CollatorCalls' fields.  The     *)
(* groups of a negative number are those of its distance from the entry    *)
(* digit above it.                                                         *)
Decoded ==
    [entry |-> amount \div EntryUnit,
     exit |-> (amount \div ExitUnit) % 10,
     leg2 |-> (amount \div Leg2Unit) % 10,
     entered |-> (amount \div EnteredUnit) % Slots,
     exited |-> amount % Slots]

Calls == INSTANCE CollatorCalls WITH ledger <- Decoded

(* The integer behaves as the five separate fields do: no increment ever   *)
(* carries into, or borrows from, another digit group, and the verdicts    *)
(* read off the decimal string are those the fields call for.              *)
ImplementsCalls == Calls!Spec

(* Leg 1 of an activity runs once however often its entry is delivered.    *)
EntryOnce == Calls!EntryOnce

(* No answer is accepted before leg 1 has been saved.                      *)
NoAnswerBeforeExit == Calls!NoAnswerBeforeExit

(* The thread numbers drive the children's dimensional addresses: none is  *)
(* given out twice.                                                        *)
ThreadsDistinct == Cardinality(threads) = grants

(* collator/README.md, "Success Status": "becuase the third digit is `8`,  *)
(* Leg2 access is not allowed".  Once leg 2 is closed no entry is granted. *)
ClosedStaysClosed == [][(amount \div Leg2Unit) % 10 < 9 => grants' = grants]_vars
=============================================================================
