----------------------- MODULE CollatorInteger_proofs -----------------------
(***************************************************************************)
(* The integer implements the five fields, at every width of the counters  *)
(* up to the code's six digits: the ledger's fields are the digit groups   *)
(* of one number as long as none of them leaves its digits.                *)
(***************************************************************************)
EXTENDS CollatorInteger, FiniteSetTheorems, Sequences, TLAPS

-----------------------------------------------------------------------------
(* Powers of ten.                                                          *)

\* The recursion of tens has a solution, which is a table.
LEMMA TensDef ==
    /\ tens[0] = 1
    /\ \A k \in 0..14 : tens[k + 1] = 10 * tens[k]
<1> DEFINE table == <<1, 10, 100, 1000, 10000, 100000, 1000000, 10000000, 100000000,
                      1000000000, 10000000000, 100000000000, 1000000000000,
                      10000000000000, 100000000000000, 1000000000000000>>
           f == [k \in 0..15 |-> table[k + 1]]
           Solves(g) == g = [k \in 0..15 |-> IF k = 0 THEN 1 ELSE 10 * g[k - 1]]
<1>1. ASSUME NEW k \in 0..15
      PROVE  f[k] = IF k = 0 THEN 1 ELSE 10 * f[k - 1]
  <2>1. \/ k = 0 \/ k = 1 \/ k = 2 \/ k = 3 \/ k = 4 \/ k = 5 \/ k = 6 \/ k = 7
        \/ k = 8 \/ k = 9 \/ k = 10 \/ k = 11 \/ k = 12 \/ k = 13 \/ k = 14 \/ k = 15
    OBVIOUS
  <2> QED
    BY <2>1, SMT
<1>2. Solves(f)
  <2> HIDE DEF table
  <2> QED
    BY <1>1, SMT
<1>3. Solves(tens)
  <2> HIDE DEF f
  <2> QED
    BY <1>2 DEF tens
<1> HIDE DEF f
<1> QED
  BY <1>3, SMT

\* tens[0] to tens[15], one from the other.
LEMMA TensSteps ==
    /\ tens[0] = 1 /\ tens[1] = 10 * tens[0] /\ tens[2] = 10 * tens[1]
    /\ tens[3] = 10 * tens[2] /\ tens[4] = 10 * tens[3] /\ tens[5] = 10 * tens[4]
    /\ tens[6] = 10 * tens[5] /\ tens[7] = 10 * tens[6] /\ tens[8] = 10 * tens[7]
    /\ tens[9] = 10 * tens[8] /\ tens[10] = 10 * tens[9] /\ tens[11] = 10 * tens[10]
    /\ tens[12] = 10 * tens[11] /\ tens[13] = 10 * tens[12]
    /\ tens[14] = 10 * tens[13] /\ tens[15] = 10 * tens[14]
<1>1. \A k \in 0..14 : tens[k + 1] = 10 * tens[k]
  BY TensDef
<1>2. /\ tens[0] = 1 /\ tens[0 + 1] = 10 * tens[0] /\ tens[1 + 1] = 10 * tens[1]
      /\ tens[2 + 1] = 10 * tens[2] /\ tens[3 + 1] = 10 * tens[3] /\ tens[4 + 1] = 10 * tens[4]
      /\ tens[5 + 1] = 10 * tens[5] /\ tens[6 + 1] = 10 * tens[6] /\ tens[7 + 1] = 10 * tens[7]
      /\ tens[8 + 1] = 10 * tens[8] /\ tens[9 + 1] = 10 * tens[9] /\ tens[10 + 1] = 10 * tens[10]
      /\ tens[11 + 1] = 10 * tens[11] /\ tens[12 + 1] = 10 * tens[12]
      /\ tens[13 + 1] = 10 * tens[13] /\ tens[14 + 1] = 10 * tens[14]
  BY TensDef, <1>1, SMT
<1> QED
  BY <1>2, SMT

LEMMA TensGrow ==
    ASSUME NEW k \in 0..15
    PROVE  tens[k] \in Nat /\ tens[k] >= 1
<1>1. \/ k = 0 \/ k = 1 \/ k = 2 \/ k = 3 \/ k = 4 \/ k = 5 \/ k = 6 \/ k = 7
      \/ k = 8 \/ k = 9 \/ k = 10 \/ k = 11 \/ k = 12 \/ k = 13 \/ k = 14 \/ k = 15
  OBVIOUS
<1> QED
  BY <1>1, TensSteps, SMT

LEMMA TensMonotone ==
    ASSUME NEW j \in 0..15, NEW k \in 0..15, j <= k
    PROVE  tens[j] <= tens[k]
<1>1. \/ j = 0 \/ j = 1 \/ j = 2 \/ j = 3 \/ j = 4 \/ j = 5 \/ j = 6 \/ j = 7
      \/ j = 8 \/ j = 9 \/ j = 10 \/ j = 11 \/ j = 12 \/ j = 13 \/ j = 14 \/ j = 15
  OBVIOUS
<1>2. \/ k = 0 \/ k = 1 \/ k = 2 \/ k = 3 \/ k = 4 \/ k = 5 \/ k = 6 \/ k = 7
      \/ k = 8 \/ k = 9 \/ k = 10 \/ k = 11 \/ k = 12 \/ k = 13 \/ k = 14 \/ k = 15
  OBVIOUS
<1> QED
  BY <1>1, <1>2, TensSteps, SMT

\* The units of the digit groups are powers of ten.
LEMMA Units ==
    /\ CounterWidth \in 1..6
    /\ Slots = tens[CounterWidth]
    /\ Leg2Unit = tens[2 * CounterWidth]
    /\ ExitUnit = tens[2 * CounterWidth + 1]
    /\ EntryUnit = tens[2 * CounterWidth + 2]
    /\ 10 * EntryUnit = tens[2 * CounterWidth + 3]
    /\ Slots \in Nat /\ Slots >= 10 /\ Leg2Unit \in Nat /\ Leg2Unit >= 100
<1>1. CASE CounterWidth = 1
  BY <1>1, TensSteps, SMT DEF Slots, Leg2Unit, ExitUnit, EntryUnit
<1>2. CASE CounterWidth = 2
  BY <1>2, TensSteps, SMT DEF Slots, Leg2Unit, ExitUnit, EntryUnit
<1>3. CASE CounterWidth = 3
  BY <1>3, TensSteps, SMT DEF Slots, Leg2Unit, ExitUnit, EntryUnit
<1>4. CASE CounterWidth = 4
  BY <1>4, TensSteps, SMT DEF Slots, Leg2Unit, ExitUnit, EntryUnit
<1>5. CASE CounterWidth = 5
  BY <1>5, TensSteps, SMT DEF Slots, Leg2Unit, ExitUnit, EntryUnit
<1>6. CASE CounterWidth = 6
  BY <1>6, TensSteps, SMT DEF Slots, Leg2Unit, ExitUnit, EntryUnit
<1> QED
  BY <1>1, <1>2, <1>3, <1>4, <1>5, <1>6, WidthAssumption

-----------------------------------------------------------------------------
(* Numbers and their digit groups.                                         *)

LEMMA Quotient ==
    ASSUME NEW u \in Nat, u >= 1, NEW n \in Int, NEW a \in Int, NEW r \in 0..(u - 1),
           n = a * u + r
    PROVE  n \div u = a /\ n % u = r
  OBVIOUS

LEMMA Distribute ==
    ASSUME NEW a \in Int, NEW b \in Int, NEW c \in Int, NEW u \in Int
    PROVE  (100 * a + 10 * b + c) * u = 100 * (a * u) + 10 * (b * u) + c * u
<1>1. (100 * a + 10 * b + c) * u = (100 * a) * u + (10 * b) * u + c * u
  OBVIOUS
<1> QED
  BY <1>1

\* The number of a ledger, and the ledgers whose fields fit their digits.  The
\* first digit may be negative: nothing is above it.
Number(l) ==
    l.entry * EntryUnit + l.exit * ExitUnit + l.leg2 * Leg2Unit + l.entered * Slots + l.exited

Fitting ==
    [entry : Int, exit : 0..9, leg2 : 0..9, entered : 0..(Slots - 1), exited : 0..(Slots - 1)]

Groups(n) ==
    [entry |-> n \div EntryUnit,
     exit |-> (n \div ExitUnit) % 10,
     leg2 |-> (n \div Leg2Unit) % 10,
     entered |-> (n \div EnteredUnit) % Slots,
     exited |-> n % Slots]

\* The thread counters are below the third digit's unit, and so on upwards.
LEMMA Columns ==
    ASSUME NEW l \in Fitting
    PROVE  /\ Number(l) \in Int
           /\ \E s \in 0..(Leg2Unit - 1) :
                /\ s = l.entered * Slots + l.exited
                /\ Number(l) = (100 * l.entry + 10 * l.exit + l.leg2) * Leg2Unit + s
           /\ \E s \in 0..(ExitUnit - 1) : Number(l) = (10 * l.entry + l.exit) * ExitUnit + s
           /\ \E s \in 0..(EntryUnit - 1) : Number(l) = l.entry * EntryUnit + s
<1> DEFINE U == Leg2Unit
           s == l.entered * Slots + l.exited
<1>1. /\ U \in Nat /\ U >= 100 /\ Slots \in Nat /\ Slots >= 10 /\ U = Slots * Slots
      /\ ExitUnit = 10 * U /\ EntryUnit = 100 * U
  BY Units DEF Leg2Unit, ExitUnit, EntryUnit
<1>2. /\ l.entry \in Int /\ l.exit \in 0..9 /\ l.leg2 \in 0..9
      /\ l.entered \in 0..(Slots - 1) /\ l.exited \in 0..(Slots - 1)
  BY DEF Fitting
<1>3. s \in 0..(U - 1)
  <2>1. l.entered * Slots <= (Slots - 1) * Slots /\ l.entered * Slots >= 0
    BY <1>1, <1>2
  <2>2. (Slots - 1) * Slots = U - Slots
    BY <1>1
  <2> QED
    BY <1>1, <1>2, <2>1, <2>2
<1>4. /\ l.exit * ExitUnit = 10 * (l.exit * U) /\ l.entry * EntryUnit = 100 * (l.entry * U)
      /\ l.exit * U \in Int /\ l.entry * U \in Int /\ l.leg2 * U \in Int
  BY <1>1, <1>2
<1>5. /\ 0 <= l.exit * U /\ l.exit * U <= 9 * U /\ 0 <= l.leg2 * U /\ l.leg2 * U <= 9 * U
  BY <1>1, <1>2
<1>6. Number(l) = 100 * (l.entry * U) + 10 * (l.exit * U) + l.leg2 * U + s
  BY <1>1, <1>2, <1>4 DEF Number
<1>7. (100 * l.entry + 10 * l.exit + l.leg2) * U
        = 100 * (l.entry * U) + 10 * (l.exit * U) + l.leg2 * U
  <2>1. l.exit \in Int /\ l.leg2 \in Int /\ U \in Int
    BY <1>1, <1>2
  <2> DEFINE e == l.entry
             x == l.exit
             t == l.leg2
  <2>2. e \in Int /\ x \in Int /\ t \in Int
    BY <1>2, <2>1
  <2> HIDE DEF U, e, x, t
  <2>3. (100 * e + 10 * x + t) * U = 100 * (e * U) + 10 * (x * U) + t * U
    BY <2>1, <2>2, Distribute
  <2> QED
    BY <2>3 DEF e, x, t
<1>8. (10 * l.entry + l.exit) * ExitUnit = 100 * (l.entry * U) + 10 * (l.exit * U)
  BY <1>1, <1>2
<1> HIDE DEF s
<1>9. s \in Int
  BY <1>1, <1>3
<1>10. Number(l) \in Int
  BY <1>4, <1>6, <1>9
<1>11. l.leg2 * U + s \in 0..(ExitUnit - 1)
  BY <1>1, <1>3, <1>4, <1>5, <1>9
<1>12. 10 * (l.exit * U) + l.leg2 * U + s \in 0..(EntryUnit - 1)
  BY <1>1, <1>3, <1>4, <1>5, <1>9
<1>13. Number(l) = (100 * l.entry + 10 * l.exit + l.leg2) * U + s
  BY <1>6, <1>7
<1>14. Number(l) = (10 * l.entry + l.exit) * ExitUnit + (l.leg2 * U + s)
  BY <1>4, <1>6, <1>8, <1>9
<1>15. Number(l) = l.entry * EntryUnit + (10 * (l.exit * U) + l.leg2 * U + s)
  BY <1>4, <1>6, <1>9
<1>16. s = l.entered * Slots + l.exited
  BY DEF s
<1> QED
  BY <1>3, <1>10, <1>11, <1>12, <1>13, <1>14, <1>15, <1>16

LEMMA GroupsOfNumber ==
    ASSUME NEW l \in Fitting
    PROVE  Groups(Number(l)) = l
<1> DEFINE n == Number(l)
           h == 100 * l.entry + 10 * l.exit + l.leg2
<1>1. /\ Leg2Unit \in Nat /\ Leg2Unit >= 1 /\ Slots \in Nat /\ Slots >= 1
      /\ ExitUnit \in Nat /\ ExitUnit >= 1 /\ EntryUnit \in Nat /\ EntryUnit >= 1
  BY Units DEF ExitUnit, EntryUnit
<1>2. /\ l.entry \in Int /\ l.exit \in 0..9 /\ l.leg2 \in 0..9
      /\ l.entered \in 0..(Slots - 1) /\ l.exited \in 0..(Slots - 1)
  BY DEF Fitting
<1>3. n \in Int
  BY Columns
<1> HIDE DEF n
<1>4. n \div EntryUnit = l.entry
  <2>1. PICK s \in 0..(EntryUnit - 1) : n = l.entry * EntryUnit + s
    BY Columns DEF n
  <2> QED
    BY <1>1, <1>2, <1>3, <2>1, Quotient
<1>5. (n \div ExitUnit) % 10 = l.exit
  <2> DEFINE a == 10 * l.entry + l.exit
  <2>1. PICK s \in 0..(ExitUnit - 1) : n = a * ExitUnit + s
    BY Columns DEF n
  <2>2. a \in Int /\ a % 10 = l.exit
    BY <1>2
  <2> HIDE DEF a
  <2>3. n \div ExitUnit = a
    BY <1>1, <1>3, <2>1, <2>2, Quotient
  <2> QED
    BY <2>2, <2>3
<1>6. h \in Int /\ h % 10 = l.leg2
  BY <1>2
<1>7. PICK s \in 0..(Leg2Unit - 1) : s = l.entered * Slots + l.exited /\ n = h * Leg2Unit + s
  BY Columns DEF n
<1> HIDE DEF h
<1>8. n \div Leg2Unit = h
  BY <1>1, <1>3, <1>6, <1>7, Quotient
<1> DEFINE m == h * Slots + l.entered
<1>9. m \in Int /\ m % Slots = l.entered
  <2>1. m \in Int
    BY <1>1, <1>2, <1>6
  <2> QED
    BY <1>1, <1>2, <1>6, <2>1, Quotient
<1>10. n = m * Slots + l.exited
  <2>1. m * Slots = h * (Slots * Slots) + l.entered * Slots
    BY <1>1, <1>2, <1>6
  <2>2. h * Leg2Unit = h * (Slots * Slots)
    BY DEF Leg2Unit
  <2>3. /\ h * (Slots * Slots) \in Int /\ l.entered * Slots \in Int
    BY <1>1, <1>2, <1>6
  <2> QED
    BY <1>2, <1>7, <2>1, <2>2, <2>3
<1> HIDE DEF m
<1>11. n \div Slots = m /\ n % Slots = l.exited
  <2>1. PICK r \in 0..(Slots - 1) : r = l.exited /\ n = m * Slots + r
    BY <1>2, <1>10
  <2>2. n \div Slots = m /\ n % Slots = r
    BY <1>1, <1>3, <1>9, <2>1, Quotient
  <2> QED
    BY <2>1, <2>2
<1> QED
  BY <1>4, <1>5, <1>6, <1>8, <1>9, <1>11 DEF Groups, Fitting, n, EnteredUnit

-----------------------------------------------------------------------------
(* The digits of the decimal string.                                       *)

LEMMA LengthIs ==
    ASSUME NEW n \in Int, NEW k \in 1..15, tens[k - 1] <= Magnitude(n), Magnitude(n) < tens[k]
    PROVE  DecimalLength(n) = k
<1>1. n # 0
  BY TensGrow DEF Magnitude
<1>2. Magnitude(n) \in Int
  BY DEF Magnitude
<1>3. ASSUME NEW j \in 1..15, tens[j - 1] <= Magnitude(n), Magnitude(n) < tens[j]
      PROVE  j = k
  <2>1. CASE j < k
    <3>1. tens[j] <= tens[k - 1] /\ tens[j] \in Nat /\ tens[k - 1] \in Nat
      BY <2>1, TensMonotone, TensGrow
    <3> QED
      BY <1>2, <1>3, <3>1
  <2>2. CASE k < j
    <3>1. tens[k] <= tens[j - 1] /\ tens[k] \in Nat /\ tens[j - 1] \in Nat
      BY <2>2, TensMonotone, TensGrow
    <3> QED
      BY <1>2, <1>3, <3>1
  <2> QED
    BY <2>1, <2>2
<1> QED
  BY <1>1, <1>3 DEF DecimalLength

\* While the first digit is one, the first three digits of the string are the
\* first three fields.
LEMMA LeadingDigits ==
    ASSUME NEW l \in Fitting, l.entry \in 1..9, NEW b \in Nat
    PROVE  /\ Number(l) > 0
           /\ DigitBelow(Number(l), 0, b) <=> l.entry < b
           /\ DigitBelow(Number(l), 1, b) <=> l.exit < b
           /\ DigitBelow(Number(l), 2, b) <=> l.leg2 < b
<1> DEFINE n == Number(l)
           w == 2 * CounterWidth
<1>1. /\ w \in 2..12 /\ EntryUnit = tens[w + 2] /\ ExitUnit = tens[w + 1] /\ Leg2Unit = tens[w]
      /\ 10 * EntryUnit = tens[w + 3] /\ EntryUnit \in Nat /\ EntryUnit >= 1
  BY Units, TensGrow
<1>2. n \in Int /\ EntryUnit <= n /\ n < 10 * EntryUnit
  <2>1. PICK s \in 0..(EntryUnit - 1) : n = l.entry * EntryUnit + s
    BY Columns
  <2>2. EntryUnit <= l.entry * EntryUnit /\ l.entry * EntryUnit <= 9 * EntryUnit
    BY <1>1
  <2> QED
    BY <1>1, <2>1, <2>2, Columns
<1>3. /\ n \div EntryUnit = l.entry /\ (n \div ExitUnit) % 10 = l.exit
      /\ (n \div Leg2Unit) % 10 = l.leg2
  BY GroupsOfNumber DEF Groups
<1> HIDE DEF n, w
<1>4. DecimalLength(n) = w + 3
  <2>1. Magnitude(n) = n /\ w + 3 \in 1..15 /\ (w + 3) - 1 = w + 2
    BY <1>1, <1>2 DEF Magnitude
  <2> QED
    BY <1>1, <1>2, <2>1, LengthIs
<1>5. n > 0 /\ ~(n < 0) /\ Magnitude(n) = n
  BY <1>1, <1>2 DEF Magnitude
<1>6. /\ 0 < w + 3 /\ 1 < w + 3 /\ 2 < w + 3
      /\ (w + 3) - 1 - 0 = w + 2 /\ (w + 3) - 1 - 1 = w + 1 /\ (w + 3) - 1 - 2 = w
  BY <1>1
<1>7. l.entry % 10 = l.entry
  OBVIOUS
<1>8. DigitBelow(n, 0, b) <=> l.entry < b
  BY <1>1, <1>3, <1>4, <1>5, <1>6, <1>7 DEF DigitBelow
<1>9. DigitBelow(n, 1, b) <=> l.exit < b
  BY <1>1, <1>3, <1>4, <1>5, <1>6 DEF DigitBelow
<1>10. DigitBelow(n, 2, b) <=> l.leg2 < b
  BY <1>1, <1>3, <1>4, <1>5, <1>6 DEF DigitBelow
<1> QED
  BY <1>5, <1>8, <1>9, <1>10 DEF n

\* Of a field that was absent, the first eight leg 2 entries leave one digit
\* and zeros: both checks read them as a leg 1 that was left, and a closed leg 2.
LEMMA CountedFromZero ==
    ASSUME NEW k \in 1..8
    PROVE  \A i \in 0..2 : DigitBelow(k * Slots, i, 9)
<1> DEFINE n == k * Slots
           w == CounterWidth
<1>1. /\ w \in 1..6 /\ Slots = tens[w] /\ Slots \in Nat /\ Slots >= 10
      /\ tens[w + 1] = 10 * Slots
  BY Units, TensDef
<1>2. n \in Int /\ Slots <= n /\ n < 10 * Slots
  BY <1>1
<1>3. n \div tens[w] = k
  BY <1>1, <1>2, Quotient
<1>4. (n \div tens[w - 1]) % 10 = 0
  <2>1. tens[w] = 10 * tens[w - 1] /\ tens[w - 1] \in Nat /\ tens[w - 1] >= 1
    BY <1>1, TensDef, TensGrow
  <2>2. n = (10 * k) * tens[w - 1] + 0
    BY <1>1, <2>1
  <2>3. n \div tens[w - 1] = 10 * k
    BY <1>2, <2>1, <2>2, Quotient
  <2> QED
    BY <2>3
<1>5. w >= 2 => (n \div tens[w - 2]) % 10 = 0
  <2> SUFFICES ASSUME w >= 2 PROVE (n \div tens[w - 2]) % 10 = 0
    OBVIOUS
  <2>1. /\ tens[w] = 10 * tens[w - 1] /\ tens[w - 1] = 10 * tens[w - 2]
        /\ tens[w - 2] \in Nat /\ tens[w - 2] >= 1
    BY <1>1, TensDef, TensGrow
  <2>2. n = (100 * k) * tens[w - 2] + 0
    BY <1>1, <2>1
  <2>3. n \div tens[w - 2] = 100 * k
    BY <1>2, <2>1, <2>2, Quotient
  <2> QED
    BY <2>3
<1> HIDE DEF n, w
<1>6. DecimalLength(n) = w + 1
  <2>1. Magnitude(n) = n /\ w + 1 \in 1..15 /\ (w + 1) - 1 = w
    BY <1>1, <1>2 DEF Magnitude
  <2> QED
    BY <1>1, <1>2, <2>1, LengthIs
<1>7. ~(n < 0) /\ Magnitude(n) = n
  BY <1>1, <1>2 DEF Magnitude
<1>8. DigitBelow(n, 0, 9)
  <2>1. (w + 1) - 1 - 0 = w /\ k % 10 = k /\ k < 9
    BY <1>1
  <2> QED
    BY <1>3, <1>6, <1>7, <2>1 DEF DigitBelow
<1>9. DigitBelow(n, 1, 9)
  <2>1. (w + 1) - 1 - 1 = w - 1
    BY <1>1
  <2> QED
    BY <1>4, <1>6, <1>7, <2>1 DEF DigitBelow
<1>10. DigitBelow(n, 2, 9)
  <2>1. (w + 1) - 1 - 2 = w - 2 /\ (2 < w + 1 => w >= 2)
    BY <1>1
  <2> QED
    BY <1>5, <1>6, <1>7, <2>1 DEF DigitBelow
<1> QED
  BY <1>8, <1>9, <1>10 DEF n

-----------------------------------------------------------------------------
(* What the checks find is what the fields call for.                       *)

\* Different ledgers have different numbers.
LEMMA NumberInjective ==
    ASSUME NEW l \in Fitting, NEW m \in Fitting, Number(l) = Number(m)
    PROVE  l = m
  BY GroupsOfNumber

LEMMA NegativeEntry ==
    ASSUME NEW l \in Fitting, l.entry < 0
    PROVE  /\ Number(l) < 0
           /\ \A b : ~DigitBelow(Number(l), 0, b)
<1>1. EntryUnit \in Nat /\ EntryUnit >= 1 /\ l.entry \in Int
  BY Units DEF EntryUnit, Fitting
<1>2. PICK s \in 0..(EntryUnit - 1) : Number(l) = l.entry * EntryUnit + s
  BY Columns
<1>3. l.entry * EntryUnit <= -EntryUnit
  BY <1>1
<1>4. Number(l) < 0
  BY <1>1, <1>2, <1>3
<1> QED
  BY <1>4 DEF DigitBelow

LEMMA EntryVerdict ==
    ASSUME NEW l \in Fitting, l.entry \in 1..9 \/ l.entry < 0
    PROVE  VerifyEntry(Number(l)) = Calls!EntryFault(l)
<1> DEFINE missing == Calls!NotarizeEntry(Calls!Absent)
<1>1. /\ missing = [entry |-> -1, exit |-> 0, leg2 |-> 0, entered |-> 0, exited |-> 0]
      /\ Calls!Entered = [entry |-> 8, exit |-> 9, leg2 |-> 9, entered |-> 0, exited |-> 0]
  BY DEF Calls!NotarizeEntry, Calls!Absent, Calls!Entered, Calls!Digits
<1>2. /\ missing \in Fitting /\ Calls!Entered \in Fitting
  BY <1>1, Units DEF Fitting
<1>3. Leg2Unit \in Nat /\ Leg2Unit >= 1 /\ EntryUnit = 100 * Leg2Unit /\ ExitUnit = 10 * Leg2Unit
      /\ Slots \in Nat
  BY Units DEF EntryUnit, ExitUnit
<1>4. Number(missing) = -EntryUnit
  BY <1>1, <1>3 DEF Number
<1>5. Number(Calls!Entered) = 899 * Leg2Unit
  BY <1>1, <1>3 DEF Number
<1>6. Number(l) = -EntryUnit <=> l = missing
  BY <1>2, <1>4, NumberInjective
<1>7. Number(l) = 899 * Leg2Unit <=> l = Calls!Entered
  BY <1>2, <1>5, NumberInjective
<1>8. DigitBelow(Number(l), 0, 8) <=> l.entry \in 0..7
  <2>1. CASE l.entry \in 1..9
    BY <2>1, LeadingDigits
  <2>2. CASE l.entry < 0
    BY <2>2, NegativeEntry
  <2> QED
    BY <2>1, <2>2
<1> HIDE DEF missing
<1> QED
  BY <1>6, <1>7, <1>8
  DEF VerifyEntry, Calls!EntryFault, Calls!PrimedForEntry, Calls!DuplicateEntry, missing

LEMMA ReentryVerdict ==
    ASSUME NEW l \in Fitting,
           \/ l.entry \in 1..9
           \/ l.entry < 0
           \/ /\ l.entry = 0 /\ l.exit = 0 /\ l.leg2 = 0 /\ l.exited = 0
              /\ l.entered \in 1..8
    PROVE  VerifyReentry(Number(l)) = Calls!ReentryFault(l)
<1>1. CASE l.entry \in 1..9
  <2>1. /\ IsPrimed(Number(l)) <=> Calls!PrimedForReentry(l)
        /\ IsInactive(Number(l)) <=> Calls!Inactive(l)
    BY <1>1, LeadingDigits DEF IsPrimed, IsInactive, Calls!PrimedForReentry, Calls!Inactive
  <2> QED
    BY <2>1 DEF VerifyReentry, Calls!ReentryFault
<1>2. CASE l.entry < 0
  <2>1. ~IsPrimed(Number(l)) /\ ~Calls!PrimedForReentry(l)
    BY <1>2, NegativeEntry DEF IsPrimed, Calls!PrimedForReentry
  <2> QED
    BY <2>1 DEF VerifyReentry, Calls!ReentryFault
<1>3. CASE /\ l.entry = 0 /\ l.exit = 0 /\ l.leg2 = 0 /\ l.exited = 0
           /\ l.entered \in 1..8
  <2>1. Number(l) = l.entered * Slots
    BY <1>3, Units DEF Number, ExitUnit, EntryUnit
  <2>2. IsPrimed(Number(l)) /\ IsInactive(Number(l))
    BY <1>3, <2>1, CountedFromZero DEF IsPrimed, IsInactive
  <2>3. Calls!PrimedForReentry(l) /\ Calls!Inactive(l)
    BY <1>3 DEF Calls!PrimedForReentry, Calls!Inactive
  <2> QED
    BY <2>2, <2>3 DEF VerifyReentry, Calls!ReentryFault
<1> QED
  BY <1>1, <1>2, <1>3

LEMMA ThreadRead ==
    ASSUME NEW l \in Fitting
    PROVE  ThreadOf(Number(l)) = Calls!DimensionalIndex(l)
  BY GroupsOfNumber DEF Groups, ThreadOf, Calls!DimensionalIndex

\* The increments, on the fields and on the number.
LEMMA IncrementedFields ==
    ASSUME NEW l \in Fitting
    PROVE  /\ Calls!NotarizeEntry(l) =
                Calls!Digits(l.entry - 1, l.exit, l.leg2, l.entered, l.exited)
           /\ Calls!AuthorizeReentry(l) =
                Calls!Digits(l.entry, l.exit - 1, l.leg2, l.entered, l.exited)
           /\ Calls!NotarizeReentry(l) =
                Calls!Digits(l.entry, l.exit, l.leg2, l.entered + 1, l.exited)
           /\ Calls!NotarizeContinuation(l) =
                Calls!Digits(l.entry, l.exit, l.leg2, l.entered, l.exited + 1)
           /\ Calls!NotarizeCompletion(l) =
                Calls!Digits(l.entry, l.exit, l.leg2 - 1, l.entered, l.exited + 1)
           /\ Calls!NotarizeEarlyCompletion(l) =
                Calls!Digits(l.entry, l.exit - 1, l.leg2 - 1, l.entered + 1, l.exited + 1)
<1>1. ASSUME NEW e \in Int, NEW x \in Int, NEW t \in Int, NEW i \in Int, NEW o \in Int
      PROVE  LET d == Calls!Digits(e, x, t, i, o) IN
             /\ Calls!NotarizeEntry(d) = Calls!Digits(e - 1, x, t, i, o)
             /\ Calls!AuthorizeReentry(d) = Calls!Digits(e, x - 1, t, i, o)
             /\ Calls!NotarizeReentry(d) = Calls!Digits(e, x, t, i + 1, o)
             /\ Calls!NotarizeContinuation(d) = Calls!Digits(e, x, t, i, o + 1)
             /\ Calls!NotarizeCompletion(d) = Calls!Digits(e, x, t - 1, i, o + 1)
  <2> DEFINE d == Calls!Digits(e, x, t, i, o)
  <2>1. Calls!NotarizeEntry(d) = Calls!Digits(e - 1, x, t, i, o)
    BY DEF Calls!Digits, Calls!NotarizeEntry
  <2>2. Calls!AuthorizeReentry(d) = Calls!Digits(e, x - 1, t, i, o)
    BY DEF Calls!Digits, Calls!AuthorizeReentry
  <2>3. Calls!NotarizeReentry(d) = Calls!Digits(e, x, t, i + 1, o)
    BY DEF Calls!Digits, Calls!NotarizeReentry
  <2>4. Calls!NotarizeContinuation(d) = Calls!Digits(e, x, t, i, o + 1)
    BY DEF Calls!Digits, Calls!NotarizeContinuation
  <2>5. [d EXCEPT !.leg2 = @ - 1] = Calls!Digits(e, x, t - 1, i, o)
    BY DEF Calls!Digits
  <2>6. Calls!NotarizeContinuation(Calls!Digits(e, x, t - 1, i, o))
          = Calls!Digits(e, x, t - 1, i, o + 1)
    BY DEF Calls!Digits, Calls!NotarizeContinuation
  <2>7. Calls!NotarizeCompletion(d) = Calls!Digits(e, x, t - 1, i, o + 1)
    BY <2>5, <2>6 DEF Calls!NotarizeCompletion
  <2> QED
    BY <2>1, <2>2, <2>3, <2>4, <2>7
<1> DEFINE e == l.entry
           x == l.exit
           t == l.leg2
           i == l.entered
           o == l.exited
<1>2. /\ e \in Int /\ x \in Int /\ t \in Int /\ i \in Int /\ o \in Int
      /\ x - 1 \in Int /\ i + 1 \in Int
  BY Units DEF Fitting
<1>3. l = Calls!Digits(e, x, t, i, o)
  BY DEF Fitting, Calls!Digits
<1> HIDE DEF e, x, t, i, o
<1>4. Calls!NotarizeReentry(Calls!AuthorizeReentry(l)) = Calls!Digits(e, x - 1, t, i + 1, o)
  BY <1>1, <1>2, <1>3
<1>5. Calls!NotarizeEarlyCompletion(l) = Calls!Digits(e, x - 1, t - 1, i + 1, o + 1)
  BY <1>1, <1>2, <1>4 DEF Calls!NotarizeEarlyCompletion
<1>6. /\ Calls!NotarizeEntry(l) = Calls!Digits(e - 1, x, t, i, o)
      /\ Calls!AuthorizeReentry(l) = Calls!Digits(e, x - 1, t, i, o)
      /\ Calls!NotarizeReentry(l) = Calls!Digits(e, x, t, i + 1, o)
      /\ Calls!NotarizeContinuation(l) = Calls!Digits(e, x, t, i, o + 1)
      /\ Calls!NotarizeCompletion(l) = Calls!Digits(e, x, t - 1, i, o + 1)
  <2> DEFINE d == Calls!Digits(e, x, t, i, o)
  <2>1. /\ Calls!NotarizeEntry(d) = Calls!Digits(e - 1, x, t, i, o)
        /\ Calls!AuthorizeReentry(d) = Calls!Digits(e, x - 1, t, i, o)
        /\ Calls!NotarizeReentry(d) = Calls!Digits(e, x, t, i + 1, o)
        /\ Calls!NotarizeContinuation(d) = Calls!Digits(e, x, t, i, o + 1)
        /\ Calls!NotarizeCompletion(d) = Calls!Digits(e, x, t - 1, i, o + 1)
    BY <1>1, <1>2
  <2>2. l = d
    BY <1>3
  <2> HIDE DEF d
  <2> QED
    BY <2>1, <2>2
<1> QED
  BY <1>5, <1>6 DEF e, x, t, i, o

LEMMA NumberOfDigits ==
    ASSUME NEW e \in Int, NEW x \in Int, NEW t \in Int, NEW i \in Int, NEW o \in Int
    PROVE  LET n == Number(Calls!Digits(e, x, t, i, o)) IN
           /\ n \in Int
           /\ Number(Calls!Digits(e - 1, x, t, i, o)) = n - EntryUnit
           /\ Number(Calls!Digits(e, x - 1, t, i, o)) = n - ExitUnit
           /\ Number(Calls!Digits(e, x, t - 1, i, o)) = n - Leg2Unit
           /\ Number(Calls!Digits(e, x, t, i + 1, o)) = n + EnteredUnit
           /\ Number(Calls!Digits(e, x, t, i, o + 1)) = n + ExitedUnit
<1>1. /\ EntryUnit \in Int /\ ExitUnit \in Int /\ Leg2Unit \in Int /\ Slots \in Int
      /\ EnteredUnit = Slots /\ ExitedUnit = 1
  BY Units DEF EntryUnit, ExitUnit, EnteredUnit, ExitedUnit
<1>2. \A a, b, c, d, f : Number(Calls!Digits(a, b, c, d, f)) =
        a * EntryUnit + b * ExitUnit + c * Leg2Unit + d * Slots + f
  BY DEF Number, Calls!Digits
<1>3. /\ (e - 1) * EntryUnit = e * EntryUnit - EntryUnit
      /\ (x - 1) * ExitUnit = x * ExitUnit - ExitUnit
      /\ (t - 1) * Leg2Unit = t * Leg2Unit - Leg2Unit
      /\ (i + 1) * Slots = i * Slots + Slots
  BY <1>1
<1>4. /\ e * EntryUnit \in Int /\ x * ExitUnit \in Int /\ t * Leg2Unit \in Int
      /\ i * Slots \in Int
  BY <1>1
<1> QED
  BY <1>1, <1>2, <1>3, <1>4

LEMMA StepNumbers ==
    ASSUME NEW l \in Fitting
    PROVE  LET n == Number(l) IN
           /\ n \in Int
           /\ Number(Calls!NotarizeEntry(l)) = n - EntryUnit
           /\ Number(Calls!AuthorizeReentry(l)) = n - ExitUnit
           /\ Number(Calls!NotarizeReentry(l)) = n + EnteredUnit
           /\ Number(Calls!NotarizeContinuation(l)) = n + ExitedUnit
           /\ Number(Calls!NotarizeCompletion(l)) = n + ExitedUnit - Leg2Unit
           /\ Number(Calls!NotarizeEarlyCompletion(l))
                = n + (EnteredUnit + ExitedUnit) - (ExitUnit + Leg2Unit)
<1> DEFINE e == l.entry
           x == l.exit
           t == l.leg2
           i == l.entered
           o == l.exited
<1>1. /\ e \in Int /\ x \in Int /\ t \in Int /\ i \in Int /\ o \in Int
      /\ x - 1 \in Int /\ i + 1 \in Int /\ t - 1 \in Int
  BY Units DEF Fitting
<1>2. /\ l = Calls!Digits(e, x, t, i, o)
      /\ Calls!NotarizeEntry(l) = Calls!Digits(e - 1, x, t, i, o)
      /\ Calls!AuthorizeReentry(l) = Calls!Digits(e, x - 1, t, i, o)
      /\ Calls!NotarizeReentry(l) = Calls!Digits(e, x, t, i + 1, o)
      /\ Calls!NotarizeContinuation(l) = Calls!Digits(e, x, t, i, o + 1)
      /\ Calls!NotarizeCompletion(l) = Calls!Digits(e, x, t - 1, i, o + 1)
      /\ Calls!NotarizeEarlyCompletion(l) = Calls!Digits(e, x - 1, t - 1, i + 1, o + 1)
  <2>1. l = Calls!Digits(e, x, t, i, o)
    BY DEF Fitting, Calls!Digits
  <2> QED
    BY <2>1, IncrementedFields
<1>3. /\ EntryUnit \in Int /\ ExitUnit \in Int /\ Leg2Unit \in Int /\ EnteredUnit \in Int
      /\ ExitedUnit \in Int
  BY Units DEF EntryUnit, ExitUnit, EnteredUnit, ExitedUnit
<1> HIDE DEF e, x, t, i, o
<1> DEFINE n(a, b, c, f, g) == Number(Calls!Digits(a, b, c, f, g))
<1>4. /\ n(e, x, t, i, o) \in Int
      /\ n(e - 1, x, t, i, o) = n(e, x, t, i, o) - EntryUnit
      /\ n(e, x - 1, t, i, o) = n(e, x, t, i, o) - ExitUnit
      /\ n(e, x, t, i + 1, o) = n(e, x, t, i, o) + EnteredUnit
      /\ n(e, x, t, i, o + 1) = n(e, x, t, i, o) + ExitedUnit
  BY <1>1, NumberOfDigits
<1>5. n(e, x, t - 1, i, o + 1) = n(e, x, t, i, o) - Leg2Unit + ExitedUnit
  <2>1. /\ n(e, x, t - 1, i, o) = n(e, x, t, i, o) - Leg2Unit
        /\ n(e, x, t - 1, i, o + 1) = n(e, x, t - 1, i, o) + ExitedUnit
    BY <1>1, NumberOfDigits
  <2> QED
    BY <2>1
<1>6. n(e, x - 1, t - 1, i + 1, o + 1)
        = n(e, x, t, i, o) - ExitUnit + EnteredUnit - Leg2Unit + ExitedUnit
  <2>1. /\ n(e, x - 1, t, i, o) = n(e, x, t, i, o) - ExitUnit
        /\ n(e, x - 1, t, i + 1, o) = n(e, x - 1, t, i, o) + EnteredUnit
        /\ n(e, x - 1, t - 1, i + 1, o) = n(e, x - 1, t, i + 1, o) - Leg2Unit
        /\ n(e, x - 1, t - 1, i + 1, o + 1) = n(e, x - 1, t - 1, i + 1, o) + ExitedUnit
    <3>1. n(e, x - 1, t, i, o) = n(e, x, t, i, o) - ExitUnit
      BY <1>1, NumberOfDigits
    <3>2. n(e, x - 1, t, i + 1, o) = n(e, x - 1, t, i, o) + EnteredUnit
      BY <1>1, NumberOfDigits
    <3>3. n(e, x - 1, t - 1, i + 1, o) = n(e, x - 1, t, i + 1, o) - Leg2Unit
      BY <1>1, NumberOfDigits
    <3>4. n(e, x - 1, t - 1, i + 1, o + 1) = n(e, x - 1, t - 1, i + 1, o) + ExitedUnit
      BY <1>1, NumberOfDigits
    <3> QED
      BY <3>1, <3>2, <3>3, <3>4
  <2> QED
    BY <1>3, <1>4, <2>1
<1> DEFINE m == n(e, x, t, i, o)
<1>7. Number(l) = m
  BY <1>2
<1> HIDE DEF m
<1>8. m \in Int
  BY <1>4 DEF m
<1>9. /\ Number(Calls!NotarizeEntry(l)) = m - EntryUnit
      /\ Number(Calls!AuthorizeReentry(l)) = m - ExitUnit
      /\ Number(Calls!NotarizeReentry(l)) = m + EnteredUnit
      /\ Number(Calls!NotarizeContinuation(l)) = m + ExitedUnit
      /\ Number(Calls!NotarizeCompletion(l)) = m - Leg2Unit + ExitedUnit
      /\ Number(Calls!NotarizeEarlyCompletion(l))
           = m - ExitUnit + EnteredUnit - Leg2Unit + ExitedUnit
  BY <1>2, <1>4, <1>5, <1>6 DEF m
<1> QED
  BY <1>3, <1>7, <1>8, <1>9

-----------------------------------------------------------------------------
(* The bounds below which no field leaves its digits.                      *)

\* A ninth delivery would take the first digit to 0, which is not printed; an
\* entry more would fill the counter (leg 1 of a plain activity counts there
\* as well).
InDigits ==
    /\ MaxDeliveries \in 0..8
    /\ MaxReentries \in 0..(Slots - 2)

\* Each answer under way may lower the third digit once.
NineAtOnce == Cardinality(open) <= 9

\* An expired ledger is read by the digits of its counter.
PresetOrShort == amount = SeedAmount \/ MaxReentries <= 8

FieldTypes ==
    /\ amount = Number(Decoded) /\ Decoded \in Fitting
    /\ deliveries \in 0..MaxDeliveries
    /\ reentries \in 0..MaxReentries
    /\ leg1 \in {"out", "in", "left"}
    /\ IsFiniteSet(open)

\* The ledger its parent preset: the first digit counts deliveries, the second
\* leg 1's save; the entry counter is ahead of the exits by what is under way,
\* and so is the third digit once it closes leg 2.
PresetFields ==
    /\ Decoded.entry = 9 - deliveries
    /\ leg1 # "left" => Decoded.exit = 9 /\ Decoded.leg2 = 9 /\ open = {}
    /\ leg1 = "left" => Decoded.exit = 8
    /\ Decoded.entered <= reentries + (IF leg1 = "left" THEN 1 ELSE 0)
    /\ Decoded.exited + Cardinality(open) <= Decoded.entered
    /\ Decoded.leg2 < 9 => Cardinality(open) <= Decoded.leg2

\* The ledger of a job that expired: nothing is ever granted.
MissingFields ==
    /\ MaxReentries <= 8
    /\ Decoded = Calls!Digits(-deliveries, 0, 0, reentries, 0)
    /\ leg1 = "out" /\ open = {}

FieldInv == FieldTypes /\ (PresetFields \/ MissingFields)

LEMMA DecodedNext ==
    ASSUME NEW l \in Fitting, amount' = Number(l)
    PROVE  Decoded' = l
<1>1. Groups(amount') = l
  BY GroupsOfNumber
<1>2. Decoded' = Groups(amount')
  BY DEF Decoded, Groups
<1> QED
  BY <1>1, <1>2

LEMMA InitFields ==
    ASSUME InDigits, PresetOrShort, Init
    PROVE  FieldInv /\ Calls!Init
<1>1. /\ Calls!Seed \in Fitting /\ Calls!Absent \in Fitting
      /\ Number(Calls!Seed) = SeedAmount /\ Number(Calls!Absent) = 0
  BY Units DEF Calls!Seed, Calls!Absent, Calls!Digits, Fitting, Number, SeedAmount,
               EntryUnit, ExitUnit
<1>2. \/ amount = SeedAmount /\ Decoded = Calls!Seed
      \/ amount = 0 /\ Decoded = Calls!Absent
  <2>1. Decoded = Groups(amount)
    BY DEF Decoded, Groups
  <2> QED
    BY <1>1, <2>1, GroupsOfNumber DEF Init
<1>3. SeedAmount # 0
  BY Units DEF SeedAmount
<1>4. FieldTypes
  BY <1>1, <1>2, FS_EmptySet DEF Init, FieldTypes, InDigits
<1>5. Calls!Init
  BY <1>2 DEF Init, Calls!Init
<1>6. CASE amount = SeedAmount
  <2>1. PresetFields
    BY <1>2, <1>3, <1>6, FS_EmptySet DEF Init, PresetFields, Calls!Seed, Calls!Digits
  <2> QED
    BY <1>4, <1>5, <2>1 DEF FieldInv
<1>7. CASE amount # SeedAmount
  <2>1. MissingFields
    BY <1>2, <1>7 DEF Init, MissingFields, Calls!Absent, PresetOrShort
  <2> QED
    BY <1>4, <1>5, <2>1 DEF FieldInv
<1> QED
  BY <1>6, <1>7

LEMMA EnterLeg1Fields ==
    ASSUME InDigits, FieldInv, EnterLeg1
    PROVE  FieldInv' /\ Calls!EnterLeg1
<1> DEFINE d == Decoded
           l == Calls!NotarizeEntry(d)
<1>1. /\ d \in Fitting /\ amount = Number(d) /\ Slots \in Nat
      /\ d.entry \in Int /\ d.exit \in 0..9 /\ d.leg2 \in 0..9
      /\ d.entered \in 0..(Slots - 1) /\ d.exited \in 0..(Slots - 1)
  BY Units DEF FieldInv, FieldTypes, Fitting
<1>2. l = Calls!Digits(d.entry - 1, d.exit, d.leg2, d.entered, d.exited)
  BY <1>1, IncrementedFields
<1>4. Number(l) = amount - EntryUnit
  BY <1>1, StepNumbers
<1>5. l \in Fitting
  BY <1>1, <1>2 DEF Fitting, Calls!Digits
<1>6. /\ l.entry = d.entry - 1 /\ l.exit = d.exit /\ l.leg2 = d.leg2
      /\ l.entered = d.entered /\ l.exited = d.exited
  BY <1>2 DEF Calls!Digits
<1>7. /\ amount' = Number(l) /\ deliveries' = deliveries + 1 /\ deliveries' \in 0..MaxDeliveries
      /\ UNCHANGED <<reentries, open>>
  BY <1>4 DEF EnterLeg1, FieldInv, FieldTypes, InDigits
<1> HIDE DEF d, l
<1>8. Decoded' = l
  BY <1>5, <1>7, DecodedNext
<1>9. l.entry \in 1..9 \/ l.entry < 0
  <2>1. CASE PresetFields
    BY <1>6, <1>7, <2>1 DEF PresetFields, InDigits, FieldInv, FieldTypes, d
  <2>2. CASE MissingFields
    BY <1>6, <1>7, <2>2 DEF MissingFields, FieldInv, FieldTypes, Calls!Digits, d
  <2> QED
    BY <2>1, <2>2 DEF FieldInv
<1>10. verdict' = Calls!EntryFault(Decoded')
  BY <1>5, <1>7, <1>8, <1>9, EntryVerdict DEF EnterLeg1
<1>11. Calls!EnterLeg1
  BY <1>8, <1>10 DEF EnterLeg1, Calls!EnterLeg1, l, d
<1>12. verdict' = "none" => l = Calls!Entered
  BY <1>8, <1>10 DEF Calls!EntryFault
<1>13. leg1' = IF verdict' = "none" THEN "in" ELSE leg1
  BY DEF EnterLeg1
<1>14. FieldTypes'
  BY <1>5, <1>7, <1>8, <1>13 DEF FieldInv, FieldTypes
<1>15. CASE PresetFields
  <2>1. verdict' = "none" => leg1 # "left"
    BY <1>6, <1>12, <1>15 DEF PresetFields, Calls!Entered, Calls!Digits, d
  <2>2. leg1' = "left" <=> leg1 = "left"
    BY <1>13, <2>1
  <2>3. Decoded'.entry = 9 - deliveries'
    BY <1>6, <1>7, <1>8, <1>15 DEF PresetFields, FieldInv, FieldTypes, d, InDigits
  <2>4. PresetFields'
    BY <1>6, <1>7, <1>8, <1>15, <2>2, <2>3 DEF PresetFields, d
  <2> QED
    BY <1>11, <1>14, <2>4 DEF FieldInv
<1>16. CASE MissingFields
  <2>1. l = Calls!Digits(-deliveries', 0, 0, reentries', 0)
    BY <1>2, <1>7, <1>16 DEF MissingFields, Calls!Digits, d, FieldInv, FieldTypes
  <2>2. verdict' # "none"
    BY <1>12, <2>1 DEF Calls!Entered, Calls!Digits
  <2>3. MissingFields'
    BY <1>7, <1>8, <1>13, <1>16, <2>1, <2>2 DEF MissingFields
  <2> QED
    BY <1>11, <1>14, <2>3 DEF FieldInv
<1> QED
  BY <1>15, <1>16 DEF FieldInv

\* While leg 1 is under way its field was preset.
LEMMA PresetWhileIn ==
    ASSUME FieldInv, leg1 # "out" \/ open # {}
    PROVE  PresetFields
  BY DEF FieldInv, MissingFields

LEMMA LeaveLeg1Fields ==
    ASSUME InDigits, FieldInv, LeaveLeg1
    PROVE  FieldInv' /\ Calls!LeaveLeg1
<1> DEFINE d == Decoded
           l == Calls!AuthorizeReentry(d)
<1>1. /\ d \in Fitting /\ amount = Number(d) /\ Slots \in Nat
      /\ d.entry \in Int /\ d.exit \in 0..9 /\ d.leg2 \in 0..9
      /\ d.entered \in 0..(Slots - 1) /\ d.exited \in 0..(Slots - 1)
  BY Units DEF FieldInv, FieldTypes, Fitting
<1>2. l = Calls!Digits(d.entry, d.exit - 1, d.leg2, d.entered, d.exited)
  BY <1>1, IncrementedFields
<1>3. amount' = Number(l)
  BY <1>1, StepNumbers DEF LeaveLeg1
<1>4. PresetFields /\ leg1 = "in"
  BY PresetWhileIn DEF LeaveLeg1
<1>5. /\ l.entry = d.entry /\ l.exit = d.exit - 1 /\ l.leg2 = d.leg2
      /\ l.entered = d.entered /\ l.exited = d.exited
  BY <1>2 DEF Calls!Digits
<1>6. d.exit = 9 /\ d.leg2 = 9
  BY <1>4 DEF PresetFields
<1>7. l \in Fitting
  BY <1>1, <1>2, <1>6 DEF Fitting, Calls!Digits
<1> HIDE DEF d, l
<1>8. Decoded' = l
  BY <1>3, <1>7, DecodedNext
<1>9. leg1' = "left" /\ UNCHANGED <<deliveries, reentries, open>>
  BY DEF LeaveLeg1
<1>10. FieldTypes'
  BY <1>3, <1>7, <1>8, <1>9 DEF FieldInv, FieldTypes
<1>11. /\ d.entered <= reentries /\ reentries \in Int
  BY <1>4 DEF PresetFields, d, FieldInv, FieldTypes, InDigits
<1>12. PresetFields'
  BY <1>1, <1>4, <1>5, <1>6, <1>8, <1>9, <1>11 DEF PresetFields, d
<1>13. Calls!LeaveLeg1
  BY <1>8 DEF LeaveLeg1, Calls!LeaveLeg1, l, d
<1> QED
  BY <1>10, <1>12, <1>13 DEF FieldInv

LEMMA CompleteEarlyFields ==
    ASSUME InDigits, FieldInv, CompleteEarly
    PROVE  FieldInv' /\ Calls!CompleteEarly
<1> DEFINE d == Decoded
           l == Calls!NotarizeEarlyCompletion(d)
<1>1. /\ d \in Fitting /\ amount = Number(d) /\ Slots \in Nat
      /\ d.entry \in Int /\ d.exit \in 0..9 /\ d.leg2 \in 0..9
      /\ d.entered \in 0..(Slots - 1) /\ d.exited \in 0..(Slots - 1)
  BY Units DEF FieldInv, FieldTypes, Fitting
<1>2. l = Calls!Digits(d.entry, d.exit - 1, d.leg2 - 1, d.entered + 1, d.exited + 1)
  BY <1>1, IncrementedFields
<1>3. amount' = Number(l)
  BY <1>1, StepNumbers DEF CompleteEarly
<1>4. PresetFields /\ leg1 = "in"
  BY PresetWhileIn DEF CompleteEarly
<1>5. /\ l.entry = d.entry /\ l.exit = d.exit - 1 /\ l.leg2 = d.leg2 - 1
      /\ l.entered = d.entered + 1 /\ l.exited = d.exited + 1
  BY <1>2 DEF Calls!Digits
<1>6. /\ d.exit = 9 /\ d.leg2 = 9 /\ open = {} /\ Cardinality(open) = 0
  BY <1>4, FS_EmptySet DEF PresetFields
<1>7. /\ d.entered <= reentries /\ d.exited <= d.entered
      /\ reentries \in Int /\ reentries <= Slots - 2
  BY <1>1, <1>4, <1>6 DEF PresetFields, d, FieldInv, FieldTypes, InDigits
<1>8. l \in Fitting
  BY <1>1, <1>2, <1>6, <1>7 DEF Fitting, Calls!Digits
<1> HIDE DEF d, l
<1>9. Decoded' = l
  BY <1>3, <1>8, DecodedNext
<1>10. leg1' = "left" /\ UNCHANGED <<deliveries, reentries, open>>
  BY DEF CompleteEarly
<1>11. FieldTypes'
  BY <1>3, <1>8, <1>9, <1>10 DEF FieldInv, FieldTypes
<1>12. PresetFields'
  <2>1. Decoded'.entry = 9 - deliveries'
    BY <1>4, <1>5, <1>9, <1>10 DEF PresetFields, d
  <2>2. Decoded'.entered <= reentries' + 1
    BY <1>1, <1>5, <1>7, <1>9, <1>10
  <2>3. Decoded'.exited + Cardinality(open') <= Decoded'.entered
    BY <1>1, <1>5, <1>6, <1>7, <1>9, <1>10
  <2>4. Decoded'.exit = 8 /\ Cardinality(open') <= Decoded'.leg2
    BY <1>5, <1>6, <1>9, <1>10
  <2> QED
    BY <1>10, <2>1, <2>2, <2>3, <2>4 DEF PresetFields
<1>13. Calls!CompleteEarly
  BY <1>9 DEF CompleteEarly, Calls!CompleteEarly, l, d
<1> QED
  BY <1>11, <1>12, <1>13 DEF FieldInv

LEMMA EnterLeg2Fields ==
    ASSUME InDigits, FieldInv, EnterLeg2
    PROVE  FieldInv' /\ Calls!EnterLeg2
<1> DEFINE d == Decoded
           l == Calls!NotarizeReentry(d)
<1>1. /\ d \in Fitting /\ amount = Number(d) /\ Slots \in Nat
      /\ d.entry \in Int /\ d.exit \in 0..9 /\ d.leg2 \in 0..9
      /\ d.entered \in 0..(Slots - 1) /\ d.exited \in 0..(Slots - 1)
  BY Units DEF FieldInv, FieldTypes, Fitting
<1>2. l = Calls!Digits(d.entry, d.exit, d.leg2, d.entered + 1, d.exited)
  BY <1>1, IncrementedFields
<1>3. amount' = Number(l)
  BY <1>1, StepNumbers DEF EnterLeg2
<1>4. /\ reentries' = reentries + 1 /\ reentries' \in 0..MaxReentries /\ reentries \in Nat
      /\ reentries < MaxReentries /\ MaxReentries \in Nat /\ MaxReentries <= Slots - 2
      /\ deliveries \in Nat /\ UNCHANGED <<deliveries, leg1>>
  BY <1>1 DEF EnterLeg2, FieldInv, FieldTypes, InDigits
<1>5. /\ l.entry = d.entry /\ l.exit = d.exit /\ l.leg2 = d.leg2
      /\ l.entered = d.entered + 1 /\ l.exited = d.exited
  BY <1>2 DEF Calls!Digits
<1>6. d.entered + 1 <= Slots - 1
  <2>1. CASE PresetFields
    BY <1>1, <1>4, <2>1 DEF PresetFields, d
  <2>2. CASE MissingFields
    BY <1>1, <1>4, <2>2 DEF MissingFields, d, Calls!Digits
  <2> QED
    BY <2>1, <2>2 DEF FieldInv
<1>7. l \in Fitting
  BY <1>1, <1>2, <1>6 DEF Fitting, Calls!Digits
<1> HIDE DEF d, l
<1>8. Decoded' = l
  BY <1>3, <1>7, DecodedNext
<1>9. \/ l.entry \in 1..9
      \/ l.entry < 0
      \/ /\ l.entry = 0 /\ l.exit = 0 /\ l.leg2 = 0 /\ l.exited = 0
         /\ l.entered \in 1..8
  <2>1. CASE PresetFields
    BY <1>4, <1>5, <2>1 DEF PresetFields, InDigits, FieldInv, FieldTypes, d
  <2>2. CASE MissingFields
    <3>1. d = Calls!Digits(-deliveries, 0, 0, reentries, 0) /\ MaxReentries <= 8
      BY <2>2 DEF MissingFields, d
    <3>2. l.entry = -deliveries /\ l.exit = 0 /\ l.leg2 = 0 /\ l.entered = reentries + 1
          /\ l.exited = 0
      BY <1>5, <3>1 DEF Calls!Digits
    <3> QED
      BY <1>4, <3>1, <3>2
  <2> QED
    BY <2>1, <2>2 DEF FieldInv
<1>10. verdict' = Calls!ReentryFault(Decoded')
  BY <1>3, <1>7, <1>8, <1>9, ReentryVerdict DEF EnterLeg2
<1>11. ThreadOf(amount') = Calls!DimensionalIndex(Decoded')
  BY <1>3, <1>7, <1>8, ThreadRead
<1>12. Calls!EnterLeg2
  BY <1>8, <1>10, <1>11 DEF EnterLeg2, Calls!EnterLeg2, l, d
<1>13. open' = IF verdict' = "none" THEN open \cup {ThreadOf(amount')} ELSE open
  BY DEF EnterLeg2
<1>14. /\ IsFiniteSet(open) /\ Cardinality(open) \in Nat /\ IsFiniteSet(open')
       /\ Cardinality(open') \in Nat
       /\ Cardinality(open') <= Cardinality(open) + (IF verdict' = "none" THEN 1 ELSE 0)
  <2>1. IsFiniteSet(open) /\ Cardinality(open) \in Nat
    BY FS_CardinalityType DEF FieldInv, FieldTypes
  <2>2. CASE verdict' = "none"
    <3> DEFINE t == ThreadOf(amount')
    <3>1. open' = open \cup {t}
      BY <1>13, <2>2
    <3> HIDE DEF t
    <3>2. /\ IsFiniteSet(open \cup {t})
          /\ Cardinality(open \cup {t}) = IF t \in open THEN Cardinality(open)
                                          ELSE Cardinality(open) + 1
      BY <2>1, FS_AddElement
    <3> QED
      BY <2>1, <2>2, <3>1, <3>2
  <2>3. CASE verdict' # "none"
    BY <1>13, <2>1, <2>3
  <2> QED
    BY <2>2, <2>3
<1>15. verdict' = "none" => l.entry < 9 /\ l.exit < 9 /\ ~(l.leg2 < 9)
  BY <1>8, <1>10 DEF Calls!ReentryFault, Calls!PrimedForReentry, Calls!Inactive
<1>16. FieldTypes'
  BY <1>3, <1>4, <1>7, <1>8, <1>14 DEF FieldInv, FieldTypes
<1>17. CASE PresetFields
  <2>1. verdict' = "none" => leg1 = "left" /\ l.leg2 = 9
    <3>1. leg1 # "left" => l.exit = 9
      BY <1>5, <1>17 DEF PresetFields, d
    <3>2. leg1 \in {"in", "out", "left"}
      BY DEF FieldInv, FieldTypes
    <3> QED
      BY <1>1, <1>5, <1>15, <3>1, <3>2
  <2>2. Decoded'.entry = 9 - deliveries'
    BY <1>4, <1>5, <1>8, <1>17 DEF PresetFields, d
  <2>3. leg1' # "left" => Decoded'.exit = 9 /\ Decoded'.leg2 = 9 /\ open' = {}
    BY <1>4, <1>5, <1>8, <1>13, <1>17, <2>1 DEF PresetFields, d
  <2>4. leg1' = "left" => Decoded'.exit = 8
    BY <1>4, <1>5, <1>8, <1>17 DEF PresetFields, d
  <2>5. Decoded'.entered <= reentries' + (IF leg1' = "left" THEN 1 ELSE 0)
    BY <1>1, <1>4, <1>5, <1>8, <1>17 DEF PresetFields, d
  <2>6. Decoded'.exited + Cardinality(open') <= Decoded'.entered
    BY <1>1, <1>5, <1>8, <1>14, <1>17 DEF PresetFields, d
  <2>7. Decoded'.leg2 < 9 => Cardinality(open') <= Decoded'.leg2
    BY <1>1, <1>5, <1>8, <1>14, <1>17, <2>1 DEF PresetFields, d
  <2>8. PresetFields'
    BY <2>2, <2>3, <2>4, <2>5, <2>6, <2>7 DEF PresetFields
  <2> QED
    BY <1>12, <1>16, <2>8 DEF FieldInv
<1>18. CASE MissingFields
  <2>1. d = Calls!Digits(-deliveries, 0, 0, reentries, 0)
    BY <1>18 DEF MissingFields, d
  <2>2. l = Calls!Digits(-deliveries', 0, 0, reentries', 0)
    BY <1>2, <1>4, <2>1 DEF Calls!Digits
  <2>3. verdict' # "none"
    BY <1>15, <2>2 DEF Calls!Digits
  <2>4. MissingFields'
    BY <1>4, <1>8, <1>13, <1>18, <2>2, <2>3 DEF MissingFields
  <2> QED
    BY <1>12, <1>16, <2>4 DEF FieldInv
<1> QED
  BY <1>17, <1>18 DEF FieldInv

\* A thread under way ends.
LEMMA OneLess ==
    ASSUME FieldInv, \E d \in open : open' = open \ {d}
    PROVE  /\ IsFiniteSet(open') /\ Cardinality(open) \in Nat /\ Cardinality(open') \in Nat
           /\ Cardinality(open') = Cardinality(open) - 1
<1>1. PICK d \in open : open' = open \ {d}
  OBVIOUS
<1>2. IsFiniteSet(open) /\ Cardinality(open) \in Nat
  BY FS_CardinalityType DEF FieldInv, FieldTypes
<1>3. IsFiniteSet(open \ {d}) /\ Cardinality(open \ {d}) = Cardinality(open) - 1
  BY <1>2, FS_RemoveElement
<1>4. Cardinality(open') \in Nat
  BY <1>1, <1>3, FS_CardinalityType
<1> QED
  BY <1>1, <1>2, <1>3, <1>4

LEMMA ContinueFields ==
    ASSUME InDigits, FieldInv, Continue
    PROVE  FieldInv' /\ Calls!Continue
<1> DEFINE d == Decoded
           l == Calls!NotarizeContinuation(d)
<1>1. /\ d \in Fitting /\ amount = Number(d) /\ Slots \in Nat
      /\ d.entry \in Int /\ d.exit \in 0..9 /\ d.leg2 \in 0..9
      /\ d.entered \in 0..(Slots - 1) /\ d.exited \in 0..(Slots - 1)
  BY Units DEF FieldInv, FieldTypes, Fitting
<1>2. l = Calls!Digits(d.entry, d.exit, d.leg2, d.entered, d.exited + 1)
  BY <1>1, IncrementedFields
<1>3. amount' = Number(l)
  BY <1>1, StepNumbers DEF Continue
<1>4. PresetFields /\ open # {}
  BY PresetWhileIn DEF Continue
<1>5. /\ l.entry = d.entry /\ l.exit = d.exit /\ l.leg2 = d.leg2
      /\ l.entered = d.entered /\ l.exited = d.exited + 1
  BY <1>2 DEF Calls!Digits
<1>6. /\ IsFiniteSet(open') /\ Cardinality(open) \in Nat /\ Cardinality(open') \in Nat
      /\ Cardinality(open') = Cardinality(open) - 1
  BY OneLess DEF Continue
<1>7. d.exited + 1 <= d.entered
  BY <1>1, <1>4, <1>6 DEF PresetFields, d
<1>8. l \in Fitting
  BY <1>1, <1>2, <1>7 DEF Fitting, Calls!Digits
<1> HIDE DEF d, l
<1>9. Decoded' = l
  BY <1>3, <1>8, DecodedNext
<1>10. UNCHANGED <<deliveries, reentries, leg1>> /\ leg1 = "left"
  BY <1>4 DEF Continue, PresetFields
<1>11. FieldTypes'
  BY <1>3, <1>6, <1>8, <1>9, <1>10 DEF FieldInv, FieldTypes
<1>12. PresetFields'
  <2>1. Decoded'.entry = 9 - deliveries' /\ Decoded'.exit = 8
    BY <1>4, <1>5, <1>9, <1>10 DEF PresetFields, d
  <2>2. Decoded'.entered <= reentries' + 1
    BY <1>4, <1>5, <1>9, <1>10 DEF PresetFields, d
  <2>3. Decoded'.exited + Cardinality(open') <= Decoded'.entered
    BY <1>1, <1>4, <1>5, <1>6, <1>9 DEF PresetFields, d
  <2>4. Decoded'.leg2 < 9 => Cardinality(open') <= Decoded'.leg2
    BY <1>1, <1>4, <1>5, <1>6, <1>9 DEF PresetFields, d
  <2> QED
    BY <1>10, <2>1, <2>2, <2>3, <2>4 DEF PresetFields
<1>13. Calls!Continue
  BY <1>9 DEF Continue, Calls!Continue, l, d
<1> QED
  BY <1>11, <1>12, <1>13 DEF FieldInv

LEMMA CompleteFields ==
    ASSUME InDigits, FieldInv, NineAtOnce, Complete
    PROVE  FieldInv' /\ Calls!Complete
<1> DEFINE d == Decoded
           l == Calls!NotarizeCompletion(d)
<1>1. /\ d \in Fitting /\ amount = Number(d) /\ Slots \in Nat
      /\ d.entry \in Int /\ d.exit \in 0..9 /\ d.leg2 \in 0..9
      /\ d.entered \in 0..(Slots - 1) /\ d.exited \in 0..(Slots - 1)
  BY Units DEF FieldInv, FieldTypes, Fitting
<1>2. l = Calls!Digits(d.entry, d.exit, d.leg2 - 1, d.entered, d.exited + 1)
  BY <1>1, IncrementedFields
<1>3. amount' = Number(l)
  BY <1>1, StepNumbers DEF Complete
<1>4. PresetFields /\ open # {}
  BY PresetWhileIn DEF Complete
<1>5. /\ l.entry = d.entry /\ l.exit = d.exit /\ l.leg2 = d.leg2 - 1
      /\ l.entered = d.entered /\ l.exited = d.exited + 1
  BY <1>2 DEF Calls!Digits
<1>6. /\ IsFiniteSet(open') /\ Cardinality(open) \in Nat /\ Cardinality(open') \in Nat
      /\ Cardinality(open') = Cardinality(open) - 1
  BY OneLess DEF Complete
<1>7. d.exited + 1 <= d.entered
  BY <1>1, <1>4, <1>6 DEF PresetFields, d
<1>8. Cardinality(open) <= d.leg2
  BY <1>1, <1>4, <1>6 DEF PresetFields, NineAtOnce, d
<1>9. l \in Fitting
  BY <1>1, <1>2, <1>6, <1>7, <1>8 DEF Fitting, Calls!Digits
<1> HIDE DEF d, l
<1>10. Decoded' = l
  BY <1>3, <1>9, DecodedNext
<1>11. UNCHANGED <<deliveries, reentries, leg1>> /\ leg1 = "left"
  BY <1>4 DEF Complete, PresetFields
<1>12. FieldTypes'
  BY <1>3, <1>6, <1>9, <1>10, <1>11 DEF FieldInv, FieldTypes
<1>13. PresetFields'
  <2>1. Decoded'.entry = 9 - deliveries' /\ Decoded'.exit = 8
    BY <1>4, <1>5, <1>10, <1>11 DEF PresetFields, d
  <2>2. Decoded'.entered <= reentries' + 1
    BY <1>4, <1>5, <1>10, <1>11 DEF PresetFields, d
  <2>3. Decoded'.exited + Cardinality(open') <= Decoded'.entered
    BY <1>1, <1>4, <1>5, <1>6, <1>10 DEF PresetFields, d
  <2>4. Cardinality(open') <= Decoded'.leg2
    BY <1>1, <1>5, <1>6, <1>8, <1>10
  <2> QED
    BY <1>11, <2>1, <2>2, <2>3, <2>4 DEF PresetFields
<1>14. Calls!Complete
  BY <1>10 DEF Complete, Calls!Complete, l, d
<1> QED
  BY <1>12, <1>13, <1>14 DEF FieldInv

LEMMA NextFields ==
    ASSUME InDigits, FieldInv, NineAtOnce, [Next]_vars
    PROVE  FieldInv' /\ [Calls!Next]_(Calls!vars)
<1>1. CASE Next
  BY <1>1, EnterLeg1Fields, LeaveLeg1Fields, CompleteEarlyFields, EnterLeg2Fields,
     ContinueFields, CompleteFields
  DEF Next, Calls!Next
<1>2. CASE UNCHANGED vars
  <2>1. Decoded' = Decoded
    BY <1>2 DEF vars, Decoded
  <2>2. FieldInv'
    BY <1>2, <2>1
    DEF vars, callVars, FieldInv, FieldTypes, PresetFields, MissingFields
  <2>3. UNCHANGED Calls!vars
    BY <1>2, <2>1 DEF vars, callVars, Calls!vars, Calls!callVars
  <2> QED
    BY <2>2, <2>3
<1> QED
  BY <1>1, <1>2

\* The hypotheses are met by every run of up to eight deliveries and eight answers.
LEMMA FewAtOnce ==
    ASSUME MaxReentries <= 8, InDigits, FieldInv
    PROVE  NineAtOnce
<1>1. CASE PresetFields
  <2>1. /\ Decoded.entered \in Int /\ Decoded.exited \in Nat /\ Cardinality(open) \in Nat
        /\ reentries \in Nat /\ reentries <= 8
    BY Units, FS_CardinalityType DEF FieldInv, FieldTypes, Fitting, InDigits
  <2> QED
    BY <1>1, <2>1 DEF PresetFields, NineAtOnce
<1>2. CASE MissingFields
  BY <1>2, FS_EmptySet DEF MissingFields, NineAtOnce
<1> QED
  BY <1>1, <1>2 DEF FieldInv

-----------------------------------------------------------------------------
(* The integer behaves as the five fields at every width of the counters:  *)
(* for up to eight deliveries of the entry, as many answers as the counter *)
(* holds and at most nine of them under way at a time.  A field that       *)
(* expired counts only up to its ninth answer (PresetOrShort).             *)
THEOREM IntegerImplementsCalls ==
    InDigits => (PresetOrShort /\ Spec /\ []NineAtOnce => ImplementsCalls)
<1> SUFFICES ASSUME InDigits PROVE PresetOrShort /\ Spec /\ []NineAtOnce => ImplementsCalls
  OBVIOUS
<1>1. PresetOrShort /\ Init => FieldInv /\ Calls!Init
  BY InitFields
<1>2. FieldInv /\ NineAtOnce /\ [Next]_vars => FieldInv' /\ [Calls!Next]_(Calls!vars)
  BY NextFields
<1> QED
  BY <1>1, <1>2, PTL DEF Spec, ImplementsCalls, Calls!Spec

(* No bound on what is under way is needed where there are few calls.      *)
THEOREM IntegerImplementsFewCalls ==
    MaxDeliveries \in 0..8 /\ MaxReentries \in 0..8 => (Spec => ImplementsCalls)
<1> SUFFICES ASSUME MaxDeliveries \in 0..8, MaxReentries \in 0..8
             PROVE  Spec => ImplementsCalls
  OBVIOUS
<1>1. InDigits
  BY Units DEF InDigits
<1>2. Init => FieldInv /\ Calls!Init
  BY <1>1, InitFields DEF PresetOrShort
<1>3. FieldInv /\ [Next]_vars => FieldInv' /\ [Calls!Next]_(Calls!vars)
  BY <1>1, NextFields, FewAtOnce
<1> QED
  BY <1>2, <1>3, PTL DEF Spec, ImplementsCalls, Calls!Spec

-----------------------------------------------------------------------------
(* What holds of the fields holds of the integer.                          *)
Fields == INSTANCE CollatorCalls_proofs WITH ledger <- Decoded

LEMMA FieldsOfCalls == ImplementsCalls => Fields!Spec
<1>1. Calls!Init => Fields!Init
  BY
  DEF Calls!Init, Fields!Init, Calls!Seed, Fields!Seed, Calls!Absent, Fields!Absent,
      Calls!Digits, Fields!Digits
<1>2. Calls!EnterLeg1 => Fields!EnterLeg1
  BY
  DEF Calls!EnterLeg1, Fields!EnterLeg1, Calls!NotarizeEntry, Fields!NotarizeEntry,
      Calls!EntryFault, Fields!EntryFault, Calls!PrimedForEntry, Fields!PrimedForEntry,
      Calls!DuplicateEntry, Fields!DuplicateEntry, Calls!Entered, Fields!Entered,
      Calls!Absent, Fields!Absent, Calls!Digits, Fields!Digits
<1>3. Calls!LeaveLeg1 => Fields!LeaveLeg1
  BY
  DEF Calls!LeaveLeg1, Fields!LeaveLeg1, Calls!AuthorizeReentry, Fields!AuthorizeReentry
<1>4. Calls!CompleteEarly => Fields!CompleteEarly
  BY
  DEF Calls!CompleteEarly, Fields!CompleteEarly, Calls!NotarizeEarlyCompletion,
      Fields!NotarizeEarlyCompletion, Calls!NotarizeCompletion,
      Fields!NotarizeCompletion, Calls!NotarizeReentry, Fields!NotarizeReentry,
      Calls!NotarizeContinuation, Fields!NotarizeContinuation, Calls!AuthorizeReentry,
      Fields!AuthorizeReentry
<1>5. Calls!EnterLeg2 => Fields!EnterLeg2
  BY
  DEF Calls!EnterLeg2, Fields!EnterLeg2, Calls!NotarizeReentry, Fields!NotarizeReentry,
      Calls!ReentryFault, Fields!ReentryFault, Calls!PrimedForReentry,
      Fields!PrimedForReentry, Calls!Inactive, Fields!Inactive, Calls!DimensionalIndex,
      Fields!DimensionalIndex
<1>6. Calls!Continue => Fields!Continue
  BY
  DEF Calls!Continue, Fields!Continue, Calls!NotarizeContinuation,
      Fields!NotarizeContinuation
<1>7. Calls!Complete => Fields!Complete
  BY
  DEF Calls!Complete, Fields!Complete, Calls!NotarizeCompletion,
      Fields!NotarizeCompletion, Calls!NotarizeContinuation, Fields!NotarizeContinuation
<1>8. UNCHANGED Calls!vars => UNCHANGED Fields!vars
  BY DEF Calls!vars, Fields!vars, Calls!callVars, Fields!callVars
<1>9. [Calls!Next]_(Calls!vars) => [Fields!Next]_(Fields!vars)
  BY <1>2, <1>3, <1>4, <1>5, <1>6, <1>7, <1>8 DEF Calls!Next, Fields!Next
<1> QED
  BY <1>1, <1>9, PTL DEF ImplementsCalls, Calls!Spec, Fields!Spec

(* However often the entry of an activity is delivered, up to eight times, *)
(* the first digit lets leg 1 begin once.                                  *)
THEOREM IntegerEntryOnce ==
    InDigits => (PresetOrShort /\ Spec /\ []NineAtOnce => []EntryOnce)
<1>1. Fields!EntryOnce => EntryOnce
  BY DEF Fields!EntryOnce, EntryOnce, Calls!EntryOnce
<1> QED
  BY <1>1, IntegerImplementsCalls, FieldsOfCalls, Fields!LegOneRunsOnce, PTL

(* The second digit lets no answer in before leg 1 was saved.              *)
THEOREM IntegerAnswersFollowExit ==
    InDigits => (PresetOrShort /\ Spec /\ []NineAtOnce => []NoAnswerBeforeExit)
<1>1. Fields!NoAnswerBeforeExit => NoAnswerBeforeExit
  BY DEF Fields!NoAnswerBeforeExit, NoAnswerBeforeExit, Calls!NoAnswerBeforeExit
<1> QED
  BY <1>1, IntegerImplementsCalls, FieldsOfCalls, Fields!AnswersFollowExit, PTL

(* The counter's digits give every answer that is let in a thread of its   *)
(* own, up to the last entry they have room for.                           *)
THEOREM IntegerThreadsDistinct ==
    InDigits => (PresetOrShort /\ Spec /\ []NineAtOnce => []ThreadsDistinct)
<1>1. Fields!ThreadsDistinct => ThreadsDistinct
  BY DEF Fields!ThreadsDistinct, ThreadsDistinct, Fields!Cardinality, Cardinality
<1> QED
  BY <1>1, IntegerImplementsCalls, FieldsOfCalls, Fields!ThreadsAreDistinct, PTL

(* Below the overflow of the counter a closed leg 2 stays closed.          *)
THEOREM IntegerClosedIsFinal ==
    InDigits => (PresetOrShort /\ Spec /\ []NineAtOnce => ClosedStaysClosed)
<1>1. [Fields!Inactive(Decoded) => grants' = grants]_(Fields!vars)
        => [(amount \div Leg2Unit) % 10 < 9 => grants' = grants]_vars
  BY DEF Fields!Inactive, Fields!vars, Fields!callVars, vars, callVars, Decoded
<1> QED
  BY <1>1, IntegerImplementsCalls, FieldsOfCalls, Fields!ClosedIsFinal, PTL
  DEF ClosedStaysClosed, Fields!ClosedStaysClosed
=============================================================================
