------------------------ MODULE StreamSignaler_proofs ------------------------
(***************************************************************************)
(* What a stream's consumers promise, for any number of requests and       *)
(* consumers, any limits and any outcomes of the callback, however often   *)
(* batches are lost and live entries are claimed.                          *)
(***************************************************************************)
EXTENDS StreamSignaler, FiniteSetTheorems, SequenceTheorems, TLAPS

Pcs == {"read", "call", "publish", "ack", "claim", "expire", "expired"}

EntrySet ==
    [request : Request, try : Nat, state : {"new", "pending", "gone"},
     deliveries : Nat, calls : Nat]

ConsumerSet == [pc : Pcs, batch : Seq(Nat), outcome : Outcomes \cup {"none"}]

TypeInv ==
    /\ entries \in Seq(EntrySet)
    /\ consumer \in [Consumer -> ConsumerSet]
    /\ requested \subseteq Request /\ silent \subseteq Request
    /\ answers \in [Request -> Nat]
    /\ claims \in [Request -> Nat]

Ids == 1..Len(entries)
At(c) == 1..Len(consumer[c].batch)
Held(c, k) == consumer[c].batch[k]

\* A batch holds no entry twice, and none that was never delivered.
Orderly(c) ==
    /\ consumer[c].pc = "read" => consumer[c].batch = <<>>
    /\ consumer[c].pc \notin {"read", "claim"} => consumer[c].batch # <<>>
    /\ \A k \in At(c) : Held(c, k) \in Ids /\ entries[Held(c, k)].state # "new"
    /\ \A j, k \in At(c) : Held(c, j) = Held(c, k) => j = k

Batches == \A c \in Consumer : Orderly(c)

\* The entry has yet to be called, or answered, by the consumer.
ToCall(c, i) ==
    \E k \in At(c) : Held(c, k) = i /\ (k = 1 => consumer[c].pc \in {"call", "claim"})

ToAnswer(c, i) ==
    \E k \in At(c) :
        Held(c, k) = i /\ (k = 1 => consumer[c].pc \in {"call", "claim", "publish", "expire"})

-----------------------------------------------------------------------------
(* Batches.                                                                *)

LEMMA Domains ==
    ASSUME TypeInv
    PROVE  /\ DOMAIN entries = Ids /\ Len(entries) \in Nat
           /\ \A i \in Ids : entries[i] \in EntrySet
           /\ \A c \in Consumer :
                /\ consumer[c] \in ConsumerSet
                /\ DOMAIN consumer[c].batch = At(c)
                /\ Len(consumer[c].batch) \in Nat
                /\ \A k \in At(c) : Held(c, k) \in Nat
  BY DEF TypeInv, Ids, At, Held, ConsumerSet

LEMMA HeadIsFirst ==
    ASSUME TypeInv, Batches, NEW c \in Consumer, consumer[c].pc \notin {"read", "claim"}
    PROVE  /\ 1 \in At(c) /\ Current(c) = Held(c, 1) /\ Current(c) \in Ids
           /\ entries[Current(c)] \in EntrySet
  BY DEF TypeInv, Batches, Orderly, Current, At, Held, Ids, ConsumerSet

\* A consumer's program counter moves and its batch stays.
LEMMA PcMoves ==
    ASSUME TypeInv, NEW c \in Consumer, NEW pc \in Pcs, NEW o \in Outcomes \cup {"none"},
           consumer' = [consumer EXCEPT ![c] = [@ EXCEPT !.pc = pc, !.outcome = o]]
    PROVE  /\ consumer' \in [Consumer -> ConsumerSet]
           /\ consumer'[c].pc = pc /\ consumer'[c].batch = consumer[c].batch
           /\ \A d \in Consumer \ {c} : consumer'[d] = consumer[d]
  BY DEF TypeInv, ConsumerSet

LEMMA TailInSeq ==
    ASSUME TypeInv, Batches, NEW c \in Consumer, consumer[c].pc \notin {"read", "claim"}
    PROVE  Tail(consumer[c].batch) \in Seq(Nat)
  BY DEF TypeInv, Batches, Orderly, ConsumerSet

\* The head leaves the batch.
LEMMA TailMoves ==
    ASSUME TypeInv, Batches, NEW c \in Consumer, consumer[c].pc \notin {"read", "claim"},
           NEW x \in ConsumerSet, x.batch = Tail(consumer[c].batch),
           consumer' = [consumer EXCEPT ![c] = x]
    PROVE  /\ consumer' \in [Consumer -> ConsumerSet]
           /\ consumer'[c] = x
           /\ Len(consumer'[c].batch) = Len(consumer[c].batch) - 1
           /\ \A k \in 1..Len(consumer[c].batch) - 1 : consumer'[c].batch[k] = Held(c, k + 1)
           /\ \A d \in Consumer \ {c} : consumer'[d] = consumer[d]
<1>1. /\ consumer' \in [Consumer -> ConsumerSet]
      /\ consumer'[c] = x
      /\ \A d \in Consumer \ {c} : consumer'[d] = consumer[d]
  BY DEF TypeInv
<1>2. PICK b \in Seq(Nat) : b = consumer[c].batch /\ b # <<>>
  BY DEF TypeInv, Batches, Orderly, ConsumerSet
<1>3. Len(Tail(b)) = Len(b) - 1 /\ \A k \in 1..Len(b) - 1 : Tail(b)[k] = b[k + 1]
  BY <1>2
<1> QED
  BY <1>1, <1>2, <1>3 DEF Held

-----------------------------------------------------------------------------
(* What each action does to entries and batches.                           *)

\* Entries are only added, and never new again.
Onward ==
    /\ entries' \in Seq(EntrySet)
    /\ Len(entries) <= Len(entries')
    /\ \A i \in Ids : /\ entries'[i].request = entries[i].request
                      /\ entries[i].state # "new" => entries'[i].state # "new"

LEMMA BatchesKept ==
    ASSUME TypeInv, Batches, NEW c \in Consumer, Onward, Orderly(c)',
           \A d \in Consumer \ {c} : consumer'[d] = consumer[d]
    PROVE  Batches'
<1> SUFFICES ASSUME NEW d \in Consumer, d # c PROVE Orderly(d)'
  BY DEF Batches
<1>1. consumer'[d] = consumer[d] /\ Orderly(d)
  BY DEF Batches
<1>2. Ids \subseteq 1..Len(entries')
  BY Domains DEF Onward, Ids
<1> QED
  BY <1>1, <1>2, Domains DEF Orderly, Onward, At, Held, Ids

\* Where d's batch and program counter stay, so does what it has to do.
LEMMA DutiesKept ==
    ASSUME NEW d \in Consumer, consumer'[d] = consumer[d]
    PROVE  \A i : (ToCall(d, i)' <=> ToCall(d, i)) /\ (ToAnswer(d, i)' <=> ToAnswer(d, i))
  BY DEF ToCall, ToAnswer, At, Held

LEMMA OneEntry ==
    ASSUME TypeInv, NEW i \in Ids, NEW e \in EntrySet, entries' = [entries EXCEPT ![i] = e],
           e.request = entries[i].request,
           entries[i].state # "new" => e.state # "new"
    PROVE  Onward /\ Len(entries') = Len(entries)
  BY DEF TypeInv, Onward, Ids

LEMMA NewEntry ==
    ASSUME TypeInv, NEW r \in Request, NEW t \in Nat, entries' = Append(entries, Entry(r, t))
    PROVE  /\ Onward /\ Len(entries') = Len(entries) + 1
           /\ \A i \in Ids : entries'[i] = entries[i]
           /\ entries'[Len(entries) + 1] = Entry(r, t)
<1>1. Entry(r, t) \in EntrySet
  BY DEF Entry, EntrySet
<1> QED
  BY <1>1 DEF TypeInv, Onward, Ids

\* A consumer that moves on within its batch, or at its end.
LEMMA HeadStays ==
    ASSUME TypeInv, Batches, Onward, NEW c \in Consumer, NEW pc \in Pcs, pc # "read",
           consumer[c].pc # "read", pc = "claim" => consumer[c].pc = "claim",
           NEW o \in Outcomes \cup {"none"},
           pc # "claim" => consumer[c].batch # <<>>,
           consumer' = [consumer EXCEPT ![c] = [@ EXCEPT !.pc = pc, !.outcome = o]]
    PROVE  /\ consumer' \in [Consumer -> ConsumerSet] /\ consumer'[c].pc = pc
           /\ \A d \in Consumer \ {c} : consumer'[d] = consumer[d]
           /\ Batches'
           /\ \A i : ToCall(c, i)' <=>
                \E k \in At(c) : Held(c, k) = i /\ (k = 1 => pc \in {"call", "claim"})
           /\ \A i : ToAnswer(c, i)' <=>
                \E k \in At(c) : Held(c, k) = i
                                 /\ (k = 1 => pc \in {"call", "claim", "publish", "expire"})
<1>1. /\ consumer' \in [Consumer -> ConsumerSet]
      /\ consumer'[c].pc = pc /\ consumer'[c].batch = consumer[c].batch
      /\ \A d \in Consumer \ {c} : consumer'[d] = consumer[d]
  BY PcMoves
<1>2. Ids \subseteq 1..Len(entries')
  BY Domains DEF Onward, Ids
<1>3. Orderly(c)'
  BY <1>1, <1>2, Domains, SMTT(30) DEF Batches, Orderly, Onward, At, Held, Ids
<1> QED
  BY <1>1, <1>3, BatchesKept DEF ToCall, ToAnswer, At, Held

LEMMA HeadLeaves ==
    ASSUME TypeInv, Batches, Onward, NEW c \in Consumer,
           consumer[c].pc \in {"ack", "expired"},
           NEW x \in ConsumerSet, x.batch = Tail(consumer[c].batch),
           x.pc \in {"read", "call", "claim"},
           x.pc = "read" => x.batch = <<>>,
           x.pc = "call" => x.batch # <<>>,
           consumer' = [consumer EXCEPT ![c] = x]
    PROVE  /\ consumer' \in [Consumer -> ConsumerSet] /\ consumer'[c] = x
           /\ \A d \in Consumer \ {c} : consumer'[d] = consumer[d]
           /\ Batches'
           /\ \A i : ToCall(c, i)' <=> ToCall(c, i)
           /\ \A i : ToAnswer(c, i)' <=> ToAnswer(c, i)
<1>1. /\ consumer' \in [Consumer -> ConsumerSet]
      /\ consumer'[c] = x
      /\ consumer'[c].batch = Tail(consumer[c].batch)
      /\ Len(consumer'[c].batch) = Len(consumer[c].batch) - 1
      /\ \A k \in 1..Len(consumer[c].batch) - 1 : consumer'[c].batch[k] = Held(c, k + 1)
      /\ \A d \in Consumer \ {c} : consumer'[d] = consumer[d]
  BY TailMoves
<1>2. Len(consumer[c].batch) \in Nat \ {0}
  BY DEF TypeInv, ConsumerSet, Batches, Orderly
<1>3. Ids \subseteq 1..Len(entries')
  BY Domains DEF Onward, Ids
<1>4. Orderly(c)'
  <2>1. \A k \in At(c)' : k + 1 \in At(c) /\ consumer'[c].batch[k] = Held(c, k + 1)
    BY <1>1, <1>2 DEF At
  <2>2. \A k \in At(c) : Held(c, k) \in Ids /\ entries[Held(c, k)].state # "new"
    BY DEF Batches, Orderly
  <2>3. \A k \in At(c)' : Held(c, k)' \in 1..Len(entries') /\ entries'[Held(c, k)'].state # "new"
    BY <1>3, <2>1, <2>2 DEF Onward, Held
  <2>4. \A j, k \in At(c)' : Held(c, j)' = Held(c, k)' => j = k
    <3> SUFFICES ASSUME NEW j \in At(c)', NEW k \in At(c)', Held(c, j)' = Held(c, k)'
                 PROVE  j = k
      OBVIOUS
    <3>1. Held(c, j + 1) = Held(c, k + 1) /\ j + 1 \in At(c) /\ k + 1 \in At(c)
      BY <2>1 DEF Held
    <3>2. j + 1 = k + 1
      BY <3>1 DEF Batches, Orderly
    <3> QED
      BY <3>2, <1>1 DEF At
  <2> QED
    BY <1>1, <2>3, <2>4 DEF Orderly, Ids
<1>5. \A i : (\E k \in At(c)' : Held(c, k)' = i) <=> (\E k \in At(c) : k # 1 /\ Held(c, k) = i)
  <2> SUFFICES ASSUME NEW i
               PROVE  (\E k \in At(c)' : Held(c, k)' = i) <=> (\E k \in At(c) : k # 1 /\ Held(c, k) = i)
    OBVIOUS
  <2>1. ASSUME NEW k \in At(c)', Held(c, k)' = i
        PROVE  \E j \in At(c) : j # 1 /\ Held(c, j) = i
    <3>1. k + 1 \in At(c) /\ k + 1 # 1 /\ Held(c, k + 1) = i
      BY <1>1, <1>2, <2>1 DEF At, Held
    <3> QED
      BY <3>1
  <2>2. ASSUME NEW k \in At(c), k # 1, Held(c, k) = i
        PROVE  \E j \in At(c)' : Held(c, j)' = i
    <3>1. k - 1 \in At(c)' /\ Held(c, k - 1)' = i
      BY <1>1, <1>2, <2>2 DEF At, Held
    <3> QED
      BY <3>1
  <2> QED
    BY <2>1, <2>2
<1>6. \A k \in At(c)' : x.pc \in {"call", "claim"}
  <2>1. CASE x.pc = "read"
    <3>1. Len(consumer'[c].batch) = 0 /\ At(c)' = 1..Len(consumer'[c].batch)
      BY <1>1, <2>1 DEF At
    <3>2. \A k \in 1..0 : FALSE
      OBVIOUS
    <3> QED
      BY <3>1, <3>2
  <2> QED
    BY <2>1
<1>7. \A i : ToCall(c, i)' <=> \E k \in At(c)' : Held(c, k)' = i
  BY <1>1, <1>6 DEF ToCall
<1>8. \A i : ToAnswer(c, i)' <=> \E k \in At(c)' : Held(c, k)' = i
  BY <1>1, <1>6 DEF ToAnswer
<1>9. \A i : /\ ToCall(c, i) <=> \E k \in At(c) : k # 1 /\ Held(c, k) = i
             /\ ToAnswer(c, i) <=> \E k \in At(c) : k # 1 /\ Held(c, k) = i
  BY DEF ToCall, ToAnswer
<1>10. Batches'
  BY <1>1, <1>4, BatchesKept
<1> QED
  BY <1>1, <1>5, <1>7, <1>8, <1>9, <1>10

-----------------------------------------------------------------------------
(* What each action does.                                                  *)

SameDuties(d) == \A i : (ToCall(d, i)' <=> ToCall(d, i)) /\ (ToAnswer(d, i)' <=> ToAnswer(d, i))

LEMMA ReadEffect ==
    ASSUME TypeInv, Batches, NEW c \in Consumer, Read(c)
    PROVE  /\ Onward /\ Len(entries') = Len(entries)
           /\ \A i \in Ids :
                IF i \in NewEntries
                THEN entries'[i] = [entries[i] EXCEPT !.state = "pending", !.deliveries = 1]
                ELSE entries'[i] = entries[i]
           /\ consumer' \in [Consumer -> ConsumerSet] /\ Batches'
           /\ \A i : (ToCall(c, i)' \/ ToAnswer(c, i)') => i \in NewEntries
           /\ consumer'[c].pc = "call"
           /\ \A d \in Consumer \ {c} : consumer'[d] = consumer[d] /\ SameDuties(d)
<1>1. PICK b \in [1..Cardinality(NewEntries) -> NewEntries] :
          /\ InOrder(b)
          /\ consumer' = [consumer EXCEPT ![c].pc = "call", ![c].batch = b]
  BY DEF Read
<1>2. NewEntries \subseteq Ids /\ Ids \subseteq Nat
  BY Domains DEF NewEntries, Ids
<1>3. Cardinality(NewEntries) \in Nat /\ Cardinality(NewEntries) # 0
  <2>1. IsFiniteSet(Ids)
    BY Domains, FS_Interval DEF Ids
  <2> QED
    BY <1>2, <2>1, FS_Subset, FS_CardinalityType, FS_EmptySet DEF Read
<1>4. b \in Seq(Nat) /\ Len(b) = Cardinality(NewEntries) /\ b # <<>>
  <2>1. b \in [1..Cardinality(NewEntries) -> Nat]
    BY <1>2
  <2>2. b \in Seq(Nat)
    BY <1>3, <2>1, SeqDef
  <2> QED
    BY <1>3, <2>1, <2>2
<1>5. /\ consumer' \in [Consumer -> ConsumerSet]
      /\ consumer'[c].pc = "call" /\ consumer'[c].batch = b
      /\ \A d \in Consumer \ {c} : consumer'[d] = consumer[d]
  BY <1>1, <1>4 DEF TypeInv, ConsumerSet, Pcs
<1>6. entries' = [i \in Ids |->
                     IF i \in NewEntries
                     THEN [entries[i] EXCEPT !.state = "pending", !.deliveries = 1]
                     ELSE entries[i]]
  BY Domains DEF Read
<1>7. Onward /\ Len(entries') = Len(entries)
  <2>1. \A i \in Ids : entries'[i] \in EntrySet
    BY <1>6, Domains DEF EntrySet
  <2>2. entries' \in [1..Len(entries) -> EntrySet]
    BY <1>6, <2>1 DEF Ids
  <2>3. entries' \in Seq(EntrySet) /\ Len(entries') = Len(entries)
    BY <2>2, Domains, SeqDef
  <2>4. \A i \in Ids : /\ entries'[i].request = entries[i].request
                       /\ entries[i].state # "new" => entries'[i].state # "new"
    BY <1>6, Domains DEF EntrySet
  <2>5. Len(entries) <= Len(entries')
    BY <2>3, Domains
  <2> QED
    BY <2>3, <2>4, <2>5 DEF Onward
<1>8. Orderly(c)'
  <2>1. \A k \in At(c)' : k \in 1..Cardinality(NewEntries) /\ Held(c, k)' = b[k] /\ b[k] \in NewEntries
    BY <1>4, <1>5 DEF At, Held
  <2>2. \A i \in NewEntries : i \in Ids' /\ entries'[i].state # "new"
    BY <1>2, <1>6, <1>7, Domains DEF Ids, EntrySet
  <2>3. \A j, k \in At(c)' : Held(c, j)' = Held(c, k)' => j = k
    <3> SUFFICES ASSUME NEW j \in At(c)', NEW k \in At(c)', b[j] = b[k], j # k PROVE FALSE
      BY <2>1
    <3>1. j \in Nat /\ k \in Nat /\ b[j] \in Nat /\ DOMAIN b = 1..Cardinality(NewEntries)
      BY <1>1, <1>2, <1>3, <2>1
    <3>2. b[j] < b[k] \/ b[k] < b[j]
      BY <1>1, <2>1, <3>1 DEF InOrder
    <3> QED
      BY <3>1, <3>2
  <2> QED
    BY <1>4, <1>5, <2>1, <2>2, <2>3 DEF Orderly
<1>9. \A i : (ToCall(c, i)' \/ ToAnswer(c, i)') => i \in NewEntries
  BY <1>4, <1>5 DEF ToCall, ToAnswer, At, Held
<1> QED
  BY <1>5, <1>6, <1>7, <1>8, <1>9, BatchesKept, DutiesKept DEF SameDuties

LEMMA CallEffect ==
    ASSUME TypeInv, Batches, NEW c \in Consumer, Call(c)
    PROVE  /\ Onward /\ Len(entries') = Len(entries)
           /\ Current(c) \in Ids /\ ToCall(c, Current(c))
           /\ entries'[Current(c)] = [entries[Current(c)] EXCEPT !.calls = @ + 1]
           /\ \A i \in Ids \ {Current(c)} : entries'[i] = entries[i]
           /\ consumer' \in [Consumer -> ConsumerSet] /\ Batches'
           /\ consumer'[c].pc = "publish"
           /\ \A i : ToCall(c, i)' <=> (ToCall(c, i) /\ i # Current(c))
           /\ \A i : ToAnswer(c, i)' <=> ToAnswer(c, i)
           /\ \A d \in Consumer \ {c} : consumer'[d] = consumer[d] /\ SameDuties(d)
<1> DEFINE i0 == Current(c)
<1>1. i0 \in Ids /\ i0 = Held(c, 1) /\ 1 \in At(c) /\ entries[i0] \in EntrySet
  BY HeadIsFirst DEF Call
<1>2. PICK e : e = [entries[i0] EXCEPT !.calls = @ + 1]
  OBVIOUS
<1>a. e \in EntrySet /\ entries' = [entries EXCEPT ![i0] = e]
  BY <1>1, <1>2 DEF Call, EntrySet
<1>3. /\ Onward /\ Len(entries') = Len(entries)
      /\ entries'[i0] = [entries[i0] EXCEPT !.calls = @ + 1]
      /\ \A i \in Ids \ {i0} : entries'[i] = entries[i]
  BY <1>1, <1>2, <1>a, Domains, OneEntry DEF EntrySet, TypeInv
<1>4. PICK o \in Outcomes : consumer' = [consumer EXCEPT ![c] = [@ EXCEPT !.pc = "publish", !.outcome = o]]
  BY DEF Call
<1>5. consumer[c].pc = "call" /\ consumer[c].batch # <<>>
  BY DEF Call, Batches, Orderly
<1>6. /\ consumer' \in [Consumer -> ConsumerSet] /\ Batches'
      /\ \A i : ToCall(c, i)' <=> \E k \in At(c) : Held(c, k) = i /\ k # 1
      /\ \A i : ToAnswer(c, i)' <=> \E k \in At(c) : Held(c, k) = i
      /\ \A d \in Consumer \ {c} : consumer'[d] = consumer[d]
      /\ consumer'[c].pc = "publish"
  BY <1>3, <1>4, <1>5, HeadStays, ZenonT(60) DEF Pcs, TypeInv
<1>7. \A k \in At(c) : Held(c, k) = i0 <=> k = 1
  BY <1>1 DEF Batches, Orderly
<1>8. \A i : /\ ToCall(c, i) <=> \E k \in At(c) : Held(c, k) = i
             /\ ToAnswer(c, i) <=> \E k \in At(c) : Held(c, k) = i
  BY <1>5 DEF ToCall, ToAnswer
<1>9. /\ \A i : ToCall(c, i)' <=> (ToCall(c, i) /\ i # Current(c))
      /\ ToCall(c, Current(c))
  BY <1>1, <1>6, <1>7, <1>8
<1>10. \A i : ToAnswer(c, i)' <=> ToAnswer(c, i)
  BY <1>6, <1>8
<1>11. \A d \in Consumer \ {c} : SameDuties(d)
  BY <1>6, DutiesKept DEF SameDuties
<1> QED
  BY <1>1, <1>2, <1>3, <1>6, <1>9, <1>10, <1>11

LEMMA RetryEffect ==
    ASSUME TypeInv, Batches, NEW c \in Consumer, PublishResponse(c)
    PROVE  /\ consumer[c].pc = "publish" /\ Current(c) \in Ids /\ Onward
           /\ \A i \in Ids : entries'[i] = entries[i]
           /\ \/ /\ silent' = silent \cup {entries[Current(c)].request}
                 /\ answers' = answers /\ Len(entries') = Len(entries)
              \/ /\ UNCHANGED <<answers, silent>> /\ Len(entries') = Len(entries) + 1
                 /\ \E t \in Nat : entries'[Len(entries) + 1] =
                                      Entry(entries[Current(c)].request, t)
              \/ /\ answers' = [answers EXCEPT ![entries[Current(c)].request] = @ + 1]
                 /\ silent' = silent /\ Len(entries') = Len(entries)
           /\ consumer' \in [Consumer -> ConsumerSet] /\ Batches'
           /\ consumer'[c].pc = "ack" /\ Current(c)' = Current(c)
           /\ ToAnswer(c, Current(c))
           /\ \A i : ToCall(c, i)' <=> ToCall(c, i)
           /\ \A i : ToAnswer(c, i)' <=> (ToAnswer(c, i) /\ i # Current(c))
           /\ \A d \in Consumer \ {c} : consumer'[d] = consumer[d] /\ SameDuties(d)
<1> DEFINE i0 == Current(c)
<1>1. /\ i0 \in Ids /\ i0 = Held(c, 1) /\ 1 \in At(c) /\ entries[i0] \in EntrySet
      /\ consumer[c].pc = "publish" /\ consumer[c].batch # <<>>
  BY HeadIsFirst DEF PublishResponse, Batches, Orderly
<1>2. entries[i0].request \in Request /\ entries[i0].try + 1 \in Nat
  BY <1>1 DEF EntrySet
<1>3. \/ /\ silent' = silent \cup {entries[i0].request}
         /\ answers' = answers /\ entries' = entries
      \/ /\ UNCHANGED <<answers, silent>> /\ Len(entries') = Len(entries) + 1 /\ Onward
         /\ \A i \in Ids : entries'[i] = entries[i]
         /\ \E t \in Nat : entries'[Len(entries) + 1] = Entry(entries[i0].request, t)
      \/ /\ answers' = [answers EXCEPT ![entries[i0].request] = @ + 1]
         /\ silent' = silent /\ entries' = entries
  BY <1>2, NewEntry DEF PublishResponse
<1>4. /\ Onward
      /\ \A i \in Ids : entries'[i] = entries[i]
  BY <1>3, Domains DEF Onward, TypeInv
<1>5. PICK o \in Outcomes \cup {"none"} : o = consumer[c].outcome
  BY DEF TypeInv, ConsumerSet
<1>6. consumer' = [consumer EXCEPT ![c] = [@ EXCEPT !.pc = "ack", !.outcome = o]]
  BY <1>5 DEF PublishResponse, TypeInv, ConsumerSet
<1>7. /\ consumer' \in [Consumer -> ConsumerSet] /\ Batches'
      /\ \A i : ToCall(c, i)' <=> \E k \in At(c) : Held(c, k) = i /\ k # 1
      /\ \A i : ToAnswer(c, i)' <=> \E k \in At(c) : Held(c, k) = i /\ k # 1
      /\ \A d \in Consumer \ {c} : consumer'[d] = consumer[d]
      /\ consumer'[c].pc = "ack"
  BY <1>1, <1>4, <1>6, HeadStays DEF Pcs
<1>8. Current(c)' = Current(c)
  BY <1>6 DEF Current, TypeInv, ConsumerSet
<1>9. \A k \in At(c) : Held(c, k) = i0 <=> k = 1
  BY <1>1 DEF Batches, Orderly
<1>10. \A i : /\ ToCall(c, i) <=> \E k \in At(c) : Held(c, k) = i /\ k # 1
              /\ ToAnswer(c, i) <=> \E k \in At(c) : Held(c, k) = i
  BY <1>1 DEF ToCall, ToAnswer
<1>11. /\ ToAnswer(c, i0)
       /\ \A i : ToAnswer(c, i)' <=> (ToAnswer(c, i) /\ i # i0)
  BY <1>1, <1>7, <1>9, <1>10
<1>12. \A i : ToCall(c, i)' <=> ToCall(c, i)
  BY <1>7, <1>10
<1>13. \A d \in Consumer \ {c} : SameDuties(d)
  BY <1>7, DutiesKept DEF SameDuties
<1> QED
  BY <1>1, <1>3, <1>4, <1>7, <1>8, <1>11, <1>12, <1>13

LEMMA ExpireEffect ==
    ASSUME TypeInv, Batches, NEW c \in Consumer, Expire(c)
    PROVE  /\ Current(c) \in Ids /\ entries' = entries /\ Onward
           /\ answers' = [answers EXCEPT ![entries[Current(c)].request] = @ + 1]
           /\ consumer' \in [Consumer -> ConsumerSet] /\ Batches'
           /\ consumer'[c].pc = "expired" /\ Current(c)' = Current(c)
           /\ ToAnswer(c, Current(c))
           /\ \A i : ToCall(c, i)' <=> ToCall(c, i)
           /\ \A i : ToAnswer(c, i)' <=> (ToAnswer(c, i) /\ i # Current(c))
           /\ \A d \in Consumer \ {c} : consumer'[d] = consumer[d] /\ SameDuties(d)
<1> DEFINE i0 == Current(c)
<1>1. /\ i0 \in Ids /\ i0 = Held(c, 1) /\ 1 \in At(c) /\ entries[i0] \in EntrySet
      /\ consumer[c].pc = "expire" /\ consumer[c].batch # <<>>
  BY HeadIsFirst DEF Expire, Batches, Orderly
<1>2. /\ answers' = [answers EXCEPT ![entries[i0].request] = @ + 1]
      /\ entries' = entries
  BY DEF Expire
<1>3. Onward
  BY <1>2, Domains DEF Onward, TypeInv
<1>4. PICK o \in Outcomes \cup {"none"} : o = consumer[c].outcome
  BY DEF TypeInv, ConsumerSet
<1>5. consumer' = [consumer EXCEPT ![c] = [@ EXCEPT !.pc = "expired", !.outcome = o]]
  BY <1>4 DEF Expire, TypeInv, ConsumerSet
<1>6. /\ consumer' \in [Consumer -> ConsumerSet] /\ Batches'
      /\ \A i : ToCall(c, i)' <=> \E k \in At(c) : Held(c, k) = i /\ k # 1
      /\ \A i : ToAnswer(c, i)' <=> \E k \in At(c) : Held(c, k) = i /\ k # 1
      /\ \A d \in Consumer \ {c} : consumer'[d] = consumer[d]
      /\ consumer'[c].pc = "expired"
  BY <1>1, <1>3, <1>5, HeadStays DEF Pcs
<1>7. Current(c)' = Current(c)
  BY <1>5 DEF Current, TypeInv, ConsumerSet
<1>8. \A k \in At(c) : Held(c, k) = i0 <=> k = 1
  BY <1>1 DEF Batches, Orderly
<1>9. \A i : /\ ToCall(c, i) <=> \E k \in At(c) : Held(c, k) = i /\ k # 1
             /\ ToAnswer(c, i) <=> \E k \in At(c) : Held(c, k) = i
  BY <1>1 DEF ToCall, ToAnswer
<1>10. /\ ToAnswer(c, i0)
       /\ \A i : ToAnswer(c, i)' <=> (ToAnswer(c, i) /\ i # i0)
  BY <1>1, <1>6, <1>8, <1>9
<1>11. \A i : ToCall(c, i)' <=> ToCall(c, i)
  BY <1>6, <1>9
<1>12. \A d \in Consumer \ {c} : SameDuties(d)
  BY <1>6, DutiesKept DEF SameDuties
<1> QED
  BY <1>1, <1>2, <1>3, <1>6, <1>7, <1>10, <1>11, <1>12

\* A step in which nothing is called, answered or handed out.
Passive ==
    /\ Onward /\ Len(entries') = Len(entries)
    /\ \A i \in Ids : /\ entries'[i].calls = entries[i].calls
                      /\ entries'[i].deliveries = entries[i].deliveries
                      /\ entries'[i].state = "new" <=> entries[i].state = "new"
    /\ consumer' \in [Consumer -> ConsumerSet] /\ Batches'
    /\ \A d \in Consumer : \A i : /\ ToCall(d, i)' => ToCall(d, i)
                                  /\ ToAnswer(d, i)' => ToAnswer(d, i)

\* The entry is acknowledged, and its consumer goes on.
LEMMA GoneEffect ==
    ASSUME TypeInv, Batches, NEW c \in Consumer, consumer[c].pc \in {"ack", "expired"},
           entries' = [entries EXCEPT ![Current(c)].state = "gone"],
           NEW x \in ConsumerSet, x.batch = Tail(consumer[c].batch),
           x.pc \in {"read", "call", "claim"},
           x.pc = "read" => x.batch = <<>>,
           x.pc = "call" => x.batch # <<>>,
           consumer' = [consumer EXCEPT ![c] = x]
    PROVE  /\ Passive /\ Current(c) \in Ids /\ consumer'[c] = x
           /\ \A i \in Ids \ {Current(c)} : entries'[i] = entries[i]
           /\ \A d \in Consumer \ {c} : consumer'[d] = consumer[d]
<1> DEFINE i0 == Current(c)
<1>1. i0 \in Ids /\ i0 = Held(c, 1) /\ 1 \in At(c) /\ entries[i0] \in EntrySet
  BY HeadIsFirst
<1>2. entries[i0].state # "new"
  BY <1>1 DEF Batches, Orderly
<1>3. PICK e : e = [entries[i0] EXCEPT !.state = "gone"]
  OBVIOUS
<1>4. /\ e \in EntrySet /\ entries' = [entries EXCEPT ![i0] = e]
      /\ e.request = entries[i0].request /\ e.state = "gone"
      /\ e.calls = entries[i0].calls /\ e.deliveries = entries[i0].deliveries
  BY <1>1, <1>3 DEF EntrySet
<1>5. Onward /\ Len(entries') = Len(entries)
  BY <1>1, <1>4, OneEntry
<1>6. entries'[i0] = e /\ \A i \in Ids \ {i0} : entries'[i] = entries[i]
  BY <1>1, <1>4, Domains
<1>7. /\ consumer' \in [Consumer -> ConsumerSet] /\ consumer'[c] = x
      /\ \A d \in Consumer \ {c} : consumer'[d] = consumer[d]
      /\ Batches'
      /\ \A i : ToCall(c, i)' <=> ToCall(c, i)
      /\ \A i : ToAnswer(c, i)' <=> ToAnswer(c, i)
  BY <1>5, HeadLeaves
<1>8. \A d \in Consumer : \A i : /\ ToCall(d, i)' => ToCall(d, i)
                                 /\ ToAnswer(d, i)' => ToAnswer(d, i)
  BY <1>7, DutiesKept
<1>9. \A i \in Ids : /\ entries'[i].calls = entries[i].calls
                     /\ entries'[i].deliveries = entries[i].deliveries
                     /\ entries'[i].state = "new" <=> entries[i].state = "new"
  BY <1>2, <1>4, <1>6
<1> QED
  BY <1>1, <1>5, <1>6, <1>7, <1>8, <1>9 DEF Passive

\* The batch is empty, or is lost.
LEMMA TurnEffect ==
    ASSUME TypeInv, Batches, NEW c \in Consumer, entries' = entries,
           NEW x \in ConsumerSet, x.pc \in {"read", "claim"}, x.batch = <<>>,
           consumer' = [consumer EXCEPT ![c] = x]
    PROVE  /\ Passive /\ consumer'[c] = x
           /\ \A d \in Consumer \ {c} : consumer'[d] = consumer[d]
<1>1. Onward
  BY Domains DEF Onward, TypeInv
<1>2. /\ consumer' \in [Consumer -> ConsumerSet] /\ consumer'[c] = x
      /\ \A d \in Consumer \ {c} : consumer'[d] = consumer[d]
  BY DEF TypeInv
<1>3. At(c)' = {}
  <2>1. At(c)' = 1..Len(x.batch) /\ Len(x.batch) = 0
    BY <1>2 DEF At
  <2>2. 1..0 = {}
    OBVIOUS
  <2> QED
    BY <2>1, <2>2
<1>4. Orderly(c)'
  BY <1>2, <1>3 DEF Orderly
<1>5. Batches'
  BY <1>1, <1>2, <1>4, BatchesKept
<1>6. \A d \in Consumer : \A i : /\ ToCall(d, i)' => ToCall(d, i)
                                 /\ ToAnswer(d, i)' => ToAnswer(d, i)
  BY <1>2, <1>3, DutiesKept DEF ToCall, ToAnswer
<1> QED
  BY <1>1, <1>2, <1>5, <1>6 DEF Passive

LEMMA ConsumeClaimedEffect ==
    ASSUME TypeInv, Batches, NEW c \in Consumer, ConsumeClaimed(c)
    PROVE  /\ Passive /\ entries' = entries
           /\ consumer'[c].pc \in {"read", "call"}
           /\ \A d \in Consumer \ {c} : consumer'[d] = consumer[d]
<1>1. PICK o \in Outcomes \cup {"none"} : o = consumer[c].outcome
  BY DEF TypeInv, ConsumerSet
<1>2. CASE consumer[c].batch = <<>>
  <2>1. PICK x : x = [consumer[c] EXCEPT !.pc = "read"]
    OBVIOUS
  <2>2. x \in ConsumerSet /\ x.pc = "read" /\ x.batch = <<>>
    BY <1>2, <2>1 DEF TypeInv, ConsumerSet, Pcs
  <2>3. consumer' = [consumer EXCEPT ![c] = x] /\ entries' = entries
    BY <1>2, <2>1 DEF ConsumeClaimed
  <2> QED
    BY <2>2, <2>3, TurnEffect
<1>3. CASE consumer[c].batch # <<>>
  <2>1. /\ consumer' = [consumer EXCEPT ![c] = [@ EXCEPT !.pc = "call", !.outcome = o]]
        /\ entries' = entries /\ consumer[c].pc = "claim"
    BY <1>1, <1>3 DEF ConsumeClaimed, TypeInv, ConsumerSet
  <2>2. Onward
    BY <2>1, Domains DEF Onward, TypeInv
  <2>3. /\ consumer' \in [Consumer -> ConsumerSet] /\ Batches'
        /\ \A i : ToCall(c, i)' <=> \E k \in At(c) : Held(c, k) = i
        /\ \A i : ToAnswer(c, i)' <=> \E k \in At(c) : Held(c, k) = i
        /\ \A d \in Consumer \ {c} : consumer'[d] = consumer[d]
        /\ consumer'[c].pc = "call"
    BY <1>3, <2>1, <2>2, HeadStays DEF Pcs
  <2>4. \A i : /\ ToCall(c, i) <=> \E k \in At(c) : Held(c, k) = i
               /\ ToAnswer(c, i) <=> \E k \in At(c) : Held(c, k) = i
    BY <2>1 DEF ToCall, ToAnswer
  <2>5. \A d \in Consumer : \A i : /\ ToCall(d, i)' => ToCall(d, i)
                                   /\ ToAnswer(d, i)' => ToAnswer(d, i)
    BY <2>3, <2>4, DutiesKept
  <2> QED
    BY <2>1, <2>2, <2>3, <2>5 DEF Passive
<1> QED
  BY <1>2, <1>3

LEMMA ClaimEffect ==
    ASSUME TypeInv, Batches, NEW c \in Consumer, NEW i \in Ids, Claim(c, i)
    PROVE  /\ Onward /\ Len(entries') = Len(entries)
           /\ entries[i].state # "new"
           /\ entries'[i] = [entries[i] EXCEPT !.deliveries = @ + 1]
           /\ \A j \in Ids \ {i} : entries'[j] = entries[j]
           /\ consumer' \in [Consumer -> ConsumerSet] /\ Batches'
           /\ consumer'[c].pc \in {"claim", "expire"}
           /\ \A j : ToCall(c, j)' => (ToCall(c, j) \/ (j = i /\ WithinReclaimCount(entries[i].deliveries)))
           /\ \A j : ToAnswer(c, j)' => (ToAnswer(c, j) \/ j = i)
           /\ \A d \in Consumer \ {c} : consumer'[d] = consumer[d] /\ SameDuties(d)
<1> DEFINE b == consumer[c].batch
<1>1. /\ consumer[c].pc = "claim" /\ entries[i].state = "pending" /\ entries[i] \in EntrySet
      /\ \A k \in At(c) : Held(c, k) # i
  BY Domains DEF Claim, Stale, Held
<1>2. PICK e : e = [entries[i] EXCEPT !.deliveries = @ + 1]
  OBVIOUS
<1>3. /\ e \in EntrySet /\ entries' = [entries EXCEPT ![i] = e]
      /\ e.request = entries[i].request /\ e.state = entries[i].state
  BY <1>1, <1>2 DEF EntrySet, Claim
<1>4. /\ Onward /\ Len(entries') = Len(entries) /\ entries'[i] = e
      /\ \A j \in Ids \ {i} : entries'[j] = entries[j]
  BY <1>1, <1>3, OneEntry, Domains
<1>5. b \in Seq(Nat) /\ Len(b) \in Nat /\ i \in Nat /\ At(c) = 1..Len(b)
  BY Domains DEF TypeInv, ConsumerSet, Ids, At
<1>6. PICK x : x = IF WithinReclaimCount(entries[i].deliveries)
                   THEN [consumer[c] EXCEPT !.batch = Append(b, i)]
                   ELSE [consumer[c] EXCEPT !.pc = "expire", !.batch = <<i>> \o b]
  OBVIOUS
<1>7. consumer' = [consumer EXCEPT ![c] = x]
  BY <1>6 DEF Claim
<1>8. x \in ConsumerSet /\ Len(x.batch) = Len(b) + 1
  <2>1. Append(b, i) \in Seq(Nat) /\ Len(Append(b, i)) = Len(b) + 1
    BY <1>5
  <2>2. <<i>> \o b \in Seq(Nat) /\ Len(<<i>> \o b) = Len(b) + 1
    BY <1>5
  <2>3. consumer[c] \in ConsumerSet
    BY DEF TypeInv
  <2> QED
    BY <1>6, <2>1, <2>2, <2>3 DEF ConsumerSet, Pcs
<1>9. /\ consumer' \in [Consumer -> ConsumerSet] /\ consumer'[c] = x
      /\ \A d \in Consumer \ {c} : consumer'[d] = consumer[d]
      /\ At(c)' = 1..Len(b) + 1
      /\ \A k \in At(c)' : Held(c, k)' = x.batch[k]
  BY <1>7, <1>8 DEF TypeInv, At, Held
<1>10. /\ \A k \in At(c) : Held(c, k) \in Ids /\ entries[Held(c, k)].state # "new"
       /\ \A j, k \in At(c) : Held(c, j) = Held(c, k) => j = k
  BY DEF Batches, Orderly
<1>11. \A j \in Ids : j \in 1..Len(entries') /\ (entries[j].state # "new" => entries'[j].state # "new")
  BY <1>4 DEF Onward, Ids
<1>12. CASE WithinReclaimCount(entries[i].deliveries)
  <2>1. x.pc = "claim" /\ x.batch = Append(b, i)
    BY <1>1, <1>6, <1>12 DEF TypeInv, ConsumerSet
  <2>2. \A k \in At(c)' : IF k = Len(b) + 1 THEN Held(c, k)' = i
                          ELSE k \in At(c) /\ Held(c, k)' = Held(c, k)
    BY <1>5, <1>9, <2>1 DEF Held
  <2>3. Orderly(c)'
    <3>1. \A k \in At(c)' : Held(c, k)' \in 1..Len(entries') /\ entries'[Held(c, k)'].state # "new"
      BY <1>1, <1>10, <1>11, <2>2
    <3>2. \A j, k \in At(c)' : Held(c, j)' = Held(c, k)' => j = k
      BY <1>1, <1>10, <2>2
    <3> QED
      BY <1>9, <2>1, <3>1, <3>2 DEF Orderly, Ids
  <2>4. \A j : (ToCall(c, j)' => (ToCall(c, j) \/ j = i)) /\ (ToAnswer(c, j)' => (ToAnswer(c, j) \/ j = i))
    BY <1>1, <2>2 DEF ToCall, ToAnswer
  <2>5. Batches' /\ consumer'[c].pc = "claim"
    BY <1>4, <1>9, <2>1, <2>3, BatchesKept
  <2>6. \A d \in Consumer \ {c} : SameDuties(d)
    BY <1>9, DutiesKept DEF SameDuties
  <2> QED
    BY <1>1, <1>2, <1>4, <1>9, <1>12, <2>4, <2>5, <2>6
<1>13. CASE ~WithinReclaimCount(entries[i].deliveries)
  <2>1. x.pc = "expire" /\ x.batch = <<i>> \o b
    BY <1>1, <1>6, <1>13 DEF TypeInv, ConsumerSet
  <2>2. \A k \in At(c)' : IF k = 1 THEN Held(c, k)' = i
                          ELSE k - 1 \in At(c) /\ Held(c, k)' = Held(c, k - 1)
    BY <1>5, <1>9, <2>1 DEF Held
  <2>3. Orderly(c)'
    <3>1. \A k \in At(c)' : Held(c, k)' \in 1..Len(entries') /\ entries'[Held(c, k)'].state # "new"
      BY <1>1, <1>10, <1>11, <2>2
    <3>2. \A j, k \in At(c)' : Held(c, j)' = Held(c, k)' => j = k
      <4> SUFFICES ASSUME NEW j \in At(c)', NEW k \in At(c)', Held(c, j)' = Held(c, k)' PROVE j = k
        OBVIOUS
      <4>1. CASE j = 1 \/ k = 1
        BY <1>1, <2>2, <4>1
      <4>2. CASE j # 1 /\ k # 1
        <5>1. j - 1 = k - 1
          BY <1>10, <2>2, <4>2
        <5> QED
          BY <1>5, <1>9, <5>1
      <4> QED
        BY <4>1, <4>2
    <3>3. x.batch # <<>>
      BY <1>5, <1>8
    <3> QED
      BY <1>9, <2>1, <3>1, <3>2, <3>3 DEF Orderly, Ids
  <2>4. \A j : (ToCall(c, j)' => ToCall(c, j)) /\ (ToAnswer(c, j)' => (ToAnswer(c, j) \/ j = i))
    BY <1>1, <1>9, <2>1, <2>2 DEF ToCall, ToAnswer
  <2>5. Batches' /\ consumer'[c].pc = "expire"
    BY <1>4, <1>9, <2>1, <2>3, BatchesKept
  <2>6. \A d \in Consumer \ {c} : SameDuties(d)
    BY <1>9, DutiesKept DEF SameDuties
  <2> QED
    BY <1>1, <1>2, <1>4, <1>9, <1>13, <2>4, <2>5, <2>6
<1> QED
  BY <1>12, <1>13

-----------------------------------------------------------------------------
(* Calls of an entry.                                                      *)

Callers(i) == {c \in Consumer : ToCall(c, i)}

\* The calls that were made of the entry and those that are to be made.
Counted(i) ==
    /\ entries[i].calls + Cardinality(Callers(i)) <= entries[i].deliveries
    /\ entries[i].calls + Cardinality(Callers(i)) <= 1 + ReclaimCount
    /\ entries[i].state = "new" => entries[i].deliveries = 0

CallsCounted == \A i \in Ids : Counted(i)

LEMMA CallersFinite ==
    \A i : IsFiniteSet(Callers(i)) /\ Cardinality(Callers(i)) \in Nat
<1> SUFFICES ASSUME NEW i PROVE IsFiniteSet(Callers(i)) /\ Cardinality(Callers(i)) \in Nat
  OBVIOUS
<1>1. Callers(i) \in SUBSET Consumer
  BY DEF Callers
<1> QED
  BY <1>1, ConsumersAssumption, FS_Subset, FS_CardinalityType

LEMMA CallersPrimed ==
    \A i : IsFiniteSet(Callers(i)') /\ Cardinality(Callers(i)') \in Nat
<1> SUFFICES ASSUME NEW i PROVE IsFiniteSet(Callers(i)') /\ Cardinality(Callers(i)') \in Nat
  OBVIOUS
<1>1. Callers(i)' \in SUBSET Consumer
  BY DEF Callers
<1> QED
  BY <1>1, ConsumersAssumption, FS_Subset, FS_CardinalityType

LEMMA OnlyHeldIsCalled ==
    ASSUME Batches
    PROVE  \A c \in Consumer : \A i : (ToCall(c, i) \/ ToAnswer(c, i)) => i \in Ids
  BY DEF Batches, Orderly, ToCall, ToAnswer

\* A step that makes and hands out no call.
LEMMA NothingCalled ==
    ASSUME TypeInv, Batches, CallsCounted, Onward,
           \A d \in Consumer : \A i : ToCall(d, i)' => ToCall(d, i),
           \A i \in Ids : /\ entries'[i].calls = entries[i].calls
                          /\ entries'[i].deliveries = entries[i].deliveries
                          /\ entries'[i].state = "new" => entries[i].state = "new",
           \A i \in 1..Len(entries') : i \notin Ids =>
               entries'[i].calls = 0 /\ entries'[i].deliveries = 0
    PROVE  CallsCounted'
<1> SUFFICES ASSUME NEW i \in 1..Len(entries') PROVE Counted(i)'
  BY DEF CallsCounted, Ids
<1>1. Callers(i)' \subseteq Callers(i)
  BY DEF Callers
<1>2. Cardinality(Callers(i)') <= Cardinality(Callers(i))
  BY <1>1, CallersFinite, FS_Subset
<1>3. CASE i \in Ids
  <2>1. /\ entries'[i].calls = entries[i].calls
        /\ entries'[i].deliveries = entries[i].deliveries
        /\ entries'[i].state = "new" => entries[i].state = "new"
    BY <1>3
  <2>2. entries[i].calls \in Nat /\ entries[i].deliveries \in Nat /\ Counted(i)
    BY <1>3, Domains DEF EntrySet, CallsCounted
  <2> QED
    BY <1>2, <2>1, <2>2, CallersFinite, CallersPrimed, SignalerAssumption DEF Counted
<1>4. CASE i \notin Ids
  <2>1. Callers(i) = {}
    BY <1>4, OnlyHeldIsCalled DEF Callers
  <2>2. Callers(i)' = {}
    BY <1>1, <2>1
  <2>3. Cardinality(Callers(i)') = 0
    BY <2>2, FS_EmptySet
  <2> QED
    BY <1>4, <2>3, SignalerAssumption DEF Counted
<1> QED
  BY <1>3, <1>4

LEMMA CallsOfRead ==
    ASSUME TypeInv, Batches, CallsCounted, NEW c \in Consumer, Read(c)
    PROVE  CallsCounted'
<1> SUFFICES ASSUME NEW i \in Ids PROVE Counted(i)'
  BY ReadEffect DEF CallsCounted, Ids
<1>1. entries[i] \in EntrySet /\ Counted(i)
  BY Domains DEF CallsCounted
<1>2. CASE i \in NewEntries
  <2>1. /\ entries'[i].state = "pending" /\ entries'[i].deliveries = 1
        /\ entries'[i].calls = entries[i].calls
    BY <1>1, <1>2, ReadEffect DEF EntrySet
  <2>2. entries[i].calls = 0 /\ Cardinality(Callers(i)) = 0
    BY <1>1, <1>2, CallersFinite DEF Counted, NewEntries, EntrySet
  <2>3. Callers(i) = {}
    BY <2>2, CallersFinite, FS_EmptySet
  <2>4. Callers(i)' \subseteq {c}
    BY <2>3, ReadEffect DEF Callers, SameDuties
  <2>5. IsFiniteSet({c}) /\ Cardinality({c}) = 1
    BY FS_Singleton
  <2>6. Cardinality(Callers(i)') <= 1
    BY <2>4, <2>5, FS_Subset
  <2> QED
    BY <2>1, <2>2, <2>6, CallersPrimed, SignalerAssumption DEF Counted
<1>3. CASE i \notin NewEntries
  <2>1. entries'[i] = entries[i]
    BY <1>3, ReadEffect
  <2>2. Callers(i)' \subseteq Callers(i)
    BY <1>3, ReadEffect DEF Callers, SameDuties
  <2>3. Cardinality(Callers(i)') <= Cardinality(Callers(i))
    BY <2>2, CallersFinite, FS_Subset
  <2> QED
    BY <1>1, <2>1, <2>3, CallersFinite, CallersPrimed, SignalerAssumption DEF Counted, EntrySet
<1> QED
  BY <1>2, <1>3

LEMMA CallsOfCall ==
    ASSUME TypeInv, Batches, CallsCounted, NEW c \in Consumer, Call(c)
    PROVE  CallsCounted'
<1> SUFFICES ASSUME NEW i \in Ids PROVE Counted(i)'
  BY CallEffect DEF CallsCounted, Ids
<1>1. entries[i] \in EntrySet /\ Counted(i)
  BY Domains DEF CallsCounted
<1>2. CASE i = Current(c)
  <2>1. Callers(i)' = Callers(i) \ {c} /\ c \in Callers(i)
    BY <1>2, CallEffect DEF Callers, SameDuties
  <2>2. Cardinality(Callers(i)') = Cardinality(Callers(i)) - 1
    BY <2>1, CallersFinite, FS_RemoveElement
  <2>3. /\ entries'[i].state = entries[i].state /\ entries'[i].deliveries = entries[i].deliveries
        /\ entries'[i].calls = entries[i].calls + 1
    BY <1>1, <1>2, CallEffect DEF EntrySet
  <2> QED
    BY <1>1, <2>2, <2>3, CallersFinite, SignalerAssumption DEF Counted, EntrySet
<1>3. CASE i # Current(c)
  <2>1. entries'[i] = entries[i]
    BY <1>3, CallEffect
  <2>2. Callers(i)' = Callers(i)
    BY <1>3, CallEffect DEF Callers, SameDuties
  <2> QED
    BY <1>1, <2>1, <2>2 DEF Counted
<1> QED
  BY <1>2, <1>3

LEMMA CallsOfClaim ==
    ASSUME TypeInv, Batches, CallsCounted, NEW c \in Consumer, NEW i \in Ids, Claim(c, i)
    PROVE  CallsCounted'
<1> SUFFICES ASSUME NEW j \in Ids PROVE Counted(j)'
  BY ClaimEffect DEF CallsCounted, Ids
<1>1. entries[j] \in EntrySet /\ Counted(j)
  BY Domains DEF CallsCounted
<1>2. Callers(j)' \subseteq IF j = i /\ WithinReclaimCount(entries[i].deliveries)
                            THEN Callers(j) \cup {c} ELSE Callers(j)
  BY ClaimEffect, ZenonT(60) DEF Callers, SameDuties
<1>3. /\ IsFiniteSet(Callers(j) \cup {c})
      /\ Cardinality(Callers(j) \cup {c}) <= Cardinality(Callers(j)) + 1
  <2>1. Cardinality(Callers(j)) \in Nat
    BY CallersFinite
  <2>2. /\ IsFiniteSet(Callers(j) \cup {c})
        /\ Cardinality(Callers(j) \cup {c}) =
              IF c \in Callers(j) THEN Cardinality(Callers(j)) ELSE Cardinality(Callers(j)) + 1
    BY CallersFinite, FS_AddElement
  <2> QED
    BY <2>1, <2>2
<1>4. IF j = i /\ WithinReclaimCount(entries[i].deliveries)
      THEN Cardinality(Callers(j)') <= Cardinality(Callers(j)) + 1
      ELSE Cardinality(Callers(j)') <= Cardinality(Callers(j))
  <2>1. CASE j = i /\ WithinReclaimCount(entries[i].deliveries)
    <3>1. Cardinality(Callers(j)') <= Cardinality(Callers(j) \cup {c})
      BY <1>2, <1>3, <2>1, FS_Subset
    <3>2. Cardinality(Callers(j) \cup {c}) \in Nat
      BY <1>3, FS_CardinalityType
    <3> QED
      BY <1>3, <2>1, <3>1, <3>2, CallersFinite, CallersPrimed
  <2>2. CASE ~(j = i /\ WithinReclaimCount(entries[i].deliveries))
    BY <1>2, <2>2, CallersFinite, FS_Subset
  <2> QED
    BY <2>1, <2>2
<1>5. CASE j = i
  <2>1. /\ entries'[j].state = entries[j].state /\ entries'[j].calls = entries[j].calls
        /\ entries'[j].deliveries = entries[j].deliveries + 1 /\ entries[j].state # "new"
    <3>1. entries'[i] = [entries[i] EXCEPT !.deliveries = @ + 1] /\ entries[i].state # "new"
      BY ClaimEffect
    <3> QED
      BY <1>1, <1>5, <3>1 DEF EntrySet
  <2>2. WithinReclaimCount(entries[j].deliveries) => entries[j].deliveries <= ReclaimCount
    BY DEF WithinReclaimCount
  <2> QED
    BY <1>1, <1>4, <1>5, <2>1, <2>2, CallersFinite, CallersPrimed, SignalerAssumption
    DEF Counted, EntrySet
<1>6. CASE j # i
  <2>1. entries'[j] = entries[j]
    BY <1>6, ClaimEffect
  <2> QED
    BY <1>1, <1>4, <1>6, <2>1, CallersFinite, CallersPrimed, SignalerAssumption DEF Counted, EntrySet
<1> QED
  BY <1>5, <1>6

-----------------------------------------------------------------------------
(* Answers to a request.                                                   *)

\* What is still to be answered: entries no consumer has seen, and entries
\* consumers have in hand.
Tokens(r) ==
    {x \in (SUBSET Consumer) \X Ids :
        /\ entries[x[2]].request = r
        /\ \/ x[1] = {} /\ entries[x[2]].state = "new"
           \/ \E c \in Consumer : x[1] = {c} /\ ToAnswer(c, x[2])}

Requested == \A i \in Ids : entries[i].request \in requested

AnswersCounted ==
    \A r \in Request :
        answers[r] + Cardinality(Tokens(r)) <= IF r \in requested THEN 1 + claims[r] ELSE 0

LEMMA TokenSetsFinite ==
    ASSUME NEW n \in Nat, NEW T \in SUBSET ((SUBSET Consumer) \X (1..n))
    PROVE  IsFiniteSet(T) /\ Cardinality(T) \in Nat
<1>1. IsFiniteSet(SUBSET Consumer) /\ IsFiniteSet(1..n)
  <2>1. IsFiniteSet(SUBSET Consumer)
    BY ConsumersAssumption, FS_SUBSET
  <2>2. IsFiniteSet(1..n)
    BY FS_Interval
  <2> QED
    BY <2>1, <2>2
<1>2. IsFiniteSet((SUBSET Consumer) \X (1..n))
  BY <1>1, FS_Product
<1> QED
  BY <1>2, FS_Subset, FS_CardinalityType

LEMMA TokensFinite ==
    ASSUME TypeInv
    PROVE  \A r : IsFiniteSet(Tokens(r)) /\ Cardinality(Tokens(r)) \in Nat
<1>1. \A r : Tokens(r) \in SUBSET ((SUBSET Consumer) \X (1..Len(entries)))
  BY DEF Tokens, Ids
<1> QED
  BY <1>1, Domains, TokenSetsFinite

LEMMA TokensPrimed ==
    ASSUME Onward
    PROVE  \A r : IsFiniteSet(Tokens(r)') /\ Cardinality(Tokens(r)') \in Nat
<1>1. \A r : Tokens(r)' \in SUBSET ((SUBSET Consumer) \X (1..Len(entries')))
  BY DEF Tokens, Ids
<1>2. Len(entries') \in Nat
  BY DEF Onward
<1> QED
  BY <1>1, <1>2, TokenSetsFinite

\* Nothing is handed out: no entry is added, none is newly in hand.
LEMMA FewerTokens ==
    ASSUME TypeInv, Onward, Len(entries') = Len(entries),
           \A i \in Ids : entries'[i].state = "new" => entries[i].state = "new",
           \A d \in Consumer : \A i : ToAnswer(d, i)' => ToAnswer(d, i),
           NEW r
    PROVE  Tokens(r)' \subseteq Tokens(r) /\ Cardinality(Tokens(r)') <= Cardinality(Tokens(r))
<1>1. Ids' = Ids
  BY DEF Ids
<1>2. \A i \in Ids : entries'[i].request = entries[i].request
  BY DEF Onward
<1>3. Tokens(r)' \subseteq Tokens(r)
  <2> SUFFICES ASSUME NEW x \in Tokens(r)' PROVE x \in Tokens(r)
    OBVIOUS
  <2>1. x \in (SUBSET Consumer) \X Ids /\ x[2] \in Ids /\ entries'[x[2]].request = r
    BY <1>1 DEF Tokens
  <2>2. \/ x[1] = {} /\ entries'[x[2]].state = "new"
        \/ \E c \in Consumer : x[1] = {c} /\ ToAnswer(c, x[2])'
    BY DEF Tokens
  <2> QED
    BY <1>2, <2>1, <2>2 DEF Tokens
<1> QED
  BY <1>3, TokensFinite, FS_Subset

LEMMA AnswersUnchanged ==
    ASSUME TypeInv, AnswersCounted, Onward, UNCHANGED <<answers, claims, requested>>,
           \A r \in Request : Cardinality(Tokens(r)') <= Cardinality(Tokens(r))
    PROVE  AnswersCounted'
  BY TokensFinite, TokensPrimed DEF TypeInv, AnswersCounted

LEMMA RequestedKept ==
    ASSUME TypeInv, Requested, Onward, requested \subseteq requested',
           \A i \in 1..Len(entries') : i \notin Ids => entries'[i].request \in requested'
    PROVE  Requested'
  BY DEF Requested, Onward, Ids

LEMMA AnswersOfRead ==
    ASSUME TypeInv, Batches, AnswersCounted, NEW c \in Consumer, Read(c)
    PROVE  AnswersCounted'
<1>1. Onward /\ Len(entries') = Len(entries) /\ UNCHANGED <<answers, claims, requested>>
  BY ReadEffect DEF Read
<1>2. Ids' = Ids /\ \A i \in Ids : entries'[i].request = entries[i].request
  BY <1>1 DEF Ids, Onward
<1> SUFFICES ASSUME NEW r \in Request
             PROVE  Cardinality(Tokens(r)') <= Cardinality(Tokens(r))
  BY <1>1, AnswersUnchanged
<1> DEFINE f == [x \in Tokens(r)' |-> IF x[2] \in NewEntries THEN <<{}, x[2]>> ELSE x]
<1>3. ASSUME NEW x \in Tokens(r)'
      PROVE  /\ x \in (SUBSET Consumer) \X Ids /\ entries[x[2]].request = r
             /\ x[2] \in NewEntries => x[1] = {c}
             /\ x[2] \notin NewEntries => x \in Tokens(r)
  <2>1. PICK i \in Ids : i = x[2]
    BY <1>2 DEF Tokens
  <2>2. x \in (SUBSET Consumer) \X Ids /\ entries'[i].request = r /\ entries[i].request = r
    BY <1>2, <2>1 DEF Tokens
  <2>3. entries'[i].state # "new"
    <3>1. entries[i] \in EntrySet
      BY Domains
    <3>2. CASE i \in NewEntries
      <4>1. entries'[i] = [entries[i] EXCEPT !.state = "pending", !.deliveries = 1]
        BY <3>2, ReadEffect
      <4> QED
        BY <3>1, <4>1 DEF EntrySet
    <3>3. CASE i \notin NewEntries
      <4>1. entries'[i] = entries[i]
        BY <3>3, ReadEffect
      <4> QED
        BY <3>3, <4>1, Domains DEF NewEntries
    <3> QED
      BY <3>2, <3>3
  <2>4. PICK d \in Consumer : x[1] = {d} /\ ToAnswer(d, i)'
    BY <2>1, <2>3 DEF Tokens
  <2>5. CASE d = c
    <3>1. i \in NewEntries
      BY <2>4, <2>5, ReadEffect
    <3> QED
      BY <2>1, <2>2, <2>4, <2>5, <3>1
  <2>6. CASE d # c
    <3>1. SameDuties(d)
      BY <2>6, ReadEffect
    <3>2. ToAnswer(d, i)
      BY <2>4, <3>1 DEF SameDuties
    <3>3. i \notin NewEntries
      BY <3>2 DEF Batches, Orderly, ToAnswer, NewEntries
    <3> QED
      BY <2>1, <2>2, <2>4, <3>2, <3>3 DEF Tokens
  <2> QED
    BY <2>5, <2>6
<1>4. \A x \in Tokens(r)' : f[x] \in Tokens(r)
  <2> SUFFICES ASSUME NEW x \in Tokens(r)' PROVE f[x] \in Tokens(r)
    OBVIOUS
  <2>1. CASE x[2] \in NewEntries
    <3>1. PICK y : y = <<{}, x[2]>>
      OBVIOUS
    <3>2. y \in (SUBSET Consumer) \X Ids /\ y[1] = {} /\ y[2] = x[2]
      BY <1>3, <3>1
    <3>3. y \in Tokens(r)
      BY <1>3, <2>1, <3>2 DEF Tokens, NewEntries
    <3> QED
      BY <2>1, <3>1, <3>3
  <2>2. CASE x[2] \notin NewEntries
    BY <1>3, <2>2
  <2> QED
    BY <2>1, <2>2
<1>5. \A x, y \in Tokens(r)' : f[x] = f[y] => x = y
  <2> SUFFICES ASSUME NEW x \in Tokens(r)', NEW y \in Tokens(r)', f[x] = f[y] PROVE x = y
    OBVIOUS
  <2>1. /\ x = <<x[1], x[2]>> /\ y = <<y[1], y[2]>>
        /\ x[2] \in NewEntries => x[1] = {c}
        /\ y[2] \in NewEntries => y[1] = {c}
    BY <1>3
  <2>2. f[x] = (IF x[2] \in NewEntries THEN <<{}, x[2]>> ELSE x)
    OBVIOUS
  <2>3. f[y] = (IF y[2] \in NewEntries THEN <<{}, y[2]>> ELSE y)
    OBVIOUS
  <2>4. x[2] = y[2]
    BY <2>1, <2>2, <2>3
  <2> QED
    BY <2>1, <2>2, <2>3, <2>4
<1>6. f \in Injection(Tokens(r)', Tokens(r))
  BY <1>4, <1>5 DEF Injection, IsInjective
<1> HIDE DEF f
<1> QED
  BY <1>6, TokensFinite, FS_Injection

\* A consumer answers, or has the request tried again by a new entry.
LEMMA AnswersOfRetry ==
    ASSUME TypeInv, Batches, Requested, AnswersCounted, NEW c \in Consumer, PublishResponse(c)
    PROVE  AnswersCounted'
<1>1. PICK i \in Ids, q \in Request : i = Current(c) /\ q = entries[i].request
  BY RetryEffect, Domains DEF EntrySet
<1>2. /\ Onward /\ UNCHANGED <<claims, requested>> /\ ToAnswer(c, i)
      /\ \A j : ToAnswer(c, j)' <=> (ToAnswer(c, j) /\ j # i)
      /\ \A d \in Consumer \ {c} : \A j : ToAnswer(d, j)' <=> ToAnswer(d, j)
      /\ \A j \in Ids : entries'[j] = entries[j]
  BY <1>1, RetryEffect DEF PublishResponse, SameDuties
<1>3. PICK t : t = <<{c}, i>>
  OBVIOUS
<1>4. t \in Tokens(q)
  <2>1. t \in (SUBSET Consumer) \X Ids /\ t[1] = {c} /\ t[2] = i
    BY <1>3
  <2> QED
    BY <1>1, <1>2, <2>1 DEF Tokens
<1>5. ASSUME NEW r \in Request, NEW x \in Tokens(r)', x[2] \in Ids
      PROVE  x \in Tokens(r) /\ x # t
  <2>1. PICK j \in Ids : j = x[2]
    BY <1>5
  <2>2. x \in (SUBSET Consumer) \X Ids /\ entries[j].request = r
    BY <1>2, <2>1 DEF Tokens, Ids
  <2>3. \/ x[1] = {} /\ entries[j].state = "new"
        \/ \E d \in Consumer : x[1] = {d} /\ ToAnswer(d, j)'
    BY <1>2, <2>1 DEF Tokens
  <2>4. \A d \in Consumer : x[1] = {d} /\ ToAnswer(d, j)' => ToAnswer(d, j) /\ (d # c \/ j # i)
    BY <1>2
  <2>5. x \in Tokens(r)
    BY <2>1, <2>2, <2>3, <2>4 DEF Tokens
  <2>6. x # t
    BY <1>3, <2>1, <2>3, <2>4
  <2> QED
    BY <2>5, <2>6
<1>6. Cardinality(Tokens(q) \ {t}) = Cardinality(Tokens(q)) - 1 /\ IsFiniteSet(Tokens(q) \ {t})
  BY <1>4, TokensFinite, FS_RemoveElement
<1>7. CASE answers' = [answers EXCEPT ![q] = @ + 1] /\ Len(entries') = Len(entries)
  <2>1. \A r \in Request : Tokens(r)' \subseteq Tokens(r) /\ t \notin Tokens(r)'
    <3>1. \A r \in Request : \A x \in Tokens(r)' : x[2] \in Ids
      BY <1>7 DEF Tokens, Ids
    <3> QED
      BY <1>5, <3>1
  <2>2. \A r \in Request : Cardinality(Tokens(r)') <= Cardinality(Tokens(r))
    BY <2>1, TokensFinite, FS_Subset
  <2>3. Cardinality(Tokens(q)') <= Cardinality(Tokens(q)) - 1
    <3>1. Tokens(q)' \subseteq Tokens(q) \ {t}
      BY <2>1
    <3> QED
      BY <1>6, <3>1, FS_Subset
  <2> QED
    BY <1>2, <1>7, <2>2, <2>3, TokensFinite, TokensPrimed, SMTT(30) DEF TypeInv, AnswersCounted
<1>8. CASE answers' = answers /\ Len(entries') = Len(entries)
  <2>1. \A r \in Request : \A x \in Tokens(r)' : x[2] \in Ids
    BY <1>8 DEF Tokens, Ids
  <2>2. \A r \in Request : Cardinality(Tokens(r)') <= Cardinality(Tokens(r))
    BY <1>5, <2>1, TokensFinite, FS_Subset
  <2> QED
    BY <1>2, <1>8, <2>2, AnswersUnchanged
<1>9. CASE /\ answers' = answers /\ Len(entries') = Len(entries) + 1
           /\ \E n \in Nat : entries'[Len(entries) + 1] = Entry(q, n)
  <2>1. PICK u : u = <<{}, Len(entries) + 1>>
    OBVIOUS
  <2>2. ASSUME NEW r \in Request, NEW x \in Tokens(r)', x[2] \notin Ids
        PROVE  x = u /\ r = q
    <3>1. x[2] = Len(entries) + 1 /\ entries'[x[2]].request = r /\ x \in (SUBSET Consumer) \X Ids'
      BY <1>9, <2>2, Domains DEF Tokens, Ids
    <3>2. r = q
      BY <1>9, <3>1 DEF Entry
    <3>3. \A d \in Consumer : ~ToAnswer(d, x[2])
      BY <2>2, OnlyHeldIsCalled
    <3>4. x[1] = {}
      BY <1>2, <3>3 DEF Tokens
    <3> QED
      BY <2>1, <3>1, <3>2, <3>4
  <2>3. \A r \in Request : r # q => Tokens(r)' \subseteq Tokens(r)
    BY <1>5, <2>2
  <2>4. Tokens(q)' \subseteq (Tokens(q) \ {t}) \cup {u}
    BY <1>5, <2>2
  <2>5. Cardinality(Tokens(q)') <= Cardinality(Tokens(q))
    <3>1. /\ IsFiniteSet((Tokens(q) \ {t}) \cup {u})
          /\ Cardinality((Tokens(q) \ {t}) \cup {u}) =
                IF u \in Tokens(q) \ {t} THEN Cardinality(Tokens(q) \ {t})
                ELSE Cardinality(Tokens(q) \ {t}) + 1
      BY <1>6, FS_AddElement
    <3>2. Cardinality(Tokens(q)') <= Cardinality((Tokens(q) \ {t}) \cup {u})
      BY <2>4, <3>1, FS_Subset
    <3> QED
      BY <1>6, <3>1, <3>2, TokensFinite, TokensPrimed, <1>2
  <2>6. \A r \in Request : Cardinality(Tokens(r)') <= Cardinality(Tokens(r))
    BY <2>3, <2>5, TokensFinite, FS_Subset
  <2> QED
    BY <1>2, <1>9, <2>6, AnswersUnchanged
<1> QED
  BY <1>1, <1>7, <1>8, <1>9, RetryEffect

LEMMA AnswersOfExpire ==
    ASSUME TypeInv, Batches, Requested, AnswersCounted, NEW c \in Consumer, Expire(c)
    PROVE  AnswersCounted'
<1>1. PICK i \in Ids, q \in Request : i = Current(c) /\ q = entries[i].request
  BY ExpireEffect, Domains DEF EntrySet
<1>2. /\ Onward /\ UNCHANGED <<claims, requested, entries>> /\ ToAnswer(c, i)
      /\ answers' = [answers EXCEPT ![q] = @ + 1]
      /\ \A j : ToAnswer(c, j)' <=> (ToAnswer(c, j) /\ j # i)
      /\ \A d \in Consumer \ {c} : \A j : ToAnswer(d, j)' <=> ToAnswer(d, j)
  BY <1>1, ExpireEffect DEF Expire, SameDuties
<1>3. PICK t : t = <<{c}, i>>
  OBVIOUS
<1>4. t \in Tokens(q)
  <2>1. t \in (SUBSET Consumer) \X Ids /\ t[1] = {c} /\ t[2] = i
    BY <1>3
  <2> QED
    BY <1>1, <1>2, <2>1 DEF Tokens
<1>5. \A d \in Consumer : \A j : ToAnswer(d, j)' => ToAnswer(d, j)
  BY <1>2
<1>6. \A r \in Request : Tokens(r)' \subseteq Tokens(r) /\ Cardinality(Tokens(r)') <= Cardinality(Tokens(r))
  BY <1>2, <1>5, FewerTokens
<1>7. t \notin Tokens(q)'
  BY <1>2, <1>3 DEF Tokens
<1>8. Cardinality(Tokens(q) \ {t}) = Cardinality(Tokens(q)) - 1 /\ IsFiniteSet(Tokens(q) \ {t})
  BY <1>4, TokensFinite, FS_RemoveElement
<1>9. Cardinality(Tokens(q)') <= Cardinality(Tokens(q)) - 1
  <2>1. Tokens(q)' \subseteq Tokens(q) \ {t}
    BY <1>6, <1>7
  <2> QED
    BY <1>8, <2>1, FS_Subset
<1> QED
  BY <1>2, <1>6, <1>9, TokensFinite, TokensPrimed, SMTT(30) DEF TypeInv, AnswersCounted

LEMMA AnswersOfClaim ==
    ASSUME TypeInv, Batches, Requested, AnswersCounted,
           NEW c \in Consumer, NEW i \in Ids, Claim(c, i)
    PROVE  AnswersCounted'
<1>1. PICK q \in Request : q = entries[i].request
  BY Domains DEF EntrySet
<1>2. /\ Onward /\ Len(entries') = Len(entries) /\ UNCHANGED <<answers, requested>>
      /\ claims' = [claims EXCEPT ![q] = @ + 1] /\ q \in requested
  BY <1>1, ClaimEffect DEF Claim, Requested
<1>3. /\ \A j : ToAnswer(c, j)' => (ToAnswer(c, j) \/ j = i)
      /\ \A d \in Consumer \ {c} : \A j : ToAnswer(d, j)' <=> ToAnswer(d, j)
  BY ClaimEffect DEF SameDuties
<1>4. \A j \in Ids : entries'[j].request = entries[j].request /\ entries'[j].state = entries[j].state
  <2>1. entries'[i].request = entries[i].request /\ entries'[i].state = entries[i].state
    <3>1. entries'[i] = [entries[i] EXCEPT !.deliveries = @ + 1] /\ entries[i] \in EntrySet
      BY ClaimEffect, Domains
    <3> QED
      BY <3>1 DEF EntrySet
  <2>2. \A j \in Ids \ {i} : entries'[j] = entries[j]
    BY ClaimEffect
  <2> QED
    BY <2>1, <2>2
<1>5. PICK t : t = <<{c}, i>>
  OBVIOUS
<1>6. ASSUME NEW r \in Request, NEW x \in Tokens(r)'
      PROVE  x \in Tokens(r) \/ (x = t /\ r = q)
  <2>1. PICK j \in Ids : j = x[2]
    BY <1>2 DEF Tokens, Ids
  <2>2. x \in (SUBSET Consumer) \X Ids /\ entries[j].request = r
    BY <1>2, <1>4, <2>1 DEF Tokens, Ids
  <2>3. \/ x[1] = {} /\ entries[j].state = "new"
        \/ \E d \in Consumer : x[1] = {d} /\ ToAnswer(d, j)'
    BY <1>4, <2>1 DEF Tokens
  <2>4. \A d \in Consumer : x[1] = {d} /\ ToAnswer(d, j)' => ToAnswer(d, j) \/ (d = c /\ j = i)
    BY <1>3
  <2>5. CASE x[1] = {c} /\ j = i
    <3>1. x = <<x[1], x[2]>>
      BY <2>2
    <3> QED
      BY <1>1, <1>5, <2>1, <2>2, <2>5, <3>1
  <2>6. CASE ~(x[1] = {c} /\ j = i)
    BY <2>1, <2>2, <2>3, <2>4, <2>6 DEF Tokens
  <2> QED
    BY <2>5, <2>6
<1>7. \A r \in Request : r # q => Cardinality(Tokens(r)') <= Cardinality(Tokens(r))
  <2>1. \A r \in Request : r # q => Tokens(r)' \subseteq Tokens(r)
    BY <1>6
  <2> QED
    BY <2>1, TokensFinite, FS_Subset
<1>8. Cardinality(Tokens(q)') <= Cardinality(Tokens(q)) + 1
  <2>1. Tokens(q)' \subseteq Tokens(q) \cup {t}
    BY <1>6
  <2>2. /\ IsFiniteSet(Tokens(q) \cup {t})
        /\ Cardinality(Tokens(q) \cup {t}) =
              IF t \in Tokens(q) THEN Cardinality(Tokens(q)) ELSE Cardinality(Tokens(q)) + 1
    BY TokensFinite, FS_AddElement
  <2>3. Cardinality(Tokens(q)') <= Cardinality(Tokens(q) \cup {t})
    BY <2>1, <2>2, FS_Subset
  <2> QED
    BY <1>2, <2>2, <2>3, TokensFinite, TokensPrimed
<1>9. /\ \A r \in Request : Cardinality(Tokens(r)) \in Nat /\ Cardinality(Tokens(r)') \in Nat
      /\ \A r \in Request : claims[r] \in Nat /\ answers[r] \in Nat
      /\ claims'[q] = claims[q] + 1 /\ \A r \in Request : r # q => claims'[r] = claims[r]
  BY <1>2, TokensFinite, TokensPrimed DEF TypeInv
<1>10. ASSUME NEW r \in Request
       PROVE  answers[r] + Cardinality(Tokens(r)') <= IF r \in requested THEN 1 + claims'[r] ELSE 0
  <2>1. answers[r] + Cardinality(Tokens(r)) <= IF r \in requested THEN 1 + claims[r] ELSE 0
    BY DEF AnswersCounted
  <2>2. CASE r = q
    BY <1>2, <1>8, <1>9, <2>1, <2>2
  <2>3. CASE r # q
    BY <1>7, <1>9, <2>1, <2>3
  <2> QED
    BY <2>2, <2>3
<1> QED
  BY <1>2, <1>10 DEF AnswersCounted

LEMMA AnswersOfPublish ==
    ASSUME TypeInv, Batches, Requested, AnswersCounted, NEW r \in Request, Publish(r)
    PROVE  AnswersCounted' /\ Onward /\ Requested'
<1>1. /\ Onward /\ Len(entries') = Len(entries) + 1
      /\ \A i \in Ids : entries'[i] = entries[i]
      /\ entries'[Len(entries) + 1] = Entry(r, 0)
  BY NewEntry DEF Publish
<1>2. /\ UNCHANGED <<answers, silent, claims>> /\ requested' = requested \cup {r} /\ r \notin requested
      /\ consumer' = consumer
  BY DEF Publish
<1>3. \A d \in Consumer : \A j : ToAnswer(d, j)' <=> ToAnswer(d, j)
  BY <1>2, DutiesKept
<1>4. PICK u : u = <<{}, Len(entries) + 1>>
  OBVIOUS
<1>5. ASSUME NEW q \in Request, NEW x \in Tokens(q)'
      PROVE  (x \in Tokens(q) /\ q # r) \/ (x = u /\ q = r)
  <2>1. PICK j : j = x[2]
    OBVIOUS
  <2>2. /\ x \in (SUBSET Consumer) \X Ids' /\ j \in Ids' /\ entries'[j].request = q
        /\ \/ x[1] = {} /\ entries'[j].state = "new"
           \/ \E d \in Consumer : x[1] = {d} /\ ToAnswer(d, j)
    BY <1>3, <2>1 DEF Tokens
  <2>3. CASE j \in Ids
    <3>1. x \in (SUBSET Consumer) \X Ids /\ entries'[j] = entries[j]
      BY <1>1, <2>1, <2>2, <2>3
    <3>2. q \in requested
      BY <2>2, <2>3, <3>1 DEF Requested
    <3> QED
      BY <1>2, <2>1, <2>2, <3>1, <3>2 DEF Tokens
  <2>4. CASE j \notin Ids
    <3>1. j = Len(entries) + 1
      BY <1>1, <2>2, <2>4, Domains DEF Ids
    <3>2. \A d \in Consumer : ~ToAnswer(d, j)
      BY <2>4, OnlyHeldIsCalled
    <3>3. x = <<x[1], x[2]>> /\ x[1] = {} /\ q = r
      BY <1>1, <2>2, <3>1, <3>2 DEF Entry
    <3> QED
      BY <1>4, <2>1, <3>1, <3>3
  <2> QED
    BY <2>3, <2>4
<1>6. \A q \in Request : q # r => Cardinality(Tokens(q)') <= Cardinality(Tokens(q))
  <2>1. \A q \in Request : q # r => Tokens(q)' \subseteq Tokens(q)
    BY <1>5
  <2> QED
    BY <2>1, TokensFinite, FS_Subset
<1>7. Cardinality(Tokens(r)') <= 1
  <2>1. Tokens(r)' \subseteq {u}
    BY <1>5
  <2>2. IsFiniteSet({u}) /\ Cardinality({u}) = 1
    BY FS_Singleton
  <2> QED
    BY <2>1, <2>2, FS_Subset
<1>8. AnswersCounted'
  BY <1>1, <1>2, <1>6, <1>7, TokensFinite, TokensPrimed, SMTT(30) DEF TypeInv, AnswersCounted
<1>9. Requested'
  <2>1. \A i \in 1..Len(entries') : i \notin Ids => i = Len(entries) + 1
    BY <1>1, Domains DEF Ids
  <2> QED
    BY <1>1, <1>2, <2>1, RequestedKept DEF Entry
<1> QED
  BY <1>1, <1>8, <1>9

-----------------------------------------------------------------------------
(* A request is kept.                                                      *)

AtEnd(c) == consumer[c].pc \in {"ack", "expired"}

\* An entry of r that is not about to be acknowledged.
Keeps(r, i) ==
    /\ i \in Ids /\ entries[i].request = r /\ entries[i].state # "gone"
    /\ \A c \in Consumer : AtEnd(c) => Current(c) # i

Kept == \A r \in requested : ~Concluded(r) => \E i \in Ids : Keeps(r, i)

LEMMA StillKept ==
    ASSUME TypeInv, Kept, Onward, NEW c \in Consumer, requested' = requested,
           consumer'[c].pc \notin {"ack", "expired"},
           \A d \in Consumer \ {c} : consumer'[d] = consumer[d],
           \A r \in requested : Concluded(r) => Concluded(r)',
           \A i \in Ids : entries'[i].state = "gone" =>
               entries[i].state = "gone" \/ (AtEnd(c) /\ i = Current(c))
    PROVE  Kept'
<1> SUFFICES ASSUME NEW r \in requested, ~Concluded(r)'
             PROVE  \E i \in Ids' : Keeps(r, i)'
  BY DEF Kept
<1>1. PICK i \in Ids : Keeps(r, i)
  BY DEF Kept
<1>2. i \in Ids' /\ entries'[i].request = r /\ entries'[i].state # "gone"
  BY <1>1, Domains DEF Keeps, Onward, Ids
<1>3. \A d \in Consumer : AtEnd(d)' => Current(d)' # i
  BY <1>1 DEF Keeps, AtEnd, Current
<1> QED
  BY <1>2, <1>3 DEF Keeps

\* The new entry, which nobody has in hand, keeps its request.
LEMMA NewEntryKeeps ==
    ASSUME TypeInv, Batches, Onward, NEW r, Len(entries') = Len(entries) + 1,
           NEW t, entries'[Len(entries) + 1] = Entry(r, t),
           \A d \in Consumer : AtEnd(d)' => Current(d)' \in Ids
    PROVE  \E i \in Ids' : Keeps(r, i)'
<1>1. PICK n : n = Len(entries) + 1
  OBVIOUS
<1>2. n \in Ids' /\ n \notin Ids /\ entries'[n] = Entry(r, t)
  BY <1>1, Domains DEF Ids
<1>3. Keeps(r, n)'
  BY <1>2 DEF Keeps, Entry
<1> QED
  BY <1>2, <1>3

\* What c deals with is concluded; any other request is kept as it was.
LEMMA KeptOfAnswer ==
    ASSUME TypeInv, Kept, Onward, NEW c \in Consumer, requested' = requested,
           \A i \in Ids : entries'[i] = entries[i],
           \A d \in Consumer \ {c} : consumer'[d] = consumer[d],
           Current(c)' = Current(c), Current(c) \in Ids,
           NEW r \in requested, r # entries[Current(c)].request, Concluded(r) => Concluded(r)'
    PROVE  ~Concluded(r)' => \E i \in Ids' : Keeps(r, i)'
<1> SUFFICES ASSUME ~Concluded(r)' PROVE \E i \in Ids' : Keeps(r, i)'
  OBVIOUS
<1>1. PICK i \in Ids : Keeps(r, i)
  BY DEF Kept
<1>2. i # Current(c)
  BY <1>1 DEF Keeps
<1>3. i \in Ids' /\ entries'[i].request = r /\ entries'[i].state # "gone"
  BY <1>1, Domains DEF Keeps, Onward, Ids
<1>4. \A d \in Consumer : AtEnd(d)' => Current(d)' # i
  BY <1>1, <1>2 DEF Keeps, AtEnd, Current
<1> QED
  BY <1>3, <1>4 DEF Keeps

LEMMA KeptOfRetry ==
    ASSUME TypeInv, Batches, Requested, Kept, NEW c \in Consumer, PublishResponse(c)
    PROVE  Kept'
<1> SUFFICES ASSUME NEW r \in requested, ~Concluded(r)'
             PROVE  \E i \in Ids' : Keeps(r, i)'
  BY DEF Kept, PublishResponse
<1>1. PICK q \in Request : q = entries[Current(c)].request
  BY RetryEffect, Domains DEF EntrySet
<1>2. requested' = requested /\ \A x \in Request : answers[x] \in Nat
  BY DEF PublishResponse, TypeInv
<1>3. CASE r # q
  <2>1. Concluded(r) => Concluded(r)'
    BY <1>1, <1>3, RetryEffect DEF TypeInv, Concluded
  <2> QED
    BY <1>1, <1>2, <1>3, <2>1, RetryEffect, KeptOfAnswer
<1>4. CASE r = q
  <2>1. PICK t \in Nat : /\ Len(entries') = Len(entries) + 1
                         /\ entries'[Len(entries) + 1] = Entry(r, t)
    BY <1>1, <1>2, <1>4, RetryEffect DEF TypeInv, Concluded
  <2>2. \A d \in Consumer : AtEnd(d)' => Current(d)' \in Ids
    <3> SUFFICES ASSUME NEW d \in Consumer, AtEnd(d)', d # c PROVE Current(d)' \in Ids
      BY RetryEffect
    <3>1. consumer'[d] = consumer[d]
      BY RetryEffect
    <3>2. Current(d)' = Current(d) /\ AtEnd(d)
      BY <3>1 DEF Current, AtEnd
    <3> QED
      BY <3>2, HeadIsFirst DEF AtEnd
  <2> QED
    BY <2>1, <2>2, NewEntryKeeps, RetryEffect
<1> QED
  BY <1>3, <1>4

LEMMA KeptOfExpire ==
    ASSUME TypeInv, Batches, Requested, Kept, NEW c \in Consumer, Expire(c)
    PROVE  Kept'
<1> SUFFICES ASSUME NEW r \in requested, ~Concluded(r)'
             PROVE  \E i \in Ids' : Keeps(r, i)'
  BY DEF Kept, Expire
<1>1. PICK q \in Request : q = entries[Current(c)].request
  BY ExpireEffect, Domains DEF EntrySet
<1>2. requested' = requested /\ \A x \in Request : answers[x] \in Nat
  BY DEF Expire, TypeInv
<1>3. r # q
  BY <1>1, <1>2, ExpireEffect DEF TypeInv, Concluded
<1>4. Concluded(r) => Concluded(r)'
  BY <1>1, <1>3, ExpireEffect DEF TypeInv, Concluded, Expire
<1> QED
  BY <1>1, <1>2, <1>3, <1>4, ExpireEffect, KeptOfAnswer

LEMMA KeptOfPublish ==
    ASSUME TypeInv, Batches, Kept, NEW r \in Request, Publish(r)
    PROVE  Kept'
<1>1. /\ Onward /\ Len(entries') = Len(entries) + 1
      /\ \A i \in Ids : entries'[i] = entries[i]
      /\ entries'[Len(entries) + 1] = Entry(r, 0)
  BY NewEntry DEF Publish
<1>2. /\ UNCHANGED <<answers, silent, consumer>> /\ requested' = requested \cup {r}
  BY DEF Publish
<1>3. \E i \in Ids' : Keeps(r, i)'
  <2>1. \A d \in Consumer : AtEnd(d)' => Current(d)' \in Ids
    BY <1>2, HeadIsFirst DEF AtEnd, Current
  <2> QED
    BY <1>1, <2>1, NewEntryKeeps
<1>4. ASSUME NEW q \in requested, ~Concluded(q)'
      PROVE  \E i \in Ids' : Keeps(q, i)'
  <2>1. PICK i \in Ids : Keeps(q, i)
    BY <1>2, <1>4 DEF Kept, Concluded
  <2>2. Keeps(q, i)' /\ i \in Ids'
    BY <1>1, <1>2, <2>1, Domains DEF Keeps, AtEnd, Current, Ids
  <2> QED
    BY <2>2
<1> QED
  BY <1>2, <1>3, <1>4 DEF Kept

-----------------------------------------------------------------------------
(* The invariant, and what follows from it.                                *)

IInv == TypeInv /\ Batches /\ CallsCounted /\ Requested /\ AnswersCounted /\ Kept

LEMMA InitHolds == Init => IInv
<1> SUFFICES ASSUME Init PROVE IInv
  OBVIOUS
<1>1. entries = <<>> /\ Len(entries) = 0 /\ Ids = {}
  <2>1. entries = <<>> /\ Len(entries) = 0
    BY DEF Init
  <2>2. 1..0 = {}
    OBVIOUS
  <2> QED
    BY <2>1, <2>2 DEF Ids
<1>2. TypeInv
  BY <1>1 DEF Init, TypeInv, Reading, ConsumerSet, Pcs
<1>3. Batches
  <2>1. \A c \in Consumer : At(c) = {} /\ consumer[c] = Reading
    <3>1. 1..0 = {}
      OBVIOUS
    <3> QED
      BY <3>1 DEF Init, Reading, At
  <2> QED
    BY <2>1 DEF Batches, Orderly, Reading
<1>4. CallsCounted /\ Requested /\ Kept
  BY <1>1 DEF Init, CallsCounted, Requested, Kept
<1>5. AnswersCounted
  <2>1. \A r : Tokens(r) = {}
    BY <1>1 DEF Tokens
  <2>2. \A r : Cardinality(Tokens(r)) = 0
    BY <2>1, FS_EmptySet
  <2> QED
    BY <2>2 DEF Init, AnswersCounted
<1> QED
  BY <1>2, <1>3, <1>4, <1>5 DEF IInv

\* A step in which nothing is called, answered or handed out.
LEMMA PassiveStep ==
    ASSUME IInv, Passive, NEW c \in Consumer, UNCHANGED <<requested, answers, silent, claims>>,
           consumer'[c].pc \notin {"ack", "expired"},
           \A d \in Consumer \ {c} : consumer'[d] = consumer[d],
           \A i \in Ids : entries'[i].state = "gone" =>
               entries[i].state = "gone" \/ (AtEnd(c) /\ i = Current(c))
    PROVE  IInv'
<1> USE DEF IInv
<1>1. TypeInv' /\ Batches'
  BY DEF Passive, Onward, TypeInv
<1>2. Ids' = Ids
  BY DEF Passive, Ids
<1>3. CallsCounted'
  BY <1>2, NothingCalled DEF Passive, Ids
<1>4. Requested'
  BY <1>2 DEF Passive, Requested, Onward
<1>5. AnswersCounted'
  <2>1. \A r : Cardinality(Tokens(r)') <= Cardinality(Tokens(r))
    BY FewerTokens DEF Passive
  <2> QED
    BY <2>1, AnswersUnchanged DEF Passive
<1>6. Kept'
  BY StillKept DEF Passive, Concluded
<1> QED
  BY <1>1, <1>3, <1>4, <1>5, <1>6

LEMMA ConsumeStep ==
    ASSUME IInv, NEW c \in Consumer, Consume(c) \/ Break(c)
    PROVE  IInv'
<1> USE DEF IInv
<1>1. CASE Read(c)
  <2>1. UNCHANGED <<requested, answers, silent, claims>>
    BY <1>1 DEF Read
  <2>2. TypeInv' /\ Batches' /\ Onward /\ Ids' = Ids
    BY <1>1, <2>1, ReadEffect DEF Onward, TypeInv, Ids
  <2>3. CallsCounted' /\ AnswersCounted'
    BY <1>1, CallsOfRead, AnswersOfRead
  <2>4. Requested'
    BY <2>1, <2>2 DEF Requested, Onward
  <2>5. Kept'
    <3>1. \A i \in Ids : entries'[i].state = "gone" => entries[i].state = "gone"
      BY <1>1, ReadEffect, Domains DEF EntrySet
    <3> QED
      BY <1>1, <2>1, <2>2, <3>1, ReadEffect, StillKept DEF Concluded
  <2> QED
    BY <2>2, <2>3, <2>4, <2>5
<1>2. CASE Call(c)
  <2>1. UNCHANGED <<requested, answers, silent, claims>>
    BY <1>2 DEF Call
  <2>2. TypeInv' /\ Batches' /\ Onward /\ Len(entries') = Len(entries) /\ Ids' = Ids
    BY <1>2, <2>1, CallEffect DEF Onward, TypeInv, Ids
  <2>3. \A i \in Ids : entries'[i].state = entries[i].state
    <3>1. entries'[Current(c)].state = entries[Current(c)].state
      <4>1. PICK i \in Ids : i = Current(c)
        BY <1>2, CallEffect
      <4>2. entries'[i] = [entries[i] EXCEPT !.calls = @ + 1] /\ entries[i] \in EntrySet
        BY <1>2, <4>1, CallEffect, Domains
      <4> QED
        BY <4>1, <4>2 DEF EntrySet
    <3> QED
      BY <1>2, <3>1, CallEffect
  <2>4. AnswersCounted'
    <3>1. \A d \in Consumer : \A i : ToAnswer(d, i)' => ToAnswer(d, i)
      BY <1>2, CallEffect DEF SameDuties
    <3>2. \A r : Cardinality(Tokens(r)') <= Cardinality(Tokens(r))
      BY <2>2, <2>3, <3>1, FewerTokens
    <3> QED
      BY <2>1, <2>2, <3>2, AnswersUnchanged
  <2>5. Requested'
    BY <2>1, <2>2 DEF Requested, Onward
  <2>6. Kept'
    BY <1>2, <2>1, <2>2, <2>3, CallEffect, StillKept DEF Concluded
  <2> QED
    BY <1>2, <2>2, <2>4, <2>5, <2>6, CallsOfCall
<1>3. CASE PublishResponse(c)
  <2>1. TypeInv' /\ Batches' /\ Onward
    <3>1. PICK q \in Request : q = entries[Current(c)].request
      BY <1>3, RetryEffect, Domains DEF EntrySet
    <3>2. answers' \in [Request -> Nat]
      <4>1. answers' = answers \/ answers' = [answers EXCEPT ![q] = @ + 1]
        BY <1>3, <3>1, RetryEffect
      <4> QED
        BY <4>1 DEF TypeInv
    <3>3. silent' = silent \/ silent' = silent \cup {q}
      BY <1>3, <3>1, RetryEffect
    <3> QED
      BY <1>3, <3>1, <3>2, <3>3, RetryEffect DEF Onward, TypeInv, PublishResponse
  <2>2. \A i \in 1..Len(entries') : i \notin Ids =>
           \E t \in Nat : entries'[i] = Entry(entries[Current(c)].request, t)
    BY <1>3, RetryEffect, Domains DEF Ids
  <2>3. CallsCounted'
    <3>1. \A d \in Consumer : \A i : ToCall(d, i)' => ToCall(d, i)
      BY <1>3, RetryEffect DEF SameDuties
    <3>2. \A i \in Ids : entries'[i] = entries[i]
      BY <1>3, RetryEffect
    <3>3. \A i \in 1..Len(entries') : i \notin Ids =>
             entries'[i].calls = 0 /\ entries'[i].deliveries = 0
      <4> SUFFICES ASSUME NEW i \in 1..Len(entries'), i \notin Ids
                   PROVE  entries'[i].calls = 0 /\ entries'[i].deliveries = 0
        OBVIOUS
      <4>1. PICK t \in Nat : entries'[i] = Entry(entries[Current(c)].request, t)
        BY <2>2
      <4> QED
        BY <4>1 DEF Entry
    <3> QED
      BY <2>1, <3>1, <3>2, <3>3, NothingCalled
  <2>4. Requested'
    <3>1. requested' = requested /\ entries[Current(c)].request \in requested
      BY <1>3, RetryEffect DEF PublishResponse, Requested
    <3>2. ASSUME NEW i \in 1..Len(entries'), i \notin Ids
          PROVE  entries'[i].request \in requested'
      <4>1. PICK t \in Nat : entries'[i] = Entry(entries[Current(c)].request, t)
        BY <2>2, <3>2
      <4> QED
        BY <3>1, <4>1 DEF Entry
    <3> QED
      BY <2>1, <3>1, <3>2, RequestedKept
  <2> QED
    BY <1>3, <2>1, <2>3, <2>4, AnswersOfRetry, KeptOfRetry
<1>4. CASE AckAndDelete(c)
  <2>1. PICK x : x = [pc |-> IF Tail(consumer[c].batch) = <<>> THEN "read" ELSE "call",
                      batch |-> Tail(consumer[c].batch), outcome |-> "none"]
    OBVIOUS
  <2>2. /\ consumer[c].pc = "ack" /\ UNCHANGED <<requested, answers, silent, claims>>
        /\ entries' = [entries EXCEPT ![Current(c)].state = "gone"]
        /\ consumer' = [consumer EXCEPT ![c] = x]
    BY <1>4, <2>1 DEF AckAndDelete
  <2>3. x \in ConsumerSet
    BY <2>1, <2>2, TailInSeq DEF ConsumerSet, Pcs
  <2>4. /\ Passive /\ consumer'[c] = x
        /\ \A i \in Ids \ {Current(c)} : entries'[i] = entries[i]
        /\ \A d \in Consumer \ {c} : consumer'[d] = consumer[d]
    BY <2>1, <2>2, <2>3, GoneEffect
  <2> QED
    BY <2>1, <2>2, <2>4, PassiveStep DEF AtEnd
<1>5. CASE LookForStale(c)
  <2>1. PICK x : x = [consumer[c] EXCEPT !.pc = "claim"]
    OBVIOUS
  <2>2. x \in ConsumerSet /\ x.pc = "claim" /\ x.batch = <<>>
    BY <1>5, <2>1 DEF LookForStale, TypeInv, ConsumerSet, Pcs, Batches, Orderly
  <2>3. consumer' = [consumer EXCEPT ![c] = x] /\ UNCHANGED <<entries, requested, answers, silent, claims>>
    BY <1>5, <2>1 DEF LookForStale
  <2>4. Passive /\ consumer'[c] = x /\ \A d \in Consumer \ {c} : consumer'[d] = consumer[d]
    BY <2>2, <2>3, TurnEffect
  <2> QED
    BY <2>2, <2>3, <2>4, PassiveStep
<1>6. ASSUME NEW i \in DOMAIN entries, Claim(c, i) PROVE IInv'
  <2>1. i \in Ids /\ UNCHANGED <<requested, answers, silent>>
    BY <1>6, Domains DEF Claim
  <2>2. TypeInv' /\ Batches' /\ Onward /\ Ids' = Ids
    <3>1. claims' \in [Request -> Nat]
      <4>1. PICK q \in Request : q = entries[i].request
        BY <2>1, Domains DEF EntrySet
      <4>2. claims' = [claims EXCEPT ![q] = @ + 1]
        BY <1>6, <4>1 DEF Claim
      <4> QED
        BY <4>2 DEF TypeInv
    <3> QED
      BY <1>6, <2>1, <3>1, ClaimEffect DEF Onward, TypeInv, Ids
  <2>3. Requested'
    BY <2>1, <2>2 DEF Requested, Onward
  <2>4. Kept'
    <3>1. entries'[i].state = entries[i].state
      <4>1. entries'[i] = [entries[i] EXCEPT !.deliveries = @ + 1] /\ entries[i] \in EntrySet
        BY <1>6, <2>1, ClaimEffect, Domains
      <4> QED
        BY <4>1 DEF EntrySet
    <3>2. \A j \in Ids : entries'[j].state = "gone" => entries[j].state = "gone"
      BY <1>6, <2>1, <3>1, ClaimEffect
    <3> QED
      BY <1>6, <2>1, <2>2, <3>2, ClaimEffect, StillKept DEF Concluded
  <2> QED
    BY <1>6, <2>1, <2>2, <2>3, <2>4, CallsOfClaim, AnswersOfClaim
<1>7. CASE Expire(c)
  <2>1. TypeInv' /\ Batches' /\ Onward /\ Ids' = Ids /\ UNCHANGED <<requested, claims, entries, silent>>
    <3>1. PICK q \in Request : q = entries[Current(c)].request
      BY <1>7, ExpireEffect, Domains DEF EntrySet
    <3>2. answers' \in [Request -> Nat]
      <4>1. answers' = [answers EXCEPT ![q] = @ + 1]
        BY <1>7, <3>1, ExpireEffect
      <4> QED
        BY <4>1 DEF TypeInv
    <3> QED
      BY <1>7, <3>2, ExpireEffect DEF Onward, TypeInv, Ids, Expire
  <2>2. CallsCounted'
    <3>1. \A d \in Consumer : \A i : ToCall(d, i)' => ToCall(d, i)
      BY <1>7, ExpireEffect DEF SameDuties
    <3> QED
      BY <2>1, <3>1, NothingCalled DEF Ids
  <2>3. Requested'
    BY <2>1 DEF Requested
  <2> QED
    BY <1>7, <2>1, <2>2, <2>3, AnswersOfExpire, KeptOfExpire
<1>8. CASE ExpireAck(c)
  <2>1. PICK x : x = [consumer[c] EXCEPT !.pc = "claim", !.batch = Tail(consumer[c].batch)]
    OBVIOUS
  <2>2. /\ consumer[c].pc = "expired" /\ UNCHANGED <<requested, answers, silent, claims>>
        /\ entries' = [entries EXCEPT ![Current(c)].state = "gone"]
        /\ consumer' = [consumer EXCEPT ![c] = x]
    BY <1>8, <2>1 DEF ExpireAck
  <2>3. x \in ConsumerSet /\ x.pc = "claim" /\ x.batch = Tail(consumer[c].batch)
    BY <2>1, <2>2, TailInSeq DEF ConsumerSet, Pcs, TypeInv
  <2>4. /\ Passive /\ consumer'[c] = x
        /\ \A i \in Ids \ {Current(c)} : entries'[i] = entries[i]
        /\ \A d \in Consumer \ {c} : consumer'[d] = consumer[d]
    BY <2>2, <2>3, GoneEffect
  <2> QED
    BY <2>2, <2>3, <2>4, PassiveStep DEF AtEnd
<1>9. CASE ConsumeClaimed(c)
  <2>1. UNCHANGED <<requested, answers, silent, claims>>
    BY <1>9 DEF ConsumeClaimed
  <2> QED
    BY <1>9, <2>1, ConsumeClaimedEffect, PassiveStep
<1>10. CASE Break(c)
  <2>1. Reading \in ConsumerSet /\ Reading.pc = "read" /\ Reading.batch = <<>>
    BY DEF Reading, ConsumerSet, Pcs
  <2>2. consumer' = [consumer EXCEPT ![c] = Reading] /\ UNCHANGED <<entries, requested, answers, silent, claims>>
    BY <1>10 DEF Break
  <2>3. Passive /\ consumer'[c] = Reading /\ \A d \in Consumer \ {c} : consumer'[d] = consumer[d]
    BY <2>1, <2>2, TurnEffect
  <2> QED
    BY <2>1, <2>2, <2>3, PassiveStep
<1> QED
  BY <1>1, <1>2, <1>3, <1>4, <1>5, <1>6, <1>7, <1>8, <1>9, <1>10 DEF Consume

LEMMA PublishStep ==
    ASSUME IInv, NEW r \in Request, Publish(r)
    PROVE  IInv'
<1> USE DEF IInv
<1>1. Onward /\ Requested' /\ AnswersCounted' /\ Kept'
  BY AnswersOfPublish, KeptOfPublish
<1>2. /\ Len(entries') = Len(entries) + 1 /\ \A i \in Ids : entries'[i] = entries[i]
      /\ entries'[Len(entries) + 1] = Entry(r, 0)
      /\ consumer' = consumer /\ UNCHANGED <<answers, silent, claims>> /\ requested' = requested \cup {r}
  BY NewEntry DEF Publish
<1>3. TypeInv'
  BY <1>1, <1>2 DEF TypeInv, Onward
<1>4. \A d \in Consumer : consumer'[d] = consumer[d] /\ SameDuties(d)
  BY <1>2, DutiesKept DEF SameDuties
<1>5. Batches'
  <2>1. Ids \subseteq Ids'
    BY <1>2, Domains DEF Ids
  <2> QED
    BY <1>1, <1>2, <2>1 DEF Batches, Orderly, At, Held, Onward
<1>6. CallsCounted'
  <2>1. \A i \in 1..Len(entries') : i \notin Ids => i = Len(entries) + 1
    BY <1>2, Domains DEF Ids
  <2>2. \A d \in Consumer : \A i : ToCall(d, i)' => ToCall(d, i)
    BY <1>4 DEF SameDuties
  <2> QED
    BY <1>1, <1>2, <2>1, <2>2, NothingCalled DEF Entry
<1> QED
  BY <1>1, <1>3, <1>5, <1>6

LEMMA StepHolds == IInv /\ [Next]_vars => IInv'
<1> SUFFICES ASSUME IInv, [Next]_vars PROVE IInv'
  OBVIOUS
<1>1. CASE Next
  BY <1>1, PublishStep, ConsumeStep DEF Next
<1>2. CASE UNCHANGED vars
  <2> USE DEF IInv
  <2>1. UNCHANGED <<entries, consumer, requested, answers, silent, claims>>
    BY <1>2 DEF vars
  <2>2. TypeInv' /\ Ids' = Ids
    BY <2>1 DEF TypeInv, Ids
  <2>3. \A c \in Consumer : SameDuties(c) /\ Orderly(c)'
    BY <2>1, <2>2, DutiesKept DEF SameDuties, Batches, Orderly, At, Held
  <2>4. Batches' /\ Requested'
    BY <2>1, <2>2, <2>3 DEF Batches, Requested
  <2>5. CallsCounted'
    <3>1. \A i : Callers(i)' = Callers(i)
      BY <2>3 DEF Callers, SameDuties
    <3> QED
      BY <2>1, <2>2, <3>1 DEF CallsCounted, Counted
  <2>6. AnswersCounted'
    <3>1. \A r : Tokens(r)' = Tokens(r)
      BY <2>1, <2>2, <2>3 DEF Tokens, SameDuties
    <3> QED
      BY <2>1, <3>1 DEF AnswersCounted
  <2>7. Kept'
    BY <2>1, <2>2 DEF Kept, Concluded, Keeps, AtEnd, Current
  <2> QED
    BY <2>2, <2>4, <2>5, <2>6, <2>7
<1> QED
  BY <1>1, <1>2

\* Entries, batches and counters have their types, with any number of them.
THEOREM StreamTypes == Spec => []TypeOK
<1>1. IInv => TypeOK
  <2> SUFFICES ASSUME IInv PROVE TypeOK
    OBVIOUS
  <2>1. \A c \in Consumer : consumer[c].batch \in Seq(DOMAIN entries)
    <3> SUFFICES ASSUME NEW c \in Consumer PROVE consumer[c].batch \in Seq(DOMAIN entries)
      OBVIOUS
    <3>1. DOMAIN entries = Ids
      BY Domains DEF IInv
    <3>2. consumer[c].batch \in [1..Len(consumer[c].batch) -> Ids] /\ Len(consumer[c].batch) \in Nat
      BY DEF IInv, TypeInv, ConsumerSet, Batches, Orderly, At, Held
    <3>3. consumer[c].batch \in Seq(Ids)
      BY <3>2, SeqDef
    <3> QED
      BY <3>1, <3>3
  <2> QED
    BY <2>1 DEF TypeOK, IInv, TypeInv, EntrySet, ConsumerSet, Pcs
<1> QED
  BY <1>1, InitHolds, StepHolds, PTL DEF Spec

\* Whatever consumers do or fail to do, a request has an entry in the stream
\* until it is answered or a callback that dealt with it returned nothing: what
\* is acknowledged was dealt with to the end, or is to be retried.
THEOREM RequestsKept == Spec => []RequestKept
<1>1. IInv => RequestKept
  BY Domains DEF IInv, Kept, Keeps, RequestKept
<1> QED
  BY <1>1, InitHolds, StepHolds, PTL DEF Spec

\* Retries, batches and lost batches alone repeat no answer; claims do, one each.
THEOREM RepeatsAreOnlyClaims == Spec => []RepeatsAreClaims
<1>1. IInv => RepeatsAreClaims
  <2> SUFFICES ASSUME IInv, NEW r \in Request PROVE answers[r] <= 1 + claims[r]
    BY DEF RepeatsAreClaims
  <2>1. answers[r] \in Nat /\ claims[r] \in Nat /\ Cardinality(Tokens(r)) \in Nat
    BY TokensFinite DEF IInv, TypeInv
  <2>2. answers[r] + Cardinality(Tokens(r)) <= IF r \in requested THEN 1 + claims[r] ELSE 0
    BY DEF IInv, AnswersCounted
  <2> QED
    BY <2>1, <2>2
<1> QED
  BY <1>1, InitHolds, StepHolds, PTL DEF Spec

\* No entry runs the callback more often than its delivery and the claims that
\* are within the limit, though several consumers may hold it at a time.
THEOREM CallsAreBounded == Spec => []CallsBounded
<1>1. IInv => CallsBounded
  BY Domains, CallersFinite, SignalerAssumption
  DEF IInv, CallsCounted, Counted, CallsBounded, EntrySet
<1> QED
  BY <1>1, InitHolds, StepHolds, PTL DEF Spec
=============================================================================
