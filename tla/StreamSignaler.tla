--------------------------- MODULE StreamSignaler ---------------------------
(***************************************************************************)
(* One Redis stream, its consumer group and the StreamSignaler loops that  *)
(* consume it: read what is new, hand each entry to the callback, publish  *)
(* what the callback answers (or the request once more, if it failed and   *)
(* its retry policy says so), acknowledge; then claim the entries another  *)
(* consumer left unacknowledged for too long.                              *)
(*                                                                         *)
(* A request is what one activity asked for.  It lives in one or more      *)
(* entries: the one it was journaled with and one for each retry.  The     *)
(* callback may answer it, fail, or return nothing, as the engine's does   *)
(* unless it throws; then nothing is published and the entry is done with. *)
(*                                                                         *)
(* Abstracted: payloads; how long anything takes (an unacknowledged entry  *)
(* may be found stale at any time); the limit of ten entries per xpending. *)
(* External: the group exists before the first request, and each Redis     *)
(* command takes effect at once.                                           *)
(***************************************************************************)
EXTENDS Integers, Sequences, FiniteSets

CONSTANTS
    Request,
    Consumer,
    Outcomes,       \* what the callback may do: one of "answer", "nothing",
                    \* and the errors "retryable" and "fatal"
    PolicyRetries,  \* the retry policy's first value for a "retryable" code
    MaxRetries,     \* MAX_RETRIES
    ReclaimCount,   \* config.reclaimCount
    MaxDelays,      \* bound: claims of entries whose consumer is still at it
    MaxBreaks       \* bound: consumers that lose their batch

ASSUME SignalerAssumption ==
    /\ PolicyRetries \in Nat /\ MaxRetries \in Nat /\ ReclaimCount \in Nat
    /\ Outcomes \subseteq {"answer", "nothing", "retryable", "fatal"}
ASSUME ConsumersAssumption == IsFiniteSet(Consumer)

VARIABLES
    entries,   \* the stream: every entry ever added, by its id
    consumer,  \* consumer[c]: where its loop is, and the entries it was handed
    requested, \* requests that were journaled
    answers,   \* answers[r]: responses published to the engine for r
    silent,    \* requests that a callback dealt with and returned nothing for
    claims,    \* claims[r]: entries of r that were claimed
    delays, breaks

vars == <<entries, consumer, requested, answers, silent, claims, delays, breaks>>

\* deliveries counts what xpending reports; calls, runs of the callback.
Entry(r, t) ==
    [request |-> r, try |-> t, state |-> "new", deliveries |-> 0, calls |-> 0]

Reading == [pc |-> "read", batch |-> <<>>, outcome |-> "none"]

Init ==
    /\ entries = <<>>
    /\ consumer = [c \in Consumer |-> Reading]
    /\ requested = {}
    /\ answers = [r \in Request |-> 0]
    /\ silent = {}
    /\ claims = [r \in Request |-> 0]
    /\ delays = 0
    /\ breaks = 0

\* publishMessage: an activity journals its request.
Publish(r) ==
    /\ r \notin requested
    /\ requested' = requested \cup {r}
    /\ entries' = Append(entries, Entry(r, 0))
    /\ UNCHANGED <<consumer, answers, silent, claims, delays, breaks>>

-----------------------------------------------------------------------------
(* xreadgroup: every entry no consumer has seen, in stream order.          *)

NewEntries == {i \in DOMAIN entries : entries[i].state = "new"}

\* A batch is in stream order.
InOrder(b) == \A j, k \in DOMAIN b : j < k => b[j] < b[k]

Read(c) ==
    /\ consumer[c].pc = "read"
    /\ NewEntries # {}
    /\ \E b \in [1..Cardinality(NewEntries) -> NewEntries] :
         /\ InOrder(b)
         /\ consumer' = [consumer EXCEPT ![c].pc = "call", ![c].batch = b]
    /\ entries' = [i \in DOMAIN entries |->
                     IF i \in NewEntries
                     THEN [entries[i] EXCEPT !.state = "pending", !.deliveries = 1]
                     ELSE entries[i]]
    /\ UNCHANGED <<requested, answers, silent, claims, delays, breaks>>

-----------------------------------------------------------------------------
(* consumeOne, for the entry at the head of the batch.                     *)

Current(c) == Head(consumer[c].batch)

\* Variant: what the callback throws is not structured.
CallUncaught(c) ==
    /\ consumer[c].pc = "call"
    /\ \E o \in Outcomes \cup {"thrown"} :
         consumer' = [consumer EXCEPT ![c].pc = "publish", ![c].outcome = o]
    /\ entries' = [entries EXCEPT ![Current(c)].calls = @ + 1]
    /\ UNCHANGED <<requested, answers, silent, claims, delays, breaks>>

\* execStreamLeg: what the callback returns or throws.
Call(c) ==
    /\ consumer[c].pc = "call"
    /\ \E o \in Outcomes :
         consumer' = [consumer EXCEPT ![c].pc = "publish", ![c].outcome = o]
    /\ entries' = [entries EXCEPT ![Current(c)].calls = @ + 1]
    /\ UNCHANGED <<requested, answers, silent, claims, delays, breaks>>

\* shouldRetry
ShouldRetry(o, t) ==
    o = "retryable" /\ PolicyRetries >= (IF t < MaxRetries THEN t ELSE MaxRetries)

\* Variant: the entry that is to be retried is left to be acknowledged.
RetryInPlace(c) ==
    LET i == Current(c)
        r == entries[i].request
        o == consumer[c].outcome
    IN  /\ consumer[c].pc = "publish"
        /\ answers' = IF o = "nothing" \/ ShouldRetry(o, entries[i].try) THEN answers
                      ELSE [answers EXCEPT ![r] = @ + 1]
        /\ silent' = IF o = "nothing" THEN silent \cup {r} ELSE silent
        /\ consumer' = [consumer EXCEPT ![c].pc = "ack"]
        /\ UNCHANGED <<entries, requested, claims, delays, breaks>>

\* Variant: a failure that will be retried is answered as well.
RetryAndAnswer(c) ==
    LET i == Current(c)
        r == entries[i].request
    IN  /\ consumer[c].pc = "publish"
        /\ entries' = IF ShouldRetry(consumer[c].outcome, entries[i].try)
                      THEN Append(entries, Entry(r, entries[i].try + 1))
                      ELSE entries
        /\ answers' = [answers EXCEPT ![r] = @ + 1]
        /\ consumer' = [consumer EXCEPT ![c].pc = "ack"]
        /\ UNCHANGED <<requested, silent, claims, delays, breaks>>

\* publishResponse: nothing, the request again, or a response.
PublishResponse(c) ==
    LET i == Current(c)
        r == entries[i].request
        o == consumer[c].outcome
        retried == ShouldRetry(o, entries[i].try)
    IN  /\ consumer[c].pc = "publish"
        /\ \/ /\ o = "nothing"
              /\ silent' = silent \cup {r}
              /\ UNCHANGED <<entries, answers>>
           \/ /\ retried
              /\ entries' = Append(entries, Entry(r, entries[i].try + 1))
              /\ UNCHANGED <<answers, silent>>
           \/ /\ o # "nothing" /\ ~retried
              /\ answers' = [answers EXCEPT ![r] = @ + 1]
              /\ UNCHANGED <<entries, silent>>
        /\ consumer' = [consumer EXCEPT ![c].pc = "ack"]
        /\ UNCHANGED <<requested, claims, delays, breaks>>

\* ackAndDelete, then the next entry of the batch or the next turn.
AckAndDelete(c) ==
    LET rest == Tail(consumer[c].batch)
    IN  /\ consumer[c].pc = "ack"
        /\ entries' = [entries EXCEPT ![Current(c)].state = "gone"]
        /\ consumer' = [consumer EXCEPT ![c] =
             [pc |-> IF rest = <<>> THEN "read" ELSE "call", batch |-> rest,
              outcome |-> "none"]]
        /\ UNCHANGED <<requested, answers, silent, claims, delays, breaks>>

-----------------------------------------------------------------------------
(* claimUnacknowledged                                                     *)

InBatch(i) == \E c \in Consumer : \E k \in DOMAIN consumer[c].batch : consumer[c].batch[k] = i

\* Variant: entries that no consumer holds any more are overlooked.
StaleHeld(i) ==
    entries[i].state = "pending" /\ InBatch(i) /\ delays < MaxDelays

\* An entry idle for longer than reclaimDelay: its consumer lost it, or it is
\* slow or has a long batch before it.
Stale(i) ==
    /\ entries[i].state = "pending"
    /\ InBatch(i) => delays < MaxDelays

LookForStale(c) ==
    /\ consumer[c].pc = "read"
    /\ \E i \in DOMAIN entries : Stale(i)
    /\ consumer' = [consumer EXCEPT ![c].pc = "claim"]
    /\ UNCHANGED <<entries, requested, answers, silent, claims, delays, breaks>>

\* The delivery count up to which a claimed entry is handed to the callback.
WithinReclaimCountOff(n) == n <= ReclaimCount + 1   \* variant: off by one

WithinReclaimCount(n) == n <= ReclaimCount

\* xclaim, on the delivery count xpending reported: within the limit the entry
\* joins the batch, beyond it expireUnacknowledged takes it.
Claim(c, i) ==
    /\ consumer[c].pc = "claim"
    /\ Stale(i)
    /\ \A k \in DOMAIN consumer[c].batch : consumer[c].batch[k] # i
    /\ consumer' =
         IF WithinReclaimCount(entries[i].deliveries)
         THEN [consumer EXCEPT ![c].batch = Append(@, i)]
         ELSE [consumer EXCEPT ![c].pc = "expire", ![c].batch = <<i>> \o @]
    /\ entries' = [entries EXCEPT ![i].deliveries = @ + 1]
    /\ claims' = [claims EXCEPT ![entries[i].request] = @ + 1]
    /\ delays' = IF InBatch(i) THEN delays + 1 ELSE delays
    /\ UNCHANGED <<requested, answers, silent, breaks>>

\* expireUnacknowledged answers for the callback with code 999, for which no
\* policy is written, ...
Expire(c) ==
    /\ consumer[c].pc = "expire"
    /\ answers' = [answers EXCEPT ![entries[Current(c)].request] = @ + 1]
    /\ consumer' = [consumer EXCEPT ![c].pc = "expired"]
    /\ UNCHANGED <<entries, requested, silent, claims, delays, breaks>>

\* ... and acknowledges the entry.
ExpireAck(c) ==
    /\ consumer[c].pc = "expired"
    /\ entries' = [entries EXCEPT ![Current(c)].state = "gone"]
    /\ consumer' = [consumer EXCEPT ![c].pc = "claim", ![c].batch = Tail(@)]
    /\ UNCHANGED <<requested, answers, silent, claims, delays, breaks>>

ConsumeClaimed(c) ==
    /\ consumer[c].pc = "claim"
    /\ consumer' = [consumer EXCEPT ![c].pc = IF consumer[c].batch = <<>> THEN "read" ELSE "call"]
    /\ UNCHANGED <<entries, requested, answers, silent, claims, delays, breaks>>

-----------------------------------------------------------------------------
\* The process stops, or a Redis call fails and the loop starts its next turn:
\* the rest of the batch stays unacknowledged.
Break(c) ==
    /\ breaks < MaxBreaks
    /\ consumer[c].pc # "read"
    /\ consumer' = [consumer EXCEPT ![c] = Reading]
    /\ breaks' = breaks + 1
    /\ UNCHANGED <<entries, requested, answers, silent, claims, delays>>

Consume(c) ==
    \/ Read(c) \/ Call(c) \/ PublishResponse(c) \/ AckAndDelete(c)
    \/ LookForStale(c) \/ (\E i \in DOMAIN entries : Claim(c, i))
    \/ Expire(c) \/ ExpireAck(c) \/ ConsumeClaimed(c)

Next ==
    \/ \E r \in Request : Publish(r)
    \/ \E c \in Consumer : Consume(c) \/ Break(c)

Spec == Init /\ [][Next]_vars

\* setImmediate and setTimeout keep the loops turning, the callback returns,
\* and a consumer that stops is restarted.  Every turn reads what is new before
\* it looks for stale entries, and an entry nobody handles grows older than
\* reclaimDelay, so neither is put off for ever.
FairSpec ==
    /\ Spec
    /\ \A c \in Consumer :
         /\ WF_vars(Consume(c))
         /\ SF_vars(Read(c))
         /\ SF_vars(\E i \in DOMAIN entries : Claim(c, i))

-----------------------------------------------------------------------------
TypeOK ==
    /\ entries \in Seq([request : Request, try : Nat,
                        state : {"new", "pending", "gone"},
                        deliveries : Nat, calls : Nat])
    /\ \A c \in Consumer :
         /\ consumer[c].pc \in {"read", "call", "publish", "ack", "claim", "expire", "expired"}
         /\ consumer[c].batch \in Seq(DOMAIN entries)
         /\ consumer[c].outcome \in Outcomes \cup {"none"}
    /\ requested \subseteq Request /\ silent \subseteq Request
    /\ answers \in [Request -> Nat] /\ claims \in [Request -> Nat]

(* architecture.md, "Streams are used when executing an activity":         *)
(* whatever consumers do or fail to do, a request has an entry in the      *)
(* stream until it is answered or a callback that dealt with it returned   *)
(* nothing.  What is acknowledged unanswered was dealt with to the end, or *)
(* is retried by another entry.                                            *)
Concluded(r) == answers[r] > 0 \/ r \in silent

RequestKept ==
    \A r \in requested : ~Concluded(r) =>
        \E i \in DOMAIN entries : entries[i].request = r /\ entries[i].state # "gone"

(* An answer is repeated only as often as an entry was claimed from        *)
(* another consumer: retries, batches and breaks alone repeat none.        *)
RepeatsAreClaims == \A r \in Request : answers[r] <= 1 + claims[r]

(* XCLAIM_COUNT, "max number of times a message can be claimed by another  *)
(* before it is dead-lettered": the callback runs at most that often again. *)
CallsBounded == \A i \in DOMAIN entries : entries[i].calls <= 1 + ReclaimCount

(* faq.md: "the engine will retry (xclaim) the activity until the retry    *)
(* limit is reached": every request is answered in the end, or was dealt   *)
(* with by a callback that returned nothing.                               *)
RequestsConclude == \A r \in Request : r \in requested ~> Concluded(r)

(* types/stream.ts: the policy's first value is the "max retry count".     *)
RetriesWithinPolicy == \A i \in DOMAIN entries : entries[i].try <= PolicyRetries
=============================================================================
