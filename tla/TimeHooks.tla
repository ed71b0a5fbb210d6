------------------------------ MODULE TimeHooks -----------------------------
(***************************************************************************)
(* Time hooks: sleeping jobs are kept in one list per time slot, and the   *)
(* slots that hold jobs in one sorted set.  Every quorum member runs a     *)
(* poller.  Each action is one round trip to Redis; nothing makes two of   *)
(* them atomic.  Registration and polling may therefore miss one another,  *)
(* a poller may stop with a job in hand, and an entry may reach the        *)
(* activity before leg 1 was saved: a job that is not woken is so for one  *)
(* of these three reasons (SleepersWake).                                  *)
(***************************************************************************)
EXTENDS HookActivity, Sequences

CONSTANTS
    Fidelity,   \* ticks in a slot (15 seconds)
    Durations,  \* how many ticks activities ask to sleep
    MaxNow,     \* bound on the clock
    MaxStops    \* bound on pollers and registrations that stop half way

ASSUME ClockAssumption ==
    Fidelity \in Nat \ {0} /\ MaxNow \in Nat /\ Durations \subseteq Nat

VARIABLES
    now,      \* the clock
    wish,     \* when the job asked to be woken
    slot,     \* the slot it was put in
    lists,    \* jobs per slot
    slotSet,  \* the sorted set: slots that are to be polled
    poller,   \* where each poller is, in which slot, with which job
    pops,     \* how often the job was taken from its list
    dropped,  \* slots removed from the sorted set while their list held jobs
    stops

clockVars == <<now, wish, slot>>
timeVars == <<clockVars, lists, slotSet, poller, pops, dropped, stops>>

NoJob == "no job"
Slots == 0..MaxNow

\* registerTimeHook's slot: rounded down, so up to Fidelity - 1 ticks early.
AwakenTimeSlot(t) == (t \div Fidelity) * Fidelity

TimeInit ==
    /\ now = 0
    /\ wish = [j \in Jobs |-> 0]
    /\ slot = [j \in Jobs |-> 0]
    /\ lists = [s \in Slots |-> <<>>]
    /\ slotSet = {}
    /\ poller = [e \in Engines |-> [step |-> "poll", slot |-> 0, job |-> NoJob]]
    /\ pops = [j \in Jobs |-> 0]
    /\ dropped = {}
    /\ stops = 0

-----------------------------------------------------------------------------
(* Registration, by the engine in leg 1.                                   *)

AddsNoSlot(len) == len = 0   \* variant: off by one

\* Only the push that made the list adds its slot to the sorted set.
AddsSlot(len) == len = 1

\* RPUSH: its reply, the length, decides whether the slot must be added.
PushTimeHook(j, d) ==
    LET s == AwakenTimeSlot(now + d) IN
    /\ kind = "sleep" /\ EntersLeg1(j)
    /\ ledger' = [ledger EXCEPT ![j] = WithLeg1(j)]
    /\ now + d <= MaxNow
    /\ wish' = [wish EXCEPT ![j] = now + d]
    /\ slot' = [slot EXCEPT ![j] = s]
    /\ lists' = [lists EXCEPT ![s] = Append(@, j)]
    /\ leg1' = [leg1 EXCEPT ![j] = IF AddsSlot(Len(lists'[s])) THEN "pushed" ELSE "listed"]
    /\ UNCHANGED <<now, slotSet, poller, pops, dropped, stops>>
    /\ UNCHANGED <<kind, signals, entries, legTwoVars>>

\* ZADD of the slot of a first push.
AddSlot(j) ==
    /\ leg1[j] = "pushed"
    /\ slotSet' = slotSet \cup {slot[j]}
    /\ leg1' = [leg1 EXCEPT ![j] = "listed"]
    /\ UNCHANGED <<clockVars, lists, poller, pops, dropped, stops>>
    /\ UNCHANGED <<kind, ledger, signals, entries, legTwoVars>>

\* The engine stops after the push.
StopRegistration(j) ==
    /\ leg1[j] = "pushed" /\ stops < MaxStops
    /\ leg1' = [leg1 EXCEPT ![j] = "stopped"]
    /\ stops' = stops + 1
    /\ UNCHANGED <<clockVars, lists, slotSet, poller, pops, dropped>>
    /\ UNCHANGED <<kind, ledger, signals, entries, legTwoVars>>

-----------------------------------------------------------------------------
(* processTimeHooks and getNextTimeJob.  Finding nothing due is a stutter: *)
(* the poller sleeps and polls again.                                      *)

DueEarly(clock) == {s \in slotSet : s <= clock + Fidelity}   \* variant

Due(clock) == {s \in slotSet : s <= clock}

\* ZRANGEBYSCORE 0 now, first member.
FindSlot(e) ==
    /\ poller[e].step = "poll"
    /\ \E s \in Due(now) :
          /\ \A t \in Due(now) : s <= t
          /\ poller' = [poller EXCEPT ![e].step = "pop", ![e].slot = s]
    /\ UNCHANGED <<clockVars, lists, slotSet, pops, dropped, stops>>
    /\ UNCHANGED hookActivityVars

Peek(list) == list   \* variant: the job is read and not taken

Pop(list) == Tail(list)

\* LPOP.  After a job the poller comes back to the same list.
PopJob(e) ==
    LET s == poller[e].slot IN
    /\ poller[e].step = "pop"
    /\ IF lists[s] = <<>>
       THEN /\ poller' = [poller EXCEPT ![e].step = "drop"]
            /\ UNCHANGED <<lists, pops>>
       ELSE /\ poller' = [poller EXCEPT ![e].step = "fire", ![e].job = Head(lists[s])]
            /\ lists' = [lists EXCEPT ![s] = Pop(@)]
            /\ pops' = [pops EXCEPT ![Head(lists[s])] = @ + 1]
    /\ UNCHANGED <<clockVars, slotSet, dropped, stops, hookActivityVars>>

\* ZREM, a round trip after the LPOP that found the list empty.
DropSlot(e) ==
    LET s == poller[e].slot IN
    /\ poller[e].step = "drop"
    /\ slotSet' = slotSet \ {s}
    /\ dropped' = IF lists[s] = <<>> THEN dropped ELSE dropped \cup {s}
    /\ poller' = [poller EXCEPT ![e].step = "poll", ![e].slot = 0]
    /\ UNCHANGED <<clockVars, lists, pops, stops, hookActivityVars>>

\* hookTime
FireTimeHook(e) ==
    /\ poller[e].step = "fire"
    /\ Publish(poller[e].job)
    /\ poller' = [poller EXCEPT ![e].step = "pop", ![e].job = NoJob]
    /\ UNCHANGED <<clockVars, lists, slotSet, pops, dropped, stops>>
    /\ UNCHANGED <<kind, legVars, legTwoVars>>

\* The engine stops, or any call of the loop fails: the catch only logs and
\* nothing starts the loop again.
StopPoller(e) ==
    /\ kind = "sleep" /\ poller[e].step # "dead" /\ stops < MaxStops
    /\ poller' = [poller EXCEPT ![e].step = "dead"]
    /\ stops' = stops + 1
    /\ UNCHANGED <<clockVars, lists, slotSet, pops, dropped, hookActivityVars>>

Tick ==
    /\ now < MaxNow
    /\ kind = "sleep"
    /\ now' = now + 1
    /\ UNCHANGED <<wish, slot, lists, slotSet, poller, pops, dropped, stops>>
    /\ UNCHANGED hookActivityVars

PollerStep(e) == FindSlot(e) \/ PopJob(e) \/ DropSlot(e) \/ FireTimeHook(e)

-----------------------------------------------------------------------------
(* Properties of the time hooks, checked in Hooks.                         *)

\* A hook is published at most Fidelity - 1 ticks before the job asked to be
\* woken, however slots are rounded and whichever poller found the slot.
HookNotEarly ==
    \A e \in Engines : poller[e].step = "fire" =>
        now >= wish[poller[e].job] - (Fidelity - 1)

\* The pollers share the lists: between them they take a job at most once, and
\* a job that was taken is no longer listed.
TakenOnce ==
    \A j \in Jobs :
        Cardinality({i \in 1..Len(lists[slot[j]]) : lists[slot[j]][i] = j}) + pops[j] <= 1

\* The three ways a registered sleep is lost.
Refused(j) == j \in refused

Fell(j) == \E e \in Engines : poller[e].step = "dead" /\ poller[e].job = j

Stranded(j) ==
    /\ slot[j] \notin slotSet
    /\ \E i \in 1..Len(lists[slot[j]]) : lists[slot[j]][i] = j
    /\ \/ slot[j] \in dropped
       \/ \E k \in Jobs : leg1[k] = "stopped" /\ slot[k] = slot[j]

\* Every activity that went to sleep is woken, and for good, unless its hook
\* came before leg 1 was saved, a poller stopped with it in hand, or its slot
\* left the sorted set (or never got there) while it was in the list.
SleepersWake ==
    <>[](\A j \in Jobs :
            (kind = "sleep" /\ leg1[j] = "open")
                => (j \in resumed \/ Refused(j) \/ Fell(j) \/ Stranded(j)))
=============================================================================
