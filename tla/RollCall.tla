------------------------------ MODULE RollCall ------------------------------
(***************************************************************************)
(* Which version each engine serves.  To activate one, an engine calls the *)
(* roll until three counts agree, tells everybody not to cache the version *)
(* until it is the new one, and writes it.  Pings and announcements reach  *)
(* each engine in the order they were published, and so does what it reads *)
(* from its store; but these are two connections, and nothing makes an     *)
(* answer arrive within the delay of its round, or a read return before    *)
(* the next announcement is heard.                                         *)
(* Abstracted: two calls of activate at a time on one engine.              *)
(***************************************************************************)
EXTENDS Deployment

CONSTANTS
    Rounds,    \* of the roll call: 4, and the count of the last is not read
    MaxReads   \* bound: reads of the app an engine has under way

VARIABLES
    cacheMode,  \* "cache" or "nocache"
    until,      \* the version that ends "nocache"
    apps,       \* the version an engine that caches serves, or None
    storeApp,   \* the version its store has cached, or None
    asked,      \* its reads of the app that are under way
    misled,     \* engines that resumed caching on a read older than the announcement
    roll,       \* where each engine's activate is
    quorum,     \* pongs counted since its last ping
    inbox,      \* pings and announcements, in order, per engine
    unsettled,  \* announced activations that are not, or not all, written
    settledBy   \* who wrote the app's version last, and how

serveVars == <<cacheMode, until, apps, storeApp, asked, misled>>
rollVars == <<roll, quorum, inbox>>
quorumVars == <<serveVars, rollVars, unsettled, settledBy>>

NoRoll == [step |-> "none"]

QuorumInit ==
    /\ cacheMode = [e \in Engines |-> "cache"]
    /\ until = [e \in Engines |-> None]
    /\ asked = [e \in Engines |-> <<>>]
    /\ misled = {}
    /\ roll = [e \in Engines |-> NoRoll]
    /\ quorum = [e \in Engines |-> 0]
    /\ inbox = [e \in Engines |-> <<>>]
    /\ unsettled = {}
    /\ settledBy = "nobody"

PublishToAll(m) == inbox' = [e \in Engines |-> Append(inbox[e], m)]

-----------------------------------------------------------------------------
(* activate, any number of times on each engine.  The getVID it begins with  *)
(* is one of those below.                                                  *)

BeginActivate(e, v) ==
    /\ roll[e].step = "none"
    /\ roll' = [roll EXCEPT ![e] = [step |-> "roll", version |-> v, counts |-> <<>>, called |-> 0]]
    /\ UNCHANGED <<serveVars, quorum, inbox, unsettled, settledBy>>

\* requestQuorum returns the count of the round before it.
RequestQuorum(e) ==
    /\ roll[e].step = "roll" /\ roll[e].called < Rounds
    /\ roll' = [roll EXCEPT ![e].called = @ + 1,
                            ![e].counts = IF roll[e].called = 0 THEN @ ELSE Append(@, quorum[e])]
    /\ quorum' = [quorum EXCEPT ![e] = 0]
    /\ PublishToAll([type |-> "ping", originator |-> e])
    /\ UNCHANGED <<serveVars, unsettled, settledBy>>

Agree(counts) == counts[1] # 0 /\ \A i \in DOMAIN counts : counts[i] = counts[1]

\* The announcement, if the counts agree.  An announcement made while another
\* activation is not written yet makes both unsettled.
Announce(e) ==
    /\ roll[e].step = "roll" /\ roll[e].called = Rounds
    /\ IF Agree(roll[e].counts)
       THEN /\ PublishToAll([type |-> "activate", version |-> roll[e].version])
            /\ roll' = [roll EXCEPT ![e] = [step |-> "announced", version |-> @.version]]
            /\ unsettled' = LET open == {d \in Engines \ {e} : roll[d].step \in {"announced", "confirmed"}}
                            IN  IF open = {} THEN unsettled \ {e} ELSE unsettled \cup open \cup {e}
       ELSE /\ roll' = [roll EXCEPT ![e] = NoRoll]
            /\ UNCHANGED <<inbox, unsettled>>
    /\ UNCHANGED <<serveVars, quorum, settledBy>>

\* Has it heard its own announcement within the delay?
Confirm(e) ==
    /\ roll[e].step = "announced"
    /\ roll' = [roll EXCEPT ![e] =
                  IF until[e] = roll[e].version THEN [@ EXCEPT !.step = "confirmed"]
                  ELSE NoRoll]
    /\ UNCHANGED <<serveVars, quorum, inbox, unsettled, settledBy>>

\* activateAppVersion.  A version once deployed stays so; its read of the app
\* and its write are one step.  The copy it keeps is in the store of the quorum,
\* which is not the one the engine is served from.
ActivateAppVersion(e) ==
    LET v == roll[e].version IN
    /\ roll[e].step = "confirmed"
    /\ IF v \in app.deployed
       THEN /\ app' = [app EXCEPT !.version = v]
            /\ settledBy' = IF e \in unsettled THEN "overlapping" ELSE "activation"
       ELSE UNCHANGED <<app, settledBy>>
    /\ roll' = [roll EXCEPT ![e] = NoRoll]
    /\ UNCHANGED <<serveVars, quorum, inbox, unsettled>>
    /\ UNCHANGED <<symvals, valCache, hookRules, saved>>

-----------------------------------------------------------------------------
(* subscriptionHandler.  A pong is counted where it is sent: it is late when *)
(* its ping is answered late.                                              *)

Receive(e) ==
    LET m == Head(inbox[e]) IN
    /\ inbox[e] # <<>>
    /\ inbox' = [inbox EXCEPT ![e] = Tail(@)]
    /\ IF m.type = "ping"
       THEN /\ quorum' = [quorum EXCEPT ![m.originator] = @ + 1]
            /\ UNCHANGED <<cacheMode, until, asked, misled>>
       ELSE /\ cacheMode' = [cacheMode EXCEPT ![e] = "nocache"]
            /\ until' = [until EXCEPT ![e] = m.version]
            /\ asked' = [asked EXCEPT ![e] = [i \in DOMAIN @ |-> [@[i] EXCEPT !.old = TRUE]]]
            /\ misled' = misled \ {e}
            /\ UNCHANGED quorum
    /\ UNCHANGED <<apps, storeApp, roll, unsettled, settledBy>>

-----------------------------------------------------------------------------
(* getVID and getSchema: each execution asks which version to serve.  What *)
(* it reads returns after it has heard what it may: an announcement changes *)
(* cacheMode and until, which the reply is then compared with.             *)

\* The version a call of getVID would return that is made now.
Served(e) ==
    IF cacheMode[e] = "nocache" THEN app.version
    ELSE IF apps[e] # None THEN apps[e]
    ELSE IF storeApp[e] # None THEN storeApp[e] ELSE app.version

\* A read of the app: refresh is getVID's, the other the store's first one.  It
\* is old once the engine has heard an announcement.
Asking(refresh) == [reply |-> app.version, refresh |-> refresh, old |-> FALSE]

\* getSchema asks, if its store has no copy, or if it may not cache.
AskVersion(e) ==
    /\ app.version # None
    /\ storeApp[e] = None \/ cacheMode[e] = "nocache"
    /\ Len(asked[e]) < MaxReads
    /\ asked' = [asked EXCEPT ![e] = Append(@, Asking(storeApp[e] # None))]
    /\ UNCHANGED <<cacheMode, until, apps, storeApp, misled, rollVars, unsettled, settledBy>>

Reply(e) == Head(asked[e])

\* The store has its copy now, but getVID may not cache, and reads it again.
AskAgain(e) ==
    /\ asked[e] # <<>> /\ ~Reply(e).refresh /\ cacheMode[e] = "nocache"
    /\ storeApp' = [storeApp EXCEPT ![e] = Reply(e).reply]
    /\ asked' = [asked EXCEPT ![e] = Append(Tail(@), Asking(TRUE))]
    /\ UNCHANGED <<cacheMode, until, apps, misled, rollVars, unsettled, settledBy>>

ResumesCachingAtOnce(e, v) == TRUE   \* variant: whatever the version is

\* The version announced is there: it may be cached again.
ResumesCaching(e, v) == v = until[e]

\* What getVID read returns, and is served.
ServeRefreshed(e, v) ==
    /\ asked[e] # <<>> /\ Reply(e).refresh /\ v = Reply(e).reply
    /\ storeApp' = [storeApp EXCEPT ![e] = v]
    /\ asked' = [asked EXCEPT ![e] = Tail(@)]
    /\ IF ResumesCaching(e, v)
       THEN /\ apps' = [apps EXCEPT ![e] = v]
            /\ cacheMode' = [cacheMode EXCEPT ![e] = "cache"]
            /\ misled' = IF Reply(e).old /\ cacheMode[e] = "nocache" THEN misled \cup {e} ELSE misled
       ELSE UNCHANGED <<apps, cacheMode, misled>>

\* What the store read first returns: served, if nothing is cached yet.
ServeFirst(e, v) ==
    /\ asked[e] # <<>> /\ ~Reply(e).refresh /\ cacheMode[e] = "cache"
    /\ v = IF apps[e] = None THEN Reply(e).reply ELSE apps[e]
    /\ storeApp' = [storeApp EXCEPT ![e] = Reply(e).reply]
    /\ asked' = [asked EXCEPT ![e] = Tail(@)]
    /\ apps' = [apps EXCEPT ![e] = v]
    /\ UNCHANGED <<cacheMode, misled>>

\* Nothing has to be read.
ServeCopy(e, v) ==
    /\ storeApp[e] # None /\ cacheMode[e] = "cache" /\ v = Served(e)
    /\ apps' = [apps EXCEPT ![e] = v]
    /\ UNCHANGED <<cacheMode, storeApp, asked, misled>>

\* getVID returns v to an execution.
GetVID(e, v) ==
    /\ ServeRefreshed(e, v) \/ ServeFirst(e, v) \/ ServeCopy(e, v)
    /\ UNCHANGED <<until, rollVars, unsettled, settledBy>>

-----------------------------------------------------------------------------
(* Properties of the quorum, checked in Release.                           *)

\* After an activation that overlapped no other, and after which nobody deployed,
\* every engine that has heard what was announced serves the version it wrote,
\* and none is left caching another; but one that resumed caching on a read it
\* had asked for before it heard the announcement that the reply equals.  So the
\* code fails system_lifecycle.md, which has "all engines ... running the same
\* version of the app", after such a read and after no other.
ActivationReachesAll ==
    settledBy = "activation" =>
        \A e \in Engines : inbox[e] = <<>> => Served(e) = app.version \/ e \in misled
=============================================================================
