---------------------------- MODULE DurableApps -----------------------------
(***************************************************************************)
(* The app behind a durable workflow.  A client and the workers each make  *)
(* sure that it is deployed before they use it: check, deploy, activate.   *)
(* A client makes one engine per app; a start that finds it there does not *)
(* wait for the start that is still deploying.                             *)
(***************************************************************************)
EXTENDS Integers, Sequences, FiniteSets, TLC

CONSTANTS
    Starts,       \* calls of start in the client
    Workers,      \* worker processes
    MaxRefusals   \* bound on activations that reach no quorum

VARIABLES
    app,       \* "none" or "deployed": the version the app's hash has
    setup,     \* how far each start and each worker is
    refusals

appVars == <<app, setup, refusals>>

AnyOf(S) == CHOOSE p \in S : TRUE

\* Nothing is deployed, and one worker is not created yet; or all is in place
\* for one start and all workers.
NothingDeployed ==
    /\ app = "none"
    /\ setup = [p \in Starts \cup Workers |->
                  IF p \in Workers \ {AnyOf(Workers)} THEN "absent" ELSE "none"]

AllInPlace ==
    /\ app = "deployed"
    /\ setup = [p \in Starts \cup Workers |->
                  IF p \in Starts \ {AnyOf(Starts)} THEN "absent" ELSE "ready"]

Setup(p, from, to) == setup[p] = from /\ setup' = [setup EXCEPT ![p] = to]

\* The engine is put in the map before its app is activated.
HasInstance == \E s \in Starts : setup[s] \notin {"none", "absent"}

FindInstance(s) ==
    /\ HasInstance
    /\ Setup(s, "none", "ready")
    /\ UNCHANGED <<app, refusals>>

MakeInstance(p) ==
    /\ p \in Starts => ~HasInstance
    /\ Setup(p, "none", "checking")
    /\ UNCHANGED <<app, refusals>>

Check(p) ==
    /\ Setup(p, "checking", IF app = "none" THEN "deploying" ELSE "ready")
    /\ UNCHANGED <<app, refusals>>

\* Its last step writes the version.
Deploy(p) ==
    /\ Setup(p, "deploying", "activating")
    /\ app' = "deployed"
    /\ UNCHANGED refusals

Activate(p) ==
    /\ \/ Setup(p, "activating", "ready") /\ UNCHANGED refusals
       \/ /\ refusals < MaxRefusals
          /\ Setup(p, "activating", "failed") /\ refusals' = refusals + 1
    /\ UNCHANGED app

\* A worker consumes from the moment its instance is there.
Consumes(k) == setup[k] \notin {"none", "absent"}

AppStep(p) ==
    \/ p \in Starts /\ FindInstance(p)
    \/ MakeInstance(p) \/ Check(p) \/ Deploy(p) \/ Activate(p)
=============================================================================
