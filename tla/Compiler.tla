------------------------------ MODULE Compiler ------------------------------
(***************************************************************************)
(* What the compiler derives from a manifest: which paths each activity    *)
(* and job must save, the subscriptions, transitions and hook rules.  A    *)
(* version of the app is a set of graphs; a mapping rule {a.output.data.x} *)
(* is the pair of its first part and the path that remains.                *)
(***************************************************************************)
EXTENDS Integers, FiniteSets

CONSTANT Manifest   \* per version, its graphs

Versions == DOMAIN Manifest

SysVars == {"$app", "$self", "$graph", "$job"}

Activities(v) == UNION {DOMAIN g.activities : g \in Manifest[v]}

GraphOf(v, a) == CHOOSE g \in Manifest[v] : a \in DOMAIN g.activities

Config(v, a) == GraphOf(v, a).activities[a]

\* What the validator refuses.  deploy does not await it: an invalid manifest
\* ends in an unhandled rejection, not in an error of deploy.
ValidActivityIds(v) ==
    \A g, h \in Manifest[v] : g # h => DOMAIN g.activities \cap DOMAIN h.activities = {}

ValidReferences(v) ==
    \A a \in Activities(v) : \A r \in Config(v, a).rules :
        r[1] \in SysVars \cup Activities(v)

-----------------------------------------------------------------------------
(* resolveMappingDependencies, resolveJobMapsPaths                         *)

Rules(v) == UNION {Config(v, a).rules : a \in Activities(v)}

\* What an activity saves: what any activity of the app reads of it by name.
\* A rule on $self names no activity.
Produces(v, a) == {r[2] : r \in {s \in Rules(v) : s[1] = a}}

JobProduces(g) == UNION {g.activities[a].maps : a \in DOMAIN g.activities}

\* Symbols are bound per target: an activity, or a job, known by its topic.
Targets(v) == {g.subscribes : g \in Manifest[v]} \cup Activities(v)

PathsOf(v, t) ==
    IF t \in Activities(v) THEN Produces(v, t)
    ELSE UNION {JobProduces(g) : g \in {h \in Manifest[v] : h.subscribes = t}}

\* getState: the paths of other targets, and its own, an activity asks for.
Consumes(v, a) ==
    {<<CASE r[1] = "$job" -> GraphOf(v, a).subscribes
         [] r[1] = "$self" -> a
         [] OTHER -> r[1], r[2]>> : r \in Config(v, a).rules}

-----------------------------------------------------------------------------
(* What is saved with a version.                                           *)

Trigger(g) == CHOOSE a \in DOMAIN g.activities : g.activities[a].type = "trigger"

Subscriptions(v) == {<<g.subscribes, Trigger(g)>> : g \in Manifest[v]}

\* The key of a transition is its source, with a dot; a private topic is a key
\* as well, with its trigger below it.
Transitions(v) ==
    UNION {g.transitions \cup
              (IF g.private THEN {<<g.subscribes, Trigger(g)>>} ELSE {}) : g \in Manifest[v]}

HookRules(v) == UNION {g.hooks : g \in Manifest[v]}

-----------------------------------------------------------------------------
(* getSubscriptionTopic: hookAll needs the topic of the graph an activity   *)
(* is in, and looks for the key that no other key leads to.                *)

NoTopic == "no topic"

Below(v, x) ==   \* variant: the pairs read the wrong way round
    {p[2] : p \in {q \in Transitions(v) : q[1] = x}}

Above(v, x) == {p[1] : p \in {q \in Transitions(v) : q[2] = x}}

TopKey(v, a) ==
    LET top[x \in Targets(v)] ==
            IF Above(v, x) = {} THEN x ELSE top[CHOOSE p \in Above(v, x) : TRUE]
    IN  IF Above(v, a) = {} THEN NoTopic ELSE top[a]

SubscriptionTopic(v, a) ==
    LET topics == {s[1] : s \in {r \in Subscriptions(v) : r[2] = TopKey(v, a)}}
    IN  IF topics = {} THEN NoTopic ELSE CHOOSE t \in topics : TRUE
=============================================================================
