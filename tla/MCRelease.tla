----------------------------- MODULE MCRelease ------------------------------
(* Two versions of an app of one graph: a trigger and a hooked activity.   *)
(* The second reads one more path and makes the graph private.             *)
EXTENDS Release

Graph(topic, private, paths) ==
    [subscribes |-> topic, private |-> private,
     activities |-> [t1 |-> [type |-> "trigger", rules |-> {}, maps |-> {}],
                     a1 |-> [type |-> "activity", maps |-> {"data/total"},
                             rules |-> {<<"t1", p>> : p \in paths} \cup {<<"$job", "data/total">>}]],
     transitions |-> {<<"t1", "a1">>},
     hooks |-> {<<"ship", "a1">>}]

MCManifest ==
    <<{Graph("order", FALSE, {"output/data/x"})},
      {Graph(".order", TRUE, {"output/data/x", "output/data/y"})}>>

MCValues == <<{"pending"}, {"shipped"}>>

MCMetaPaths == {"output/metadata/as"}

Strings == {Text("value", "pending"), Text("value", "shipped"), Text("value symbol", 1),
            WithColons(Text("value symbol", 2), 1), Text("symbol", 5), Text("text", ""),
            Text("path", "output/data/x"), Marked("/t", ""), Marked("/d", 7)}

MCSamples == {<<"string", s>> : s \in Strings} \cup
    {<<"boolean", FALSE>>, <<"number", 7>>, <<"null">>, <<"object", "json">>}

\* One of each; two activations; one, by engines that were just started.
MCBudgets == {<<1, 1, 2>>, <<0, 2, 2>>, <<0, 1, 0>>}

\* Engines are alike, and every property checked here is one of safety.
Symmetry == Permutations(Engines)
=============================================================================
