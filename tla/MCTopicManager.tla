--------------------------- MODULE MCTopicManager ---------------------------
(* Small instances of TopicManager for TLC. *)
EXTENDS TopicManager

\* Calls are interchangeable, so of the assignments of operations to calls that
\* differ by a permutation one is enough: calls are numbers here, and their
\* operations come in the order of Order.
Order == <<"Publish", "Subscribe", "Relay", "Leave", "Unsubscribe", "Unrelay">>
Sorted(Ops) == {[c \in Calls |-> Order[f[c]]] :
                   f \in {g \in [Calls -> {i \in DOMAIN Order : Order[i] \in Ops}] :
                             \A c, d \in Calls : c < d => g[c] <= g[d]}}

MCScripts       == Sorted(Operations)
MCJoins         == Sorted({"Publish", "Subscribe"})
MCSubscriptions == Sorted({"Subscribe", "Unsubscribe"})

\* A filter that lets every topic pass, and one that lets none pass.
MCFilters == {{}, Topics}
MCNoFilter == {{}}
=============================================================================
