----------------------------- MODULE MCQueries -----------------------------
(***************************************************************************)
(* The modules about searches, overviews and plans share no state.  One    *)
(* run checks them side by side: a behaviour is about one.                 *)
(***************************************************************************)
EXTENDS GraphSearch, ReadCache, Planner

CONSTANTS n1, n2, n3, n4, n5

\* No link, one, a pair both ways, a chain and a ring of five whose links point here
\* and there, a ring of four with a note beside it, and two clusters.
MCShapes ==
    {{}, {<<n1, n2>>}, {<<n1, n2>>, <<n2, n1>>},
     {<<n1, n2>>, <<n3, n2>>, <<n3, n4>>, <<n5, n4>>},
     {<<n1, n2>>, <<n2, n3>>, <<n4, n3>>, <<n5, n4>>, <<n1, n5>>},
     {<<n1, n2>>, <<n3, n2>>, <<n3, n4>>, <<n4, n1>>},
     {<<n1, n2>>, <<n2, n3>>, <<n4, n5>>}}

\* None, and in the last of these one that some links touch and others do not.
MCArchives == {{}, {n2}}
ArchivedIn(S) == S = {<<n1, n2>>, <<n2, n3>>, <<n4, n5>>}

MCShelves == <<"inbox", "projects">>

\* Yesterday, today, and beyond the horizon and the 9999 days of the key.
MCDeadlines == {0 - 1, 0, 12000}

\* Of the notes that are not active one is enough.
NotActive == [active |-> FALSE, dated |-> FALSE, due |-> 0, priority |-> "medium", items |-> "none", stale |-> FALSE]
MCRows == {r \in JobRow : r.active /\ (r.dated \/ r.due = 0)} \cup {NotActive}

\* Requests are alike.
MCAlike == Permutations(Readers)

VARIABLE topic
vars == <<topic, graphVars, cacheVars, planVars>>

Init ==
    /\ topic \in {"graph", "plan"} \cup Kept
    /\ GraphInit /\ (archived = {} \/ ArchivedIn(links))
    /\ (topic # "graph" => links = {} /\ spare = {} /\ archived = {})
    /\ CacheInit /\ (topic \notin Kept => shelf = [n \in Pages |-> "nowhere"])
    /\ PlanInit
    /\ topic # "plan" =>
         /\ caller = "api"
         /\ job = [n \in Jobs |-> NotActive]

Next ==
    /\ UNCHANGED topic
    /\ \/ topic = "graph" /\ GraphNext /\ UNCHANGED <<cacheVars, planVars>>
       \/ topic \in Kept /\ CacheNext(topic) /\ UNCHANGED <<graphVars, planVars>>
       \/ topic = "plan" /\ PlanNext /\ UNCHANGED <<graphVars, cacheVars>>

Spec == Init /\ [][Next]_vars
=============================================================================
