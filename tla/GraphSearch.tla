---------------------------- MODULE GraphSearch ----------------------------
(***************************************************************************)
(* Searches in the graph of notes: the notes around a note, a path between *)
(* two, the clusters, the related notes and the full graph.  Links are     *)
(* followed both ways.  A search sends query after query while notes and   *)
(* links come and go, and each query sees what is committed by then; only  *)
(* the search for clusters works on one reading of the links.              *)
(***************************************************************************)
EXTENDS Naturals, Sequences, FiniteSets, SequencesExt

CONSTANTS
    Notes,        \* ids
    Depth,        \* depth, max_depth
    Limit,        \* limit of get_related
    MinSize,      \* min_size of get_clusters
    Shapes,       \* bound: the sets of links there are at first
    Archives,     \* bound: the notes that are archived at first
    MaxChanges    \* bound: changes during a search

ASSUME GraphAssumption ==
    /\ IsFiniteSet(Notes)
    /\ {Depth, Limit, MinSize} \subseteq Nat \ {0}
    /\ MaxChanges \in Nat
    /\ \A s \in Shapes : s \subseteq Notes \X Notes /\ \A l \in s : l[1] # l[2]

VARIABLES
    kept,      \* the notes there are
    archived,  \* those whose status is "archived"
    spare,     \* the ids not given yet
    links,     \* the links, pairs of a from and a to
    search,    \* the search under way
    ever,      \* the links there were since it began
    changes    \* changes since it began

graphVars == <<kept, archived, spare, links, search, ever, changes>>

NoSearch == [stage |-> "none"]
Kinds == {"subgraph", "path", "clusters", "related", "full"}

Ends(S) == {l[1] : l \in S} \cup {l[2] : l \in S}

GraphInit ==
    /\ links \in Shapes
    /\ spare \in {{}, Notes \ Ends(links)} /\ kept = Notes \ spare
    /\ archived \in Archives
    /\ search = NoSearch /\ ever = {} /\ changes = 0

Adjacent(S, n) == {m \in Notes : <<n, m>> \in S \/ <<m, n>> \in S}
AtStage(s) == search.stage = s
Kind(k) == search.stage # "none" /\ search.kind = k
Searching == UNCHANGED <<kept, archived, spare, links, ever, changes>>

\* rows is what one query of the links gave, depth the depth of the notes seen,
\* frontier the paths to those whose links are yet to be followed.
Begin(k, n, to) ==
    /\ search = NoSearch
    /\ k = "subgraph" => n \in kept
    /\ k \in {"subgraph", "path", "related"} \/ n = to
    /\ search' = [kind |-> k, root |-> n, to |-> to, rows |-> {}, edges |-> {}, result |-> <<>>,
                  depth |-> [m \in {n} |-> 0], frontier |-> <<<<n>>>>, seen |-> {}, groups |-> {},
                  stage |-> IF k \in {"subgraph", "path"} THEN "follow" ELSE "rows"]
    /\ ever' = links /\ changes' = 0
    /\ UNCHANGED <<kept, archived, spare, links>>

(***************************************************************************)
(* Breadth first                                                           *)
(***************************************************************************)

\* Slips: a stack; one level too many.
Push(q, s) == s \o q
Beyond(path) == Len(path) - 1 > Depth

Enqueue(q, s) == q \o s
TooDeep(path) == Len(path) - 1 >= Depth

Following == AtStage("follow") /\ search.frontier # <<>>
Deep == ~Kind("clusters") /\ TooDeep(Head(search.frontier))

\* At the limit no link is followed.
Pass ==
    /\ Following /\ Deep
    /\ search' = [search EXCEPT !.frontier = Tail(@)]
    /\ Searching

\* The links of the next note, in any order.
Follow ==
    LET path == Head(search.frontier)
        rows == IF Kind("clusters") THEN search.rows ELSE links
        new  == Adjacent(rows, Last(path)) \ DOMAIN search.depth
    IN
    /\ Following /\ ~Deep /\ (Kind("path") => search.to \notin new)
    /\ \E order \in SetToSeqs(new) :
         search' = [search EXCEPT
           !.frontier = Enqueue(Tail(@), [i \in DOMAIN order |-> Append(path, order[i])]),
           !.depth = [m \in new \cup DOMAIN @ |-> IF m \in new THEN Len(path) ELSE @[m]],
           !.edges = IF Kind("subgraph") THEN @ \cup {l \in links : Last(path) \in {l[1], l[2]}}
                     ELSE @]
    /\ Searching

\* The end of the path is among them.
Arrived ==
    /\ Following /\ Kind("path") /\ ~Deep
    /\ search.to \in Adjacent(links, Last(Head(search.frontier))) \ DOMAIN search.depth
    /\ search' = [search EXCEPT !.result = Append(Head(search.frontier), search.to),
                                !.stage = "hops"]
    /\ Searching

\* Then the link of each hop is asked for.
Hops(p) == {<<p[i], p[i + 1]>> : i \in 1..(Len(p) - 1)}

Hop(h) ==
    /\ AtStage("hops") /\ h \in Hops(search.result) \ search.seen
    /\ LET found == {l \in links : l \in {h, <<h[2], h[1]>>}} IN
       \E some \in IF found = {} THEN {{}} ELSE {{l} : l \in found} :
         search' = [search EXCEPT !.seen = @ \cup {h}, !.edges = @ \cup some]
    /\ Searching

HopsDone ==
    /\ AtStage("hops") /\ Hops(search.result) \subseteq search.seen
    /\ search' = [search EXCEPT !.stage = "done"]
    /\ Searching

\* Nothing left to follow: there is no path, or the notes of the subgraph are read.
Exhausted ==
    /\ AtStage("follow") /\ search.frontier = <<>> /\ ~Kind("clusters")
    /\ search' = [search EXCEPT !.stage = "done",
                    !.seen = IF Kind("subgraph") THEN DOMAIN search.depth \cap kept ELSE {}]
    /\ Searching

(***************************************************************************)
(* Clusters                                                                *)
(***************************************************************************)

Component == DOMAIN search.depth
Grouped == IF Cardinality(Component) >= MinSize THEN search.groups \cup {Component}
           ELSE search.groups

ReadLinks ==
    /\ AtStage("rows") /\ Kind("clusters")
    /\ search' = [search EXCEPT !.rows = links, !.stage = "follow", !.depth = <<>>, !.frontier = <<>>]
    /\ Searching

NextCluster(n) ==
    /\ AtStage("follow") /\ Kind("clusters") /\ search.frontier = <<>>
    /\ n \in Ends(search.rows) \ (search.seen \cup Component)
    /\ search' = [search EXCEPT !.groups = Grouped, !.seen = @ \cup Component,
                                !.depth = [m \in {n} |-> 0], !.frontier = <<<<n>>>>]
    /\ Searching

ClustersDone ==
    /\ AtStage("follow") /\ Kind("clusters") /\ search.frontier = <<>>
    /\ Ends(search.rows) \subseteq search.seen \cup Component
    /\ search' = [search EXCEPT !.groups = Grouped, !.stage = "done"]
    /\ Searching

(***************************************************************************)
(* Related notes                                                           *)
(***************************************************************************)

FirstOf(s) == SubSeq(s, 1, IF Len(s) < Limit THEN Len(s) ELSE Limit)
Listed(n, how) == [id |-> n, how |-> how]

\* The linked notes, each once.
ReadLinked ==
    /\ AtStage("rows") /\ Kind("related")
    /\ search' = [search EXCEPT !.seen = Adjacent(links, search.root) \cup {search.root},
                                !.stage = "names"]
    /\ Searching

\* Those that are still there are listed in the order of the rows, which is any, up
\* to the limit.
ReadNames ==
    /\ AtStage("names")
    /\ \E order \in SetToSeqs((search.seen \ {search.root}) \cap kept) :
         LET list == FirstOf([i \in DOMAIN order |-> Listed(order[i], "linked")]) IN
         search' = [search EXCEPT !.result = list,
                                  !.stage = IF Len(list) < Limit THEN "similar" ELSE "done"]
    /\ Searching

\* The rest are notes with a close vector; if the model or the search fails the
\* list stays as it is.
FindClose(order) ==
    /\ AtStage("similar") /\ search.root \in kept /\ ToSet(order) \subseteq kept
    /\ search' = [search EXCEPT !.frontier = order, !.stage = "fetch"]
    /\ Searching

NoneClose ==
    /\ AtStage("similar") \/ AtStage("fetch")
    /\ search' = [search EXCEPT !.stage = "done"]
    /\ Searching

\* Slip: the notes listed already are not skipped.
AlsoSeen(n) == n # search.root /\ Len(search.result) < Limit

Fits(n) == n \notin search.seen /\ Len(search.result) < Limit

FetchClose ==
    /\ AtStage("fetch") /\ search.frontier # <<>>
    /\ LET n == Head(search.frontier) IN
       search' = [search EXCEPT !.frontier = Tail(@),
                    !.seen = IF Fits(n) /\ n \in kept THEN @ \cup {n} ELSE @,
                    !.result = IF Fits(n) /\ n \in kept THEN Append(@, Listed(n, "semantic")) ELSE @]
    /\ Searching

RelatedDone ==
    /\ AtStage("fetch") /\ search.frontier = <<>>
    /\ search' = [search EXCEPT !.stage = "done"]
    /\ Searching

(***************************************************************************)
(* The full graph of /api/graph: the notes that are not archived, and the  *)
(* links between those.                                                    *)
(***************************************************************************)

FullNotes ==
    /\ AtStage("rows") /\ Kind("full")
    /\ search' = [search EXCEPT !.seen = kept \ archived, !.stage = "links"]
    /\ Searching

FullLinks ==
    /\ AtStage("links")
    /\ search' = [search EXCEPT !.edges = {l \in links : {l[1], l[2]} \subseteq search.seen},
                                !.stage = "done"]
    /\ Searching

(***************************************************************************)
(* What happens meanwhile                                                  *)
(***************************************************************************)

Meanwhile ==
    /\ search # NoSearch /\ ~AtStage("done") /\ changes < MaxChanges
    /\ changes' = changes + 1
    /\ UNCHANGED search

NewNote(n) ==
    /\ Meanwhile /\ n \in spare
    /\ kept' = kept \cup {n} /\ spare' = spare \ {n}
    /\ UNCHANGED <<archived, links, ever>>

NewLink(a, b) ==
    /\ Meanwhile /\ a # b /\ {a, b} \subseteq kept /\ <<a, b>> \notin links
    /\ links' = links \cup {<<a, b>>} /\ ever' = ever \cup {<<a, b>>}
    /\ UNCHANGED <<kept, archived, spare>>

\* A note goes with its links.
DropNote(n) ==
    /\ Meanwhile /\ n \in kept
    /\ kept' = kept \ {n} /\ links' = {l \in links : n \notin {l[1], l[2]}}
    /\ UNCHANGED <<archived, spare, ever>>

\* It is archived, or its status is set to another again.
SetStatus(n) ==
    /\ Meanwhile /\ n \in kept
    /\ archived' = IF n \in archived THEN archived \ {n} ELSE archived \cup {n}
    /\ UNCHANGED <<kept, spare, links, ever>>

GraphNext ==
    \/ \E k \in Kinds : \E n, to \in Notes : Begin(k, n, to)
    \/ Pass \/ Follow \/ Arrived \/ HopsDone \/ Exhausted
    \/ \E h \in Notes \X Notes : Hop(h)
    \/ ReadLinks \/ ClustersDone \/ \E n \in Notes : NextCluster(n)
    \/ ReadLinked \/ ReadNames \/ NoneClose \/ FetchClose \/ RelatedDone
    \/ \E s \in {t \in SUBSET Notes : Cardinality(t) <= Limit} : \E order \in SetToSeqs(s) : FindClose(order)
    \/ FullNotes \/ FullLinks
    \/ \E n \in Notes : NewNote(n) \/ DropNote(n) \/ SetStatus(n)
    \/ \E a, b \in Notes : NewLink(a, b)

(***************************************************************************)
(* Properties                                                              *)
(***************************************************************************)

\* The notes within d links of n.
Ball(S, n) ==
    LET ball[d \in 0..(Depth + Cardinality(Notes))] ==
          IF d = 0 THEN {n} ELSE ball[d - 1] \cup UNION {Adjacent(S, m) : m \in ball[d - 1]}
    IN ball

Done(k) == Kind(k) /\ AtStage("done")

\* A path that is found leads from the one note to the other over links that were
\* there at some moment of the search, over no note twice and no longer than the
\* limit; if nothing changed meanwhile it is a shortest one, with one link for
\* each hop, and none is missed.
PathTrue ==
    Done("path") =>
      LET p == search.result  ball == Ball(links, search.root) IN
      /\ p # <<>> =>
           /\ Head(p) = search.root /\ Last(p) = search.to /\ Len(p) - 1 <= Depth
           /\ Cardinality(ToSet(p)) = Len(p)
           /\ \A h \in Hops(p) : h \in ever \/ <<h[2], h[1]>> \in ever
      /\ changes = 0 =>
           IF p = <<>> THEN search.to \notin ball[Depth] \/ search.to = search.root
           ELSE search.to \notin ball[Len(p) - 2] /\ Cardinality(search.edges) = Len(p) - 1

\* Every note of a subgraph is next to one that is a level nearer to the root, and
\* every link has both ends among the notes that were visited; if nothing
\* changed meanwhile the notes are those within the depth, each with its distance,
\* and the links are those of the notes within less.
SubgraphTrue ==
    Done("subgraph") =>
      LET d == search.depth  ball == Ball(links, search.root) IN
      /\ \A n \in DOMAIN d : n # search.root =>
           \E m \in Adjacent(search.edges, n) \cap DOMAIN d : d[n] = d[m] + 1
      /\ Ends(search.edges) \subseteq DOMAIN d
      /\ changes = 0 =>
           /\ DOMAIN d = ball[Depth] /\ search.seen = DOMAIN d
           /\ \A n \in DOMAIN d : n \in ball[d[n]] /\ (d[n] > 0 => n \notin ball[d[n] - 1])
           /\ search.edges = {l \in links : {l[1], l[2]} \cap ball[Depth - 1] # {}}

\* The clusters are the connected components of the links read that are large enough.
ClustersTrue ==
    Done("clusters") =>
      search.groups = {c \in {Ball(search.rows, n)[Cardinality(Notes)] : n \in Ends(search.rows)} :
                         Cardinality(c) >= MinSize}

\* The related notes are other notes, each once, linked ones first and at most
\* Limit. A linked note is left out only for the limit, or if it has gone.
RelatedTrue ==
    Done("related") =>
      LET r == search.result  ids == {r[i].id : i \in DOMAIN r} IN
      /\ search.root \notin ids /\ Cardinality(ids) = Len(r) /\ Len(r) <= Limit
      /\ \A i, j \in DOMAIN r : i < j /\ r[j].how = "linked" => r[i].how = "linked"
      /\ \A i \in DOMAIN r : r[i].how = "linked" => r[i].id \in Adjacent(ever, search.root)
      /\ changes = 0 /\ (\E i \in DOMAIN r : r[i].how = "semantic") =>
           Adjacent(links, search.root) \subseteq ids

\* If nothing changed between its two queries the full graph is the graph of the
\* notes that are not archived; if something did its links were still there at some
\* moment of the request, between notes that it lists.
FullTrue ==
    Done("full") =>
      LET shown == kept \ archived IN
      /\ Ends(search.edges) \subseteq search.seen /\ search.edges \subseteq ever
      /\ changes = 0 => /\ search.seen = shown
                        /\ search.edges = {l \in links : {l[1], l[2]} \subseteq shown}

\* What a search for anything but a path answers is true of the graph.
GraphTrue == SubgraphTrue /\ ClustersTrue /\ RelatedTrue /\ FullTrue
=============================================================================
