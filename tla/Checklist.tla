----------------------------- MODULE Checklist -----------------------------
(***************************************************************************)
(* The action items of a note.  Every endpoint and tool changes items and  *)
(* computes the progress in one transaction, but under READ COMMITTED: the *)
(* two counts of the progress each see what others have committed by then. *)
(***************************************************************************)
EXTENDS Naturals, FiniteSets

CONSTANTS
    Sessions,    \* requests and tool calls
    Slots,       \* ids of items
    MaxEdits     \* bound: calls

ASSUME ChecklistAssumption == IsFiniteSet(Slots) /\ MaxEdits \in Nat

VARIABLES
    item,        \* item[i]: the committed row
    session,     \* session[s]: the transaction of s
    moved,       \* the sessions during whose counts somebody committed
    progress,    \* what the counts said, with the session
    edits

listVars == <<item, session, moved, progress, edits>>

NoSession == [stage |-> "none"]
ItemRow == {"unused", "todo", "done", "deleted"}
Present(view) == {i \in Slots : view[i] \in {"todo", "done"}}

ListInit ==
    /\ item \in [Slots -> {"unused", "todo"}]
    /\ session = [s \in Sessions |-> NoSession]
    /\ moved = {} /\ progress = {} /\ edits = 0

In(s, stage) == session[s].stage = stage

\* A transaction sees the committed rows and its own writes.
View(s) == [i \in Slots |-> IF i \in DOMAIN session[s].writes THEN session[s].writes[i] ELSE item[i]]

\* Ids are drawn from a sequence; rows written by others are locked.
Taken == UNION {DOMAIN session[s].writes : s \in {r \in Sessions : ~In(r, "none")}}

Start(s, stage, writes) ==
    /\ In(s, "none") /\ edits < MaxEdits
    /\ edits' = edits + 1
    /\ session' = [session EXCEPT ![s] = [stage |-> stage, writes |-> writes]]
    /\ moved' = moved \ {s}
    /\ UNCHANGED <<item, progress>>

\* create_item, or extract_items with several lines. Nothing extracted, nothing
\* counted.
CreateItems(s, new) ==
    /\ new \cap Taken = {} /\ \A i \in new : item[i] = "unused"
    /\ Start(s, IF new = {} THEN "commit" ELSE "total", [i \in new |-> "todo"])

\* update_item and para_done_item, first half: the row is loaded.
LoadItem(s, i, st) ==
    /\ i \in Present(item) /\ In(s, "none") /\ edits < MaxEdits
    /\ edits' = edits + 1
    /\ session' = [session EXCEPT ![s] = [stage |-> "update", writes |-> <<>>,
                                         id |-> i, seen |-> item[i], status |-> st]]
    /\ moved' = moved \ {s}
    /\ UNCHANGED <<item, progress>>

\* Second half: only a status that differs is written; "doing" is stored as not
\* done. The row may be gone by now, which raises.
UpdateItem(s) ==
    LET k == session[s]  new == IF k.status = "done" THEN "done" ELSE "todo" IN
    /\ In(s, "update") /\ (new # k.seen => k.id \notin Taken)
    /\ session' = [session EXCEPT ![s] =
         IF new # k.seen /\ k.id \notin Present(item) THEN NoSession
         ELSE [stage |-> "total", writes |-> IF new = k.seen THEN <<>>
                                             ELSE [i \in {k.id} |-> new]]]
    /\ UNCHANGED <<item, moved, progress, edits>>

DeleteItem(s, i) ==
    /\ i \in Present(item) \ Taken
    /\ Start(s, "total", [j \in {i} |-> "deleted"])

\* para_items changes nothing.
ListItems(s) == Start(s, "total", <<>>)

\* compute_progress: the first count; no items, no progress.
CountTotal(s) ==
    LET n == Cardinality(Present(View(s))) IN
    /\ In(s, "total")
    /\ session' = [session EXCEPT ![s] = IF n = 0 THEN [@ EXCEPT !.stage = "commit"]
                                         ELSE [stage |-> "done", writes |-> @.writes, total |-> n]]
    /\ UNCHANGED <<item, moved, progress, edits>>

\* Slip: whatever is not to do counts.
FinishedNot(view) == {i \in Slots : view[i] # "todo"}

Finished(view) == {i \in Slots : view[i] = "done"}

ToDo(view) == {i \in Slots : view[i] = "todo"}

\* round(.., 2): the percentage in hundredths; at a tie the float decides.
Rounded(done, total) ==
    LET q == (10000 * done) \div total  r == (10000 * done) % total
    IN  {h \in {q, q + 1} : IF h = q THEN 2 * r <= total ELSE 2 * r >= total}

\* The second count.
CountDone(s) ==
    /\ In(s, "done")
    /\ \E h \in Rounded(Cardinality(Finished(View(s))), session[s].total) :
         progress' = {p \in progress : p.session # s} \cup
           {[session |-> s, left |-> Cardinality(ToDo(View(s))), total |-> session[s].total,
             hundredths |-> h]}
    /\ session' = [session EXCEPT ![s] = [stage |-> "commit", writes |-> @.writes]]
    /\ UNCHANGED <<item, moved, edits>>

CommitItems(s) ==
    /\ In(s, "commit")
    /\ item' = View(s)
    /\ moved' = IF View(s) = item THEN moved ELSE moved \cup {r \in Sessions \ {s} : In(r, "done")}
    /\ session' = [session EXCEPT ![s] = NoSession]
    /\ progress' = {p \in progress : p.session # s}
    /\ UNCHANGED edits

\* An exception, or the process dies.
RollBack(s) ==
    /\ ~In(s, "none")
    /\ session' = [session EXCEPT ![s] = NoSession]
    /\ progress' = {p \in progress : p.session # s}
    /\ UNCHANGED <<item, moved, edits>>

ListNext ==
    \E s \in Sessions :
      \/ \E new \in SUBSET Slots : CreateItems(s, new)
      \/ \E i \in Slots, st \in {"todo", "doing", "done"} : LoadItem(s, i, st)
      \/ \E i \in Slots : DeleteItem(s, i)
      \/ UpdateItem(s) \/ ListItems(s) \/ CountTotal(s) \/ CountDone(s)
      \/ CommitItems(s) \/ RollBack(s)

(***************************************************************************)
(* Properties                                                              *)
(***************************************************************************)

\* The progress of a note is at most 100 per cent, 100 if no item is to do, and 100
\* with items to do only if they are so few, one in 20000, that the rounding to two
\* decimals hides them. Only a commit of somebody else between the two counts of
\* the transaction excuses another figure.
ProgressSane ==
    \A p \in progress : p.session \in moved \/
      /\ p.hundredths <= 10000
      /\ p.left = 0 => p.hundredths = 10000
      /\ p.hundredths = 10000 => 20000 * p.left <= p.total
=============================================================================
