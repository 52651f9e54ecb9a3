----------------------------- MODULE PartsProofs -----------------------------
(***************************************************************************)
(* Theorems about the modules that share no state with another: the tasks  *)
(* for agents, the chats, the notes of cron jobs, the action items, the    *)
(* overviews and the plan.  Each stands for itself: its specification is   *)
(* its initial predicate and its next-state relation.                      *)
(***************************************************************************)
EXTENDS AgentTasks, Conversation, CronIntake, Checklist, ReadCache, Planner,
        FiniteSetTheorems, SequenceTheorems, TLAPS

(***************************************************************************)
(* Checklist.  A session that has counted all items still sees as many, or *)
(* somebody committed since; a figure belongs to a session that is about   *)
(* to commit.                                                              *)
(***************************************************************************)
ListSpec == ListInit /\ [][ListNext]_listVars

CountedRight(s) == session[s].total = Cardinality(Present(View(s))) /\ session[s].total > 0

FigureSane(p) ==
    /\ p.hundredths <= 10000
    /\ p.left = 0 => p.hundredths = 10000
    /\ p.hundredths = 10000 => 20000 * p.left <= p.total

ListInv ==
    /\ DOMAIN session = Sessions /\ \A s \in Sessions : "stage" \in DOMAIN session[s]
    /\ \A s \in Sessions : In(s, "done") /\ s \notin moved => CountedRight(s)
    /\ \A p \in progress : p.session \in Sessions /\ In(p.session, "commit")
    /\ ProgressSane

LEMMA Percentage ==
    ASSUME NEW F \in Nat, NEW T \in Nat, F <= T, T > 0, NEW h \in Rounded(F, T)
    PROVE  /\ h <= 10000
           /\ F = T => h = 10000
           /\ h = 10000 => 20000 * (T - F) <= T
<1> DEFINE q == (10000 * F) \div T
           r == (10000 * F) % T
<1>1. q \in Int /\ r \in Int /\ 10000 * F = T * q + r /\ 0 <= r /\ r < T
  OBVIOUS
<1>2. (h = q /\ 2 * r <= T) \/ (h = q + 1 /\ 2 * r >= T)
  BY DEF Rounded
<1> HIDE DEF q, r
<1>3. h \in Int /\ 2 * (T * h) <= 20000 * F + T /\ 2 * (T * h) >= 20000 * F - T
  <2>1. T * (q + 1) = T * q + T
    BY <1>1
  <2>2. T * q \in Int
    BY <1>1
  <2>3. QED
    BY <1>1, <1>2, <2>1, <2>2
<1>4. h <= 10000
  <2>1. SUFFICES ASSUME h >= 10001 PROVE FALSE
    BY <1>3
  <2>2. T * h >= T * 10001
    BY <1>3, <2>1
  <2>3. QED
    BY <1>3, <2>2
<1>5. F = T => h = 10000
  <2>1. SUFFICES ASSUME F = T, h <= 9999 PROVE FALSE
    BY <1>3, <1>4
  <2>2. T * h <= T * 9999
    BY <1>3, <2>1
  <2>3. QED
    BY <1>3, <2>1, <2>2
<1>6. h = 10000 => 20000 * (T - F) <= T
  BY <1>3
<1>7. QED
  BY <1>4, <1>5, <1>6

\* What the others see while nothing is committed.
LEMMA OthersSee ==
    ASSUME ListInv, item' = item, NEW s \in Sessions, NEW k, "stage" \in DOMAIN k,
           session' = [session EXCEPT ![s] = k]
    PROVE  /\ DOMAIN session' = Sessions /\ \A r \in Sessions : "stage" \in DOMAIN session'[r]
           /\ session'[s] = k
           /\ \A r \in Sessions : r # s => session'[r] = session[r] /\ View(r)' = View(r)
<1>1. /\ DOMAIN session' = Sessions /\ session'[s] = k
      /\ \A r \in Sessions : r # s => session'[r] = session[r]
  BY DEF ListInv
<1>2. \A r \in Sessions : r # s => View(r)' = View(r)
  BY <1>1 DEF View
<1>3. QED
  BY <1>1, <1>2 DEF ListInv

\* A step of a session that has no figure yet.
LEMMA BeforeFigure ==
    ASSUME ListInv, item' = item, progress' = progress, NEW s \in Sessions, NEW k,
           "stage" \in DOMAIN k, session' = [session EXCEPT ![s] = k], ~In(s, "commit"),
           moved' \subseteq moved, moved \subseteq moved' \cup {s},
           k.stage = "done" /\ s \notin moved' => CountedRight(s)'
    PROVE  ListInv'
<1>1. /\ DOMAIN session' = Sessions /\ \A r \in Sessions : "stage" \in DOMAIN session'[r]
      /\ session'[s] = k
      /\ \A r \in Sessions : r # s => session'[r] = session[r] /\ View(r)' = View(r)
  BY OthersSee
<1>2. ASSUME NEW r \in Sessions, In(r, "done")', r \notin moved'
      PROVE  CountedRight(r)'
  <2>1. CASE r = s
    BY <1>1, <1>2, <2>1 DEF In
  <2>2. CASE r # s
    <3>1. In(r, "done") /\ r \notin moved
      BY <1>1, <1>2, <2>2 DEF In
    <3>2. CountedRight(r)
      BY <3>1 DEF ListInv
    <3>3. QED
      BY <1>1, <2>2, <3>2 DEF CountedRight
  <2>3. QED
    BY <2>1, <2>2
<1>3. ASSUME NEW p \in progress
      PROVE  p.session \in Sessions /\ p.session # s /\ In(p.session, "commit")'
  BY <1>1 DEF ListInv, In
<1>4. ProgressSane'
  BY <1>3 DEF ListInv, ProgressSane
<1>5. QED
  BY <1>1, <1>2, <1>3, <1>4 DEF ListInv

LEMMA StartKeeps ==
    ASSUME ListInv, NEW s \in Sessions, NEW stage \in {"total", "commit"}, NEW writes,
           Start(s, stage, writes)
    PROVE  ListInv'
<1> DEFINE k == [stage |-> stage, writes |-> writes]
<1>1. /\ In(s, "none") /\ session' = [session EXCEPT ![s] = k]
      /\ moved' = moved \ {s} /\ item' = item /\ progress' = progress
  BY DEF Start
<1>2. "stage" \in DOMAIN k /\ k.stage # "done" /\ ~In(s, "commit")
  BY <1>1 DEF In
<1>3. QED
  BY <1>1, <1>2, BeforeFigure

LEMMA LoadItemKeeps ==
    ASSUME ListInv, NEW s \in Sessions, NEW i, NEW st, LoadItem(s, i, st)
    PROVE  ListInv'
<1> DEFINE k == [stage |-> "update", writes |-> <<>>, id |-> i, seen |-> item[i], status |-> st]
<1>1. /\ In(s, "none") /\ session' = [session EXCEPT ![s] = k]
      /\ moved' = moved \ {s} /\ item' = item /\ progress' = progress
  BY DEF LoadItem
<1>2. "stage" \in DOMAIN k /\ k.stage # "done" /\ ~In(s, "commit")
  BY <1>1 DEF In
<1>3. QED
  BY <1>1, <1>2, BeforeFigure

LEMMA UpdateItemKeeps ==
    ASSUME ListInv, NEW s \in Sessions, UpdateItem(s)
    PROVE  ListInv'
<1>1. /\ In(s, "update") /\ item' = item /\ progress' = progress /\ moved' = moved
      /\ \/ session' = [session EXCEPT ![s] = NoSession]
         \/ \E w : session' = [session EXCEPT ![s] = [stage |-> "total", writes |-> w]]
  BY DEF UpdateItem
<1>2. ~In(s, "commit")
  BY <1>1 DEF In
<1>3. CASE session' = [session EXCEPT ![s] = NoSession]
  <2>1. "stage" \in DOMAIN NoSession /\ NoSession.stage # "done"
    BY DEF NoSession
  <2>2. QED
    BY <1>1, <1>2, <1>3, <2>1, BeforeFigure
<1>4. ASSUME NEW w, session' = [session EXCEPT ![s] = [stage |-> "total", writes |-> w]]
      PROVE  ListInv'
  <2> DEFINE k == [stage |-> "total", writes |-> w]
  <2>1. "stage" \in DOMAIN k /\ k.stage # "done"
    OBVIOUS
  <2>2. QED
    BY <1>1, <1>2, <1>4, <2>1, BeforeFigure
<1>5. QED
  BY <1>1, <1>3, <1>4

LEMMA PresentFinite ==
    ASSUME NEW view
    PROVE  /\ IsFiniteSet(Present(view)) /\ Cardinality(Present(view)) \in Nat
           /\ IsFiniteSet(Finished(view)) /\ Cardinality(Finished(view)) \in Nat
           /\ Finished(view) \subseteq Present(view)
           /\ Cardinality(Finished(view)) <= Cardinality(Present(view))
           /\ Cardinality(ToDo(view)) \in Nat
           /\ Cardinality(Present(view)) = Cardinality(Finished(view)) + Cardinality(ToDo(view))
<1>1. /\ Present(view) \subseteq Slots /\ Finished(view) \subseteq Present(view)
      /\ ToDo(view) \subseteq Slots /\ Present(view) = Finished(view) \cup ToDo(view)
      /\ Finished(view) \cap ToDo(view) = {}
  BY DEF Present, Finished, ToDo
<1>2. IsFiniteSet(Present(view)) /\ IsFiniteSet(Finished(view)) /\ IsFiniteSet(ToDo(view))
  BY <1>1, FS_Subset, ChecklistAssumption
<1>3. /\ Cardinality(Finished(view)) \in Nat /\ Cardinality(ToDo(view)) \in Nat
      /\ Cardinality(Present(view)) \in Nat
  BY <1>2, FS_CardinalityType
<1>4. Cardinality(Present(view)) = Cardinality(Finished(view)) + Cardinality(ToDo(view))
  <2>1. Cardinality(Finished(view) \cup ToDo(view)) =
          Cardinality(Finished(view)) + Cardinality(ToDo(view)) - Cardinality(Finished(view) \cap ToDo(view))
    BY <1>2, FS_Union
  <2>2. Cardinality(Finished(view) \cap ToDo(view)) = 0
    BY <1>1, FS_EmptySet
  <2>3. Cardinality(Present(view)) = Cardinality(Finished(view) \cup ToDo(view))
    BY <1>1
  <2>4. QED
    BY <1>3, <2>1, <2>2, <2>3
<1>5. QED
  BY <1>1, <1>2, <1>3, <1>4

LEMMA CountTotalKeeps ==
    ASSUME ListInv, NEW s \in Sessions, CountTotal(s)
    PROVE  ListInv'
<1> DEFINE n == Cardinality(Present(View(s)))
           k == session[s]
<1>1. /\ k.stage = "total" /\ item' = item /\ progress' = progress /\ moved' = moved
      /\ session' = [session EXCEPT ![s] =
                       IF n = 0 THEN [k EXCEPT !.stage = "commit"]
                       ELSE [stage |-> "done", writes |-> k.writes, total |-> n]]
  BY DEF CountTotal, In, ListInv
<1>2. ~In(s, "commit") /\ "stage" \in DOMAIN k
  BY <1>1 DEF In, ListInv
<1>3. CASE n = 0
  <2> DEFINE l == [k EXCEPT !.stage = "commit"]
  <2>1. "stage" \in DOMAIN l /\ l.stage # "done"
    BY <1>2
  <2>2. QED
    BY <1>1, <1>2, <1>3, <2>1, BeforeFigure
<1>4. CASE n # 0
  <2> DEFINE l == [stage |-> "done", writes |-> k.writes, total |-> n]
  <2>1. "stage" \in DOMAIN l /\ session' = [session EXCEPT ![s] = l]
    BY <1>1, <1>4
  <2>2. session'[s] = l
    BY <2>1, <1>1, OthersSee
  <2>3. View(s)' = View(s)
    BY <1>1, <2>2 DEF View
  <2>4. CountedRight(s)'
    BY <1>4, <2>2, <2>3, PresentFinite DEF CountedRight
  <2>5. QED
    BY <1>1, <1>2, <2>1, <2>4, BeforeFigure
<1>5. QED
  BY <1>3, <1>4

LEMMA CountDoneKeeps ==
    ASSUME ListInv, NEW s \in Sessions, CountDone(s)
    PROVE  ListInv'
<1> DEFINE view == View(s)
           T == session[s].total
<1>0. PICK h \in Rounded(Cardinality(Finished(view)), T) :
        progress' = {p \in progress : p.session # s} \cup
          {[session |-> s, left |-> Cardinality(ToDo(view)), total |-> T, hundredths |-> h]}
  BY DEF CountDone
<1> DEFINE new == [session |-> s, left |-> Cardinality(ToDo(view)), total |-> T, hundredths |-> h]
           k == [stage |-> "commit", writes |-> session[s].writes]
<1>1. /\ In(s, "done") /\ item' = item /\ moved' = moved
      /\ progress' = {p \in progress : p.session # s} \cup {new}
      /\ session' = [session EXCEPT ![s] = k]
  BY <1>0 DEF CountDone, ListInv
<1>2. /\ DOMAIN session' = Sessions /\ \A r \in Sessions : "stage" \in DOMAIN session'[r]
      /\ session'[s] = k
      /\ \A r \in Sessions : r # s => session'[r] = session[r] /\ View(r)' = View(r)
  BY <1>1, OthersSee
<1>3. ASSUME NEW r \in Sessions, In(r, "done")', r \notin moved'
      PROVE  CountedRight(r)'
  <2>1. r # s
    BY <1>2, <1>3 DEF In
  <2>2. CountedRight(r)
    BY <1>1, <1>2, <1>3, <2>1 DEF ListInv, In
  <2>3. QED
    BY <1>2, <2>1, <2>2 DEF CountedRight
<1>4. \A p \in progress' : p.session \in Sessions /\ In(p.session, "commit")'
  BY <1>1, <1>2 DEF ListInv, In
<1>5. s \in moved \/ FigureSane(new)
  <2>1. SUFFICES ASSUME s \notin moved
                 PROVE  FigureSane(new)
    OBVIOUS
  <2>2. T = Cardinality(Present(view)) /\ T > 0
    BY <1>1, <2>1 DEF ListInv, CountedRight
  <2>3. PICK F \in Nat, L \in Nat :
          /\ F = Cardinality(Finished(view)) /\ L = Cardinality(ToDo(view))
          /\ T \in Nat /\ T = F + L
    BY <2>2, PresentFinite
  <2>4. /\ h <= 10000 /\ (F = T => h = 10000) /\ (h = 10000 => 20000 * (T - F) <= T)
    BY <1>0, <2>2, <2>3, Percentage
  <2>5. (L = 0 => h = 10000) /\ (h = 10000 => 20000 * L <= T)
    BY <2>3, <2>4
  <2>6. QED
    BY <2>3, <2>4, <2>5 DEF FigureSane
<1>6. ProgressSane'
  <2>1. ASSUME NEW p \in progress'
        PROVE  p.session \in moved \/ FigureSane(p)
    <3>1. CASE p \in progress
      BY <3>1 DEF ListInv, ProgressSane, FigureSane
    <3>2. CASE p = new
      <4>1. p.session = s
        BY <3>2
      <4>2. QED
        BY <1>5, <3>2, <4>1
    <3>3. QED
      BY <1>1, <3>1, <3>2
  <2>2. QED
    BY <1>1, <2>1 DEF ProgressSane, FigureSane
<1>7. QED
  BY <1>2, <1>3, <1>4, <1>6 DEF ListInv

\* A session ends, and with it its figure.
LEMMA SessionEnds ==
    ASSUME ListInv, NEW s \in Sessions, session' = [session EXCEPT ![s] = NoSession],
           progress' = {p \in progress : p.session # s},
           moved \subseteq moved',
           item' = item \/ \A r \in Sessions : r # s /\ In(r, "done") => r \in moved'
    PROVE  ListInv'
<1>1. /\ DOMAIN session' = Sessions /\ session'[s] = NoSession
      /\ \A r \in Sessions : r # s => session'[r] = session[r]
      /\ \A r \in Sessions : "stage" \in DOMAIN session'[r]
  BY DEF ListInv, NoSession
<1>2. ASSUME NEW r \in Sessions, In(r, "done")', r \notin moved'
      PROVE  CountedRight(r)'
  <2>1. r # s
    BY <1>1, <1>2 DEF In, NoSession
  <2>2. In(r, "done") /\ r \notin moved /\ item' = item
    BY <1>1, <1>2, <2>1 DEF In
  <2>3. CountedRight(r)
    BY <2>2 DEF ListInv
  <2>4. View(r)' = View(r)
    BY <1>1, <2>1, <2>2 DEF View
  <2>5. QED
    BY <1>1, <2>1, <2>3, <2>4 DEF CountedRight
<1>3. \A p \in progress' : p \in progress /\ p.session # s
  OBVIOUS
<1>4. \A p \in progress' : p.session \in Sessions /\ In(p.session, "commit")'
  BY <1>1, <1>3 DEF ListInv, In
<1>5. ProgressSane'
  BY <1>3 DEF ListInv, ProgressSane
<1>6. QED
  BY <1>1, <1>2, <1>4, <1>5 DEF ListInv

LEMMA CommitItemsKeeps ==
    ASSUME ListInv, NEW s \in Sessions, CommitItems(s)
    PROVE  ListInv'
<1>1. /\ item' = View(s) /\ session' = [session EXCEPT ![s] = NoSession]
      /\ moved' = IF View(s) = item THEN moved
                  ELSE moved \cup {r \in Sessions \ {s} : In(r, "done")}
      /\ progress' = {p \in progress : p.session # s}
  BY DEF CommitItems
<1>2. moved \subseteq moved'
  BY <1>1
<1>3. item' = item \/ \A r \in Sessions : r # s /\ In(r, "done") => r \in moved'
  BY <1>1
<1>4. QED
  BY <1>1, <1>2, <1>3, SessionEnds

LEMMA ListInvStep == ListInv /\ [ListNext]_listVars => ListInv'
<1> SUFFICES ASSUME ListInv, [ListNext]_listVars
             PROVE  ListInv'
  OBVIOUS
<1>1. CASE UNCHANGED listVars
  BY <1>1 DEF listVars, ListInv, In, CountedRight, View, ProgressSane
<1>2. ASSUME NEW s \in Sessions, NEW new \in SUBSET Slots, CreateItems(s, new)
      PROVE  ListInv'
  <2>1. Start(s, IF new = {} THEN "commit" ELSE "total", [i \in new |-> "todo"])
    BY <1>2 DEF CreateItems
  <2>2. QED
    BY <2>1, StartKeeps
<1>3. ASSUME NEW s \in Sessions, NEW i \in Slots, DeleteItem(s, i)
      PROVE  ListInv'
  BY <1>3, StartKeeps DEF DeleteItem
<1>4. ASSUME NEW s \in Sessions, ListItems(s)
      PROVE  ListInv'
  BY <1>4, StartKeeps DEF ListItems
<1>5. ASSUME NEW s \in Sessions, RollBack(s)
      PROVE  ListInv'
  BY <1>5, SessionEnds DEF RollBack
<1>6. QED
  BY <1>1, <1>2, <1>3, <1>4, <1>5, LoadItemKeeps, UpdateItemKeeps, CountTotalKeeps,
     CountDoneKeeps, CommitItemsKeeps DEF ListNext

\* For any number of items the progress of a note is at most 100 per cent, 100 if no
\* item is to do, and 100 with items to do only if they are at most one in 20000;
\* only a commit of somebody else between the two counts excuses another figure.
THEOREM ProgressIsSane == ListSpec => []ProgressSane
<1>1. ListInit => ListInv
  BY DEF ListInit, ListInv, NoSession, In, ProgressSane
<1>2. ListInv => ProgressSane
  BY DEF ListInv
<1>3. QED
  BY <1>1, <1>2, ListInvStep, PTL DEF ListSpec

(***************************************************************************)
(* CronIntake.  The notes of a text that a lookup would find now, and the  *)
(* requests for it that are yet to insert theirs, are together at most as  *)
(* many as were at work at once; a window that ends now holds none but     *)
(* those, and one that ended before does not grow any more.                *)
(***************************************************************************)
IntakeSpec == IntakeInit /\ [][IntakeNext]_intakeVars

RowRec == [text : Texts, from : {"cron", "telegram"}, made : Nat, kept : BOOLEAN]
UnderWay == {p \in Posts : ~At(p, "none")}
Classifying(x) == {p \in Posts : At(p, "classify") /\ post[p].text = x}
Delivered(x, i) ==
    {j \in DOMAIN rows : /\ rows[j].kept /\ rows[j].from = "cron" /\ rows[j].text = x
                         /\ rows[j].made <= rows[i].made /\ rows[i].made <= rows[j].made + Window}

PostOK(k) == k = NoPost \/ (k.stage \in {"classify", "publish"} /\ k.text \in Texts)
PostsOK == DOMAIN post = Posts /\ (\A p \in Posts : PostOK(post[p])) /\ IsFiniteSet(UnderWay)
RowsOK == rows \in Seq(RowRec) /\ clock \in Nat /\ \A i \in DOMAIN rows : rows[i].made <= clock

InsertsBounded == \A x \in Texts : Cardinality(Existing(x)) + Cardinality(Classifying(x)) <= met[x]

IntakeInv == PostsOK /\ RowsOK /\ met \in [Texts -> Nat] /\ InsertsBounded /\ CronOnce

LEMMA WindowNat == Window \in Nat
BY IntakeAssumption

LEMMA CronOnceSays == CronOnce <=> \A x \in Texts : \A i \in DOMAIN rows : Cardinality(Delivered(x, i)) <= met[x]
BY DEF CronOnce, Delivered

LEMMA RowSetsFinite ==
    ASSUME rows \in Seq(RowRec), NEW S \in SUBSET DOMAIN rows
    PROVE  IsFiniteSet(S) /\ Cardinality(S) \in Nat
<1>1. Len(rows) \in Nat /\ DOMAIN rows = 1..Len(rows)
  OBVIOUS
<1>2. IsFiniteSet(1..Len(rows))
  BY <1>1, FS_Interval
<1>3. QED
  BY <1>1, <1>2, FS_Subset, FS_CardinalityType

LEMMA ClassifyingFinite ==
    ASSUME PostsOK, NEW x
    PROVE  IsFiniteSet(Classifying(x)) /\ Cardinality(Classifying(x)) \in Nat
<1>1. Classifying(x) \subseteq UnderWay
  BY DEF Classifying, UnderWay, At
<1>2. QED
  BY <1>1, FS_Subset, FS_CardinalityType DEF PostsOK

\* A request goes from one stage to another.
LEMMA PostMoves ==
    ASSUME PostsOK, NEW p \in Posts, NEW k, PostOK(k), post' = [post EXCEPT ![p] = k]
    PROVE  /\ PostsOK' /\ post'[p] = k
           /\ \A q \in Posts : q # p => post'[q] = post[q]
           /\ \A x : Classifying(x)' = IF k.stage = "classify" /\ k.text = x
                                         THEN Classifying(x) \cup {p} ELSE Classifying(x) \ {p}
<1>1. /\ DOMAIN post' = Posts /\ post'[p] = k
      /\ \A q \in Posts : q # p => post'[q] = post[q]
  BY DEF PostsOK
<1>2. \A q \in Posts : PostOK(post[q])'
  BY <1>1 DEF PostsOK, PostOK
<1>3. UnderWay' \subseteq UnderWay \cup {p}
  BY <1>1 DEF UnderWay, At
<1>4. IsFiniteSet(UnderWay')
  BY <1>3, FS_AddElement, FS_Subset DEF PostsOK
<1>5. \A x : Classifying(x)' = IF k.stage = "classify" /\ k.text = x
                                 THEN Classifying(x) \cup {p} ELSE Classifying(x) \ {p}
  BY <1>1 DEF Classifying, At
<1>6. QED
  BY <1>1, <1>2, <1>4, <1>5 DEF PostsOK

\* The notes stay as they are, and so do the windows.
LEMMA NotesStay ==
    ASSUME IntakeInv, rows' = rows, clock' = clock, PostsOK', met' \in [Texts -> Nat],
           \A x \in Texts : met[x] <= met'[x],
           InsertsBounded'
    PROVE  IntakeInv'
<1>1. \A x, i : Delivered(x, i)' = Delivered(x, i)
  BY DEF Delivered
<1>2. ASSUME NEW x \in Texts, NEW i \in DOMAIN rows'
      PROVE  Cardinality(Delivered(x, i)') <= met'[x]
  <2>1. Cardinality(Delivered(x, i)) <= met[x]
    BY <1>2, CronOnceSays DEF IntakeInv
  <2>2. Cardinality(Delivered(x, i)) \in Nat
    <3>1. Delivered(x, i) \subseteq DOMAIN rows
      BY DEF Delivered
    <3>2. QED
      BY <3>1, RowSetsFinite DEF IntakeInv, RowsOK
  <2>3. met[x] \in Nat /\ met'[x] \in Nat /\ met[x] <= met'[x]
    BY DEF IntakeInv
  <2>4. QED
    BY <1>1, <2>1, <2>2, <2>3
<1>3. CronOnce'
  BY <1>2 DEF CronOnce, Delivered
<1>4. RowsOK'
  BY DEF IntakeInv, RowsOK
<1>5. QED
  BY <1>3, <1>4 DEF IntakeInv

\* A request that ends, or goes on without inserting.
LEMMA PostGoesOn ==
    ASSUME IntakeInv, NEW p \in Posts, post' = [post EXCEPT ![p] = NoPost],
           rows' = rows, clock' = clock, met' = met
    PROVE  IntakeInv'
<1>1. PostsOK' /\ \A x : Classifying(x)' = Classifying(x) \ {p}
  <2>1. PostsOK /\ PostOK(NoPost) /\ NoPost.stage # "classify"
    BY DEF IntakeInv, PostOK, NoPost
  <2>2. QED
    BY <2>1, PostMoves
<1>2. \A x : Existing(x)' = Existing(x)
  BY DEF Existing
<1>3. ASSUME NEW x \in Texts
      PROVE  Cardinality(Existing(x)') + Cardinality(Classifying(x)') <= met'[x]
  <2>1. Classifying(x)' \subseteq Classifying(x)
    BY <1>1
  <2>2. Cardinality(Classifying(x)') <= Cardinality(Classifying(x))
        /\ IsFiniteSet(Classifying(x)')
    BY <2>1, ClassifyingFinite, FS_Subset DEF IntakeInv
  <2>3. Cardinality(Classifying(x)') \in Nat /\ Cardinality(Classifying(x)) \in Nat
    BY <2>2, ClassifyingFinite, FS_CardinalityType DEF IntakeInv
  <2>4. Existing(x) \subseteq DOMAIN rows
    BY DEF Existing
  <2>5. Cardinality(Existing(x)) \in Nat
    BY <2>4, RowSetsFinite DEF IntakeInv, RowsOK
  <2>6. Cardinality(Existing(x)) + Cardinality(Classifying(x)) <= met[x] /\ met[x] \in Nat
    BY DEF IntakeInv, InsertsBounded
  <2>7. QED
    BY <1>2, <2>2, <2>3, <2>5, <2>6
<1>4. QED
  BY <1>1, <1>3, NotesStay DEF IntakeInv, InsertsBounded

LEMMA LookupKeeps ==
    ASSUME IntakeInv, NEW p \in Posts, NEW x \in Texts, Lookup(p, x)
    PROVE  IntakeInv'
<1>1. At(p, "none") /\ rows' = rows /\ clock' = clock
  BY DEF Lookup
<1>2. CASE Existing(x) # {}
  <2>1. UNCHANGED <<rows, clock, post, met>>
    BY <1>2 DEF Lookup
  <2>2. QED
    BY <2>1 DEF IntakeInv, PostsOK, UnderWay, At, RowsOK, InsertsBounded, Existing, Classifying, CronOnce
<1>3. CASE Existing(x) = {}
  <2> DEFINE Others == {q \in Posts : ~At(q, "none") /\ post[q].text = x}
             n == 1 + Cardinality(Others)
             k == [stage |-> "classify", text |-> x]
  <2>1. post' = [post EXCEPT ![p] = k] /\ met' = [met EXCEPT ![x] = IF n > met[x] THEN n ELSE met[x]]
    BY <1>3 DEF Lookup, IntakeInv
  <2>2. PostOK(k) /\ PostsOK /\ k.stage = "classify" /\ k.text = x
    BY DEF PostOK, IntakeInv
  <2> HIDE DEF k
  <2>3. PostsOK' /\ \A y : Classifying(y)' = IF x = y THEN Classifying(y) \cup {p}
                                              ELSE Classifying(y) \ {p}
    <3>1. post' = [post EXCEPT ![p] = k]
      BY <2>1
    <3>2. PostsOK' /\ \A y : Classifying(y)' = IF k.stage = "classify" /\ k.text = y
                                    THEN Classifying(y) \cup {p} ELSE Classifying(y) \ {p}
      BY <2>2, <3>1, PostMoves
    <3>3. QED
      BY <2>2, <3>2
  <2>4. p \notin Others /\ (\A y : p \notin Classifying(y)) /\ Others \subseteq UnderWay
        /\ Classifying(x) \subseteq Others
    BY <1>1 DEF Classifying, UnderWay, At
  <2>5. IsFiniteSet(Others) /\ Cardinality(Others) \in Nat
        /\ Cardinality(Classifying(x)) <= Cardinality(Others)
    BY <2>2, <2>4, FS_Subset, FS_CardinalityType DEF PostsOK
  <2>6. n \in Nat /\ met' \in [Texts -> Nat] /\ met'[x] >= n
    BY <2>1, <2>5 DEF IntakeInv
  <2>7. \A y \in Texts : met[y] <= met'[y]
    BY <2>1, <2>5 DEF IntakeInv
  <2>8. \A y : Existing(y)' = Existing(y)
    BY <1>1 DEF Existing
  <2>9. ASSUME NEW y \in Texts
        PROVE  Cardinality(Existing(y)') + Cardinality(Classifying(y)') <= met'[y]
    <3>1. CASE y = x
      <4>1. Cardinality(Existing(y)') = 0
        BY <1>3, <2>8, <3>1, FS_EmptySet
      <4>2. Cardinality(Classifying(y)') = Cardinality(Classifying(x)) + 1
        BY <2>2, <2>3, <2>4, <3>1, ClassifyingFinite, FS_AddElement
      <4>3. Cardinality(Classifying(x)) \in Nat
        BY <2>2, ClassifyingFinite
      <4>4. QED
        BY <2>5, <2>6, <3>1, <4>1, <4>2, <4>3
    <3>2. CASE y # x
      <4>1. Classifying(y)' = Classifying(y)
        BY <2>3, <2>4, <3>2
      <4>2. Cardinality(Existing(y)) + Cardinality(Classifying(y)) <= met[y]
        BY DEF IntakeInv, InsertsBounded
      <4>3. met'[y] = met[y]
        BY <2>1, <3>2 DEF IntakeInv
      <4>4. QED
        BY <2>8, <4>1, <4>2, <4>3
    <3>3. QED
      BY <3>1, <3>2
  <2>10. QED
    BY <1>1, <2>3, <2>6, <2>7, <2>9, NotesStay DEF InsertsBounded
<1>4. QED
  BY <1>2, <1>3

\* A new row is found from now on; it enters no window that has ended.
LEMMA NewRow ==
    ASSUME IntakeInv, NEW r \in RowRec, r.made = clock, r.kept, rows' = Append(rows, r),
           clock' = clock
    PROVE  /\ RowsOK' /\ DOMAIN rows' = DOMAIN rows \cup {Len(rows) + 1}
           /\ Len(rows) + 1 \notin DOMAIN rows
           /\ \A x : Existing(x)' = IF r.from = "cron" /\ r.text = x
                                      THEN Existing(x) \cup {Len(rows) + 1} ELSE Existing(x)
           /\ \A x : \A i \in DOMAIN rows' :
                \/ i \in DOMAIN rows /\ Delivered(x, i)' = Delivered(x, i)
                \/ Delivered(x, i)' \subseteq Existing(x)'
<1>1. /\ rows \in Seq(RowRec) /\ clock \in Nat /\ \A i \in DOMAIN rows : rows[i].made <= clock
      /\ Len(rows) \in Nat /\ DOMAIN rows = 1..Len(rows)
  BY DEF IntakeInv, RowsOK
<1>2. /\ rows' \in Seq(RowRec) /\ Len(rows') = Len(rows) + 1
      /\ DOMAIN rows' = DOMAIN rows \cup {Len(rows) + 1} /\ Len(rows) + 1 \notin DOMAIN rows
      /\ \A i \in DOMAIN rows : rows'[i] = rows[i]
      /\ rows'[Len(rows) + 1] = r
  BY <1>1, AppendProperties
<1>3. RowsOK'
  BY <1>1, <1>2 DEF RowsOK
<1>4. clock <= clock + Window
  BY <1>1, WindowNat
<1>5. \A x : Existing(x)' = IF r.from = "cron" /\ r.text = x
                              THEN Existing(x) \cup {Len(rows) + 1} ELSE Existing(x)
  BY <1>1, <1>2, <1>4 DEF Existing
<1>6. ASSUME NEW x, NEW i \in DOMAIN rows', rows'[i].made # clock
      PROVE  i \in DOMAIN rows /\ Delivered(x, i)' = Delivered(x, i)
  <2>1. i \in DOMAIN rows /\ rows'[i] = rows[i]
    BY <1>2, <1>6
  <2>2. rows[i].made < clock /\ rows[i].made \in Nat
    <3>1. rows[i].made <= clock /\ rows[i].made # clock
      BY <1>1, <1>6, <2>1
    <3>2. rows[i] \in RowRec
      BY <1>1, <2>1
    <3>3. rows[i].made \in Nat
      BY <3>2 DEF RowRec
    <3>4. QED
      BY <1>1, <3>1, <3>3
  <2>3. ~(r.made <= rows[i].made)
    BY <1>1, <2>2
  <2>4. QED
    BY <1>2, <2>1, <2>3 DEF Delivered
<1>7. ASSUME NEW x, NEW i \in DOMAIN rows', rows'[i].made = clock
      PROVE  Delivered(x, i)' \subseteq Existing(x)'
  BY <1>7 DEF Delivered, Existing
<1>8. QED
  BY <1>2, <1>3, <1>5, <1>6, <1>7

LEMMA NewRowKeeps ==
    ASSUME IntakeInv, NEW r \in RowRec, r.made = clock, r.kept, rows' = Append(rows, r),
           clock' = clock, met' = met, PostsOK', InsertsBounded'
    PROVE  IntakeInv'
<1>1. ASSUME NEW x \in Texts, NEW i \in DOMAIN rows'
      PROVE  Cardinality(Delivered(x, i)') <= met'[x]
  <2>1. CASE i \in DOMAIN rows /\ Delivered(x, i)' = Delivered(x, i)
    BY <2>1, CronOnceSays DEF IntakeInv
  <2>2. CASE Delivered(x, i)' \subseteq Existing(x)'
    <3>1. rows' \in Seq(RowRec) /\ Existing(x)' \subseteq DOMAIN rows'
      BY NewRow DEF RowsOK, Existing
    <3>2. IsFiniteSet(Existing(x)') /\ Cardinality(Existing(x)') \in Nat
      <4>1. DOMAIN rows' = 1..Len(rows') /\ Len(rows') \in Nat
        BY <3>1
      <4>2. IsFiniteSet(DOMAIN rows')
        BY <4>1, FS_Interval
      <4>3. QED
        BY <3>1, <4>2, FS_Subset, FS_CardinalityType
    <3>3. Cardinality(Delivered(x, i)') <= Cardinality(Existing(x)')
          /\ Cardinality(Delivered(x, i)') \in Nat
      BY <2>2, <3>2, FS_Subset, FS_CardinalityType
    <3>4. Cardinality(Existing(x)') + Cardinality(Classifying(x)') <= met'[x]
      BY DEF InsertsBounded
    <3>5. Cardinality(Classifying(x)') \in Nat
      <4>1. Classifying(x)' \subseteq UnderWay'
        BY DEF Classifying, UnderWay, At
      <4>2. QED
        BY <4>1, FS_Subset, FS_CardinalityType DEF PostsOK
    <3>6. met'[x] \in Nat
      BY DEF IntakeInv
    <3>7. QED
      BY <3>2, <3>3, <3>4, <3>5, <3>6
  <2>3. QED
    BY <2>1, <2>2, NewRow
<1>2. CronOnce'
  BY <1>1 DEF CronOnce, Delivered
<1>3. QED
  BY <1>2, NewRow DEF IntakeInv

LEMMA InsertRowKeeps ==
    ASSUME IntakeInv, NEW p \in Posts, InsertRow(p)
    PROVE  IntakeInv'
<1> DEFINE x == post[p].text
           r == Row(x, "cron")
           k == [stage |-> "publish", text |-> x, id |-> Len(rows')]
<1>1. /\ At(p, "classify") /\ rows' = Append(rows, r)
      /\ post' = [post EXCEPT ![p] = k] /\ clock' = clock /\ met' = met
  BY DEF InsertRow, IntakeInv, PostsOK
<1>2. x \in Texts /\ PostsOK /\ clock \in Nat
  BY <1>1 DEF IntakeInv, PostsOK, PostOK, At, NoPost, RowsOK
<1>3. r \in RowRec /\ r.made = clock /\ r.kept /\ r.from = "cron" /\ r.text = x
  BY <1>2 DEF Row, RowRec
<1>4. PostOK(k) /\ k.stage # "classify"
  BY <1>2 DEF PostOK
<1> HIDE DEF x, r, k
<1>5. PostsOK' /\ \A y : Classifying(y)' = Classifying(y) \ {p}
  BY <1>1, <1>2, <1>4, PostMoves
<1>6. /\ \A y : Existing(y)' = IF x = y THEN Existing(y) \cup {Len(rows) + 1} ELSE Existing(y)
      /\ Len(rows) + 1 \notin DOMAIN rows
  BY <1>1, <1>3, NewRow
<1>7. p \in Classifying(x) /\ \A y : y # x => p \notin Classifying(y)
  BY <1>1 DEF Classifying, x
<1>8. ASSUME NEW y \in Texts
      PROVE  Cardinality(Existing(y)') + Cardinality(Classifying(y)') <= met'[y]
  <2>1. Cardinality(Existing(y)) + Cardinality(Classifying(y)) <= met[y]
    BY DEF IntakeInv, InsertsBounded
  <2>2. CASE y = x
    <3>1. Existing(y) \subseteq DOMAIN rows
      BY DEF Existing
    <3>2. IsFiniteSet(Existing(y)) /\ Cardinality(Existing(y)) \in Nat
      BY <3>1, RowSetsFinite DEF IntakeInv, RowsOK
    <3>3. Cardinality(Existing(y)') = Cardinality(Existing(y)) + 1
      BY <1>6, <2>2, <3>1, <3>2, FS_AddElement
    <3>4. /\ Cardinality(Classifying(y)') = Cardinality(Classifying(y)) - 1
          /\ Cardinality(Classifying(y)) \in Nat
      BY <1>2, <1>5, <1>7, <2>2, ClassifyingFinite, FS_RemoveElement
    <3>5. QED
      BY <1>1, <2>1, <3>2, <3>3, <3>4
  <2>3. CASE y # x
    <3>1. Existing(y)' = Existing(y) /\ Classifying(y)' = Classifying(y)
      BY <1>5, <1>6, <1>7, <2>3
    <3>2. QED
      BY <1>1, <2>1, <3>1
  <2>4. QED
    BY <2>2, <2>3
<1>9. QED
  BY <1>1, <1>3, <1>5, <1>8, NewRowKeeps DEF InsertsBounded

LEMMA CreateNoteKeeps ==
    ASSUME IntakeInv, NEW x \in Texts, CreateNote(x)
    PROVE  IntakeInv'
<1> DEFINE r == Row(x, "telegram")
<1>1. rows' = Append(rows, r) /\ clock' = clock /\ met' = met /\ post' = post
  BY DEF CreateNote
<1>2. r \in RowRec /\ r.made = clock /\ r.kept /\ r.from # "cron"
  BY DEF Row, RowRec, IntakeInv, RowsOK
<1> HIDE DEF r
<1>3. \A y : Existing(y)' = Existing(y)
  BY <1>1, <1>2, NewRow
<1>4. \A y : Classifying(y)' = Classifying(y)
  BY <1>1 DEF Classifying, At
<1>5. PostsOK'
  BY <1>1 DEF IntakeInv, PostsOK, UnderWay, At
<1>6. InsertsBounded'
  BY <1>1, <1>3, <1>4 DEF IntakeInv, InsertsBounded
<1>7. QED
  BY <1>1, <1>2, <1>5, <1>6, NewRowKeeps

\* Fewer rows are found, and no window grows.
LEMMA FewerRows ==
    ASSUME IntakeInv, post' = post, met' = met, RowsOK', DOMAIN rows' = DOMAIN rows,
           \A x \in Texts : Existing(x)' \subseteq Existing(x),
           \A x \in Texts : \A i \in DOMAIN rows : Delivered(x, i)' \subseteq Delivered(x, i)
    PROVE  IntakeInv'
<1>1. PostsOK' /\ \A x : Classifying(x)' = Classifying(x)
  BY DEF IntakeInv, PostsOK, UnderWay, At, Classifying
<1>2. rows \in Seq(RowRec)
  BY DEF IntakeInv, RowsOK
<1>3. ASSUME NEW x \in Texts, NEW S \in SUBSET DOMAIN rows, NEW T \in SUBSET S
      PROVE  Cardinality(T) \in Nat /\ Cardinality(S) \in Nat /\ Cardinality(T) <= Cardinality(S)
  BY <1>2, RowSetsFinite, FS_Subset
<1>4. ASSUME NEW x \in Texts
      PROVE  Cardinality(Existing(x)') + Cardinality(Classifying(x)') <= met'[x]
  <2>1. Existing(x) \subseteq DOMAIN rows
    BY DEF Existing
  <2>2. /\ Cardinality(Existing(x)') \in Nat /\ Cardinality(Existing(x)) \in Nat
        /\ Cardinality(Existing(x)') <= Cardinality(Existing(x))
    BY <1>3, <2>1
  <2>3. Cardinality(Existing(x)) + Cardinality(Classifying(x)) <= met[x] /\ met[x] \in Nat
    BY DEF IntakeInv, InsertsBounded
  <2>4. Cardinality(Classifying(x)) \in Nat
    BY ClassifyingFinite DEF IntakeInv
  <2>5. QED
    BY <1>1, <2>2, <2>3, <2>4
<1>5. ASSUME NEW x \in Texts, NEW i \in DOMAIN rows'
      PROVE  Cardinality(Delivered(x, i)') <= met'[x]
  <2>1. Delivered(x, i) \subseteq DOMAIN rows
    BY DEF Delivered
  <2>2. /\ Cardinality(Delivered(x, i)') \in Nat /\ Cardinality(Delivered(x, i)) \in Nat
        /\ Cardinality(Delivered(x, i)') <= Cardinality(Delivered(x, i))
    BY <1>3, <2>1
  <2>3. Cardinality(Delivered(x, i)) <= met[x] /\ met[x] \in Nat
    BY CronOnceSays DEF IntakeInv
  <2>4. QED
    BY <2>2, <2>3
<1>6. CronOnce'
  BY <1>5 DEF CronOnce, Delivered
<1>7. QED
  BY <1>1, <1>4, <1>6 DEF IntakeInv, InsertsBounded

LEMMA AlterKeeps ==
    ASSUME IntakeInv, NEW i \in DOMAIN rows, Alter(i)
    PROVE  IntakeInv'
<1> DEFINE r == [rows[i] EXCEPT !.kept = FALSE]
<1>1. rows' = [rows EXCEPT ![i] = r] /\ clock' = clock /\ met' = met /\ post' = post
  BY DEF Alter
<1>2. rows \in Seq(RowRec) /\ rows[i] \in RowRec /\ \A j \in DOMAIN rows : rows[j].made <= clock
  BY DEF IntakeInv, RowsOK
<1>3. r \in RowRec /\ ~r.kept /\ r.made = rows[i].made
  BY <1>2 DEF RowRec
<1> HIDE DEF r
<1>4. /\ rows' \in Seq(RowRec) /\ DOMAIN rows' = DOMAIN rows /\ rows'[i] = r
      /\ \A j \in DOMAIN rows : j # i => rows'[j] = rows[j]
  BY <1>1, <1>2, <1>3
<1>5. RowsOK'
  BY <1>1, <1>2, <1>3, <1>4 DEF IntakeInv, RowsOK
<1>6. \A x : Existing(x)' \subseteq Existing(x)
  BY <1>1, <1>3, <1>4 DEF Existing
<1>7. \A j \in DOMAIN rows : rows'[j].made = rows[j].made
  BY <1>3, <1>4
<1>8. ASSUME NEW x, NEW j \in DOMAIN rows, NEW l \in Delivered(x, j)'
      PROVE  l \in Delivered(x, j)
  <2>1. l \in DOMAIN rows /\ l # i
    BY <1>3, <1>4, <1>8 DEF Delivered
  <2>2. rows'[l] = rows[l] /\ rows'[j].made = rows[j].made
    BY <1>4, <1>7, <2>1
  <2>3. QED
    BY <1>8, <2>1, <2>2 DEF Delivered
<1>9. QED
  BY <1>1, <1>4, <1>5, <1>6, <1>8, FewerRows

LEMMA TimePassesKeeps ==
    ASSUME IntakeInv, TimePasses
    PROVE  IntakeInv'
<1>1. rows' = rows /\ clock' = clock + 1 /\ met' = met /\ post' = post
  BY DEF TimePasses
<1>2. /\ rows \in Seq(RowRec) /\ clock \in Nat
      /\ \A j \in DOMAIN rows : rows[j].made <= clock /\ rows[j].made \in Nat
  <2>1. \A j \in DOMAIN rows : rows[j] \in RowRec
    BY DEF IntakeInv, RowsOK
  <2>2. QED
    BY <2>1 DEF IntakeInv, RowsOK, RowRec
<1>3. RowsOK'
  BY <1>1, <1>2 DEF RowsOK
<1>4. \A x : Existing(x)' \subseteq Existing(x)
  BY <1>1, <1>2, WindowNat DEF Existing
<1>5. \A x, i : Delivered(x, i)' = Delivered(x, i)
  BY <1>1 DEF Delivered
<1>6. QED
  BY <1>1, <1>3, <1>4, <1>5, FewerRows

LEMMA IntakeInvStep == IntakeInv /\ [IntakeNext]_intakeVars => IntakeInv'
<1> SUFFICES ASSUME IntakeInv, [IntakeNext]_intakeVars
             PROVE  IntakeInv'
  OBVIOUS
<1>1. CASE UNCHANGED intakeVars
  BY <1>1 DEF intakeVars, IntakeInv, PostsOK, UnderWay, At, RowsOK, InsertsBounded, Existing,
              Classifying, CronOnce
<1>2. ASSUME NEW p \in Posts, PublishRow(p) \/ PostDies(p)
      PROVE  IntakeInv'
  BY <1>2, PostGoesOn DEF PublishRow, PostDies
<1>3. QED
  BY <1>1, <1>2, LookupKeeps, InsertRowKeeps, CreateNoteKeeps, AlterKeeps, TimePassesKeeps
     DEF IntakeNext

\* Of the notes that the cron jobs delivered with one text within a window and
\* that nobody altered there are at most as many as requests for that text were
\* at work at once: one, if the jobs wait for their answers.
THEOREM CronDeliversOnce == IntakeSpec => []CronOnce
<1>1. ASSUME IntakeInit
      PROVE  IntakeInv
  <2>1. /\ rows = <<>> /\ clock = 0 /\ post = [p \in Posts |-> NoPost] /\ met = [x \in Texts |-> 0]
    BY <1>1 DEF IntakeInit
  <2>2. RowsOK
    BY <2>1 DEF RowsOK
  <2>3. UnderWay = {} /\ \A x : Classifying(x) = {} /\ Existing(x) = {}
    BY <2>1 DEF UnderWay, Classifying, Existing, At, NoPost
  <2>4. PostsOK
    BY <2>1, <2>3, FS_EmptySet DEF PostsOK, PostOK
  <2>5. InsertsBounded
    <3>1. Cardinality({}) = 0
      BY FS_EmptySet
    <3>2. \A x \in Texts : Cardinality(Existing(x)) = 0 /\ Cardinality(Classifying(x)) = 0
      BY <2>3, <3>1
    <3>3. QED
      BY <2>1, <3>2 DEF InsertsBounded
  <2>6. CronOnce
    BY <2>1 DEF CronOnce
  <2>7. QED
    BY <2>1, <2>2, <2>4, <2>5, <2>6 DEF IntakeInv
<1>2. IntakeInv => CronOnce
  BY DEF IntakeInv
<1>3. QED
  BY <1>1, <1>2, IntakeInvStep, PTL DEF IntakeSpec

(***************************************************************************)
(* Conversation.  The rows of a chat are the end of what was said since it *)
(* was cleared, and no more than the limit unless that was lowered, so     *)
(* that get_history leaves nothing out.  While no turn was mixed up, what  *)
(* was said is a sequence of whole turns, and one message more while one   *)
(* handler is halfway.                                                     *)
(***************************************************************************)
Msg == [turn : Nat, role : {"user", "assistant"}]

\* The stages of an update that is not between the two messages of a turn.
Ways == {"ask", "classify", "distill", "hear"}
Aside == Ways \cup {"end", "clear"}
UpdateRec == [stage : Aside \cup {"reply"}, way : Ways, chat : Chats, no : Nat]

ChatTypes ==
    /\ limit \in Limits /\ change \in [Chats -> {"none", "lowered", "other"}]
    /\ messages \in [Chats -> Seq(Msg)] /\ spoken \in [Chats -> Seq(Msg)]
    /\ update \in [Handlers -> UpdateRec \cup {Resting}]
    /\ mixed \in [Chats -> BOOLEAN] /\ handled \in Nat

\* What the rows t of a chat have to do with what was said, s, when the limit is n
\* and changed as c says.
Shows(t, s, n, c) ==
    /\ EndOf(t, s)
    /\ c # "lowered" => Fits(t, n)
    /\ c = "none" => Len(t) \in {Len(s), n}

Windows == \A k \in Chats : Shows(messages[k], spoken[k], limit, change[k])

Answered(s) ==
    \A i \in DOMAIN s : i % 2 = 1 =>
      /\ s[i].role = "user"
      /\ i + 1 \in DOMAIN s => s[i + 1].role = "assistant" /\ s[i + 1].turn = s[i].turn

HalfwayBy(u, k) ==
    /\ On(u, k) /\ Step(u) = "reply"
    /\ Len(spoken[k]) % 2 = 1 /\ spoken[k][Len(spoken[k])].turn = update[u].no
    /\ \A v \in Handlers : On(v, k) /\ Step(v) = "reply" => v = u

TurnsKept(k) ==
    mixed[k] \/ (/\ Answered(spoken[k])
                 /\ \/ ~Halfway(k) /\ Len(spoken[k]) % 2 = 0
                    \/ \E u \in Handlers : HalfwayBy(u, k))

ChatInv ==
    /\ ChatTypes /\ Windows
    /\ \A k \in Chats : TurnsKept(k)

LEMMA LimitIs == ASSUME ChatTypes PROVE limit \in Int
BY ChatAssumption DEF ChatTypes

LEMMA LatestIs ==
    ASSUME NEW S, NEW s \in Seq(S), NEW n \in Int
    PROVE  /\ Latest(s, n) \in Seq(S)
           /\ Len(Latest(s, n)) = IF Fits(s, n) THEN Len(s) ELSE n
           /\ Fits(Latest(s, n), n)
           /\ EndOf(Latest(s, n), s)
<1>1. Len(s) \in Nat /\ DOMAIN s = 1..Len(s)
  OBVIOUS
<1>2. CASE Fits(s, n)
  <2>1. Latest(s, n) = s
    BY <1>2 DEF Latest
  <2>2. EndOf(s, s)
    BY <1>1 DEF EndOf
  <2>3. QED
    BY <1>2, <2>1, <2>2
<1>3. CASE ~Fits(s, n)
  <2> DEFINE m == Len(s) - n + 1
             t == SubSeq(s, m, Len(s))
  <2>1. Latest(s, n) = t
    BY <1>3 DEF Latest
  <2>2. n >= 0 /\ n < Len(s)
    BY <1>1, <1>3 DEF Fits
  <2>3. m \in Int /\ Len(s) \in Int /\ m <= Len(s) + 1 /\ Len(s) - m + 1 = n /\ m >= 1
    BY <1>1, <2>2
  <2>4. \A i \in m..Len(s) : s[i] \in S
    BY <1>1, <2>3
  <2>5. /\ t \in Seq(S) /\ Len(t) = n
        /\ \A i \in 1..n : t[i] = s[m + i - 1]
    <3>1. CASE m <= Len(s)
      BY <2>3, <2>4, <3>1, SubSeqProperties
    <3>2. CASE ~(m <= Len(s))
      <4>1. n = 0 /\ m > Len(s)
        BY <1>1, <2>3, <3>2
      <4>2. t = <<>>
        BY <1>1, <2>3, <4>1, SubSeqEmpty
      <4>3. QED
        BY <4>1, <4>2
    <3>3. QED
      BY <3>1, <3>2
  <2> HIDE DEF t
  <2>6. DOMAIN t = 1..n
    BY <2>5
  <2>7. \A i \in 1..n : m + i - 1 = i + Len(s) - n
    BY <1>1, <2>2
  <2>8. EndOf(t, s)
    BY <2>2, <2>5, <2>6, <2>7 DEF EndOf
  <2>9. Fits(t, n)
    BY <2>5 DEF Fits
  <2>10. QED
    BY <1>3, <2>1, <2>5, <2>8, <2>9
<1>4. QED
  BY <1>2, <1>3

LEMMA OldestIs ==
    ASSUME NEW S, NEW s \in Seq(S), NEW n \in Int
    PROVE  Oldest(s, n) \in Seq(S)
<1>1. CASE Fits(s, n)
  BY <1>1 DEF Oldest
<1>2. CASE ~Fits(s, n)
  <2>1. Len(s) \in Nat /\ n >= 0 /\ n < Len(s)
    BY <1>2 DEF Fits
  <2>2. CASE n = 0
    <3>1. SubSeq(s, 1, n) = <<>>
      BY <2>1, <2>2, SubSeqEmpty
    <3>2. <<>> \in Seq(S)
      OBVIOUS
    <3>3. QED
      BY <1>2, <3>1, <3>2 DEF Oldest
  <2>3. CASE n # 0
    <3>1. \A i \in 1..n : s[i] \in S
      BY <2>1
    <3>2. SubSeq(s, 1, n) \in Seq(S)
      BY <2>1, <2>3, <3>1, SubSeqProperties
    <3>3. QED
      BY <1>2, <3>2 DEF Oldest
  <2>4. QED
    BY <2>2, <2>3
<1>3. QED
  BY <1>1, <1>2

LEMMA EndOfTrans ==
    ASSUME NEW S, NEW r \in Seq(S), NEW t \in Seq(S), NEW s \in Seq(S), EndOf(r, t), EndOf(t, s)
    PROVE  EndOf(r, s)
<1>1. /\ Len(r) \in Nat /\ Len(t) \in Nat /\ Len(s) \in Nat
      /\ Len(r) <= Len(t) /\ Len(t) <= Len(s)
      /\ DOMAIN r = 1..Len(r) /\ DOMAIN t = 1..Len(t)
  BY DEF EndOf
<1>2. ASSUME NEW i \in DOMAIN r
      PROVE  r[i] = s[i + Len(s) - Len(r)]
  <2>1. PICK j : j = i + Len(t) - Len(r)
    OBVIOUS
  <2>2. i \in Nat /\ j \in DOMAIN t /\ j + Len(s) - Len(t) = i + Len(s) - Len(r)
    BY <1>1, <2>1
  <2>3. r[i] = t[j] /\ t[j] = s[j + Len(s) - Len(t)]
    BY <2>1, <2>2 DEF EndOf
  <2>4. QED
    BY <2>2, <2>3
<1>3. QED
  BY <1>1, <1>2 DEF EndOf

LEMMA AppendEnd ==
    ASSUME NEW S, NEW t \in Seq(S), NEW s \in Seq(S), NEW m \in S, EndOf(t, s)
    PROVE  EndOf(Append(t, m), Append(s, m))
<1>1. PICK a : a = Append(t, m)
  OBVIOUS
<1>2. PICK b : b = Append(s, m)
  OBVIOUS
<1>3. /\ Len(t) \in Nat /\ Len(s) \in Nat /\ Len(t) <= Len(s) /\ DOMAIN t = 1..Len(t)
  BY DEF EndOf
<1>4. /\ Len(a) = Len(t) + 1 /\ DOMAIN a = 1..(Len(t) + 1) /\ a[Len(t) + 1] = m
      /\ \A i \in 1..Len(t) : a[i] = t[i]
  BY <1>1, <1>3, AppendProperties
<1>5. /\ Len(b) = Len(s) + 1 /\ b[Len(s) + 1] = m
      /\ \A i \in 1..Len(s) : b[i] = s[i]
  BY <1>2, <1>3, AppendProperties
<1>6. ASSUME NEW i \in DOMAIN a
      PROVE  a[i] = b[i + Len(b) - Len(a)]
  <2>1. PICK n : n = i + Len(b) - Len(a)
    OBVIOUS
  <2>2. i \in Nat /\ n = i + Len(s) - Len(t)
    BY <1>3, <1>4, <1>5, <2>1
  <2>3. CASE i = Len(t) + 1
    <3>1. n = Len(s) + 1
      BY <1>3, <2>2, <2>3
    <3>2. QED
      BY <1>4, <1>5, <2>1, <2>3, <3>1
  <2>4. CASE i # Len(t) + 1
    <3>1. i \in 1..Len(t) /\ n \in 1..Len(s)
      BY <1>3, <1>4, <2>2, <2>4
    <3>2. a[i] = t[i] /\ b[n] = s[n] /\ t[i] = s[n]
      BY <1>3, <1>4, <1>5, <2>2, <3>1 DEF EndOf
    <3>3. QED
      BY <2>1, <3>2
  <2>5. QED
    BY <2>3, <2>4
<1>7. Len(a) <= Len(b)
  BY <1>3, <1>4, <1>5
<1>8. QED
  BY <1>1, <1>2, <1>6, <1>7 DEF EndOf

\* What append_message leaves of the rows t.
LEMMA AppendTrims ==
    ASSUME NEW S, NEW t \in Seq(S), NEW s \in Seq(S), NEW m \in S, NEW n \in Int, NEW c,
           Shows(t, s, n, c)
    PROVE  /\ Latest(Append(t, m), n) \in Seq(S)
           /\ Shows(Latest(Append(t, m), n), Append(s, m), n, IF c = "none" THEN "none" ELSE "other")
<1>1. PICK a \in Seq(S) : a = Append(t, m)
  BY AppendProperties
<1>2. PICK b \in Seq(S) : b = Append(s, m)
  BY AppendProperties
<1>3. /\ Latest(a, n) \in Seq(S) /\ Fits(Latest(a, n), n) /\ EndOf(Latest(a, n), a)
      /\ Len(Latest(a, n)) = IF Fits(a, n) THEN Len(a) ELSE n
  BY LatestIs
<1>4. EndOf(a, b)
  BY <1>1, <1>2, AppendEnd DEF Shows
<1>5. EndOf(Latest(a, n), b)
  BY <1>3, <1>4, EndOfTrans
<1>6. Len(a) = Len(t) + 1 /\ Len(b) = Len(s) + 1 /\ Len(t) \in Nat /\ Len(s) \in Nat
  BY <1>1, <1>2, AppendProperties
<1>7. c = "none" => Len(Latest(a, n)) \in {Len(b), n}
  <2>1. SUFFICES ASSUME c = "none" PROVE Len(Latest(a, n)) \in {Len(b), n}
    OBVIOUS
  <2>2. Len(t) = Len(s) \/ Len(t) = n
    BY <2>1 DEF Shows
  <2>3. Len(t) = n => ~Fits(a, n)
    BY <1>6 DEF Fits
  <2>4. QED
    BY <1>3, <1>6, <2>2, <2>3
<1>8. QED
  BY <1>1, <1>2, <1>3, <1>5, <1>7 DEF Shows

\* get_history leaves no row out, unless the limit was lowered.
LEMMA HistoryIsAll ==
    ASSUME ChatTypes, Windows, NEW k \in Chats
    PROVE  /\ messages[k] \in Seq(Msg) /\ spoken[k] \in Seq(Msg) /\ History(k) \in Seq(Msg)
           /\ change[k] # "lowered" => History(k) = messages[k]
<1>1. messages[k] \in Seq(Msg) /\ spoken[k] \in Seq(Msg) /\ limit \in Int
  BY LimitIs DEF ChatTypes
<1>2. History(k) \in Seq(Msg)
  BY <1>1, OldestIs DEF History
<1>3. change[k] # "lowered" => History(k) = messages[k]
  BY DEF History, Windows, Shows, Oldest
<1>4. QED
  BY <1>1, <1>2, <1>3

\* What the end of a sequence of whole turns is made of.
Paired(h, i) ==
    \/ /\ h[i].role = "user" /\ i + 1 \in DOMAIN h
       /\ h[i + 1].role = "assistant" /\ h[i + 1].turn = h[i].turn
    \/ /\ h[i].role = "assistant"
       /\ i = 1 \/ (h[i - 1].role = "user" /\ h[i - 1].turn = h[i].turn)

LEMMA WindowOfTurns ==
    ASSUME NEW s \in Seq(Msg), Answered(s), Len(s) % 2 = 0, NEW h \in Seq(Msg), EndOf(h, s),
           NEW i \in DOMAIN h
    PROVE  Paired(h, i)
<1>1. /\ Len(h) \in Nat /\ Len(s) \in Nat /\ DOMAIN h = 1..Len(h) /\ DOMAIN s = 1..Len(s)
      /\ Len(h) <= Len(s)
  BY DEF EndOf
<1>2. \A x \in DOMAIN h : h[x] = s[x + Len(s) - Len(h)]
  BY DEF EndOf
<1>3. PICK j : j = i + Len(s) - Len(h)
  OBVIOUS
<1>4. i \in Nat /\ i >= 1 /\ i <= Len(h) /\ j \in Nat /\ j >= 1 /\ j <= Len(s) /\ j >= i
  BY <1>1, <1>3
<1>5. h[i] = s[j]
  BY <1>2, <1>3
<1>6. CASE j % 2 = 1
  <2>1. j # Len(s)
    BY <1>6
  <2>2. i + 1 \in DOMAIN h /\ j \in DOMAIN s /\ j + 1 \in DOMAIN s
    BY <1>1, <1>3, <1>4, <2>1
  <2>3. (i + 1) + Len(s) - Len(h) = j + 1
    BY <1>1, <1>3, <1>4
  <2>4. h[i + 1] = s[j + 1]
    BY <1>2, <2>2, <2>3
  <2>5. s[j].role = "user" /\ s[j + 1].role = "assistant" /\ s[j + 1].turn = s[j].turn
    BY <1>6, <2>2 DEF Answered
  <2>6. QED
    BY <1>5, <2>2, <2>4, <2>5 DEF Paired
<1>7. CASE j % 2 # 1
  <2>1. PICK p \in Nat : p = j - 1
    BY <1>4
  <2>2. p % 2 = 1 /\ p >= 1 /\ p <= Len(s) /\ p + 1 = j
    BY <1>1, <1>4, <1>7, <2>1
  <2>3. p \in DOMAIN s /\ p + 1 \in DOMAIN s
    BY <1>1, <1>4, <2>2
  <2>4. s[p].role = "user" /\ s[j].role = "assistant" /\ s[j].turn = s[p].turn
    BY <2>2, <2>3 DEF Answered
  <2>5. CASE i = 1
    BY <1>5, <2>4, <2>5 DEF Paired
  <2>6. CASE i # 1
    <3>1. i - 1 \in DOMAIN h /\ (i - 1) + Len(s) - Len(h) = p
      BY <1>1, <1>3, <1>4, <2>1, <2>6
    <3>2. h[i - 1] = s[p]
      BY <1>2, <3>1
    <3>3. QED
      BY <1>5, <2>4, <3>2 DEF Paired
  <2>7. QED
    BY <2>5, <2>6
<1>8. QED
  BY <1>6, <1>7

LEMMA UpdateIs ==
    ASSUME ChatTypes, NEW u \in Handlers, Step(u) # "none"
    PROVE  update[u] \in UpdateRec /\ update[u].chat \in Chats /\ update[u].no \in Nat
<1>1. update[u] \in UpdateRec
  BY DEF ChatTypes, Step, Resting
<1>2. QED
  BY <1>1 DEF UpdateRec

LEMMA UpdateMoves ==
    ASSUME ChatTypes, NEW u \in Handlers, NEW r \in UpdateRec \cup {Resting},
           update' = [update EXCEPT ![u] = r]
    PROVE  /\ update' \in [Handlers -> UpdateRec \cup {Resting}] /\ update'[u] = r
           /\ \A v \in Handlers : v # u => update'[v] = update[v]
BY DEF ChatTypes

\* A step from one stage aside to another.
LEMMA HalfwayStays ==
    ASSUME ChatTypes, NEW u \in Handlers, NEW r \in UpdateRec \cup {Resting},
           update' = [update EXCEPT ![u] = r], Step(u) # "reply", r.stage # "reply",
           NEW k \in Chats
    PROVE  /\ Halfway(k)' <=> Halfway(k)
           /\ spoken'[k] = spoken[k] /\ (mixed[k] => mixed'[k]) /\ TurnsKept(k) => TurnsKept(k)'
           /\ spoken'[k] = <<>> /\ mixed'[k] = Halfway(k) => TurnsKept(k)'
<1>1. update'[u] = r /\ \A v \in Handlers : v # u => update'[v] = update[v]
  BY UpdateMoves
<1>2. ASSUME NEW v \in Handlers
      PROVE  (On(v, k) /\ Step(v) = "reply")' <=> (On(v, k) /\ Step(v) = "reply")
  <2>1. CASE v = u
    BY <1>1, <2>1 DEF On, Step
  <2>2. CASE v # u
    BY <1>1, <2>2 DEF On, Step
  <2>3. QED
    BY <2>1, <2>2
<1>3. Halfway(k)' <=> Halfway(k)
  BY <1>2 DEF Halfway
<1>4. ASSUME spoken'[k] = spoken[k], mixed[k] => mixed'[k], TurnsKept(k)
      PROVE  TurnsKept(k)'
  <2>1. CASE mixed[k]
    BY <1>4, <2>1 DEF TurnsKept
  <2>2. CASE ~mixed[k]
    <3>1. Answered(spoken'[k])
      BY <1>4, <2>2 DEF TurnsKept
    <3>2. CASE ~Halfway(k) /\ Len(spoken[k]) % 2 = 0
      BY <1>3, <1>4, <3>1, <3>2 DEF TurnsKept
    <3>3. ASSUME NEW v \in Handlers, HalfwayBy(v, k)
          PROVE  HalfwayBy(v, k)'
      <4>1. v # u
        BY <3>3 DEF HalfwayBy
      <4>2. update'[v] = update[v]
        BY <1>1, <4>1
      <4>3. (On(v, k) /\ Step(v) = "reply")'
        BY <1>2, <3>3 DEF HalfwayBy
      <4>4. \A w \in Handlers : (On(w, k) /\ Step(w) = "reply")' => w = v
        BY <1>2, <3>3 DEF HalfwayBy
      <4>5. Len(spoken'[k]) % 2 = 1 /\ spoken'[k][Len(spoken'[k])].turn = update'[v].no
        BY <1>4, <3>3, <4>2 DEF HalfwayBy
      <4>6. QED
        BY <4>3, <4>4, <4>5 DEF HalfwayBy
    <3>4. QED
      BY <1>4, <2>2, <3>1, <3>2, <3>3 DEF TurnsKept
  <2>3. QED
    BY <2>1, <2>2
<1>5. ASSUME spoken'[k] = <<>>, mixed'[k] = Halfway(k)
      PROVE  TurnsKept(k)'
  <2>1. Answered(<<>>) /\ Len(<<>>) % 2 = 0
    BY DEF Answered
  <2>2. QED
    BY <1>3, <1>5, <2>1 DEF TurnsKept
<1>6. QED
  BY <1>3, <1>4, <1>5

\* A step of one update that appends nothing.
LEMMA AsideKeeps ==
    ASSUME ChatInv, NEW u \in Handlers, NEW r \in UpdateRec \cup {Resting},
           update' = [update EXCEPT ![u] = r], Step(u) # "reply", r.stage # "reply",
           UNCHANGED <<limit, change, messages, spoken, mixed>>, handled' \in Nat
    PROVE  ChatInv'
<1>1. ChatTypes
  BY DEF ChatInv
<1>2. update' \in [Handlers -> UpdateRec \cup {Resting}]
  BY <1>1, UpdateMoves
<1>3. ChatTypes' /\ Windows'
  BY <1>2 DEF ChatInv, ChatTypes, Windows
<1>4. \A k \in Chats : TurnsKept(k)'
  BY <1>1, HalfwayStays DEF ChatInv
<1>5. QED
  BY <1>3, <1>4 DEF ChatInv

LEMMA ArriveKeeps ==
    ASSUME ChatInv, NEW u \in Handlers, NEW k \in Chats, NEW way \in Ways,
           Arrive(u, k, way)
    PROVE  ChatInv'
<1> DEFINE r == [stage |-> way, way |-> way, chat |-> k, no |-> handled + 1]
<1>1. /\ Step(u) = "none" /\ handled' = handled + 1 /\ update' = [update EXCEPT ![u] = r]
      /\ UNCHANGED <<limit, change, messages, spoken, mixed>>
  BY DEF Arrive
<1>2. handled \in Nat
  BY DEF ChatInv, ChatTypes
<1>3. r \in UpdateRec /\ r.stage # "reply"
  BY <1>2 DEF UpdateRec, Aside, Ways
<1> HIDE DEF r
<1>4. Step(u) # "reply" /\ handled' \in Nat /\ r \in UpdateRec \cup {Resting}
  BY <1>1, <1>2, <1>3
<1>5. QED
  BY <1>1, <1>3, <1>4, AsideKeeps

\* Of an update only the stage changes.
LEMMA StageMoves ==
    ASSUME ChatInv, NEW u \in Handlers, Step(u) # "none", NEW stage \in Aside \cup {"reply"},
           NEW r, r = [update[u] EXCEPT !.stage = stage]
    PROVE  r \in UpdateRec /\ r.stage = stage /\ r.chat = update[u].chat /\ r.no = update[u].no
<1>1. update[u] \in UpdateRec
  BY UpdateIs DEF ChatInv
<1>2. QED
  BY <1>1 DEF UpdateRec

\* Distill, Transcribe and MakeNote.
LEMMA StageKeeps ==
    ASSUME ChatInv, NEW u \in Handlers, Step(u) \notin {"none", "reply"}, NEW stage \in Aside,
           update' = [update EXCEPT ![u].stage = stage],
           UNCHANGED <<limit, change, messages, spoken, mixed, handled>>
    PROVE  ChatInv'
<1>1. PICK r : r = [update[u] EXCEPT !.stage = stage]
  OBVIOUS
<1>2. r \in UpdateRec /\ r.stage = stage
  BY <1>1, StageMoves
<1>3. update' = [update EXCEPT ![u] = r]
  BY <1>1
<1>4. r.stage # "reply" /\ handled' \in Nat
  BY <1>2 DEF Aside, Ways, ChatInv, ChatTypes
<1>5. QED
  BY <1>2, <1>3, <1>4, AsideKeeps

LEMMA DistillKeeps ==
    ASSUME ChatInv, NEW u \in Handlers, Distill(u) \/ Transcribe(u)
    PROVE  ChatInv'
<1>1. PICK stage \in Aside : update' = [update EXCEPT ![u].stage = stage]
  BY DEF Distill, Transcribe, Aside, Ways
<1>2. QED
  BY <1>1, StageKeeps DEF Distill, Transcribe

LEMMA MakeNoteKeeps ==
    ASSUME ChatInv, NEW u \in Handlers, MakeNote(u)
    PROVE  ChatInv'
<1>1. PICK stage \in {"clear", "end"} : update' = [update EXCEPT ![u].stage = stage]
  BY DEF MakeNote
<1>2. stage \in Aside
  BY DEF Aside
<1>3. QED
  BY <1>1, <1>2, StageKeeps DEF MakeNote

LEMMA EndKeeps ==
    ASSUME ChatInv, NEW u \in Handlers, End(u)
    PROVE  ChatInv'
<1> DEFINE k == update[u].chat
<1>1. /\ Step(u) # "none" /\ update' = [update EXCEPT ![u] = Resting]
      /\ mixed' = [mixed EXCEPT ![k] = mixed[k] \/ Step(u) = "reply"]
      /\ UNCHANGED <<limit, change, messages, spoken, handled>>
  BY DEF End
<1>2. k \in Chats /\ ChatTypes /\ mixed[k] \in BOOLEAN /\ Resting.stage = "none"
  BY <1>1, UpdateIs DEF ChatInv, ChatTypes, Resting
<1>3. CASE Step(u) # "reply"
  <2>1. mixed' = mixed
    BY <1>1, <1>2, <1>3 DEF ChatTypes
  <2>2. QED
    BY <1>1, <1>2, <1>3, <2>1, AsideKeeps DEF ChatTypes
<1>4. CASE Step(u) = "reply"
  <2>1. /\ update' \in [Handlers -> UpdateRec \cup {Resting}] /\ update'[u] = Resting
        /\ \A v \in Handlers : v # u => update'[v] = update[v]
    BY <1>1, <1>2, UpdateMoves
  <2>2. mixed' \in [Chats -> BOOLEAN] /\ mixed'[k] = TRUE /\ \A j \in Chats : j # k => mixed'[j] = mixed[j]
    BY <1>1, <1>2, <1>4 DEF ChatTypes
  <2>3. ChatTypes' /\ Windows'
    BY <1>1, <2>1, <2>2 DEF ChatInv, ChatTypes, Windows
  <2>4. ASSUME NEW j \in Chats
        PROVE  TurnsKept(j)'
    <3>1. CASE j = k
      BY <2>2, <3>1 DEF TurnsKept
    <3>2. CASE j # k
      <4>1. ~On(u, j) /\ ~On(u, j)'
        BY <1>2, <2>1, <3>2 DEF On, Step
      <4>2. ASSUME NEW v \in Handlers
            PROVE  (On(v, j) /\ Step(v) = "reply")' <=> (On(v, j) /\ Step(v) = "reply")
        BY <2>1, <4>1 DEF On, Step
      <4>3. Halfway(j)' <=> Halfway(j)
        BY <4>2 DEF Halfway
      <4>4. ASSUME NEW v \in Handlers, HalfwayBy(v, j)
            PROVE  HalfwayBy(v, j)'
        <5>1. v # u /\ update'[v] = update[v]
          BY <2>1, <4>1, <4>4 DEF HalfwayBy
        <5>2. QED
          BY <1>1, <4>2, <4>4, <5>1 DEF HalfwayBy
      <4>5. TurnsKept(j) /\ mixed'[j] = mixed[j] /\ spoken'[j] = spoken[j]
        BY <1>1, <2>2, <3>2 DEF ChatInv
      <4>6. QED
        BY <4>3, <4>4, <4>5 DEF TurnsKept
    <3>3. QED
      BY <3>1, <3>2
  <2>5. QED
    BY <2>3, <2>4 DEF ChatInv
<1>5. QED
  BY <1>3, <1>4

LEMMA WipeKeeps ==
    ASSUME ChatTypes, Windows, NEW k \in Chats, Wipe(k), limit' = limit
    PROVE  /\ messages' \in [Chats -> Seq(Msg)] /\ spoken' \in [Chats -> Seq(Msg)]
           /\ mixed' \in [Chats -> BOOLEAN] /\ change' \in [Chats -> {"none", "lowered", "other"}]
           /\ Windows'
           /\ spoken'[k] = <<>> /\ mixed'[k] = Halfway(k)
           /\ \A j \in Chats : j # k => spoken'[j] = spoken[j] /\ mixed'[j] = mixed[j]
<1>1. /\ messages' = [messages EXCEPT ![k] = <<>>] /\ spoken' = [spoken EXCEPT ![k] = <<>>]
      /\ change' = [change EXCEPT ![k] = "none"]
      /\ mixed' = [mixed EXCEPT ![k] = Halfway(k)]
  BY DEF Wipe
<1>2. <<>> \in Seq(Msg) /\ Halfway(k) \in BOOLEAN
  BY DEF Halfway
<1>3. /\ messages' \in [Chats -> Seq(Msg)] /\ spoken' \in [Chats -> Seq(Msg)]
      /\ messages'[k] = <<>> /\ spoken'[k] = <<>>
      /\ \A j \in Chats : j # k => spoken'[j] = spoken[j] /\ messages'[j] = messages[j]
  BY <1>1, <1>2 DEF ChatTypes
<1>4. /\ mixed' \in [Chats -> BOOLEAN] /\ mixed'[k] = Halfway(k)
      /\ \A j \in Chats : j # k => mixed'[j] = mixed[j]
  BY <1>1, <1>2 DEF ChatTypes
<1>5. /\ change' \in [Chats -> {"none", "lowered", "other"}] /\ change'[k] = "none"
      /\ \A j \in Chats : j # k => change'[j] = change[j]
  BY <1>1 DEF ChatTypes
<1>6. Shows(<<>>, <<>>, limit, "none")
  <2>1. limit \in Int /\ Len(<<>>) = 0 /\ DOMAIN <<>> = {}
    BY LimitIs
  <2>2. EndOf(<<>>, <<>>)
    BY <2>1 DEF EndOf
  <2>3. Fits(<<>>, limit)
    BY <2>1 DEF Fits
  <2>4. QED
    BY <2>2, <2>3 DEF Shows
<1>7. ASSUME NEW j \in Chats
      PROVE  Shows(messages'[j], spoken'[j], limit', change'[j])
  <2>1. CASE j = k
    BY <1>3, <1>5, <1>6, <2>1
  <2>2. CASE j # k
    <3>1. messages'[j] = messages[j] /\ spoken'[j] = spoken[j] /\ change'[j] = change[j]
      BY <1>3, <1>5, <2>2
    <3>2. Shows(messages[j], spoken[j], limit, change[j])
      BY DEF Windows
    <3>3. QED
      BY <3>1, <3>2
  <2>3. QED
    BY <2>1, <2>2
<1>8. Windows'
  BY <1>7 DEF Windows
<1>9. QED
  BY <1>3, <1>4, <1>5, <1>8

LEMMA ClearHistoryKeeps ==
    ASSUME ChatInv, NEW u \in Handlers, ClearHistory(u)
    PROVE  ChatInv'
<1>1. PICK k : k = update[u].chat
  OBVIOUS
<1>2. PICK r : r = [update[u] EXCEPT !.stage = "end"]
  OBVIOUS
<1>3. /\ Step(u) = "clear" /\ Wipe(k) /\ update' = [update EXCEPT ![u] = r]
      /\ UNCHANGED <<limit, handled>>
  BY <1>1, <1>2 DEF ClearHistory
<1>4. k \in Chats /\ ChatTypes /\ Windows
  BY <1>1, <1>3, UpdateIs DEF ChatInv
<1>5. r \in UpdateRec /\ r.stage = "end"
  <2>1. "end" \in Aside \cup {"reply"} /\ Step(u) # "none"
    BY <1>3 DEF Aside
  <2>2. QED
    BY <1>2, <2>1, StageMoves
<1>6. update' \in [Handlers -> UpdateRec \cup {Resting}]
  BY <1>3, <1>4, <1>5, UpdateMoves
<1>7. /\ messages' \in [Chats -> Seq(Msg)] /\ spoken' \in [Chats -> Seq(Msg)]
      /\ mixed' \in [Chats -> BOOLEAN] /\ change' \in [Chats -> {"none", "lowered", "other"}]
      /\ Windows'
      /\ spoken'[k] = <<>> /\ mixed'[k] = Halfway(k)
      /\ \A j \in Chats : j # k => spoken'[j] = spoken[j] /\ mixed'[j] = mixed[j]
  BY <1>3, <1>4, WipeKeeps
<1>8. ChatTypes'
  BY <1>3, <1>4, <1>6, <1>7 DEF ChatTypes
<1>9. ASSUME NEW j \in Chats
      PROVE  TurnsKept(j)'
  <2>1. r \in UpdateRec \cup {Resting} /\ Step(u) # "reply" /\ r.stage # "reply" /\ TurnsKept(j)
    BY <1>3, <1>5 DEF ChatInv
  <2>2. CASE j = k
    BY <1>3, <1>4, <1>7, <2>1, <2>2, HalfwayStays
  <2>3. CASE j # k
    BY <1>3, <1>4, <1>7, <2>1, <2>3, HalfwayStays
  <2>4. QED
    BY <2>2, <2>3
<1>10. QED
  BY <1>7, <1>8, <1>9 DEF ChatInv

LEMMA ResetKeeps ==
    ASSUME ChatInv, NEW k \in Chats, Reset(k)
    PROVE  ChatInv'
<1>1. Wipe(k) /\ handled' = handled + 1 /\ UNCHANGED <<limit, update>>
  BY DEF Reset
<1>2. ChatTypes /\ Windows
  BY DEF ChatInv
<1>3. /\ messages' \in [Chats -> Seq(Msg)] /\ spoken' \in [Chats -> Seq(Msg)]
      /\ mixed' \in [Chats -> BOOLEAN] /\ change' \in [Chats -> {"none", "lowered", "other"}]
      /\ Windows'
      /\ spoken'[k] = <<>> /\ mixed'[k] = Halfway(k)
      /\ \A j \in Chats : j # k => spoken'[j] = spoken[j] /\ mixed'[j] = mixed[j]
  BY <1>1, <1>2, WipeKeeps
<1>4. ChatTypes'
  BY <1>1, <1>2, <1>3 DEF ChatTypes
<1>5. ASSUME NEW j \in Chats
      PROVE  TurnsKept(j)'
  <2>1. Halfway(j)' = Halfway(j)
    BY <1>1 DEF Halfway, On, Step
  <2>2. CASE j = k
    <3>1. Answered(<<>>) /\ Len(<<>>) % 2 = 0
      BY DEF Answered
    <3>2. QED
      BY <1>3, <2>1, <2>2, <3>1 DEF TurnsKept
  <2>3. CASE j # k
    <3>1. TurnsKept(j) /\ spoken'[j] = spoken[j] /\ mixed'[j] = mixed[j]
      BY <1>3, <2>3 DEF ChatInv
    <3>2. \A v \in Handlers : HalfwayBy(v, j) => HalfwayBy(v, j)'
      BY <1>1, <3>1 DEF HalfwayBy, On, Step
    <3>3. QED
      BY <2>1, <3>1, <3>2 DEF TurnsKept
  <2>4. QED
    BY <2>2, <2>3
<1>6. QED
  BY <1>3, <1>4, <1>5 DEF ChatInv

\* Rows that fit below a limit fit below one that is not lower.
LEMMA SetLimitKeeps ==
    ASSUME ChatInv, NEW n \in Limits, SetLimit(n)
    PROVE  ChatInv'
<1>1. /\ handled' = handled + 1 /\ limit' = n /\ UNCHANGED <<messages, spoken, update, mixed>>
      /\ change' = [k \in Chats |-> IF Smaller(n, limit) \/ change[k] = "lowered" THEN "lowered"
                                    ELSE "other"]
  BY DEF SetLimit
<1>2. ChatTypes /\ Windows /\ limit \in Int /\ n \in Int
  BY LimitIs, ChatAssumption DEF ChatInv
<1>3. ChatTypes'
  BY <1>1, <1>2 DEF ChatTypes
<1>4. ASSUME NEW k \in Chats
      PROVE  Shows(messages[k], spoken[k], n, change'[k])
  <2>1. messages[k] \in Seq(Msg) /\ Len(messages[k]) \in Nat
    BY <1>2 DEF ChatTypes
  <2>2. EndOf(messages[k], spoken[k]) /\ (change[k] # "lowered" => Fits(messages[k], limit))
    BY <1>2 DEF Windows, Shows
  <2>3. change'[k] = IF Smaller(n, limit) \/ change[k] = "lowered" THEN "lowered" ELSE "other"
    BY <1>1
  <2>4. CASE Smaller(n, limit) \/ change[k] = "lowered"
    BY <2>2, <2>3, <2>4 DEF Shows
  <2>5. CASE ~Smaller(n, limit) /\ change[k] # "lowered"
    <3>1. Fits(messages[k], n)
      BY <1>2, <2>1, <2>2, <2>5 DEF Fits, Smaller
    <3>2. QED
      BY <2>2, <2>3, <2>5, <3>1 DEF Shows
  <2>6. QED
    BY <2>4, <2>5
<1>5. Windows'
  BY <1>1, <1>4 DEF Windows
<1>6. ASSUME NEW k \in Chats
      PROVE  TurnsKept(k)'
  <2>1. UNCHANGED <<spoken, update, mixed>> /\ TurnsKept(k)
    BY <1>1 DEF ChatInv
  <2>2. Halfway(k)' <=> Halfway(k)
    BY <2>1 DEF Halfway, On, Step
  <2>3. \A u \in Handlers : HalfwayBy(u, k) => HalfwayBy(u, k)'
    BY <2>1 DEF HalfwayBy, On, Step
  <2>4. QED
    BY <2>1, <2>2, <2>3 DEF TurnsKept
<1>7. QED
  BY <1>3, <1>5, <1>6 DEF ChatInv

\* One message more.
LEMMA AppendKeeps ==
    ASSUME ChatInv, NEW u \in Handlers, NEW role \in {"user", "assistant"},
           NEW stage \in {"reply", "end"}, Step(u) # "none", AppendMessage(u, role, stage),
           mixed' \in [Chats -> BOOLEAN]
    PROVE  LET k == update[u].chat
               m == [turn |-> update[u].no, role |-> role]
           IN
           /\ ChatTypes' /\ Windows'
           /\ k \in Chats /\ m \in Msg
           /\ spoken'[k] = Append(spoken[k], m)
           /\ \A j \in Chats : j # k => spoken'[j] = spoken[j]
           /\ Step(u)' = stage /\ update'[u].chat = k /\ update'[u].no = update[u].no
           /\ \A v \in Handlers : v # u => update'[v] = update[v]
<1>1. PICK k : k = update[u].chat
  OBVIOUS
<1>2. PICK m : m = [turn |-> update[u].no, role |-> role]
  OBVIOUS
<1>3. PICK r : r = [update[u] EXCEPT !.stage = stage]
  OBVIOUS
<1>4. /\ messages' = [messages EXCEPT ![k] = Latest(Append(messages[k], m), limit)]
      /\ spoken' = [spoken EXCEPT ![k] = Append(spoken[k], m)]
      /\ change' = [change EXCEPT ![k] = IF change[k] = "none" THEN "none" ELSE "other"]
      /\ update' = [update EXCEPT ![u] = r]
      /\ UNCHANGED <<limit, handled>>
  BY <1>1, <1>2, <1>3 DEF AppendMessage, Trim
<1>5. k \in Chats /\ m \in Msg /\ ChatTypes /\ Windows /\ limit \in Int
  BY <1>1, <1>2, UpdateIs, LimitIs DEF ChatInv, Msg
<1>6. r \in UpdateRec /\ r.stage = stage /\ r.chat = k /\ r.no = update[u].no
  <2>1. stage \in Aside \cup {"reply"}
    BY DEF Aside
  <2>2. QED
    BY <1>1, <1>3, <2>1, StageMoves
<1>7. /\ update' \in [Handlers -> UpdateRec \cup {Resting}] /\ update'[u] = r
      /\ \A v \in Handlers : v # u => update'[v] = update[v]
  BY <1>4, <1>5, <1>6, UpdateMoves
<1>8. PICK t \in Seq(Msg) : t = messages[k]
  BY <1>5 DEF ChatTypes
<1>9. PICK s \in Seq(Msg) : s = spoken[k]
  BY <1>5 DEF ChatTypes
<1>10. Shows(t, s, limit, change[k])
  BY <1>5, <1>8, <1>9 DEF Windows
<1>11. /\ Latest(Append(t, m), limit) \in Seq(Msg)
       /\ Shows(Latest(Append(t, m), limit), Append(s, m), limit,
                 IF change[k] = "none" THEN "none" ELSE "other")
  BY <1>5, <1>10, AppendTrims
<1>12. Append(s, m) \in Seq(Msg)
  BY <1>5
<1>13. /\ messages' \in [Chats -> Seq(Msg)] /\ messages'[k] = Latest(Append(t, m), limit)
       /\ \A j \in Chats : j # k => messages'[j] = messages[j]
  BY <1>4, <1>5, <1>8, <1>11 DEF ChatTypes
<1>14. /\ spoken' \in [Chats -> Seq(Msg)] /\ spoken'[k] = Append(s, m)
       /\ \A j \in Chats : j # k => spoken'[j] = spoken[j]
  BY <1>4, <1>5, <1>9, <1>12 DEF ChatTypes
<1>15. /\ change' \in [Chats -> {"none", "lowered", "other"}]
       /\ change'[k] = IF change[k] = "none" THEN "none" ELSE "other"
       /\ \A j \in Chats : j # k => change'[j] = change[j]
  BY <1>4, <1>5 DEF ChatTypes
<1>16. ASSUME NEW j \in Chats
       PROVE  Shows(messages'[j], spoken'[j], limit', change'[j])
  <2>1. CASE j = k
    BY <1>4, <1>11, <1>13, <1>14, <1>15, <2>1
  <2>2. CASE j # k
    <3>1. /\ messages'[j] = messages[j] /\ spoken'[j] = spoken[j] /\ change'[j] = change[j]
          /\ limit' = limit
      BY <1>4, <1>13, <1>14, <1>15, <2>2
    <3>2. Shows(messages[j], spoken[j], limit, change[j])
      BY <1>5 DEF Windows
    <3>3. QED
      BY <3>1, <3>2
  <2>3. QED
    BY <2>1, <2>2
<1>17. Windows'
  BY <1>16 DEF Windows
<1>18. ChatTypes'
  BY <1>4, <1>5, <1>7, <1>13, <1>14, <1>15 DEF ChatTypes
<1>19. QED
  BY <1>1, <1>2, <1>5, <1>6, <1>7, <1>9, <1>14, <1>17, <1>18 DEF Step

\* The other chats have nothing to do with it.
LEMMA OtherChats ==
    ASSUME ChatInv, NEW u \in Handlers, NEW j \in Chats, Step(u) # "none",
           j # update[u].chat, update'[u].chat = update[u].chat,
           \A v \in Handlers : v # u => update'[v] = update[v],
           spoken'[j] = spoken[j], mixed'[j] = mixed[j]
    PROVE  TurnsKept(j)'
<1>1. ~On(u, j) /\ ~On(u, j)'
  BY DEF On
<1>2. \A v \in Handlers : (On(v, j) /\ Step(v) = "reply")' <=> (On(v, j) /\ Step(v) = "reply")
  BY <1>1 DEF On, Step
<1>3. Halfway(j)' <=> Halfway(j)
  BY <1>2 DEF Halfway
<1>4. ASSUME NEW v \in Handlers, HalfwayBy(v, j)
      PROVE  HalfwayBy(v, j)'
  <2>1. v # u /\ update'[v] = update[v]
    BY <1>1, <1>4 DEF HalfwayBy
  <2>2. QED
    BY <1>2, <1>4, <2>1 DEF HalfwayBy
<1>5. TurnsKept(j)
  BY DEF ChatInv
<1>6. QED
  BY <1>3, <1>4, <1>5 DEF TurnsKept

LEMMA AppendUserKeeps ==
    ASSUME ChatInv, NEW u \in Handlers, AppendUser(u)
    PROVE  ChatInv'
<1>1. Step(u) = "ask" /\ Step(u) # "none" /\ AppendMessage(u, "user", "reply")
  BY DEF AppendUser
<1>2. PICK k \in Chats : k = update[u].chat
  BY <1>1, UpdateIs DEF ChatInv
<1>3. PICK m \in Msg : m = [turn |-> update[u].no, role |-> "user"]
  BY <1>1, UpdateIs DEF ChatInv, Msg
<1>4. /\ mixed' \in [Chats -> BOOLEAN] /\ (mixed'[k] <=> mixed[k] \/ Halfway(k))
      /\ \A j \in Chats : j # k => mixed'[j] = mixed[j]
  BY <1>2 DEF AppendUser, ChatInv, ChatTypes, Halfway
<1>5. /\ ChatTypes' /\ Windows'
      /\ spoken'[k] = Append(spoken[k], m)
      /\ \A j \in Chats : j # k => spoken'[j] = spoken[j]
      /\ Step(u)' = "reply" /\ update'[u].chat = k /\ update'[u].no = update[u].no
      /\ \A v \in Handlers : v # u => update'[v] = update[v]
  BY <1>1, <1>2, <1>3, <1>4, AppendKeeps
<1>6. ASSUME ~mixed'[k]
      PROVE  TurnsKept(k)'
  <2>1. ~mixed[k] /\ ~Halfway(k) /\ TurnsKept(k)
    BY <1>4, <1>6 DEF ChatInv
  <2>2. \A v \in Handlers : ~(On(v, k) /\ Step(v) = "reply")
    BY <2>1 DEF Halfway
  <2>3. PICK s : s = spoken[k]
    OBVIOUS
  <2>4. PICK t : t = spoken'[k]
    OBVIOUS
  <2>5. Answered(s) /\ Len(s) % 2 = 0
    BY <2>1, <2>2, <2>3 DEF TurnsKept, HalfwayBy
  <2>6. s \in Seq(Msg) /\ Len(s) \in Nat /\ DOMAIN s = 1..Len(s)
    BY <2>3 DEF ChatInv, ChatTypes
  <2>7. t = Append(s, m)
    BY <1>5, <2>3, <2>4
  <2>8. /\ Len(t) = Len(s) + 1 /\ DOMAIN t = 1..(Len(s) + 1) /\ t[Len(s) + 1] = m
        /\ \A i \in 1..Len(s) : t[i] = s[i]
    BY <2>6, <2>7, AppendProperties
  <2>9. m.role = "user" /\ m.turn = update[u].no
    BY <1>3
  <2>10. Answered(t)
    <3>1. ASSUME NEW i \in DOMAIN t, i % 2 = 1
          PROVE  /\ t[i].role = "user"
                 /\ i + 1 \in DOMAIN t => t[i + 1].role = "assistant" /\ t[i + 1].turn = t[i].turn
      <4>1. CASE i = Len(s) + 1
        BY <2>6, <2>8, <2>9, <4>1
      <4>2. CASE i # Len(s) + 1
        <5>1. i \in 1..Len(s) /\ i # Len(s)
          BY <2>5, <2>6, <2>8, <3>1, <4>2
        <5>2. i + 1 \in 1..Len(s)
          BY <2>6, <5>1
        <5>3. t[i] = s[i] /\ t[i + 1] = s[i + 1]
          BY <2>8, <5>1, <5>2
        <5>4. s[i].role = "user" /\ s[i + 1].role = "assistant" /\ s[i + 1].turn = s[i].turn
          BY <2>5, <2>6, <3>1, <5>1, <5>2 DEF Answered
        <5>5. QED
          BY <5>3, <5>4
      <4>3. QED
        BY <4>1, <4>2
    <3>2. QED
      BY <3>1 DEF Answered
  <2>11. HalfwayBy(u, k)'
    <3>1. (On(u, k) /\ Step(u) = "reply")'
      BY <1>5 DEF On, Step
    <3>2. Len(t) % 2 = 1
      BY <2>5, <2>6, <2>8
    <3>3. t[Len(t)].turn = update'[u].no
      BY <1>5, <2>6, <2>8, <2>9
    <3>4. \A v \in Handlers : (On(v, k) /\ Step(v) = "reply")' => v = u
      BY <1>5, <2>2 DEF On, Step
    <3>5. QED
      BY <2>4, <3>1, <3>2, <3>3, <3>4 DEF HalfwayBy
  <2>12. QED
    BY <2>4, <2>10, <2>11 DEF TurnsKept
<1>7. ASSUME NEW j \in Chats
      PROVE  TurnsKept(j)'
  <2>1. CASE j = k
    BY <1>6, <2>1 DEF TurnsKept
  <2>2. CASE j # k
    BY <1>1, <1>2, <1>4, <1>5, <2>2, OtherChats
  <2>3. QED
    BY <2>1, <2>2
<1>8. QED
  BY <1>5, <1>7 DEF ChatInv

\* The answer completes the turn: the handler was the only one halfway.
LEMMA AppendAssistantKeeps ==
    ASSUME ChatInv, NEW u \in Handlers, AppendAssistant(u)
    PROVE  ChatInv'
<1>1. Step(u) = "reply" /\ Step(u) # "none" /\ AppendMessage(u, "assistant", "end") /\ mixed' = mixed
  BY DEF AppendAssistant
<1>2. PICK k \in Chats : k = update[u].chat
  BY <1>1, UpdateIs DEF ChatInv
<1>3. PICK m \in Msg : m = [turn |-> update[u].no, role |-> "assistant"]
  BY <1>1, UpdateIs DEF ChatInv, Msg
<1>4. mixed' \in [Chats -> BOOLEAN]
  BY <1>1 DEF ChatInv, ChatTypes
<1>5. /\ ChatTypes' /\ Windows'
      /\ spoken'[k] = Append(spoken[k], m)
      /\ \A j \in Chats : j # k => spoken'[j] = spoken[j]
      /\ Step(u)' = "end" /\ update'[u].chat = k /\ update'[u].no = update[u].no
      /\ \A v \in Handlers : v # u => update'[v] = update[v]
  BY <1>1, <1>2, <1>3, <1>4, AppendKeeps
<1>6. ASSUME ~mixed[k]
      PROVE  TurnsKept(k)'
  <2>1. TurnsKept(k) /\ Halfway(k)
    BY <1>1, <1>2 DEF ChatInv, Halfway, On
  <2>2. PICK w \in Handlers : HalfwayBy(w, k)
    BY <1>6, <2>1 DEF TurnsKept
  <2>3. w = u
    BY <1>1, <1>2, <2>2 DEF HalfwayBy, On
  <2>4. PICK s : s = spoken[k]
    OBVIOUS
  <2>5. PICK t : t = spoken'[k]
    OBVIOUS
  <2>6. Answered(s) /\ Len(s) % 2 = 1 /\ s[Len(s)].turn = update[u].no
    BY <1>6, <2>1, <2>2, <2>3, <2>4 DEF TurnsKept, HalfwayBy
  <2>7. s \in Seq(Msg) /\ Len(s) \in Nat /\ DOMAIN s = 1..Len(s)
    BY <2>4 DEF ChatInv, ChatTypes
  <2>8. t = Append(s, m)
    BY <1>5, <2>4, <2>5
  <2>9. /\ Len(t) = Len(s) + 1 /\ DOMAIN t = 1..(Len(s) + 1) /\ t[Len(s) + 1] = m
        /\ \A i \in 1..Len(s) : t[i] = s[i]
    BY <2>7, <2>8, AppendProperties
  <2>10. m.role = "assistant" /\ m.turn = update[u].no
    BY <1>3
  <2>11. Answered(t)
    <3>1. ASSUME NEW i \in DOMAIN t, i % 2 = 1
          PROVE  /\ t[i].role = "user"
                 /\ i + 1 \in DOMAIN t => t[i + 1].role = "assistant" /\ t[i + 1].turn = t[i].turn
      <4>1. i \in 1..Len(s)
        BY <2>6, <2>7, <2>9, <3>1
      <4>2. t[i] = s[i] /\ s[i].role = "user"
        BY <2>6, <2>7, <2>9, <3>1, <4>1 DEF Answered
      <4>3. CASE i = Len(s)
        BY <2>6, <2>9, <2>10, <4>2, <4>3
      <4>4. CASE i # Len(s)
        <5>1. i + 1 \in 1..Len(s)
          BY <2>7, <4>1, <4>4
        <5>2. t[i + 1] = s[i + 1]
          BY <2>9, <5>1
        <5>3. s[i + 1].role = "assistant" /\ s[i + 1].turn = s[i].turn
          BY <2>6, <2>7, <3>1, <4>1, <5>1 DEF Answered
        <5>4. QED
          BY <4>2, <5>2, <5>3
      <4>5. QED
        BY <4>3, <4>4
    <3>2. QED
      BY <3>1 DEF Answered
  <2>12. ~Halfway(k)'
    BY <1>1, <1>2, <1>5, <2>2, <2>3 DEF Halfway, HalfwayBy, On, Step
  <2>13. Len(t) % 2 = 0
    BY <2>6, <2>7, <2>9
  <2>14. QED
    BY <2>5, <2>11, <2>12, <2>13 DEF TurnsKept
<1>7. ASSUME NEW j \in Chats
      PROVE  TurnsKept(j)'
  <2>1. CASE j = k
    BY <1>1, <1>6, <2>1 DEF TurnsKept
  <2>2. CASE j # k
    BY <1>1, <1>2, <1>5, <2>2, OtherChats
  <2>3. QED
    BY <2>1, <2>2
<1>8. QED
  BY <1>5, <1>7 DEF ChatInv

LEMMA ChatInvInit == ChatInit => ChatInv
<1> SUFFICES ASSUME ChatInit PROVE ChatInv
  OBVIOUS
<1>1. /\ messages = [k \in Chats |-> <<>>] /\ spoken = [k \in Chats |-> <<>>]
      /\ \A u \in Handlers : Step(u) = "none"
  BY DEF ChatInit, Step, Resting
<1>2. ChatTypes
  <2>1. <<>> \in Seq(Msg)
    OBVIOUS
  <2>2. messages \in [Chats -> Seq(Msg)] /\ spoken \in [Chats -> Seq(Msg)]
    BY <1>1, <2>1
  <2>3. update \in [Handlers -> UpdateRec \cup {Resting}] /\ mixed \in [Chats -> BOOLEAN]
    BY DEF ChatInit
  <2>4. QED
    BY <2>2, <2>3 DEF ChatInit, ChatTypes
<1>3. ASSUME NEW k \in Chats
      PROVE  Shows(messages[k], spoken[k], limit, change[k])
  <2>1. messages[k] = <<>> /\ spoken[k] = <<>> /\ limit \in Int
    BY <1>1, <1>2, LimitIs
  <2>2. Len(<<>>) = 0 /\ DOMAIN <<>> = {}
    OBVIOUS
  <2>3. EndOf(<<>>, <<>>)
    BY <2>2 DEF EndOf
  <2>4. Fits(<<>>, limit)
    BY <2>1, <2>2 DEF Fits
  <2>5. QED
    BY <2>1, <2>3, <2>4 DEF Shows
<1>4. Windows
  BY <1>3 DEF Windows
<1>5. ASSUME NEW k \in Chats
      PROVE  TurnsKept(k)
  BY <1>1 DEF TurnsKept, Answered, Halfway, On
<1>6. QED
  BY <1>2, <1>4, <1>5 DEF ChatInv

LEMMA ChatInvStep == ChatInv /\ [ChatNext]_chatVars => ChatInv'
<1> SUFFICES ASSUME ChatInv, [ChatNext]_chatVars PROVE ChatInv'
  OBVIOUS
<1>1. ASSUME NEW u \in Handlers, NEW k \in Chats,
             Turn(u, k) \/ NoteFromText(u, k) \/ NoteFromChat(u, k) \/ Voice(u, k)
      PROVE  ChatInv'
  <2>1. PICK way \in Ways : Arrive(u, k, way)
    BY <1>1 DEF Turn, NoteFromText, NoteFromChat, Voice, Ways
  <2>2. QED
    BY <2>1, ArriveKeeps
<1>2. CASE UNCHANGED chatVars
  <2>1. ChatTypes' /\ Windows'
    BY <1>2 DEF chatVars, ChatInv, ChatTypes, Windows
  <2>2. \A k \in Chats : TurnsKept(k)'
    BY <1>2 DEF chatVars, ChatInv, TurnsKept, Halfway, HalfwayBy, On, Step
  <2>3. QED
    BY <2>1, <2>2 DEF ChatInv
<1>3. QED
  BY <1>1, <1>2, AppendUserKeeps, AppendAssistantKeeps, DistillKeeps, MakeNoteKeeps,
     ClearHistoryKeeps, EndKeeps, ResetKeeps, SetLimitKeeps DEF ChatNext

LEMMA ChatWindow == ChatInv => WindowIsLatest
<1> SUFFICES ASSUME ChatInv, NEW k \in Chats
             PROVE  /\ change[k] # "lowered" => EndOf(History(k), spoken[k])
                    /\ change[k] = "none" => Len(History(k)) \in {Len(spoken[k]), limit}
  BY DEF WindowIsLatest
<1>1. change[k] # "lowered" => History(k) = messages[k]
  BY HistoryIsAll DEF ChatInv
<1>2. Shows(messages[k], spoken[k], limit, change[k])
  BY DEF ChatInv, Windows
<1>3. QED
  BY <1>1, <1>2 DEF Shows

LEMMA ChatWholeTurns == ChatInv => TurnsWhole
<1> SUFFICES ASSUME ChatInv, NEW k \in Chats, ~mixed[k], ~Halfway(k), change[k] # "lowered"
             PROVE  LET h == History(k) IN
                    /\ \A i \in DOMAIN h : Paired(h, i)
                    /\ change[k] = "none" /\ (limit < 0 \/ limit % 2 = 0) => Len(h) % 2 = 0
  BY DEF TurnsWhole, Paired
<1>1. ChatTypes /\ Windows /\ TurnsKept(k) /\ limit \in Int
  BY LimitIs DEF ChatInv
<1>2. Answered(spoken[k]) /\ Len(spoken[k]) % 2 = 0
  BY <1>1 DEF TurnsKept, HalfwayBy, Halfway
<1>3. PICK s \in Seq(Msg) : s = spoken[k]
  BY <1>1, HistoryIsAll
<1>4. PICK h \in Seq(Msg) : h = History(k)
  BY <1>1, HistoryIsAll
<1>5. Shows(h, s, limit, change[k])
  BY <1>1, <1>3, <1>4, HistoryIsAll DEF Windows
<1>6. EndOf(h, s) /\ Answered(s) /\ Len(s) % 2 = 0
  BY <1>2, <1>3, <1>5 DEF Shows
<1>7. ASSUME NEW i \in DOMAIN h
      PROVE  Paired(h, i)
  BY <1>6, WindowOfTurns
<1>8. change[k] = "none" /\ (limit < 0 \/ limit % 2 = 0) => Len(h) % 2 = 0
  <2>1. Len(h) \in Nat /\ (change[k] = "none" => Len(h) = Len(s) \/ Len(h) = limit)
    BY <1>5 DEF Shows
  <2>2. QED
    BY <1>1, <1>6, <2>1
<1>9. QED
  BY <1>4, <1>7, <1>8

\* get_history, which takes the oldest rows, returns the latest of what was said
\* since the chat was cleared, for any limits, also odd, zero and negative ones,
\* set at any moment, unless the limit was lowered since the last message.
THEOREM ChatWindowIsLatest == ChatSpec => []WindowIsLatest
BY ChatInvInit, ChatInvStep, ChatWindow, PTL DEF ChatSpec

\* What the model is given are turns, each question answered right away, unless
\* turns of the chat overlapped or were cut off or the limit was lowered; only
\* the first message may be an answer alone, and with an even limit none is.
THEOREM ChatTurnsWhole == ChatSpec => []TurnsWhole
BY ChatInvInit, ChatInvStep, ChatWholeTurns, PTL DEF ChatSpec

(***************************************************************************)
(* Tasks for agents.  When the daily job looks, no task of the note is     *)
(* open; and what was there at the look can only be finished or lose its   *)
(* note afterwards.  The wish, the row to be created, the proposal and the *)
(* task that come of the look carry this along.                            *)
(***************************************************************************)
TasksSpec == TasksInit /\ [][TasksNext]_taskVars

TaskRow == [note : Topics \cup {Nobody}, status : Open \cup {"completed", "failed"}, look : Nat]
Wish == [note : Topics, look : Nat]
RunRow == [stage : Causes, found : SUBSET Topics, wanted : Seq(Wish), fresh : Seq(TaskRow)]

Cleared(n, k) ==
    /\ k <= Len(tasks)
    /\ \A i \in 1..k : ~(tasks[i].note = n /\ tasks[i].status \in Open)

Looked(x) == x.note # Nobody /\ x.look # NoLook => Cleared(x.note, x.look)

RunLooked(r) ==
    r # NoRun => /\ \A i \in 1..Len(r.wanted) :
                      r.wanted[i].note # Nobody => Cleared(r.wanted[i].note, r.wanted[i].look)
                 /\ \A i \in 1..Len(r.fresh) : Looked(r.fresh[i])

TasksInv ==
    /\ tasks \in Seq(TaskRow) /\ proposals \subseteq Wish /\ run \in RunRow \cup {NoRun}
    /\ \A i \in 1..Len(tasks) : Looked(tasks[i])
    /\ \A p \in proposals : p.note # Nobody => Cleared(p.note, p.look)
    /\ RunLooked(run)

\* What may become of a task.
Aged(x, y) ==
    /\ y.note \in {x.note, Nobody} /\ y.look = x.look
    /\ y.status \in Open => x.status \in Open

Grown(after) ==
    /\ after \in Seq(TaskRow) /\ Len(tasks) <= Len(after)
    /\ \A i \in 1..Len(tasks) : Aged(tasks[i], after[i])
    /\ \A i \in 1..Len(after) : i > Len(tasks) => Looked(after[i])

\* What was cleared stays so.
LEMMA ClearedStays ==
    ASSUME tasks \in Seq(TaskRow), NEW after, Grown(after), tasks' = after,
           NEW n, n # Nobody, NEW k \in Nat, Cleared(n, k)
    PROVE  Cleared(n, k)'
<1>1. Len(tasks) \in Nat /\ Len(after) \in Nat /\ Len(tasks) <= Len(after) /\ k <= Len(tasks)
  BY DEF Grown, Cleared
<1>2. k <= Len(after)
  BY <1>1
<1>3. ASSUME NEW i \in 1..k, after[i].note = n, after[i].status \in Open
      PROVE  FALSE
  <2>1. i \in 1..Len(tasks)
    BY <1>1
  <2>2. Aged(tasks[i], after[i])
    BY <2>1 DEF Grown
  <2>3. tasks[i].note = n /\ tasks[i].status \in Open
    BY <1>3, <2>2 DEF Aged
  <2>4. QED
    BY <2>3 DEF Cleared
<1>4. QED
  BY <1>2, <1>3 DEF Cleared

LEMMA RunStays ==
    ASSUME tasks \in Seq(TaskRow), NEW after, Grown(after), tasks' = after,
           NEW r \in RunRow \cup {NoRun}, RunLooked(r)
    PROVE  RunLooked(r)'
<1> SUFFICES ASSUME r # NoRun
             PROVE  /\ \A i \in 1..Len(r.wanted) :
                         r.wanted[i].note # Nobody => Cleared(r.wanted[i].note, r.wanted[i].look)'
                    /\ \A i \in 1..Len(r.fresh) : Looked(r.fresh[i])'
  BY DEF RunLooked
<1>1. r.wanted \in Seq(Wish) /\ r.fresh \in Seq(TaskRow)
  BY DEF RunRow
<1>2. ASSUME NEW i \in 1..Len(r.wanted), r.wanted[i].note # Nobody
      PROVE  Cleared(r.wanted[i].note, r.wanted[i].look)'
  <2>1. r.wanted[i] \in Wish
    BY <1>1, ElementOfSeq
  <2>2. r.wanted[i].look \in Nat /\ Cleared(r.wanted[i].note, r.wanted[i].look)
    BY <1>2, <2>1 DEF Wish, RunLooked
  <2>3. QED
    BY <1>2, <2>2, ClearedStays
<1>3. ASSUME NEW i \in 1..Len(r.fresh)
      PROVE  Looked(r.fresh[i])'
  <2>1. r.fresh[i] \in TaskRow
    BY <1>1, ElementOfSeq
  <2>2. r.fresh[i].look \in Nat /\ Looked(r.fresh[i])
    BY <2>1 DEF TaskRow, RunLooked
  <2>3. QED
    BY <2>2, ClearedStays DEF Looked, NoLook
<1>4. QED
  BY <1>2, <1>3

\* A step keeps the invariant if the old tasks only age and whatever is new was
\* looked at.
LEMMA TasksMove ==
    ASSUME TasksInv, NEW after, Grown(after), tasks' = after,
           NEW r \in RunRow \cup {NoRun}, RunLooked(r), run' = r,
           NEW ps \in SUBSET Wish, proposals' = ps,
           \A p \in ps : p.note # Nobody => Cleared(p.note, p.look)
    PROVE  TasksInv'
<1>1. tasks \in Seq(TaskRow) /\ after \in Seq(TaskRow) /\ Len(tasks) \in Nat /\ Len(after) \in Nat
  BY DEF TasksInv, Grown
<1>2. ASSUME NEW i \in 1..Len(after)
      PROVE  Looked(after[i])'
  <2>1. after[i] \in TaskRow
    BY <1>1, ElementOfSeq
  <2>2. after[i].look \in Nat
    BY <2>1 DEF TaskRow
  <2>3. Looked(after[i])
    <3>1. CASE i > Len(tasks)
      BY <3>1 DEF Grown
    <3>2. CASE ~(i > Len(tasks))
      <4>1. i \in 1..Len(tasks)
        BY <1>1, <3>2
      <4>2. Aged(tasks[i], after[i]) /\ Looked(tasks[i])
        BY <4>1 DEF Grown, TasksInv
      <4>3. QED
        BY <4>2 DEF Aged, Looked
    <3>3. QED
      BY <3>1, <3>2
  <2>4. QED
    BY <1>1, <2>2, <2>3, ClearedStays DEF Looked, NoLook
<1>3. ASSUME NEW p \in ps, p.note # Nobody
      PROVE  Cleared(p.note, p.look)'
  <2>1. p.look \in Nat /\ Cleared(p.note, p.look)
    BY <1>3 DEF Wish
  <2>2. QED
    BY <1>1, <1>3, <2>1, ClearedStays
<1>4. RunLooked(r)'
  BY <1>1, RunStays
<1>5. QED
  BY <1>1, <1>2, <1>3, <1>4 DEF TasksInv

LEMMA TasksInvInit == TasksInit => TasksInv
<1> SUFFICES ASSUME TasksInit PROVE TasksInv
  OBVIOUS
<1>1. tasks = <<>> /\ proposals = {} /\ run = NoRun
  BY DEF TasksInit
<1>2. tasks \in Seq(TaskRow) /\ Len(tasks) = 0
  BY <1>1, EmptySeq
<1>3. QED
  BY <1>1, <1>2 DEF TasksInv, RunLooked

LEMMA SameTasks ==
    ASSUME TasksInv
    PROVE  /\ Grown(tasks) /\ proposals \in SUBSET Wish /\ RunLooked(run)
           /\ \A p \in proposals : p.note # Nobody => Cleared(p.note, p.look)
BY DEF TasksInv, Grown, Aged

\* New after at the end.
LEMMA GrownByInsert ==
    ASSUME TasksInv, NEW after \in Seq(TaskRow), \A i \in 1..Len(after) : Looked(after[i])
    PROVE  Grown(tasks \o after)
<1> DEFINE c == tasks \o after
<1>1. /\ tasks \in Seq(TaskRow) /\ Len(tasks) \in Nat /\ Len(after) \in Nat
      /\ c \in Seq(TaskRow) /\ Len(c) = Len(tasks) + Len(after)
      /\ \A i \in 1..(Len(tasks) + Len(after)) : c[i] = IF i <= Len(tasks) THEN tasks[i] ELSE after[i - Len(tasks)]
  BY ConcatProperties DEF TasksInv
<1> HIDE DEF c
<1>2. ASSUME NEW i \in 1..Len(tasks)
      PROVE  Aged(tasks[i], c[i])
  <2>1. c[i] = tasks[i]
    BY <1>1
  <2>2. QED
    BY <2>1 DEF Aged
<1>3. ASSUME NEW i \in 1..Len(c), i > Len(tasks)
      PROVE  Looked(c[i])
  <2>1. i - Len(tasks) \in 1..Len(after) /\ c[i] = after[i - Len(tasks)]
    BY <1>1, <1>3
  <2>2. QED
    BY <2>1
<1>4. QED
  BY <1>1, <1>2, <1>3 DEF Grown, c

LEMMA GrownByOne ==
    ASSUME TasksInv, NEW x \in TaskRow, Looked(x)
    PROVE  Grown(tasks \o <<x>>)
<1>1. <<x>> \in Seq(TaskRow) /\ Len(<<x>>) = 1 /\ <<x>>[1] = x
  OBVIOUS
<1>2. \A i \in 1..Len(<<x>>) : Looked(<<x>>[i])
  BY <1>1
<1>3. QED
  BY <1>1, <1>2, GrownByInsert

\* One row changes.
LEMMA GrownByUpdate ==
    ASSUME TasksInv, NEW t, NEW after,
           NEW status \in {"completed", "failed"},
           after = [tasks EXCEPT ![t].status = status]
    PROVE  Grown(after)
<1>1. tasks \in Seq(TaskRow) /\ Len(tasks) \in Nat
  BY DEF TasksInv
<1>2. CASE t \in 1..Len(tasks)
  <2>1. PICK x \in TaskRow : x = [tasks[t] EXCEPT !.status = status]
    <3>1. tasks[t] \in TaskRow
      BY <1>1, <1>2, ElementOfSeq
    <3>2. [tasks[t] EXCEPT !.status = status] \in TaskRow
      BY <3>1 DEF TaskRow
    <3>3. QED
      BY <3>2
  <2>2. Aged(tasks[t], x)
    <3>1. tasks[t] \in TaskRow
      BY <1>1, <1>2, ElementOfSeq
    <3>2. x.note = tasks[t].note /\ x.look = tasks[t].look /\ x.status = status
      BY <2>1, <3>1 DEF TaskRow
    <3>3. status \notin Open
      BY DEF Open
    <3>4. QED
      BY <3>2, <3>3 DEF Aged
  <2>3. after = [tasks EXCEPT ![t] = x]
    BY <2>1
  <2>4. /\ after \in Seq(TaskRow) /\ Len(after) = Len(tasks)
        /\ \A j \in 1..Len(tasks) : after[j] = IF j = t THEN x ELSE tasks[j]
    BY <1>1, <1>2, <2>3, ExceptSeq
  <2>5. \A j \in 1..Len(tasks) : Aged(tasks[j], after[j])
    BY <2>2, <2>4 DEF Aged
  <2>6. QED
    BY <1>1, <2>4, <2>5 DEF Grown
<1>3. CASE t \notin 1..Len(tasks)
  <2>1. after = tasks
    BY <1>1, <1>3
  <2>2. QED
    BY <2>1, SameTasks
<1>4. QED
  BY <1>2, <1>3

LEMMA QueryKeeps ==
    ASSUME TasksInv, NEW why \in Causes, Query(why)
    PROVE  TasksInv'
<1>1. PICK found : found = {n \in Topics \ gone : why \in causes[n]}
  OBVIOUS
<1>2. found \in SUBSET Topics
  BY <1>1
<1>3. tasks' = tasks /\ proposals' = proposals
  BY DEF Query
<1>4. CASE run' = [stage |-> why, found |-> found, wanted |-> <<>>, fresh |-> <<>>]
  <2>1. PICK r : r = [stage |-> why, found |-> found, wanted |-> <<>>, fresh |-> <<>>]
    OBVIOUS
  <2>2. r \in RunRow /\ Len(r.wanted) = 0 /\ Len(r.fresh) = 0
    BY <1>2, <2>1, EmptySeq DEF RunRow
  <2>3. RunLooked(r)
    BY <2>2 DEF RunLooked
  <2>4. run' = r
    BY <1>4, <2>1
  <2>5. QED
    BY <1>3, <2>2, <2>3, <2>4, SameTasks, TasksMove
<1>5. CASE run # NoRun /\ run' = [run EXCEPT !.stage = why, !.found = found]
  <2>1. PICK r : r = [run EXCEPT !.stage = why, !.found = found]
    OBVIOUS
  <2>2. run \in RunRow
    BY <1>5 DEF TasksInv
  <2>3. r \in RunRow /\ r.wanted = run.wanted /\ r.fresh = run.fresh
    BY <1>2, <2>1, <2>2 DEF RunRow
  <2>4. RunLooked(r)
    BY <1>5, <2>3, SameTasks DEF RunLooked
  <2>5. run' = r
    BY <1>5, <2>1
  <2>6. QED
    BY <1>3, <2>3, <2>4, <2>5, SameTasks, TasksMove
<1>6. QED
  BY <1>1, <1>4, <1>5 DEF Query

LEMMA LookKeeps ==
    ASSUME TasksInv, NEW n \in Topics, Look(n)
    PROVE  TasksInv'
<1>1. PICK x : x = Proposal(n, Len(tasks))
  OBVIOUS
<1>2. PICK found : found = run.found \ {n}
  OBVIOUS
<1>3. PICK wanted : wanted = IF HasPending(n) THEN run.wanted ELSE Append(run.wanted, x)
  OBVIOUS
<1>4. PICK r : r = [run EXCEPT !.found = found, !.wanted = wanted]
  OBVIOUS
<1>5. run # NoRun /\ tasks' = tasks /\ proposals' = proposals /\ run' = r
  BY <1>1, <1>2, <1>3, <1>4 DEF Look
<1>6. run \in RunRow /\ tasks \in Seq(TaskRow)
  BY <1>5 DEF TasksInv
<1>7. found \in SUBSET Topics /\ run.wanted \in Seq(Wish) /\ run.fresh \in Seq(TaskRow)
  BY <1>2, <1>6 DEF RunRow
<1>8. x \in Wish /\ x.note = n /\ x.look = Len(tasks)
  BY <1>1, <1>6 DEF Wish, Proposal
<1>9. CASE HasPending(n)
  <2>1. r \in RunRow /\ r.wanted = run.wanted /\ r.fresh = run.fresh
    BY <1>3, <1>4, <1>6, <1>7, <1>9 DEF RunRow
  <2>2. RunLooked(r)
    BY <1>5, <2>1, SameTasks DEF RunLooked
  <2>3. QED
    BY <1>5, <2>1, <2>2, SameTasks, TasksMove
<1>10. CASE ~HasPending(n)
  <2>1. Cleared(n, Len(tasks))
    BY <1>6, <1>10 DEF Cleared, HasPending
  <2>2. /\ wanted \in Seq(Wish) /\ Len(wanted) = Len(run.wanted) + 1
        /\ wanted[Len(run.wanted) + 1] = x
        /\ \A i \in 1..Len(run.wanted) : wanted[i] = run.wanted[i]
    BY <1>3, <1>7, <1>8, <1>10, AppendProperties
  <2>3. r \in RunRow /\ r.wanted = wanted /\ r.fresh = run.fresh
    BY <1>4, <1>6, <1>7, <2>2 DEF RunRow
  <2>4. ASSUME NEW i \in 1..Len(wanted), wanted[i].note # Nobody
        PROVE  Cleared(wanted[i].note, wanted[i].look)
    <3>1. Len(run.wanted) \in Nat
      BY <1>7
    <3>2. CASE i = Len(run.wanted) + 1
      BY <1>8, <2>1, <2>2, <3>2
    <3>3. CASE i # Len(run.wanted) + 1
      <4>1. i \in 1..Len(run.wanted)
        BY <2>2, <3>1, <3>3
      <4>2. wanted[i] = run.wanted[i]
        BY <2>2, <4>1
      <4>3. run.wanted[i].note # Nobody => Cleared(run.wanted[i].note, run.wanted[i].look)
        BY <1>5, <4>1 DEF TasksInv, RunLooked
      <4>4. QED
        BY <2>4, <4>2, <4>3
    <3>4. QED
      BY <3>2, <3>3
  <2>5. \A i \in 1..Len(run.fresh) : Looked(run.fresh[i])
    BY <1>5 DEF TasksInv, RunLooked
  <2>6. RunLooked(r)
    BY <2>3, <2>4, <2>5 DEF RunLooked
  <2>7. QED
    BY <1>5, <2>3, <2>6, SameTasks, TasksMove
<1>11. QED
  BY <1>9, <1>10

\* What a run has to do, and what is left.
LEMMA RestIs ==
    ASSUME TasksInv, Dispatching
    PROVE  /\ run \in RunRow /\ Rest \in RunRow /\ RunLooked(Rest) /\ Rest.fresh = run.fresh
           /\ Head(run.wanted) \in Wish
           /\ Head(run.wanted).note # Nobody => Cleared(Head(run.wanted).note, Head(run.wanted).look)
<1>1. run # NoRun /\ run.wanted # <<>> /\ run \in RunRow
  BY DEF Dispatching, TasksInv
<1>2. run.wanted \in Seq(Wish)
  BY <1>1 DEF RunRow
<1>3. PICK w : w = run.wanted
  OBVIOUS
<1>4. /\ Head(w) \in Wish /\ Tail(w) \in Seq(Wish) /\ Len(Tail(w)) = Len(w) - 1
      /\ \A i \in 1..Len(Tail(w)) : Tail(w)[i] = w[i + 1]
      /\ Len(w) \in Nat /\ Len(w) >= 1 /\ Head(w) = w[1]
  BY <1>1, <1>2, <1>3, HeadTailProperties, EmptySeq
<1>5. \A i \in 1..Len(w) : w[i].note # Nobody => Cleared(w[i].note, w[i].look)
  BY <1>1, <1>3 DEF TasksInv, RunLooked
<1>6. \A i \in 1..Len(run.fresh) : Looked(run.fresh[i])
  BY <1>1 DEF TasksInv, RunLooked
<1>7. Head(w).note # Nobody => Cleared(Head(w).note, Head(w).look)
  <2>1. 1 \in 1..Len(w)
    BY <1>4
  <2>2. QED
    BY <1>4, <1>5, <2>1
<1>8. PICK t : t = Tail(w)
  OBVIOUS
<1>9. Rest = [run EXCEPT !.wanted = t]
  BY <1>3, <1>8 DEF Rest
<1>10. PICK r : r = [run EXCEPT !.wanted = t]
  OBVIOUS
<1>11. r \in RunRow /\ r.wanted = t /\ r.fresh = run.fresh
  BY <1>1, <1>4, <1>8, <1>10 DEF RunRow
<1>12. ASSUME NEW i \in 1..Len(t), t[i].note # Nobody
       PROVE  Cleared(t[i].note, t[i].look)
  <2>1. i + 1 \in 1..Len(w) /\ t[i] = w[i + 1]
    BY <1>4, <1>8
  <2>2. QED
    BY <1>5, <1>12, <2>1
<1>13. RunLooked(r)
  BY <1>6, <1>11, <1>12 DEF RunLooked
<1>14. QED
  BY <1>1, <1>3, <1>4, <1>7, <1>9, <1>10, <1>11, <1>13

LEMMA SuggestKeeps ==
    ASSUME TasksInv, Suggest
    PROVE  TasksInv'
<1>1. /\ Dispatching /\ tasks' = tasks /\ run' = Rest
      /\ proposals' = proposals \cup {Head(run.wanted)} \/ proposals' = proposals
  BY DEF Suggest
<1>2. PICK x : x = Head(run.wanted)
  OBVIOUS
<1>3. x \in Wish /\ (x.note # Nobody => Cleared(x.note, x.look))
  BY <1>1, <1>2, RestIs
<1>4. PICK r \in RunRow : r = Rest /\ RunLooked(r)
  BY <1>1, RestIs
<1>5. PICK ps \in {proposals \cup {x}, proposals} : proposals' = ps
  BY <1>1, <1>2
<1>6. ps \in SUBSET Wish /\ \A p \in ps : p.note # Nobody => Cleared(p.note, p.look)
  BY <1>3, <1>5, SameTasks
<1>7. QED
  BY <1>1, <1>4, <1>5, <1>6, SameTasks, TasksMove

\* The task that comes of a wish.
LEMMA TaskOfWish ==
    ASSUME NEW p \in Wish, p.note # Nobody => Cleared(p.note, p.look)
    PROVE  Task(p.note, p.look) \in TaskRow /\ Looked(Task(p.note, p.look))
BY DEF Task, TaskRow, Wish, Looked, Open

LEMMA CreatePgKeeps ==
    ASSUME TasksInv, CreatePg
    PROVE  TasksInv'
<1>1. Dispatching /\ tasks' = tasks /\ proposals' = proposals
  BY DEF CreatePg
<1>2. PICK x : x = Task(Head(run.wanted).note, Head(run.wanted).look)
  OBVIOUS
<1>3. x \in TaskRow /\ Looked(x)
  BY <1>1, <1>2, RestIs, TaskOfWish
<1>4. PICK s \in RunRow : s = Rest /\ RunLooked(s) /\ s.fresh = run.fresh
  BY <1>1, RestIs
<1>5. CASE run' = NoRun
  <2>1. RunLooked(NoRun)
    BY DEF RunLooked
  <2>2. QED
    BY <1>1, <1>5, <2>1, SameTasks, TasksMove
<1>6. CASE run' # NoRun
  <2>1. PICK f : f = Append(s.fresh, x)
    OBVIOUS
  <2>2. PICK r : r = [s EXCEPT !.fresh = f]
    OBVIOUS
  <2>3. run' = r
    BY <1>2, <1>4, <1>6, <2>1, <2>2 DEF CreatePg
  <2>4. s.fresh \in Seq(TaskRow) /\ Len(s.fresh) \in Nat
    BY <1>4 DEF RunRow
  <2>5. /\ f \in Seq(TaskRow) /\ Len(f) = Len(s.fresh) + 1 /\ f[Len(s.fresh) + 1] = x
        /\ \A i \in 1..Len(s.fresh) : f[i] = s.fresh[i]
    BY <1>3, <2>1, <2>4, AppendProperties
  <2>6. r \in RunRow /\ r.wanted = s.wanted /\ r.fresh = f
    BY <2>2, <2>5 DEF RunRow
  <2>7. s # NoRun
    BY DEF RunRow, NoRun, Causes
  <2>8. ASSUME NEW i \in 1..Len(f)
        PROVE  Looked(f[i])
    <3>1. CASE i = Len(s.fresh) + 1
      BY <1>3, <2>5, <3>1
    <3>2. CASE i # Len(s.fresh) + 1
      <4>1. i \in 1..Len(s.fresh)
        BY <2>4, <2>5, <3>2
      <4>2. QED
        BY <1>4, <2>5, <2>7, <4>1 DEF RunLooked
    <3>3. QED
      BY <3>1, <3>2
  <2>9. \A i \in 1..Len(s.wanted) :
          s.wanted[i].note # Nobody => Cleared(s.wanted[i].note, s.wanted[i].look)
    BY <1>4, <2>7 DEF RunLooked
  <2>10. RunLooked(r)
    BY <2>6, <2>8, <2>9 DEF RunLooked
  <2>11. QED
    BY <1>1, <2>3, <2>6, <2>10, SameTasks, TasksMove
<1>7. QED
  BY <1>5, <1>6

LEMMA CreateSqliteKeeps ==
    ASSUME TasksInv, CreateSqlite
    PROVE  TasksInv'
<1>1. Dispatching /\ run' = Rest /\ proposals' = proposals
  BY DEF CreateSqlite
<1>2. PICK x : x = Task(Head(run.wanted).note, Head(run.wanted).look)
  OBVIOUS
<1>3. x \in TaskRow /\ Looked(x)
  BY <1>1, <1>2, RestIs, TaskOfWish
<1>4. PICK r \in RunRow : r = Rest /\ RunLooked(r)
  BY <1>1, RestIs
<1>5. tasks' = tasks \/ tasks' = tasks \o <<x>>
  BY <1>2 DEF CreateSqlite, Insert
<1>6. PICK after \in {tasks, tasks \o <<x>>} : tasks' = after
  BY <1>5
<1>7. Grown(after)
  BY <1>3, <1>6, SameTasks, GrownByOne
<1>8. QED
  BY <1>1, <1>4, <1>6, <1>7, SameTasks, TasksMove

LEMMA EndRunKeeps ==
    ASSUME TasksInv, EndRun
    PROVE  TasksInv'
<1>1. PICK f : f = run.fresh
  OBVIOUS
<1>2. run \in RunRow /\ run # NoRun /\ run' = NoRun /\ proposals' = proposals
  BY DEF EndRun, TasksInv
<1>3. f \in Seq(TaskRow) /\ Len(f) \in Nat /\ DOMAIN f = 1..Len(f)
  BY <1>1, <1>2 DEF RunRow
<1>4. PICK g : g = [i \in DOMAIN f |-> IF f[i].note \in gone THEN [f[i] EXCEPT !.note = Nobody] ELSE f[i]]
  OBVIOUS
<1>5. tasks' = tasks \o g
  BY <1>1, <1>4 DEF EndRun, Insert
<1>6. ASSUME NEW i \in 1..Len(f)
      PROVE  g[i] \in TaskRow /\ Looked(g[i])
  <2>1. f[i] \in TaskRow /\ Looked(f[i])
    BY <1>1, <1>2, <1>3, ElementOfSeq DEF TasksInv, RunLooked
  <2>2. g[i] = IF f[i].note \in gone THEN [f[i] EXCEPT !.note = Nobody] ELSE f[i]
    BY <1>3, <1>4
  <2>3. CASE f[i].note \in gone
    <3>1. g[i] \in TaskRow /\ g[i].note = Nobody
      BY <2>1, <2>2, <2>3 DEF TaskRow
    <3>2. QED
      BY <3>1 DEF Looked
  <2>4. QED
    BY <2>1, <2>2, <2>3
<1>7. g \in [1..Len(f) -> TaskRow]
  BY <1>3, <1>4, <1>6
<1>8. g \in Seq(TaskRow) /\ Len(g) = Len(f)
  BY <1>3, <1>7
<1>9. Grown(tasks \o g)
  BY <1>6, <1>8, GrownByInsert
<1>10. RunLooked(NoRun)
  BY DEF RunLooked
<1>11. PICK after : after = tasks \o g
  OBVIOUS
<1>12. QED
  BY <1>2, <1>5, <1>9, <1>10, <1>11, SameTasks, TasksMove

\* Everybody else leaves the run and the proposals alone.
LEMMA OthersKeep ==
    ASSUME TasksInv, NEW after, Grown(after), tasks' = after, UNCHANGED <<run, proposals>>
    PROVE  TasksInv'
<1>1. run \in RunRow \cup {NoRun}
  BY DEF TasksInv
<1>2. PICK r \in RunRow \cup {NoRun} : r = run
  BY <1>1
<1>3. PICK ps : ps = proposals
  OBVIOUS
<1>4. QED
  BY <1>2, <1>3, SameTasks, TasksMove

LEMMA ApproveKeeps ==
    ASSUME TasksInv, NEW p \in proposals, Approve(p)
    PROVE  TasksInv'
<1>1. tasks' = tasks \o <<Task(p.note, p.look)>> /\ UNCHANGED <<run, proposals>>
  BY DEF Approve, Insert
<1>2. p \in Wish /\ (p.note # Nobody => Cleared(p.note, p.look))
  BY DEF TasksInv
<1>3. QED
  BY <1>1, <1>2, TaskOfWish, GrownByOne, OthersKeep

LEMMA CreateByHandKeeps ==
    ASSUME TasksInv, NEW n \in Topics, CreateByHand(n)
    PROVE  TasksInv'
<1>1. tasks' = tasks \o <<Task(n, NoLook)>> /\ UNCHANGED <<run, proposals>>
  BY DEF CreateByHand, Insert
<1>2. Task(n, NoLook) \in TaskRow /\ Looked(Task(n, NoLook))
  <2>1. NoLook \in Nat
    BY TasksAssumption DEF NoLook
  <2>2. QED
    BY <2>1 DEF Task, TaskRow, Looked, Open
<1>3. QED
  BY <1>1, <1>2, GrownByOne, OthersKeep

LEMMA ForgetKeeps ==
    ASSUME TasksInv, NEW n \in Topics, Forget(n)
    PROVE  TasksInv'
<1>1. PICK after : after = [i \in DOMAIN tasks |-> IF tasks[i].note = n THEN [tasks[i] EXCEPT !.note = Nobody]
                                                 ELSE tasks[i]]
  OBVIOUS
<1>2. tasks' = after /\ UNCHANGED <<run, proposals>>
  BY <1>1 DEF Forget
<1>3. tasks \in Seq(TaskRow) /\ Len(tasks) \in Nat /\ DOMAIN tasks = 1..Len(tasks)
  BY DEF TasksInv
<1>4. ASSUME NEW i \in 1..Len(tasks)
      PROVE  after[i] \in TaskRow /\ Aged(tasks[i], after[i])
  <2>1. tasks[i] \in TaskRow
    BY <1>3, ElementOfSeq
  <2>2. after[i] = IF tasks[i].note = n THEN [tasks[i] EXCEPT !.note = Nobody] ELSE tasks[i]
    BY <1>1, <1>3
  <2>3. /\ after[i] \in TaskRow /\ after[i].note \in {tasks[i].note, Nobody}
        /\ after[i].status = tasks[i].status /\ after[i].look = tasks[i].look
    BY <2>1, <2>2 DEF TaskRow
  <2>4. QED
    BY <2>3 DEF Aged
<1>5. after \in [1..Len(tasks) -> TaskRow]
  BY <1>1, <1>3, <1>4
<1>6. after \in Seq(TaskRow) /\ Len(after) = Len(tasks)
  BY <1>3, <1>5
<1>7. Grown(after)
  BY <1>3, <1>4, <1>6 DEF Grown
<1>8. QED
  BY <1>2, <1>7, OthersKeep

LEMMA TasksInvStep == TasksInv /\ [TasksNext]_taskVars => TasksInv'
<1> SUFFICES ASSUME TasksInv, [TasksNext]_taskVars PROVE TasksInv'
  OBVIOUS
<1>1. CASE UNCHANGED <<tasks, run, proposals>>
  BY <1>1, SameTasks, OthersKeep
<1>2. ASSUME NEW n \in Topics, NEW why \in SUBSET Causes, Change(n, why)
      PROVE  TasksInv'
  BY <1>1, <1>2 DEF Change
<1>3. ASSUME NEW a \in Reporters, NEW t, Report(a, t)
      PROVE  TasksInv'
  BY <1>1, <1>3 DEF Report
<1>4. ASSUME NEW a \in Reporters, NEW ok \in BOOLEAN, Reported(a, ok)
      PROVE  TasksInv'
  <2>1. PICK t : t = reporting[a]
    OBVIOUS
  <2>2. PICK after : after = [tasks EXCEPT ![t].status = "completed"]
    OBVIOUS
  <2>3. tasks' = after /\ UNCHANGED <<run, proposals>>
    BY <1>4, <2>1, <2>2 DEF Reported
  <2>4. Grown(after)
    BY <2>2, GrownByUpdate
  <2>5. QED
    BY <2>3, <2>4, OthersKeep
<1>5. ASSUME NEW a \in Reporters, ReporterDies(a)
      PROVE  TasksInv'
  BY <1>1, <1>5 DEF ReporterDies
<1>6. ASSUME NEW t, Fail(t)
      PROVE  TasksInv'
  <2>1. PICK after : after = [tasks EXCEPT ![t].status = "failed"]
    OBVIOUS
  <2>2. tasks' = after /\ UNCHANGED <<run, proposals>>
    BY <1>6, <2>1 DEF Fail
  <2>3. Grown(after)
    BY <2>1, GrownByUpdate
  <2>4. QED
    BY <2>2, <2>3, OthersKeep
<1>7. CASE UNCHANGED taskVars
  BY <1>1, <1>7 DEF taskVars
<1>8. QED
  BY <1>2, <1>3, <1>4, <1>5, <1>6, <1>7, QueryKeeps, LookKeeps, CreateByHandKeeps, ForgetKeeps,
     SuggestKeeps, CreatePgKeeps, CreateSqliteKeeps, EndRunKeeps, ApproveKeeps DEF TasksNext

LEMMA LooksHold == TasksInv => OneOpenTask
<1> SUFFICES ASSUME TasksInv, NEW i \in DOMAIN tasks, NEW j \in DOMAIN tasks,
                    tasks[i].note = tasks[j].note, tasks[i].note # Nobody,
                    tasks[i].status \in Open, tasks[j].look # NoLook
             PROVE  i > tasks[j].look
  BY DEF OneOpenTask
<1>1. tasks \in Seq(TaskRow) /\ DOMAIN tasks = 1..Len(tasks) /\ tasks[j] \in TaskRow
  BY ElementOfSeq DEF TasksInv
<1>2. tasks[j].look \in Nat /\ Cleared(tasks[j].note, tasks[j].look)
  BY <1>1 DEF TasksInv, Looked, TaskRow
<1>3. QED
  BY <1>1, <1>2 DEF Cleared

\* However many runs of the daily job, late or repeated presses of Approve, tasks
\* made by hand, reports and deleted notes there are, a task that comes of a look
\* never has company from among the tasks that were open at the look.
THEOREM LookedAtOnce == TasksSpec => []OneOpenTask
BY TasksInvInit, TasksInvStep, LooksHold, PTL DEF TasksSpec

(***************************************************************************)
(* Planner.  The entries of the first query are of different notes, and    *)
(* what nobody changed is what the last query sees.                        *)
(***************************************************************************)
PlanSpec == PlanInit /\ [][PlanNext]_planVars

EntryRow == [note : Jobs, dated : BOOLEAN, due : Deadlines, priority : DOMAIN Weight]
PlanRow == [stage : {"due", "stale", "progress", "focus", "done"}, due : SUBSET EntryRow,
            stale : SUBSET Jobs, list : Seq(EntryRow), focus : SUBSET Jobs]

DueNow == {Entry(n) : n \in {m \in Jobs : InHorizon(m)}}
OneEach(S) == \A d, e \in S : d.note = e.note => d = e

Noted(l) == {l[i].note : i \in DOMAIN l}

Sane(l) ==
    /\ Cardinality(Noted(l)) = Len(l)
    /\ \A i, k \in DOMAIN l : i < k => (l[k].dated => l[i].dated /\ l[i].due <= l[k].due)
    /\ updates = 0 =>
         /\ Noted(l) = {n \in Jobs : InHorizon(n) \/ InProgress(n)}
         /\ \A n \in Jobs : job[n].active /\ job[n].dated /\ job[n].due < 0 /\ l # <<>> =>
              IF InProgress(n) THEN l[1].dated /\ l[1].due < 0 ELSE n \notin Noted(l)

PlanInv ==
    /\ job \in [Jobs -> JobRow] /\ plan \in PlanRow /\ updates \in Nat
    /\ OneEach(plan.due)
    /\ plan.stage \in {"stale", "progress"} /\ updates = 0 => plan.due = DueNow
    /\ plan.stage \in {"focus", "done"} => Sane(plan.list)

LEMMA EntryIs ==
    ASSUME job \in [Jobs -> JobRow], NEW n \in Jobs
    PROVE  /\ Entry(n) \in EntryRow /\ Entry(n).note = n
           /\ Entry(n).dated = job[n].dated /\ Entry(n).due = job[n].due /\ job[n].due \in Int
<1>1. job[n] \in JobRow
  OBVIOUS
<1>2. job[n].dated \in BOOLEAN /\ job[n].due \in Deadlines /\ job[n].priority \in DOMAIN Weight
  BY <1>1 DEF JobRow
<1>3. QED
  BY <1>2, PlannerAssumption DEF Entry, EntryRow

\* What a sort by the key makes of the deadlines.
LEMMA InOrder ==
    ASSUME NEW x \in EntryRow, NEW y \in EntryRow, ~Before(y, x), y.dated
    PROVE  x.dated /\ x.due <= y.due
<1>1. x.dated \in BOOLEAN /\ y.dated \in BOOLEAN /\ x.due \in Int /\ y.due \in Int
  BY PlannerAssumption DEF EntryRow
<1>2. x.dated
  BY <1>1 DEF Before
<1>3. ~(DaysLeft(y) < DaysLeft(x))
  BY <1>1, <1>2 DEF Before
<1>4. QED
  BY <1>1, <1>2, <1>3 DEF DaysLeft

\* A sequence of all members of a set, none twice, has each of their notes once.
LEMMA OrderCounts ==
    ASSUME NEW S, S \subseteq EntryRow, IsFiniteSet(S), OneEach(S), NEW s \in Orders(S)
    PROVE  /\ s \in Seq(EntryRow) /\ DOMAIN s = 1..Len(s) /\ Len(s) \in Nat
           /\ \A i \in 1..Len(s) : s[i] \in S
           /\ \A e \in S : \E i \in 1..Len(s) : s[i] = e
           /\ Cardinality(Noted(s)) = Len(s)
           /\ \A i, k \in DOMAIN s : i < k => ~Before(s[k], s[i])
<1> DEFINE N == Cardinality(S)
<1>1. N \in Nat
  BY FS_CardinalityType
<1> HIDE DEF N
<1>2. s \in [1..N -> S] /\ \A i, j \in 1..N : i # j => s[i] # s[j]
  BY DEF Orders, SetToSeqs, N
<1>3. s \in Seq(EntryRow) /\ Len(s) = N /\ DOMAIN s = 1..N
  BY <1>1, <1>2
<1>4. s \in Injection(1..N, S)
  BY <1>2 DEF Injection, IsInjective
<1>5. IsFiniteSet(1..N) /\ Cardinality(1..N) = N
  <2>1. 1 \in Int /\ N \in Int
    BY <1>1
  <2>2. IsFiniteSet(1..N) /\ Cardinality(1..N) = IF 1 > N THEN 0 ELSE N - 1 + 1
    BY <2>1, FS_Interval
  <2>3. QED
    BY <1>1, <2>2
<1>6. s \in Surjection(1..N, S)
  BY <1>4, <1>5, FS_Injection DEF N
<1>7. \A e \in S : \E i \in 1..N : s[i] = e
  BY <1>6 DEF Surjection
<1>8. Cardinality(Noted(s)) = N
  <2> DEFINE g == [i \in 1..N |-> s[i].note]
             T == Noted(s)
  <2>1. T = {s[i].note : i \in 1..N}
    BY <1>3 DEF Noted
  <2> HIDE DEF T
  <2>2. g \in [1..N -> T] /\ \A i \in 1..N : g[i] = s[i].note
    BY <2>1
  <2> HIDE DEF g
  <2>3. \A i, j \in 1..N : g[i] = g[j] => i = j
    BY <1>2, <2>2 DEF OneEach
  <2>4. \A t \in T : \E i \in 1..N : g[i] = t
    BY <2>1, <2>2
  <2>5. g \in Bijection(1..N, T)
    BY <2>2, <2>3, <2>4 DEF Bijection, Injection, Surjection, IsInjective
  <2>6. ExistsBijection(1..N, T)
    BY <2>5 DEF ExistsBijection
  <2>7. QED
    BY <1>1, <2>6, FS_CountingElements DEF T
<1>9. QED
  BY <1>1, <1>2, <1>3, <1>7, <1>8 DEF Orders

LEMMA DueIsOneEach ==
    ASSUME job \in [Jobs -> JobRow], NEW T \in SUBSET Jobs
    PROVE  {Entry(n) : n \in T} \subseteq EntryRow /\ OneEach({Entry(n) : n \in T})
           /\ IsFiniteSet({Entry(n) : n \in T})
<1>1. \A n \in T : Entry(n) \in EntryRow /\ Entry(n).note = n
  BY EntryIs
<1>2. OneEach({Entry(n) : n \in T})
  BY <1>1 DEF OneEach
<1>3. IsFiniteSet(T)
  BY PlannerAssumption, FS_Subset
<1> DEFINE R == {Entry(n) : n \in T}
           g == [n \in T |-> Entry(n)]
<1>4. g \in Surjection(T, R)
  BY DEF Surjection
<1>5. IsFiniteSet(R)
  BY <1>3, <1>4, FS_Surjection
<1>6. QED
  BY <1>1, <1>2, <1>5

LEMMA PlanInvInit == PlanInit => PlanInv
<1> SUFFICES ASSUME PlanInit PROVE PlanInv
  OBVIOUS
<1>1. job \in [Jobs -> JobRow]
  BY RowsAssumption DEF PlanInit
<1>2. plan = [stage |-> "due", due |-> {}, stale |-> {}, list |-> <<>>, focus |-> {}] /\ updates = 0
  BY DEF PlanInit
<1>3. plan \in PlanRow /\ plan.stage = "due" /\ plan.due = {}
  BY <1>2, EmptySeq DEF PlanRow
<1>4. QED
  BY <1>1, <1>2, <1>3 DEF PlanInv, OneEach

LEMMA DueRowsKeeps ==
    ASSUME PlanInv, DueRows
    PROVE  PlanInv'
<1>1. PICK due : due = DueNow
  OBVIOUS
<1>2. plan' = [plan EXCEPT !.stage = "stale", !.due = due] /\ UNCHANGED <<job, caller, updates>>
  BY <1>1 DEF DueRows, DueNow
<1>3. due \subseteq EntryRow /\ OneEach(due)
  <2>1. {m \in Jobs : InHorizon(m)} \in SUBSET Jobs
    OBVIOUS
  <2>2. QED
    BY <1>1, <2>1, DueIsOneEach DEF DueNow, PlanInv
<1>4. plan' \in PlanRow /\ plan'.stage = "stale" /\ plan'.due = due
  BY <1>2, <1>3 DEF PlanInv, PlanRow
<1>5. DueNow' = DueNow
  BY <1>2 DEF DueNow, Entry, InHorizon
<1>6. QED
  BY <1>1, <1>2, <1>3, <1>4, <1>5 DEF PlanInv, OneEach

LEMMA StaleRowsKeeps ==
    ASSUME PlanInv, StaleRows
    PROVE  PlanInv'
<1>1. PICK stale : stale = {n \in Jobs : job[n].active /\ job[n].stale}
  OBVIOUS
<1>2. plan' = [plan EXCEPT !.stage = "progress", !.stale = stale] /\ UNCHANGED <<job, caller, updates>>
      /\ plan.stage = "stale"
  BY <1>1 DEF StaleRows
<1>3. plan' \in PlanRow /\ plan'.stage = "progress" /\ plan'.due = plan.due
  BY <1>1, <1>2 DEF PlanInv, PlanRow
<1>4. DueNow' = DueNow
  BY <1>2 DEF DueNow, Entry, InHorizon
<1>5. QED
  BY <1>2, <1>3, <1>4 DEF PlanInv, OneEach

\* The union of the two queries, and any order of it.
LEMMA OrderIsSane ==
    ASSUME PlanInv, plan.stage = "progress", NEW P, P = {Entry(n) : n \in {m \in Jobs : InProgress(m)}},
           NEW s \in Orders(plan.due \cup Unlisted(P))
    PROVE  s \in Seq(EntryRow) /\ Sane(s)
<1>1. PICK S : S = plan.due \cup Unlisted(P)
  OBVIOUS
<1>2. PICK D : D = plan.due
  OBVIOUS
<1>3. D \subseteq EntryRow /\ OneEach(D) /\ job \in [Jobs -> JobRow]
  BY <1>2 DEF PlanInv, PlanRow
<1>4. P \subseteq EntryRow /\ OneEach(P) /\ IsFiniteSet(P)
  <2>1. {m \in Jobs : InProgress(m)} \in SUBSET Jobs
    OBVIOUS
  <2>2. QED
    BY <1>3, <2>1, DueIsOneEach
<1>5. S = D \cup {e \in P : \A d \in D : d.note # e.note}
  BY <1>1, <1>2 DEF Unlisted
<1>6. S \subseteq EntryRow /\ OneEach(S)
  BY <1>3, <1>4, <1>5 DEF OneEach
<1>7. IsFiniteSet(D)
  <2> DEFINE g == [d \in D |-> d.note]
  <2>1. g \in Injection(D, Jobs)
    BY <1>3 DEF Injection, IsInjective, OneEach, EntryRow
  <2>2. QED
    BY <2>1, PlannerAssumption, FS_Injection
<1>8. IsFiniteSet(S)
  <2>1. {e \in P : \A d \in D : d.note # e.note} \in SUBSET P
    OBVIOUS
  <2>2. IsFiniteSet({e \in P : \A d \in D : d.note # e.note})
    BY <1>4, <2>1, FS_Subset
  <2>3. QED
    BY <1>5, <1>7, <2>2, FS_Union
<1>9. s \in Orders(S)
  BY <1>1
<1>10. /\ s \in Seq(EntryRow) /\ DOMAIN s = 1..Len(s) /\ Len(s) \in Nat
       /\ \A i \in 1..Len(s) : s[i] \in S
       /\ \A e \in S : \E i \in 1..Len(s) : s[i] = e
       /\ Cardinality(Noted(s)) = Len(s)
       /\ \A i, k \in DOMAIN s : i < k => ~Before(s[k], s[i])
  BY <1>6, <1>8, <1>9, OrderCounts
<1>11. ASSUME NEW i \in DOMAIN s, NEW k \in DOMAIN s, i < k, s[k].dated
       PROVE  s[i].dated /\ s[i].due <= s[k].due
  <2>1. s[i] \in EntryRow /\ s[k] \in EntryRow /\ ~Before(s[k], s[i])
    BY <1>6, <1>10, <1>11
  <2>2. QED
    BY <1>11, <2>1, InOrder
<1>12. ASSUME updates = 0
       PROVE  /\ Noted(s) = {n \in Jobs : InHorizon(n) \/ InProgress(n)}
              /\ \A n \in Jobs : job[n].active /\ job[n].dated /\ job[n].due < 0 /\ s # <<>> =>
                   IF InProgress(n) THEN s[1].dated /\ s[1].due < 0 ELSE n \notin Noted(s)
  <2>1. D = {Entry(n) : n \in {m \in Jobs : InHorizon(m)}}
    BY <1>2, <1>12 DEF PlanInv, DueNow
  <2>2. \A n \in Jobs : /\ Entry(n).note = n /\ Entry(n).due = job[n].due /\ job[n].due \in Int
                        /\ Entry(n).dated = job[n].dated
    BY <1>3, EntryIs
  <2>3. Noted(s) = {e.note : e \in S}
    BY <1>10 DEF Noted
  <2>4. ASSUME NEW n \in Jobs
        PROVE  n \in {e.note : e \in S} <=> InHorizon(n) \/ InProgress(n)
    <3>1. CASE InHorizon(n)
      <4>1. Entry(n) \in S
        BY <1>5, <2>1, <3>1
      <4>2. QED
        BY <2>2, <3>1, <4>1
    <3>2. CASE ~InHorizon(n) /\ InProgress(n)
      <4>1. Entry(n) \in P
        BY <3>2
      <4>2. \A d \in D : d.note # Entry(n).note
        BY <2>1, <2>2, <3>2
      <4>3. Entry(n) \in S
        BY <1>5, <4>1, <4>2
      <4>4. QED
        BY <2>2, <3>2, <4>3
    <3>3. CASE ~InHorizon(n) /\ ~InProgress(n)
      <4>1. \A e \in S : e.note # n
        BY <1>5, <2>1, <2>2, <3>3
      <4>2. QED
        BY <3>3, <4>1
    <3>4. QED
      BY <3>1, <3>2, <3>3
  <2>5. {e.note : e \in S} \subseteq Jobs
    BY <1>6 DEF EntryRow
  <2>6. Noted(s) = {n \in Jobs : InHorizon(n) \/ InProgress(n)}
    BY <2>3, <2>4, <2>5
  <2>7. ASSUME NEW n \in Jobs, job[n].active, job[n].dated, job[n].due < 0, s # <<>>
        PROVE  IF InProgress(n) THEN s[1].dated /\ s[1].due < 0 ELSE n \notin Noted(s)
    <3>1. ~InHorizon(n)
      BY <2>2, <2>7, PlannerAssumption DEF InHorizon
    <3>2. CASE InProgress(n)
      <4>1. PICK k \in 1..Len(s) : s[k].note = n
        BY <1>10, <2>6, <3>2 DEF Noted
      <4>2. s[k].dated /\ s[k].due < 0
        <5>1. s[k] \in S
          BY <1>10
        <5>2. PICK m \in Jobs : s[k] = Entry(m)
          BY <1>5, <2>1, <5>1
        <5>3. m = n
          BY <2>2, <4>1, <5>2
        <5>4. QED
          BY <2>2, <2>7, <5>2, <5>3
      <4>3. s[1].dated /\ s[1].due < 0
        <5>1. 1 \in DOMAIN s /\ k \in DOMAIN s /\ (k = 1 \/ 1 < k)
          BY <1>10, <4>1
        <5>2. s[1] \in EntryRow /\ s[k] \in EntryRow
          BY <1>6, <1>10, <5>1
        <5>3. s[1].due \in Int /\ s[k].due \in Int
          BY <5>2, PlannerAssumption DEF EntryRow
        <5>4. CASE 1 < k
          <6>1. ~Before(s[k], s[1])
            BY <1>10, <5>1, <5>4
          <6>2. s[1].dated /\ s[1].due <= s[k].due
            BY <4>2, <5>2, <6>1, InOrder
          <6>3. QED
            BY <4>2, <5>3, <6>2
        <5>5. QED
          BY <4>2, <5>1, <5>4
      <4>4. QED
        BY <3>2, <4>3
    <3>3. QED
      BY <2>6, <3>1, <3>2
  <2>8. QED
    BY <2>6, <2>7
<1>13. QED
  BY <1>10, <1>11, <1>12 DEF Sane

LEMMA ProgressRowsKeeps ==
    ASSUME PlanInv, ProgressRows
    PROVE  PlanInv'
<1>1. PICK P : P = {Entry(n) : n \in {m \in Jobs : InProgress(m)}}
  OBVIOUS
<1>2. PICK s \in Orders(plan.due \cup Unlisted(P)) : plan' = [plan EXCEPT !.stage = "focus", !.list = s]
  BY <1>1 DEF ProgressRows
<1>3. plan.stage = "progress" /\ UNCHANGED <<job, caller, updates>>
  BY DEF ProgressRows
<1>4. s \in Seq(EntryRow) /\ Sane(s)
  BY <1>1, <1>2, <1>3, OrderIsSane
<1>5. plan' \in PlanRow /\ plan'.stage = "focus" /\ plan'.due = plan.due /\ plan'.list = s
  BY <1>2, <1>4 DEF PlanInv, PlanRow
<1>6. Sane(s)'
  BY <1>3, <1>4 DEF Sane, Noted, InHorizon, InProgress
<1>7. QED
  BY <1>3, <1>5, <1>6 DEF PlanInv, OneEach

LEMMA FocusKeeps ==
    ASSUME PlanInv, Focus
    PROVE  PlanInv'
<1>1. PICK focus : focus = IF plan.list # <<>> THEN {Head(plan.list).note} ELSE plan.stale
  OBVIOUS
<1>2. /\ plan.stage = "focus" /\ UNCHANGED <<job, caller, updates>>
      /\ plan' = [plan EXCEPT !.stage = "done", !.focus = focus]
  BY <1>1 DEF Focus
<1>3. focus \in SUBSET Jobs
  <2>1. plan.list \in Seq(EntryRow) /\ plan.stale \in SUBSET Jobs
    BY DEF PlanInv, PlanRow
  <2>2. CASE plan.list # <<>>
    <3>1. Head(plan.list) \in EntryRow
      BY <2>1, <2>2, HeadTailProperties
    <3>2. QED
      BY <1>1, <2>2, <3>1 DEF EntryRow
  <2>3. QED
    BY <1>1, <2>1, <2>2
<1>4. plan' \in PlanRow /\ plan'.stage = "done" /\ plan'.due = plan.due /\ plan'.list = plan.list
  BY <1>2, <1>3 DEF PlanInv, PlanRow
<1>5. PICK l : l = plan.list
  OBVIOUS
<1>6. Sane(l)
  BY <1>2, <1>5 DEF PlanInv
<1>7. Sane(l)'
  BY <1>2, <1>6 DEF Sane, Noted, InHorizon, InProgress
<1>8. QED
  BY <1>2, <1>4, <1>5, <1>7 DEF PlanInv, OneEach

LEMMA AlterJobKeeps ==
    ASSUME PlanInv, NEW n \in Jobs, NEW row \in Rows, AlterJob(n, row)
    PROVE  PlanInv'
<1>1. /\ plan.stage \in {"stale", "progress"} /\ updates' = updates + 1 /\ plan' = plan
      /\ job' = [job EXCEPT ![n] = row]
  BY DEF AlterJob
<1>2. job' \in [Jobs -> JobRow]
  BY <1>1, RowsAssumption DEF PlanInv
<1>3. updates' \in Nat /\ updates' # 0
  BY <1>1 DEF PlanInv
<1>4. QED
  BY <1>1, <1>2, <1>3 DEF PlanInv, OneEach

LEMMA PlanInvStep == PlanInv /\ [PlanNext]_planVars => PlanInv'
<1> SUFFICES ASSUME PlanInv, [PlanNext]_planVars PROVE PlanInv'
  OBVIOUS
<1>1. CASE UNCHANGED planVars
  <2>1. plan' = plan /\ UNCHANGED <<job, caller, updates>>
    BY <1>1 DEF planVars
  <2>2. DueNow' = DueNow
    BY <2>1 DEF DueNow, Entry, InHorizon
  <2>3. PICK l : l = plan.list
    OBVIOUS
  <2>4. Sane(l) => Sane(l)'
    BY <2>1 DEF Sane, Noted, InHorizon, InProgress
  <2>5. QED
    BY <2>1, <2>2, <2>3, <2>4 DEF PlanInv, OneEach
<1>2. QED
  BY <1>1, DueRowsKeeps, StaleRowsKeeps, ProgressRowsKeeps, FocusKeeps, AlterJobKeeps DEF PlanNext

LEMMA SanePlan == PlanInv => PlanSane
BY DEF PlanInv, Sane, Noted, PlanSane

\* For any notes, deadlines and horizon, and whatever changes between the
\* queries, a plan names no note twice and none with a deadline after one with a
\* later deadline or none; if nothing changed it is what is due or in progress.
THEOREM PlansAreSane == PlanSpec => []PlanSane
BY PlanInvInit, PlanInvStep, SanePlan, PTL DEF PlanSpec

(***************************************************************************)
(* Overviews.  What a request has read so far was true of some moment      *)
(* since it began, and what is cached of some moment since the ticks its   *)
(* time to live has used up and those of the request that stored it.  As   *)
(* time goes on the window that a claim is about grows with its age.  The  *)
(* theorem is about both keys at once.                                     *)
(***************************************************************************)
CacheSpec == CacheInit /\ [][\E key \in Kept : CacheNext(key)]_cacheVars

Cats == ToSet(Shelves)
Places == Cats \cup {"nowhere"}
Overview == [all : SUBSET Pages, on : [Cats -> SUBSET Pages]]
ReaderRow == [stage : {"total", "shelves", "grouped"}, what : Kept \cup {"tool"}, view : Overview,
              next : 1..(Len(Shelves) + 1), age : 0..MaxSlow]
CacheRow == [value : Overview, left : 0..Ttl]
AnswerRow == [what : Kept \cup {"tool"}, view : Overview]

\* Where the note was in the last w ticks, and what may be said of it.
During(n, w) == UNION {was[n][t] : t \in 0..w}
OnOk(v, n, c, L) == IF n \in v.on[c] THEN c \in L ELSE L \ {c} # {}
AllOk(v, n, L) == IF n \in v.all THEN L \ {"nowhere"} # {} ELSE "nowhere" \in L

\* The part of an overview that has been read, of the categories D and, if
\* total, of the number of all.
PartOk(v, D, total, w) ==
    \A n \in Pages : /\ \A c \in D : OnOk(v, n, c, During(n, w))
                     /\ total => AllOk(v, n, During(n, w))

ReaderOk(x) ==
    /\ x.stage = "total" => x.what \in {"stats", "tool"} /\ x.next = 1
    /\ x.stage = "shelves" =>
         /\ x.what \in Kept
         /\ PartOk(x.view, {Shelves[i] : i \in 1..(x.next - 1)}, x.what = "stats", x.age)
    /\ x.stage = "grouped" => x.what = "tool" /\ PartOk(x.view, {}, TRUE, x.age)

ReadersOk(rs) ==
    /\ rs \in [Readers -> ReaderRow \cup {NoReader}]
    /\ \A r \in Readers : rs[r] # NoReader => ReaderOk(rs[r])

EntryOk(k, e) == PartOk(e.value, Cats, k = "stats", MaxSlow + Ttl - e.left)

EntriesOk(es) ==
    /\ es \in [Kept -> CacheRow \cup {Nothing}]
    /\ \A k \in Kept : es[k] # Nothing => EntryOk(k, es[k])

AnswersOk(as) ==
    \A a \in as : /\ a \in AnswerRow
                  /\ PartOk(a.view, Cats, a.what # "tree", MaxSlow + IF a.what = "tool" THEN 0 ELSE Ttl)

PlacesOk ==
    /\ shelf \in [Pages -> Places] /\ was \in [Pages -> [Ticks -> SUBSET Places]]
    /\ \A n \in Pages : shelf[n] \in was[n][0]

CacheInv == PlacesOk /\ ReadersOk(reader) /\ EntriesOk(cached) /\ AnswersOk(answers)

LEMMA CacheNumbers == Ttl \in Nat /\ MaxSlow \in Nat /\ Ticks = 0..(MaxSlow + Ttl)
BY CacheAssumption DEF Ticks

LEMMA ShelvesAre ==
    /\ Shelves \in Seq(Cats) /\ Len(Shelves) \in Nat /\ DOMAIN Shelves = 1..Len(Shelves)
    /\ \A i \in 1..Len(Shelves) : Shelves[i] \in Cats
    /\ Cats = {Shelves[i] : i \in 1..Len(Shelves)} /\ "nowhere" \notin Cats
<1>1. Shelves \in Seq(Cats) /\ "nowhere" \notin Cats
  BY CacheAssumption DEF Cats
<1>2. Len(Shelves) \in Nat /\ DOMAIN Shelves = 1..Len(Shelves)
  BY <1>1
<1>3. QED
  BY <1>1, <1>2 DEF Cats, ToSet

LEMMA ShelvesCount == Len(Shelves) \in Nat
BY ShelvesAre

LEMMA PlacesFinite == IsFiniteSet(Places)
<1>1. Shelves \in Surjection(1..Len(Shelves), Cats)
  BY ShelvesAre DEF Surjection
<1>2. IsFiniteSet(1..Len(Shelves))
  <2>1. 1 \in Int /\ Len(Shelves) \in Int
    BY ShelvesAre
  <2>2. QED
    BY <2>1, FS_Interval
<1>3. IsFiniteSet(Cats)
  BY <1>1, <1>2, FS_Surjection
<1>4. QED
  BY <1>3, FS_AddElement DEF Places

\* A wider window, at once or a step later, bears out no less.
LEMMA OnOkWidens ==
    ASSUME NEW v, NEW n, NEW c, NEW L, NEW M, L \subseteq M
    PROVE  (OnOk(v, n, c, L) => OnOk(v, n, c, M)) /\ (AllOk(v, n, L) => AllOk(v, n, M))
BY DEF OnOk, AllOk

LEMMA PartLater ==
    ASSUME NEW v, NEW D, NEW total \in BOOLEAN, NEW w, NEW z, PartOk(v, D, total, w),
           \A n \in Pages : During(n, w) \subseteq During(n, z)'
    PROVE  PartOk(v, D, total, z)'
<1> SUFFICES ASSUME NEW n \in Pages
             PROVE  /\ \A c \in D : OnOk(v, n, c, During(n, z)')
                    /\ total => AllOk(v, n, During(n, z)')
  BY DEF PartOk, OnOk, AllOk
<1>1. During(n, w) \subseteq During(n, z)'
  OBVIOUS
<1>2. (\A c \in D : OnOk(v, n, c, During(n, w))) /\ (total => AllOk(v, n, During(n, w)))
  BY DEF PartOk
<1>3. QED
  BY <1>1, <1>2, OnOkWidens

LEMMA PartWider ==
    ASSUME NEW v, NEW D, NEW total \in BOOLEAN, NEW w \in Int, NEW z \in Int, w <= z,
           PartOk(v, D, total, w)
    PROVE  PartOk(v, D, total, z)
<1> SUFFICES ASSUME NEW n \in Pages
             PROVE  /\ \A c \in D : OnOk(v, n, c, During(n, z))
                    /\ total => AllOk(v, n, During(n, z))
  BY DEF PartOk
<1>1. During(n, w) \subseteq During(n, z)
  <2>1. 0..w \subseteq 0..z
    OBVIOUS
  <2>2. QED
    BY <2>1 DEF During
<1>2. (\A c \in D : OnOk(v, n, c, During(n, w))) /\ (total => AllOk(v, n, During(n, w)))
  BY DEF PartOk
<1>3. QED
  BY <1>1, <1>2, OnOkWidens

\* What is read now is true now.
LEMMA NowIsDuring ==
    ASSUME PlacesOk, NEW n \in Pages, NEW w \in Nat
    PROVE  shelf[n] \in During(n, w) /\ shelf[n] \in Places
<1>1. shelf[n] \in was[n][0] /\ 0 \in 0..w
  BY DEF PlacesOk
<1>2. QED
  BY <1>1 DEF During, PlacesOk

LEMMA StaysKeeps ==
    ASSUME CacheInv, Stays, NEW rs, ReadersOk(rs), reader' = rs,
           NEW es, EntriesOk(es), cached' = es, NEW as, AnswersOk(as), answers' = as
    PROVE  CacheInv'
<1>1. shelf' = shelf /\ was' = was
  BY DEF Stays
<1>2. \A n, w : During(n, w) = During(n, w)'
  BY <1>1 DEF During
<1>3. ASSUME NEW v, NEW D, NEW total \in BOOLEAN, NEW w, PartOk(v, D, total, w)
      PROVE  PartOk(v, D, total, w)'
  BY <1>2, <1>3, PartLater
<1>4. ASSUME NEW x, ReaderOk(x)
      PROVE  ReaderOk(x)'
  BY <1>3, <1>4 DEF ReaderOk
<1>5. ReadersOk(rs)'
  BY <1>4 DEF ReadersOk
<1>6. EntriesOk(es)'
  BY <1>3 DEF EntriesOk, EntryOk
<1>7. AnswersOk(as)'
  BY <1>3 DEF AnswersOk
<1>8. PlacesOk'
  BY <1>1 DEF CacheInv, PlacesOk
<1>9. QED
  BY <1>5, <1>6, <1>7, <1>8 DEF CacheInv

LEMMA OneReader ==
    ASSUME CacheInv, NEW r \in Readers, NEW x, x = NoReader \/ (x \in ReaderRow /\ ReaderOk(x))
    PROVE  ReadersOk([reader EXCEPT ![r] = x])
<1>1. reader \in [Readers -> ReaderRow \cup {NoReader}] /\ x \in ReaderRow \cup {NoReader}
  BY DEF CacheInv, ReadersOk
<1>2. PICK rs : rs = [reader EXCEPT ![r] = x]
  OBVIOUS
<1>3. /\ rs \in [Readers -> ReaderRow \cup {NoReader}] /\ rs[r] = x
      /\ \A q \in Readers : q # r => rs[q] = reader[q]
  BY <1>1, <1>2
<1>4. ASSUME NEW q \in Readers, rs[q] # NoReader
      PROVE  ReaderOk(rs[q])
  BY <1>3, <1>4 DEF CacheInv, ReadersOk
<1>5. QED
  BY <1>2, <1>3, <1>4 DEF ReadersOk

LEMMA OneEntry ==
    ASSUME CacheInv, NEW k \in Kept, NEW e, e = Nothing \/ (e \in CacheRow /\ EntryOk(k, e))
    PROVE  EntriesOk([cached EXCEPT ![k] = e])
<1>1. cached \in [Kept -> CacheRow \cup {Nothing}] /\ e \in CacheRow \cup {Nothing}
  BY DEF CacheInv, EntriesOk
<1>2. PICK es : es = [cached EXCEPT ![k] = e]
  OBVIOUS
<1>3. /\ es \in [Kept -> CacheRow \cup {Nothing}] /\ es[k] = e
      /\ \A j \in Kept : j # k => es[j] = cached[j]
  BY <1>1, <1>2
<1>4. ASSUME NEW j \in Kept, es[j] # Nothing
      PROVE  EntryOk(j, es[j])
  BY <1>3, <1>4 DEF CacheInv, EntriesOk
<1>5. QED
  BY <1>2, <1>3, <1>4 DEF EntriesOk

LEMMA NoAnswerOk == AnswersOk({})
BY DEF AnswersOk

LEMMA CacheInvInit == CacheInit => CacheInv
<1> SUFFICES ASSUME CacheInit PROVE CacheInv
  OBVIOUS
<1>1. PlacesOk
  <2>1. shelf \in [Pages -> Places] /\ was = [n \in Pages |-> [t \in Ticks |-> {shelf[n]}]]
    BY DEF CacheInit, Places, Cats
  <2>2. 0 \in Ticks
    BY CacheNumbers
  <2>3. \A n \in Pages : [t \in Ticks |-> {shelf[n]}] \in [Ticks -> SUBSET Places]
    BY <2>1
  <2>4. QED
    BY <2>1, <2>2, <2>3 DEF PlacesOk
<1>2. ReadersOk(reader)
  BY DEF CacheInit, ReadersOk
<1>3. EntriesOk(cached)
  BY DEF CacheInit, EntriesOk
<1>4. AnswersOk(answers)
  BY DEF CacheInit, AnswersOk
<1>5. QED
  BY <1>1, <1>2, <1>3, <1>4 DEF CacheInv

\* What the cache holds is young enough to be the answer.
LEMMA HitKeeps ==
    ASSUME CacheInv, NEW r \in Readers, NEW k \in Kept, Hit(r, k)
    PROVE  CacheInv'
<1>1. PICK e : e = cached[k]
  OBVIOUS
<1>2. e # Nothing /\ Stays /\ reader' = reader
      /\ answers' = {[what |-> k, view |-> e.value]}
  BY <1>1 DEF Hit, Answer
<1>3. e \in CacheRow /\ EntryOk(k, e)
  BY <1>1, <1>2 DEF CacheInv, EntriesOk
<1>4. cached' = cached
  BY DEF Hit, AfterGet, CacheInv, EntriesOk
<1>5. PICK a : a = [what |-> k, view |-> e.value]
  OBVIOUS
<1>6. a \in AnswerRow /\ a.what = k /\ a.view = e.value
  BY <1>3, <1>5 DEF AnswerRow, CacheRow
<1>7. PartOk(e.value, Cats, k # "tree", MaxSlow + Ttl)
  <2>1. e.left \in 0..Ttl
    BY <1>3 DEF CacheRow
  <2>2. MaxSlow + Ttl - e.left <= MaxSlow + Ttl /\ MaxSlow + Ttl - e.left \in Int /\ MaxSlow + Ttl \in Int
    BY <2>1, CacheNumbers
  <2>3. PartOk(e.value, Cats, k = "stats", MaxSlow + Ttl - e.left)
    BY <1>3 DEF EntryOk
  <2>4. PartOk(e.value, Cats, k = "stats", MaxSlow + Ttl)
    BY <2>2, <2>3, PartWider
  <2>5. (k = "stats") = (k # "tree")
    BY DEF Kept
  <2>6. QED
    BY <2>4, <2>5
<1>8. k # "tool"
  BY DEF Kept
<1>9. AnswersOk({a})
  BY <1>6, <1>7, <1>8 DEF AnswersOk
<1>10. PICK as : as = {a}
  OBVIOUS
<1>11. ReadersOk(reader) /\ EntriesOk(cached)
  BY DEF CacheInv
<1>12. QED
  BY <1>2, <1>4, <1>5, <1>9, <1>10, <1>11, StaysKeeps

LEMMA BeginKeeps ==
    ASSUME CacheInv, NEW r \in Readers, NEW x,
           NEW stage \in {"total", "shelves"}, NEW what \in Kept \cup {"tool"},
           x = [stage |-> stage, what |-> what, view |-> Empty, next |-> 1, age |-> 0],
           stage = "total" => what \in {"stats", "tool"}, stage = "shelves" => what = "tree",
           reader' = [reader EXCEPT ![r] = x], cached' = cached, answers' = {}, Stays
    PROVE  CacheInv'
<1>1. Empty \in Overview
  BY DEF Empty, Overview, Cats
<1>2. 1 \in 1..(Len(Shelves) + 1) /\ 0 \in 0..MaxSlow
  BY ShelvesAre, CacheNumbers
<1>3. x \in ReaderRow /\ x.stage = stage /\ x.what = what /\ x.view = Empty /\ x.next = 1 /\ x.age = 0
  BY <1>1, <1>2 DEF ReaderRow
<1>4. ReaderOk(x)
  <2>1. {Shelves[i] : i \in 1..(x.next - 1)} = {}
    BY <1>3
  <2>2. x.stage = "shelves" => PartOk(x.view, {}, x.what = "stats", x.age)
    BY <1>3 DEF PartOk
  <2>3. QED
    BY <1>3, <2>1, <2>2 DEF ReaderOk, Kept
<1>5. PICK rs : rs = [reader EXCEPT ![r] = x]
  OBVIOUS
<1>6. ReadersOk(rs)
  BY <1>3, <1>4, <1>5, OneReader
<1>7. EntriesOk(cached)
  BY DEF CacheInv
<1>8. QED
  BY <1>5, <1>6, <1>7, NoAnswerOk, StaysKeeps

LEMMA MissKeeps ==
    ASSUME CacheInv, NEW r \in Readers, NEW k \in Kept, Miss(r, k)
    PROVE  CacheInv'
<1>1. PICK stage : stage = IF k = "stats" THEN "total" ELSE "shelves"
  OBVIOUS
<1>2. PICK x : x = [stage |-> stage, what |-> k, view |-> Empty, next |-> 1, age |-> 0]
  OBVIOUS
<1>3. reader' = [reader EXCEPT ![r] = x] /\ cached' = cached /\ answers' = {} /\ Stays
  BY <1>1, <1>2 DEF Miss, NoAnswer
<1>4. /\ stage \in {"total", "shelves"} /\ k \in Kept \cup {"tool"}
      /\ stage = "total" => k \in {"stats", "tool"}
      /\ stage = "shelves" => k = "tree"
  BY <1>1 DEF Kept
<1>5. QED
  BY <1>2, <1>3, <1>4, BeginKeeps

LEMMA ToolReadsKeeps ==
    ASSUME CacheInv, NEW r \in Readers, ToolReads(r)
    PROVE  CacheInv'
<1>1. PICK x : x = [stage |-> "total", what |-> "tool", view |-> Empty, next |-> 1, age |-> 0]
  OBVIOUS
<1>2. reader' = [reader EXCEPT ![r] = x] /\ cached' = cached /\ answers' = {} /\ Stays
  BY <1>1 DEF ToolReads, NoAnswer
<1>3. "tool" \in Kept \cup {"tool"} /\ "total" \in {"total", "shelves"} /\ "tool" \in {"stats", "tool"}
  OBVIOUS
<1>4. QED
  BY <1>1, <1>2, <1>3, BeginKeeps

\* A reader that goes on reads what is true now, and what it has read stays.
LEMMA GoesOn ==
    ASSUME CacheInv, NEW r \in Readers, NEW y, y = reader[r], y # NoReader,
           NEW x, x \in ReaderRow, ReaderOk(x),
           reader' = [reader EXCEPT ![r] = x], cached' = cached, answers' = {}, Stays
    PROVE  CacheInv'
<1>1. PICK rs : rs = [reader EXCEPT ![r] = x]
  OBVIOUS
<1>2. ReadersOk(rs)
  BY <1>1, OneReader
<1>3. EntriesOk(cached)
  BY DEF CacheInv
<1>4. QED
  BY <1>1, <1>2, <1>3, NoAnswerOk, StaysKeeps

LEMMA ReaderIs ==
    ASSUME CacheInv, NEW r \in Readers, reader[r].stage \in {"total", "shelves", "grouped"}
    PROVE  reader[r] # NoReader /\ reader[r] \in ReaderRow /\ ReaderOk(reader[r])
<1>1. reader[r] # NoReader
  BY DEF NoReader
<1>2. QED
  BY <1>1 DEF CacheInv, ReadersOk

LEMMA TotalKeeps ==
    ASSUME CacheInv, NEW r \in Readers, Total(r)
    PROVE  CacheInv'
<1>1. PICK y : y = reader[r]
  OBVIOUS
<1>2. y.stage = "total" /\ y \in ReaderRow /\ ReaderOk(y) /\ y # NoReader
  BY <1>1, ReaderIs DEF Total
<1>3. PICK all : all = There
  OBVIOUS
<1>4. PICK v : v = [y.view EXCEPT !.all = all]
  OBVIOUS
<1>5. PICK stage : stage = IF y.what = "tool" THEN "grouped" ELSE "shelves"
  OBVIOUS
<1>6. PICK x : x = [y EXCEPT !.view = v, !.stage = stage]
  OBVIOUS
<1>7. reader' = [reader EXCEPT ![r].view.all = all, ![r].stage = stage]
      /\ cached' = cached /\ answers' = {} /\ Stays
  BY <1>1, <1>3, <1>5 DEF Total, NoAnswer
<1>8. reader \in [Readers -> ReaderRow \cup {NoReader}]
  BY DEF CacheInv, ReadersOk
<1>9. y.view \in Overview /\ y.next = 1 /\ y.age \in 0..MaxSlow /\ y.what \in {"stats", "tool"}
  BY <1>2 DEF ReaderRow, ReaderOk
<1>10. all \in SUBSET Pages
  BY <1>3 DEF There
<1>11. v \in Overview /\ v.all = all
  BY <1>4, <1>9, <1>10 DEF Overview
<1>12. /\ x \in ReaderRow /\ x.view = v /\ x.stage = stage /\ x.what = y.what /\ x.next = 1
       /\ x.age = y.age
  BY <1>2, <1>5, <1>6, <1>9, <1>11 DEF ReaderRow
<1>13. reader' = [reader EXCEPT ![r] = x]
  <2>1. [reader EXCEPT ![r].view.all = all, ![r].stage = stage] = [reader EXCEPT ![r] = x]
    BY <1>1, <1>2, <1>4, <1>6, <1>8 DEF ReaderRow
  <2>2. QED
    BY <1>7, <2>1
<1>14. PartOk(v, {}, TRUE, y.age)
  <2>1. ASSUME NEW n \in Pages
        PROVE  AllOk(v, n, During(n, y.age))
    <3>1. shelf[n] \in During(n, y.age) /\ shelf[n] \in Places
      BY <1>9, CacheNumbers, NowIsDuring DEF CacheInv
    <3>2. n \in v.all <=> shelf[n] # "nowhere"
      BY <1>3, <1>11 DEF There
    <3>3. QED
      BY <3>1, <3>2 DEF AllOk
  <2>2. QED
    BY <2>1 DEF PartOk
<1>15. ReaderOk(x)
  <2>1. {Shelves[i] : i \in 1..(x.next - 1)} = {}
    BY <1>12
  <2>2. stage = "grouped" => x.what = "tool"
    BY <1>5, <1>12
  <2>3. stage = "shelves" => x.what = "stats" /\ x.what \in Kept
    BY <1>5, <1>9, <1>12 DEF Kept
  <2>4. stage \in {"grouped", "shelves"}
    BY <1>5
  <2>5. PartOk(x.view, {}, TRUE, x.age) /\ x.stage = stage
    BY <1>12, <1>14
  <2>6. stage = "shelves" => PartOk(x.view, {Shelves[i] : i \in 1..(x.next - 1)}, x.what = "stats", x.age)
    BY <2>1, <2>3, <2>5
  <2>7. QED
    BY <2>2, <2>3, <2>4, <2>5, <2>6 DEF ReaderOk
<1>16. QED
  BY <1>1, <1>2, <1>7, <1>12, <1>13, <1>15, GoesOn

LEMMA OneShelfKeeps ==
    ASSUME CacheInv, NEW r \in Readers, OneShelf(r)
    PROVE  CacheInv'
<1>1. PICK y : y = reader[r]
  OBVIOUS
<1>2. y.stage = "shelves" /\ y \in ReaderRow /\ ReaderOk(y) /\ y # NoReader /\ y.next <= Len(Shelves)
  BY <1>1, ReaderIs DEF OneShelf
<1>3. y.view \in Overview /\ y.next \in 1..(Len(Shelves) + 1) /\ y.age \in 0..MaxSlow /\ y.what \in Kept
  BY <1>2 DEF ReaderRow, ReaderOk
<1>4. PICK c : c = Shelves[y.next]
  OBVIOUS
<1>5. y.next \in 1..Len(Shelves) /\ c \in Cats
  BY <1>2, <1>3, <1>4, ShelvesAre
<1>6. PICK there : there = OnShelf(c)
  OBVIOUS
<1>7. PICK on : on = [y.view.on EXCEPT ![c] = there]
  OBVIOUS
<1>8. PICK v : v = [y.view EXCEPT !.on = on]
  OBVIOUS
<1>9. PICK x : x = [y EXCEPT !.view = v, !.next = y.next + 1]
  OBVIOUS
<1>10. reader' = [reader EXCEPT ![r].view.on[c] = there, ![r].next = @ + 1]
       /\ cached' = cached /\ answers' = {} /\ Stays
  BY <1>1, <1>4, <1>6 DEF OneShelf, NoAnswer
<1>11. there \in SUBSET Pages
  BY <1>6 DEF OnShelf
<1>12. /\ on \in [Cats -> SUBSET Pages] /\ on[c] = there
       /\ \A d \in Cats : d # c => on[d] = y.view.on[d]
  BY <1>3, <1>5, <1>7, <1>11 DEF Overview
<1>13. v \in Overview /\ v.on = on /\ v.all = y.view.all
  BY <1>3, <1>8, <1>12 DEF Overview
<1>14. y.next + 1 \in 1..(Len(Shelves) + 1)
  BY <1>5, ShelvesCount
<1>15. /\ x \in ReaderRow /\ x.view = v /\ x.stage = "shelves" /\ x.what = y.what
       /\ x.next = y.next + 1 /\ x.age = y.age
  BY <1>2, <1>9, <1>13, <1>14 DEF ReaderRow
<1>16. reader' = [reader EXCEPT ![r] = x]
  <2>1. reader \in [Readers -> ReaderRow \cup {NoReader}]
    BY DEF CacheInv, ReadersOk
  <2>2. [reader EXCEPT ![r].view.on[c] = there, ![r].next = @ + 1] = [reader EXCEPT ![r] = x]
    BY <1>1, <1>2, <1>7, <1>8, <1>9, <2>1 DEF ReaderRow
  <2>3. QED
    BY <1>10, <2>2
<1>17. PICK D : D = {Shelves[i] : i \in 1..(y.next - 1)}
  OBVIOUS
<1>18. PICK E : E = {Shelves[i] : i \in 1..(x.next - 1)}
  OBVIOUS
<1>19. E = D \cup {c} /\ D \subseteq Cats
  <2>1. x.next - 1 = y.next /\ 1..y.next = 1..(y.next - 1) \cup {y.next}
    BY <1>3, <1>15
  <2>2. E = D \cup {c}
    BY <1>4, <1>17, <1>18, <2>1
  <2>3. 1..(y.next - 1) \subseteq 1..Len(Shelves)
    BY <1>5, ShelvesCount
  <2>4. QED
    BY <1>17, <2>2, <2>3, ShelvesAre
<1>20. PartOk(y.view, D, y.what = "stats", y.age)
  BY <1>2, <1>17 DEF ReaderOk
<1>21. PartOk(v, E, y.what = "stats", y.age)
  <2>1. ASSUME NEW n \in Pages
        PROVE  /\ \A d \in E : OnOk(v, n, d, During(n, y.age))
               /\ y.what = "stats" => AllOk(v, n, During(n, y.age))
    <3>1. shelf[n] \in During(n, y.age)
      BY <1>3, CacheNumbers, NowIsDuring DEF CacheInv
    <3>2. OnOk(v, n, c, During(n, y.age))
      <4>1. n \in v.on[c] <=> shelf[n] = c
        BY <1>6, <1>12, <1>13 DEF OnShelf
      <4>2. QED
        BY <3>1, <4>1 DEF OnOk
    <3>3. ASSUME NEW d \in E, d # c
          PROVE  OnOk(v, n, d, During(n, y.age))
      <4>1. d \in D /\ v.on[d] = y.view.on[d]
        BY <1>12, <1>13, <1>19, <3>3
      <4>2. OnOk(y.view, n, d, During(n, y.age))
        BY <1>20, <4>1 DEF PartOk
      <4>3. QED
        BY <4>1, <4>2 DEF OnOk
    <3>4. y.what = "stats" => AllOk(v, n, During(n, y.age))
      BY <1>13, <1>20 DEF PartOk, AllOk
    <3>5. QED
      BY <3>2, <3>3, <3>4
  <2>2. QED
    BY <2>1 DEF PartOk
<1>22. ReaderOk(x)
  BY <1>3, <1>15, <1>18, <1>21 DEF ReaderOk
<1>23. QED
  BY <1>1, <1>2, <1>10, <1>15, <1>16, <1>22, GoesOn

LEMMA AllShelvesKeeps ==
    ASSUME CacheInv, NEW r \in Readers, AllShelves(r)
    PROVE  CacheInv'
<1>1. PICK y : y = reader[r]
  OBVIOUS
<1>2. y.stage = "grouped" /\ y \in ReaderRow /\ ReaderOk(y) /\ y # NoReader
  BY <1>1, ReaderIs DEF AllShelves
<1>3. y.view \in Overview /\ y.age \in 0..MaxSlow /\ PartOk(y.view, {}, TRUE, y.age)
  BY <1>2 DEF ReaderRow, ReaderOk
<1>4. PICK on : on = [c \in Cats |-> OnShelf(c)]
  OBVIOUS
<1>5. PICK v : v = [all |-> y.view.all, on |-> on]
  OBVIOUS
<1>6. PICK a : a = [what |-> "tool", view |-> v]
  OBVIOUS
<1>7. on \in [Cats -> SUBSET Pages] /\ \A c \in Cats : on[c] = OnShelf(c)
  BY <1>4 DEF OnShelf
<1>8. v \in Overview /\ v.on = on /\ v.all = y.view.all
  BY <1>3, <1>5, <1>7 DEF Overview
<1>9. a \in AnswerRow /\ a.what = "tool" /\ a.view = v
  BY <1>6, <1>8 DEF AnswerRow
<1>10. PartOk(v, Cats, TRUE, y.age)
  <2>1. ASSUME NEW n \in Pages
        PROVE  (\A d \in Cats : OnOk(v, n, d, During(n, y.age))) /\ AllOk(v, n, During(n, y.age))
    <3>1. shelf[n] \in During(n, y.age)
      BY <1>3, CacheNumbers, NowIsDuring DEF CacheInv
    <3>2. ASSUME NEW d \in Cats
          PROVE  OnOk(v, n, d, During(n, y.age))
      <4>1. n \in v.on[d] <=> shelf[n] = d
        BY <1>7, <1>8 DEF OnShelf
      <4>2. QED
        BY <3>1, <4>1 DEF OnOk
    <3>3. AllOk(y.view, n, During(n, y.age))
      BY <1>3 DEF PartOk
    <3>4. QED
      BY <1>8, <3>2, <3>3 DEF AllOk
  <2>2. QED
    BY <2>1 DEF PartOk
<1>11. PartOk(v, Cats, TRUE, MaxSlow)
  <2>1. y.age \in Int /\ MaxSlow \in Int /\ y.age <= MaxSlow
    BY <1>3, CacheNumbers
  <2>2. QED
    BY <1>10, <2>1, PartWider
<1>12. PICK as : as = {a}
  OBVIOUS
<1>13. AnswersOk(as)
  <2>1. MaxSlow + (IF a.what = "tool" THEN 0 ELSE Ttl) = MaxSlow
    BY <1>9, CacheNumbers
  <2>2. (a.what # "tree") = TRUE
    BY <1>9
  <2>3. PartOk(a.view, Cats, a.what # "tree", MaxSlow + IF a.what = "tool" THEN 0 ELSE Ttl)
    BY <1>9, <1>11, <2>1, <2>2
  <2>4. QED
    BY <1>9, <1>12, <2>3 DEF AnswersOk
<1>14. PICK rs : rs = [reader EXCEPT ![r] = NoReader]
  OBVIOUS
<1>15. ReadersOk(rs)
  BY <1>14, OneReader
<1>16. reader' = rs /\ cached' = cached /\ answers' = as /\ Stays
  BY <1>1, <1>4, <1>5, <1>6, <1>12, <1>14 DEF AllShelves, Answer, Cats
<1>17. EntriesOk(cached)
  BY DEF CacheInv
<1>18. QED
  BY <1>13, <1>15, <1>16, <1>17, StaysKeeps

LEMMA SetExKeeps ==
    ASSUME CacheInv, NEW r \in Readers, SetEx(r)
    PROVE  CacheInv'
<1>1. PICK y : y = reader[r]
  OBVIOUS
<1>2. y.stage = "shelves" /\ y \in ReaderRow /\ ReaderOk(y) /\ y # NoReader /\ y.next > Len(Shelves)
  BY <1>1, ReaderIs DEF SetEx
<1>3. /\ y.view \in Overview /\ y.next \in 1..(Len(Shelves) + 1) /\ y.age \in 0..MaxSlow /\ y.what \in Kept
      /\ PartOk(y.view, {Shelves[i] : i \in 1..(y.next - 1)}, y.what = "stats", y.age)
  BY <1>2 DEF ReaderRow, ReaderOk
<1>4. {Shelves[i] : i \in 1..(y.next - 1)} = Cats
  <2>1. y.next - 1 = Len(Shelves)
    BY <1>2, <1>3, ShelvesCount
  <2>2. QED
    BY <2>1, ShelvesAre
<1>5. PartOk(y.view, Cats, y.what = "stats", MaxSlow)
  <2>1. y.age \in Int /\ MaxSlow \in Int /\ y.age <= MaxSlow
    BY <1>3, CacheNumbers
  <2>2. PartOk(y.view, Cats, y.what = "stats", y.age)
    BY <1>3, <1>4
  <2>3. QED
    BY <2>1, <2>2, PartWider
<1>6. PartOk(y.view, Cats, y.what = "stats", MaxSlow + Ttl)
  <2>1. MaxSlow \in Int /\ MaxSlow + Ttl \in Int /\ MaxSlow <= MaxSlow + Ttl
    BY CacheNumbers
  <2>2. QED
    BY <1>5, <2>1, PartWider
<1>7. PICK e : e = [value |-> y.view, left |-> Ttl]
  OBVIOUS
<1>8. e \in CacheRow /\ e.value = y.view /\ e.left = Ttl
  BY <1>3, <1>7, CacheNumbers DEF CacheRow
<1>9. EntryOk(y.what, e)
  <2>1. MaxSlow + Ttl - e.left = MaxSlow
    BY <1>8, CacheNumbers
  <2>2. QED
    BY <1>5, <1>8, <2>1 DEF EntryOk
<1>10. PICK es : es = [cached EXCEPT ![y.what] = e]
  OBVIOUS
<1>11. EntriesOk(es)
  BY <1>3, <1>8, <1>9, <1>10, OneEntry
<1>12. PICK a : a = [what |-> y.what, view |-> y.view]
  OBVIOUS
<1>13. a \in AnswerRow /\ a.what = y.what /\ a.view = y.view
  BY <1>3, <1>12 DEF AnswerRow
<1>14. PICK as : as = {a}
  OBVIOUS
<1>15. AnswersOk(as)
  <2>1. a.what # "tool" /\ (a.what # "tree") = (y.what = "stats")
    BY <1>3, <1>13 DEF Kept
  <2>2. PartOk(a.view, Cats, a.what # "tree", MaxSlow + IF a.what = "tool" THEN 0 ELSE Ttl)
    BY <1>6, <1>13, <2>1
  <2>3. QED
    BY <1>13, <1>14, <2>2 DEF AnswersOk
<1>16. PICK rs : rs = [reader EXCEPT ![r] = NoReader]
  OBVIOUS
<1>17. ReadersOk(rs)
  BY <1>16, OneReader
<1>18. reader' = rs /\ cached' = es /\ answers' = as /\ Stays
  BY <1>1, <1>7, <1>10, <1>12, <1>14, <1>16 DEF SetEx, Answer
<1>19. QED
  BY <1>11, <1>15, <1>17, <1>18, StaysKeeps

LEMMA ReaderFailsKeeps ==
    ASSUME CacheInv, NEW r \in Readers, ReaderFails(r)
    PROVE  CacheInv'
<1>1. PICK rs : rs = [reader EXCEPT ![r] = NoReader]
  OBVIOUS
<1>2. ReadersOk(rs) /\ EntriesOk(cached)
  BY <1>1, OneReader DEF CacheInv
<1>3. reader' = rs /\ cached' = cached /\ answers' = {} /\ Stays
  BY <1>1 DEF ReaderFails, NoAnswer
<1>4. QED
  BY <1>2, <1>3, NoAnswerOk, StaysKeeps

LEMMA ExpireKeeps ==
    ASSUME CacheInv, NEW k \in Kept, Expire(k)
    PROVE  CacheInv'
<1>1. PICK es : es = [cached EXCEPT ![k] = Nothing]
  OBVIOUS
<1>2. EntriesOk(es) /\ ReadersOk(reader)
  BY <1>1, OneEntry DEF CacheInv
<1>3. reader' = reader /\ cached' = es /\ answers' = {} /\ Stays
  BY <1>1 DEF Expire, NoAnswer
<1>4. QED
  BY <1>2, <1>3, NoAnswerOk, StaysKeeps

\* A move only adds to where the note was in this tick.
LEMMA ShelveKeeps ==
    ASSUME CacheInv, NEW p \in Pages, NEW c \in Places, Shelve(p, c)
    PROVE  CacheInv'
<1>1. /\ shelf' = [shelf EXCEPT ![p] = c] /\ was' = [was EXCEPT ![p][0] = @ \cup {c}]
      /\ reader' = reader /\ cached' = cached /\ answers' = {}
  BY DEF Shelve, NoAnswer
<1>2. shelf \in [Pages -> Places] /\ was \in [Pages -> [Ticks -> SUBSET Places]]
      /\ \A n \in Pages : shelf[n] \in was[n][0]
  BY DEF CacheInv, PlacesOk
<1>3. 0 \in Ticks
  BY CacheNumbers
<1>4. PICK h : h = [was[p] EXCEPT ![0] = was[p][0] \cup {c}]
  OBVIOUS
<1>5. was' = [was EXCEPT ![p] = h]
  BY <1>1, <1>2, <1>4
<1>6. /\ h \in [Ticks -> SUBSET Places] /\ h[0] = was[p][0] \cup {c}
      /\ \A t \in Ticks : was[p][t] \subseteq h[t]
  BY <1>2, <1>3, <1>4
<1>7. was' \in [Pages -> [Ticks -> SUBSET Places]]
      /\ \A n \in Pages : was'[n] = IF n = p THEN h ELSE was[n]
  BY <1>2, <1>5, <1>6
<1>8. shelf' \in [Pages -> Places] /\ \A n \in Pages : shelf'[n] = IF n = p THEN c ELSE shelf[n]
  BY <1>1, <1>2
<1>9. PlacesOk'
  BY <1>2, <1>6, <1>7, <1>8 DEF PlacesOk
<1>10. ASSUME NEW n \in Pages, NEW w \in Int, w <= MaxSlow + Ttl
       PROVE  During(n, w) \subseteq During(n, w)'
  <2>1. \A t \in 0..w : t \in Ticks
    BY <1>10, CacheNumbers
  <2>2. \A t \in 0..w : was[n][t] \subseteq was'[n][t]
    BY <1>6, <1>7, <2>1
  <2>3. QED
    BY <2>2 DEF During
<1>11. ASSUME NEW v, NEW D, NEW total \in BOOLEAN, NEW w \in Int, w <= MaxSlow + Ttl, PartOk(v, D, total, w)
       PROVE  PartOk(v, D, total, w)'
  BY <1>10, <1>11, PartLater
<1>12. ASSUME NEW x \in ReaderRow, ReaderOk(x)
       PROVE  ReaderOk(x)'
  <2>1. x.age \in Int /\ x.age <= MaxSlow + Ttl
    BY CacheNumbers DEF ReaderRow
  <2>2. QED
    BY <1>11, <1>12, <2>1 DEF ReaderOk
<1>13. PICK rs : rs = reader
  OBVIOUS
<1>14. ReadersOk(rs)'
  BY <1>12, <1>13 DEF CacheInv, ReadersOk
<1>15. ASSUME NEW k \in Kept, NEW e \in CacheRow, EntryOk(k, e)
       PROVE  EntryOk(k, e)'
  <2>1. MaxSlow + Ttl - e.left \in Int /\ MaxSlow + Ttl - e.left <= MaxSlow + Ttl
    BY CacheNumbers DEF CacheRow
  <2>2. QED
    BY <1>11, <1>15, <2>1 DEF EntryOk
<1>16. PICK es : es = cached
  OBVIOUS
<1>17. EntriesOk(es)'
  BY <1>15, <1>16 DEF CacheInv, EntriesOk
<1>18. AnswersOk({})'
  BY DEF AnswersOk
<1>19. QED
  BY <1>1, <1>9, <1>13, <1>14, <1>16, <1>17, <1>18 DEF CacheInv

\* A tick makes every claim a tick older, and its window a tick wider.
LEMMA NextTickKeeps ==
    ASSUME CacheInv, NextTick
    PROVE  CacheInv'
<1>1. /\ was' = [n \in Pages |-> [t \in Ticks |-> IF t = 0 THEN {shelf[n]} ELSE was[n][t - 1]]]
      /\ answers' = {} /\ shelf' = shelf
  BY DEF NextTick, NoAnswer
<1>2. shelf \in [Pages -> Places] /\ was \in [Pages -> [Ticks -> SUBSET Places]]
  BY DEF CacheInv, PlacesOk
<1>3. 0 \in Ticks /\ \A t \in Ticks : t # 0 => t - 1 \in Ticks
  BY CacheNumbers
<1>4. \A n \in Pages : \A t \in Ticks : was'[n][t] = IF t = 0 THEN {shelf[n]} ELSE was[n][t - 1]
  BY <1>1
<1>5. PlacesOk'
  <2>1. ASSUME NEW n \in Pages
        PROVE  [t \in Ticks |-> IF t = 0 THEN {shelf[n]} ELSE was[n][t - 1]] \in [Ticks -> SUBSET Places]
    BY <1>2, <1>3
  <2>2. was' \in [Pages -> [Ticks -> SUBSET Places]]
    BY <1>1, <2>1
  <2>3. QED
    BY <1>1, <1>2, <1>3, <1>4, <2>2 DEF PlacesOk
<1>6. ASSUME NEW n \in Pages, NEW w \in Int, w + 1 <= MaxSlow + Ttl
      PROVE  During(n, w) \subseteq During(n, w + 1)'
  <2>1. ASSUME NEW t \in 0..w
        PROVE  was[n][t] \subseteq During(n, w + 1)'
    <3>1. t + 1 \in 0..(w + 1) /\ t + 1 \in Ticks /\ t + 1 # 0 /\ (t + 1) - 1 = t
      BY <1>6, CacheNumbers
    <3>2. was'[n][t + 1] = was[n][t]
      BY <1>4, <3>1
    <3>3. QED
      BY <3>1, <3>2 DEF During
  <2>2. QED
    BY <2>1 DEF During
<1>7. ASSUME NEW v, NEW D, NEW total \in BOOLEAN, NEW w \in Int, w + 1 <= MaxSlow + Ttl,
             PartOk(v, D, total, w)
      PROVE  PartOk(v, D, total, w + 1)'
  BY <1>6, <1>7, PartLater
<1>8. PICK rs : rs = [r \in Readers |-> IF reader[r] = NoReader THEN NoReader
                                       ELSE [reader[r] EXCEPT !.age = @ + 1]]
  OBVIOUS
<1>9. reader' = rs /\ \A r \in Readers : reader[r] # NoReader => reader[r].age < MaxSlow
  BY <1>8 DEF NextTick
<1>10. ASSUME NEW r \in Readers, reader[r] # NoReader
       PROVE  rs[r] \in ReaderRow /\ ReaderOk(rs[r])'
  <2>1. PICK y : y = reader[r]
    OBVIOUS
  <2>2. y \in ReaderRow /\ ReaderOk(y) /\ y.age < MaxSlow
    BY <1>9, <1>10, <2>1 DEF CacheInv, ReadersOk
  <2>3. PICK x : x = [y EXCEPT !.age = y.age + 1]
    OBVIOUS
  <2>4. y.age \in 0..MaxSlow /\ y.age + 1 \in 0..MaxSlow
    BY <2>2, CacheNumbers DEF ReaderRow
  <2>5. /\ x \in ReaderRow /\ x.age = y.age + 1 /\ x.stage = y.stage /\ x.what = y.what
        /\ x.next = y.next /\ x.view = y.view
    BY <2>2, <2>3, <2>4 DEF ReaderRow
  <2>6. y.age \in Int /\ y.age + 1 <= MaxSlow + Ttl
    BY <2>4, CacheNumbers
  <2>7. ReaderOk(x)'
    <3>1. ASSUME x.stage = "shelves"
          PROVE  /\ x.what \in Kept
                 /\ PartOk(x.view, {Shelves[i] : i \in 1..(x.next - 1)}, x.what = "stats", x.age)'
      <4>1. y.what \in Kept /\ PartOk(y.view, {Shelves[i] : i \in 1..(y.next - 1)}, y.what = "stats", y.age)
        BY <2>2, <2>5, <3>1 DEF ReaderOk
      <4>2. PartOk(y.view, {Shelves[i] : i \in 1..(y.next - 1)}, y.what = "stats", y.age + 1)'
        BY <1>7, <2>6, <4>1
      <4>3. QED
        BY <2>5, <4>1, <4>2
    <3>2. ASSUME x.stage = "grouped"
          PROVE  x.what = "tool" /\ PartOk(x.view, {}, TRUE, x.age)'
      <4>1. y.what = "tool" /\ PartOk(y.view, {}, TRUE, y.age)
        BY <2>2, <2>5, <3>2 DEF ReaderOk
      <4>2. PartOk(y.view, {}, TRUE, y.age + 1)'
        BY <1>7, <2>6, <4>1
      <4>3. QED
        BY <2>5, <4>1, <4>2
    <3>3. x.stage = "total" => x.what \in {"stats", "tool"} /\ x.next = 1
      BY <2>2, <2>5 DEF ReaderOk
    <3>4. QED
      BY <3>1, <3>2, <3>3 DEF ReaderOk
  <2>8. rs[r] = x
    BY <1>8, <1>10, <2>1, <2>3
  <2>9. QED
    BY <2>5, <2>7, <2>8
<1>11. \A r \in Readers : reader[r] = NoReader => rs[r] = NoReader
  BY <1>8
<1>12. ReadersOk(rs)'
  <2>1. rs \in [Readers -> ReaderRow \cup {NoReader}]
    BY <1>8, <1>10, <1>11
  <2>2. QED
    BY <1>10, <1>11, <2>1 DEF ReadersOk
<1>13. PICK es : es = [k \in Kept |-> IF cached[k] = Nothing \/ cached[k].left = 0 THEN Nothing
                                      ELSE [cached[k] EXCEPT !.left = @ - 1]]
  OBVIOUS
<1>14. cached' = es
  BY <1>13 DEF NextTick
<1>15. ASSUME NEW k \in Kept, es[k] # Nothing
       PROVE  es[k] \in CacheRow /\ EntryOk(k, es[k])'
  <2>1. PICK d : d = cached[k]
    OBVIOUS
  <2>2. d # Nothing /\ d.left # 0 /\ es[k] = [d EXCEPT !.left = d.left - 1]
    BY <1>13, <1>15, <2>1
  <2>3. d \in CacheRow /\ EntryOk(k, d)
    BY <2>1, <2>2 DEF CacheInv, EntriesOk
  <2>4. PICK e : e = [d EXCEPT !.left = d.left - 1]
    OBVIOUS
  <2>5. d.left \in 0..Ttl /\ d.left - 1 \in 0..Ttl
    BY <2>2, <2>3, CacheNumbers DEF CacheRow
  <2>6. e \in CacheRow /\ e.value = d.value /\ e.left = d.left - 1
    BY <2>3, <2>4, <2>5 DEF CacheRow
  <2>7. /\ MaxSlow + Ttl - d.left \in Int
        /\ (MaxSlow + Ttl - d.left) + 1 <= MaxSlow + Ttl
        /\ (MaxSlow + Ttl - d.left) + 1 = MaxSlow + Ttl - e.left
    BY <2>5, <2>6, CacheNumbers
  <2>8. PartOk(d.value, Cats, k = "stats", MaxSlow + Ttl - d.left)
    BY <2>3 DEF EntryOk
  <2>9. PartOk(d.value, Cats, k = "stats", (MaxSlow + Ttl - d.left) + 1)'
    BY <1>7, <2>7, <2>8
  <2>10. EntryOk(k, e)'
    BY <2>6, <2>7, <2>9 DEF EntryOk
  <2>11. QED
    BY <2>2, <2>4, <2>6, <2>10
<1>16. EntriesOk(es)'
  <2>1. es \in [Kept -> CacheRow \cup {Nothing}]
    BY <1>13, <1>15
  <2>2. QED
    BY <1>15, <2>1 DEF EntriesOk
<1>17. AnswersOk({})'
  BY DEF AnswersOk
<1>18. QED
  BY <1>1, <1>5, <1>9, <1>12, <1>14, <1>16, <1>17 DEF CacheInv

LEMMA CacheInvStep == CacheInv /\ [\E key \in Kept : CacheNext(key)]_cacheVars => CacheInv'
<1> SUFFICES ASSUME CacheInv, [\E key \in Kept : CacheNext(key)]_cacheVars PROVE CacheInv'
  OBVIOUS
<1>1. CASE UNCHANGED cacheVars
  <2>1. /\ reader' = reader /\ cached' = cached /\ answers' = answers /\ Stays
        /\ ReadersOk(reader) /\ EntriesOk(cached) /\ AnswersOk(answers)
    BY <1>1 DEF cacheVars, Stays, CacheInv
  <2>2. QED
    BY <2>1, StaysKeeps
<1>2. ASSUME NEW n \in Pages, NEW c \in ToSet(Shelves) \cup {"nowhere"}, Shelve(n, c)
      PROVE  CacheInv'
  BY <1>2, ShelveKeeps DEF Places, Cats
<1>3. QED
  BY <1>1, <1>2, HitKeeps, MissKeeps, ToolReadsKeeps, TotalKeeps, OneShelfKeeps, AllShelvesKeeps,
     SetExKeeps, ReaderFailsKeeps, ExpireKeeps, NextTickKeeps DEF CacheNext

LEMMA FreshAnswers == CacheInv => AnswersFresh
<1> SUFFICES ASSUME CacheInv, NEW a \in answers, NEW n \in Pages
             PROVE  LET late == Lately(n, a.what)
                        seen == {c \in ToSet(Shelves) : n \in a.view.on[c]}
                    IN
                    /\ seen \subseteq late
                    /\ Cardinality(late) = 1 => seen = late \ {"nowhere"}
                    /\ a.what # "tree" /\ Cardinality(late) = 1 => (n \in a.view.all <=> late # {"nowhere"})
  BY DEF AnswersFresh
<1>1. PICK w : w = MaxSlow + IF a.what = "tool" THEN 0 ELSE Ttl
  OBVIOUS
<1>2. PICK L : L = Lately(n, a.what)
  OBVIOUS
<1>3. L = During(n, w)
  BY <1>1, <1>2 DEF Lately, During
<1>4. PartOk(a.view, Cats, a.what # "tree", w)
  BY <1>1 DEF CacheInv, AnswersOk
<1>5. (\A c \in Cats : OnOk(a.view, n, c, L)) /\ (a.what # "tree" => AllOk(a.view, n, L))
  BY <1>3, <1>4 DEF PartOk
<1>6. PICK seen : seen = {c \in Cats : n \in a.view.on[c]}
  OBVIOUS
<1>7. seen \subseteq L
  BY <1>5, <1>6 DEF OnOk
<1>8. ASSUME Cardinality(L) = 1
      PROVE  \E p : L = {p}
  <2>1. w \in Int /\ w <= MaxSlow + Ttl
    BY <1>1, CacheNumbers
  <2>2. \A t \in 0..w : t \in Ticks
    BY <2>1, CacheNumbers
  <2>3. L \in SUBSET Places
    BY <1>3, <2>2 DEF During, CacheInv, PlacesOk
  <2>4. IsFiniteSet(L)
    BY <2>3, PlacesFinite, FS_Subset
  <2>5. QED
    BY <1>8, <2>4, FS_Singleton
<1>9. ASSUME NEW p, L = {p}
      PROVE  /\ seen = L \ {"nowhere"}
             /\ a.what # "tree" => (n \in a.view.all <=> L # {"nowhere"})
  <2>1. "nowhere" \notin Cats
    BY ShelvesAre
  <2>2. seen \subseteq L \ {"nowhere"}
    BY <1>6, <1>7, <2>1
  <2>3. p \in Places
    <3>1. w \in Nat
      BY <1>1, CacheNumbers
    <3>2. shelf[n] \in L /\ shelf[n] \in Places
      BY <1>3, <3>1, NowIsDuring DEF CacheInv
    <3>3. QED
      BY <1>9, <3>2
  <2>4. p # "nowhere" => p \in seen
    BY <1>5, <1>6, <1>9, <2>3 DEF OnOk, Places
  <2>5. a.what # "tree" => (n \in a.view.all <=> L # {"nowhere"})
    BY <1>5, <1>9 DEF AllOk
  <2>6. QED
    BY <1>9, <2>2, <2>4, <2>5
<1>10. QED
  BY <1>2, <1>6, <1>7, <1>8, <1>9 DEF Cats

\* However long the time to live, however slow the requests and however they,
\* the moves, the expiry and the ticks interleave: what an answer says of a note
\* was true within the last ticks, and of a note that stayed it says all.
THEOREM AnswersAreFresh == CacheSpec => []AnswersFresh
BY CacheInvInit, CacheInvStep, FreshAnswers, PTL DEF CacheSpec

=============================================================================
