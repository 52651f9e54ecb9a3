------------------------------ MODULE Planner ------------------------------
(***************************************************************************)
(* The plan for the next days, of the API and of para_plan: the notes that *)
(* are due, those with action items, and the stale projects, from three    *)
(* queries, put in order of urgency.  Notes change between the queries,    *)
(* each of which sees what is committed by then.                           *)
(***************************************************************************)
EXTENDS Integers, Sequences, FiniteSets, SequencesExt

CONSTANTS
    Jobs,        \* the notes
    Deadlines,   \* days from today, those past negative
    Horizon,     \* horizon_days
    Rows,        \* bound: the rows notes may have
    MaxAlterations \* bound: changes during a plan

ASSUME PlannerAssumption ==
    /\ IsFiniteSet(Jobs) /\ Deadlines \subseteq Int
    /\ Horizon \in Nat /\ MaxAlterations \in Nat

VARIABLES
    job,       \* job[n]: the row
    caller,    \* "api" or "para_plan"
    plan,      \* the plan in the making
    updates    \* changes since it began

planVars == <<job, caller, plan, updates>>

Weight == [urgent |-> 4, medium |-> 2]

\* items says whether there are action items and whether one is not done.
\* The deadline counts where dated.
JobRow == [active : BOOLEAN, dated : BOOLEAN, due : Deadlines, priority : DOMAIN Weight,
           items : {"none", "done", "open"}, stale : BOOLEAN]

ASSUME RowsAssumption == Rows \subseteq JobRow

PlanInit ==
    /\ job \in [Jobs -> Rows] /\ caller \in {"api", "para_plan"}
    /\ plan = [stage |-> "due", due |-> {}, stale |-> {}, list |-> <<>>, focus |-> {}]
    /\ updates = 0

InHorizon(n) == job[n].active /\ job[n].dated /\ job[n].due \in 0..Horizon

\* The API takes any note with items, para_plan one that has an item to do.
InProgress(n) ==
    job[n].active /\ job[n].items \in IF caller = "api" THEN {"done", "open"} ELSE {"open"}

Entry(n) == [note |-> n, dated |-> job[n].dated, due |-> job[n].due, priority |-> job[n].priority]

\* days_left in the key.
DaysLeft(e) == IF e.dated THEN e.due ELSE 9999

\* Less is more urgent: with a deadline first, then the nearest, then the weightiest.
Before(x, y) ==
    \/ x.dated /\ ~y.dated
    \/ x.dated = y.dated /\ \/ DaysLeft(x) < DaysLeft(y)
                            \/ DaysLeft(x) = DaysLeft(y) /\ Weight[x.priority] > Weight[y.priority]

Orders(S) == {s \in SetToSeqs(S) : \A i, k \in DOMAIN s : i < k => ~Before(s[k], s[i])}

\* Their order by deadline does not outlive the sort.
DueRows ==
    /\ plan.stage = "due"
    /\ plan' = [plan EXCEPT !.stage = "stale", !.due = {Entry(n) : n \in {m \in Jobs : InHorizon(m)}}]
    /\ UNCHANGED <<job, caller, updates>>

StaleRows ==
    /\ plan.stage = "stale"
    /\ plan' = [plan EXCEPT !.stage = "progress",
                            !.stale = {n \in Jobs : job[n].active /\ job[n].stale}]
    /\ UNCHANGED <<job, caller, updates>>

\* Slip: a note that is due is listed again.
AllRows(rows) == rows

\* Those that are due are listed already.
Unlisted(rows) == {e \in rows : \A d \in plan.due : d.note # e.note}

\* The rest, and the sort; the equally urgent come in any order.
ProgressRows ==
    /\ plan.stage = "progress"
    /\ \E s \in Orders(plan.due \cup Unlisted({Entry(n) : n \in {m \in Jobs : InProgress(m)}})) :
         plan' = [plan EXCEPT !.stage = "focus", !.list = s]
    /\ UNCHANGED <<job, caller, updates>>

\* The model names the focus, which may be anything; if it fails the first entry
\* is, or a stale project.
Focus ==
    /\ plan.stage = "focus"
    /\ plan' = [plan EXCEPT !.stage = "done",
                  !.focus = IF plan.list # <<>> THEN {Head(plan.list).note} ELSE plan.stale]
    /\ UNCHANGED <<job, caller, updates>>

\* Somebody changes a note.
AlterJob(n, row) ==
    /\ plan.stage \in {"stale", "progress"} /\ updates < MaxAlterations
    /\ updates' = updates + 1
    /\ job' = [job EXCEPT ![n] = row]
    /\ UNCHANGED <<caller, plan>>

PlanNext ==
    \/ DueRows \/ StaleRows \/ ProgressRows \/ Focus
    \/ \E n \in Jobs : \E row \in Rows : AlterJob(n, row)

(***************************************************************************)
(* Properties                                                              *)
(***************************************************************************)

\* A plan lists no note twice, whatever changed between its queries, and none with a
\* deadline after one with a later deadline or with none, however far away the
\* deadlines are; if nothing changed it lists exactly the active notes that are due
\* within the horizon or in progress. A note whose deadline has passed is first if
\* it has items, and missing if it has none.
PlanSane ==
    plan.stage \in {"focus", "done"} =>
      LET l == plan.list  listed == {l[i].note : i \in DOMAIN l} IN
      /\ Cardinality(listed) = Len(l)
      /\ \A i, k \in DOMAIN l : i < k => (l[k].dated => l[i].dated /\ l[i].due <= l[k].due)
      /\ updates = 0 =>
           /\ listed = {n \in Jobs : InHorizon(n) \/ InProgress(n)}
           /\ \A n \in Jobs : job[n].active /\ job[n].dated /\ job[n].due < 0 /\ l # <<>> =>
                IF InProgress(n) THEN l[1].dated /\ l[1].due < 0 ELSE n \notin listed
=============================================================================
