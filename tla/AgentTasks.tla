---------------------------- MODULE AgentTasks ----------------------------
(***************************************************************************)
(* Tasks for agents: the daily job that proposes or creates them for notes *)
(* that are due or stale, the approval of proposals on Telegram, tasks     *)
(* made by hand, and the reports that finish them.  The job looks for an   *)
(* open task when it collects, and creates or proposes after it has        *)
(* collected everything.  On PostgreSQL its tasks are committed together   *)
(* at the end; on SQLite each at once, and a report of success keeps every *)
(* other writer out while the model is asked.                              *)
(***************************************************************************)
EXTENDS Naturals, Sequences, FiniteSets, SequencesExt

CONSTANTS
    Topics,      \* the notes tasks are about
    Reporters,   \* the agents that report
    MaxRuns,     \* bound: runs of the daily job
    MaxTasks,    \* bound: tasks
    MaxOthers    \* bound: what happens besides

ASSUME TasksAssumption ==
    /\ IsFiniteSet(Topics) /\ {MaxRuns, MaxTasks, MaxOthers} \subseteq Nat

VARIABLES
    base,       \* "pg" or "sqlite"
    level,      \* AUTONOMY_LEVEL
    causes,     \* causes[n]: why the job would take note n
    gone,       \* the notes that were deleted
    tasks,      \* the rows: note, status, the tasks there were at the look
    proposals,  \* the messages with an Approve button
    run,        \* the run of the job, or NoRun
    reporting,  \* reporting[a]: the task agent a reports on, or 0
    noted,      \* noted[t]: the notes made from the reports on task t
    runsDone, others

taskVars == <<base, level, causes, gone, tasks, proposals, run, reporting, noted, runsDone, others>>

Nobody == "nobody"
NoRun == [stage |-> "none"]
Open == {"pending", "dispatched"}
Causes == {"due", "stale"}

\* look is how many tasks there were when the job looked for an open one, or
\* none if it did not.
NoLook == MaxTasks + 1
Task(n, k) == [note |-> n, status |-> "pending", look |-> k]
Proposal(n, k) == [note |-> n, look |-> k]

TasksInit ==
    /\ base \in {"pg", "sqlite"}
    /\ level \in {"suggest_only", "auto_approve", "full_auto"}
    /\ causes \in [Topics -> SUBSET Causes]
    /\ gone = {} /\ tasks = <<>> /\ proposals = {} /\ run = NoRun
    /\ reporting = [a \in Reporters |-> 0] /\ noted = <<>>
    /\ runsDone = 0 /\ others = 0

\* On SQLite the write lock is held from the update of a completed task to the
\* commit after the model call.
WriteLocked == base = "sqlite" /\ \E a \in Reporters : reporting[a] > 0

Insert(rows) ==
    /\ tasks' = tasks \o rows
    /\ noted' = noted \o [i \in 1..Len(rows) |-> 0]

(***************************************************************************)
(* The daily job                                                           *)
(***************************************************************************)

\* A query finds the notes that are due, or those that are stale.
Query(why) ==
    /\ \/ run = NoRun /\ runsDone < MaxRuns /\ why = "due"
          /\ runsDone' = runsDone + 1
          /\ run' = [stage |-> why, found |-> {n \in Topics \ gone : why \in causes[n]},
                     wanted |-> <<>>, fresh |-> <<>>]
       \/ run # NoRun /\ run.stage = "due" /\ run.found = {} /\ why = "stale"
          /\ run' = [run EXCEPT !.stage = why,
                                !.found = {n \in Topics \ gone : why \in causes[n]}]
          /\ UNCHANGED runsDone
    /\ UNCHANGED <<base, level, causes, gone, tasks, proposals, reporting, noted, others>>

\* Slip: only what an agent has picked up is open.
HasTaken(n) == \E i \in DOMAIN tasks : tasks[i].note = n /\ tasks[i].status = "dispatched"

HasPending(n) == \E i \in DOMAIN tasks : tasks[i].note = n /\ tasks[i].status \in Open

\* Each note found is looked up; those without an open task are wanted.
Look(n) ==
    /\ run # NoRun /\ run.stage \in Causes /\ n \in run.found
    /\ run' = [run EXCEPT !.found = @ \ {n},
                          !.wanted = IF HasPending(n) THEN @
                                     ELSE Append(@, Proposal(n, Len(tasks)))]
    /\ UNCHANGED <<base, level, causes, gone, tasks, proposals, reporting, noted, runsDone, others>>

Dispatching == run # NoRun /\ run.stage = "stale" /\ run.found = {} /\ run.wanted # <<>>
Rest == [run EXCEPT !.wanted = Tail(@)]

\* suggest_only: a message, which may fail to be sent.
Suggest ==
    /\ Dispatching /\ level = "suggest_only"
    /\ \/ proposals' = proposals \cup {Head(run.wanted)}
       \/ UNCHANGED proposals
    /\ run' = Rest
    /\ UNCHANGED <<base, level, causes, gone, tasks, reporting, noted, runsDone, others>>

\* The other levels create the task: into the transaction of the run ...
CreatePg ==
    /\ Dispatching /\ level # "suggest_only" /\ base = "pg"
    /\ Len(tasks) + Len(run.fresh) < MaxTasks
    /\ LET p == Head(run.wanted) IN
       run' = IF p.note \in gone
                THEN NoRun   \* the flush fails, and with it the rest of the session
                ELSE [Rest EXCEPT !.fresh = Append(@, Task(p.note, p.look))]
    /\ UNCHANGED <<base, level, causes, gone, tasks, proposals, reporting, noted, runsDone, others>>

\* ... or for good. A wait for the write lock that is too long drops the proposal.
CreateSqlite ==
    /\ Dispatching /\ level # "suggest_only" /\ base = "sqlite"
    /\ Len(tasks) < MaxTasks
    /\ LET p == Head(run.wanted) IN
       IF WriteLocked THEN UNCHANGED <<tasks, noted>> ELSE Insert(<<Task(p.note, p.look)>>)
    /\ run' = Rest
    /\ UNCHANGED <<base, level, causes, gone, proposals, reporting, runsDone, others>>

\* The commit at the end; a note that is gone by then is no longer named.
EndRun ==
    /\ run # NoRun /\ run.stage = "stale" /\ run.found = {} /\ run.wanted = <<>>
    /\ Insert([i \in DOMAIN run.fresh |->
                 IF run.fresh[i].note \in gone THEN [run.fresh[i] EXCEPT !.note = Nobody]
                 ELSE run.fresh[i]])
    /\ run' = NoRun
    /\ UNCHANGED <<base, level, causes, gone, proposals, reporting, runsDone, others>>

(***************************************************************************)
(* Everybody else                                                          *)
(***************************************************************************)

Other == others < MaxOthers /\ others' = others + 1

\* The Approve button: the task is created without a look, as often as it is pressed.
Approve(p) ==
    /\ Other /\ ~WriteLocked
    /\ p.note \notin gone /\ Len(tasks) < MaxTasks
    /\ Insert(<<Task(p.note, p.look)>>)
    /\ UNCHANGED <<base, level, causes, gone, proposals, run, reporting, runsDone>>

\* para_create_task, and the endpoint of the API.
CreateByHand(n) ==
    /\ Other /\ ~WriteLocked
    /\ n \notin gone /\ Len(tasks) < MaxTasks
    /\ Insert(<<Task(n, NoLook)>>)
    /\ UNCHANGED <<base, level, causes, gone, proposals, run, reporting, runsDone>>

\* A note becomes due or stale, or stops being so.
Change(n, why) ==
    /\ Other
    /\ causes' = [causes EXCEPT ![n] = why]
    /\ UNCHANGED <<base, level, gone, tasks, proposals, run, reporting, noted, runsDone>>

\* The note is deleted: its tasks stay and name no note. A run that has created
\* tasks for it holds the row, and the delete waits.
Forget(n) ==
    /\ Other /\ base = "pg"
    /\ ~(run # NoRun /\ \E i \in DOMAIN run.fresh : run.fresh[i].note = n)
    /\ gone' = gone \cup {n}
    /\ tasks' = [i \in DOMAIN tasks |-> IF tasks[i].note = n THEN [tasks[i] EXCEPT !.note = Nobody]
                                        ELSE tasks[i]]
    /\ UNCHANGED <<base, level, causes, proposals, run, reporting, noted, runsDone>>

\* A report of success, whatever the status of the task: para_task_result on
\* PostgreSQL, complete_task on SQLite. The model is asked what kind of note the
\* result of a task with a note makes.
Report(a, t) ==
    /\ Other /\ ~WriteLocked
    /\ reporting[a] = 0
    /\ reporting' = [reporting EXCEPT ![a] = t]
    /\ UNCHANGED <<base, level, causes, gone, tasks, proposals, run, noted, runsDone>>

\* If making the note fails the task is completed all the same.
Reported(a, ok) ==
    LET t == reporting[a] IN
    /\ t > 0
    /\ tasks' = [tasks EXCEPT ![t].status = "completed"]
    /\ noted' = [noted EXCEPT ![t] = IF ok /\ tasks[t].note # Nobody THEN @ + 1 ELSE @]
    /\ reporting' = [reporting EXCEPT ![a] = 0]
    /\ UNCHANGED <<base, level, causes, gone, proposals, run, runsDone, others>>

\* fail_task, on SQLite only, whatever the status.
Fail(t) ==
    /\ Other /\ base = "sqlite" /\ ~WriteLocked
    /\ tasks' = [tasks EXCEPT ![t].status = "failed"]
    /\ UNCHANGED <<base, level, causes, gone, proposals, run, reporting, noted, runsDone>>

\* The process of a reporter dies, or its commit fails: nothing of the report stays.
ReporterDies(a) ==
    /\ Other /\ reporting[a] > 0
    /\ reporting' = [reporting EXCEPT ![a] = 0]
    /\ UNCHANGED <<base, level, causes, gone, tasks, proposals, run, noted, runsDone>>

TasksNext ==
    \/ \E why \in Causes : Query(why)
    \/ \E n \in Topics : Look(n) \/ CreateByHand(n) \/ Forget(n)
    \/ Suggest \/ CreatePg \/ CreateSqlite \/ EndRun
    \/ \E p \in proposals : Approve(p)
    \/ \E n \in Topics : \E why \in SUBSET Causes : Change(n, why)
    \/ \E a \in Reporters :
         \/ \E t \in DOMAIN tasks : Report(a, t)
         \/ \E ok \in BOOLEAN : Reported(a, ok)
         \/ ReporterDies(a)
    \/ \E t \in DOMAIN tasks : Fail(t)

(***************************************************************************)
(* Properties                                                              *)
(***************************************************************************)

\* If a note has two open tasks and one of them was created by the daily job or
\* from one of its proposals, the other one was made only after the job had
\* looked: whether the second cause of the same run, a press that came late or
\* was repeated, or a task made by hand. What was open at the look never gets
\* company, from however many runs.
OneOpenTask ==
    \A i, j \in DOMAIN tasks :
      /\ i # j /\ tasks[i].note = tasks[j].note /\ tasks[i].note # Nobody
      /\ {tasks[i].status, tasks[j].status} \subseteq Open
      /\ tasks[j].look # NoLook
      => i > tasks[j].look
=============================================================================
