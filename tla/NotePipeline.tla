---------------------------- MODULE NotePipeline ----------------------------
(***************************************************************************)
(* One note between the API and the worker: the requests of routes_v2.py   *)
(* and the classify and embed handlers of worker.py work on the same row   *)
(* of PostgreSQL in transactions of their own, and the requests publish    *)
(* tasks for the worker before they commit.                                *)
(*                                                                         *)
(* A request is one transaction: get_db commits after the route function   *)
(* has returned and rolls back if it raised.  An UPDATE or DELETE locks    *)
(* the row until the end of its transaction; a SELECT sees the last        *)
(* committed row and waits for nobody (READ COMMITTED).  The worker is one *)
(* process that runs one handler at a time; its queue is TaskDelivery's:   *)
(* tasks of a topic differ in nothing here, so a number stands for them.   *)
(***************************************************************************)
EXTENDS Naturals, FiniteSets

CONSTANTS
    Requests,     \* the requests made for the note; one of them creates it
    Texts,        \* the note's texts
    Categories,   \* the PARA categories, "archives" among them
    NoText,       \* the embedding of a note that was never embedded
    Nobody,       \* no request
    MaxFaults     \* bound: requests that fail, tasks lost, embeddings refused

ASSUME NoteAssumption ==
    /\ Nobody \notin Requests
    /\ NoText \notin Texts
    /\ "archives" \in Categories
    /\ MaxFaults \in Nat
    /\ IsFiniteSet(Requests)
    /\ Texts # {}

VARIABLES
    exists,    \* the row is committed and not deleted
    row,       \* the row; the one create_note has flushed until that commits
    lock,      \* the request whose transaction holds the row, or Nobody
    pc,        \* pc[r]: where the route function of r is
    op,        \* op[r]: the route
    seen,      \* seen[r]: the row r read at its start ("existing")
    change,    \* change[r]: the columns r's UPDATE sets, with their values
    hit,       \* hit[r]: the UPDATE found the row
    unsent,    \* unsent[r]: the topics r has still to publish to
    queued,    \* queued[t]: tasks of the note that wait
    work,      \* the topic of the handler that runs, or "none"
    snap,      \* the row as the handler loaded it
    faults,    \* failures so far
    feedback,  \* corrections recorded
    moves,     \* committed moves to another category
    userText,  \* the text of the last committed create or edit
    excused    \* the vector may stay behind the text (see StaleNeedsCause)

rowVars == <<exists, row, lock>>
requestVars == <<pc, op, seen, change, hit, unsent>>
workerVars == <<work, snap>>
countVars == <<feedback, moves, userText>>
vars == <<rowVars, requestVars, queued, workerVars, faults, countVars, excused>>

Topics == {"classify", "embed", "backfill"}
Routes == {"create_note", "update_note", "move_note", "archive_note",
           "reclassify_note", "delete_note"}
Locations == {"new", "llm", "write", "publish", "feedback", "commit", "done"}

\* The columns the handlers and the routes use. vector names the text it was
\* computed from.
Row == [text : Texts, category : Categories, status : {"active", "archived"},
        vector : Texts \cup {NoText}, embedding_status : {"pending", "done", "failed"}]

\* What an UPDATE may set.
Change == [text : Texts] \cup [category : Categories]
            \cup [category : {"archives"}, status : {"archived"}]

TypeOK ==
    /\ exists \in BOOLEAN /\ row \in Row /\ lock \in Requests \cup {Nobody}
    /\ pc \in [Requests -> Locations] /\ op \in [Requests -> Routes]
    /\ seen \in [Requests -> Row] /\ change \in [Requests -> Change]
    /\ hit \in [Requests -> BOOLEAN] /\ unsent \in [Requests -> SUBSET Topics]
    /\ queued \in [Topics -> Nat]
    /\ work \in Topics \cup {"none"} /\ snap \in Row
    /\ faults \in 0..MaxFaults
    /\ feedback \in Nat /\ moves \in Nat
    /\ userText \in Texts /\ excused \in BOOLEAN

SomeText == CHOOSE t \in Texts : TRUE
BlankRow == [text |-> SomeText, category |-> "archives", status |-> "active",
             vector |-> NoText, embedding_status |-> "pending"]

Init ==
    /\ exists = FALSE /\ row = BlankRow /\ lock = Nobody
    /\ pc = [r \in Requests |-> "new"]
    /\ op = [r \in Requests |-> "create_note"]
    /\ seen = [r \in Requests |-> BlankRow]
    /\ change = [r \in Requests |-> [text |-> SomeText]]
    /\ hit = [r \in Requests |-> FALSE]
    /\ unsent = [r \in Requests |-> {}]
    /\ queued = [t \in Topics |-> 0]
    /\ work = "none" /\ snap = BlankRow
    /\ faults = 0 /\ feedback = 0 /\ moves = 0
    /\ userText = SomeText /\ excused = FALSE

Goto(r, l) == pc' = [pc EXCEPT ![r] = l]

\* Slip: the columns the request does not name are set to null.
UpdatedPut(old, c) == [f \in DOMAIN old |-> IF f \in DOMAIN c THEN c[f] ELSE NoText]

\* An UPDATE sets the columns it names and leaves the others as they are.
Updated(old, c) == [f \in DOMAIN old |-> IF f \in DOMAIN c THEN c[f] ELSE old[f]]

(***************************************************************************)
(* The routes                                                              *)
(***************************************************************************)

\* create_note, up to the flush of its INSERT: nobody else sees the row. The
\* category comes from the model or is the inbox.
CreateNote(r, t, c) ==
    /\ pc[r] = "new"
    /\ \A s \in Requests : pc[s] = "new"
    /\ op' = [op EXCEPT ![r] = "create_note"]
    /\ row' = [BlankRow EXCEPT !.text = t, !.category = c]
    /\ hit' = [hit EXCEPT ![r] = TRUE]
    /\ lock' = r
    /\ unsent' = [unsent EXCEPT ![r] = {"classify", "embed"}]
    /\ Goto(r, "publish")
    /\ UNCHANGED <<exists, seen, change, queued, workerVars, faults, countVars, excused>>

\* The other routes begin with _fetch_note ...
Fetch(r, route, c, l) ==
    /\ pc[r] = "new"
    /\ exists
    /\ op' = [op EXCEPT ![r] = route]
    /\ seen' = [seen EXCEPT ![r] = row]
    /\ change' = [change EXCEPT ![r] = c]
    /\ Goto(r, l)
    /\ UNCHANGED <<rowVars, hit, unsent, queued, workerVars, faults, countVars, excused>>

\* ... and know what to write, at once or after the model has answered.
FetchNote(r) ==
    \/ \E t \in Texts : Fetch(r, "update_note", [text |-> t], "write")
    \/ \E c \in Categories : Fetch(r, "update_note", [category |-> c], "write")
    \/ \E c \in Categories : Fetch(r, "move_note", [category |-> c], "write")
    \/ Fetch(r, "archive_note", [category |-> "archives", status |-> "archived"], "write")
    \/ \E c \in Categories : Fetch(r, "reclassify_note", [category |-> c], "llm")
    \/ Fetch(r, "delete_note", change[r], "write")

LlmAnswers(r) ==
    /\ pc[r] = "llm"
    /\ Goto(r, "write")
    /\ UNCHANGED <<rowVars, op, seen, change, hit, unsent, queued, workerVars,
                   faults, countVars, excused>>

\* update_note compares the new content, if there is one, with what it read at
\* its start.
SetsText(r) == op[r] = "update_note" /\ "text" \in DOMAIN change[r]
EditsText(r) == SetsText(r) /\ change[r].text # seen[r].text
ChangesCategory(r) == op[r] = "move_note" /\ change[r].category # seen[r].category

AfterWrite(r) ==
    CASE EditsText(r) -> "publish"
      [] ChangesCategory(r) -> "feedback"
      [] OTHER -> "commit"

\* The UPDATE or DELETE. It waits for the transaction that holds the row; a row
\* that is gone by then is not found, which nobody notices yet.
Write(r) ==
    /\ pc[r] = "write"
    /\ lock = Nobody
    /\ lock' = IF exists THEN r ELSE Nobody
    /\ hit' = [hit EXCEPT ![r] = exists]
    /\ unsent' = [unsent EXCEPT ![r] = IF EditsText(r) THEN {"embed"} ELSE {}]
    /\ Goto(r, AfterWrite(r))
    /\ UNCHANGED <<exists, row, op, seen, change, queued, workerVars, faults,
                   countVars, excused>>

\* create_note publishes classify, then embed (then link); update_note embed.
NextTopic(r) == IF "classify" \in unsent[r] THEN "classify" ELSE "embed"

Publish(r) ==
    /\ pc[r] = "publish"
    /\ queued' = [queued EXCEPT ![NextTopic(r)] = @ + 1]
    /\ unsent' = [unsent EXCEPT ![r] = @ \ {NextTopic(r)}]
    /\ Goto(r, IF unsent[r] = {NextTopic(r)} THEN "commit" ELSE "publish")
    /\ UNCHANGED <<rowVars, op, seen, change, hit, workerVars, faults, countVars, excused>>

\* Redis raises: the rest is not published, the request goes on.
PublishFails(r) ==
    /\ pc[r] = "publish"
    /\ faults < MaxFaults
    /\ faults' = faults + 1
    /\ unsent' = [unsent EXCEPT ![r] = {}]
    /\ excused' = TRUE
    /\ Goto(r, "commit")
    /\ UNCHANGED <<rowVars, op, seen, change, hit, queued, workerVars, countVars>>

\* Slip: the foreign key check waits for any transaction that holds the row.
ForeignKeyWaitsForAny(r) == lock = Nobody

\* The check takes FOR KEY SHARE, which only a DELETE holds up.
ForeignKeyFree(r) == lock # Nobody => op[lock] # "delete_note"

\* Slip: a correction may be recorded for a note that is gone.
RecordedWithoutKey == feedback + 1

\* The insert raises without the row, which is caught.
Recorded == IF exists THEN feedback + 1 ELSE feedback

\* record_feedback(None, ...) inserts and commits in a session of its own, while
\* the request's transaction holds the row.
RecordFeedback(r) ==
    /\ pc[r] = "feedback"
    /\ ForeignKeyFree(r)
    /\ feedback' = Recorded
    /\ Goto(r, "commit")
    /\ UNCHANGED <<rowVars, op, seen, change, hit, unsent, queued, workerVars,
                   faults, moves, userText, excused>>

\* The end of a request: its transaction gives the row back, and what the route
\* function knew is gone.
End(r) ==
    /\ lock' = IF lock = r THEN Nobody ELSE lock
    /\ op' = [op EXCEPT ![r] = "create_note"]
    /\ seen' = [seen EXCEPT ![r] = BlankRow]
    /\ change' = [change EXCEPT ![r] = [text |-> SomeText]]
    /\ hit' = [hit EXCEPT ![r] = FALSE]
    /\ unsent' = [unsent EXCEPT ![r] = {}]
    /\ Goto(r, "done")

\* The commit. A text that the transaction changed without publishing, because
\* it compared with a row that had changed since, goes unembedded.
Commit(r) ==
    /\ pc[r] = "commit"
    /\ hit[r]
    /\ CASE op[r] = "create_note" -> exists' = TRUE /\ UNCHANGED row
         [] op[r] = "delete_note" -> exists' = FALSE /\ UNCHANGED row
         [] OTHER -> row' = Updated(row, change[r]) /\ UNCHANGED exists
    /\ moves' = IF ChangesCategory(r) THEN moves + 1 ELSE moves
    /\ userText' = CASE op[r] = "create_note" -> row.text
                      [] SetsText(r) -> change[r].text
                      [] OTHER -> userText
    /\ excused' = (excused \/ (row'.text # row.text /\ ~EditsText(r)))
    /\ End(r)
    /\ UNCHANGED <<queued, workerVars, faults, feedback>>

\* The row was gone: a DELETE changes nothing; after an UPDATE the flush of the
\* history entry violates its foreign key and the transaction is rolled back.
CommitMissed(r) ==
    /\ pc[r] = "commit"
    /\ ~hit[r]
    /\ End(r)
    /\ UNCHANGED <<exists, row, queued, workerVars, faults, countVars, excused>>

\* The request dies before its commit: rolled back, whatever it published.
Abort(r) ==
    /\ pc[r] \in {"llm", "write", "publish", "feedback", "commit"}
    /\ faults < MaxFaults
    /\ faults' = faults + 1
    /\ End(r)
    /\ UNCHANGED <<exists, row, queued, workerVars, countVars, excused>>

(***************************************************************************)
(* The worker                                                              *)
(***************************************************************************)

\* A request that has published embed for a text that is not committed yet.
Early == \E r \in Requests :
           /\ pc[r] \in {"publish", "commit"}
           /\ op[r] = "create_note" \/ EditsText(r)
           /\ "embed" \notin unsent[r]

\* Slip: the note is not looked up again when the handler starts.
LoadStale == snap

\* The SELECT of a handler.
Load == row

\* A handler starts: it loads the note, finds none and returns, or awaits the
\* model. A backfill task names no note, so none is found.
Take(t) ==
    /\ work = "none"
    /\ queued[t] > 0
    /\ queued' = [queued EXCEPT ![t] = @ - 1]
    /\ IF exists /\ t # "backfill"
         THEN work' = t /\ snap' = Load
         ELSE UNCHANGED workerVars
    /\ excused' = (excused \/ (t = "embed" /\ queued[t] = 1 /\ Early))
    /\ UNCHANGED <<rowVars, requestVars, faults, countVars>>

\* The session of a handler is closed.
Idle == work' = "none" /\ snap' = BlankRow

\* Slip: the handler writes back the whole note it loaded.
ClassifiedWhole(c) == [snap EXCEPT !.category = c]

\* The columns that differ from the loaded note are written, and no others.
Classified(c) == IF c = snap.category THEN row ELSE [row EXCEPT !.category = c]

\* handle_classify commits its result. It waits for a transaction that holds the
\* row. If the note is gone it raises; the retry finds no note and returns.
Classify(c) ==
    /\ work = "classify"
    /\ lock = Nobody
    /\ row' = IF exists THEN Classified(c) ELSE row
    /\ Idle
    /\ UNCHANGED <<exists, lock, requestVars, queued, faults, countVars, excused>>

\* Slip: the status is written and the vector is not.
EmbeddedStatusOnly == [row EXCEPT !.embedding_status = "done"]

\* The columns handle_embed sets.
Embedded == [row EXCEPT !.vector = snap.text, !.embedding_status = "done"]

\* handle_embed stores the embedding of the text it loaded.
Embed ==
    /\ work = "embed"
    /\ lock = Nobody
    /\ row' = IF exists THEN Embedded ELSE row
    /\ excused' = (excused /\ (snap.text # row.text \/ Early))
    /\ Idle
    /\ UNCHANGED <<exists, lock, requestVars, queued, faults, countVars>>

\* The provider refuses: the status says so and the task is over.
EmbedRefused ==
    /\ work = "embed"
    /\ lock = Nobody
    /\ faults < MaxFaults
    /\ faults' = faults + 1
    /\ row' = IF exists THEN [row EXCEPT !.embedding_status = "failed"] ELSE row
    /\ excused' = (excused \/ queued["embed"] = 0)
    /\ Idle
    /\ UNCHANGED <<exists, lock, requestVars, queued, countVars>>

\* The handler raises for the last time, or its worker is stopped.
HandlerFails ==
    /\ work # "none"
    /\ faults < MaxFaults
    /\ faults' = faults + 1
    /\ excused' = (excused \/ (work = "embed" /\ queued["embed"] = 0))
    /\ Idle
    /\ UNCHANGED <<rowVars, requestVars, queued, countVars>>

\* A task is lost with the batch of a stopped worker or with an evicted key.
LoseTask(t) ==
    /\ queued[t] > 0
    /\ faults < MaxFaults
    /\ faults' = faults + 1
    /\ queued' = [queued EXCEPT ![t] = @ - 1]
    /\ excused' = (excused \/ (t = "embed" /\ queued[t] = 1))
    /\ UNCHANGED <<rowVars, requestVars, workerVars, countVars>>

\* The scheduler pushes its "Embedding backfill" job; one waiting is enough.
PushBackfill ==
    /\ queued["backfill"] = 0
    /\ queued' = [queued EXCEPT !["backfill"] = 1]
    /\ UNCHANGED <<rowVars, requestVars, workerVars, faults, countVars, excused>>

RequestStep(r) ==
    \/ \E t \in Texts, c \in Categories : CreateNote(r, t, c)
    \/ FetchNote(r) \/ LlmAnswers(r) \/ Write(r)
    \/ Publish(r) \/ PublishFails(r) \/ RecordFeedback(r)
    \/ Commit(r) \/ CommitMissed(r)

WorkerStep ==
    \/ \E t \in Topics : Take(t)
    \/ \E c \in Categories : Classify(c)
    \/ Embed \/ EmbedRefused

Next ==
    \/ \E r \in Requests : RequestStep(r) \/ Abort(r)
    \/ WorkerStep
    \/ HandlerFails
    \/ \E t \in Topics : LoseTask(t)
    \/ PushBackfill

Spec == Init /\ [][Next]_vars

\* A request that was begun runs on, the worker polls every topic, the scheduler
\* pushes its job again and again.
Fairness ==
    /\ \A r \in Requests : WF_vars(pc[r] # "new" /\ RequestStep(r))
    /\ \A t \in Topics : SF_vars(Take(t))
    /\ WF_vars(WorkerStep)
    /\ WF_vars(PushBackfill)

FairSpec == Spec /\ Fairness

(***************************************************************************)
(* Properties                                                              *)
(***************************************************************************)

\* The worker's results never undo an edit: whatever the note looked like when a
\* handler loaded it, its text is that of the last committed create or edit.
UserTextStands == exists => row.text = userText

Stale == exists /\ row.vector # row.text

\* A vector that is not the text's has an embed task waiting or a handler that
\* loaded the present text; or one of these went wrong since the vector was
\* last right: an embed task was handled before the request that published it
\* committed, a task was lost or refused, a publication failed, or an edit
\* took the text for unchanged because it compared with an outdated read.
StaleNeedsCause ==
    Stale /\ ~excused =>
        queued["embed"] > 0 \/ (work = "embed" /\ snap.text = row.text)

\* A recorded correction belongs to a move that is committed or about to be; a
\* request that dies between its two transactions leaves at most one without.
FeedbackNeedsMove ==
    feedback <= moves + faults
                  + Cardinality({r \in Requests : pc[r] = "commit" /\ ChangesCategory(r)})

\* No request waits for ever: not for a row another holds, and not for a row its
\* own transaction holds while a second session refers to it.
RequestsEnd == \A r \in Requests : pc[r] # "new" ~> pc[r] = "done"

\* The vector catches up with the text, except for the causes above.
EventuallySearchable == Stale ~> ~Stale \/ excused

\* The job embed_backfill embeds the notes whose embedding is pending, unless
\* they are archived.
NeedsEmbedding == exists /\ row.status = "active" /\ row.embedding_status = "pending"
Backfilled == NeedsEmbedding ~> ~NeedsEmbedding

=============================================================================
