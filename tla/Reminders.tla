----------------------------- MODULE Reminders -----------------------------
(***************************************************************************)
(* The batch jobs of scheduler.py over the notes, their notification rows  *)
(* and the event bus, for both backends.  A job reads its notes once, then *)
(* takes them one by one: it looks for an equal notification, awaits       *)
(* Telegram, adds a row to its transaction and, on PostgreSQL, emits an    *)
(* event, which commits whatever the transaction holds.  On SQLite the     *)
(* event cannot be emitted (a connection has no add) and the transaction   *)
(* keeps every other writer out from its first write to its commit, as the *)
(* buttons of a stale reminder do, which write, send their answer and only *)
(* then commit: a write that waits for too long is refused, and the job    *)
(* goes on to its next note.  Meanwhile users move deadlines, complete     *)
(* notes and delete them.  A job, and a press of a button, ends on its day.*)
(***************************************************************************)
EXTENDS EventBus, Integers, FiniteSets

CONSTANTS
    Notes,         \* the notes, active projects at first
    Everyone,      \* what the weekly messages are about: no note
    Due,           \* the deadline of the notes at first
    Deadlines,     \* the days a user sets a deadline to
    LastDay,       \* bound: the last day
    ReminderDays,  \* NOTIFY_DEADLINE_DAYS
    StaleDays,     \* NOTIFY_STALE_DAYS
    ArchiveDays,   \* AUTO_ARCHIVE_DAYS
    UrgentDays,    \* the three days of auto_escalate_urgent_notes
    SnoozeDays,    \* the days of the snooze buttons
    Lag,           \* how many days the database's clock (UTC) is off the jobs' (local time)
    Together,      \* bound: the kinds of jobs and of edits that meet in one behaviour
    MaxRuns,       \* bound: runs of the jobs
    MaxEdits       \* bound: what users do

ASSUME ReminderAssumption ==
    /\ {"job", "user"} \subseteq Emitters
    /\ Everyone \notin Notes
    /\ IsFiniteSet(Notes)
    /\ {LastDay, Due, StaleDays, ArchiveDays, UrgentDays, Lag, MaxRuns, MaxEdits} \subseteq Nat
    /\ Deadlines \subseteq Nat /\ ReminderDays \subseteq Nat /\ SnoozeDays \subseteq Nat

VARIABLES
    backend,   \* "pg" or "sqlite"
    kinds,     \* the kinds of jobs that run and of edits users make, one of Together
    today,     \* the day
    notes,     \* the rows of the notes
    rows,      \* the committed notifications
    job,       \* the run of a job that is under way, or Nothing
    press,     \* the open transaction of a button of a stale reminder, or Nothing
    messages,  \* what Telegram has delivered
    again,     \* the messages about a note that were delivered again
    losses,    \* transactions of a job that were lost
    refused,   \* what a run attempted and, the database being locked, went on without recording
    kept,      \* kept[n]: the last day a "Keep" for n was committed, or -1
    runs, edits

noteVars == <<notes, kept>>
ghostVars == <<messages, again, losses, refused>>
vars == <<busVars, backend, kinds, today, noteVars, rows, job, press, ghostVars, runs, edits>>

Kinds == {"deadline", "stale", "escalation", "archive", "digest", "review"}
Days == 0..LastDay

Note == [exists : BOOLEAN, status : {"active", "completed", "archived"},
         priority : {"medium", "high"}, deadline : Nat, updated : Int]

\* What a message or a notification is about. left is zero where the kind of
\* message does not name the days left.
Matter == [kind : Kinds, note : Notes \cup {Everyone}, day : Days, left : Nat]
Row == [matter : Matter, sent : BOOLEAN]

\* A run: todo are the notes still to be taken, seen the notes as they were read,
\* fresh and changed the uncommitted rows and notes, told what Telegram answered.
\* parted: a write was refused, and the transaction begun for it is still open.
Run == [kind : Kinds, todo : SUBSET (Notes \cup {Everyone}), seen : [Notes -> Note],
        stage : {"next", "record", "event"}, note : Notes \cup {Everyone},
        told : BOOLEAN, fresh : SUBSET Row, changed : SUBSET Notes, parted : BOOLEAN]

\* A press: what becomes of the note, and whether the button was "Keep".
Press == [note : Notes, row : Note, keep : BOOLEAN]

Nothing == [kind |-> "none"]
Running == job # Nothing
Pressing == press # Nothing

TypeOK ==
    /\ BusTypeOK
    /\ backend \in {"pg", "sqlite"} /\ kinds \in Together /\ today \in Days
    /\ notes \in [Notes -> Note] /\ kept \in [Notes -> Days \cup {-1}]
    /\ rows \subseteq Row /\ (Running => job \in Run)
    /\ (Pressing => press \in Press) /\ refused \subseteq Matter
    /\ messages \subseteq Matter /\ again \subseteq messages
    /\ losses \in Nat /\ runs \in 0..MaxRuns /\ edits \in 0..MaxEdits

Init ==
    /\ BusInit
    /\ backend \in {"pg", "sqlite"} /\ (backend = "sqlite" => ~webhook)
    /\ kinds \in Together
    /\ today = 0
    /\ notes = [n \in Notes |-> [exists |-> TRUE, status |-> "active", priority |-> "medium",
                                 deadline |-> Due, updated |-> 0]]
    /\ kept = [n \in Notes |-> -1]
    /\ rows = {} /\ job = Nothing /\ press = Nothing
    /\ messages = {} /\ again = {} /\ losses = 0 /\ refused = {}
    /\ runs = 0 /\ edits = 0

(***************************************************************************)
(* The jobs                                                                *)
(***************************************************************************)

DaysLeft(n, r) == r[n].deadline - today
Active(n) == notes[n].exists /\ notes[n].status = "active"
NotFor(n, days) == today - notes[n].updated >= days

\* The notes a job takes: what its query finds and its loop does not pass over.
DueNotes == {n \in Notes : Active(n) /\ DaysLeft(n, notes) \in ReminderDays}
StaleNotes == {n \in Notes : Active(n) /\ NotFor(n, StaleDays)}
UrgentNotes ==
    {n \in Notes : /\ Active(n) /\ notes[n].priority = "medium"
                   /\ DaysLeft(n, notes) \in 0..UrgentDays}
CompletedNotes ==
    {n \in Notes : /\ notes[n].exists /\ notes[n].status = "completed"
                   /\ NotFor(n, ArchiveDays)}

Chosen(k) ==
    CASE k = "deadline" -> DueNotes
      [] k = "stale" -> StaleNotes
      [] k = "escalation" -> UrgentNotes
      [] k = "archive" -> CompletedNotes
      [] OTHER -> {Everyone}

Begin(k) ==
    /\ ~Running
    /\ runs < MaxRuns /\ k \in kinds
    /\ runs' = runs + 1
    /\ job' = [kind |-> k, todo |-> Chosen(k), seen |-> notes, stage |-> "next",
               note |-> Everyone, told |-> FALSE, fresh |-> {}, changed |-> {}, parted |-> FALSE]
    /\ UNCHANGED <<busVars, backend, kinds, press, today, noteVars, rows, ghostVars, edits>>

\* The days left are those of the note as the job read it.
About(n) ==
    [kind |-> job.kind, note |-> n, day |-> today,
     left |-> IF job.kind \in {"deadline", "escalation"} THEN DaysLeft(n, job.seen) ELSE 0]

\* Slip: the day is not compared.
SameNoticeSqliteAnyDay(a, b) == a.kind = b.kind /\ a.note = b.note /\ a.left = b.left

\* Equal for the deduplication: on SQLite a notice of the same day ...
SameNoticeSqlite(a, b) ==
    a.kind = b.kind /\ a.note = b.note /\ a.left = b.left /\ a.day = b.day

\* ... on PostgreSQL a deadline notice of any day.
SameNoticePg(a, b) ==
    /\ a.kind = b.kind /\ a.note = b.note /\ a.left = b.left
    /\ a.kind = "stale" => a.day = b.day

SameNotice(a, b) ==
    IF backend = "pg" THEN SameNoticePg(a, b) ELSE SameNoticeSqlite(a, b)

\* Only these jobs look; the transaction sees its own rows.
Duplicate(n) ==
    /\ job.kind \in {"deadline", "stale"}
    /\ \E r \in rows \cup job.fresh : SameNotice(r.matter, About(n))

Skip(n) ==
    /\ Running /\ job.stage = "next" /\ n \in job.todo
    /\ Duplicate(n)
    /\ job' = [job EXCEPT !.todo = @ \ {n}]
    /\ UNCHANGED <<busVars, backend, kinds, press, today, noteVars, rows, ghostVars, runs, edits>>

\* The transaction has written, and keeps the lock of SQLite until its commit.
Holds == job.fresh # {} \/ job.changed # {}

\* A write may be refused: a press keeps the lock for longer than the busy
\* timeout, or an earlier write was refused and the transaction left open by it
\* reads from a snapshot that is old by now.
Refusable == Pressing \/ (job.parted /\ ~Holds)

\* A message is sent for each chat; only if every answer is a success is the
\* notification taken for sent, but the user has it with the first. An escalation
\* has changed the note before its message is sent.
Tell(n, got, ok) ==
    /\ Running /\ job.stage = "next" /\ n \in job.todo
    /\ job.kind # "archive" /\ ~Duplicate(n)
    /\ job.kind = "escalation" => ~Pressing
    /\ ok => got
    /\ messages' = IF got THEN messages \cup {About(n)} ELSE messages
    /\ again' = IF got /\ About(n) \in messages /\ n # Everyone THEN again \cup {About(n)} ELSE again
    /\ job' = [job EXCEPT !.todo = @ \ {n}, !.stage = "record", !.note = n, !.told = ok,
                          !.changed = IF job.kind = "escalation" THEN @ \cup {n} ELSE @]
    /\ UNCHANGED <<busVars, backend, kinds, press, today, noteVars, rows, losses, refused, runs, edits>>

Exists(n) == n \in {Everyone} \cup {m \in Notes : notes[m].exists}

\* Slip: every attempt is recorded as sent.
NewRowSent == [matter |-> About(job.note), sent |-> TRUE]

NewRow == [matter |-> About(job.note), sent |-> job.told]
Next1 == [job EXCEPT !.stage = "next", !.note = Everyone, !.told = FALSE]

\* Slip: a reminder that could not be sent is not recorded.
RecordedIfSent == IF job.told THEN job.fresh \cup {NewRow} ELSE job.fresh

\* Every attempt is recorded, as sent or failed.
Recorded == job.fresh \cup {NewRow}

\* Slip: the event is emitted for every attempt.
ReportsEveryAttempt == backend = "pg" /\ job.kind \in {"deadline", "stale"}

\* The reminders that succeed are reported, where an event can be emitted.
Reports == backend = "pg" /\ job.told /\ job.kind \in {"deadline", "stale"}

\* The row is added to the transaction; a run of escalations has no statement
\* before its commit that could find the note deleted ...
Record ==
    /\ Running /\ job.stage = "record"
    /\ Exists(job.note) \/ job.kind = "escalation"
    /\ job.kind \notin {"digest", "review"} /\ ~Reports /\ ~Pressing
    /\ job' = [Next1 EXCEPT !.fresh = Recorded]
    /\ UNCHANGED <<busVars, backend, kinds, press, today, noteVars, rows, ghostVars, runs, edits>>

\* ... or is refused, when the message may have been delivered: the exception is
\* caught for the one note and the run goes on ...
InsertRefused ==
    /\ Running /\ job.stage = "record" /\ job.kind \in {"deadline", "stale"}
    /\ Refusable
    /\ refused' = refused \cup {About(job.note)}
    /\ job' = [Next1 EXCEPT !.parted = TRUE]
    /\ UNCHANGED <<busVars, backend, kinds, press, today, noteVars, rows, messages, again, losses, runs, edits>>

\* ... and emit_event commits it, with all that came before and with the event.
RecordAndReport ==
    /\ Running /\ job.stage = "record" /\ Exists(job.note)
    /\ Reports
    /\ EmitEvent("job", About(job.note))
    /\ rows' = rows \cup Recorded
    /\ job' = [Next1 EXCEPT !.fresh = {}]
    /\ UNCHANGED <<backend, kinds, press, today, noteVars, ghostVars, runs, edits>>

\* The weekly messages commit their row first and report the review afterwards.
RecordWeekly ==
    /\ Running /\ job.stage = "record" /\ job.kind \in {"digest", "review"} /\ ~Pressing
    /\ rows' = rows \cup {NewRow}
    /\ job' = IF job.kind = "review" /\ job.told /\ backend = "pg"
                THEN [job EXCEPT !.stage = "event"] ELSE Next1
    /\ UNCHANGED <<busVars, backend, kinds, press, today, noteVars, ghostVars, runs, edits>>

ReportReview ==
    /\ Running /\ job.stage = "event"
    /\ EmitEvent("job", About(Everyone))
    /\ job' = Next1
    /\ UNCHANGED <<backend, kinds, press, today, noteVars, rows, ghostVars, runs, edits>>

\* The note of the reminder was deleted while Telegram was awaited. The insert
\* violates its foreign key; the transaction of PostgreSQL is over, every later
\* statement of the run raises, the final commit included.
RecordRefused ==
    /\ Running /\ job.stage = "record" /\ job.kind \in {"deadline", "stale"}
    /\ ~Exists(job.note)
    /\ losses' = losses + 1
    /\ job' = Nothing
    /\ UNCHANGED <<busVars, backend, kinds, press, today, noteVars, rows, messages, again, refused, runs, edits>>

\* auto_archive_completed does not look at the status again; on PostgreSQL a
\* note that is gone by now is passed over.
ArchiveCompleted(n) ==
    /\ Running /\ job.stage = "next" /\ job.kind = "archive" /\ n \in job.todo
    /\ ~Pressing
    /\ job' = [job EXCEPT !.todo = @ \ {n},
                          !.changed = IF notes[n].exists THEN @ \cup {n} ELSE @]
    /\ UNCHANGED <<busVars, backend, kinds, press, today, noteVars, rows, ghostVars, runs, edits>>

\* The update of a note is refused: it is passed over, before any message.
UpdateRefused(n) ==
    /\ Running /\ job.stage = "next" /\ job.kind \in {"escalation", "archive"} /\ n \in job.todo
    /\ Refusable
    /\ job' = [job EXCEPT !.todo = @ \ {n}, !.parted = TRUE]
    /\ UNCHANGED <<busVars, backend, kinds, press, today, noteVars, rows, ghostVars, runs, edits>>

Escalated(r) == [r EXCEPT !.priority = "high", !.updated = today]
ArchivedAt(r, day) == [r EXCEPT !.status = "archived", !.updated = day]

Applied ==
    [n \in Notes |-> IF n \notin job.changed THEN notes[n]
                     ELSE IF job.kind = "escalation" THEN Escalated(notes[n])
                     ELSE ArchivedAt(notes[n], today)]

AtEnd == Running /\ job.stage = "next" /\ job.todo = {} /\ ~Busy("job")
Gone == {n \in job.changed \cup {r.matter.note : r \in job.fresh} : ~Exists(n)}

\* The commit at the end of the run.
Finish ==
    /\ AtEnd /\ Gone = {}
    /\ rows' = rows \cup job.fresh
    /\ notes' = Applied
    /\ job' = Nothing
    /\ UNCHANGED <<busVars, backend, kinds, press, today, kept, ghostVars, runs, edits>>

\* A note of the transaction was deleted meanwhile: nothing of it is committed.
FinishRefused ==
    /\ AtEnd /\ Gone # {}
    /\ losses' = losses + 1
    /\ job' = Nothing
    /\ UNCHANGED <<busVars, backend, kinds, press, today, noteVars, rows, messages, again, refused, runs, edits>>

\* The process dies, or a commit raises for a reason of the database's.
JobDies ==
    /\ Running
    /\ EmitterDies("job")
    /\ losses' = losses + 1
    /\ job' = Nothing
    /\ UNCHANGED <<backend, kinds, press, today, noteVars, rows, messages, again, refused, runs, edits>>

Tick ==
    /\ ~Running /\ ~Pressing
    /\ today < LastDay
    /\ today' = today + 1
    /\ UNCHANGED <<busVars, backend, kinds, press, noteVars, rows, job, ghostVars, runs, edits>>

(***************************************************************************)
(* The users                                                               *)
(***************************************************************************)

\* On SQLite a transaction that has written keeps every other writer out. A press
\* that waits for longer than the busy timeout raises, and the update is dropped.
Locked == backend = "sqlite" /\ (Pressing \/ (Running /\ Holds))

\* CURRENT_TIMESTAMP: the day of the database's clock, on either side of today.
Stamps == {today + d : d \in -Lag..Lag}

Edit(k, n, r) ==
    /\ edits < MaxEdits /\ k \in kinds
    /\ edits' = edits + 1
    /\ notes[n].exists
    /\ ~Locked
    /\ notes' = [notes EXCEPT ![n] = r]

\* The API sets a deadline.
Reschedule(n, d) ==
    /\ backend = "pg"
    /\ Edit("reschedule", n, [notes[n] EXCEPT !.deadline = d, !.updated = today])
    /\ UNCHANGED <<busVars, backend, kinds, press, today, kept, rows, job, ghostVars, runs>>

\* The buttons below a message work on SQLite only; on PostgreSQL the handler
\* opens the SQLite file, which has no tables then.
Pressed(n, k) == backend = "sqlite" /\ \E m \in messages : m.kind = k /\ m.note = n

\* "+1d", "+3d", "+7d": from the deadline the note has now.
Snooze(n, d) ==
    /\ Pressed(n, "deadline")
    /\ \E t \in Stamps : Edit("snooze", n, [notes[n] EXCEPT !.deadline = @ + d, !.updated = t])
    /\ UNCHANGED <<busVars, backend, kinds, press, today, kept, rows, job, ghostVars, runs>>

\* Slip: the press is recorded in the history only.
KeptUntouched(n, day) == notes[n]

Kept(n, day) == [notes[n] EXCEPT !.updated = day]

\* The buttons of a stale reminder: the note is written, the answer awaited ...
PressStale(k, n, r) ==
    /\ Pressed(n, "stale")
    /\ edits < MaxEdits /\ k \in kinds
    /\ edits' = edits + 1
    /\ notes[n].exists
    /\ ~Locked
    /\ press' = [note |-> n, row |-> r, keep |-> k = "keep"]
    /\ UNCHANGED <<busVars, backend, kinds, today, noteVars, rows, job, ghostVars, runs>>

KeepStale(n) == \E t \in Stamps : PressStale("keep", n, Kept(n, t))
ArchiveStale(n) == \E t \in Stamps : PressStale("put away", n, ArchivedAt(notes[n], t))

\* ... and committed then.
CommitPress ==
    /\ Pressing
    /\ notes' = [notes EXCEPT ![press.note] = press.row]
    /\ kept' = IF press.keep THEN [kept EXCEPT ![press.note] = today] ELSE kept
    /\ press' = Nothing
    /\ UNCHANGED <<busVars, backend, kinds, today, rows, job, ghostVars, runs, edits>>

\* The process dies in between: the press has come to nothing.
PressDies ==
    /\ Pressing
    /\ press' = Nothing
    /\ UNCHANGED <<busVars, backend, kinds, today, noteVars, rows, job, ghostVars, runs, edits>>

\* para_complete commits the note and then, in a session of its own, its event.
Complete(n) ==
    /\ backend = "pg"
    /\ Edit("complete", n, [notes[n] EXCEPT !.status = "completed", !.updated = today])
    /\ EmitEvent("user", [kind |-> "completed", note |-> n, day |-> today, left |-> 0])
    /\ UNCHANGED <<backend, kinds, press, today, kept, rows, job, ghostVars, runs>>

\* delete_note takes the notifications of the note with it. It waits for a
\* transaction whose inserted rows refer to the note.
Delete(n) ==
    /\ backend = "pg"
    /\ ~(Running /\ job.kind \in {"deadline", "stale"} /\ \E r \in job.fresh : r.matter.note = n)
    /\ Edit("delete", n, [notes[n] EXCEPT !.exists = FALSE])
    /\ rows' = {r \in rows : r.matter.note # n}
    /\ UNCHANGED <<busVars, backend, kinds, press, today, kept, job, ghostVars, runs>>

(***************************************************************************)
(* The specification                                                       *)
(***************************************************************************)

BusStep(p) ==
    /\ Dispatch(p)
    /\ UNCHANGED <<backend, kinds, press, today, noteVars, rows, job, ghostVars, runs, edits>>

\* While an event is dispatched the job waits.
JobStep ==
    /\ ~Busy("job")
    /\ \/ \E n \in Notes \cup {Everyone} :
            \/ Skip(n)
            \/ \E got, ok \in BOOLEAN : Tell(n, got, ok)
       \/ Record \/ InsertRefused \/ RecordAndReport \/ RecordRefused
       \/ RecordWeekly \/ ReportReview
       \/ \E n \in Notes : ArchiveCompleted(n) \/ UpdateRefused(n)
       \/ Finish \/ FinishRefused

UserStep ==
    \/ CommitPress \/ PressDies
    \/ \E n \in Notes :
      \/ \E d \in Deadlines : Reschedule(n, d)
      \/ \E d \in SnoozeDays : Snooze(n, d)
      \/ KeepStale(n) \/ ArchiveStale(n)
      \/ Complete(n) \/ Delete(n)

Next ==
    \/ \E k \in Kinds : Begin(k)
    \/ JobStep \/ JobDies
    \/ \E p \in Emitters : BusStep(p)
    \/ UserStep
    \/ Tick

Spec == Init /\ [][Next]_vars

(***************************************************************************)
(* Properties                                                              *)
(***************************************************************************)

\* A message about a note is delivered again only if a transaction of a job was
\* lost after its messages were sent, or the row of this very message was refused
\* by a locked database, or the note was deleted and the row that is looked for
\* with it: otherwise the look and the record are enough, however users move the
\* deadline in between.
RepeatNeedsLoss == \A m \in again : losses > 0 \/ m \in refused \/ ~Exists(m.note)

\* A notification recorded as sent was delivered, and a delivered message of the
\* jobs has its row, unless its note was deleted, the row was refused by a locked
\* database, or its transaction is still open or was lost.
RecordsTrue ==
    /\ \A r \in rows : r.sent => r.matter \in messages
    /\ \A m \in messages :
         \/ \E r \in rows : r.matter = m
         \/ m \in refused \/ losses > 0 \/ ~Exists(m.note)
         \/ Running /\ (job.stage = "record" \/ \E r \in job.fresh : r.matter = m)

\* A reminder is reported if and only if its row says it was sent: both are
\* committed together, although neither the job nor the docstring of emit_event
\* asks for it. The row may have gone with its note.
Reported == {events[e].about : e \in DOMAIN events}
ReportedTogether ==
    /\ \A a \in Reported : a.kind \in {"deadline", "stale"} =>
         [matter |-> a, sent |-> TRUE] \in rows \/ ~Exists(a.note)
    /\ backend = "pg" => \A r \in rows :
         r.sent /\ r.matter.kind \in {"deadline", "stale"} => r.matter \in Reported

\* A run of reminders that comes to its commit leaves, for every note it read
\* that still exists, an attempt on record (of today on SQLite, of any day at the
\* same distance on PostgreSQL) or one whose row a locked database refused. A
\* run that a deleted note stops on PostgreSQL does not come to its commit: it
\* may leave other notes without an attempt.
EveryoneAttempted ==
    [][ Running /\ job.kind \in {"deadline", "stale"} /\ job' = Nothing /\ losses' = losses =>
        \A n \in Notes :
          /\ notes[n].exists
          /\ job.seen[n].exists /\ job.seen[n].status = "active"
          /\ IF job.kind = "deadline" THEN DaysLeft(n, job.seen) \in ReminderDays
             ELSE today - job.seen[n].updated >= StaleDays
          => \/ About(n) \in refused
             \/ \E r \in rows' : /\ r.matter.kind = job.kind /\ r.matter.note = n
                                 /\ r.matter.left = About(n).left
                                 /\ backend = "sqlite" \/ job.kind = "stale" => r.matter.day = today
      ]_vars

\* The run turns to n and sends its message.
TurnsTo(n) ==
    /\ Running /\ job.stage = "next" /\ job' # Nothing
    /\ job'.stage = "record" /\ job'.note = n

\* "Keep" is answered with "Will remind you in N days" (telegram_bot.py:416). Up
\* to the difference of the two clocks no reminder is sent sooner, except by a
\* run that had read the note before it changed.
QuietAfterKeep ==
    [][ \A n \in Notes :
          TurnsTo(n) /\ job.kind = "stale" /\ kept[n] >= 0
            => today >= kept[n] + StaleDays - Lag \/ job.seen[n] # notes[n] ]_vars

\* The answer as it stands: no reminder is sent sooner.
KeepsItsWord ==
    [][ \A n \in Notes :
          TurnsTo(n) /\ job.kind = "stale" /\ kept[n] >= 0 => today >= kept[n] + StaleDays ]_vars

=============================================================================
