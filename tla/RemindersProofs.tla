--------------------------- MODULE RemindersProofs ---------------------------
(***************************************************************************)
(* Theorems about Reminders: the jobs, the users and the event bus, for    *)
(* every set of notes, every choice of days and every bound.  What is said *)
(* of the bus alone comes from EventBusProofs: the jobs and the users are  *)
(* two of its emitters.                                                    *)
(***************************************************************************)
EXTENDS Reminders, EventBusProofs

USE DEF noteVars, ghostVars

(***************************************************************************)
(* Types, and what a run of a job still has to do.                         *)
(***************************************************************************)

\* What an event can be about.
Abouts == [kind : Kinds \cup {"completed"}, note : Notes \cup {Everyone},
           day : Days, left : Nat]

StateOK ==
    /\ backend \in {"pg", "sqlite"} /\ kinds \in Together /\ today \in Days
    /\ notes \in [Notes -> Note] /\ kept \in [Notes -> Days \cup {-1}]
    /\ rows \subseteq Row /\ (Running => job \in Run)
    /\ messages \subseteq Matter /\ again \subseteq messages
    /\ (Pressing => press \in Press) /\ refused \subseteq Matter
    /\ losses \in Nat /\ runs \in 0..MaxRuns /\ edits \in 0..MaxEdits

\* What a job of kind k sends messages about.
Subjects(k) == IF k \in {"digest", "review"} THEN {Everyone} ELSE Notes

\* n can be the subject of the run's next message.
Subject(n) ==
    /\ n \in Subjects(job.kind)
    /\ job.kind \in {"deadline", "escalation"} => DaysLeft(n, job.seen) \in Nat

RunOK ==
    Running =>
      /\ \A n \in job.todo : Subject(n)
      /\ job.stage = "record" => Subject(job.note) /\ job.kind # "archive"
      /\ job.stage = "event" => job.kind = "review"

\* Row r may take the place of note n: it does not bring the note back, keeps its
\* priority, and is stamped today but for the difference of the clocks.
Follows(r, n) ==
    /\ r.exists => notes[n].exists
    /\ r.priority = notes[n].priority
    /\ today <= r.updated + Lag

\* A press has SQLite to itself.
PressOK ==
    Pressing =>
      /\ backend = "sqlite" /\ ~(Running /\ Holds)
      /\ Follows(press.row, press.note)

JobInv == StateOK /\ RunOK /\ PressOK

(***************************************************************************)
(* The records of the messages.  RecordsTrue and RepeatNeedsLoss hold      *)
(* together: a message cannot be repeated because it is on record, in the  *)
(* table or in the transaction of the run, or because the note it escalated*)
(* is urgent by now, or will be when the run commits.                      *)
(***************************************************************************)
Pending == IF Running THEN job.fresh ELSE {}

InHand(m) == Running /\ job.stage = "record" /\ m = About(job.note)

SentTrue ==
    /\ \A r \in rows \cup Pending : r.sent => r.matter \in messages
    /\ Running /\ job.stage = "record" /\ job.told => About(job.note) \in messages

OnRecord ==
    \A m \in messages :
      \/ \E r \in rows \cup Pending : r.matter = m
      \/ losses > 0 \/ m \in refused \/ ~Exists(m.note) \/ InHand(m)

Urgent(n) ==
    \/ notes[n].priority = "high"
    \/ Running /\ job.kind = "escalation" /\ n \in job.changed

EscalatedOnce ==
    /\ \A m \in messages : m.kind = "escalation" =>
         m.note \in Notes /\ (losses > 0 \/ ~Exists(m.note) \/ Urgent(m.note))
    /\ Running /\ job.kind = "escalation" => \A n \in job.todo : ~Urgent(n)

RecordInv == SentTrue /\ OnRecord /\ EscalatedOnce /\ RepeatNeedsLoss

(***************************************************************************)
(* The events of the messages.                                             *)
(***************************************************************************)
ToReport == {"deadline", "stale"}

ReportInv ==
    /\ ReportedTogether
    /\ backend = "pg" => \A r \in Pending : r.sent => r.matter.kind \notin ToReport

(***************************************************************************)
(* The days a kept note is left alone.                                     *)
(***************************************************************************)
KeptInv ==
    /\ \A n \in Notes : kept[n] <= today /\ kept[n] <= notes[n].updated + Lag
    /\ Running /\ job.kind = "stale" =>
         \A n \in job.todo : today - job.seen[n].updated >= StaleDays

(***************************************************************************)
(* The notes a run was for.                                                *)
(***************************************************************************)
Wanted(n) ==
    /\ job.seen[n].exists /\ job.seen[n].status = "active"
    /\ IF job.kind = "deadline" THEN DaysLeft(n, job.seen) \in ReminderDays
       ELSE today - job.seen[n].updated >= StaleDays

Tried(n) ==
    \/ n \in job.todo
    \/ job.stage = "record" /\ job.note = n
    \/ About(n) \in refused
    \/ \E r \in rows \cup job.fresh : SameNotice(r.matter, About(n))

AttemptInv ==
    Running /\ job.kind \in ToReport =>
      \A n \in Notes : notes[n].exists /\ Wanted(n) => Tried(n)

(***************************************************************************)
(* What the steps do.  Users and failures are summed up: the invariants    *)
(* need only what Edited, Lost and Still say of them.                      *)
(***************************************************************************)
Still ==
    /\ UNCHANGED <<backend, kinds, today, notes, kept, rows, job, messages, again,
                   losses, refused, runs>>
    /\ edits' \in 0..MaxEdits
    /\ Pressing' =>
         \/ press' = press
         \/ press' \in Press /\ ~Locked /\ backend = "sqlite" /\ Follows(press'.row, press'.note)

Lost ==
    /\ losses' = losses + 1 /\ job' = Nothing
    /\ UNCHANGED <<backend, kinds, press, today, notes, kept, rows, messages, again, refused,
                   runs, edits>>

\* A user's edit turns the row of note n into r.
Edited(n, r) ==
    /\ notes' = [notes EXCEPT ![n] = r]
    /\ Follows(r, n) \/ (~r.exists /\ r.priority = notes[n].priority /\ r.updated = notes[n].updated)
    /\ \/ kept' = kept
       \/ kept' = [kept EXCEPT ![n] = today] /\ today <= r.updated + Lag
    /\ \/ rows' = rows
       \/ rows' = {x \in rows : x.matter.note # n} /\ ~r.exists
    /\ edits' \in 0..MaxEdits
    /\ ~Pressing'
    /\ UNCHANGED <<backend, kinds, today, job, messages, again, losses, refused, runs>>

SameRun == job'.kind = job.kind /\ job'.seen = job.seen /\ today' = today

LEMMA Numbers ==
    /\ LastDay \in Nat /\ Due \in Nat /\ StaleDays \in Nat /\ ArchiveDays \in Nat
    /\ UrgentDays \in Nat /\ Lag \in Nat /\ MaxRuns \in Nat /\ MaxEdits \in Nat
    /\ Everyone \notin Notes
    /\ Days \subseteq Nat /\ 0 \in Days
BY ReminderAssumption DEF Days

LEMMA RunRuns ==
    ASSUME NEW j \in Run
    PROVE  j # Nothing
<1>1. j.kind \in Kinds /\ Nothing.kind = "none"
  BY DEF Run, Nothing
<1>2. QED
  BY <1>1 DEF Kinds

LEMMA AboutMatter ==
    ASSUME JobInv, Running, NEW n, Subject(n)
    PROVE  About(n) \in Matter
<1>1. job.kind \in Kinds /\ today \in Days
  BY DEF JobInv, StateOK, Run
<1>2. n \in Notes \cup {Everyone}
  BY DEF Subject, Subjects
<1>3. (IF job.kind \in {"deadline", "escalation"} THEN DaysLeft(n, job.seen) ELSE 0) \in Nat
  BY DEF Subject
<1>4. QED
  BY <1>1, <1>2, <1>3 DEF About, Matter

LEMMA AboutFields ==
    ASSUME NEW n
    PROVE  /\ About(n).kind = job.kind /\ About(n).note = n /\ About(n).day = today
           /\ About(n).left = IF job.kind \in {"deadline", "escalation"}
                                THEN DaysLeft(n, job.seen) ELSE 0
BY DEF About

\* What a run says of a note does not change while it runs.
LEMMA AboutSame ==
    ASSUME SameRun, NEW n
    PROVE  About(n)' = About(n) /\ Subject(n)' = Subject(n)
BY DEF SameRun, About, Subject, Subjects, DaysLeft

\* The clock of the database is off by at most Lag days.
LEMMA StampsNear ==
    ASSUME JobInv, NEW t \in Stamps
    PROVE  t \in Int /\ today <= t + Lag
<1>1. PICK d \in -Lag..Lag : t = today + d
  BY DEF Stamps
<1>2. today \in Nat /\ Lag \in Nat
  BY Numbers DEF JobInv, StateOK
<1>3. QED
  BY <1>1, <1>2

\* Stamping a note and changing anything but its priority and its existence.
Stamped(n, d, s, t) == [notes[n] EXCEPT !.deadline = d, !.status = s, !.updated = t]

LEMMA StampFollows ==
    ASSUME JobInv, NEW n \in Notes, NEW d \in Nat,
           NEW s \in {"active", "completed", "archived"}, NEW t \in Int, today <= t + Lag
    PROVE  /\ Stamped(n, d, s, t) \in Note /\ Follows(Stamped(n, d, s, t), n)
           /\ Stamped(n, d, s, t).updated = t
<1>1. notes[n] \in Note
  BY DEF JobInv, StateOK
<1>2. Stamped(n, d, s, t) \in Note
  BY <1>1 DEF Note, Stamped
<1>3. /\ Stamped(n, d, s, t).exists = notes[n].exists
      /\ Stamped(n, d, s, t).priority = notes[n].priority
      /\ Stamped(n, d, s, t).updated = t
  BY <1>1 DEF Note, Stamped
<1>4. QED
  BY <1>2, <1>3 DEF Follows

\* The rows the users write are such.
LEMMA EditFollows ==
    ASSUME JobInv, NEW n \in Notes, NEW t \in Int, today <= t + Lag, NEW d \in Nat
    PROVE  /\ [notes[n] EXCEPT !.deadline = d, !.updated = t] \in Note
           /\ Follows([notes[n] EXCEPT !.deadline = d, !.updated = t], n)
           /\ Kept(n, t) \in Note /\ Follows(Kept(n, t), n) /\ Kept(n, t).updated = t
           /\ ArchivedAt(notes[n], t) \in Note /\ Follows(ArchivedAt(notes[n], t), n)
           /\ [notes[n] EXCEPT !.status = "completed", !.updated = t] \in Note
           /\ Follows([notes[n] EXCEPT !.status = "completed", !.updated = t], n)
<1>1. /\ notes[n] \in Note /\ notes[n].deadline \in Nat
      /\ notes[n].status \in {"active", "completed", "archived"}
  BY DEF JobInv, StateOK, Note
<1>2. [notes[n] EXCEPT !.deadline = d, !.updated = t] = Stamped(n, d, notes[n].status, t)
  BY <1>1 DEF Note, Stamped
<1>3. Kept(n, t) = Stamped(n, notes[n].deadline, notes[n].status, t)
  BY <1>1 DEF Note, Stamped, Kept
<1>4. ArchivedAt(notes[n], t) = Stamped(n, notes[n].deadline, "archived", t)
  BY <1>1 DEF Note, Stamped, ArchivedAt
<1>5. [notes[n] EXCEPT !.status = "completed", !.updated = t]
        = Stamped(n, notes[n].deadline, "completed", t)
  BY <1>1 DEF Note, Stamped
<1>6. QED
  BY <1>1, <1>2, <1>3, <1>4, <1>5, StampFollows

LEMMA UserStepIs ==
    ASSUME JobInv, UserStep
    PROVE  Still \/ \E n \in Notes, r \in Note : Edited(n, r)
<1>1. today \in Int /\ today <= today + Lag /\ notes \in [Notes -> Note]
  BY Numbers DEF JobInv, StateOK
<1>2. ASSUME NEW n, NEW k, NEW r, Edit(k, n, r)
      PROVE  edits' \in 0..MaxEdits /\ notes' = [notes EXCEPT ![n] = r] /\ ~Locked
  BY <1>2, Numbers DEF Edit, JobInv, StateOK
<1>3. backend = "pg" => ~Pressing
  BY DEF JobInv, PressOK
<1>4. ASSUME NEW n \in Notes, NEW d \in Deadlines, Reschedule(n, d)
      PROVE  \E r \in Note : Edited(n, r)
  <2> DEFINE r == [notes[n] EXCEPT !.deadline = d, !.updated = today]
  <2>1. r \in Note /\ Follows(r, n)
    BY <1>1, EditFollows, ReminderAssumption
  <2>2. ~Pressing'
    BY <1>3, <1>4 DEF Reschedule, Pressing
  <2>3. Edited(n, r)
    BY <1>2, <1>4, <2>1, <2>2 DEF Reschedule, Edited
  <2>4. QED
    BY <2>1, <2>3
<1>5. ASSUME NEW n \in Notes, NEW d \in SnoozeDays, Snooze(n, d)
      PROVE  \E r \in Note : Edited(n, r)
  <2>1. PICK t \in Stamps :
          Edit("snooze", n, [notes[n] EXCEPT !.deadline = @ + d, !.updated = t])
    BY <1>5 DEF Snooze
  <2> DEFINE e == notes[n].deadline + d
  <2> DEFINE r == [notes[n] EXCEPT !.deadline = e, !.updated = t]
  <2>2. e \in Nat
    BY <1>1, ReminderAssumption DEF Note
  <2>3. Edit("snooze", n, r)
    BY <2>1
  <2>4. r \in Note /\ Follows(r, n)
    BY <2>2, StampsNear, EditFollows
  <2>5. ~Pressing'
    BY <1>2, <1>5, <2>3 DEF Snooze, Locked, Pressed, Pressing
  <2>6. Edited(n, r)
    BY <1>2, <1>5, <2>3, <2>4, <2>5 DEF Snooze, Edited
  <2>7. QED
    BY <2>4, <2>6
<1>6. ASSUME NEW n \in Notes, KeepStale(n) \/ ArchiveStale(n)
      PROVE  Still
  <2>1. PICK t \in Stamps : \/ PressStale("keep", n, Kept(n, t))
                            \/ PressStale("put away", n, ArchivedAt(notes[n], t))
    BY <1>6 DEF KeepStale, ArchiveStale
  <2>2. PICK k, r : PressStale(k, n, r) /\ r \in Note /\ Follows(r, n)
    BY <2>1, StampsNear, EditFollows
  <2>3. /\ press' = [note |-> n, row |-> r, keep |-> k = "keep"] /\ ~Locked
        /\ backend = "sqlite" /\ edits' \in 0..MaxEdits
    BY <2>2, Numbers DEF PressStale, Pressed, JobInv, StateOK
  <2>4. press' \in Press /\ press'.row = r /\ press'.note = n
    BY <2>2, <2>3 DEF Press
  <2>5. QED
    BY <2>2, <2>3, <2>4 DEF PressStale, Still
<1>7. ASSUME NEW n \in Notes, Complete(n)
      PROVE  \E r \in Note : Edited(n, r)
  <2> DEFINE r == [notes[n] EXCEPT !.status = "completed", !.updated = today]
  <2>1. r \in Note /\ Follows(r, n)
    BY <1>1, EditFollows
  <2>2. ~Pressing'
    BY <1>3, <1>7 DEF Complete, Pressing
  <2>3. Edited(n, r)
    BY <1>2, <1>7, <2>1, <2>2 DEF Complete, Edited
  <2>4. QED
    BY <2>1, <2>3
<1>8. ASSUME NEW n \in Notes, Delete(n)
      PROVE  \E r \in Note : Edited(n, r)
  <2> DEFINE r == [notes[n] EXCEPT !.exists = FALSE]
  <2>1. r \in Note /\ ~r.exists /\ r.priority = notes[n].priority /\ r.updated = notes[n].updated
    BY <1>1 DEF Note
  <2>2. ~Pressing'
    BY <1>3, <1>8 DEF Delete, Pressing
  <2>3. Edited(n, r)
    BY <1>2, <1>8, <2>1, <2>2 DEF Delete, Edited
  <2>4. QED
    BY <2>1, <2>3
<1>9. ASSUME CommitPress
      PROVE  \E n \in Notes, r \in Note : Edited(n, r)
  <2>1. Pressing /\ press \in Press /\ Follows(press.row, press.note)
    BY <1>9 DEF CommitPress, JobInv, StateOK, PressOK
  <2>2. press.note \in Notes /\ press.row \in Note /\ today <= press.row.updated + Lag
    BY <2>1 DEF Press, Follows
  <2>3. edits' \in 0..MaxEdits /\ ~Pressing'
    BY <1>9 DEF CommitPress, Pressing, JobInv, StateOK
  <2>4. kept' = kept \/ kept' = [kept EXCEPT ![press.note] = today]
    BY <1>9 DEF CommitPress
  <2>5. Edited(press.note, press.row)
    BY <1>9, <2>1, <2>2, <2>3, <2>4 DEF CommitPress, Edited
  <2>6. QED
    BY <2>2, <2>5
<1>10. ASSUME PressDies
       PROVE  Still
  BY <1>10 DEF PressDies, Still, Pressing, JobInv, StateOK
<1>11. QED
  BY <1>4, <1>5, <1>6, <1>7, <1>8, <1>9, <1>10 DEF UserStep

LEMMA NextCases ==
    ASSUME JobInv, [Next]_vars
    PROVE  \/ Still
           \/ \E k \in Kinds : Begin(k)
           \/ \E n \in Notes \cup {Everyone} :
                Skip(n) \/ \E got, ok \in BOOLEAN : Tell(n, got, ok)
           \/ Record \/ InsertRefused \/ RecordAndReport \/ RecordWeekly \/ ReportReview
           \/ \E n \in Notes : ArchiveCompleted(n) \/ UpdateRefused(n)
           \/ Finish \/ Lost \/ Tick
           \/ \E n \in Notes, r \in Note : Edited(n, r)
<1>1. ASSUME NEW p \in Emitters, BusStep(p)
      PROVE  Still
  BY <1>1 DEF BusStep, Still, Pressing, JobInv, StateOK
<1>2. ASSUME RecordRefused \/ FinishRefused \/ JobDies
      PROVE  Lost
  BY <1>2 DEF RecordRefused, FinishRefused, JobDies, Lost
<1>3. UNCHANGED vars => Still
  BY DEF vars, Still, Pressing, JobInv, StateOK
<1>4. QED
  BY <1>1, <1>2, <1>3, UserStepIs DEF Next, JobStep

(***************************************************************************)
(* The steps of a run, field by field.                                     *)
(***************************************************************************)
LEMMA RunFields ==
    ASSUME JobInv, Running
    PROVE  /\ job \in Run /\ job.kind \in Kinds
           /\ job.todo \subseteq Notes \cup {Everyone} /\ job.seen \in [Notes -> Note]
           /\ job.stage \in {"next", "record", "event"} /\ job.note \in Notes \cup {Everyone}
           /\ job.told \in BOOLEAN /\ job.fresh \subseteq Row /\ job.changed \subseteq Notes
           /\ job.parted \in BOOLEAN
<1>1. job \in Run
  BY DEF JobInv, StateOK
<1>2. QED
  BY <1>1 DEF Run

LEMMA SkipJob ==
    ASSUME JobInv, NEW n \in Notes \cup {Everyone}, Skip(n)
    PROVE  /\ Running /\ job' \in Run /\ SameRun
           /\ job'.todo = job.todo \ {n} /\ job.stage = "next" /\ job'.stage = "next"
           /\ job'.fresh = job.fresh /\ job'.changed = job.changed
<1>1. /\ Running /\ job.stage = "next" /\ today' = today
      /\ job' = [job EXCEPT !.todo = @ \ {n}]
  BY DEF Skip
<1>2. job' \in Run
  BY <1>1, RunFields DEF Run
<1>3. /\ job'.kind = job.kind /\ job'.seen = job.seen /\ job'.todo = job.todo \ {n}
      /\ job'.stage = job.stage /\ job'.fresh = job.fresh /\ job'.changed = job.changed
  BY <1>1, RunFields DEF Run
<1>4. QED
  BY <1>1, <1>2, <1>3 DEF SameRun

LEMMA TellJob ==
    ASSUME JobInv, NEW n \in Notes \cup {Everyone}, NEW got \in BOOLEAN, NEW ok \in BOOLEAN,
           Tell(n, got, ok)
    PROVE  /\ Running /\ job' \in Run /\ SameRun
           /\ job'.todo = job.todo \ {n} /\ job.stage = "next" /\ job'.stage = "record"
           /\ job'.note = n /\ job'.told = ok /\ job'.fresh = job.fresh
           /\ job'.changed = IF job.kind = "escalation" THEN job.changed \cup {n}
                             ELSE job.changed
<1> DEFINE ch == IF job.kind = "escalation" THEN job.changed \cup {n} ELSE job.changed
<1>1. /\ Running /\ job.stage = "next" /\ today' = today /\ n \in job.todo
      /\ job' = [job EXCEPT !.todo = @ \ {n}, !.stage = "record", !.note = n, !.told = ok,
                            !.changed = IF job.kind = "escalation" THEN @ \cup {n} ELSE @]
  BY DEF Tell
<1>2. ch \in SUBSET Notes
  <2>1. job.kind = "escalation" => n \in Notes
    BY <1>1 DEF JobInv, RunOK, Subject, Subjects
  <2>2. QED
    BY <1>1, <2>1, RunFields
<1>3. job' \in Run
  BY <1>1, <1>2, RunFields DEF Run
<1>4. job'.kind = job.kind /\ job'.seen = job.seen /\ job'.fresh = job.fresh
  BY <1>1, RunFields DEF Run
<1>5. job'.todo = job.todo \ {n} /\ job'.stage = "record" /\ job'.note = n /\ job'.told = ok
  BY <1>1, RunFields DEF Run
<1>6. job'.changed = ch
  BY <1>1, RunFields DEF Run
<1>7. QED
  BY <1>1, <1>3, <1>4, <1>5, <1>6 DEF SameRun

LEMMA Next1Fields ==
    ASSUME JobInv, Running
    PROVE  /\ Next1 \in Run /\ Next1.kind = job.kind /\ Next1.seen = job.seen
           /\ Next1.todo = job.todo /\ Next1.stage = "next" /\ Next1.fresh = job.fresh
           /\ Next1.changed = job.changed
<1>1. Next1 \in Run
  BY RunFields DEF Run, Next1
<1>2. Next1.kind = job.kind /\ Next1.seen = job.seen /\ Next1.todo = job.todo
  BY RunFields DEF Run, Next1
<1>3. Next1.stage = "next" /\ Next1.fresh = job.fresh /\ Next1.changed = job.changed
  BY RunFields DEF Run, Next1
<1>4. QED
  BY <1>1, <1>2, <1>3

LEMMA NewRowOK ==
    ASSUME JobInv, Running, job.stage = "record"
    PROVE  /\ NewRow \in Row /\ NewRow.matter = About(job.note) /\ NewRow.sent = job.told
           /\ Subject(job.note)
<1>1. Subject(job.note)
  BY DEF JobInv, RunOK
<1>2. About(job.note) \in Matter /\ job.told \in BOOLEAN
  BY <1>1, AboutMatter, RunFields
<1>3. QED
  BY <1>1, <1>2 DEF NewRow, Row

LEMMA RecordJob ==
    ASSUME JobInv, Record \/ RecordAndReport \/ RecordWeekly \/ ReportReview
    PROVE  /\ Running /\ job' \in Run /\ SameRun
           /\ job'.todo = job.todo /\ job'.changed = job.changed
           /\ job'.stage \in {"next", "event"}
           /\ job'.stage = "event" => job.kind = "review"
           /\ job'.fresh = IF Record THEN Recorded
                           ELSE IF RecordAndReport THEN {} ELSE job.fresh
           /\ ReportReview <=> job.stage = "event"
<1>1. ASSUME Record \/ RecordAndReport, NEW F \in SUBSET Row, job' = [Next1 EXCEPT !.fresh = F],
             today' = today, Running
      PROVE  /\ job' \in Run /\ SameRun /\ job'.todo = job.todo /\ job'.changed = job.changed
             /\ job'.stage = "next" /\ job'.fresh = F
  <2>1. job' \in Run
    BY <1>1, Next1Fields DEF Run
  <2>2. job'.kind = job.kind /\ job'.seen = job.seen /\ job'.todo = job.todo
    BY <1>1, Next1Fields DEF Run
  <2>3. job'.stage = "next" /\ job'.fresh = F /\ job'.changed = job.changed
    BY <1>1, Next1Fields DEF Run
  <2>4. QED
    BY <1>1, <2>1, <2>2, <2>3 DEF SameRun
<1>2. CASE Record
  <2>1. /\ Running /\ job.stage = "record" /\ job' = [Next1 EXCEPT !.fresh = Recorded]
        /\ today' = today
    BY <1>2 DEF Record
  <2>2. Recorded \in SUBSET Row
    BY <2>1, NewRowOK, RunFields DEF Recorded
  <2>3. ~ReportReview
    BY <2>1 DEF ReportReview
  <2>4. QED
    BY <1>1, <1>2, <2>1, <2>2, <2>3
<1>3. CASE RecordAndReport
  <2>1. /\ Running /\ job.stage = "record" /\ job' = [Next1 EXCEPT !.fresh = {}]
        /\ today' = today /\ Reports
    BY <1>3 DEF RecordAndReport
  <2>2. ~ReportReview /\ ~Record
    BY <2>1 DEF ReportReview, Record
  <2>3. QED
    BY <1>1, <1>3, <2>1, <2>2
<1>4. CASE RecordWeekly
  <2>1. /\ Running /\ job.stage = "record" /\ today' = today /\ job.kind \in {"digest", "review"}
        /\ job' = IF job.kind = "review" /\ job.told /\ backend = "pg"
                  THEN [job EXCEPT !.stage = "event"] ELSE Next1
    BY <1>4 DEF RecordWeekly
  <2>2. ~ReportReview /\ ~Record /\ ~RecordAndReport
    BY <2>1 DEF ReportReview, Record, RecordAndReport, Reports
  <2>3. CASE job' = Next1
    BY <2>1, <2>2, <2>3, Next1Fields DEF SameRun
  <2>4. CASE job' = [job EXCEPT !.stage = "event"] /\ job.kind = "review"
    <3>1. job' \in Run
      BY <2>1, <2>4, RunFields DEF Run
    <3>2. job'.kind = job.kind /\ job'.seen = job.seen /\ job'.todo = job.todo
      BY <2>1, <2>4, RunFields DEF Run
    <3>3. job'.stage = "event" /\ job'.fresh = job.fresh /\ job'.changed = job.changed
      BY <2>1, <2>4, RunFields DEF Run
    <3>4. QED
      BY <2>1, <2>2, <2>4, <3>1, <3>2, <3>3 DEF SameRun
  <2>5. QED
    BY <2>1, <2>3, <2>4
<1>5. CASE ReportReview
  <2>1. Running /\ job.stage = "event" /\ today' = today /\ job' = Next1
    BY <1>5 DEF ReportReview
  <2>2. ~Record /\ ~RecordAndReport
    BY <2>1 DEF Record, RecordAndReport
  <2>3. QED
    BY <1>5, <2>1, <2>2, Next1Fields DEF SameRun
<1>6. QED
  BY <1>2, <1>3, <1>4, <1>5

LEMMA ArchiveJob ==
    ASSUME JobInv, NEW n \in Notes, ArchiveCompleted(n)
    PROVE  /\ Running /\ job' \in Run /\ SameRun /\ job.kind = "archive"
           /\ job'.todo = job.todo \ {n} /\ job.stage = "next" /\ job'.stage = "next"
           /\ job'.fresh = job.fresh
<1>1. /\ Running /\ job.stage = "next" /\ today' = today /\ job.kind = "archive"
      /\ job' = [job EXCEPT !.todo = @ \ {n},
                            !.changed = IF notes[n].exists THEN @ \cup {n} ELSE @]
  BY DEF ArchiveCompleted
<1>2. (IF notes[n].exists THEN job.changed \cup {n} ELSE job.changed) \in SUBSET Notes
  BY <1>1, RunFields
<1>3. job' \in Run
  BY <1>1, <1>2, RunFields DEF Run
<1>4. job'.kind = job.kind /\ job'.seen = job.seen /\ job'.todo = job.todo \ {n}
  BY <1>1, RunFields DEF Run
<1>5. job'.stage = job.stage /\ job'.fresh = job.fresh
  BY <1>1, RunFields DEF Run
<1>6. QED
  BY <1>1, <1>3, <1>4, <1>5 DEF SameRun

\* A refused update passes its note over; a refused insert leaves the attempt on
\* its note unrecorded.
LEMMA UpdateRefusedJob ==
    ASSUME JobInv, NEW n \in Notes, UpdateRefused(n)
    PROVE  /\ Running /\ job' \in Run /\ SameRun /\ job.kind \in {"escalation", "archive"}
           /\ job'.todo = job.todo \ {n} /\ job.stage = "next" /\ job'.stage = "next"
           /\ job'.fresh = job.fresh /\ job'.changed = job.changed
           /\ UNCHANGED <<backend, kinds, press, today, notes, kept, rows, messages, again,
                          losses, refused, runs, edits>>
<1>1. /\ Running /\ job.stage = "next" /\ job.kind \in {"escalation", "archive"}
      /\ job' = [job EXCEPT !.todo = @ \ {n}, !.parted = TRUE]
      /\ UNCHANGED <<backend, kinds, press, today, notes, kept, rows, messages, again,
                     losses, refused, runs, edits>>
  BY DEF UpdateRefused
<1>2. job' \in Run
  BY <1>1, RunFields DEF Run
<1>3. /\ job'.kind = job.kind /\ job'.seen = job.seen /\ job'.todo = job.todo \ {n}
      /\ job'.stage = job.stage /\ job'.fresh = job.fresh /\ job'.changed = job.changed
  BY <1>1, RunFields DEF Run
<1>4. QED
  BY <1>1, <1>2, <1>3 DEF SameRun

LEMMA InsertRefusedJob ==
    ASSUME JobInv, InsertRefused
    PROVE  /\ Running /\ job' \in Run /\ SameRun /\ job.kind \in ToReport
           /\ job'.todo = job.todo /\ job.stage = "record" /\ job'.stage = "next"
           /\ job'.fresh = job.fresh /\ job'.changed = job.changed
           /\ refused' = refused \cup {About(job.note)} /\ refused' \subseteq Matter
           /\ UNCHANGED <<backend, kinds, press, today, notes, kept, rows, messages, again,
                          losses, runs, edits>>
<1>1. /\ Running /\ job.stage = "record" /\ job.kind \in ToReport
      /\ job' = [Next1 EXCEPT !.parted = TRUE]
      /\ refused' = refused \cup {About(job.note)}
      /\ UNCHANGED <<backend, kinds, press, today, notes, kept, rows, messages, again,
                     losses, runs, edits>>
  BY DEF InsertRefused, ToReport
<1>2. job' \in Run
  BY <1>1, Next1Fields DEF Run
<1>3. /\ job'.kind = job.kind /\ job'.seen = job.seen /\ job'.todo = job.todo
      /\ job'.stage = "next" /\ job'.fresh = job.fresh /\ job'.changed = job.changed
  BY <1>1, Next1Fields DEF Run
<1>4. refused' \subseteq Matter
  BY <1>1, NewRowOK, AboutMatter DEF JobInv, StateOK
<1>5. QED
  BY <1>1, <1>2, <1>3, <1>4 DEF SameRun

LEMMA BeginJob ==
    ASSUME JobInv, NEW k \in Kinds, Begin(k)
    PROVE  /\ job' \in Run /\ job'.kind = k /\ job'.todo = Chosen(k) /\ job'.seen = notes
           /\ job'.stage = "next" /\ job'.fresh = {} /\ job'.changed = {}
           /\ UNCHANGED <<backend, kinds, press, today, notes, kept, rows, messages, again, losses,
                          refused, edits>>
           /\ ~Running
<1>1. job' = [kind |-> k, todo |-> Chosen(k), seen |-> notes, stage |-> "next",
              note |-> Everyone, told |-> FALSE, fresh |-> {}, changed |-> {}, parted |-> FALSE]
  BY DEF Begin
<1>2. Chosen(k) \subseteq Notes \cup {Everyone}
  BY DEF Chosen, DueNotes, StaleNotes, UrgentNotes, CompletedNotes
<1>3. job' \in Run
  BY <1>1, <1>2 DEF Run, JobInv, StateOK
<1>4. QED
  BY <1>1, <1>3 DEF Begin

(***************************************************************************)
(* The types and the duties of a run are kept.                             *)
(***************************************************************************)
LEMMA ChosenSubjects ==
    ASSUME JobInv, NEW k \in Kinds, Begin(k)
    PROVE  RunOK'
<1>1. /\ job'.kind = k /\ job'.todo = Chosen(k) /\ job'.seen = notes /\ job'.stage = "next"
      /\ today' = today
  BY BeginJob
<1>2. Chosen(k) \subseteq Subjects(k)
  BY DEF Chosen, Kinds, Subjects, DueNotes, StaleNotes, UrgentNotes, CompletedNotes
<1>3. k \in {"deadline", "escalation"} => \A n \in Chosen(k) : DaysLeft(n, notes) \in Nat
  <2>1. \A n \in DueNotes : DaysLeft(n, notes) \in Nat
    BY ReminderAssumption DEF DueNotes
  <2>2. \A n \in UrgentNotes : DaysLeft(n, notes) \in Nat
    BY Numbers DEF UrgentNotes
  <2>3. QED
    BY <2>1, <2>2 DEF Chosen
<1>4. \A n : DaysLeft(n, job.seen)' = DaysLeft(n, notes)
  BY <1>1 DEF DaysLeft
<1>5. QED
  BY <1>1, <1>2, <1>3, <1>4 DEF RunOK, Subject, Subjects

\* A run that goes on as it was has no new subjects.
LEMMA RunGoesOn ==
    ASSUME JobInv, Running, SameRun, job' \in Run, job'.todo \subseteq job.todo,
           \/ job'.stage = "next"
           \/ job'.stage = "record" /\ job'.note \in job.todo /\ job.kind # "archive"
           \/ job'.stage = "event" /\ job.kind = "review"
    PROVE  RunOK'
<1>1. \A n \in job.todo : Subject(n)
  BY DEF JobInv, RunOK
<1>2. \A n \in job.todo : Subject(n)'
  BY <1>1, AboutSame
<1>3. \A n \in job'.todo : Subject(n)'
  BY <1>2
<1>4. job'.stage = "record" => Subject(job.note)'
  BY <1>2 DEF Subject
<1>5. job'.kind = job.kind
  BY DEF SameRun
<1>6. QED
  BY <1>3, <1>4, <1>5 DEF RunOK

LEMMA StateStep ==
    ASSUME JobInv, [Next]_vars
    PROVE  StateOK' /\ RunOK'
<1> USE DEF JobInv
<1>0. /\ backend \in {"pg", "sqlite"} /\ kinds \in Together /\ today \in Days
      /\ notes \in [Notes -> Note] /\ kept \in [Notes -> Days \cup {-1}]
      /\ rows \subseteq Row /\ messages \subseteq Matter /\ again \subseteq messages
      /\ (Pressing => press \in Press) /\ refused \subseteq Matter
      /\ losses \in Nat /\ runs \in 0..MaxRuns /\ edits \in 0..MaxEdits
  BY DEF StateOK
<1>1. CASE Still
  <2>1. Pressing' => press' \in Press
    BY <1>0, <1>1 DEF Still, Pressing
  <2>2. StateOK'
    BY <1>0, <1>1, <2>1 DEF Still, StateOK, Running
  <2>3. RunOK'
    BY <1>1 DEF Still, RunOK, Running, Subject, DaysLeft
  <2>4. QED
    BY <2>2, <2>3
<1>2. ASSUME NEW k \in Kinds, Begin(k)
      PROVE  StateOK' /\ RunOK'
  <2>1. runs' \in 0..MaxRuns
    BY <1>0, <1>2, Numbers DEF Begin
  <2>2. StateOK'
    BY <1>0, <1>2, <2>1, BeginJob DEF StateOK, Pressing
  <2>3. QED
    BY <1>2, <2>2, ChosenSubjects
<1>3. ASSUME NEW n \in Notes \cup {Everyone}, Skip(n)
      PROVE  StateOK' /\ RunOK'
  <2>1. StateOK'
    BY <1>0, <1>3, SkipJob DEF Skip, StateOK, Pressing
  <2>2. RunOK'
    BY <1>3, SkipJob, RunGoesOn
  <2>3. QED
    BY <2>1, <2>2
<1>4. ASSUME NEW n \in Notes \cup {Everyone}, NEW got \in BOOLEAN, NEW ok \in BOOLEAN,
             Tell(n, got, ok)
      PROVE  StateOK' /\ RunOK'
  <2>1. Running /\ n \in job.todo /\ job.kind # "archive"
    BY <1>4 DEF Tell
  <2>2. About(n) \in Matter
    BY <2>1, AboutMatter DEF RunOK
  <2>3. messages' \subseteq Matter /\ again' \subseteq messages'
    BY <1>0, <1>4, <2>2 DEF Tell
  <2>4. StateOK'
    <3>1. UNCHANGED <<backend, kinds, press, today, notes, kept, rows, losses, refused, runs, edits>>
      BY <1>4 DEF Tell
    <3>2. QED
      BY <1>0, <1>4, <2>3, <3>1, TellJob DEF StateOK, Pressing
  <2>5. RunOK'
    BY <1>4, <2>1, TellJob, RunGoesOn
  <2>6. QED
    BY <2>4, <2>5
<1>5. CASE Record \/ RecordAndReport \/ RecordWeekly \/ ReportReview
  <2>1. /\ Running /\ job' \in Run /\ SameRun /\ job'.todo = job.todo
        /\ job'.stage \in {"next", "event"}
        /\ job'.stage = "event" => job.kind = "review"
    BY <1>5, RecordJob
  <2>2. rows' \subseteq Row
    <3>1. CASE Record \/ ReportReview
      BY <1>0, <3>1 DEF Record, ReportReview
    <3>2. CASE RecordAndReport
      <4>1. job.stage = "record" /\ rows' = rows \cup Recorded
        BY <3>2 DEF RecordAndReport
      <4>2. QED
        BY <1>0, <2>1, <4>1, NewRowOK, RunFields DEF Recorded
    <3>3. CASE RecordWeekly
      <4>1. job.stage = "record" /\ rows' = rows \cup {NewRow}
        BY <3>3 DEF RecordWeekly
      <4>2. QED
        BY <1>0, <2>1, <4>1, NewRowOK
    <3>4. QED
      BY <1>5, <3>1, <3>2, <3>3
  <2>3. UNCHANGED <<backend, kinds, press, today, notes, kept, messages, again, losses, refused,
                    runs, edits>>
    BY <1>5 DEF Record, RecordAndReport, RecordWeekly, ReportReview
  <2>4. StateOK'
    BY <1>0, <2>1, <2>2, <2>3 DEF StateOK, Pressing
  <2>5. RunOK'
    BY <2>1, RunGoesOn
  <2>6. QED
    BY <2>4, <2>5
<1>6. ASSUME NEW n \in Notes, ArchiveCompleted(n)
      PROVE  StateOK' /\ RunOK'
  <2>1. UNCHANGED <<backend, kinds, press, today, notes, kept, rows, messages, again, losses,
                    refused, runs, edits>>
    BY <1>6 DEF ArchiveCompleted
  <2>2. StateOK'
    BY <1>0, <1>6, <2>1, ArchiveJob DEF StateOK, Pressing
  <2>3. RunOK'
    BY <1>6, ArchiveJob, RunGoesOn
  <2>4. QED
    BY <2>2, <2>3
<1>7. CASE Finish
  <2>1. /\ Running /\ rows' = rows \cup job.fresh /\ notes' = Applied /\ job' = Nothing
        /\ UNCHANGED <<backend, kinds, press, today, kept, messages, again, losses, refused,
                       runs, edits>>
    BY <1>7 DEF Finish, AtEnd
  <2>2. \A r \in Note : Escalated(r) \in Note /\ ArchivedAt(r, today) \in Note
    <3>1. today \in Days /\ (\A x \in Days : x \in Int)
      BY <1>0, Numbers DEF StateOK
    <3>2. QED
      BY <3>1 DEF Escalated, ArchivedAt, Note
  <2>3. notes' \in [Notes -> Note]
    BY <1>0, <2>1, <2>2 DEF Applied
  <2>4. rows' \subseteq Row
    BY <1>0, <2>1, RunFields
  <2>5. ~Running'
    BY <2>1 DEF Running
  <2>6. QED
    BY <1>0, <2>1, <2>3, <2>4, <2>5 DEF StateOK, RunOK, Pressing
<1>8. CASE Lost
  <2>1. ~Running' /\ losses' \in Nat
    BY <1>0, <1>8 DEF Lost, Running
  <2>2. QED
    BY <1>0, <1>8, <2>1 DEF Lost, StateOK, RunOK, Pressing
<1>9. CASE Tick
  <2>1. ~Running' /\ today' \in Days
    BY <1>0, <1>9, Numbers DEF Tick, Running, Days
  <2>2. QED
    BY <1>0, <1>9, <2>1 DEF Tick, StateOK, RunOK, Pressing
<1>10. ASSUME NEW n \in Notes, NEW r \in Note, Edited(n, r)
       PROVE  StateOK' /\ RunOK'
  <2>1. notes' \in [Notes -> Note] /\ rows' \subseteq Row
    BY <1>0, <1>10 DEF Edited
  <2>2. kept' \in [Notes -> Days \cup {-1}]
    <3>1. kept' = kept \/ kept' = [kept EXCEPT ![n] = today]
      BY <1>10 DEF Edited
    <3>2. QED
      BY <1>0, <3>1
  <2>3. UNCHANGED <<backend, kinds, today, job, messages, again, losses, refused, runs>>
        /\ edits' \in 0..MaxEdits /\ ~Pressing'
    BY <1>10 DEF Edited
  <2>4. StateOK'
    BY <1>0, <2>1, <2>2, <2>3 DEF StateOK, Running
  <2>5. RunOK'
    BY <2>3 DEF RunOK, Running, Subject, DaysLeft
  <2>6. QED
    BY <2>4, <2>5
<1>11. ASSUME NEW n \in Notes, UpdateRefused(n)
       PROVE  StateOK' /\ RunOK'
  <2>1. StateOK'
    BY <1>0, <1>11, UpdateRefusedJob DEF StateOK, Pressing
  <2>2. RunOK'
    BY <1>11, UpdateRefusedJob, RunGoesOn
  <2>3. QED
    BY <2>1, <2>2
<1>12. CASE InsertRefused
  <2>1. StateOK'
    BY <1>0, <1>12, InsertRefusedJob DEF StateOK, Pressing
  <2>2. RunOK'
    BY <1>12, InsertRefusedJob, RunGoesOn
  <2>3. QED
    BY <2>1, <2>2
<1>13. QED
  BY <1>1, <1>2, <1>3, <1>4, <1>5, <1>6, <1>7, <1>8, <1>9, <1>10, <1>11, <1>12, NextCases

\* While a press has the lock nobody else writes: no step of a job adds to its
\* transaction, and none of the rows the press found changes.
LEMMA PressStep ==
    ASSUME JobInv, [Next]_vars
    PROVE  PressOK'
<1>1. CASE Still
  <2>1. CASE ~Pressing' \/ ~(press' = press)
    BY <1>1, <2>1 DEF Still, PressOK, Locked, Running, Holds, Follows
  <2>2. CASE Pressing' /\ press' = press
    BY <1>1, <2>2 DEF Still, JobInv, PressOK, Pressing, Running, Holds, Follows
  <2>3. QED
    BY <2>1, <2>2
<1>2. ASSUME press' = press, backend' = backend, today' = today,
             \A n \in Notes : Pressing => notes'[n] = notes[n],
             Pressing => ~(Running /\ Holds)'
      PROVE  PressOK'
  <2>1. SUFFICES ASSUME Pressing
                 PROVE  backend = "sqlite" /\ ~(Running /\ Holds)' /\ Follows(press.row, press.note)'
    BY <1>2 DEF PressOK, Pressing
  <2>2. press.note \in Notes
    BY <2>1 DEF JobInv, StateOK, Press
  <2>3. QED
    BY <1>2, <2>1, <2>2 DEF JobInv, PressOK, Follows
<1>3. ASSUME NEW k \in Kinds, Begin(k)
      PROVE  PressOK'
  BY <1>2, <1>3, BeginJob DEF Holds
<1>4. ASSUME NEW n \in Notes \cup {Everyone}, Skip(n)
      PROVE  PressOK'
  <2>1. UNCHANGED <<press, backend, today, notes>>
    BY <1>4 DEF Skip
  <2>2. QED
    BY <1>2, <1>4, <2>1, SkipJob DEF Holds, JobInv, PressOK
<1>5. ASSUME NEW n \in Notes \cup {Everyone}, NEW got \in BOOLEAN, NEW ok \in BOOLEAN,
             Tell(n, got, ok)
      PROVE  PressOK'
  <2>1. UNCHANGED <<press, backend, today, notes>> /\ (job.kind = "escalation" => ~Pressing)
    BY <1>5 DEF Tell
  <2>2. QED
    BY <1>2, <1>5, <2>1, TellJob DEF Holds, JobInv, PressOK
<1>6. CASE Record \/ RecordWeekly
  <2>1. UNCHANGED <<press, backend, today, notes>> /\ ~Pressing
    BY <1>6 DEF Record, RecordWeekly
  <2>2. QED
    BY <1>2, <2>1
<1>7. CASE RecordAndReport \/ ReportReview
  <2>1. UNCHANGED <<press, backend, today, notes>>
    BY <1>7 DEF RecordAndReport, ReportReview
  <2>2. Pressing => ~RecordAndReport /\ ~Record
    BY <1>7 DEF JobInv, PressOK, RecordAndReport, Reports, Record
  <2>3. Pressing => job'.fresh = job.fresh /\ job'.changed = job.changed /\ Running
    BY <1>7, <2>2, RecordJob
  <2>4. QED
    BY <1>2, <2>1, <2>3 DEF Holds, JobInv, PressOK
<1>8. ASSUME NEW n \in Notes, ArchiveCompleted(n)
      PROVE  PressOK'
  <2>1. UNCHANGED <<press, backend, today, notes>> /\ ~Pressing
    BY <1>8 DEF ArchiveCompleted
  <2>2. QED
    BY <1>2, <2>1
<1>9. ASSUME NEW n \in Notes, UpdateRefused(n)
      PROVE  PressOK'
  BY <1>2, <1>9, UpdateRefusedJob DEF Holds, JobInv, PressOK
<1>10. CASE InsertRefused
  BY <1>2, <1>10, InsertRefusedJob DEF Holds, JobInv, PressOK
<1>11. CASE Finish
  <2>1. /\ UNCHANGED <<press, backend, today>> /\ notes' = Applied /\ Running /\ ~Running'
        /\ notes \in [Notes -> Note]
    BY <1>11 DEF Finish, AtEnd, Running, JobInv, StateOK
  <2>2. Pressing => job.changed = {}
    BY <2>1 DEF JobInv, PressOK, Holds
  <2>3. QED
    BY <1>2, <2>1, <2>2 DEF Applied
<1>12. CASE Lost
  BY <1>2, <1>12 DEF Lost, Running
<1>13. CASE Tick
  <2>1. ~Pressing'
    BY <1>13 DEF Tick, Pressing
  <2>2. QED
    BY <2>1 DEF PressOK
<1>14. ASSUME NEW n \in Notes, NEW r \in Note, Edited(n, r)
       PROVE  PressOK'
  BY <1>14 DEF Edited, PressOK
<1>15. QED
  BY <1>1, <1>3, <1>4, <1>5, <1>6, <1>7, <1>8, <1>9, <1>10, <1>11, <1>12, <1>13, <1>14, NextCases

LEMMA JobInvStep ==
    ASSUME JobInv, [Next]_vars
    PROVE  JobInv'
BY StateStep, PressStep DEF JobInv

LEMMA InitJobInv == Init => JobInv
<1> SUFFICES ASSUME Init
             PROVE  JobInv
  OBVIOUS
<1>1. ~Running /\ ~Pressing
  BY DEF Init, Running, Pressing
<1>2. [exists |-> TRUE, status |-> "active", priority |-> "medium", deadline |-> Due,
       updated |-> 0] \in Note
  BY Numbers DEF Note
<1>3. QED
  BY <1>1, <1>2, Numbers DEF Init, JobInv, StateOK, RunOK, PressOK

LEMMA SpecJobInv == Spec => []JobInv
BY InitJobInv, JobInvStep, PTL DEF Spec

(***************************************************************************)
(* The jobs and the users are emitters of the bus, so what EventBusProofs  *)
(* shows of it holds here.                                                 *)
(***************************************************************************)
LEMMA MatterAbout == Matter \subseteq Abouts
BY DEF Matter, Abouts

LEMMA StepOfBus ==
    ASSUME JobInv, [Next]_vars
    PROVE  [BusNext(Abouts)]_busVars
<1>1. "job" \in Emitters /\ "user" \in Emitters
  BY ReminderAssumption
<1>2. ASSUME NEW p \in Emitters, BusStep(p)
      PROVE  BusNext(Abouts)
  BY <1>2 DEF BusStep, BusNext
<1>3. ASSUME JobDies
      PROVE  BusNext(Abouts)
  BY <1>1, <1>3 DEF JobDies, BusNext
<1>4. ASSUME RecordAndReport \/ ReportReview
      PROVE  BusNext(Abouts)
  <2>1. PICK n : Subject(n) /\ Running /\ EmitEvent("job", About(n))
    <3>1. CASE RecordAndReport
      BY <3>1, NewRowOK DEF RecordAndReport
    <3>2. CASE ReportReview
      <4>1. Running /\ job.stage = "event" /\ EmitEvent("job", About(Everyone))
        BY <3>2 DEF ReportReview
      <4>2. Subject(Everyone)
        BY <4>1 DEF JobInv, RunOK, Subject, Subjects
      <4>3. QED
        BY <4>1, <4>2
    <3>3. QED
      BY <1>4, <3>1, <3>2
  <2>2. About(n) \in Abouts
    BY <2>1, AboutMatter, MatterAbout
  <2>3. QED
    BY <1>1, <2>1, <2>2 DEF BusNext
<1>5. ASSUME NEW n \in Notes, Complete(n)
      PROVE  BusNext(Abouts)
  <2> DEFINE a == [kind |-> "completed", note |-> n, day |-> today, left |-> 0]
  <2>1. a \in Abouts
    BY DEF Abouts, JobInv, StateOK
  <2>2. EmitEvent("user", a)
    BY <1>5 DEF Complete
  <2>3. QED
    BY <1>1, <2>1, <2>2 DEF BusNext
<1>6. ASSUME NEW n \in Notes, \/ \E d \in Deadlines : Reschedule(n, d)
                              \/ \E d \in SnoozeDays : Snooze(n, d)
                              \/ KeepStale(n) \/ ArchiveStale(n) \/ Delete(n)
      PROVE  UNCHANGED busVars
  BY <1>6 DEF Reschedule, Snooze, KeepStale, ArchiveStale, PressStale, Delete
<1>7. ASSUME \/ \E k \in Kinds : Begin(k)
             \/ \E n \in Notes \cup {Everyone} :
                  Skip(n) \/ \E got, ok \in BOOLEAN : Tell(n, got, ok)
             \/ Record \/ InsertRefused \/ RecordRefused \/ RecordWeekly
             \/ \E n \in Notes : ArchiveCompleted(n) \/ UpdateRefused(n)
             \/ Finish \/ FinishRefused \/ Tick \/ CommitPress \/ PressDies \/ UNCHANGED vars
      PROVE  UNCHANGED busVars
  BY <1>7 DEF Begin, Skip, Tell, Record, InsertRefused, UpdateRefused, RecordRefused, RecordWeekly, ArchiveCompleted,
              Finish, FinishRefused, Tick, CommitPress, PressDies, vars
<1>8. QED
  BY <1>2, <1>3, <1>4, <1>5, <1>6, <1>7 DEF Next, JobStep, UserStep

LEMMA SpecOfBus == Spec => BusSpec(Abouts)
<1>1. Init => BusInit
  BY DEF Init
<1>2. JobInv /\ [Next]_vars => [BusNext(Abouts)]_busVars
  BY StepOfBus
<1>3. QED
  BY <1>1, <1>2, SpecJobInv, PTL DEF Spec, BusSpec

\* Type correctness of the jobs, the notes and the bus together.
THEOREM TypeCorrect == Spec => []TypeOK
<1>1. JobInv /\ BusTypeOK => TypeOK
  BY DEF JobInv, StateOK, TypeOK
<1>2. BusSpec(Abouts) => []BusTypeOK
  BY BusTypeCorrect
<1>3. QED
  BY <1>1, <1>2, SpecJobInv, SpecOfBus, PTL

\* No event of a reminder or of a completed note is posted more often than
\* dispatch_event's loop allows (events.py:54), whoever dies or fails when.
THEOREM EventsPostsBounded == Spec => []PostsBounded
<1>1. BusSpec(Abouts) => []PostsBounded
  BY PostsAreBounded
<1>2. QED
  BY <1>1, SpecOfBus, PTL

\* With a webhook, an event of a job or a user that nobody sends any more is
\* pending only because of a fault of its emitter.
THEOREM EventsForgottenOnlyByFault == Spec => []PendingNeedsFault
<1>1. BusSpec(Abouts) => []PendingNeedsFault
  BY ForgottenOnlyByFault
<1>2. QED
  BY <1>1, SpecOfBus, PTL

\* In the system of jobs and users too the bus implements Outbox: the status of
\* an event is set once, and "delivered" only for one the subscriber has.
THEOREM EventsKeepPromise == Spec => KeepsPromise
<1>1. BusSpec(Abouts) => KeepsPromise
  BY BusKeepsPromise
<1>2. QED
  BY <1>1, SpecOfBus

(***************************************************************************)
(* The records of the messages are kept.                                   *)
(***************************************************************************)

\* A note that is gone, and a transaction that was lost, stay so.
LEMMA NothingReturns ==
    ASSUME JobInv, [Next]_vars
    PROVE  /\ losses > 0 => losses' > 0
           /\ refused \subseteq refused'
           /\ \A n : ~Exists(n) => ~Exists(n)'
<1>1. losses \in Nat /\ notes \in [Notes -> Note]
  BY DEF JobInv, StateOK
<1>2. CASE notes' = notes /\ losses' = losses /\ refused \subseteq refused'
  BY <1>2 DEF Exists
<1>3. CASE Finish
  <2>1. notes' = Applied /\ losses' = losses /\ refused' = refused
    BY <1>3 DEF Finish
  <2>2. \A n \in Notes : notes'[n].exists = notes[n].exists
    BY <1>1, <2>1 DEF Applied, Escalated, ArchivedAt, Note
  <2>3. QED
    BY <2>1, <2>2 DEF Exists
<1>4. CASE Lost
  BY <1>1, <1>4 DEF Lost, Exists
<1>5. ASSUME NEW n \in Notes, NEW r \in Note, Edited(n, r)
      PROVE  /\ losses > 0 => losses' > 0
             /\ refused \subseteq refused'
             /\ \A m : ~Exists(m) => ~Exists(m)'
  <2>1. /\ notes' = [notes EXCEPT ![n] = r] /\ losses' = losses /\ refused' = refused
        /\ r.exists => notes[n].exists
    BY <1>5 DEF Edited, Follows
  <2>2. \A m \in Notes : notes'[m].exists => notes[m].exists
    BY <1>1, <2>1
  <2>3. QED
    BY <2>1, <2>2 DEF Exists
<1>6. QED
  BY <1>2, <1>3, <1>4, <1>5, NextCases
     DEF Still, Begin, Skip, Tell, Record, InsertRefused, UpdateRefused, RecordAndReport,
         RecordWeekly, ReportReview, ArchiveCompleted, Tick

\* What it takes for the messages to stay on record ...
LEMMA StaysOnRecord ==
    ASSUME JobInv, [Next]_vars, OnRecord, messages' = messages,
           \A r \in rows \cup Pending :
             r \in (rows \cup Pending)' \/ losses' > 0 \/ ~Exists(r.matter.note)',
           \A m : InHand(m) =>
             \/ InHand(m)' \/ losses' > 0 \/ m \in refused'
             \/ \E r \in (rows \cup Pending)' : r.matter = m
    PROVE  OnRecord'
<1>1. SUFFICES ASSUME NEW m \in messages
               PROVE  \/ \E r \in (rows \cup Pending)' : r.matter = m
                      \/ losses' > 0 \/ m \in refused' \/ ~Exists(m.note)' \/ InHand(m)'
  BY DEF OnRecord
<1>2. CASE \E r \in rows \cup Pending : r.matter = m
  BY <1>2
<1>3. CASE losses > 0 \/ m \in refused \/ ~Exists(m.note)
  BY <1>3, NothingReturns
<1>4. CASE InHand(m)
  BY <1>4
<1>5. QED
  BY <1>2, <1>3, <1>4 DEF OnRecord

\* ... for the escalations to stay unrepeatable ...
LEMMA StaysEscalated ==
    ASSUME JobInv, [Next]_vars, EscalatedOnce, messages' = messages,
           \A n : Urgent(n) => Urgent(n)' \/ losses' > 0,
           (Running /\ job.kind = "escalation" => \A n \in job.todo : ~Urgent(n))'
    PROVE  EscalatedOnce'
<1>1. ASSUME NEW m \in messages, m.kind = "escalation"
      PROVE  m.note \in Notes /\ (losses' > 0 \/ ~Exists(m.note)' \/ Urgent(m.note)')
  BY <1>1, NothingReturns DEF EscalatedOnce
<1>2. QED
  BY <1>1 DEF EscalatedOnce

\* ... and for no message to be repeated.
LEMMA StaysUnrepeated ==
    ASSUME JobInv, [Next]_vars, RepeatNeedsLoss, again' = again
    PROVE  RepeatNeedsLoss'
BY NothingReturns DEF RepeatNeedsLoss

LEMMA SameIsSame ==
    ASSUME NEW m
    PROVE  SameNotice(m, m)
BY DEF SameNotice, SameNoticePg, SameNoticeSqlite

\* A message that was delivered before is sent again only if its row was lost.
LEMMA RepeatIsExcused ==
    ASSUME JobInv, RecordInv, NEW n \in Notes, NEW got \in BOOLEAN, NEW ok \in BOOLEAN,
           Tell(n, got, ok), About(n) \in messages
    PROVE  losses > 0 \/ About(n) \in refused \/ ~Exists(n)
<1>1. /\ Running /\ job.stage = "next" /\ n \in job.todo /\ job.kind # "archive"
      /\ ~Duplicate(n)
  BY DEF Tell
<1>2. /\ About(n).kind = job.kind /\ About(n).note = n
  BY AboutFields
<1>3. SUFFICES ASSUME losses = 0, About(n) \notin refused, Exists(n)
               PROVE  FALSE
  BY DEF JobInv, StateOK
<1>4. PICK r \in rows \cup Pending : r.matter = About(n)
  BY <1>1, <1>2, <1>3 DEF RecordInv, OnRecord, InHand
<1>5. CASE job.kind \in {"deadline", "stale"}
  <2>1. SameNotice(r.matter, About(n))
    BY <1>4, SameIsSame
  <2>2. QED
    BY <1>1, <1>4, <1>5, <2>1 DEF Duplicate, Pending
<1>6. CASE job.kind = "escalation"
  <2>1. ~Urgent(n)
    BY <1>1, <1>6 DEF RecordInv, EscalatedOnce
  <2>2. QED
    BY <1>2, <1>3, <1>6, <2>1 DEF RecordInv, EscalatedOnce
<1>7. CASE job.kind \in {"digest", "review"}
  <2>1. n = Everyone
    BY <1>1, <1>7 DEF JobInv, RunOK, Subject, Subjects
  <2>2. QED
    BY <2>1, Numbers
<1>8. QED
  BY <1>1, <1>5, <1>6, <1>7, RunFields DEF Kinds

LEMMA TellKeepsRecords ==
    ASSUME JobInv, RecordInv, [Next]_vars, NEW n \in Notes \cup {Everyone},
           NEW got \in BOOLEAN, NEW ok \in BOOLEAN, Tell(n, got, ok)
    PROVE  RecordInv'
<1>1. /\ Running /\ job.stage = "next" /\ n \in job.todo /\ job.kind # "archive"
      /\ ok => got
      /\ messages' = IF got THEN messages \cup {About(n)} ELSE messages
      /\ again' = IF got /\ About(n) \in messages /\ n # Everyone
                    THEN again \cup {About(n)} ELSE again
      /\ UNCHANGED <<notes, rows, losses, refused>>
  BY DEF Tell
<1>2. /\ job' \in Run /\ SameRun /\ job'.stage = "record" /\ job'.note = n
      /\ job'.told = ok /\ job'.fresh = job.fresh /\ job'.todo = job.todo \ {n}
      /\ job'.changed = IF job.kind = "escalation" THEN job.changed \cup {n} ELSE job.changed
  BY TellJob
<1>3. Running' /\ Pending' = job.fresh /\ Pending = job.fresh
  BY <1>1, <1>2, RunRuns DEF Pending, Running
<1>4. \A m : About(m)' = About(m)
  BY <1>2, AboutSame
<1>5. \A m : Exists(m)' = Exists(m)
  BY <1>1 DEF Exists
<1>6. About(job.note)' = About(n)
  BY <1>2 DEF About, SameRun, DaysLeft
<1>7. SentTrue'
  <2>1. \A r \in (rows \cup Pending)' : r.sent => r.matter \in messages'
    BY <1>1, <1>3 DEF RecordInv, SentTrue
  <2>2. job'.told => About(job.note)' \in messages'
    BY <1>1, <1>2, <1>6
  <2>3. QED
    BY <2>1, <2>2 DEF SentTrue
<1>8. OnRecord'
  <2>1. \A m : m = About(n) => InHand(m)'
    BY <1>2, <1>3, <1>6 DEF InHand
  <2>2. ASSUME NEW m \in messages
        PROVE  \/ \E r \in (rows \cup Pending)' : r.matter = m
               \/ losses' > 0 \/ m \in refused' \/ ~Exists(m.note)'
    BY <1>1, <1>3, <1>5 DEF RecordInv, OnRecord, InHand
  <2>3. QED
    BY <1>1, <2>1, <2>2 DEF OnRecord
<1>9. EscalatedOnce'
  <2>1. \A x : Urgent(x) => Urgent(x)'
    BY <1>1, <1>2, <1>3 DEF Urgent, SameRun
  <2>2. job.kind = "escalation" => Urgent(n)'
    BY <1>2, <1>3 DEF Urgent, SameRun
  <2>3. job.kind = "escalation" => n \in Notes
    BY <1>1 DEF JobInv, RunOK, Subject, Subjects
  <2>4. \A m \in messages' : m.kind = "escalation" =>
          m.note \in Notes /\ (losses' > 0 \/ ~Exists(m.note)' \/ Urgent(m.note)')
    BY <1>1, <1>5, <2>1, <2>2, <2>3, AboutFields DEF RecordInv, EscalatedOnce
  <2>5. \A x \in job'.todo : job.kind = "escalation" => ~Urgent(x)'
    BY <1>1, <1>2 DEF Urgent, SameRun, RecordInv, EscalatedOnce
  <2>6. QED
    BY <1>2, <2>4, <2>5 DEF EscalatedOnce, SameRun
<1>10. RepeatNeedsLoss'
  <2>1. n \in Notes /\ About(n) \in messages => losses > 0 \/ About(n) \in refused \/ ~Exists(n)
    BY RepeatIsExcused
  <2>2. \A m \in again' : losses > 0 \/ m \in refused \/ ~Exists(m.note)
    BY <1>1, <2>1, AboutFields DEF RecordInv, RepeatNeedsLoss
  <2>3. QED
    BY <1>1, <1>5, <2>2 DEF RepeatNeedsLoss
<1>11. QED
  BY <1>7, <1>8, <1>9, <1>10 DEF RecordInv

LEMMA RecordKeepsRecords ==
    ASSUME JobInv, RecordInv, [Next]_vars,
           Record \/ RecordAndReport \/ RecordWeekly \/ ReportReview
    PROVE  RecordInv'
<1>1. /\ Running /\ job' \in Run /\ SameRun /\ job'.todo = job.todo
      /\ job'.changed = job.changed /\ job'.stage \in {"next", "event"}
      /\ ReportReview <=> job.stage = "event"
      /\ job'.fresh = IF Record THEN Recorded
                      ELSE IF RecordAndReport THEN {} ELSE job.fresh
  BY RecordJob
<1>2. Running' /\ Pending' = job'.fresh /\ Pending = job.fresh
  BY <1>1, RunRuns DEF Pending, Running
<1>3. UNCHANGED <<notes, messages, again, losses, refused>>
  BY DEF Record, RecordAndReport, RecordWeekly, ReportReview
<1>4. (rows \cup Pending)' = IF ReportReview THEN rows \cup Pending
                             ELSE rows \cup Pending \cup {NewRow}
  <2>1. CASE Record
    <3>1. job.stage = "record" /\ rows' = rows
      BY <2>1 DEF Record
    <3>2. QED
      BY <1>1, <1>2, <2>1, <3>1 DEF Recorded
  <2>2. CASE RecordAndReport
    <3>1. job.stage = "record" /\ rows' = rows \cup Recorded /\ ~Record
      BY <2>2 DEF RecordAndReport, Record
    <3>2. QED
      BY <1>1, <1>2, <2>2, <3>1 DEF Recorded
  <2>3. CASE RecordWeekly
    <3>1. job.stage = "record" /\ rows' = rows \cup {NewRow} /\ ~Record /\ ~RecordAndReport
      BY <2>3 DEF RecordWeekly, Record, RecordAndReport, Reports
    <3>2. QED
      BY <1>1, <1>2, <3>1
  <2>4. CASE ReportReview
    <3>1. rows' = rows /\ ~Record /\ ~RecordAndReport
      BY <2>4 DEF ReportReview, Record, RecordAndReport
    <3>2. QED
      BY <1>1, <1>2, <2>4, <3>1
  <2>5. QED
    BY <2>1, <2>2, <2>3, <2>4
<1>5. ~ReportReview => /\ job.stage = "record" /\ NewRow.matter = About(job.note)
                       /\ NewRow.sent = job.told
  <2>1. ~ReportReview => job.stage = "record"
    BY DEF Record, RecordAndReport, RecordWeekly
  <2>2. QED
    BY <1>1, <2>1, NewRowOK
<1>6. SentTrue'
  <2>1. \A r \in (rows \cup Pending)' : r.sent => r.matter \in messages
    BY <1>1, <1>4, <1>5 DEF RecordInv, SentTrue
  <2>2. QED
    BY <1>1, <1>3, <2>1 DEF SentTrue
<1>7. OnRecord'
  <2>1. \A m : InHand(m) => \E r \in (rows \cup Pending)' : r.matter = m
    BY <1>1, <1>4, <1>5 DEF InHand
  <2>2. \A r \in rows \cup Pending : r \in (rows \cup Pending)'
    BY <1>4
  <2>3. QED
    BY <1>3, <2>1, <2>2, StaysOnRecord DEF RecordInv
<1>8. EscalatedOnce'
  <2>1. \A n : Urgent(n)' = Urgent(n)
    BY <1>1, <1>2, <1>3 DEF Urgent, SameRun
  <2>2. (Running /\ job.kind = "escalation" => \A n \in job.todo : ~Urgent(n))'
    BY <1>1, <2>1 DEF RecordInv, EscalatedOnce, SameRun
  <2>3. QED
    BY <1>3, <2>1, <2>2, StaysEscalated DEF RecordInv
<1>9. QED
  BY <1>3, <1>6, <1>7, <1>8, StaysUnrepeated DEF RecordInv

LEMMA RecordInvStep ==
    ASSUME JobInv, RecordInv, [Next]_vars
    PROVE  RecordInv'
<1> USE DEF RecordInv
<1>1. CASE Still
  BY <1>1 DEF Still, SentTrue, OnRecord, EscalatedOnce, RepeatNeedsLoss, Pending, InHand,
              Urgent, Running, Exists, About, DaysLeft
<1>2. ASSUME NEW k \in Kinds, Begin(k)
      PROVE  RecordInv'
  <2>1. /\ ~Running /\ Running' /\ job'.kind = k /\ job'.todo = Chosen(k)
        /\ job'.stage = "next" /\ job'.fresh = {} /\ job'.changed = {}
        /\ UNCHANGED <<notes, rows, messages, again, losses, refused>>
    BY <1>2, BeginJob, RunRuns DEF Running
  <2>2. Pending = {} /\ Pending' = {}
    BY <2>1 DEF Pending
  <2>3. SentTrue'
    BY <2>1, <2>2 DEF SentTrue
  <2>4. OnRecord'
    BY <2>1, <2>2, StaysOnRecord DEF InHand
  <2>5. EscalatedOnce'
    <3>1. \A n : Urgent(n)' = Urgent(n)
      BY <2>1 DEF Urgent
    <3>2. k = "escalation" => \A n \in Chosen(k) : ~Urgent(n)
      BY <2>1 DEF Chosen, UrgentNotes, Urgent
    <3>3. (Running /\ job.kind = "escalation" => \A n \in job.todo : ~Urgent(n))'
      BY <2>1, <3>1, <3>2
    <3>4. QED
      BY <2>1, <3>1, <3>3, StaysEscalated
  <2>6. QED
    BY <2>1, <2>3, <2>4, <2>5, StaysUnrepeated
<1>3. ASSUME Running, job' \in Run, SameRun, job'.todo \subseteq job.todo,
             job.stage = "next", job'.stage = "next", job'.fresh = job.fresh,
             job.kind = "escalation" => job'.changed = job.changed,
             UNCHANGED <<notes, rows, messages, again, losses, refused>>
      PROVE  RecordInv'
  <2>1. Running' /\ Pending' = Pending
    BY <1>3, RunRuns DEF Pending, Running
  <2>2. SentTrue'
    BY <1>3, <2>1 DEF SentTrue
  <2>3. OnRecord'
    BY <1>3, <2>1, StaysOnRecord DEF InHand
  <2>4. \A n : Urgent(n)' = Urgent(n)
    BY <1>3, <2>1 DEF Urgent, SameRun
  <2>5. (Running /\ job.kind = "escalation" => \A n \in job.todo : ~Urgent(n))'
    BY <1>3, <2>4 DEF EscalatedOnce, SameRun
  <2>6. QED
    BY <1>3, <2>2, <2>3, <2>4, <2>5, StaysEscalated, StaysUnrepeated
<1>4. ASSUME NEW n \in Notes \cup {Everyone}, Skip(n)
      PROVE  RecordInv'
  BY <1>3, <1>4, SkipJob DEF Skip
<1>5. ASSUME NEW n \in Notes, ArchiveCompleted(n) \/ UpdateRefused(n)
      PROVE  RecordInv'
  BY <1>3, <1>5, ArchiveJob, UpdateRefusedJob DEF ArchiveCompleted
<1>6. CASE Finish
  <2>1. /\ Running /\ job.stage = "next" /\ job' = Nothing /\ notes' = Applied
        /\ rows' = rows \cup job.fresh
        /\ UNCHANGED <<messages, again, losses, refused>>
    BY <1>6 DEF Finish, AtEnd
  <2>2. ~Running' /\ Pending' = {} /\ Pending = job.fresh
    BY <2>1 DEF Pending, Running
  <2>3. SentTrue'
    BY <2>1, <2>2 DEF SentTrue
  <2>4. OnRecord'
    BY <2>1, <2>2, StaysOnRecord DEF InHand
  <2>5. ASSUME NEW n, Urgent(n), n \in Notes
        PROVE  Urgent(n)'
    BY <2>1, <2>5 DEF Urgent, Applied, Escalated, ArchivedAt, JobInv, StateOK, Note
  <2>6. EscalatedOnce'
    <3>1. ASSUME NEW m \in messages, m.kind = "escalation"
          PROVE  m.note \in Notes /\ (losses' > 0 \/ ~Exists(m.note)' \/ Urgent(m.note)')
      <4>1. losses > 0 \/ ~Exists(m.note) \/ Urgent(m.note)
        BY <3>1 DEF EscalatedOnce
      <4>2. m.note \in Notes
        BY <3>1 DEF EscalatedOnce
      <4>3. QED
        BY <4>1, <4>2, <2>5, NothingReturns
    <3>2. QED
      BY <2>1, <2>2, <3>1 DEF EscalatedOnce
  <2>7. QED
    BY <2>1, <2>3, <2>4, <2>6, StaysUnrepeated
<1>7. CASE Lost
  <2>1. /\ losses' > 0 /\ ~Running' /\ rows' = rows /\ messages' = messages
    BY <1>7 DEF Lost, Running, JobInv, StateOK
  <2>2. QED
    BY <2>1 DEF SentTrue, OnRecord, EscalatedOnce, RepeatNeedsLoss, Pending
<1>8. CASE Tick
  <2>1. /\ ~Running /\ ~Running'
        /\ UNCHANGED <<notes, rows, messages, again, losses, refused>>
    BY <1>8 DEF Tick, Running
  <2>2. QED
    BY <2>1 DEF SentTrue, OnRecord, EscalatedOnce, RepeatNeedsLoss, Pending, Exists, InHand,
                Urgent
<1>9. ASSUME NEW n \in Notes, NEW r \in Note, Edited(n, r)
      PROVE  RecordInv'
  <2>1. /\ notes' = [notes EXCEPT ![n] = r] /\ (r.exists => notes[n].exists)
        /\ r.priority = notes[n].priority /\ notes \in [Notes -> Note]
        /\ rows' = rows \/ (rows' = {x \in rows : x.matter.note # n} /\ ~r.exists)
        /\ UNCHANGED <<today, job, messages, again, losses, refused>>
    BY <1>9 DEF Edited, Follows, JobInv, StateOK
  <2>2. Running' = Running /\ Pending' = Pending /\ \A m : About(m)' = About(m)
    BY <2>1 DEF Pending, Running, About, DaysLeft
  <2>3. SentTrue'
    BY <2>1, <2>2 DEF SentTrue
  <2>4. OnRecord'
    <3>1. ~r.exists => ~Exists(n)'
      BY <2>1, Numbers DEF Exists
    <3>2. \A x \in rows \cup Pending : x \in (rows \cup Pending)' \/ ~Exists(x.matter.note)'
      BY <2>1, <2>2, <3>1
    <3>3. \A m : InHand(m)' = InHand(m)
      BY <2>1, <2>2 DEF InHand
    <3>4. QED
      BY <2>1, <3>2, <3>3, StaysOnRecord
  <2>5. \A m \in Notes : notes'[m].priority = notes[m].priority
    BY <2>1
  <2>6. EscalatedOnce'
    <3>1. ASSUME NEW m \in messages, m.kind = "escalation"
          PROVE  m.note \in Notes /\ (losses' > 0 \/ ~Exists(m.note)' \/ Urgent(m.note)')
      <4>1. losses > 0 \/ ~Exists(m.note) \/ Urgent(m.note)
        BY <3>1 DEF EscalatedOnce
      <4>2. m.note \in Notes
        BY <3>1 DEF EscalatedOnce
      <4>3. QED
        BY <4>1, <4>2, <2>1, <2>2, <2>5, NothingReturns DEF Urgent
    <3>2. job.kind = "escalation" /\ Running => job.todo \subseteq Notes
      BY DEF JobInv, RunOK, Subject, Subjects
    <3>3. QED
      BY <2>1, <2>2, <2>5, <3>1, <3>2 DEF EscalatedOnce, Urgent
  <2>7. QED
    BY <2>1, <2>3, <2>4, <2>6, StaysUnrepeated
<1>10. CASE InsertRefused
  <2>1. /\ Running /\ job' \in Run /\ SameRun /\ job'.todo = job.todo
        /\ job'.stage = "next" /\ job'.fresh = job.fresh /\ job'.changed = job.changed
        /\ refused' = refused \cup {About(job.note)}
        /\ UNCHANGED <<notes, rows, messages, again, losses>>
    BY <1>10, InsertRefusedJob
  <2>2. Running' /\ Pending' = Pending
    BY <2>1, RunRuns DEF Pending, Running
  <2>3. SentTrue'
    BY <2>1, <2>2 DEF SentTrue
  <2>4. OnRecord'
    BY <2>1, <2>2, StaysOnRecord DEF InHand
  <2>5. \A n : Urgent(n)' = Urgent(n)
    BY <2>1, <2>2 DEF Urgent, SameRun
  <2>6. (Running /\ job.kind = "escalation" => \A n \in job.todo : ~Urgent(n))'
    BY <2>1, <2>5 DEF EscalatedOnce, SameRun
  <2>7. QED
    BY <2>1, <2>3, <2>4, <2>5, <2>6, StaysEscalated, StaysUnrepeated
<1>11. QED
  BY <1>1, <1>2, <1>4, <1>5, <1>6, <1>7, <1>8, <1>9, <1>10, NextCases, TellKeepsRecords,
     RecordKeepsRecords

LEMMA InitRecordInv == Init => RecordInv
<1>1. Init => ~Running
  BY DEF Init, Running
<1>2. QED
  BY <1>1 DEF Init, RecordInv, SentTrue, OnRecord, EscalatedOnce, RepeatNeedsLoss, Pending

LEMMA SpecRecordInv == Spec => []RecordInv
BY SpecJobInv, InitRecordInv, RecordInvStep, PTL DEF Spec

\* The look for an equal notification and the record of the attempt are enough:
\* no message about a note is delivered again, unless a transaction of a job was
\* lost, the row of this very message was refused by a locked database, or the
\* note was deleted, however users, jobs, presses and days interleave.
THEOREM NoRepeatWithoutLoss == Spec => []RepeatNeedsLoss
BY SpecRecordInv, PTL DEF RecordInv

\* The table of notifications tells the truth: what it says was sent was
\* delivered, and what was delivered is in it, but for the exceptions of
\* RecordsTrue.
THEOREM RecordsAreTrue == Spec => []RecordsTrue
<1>1. RecordInv => RecordsTrue
  BY DEF RecordInv, SentTrue, OnRecord, InHand, Pending, RecordsTrue
<1>2. QED
  BY <1>1, SpecRecordInv, PTL

(***************************************************************************)
(* The events of the reminders.                                            *)
(***************************************************************************)
LEMMA ReportedGrows ==
    ASSUME BusInv(Abouts), NEW p, NEW a, EmitEvent(p, a)
    PROVE  Reported' = Reported \cup {a}
<1> DEFINE row == [about |-> a, status |-> "pending"]
<1>1. events \in Seq(Event(Abouts)) /\ Len(events) \in Nat
  BY DEF BusInv, RowsOK
<1>2. events' = Append(events, row)
  BY DEF EmitEvent
<1>3. /\ DOMAIN events' = 1..(Len(events) + 1) /\ DOMAIN events = 1..Len(events)
      /\ \A e \in 1..Len(events) : events'[e] = events[e]
      /\ events'[Len(events) + 1] = row
  BY <1>1, <1>2
<1>4. DOMAIN events' = DOMAIN events \cup {Len(events) + 1}
  BY <1>1, <1>3
<1>5. row.about = a
  OBVIOUS
<1>6. QED
  BY <1>3, <1>4, <1>5 DEF Reported

LEMMA ReportedStays ==
    ASSUME BusInv(Abouts), NEW p,
           Dispatch(p) \/ EmitterDies(p) \/ UNCHANGED busVars
    PROVE  Reported' = Reported
<1>1. \A e \in DOMAIN events : events[e] \in Event(Abouts)
  BY DEF BusInv, RowsOK
<1>2. ASSUME NEW s, SetStatus(p, s)
      PROVE  DOMAIN events' = DOMAIN events
             /\ \A e \in DOMAIN events : events'[e].about = events[e].about
  BY <1>1, <1>2 DEF SetStatus, Event
<1>3. CASE events' = events
  BY <1>3 DEF Reported
<1>4. CASE \E s : SetStatus(p, s)
  BY <1>2, <1>4 DEF Reported
<1>5. QED
  BY <1>3, <1>4
     DEF Dispatch, PostAccepted, PostFails, RecordDelivered, RecordFails, SetFailed,
         FailureUnrecorded, EmitterDies, busVars

\* Only RecordAndReport reports reminders, and it reports the one it records.
LEMMA ReportedStep ==
    ASSUME JobInv, BusInv(Abouts), [Next]_vars
    PROVE  IF RecordAndReport
             THEN Reported' = Reported \cup {About(job.note)}
             ELSE \A a : a.kind \in ToReport => (a \in Reported' <=> a \in Reported)
<1>1. CASE RecordAndReport
  <2>1. EmitEvent("job", About(job.note))
    BY <1>1 DEF RecordAndReport
  <2>2. QED
    BY <1>1, <2>1, ReportedGrows
<1>2. CASE ReportReview
  <2>1. EmitEvent("job", About(Everyone)) /\ job.stage = "event" /\ Running
    BY <1>2 DEF ReportReview
  <2>2. About(Everyone).kind = "review"
    BY <2>1, AboutFields DEF JobInv, RunOK
  <2>3. ~RecordAndReport
    BY <2>1 DEF RecordAndReport
  <2>4. QED
    BY <2>1, <2>2, <2>3, ReportedGrows DEF ToReport
<1>3. ASSUME NEW n \in Notes, Complete(n)
      PROVE  \A a : a.kind \in ToReport => (a \in Reported' <=> a \in Reported)
  <2> DEFINE a == [kind |-> "completed", note |-> n, day |-> today, left |-> 0]
  <2>1. EmitEvent("user", a) /\ a.kind = "completed"
    BY <1>3 DEF Complete
  <2>2. QED
    BY <2>1, ReportedGrows DEF ToReport
<1>4. ASSUME NEW p \in Emitters, BusStep(p)
      PROVE  Reported' = Reported
  BY <1>4, ReportedStays DEF BusStep
<1>5. ASSUME JobDies
      PROVE  Reported' = Reported
  BY <1>5, ReportedStays DEF JobDies
<1>6. ASSUME NEW n \in Notes, \/ \E d \in Deadlines : Reschedule(n, d)
                              \/ \E d \in SnoozeDays : Snooze(n, d)
                              \/ KeepStale(n) \/ ArchiveStale(n) \/ Delete(n)
      PROVE  Reported' = Reported
  BY <1>6, ReportedStays DEF Reschedule, Snooze, KeepStale, ArchiveStale, PressStale, Delete
<1>7. ASSUME \/ \E k \in Kinds : Begin(k)
             \/ \E n \in Notes \cup {Everyone} :
                  Skip(n) \/ \E got, ok \in BOOLEAN : Tell(n, got, ok)
             \/ Record \/ InsertRefused \/ RecordRefused \/ RecordWeekly
             \/ \E n \in Notes : ArchiveCompleted(n) \/ UpdateRefused(n)
             \/ Finish \/ FinishRefused \/ Tick \/ CommitPress \/ PressDies \/ UNCHANGED vars
      PROVE  Reported' = Reported
  <2>1. UNCHANGED busVars
    BY <1>7 DEF Begin, Skip, Tell, Record, InsertRefused, UpdateRefused, RecordRefused, RecordWeekly, ArchiveCompleted,
                Finish, FinishRefused, Tick, CommitPress, PressDies, vars
  <2>2. QED
    BY <2>1, ReportedStays
<1>8. QED
  BY <1>1, <1>2, <1>3, <1>4, <1>5, <1>6, <1>7 DEF Next, JobStep, UserStep

Told(r) == r.sent /\ r.matter.kind \in ToReport

\* What it takes for the rows and the events to stay together.
LEMMA StayTogether ==
    ASSUME JobInv, BusInv(Abouts), ReportInv, [Next]_vars, ~RecordAndReport,
           backend' = backend,
           \A r \in rows : r \in rows' \/ ~Exists(r.matter.note)',
           backend = "pg" => \A r \in rows' : r \in rows \/ ~Told(r),
           backend = "pg" => \A r \in Pending' : r \in Pending \/ ~Told(r)
    PROVE  ReportInv'
<1>1. \A a : a.kind \in ToReport => (a \in Reported' <=> a \in Reported)
  BY ReportedStep
<1>2. ASSUME NEW a \in Reported', a.kind \in ToReport
      PROVE  [matter |-> a, sent |-> TRUE] \in rows' \/ ~Exists(a.note)'
  <2> DEFINE r == [matter |-> a, sent |-> TRUE]
  <2>1. r \in rows \/ ~Exists(a.note)
    BY <1>1, <1>2 DEF ReportInv, ReportedTogether, ToReport
  <2>2. r.matter = a
    OBVIOUS
  <2>3. QED
    BY <2>1, <2>2, NothingReturns
<1>3. ASSUME backend = "pg", NEW r \in rows', Told(r)
      PROVE  r.matter \in Reported'
  <2>1. r \in rows
    BY <1>3
  <2>2. r.matter \in Reported
    BY <1>3, <2>1 DEF ReportInv, ReportedTogether, ToReport, Told
  <2>3. QED
    BY <1>1, <1>3, <2>2 DEF Told
<1>4. backend = "pg" => \A r \in Pending' : ~Told(r)
  BY DEF ReportInv, Told
<1>5. QED
  BY <1>2, <1>3, <1>4 DEF ReportInv, ReportedTogether, ToReport, Told

LEMMA ReportKeepsTogether ==
    ASSUME JobInv, BusInv(Abouts), ReportInv, [Next]_vars, RecordAndReport
    PROVE  ReportInv'
<1>1. /\ Running /\ job.stage = "record" /\ Reports /\ backend' = backend
      /\ rows' = rows \cup job.fresh \cup {NewRow}
  BY DEF RecordAndReport, Recorded
<1>2. Pending = job.fresh /\ Pending' = {}
  <2>1. ~Record
    BY <1>1 DEF Record
  <2>2. job'.fresh = {}
    BY <2>1, RecordJob
  <2>3. QED
    BY <1>1, <2>2 DEF Pending
<1>3. NewRow.matter = About(job.note) /\ NewRow = [matter |-> About(job.note), sent |-> TRUE]
  <2>1. job.told = TRUE
    BY <1>1, RunFields DEF Reports
  <2>2. QED
    BY <2>1 DEF NewRow
<1>4. Reported' = Reported \cup {About(job.note)}
  BY ReportedStep
<1>5. ASSUME NEW a \in Reported', a.kind \in ToReport
      PROVE  [matter |-> a, sent |-> TRUE] \in rows' \/ ~Exists(a.note)'
  <2>1. CASE a \in Reported
    BY <1>1, <1>5, <2>1, NothingReturns DEF ReportInv, ReportedTogether, ToReport
  <2>2. CASE a = About(job.note)
    BY <1>1, <1>3, <2>2
  <2>3. QED
    BY <1>4, <1>5, <2>1, <2>2
<1>6. ASSUME backend = "pg", NEW r \in rows', Told(r)
      PROVE  r.matter \in Reported'
  <2>1. r \in rows \/ r = NewRow
    BY <1>1, <1>2, <1>6 DEF ReportInv, Told
  <2>2. QED
    BY <1>3, <1>4, <1>6, <2>1 DEF ReportInv, ReportedTogether, ToReport, Told
<1>7. QED
  BY <1>1, <1>2, <1>5, <1>6 DEF ReportInv, ReportedTogether, ToReport, Told

LEMMA ReportInvStep ==
    ASSUME JobInv, BusInv(Abouts), ReportInv, [Next]_vars
    PROVE  ReportInv'
<1>1. CASE RecordAndReport
  BY <1>1, ReportKeepsTogether
<1> SUFFICES ASSUME ~RecordAndReport
             PROVE  ReportInv'
  BY <1>1
<1>2. CASE Still \/ Tick \/ Lost
  <2>1. rows' = rows /\ backend' = backend /\ (job' = job \/ ~Running')
    BY <1>2 DEF Still, Tick, Lost, Running
  <2>2. Pending' \subseteq Pending
    BY <2>1 DEF Pending, Running
  <2>3. QED
    BY <2>1, <2>2, StayTogether
<1>3. ASSUME NEW k \in Kinds, Begin(k)
      PROVE  ReportInv'
  BY <1>3, BeginJob, StayTogether DEF Pending
<1>4. ASSUME NEW n \in Notes \cup {Everyone}, Skip(n)
      PROVE  ReportInv'
  BY <1>4, SkipJob, StayTogether DEF Skip, Pending
<1>5. ASSUME NEW n \in Notes \cup {Everyone}, NEW got \in BOOLEAN, NEW ok \in BOOLEAN,
             Tell(n, got, ok)
      PROVE  ReportInv'
  <2>1. rows' = rows /\ backend' = backend
    BY <1>5 DEF Tell
  <2>2. QED
    BY <1>5, <2>1, TellJob, StayTogether DEF Pending
<1>6. ASSUME NEW n \in Notes, ArchiveCompleted(n) \/ UpdateRefused(n)
      PROVE  ReportInv'
  <2>1. rows' = rows /\ backend' = backend /\ Running /\ job'.fresh = job.fresh
    BY <1>6, ArchiveJob, UpdateRefusedJob DEF ArchiveCompleted
  <2>2. QED
    BY <2>1, StayTogether DEF Pending
<1>13. CASE InsertRefused
  BY <1>13, InsertRefusedJob, StayTogether DEF Pending
<1>7. CASE Record
  <2>1. /\ Running /\ job.stage = "record" /\ rows' = rows /\ backend' = backend /\ ~Reports
    BY <1>7 DEF Record
  <2>2. Pending = job.fresh /\ Pending' \subseteq job.fresh \cup {NewRow}
    BY <1>7, <2>1, RecordJob DEF Pending, Recorded
  <2>3. backend = "pg" => ~Told(NewRow)
    BY <2>1, NewRowOK, AboutFields DEF Reports, Told, ToReport
  <2>4. QED
    BY <2>1, <2>2, <2>3, StayTogether
<1>8. CASE RecordWeekly
  <2>1. /\ Running /\ job.stage = "record" /\ rows' = rows \cup {NewRow} /\ backend' = backend
        /\ job.kind \in {"digest", "review"}
    BY <1>8 DEF RecordWeekly
  <2>2. Pending' \subseteq Pending
    <3>1. ~Record
      BY <2>1 DEF Record
    <3>2. QED
      BY <1>8, <2>1, <3>1, RecordJob DEF Pending
  <2>3. ~Told(NewRow)
    BY <2>1, NewRowOK, AboutFields DEF Told, ToReport
  <2>4. QED
    BY <2>1, <2>2, <2>3, StayTogether
<1>9. CASE ReportReview
  <2>1. job.stage = "event" /\ rows' = rows /\ backend' = backend
    BY <1>9 DEF ReportReview
  <2>2. ~Record
    BY <2>1 DEF Record
  <2>3. QED
    BY <1>9, <2>1, <2>2, RecordJob, StayTogether DEF Pending
<1>10. CASE Finish
  <2>1. Running /\ rows' = rows \cup job.fresh /\ job' = Nothing /\ backend' = backend
    BY <1>10 DEF Finish, AtEnd
  <2>2. Pending = job.fresh /\ Pending' = {}
    BY <2>1 DEF Pending, Running
  <2>3. backend = "pg" => \A r \in rows' : r \in rows \/ ~Told(r)
    BY <2>1, <2>2 DEF ReportInv, Told
  <2>4. QED
    BY <2>1, <2>2, <2>3, StayTogether
<1>11. ASSUME NEW n \in Notes, NEW r \in Note, Edited(n, r)
       PROVE  ReportInv'
  <2>1. /\ notes' = [notes EXCEPT ![n] = r] /\ notes \in [Notes -> Note]
        /\ rows' = rows \/ (rows' = {x \in rows : x.matter.note # n} /\ ~r.exists)
        /\ UNCHANGED <<backend, job>>
    BY <1>11 DEF Edited, JobInv, StateOK
  <2>2. ~r.exists => ~Exists(n)'
    BY <2>1, Numbers DEF Exists
  <2>3. Pending' = Pending
    BY <2>1 DEF Pending, Running
  <2>4. \A x \in rows : x \in rows' \/ ~Exists(x.matter.note)'
    BY <2>1, <2>2
  <2>5. QED
    BY <2>1, <2>3, <2>4, StayTogether
<1>14. QED
  BY <1>13, <1>2, <1>3, <1>4, <1>5, <1>6, <1>7, <1>8, <1>9, <1>10, <1>11, NextCases

LEMMA InitReportInv == Init => ReportInv
<1>1. Init => ~Running /\ rows = {} /\ DOMAIN events = {}
  BY DEF Init, BusInit, Running
<1>2. QED
  BY <1>1 DEF ReportInv, ReportedTogether, Reported, Pending

\* A reminder has its event if and only if its row says it was sent: the commit
\* in emit_event makes them one, although the job does not ask for it.
THEOREM RemindersReportedTogether == Spec => []ReportedTogether
<1>1. ReportInv => ReportedTogether
  BY DEF ReportInv
<1>2. Init => BusInv(Abouts)
  BY BusInitInv DEF Init
<1>3. JobInv /\ BusInv(Abouts) /\ [Next]_vars => BusInv(Abouts)'
  BY StepOfBus, BusStepInv, BusStutter
<1>4. QED
  BY <1>1, <1>2, <1>3, SpecJobInv, InitReportInv, ReportInvStep, PTL DEF Spec

(***************************************************************************)
(* The days a kept note is left alone.                                     *)
(***************************************************************************)
LEMMA DayNumbers ==
    ASSUME JobInv
    PROVE  /\ today \in Nat /\ Lag \in Nat /\ StaleDays \in Nat
           /\ \A n \in Notes : kept[n] \in Int /\ notes[n].updated \in Int
<1>1. today \in Days /\ kept \in [Notes -> Days \cup {-1}] /\ notes \in [Notes -> Note]
  BY DEF JobInv, StateOK
<1>2. \A n \in Notes : kept[n] \in Days \/ kept[n] = -1
  BY <1>1
<1>3. \A n \in Notes : notes[n].updated \in Int
  BY <1>1 DEF Note
<1>4. \A x \in Days : x \in Nat
  BY Numbers
<1>5. \A n \in Notes : kept[n] \in Int
  BY <1>2, <1>4
<1>6. QED
  BY <1>1, <1>3, <1>4, <1>5, Numbers

\* A step that starts no run and commits no button.
LEMMA StaysKept ==
    ASSUME JobInv, KeptInv, kept' = kept,
           today' = today \/ (~Running' /\ today' = today + 1),
           \A n \in Notes : notes'[n].updated \in {today, notes[n].updated},
           Running' => SameRun /\ job'.todo \subseteq job.todo /\ Running
    PROVE  KeptInv'
<1>1. ASSUME NEW n \in Notes
      PROVE  kept[n] <= today' /\ kept[n] <= notes'[n].updated + Lag
  <2>1. notes'[n].updated = today \/ notes'[n].updated = notes[n].updated
    OBVIOUS
  <2>2. kept[n] <= today /\ kept[n] <= notes[n].updated + Lag
    BY DEF KeptInv
  <2>3. QED
    BY <2>1, <2>2, DayNumbers
<1>2. Running' /\ job'.kind = "stale" =>
        \A n \in job'.todo : today' - job'.seen[n].updated >= StaleDays
  BY DEF KeptInv, SameRun
<1>3. QED
  BY <1>1, <1>2 DEF KeptInv

LEMMA EditKeepsQuiet ==
    ASSUME JobInv, KeptInv, NEW n \in Notes, NEW r \in Note, Edited(n, r)
    PROVE  KeptInv'
<1>1. /\ notes' = [notes EXCEPT ![n] = r]
      /\ today <= r.updated + Lag \/ r.updated = notes[n].updated
      /\ kept' = kept \/ (kept' = [kept EXCEPT ![n] = today] /\ today <= r.updated + Lag)
      /\ UNCHANGED <<today, job>> /\ r.updated \in Int
      /\ notes \in [Notes -> Note] /\ kept \in [Notes -> Days \cup {-1}]
  BY DEF Edited, Follows, JobInv, StateOK, Note
<1>2. ASSUME NEW x \in Notes
      PROVE  kept'[x] <= today /\ kept'[x] <= notes'[x].updated + Lag
  <2>1. kept[x] <= today /\ kept[x] <= notes[x].updated + Lag
    BY DEF KeptInv
  <2>2. CASE x # n
    <3>1. notes'[x] = notes[x] /\ kept'[x] = kept[x]
      BY <1>1, <2>2
    <3>2. QED
      BY <2>1, <3>1
  <2>3. CASE x = n
    <3>1. notes'[n] = r /\ (kept'[n] = kept[n] \/ (kept'[n] = today /\ today <= r.updated + Lag))
      BY <1>1
    <3>2. QED
      BY <1>1, <2>1, <2>3, <3>1, DayNumbers
  <2>4. QED
    BY <2>2, <2>3
<1>3. QED
  BY <1>1, <1>2 DEF KeptInv, Running

LEMMA KeptInvStep ==
    ASSUME JobInv, KeptInv, [Next]_vars
    PROVE  KeptInv'
<1>1. CASE Still \/ Lost
  <2>1. /\ kept' = kept /\ today' = today /\ notes' = notes
        /\ Running' => SameRun /\ job' = job /\ Running
    BY <1>1 DEF Still, Lost, Running, SameRun
  <2>2. QED
    BY <2>1, StaysKept
<1>2. ASSUME NEW k \in Kinds, Begin(k)
      PROVE  KeptInv'
  <2>1. /\ job'.kind = k /\ job'.todo = Chosen(k) /\ job'.seen = notes
        /\ UNCHANGED <<today, notes, kept>>
    BY <1>2, BeginJob
  <2>2. \A n \in StaleNotes : today - notes[n].updated >= StaleDays
    BY DEF StaleNotes, NotFor
  <2>3. k = "stale" => Chosen(k) = StaleNotes
    BY DEF Chosen
  <2>4. QED
    BY <2>1, <2>2, <2>3 DEF KeptInv
<1>3. ASSUME NEW n \in Notes \cup {Everyone}, Skip(n)
      PROVE  KeptInv'
  <2>1. kept' = kept /\ today' = today /\ notes' = notes
    BY <1>3 DEF Skip
  <2>2. QED
    BY <1>3, <2>1, SkipJob, StaysKept
<1>4. ASSUME NEW n \in Notes \cup {Everyone}, NEW got \in BOOLEAN, NEW ok \in BOOLEAN,
             Tell(n, got, ok)
      PROVE  KeptInv'
  <2>1. kept' = kept /\ today' = today /\ notes' = notes
    BY <1>4 DEF Tell
  <2>2. Running /\ SameRun /\ job'.todo \subseteq job.todo
    BY <1>4, TellJob
  <2>3. QED
    BY <2>1, <2>2, StaysKept
<1>5. CASE Record \/ RecordAndReport \/ RecordWeekly \/ ReportReview
  <2>1. kept' = kept /\ today' = today /\ notes' = notes
    BY <1>5 DEF Record, RecordAndReport, RecordWeekly, ReportReview
  <2>2. QED
    BY <1>5, <2>1, RecordJob, StaysKept
<1>6. ASSUME NEW n \in Notes, ArchiveCompleted(n) \/ UpdateRefused(n)
      PROVE  KeptInv'
  <2>1. kept' = kept /\ today' = today /\ notes' = notes
    BY <1>6, UpdateRefusedJob DEF ArchiveCompleted
  <2>2. Running /\ SameRun /\ job'.todo \subseteq job.todo
    BY <1>6, ArchiveJob, UpdateRefusedJob
  <2>3. QED
    BY <2>1, <2>2, StaysKept
<1>7. CASE InsertRefused
  BY <1>7, InsertRefusedJob, StaysKept
<1>8. CASE Finish
  <2>1. /\ kept' = kept /\ today' = today /\ notes' = Applied
        /\ ~Running' /\ notes \in [Notes -> Note]
    BY <1>8 DEF Finish, Running, JobInv, StateOK
  <2>2. \A n \in Notes : notes'[n].updated \in {today, notes[n].updated}
    BY <2>1 DEF Applied, Escalated, ArchivedAt, Note
  <2>3. QED
    BY <2>1, <2>2, StaysKept
<1>9. CASE Tick
  <2>1. kept' = kept /\ today' = today + 1 /\ notes' = notes /\ ~Running'
    BY <1>9 DEF Tick, Running
  <2>2. QED
    BY <2>1, StaysKept
<1>10. QED
  BY <1>1, <1>2, <1>3, <1>4, <1>5, <1>6, <1>7, <1>8, <1>9, NextCases, EditKeepsQuiet

LEMMA InitKeptInv == Init => KeptInv
<1>1. Init => /\ ~Running /\ today = 0
              /\ \A n \in Notes : kept[n] = -1 /\ notes[n].updated = 0
  BY DEF Init, Running
<1>2. QED
  BY <1>1, Numbers DEF KeptInv

\* A reminder within the days is about a note that changed under the run.
LEMMA QuietUnlessOvertaken ==
    ASSUME JobInv, KeptInv, [Next]_vars, NEW n \in Notes, TurnsTo(n),
           job.kind = "stale", job.seen[n] = notes[n]
    PROVE  today >= kept[n] + StaleDays - Lag
<1>1. Running /\ job.stage = "next" /\ Running' /\ job'.stage = "record" /\ job'.note = n
  BY DEF TurnsTo, Running
<1>2. PICK x \in Notes \cup {Everyone}, got \in BOOLEAN, ok \in BOOLEAN : Tell(x, got, ok)
  <2>1. ~Still /\ ~Lost /\ ~Finish /\ ~Tick
    BY <1>1 DEF Still, Lost, Finish, Tick, Running
  <2>2. \A m \in Notes, r \in Note : ~Edited(m, r)
    BY <1>1 DEF Edited
  <2>3. \A m \in Notes : ~ArchiveCompleted(m) /\ ~UpdateRefused(m)
    BY <1>1, ArchiveJob, UpdateRefusedJob
  <2>4. \A k \in Kinds : ~Begin(k)
    BY <1>1 DEF Begin
  <2>5. \A m \in Notes \cup {Everyone} : ~Skip(m)
    BY <1>1, SkipJob
  <2>6. ~Record /\ ~InsertRefused /\ ~RecordAndReport /\ ~RecordWeekly /\ ~ReportReview
    BY <1>1 DEF Record, InsertRefused, RecordAndReport, RecordWeekly, ReportReview
  <2>7. QED
    BY <2>1, <2>2, <2>3, <2>4, <2>5, <2>6, NextCases
<1>3. x = n /\ n \in job.todo
  BY <1>1, <1>2, TellJob DEF Tell
<1>4. today - notes[n].updated >= StaleDays
  BY <1>1, <1>3 DEF KeptInv
<1>5. kept[n] <= notes[n].updated + Lag
  BY DEF KeptInv
<1>6. QED
  BY <1>4, <1>5, DayNumbers

\* After "Keep" no stale reminder of the note is sent for StaleDays days, up to
\* the difference of the clocks: the one exception is a run that had read the
\* note before it changed, and nothing excludes that run.
THEOREM QuietDaysAfterKeep == Spec => QuietAfterKeep
<1>1. JobInv /\ KeptInv /\ [Next]_vars =>
        [ \A n \in Notes :
            TurnsTo(n) /\ job.kind = "stale" /\ kept[n] >= 0
              => today >= kept[n] + StaleDays - Lag \/ job.seen[n] # notes[n] ]_vars
  BY QuietUnlessOvertaken
<1>2. QED
  BY <1>1, SpecJobInv, InitKeptInv, KeptInvStep, PTL DEF Spec, QuietAfterKeep

(***************************************************************************)
(* The notes a run was for.                                                *)
(***************************************************************************)

\* What it takes for a run to leave no note out.
LEMMA StaysTried ==
    ASSUME JobInv, AttemptInv, Running, SameRun, backend' = backend,
           refused \subseteq refused',
           \A n \in Notes : notes'[n].exists => notes[n].exists,
           \A n \in Notes : n \in job.todo => Tried(n)',
           \A n \in Notes : job.stage = "record" /\ job.note = n => Tried(n)',
           \A r \in rows \cup job.fresh :
             r \in rows' \cup job'.fresh \/ ~Exists(r.matter.note)'
    PROVE  AttemptInv'
<1>1. SUFFICES ASSUME job.kind \in ToReport, NEW n \in Notes, notes'[n].exists, Wanted(n)
               PROVE  Tried(n)'
  BY DEF AttemptInv, SameRun, Wanted, DaysLeft, Running
<1>2. CASE n \in job.todo \/ (job.stage = "record" /\ job.note = n)
  BY <1>2
<1>3. CASE \E r \in rows \cup job.fresh : SameNotice(r.matter, About(n))
  <2>1. PICK r \in rows \cup job.fresh : SameNotice(r.matter, About(n))
    BY <1>3
  <2>2. r.matter.note = n
    BY <2>1, AboutFields DEF SameNotice, SameNoticePg, SameNoticeSqlite
  <2>3. Exists(n)'
    BY <1>1 DEF Exists
  <2>4. r \in rows' \cup job'.fresh
    BY <2>2, <2>3
  <2>5. SameNotice(r.matter, About(n))'
    BY <2>1 DEF SameNotice, SameNoticePg, SameNoticeSqlite, About, SameRun, DaysLeft
  <2>6. QED
    BY <2>4, <2>5 DEF Tried
<1>4. CASE About(n) \in refused
  BY <1>4, AboutSame DEF Tried
<1>5. QED
  BY <1>1, <1>2, <1>3, <1>4 DEF AttemptInv, Tried

LEMMA TriedNow ==
    ASSUME JobInv, SameRun, backend' = backend, NEW n,
           \/ About(n) \in refused'
           \/ \E r \in rows' \cup job'.fresh : SameNotice(r.matter, About(n))
    PROVE  Tried(n)'
BY DEF Tried, SameNotice, SameNoticePg, SameNoticeSqlite, About, SameRun, DaysLeft

LEMMA AttemptInvStep ==
    ASSUME JobInv, AttemptInv, [Next]_vars
    PROVE  AttemptInv'
<1>1. CASE Still
  BY <1>1 DEF Still, AttemptInv, Running, Wanted, Tried, SameNotice, SameNoticePg,
              SameNoticeSqlite, About, DaysLeft
<1>2. CASE Finish \/ Lost \/ Tick
  BY <1>2 DEF Finish, Lost, Tick, AttemptInv, Running
<1>3. ASSUME NEW k \in Kinds, Begin(k)
      PROVE  AttemptInv'
  <2>1. /\ job'.kind = k /\ job'.todo = Chosen(k) /\ job'.seen = notes
        /\ UNCHANGED <<today, notes>>
    BY <1>3, BeginJob
  <2>2. ASSUME NEW n \in Notes, k \in ToReport, Wanted(n)'
        PROVE  n \in Chosen(k)
    <3>1. /\ Active(n)
          /\ IF k = "deadline" THEN DaysLeft(n, notes) \in ReminderDays
             ELSE today - notes[n].updated >= StaleDays
      BY <2>1, <2>2 DEF Wanted, DaysLeft, Active
    <3>2. QED
      BY <2>2, <3>1 DEF Chosen, DueNotes, StaleNotes, NotFor, ToReport
  <2>3. QED
    BY <2>1, <2>2 DEF AttemptInv, Tried
<1>4. ASSUME NEW n \in Notes \cup {Everyone}, Skip(n)
      PROVE  AttemptInv'
  <2>1. /\ Running /\ SameRun /\ job'.todo = job.todo \ {n} /\ job.stage = "next"
        /\ job'.fresh = job.fresh
        /\ UNCHANGED <<backend, notes, rows, refused>> /\ Duplicate(n)
    BY <1>4, SkipJob DEF Skip
  <2>2. Tried(n)'
    BY <2>1, TriedNow DEF Duplicate
  <2>3. \A x \in Notes : x \in job.todo => Tried(x)'
    BY <2>1, <2>2 DEF Tried
  <2>4. QED
    BY <2>1, <2>3, StaysTried
<1>5. ASSUME NEW n \in Notes \cup {Everyone}, NEW got \in BOOLEAN, NEW ok \in BOOLEAN,
             Tell(n, got, ok)
      PROVE  AttemptInv'
  <2>1. /\ Running /\ SameRun /\ job'.todo = job.todo \ {n} /\ job.stage = "next"
        /\ job'.stage = "record" /\ job'.note = n /\ job'.fresh = job.fresh
    BY <1>5, TellJob
  <2>2. UNCHANGED <<backend, notes, rows, refused>>
    BY <1>5 DEF Tell
  <2>3. \A x \in Notes : x \in job.todo => Tried(x)'
    BY <2>1 DEF Tried
  <2>4. QED
    BY <2>1, <2>2, <2>3, StaysTried
<1>6. CASE Record \/ RecordAndReport
  <2>1. /\ Running /\ SameRun /\ job'.todo = job.todo /\ job.stage = "record"
        /\ UNCHANGED <<backend, notes, refused>>
    BY <1>6, RecordJob DEF Record, RecordAndReport
  <2>2. rows' \cup job'.fresh = rows \cup job.fresh \cup {NewRow}
    <3>1. CASE Record
      BY <3>1, RecordJob DEF Record, Recorded
    <3>2. CASE RecordAndReport
      <4>1. rows' = rows \cup Recorded /\ ~Record
        BY <3>2 DEF RecordAndReport, Record
      <4>2. QED
        BY <3>2, <4>1, RecordJob DEF Recorded
    <3>3. QED
      BY <1>6, <3>1, <3>2
  <2>3. SameNotice(NewRow.matter, About(job.note))
    BY <2>1, NewRowOK, SameIsSame
  <2>4. \A n \in Notes : job.note = n => Tried(n)'
    BY <2>1, <2>2, <2>3, TriedNow
  <2>5. \A n \in Notes : n \in job.todo => Tried(n)'
    BY <2>1 DEF Tried
  <2>6. QED
    BY <2>1, <2>2, <2>4, <2>5, StaysTried
<1>7. CASE RecordWeekly \/ ReportReview
  <2>1. job.kind \in {"digest", "review"}
    BY <1>7 DEF RecordWeekly, ReportReview, JobInv, RunOK
  <2>2. job'.kind = job.kind
    BY <1>7, RecordJob DEF SameRun
  <2>3. QED
    BY <2>1, <2>2 DEF AttemptInv, ToReport
<1>8. ASSUME NEW n \in Notes, ArchiveCompleted(n)
      PROVE  AttemptInv'
  BY <1>8, ArchiveJob DEF AttemptInv, ToReport, SameRun
<1>11. ASSUME NEW n \in Notes, UpdateRefused(n)
       PROVE  AttemptInv'
  BY <1>11, UpdateRefusedJob DEF AttemptInv, ToReport, SameRun
<1>12. CASE InsertRefused
  <2>1. /\ Running /\ SameRun /\ job'.todo = job.todo /\ job.stage = "record"
        /\ job'.fresh = job.fresh /\ refused' = refused \cup {About(job.note)}
        /\ UNCHANGED <<backend, notes, rows>>
    BY <1>12, InsertRefusedJob
  <2>2. \A n \in Notes : job.note = n => Tried(n)'
    BY <2>1, TriedNow
  <2>3. \A n \in Notes : n \in job.todo => Tried(n)'
    BY <2>1 DEF Tried
  <2>4. QED
    BY <2>1, <2>2, <2>3, StaysTried
<1>9. ASSUME NEW n \in Notes, NEW r \in Note, Edited(n, r)
      PROVE  AttemptInv'
  <2>1. /\ notes' = [notes EXCEPT ![n] = r] /\ (r.exists => notes[n].exists)
        /\ notes \in [Notes -> Note] /\ refused' = refused
        /\ rows' = rows \/ (rows' = {x \in rows : x.matter.note # n} /\ ~r.exists)
        /\ UNCHANGED <<backend, today, job>>
    BY <1>9 DEF Edited, Follows, JobInv, StateOK
  <2>2. CASE ~Running
    BY <2>1, <2>2 DEF AttemptInv, Running
  <2>3. CASE Running
    <3>1. ~r.exists => ~Exists(n)'
      BY <2>1, Numbers DEF Exists
    <3>2. \A x \in Notes : notes'[x].exists => notes[x].exists
      BY <2>1
    <3>3. \A x \in rows \cup job.fresh :
            x \in rows' \cup job'.fresh \/ ~Exists(x.matter.note)'
      BY <2>1, <3>1
    <3>4. \A x \in Notes :
            x \in job.todo \/ (job.stage = "record" /\ job.note = x) => Tried(x)'
      BY <2>1 DEF Tried
    <3>5. QED
      BY <2>1, <2>3, <3>2, <3>3, <3>4, StaysTried DEF SameRun
  <2>4. QED
    BY <2>2, <2>3
<1>10. QED
  BY <1>1, <1>2, <1>3, <1>4, <1>5, <1>6, <1>7, <1>8, <1>9, <1>11, <1>12, NextCases

LEMMA InitAttemptInv == Init => AttemptInv
BY DEF Init, Running, AttemptInv

\* The end of a run, as EveryoneAttempted asks for it.
LEMMA EndsWithAttempts ==
    ASSUME JobInv, AttemptInv, [Next]_vars, Running, job.kind \in ToReport,
           job' = Nothing, losses' = losses, NEW n \in Notes, notes[n].exists, Wanted(n)
    PROVE  \/ About(n) \in refused
           \/ \E r \in rows' : /\ r.matter.kind = job.kind /\ r.matter.note = n
                               /\ r.matter.left = About(n).left
                               /\ backend = "sqlite" \/ job.kind = "stale" => r.matter.day = today
<1>1. Finish
  <2>1. losses + 1 # losses
    BY DEF JobInv, StateOK
  <2>2. ~Lost /\ ~Still /\ ~Tick
    BY <2>1 DEF Lost, Still, Tick, Running
  <2>3. \A x \in Notes, r \in Note : ~Edited(x, r)
    BY DEF Edited, Running
  <2>4. job' \notin Run
    BY RunRuns
  <2>5. QED
    BY <2>2, <2>3, <2>4, NextCases, BeginJob, SkipJob, TellJob, RecordJob, ArchiveJob,
       InsertRefusedJob, UpdateRefusedJob
<1>2. job.stage = "next" /\ job.todo = {} /\ rows' = rows \cup job.fresh
  BY <1>1 DEF Finish, AtEnd
<1>6. SUFFICES ASSUME About(n) \notin refused
               PROVE  \E r \in rows' : /\ r.matter.kind = job.kind /\ r.matter.note = n
                                       /\ r.matter.left = About(n).left
                                       /\ backend = "sqlite" \/ job.kind = "stale"
                                            => r.matter.day = today
  OBVIOUS
<1>3. PICK r \in rows' : SameNotice(r.matter, About(n))
  BY <1>2, <1>6 DEF AttemptInv, Tried
<1>4. backend \in {"pg", "sqlite"}
  BY DEF JobInv, StateOK
<1>5. QED
  BY <1>3, <1>4, AboutFields DEF SameNotice, SameNoticePg, SameNoticeSqlite

\* A run of reminders that comes to its commit leaves no note it was for without
\* an attempt on record, but for the ones whose row a locked database refused.
THEOREM EveryoneIsAttempted == Spec => EveryoneAttempted
<1>1. JobInv /\ AttemptInv /\ [Next]_vars =>
        [ Running /\ job.kind \in {"deadline", "stale"} /\ job' = Nothing /\ losses' = losses =>
            \A n \in Notes :
              /\ notes[n].exists
              /\ job.seen[n].exists /\ job.seen[n].status = "active"
              /\ IF job.kind = "deadline" THEN DaysLeft(n, job.seen) \in ReminderDays
                 ELSE today - job.seen[n].updated >= StaleDays
              => \/ About(n) \in refused
                 \/ \E r \in rows' : /\ r.matter.kind = job.kind /\ r.matter.note = n
                                     /\ r.matter.left = About(n).left
                                     /\ backend = "sqlite" \/ job.kind = "stale"
                                          => r.matter.day = today
        ]_vars
  BY EndsWithAttempts DEF Wanted, ToReport
<1>2. QED
  BY <1>1, SpecJobInv, InitAttemptInv, AttemptInvStep, PTL DEF Spec, EveryoneAttempted

=============================================================================
