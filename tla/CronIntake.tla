----------------------------- MODULE CronIntake -----------------------------
(***************************************************************************)
(* POST /api/notes/cron: a note that a cron job delivers is kept once.     *)
(* The request looks for a note with the same source, title and content    *)
(* whose creation is at most Window old, asks the model, and inserts the   *)
(* note with its row of history.  Users edit and delete notes meanwhile,   *)
(* and the bot makes notes with the same text, which it never looks up.    *)
(***************************************************************************)
EXTENDS Naturals, Sequences, FiniteSets

CONSTANTS
    Posts,      \* requests that may be under way at once
    Texts,      \* title and content
    Window,     \* '-1 day'
    MaxTime,    \* bound: time
    MaxRows,    \* bound: notes
    MaxPosts    \* bound: requests

ASSUME IntakeAssumption == {Window, MaxTime, MaxRows, MaxPosts} \subseteq Nat

VARIABLES
    rows,       \* the notes in the order of their ids
    clock,
    post,       \* post[p]: the request p
    told,       \* the classify tasks published
    met,        \* met[x]: the most requests for x that were at work at once
    posted

intakeVars == <<rows, clock, post, told, met, posted>>

NoPost == [stage |-> "none"]
Row(x, from) == [text |-> x, from |-> from, made |-> clock, kept |-> TRUE]

IntakeInit ==
    /\ rows = <<>> /\ clock = 0 /\ posted = 0
    /\ post = [p \in Posts |-> NoPost] /\ told = {}
    /\ met = [x \in Texts |-> 0]

At(p, stage) == post[p].stage = stage

\* Slip: a note as old as the window is no longer seen.
ExistingStrictly(x) ==
    {i \in DOMAIN rows : /\ rows[i].kept /\ rows[i].from = "cron" /\ rows[i].text = x
                         /\ rows[i].made + Window > clock + 1}

\* kept says that the note is there and has its first text; the row of history
\* goes with the note.
Existing(x) ==
    {i \in DOMAIN rows : /\ rows[i].kept /\ rows[i].from = "cron" /\ rows[i].text = x
                         /\ rows[i].made + Window >= clock}

\* The answer is the note that is there, or the model is asked.
Lookup(p, x) ==
    /\ At(p, "none") /\ posted < MaxPosts
    /\ posted' = posted + 1
    /\ IF Existing(x) # {} THEN UNCHANGED <<post, met>>
       ELSE LET n == 1 + Cardinality({q \in Posts : ~At(q, "none") /\ post[q].text = x})
            IN /\ post' = [post EXCEPT ![p] = [stage |-> "classify", text |-> x]]
               /\ met' = [met EXCEPT ![x] = IF n > @ THEN n ELSE @]
    /\ UNCHANGED <<rows, clock, told>>

\* classify_note answers in any case. Note and history are committed together.
InsertRow(p) ==
    /\ At(p, "classify") /\ Len(rows) < MaxRows
    /\ rows' = Append(rows, Row(post[p].text, "cron"))
    /\ post' = [post EXCEPT ![p] = [stage |-> "publish", text |-> @.text, id |-> Len(rows')]]
    /\ UNCHANGED <<clock, told, met, posted>>

\* Redis may be down: the answer is the same.
PublishRow(p) ==
    /\ At(p, "publish")
    /\ \/ told' = told \cup {post[p].id}
       \/ UNCHANGED told
    /\ post' = [post EXCEPT ![p] = NoPost]
    /\ UNCHANGED <<rows, clock, met, posted>>

\* The process dies, or the write lock is not to be had in time.
PostDies(p) ==
    /\ ~At(p, "none")
    /\ post' = [post EXCEPT ![p] = NoPost]
    /\ UNCHANGED <<rows, clock, told, met, posted>>

\* The bot's "/note".
CreateNote(x) ==
    /\ Len(rows) < MaxRows
    /\ rows' = Append(rows, Row(x, "telegram"))
    /\ UNCHANGED <<clock, post, told, met, posted>>

\* A user rewrites or deletes a note.
Alter(i) ==
    /\ rows[i].kept
    /\ rows' = [rows EXCEPT ![i].kept = FALSE]
    /\ UNCHANGED <<clock, post, told, met, posted>>

TimePasses == clock < MaxTime /\ clock' = clock + 1 /\ UNCHANGED <<rows, post, told, met, posted>>

IntakeNext ==
    \/ \E p \in Posts :
         \/ \E x \in Texts : Lookup(p, x)
         \/ InsertRow(p) \/ PublishRow(p) \/ PostDies(p)
    \/ \E x \in Texts : CreateNote(x)
    \/ \E i \in DOMAIN rows : Alter(i)
    \/ TimePasses

(***************************************************************************)
(* Properties                                                              *)
(***************************************************************************)

\* Of the notes that the cron jobs delivered with one text within a window and
\* that nobody altered, there are at most as many as requests for that text were
\* at work at once: one, if the jobs wait for their answers.
CronOnce ==
    \A x \in Texts : \A i \in DOMAIN rows :
      Cardinality({j \in DOMAIN rows :
          /\ rows[j].kept /\ rows[j].from = "cron" /\ rows[j].text = x
          /\ rows[j].made <= rows[i].made /\ rows[i].made <= rows[j].made + Window})
        <= met[x]
=============================================================================
