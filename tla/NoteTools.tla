----------------------------- MODULE NoteTools -----------------------------
(***************************************************************************)
(* The tools that change a note and its links: those of the two MCP        *)
(* servers and the worker's link handler on PostgreSQL, the commands of    *)
(* the Telegram bot on SQLite.  A call looks whether the note exists,      *)
(* loads it, asks the model where it needs to, and commits its fields with *)
(* a row of history.  On PostgreSQL the session writes only the fields     *)
(* whose new value differs from the one it loaded.                         *)
(***************************************************************************)
EXTENDS Naturals, FiniteSets

CONSTANTS
    Callers,    \* clients of the tools, and workers
    MaxNotes,   \* bound: ids of notes
    Written,    \* the notes there are at first
    Today,      \* the day of the calls
    Interval,   \* the days between two instances of a recurring note
    Days,       \* the deadlines para_update sets
    Categories, \* the categories notes are moved to
    ToolsTogether, \* bound: the tools that meet in one behaviour
    MaxCalls    \* bound: calls

ASSUME ToolsAssumption ==
    /\ {MaxNotes, Today, Interval, MaxCalls} \subseteq Nat \ {0}
    /\ Written \in 1..MaxNotes
    /\ Days \subseteq Nat \ {0}

VARIABLES
    store,    \* "pg" or "sqlite"
    tools,    \* the tools in use, one of ToolsTogether
    note,     \* note[i]: the row with id i
    made,     \* the ids given so far: 1..made
    said,     \* said[i]: the category and the deadline that history named last
    call,     \* call[c]: the call that c is in
    crossed,  \* the notes that changed between the load and the commit of a call
    untold,   \* the notes whose deadline para_reclassify wrote after history named one
    auto,     \* auto[a, b]: links from a to b made by the worker
    hand,     \* hand[a, b]: those made by para_add_link
    peak,     \* the most link handlers that were at work at once
    asked     \* calls so far

toolVars == <<store, tools, note, made, said, call, crossed, untold, auto, hand, peak, asked>>

Ids == 1..MaxNotes
Pairs == Ids \X Ids

\* A deadline of 0 is none. put says that archived_at is set.
NoteRow == [exists : BOOLEAN, status : {"active", "completed", "archived"},
            category : Categories \cup {"inbox", "archives"}, put : BOOLEAN,
            due : Nat, repeats : BOOLEAN, from : 0..MaxNotes]

Unused == [exists |-> FALSE, status |-> "active", category |-> "inbox", put |-> FALSE,
           due |-> 0, repeats |-> FALSE, from |-> 0]
Unsaid == [category |-> "-", due |-> 0]
Free == [tool |-> "none"]
Idle(c) == call[c] = Free

ToolsInit ==
    /\ store \in {"pg", "sqlite"} /\ tools \in ToolsTogether
    /\ made = Written
    /\ note = [i \in Ids |-> IF i > Written THEN Unused
                             ELSE [Unused EXCEPT !.exists = TRUE, !.due = Today,
                                                 !.repeats = (i = 1)]]
    /\ said = [i \in Ids |-> Unsaid]
    /\ call = [c \in Callers |-> Free]
    /\ crossed = {} /\ untold = {} /\ peak = 0 /\ asked = 0
    /\ auto = [p \in Pairs |-> 0] /\ hand = [p \in Pairs |-> 0]

(***************************************************************************)
(* What the tools ask for                                                  *)
(***************************************************************************)

Moves(c) == [category |-> c]
Archives == [category |-> "archives", status |-> "archived", put |-> TRUE]
Completes == [status |-> "completed"]
Deletes == [put |-> TRUE]
Updates(d) == [due |-> d]

\* The model names a category and perhaps a deadline; if it names none, the
\* deadline is cleared. History names the category only.
Reclassifies(c, d) == [category |-> c, due |-> d]

\* The requests by tool; a set of fields with their new values.
PlaceRequests(t) ==
    CASE t = "para_move" -> {Moves(c) : c \in Categories}
      [] t = "para_archive" -> {Archives}
      [] OTHER -> {}

EditRequests(t) ==
    CASE t = "para_complete" -> {Completes}
      [] t = "para_delete" -> {Deletes}
      [] t = "para_update" -> {Updates(d) : d \in Days}
      [] t = "para_reclassify" -> {Reclassifies(c, d) : c \in Categories, d \in {0} \cup Days}
      [] OTHER -> {}

\* "/move" and "/done", which archives.
BotRequests(t) ==
    CASE t = "/move" -> {Moves(c) : c \in Categories}
      [] t = "/done" -> {Archives}
      [] OTHER -> {}

Requests(t) == IF store = "pg" THEN PlaceRequests(t) \cup EditRequests(t) ELSE BotRequests(t)

(***************************************************************************)
(* A call                                                                  *)
(***************************************************************************)

\* What the model makes of a new note; the date in its text counts if the model
\* names none.
Classified(cat, d) == [Unused EXCEPT !.exists = TRUE, !.category = cat, !.due = d]

\* para_add_note asks the model first. Note and history are one transaction; the
\* second row of history names the category.
AddNote(cat, d) ==
    /\ store = "pg" /\ "para_add_note" \in tools
    /\ asked < MaxCalls /\ made < MaxNotes
    /\ asked' = asked + 1 /\ made' = made + 1
    /\ note' = [note EXCEPT ![made'] = Classified(cat, d)]
    /\ said' = [said EXCEPT ![made'] = [category |-> cat, due |-> 0]]
    /\ UNCHANGED <<store, tools, call, crossed, untold, auto, hand, peak>>

\* _fetch_note: the tool answers with an error if there is no such note.
Ask(c, t, i, ch) ==
    /\ Idle(c) /\ asked < MaxCalls /\ t \in tools
    /\ note[i].exists
    /\ asked' = asked + 1
    /\ call' = [call EXCEPT ![c] = [tool |-> t, note |-> i, wants |-> ch, stage |-> "load"]]
    /\ UNCHANGED <<store, tools, note, made, said, crossed, untold, auto, hand, peak>>

\* The instance the session works on, read again. para_reclassify has asked the
\* model before, para_archive asks it afterwards, twice.
Load(c) ==
    /\ ~Idle(c) /\ call[c].stage = "load"
    /\ call' = [call EXCEPT ![c] =
                  IF note[@.note].exists
                    THEN [tool |-> @.tool, note |-> @.note, wants |-> @.wants,
                          stage |-> "commit", seen |-> note[@.note]]
                    ELSE Free]
    /\ UNCHANGED <<store, tools, note, made, said, crossed, untold, auto, hand, peak, asked>>

\* The fields that are written: the session leaves out those it takes for
\* unchanged, the statements on SQLite write what they are told.
Sent(k) == IF store = "sqlite" THEN DOMAIN k.wants
           ELSE {f \in DOMAIN k.wants : k.wants[f] # k.seen[f]}

Saved(k) == [f \in DOMAIN Unused |-> IF f \in Sent(k) THEN k.wants[f] ELSE note[k.note][f]]

\* Slip: history names the category the note had.
NamesOld(k) == [category |-> note[k.note].category, due |-> said[k.note].due]

\* The row of history names the new values, whether they were sent or not. That
\* of para_reclassify is silent about the deadline.
Named(k) == IF k.tool = "para_reclassify" THEN {"category"} ELSE DOMAIN k.wants

Names(k) ==
    [f \in DOMAIN Unsaid |-> IF f \in Named(k) THEN k.wants[f] ELSE said[k.note][f]]

Untold(k) ==
    IF "due" \in Named(k) THEN untold \ {k.note}
    ELSE IF "due" \in DOMAIN k.wants THEN untold \cup {k.note} ELSE untold

\* Slip: from today.
NextDueFromToday(d) == Today + Interval

\* compute_next_deadline, from today if the note has no deadline.
NextDue(d) == (IF d = 0 THEN Today ELSE d) + Interval

\* Completing spawns the next instance of a recurring note, and so does "/done".
Spawns(k) == k.tool \in {"para_complete", "/done"} /\ k.seen.repeats

\* The next instance copies what the call had loaded.
Successor(k) ==
    [Unused EXCEPT !.exists = TRUE, !.category = k.seen.category,
                   !.due = NextDue(k.seen.due), !.repeats = TRUE, !.from = k.note]

\* The fields, the row of history and the next instance in one transaction.
Commit(c) ==
    LET k == call[c] IN
    /\ ~Idle(c) /\ k.stage = "commit"
    /\ note[k.note].exists /\ (Spawns(k) => made < MaxNotes)
    /\ made' = IF Spawns(k) THEN made + 1 ELSE made
    /\ note' = [i \in Ids |-> IF i = k.note THEN Saved(k)
                              ELSE IF Spawns(k) /\ i = made' THEN Successor(k) ELSE note[i]]
    /\ said' = [said EXCEPT ![k.note] = Names(k)]
    /\ crossed' = IF note[k.note] # k.seen THEN crossed \cup {k.note} ELSE crossed
    /\ untold' = Untold(k)
    /\ call' = [call EXCEPT ![c] = Free]
    /\ UNCHANGED <<store, tools, auto, hand, peak, asked>>

\* The note was deleted in between: the update finds no row, or the history no
\* note, and the call raises.
CommitFails(c) ==
    /\ ~Idle(c) /\ call[c].stage = "commit" /\ ~note[call[c].note].exists
    /\ call' = [call EXCEPT ![c] = Free]
    /\ UNCHANGED <<store, tools, note, made, said, crossed, untold, auto, hand, peak, asked>>

(***************************************************************************)
(* Links                                                                   *)
(***************************************************************************)

\* handle_link: the notes whose vectors are close.
FindSimilar(c, i, js) ==
    /\ store = "pg" /\ "link" \in tools
    /\ Idle(c) /\ asked < MaxCalls
    /\ note[i].exists /\ \A j \in js : j # i /\ note[j].exists
    /\ asked' = asked + 1
    /\ call' = [call EXCEPT ![c] = [tool |-> "link", note |-> i, stage |-> "check",
                                   todo |-> js, fresh |-> {}]]
    /\ LET n == 1 + Cardinality({d \in Callers : call[d].tool = "link"})
       IN peak' = IF n > peak THEN n ELSE peak
    /\ UNCHANGED <<store, tools, note, made, said, crossed, untold, auto, hand>>

\* Slip: one direction only.
LinkedOneWay(i, j) == auto[<<i, j>>] + hand[<<i, j>>] > 0

\* A link of either kind, in either direction.
Linked(i, j) == auto[<<i, j>>] + hand[<<i, j>>] + auto[<<j, i>>] + hand[<<j, i>>] > 0

CheckLink(c, j) ==
    /\ call[c].tool = "link" /\ j \in call[c].todo
    /\ call' = [call EXCEPT ![c].todo = @ \ {j},
                           ![c].fresh = IF Linked(call[c].note, j) THEN @ ELSE @ \cup {j}]
    /\ UNCHANGED <<store, tools, note, made, said, crossed, untold, auto, hand, peak, asked>>

\* One commit for all. If a note has gone the insert fails and so does the attempt.
FinishLinks(c) ==
    LET k == call[c] IN
    /\ k.tool = "link" /\ k.todo = {}
    /\ auto' = IF \A i \in k.fresh \cup {k.note} : note[i].exists
                 THEN [p \in Pairs |-> IF p[1] = k.note /\ p[2] \in k.fresh
                                         THEN auto[p] + 1 ELSE auto[p]]
                 ELSE auto
    /\ call' = [call EXCEPT ![c] = Free]
    /\ UNCHANGED <<store, tools, note, made, said, crossed, untold, hand, peak, asked>>

\* para_add_link does not look for a link that is there.
AddLink(i, j) ==
    /\ store = "pg" /\ "para_add_link" \in tools
    /\ asked < MaxCalls
    /\ i # j /\ note[i].exists /\ note[j].exists
    /\ asked' = asked + 1
    /\ hand' = [hand EXCEPT ![<<i, j>>] = @ + 1]
    /\ UNCHANGED <<store, tools, note, made, said, call, crossed, untold, auto, peak>>

\* The API deletes a note, its history and its links.
RemoveNote(i) ==
    /\ store = "pg" /\ "remove" \in tools
    /\ asked < MaxCalls /\ note[i].exists
    /\ asked' = asked + 1
    /\ note' = [note EXCEPT ![i] = Unused]
    /\ said' = [said EXCEPT ![i] = Unsaid]
    /\ auto' = [p \in Pairs |-> IF i \in {p[1], p[2]} THEN 0 ELSE auto[p]]
    /\ hand' = [p \in Pairs |-> IF i \in {p[1], p[2]} THEN 0 ELSE hand[p]]
    /\ UNCHANGED <<store, tools, made, call, crossed, untold, peak>>

ToolsNext ==
    \/ \E c \in Callers :
         \/ \E i \in Ids, t \in tools : \E ch \in Requests(t) : Ask(c, t, i, ch)
         \/ Load(c) \/ Commit(c) \/ CommitFails(c)
         \/ \E i \in Ids : \E js \in SUBSET Ids : FindSimilar(c, i, js)
         \/ \E j \in Ids : CheckLink(c, j)
         \/ FinishLinks(c)
    \/ \E cat \in Categories \cup {"inbox"}, d \in {0} \cup Days : AddNote(cat, d)
    \/ \E i, j \in Ids : AddLink(i, j)
    \/ \E i \in Ids : RemoveNote(i)

ToolsTypeOK ==
    /\ store \in {"pg", "sqlite"} /\ tools \in ToolsTogether
    /\ note \in [Ids -> NoteRow] /\ made \in Written..MaxNotes
    /\ \A i \in Ids : note[i].exists => i <= made
    /\ \A c \in Callers : ~Idle(c) => call[c].note \in Ids
    /\ crossed \subseteq Ids /\ untold \subseteq Ids /\ asked \in 0..MaxCalls
    /\ auto \in [Pairs -> Nat] /\ hand \in [Pairs -> Nat] /\ peak \in Nat

(***************************************************************************)
(* Properties                                                              *)
(***************************************************************************)

\* The last row of history that names a category or a deadline of a note names
\* the one it has. Two things excuse another: para_reclassify, which writes or
\* clears the deadline and names the category only, for the deadline until a
\* para_update names it again; and, on PostgreSQL, a change of the note between
\* the load and the commit of a call, which then leaves a field out that history
\* names. On SQLite history is always right.
HistoryAgrees ==
    \A i \in Ids : note[i].exists =>
      \/ /\ said[i].category \in {"-", note[i].category}
         /\ said[i].due \in {0, note[i].due} \/ (store = "pg" /\ i \in untold)
      \/ store = "pg" /\ i \in crossed

\* A next instance comes in the transaction that closes its note, with the
\* deadline one interval after the one its note has then; only a change of the note
\* between the load and the commit excuses another. No instance comes twice
\* from one transaction.
SeriesAdvances ==
    [][ \A i \in Ids : i > made /\ note'[i].from # 0 =>
          LET n == note'[i].from IN
          /\ i = made + 1 /\ note[n].exists
          /\ \/ /\ note'[n].status # "active"
                /\ note[n].due # 0 => note'[i].due = note[n].due + Interval
                /\ note[n].due = 0 => note'[i].due > Today
             \/ n \in crossed'
      ]_toolVars

\* The links that workers make between two notes are at most as many as the link
\* handlers that were at work at once: with one worker, one, whatever the
\* tools add and remove by hand and whichever of the two notes is linked first.
AutoLinksBounded ==
    \A i, j \in Ids : i # j => auto[<<i, j>>] + auto[<<j, i>>] <= peak

=============================================================================
