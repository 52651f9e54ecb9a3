---------------------------- MODULE Conversation ----------------------------
(***************************************************************************)
(* The chats of the Telegram bot: turns, "/note" and "/reset".  Each       *)
(* update is a background task; nothing keeps two updates of one chat      *)
(* apart.  A turn reads the history, asks the model and appends two        *)
(* messages in two transactions, each of which trims the chat to the       *)
(* latest CHAT_HISTORY_MAX.  "/note" without text reads the history, asks  *)
(* the model for a summary, makes a note of it and only then clears the    *)
(* chat.  The settings of the API change CHAT_HISTORY_MAX at any moment,   *)
(* to any integer.                                                         *)
(***************************************************************************)
EXTENDS Integers, Sequences

CONSTANTS
    Chats,
    Handlers,     \* background tasks of the web process
    Limits,       \* what CHAT_HISTORY_MAX is set to; to SQLite a negative LIMIT is none
    MaxUpdates    \* bound: updates, and changes of the setting

ASSUME ChatAssumption == Limits \subseteq Int /\ MaxUpdates \in Nat

VARIABLES
    limit,      \* CHAT_HISTORY_MAX
    change,     \* change[k]: "none": the limit is as it was when chat k was cleared;
                \* "lowered": it was lowered since chat k was trimmed; or "other"
    messages,   \* messages[k]: the rows of chat k by id
    spoken,     \* spoken[k]: all that was appended to it since it was cleared
    update,     \* update[u]: the update that task u is at
    mixed,      \* mixed[k]: a turn of chat k was not appended in one go
    handled     \* updates so far

chatVars == <<limit, change, messages, spoken, update, mixed, handled>>

Resting == [stage |-> "none"]
Step(u) == update[u].stage
On(u, k) == Step(u) # "none" /\ update[u].chat = k

ChatInit ==
    /\ limit \in Limits /\ change = [k \in Chats |-> "none"]
    /\ messages = [k \in Chats |-> <<>>] /\ spoken = messages
    /\ update = [u \in Handlers |-> Resting]
    /\ mixed = [k \in Chats |-> FALSE]
    /\ handled = 0

Fits(s, n) == n < 0 \/ Len(s) <= n
Latest(s, n) == IF Fits(s, n) THEN s ELSE SubSeq(s, Len(s) - n + 1, Len(s))
Oldest(s, n) == IF Fits(s, n) THEN s ELSE SubSeq(s, 1, n)

\* Slips: the oldest are kept; one message too few is.
TrimOldest(s) == Oldest(s, limit)
TrimShort(s) == Latest(s, limit - 1)

\* What the transaction of append_message leaves.
Trim(s) == Latest(s, limit)

\* get_history: the oldest by id, at most CHAT_HISTORY_MAX.
History(k) == Oldest(messages[k], limit)

\* PUT /api/settings looks at nothing but the type.
Smaller(m, n) == m >= 0 /\ (n < 0 \/ m < n)
SetLimit(n) ==
    /\ handled < MaxUpdates /\ handled' = handled + 1
    /\ n # limit /\ limit' = n
    /\ change' = [k \in Chats |-> IF Smaller(n, limit) \/ change[k] = "lowered" THEN "lowered"
                                  ELSE "other"]
    /\ UNCHANGED <<messages, spoken, update, mixed>>

\* An update arrives and its task begins.
Arrive(u, k, way) ==
    /\ Step(u) = "none" /\ handled < MaxUpdates
    /\ handled' = handled + 1
    /\ update' = [update EXCEPT ![u] = [stage |-> way, way |-> way, chat |-> k, no |-> handled + 1]]
    /\ UNCHANGED <<limit, change, messages, spoken, mixed>>

\* A turn reads the history too; what the model makes of it is left out.
Turn(u, k) == Arrive(u, k, "ask")

\* "/note" with a text makes a note of the text and reads nothing.
NoteFromText(u, k) == Arrive(u, k, "classify")

\* "/note" without text; an empty history is not summarised. What is said after the
\* reading is not in the summary, and yet cleared with the rest.
NoteFromChat(u, k) == History(k) # <<>> /\ Arrive(u, k, "distill")

\* A voice message.
Voice(u, k) == Arrive(u, k, "hear")

AppendMessage(u, role, stage) ==
    LET k == update[u].chat  m == [turn |-> update[u].no, role |-> role] IN
    /\ messages' = [messages EXCEPT ![k] = Trim(Append(@, m))]
    /\ spoken' = [spoken EXCEPT ![k] = Append(@, m)]
    /\ change' = [change EXCEPT ![k] = IF @ = "none" THEN "none" ELSE "other"]
    /\ update' = [update EXCEPT ![u].stage = stage]
    /\ UNCHANGED <<limit, handled>>

Halfway(k) == \E u \in Handlers : On(u, k) /\ Step(u) = "reply"

\* The model has answered, or failed: then a fixed reply is appended.
AppendUser(u) ==
    /\ Step(u) = "ask"
    /\ AppendMessage(u, "user", "reply")
    /\ mixed' = [mixed EXCEPT ![update[u].chat] = @ \/ Halfway(update[u].chat)]

AppendAssistant(u) ==
    /\ Step(u) = "reply"
    /\ AppendMessage(u, "assistant", "end")
    /\ UNCHANGED mixed

\* The model gives a summary, which is classified next, or fails: then the
\* chat stays.
Distill(u) ==
    /\ Step(u) = "distill"
    /\ \E ok \in BOOLEAN : update' = [update EXCEPT ![u].stage = IF ok THEN "classify" ELSE "end"]
    /\ UNCHANGED <<limit, change, messages, spoken, mixed, handled>>

\* It is downloaded and transcribed, if that works.
Transcribe(u) ==
    /\ Step(u) = "hear"
    /\ \E ok \in BOOLEAN : update' = [update EXCEPT ![u].stage = IF ok THEN "classify" ELSE "end"]
    /\ UNCHANGED <<limit, change, messages, spoken, mixed, handled>>

\* _create_note; if it fails, or the note comes of a voice message, the chat stays.
MakeNote(u) ==
    /\ Step(u) = "classify"
    /\ \E ok \in BOOLEAN :
         update' = [update EXCEPT ![u].stage = IF ok /\ update[u].way # "hear"
                                                THEN "clear" ELSE "end"]
    /\ UNCHANGED <<limit, change, messages, spoken, mixed, handled>>

Wipe(k) ==
    /\ messages' = [messages EXCEPT ![k] = <<>>]
    /\ spoken' = [spoken EXCEPT ![k] = <<>>]
    /\ change' = [change EXCEPT ![k] = "none"]
    /\ mixed' = [mixed EXCEPT ![k] = Halfway(k)]

\* clear_history after a "/note".
ClearHistory(u) ==
    /\ Step(u) = "clear"
    /\ Wipe(update[u].chat)
    /\ update' = [update EXCEPT ![u].stage = "end"]
    /\ UNCHANGED <<limit, handled>>

\* "/reset".
Reset(k) ==
    /\ handled < MaxUpdates /\ handled' = handled + 1
    /\ Wipe(k)
    /\ UNCHANGED <<limit, update>>

\* The reply is sent and the task ends; or a wait for the write lock was too
\* long, or the process died: then it ends where it is.
End(u) ==
    /\ Step(u) # "none"
    /\ update' = [update EXCEPT ![u] = Resting]
    /\ mixed' = [mixed EXCEPT ![update[u].chat] = @ \/ Step(u) = "reply"]
    /\ UNCHANGED <<limit, change, messages, spoken, handled>>

ChatNext ==
    \/ \E u \in Handlers, k \in Chats : Turn(u, k) \/ NoteFromText(u, k) \/ NoteFromChat(u, k)
                                         \/ Voice(u, k)
    \/ \E u \in Handlers :
         \/ AppendUser(u) \/ AppendAssistant(u) \/ Distill(u) \/ Transcribe(u) \/ MakeNote(u)
         \/ ClearHistory(u) \/ End(u)
    \/ \E k \in Chats : Reset(k)
    \/ \E n \in Limits : SetLimit(n)

ChatSpec == ChatInit /\ [][ChatNext]_chatVars

(***************************************************************************)
(* Properties                                                              *)
(***************************************************************************)

\* t is the end of s.
EndOf(t, s) ==
    Len(t) <= Len(s) /\ \A i \in DOMAIN t : t[i] = s[i + Len(s) - Len(t)]

\* get_history takes the oldest rows of a chat, and yet returns the latest of what
\* was said since the chat was cleared, because append_message trims: only a
\* limit lowered since the last message makes it return others. While the
\* limit is what it was when the chat was cleared, nothing is left out below it.
WindowIsLatest ==
    \A k \in Chats :
      /\ change[k] # "lowered" => EndOf(History(k), spoken[k])
      /\ change[k] = "none" => Len(History(k)) \in {Len(spoken[k]), limit}

\* Between turns every question in the history that the model is given is followed
\* by its answer and every answer but the first message preceded by its
\* question, unless two turns overlapped, a turn was cut off, the chat was
\* cleared within one or the limit lowered since. A first answer without its
\* question takes an odd limit or a change of it.
TurnsWhole ==
    \A k \in Chats : mixed[k] \/ Halfway(k) \/
      LET h == History(k) IN
      /\ change[k] # "lowered" =>
           \A i \in DOMAIN h :
             \/ /\ h[i].role = "user" /\ i + 1 \in DOMAIN h
                /\ h[i + 1].role = "assistant" /\ h[i + 1].turn = h[i].turn
             \/ /\ h[i].role = "assistant"
                /\ i = 1 \/ (h[i - 1].role = "user" /\ h[i - 1].turn = h[i].turn)
      /\ change[k] = "none" /\ (limit < 0 \/ limit % 2 = 0) => Len(h) % 2 = 0
=============================================================================
