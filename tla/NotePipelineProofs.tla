------------------------- MODULE NotePipelineProofs -------------------------
(***************************************************************************)
(* Theorems about NotePipeline, for every set of requests, texts and       *)
(* categories and every bound on failures.                                 *)
(***************************************************************************)
EXTENDS NotePipeline, FiniteSetTheorems, TLAPS

\* The groups of variables are only a way to write UNCHANGED shortly.
USE DEF rowVars, requestVars, workerVars, countVars

(***************************************************************************)
(* Records: rows, changes and what an UPDATE makes of them.                *)
(***************************************************************************)

LEMMA SomeTextType == SomeText \in Texts
BY NoteAssumption DEF SomeText

LEMMA BlankTypes ==
    /\ BlankRow \in Row
    /\ [text |-> SomeText] \in Change
BY SomeTextType, NoteAssumption DEF BlankRow, Row, Change

\* An UPDATE keeps the type of the row, leaves its vector alone and sets the
\* text only when it names it.
LEMMA UpdatedRow ==
    ASSUME NEW old \in Row, NEW c \in Change
    PROVE  /\ Updated(old, c) \in Row
           /\ Updated(old, c).vector = old.vector
           /\ "text" \in DOMAIN c => Updated(old, c).text = c.text /\ c.text \in Texts
           /\ "text" \notin DOMAIN c => Updated(old, c).text = old.text
<1>1. CASE c \in [text : Texts]
  BY <1>1 DEF Updated, Row
<1>2. CASE c \in [category : Categories]
  BY <1>2 DEF Updated, Row
<1>3. CASE c \in [category : {"archives"}, status : {"archived"}]
  BY <1>3, NoteAssumption DEF Updated, Row
<1>4. QED
  BY <1>1, <1>2, <1>3 DEF Change

\* What the routes that begin with _fetch_note set out to write.
LEMMA FetchCases ==
    ASSUME TypeOK, NEW r \in Requests, FetchNote(r)
    PROVE  \E route \in Routes \ {"create_note"}, c \in Change, l \in {"llm", "write"} :
             /\ Fetch(r, route, c, l)
             /\ route \in {"move_note", "archive_note", "reclassify_note"} =>
                  "text" \notin DOMAIN c
<1> DEFINE Wanted(route, c, l) ==
             /\ route \in Routes \ {"create_note"} /\ c \in Change /\ l \in {"llm", "write"}
             /\ Fetch(r, route, c, l)
             /\ route \in {"move_note", "archive_note", "reclassify_note"} =>
                  "text" \notin DOMAIN c
<1>1. ASSUME NEW t \in Texts
      PROVE  [text |-> t] \in Change
  BY DEF Change
<1>2. ASSUME NEW d \in Categories
      PROVE  [category |-> d] \in Change /\ "text" \notin DOMAIN [category |-> d]
  BY DEF Change
<1>3. /\ [category |-> "archives", status |-> "archived"] \in Change
      /\ "text" \notin DOMAIN [category |-> "archives", status |-> "archived"]
  BY NoteAssumption DEF Change
<1>4. change[r] \in Change
  BY DEF TypeOK
<1>5. ASSUME NEW t \in Texts, Fetch(r, "update_note", [text |-> t], "write")
      PROVE  Wanted("update_note", [text |-> t], "write")
  BY <1>1, <1>5 DEF Routes
<1>6. ASSUME NEW d \in Categories, Fetch(r, "update_note", [category |-> d], "write")
      PROVE  Wanted("update_note", [category |-> d], "write")
  BY <1>2, <1>6 DEF Routes
<1>7. ASSUME NEW d \in Categories, Fetch(r, "move_note", [category |-> d], "write")
      PROVE  Wanted("move_note", [category |-> d], "write")
  BY <1>2, <1>7 DEF Routes
<1>8. ASSUME Fetch(r, "archive_note", [category |-> "archives", status |-> "archived"], "write")
      PROVE  Wanted("archive_note", [category |-> "archives", status |-> "archived"], "write")
  BY <1>3, <1>8 DEF Routes
<1>9. ASSUME NEW d \in Categories, Fetch(r, "reclassify_note", [category |-> d], "llm")
      PROVE  Wanted("reclassify_note", [category |-> d], "llm")
  BY <1>2, <1>9 DEF Routes
<1>10. ASSUME Fetch(r, "delete_note", change[r], "write")
       PROVE  Wanted("delete_note", change[r], "write")
  BY <1>4, <1>10 DEF Routes
<1>11. \E route, c, l : Wanted(route, c, l)
  <2> HIDE DEF Wanted
  <2>1. QED
    BY <1>5, <1>6, <1>7, <1>8, <1>9, <1>10 DEF FetchNote
<1>12. QED
  BY <1>11

(***************************************************************************)
(* Types.                                                                  *)
(***************************************************************************)

LEMMA InitTypeOK == Init => TypeOK
<1> SUFFICES ASSUME Init
             PROVE  TypeOK
  OBVIOUS
<1>1. /\ exists \in BOOLEAN /\ row \in Row /\ lock \in Requests \cup {Nobody}
      /\ pc \in [Requests -> Locations] /\ op \in [Requests -> Routes]
  BY BlankTypes DEF Init, Locations, Routes
<1>2. /\ seen \in [Requests -> Row] /\ change \in [Requests -> Change]
      /\ hit \in [Requests -> BOOLEAN] /\ unsent \in [Requests -> SUBSET Topics]
  BY BlankTypes DEF Init
<1>3. /\ queued \in [Topics -> Nat] /\ work \in Topics \cup {"none"} /\ snap \in Row
      /\ userText \in Texts /\ excused \in BOOLEAN
  BY BlankTypes, SomeTextType DEF Init
<1>4. faults \in 0..MaxFaults /\ feedback \in Nat /\ moves \in Nat
  BY NoteAssumption DEF Init
<1>5. QED
  BY <1>1, <1>2, <1>3, <1>4 DEF TypeOK

\* The end of a request, common to three actions.
LEMMA EndType ==
    ASSUME TypeOK, NEW r \in Requests, End(r)
    PROVE  /\ lock' \in Requests \cup {Nobody}
           /\ pc' \in [Requests -> Locations] /\ op' \in [Requests -> Routes]
           /\ seen' \in [Requests -> Row] /\ change' \in [Requests -> Change]
           /\ hit' \in [Requests -> BOOLEAN] /\ unsent' \in [Requests -> SUBSET Topics]
BY BlankTypes DEF TypeOK, End, Goto, Locations, Routes

LEMMA NextTypeOK == TypeOK /\ [Next]_vars => TypeOK'
<1> SUFFICES ASSUME TypeOK, [Next]_vars
             PROVE  TypeOK'
  OBVIOUS
<1> USE NoteAssumption
<1>1. ASSUME NEW r \in Requests, NEW t \in Texts, NEW c \in Categories, CreateNote(r, t, c)
      PROVE  TypeOK'
  <2>1. [BlankRow EXCEPT !.text = t, !.category = c] \in Row
    BY BlankTypes DEF Row
  <2>2. QED
    BY <1>1, <2>1 DEF TypeOK, CreateNote, Goto, Locations, Routes, Topics
<1>2. ASSUME NEW r \in Requests, FetchNote(r)
      PROVE  TypeOK'
  <2>1. PICK route \in Routes \ {"create_note"}, c \in Change, l \in {"llm", "write"} :
             Fetch(r, route, c, l)
    BY <1>2, FetchCases
  <2>2. QED
    BY <2>1 DEF TypeOK, Fetch, Goto, Locations
<1>3. ASSUME NEW r \in Requests, LlmAnswers(r)
      PROVE  TypeOK'
  BY <1>3 DEF TypeOK, LlmAnswers, Goto, Locations
<1>4. ASSUME NEW r \in Requests, Write(r)
      PROVE  TypeOK'
  BY <1>4 DEF TypeOK, Write, AfterWrite, Goto, Locations, Topics
<1>5. ASSUME NEW r \in Requests, Publish(r)
      PROVE  TypeOK'
  BY <1>5 DEF TypeOK, Publish, NextTopic, Goto, Locations, Topics
<1>6. ASSUME NEW r \in Requests, PublishFails(r)
      PROVE  TypeOK'
  BY <1>6 DEF TypeOK, PublishFails, Goto, Locations
<1>7. ASSUME NEW r \in Requests, RecordFeedback(r)
      PROVE  TypeOK'
  BY <1>7 DEF TypeOK, RecordFeedback, Recorded, Goto, Locations
<1>8. ASSUME NEW r \in Requests, Commit(r)
      PROVE  TypeOK'
  <2>1. change[r] \in Change /\ row \in Row
    BY DEF TypeOK
  <2>2. Updated(row, change[r]) \in Row
    BY <2>1, UpdatedRow
  <2>3. exists' \in BOOLEAN /\ row' \in Row
    BY <1>8, <2>1, <2>2 DEF Commit, TypeOK
  <2>4. row.text \in Texts /\ (SetsText(r) => change[r].text \in Texts)
    BY <2>1, UpdatedRow DEF Row, SetsText
  <2>5. userText' \in Texts
    BY <1>8, <2>4 DEF Commit, TypeOK, SetsText
  <2>6. moves' \in Nat
    BY <1>8 DEF Commit, TypeOK
  <2>7. excused' \in BOOLEAN
    BY <1>8 DEF Commit, TypeOK
  <2>8. End(r) /\ UNCHANGED <<queued, workerVars, faults, feedback>>
    BY <1>8 DEF Commit
  <2>9. QED
    BY <2>3, <2>5, <2>6, <2>7, <2>8, EndType DEF TypeOK
<1>9. ASSUME NEW r \in Requests, CommitMissed(r)
      PROVE  TypeOK'
  BY <1>9, EndType DEF TypeOK, CommitMissed
<1>10. ASSUME NEW r \in Requests, Abort(r)
       PROVE  TypeOK'
  BY <1>10, EndType DEF TypeOK, Abort
<1>11. ASSUME NEW t \in Topics, Take(t)
       PROVE  TypeOK'
  BY <1>11 DEF TypeOK, Take, Load, Topics
<1>12. ASSUME NEW c \in Categories, Classify(c)
       PROVE  TypeOK'
  <2>1. [row EXCEPT !.category = c] \in Row
    BY DEF TypeOK, Row
  <2>2. QED
    BY <1>12, <2>1, BlankTypes DEF TypeOK, Classify, Classified, Idle
<1>13. CASE Embed
  <2>1. Embedded \in Row
    BY DEF TypeOK, Row, Embedded
  <2>2. QED
    BY <1>13, <2>1, BlankTypes DEF TypeOK, Embed, Idle
<1>14. CASE EmbedRefused
  <2>1. [row EXCEPT !.embedding_status = "failed"] \in Row
    BY DEF TypeOK, Row
  <2>2. QED
    BY <1>14, <2>1, BlankTypes DEF TypeOK, EmbedRefused, Idle
<1>15. CASE HandlerFails
  BY <1>15, BlankTypes DEF TypeOK, HandlerFails, Idle
<1>16. ASSUME NEW t \in Topics, LoseTask(t)
       PROVE  TypeOK'
  BY <1>16 DEF TypeOK, LoseTask
<1>17. CASE PushBackfill
  BY <1>17 DEF TypeOK, PushBackfill, Topics
<1>18. CASE UNCHANGED vars
  BY <1>18 DEF TypeOK, vars
<1>19. QED
  BY <1>1, <1>2, <1>3, <1>4, <1>5, <1>6, <1>7, <1>8, <1>9, <1>10, <1>11, <1>12,
     <1>13, <1>14, <1>15, <1>16, <1>17, <1>18 DEF Next, RequestStep, WorkerStep

\* Every variable keeps its type.
THEOREM TypeCorrect == Spec => []TypeOK
BY InitTypeOK, NextTypeOK, PTL DEF Spec

(***************************************************************************)
(* Requests: what a request's place in its route function tells.           *)
(***************************************************************************)
Routed(r) ==
    /\ pc[r] \in {"llm", "write"} => op[r] # "create_note"
    /\ pc[r] = "feedback" => ChangesCategory(r)
    /\ pc[r] \in {"feedback", "commit"} => unsent[r] = {}
    /\ op[r] \in {"move_note", "archive_note", "reclassify_note"} =>
         "text" \notin DOMAIN change[r]

\* An UPDATE that missed the row will not find it later: a deleted note is not
\* created again, for nothing else runs while the note is being created.
Located(r) ==
    /\ pc[r] \in {"publish", "feedback", "commit"} /\ ~hit[r] => ~exists
    /\ pc[r] \in {"publish", "commit"} /\ op[r] = "create_note" =>
         ~exists /\ \A s \in Requests \ {r} : pc[s] = "new"

Begun == exists => \E s \in Requests : pc[s] # "new"

RequestInv == (\A r \in Requests : Routed(r) /\ Located(r)) /\ Begun

LEMMA InitRequestInv == Init => RequestInv
BY DEF Init, RequestInv, Routed, Located, Begun

\* A step of the request r that leaves the others where they are.
StepOf(r) ==
    /\ \A s \in Requests \ {r} :
         /\ pc'[s] = pc[s] /\ op'[s] = op[s] /\ seen'[s] = seen[s]
         /\ change'[s] = change[s] /\ hit'[s] = hit[s] /\ unsent'[s] = unsent[s]
    /\ pc'[r] # "new"

LEMMA StepKeepsRequests ==
    ASSUME RequestInv, NEW r \in Requests, StepOf(r), pc[r] # "new", exists' => exists,
           Routed(r)', Located(r)'
    PROVE  RequestInv'
<1>1. ASSUME NEW s \in Requests, s # r
      PROVE  Routed(s)' /\ Located(s)'
  <2>1. Routed(s) /\ Located(s)
    BY DEF RequestInv
  <2>2. /\ pc'[s] = pc[s] /\ op'[s] = op[s] /\ seen'[s] = seen[s]
        /\ change'[s] = change[s] /\ hit'[s] = hit[s] /\ unsent'[s] = unsent[s]
    BY <1>1 DEF StepOf
  <2>3. Routed(s)'
    BY <2>1, <2>2 DEF Routed, ChangesCategory
  <2>4. ~(pc[s] \in {"publish", "commit"} /\ op[s] = "create_note")
    BY <2>1, <1>1 DEF Located
  <2>5. Located(s)'
    BY <2>1, <2>2, <2>4 DEF Located
  <2>6. QED
    BY <2>3, <2>5
<1>2. Begun'
  BY DEF Begun, StepOf
<1>3. QED
  BY <1>1, <1>2 DEF RequestInv

LEMMA EndStep ==
    ASSUME TypeOK, NEW r \in Requests, End(r)
    PROVE  /\ StepOf(r)
           /\ pc'[r] = "done" /\ op'[r] = "create_note" /\ unsent'[r] = {}
           /\ Routed(r)' /\ Located(r)'
<1>1. StepOf(r) /\ pc'[r] = "done" /\ op'[r] = "create_note" /\ unsent'[r] = {}
  BY DEF TypeOK, End, Goto, StepOf
<1>2. QED
  BY <1>1 DEF Routed, Located

LEMMA AfterWriteCases ==
    ASSUME NEW r \in Requests
    PROVE  \/ EditsText(r) /\ ~ChangesCategory(r) /\ AfterWrite(r) = "publish"
           \/ ~EditsText(r) /\ ChangesCategory(r) /\ AfterWrite(r) = "feedback"
           \/ ~EditsText(r) /\ ~ChangesCategory(r) /\ AfterWrite(r) = "commit"
<1>1. ~(EditsText(r) /\ ChangesCategory(r))
  BY DEF EditsText, SetsText, ChangesCategory
<1>2. QED
  BY <1>1 DEF AfterWrite

\* The workers and what surrounds them leave the requests alone.
LEMMA WorkerKeepsRequests ==
    ASSUME RequestInv, UNCHANGED <<exists, requestVars>>
    PROVE  RequestInv'
BY DEF RequestInv, Routed, Located, Begun, ChangesCategory

LEMMA NextRequestInv == TypeOK /\ RequestInv /\ [Next]_vars => RequestInv'
<1> SUFFICES ASSUME TypeOK, RequestInv, [Next]_vars
             PROVE  RequestInv'
  OBVIOUS
<1>1. ASSUME NEW r \in Requests, NEW t \in Texts, NEW c \in Categories, CreateNote(r, t, c)
      PROVE  RequestInv'
  <2>1. \A s \in Requests : pc[s] = "new"
    BY <1>1 DEF CreateNote
  <2>2. ~exists
    BY <2>1 DEF RequestInv, Begun
  <2>3. /\ StepOf(r) /\ pc'[r] = "publish" /\ op'[r] = "create_note" /\ hit'[r]
        /\ exists' = exists /\ change' = change
    BY <1>1 DEF CreateNote, TypeOK, StepOf, Goto
  <2>4. \A s \in Requests \ {r} : pc'[s] = "new"
    BY <2>1, <2>3 DEF StepOf
  <2>5. Routed(r)' /\ Located(r)'
    BY <2>2, <2>3, <2>4 DEF Routed, Located
  <2>6. ASSUME NEW s \in Requests, s # r
        PROVE  Routed(s)' /\ Located(s)'
    <3>1. Routed(s)
      BY DEF RequestInv
    <3>2. Routed(s)'
      BY <3>1, <2>3, <2>4, <2>6 DEF Routed, StepOf
    <3>3. Located(s)'
      BY <2>4, <2>6 DEF Located
    <3>4. QED
      BY <3>2, <3>3
  <2>7. Begun'
    BY <2>2, <2>3 DEF Begun
  <2>8. QED
    BY <2>5, <2>6, <2>7 DEF RequestInv
<1>2. ASSUME NEW r \in Requests, FetchNote(r)
      PROVE  RequestInv'
  <2>1. PICK route \in Routes \ {"create_note"}, c \in Change, l \in {"llm", "write"} :
             /\ Fetch(r, route, c, l)
             /\ route \in {"move_note", "archive_note", "reclassify_note"} =>
                  "text" \notin DOMAIN c
    BY <1>2, FetchCases
  <2>2. /\ StepOf(r) /\ pc'[r] = l /\ op'[r] = route /\ change'[r] = c
        /\ exists /\ exists' = exists
    BY <2>1 DEF Fetch, TypeOK, StepOf, Goto
  <2>3. Routed(r)' /\ Located(r)'
    BY <2>1, <2>2 DEF Routed, Located
  <2>4. ASSUME NEW s \in Requests, s # r
        PROVE  Routed(s)' /\ Located(s)'
    <3>1. Routed(s) /\ Located(s)
      BY DEF RequestInv
    <3>2. Routed(s)'
      BY <3>1, <2>2, <2>4 DEF Routed, StepOf, ChangesCategory
    <3>3. Located(s)'
      BY <3>1, <2>2, <2>4 DEF Located, StepOf
    <3>4. QED
      BY <3>2, <3>3
  <2>5. Begun'
    BY <2>1, <2>2 DEF Begun, StepOf
  <2>6. QED
    BY <2>3, <2>4, <2>5 DEF RequestInv
<1>3. ASSUME NEW r \in Requests, LlmAnswers(r)
      PROVE  RequestInv'
  <2>1. Routed(r) /\ Located(r)
    BY DEF RequestInv
  <2>2. StepOf(r) /\ pc'[r] = "write" /\ pc[r] = "llm" /\ UNCHANGED <<exists, op, change>>
    BY <1>3 DEF LlmAnswers, TypeOK, StepOf, Goto
  <2>3. Routed(r)' /\ Located(r)'
    BY <2>1, <2>2 DEF Routed, Located
  <2>4. QED
    BY <2>2, <2>3, StepKeepsRequests
<1>4. ASSUME NEW r \in Requests, Write(r)
      PROVE  RequestInv'
  <2>1. Routed(r) /\ Located(r)
    BY DEF RequestInv
  <2>2. /\ pc[r] = "write" /\ pc'[r] = AfterWrite(r) /\ hit'[r] = exists
        /\ unsent'[r] = (IF EditsText(r) THEN {"embed"} ELSE {})
        /\ UNCHANGED <<exists, op, seen, change>>
    BY <1>4 DEF Write, TypeOK, Goto
  <2>3. StepOf(r)
    BY <1>4, AfterWriteCases DEF Write, TypeOK, StepOf, Goto
  <2>4. ChangesCategory(r)' = ChangesCategory(r)
    BY <2>2 DEF ChangesCategory
  <2>5. op[r] # "create_note"
    BY <2>1, <2>2 DEF Routed
  <2>6. Routed(r)'
    BY <2>1, <2>2, <2>4, <2>5, AfterWriteCases DEF Routed
  <2>7. Located(r)'
    BY <2>2, <2>5 DEF Located
  <2>8. QED
    BY <2>2, <2>3, <2>6, <2>7, StepKeepsRequests
<1>5. ASSUME NEW r \in Requests, Publish(r)
      PROVE  RequestInv'
  <2>1. Routed(r) /\ Located(r)
    BY DEF RequestInv
  <2>2. /\ StepOf(r) /\ pc[r] = "publish" /\ UNCHANGED <<exists, op, seen, change, hit>>
        /\ pc'[r] = "publish" \/ (pc'[r] = "commit" /\ unsent'[r] = {})
    BY <1>5 DEF Publish, TypeOK, StepOf, Goto
  <2>3. Routed(r)'
    BY <2>1, <2>2 DEF Routed
  <2>4. Located(r)'
    BY <2>1, <2>2 DEF Located, StepOf
  <2>5. QED
    BY <2>2, <2>3, <2>4, StepKeepsRequests
<1>6. ASSUME NEW r \in Requests, PublishFails(r)
      PROVE  RequestInv'
  <2>1. Routed(r) /\ Located(r)
    BY DEF RequestInv
  <2>2. /\ StepOf(r) /\ pc[r] = "publish" /\ UNCHANGED <<exists, op, seen, change, hit>>
        /\ pc'[r] = "commit" /\ unsent'[r] = {}
    BY <1>6 DEF PublishFails, TypeOK, StepOf, Goto
  <2>3. Routed(r)'
    BY <2>1, <2>2 DEF Routed
  <2>4. Located(r)'
    BY <2>1, <2>2 DEF Located, StepOf
  <2>5. QED
    BY <2>2, <2>3, <2>4, StepKeepsRequests
<1>7. ASSUME NEW r \in Requests, RecordFeedback(r)
      PROVE  RequestInv'
  <2>1. Routed(r) /\ Located(r)
    BY DEF RequestInv
  <2>2. /\ StepOf(r) /\ pc[r] = "feedback" /\ pc'[r] = "commit"
        /\ UNCHANGED <<exists, op, seen, change, hit, unsent>>
    BY <1>7 DEF RecordFeedback, TypeOK, StepOf, Goto
  <2>3. op[r] = "move_note"
    BY <2>1, <2>2 DEF Routed, ChangesCategory
  <2>4. Routed(r)'
    BY <2>1, <2>2 DEF Routed
  <2>5. Located(r)'
    BY <2>1, <2>2, <2>3 DEF Located
  <2>6. QED
    BY <2>2, <2>4, <2>5, StepKeepsRequests
<1>8. ASSUME NEW r \in Requests, Commit(r)
      PROVE  RequestInv'
  <2>1. End(r) /\ pc[r] = "commit"
    BY <1>8 DEF Commit
  <2>2. CASE op[r] = "create_note"
    <3>1. \A s \in Requests \ {r} : pc[s] = "new"
      BY <2>1, <2>2 DEF RequestInv, Located
    <3>2. \A s \in Requests \ {r} : pc'[s] = "new" /\ op'[s] = op[s] /\ change'[s] = change[s]
      BY <3>1, <2>1, EndStep DEF StepOf
    <3>3. \A s \in Requests \ {r} : Routed(s)' /\ Located(s)'
      BY <3>2 DEF RequestInv, Routed, Located
    <3>4. Begun'
      BY <2>1, EndStep DEF Begun
    <3>5. QED
      BY <3>3, <3>4, <2>1, EndStep DEF RequestInv
  <2>3. CASE op[r] # "create_note"
    <3>1. exists' => exists
      BY <1>8, <2>3 DEF Commit
    <3>2. QED
      BY <3>1, <2>1, EndStep, StepKeepsRequests
  <2>4. QED
    BY <2>2, <2>3
<1>9. ASSUME NEW r \in Requests, CommitMissed(r)
      PROVE  RequestInv'
  <2>1. End(r) /\ pc[r] = "commit" /\ UNCHANGED exists
    BY <1>9 DEF CommitMissed
  <2>2. QED
    BY <2>1, EndStep, StepKeepsRequests
<1>10. ASSUME NEW r \in Requests, Abort(r)
       PROVE  RequestInv'
  <2>1. End(r) /\ pc[r] # "new" /\ UNCHANGED exists
    BY <1>10 DEF Abort
  <2>2. QED
    BY <2>1, EndStep, StepKeepsRequests
<1>11. ASSUME NEW t \in Topics, Take(t)
       PROVE  RequestInv'
  BY <1>11, WorkerKeepsRequests DEF Take
<1>12. ASSUME NEW c \in Categories, Classify(c)
       PROVE  RequestInv'
  BY <1>12, WorkerKeepsRequests DEF Classify
<1>13. CASE Embed
  BY <1>13, WorkerKeepsRequests DEF Embed
<1>14. CASE EmbedRefused
  BY <1>14, WorkerKeepsRequests DEF EmbedRefused
<1>15. CASE HandlerFails
  BY <1>15, WorkerKeepsRequests DEF HandlerFails
<1>16. ASSUME NEW t \in Topics, LoseTask(t)
       PROVE  RequestInv'
  BY <1>16, WorkerKeepsRequests DEF LoseTask
<1>17. CASE PushBackfill
  BY <1>17, WorkerKeepsRequests DEF PushBackfill
<1>18. CASE UNCHANGED vars
  BY <1>18, WorkerKeepsRequests DEF vars
<1>19. QED
  BY <1>1, <1>2, <1>3, <1>4, <1>5, <1>6, <1>7, <1>8, <1>9, <1>10, <1>11, <1>12,
     <1>13, <1>14, <1>15, <1>16, <1>17, <1>18 DEF Next, RequestStep, WorkerStep


(***************************************************************************)
(* Texts.                                                                  *)
(***************************************************************************)

\* What a commit makes of the row, by the kind of request.
LEMMA CommitEffect ==
    ASSUME TypeOK, RequestInv, NEW r \in Requests, Commit(r)
    PROVE  /\ row'.vector = row.vector
           /\ \/ /\ op[r] = "create_note" /\ exists' /\ row' = row /\ userText' = row.text
              \/ /\ op[r] = "delete_note" /\ ~exists' /\ row' = row
              \/ /\ SetsText(r) /\ exists' = exists /\ row'.text = change[r].text
                 /\ userText' = change[r].text
              \/ /\ exists' = exists /\ row'.text = row.text /\ userText' = userText
<1>1. row \in Row /\ change[r] \in Change /\ op[r] \in Routes
  BY DEF TypeOK
<1>2. CASE op[r] = "create_note"
  BY <1>2 DEF Commit, SetsText
<1>3. CASE op[r] = "delete_note"
  BY <1>3 DEF Commit, SetsText
<1>4. CASE SetsText(r)
  <2>1. op[r] = "update_note" /\ "text" \in DOMAIN change[r]
    BY <1>4 DEF SetsText
  <2>2. exists' = exists /\ row' = Updated(row, change[r]) /\ userText' = change[r].text
    BY <1>4, <2>1 DEF Commit
  <2>3. QED
    BY <1>1, <1>4, <2>1, <2>2, UpdatedRow
<1>5. CASE op[r] \notin {"create_note", "delete_note"} /\ ~SetsText(r)
  <2>1. "text" \notin DOMAIN change[r]
    BY <1>1, <1>5 DEF RequestInv, Routed, SetsText, Routes
  <2>2. exists' = exists /\ row' = Updated(row, change[r]) /\ userText' = userText
    BY <1>5 DEF Commit
  <2>3. QED
    BY <1>1, <2>1, <2>2, UpdatedRow
<1>6. QED
  BY <1>2, <1>3, <1>4, <1>5

\* The worker writes columns of its own, never the text.
LEMMA WorkerKeepsText ==
    ASSUME TypeOK
    PROVE  /\ \A c \in Categories :
                Classified(c).text = row.text /\ Classified(c).vector = row.vector
           /\ Embedded.text = row.text /\ Embedded.vector = snap.text
           /\ [row EXCEPT !.embedding_status = "failed"].text = row.text
           /\ [row EXCEPT !.embedding_status = "failed"].vector = row.vector
BY DEF TypeOK, Row, Classified, Embedded

LEMMA NextUserTextStands ==
    TypeOK /\ RequestInv /\ UserTextStands /\ [Next]_vars => UserTextStands'
<1> SUFFICES ASSUME TypeOK, RequestInv, UserTextStands, [Next]_vars
             PROVE  UserTextStands'
  OBVIOUS
<1>1. ASSUME NEW r \in Requests, NEW t \in Texts, NEW c \in Categories, CreateNote(r, t, c)
      PROVE  UserTextStands'
  BY <1>1 DEF CreateNote, RequestInv, Begun, UserTextStands
<1>2. ASSUME NEW r \in Requests, FetchNote(r)
      PROVE  UserTextStands'
  <2>1. UNCHANGED <<exists, row, userText>>
    BY <1>2, FetchCases DEF Fetch
  <2>2. QED
    BY <2>1 DEF UserTextStands
<1>3. ASSUME NEW r \in Requests, Commit(r)
      PROVE  UserTextStands'
  <2>1. CASE op[r] = "create_note" /\ exists' /\ row' = row /\ userText' = row.text
    BY <2>1 DEF UserTextStands
  <2>2. CASE op[r] = "delete_note" /\ ~exists' /\ row' = row
    BY <2>2 DEF UserTextStands
  <2>3. CASE /\ SetsText(r) /\ exists' = exists /\ row'.text = change[r].text
             /\ userText' = change[r].text
    BY <2>3 DEF UserTextStands
  <2>4. CASE exists' = exists /\ row'.text = row.text /\ userText' = userText
    BY <2>4 DEF UserTextStands
  <2>5. QED
    BY <1>3, <2>1, <2>2, <2>3, <2>4, CommitEffect
<1>4. ASSUME NEW r \in Requests,
             \/ LlmAnswers(r) \/ Write(r) \/ Publish(r) \/ PublishFails(r)
             \/ RecordFeedback(r) \/ CommitMissed(r) \/ Abort(r)
      PROVE  UserTextStands'
  BY <1>4 DEF LlmAnswers, Write, Publish, PublishFails, RecordFeedback, CommitMissed,
              Abort, UserTextStands
<1>5. ASSUME NEW t \in Topics, Take(t) \/ LoseTask(t)
      PROVE  UserTextStands'
  BY <1>5 DEF Take, LoseTask, UserTextStands
<1>6. ASSUME NEW c \in Categories, Classify(c)
      PROVE  UserTextStands'
  BY <1>6, WorkerKeepsText DEF Classify, UserTextStands
<1>7. CASE Embed
  BY <1>7, WorkerKeepsText DEF Embed, UserTextStands
<1>8. CASE EmbedRefused
  BY <1>8, WorkerKeepsText DEF EmbedRefused, UserTextStands
<1>9. CASE HandlerFails \/ PushBackfill \/ UNCHANGED vars
  BY <1>9 DEF HandlerFails, PushBackfill, vars, UserTextStands
<1>10. QED
  BY <1>1, <1>2, <1>3, <1>4, <1>5, <1>6, <1>7, <1>8, <1>9 DEF Next, RequestStep, WorkerStep

\* No result of the worker undoes a committed edit.
THEOREM EditsStand == Spec => []UserTextStands
<1>1. Init => UserTextStands
  BY DEF Init, UserTextStands
<1>2. QED
  BY <1>1, InitTypeOK, NextTypeOK, InitRequestInv, NextRequestInv, NextUserTextStands,
     PTL DEF Spec

(***************************************************************************)
(* Embeddings.  An early publication, one whose text is not committed yet, *)
(* has a task in the queue, and without a task in the queue the vector, or *)
(* the text a running handler loaded, is the row's.                        *)
(***************************************************************************)
EmbedInv ==
    ~excused =>
        /\ Early => queued["embed"] > 0
        /\ exists /\ queued["embed"] = 0 =>
             IF work = "embed" THEN snap.text = row.text ELSE row.vector = row.text

EarlyBy(r) ==
    /\ pc[r] \in {"publish", "commit"}
    /\ op[r] = "create_note" \/ EditsText(r)
    /\ "embed" \notin unsent[r]

LEMMA EarlyStep ==
    ASSUME NEW r \in Requests, StepOf(r), Early', ~EarlyBy(r)'
    PROVE  Early
<1>1. PICK s \in Requests : EarlyBy(s)'
  BY DEF Early, EarlyBy, EditsText, SetsText
<1>2. s # r
  BY <1>1
<1>3. EarlyBy(s)
  BY <1>1, <1>2 DEF StepOf, EarlyBy, EditsText, SetsText
<1>4. QED
  BY <1>3 DEF Early, EarlyBy

\* A step of a request that publishes nothing and commits nothing.
LEMMA RequestKeepsEmbed ==
    ASSUME EmbedInv, NEW r \in Requests, StepOf(r), ~EarlyBy(r)' \/ EarlyBy(r),
           UNCHANGED <<exists, row, queued, workerVars, excused>>
    PROVE  EmbedInv'
<1>1. Early' => Early
  BY EarlyStep DEF Early, EarlyBy
<1>2. QED
  BY <1>1 DEF EmbedInv

\* Early is about the requests alone.
LEMMA EarlyUnchanged ==
    ASSUME UNCHANGED requestVars
    PROVE  Early' = Early
BY DEF Early, EditsText, SetsText

LEMMA InitEmbedInv == Init => EmbedInv
BY DEF Init, EmbedInv, Early

LEMMA NextEmbedInv == TypeOK /\ RequestInv /\ EmbedInv /\ [Next]_vars => EmbedInv'
<1> SUFFICES ASSUME TypeOK, RequestInv, EmbedInv, [Next]_vars
             PROVE  EmbedInv'
  OBVIOUS
<1>q. queued \in [Topics -> Nat] /\ "embed" \in Topics
  BY DEF TypeOK, Topics
<1>1. ASSUME NEW r \in Requests, NEW t \in Texts, NEW c \in Categories, CreateNote(r, t, c)
      PROVE  EmbedInv'
  <2>1. ~exists /\ ~exists'
    BY <1>1 DEF CreateNote, RequestInv, Begun
  <2>2. StepOf(r) /\ "embed" \in unsent'[r] /\ UNCHANGED <<queued, excused>>
    BY <1>1 DEF CreateNote, TypeOK, StepOf, Goto
  <2>3. Early' => Early
    BY <2>2, EarlyStep DEF EarlyBy
  <2>4. QED
    BY <2>1, <2>2, <2>3 DEF EmbedInv
<1>2. ASSUME NEW r \in Requests, FetchNote(r)
      PROVE  EmbedInv'
  <2>1. PICK route \in Routes \ {"create_note"}, c \in Change, l \in {"llm", "write"} :
             Fetch(r, route, c, l)
    BY <1>2, FetchCases
  <2>2. /\ StepOf(r) /\ pc'[r] = l
        /\ UNCHANGED <<exists, row, queued, workerVars, excused>>
    BY <2>1 DEF Fetch, TypeOK, StepOf, Goto
  <2>3. ~EarlyBy(r)'
    BY <2>2 DEF EarlyBy
  <2>4. QED
    BY <2>2, <2>3, RequestKeepsEmbed
<1>3. ASSUME NEW r \in Requests, LlmAnswers(r)
      PROVE  EmbedInv'
  <2>1. /\ StepOf(r) /\ pc'[r] = "write"
        /\ UNCHANGED <<exists, row, queued, workerVars, excused>>
    BY <1>3 DEF LlmAnswers, TypeOK, StepOf, Goto
  <2>2. ~EarlyBy(r)'
    BY <2>1 DEF EarlyBy
  <2>3. QED
    BY <2>1, <2>2, RequestKeepsEmbed
<1>4. ASSUME NEW r \in Requests, Write(r)
      PROVE  EmbedInv'
  <2>1. /\ pc[r] = "write" /\ unsent'[r] = (IF EditsText(r) THEN {"embed"} ELSE {})
        /\ UNCHANGED <<op, seen, change, exists, row, queued, workerVars, excused>>
    BY <1>4 DEF Write, TypeOK
  <2>2. StepOf(r)
    BY <1>4, AfterWriteCases DEF Write, TypeOK, StepOf, Goto
  <2>3. op[r] # "create_note"
    BY <2>1 DEF RequestInv, Routed
  <2>4. EditsText(r)' = EditsText(r)
    BY <2>1 DEF EditsText, SetsText
  <2>5. ~EarlyBy(r)'
    BY <2>1, <2>3, <2>4 DEF EarlyBy
  <2>6. QED
    BY <2>1, <2>2, <2>5, RequestKeepsEmbed
<1>5. ASSUME NEW r \in Requests, Publish(r)
      PROVE  EmbedInv'
  <2>1. /\ StepOf(r) /\ pc[r] = "publish"
        /\ UNCHANGED <<op, seen, change, exists, row, workerVars, excused>>
        /\ queued' = [queued EXCEPT ![NextTopic(r)] = @ + 1]
        /\ unsent'[r] = unsent[r] \ {NextTopic(r)}
    BY <1>5 DEF Publish, TypeOK, StepOf, Goto
  <2>2. CASE NextTopic(r) = "embed"
    <3>1. queued'["embed"] > 0
      BY <1>q, <2>1, <2>2
    <3>2. QED
      BY <3>1 DEF EmbedInv
  <2>3. CASE NextTopic(r) = "classify"
    <3>1. queued'["embed"] = queued["embed"]
      BY <1>q, <2>1, <2>3
    <3>2. EarlyBy(r)' => EarlyBy(r)
      BY <2>1, <2>3 DEF EarlyBy, EditsText, SetsText
    <3>3. Early' => Early
      BY <2>1, <3>2, EarlyStep DEF Early, EarlyBy
    <3>4. QED
      BY <2>1, <3>1, <3>3 DEF EmbedInv
  <2>4. QED
    BY <2>2, <2>3 DEF NextTopic
<1>6. ASSUME NEW r \in Requests, PublishFails(r)
      PROVE  EmbedInv'
  BY <1>6 DEF PublishFails, EmbedInv
<1>7. ASSUME NEW r \in Requests, RecordFeedback(r)
      PROVE  EmbedInv'
  <2>1. /\ StepOf(r) /\ pc[r] = "feedback"
        /\ UNCHANGED <<op, seen, change, exists, row, queued, workerVars, excused>>
    BY <1>7 DEF RecordFeedback, TypeOK, StepOf, Goto
  <2>2. op[r] = "move_note"
    BY <2>1 DEF RequestInv, Routed, ChangesCategory
  <2>3. ~EarlyBy(r)'
    BY <2>1, <2>2 DEF EarlyBy, EditsText, SetsText
  <2>4. QED
    BY <2>1, <2>3, RequestKeepsEmbed
<1>8. ASSUME NEW r \in Requests, Commit(r)
      PROVE  EmbedInv'
  <2>1. /\ End(r) /\ pc[r] = "commit" /\ UNCHANGED <<queued, workerVars>>
        /\ excused' = (excused \/ (row'.text # row.text /\ ~EditsText(r)))
    BY <1>8 DEF Commit
  <2>2. ~EarlyBy(r)'
    BY <2>1, EndStep DEF EarlyBy
  <2>3. Early' => Early
    BY <2>1, <2>2, EndStep, EarlyStep
  <2>4. unsent[r] = {}
    BY <2>1 DEF RequestInv, Routed
  <2>5. op[r] = "create_note" \/ EditsText(r) => Early
    BY <2>1, <2>4 DEF Early
  <2>6. /\ row'.vector = row.vector
        /\ \/ op[r] = "create_note" \/ ~exists' \/ EditsText(r)
           \/ exists' = exists /\ (row'.text = row.text \/ excused')
    BY <1>8, <2>1, CommitEffect DEF EditsText
  <2>7. ~excused' => ~excused
    BY <2>1
  <2>8. CASE op[r] = "create_note" \/ EditsText(r)
    <3>1. ~excused' => queued["embed"] > 0
      BY <2>5, <2>7, <2>8 DEF EmbedInv
    <3>2. ~excused' => queued'["embed"] > 0 /\ queued'["embed"] # 0
      BY <1>q, <2>1, <3>1
    <3>3. QED
      BY <3>2 DEF EmbedInv
  <2>9. CASE ~exists' \/ (exists' = exists /\ (row'.text = row.text \/ excused'))
    <3>1. UNCHANGED <<queued, work, snap>>
      BY <2>1
    <3>2. CASE ~exists'
      BY <2>3, <2>7, <3>1, <3>2 DEF EmbedInv
    <3>3. CASE exists' = exists /\ row'.text = row.text
      BY <2>3, <2>6, <2>7, <3>1, <3>3 DEF EmbedInv
    <3>4. CASE excused'
      BY <3>4 DEF EmbedInv
    <3>5. QED
      BY <2>9, <3>2, <3>3, <3>4
  <2>10. QED
    BY <2>6, <2>8, <2>9
<1>9. ASSUME NEW r \in Requests, CommitMissed(r) \/ Abort(r)
      PROVE  EmbedInv'
  <2>1. End(r) /\ UNCHANGED <<exists, row, queued, workerVars, excused>>
    BY <1>9 DEF CommitMissed, Abort
  <2>2. ~EarlyBy(r)'
    BY <2>1, EndStep DEF EarlyBy
  <2>3. QED
    BY <2>1, <2>2, EndStep, RequestKeepsEmbed
<1>10. ASSUME NEW t \in Topics, Take(t)
       PROVE  EmbedInv'
  <2>1. /\ work = "none" /\ queued[t] > 0 /\ queued' = [queued EXCEPT ![t] = @ - 1]
        /\ UNCHANGED <<rowVars, requestVars>>
        /\ excused' = (excused \/ (t = "embed" /\ queued[t] = 1 /\ Early))
    BY <1>10 DEF Take
  <2>2. exists /\ t # "backfill" => work' = t /\ snap' = row
    BY <1>10 DEF Take, Load
  <2>3. exists /\ t = "backfill" => UNCHANGED workerVars
    BY <1>10 DEF Take
  <2>4. Early' = Early
    BY <2>1, EarlyUnchanged
  <2>5. CASE t = "embed"
    <3>1. queued["embed"] = 1 \/ queued'["embed"] > 0
      BY <1>q, <2>1, <2>5
    <3>2. ~excused' => ~excused /\ (Early => queued["embed"] # 1)
      BY <2>1, <2>5
    <3>3. ~excused' => (Early' => queued'["embed"] > 0)
      BY <2>4, <3>1, <3>2
    <3>4. exists' => work' = "embed" /\ snap' = row /\ row' = row
      BY <2>1, <2>2, <2>5
    <3>5. QED
      BY <3>3, <3>4 DEF EmbedInv
  <2>6. CASE t # "embed"
    <3>1. queued'["embed"] = queued["embed"]
      BY <1>q, <2>1, <2>6
    <3>2. exists => work' # "embed"
      BY <2>1, <2>2, <2>3, <2>6
    <3>3. QED
      BY <2>1, <2>4, <3>1, <3>2 DEF EmbedInv
  <2>7. QED
    BY <2>5, <2>6
<1>11. ASSUME NEW c \in Categories, Classify(c)
       PROVE  EmbedInv'
  <2>1. /\ work = "classify" /\ work' = "none"
        /\ UNCHANGED <<exists, requestVars, queued, excused>>
        /\ row'.text = row.text /\ row'.vector = row.vector
    BY <1>11, WorkerKeepsText DEF Classify, Idle
  <2>2. QED
    BY <2>1, EarlyUnchanged DEF EmbedInv
<1>12. CASE Embed
  <2>1. /\ work = "embed" /\ work' = "none" /\ UNCHANGED <<exists, requestVars, queued>>
        /\ excused' = (excused /\ (snap.text # row.text \/ Early))
        /\ exists => row'.text = row.text /\ row'.vector = snap.text
    BY <1>12, WorkerKeepsText DEF Embed, Idle
  <2>2. Early' = Early
    BY <2>1, EarlyUnchanged
  <2>3. CASE ~excused
    BY <2>1, <2>2, <2>3 DEF EmbedInv
  <2>4. CASE excused /\ snap.text = row.text /\ ~Early
    BY <2>1, <2>2, <2>4 DEF EmbedInv
  <2>5. QED
    BY <2>1, <2>3, <2>4 DEF EmbedInv
<1>13. CASE EmbedRefused
  <2>1. /\ work = "embed" /\ work' = "none" /\ UNCHANGED <<exists, requestVars, queued>>
        /\ excused' = (excused \/ queued["embed"] = 0)
    BY <1>13 DEF EmbedRefused, Idle
  <2>2. QED
    BY <2>1, EarlyUnchanged DEF EmbedInv
<1>14. CASE HandlerFails
  <2>1. /\ work' = "none" /\ UNCHANGED <<rowVars, requestVars, queued>>
        /\ excused' = (excused \/ (work = "embed" /\ queued["embed"] = 0))
    BY <1>14 DEF HandlerFails, Idle
  <2>2. QED
    BY <2>1, EarlyUnchanged DEF EmbedInv
<1>15. ASSUME NEW t \in Topics, LoseTask(t)
       PROVE  EmbedInv'
  <2>1. /\ queued[t] > 0 /\ queued' = [queued EXCEPT ![t] = @ - 1]
        /\ UNCHANGED <<rowVars, requestVars, workerVars>>
        /\ excused' = (excused \/ (t = "embed" /\ queued[t] = 1))
    BY <1>15 DEF LoseTask
  <2>2. ~excused' => ~excused /\ (queued'["embed"] = queued["embed"] \/ queued'["embed"] > 0)
    <3>1. CASE t = "embed"
      <4>1. queued["embed"] # 1 => queued'["embed"] > 0
        BY <1>q, <2>1, <3>1
      <4>2. QED
        BY <2>1, <3>1, <4>1
    <3>2. CASE t # "embed"
      <4>1. queued'["embed"] = queued["embed"]
        BY <1>q, <2>1, <3>2
      <4>2. QED
        BY <2>1, <4>1
    <3>3. QED
      BY <3>1, <3>2
  <2>3. QED
    BY <1>q, <2>1, <2>2, EarlyUnchanged DEF EmbedInv
<1>16. CASE PushBackfill
  <2>1. /\ queued'["embed"] = queued["embed"]
        /\ UNCHANGED <<rowVars, requestVars, workerVars, excused>>
    BY <1>16, <1>q DEF PushBackfill
  <2>2. QED
    BY <2>1, EarlyUnchanged DEF EmbedInv
<1>17. CASE UNCHANGED vars
  BY <1>17, EarlyUnchanged DEF vars, EmbedInv
<1>18. QED
  BY <1>1, <1>2, <1>3, <1>4, <1>5, <1>6, <1>7, <1>8, <1>9, <1>10, <1>11, <1>12,
     <1>13, <1>14, <1>15, <1>16, <1>17 DEF Next, RequestStep, WorkerStep

\* A vector that is not the text's has a task on its way or one of the named
\* causes.
THEOREM StaleHasCause == Spec => []StaleNeedsCause
<1>1. TypeOK /\ EmbedInv => StaleNeedsCause
  <2> SUFFICES ASSUME TypeOK, EmbedInv, Stale, ~excused, ~(queued["embed"] > 0)
               PROVE  work = "embed" /\ snap.text = row.text
    BY DEF StaleNeedsCause
  <2>1. queued["embed"] = 0
    BY DEF TypeOK, Topics
  <2>2. QED
    BY <2>1 DEF EmbedInv, Stale
<1>2. QED
  BY <1>1, InitTypeOK, NextTypeOK, InitRequestInv, NextRequestInv, InitEmbedInv,
     NextEmbedInv, PTL DEF Spec


(***************************************************************************)
(* Feedback.  A correction recorded for a move on its way was recorded by  *)
(* a request that found the row.                                           *)
(***************************************************************************)
Moving == {r \in Requests : pc[r] = "commit" /\ ChangesCategory(r) /\ hit[r]}

FeedbackPaid == feedback <= moves + faults + Cardinality(Moving)

LEMMA MovingSize ==
    /\ IsFiniteSet(Moving) /\ Cardinality(Moving) \in Nat
    /\ IsFiniteSet(Moving') /\ Cardinality(Moving') \in Nat
<1>1. Moving \in SUBSET Requests /\ Moving' \in SUBSET Requests
  BY DEF Moving
<1>2. QED
  BY <1>1, NoteAssumption, FS_Subset, FS_CardinalityType

\* A step that keeps the moves on their way, recording nothing and committing
\* nothing, or takes one away and pays for it.
LEMMA MovingGrows ==
    ASSUME TypeOK, FeedbackPaid, Moving \subseteq Moving',
           feedback' = feedback, moves' = moves, faults' \in Nat, faults' >= faults
    PROVE  FeedbackPaid'
<1>1. Cardinality(Moving) <= Cardinality(Moving')
  BY MovingSize, FS_Subset
<1>2. feedback \in Nat /\ moves \in Nat /\ faults \in Nat
  BY NoteAssumption DEF TypeOK
<1>3. QED
  BY <1>1, <1>2, MovingSize DEF FeedbackPaid

LEMMA MovingLosesOne ==
    ASSUME TypeOK, FeedbackPaid, NEW r \in Moving, Moving \ {r} \subseteq Moving',
           feedback' = feedback, moves' \in Nat, faults' \in Nat,
           moves' + faults' >= moves + faults + 1
    PROVE  FeedbackPaid'
<1>1. Cardinality(Moving \ {r}) = Cardinality(Moving) - 1 /\ IsFiniteSet(Moving \ {r})
  BY MovingSize, FS_RemoveElement
<1>2. Cardinality(Moving \ {r}) <= Cardinality(Moving')
  BY <1>1, MovingSize, FS_Subset
<1>3. feedback \in Nat /\ moves \in Nat /\ faults \in Nat
  BY NoteAssumption DEF TypeOK
<1>4. Cardinality(Moving) <= Cardinality(Moving') + 1
  BY <1>1, <1>2, MovingSize
<1>5. feedback <= moves + faults + Cardinality(Moving)
  BY DEF FeedbackPaid
<1>6. \A a, b, c, d, e, n, k \in Nat :
        a <= b + c + n /\ n <= k + 1 /\ d + e >= b + c + 1 => a <= d + e + k
  OBVIOUS
<1>7. feedback' <= moves' + faults' + Cardinality(Moving')
  BY <1>3, <1>4, <1>5, <1>6, MovingSize
<1>8. QED
  BY <1>7 DEF FeedbackPaid

LEMMA MovingGainsOne ==
    ASSUME TypeOK, FeedbackPaid, NEW r, r \notin Moving, Moving \cup {r} \subseteq Moving',
           feedback' \in Nat, feedback' <= feedback + 1, moves' = moves, faults' = faults
    PROVE  FeedbackPaid'
<1>1. /\ Cardinality(Moving \cup {r}) = Cardinality(Moving) + 1
      /\ IsFiniteSet(Moving \cup {r})
  BY MovingSize, FS_AddElement
<1>2. Cardinality(Moving \cup {r}) <= Cardinality(Moving')
  BY <1>1, MovingSize, FS_Subset
<1>3. feedback \in Nat /\ moves \in Nat /\ faults \in Nat
  BY NoteAssumption DEF TypeOK
<1>4. QED
  BY <1>1, <1>2, <1>3, MovingSize DEF FeedbackPaid

\* The other requests' moves are still on their way.
LEMMA MovingOthers ==
    ASSUME NEW r \in Requests, StepOf(r)
    PROVE  Moving \ {r} \subseteq Moving'
BY DEF StepOf, Moving, ChangesCategory

LEMMA NextFeedbackPaid ==
    TypeOK /\ RequestInv /\ FeedbackPaid /\ [Next]_vars => FeedbackPaid'
<1> SUFFICES ASSUME TypeOK, RequestInv, FeedbackPaid, [Next]_vars
             PROVE  FeedbackPaid'
  OBVIOUS
<1>t. TypeOK'
  BY NextTypeOK
<1>n. /\ faults \in Nat /\ faults' \in Nat /\ moves \in Nat /\ moves' \in Nat
      /\ feedback \in Nat /\ feedback' \in Nat
  BY <1>t, NoteAssumption DEF TypeOK
<1>1. ASSUME NEW r \in Requests, StepOf(r), r \notin Moving, UNCHANGED <<feedback, moves>>,
             faults' >= faults
      PROVE  FeedbackPaid'
  <2>1. Moving \subseteq Moving'
    BY <1>1, MovingOthers
  <2>2. QED
    BY <1>1, <1>n, <2>1, MovingGrows
<1>2. ASSUME NEW r \in Requests, NEW t \in Texts, NEW c \in Categories, CreateNote(r, t, c)
      PROVE  FeedbackPaid'
  <2>1. StepOf(r) /\ pc[r] = "new" /\ UNCHANGED <<feedback, moves, faults>>
    BY <1>2 DEF CreateNote, TypeOK, StepOf, Goto
  <2>2. QED
    BY <1>1, <1>n, <2>1 DEF Moving
<1>3. ASSUME NEW r \in Requests, FetchNote(r)
      PROVE  FeedbackPaid'
  <2>1. PICK route \in Routes \ {"create_note"}, c \in Change, l \in {"llm", "write"} :
             Fetch(r, route, c, l)
    BY <1>3, FetchCases
  <2>2. StepOf(r) /\ pc[r] = "new" /\ UNCHANGED <<feedback, moves, faults>>
    BY <2>1 DEF Fetch, TypeOK, StepOf, Goto
  <2>3. QED
    BY <1>1, <1>n, <2>2 DEF Moving
<1>4. ASSUME NEW r \in Requests, LlmAnswers(r)
      PROVE  FeedbackPaid'
  <2>1. StepOf(r) /\ pc[r] = "llm" /\ UNCHANGED <<feedback, moves, faults>>
    BY <1>4 DEF LlmAnswers, TypeOK, StepOf, Goto
  <2>2. QED
    BY <1>1, <1>n, <2>1 DEF Moving
<1>5. ASSUME NEW r \in Requests, Write(r)
      PROVE  FeedbackPaid'
  <2>1. StepOf(r) /\ pc[r] = "write" /\ UNCHANGED <<feedback, moves, faults>>
    BY <1>5, AfterWriteCases DEF Write, TypeOK, StepOf, Goto
  <2>2. QED
    BY <1>1, <1>n, <2>1 DEF Moving
<1>6. ASSUME NEW r \in Requests, Publish(r)
      PROVE  FeedbackPaid'
  <2>1. StepOf(r) /\ pc[r] = "publish" /\ UNCHANGED <<feedback, moves, faults>>
    BY <1>6 DEF Publish, TypeOK, StepOf, Goto
  <2>2. QED
    BY <1>1, <1>n, <2>1 DEF Moving
<1>7. ASSUME NEW r \in Requests, PublishFails(r)
      PROVE  FeedbackPaid'
  <2>1. StepOf(r) /\ pc[r] = "publish" /\ faults' = faults + 1 /\ UNCHANGED <<feedback, moves>>
    BY <1>7 DEF PublishFails, TypeOK, StepOf, Goto
  <2>2. QED
    BY <1>1, <1>n, <2>1 DEF Moving
<1>8. ASSUME NEW r \in Requests, RecordFeedback(r)
      PROVE  FeedbackPaid'
  <2>1. /\ StepOf(r) /\ pc[r] = "feedback" /\ pc'[r] = "commit"
        /\ UNCHANGED <<exists, op, seen, change, hit, moves, faults>>
        /\ feedback' = IF exists THEN feedback + 1 ELSE feedback
    BY <1>8 DEF RecordFeedback, Recorded, TypeOK, StepOf, Goto
  <2>2. ChangesCategory(r) /\ (~hit[r] => ~exists)
    BY <2>1 DEF RequestInv, Routed, Located
  <2>3. r \notin Moving
    BY <2>1 DEF Moving
  <2>4. CASE exists
    <3>1. r \in Moving'
      BY <2>1, <2>2, <2>4 DEF Moving, ChangesCategory
    <3>2. Moving \cup {r} \subseteq Moving'
      BY <2>1, <3>1, MovingOthers
    <3>3. feedback' <= feedback + 1
      BY <1>n, <2>1
    <3>4. QED
      BY <1>n, <2>1, <2>3, <3>2, <3>3, MovingGainsOne
  <2>5. CASE ~exists
    BY <1>1, <1>n, <2>1, <2>3, <2>5
  <2>6. QED
    BY <2>4, <2>5
<1>9. ASSUME NEW r \in Requests, Commit(r)
      PROVE  FeedbackPaid'
  <2>1. /\ StepOf(r) /\ pc[r] = "commit" /\ hit[r] /\ UNCHANGED <<feedback, faults>>
        /\ moves' = IF ChangesCategory(r) THEN moves + 1 ELSE moves
    BY <1>9, EndStep DEF Commit
  <2>2. CASE ChangesCategory(r)
    <3>1. r \in Moving
      BY <2>1, <2>2 DEF Moving
    <3>2. moves' + faults' >= moves + faults + 1
      BY <1>n, <2>1, <2>2
    <3>3. QED
      BY <1>n, <2>1, <3>1, <3>2, MovingOthers, MovingLosesOne
  <2>3. CASE ~ChangesCategory(r)
    BY <1>1, <1>n, <2>1, <2>3 DEF Moving
  <2>4. QED
    BY <2>2, <2>3
<1>10. ASSUME NEW r \in Requests, CommitMissed(r)
       PROVE  FeedbackPaid'
  <2>1. StepOf(r) /\ ~hit[r] /\ UNCHANGED <<feedback, moves, faults>>
    BY <1>10, EndStep DEF CommitMissed
  <2>2. QED
    BY <1>1, <1>n, <2>1 DEF Moving
<1>11. ASSUME NEW r \in Requests, Abort(r)
       PROVE  FeedbackPaid'
  <2>1. StepOf(r) /\ faults' = faults + 1 /\ UNCHANGED <<feedback, moves>>
    BY <1>11, EndStep DEF Abort
  <2>2. CASE r \in Moving
    <3>1. moves' + faults' >= moves + faults + 1
      BY <1>n, <2>1
    <3>2. QED
      BY <1>n, <2>1, <2>2, <3>1, MovingOthers, MovingLosesOne
  <2>3. CASE r \notin Moving
    BY <1>1, <1>n, <2>1, <2>3
  <2>4. QED
    BY <2>2, <2>3
<1>12. ASSUME UNCHANGED <<pc, op, seen, change, hit, feedback, moves>>, faults' >= faults
       PROVE  FeedbackPaid'
  <2>1. Moving \subseteq Moving'
    BY <1>12 DEF Moving, ChangesCategory
  <2>2. QED
    BY <1>12, <1>n, <2>1, MovingGrows
<1>13. ASSUME NEW t \in Topics, Take(t) \/ LoseTask(t)
       PROVE  FeedbackPaid'
  BY <1>12, <1>13, <1>n DEF Take, LoseTask
<1>14. ASSUME NEW c \in Categories, Classify(c)
       PROVE  FeedbackPaid'
  BY <1>12, <1>14, <1>n DEF Classify
<1>15. CASE Embed \/ EmbedRefused \/ HandlerFails \/ PushBackfill \/ UNCHANGED vars
  BY <1>12, <1>15, <1>n DEF Embed, EmbedRefused, HandlerFails, PushBackfill, vars
<1>16. QED
  BY <1>2, <1>3, <1>4, <1>5, <1>6, <1>7, <1>8, <1>9, <1>10, <1>11, <1>13, <1>14, <1>15
     DEF Next, RequestStep, WorkerStep

\* A recorded correction belongs to a move, but for a request that died.
THEOREM FeedbackHasMove == Spec => []FeedbackNeedsMove
<1>1. Init => FeedbackPaid
  <2> SUFFICES ASSUME Init
               PROVE  FeedbackPaid
    OBVIOUS
  <2>1. Moving = {}
    BY DEF Init, Moving
  <2>2. QED
    BY <2>1, FS_EmptySet DEF Init, FeedbackPaid
<1>2. TypeOK /\ FeedbackPaid => FeedbackNeedsMove
  <2> SUFFICES ASSUME TypeOK, FeedbackPaid
               PROVE  FeedbackNeedsMove
    OBVIOUS
  <2> DEFINE Done == {r \in Requests : pc[r] = "commit" /\ ChangesCategory(r)}
  <2>1. Moving \subseteq Done /\ Done \subseteq Requests
    BY DEF Moving
  <2>2. IsFiniteSet(Done) /\ Cardinality(Done) \in Nat
    BY <2>1, NoteAssumption, FS_Subset, FS_CardinalityType
  <2>3. Cardinality(Moving) <= Cardinality(Done)
    BY <2>1, <2>2, FS_Subset
  <2>4. feedback \in Nat /\ moves \in Nat /\ faults \in Nat
    BY NoteAssumption DEF TypeOK
  <2>5. feedback <= moves + faults + Cardinality(Done)
    BY <2>2, <2>3, <2>4, MovingSize DEF FeedbackPaid
  <2>6. QED
    BY <2>5 DEF FeedbackNeedsMove
<1>3. QED
  BY <1>1, <1>2, InitTypeOK, NextTypeOK, InitRequestInv, NextRequestInv, NextFeedbackPaid,
     PTL DEF Spec
=============================================================================
