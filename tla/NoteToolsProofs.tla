--------------------------- MODULE NoteToolsProofs ---------------------------
(***************************************************************************)
(* Theorems about NoteTools by itself, for every set of callers, tools and *)
(* categories and every bound: the calls of the tools, the bot and the     *)
(* workers interleave in any order.                                        *)
(***************************************************************************)
EXTENDS NoteTools, FiniteSetTheorems, TLAPS

ToolsSpec == ToolsInit /\ [][ToolsNext]_toolVars

(***************************************************************************)
(* Types.  A call is free, is about to load its note, is about to commit,  *)
(* or links.                                                               *)
(***************************************************************************)
ToolNames == {"para_move", "para_archive", "para_complete", "para_delete", "para_update",
              "para_reclassify", "/move", "/done"}

LoadCall(t) == [tool : {t}, note : Ids, wants : Requests(t), stage : {"load"}]

CommitCall(t) ==
    [tool : {t}, note : Ids, wants : Requests(t), stage : {"commit"}, seen : NoteRow]

LinkCall == [tool : {"link"}, note : Ids, stage : {"check"}, todo : SUBSET Ids, fresh : SUBSET Ids]

CallOK(k) ==
    \/ k = Free
    \/ \E t \in ToolNames : k \in LoadCall(t) \/ k \in CommitCall(t)
    \/ k \in LinkCall /\ k.note \notin k.todo \cup k.fresh

SaidRow == [category : Categories \cup {"inbox", "archives", "-"}, due : Nat]

TypesOK ==
    /\ store \in {"pg", "sqlite"} /\ tools \in ToolsTogether
    /\ note \in [Ids -> NoteRow] /\ said \in [Ids -> SaidRow] /\ made \in Written..MaxNotes
    /\ crossed \subseteq Ids /\ untold \subseteq Ids /\ asked \in 0..MaxCalls
    /\ auto \in [Pairs -> Nat] /\ hand \in [Pairs -> Nat]

\* Beyond the ids that were given nothing is there yet, and nothing was said.
UnusedBeyond == \A i \in Ids : i > made => note[i] = Unused /\ said[i] = Unsaid

CallsOK == DOMAIN call = Callers /\ \A c \in Callers : CallOK(call[c])

(***************************************************************************)
(* Links.  A handler that holds a pair as fresh found the two notes        *)
(* without a link, so the links made and those still to be made are at     *)
(* most as many as the handlers that were at work at once.                 *)
(***************************************************************************)
Linkers == {c \in Callers : call[c].tool = "link"}

Holds(k, i, j) ==
    k.tool = "link" /\ ((k.note = i /\ j \in k.fresh) \/ (k.note = j /\ i \in k.fresh))
Holders(i, j) == {c \in Callers : Holds(call[c], i, j)}

LinkersCounted == IsFiniteSet(Linkers) /\ peak \in Nat /\ Cardinality(Linkers) <= peak

PairsCounted ==
    \A i, j \in Ids : i # j => auto[<<i, j>>] + auto[<<j, i>>] + Cardinality(Holders(i, j)) <= peak

ToolsInv ==
    TypesOK /\ UnusedBeyond /\ CallsOK /\ HistoryAgrees /\ LinkersCounted /\ PairsCounted

(***************************************************************************)
(* What the tools ask for.                                                 *)
(***************************************************************************)
WantsOK(w) ==
    /\ DOMAIN w \subseteq {"category", "status", "put", "due"}
    /\ "category" \in DOMAIN w => w.category \in Categories \cup {"archives"}
    /\ "status" \in DOMAIN w => w.status \in {"completed", "archived"}
    /\ "put" \in DOMAIN w => w.put = TRUE
    /\ "due" \in DOMAIN w => w.due \in Nat

LEMMA Bounds ==
    /\ MaxNotes \in Nat /\ Today \in Nat \ {0} /\ Interval \in Nat \ {0} /\ MaxCalls \in Nat \ {0}
    /\ Written \in Nat /\ Ids \subseteq Nat
    /\ \A d \in Days : d \in Nat
BY ToolsAssumption DEF Ids

LEMMA RequestsAre ==
    ASSUME NEW t, NEW w \in Requests(t)
    PROVE  /\ t \in ToolNames
           /\ \/ \E c \in Categories : w = Moves(c)
              \/ w = Archives \/ w = Completes \/ w = Deletes
              \/ \E d \in Days : w = Updates(d)
              \/ \E c \in Categories, d \in {0} \cup Days : w = Reclassifies(c, d)
<1>1. w \in PlaceRequests(t) \/ w \in EditRequests(t) \/ w \in BotRequests(t)
  BY DEF Requests
<1>2. CASE w \in PlaceRequests(t)
  BY <1>2 DEF PlaceRequests, ToolNames
<1>3. CASE w \in EditRequests(t)
  BY <1>3 DEF EditRequests, ToolNames
<1>4. CASE w \in BotRequests(t)
  BY <1>4 DEF BotRequests, ToolNames
<1>5. QED
  BY <1>1, <1>2, <1>3, <1>4

LEMMA RequestsTyped ==
    ASSUME NEW t, NEW w \in Requests(t)
    PROVE  WantsOK(w)
<1>1. ASSUME NEW c \in Categories, w = Moves(c)
      PROVE  WantsOK(w)
  BY <1>1 DEF Moves, WantsOK
<1>2. CASE w = Archives
  BY <1>2 DEF Archives, WantsOK
<1>3. CASE w = Completes
  BY <1>3 DEF Completes, WantsOK
<1>4. CASE w = Deletes
  BY <1>4 DEF Deletes, WantsOK
<1>5. ASSUME NEW d \in Days, w = Updates(d)
      PROVE  WantsOK(w)
  BY <1>5, Bounds DEF Updates, WantsOK
<1>6. ASSUME NEW c \in Categories, NEW d \in {0} \cup Days, w = Reclassifies(c, d)
      PROVE  WantsOK(w)
  BY <1>6, Bounds DEF Reclassifies, WantsOK
<1>7. QED
  BY <1>1, <1>2, <1>3, <1>4, <1>5, <1>6, RequestsAre

\* What closes a recurring note closes it, whatever else it does.
LEMMA ClosersClose ==
    ASSUME NEW t \in {"para_complete", "/done"}, NEW w \in Requests(t)
    PROVE  "status" \in DOMAIN w /\ w.status # "active" /\ "due" \notin DOMAIN w
<1>1. w = Archives \/ w = Completes
  BY DEF Requests, PlaceRequests, EditRequests, BotRequests
<1>2. QED
  BY <1>1 DEF Archives, Completes

(***************************************************************************)
(* The calls.                                                              *)
(***************************************************************************)
LEMMA CallKinds ==
    ASSUME NEW k, CallOK(k)
    PROVE  /\ k.tool = "link" <=> k \in LinkCall
           /\ k # Free /\ k.tool # "link" =>
                k.tool \in ToolNames /\ (k \in LoadCall(k.tool) \/ k \in CommitCall(k.tool))
           /\ k # Free => k.note \in Ids
<1>1. ASSUME NEW t \in ToolNames, k \in LoadCall(t) \/ k \in CommitCall(t)
      PROVE  k.tool = t /\ k.note \in Ids
  BY <1>1 DEF LoadCall, CommitCall
<1>2. \A t \in ToolNames : t # "link"
  BY DEF ToolNames
<1>3. k \in LinkCall => k.tool = "link" /\ k.note \in Ids
  BY DEF LinkCall
<1>4. Free.tool = "none"
  BY DEF Free
<1>5. QED
  BY <1>1, <1>2, <1>3, <1>4 DEF CallOK

LEMMA CallsStay ==
    ASSUME CallsOK, store' = store, NEW c \in Callers, NEW k, CallOK(k),
           call' = [call EXCEPT ![c] = k]
    PROVE  /\ CallsOK' /\ call'[c] = k
           /\ \A d \in Callers : d # c => call'[d] = call[d]
<1>1. /\ DOMAIN call' = Callers /\ call'[c] = k
      /\ \A d \in Callers : d # c => call'[d] = call[d]
  BY DEF CallsOK
<1>2. \A t : LoadCall(t)' = LoadCall(t) /\ CommitCall(t)' = CommitCall(t)
  <2>1. \A t : Requests(t)' = Requests(t)
    BY DEF Requests
  <2>2. QED
    BY <2>1 DEF LoadCall, CommitCall
<1>3. ASSUME NEW d \in Callers
      PROVE  CallOK(call[d])'
  <2>1. CASE d = c
    BY <1>1, <1>2, <2>1 DEF CallOK
  <2>2. CASE d # c
    <3>1. CallOK(call[d]) /\ call'[d] = call[d]
      BY <1>1, <2>2 DEF CallsOK
    <3>2. QED
      BY <1>2, <3>1 DEF CallOK
  <2>3. QED
    BY <2>1, <2>2
<1>4. QED
  BY <1>1, <1>3 DEF CallsOK

LEMMA LinkersStay ==
    ASSUME CallsOK, store' = store, NEW c \in Callers, NEW k, CallOK(k),
           call' = [call EXCEPT ![c] = k], call[c].tool # "link", k.tool # "link",
           peak' = peak, auto' = auto, LinkersCounted, PairsCounted
    PROVE  CallsOK' /\ LinkersCounted' /\ PairsCounted'
<1>1. CallsOK' /\ call'[c] = k /\ \A d \in Callers : d # c => call'[d] = call[d]
  BY CallsStay
<1>2. Linkers' = Linkers
  BY <1>1 DEF Linkers
<1>3. \A i, j : Holders(i, j)' = Holders(i, j)
  <2>1. ASSUME NEW i, NEW j, NEW d \in Callers
        PROVE  Holds(call'[d], i, j) <=> Holds(call[d], i, j)
    BY <1>1 DEF Holds
  <2>2. QED
    BY <2>1 DEF Holders, Holds
<1>4. QED
  BY <1>1, <1>2, <1>3 DEF LinkersCounted, PairsCounted

LEMMA AskKeeps ==
    ASSUME ToolsInv, NEW c \in Callers, NEW t \in tools, NEW i \in Ids, NEW ch \in Requests(t),
           Ask(c, t, i, ch)
    PROVE  ToolsInv'
<1> DEFINE k == [tool |-> t, note |-> i, wants |-> ch, stage |-> "load"]
<1>1. /\ call[c] = Free /\ asked < MaxCalls /\ asked' = asked + 1
      /\ call' = [call EXCEPT ![c] = k]
      /\ UNCHANGED <<store, tools, note, made, said, crossed, untold, auto, hand, peak>>
  BY DEF Ask, Idle
<1>2. t \in ToolNames /\ t # "link"
  BY RequestsAre DEF ToolNames
<1>3. k \in LoadCall(t) /\ k.tool # "link" /\ call[c].tool # "link"
  BY <1>1, <1>2 DEF LoadCall, Free
<1>4. CallOK(k)
  BY <1>2, <1>3 DEF CallOK
<1>5. CallsOK' /\ LinkersCounted' /\ PairsCounted'
  BY <1>1, <1>3, <1>4, LinkersStay DEF ToolsInv
<1>6. TypesOK'
  BY <1>1, Bounds DEF ToolsInv, TypesOK
<1>7. QED
  BY <1>1, <1>5, <1>6 DEF ToolsInv, UnusedBeyond, HistoryAgrees

LEMMA LoadKeeps ==
    ASSUME ToolsInv, NEW c \in Callers, Load(c)
    PROVE  ToolsInv'
<1> DEFINE k == call[c]
           l == [tool |-> k.tool, note |-> k.note, wants |-> k.wants, stage |-> "commit",
                 seen |-> note[k.note]]
<1>1. /\ k # Free /\ k.stage = "load"
      /\ call' = [call EXCEPT ![c] = IF note[k.note].exists THEN l ELSE Free]
      /\ UNCHANGED <<store, tools, note, made, said, crossed, untold, auto, hand, peak, asked>>
  BY DEF Load, Idle, ToolsInv, CallsOK
<1>2. CallOK(k) /\ k.tool # "link"
  BY <1>1 DEF ToolsInv, CallsOK, CallOK, LoadCall, CommitCall, LinkCall, ToolNames
<1>3. k.tool \in ToolNames /\ k \in LoadCall(k.tool)
  BY <1>1, <1>2, CallKinds DEF CommitCall
<1>4. l \in CommitCall(k.tool)
  BY <1>3 DEF LoadCall, CommitCall, ToolsInv, TypesOK
<1>5. CallOK(l) /\ l.tool # "link" /\ CallOK(Free) /\ Free.tool # "link"
  BY <1>2, <1>3, <1>4 DEF CallOK, Free
<1>6. CallsOK' /\ LinkersCounted' /\ PairsCounted'
  BY <1>1, <1>2, <1>5, LinkersStay DEF ToolsInv
<1>7. QED
  BY <1>1, <1>6 DEF ToolsInv, TypesOK, UnusedBeyond, HistoryAgrees

\* A call that is about to commit.
LEMMA CommitIs ==
    ASSUME ToolsInv, NEW c \in Callers, ~Idle(c), call[c].stage = "commit"
    PROVE  /\ call[c].tool \in ToolNames /\ call[c].tool # "link"
           /\ call[c] \in CommitCall(call[c].tool)
           /\ call[c].note \in Ids /\ call[c].seen \in NoteRow
           /\ call[c].wants \in Requests(call[c].tool) /\ WantsOK(call[c].wants)
<1> DEFINE k == call[c]
<1>1. CallOK(k) /\ k # Free /\ k.stage = "commit"
  BY DEF ToolsInv, CallsOK, Idle
<1>2. k \notin LinkCall
  BY <1>1 DEF LinkCall
<1>3. k.tool # "link" /\ k.tool \in ToolNames
  BY <1>1, <1>2, CallKinds
<1>4. k \in CommitCall(k.tool)
  BY <1>1, <1>3, CallKinds DEF LoadCall
<1>5. QED
  BY <1>3, <1>4, RequestsTyped DEF CommitCall

LEMMA CommitFailsKeeps ==
    ASSUME ToolsInv, NEW c \in Callers, CommitFails(c)
    PROVE  ToolsInv'
<1>1. /\ ~Idle(c) /\ call[c].stage = "commit" /\ call' = [call EXCEPT ![c] = Free]
      /\ UNCHANGED <<store, tools, note, made, said, crossed, untold, auto, hand, peak, asked>>
  BY DEF CommitFails
<1>2. call[c].tool # "link" /\ CallOK(Free) /\ Free.tool # "link"
  BY <1>1, CommitIs DEF CallOK, Free
<1>3. CallsOK' /\ LinkersCounted' /\ PairsCounted'
  BY <1>1, <1>2, LinkersStay DEF ToolsInv
<1>4. QED
  BY <1>1, <1>3 DEF ToolsInv, TypesOK, UnusedBeyond, HistoryAgrees

(***************************************************************************)
(* The fields a commit writes, and what history says of them.              *)
(***************************************************************************)
NoteFields == {"exists", "status", "category", "put", "due", "repeats", "from"}

LEMMA SavedIs ==
    ASSUME ToolsInv, NEW c \in Callers, ~Idle(c), call[c].stage = "commit"
    PROVE  LET k == call[c] IN
           /\ Saved(k) \in NoteRow
           /\ Saved(k).exists = note[k.note].exists
           /\ \A f \in NoteFields :
                Saved(k)[f] = IF f \in Sent(k) THEN k.wants[f] ELSE note[k.note][f]
<1> DEFINE k == call[c]
<1>1. /\ k.note \in Ids /\ note[k.note] \in NoteRow /\ WantsOK(k.wants)
      /\ Sent(k) \subseteq DOMAIN k.wants
  BY CommitIs DEF ToolsInv, TypesOK, Sent
<1>2. DOMAIN Unused = NoteFields
  BY DEF Unused, NoteFields
<1>3. Saved(k) = [f \in NoteFields |-> IF f \in Sent(k) THEN k.wants[f] ELSE note[k.note][f]]
  BY <1>2 DEF Saved
<1>4. \A f \in NoteFields :
        Saved(k)[f] = IF f \in Sent(k) THEN k.wants[f] ELSE note[k.note][f]
  BY <1>3
<1>5. /\ Saved(k).exists = note[k.note].exists /\ Saved(k).repeats = note[k.note].repeats
      /\ Saved(k).from = note[k.note].from
  BY <1>1, <1>4 DEF WantsOK, NoteFields
<1>6. /\ Saved(k).status \in {"active", "completed", "archived"}
      /\ Saved(k).category \in Categories \cup {"inbox", "archives"}
  BY <1>1, <1>4 DEF WantsOK, NoteFields, NoteRow
<1>7. Saved(k).put \in BOOLEAN /\ Saved(k).due \in Nat
  BY <1>1, <1>4 DEF WantsOK, NoteFields, NoteRow
<1>8. Saved(k) \in NoteRow
  <2>1. note[k.note].exists \in BOOLEAN /\ note[k.note].repeats \in BOOLEAN
        /\ note[k.note].from \in 0..MaxNotes
    BY <1>1 DEF NoteRow
  <2>2. Saved(k) = [exists |-> Saved(k).exists, status |-> Saved(k).status,
                    category |-> Saved(k).category, put |-> Saved(k).put, due |-> Saved(k).due,
                    repeats |-> Saved(k).repeats, from |-> Saved(k).from]
    BY <1>3 DEF NoteFields
  <2>3. QED
    BY <1>5, <1>6, <1>7, <2>1, <2>2 DEF NoteRow
<1>9. QED
  BY <1>4, <1>5, <1>8

LEMMA NamesAre ==
    ASSUME ToolsInv, NEW c \in Callers, ~Idle(c), call[c].stage = "commit"
    PROVE  LET k == call[c] IN
           /\ Names(k) \in SaidRow
           /\ Names(k).category = IF "category" \in DOMAIN k.wants THEN k.wants.category
                                  ELSE said[k.note].category
           /\ Names(k).due = IF "due" \in Named(k) THEN k.wants.due ELSE said[k.note].due
<1> DEFINE k == call[c]
<1>1. k.note \in Ids /\ said[k.note] \in SaidRow /\ WantsOK(k.wants)
  BY CommitIs DEF ToolsInv, TypesOK
<1>2. DOMAIN Unsaid = {"category", "due"}
  BY DEF Unsaid
<1>3. Names(k) = [f \in {"category", "due"} |->
                    IF f \in Named(k) THEN k.wants[f] ELSE said[k.note][f]]
  BY <1>2 DEF Names
<1>4. "category" \in Named(k) <=> "category" \in DOMAIN k.wants
  <2>1. CASE k.tool = "para_reclassify"
    <3>1. k.wants \in Requests("para_reclassify")
      BY <2>1, CommitIs
    <3>2. PICK x, d : k.wants = Reclassifies(x, d)
      BY <3>1 DEF Requests, PlaceRequests, EditRequests, BotRequests
    <3>3. QED
      BY <2>1, <3>2 DEF Named, Reclassifies
  <2>2. CASE k.tool # "para_reclassify"
    BY <2>2 DEF Named
  <2>3. QED
    BY <2>1, <2>2
<1>5. "due" \in Named(k) => "due" \in DOMAIN k.wants
  BY DEF Named
<1>6. /\ Names(k).category = IF "category" \in DOMAIN k.wants THEN k.wants.category
                             ELSE said[k.note].category
      /\ Names(k).due = IF "due" \in Named(k) THEN k.wants.due ELSE said[k.note].due
  BY <1>3, <1>4
<1>7. Names(k).category \in Categories \cup {"inbox", "archives", "-"} /\ Names(k).due \in Nat
  BY <1>1, <1>5, <1>6 DEF WantsOK, SaidRow
<1>8. Names(k) = [category |-> Names(k).category, due |-> Names(k).due]
  BY <1>3
<1>9. QED
  BY <1>6, <1>7, <1>8 DEF SaidRow

LEMMA SuccessorIs ==
    ASSUME NEW k, k.note \in Ids, k.seen \in NoteRow
    PROVE  /\ Successor(k) \in NoteRow /\ Successor(k).exists /\ Successor(k).from = k.note
           /\ Successor(k).due = NextDue(k.seen.due)
           /\ NextDue(k.seen.due) \in Nat
<1>1. k.seen.due \in Nat /\ k.seen.category \in Categories \cup {"inbox", "archives"}
  BY DEF NoteRow
<1>2. NextDue(k.seen.due) \in Nat
  BY <1>1, Bounds DEF NextDue
<1>3. k.note \in 0..MaxNotes
  BY Bounds DEF Ids
<1>4. Unused \in NoteRow
  BY Bounds DEF Unused, NoteRow
<1>5. Successor(k) \in NoteRow
  BY <1>1, <1>2, <1>3, <1>4 DEF Successor, NoteRow
<1>6. Successor(k).exists /\ Successor(k).from = k.note /\ Successor(k).due = NextDue(k.seen.due)
  BY <1>4 DEF Successor, NoteRow
<1>7. QED
  BY <1>2, <1>5, <1>6

LEMMA GivenIds ==
    ASSUME ToolsInv, NEW i \in Ids, note[i].exists
    PROVE  i <= made /\ i \in Nat /\ made \in Nat
<1>1. made \in Nat /\ i \in Nat
  BY Bounds DEF ToolsInv, TypesOK
<1>2. ~(i > made)
  BY DEF ToolsInv, UnusedBeyond, Unused
<1>3. QED
  BY <1>1, <1>2

\* If nobody changed the note, or every field is written, the note has the
\* fields that were asked for.
LEMMA SavedAsAsked ==
    ASSUME ToolsInv, NEW c \in Callers, ~Idle(c), call[c].stage = "commit",
           store = "sqlite" \/ note[call[c].note] = call[c].seen
    PROVE  LET k == call[c] IN
           \A f \in NoteFields :
             Saved(k)[f] = IF f \in DOMAIN k.wants THEN k.wants[f] ELSE note[k.note][f]
<1> DEFINE k == call[c]
<1>1. \A f \in NoteFields :
        Saved(k)[f] = IF f \in Sent(k) THEN k.wants[f] ELSE note[k.note][f]
  BY SavedIs
<1>2. CASE store = "sqlite"
  BY <1>1, <1>2 DEF Sent
<1>3. CASE note[k.note] = k.seen /\ store # "sqlite"
  <2>1. Sent(k) = {f \in DOMAIN k.wants : k.wants[f] # note[k.note][f]}
    BY <1>3 DEF Sent
  <2>2. QED
    BY <1>1, <2>1
<1>4. QED
  BY <1>2, <1>3

LEMMA CommitParts ==
    ASSUME ToolsInv, NEW c \in Callers, Commit(c)
    PROVE  LET k == call[c] IN
           /\ ~Idle(c) /\ k.stage = "commit" /\ note[k.note].exists
           /\ Spawns(k) => made < MaxNotes /\ made + 1 \in Ids
           /\ made' = IF Spawns(k) THEN made + 1 ELSE made
           /\ DOMAIN note' = Ids
           /\ note'[k.note] = Saved(k)
           /\ Spawns(k) => note'[made + 1] = Successor(k)
           /\ \A i \in Ids : i # k.note /\ (i <= made \/ i > made') => note'[i] = note[i]
           /\ said' = [said EXCEPT ![k.note] = Names(k)]
           /\ crossed' = IF note[k.note] # k.seen THEN crossed \cup {k.note} ELSE crossed
           /\ untold' = Untold(k)
           /\ call' = [call EXCEPT ![c] = Free]
           /\ UNCHANGED <<store, tools, auto, hand, peak, asked>>
<1> DEFINE k == call[c]
<1>1. /\ ~Idle(c) /\ k.stage = "commit" /\ note[k.note].exists
      /\ Spawns(k) => made < MaxNotes
      /\ made' = IF Spawns(k) THEN made + 1 ELSE made
      /\ note' = [i \in Ids |-> IF i = k.note THEN Saved(k)
                                ELSE IF Spawns(k) /\ i = made' THEN Successor(k) ELSE note[i]]
      /\ said' = [said EXCEPT ![k.note] = Names(k)]
      /\ crossed' = IF note[k.note] # k.seen THEN crossed \cup {k.note} ELSE crossed
      /\ untold' = Untold(k)
      /\ call' = [call EXCEPT ![c] = Free]
      /\ UNCHANGED <<store, tools, auto, hand, peak, asked>>
  BY DEF Commit
<1>2. k.note \in Ids /\ k.note <= made /\ made \in Nat /\ k.note \in Nat /\ MaxNotes \in Nat
  BY <1>1, CommitIs, GivenIds, Bounds
<1>3. Spawns(k) => made + 1 \in Ids /\ made + 1 # k.note
  BY <1>1, <1>2 DEF Ids
<1>4. \A i \in Ids : i <= made \/ i > made' => ~(Spawns(k) /\ i = made')
  BY <1>1, <1>2, Bounds
<1>5. DOMAIN note' = Ids /\ note'[k.note] = Saved(k)
  BY <1>1, <1>2
<1>6. Spawns(k) => note'[made + 1] = Successor(k)
  BY <1>1, <1>3
<1>7. \A i \in Ids : i # k.note /\ (i <= made \/ i > made') => note'[i] = note[i]
  BY <1>1, <1>4
<1>8. QED
  BY <1>1, <1>3, <1>5, <1>6, <1>7

LEMMA CommitKeepsTypes ==
    ASSUME ToolsInv, NEW c \in Callers, Commit(c)
    PROVE  TypesOK' /\ UnusedBeyond'
<1> DEFINE k == call[c]
<1>1. /\ Saved(k) \in NoteRow /\ Successor(k) \in NoteRow /\ Names(k) \in SaidRow
      /\ k.note \in Ids /\ k.note <= made /\ made \in Nat /\ k.note \in Nat
  BY CommitParts, CommitIs, SavedIs, NamesAre, SuccessorIs, GivenIds
<1>2. made' \in Written..MaxNotes /\ made <= made' /\ made' \in Nat
  BY <1>1, CommitParts, Bounds DEF ToolsInv, TypesOK
<1>3. note' = [i \in Ids |-> note'[i]]
  BY DEF Commit
<1>4. \A i \in Ids : i = k.note \/ i <= made \/ i > made' \/ (Spawns(k) /\ i = made + 1)
  BY <1>1, CommitParts, Bounds
<1>5. \A i \in Ids : note'[i] \in NoteRow
  BY <1>1, <1>4, CommitParts DEF ToolsInv, TypesOK
<1>6. said' \in [Ids -> SaidRow] /\ crossed' \subseteq Ids /\ untold' \subseteq Ids
  BY <1>1, CommitParts DEF ToolsInv, TypesOK, Untold
<1>7. TypesOK'
  BY <1>2, <1>3, <1>5, <1>6, CommitParts DEF ToolsInv, TypesOK
<1>8. ASSUME NEW i \in Ids, i > made'
      PROVE  note'[i] = Unused /\ said'[i] = Unsaid
  <2>1. i > made /\ i # k.note
    BY <1>1, <1>2, <1>8, Bounds
  <2>2. note'[i] = note[i]
    BY <1>8, <2>1, CommitParts
  <2>3. said'[i] = said[i]
    BY <2>1, CommitParts DEF ToolsInv, TypesOK
  <2>4. QED
    BY <2>1, <2>2, <2>3 DEF ToolsInv, UnusedBeyond
<1>9. QED
  BY <1>7, <1>8 DEF UnusedBeyond

LEMMA CommitKeepsHistory ==
    ASSUME ToolsInv, NEW c \in Callers, Commit(c)
    PROVE  HistoryAgrees'
<1> DEFINE k == call[c]
           Agrees(s, n, u) == s.category \in {"-", n.category} /\ (s.due \in {0, n.due} \/ u)
           Left(i) == store = "pg" /\ i \in untold
<1>1. SUFFICES ASSUME NEW i \in Ids, note'[i].exists
               PROVE  \/ Agrees(said'[i], note'[i], store = "pg" /\ i \in untold')
                      \/ store = "pg" /\ i \in crossed'
  BY CommitParts DEF HistoryAgrees
<1>2. /\ k.note \in Ids /\ k.note <= made /\ made \in Nat /\ k.note \in Nat
      /\ store \in {"pg", "sqlite"} /\ said \in [Ids -> SaidRow]
  BY CommitParts, CommitIs, GivenIds DEF ToolsInv, TypesOK
<1>3. CASE i = k.note
  <2>1. note[i].exists /\ note'[i] = Saved(k) /\ said'[i] = Names(k)
    BY <1>2, <1>3, CommitParts
  <2>2. CASE store = "pg" /\ (note[i] # k.seen \/ i \in crossed)
    BY <1>3, <2>2, CommitParts
  <2>3. CASE store = "sqlite" \/ (note[i] = k.seen /\ i \notin crossed)
    <3>1. Agrees(said[i], note[i], Left(i))
      BY <2>1, <2>3 DEF ToolsInv, HistoryAgrees
    <3>2. \A f \in NoteFields :
            Saved(k)[f] = IF f \in DOMAIN k.wants THEN k.wants[f] ELSE note[i][f]
      BY <1>3, <2>3, SavedAsAsked, CommitParts
    <3>3. /\ Saved(k).category = IF "category" \in DOMAIN k.wants THEN k.wants.category
                                 ELSE note[i].category
          /\ Saved(k).due = IF "due" \in DOMAIN k.wants THEN k.wants.due ELSE note[i].due
      BY <3>2 DEF NoteFields
    <3>4. /\ Names(k).category = IF "category" \in DOMAIN k.wants THEN k.wants.category
                                 ELSE said[i].category
          /\ Names(k).due = IF "due" \in Named(k) THEN k.wants.due ELSE said[i].due
      BY <1>3, NamesAre, CommitParts
    <3>5. "due" \in Named(k) => "due" \in DOMAIN k.wants
      BY DEF Named
    <3>6. "due" \in DOMAIN k.wants /\ "due" \notin Named(k) => store = "pg" /\ i \in untold'
      <4>1. SUFFICES ASSUME "due" \in DOMAIN k.wants, "due" \notin Named(k)
                     PROVE  store = "pg" /\ i \in untold'
        OBVIOUS
      <4>2. k.tool = "para_reclassify"
        BY <4>1 DEF Named
      <4>3. k.wants \in Requests("para_reclassify")
        BY <4>2, CommitParts, CommitIs
      <4>4. store = "pg"
        BY <4>3 DEF Requests, BotRequests
      <4>5. QED
        BY <1>3, <4>1, <4>4, CommitParts DEF Untold
    <3>7. "due" \notin DOMAIN k.wants => untold' = untold
      BY <3>5, CommitParts DEF Untold
    <3>8. QED
      BY <2>1, <3>1, <3>3, <3>4, <3>5, <3>6, <3>7
  <2>4. QED
    BY <1>2, <2>2, <2>3
<1>4. CASE i # k.note /\ (i <= made \/ i > made')
  <2>1. note'[i] = note[i] /\ said'[i] = said[i]
    BY <1>2, <1>4, CommitParts
  <2>2. crossed \subseteq crossed' /\ (i \in untold => i \in untold')
    BY <1>4, CommitParts DEF Untold
  <2>3. QED
    BY <1>1, <2>1, <2>2 DEF ToolsInv, HistoryAgrees
<1>5. CASE i # k.note /\ Spawns(k) /\ i = made + 1
  <2>1. i > made
    BY <1>2, <1>5
  <2>2. said'[i] = said[i]
    BY <1>2, <1>5, CommitParts
  <2>3. said'[i] = Unsaid
    BY <2>1, <2>2 DEF ToolsInv, UnusedBeyond
  <2>4. QED
    BY <2>3 DEF Unsaid
<1>6. i = k.note \/ i <= made \/ i > made' \/ (Spawns(k) /\ i = made + 1)
  BY <1>2, CommitParts, Bounds
<1>7. QED
  BY <1>3, <1>4, <1>5, <1>6

LEMMA CommitKeeps ==
    ASSUME ToolsInv, NEW c \in Callers, Commit(c)
    PROVE  ToolsInv'
<1>1. call[c].tool # "link" /\ CallOK(Free) /\ Free.tool # "link"
  BY CommitParts, CommitIs DEF CallOK, Free
<1>2. CallsOK' /\ LinkersCounted' /\ PairsCounted'
  BY <1>1, CommitParts, LinkersStay DEF ToolsInv
<1>3. QED
  BY <1>2, CommitKeepsTypes, CommitKeepsHistory DEF ToolsInv

LEMMA AddNoteKeeps ==
    ASSUME ToolsInv, NEW cat \in Categories \cup {"inbox"}, NEW d \in {0} \cup Days,
           AddNote(cat, d)
    PROVE  ToolsInv'
<1>1. /\ asked < MaxCalls /\ made < MaxNotes /\ asked' = asked + 1 /\ made' = made + 1
      /\ note' = [note EXCEPT ![made + 1] = Classified(cat, d)]
      /\ said' = [said EXCEPT ![made + 1] = [category |-> cat, due |-> 0]]
      /\ UNCHANGED <<store, tools, call, crossed, untold, auto, hand, peak>>
  BY DEF AddNote
<1>2. /\ note \in [Ids -> NoteRow] /\ said \in [Ids -> SaidRow] /\ made \in Written..MaxNotes
      /\ made \in Nat /\ made + 1 \in Ids /\ made' \in Written..MaxNotes
      /\ asked' \in 0..MaxCalls
  BY <1>1, Bounds DEF ToolsInv, TypesOK, Ids
<1>3. /\ Classified(cat, d) \in NoteRow /\ Classified(cat, d).category = cat
      /\ [category |-> cat, due |-> 0] \in SaidRow
  <2>1. Unused \in NoteRow /\ d \in Nat
    BY Bounds DEF Unused, NoteRow
  <2>2. Classified(cat, d) \in NoteRow
    BY <2>1 DEF Classified, NoteRow
  <2>3. Classified(cat, d).category = cat
    BY <2>1 DEF Classified, NoteRow
  <2>4. QED
    BY <2>2, <2>3 DEF SaidRow
<1>4. TypesOK'
  BY <1>1, <1>2, <1>3 DEF ToolsInv, TypesOK
<1>5. /\ note'[made + 1] = Classified(cat, d)
      /\ said'[made + 1] = [category |-> cat, due |-> 0]
      /\ \A i \in Ids : i # made + 1 => note'[i] = note[i] /\ said'[i] = said[i]
  BY <1>1, <1>2
<1>6. UnusedBeyond'
  <2>1. \A i \in Ids : i > made + 1 => i > made /\ i # made + 1
    BY <1>2, Bounds
  <2>2. QED
    BY <1>1, <1>5, <2>1 DEF ToolsInv, UnusedBeyond
<1>7. HistoryAgrees'
  BY <1>1, <1>3, <1>5 DEF ToolsInv, HistoryAgrees
<1>8. CallsOK' /\ LinkersCounted' /\ PairsCounted'
  BY <1>1 DEF ToolsInv, CallsOK, CallOK, LoadCall, CommitCall, Requests, LinkersCounted,
              Linkers, PairsCounted, Holders, Holds
<1>9. QED
  BY <1>4, <1>6, <1>7, <1>8 DEF ToolsInv

(***************************************************************************)
(* Links.                                                                  *)
(***************************************************************************)
LEMMA HoldersLink ==
    ASSUME ToolsInv, NEW i, NEW j
    PROVE  /\ Holders(i, j) \subseteq Linkers /\ IsFiniteSet(Holders(i, j))
           /\ Cardinality(Holders(i, j)) \in Nat /\ Cardinality(Linkers) \in Nat
           /\ Cardinality(Holders(i, j)) <= Cardinality(Linkers)
           /\ peak \in Nat /\ Cardinality(Linkers) <= peak
<1>1. Holders(i, j) \subseteq Linkers
  BY DEF Holders, Holds, Linkers
<1>2. IsFiniteSet(Linkers) /\ peak \in Nat /\ Cardinality(Linkers) <= peak
  BY DEF ToolsInv, LinkersCounted
<1>3. QED
  BY <1>1, <1>2, FS_Subset, FS_CardinalityType

LEMMA LinksTyped ==
    ASSUME ToolsInv, NEW i \in Ids, NEW j \in Ids
    PROVE  /\ auto[<<i, j>>] \in Nat /\ auto[<<j, i>>] \in Nat
           /\ hand[<<i, j>>] \in Nat /\ hand[<<j, i>>] \in Nat
<1>1. <<i, j>> \in Pairs /\ <<j, i>> \in Pairs
  BY DEF Pairs
<1>2. QED
  BY <1>1 DEF ToolsInv, TypesOK

LEMMA FindSimilarKeeps ==
    ASSUME ToolsInv, NEW c \in Callers, NEW i \in Ids, NEW js \in SUBSET Ids,
           FindSimilar(c, i, js)
    PROVE  ToolsInv'
<1> DEFINE k == [tool |-> "link", note |-> i, stage |-> "check", todo |-> js, fresh |-> {}]
<1>1. /\ call[c] = Free /\ asked < MaxCalls /\ asked' = asked + 1
      /\ \A j \in js : j # i
      /\ call' = [call EXCEPT ![c] = k]
      /\ peak' = IF 1 + Cardinality(Linkers) > peak THEN 1 + Cardinality(Linkers) ELSE peak
      /\ UNCHANGED <<store, tools, note, made, said, crossed, untold, auto, hand>>
  BY DEF FindSimilar, Idle, Linkers
<1>2. CallOK(k)
  BY <1>1 DEF CallOK, LinkCall
<1>3. CallsOK' /\ call'[c] = k /\ \A d \in Callers : d # c => call'[d] = call[d]
  BY <1>1, <1>2, CallsStay DEF ToolsInv
<1>4. Linkers' = Linkers \cup {c} /\ c \notin Linkers
  BY <1>1, <1>3 DEF Linkers, Free
<1>5. /\ IsFiniteSet(Linkers') /\ Cardinality(Linkers') = Cardinality(Linkers) + 1
      /\ Cardinality(Linkers) \in Nat /\ peak \in Nat
  BY <1>4, FS_AddElement, FS_CardinalityType DEF ToolsInv, LinkersCounted
<1>6. LinkersCounted' /\ peak <= peak'
  BY <1>1, <1>5 DEF LinkersCounted
<1>7. \A x, y : Holders(x, y)' = Holders(x, y)
  <2>1. ASSUME NEW x, NEW y, NEW d \in Callers
        PROVE  Holds(call'[d], x, y) <=> Holds(call[d], x, y)
    BY <1>1, <1>3 DEF Holds, Free
  <2>2. QED
    BY <2>1 DEF Holders, Holds
<1>8. PairsCounted'
  <2>1. ASSUME NEW x \in Ids, NEW y \in Ids, x # y
        PROVE  auto[<<x, y>>] + auto[<<y, x>>] + Cardinality(Holders(x, y)) <= peak'
    BY <1>5, <1>6, <2>1, HoldersLink, LinksTyped DEF ToolsInv, PairsCounted, LinkersCounted
  <2>2. QED
    BY <1>1, <1>7, <2>1 DEF PairsCounted
<1>9. TypesOK'
  BY <1>1, Bounds DEF ToolsInv, TypesOK
<1>10. QED
  BY <1>1, <1>3, <1>6, <1>8, <1>9 DEF ToolsInv, UnusedBeyond, HistoryAgrees

LEMMA CheckLinkKeeps ==
    ASSUME ToolsInv, NEW c \in Callers, NEW j \in Ids, CheckLink(c, j)
    PROVE  ToolsInv'
<1> DEFINE k == call[c]
           F == IF Linked(k.note, j) THEN k.fresh ELSE k.fresh \cup {j}
           l == [k EXCEPT !.todo = @ \ {j}, !.fresh = F]
<1>1. /\ k.tool = "link" /\ j \in k.todo
      /\ call' = [call EXCEPT ![c].todo = @ \ {j}, ![c].fresh = F]
      /\ UNCHANGED <<store, tools, note, made, said, crossed, untold, auto, hand, peak, asked>>
  BY DEF CheckLink
<1>2. k \in LinkCall /\ k.note \notin k.todo \cup k.fresh /\ k.note \in Ids
  BY <1>1, CallKinds DEF ToolsInv, CallsOK, CallOK, LinkCall, LoadCall, CommitCall, ToolNames, Free
<1>3. l \in LinkCall /\ l.tool = "link" /\ l.note = k.note /\ l.todo = k.todo \ {j} /\ l.fresh = F
  BY <1>2 DEF LinkCall
<1>4. CallOK(l)
  BY <1>1, <1>2, <1>3 DEF CallOK
<1>5. call' = [call EXCEPT ![c] = l]
  BY <1>1 DEF ToolsInv, CallsOK
<1>6. CallsOK' /\ call'[c] = l /\ \A d \in Callers : d # c => call'[d] = call[d]
  BY <1>1, <1>4, <1>5, CallsStay DEF ToolsInv
<1>7. Linkers' = Linkers
  BY <1>1, <1>3, <1>6 DEF Linkers
<1>8. PairsCounted'
  <2>1. SUFFICES ASSUME NEW x \in Ids, NEW y \in Ids, x # y
                 PROVE  auto[<<x, y>>] + auto[<<y, x>>] + Cardinality(Holders(x, y)') <= peak
    BY <1>1 DEF PairsCounted
  <2>2. auto[<<x, y>>] + auto[<<y, x>>] + Cardinality(Holders(x, y)) <= peak
    BY <2>1 DEF ToolsInv, PairsCounted
  <2> DEFINE Pair == (x = k.note /\ y = j) \/ (y = k.note /\ x = j)
  <2>3. CASE Linked(k.note, j) \/ ~Pair
    <3>1. ASSUME NEW d \in Callers
          PROVE  Holds(call'[d], x, y) <=> Holds(call[d], x, y)
      <4>1. k.note = x => (y \in l.fresh <=> y \in k.fresh)
        BY <1>3, <2>3
      <4>2. k.note = y => (x \in l.fresh <=> x \in k.fresh)
        BY <1>3, <2>3
      <4>3. Holds(l, x, y) <=> Holds(k, x, y)
        BY <1>1, <1>3, <4>1, <4>2 DEF Holds
      <4>4. QED
        BY <1>6, <4>3
    <3>2. Holders(x, y)' = Holders(x, y)
      BY <3>1 DEF Holders, Holds
    <3>3. QED
      BY <2>2, <3>2
  <2>4. CASE ~Linked(k.note, j) /\ Pair
    <3>1. ~(auto[<<x, y>>] + hand[<<x, y>>] + auto[<<y, x>>] + hand[<<y, x>>] > 0)
      <4>1. CASE x = k.note /\ y = j
        BY <2>4, <4>1 DEF Linked
      <4>2. CASE y = k.note /\ x = j
        <5>1. ~(auto[<<y, x>>] + hand[<<y, x>>] + auto[<<x, y>>] + hand[<<x, y>>] > 0)
          BY <2>4, <4>2 DEF Linked
        <5>2. QED
          BY <5>1, LinksTyped
      <4>3. QED
        BY <2>4, <4>1, <4>2
    <3>2. auto[<<x, y>>] = 0 /\ auto[<<y, x>>] = 0
      BY <3>1, LinksTyped
    <3>3. Holders(x, y)' \subseteq Linkers
      BY <1>7 DEF Holders, Holds, Linkers
    <3>4. Cardinality(Holders(x, y)') <= Cardinality(Linkers) /\ IsFiniteSet(Holders(x, y)')
      BY <3>3, FS_Subset DEF ToolsInv, LinkersCounted
    <3>5. Cardinality(Holders(x, y)') \in Nat
      BY <3>4, FS_CardinalityType
    <3>6. QED
      BY <3>2, <3>4, <3>5, HoldersLink
  <2>5. QED
    BY <2>3, <2>4
<1>9. QED
  BY <1>1, <1>6, <1>7, <1>8
     DEF ToolsInv, TypesOK, UnusedBeyond, HistoryAgrees, LinkersCounted

LEMMA FinishLinksKeeps ==
    ASSUME ToolsInv, NEW c \in Callers, FinishLinks(c)
    PROVE  ToolsInv'
<1> DEFINE k == call[c]
<1>1. /\ k.tool = "link"
      /\ call' = [call EXCEPT ![c] = Free]
      /\ \/ auto' = auto
         \/ auto' = [p \in Pairs |-> IF p[1] = k.note /\ p[2] \in k.fresh
                                       THEN auto[p] + 1 ELSE auto[p]]
      /\ UNCHANGED <<store, tools, note, made, said, crossed, untold, hand, peak, asked>>
  BY DEF FinishLinks
<1>2. CallsOK' /\ call'[c] = Free /\ \A d \in Callers : d # c => call'[d] = call[d]
  BY <1>1, CallsStay DEF ToolsInv, CallOK
<1>3. auto' \in [Pairs -> Nat]
  BY <1>1 DEF ToolsInv, TypesOK
<1>4. Linkers' = Linkers \ {c}
  BY <1>2 DEF Linkers, Free
<1>5. LinkersCounted'
  <2>1. Linkers' \subseteq Linkers
    BY <1>4
  <2>2. IsFiniteSet(Linkers') /\ Cardinality(Linkers') <= Cardinality(Linkers)
    BY <2>1, FS_Subset DEF ToolsInv, LinkersCounted
  <2>3. Cardinality(Linkers') \in Nat /\ Cardinality(Linkers) \in Nat
    BY <2>2, FS_CardinalityType DEF ToolsInv, LinkersCounted
  <2>4. QED
    BY <1>1, <2>2, <2>3 DEF ToolsInv, LinkersCounted
<1>6. PairsCounted'
  <2>1. SUFFICES ASSUME NEW x \in Ids, NEW y \in Ids, x # y
                 PROVE  auto'[<<x, y>>] + auto'[<<y, x>>] + Cardinality(Holders(x, y)') <= peak
    BY <1>1 DEF PairsCounted
  <2>2. auto[<<x, y>>] + auto[<<y, x>>] + Cardinality(Holders(x, y)) <= peak
    BY <2>1 DEF ToolsInv, PairsCounted
  <2>3. Holders(x, y)' = Holders(x, y) \ {c}
    BY <1>2 DEF Holders, Holds, Free
  <2>4. <<x, y>> \in Pairs /\ <<y, x>> \in Pairs
    BY DEF Pairs
  <2>5. CASE c \in Holders(x, y)
    <3>1. Cardinality(Holders(x, y)') = Cardinality(Holders(x, y)) - 1
      BY <2>3, <2>5, FS_RemoveElement, HoldersLink
    <3>2. \/ auto'[<<x, y>>] <= auto[<<x, y>>] + 1 /\ auto'[<<y, x>>] = auto[<<y, x>>]
          \/ auto'[<<x, y>>] = auto[<<x, y>>] /\ auto'[<<y, x>>] <= auto[<<y, x>>] + 1
      BY <1>1, <2>1, <2>4, <2>5, LinksTyped DEF Holders, Holds
    <3>3. auto'[<<x, y>>] \in Nat /\ auto'[<<y, x>>] \in Nat
      BY <1>3, <2>4
    <3>4. QED
      BY <2>2, <3>1, <3>2, <3>3, HoldersLink, LinksTyped
  <2>6. CASE c \notin Holders(x, y)
    <3>1. Holders(x, y)' = Holders(x, y)
      BY <2>3, <2>6
    <3>2. auto'[<<x, y>>] = auto[<<x, y>>] /\ auto'[<<y, x>>] = auto[<<y, x>>]
      BY <1>1, <2>4, <2>6 DEF Holders, Holds
    <3>3. QED
      BY <2>2, <3>1, <3>2
  <2>7. QED
    BY <2>5, <2>6
<1>7. QED
  BY <1>1, <1>2, <1>3, <1>5, <1>6 DEF ToolsInv, TypesOK, UnusedBeyond, HistoryAgrees

LEMMA AddLinkKeeps ==
    ASSUME ToolsInv, NEW i \in Ids, NEW j \in Ids, AddLink(i, j)
    PROVE  ToolsInv'
<1>1. /\ asked < MaxCalls /\ asked' = asked + 1
      /\ hand' = [hand EXCEPT ![<<i, j>>] = @ + 1]
      /\ UNCHANGED <<store, tools, note, made, said, call, crossed, untold, auto, peak>>
  BY DEF AddLink
<1>2. hand' \in [Pairs -> Nat]
  <2>1. hand \in [Pairs -> Nat]
    BY DEF ToolsInv, TypesOK
  <2>2. hand[<<i, j>>] \in Nat
    BY Zenon, LinksTyped
  <2>3. hand[<<i, j>>] + 1 \in Nat
    BY <2>2
  <2>4. QED
    BY <1>1, <2>1, <2>3
<1>3. TypesOK'
  BY <1>1, <1>2, Bounds DEF ToolsInv, TypesOK
<1>4. QED
  BY <1>1, <1>3 DEF ToolsInv, UnusedBeyond, HistoryAgrees, CallsOK, CallOK, LoadCall,
                    CommitCall, Requests, LinkersCounted, Linkers, PairsCounted, Holders, Holds

LEMMA RemoveNoteKeeps ==
    ASSUME ToolsInv, NEW i \in Ids, RemoveNote(i)
    PROVE  ToolsInv'
<1>1. /\ asked < MaxCalls /\ asked' = asked + 1
      /\ note' = [note EXCEPT ![i] = Unused] /\ said' = [said EXCEPT ![i] = Unsaid]
      /\ auto' = [p \in Pairs |-> IF i \in {p[1], p[2]} THEN 0 ELSE auto[p]]
      /\ hand' = [p \in Pairs |-> IF i \in {p[1], p[2]} THEN 0 ELSE hand[p]]
      /\ UNCHANGED <<store, tools, made, call, crossed, untold, peak>>
  BY DEF RemoveNote
<1>2. Unused \in NoteRow /\ Unsaid \in SaidRow
  BY Bounds DEF Unused, NoteRow, Unsaid, SaidRow
<1>3. auto' \in [Pairs -> Nat] /\ hand' \in [Pairs -> Nat]
  BY <1>1 DEF ToolsInv, TypesOK
<1>4. TypesOK'
  BY <1>1, <1>2, <1>3, Bounds DEF ToolsInv, TypesOK
<1>5. /\ note'[i] = Unused /\ said'[i] = Unsaid
      /\ \A x \in Ids : x # i => note'[x] = note[x] /\ said'[x] = said[x]
  BY <1>1 DEF ToolsInv, TypesOK
<1>6. UnusedBeyond' /\ HistoryAgrees'
  BY <1>1, <1>5 DEF ToolsInv, UnusedBeyond, HistoryAgrees, Unsaid
<1>7. PairsCounted'
  <2>1. SUFFICES ASSUME NEW x \in Ids, NEW y \in Ids, x # y
                 PROVE  auto'[<<x, y>>] + auto'[<<y, x>>] + Cardinality(Holders(x, y)) <= peak
    <3>1. peak' = peak /\ call' = call
      BY <1>1
    <3>2. \A x, y : Holders(x, y)' = Holders(x, y)
      BY <3>1 DEF Holders, Holds
    <3>3. QED
      BY <3>1, <3>2 DEF PairsCounted
  <2>2. auto[<<x, y>>] + auto[<<y, x>>] + Cardinality(Holders(x, y)) <= peak
    BY <2>1 DEF ToolsInv, PairsCounted
  <2>3. <<x, y>> \in Pairs /\ <<y, x>> \in Pairs
    BY DEF Pairs
  <2>4. auto'[<<x, y>>] <= auto[<<x, y>>] /\ auto'[<<y, x>>] <= auto[<<y, x>>]
        /\ auto'[<<x, y>>] \in Nat /\ auto'[<<y, x>>] \in Nat
    BY <1>1, <1>3, <2>3, LinksTyped
  <2>5. QED
    BY <2>2, <2>4, LinksTyped, HoldersLink
<1>8. CallsOK' /\ LinkersCounted'
  BY <1>1 DEF ToolsInv, CallsOK, CallOK, LoadCall, CommitCall, Requests, LinkersCounted, Linkers
<1>9. QED
  BY <1>4, <1>6, <1>7, <1>8 DEF ToolsInv

(***************************************************************************)
(* The series of a recurring note.                                         *)
(***************************************************************************)

\* Only the commit of a call that closes a recurring note makes a note that comes
\* from another.
LEMMA OnlyClosersSpawn ==
    ASSUME ToolsInv, ToolsNext, NEW i \in Ids, i > made, note'[i].from # 0
    PROVE  \E c \in Callers : Commit(c) /\ Spawns(call[c]) /\ i = made + 1
<1>1. note[i] = Unused /\ Unused.from = 0 /\ made \in Nat /\ i \in Nat
  BY Bounds DEF ToolsInv, UnusedBeyond, TypesOK, Unused
<1>2. note' # note
  BY <1>1
<1>3. ASSUME NEW c \in Callers, Commit(c)
      PROVE  Spawns(call[c]) /\ i = made + 1
  <2> DEFINE k == call[c]
  <2>1. k.note \in Ids /\ k.note <= made /\ k.note \in Nat
    BY <1>3, CommitParts, CommitIs, GivenIds
  <2>2. i # k.note
    BY <1>1, <2>1
  <2>3. ~(i > made')
    BY <1>1, <1>3, <2>2, CommitParts
  <2>4. made' = IF Spawns(k) THEN made + 1 ELSE made
    BY <1>3, CommitParts
  <2>5. QED
    BY <1>1, <2>3, <2>4
<1>4. ASSUME NEW cat, NEW d, AddNote(cat, d)
      PROVE  FALSE
  <2>1. note' = [note EXCEPT ![made + 1] = Classified(cat, d)] /\ DOMAIN note = Ids
    BY <1>4 DEF AddNote, ToolsInv, TypesOK
  <2>2. Classified(cat, d).from = 0
    BY DEF Classified, Unused
  <2>3. QED
    BY <1>1, <2>1, <2>2
<1>5. ASSUME NEW x \in Ids, RemoveNote(x)
      PROVE  FALSE
  BY <1>1, <1>5 DEF RemoveNote, ToolsInv, TypesOK
<1>6. QED
  BY <1>2, <1>3, <1>4, <1>5
     DEF ToolsNext, Ask, Load, CommitFails, FindSimilar, CheckLink, FinishLinks, AddLink

\* What that commit makes of the note and of the one that comes from it.
LEMMA SpawnAdvances ==
    ASSUME ToolsInv, NEW c \in Callers, Commit(c), Spawns(call[c])
    PROVE  LET n == call[c].note IN
           /\ note'[made + 1].from = n /\ note[n].exists
           /\ \/ /\ note'[n].status # "active"
                 /\ note[n].due # 0 => note'[made + 1].due = note[n].due + Interval
                 /\ note[n].due = 0 => note'[made + 1].due > Today
              \/ n \in crossed'
<1> DEFINE k == call[c]
           n == k.note
<1>1. /\ ~Idle(c) /\ k.stage = "commit" /\ note[n].exists
      /\ note'[n] = Saved(k) /\ note'[made + 1] = Successor(k)
      /\ crossed' = IF note[n] # k.seen THEN crossed \cup {n} ELSE crossed
  BY CommitParts
<1>2. n \in Ids /\ k.seen \in NoteRow /\ k.wants \in Requests(k.tool)
  BY <1>1, CommitIs
<1>3. /\ note'[made + 1].from = n
      /\ note'[made + 1].due = NextDue(k.seen.due) /\ k.seen.due \in Nat
  BY <1>1, <1>2, SuccessorIs DEF NoteRow
<1>4. CASE note[n] # k.seen
  BY <1>1, <1>3, <1>4
<1>5. CASE note[n] = k.seen
  <2>1. k.tool \in {"para_complete", "/done"}
    BY DEF Spawns
  <2>2. "status" \in DOMAIN k.wants /\ k.wants.status # "active"
    BY <1>2, <2>1, ClosersClose
  <2>3. Saved(k).status = k.wants.status
    BY <1>1, <1>5, <2>2, SavedAsAsked DEF NoteFields
  <2>4. note[n].due # 0 => NextDue(k.seen.due) = note[n].due + Interval
    BY <1>5 DEF NextDue
  <2>5. note[n].due = 0 => NextDue(k.seen.due) > Today
    BY <1>5, Bounds DEF NextDue
  <2>6. QED
    BY <1>1, <1>3, <2>2, <2>3, <2>4, <2>5
<1>6. QED
  BY <1>4, <1>5

(***************************************************************************)
(* The theorems.                                                           *)
(***************************************************************************)
LEMMA ToolsInitInv == ToolsInit => ToolsInv
<1> SUFFICES ASSUME ToolsInit
             PROVE  ToolsInv
  OBVIOUS
<1>1. Unused \in NoteRow /\ Unsaid \in SaidRow
  BY Bounds DEF Unused, NoteRow, Unsaid, SaidRow
<1>2. \A i \in Ids : [Unused EXCEPT !.exists = TRUE, !.due = Today, !.repeats = (i = 1)] \in NoteRow
  BY <1>1, Bounds DEF NoteRow
<1>3. made = Written /\ Written \in 1..MaxNotes /\ asked = 0 /\ crossed = {} /\ untold = {} /\ peak = 0
  BY ToolsAssumption DEF ToolsInit
<1>4. note \in [Ids -> NoteRow] /\ said \in [Ids -> SaidRow]
  <2> DEFINE first(i) == [Unused EXCEPT !.exists = TRUE, !.due = Today, !.repeats = (i = 1)]
  <2>1. \A i \in Ids : first(i) \in NoteRow
    BY <1>2
  <2>2. note = [i \in Ids |-> IF i > Written THEN Unused ELSE first(i)]
    BY DEF ToolsInit
  <2> HIDE DEF first
  <2>3. note \in [Ids -> NoteRow]
    BY <1>1, <2>1, <2>2
  <2>4. QED
    BY <1>1, <2>3 DEF ToolsInit
<1>5. TypesOK
  <2>1. made \in Written..MaxNotes /\ asked \in 0..MaxCalls /\ crossed \subseteq Ids /\ untold \subseteq Ids
    BY <1>3, Bounds
  <2>2. auto \in [Pairs -> Nat] /\ hand \in [Pairs -> Nat]
    BY DEF ToolsInit
  <2>3. store \in {"pg", "sqlite"} /\ tools \in ToolsTogether
    BY DEF ToolsInit
  <2>4. QED
    BY <1>4, <2>1, <2>2, <2>3 DEF TypesOK
<1>6. UnusedBeyond
  BY <1>3 DEF ToolsInit, UnusedBeyond
<1>7. CallsOK /\ \A c \in Callers : call[c] = Free
  BY DEF ToolsInit, CallsOK, CallOK
<1>8. HistoryAgrees
  BY DEF ToolsInit, HistoryAgrees, Unsaid
<1>9. Linkers = {} /\ \A i, j : Holders(i, j) = {}
  BY <1>7 DEF Linkers, Holders, Holds, Free
<1>10. LinkersCounted /\ PairsCounted
  <2>1. IsFiniteSet({}) /\ Cardinality({}) = 0
    BY FS_EmptySet
  <2>2. \A p \in Pairs : auto[p] = 0
    BY DEF ToolsInit
  <2>3. \A i, j \in Ids : auto[<<i, j>>] = 0
    BY <2>2 DEF Pairs
  <2>4. QED
    BY <1>3, <1>9, <2>1, <2>3 DEF LinkersCounted, PairsCounted
<1>11. QED
  BY <1>5, <1>6, <1>7, <1>8, <1>10 DEF ToolsInv

LEMMA ToolsInvStep == ToolsInv /\ [ToolsNext]_toolVars => ToolsInv'
<1> SUFFICES ASSUME ToolsInv, [ToolsNext]_toolVars
             PROVE  ToolsInv'
  OBVIOUS
<1>1. CASE ToolsNext
  BY <1>1, AskKeeps, LoadKeeps, CommitKeeps, CommitFailsKeeps, FindSimilarKeeps, CheckLinkKeeps,
     FinishLinksKeeps, AddNoteKeeps, AddLinkKeeps, RemoveNoteKeeps DEF ToolsNext
<1>2. CASE UNCHANGED toolVars
  BY <1>2 DEF toolVars, ToolsInv, TypesOK, UnusedBeyond, HistoryAgrees, CallsOK, CallOK, LoadCall,
              CommitCall, Requests, LinkersCounted, Linkers, PairsCounted, Holders, Holds
<1>3. QED
  BY <1>1, <1>2

LEMMA ToolsSpecInv == ToolsSpec => []ToolsInv
BY ToolsInitInv, ToolsInvStep, PTL DEF ToolsSpec

\* Type correctness of the notes, the calls and the links.
THEOREM ToolsTypeCorrect == ToolsSpec => []ToolsTypeOK
<1>1. ToolsInv => ToolsTypeOK
  <2> SUFFICES ASSUME ToolsInv
               PROVE  ToolsTypeOK
    OBVIOUS
  <2>1. \A i \in Ids : note[i].exists => i <= made
    BY GivenIds
  <2>2. \A c \in Callers : ~Idle(c) => call[c].note \in Ids
    BY CallKinds DEF ToolsInv, CallsOK, Idle
  <2>3. QED
    BY <2>1, <2>2 DEF ToolsInv, TypesOK, LinkersCounted, ToolsTypeOK
<1>2. QED
  BY <1>1, ToolsSpecInv, PTL

\* The last row of history that names a field of a note names its value, unless
\* para_reclassify wrote the deadline since, which its history does not name, or
\* the note changed between the load and the commit of a call on PostgreSQL.
THEOREM HistoryAgreesAlways == ToolsSpec => []HistoryAgrees
BY ToolsSpecInv, PTL DEF ToolsInv

\* The links the workers make between two notes are at most as many as the link
\* handlers that were at work at once, whatever is linked by hand or deleted.
THEOREM AutoLinksAreBounded == ToolsSpec => []AutoLinksBounded
<1>1. ToolsInv => AutoLinksBounded
  <2> SUFFICES ASSUME ToolsInv, NEW i \in Ids, NEW j \in Ids, i # j
               PROVE  auto[<<i, j>>] + auto[<<j, i>>] <= peak
    BY DEF AutoLinksBounded
  <2>1. auto[<<i, j>>] + auto[<<j, i>>] + Cardinality(Holders(i, j)) <= peak
    BY DEF ToolsInv, PairsCounted
  <2>2. QED
    BY <2>1, LinksTyped, HoldersLink
<1>2. QED
  BY <1>1, ToolsSpecInv, PTL

\* A next instance comes only in the transaction that closes its note, one
\* interval after the deadline that note has; only a change of the note between
\* the load and the commit of the call excuses another deadline.
THEOREM SeriesAlwaysAdvances == ToolsSpec => SeriesAdvances
<1>1. ToolsInv /\ [ToolsNext]_toolVars =>
        [ \A i \in Ids : i > made /\ note'[i].from # 0 =>
            LET n == note'[i].from IN
            /\ i = made + 1 /\ note[n].exists
            /\ \/ /\ note'[n].status # "active"
                  /\ note[n].due # 0 => note'[i].due = note[n].due + Interval
                  /\ note[n].due = 0 => note'[i].due > Today
               \/ n \in crossed'
        ]_toolVars
  <2> SUFFICES ASSUME ToolsInv, ToolsNext, NEW i \in Ids, i > made, note'[i].from # 0
               PROVE  LET n == note'[i].from IN
                      /\ i = made + 1 /\ note[n].exists
                      /\ \/ /\ note'[n].status # "active"
                            /\ note[n].due # 0 => note'[i].due = note[n].due + Interval
                            /\ note[n].due = 0 => note'[i].due > Today
                         \/ n \in crossed'
    OBVIOUS
  <2>1. PICK c \in Callers : Commit(c) /\ Spawns(call[c]) /\ i = made + 1
    BY OnlyClosersSpawn
  <2>2. QED
    BY <2>1, SpawnAdvances
<1>2. QED
  BY <1>1, ToolsSpecInv, PTL DEF ToolsSpec, SeriesAdvances

=============================================================================
