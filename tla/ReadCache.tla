----------------------------- MODULE ReadCache -----------------------------
(***************************************************************************)
(* Overviews of the notes: the tree and the counts of the API, which it    *)
(* keeps in Redis, and the counts and the digest of the tools, which are   *)
(* computed anew.  An overview is put together from several queries while  *)
(* notes move, and nothing takes it out of the cache when they do: only    *)
(* its time to live bounds how old an answer is.                           *)
(***************************************************************************)
EXTENDS Naturals, Sequences, FiniteSets, SequencesExt

CONSTANTS
    Pages,       \* the notes
    Shelves,     \* PARA_CATEGORIES, a sequence
    Readers,     \* requests at once
    Ttl,         \* ticks
    MaxSlow,     \* bound: ticks from the first query to the answer
    MaxMoves     \* bound: moves

ASSUME CacheAssumption ==
    /\ Shelves \in Seq(ToSet(Shelves)) /\ "nowhere" \notin ToSet(Shelves)
    /\ {Ttl, MaxSlow, MaxMoves} \subseteq Nat

VARIABLES
    shelf,      \* shelf[n]: where note n is, or "nowhere"
    was,        \* was[n][t]: where note n was t ticks ago
    cached,     \* cached[k]: the value under a key and the ticks it has left
    reader,     \* reader[r]: the request r
    answers,    \* what has just been answered
    moves

cacheVars == <<shelf, was, cached, reader, answers, moves>>

Kept == {"tree", "stats"}
Nothing == [value |-> "none"]
NoReader == [stage |-> "none"]
Empty == [all |-> {}, on |-> [c \in ToSet(Shelves) |-> {}]]
There == {n \in Pages : shelf[n] # "nowhere"}
Ticks == 0..(MaxSlow + Ttl)
OnShelf(c) == {n \in Pages : shelf[n] = c}

CacheInit ==
    /\ shelf \in [Pages -> ToSet(Shelves) \cup {"nowhere"}]
    /\ was = [n \in Pages |-> [t \in Ticks |-> {shelf[n]}]]
    /\ answers = {} /\ moves = 0
    /\ cached = [k \in Kept |-> Nothing]
    /\ reader = [r \in Readers |-> NoReader]

Stays == UNCHANGED <<shelf, was, moves>>
Answer(what, view) == answers' = {[what |-> what, view |-> view]}
NoAnswer == answers' = {}

\* Slip: a hit renews the time to live.
Renewed(entry) == [entry EXCEPT !.left = Ttl]

\* get leaves the entry as it is.
AfterGet(entry) == entry

\* What is in the cache is the answer.
Hit(r, k) ==
    /\ reader[r] = NoReader /\ cached[k] # Nothing
    /\ Answer(k, cached[k].value)
    /\ cached' = [cached EXCEPT ![k] = AfterGet(@)]
    /\ UNCHANGED reader /\ Stays

\* Otherwise the queries begin.
Miss(r, k) ==
    /\ reader[r] = NoReader /\ cached[k] = Nothing
    /\ reader' = [reader EXCEPT ![r] = [stage |-> IF k = "stats" THEN "total" ELSE "shelves",
                     what |-> k, view |-> Empty, next |-> 1, age |-> 0]]
    /\ UNCHANGED cached /\ NoAnswer /\ Stays

\* A tool does not ask the cache.
ToolReads(r) ==
    /\ reader[r] = NoReader
    /\ reader' = [reader EXCEPT ![r] = [stage |-> "total", what |-> "tool", view |-> Empty,
                     next |-> 1, age |-> 0]]
    /\ UNCHANGED cached /\ NoAnswer /\ Stays

\* All notes are counted first,
Total(r) ==
    /\ reader[r].stage = "total"
    /\ reader' = [reader EXCEPT ![r].view.all = There,
                    ![r].stage = IF reader[r].what = "tool" THEN "grouped" ELSE "shelves"]
    /\ UNCHANGED cached /\ NoAnswer /\ Stays

\* then those of one category after the other,
OneShelf(r) ==
    /\ reader[r].stage = "shelves" /\ reader[r].next <= Len(Shelves)
    /\ reader' = [reader EXCEPT ![r].view.on[Shelves[reader[r].next]] = OnShelf(Shelves[reader[r].next]),
                                ![r].next = @ + 1]
    /\ UNCHANGED cached /\ NoAnswer /\ Stays

\* or of all in one query.
AllShelves(r) ==
    /\ reader[r].stage = "grouped"
    /\ Answer("tool", [all |-> reader[r].view.all, on |-> [c \in ToSet(Shelves) |-> OnShelf(c)]])
    /\ reader' = [reader EXCEPT ![r] = NoReader]
    /\ UNCHANGED cached /\ Stays

\* The value is stored, whatever is there by now, and answered.
SetEx(r) ==
    /\ reader[r].stage = "shelves" /\ reader[r].next > Len(Shelves)
    /\ cached' = [cached EXCEPT ![reader[r].what] = [value |-> reader[r].view, left |-> Ttl]]
    /\ Answer(reader[r].what, reader[r].view)
    /\ reader' = [reader EXCEPT ![r] = NoReader]
    /\ Stays

\* Redis or the database fails: the request does too.
ReaderFails(r) ==
    /\ reader[r] # NoReader
    /\ reader' = [reader EXCEPT ![r] = NoReader]
    /\ UNCHANGED cached /\ NoAnswer /\ Stays

\* The time to live ends within a tick; Redis may drop the key before.
Expire(k) ==
    /\ cached[k] # Nothing
    /\ cached' = [cached EXCEPT ![k] = Nothing]
    /\ UNCHANGED reader /\ NoAnswer /\ Stays

NextTick ==
    /\ \A r \in Readers : reader[r] # NoReader => reader[r].age < MaxSlow
    /\ reader' = [r \in Readers |-> IF reader[r] = NoReader THEN NoReader
                                    ELSE [reader[r] EXCEPT !.age = @ + 1]]
    /\ cached' = [k \in Kept |-> IF cached[k] = Nothing \/ cached[k].left = 0 THEN Nothing
                                 ELSE [cached[k] EXCEPT !.left = @ - 1]]
    /\ was' = [n \in Pages |-> [t \in Ticks |-> IF t = 0 THEN {shelf[n]} ELSE was[n][t - 1]]]
    /\ NoAnswer /\ UNCHANGED <<shelf, moves>>

\* A note is made, moved or deleted.
Shelve(n, c) ==
    /\ moves < MaxMoves /\ moves' = moves + 1 /\ shelf[n] # c
    /\ shelf' = [shelf EXCEPT ![n] = c]
    /\ was' = [was EXCEPT ![n][0] = @ \cup {c}]
    /\ NoAnswer /\ UNCHANGED <<cached, reader>>

\* The keys have nothing to do with one another: a behaviour is about one.
CacheNext(key) ==
    \/ \E r \in Readers :
         \/ Hit(r, key) \/ Miss(r, key)
         \/ ToolReads(r) \/ Total(r) \/ OneShelf(r) \/ AllShelves(r) \/ SetEx(r) \/ ReaderFails(r)
    \/ Expire(key)
    \/ \E n \in Pages, c \in ToSet(Shelves) \cup {"nowhere"} : Shelve(n, c)
    \/ NextTick

(***************************************************************************)
(* Properties                                                              *)
(***************************************************************************)

\* Where a note was in the last ticks an answer may be from: a tool's is as old
\* as its queries, that of the API up to a time to live older.
Lately(n, what) == UNION {was[n][t] : t \in 0..(MaxSlow + IF what = "tool" THEN 0 ELSE Ttl)}

\* An overview has a note in a category only if it was there in the last ticks,
\* and has every note that stayed in one category during them exactly there, in
\* the total as well. Twice, or nowhere, it has only a note that moved.
AnswersFresh ==
    \A a \in answers : \A n \in Pages :
      LET late == Lately(n, a.what)
          seen == {c \in ToSet(Shelves) : n \in a.view.on[c]}
      IN
      /\ seen \subseteq late
      /\ Cardinality(late) = 1 => seen = late \ {"nowhere"}
      /\ a.what # "tree" /\ Cardinality(late) = 1 => (n \in a.view.all <=> late # {"nowhere"})
=============================================================================
