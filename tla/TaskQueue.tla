----------------------------- MODULE TaskQueue -----------------------------
(***************************************************************************)
(* The Redis-backed task queue of app/task_queue.py as Redis sees it.      *)
(*                                                                         *)
(* A topic has two Redis keys: the list queue:<topic>, filled by LPUSH and *)
(* emptied by RPOP, and the sorted set delay:<topic>, whose members are    *)
(* the JSON texts of delayed tasks and whose scores are due times.  One    *)
(* Redis command is one atomic step; a method that issues several commands *)
(* is several actions.                                                     *)
(*                                                                         *)
(* The module holds the publishing side (publish, the clock, key eviction  *)
(* by the server) and the operators of the consuming side; the processes   *)
(* that consume are in module Worker, which extends this one.              *)
(***************************************************************************)
EXTENDS Naturals, Sequences, FiniteSets

CONSTANTS
    Topics,        \* the topics of TOPICS
    Bodies,        \* JSON texts; equal payloads give equal texts
    Delays,        \* the positive delays publish is called with
    MaxTasks,      \* bound: calls of publish
    MaxNow,        \* bound: the clock
    MaxEvictions   \* bound: keys the server evicts

ASSUME QueueAssumption ==
    /\ MaxTasks \in Nat
    /\ MaxNow \in Nat
    /\ MaxEvictions \in Nat
    /\ Delays \subseteq Nat \ {0}

VARIABLES
    queue,      \* queue[t]: the list queue:<t>; position 1 is the RPOP end
    delayed,    \* delayed[t]: the sorted set delay:<t>
    zadding,    \* delayed tasks with a computed score whose ZADD is on its way
    now,        \* time.time(), in whole units
    published,  \* tasks published so far; the next one has id published + 1
    evictions,  \* keys evicted so far
    evicted,    \* ids that left Redis with an evicted key
    merged,     \* ids whose member a later ZADD of the same text re-scored
    scheduled,  \* ids published with a delay
    late        \* ids whose ZADD reached Redis when they were already due

bookVars == <<now, published, evictions, evicted, merged, scheduled, late>>
queueVars == <<queue, delayed, zadding, bookVars>>

Ids == 1..MaxTasks

\* A task. The id names one call of publish: it is not in the JSON text, and
\* two calls with equal payloads differ in nothing else.
Task == [id : Ids, body : Bodies]

\* A member of a sorted set with its score.
Entry == [task : Task, due : Nat]

QueueTypeOK ==
    /\ queue \in [Topics -> Seq(Task)]
    /\ delayed \in [Topics -> SUBSET Entry]
    /\ zadding \subseteq [topic : Topics, entry : Entry]
    /\ now \in Nat
    /\ published \in 0..MaxTasks
    /\ evictions \in 0..MaxEvictions
    /\ evicted \subseteq Ids
    /\ merged \subseteq Ids
    /\ scheduled \subseteq Ids
    /\ late \subseteq Ids

QueueInit ==
    /\ queue = [t \in Topics |-> <<>>]
    /\ delayed = [t \in Topics |-> {}]
    /\ zadding = {}
    /\ now = 0
    /\ published = 0
    /\ evictions = 0
    /\ evicted = {}
    /\ merged = {}
    /\ scheduled = {}
    /\ late = {}

IdsIn(s) == {s[i].id : i \in DOMAIN s}

(***************************************************************************)
(* Publishing                                                              *)
(***************************************************************************)

\* Slip: the list is used as a stack.
LPushAtRPopEnd(s, task) == <<task>> \o s

\* LPUSH: the element joins the end that RPOP reaches last.
LPush(s, task) == Append(s, task)

\* publish with delay = 0: one LPUSH.
Publish(t, b) ==
    /\ published < MaxTasks
    /\ published' = published + 1
    /\ queue' = [queue EXCEPT ![t] =
                    LPush(@, [id |-> published + 1, body |-> b])]
    /\ UNCHANGED <<delayed, zadding, now, evictions, evicted, merged,
                   scheduled, late>>

\* publish with delay > 0, up to the await of ZADD: the score is computed here.
Schedule(t, b, d) ==
    /\ published < MaxTasks
    /\ published' = published + 1
    /\ zadding' = zadding \cup
         {[topic |-> t,
           entry |-> [task |-> [id |-> published + 1, body |-> b],
                      due  |-> now + d]]}
    /\ scheduled' = scheduled \cup {published + 1}
    /\ UNCHANGED <<queue, delayed, now, evictions, evicted, merged, late>>

\* ZADD reaches Redis. A member with the same text is kept once, re-scored.
ZAdd(z) ==
    LET same == {e \in delayed[z.topic] : e.task.body = z.entry.task.body}
    IN  /\ z \in zadding
        /\ zadding' = zadding \ {z}
        /\ delayed' = [delayed EXCEPT ![z.topic] = (@ \ same) \cup {z.entry}]
        /\ merged' = merged \cup {e.task.id : e \in same}
        /\ late' = IF z.entry.due <= now THEN late \cup {z.entry.task.id} ELSE late
        /\ UNCHANGED <<queue, now, published, evictions, evicted, scheduled>>

Tick ==
    /\ now < MaxNow
    /\ now' = now + 1
    /\ UNCHANGED <<queue, delayed, zadding, published, evictions, evicted,
                   merged, scheduled, late>>

\* The server runs with maxmemory-policy allkeys-lru: under memory pressure it
\* may drop any whole key.
EvictQueue(t) ==
    /\ evictions < MaxEvictions
    /\ queue[t] # <<>>
    /\ evictions' = evictions + 1
    /\ evicted' = evicted \cup IdsIn(queue[t])
    /\ queue' = [queue EXCEPT ![t] = <<>>]
    /\ UNCHANGED <<delayed, zadding, now, published, merged, scheduled, late>>

EvictDelayed(t) ==
    /\ evictions < MaxEvictions
    /\ delayed[t] # {}
    /\ evictions' = evictions + 1
    /\ evicted' = evicted \cup {e.task.id : e \in delayed[t]}
    /\ delayed' = [delayed EXCEPT ![t] = {}]
    /\ UNCHANGED <<queue, zadding, now, published, merged, scheduled, late>>

QueueNext ==
    \/ \E t \in Topics, b \in Bodies : Publish(t, b)
    \/ \E t \in Topics, b \in Bodies, d \in Delays : Schedule(t, b, d)
    \/ \E z \in zadding : ZAdd(z)
    \/ Tick
    \/ \E t \in Topics : EvictQueue(t)
    \/ \E t \in Topics : EvictDelayed(t)

(***************************************************************************)
(* The commands of consume and _flush_delayed                              *)
(***************************************************************************)

\* ZRANGEBYSCORE -inf cutoff
Expired(t, cutoff) == {e \in delayed[t] : e.due <= cutoff}

\* Slips: the whole key is deleted; the upper bound is exclusive.
RemRangeAll(t, cutoff) == {}
RemRangeExclusive(t, cutoff) == {e \in delayed[t] : e.due >= cutoff}

\* What ZREMRANGEBYSCORE -inf cutoff leaves
RemRange(t, cutoff) == {e \in delayed[t] : e.due > cutoff}

\* The members come back in the order of their scores.
First(entries) == {e \in entries : \A f \in entries : e.due <= f.due}

=============================================================================
