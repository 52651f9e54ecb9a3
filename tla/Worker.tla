------------------------------- MODULE Worker -------------------------------
(***************************************************************************)
(* The worker processes of app/worker.py over the queue of TaskQueue:      *)
(* worker_loop, the retry wrapper of every handler, and the ways a worker  *)
(* stops (signal, crash, a Redis error that ends its loop).                *)
(*                                                                         *)
(* A worker visits the topics in rounds.  On a topic it runs               *)
(* _flush_delayed, pops up to Batch tasks, then runs the handler of each   *)
(* popped task up to MaxAttempts times.  What a handler does is reduced to *)
(* one external effect (a Telegram message, a write that survives): an     *)
(* attempt may raise before the effect or after it.                        *)
(***************************************************************************)
EXTENDS TaskQueue

CONSTANTS
    Workers,          \* the worker processes
    Batch,            \* consume's batch: 5 in worker_loop
    MaxAttempts,      \* retry's max_attempts: 3
    MaxInterruptions  \* bound: crashes, shutdowns and Redis errors

ASSUME WorkerAssumption ==
    /\ IsFiniteSet(Workers)
    /\ Batch \in Nat \ {0}
    /\ MaxAttempts \in Nat \ {0}
    /\ MaxInterruptions \in Nat

VARIABLES
    pc,            \* pc[w]: where the process is
    round,         \* round[w]: topics the current pass of the for loop has left
    at,            \* at[w]: the topic being served
    cutoff,        \* cutoff[w]: the time _flush_delayed read
    moving,        \* moving[w]: expired entries still to be pushed
    batch,         \* batch[w]: tasks popped and not finished
    tries,         \* tries[w]: attempts of Head(batch[w]) that raised
    interruptions, \* crashes, shutdowns and Redis errors so far
    lost,          \* ids that were in the memory of a worker that was stopped
    ended,         \* ids whose handler returned, or raised MaxAttempts times
    taken,         \* taken[i]: times task i was popped
    effects,       \* effects[w]: times the effect of Head(batch[w]) happened
    lastTaken      \* lastTaken[t]: the latest undelayed task popped from t

loopVars == <<round, at>>
flushVars == <<cutoff, moving>>
taskVars == <<batch, tries, effects>>
ghostVars == <<interruptions, lost, ended, taken, lastTaken>>
workerVars == <<pc, loopVars, flushVars, taskVars, ghostVars>>
vars == <<queueVars, workerVars>>

\* "round" also stands for the sleep between two passes; a "stalled" worker is
\* a live process whose loop has ended.
Locations == {"round", "flush", "push", "remove", "pop", "run", "finish",
              "backoff", "stalled", "down"}

WorkerTypeOK ==
    /\ pc \in [Workers -> Locations]
    /\ round \in [Workers -> SUBSET Topics]
    /\ at \in [Workers -> Topics]
    /\ cutoff \in [Workers -> Nat]
    /\ moving \in [Workers -> SUBSET Entry]
    /\ batch \in [Workers -> Seq(Task)]
    /\ tries \in [Workers -> 0..(MaxAttempts - 1)]
    /\ interruptions \in 0..MaxInterruptions
    /\ lost \subseteq Ids
    /\ ended \subseteq Ids
    /\ taken \in [Ids -> Nat]
    /\ effects \in [Workers -> Nat]
    /\ lastTaken \in [Topics -> Nat]

TypeOK == QueueTypeOK /\ WorkerTypeOK

Init ==
    /\ QueueInit
    /\ pc = [w \in Workers |-> "round"]
    /\ round = [w \in Workers |-> Topics]
    /\ at \in [Workers -> Topics]
    /\ cutoff = [w \in Workers |-> 0]
    /\ moving = [w \in Workers |-> {}]
    /\ batch = [w \in Workers |-> <<>>]
    /\ tries = [w \in Workers |-> 0]
    /\ interruptions = 0
    /\ lost = {}
    /\ ended = {}
    /\ taken = [i \in Ids |-> 0]
    /\ effects = [w \in Workers |-> 0]
    /\ lastTaken = [t \in Topics |-> 0]

(***************************************************************************)
(* The loop                                                                *)
(***************************************************************************)

Goto(w, l) == pc' = [pc EXCEPT ![w] = l]

\* The next topic of the pass. TOPICS is a frozenset: any order.
NextTopic(w) ==
    /\ pc[w] = "round"
    /\ \E t \in round[w] :
         /\ at' = [at EXCEPT ![w] = t]
         /\ round' = [round EXCEPT ![w] = @ \ {t}]
    /\ Goto(w, "flush")
    /\ UNCHANGED <<queueVars, flushVars, taskVars, ghostVars>>

\* Slip: the pass starts again with the topic it served last.
NextRoundSameTopic(w) ==
    /\ pc[w] = "round"
    /\ round[w] = {}
    /\ round' = [round EXCEPT ![w] = {at[w]}]
    /\ UNCHANGED <<queueVars, pc, flushVars, taskVars, ghostVars, at>>

\* The pass is over: sleep a second and start again.
NextRound(w) ==
    /\ pc[w] = "round"
    /\ round[w] = {}
    /\ round' = [round EXCEPT ![w] = Topics]
    /\ UNCHANGED <<queueVars, pc, flushVars, taskVars, ghostVars, at>>

\* _flush_delayed reads the clock and the expired members.
FlushRead(w) ==
    /\ pc[w] = "flush"
    /\ moving' = [moving EXCEPT ![w] = Expired(at[w], now)]
    /\ IF Expired(at[w], now) = {}
         THEN Goto(w, "pop") /\ UNCHANGED cutoff
         ELSE Goto(w, "push") /\ cutoff' = [cutoff EXCEPT ![w] = now]
    /\ UNCHANGED <<queueVars, loopVars, taskVars, ghostVars>>

\* ... pushes them one LPUSH at a time ...
FlushPush(w) ==
    /\ pc[w] = "push"
    /\ \E e \in First(moving[w]) :
         /\ queue' = [queue EXCEPT ![at[w]] = LPush(@, e.task)]
         /\ moving' = [moving EXCEPT ![w] = @ \ {e}]
         /\ Goto(w, IF moving[w] = {e} THEN "remove" ELSE "push")
    /\ UNCHANGED <<delayed, zadding, bookVars, loopVars, taskVars, ghostVars, cutoff>>

\* ... and removes what is due by the time it read from the sorted set.
FlushRemove(w) ==
    /\ pc[w] = "remove"
    /\ delayed' = [delayed EXCEPT ![at[w]] = RemRange(at[w], cutoff[w])]
    /\ cutoff' = [cutoff EXCEPT ![w] = 0]
    /\ Goto(w, "pop")
    /\ UNCHANGED <<queue, zadding, bookVars, loopVars, taskVars, ghostVars, moving>>

\* Slip: one iteration too many.
RoomForOneMore(w) == Len(batch[w]) <= Batch

\* The for loop of consume has iterations left.
Room(w) == Len(batch[w]) < Batch

\* RPOP of consume: destructive, with no acknowledgement to come.
Pop(w) ==
    LET t == at[w]
        task == Head(queue[t])
    IN  /\ pc[w] = "pop"
        /\ queue[t] # <<>>
        /\ Room(w)
        /\ queue' = [queue EXCEPT ![t] = Tail(@)]
        /\ batch' = [batch EXCEPT ![w] = Append(@, task)]
        /\ taken' = [taken EXCEPT ![task.id] = @ + 1]
        /\ lastTaken' = IF task.id \in scheduled THEN lastTaken
                        ELSE [lastTaken EXCEPT ![t] = task.id]
        /\ UNCHANGED <<delayed, zadding, bookVars, pc, loopVars, flushVars, tries,
                       interruptions, lost, ended, effects>>

\* consume returns: the list is empty or the batch is full.
PopEnd(w) ==
    /\ pc[w] = "pop"
    /\ queue[at[w]] = <<>> \/ ~Room(w)
    /\ Goto(w, IF batch[w] = <<>> THEN "round" ELSE "run")
    /\ UNCHANGED <<queueVars, loopVars, flushVars, taskVars, ghostVars>>

(***************************************************************************)
(* One task under the retry wrapper                                        *)
(***************************************************************************)

\* The attempt performs the handler's external effect.
Perform(w) ==
    /\ pc[w] = "run"
    /\ effects' = [effects EXCEPT ![w] = @ + 1]
    /\ Goto(w, "finish")
    /\ UNCHANGED <<queueVars, loopVars, flushVars, ghostVars, batch, tries>>

\* The for loop of worker_loop goes on to the next task of the batch.
NextTask(w) ==
    /\ batch' = [batch EXCEPT ![w] = Tail(@)]
    /\ tries' = [tries EXCEPT ![w] = 0]
    /\ effects' = [effects EXCEPT ![w] = 0]
    /\ Goto(w, IF Len(batch[w]) = 1 THEN "round" ELSE "run")

\* The handler returns, with its effect or without (the note is gone).
Return(w) ==
    /\ pc[w] \in {"run", "finish"}
    /\ ended' = ended \cup {Head(batch[w]).id}
    /\ NextTask(w)
    /\ UNCHANGED <<queueVars, loopVars, flushVars, interruptions, lost, taken, lastTaken>>

\* Slip: attempt is compared with max_attempts, one too late.
LastAttemptLate(w) == tries[w] = MaxAttempts

LastAttempt(w) == tries[w] + 1 = MaxAttempts

\* The handler raises, before or after its effect, and attempts are left.
Raise(w) ==
    /\ pc[w] \in {"run", "finish"}
    /\ ~LastAttempt(w)
    /\ tries' = [tries EXCEPT ![w] = @ + 1]
    /\ Goto(w, "backoff")
    /\ UNCHANGED <<queueVars, loopVars, flushVars, ghostVars, batch, effects>>

Backoff(w) ==
    /\ pc[w] = "backoff"
    /\ Goto(w, "run")
    /\ UNCHANGED <<queueVars, loopVars, flushVars, taskVars, ghostVars>>

\* Slip: the failed task is put back for another round of attempts.
DropAndRequeue(w) ==
    /\ pc[w] \in {"run", "finish"}
    /\ LastAttempt(w)
    /\ queue' = [queue EXCEPT ![at[w]] = LPush(@, Head(batch[w]))]
    /\ NextTask(w)
    /\ UNCHANGED <<delayed, zadding, bookVars, loopVars, flushVars, ghostVars>>

\* It raises for the last time: worker_loop logs the exception and drops the task.
Drop(w) ==
    /\ pc[w] \in {"run", "finish"}
    /\ LastAttempt(w)
    /\ ended' = ended \cup {Head(batch[w]).id}
    /\ NextTask(w)
    /\ UNCHANGED <<queueVars, loopVars, flushVars, interruptions, lost, taken, lastTaken>>

(***************************************************************************)
(* How a worker stops                                                      *)
(***************************************************************************)

\* What the process held in memory is gone with it; a new loop starts a new pass.
Interrupt(w, l) ==
    /\ interruptions < MaxInterruptions
    /\ interruptions' = interruptions + 1
    /\ lost' = lost \cup IdsIn(batch[w])
    /\ batch' = [batch EXCEPT ![w] = <<>>]
    /\ moving' = [moving EXCEPT ![w] = {}]
    /\ tries' = [tries EXCEPT ![w] = 0]
    /\ effects' = [effects EXCEPT ![w] = 0]
    /\ cutoff' = [cutoff EXCEPT ![w] = 0]
    /\ round' = [round EXCEPT ![w] = Topics]
    /\ Goto(w, l)
    /\ UNCHANGED <<queueVars, at, ended, taken, lastTaken>>

\* A Redis command of consume raises. worker_loop has no handler around
\* consume: the task of the loop ends while main waits for the signal.
RedisError(w) ==
    /\ pc[w] \in {"flush", "push", "remove", "pop"}
    /\ Interrupt(w, "stalled")

\* SIGTERM cancels the loop at whatever await it is in; a kill has the same effect.
Stop(w) ==
    /\ pc[w] # "down"
    /\ Interrupt(w, "down")

\* The container is started again.
Restart(w) ==
    /\ pc[w] = "down"
    /\ Goto(w, "round")
    /\ UNCHANGED <<queueVars, loopVars, flushVars, taskVars, ghostVars>>

Progress(w) ==
    \/ NextTopic(w) \/ NextRound(w)
    \/ FlushRead(w) \/ FlushPush(w) \/ FlushRemove(w)
    \/ Pop(w) \/ PopEnd(w)
    \/ Perform(w) \/ Return(w) \/ Raise(w) \/ Backoff(w) \/ Drop(w)
    \/ Restart(w)

Next ==
    \/ QueueNext /\ UNCHANGED workerVars
    \/ \E w \in Workers : Progress(w) \/ RedisError(w) \/ Stop(w)

Spec == Init /\ [][Next]_vars

\* A live process keeps running (asyncio), a stopped container is restarted
\* (restart: unless-stopped), a ZADD that was sent arrives. Nothing makes a
\* stalled worker move.
Fairness ==
    /\ \A w \in Workers : WF_vars(Progress(w))
    /\ WF_vars(\E z \in zadding : ZAdd(z) /\ UNCHANGED workerVars)

FairSpec == Spec /\ Fairness

(***************************************************************************)
(* Properties                                                              *)
(***************************************************************************)

Holds(w) == IdsIn(batch[w]) \cup {e.task.id : e \in moving[w]}

\* Where a task can be while somebody still answers for it.
Queued == UNION {IdsIn(queue[t]) : t \in Topics}
Sorted == UNION {{e.task.id : e \in delayed[t]} : t \in Topics}
OnItsWay == {z.entry.task.id : z \in zadding}
InHand == UNION {Holds(w) : w \in Workers}

\* No task vanishes without a cause the design admits: a published task is
\* queued, delayed, on its way or in a worker's hands, or its handler was run to
\* an end, or it was lost with a process or a key, or its text was scheduled
\* again, or its ZADD came when it was already due (ZREMRANGEBYSCORE of
\* _flush_delayed then removes what its ZRANGEBYSCORE never saw).
NothingVanishes ==
    1..published \subseteq Queued \cup Sorted \cup OnItsWay \cup InHand \cup ended
                         \cup lost \cup evicted \cup merged \cup late

\* An undelayed task is popped after every undelayed task popped before it from
\* the same topic: first in, first out, and never a second time, however many
\* workers pop and however they are interrupted.
TakenInOrder ==
    [][\A w \in Workers :
          Len(batch'[w]) > Len(batch[w]) =>
              LET task == batch'[w][Len(batch'[w])]
              IN  task.id \notin scheduled => task.id > lastTaken[at[w]]]_vars

\* A single worker that was never interrupted hands out no task twice. (What it takes
\* is a stop between the LPUSHes and the ZREMRANGEBYSCORE of a flush; the property
\* does not tell one interruption from another.)
DuplicateNeedsInterruption ==
    Cardinality(Workers) = 1 /\ interruptions = 0 => \A i \in Ids : taken[i] <= 1

\* The retry wrapper repeats a handler's effect at most MaxAttempts times for
\* each time the task was handed out: the duplicates a receiver can see.
EffectsBounded == \A w \in Workers : effects[w] <= MaxAttempts

\* A stopped worker takes at most one batch of tasks with it.
LossBounded == Cardinality(lost) <= Batch * interruptions

\* A task in a list, or due in a sorted set, does not stay in Redis for ever: a
\* worker pops it, unless every worker is stalled.
Due == UNION {{e.task.id : e \in Expired(t, now)} : t \in Topics}
EventuallyTaken ==
    \A i \in Ids : i \in Queued \cup Due ~>
        \/ i \notin Queued \cup Due
        \/ \A w \in Workers : pc[w] = "stalled"

\* Durable: a published task is not lost before its handler was run to an end.
Durable ==
    1..published \subseteq Queued \cup Sorted \cup OnItsWay \cup InHand \cup ended
                         \cup merged \cup late

(***************************************************************************)
(* The promise of TaskDelivery, of the tasks published without a delay     *)
(***************************************************************************)

WaitingIn(t) == IdsIn(queue[t]) \ scheduled
TakenNow == (UNION {IdsIn(batch[w]) : w \in Workers}) \ scheduled

Delivery == INSTANCE TaskDelivery
                WITH high <- published,
                     waiting <- [t \in Topics |-> WaitingIn(t)],
                     taken <- TakenNow

\* The workers and the queue implement the delivery promise.
RefinesDelivery == Delivery!Spec

=============================================================================
