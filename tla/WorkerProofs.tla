---------------------------- MODULE WorkerProofs ----------------------------
(***************************************************************************)
(* Theorems about Worker, for every set of topics, bodies, delays and      *)
(* workers, every batch size and number of attempts, and every bound.      *)
(***************************************************************************)
EXTENDS Worker, SequenceTheorems, FiniteSetTheorems, FunctionTheorems, TLAPS

\* The groups of variables are only a way to write UNCHANGED shortly.
USE DEF bookVars, loopVars, flushVars, taskVars, ghostVars

(***************************************************************************)
(* The inductive invariant: types, and that a worker which runs a handler  *)
(* has a task in hand.                                                     *)
(***************************************************************************)
InHandler == {"run", "finish", "backoff"}

HandlerHasTask == \A w \in Workers : pc[w] \in InHandler => batch[w] # <<>>

TypeInv == QueueTypeOK /\ WorkerTypeOK /\ HandlerHasTask

LEMMA IdsInTask ==
    ASSUME NEW s \in Seq(Task)
    PROVE  IdsIn(s) \subseteq Ids
<1>1. \A i \in DOMAIN s : s[i] \in Task
  OBVIOUS
<1>2. \A i \in DOMAIN s : s[i].id \in Ids
  BY <1>1 DEF Task
<1>3. QED
  BY <1>2 DEF IdsIn

LEMMA HeadTail ==
    ASSUME NEW s \in Seq(Task), s # <<>>
    PROVE  /\ Head(s) \in Task /\ Head(s).id \in Ids
           /\ Tail(s) \in Seq(Task)
           /\ Len(s) # 1 => Tail(s) # <<>>
<1>1. Head(s) \in Task /\ Tail(s) \in Seq(Task) /\ Len(Tail(s)) = Len(s) - 1
  BY HeadTailProperties
<1>2. Len(s) \in Nat
  OBVIOUS
<1>3. Len(s) # 1 => Tail(s) # <<>>
  BY <1>1, <1>2
<1>4. QED
  BY <1>1, <1>3 DEF Task

LEMMA InitTypeInv == Init => TypeInv
BY QueueAssumption, WorkerAssumption
   DEF Init, QueueInit, TypeInv, WorkerTypeOK, QueueTypeOK, HandlerHasTask,
       InHandler, Locations, Ids

\* What a step of the queue alone does to the types.
LEMMA QueueTypes ==
    ASSUME QueueTypeOK, QueueNext
    PROVE  QueueTypeOK'
<1> USE QueueAssumption DEF QueueTypeOK, Ids
<1>1. ASSUME NEW t \in Topics, NEW b \in Bodies, Publish(t, b)
      PROVE  QueueTypeOK'
  <2>1. published + 1 \in Ids /\ published' \in 0..MaxTasks
    BY <1>1 DEF Publish
  <2>2. [id |-> published + 1, body |-> b] \in Task
    BY <2>1 DEF Task
  <2>3. queue' \in [Topics -> Seq(Task)]
    BY <1>1, <2>2 DEF Publish, LPush
  <2>4. QED
    BY <1>1, <2>1, <2>3 DEF Publish
<1>2. ASSUME NEW t \in Topics, NEW b \in Bodies, NEW d \in Delays, Schedule(t, b, d)
      PROVE  QueueTypeOK'
  <2>1. published + 1 \in Ids /\ published' \in 0..MaxTasks
    BY <1>2 DEF Schedule
  <2>2. now + d \in Nat
    OBVIOUS
  <2>3. [topic |-> t, entry |-> [task |-> [id |-> published + 1, body |-> b],
                                 due |-> now + d]]
          \in [topic : Topics, entry : Entry]
    BY <2>1, <2>2 DEF Task, Entry
  <2>4. QED
    BY <1>2, <2>1, <2>3 DEF Schedule
<1>3. ASSUME NEW z \in zadding, ZAdd(z)
      PROVE  QueueTypeOK'
  <2>1. z.topic \in Topics /\ z.entry \in Entry /\ z.entry.task.id \in Ids
    BY DEF Entry, Task
  <2>2. \A e \in delayed[z.topic] : e \in Entry /\ e.task.id \in Ids
    BY <2>1 DEF Entry, Task
  <2>3. delayed' \in [Topics -> SUBSET Entry]
    BY <1>3, <2>1 DEF ZAdd
  <2>4. merged' \subseteq Ids
    BY <1>3, <2>2 DEF ZAdd
  <2>5. late' \subseteq Ids
    BY <1>3, <2>1 DEF ZAdd
  <2>6. zadding' \subseteq [topic : Topics, entry : Entry]
    BY <1>3 DEF ZAdd
  <2>7. QED
    BY <1>3, <2>3, <2>4, <2>5, <2>6 DEF ZAdd
<1>4. CASE Tick
  BY <1>4 DEF Tick
<1>5. ASSUME NEW t \in Topics, EvictQueue(t)
      PROVE  QueueTypeOK'
  <2>1. evictions' \in 0..MaxEvictions
    BY <1>5 DEF EvictQueue
  <2>2. evicted' \subseteq Ids
    BY <1>5, IdsInTask DEF EvictQueue
  <2>3. queue' \in [Topics -> Seq(Task)]
    BY <1>5 DEF EvictQueue
  <2>4. QED
    BY <1>5, <2>1, <2>2, <2>3 DEF EvictQueue
<1>6. ASSUME NEW t \in Topics, EvictDelayed(t)
      PROVE  QueueTypeOK'
  <2>1. evictions' \in 0..MaxEvictions
    BY <1>6 DEF EvictDelayed
  <2>2. \A e \in delayed[t] : e.task.id \in Ids
    BY DEF Entry, Task
  <2>3. evicted' \subseteq Ids
    BY <1>6, <2>2 DEF EvictDelayed
  <2>4. delayed' \in [Topics -> SUBSET Entry]
    BY <1>6 DEF EvictDelayed
  <2>5. QED
    BY <1>6, <2>1, <2>3, <2>4 DEF EvictDelayed
<1>7. QED
  BY <1>1, <1>2, <1>3, <1>4, <1>5, <1>6 DEF QueueNext

\* Queue variables that a step leaves alone keep their types.
LEMMA QueueUnchanged ==
    ASSUME QueueTypeOK, UNCHANGED queueVars
    PROVE  QueueTypeOK'
BY DEF QueueTypeOK, queueVars

\* Steps of the loop that change no queue variable and leave the batch as it is.
LEMMA LoopTypes ==
    ASSUME TypeInv, NEW w \in Workers,
           \/ NextTopic(w) \/ NextRound(w) \/ FlushRead(w) \/ PopEnd(w)
           \/ Perform(w) \/ Raise(w) \/ Backoff(w) \/ Restart(w)
    PROVE  TypeInv'
<1> USE WorkerAssumption
        DEF TypeInv, WorkerTypeOK, HandlerHasTask, InHandler, Locations, Goto
<1>1. CASE NextTopic(w)
  BY <1>1, QueueUnchanged DEF NextTopic
<1>2. CASE NextRound(w)
  BY <1>2, QueueUnchanged DEF NextRound
<1>3. CASE FlushRead(w)
  <2>1. Expired(at[w], now) \in SUBSET Entry /\ now \in Nat
    BY DEF QueueTypeOK, Expired
  <2>2. /\ moving' \in [Workers -> SUBSET Entry]
        /\ cutoff' \in [Workers -> Nat]
        /\ pc' \in [Workers -> Locations]
    <3>1. CASE Expired(at[w], now) = {}
      <4>1. /\ moving' = [moving EXCEPT ![w] = Expired(at[w], now)]
            /\ pc' = [pc EXCEPT ![w] = "pop"] /\ cutoff' = cutoff
        BY <1>3, <3>1 DEF FlushRead
      <4>2. QED
        BY <2>1, <4>1
    <3>2. CASE Expired(at[w], now) # {}
      <4>1. /\ moving' = [moving EXCEPT ![w] = Expired(at[w], now)]
            /\ pc' = [pc EXCEPT ![w] = "push"] /\ cutoff' = [cutoff EXCEPT ![w] = now]
        BY <1>3, <3>2 DEF FlushRead
      <4>2. QED
        BY <2>1, <4>1
    <3>3. QED
      BY <3>1, <3>2
  <2>3. HandlerHasTask'
    BY <1>3 DEF FlushRead
  <2>4. QED
    BY <1>3, <2>2, <2>3, QueueUnchanged DEF FlushRead
<1>4. CASE PopEnd(w)
  BY <1>4, QueueUnchanged DEF PopEnd
<1>5. CASE Perform(w)
  BY <1>5, QueueUnchanged DEF Perform
<1>6. CASE Raise(w)
  <2>1. tries[w] + 1 \in 0..(MaxAttempts - 1)
    BY <1>6 DEF Raise, LastAttempt
  <2>2. QED
    BY <1>6, <2>1, QueueUnchanged DEF Raise
<1>7. CASE Backoff(w)
  BY <1>7, QueueUnchanged DEF Backoff
<1>8. CASE Restart(w)
  BY <1>8, QueueUnchanged DEF Restart
<1>9. QED
  BY <1>1, <1>2, <1>3, <1>4, <1>5, <1>6, <1>7, <1>8

\* Steps that move tasks between Redis and the worker.
LEMMA TransferTypes ==
    ASSUME TypeInv, NEW w \in Workers, FlushPush(w) \/ FlushRemove(w) \/ Pop(w)
    PROVE  TypeInv'
<1> USE WorkerAssumption
        DEF TypeInv, WorkerTypeOK, HandlerHasTask, InHandler, Locations, Goto
<1>1. CASE FlushPush(w)
  <2>1. PICK e \in First(moving[w]) :
          /\ queue' = [queue EXCEPT ![at[w]] = LPush(@, e.task)]
          /\ moving' = [moving EXCEPT ![w] = @ \ {e}]
          /\ Goto(w, IF moving[w] = {e} THEN "remove" ELSE "push")
    BY <1>1 DEF FlushPush
  <2>2. e.task \in Task
    BY <2>1 DEF First, Entry
  <2>3. queue' \in [Topics -> Seq(Task)]
    BY <2>1, <2>2 DEF QueueTypeOK, LPush
  <2>4. QueueTypeOK'
    BY <1>1, <2>3 DEF QueueTypeOK, FlushPush
  <2>5. QED
    BY <1>1, <2>1, <2>4 DEF FlushPush
<1>2. CASE FlushRemove(w)
  <2>1. RemRange(at[w], cutoff[w]) \in SUBSET Entry
    BY DEF QueueTypeOK, RemRange
  <2>2. QueueTypeOK'
    BY <1>2, <2>1 DEF QueueTypeOK, FlushRemove
  <2>3. QED
    BY <1>2, <2>2 DEF FlushRemove
<1>3. CASE Pop(w)
  <2> DEFINE task == Head(queue[at[w]])
  <2>1. queue[at[w]] \in Seq(Task) /\ queue[at[w]] # <<>>
    BY <1>3 DEF Pop, QueueTypeOK
  <2>2. task \in Task /\ task.id \in Ids /\ Tail(queue[at[w]]) \in Seq(Task)
    BY <2>1, HeadTail
  <2>3. task.id \in Nat
    BY <2>2, QueueAssumption DEF Ids
  <2>4. QueueTypeOK'
    BY <1>3, <2>2 DEF QueueTypeOK, Pop
  <2>5. batch' = [batch EXCEPT ![w] = Append(@, task)] /\ pc' = pc
    BY <1>3 DEF Pop
  <2>6. batch' \in [Workers -> Seq(Task)] /\ HandlerHasTask'
    BY <2>2, <2>5
  <2>7. taken' \in [Ids -> Nat]
    <3>1. taken' = [taken EXCEPT ![task.id] = @ + 1]
      BY <1>3 DEF Pop
    <3>2. taken \in [Ids -> Nat] /\ taken[task.id] + 1 \in Nat
      BY <2>2
    <3>3. QED
      BY <3>1, <3>2
  <2>8. lastTaken' \in [Topics -> Nat]
    <3>1. \/ lastTaken' = lastTaken
          \/ lastTaken' = [lastTaken EXCEPT ![at[w]] = task.id]
      BY <1>3 DEF Pop
    <3>2. QED
      BY <2>3, <3>1
  <2>9. QED
    BY <1>3, <2>4, <2>6, <2>7, <2>8 DEF Pop
<1>4. QED
  BY <1>1, <1>2, <1>3

\* Steps that end a task.
LEMMA EndTypes ==
    ASSUME TypeInv, NEW w \in Workers, Return(w) \/ Drop(w)
    PROVE  TypeInv'
<1> USE WorkerAssumption
        DEF TypeInv, WorkerTypeOK, HandlerHasTask, InHandler, Locations, Goto
<1>1. batch[w] \in Seq(Task) /\ batch[w] # <<>>
  BY DEF Return, Drop
<1>2. Head(batch[w]).id \in Ids /\ Tail(batch[w]) \in Seq(Task)
  BY <1>1, HeadTail
<1>3. Len(batch[w]) # 1 => Tail(batch[w]) # <<>>
  BY <1>1, HeadTail
<1>4. NextTask(w)
  BY DEF Return, Drop
<1>5. /\ batch' \in [Workers -> Seq(Task)]
      /\ tries' \in [Workers -> 0..(MaxAttempts - 1)]
      /\ effects' \in [Workers -> Nat]
      /\ pc' \in [Workers -> Locations]
      /\ HandlerHasTask'
  BY <1>2, <1>3, <1>4 DEF NextTask
<1>6. ended' \subseteq Ids
  BY <1>2 DEF Return, Drop
<1>7. QED
  BY <1>5, <1>6, QueueUnchanged DEF Return, Drop

LEMMA InterruptTypes ==
    ASSUME TypeInv, NEW w \in Workers, RedisError(w) \/ Stop(w)
    PROVE  TypeInv'
<1> USE WorkerAssumption
        DEF TypeInv, WorkerTypeOK, HandlerHasTask, InHandler, Locations, Goto
<1>1. PICK l \in {"stalled", "down"} : Interrupt(w, l)
  BY DEF RedisError, Stop
<1>2. IdsIn(batch[w]) \subseteq Ids
  BY IdsInTask
<1>3. interruptions' \in 0..MaxInterruptions
  BY <1>1 DEF Interrupt
<1>4. QED
  BY <1>1, <1>2, <1>3, QueueUnchanged DEF Interrupt

LEMMA NextTypeInv == TypeInv /\ [Next]_vars => TypeInv'
<1> SUFFICES ASSUME TypeInv, [Next]_vars
             PROVE  TypeInv'
  OBVIOUS
<1>1. CASE QueueNext /\ UNCHANGED workerVars
  BY <1>1, QueueTypes
     DEF TypeInv, WorkerTypeOK, HandlerHasTask, workerVars
<1>2. ASSUME NEW w \in Workers, Progress(w)
      PROVE  TypeInv'
  BY <1>2, LoopTypes, TransferTypes, EndTypes DEF Progress
<1>3. ASSUME NEW w \in Workers, RedisError(w) \/ Stop(w)
      PROVE  TypeInv'
  BY <1>3, InterruptTypes
<1>4. CASE UNCHANGED vars
  BY <1>4, QueueUnchanged
     DEF TypeInv, WorkerTypeOK, HandlerHasTask, workerVars, vars
<1>5. QED
  BY <1>1, <1>2, <1>3, <1>4 DEF Next

LEMMA SpecTypeInv == Spec => []TypeInv
BY InitTypeInv, NextTypeInv, PTL DEF Spec

\* Every reachable state is well typed.
THEOREM TypeCorrect == Spec => []TypeOK
<1>1. TypeInv => TypeOK
  BY DEF TypeInv, TypeOK
<1>2. QED
  BY <1>1, SpecTypeInv, PTL

(***************************************************************************)
(* First in, first out, and at most once.                                  *)
(*                                                                         *)
(* TakenInOrder is about one step.  It needs to know of every state that a *)
(* list is sorted by the ids of its undelayed tasks, all above the one     *)
(* popped last (Ordered); that in turn needs the ids in Redis and in the   *)
(* workers' hands to have been given out, and those of delayed tasks to be *)
(* told apart (Numbered), for a flush pushes old ids behind newer ones.    *)
(***************************************************************************)

\* The ids of s outside S are above low and increase.
SortedAbove(s, low, S) ==
    /\ \A i \in 1..Len(s) : s[i].id \notin S => low < s[i].id
    /\ \A i, j \in 1..Len(s) :
         i < j /\ s[i].id \notin S /\ s[j].id \notin S => s[i].id < s[j].id

Ordered == \A t \in Topics : SortedAbove(queue[t], lastTaken[t], scheduled)

Numbered ==
    /\ scheduled \subseteq 1..published
    /\ \A t \in Topics :
         /\ lastTaken[t] <= published
         /\ \A i \in 1..Len(queue[t]) : queue[t][i].id <= published
         /\ \A e \in delayed[t] : e.task.id \in scheduled
    /\ \A z \in zadding : z.entry.task.id \in scheduled
    /\ \A w \in Workers : \A e \in moving[w] : e.task.id \in scheduled

OrderInv == TypeInv /\ Numbered /\ Ordered

LEMMA SortedAppend ==
    ASSUME NEW s \in Seq(Task), NEW low \in Nat, NEW S, NEW task \in Task,
           SortedAbove(s, low, S),
           \/ task.id \in S
           \/ low < task.id /\ \A i \in 1..Len(s) : s[i].id < task.id
    PROVE  SortedAbove(Append(s, task), low, S)
<1>1. /\ Len(Append(s, task)) = Len(s) + 1
      /\ \A i \in 1..Len(s) : Append(s, task)[i] = s[i]
      /\ Append(s, task)[Len(s) + 1] = task
  BY AppendProperties
<1>2. Len(s) \in Nat
  OBVIOUS
<1>3. \A i \in 1..(Len(s) + 1) : i \in 1..Len(s) \/ i = Len(s) + 1
  BY <1>2
<1>4. ASSUME NEW i \in 1..(Len(s) + 1), Append(s, task)[i].id \notin S
      PROVE  low < Append(s, task)[i].id
  BY <1>1, <1>3, <1>4 DEF SortedAbove
<1>5. ASSUME NEW i \in 1..(Len(s) + 1), NEW j \in 1..(Len(s) + 1), i < j,
             Append(s, task)[i].id \notin S, Append(s, task)[j].id \notin S
      PROVE  Append(s, task)[i].id < Append(s, task)[j].id
  <2>1. i \in 1..Len(s)
    BY <1>2, <1>5
  <2>2. QED
    BY <1>1, <1>3, <1>5, <2>1 DEF SortedAbove
<1>6. QED
  BY <1>1, <1>4, <1>5 DEF SortedAbove

LEMMA SortedTail ==
    ASSUME NEW s \in Seq(Task), s # <<>>, NEW low \in Nat, NEW S,
           SortedAbove(s, low, S)
    PROVE  SortedAbove(Tail(s), IF Head(s).id \in S THEN low ELSE Head(s).id, S)
<1>1. /\ Len(Tail(s)) = Len(s) - 1
      /\ \A i \in 1..Len(Tail(s)) : Tail(s)[i] = s[i + 1]
  BY HeadTailProperties
<1>2. Len(s) \in Nat /\ Len(s) >= 1 /\ Head(s) = s[1]
  OBVIOUS
<1>3. \A i \in 1..Len(Tail(s)) : i + 1 \in 1..Len(s) /\ 1 \in 1..Len(s) /\ 1 < i + 1
  BY <1>1, <1>2
<1>4. QED
  BY <1>1, <1>2, <1>3 DEF SortedAbove

LEMMA InitOrderInv == Init => OrderInv
<1> SUFFICES ASSUME Init
             PROVE  OrderInv
  OBVIOUS
<1>1. TypeInv
  BY InitTypeInv
<1>2. Numbered /\ Ordered
  BY DEF Init, QueueInit, Numbered, Ordered, SortedAbove
<1>3. QED
  BY <1>1, <1>2 DEF OrderInv

\* Ids given out before a publish stay below the new count.
LEMMA NumbersGrow ==
    ASSUME OrderInv
    PROVE  /\ published \in Nat
           /\ scheduled \subseteq 1..(published + 1)
           /\ \A t \in Topics :
                /\ lastTaken[t] <= published + 1
                /\ \A i \in 1..Len(queue[t]) : queue[t][i].id <= published + 1
<1>1. published \in Nat
  BY QueueAssumption DEF OrderInv, TypeInv, QueueTypeOK
<1>2. scheduled \subseteq 1..(published + 1)
  <2>1. scheduled \subseteq 1..published
    BY DEF OrderInv, Numbered
  <2>2. QED
    BY <1>1, <2>1
<1>3. ASSUME NEW t \in Topics
      PROVE  /\ lastTaken[t] <= published + 1
             /\ \A i \in 1..Len(queue[t]) : queue[t][i].id <= published + 1
  <2>1. lastTaken[t] \in Nat /\ \A i \in 1..Len(queue[t]) : queue[t][i] \in Task
    BY DEF OrderInv, TypeInv, QueueTypeOK, WorkerTypeOK
  <2>2. \A i \in 1..Len(queue[t]) : queue[t][i].id \in Nat
    BY <2>1, QueueAssumption DEF Task, Ids
  <2>3. QED
    BY <1>1, <2>1, <2>2 DEF OrderInv, Numbered
<1>4. QED
  BY <1>1, <1>2, <1>3

\* A step that appends nothing, pops nothing and numbers nothing.
LEMMA OrderKept ==
    ASSUME OrderInv,
           queue' = queue, published' = published, scheduled' = scheduled,
           lastTaken' = lastTaken,
           \A t \in Topics : \A e \in delayed'[t] : e.task.id \in scheduled,
           \A z \in zadding' : z.entry.task.id \in scheduled,
           \A w \in Workers : \A e \in moving'[w] : e.task.id \in scheduled
    PROVE  Numbered' /\ Ordered'
BY DEF OrderInv, Numbered, Ordered, SortedAbove

LEMMA QueueOrder ==
    ASSUME OrderInv, QueueNext, UNCHANGED workerVars
    PROVE  Numbered' /\ Ordered'
<1> USE DEF OrderInv, TypeInv
<1>0. moving' = moving /\ lastTaken' = lastTaken
  BY DEF workerVars
<1>1. ASSUME NEW t \in Topics, NEW b \in Bodies, Publish(t, b)
      PROVE  Numbered' /\ Ordered'
  <2> DEFINE task == [id |-> published + 1, body |-> b]
  <2>1. published \in Nat /\ published + 1 \in Ids /\ task \in Task
    BY <1>1, QueueAssumption DEF Publish, QueueTypeOK, Ids, Task
  <2>2. /\ queue \in [Topics -> Seq(Task)] /\ lastTaken \in [Topics -> Nat]
        /\ queue' = [queue EXCEPT ![t] = Append(@, task)]
        /\ published' = published + 1
        /\ UNCHANGED <<scheduled, delayed, zadding>>
    BY <1>1 DEF Publish, LPush, QueueTypeOK, WorkerTypeOK
  <2>3. \A i \in 1..Len(queue[t]) : queue[t][i].id \in Nat /\ queue[t][i].id < task.id
    <3>1. \A i \in 1..Len(queue[t]) : queue[t][i] \in Task
      BY <2>2
    <3>2. \A i \in 1..Len(queue[t]) : queue[t][i].id \in Nat
      BY <3>1, QueueAssumption DEF Task, Ids
    <3>3. QED
      BY <2>1, <3>2 DEF Numbered
  <2>4. SortedAbove(Append(queue[t], task), lastTaken[t], scheduled)
    <3>1. lastTaken[t] < task.id
      BY <2>1, <2>2 DEF Numbered
    <3>2. QED
      BY <2>1, <2>2, <2>3, <3>1, SortedAppend DEF Ordered
  <2>5. Ordered'
    BY <1>0, <2>2, <2>4 DEF Ordered
  <2>6. \A i \in 1..Len(Append(queue[t], task)) :
           Append(queue[t], task)[i].id <= published + 1
    <3>1. /\ Len(Append(queue[t], task)) = Len(queue[t]) + 1
          /\ \A i \in 1..Len(queue[t]) : Append(queue[t], task)[i] = queue[t][i]
          /\ Append(queue[t], task)[Len(queue[t]) + 1] = task
          /\ Len(queue[t]) \in Nat
      BY <2>1, <2>2, AppendProperties
    <3>2. QED
      BY <2>1, <2>3, <3>1
  <2>7. \A u \in Topics : queue'[u] = IF u = t THEN Append(queue[t], task) ELSE queue[u]
    BY <2>2
  <2>8. Numbered'
    BY <1>0, <2>2, <2>6, <2>7, NumbersGrow DEF Numbered
  <2>9. QED
    BY <2>5, <2>8
<1>2. ASSUME NEW t \in Topics, NEW b \in Bodies, NEW d \in Delays, Schedule(t, b, d)
      PROVE  Numbered' /\ Ordered'
  <2>1. /\ published \in Nat /\ published' = published + 1
        /\ scheduled' = scheduled \cup {published + 1}
        /\ UNCHANGED <<queue, delayed>>
    BY <1>2, QueueAssumption DEF Schedule, QueueTypeOK
  <2>2. \A z \in zadding' : z.entry.task.id \in scheduled'
    BY <1>2, <2>1 DEF Schedule, Numbered
  <2>3. Ordered'
    BY <1>0, <2>1 DEF Ordered, SortedAbove
  <2>4. scheduled' \subseteq 1..published'
    <3>1. published + 1 \in 1..(published + 1)
      BY <2>1
    <3>2. QED
      BY <2>1, <3>1, NumbersGrow
  <2>5. Numbered'
    BY <1>0, <2>1, <2>2, <2>4, NumbersGrow DEF Numbered
  <2>6. QED
    BY <2>3, <2>5
<1>3. ASSUME NEW z \in zadding, ZAdd(z)
      PROVE  Numbered' /\ Ordered'
  <2>1. z.topic \in Topics /\ z.entry.task.id \in scheduled
    BY DEF Numbered, QueueTypeOK
  <2>2. \A t \in Topics : \A e \in delayed'[t] : e.task.id \in scheduled
    <3>1. \A t \in Topics : \A e \in delayed'[t] : e \in delayed[t] \/ e = z.entry
      BY <1>3, <2>1 DEF ZAdd, QueueTypeOK
    <3>2. QED
      BY <2>1, <3>1 DEF Numbered
  <2>3. QED
    BY <1>0, <1>3, <2>2, OrderKept DEF ZAdd, Numbered
<1>4. CASE Tick
  BY <1>0, <1>4, OrderKept DEF Tick, Numbered
<1>5. ASSUME NEW t \in Topics, EvictQueue(t)
      PROVE  Numbered' /\ Ordered'
  <2>1. /\ queue' = [queue EXCEPT ![t] = <<>>] /\ queue \in [Topics -> Seq(Task)]
        /\ UNCHANGED <<delayed, zadding, published, scheduled>>
    BY <1>5 DEF EvictQueue, QueueTypeOK
  <2>2. \A u \in Topics : queue'[u] = queue[u] \/ Len(queue'[u]) = 0
    BY <2>1
  <2>3. QED
    BY <1>0, <2>1, <2>2 DEF Numbered, Ordered, SortedAbove
<1>6. ASSUME NEW t \in Topics, EvictDelayed(t)
      PROVE  Numbered' /\ Ordered'
  <2>1. \A u \in Topics : delayed'[u] \subseteq delayed[u]
    BY <1>6 DEF EvictDelayed, QueueTypeOK
  <2>2. QED
    BY <1>0, <1>6, <2>1, OrderKept DEF EvictDelayed, Numbered
<1>7. QED
  BY <1>1, <1>2, <1>3, <1>4, <1>5, <1>6 DEF QueueNext

\* Queue steps were dealt with; now the workers'.
LEMMA PushOrder ==
    ASSUME OrderInv, NEW w \in Workers, FlushPush(w)
    PROVE  Numbered' /\ Ordered'
<1> DEFINE t == at[w]
<1>1. PICK e \in First(moving[w]) :
        /\ queue' = [queue EXCEPT ![t] = Append(@, e.task)]
        /\ moving' = [moving EXCEPT ![w] = @ \ {e}]
  BY DEF FlushPush, LPush
<1>2. e \in moving[w] /\ e.task \in Task /\ e.task.id \in scheduled
  BY <1>1 DEF First, OrderInv, Numbered, TypeInv, WorkerTypeOK, Entry
<1>3. t \in Topics /\ queue \in [Topics -> Seq(Task)] /\ lastTaken[t] \in Nat
  BY DEF OrderInv, TypeInv, WorkerTypeOK, QueueTypeOK
<1>4. UNCHANGED <<delayed, zadding, published, scheduled, lastTaken>>
  BY DEF FlushPush
<1>5. SortedAbove(Append(queue[t], e.task), lastTaken[t], scheduled)
  BY <1>2, <1>3, SortedAppend DEF OrderInv, Ordered
<1>6. Ordered'
  BY <1>1, <1>3, <1>4, <1>5 DEF OrderInv, Ordered
<1>7. \A i \in 1..Len(Append(queue[t], e.task)) :
         Append(queue[t], e.task)[i].id <= published
  <2>1. /\ Len(Append(queue[t], e.task)) = Len(queue[t]) + 1
        /\ \A i \in 1..Len(queue[t]) : Append(queue[t], e.task)[i] = queue[t][i]
        /\ Append(queue[t], e.task)[Len(queue[t]) + 1] = e.task
        /\ Len(queue[t]) \in Nat
    BY <1>2, <1>3, AppendProperties
  <2>2. e.task.id <= published
    <3>1. e.task.id \in 1..published
      BY <1>2 DEF OrderInv, Numbered
    <3>2. QED
      BY <3>1, NumbersGrow
  <2>3. QED
    BY <1>3, <2>1, <2>2 DEF OrderInv, Numbered
<1>8. \A u \in Topics : queue'[u] = IF u = t THEN Append(queue[t], e.task) ELSE queue[u]
  BY <1>1, <1>3
<1>9. \A v \in Workers : moving'[v] \subseteq moving[v]
  BY <1>1 DEF OrderInv, TypeInv, WorkerTypeOK
<1>10. Numbered'
  BY <1>4, <1>7, <1>8, <1>9 DEF OrderInv, Numbered
<1>11. QED
  BY <1>6, <1>10

LEMMA PopOrder ==
    ASSUME OrderInv, NEW w \in Workers, Pop(w)
    PROVE  Numbered' /\ Ordered'
<1> DEFINE t == at[w]
           task == Head(queue[t])
           low == IF task.id \in scheduled THEN lastTaken[t] ELSE task.id
<1>1. /\ queue[t] # <<>>
      /\ queue' = [queue EXCEPT ![t] = Tail(@)]
      /\ lastTaken' = IF task.id \in scheduled THEN lastTaken
                      ELSE [lastTaken EXCEPT ![t] = task.id]
      /\ UNCHANGED <<delayed, zadding, published, scheduled, moving>>
  BY DEF Pop
<1>2. /\ t \in Topics /\ queue \in [Topics -> Seq(Task)]
      /\ lastTaken \in [Topics -> Nat]
  BY DEF OrderInv, TypeInv, WorkerTypeOK, QueueTypeOK
<1>3. SortedAbove(Tail(queue[t]), low, scheduled)
  BY <1>1, <1>2, SortedTail DEF OrderInv, Ordered
<1>4. \A u \in Topics : /\ queue'[u] = IF u = t THEN Tail(queue[t]) ELSE queue[u]
                        /\ lastTaken'[u] = IF u = t THEN low ELSE lastTaken[u]
  BY <1>1, <1>2
<1>5. Ordered'
  BY <1>1, <1>3, <1>4 DEF OrderInv, Ordered
<1>6. /\ Len(Tail(queue[t])) = Len(queue[t]) - 1
      /\ \A i \in 1..Len(Tail(queue[t])) : Tail(queue[t])[i] = queue[t][i + 1]
  BY <1>1, <1>2, HeadTailProperties
<1>7. Len(queue[t]) \in Nat /\ Len(queue[t]) >= 1 /\ task = queue[t][1]
  BY <1>1, <1>2
<1>8. low <= published
  BY <1>2, <1>7 DEF OrderInv, Numbered
<1>9. \A i \in 1..Len(Tail(queue[t])) : Tail(queue[t])[i].id <= published
  <2>1. \A i \in 1..Len(Tail(queue[t])) : i + 1 \in 1..Len(queue[t])
    BY <1>6, <1>7
  <2>2. QED
    BY <1>2, <1>6, <2>1 DEF OrderInv, Numbered
<1>10. Numbered'
  BY <1>1, <1>4, <1>8, <1>9 DEF OrderInv, Numbered
<1>11. QED
  BY <1>5, <1>10

\* The other steps of a worker push and pop nothing.
LEMMA OtherOrder ==
    ASSUME OrderInv, NEW w \in Workers,
           \/ NextTopic(w) \/ NextRound(w) \/ FlushRead(w) \/ FlushRemove(w)
           \/ PopEnd(w) \/ Perform(w) \/ Return(w) \/ Raise(w) \/ Backoff(w)
           \/ Drop(w) \/ Restart(w) \/ RedisError(w) \/ Stop(w)
    PROVE  Numbered' /\ Ordered'
<1>1. /\ UNCHANGED <<queue, zadding, published, scheduled, lastTaken>>
      /\ \A t \in Topics : delayed'[t] \subseteq delayed[t]
  <2>1. CASE FlushRemove(w)
    BY <2>1 DEF FlushRemove, RemRange, OrderInv, TypeInv, QueueTypeOK
  <2>2. CASE ~FlushRemove(w)
    BY <2>2 DEF queueVars, NextTopic, NextRound, FlushRead, PopEnd, Perform, Return,
         Raise, Backoff, Drop, Restart, RedisError, Stop, Interrupt
  <2>3. QED
    BY <2>1, <2>2
<1>2. \A v \in Workers : \A e \in moving'[v] : e.task.id \in scheduled
  <2>1. moving \in [Workers -> SUBSET Entry] /\ at[w] \in Topics
    BY DEF OrderInv, TypeInv, WorkerTypeOK
  <2>2. CASE FlushRead(w)
    BY <2>1, <2>2 DEF FlushRead, Expired, OrderInv, Numbered
  <2>3. CASE RedisError(w) \/ Stop(w)
    BY <2>1, <2>3 DEF RedisError, Stop, Interrupt, OrderInv, Numbered
  <2>4. CASE ~FlushRead(w) /\ ~RedisError(w) /\ ~Stop(w)
    <3>1. moving' = moving
      BY <2>4 DEF NextTopic, NextRound, FlushRemove, PopEnd, Perform, Return, Raise,
           Backoff, Drop, Restart
    <3>2. QED
      BY <3>1 DEF OrderInv, Numbered
  <2>5. QED
    BY <2>2, <2>3, <2>4
<1>3. QED
  BY <1>1, <1>2, OrderKept DEF OrderInv, Numbered

LEMMA NextOrderInv == OrderInv /\ [Next]_vars => OrderInv'
<1> SUFFICES ASSUME OrderInv, [Next]_vars
             PROVE  OrderInv'
  OBVIOUS
<1>1. TypeInv'
  BY NextTypeInv DEF OrderInv
<1>2. Numbered' /\ Ordered'
  <2>1. CASE QueueNext /\ UNCHANGED workerVars
    BY <2>1, QueueOrder
  <2>2. ASSUME NEW w \in Workers, Progress(w) \/ RedisError(w) \/ Stop(w)
        PROVE  Numbered' /\ Ordered'
    BY <2>2, PushOrder, PopOrder, OtherOrder DEF Progress
  <2>3. CASE UNCHANGED vars
    BY <2>3, OrderKept DEF vars, queueVars, workerVars, OrderInv, Numbered
  <2>4. QED
    BY <2>1, <2>2, <2>3 DEF Next
<1>3. QED
  BY <1>1, <1>2 DEF OrderInv

\* Only a pop makes a batch longer.
LEMMA OnlyPopGrows ==
    ASSUME TypeInv, [Next]_vars, NEW w \in Workers, Len(batch'[w]) > Len(batch[w])
    PROVE  Pop(w)
<1> SUFFICES ASSUME ~Pop(w)
             PROVE  FALSE
  OBVIOUS
<1>1. batch \in [Workers -> Seq(Task)] /\ Len(batch[w]) \in Nat
  BY DEF TypeInv, WorkerTypeOK
<1>2. ASSUME NEW v \in Workers, batch' = [batch EXCEPT ![v] = Tail(@)], batch[v] # <<>>
      PROVE  FALSE
  <2>1. Len(Tail(batch[v])) = Len(batch[v]) - 1
    BY <1>1, <1>2, HeadTailProperties
  <2>2. QED
    BY <1>1, <1>2, <2>1
<1>3. ASSUME NEW v \in Workers, Pop(v)
      PROVE  FALSE
  <2>1. v # w /\ batch'[w] = batch[w]
    BY <1>1, <1>3 DEF Pop
  <2>2. QED
    BY <1>1, <2>1
<1>4. ASSUME NEW v \in Workers, Return(v) \/ Drop(v)
      PROVE  FALSE
  <2>1. pc[v] \in InHandler /\ batch' = [batch EXCEPT ![v] = Tail(@)]
    BY <1>4 DEF Return, Drop, NextTask, InHandler
  <2>2. QED
    BY <1>2, <2>1 DEF TypeInv, HandlerHasTask
<1>5. ASSUME NEW v \in Workers, RedisError(v) \/ Stop(v)
      PROVE  FALSE
  <2>1. batch' = [batch EXCEPT ![v] = <<>>]
    BY <1>5 DEF RedisError, Stop, Interrupt
  <2>2. batch'[w] = batch[w] \/ Len(batch'[w]) = 0
    BY <1>1, <2>1
  <2>3. QED
    BY <1>1, <2>2
<1>6. CASE batch' = batch
  BY <1>1, <1>6
<1>7. ASSUME NEW v \in Workers, Progress(v), ~Pop(v), ~Return(v), ~Drop(v)
      PROVE  batch' = batch
  BY <1>7 DEF Progress, NextTopic, NextRound, FlushRead, FlushPush, FlushRemove,
       PopEnd, Perform, Raise, Backoff, Restart
<1>8. QED
  BY <1>3, <1>4, <1>5, <1>6, <1>7 DEF Next, vars, workerVars

LEMMA StepInOrder ==
    ASSUME OrderInv, [Next]_vars, NEW w \in Workers,
           Len(batch'[w]) > Len(batch[w]),
           batch'[w][Len(batch'[w])].id \notin scheduled
    PROVE  batch'[w][Len(batch'[w])].id > lastTaken[at[w]]
<1> DEFINE t == at[w]
           task == Head(queue[t])
<1>1. Pop(w)
  BY OnlyPopGrows DEF OrderInv
<1>2. /\ queue[t] # <<>> /\ t \in Topics /\ queue[t] \in Seq(Task)
      /\ batch'[w] = Append(batch[w], task) /\ batch[w] \in Seq(Task)
  BY <1>1 DEF Pop, OrderInv, TypeInv, WorkerTypeOK, QueueTypeOK
<1>3. task \in Task /\ task = queue[t][1] /\ 1 \in 1..Len(queue[t])
  BY <1>2, HeadTail
<1>4. batch'[w][Len(batch'[w])] = task
  BY <1>2, <1>3, AppendProperties
<1>5. lastTaken[t] < task.id
  BY <1>2, <1>3, <1>4 DEF OrderInv, Ordered, SortedAbove
<1>6. QED
  BY <1>4, <1>5

\* Undelayed tasks of a topic are popped in the order they were published and
\* never twice, whatever the number of workers and however they stop.
THEOREM FirstInFirstOut == Spec => TakenInOrder
<1>1. Spec => []OrderInv
  BY InitOrderInv, NextOrderInv, PTL DEF Spec
<1>2. OrderInv /\ [Next]_vars =>
        \A w \in Workers :
          Len(batch'[w]) > Len(batch[w]) =>
              LET task == batch'[w][Len(batch'[w])]
              IN  task.id \notin scheduled => task.id > lastTaken[at[w]]
  BY StepInOrder
<1>3. QED
  BY <1>1, <1>2, PTL DEF Spec, TakenInOrder

(***************************************************************************)
(* The retry wrapper.  Effects never outnumber the attempts made: those    *)
(* that raised, and the one that is about to return or raise.              *)
(***************************************************************************)
EffectsInv ==
    \A w \in Workers :
        effects[w] <= IF pc[w] = "finish" THEN tries[w] + 1 ELSE tries[w]

\* A handler's effect happens at most MaxAttempts times for each time its task
\* was handed out.
THEOREM EffectsBoundedByAttempts == Spec => []EffectsBounded
<1>1. Init => EffectsInv
  BY DEF Init, EffectsInv
<1>2. TypeInv /\ EffectsInv /\ [Next]_vars => EffectsInv'
  <2> SUFFICES ASSUME TypeInv, EffectsInv, [Next]_vars, NEW v \in Workers
               PROVE  effects'[v] <= IF pc'[v] = "finish" THEN tries'[v] + 1 ELSE tries'[v]
    BY DEF EffectsInv
  <2>0. /\ effects \in [Workers -> Nat] /\ tries \in [Workers -> Nat]
        /\ pc \in [Workers -> Locations]
        /\ effects[v] <= IF pc[v] = "finish" THEN tries[v] + 1 ELSE tries[v]
    BY WorkerAssumption DEF TypeInv, WorkerTypeOK, EffectsInv
  <2>1. CASE QueueNext /\ UNCHANGED workerVars
    BY <2>0, <2>1 DEF workerVars
  <2>2. ASSUME NEW w \in Workers, Perform(w)
        PROVE  effects'[v] <= IF pc'[v] = "finish" THEN tries'[v] + 1 ELSE tries'[v]
    BY <2>0, <2>2 DEF Perform, Goto
  <2>3. ASSUME NEW w \in Workers, Raise(w)
        PROVE  effects'[v] <= IF pc'[v] = "finish" THEN tries'[v] + 1 ELSE tries'[v]
    BY <2>0, <2>3 DEF Raise, Goto
  <2>4. ASSUME NEW w \in Workers, Return(w) \/ Drop(w) \/ RedisError(w) \/ Stop(w)
        PROVE  effects'[v] <= IF pc'[v] = "finish" THEN tries'[v] + 1 ELSE tries'[v]
    <3>1. /\ effects' = [effects EXCEPT ![w] = 0] /\ tries' = [tries EXCEPT ![w] = 0]
          /\ \E l : pc' = [pc EXCEPT ![w] = l]
      BY <2>4 DEF Return, Drop, NextTask, RedisError, Stop, Interrupt, Goto
    <3>2. QED
      BY <2>0, <3>1
  <2>5. ASSUME NEW w \in Workers, Progress(w),
               ~Perform(w), ~Raise(w), ~Return(w), ~Drop(w)
        PROVE  effects'[v] <= IF pc'[v] = "finish" THEN tries'[v] + 1 ELSE tries'[v]
    <3>1. /\ UNCHANGED <<effects, tries>> /\ pc[w] # "finish"
          /\ \/ pc' = pc
             \/ \E l \in Locations \ {"finish"} : pc' = [pc EXCEPT ![w] = l]
      BY <2>5 DEF Progress, NextTopic, NextRound, FlushRead, FlushPush, FlushRemove,
           Pop, PopEnd, Backoff, Restart, Goto, Locations
    <3>2. QED
      BY <2>0, <3>1
  <2>6. CASE UNCHANGED vars
    BY <2>0, <2>6 DEF vars, workerVars
  <2>7. QED
    BY <2>1, <2>2, <2>3, <2>4, <2>5, <2>6 DEF Next
<1>3. TypeInv /\ EffectsInv => EffectsBounded
  <2> SUFFICES ASSUME TypeInv, EffectsInv, NEW w \in Workers
               PROVE  effects[w] <= MaxAttempts
    BY DEF EffectsBounded
  <2>1. effects[w] \in Nat /\ tries[w] \in 0..(MaxAttempts - 1) /\ MaxAttempts \in Nat
    BY WorkerAssumption DEF TypeInv, WorkerTypeOK
  <2>2. effects[w] <= tries[w] + 1
    BY <2>1 DEF EffectsInv
  <2>3. QED
    BY <2>1, <2>2
<1>4. QED
  BY <1>1, <1>2, <1>3, SpecTypeInv, PTL DEF Spec

(***************************************************************************)
(* What a stopped worker takes with it.  The batch is never longer than    *)
(* consume's bound, so each interruption adds at most that many ids.       *)
(***************************************************************************)
LossInv ==
    /\ \A w \in Workers : Len(batch[w]) <= Batch
    /\ IsFiniteSet(lost)
    /\ LossBounded

LEMMA IdsInBounded ==
    ASSUME NEW s \in Seq(Task)
    PROVE  IsFiniteSet(IdsIn(s)) /\ Cardinality(IdsIn(s)) <= Len(s)
<1> DEFINE f == [i \in 1..Len(s) |-> s[i].id]
<1>1. Len(s) \in Nat /\ DOMAIN s = 1..Len(s)
  OBVIOUS
<1>2. IsFiniteSet(1..Len(s)) /\ Cardinality(1..Len(s)) = Len(s)
  <2>1. 1 \in Int /\ Len(s) \in Int /\ (IF 1 > Len(s) THEN 0 ELSE Len(s) - 1 + 1) = Len(s)
    BY <1>1
  <2>2. QED
    BY <2>1, FS_Interval
<1>3. f \in [1..Len(s) -> IdsIn(s)] /\ \A i \in IdsIn(s) : \E p \in 1..Len(s) : f[p] = i
  BY <1>1 DEF IdsIn
<1>4. f \in Surjection(1..Len(s), IdsIn(s))
  BY <1>3, Fun_IsSurj
<1>5. QED
  BY <1>2, <1>4, FS_Surjection

LEMMA LossStep ==
    ASSUME TypeInv, LossInv, [Next]_vars
    PROVE  LossInv'
<1>1. /\ batch \in [Workers -> Seq(Task)] /\ \A w \in Workers : Len(batch[w]) \in Nat
      /\ interruptions \in Nat /\ Batch \in Nat
  BY WorkerAssumption DEF TypeInv, WorkerTypeOK
<1> USE DEF LossInv, LossBounded
<1>2. ASSUME NEW w \in Workers, Pop(w)
      PROVE  LossInv'
  <2> DEFINE task == Head(queue[at[w]])
  <2>1. /\ batch' = [batch EXCEPT ![w] = Append(@, task)] /\ Len(batch[w]) < Batch
        /\ UNCHANGED <<lost, interruptions>>
    BY <1>2 DEF Pop, Room
  <2>2. queue[at[w]] \in Seq(Task) /\ queue[at[w]] # <<>>
    BY <1>2 DEF Pop, TypeInv, QueueTypeOK, WorkerTypeOK
  <2>3. task \in Task
    BY <2>2, HeadTail
  <2>4. Len(Append(batch[w], task)) = Len(batch[w]) + 1
    BY <1>1, <2>3
  <2>5. QED
    BY <1>1, <2>1, <2>4
<1>3. ASSUME NEW w \in Workers, Return(w) \/ Drop(w)
      PROVE  LossInv'
  <2>1. batch[w] # <<>> /\ batch' = [batch EXCEPT ![w] = Tail(@)]
        /\ UNCHANGED <<lost, interruptions>>
    BY <1>3 DEF Return, Drop, NextTask, TypeInv, HandlerHasTask, InHandler
  <2>2. Len(Tail(batch[w])) = Len(batch[w]) - 1
    BY <1>1, <2>1, HeadTailProperties
  <2>3. QED
    BY <1>1, <2>1, <2>2
<1>4. ASSUME NEW w \in Workers, RedisError(w) \/ Stop(w)
      PROVE  LossInv'
  <2> DEFINE S == IdsIn(batch[w])
  <2>1. /\ batch' = [batch EXCEPT ![w] = <<>>]
        /\ lost' = lost \cup S /\ interruptions' = interruptions + 1
    BY <1>4 DEF RedisError, Stop, Interrupt
  <2>2. IsFiniteSet(S) /\ Cardinality(S) <= Len(batch[w])
    BY <1>1, IdsInBounded
  <2>3. /\ Cardinality(S) \in Nat /\ Cardinality(lost) \in Nat
        /\ IsFiniteSet(lost \cap S) /\ Cardinality(lost \cap S) \in Nat
    BY <2>2, FS_CardinalityType, FS_Intersection
  <2>4. /\ IsFiniteSet(lost \cup S)
        /\ Cardinality(lost \cup S) = Cardinality(lost) + Cardinality(S) - Cardinality(lost \cap S)
    BY <2>2, FS_Union
  <2>5. Batch * (interruptions + 1) = Batch * interruptions + Batch
    BY <1>1
  <2>6. Batch * interruptions \in Nat
    BY <1>1
  <2>7. Cardinality(lost \cup S) <= Batch * interruptions + Batch
    <3>1. Cardinality(S) <= Batch
      BY <1>1, <2>2, <2>3
    <3>2. QED
      BY <1>1, <2>3, <2>4, <2>6, <3>1
  <2>8. \A v \in Workers : Len(batch'[v]) <= Batch
    BY <1>1, <2>1
  <2>9. QED
    BY <2>1, <2>4, <2>5, <2>7, <2>8
<1>5. CASE UNCHANGED <<batch, lost, interruptions>>
  BY <1>5
<1>6. ASSUME NEW w \in Workers, Progress(w), ~Pop(w), ~Return(w), ~Drop(w)
      PROVE  UNCHANGED <<batch, lost, interruptions>>
  BY <1>6 DEF Progress, NextTopic, NextRound, FlushRead, FlushPush, FlushRemove,
       PopEnd, Perform, Raise, Backoff, Restart
<1>7. QED
  BY <1>2, <1>3, <1>4, <1>5, <1>6 DEF Next, vars, workerVars

\* However the workers are interrupted, the tasks that go with their memory are
\* at most one batch for each interruption.
THEOREM LossIsBounded == Spec => []LossBounded
<1>1. Init => LossInv
  BY FS_EmptySet, WorkerAssumption DEF Init, LossInv, LossBounded
<1>2. TypeInv /\ LossInv /\ [Next]_vars => LossInv'
  BY LossStep
<1>3. LossInv => LossBounded
  BY DEF LossInv
<1>4. QED
  BY <1>1, <1>2, <1>3, SpecTypeInv, PTL DEF Spec

(***************************************************************************)
(* No task vanishes.  NothingVanishes is not inductive: FlushRemove takes  *)
(* out of the sorted set all that is due by the time it read, and nothing  *)
(* in the invariant says that these entries were pushed.  The worker's     *)
(* snapshot has to be followed: what is due by cutoff and still in the set *)
(* is yet to be pushed by this worker, or somebody else answers for it.    *)
(***************************************************************************)

\* What no later step takes the id out of: a task that was in a list stays
\* among these, whatever happens to it.
InBatches == UNION {IdsIn(batch[w]) : w \in Workers}
Accounted == Queued \cup InBatches \cup ended \cup lost \cup evicted \cup merged \cup late

Unmoved(w) == {e \in delayed[at[w]] : e.due <= cutoff[w]}

FlushInv ==
    \A w \in Workers :
        /\ pc[w] # "push" => moving[w] = {}
        /\ cutoff[w] <= now
        /\ \A e \in moving[w] : e \in delayed[at[w]] \/ e.task.id \in Accounted
        /\ pc[w] \in {"push", "remove"} =>
              \A e \in Unmoved(w) : e \in moving[w] \/ e.task.id \in Accounted

NothingLost == \A i \in 1..published : i \in Accounted \cup Sorted \cup OnItsWay

VanishInv == FlushInv /\ NothingLost

LEMMA IdsInAppend ==
    ASSUME NEW s \in Seq(Task), NEW task \in Task
    PROVE  IdsIn(Append(s, task)) = IdsIn(s) \cup {task.id}
<1>1. /\ Len(Append(s, task)) = Len(s) + 1
      /\ \A i \in 1..Len(s) : Append(s, task)[i] = s[i]
      /\ Append(s, task)[Len(s) + 1] = task
      /\ DOMAIN Append(s, task) = 1..(Len(s) + 1) /\ DOMAIN s = 1..Len(s)
  BY AppendProperties
<1>2. Len(s) \in Nat
  OBVIOUS
<1>3. /\ \A i \in 1..(Len(s) + 1) : i \in 1..Len(s) \/ i = Len(s) + 1
      /\ \A i \in 1..Len(s) : i \in 1..(Len(s) + 1)
      /\ Len(s) + 1 \in 1..(Len(s) + 1)
  BY <1>2
<1>4. QED
  BY <1>1, <1>3 DEF IdsIn

LEMMA IdsInTail ==
    ASSUME NEW s \in Seq(Task), s # <<>>
    PROVE  IdsIn(s) = {Head(s).id} \cup IdsIn(Tail(s))
<1>1. /\ Tail(s) \in Seq(Task) /\ Len(Tail(s)) = Len(s) - 1
      /\ \A i \in 1..Len(Tail(s)) : Tail(s)[i] = s[i + 1]
  BY HeadTailProperties
<1>2. /\ Len(s) \in Nat /\ Len(s) >= 1 /\ Head(s) = s[1]
      /\ DOMAIN s = 1..Len(s) /\ DOMAIN Tail(s) = 1..Len(Tail(s))
  BY <1>1
<1>3. \A i \in 1..Len(s) : i = 1 \/ (i - 1 \in 1..Len(Tail(s)) /\ (i - 1) + 1 = i)
  BY <1>1, <1>2
<1>4. \A i \in 1..Len(Tail(s)) : i + 1 \in 1..Len(s)
  BY <1>1, <1>2
<1>5. 1 \in 1..Len(s)
  BY <1>2
<1>6. IdsIn(s) \subseteq {Head(s).id} \cup IdsIn(Tail(s))
  <2> SUFFICES ASSUME NEW i \in 1..Len(s), i # 1
               PROVE  s[i].id \in IdsIn(Tail(s))
    BY <1>2 DEF IdsIn
  <2>1. Tail(s)[i - 1] = s[i] /\ i - 1 \in DOMAIN Tail(s)
    BY <1>1, <1>2, <1>3
  <2>2. QED
    BY <2>1 DEF IdsIn
<1>7. IdsIn(Tail(s)) \subseteq IdsIn(s)
  <2> SUFFICES ASSUME NEW i \in 1..Len(Tail(s))
               PROVE  Tail(s)[i].id \in IdsIn(s)
    BY <1>2 DEF IdsIn
  <2>1. Tail(s)[i] = s[i + 1] /\ i + 1 \in DOMAIN s
    BY <1>1, <1>2, <1>4
  <2>2. QED
    BY <2>1 DEF IdsIn
<1>8. Head(s).id \in IdsIn(s)
  BY <1>2, <1>5 DEF IdsIn
<1>9. QED
  BY <1>6, <1>7, <1>8

\* A step whose queue and batches keep their ids, or hand them on.
LEMMA AccountedKept ==
    ASSUME \A t \in Topics : IdsIn(queue[t]) \subseteq Accounted',
           \A w \in Workers : IdsIn(batch[w]) \subseteq Accounted',
           ended \subseteq ended', lost \subseteq lost', evicted \subseteq evicted',
           merged \subseteq merged', late \subseteq late'
    PROVE  Accounted \subseteq Accounted'
BY DEF Accounted, Queued, InBatches

\* What stands in a list or a batch, before a step or after it, is accounted for.
LEMMA AccountedHolds ==
    /\ \A t \in Topics : IdsIn(queue[t]) \subseteq Accounted
    /\ \A w \in Workers : IdsIn(batch[w]) \subseteq Accounted
    /\ ended \cup lost \cup evicted \cup merged \cup late \subseteq Accounted
<1>1. \A t \in Topics : IdsIn(queue[t]) \subseteq Queued
  BY Zenon DEF Queued
<1>2. \A w \in Workers : IdsIn(batch[w]) \subseteq InBatches
  BY Zenon DEF InBatches
<1>3. QED
  BY <1>1, <1>2 DEF Accounted

LEMMA AccountedHoldsNext ==
    /\ \A t \in Topics : IdsIn(queue'[t]) \subseteq Accounted'
    /\ \A w \in Workers : IdsIn(batch'[w]) \subseteq Accounted'
    /\ ended' \cup lost' \cup evicted' \cup merged' \cup late' \subseteq Accounted'
<1>1. \A t \in Topics : IdsIn(queue'[t]) \subseteq Queued'
  BY Zenon DEF Queued
<1>2. \A w \in Workers : IdsIn(batch'[w]) \subseteq InBatches'
  BY Zenon DEF InBatches
<1>3. QED
  BY <1>1, <1>2 DEF Accounted

LEMMA AccountedGrows ==
    ASSUME TypeInv, [Next]_vars
    PROVE  Accounted \subseteq Accounted'
<1>1. /\ queue \in [Topics -> Seq(Task)] /\ batch \in [Workers -> Seq(Task)]
      /\ at \in [Workers -> Topics] /\ moving \in [Workers -> SUBSET Entry]
      /\ published \in Nat /\ zadding \subseteq [topic : Topics, entry : Entry]
  BY QueueAssumption DEF TypeInv, QueueTypeOK, WorkerTypeOK
<1> DEFINE Marks == /\ ended \subseteq ended' /\ lost \subseteq lost'
                    /\ evicted \subseteq evicted' /\ merged \subseteq merged'
                    /\ late \subseteq late'
<1>2. ASSUME NEW t \in Topics, NEW task \in Task, batch' = batch, Marks,
             queue' = [queue EXCEPT ![t] = Append(@, task)]
      PROVE  Accounted \subseteq Accounted'
  <2>1. \A u \in Topics : IdsIn(queue[u]) \subseteq IdsIn(queue'[u])
    BY <1>1, <1>2, IdsInAppend
  <2>2. QED
    BY <1>2, <2>1, AccountedKept, AccountedHoldsNext
<1>3. CASE Marks /\ UNCHANGED <<queue, batch>>
  BY <1>3, AccountedKept, AccountedHoldsNext
<1>4. ASSUME QueueNext, UNCHANGED workerVars
      PROVE  Accounted \subseteq Accounted'
  <2>0. UNCHANGED <<batch, ended, lost>>
    BY <1>4 DEF workerVars
  <2>1. ASSUME NEW t \in Topics, NEW b \in Bodies, Publish(t, b)
        PROVE  Accounted \subseteq Accounted'
    <3>1. [id |-> published + 1, body |-> b] \in Task
      BY <1>1, <2>1, QueueAssumption DEF Publish, Task, Ids
    <3>2. QED
      BY <2>0, <2>1, <3>1, <1>2 DEF Publish, LPush
  <2>2. ASSUME NEW t \in Topics, EvictQueue(t)
        PROVE  Accounted \subseteq Accounted'
    <3>1. \A u \in Topics : IdsIn(queue[u]) \subseteq IdsIn(queue'[u]) \cup evicted'
      BY <1>1, <2>2 DEF EvictQueue
    <3>2. \A u \in Topics : IdsIn(queue[u]) \subseteq Accounted'
      BY <3>1, AccountedHoldsNext
    <3>3. Marks
      BY <2>0, <2>2 DEF EvictQueue
    <3>4. QED
      BY <2>0, <3>2, <3>3, AccountedKept, AccountedHoldsNext
  <2>3. ASSUME NEW z \in zadding, ZAdd(z)
        PROVE  Accounted \subseteq Accounted'
    <3>1. Marks /\ queue' = queue
      BY <2>0, <2>3 DEF ZAdd
    <3>2. QED
      BY <2>0, <3>1, <1>3
  <2>4. ASSUME NEW t \in Topics, EvictDelayed(t)
        PROVE  Accounted \subseteq Accounted'
    <3>1. Marks /\ queue' = queue
      BY <2>0, <2>4 DEF EvictDelayed
    <3>2. QED
      BY <2>0, <3>1, <1>3
  <2>5. CASE Tick
    BY <2>0, <2>5, <1>3 DEF Tick
  <2>6. ASSUME NEW t \in Topics, NEW b \in Bodies, NEW d \in Delays, Schedule(t, b, d)
        PROVE  Accounted \subseteq Accounted'
    BY <2>0, <2>6, <1>3 DEF Schedule
  <2>7. QED
    BY <1>4, <2>1, <2>2, <2>3, <2>4, <2>5, <2>6 DEF QueueNext
<1>5. ASSUME NEW w \in Workers, FlushPush(w)
      PROVE  Accounted \subseteq Accounted'
  <2>1. PICK e \in First(moving[w]) : queue' = [queue EXCEPT ![at[w]] = Append(@, e.task)]
    BY <1>5 DEF FlushPush, LPush
  <2>2. e.task \in Task
    BY <1>1, <2>1 DEF First, Entry
  <2>3. QED
    BY <1>1, <1>2, <1>5, <2>1, <2>2 DEF FlushPush
<1>6. ASSUME NEW w \in Workers, Pop(w)
      PROVE  Accounted \subseteq Accounted'
  <2> DEFINE s == queue[at[w]]
  <2>1. /\ s \in Seq(Task) /\ s # <<>> /\ queue' = [queue EXCEPT ![at[w]] = Tail(s)]
        /\ batch' = [batch EXCEPT ![w] = Append(@, Head(s))] /\ Marks
    BY <1>1, <1>6 DEF Pop
  <2>2. Head(s) \in Task
    BY <2>1, HeadTail
  <2>3. \A v \in Workers : IdsIn(batch[v]) \subseteq IdsIn(batch'[v])
    BY <1>1, <2>1, <2>2, IdsInAppend
  <2>4. Head(s).id \in IdsIn(batch'[w])
    BY <1>1, <2>1, <2>2, IdsInAppend
  <2>5. \A u \in Topics : IdsIn(queue[u]) \subseteq IdsIn(queue'[u]) \cup IdsIn(batch'[w])
    BY <1>1, <2>1, <2>4, IdsInTail
  <2>6. QED
    BY <2>1, <2>3, <2>5, AccountedKept, AccountedHoldsNext
<1>7. ASSUME NEW w \in Workers, Return(w) \/ Drop(w)
      PROVE  Accounted \subseteq Accounted'
  <2>1. /\ batch[w] # <<>> /\ batch' = [batch EXCEPT ![w] = Tail(@)]
        /\ ended' = ended \cup {Head(batch[w]).id} /\ Marks /\ queue' = queue
    BY <1>7 DEF Return, Drop, NextTask, TypeInv, HandlerHasTask, InHandler, queueVars
  <2>2. \A v \in Workers : IdsIn(batch[v]) \subseteq IdsIn(batch'[v]) \cup ended'
    BY <1>1, <2>1, IdsInTail
  <2>3. QED
    BY <2>1, <2>2, AccountedKept, AccountedHoldsNext
<1>8. ASSUME NEW w \in Workers, RedisError(w) \/ Stop(w)
      PROVE  Accounted \subseteq Accounted'
  <2>1. /\ batch' = [batch EXCEPT ![w] = <<>>] /\ lost' = lost \cup IdsIn(batch[w])
        /\ Marks /\ queue' = queue
    BY <1>8 DEF RedisError, Stop, Interrupt, queueVars
  <2>2. \A v \in Workers : IdsIn(batch[v]) \subseteq IdsIn(batch'[v]) \cup lost'
    BY <1>1, <2>1
  <2>3. QED
    BY <2>1, <2>2, AccountedKept, AccountedHoldsNext
<1>9. ASSUME NEW w \in Workers, Progress(w), ~FlushPush(w), ~Pop(w), ~Return(w), ~Drop(w)
      PROVE  Accounted \subseteq Accounted'
  <2>1. Marks /\ UNCHANGED <<queue, batch>>
    BY <1>9 DEF Progress, NextTopic, NextRound, FlushRead, FlushRemove, PopEnd, Perform,
         Raise, Backoff, Restart, queueVars
  <2>2. QED
    BY <2>1, <1>3
<1>10. CASE UNCHANGED vars
  BY <1>10, <1>3 DEF vars, queueVars, workerVars
<1>11. QED
  BY <1>4, <1>5, <1>6, <1>7, <1>8, <1>9, <1>10 DEF Next

\* What FlushInv says of one worker.
FlushOk(w) ==
    /\ pc[w] # "push" => moving[w] = {}
    /\ cutoff[w] <= now
    /\ \A e \in moving[w] : e \in delayed[at[w]] \/ e.task.id \in Accounted
    /\ pc[w] \in {"push", "remove"} =>
          \A e \in Unmoved(w) : e \in moving[w] \/ e.task.id \in Accounted

\* A step that leaves a worker's snapshot alone, adds nothing that is due to its
\* sorted set, and accounts for what it takes out of it.
LEMMA FlushKept ==
    ASSUME TypeInv, NEW w \in Workers, FlushOk(w), Accounted \subseteq Accounted',
           UNCHANGED <<at[w], moving[w], cutoff[w]>>,
           pc'[w] = pc[w] \/ (pc[w] # "push" /\ pc'[w] \notin {"push", "remove"}),
           now' \in Nat, now <= now',
           \A e \in delayed[at[w]] : e \in delayed'[at[w]] \/ e.task.id \in Accounted',
           \A e \in delayed'[at[w]] :
              e \in delayed[at[w]] \/ ~(e.due <= cutoff[w]) \/ e.task.id \in Accounted'
    PROVE  FlushOk(w)'
<1>1. cutoff[w] \in Nat /\ now \in Nat /\ moving[w] \subseteq Entry
  BY DEF TypeInv, WorkerTypeOK, QueueTypeOK
<1>2. pc'[w] # "push" => moving'[w] = {}
  BY DEF FlushOk
<1>3. cutoff'[w] <= now'
  BY <1>1 DEF FlushOk
<1>4. \A e \in moving'[w] : e \in delayed'[at'[w]] \/ e.task.id \in Accounted'
  BY DEF FlushOk
<1>5. ASSUME pc'[w] \in {"push", "remove"},
             NEW e \in delayed'[at[w]], e.due <= cutoff[w]
      PROVE  e \in moving'[w] \/ e.task.id \in Accounted'
  <2>1. CASE e \in delayed[at[w]]
    <3>1. pc[w] \in {"push", "remove"} /\ e \in Unmoved(w)
      BY <1>5, <2>1 DEF Unmoved
    <3>2. QED
      BY <3>1 DEF FlushOk
  <2>2. QED
    BY <1>5, <2>1
<1>6. QED
  BY <1>2, <1>3, <1>4, <1>5 DEF FlushOk, Unmoved

\* The steps of the queue: no worker moves, the sorted sets may.
LEMMA FlushQueue ==
    ASSUME TypeInv, FlushInv, QueueNext, UNCHANGED workerVars,
           Accounted \subseteq Accounted'
    PROVE  FlushInv'
<1>0. UNCHANGED <<pc, at, moving, cutoff>> /\ now \in Nat /\ \A w \in Workers : FlushOk(w)
  BY DEF workerVars, FlushInv, FlushOk, TypeInv, QueueTypeOK
<1>1. /\ delayed \in [Topics -> SUBSET Entry] /\ at \in [Workers -> Topics]
      /\ cutoff \in [Workers -> Nat]
      /\ zadding \subseteq [topic : Topics, entry : Entry]
  BY DEF TypeInv, WorkerTypeOK, QueueTypeOK
<1> SUFFICES ASSUME NEW w \in Workers
             PROVE  FlushOk(w)'
  BY DEF FlushInv, FlushOk
<1>2. ASSUME NEW z \in zadding, ZAdd(z)
      PROVE  FlushOk(w)'
  <2> DEFINE same == {e \in delayed[z.topic] : e.task.body = z.entry.task.body}
  <2>1. /\ delayed' = [delayed EXCEPT ![z.topic] = (@ \ same) \cup {z.entry}]
        /\ merged' = merged \cup {e.task.id : e \in same}
        /\ late' = IF z.entry.due <= now THEN late \cup {z.entry.task.id} ELSE late
        /\ now' = now
    BY <1>2 DEF ZAdd
  <2>2. z.entry.due \in Nat /\ cutoff[w] \in Nat /\ cutoff[w] <= now
    BY <1>0, <1>1 DEF Entry, FlushOk
  <2>3. \A e \in delayed[at[w]] : e \in delayed'[at[w]] \/ e.task.id \in merged'
    BY <1>1, <2>1
  <2>4. \A e \in delayed'[at[w]] : e \in delayed[at[w]] \/ e = z.entry
    BY <1>1, <2>1
  <2>5. z.entry.due <= cutoff[w] => z.entry.task.id \in late'
    BY <1>0, <2>1, <2>2
  <2>6. merged' \subseteq Accounted' /\ late' \subseteq Accounted'
    BY AccountedHoldsNext
  <2>7. QED
    BY <1>0, <2>1, <2>3, <2>4, <2>5, <2>6, FlushKept
<1>3. ASSUME NEW t \in Topics, EvictDelayed(t)
      PROVE  FlushOk(w)'
  <2>1. /\ delayed' = [delayed EXCEPT ![t] = {}] /\ now' = now
        /\ evicted' = evicted \cup {e.task.id : e \in delayed[t]}
    BY <1>3 DEF EvictDelayed
  <2>2. \A e \in delayed[at[w]] : e \in delayed'[at[w]] \/ e.task.id \in evicted'
    BY <1>1, <2>1
  <2>3. delayed'[at[w]] \subseteq delayed[at[w]]
    BY <1>1, <2>1
  <2>4. evicted' \subseteq Accounted'
    BY AccountedHoldsNext
  <2>5. QED
    BY <1>0, <2>1, <2>2, <2>3, <2>4, FlushKept
<1>4. CASE delayed' = delayed /\ now' \in {now, now + 1}
  BY <1>0, <1>4, FlushKept
<1>5. ASSUME QueueNext, \A z \in zadding : ~ZAdd(z), \A t \in Topics : ~EvictDelayed(t)
      PROVE  delayed' = delayed /\ now' \in {now, now + 1}
  BY <1>5 DEF QueueNext, Publish, Schedule, Tick, EvictQueue
<1>6. QED
  BY <1>2, <1>3, <1>4, <1>5

\* The steps of a worker that move nothing between Redis and its memory.
LEMMA FlushOthers ==
    ASSUME TypeInv, FlushInv, NEW w \in Workers, Accounted \subseteq Accounted',
           Progress(w) \/ RedisError(w) \/ Stop(w),
           ~FlushRead(w), ~FlushPush(w), ~FlushRemove(w)
    PROVE  FlushInv'
<1>1. /\ now \in Nat /\ pc \in [Workers -> Locations] /\ at \in [Workers -> Topics]
      /\ moving \in [Workers -> SUBSET Entry] /\ cutoff \in [Workers -> Nat]
  BY DEF TypeInv, WorkerTypeOK, QueueTypeOK
<1>2. \A v \in Workers : FlushOk(v)
  BY DEF FlushInv, FlushOk
<1>3. delayed' = delayed /\ now' = now
  BY DEF Progress, NextTopic, NextRound, Pop, PopEnd, Perform, Return, Raise, Backoff,
     Drop, Restart, RedisError, Stop, Interrupt, queueVars
<1> SUFFICES ASSUME NEW v \in Workers
             PROVE  FlushOk(v)'
  BY DEF FlushInv, FlushOk
<1>4. CASE RedisError(w) \/ Stop(w)
  <2>1. /\ moving' = [moving EXCEPT ![w] = {}] /\ cutoff' = [cutoff EXCEPT ![w] = 0]
        /\ at' = at /\ \E l \in {"stalled", "down"} : pc' = [pc EXCEPT ![w] = l]
    BY <1>4 DEF RedisError, Stop, Interrupt, Goto
  <2>2. CASE v = w
    BY <1>1, <1>3, <2>1, <2>2 DEF FlushOk
  <2>3. CASE v # w
    BY <1>1, <1>2, <1>3, <2>1, <2>3, FlushKept
  <2>4. QED
    BY <2>2, <2>3
<1>5. CASE NextTopic(w)
  <2>1. /\ pc[w] = "round" /\ moving' = moving /\ cutoff' = cutoff
        /\ pc' = [pc EXCEPT ![w] = "flush"] /\ \E t : at' = [at EXCEPT ![w] = t]
    BY <1>5 DEF NextTopic, Goto
  <2>2. CASE v = w
    BY <1>1, <1>2, <1>3, <2>1, <2>2 DEF FlushOk
  <2>3. CASE v # w
    BY <1>1, <1>2, <1>3, <2>1, <2>3, FlushKept
  <2>4. QED
    BY <2>2, <2>3
<1>6. ASSUME Progress(w), ~NextTopic(w)
      PROVE  /\ UNCHANGED <<at, moving, cutoff>>
             /\ \/ pc' = pc
                \/ /\ pc[w] \notin {"push", "remove"}
                   /\ \E l \in {"round", "pop", "run", "finish", "backoff"} :
                         pc' = [pc EXCEPT ![w] = l]
  BY <1>6 DEF Progress, NextRound, Pop, PopEnd, Perform, Return, Raise, Backoff, Drop,
     NextTask, Restart, Goto
<1>7. CASE Progress(w) /\ ~NextTopic(w)
  <2>1. pc'[v] = pc[v] \/ (pc[v] # "push" /\ pc'[v] \notin {"push", "remove"})
    BY <1>1, <1>6, <1>7
  <2>2. QED
    BY <1>1, <1>2, <1>3, <1>6, <1>7, <2>1, FlushKept
<1>8. QED
  BY <1>4, <1>5, <1>7

\* The three steps of _flush_delayed.
LEMMA FlushSteps ==
    ASSUME TypeInv, FlushInv, NEW w \in Workers, Accounted \subseteq Accounted',
           FlushRead(w) \/ FlushPush(w) \/ FlushRemove(w)
    PROVE  FlushInv'
<1>1. /\ now \in Nat /\ pc \in [Workers -> Locations] /\ at \in [Workers -> Topics]
      /\ moving \in [Workers -> SUBSET Entry] /\ cutoff \in [Workers -> Nat]
      /\ delayed \in [Topics -> SUBSET Entry] /\ queue \in [Topics -> Seq(Task)]
  BY DEF TypeInv, WorkerTypeOK, QueueTypeOK
<1>2. \A v \in Workers : FlushOk(v)
  BY DEF FlushInv, FlushOk
<1>3. at' = at /\ now' = now
  BY DEF FlushRead, FlushPush, FlushRemove, queueVars
<1> SUFFICES ASSUME NEW v \in Workers
             PROVE  FlushOk(v)'
  BY DEF FlushInv, FlushOk
<1>4. CASE FlushRead(w)
  <2>1. delayed' = delayed /\ moving' = [moving EXCEPT ![w] = Expired(at[w], now)]
    BY <1>4 DEF FlushRead, queueVars
  <2>2. \/ /\ Expired(at[w], now) = {} /\ pc' = [pc EXCEPT ![w] = "pop"] /\ cutoff' = cutoff
        \/ /\ pc' = [pc EXCEPT ![w] = "push"] /\ cutoff' = [cutoff EXCEPT ![w] = now]
    BY <1>4 DEF FlushRead, Goto
  <2>3. CASE v = w
    BY <1>1, <1>2, <1>3, <2>1, <2>2, <2>3 DEF FlushOk, Expired, Unmoved
  <2>4. CASE v # w
    BY <1>1, <1>2, <1>3, <2>1, <2>2, <2>4, FlushKept
  <2>5. QED
    BY <2>3, <2>4
<1>5. CASE FlushPush(w)
  <2>1. PICK e \in First(moving[w]) :
          /\ queue' = [queue EXCEPT ![at[w]] = Append(@, e.task)]
          /\ moving' = [moving EXCEPT ![w] = @ \ {e}]
          /\ pc' = [pc EXCEPT ![w] = IF moving[w] = {e} THEN "remove" ELSE "push"]
    BY <1>5 DEF FlushPush, LPush, Goto
  <2>2. UNCHANGED <<delayed, cutoff>> /\ pc[w] = "push"
    BY <1>5 DEF FlushPush
  <2>3. e.task \in Task
    BY <1>1, <2>1 DEF First, Entry
  <2>4. e.task.id \in Accounted'
    <3>1. e.task.id \in IdsIn(queue'[at[w]])
      BY <1>1, <2>1, <2>3, IdsInAppend
    <3>2. QED
      BY <1>1, <3>1, AccountedHoldsNext
  <2>5. CASE v = w
    <3>1. /\ moving'[w] = moving[w] \ {e} /\ cutoff'[w] = cutoff[w] /\ at'[w] = at[w]
          /\ pc'[w] \in {"push", "remove"} /\ (pc'[w] # "push" => moving'[w] = {})
      BY <1>1, <1>3, <2>1, <2>2
    <3>2. \A f \in moving'[w] : f \in delayed'[at[w]] \/ f.task.id \in Accounted'
      BY <1>2, <2>2, <3>1 DEF FlushOk
    <3>3. \A f \in Unmoved(w)' : f \in moving'[w] \/ f.task.id \in Accounted'
      <4>1. Unmoved(w)' = Unmoved(w)
        BY <1>3, <2>2 DEF Unmoved
      <4>2. \A f \in Unmoved(w) : f \in moving[w] \/ f.task.id \in Accounted
        BY <1>2, <2>2 DEF FlushOk
      <4>3. QED
        BY <2>4, <3>1, <4>1, <4>2
    <3>4. QED
      BY <1>2, <1>3, <2>5, <3>1, <3>2, <3>3 DEF FlushOk
  <2>6. CASE v # w
    BY <1>1, <1>2, <1>3, <2>1, <2>2, <2>6, FlushKept
  <2>7. QED
    BY <2>5, <2>6
<1>6. CASE FlushRemove(w)
  <2>1. /\ delayed' = [delayed EXCEPT ![at[w]] = RemRange(at[w], cutoff[w])]
        /\ cutoff' = [cutoff EXCEPT ![w] = 0] /\ moving' = moving
        /\ pc' = [pc EXCEPT ![w] = "pop"] /\ pc[w] = "remove"
    BY <1>6 DEF FlushRemove, Goto
  <2>2. moving[w] = {} /\ \A e \in Unmoved(w) : e.task.id \in Accounted
    BY <1>2, <2>1 DEF FlushOk
  <2>3. \A t \in Topics : delayed'[t] \subseteq delayed[t]
    BY <1>1, <2>1 DEF RemRange
  <2>4. \A t \in Topics : \A e \in delayed[t] : e \in delayed'[t] \/ e.task.id \in Accounted
    <3> SUFFICES ASSUME NEW e \in delayed[at[w]], e \notin delayed'[at[w]]
                 PROVE  e.task.id \in Accounted
      <4>1. \A t \in Topics : t # at[w] => delayed'[t] = delayed[t]
        BY <1>1, <2>1
      <4>2. QED
        BY <4>1
    <3>1. e.due \in Nat /\ cutoff[w] \in Nat
      BY <1>1 DEF Entry
    <3>2. ~(e.due > cutoff[w])
      BY <1>1, <2>1 DEF RemRange
    <3>3. e \in Unmoved(w)
      BY <3>1, <3>2 DEF Unmoved
    <3>4. QED
      BY <2>2, <3>3
  <2>5. CASE v = w
    <3>1. moving'[w] = {} /\ cutoff'[w] = 0 /\ pc'[w] = "pop" /\ 0 <= now'
      BY <1>1, <1>3, <2>1, <2>2
    <3>2. FlushOk(w)'
      BY <3>1 DEF FlushOk, Unmoved
    <3>3. QED
      BY <2>5, <3>2 DEF FlushOk, Unmoved
  <2>6. CASE v # w
    <3>1. /\ UNCHANGED <<at[v], moving[v], cutoff[v]>> /\ pc'[v] = pc[v]
          /\ at[v] \in Topics /\ now' \in Nat /\ now <= now'
      BY <1>1, <1>3, <2>1, <2>6
    <3>2. /\ \A e \in delayed[at[v]] : e \in delayed'[at[v]] \/ e.task.id \in Accounted'
          /\ delayed'[at[v]] \subseteq delayed[at[v]]
      BY <2>3, <2>4, <3>1
    <3>3. QED
      BY <1>1, <1>2, <1>3, <3>1, <3>2, FlushKept
  <2>7. QED
    BY <2>5, <2>6
<1>7. QED
  BY <1>4, <1>5, <1>6

\* Where a published task is: under a topic's sorted set or its list, or on its way.
LEMMA LostStep ==
    ASSUME TypeInv, VanishInv, [Next]_vars, Accounted \subseteq Accounted'
    PROVE  NothingLost'
<1>1. /\ published \in Nat /\ delayed \in [Topics -> SUBSET Entry]
      /\ queue \in [Topics -> Seq(Task)] /\ at \in [Workers -> Topics]
      /\ zadding \subseteq [topic : Topics, entry : Entry]
      /\ cutoff \in [Workers -> Nat]
  BY QueueAssumption DEF TypeInv, QueueTypeOK, WorkerTypeOK
<1>2. \A i \in Sorted : \E t \in Topics : \E e \in delayed[t] : i = e.task.id
  BY DEF Sorted
<1>3. /\ \A t \in Topics : \A e \in delayed'[t] : e.task.id \in Sorted'
      /\ \A z \in zadding' : z.entry.task.id \in OnItsWay'
  <2>1. \A t \in Topics : {e.task.id : e \in delayed'[t]} \subseteq Sorted'
    BY Zenon DEF Sorted
  <2>2. \A z \in zadding' : z.entry.task.id \in OnItsWay'
    BY DEF OnItsWay
  <2>3. QED
    BY <2>1, <2>2
<1>4. \A i \in 1..published : i \in Accounted \/ i \in Sorted \/ i \in OnItsWay
  BY DEF VanishInv, NothingLost
<1>5. ASSUME published' = published, zadding' = zadding,
             \A t \in Topics : \A e \in delayed[t] :
                e \in delayed'[t] \/ e.task.id \in Accounted'
      PROVE  NothingLost'
  <2>1. Sorted \subseteq Sorted' \cup Accounted'
    BY <1>2, <1>3, <1>5
  <2>2. OnItsWay' = OnItsWay
    BY <1>5 DEF OnItsWay
  <2>3. QED
    BY <1>4, <1>5, <2>1, <2>2 DEF NothingLost
<1>6. ASSUME NEW t \in Topics, NEW b \in Bodies, Publish(t, b)
      PROVE  NothingLost'
  <2> DEFINE task == [id |-> published + 1, body |-> b]
  <2>1. /\ queue' = [queue EXCEPT ![t] = Append(@, task)] /\ task \in Task
        /\ UNCHANGED <<delayed, zadding>> /\ published' = published + 1
    BY <1>1, <1>6, QueueAssumption DEF Publish, LPush, Task, Ids
  <2>2. published + 1 \in Accounted'
    <3>1. published + 1 \in IdsIn(queue'[t])
      BY <1>1, <2>1, IdsInAppend
    <3>2. QED
      BY <3>1, AccountedHoldsNext
  <2>3. Sorted' = Sorted /\ OnItsWay' = OnItsWay
    BY <2>1 DEF Sorted, OnItsWay
  <2>4. \A i \in 1..(published + 1) : i \in 1..published \/ i = published + 1
    BY <1>1
  <2>5. QED
    BY <1>4, <2>1, <2>2, <2>3, <2>4 DEF NothingLost
<1>7. ASSUME NEW t \in Topics, NEW b \in Bodies, NEW d \in Delays, Schedule(t, b, d)
      PROVE  NothingLost'
  <2>1. /\ zadding \subseteq zadding' /\ published' = published + 1 /\ delayed' = delayed
        /\ \E z \in zadding' : z.entry.task.id = published + 1
    <3> DEFINE z == [topic |-> t,
                     entry |-> [task |-> [id |-> published + 1, body |-> b],
                                due |-> now + d]]
    <3>1. z \in zadding' /\ z.entry.task.id = published + 1
      BY <1>7 DEF Schedule
    <3>2. QED
      BY <1>7, <3>1 DEF Schedule
  <2>2. Sorted' = Sorted /\ OnItsWay \subseteq OnItsWay' /\ published + 1 \in OnItsWay'
    <3>1. Sorted' = Sorted
      BY <2>1 DEF Sorted
    <3>2. OnItsWay \subseteq OnItsWay'
      BY <2>1, Zenon DEF OnItsWay
    <3>3. QED
      BY <1>3, <2>1, <3>1, <3>2
  <2>3. \A i \in 1..(published + 1) : i \in 1..published \/ i = published + 1
    BY <1>1
  <2>4. QED
    BY <1>4, <2>1, <2>2, <2>3 DEF NothingLost
<1>8. ASSUME NEW z \in zadding, ZAdd(z)
      PROVE  NothingLost'
  <2> DEFINE same == {e \in delayed[z.topic] : e.task.body = z.entry.task.body}
  <2>1. /\ delayed' = [delayed EXCEPT ![z.topic] = (@ \ same) \cup {z.entry}]
        /\ merged' = merged \cup {e.task.id : e \in same}
        /\ zadding' = zadding \ {z} /\ published' = published /\ z.topic \in Topics
    BY <1>1, <1>8 DEF ZAdd
  <2>2. merged' \subseteq Accounted'
    BY AccountedHoldsNext
  <2>3. \A t \in Topics : \A e \in delayed[t] : e \in delayed'[t] \/ e.task.id \in merged'
    BY <1>1, <2>1
  <2>4. z.entry \in delayed'[z.topic]
    BY <1>1, <2>1
  <2>5. Sorted \subseteq Sorted' \cup Accounted'
    BY <1>2, <1>3, <2>2, <2>3
  <2>6. OnItsWay \subseteq OnItsWay' \cup Sorted'
    <3>1. \A y \in zadding : y \in zadding' \/ y = z
      BY <2>1
    <3>2. \A i \in OnItsWay : \E y \in zadding : i = y.entry.task.id
      BY DEF OnItsWay
    <3>3. QED
      BY <1>3, <2>1, <2>4, <3>1, <3>2
  <2>7. QED
    BY <1>4, <2>1, <2>5, <2>6 DEF NothingLost
<1>9. ASSUME NEW t \in Topics, EvictDelayed(t)
      PROVE  NothingLost'
  <2>1. /\ delayed' = [delayed EXCEPT ![t] = {}] /\ zadding' = zadding
        /\ published' = published /\ evicted' = evicted \cup {e.task.id : e \in delayed[t]}
    BY <1>9 DEF EvictDelayed
  <2>2. evicted' \subseteq Accounted'
    BY AccountedHoldsNext
  <2>3. \A u \in Topics : \A e \in delayed[u] : e \in delayed'[u] \/ e.task.id \in evicted'
    BY <1>1, <2>1
  <2>4. QED
    BY <1>5, <2>1, <2>2, <2>3
<1>10. ASSUME NEW w \in Workers, FlushRemove(w)
       PROVE  NothingLost'
  <2>1. /\ delayed' = [delayed EXCEPT ![at[w]] = RemRange(at[w], cutoff[w])]
        /\ zadding' = zadding /\ published' = published /\ pc[w] = "remove"
    BY <1>10 DEF FlushRemove
  <2>2. \A e \in Unmoved(w) : e.task.id \in Accounted
    BY <2>1 DEF VanishInv, FlushInv
  <2>3. \A t \in Topics : \A e \in delayed[t] : e \in delayed'[t] \/ e.task.id \in Accounted
    <3> SUFFICES ASSUME NEW e \in delayed[at[w]], e \notin delayed'[at[w]]
                 PROVE  e.task.id \in Accounted
      <4>1. \A t \in Topics : t # at[w] => delayed'[t] = delayed[t]
        BY <1>1, <2>1
      <4>2. QED
        BY <4>1
    <3>1. e.due \in Nat /\ cutoff[w] \in Nat
      BY <1>1 DEF Entry
    <3>2. e \in Unmoved(w)
      BY <1>1, <2>1, <3>1 DEF RemRange, Unmoved
    <3>3. QED
      BY <2>2, <3>2
  <2>4. QED
    BY <1>5, <2>1, <2>3
<1>11. CASE UNCHANGED <<published, zadding, delayed>>
  BY <1>5, <1>11
<1>12. ASSUME QueueNext,
              \A t \in Topics, b \in Bodies : ~Publish(t, b) /\ \A d \in Delays : ~Schedule(t, b, d),
              \A z \in zadding : ~ZAdd(z), \A t \in Topics : ~EvictDelayed(t)
       PROVE  UNCHANGED <<published, zadding, delayed>>
  BY <1>12 DEF QueueNext, Tick, EvictQueue
<1>13. ASSUME NEW w \in Workers, Progress(w) \/ RedisError(w) \/ Stop(w), ~FlushRemove(w)
       PROVE  UNCHANGED <<published, zadding, delayed>>
  BY <1>13 DEF Progress, NextTopic, NextRound, FlushRead, FlushPush, Pop, PopEnd, Perform,
     Return, Raise, Backoff, Drop, Restart, RedisError, Stop, Interrupt, queueVars
<1>14. CASE UNCHANGED vars
  BY <1>14, <1>11 DEF vars, queueVars
<1>15. QED
  BY <1>6, <1>7, <1>8, <1>9, <1>10, <1>11, <1>12, <1>13, <1>14 DEF Next

LEMMA VanishStep ==
    ASSUME TypeInv, VanishInv, [Next]_vars
    PROVE  VanishInv'
<1>1. Accounted \subseteq Accounted'
  BY AccountedGrows
<1>2. FlushInv'
  <2>1. CASE QueueNext /\ UNCHANGED workerVars
    BY <1>1, <2>1, FlushQueue DEF VanishInv
  <2>2. ASSUME NEW w \in Workers, Progress(w) \/ RedisError(w) \/ Stop(w)
        PROVE  FlushInv'
    BY <1>1, <2>2, FlushOthers, FlushSteps DEF VanishInv
  <2>3. CASE UNCHANGED vars
    BY <1>1, <2>3 DEF vars, queueVars, workerVars, VanishInv, FlushInv, Unmoved
  <2>4. QED
    BY <2>1, <2>2, <2>3 DEF Next
<1>3. QED
  BY <1>1, <1>2, LostStep DEF VanishInv

LEMMA SpecVanishInv == Spec => []VanishInv
<1>1. Init => VanishInv
  <2> SUFFICES ASSUME Init
               PROVE  VanishInv
    OBVIOUS
  <2>1. \A w \in Workers : pc[w] = "round" /\ moving[w] = {} /\ cutoff[w] = 0
    BY DEF Init
  <2>2. now = 0 /\ 1..published = {}
    BY DEF Init, QueueInit
  <2>3. QED
    BY <2>1, <2>2 DEF VanishInv, FlushInv, NothingLost
<1>2. TypeInv /\ VanishInv /\ [Next]_vars => VanishInv'
  BY VanishStep
<1>3. QED
  BY <1>1, <1>2, SpecTypeInv, PTL DEF Spec

\* A published task is in a list, in a sorted set, on its way or in the hands of
\* a worker, unless it ended or left for one of the reasons the code admits.
THEOREM NothingVanishesWithoutCause == Spec => []NothingVanishes
<1>1. VanishInv => NothingVanishes
  <2>1. InBatches \subseteq InHand
    <3>1. \A w \in Workers : Holds(w) \subseteq InHand
      BY Zenon DEF InHand
    <3>2. QED
      BY <3>1 DEF InBatches, Holds
  <2>2. QED
    BY <2>1 DEF VanishInv, NothingLost, NothingVanishes, Accounted
<1>2. QED
  BY <1>1, SpecVanishInv, PTL

(***************************************************************************)
(* The workers and the queue implement TaskDelivery.  A pop takes the      *)
(* oldest waiting task because the undelayed ids of a list are sorted      *)
(* (Ordered); a call of publish with a delay hides no task that waits or   *)
(* is taken because its number is new (Numbered, BatchNumbered).           *)
(***************************************************************************)
BatchNumbered == \A w \in Workers : \A i \in IdsIn(batch[w]) : i <= published

DeliveryInv == OrderInv /\ BatchNumbered

LEMMA QueueNumbered ==
    ASSUME OrderInv
    PROVE  /\ \A t \in Topics : \A i \in IdsIn(queue[t]) : i <= published
           /\ \A w \in Workers : \A e \in moving[w] : e.task.id \in scheduled
<1>1. queue \in [Topics -> Seq(Task)]
  BY DEF OrderInv, TypeInv, QueueTypeOK
<1>2. \A t \in Topics : DOMAIN queue[t] = 1..Len(queue[t])
  BY <1>1
<1>3. QED
  BY <1>2 DEF OrderInv, Numbered, IdsIn

LEMMA BatchStep ==
    ASSUME DeliveryInv, [Next]_vars
    PROVE  BatchNumbered'
<1>1. /\ queue \in [Topics -> Seq(Task)] /\ batch \in [Workers -> Seq(Task)]
      /\ at \in [Workers -> Topics] /\ published \in Nat
      /\ TypeInv /\ \A w \in Workers : IdsIn(batch[w]) \subseteq Ids
  <2>1. \A w \in Workers : batch[w] \in Seq(Task)
    BY DEF DeliveryInv, OrderInv, TypeInv, WorkerTypeOK
  <2>2. QED
    BY <2>1, IdsInTask, QueueAssumption
       DEF DeliveryInv, OrderInv, TypeInv, WorkerTypeOK, QueueTypeOK
<1>2. ASSUME published' \in {published, published + 1},
             \A w \in Workers : IdsIn(batch'[w]) \subseteq IdsIn(batch[w])
      PROVE  BatchNumbered'
  <2>1. \A i \in Ids : i <= published => i <= published'
    BY <1>1, <1>2, QueueAssumption DEF Ids
  <2>2. QED
    BY <1>1, <1>2, <2>1 DEF DeliveryInv, BatchNumbered
<1>3. CASE QueueNext /\ UNCHANGED workerVars
  <2>1. published' \in {published, published + 1}
    BY <1>3 DEF QueueNext, Publish, Schedule, ZAdd, Tick, EvictQueue, EvictDelayed
  <2>2. QED
    BY <1>2, <1>3, <2>1 DEF workerVars
<1>4. ASSUME NEW w \in Workers, Pop(w)
      PROVE  BatchNumbered'
  <2> DEFINE s == queue[at[w]]
  <2>1. /\ s \in Seq(Task) /\ s # <<>> /\ batch' = [batch EXCEPT ![w] = Append(@, Head(s))]
        /\ published' = published
    BY <1>1, <1>4 DEF Pop
  <2>2. Head(s) \in Task /\ Head(s).id \in IdsIn(s)
    BY <2>1, HeadTail, IdsInTail
  <2>3. Head(s).id <= published
    BY <1>1, <2>2, QueueNumbered DEF DeliveryInv
  <2>4. \A v \in Workers : IdsIn(batch'[v]) \subseteq IdsIn(batch[v]) \cup {Head(s).id}
    BY <1>1, <2>1, <2>2, IdsInAppend
  <2>5. QED
    BY <2>1, <2>3, <2>4 DEF DeliveryInv, BatchNumbered
<1>5. ASSUME NEW w \in Workers, Return(w) \/ Drop(w)
      PROVE  BatchNumbered'
  <2>1. /\ batch[w] # <<>> /\ batch' = [batch EXCEPT ![w] = Tail(@)]
        /\ published' = published
    BY <1>1, <1>5 DEF Return, Drop, NextTask, TypeInv, HandlerHasTask, InHandler, queueVars
  <2>2. \A v \in Workers : IdsIn(batch'[v]) \subseteq IdsIn(batch[v])
    BY <1>1, <2>1, IdsInTail
  <2>3. QED
    BY <1>2, <2>1, <2>2
<1>6. ASSUME NEW w \in Workers, RedisError(w) \/ Stop(w)
      PROVE  BatchNumbered'
  <2>1. batch' = [batch EXCEPT ![w] = <<>>] /\ published' = published
    BY <1>6 DEF RedisError, Stop, Interrupt, queueVars
  <2>2. IdsIn(<<>>) = {}
    BY DEF IdsIn
  <2>3. \A v \in Workers : IdsIn(batch'[v]) \subseteq IdsIn(batch[v])
    BY <1>1, <2>1, <2>2
  <2>4. QED
    BY <1>2, <2>1, <2>3
<1>7. ASSUME NEW w \in Workers, Progress(w), ~Pop(w), ~Return(w), ~Drop(w)
      PROVE  batch' = batch /\ published' = published
  BY <1>7 DEF Progress, NextTopic, NextRound, FlushRead, FlushPush, FlushRemove,
     PopEnd, Perform, Raise, Backoff, Restart, queueVars
<1>8. CASE UNCHANGED vars
  BY <1>2, <1>8 DEF vars, queueVars, workerVars
<1>9. QED
  BY <1>2, <1>3, <1>4, <1>5, <1>6, <1>7, <1>8 DEF Next

LEMMA SpecDeliveryInv == Spec => []DeliveryInv
<1>1. Init => DeliveryInv
  <2> SUFFICES ASSUME Init
               PROVE  BatchNumbered
    BY InitOrderInv DEF DeliveryInv
  <2>1. \A w \in Workers : batch[w] = <<>>
    BY DEF Init
  <2>2. QED
    BY <2>1 DEF BatchNumbered, IdsIn
<1>2. DeliveryInv /\ [Next]_vars => DeliveryInv'
  BY NextOrderInv, BatchStep DEF DeliveryInv
<1>3. QED
  BY <1>1, <1>2, PTL DEF Spec

\* What a pop does to the undelayed ids of a sorted list.
LEMMA SortedHead ==
    ASSUME NEW s \in Seq(Task), s # <<>>, NEW low \in Nat, NEW S, SortedAbove(s, low, S)
    PROVE  /\ Head(s).id \in S => IdsIn(Tail(s)) \ S = IdsIn(s) \ S
           /\ Head(s).id \notin S =>
                /\ Head(s).id \in IdsIn(s) \ S
                /\ \A j \in IdsIn(s) \ S : Head(s).id <= j
                /\ IdsIn(Tail(s)) \ S = (IdsIn(s) \ S) \ {Head(s).id}
<1>1. IdsIn(s) = {Head(s).id} \cup IdsIn(Tail(s))
  BY IdsInTail
<1>2. /\ Len(s) \in Nat /\ Len(s) >= 1 /\ Head(s) = s[1]
      /\ Tail(s) \in Seq(Task) /\ Len(Tail(s)) = Len(s) - 1
      /\ \A i \in 1..Len(Tail(s)) : Tail(s)[i] = s[i + 1]
  BY HeadTailProperties
<1>3. ASSUME Head(s).id \notin S, NEW j \in IdsIn(Tail(s)), j \notin S
      PROVE  Head(s).id < j
  <2>1. PICK i \in 1..Len(Tail(s)) : j = Tail(s)[i].id
    BY <1>2 DEF IdsIn
  <2>2. i + 1 \in 1..Len(s) /\ 1 \in 1..Len(s) /\ 1 < i + 1 /\ j = s[i + 1].id
    BY <1>2, <2>1
  <2>3. QED
    BY <1>2, <1>3, <2>2 DEF SortedAbove
<1>4. Head(s).id \in Nat /\ IdsIn(Tail(s)) \subseteq Nat
  <2>1. Ids \subseteq Nat
    BY QueueAssumption DEF Ids
  <2>2. QED
    BY <1>2, <2>1, HeadTail, IdsInTask
<1>5. ASSUME Head(s).id \notin S, NEW j \in IdsIn(Tail(s)) \ S
      PROVE  Head(s).id <= j /\ j # Head(s).id
  BY <1>3, <1>4, <1>5
<1>6. ASSUME Head(s).id \notin S
      PROVE  Head(s).id <= Head(s).id
  BY <1>4
<1>7. QED
  BY <1>1, <1>5, <1>6

LEMMA TakenIs ==
    TakenNow = InBatches \ scheduled /\ TakenNow' = InBatches' \ scheduled'
<1>1. TakenNow = InBatches \ scheduled
  BY DEF TakenNow, InBatches
<1>2. TakenNow' = InBatches' \ scheduled'
  BY DEF TakenNow, InBatches
<1>3. QED
  BY <1>1, <1>2

LEMMA StepDelivery ==
    ASSUME DeliveryInv, [Next]_vars
    PROVE  [Delivery!Next]_(Delivery!vars)
<1> DEFINE W == [t \in Topics |-> WaitingIn(t)]
           Same == UNCHANGED <<published, W, TakenNow>>
<1>1. /\ queue \in [Topics -> Seq(Task)] /\ batch \in [Workers -> Seq(Task)]
      /\ at \in [Workers -> Topics] /\ published \in Nat
      /\ TypeInv /\ moving \in [Workers -> SUBSET Entry] /\ lastTaken \in [Topics -> Nat]
  BY QueueAssumption DEF DeliveryInv, OrderInv, TypeInv, WorkerTypeOK, QueueTypeOK
<1>2. published + 1 \notin scheduled
  <2>1. scheduled \subseteq 1..published
    BY DEF DeliveryInv, OrderInv, Numbered
  <2>2. QED
    BY <1>1, <2>1
<1>3. /\ \A t \in Topics : published + 1 \notin IdsIn(queue[t])
      /\ \A w \in Workers : published + 1 \notin IdsIn(batch[w])
  BY <1>1, QueueNumbered DEF DeliveryInv, BatchNumbered
<1>4. Same => UNCHANGED Delivery!vars
  BY DEF Delivery!vars
<1>5. ASSUME published' = published, queue' = queue, scheduled' = scheduled, batch' = batch
      PROVE  Same
  BY <1>5 DEF WaitingIn, TakenNow
<1>6. ASSUME NEW t \in Topics, NEW b \in Bodies, Publish(t, b), batch' = batch
      PROVE  Delivery!Publish(t)
  <2> DEFINE task == [id |-> published + 1, body |-> b]
  <2>1. /\ queue' = [queue EXCEPT ![t] = Append(@, task)] /\ task \in Task
        /\ published' = published + 1 /\ scheduled' = scheduled
    BY <1>1, <1>6, QueueAssumption DEF Publish, LPush, Task, Ids
  <2>2. IdsIn(Append(queue[t], task)) = IdsIn(queue[t]) \cup {published + 1}
    BY <1>1, <2>1, IdsInAppend
  <2>3. W' = [W EXCEPT ![t] = @ \cup {published + 1}]
    BY <1>1, <1>2, <2>1, <2>2 DEF WaitingIn
  <2>4. TakenNow' = TakenNow
    BY <1>6, <2>1 DEF TakenNow
  <2>5. QED
    BY <2>1, <2>3, <2>4 DEF Delivery!Publish
<1>7. ASSUME NEW t \in Topics, NEW b \in Bodies, NEW d \in Delays, Schedule(t, b, d),
             batch' = batch
      PROVE  Delivery!PublishDelayed
  <2>1. /\ queue' = queue /\ published' = published + 1
        /\ scheduled' = scheduled \cup {published + 1}
    BY <1>7 DEF Schedule
  <2>2. W' = W
    BY <1>3, <2>1 DEF WaitingIn
  <2>3. TakenNow' = TakenNow
    <3>1. published + 1 \notin InBatches
      BY <1>3 DEF InBatches
    <3>2. InBatches' = InBatches
      BY <1>7 DEF InBatches
    <3>3. QED
      BY <2>1, <3>1, <3>2, TakenIs
  <2>4. QED
    BY <2>1, <2>2, <2>3 DEF Delivery!PublishDelayed
\* Tasks that leave: nothing is added on either side.
<1>8. ASSUME published' = published, TakenNow' \subseteq TakenNow,
             \A t \in Topics : WaitingIn(t)' \subseteq WaitingIn(t)
      PROVE  Delivery!End
  <2>1. \A t \in Topics : W'[t] \subseteq W[t] /\ W'[t] = WaitingIn(t)' /\ W[t] = WaitingIn(t)
    BY <1>8
  <2>2. \A t \in Topics : W[t] \subseteq UNION {W[u] : u \in Topics}
    BY Zenon
  <2>3. W' \in [Topics -> SUBSET UNION {W[u] : u \in Topics}]
    <3>1. \A t \in Topics : WaitingIn(t)' \in SUBSET UNION {W[u] : u \in Topics}
      BY <2>1, <2>2
    <3>2. W' = [t \in Topics |-> WaitingIn(t)']
      OBVIOUS
    <3>3. QED
      BY <3>1, <3>2
  <2>4. TakenNow' \in SUBSET TakenNow
    BY <1>8
  <2>5. QED
    BY <1>8, <2>1, <2>3, <2>4 DEF Delivery!End
<1>9. ASSUME NEW t \in Topics, EvictQueue(t), batch' = batch
      PROVE  Delivery!End
  <2>1. queue' = [queue EXCEPT ![t] = <<>>] /\ UNCHANGED <<published, scheduled>>
    BY <1>9 DEF EvictQueue
  <2>2. IdsIn(<<>>) = {}
    BY DEF IdsIn
  <2>3. \A u \in Topics : WaitingIn(u)' \subseteq WaitingIn(u)
    BY <1>1, <2>1, <2>2 DEF WaitingIn
  <2>4. TakenNow' = TakenNow
    BY <1>9, <2>1 DEF TakenNow
  <2>5. QED
    BY <1>8, <2>1, <2>3, <2>4
<1>10. ASSUME NEW w \in Workers, FlushPush(w)
       PROVE  Same
  <2>1. PICK e \in First(moving[w]) : queue' = [queue EXCEPT ![at[w]] = Append(@, e.task)]
    BY <1>10 DEF FlushPush, LPush
  <2>2. e.task \in Task /\ e.task.id \in scheduled
    BY <1>1, <2>1, QueueNumbered DEF First, Entry, DeliveryInv
  <2>3. UNCHANGED <<published, scheduled, batch>>
    BY <1>10 DEF FlushPush
  <2>4. \A t \in Topics : WaitingIn(t)' = WaitingIn(t)
    BY <1>1, <2>1, <2>2, <2>3, IdsInAppend DEF WaitingIn
  <2>5. W' = W
    BY <2>4
  <2>6. QED
    BY <2>3, <2>5 DEF TakenNow
<1>11. ASSUME NEW w \in Workers, Pop(w)
       PROVE  Same \/ Delivery!Take(at[w])
  <2> DEFINE t == at[w]
             s == queue[t]
             i == Head(s).id
  <2>1. /\ s \in Seq(Task) /\ s # <<>> /\ queue' = [queue EXCEPT ![t] = Tail(s)]
        /\ batch' = [batch EXCEPT ![w] = Append(@, Head(s))]
        /\ UNCHANGED <<published, scheduled>> /\ t \in Topics
    BY <1>1, <1>11 DEF Pop
  <2>2. SortedAbove(s, lastTaken[t], scheduled) /\ lastTaken[t] \in Nat
    BY <1>1, <2>1 DEF DeliveryInv, OrderInv, Ordered
  <2>3. Head(s) \in Task
    BY <2>1, HeadTail
  <2>4. InBatches' = InBatches \cup {i}
    <3>1. IdsIn(batch'[w]) = IdsIn(batch[w]) \cup {i}
      BY <1>1, <2>1, <2>3, IdsInAppend
    <3>2. \A v \in Workers : v # w => IdsIn(batch'[v]) = IdsIn(batch[v])
      BY <1>1, <2>1
    <3>3. QED
      BY <3>1, <3>2 DEF InBatches
  <2>5. TakenNow = InBatches \ scheduled /\ TakenNow' = InBatches' \ scheduled
    BY <2>1, TakenIs
  <2>6. CASE i \in scheduled
    <3>1. IdsIn(Tail(s)) \ scheduled = IdsIn(s) \ scheduled
      BY <2>1, <2>2, <2>6, SortedHead
    <3>2. \A u \in Topics : WaitingIn(u)' = WaitingIn(u)
      BY <1>1, <2>1, <3>1 DEF WaitingIn
    <3>3. W' = W
      BY <3>2
    <3>4. TakenNow' = TakenNow
      BY <2>4, <2>5, <2>6
    <3>5. QED
      BY <2>1, <3>3, <3>4
  <2>7. CASE i \notin scheduled
    <3>1. /\ i \in IdsIn(s) \ scheduled
          /\ \A j \in IdsIn(s) \ scheduled : i <= j
          /\ IdsIn(Tail(s)) \ scheduled = (IdsIn(s) \ scheduled) \ {i}
      BY <2>1, <2>2, <2>7, SortedHead
    <3>2. W[t] = IdsIn(s) \ scheduled
      BY <2>1 DEF WaitingIn
    <3>3. W' = [W EXCEPT ![t] = @ \ {i}]
      BY <1>1, <2>1, <3>1 DEF WaitingIn
    <3>4. TakenNow' = TakenNow \cup {i}
      BY <2>4, <2>5, <2>7
    <3>5. QED
      BY <2>1, <3>1, <3>2, <3>3, <3>4 DEF Delivery!Take
  <2>8. QED
    BY <2>6, <2>7
<1>12. ASSUME NEW w \in Workers, Return(w) \/ Drop(w) \/ RedisError(w) \/ Stop(w)
       PROVE  Delivery!End
  <2>1. UNCHANGED <<published, scheduled, queue>>
    BY <1>12 DEF Return, Drop, RedisError, Stop, Interrupt, queueVars
  <2>2. \A v \in Workers : IdsIn(batch'[v]) \subseteq IdsIn(batch[v])
    <3>1. CASE Return(w) \/ Drop(w)
      <4>1. batch[w] # <<>> /\ batch' = [batch EXCEPT ![w] = Tail(@)]
        BY <1>1, <3>1 DEF Return, Drop, NextTask, TypeInv, HandlerHasTask, InHandler
      <4>2. QED
        BY <1>1, <4>1, IdsInTail
    <3>2. CASE RedisError(w) \/ Stop(w)
      <4>1. batch' = [batch EXCEPT ![w] = <<>>]
        BY <3>2 DEF RedisError, Stop, Interrupt
      <4>2. IdsIn(<<>>) = {}
        BY DEF IdsIn
      <4>3. QED
        BY <1>1, <4>1, <4>2
    <3>3. QED
      BY <1>12, <3>1, <3>2
  <2>3. TakenNow' \subseteq TakenNow
    <3>1. InBatches' \subseteq InBatches
      BY <2>2 DEF InBatches
    <3>2. QED
      BY <2>1, <3>1, TakenIs
  <2>4. \A t \in Topics : WaitingIn(t)' = WaitingIn(t)
    BY <2>1 DEF WaitingIn
  <2>5. QED
    BY <1>8, <2>1, <2>3, <2>4
<1>13. ASSUME NEW w \in Workers, Progress(w),
              ~FlushPush(w), ~Pop(w), ~Return(w), ~Drop(w)
       PROVE  Same
  <2>1. UNCHANGED <<published, queue, scheduled, batch>>
    BY <1>13 DEF Progress, NextTopic, NextRound, FlushRead, FlushRemove, PopEnd, Perform,
       Raise, Backoff, Restart, queueVars
  <2>2. QED
    BY <1>5, <2>1
<1>14. ASSUME QueueNext, UNCHANGED workerVars
       PROVE  Same \/ Delivery!Next
  <2>1. batch' = batch
    BY <1>14 DEF workerVars
  <2>2. ASSUME (\E z \in zadding : ZAdd(z)) \/ Tick \/ \E t \in Topics : EvictDelayed(t)
        PROVE  Same
    <3>1. UNCHANGED <<published, queue, scheduled>>
      BY <2>2 DEF ZAdd, Tick, EvictDelayed
    <3>2. QED
      BY <1>5, <2>1, <3>1
  <2>3. QED
    BY <1>6, <1>7, <1>9, <1>14, <2>1, <2>2 DEF QueueNext, Delivery!Next
<1>15. ASSUME UNCHANGED vars
       PROVE  Same
  <2>1. UNCHANGED <<published, queue, scheduled, batch>>
    BY <1>15 DEF vars, queueVars, workerVars
  <2>2. QED
    BY <1>5, <2>1
<1>16. Same \/ Delivery!Next
  <2>1. ASSUME NEW w \in Workers, Pop(w)
        PROVE  Same \/ Delivery!Next
    BY <1>1, <1>11, <2>1 DEF Delivery!Next
  <2>2. ASSUME NEW w \in Workers, Progress(w) \/ RedisError(w) \/ Stop(w), ~Pop(w)
        PROVE  Same \/ Delivery!Next
    BY <1>10, <1>12, <1>13, <2>2 DEF Delivery!Next
  <2>3. QED
    BY <1>14, <1>15, <2>1, <2>2 DEF Next
<1>17. QED
  BY <1>4, <1>16

\* The workers and the queue keep the promise of TaskDelivery.
THEOREM ImplementsDelivery == Spec => RefinesDelivery
<1>1. Init => Delivery!Init
  <2> SUFFICES ASSUME Init
               PROVE  Delivery!Init
    OBVIOUS
  <2>1. /\ published = 0 /\ scheduled = {} /\ queue = [t \in Topics |-> <<>>]
        /\ batch = [w \in Workers |-> <<>>] /\ IdsIn(<<>>) = {}
    BY DEF Init, QueueInit, IdsIn
  <2>2. \A t \in Topics : WaitingIn(t) = {}
    BY <2>1 DEF WaitingIn
  <2>3. TakenNow = {}
    BY <2>1 DEF TakenNow
  <2>4. QED
    BY <2>1, <2>2, <2>3 DEF Delivery!Init
<1>2. DeliveryInv /\ [Next]_vars => [Delivery!Next]_(Delivery!vars)
  BY StepDelivery
<1>3. QED
  BY <1>1, <1>2, SpecDeliveryInv, PTL DEF Spec, RefinesDelivery, Delivery!Spec

(***************************************************************************)
(* With one worker that nothing interrupts, a task is handed out once.     *)
(* The invariant follows an id through its places: it is given to one call *)
(* of publish, its entry is in one sorted set, and while an entry that was *)
(* pushed is still in its set, the worker is in the flush that will remove *)
(* it.  A second worker, or a stop between the pushes and the removal,     *)
(* breaks the last conjunct, and with it the property.                     *)
(***************************************************************************)

\* The ids that have reached a list.
Out == Queued \cup {i \in Ids : taken[i] > 0}

AtMostOnce ==
    /\ \A i \in Ids : taken[i] <= 1
    /\ \A i \in Queued : taken[i] = 0
    /\ \A i \in Out : i <= published
    /\ \A t, u \in Topics : \A p \in 1..Len(queue[t]), q \in 1..Len(queue[u]) :
          queue[t][p].id = queue[u][q].id => t = u /\ p = q

MovingOnce ==
    \A w \in Workers : \A e \in moving[w] :
        /\ e.due <= cutoff[w] /\ e.task.id \notin Out
        /\ \A f \in moving[w] : e.task.id = f.task.id => e = f
        /\ \A t \in Topics : \A f \in delayed[t] :
              e.task.id = f.task.id => e = f /\ t = at[w]

DelayedOnce ==
    \A t \in Topics : \A e \in delayed[t] :
        /\ \A u \in Topics : \A f \in delayed[u] :
              e.task.id = f.task.id => e = f /\ t = u
        /\ e.task.id \in Out =>
              \E w \in Workers : /\ pc[w] \in {"push", "remove"}
                                 /\ at[w] = t /\ e.due <= cutoff[w]

ZaddingOnce ==
    \A z \in zadding :
        /\ z.entry.task.id \notin Out
        /\ \A t \in Topics : \A f \in delayed[t] : f.task.id # z.entry.task.id
        /\ \A w \in Workers : \A e \in moving[w] : e.task.id # z.entry.task.id
        /\ \A y \in zadding : y.entry.task.id = z.entry.task.id => y = z

Once == AtMostOnce /\ MovingOnce /\ DelayedOnce /\ ZaddingOnce

Alone == \A v, w \in Workers : v = w

OnceInv == interruptions = 0 /\ Alone => Once

LEMMA InSomeList ==
    ASSUME NEW q \in [Topics -> Seq(Task)], NEW i
    PROVE  i \in UNION {IdsIn(q[t]) : t \in Topics}
              <=> \E t \in Topics : \E p \in 1..Len(q[t]) : q[t][p].id = i
<1>1. \A t \in Topics : i \in IdsIn(q[t]) <=> \E p \in 1..Len(q[t]) : q[t][p].id = i
  <2>1. \A t \in Topics : DOMAIN q[t] = 1..Len(q[t])
    OBVIOUS
  <2>2. QED
    BY <2>1 DEF IdsIn
<1>2. i \in UNION {IdsIn(q[t]) : t \in Topics} <=> \E t \in Topics : i \in IdsIn(q[t])
  BY Zenon
<1>3. QED
  BY <1>1, <1>2

\* What the invariants before this one say of the ids.
LEMMA OnceTypes ==
    ASSUME OrderInv
    PROVE  /\ queue \in [Topics -> Seq(Task)] /\ at \in [Workers -> Topics]
           /\ moving \in [Workers -> SUBSET Entry] /\ delayed \in [Topics -> SUBSET Entry]
           /\ taken \in [Ids -> Nat] /\ published \in Nat /\ now \in Nat
           /\ Queued \subseteq Ids
           /\ \A i \in Queued : \E t \in Topics : \E p \in 1..Len(queue[t]) : queue[t][p].id = i
           /\ \A t \in Topics : \A p \in 1..Len(queue[t]) :
                 queue[t][p] \in Task /\ queue[t][p].id \in Queued
           /\ \A i \in scheduled : i \in Ids /\ i <= published
           /\ \A i \in Ids : i \in Nat
<1>1. /\ queue \in [Topics -> Seq(Task)] /\ at \in [Workers -> Topics]
      /\ moving \in [Workers -> SUBSET Entry] /\ delayed \in [Topics -> SUBSET Entry]
      /\ taken \in [Ids -> Nat] /\ published \in Nat /\ now \in Nat
      /\ scheduled \subseteq Ids
  BY QueueAssumption DEF OrderInv, TypeInv, QueueTypeOK, WorkerTypeOK
<1>2. \A i : i \in Queued <=> \E t \in Topics : \E p \in 1..Len(queue[t]) : queue[t][p].id = i
  BY <1>1, InSomeList DEF Queued
<1>3. \A t \in Topics : \A p \in 1..Len(queue[t]) : queue[t][p] \in Task
  BY <1>1
<1>4. Queued \subseteq Ids
  BY <1>2, <1>3 DEF Task
<1>5. \A i \in scheduled : i <= published
  BY <1>1 DEF OrderInv, Numbered
<1>6. \A i \in Ids : i \in Nat
  BY QueueAssumption DEF Ids
<1>7. QED
  BY <1>1, <1>2, <1>3, <1>4, <1>5, <1>6

\* A step that gives nothing to anybody: lists and sets keep what they have or
\* lose it, and the flush that answers for an entry goes on.
LEMMA OnceFrame ==
    ASSUME OrderInv, Once,
           UNCHANGED <<taken, published, zadding>>,
           \A t \in Topics : queue'[t] = queue[t] \/ queue'[t] = <<>>,
           queue' \in [Topics -> Seq(Task)],
           \A t \in Topics : delayed'[t] \subseteq delayed[t],
           \A w \in Workers : \A e \in moving'[w] :
              e \in moving[w] /\ at'[w] = at[w] /\ cutoff'[w] = cutoff[w],
           \A t \in Topics : \A e \in delayed'[t] :
              e.task.id \in Out =>
                 \E w \in Workers : /\ pc'[w] \in {"push", "remove"}
                                    /\ at'[w] = t /\ e.due <= cutoff'[w]
    PROVE  Once'
<1>1. Queued' \subseteq Queued
  <2> SUFFICES ASSUME NEW i \in Queued'
               PROVE  i \in Queued
    OBVIOUS
  <2>1. PICK t \in Topics : \E p \in 1..Len(queue'[t]) : queue'[t][p].id = i
    BY InSomeList DEF Queued
  <2>2. queue'[t] = queue[t]
    BY <2>1
  <2>3. QED
    BY <2>1, <2>2, OnceTypes
<1>2. Out' \subseteq Out
  BY <1>1 DEF Out
<1>3. AtMostOnce'
  <2>1. \A t \in Topics : \A p \in 1..Len(queue'[t]) : queue'[t] = queue[t]
    OBVIOUS
  <2>2. QED
    BY <1>1, <1>2, <2>1 DEF Once, AtMostOnce
<1>4. MovingOnce'
  BY <1>2 DEF Once, MovingOnce
<1>5. DelayedOnce'
  BY <1>2 DEF Once, DelayedOnce
<1>6. ZaddingOnce'
  BY <1>2 DEF Once, ZaddingOnce
<1>7. QED
  BY <1>3, <1>4, <1>5, <1>6 DEF Once

\* A new task in a list, or on its way to a sorted set, has a new id.
LEMMA OnceIssued ==
    ASSUME OrderInv, Once, QueueNext, UNCHANGED workerVars
    PROVE  Once'
<1>0. /\ UNCHANGED <<taken, moving, at, cutoff, pc>>
      /\ \A w \in Workers : \A e \in moving[w] : e.task.id \in scheduled
      /\ \A t \in Topics : \A e \in delayed[t] : e.task.id \in scheduled
      /\ \A z \in zadding : z.entry.task.id \in scheduled
  BY DEF workerVars, OrderInv, Numbered
<1>00. \A i \in Out : i <= published
  BY DEF Once, AtMostOnce
<1>1. ASSUME NEW t \in Topics, NEW b \in Bodies, Publish(t, b)
      PROVE  Once'
  <2> DEFINE n == published + 1
             task == [id |-> n, body |-> b]
             s == queue[t]
  <2>1. /\ task \in Task /\ n \in Ids /\ queue' = [queue EXCEPT ![t] = Append(@, task)]
        /\ published' = n /\ UNCHANGED <<delayed, zadding>>
        /\ queue' \in [Topics -> Seq(Task)]
    <3>1. n \in Ids
      BY <1>1, OnceTypes, QueueAssumption DEF Publish, Ids
    <3>2. task \in Task
      BY <3>1 DEF Task
    <3>3. QED
      BY <1>1, <3>1, <3>2, OnceTypes DEF Publish, LPush
  <2>2. n \notin Out /\ n \notin scheduled /\ \A i \in Out : i <= n
    <3>1. \A i \in Out : i \in Nat
      BY OnceTypes DEF Out
    <3>2. QED
      BY <1>00, <3>1, OnceTypes
  <2>3. /\ s \in Seq(Task) /\ Len(queue'[t]) = Len(s) + 1 /\ Len(s) \in Nat
        /\ queue'[t][Len(s) + 1] = task
        /\ \A p \in 1..Len(s) : queue'[t][p] = s[p]
        /\ \A u \in Topics : u # t => queue'[u] = queue[u]
    BY <2>1, OnceTypes, AppendProperties
  <2>4. \A u \in Topics : \A p \in 1..Len(queue'[u]) :
           \/ u = t /\ p = Len(s) + 1 /\ queue'[u][p].id = n
           \/ p \in 1..Len(queue[u]) /\ queue'[u][p] = queue[u][p]
    BY <2>3
  <2>5. Queued' \subseteq Queued \cup {n}
    <3>1. \A i \in Queued' : \E u \in Topics : \E p \in 1..Len(queue'[u]) : queue'[u][p].id = i
      BY <2>1, InSomeList DEF Queued
    <3>2. ASSUME NEW u \in Topics, NEW p \in 1..Len(queue'[u])
          PROVE  queue'[u][p].id \in Queued \cup {n}
      <4>1. CASE queue'[u][p].id = n
        BY <4>1
      <4>2. CASE p \in 1..Len(queue[u]) /\ queue'[u][p] = queue[u][p]
        BY <4>2, OnceTypes
      <4>3. QED
        BY <2>4, <4>1, <4>2
    <3>3. QED
      BY <3>1, <3>2
  <2>6. Out' \subseteq Out \cup {n}
    BY <1>0, <2>5 DEF Out
  <2>7. taken[n] = 0
    BY <2>1, <2>2, OnceTypes DEF Out
  <2>8. \A u, v \in Topics : \A p \in 1..Len(queue'[u]), q \in 1..Len(queue'[v]) :
           queue'[u][p].id = queue'[v][q].id => u = v /\ p = q
    <3>1. \A u \in Topics : \A p \in 1..Len(queue[u]) : queue[u][p].id # n
      BY <2>2, OnceTypes DEF Out
    <3>2. ASSUME NEW u \in Topics, NEW v \in Topics,
                 NEW p \in 1..Len(queue'[u]), NEW q \in 1..Len(queue'[v]),
                 queue'[u][p].id = queue'[v][q].id
          PROVE  u = v /\ p = q
      <4>1. CASE queue'[u][p].id = n
        BY <2>4, <3>1, <3>2, <4>1
      <4>2. CASE queue'[u][p].id # n
        <5>1. /\ p \in 1..Len(queue[u]) /\ queue'[u][p] = queue[u][p]
              /\ q \in 1..Len(queue[v]) /\ queue'[v][q] = queue[v][q]
          BY <2>4, <3>2, <4>2
        <5>2. QED
          BY <3>2, <5>1 DEF Once, AtMostOnce
      <4>3. QED
        BY <4>1, <4>2
    <3>3. QED
      BY <3>2
  <2>9. AtMostOnce'
    BY <1>0, <2>1, <2>2, <2>5, <2>6, <2>7, <2>8, OnceTypes DEF Once, AtMostOnce
  <2>10. MovingOnce' /\ DelayedOnce' /\ ZaddingOnce'
    BY <1>0, <2>1, <2>2, <2>6 DEF Once, MovingOnce, DelayedOnce, ZaddingOnce
  <2>11. QED
    BY <2>9, <2>10 DEF Once
<1>2. ASSUME NEW t \in Topics, NEW b \in Bodies, NEW d \in Delays, Schedule(t, b, d)
      PROVE  Once'
  <2> DEFINE n == published + 1
             x == [topic |-> t, entry |-> [task |-> [id |-> n, body |-> b], due |-> now + d]]
  <2>1. /\ zadding' = zadding \cup {x} /\ x.entry.task.id = n /\ published' = n
        /\ UNCHANGED <<queue, delayed>>
    BY <1>2 DEF Schedule
  <2>2. n \notin Out /\ n \notin scheduled /\ \A i \in Out : i <= n
    <3>1. \A i \in Out : i \in Nat
      BY OnceTypes DEF Out
    <3>2. QED
      BY <1>00, <3>1, OnceTypes
  <2>3. Out' = Out /\ Queued' = Queued
    BY <1>0, <2>1 DEF Out, Queued
  <2>4. AtMostOnce'
    BY <1>0, <2>1, <2>2, <2>3 DEF Once, AtMostOnce
  <2>5. MovingOnce' /\ DelayedOnce'
    BY <1>0, <2>1, <2>3 DEF Once, MovingOnce, DelayedOnce
  <2>6. ZaddingOnce'
    BY <1>0, <2>1, <2>2, <2>3 DEF Once, ZaddingOnce
  <2>7. QED
    BY <2>4, <2>5, <2>6 DEF Once
<1>3. ASSUME NEW z \in zadding, ZAdd(z)
      PROVE  Once'
  <2>1. /\ zadding' = zadding \ {z} /\ UNCHANGED <<queue, published>>
        /\ \A t \in Topics : \A e \in delayed'[t] :
              e \in delayed[t] \/ (e = z.entry /\ t = z.topic)
    BY <1>3, OnceTypes DEF ZAdd
  <2>2. Out' = Out /\ Queued' = Queued
    BY <1>0, <2>1 DEF Out, Queued
  <2>3. AtMostOnce'
    BY <1>0, <2>1, <2>2 DEF Once, AtMostOnce
  <2>4. MovingOnce' /\ DelayedOnce'
    BY <1>0, <2>1, <2>2 DEF Once, MovingOnce, DelayedOnce, ZaddingOnce
  <2>5. ZaddingOnce'
    BY <1>0, <2>1, <2>2 DEF Once, ZaddingOnce
  <2>6. QED
    BY <2>3, <2>4, <2>5 DEF Once
<1>4. CASE Tick \/ (\E t \in Topics : EvictDelayed(t)) \/ (\E t \in Topics : EvictQueue(t))
  <2> DEFINE Shrinks == /\ UNCHANGED <<published, zadding>>
                        /\ \A t \in Topics : queue'[t] = queue[t] \/ queue'[t] = <<>>
                        /\ queue' \in [Topics -> Seq(Task)]
                        /\ \A t \in Topics : delayed'[t] \subseteq delayed[t]
  <2>1. Shrinks
    <3>1. CASE Tick
      BY <3>1, OnceTypes DEF Tick
    <3>2. ASSUME NEW t \in Topics, EvictDelayed(t)
          PROVE  Shrinks
      BY <3>2, OnceTypes DEF EvictDelayed
    <3>3. ASSUME NEW t \in Topics, EvictQueue(t)
          PROVE  Shrinks
      BY <3>3, OnceTypes DEF EvictQueue
    <3>4. QED
      BY <1>4, <3>1, <3>2, <3>3
  <2>2. \A t \in Topics : \A e \in delayed'[t] :
           e.task.id \in Out =>
              \E w \in Workers : /\ pc'[w] \in {"push", "remove"}
                                 /\ at'[w] = t /\ e.due <= cutoff'[w]
    BY <1>0, <2>1 DEF Once, DelayedOnce
  <2>3. QED
    BY <1>0, <2>1, <2>2, OnceFrame
<1>5. QED
  BY <1>1, <1>2, <1>3, <1>4 DEF QueueNext

\* The flush of the only worker: it reads, and nobody else is in a flush.
LEMMA OnceRead ==
    ASSUME OrderInv, FlushInv, Alone, Once, NEW w \in Workers, FlushRead(w)
    PROVE  Once'
<1> DEFINE X == Expired(at[w], now)
<1>1. /\ UNCHANGED <<queue, delayed, zadding, taken, published, at>> /\ X \subseteq delayed[at[w]]
      /\ at[w] \in Topics /\ \A e \in X : e.due <= now
  <2>1. \A e \in X : e \in delayed[at[w]] /\ e.due <= now
    BY DEF Expired
  <2>2. QED
    BY <2>1, OnceTypes DEF FlushRead, queueVars
<1>2. \A v \in Workers : v = w
  BY DEF Alone
<1>3. \A t \in Topics : \A e \in delayed[t] : e.task.id \notin Out
  BY <1>2 DEF FlushRead, Once, DelayedOnce
<1>4. /\ moving' = [moving EXCEPT ![w] = X] /\ moving'[w] = X
      /\ X # {} => cutoff'[w] = now
  <2>1. moving' = [moving EXCEPT ![w] = X]
    BY DEF FlushRead
  <2>2. X # {} => cutoff' = [cutoff EXCEPT ![w] = now]
    BY DEF FlushRead
  <2>3. cutoff \in [Workers -> Nat]
    BY DEF OrderInv, TypeInv, WorkerTypeOK
  <2>4. QED
    BY <2>1, <2>2, <2>3, OnceTypes
<1>5. Out' = Out /\ Queued' = Queued
  BY <1>1 DEF Out, Queued
<1>6. AtMostOnce'
  BY <1>1, <1>5 DEF Once, AtMostOnce
<1>7. MovingOnce'
  BY <1>1, <1>2, <1>3, <1>4, <1>5 DEF Once, DelayedOnce, MovingOnce
<1>8. DelayedOnce'
  BY <1>1, <1>3, <1>5 DEF Once, DelayedOnce
<1>9. ZaddingOnce'
  BY <1>1, <1>2, <1>4, <1>5 DEF Once, ZaddingOnce
<1>10. QED
  BY <1>6, <1>7, <1>8, <1>9 DEF Once

\* It pushes an entry that was in no list, and will remove it.
LEMMA OncePush ==
    ASSUME OrderInv, FlushInv, Alone, Once, NEW w \in Workers, FlushPush(w)
    PROVE  Once'
<1> DEFINE t == at[w]
           s == queue[t]
<1>1. PICK e \in First(moving[w]) :
        /\ queue' = [queue EXCEPT ![t] = Append(@, e.task)]
        /\ moving' = [moving EXCEPT ![w] = @ \ {e}]
        /\ Goto(w, IF moving[w] = {e} THEN "remove" ELSE "push")
  BY DEF FlushPush, LPush
<1> DEFINE n == e.task.id
<1>2. /\ e \in moving[w] /\ e.task \in Task /\ n \in scheduled /\ n \in Ids /\ n <= published
      /\ UNCHANGED <<delayed, zadding, taken, published, at, cutoff>>
  <2>1. e \in moving[w] /\ e \in Entry
    BY <1>1, OnceTypes DEF First
  <2>2. n \in scheduled
    BY <2>1 DEF OrderInv, Numbered
  <2>3. QED
    BY <2>1, <2>2, OnceTypes DEF Entry, FlushPush
<1>3. n \notin Out /\ taken[n] = 0
  <2>1. n \notin Out
    BY <1>2 DEF Once, MovingOnce
  <2>2. QED
    BY <1>2, <2>1, OnceTypes DEF Out
<1>4. \A v \in Workers : v = w
  BY DEF Alone
<1>5. queue' \in [Topics -> Seq(Task)] /\ t \in Topics
  BY <1>1, <1>2, OnceTypes
<1>6. /\ s \in Seq(Task) /\ Len(queue'[t]) = Len(s) + 1 /\ Len(s) \in Nat
      /\ queue'[t][Len(s) + 1] = e.task
      /\ \A p \in 1..Len(s) : queue'[t][p] = s[p]
      /\ \A u \in Topics : u # t => queue'[u] = queue[u]
  BY <1>1, <1>2, <1>5, OnceTypes, AppendProperties
<1>7. \A u \in Topics : \A p \in 1..Len(queue'[u]) :
         \/ u = t /\ p = Len(s) + 1 /\ queue'[u][p].id = n
         \/ p \in 1..Len(queue[u]) /\ queue'[u][p] = queue[u][p]
  <2>1. \A p \in 1..(Len(s) + 1) : p = Len(s) + 1 \/ p \in 1..Len(s)
    BY <1>6
  <2>2. \A p \in 1..Len(queue'[t]) :
           \/ p = Len(s) + 1 /\ queue'[t][p].id = n
           \/ p \in 1..Len(queue[t]) /\ queue'[t][p] = queue[t][p]
    BY <1>6, <2>1
  <2>3. \A u \in Topics : u # t => queue'[u] = queue[u]
    BY <1>6
  <2>4. QED
    BY <2>2, <2>3
<1>8. Queued' \subseteq Queued \cup {n}
  <2>1. \A i \in Queued' : \E u \in Topics : \E p \in 1..Len(queue'[u]) : queue'[u][p].id = i
    BY <1>5, InSomeList DEF Queued
  <2>2. ASSUME NEW u \in Topics, NEW p \in 1..Len(queue'[u])
        PROVE  queue'[u][p].id \in Queued \cup {n}
    <3>1. CASE queue'[u][p].id = n
      BY <3>1
    <3>2. CASE p \in 1..Len(queue[u]) /\ queue'[u][p] = queue[u][p]
      BY <3>2, OnceTypes
    <3>3. QED
      BY <1>7, <3>1, <3>2
  <2>3. QED
    BY <2>1, <2>2
<1>9. Out' \subseteq Out \cup {n}
  BY <1>2, <1>8 DEF Out
<1>10. ASSUME NEW u \in Topics, NEW v \in Topics,
              NEW p \in 1..Len(queue'[u]), NEW q \in 1..Len(queue'[v]),
              queue'[u][p].id = queue'[v][q].id
       PROVE  u = v /\ p = q
  <2>1. \A x \in Topics : \A i \in 1..Len(queue[x]) : queue[x][i].id # n
    BY <1>3, OnceTypes DEF Out
  <2>2. CASE queue'[u][p].id = n
    <3>1. u = t /\ p = Len(s) + 1
      <4>1. ~(p \in 1..Len(queue[u]) /\ queue'[u][p] = queue[u][p])
        BY <2>1, <2>2
      <4>2. QED
        BY <1>7, <4>1
    <3>2. v = t /\ q = Len(s) + 1
      <4>1. ~(q \in 1..Len(queue[v]) /\ queue'[v][q] = queue[v][q])
        BY <1>10, <2>1, <2>2
      <4>2. QED
        BY <1>7, <4>1
    <3>3. QED
      BY <3>1, <3>2
  <2>3. CASE queue'[u][p].id # n
    <3>1. /\ p \in 1..Len(queue[u]) /\ queue'[u][p] = queue[u][p]
          /\ q \in 1..Len(queue[v]) /\ queue'[v][q] = queue[v][q]
      BY <1>7, <1>10, <2>3
    <3>2. QED
      BY <1>10, <3>1 DEF Once, AtMostOnce
  <2>4. QED
    BY <2>2, <2>3
<1>11. AtMostOnce'
  BY <1>2, <1>3, <1>8, <1>9, <1>10, OnceTypes DEF Once, AtMostOnce
<1>12. MovingOnce'
  <2>1. \A v \in Workers : \A f \in moving'[v] : f \in moving[v] /\ f # e
    BY <1>1, <1>4, OnceTypes
  <2>2. \A v \in Workers : \A f \in moving'[v] : f.task.id # n
    BY <1>2, <1>4, <2>1 DEF Once, MovingOnce
  <2>3. QED
    BY <1>2, <1>9, <2>1, <2>2 DEF Once, MovingOnce
<1>13. DelayedOnce'
  <2>1. pc'[w] \in {"push", "remove"}
    BY <1>1 DEF Goto, OrderInv, TypeInv, WorkerTypeOK
  <2>2. ASSUME NEW u \in Topics, NEW f \in delayed[u], f.task.id \in Out \cup {n}
        PROVE  at[w] = u /\ f.due <= cutoff[w]
    <3>1. CASE f.task.id \in Out
      BY <1>4, <3>1 DEF Once, DelayedOnce
    <3>2. CASE f.task.id = n
      BY <1>2, <3>2 DEF Once, MovingOnce
    <3>3. QED
      BY <2>2, <3>1, <3>2
  <2>3. QED
    BY <1>2, <1>9, <2>1, <2>2 DEF Once, DelayedOnce
<1>14. ZaddingOnce'
  <2>1. \A z \in zadding : z.entry.task.id # n
    BY <1>2 DEF Once, ZaddingOnce
  <2>2. \A v \in Workers : moving'[v] \subseteq moving[v]
    BY <1>1, OnceTypes
  <2>3. QED
    BY <1>2, <1>9, <2>1, <2>2 DEF Once, ZaddingOnce
<1>15. QED
  BY <1>11, <1>12, <1>13, <1>14 DEF Once

\* A pop hands out an id that no other place of a list holds.
LEMMA OncePop ==
    ASSUME OrderInv, Once, NEW w \in Workers, Pop(w)
    PROVE  Once'
<1> DEFINE t == at[w]
           s == queue[t]
           h == Head(s).id
<1>1. /\ s # <<>> /\ queue' = [queue EXCEPT ![t] = Tail(s)]
      /\ taken' = [taken EXCEPT ![h] = @ + 1]
      /\ UNCHANGED <<delayed, zadding, moving, published, pc, at, cutoff>>
  BY DEF Pop
<1>2. s \in Seq(Task) /\ t \in Topics
  BY OnceTypes
<1>3. /\ Tail(s) \in Seq(Task) /\ Len(Tail(s)) = Len(s) - 1
      /\ \A i \in 1..Len(Tail(s)) : Tail(s)[i] = s[i + 1]
      /\ Len(s) \in Nat /\ Len(s) >= 1 /\ 1 \in 1..Len(s) /\ Head(s) = s[1]
  BY <1>1, <1>2, HeadTailProperties
<1>4. h \in Queued /\ h \in Ids /\ taken[h] = 0 /\ h \in Out
  BY <1>2, <1>3, OnceTypes DEF Once, AtMostOnce, Out
<1>5. queue' \in [Topics -> Seq(Task)]
  BY <1>1, <1>3, OnceTypes
<1>6. ASSUME NEW u \in Topics, NEW p \in 1..Len(queue'[u])
      PROVE  \E i \in 1..Len(queue[u]) :
                /\ queue'[u][p] = queue[u][i] /\ i = (IF u = t THEN p + 1 ELSE p)
                /\ queue[u][i].id # h
  <2>1. CASE u = t
    <3>1. p \in 1..Len(Tail(s)) /\ p \in Nat /\ p + 1 \in 1..Len(s) /\ p + 1 # 1
      BY <1>1, <1>3, <2>1, OnceTypes
    <3>2. queue'[u][p] = s[p + 1]
      BY <1>1, <1>3, <2>1, <3>1, OnceTypes
    <3>3. s[p + 1].id # h
      BY <1>2, <1>3, <3>1 DEF Once, AtMostOnce
    <3>4. QED
      BY <2>1, <3>1, <3>2, <3>3
  <2>2. CASE u # t
    <3>1. queue'[u] = queue[u]
      BY <1>1, <2>2, OnceTypes
    <3>2. queue[u][p].id # h
      BY <1>2, <1>3, <2>2, <3>1 DEF Once, AtMostOnce
    <3>3. QED
      BY <2>2, <3>1, <3>2
  <2>3. QED
    BY <2>1, <2>2
<1>7. Queued' \subseteq Queued \ {h}
  <2>1. \A i \in Queued' : \E u \in Topics : \E p \in 1..Len(queue'[u]) : queue'[u][p].id = i
    BY <1>5, InSomeList DEF Queued
  <2>2. ASSUME NEW u \in Topics, NEW p \in 1..Len(queue'[u])
        PROVE  queue'[u][p].id \in Queued \ {h}
    <3>1. PICK i \in 1..Len(queue[u]) : queue'[u][p] = queue[u][i] /\ queue[u][i].id # h
      BY <1>6
    <3>2. queue[u][i].id \in Queued
      BY OnceTypes
    <3>3. QED
      BY <3>1, <3>2
  <2>3. QED
    BY <2>1, <2>2
<1>8. \A i \in Ids : taken'[i] = IF i = h THEN 1 ELSE taken[i]
  BY <1>1, <1>4, OnceTypes
<1>9. Out' \subseteq Out
  BY <1>4, <1>7, <1>8 DEF Out
<1>10. ASSUME NEW u \in Topics, NEW v \in Topics,
              NEW p \in 1..Len(queue'[u]), NEW q \in 1..Len(queue'[v]),
              queue'[u][p].id = queue'[v][q].id
       PROVE  u = v /\ p = q
  <2>1. PICK i \in 1..Len(queue[u]) :
           queue'[u][p] = queue[u][i] /\ i = (IF u = t THEN p + 1 ELSE p)
    BY <1>6
  <2>2. PICK j \in 1..Len(queue[v]) :
           queue'[v][q] = queue[v][j] /\ j = (IF v = t THEN q + 1 ELSE q)
    BY <1>6
  <2>3. u = v /\ i = j
    BY <1>10, <2>1, <2>2 DEF Once, AtMostOnce
  <2>4. Len(queue'[u]) \in Nat /\ Len(queue'[v]) \in Nat
    BY <1>5
  <2>5. QED
    BY <2>1, <2>2, <2>3, <2>4
<1>11. AtMostOnce'
  <2>1. \A i \in Ids : taken'[i] <= 1
    BY <1>8 DEF Once, AtMostOnce
  <2>2. \A i \in Queued' : taken'[i] = 0
    BY <1>7, <1>8, OnceTypes DEF Once, AtMostOnce
  <2>3. \A i \in Out' : i <= published'
    BY <1>1, <1>9 DEF Once, AtMostOnce
  <2>4. QED
    BY <1>10, <2>1, <2>2, <2>3 DEF AtMostOnce
<1>12. MovingOnce'
  BY <1>1, <1>9 DEF Once, MovingOnce
<1>13. DelayedOnce'
  BY <1>1, <1>9 DEF Once, DelayedOnce
<1>14. ZaddingOnce'
  BY <1>1, <1>9 DEF Once, ZaddingOnce
<1>15. QED
  BY <1>11, <1>12, <1>13, <1>14 DEF Once

\* The steps of the only worker that hand nothing on.
LEMMA OnceOthers ==
    ASSUME OrderInv, FlushInv, Alone, Once, NEW w \in Workers,
           \/ NextTopic(w) \/ NextRound(w) \/ FlushRemove(w) \/ PopEnd(w)
           \/ Perform(w) \/ Return(w) \/ Raise(w) \/ Backoff(w) \/ Drop(w)
           \/ Restart(w)
    PROVE  Once'
<1>1. \A v \in Workers : v = w
  BY DEF Alone
<1>2. UNCHANGED <<queue, zadding, taken, published, moving>>
  BY DEF NextTopic, NextRound, FlushRemove, PopEnd, Perform, Return, Raise,
         Backoff, Drop, Restart, queueVars
<1>3. pc[w] # "push"
  BY DEF NextTopic, NextRound, FlushRemove, PopEnd, Perform, Return, Raise,
         Backoff, Drop, Restart
<1>4. \A v \in Workers : moving[v] = {}
  BY <1>1, <1>3 DEF FlushInv
<1>5. /\ \A t \in Topics : delayed'[t] \subseteq delayed[t]
      /\ \A t \in Topics : \A e \in delayed'[t] : e.task.id \notin Out
  <2>1. CASE FlushRemove(w)
    <3>1. /\ at[w] \in Topics /\ pc[w] = "remove" /\ cutoff[w] \in Nat
          /\ delayed' = [delayed EXCEPT ![at[w]] = {e \in delayed[at[w]] : e.due > cutoff[w]}]
      BY <2>1, OnceTypes DEF FlushRemove, RemRange, OrderInv, TypeInv, WorkerTypeOK
    <3>2. /\ \A t \in Topics : delayed'[t] \subseteq delayed[t]
          /\ \A e \in delayed'[at[w]] : e.due > cutoff[w] /\ e.due \in Nat
      BY <3>1, OnceTypes DEF Entry
    <3>3. ASSUME NEW t \in Topics, NEW e \in delayed'[t], e.task.id \in Out
          PROVE  FALSE
      <4>1. at[w] = t /\ e.due <= cutoff[w]
        BY <1>1, <3>2, <3>3 DEF Once, DelayedOnce
      <4>2. QED
        BY <3>1, <3>2, <4>1
    <3>4. QED
      BY <3>2, <3>3
  <2>2. CASE ~FlushRemove(w)
    <3>1. delayed' = delayed /\ pc[w] \notin {"push", "remove"}
      BY <2>2 DEF NextTopic, NextRound, PopEnd, Perform, Return, Raise, Backoff,
                  Drop, Restart, queueVars
    <3>2. QED
      BY <1>1, <3>1 DEF Once, DelayedOnce
  <2>3. QED
    BY <2>1, <2>2
<1>6. QED
  BY <1>2, <1>4, <1>5, OnceFrame, OnceTypes

LEMMA OnceStep ==
    ASSUME OrderInv, FlushInv, OnceInv, [Next]_vars
    PROVE  OnceInv'
<1> SUFFICES ASSUME interruptions' = 0, Alone
             PROVE  Once'
  BY DEF OnceInv, Alone
<1>1. interruptions \in Nat
  BY DEF OrderInv, TypeInv, WorkerTypeOK
<1>2. ASSUME NEW w \in Workers, RedisError(w) \/ Stop(w)
      PROVE  FALSE
  BY <1>1, <1>2 DEF RedisError, Stop, Interrupt
<1>3. interruptions = 0 => Once
  BY DEF OnceInv
<1>4. CASE QueueNext /\ UNCHANGED workerVars
  <2>1. Once
    BY <1>3, <1>4 DEF workerVars
  <2>2. QED
    BY <1>4, <2>1, OnceIssued
<1>5. ASSUME NEW w \in Workers, Progress(w)
      PROVE  Once'
  <2>1. interruptions' = interruptions
    BY <1>5 DEF Progress, NextTopic, NextRound, FlushRead, FlushPush, FlushRemove, Pop,
         PopEnd, Perform, Return, Raise, Backoff, Drop, Restart
  <2>2. Once
    BY <1>3, <2>1
  <2>3. QED
    BY <1>5, <2>2, OnceRead, OncePush, OncePop, OnceOthers DEF Progress
<1>6. CASE UNCHANGED vars
  <2>1. /\ Once /\ UNCHANGED <<queue, delayed, zadding, taken, published, moving, at,
                                cutoff, pc>>
    BY <1>3, <1>6 DEF vars, queueVars, workerVars
  <2>2. QED
    BY <2>1, OnceFrame, OnceTypes DEF Once, DelayedOnce
<1>7. QED
  BY <1>2, <1>4, <1>5, <1>6 DEF Next

\* A single worker that was never interrupted has handed out no task twice,
\* delayed or not, whatever publishers, the clock and evictions did.
THEOREM OnceUnlessInterrupted == Spec => []DuplicateNeedsInterruption
<1>1. Init => OnceInv
  <2> SUFFICES ASSUME Init
               PROVE  Once
    BY DEF OnceInv
  <2>1. OrderInv
    BY InitOrderInv
  <2>2. /\ \A t \in Topics : Len(queue[t]) = 0 /\ delayed[t] = {}
        /\ zadding = {} /\ \A w \in Workers : moving[w] = {}
        /\ \A i \in Ids : taken[i] = 0
    BY DEF Init, QueueInit
  <2>3. Queued = {} /\ Out = {}
    BY <2>1, <2>2, OnceTypes DEF Out
  <2>4. QED
    BY <2>2, <2>3 DEF Once, AtMostOnce, MovingOnce, DelayedOnce, ZaddingOnce
<1>2. OrderInv /\ VanishInv /\ OnceInv /\ [Next]_vars => OnceInv'
  BY OnceStep DEF VanishInv
<1>3. OnceInv => DuplicateNeedsInterruption
  <2> SUFFICES ASSUME OnceInv, Cardinality(Workers) = 1, interruptions = 0
               PROVE  \A i \in Ids : taken[i] <= 1
    BY DEF DuplicateNeedsInterruption
  <2>1. Alone
    BY WorkerAssumption, FS_Singleton DEF Alone
  <2>2. QED
    BY <2>1 DEF OnceInv, Once, AtMostOnce
<1>4. Init => OrderInv
  BY InitOrderInv
<1>5. OrderInv /\ [Next]_vars => OrderInv'
  BY NextOrderInv
<1>6. QED
  BY <1>1, <1>2, <1>3, <1>4, <1>5, SpecVanishInv, PTL DEF Spec
=============================================================================
