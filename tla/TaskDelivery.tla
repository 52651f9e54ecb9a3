---------------------------- MODULE TaskDelivery ----------------------------
(***************************************************************************)
(* What the task queue promises of tasks published without a delay, with   *)
(* no word of Redis, batches or retries: a task waits under its topic, the *)
(* tasks of a topic are taken in the order of publication, and a task that *)
(* was taken or lost never comes back.  Nothing is acknowledged, so what   *)
(* waits or is taken may be gone at any time.                              *)
(***************************************************************************)
EXTENDS Naturals

CONSTANT Topics

VARIABLES
    high,     \* the number of tasks published; it names the latest
    waiting,  \* waiting[t]: the tasks of t nobody has taken
    taken     \* the tasks in somebody's hands

vars == <<high, waiting, taken>>

Init ==
    /\ high = 0
    /\ waiting = [t \in Topics |-> {}]
    /\ taken = {}

Publish(t) ==
    /\ high' = high + 1
    /\ waiting' = [waiting EXCEPT ![t] = @ \cup {high + 1}]
    /\ UNCHANGED taken

\* A task published with a delay has a number and no place here.
PublishDelayed ==
    /\ high' = high + 1
    /\ UNCHANGED <<waiting, taken>>

\* Only the oldest waiting task of a topic can be taken.
Take(t) ==
    /\ \E i \in waiting[t] :
         /\ \A j \in waiting[t] : i <= j
         /\ waiting' = [waiting EXCEPT ![t] = @ \ {i}]
         /\ taken' = taken \cup {i}
    /\ UNCHANGED high

\* Tasks finish, fail or are lost with a process or a key.
End ==
    /\ taken' \in SUBSET taken
    /\ waiting' \in [Topics -> SUBSET UNION {waiting[t] : t \in Topics}]
    /\ \A t \in Topics : waiting'[t] \subseteq waiting[t]
    /\ UNCHANGED high

Next ==
    \/ \E t \in Topics : Publish(t) \/ Take(t)
    \/ PublishDelayed
    \/ End

Spec == Init /\ [][Next]_vars

=============================================================================
