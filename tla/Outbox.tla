------------------------------- MODULE Outbox -------------------------------
(***************************************************************************)
(* What the event bus promises its subscriber: an event is written once,   *)
(* as pending, with what it reports.  While it is pending the subscriber   *)
(* may hear of it, and it is settled at most once: as delivered only if    *)
(* the subscriber has heard of it.  Nothing is heard of a settled event.   *)
(***************************************************************************)
EXTENDS Naturals, Sequences

VARIABLES
    status,  \* status[e]: "pending", "delivered" or "failed"
    heard    \* heard[e]: the subscriber has received the event

Init == status = <<>> /\ heard = <<>>

Write ==
    /\ status' = Append(status, "pending")
    /\ heard' = Append(heard, FALSE)

Hear(e) ==
    /\ status[e] = "pending"
    /\ heard' = [heard EXCEPT ![e] = TRUE]
    /\ UNCHANGED status

Settle(e, s) ==
    /\ status[e] = "pending"
    /\ s = "delivered" => heard[e]
    /\ status' = [status EXCEPT ![e] = s]
    /\ UNCHANGED heard

Next ==
    \/ Write
    \/ \E e \in 1..Len(status) :
         Hear(e) \/ \E s \in {"delivered", "failed"} : Settle(e, s)

Spec == Init /\ [][Next]_<<status, heard>>

=============================================================================
