------------------------------ MODULE EventBus ------------------------------
(***************************************************************************)
(* events.py: an event is a row, committed as pending by emit_event, and   *)
(* then posted to the webhook by the same coroutine, if a URL is set.  The *)
(* status is written by transactions of their own.  Nobody else looks for  *)
(* pending events: retry_event reads the row through the SQLite connection *)
(* although events are written to PostgreSQL only, so it finds none.       *)
(***************************************************************************)
EXTENDS Naturals, Sequences

CONSTANTS
    Emitters,   \* the coroutines that emit events
    Retries,    \* EVENT_DISPATCH_RETRIES, at least one
    MaxFaults   \* bound: processes that die, transactions that fail

ASSUME BusAssumption ==
    /\ Retries \in Nat \ {0}
    /\ MaxFaults \in Nat

VARIABLES
    webhook,  \* EVENT_WEBHOOK_URL is set
    events,   \* the rows: [about, status]
    heard,    \* heard[e]: how often the subscriber received event e
    sending,  \* sending[p]: the call of dispatch_event p is in
    faults    \* failures so far

busVars == <<webhook, events, heard, sending, faults>>

Statuses == {"pending", "delivered", "failed"}

\* A call of dispatch_event: attempt counts the posts, stage is what comes next.
Call == [event : Nat, attempt : 0..Retries, stage : {"idle", "post", "record", "fail"}]
NoCall == [event |-> 0, attempt |-> 0, stage |-> "idle"]

BusInit ==
    /\ webhook \in BOOLEAN
    /\ events = <<>> /\ heard = <<>>
    /\ sending = [p \in Emitters |-> NoCall]
    /\ faults = 0

Busy(p) == sending[p].stage # "idle"

\* emit_event for an enabled type: the row is committed (with whatever the
\* session it was given had pending), then dispatch_event is awaited.
EmitEvent(p, about) ==
    /\ ~Busy(p)
    /\ events' = Append(events, [about |-> about, status |-> "pending"])
    /\ heard' = Append(heard, 0)
    /\ sending' = IF webhook
                    THEN [sending EXCEPT ![p] = [event |-> Len(events) + 1,
                                                 attempt |-> 1, stage |-> "post"]]
                    ELSE sending
    /\ UNCHANGED <<webhook, faults>>

Stage(p, s) == sending' = [sending EXCEPT ![p].stage = s]

\* Slip: recorded before the answer.
AnsweredAtOnce(p) == sending[p].stage \in {"post", "record"}

\* A delivery is recorded when an answer 2xx has come.
Answered(p) == sending[p].stage = "record"

\* Slip: one attempt more.
AttemptFailsLate(p) ==
    sending' = IF sending[p].attempt <= Retries
                 THEN [sending EXCEPT ![p].attempt = @ + 1, ![p].stage = "post"]
                 ELSE [sending EXCEPT ![p].stage = "fail"]

\* Slip: the last failure is not recorded.
AttemptFailsSilently(p) ==
    sending' = IF sending[p].attempt < Retries
                 THEN [sending EXCEPT ![p].attempt = @ + 1, ![p].stage = "post"]
                 ELSE [sending EXCEPT ![p] = NoCall]

\* The attempt raised: the next one, after a pause, or the end of the loop.
AttemptFails(p) ==
    sending' = IF sending[p].attempt < Retries
                 THEN [sending EXCEPT ![p].attempt = @ + 1, ![p].stage = "post"]
                 ELSE [sending EXCEPT ![p].stage = "fail"]

\* The webhook answers 2xx.
PostAccepted(p) ==
    /\ sending[p].stage = "post"
    /\ heard' = [heard EXCEPT ![sending[p].event] = @ + 1]
    /\ Stage(p, "record")
    /\ UNCHANGED <<webhook, events, faults>>

\* It answers an error or too late, after it has taken the event or not.
PostFails(p) ==
    /\ sending[p].stage = "post"
    /\ \/ heard' = [heard EXCEPT ![sending[p].event] = @ + 1]
       \/ UNCHANGED heard
    /\ AttemptFails(p)
    /\ UNCHANGED <<webhook, events, faults>>

SetStatus(p, s) == events' = [events EXCEPT ![sending[p].event].status = s]

\* _set_status("delivered"), still inside the attempt.
RecordDelivered(p) ==
    /\ Answered(p)
    /\ SetStatus(p, "delivered")
    /\ sending' = [sending EXCEPT ![p] = NoCall]
    /\ UNCHANGED <<webhook, heard, faults>>

\* Recording raises: for the loop the attempt has failed, and it posts again.
RecordFails(p) ==
    /\ sending[p].stage = "record"
    /\ faults < MaxFaults
    /\ faults' = faults + 1
    /\ AttemptFails(p)
    /\ UNCHANGED <<webhook, events, heard>>

\* After the last attempt.
SetFailed(p) ==
    /\ sending[p].stage = "fail"
    /\ SetStatus(p, "failed")
    /\ sending' = [sending EXCEPT ![p] = NoCall]
    /\ UNCHANGED <<webhook, heard, faults>>

\* _set_status("failed") raises; emit_event catches it and its caller goes on.
FailureUnrecorded(p) ==
    /\ sending[p].stage = "fail"
    /\ faults < MaxFaults
    /\ faults' = faults + 1
    /\ sending' = [sending EXCEPT ![p] = NoCall]
    /\ UNCHANGED <<webhook, events, heard>>

\* The process dies: an event it was sending stays pending.
EmitterDies(p) ==
    /\ faults < MaxFaults
    /\ faults' = faults + 1
    /\ sending' = [sending EXCEPT ![p] = NoCall]
    /\ UNCHANGED <<webhook, events, heard>>

Dispatch(p) ==
    \/ PostAccepted(p) \/ PostFails(p)
    \/ RecordDelivered(p) \/ RecordFails(p)
    \/ SetFailed(p) \/ FailureUnrecorded(p)

BusTypeOK ==
    /\ webhook \in BOOLEAN
    /\ \A e \in DOMAIN events : events[e].status \in Statuses
    /\ heard \in Seq(Nat) /\ Len(heard) = Len(events)
    /\ sending \in [Emitters -> Call]
    /\ \A p \in Emitters : Busy(p) => webhook /\ sending[p].event \in 1..Len(events)
    /\ faults \in 0..MaxFaults

(***************************************************************************)
(* Properties                                                              *)
(***************************************************************************)

\* An event is posted at most Retries times (events.py:54), a delivery that
\* could not be recorded included.
PostsBounded == \A e \in DOMAIN heard : heard[e] <= Retries

\* With a webhook, an event that nobody is sending stays pending only after a
\* fault: there is no other way to be forgotten, and nobody to pick it up.
PendingNeedsFault ==
    \A e \in DOMAIN events :
      webhook /\ events[e].status = "pending" /\ (\A p \in Emitters : sending[p].event # e)
        => faults > 0

\* The bus keeps the promise of Outbox.
Promise == INSTANCE Outbox WITH
    status <- [e \in DOMAIN events |-> events[e].status],
    heard <- [e \in DOMAIN heard |-> heard[e] > 0]
KeepsPromise == Promise!Spec

=============================================================================
