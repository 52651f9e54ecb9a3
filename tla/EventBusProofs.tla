--------------------------- MODULE EventBusProofs ---------------------------
(***************************************************************************)
(* Theorems about EventBus by itself, for every set of emitters, number of *)
(* retries and bound on the faults, whatever the events are about: the     *)
(* coroutines emit, dispatch and die in any order.  Reminders is one of    *)
(* the systems that use the bus in this way (RemindersProofs).             *)
(***************************************************************************)
EXTENDS EventBus, SequenceTheorems, TLAPS

Event(A) == [about : A, status : Statuses]

BusNext(A) ==
    \E p \in Emitters :
      (\E a \in A : EmitEvent(p, a)) \/ Dispatch(p) \/ EmitterDies(p)

BusSpec(A) == BusInit /\ [][BusNext(A)]_busVars

(***************************************************************************)
(* The inductive invariant.  The posts are bounded because a call counts   *)
(* its attempts and no two calls are for the same event; the promise of    *)
(* Outbox is kept because the event of a call is pending, and was heard of *)
(* when the call goes to record it.                                        *)
(***************************************************************************)
RowsOK(A) ==
    /\ events \in Seq(Event(A))
    /\ heard \in Seq(Nat) /\ Len(heard) = Len(events)
    /\ webhook \in BOOLEAN /\ faults \in 0..MaxFaults
    /\ sending \in [Emitters -> Call]

\* How often the event of call c was posted before what it does next.
Posted(c) == IF c.stage = "post" THEN c.attempt - 1 ELSE c.attempt

CallOK(c) ==
    /\ c.event \in 1..Len(events) /\ c.attempt \in 1..Retries
    /\ events[c.event].status = "pending"
    /\ heard[c.event] <= Posted(c)
    /\ c.stage = "record" => heard[c.event] > 0

CallsOK ==
    \A p \in Emitters :
      IF Busy(p) THEN webhook /\ CallOK(sending[p]) ELSE sending[p] = NoCall

\* An event is sent by one coroutine: the one that emitted it.
OneSender ==
    \A p, q \in Emitters : Busy(p) /\ sending[q].event = sending[p].event => p = q

BusInv(A) ==
    RowsOK(A) /\ CallsOK /\ OneSender /\ PostsBounded /\ PendingNeedsFault

LEMMA BusTypes ==
    ASSUME NEW A, BusInv(A)
    PROVE  BusTypeOK
<1>1. \A e \in DOMAIN events : events[e] \in Event(A)
  BY DEF BusInv, RowsOK
<1>2. \A p \in Emitters : Busy(p) => webhook /\ sending[p].event \in 1..Len(events)
  BY DEF BusInv, CallsOK, CallOK
<1>3. QED
  BY <1>1, <1>2 DEF BusInv, RowsOK, BusTypeOK, Event

LEMMA BusInitInv ==
    ASSUME NEW A, BusInit
    PROVE  BusInv(A)
<1>1. NoCall \in Call /\ NoCall.stage = "idle"
  BY BusAssumption DEF NoCall, Call
<1>2. \A p \in Emitters : ~Busy(p) /\ sending[p] = NoCall
  BY <1>1 DEF BusInit, Busy
<1>3. RowsOK(A)
  BY <1>1, BusAssumption DEF BusInit, RowsOK
<1>4. Len(events) = 0 /\ DOMAIN events = {} /\ DOMAIN heard = {}
  BY DEF BusInit
<1>5. QED
  BY <1>2, <1>3, <1>4 DEF BusInv, CallsOK, OneSender, PostsBounded, PendingNeedsFault

\* A new row is pending and unheard of; with a webhook its emitter sends it.
LEMMA EmitInv ==
    ASSUME NEW A, BusInv(A), NEW p \in Emitters, NEW a \in A, EmitEvent(p, a)
    PROVE  BusInv(A)'
<1> DEFINE n == Len(events) + 1
           row == [about |-> a, status |-> "pending"]
           c == [event |-> n, attempt |-> 1, stage |-> "post"]
<1> USE DEF BusInv
<1>1. /\ events \in Seq(Event(A)) /\ heard \in Seq(Nat) /\ Len(heard) = Len(events)
      /\ sending \in [Emitters -> Call] /\ webhook \in BOOLEAN /\ Retries \in Nat \ {0}
      /\ Len(events) \in Nat
  BY BusAssumption DEF RowsOK
<1>2. /\ ~Busy(p) /\ sending[p] = NoCall
      /\ events' = Append(events, row) /\ heard' = Append(heard, 0)
      /\ webhook' = webhook /\ faults' = faults
      /\ sending' = IF webhook THEN [sending EXCEPT ![p] = c] ELSE sending
  BY DEF EmitEvent, CallsOK
<1>3. /\ row \in Event(A) /\ row.status = "pending"
      /\ c \in Call /\ c.event = n /\ c.attempt = 1 /\ c.stage = "post"
  BY <1>1 DEF Event, Statuses, Call
<1>4. /\ events' \in Seq(Event(A)) /\ heard' \in Seq(Nat)
      /\ Len(events') = n /\ Len(heard') = n
      /\ DOMAIN events' = 1..n /\ DOMAIN heard' = 1..n
      /\ \A e \in 1..Len(events) : events'[e] = events[e] /\ heard'[e] = heard[e]
      /\ events'[n] = row /\ heard'[n] = 0
  BY <1>1, <1>2, <1>3, AppendProperties
<1>5. RowsOK(A)'
  BY <1>1, <1>2, <1>3, <1>4 DEF RowsOK
<1>6. \A e \in 1..n : e \in 1..Len(events) \/ e = n
  BY <1>1
<1>7. \A q \in Emitters : q # p => sending'[q] = sending[q]
  BY <1>1, <1>2
<1>8. \A q \in Emitters : Busy(q) => q # p /\ sending[q].event \in 1..Len(events)
  BY <1>2 DEF CallsOK, CallOK
<1>9. CallsOK'
  <2>1. ASSUME NEW q \in Emitters, q # p
        PROVE  IF Busy(q)' THEN (webhook /\ CallOK(sending[q]))' ELSE (sending[q] = NoCall)'
    <3>1. Busy(q)' <=> Busy(q)
      BY <1>7, <2>1 DEF Busy
    <3>2. CASE ~Busy(q)
      BY <1>7, <2>1, <3>1, <3>2 DEF CallsOK
    <3>3. CASE Busy(q)
      <4>1. webhook /\ CallOK(sending[q]) /\ sending[q].event \in 1..n
        BY <1>1, <3>3 DEF CallsOK, CallOK
      <4>2. QED
        BY <1>2, <1>4, <1>7, <2>1, <3>1, <3>3, <4>1 DEF CallOK, Posted
    <3>4. QED
      BY <3>2, <3>3
  <2>2. IF Busy(p)' THEN (webhook /\ CallOK(sending[p]))' ELSE (sending[p] = NoCall)'
    <3>1. CASE webhook
      <4>1. sending'[p] = c /\ Busy(p)'
        BY <1>1, <1>2, <1>3, <3>1 DEF Busy
      <4>2. sending'[p].event = n /\ sending'[p].attempt = 1 /\ sending'[p].stage = "post"
        BY <1>3, <4>1
      <4>3. n \in 1..Len(events') /\ 1 \in 1..Retries
        BY <1>1, <1>4
      <4>4. QED
        BY <1>2, <1>3, <1>4, <3>1, <4>1, <4>2, <4>3 DEF CallOK, Posted
    <3>2. CASE ~webhook
      BY <1>2, <3>2 DEF Busy
    <3>3. QED
      BY <3>1, <3>2
  <2>3. QED
    BY <2>1, <2>2 DEF CallsOK
<1>10. OneSender'
  <2>1. \A q \in Emitters : Busy(q)' <=> IF q = p THEN webhook ELSE Busy(q)
    BY <1>1, <1>2, <1>3, <1>7 DEF Busy
  <2>2. \A q \in Emitters : q # p => sending[q].event # n
    <3>1. \A q \in Emitters : ~Busy(q) => sending[q].event = 0
      BY DEF CallsOK, NoCall
    <3>2. QED
      BY <1>1, <1>8, <3>1
  <2>3. webhook => sending'[p].event = n
    BY <1>1, <1>2, <1>3
  <2>4. ~webhook => sending' = sending
    BY <1>2
  <2>5. QED
    BY <1>2, <1>7, <2>1, <2>2, <2>3, <2>4 DEF OneSender
<1>11. PostsBounded'
  BY <1>1, <1>4, <1>6 DEF PostsBounded
<1>12. PendingNeedsFault'
  <2> SUFFICES ASSUME NEW e \in 1..n, webhook, events'[e].status = "pending",
                      \A q \in Emitters : sending'[q].event # e
               PROVE  faults > 0
    BY <1>2, <1>4 DEF PendingNeedsFault
  <2>1. e # n
    BY <1>1, <1>2, <1>3
  <2>2. e \in DOMAIN events /\ events[e].status = "pending"
    BY <1>1, <1>4, <1>6, <2>1
  <2>3. \A q \in Emitters : sending[q].event # e
    <3>1. \A q \in Emitters : q # p => sending[q].event # e
      BY <1>7
    <3>2. sending[p].event = 0 /\ e # 0
      BY <1>1, <1>2 DEF NoCall
    <3>3. QED
      BY <3>1, <3>2
  <2>4. QED
    BY <2>2, <2>3 DEF PendingNeedsFault
<1>13. QED
  BY <1>5, <1>9, <1>10, <1>11, <1>12

\* A call goes on: the event may be heard of once more, its row stays.
LEMMA CallGoesOn ==
    ASSUME NEW A, BusInv(A), NEW p \in Emitters, Busy(p), NEW c \in Call,
           c.event = sending[p].event, c.stage # "idle", c.attempt \in 1..Retries,
           sending' = [sending EXCEPT ![p] = c],
           UNCHANGED <<webhook, events>>,
           faults' \in {faults, faults + 1}, faults' \in 0..MaxFaults,
           heard' \in {heard, [heard EXCEPT ![c.event] = @ + 1]},
           heard'[c.event] <= Posted(c),
           c.stage = "record" => heard'[c.event] > 0
    PROVE  BusInv(A)'
<1> USE DEF BusInv
<1>1. /\ events \in Seq(Event(A)) /\ heard \in Seq(Nat) /\ Len(heard) = Len(events)
      /\ sending \in [Emitters -> Call] /\ Retries \in Nat /\ faults \in Nat
      /\ DOMAIN heard = 1..Len(events) /\ DOMAIN events = 1..Len(events)
  BY BusAssumption DEF RowsOK
<1>2. /\ webhook /\ c.event \in 1..Len(events) /\ events[c.event].status = "pending"
      /\ heard[c.event] \in Nat
  BY <1>1 DEF CallsOK, CallOK
<1>3. /\ heard' \in Seq(Nat) /\ Len(heard') = Len(events) /\ DOMAIN heard' = 1..Len(events)
      /\ \A e \in 1..Len(events) : e # c.event => heard'[e] = heard[e]
  <2>0. heard \in [1..Len(events) -> Nat] /\ heard[c.event] + 1 \in Nat
    BY <1>1, <1>2
  <2>1. [heard EXCEPT ![c.event] = @ + 1] \in [1..Len(events) -> Nat]
    BY <2>0
  <2>2. heard' \in [1..Len(events) -> Nat]
    BY <2>0, <2>1
  <2>3. Len(events) \in Nat
    BY <1>1
  <2>4. heard' \in Seq(Nat) /\ Len(heard') = Len(events) /\ DOMAIN heard' = 1..Len(events)
    BY <2>2, <2>3
  <2>5. QED
    BY <2>0, <2>4
<1>4. RowsOK(A)'
  BY <1>1, <1>3 DEF RowsOK
<1>5. /\ sending'[p] = c /\ \A q \in Emitters : q # p => sending'[q] = sending[q]
      /\ \A q \in Emitters : Busy(q)' <=> Busy(q)
  BY <1>1 DEF Busy
<1>6. CallsOK'
  <2>1. ASSUME NEW q \in Emitters, q # p, Busy(q)
        PROVE  webhook /\ CallOK(sending[q])'
    <3>1. sending[q].event # c.event
      BY <2>1 DEF OneSender
    <3>2. QED
      BY <1>3, <1>5, <2>1, <3>1 DEF CallsOK, CallOK, Posted
  <2>2. CallOK(sending[p])'
    BY <1>2, <1>5 DEF CallOK, Posted
  <2>3. QED
    BY <1>2, <1>5, <2>1, <2>2 DEF CallsOK
<1>7. OneSender'
  BY <1>5 DEF OneSender
<1>8. PostsBounded'
  <2>1. heard'[c.event] <= Retries
    <3>1. Posted(c) \in Int /\ Posted(c) <= Retries
      BY <1>1 DEF Posted
    <3>2. heard'[c.event] \in Nat
      BY <1>2, <1>3
    <3>3. QED
      BY <1>1, <3>1, <3>2
  <2>2. QED
    BY <1>1, <1>3, <2>1 DEF PostsBounded
<1>9. PendingNeedsFault'
  <2>1. \A q \in Emitters : sending'[q].event = sending[q].event
    BY <1>5
  <2>2. faults > 0 => faults' > 0
    BY <1>1
  <2>3. QED
    BY <2>1, <2>2 DEF PendingNeedsFault
<1>10. QED
  BY <1>4, <1>6, <1>7, <1>8, <1>9

\* A call ends: it settles the row of its event, or a fault keeps it from that.
LEMMA CallEnds ==
    ASSUME NEW A, BusInv(A), NEW p \in Emitters,
           sending' = [sending EXCEPT ![p] = NoCall],
           UNCHANGED <<webhook, heard>>,
           \/ /\ Busy(p) /\ faults' = faults
              /\ \E s \in {"delivered", "failed"} : SetStatus(p, s)
           \/ events' = events /\ faults' = faults + 1 /\ faults < MaxFaults
    PROVE  BusInv(A)'
<1> DEFINE i == sending[p].event
<1> USE DEF BusInv
<1>1. /\ events \in Seq(Event(A)) /\ heard \in Seq(Nat) /\ Len(heard) = Len(events)
      /\ sending \in [Emitters -> Call] /\ faults \in 0..MaxFaults /\ MaxFaults \in Nat
      /\ DOMAIN heard = 1..Len(events) /\ DOMAIN events = 1..Len(events)
  BY BusAssumption DEF RowsOK
<1>2. Busy(p) => i \in 1..Len(events)
  BY DEF CallsOK, CallOK
<1>3. NoCall \in Call /\ NoCall.stage = "idle" /\ NoCall.event = 0
  BY BusAssumption DEF NoCall, Call
<1>4. /\ events' \in Seq(Event(A)) /\ Len(events') = Len(events)
      /\ \A e \in 1..Len(events) :
           \/ events'[e] = events[e]
           \/ e = i /\ events'[e].status # "pending"
      /\ \A e \in 1..Len(events) : e # i => events'[e] = events[e]
  <2>1. CASE events' = events
    BY <1>1, <2>1
  <2>2. ASSUME Busy(p), NEW s \in {"delivered", "failed"}, SetStatus(p, s)
        PROVE  <1>4!:
    <3>1. events[i] \in Event(A) /\ s \in Statuses /\ s # "pending"
      BY <1>1, <1>2, <2>2 DEF Statuses
    <3>2. /\ [events[i] EXCEPT !.status = s] \in Event(A)
          /\ [events[i] EXCEPT !.status = s].status = s
      BY <3>1 DEF Event
    <3>3. events' = [events EXCEPT ![i] = [events[i] EXCEPT !.status = s]]
      BY <2>2 DEF SetStatus
    <3>4. events \in [1..Len(events) -> Event(A)] /\ Len(events) \in Nat
      BY <1>1
    <3>5. events' \in [1..Len(events) -> Event(A)] /\ events'[i] = [events[i] EXCEPT !.status = s]
      BY <1>2, <2>2, <3>2, <3>3, <3>4
    <3>6. events' \in Seq(Event(A)) /\ Len(events') = Len(events)
      BY <3>4, <3>5
    <3>7. QED
      BY <1>1, <1>2, <2>2, <3>1, <3>2, <3>3, <3>5, <3>6
  <2>3. QED
    BY <2>1, <2>2
<1>5. faults' \in 0..MaxFaults
  BY <1>1
<1>6. RowsOK(A)'
  BY <1>1, <1>3, <1>4, <1>5 DEF RowsOK
<1>7. /\ sending'[p] = NoCall /\ ~Busy(p)'
      /\ \A q \in Emitters : q # p => sending'[q] = sending[q] /\ (Busy(q)' <=> Busy(q))
  BY <1>1, <1>3 DEF Busy
<1>8. CallsOK'
  <2>1. ASSUME NEW q \in Emitters, q # p, Busy(q)
        PROVE  webhook /\ CallOK(sending[q])'
    <3>1. sending[q].event # i /\ sending[q].event \in 1..Len(events)
      BY <2>1 DEF OneSender, CallsOK, CallOK
    <3>2. QED
      BY <1>4, <1>7, <2>1, <3>1 DEF CallsOK, CallOK, Posted
  <2>2. QED
    BY <1>7, <2>1 DEF CallsOK
<1>9. OneSender'
  <2>1. \A q \in Emitters : Busy(q) => sending[q].event # 0
    BY <1>1 DEF CallsOK, CallOK
  <2>2. QED
    BY <1>3, <1>7, <2>1 DEF OneSender
<1>10. PostsBounded'
  BY DEF PostsBounded
<1>11. PendingNeedsFault'
  <2>1. CASE faults' = faults + 1
    BY <1>1, <2>1 DEF PendingNeedsFault
  <2>2. CASE /\ Busy(p) /\ faults' = faults
             /\ \E s \in {"delivered", "failed"} : SetStatus(p, s)
    <3>1. PICK s \in {"delivered", "failed"} : SetStatus(p, s)
      BY <2>2
    <3>2. events'[i].status # "pending"
      BY <1>1, <1>2, <2>2, <3>1 DEF SetStatus
    <3>3. \A e \in 1..Len(events) : e # i /\ (\A q \in Emitters : sending'[q].event # e) =>
             \A q \in Emitters : sending[q].event # e
      BY <1>7
    <3>4. QED
      BY <1>1, <1>4, <2>2, <3>2, <3>3 DEF PendingNeedsFault
  <2>3. QED
    BY <2>1, <2>2
<1>12. QED
  BY <1>6, <1>8, <1>9, <1>10, <1>11

LEMMA BusStepInv ==
    ASSUME NEW A, BusInv(A), BusNext(A)
    PROVE  BusInv(A)'
<1>1. ASSUME NEW p \in Emitters, NEW a \in A, EmitEvent(p, a)
      PROVE  BusInv(A)'
  BY <1>1, EmitInv
<1>2. ASSUME NEW p \in Emitters, EmitterDies(p)
      PROVE  BusInv(A)'
  BY <1>2, CallEnds DEF EmitterDies
<1>3. ASSUME NEW p \in Emitters, Dispatch(p)
      PROVE  BusInv(A)'
  <2> DEFINE c == sending[p]
             e == c.event
             again == [c EXCEPT !.attempt = @ + 1, !.stage = "post"]
             over == [c EXCEPT !.stage = "fail"]
             record == [c EXCEPT !.stage = "record"]
  <2>1. Busy(p)
    BY <1>3 DEF Dispatch, PostAccepted, PostFails, RecordDelivered, RecordFails, SetFailed,
         FailureUnrecorded, Answered, Busy
  <2>2. /\ c \in Call /\ c.attempt \in 1..Retries /\ Retries \in Nat /\ faults \in 0..MaxFaults
        /\ e \in 1..Len(events) /\ heard[e] \in Nat /\ heard[e] <= Posted(c)
        /\ heard \in [1..Len(events) -> Nat]
    <3>1. heard \in [1..Len(events) -> Nat]
      BY DEF BusInv, RowsOK
    <3>2. QED
      BY <2>1, <3>1, BusAssumption DEF BusInv, RowsOK, CallsOK, CallOK
  <2>3. [heard EXCEPT ![e] = @ + 1][e] = heard[e] + 1
    BY <2>2
  <2>4. ASSUME AttemptFails(p), UNCHANGED <<webhook, events>>,
               c.stage \in {"post", "record"},
               heard' \in {heard, [heard EXCEPT ![e] = @ + 1]},
               c.stage = "record" => heard' = heard,
               faults' \in {faults, faults + 1}, faults' \in 0..MaxFaults
        PROVE  BusInv(A)'
    <3>1. heard'[e] <= c.attempt /\ heard'[e] \in Nat
      <4>1. heard'[e] = heard[e] \/ (heard'[e] = heard[e] + 1 /\ c.stage = "post")
        BY <2>3, <2>4
      <4>2. c.attempt \in Nat
        BY <2>2
      <4>3. heard[e] <= c.attempt /\ (c.stage = "post" => heard[e] <= c.attempt - 1)
        BY <2>2, <4>2 DEF Posted
      <4>4. QED
        BY <2>2, <4>1, <4>2, <4>3
    <3>2. CASE c.attempt < Retries
      <4>1. sending' = [sending EXCEPT ![p] = again]
        BY <2>4, <3>2 DEF AttemptFails
      <4>2. /\ again \in Call /\ again.event = e /\ again.stage = "post"
            /\ again.attempt = c.attempt + 1 /\ again.attempt \in 1..Retries
        <5>1. c.attempt + 1 \in 0..Retries /\ c.attempt + 1 \in 1..Retries
          BY <2>2, <3>2
        <5>2. again \in Call
          BY <2>2, <5>1 DEF Call
        <5>3. again.event = e /\ again.stage = "post" /\ again.attempt = c.attempt + 1
          BY <2>2 DEF Call
        <5>4. QED
          BY <5>1, <5>2, <5>3
      <4>3. heard'[e] <= Posted(again)
        BY <2>2, <3>1, <4>2 DEF Posted
      <4>4. QED
        BY <2>1, <2>4, <4>1, <4>2, <4>3, CallGoesOn
    <3>3. CASE ~(c.attempt < Retries)
      <4>1. sending' = [sending EXCEPT ![p] = over]
        BY <2>4, <3>3 DEF AttemptFails
      <4>2. over \in Call /\ over.event = e /\ over.stage = "fail" /\ over.attempt = c.attempt
        BY <2>2 DEF Call
      <4>3. heard'[e] <= Posted(over)
        BY <3>1, <4>2 DEF Posted
      <4>4. QED
        BY <2>1, <2>2, <2>4, <4>1, <4>2, <4>3, CallGoesOn
    <3>4. QED
      BY <3>2, <3>3
  <2>5. CASE PostAccepted(p)
    <3>1. /\ sending' = [sending EXCEPT ![p] = record] /\ c.stage = "post"
          /\ heard' = [heard EXCEPT ![e] = @ + 1] /\ UNCHANGED <<webhook, events, faults>>
      BY <2>5 DEF PostAccepted, Stage
    <3>2. /\ record \in Call /\ record.event = e /\ record.stage = "record"
          /\ record.attempt = c.attempt
      BY <2>2 DEF Call
    <3>3. heard'[e] <= Posted(record) /\ heard'[e] > 0
      BY <2>2, <2>3, <3>1, <3>2 DEF Posted
    <3>4. QED
      BY <2>1, <2>2, <3>1, <3>2, <3>3, CallGoesOn
  <2>6. CASE PostFails(p)
    <3>1. /\ heard' \in {heard, [heard EXCEPT ![e] = @ + 1]} /\ c.stage = "post"
          /\ AttemptFails(p) /\ UNCHANGED <<webhook, events, faults>>
      BY <2>6 DEF PostFails
    <3>2. QED
      BY <2>2, <2>4, <3>1
  <2>7. CASE RecordFails(p)
    <3>1. /\ heard' = heard /\ c.stage = "record" /\ AttemptFails(p)
          /\ UNCHANGED <<webhook, events>> /\ faults' = faults + 1 /\ faults < MaxFaults
      BY <2>7 DEF RecordFails
    <3>2. faults' \in 0..MaxFaults
      BY <2>2, <3>1, BusAssumption
    <3>3. QED
      BY <2>4, <3>1, <3>2
  <2>8. CASE RecordDelivered(p) \/ SetFailed(p)
    BY <2>1, <2>8, CallEnds DEF RecordDelivered, SetFailed
  <2>9. CASE FailureUnrecorded(p)
    BY <2>9, CallEnds DEF FailureUnrecorded
  <2>10. QED
    BY <1>3, <2>5, <2>6, <2>7, <2>8, <2>9 DEF Dispatch
<1>4. QED
  BY <1>1, <1>2, <1>3 DEF BusNext

LEMMA BusStutter ==
    ASSUME NEW A, BusInv(A), UNCHANGED busVars
    PROVE  BusInv(A)'
BY DEF busVars, BusInv, RowsOK, CallsOK, CallOK, Posted, OneSender, PostsBounded,
       PendingNeedsFault, Busy

LEMMA BusSpecInv ==
    ASSUME NEW A
    PROVE  BusSpec(A) => []BusInv(A)
<1>1. BusInit => BusInv(A)
  BY BusInitInv
<1>2. BusInv(A) /\ [BusNext(A)]_busVars => BusInv(A)'
  BY BusStepInv, BusStutter
<1>3. QED
  BY <1>1, <1>2, PTL DEF BusSpec

\* Every reachable state of the bus is well typed.
THEOREM BusTypeCorrect ==
    ASSUME NEW A
    PROVE  BusSpec(A) => []BusTypeOK
<1>1. BusInv(A) => BusTypeOK
  BY BusTypes
<1>2. QED
  BY <1>1, BusSpecInv, PTL

\* No event is posted more often than the configured number of attempts.
THEOREM PostsAreBounded ==
    ASSUME NEW A
    PROVE  BusSpec(A) => []PostsBounded
<1>1. BusInv(A) => PostsBounded
  BY DEF BusInv
<1>2. QED
  BY <1>1, BusSpecInv, PTL

\* Without a fault every event that is not being sent has been settled.
THEOREM ForgottenOnlyByFault ==
    ASSUME NEW A
    PROVE  BusSpec(A) => []PendingNeedsFault
<1>1. BusInv(A) => PendingNeedsFault
  BY DEF BusInv
<1>2. QED
  BY <1>1, BusSpecInv, PTL

(***************************************************************************)
(* The bus keeps the promise of Outbox, step by step.                      *)
(***************************************************************************)
StatusOf == [e \in DOMAIN events |-> events[e].status]
HeardOf == [e \in DOMAIN heard |-> heard[e] > 0]

LEMMA AppendIs ==
    ASSUME NEW T, NEW f \in Seq(T), NEW y \in T
    PROVE  Append(f, y) = [e \in 1..(Len(f) + 1) |-> IF e \in 1..Len(f) THEN f[e] ELSE y]
<1> DEFINE h == Append(f, y)
           m == Len(f) + 1
<1>1. /\ h \in Seq(T) /\ Len(h) = m
      /\ \A e \in 1..Len(f) : h[e] = f[e]
      /\ h[m] = y
  BY AppendProperties
<1>2. h \in [1..m -> T]
  BY <1>1, LenProperties
<1>3. \A e \in 1..m : e \in 1..Len(f) \/ (e = m /\ e \notin 1..Len(f))
  BY LenProperties
<1>4. \A e \in 1..m : h[e] = IF e \in 1..Len(f) THEN f[e] ELSE y
  BY <1>1, <1>3
<1>5. h = [e \in 1..m |-> h[e]]
  BY <1>2
<1>6. QED
  BY <1>4, <1>5

LEMMA PromiseTypes ==
    ASSUME NEW A, BusInv(A)
    PROVE  /\ events \in Seq(Event(A)) /\ heard \in Seq(Nat) /\ Len(events) \in Nat
           /\ DOMAIN events = 1..Len(events) /\ DOMAIN heard = 1..Len(events)
           /\ StatusOf \in Seq(Statuses) /\ Len(StatusOf) = Len(events)
           /\ HeardOf \in Seq(BOOLEAN) /\ Len(HeardOf) = Len(events)
<1>1. /\ events \in Seq(Event(A)) /\ heard \in Seq(Nat) /\ Len(heard) = Len(events)
      /\ Len(events) \in Nat
  BY DEF BusInv, RowsOK
<1>2. DOMAIN events = 1..Len(events) /\ DOMAIN heard = 1..Len(events)
  BY <1>1
<1>3. \A e \in 1..Len(events) : events[e].status \in Statuses
  <2>1. \A e \in 1..Len(events) : events[e] \in Event(A)
    BY <1>1
  <2>2. QED
    BY <2>1 DEF Event
<1>4. StatusOf \in [1..Len(events) -> Statuses]
  BY <1>2, <1>3 DEF StatusOf
<1>5. HeardOf \in [1..Len(events) -> BOOLEAN]
  BY <1>2 DEF HeardOf
<1>6. \A T : \A f \in [1..Len(events) -> T] : f \in Seq(T) /\ Len(f) = Len(events)
  BY <1>1
<1>7. StatusOf \in Seq(Statuses) /\ Len(StatusOf) = Len(events)
  BY <1>4, <1>6
<1>8. HeardOf \in Seq(BOOLEAN) /\ Len(HeardOf) = Len(events)
  BY <1>5, <1>6
<1>9. QED
  BY <1>1, <1>2, <1>7, <1>8

LEMMA StepPromise ==
    ASSUME NEW A, BusInv(A), BusInv(A)', [BusNext(A)]_busVars
    PROVE  [Promise!Next]_(<<StatusOf, HeardOf>>)
<1> DEFINE Goal == [Promise!Next]_(<<StatusOf, HeardOf>>)
           n == Len(events)
<1>1. ASSUME NEW p \in Emitters, NEW a \in A, EmitEvent(p, a)
      PROVE  Goal
  <2> DEFINE row == [about |-> a, status |-> "pending"]
  <2>1. /\ events' = Append(events, row) /\ heard' = Append(heard, 0)
        /\ row \in Event(A) /\ row.status = "pending"
    BY <1>1 DEF EmitEvent, Event, Statuses
  <2>2. /\ DOMAIN events' = 1..(n + 1) /\ DOMAIN heard' = 1..(n + 1)
        /\ \A e \in 1..n : events'[e] = events[e] /\ heard'[e] = heard[e]
        /\ events'[n + 1] = row /\ heard'[n + 1] = 0
    BY <2>1, PromiseTypes, AppendProperties DEF BusInv, RowsOK
  <2>3. \A e \in 1..(n + 1) : e \in 1..n \/ (e = n + 1 /\ e \notin 1..n)
    BY PromiseTypes
  <2>4. StatusOf' = [e \in 1..(n + 1) |-> IF e \in 1..n THEN StatusOf[e] ELSE "pending"]
    BY <2>1, <2>2, <2>3, PromiseTypes DEF StatusOf
  <2>5. HeardOf' = [e \in 1..(n + 1) |-> IF e \in 1..n THEN HeardOf[e] ELSE FALSE]
    <3>1. \A e \in 1..n : (heard'[e] > 0) = HeardOf[e]
      BY <2>2, PromiseTypes DEF HeardOf
    <3>2. (heard'[n + 1] > 0) = FALSE
      BY <2>2
    <3>3. \A e \in 1..(n + 1) : (heard'[e] > 0) = IF e \in 1..n THEN HeardOf[e] ELSE FALSE
      BY <2>3, <3>1, <3>2
    <3>4. QED
      BY <2>2, <3>3 DEF HeardOf
  <2>6. StatusOf' = Append(StatusOf, "pending")
    <3>1. "pending" \in Statuses /\ StatusOf \in Seq(Statuses) /\ Len(StatusOf) = n
      BY PromiseTypes DEF Statuses
    <3>2. QED
      BY <2>4, <3>1, AppendIs
  <2>7. HeardOf' = Append(HeardOf, FALSE)
    <3>1. HeardOf \in Seq(BOOLEAN) /\ Len(HeardOf) = n
      BY PromiseTypes
    <3>2. PICK y \in BOOLEAN : y = FALSE
      OBVIOUS
    <3>3. Append(HeardOf, y) = [e \in 1..(n + 1) |-> IF e \in 1..n THEN HeardOf[e] ELSE y]
      BY <3>1, AppendIs
    <3>4. HeardOf' = [e \in 1..(n + 1) |-> IF e \in 1..n THEN HeardOf[e] ELSE y]
      BY <2>5, <3>2
    <3>5. Append(HeardOf, FALSE) = Append(HeardOf, y)
      BY <3>2
    <3>6. QED
      BY <3>3, <3>4, <3>5
  <2>8. Promise!Write
    BY <2>6, <2>7 DEF Promise!Write, StatusOf, HeardOf
  <2>9. QED
    BY <2>8 DEF Promise!Next
<1>2. ASSUME UNCHANGED <<events, heard>>
      PROVE  Goal
  BY <1>2 DEF StatusOf, HeardOf
<1>3. ASSUME NEW p \in Emitters, Dispatch(p)
      PROVE  Goal
  <2> DEFINE i == sending[p].event
  <2>1. Busy(p)
    BY <1>3 DEF Dispatch, PostAccepted, PostFails, RecordDelivered, RecordFails, SetFailed,
         FailureUnrecorded, Answered, Busy
  <2>2. /\ i \in 1..n /\ StatusOf[i] = "pending" /\ i \in 1..Len(StatusOf)
        /\ sending[p].stage = "record" => HeardOf[i]
    <3>1. /\ i \in 1..n /\ events[i].status = "pending"
          /\ sending[p].stage = "record" => heard[i] > 0
      BY <2>1 DEF BusInv, CallsOK, CallOK
    <3>2. QED
      BY <3>1, PromiseTypes DEF StatusOf, HeardOf
  <2>3. ASSUME heard' = [heard EXCEPT ![i] = @ + 1], events' = events
        PROVE  Goal
    <3>1. /\ DOMAIN heard' = 1..n /\ heard[i] \in Nat
          /\ \A e \in 1..n : heard'[e] = IF e = i THEN heard[e] + 1 ELSE heard[e]
      BY <2>2, <2>3, PromiseTypes
    <3>2. (heard'[i] > 0) = TRUE
      BY <2>2, <3>1
    <3>3. \A e \in 1..n : (heard'[e] > 0) = IF e = i THEN TRUE ELSE heard[e] > 0
      BY <3>1, <3>2
    <3>4. HeardOf' = [e \in 1..n |-> IF e = i THEN TRUE ELSE heard[e] > 0]
      BY <3>1, <3>3 DEF HeardOf
    <3>5. HeardOf = [e \in 1..n |-> heard[e] > 0]
      BY PromiseTypes DEF HeardOf
    <3>6. HeardOf' = [HeardOf EXCEPT ![i] = TRUE]
      BY <2>2, <3>4, <3>5
    <3>7. StatusOf' = StatusOf
      BY <2>3 DEF StatusOf
    <3>8. Promise!Hear(i)
      BY <2>2, <3>6, <3>7 DEF Promise!Hear, StatusOf, HeardOf
    <3>9. i \in 1..Len([e \in DOMAIN events |-> events[e].status])
      BY <2>2 DEF StatusOf
    <3>10. Promise!Next
      BY <3>8, <3>9, Zenon DEF Promise!Next, Promise!Hear
    <3>11. QED
      BY <3>10
  <2>4. ASSUME NEW s \in {"delivered", "failed"}, SetStatus(p, s), heard' = heard,
               s = "delivered" => HeardOf[i]
        PROVE  Goal
    <3>1. events' = [events EXCEPT ![i].status = s]
      BY <2>4 DEF SetStatus
    <3>2. /\ DOMAIN events' = 1..n
          /\ \A e \in 1..n : events'[e].status = IF e = i THEN s ELSE events[e].status
      <4>1. events[i] \in Event(A)
        BY <2>2, PromiseTypes
      <4>2. [events[i] EXCEPT !.status = s].status = s
        BY <4>1 DEF Event
      <4>3. QED
        BY <2>2, <3>1, <4>2, PromiseTypes
    <3>3. StatusOf' = [StatusOf EXCEPT ![i] = s]
      BY <2>2, <3>2, PromiseTypes DEF StatusOf
    <3>4. HeardOf' = HeardOf
      BY <2>4 DEF HeardOf
    <3>5. Promise!Settle(i, s)
      BY <2>2, <2>4, <3>3, <3>4 DEF Promise!Settle, StatusOf, HeardOf
    <3>6. QED
      BY <2>2, <3>5 DEF Promise!Next, StatusOf
  <2>5. CASE PostAccepted(p)
    BY <2>3, <2>5 DEF PostAccepted
  <2>6. CASE PostFails(p)
    <3>1. events' = events /\ (heard' = [heard EXCEPT ![i] = @ + 1] \/ heard' = heard)
      BY <2>6 DEF PostFails
    <3>2. QED
      BY <1>2, <2>3, <3>1
  <2>7. CASE RecordDelivered(p)
    BY <2>2, <2>4, <2>7 DEF RecordDelivered, Answered
  <2>8. CASE SetFailed(p)
    BY <2>4, <2>8 DEF SetFailed
  <2>9. CASE RecordFails(p) \/ FailureUnrecorded(p)
    BY <1>2, <2>9 DEF RecordFails, FailureUnrecorded
  <2>10. QED
    BY <1>3, <2>5, <2>6, <2>7, <2>8, <2>9 DEF Dispatch
<1>4. QED
  BY <1>1, <1>2, <1>3 DEF BusNext, EmitterDies, busVars

\* The subscriber may rely on Outbox: an event is written once, settled at most
\* once, as delivered only if it was heard of, and never heard of afterwards.
THEOREM BusKeepsPromise ==
    ASSUME NEW A
    PROVE  BusSpec(A) => KeepsPromise
<1>1. BusInit => Promise!Init
  BY DEF BusInit, Promise!Init
<1>2. BusInv(A) /\ BusInv(A)' /\ [BusNext(A)]_busVars => [Promise!Next]_(<<StatusOf, HeardOf>>)
  BY StepPromise
<1>3. QED
  BY <1>1, <1>2, BusSpecInv, PTL DEF BusSpec, KeepsPromise, Promise!Spec, StatusOf, HeardOf

=============================================================================
