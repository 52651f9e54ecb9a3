-------------------------- MODULE SchedulerService --------------------------
(***************************************************************************)
(* The scheduler service of app/scheduler_service.py: instances compete    *)
(* for a Redis key with a time to live (SchedulerLock); the one that set   *)
(* it runs the jobs and renews the key, the others exit and are started    *)
(* again by the container runtime (restart: unless-stopped).               *)
(*                                                                         *)
(* The key's value is the constant "1": it does not name its owner, so a   *)
(* renewal (EXPIRE) and a release (DELETE) act on whoever's key is there.  *)
(* One Tick is the unit of LockTTL and RenewInterval; the processes may be *)
(* late by any number of ticks.                                            *)
(*                                                                         *)
(* Jobs are followed through one job with one run time ("slot") at a time: *)
(* the runs of two jobs do not interact.  The job is one with a cron       *)
(* trigger, whose run time is the same for every instance.  The two jobs   *)
(* with an interval, "reclassify" (6 hours) and "embed_backfill" (15       *)
(* minutes), count from the start of each instance and are not modelled.   *)
(***************************************************************************)
EXTENDS Integers, FiniteSets

CONSTANTS
    Instances,      \* the scheduler processes
    LockTTL,        \* _LOCK_TTL
    RenewInterval,  \* _LOCK_RENEW_INTERVAL
    MaxStops,       \* bound: signals and kills
    MaxFaults,      \* bound: commands of the lock and the jobs that raise
    MaxEvictions,   \* bound: times the server evicts the key
    MaxOverruns,    \* bound: times an instance leaves its key for LockTTL ticks
    MaxSlots        \* bound: run times of the job

ASSUME SchedulerAssumption ==
    /\ LockTTL \in Nat \ {0}
    /\ RenewInterval \in Nat \ {0}
    /\ RenewInterval < LockTTL
    /\ MaxStops \in Nat /\ MaxFaults \in Nat /\ MaxEvictions \in Nat
    /\ MaxOverruns \in Nat /\ MaxSlots \in Nat
    /\ IsFiniteSet(Instances)

VARIABLES
    pc,       \* pc[s]: where main is
    slept,    \* slept[s]: ticks since _renew_loop began its sleep, up to LockTTL
    ttl,      \* what is left of the key's time to live; 0: there is no key
    slot,     \* the latest run time of the job
    due,      \* due[s]: the run APScheduler has still to start in s, or 0
    pushing,  \* <<s, k>>: the task _push_job created in s for run k is pending
    pushed,   \* pushed[k]: times the task of run k was published
    stops,    \* signals and kills so far
    faults,   \* commands that raised so far
    evictions, \* evictions so far
    overruns  \* times an instance did not reach its key for LockTTL ticks

jobVars == <<slot, due, pushing, pushed>>
boundVars == <<stops, faults, evictions, overruns>>
vars == <<pc, slept, ttl, jobVars, boundVars>>

Slots == 1..MaxSlots
Locations == {"down", "acquire", "active", "release"}

TypeOK ==
    /\ pc \in [Instances -> Locations]
    /\ slept \in [Instances -> 0..LockTTL]
    /\ ttl \in 0..LockTTL
    /\ slot \in 0..MaxSlots
    /\ due \in [Instances -> 0..MaxSlots]
    /\ pushing \subseteq Instances \X Slots
    /\ pushed \in [Slots -> Nat]
    /\ stops \in 0..MaxStops
    /\ faults \in 0..MaxFaults
    /\ evictions \in 0..MaxEvictions
    /\ overruns \in 0..MaxOverruns

Init ==
    /\ pc = [s \in Instances |-> "down"]
    /\ slept = [s \in Instances |-> 0]
    /\ ttl = 0
    /\ slot = 0
    /\ due = [s \in Instances |-> 0]
    /\ pushing = {}
    /\ pushed = [k \in Slots |-> 0]
    /\ stops = 0
    /\ faults = 0
    /\ evictions = 0
    /\ overruns = 0

\* The instances that believe the key is theirs.
Holding(s) == pc[s] \in {"active", "release"}

Goto(s, l) == pc' = [pc EXCEPT ![s] = l]

\* What the process held in memory when it ended.
Gone(s) ==
    /\ due' = [due EXCEPT ![s] = 0]
    /\ pushing' = {p \in pushing : p[1] # s}

(***************************************************************************)
(* main and SchedulerLock                                                  *)
(***************************************************************************)

\* The container runtime starts the process.
Start(s) ==
    /\ pc[s] = "down"
    /\ Goto(s, "acquire")
    /\ UNCHANGED <<slept, ttl, jobVars, boundVars>>

\* Slip: SET without NX.
FreeAlways == TRUE

\* SET NX succeeds when there is no key.
Free == ttl = 0

\* Slip: jobs run once at the start for a run time that has passed.
FirstDueNow == slot

\* A trigger computes its first run time from the start of the scheduler on.
FirstDue == 0

Acquire(s) ==
    /\ pc[s] = "acquire"
    /\ Free
    /\ ttl' = LockTTL
    /\ slept' = [slept EXCEPT ![s] = 0]
    /\ due' = [due EXCEPT ![s] = FirstDue]
    /\ Goto(s, "active")
    /\ UNCHANGED <<slot, pushing, pushed, boundVars>>

\* "Another scheduler instance is active": main returns.
Decline(s) ==
    /\ pc[s] = "acquire"
    /\ ~Free
    /\ Goto(s, "down")
    /\ UNCHANGED <<slept, ttl, jobVars, boundVars>>

\* EXPIRE restarts the time to live of a key that exists; on a missing key it
\* does nothing, and its answer is not looked at.
Renew(s) ==
    /\ pc[s] = "active"
    /\ slept[s] >= RenewInterval
    /\ slept' = [slept EXCEPT ![s] = 0]
    /\ ttl' = IF ttl > 0 THEN LockTTL ELSE 0
    /\ UNCHANGED <<pc, jobVars, boundVars>>

\* EXPIRE raises: a warning is logged and the next attempt is a sleep away.
RenewFails(s) ==
    /\ pc[s] = "active"
    /\ slept[s] >= RenewInterval
    /\ faults < MaxFaults
    /\ faults' = faults + 1
    /\ slept' = [slept EXCEPT ![s] = 0]
    /\ UNCHANGED <<pc, ttl, jobVars, stops, evictions, overruns>>

\* SIGTERM: the job scheduler is shut down without waiting, renewal is
\* cancelled. A task that _push_job created lives on until the loop ends.
Stop(s) ==
    /\ pc[s] = "active"
    /\ stops < MaxStops
    /\ stops' = stops + 1
    /\ due' = [due EXCEPT ![s] = 0]
    /\ Goto(s, "release")
    /\ UNCHANGED <<slept, ttl, slot, pushing, pushed, faults, evictions, overruns>>

\* DELETE, whoever's the key is; then the loop ends.
Release(s) ==
    /\ pc[s] = "release"
    /\ ttl' = 0
    /\ Gone(s)
    /\ Goto(s, "down")
    /\ UNCHANGED <<slept, slot, pushed, boundVars>>

\* DELETE raises: the key stays until it expires.
ReleaseFails(s) ==
    /\ pc[s] = "release"
    /\ faults < MaxFaults
    /\ faults' = faults + 1
    /\ Gone(s)
    /\ Goto(s, "down")
    /\ UNCHANGED <<slept, ttl, slot, pushed, stops, evictions, overruns>>

Kill(s) ==
    /\ pc[s] # "down"
    /\ stops < MaxStops
    /\ stops' = stops + 1
    /\ Gone(s)
    /\ Goto(s, "down")
    /\ UNCHANGED <<slept, ttl, slot, pushed, faults, evictions, overruns>>

(***************************************************************************)
(* Redis and time                                                          *)
(***************************************************************************)

\* Slips: the time to live runs below zero; SET without EX.
AfterTickUnchecked == ttl - 1
AfterTickPersistent == ttl

\* A key with a time to live disappears at its end.
AfterTick == IF ttl > 0 THEN ttl - 1 ELSE 0

\* The instances for which the next tick completes LockTTL ticks.
Overrunning == {s \in Instances : Holding(s) /\ slept[s] = LockTTL - 1}

Tick ==
    /\ overruns + Cardinality(Overrunning) <= MaxOverruns
    /\ overruns' = overruns + Cardinality(Overrunning)
    /\ ttl' = AfterTick
    /\ slept' = [s \in Instances |->
                   IF Holding(s) /\ slept[s] < LockTTL THEN slept[s] + 1 ELSE slept[s]]
    /\ UNCHANGED <<pc, jobVars, stops, faults, evictions>>

\* maxmemory-policy allkeys-lru: the server may evict the key.
Evict ==
    /\ ttl > 0
    /\ evictions < MaxEvictions
    /\ evictions' = evictions + 1
    /\ ttl' = 0
    /\ UNCHANGED <<pc, slept, jobVars, stops, faults, overruns>>

(***************************************************************************)
(* Jobs                                                                    *)
(***************************************************************************)

\* A run time of the cron trigger passes: every started scheduler owes a run.
NextSlot ==
    /\ slot < MaxSlots
    /\ slot' = slot + 1
    /\ due' = [s \in Instances |-> IF pc[s] = "active" THEN slot + 1 ELSE due[s]]
    /\ UNCHANGED <<pc, slept, ttl, pushing, pushed, boundVars>>

\* _push_job: the publication becomes a task of the event loop.
PushJob(s) ==
    /\ due[s] > 0
    /\ pushing' = pushing \cup {<<s, due[s]>>}
    /\ due' = [due EXCEPT ![s] = 0]
    /\ UNCHANGED <<pc, slept, ttl, slot, pushed, boundVars>>

\* The run starts later than misfire_grace_time allows: it is skipped.
Misfire(s) ==
    /\ due[s] > 0
    /\ due' = [due EXCEPT ![s] = 0]
    /\ UNCHANGED <<pc, slept, ttl, slot, pushing, pushed, boundVars>>

\* _do_push publishes ...
DoPush(p) ==
    /\ p \in pushing
    /\ pushing' = pushing \ {p}
    /\ pushed' = [pushed EXCEPT ![p[2]] = @ + 1]
    /\ UNCHANGED <<pc, slept, ttl, slot, due, boundVars>>

\* ... or raises, in a task nobody awaits.
DoPushFails(p) ==
    /\ p \in pushing
    /\ faults < MaxFaults
    /\ faults' = faults + 1
    /\ pushing' = pushing \ {p}
    /\ UNCHANGED <<pc, slept, ttl, slot, due, pushed, stops, evictions, overruns>>

Progress(s) ==
    \/ Start(s) \/ Acquire(s) \/ Decline(s)
    \/ Renew(s) \/ RenewFails(s)
    \/ Release(s) \/ ReleaseFails(s)

Job(s) == PushJob(s) \/ Misfire(s)

Next ==
    \/ \E s \in Instances : Progress(s) \/ Stop(s) \/ Kill(s) \/ Job(s)
    \/ \E p \in pushing : DoPush(p) \/ DoPushFails(p)
    \/ Tick
    \/ Evict
    \/ NextSlot

Spec == Init /\ [][Next]_vars

\* Time passes, a live process runs and a stopped container is started again.
Fairness == WF_vars(Tick) /\ \A s \in Instances : WF_vars(Progress(s))

FairSpec == Spec /\ Fairness

(***************************************************************************)
(* Properties                                                              *)
(***************************************************************************)

Holders == {s \in Instances : Holding(s)}

\* What can separate an instance from its key without its knowing.
Disturbances == faults + evictions + overruns

\* The singleton, with its price: a disturbance lets at most one more instance
\* in, although nobody notices the loss of the key and every holder renews and
\* releases whatever key is there; without a disturbance one instance at a time
\* runs jobs, through all stops, kills and handovers.
FewSchedulers == Cardinality(Holders) <= 1 + Disturbances

\* The consequence for the jobs with a cron trigger: a run is published once, and
\* once more for each disturbance, whoever was running at its time and whoever
\* took over.
FewRuns == \A k \in Slots : pushed[k] <= 1 + Disturbances

\* Whatever was disturbed, stopped or killed, some instance runs jobs again.
SomeoneSchedules == []<>(\E s \in Instances : pc[s] = "active")

\* The module's docstring: the lock ensures only one scheduler instance runs at
\* a time. Asked of instances that always reach Redis in time.
Singleton ==
    overruns = 0 =>
        \A s, u \in Instances : pc[s] = "active" /\ pc[u] = "active" => s = u

=============================================================================
