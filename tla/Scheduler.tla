------------------------------ MODULE Scheduler ------------------------------
(***************************************************************************)
(* The in-process event scheduler (apps/server/src/scheduler): events live *)
(* in a MongoDB collection, worker processes poll it, claim one due event  *)
(* at a time in dueAt order, run its handler and the 'done' mark in one    *)
(* transaction, and record a failure outside it.  A worker may crash or    *)
(* lose a database call anywhere; a lease sweep gives its event back.      *)
(*                                                                         *)
(* Absolute times are kept as countdowns, so that no horizon is needed:    *)
(* dueIn[e] is dueAt - now, negative when overdue and not counted below    *)
(* -MaxLate; leaseAge[e] is now - processingStartedAt, up to Lease.        *)
(*                                                                         *)
(* The handler is the one thing all the game's handlers share: it reads    *)
(* the aggregate behind the event, does nothing unless it is still armed,  *)
(* and otherwise applies the effect.  BuildQueue, Starvation and Movements *)
(* model the handlers themselves.                                          *)
(***************************************************************************)
EXTENDS Integers

CONSTANTS
    Events,          \* event ids, each scheduled at most once
    Undeliverable,   \* those of an unknown type or payload version
    Workers,         \* scheduler processes polling the collection
    None,            \* no event
    MaxDelay,        \* longest delay a command schedules
    MaxLate,         \* bound: lateness that is still told apart
    Lease,           \* leaseTimeoutMs
    PollInterval,    \* pollIntervalMs, which seeds the backoff
    MaxBackoff,      \* MAX_BACKOFF_MS
    MaxAttempts,     \* DEFAULT_MAX_ATTEMPTS
    MaxCrashes       \* bound: crashes and lost database calls

ASSUME SchedulerAssumption ==
    /\ Undeliverable \subseteq Events
    /\ None \notin Events
    /\ MaxDelay \in Nat /\ MaxLate \in Nat /\ MaxCrashes \in Nat
    /\ Lease \in Nat \ {0} /\ MaxAttempts \in Nat \ {0}
    /\ PollInterval \in Nat \ {0} /\ MaxBackoff \in Nat \ {0}

VARIABLES
    status,      \* GameEvent.status, or "absent" / "deleted"
    dueIn,       \* GameEvent.dueAt - now
    attempts,    \* GameEvent.attempts
    leaseAge,    \* now - GameEvent.processingStartedAt
    aggregate,   \* the state the handler re-checks
    effects,     \* history: how often the effect was committed
    wait,        \* history: time left until the first dueAt
    pc,          \* where each worker is in runOnce
    job,         \* the event document a worker holds in memory
    seen,        \* attempts in that in-memory document
    crashes      \* how many faults have happened

events == <<status, dueIn, attempts, leaseAge>>
domain == <<aggregate, effects>>
memory == <<pc, job, seen>>
vars == <<events, domain, wait, memory, crashes>>

Status == {"absent", "due", "processing", "done", "failed", "deleted"}
Lateness == -MaxLate

\* One exponential step per attempt, seeded by the poll interval and capped.
Backoff(n) ==
    LET ms == PollInterval * 2 ^ (n - 1) IN
    IF ms \in 0..MaxBackoff THEN ms ELSE MaxBackoff

Init ==
    /\ status = [e \in Events |-> "absent"]
    /\ dueIn = [e \in Events |-> 0]
    /\ attempts = [e \in Events |-> 0]
    /\ leaseAge = [e \in Events |-> 0]
    /\ aggregate = [e \in Events |-> "none"]
    /\ effects = [e \in Events |-> 0]
    /\ wait = [e \in Events |-> 0]
    /\ pc = [w \in Workers |-> "idle"]
    /\ job = [w \in Workers |-> None]
    /\ seen = [w \in Workers |-> 0]
    /\ crashes = 0

------------------------------------------------------------------------------
\* Time and commands.

Live(e) == status[e] \in {"due", "processing"}

Elapse ==
    /\ dueIn' = [e \in Events |->
                   IF Live(e) /\ dueIn[e] > Lateness
                   THEN dueIn[e] - 1 ELSE dueIn[e]]
    /\ leaseAge' = [e \in Events |->
                   IF status[e] = "processing" /\ leaseAge[e] < Lease
                   THEN leaseAge[e] + 1 ELSE leaseAge[e]]
    /\ wait' = [e \in Events |-> IF wait[e] > 0 THEN wait[e] - 1 ELSE 0]
    /\ UNCHANGED <<status, attempts, domain, memory, crashes>>

\* A command arms an aggregate and schedules its event in one transaction.
ScheduleEvent(e) ==
    /\ status[e] = "absent"
    /\ status' = [status EXCEPT ![e] = "due"]
    /\ \E d \in 0..MaxDelay :
         /\ dueIn' = [dueIn EXCEPT ![e] = d]
         /\ wait' = [wait EXCEPT ![e] = d]
    /\ aggregate' = [aggregate EXCEPT ![e] = "armed"]
    /\ UNCHANGED <<attempts, leaseAge, effects, memory, crashes>>

\* A command disarms a still armed aggregate and deletes its event, whatever
\* status the event has: a worker may be dispatching it.
CancelEvent(e) ==
    /\ aggregate[e] = "armed"
    /\ aggregate' = [aggregate EXCEPT ![e] = "cancelled"]
    /\ status' = [status EXCEPT ![e] = "deleted"]
    /\ UNCHANGED <<dueIn, attempts, leaseAge, effects, wait, memory, crashes>>

------------------------------------------------------------------------------
\* The polling loop of a worker.

Expired(e) == status[e] = "processing" /\ leaseAge[e] >= Lease

SweepNever(w) ==  \* fault: nothing gives an expired lease back
    /\ pc[w] = "idle"
    /\ pc' = [pc EXCEPT ![w] = "draining"]
    /\ UNCHANGED <<events, domain, wait, job, seen, crashes>>

SweepRestamps(w) ==  \* fault: a swept event is due anew, not when it was
    /\ pc[w] = "idle"
    /\ pc' = [pc EXCEPT ![w] = "draining"]
    /\ status' = [e \in Events |-> IF Expired(e) THEN "due" ELSE status[e]]
    /\ leaseAge' = [e \in Events |-> IF Expired(e) THEN 0 ELSE leaseAge[e]]
    /\ dueIn' = [e \in Events |-> IF Expired(e) THEN PollInterval ELSE dueIn[e]]
    /\ UNCHANGED <<attempts, domain, wait, job, seen, crashes>>

\* The first call of runOnce: every expired lease is due again, at its dueAt.
SweepExpiredLeases(w) ==
    /\ pc[w] = "idle"
    /\ pc' = [pc EXCEPT ![w] = "draining"]
    /\ status' = [e \in Events |-> IF Expired(e) THEN "due" ELSE status[e]]
    /\ leaseAge' = [e \in Events |-> IF Expired(e) THEN 0 ELSE leaseAge[e]]
    /\ UNCHANGED <<dueIn, attempts, domain, wait, job, seen, crashes>>

Claimable(e) == status[e] = "due" /\ dueIn[e] <= 0

\* One findOneAndUpdate: the earliest due event, any of them on a tie.
ClaimNextDueEvent(w) ==
    /\ pc[w] = "draining"
    /\ \E e \in Events :
         /\ Claimable(e)
         /\ \A f \in Events : Claimable(f) => dueIn[e] <= dueIn[f]
         /\ status' = [status EXCEPT ![e] = "processing"]
         /\ leaseAge' = [leaseAge EXCEPT ![e] = 0]
         /\ job' = [job EXCEPT ![w] = e]
         /\ seen' = [seen EXCEPT ![w] = attempts[e]]
    /\ pc' = [pc EXCEPT ![w] = "dispatch"]
    /\ UNCHANGED <<dueIn, attempts, domain, wait, crashes>>

NothingDue(w) ==
    /\ pc[w] = "draining"
    /\ \A e \in Events : ~Claimable(e)
    /\ pc' = [pc EXCEPT ![w] = "idle"]
    /\ UNCHANGED <<events, domain, wait, job, seen, crashes>>

\* The worker's event document is written by _id alone: neither its status nor
\* its lease is looked at, and a deleted document is not brought back.
Write(e, s) ==
    /\ status' = [status EXCEPT ![e] = IF @ = "deleted" THEN @ ELSE s]
    /\ leaseAge' = [leaseAge EXCEPT ![e] = 0]

Settled(w) ==
    /\ pc' = [pc EXCEPT ![w] = "draining"]
    /\ job' = [job EXCEPT ![w] = None]
    /\ seen' = [seen EXCEPT ![w] = 0]

FailUndeliverable(w) ==
    LET e == job[w] IN
    /\ pc[w] = "dispatch" /\ e \in Undeliverable
    /\ Write(e, "failed")
    /\ attempts' = [attempts EXCEPT ![e] =
                      IF status[e] = "deleted" THEN @ ELSE seen[w] + 1]
    /\ Settled(w)
    /\ UNCHANGED <<dueIn, domain, wait, crashes>>

HandleBlindly(e) ==  \* fault: the handler trusts the event and re-checks nothing
    /\ aggregate' = [aggregate EXCEPT ![e] = "applied"]
    /\ effects' = [effects EXCEPT ![e] = @ + 1]

HandleNothing(e) ==  \* fault: the effects miss the transaction of the done mark
    UNCHANGED domain

\* The handler re-checks the aggregate; a replay finds it no longer armed.
Handle(e) ==
    IF aggregate[e] = "armed"
    THEN /\ aggregate' = [aggregate EXCEPT ![e] = "applied"]
         /\ effects' = [effects EXCEPT ![e] = @ + 1]
    ELSE UNCHANGED domain

\* withTransaction commits: the handler's effects and the done mark together.
DispatchCommits(w) ==
    /\ pc[w] = "dispatch" /\ job[w] \notin Undeliverable
    /\ Handle(job[w])
    /\ Write(job[w], "done")
    /\ Settled(w)
    /\ UNCHANGED <<dueIn, attempts, wait, crashes>>

\* withTransaction commits, but the driver gives up on the acknowledgement.
CommitUnacknowledged(w) ==
    /\ pc[w] = "dispatch" /\ job[w] \notin Undeliverable
    /\ crashes < MaxCrashes
    /\ crashes' = crashes + 1
    /\ Handle(job[w])
    /\ Write(job[w], "done")
    /\ pc' = [pc EXCEPT ![w] = "failing"]
    /\ UNCHANGED <<dueIn, attempts, wait, job, seen>>

\* The handler throws and its transaction rolls back.
DispatchThrows(w) ==
    /\ pc[w] = "dispatch" /\ job[w] \notin Undeliverable
    /\ pc' = [pc EXCEPT ![w] = "failing"]
    /\ UNCHANGED <<events, domain, wait, job, seen, crashes>>

\* Outside the rolled-back transaction, from the attempts read at the claim.
RecordFailure(w) ==
    LET e == job[w]
        n == seen[w] + 1
        live == status[e] # "deleted"
    IN
    /\ pc[w] = "failing"
    /\ attempts' = [attempts EXCEPT ![e] = IF live THEN n ELSE @]
    /\ IF n >= MaxAttempts
       THEN Write(e, "failed") /\ UNCHANGED dueIn
       ELSE /\ Write(e, "due")
            /\ dueIn' = [dueIn EXCEPT ![e] = IF live THEN Backoff(n) ELSE @]
    /\ Settled(w)
    /\ UNCHANGED <<domain, wait, crashes>>

\* The process dies and is started again, or a database call of the tick
\* rejects: runOnce is left at once and what it held in memory is gone.
Crash(w) ==
    /\ pc[w] # "idle" /\ crashes < MaxCrashes
    /\ crashes' = crashes + 1
    /\ pc' = [pc EXCEPT ![w] = "idle"]
    /\ job' = [job EXCEPT ![w] = None]
    /\ seen' = [seen EXCEPT ![w] = 0]
    /\ UNCHANGED <<events, domain, wait>>

Work(w) ==
    \/ SweepExpiredLeases(w) \/ ClaimNextDueEvent(w) \/ NothingDue(w)
    \/ FailUndeliverable(w) \/ DispatchCommits(w) \/ DispatchThrows(w)
    \/ RecordFailure(w)

Next ==
    \/ Elapse
    \/ \E e \in Events : ScheduleEvent(e) \/ CancelEvent(e)
    \/ \E w \in Workers : Work(w) \/ CommitUnacknowledged(w) \/ Crash(w)

Spec == Init /\ [][Next]_vars

Fairness == WF_vars(Elapse) /\ \A w \in Workers : WF_vars(Work(w))

FairSpec == Spec /\ Fairness

------------------------------------------------------------------------------
\* Properties.

TypeOK ==
    /\ status \in [Events -> Status]
    /\ dueIn \in [Events -> Int]
    /\ attempts \in [Events -> Nat]
    /\ leaseAge \in [Events -> 0..Lease]
    /\ aggregate \in [Events -> {"none", "armed", "applied", "cancelled"}]
    /\ effects \in [Events -> Nat]
    /\ wait \in [Events -> 0..MaxDelay]
    /\ pc \in [Workers -> {"idle", "draining", "dispatch", "failing"}]
    /\ job \in [Workers -> Events \cup {None}]
    /\ seen \in [Workers -> Nat]
    /\ crashes \in Nat

\* The scheduler implements the contract: at most one effect, never early,
\* never after a cancellation, whatever workers, leases and faults do.
Contract == INSTANCE EventContract
              WITH Events <- Events, MaxDelay <- MaxDelay,
                   aggregate <- aggregate, effects <- effects, wait <- wait
ImplementsContract == Contract!Spec

\* No work is lost: an aggregate still armed always has its event queued,
\* leased, or visibly dead-lettered; it is never marked done or deleted.
NoWorkLost ==
    \A e \in Events :
        aggregate[e] = "armed" => status[e] \in {"due", "processing", "failed"}

\* Losing a lease costs an event nothing: until its handler first fails, its
\* dueAt is the one it was scheduled with, so its place in the replay is too.
LeaseLossKeepsDueAt ==
    \A e \in Events :
        Live(e) /\ attempts[e] = 0 => wait[e] = IF dueIn[e] > 0 THEN dueIn[e] ELSE 0

\* Every armed aggregate is resolved, or its event is dead-lettered.
EventuallyResolved ==
    \A e \in Events :
        aggregate[e] = "armed" ~> (aggregate[e] # "armed" \/ status[e] = "failed")

\* What the comment on the lease sweep says of the replay: no effect is applied
\* while an event due earlier is outstanding.  TLC refutes it in sched_pair.cfg.
ReplayInDueOrder ==
    [][\A e, f \in Events :
         effects'[f] > effects[f]
         => ~(aggregate[e] = "armed" /\ Live(e) /\ dueIn[e] < dueIn[f])]_vars
==============================================================================
