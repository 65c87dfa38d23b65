--------------------------- MODULE SchedulerProofs ---------------------------
(***************************************************************************)
(* Safety of the scheduler for any set of events and workers, any lease,   *)
(* backoff and number of faults: the type invariant, no armed aggregate    *)
(* without its event, and the implementation of EventContract.             *)
(***************************************************************************)
EXTENDS Scheduler, TLAPS

\* What a worker holds: a scheduled event whose scheduled time has come.
HeldIsDue ==
    \A w \in Workers :
        pc[w] \in {"dispatch", "failing"} =>
            /\ job[w] \in Events
            /\ status[job[w]] # "absent"
            /\ wait[job[w]] = 0

\* A live event is never due before the time it was scheduled for.
NeverEarly ==
    \A e \in Events : Live(e) => wait[e] <= dueIn[e] \/ wait[e] = 0

\* The aggregate, its event and the count of its effects agree.
DomainAgrees ==
    \A e \in Events :
        /\ status[e] = "absent" <=> aggregate[e] = "none"
        /\ effects[e] = IF aggregate[e] = "applied" THEN 1 ELSE 0

IInv == TypeOK /\ HeldIsDue /\ NeverEarly /\ DomainAgrees /\ NoWorkLost

\* The capped exponential backoff is a natural number of time units.
LEMMA BackoffType == ASSUME NEW n \in Nat PROVE Backoff(n) \in Nat
<1>. DEFINE ms == PollInterval * 2 ^ (n - 1)
<1>1. CASE ms \in 0..MaxBackoff
  <2>1. Backoff(n) = ms
    BY <1>1, Zenon DEF Backoff
  <2>2. \A x \in 0..MaxBackoff : x \in Nat
    BY SchedulerAssumption
  <2>. QED
    BY <1>1, <2>1, <2>2, Zenon
<1>2. CASE ms \notin 0..MaxBackoff
  <2>1. Backoff(n) = MaxBackoff
    BY <1>2, Zenon DEF Backoff
  <2>. QED
    BY <2>1, SchedulerAssumption
<1>. QED
  BY <1>1, <1>2

LEMMA InitInv == Init => IInv
BY SchedulerAssumption
   DEF Init, IInv, TypeOK, HeldIsDue, NeverEarly, DomainAgrees, NoWorkLost,
       Live, Status

LEMMA ElapseInv == IInv /\ Elapse => IInv'
<1>. SUFFICES ASSUME IInv, Elapse PROVE IInv'
  OBVIOUS
<1>. USE SchedulerAssumption DEF IInv, Elapse, domain, memory
<1>1. TypeOK'
  BY DEF TypeOK, Status, Lateness
<1>2. HeldIsDue'
  BY DEF TypeOK, HeldIsDue
<1>3. NeverEarly'
  <2>. SUFFICES ASSUME NEW e \in Events, Live(e)'
                PROVE (wait[e] <= dueIn[e] \/ wait[e] = 0)'
    BY DEF NeverEarly
  <2>1. Live(e) /\ (wait[e] <= dueIn[e] \/ wait[e] = 0)
    BY DEF NeverEarly, Live
  <2>. QED
    BY <2>1 DEF TypeOK, Lateness
<1>4. (DomainAgrees /\ NoWorkLost)'
  BY DEF DomainAgrees, NoWorkLost
<1>. QED
  BY <1>1, <1>2, <1>3, <1>4

LEMMA ScheduleInv ==
    ASSUME NEW e \in Events PROVE IInv /\ ScheduleEvent(e) => IInv'
<1>. SUFFICES ASSUME IInv, ScheduleEvent(e) PROVE IInv'
  OBVIOUS
<1>. USE SchedulerAssumption DEF IInv, ScheduleEvent, memory
<1>1. TypeOK'
  BY DEF TypeOK, Status
<1>2. HeldIsDue'
  BY DEF TypeOK, HeldIsDue
<1>3. NeverEarly'
  BY DEF TypeOK, NeverEarly, Live
<1>4. (DomainAgrees /\ NoWorkLost)'
  BY DEF TypeOK, DomainAgrees, NoWorkLost
<1>. QED
  BY <1>1, <1>2, <1>3, <1>4

LEMMA CancelInv ==
    ASSUME NEW e \in Events PROVE IInv /\ CancelEvent(e) => IInv'
BY SchedulerAssumption
   DEF IInv, CancelEvent, memory, TypeOK, Status, HeldIsDue, NeverEarly,
       DomainAgrees, NoWorkLost, Live

LEMMA SweepInv ==
    ASSUME NEW w \in Workers PROVE IInv /\ SweepExpiredLeases(w) => IInv'
<1>. SUFFICES ASSUME IInv, SweepExpiredLeases(w) PROVE IInv'
  OBVIOUS
<1>. USE SchedulerAssumption DEF IInv, SweepExpiredLeases, Expired, domain
<1>1. TypeOK'
  BY DEF TypeOK, Status
<1>2. (HeldIsDue /\ NeverEarly)'
  BY DEF TypeOK, HeldIsDue, NeverEarly, Live
<1>3. (DomainAgrees /\ NoWorkLost)'
  BY DEF TypeOK, DomainAgrees, NoWorkLost
<1>. QED
  BY <1>1, <1>2, <1>3

LEMMA ClaimInv ==
    ASSUME NEW w \in Workers PROVE IInv /\ ClaimNextDueEvent(w) => IInv'
<1>. SUFFICES ASSUME IInv, ClaimNextDueEvent(w) PROVE IInv'
  OBVIOUS
<1>. USE SchedulerAssumption DEF IInv, ClaimNextDueEvent, Claimable, domain
<1>1. TypeOK'
  BY DEF TypeOK, Status
<1>2. HeldIsDue'
  BY DEF TypeOK, HeldIsDue, NeverEarly, Live
<1>3. NeverEarly'
  BY DEF TypeOK, NeverEarly, Live
<1>4. (DomainAgrees /\ NoWorkLost)'
  BY DEF TypeOK, DomainAgrees, NoWorkLost
<1>. QED
  BY <1>1, <1>2, <1>3, <1>4

LEMMA IdleInv ==
    ASSUME NEW w \in Workers PROVE IInv /\ (NothingDue(w) \/ Crash(w)) => IInv'
BY DEF IInv, NothingDue, Crash, events, domain, TypeOK, Status, HeldIsDue,
       NeverEarly, DomainAgrees, NoWorkLost, Live

\* Writing the done mark with the handler's effects, acknowledged or not.
LEMMA CommitInv ==
    ASSUME NEW w \in Workers
    PROVE IInv /\ (DispatchCommits(w) \/ CommitUnacknowledged(w)) => IInv'
<1>. SUFFICES ASSUME IInv, DispatchCommits(w) \/ CommitUnacknowledged(w)
              PROVE IInv'
  OBVIOUS
<1>. DEFINE e == job[w]
<1>1. /\ e \in Events
      /\ status[e] # "absent"
      /\ wait[e] = 0
  BY DEF IInv, HeldIsDue, DispatchCommits, CommitUnacknowledged
<1>2. /\ Handle(e) /\ Write(e, "done")
      /\ UNCHANGED <<dueIn, attempts, wait>>
      /\ crashes' \in {crashes, crashes + 1}
      /\ \/ pc' = [pc EXCEPT ![w] = "draining"]
            /\ job' = [job EXCEPT ![w] = None]
            /\ seen' = [seen EXCEPT ![w] = 0]
         \/ pc' = [pc EXCEPT ![w] = "failing"] /\ UNCHANGED <<job, seen>>
  BY DEF DispatchCommits, CommitUnacknowledged, Settled
<1>. HIDE DEF e
<1>3. TypeOK'
  BY <1>1, <1>2, SchedulerAssumption DEF IInv, TypeOK, Status, Handle, Write, domain
<1>4. HeldIsDue'
  BY <1>1, <1>2 DEF IInv, TypeOK, HeldIsDue, Write, e
<1>5. NeverEarly'
  BY <1>1, <1>2 DEF IInv, TypeOK, NeverEarly, Write, Live
<1>6. (DomainAgrees /\ NoWorkLost)'
  BY <1>1, <1>2 DEF IInv, TypeOK, DomainAgrees, NoWorkLost, Handle, Write, domain
<1>. QED
  BY <1>3, <1>4, <1>5, <1>6 DEF IInv

LEMMA ThrowInv ==
    ASSUME NEW w \in Workers PROVE IInv /\ DispatchThrows(w) => IInv'
BY DEF IInv, DispatchThrows, events, domain, TypeOK, Status, HeldIsDue,
       NeverEarly, DomainAgrees, NoWorkLost, Live

\* A failure recorded against whatever the event has become in the meantime.
LEMMA FailureInv ==
    ASSUME NEW w \in Workers
    PROVE IInv /\ (FailUndeliverable(w) \/ RecordFailure(w)) => IInv'
<1>. SUFFICES ASSUME IInv, FailUndeliverable(w) \/ RecordFailure(w)
              PROVE IInv'
  OBVIOUS
<1>. DEFINE e == job[w]
<1>1. /\ e \in Events
      /\ status[e] # "absent"
      /\ wait[e] = 0
  BY DEF IInv, HeldIsDue, FailUndeliverable, RecordFailure
<1>2. seen[w] + 1 \in Nat
  BY DEF IInv, TypeOK
<1>3. Backoff(seen[w] + 1) \in Nat
  BY <1>2, BackoffType
<1>4. /\ Write(e, "failed") \/ Write(e, "due")
      /\ attempts' \in [Events -> Nat]
      /\ dueIn' \in [Events -> Int]
      /\ \A f \in Events : f # e => dueIn'[f] = dueIn[f]
      /\ pc' = [pc EXCEPT ![w] = "draining"]
      /\ job' = [job EXCEPT ![w] = None]
      /\ seen' = [seen EXCEPT ![w] = 0]
      /\ UNCHANGED <<domain, wait, crashes>>
  BY <1>1, <1>2, <1>3
     DEF IInv, TypeOK, FailUndeliverable, RecordFailure, Settled
<1>. HIDE DEF e
<1>5. TypeOK'
  BY <1>1, <1>4, SchedulerAssumption DEF IInv, TypeOK, Status, Write, domain
<1>6. HeldIsDue'
  BY <1>1, <1>4 DEF IInv, TypeOK, HeldIsDue, Write
<1>7. NeverEarly'
  BY <1>1, <1>4 DEF IInv, TypeOK, NeverEarly, Write, Live
<1>8. (DomainAgrees /\ NoWorkLost)'
  BY <1>1, <1>4 DEF IInv, TypeOK, DomainAgrees, NoWorkLost, Write, domain
<1>. QED
  BY <1>5, <1>6, <1>7, <1>8 DEF IInv

LEMMA NextInv == IInv /\ [Next]_vars => IInv'
<1>. SUFFICES ASSUME IInv, [Next]_vars PROVE IInv'
  OBVIOUS
<1>1. CASE Elapse
  BY <1>1, ElapseInv
<1>2. ASSUME NEW e \in Events, ScheduleEvent(e) \/ CancelEvent(e) PROVE IInv'
  BY <1>2, ScheduleInv, CancelInv
<1>3. ASSUME NEW w \in Workers,
             Work(w) \/ CommitUnacknowledged(w) \/ Crash(w)
      PROVE IInv'
  BY <1>3, SweepInv, ClaimInv, IdleInv, CommitInv, ThrowInv, FailureInv DEF Work
<1>4. CASE UNCHANGED vars
  BY <1>4 DEF vars, events, domain, memory, IInv, TypeOK, Status, HeldIsDue,
          NeverEarly, DomainAgrees, NoWorkLost, Live
<1>. QED
  BY <1>1, <1>2, <1>3, <1>4 DEF Next

\* The inductive invariant of the scheduler (scheduler.service.ts): types, what
\* a worker may hold, and how events and aggregates agree.
THEOREM Inductive == Spec => []IInv
BY InitInv, NextInv, PTL DEF Spec

\* Every reachable state of the scheduler is well typed.
THEOREM TypeCorrect == Spec => []TypeOK
<1>1. IInv => TypeOK
  BY DEF IInv
<1>. QED
  BY <1>1, Inductive, PTL

\* An armed aggregate always has its event: crashes, expired leases, stale
\* workers and lost acknowledgements never strand a build or an army.
THEOREM WorkIsNeverLost == Spec => []NoWorkLost
<1>1. IInv => NoWorkLost
  BY DEF IInv
<1>. QED
  BY <1>1, Inductive, PTL

------------------------------------------------------------------------------
\* Implementation of the contract.

LEMMA ContractInit == Init => Contract!Init
BY DEF Init, Contract!Init

\* A transaction of a worker applies the effect of a due, armed event or
\* changes nothing the contract speaks of.
LEMMA ContractCommit ==
    ASSUME NEW w \in Workers
    PROVE IInv /\ (DispatchCommits(w) \/ CommitUnacknowledged(w))
          => [Contract!Next]_(Contract!cvars)
<1>. SUFFICES ASSUME IInv, DispatchCommits(w) \/ CommitUnacknowledged(w)
              PROVE [Contract!Next]_(Contract!cvars)
  OBVIOUS
<1>1. /\ job[w] \in Events
      /\ wait[job[w]] = 0
      /\ Handle(job[w])
      /\ UNCHANGED wait
  BY DEF IInv, HeldIsDue, DispatchCommits, CommitUnacknowledged
<1>2. CASE aggregate[job[w]] = "armed"
  <2>1. Contract!Apply(job[w])
    BY <1>1, <1>2 DEF Handle, Contract!Apply
  <2>. QED
    BY <1>1, <2>1 DEF Contract!Next
<1>3. CASE aggregate[job[w]] # "armed"
  BY <1>1, <1>3 DEF Handle, domain, Contract!cvars
<1>. QED
  BY <1>2, <1>3

LEMMA ContractStep == IInv /\ [Next]_vars => [Contract!Next]_(Contract!cvars)
<1>. SUFFICES ASSUME IInv, [Next]_vars PROVE [Contract!Next]_(Contract!cvars)
  OBVIOUS
<1>1. CASE Elapse
  BY <1>1 DEF Elapse, domain, Contract!Elapse, Contract!Next
<1>2. ASSUME NEW e \in Events, ScheduleEvent(e)
      PROVE [Contract!Next]_(Contract!cvars)
  <2>1. aggregate[e] = "none"
    BY <1>2 DEF IInv, DomainAgrees, ScheduleEvent
  <2>2. Contract!Arm(e)
    BY <1>2, <2>1 DEF ScheduleEvent, Contract!Arm
  <2>. QED
    BY <2>2 DEF Contract!Next
<1>3. ASSUME NEW e \in Events, CancelEvent(e)
      PROVE [Contract!Next]_(Contract!cvars)
  <2>1. Contract!Cancel(e)
    BY <1>3 DEF CancelEvent, Contract!Cancel
  <2>. QED
    BY <2>1 DEF Contract!Next
<1>4. ASSUME NEW w \in Workers, DispatchCommits(w) \/ CommitUnacknowledged(w)
      PROVE [Contract!Next]_(Contract!cvars)
  BY <1>4, ContractCommit
<1>5. ASSUME NEW w \in Workers,
             \/ SweepExpiredLeases(w) \/ ClaimNextDueEvent(w) \/ NothingDue(w)
             \/ FailUndeliverable(w) \/ DispatchThrows(w) \/ RecordFailure(w)
             \/ Crash(w)
      PROVE UNCHANGED Contract!cvars
  BY <1>5 DEF SweepExpiredLeases, ClaimNextDueEvent, NothingDue, Crash,
          FailUndeliverable, DispatchThrows, RecordFailure, domain,
          Contract!cvars
<1>6. CASE UNCHANGED vars
  BY <1>6 DEF vars, domain, Contract!cvars
<1>. QED
  BY <1>1, <1>2, <1>3, <1>4, <1>5, <1>6 DEF Next, Work

\* The scheduler (claim, lease, sweep, retry, crash, lost acknowledgement)
\* keeps the promise handlers are written against: at most one effect per
\* event, never before its scheduled time, never after its cancellation.
THEOREM SchedulerImplementsContract == Spec => ImplementsContract
<1>1. Spec => []IInv
  BY Inductive
<1>. QED
  BY <1>1, ContractInit, ContractStep, PTL
     DEF Spec, ImplementsContract, Contract!Spec

------------------------------------------------------------------------------
\* What losing a lease costs.

\* A recorded failure leaves its event with an attempt on the document, or
\* deleted, and every other event as it was.
LEMMA FailureCounts ==
    ASSUME NEW w \in Workers, NEW e \in Events
    PROVE /\ IInv /\ LeaseLossKeepsDueAt
          /\ FailUndeliverable(w) \/ RecordFailure(w)
          /\ Live(e)' /\ attempts'[e] = 0
          => wait'[e] = IF dueIn'[e] > 0 THEN dueIn'[e] ELSE 0
<1>. SUFFICES ASSUME IInv, LeaseLossKeepsDueAt,
                     FailUndeliverable(w) \/ RecordFailure(w),
                     Live(e)', attempts'[e] = 0
              PROVE wait'[e] = IF dueIn'[e] > 0 THEN dueIn'[e] ELSE 0
  OBVIOUS
<1>. DEFINE h == job[w]
<1>1. /\ h \in Events
      /\ seen[w] \in Nat
  BY DEF IInv, TypeOK, HeldIsDue, FailUndeliverable, RecordFailure
<1>2. /\ Write(h, "failed") \/ Write(h, "due")
      /\ attempts' = [attempts EXCEPT ![h] =
                        IF status[h] = "deleted" THEN @ ELSE seen[w] + 1]
      /\ \A f \in Events : f # h => dueIn'[f] = dueIn[f]
      /\ wait' = wait
  BY <1>1 DEF IInv, TypeOK, FailUndeliverable, RecordFailure
<1>. HIDE DEF h
<1>3. e # h
  <2>1. CASE status[h] = "deleted"
    BY <1>1, <1>2, <2>1 DEF IInv, TypeOK, Write, Live
  <2>2. CASE status[h] # "deleted"
    <3>1. attempts'[h] = seen[w] + 1
      BY <1>1, <1>2, <2>2 DEF IInv, TypeOK
    <3>. QED
      BY <1>1, <3>1
  <2>. QED
    BY <2>1, <2>2
<1>4. /\ Live(e) /\ attempts[e] = 0
      /\ dueIn'[e] = dueIn[e] /\ wait'[e] = wait[e]
  BY <1>1, <1>2, <1>3 DEF IInv, TypeOK, Write, Live
<1>. QED
  BY <1>4 DEF LeaseLossKeepsDueAt

LEMMA DueAtStep == IInv /\ LeaseLossKeepsDueAt /\ [Next]_vars => LeaseLossKeepsDueAt'
<1>. SUFFICES ASSUME IInv, LeaseLossKeepsDueAt, [Next]_vars,
                     NEW e \in Events, Live(e)', attempts'[e] = 0
              PROVE wait'[e] = IF dueIn'[e] > 0 THEN dueIn'[e] ELSE 0
  BY Zenon DEF LeaseLossKeepsDueAt
<1>1. CASE Elapse
  <2>1. Live(e) /\ attempts[e] = 0
    BY <1>1 DEF Elapse, Live
  <2>2. wait[e] = IF dueIn[e] > 0 THEN dueIn[e] ELSE 0
    BY <2>1 DEF LeaseLossKeepsDueAt
  <2>3. dueIn[e] \in Int /\ Lateness \in Int /\ Lateness <= 0
    BY SchedulerAssumption DEF IInv, TypeOK, Lateness
  <2>. QED
    BY <1>1, <2>1, <2>2, <2>3 DEF Elapse
<1>2. ASSUME NEW f \in Events, ScheduleEvent(f) \/ CancelEvent(f)
      PROVE wait'[e] = IF dueIn'[e] > 0 THEN dueIn'[e] ELSE 0
  BY <1>2, SchedulerAssumption
     DEF IInv, TypeOK, ScheduleEvent, CancelEvent, Live, LeaseLossKeepsDueAt
<1>3. ASSUME NEW w \in Workers, SweepExpiredLeases(w)
      PROVE wait'[e] = IF dueIn'[e] > 0 THEN dueIn'[e] ELSE 0
  BY <1>3 DEF SweepExpiredLeases, Expired, Live, LeaseLossKeepsDueAt
<1>4. ASSUME NEW w \in Workers, ClaimNextDueEvent(w)
      PROVE wait'[e] = IF dueIn'[e] > 0 THEN dueIn'[e] ELSE 0
  BY <1>4 DEF IInv, TypeOK, ClaimNextDueEvent, Claimable, Live, LeaseLossKeepsDueAt
<1>5. ASSUME NEW w \in Workers, DispatchCommits(w) \/ CommitUnacknowledged(w)
      PROVE wait'[e] = IF dueIn'[e] > 0 THEN dueIn'[e] ELSE 0
  <2>1. job[w] \in Events
    BY <1>5 DEF IInv, HeldIsDue, DispatchCommits, CommitUnacknowledged
  <2>. QED
    BY <1>5, <2>1
       DEF IInv, TypeOK, DispatchCommits, CommitUnacknowledged, Write, Live,
           LeaseLossKeepsDueAt
<1>6. ASSUME NEW w \in Workers, FailUndeliverable(w) \/ RecordFailure(w)
      PROVE wait'[e] = IF dueIn'[e] > 0 THEN dueIn'[e] ELSE 0
  BY <1>6, FailureCounts
<1>7. ASSUME NEW w \in Workers, NothingDue(w) \/ DispatchThrows(w) \/ Crash(w)
      PROVE wait'[e] = IF dueIn'[e] > 0 THEN dueIn'[e] ELSE 0
  BY <1>7 DEF NothingDue, DispatchThrows, Crash, events, Live, LeaseLossKeepsDueAt
<1>8. CASE UNCHANGED vars
  BY <1>8 DEF vars, events, Live, LeaseLossKeepsDueAt
<1>. QED
  BY <1>1, <1>2, <1>3, <1>4, <1>5, <1>6, <1>7, <1>8 DEF Next, Work

\* Until its handler first fails, an event is due when it was scheduled to be,
\* however many workers claimed it and lost it: the lease sweep replays a
\* backlog with the due times its players saw (scheduler.service.ts).
THEOREM LeaseLossIsFree == Spec => []LeaseLossKeepsDueAt
<1>1. Init => LeaseLossKeepsDueAt
  BY DEF Init, Live, LeaseLossKeepsDueAt
<1>. QED
  BY <1>1, DueAtStep, Inductive, PTL DEF Spec
==============================================================================
