------------------------------- MODULE Outbox -------------------------------
(***************************************************************************)
(* The notification outbox: a row is written in the transaction of what it *)
(* tells of, and a notificationDispatch event that always schedules its    *)
(* own successor drains the undelivered rows, oldest first, Batch at a     *)
(* time, through every provider.  The handler's marks, its successor and   *)
(* its done mark commit together; what the providers have sent stays sent. *)
(* A crash leaves the event leased until the sweep gives it back, a        *)
(* failed transaction is retried, and dead-letters the event in the end;   *)
(* a booting process schedules one when it finds none.                     *)
(*                                                                         *)
(* Rows are numbered in the order they were written.  dueAt is reduced to  *)
(* whether it has come; at most one dispatch runs at a time, because the   *)
(* scheduler's only loop awaits its handler.                               *)
(***************************************************************************)
EXTENDS FiniteSetsExt, Naturals

CONSTANTS
    Rows,        \* 1..n, the notifications ever asked for
    Muted,       \* those of a kind the account has switched off
    Poisoned,    \* those a provider rejects whenever it is asked
    Providers,   \* 1..n, in the order they are called
    Beats,       \* bound: event slots, reused by an event's successor
    Batch,       \* NOTIFICATION_DISPATCH_BATCH_SIZE
    MaxAttempts, \* of the scheduler
    MaxMishaps   \* bound: crashes, failed transactions and provider failures

ASSUME OutboxAssumption ==
    /\ Rows \subseteq Nat /\ Providers \subseteq Nat /\ Providers # {}
    /\ Beats \subseteq Nat /\ IsFiniteSet(Beats)
    /\ Muted \subseteq Rows /\ Poisoned \subseteq Rows
    /\ Batch \in Nat \ {0} /\ MaxAttempts \in Nat \ {0} /\ MaxMishaps \in Nat

VARIABLES
    row,         \* of each row: "absent", "muted", "pending", "delivered"
    sent,        \* history: the providers that have sent the row, in any pass
    beat,        \* of each slot: "none", "due", "later", "processing", "failed"
    attempts,    \* of each slot: GameEvent.attempts
    up,          \* whether the process is running
    rival,       \* a second process booting on the empty database
    pass,        \* the dispatch in progress, or NoPass
    seeded,      \* history: the events a booting process scheduled
    mishaps      \* how many mishaps have happened

outboxVars == <<row, sent, beat, attempts, up, rival, pass, seeded, mishaps>>

NoPass == [running |-> FALSE]

OutboxInit ==
    /\ row = [r \in Rows |-> "absent"]
    /\ sent = [r \in Rows |-> {}]
    /\ beat = [b \in Beats |-> "none"]
    /\ attempts = [b \in Beats |-> 0]
    /\ up = FALSE
    /\ rival = "booting"
    /\ pass = NoPass
    /\ seeded = 0
    /\ mishaps = 0

Mishap ==
    /\ mishaps < MaxMishaps
    /\ mishaps' = mishaps + 1

------------------------------------------------------------------------------
\* The writers: the game's transactions, in their commit order.

Enqueue(r) ==
    /\ row[r] = "absent"
    /\ \A q \in Rows : q < r => row[q] # "absent"
    /\ row' = [row EXCEPT ![r] = IF r \in Muted THEN "muted" ELSE "pending"]
    /\ UNCHANGED <<sent, beat, attempts, up, rival, pass, seeded, mishaps>>

------------------------------------------------------------------------------
\* The heartbeat.

Live == {b \in Beats : beat[b] \in {"due", "later", "processing"}}

Free == {b \in Beats : beat[b] = "none"}

\* An event due now, in a slot of its own.
Seed ==
    /\ Free # {}
    /\ beat' = [beat EXCEPT ![Min(Free)] = "due"]
    /\ seeded' = seeded + 1

\* NotificationsModule.onModuleInit: seed, unless one is due or processing.
StartDispatcher ==
    /\ ~up
    /\ up' = TRUE
    /\ IF Live = {}
       THEN Seed
       ELSE UNCHANGED <<beat, seeded>>
    /\ UNCHANGED <<row, sent, attempts, rival, pass, mishaps>>

\* A process booting at the same time looks, and seeds what it did not find.
RivalLooks ==
    /\ rival = "booting"
    /\ rival' = IF Live = {} THEN "foundNone" ELSE "done"
    /\ UNCHANGED <<row, sent, beat, attempts, up, pass, seeded, mishaps>>

RivalSeeds ==
    /\ rival = "foundNone"
    /\ rival' = "done"
    /\ Seed
    /\ UNCHANGED <<row, sent, attempts, up, pass, mishaps>>

\* The interval, the backoff or, after a crash, the lease has passed.
DueAtComes(b) ==
    /\ \/ beat[b] = "later"
       \/ beat[b] = "processing" /\ (IF pass.running THEN pass.beat # b ELSE TRUE)
    /\ beat' = [beat EXCEPT ![b] = "due"]
    /\ UNCHANGED <<row, sent, attempts, up, rival, pass, seeded, mishaps>>

Pending == {r \in Rows : row[r] = "pending"}

\* The oldest undelivered rows, one batch of them.
Fetch == {r \in Pending : Cardinality({q \in Pending : q < r}) < Batch}

StartPass(b) ==
    [running |-> TRUE, beat |-> b, rows |-> Fetch, todo |-> Fetch,
     through |-> {}, marked |-> {}]

\* ClaimNextDueEvent, and the handler's query.
Claim(b) ==
    /\ up /\ ~pass.running /\ beat[b] = "due"
    /\ beat' = [beat EXCEPT ![b] = "processing"]
    /\ pass' = StartPass(b)
    /\ UNCHANGED <<row, sent, attempts, up, rival, seeded, mishaps>>

Busy == pass.running /\ pass.todo # {}

\* provider.deliver resolves; after the last provider the row is marked.
Deliver ==
    /\ Busy
    /\ LET r == Min(pass.todo)
           p == Min(Providers \ pass.through) IN
       /\ r \in Poisoned => p # Max(Providers)
       /\ sent' = [sent EXCEPT ![r] = @ \cup {p}]
       /\ pass' = IF Providers \ pass.through = {p}
                  THEN [pass EXCEPT !.todo = @ \ {r}, !.through = {},
                                    !.marked = @ \cup {r}]
                  ELSE [pass EXCEPT !.through = @ \cup {p}]
    /\ UNCHANGED <<row, beat, attempts, up, rival, seeded, mishaps>>

CaughtAndMarked ==  \* fault: the mark is not skipped by the caught error
    /\ Busy
    /\ LET r == Min(pass.todo) IN
       /\ \/ r \in Poisoned /\ UNCHANGED mishaps
          \/ r \notin Poisoned /\ Mishap
       /\ pass' = [pass EXCEPT !.todo = @ \ {r}, !.through = {},
                               !.marked = @ \cup {r}]
    /\ UNCHANGED <<row, sent, beat, attempts, up, rival, seeded>>

\* provider.deliver rejects: the row is left for the next pass.
DeliverRejects ==
    /\ Busy
    /\ LET r == Min(pass.todo) IN
       /\ \/ r \in Poisoned /\ UNCHANGED mishaps
          \/ r \notin Poisoned /\ Mishap
       /\ pass' = [pass EXCEPT !.todo = @ \ {r}, !.through = {}]
    /\ UNCHANGED <<row, sent, beat, attempts, up, rival, seeded>>

StopWhenIdle ==  \* fault: nothing to deliver, no successor
    IF pass.rows = {} THEN "none"
    ELSE IF Cardinality(pass.rows) = Batch THEN "due" ELSE "later"

\* A full batch is followed at once, any other after the interval.
Successor == IF Cardinality(pass.rows) = Batch THEN "due" ELSE "later"

\* The marks, the successor and the done mark, in one transaction; a done
\* event leaves its slot to its successor.
Commit ==
    /\ pass.running /\ pass.todo = {}
    /\ row' = [r \in Rows |->
                 IF r \in pass.marked THEN "delivered" ELSE row[r]]
    /\ beat' = [beat EXCEPT ![pass.beat] = Successor]
    /\ attempts' = [attempts EXCEPT ![pass.beat] = 0]
    /\ pass' = NoPass
    /\ UNCHANGED <<sent, up, rival, seeded, mishaps>>

\* withTransaction runs the handler again from its query.
Rerun ==
    /\ pass.running
    /\ Mishap
    /\ pass' = StartPass(pass.beat)
    /\ UNCHANGED <<row, sent, beat, attempts, up, rival, seeded>>

AbortButScheduled ==  \* fault: the successor is scheduled outside the session
    /\ pass.running
    /\ Mishap
    /\ LET b == pass.beat IN
       /\ attempts' = [attempts EXCEPT ![b] = @ + 1]
       /\ \E c \in Free :
            beat' = [beat EXCEPT ![b] = IF attempts[b] + 1 >= MaxAttempts
                                        THEN "failed" ELSE "later",
                                 ![c] = "later"]
    /\ pass' = NoPass
    /\ UNCHANGED <<row, sent, up, rival, seeded>>

\* The transaction fails for good: recordFailure counts the attempt.
Abort ==
    /\ pass.running
    /\ Mishap
    /\ LET b == pass.beat IN
       /\ attempts' = [attempts EXCEPT ![b] = @ + 1]
       /\ beat' = [beat EXCEPT ![b] = IF attempts[b] + 1 >= MaxAttempts
                                      THEN "failed" ELSE "later"]
    /\ pass' = NoPass
    /\ UNCHANGED <<row, sent, up, rival, seeded>>

CrashDispatcher ==
    /\ up
    /\ Mishap
    /\ up' = FALSE
    /\ pass' = NoPass
    /\ UNCHANGED <<row, sent, beat, attempts, rival, seeded>>

Step ==
    \/ StartDispatcher \/ Deliver \/ DeliverRejects \/ Commit
    \/ \E b \in Beats : Claim(b)

OutboxNext ==
    \/ Step \/ Rerun \/ Abort \/ CrashDispatcher \/ RivalLooks \/ RivalSeeds
    \/ \E r \in Rows : Enqueue(r)
    \/ \E b \in Beats : DueAtComes(b)

OutboxSpec == OutboxInit /\ [][OutboxNext]_outboxVars

\* Time passes, the process is restarted, and its loop runs.
FairOutboxSpec ==
    /\ OutboxSpec
    /\ WF_outboxVars(Step)
    /\ \A b \in Beats : WF_outboxVars(DueAtComes(b))

------------------------------------------------------------------------------
\* Properties.

OutboxTypeOK ==
    /\ row \in [Rows -> {"absent", "muted", "pending", "delivered"}]
    /\ sent \in [Rows -> SUBSET Providers]
    /\ beat \in [Beats -> {"none", "due", "later", "processing", "failed"}]
    /\ attempts \in [Beats -> 0..MaxAttempts]
    /\ up \in BOOLEAN
    /\ rival \in {"booting", "foundNone", "done"}
    /\ seeded \in Nat /\ mishaps \in 0..MaxMishaps

\* The heartbeat neither stops nor multiplies, whatever crashes, retries and
\* rolled-back passes do: every event ever seeded has exactly one descendant,
\* live or dead-lettered.  (A rival boot does leave two, for good.)
HeartbeatsConserved ==
    seeded = Cardinality(Live) + Cardinality({b \in Beats : beat[b] = "failed"})

\* deliveredAt is never set on a row some provider has not sent, whatever is
\* rolled back and repeated, and never on a row nobody wanted.
DeliveredIsSent ==
    \A r \in Rows :
        row[r] = "delivered" => r \notin Muted /\ sent[r] = Providers

\* "The row is never lost": it is delivered in the end, although fewer than
\* Batch rows are rejected for ever, unless the heartbeat was dead-lettered.
RowsDelivered ==
    \A r \in Rows \ Poisoned :
        row[r] = "pending"
        ~> (row[r] = "delivered" \/ \E b \in Beats : beat[b] = "failed")
==============================================================================
