-------------------------- MODULE ReportsPublisher --------------------------
(***************************************************************************)
(* ReportsRealtimePublisher: a supervisor that keeps a change stream open  *)
(* on the reports collection and pushes reportArrived for every insert the *)
(* stream shows.  A failed stream is reopened by a timer, from the resume  *)
(* token of the last change that was seen; the token is also persisted,    *)
(* without waiting, so that a restarted process can resume too.            *)
(*                                                                         *)
(* Reports are numbered in the order of their commits, and a number is the *)
(* resume token of that insert: a stream at n has shown the inserts up to  *)
(* n and shows n + 1 next.  0 is no token at all.  The driver's streams    *)
(* and the oplog are external.  What the backoff adds to a delay, and the  *)
(* log lines, are left out: a pending timer fires at any time.             *)
(***************************************************************************)
EXTENDS Naturals

CONSTANTS
    Streams,     \* stream slots, numbers: openStream takes the first free one
    MaxReports,  \* bound: reports ever written
    MaxFaults    \* bound: failures, crashes, unread tokens, oplog purges

ASSUME PublisherAssumption ==
    /\ Streams \subseteq Nat \ {0}
    /\ MaxReports \in Nat /\ MaxFaults \in Nat

VARIABLES
    written,    \* reports committed so far
    oplogFrom,  \* the oldest insert the oplog still holds, 1 at first
    process,    \* "down", "running", or "stopping" (the stopped flag is set)
    phase,      \* of each stream: "closed", "opening", "open", "ending"
    at,         \* of each stream: the last insert it has shown
    current,    \* this.changeStream, or NoStream
    cached,     \* cachedResumeToken
    persisted,  \* the ChangeStreamResumeToken document
    writes,     \* writes of that document still in flight, 0 for the delete
    timer,      \* whether reconnectTimer is set
    pushed,     \* history: the reports reportArrived was emitted for
    skipped,    \* history: the reports a stream without a token began after
    faults      \* how many faults have happened

store == <<written, oplogFrom>>
tokens == <<cached, persisted, writes>>
history == <<pushed, skipped>>
vars == <<store, process, phase, at, current, tokens, timer, history, faults>>

Reports == 1..MaxReports
NoStream == 0

Init ==
    /\ written = 0 /\ oplogFrom = 1
    /\ process = "down"
    /\ phase = [s \in Streams |-> "closed"]
    /\ at = [s \in Streams |-> 0]
    /\ current = NoStream
    /\ cached = 0 /\ persisted = 0 /\ writes = {}
    /\ timer = FALSE
    /\ pushed = {} /\ skipped = {}
    /\ faults = 0

Fault ==
    /\ faults < MaxFaults
    /\ faults' = faults + 1

------------------------------------------------------------------------------
\* The database: commits of the game's transactions, and the oplog's window.

CommitReport ==
    /\ written < MaxReports
    /\ written' = written + 1
    /\ UNCHANGED <<oplogFrom, process, phase, at, current, tokens, timer,
                   history, faults>>

PurgeOplog ==
    /\ oplogFrom <= written
    /\ Fault
    /\ oplogFrom' = written + 1
    /\ UNCHANGED <<written, process, phase, at, current, tokens, timer, history>>

\* persistResumeToken and clearPersistedResumeToken are not awaited: their
\* writes land in any order, also after a crash, or not at all.
PersistLands(t) ==
    /\ t \in writes
    /\ writes' = writes \ {t}
    /\ persisted' = t
    /\ UNCHANGED <<store, process, phase, at, current, cached, timer, history,
                   faults>>

PersistFails(t) ==
    /\ t \in writes
    /\ writes' = writes \ {t}
    /\ UNCHANGED <<store, process, phase, at, current, cached, persisted, timer,
                   history, faults>>

------------------------------------------------------------------------------
\* The supervisor.

\* openStream: watch(resumeAfter: token), or a plain watch without a token.
OpenStream(token) ==
    \E s \in Streams :
        /\ phase[s] = "closed" /\ \A t \in Streams : t < s => phase[t] # "closed"
        /\ phase' = [phase EXCEPT ![s] = "opening"]
        /\ at' = [at EXCEPT ![s] = token]
        /\ current' = s

\* onModuleInit: the token is read once; when the read fails, there is none.
Boot ==
    /\ process = "down"
    /\ process' = "running"
    /\ \/ cached' = persisted /\ UNCHANGED faults
       \/ cached' = 0 /\ Fault
    /\ OpenStream(cached')
    /\ UNCHANGED <<store, persisted, writes, timer, history>>

TimerFires ==
    /\ timer
    /\ timer' = FALSE
    /\ OpenStream(cached)
    /\ UNCHANGED <<store, process, tokens, history, faults>>

\* One timer at most, and none once onModuleDestroy has set stopped.
ScheduleReconnect == timer' = (timer \/ process = "running")

\* The inserts a stream at position n cannot show any more: a resume needs
\* the insert of its token, an open cursor only what comes after it.
Lost(s) ==
    \/ phase[s] = "opening" /\ at[s] \in 1..(oplogFrom - 1)
    \/ phase[s] = "open" /\ at[s] + 1 < oplogFrom

\* The stream is established.  A plain watch begins after what is there.
Ready(s) ==
    /\ phase[s] = "opening" /\ ~Lost(s)
    /\ phase' = [phase EXCEPT ![s] = "open"]
    /\ IF at[s] = 0
       THEN /\ at' = [at EXCEPT ![s] = written]
            /\ skipped' = skipped \cup ((1..written) \ pushed)
       ELSE UNCHANGED <<at, skipped>>
    /\ UNCHANGED <<store, process, current, tokens, timer, pushed, faults>>

ChangeToTheNewest(s) ==  \* fault: the token is the collection's, not the change's
    /\ phase[s] = "open" /\ at[s] < written /\ ~Lost(s)
    /\ at' = [at EXCEPT ![s] = @ + 1]
    /\ cached' = written
    /\ writes' = writes \cup {written}
    /\ pushed' = pushed \cup {at[s] + 1}
    /\ UNCHANGED <<store, process, phase, current, persisted, timer, skipped,
                   faults>>

\* The change listener: cache the token, start persisting it, push the report.
Change(s) ==
    /\ phase[s] = "open" /\ at[s] < written /\ ~Lost(s)
    /\ at' = [at EXCEPT ![s] = @ + 1]
    /\ cached' = at[s] + 1
    /\ writes' = writes \cup {at[s] + 1}
    /\ pushed' = pushed \cup {at[s] + 1}
    /\ UNCHANGED <<store, process, phase, current, persisted, timer, skipped,
                   faults>>

HistoryKept(s) ==  \* fault: ChangeStreamHistoryLost is retried like any error
    /\ Lost(s)
    /\ phase' = [phase EXCEPT ![s] = "ending"]
    /\ ScheduleReconnect
    /\ UNCHANGED <<store, process, at, current, tokens, history, faults>>

\* error, ChangeStreamHistoryLost: the token is dropped, here and in the store.
HistoryLost(s) ==
    /\ Lost(s)
    /\ cached' = 0
    /\ writes' = writes \cup {0}
    /\ phase' = [phase EXCEPT ![s] = "ending"]
    /\ ScheduleReconnect
    /\ UNCHANGED <<store, process, at, current, persisted, history, faults>>

\* Any other error: handleStreamDown closes the stream and calls for another.
StreamFails(s) ==
    /\ phase[s] \in {"opening", "open"}
    /\ Fault
    /\ phase' = [phase EXCEPT ![s] = "ending"]
    /\ ScheduleReconnect
    /\ UNCHANGED <<store, process, at, current, tokens, history>>

\* A stream dies without an error: its close is all that is heard of it.
StreamDrops(s) ==
    /\ phase[s] \in {"opening", "open"}
    /\ Fault
    /\ phase' = [phase EXCEPT ![s] = "closed"]
    /\ ScheduleReconnect
    /\ UNCHANGED <<store, process, at, current, tokens, history>>

\* The close that close() leads to arrives when the server has answered, be it
\* after the timer; the listener does not ask which stream is the current one.
CloseArrives(s) ==
    /\ phase[s] = "ending"
    /\ phase' = [phase EXCEPT ![s] = "closed"]
    /\ ScheduleReconnect
    /\ UNCHANGED <<store, process, at, current, tokens, history, faults>>

\* onModuleDestroy: it closes the stream it knows of.
Stop ==
    /\ process = "running"
    /\ Fault
    /\ process' = "stopping"
    /\ timer' = FALSE
    /\ phase' = [phase EXCEPT ![current] =
                   IF @ \in {"opening", "open"} THEN "ending" ELSE @]
    /\ UNCHANGED <<store, at, current, tokens, history>>

Gone ==
    /\ process' = "down"
    /\ phase' = [s \in Streams |-> "closed"]
    /\ at' = [s \in Streams |-> 0]
    /\ current' = NoStream
    /\ cached' = 0
    /\ timer' = FALSE
    /\ UNCHANGED <<store, persisted, writes, history>>

Exit == process = "stopping" /\ Gone /\ UNCHANGED faults

Crash == process = "running" /\ Fault /\ Gone

Supervise(s) == Ready(s) \/ Change(s) \/ HistoryLost(s) \/ CloseArrives(s)

Next ==
    \/ CommitReport \/ PurgeOplog \/ Boot \/ TimerFires \/ Stop \/ Exit \/ Crash
    \/ \E t \in 0..MaxReports : PersistLands(t) \/ PersistFails(t)
    \/ \E s \in Streams : Supervise(s) \/ StreamFails(s) \/ StreamDrops(s)

Spec == Init /\ [][Next]_vars

\* The process manager restarts the process; timers fire, and the driver tells
\* of every stream whether it stands, what it shows and that it has closed.
Fairness ==
    /\ WF_vars(Boot) /\ WF_vars(Exit) /\ WF_vars(TimerFires)
    /\ \A s \in Streams : WF_vars(Supervise(s))

FairSpec == Spec /\ Fairness

------------------------------------------------------------------------------
\* Properties.

TypeOK ==
    /\ written \in 0..MaxReports
    /\ oplogFrom \in 1..(MaxReports + 1)
    /\ process \in {"down", "running", "stopping"}
    /\ phase \in [Streams -> {"closed", "opening", "open", "ending"}]
    /\ at \in [Streams -> 0..MaxReports]
    /\ current \in Streams \cup {NoStream}
    /\ cached \in 0..MaxReports
    /\ persisted \in 0..MaxReports
    /\ writes \subseteq 0..MaxReports
    /\ timer \in BOOLEAN
    /\ pushed \subseteq Reports
    /\ skipped \subseteq Reports
    /\ faults \in 0..MaxFaults

\* Resuming never passes over a report: up to every position a stream could be
\* resumed from, in memory, in the store or on its way there, each report was
\* pushed, or came before a stream that was opened without a token.
Accounted(n) == 1..n \subseteq pushed \cup skipped

NothingBehindTheToken ==
    \A n \in {cached, persisted} \cup writes : Accounted(n)

\* "It must keep trying to converge back to streaming": every report is pushed
\* in the end, or came before a stream that was opened without a token.
EveryReportPushed ==
    \A r \in Reports : (written >= r) ~> (r \in pushed \cup skipped)

\* What the class comment says of the reconnects: never two overlapping streams.
\* TLC refutes it in push.cfg.
NeverTwoStreams ==
    \A s, t \in Streams : phase[s] = "open" /\ phase[t] = "open" => s = t
==============================================================================
