------------------------------ MODULE EdgeProofs ------------------------------
(***************************************************************************)
(* The edges of the server: what a process sets going when it boots, and   *)
(* must keep right when it dies and boots again, and the screen that       *)
(* repeats the server's rules.  For any reports, rows, accounts, tiles,    *)
(* orders, levels and stocks, number of processes, and faults.             *)
(*                                                                         *)
(* The realtime publisher never resumes past a report.  The invariant the  *)
(* runs check is not inductive, since a change turns the position of a     *)
(* stream into a token: it is strengthened with the same fact about every  *)
(* position.                                                               *)
(*                                                                         *)
(* In the outbox a row is marked delivered only when every provider has    *)
(* sent it, and the heartbeat neither stops nor multiplies.  The first     *)
(* invariant is strengthened with what a pass in progress knows: the row   *)
(* it works on was sent by the providers it is through with, the rows it   *)
(* will mark by all of them.  The second needs that the event of the pass  *)
(* is held all the while.                                                  *)
(*                                                                         *)
(* An account whose Influence allows one settlement never owns two, and    *)
(* the world has one seed's oases and one set of NPCs.  What a request     *)
(* counted may be stale when it inserts; the insert is safe because an     *)
(* account with a settlement carries the protection stamp, and a request   *)
(* which counted none conflicts with the stamp.  The specs a process drew  *)
(* may be stale when it inserts them; that is safe because npcsSeededAt    *)
(* is claimed in the same transaction, and because only players ask for    *)
(* settlements.                                                            *)
(*                                                                         *)
(* The base screen judges orders as the server does, its offers are        *)
(* honoured and its forecasts come true.  The three follow, in every       *)
(* state, from the types of the two sides' documents and from two facts    *)
(* about settling: where no rate is negative it takes nothing away, and a  *)
(* price the stores can hold is paid after the longest of the waits and    *)
(* not before.  That the types hold for any stock and any levels rests on  *)
(* the formulas: every table of the catalogue is of natural numbers, and   *)
(* nothing is bought that was not paid for.                                *)
(***************************************************************************)
EXTENDS ReportsPublisher, Outbox, Onboarding, Client, SumsProofs

------------------------------------------------------------------------------
\* The realtime publisher.

PositionsAccounted == \A s \in Streams : Accounted(at[s])

IInv == TypeOK /\ NothingBehindTheToken /\ PositionsAccounted

\* With no report behind it, a position accounts for nothing.
LEMMA NothingBeforeTheFirst == Accounted(0)
BY PublisherAssumption DEF Accounted

\* The supervisor starts with no token and no stream.
LEMMA InitInvariant == Init => IInv
<1> SUFFICES ASSUME Init PROVE IInv
    OBVIOUS
<1>1. TypeOK
    <2>1. /\ phase \in [Streams -> {"closed", "opening", "open", "ending"}]
          /\ at \in [Streams -> 0..MaxReports]
        BY PublisherAssumption DEF Init
    <2>2. /\ written \in 0..MaxReports /\ oplogFrom \in 1..(MaxReports + 1)
          /\ cached \in 0..MaxReports /\ persisted \in 0..MaxReports
          /\ faults \in 0..MaxFaults
        BY PublisherAssumption DEF Init
    <2> QED BY <2>1, <2>2 DEF Init, TypeOK
<1>2. NothingBehindTheToken /\ PositionsAccounted
    BY NothingBeforeTheFirst
    DEF Init, NothingBehindTheToken, PositionsAccounted
<1> QED BY <1>1, <1>2 DEF IInv

\* Every action keeps the variables within their types.
LEMMA TypeStep == TypeOK /\ [Next]_vars => TypeOK'
<1> SUFFICES ASSUME TypeOK, [Next]_vars PROVE TypeOK'
    OBVIOUS
<1> USE PublisherAssumption DEF TypeOK, Reports, NoStream
<1>1. CASE CommitReport
    BY <1>1 DEF CommitReport, history, tokens
<1>2. CASE PurgeOplog
    BY <1>2 DEF PurgeOplog, Fault, history, tokens
<1>3. CASE Boot
    BY <1>3 DEF Boot, OpenStream, Fault, store, history
<1>4. CASE TimerFires
    BY <1>4 DEF TimerFires, OpenStream, store, tokens, history
<1>5. CASE Stop
    <2>1. phase' \in [Streams -> {"closed", "opening", "open", "ending"}]
        BY <1>5 DEF Stop
    <2>2. faults' \in 0..MaxFaults
        BY <1>5 DEF Stop, Fault
    <2> QED BY <1>5, <2>1, <2>2 DEF Stop, store, tokens, history
<1>6. CASE Exit \/ Crash
    <2>1. /\ phase' \in [Streams -> {"closed", "opening", "open", "ending"}]
          /\ at' \in [Streams -> 0..MaxReports]
          /\ cached' \in 0..MaxReports
        BY <1>6 DEF Exit, Crash, Gone
    <2>2. faults' \in 0..MaxFaults
        BY <1>6 DEF Exit, Crash, Fault
    <2> QED BY <1>6, <2>1, <2>2 DEF Exit, Crash, Gone, store, history
<1>7. CASE \E t \in 0..MaxReports : PersistLands(t) \/ PersistFails(t)
    BY <1>7 DEF PersistLands, PersistFails, store, history
<1>8. ASSUME NEW s \in Streams, Supervise(s) \/ StreamFails(s) \/ StreamDrops(s)
      PROVE  TypeOK'
    <2>1. CASE Ready(s)
        <3>1. /\ phase' \in [Streams -> {"closed", "opening", "open", "ending"}]
              /\ at' \in [Streams -> 0..MaxReports]
            BY <2>1 DEF Ready
        <3>2. skipped' \subseteq 1..MaxReports
            <4>1. 1..written \subseteq 1..MaxReports
                OBVIOUS
            <4> QED BY <2>1, <4>1 DEF Ready
        <3> QED BY <2>1, <3>1, <3>2 DEF Ready, store, tokens
    <2>2. CASE Change(s)
        <3>1. at[s] + 1 \in 1..MaxReports
            BY <2>2 DEF Change
        <3>2. /\ at' \in [Streams -> 0..MaxReports]
              /\ cached' \in 0..MaxReports
            BY <2>2, <3>1 DEF Change
        <3>3. writes' \subseteq 0..MaxReports
            <4>1. at[s] + 1 \in 0..MaxReports /\ writes' = writes \cup {at[s] + 1}
                BY <2>2, <3>1 DEF Change
            <4> QED BY <4>1
        <3>4. pushed' \subseteq 1..MaxReports
            BY <2>2, <3>1 DEF Change
        <3> QED BY <2>2, <3>2, <3>3, <3>4 DEF Change, store
    <2>3. CASE HistoryLost(s)
        BY <2>3 DEF HistoryLost, ScheduleReconnect, store, history
    <2>4. CASE CloseArrives(s)
        BY <2>4 DEF CloseArrives, ScheduleReconnect, store, tokens, history
    <2>5. CASE StreamFails(s)
        BY <2>5 DEF StreamFails, ScheduleReconnect, Fault, store, tokens, history
    <2>6. CASE StreamDrops(s)
        BY <2>6 DEF StreamDrops, ScheduleReconnect, Fault, store, tokens, history
    <2> QED BY <1>8, <2>1, <2>2, <2>3, <2>4, <2>5, <2>6 DEF Supervise
<1>9. CASE UNCHANGED vars
    BY <1>9 DEF vars, store, tokens, history
<1> QED
    BY <1>1, <1>2, <1>3, <1>4, <1>5, <1>6, <1>7, <1>8, <1>9 DEF Next

\* What is pushed or skipped stays so, in every step.
LEMMA HistoryGrows ==
    TypeOK /\ [Next]_vars => pushed \subseteq pushed' /\ skipped \subseteq skipped'
BY DEF Next, vars, CommitReport, PurgeOplog, Boot, TimerFires, Stop, Exit, Crash,
       Gone, PersistLands, PersistFails, Supervise, Ready, Change, HistoryLost,
       CloseArrives, StreamFails, StreamDrops, history

\* No step makes a token or a position of a number whose reports are not
\* accounted for.  Only three steps make a new number: a boot copies the
\* stored token, a plain watch begins after reports that count as skipped, and
\* a change pushes the very report its token names.
LEMMA AccountStep == IInv /\ [Next]_vars => (NothingBehindTheToken /\ PositionsAccounted)'
<1> SUFFICES ASSUME IInv, [Next]_vars
             PROVE  NothingBehindTheToken' /\ PositionsAccounted'
    OBVIOUS
<1>a. pushed \subseteq pushed' /\ skipped \subseteq skipped'
    BY HistoryGrows DEF IInv
<1> DEFINE Kept(n) == 1..n \subseteq pushed' \cup skipped'
<1>b. \A n : Accounted(n) => Kept(n)
    BY <1>a DEF Accounted
<1>c. /\ Kept(0) /\ Kept(cached) /\ Kept(persisted)
      /\ \A n \in writes : Kept(n)
      /\ \A s \in Streams : Kept(at[s])
    BY <1>b, NothingBeforeTheFirst
    DEF IInv, NothingBehindTheToken, PositionsAccounted
<1>d. SUFFICES /\ Kept(cached') /\ Kept(persisted')
               /\ \A n \in writes' : Kept(n)
               /\ \A s \in Streams : Kept(at'[s])
    BY DEF NothingBehindTheToken, PositionsAccounted, Accounted
<1>e. /\ at \in [Streams -> 0..MaxReports] /\ written \in 0..MaxReports
      /\ 0 \in Nat /\ MaxReports \in Nat
    BY PublisherAssumption DEF IInv, TypeOK
<1>1. CASE CommitReport
    BY <1>1, <1>c DEF CommitReport, tokens, Kept
<1>2. CASE PurgeOplog
    BY <1>2, <1>c DEF PurgeOplog, tokens, Kept
<1>3. CASE Boot
    <2>1. cached' \in {0, persisted} /\ persisted' = persisted /\ writes' = writes
        BY <1>3 DEF Boot
    <2>2. \A s \in Streams : at'[s] \in {at[s], cached'}
        BY <1>3, <1>e DEF Boot, OpenStream
    <2> HIDE DEF Kept
    <2> QED BY <2>1, <2>2, <1>c
<1>4. CASE TimerFires
    <2>1. UNCHANGED tokens
        BY <1>4 DEF TimerFires
    <2>2. \A s \in Streams : at'[s] \in {at[s], cached}
        BY <1>4, <1>e DEF TimerFires, OpenStream
    <2> HIDE DEF Kept
    <2> QED BY <2>1, <2>2, <1>c DEF tokens
<1>5. CASE Stop
    BY <1>5, <1>c DEF Stop, tokens, Kept
<1>6. CASE Exit \/ Crash
    <2>1. cached' = 0 /\ persisted' = persisted /\ writes' = writes
        BY <1>6 DEF Exit, Crash, Gone
    <2>2. \A s \in Streams : at'[s] = 0
        BY <1>6 DEF Exit, Crash, Gone
    <2> HIDE DEF Kept
    <2> QED BY <2>1, <2>2, <1>c
<1>7. ASSUME NEW t \in 0..MaxReports, PersistLands(t) \/ PersistFails(t)
      PROVE  /\ Kept(cached') /\ Kept(persisted')
             /\ \A n \in writes' : Kept(n)
             /\ \A s \in Streams : Kept(at'[s])
    <2>1. /\ cached' = cached /\ at' = at /\ writes' \subseteq writes
          /\ persisted' \in {persisted} \cup writes
        BY <1>7 DEF PersistLands, PersistFails
    <2> HIDE DEF Kept
    <2> QED BY <2>1, <1>c
<1>8. ASSUME NEW s \in Streams, Supervise(s) \/ StreamFails(s) \/ StreamDrops(s)
      PROVE  /\ Kept(cached') /\ Kept(persisted')
             /\ \A n \in writes' : Kept(n)
             /\ \A u \in Streams : Kept(at'[u])
    <2>1. CASE Ready(s)
        <3>1. UNCHANGED tokens
            BY <2>1 DEF Ready
        <3>2. CASE at[s] = 0
            <4>1. skipped' = skipped \cup ((1..written) \ pushed) /\ pushed' = pushed
                BY <2>1, <3>2 DEF Ready
            <4>2. Kept(written)
                BY <4>1
            <4>3. \A u \in Streams : at'[u] \in {at[u], written}
                BY <2>1, <3>2, <1>e DEF Ready
            <4> HIDE DEF Kept
            <4> QED BY <3>1, <4>2, <4>3, <1>c DEF tokens
        <3>3. CASE at[s] # 0
            <4>1. at' = at
                BY <2>1, <3>3 DEF Ready
            <4> HIDE DEF Kept
            <4> QED BY <3>1, <4>1, <1>c DEF tokens
        <3> QED BY <3>2, <3>3
    <2>2. CASE Change(s)
        <3> DEFINE next == at[s] + 1
        <3>1. /\ cached' = next /\ persisted' = persisted
              /\ writes' = writes \cup {next} /\ pushed' = pushed \cup {next}
            BY <2>2 DEF Change
        <3>2. \A u \in Streams : at'[u] \in {at[u], next}
            BY <2>2, <1>e DEF Change
        <3>3. Kept(next)
            <4>1. 1..next = 1..at[s] \cup {next}
                BY <1>e
            <4> QED BY <3>1, <4>1, <1>c
        <3> HIDE DEF Kept, next
        <3> QED BY <3>1, <3>2, <3>3, <1>c
    <2>3. CASE HistoryLost(s)
        <3>1. cached' = 0 /\ persisted' = persisted /\ writes' = writes \cup {0} /\ at' = at
            BY <2>3 DEF HistoryLost
        <3> HIDE DEF Kept
        <3> QED BY <3>1, <1>c
    <2>4. CASE CloseArrives(s) \/ StreamFails(s) \/ StreamDrops(s)
        <3>1. at' = at /\ UNCHANGED tokens
            BY <2>4 DEF CloseArrives, StreamFails, StreamDrops
        <3> HIDE DEF Kept
        <3> QED BY <3>1, <1>c DEF tokens
    <2> QED BY <1>8, <2>1, <2>2, <2>3, <2>4 DEF Supervise
<1>9. CASE UNCHANGED vars
    BY <1>9, <1>c DEF vars, tokens, Kept
<1> HIDE DEF Kept
<1> QED
    BY <1>1, <1>2, <1>3, <1>4, <1>5, <1>6, <1>7, <1>8, <1>9 DEF Next

\* The inductive invariant holds in every behaviour.
LEMMA Invariance == Spec => []IInv
<1>1. IInv /\ [Next]_vars => IInv'
    BY TypeStep, AccountStep DEF IInv
<1> QED BY InitInvariant, <1>1, PTL DEF Spec

\* The variables of the publisher, its tokens and the oplog stay within their
\* types, however its streams fail and its writes are reordered.
THEOREM PublisherTypes == Spec => []TypeOK
<1>1. IInv => TypeOK
    BY DEF IInv
<1> QED BY Invariance, <1>1, PTL

\* A resume never passes over a report: whatever token the process holds, the
\* store holds or is about to hold, everything up to it was pushed, or was
\* there before a stream that had no token to resume from.
THEOREM ResumeSkipsNothing == Spec => []NothingBehindTheToken
<1>1. IInv => NothingBehindTheToken
    BY DEF IInv
<1> QED BY Invariance, <1>1, PTL

\* A running supervisor is never left deaf: some stream is opening, open or
\* still to be heard of closing, or a reconnect is pending.  And once it is
\* told to stop, no reconnect is.
NeverDeaf ==
    /\ process = "running" => timer \/ \E s \in Streams : phase[s] # "closed"
    /\ process # "running" => ~timer

\* Each error path that closes a stream schedules a reconnect, unless one is
\* pending or the process is stopping; each reconnect opens a stream.
LEMMA DeafStep == TypeOK /\ NeverDeaf /\ [Next]_vars => NeverDeaf'
<1> SUFFICES ASSUME TypeOK, NeverDeaf, [Next]_vars PROVE NeverDeaf'
    OBVIOUS
<1> USE DEF NeverDeaf
<1>1. phase \in [Streams -> {"closed", "opening", "open", "ending"}] /\ timer \in BOOLEAN
    BY DEF TypeOK
<1>2. ASSUME OpenStream(cached')
      PROVE  \E s \in Streams : phase'[s] # "closed"
    BY <1>1, <1>2 DEF OpenStream
<1>3. CASE Boot
    <2>1. \E s \in Streams : phase'[s] # "closed"
        BY <1>2, <1>3 DEF Boot
    <2>2. process' = "running"
        BY <1>3 DEF Boot
    <2> QED BY <2>1, <2>2
<1>4. CASE TimerFires
    <2>1. \E s \in Streams : phase'[s] # "closed"
        BY <1>2, <1>4 DEF TimerFires, tokens
    <2>2. timer' = FALSE
        BY <1>4 DEF TimerFires
    <2> QED BY <2>1, <2>2
<1>5. CASE Stop \/ Exit \/ Crash
    BY <1>5 DEF Stop, Exit, Crash, Gone
<1>6. CASE \/ CommitReport \/ PurgeOplog \/ UNCHANGED vars
           \/ \E t \in 0..MaxReports : PersistLands(t) \/ PersistFails(t)
    BY <1>6 DEF CommitReport, PurgeOplog, PersistLands, PersistFails, vars
<1>7. ASSUME NEW s \in Streams, Ready(s) \/ Change(s)
      PROVE  NeverDeaf'
    <2>1. process' = process /\ timer' = timer
        BY <1>7 DEF Ready, Change
    <2>2. phase' = [phase EXCEPT ![s] = "open"] \/ phase' = phase
        BY <1>7 DEF Ready, Change
    <2>3. (\E q \in Streams : phase[q] # "closed")
            => \E q \in Streams : phase'[q] # "closed"
        BY <1>1, <2>2
    <2> QED BY <2>1, <2>3
<1>8. ASSUME NEW s \in Streams,
             HistoryLost(s) \/ CloseArrives(s) \/ StreamFails(s) \/ StreamDrops(s)
      PROVE  NeverDeaf'
    <2>1. process' = process /\ ScheduleReconnect
        BY <1>8 DEF HistoryLost, CloseArrives, StreamFails, StreamDrops
    <2> QED BY <2>1 DEF ScheduleReconnect
<1> QED
    BY <1>3, <1>4, <1>5, <1>6, <1>7, <1>8 DEF Next, Supervise

\* Whatever fails, and however late a close is heard, the publisher keeps
\* trying: there is always a stream or a pending reconnect to go on from.
THEOREM PublisherKeepsTrying == Spec => []NeverDeaf
<1>1. Init => NeverDeaf
    BY DEF Init, NeverDeaf
<1>2. IInv => TypeOK
    BY DEF IInv
<1> QED BY Invariance, <1>1, <1>2, DeafStep, PTL DEF Spec

------------------------------------------------------------------------------
\* The rows of the outbox.

PassType ==
    [running: {TRUE}, beat: Beats, rows: SUBSET Rows, todo: SUBSET Rows,
     through: SUBSET Providers, marked: SUBSET Rows]

Types ==
    /\ row \in [Rows -> {"absent", "muted", "pending", "delivered"}]
    /\ sent \in [Rows -> SUBSET Providers]
    /\ pass \in PassType \cup {NoPass}

\* A muted row is never in the outbox at all.
MutedStaysOut == \A r \in Muted : row[r] \in {"absent", "muted"}

\* What the handler of the pass in progress has done so far.
PassSound ==
    pass # NoPass =>
        /\ pass.todo \cap Muted = {} /\ pass.marked \cap Muted = {}
        /\ pass.through # Providers
        /\ pass.todo # {} => pass.through \subseteq sent[Min(pass.todo)]
        /\ \A r \in pass.marked : sent[r] = Providers

OutboxInv == Types /\ MutedStaysOut /\ PassSound /\ DeliveredIsSent

------------------------------------------------------------------------------

\* The least number of a set is one of its numbers.
LEMMA MinIsMember ==
    ASSUME NEW S \in SUBSET Nat, S # {}
    PROVE  Min(S) \in S
<1>1. \E x \in S : \A y \in S : ~ (<<y, x>> \in OpToRel(<, Nat))
    BY NatLessThanWellFounded, WFMin
<1>2. \E x \in S : \A y \in S : x =< y
    <2>1. PICK x \in S : \A y \in S : ~ (<<y, x>> \in OpToRel(<, Nat))
        BY <1>1
    <2>2. \A y \in S : ~ (y < x)
        BY <2>1 DEF OpToRel
    <2> QED BY <2>2
<1> QED BY <1>2 DEF Min

\* A running pass is no NoPass.
LEMMA RunningPass ==
    ASSUME Types, pass.running
    PROVE  pass \in PassType /\ pass # NoPass
<1>1. NoPass.running = FALSE
    BY DEF NoPass
<1>2. pass # NoPass
    BY <1>1
<1> QED BY <1>2 DEF Types

\* An outbox without rows, and no pass.
LEMMA OutboxStarts == OutboxInit => OutboxInv
<1> SUFFICES ASSUME OutboxInit PROVE OutboxInv
    OBVIOUS
<1>1. Types
    BY DEF OutboxInit, Types
<1>2. MutedStaysOut /\ PassSound /\ DeliveredIsSent
    BY OutboxAssumption DEF OutboxInit, MutedStaysOut, PassSound, DeliveredIsSent
<1> QED BY <1>1, <1>2 DEF OutboxInv

\* A pass that begins has nothing behind it, and none of the muted rows.
LEMMA StartingPass ==
    ASSUME OutboxInv, NEW b \in Beats
    PROVE  /\ StartPass(b) \in PassType
           /\ StartPass(b).todo \cap Muted = {}
           /\ StartPass(b).through = {} /\ StartPass(b).marked = {}
BY DEF OutboxInv, MutedStaysOut, StartPass, PassType, Fetch, Pending

\* Every step of the outbox keeps the invariant.
LEMMA OutboxStep == OutboxInv /\ [OutboxNext]_outboxVars => OutboxInv'
<1> SUFFICES ASSUME OutboxInv, [OutboxNext]_outboxVars PROVE OutboxInv'
    OBVIOUS
<1> USE OutboxAssumption
<1>t. Types
    BY DEF OutboxInv
\* Steps that touch neither the rows nor the pass.
<1>1. CASE UNCHANGED <<row, sent, pass>>
    BY <1>1 DEF OutboxInv, Types, MutedStaysOut, PassSound, DeliveredIsSent
\* Steps that end the pass without a mark.
<1>2. CASE UNCHANGED <<row, sent>> /\ pass' = NoPass
    BY <1>2 DEF OutboxInv, Types, MutedStaysOut, PassSound, DeliveredIsSent
\* Steps that begin a pass.
<1>3. ASSUME NEW b \in Beats, UNCHANGED <<row, sent>>, pass' = StartPass(b)
      PROVE  OutboxInv'
    <2>1. Types'
        BY <1>t, <1>3, StartingPass DEF Types
    <2>2. PassSound'
        <3>1. /\ pass'.todo \cap Muted = {} /\ pass'.through = {} /\ pass'.marked = {}
            BY <1>3, StartingPass
        <3> QED BY <3>1 DEF PassSound
    <2> QED BY <1>3, <2>1, <2>2 DEF OutboxInv, MutedStaysOut, DeliveredIsSent
<1>4. ASSUME NEW r \in Rows, Enqueue(r) PROVE OutboxInv'
    BY <1>4 DEF Enqueue, OutboxInv, Types, MutedStaysOut, PassSound, DeliveredIsSent
<1>5. CASE Deliver
    <2> DEFINE r == Min(pass.todo)
               p == Min(Providers \ pass.through)
    <2>1. pass \in PassType /\ pass.todo # {} /\ pass # NoPass
        BY <1>t, <1>5, RunningPass DEF Deliver, Busy
    <2>2. r \in pass.todo /\ r \in Rows
        BY <2>1, MinIsMember DEF PassType
    <2>3. p \in Providers \ pass.through
        <3>1. Providers \ pass.through # {}
            BY <2>1 DEF OutboxInv, PassSound, PassType
        <3> QED BY <3>1, MinIsMember
    <2>4. /\ sent' = [sent EXCEPT ![r] = @ \cup {p}]
          /\ row' = row
          /\ pass' = IF Providers \ pass.through = {p}
                     THEN [pass EXCEPT !.todo = @ \ {r}, !.through = {},
                                       !.marked = @ \cup {r}]
                     ELSE [pass EXCEPT !.through = @ \cup {p}]
        BY <1>5 DEF Deliver
    <2>5. pass.through \subseteq sent[r] /\ r \notin Muted
        BY <2>1, <2>2 DEF OutboxInv, PassSound
    <2> HIDE DEF r, p
    <2>6. \A q \in Rows : sent[q] = Providers => sent'[q] = Providers
        BY <1>t, <2>3, <2>4 DEF Types
    <2>7. sent' \in [Rows -> SUBSET Providers] /\ sent'[r] = sent[r] \cup {p}
        BY <1>t, <2>2, <2>3, <2>4 DEF Types
    <2>8. CASE Providers \ pass.through = {p}
        <3>1. /\ pass' \in PassType
              /\ pass'.todo = pass.todo \ {r} /\ pass'.through = {}
              /\ pass'.marked = pass.marked \cup {r}
            BY <2>1, <2>2, <2>4, <2>8 DEF PassType
        <3>2. sent'[r] = Providers
            BY <1>t, <2>2, <2>5, <2>7, <2>8 DEF Types
        <3>3. PassSound'
            BY <2>1, <2>5, <2>6, <3>1, <3>2 DEF OutboxInv, PassSound, PassType
        <3>4. Types'
            BY <1>t, <2>4, <2>7, <3>1 DEF Types
        <3> QED BY <2>4, <2>6, <3>3, <3>4 DEF OutboxInv, MutedStaysOut, DeliveredIsSent, Types
    <2>9. CASE Providers \ pass.through # {p}
        <3>1. /\ pass' \in PassType
              /\ pass'.todo = pass.todo /\ pass'.through = pass.through \cup {p}
              /\ pass'.marked = pass.marked
            BY <2>1, <2>3, <2>4, <2>9 DEF PassType
        <3>2. pass'.through # Providers
            BY <2>3, <2>9, <3>1
        <3>3. pass'.through \subseteq sent'[Min(pass'.todo)]
            BY <2>5, <2>7, <3>1 DEF r
        <3>4. \A q \in pass'.marked : sent'[q] = Providers
            BY <2>1, <2>6, <3>1 DEF OutboxInv, PassSound, PassType
        <3>5. PassSound'
            BY <2>1, <3>1, <3>2, <3>3, <3>4 DEF OutboxInv, PassSound
        <3>6. Types'
            BY <1>t, <2>4, <2>7, <3>1 DEF Types
        <3> QED BY <2>4, <2>6, <3>5, <3>6 DEF OutboxInv, MutedStaysOut, DeliveredIsSent, Types
    <2> QED BY <2>8, <2>9
<1>6. CASE DeliverRejects
    <2>1. pass \in PassType /\ pass # NoPass
        BY <1>t, <1>6, RunningPass DEF DeliverRejects, Busy
    <2>2. /\ pass' \in PassType
          /\ pass'.todo \subseteq pass.todo /\ pass'.through = {}
          /\ pass'.marked = pass.marked
        BY <1>6, <2>1 DEF DeliverRejects, PassType
    <2>3. UNCHANGED <<row, sent>>
        BY <1>6 DEF DeliverRejects
    <2>4. PassSound'
        BY <2>1, <2>2, <2>3 DEF OutboxInv, PassSound
    <2> QED BY <1>t, <2>2, <2>3, <2>4 DEF OutboxInv, Types, MutedStaysOut, DeliveredIsSent
<1>7. CASE Commit
    <2>1. pass \in PassType /\ pass # NoPass
        BY <1>t, <1>7, RunningPass DEF Commit
    <2>2. /\ sent' = sent /\ pass' = NoPass
          /\ row' = [r \in Rows |-> IF r \in pass.marked THEN "delivered" ELSE row[r]]
        BY <1>7 DEF Commit
    <2>3. \A r \in pass.marked : r \notin Muted /\ sent[r] = Providers
        BY <2>1 DEF OutboxInv, PassSound
    <2>4. Types'
        BY <1>t, <2>2 DEF Types
    <2>5. MutedStaysOut' /\ DeliveredIsSent'
        BY <1>t, <2>2, <2>3 DEF OutboxInv, MutedStaysOut, DeliveredIsSent, Types
    <2> QED BY <2>2, <2>4, <2>5 DEF OutboxInv, PassSound
<1>8. CASE Rerun
    <2>1. pass \in PassType
        BY <1>t, <1>8, RunningPass DEF Rerun
    <2> QED BY <1>3, <1>8, <2>1 DEF Rerun, PassType
<1>9. CASE UNCHANGED outboxVars
    BY <1>1, <1>9 DEF outboxVars
<1> QED
    BY <1>1, <1>2, <1>3, <1>4, <1>5, <1>6, <1>7, <1>8, <1>9
    DEF OutboxNext, Step, StartDispatcher, Seed, Claim, Abort, CrashDispatcher,
        RivalLooks, RivalSeeds, DueAtComes

\* A row is delivered only once every provider has sent it, whatever passes
\* were interrupted, rolled back or repeated before, and no muted row ever is.
THEOREM NothingMarkedUnsent == OutboxSpec => []DeliveredIsSent
<1>1. OutboxInv => DeliveredIsSent
    BY DEF OutboxInv
<1> QED BY OutboxStarts, OutboxStep, <1>1, PTL DEF OutboxSpec

------------------------------------------------------------------------------
\* The heartbeat.

\* The event a pass runs for is leased until the pass ends.
PassHolds == pass # NoPass => beat[pass.beat] = "processing"

BeatTypes ==
    /\ beat \in [Beats -> {"none", "due", "later", "processing", "failed"}]
    /\ seeded \in Nat

\* The slots in use, by events live or dead-lettered.
Used == {b \in Beats : beat[b] # "none"}

BeatInv == BeatTypes /\ PassHolds /\ seeded = Cardinality(Used)

\* Every event is live or dead-lettered, none is both.
LEMMA UsedIsLiveOrFailed ==
    ASSUME BeatTypes
    PROVE  Cardinality(Used)
             = Cardinality(Live) + Cardinality({b \in Beats : beat[b] = "failed"})
<1> DEFINE Failed == {b \in Beats : beat[b] = "failed"}
<1>1. Used = Live \cup Failed /\ Live \cap Failed = {}
    BY DEF BeatTypes, Used, Live
<1>2. Live \in SUBSET Beats /\ Failed \in SUBSET Beats
    BY DEF Live
<1>3. IsFiniteSet(Live) /\ IsFiniteSet(Failed)
    BY <1>2, FS_Subset, OutboxAssumption
<1> HIDE DEF Failed
<1>4. Cardinality(Live) \in Nat /\ Cardinality(Failed) \in Nat
    BY <1>3, FS_CardinalityType
<1>5. Cardinality(Live \cup Failed)
        = Cardinality(Live) + Cardinality(Failed) - Cardinality(Live \cap Failed)
    BY <1>3, FS_Union
<1>6. Cardinality(Live \cap Failed) = 0
    BY <1>1, FS_EmptySet, Zenon
<1>7. Cardinality(Used) = Cardinality(Live \cup Failed)
    BY <1>1, Zenon
<1>8. Cardinality(Used) = Cardinality(Live) + Cardinality(Failed)
    BY <1>4, <1>5, <1>6, <1>7
<1> QED BY <1>8 DEF Failed

\* A seeded event takes a slot of its own, and none from a pass.
LEMMA SeedStep ==
    ASSUME BeatInv, Seed, UNCHANGED pass
    PROVE  BeatInv'
<1> DEFINE b == Min(Free)
<1>1. b \in Beats /\ beat[b] = "none"
    <2>1. Free \in SUBSET Nat /\ Free # {}
        BY OutboxAssumption DEF Seed, Free
    <2>2. b \in Free
        BY <2>1, MinIsMember
    <2> QED BY <2>2 DEF Free
<1>2. beat' = [beat EXCEPT ![b] = "due"] /\ seeded' = seeded + 1
    BY DEF Seed
<1> HIDE DEF b
<1>3. BeatTypes' /\ PassHolds'
    BY <1>1, <1>2 DEF BeatInv, BeatTypes, PassHolds
<1>4. Used' = Used \cup {b} /\ b \notin Used
    BY <1>1, <1>2 DEF BeatInv, BeatTypes, Used
<1>5. IsFiniteSet(Used)
    BY FS_Subset, OutboxAssumption DEF Used
<1>6. Cardinality(Used)' = Cardinality(Used) + 1
    BY <1>4, <1>5, FS_AddElement
<1> QED BY <1>2, <1>3, <1>6 DEF BeatInv

\* An event that only changes its place in the loop keeps its slot.
LEMMA TurnStep ==
    ASSUME BeatInv, UNCHANGED seeded, NEW b \in Beats, beat[b] # "none",
           NEW s \in {"due", "later", "processing", "failed"},
           beat' = [beat EXCEPT ![b] = s], PassHolds'
    PROVE  BeatInv'
<1>1. BeatTypes' /\ Used' = Used
    BY DEF BeatInv, BeatTypes, Used
<1> QED BY <1>1 DEF BeatInv

LEMMA BeatStep == OutboxInv /\ BeatInv /\ [OutboxNext]_outboxVars => BeatInv'
<1> SUFFICES ASSUME OutboxInv, BeatInv, [OutboxNext]_outboxVars PROVE BeatInv'
    OBVIOUS
<1>t. Types /\ BeatTypes
    BY DEF OutboxInv, BeatInv
<1>1. CASE UNCHANGED <<beat, seeded, pass>>
    BY <1>1 DEF BeatInv, BeatTypes, PassHolds, Used
<1>2. CASE Seed /\ UNCHANGED pass
    BY <1>2, SeedStep
\* The event of a pass is held while the pass goes on.
<1>3. ASSUME pass.running, UNCHANGED <<beat, seeded>>,
             pass' # NoPass => pass'.beat = pass.beat
      PROVE  BeatInv'
    <2>1. pass # NoPass
        BY <1>3, <1>t, RunningPass
    <2> QED BY <1>3, <2>1 DEF BeatInv, BeatTypes, PassHolds, Used
\* The event of a pass goes to its next place when the pass ends.
<1>4. ASSUME pass.running, UNCHANGED seeded, pass' = NoPass,
             NEW s \in {"due", "later", "failed"},
             beat' = [beat EXCEPT ![pass.beat] = s]
      PROVE  BeatInv'
    <2>1. pass \in PassType /\ beat[pass.beat] = "processing"
        BY <1>3, <1>4, <1>t, RunningPass DEF BeatInv, PassHolds
    <2>2. pass.beat \in Beats
        BY <2>1 DEF PassType
    <2>3. PassHolds'
        BY <1>4 DEF PassHolds
    <2> QED BY <1>4, <2>1, <2>2, <2>3, TurnStep
<1>5. ASSUME NEW b \in Beats, DueAtComes(b) PROVE BeatInv'
    <2>1. /\ UNCHANGED <<seeded, pass>> /\ beat[b] # "none"
          /\ beat' = [beat EXCEPT ![b] = "due"]
        BY <1>5 DEF DueAtComes
    <2>2. PassHolds'
        <3>1. SUFFICES ASSUME pass # NoPass PROVE beat'[pass.beat] = "processing"
            BY <2>1 DEF PassHolds
        <3>2. pass.running /\ beat[pass.beat] = "processing"
            BY <1>t, <3>1 DEF Types, PassType, BeatInv, PassHolds
        <3>3. b # pass.beat
            BY <1>5, <3>2 DEF DueAtComes
        <3> QED BY <1>t, <2>1, <3>2, <3>3 DEF BeatTypes
    <2> QED BY <2>1, <2>2, TurnStep
<1>6. ASSUME NEW b \in Beats, Claim(b) PROVE BeatInv'
    <2>1. /\ UNCHANGED seeded /\ beat[b] # "none" /\ pass' = StartPass(b)
          /\ beat' = [beat EXCEPT ![b] = "processing"]
        BY <1>6 DEF Claim
    <2>2. PassHolds'
        <3>1. pass'.beat = b
            BY <2>1 DEF StartPass
        <3> QED BY <1>t, <2>1, <3>1 DEF BeatTypes, PassHolds
    <2> QED BY <2>1, <2>2, TurnStep
<1>7. CASE Deliver \/ DeliverRejects
    <2>1. pass \in PassType /\ pass.running
        BY <1>t, <1>7, RunningPass DEF Deliver, DeliverRejects, Busy
    <2>2. pass'.beat = pass.beat /\ UNCHANGED <<beat, seeded>>
        BY <1>7, <2>1 DEF Deliver, DeliverRejects, PassType
    <2> QED BY <1>3, <2>1, <2>2
<1>8. CASE Rerun
    <2>1. pass'.beat = pass.beat
        BY <1>8 DEF Rerun, StartPass
    <2> QED BY <1>3, <1>8, <2>1 DEF Rerun
<1>9. CASE Commit \/ Abort
    <2>1. \E s \in {"due", "later", "failed"} : beat' = [beat EXCEPT ![pass.beat] = s]
        BY <1>9 DEF Commit, Successor, Abort
    <2> QED BY <1>4, <1>9, <2>1 DEF Commit, Abort
<1>10. CASE CrashDispatcher
    BY <1>10 DEF CrashDispatcher, BeatInv, BeatTypes, PassHolds, Used
<1>11. CASE StartDispatcher \/ RivalSeeds
    BY <1>1, <1>2, <1>11 DEF StartDispatcher, RivalSeeds
<1> QED
    BY <1>1, <1>5, <1>6, <1>7, <1>8, <1>9, <1>10, <1>11
    DEF OutboxNext, Step, RivalLooks, Enqueue, outboxVars

\* The dispatch event (notification-dispatch.handler.ts) neither dies out nor
\* multiplies: each one a booting process seeded has one descendant, live or
\* dead-lettered, whatever passes crash, abort or run again.
THEOREM HeartbeatsConserved_Always == OutboxSpec => []HeartbeatsConserved
<1>1. OutboxInit => BeatInv
    <2> SUFFICES ASSUME OutboxInit PROVE BeatInv
        OBVIOUS
    <2>1. Used = {} /\ seeded = 0
        BY DEF OutboxInit, Used
    <2> QED BY <2>1, FS_EmptySet DEF OutboxInit, BeatInv, BeatTypes, PassHolds
<1>2. BeatInv => HeartbeatsConserved
    BY UsedIsLiveOrFailed DEF BeatInv, HeartbeatsConserved
<1> QED BY OutboxStarts, OutboxStep, BeatStep, <1>1, <1>2, PTL DEF OutboxSpec

------------------------------------------------------------------------------
\* The world and its settlements.

\* An account's settlements can be counted.
Countable == \A a \in Accounts : IsFiniteSet(HomesOf(a))

\* An account with a settlement carries the stamp of its first one.
Stamped == \A a \in Accounts : HomesOf(a) # {} => a \in protected

\* What a request still knows when it inserts: only players ask; a newcomer's
\* request counted no settlement; one that counted some is of a stamped account.
TaskSound(r) ==
    /\ task[r].at # "idle" => task[r].who \in Accounts
    /\ task[r].at = "creating" /\ Allowed[task[r].who] = 1 => task[r].count = 0
    /\ task[r].at = "creating" /\ task[r].count # 0 => task[r].who \in protected
    /\ task[r].at = "founding" =>
          task[r].who \in protected /\ Allowed[task[r].who] # 1

HomesSound ==
    /\ NewcomersHaveOneHome /\ Countable /\ Stamped
    /\ \A r \in Requests : TaskSound(r)

OnboardingInv == OnboardingTypeOK /\ HomesSound

------------------------------------------------------------------------------

\* A world without settlements or requests.
LEMMA OnboardingStarts == OnboardingInit => OnboardingInv
<1> SUFFICES ASSUME OnboardingInit PROVE OnboardingInv
    OBVIOUS
<1> USE OnboardingAssumption
<1>1. OnboardingTypeOK
    <2>1. Idle \in [at: {"idle", "placing", "placed", "creating", "founding"},
                    who: Accounts \cup {Npc}, tile: Int, count: Nat,
                    attempt: 0..MaxTries]
        BY DEF Idle, Task
    <2>2. task \in [Requests ->
                      [at: {"idle", "placing", "placed", "creating", "founding"},
                       who: Accounts \cup {Npc}, tile: Int, count: Nat,
                       attempt: 0..MaxTries]]
        BY <2>1 DEF OnboardingInit
    <2>3. /\ boot \in [Processes -> {"down", "creating", "seeding", "inserting", "serving"}]
          /\ wanted \in [Processes -> NpcCounts \cup {0}]
          /\ drafts \in [Processes -> SUBSET Tiles]
        BY DEF OnboardingInit
    <2>4. crashes \in 0..MaxCrashes
        BY DEF OnboardingInit
    <2> QED BY <2>2, <2>3, <2>4 DEF OnboardingInit, OnboardingTypeOK
<1>2. \A a \in Accounts : HomesOf(a) = {}
    BY DEF OnboardingInit, HomesOf
<1>3. NewcomersHaveOneHome /\ Countable /\ Stamped
    BY <1>2, FS_EmptySet DEF NewcomersHaveOneHome, Countable, Stamped
<1>4. \A r \in Requests : TaskSound(r)
    BY DEF OnboardingInit, TaskSound, Idle, Task
<1> QED BY <1>1, <1>3, <1>4 DEF OnboardingInv, HomesSound

\* A number of settlements counted for an account: zero exactly when it has
\* none, and zero or one for a newcomer.
LEMMA Counting ==
    ASSUME OnboardingInv, NEW a \in Accounts
    PROVE  /\ Cardinality(HomesOf(a)) \in Nat
           /\ Cardinality(HomesOf(a)) # 0 => a \in protected
           /\ Allowed[a] = 1 => Cardinality(HomesOf(a)) \in {0, 1}
<1>1. IsFiniteSet(HomesOf(a))
    BY DEF OnboardingInv, HomesSound, Countable
<1>2. Cardinality(HomesOf(a)) \in Nat
    BY <1>1, FS_CardinalityType
<1>3. Cardinality(HomesOf(a)) # 0 => a \in protected
    BY FS_EmptySet DEF OnboardingInv, HomesSound, Stamped
<1>4. Allowed[a] = 1 => Cardinality(HomesOf(a)) <= 1
    BY DEF OnboardingInv, HomesSound, NewcomersHaveOneHome
<1> QED BY <1>2, <1>3, <1>4

\* A step that leaves the players' settlements, the stamps and the requests
\* alone keeps the invariant.
LEMMA ServerStep ==
    ASSUME HomesSound, UNCHANGED <<protected, task>>,
           \A a \in Accounts : HomesOf(a)' = HomesOf(a)
    PROVE  HomesSound'
<1>1. NewcomersHaveOneHome' /\ Countable' /\ Stamped'
    BY DEF HomesSound, NewcomersHaveOneHome, Countable, Stamped
<1>2. \A r \in Requests : TaskSound(r)'
    BY DEF HomesSound, TaskSound
<1> QED BY <1>1, <1>2 DEF HomesSound

\* A step of one request that only reads keeps the invariant, if it is sound.
LEMMA ReadingStep ==
    ASSUME OnboardingInv, UNCHANGED <<homes, protected>>, NEW r \in Requests,
           \A q \in Requests \ {r} : task'[q] = task[q], TaskSound(r)'
    PROVE  HomesSound'
<1>1. NewcomersHaveOneHome' /\ Countable' /\ Stamped'
    BY DEF OnboardingInv, HomesSound, NewcomersHaveOneHome, Countable, Stamped, HomesOf
<1>2. ASSUME NEW q \in Requests \ {r} PROVE TaskSound(q)'
    BY <1>2 DEF OnboardingInv, HomesSound, TaskSound
<1> QED BY <1>1, <1>2 DEF HomesSound

\* One settlement more for an account that may have another: a stamped one
\* allowed more than one, or one that had none and is stamped now.
LEMMA AddingStep ==
    ASSUME OnboardingInv, NEW r \in Requests, NEW a \in Accounts, NEW t,
           homes' = homes \cup {<<a, t>>},
           protected \subseteq protected', a \in protected',
           \/ Allowed[a] # 1
           \/ a \notin protected,
           \A q \in Requests \ {r} : task'[q] = task[q], TaskSound(r)'
    PROVE  HomesSound'
<1>1. HomesOf(a)' = HomesOf(a) \cup {<<a, t>>}
    BY DEF HomesOf
<1>2. ASSUME NEW b \in Accounts, b # a PROVE HomesOf(b)' = HomesOf(b)
    BY <1>2 DEF HomesOf
<1>3. Countable'
    <2>1. IsFiniteSet(HomesOf(a)')
        BY <1>1, FS_AddElement DEF OnboardingInv, HomesSound, Countable
    <2> QED BY <1>2, <2>1 DEF OnboardingInv, HomesSound, Countable
<1>4. Stamped'
    BY <1>2 DEF OnboardingInv, HomesSound, Stamped
<1>5. NewcomersHaveOneHome'
    <2>1. ASSUME Allowed[a] = 1 PROVE Cardinality(HomesOf(a)') <= 1
        <3>1. HomesOf(a) = {}
            BY <2>1 DEF OnboardingInv, HomesSound, Stamped
        <3>2. HomesOf(a)' = {<<a, t>>}
            BY <1>1, <3>1
        <3>3. Cardinality({<<a, t>>}) = 1
            BY FS_Singleton
        <3> QED BY <3>2, <3>3
    <2> QED BY <1>2, <2>1 DEF OnboardingInv, HomesSound, NewcomersHaveOneHome
<1>6. ASSUME NEW q \in Requests \ {r} PROVE TaskSound(q)'
    BY <1>6 DEF OnboardingInv, HomesSound, TaskSound
<1> QED BY <1>3, <1>4, <1>5, <1>6 DEF HomesSound

------------------------------------------------------------------------------

Tasks == [at: {"idle", "placing", "placed", "creating", "founding"},
          who: Accounts \cup {Npc}, tile: Int, count: Nat, attempt: 0..MaxTries]

\* The tasks the handlers hold are tasks.
LEMMA TasksTyped ==
    /\ Idle \in Tasks
    /\ \A a \in Accounts, k \in 0..MaxTries : Task("placing", a, 0, 0, k) \in Tasks
    /\ \A a \in Accounts, t \in Tiles, n \in Nat : Task("founding", a, t, n, 0) \in Tasks
BY OnboardingAssumption DEF Idle, Task, Tasks

\* The boot of a process keeps the types, and the players' settlements.
LEMMA BootStep ==
    ASSUME OnboardingInv, NEW p \in Processes, Booting(p) \/ CrashBooting(p)
    PROVE  OnboardingInv'
<1>0. OnboardingTypeOK
    BY DEF OnboardingInv
<1>1. UNCHANGED <<protected, task>>
    BY DEF Booting, BootWorld, CreateWorld, BuildNpcSpecs, ClaimAndInsert, CrashBooting
<1>2. OnboardingTypeOK'
    <2> USE <1>0, OnboardingAssumption
    <2>1. CASE BootWorld(p)
        BY <2>1 DEF BootWorld, OnboardingTypeOK, world
    <2>2. CASE CreateWorld(p)
        <3>1. OasesOf[p] \subseteq Tiles
            OBVIOUS
        <3>2. boot' \in [Processes -> {"down", "creating", "seeding", "inserting", "serving"}]
            BY <2>2 DEF CreateWorld, OnboardingTypeOK
        <3>3. seed' \in Processes \cup {NoSeed} /\ oases' \subseteq Tiles
            BY <2>2, <3>1 DEF CreateWorld, OnboardingTypeOK
        <3> QED BY <2>2, <3>2, <3>3 DEF CreateWorld, OnboardingTypeOK
    <2>3. CASE BuildNpcSpecs(p)
        <3>1. \A T \in NpcTiles(wanted[p]) : T \in SUBSET Tiles
            BY DEF NpcTiles, kSubset
        <3>2. drafts' \in [Processes -> SUBSET Tiles]
            BY <2>3, <3>1 DEF BuildNpcSpecs, OnboardingTypeOK
        <3>3. boot' \in [Processes -> {"down", "creating", "seeding", "inserting", "serving"}]
            BY <2>3 DEF BuildNpcSpecs, OnboardingTypeOK
        <3> QED BY <2>3, <3>2, <3>3 DEF BuildNpcSpecs, OnboardingTypeOK, world
    <2>4. CASE ClaimAndInsert(p)
        <3>1. homes' \subseteq (Accounts \cup {Npc}) \X Int
            <4>1. \A t \in drafts[p] : t \in Int
                BY DEF OnboardingTypeOK
            <4>2. {<<Npc, t>> : t \in drafts[p]} \subseteq (Accounts \cup {Npc}) \X Int
                BY <4>1
            <4>3. homes' \subseteq homes \cup {<<Npc, t>> : t \in drafts[p]}
                BY <2>4 DEF ClaimAndInsert
            <4> QED BY <4>2, <4>3 DEF OnboardingTypeOK
        <3>2. /\ boot' \in [Processes -> {"down", "creating", "seeding", "inserting", "serving"}]
              /\ drafts' \in [Processes -> SUBSET Tiles]
              /\ npcsSeeded' \in BOOLEAN
            BY <2>4 DEF ClaimAndInsert, OnboardingTypeOK
        <3> QED BY <2>4, <3>1, <3>2 DEF ClaimAndInsert, OnboardingTypeOK
    <2>5. CASE CrashBooting(p)
        BY <2>5 DEF CrashBooting, OnboardingTypeOK, world
    <2> QED BY <2>1, <2>2, <2>3, <2>4, <2>5 DEF Booting
<1>3. \A a \in Accounts : HomesOf(a)' = HomesOf(a)
    <2>1. CASE ClaimAndInsert(p)
        <3>1. \/ homes' = homes
              \/ homes' = homes \cup {<<Npc, t>> : t \in drafts[p]}
            BY <2>1 DEF ClaimAndInsert
        <3> QED BY <3>1, OnboardingAssumption DEF HomesOf
    <2>2. CASE ~ClaimAndInsert(p)
        <3>1. homes' = homes
            BY <2>2 DEF Booting, BootWorld, CreateWorld, BuildNpcSpecs, CrashBooting
        <3> QED BY <3>1 DEF HomesOf
    <2> QED BY <2>1, <2>2
<1>4. HomesSound'
    BY <1>1, <1>3, ServerStep DEF OnboardingInv
<1> QED BY <1>2, <1>4 DEF OnboardingInv

\* The steps of a request keep the types.
LEMMA RequestTypes ==
    ASSUME OnboardingTypeOK, \A q \in Requests : TaskSound(q), NEW r \in Requests,
           \/ Handling(r)
           \/ \E a \in Accounts : Request(r, a) \/ \E t \in Tiles : SettlersArrive(r, a, t),
           \A a \in Accounts : Cardinality(HomesOf(a)) \in Nat
    PROVE  /\ OnboardingTypeOK'
           /\ UNCHANGED server
           /\ \A q \in Requests \ {r} : task'[q] = task[q]
<1> USE OnboardingAssumption, TasksTyped
<1>1. task \in [Requests -> Tasks]
    BY DEF OnboardingTypeOK, Tasks
<1>2. task[r].at # "idle" => task[r].who \in Accounts
    BY DEF TaskSound
<1>3. SUFFICES /\ homes' \subseteq (Accounts \cup {Npc}) \X Int
               /\ protected' \subseteq Accounts
               /\ task' \in [Requests -> Tasks]
               /\ \A q \in Requests \ {r} : task'[q] = task[q]
    <2>1. UNCHANGED <<world, server, crashes>>
        BY DEF Handling, FindTile, CountSettlements, CreateSettlement,
               FoundSettlement, Request, SettlersArrive
    <2> QED BY <2>1 DEF OnboardingTypeOK, Tasks, world, server
<1>4. UNCHANGED <<homes, protected>> =>
          homes' \subseteq (Accounts \cup {Npc}) \X Int /\ protected' \subseteq Accounts
    BY DEF OnboardingTypeOK
<1>5. CASE FindTile(r)
    BY <1>1, <1>4, <1>5 DEF FindTile, Tasks
<1>6. CASE CountSettlements(r)
    BY <1>1, <1>2, <1>4, <1>6 DEF CountSettlements, Tasks
<1>7. CASE CreateSettlement(r)
    <2>1. task[r].at = "creating" /\ task[r].who \in Accounts
        BY <1>2, <1>7 DEF CreateSettlement
    <2>2. task' \in [Requests -> Tasks] /\ \A q \in Requests \ {r} : task'[q] = task[q]
        <3>1. CASE Collides(r) /\ Retry(r)
            <4>1. task[r].attempt \in 0..MaxTries
                BY <1>1 DEF Tasks
            <4>2. CASE task[r].attempt < MaxTries
                <5> DEFINE v == Task("placing", task[r].who, 0, 0, task[r].attempt + 1)
                <5>1. v \in Tasks
                    BY <2>1, <4>1, <4>2
                <5>2. task' = [task EXCEPT ![r] = v]
                    BY <1>1, <3>1, <4>2 DEF Retry
                <5> QED BY <1>1, <5>1, <5>2
            <4>3. CASE ~(task[r].attempt < MaxTries)
                <5>1. task' = [task EXCEPT ![r] = Idle]
                    BY <3>1, <4>3 DEF Retry
                <5> QED BY <1>1, <5>1
            <4> QED BY <4>2, <4>3
        <3>2. CASE task' = [task EXCEPT ![r].at = "placed"]
            BY <1>1, <3>2 DEF Tasks
        <3>3. CASE task' = [task EXCEPT ![r] = Idle]
            BY <1>1, <3>3
        <3> QED BY <1>7, <3>1, <3>2, <3>3 DEF CreateSettlement
    <2>3. homes' \subseteq homes \cup {<<task[r].who, task[r].tile>>}
        BY <1>7 DEF CreateSettlement
    <2>4. <<task[r].who, task[r].tile>> \in (Accounts \cup {Npc}) \X Int
        BY <1>1, <2>1 DEF Tasks
    <2>5. protected' \subseteq protected \cup {task[r].who}
        BY <1>7 DEF CreateSettlement
    <2> QED BY <2>1, <2>2, <2>3, <2>4, <2>5 DEF OnboardingTypeOK
<1>8. CASE FoundSettlement(r)
    <2>1. homes' \subseteq homes \cup {<<task[r].who, task[r].tile>>}
        BY <1>8 DEF FoundSettlement
    <2>2. <<task[r].who, task[r].tile>> \in (Accounts \cup {Npc}) \X Int
        BY <1>1 DEF Tasks
    <2>3. homes' \subseteq (Accounts \cup {Npc}) \X Int
        BY <2>1, <2>2 DEF OnboardingTypeOK
    <2> QED BY <1>1, <1>8, <2>3 DEF FoundSettlement, OnboardingTypeOK
<1>9. ASSUME NEW a \in Accounts, Request(r, a)
      PROVE  /\ UNCHANGED <<homes, protected>>
             /\ task' \in [Requests -> Tasks]
             /\ \A q \in Requests \ {r} : task'[q] = task[q]
    BY <1>1, <1>9 DEF Request
<1>10. ASSUME NEW a \in Accounts, NEW t \in Tiles, SettlersArrive(r, a, t)
       PROVE  /\ UNCHANGED <<homes, protected>>
              /\ task' \in [Requests -> Tasks]
              /\ \A q \in Requests \ {r} : task'[q] = task[q]
    <2>1. \E v \in Tasks : task' = [task EXCEPT ![r] = v]
        BY <1>10 DEF SettlersArrive
    <2> QED BY <1>1, <1>10, <2>1 DEF SettlersArrive
<1> QED BY <1>4, <1>5, <1>6, <1>7, <1>8, <1>9, <1>10 DEF Handling

\* A step of a request keeps the invariant.
LEMMA RequestStep ==
    ASSUME OnboardingInv, NEW r \in Requests,
           \/ Handling(r)
           \/ \E a \in Accounts : Request(r, a) \/ \E t \in Tiles : SettlersArrive(r, a, t)
    PROVE  OnboardingInv'
<1> USE OnboardingAssumption
<1>1. /\ OnboardingTypeOK'
      /\ \A q \in Requests \ {r} : task'[q] = task[q]
    BY Counting, RequestTypes DEF OnboardingInv, HomesSound
<1>2. task \in [Requests -> Tasks] /\ TaskSound(r)
    BY DEF OnboardingInv, HomesSound, OnboardingTypeOK, Tasks
<1>3. ASSUME UNCHANGED <<homes, protected>>, TaskSound(r)' PROVE HomesSound'
    BY <1>1, <1>3, ReadingStep
<1>4. ASSUME task'[r] = Idle PROVE TaskSound(r)'
    BY <1>4 DEF TaskSound, Idle, Task
<1>5. CASE FindTile(r)
    <2>1. \/ task'[r] = Idle
          \/ task'[r].at = "placed" /\ task'[r].who = task[r].who
        BY <1>2, <1>5 DEF FindTile, Tasks
    <2>2. task[r].who \in Accounts
        BY <1>2, <1>5 DEF FindTile, TaskSound
    <2>3. TaskSound(r)'
        BY <1>4, <2>1, <2>2 DEF TaskSound
    <2> QED BY <1>1, <1>3, <1>5, <2>3 DEF FindTile, OnboardingInv
<1>6. CASE CountSettlements(r)
    <2> DEFINE a == task[r].who
               n == Cardinality(HomesOf(a))
    <2>1. a \in Accounts
        BY <1>2, <1>6 DEF CountSettlements, TaskSound
    <2>2. /\ n \in Nat /\ (n # 0 => a \in protected)
          /\ Allowed[a] = 1 => n \in {0, 1}
        BY <2>1, Counting
    <2>3. CASE task' = [task EXCEPT ![r] = Idle]
        BY <1>1, <1>2, <1>3, <1>4, <1>6, <2>3 DEF CountSettlements, OnboardingInv
    <2>4. CASE /\ ~(n >= Limit(a, n))
               /\ task' = [task EXCEPT ![r].at = "creating", ![r].count = n]
        <3>1. /\ task'[r].at = "creating" /\ task'[r].count = n
              /\ task'[r].who = a
            BY <1>2, <2>4 DEF Tasks
        <3>2. Allowed[a] = 1 => n = 0
            BY <2>2, <2>4 DEF Limit
        <3>3. protected' = protected
            BY <1>6 DEF CountSettlements
        <3> HIDE DEF a, n
        <3>4. TaskSound(r)'
            BY <2>1, <2>2, <3>1, <3>2, <3>3 DEF TaskSound
        <3> QED BY <1>1, <1>3, <1>6, <3>4 DEF CountSettlements, OnboardingInv
    <2> QED BY <1>6, <2>3, <2>4 DEF CountSettlements
<1>7. CASE CreateSettlement(r)
    <2>1. /\ task[r].at = "creating" /\ task[r].who \in Accounts
          /\ task[r].count # 0 => task[r].who \in protected
          /\ Allowed[task[r].who] = 1 => task[r].count = 0
        BY <1>2, <1>7 DEF CreateSettlement, TaskSound
    <2>2. CASE Retry(r) /\ UNCHANGED <<homes, protected>>
        <3>1. \/ task'[r] = Idle
              \/ task'[r].at = "placing" /\ task'[r].who = task[r].who
            BY <1>2, <2>2 DEF Retry, Task
        <3>2. TaskSound(r)'
            BY <1>4, <2>1, <3>1 DEF TaskSound
        <3> QED BY <1>1, <1>3, <2>2, <3>2 DEF OnboardingInv
    <2>3. CASE task' = [task EXCEPT ![r].at = "placed"] /\ UNCHANGED <<homes, protected>>
        <3>1. task'[r].at = "placed" /\ task'[r].who = task[r].who
            BY <1>2, <2>3 DEF Tasks
        <3>2. TaskSound(r)'
            BY <2>1, <3>1 DEF TaskSound
        <3> QED BY <1>1, <1>3, <2>3, <3>2 DEF OnboardingInv
    <2>4. CASE /\ ~(task[r].count = 0 /\ task[r].who \in protected)
               /\ homes' = homes \cup {<<task[r].who, task[r].tile>>}
               /\ protected' = IF task[r].count = 0
                               THEN protected \cup {task[r].who} ELSE protected
               /\ task' = [task EXCEPT ![r] = Idle]
        <3>1. TaskSound(r)'
            BY <1>2, <1>4, <2>4
        <3>2. protected \subseteq protected' /\ task[r].who \in protected'
            BY <2>1, <2>4
        <3>3. Allowed[task[r].who] # 1 \/ task[r].who \notin protected
            BY <2>1, <2>4
        <3> QED BY <1>1, <2>1, <2>4, <3>1, <3>2, <3>3, AddingStep DEF OnboardingInv
    <2> QED BY <1>7, <2>2, <2>3, <2>4 DEF CreateSettlement
<1>8. CASE FoundSettlement(r)
    <2>1. task'[r] = Idle /\ protected' = protected
        BY <1>2, <1>8 DEF FoundSettlement
    <2>2. CASE homes' = homes
        BY <1>1, <1>3, <1>4, <2>1, <2>2 DEF OnboardingInv
    <2>3. CASE homes' = homes \cup {<<task[r].who, task[r].tile>>}
        <3>1. /\ task[r].who \in Accounts /\ task[r].who \in protected
              /\ Allowed[task[r].who] # 1
            BY <1>2, <1>8 DEF FoundSettlement, TaskSound
        <3> QED BY <1>1, <1>4, <2>1, <2>3, <3>1, AddingStep DEF OnboardingInv
    <2> QED BY <1>8, <2>2, <2>3 DEF FoundSettlement
<1>9. ASSUME NEW a \in Accounts, Request(r, a) PROVE OnboardingInv'
    <2>1. task'[r].at = "placing" /\ task'[r].who = a
        BY <1>2, <1>9 DEF Request, Task
    <2>2. TaskSound(r)'
        BY <2>1 DEF TaskSound
    <2> QED BY <1>1, <1>3, <1>9, <2>2 DEF Request, OnboardingInv
<1>10. ASSUME NEW a \in Accounts, NEW t \in Tiles, SettlersArrive(r, a, t)
       PROVE  OnboardingInv'
    <2> DEFINE n == Cardinality(HomesOf(a))
    <2>1. n \in Nat /\ n > 0 /\ a \in protected /\ (Allowed[a] = 1 => n = 1)
        BY <1>10, Counting DEF SettlersArrive
    <2>2. CASE task'[r] = Idle
        BY <1>1, <1>3, <1>4, <1>10, <2>2 DEF SettlersArrive, OnboardingInv
    <2>3. CASE n < Limit(a, n) /\ task'[r] = Task("founding", a, t, n, 0)
        <3>1. Allowed[a] # 1
            BY <2>1, <2>3 DEF Limit
        <3>2. task'[r].at = "founding" /\ task'[r].who = a
            BY <2>3 DEF Task
        <3>3. protected' = protected
            BY <1>10 DEF SettlersArrive
        <3>4. TaskSound(r)'
            BY <2>1, <3>1, <3>2, <3>3 DEF TaskSound
        <3> QED BY <1>1, <1>3, <1>10, <3>4 DEF SettlersArrive, OnboardingInv
    <2> QED BY <1>2, <1>10, <2>2, <2>3 DEF SettlersArrive
<1> QED BY <1>5, <1>6, <1>7, <1>8, <1>9, <1>10 DEF Handling

\* The inductive invariant holds in every behaviour.
LEMMA OnboardingInvariance == OnboardingSpec => []OnboardingInv
<1>1. OnboardingInv /\ [OnboardingNext]_onboardingVars => OnboardingInv'
    <2> SUFFICES ASSUME OnboardingInv, [OnboardingNext]_onboardingVars PROVE OnboardingInv'
        OBVIOUS
    <2>1. CASE UNCHANGED onboardingVars
        BY <2>1 DEF onboardingVars, world, server, OnboardingInv, OnboardingTypeOK, HomesSound, TaskSound,
                    NewcomersHaveOneHome, Countable, Stamped, HomesOf
    <2>2. CASE OnboardingNext
        BY <2>2, BootStep, RequestStep DEF OnboardingNext
    <2> QED BY <2>1, <2>2
<1> QED BY OnboardingStarts, <1>1, PTL DEF OnboardingSpec

\* The world, its settlements and the requests in hand stay within their types.
THEOREM OnboardingTypes == OnboardingSpec => []OnboardingTypeOK
<1>1. OnboardingInv => OnboardingTypeOK
    BY DEF OnboardingInv
<1> QED BY OnboardingInvariance, <1>1, PTL

\* However many requests race, retry and conflict, and wherever settlers
\* arrive, a newcomer is never given two settlements.
THEOREM OneHomeForNewcomers == OnboardingSpec => []NewcomersHaveOneHome
<1>1. OnboardingInv => NewcomersHaveOneHome
    BY DEF OnboardingInv, HomesSound
<1> QED BY OnboardingInvariance, <1>1, PTL

------------------------------------------------------------------------------
\* The world and its NPCs.

\* A full set of NPCs, as one of the processes was told to seed.
FullSet(S) == IsFiniteSet(S) /\ Cardinality(S) \in NpcCounts \ {0}

\* The oases are the seed's, the NPCs are seeded or none is there, and the
\* specs a process is about to insert are a full set.
SeedingSound ==
    /\ oases = IF seed = NoSeed THEN {} ELSE OasesOf[seed]
    /\ IF npcsSeeded THEN FullSet(HomesOf(Npc)) ELSE HomesOf(Npc) = {}
    /\ \A p \in Processes : boot[p] = "inserting" => FullSet(drafts[p])

\* As many settlements as there are specs, each on its tile.
LEMMA OneHomeEach ==
    ASSUME NEW D, FullSet(D)
    PROVE  FullSet({<<Npc, t>> : t \in D})
<1> DEFINE H == {<<Npc, t>> : t \in D}
           f == [t \in D |-> <<Npc, t>>]
<1>1. f \in Bijection(D, H)
    <2>1. \A t, u \in D : <<Npc, t>> = <<Npc, u>> => t = u
        OBVIOUS
    <2>2. f \in [D -> H] /\ (\A h \in H : \E t \in D : f[t] = h)
        OBVIOUS
    <2>3. \A t, u \in D : f[t] = f[u] => t = u
        BY <2>1
    <2> HIDE DEF f, H
    <2> QED BY <2>2, <2>3 DEF Bijection, Injection, Surjection, IsInjective
<1>2. ExistsBijection(D, H)
    BY <1>1 DEF ExistsBijection
<1>3. IsFiniteSet(H) /\ Cardinality(H) = Cardinality(D)
    BY <1>2, FS_Bijection DEF FullSet
<1> QED BY <1>3 DEF FullSet

\* What the seeder draws is a full set, of as many as it was told.
LEMMA DrawsAreFull ==
    ASSUME OnboardingTypeOK, NEW p \in Processes, wanted[p] # 0, NEW T \in NpcTiles(wanted[p])
    PROVE  FullSet(T)
<1>1. T \in SUBSET Tiles /\ Cardinality(T) = wanted[p]
    BY DEF NpcTiles, kSubset
<1>2. IsFiniteSet(T)
    BY <1>1, FS_Subset, OnboardingAssumption
<1> QED BY <1>1, <1>2 DEF FullSet, OnboardingTypeOK

\* A boot creates one world and seeds it once.
LEMMA BootSeeds ==
    ASSUME OnboardingTypeOK, SeedingSound, NEW p \in Processes, Booting(p) \/ CrashBooting(p)
    PROVE  SeedingSound'
<1> USE OnboardingAssumption
<1>1. CASE BootWorld(p) \/ CrashBooting(p)
    <2>1. /\ UNCHANGED <<world, homes>>
          /\ \A q \in Processes : boot'[q] = "inserting" =>
                boot[q] = "inserting" /\ drafts'[q] = drafts[q]
        BY <1>1 DEF BootWorld, CrashBooting, OnboardingTypeOK
    <2> QED BY <2>1 DEF SeedingSound, world, HomesOf
<1>2. CASE CreateWorld(p)
    <2>1. /\ UNCHANGED <<npcsSeeded, homes, drafts>>
          /\ \A q \in Processes : boot'[q] = "inserting" => boot[q] = "inserting"
        BY <1>2 DEF CreateWorld, OnboardingTypeOK
    <2>2. (oases = IF seed = NoSeed THEN {} ELSE OasesOf[seed])'
        BY <1>2 DEF CreateWorld, SeedingSound
    <2> QED BY <2>1, <2>2 DEF SeedingSound, HomesOf
<1>3. CASE BuildNpcSpecs(p)
    <2>1. UNCHANGED <<world, homes>>
        BY <1>3 DEF BuildNpcSpecs
    <2>2. ASSUME NEW q \in Processes, boot'[q] = "inserting"
          PROVE  FullSet(drafts'[q])
        <3>1. CASE q # p
            BY <1>3, <2>2, <3>1 DEF BuildNpcSpecs, OnboardingTypeOK, SeedingSound
        <3>2. CASE q = p
            <4>1. wanted[p] # 0 /\ \E T \in NpcTiles(wanted[p]) :
                      drafts' = [drafts EXCEPT ![p] = T]
                BY <1>3, <2>2, <3>2 DEF BuildNpcSpecs, OnboardingTypeOK
            <4> QED BY <3>2, <4>1, DrawsAreFull DEF OnboardingTypeOK
        <3> QED BY <3>1, <3>2
    <2> QED BY <2>1, <2>2 DEF SeedingSound, world, HomesOf
<1>4. CASE ClaimAndInsert(p)
    <2>1. /\ UNCHANGED <<seed, oases>>
          /\ \A q \in Processes : boot'[q] = "inserting" =>
                boot[q] = "inserting" /\ drafts'[q] = drafts[q]
        BY <1>4 DEF ClaimAndInsert, OnboardingTypeOK
    <2>2. (IF npcsSeeded THEN FullSet(HomesOf(Npc)) ELSE HomesOf(Npc) = {})'
        <3>1. CASE UNCHANGED <<npcsSeeded, homes>>
            BY <3>1 DEF SeedingSound, HomesOf
        <3>2. CASE /\ ~npcsSeeded /\ npcsSeeded'
                   /\ homes' = homes \cup {<<Npc, t>> : t \in drafts[p]}
            <4>1. HomesOf(Npc)' = {<<Npc, t>> : t \in drafts[p]}
                BY <3>2 DEF SeedingSound, HomesOf
            <4>2. FullSet(drafts[p])
                BY <1>4 DEF ClaimAndInsert, SeedingSound
            <4> QED BY <3>2, <4>1, <4>2, OneHomeEach
        <3> QED BY <1>4, <3>1, <3>2 DEF ClaimAndInsert, OnboardingTypeOK
    <2> QED BY <2>1, <2>2 DEF SeedingSound
<1> QED BY <1>1, <1>2, <1>3, <1>4 DEF Booting

\* A request touches neither the world nor the NPCs.
LEMMA RequestSeedsNothing ==
    ASSUME OnboardingInv, SeedingSound, NEW r \in Requests,
           \/ Handling(r)
           \/ \E a \in Accounts : Request(r, a) \/ \E t \in Tiles : SettlersArrive(r, a, t)
    PROVE  SeedingSound'
<1>1. UNCHANGED <<world, server>>
    BY DEF Handling, FindTile, CountSettlements, CreateSettlement, FoundSettlement,
           Request, SettlersArrive
<1>2. \/ homes' = homes
      \/ /\ task[r].who \in Accounts
         /\ homes' = homes \cup {<<task[r].who, task[r].tile>>}
    <2>1. task[r].at # "idle" => task[r].who \in Accounts
        BY DEF OnboardingInv, HomesSound, TaskSound
    <2>2. CASE CreateSettlement(r)
        BY <2>1, <2>2 DEF CreateSettlement
    <2>3. CASE FoundSettlement(r)
        BY <2>1, <2>3 DEF FoundSettlement
    <2> QED BY <2>2, <2>3 DEF Handling, FindTile, CountSettlements, Request, SettlersArrive
<1>3. HomesOf(Npc)' = HomesOf(Npc)
    BY <1>2, OnboardingAssumption DEF HomesOf
<1> QED BY <1>1, <1>3 DEF SeedingSound, world, server

\* Processes boot, crash and boot again, side by side: the world keeps the
\* oases of the seed that won, and the NPCs are inserted in full exactly once
\* (WorldService.createWorld, NpcSeederService.claimAndInsert).
THEOREM OneWorldOneSeeding_Always == OnboardingSpec => []OneWorldOneSeeding
<1>1. OnboardingInit => SeedingSound
    BY DEF OnboardingInit, SeedingSound, HomesOf
<1>2. OnboardingInv /\ SeedingSound /\ [OnboardingNext]_onboardingVars => SeedingSound'
    <2> SUFFICES ASSUME OnboardingInv, SeedingSound, [OnboardingNext]_onboardingVars
                 PROVE  SeedingSound'
        OBVIOUS
    <2>1. CASE UNCHANGED onboardingVars
        BY <2>1 DEF onboardingVars, world, server, SeedingSound, HomesOf
    <2>2. CASE OnboardingNext
        BY <2>2, BootSeeds, RequestSeedsNothing DEF OnboardingNext, OnboardingInv
    <2> QED BY <2>1, <2>2
<1>3. SeedingSound => OneWorldOneSeeding
    BY FS_EmptySet DEF SeedingSound, OneWorldOneSeeding, FullSet
<1> QED BY OnboardingInvariance, <1>1, <1>2, <1>3, PTL DEF OnboardingSpec

------------------------------------------------------------------------------
\* The catalogue and the formulas.

\* What the formulas read of a building's row, and of a unit's.
Sound(entry) ==
    /\ entry.family \in {"resource", "functional"}
    /\ entry.cost \in [RESOURCE_KINDS -> Nat] /\ entry.sec \in Nat /\ entry.eats \in Nat
Fit(entry) == entry.cost \in [RESOURCE_KINDS -> Nat] /\ entry.sec \in Nat /\ entry.eats \in Nat

LEMMA ProducersSound ==
    /\ DOMAIN Producers = {"scrapYard", "fuelRefinery", "electronicsWorkshop", "greenhouseFarm"}
    /\ \A t \in DOMAIN Producers : Sound(Producers[t])
<1>1. DOMAIN Producers = {"scrapYard", "fuelRefinery", "electronicsWorkshop", "greenhouseFarm"}
  BY DEF Producers
<1>2. Sound(Producers["scrapYard"])
  BY DEF Producers, Row, Bundle, Sound, RESOURCE_KINDS
<1>3. Sound(Producers["fuelRefinery"])
  BY DEF Producers, Row, Bundle, Sound, RESOURCE_KINDS
<1>4. Sound(Producers["electronicsWorkshop"])
  BY DEF Producers, Row, Bundle, Sound, RESOURCE_KINDS
<1>5. Sound(Producers["greenhouseFarm"])
  BY DEF Producers, Row, Bundle, Sound, RESOURCE_KINDS
<1>. QED
  BY <1>1, <1>2, <1>3, <1>4, <1>5

LEMMA FacilitiesSound ==
    /\ DOMAIN Facilities = {"commandCenter", "warehouse", "coldStorage", "hiddenCache", "wall"}
    /\ \A t \in DOMAIN Facilities : Sound(Facilities[t])
<1>1. DOMAIN Facilities = {"commandCenter", "warehouse", "coldStorage", "hiddenCache", "wall"}
  BY DEF Facilities
<1>2. Sound(Facilities["commandCenter"])
  BY DEF Facilities, Row, Bundle, Sound, RESOURCE_KINDS
<1>3. Sound(Facilities["warehouse"])
  BY DEF Facilities, Row, Bundle, Sound, RESOURCE_KINDS
<1>4. Sound(Facilities["coldStorage"])
  BY DEF Facilities, Row, Bundle, Sound, RESOURCE_KINDS
<1>5. Sound(Facilities["hiddenCache"])
  BY DEF Facilities, Row, Bundle, Sound, RESOURCE_KINDS
<1>6. Sound(Facilities["wall"])
  BY DEF Facilities, Row, Bundle, Sound, RESOURCE_KINDS
<1>. QED
  BY <1>1, <1>2, <1>3, <1>4, <1>5, <1>6

LEMMA InstitutionsSound ==
    /\ DOMAIN Institutions = {"barracks", "market", "machineShop", "radioTower"}
    /\ \A t \in DOMAIN Institutions : Sound(Institutions[t])
<1>1. DOMAIN Institutions = {"barracks", "market", "machineShop", "radioTower"}
  BY DEF Institutions
<1>2. Sound(Institutions["barracks"])
  BY DEF Institutions, Row, Bundle, Sound, RESOURCE_KINDS
<1>3. Sound(Institutions["market"])
  BY DEF Institutions, Row, Bundle, Sound, RESOURCE_KINDS
<1>4. Sound(Institutions["machineShop"])
  BY DEF Institutions, Row, Bundle, Sound, RESOURCE_KINDS
<1>5. Sound(Institutions["radioTower"])
  BY DEF Institutions, Row, Bundle, Sound, RESOURCE_KINDS
<1>. QED
  BY <1>1, <1>2, <1>3, <1>4, <1>5

LEMMA RaidersFit ==
    /\ DOMAIN Raiders = {"brute", "torcher", "lookout", "biker", "ramTruck"}
    /\ \A t \in DOMAIN Raiders : Fit(Raiders[t])
<1>1. DOMAIN Raiders = {"brute", "torcher", "lookout", "biker", "ramTruck"}
  BY DEF Raiders
<1>2. Fit(Raiders["brute"])
  BY DEF Raiders, Soldier, emptyResources, Bundle, Fit, RESOURCE_KINDS
<1>3. Fit(Raiders["torcher"])
  BY DEF Raiders, Soldier, emptyResources, Bundle, Fit, RESOURCE_KINDS
<1>4. Fit(Raiders["lookout"])
  BY DEF Raiders, Soldier, emptyResources, Bundle, Fit, RESOURCE_KINDS
<1>5. Fit(Raiders["biker"])
  BY DEF Raiders, Soldier, emptyResources, Bundle, Fit, RESOURCE_KINDS
<1>6. Fit(Raiders["ramTruck"])
  BY DEF Raiders, Soldier, emptyResources, Bundle, Fit, RESOURCE_KINDS
<1>. QED
  BY <1>1, <1>2, <1>3, <1>4, <1>5, <1>6

LEMMA EngineersFit ==
    /\ DOMAIN Engineers = {"exoTrooper", "bulwark", "surveyorDrone", "armoredQuad", "railSling"}
    /\ \A t \in DOMAIN Engineers : Fit(Engineers[t])
<1>1. DOMAIN Engineers = {"exoTrooper", "bulwark", "surveyorDrone", "armoredQuad", "railSling"}
  BY DEF Engineers
<1>2. Fit(Engineers["exoTrooper"])
  BY DEF Engineers, Soldier, emptyResources, Bundle, Fit, RESOURCE_KINDS
<1>3. Fit(Engineers["bulwark"])
  BY DEF Engineers, Soldier, emptyResources, Bundle, Fit, RESOURCE_KINDS
<1>4. Fit(Engineers["surveyorDrone"])
  BY DEF Engineers, Soldier, emptyResources, Bundle, Fit, RESOURCE_KINDS
<1>5. Fit(Engineers["armoredQuad"])
  BY DEF Engineers, Soldier, emptyResources, Bundle, Fit, RESOURCE_KINDS
<1>6. Fit(Engineers["railSling"])
  BY DEF Engineers, Soldier, emptyResources, Bundle, Fit, RESOURCE_KINDS
<1>. QED
  BY <1>1, <1>2, <1>3, <1>4, <1>5, <1>6

LEMMA NomadsFit ==
    /\ DOMAIN Nomads = {"skirmisher", "hunterSniper", "falconer", "duneBuggy", "ballistaWagon"}
    /\ \A t \in DOMAIN Nomads : Fit(Nomads[t])
<1>1. DOMAIN Nomads = {"skirmisher", "hunterSniper", "falconer", "duneBuggy", "ballistaWagon"}
  BY DEF Nomads
<1>2. Fit(Nomads["skirmisher"])
  BY DEF Nomads, Soldier, emptyResources, Bundle, Fit, RESOURCE_KINDS
<1>3. Fit(Nomads["hunterSniper"])
  BY DEF Nomads, Soldier, emptyResources, Bundle, Fit, RESOURCE_KINDS
<1>4. Fit(Nomads["falconer"])
  BY DEF Nomads, Soldier, emptyResources, Bundle, Fit, RESOURCE_KINDS
<1>5. Fit(Nomads["duneBuggy"])
  BY DEF Nomads, Soldier, emptyResources, Bundle, Fit, RESOURCE_KINDS
<1>6. Fit(Nomads["ballistaWagon"])
  BY DEF Nomads, Soldier, emptyResources, Bundle, Fit, RESOURCE_KINDS
<1>. QED
  BY <1>1, <1>2, <1>3, <1>4, <1>5, <1>6

LEMMA NeutralFit ==
    /\ DOMAIN Neutral = {"settler", "feralDog", "scavengerGang"}
    /\ \A t \in DOMAIN Neutral : Fit(Neutral[t])
<1>1. DOMAIN Neutral = {"settler", "feralDog", "scavengerGang"}
  BY DEF Neutral
<1>2. Fit(Neutral["settler"])
  BY DEF Neutral, Soldier, emptyResources, Bundle, Fit, RESOURCE_KINDS
<1>3. Fit(Neutral["feralDog"])
  BY DEF Neutral, Soldier, emptyResources, Bundle, Fit, RESOURCE_KINDS
<1>4. Fit(Neutral["scavengerGang"])
  BY DEF Neutral, Soldier, emptyResources, Bundle, Fit, RESOURCE_KINDS
<1>. QED
  BY <1>1, <1>2, <1>3, <1>4
LEMMA OverIs ==
    ASSUME NEW f, NEW g
    PROVE  /\ DOMAIN Over(f, g) = DOMAIN f \cup DOMAIN g
           /\ \A x \in DOMAIN f : Over(f, g)[x] = f[x]
           /\ \A x \in DOMAIN g \ DOMAIN f : Over(f, g)[x] = g[x]
BY DEF Over

LEMMA BuildingsSound ==
    /\ DOMAIN Producers \subseteq BUILDING_TYPES
    /\ BUILDING_TYPES = DOMAIN Producers \cup DOMAIN Facilities \cup DOMAIN Institutions
    /\ \A t \in BUILDING_TYPES : Sound(Buildings[t])
<1>. DEFINE rest == Over(Facilities, Institutions)
<1>1. /\ DOMAIN rest = DOMAIN Facilities \cup DOMAIN Institutions
      /\ \A t \in DOMAIN rest : Sound(rest[t])
  <2>1. /\ DOMAIN rest = DOMAIN Facilities \cup DOMAIN Institutions
        /\ \A x \in DOMAIN Facilities : rest[x] = Facilities[x]
        /\ \A x \in DOMAIN Institutions \ DOMAIN Facilities : rest[x] = Institutions[x]
    BY OverIs
  <2>. HIDE DEF rest
  <2>. QED
    BY <2>1, FacilitiesSound, InstitutionsSound
<1>. HIDE DEF rest
<1>2. Buildings = Over(Producers, rest)
  BY DEF Buildings, rest
<1>3. /\ DOMAIN Over(Producers, rest) = DOMAIN Producers \cup DOMAIN rest
      /\ \A x \in DOMAIN Producers : Over(Producers, rest)[x] = Producers[x]
      /\ \A x \in DOMAIN rest \ DOMAIN Producers : Over(Producers, rest)[x] = rest[x]
  BY OverIs
<1>. QED
  <2>1. /\ DOMAIN Buildings = DOMAIN Producers \cup DOMAIN rest
        /\ \A x \in DOMAIN Producers : Buildings[x] = Producers[x]
        /\ \A x \in DOMAIN rest \ DOMAIN Producers : Buildings[x] = rest[x]
    BY <1>2, <1>3
  <2>. QED
    BY <1>1, <2>1, ProducersSound DEF BUILDING_TYPES

LEMMA UnitsFit ==
    /\ UNIT_TYPES = (DOMAIN Raiders \cup DOMAIN Engineers) \cup (DOMAIN Nomads \cup DOMAIN Neutral)
    /\ \A u \in UNIT_TYPES : Fit(Units[u])
<1>. DEFINE a == Over(Raiders, Engineers)
            b == Over(Nomads, Neutral)
<1>1. DOMAIN a = DOMAIN Raiders \cup DOMAIN Engineers /\ \A u \in DOMAIN a : Fit(a[u])
  <2>1. /\ DOMAIN a = DOMAIN Raiders \cup DOMAIN Engineers
        /\ \A x \in DOMAIN Raiders : a[x] = Raiders[x]
        /\ \A x \in DOMAIN Engineers \ DOMAIN Raiders : a[x] = Engineers[x]
    BY OverIs
  <2>. HIDE DEF a, b
  <2>. QED
    BY <2>1, RaidersFit, EngineersFit
<1>2. DOMAIN b = DOMAIN Nomads \cup DOMAIN Neutral /\ \A u \in DOMAIN b : Fit(b[u])
  <2>1. /\ DOMAIN b = DOMAIN Nomads \cup DOMAIN Neutral
        /\ \A x \in DOMAIN Nomads : b[x] = Nomads[x]
        /\ \A x \in DOMAIN Neutral \ DOMAIN Nomads : b[x] = Neutral[x]
    BY OverIs
  <2>. HIDE DEF a, b
  <2>. QED
    BY <2>1, NomadsFit, NeutralFit
<1>. HIDE DEF a, b
<1>3. Units = Over(a, b)
  BY DEF Units, a, b
<1>4. /\ DOMAIN Over(a, b) = DOMAIN a \cup DOMAIN b
      /\ \A x \in DOMAIN a : Over(a, b)[x] = a[x]
      /\ \A x \in DOMAIN b \ DOMAIN a : Over(a, b)[x] = b[x]
  BY OverIs
<1>. QED
  <2>1. /\ DOMAIN Units = DOMAIN a \cup DOMAIN b
        /\ \A x \in DOMAIN a : Units[x] = a[x]
        /\ \A x \in DOMAIN b \ DOMAIN a : Units[x] = b[x]
    BY <1>3, <1>4
  <2>. QED
    BY <1>1, <1>2, <2>1 DEF UNIT_TYPES

LEMMA FiveAreFinite ==
    ASSUME NEW a, NEW b, NEW c, NEW d, NEW e
    PROVE  IsFiniteSet({a, b, c, d, e})
<1>1. IsFiniteSet({a})
  BY FS_Singleton
<1>2. IsFiniteSet({a} \cup {b})
  BY <1>1, FS_AddElement
<1>3. IsFiniteSet(({a} \cup {b}) \cup {c})
  BY <1>2, FS_AddElement
<1>4. IsFiniteSet((({a} \cup {b}) \cup {c}) \cup {d})
  BY <1>3, FS_AddElement
<1>5. IsFiniteSet(((({a} \cup {b}) \cup {c}) \cup {d}) \cup {e})
  BY <1>4, FS_AddElement
<1>6. ((({a} \cup {b}) \cup {c}) \cup {d}) \cup {e} = {a, b, c, d, e}
  OBVIOUS
<1>. QED
  BY <1>5, <1>6

LEMMA FourAreFinite ==
    ASSUME NEW a, NEW b, NEW c, NEW d
    PROVE  IsFiniteSet({a, b, c, d})
<1>1. IsFiniteSet({a, b, c, d, d})
  BY FiveAreFinite
<1>2. {a, b, c, d, d} = {a, b, c, d}
  OBVIOUS
<1>. QED
  BY <1>1, <1>2

LEMMA ThreeAreFinite ==
    ASSUME NEW a, NEW b, NEW c
    PROVE  IsFiniteSet({a, b, c})
<1>1. IsFiniteSet({a, b, c, c})
  BY FourAreFinite
<1>2. {a, b, c, c} = {a, b, c}
  OBVIOUS
<1>. QED
  BY <1>1, <1>2

LEMMA TypesFinite == IsFiniteSet(BUILDING_TYPES) /\ IsFiniteSet(UNIT_TYPES) /\ IsFiniteSet(RESOURCE_KINDS)
<1>1. IsFiniteSet(DOMAIN Producers)
  <2>1. IsFiniteSet({"scrapYard", "fuelRefinery", "electronicsWorkshop", "greenhouseFarm"})
    BY FourAreFinite
  <2>. QED
    BY <2>1, ProducersSound
<1>2. IsFiniteSet(DOMAIN Facilities)
  <2>1. IsFiniteSet({"commandCenter", "warehouse", "coldStorage", "hiddenCache", "wall"})
    BY FiveAreFinite
  <2>. QED
    BY <2>1, FacilitiesSound
<1>3. IsFiniteSet(DOMAIN Institutions)
  <2>1. IsFiniteSet({"barracks", "market", "machineShop", "radioTower"})
    BY FourAreFinite
  <2>. QED
    BY <2>1, InstitutionsSound
<1>4. IsFiniteSet(DOMAIN Raiders)
  <2>1. IsFiniteSet({"brute", "torcher", "lookout", "biker", "ramTruck"})
    BY FiveAreFinite
  <2>. QED
    BY <2>1, RaidersFit
<1>5. IsFiniteSet(DOMAIN Engineers)
  <2>1. IsFiniteSet({"exoTrooper", "bulwark", "surveyorDrone", "armoredQuad", "railSling"})
    BY FiveAreFinite
  <2>. QED
    BY <2>1, EngineersFit
<1>6. IsFiniteSet(DOMAIN Nomads)
  <2>1. IsFiniteSet({"skirmisher", "hunterSniper", "falconer", "duneBuggy", "ballistaWagon"})
    BY FiveAreFinite
  <2>. QED
    BY <2>1, NomadsFit
<1>7. IsFiniteSet(DOMAIN Neutral)
  <2>1. IsFiniteSet({"settler", "feralDog", "scavengerGang"})
    BY ThreeAreFinite
  <2>. QED
    BY <2>1, NeutralFit
<1>8. IsFiniteSet(BUILDING_TYPES)
  <2>1. IsFiniteSet(DOMAIN Producers \cup DOMAIN Facilities)
    BY <1>1, <1>2, FS_Union
  <2>. QED
    BY <1>3, <2>1, BuildingsSound, FS_Union
<1>9. IsFiniteSet(UNIT_TYPES)
  <2>1. /\ IsFiniteSet(DOMAIN Raiders \cup DOMAIN Engineers)
        /\ IsFiniteSet(DOMAIN Nomads \cup DOMAIN Neutral)
    BY <1>4, <1>5, <1>6, <1>7, FS_Union
  <2>. QED
    BY <2>1, UnitsFit, FS_Union
<1>10. IsFiniteSet(RESOURCE_KINDS)
  <2>1. IsFiniteSet({"scrap", "fuel", "electronics", "food"})
    BY FourAreFinite
  <2>. QED
    BY <2>1 DEF RESOURCE_KINDS
<1>. QED
  BY <1>8, <1>9, <1>10

\* A producer for each kind, and what it makes is a number.
LEMMA ProducersMake ==
    /\ \A t \in DOMAIN Producers : Producers[t].makes[2] \in Nat
    /\ \A r \in RESOURCE_KINDS : ProducerOf(r) \in DOMAIN Producers
<1>1. /\ Producers["scrapYard"].makes = << "scrap", 5 >>
      /\ Producers["fuelRefinery"].makes = << "fuel", 5 >>
      /\ Producers["electronicsWorkshop"].makes = << "electronics", 3 >>
      /\ Producers["greenhouseFarm"].makes = << "food", 6 >>
  BY DEF Producers, Row
<1>2. \A r \in RESOURCE_KINDS : \E t \in DOMAIN Producers : Producers[t].makes[1] = r
  BY <1>1, ProducersSound DEF RESOURCE_KINDS
<1>3. \A r \in RESOURCE_KINDS : ProducerOf(r) \in DOMAIN Producers
  BY <1>2 DEF ProducerOf
<1>. QED
  BY <1>1, <1>3, ProducersSound

------------------------------------------------------------------------------
\* The tables that recursive definitions give.

\* w is a table of n + 1 numbers that begins with a and goes on by g.
Staged(g, a, n, w) ==
    w \in [0..n -> Nat] /\ w[0] = a /\ \A k \in 1..n : w[k] = g[<<k, w[k - 1]>>]

LEMMA StageNext ==
    ASSUME NEW a \in Nat, NEW g \in [(1..10) \X Nat -> Nat], NEW n \in 0..9,
           \E w : Staged(g, a, n, w)
    PROVE  \E w : Staged(g, a, n + 1, w)
<1>1. PICK w : Staged(g, a, n, w)
  OBVIOUS
<1>. DEFINE v == [k \in 0..(n + 1) |-> IF k <= n THEN w[k] ELSE g[<<n + 1, w[n]>>]]
<1>2. w[n] \in Nat /\ g[<<n + 1, w[n]>>] \in Nat
  <2>1. w[n] \in Nat /\ n + 1 \in 1..10
    BY <1>1 DEF Staged
  <2>2. <<n + 1, w[n]>> \in (1..10) \X Nat
    BY <2>1
  <2>. QED
    BY <2>1, <2>2
<1>3. v \in [0..(n + 1) -> Nat] /\ v[0] = a
  BY <1>1, <1>2 DEF Staged
<1>4. ASSUME NEW k \in 1..(n + 1)
      PROVE  v[k] = g[<<k, v[k - 1]>>]
  <2>1. CASE k <= n
    BY <1>1, <2>1 DEF Staged
  <2>2. CASE k = n + 1
    <3>1. v[k] = g[<<n + 1, w[n]>>] /\ v[k - 1] = w[n]
      BY <2>2
    <3>. QED
      BY <2>2, <3>1
  <2>. QED
    BY <2>1, <2>2
<1>5. Staged(g, a, n + 1, v)
  BY <1>3, <1>4 DEF Staged
<1>. QED
  BY <1>5

LEMMA Stages ==
    ASSUME NEW a \in Nat, NEW g \in [(1..10) \X Nat -> Nat]
    PROVE  \E w : Staged(g, a, 10, w)
<1>0. \E w : Staged(g, a, 0, w)
  <2>1. Staged(g, a, 0, [k \in 0..0 |-> a])
    BY DEF Staged
  <2>. QED
    BY <2>1
<1>1. \E w : Staged(g, a, 1, w)
  BY <1>0, StageNext
<1>2. \E w : Staged(g, a, 2, w)
  BY <1>1, StageNext
<1>3. \E w : Staged(g, a, 3, w)
  BY <1>2, StageNext
<1>4. \E w : Staged(g, a, 4, w)
  BY <1>3, StageNext
<1>5. \E w : Staged(g, a, 5, w)
  BY <1>4, StageNext
<1>6. \E w : Staged(g, a, 6, w)
  BY <1>5, StageNext
<1>7. \E w : Staged(g, a, 7, w)
  BY <1>6, StageNext
<1>8. \E w : Staged(g, a, 8, w)
  BY <1>7, StageNext
<1>9. \E w : Staged(g, a, 9, w)
  BY <1>8, StageNext
<1>. QED
  BY <1>9, StageNext

LEMMA Quotient == \A x \in Nat : \A m \in Nat \ {0} : x \div m \in Nat
OBVIOUS

LEMMA Product == \A x, y \in Nat : x * y \in Nat
OBVIOUS

LEMMA PowersType ==
    ASSUME NEW ratio, ratio[1] \in Nat, ratio[2] \in Nat \ {0}
    PROVE  Powers(ratio) \in [0..TOP -> Nat]
<1>. DEFINE g == [p \in (1..10) \X Nat |-> (p[2] * ratio[1]) \div ratio[2]]
            Follows(f) == f = [k \in 0..TOP |-> IF k = 0 THEN SCALE
                                                ELSE (f[k - 1] * ratio[1]) \div ratio[2]]
<1>1. g \in [(1..10) \X Nat -> Nat]
  BY Quotient, Product
<1>2. PICK w : Staged(g, SCALE, 10, w)
  <2>. HIDE DEF g
  <2>. QED
    BY <1>1, Stages DEF SCALE
<1>3. \A k \in 1..10 : w[k] = (w[k - 1] * ratio[1]) \div ratio[2]
  BY <1>2 DEF Staged
<1>4. Follows(w)
  BY <1>2, <1>3 DEF Staged, TOP
<1>5. Powers(ratio) = CHOOSE f : Follows(f)
  BY DEF Powers
<1>6. Follows(Powers(ratio))
  <2>. HIDE DEF Follows
  <2>. QED
    BY <1>4, <1>5
<1>. DEFINE p == Powers(ratio)
<1>. HIDE DEF p
<1>7. p = [k \in 0..TOP |-> IF k = 0 THEN SCALE ELSE (p[k - 1] * ratio[1]) \div ratio[2]]
  BY <1>6 DEF p
<1>8. p[0] \in Nat /\ DOMAIN p = 0..10
  BY <1>7 DEF SCALE, TOP
<1>9. ASSUME NEW k \in 1..10, p[k - 1] \in Nat
      PROVE  p[k] \in Nat
  BY <1>7, <1>9, Quotient, Product DEF TOP
<1>10. p[1] \in Nat /\ p[2] \in Nat /\ p[3] \in Nat
  BY <1>8, <1>9
<1>11. p[4] \in Nat /\ p[5] \in Nat /\ p[6] \in Nat
  BY <1>9, <1>10
<1>12. p[7] \in Nat /\ p[8] \in Nat /\ p[9] \in Nat /\ p[10] \in Nat
  BY <1>9, <1>11
<1>13. \A k \in 0..10 : p[k] \in Nat
  BY <1>8, <1>10, <1>11, <1>12
<1>. QED
  BY <1>7, <1>13 DEF p, TOP
LEMMA GrowthType == Growth \in [1..TOP -> Nat]
<1>. DEFINE Onward(k, x) == IF k = 1 THEN SCALE \div 10
                          ELSE (x * StepRatio(k - 1)[1]) \div StepRatio(k - 1)[2]
            g == [p \in (1..10) \X Nat |-> Onward(p[1], p[2])]
            Follows(f) == f = [level \in 1..TOP |->
                                  IF level = 1 THEN SCALE \div 10
                                  ELSE (f[level - 1] * StepRatio(level - 1)[1])
                                           \div StepRatio(level - 1)[2]]
<1>0. SCALE \div 10 \in Nat
  BY DEF SCALE
<1>1. \A k \in 1..10 : \A x \in Nat : Onward(k, x) \in Nat
  <2>. TAKE k \in 1..10, x \in Nat
  <2>1. CASE k = 1
    BY <1>0, <2>1
  <2>2. CASE k # 1
    <3>1. StepRatio(k - 1)[1] \in Nat /\ StepRatio(k - 1)[2] = 900
      BY <2>2 DEF StepRatio
    <3>. QED
      BY <2>2, <3>1, Quotient, Product
  <2>. QED
    BY <2>1, <2>2
<1>2. g \in [(1..10) \X Nat -> Nat]
  BY <1>1
<1>3. PICK w : Staged(g, 0, 10, w)
  <2>. HIDE DEF g
  <2>. QED
    BY <1>2, Stages
<1>4. \A k \in 1..10 : w[k] = Onward(k, w[k - 1])
  BY <1>3 DEF Staged
<1>. DEFINE f == [k \in 1..10 |-> w[k]]
<1>5. Follows(f)
  <2>1. ASSUME NEW k \in 1..10
        PROVE  w[k] = IF k = 1 THEN SCALE \div 10
                      ELSE (f[k - 1] * StepRatio(k - 1)[1]) \div StepRatio(k - 1)[2]
    BY <1>4
  <2>. QED
    BY <2>1 DEF TOP
<1>6. Growth = CHOOSE h : Follows(h)
  BY DEF Growth
<1>7. Follows(Growth)
  <2>. HIDE DEF Follows, f
  <2>. QED
    BY <1>5, <1>6
<1>. HIDE DEF f, g
<1>. DEFINE p == Growth
<1>. HIDE DEF p
<1>8. p = [level \in 1..TOP |-> IF level = 1 THEN SCALE \div 10
              ELSE (p[level - 1] * StepRatio(level - 1)[1]) \div StepRatio(level - 1)[2]]
  BY <1>7 DEF p
<1>9. p[1] \in Nat /\ DOMAIN p = 1..10
  BY <1>0, <1>8 DEF TOP
<1>10. ASSUME NEW k \in 2..10, p[k - 1] \in Nat
       PROVE  p[k] \in Nat
  <2>1. p[k] = Onward(k, p[k - 1])
    BY <1>8 DEF TOP
  <2>2. k \in 1..10
    OBVIOUS
  <2>. HIDE DEF Onward
  <2>. QED
    BY <1>1, <1>10, <2>1, <2>2
<1>11. p[2] \in Nat /\ p[3] \in Nat /\ p[4] \in Nat
  BY <1>9, <1>10
<1>12. p[5] \in Nat /\ p[6] \in Nat /\ p[7] \in Nat
  BY <1>10, <1>11
<1>13. p[8] \in Nat /\ p[9] \in Nat /\ p[10] \in Nat
  BY <1>10, <1>12
<1>14. \A k \in 1..10 : p[k] \in Nat
  BY <1>9, <1>11, <1>12, <1>13
<1>. QED
  BY <1>8, <1>14 DEF p, TOP

LEMMA RoundedNat == \A n \in Nat : \A d \in Nat \ {0} : Rounded(n, d) \in Nat
<1>. TAKE n \in Nat, d \in Nat \ {0}
<1>1. 2 * n + d \in Nat /\ 2 * d \in Nat \ {0}
  OBVIOUS
<1>. QED
  BY <1>1, Quotient DEF Rounded

\* The price of every level, the yield of every producer, the Food every
\* building eats and what every store holds.
LEMMA PricesNat ==
    \A t \in BUILDING_TYPES : \A l \in 1..TOP : calcBuildCost[t][l] \in [RESOURCE_KINDS -> Nat]
<1>1. SUFFICES ASSUME NEW t \in BUILDING_TYPES, NEW l \in 1..TOP, NEW r \in RESOURCE_KINDS
               PROVE  Price(Rounded(Buildings[t].cost[r]
                                        * CostPower[Buildings[t].family][l - 1], SCALE)) \in Nat
  BY DEF calcBuildCost
<1>2. Buildings[t].cost[r] \in Nat /\ Buildings[t].family \in {"resource", "functional"}
  BY BuildingsSound DEF Sound
<1>3. CostPower[Buildings[t].family] \in [0..TOP -> Nat]
  <2>1. \A f \in {"resource", "functional"} : Powers(costRatio[f]) \in [0..TOP -> Nat]
    <3>1. /\ costRatio["resource"] = <<167, 100>> /\ costRatio["functional"] = <<128, 100>>
      BY DEF costRatio
    <3>. QED
      BY <3>1, PowersType
  <2>. QED
    BY <1>2, <2>1 DEF CostPower
<1>4. CostPower[Buildings[t].family][l - 1] \in Nat
  BY <1>3 DEF TOP
<1>5. Rounded(Buildings[t].cost[r] * CostPower[Buildings[t].family][l - 1], SCALE) \in Nat
  BY <1>2, <1>4, Product, RoundedNat DEF SCALE
<1>. QED
  BY <1>5 DEF Price, GRAINS, HOUR

LEMMA YieldsNat ==
    \A t \in DOMAIN Producers : \A l \in 0..TOP : calcProductionPerHour[t][l] \in Nat
<1>1. SUFFICES ASSUME NEW t \in DOMAIN Producers, NEW l \in 1..TOP
               PROVE  1000 * Rounded(Producers[t].makes[2] * Speed.production * Growth[l],
                                     SCALE \div 10) \in Nat
  BY DEF calcProductionPerHour
<1>2. Producers[t].makes[2] * Speed.production \in Nat
  BY ProducersMake DEF Speed
<1>3. Growth[l] \in Nat
  BY GrowthType
<1>4. SCALE \div 10 \in Nat \ {0}
  BY DEF SCALE
<1>5. (Producers[t].makes[2] * Speed.production) * Growth[l] \in Nat
  BY <1>2, <1>3, Product
<1>6. Rounded((Producers[t].makes[2] * Speed.production) * Growth[l], SCALE \div 10) \in Nat
  BY <1>4, <1>5, RoundedNat
<1>. QED
  BY <1>6

LEMMA EatsNat == \A t \in BUILDING_TYPES : \A l \in 0..TOP : Eats[t][l] \in Nat
<1>. SUFFICES ASSUME NEW t \in BUILDING_TYPES, NEW l \in 0..TOP
              PROVE  Eats[t][l] \in Nat
  OBVIOUS
<1>. DEFINE atOne == Buildings[t].eats * 100 * Speed.production
<1>1. atOne \in Nat
  BY BuildingsSound DEF Sound, Speed
<1>2. upkeepRatio = <<158, 100>>
  BY DEF upkeepRatio
<1>3. EatPower \in [0..TOP -> Nat]
  BY <1>2, PowersType DEF EatPower
<1>4. Eats[t][l] = IF l = 0 THEN (atOne * upkeepRatio[2]) \div upkeepRatio[1]
                   ELSE (atOne * (EatPower[l - 1] \div 100)) \div 1000
  BY DEF Eats
<1>. HIDE DEF atOne
<1>5. CASE l = 0
  BY <1>1, <1>2, <1>4, <1>5, Product, Quotient
<1>6. CASE l # 0
  <2>1. EatPower[l - 1] \in Nat
    BY <1>3, <1>6 DEF TOP
  <2>2. EatPower[l - 1] \div 100 \in Nat
    BY <2>1, Quotient
  <2>3. atOne * (EatPower[l - 1] \div 100) \in Nat
    BY <1>1, <2>2, Product
  <2>. QED
    BY <1>4, <1>6, <2>3, Quotient
<1>. QED
  BY <1>5, <1>6

LEMMA StoresNat == StoreCap \in [0..TOP -> Nat]
<1>1. storageRatio = <<13, 10>>
  BY DEF storageRatio
<1>2. CapPower \in [0..TOP -> Nat]
  BY <1>1, PowersType DEF CapPower
<1>3. ASSUME NEW l \in 0..TOP
      PROVE  Price(Rounded(storageBase * (CapPower[l] \div 10), SCALE \div 10)) \in Nat
  <2>1. CapPower[l] \div 10 \in Nat
    BY <1>2, Quotient
  <2>2. storageBase * (CapPower[l] \div 10) \in Nat /\ SCALE \div 10 \in Nat \ {0}
    BY <2>1, Product DEF storageBase, SCALE
  <2>3. Rounded(storageBase * (CapPower[l] \div 10), SCALE \div 10) \in Nat
    BY <2>2, RoundedNat
  <2>. QED
    BY <2>3 DEF Price, GRAINS, HOUR
<1>. QED
  BY <1>3 DEF StoreCap
------------------------------------------------------------------------------
\* What a settlement makes, eats and holds.

LEMMA LevelIs ==
    ASSUME NEW b, IsLevels(b), NEW t
    PROVE  levelOf(b, t) \in 0..TOP
<1>1. CASE t \in DOMAIN b
  BY <1>1 DEF IsLevels, levelOf
<1>2. CASE t \notin DOMAIN b
  BY <1>2 DEF levelOf, TOP
<1>. QED
  BY <1>1, <1>2

LEMMA ProductionNat ==
    ASSUME NEW b, IsLevels(b)
    PROVE  calcSettlementProduction(b) \in [RESOURCE_KINDS -> Nat]
<1>1. ASSUME NEW r \in RESOURCE_KINDS
      PROVE  calcProductionPerHour[ProducerOf(r)][levelOf(b, ProducerOf(r))] \in Nat
  <2>1. ProducerOf(r) \in DOMAIN Producers /\ levelOf(b, ProducerOf(r)) \in 0..TOP
    BY ProducersMake, LevelIs
  <2>. QED
    BY <2>1, YieldsNat
<1>. QED
  BY <1>1 DEF calcSettlementProduction

LEMMA UpkeepInt ==
    ASSUME NEW b, IsLevels(b)
    PROVE  calcFoodUpkeepPerHour(b) \in Int
<1>. DEFINE f == [type \in DOMAIN b |-> Eats[type][b[type]]]
<1>1. f \in [DOMAIN b -> Int]
  <2>1. ASSUME NEW t \in DOMAIN b
        PROVE  Eats[t][b[t]] \in Int
    <3>1. t \in BUILDING_TYPES /\ b[t] \in 0..TOP
      BY DEF IsLevels
    <3>. QED
      BY <3>1, EatsNat
  <2>. QED
    BY <2>1
<1>2. IsFiniteSet(DOMAIN b)
  BY TypesFinite, FS_Subset DEF IsLevels
<1>3. calcFoodUpkeepPerHour(b) = SumFunction(f)
  BY DEF calcFoodUpkeepPerHour
<1>. HIDE DEF f
<1>. QED
  BY <1>1, <1>2, <1>3, TotalInt

LEMMA TroopUpkeepInt ==
    ASSUME NEW troops, IsTroops(troops)
    PROVE  calcTroopFoodUpkeepPerHour(troops) \in Int
<1>. DEFINE f == [u \in DOMAIN troops |-> 1000 * Units[u].eats * troops[u]]
<1>1. f \in [DOMAIN troops -> Int]
  <2>1. ASSUME NEW u \in DOMAIN troops
        PROVE  1000 * Units[u].eats * troops[u] \in Int
    <3>1. Units[u].eats \in Nat /\ troops[u] \in Nat
      BY UnitsFit DEF IsTroops, Fit
    <3>2. 1000 * Units[u].eats \in Nat
      BY <3>1
    <3>3. (1000 * Units[u].eats) * troops[u] \in Nat
      BY <3>1, <3>2, Product
    <3>. QED
      BY <3>3
  <2>. QED
    BY <2>1
<1>2. IsFiniteSet(DOMAIN troops)
  BY TypesFinite, FS_Subset DEF IsTroops
<1>3. calcTroopFoodUpkeepPerHour(troops) = SumFunction(f)
  BY DEF calcTroopFoodUpkeepPerHour
<1>. HIDE DEF f
<1>. QED
  BY <1>1, <1>2, <1>3, TotalInt

LEMMA RatesInt ==
    ASSUME NEW b, IsLevels(b), NEW troops, IsTroops(troops)
    PROVE  /\ calcNetRates(b, troops) \in [RESOURCE_KINDS -> Int]
           /\ calcNetRates(b, troops)["food"] = calcNetFoodPerHour(b, troops)
           /\ calcNetFoodPerHour(b, troops) >= 0
                => \A r \in RESOURCE_KINDS : calcNetRates(b, troops)[r] >= 0
<1>1. calcSettlementProduction(b) \in [RESOURCE_KINDS -> Nat]
  BY ProductionNat
<1>2. calcNetFoodPerHour(b, troops) \in Int
  <2>1. calcFoodUpkeepPerHour(b) \in Int /\ calcTroopFoodUpkeepPerHour(troops) \in Int
    BY UpkeepInt, TroopUpkeepInt
  <2>2. calcSettlementProduction(b)["food"] \in Int
    BY <1>1 DEF RESOURCE_KINDS
  <2>. QED
    BY <2>1, <2>2 DEF calcNetFoodPerHour
<1>3. "food" \in RESOURCE_KINDS
  BY DEF RESOURCE_KINDS
<1>. QED
  BY <1>1, <1>2, <1>3 DEF calcNetRates

LEMMA CapsNat ==
    ASSUME NEW b, IsLevels(b)
    PROVE  calcStorageCaps(b) \in [RESOURCE_KINDS -> Nat]
<1>1. ASSUME NEW r \in RESOURCE_KINDS
      PROVE  StoreCap[levelOf(b, IF r = "food" THEN "coldStorage" ELSE "warehouse")] \in Nat
  BY LevelIs, StoresNat
<1>. QED
  BY <1>1 DEF calcStorageCaps

LEMMA MinIs ==
    ASSUME NEW a \in Int, NEW b \in Int
    PROVE  Min({a, b}) = IF a <= b THEN a ELSE b
<1>. DEFINE m == IF a <= b THEN a ELSE b
<1>1. m \in {a, b} /\ \A y \in {a, b} : m <= y
  OBVIOUS
<1>2. \A x \in {a, b} : (\A y \in {a, b} : x <= y) => x = m
  OBVIOUS
<1>. HIDE DEF m
<1>3. Min({a, b}) = m
  BY <1>1, <1>2 DEF Min
<1>. QED
  BY <1>3 DEF m

LEMMA MaxIs ==
    ASSUME NEW a \in Int, NEW b \in Int
    PROVE  Max({a, b}) = IF a >= b THEN a ELSE b
<1>. DEFINE m == IF a >= b THEN a ELSE b
<1>1. m \in {a, b} /\ \A y \in {a, b} : m >= y
  OBVIOUS
<1>2. \A x \in {a, b} : (\A y \in {a, b} : x >= y) => x = m
  OBVIOUS
<1>. HIDE DEF m
<1>3. Max({a, b}) = m
  BY <1>1, <1>2 DEF Max
<1>. QED
  BY <1>3 DEF m

\* What settling makes of one resource that stands at v, grows at the given
\* rate and has the given cap.
Grown(v, rate, cap, elapsed) ==
    IF elapsed <= 0 THEN v
    ELSE IF rate > 0
         THEN (IF v + rate * elapsed <= (IF cap >= v THEN cap ELSE v) THEN v + rate * elapsed
               ELSE IF cap >= v THEN cap ELSE v)
         ELSE (IF 0 >= v + rate * elapsed THEN 0 ELSE v + rate * elapsed)

LEMMA IntProduct == \A x, y \in Int : x * y \in Int
OBVIOUS

LEMMA SettlesTo ==
    ASSUME NEW b, IsLevels(b), NEW troops, IsTroops(troops),
           NEW values \in [RESOURCE_KINDS -> Nat], NEW elapsed \in Int
    PROVE  settleResources(b, values, elapsed, troops)
             = [r \in RESOURCE_KINDS |->
                   Grown(values[r], calcNetRates(b, troops)[r], calcStorageCaps(b)[r], elapsed)]
<1>1. CASE elapsed <= 0
  <2>1. values = [r \in RESOURCE_KINDS |-> values[r]]
    OBVIOUS
  <2>. QED
    BY <1>1, <2>1 DEF settleResources, Grown
<1>2. CASE elapsed > 0
  <2>. DEFINE rates == calcNetRates(b, troops)
              caps == calcStorageCaps(b)
  <2>1. rates \in [RESOURCE_KINDS -> Int] /\ caps \in [RESOURCE_KINDS -> Nat]
    BY RatesInt, CapsNat
  <2>2. settleResources(b, values, elapsed, troops)
          = [r \in RESOURCE_KINDS |->
                IF rates[r] > 0
                THEN Min({values[r] + rates[r] * elapsed, Max({caps[r], values[r]})})
                ELSE Max({0, values[r] + rates[r] * elapsed})]
    BY <1>2 DEF settleResources
  <2>. HIDE DEF rates, caps
  <2>3. ASSUME NEW r \in RESOURCE_KINDS
        PROVE  (IF rates[r] > 0
                THEN Min({values[r] + rates[r] * elapsed, Max({caps[r], values[r]})})
                ELSE Max({0, values[r] + rates[r] * elapsed}))
                 = Grown(values[r], rates[r], caps[r], elapsed)
    <3>. DEFINE x == values[r] + rates[r] * elapsed
                y == IF caps[r] >= values[r] THEN caps[r] ELSE values[r]
    <3>1. x \in Int /\ caps[r] \in Int /\ values[r] \in Int /\ y \in Int
      <4>1. rates[r] * elapsed \in Int
        BY <2>1, IntProduct
      <4>. QED
        BY <2>1, <4>1
    <3>2. Max({caps[r], values[r]}) = y
      BY <3>1, MaxIs
    <3>3. Grown(values[r], rates[r], caps[r], elapsed)
            = IF rates[r] > 0 THEN (IF x <= y THEN x ELSE y) ELSE (IF 0 >= x THEN 0 ELSE x)
      BY <1>2 DEF Grown
    <3>. HIDE DEF x, y
    <3>4. Min({x, y}) = (IF x <= y THEN x ELSE y) /\ Max({0, x}) = (IF 0 >= x THEN 0 ELSE x)
      BY <3>1, MinIs, MaxIs
    <3>. QED
      BY <3>2, <3>3, <3>4 DEF x
  <2>. QED
    BY <2>2, <2>3 DEF rates, caps
<1>. QED
  BY <1>1, <1>2

\* Settling leaves no resource negative.
LEMMA SettledNat ==
    ASSUME NEW b, IsLevels(b), NEW troops, IsTroops(troops),
           NEW values \in [RESOURCE_KINDS -> Nat], NEW elapsed \in Int
    PROVE  settleResources(b, values, elapsed, troops) \in [RESOURCE_KINDS -> Nat]
<1>1. calcNetRates(b, troops) \in [RESOURCE_KINDS -> Int]
      /\ calcStorageCaps(b) \in [RESOURCE_KINDS -> Nat]
  BY RatesInt, CapsNat
<1>2. ASSUME NEW v \in Nat, NEW rate \in Int, NEW cap \in Nat
      PROVE  Grown(v, rate, cap, elapsed) \in Nat
  <2>1. rate * elapsed \in Int
    OBVIOUS
  <2>2. rate > 0 /\ elapsed > 0 => rate * elapsed >= 0
    BY Product
  <2>. QED
    BY <2>1, <2>2 DEF Grown
<1>. DEFINE settled == settleResources(b, values, elapsed, troops)
<1>3. settled = [r \in RESOURCE_KINDS |->
          Grown(values[r], calcNetRates(b, troops)[r], calcStorageCaps(b)[r], elapsed)]
  BY SettlesTo
<1>4. ASSUME NEW r \in RESOURCE_KINDS
      PROVE  Grown(values[r], calcNetRates(b, troops)[r], calcStorageCaps(b)[r], elapsed) \in Nat
  <2>1. calcNetRates(b, troops)[r] \in Int /\ calcStorageCaps(b)[r] \in Nat /\ values[r] \in Nat
    BY <1>1
  <2>. QED
    BY <1>2, <2>1
<1>. HIDE DEF settled
<1>5. settled \in [RESOURCE_KINDS -> Nat]
  BY <1>3, <1>4
<1>. QED
  BY <1>5 DEF settled

\* Where nothing falls, settling takes nothing away and more time gives no less.
LEMMA GrownGrows ==
    ASSUME NEW v \in Nat, NEW rate \in Nat, NEW cap \in Nat,
           NEW h \in Int, NEW k \in Int, h <= k
    PROVE  Grown(v, rate, cap, h) <= Grown(v, rate, cap, k) /\ v <= Grown(v, rate, cap, k)
<1>1. \A x \in Int : x > 0 => rate * x \in Nat
  BY Product
<1>2. \A x, y \in Int : x > 0 /\ x <= y => rate * x <= rate * y
  <2>. TAKE x, y \in Int
  <2>1. x > 0 /\ x <= y => rate * (y - x) \in Nat
    BY Product
  <2>2. rate * (y - x) = rate * y - rate * x
    OBVIOUS
  <2>3. rate * y \in Int /\ rate * x \in Int
    OBVIOUS
  <2>. QED
    BY <2>1, <2>2, <2>3
<1>. QED
  BY <1>1, <1>2 DEF Grown

LEMMA GrownKeeps == \A v, rate, cap \in Nat : \A h \in Int : v <= Grown(v, rate, cap, h)
<1>. TAKE v, rate, cap \in Nat, h \in Int
<1>1. h <= h
  OBVIOUS
<1>. QED
  BY <1>1, GrownGrows

LEMMA SettlingGrows ==
    ASSUME NEW b, IsLevels(b), NEW troops, IsTroops(troops),
           calcNetFoodPerHour(b, troops) >= 0,
           NEW values \in [RESOURCE_KINDS -> Nat], NEW h \in Int, NEW k \in Int, h <= k,
           NEW r \in RESOURCE_KINDS
    PROVE  /\ settleResources(b, values, h, troops)[r] <= settleResources(b, values, k, troops)[r]
           /\ values[r] <= settleResources(b, values, k, troops)[r]
<1>1. calcNetRates(b, troops)[r] \in Nat /\ calcStorageCaps(b)[r] \in Nat /\ values[r] \in Nat
  BY RatesInt, CapsNat
<1>2. /\ settleResources(b, values, h, troops)[r]
           = Grown(values[r], calcNetRates(b, troops)[r], calcStorageCaps(b)[r], h)
      /\ settleResources(b, values, k, troops)[r]
           = Grown(values[r], calcNetRates(b, troops)[r], calcStorageCaps(b)[r], k)
  BY SettlesTo
<1>. QED
  BY <1>1, <1>2, GrownGrows

------------------------------------------------------------------------------
\* When a price is paid.

LEMMA Ceiling ==
    ASSUME NEW n \in Nat \ {0}, NEW d \in Nat \ {0}
    PROVE  /\ CeilDiv(n, d) \in Nat \ {0}
           /\ d * CeilDiv(n, d) >= n /\ d * (CeilDiv(n, d) - 1) < n
<1>. DEFINE m == n + d - 1
            q == m \div d
<1>1. m \in Nat /\ q \in Nat /\ d * q <= m /\ m < d * q + d
  <2>1. m \in Nat
    OBVIOUS
  <2>2. \A x \in Nat : x \div d \in Nat /\ d * (x \div d) <= x /\ x < d * (x \div d) + d
    OBVIOUS
  <2>. QED
    BY <2>1, <2>2
<1>2. CeilDiv(n, d) = q
  BY DEF CeilDiv
<1>3. d * (q - 1) = d * q - d /\ d * q \in Nat
  BY <1>1, Product
<1>. HIDE DEF q
<1>4. d * q >= n /\ d * (q - 1) < n
  BY <1>1, <1>3
<1>5. q # 0
  <2>1. q = 0 => d * q = 0
    OBVIOUS
  <2>. QED
    BY <1>4, <2>1
<1>. QED
  BY <1>1, <1>2, <1>4, <1>5

\* A resource of which less than c is stored reaches c, which the store can
\* hold, after the ceiling of what is missing over the rate, and no sooner.
LEMMA PaidInTime ==
    ASSUME NEW v \in Nat, NEW rate \in Nat \ {0}, NEW cap \in Nat, NEW c \in Nat,
           v < c, c <= cap, NEW h \in Int
    PROVE  /\ h >= CeilDiv(c - v, rate) => Grown(v, rate, cap, h) >= c
           /\ h < CeilDiv(c - v, rate) => Grown(v, rate, cap, h) < c
<1>. DEFINE q == CeilDiv(c - v, rate)
<1>1. q \in Nat \ {0} /\ rate * q >= c - v /\ rate * (q - 1) < c - v
  <2>1. c - v \in Nat \ {0}
    OBVIOUS
  <2>. QED
    BY <2>1, Ceiling
<1>. HIDE DEF q
<1>2. rate * h \in Int /\ rate * q \in Int /\ rate * (q - 1) \in Int
  BY <1>1
<1>3. h >= q => rate * h >= rate * q
  <2>1. h >= q => rate * (h - q) \in Nat
    BY <1>1, Product
  <2>2. rate * (h - q) = rate * h - rate * q
    BY <1>1
  <2>. QED
    BY <1>2, <2>1, <2>2
<1>4. h < q => rate * h <= rate * (q - 1)
  <2>1. h < q => rate * ((q - 1) - h) \in Nat
    <3>1. h < q => (q - 1) - h \in Nat
      BY <1>1
    <3>. QED
      BY <3>1, Product
  <2>2. rate * ((q - 1) - h) = rate * (q - 1) - rate * h
    BY <1>1
  <2>. QED
    BY <1>2, <2>1, <2>2
<1>5. h >= q => Grown(v, rate, cap, h) >= c
  BY <1>1, <1>2, <1>3 DEF Grown
<1>6. h < q => Grown(v, rate, cap, h) < c
  BY <1>1, <1>2, <1>4 DEF Grown
<1>. QED
  BY <1>5, <1>6 DEF q

\* What does not grow is never paid.
LEMMA NeverPaid ==
    ASSUME NEW v \in Nat, NEW rate \in Int, rate <= 0, NEW cap \in Nat, NEW c \in Nat,
           v < c, NEW h \in Int
    PROVE  Grown(v, rate, cap, h) < c
<1>1. rate * h \in Int
  OBVIOUS
<1>2. h > 0 => rate * h <= 0
  <2>1. h > 0 => (0 - rate) * h \in Nat
    BY Product
  <2>2. (0 - rate) * h = 0 - rate * h
    OBVIOUS
  <2>. QED
    BY <1>1, <2>1, <2>2
<1>. QED
  BY <1>1, <1>2 DEF Grown

\* The longest of the waits is one of them and the others are no longer.
LEMMA LongestWait ==
    ASSUME NEW S, IsFiniteSet(S), S # {}, NEW f \in [S -> Nat]
    PROVE  /\ \E r \in S : Max({f[s] : s \in S}) = f[r]
           /\ \A s \in S : f[s] <= Max({f[t] : t \in S})
<1>. DEFINE Tops(T) == T = {} \/ \E r \in T : \A s \in T : f[r] >= f[s]
            G == {T \in SUBSET S : Tops(T)}
            W == {f[s] : s \in S}
<1>1. ASSUME NEW T \in SUBSET S, NEW x \in S \ T, Tops(T)
      PROVE  Tops(T \cup {x})
  <2>1. f[x] \in Nat /\ \A s \in T : f[s] \in Nat
    OBVIOUS
  <2>2. CASE T = {}
    <3>1. \A s \in T \cup {x} : f[x] >= f[s]
      BY <2>1, <2>2
    <3>. QED
      BY <3>1
  <2>3. CASE \E r \in T : \A s \in T : f[r] >= f[s]
    <3>1. PICK r \in T : \A s \in T : f[r] >= f[s]
      BY <2>3
    <3>2. CASE f[r] >= f[x]
      <4>1. \A s \in T \cup {x} : f[r] >= f[s]
        BY <3>1, <3>2
      <4>. QED
        BY <4>1
    <3>3. CASE f[r] < f[x]
      <4>1. \A s \in T \cup {x} : f[x] >= f[s]
        BY <2>1, <3>1, <3>3
      <4>. QED
        BY <4>1
    <3>. QED
      BY <2>1, <3>2, <3>3
  <2>. QED
    BY <1>1, <2>2, <2>3
<1>2. S \in G
  <2>1. {} \in G /\ \A T \in SUBSET S : \A x \in S \ T : T \in G => T \cup {x} \in G
    BY <1>1
  <2>. HIDE DEF G
  <2>. QED
    BY <2>1, SetInduction
<1>3. PICK r \in S : \A s \in S : f[r] >= f[s]
  BY <1>2
<1>4. \A s \in S : f[s] \in Nat
  OBVIOUS
<1>5. f[r] \in W /\ \A y \in W : f[r] >= y
  BY <1>3
<1>6. ASSUME NEW x \in W, \A y \in W : x >= y
      PROVE  x = f[r]
  BY <1>3, <1>4, <1>6
<1>. HIDE DEF W
<1>7. Max(W) = f[r]
  BY <1>5, <1>6 DEF Max
<1>. QED
  BY <1>3, <1>7 DEF W

\* The client's forecast of a price the stores can hold, where nothing falls.
LEMMA ForecastExact ==
    ASSUME NEW b, IsLevels(b), NEW troops, IsTroops(troops),
           calcNetFoodPerHour(b, troops) >= 0,
           NEW values \in [RESOURCE_KINDS -> Nat], NEW cost \in [RESOURCE_KINDS -> Nat],
           \A r \in RESOURCE_KINDS : cost[r] <= calcStorageCaps(b)[r],
           ~canAfford(values, cost),
           NEW wait, wait = msUntilAffordable(b, values, cost, troops)
    PROVE  IF wait = Never
           THEN \A h \in Int : ~canAfford(settleResources(b, values, h, troops), cost)
           ELSE /\ canAfford(settleResources(b, values, wait, troops), cost)
                /\ ~canAfford(settleResources(b, values, wait - 1, troops), cost)
<1>. DEFINE rates == calcNetRates(b, troops)
            caps == calcStorageCaps(b)
            short == {r \in RESOURCE_KINDS : values[r] < cost[r]}
            ceil == [r \in short |-> CeilDiv(cost[r] - values[r], rates[r])]
            W == {CeilDiv(cost[r] - values[r], rates[r]) : r \in short}
            Later(h) == settleResources(b, values, h, troops)
<1>1. rates \in [RESOURCE_KINDS -> Nat] /\ caps \in [RESOURCE_KINDS -> Nat]
  BY RatesInt, CapsNat
<1>2. \A r \in RESOURCE_KINDS : values[r] \in Nat /\ cost[r] \in Nat /\ rates[r] \in Nat
                                /\ caps[r] \in Nat /\ cost[r] <= caps[r]
  BY <1>1
<1>3. short # {} /\ short \subseteq RESOURCE_KINDS
  BY <1>2 DEF canAfford
<1>4. \A h \in Int : \A r \in RESOURCE_KINDS :
          Later(h)[r] = Grown(values[r], rates[r], caps[r], h) /\ Later(h)[r] \in Nat
  BY SettlesTo, SettledNat
<1>5. wait = IF \E r \in short : rates[r] <= 0 \/ cost[r] > caps[r] THEN Never ELSE Max(W)
  BY <1>3 DEF msUntilAffordable
<1>. HIDE DEF rates, caps, Later
<1>6. CASE \E r \in short : rates[r] <= 0
  <2>1. wait = Never
    BY <1>5, <1>6
  <2>2. PICK r \in short : rates[r] <= 0
    BY <1>6
  <2>3. r \in RESOURCE_KINDS /\ values[r] < cost[r]
    BY <2>2
  <2>4. \A h \in Int : Later(h)[r] < cost[r]
    BY <1>2, <1>4, <2>2, <2>3, NeverPaid
  <2>5. \A h \in Int : ~canAfford(Later(h), cost)
    BY <1>2, <1>4, <2>3, <2>4 DEF canAfford
  <2>. QED
    BY <2>1, <2>5 DEF Later
<1>7. CASE ~\E r \in short : rates[r] <= 0
  <2>1. wait = Max(W)
    BY <1>2, <1>3, <1>5, <1>7
  <2>2. \A r \in short : /\ r \in RESOURCE_KINDS /\ values[r] \in Nat /\ cost[r] \in Nat
                         /\ values[r] < cost[r] /\ cost[r] <= caps[r] /\ caps[r] \in Nat
                         /\ rates[r] \in Nat \ {0}
    BY <1>2, <1>7
  <2>3. ceil \in [short -> Nat] /\ \A r \in short : ceil[r] \in Nat \ {0}
    <3>1. \A r \in short : CeilDiv(cost[r] - values[r], rates[r]) \in Nat \ {0}
      <4>. TAKE r \in short
      <4>1. cost[r] - values[r] \in Nat \ {0} /\ rates[r] \in Nat \ {0}
        BY <2>2
      <4>. QED
        BY <4>1, Ceiling
    <3>. QED
      BY <3>1
  <2>4. W = {ceil[r] : r \in short}
    OBVIOUS
  <2>5. IsFiniteSet(short)
    BY <1>3, TypesFinite, FS_Subset
  <2>. HIDE DEF short, W
  <2>6. \A r \in short : ceil[r] = CeilDiv(cost[r] - values[r], rates[r])
    OBVIOUS
  <2>. HIDE DEF ceil
  <2>7. PICK last \in short : wait = ceil[last]
    BY <1>3, <2>1, <2>3, <2>4, <2>5, LongestWait
  <2>8. \A r \in short : ceil[r] <= wait
    BY <1>3, <2>1, <2>3, <2>4, <2>5, LongestWait
  <2>9. wait \in Nat \ {0}
    BY <2>3, <2>7
  <2>10. \A r \in RESOURCE_KINDS : Later(wait)[r] >= cost[r]
    <3>. TAKE r \in RESOURCE_KINDS
    <3>1. CASE r \in short
      <4>1. wait >= CeilDiv(cost[r] - values[r], rates[r]) /\ wait \in Int
        BY <2>3, <2>6, <2>8, <2>9, <3>1
      <4>2. Grown(values[r], rates[r], caps[r], wait) >= cost[r]
        BY <2>2, <3>1, <4>1, PaidInTime
      <4>. QED
        BY <1>4, <4>1, <4>2
    <3>2. CASE r \notin short
      <4>1. values[r] >= cost[r]
        BY <1>2, <3>2 DEF short
      <4>2. values[r] <= Later(wait)[r]
        <5>1. Later(wait)[r] = Grown(values[r], rates[r], caps[r], wait) /\ wait \in Int
          BY <1>4, <2>9
        <5>2. values[r] <= Grown(values[r], rates[r], caps[r], wait)
          BY <1>2, <5>1, GrownKeeps
        <5>. QED
          BY <5>1, <5>2
      <4>3. Later(wait)[r] \in Nat
        BY <1>4, <2>9
      <4>. QED
        BY <1>2, <4>1, <4>2, <4>3
    <3>. QED
      BY <3>1, <3>2
  <2>11. Later(wait - 1)[last] < cost[last]
    <3>1. wait - 1 \in Int /\ wait - 1 < CeilDiv(cost[last] - values[last], rates[last])
      BY <2>6, <2>7, <2>9
    <3>2. Grown(values[last], rates[last], caps[last], wait - 1) < cost[last]
      BY <2>2, <2>7, <3>1, PaidInTime
    <3>. QED
      BY <1>4, <2>2, <2>7, <3>1, <3>2
  <2>12. ~canAfford(Later(wait - 1), cost)
    <3>1. wait - 1 \in Int /\ last \in RESOURCE_KINDS
      BY <2>2, <2>7, <2>9
    <3>2. Later(wait - 1)[last] \in Nat /\ cost[last] \in Nat
      BY <1>2, <1>4, <3>1
    <3>. QED
      BY <2>11, <3>1, <3>2 DEF canAfford
  <2>13. wait # Never
    BY <2>9 DEF Never
  <2>. QED
    BY <2>10, <2>12, <2>13 DEF Later, canAfford
<1>. QED
  BY <1>6, <1>7

------------------------------------------------------------------------------
\* Documents.

LEMMA JoinedIs ==
    ASSUME NEW a, IsTroops(a), NEW b, IsTroops(b)
    PROVE  IsTroops(Joined(a, b))
<1>1. \A u \in DOMAIN a \cup DOMAIN b :
          (IF u \in DOMAIN a THEN a[u] ELSE 0) + (IF u \in DOMAIN b THEN b[u] ELSE 0) \in Nat
  BY DEF IsTroops
<1>. QED
  BY <1>1 DEF Joined, IsTroops

LEMMA UpkeepTroops ==
    ASSUME NEW d, IsDocument(d)
    PROVE  IsTroops(upkeepTroopsOf(d)) /\ upkeepTroopsShown(d) = upkeepTroopsOf(d)
<1>1. IsTroops(Joined(d.troops, d.awayTroops))
  BY JoinedIs DEF IsDocument
<1>. QED
  BY <1>1, JoinedIs DEF IsDocument, upkeepTroopsOf, upkeepTroopsShown

\* Settling a document changes its values and the time they are of, no more.
LEMMA SettledDoc ==
    ASSUME NEW d, IsDocument(d), NEW tick \in Int
    PROVE  /\ IsDocument(settleDoc(d, tick))
           /\ settleDoc(d, tick).values
                = settleResources(d.buildings, d.values, tick - d.lastCalcAt, upkeepTroopsOf(d))
           /\ settleDoc(d, tick).buildings = d.buildings
           /\ settleDoc(d, tick).buildQueue = d.buildQueue
           /\ settleDoc(d, tick).trainingQueue = d.trainingQueue
           /\ settleDoc(d, tick).troops = d.troops
           /\ settleDoc(d, tick).awayTroops = d.awayTroops
           /\ settleDoc(d, tick).stationedTroops = d.stationedTroops
           /\ settleDoc(d, tick) \in [buildings : {d.buildings}, values : [RESOURCE_KINDS -> Nat],
                  lastCalcAt : Int, buildQueue : {d.buildQueue},
                  trainingQueue : {d.trainingQueue}, troops : {d.troops},
                  awayTroops : {d.awayTroops}, stationedTroops : {d.stationedTroops}]
<1>1. d.lastCalcAt \in Int /\ d.values \in [RESOURCE_KINDS -> Nat] /\ IsLevels(d.buildings)
  BY DEF IsDocument
<1>2. IsTroops(upkeepTroopsOf(d))
  BY UpkeepTroops
<1>. DEFINE later == settleResources(d.buildings, d.values, tick - d.lastCalcAt, upkeepTroopsOf(d))
<1>3. later \in [RESOURCE_KINDS -> Nat] /\ (tick - d.lastCalcAt <= 0 => later = d.values)
  <2>1. tick - d.lastCalcAt \in Int
    BY <1>1
  <2>2. later \in [RESOURCE_KINDS -> Nat]
    BY <1>1, <1>2, <2>1, SettledNat
  <2>3. tick - d.lastCalcAt <= 0 => later = d.values
    BY DEF settleResources
  <2>. QED
    BY <2>2, <2>3
<1>4. settleDoc(d, tick) = IF tick - d.lastCalcAt <= 0 THEN d
                         ELSE [d EXCEPT !.values = later, !.lastCalcAt = tick]
  BY DEF settleDoc
<1>. HIDE DEF later
<1>5. /\ settleDoc(d, tick) \in [buildings : {d.buildings}, values : [RESOURCE_KINDS -> Nat],
                  lastCalcAt : Int, buildQueue : {d.buildQueue},
                  trainingQueue : {d.trainingQueue}, troops : {d.troops},
                  awayTroops : {d.awayTroops}, stationedTroops : {d.stationedTroops}]
      /\ settleDoc(d, tick).values = later
  <2>1. d \in [buildings : {d.buildings}, values : [RESOURCE_KINDS -> Nat],
                  lastCalcAt : Int, buildQueue : {d.buildQueue},
                  trainingQueue : {d.trainingQueue}, troops : {d.troops},
                  awayTroops : {d.awayTroops}, stationedTroops : {d.stationedTroops}]
    BY DEF IsDocument
  <2>. QED
    BY <1>3, <1>4, <2>1
<1>. QED
  BY <1>5 DEF IsDocument, later

\* At the client's time the screen shows what the server would settle to.
LEMMA ScreenSettles ==
    ASSUME NEW d, IsDocument(d), NEW tick \in Int
    PROVE  useLiveResources(d, tick) = settleDoc(d, tick).values
<1>1. upkeepTroopsShown(d) = upkeepTroopsOf(d)
  BY UpkeepTroops
<1>2. useLiveResources(d, tick)
        = settleResources(d.buildings, d.values, tick - d.lastCalcAt, upkeepTroopsOf(d))
  BY <1>1 DEF useLiveResources
<1>. QED
  BY <1>2, SettledDoc

\* The next level of a building on either side, and its price.
LEMMA TargetIs ==
    ASSUME NEW d, IsDocument(d), NEW type \in Priced(d)
    PROVE  /\ nextTargetLevel(d, type) = TargetLevel(d, type)
           /\ TargetLevel(d, type) \in Nat \ {0}
           /\ TargetLevel(d, type) <= maxLevel(type) =>
                calcBuildCost[type][TargetLevel(d, type)] \in [RESOURCE_KINDS -> Nat]
<1>1. nextTargetLevel(d, type) = TargetLevel(d, type)
  BY DEF nextTargetLevel, TargetLevel, queuedCountForType
<1>2. levelOf(d.buildings, type) \in Nat
  <2>1. levelOf(d.buildings, type) \in 0..TOP
    BY LevelIs DEF IsDocument
  <2>. QED
    BY <2>1 DEF TOP
<1>. DEFINE waiting == {k \in DOMAIN d.buildQueue : d.buildQueue[k].type = type}
<1>3. Cardinality(waiting) \in Nat
  <2>1. d.buildQueue \in Seq(BuildItem)
    BY DEF IsDocument
  <2>2. DOMAIN d.buildQueue = 1..Len(d.buildQueue) /\ Len(d.buildQueue) \in Nat
    BY <2>1
  <2>3. IsFiniteSet(DOMAIN d.buildQueue)
    BY <2>2, FS_Interval
  <2>4. IsFiniteSet(waiting)
    BY <2>3, FS_Subset
  <2>. QED
    BY <2>4, FS_CardinalityType
<1>4. TargetLevel(d, type) = levelOf(d.buildings, type) + Cardinality(waiting) + 1
  BY DEF TargetLevel
<1>. HIDE DEF waiting
<1>5. TargetLevel(d, type) \in Nat \ {0}
  BY <1>2, <1>3, <1>4
<1>6. ASSUME TargetLevel(d, type) <= maxLevel(type)
      PROVE  calcBuildCost[type][TargetLevel(d, type)] \in [RESOURCE_KINDS -> Nat]
  <2>1. type \in BUILDING_TYPES /\ (TargetLevel(d, type) <= TOP \/ TargetLevel(d, type) > maxLevel(type))
    BY DEF Priced
  <2>2. maxLevel(type) \in Nat
    BY DEF maxLevel
  <2>3. TargetLevel(d, type) \in 1..TOP
    BY <1>5, <1>6, <2>1, <2>2 DEF TOP
  <2>. QED
    BY <2>1, <2>3, PricesNat
<1>. QED
  BY <1>1, <1>5, <1>6

\* Wherever the screen shows a document d with values live, it names the reason
\* the server has to refuse a build on d with these values.
LEMMA BuildsMirrored ==
    ASSUME NEW d, IsDocument(d), NEW tick \in Int, NEW type \in Priced(d)
    PROVE  SameReason[computeBuildEligibility(d, settleDoc(d, tick).values, type).kind]
             = BuildRefusal(settleDoc(d, tick), type)
<1>. DEFINE s == settleDoc(d, tick)
            live == s.values
            target == TargetLevel(d, type)
            cost == calcBuildCost[type][target]
            wait == msUntilAffordable(d.buildings, live, cost, upkeepTroopsOf(d))
            full == Len(d.buildQueue) >= 3
            starves == wouldStarveSettlement(d.buildings, type, target, upkeepTroopsOf(d))
            exceeds == \E r \in RESOURCE_KINDS : cost[r] > calcStorageCaps(d.buildings)[r]
            needs == missingPrerequisites(d.buildings, type) # {}
            paid == canAfford(live, cost)
            high == target > maxLevel(type)
<1>1. s.buildings = d.buildings /\ s.buildQueue = d.buildQueue /\ s.troops = d.troops
      /\ s.awayTroops = d.awayTroops /\ s.stationedTroops = d.stationedTroops
  BY SettledDoc
<1>2. TargetLevel(s, type) = target /\ upkeepTroopsOf(s) = upkeepTroopsOf(d)
  BY <1>1 DEF TargetLevel, upkeepTroopsOf
<1>3. nextTargetLevel(d, type) = target /\ upkeepTroopsShown(d) = upkeepTroopsOf(d)
  BY TargetIs, UpkeepTroops
<1>4. BuildRefusal(s, type)
        = IF high THEN "maxLevelReached" ELSE IF needs THEN "prerequisitesNotMet"
          ELSE IF full THEN "queueFull" ELSE IF starves THEN "wouldStarve"
          ELSE IF exceeds THEN "exceedsStorage"
          ELSE IF ~paid THEN "insufficientResources" ELSE "accepted"
  BY <1>1, <1>2 DEF BuildRefusal, ACTIVE_BUILD_SLOTS, WAITING_QUEUE_SLOTS
<1>5. computeBuildEligibility(d, live, type)
        = IF high THEN Blocked("maxLevel") ELSE IF needs THEN Blocked("prerequisites")
          ELSE IF full THEN Blocked("queueFull") ELSE IF starves THEN Blocked("wouldStarve")
          ELSE IF exceeds THEN Blocked("exceedsStorage")
          ELSE IF paid THEN Blocked("none")
          ELSE IF wait = Never THEN Blocked("neverAffordable")
          ELSE [kind |-> "waiting", waitMs |-> wait]
  BY <1>3 DEF computeBuildEligibility, BUILD_QUEUE_CAPACITY
<1>. HIDE DEF s, target, cost, wait, full, starves, exceeds, needs, paid, high
<1>6. computeBuildEligibility(d, live, type).kind
        = IF high THEN "maxLevel" ELSE IF needs THEN "prerequisites"
          ELSE IF full THEN "queueFull" ELSE IF starves THEN "wouldStarve"
          ELSE IF exceeds THEN "exceedsStorage" ELSE IF paid THEN "none"
          ELSE IF wait = Never THEN "neverAffordable" ELSE "waiting"
  BY <1>5 DEF Blocked
<1>7. SameReason[computeBuildEligibility(d, live, type).kind] = BuildRefusal(s, type)
  BY <1>4, <1>6 DEF SameReason
<1>. QED
  BY <1>7 DEF s

LEMMA TrainingsMirrored ==
    ASSUME NEW d, IsDocument(d), NEW tick \in Int, NEW draft \in Sized
    PROVE  LET shown == computeUnitTrainEligibility(d, settleDoc(d, tick).values, draft[1], draft[2])
           IN  TrainRefusal(settleDoc(d, tick), draft[1], draft[2])
                 = IF shown = "none" THEN "accepted" ELSE shown
<1>. DEFINE s == settleDoc(d, tick)
            unit == draft[1]
            count == draft[2]
<1>1. s.buildings = d.buildings /\ s.trainingQueue = d.trainingQueue /\ s.troops = d.troops
      /\ s.awayTroops = d.awayTroops /\ s.stationedTroops = d.stationedTroops
  BY SettledDoc
<1>2. upkeepTroopsOf(s) = upkeepTroopsOf(d) /\ upkeepTroopsShown(d) = upkeepTroopsOf(d)
  BY <1>1, UpkeepTroops DEF upkeepTroopsOf
<1>3. ~(count <= 0 \/ count > MAX_TRAIN_COUNT)
  BY ClientAssumption DEF Sized, MAX_TRAIN_COUNT
<1>. HIDE DEF s, count, unit
<1>4. TrainRefusal(s, unit, count)
        = IF computeUnitTrainEligibility(d, s.values, unit, count) = "none" THEN "accepted"
          ELSE computeUnitTrainEligibility(d, s.values, unit, count)
  BY <1>1, <1>2, <1>3 DEF TrainRefusal, computeUnitTrainEligibility
<1>. QED
  BY <1>4 DEF s, count, unit

------------------------------------------------------------------------------
\* The three promises of the screen, where everything has its type.

\* What the screen takes the time for is no later than the time.
LEMMA ScreenClock ==
    ASSUME ClientTypeOK
    PROVE  /\ useServerClock(now) \in Int /\ now \in Int /\ useServerClock(now) <= now
           /\ IsDocument(view.doc) /\ IsDocument(doc)
           /\ LiveValues(now) = settleDoc(view.doc, useServerClock(now)).values
<1>1. /\ view.serverTime \in 0..shownAt /\ IsDocument(view.doc) /\ IsDocument(doc)
      /\ shownAt \in 0..now /\ now \in Nat
  BY DEF ClientTypeOK, IsReply
<1>2. useServerClock(now) \in Int /\ useServerClock(now) <= now
  BY <1>1 DEF useServerClock
<1>. QED
  BY <1>1, <1>2, ScreenSettles DEF LiveValues

LEMMA MirrorsFollow == ClientTypeOK => MirrorsAgree
<1>. SUFFICES ASSUME ClientTypeOK, UpToDate
              PROVE  LET d == settleDoc(doc, useServerClock(now))
                     IN  /\ \A type \in Priced(doc) :
                               SameReason[OfferedBuild(type).kind] = BuildRefusal(d, type)
                         /\ \A draft \in Sized :
                               TrainRefusal(d, draft[1], draft[2])
                                 = IF OfferedTraining(draft) = "none" THEN "accepted"
                                   ELSE OfferedTraining(draft)
  BY DEF MirrorsAgree
<1>. DEFINE tick == useServerClock(now)
            d == settleDoc(doc, tick)
<1>1. tick \in Int /\ IsDocument(doc) /\ LiveValues(now) = d.values /\ view.doc = doc
  BY ScreenClock DEF UpToDate
<1>. HIDE DEF tick
<1>2. ASSUME NEW type \in Priced(doc)
      PROVE  SameReason[OfferedBuild(type).kind] = BuildRefusal(d, type)
  <2>1. OfferedBuild(type) = computeBuildEligibility(doc, d.values, type)
    BY <1>1 DEF OfferedBuild
  <2>. QED
    BY <1>1, <2>1, BuildsMirrored
<1>3. ASSUME NEW draft \in Sized
      PROVE  TrainRefusal(d, draft[1], draft[2])
               = IF OfferedTraining(draft) = "none" THEN "accepted" ELSE OfferedTraining(draft)
  <2>1. OfferedTraining(draft) = computeUnitTrainEligibility(doc, d.values, draft[1], draft[2])
    BY <1>1 DEF OfferedTraining
  <2>. QED
    BY <1>1, <2>1, TrainingsMirrored
<1>. QED
  BY <1>2, <1>3 DEF tick

\* What can be paid at one time can be paid later, where nothing falls.
LEMMA PaidStays ==
    ASSUME NEW d, IsDocument(d), NetFood(d) >= 0, NEW h \in Int, NEW k \in Int, h <= k,
           NEW cost, \A r \in RESOURCE_KINDS : cost[r] \in Nat,
           canAfford(settleDoc(d, h).values, cost)
    PROVE  canAfford(settleDoc(d, k).values, cost)
<1>1. /\ IsLevels(d.buildings) /\ IsTroops(upkeepTroopsOf(d))
      /\ d.values \in [RESOURCE_KINDS -> Nat] /\ d.lastCalcAt \in Int
  BY UpkeepTroops DEF IsDocument
<1>2. calcNetFoodPerHour(d.buildings, upkeepTroopsOf(d)) >= 0
  BY DEF NetFood
<1>3. h - d.lastCalcAt \in Int /\ k - d.lastCalcAt \in Int /\ h - d.lastCalcAt <= k - d.lastCalcAt
  BY <1>1
<1>4. \A r \in RESOURCE_KINDS : settleDoc(d, h).values[r] <= settleDoc(d, k).values[r]
  <2>. TAKE r \in RESOURCE_KINDS
  <2>. DEFINE a == h - d.lastCalcAt
              b == k - d.lastCalcAt
  <2>1. settleDoc(d, h).values = settleResources(d.buildings, d.values, a, upkeepTroopsOf(d))
    BY SettledDoc
  <2>2. settleDoc(d, k).values = settleResources(d.buildings, d.values, b, upkeepTroopsOf(d))
    BY SettledDoc
  <2>. HIDE DEF a, b
  <2>3. settleResources(d.buildings, d.values, a, upkeepTroopsOf(d))[r]
          <= settleResources(d.buildings, d.values, b, upkeepTroopsOf(d))[r]
    <3>1. a \in Int /\ b \in Int /\ a <= b
      BY <1>3 DEF a, b
    <3>. QED
      BY <1>1, <1>2, <3>1, SettlingGrows
  <2>. QED
    BY <2>1, <2>2, <2>3
<1>5. \A r \in RESOURCE_KINDS : settleDoc(d, h).values[r] \in Nat /\ settleDoc(d, k).values[r] \in Nat
  <2>1. \A tick \in Int : settleDoc(d, tick).values \in [RESOURCE_KINDS -> Nat]
    <3>. TAKE tick \in Int
    <3>1. IsDocument(settleDoc(d, tick))
      BY SettledDoc
    <3>. QED
      BY <3>1 DEF IsDocument
  <2>. QED
    BY <2>1
<1>. QED
  BY <1>4, <1>5 DEF canAfford

LEMMA TrainCostNat ==
    ASSUME NEW u \in UNIT_TYPES, NEW n \in Nat
    PROVE  calcTrainCost(u, n) \in [RESOURCE_KINDS -> Nat]
<1>1. ASSUME NEW r \in RESOURCE_KINDS
      PROVE  Price(Units[u].cost[r] * n) \in Nat
  <2>1. Units[u].cost[r] \in Nat
    BY UnitsFit DEF Fit
  <2>2. Units[u].cost[r] * n \in Nat
    BY <2>1, Product
  <2>. QED
    BY <2>2 DEF Price, GRAINS, HOUR
<1>. QED
  BY <1>1 DEF calcTrainCost

LEMMA BuildsStayAccepted ==
    ASSUME NEW d, IsDocument(d), NetFood(d) >= 0, NEW h \in Int, NEW k \in Int, h <= k,
           NEW type \in Priced(d), BuildRefusal(settleDoc(d, h), type) = "accepted"
    PROVE  BuildRefusal(settleDoc(d, k), type) = "accepted"
<1>. DEFINE early == settleDoc(d, h)
            late == settleDoc(d, k)
            target == TargetLevel(d, type)
            cost == calcBuildCost[type][target]
<1>1. /\ early.buildings = d.buildings /\ early.buildQueue = d.buildQueue
      /\ early.troops = d.troops /\ early.awayTroops = d.awayTroops
      /\ early.stationedTroops = d.stationedTroops
      /\ late.buildings = d.buildings /\ late.buildQueue = d.buildQueue
      /\ late.troops = d.troops /\ late.awayTroops = d.awayTroops
      /\ late.stationedTroops = d.stationedTroops
  BY SettledDoc
<1>2. /\ TargetLevel(early, type) = target /\ upkeepTroopsOf(early) = upkeepTroopsOf(d)
      /\ TargetLevel(late, type) = target /\ upkeepTroopsOf(late) = upkeepTroopsOf(d)
  BY <1>1 DEF TargetLevel, upkeepTroopsOf
<1>3. canAfford(early.values, cost) => canAfford(late.values, cost)
  <2>1. target <= maxLevel(type)
    <3>1. target \in Int /\ maxLevel(type) \in Int
      BY TargetIs DEF maxLevel
    <3>2. ~(target > maxLevel(type))
      BY <1>2 DEF BuildRefusal
    <3>. QED
      BY <3>1, <3>2
  <2>2. \A r \in RESOURCE_KINDS : cost[r] \in Nat
    BY <2>1, TargetIs
  <2>. HIDE DEF cost
  <2>. QED
    BY <2>2, PaidStays
<1>. HIDE DEF early, late, target, cost
<1>4. BuildRefusal(early, type) = "accepted"
  BY DEF early
<1>5. BuildRefusal(late, type) = "accepted"
  BY <1>1, <1>2, <1>3, <1>4 DEF BuildRefusal, cost
<1>. QED
  BY <1>5 DEF late

LEMMA TrainingsStayAccepted ==
    ASSUME NEW d, IsDocument(d), NetFood(d) >= 0, NEW h \in Int, NEW k \in Int, h <= k,
           NEW draft \in Drafts, TrainRefusal(settleDoc(d, h), draft[1], draft[2]) = "accepted"
    PROVE  TrainRefusal(settleDoc(d, k), draft[1], draft[2]) = "accepted"
<1>. DEFINE early == settleDoc(d, h)
            late == settleDoc(d, k)
            unit == draft[1]
            count == draft[2]
            cost == calcTrainCost(unit, count)
<1>1. /\ early.buildings = d.buildings /\ early.trainingQueue = d.trainingQueue
      /\ early.troops = d.troops /\ early.awayTroops = d.awayTroops
      /\ early.stationedTroops = d.stationedTroops
      /\ late.buildings = d.buildings /\ late.trainingQueue = d.trainingQueue
      /\ late.troops = d.troops /\ late.awayTroops = d.awayTroops
      /\ late.stationedTroops = d.stationedTroops
  BY SettledDoc
<1>2. upkeepTroopsOf(early) = upkeepTroopsOf(d) /\ upkeepTroopsOf(late) = upkeepTroopsOf(d)
  BY <1>1 DEF upkeepTroopsOf
<1>3. canAfford(early.values, cost) => canAfford(late.values, cost)
  <2>1. unit \in UNIT_TYPES /\ count \in Nat
    BY ClientAssumption
  <2>2. \A r \in RESOURCE_KINDS : cost[r] \in Nat
    BY <2>1, TrainCostNat
  <2>. HIDE DEF cost
  <2>. QED
    BY <2>2, PaidStays
<1>. HIDE DEF early, late, unit, count, cost
<1>4. TrainRefusal(early, unit, count) = "accepted"
  BY DEF early, unit, count
<1>5. TrainRefusal(late, unit, count) = "accepted"
  BY <1>1, <1>2, <1>3, <1>4 DEF TrainRefusal, cost
<1>. QED
  BY <1>5 DEF late, unit, count

LEMMA OffersFollow == ClientTypeOK => OffersAreHonoured
<1>. SUFFICES ASSUME ClientTypeOK, UpToDate, NetFood(doc) >= 0
              PROVE  LET d == settleDoc(doc, now)
                     IN  /\ \A type \in Priced(doc) :
                               OfferedBuild(type).kind = "none" => BuildRefusal(d, type) = "accepted"
                         /\ \A draft \in Sized :
                               OfferedTraining(draft) = "none"
                                 => TrainRefusal(d, draft[1], draft[2]) = "accepted"
  BY DEF OffersAreHonoured
<1>. DEFINE tick == useServerClock(now)
<1>1. tick \in Int /\ now \in Int /\ tick <= now /\ IsDocument(doc)
  BY ScreenClock
<1>2. /\ \A type \in Priced(doc) :
             SameReason[OfferedBuild(type).kind] = BuildRefusal(settleDoc(doc, tick), type)
      /\ \A draft \in Sized :
             TrainRefusal(settleDoc(doc, tick), draft[1], draft[2])
               = IF OfferedTraining(draft) = "none" THEN "accepted" ELSE OfferedTraining(draft)
  BY MirrorsFollow DEF MirrorsAgree
<1>. HIDE DEF tick
<1>3. ASSUME NEW type \in Priced(doc), OfferedBuild(type).kind = "none"
      PROVE  BuildRefusal(settleDoc(doc, now), type) = "accepted"
  <2>1. BuildRefusal(settleDoc(doc, tick), type) = "accepted"
    BY <1>2, <1>3 DEF SameReason
  <2>. QED
    BY <1>1, <2>1, BuildsStayAccepted
<1>4. ASSUME NEW draft \in Sized, OfferedTraining(draft) = "none"
      PROVE  TrainRefusal(settleDoc(doc, now), draft[1], draft[2]) = "accepted"
  <2>1. TrainRefusal(settleDoc(doc, tick), draft[1], draft[2]) = "accepted"
    BY <1>2, <1>4
  <2>2. draft \in Drafts
    BY DEF Sized
  <2>. QED
    BY <1>1, <2>1, <2>2, TrainingsStayAccepted
<1>. QED
  BY <1>3, <1>4

LEMMA ForecastsFollow == ClientTypeOK => ForecastsHoldWhileFed
<1>. SUFFICES ASSUME ClientTypeOK, NetFood(view.doc) >= 0, NEW type \in Priced(view.doc)
              PROVE  ForecastComesTrue(type)
  BY DEF ForecastsHoldWhileFed, ForecastsHold
<1>. DEFINE d == view.doc
            tick == useServerClock(now)
            live == settleDoc(d, tick).values
            target == nextTargetLevel(d, type)
            cost == calcBuildCost[type][target]
            troops == upkeepTroopsOf(d)
            wait == msUntilAffordable(d.buildings, live, cost, troops)
            Later(h) == settleResources(d.buildings, live, h, troops)
            offer == OfferedBuild(type)
<1>1. tick \in Int /\ IsDocument(d) /\ LiveValues(now) = live
  BY ScreenClock
<1>2. /\ IsLevels(d.buildings) /\ IsTroops(troops) /\ upkeepTroopsShown(d) = troops
      /\ calcNetFoodPerHour(d.buildings, troops) >= 0
  BY <1>1, UpkeepTroops DEF IsDocument, NetFood
<1>3. live \in [RESOURCE_KINDS -> Nat]
  <2>1. IsDocument(settleDoc(d, tick))
    BY <1>1, SettledDoc
  <2>. QED
    BY <2>1 DEF IsDocument
<1>4. offer = computeBuildEligibility(d, live, type)
  BY <1>1 DEF OfferedBuild
<1>5. offer = IF target > maxLevel(type) THEN Blocked("maxLevel")
        ELSE IF missingPrerequisites(d.buildings, type) # {} THEN Blocked("prerequisites")
        ELSE IF Len(d.buildQueue) >= BUILD_QUEUE_CAPACITY THEN Blocked("queueFull")
        ELSE IF wouldStarveSettlement(d.buildings, type, target, troops) THEN Blocked("wouldStarve")
        ELSE IF \E r \in RESOURCE_KINDS : cost[r] > calcStorageCaps(d.buildings)[r]
             THEN Blocked("exceedsStorage")
        ELSE IF canAfford(live, cost) THEN Blocked("none")
        ELSE IF wait = Never THEN Blocked("neverAffordable")
        ELSE [kind |-> "waiting", waitMs |-> wait]
  BY <1>2, <1>4 DEF computeBuildEligibility
<1>6. target \in Int /\ maxLevel(type) \in Int
      /\ (target <= maxLevel(type) => cost \in [RESOURCE_KINDS -> Nat])
  BY <1>1, TargetIs DEF maxLevel
<1>. HIDE DEF tick, live, target, cost, troops, wait, offer
<1>7. ASSUME offer.kind \in {"waiting", "neverAffordable"}
      PROVE  /\ target <= maxLevel(type) /\ ~canAfford(live, cost)
             /\ ~\E r \in RESOURCE_KINDS : cost[r] > calcStorageCaps(d.buildings)[r]
             /\ IF wait = Never THEN offer.kind = "neverAffordable"
                ELSE offer.kind = "waiting" /\ offer.waitMs = wait
  <2>1. ~(target > maxLevel(type))
    BY <1>5, <1>7 DEF Blocked
  <2>2. ~canAfford(live, cost) /\ ~\E r \in RESOURCE_KINDS : cost[r] > calcStorageCaps(d.buildings)[r]
    BY <1>5, <1>7 DEF Blocked
  <2>3. IF wait = Never THEN offer.kind = "neverAffordable"
        ELSE offer.kind = "waiting" /\ offer.waitMs = wait
    BY <1>5, <1>7 DEF Blocked
  <2>. QED
    BY <1>6, <2>1, <2>2, <2>3
<1>8. ASSUME offer.kind \in {"waiting", "neverAffordable"}
      PROVE  IF wait = Never THEN \A h \in Int : ~canAfford(Later(h), cost)
             ELSE canAfford(Later(wait), cost) /\ ~canAfford(Later(wait - 1), cost)
  <2>1. cost \in [RESOURCE_KINDS -> Nat]
    BY <1>6, <1>7, <1>8
  <2>2. \A r \in RESOURCE_KINDS : cost[r] <= calcStorageCaps(d.buildings)[r]
    <3>1. calcStorageCaps(d.buildings) \in [RESOURCE_KINDS -> Nat]
      BY <1>2, CapsNat
    <3>2. ~\E r \in RESOURCE_KINDS : cost[r] > calcStorageCaps(d.buildings)[r]
      BY <1>7, <1>8
    <3>. QED
      BY <2>1, <3>1, <3>2
  <2>3. wait = msUntilAffordable(d.buildings, live, cost, troops)
    BY DEF wait
  <2>4. ~canAfford(live, cost)
    BY <1>7, <1>8
  <2>. QED
    BY <1>2, <1>3, <2>1, <2>2, <2>3, <2>4, ForecastExact
<1>9. offer.kind = "waiting"
        => canAfford(Later(offer.waitMs), cost) /\ ~canAfford(Later(offer.waitMs - 1), cost)
  BY <1>7, <1>8
<1>10. offer.kind = "neverAffordable" => \A h \in {1, HOUR, 24 * HOUR} : ~canAfford(Later(h), cost)
  <2>1. {1, HOUR, 24 * HOUR} \subseteq Int
    BY DEF HOUR
  <2>. HIDE DEF Later
  <2>2. offer.kind = "neverAffordable" => \A h \in Int : ~canAfford(Later(h), cost)
    BY <1>7, <1>8
  <2>. QED
    BY <2>1, <2>2
<1>11. ForecastComesTrue(type)
         <=> /\ offer.kind = "waiting"
                  => canAfford(Later(offer.waitMs), cost) /\ ~canAfford(Later(offer.waitMs - 1), cost)
             /\ offer.kind = "neverAffordable"
                  => \A h \in {1, HOUR, 24 * HOUR} : ~canAfford(Later(h), cost)
  BY <1>1 DEF ForecastComesTrue, offer, cost, target, troops
<1>. QED
  BY <1>9, <1>10, <1>11

------------------------------------------------------------------------------
\* Every step leaves a document that is a settlement's.

LEMMA TimesInt ==
    /\ \A type \in BUILDING_TYPES : \A level \in 1..TOP : \A cc \in 0..TOP :
           calcBuildTime(type, level, cc) \in Int
    /\ \A unit \in UNIT_TYPES : \A level \in 1..TOP : calcTrainTime(unit, level) \in Int
<1>0. \A n \in Nat : CeilDiv(n, 1000 * 5 * 600) \in Int
  <2>. TAKE n \in Nat
  <2>1. n + 1000 * 5 * 600 - 1 \in Nat /\ 1000 * 5 * 600 \in Nat \ {0}
    OBVIOUS
  <2>2. (n + 1000 * 5 * 600 - 1) \div (1000 * 5 * 600) \in Nat
    BY <2>1, Quotient
  <2>. QED
    BY <2>2 DEF CeilDiv
<1>1. ASSUME NEW type \in BUILDING_TYPES, NEW level \in 1..TOP, NEW cc \in 0..TOP
      PROVE  calcBuildTime(type, level, cc) \in Int
  <2>. DEFINE power == TimePower[Buildings[type].family][level - 1]
              sec == (Buildings[type].sec * (power \div 1000)) \div 100
  <2>1. Buildings[type].sec \in Nat /\ Buildings[type].family \in {"resource", "functional"}
    BY BuildingsSound DEF Sound
  <2>2. TimePower[Buildings[type].family] \in [0..TOP -> Nat]
    <3>1. \A f \in {"resource", "functional"} : Powers(timeRatio[f]) \in [0..TOP -> Nat]
      <4>1. timeRatio["resource"] = <<135, 100>> /\ timeRatio["functional"] = <<128, 100>>
        BY DEF timeRatio
      <4>. QED
        BY <4>1, PowersType
    <3>. QED
      BY <2>1, <3>1 DEF TimePower
  <2>3. CommandPower[cc] \in Nat
    <3>1. buildTimeRatio = <<964, 1000>>
      BY DEF buildTimeRatio
    <3>2. CommandPower \in [0..TOP -> Nat]
      BY <3>1, PowersType DEF CommandPower
    <3>. QED
      BY <3>2
  <2>4. power \in Nat
    <3>1. level - 1 \in 0..TOP
      BY DEF TOP
    <3>. QED
      BY <2>2, <3>1
  <2>5. sec \in Nat
    <3>. HIDE DEF power
    <3>1. power \div 1000 \in Nat
      BY <2>4, Quotient
    <3>2. Buildings[type].sec * (power \div 1000) \in Nat
      BY <2>1, <3>1, Product
    <3>. QED
      BY <3>2, Quotient
  <2>6. calcBuildTime(type, level, cc) = CeilDiv(sec * (CommandPower[cc] \div 100), 1000 * 5 * 600)
    BY DEF calcBuildTime, Speed
  <2>. HIDE DEF sec
  <2>7. sec * (CommandPower[cc] \div 100) \in Nat
    <3>1. CommandPower[cc] \div 100 \in Nat
      BY <2>3, Quotient
    <3>. QED
      BY <2>5, <3>1, Product
  <2>. QED
    BY <1>0, <2>6, <2>7
<1>2. ASSUME NEW unit \in UNIT_TYPES, NEW level \in 1..TOP
      PROVE  calcTrainTime(unit, level) \in Int
  <2>1. Units[unit].sec \in Nat
    BY UnitsFit DEF Fit
  <2>2. DrillPower[level - 1] \in Nat
    <3>1. buildingTimeRatio = <<91, 100>>
      BY DEF buildingTimeRatio
    <3>2. DrillPower \in [0..TOP -> Nat]
      BY <3>1, PowersType DEF DrillPower
    <3>. QED
      BY <3>2 DEF TOP
  <2>3. Units[unit].sec * (DrillPower[level - 1] \div 100) \in Nat
    <3>1. DrillPower[level - 1] \div 100 \in Nat
      BY <2>2, Quotient
    <3>. QED
      BY <2>1, <3>1, Product
  <2>4. calcTrainTime(unit, level)
          = CeilDiv(Units[unit].sec * (DrillPower[level - 1] \div 100), 1000 * 5 * 600)
    BY DEF calcTrainTime, Speed
  <2>. QED
    BY <1>0, <2>3, <2>4
<1>. QED
  BY <1>1, <1>2

LEMMA OverLevels ==
    ASSUME NEW b, IsLevels(b), NEW type \in BUILDING_TYPES, NEW level \in 0..TOP
    PROVE  IsLevels(Over([t \in {type} |-> level], b))
<1>. DEFINE f == [t \in {type} |-> level]
<1>1. /\ DOMAIN Over(f, b) = {type} \cup DOMAIN b
      /\ \A x \in {type} : Over(f, b)[x] = level
      /\ \A x \in DOMAIN b \ {type} : Over(f, b)[x] = b[x]
  BY DEF Over
<1>2. Over(f, b) \in [DOMAIN Over(f, b) -> 0..TOP]
  <2>1. Over(f, b) = [x \in DOMAIN Over(f, b) |-> Over(f, b)[x]]
    BY DEF Over
  <2>2. \A x \in DOMAIN Over(f, b) : Over(f, b)[x] \in 0..TOP
    BY <1>1 DEF IsLevels
  <2>. HIDE DEF f
  <2>. QED
    BY <2>1, <2>2
<1>3. {type} \cup DOMAIN b \subseteq BUILDING_TYPES
  BY DEF IsLevels
<1>. HIDE DEF f
<1>4. IsLevels(Over(f, b))
  BY <1>1, <1>2, <1>3 DEF IsLevels
<1>. QED
  BY <1>4 DEF f

\* An item that starts is one of the queue.
LEMMA RunIs ==
    ASSUME NEW item \in BuildItem, NEW tick \in Int, NEW d, IsLevels(d.buildings)
    PROVE  Run(item, tick, d) \in BuildItem
<1>1. calcBuildTime(item.type, item.targetLevel, levelOf(d.buildings, "commandCenter")) \in Int
  <2>1. item.type \in BUILDING_TYPES /\ item.targetLevel \in 1..TOP
    BY DEF BuildItem
  <2>2. levelOf(d.buildings, "commandCenter") \in 0..TOP
    BY LevelIs
  <2>. QED
    BY <2>1, <2>2, TimesInt
<1>. QED
  BY <1>1 DEF Run, BuildItem

\* What is paid for was there.
LEMMA PaidNat ==
    ASSUME NEW values \in [RESOURCE_KINDS -> Nat], NEW cost \in [RESOURCE_KINDS -> Nat],
           canAfford(values, cost)
    PROVE  subtractResources(values, cost) \in [RESOURCE_KINDS -> Nat]
<1>1. \A r \in RESOURCE_KINDS : values[r] - cost[r] \in Nat
  BY DEF canAfford
<1>. QED
  BY <1>1 DEF subtractResources

LEMMA BuildDocument ==
    ASSUME NEW d, IsDocument(d), NEW type \in Priced(d), BuildRefusal(d, type) = "accepted",
           now \in Int
    PROVE  IsDocument(WithBuild(d, type))
<1>. DEFINE target == TargetLevel(d, type)
            cost == calcBuildCost[type][target]
            item == [type |-> type, targetLevel |-> target, completesAt |-> 0]
            paid == subtractResources(d.values, cost)
            queue == Append(d.buildQueue, IF d.buildQueue = << >> THEN Run(item, now, d) ELSE item)
<1>1. target <= maxLevel(type) /\ target \in 1..TOP /\ type \in BUILDING_TYPES
  <2>1. target \in Nat \ {0} /\ maxLevel(type) \in Int
    BY TargetIs DEF maxLevel
  <2>2. ~(target > maxLevel(type))
    BY DEF BuildRefusal
  <2>3. type \in BUILDING_TYPES /\ (target <= TOP \/ target > maxLevel(type))
    BY DEF Priced
  <2>. QED
    BY <2>1, <2>2, <2>3 DEF TOP
<1>2. canAfford(d.values, cost)
  BY DEF BuildRefusal
<1>3. paid \in [RESOURCE_KINDS -> Nat]
  <2>1. cost \in [RESOURCE_KINDS -> Nat]
    BY <1>1, PricesNat
  <2>2. d.values \in [RESOURCE_KINDS -> Nat]
    BY DEF IsDocument
  <2>. HIDE DEF cost
  <2>. QED
    BY <1>2, <2>1, <2>2, PaidNat
<1>4. queue \in Seq(BuildItem)
  <2>. HIDE DEF target
  <2>1. item \in BuildItem
    BY <1>1 DEF BuildItem
  <2>. HIDE DEF item
  <2>2. Run(item, now, d) \in BuildItem
    BY <2>1, RunIs DEF IsDocument
  <2>3. d.buildQueue \in Seq(BuildItem)
    BY DEF IsDocument
  <2>. QED
    BY <2>1, <2>2, <2>3
<1>5. WithBuild(d, type) = [d EXCEPT !.values = paid, !.buildQueue = queue]
  BY DEF WithBuild
<1>. HIDE DEF paid, queue
<1>. QED
  BY <1>3, <1>4, <1>5 DEF IsDocument

LEMMA TrainingDocument ==
    ASSUME NEW d, IsDocument(d), NEW draft \in Drafts,
           TrainRefusal(d, draft[1], draft[2]) = "accepted", now \in Int
    PROVE  IsDocument(WithTraining(d, draft[1], draft[2]))
<1>. DEFINE unit == draft[1]
            count == draft[2]
            cost == calcTrainCost(unit, count)
            level == levelOf(d.buildings, Units[unit].trainedIn)
            each == calcTrainTime(unit, level)
            order == [unitType |-> unit, remaining |-> count, each |-> each,
                      nextCompletesAt |-> now + each]
            paid == subtractResources(d.values, cost)
            queue == Append(d.trainingQueue, order)
<1>1. unit \in UNIT_TYPES /\ count \in Nat \ {0}
  BY ClientAssumption
<1>2. canAfford(d.values, cost) /\ ~(level < 1)
  BY DEF TrainRefusal
<1>3. paid \in [RESOURCE_KINDS -> Nat]
  <2>1. cost \in [RESOURCE_KINDS -> Nat]
    BY <1>1, TrainCostNat
  <2>2. d.values \in [RESOURCE_KINDS -> Nat]
    BY DEF IsDocument
  <2>. HIDE DEF cost
  <2>. QED
    BY <1>2, <2>1, <2>2, PaidNat
<1>4. each \in Int
  <2>1. level \in 0..TOP
    BY LevelIs DEF IsDocument
  <2>2. level \in 1..TOP
    <3>. HIDE DEF level
    <3>. QED
      BY <1>2, <2>1 DEF TOP
  <2>. HIDE DEF level
  <2>. QED
    BY <1>1, <2>2, TimesInt
<1>5. queue \in Seq(TrainingOrder)
  <2>1. d.trainingQueue \in Seq(TrainingOrder)
    BY DEF IsDocument
  <2>2. order \in TrainingOrder
    <3>. HIDE DEF each, unit, count
    <3>. QED
      BY <1>1, <1>4 DEF TrainingOrder
  <2>. HIDE DEF order
  <2>. QED
    BY <2>1, <2>2
<1>6. WithTraining(d, unit, count) = [d EXCEPT !.values = paid, !.trainingQueue = queue]
  BY DEF WithTraining
<1>. HIDE DEF paid, queue
<1>. QED
  BY <1>3, <1>5, <1>6 DEF IsDocument

LEMMA CompletedDocument == IsDocument(doc) /\ BuildComplete => IsDocument(doc')
<1>. SUFFICES ASSUME IsDocument(doc), BuildComplete
              PROVE  IsDocument(doc')
  OBVIOUS
<1>. DEFINE item == Head(doc.buildQueue)
            waiting == Tail(doc.buildQueue)
            reached == Min({item.targetLevel, levelOf(doc.buildings, item.type) + 1})
            levels == Over([t \in {item.type} |-> reached], doc.buildings)
            raised == [doc EXCEPT !.buildings = levels]
            queue == IF waiting = << >> THEN waiting
                     ELSE << Run(Head(waiting), item.completesAt, raised) >> \o Tail(waiting)
<1>1. doc.buildQueue # << >> /\ doc.buildQueue \in Seq(BuildItem)
  BY DEF BuildComplete, IsDocument
<1>2. item \in BuildItem /\ waiting \in Seq(BuildItem)
  BY <1>1
<1>3. reached \in 0..TOP
  <2>1. levelOf(doc.buildings, item.type) \in 0..TOP
    BY LevelIs DEF IsDocument
  <2>2. item.targetLevel \in 1..TOP
    BY <1>2 DEF BuildItem
  <2>3. ASSUME NEW a \in 1..TOP, NEW b \in 0..TOP
        PROVE  Min({a, b + 1}) \in 0..TOP
    <3>1. a \in Int /\ b + 1 \in Int /\ a >= 0 /\ a <= TOP /\ b >= 0
      BY DEF TOP
    <3>2. Min({a, b + 1}) = IF a <= b + 1 THEN a ELSE b + 1
      BY <3>1, MinIs
    <3>. QED
      BY <3>1, <3>2 DEF TOP
  <2>. HIDE DEF item
  <2>. QED
    BY <2>1, <2>2, <2>3
<1>4. IsLevels(levels)
  <2>1. item.type \in BUILDING_TYPES
    BY <1>2 DEF BuildItem
  <2>2. IsLevels(doc.buildings)
    BY DEF IsDocument
  <2>. HIDE DEF reached, item
  <2>. QED
    BY <1>3, <2>1, <2>2, OverLevels
<1>5. raised.buildings = levels
  BY DEF IsDocument
<1>6. queue \in Seq(BuildItem)
  <2>. HIDE DEF waiting, item, raised, levels
  <2>1. CASE waiting = << >>
    BY <1>2, <2>1
  <2>2. CASE waiting # << >>
    <3>1. Head(waiting) \in BuildItem /\ Tail(waiting) \in Seq(BuildItem)
      BY <1>2, <2>2
    <3>2. item.completesAt \in Int
      BY <1>2 DEF BuildItem
    <3>3. Run(Head(waiting), item.completesAt, raised) \in BuildItem
      BY <1>4, <1>5, <3>1, <3>2, RunIs
    <3>. QED
      BY <2>2, <3>1, <3>3
  <2>. QED
    BY <2>1, <2>2
<1>7. doc' = [raised EXCEPT !.buildQueue = queue]
  <2>1. doc' = [raised EXCEPT !.buildQueue =
                   IF waiting = << >> THEN waiting
                   ELSE << Run(Head(waiting), item.completesAt, raised) >> \o Tail(waiting)]
    <3>1. [doc EXCEPT !.buildings =
              Over([t \in {item.type} |-> Min({item.targetLevel, levelOf(@, t) + 1})], @)] = raised
      <4>1. [t \in {item.type} |-> Min({item.targetLevel, levelOf(doc.buildings, t) + 1})]
              = [t \in {item.type} |-> reached]
        OBVIOUS
      <4>. QED
        BY <4>1
    <3>. HIDE DEF raised
    <3>. QED
      BY <3>1, Zenon DEF BuildComplete
  <2>. QED
    BY <2>1
<1>. HIDE DEF queue, levels
<1>. QED
  BY <1>4, <1>6, <1>7 DEF IsDocument

LEMMA TrainedDocument == IsDocument(doc) /\ TrainingComplete => IsDocument(doc')
<1>. SUFFICES ASSUME IsDocument(doc), TrainingComplete
              PROVE  IsDocument(doc')
  OBVIOUS
<1>. DEFINE Order(k) == doc.trainingQueue[k]
            queue(k) == IF Order(k).remaining = 1 THEN RemoveAt(doc.trainingQueue, k)
                        ELSE [doc.trainingQueue EXCEPT
                                 ![k] = [Order(k) EXCEPT !.remaining = @ - 1,
                                             !.nextCompletesAt = @ + Order(k).each]]
            home(k) == Joined(doc.troops, Bag(Order(k).unitType, 1))
<1>1. PICK k \in DOMAIN doc.trainingQueue :
          doc' = [doc EXCEPT !.troops = home(k), !.trainingQueue = queue(k)]
  BY DEF TrainingComplete
<1>2. doc.trainingQueue \in Seq(TrainingOrder) /\ Order(k) \in TrainingOrder
      /\ k \in 1..Len(doc.trainingQueue) /\ Len(doc.trainingQueue) \in Nat
  BY DEF IsDocument
<1>3. IsTroops(home(k))
  <2>1. Order(k).unitType \in UNIT_TYPES
    BY <1>2 DEF TrainingOrder
  <2>2. IsTroops(Bag(Order(k).unitType, 1))
    BY <2>1 DEF Bag, IsTroops
  <2>. QED
    BY <2>2, JoinedIs DEF IsDocument
<1>4. queue(k) \in Seq(TrainingOrder)
  <2>1. CASE Order(k).remaining = 1
    <3>1. queue(k) = SubSeq(doc.trainingQueue, 1, k - 1)
                       \o SubSeq(doc.trainingQueue, k + 1, Len(doc.trainingQueue))
      BY <2>1 DEF RemoveAt
    <3>2. /\ SubSeq(doc.trainingQueue, 1, k - 1) \in Seq(TrainingOrder)
          /\ SubSeq(doc.trainingQueue, k + 1, Len(doc.trainingQueue)) \in Seq(TrainingOrder)
      BY <1>2
    <3>. HIDE DEF Order, queue
    <3>. QED
      BY <3>1, <3>2
  <2>2. CASE Order(k).remaining # 1
    <3>1. ASSUME NEW o \in TrainingOrder, o.remaining # 1
          PROVE  [o EXCEPT !.remaining = @ - 1, !.nextCompletesAt = @ + o.each] \in TrainingOrder
      <4>. DEFINE left == o.remaining - 1
                  next == o.nextCompletesAt + o.each
      <4>1. o.remaining \in Nat \ {0} /\ o.nextCompletesAt \in Int /\ o.each \in Int
        BY DEF TrainingOrder
      <4>2. left \in Nat \ {0} /\ next \in Int
        BY <3>1, <4>1
      <4>. HIDE DEF left, next
      <4>3. [o EXCEPT !.remaining = left, !.nextCompletesAt = next] \in TrainingOrder
        BY <4>2 DEF TrainingOrder
      <4>. QED
        BY <4>3 DEF left, next
    <3>2. [Order(k) EXCEPT !.remaining = @ - 1, !.nextCompletesAt = @ + Order(k).each]
            \in TrainingOrder
      <4>. HIDE DEF Order
      <4>. QED
        BY <1>2, <2>2, <3>1
    <3>3. \A o \in TrainingOrder : [doc.trainingQueue EXCEPT ![k] = o] \in Seq(TrainingOrder)
      BY <1>2
    <3>4. queue(k) = [doc.trainingQueue EXCEPT
              ![k] = [Order(k) EXCEPT !.remaining = @ - 1, !.nextCompletesAt = @ + Order(k).each]]
      BY <2>2
    <3>. HIDE DEF Order, queue
    <3>. QED
      BY <3>2, <3>3, <3>4
  <2>. QED
    BY <2>1, <2>2
<1>. HIDE DEF queue, home
<1>. QED
  BY <1>1, <1>3, <1>4 DEF IsDocument

LEMMA BesiegedDocument == IsDocument(doc) /\ now \in Nat /\ Besieged => IsDocument(doc')
<1>. SUFFICES ASSUME IsDocument(doc), now \in Nat, Besieged
              PROVE  IsDocument(doc')
  OBVIOUS
<1>. DEFINE d == settleDoc(doc, now)
            Left(type) == Max({levelOf(d.buildings, type) - 1,
                               IF type = "commandCenter" THEN 1 ELSE 0})
<1>1. IsDocument(d)
  BY SettledDoc
<1>2. PICK type \in Razed :
          doc' = [d EXCEPT !.buildings = Over([t \in {type} |-> Left(type)], d.buildings)]
  BY DEF Besieged
<1>. HIDE DEF d
<1>3. type \in BUILDING_TYPES
  BY ClientAssumption DEF IsLevels
<1>4. Left(type) \in 0..TOP
  <2>1. levelOf(d.buildings, type) \in 0..TOP
    BY <1>1, LevelIs DEF IsDocument
  <2>2. ASSUME NEW a \in 0..TOP, NEW b \in {0, 1}
        PROVE  Max({a - 1, b}) \in 0..TOP
    <3>1. a - 1 \in Int /\ b \in Int /\ a <= TOP /\ b >= 0 /\ b <= TOP
      BY DEF TOP
    <3>2. Max({a - 1, b}) = IF a - 1 >= b THEN a - 1 ELSE b
      BY <3>1, MaxIs
    <3>. QED
      BY <3>1, <3>2 DEF TOP
  <2>. QED
    BY <2>1, <2>2
<1>. DEFINE levels == Over([t \in {type} |-> Left(type)], d.buildings)
<1>5. IsLevels(levels)
  <2>. HIDE DEF Left
  <2>. QED
    BY <1>1, <1>3, <1>4, OverLevels DEF IsDocument
<1>. HIDE DEF levels, Left
<1>6. doc' = [d EXCEPT !.buildings = levels]
  BY <1>2 DEF levels
<1>. QED
  BY <1>1, <1>5, <1>6 DEF IsDocument

LEMMA NoTroopsAre == IsTroops(NoTroops)
BY DEF NoTroops, IsTroops

LEMMA MarchedDocument ==
    IsDocument(doc) /\ now \in Nat /\ (SupportArrives \/ SendMovement) => IsDocument(doc')
<1>. SUFFICES ASSUME IsDocument(doc), now \in Nat, SupportArrives \/ SendMovement
              PROVE  IsDocument(doc')
  OBVIOUS
<1>. DEFINE d == settleDoc(doc, now)
<1>1. IsDocument(d)
  BY SettledDoc
<1>2. CASE SupportArrives
  <2>1. doc' = [d EXCEPT !.stationedTroops = Guests]
    BY <1>2 DEF SupportArrives
  <2>. HIDE DEF d
  <2>2. IsTroops(Guests)
    BY ClientAssumption
  <2>. QED
    BY <1>1, <2>1, <2>2 DEF IsDocument
<1>3. CASE SendMovement
  <2>1. doc' = [d EXCEPT !.awayTroops = Joined(d.awayTroops, d.troops), !.troops = NoTroops]
    BY <1>3 DEF SendMovement
  <2>. HIDE DEF d
  <2>2. IsTroops(Joined(d.awayTroops, d.troops))
    BY <1>1, JoinedIs DEF IsDocument
  <2>. QED
    BY <1>1, <2>1, <2>2, NoTroopsAre DEF IsDocument
<1>. QED
  BY <1>2, <1>3

\* An answer is the document of the moment it is sent.
LEMMA AnswerIs ==
    ASSUME ClientTypeOK, IsDocument(doc'), Answer(doc'), now' = now
    PROVE  \A reply \in replies' : IsReply(reply, now')
<1>1. replies' = replies \cup {[doc |-> doc', serverTime |-> now]}
  BY DEF Answer, buildSettlementStateView
<1>2. \A reply \in replies : IsReply(reply, now)
  BY DEF ClientTypeOK
<1>3. IsReply([doc |-> doc', serverTime |-> now], now)
  <2>1. now \in 0..now
    BY DEF ClientTypeOK
  <2>. QED
    BY <2>1 DEF IsReply
<1>. QED
  BY <1>1, <1>2, <1>3

\* The orders the screen sends are for levels with a price.
LEMMA SettledPriced ==
    ASSUME NEW d, IsDocument(d), NEW tick \in Int
    PROVE  Priced(settleDoc(d, tick)) = Priced(d)
<1>1. settleDoc(d, tick).buildings = d.buildings /\ settleDoc(d, tick).buildQueue = d.buildQueue
  BY SettledDoc
<1>. QED
  BY <1>1 DEF Priced, TargetLevel

LEMMA ClientTypesStart == ClientInit => ClientTypeOK
<1>. SUFFICES ASSUME ClientInit
              PROVE  ClientTypeOK
  OBVIOUS
<1>1. IsLevels(Start) /\ Stock \in [RESOURCE_KINDS -> Nat] /\ Underway \in Seq(BuildItem)
  BY ClientAssumption
<1>2. IsDocument(doc)
  <2>1. doc = [buildings |-> Start, values |-> Stock, lastCalcAt |-> 0, buildQueue |-> Underway,
               troops |-> NoTroops, awayTroops |-> NoTroops, stationedTroops |-> NoTroops,
               trainingQueue |-> << >>]
    BY DEF ClientInit
  <2>2. << >> \in Seq(TrainingOrder)
    OBVIOUS
  <2>. QED
    BY <1>1, <2>1, <2>2, NoTroopsAre DEF IsDocument
<1>3. IsReply(view, 0)
  <2>1. view = [doc |-> doc, serverTime |-> 0] /\ 0 \in 0..0
    BY DEF ClientInit, buildSettlementStateView
  <2>. QED
    BY <1>2, <2>1 DEF IsReply
<1>. QED
  BY <1>2, <1>3 DEF ClientInit, ClientTypeOK

LEMMA ClientTypesStep == ClientTypeOK /\ [ClientNext]_clientVars => ClientTypeOK'
<1>. SUFFICES ASSUME ClientTypeOK, [ClientNext]_clientVars
              PROVE  ClientTypeOK'
  OBVIOUS
<1>1. /\ now \in Nat /\ now \in Int /\ faction \in Factions /\ shownAt \in 0..now
      /\ IsDocument(doc) /\ IsReply(view, shownAt)
      /\ \A reply \in replies : IsReply(reply, now)
  BY DEF ClientTypeOK
\* A step under the screen.
<1>2. ASSUME HiddenFromClient, IsDocument(doc')
      PROVE  ClientTypeOK'
  BY <1>1, <1>2 DEF HiddenFromClient, ClientTypeOK, IsReply
\* A step that answers.
<1>3. ASSUME UNCHANGED << now, faction, view, shownAt >>, IsDocument(doc'), Answer(doc')
      PROVE  ClientTypeOK'
  <2>1. \A reply \in replies' : IsReply(reply, now')
    BY <1>3, AnswerIs
  <2>. QED
    BY <1>1, <1>3, <2>1 DEF ClientTypeOK, IsReply
<1>4. CASE GetSettlementState
  <2>1. IsDocument(doc')
    BY <1>1, <1>4, SettledDoc DEF GetSettlementState
  <2>. QED
    BY <1>3, <1>4, <2>1 DEF GetSettlementState
<1>5. CASE StartBuild
  <2>1. PICK type \in Priced(doc) :
            /\ BuildRefusal(settleDoc(doc, now), type) = "accepted"
            /\ doc' = WithBuild(settleDoc(doc, now), type)
    BY <1>5 DEF StartBuild
  <2>2. IsDocument(settleDoc(doc, now)) /\ type \in Priced(settleDoc(doc, now))
    BY <1>1, SettledDoc, SettledPriced
  <2>3. IsDocument(doc')
    BY <1>1, <2>1, <2>2, BuildDocument
  <2>. QED
    BY <1>3, <1>5, <2>3 DEF StartBuild
<1>6. CASE TrainUnits
  <2>1. PICK draft \in Drafts :
            /\ TrainRefusal(settleDoc(doc, now), draft[1], draft[2]) = "accepted"
            /\ doc' = WithTraining(settleDoc(doc, now), draft[1], draft[2])
    BY <1>6 DEF TrainUnits
  <2>2. IsDocument(settleDoc(doc, now))
    BY <1>1, SettledDoc
  <2>3. IsDocument(doc')
    BY <1>1, <2>1, <2>2, TrainingDocument
  <2>. QED
    BY <1>3, <1>6, <2>3 DEF TrainUnits
<1>7. CASE UpdateSettlementCache
  <2>1. PICK reply \in replies : view' = reply /\ replies' = replies \ {reply}
    BY <1>7 DEF UpdateSettlementCache
  <2>2. shownAt' = now /\ now' = now /\ faction' = faction /\ doc' = doc
    BY <1>7 DEF UpdateSettlementCache
  <2>3. IsReply(view', shownAt') /\ IsDocument(doc') /\ shownAt' \in 0..now'
    BY <1>1, <2>1, <2>2
  <2>4. \A other \in replies' : IsReply(other, now')
    BY <1>1, <2>1, <2>2
  <2>. QED
    BY <1>1, <2>2, <2>3, <2>4 DEF ClientTypeOK, IsReply
<1>8. CASE BuildComplete
  BY <1>1, <1>2, <1>8, CompletedDocument DEF BuildComplete
<1>9. CASE TrainingComplete
  BY <1>1, <1>2, <1>9, TrainedDocument DEF TrainingComplete
<1>10. CASE Besieged
  BY <1>1, <1>2, <1>10, BesiegedDocument DEF Besieged
<1>11. CASE SupportArrives
  BY <1>1, <1>2, <1>11, MarchedDocument DEF SupportArrives
<1>12. CASE SendMovement
  BY <1>1, <1>2, <1>12, MarchedDocument DEF SendMovement
<1>13. CASE Tick
  <2>1. now' = now + 1 /\ UNCHANGED << faction, doc, replies, view, shownAt >>
    BY <1>13 DEF Tick
  <2>2. now' \in Nat /\ shownAt \in 0..now' /\ 0..now \subseteq 0..now'
    BY <1>1, <2>1
  <2>3. \A reply \in replies : IsReply(reply, now')
    BY <1>1, <2>2 DEF IsReply
  <2>. QED
    BY <1>1, <2>1, <2>2, <2>3 DEF ClientTypeOK, IsReply
<1>14. CASE UNCHANGED clientVars
  BY <1>1, <1>14 DEF clientVars, ClientTypeOK, IsReply
<1>. QED
  BY <1>4, <1>5, <1>6, <1>7, <1>8, <1>9, <1>10, <1>11, <1>12, <1>13, <1>14 DEF ClientNext

------------------------------------------------------------------------------
\* The theorems of the base screen.

\* Whatever replies arrive in whatever order, both sides hold documents of a
\* settlement, with nothing below zero: what is bought was paid for by what
\* was settled first (startBuild, trainUnits).
THEOREM ClientTypes == ClientSpec => []ClientTypeOK
<1>1. ClientInit => ClientTypeOK
  BY ClientTypesStart
<1>2. ClientTypeOK /\ [ClientNext]_clientVars => ClientTypeOK'
  BY ClientTypesStep
<1>. QED
  BY <1>1, <1>2, PTL DEF ClientSpec

\* The rules of the screen (buildEligibility.ts, trainEligibility.ts) refuse
\* what the server (startBuild, trainUnits) would refuse, for the same reason.
THEOREM MirrorsAlwaysAgree == ClientSpec => []MirrorsAgree
<1>1. ClientTypeOK => MirrorsAgree
  BY MirrorsFollow
<1>. QED
  BY <1>1, ClientTypes, PTL

\* An order the late clock of the screen offers is accepted by the server,
\* whose clock is ahead, unless Food falls or something changed meanwhile.
THEOREM OffersAlwaysHonoured == ClientSpec => []OffersAreHonoured
<1>1. ClientTypeOK => OffersAreHonoured
  BY OffersFollow
<1>. QED
  BY <1>1, ClientTypes, PTL

\* The time msUntilAffordable names is the first at which the price is paid,
\* and what it never expects is not paid a tick, an hour or a day later (nor
\* ever: ForecastExact), while Food does not fall.
THEOREM ForecastsComeTrue == ClientSpec => []ForecastsHoldWhileFed
<1>1. ClientTypeOK => ForecastsHoldWhileFed
  BY ForecastsFollow
<1>. QED
  BY <1>1, ClientTypes, PTL

------------------------------------------------------------------------------
\* Settling often is settling once.

LEMMA GrownTwice ==
    ASSUME NEW v \in Nat, NEW rate \in Int, NEW cap \in Nat, NEW h \in Nat, NEW k \in Nat
    PROVE  Grown(Grown(v, rate, cap, h), rate, cap, k) = Grown(v, rate, cap, h + k)
<1>1. rate * h \in Int /\ rate * k \in Int /\ rate * (h + k) = rate * h + rate * k
  OBVIOUS
<1>2. CASE rate > 0
  <2>1. rate * h >= 0 /\ rate * k >= 0
    BY <1>2, Product
  <2>. QED
    BY <1>1, <1>2, <2>1 DEF Grown
<1>3. CASE rate <= 0
  <2>1. rate * h <= 0 /\ rate * k <= 0
    <3>1. (0 - rate) * h \in Nat /\ (0 - rate) * k \in Nat
      BY <1>3, Product
    <3>2. (0 - rate) * h = 0 - rate * h /\ (0 - rate) * k = 0 - rate * k
      OBVIOUS
    <3>. QED
      BY <1>1, <3>1, <3>2
  <2>. QED
    BY <1>1, <1>3, <2>1 DEF Grown
<1>. QED
  BY <1>2, <1>3

LEMMA SettlesTwice ==
    ASSUME NEW b, IsLevels(b), NEW troops, IsTroops(troops),
           NEW values \in [RESOURCE_KINDS -> Nat], NEW h \in Nat, NEW k \in Nat
    PROVE  settleResources(b, settleResources(b, values, h, troops), k, troops)
             = settleResources(b, values, h + k, troops)
<1>. DEFINE rates == calcNetRates(b, troops)
            caps == calcStorageCaps(b)
            mid == settleResources(b, values, h, troops)
<1>1. rates \in [RESOURCE_KINDS -> Int] /\ caps \in [RESOURCE_KINDS -> Nat]
  BY RatesInt, CapsNat
<1>2. mid \in [RESOURCE_KINDS -> Nat]
      /\ mid = [r \in RESOURCE_KINDS |-> Grown(values[r], rates[r], caps[r], h)]
  BY SettledNat, SettlesTo
<1>3. /\ settleResources(b, mid, k, troops)
           = [r \in RESOURCE_KINDS |-> Grown(mid[r], rates[r], caps[r], k)]
      /\ settleResources(b, values, h + k, troops)
           = [r \in RESOURCE_KINDS |-> Grown(values[r], rates[r], caps[r], h + k)]
  BY <1>2, SettlesTo
<1>. HIDE DEF rates, caps, mid
<1>4. \A r \in RESOURCE_KINDS : Grown(mid[r], rates[r], caps[r], k)
                                  = Grown(values[r], rates[r], caps[r], h + k)
  <2>. TAKE r \in RESOURCE_KINDS
  <2>1. values[r] \in Nat /\ rates[r] \in Int /\ caps[r] \in Nat
    BY <1>1
  <2>2. mid[r] = Grown(values[r], rates[r], caps[r], h)
    BY <1>2
  <2>3. Grown(Grown(values[r], rates[r], caps[r], h), rates[r], caps[r], k)
          = Grown(values[r], rates[r], caps[r], h + k)
    <3>. DEFINE v == values[r]
                rate == rates[r]
                cap == caps[r]
    <3>1. v \in Nat /\ rate \in Int /\ cap \in Nat
      BY <2>1
    <3>. HIDE DEF v, rate, cap
    <3>2. Grown(Grown(v, rate, cap, h), rate, cap, k) = Grown(v, rate, cap, h + k)
      BY <3>1, GrownTwice
    <3>. QED
      BY <3>2 DEF v, rate, cap
  <2>. QED
    BY <2>2, <2>3
<1>. QED
  BY <1>3, <1>4 DEF mid

\* Who asks for a settlement often (GET settlements/mine settles and stores)
\* finds in it what he would have found by asking once: settleDoc may be called
\* at any times between two that matter, or not at all.
THEOREM SettlingIsUnseen ==
    ASSUME NEW d, IsDocument(d), NEW s \in Int, NEW t \in Int, s <= t
    PROVE  settleDoc(settleDoc(d, s), t) = settleDoc(d, t)
<1>. DEFINE l == d.lastCalcAt
            troops == upkeepTroopsOf(d)
            Later(h) == settleResources(d.buildings, d.values, h, troops)
            mid == [d EXCEPT !.values = Later(s - l), !.lastCalcAt = s]
<1>1. /\ l \in Int /\ IsLevels(d.buildings) /\ IsTroops(troops)
      /\ d.values \in [RESOURCE_KINDS -> Nat]
  BY UpkeepTroops DEF IsDocument
<1>2. CASE s <= l
  <2>1. s - l <= 0
    BY <1>1, <1>2
  <2>2. settleDoc(d, s) = d
    BY <2>1 DEF settleDoc
  <2>. QED
    BY <2>2
<1>3. CASE s > l
  <2>1. settleDoc(d, s) = mid
    BY <1>1, <1>3 DEF settleDoc
  <2>2. settleDoc(d, t) = [d EXCEPT !.values = Later(t - l), !.lastCalcAt = t]
    BY <1>1, <1>3 DEF settleDoc
  <2>3. /\ mid.lastCalcAt = s /\ mid.buildings = d.buildings /\ mid.values = Later(s - l)
        /\ mid.troops = d.troops /\ mid.awayTroops = d.awayTroops
        /\ mid.stationedTroops = d.stationedTroops
    BY DEF IsDocument
  <2>4. upkeepTroopsOf(mid) = troops
    BY <2>3 DEF upkeepTroopsOf
  <2>5. CASE t = s
    <3>1. t - mid.lastCalcAt <= 0
      BY <2>3, <2>5
    <3>2. settleDoc(mid, t) = mid
      BY <3>1 DEF settleDoc
    <3>. QED
      BY <2>1, <2>2, <2>5, <3>2
  <2>6. CASE t > s
    <3>1. s - l \in Nat /\ t - s \in Nat /\ (s - l) + (t - s) = t - l
      BY <1>1, <1>3, <2>6
    <3>2. settleResources(d.buildings, Later(s - l), t - s, troops)
            = Later((s - l) + (t - s))
      BY <1>1, <3>1, SettlesTwice
    <3>3. ~(t - s <= 0)
      BY <2>6
    <3>. HIDE DEF mid
    <3>4. settleDoc(mid, t) = [mid EXCEPT !.values = Later(t - l), !.lastCalcAt = t]
      BY <2>3, <2>4, <3>1, <3>2, <3>3 DEF settleDoc
    <3>5. [mid EXCEPT !.values = Later(t - l), !.lastCalcAt = t]
            = [d EXCEPT !.values = Later(t - l), !.lastCalcAt = t]
      <4>. HIDE DEF Later
      <4>. QED
        BY DEF IsDocument, mid
    <3>. QED
      BY <2>1, <2>2, <3>4, <3>5
  <2>. QED
    BY <2>5, <2>6
<1>. QED
  BY <1>1, <1>2, <1>3
==============================================================================
