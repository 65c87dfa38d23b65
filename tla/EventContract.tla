---------------------------- MODULE EventContract ----------------------------
(***************************************************************************)
(* What the game asks of its event scheduler, with no queue, no worker, no *)
(* lease and no retry in sight.  A command arms an aggregate (a queued     *)
(* build, an outbound movement, an open trade offer) together with one     *)
(* event.  The event's effect is applied at most once, never before the    *)
(* time it was scheduled for, and never after the command that cancels it. *)
(* Time is a countdown: wait[e] is what is left until the scheduled time.  *)
(***************************************************************************)
EXTENDS Naturals

CONSTANTS Events,     \* event ids
          MaxDelay    \* longest delay a command schedules

VARIABLES aggregate,  \* what the aggregate behind the event says
          effects,    \* how often the event's effect has been applied
          wait        \* time left until the time the event was scheduled for

cvars == <<aggregate, effects, wait>>

Init ==
    /\ aggregate = [e \in Events |-> "none"]
    /\ effects = [e \in Events |-> 0]
    /\ wait = [e \in Events |-> 0]

Arm(e) ==
    /\ aggregate[e] = "none"
    /\ aggregate' = [aggregate EXCEPT ![e] = "armed"]
    /\ \E d \in 0..MaxDelay : wait' = [wait EXCEPT ![e] = d]
    /\ UNCHANGED effects

Apply(e) ==
    /\ aggregate[e] = "armed"
    /\ wait[e] = 0
    /\ aggregate' = [aggregate EXCEPT ![e] = "applied"]
    /\ effects' = [effects EXCEPT ![e] = @ + 1]
    /\ UNCHANGED wait

Cancel(e) ==
    /\ aggregate[e] = "armed"
    /\ aggregate' = [aggregate EXCEPT ![e] = "cancelled"]
    /\ UNCHANGED <<effects, wait>>

Elapse ==
    /\ wait' = [e \in Events |-> IF wait[e] > 0 THEN wait[e] - 1 ELSE 0]
    /\ UNCHANGED <<aggregate, effects>>

Next == Elapse \/ \E e \in Events : Arm(e) \/ Apply(e) \/ Cancel(e)

Spec == Init /\ [][Next]_cvars
==============================================================================
