------------------------------ MODULE MCOutbox ------------------------------
(* Five rows against batches of two: one muted, one rejected for ever, and   *)
(* two attempts, so that two of the mishaps may dead-letter the heartbeat.    *)
EXTENDS Outbox

TheRows == 1..5
OneRowMuted == {2}
OneRowPoisoned == {1}
TheProviders == 1..2
TheBeats == 1..3
==============================================================================
