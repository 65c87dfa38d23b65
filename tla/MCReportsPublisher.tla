------------------------- MODULE MCReportsPublisher -------------------------
(* Four stream slots: a reconnect never finds all of them in use with two    *)
(* faults, however late the streams it replaced close.                       *)
EXTENDS ReportsPublisher

TheStreams == 1..4
==============================================================================
