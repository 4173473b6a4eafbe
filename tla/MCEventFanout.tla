--------------------------- MODULE MCEventFanout ---------------------------
(* EventFanout on a small instance. *)
EXTENDS EventFanout
CONSTANTS c1, i1, i2
=============================================================================
