--------------------------- MODULE MCStreamFanout ---------------------------
(* StreamFanout on a small instance. *)
EXTENDS StreamFanout
CONSTANTS c1, c2
=============================================================================
