------------------------------ MODULE MCPcmLink -----------------------------
(* PcmLink on a small instance.  A connection is used again once it is free. *)
EXTENDS PcmLink
=============================================================================
