--------------------------- MODULE MCSegmentDecode ---------------------------
(* SegmentDecode on a small instance. *)
EXTENDS SegmentDecode
CONSTANTS w1, w2
=============================================================================
