----------------------------- MODULE MCDJMemory -----------------------------
(* DJMemory on a small instance. *)
EXTENDS DJMemory
CONSTANTS r1, h1, h2, o1
=============================================================================
