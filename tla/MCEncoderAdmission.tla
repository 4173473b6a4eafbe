------------------------- MODULE MCEncoderAdmission -------------------------
(* Instances of EncoderAdmission for TLC. *)
EXTENDS EncoderAdmission
=============================================================================
