------------------------- MODULE MCFFmpegSupervisor -------------------------
(* FFmpegSupervisor on a small instance.  Processes, drain threads and       *)
(* workers are interchangeable and are reused, so a few stand for any number *)
(* in time.                                                                  *)
EXTENDS FFmpegSupervisor, TLC

Symmetry == Permutations(Procs) \cup Permutations(Drains)
            \cup Permutations(Workers)
=============================================================================
