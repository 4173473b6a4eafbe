-------------------------------- MODULE Tape --------------------------------
(***************************************************************************)
(* What goes out, as a listener would have it: the frames of one segment   *)
(* after the other, each in its order and from its beginning.  A segment   *)
(* may end early or be left out.  Once the tape is cut, the segment on it  *)
(* may stop, jump or begin anew.                                           *)
(***************************************************************************)
EXTENDS Naturals

VARIABLES
    heard,  (* the last frame: its segment and its place, or <<0, 0>> *)
    cut

vars == <<heard, cut>>

Init == heard = <<0, 0>> /\ ~cut

Frame == Nat \X Nat

GoesOn == heard' = <<heard[1], heard[2] + 1>>

Changes == heard'[1] > heard[1] /\ heard'[2] = 1

Play ==
    /\ heard' \in Frame
    /\ cut \/ GoesOn \/ Changes
    /\ heard'[1] >= heard[1]
    /\ UNCHANGED cut

Cut == ~cut /\ cut' /\ UNCHANGED heard

Next == Play \/ Cut

Spec == Init /\ [][Next]_vars
=============================================================================
