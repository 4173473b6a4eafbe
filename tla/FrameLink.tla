----------------------------- MODULE FrameLink ------------------------------
(***************************************************************************)
(* What the link between Station and Tower promises, with no bytes,        *)
(* sockets or threads: whole frames travel in the order they were sent,    *)
(* none twice, and none is lost on the way while Tower stays up, except    *)
(* that a full buffer gives up its oldest frame for the new one.           *)
(***************************************************************************)
EXTENDS Integers, Sequences

CONSTANTS MaxFrames,    (* programme frames are 1..MaxFrames, silence is 0 *)
          RingCapacity

VARIABLES up,           (* whether Tower is there                          *)
          inFlight,     (* frames sent and not yet in Tower's buffer       *)
          buffer,       (* Tower's buffer                                  *)
          sent          (* the last programme frame sent                   *)

Init == up = FALSE /\ inFlight = <<>> /\ buffer = <<>> /\ sent = 0

(* Silence may be sent at any time, programme only once and in order.       *)
Fresh(f) == f = 0 \/ f > sent
Latest(f) == IF f = 0 THEN sent ELSE f

Send(f) ==
    /\ up /\ Fresh(f)
    /\ inFlight' = Append(inFlight, f)
    /\ sent' = Latest(f)
    /\ UNCHANGED <<up, buffer>>

Deliver ==
    /\ up /\ inFlight # <<>>
    /\ buffer' = (IF Len(buffer) < RingCapacity THEN buffer ELSE Tail(buffer))
                 \o <<Head(inFlight)>>
    /\ inFlight' = Tail(inFlight)
    /\ UNCHANGED <<up, sent>>

Play ==
    /\ up /\ buffer # <<>>
    /\ buffer' = Tail(buffer)
    /\ UNCHANGED <<up, inFlight, sent>>

Rise == ~up /\ up' = TRUE /\ UNCHANGED <<inFlight, buffer, sent>>

Fall ==
    /\ up /\ up' = FALSE
    /\ inFlight' = <<>> /\ buffer' = <<>>
    /\ UNCHANGED sent

(* A frame sent to a Tower that is leaving is lost.                         *)
Lose(f) == ~up /\ Fresh(f) /\ sent' = Latest(f) /\ UNCHANGED <<up, inFlight, buffer>>

Next == Deliver \/ Play \/ Rise \/ Fall \/ \E f \in 0..MaxFrames : Send(f) \/ Lose(f)

Spec == Init /\ [][Next]_<<up, inFlight, buffer, sent>>

(* So nothing comes twice: what Tower holds and what it will get are        *)
(* programme frames in their order, whatever was lost, and the next to be   *)
(* sent is behind them all.                                                 *)
Carried == buffer \o inFlight
Rising(s) == \A i, j \in 1..Len(s) : i < j /\ s[i] # 0 /\ s[j] # 0 => s[i] < s[j]
OnceInOrder == Rising(Carried) /\ \A k \in 1..Len(Carried) : Carried[k] <= sent
=============================================================================
