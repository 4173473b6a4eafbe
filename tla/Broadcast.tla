------------------------------ MODULE Broadcast -----------------------------
(***************************************************************************)
(* What a listener is promised, with no threads, queue or callbacks: one   *)
(* thing is on air at a time; programmes come in breaks, whose parts air   *)
(* in order, each at most once, and the next break waits for the song of   *)
(* the one before; a station that is leaving may air one sign-off, once it *)
(* is closed airs nothing else, and after the sign-off nothing at all.     *)
(***************************************************************************)
EXTENDS Naturals

CONSTANTS Intents,   (* what identifies a break             *)
          NoId       (* of an item that belongs to no break *)

VARIABLES onAir,     (* the item taken for playing last             *)
          hours      (* "open", "leaving" (the DJ knows), "closed" *)

Parts == {"outro", "id", "intro", "song"}

Rank == [outro |-> 1, id |-> 2, intro |-> 3, song |-> 4]

Items == [type: Parts, intent: Intents, terminal: {FALSE}]
SignOffs == [type: {"announcement"}, intent: Intents, terminal: {TRUE}]
Greeting == [type |-> "announcement", intent |-> NoId, terminal |-> FALSE]
Silence  == [type |-> "none", intent |-> NoId, terminal |-> FALSE]

Init == onAir = Silence /\ hours = "open"

Greet ==
    /\ hours # "closed" /\ onAir = Silence
    /\ onAir' = Greeting
    /\ UNCHANGED hours

(* The next break may begin with any of its parts; a break that has begun   *)
(* only goes forward.                                                       *)
NextBreak(e) ==
    /\ onAir.type \in {"none", "announcement", "song"}
    /\ e.intent # onAir.intent

Continue(e) ==
    /\ e.intent = onAir.intent
    /\ onAir.type \in Parts
    /\ Rank[e.type] > Rank[onAir.type]

Air(e) ==
    /\ hours # "closed" /\ ~onAir.terminal
    /\ NextBreak(e) \/ Continue(e)
    /\ onAir' = e
    /\ UNCHANGED hours

Close ==
    /\ \/ hours = "open" /\ hours' = "leaving"
       \/ hours = "leaving" /\ hours' = "closed"
    /\ UNCHANGED onAir

SignOff(e) ==
    /\ hours # "open" /\ ~onAir.terminal
    /\ onAir' = e
    /\ UNCHANGED hours

Next ==
    \/ Greet \/ Close
    \/ \E e \in Items : Air(e)
    \/ \E e \in SignOffs : SignOff(e)

Spec == Init /\ [][Next]_<<onAir, hours>>
=============================================================================
