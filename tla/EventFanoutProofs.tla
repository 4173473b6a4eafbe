------------------------- MODULE EventFanoutProofs -------------------------
(***************************************************************************)
(* Proofs about EventFanout, for any number of listeners and of ingests    *)
(* under way at a time, and any sizes of frames and buffers.               *)
(***************************************************************************)
EXTENDS EventFanout, TLAPS

(* What a handler and the broadcasts know of a client: until it is          *)
(* registered it is open and no broadcast has heard of it; a registered one *)
(* has a handler, and one that is closed is about to be taken out.          *)
ClientsKnow ==
    \A c \in Clients :
        /\ handler[c] \in {"none", "register", "done"} => c \notin registry
        /\ handler[c] = "register" => open[c]
        /\ handler[c] = "done" => ~open[c]
        /\ c \in registry => open[c] \/ \E i \in Ingests : c \in dead[i]

Unheard ==
    \A c \in Clients, i \in Ingests :
        handler[c] \in {"none", "register"} =>
            c \notin todo[i] /\ c \notin dead[i] /\ c \notin audience[i] /\ c # cur[i]

(* Where an ingest is: it has nobody on its lists before it copies the      *)
(* registry, and everybody in its audience is served, waiting, or given up. *)
IngestsKnow ==
    \A i \in Ingests :
        /\ ingest[i] \in {"idle", "read", "accepted"} => audience[i] = {} /\ dead[i] = {}
        /\ \A c \in audience[i] : Wants(c, event[i])
        /\ ingest[i] = "restore" => cur[i] \in got[i]
        /\ audience[i] \cap registry \subseteq got[i] \cup todo[i] \cup {cur[i]} \cup dead[i]

IInv == TypeOK /\ ClientsKnow /\ Unheard /\ IngestsKnow

-----------------------------------------------------------------------------
(* Types *)

LEMMA TypesStart == ASSUME Init PROVE TypeOK
<1>1. SendBuffer \in 0 .. SendBuffer
      BY EventAssumption DEF EventAssumption
<1> QED BY <1>1 DEF Init, TypeOK

(* What closing a set of sockets does to the types of the sockets. *)
LEMMA ClosedTypes ==
    ASSUME TypeOK, NEW S, Closed(S)
    PROVE  /\ open' \in [Clients -> BOOLEAN]
           /\ timeout' \in [Clients -> {"now", "timed", "forever"}]
           /\ room' \in [Clients -> 0 .. SendBuffer]
<1>1. \A c \in Clients : /\ open[c] \in BOOLEAN /\ timeout[c] \in {"now", "timed", "forever"}
                         /\ room[c] \in 0 .. SendBuffer
      BY DEF TypeOK
<1>2. SendBuffer \in 0 .. SendBuffer
      BY EventAssumption DEF EventAssumption
<1> QED BY <1>1, <1>2 DEF Closed

LEMMA GiveUpTypes ==
    ASSUME TypeOK, NEW i \in Ingests, NEW c \in Clients, GiveUp(i, c)
    PROVE  TypeOK'
<1>1. Closed({c})
      BY DEF GiveUp
<1>2. UNCHANGED <<serverVars, handler, peerVars, registry, eventVars>>
      BY DEF GiveUp
<1>3. /\ ingest' = [ingest EXCEPT ![i] = "visit"] /\ cur' = [cur EXCEPT ![i] = NoClient]
      /\ todo' = [todo EXCEPT ![i] = @ \ {c}] /\ dead' = [dead EXCEPT ![i] = @ \cup {c}]
      /\ was' = [was EXCEPT ![i] = FALSE]
      BY DEF GiveUp, Advance
<1> QED BY <1>1, <1>2, <1>3, ClosedTypes DEF TypeOK, serverVars, peerVars, eventVars

LEMMA TypesKept == ASSUME TypeOK, [Next]_vars PROVE TypeOK'
<1> USE EventAssumption DEF EventAssumption
<1>1. ASSUME NEW c \in Clients, Upgrade(c) PROVE TypeOK'
      BY <1>1 DEF TypeOK, Upgrade, Goto, running, serverVars, ingestVars, visitVars, eventVars
<1>2. ASSUME NEW c \in Clients, Listener(c) PROVE TypeOK'
  <2>1. CASE HangUp(c)
        BY <2>1 DEF TypeOK, HangUp, serverVars, sockVars, ingestVars, visitVars, eventVars
  <2>2. CASE Say(c)
        BY <2>2 DEF TypeOK, Say, serverVars, sockVars, ingestVars, visitVars, eventVars
  <2>3. CASE Read(c)
    <3>1. room'= [room EXCEPT ![c] = room[c] + 1] /\ room[c] + 1 \in 0 .. SendBuffer
          BY <2>3 DEF TypeOK, Read
    <3> QED BY <2>3, <3>1
            DEF TypeOK, Read, serverVars, peerVars, ingestVars, visitVars, eventVars
  <2> QED BY <1>2, <2>1, <2>2, <2>3 DEF Listener
<1>3. ASSUME NEW c \in Clients, Handler(c) PROVE TypeOK'
  <2> USE DEF Goto, Received, serverVars, ingestVars, visitVars, eventVars
  <2>1. CASE Register(c)
        BY <2>1 DEF TypeOK, Register, peerVars, sockVars
  <2>2. CASE Arm(c)
        BY <2>2 DEF TypeOK, Arm, peerVars
  <2>3. CASE Recv(c)
        BY <2>3 DEF TypeOK, Recv, sockVars
  <2>4. CASE Wake(c)
        BY <2>4 DEF TypeOK, Wake, sockVars
  <2>5. CASE RecvTimesOut(c)
        BY <2>5 DEF TypeOK, RecvTimesOut, peerVars, sockVars
  <2>6. CASE Answer(c)
    <3>1. room' \in [Clients -> 0 .. SendBuffer]
          BY <2>6 DEF TypeOK, Answer
    <3> QED BY <2>6, <3>1 DEF TypeOK, Answer, peerVars
  <2>7. CASE Leave(c)
    <3>1. Closed({c})
          BY <2>7 DEF Leave
    <3> QED BY <2>7, <3>1, ClosedTypes DEF TypeOK, Leave
  <2> QED BY <1>3, <2>1, <2>2, <2>3, <2>4, <2>5, <2>6, <2>7 DEF Handler
<1>4. ASSUME NEW i \in Ingests, Post(i) PROVE TypeOK'
      BY <1>4 DEF TypeOK, Post, Advance, serverVars, clientVars, peerVars, sockVars,
                  visitVars, eventVars
<1>5. ASSUME NEW i \in Ingests, Ingest(i) PROVE TypeOK'
  <2> USE DEF Advance, serverVars
  <2>1. CASE Reject(i)
        BY <2>1 DEF TypeOK, Reject, clientVars, peerVars, sockVars, visitVars, eventVars
  <2>2. ASSUME NEW e \in Posts, Accept(i, e) PROVE TypeOK'
        BY <2>2 DEF TypeOK, Accept, clientVars, peerVars, sockVars, visitVars
  <2>3. CASE Snapshot(i)
        BY <2>3 DEF TypeOK, Snapshot, clientVars, peerVars, sockVars
  <2>4. ASSUME NEW c \in Clients, Filter(i, c) PROVE TypeOK'
        BY <2>4 DEF TypeOK, Filter, clientVars, peerVars, sockVars, eventVars
  <2>5. ASSUME NEW c \in Clients, Select(i, c) PROVE TypeOK'
        BY <2>5 DEF TypeOK, Select, Selecting, peerVars, eventVars
  <2>6. ASSUME NEW c \in Clients, SelectFails(i, c) PROVE TypeOK'
        BY <2>6, GiveUpTypes DEF SelectFails
  <2>7. ingest[i] \in {"send", "restore"} => cur[i] \in Clients
        BY DEF TypeOK
  <2>8. CASE Send(i)
    <3>1. room[cur[i]] - FrameBytes \in 0 .. SendBuffer
          BY <2>7, <2>8 DEF TypeOK, Send
    <3> QED BY <2>7, <2>8, <3>1 DEF TypeOK, Send, peerVars, visitVars
  <2>9. CASE SendFails(i) \/ RestoreFails(i)
        BY <2>7, <2>9, GiveUpTypes DEF SendFails, RestoreFails
  <2>10. CASE Restore(i)
         BY <2>10 DEF TypeOK, Restore, peerVars, eventVars
  <2>11. CASE Sweep(i)
         BY <2>11 DEF TypeOK, Sweep, peerVars, sockVars, None
  <2> QED BY <1>5, <2>1, <2>2, <2>3, <2>4, <2>5, <2>6, <2>8, <2>9, <2>10, <2>11 DEF Ingest
<1>6. CASE Stop
      BY <1>6 DEF TypeOK, Stop, clientVars, peerVars, sockVars, ingestVars, visitVars, eventVars
<1>7. CASE CloseAll
      BY <1>7 DEF TypeOK, CloseAll, peerVars, sockVars, ingestVars, visitVars, eventVars
<1>8. CASE UNCHANGED vars
      BY <1>8 DEF TypeOK, vars, serverVars, clientVars, peerVars, sockVars, ingestVars,
                  visitVars, eventVars
<1> QED BY <1>1, <1>2, <1>3, <1>4, <1>5, <1>6, <1>7, <1>8 DEF Next

-----------------------------------------------------------------------------
(* What the handlers and the broadcasts know *)

(* Who may be given up has been heard of: his handler has registered him.   *)
LEMMA HeardOf ==
    ASSUME TypeOK, Unheard, NEW i \in Ingests, NEW c \in Clients,
           c \in todo[i] \/ c = cur[i]
    PROVE  handler[c] \notin {"none", "register"}
BY DEF Unheard

LEMMA GiveUpKeeps ==
    ASSUME TypeOK, ClientsKnow, Unheard, IngestsKnow,
           NEW i \in Ingests, NEW c \in Clients, GiveUp(i, c),
           handler[c] \notin {"none", "register"},
           ingest[i] \in {"visit", "send", "restore"},
           c \in todo[i] \/ c = cur[i], cur[i] \in {c, NoClient}
    PROVE  ClientsKnow' /\ Unheard' /\ IngestsKnow'
<1>1. /\ ingest' = [ingest EXCEPT ![i] = "visit"] /\ cur' = [cur EXCEPT ![i] = NoClient]
      /\ todo' = [todo EXCEPT ![i] = @ \ {c}] /\ dead' = [dead EXCEPT ![i] = @ \cup {c}]
      /\ open' = [d \in Clients |-> open[d] /\ d \notin {c}]
      /\ UNCHANGED <<handler, registry, event, audience, got>>
      BY DEF GiveUp, Advance, Closed, eventVars
<1>2. ClientsKnow'
  <2> SUFFICES ASSUME NEW d \in Clients
               PROVE  /\ handler[d] \in {"none", "register", "done"} => d \notin registry
                      /\ handler[d] = "register" => open'[d]
                      /\ handler[d] = "done" => ~open'[d]
                      /\ d \in registry => open'[d] \/ \E j \in Ingests : d \in dead'[j]
      BY <1>1 DEF ClientsKnow
  <2>1. \A j \in Ingests : dead[j] \subseteq dead'[j]
        BY <1>1 DEF TypeOK
  <2>2. c \in dead'[i]
        BY <1>1 DEF TypeOK
  <2>3. d # c => (open'[d] <=> open[d])
        BY <1>1
  <2>4. d = c => ~open'[d]
        BY <1>1
  <2> QED BY <2>1, <2>2, <2>3, <2>4 DEF ClientsKnow
<1>3. Unheard'
      BY <1>1, EventAssumption DEF Unheard, TypeOK, EventAssumption
<1>4. IngestsKnow'
  <2> SUFFICES ASSUME NEW j \in Ingests
               PROVE  /\ ingest'[j] \in {"idle", "read", "accepted"} => audience[j] = {} /\ dead'[j] = {}
                      /\ \A d \in audience[j] : Wants(d, event[j])
                      /\ ingest'[j] = "restore" => cur'[j] \in got[j]
                      /\ audience[j] \cap registry
                             \subseteq got[j] \cup todo'[j] \cup {cur'[j]} \cup dead'[j]
      BY <1>1 DEF IngestsKnow, Wants
  <2>1. CASE j = i
        BY <1>1, <2>1 DEF TypeOK, IngestsKnow
  <2>2. CASE j # i
        BY <1>1, <2>2 DEF TypeOK, IngestsKnow
  <2> QED BY <2>1, <2>2
<1> QED BY <1>2, <1>3, <1>4

(* A handler's step, and a listener's: it disturbs no list of an ingest. *)
LEMMA HandlerKeeps ==
    ASSUME TypeOK, ClientsKnow, Unheard, IngestsKnow, NEW c \in Clients,
           Upgrade(c) \/ Listener(c) \/ Handler(c)
    PROVE  ClientsKnow' /\ Unheard' /\ IngestsKnow'
<1>1. UNCHANGED <<ingest, event, todo, cur, dead, audience, got>>
      BY DEF Upgrade, Listener, HangUp, Say, Read, Handler, Register, Arm, Recv, Wake, RecvTimesOut,
             Answer, Leave, ingestVars, visitVars, eventVars
<1>2. CASE Upgrade(c)
  <2>1. /\ handler[c] = "none" /\ handler' = [handler EXCEPT ![c] = "register"]
        /\ open' = [open EXCEPT ![c] = TRUE] /\ registry' = registry
        BY <1>2 DEF Upgrade, Goto
  <2>2. ClientsKnow'
        BY <1>1, <2>1 DEF ClientsKnow, TypeOK
  <2>3. Unheard'
        BY <1>1, <2>1 DEF Unheard, TypeOK
  <2>4. IngestsKnow'
        BY <1>1, <2>1 DEF IngestsKnow, Wants
  <2> QED BY <2>2, <2>3, <2>4
<1>3. CASE Register(c)
  <2>1. /\ handler[c] = "register" /\ handler' = [handler EXCEPT ![c] = "top"]
        /\ open' = open /\ registry' = registry \cup {c}
        BY <1>3 DEF Register, Goto, sockVars
  <2>2. ClientsKnow'
        BY <1>1, <2>1 DEF ClientsKnow, TypeOK
  <2>3. Unheard'
        BY <1>1, <2>1 DEF Unheard, TypeOK
  <2>4. \A i \in Ingests : c \notin audience[i]
        BY <2>1 DEF Unheard
  <2>5. IngestsKnow'
        BY <1>1, <2>1, <2>4 DEF IngestsKnow, Wants
  <2> QED BY <2>2, <2>3, <2>5
<1>4. CASE Leave(c)
  <2>1. /\ handler' = [handler EXCEPT ![c] = "done"] /\ registry' = registry \ {c}
        /\ open' = [d \in Clients |-> open[d] /\ d \notin {c}]
        BY <1>4 DEF Leave, Goto, Closed
  <2>2. ClientsKnow'
        BY <1>1, <2>1 DEF ClientsKnow, TypeOK
  <2>3. Unheard'
        BY <1>1, <2>1 DEF Unheard, TypeOK
  <2>4. IngestsKnow'
        BY <1>1, <2>1 DEF IngestsKnow, Wants
  <2> QED BY <2>2, <2>3, <2>4
<1>5. CASE Listener(c)
  <2>1. UNCHANGED <<handler, open, registry>>
        BY <1>5 DEF Listener, HangUp, Say, Read, sockVars
  <2> QED BY <1>1, <2>1 DEF ClientsKnow, Unheard, IngestsKnow, Wants
<1>6. CASE Arm(c) \/ Recv(c) \/ Wake(c) \/ RecvTimesOut(c) \/ Answer(c)
  <2>1. /\ handler[c] \notin {"none", "register", "done"}
        /\ \E h \in {"top", "recv", "wait", "hang", "answer", "leave"} :
              handler' = [handler EXCEPT ![c] = h]
        /\ UNCHANGED <<open, registry>>
        BY <1>6 DEF Arm, Recv, Wake, RecvTimesOut, Answer, Goto, Received, sockVars
  <2>2. ClientsKnow'
        BY <1>1, <2>1 DEF ClientsKnow, TypeOK
  <2>3. Unheard'
        BY <1>1, <2>1 DEF Unheard, TypeOK
  <2>4. IngestsKnow'
        BY <1>1, <2>1 DEF IngestsKnow, Wants
  <2> QED BY <2>2, <2>3, <2>4
<1> QED BY <1>2, <1>3, <1>4, <1>5, <1>6 DEF Handler

(* A step of an ingest: it touches no handler. *)
LEMMA IngestKeeps ==
    ASSUME TypeOK, ClientsKnow, Unheard, IngestsKnow, NEW i \in Ingests,
           Post(i) \/ Ingest(i)
    PROVE  ClientsKnow' /\ Unheard' /\ IngestsKnow'
<1>0. /\ ingest[i] \in {"send", "restore"} => cur[i] \in Clients
      /\ ingest[i] \notin {"send", "restore"} => cur[i] = NoClient
      BY EventAssumption DEF TypeOK, EventAssumption
<1>1. CASE Post(i) \/ Reject(i)
  <2>1. /\ ingest[i] \in {"idle", "read"}
        /\ \E s \in {"idle", "read"} : ingest' = [ingest EXCEPT ![i] = s]
        /\ UNCHANGED <<handler, open, registry, event, todo, cur, dead, audience, got>>
        BY <1>1 DEF Post, Reject, Advance, clientVars, sockVars, visitVars, eventVars
  <2>2. ClientsKnow' /\ Unheard'
        BY <2>1 DEF ClientsKnow, Unheard
  <2>3. IngestsKnow'
        BY <2>1 DEF IngestsKnow, Wants, TypeOK
  <2> QED BY <2>2, <2>3
<1>2. ASSUME NEW e \in Posts, Accept(i, e) PROVE ClientsKnow' /\ Unheard' /\ IngestsKnow'
  <2>1. /\ ingest[i] = "read" /\ ingest' = [ingest EXCEPT ![i] = "accepted"]
        /\ event' = [event EXCEPT ![i] = e]
        /\ UNCHANGED <<handler, open, registry, todo, cur, dead, audience, got>>
        BY <1>2 DEF Accept, Advance, clientVars, sockVars, visitVars
  <2>2. ClientsKnow' /\ Unheard'
        BY <2>1 DEF ClientsKnow, Unheard
  <2>3. IngestsKnow'
        BY <2>1 DEF IngestsKnow, Wants, TypeOK
  <2> QED BY <2>2, <2>3
<1>3. CASE Snapshot(i)
  <2>1. /\ ingest[i] = "accepted" /\ ingest' = [ingest EXCEPT ![i] = "visit"]
        /\ todo' = [todo EXCEPT ![i] = registry]
        /\ audience' = [audience EXCEPT ![i] = {c \in registry : Wants(c, event[i])}]
        /\ UNCHANGED <<handler, open, registry, cur, dead, event, got>>
        BY <1>3 DEF Snapshot, Advance, clientVars, sockVars
  <2>2. ClientsKnow'
        BY <2>1 DEF ClientsKnow
  <2>3. Unheard'
    <3>1. \A c \in Clients : handler[c] \in {"none", "register"} => c \notin registry
          BY DEF ClientsKnow
    <3> QED BY <2>1, <3>1 DEF Unheard, TypeOK
  <2>4. IngestsKnow'
        BY <2>1 DEF IngestsKnow, Wants, TypeOK
  <2> QED BY <2>2, <2>3, <2>4
<1>4. ASSUME NEW c \in Clients, Filter(i, c) PROVE ClientsKnow' /\ Unheard' /\ IngestsKnow'
  <2>1. /\ ingest[i] = "visit" /\ ~Wants(c, event[i])
        /\ todo' = [todo EXCEPT ![i] = @ \ {c}]
        /\ UNCHANGED <<handler, open, registry, ingest, cur, dead, event, audience, got>>
        BY <1>4 DEF Filter, clientVars, sockVars, eventVars
  <2>2. ClientsKnow' /\ Unheard'
        BY <2>1 DEF ClientsKnow, Unheard, TypeOK
  <2>3. c \notin audience[i]
        BY <2>1 DEF IngestsKnow
  <2>4. IngestsKnow'
        BY <2>1, <2>3 DEF IngestsKnow, Wants, TypeOK
  <2> QED BY <2>2, <2>4
<1>5. ASSUME NEW c \in Clients, Select(i, c) PROVE ClientsKnow' /\ Unheard' /\ IngestsKnow'
  <2>1. /\ ingest[i] = "visit" /\ c \in todo[i] /\ ingest' = [ingest EXCEPT ![i] = "send"]
        /\ todo' = [todo EXCEPT ![i] = @ \ {c}] /\ cur' = [cur EXCEPT ![i] = c]
        /\ UNCHANGED <<handler, open, registry, dead, event, audience, got>>
        BY <1>5 DEF Select, Selecting, Advance, eventVars
  <2>2. ClientsKnow'
        BY <2>1 DEF ClientsKnow
  <2>3. Unheard'
        BY <2>1 DEF Unheard, TypeOK
  <2>4. IngestsKnow'
    <3> SUFFICES ASSUME NEW j \in Ingests
                 PROVE  /\ ingest'[j] \in {"idle", "read", "accepted"}
                              => audience[j] = {} /\ dead[j] = {}
                        /\ ingest'[j] = "restore" => cur'[j] \in got[j]
                        /\ audience[j] \cap registry
                               \subseteq got[j] \cup todo'[j] \cup {cur'[j]} \cup dead[j]
        BY <2>1 DEF IngestsKnow, Wants
    <3>1. audience[j] \cap registry \subseteq Clients /\ cur[i] = NoClient /\ NoClient \notin Clients
          BY <1>0, <2>1, EventAssumption DEF TypeOK, EventAssumption
    <3>2. CASE j = i
          BY <2>1, <3>1, <3>2 DEF IngestsKnow, TypeOK
    <3>3. CASE j # i
          BY <2>1, <3>3 DEF IngestsKnow, TypeOK
    <3> QED BY <3>2, <3>3
  <2> QED BY <2>2, <2>3, <2>4
<1>6. ASSUME NEW c \in Clients, SelectFails(i, c)
      PROVE  ClientsKnow' /\ Unheard' /\ IngestsKnow'
  <2>1. ingest[i] = "visit" /\ c \in todo[i] /\ GiveUp(i, c) /\ cur[i] = NoClient
        BY <1>0, <1>6 DEF SelectFails, Selecting
  <2> QED BY <2>1, HeardOf, GiveUpKeeps
<1>7. CASE Send(i)
  <2>1. /\ ingest[i] = "send" /\ ingest' = [ingest EXCEPT ![i] = "restore"]
        /\ got' = [got EXCEPT ![i] = @ \cup {cur[i]}]
        /\ UNCHANGED <<handler, open, registry, todo, cur, dead, event, audience>>
        BY <1>7 DEF Send, Advance, visitVars
  <2>2. ClientsKnow' /\ Unheard'
        BY <2>1 DEF ClientsKnow, Unheard
  <2>3. IngestsKnow'
        BY <2>1 DEF IngestsKnow, Wants, TypeOK
  <2> QED BY <2>2, <2>3
<1>8. CASE SendFails(i) \/ RestoreFails(i)
  <2>1. ingest[i] \in {"send", "restore"} /\ GiveUp(i, cur[i]) /\ cur[i] \in Clients
        BY <1>0, <1>8 DEF SendFails, RestoreFails
  <2> QED BY <2>1, HeardOf, GiveUpKeeps
<1>9. CASE Restore(i)
  <2>1. /\ ingest[i] = "restore" /\ ingest' = [ingest EXCEPT ![i] = "visit"]
        /\ cur' = [cur EXCEPT ![i] = NoClient]
        /\ UNCHANGED <<handler, open, registry, todo, dead, event, audience, got>>
        BY <1>9 DEF Restore, Advance, eventVars
  <2>2. ClientsKnow'
        BY <2>1 DEF ClientsKnow
  <2>3. Unheard'
        BY <2>1, EventAssumption DEF Unheard, TypeOK, EventAssumption
  <2>4. IngestsKnow'
        BY <2>1 DEF IngestsKnow, Wants, TypeOK
  <2> QED BY <2>2, <2>3, <2>4
<1>10. CASE Sweep(i)
  <2>1. /\ ingest' = [ingest EXCEPT ![i] = "idle"] /\ registry' = registry \ dead[i]
        /\ dead' = [dead EXCEPT ![i] = {}] /\ event' = [event EXCEPT ![i] = None]
        /\ audience' = [audience EXCEPT ![i] = {}] /\ got' = [got EXCEPT ![i] = {}]
        /\ UNCHANGED <<handler, open, todo, cur>>
        BY <1>10 DEF Sweep, Advance, sockVars
  <2>2. ClientsKnow'
    <3> SUFFICES ASSUME NEW c \in Clients, c \in registry \ dead[i]
                 PROVE  open[c] \/ \E j \in Ingests : c \in dead'[j]
        BY <2>1 DEF ClientsKnow
    <3> QED BY <2>1 DEF ClientsKnow, TypeOK
  <2>3. Unheard'
        BY <2>1 DEF Unheard, TypeOK
  <2>4. IngestsKnow'
        BY <2>1 DEF IngestsKnow, Wants, TypeOK
  <2> QED BY <2>2, <2>3, <2>4
<1> QED BY <1>1, <1>2, <1>3, <1>4, <1>5, <1>6, <1>7, <1>8, <1>9, <1>10 DEF Ingest

-----------------------------------------------------------------------------
(* The theorems *)

(* The inductive invariant. *)
THEOREM Invariance == Spec => []IInv
<1>1. Init => IInv
  <2> SUFFICES ASSUME Init PROVE IInv
      OBVIOUS
  <2>1. ClientsKnow /\ Unheard /\ IngestsKnow
        BY EventAssumption DEF Init, ClientsKnow, Unheard, IngestsKnow, EventAssumption
  <2> QED BY <2>1, TypesStart DEF IInv
<1>2. IInv /\ [Next]_vars => IInv'
  <2> SUFFICES ASSUME IInv, [Next]_vars PROVE ClientsKnow' /\ Unheard' /\ IngestsKnow'
      BY TypesKept DEF IInv
  <2>1. CASE Stop \/ UNCHANGED vars
    <3>1. UNCHANGED <<clientVars, ingestVars>>
          BY <2>1 DEF Stop, vars
    <3> QED BY <3>1
            DEF IInv, ClientsKnow, Unheard, IngestsKnow, Wants, clientVars, sockVars, ingestVars,
                visitVars, eventVars
  <2>2. CASE CloseAll
    <3>1. registry' = {} /\ UNCHANGED <<handler, sockVars, ingestVars>>
          BY <2>2 DEF CloseAll
    <3> QED BY <3>1
            DEF IInv, ClientsKnow, Unheard, IngestsKnow, Wants, sockVars, ingestVars,
                visitVars, eventVars
  <2> QED BY <2>1, <2>2, HandlerKeeps, IngestKeeps DEF IInv, Next
<1> QED BY <1>1, <1>2, PTL DEF Spec

(* Every variable keeps its type. *)
THEOREM TypeCorrect == Spec => []TypeOK
<1>1. IInv => TypeOK
      BY DEF IInv
<1> QED BY <1>1, Invariance, PTL

(* Handlers, any number of broadcasts and stop() close sockets and take     *)
(* clients out in any order, and the registry stays true to them.           *)
THEOREM RegistryTrue == Spec => []RegistryIsTrue
<1>1. IInv => RegistryIsTrue
      BY DEF IInv, TypeOK, ClientsKnow, RegistryIsTrue
<1> QED BY <1>1, Invariance, PTL

(* However many events are sent at a time, each reaches or drops everybody  *)
(* it is for.                                                               *)
THEOREM EventReachesAll == Spec => []EventsReachAll
<1>1. IInv => EventsReachAll
      BY DEF IInv, IngestsKnow, EventsReachAll
<1> QED BY <1>1, Invariance, PTL

(* Nobody is given up for what another listener or another event does.      *)
THEOREM OnlyStalled == Spec => OnlyStalledAreDropped
<1> DEFINE Justly == \A i \in Ingests : \A c \in dead'[i] \ dead[i] :
                         ~open[c] \/ peer[c] = "gone" \/ room[c] < FrameBytes
<1>1. IInv /\ [Next]_vars => Justly
  <2> SUFFICES ASSUME IInv, [Next]_vars, NEW j \in Ingests, NEW d \in dead'[j] \ dead[j]
               PROVE  ~open[d] \/ peer[d] = "gone" \/ room[d] < FrameBytes
      OBVIOUS
  <2>1. ASSUME NEW i \in Ingests, NEW c \in Clients, GiveUp(i, c) PROVE d = c
        BY <2>1 DEF GiveUp, IInv, TypeOK
  <2>2. ASSUME NEW i \in Ingests, NEW c \in Clients, SelectFails(i, c)
        PROVE  ~open[d] \/ peer[d] = "gone" \/ room[d] < FrameBytes
        BY <2>1, <2>2, EventAssumption DEF SelectFails, Stalled, EventAssumption
  <2>3. ASSUME NEW i \in Ingests, SendFails(i) \/ RestoreFails(i)
        PROVE  ~open[d] \/ peer[d] = "gone" \/ room[d] < FrameBytes
    <3>1. GiveUp(i, cur[i]) /\ cur[i] \in Clients
          BY <2>3, EventAssumption DEF SendFails, RestoreFails, IInv, TypeOK, EventAssumption
    <3> QED BY <2>1, <2>3, <3>1 DEF SendFails, RestoreFails
  <2>4. ASSUME NEW i \in Ingests, Sweep(i) PROVE FALSE
        BY <2>4 DEF Sweep, IInv, TypeOK
  <2>5. dead' # dead
        OBVIOUS
  <2> QED BY <2>2, <2>3, <2>4, <2>5
          DEF Next, Listener, Handler, Ingest, Upgrade, HangUp, Say, Read, Register, Arm, Recv,
              Wake, RecvTimesOut, Answer, Leave, Post, Reject, Accept, Snapshot, Filter, Select,
              Send, Restore, Stop, CloseAll, vars, ingestVars, visitVars
<1>2. IInv /\ [Next]_vars => [Justly]_vars
      BY <1>1
<1> QED BY <1>2, Invariance, PTL DEF Spec, OnlyStalledAreDropped

(* A silent listener keeps his handler, whatever timeout a broadcast leaves *)
(* on his socket, but for the non-blocking recv() that the property excepts.*)
THEOREM IdleKept == Spec => IdleIsKept
<1> DEFINE Kept == \A c \in Clients : handler[c] # "leave" /\ handler'[c] = "leave" =>
                      ~running \/ ~open[c] \/ peer[c] = "gone" \/ timeout[c] = "now"
<1>1. IInv /\ [Next]_vars => Kept
  <2> SUFFICES ASSUME IInv, [Next]_vars, NEW d \in Clients,
                      handler[d] # "leave", handler'[d] = "leave"
               PROVE  ~running \/ ~open[d] \/ peer[d] = "gone" \/ timeout[d] = "now"
      OBVIOUS
  <2>1. handler \in [Clients -> {"none", "register", "top", "recv", "wait", "hang",
                                 "answer", "leave", "done"}]
        BY DEF IInv, TypeOK
  <2>2. ASSUME NEW c \in Clients, Arm(c)
        PROVE  ~running \/ ~open[d]
        BY <2>1, <2>2 DEF Arm, Goto
  <2>3. ASSUME NEW c \in Clients, Recv(c)
        PROVE  ~open[d] \/ peer[d] = "gone" \/ timeout[d] = "now"
        BY <2>1, <2>3 DEF Recv, Goto, Received, Heard
  <2>4. ASSUME NEW c \in Clients, Wake(c)
        PROVE  ~open[d] \/ peer[d] = "gone"
        BY <2>1, <2>4 DEF Wake, Goto, Received, Heard
  <2>5. ASSUME NEW c \in Clients,
               Upgrade(c) \/ Register(c) \/ RecvTimesOut(c) \/ Answer(c) \/ Leave(c)
        PROVE  FALSE
        BY <2>1, <2>5 DEF Upgrade, Register, RecvTimesOut, Answer, Leave, Goto
  <2>6. handler' # handler
        OBVIOUS
  <2> QED BY <2>2, <2>3, <2>4, <2>5, <2>6
          DEF Next, Listener, Handler, Ingest, HangUp, Say, Read, Post, Reject, Accept, Snapshot,
              Filter, Select, SelectFails, GiveUp, Send, SendFails, Restore, RestoreFails, Sweep,
              Stop, CloseAll, vars, clientVars
<1>2. IInv /\ [Next]_vars => [Kept]_vars
      BY <1>1
<1> QED BY <1>2, Invariance, PTL DEF Spec, IdleIsKept
=============================================================================
