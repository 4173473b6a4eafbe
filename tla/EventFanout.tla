---------------------------- MODULE EventFanout ----------------------------
(***************************************************************************)
(* How Tower's HTTPServer passes Station's events on to the listeners of   *)
(* /tower/events.  Station POSTs an event to /tower/events/ingest; the     *)
(* thread of that connection reads and validates it, copies the registry,  *)
(* and sends the event to one WebSocket after the other.  Station gives up *)
(* after 100 ms and posts its next event on another connection, so several *)
(* ingests may be under way at a time.  Every WebSocket has a handler      *)
(* thread, which registers it and then polls it for what the listener has  *)
(* to say.                                                                 *)
(*                                                                         *)
(* Both kinds of thread use one socket object, and set and depend on its   *)
(* timeout: a broadcast makes it "now" for its send and restores what      *)
(* getblocking() told it, which is "now" or, in place of the handler's     *)
(* 1 s, "forever"; the handler makes it "timed" before each recv().  No    *)
(* lock covers that: _event_clients_lock covers the registry only.         *)
(***************************************************************************)
EXTENDS Integers

CONSTANTS
    Clients,     (* connections to /tower/events                              *)
    Readers,     (* those whose listener keeps reading                        *)
    SongOnly,    (* those that asked for ?event_type=song_playing             *)
    Ingests,     (* threads that serve a POST to /tower/events/ingest         *)
    NoClient,
    FrameBytes,  (* of an event; a pong or a Close frame takes one            *)
    SendBuffer,  (* bytes the system buffers for a connection                 *)
    Posts        (* the types of the events Station posts                     *)

CriticalEvents == {"station_startup", "station_shutdown"}
EventTypes == CriticalEvents \cup {"song_playing", "segment_playing"}

ASSUME EventAssumption ==
    /\ Readers \subseteq Clients /\ SongOnly \subseteq Clients
    /\ Posts \subseteq EventTypes
    /\ NoClient \notin Clients
    /\ FrameBytes \in Nat \ {0} /\ SendBuffer \in Nat /\ SendBuffer >= FrameBytes

VARIABLES
    server,      (* HTTPServer: "up", "stopping", "stopped"                   *)
    stationDown, (* EventBroadcaster._station_shutting_down                   *)
    handler,     (* where a WebSocket's handler thread is                     *)
    peer,        (* the listener: "absent", "here", "gone"                    *)
    said,        (* whether a frame of his is yet to be received              *)
    open,        (* whether Tower's end of the connection is open             *)
    timeout,     (* of the socket object: "now", "timed", "forever"           *)
    room,        (* bytes its send buffer still takes                         *)
    registry,    (* the keys of _event_clients                                *)
    ingest,      (* where an ingest's thread is                               *)
    event,       (* the type of its event; None until one is accepted         *)
    todo,        (* clients_copy, as far as it is not visited yet             *)
    cur,         (* the client it is sending to                               *)
    was,         (* was_blocking                                              *)
    dead,        (* dead_clients                                              *)
    audience,    (* history: the clients its event is for                     *)
    got          (* history: those whose socket took it, all of it            *)

serverVars == <<server, stationDown>>
peerVars == <<peer, said>>
sockVars == <<open, timeout, room>>
clientVars == <<handler, peerVars, sockVars, registry>>
visitVars == <<todo, cur, was, dead>>
eventVars == <<event, audience, got>>
ingestVars == <<ingest, visitVars, eventVars>>
vars == <<serverVars, clientVars, ingestVars>>

None == "none"

Init ==
    /\ server = "up" /\ stationDown = FALSE
    /\ handler = [c \in Clients |-> "none"]
    /\ peer = [c \in Clients |-> "absent"] /\ said = [c \in Clients |-> FALSE]
    /\ open = [c \in Clients |-> FALSE] /\ timeout = [c \in Clients |-> "forever"]
    /\ room = [c \in Clients |-> SendBuffer] /\ registry = {}
    /\ ingest = [i \in Ingests |-> "idle"] /\ event = [i \in Ingests |-> None]
    /\ todo = [i \in Ingests |-> {}] /\ cur = [i \in Ingests |-> NoClient]
    /\ was = [i \in Ingests |-> FALSE] /\ dead = [i \in Ingests |-> {}]
    /\ audience = [i \in Ingests |-> {}] /\ got = [i \in Ingests |-> {}]

running == server = "up"

-----------------------------------------------------------------------------
(* Listeners and the network *)

HangUp(c) ==
    /\ peer[c] = "here"
    /\ peer' = [peer EXCEPT ![c] = "gone"]
    /\ UNCHANGED <<serverVars, handler, said, sockVars, registry, ingestVars>>

(* A ping or a Close: either is answered, and the handler goes on. *)
Say(c) ==
    /\ peer[c] = "here" /\ ~said[c]
    /\ said' = [said EXCEPT ![c] = TRUE]
    /\ UNCHANGED <<serverVars, handler, peer, sockVars, registry, ingestVars>>

Read(c) ==
    /\ open[c] /\ peer[c] = "here" /\ room[c] < SendBuffer
    /\ room' = [room EXCEPT ![c] = @ + 1]
    /\ UNCHANGED <<serverVars, handler, peerVars, open, timeout, registry, ingestVars>>

-----------------------------------------------------------------------------
(* A WebSocket's handler thread *)

Goto(c, h) == handler' = [handler EXCEPT ![c] = h]

(* The request is routed, and answered before the client is registered. *)
Upgrade(c) ==
    /\ running /\ handler[c] = "none"
    /\ Goto(c, "register")
    /\ peer' = [peer EXCEPT ![c] = "here"]
    /\ open' = [open EXCEPT ![c] = TRUE]
    /\ UNCHANGED <<serverVars, said, timeout, room, registry, ingestVars>>

Register(c) ==
    /\ handler[c] = "register"
    /\ Goto(c, "top")
    /\ registry' = registry \cup {c}
    /\ UNCHANGED <<serverVars, peerVars, sockVars, ingestVars>>

(* The head of the loop and settimeout(1.0), which a closed socket refuses. *)
Arm(c) ==
    /\ handler[c] = "top"
    /\ IF running /\ open[c]
       THEN /\ Goto(c, "recv")
            /\ timeout' = [timeout EXCEPT ![c] = "timed"]
       ELSE Goto(c, "leave") /\ UNCHANGED timeout
    /\ UNCHANGED <<serverVars, peerVars, open, room, registry, ingestVars>>

(* A plausible slip: the end of the stream is taken for an empty frame. *)
Received_NoEof(c) ==
    IF ~open[c] THEN "leave" ELSE IF said[c] THEN "answer" ELSE "top"

(* What recv() comes back with: a frame, or an error or the end of stream.  *)
Received(c) == IF said[c] /\ open[c] THEN "answer" ELSE "leave"

Heard(c) == said[c] \/ peer[c] = "gone"

(* recv() goes by the timeout it finds, and keeps to it.  With "now" and    *)
(* nothing to receive it raises BlockingIOError: an OSError, and no timeout.*)
Recv(c) ==
    /\ handler[c] = "recv"
    /\ Goto(c, IF Heard(c) \/ ~open[c] \/ timeout[c] = "now" THEN Received(c)
               ELSE IF timeout[c] = "timed" THEN "wait" ELSE "hang")
    /\ said' = [said EXCEPT ![c] = FALSE]
    /\ UNCHANGED <<serverVars, peer, sockVars, registry, ingestVars>>

(* A socket that is closed meanwhile wakes nobody.                          *)
Wake(c) ==
    /\ handler[c] \in {"wait", "hang"}
    /\ Heard(c)
    /\ Goto(c, Received(c))
    /\ said' = [said EXCEPT ![c] = FALSE]
    /\ UNCHANGED <<serverVars, peer, sockVars, registry, ingestVars>>

(* A plausible slip: a second of silence ends the connection. *)
RecvTimesOut_Leaves(c) ==
    /\ handler[c] = "wait" /\ ~said[c]
    /\ Goto(c, "leave")
    /\ UNCHANGED <<serverVars, peerVars, sockVars, registry, ingestVars>>

RecvTimesOut(c) ==
    /\ handler[c] = "wait" /\ ~said[c]
    /\ Goto(c, "top")
    /\ UNCHANGED <<serverVars, peerVars, sockVars, registry, ingestVars>>

(* sendall() of a pong or a Close frame; what it raises is swallowed.       *)
Answer(c) ==
    /\ handler[c] = "answer"
    /\ \/ /\ open[c] /\ room[c] > 0
          /\ room' = [room EXCEPT ![c] = @ - 1]
       \/ /\ ~open[c] \/ peer[c] = "gone" \/ (room[c] = 0 /\ timeout[c] # "forever")
          /\ UNCHANGED room
    /\ Goto(c, "top")
    /\ UNCHANGED <<serverVars, peerVars, open, timeout, registry, ingestVars>>

(* The sockets of the clients of S are closed.                              *)
Closed(S) ==
    /\ open' = [c \in Clients |-> open[c] /\ c \notin S]
    /\ timeout' = [c \in Clients |-> IF c \in S THEN "forever" ELSE timeout[c]]
    /\ room' = [c \in Clients |-> IF c \in S THEN SendBuffer ELSE room[c]]

(* A plausible slip: the handler leaves its client to the next broadcast. *)
Leave_Kept(c) ==
    /\ handler[c] = "leave"
    /\ Goto(c, "done")
    /\ Closed({c})
    /\ peer' = [peer EXCEPT ![c] = "gone"]
    /\ said' = [said EXCEPT ![c] = FALSE]
    /\ UNCHANGED <<serverVars, registry, ingestVars>>

(* The finally clause. *)
Leave(c) ==
    /\ handler[c] = "leave"
    /\ Goto(c, "done")
    /\ registry' = registry \ {c}
    /\ Closed({c})
    /\ peer' = [peer EXCEPT ![c] = "gone"]
    /\ said' = [said EXCEPT ![c] = FALSE]
    /\ UNCHANGED <<serverVars, ingestVars>>

-----------------------------------------------------------------------------
(* An ingest's thread *)

Advance(i, s) == ingest' = [ingest EXCEPT ![i] = s]

Post(i) ==
    /\ running /\ ingest[i] = "idle"
    /\ Advance(i, "read")
    /\ UNCHANGED <<serverVars, clientVars, visitVars, eventVars>>

(* The request is no POST, its header or its body is too long, malformed    *)
(* or late, or validate_event() refuses it.                                 *)
Reject(i) ==
    /\ ingest[i] = "read"
    /\ Advance(i, "idle")
    /\ UNCHANGED <<serverVars, clientVars, visitVars, eventVars>>

(* validate_event(), and update_shutdown_state() for the two that count.    *)
Accept(i, e) ==
    /\ ingest[i] = "read"
    /\ Advance(i, "accepted")
    /\ event' = [event EXCEPT ![i] = e]
    /\ stationDown' = IF e \in CriticalEvents THEN e = "station_shutdown" ELSE stationDown
    /\ UNCHANGED <<server, clientVars, visitVars, audience, got>>

Wants(c, e) == c \in SongOnly => e = "song_playing"

(* The registry is copied under its lock, and the lock let go. *)
Snapshot(i) ==
    /\ ingest[i] = "accepted"
    /\ Advance(i, "visit")
    /\ todo' = [todo EXCEPT ![i] = registry]
    /\ audience' = [audience EXCEPT ![i] = {c \in registry : Wants(c, event[i])}]
    /\ UNCHANGED <<serverVars, clientVars, cur, was, dead, event, got>>

Filter(i, c) ==
    /\ ingest[i] = "visit" /\ c \in todo[i] /\ ~Wants(c, event[i])
    /\ todo' = [todo EXCEPT ![i] = @ \ {c}]
    /\ UNCHANGED <<serverVars, clientVars, ingest, cur, was, dead, eventVars>>

(* The client is given up: a Close frame if there is room, and the end. *)
GiveUp(i, c) ==
    /\ Advance(i, "visit")
    /\ todo' = [todo EXCEPT ![i] = @ \ {c}]
    /\ cur' = [cur EXCEPT ![i] = NoClient] /\ was' = [was EXCEPT ![i] = FALSE]
    /\ dead' = [dead EXCEPT ![i] = @ \cup {c}]
    /\ Closed({c})
    /\ UNCHANGED <<serverVars, handler, peerVars, registry, eventVars>>

Selecting(i, c) == ingest[i] = "visit" /\ c \in todo[i] /\ Wants(c, event[i])

(* A plausible slip: select() does not wait the 250 ms, or not for writing. *)
Stalled_Guess(c) == room[c] < SendBuffer

(* select() has seen no room for 250 ms, or is given a closed socket.       *)
Stalled(c) == ~open[c] \/ (room[c] = 0 /\ peer[c] = "here")

(* A plausible slip: who has no room is left out this time, and stays. *)
SelectFails_Skip(i, c) ==
    /\ Selecting(i, c) /\ Stalled(c)
    /\ todo' = [todo EXCEPT ![i] = @ \ {c}]
    /\ UNCHANGED <<serverVars, clientVars, ingest, cur, was, dead, eventVars>>

SelectFails(i, c) == Selecting(i, c) /\ Stalled(c) /\ GiveUp(i, c)

(* There is room: getblocking(), and setblocking(False).                    *)
Select(i, c) ==
    /\ Selecting(i, c) /\ open[c] /\ (room[c] > 0 \/ peer[c] = "gone")
    /\ Advance(i, "send")
    /\ todo' = [todo EXCEPT ![i] = @ \ {c}]
    /\ cur' = [cur EXCEPT ![i] = c]
    /\ was' = [was EXCEPT ![i] = timeout[c] # "now"]
    /\ timeout' = [timeout EXCEPT ![c] = "now"]
    /\ UNCHANGED <<serverVars, handler, peerVars, open, room, registry, dead, eventVars>>

(* All of the frame is taken, at once or, by a socket that blocks again,    *)
(* as soon as there is room.                                                *)
Send(i) ==
    LET c == cur[i]
    IN  /\ ingest[i] = "send" /\ open[c] /\ room[c] >= FrameBytes
        /\ Advance(i, "restore")
        /\ room' = [room EXCEPT ![c] = @ - FrameBytes]
        /\ got' = [got EXCEPT ![i] = @ \cup {c}]
        /\ UNCHANGED <<serverVars, handler, peerVars, open, timeout, registry,
                       visitVars, event, audience>>

(* A partial send, a BlockingIOError, a TimeoutError or a ConnectionError:  *)
(* whatever the error, the client is dropped.                               *)
SendFails(i) ==
    LET c == cur[i]
    IN  /\ ingest[i] = "send"
        /\ \/ ~open[c] \/ peer[c] = "gone"
           \/ room[c] < FrameBytes /\ timeout[c] # "forever"
        /\ GiveUp(i, c)

(* setblocking(was_blocking): True is "forever", whatever it was before. *)
Restore(i) ==
    LET c == cur[i]
    IN  /\ ingest[i] = "restore" /\ open[c]
        /\ Advance(i, "visit")
        /\ timeout' = [timeout EXCEPT ![c] = IF was[i] THEN "forever" ELSE "now"]
        /\ cur' = [cur EXCEPT ![i] = NoClient] /\ was' = [was EXCEPT ![i] = FALSE]
        /\ UNCHANGED <<serverVars, handler, peerVars, open, room, registry,
                       todo, dead, eventVars>>

(* A plausible slip: what setblocking() raises ends the thread. *)
RestoreFails_Uncaught(i) == FALSE /\ GiveUp(i, cur[i])

(* It fails on a socket that the handler has closed since the send. *)
RestoreFails(i) ==
    ingest[i] = "restore" /\ ~open[cur[i]] /\ GiveUp(i, cur[i])

(* The dead are taken out, in one lock section, and Station is answered. *)
Sweep(i) ==
    /\ ingest[i] = "visit" /\ todo[i] = {}
    /\ Advance(i, "idle")
    /\ registry' = registry \ dead[i]
    /\ dead' = [dead EXCEPT ![i] = {}]
    /\ event' = [event EXCEPT ![i] = None]
    /\ audience' = [audience EXCEPT ![i] = {}] /\ got' = [got EXCEPT ![i] = {}]
    /\ UNCHANGED <<serverVars, handler, peerVars, sockVars, todo, cur, was>>

-----------------------------------------------------------------------------
(* HTTPServer.stop() *)

Stop ==
    /\ running
    /\ server' = "stopping"
    /\ UNCHANGED <<stationDown, clientVars, ingestVars>>

(* _close_all_clients pops each record, and closes the record, a dict: what *)
(* that raises is swallowed, and the socket stays open.                     *)
CloseAll ==
    /\ server = "stopping"
    /\ server' = "stopped"
    /\ registry' = {}
    /\ UNCHANGED <<stationDown, handler, peerVars, sockVars, ingestVars>>
-----------------------------------------------------------------------------
Listener(c) == HangUp(c) \/ Say(c) \/ Read(c)
Handler(c) ==
    \/ Register(c) \/ Arm(c) \/ Recv(c) \/ Wake(c) \/ RecvTimesOut(c)
    \/ Answer(c) \/ Leave(c)
Ingest(i) ==
    \/ Reject(i) \/ Snapshot(i) \/ Send(i) \/ SendFails(i)
    \/ Restore(i) \/ RestoreFails(i) \/ Sweep(i)
    \/ \E e \in Posts : Accept(i, e)
    \/ \E c \in Clients : Filter(i, c) \/ Select(i, c) \/ SelectFails(i, c)

Next ==
    \/ \E c \in Clients : Upgrade(c) \/ Listener(c) \/ Handler(c)
    \/ \E i \in Ingests : Post(i) \/ Ingest(i)
    \/ Stop \/ CloseAll

Spec == Init /\ [][Next]_vars

(* Threads run, and a wait that can end time and again ends.  Nobody has to *)
(* connect, speak, hang up, post or stop or, but for the Readers, to read.  *)
Fairness ==
    /\ \A c \in Clients : WF_vars(Handler(c))
    /\ \A i \in Ingests : SF_vars(Ingest(i))
    /\ \A c \in Readers : WF_vars(Read(c))

FairSpec == Spec /\ Fairness
-----------------------------------------------------------------------------
TypeOK ==
    /\ server \in {"up", "stopping", "stopped"} /\ stationDown \in BOOLEAN
    /\ handler \in [Clients -> {"none", "register", "top", "recv", "wait", "hang",
                                "answer", "leave", "done"}]
    /\ peer \in [Clients -> {"absent", "here", "gone"}]
    /\ said \in [Clients -> BOOLEAN] /\ open \in [Clients -> BOOLEAN]
    /\ timeout \in [Clients -> {"now", "timed", "forever"}]
    /\ room \in [Clients -> 0 .. SendBuffer]
    /\ registry \subseteq Clients
    /\ ingest \in [Ingests -> {"idle", "read", "accepted", "visit", "send", "restore"}]
    /\ event \in [Ingests -> EventTypes \cup {None}]
    /\ todo \in [Ingests -> SUBSET Clients] /\ dead \in [Ingests -> SUBSET Clients]
    /\ cur \in [Ingests -> Clients \cup {NoClient}] /\ was \in [Ingests -> BOOLEAN]
    /\ \A i \in Ingests : cur[i] = NoClient <=> ingest[i] \notin {"send", "restore"}
    /\ audience \in [Ingests -> SUBSET Clients] /\ got \in [Ingests -> SUBSET Clients]

(* The registry is true to the threads: what is in it has a handler that    *)
(* will take it out, and is open but for a broadcast that has closed it and *)
(* will take it out too; no handler ends and leaves its socket open.        *)
RegistryIsTrue ==
    /\ \A c \in registry : handler[c] \notin {"none", "register", "done"}
    /\ \A c \in registry : open[c] \/ \E i \in Ingests : c \in dead[i]
    /\ \A c \in Clients : handler[c] = "done" => ~open[c]

(* Every client that was registered, and wants the event, is sent the whole *)
(* of it or dropped, whatever becomes of the others: an ingest owes it to   *)
(* nobody once it is done.                                                  *)
EventsReachAll ==
    \A i \in Ingests :
        audience[i] \cap registry \subseteq got[i] \cup todo[i] \cup {cur[i]} \cup dead[i]

(* A broadcast gives up no client but those that hung up, were closed by    *)
(* somebody else, or had no room for the event.                             *)
OnlyStalledAreDropped ==
    [][\A i \in Ingests : \A c \in dead'[i] \ dead[i] :
          ~open[c] \/ peer[c] = "gone" \/ room[c] < FrameBytes]_vars

(* "WebSocket operations MUST NOT block event ingestion": Station's request *)
(* is answered, unless it hangs on a listener who does not read.            *)
IngestAnswered ==
    \A i \in Ingests :
        ingest[i] = "read" ~> ingest[i] = "idle" \/ cur[i] \in Clients \ Readers

(* A listener who hung up is forgotten, even if no event is ever sent to    *)
(* him, and whatever timeout his handler waits with.                        *)
GoneAreForgotten ==
    \A c \in Clients : c \in registry /\ peer[c] = "gone" ~> c \notin registry

(* "Idle connections MUST NOT be disconnected": the handler of a listener   *)
(* who is there, however long he is silent, leaves him only when Tower      *)
(* stops, when a broadcast has closed the socket, or has it non-blocking at *)
(* the moment of the recv() (server.py:1082; the last is one too many).     *)
IdleIsKept ==
    [][\A c \in Clients : handler[c] # "leave" /\ handler'[c] = "leave" =>
          ~running \/ ~open[c] \/ peer[c] = "gone" \/ timeout[c] = "now"]_vars
=============================================================================
