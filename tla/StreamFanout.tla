---------------------------- MODULE StreamFanout ----------------------------
(***************************************************************************)
(* How Tower's HTTPServer fans one MP3 stream out to its listeners.  The   *)
(* main loop takes a frame from the encoder and broadcasts it: it queues   *)
(* the frame for every registered client and writes as much of the queue   *)
(* as the client's socket takes, holding _clients_lock client by client.   *)
(* Every connection to /stream has a handler thread, which registers it    *)
(* and then waits for the listener to hang up.  TowerService.stop() ends   *)
(* the main loop and closes what is registered.                            *)
(*                                                                         *)
(* What a send does on a full socket is decided by the timeout of the      *)
(* socket object, which _add_client clears and the handler then sets to    *)
(* 5 s for its own recv(): "now" fails at once, "timed" waits, with the    *)
(* lock held.  A frame is its number, modulo Frames; of a queued frame     *)
(* there remain the last rest bytes.  A connection has an id of its own,   *)
(* so a client that comes back is another client.                          *)
(***************************************************************************)
EXTENDS Integers, Sequences, FiniteSets

CONSTANTS
    Clients,     (* connections to /stream                                   *)
    Readers,     (* those whose listener keeps reading                       *)
    NoClient,
    MaxClients,  (* MAX_CLIENTS                                              *)
    FrameBytes,
    SendBuffer,  (* bytes the system buffers for a connection                *)
    QueueSize,   (* MAX_CLIENT_QUEUE_SIZE                                    *)
    Frames       (* bound: frame numbers are taken modulo Frames             *)

ASSUME FanoutAssumption ==
    /\ Readers \subseteq Clients /\ NoClient \notin Clients
    /\ IsFiniteSet(Clients) /\ MaxClients \in Nat
    /\ FrameBytes \in Nat \ {0} /\ SendBuffer \in Nat \ {0}
    /\ QueueSize \in Nat \ {0} /\ Frames \in Nat \ {0, 1}

VARIABLES
    service,    (* TowerService: "up", "stopping", "stopped"                   *)
    listening,  (* whether accept() may still return a connection              *)
    handler,    (* where a connection's handler thread is                      *)
    peer,       (* "absent", "here", "gone" (hung up, or the handler ended)    *)
    open,       (* whether Tower's end of the connection is open               *)
    timeout,    (* of the socket: "now" or "timed"                             *)
    room,       (* bytes its send buffer still takes                           *)
    registry,   (* the keys of _connected_clients                              *)
    queue,      (* _ClientState.queue                                          *)
    wire,       (* history: the next byte its socket should take, as an entry  *)
                (* of the queue; Nothing before the first                      *)
    loop,       (* the main loop: "top", "visit" the next client, "flush" its  *)
                (* queue with the lock held                                    *)
    frame,      (* the frame of this broadcast                                 *)
    todo,       (* clients of its snapshot not visited yet                     *)
    cur,        (* the client being flushed                                    *)
    sentAny,    (* whether its socket took anything                            *)
    dead        (* dead_clients                                                *)

stopVars == <<service, listening>>
peerVars == <<handler, peer>>
sockVars == <<open, timeout, room>>
clientVars == <<registry, queue, wire>>
loopVars == <<loop, frame, todo, cur, sentAny, dead>>
vars == <<stopVars, peerVars, sockVars, clientVars, loopVars>>

After(f) == IF f = Frames - 1 THEN 0 ELSE f + 1

(* An entry of a queue: a frame and how many of its bytes remain.           *)
Entries == [frame : 0 .. Frames - 1, rest : 1 .. FrameBytes]
Nothing == [frame |-> -1, rest |-> 0]

Init ==
    /\ service = "up" /\ listening = TRUE
    /\ handler = [c \in Clients |-> "none"] /\ peer = [c \in Clients |-> "absent"]
    /\ open = [c \in Clients |-> FALSE] /\ timeout = [c \in Clients |-> "now"]
    /\ room = [c \in Clients |-> SendBuffer]
    /\ registry = {} /\ queue = [c \in Clients |-> <<>>]
    /\ wire = [c \in Clients |-> Nothing]
    /\ loop = "top" /\ frame = 0 /\ todo = {} /\ cur = NoClient
    /\ sentAny = FALSE /\ dead = {}

LockFree == loop # "flush"

-----------------------------------------------------------------------------
(* Listeners, the network and the clock *)

(* A connection is accepted, and its request answered with the header.  A   *)
(* blocked accept() outlives the close of its socket by one connection.     *)
Connect(c) ==
    /\ listening /\ handler[c] = "none"
    /\ listening' = (service # "stopped")
    /\ peer' = [peer EXCEPT ![c] = "here"]
    /\ open' = [open EXCEPT ![c] = TRUE]
    /\ handler' = [handler EXCEPT ![c] = "count"]
    /\ UNCHANGED <<service, timeout, room, clientVars, loopVars>>

HangUp(c) ==
    /\ open[c] /\ peer[c] = "here"
    /\ peer' = [peer EXCEPT ![c] = "gone"]
    /\ UNCHANGED <<stopVars, handler, sockVars, clientVars, loopVars>>

(* The listener takes a byte out of the buffers between it and Tower. *)
Read(c) ==
    /\ open[c] /\ peer[c] = "here" /\ room[c] < SendBuffer
    /\ room' = [room EXCEPT ![c] = @ + 1]
    /\ UNCHANGED <<stopVars, peerVars, open, timeout, clientVars, loopVars>>

-----------------------------------------------------------------------------
(* The handler thread *)

(* _drop_client_locked, for every client of S that is still registered; a   *)
(* closed connection has no history.                                        *)
Drop(S) ==
    LET dropped(c) == c \in S \cap registry
    IN  /\ registry' = registry \ S
        /\ open' = [c \in Clients |-> open[c] /\ ~dropped(c)]
        /\ queue' = [c \in Clients |-> IF dropped(c) THEN <<>> ELSE queue[c]]
        /\ room' = [c \in Clients |-> IF dropped(c) THEN SendBuffer ELSE room[c]]
        /\ timeout' = [c \in Clients |-> IF dropped(c) THEN "now" ELSE timeout[c]]
        /\ wire' = [c \in Clients |-> IF dropped(c) THEN Nothing ELSE wire[c]]

(* A plausible slip: a full server closes the connection, and registers it. *)
AfterCount_NoReturn == "add"

AfterCount == IF Cardinality(registry) >= MaxClients THEN "done" ELSE "add"

(* The count has a lock section of its own; the registration another.       *)
Count(c) ==
    /\ handler[c] = "count" /\ LockFree
    /\ handler' = [handler EXCEPT ![c] = AfterCount]
    /\ open' = [open EXCEPT ![c] = Cardinality(registry) < MaxClients]
    /\ UNCHANGED <<stopVars, peer, timeout, room, clientVars, loopVars>>

(* _add_client: the socket is made non-blocking before it is registered. *)
Add(c) ==
    /\ handler[c] = "add" /\ LockFree
    /\ registry' = registry \cup {c}
    /\ timeout' = [timeout EXCEPT ![c] = "now"]
    /\ handler' = [handler EXCEPT ![c] = "arm"]
    /\ UNCHANGED <<stopVars, peer, open, room, queue, wire, loopVars>>

(* settimeout(5.0), which fails on a socket that is closed. *)
Arm(c) ==
    /\ handler[c] = "arm"
    /\ handler' = [handler EXCEPT ![c] = IF open[c] THEN "read" ELSE "leave"]
    /\ timeout' = [timeout EXCEPT ![c] = IF open[c] THEN "timed" ELSE @]
    /\ UNCHANGED <<stopVars, peer, open, room, clientVars, loopVars>>

(* A plausible slip: the end of the stream is not told from a timeout. *)
Ended_Errors(c) == ~open[c]

(* What ends the handler's wait: the listener hung up, or Tower closed.     *)
Ended(c) == peer[c] = "gone" \/ ~open[c]

Leave(c) ==
    /\ handler[c] = "read" /\ Ended(c)
    /\ handler' = [handler EXCEPT ![c] = "leave"]
    /\ UNCHANGED <<stopVars, peer, sockVars, clientVars, loopVars>>

(* The finally clause: _remove_client, if the client is still registered. *)
Remove(c) ==
    /\ handler[c] = "leave"
    /\ c \in registry => LockFree
    /\ Drop({c})
    /\ handler' = [handler EXCEPT ![c] = "done"]
    /\ peer' = [peer EXCEPT ![c] = "gone"]
    /\ UNCHANGED <<stopVars, loopVars>>

-----------------------------------------------------------------------------
(* The main loop and broadcast() *)

(* get_frame() returns a frame, live or fallback, as long as it is called,  *)
(* and touches nothing here; the snapshot of the clients follows.           *)
GetFrame ==
    /\ loop = "top" /\ service = "up"
    /\ loop' = "visit" /\ frame' = After(frame) /\ todo' = registry
    /\ UNCHANGED <<stopVars, peerVars, sockVars, clientVars, cur, sentAny, dead>>

NewEntry == [frame |-> frame, rest |-> FrameBytes]

(* append() on a deque with a maxlen, which drops its first entry by itself. *)
Enqueued(q) == Append(IF Len(q) < QueueSize THEN q ELSE Tail(q), NewEntry)

(* A plausible slip: it is left to the deque to keep its bound. *)
QueueFull_Never(c) == FALSE

QueueFull(c) == Len(queue[c]) >= QueueSize

(* The client has gone since the snapshot, or its queue is full. *)
Skip(c) ==
    /\ loop = "visit" /\ c \in todo
    /\ c \notin registry \/ QueueFull(c)
    /\ todo' = todo \ {c}
    /\ dead' = dead \cup ({c} \cap registry)
    /\ UNCHANGED <<stopVars, peerVars, sockVars, clientVars, loop, frame, cur, sentAny>>

Visit(c) ==
    /\ loop = "visit" /\ c \in todo
    /\ c \in registry /\ ~QueueFull(c)
    /\ todo' = todo \ {c} /\ cur' = c /\ sentAny' = FALSE
    /\ queue' = [queue EXCEPT ![c] = Enqueued(@)]
    /\ loop' = "flush"
    /\ UNCHANGED <<stopVars, peerVars, sockVars, registry, wire, frame, dead>>

(* What follows the first n bytes of an entry. *)
Following(e, n) ==
    IF n >= e.rest THEN [frame |-> After(e.frame), rest |-> FrameBytes]
                   ELSE [e EXCEPT !.rest = @ - n]

(* The queue when the socket has taken n bytes of its first frame.          *)
Unsent(q, n) ==
    IF n >= Head(q).rest THEN Tail(q) ELSE <<Following(Head(q), n)>> \o Tail(q)

(* send() takes what there is room for; a partial send ends the flush.      *)
Send ==
    LET first == Head(queue[cur])
        n == IF room[cur] < first.rest THEN room[cur] ELSE first.rest
    IN  /\ loop = "flush" /\ queue[cur] # <<>> /\ room[cur] > 0
        /\ queue' = [queue EXCEPT ![cur] = Unsent(@, n)]
        /\ room' = [room EXCEPT ![cur] = @ - n]
        /\ wire' = [wire EXCEPT ![cur] = Following(first, n)]
        /\ IF n < first.rest
           THEN loop' = "visit" /\ cur' = NoClient /\ sentAny' = FALSE
           ELSE sentAny' = TRUE /\ UNCHANGED <<loop, cur>>
        /\ UNCHANGED <<stopVars, peerVars, open, timeout, registry, frame, todo, dead>>

(* The lock is released; whether the client is one to drop.                 *)
Release(drops) ==
    /\ loop' = "visit" /\ cur' = NoClient /\ sentAny' = FALSE
    /\ dead' = (IF drops THEN dead \cup {cur} ELSE dead)
    /\ UNCHANGED <<stopVars, peerVars, sockVars, clientVars, frame, todo>>

(* A plausible slip: last_send_monotonic is not brought up to date. *)
Overdue_Stale == \E tooLong \in BOOLEAN : Release(tooLong)

(* Whether 250 ms have passed since the socket last took something, which   *)
(* may be so after any broadcast.                                           *)
Overdue == \E tooLong \in BOOLEAN : Release(tooLong /\ ~sentAny)

(* The queue is empty, or the socket would block: BlockingIOError.          *)
Flushed ==
    /\ loop = "flush"
    /\ queue[cur] = <<>> \/ (room[cur] = 0 /\ timeout[cur] = "now")
    /\ Overdue

(* ConnectionError, once the listener has gone.                             *)
SendFails ==
    /\ loop = "flush" /\ queue[cur] # <<>> /\ peer[cur] = "gone"
    /\ Release(TRUE)

(* A send on a full socket with the handler's 5 s waits, holding the lock... *)
Waiting ==
    loop = "flush" /\ queue[cur] # <<>> /\ room[cur] = 0 /\ timeout[cur] = "timed"

(* A plausible slip: the handler's timeout is None, and the wait unbounded. *)
SendTimesOut_Never == Waiting /\ FALSE

(* ... and ends in a TimeoutError: an OSError, and no BlockingIOError.      *)
SendTimesOut == Waiting /\ Release(TRUE)

(* All have been visited: the dead are dropped, in one lock section.        *)
Sweep ==
    /\ loop = "visit" /\ todo = {}
    /\ Drop(dead)
    /\ loop' = "top" /\ dead' = {}
    /\ UNCHANGED <<stopVars, peerVars, frame, todo, cur, sentAny>>

-----------------------------------------------------------------------------
(* TowerService.stop() *)

StopService ==
    /\ service = "up"
    /\ service' = "stopping"
    /\ UNCHANGED <<listening, peerVars, sockVars, clientVars, loopVars>>

(* HTTPServer.stop(): no more listening, and _close_all_clients. *)
StopServer ==
    /\ service = "stopping" /\ LockFree
    /\ Drop(registry)
    /\ service' = "stopped"
    /\ UNCHANGED <<listening, peerVars, loopVars>>

-----------------------------------------------------------------------------
Listener(c) == Connect(c) \/ HangUp(c) \/ Read(c)
Handler(c) == Count(c) \/ Add(c) \/ Arm(c) \/ Leave(c) \/ Remove(c)
Broadcast ==
    \/ GetFrame \/ Send \/ Flushed \/ SendFails \/ SendTimesOut \/ Sweep
    \/ \E c \in Clients : Skip(c) \/ Visit(c)

Next ==
    \/ \E c \in Clients : Listener(c) \/ Handler(c)
    \/ Broadcast
    \/ StopService \/ StopServer

Spec == Init /\ [][Next]_vars

(* Threads run, waits end, and the lock, which the main loop leaves alone   *)
(* while it waits for a frame, comes to a handler that waits for it.        *)
(* Nobody has to connect, to hang up, to stop Tower or, but for the         *)
(* Readers, to read.                                                        *)
Fairness ==
    /\ WF_vars(Broadcast)
    /\ \A c \in Clients : SF_vars(Handler(c))
    /\ \A c \in Readers : WF_vars(Read(c))

FairSpec == Spec /\ Fairness
-----------------------------------------------------------------------------
TypeOK ==
    /\ service \in {"up", "stopping", "stopped"}
    /\ listening \in BOOLEAN
    /\ handler \in [Clients -> {"none", "count", "add", "arm", "read", "leave", "done"}]
    /\ peer \in [Clients -> {"absent", "here", "gone"}]
    /\ open \in [Clients -> BOOLEAN]
    /\ timeout \in [Clients -> {"now", "timed"}]
    /\ room \in [Clients -> 0 .. SendBuffer]
    /\ registry \subseteq Clients
    /\ queue \in [Clients -> Seq(Entries)]
    /\ \A c \in Clients : Len(queue[c]) <= QueueSize
    /\ wire \in [Clients -> Entries \cup {Nothing}]
    /\ loop \in {"top", "visit", "flush"}
    /\ frame \in 0 .. Frames - 1
    /\ todo \subseteq Clients /\ dead \subseteq Clients
    /\ cur \in Clients \cup {NoClient} /\ sentAny \in BOOLEAN

(* The registry and the sockets agree, whoever drops a client first: what   *)
(* is registered is open and has a handler that will take it out again, and *)
(* nothing is left open by a handler that has ended.                        *)
RegistryIsTrue ==
    /\ \A c \in registry : open[c] /\ handler[c] \in {"arm", "read", "leave"}
    /\ \A c \in Clients : handler[c] = "done" => ~open[c]
    /\ loop = "flush" => cur \in registry

(* A listener gets the stream without gap, repetition or torn frame, from   *)
(* the frame he comes in at to the one he is dropped in, however his sends  *)
(* are cut up and however long he is behind.                                *)
StreamUnbroken ==
    [][\A c \in Clients : wire'[c] \notin {wire[c], Nothing} =>
          IF wire[c] = Nothing THEN Head(queue[c]).rest = FrameBytes
                               ELSE Head(queue[c]) = wire[c]]_vars

(* Nobody is dropped for what another listener does: a broadcast gives up   *)
(* only clients that hung up, or whose socket or queue is full.             *)
OnlySlowAreDropped ==
    [][\A c \in dead' \ dead :
          peer[c] = "gone" \/ room[c] = 0 \/ Len(queue[c]) = QueueSize]_vars

(* A listener who hung up, or who has stopped reading while Tower is up, is *)
(* forgotten: the one even if nothing is ever sent to him again, the other  *)
(* even if he never hangs up.                                               *)
Lost(c) == c \in registry /\ (peer[c] = "gone" \/ (room[c] = 0 /\ service = "up"))
LostAreForgotten == \A c \in Clients : Lost(c) ~> ~Lost(c)

(* A listener who reads goes on receiving, whatever the others do.          *)
ReaderGoesOn ==
    \A c \in Readers :
        \/ []<>(c \notin registry \/ service # "up")
        \/ []<><<Send /\ cur = c>>_vars
=============================================================================
