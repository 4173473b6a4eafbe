------------------------------ MODULE PcmLink -------------------------------
(***************************************************************************)
(* How PCM frames get from Station to Tower.  In Station, a decode worker  *)
(* pushes frames into the queue of PCMOutputPipeline, whose pump thread    *)
(* hands TowerPCMSink one frame per tick, silence if there is none; the    *)
(* sink writes it to a non-blocking unix stream socket, piece by piece.    *)
(* In Tower, a thread per connection reads what is there and feeds it to   *)
(* PCMIngestor, whose one accumulator cuts the bytes into frames for the   *)
(* ring buffer.  Nothing on the wire marks where a frame begins.           *)
(*                                                                         *)
(* A byte is the number of its frame and its place in it.  Programme       *)
(* frames are numbered from 1, over restarts of the Station too; silence   *)
(* is 0.  Faults:                                                          *)
(*   "crash"    Tower's process ends without stop()                        *)
(*   "death"    Station's process ends without stop()                      *)
(*   "timeout"  a bounded wait ends by its bound: a send (0.5 s), a push   *)
(*              (30 s), the drain (15 s), the join of the pump (2 s)       *)
(*   "late"     a new Station connects while Tower still reads what the    *)
(*              one before it has written                                  *)
(***************************************************************************)
EXTENDS Integers, Sequences

CONSTANTS
    Conns,         (* connections that may exist at a time                   *)
    None,          (* _socket when there is none; the lock when it is free   *)
    FrameBytes,    (* 4096                                                   *)
    PipeBytes,     (* how much the socket buffers                            *)
    RecvBytes,     (* 8192, at most what one recv() returns                  *)
    QueueCapacity, (* PCMOutputPipeline._capacity                            *)
    RingCapacity,  (* of Tower's PCM buffer                                  *)
    MaxFrames,     (* bound: programme frames decoded                        *)
    Faults

ASSUME LinkAssumption ==
    /\ None \notin Conns
    /\ FrameBytes \in Nat \ {0} /\ PipeBytes \in Nat \ {0} /\ RecvBytes \in Nat \ {0}
    /\ QueueCapacity \in Nat \ {0} /\ RingCapacity \in Nat \ {0} /\ MaxFrames \in Nat
    /\ Faults \subseteq {"crash", "death", "timeout", "late"}

VARIABLES
    main,     (* Station: "run", "drain" and "join" in engine.stop(),          *)
              (* "closed" after sink.close(), "off" (no process)               *)
    made,     (* the last programme frame decoded                              *)
    pushing,  (* whether the decode worker is in push() with it                *)
    queue,    (* PCMOutputPipeline._queue                                      *)
    stop,     (* PCMOutputPipeline._stop                                       *)
    pump,     (* the pump thread: "top", "connect", "send", "off"              *)
    frame,    (* the frame it writes, 0 between two                            *)
    offset,   (* how much of it has been written                               *)
    sock,     (* TowerPCMSink._socket                                          *)
    cooling,  (* whether the last attempt to connect is less than 1 s ago      *)
    sent,     (* the last programme frame the socket took in full              *)
    tower,    (* "up", "stopping" (not _running), "down" (no process)          *)
    conn,     (* Tower's end: "free" (closed), "waiting" to be accepted, or    *)
              (* where its thread is: "recv", "call", "split"                  *)
    pipe,     (* bytes written and not read                                    *)
    hand,     (* data, the bytes the thread has read                           *)
    lock,     (* the holder of _accumulator_lock                               *)
    acc,      (* _accumulator                                                  *)
    ring,     (* Tower's PCM buffer                                            *)
    cut       (* history: whether, since Tower started, a fault has left a     *)
              (* frame half written or two connections in use                  *)

procVars == <<main, stop>>
feedVars == <<made, pushing, queue>>
pumpVars == <<pump, frame, offset>>
sinkVars == <<sock, cooling, sent>>
wireVars == <<conn, pipe>>
readVars == <<hand, lock, acc>>
vars == <<procVars, feedVars, pumpVars, sinkVars, tower, wireVars, readVars, ring, cut>>

station == <<procVars, feedVars, pumpVars, sinkVars>>

Frames == 0..MaxFrames
Bytes  == Frames \X (1..FrameBytes)
FrameOf(f) == [i \in 1..FrameBytes |-> <<f, i>>]

(* What a frame cut out of the byte stream is: the frame that was sent, or  *)
(* a mixture of two.                                                        *)
Torn == -1
Entry(s) == IF s = FrameOf(s[1][1]) THEN s[1][1] ELSE Torn

TypeOK ==
    /\ main \in {"run", "drain", "join", "closed", "off"}
    /\ made \in Frames /\ pushing \in BOOLEAN /\ stop \in BOOLEAN
    /\ queue \in Seq(Frames) /\ Len(queue) <= QueueCapacity
    /\ pump \in {"top", "connect", "send", "off"}
    /\ frame \in Frames /\ offset \in 0..FrameBytes-1
    /\ sock \in Conns \cup {None} /\ cooling \in BOOLEAN /\ sent \in Frames
    /\ tower \in {"up", "stopping", "down"}
    /\ conn \in [Conns -> {"free", "waiting", "recv", "call", "split"}]
    /\ pipe \in [Conns -> Seq(Bytes)] /\ \A c \in Conns : Len(pipe[c]) <= PipeBytes
    /\ hand \in [Conns -> Seq(Bytes)] /\ \A c \in Conns : Len(hand[c]) <= RecvBytes
    /\ lock \in Conns \cup {None}
    /\ acc \in Seq(Bytes)
    /\ ring \in Seq(Frames \cup {Torn}) /\ Len(ring) <= RingCapacity
    /\ cut \in BOOLEAN

NoBytes == [c \in Conns |-> <<>>]
AllFree == [c \in Conns |-> "free"]

Init ==
    /\ main = "off" /\ stop = FALSE
    /\ made = 0 /\ pushing = FALSE /\ queue = <<>>
    /\ pump = "off" /\ frame = 0 /\ offset = 0
    /\ sock = None /\ cooling = FALSE /\ sent = 0
    /\ tower = "down"
    /\ conn = AllFree /\ pipe = NoBytes
    /\ hand = NoBytes /\ lock = None /\ acc = <<>> /\ ring = <<>>
    /\ cut = FALSE

-----------------------------------------------------------------------------
(* Station: the process, its decode worker and its main thread.             *)

(* A Station that is started takes seconds; by then Tower has read what the *)
(* one before it had written, and closed.                                   *)
ReadOut == \A c \in Conns : conn[c] = "free"
MayStart == ReadOut \/ "late" \in Faults

StationStarts ==
    /\ main = "off" /\ MayStart
    /\ main' = "run" /\ pump' = "top"
    /\ cut' = (cut \/ ~ReadOut)
    /\ UNCHANGED <<stop, feedVars, frame, offset, sinkVars, tower, wireVars, readVars, ring>>

(* The process ends, after close() or without it, and with it its threads,  *)
(* its memory and its end of the connection.                                *)
StationEnds ==
    /\ main = "closed" \/ (main # "off" /\ "death" \in Faults)
    /\ main' = "off" /\ stop' = FALSE
    /\ pushing' = FALSE /\ queue' = <<>>
    /\ pump' = "off" /\ frame' = 0 /\ offset' = 0
    /\ sock' = None /\ cooling' = FALSE
    /\ cut' = (cut \/ offset > 0)
    /\ UNCHANGED <<made, sent, tower, wireVars, readVars, ring>>

Decode ==
    /\ main = "run" /\ ~pushing /\ made < MaxFrames
    /\ made' = made + 1 /\ pushing' = TRUE
    /\ UNCHANGED <<queue, procVars, pumpVars, sinkVars, tower, wireVars, readVars, ring, cut>>

Push ==
    /\ pushing /\ Len(queue) < QueueCapacity
    /\ queue' = Append(queue, made) /\ pushing' = FALSE
    /\ UNCHANGED <<made, procVars, pumpVars, sinkVars, tower, wireVars, readVars, ring, cut>>

Refused == stop \/ "timeout" \in Faults

(* push() returns False and the frame is dropped.                           *)
PushFails ==
    /\ pushing /\ Len(queue) >= QueueCapacity
    /\ Refused
    /\ pushing' = FALSE
    /\ UNCHANGED <<made, queue, procVars, pumpVars, sinkVars, tower, wireVars, readVars, ring, cut>>

EngineStop ==
    /\ main = "run" /\ main' = "drain"
    /\ UNCHANGED <<stop, feedVars, pumpVars, sinkVars, tower, wireVars, readVars, ring, cut>>

(* _wait_pcm_drain(), then PCMOutputPipeline.stop() up to its join.         *)
BeginJoin ==
    /\ main = "drain" /\ main' = "join" /\ stop' = TRUE
    /\ UNCHANGED <<feedVars, pumpVars, sinkVars, tower, wireVars, readVars, ring, cut>>

Drained == queue = <<>> /\ BeginJoin
DrainTimesOut == "timeout" \in Faults /\ BeginJoin

PumpJoined_Skipped == TRUE
PumpJoined == pump = "off"

(* TowerPCMSink.close().                                                    *)
CloseSink ==
    /\ main = "join" /\ main' = "closed" /\ sock' = None
    /\ UNCHANGED <<stop, feedVars, pumpVars, cooling, sent, tower, wireVars, readVars, ring>>

Close == PumpJoined /\ CloseSink /\ UNCHANGED cut
JoinTimesOut == "timeout" \in Faults /\ CloseSink /\ cut' = (cut \/ offset > 0)

-----------------------------------------------------------------------------
(* Station: the pump thread and the sink.                                   *)

Remaining_WhenConnected == IF queue = <<>> \/ sock = None THEN queue ELSE Tail(queue)
Remaining == IF queue = <<>> THEN <<>> ELSE Tail(queue)

Tick ==
    /\ pump = "top" /\ ~stop
    /\ frame' = (IF queue = <<>> THEN 0 ELSE Head(queue))
    /\ queue' = Remaining
    /\ pump' = IF sock = None THEN "connect" ELSE "send"
    /\ UNCHANGED <<offset, made, pushing, procVars, sinkVars, tower, wireVars, readVars, ring, cut>>

PumpStops ==
    /\ pump = "top" /\ stop
    /\ pump' = "off"
    /\ UNCHANGED <<frame, offset, procVars, feedVars, sinkVars, tower, wireVars, readVars, ring, cut>>

(* A Tower that is stopping may still accept: its accept thread, blocked in *)
(* accept(), keeps the listening socket that stop() closes.                 *)
Connect(c) ==
    /\ pump = "connect" /\ ~cooling /\ tower # "down" /\ conn[c] = "free"
    /\ conn' = [conn EXCEPT ![c] = "waiting"]
    /\ sock' = c /\ cooling' = TRUE /\ pump' = "send"
    /\ UNCHANGED <<pipe, frame, offset, sent, procVars, feedVars, tower, readVars, ring, cut>>

(* Too early to try, or nobody listens: the frame is dropped.               *)
ConnectFails ==
    /\ pump = "connect" /\ (cooling \/ tower # "up")
    /\ cooling' = TRUE /\ pump' = "top" /\ frame' = 0
    /\ UNCHANGED <<offset, sock, sent, procVars, feedVars, tower, wireVars, readVars, ring, cut>>

Cool ==
    /\ cooling /\ cooling' = FALSE
    /\ UNCHANGED <<sock, sent, procVars, feedVars, pumpVars, tower, wireVars, readVars, ring, cut>>

Writable == sock # None /\ conn[sock] # "free"

(* The socket takes n bytes of the rest of the frame; if it has no room the *)
(* sink sleeps and tries again.                                             *)
Send(n) ==
    /\ pump = "send" /\ Writable
    /\ n <= FrameBytes - offset /\ Len(pipe[sock]) + n <= PipeBytes
    /\ pipe' = [pipe EXCEPT ![sock] = @ \o SubSeq(FrameOf(frame), offset + 1, offset + n)]
    /\ \/ /\ offset + n < FrameBytes
          /\ offset' = offset + n /\ UNCHANGED <<pump, frame, sent>>
       \/ /\ offset + n = FrameBytes
          /\ offset' = 0 /\ pump' = "top" /\ frame' = 0
          /\ sent' = IF frame = 0 THEN sent ELSE frame
    /\ UNCHANGED <<sock, cooling, conn, procVars, feedVars, tower, readVars, ring, cut>>

(* _mark_disconnected() forgets the socket.                                 *)
AfterError_Kept == sock
AfterError == None

(* Broken pipe, or the socket was closed under the pump: the rest of the    *)
(* frame is dropped.                                                        *)
SendFails ==
    /\ pump = "send" /\ ~Writable
    /\ sock' = AfterError /\ pump' = "top" /\ offset' = 0 /\ frame' = 0
    /\ UNCHANGED <<cooling, sent, procVars, feedVars, tower, wireVars, readVars, ring, cut>>

(* The deadline: the rest of the frame is dropped, the connection stays.    *)
(* (On a broken connection the next frame's send fails instead.)            *)
SendTimesOut ==
    /\ pump = "send" /\ Writable /\ "timeout" \in Faults
    /\ pump' = "top" /\ offset' = 0 /\ frame' = 0
    /\ cut' = (cut \/ offset > 0)
    /\ UNCHANGED <<procVars, feedVars, sinkVars, tower, wireVars, readVars, ring>>

-----------------------------------------------------------------------------
(* Tower: the process, the accept thread and a thread per connection.       *)

TowerStarts ==
    /\ tower = "down" /\ tower' = "up"
    /\ cut' = FALSE
    /\ UNCHANGED <<station, wireVars, readVars, ring>>

(* _running is cleared, in PCMIngestor.stop() and in the transport's.       *)
TowerStops ==
    /\ tower = "up" /\ tower' = "stopping"
    /\ UNCHANGED <<station, wireVars, readVars, ring, cut>>

(* The process ends and its sockets and memory with it: after stop(), which *)
(* needs the lock to discard the partial frame, or in a crash.              *)
TowerEnds ==
    /\ \/ tower = "stopping" /\ lock = None
       \/ tower # "down" /\ "crash" \in Faults
    /\ tower' = "down"
    /\ conn' = AllFree /\ pipe' = NoBytes
    /\ hand' = NoBytes /\ lock' = None /\ acc' = <<>> /\ ring' = <<>>
    /\ UNCHANGED <<station, cut>>

Accept(c) ==
    /\ tower = "up" /\ conn[c] = "waiting"
    /\ conn' = [conn EXCEPT ![c] = "recv"]
    /\ UNCHANGED <<pipe, station, tower, readVars, ring, cut>>

Least(m, n) == IF m < n THEN m ELSE n

Recv(c) ==
    /\ conn[c] = "recv" /\ tower = "up" /\ pipe[c] # <<>>
    /\ LET n == Least(RecvBytes, Len(pipe[c]))
       IN  /\ hand' = [hand EXCEPT ![c] = SubSeq(pipe[c], 1, n)]
           /\ pipe' = [pipe EXCEPT ![c] = SubSeq(@, n + 1, Len(@))]
    /\ conn' = [conn EXCEPT ![c] = "call"]
    /\ UNCHANGED <<station, tower, lock, acc, ring, cut>>

(* The thread closes its end at the end of the stream; once the transport   *)
(* stops, whatever is left to read; and a connection accepted after that,   *)
(* or never, at once.                                                       *)
EndOfStream(c) == conn[c] = "recv" /\ pipe[c] = <<>> /\ sock # c
Abandoned(c) == conn[c] \in {"waiting", "recv"} /\ tower # "up"
Leave(c) ==
    /\ IF Abandoned(c) THEN TRUE ELSE EndOfStream(c)
    /\ conn' = [conn EXCEPT ![c] = "free"]
    /\ pipe' = [pipe EXCEPT ![c] = <<>>]
    /\ UNCHANGED <<station, tower, readVars, ring, cut>>

(* _on_bytes_received(), with the test of _running at the moment the lock   *)
(* is taken.                                                                *)
Gather(c) ==
    /\ conn[c] = "call" /\ tower = "up" /\ lock = None
    /\ acc' = acc \o hand[c] /\ lock' = c
    /\ hand' = [hand EXCEPT ![c] = <<>>]
    /\ conn' = [conn EXCEPT ![c] = "split"]
    /\ UNCHANGED <<pipe, station, tower, ring, cut>>

Ignore(c) ==
    /\ conn[c] = "call" /\ tower # "up"
    /\ hand' = [hand EXCEPT ![c] = <<>>]
    /\ conn' = [conn EXCEPT ![c] = "recv"]
    /\ UNCHANGED <<pipe, station, tower, lock, acc, ring, cut>>

(* FrameRingBuffer.push_frame(): a full buffer drops its oldest frame.      *)
Pushed_OrNot(b, f) == IF Len(b) < RingCapacity THEN Append(b, f) ELSE b
Pushed(b, f) == Append(IF Len(b) < RingCapacity THEN b ELSE Tail(b), f)

(* What a frame leaves behind in the accumulator.                           *)
Rest == SubSeq(acc, FrameBytes + 1, Len(acc))

(* One pass of the loop in _on_bytes_received() and _deliver_frame().       *)
Split(c) ==
    /\ conn[c] = "split" /\ Len(acc) >= FrameBytes
    /\ ring' = Pushed(ring, Entry(SubSeq(acc, 1, FrameBytes)))
    /\ acc' = Rest
    /\ UNCHANGED <<station, tower, wireVars, hand, lock, cut>>

Release(c) ==
    /\ conn[c] = "split" /\ Len(acc) < FrameBytes
    /\ lock' = None
    /\ conn' = [conn EXCEPT ![c] = "recv"]
    /\ UNCHANGED <<pipe, hand, acc, station, tower, ring, cut>>

(* FrameRingBuffer.pop_frame(), called by Tower's own pump.                 *)
Pop ==
    /\ ring # <<>> /\ ring' = Tail(ring)
    /\ UNCHANGED <<station, tower, wireVars, readVars, cut>>

-----------------------------------------------------------------------------
Thread(c) == Accept(c) \/ Recv(c) \/ Leave(c) \/ Gather(c) \/ Ignore(c)
             \/ Split(c) \/ Release(c)
Write == Tick \/ PumpStops \/ ConnectFails \/ SendFails \/ SendTimesOut
         \/ (\E c \in Conns : Connect(c)) \/ (\E n \in 1..FrameBytes : Send(n))
Stopping == Drained \/ Close
Bounds == DrainTimesOut \/ JoinTimesOut
Next ==
    \/ StationStarts \/ StationEnds \/ Decode \/ Push \/ PushFails \/ EngineStop \/ Stopping \/ Bounds
    \/ Write \/ Cool \/ TowerStarts \/ TowerStops \/ TowerEnds \/ Pop
    \/ \E c \in Conns : Thread(c)

Spec == Init /\ [][Next]_vars

(* Threads that are not blocked run on, and time passes.  No process has to *)
(* be started, stopped or to crash, and nothing has to be decoded.          *)
Fairness ==
    /\ WF_vars(Write) /\ WF_vars(Cool) /\ WF_vars(Stopping) /\ WF_vars(Push)
    /\ \A c \in Conns : WF_vars(Thread(c))
FairSpec == Spec /\ Fairness

-----------------------------------------------------------------------------
(* Every frame in Tower's buffer is a frame the pump wrote, from its first  *)
(* byte to its last: short sends, reads that end anywhere, reconnections    *)
(* and an orderly change of Station or Tower never shift the boundaries.    *)
(* Only what sets cut does.                                                 *)
FramesWhole == ~cut => \A k \in 1..Len(ring) : ring[k] # Torn

(* Bytes on their way to the accumulator, over the one connection in use.   *)
OnTheWire ==
    LET busy == {c \in Conns : hand[c] \o pipe[c] # <<>>}
    IN  IF busy = {} THEN <<>> ELSE LET c == CHOOSE x \in busy : TRUE IN hand[c] \o pipe[c]

(* The frames the reader will find there: it goes by the count of bytes.    *)
Arriving == acc \o OnTheWire
InFlight == [k \in 1..(Len(Arriving) \div FrameBytes) |-> Arriving[k * FrameBytes][1]]

(* The sink, the socket, the ingestor and the ring buffer together carry    *)
(* frames in order, none twice, and lose none on the way but the oldest of  *)
(* a full buffer, from the moment Tower is up until it stops or a frame is  *)
(* cut.                                                                     *)
LinkUp == tower = "up" /\ ~cut
Link == INSTANCE FrameLink WITH
    up <- LinkUp,
    inFlight <- IF LinkUp THEN InFlight ELSE <<>>,
    buffer <- IF LinkUp THEN ring ELSE <<>>
ImplementsLink == Link!Spec

(* The sink finds its way back: with Tower up and the Station running for   *)
(* good and sends that do not time out, frames keep arriving, whatever      *)
(* connection was lost before.                                              *)
Settled == tower = "up" /\ main = "run"
Arrival == \E c \in Conns : Split(c)
AudioReturns == []<>~Settled \/ []<><<SendTimesOut>>_vars \/ []<><<Arrival>>_vars

(* engine.stop() and sink.close() end even when Tower is gone: the pump     *)
(* empties its queue whether or not anybody takes the frames.               *)
StopEnds == main \in {"drain", "join"} ~> main \in {"closed", "off"}
=============================================================================
