--------------------------- MODULE SegmentDecode ---------------------------
(***************************************************************************)
(* How Station turns a segment into sound.  The playout thread begins a    *)
(* SegmentDecoder, a worker thread with an ffmpeg process of its own, lets *)
(* the DJ think meanwhile, waits until the worker is exhausted and its     *)
(* frames are sent, and finishes the segment.  The worker pushes frames    *)
(* into the PCMOutputPipeline, which blocks it while the queue is full;    *)
(* the pump thread takes one frame per tick, or silence.  The main thread  *)
(* in PlayoutEngine.stop() stops the worker, forgets it, kills the decoder *)
(* and waits for all the others, while the playout thread may be at any    *)
(* place, about to begin a worker included: no lock covers                 *)
(* _segment_decoder and _current_decoder.                                  *)
(*                                                                         *)
(* A worker is known by its decoder's process.  What the DJ decides, and   *)
(* the rules of the sign-off, are in StationPlayout; the way from the pump *)
(* to Tower is in PcmLink.  The preroll is a wait that its timeout may end *)
(* at any moment, and leaves no trace.                                     *)
(***************************************************************************)
EXTENDS Naturals, Sequences, FiniteSets

CONSTANTS
    Workers,      (* SegmentDecoders; one that ended and is forgotten is reused *)
    None,
    Capacity,     (* of the pipeline's queue                                  *)
    MaxSegments,  (* bound: segments played                                   *)
    MaxFrames,    (* bound: frames of a file                                  *)
    Faults        (* the failures that may happen, a subset of FaultKinds     *)

FaultKinds == {"error",   (* ffmpeg cannot be launched, or a frame be mixed    *)
               "hang",    (* an ffmpeg stays alive and produces nothing        *)
               "slow",    (* the join of a thread gives up, or a push does    *)
               "late"}    (* the wait for the queue to empty does             *)

ASSUME DecodeAssumption ==
    /\ None \notin Workers
    /\ Capacity \in Nat \ {0} /\ MaxSegments \in Nat /\ MaxFrames \in Nat
    /\ Faults \subseteq FaultKinds

VARIABLES
    pc,        (* the playout thread                                          *)
    seg,       (* the segment in hand: the number of segments taken           *)
    terminal,  (* whether it is the sign-off                                  *)
    playing,   (* the segment in _current_segment with _is_playing, or 0      *)
    task,      (* decoder_task of _play_audio_segment                         *)
    count,     (* its frame_count                                             *)
    segDec,    (* _segment_decoder                                            *)
    curDec,    (* whose decoder _current_decoder is                           *)
    at,        (* of each worker: where its thread is                         *)
    of,        (* the segment it decodes                                      *)
    pushed,    (* _frames_pushed                                              *)
    told,      (* _stop                                                       *)
    known,     (* whether its _decoder is set                                 *)
    end,       (* "no", or exhausted: "eof" or "error"                        *)
    proc,      (* its ffmpeg: "none", "alive", "hung", "dead"                 *)
    queue,     (* PCMOutputPipeline._queue                                    *)
    held,      (* the frame the pump has taken and not yet written            *)
    air,       (* the last frame written                                      *)
    pump,      (* the pump thread: "on" or "off"                              *)
    pumpStop,  (* PCMOutputPipeline._stop                                     *)
    draining,  (* _is_draining                                                *)
    running,   (* _is_running, and _stop_event when it is FALSE               *)
    mainPc,    (* the main thread                                             *)
    target     (* the worker that it joins                                    *)

loopVars == <<pc, seg, terminal, playing, task, count>>
refVars  == <<segDec, curDec>>
workVars == <<at, of, pushed, told, known, end, proc>>
outVars  == <<queue, held, air, pump, pumpStop>>
mainVars == <<draining, running, mainPc, target>>
vars == <<loopVars, refVars, workVars, outVars, mainVars>>

NoFrame == <<0, 0>>
Frames  == (1..MaxSegments) \X (1..MaxFrames)

Alive(w) == proc[w] \in {"alive", "hung"}

Init ==
    /\ pc = "take" /\ seg = 0 /\ terminal = FALSE /\ playing = 0 /\ task = None /\ count = 0
    /\ segDec = None /\ curDec = None
    /\ at = [w \in Workers |-> "off"] /\ of = [w \in Workers |-> 0]
    /\ pushed = [w \in Workers |-> 0] /\ told = [w \in Workers |-> FALSE]
    /\ known = [w \in Workers |-> FALSE] /\ end = [w \in Workers |-> "no"]
    /\ proc = [w \in Workers |-> "none"]
    /\ queue = <<>> /\ held = NoFrame /\ air = NoFrame /\ pump = "on" /\ pumpStop = FALSE
    /\ draining = FALSE /\ running = TRUE /\ mainPc = "up" /\ target = None

-----------------------------------------------------------------------------
(* The worker: SegmentDecoder._run and FFmpegDecoder.read_frames *)

MoveTo(w, l) == at' = [at EXCEPT ![w] = l]

(* A plausible slip: a generator that is left early does not close. *)
Ends_AtEofOnly(w, how) ==
    /\ MoveTo(w, "off")
    /\ end' = [end EXCEPT ![w] = how]
    /\ known' = [known EXCEPT ![w] = FALSE]
    /\ proc' = IF at[w] = "read" THEN [proc EXCEPT ![w] = "dead"] ELSE proc

(* The thread ends; read_frames() closes the process whichever way it is left. *)
Ends(w, how) ==
    /\ MoveTo(w, "off")
    /\ end' = [end EXCEPT ![w] = how]
    /\ known' = [known EXCEPT ![w] = FALSE]
    /\ proc' = [proc EXCEPT ![w] = IF @ = "none" THEN "none" ELSE "dead"]

(* ffmpeg is launched, and self._decoder set: until then stop() has nothing *)
(* to kill.                                                                 *)
Launch(w) ==
    /\ at[w] = "launch"
    /\ \/ /\ proc' = [proc EXCEPT ![w] = "alive"]
          /\ known' = [known EXCEPT ![w] = TRUE]
          /\ MoveTo(w, "announce")
          /\ UNCHANGED end
       \/ "error" \in Faults /\ Ends(w, "error")
    /\ UNCHANGED <<loopVars, refVars, of, pushed, told, outVars, mainVars>>

(* The engine's callback. *)
Announce(w) ==
    /\ at[w] = "announce"
    /\ curDec' = w
    /\ MoveTo(w, "read")
    /\ UNCHANGED <<loopVars, segDec, of, pushed, told, known, end, proc, outVars, mainVars>>

(* The next frame; the end of the file, or a frame that is not wanted any   *)
(* more; or one that cannot be mixed.  A kill() takes the process from under *)
(* the generator, which may have a frame left and meets the end of the file, *)
(* or a None where the process was.                                         *)
Read(w) ==
    /\ at[w] = "read"
    /\ \/ /\ proc[w] # "hung" /\ pushed[w] < MaxFrames /\ ~told[w]
          /\ MoveTo(w, "push")
          /\ UNCHANGED <<known, end, proc>>
       \/ proc[w] # "hung" /\ Ends(w, "eof")
       \/ (proc[w] = "dead" \/ (proc[w] = "alive" /\ "error" \in Faults)) /\ Ends(w, "error")
    /\ UNCHANGED <<loopVars, refVars, of, pushed, told, outVars, mainVars>>

Room == Len(queue) < Capacity

(* A plausible slip: the answer of push() is not looked at. *)
Refused_Ignored(w) ==
    /\ pushed' = [pushed EXCEPT ![w] = @ + 1]
    /\ MoveTo(w, "read")
    /\ UNCHANGED <<known, end, proc>>

Refused(w) == Ends(w, "eof") /\ UNCHANGED pushed

(* PCMOutputPipeline.push: waits while the queue is full, unless the pump   *)
(* is told to stop, or 30 s have passed.                                    *)
Push(w) ==
    /\ at[w] = "push"
    /\ \/ /\ Room
          /\ queue' = Append(queue, <<of[w], pushed[w] + 1>>)
          /\ pushed' = [pushed EXCEPT ![w] = @ + 1]
          /\ MoveTo(w, "read")
          /\ UNCHANGED <<known, end, proc>>
       \/ /\ ~Room
          /\ pumpStop \/ "slow" \in Faults
          /\ Refused(w)
          /\ UNCHANGED queue
    /\ UNCHANGED <<loopVars, refVars, of, told, held, air, pump, pumpStop, mainVars>>

Worker(w) == Launch(w) \/ Announce(w) \/ Read(w) \/ Push(w)

(* Before the worker reads, it is no different from one that hangs then. *)
Hang(w) ==
    /\ "hang" \in Faults /\ proc[w] = "alive" /\ at[w] = "read"
    /\ proc' = [proc EXCEPT ![w] = "hung"]
    /\ UNCHANGED <<loopVars, refVars, at, of, pushed, told, known, end, outVars, mainVars>>

-----------------------------------------------------------------------------
(* SegmentDecoder.stop(), by the playout thread or the main thread *)

(* The decoder is killed if the worker has published it. *)
StopWorker(w) ==
    /\ told' = [told EXCEPT ![w] = TRUE]
    /\ proc' = IF known[w] THEN [proc EXCEPT ![w] = "dead"] ELSE proc

(* The thread is joined for at most 2 s, which it takes longer than only if *)
(* its ffmpeg hangs.                                                        *)
Joined(w) ==
    \/ at[w] \in {"off", "new"} \/ "slow" \in Faults
    \/ at[w] = "read" /\ proc[w] = "hung"

-----------------------------------------------------------------------------
(* The playout thread *)

Goto(l) == pc' = l

(* The top of the loop.  While the station drains, only the sign-off is     *)
(* taken; the loop ends when the engine is stopped or the sign-off is over. *)
Take ==
    /\ pc = "take" /\ running
    /\ seg < MaxSegments /\ ~terminal
    /\ seg' = seg + 1
    /\ terminal' = draining
    /\ Goto("start")
    /\ UNCHANGED <<playing, task, count, refVars, workVars, outVars, mainVars>>

LoopEnds ==
    /\ pc = "take" /\ (~running \/ draining)
    /\ Goto("ended")
    /\ UNCHANGED <<seg, terminal, playing, task, count, refVars, workVars, outVars, mainVars>>

(* A SegmentDecoder nobody refers to; which one is of no account. *)
Free == {w \in Workers : at[w] = "off" /\ w \notin {segDec, curDec, task, target}}

(* _begin_segment_decode; there is no worker to be stopped when it is called. *)
Begin ==
    /\ Free # {}
    /\ LET w == CHOOSE w \in Free : TRUE IN
        /\ at' = [at EXCEPT ![w] = "new"]
        /\ of' = [of EXCEPT ![w] = seg]
        /\ pushed' = [pushed EXCEPT ![w] = 0]
        /\ told' = [told EXCEPT ![w] = FALSE]
        /\ end' = [end EXCEPT ![w] = "no"]
        /\ proc' = [proc EXCEPT ![w] = "none"]
        /\ segDec' = w /\ curDec' = None
        /\ UNCHANGED known

(* start_segment: refused while a segment counts as playing, but the loop    *)
(* goes on to play it.                                                      *)
Start ==
    /\ pc = "start"
    /\ IF playing = 0
       THEN playing' = seg /\ Begin /\ Goto("begun")
       ELSE Goto("play") /\ UNCHANGED <<playing, refVars, workVars>>
    /\ UNCHANGED <<seg, terminal, task, count, outVars, mainVars>>

(* self._segment_decoder.start(): stop() may have taken it away. *)
RunWorker(ok, ko) ==
    IF segDec = None THEN Goto(ko) /\ UNCHANGED at
    ELSE MoveTo(segDec, "launch") /\ Goto(ok)

(* Then the THINK, which is not told apart.  The exception of a start that  *)
(* finds no worker leaves start_segment, and the loop.                      *)
Begun ==
    /\ pc = "begun"
    /\ RunWorker("play", "ended")
    /\ UNCHANGED <<seg, terminal, playing, task, count, refVars, of, pushed, told, known, end,
                   proc, outVars, mainVars>>

(* _play_audio_segment *)
Play ==
    /\ pc = "play"
    /\ IF segDec = None THEN Begin /\ Goto("playing")
                      ELSE Goto("preroll") /\ UNCHANGED <<refVars, workVars>>
    /\ UNCHANGED <<seg, terminal, playing, task, count, outVars, mainVars>>

Playing ==
    /\ pc = "playing"
    /\ RunWorker("preroll", "take")
    /\ UNCHANGED <<seg, terminal, playing, task, count, refVars, of, pushed, told, known, end,
                   proc, outVars, mainVars>>

(* Without a worker nothing is played, and the segment is finished.         *)
Preroll ==
    /\ pc = "preroll"
    /\ task' = segDec
    /\ count' = 0
    /\ Goto(IF segDec = None THEN "finish" ELSE "wait")
    /\ UNCHANGED <<seg, terminal, playing, refVars, workVars, outVars, mainVars>>

(* A plausible slip: the frames in the queue by now are enough. *)
Exhausted_Prerolled(w) == end[w] # "no" \/ queue # <<>>

Exhausted(w) == end[w] # "no"

(* decoder_task.error is raised; the frames pushed are counted before the   *)
(* queue has drained.                                                       *)
Outcome ==
    /\ count' = pushed[task]
    /\ Goto(IF end[task] = "error" THEN "raise" ELSE "drain")

(* while not exhausted: ends early only when the engine is stopped. *)
Wait ==
    /\ pc = "wait"
    /\ \/ Exhausted(task) /\ Outcome /\ UNCHANGED <<told, proc>>
       \/ /\ ~Exhausted(task) /\ ~running
          /\ StopWorker(task)
          /\ Goto("abandon")
          /\ UNCHANGED count
    /\ UNCHANGED <<seg, terminal, playing, task, refVars, at, of, pushed, known, end,
                   outVars, mainVars>>

Abandon ==
    /\ pc = "abandon" /\ Joined(task)
    /\ Outcome
    /\ UNCHANGED <<seg, terminal, playing, task, refVars, workVars, outVars, mainVars>>

(* _wait_pcm_drain: until the queue is empty.  The sleep of a tick that      *)
(* follows is no longer than many a write, which may retry for 0.5 s: the   *)
(* pump may still hold the frame it took last.                              *)
Drained == queue = <<>>

(* The wait is bounded, and at its bound when there is no pump. *)
MayGoOn ==
    \/ Drained \/ pump = "off" \/ "late" \in Faults
    \/ queue # <<>> /\ ~running /\ ~terminal

(* An error is raised at once; otherwise the queue drains.  Then the finally *)
(* stops the worker.                                                        *)
Clean ==
    /\ pc = "raise" \/ (pc = "drain" /\ MayGoOn)
    /\ IF segDec = None THEN UNCHANGED <<told, proc>> ELSE StopWorker(segDec)
    /\ Goto(IF pc = "raise" THEN "cleanRaise" ELSE "cleanFinish")
    /\ UNCHANGED <<seg, terminal, playing, task, count, refVars, at, of, pushed, known, end,
                   outVars, mainVars>>

(* A segment that raised is not finished: it stays the current one. *)
Cleaned ==
    /\ pc \in {"cleanRaise", "cleanFinish"}
    /\ segDec # None => Joined(segDec)
    /\ segDec' = None /\ curDec' = None /\ task' = None
    /\ count' = IF pc = "cleanRaise" THEN 0 ELSE count
    /\ Goto(IF pc = "cleanRaise" THEN "take" ELSE "finish")
    /\ UNCHANGED <<seg, terminal, playing, workVars, outVars, mainVars>>

(* finish_segment, with the DJ's DO *)
Finish ==
    /\ pc = "finish"
    /\ playing' = IF playing = seg THEN 0 ELSE playing
    /\ count' = 0
    /\ Goto("take")
    /\ UNCHANGED <<seg, terminal, task, refVars, workVars, outVars, mainVars>>

Playout ==
    \/ Take \/ LoopEnds \/ Start \/ Begun \/ Play \/ Playing \/ Preroll
    \/ Wait \/ Abandon \/ Clean \/ Cleaned \/ Finish

-----------------------------------------------------------------------------
(* The pump: PCMOutputPipeline._pump_loop *)

(* A frame is taken, or silence, which is not told apart from no write. *)
PumpTakes ==
    /\ pump = "on" /\ ~pumpStop /\ held = NoFrame
    /\ queue # <<>>
    /\ held' = Head(queue) /\ queue' = Tail(queue)
    /\ UNCHANGED <<loopVars, refVars, workVars, air, pump, pumpStop, mainVars>>

PumpWrites ==
    /\ pump = "on" /\ held # NoFrame
    /\ air' = held /\ held' = NoFrame
    /\ UNCHANGED <<loopVars, refVars, workVars, queue, pump, pumpStop, mainVars>>

PumpEnds ==
    /\ pump = "on" /\ pumpStop /\ held = NoFrame
    /\ pump' = "off"
    /\ UNCHANGED <<loopVars, refVars, workVars, queue, held, air, pumpStop, mainVars>>

Pump == PumpTakes \/ PumpWrites \/ PumpEnds

-----------------------------------------------------------------------------
(* The main thread: Station.stop() and PlayoutEngine.stop() *)

MainGoto(l) == mainPc' = l

SetDraining ==
    /\ mainPc = "up"
    /\ draining' = TRUE
    /\ MainGoto("draining")
    /\ UNCHANGED <<loopVars, refVars, workVars, outVars, running, target>>

(* Called when the playout loop has ended, or after max_wait wherever it is. *)
Halt ==
    /\ mainPc = "draining"
    /\ running' = FALSE
    /\ MainGoto("look")
    /\ UNCHANGED <<loopVars, refVars, workVars, outVars, draining, target>>

(* _stop_segment_decoder, statement by statement *)
Look ==
    /\ mainPc = "look"
    /\ IF segDec = None THEN MainGoto("forget") /\ UNCHANGED <<told, proc>>
       ELSE StopWorker(segDec) /\ MainGoto("joinWorker")
    /\ target' = segDec
    /\ UNCHANGED <<loopVars, refVars, at, of, pushed, known, end, outVars, draining, running>>

JoinWorker ==
    /\ mainPc = "joinWorker" /\ Joined(target)
    /\ target' = None
    /\ MainGoto("forget")
    /\ UNCHANGED <<loopVars, refVars, workVars, outVars, draining, running>>

Forget ==
    /\ mainPc = "forget"
    /\ segDec' = None
    /\ MainGoto("clear")
    /\ UNCHANGED <<loopVars, curDec, workVars, outVars, draining, running, target>>

Clear ==
    /\ mainPc = "clear"
    /\ curDec' = None
    /\ MainGoto("kill")
    /\ UNCHANGED <<loopVars, segDec, workVars, outVars, draining, running, target>>

KillCurrent ==
    /\ curDec' = None
    /\ proc' = IF curDec = None THEN proc ELSE [proc EXCEPT ![curDec] = "dead"]

Kill ==
    /\ mainPc = "kill"
    /\ KillCurrent
    /\ MainGoto("join")
    /\ UNCHANGED <<loopVars, segDec, at, of, pushed, told, known, end, outVars, draining,
                   running, target>>

(* The playout thread is joined, for 60 s at most; if it is still there the *)
(* decoder is killed once more.                                             *)
Join ==
    /\ mainPc = "join"
    /\ \/ pc = "ended" /\ UNCHANGED <<curDec, proc>>
       \/ pc # "ended" /\ "slow" \in Faults /\ KillCurrent
    /\ MainGoto("drain")
    /\ UNCHANGED <<loopVars, segDec, at, of, pushed, told, known, end, outVars, draining,
                   running, target>>

(* The queue is waited for, 15 s at most, and longer than that only when a   *)
(* worker goes on filling it.                                               *)
StopPump ==
    /\ mainPc = "drain"
    /\ Drained \/ "late" \in Faults \/ \E w \in Workers : at[w] \notin {"off", "new"}
    /\ pumpStop' = TRUE
    /\ MainGoto("joinPump")
    /\ UNCHANGED <<loopVars, refVars, workVars, queue, held, air, pump, draining, running,
                   target>>

(* What a write may hold up is the matter of PcmLink. *)
JoinPump ==
    /\ mainPc = "joinPump"
    /\ pump = "off"
    /\ MainGoto("done")
    /\ UNCHANGED <<loopVars, refVars, workVars, outVars, draining, running, target>>

StopStep == Look \/ JoinWorker \/ Forget \/ Clear \/ Kill \/ Join \/ StopPump \/ JoinPump

-----------------------------------------------------------------------------

Next ==
    \/ Playout \/ Pump \/ SetDraining \/ Halt \/ StopStep
    \/ \E w \in Workers : Worker(w) \/ Hang(w)

Spec == Init /\ [][Next]_vars

(* Every thread keeps running; nobody is obliged to stop the station. *)
Fairness ==
    /\ WF_vars(Playout) /\ WF_vars(Pump) /\ WF_vars(StopStep)
    /\ \A w \in Workers : WF_vars(Worker(w))

FairSpec == Spec /\ Fairness

-----------------------------------------------------------------------------
(* Properties *)

LoopTypes ==
    /\ pc \in {"take", "start", "begun", "play", "playing", "preroll", "wait", "abandon",
              "raise", "drain", "cleanRaise", "cleanFinish", "finish", "ended"}
    /\ seg \in 0..MaxSegments /\ playing \in 0..MaxSegments /\ count \in 0..MaxFrames
    /\ terminal \in BOOLEAN /\ task \in Workers \cup {None}

RefTypes == segDec \in Workers \cup {None} /\ curDec \in Workers \cup {None}

WorkTypes ==
    /\ at \in [Workers -> {"off", "new", "launch", "announce", "read", "push"}]
    /\ of \in [Workers -> 0..MaxSegments] /\ pushed \in [Workers -> 0..MaxFrames]
    /\ told \in [Workers -> BOOLEAN] /\ known \in [Workers -> BOOLEAN]
    /\ end \in [Workers -> {"no", "eof", "error"}]
    /\ proc \in [Workers -> {"none", "alive", "hung", "dead"}]

OutTypes ==
    /\ queue \in Seq(Frames) /\ Len(queue) <= Capacity
    /\ held \in Frames \cup {NoFrame} /\ air \in Frames \cup {NoFrame}
    /\ pump \in {"on", "off"} /\ pumpStop \in BOOLEAN

MainTypes ==
    /\ draining \in BOOLEAN /\ running \in BOOLEAN
    /\ mainPc \in {"up", "draining", "look", "joinWorker", "forget", "clear", "kill", "join",
                  "drain", "joinPump", "done"}
    /\ target \in Workers \cup {None}

(* Every variable has the values its code gives it; the queue is never      *)
(* longer than its capacity (PCMOutputPipeline.push).                       *)
TypeOK == LoopTypes /\ RefTypes /\ WorkTypes /\ OutTypes /\ MainTypes

Busy(w) == at[w] \notin {"off", "new"}

(* Until the engine is stopped no two workers decode at once, however late  *)
(* a join or a drain gives up (PlayoutEngine._begin_segment_decode).        *)
OneDecoder == running => \A v, w \in Workers : Busy(v) /\ Busy(w) => v = w

(* The frame that the pump took last. *)
Front == IF held # NoFrame THEN held ELSE air

(* When a segment is finished, and the DJ's DO is run for it, the pump has  *)
(* taken its last frame and nothing is left to be taken: the DO comes one   *)
(* frame early at most, and never while the worker or the queue still has a *)
(* frame (_play_audio_segment, _wait_pcm_drain).                            *)
FinishedIsHandedOver ==
    pc = "finish" /\ running /\ count > 0 => queue = <<>> /\ Front = <<seg, count>>

(* Frames go out in the order of the files, none skipped and none twice,    *)
(* until the engine is stopped; then a segment may be begun once more, but  *)
(* no earlier one comes back.                                               *)
Tape_ == INSTANCE Tape WITH heard <- air, cut <- ~running
ImplementsTape == Tape_!Spec

(* The playout thread gets past every segment, unless its ffmpeg hangs:     *)
(* then its wait has no bound.                                              *)
SegmentEnds ==
    pc = "wait" ~> pc \in {"take", "ended"} \/ (task # None /\ proc[task] = "hung")

(* PlayoutEngine.stop() returns, whatever the playout thread was doing, and *)
(* in the end no ffmpeg goes on, the one included whose worker was begun    *)
(* behind the back of stop(); unless that one hangs, for nobody kills it.   *)
StopEnds ==
    mainPc = "look" ~> mainPc = "done" /\ \A w \in Workers : proc[w] # "alive"

(* Both: no wait of the engine is for ever. *)
WaitsEnd == SegmentEnds /\ StopEnds
=============================================================================
