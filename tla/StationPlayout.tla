--------------------------- MODULE StationPlayout ---------------------------
(***************************************************************************)
(* The station's control core: Station.start()/stop() on the main thread,  *)
(* PlayoutEngine._playout_loop on the playout thread, and the DJEngine     *)
(* callbacks (THINK in on_segment_started, DO in on_segment_finished) that *)
(* the playout thread runs.  The two threads share plain attributes and no *)
(* lock: the lifecycle flags of the DJ and of the engine, the callback     *)
(* reference, the run flags and the completion flag.  A step of a thread   *)
(* reads at most one flag the other thread writes, so every interleaving   *)
(* the interpreter can produce is one of the model's.                      *)
(*                                                                         *)
(* Abstracted: files and metadata (a segment is its type, its intent and   *)
(* whether it is terminal), wall-clock time (a wait may end by its timeout *)
(* when "timeout" is in Faults), and decoding (playing a segment is one    *)
(* step with the outcomes the decode worker can report).                   *)
(***************************************************************************)
EXTENDS Naturals, Sequences, FiniteSets

CONSTANTS
    Intents,   (* the identifiers a DJIntent can be given (uuid4 in the code) *)
    NoId,      (* stands for None                                             *)
    Faults     (* the failures that may happen, a subset of FaultKinds        *)

FaultKinds == {"think",    (* THINK raises: no song could be selected           *)
               "decode",   (* the decode worker ends with an error              *)
               "empty",    (* the decode worker ends without pushing any frame  *)
               "timeout"}  (* a bounded wait of stop() ends by its timeout      *)

ASSUME StationAssumption ==
    /\ NoId \notin Intents
    /\ Faults \subseteq FaultKinds

VARIABLES
    (* Station, written by the main thread except where noted *)
    mainPc,                 (* where the main thread is                           *)
    startupState,           (* Station._startup_state, advanced by both threads   *)
    lifecycle,              (* Station._lifecycle_state_enum                      *)
    sent,                   (* lifecycle events Tower accepted (_lifecycle_state) *)
    stationState,           (* StationStateManager._state, written by both        *)
    (* DJEngine *)
    djDraining,             (* DJEngine._is_draining, set by the main thread      *)
    terminalIntentQueued,   (* the lifecycle latch                                *)
    currentIntent,          (* DJEngine.current_intent                            *)
    (* PlayoutEngine *)
    engDraining,            (* PlayoutEngine._is_draining, set by the main thread *)
    isRunning, stopEvent,   (* set by run() and stop()                            *)
    callback,               (* whether _dj_callback still refers to the DJ        *)
    queue,                  (* PlayoutQueue                                       *)
    current, isPlaying,     (* _current_segment, _is_playing                      *)
    terminalDoExecuted,
    terminalAudioQueued,
    terminalAudioPlayed,
    playoutComplete,        (* _terminal_playout_complete                         *)
    (* locals of the playout thread *)
    pc, seg, caller, isTerminal, frames

mainVars   == <<mainPc, lifecycle, sent>>
djVars     == <<terminalIntentQueued, currentIntent>>
flagVars   == <<djDraining, engDraining, isRunning, stopEvent, callback>>
termVars   == <<terminalDoExecuted, terminalAudioQueued, terminalAudioPlayed,
                playoutComplete>>
airVars    == <<current, isPlaying>>
localVars  == <<seg, caller, isTerminal, frames>>
vars == <<mainVars, startupState, stationState, djVars, flagVars, queue,
          airVars, termVars, pc, localVars>>

-----------------------------------------------------------------------------
(* AudioEvent and DJIntent *)

SegmentTypes == {"outro", "id", "intro", "song", "announcement"}

Event == [type: SegmentTypes \cup {"none"}, intent: Intents \cup {NoId},
          terminal: BOOLEAN]

NoEvent             == [type |-> "none", intent |-> NoId, terminal |-> FALSE]
IdleSegment         == [type |-> "song", intent |-> NoId, terminal |-> FALSE]
StartupAnnouncement == [type |-> "announcement", intent |-> NoId,
                        terminal |-> FALSE]

DJIntent == [id: Intents \cup {NoId}, terminal: BOOLEAN, parts: SUBSET SegmentTypes]

NoIntent == [id |-> NoId, terminal |-> FALSE, parts |-> {}]

HasIntent == currentIntent.id # NoId

Piece(b, t) ==
    IF t \in b.parts
    THEN <<[type |-> t, intent |-> b.id, terminal |-> b.terminal]>>
    ELSE <<>>

(* A plausible slip: the intro is queued behind the song it introduces. *)
QueueOrder_IntroLast(b) ==
    IF b.terminal
    THEN Piece(b, "announcement")
    ELSE Piece(b, "outro") \o Piece(b, "id") \o Piece(b, "song") \o Piece(b, "intro")

(* The AudioEvents a DO pushes, in playing order. *)
QueueOrder(b) ==
    IF b.terminal
    THEN Piece(b, "announcement")
    ELSE Piece(b, "outro") \o Piece(b, "id") \o Piece(b, "intro") \o Piece(b, "song")

(* uuid4: an identifier that nothing alive carries. *)
LiveIds == {queue[i].intent : i \in DOMAIN queue}
              \cup {seg.intent, current.intent, currentIntent.id}
FreshIds == Intents \ LiveIds

(* What THINK can decide: a legal ID excludes talk, and a generic ID is     *)
(* only considered when there is neither; a normal break ends in a song.    *)
SongBreaks ==
    {b \in [id: FreshIds, terminal: {FALSE}, parts: SUBSET SegmentTypes] :
        /\ "song" \in b.parts
        /\ "announcement" \notin b.parts
        /\ ~({"outro", "id"} \subseteq b.parts)}

(* _handle_shutdown_think: a terminal intent with or without a sign-off. *)
TerminalBreaks ==
    [id: FreshIds, terminal: {TRUE}, parts: {{}, {"announcement"}}]

-----------------------------------------------------------------------------
EarlyStartup == {"BOOTSTRAP", "STARTUP_ANNOUNCEMENT_PLAYING",
                 "STARTUP_THINK_COMPLETE"}
StartupStates == EarlyStartup \cup {"STARTUP_DO_ENQUEUE", "NORMAL_OPERATION"}

OnAirState(s) == [state |-> "SONG_PLAYING", audio |-> s]
ShutdownState(s) == [state |-> "SHUTTING_DOWN", audio |-> s]

Init ==
    /\ mainPc = "boot"
    /\ startupState = "BOOTSTRAP"
    /\ lifecycle = "RUNNING"
    /\ sent = {}
    /\ stationState = [state |-> "ERROR", audio |-> NoEvent]
    /\ djDraining = FALSE /\ engDraining = FALSE
    /\ terminalIntentQueued = FALSE
    /\ currentIntent = NoIntent
    /\ isRunning = FALSE /\ stopEvent = FALSE
    /\ callback = TRUE
    /\ queue = <<>>
    /\ current = NoEvent /\ isPlaying = FALSE
    /\ terminalDoExecuted = FALSE
    /\ terminalAudioQueued = FALSE
    /\ terminalAudioPlayed = FALSE
    /\ playoutComplete = FALSE
    /\ pc = "off" /\ seg = NoEvent /\ caller = "finish"
    /\ isTerminal = FALSE /\ frames = FALSE
-----------------------------------------------------------------------------
(* The playout thread: PlayoutEngine._playout_loop *)

Goto(l) == pc' = l

(* The while condition (only run() and stop() write the run flags). *)
LoopTop ==
    /\ pc = "top"
    /\ Goto(IF isRunning /\ ~stopEvent /\ ~playoutComplete THEN "mode" ELSE "stopped")
    /\ UNCHANGED <<mainVars, startupState, stationState, djVars, flagVars, queue,
                   airVars, termVars, localVars>>

Dequeue == seg' = Head(queue) /\ queue' = Tail(queue)

NeedsIdleKick == ~terminalDoExecuted /\ ~isPlaying

(* The test of _is_draining: the draining branch, or a normal dequeue. *)
Mode ==
    /\ pc = "mode"
    /\ \/ /\ engDraining
          /\ Goto(IF NeedsIdleKick THEN "kick" ELSE "settle")
          /\ UNCHANGED <<queue, seg>>
       \/ /\ ~engDraining /\ queue = <<>>
          /\ Goto("top")
          /\ UNCHANGED <<queue, seg>>
       \/ /\ ~engDraining /\ queue # <<>>
          /\ Dequeue
          /\ Goto("start")
    /\ UNCHANGED <<mainVars, startupState, stationState, djVars, flagVars,
                   airVars, termVars, caller, isTerminal, frames>>

(* _trigger_terminal_do_if_idle: a DO for a segment that never played. *)
Kick ==
    /\ pc = "kick"
    /\ \/ /\ ~callback
          /\ terminalDoExecuted' = TRUE
          /\ Goto("settle")
          /\ UNCHANGED caller
       \/ /\ callback
          /\ caller' = "kick"
          /\ Goto("wrap")
          /\ UNCHANGED terminalDoExecuted
    /\ UNCHANGED <<mainVars, startupState, stationState, djVars, flagVars, queue, airVars,
                   terminalAudioQueued, terminalAudioPlayed, playoutComplete,
                   seg, isTerminal, frames>>

Kicked ==
    /\ pc = "kicked"
    /\ terminalDoExecuted' = (terminalDoExecuted \/ (callback /\ terminalIntentQueued))
    /\ Goto("settle")
    /\ UNCHANGED <<mainVars, startupState, stationState, djVars, flagVars, queue, airVars,
                   terminalAudioQueued, terminalAudioPlayed, playoutComplete, localVars>>

(* The rest of the draining branch: complete, or dequeue looking for the    *)
(* terminal segment and discard everything else.                            *)
Settle ==
    /\ pc = "settle"
    /\ \/ /\ terminalDoExecuted /\ (~terminalAudioQueued \/ terminalAudioPlayed)
          /\ playoutComplete' = TRUE
          /\ Goto("stopped")
          /\ UNCHANGED <<queue, seg, terminalAudioQueued>>
       \/ /\ ~(terminalDoExecuted /\ (~terminalAudioQueued \/ terminalAudioPlayed))
          /\ UNCHANGED playoutComplete
          /\ \/ /\ queue = <<>>
                /\ Goto("top")
                /\ UNCHANGED <<queue, seg, terminalAudioQueued>>
             \/ /\ queue # <<>> /\ ~Head(queue).terminal
                /\ queue' = Tail(queue)
                /\ Goto("top")
                /\ UNCHANGED <<seg, terminalAudioQueued>>
             \/ /\ queue # <<>> /\ Head(queue).terminal
                /\ Dequeue
                /\ terminalAudioQueued' = TRUE
                /\ Goto("start")
    /\ UNCHANGED <<mainVars, startupState, stationState, djVars, flagVars, airVars,
                   terminalDoExecuted, terminalAudioPlayed, caller, isTerminal, frames>>

(* start_segment: ignored when a segment is still marked as playing. *)
Start ==
    /\ pc = "start"
    /\ \/ /\ isPlaying
          /\ Goto("play")
          /\ UNCHANGED airVars
       \/ /\ ~isPlaying
          /\ current' = seg /\ isPlaying' = TRUE
          /\ Goto("think")
    /\ UNCHANGED <<mainVars, startupState, stationState, djVars, flagVars, queue,
                   termVars, localVars>>

-----------------------------------------------------------------------------
(* THINK: DJEngine.on_segment_started, inside the Station's wrapper *)

(* A plausible slip: imaging triggers a break as well. *)
TriggersBreak_Any(s) == s.type # "none"

(* Only songs and announcements trigger THINK and DO. *)
TriggersBreak(s) == s.type \in {"song", "announcement"}

SignOffDecided ==
    terminalIntentQueued \/ (HasIntent /\ currentIntent.terminal)

Think ==
    /\ pc = "think"
    /\ \/ /\ ~callback
          /\ Goto("play")
          /\ UNCHANGED currentIntent
       \/ /\ callback /\ djDraining
          /\ IF SignOffDecided
             THEN UNCHANGED currentIntent
             ELSE currentIntent' \in TerminalBreaks
          /\ Goto("hook")
       \/ /\ callback /\ ~djDraining
          /\ Goto(IF TriggersBreak(seg) THEN "plan" ELSE "hook")
          /\ UNCHANGED currentIntent
    /\ UNCHANGED <<mainVars, startupState, stationState, terminalIntentQueued, flagVars,
                   queue, airVars, termVars, localVars>>

(* Normal THINK: decide the next break.  An announcement reads the draining *)
(* flag a second time.  When it raises, start_segment swallows the error    *)
(* and the wrapper's bookkeeping (Hook) is skipped.                         *)
Plan ==
    /\ pc = "plan"
    /\ \/ /\ seg.type = "announcement" /\ djDraining
          /\ Goto("hook")
          /\ UNCHANGED currentIntent
       \/ /\ ~(seg.type = "announcement" /\ djDraining)
          /\ currentIntent' \in SongBreaks
          /\ Goto("hook")
       \/ /\ ~(seg.type = "announcement" /\ djDraining)
          /\ "think" \in Faults
          /\ currentIntent' = NoIntent
          /\ Goto("play")
    /\ UNCHANGED <<mainVars, startupState, stationState, terminalIntentQueued, flagVars,
                   queue, airVars, termVars, localVars>>

(* A plausible slip: only songs are reported. *)
AiringState_SongsOnly(s) == IF s.type = "song" THEN OnAirState(s) ELSE stationState

(* What StationStateManager reports once s is on air. *)
AiringState(s) == IF s.terminal THEN ShutdownState(s) ELSE OnAirState(s)

Hook ==
    /\ pc = "hook"
    /\ startupState' =
          IF /\ startupState = "STARTUP_ANNOUNCEMENT_PLAYING"
             /\ seg.type = "announcement" /\ HasIntent
          THEN "STARTUP_THINK_COMPLETE" ELSE startupState
    /\ stationState' = AiringState(seg)
    /\ Goto("play")
    /\ UNCHANGED <<mainVars, djVars, flagVars, queue, airVars, termVars, localVars>>
(* _play_audio_segment: wait for the decode worker.  Once stop() has        *)
(* halted the engine the decoder is killed and any outcome is possible.  An *)
(* error is logged and the loop goes on WITHOUT finish_segment.             *)
Halted == ~isRunning \/ stopEvent

Play ==
    /\ pc = "play"
    /\ \/ frames' = TRUE /\ Goto("finish")
       \/ ("empty" \in Faults \/ Halted) /\ frames' = FALSE /\ Goto("finish")
       \/ ("decode" \in Faults \/ Halted) /\ UNCHANGED frames /\ Goto("top")
    /\ UNCHANGED <<mainVars, startupState, stationState, djVars, flagVars, queue,
                   airVars, termVars, seg, caller, isTerminal>>

(* finish_segment: ignored unless the segment is the one on air.            *)
(* _shutdown_requested is never set (request_shutdown has no caller), so    *)
(* the DO is always allowed.                                                *)
Finish ==
    /\ pc = "finish"
    /\ \/ /\ ~isPlaying \/ current # seg
          /\ Goto("mark")
          /\ UNCHANGED caller
       \/ /\ isPlaying /\ current = seg /\ callback
          /\ caller' = "finish"
          /\ Goto("wrap")
       \/ /\ isPlaying /\ current = seg /\ ~callback
          /\ Goto("clear")
          /\ UNCHANGED caller
    /\ UNCHANGED <<mainVars, startupState, stationState, djVars, flagVars, queue,
                   airVars, termVars, seg, isTerminal, frames>>

-----------------------------------------------------------------------------
(* DO: DJEngine.on_segment_finished, inside the Station's wrapper *)

Finished == IF caller = "kick" THEN IdleSegment ELSE seg
Return   == Goto(IF caller = "kick" THEN "kicked" ELSE "ret")
Raise    == Goto(IF caller = "kick" THEN "settle" ELSE "clear")

IsStartupAnnouncement(s) == s.type = "announcement" /\ s.intent = NoId

(* A plausible slip: the wrapper does not advance the startup state. *)
LeavesStartup_Never(s) == FALSE

LeavesStartup(s) ==
    /\ ~engDraining
    /\ startupState = "STARTUP_THINK_COMPLETE"
    /\ IsStartupAnnouncement(s)

(* The wrapper.  The callback is read again here: detached meanwhile, the   *)
(* call raises.                                                             *)
Wrap ==
    /\ pc = "wrap"
    /\ IF ~callback \/ (LeavesStartup(Finished) /\ queue # <<>>)
       THEN Raise /\ UNCHANGED startupState
       ELSE /\ Goto("do")
            /\ startupState' = IF LeavesStartup(Finished)
                               THEN "STARTUP_DO_ENQUEUE" ELSE startupState
    /\ UNCHANGED <<mainVars, stationState, djVars, flagVars, queue, airVars, termVars,
                   localVars>>

HasTerminalIntent == HasIntent /\ currentIntent.terminal

(* Which intent this DO executes: a draining DO makes the terminal one. *)
Do ==
    /\ pc = "do"
    /\ \/ /\ ~HasTerminalIntent /\ ~TriggersBreak(Finished)
          /\ Return
          /\ UNCHANGED <<currentIntent, isTerminal>>
       \/ /\ HasTerminalIntent \/ TriggersBreak(Finished)
          /\ ~HasTerminalIntent /\ IsStartupAnnouncement(Finished) /\ queue # <<>>
          /\ Raise
          /\ UNCHANGED <<currentIntent, isTerminal>>
       \/ /\ HasTerminalIntent \/ TriggersBreak(Finished)
          /\ HasTerminalIntent \/ ~IsStartupAnnouncement(Finished) \/ queue = <<>>
          /\ \/ /\ djDraining /\ terminalIntentQueued
                /\ Return
                /\ UNCHANGED <<currentIntent, isTerminal>>
             \/ /\ djDraining /\ ~terminalIntentQueued
                /\ IF HasTerminalIntent
                   THEN UNCHANGED currentIntent
                   ELSE currentIntent' \in TerminalBreaks
                /\ isTerminal' = TRUE
                /\ Goto("build")
             \/ /\ ~djDraining
                /\ isTerminal' = HasTerminalIntent
                /\ Goto("record")
                /\ UNCHANGED currentIntent
    /\ UNCHANGED <<mainVars, startupState, stationState, terminalIntentQueued, flagVars,
                   queue, airVars, termVars, seg, caller, frames>>

(* The startup guards of a normal DO, and the check that THINK left a break. *)
Record ==
    /\ pc = "record"
    /\ \/ /\ ~djDraining
          /\ \/ startupState \in EarlyStartup
             \/ startupState = "STARTUP_DO_ENQUEUE" /\ queue # <<>>
          /\ Raise
       \/ /\ \/ djDraining
             \/ /\ startupState \notin EarlyStartup
                /\ startupState = "STARTUP_DO_ENQUEUE" => queue = <<>>
          /\ IF HasIntent THEN Goto("build") ELSE Return
    /\ UNCHANGED <<mainVars, startupState, stationState, djVars, flagVars, queue, airVars,
                   termVars, localVars>>

(* A plausible slip: the leakage check is lost. *)
LeakFree_Always == TRUE

(* No segment of an older intent at the head of the queue (one without an   *)
(* intent, the startup announcement, passes).                               *)
LeakFree == queue = <<>> \/ Head(queue).intent \in {NoId, currentIntent.id}

Latch == terminalIntentQueued \/ isTerminal

(* The latch is set before the leakage check can still refuse the break. *)
Build ==
    /\ pc = "build"
    /\ terminalIntentQueued' = Latch
    /\ IF \/ isTerminal /\ terminalIntentQueued
          \/ ~isTerminal /\ djDraining
          \/ ~LeakFree
       THEN Raise ELSE Goto("push")
    /\ UNCHANGED <<mainVars, startupState, stationState, currentIntent, flagVars, queue,
                   airVars, termVars, localVars>>

(* PlayoutEngine.queue_audio, then the intent is consumed. *)
Push ==
    /\ pc = "push"
    /\ queue' = queue \o QueueOrder(currentIntent)
    /\ terminalAudioQueued' =
          (terminalAudioQueued \/ (engDraining /\ currentIntent.terminal
                                              /\ QueueOrder(currentIntent) # <<>>))
    /\ startupState' =
          IF startupState = "STARTUP_DO_ENQUEUE" /\ ~isTerminal
          THEN "NORMAL_OPERATION" ELSE startupState
    /\ currentIntent' = NoIntent
    /\ Return
    /\ UNCHANGED <<mainVars, stationState, terminalIntentQueued, flagVars, airVars,
                   terminalDoExecuted, terminalAudioPlayed, playoutComplete, localVars>>

-----------------------------------------------------------------------------
(* The rest of finish_segment and of the loop body *)

Ret ==
    /\ pc = "ret"
    /\ terminalDoExecuted' =
          (terminalDoExecuted \/ (engDraining /\ callback /\ terminalIntentQueued))
    /\ Goto("clear")
    /\ UNCHANGED <<mainVars, startupState, stationState, djVars, flagVars, queue, airVars,
                   terminalAudioQueued, terminalAudioPlayed, playoutComplete, localVars>>

Clear ==
    /\ pc = "clear"
    /\ current' = NoEvent /\ isPlaying' = FALSE
    /\ Goto("mark")
    /\ UNCHANGED <<mainVars, startupState, stationState, djVars, flagVars, queue,
                   termVars, localVars>>

Mark ==
    /\ pc = "mark"
    /\ LET played == engDraining /\ seg.terminal /\ frames
       IN /\ terminalAudioPlayed' = (terminalAudioPlayed \/ played)
          /\ playoutComplete' = (playoutComplete \/ (played /\ terminalDoExecuted))
          /\ Goto(IF played /\ terminalDoExecuted THEN "stopped" ELSE "top")
    /\ UNCHANGED <<mainVars, startupState, stationState, djVars, flagVars, queue, airVars,
                   terminalDoExecuted, terminalAudioQueued, localVars>>

PlayoutStep ==
    \/ LoopTop \/ Mode \/ Kick \/ Kicked \/ Settle \/ Start
    \/ Think \/ Plan \/ Hook \/ Play \/ Finish
    \/ Wrap \/ Do \/ Record \/ Build \/ Push
    \/ Ret \/ Clear \/ Mark

-----------------------------------------------------------------------------
(* The main thread: Station.start().  The playout thread does not exist yet *)
(* and a signal that arrives here never returns to start(), so a step may   *)
(* cover several statements.                                                *)

MainGoto(l) == mainPc' = l

StartupBreak == [id: FreshIds, terminal: {FALSE}, parts: {{"announcement"}}]

(* The initial THINK, on a dummy song: a startup announcement if the pool   *)
(* has one, otherwise a normal break.  It runs through the wrapper.         *)
BootThink ==
    /\ mainPc = "boot"
    /\ currentIntent' \in StartupBreak \cup SongBreaks
    /\ stationState' = AiringState(IdleSegment)
    /\ MainGoto(IF "announcement" \in currentIntent'.parts THEN "inject" ELSE "first")
    /\ UNCHANGED <<startupState, lifecycle, sent, terminalIntentQueued, flagVars, queue,
                   airVars, termVars, pc, localVars>>

(* start() raises; main() stops the station. *)
BootFails ==
    /\ mainPc \in {"boot", "first"}
    /\ "think" \in Faults
    /\ currentIntent' = NoIntent
    /\ stationState' = IF mainPc = "first"
                       THEN [state |-> "STARTING_UP", audio |-> NoEvent]
                       ELSE stationState
    /\ MainGoto("failed")
    /\ UNCHANGED <<startupState, lifecycle, sent, terminalIntentQueued, flagVars, queue,
                   airVars, termVars, pc, localVars>>

InjectAnnouncement ==
    /\ mainPc = "inject"
    /\ startupState' = "STARTUP_ANNOUNCEMENT_PLAYING"
    /\ queue' = <<StartupAnnouncement>>
    /\ stationState' = [state |-> "STARTING_UP", audio |-> StartupAnnouncement]
    /\ currentIntent' = NoIntent
    /\ MainGoto("notify")
    /\ UNCHANGED <<lifecycle, sent, terminalIntentQueued, flagVars, airVars, termVars, pc,
                   localVars>>

(* No announcement: drop that intent, THINK again, and run the first DO. *)
FirstBreak ==
    /\ mainPc = "first"
    /\ \E b \in SongBreaks : queue' = QueueOrder(b)
    /\ currentIntent' = NoIntent
    /\ stationState' = AiringState(IdleSegment)
    /\ startupState' = "NORMAL_OPERATION"
    /\ MainGoto("notify")
    /\ UNCHANGED <<lifecycle, sent, terminalIntentQueued, flagVars, airVars, termVars, pc,
                   localVars>>

(* station_startup: recorded as sent only when Tower accepted it. *)
Notify ==
    /\ mainPc = "notify"
    /\ sent' \in {sent, sent \cup {"station_startup"}}
    /\ MainGoto("run")
    /\ UNCHANGED <<startupState, lifecycle, stationState, djVars, flagVars, queue, airVars,
                   termVars, pc, localVars>>

(* PlayoutEngine.run: reset the flags, start the playout thread. *)
Run ==
    /\ mainPc = "run"
    /\ isRunning' = TRUE /\ stopEvent' = FALSE
    /\ terminalDoExecuted' = FALSE /\ terminalAudioQueued' = FALSE
    /\ terminalAudioPlayed' = FALSE /\ playoutComplete' = FALSE
    /\ Goto("top")
    /\ MainGoto("running")
    /\ UNCHANGED <<startupState, lifecycle, sent, stationState, djVars, djDraining,
                   engDraining, callback, queue, airVars, localVars>>

StartStep == BootThink \/ BootFails \/ InjectAnnouncement \/ FirstBreak \/ Notify \/ Run

-----------------------------------------------------------------------------
(* The main thread: Station.stop(), from a signal at any time or from       *)
(* main() after start() raised.                                             *)

Stop ==
    /\ mainPc \in {"boot", "inject", "first", "notify", "run", "running", "failed"}
    /\ lifecycle' = "DRAINING"
    /\ djDraining' = TRUE
    /\ MainGoto("drain")
    /\ UNCHANGED <<startupState, sent, stationState, djVars, engDraining, isRunning,
                   stopEvent, callback, queue, airVars, termVars, pc, localVars>>

DrainEngine ==
    /\ mainPc = "drain"
    /\ engDraining' = TRUE
    /\ MainGoto("wait")
    /\ UNCHANGED <<startupState, lifecycle, sent, stationState, djVars, djDraining,
                   isRunning, stopEvent, callback, queue, airVars, termVars, pc, localVars>>

(* A plausible slip: a wait without its bound. *)
TimesOut_NoThread == pc = "off"

(* A wait that nothing can end but its timeout: no playout thread. *)
TimesOut == "timeout" \in Faults \/ pc = "off"

(* A plausible slip: the DO having run is taken for the sign-off played. *)
Complete_DoOnly == terminalDoExecuted

Complete == playoutComplete

(* PHASE 1: wait for terminal playout, at most _shutdown_timeout_seconds. *)
AwaitPlayout ==
    /\ mainPc = "wait"
    /\ Complete \/ TimesOut
    /\ MainGoto("post")
    /\ UNCHANGED <<startupState, lifecycle, sent, stationState, djVars, flagVars, queue,
                   airVars, termVars, pc, localVars>>

PostShutdown ==
    /\ mainPc = "post"
    /\ sent' \in {sent, sent \cup {"station_shutdown"}}
    /\ MainGoto("phase2")
    /\ UNCHANGED <<startupState, lifecycle, stationState, djVars, flagVars, queue, airVars,
                   termVars, pc, localVars>>

(* PHASE 2: the state manager is read, and written in a separate call. *)
EnterPhase2 ==
    /\ mainPc = "phase2"
    /\ lifecycle' = "SHUTTING_DOWN"
    /\ MainGoto(IF stationState.state # "SHUTTING_DOWN" THEN "setstate" ELSE "detach")
    /\ UNCHANGED <<startupState, sent, stationState, djVars, flagVars, queue, airVars,
                   termVars, pc, localVars>>

ReportShutdown ==
    /\ mainPc = "setstate"
    /\ stationState' = ShutdownState(NoEvent)
    /\ MainGoto("detach")
    /\ UNCHANGED <<startupState, lifecycle, sent, djVars, flagVars, queue, airVars,
                   termVars, pc, localVars>>

Detach ==
    /\ mainPc = "detach"
    /\ callback' = FALSE
    /\ MainGoto("recheck")
    /\ UNCHANGED <<startupState, lifecycle, sent, stationState, djVars, djDraining,
                   engDraining, isRunning, stopEvent, queue, airVars, termVars, pc,
                   localVars>>

Recheck ==
    /\ mainPc = "recheck"
    /\ Complete \/ TimesOut
    /\ MainGoto("halt")
    /\ UNCHANGED <<startupState, lifecycle, sent, stationState, djVars, flagVars, queue,
                   airVars, termVars, pc, localVars>>

(* PlayoutEngine.stop: returns at once when the engine never ran. *)
Halt ==
    /\ mainPc = "halt"
    /\ isRunning' = FALSE
    /\ stopEvent' = (stopEvent \/ isRunning)
    /\ MainGoto(IF isRunning THEN "join" ELSE "done")
    /\ UNCHANGED <<startupState, lifecycle, sent, stationState, djVars, djDraining,
                   engDraining, callback, queue, airVars, termVars, pc, localVars>>

(* The thread is joined for at most 60 seconds; the sink is closed after. *)
Join ==
    /\ mainPc = "join"
    /\ pc = "stopped" \/ TimesOut
    /\ MainGoto("done")
    /\ UNCHANGED <<startupState, lifecycle, sent, stationState, djVars, flagVars, queue,
                   airVars, termVars, pc, localVars>>

StopStep ==
    \/ DrainEngine \/ AwaitPlayout \/ PostShutdown \/ EnterPhase2 \/ ReportShutdown
    \/ Detach \/ Recheck \/ Halt \/ Join

Next == PlayoutStep \/ StartStep \/ Stop \/ StopStep

Spec == Init /\ [][Next]_vars

(* The playout thread and the main thread each keep running; that a signal  *)
(* arrives is not assumed, that main() stops a station that failed to start *)
(* is.                                                                      *)
Fairness ==
    /\ WF_vars(PlayoutStep)
    /\ WF_vars(StartStep)
    /\ WF_vars(StopStep)
    /\ WF_vars(mainPc = "failed" /\ Stop)

FairSpec == Spec /\ Fairness
-----------------------------------------------------------------------------
(* Properties *)

LoopPcs == {"off", "top", "mode", "kick", "kicked", "settle", "start", "think", "plan",
            "hook", "play", "finish", "wrap", "do", "record", "build", "push", "ret",
            "clear", "mark", "stopped"}
MainPcs == {"boot", "inject", "first", "notify", "run", "running", "failed", "drain",
            "wait", "post", "phase2", "setstate", "detach", "recheck", "halt", "join",
            "done"}
Reports == [state: {"ERROR", "STARTING_UP", "SONG_PLAYING", "SHUTTING_DOWN"}, audio: Event]

(* Every variable of the station's control core keeps its type. *)
TypeOK ==
    /\ mainPc \in MainPcs /\ pc \in LoopPcs
    /\ startupState \in StartupStates
    /\ lifecycle \in {"RUNNING", "DRAINING", "SHUTTING_DOWN"}
    /\ sent \subseteq {"station_startup", "station_shutdown"}
    /\ stationState \in Reports
    /\ djDraining \in BOOLEAN /\ engDraining \in BOOLEAN
    /\ isRunning \in BOOLEAN /\ stopEvent \in BOOLEAN /\ callback \in BOOLEAN
    /\ terminalIntentQueued \in BOOLEAN /\ currentIntent \in DJIntent
    /\ queue \in Seq(Event)
    /\ current \in Event /\ isPlaying \in BOOLEAN
    /\ terminalDoExecuted \in BOOLEAN /\ terminalAudioQueued \in BOOLEAN
    /\ terminalAudioPlayed \in BOOLEAN /\ playoutComplete \in BOOLEAN
    /\ seg \in Event /\ caller \in {"finish", "kick"}
    /\ isTerminal \in BOOLEAN /\ frames \in BOOLEAN

(* The queue never holds segments of two breaks: a DO only pushes when what *)
(* the previous DO pushed is gone (the leakage check of on_segment_finished,*)
(* dj_engine.py:621, and the DO-per-song rhythm that makes it pass).        *)
OneBreakInQueue ==
    \A i, j \in DOMAIN queue :
        queue[i].intent # NoId /\ queue[j].intent # NoId
            => queue[i].intent = queue[j].intent

(* A sign-off in the queue is the last thing in it, and nothing but the     *)
(* startup announcement can be ahead of it.                                 *)
SignOffIsLast ==
    \A i \in DOMAIN queue :
        queue[i].terminal =>
            /\ i = Len(queue)
            /\ \A j \in 1..(i - 1) : queue[j] = StartupAnnouncement

(* Once the sign-off is taken for playing, no other segment ever is, on any *)
(* path: normal drain, timeout, decode error, callback detached (PE7).      *)
NothingAfterSignOff == [][seg.terminal => seg' = seg]_vars

(* A break THINK committed is dropped only because the station drains: in   *)
(* normal operation the only thing that removes an intent is the DO pushing *)
(* it (no second THINK overtakes it, dj_engine.py:300).                     *)
BreaksAreAired ==
    [][HasIntent /\ currentIntent' # currentIntent
         => pc = "push" \/ djDraining \/ pc = "off"]_vars

(* The playout thread and the DJ implement the promise made to a listener:  *)
(* the segment taken for playing last is what is on air, and the station    *)
(* closes in two writes, the DJ's flag first, the engine's second.          *)
Hours == IF engDraining THEN "closed" ELSE IF djDraining THEN "leaving" ELSE "open"

Air == INSTANCE Broadcast WITH onAir <- seg, hours <- Hours

ImplementsBroadcast == Air!Spec

(* With no fault and no wait cut short, PHASE 2 never cuts audio: when      *)
(* stop() halts the engine the playout loop has already ended.              *)
NeverCutOff == stopEvent => pc = "stopped"

(* What the station reports is what is on air, whenever a segment is being  *)
(* played (STATION_STATE_CONTRACT R.3), if no THINK or decode fails and no  *)
(* wait times out.                                                          *)
ReportMatchesAir == pc = "play" => stationState.audio = seg /\ current = seg

(* Without faults, draining always completes, wherever the stop finds the   *)
(* playout thread.                                                          *)
DrainCompletes == djDraining /\ pc # "off" ~> playoutComplete

(* Without faults, songs keep starting until somebody stops the station.    *)
AlwaysOnAir == []<>(djDraining \/ (pc = "start" /\ seg.type = "song"))

(* Both: there is music until the station is told to stop, and then an end  *)
(* of the programme.                                                        *)
OnAirUntilClosed == AlwaysOnAir /\ DrainCompletes

(* Whatever fails, a stop() that was begun ends: each of its waits is       *)
(* bounded.                                                                 *)
StopEnds == djDraining ~> mainPc = "done"
=============================================================================
