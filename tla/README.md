# Retrowaves: verification project

Retrowaves is a radio station in two processes. **Station** (`src/station/`)
decides what to play, decodes it and pushes raw PCM frames over a unix socket.
**Tower** (`src/tower/`) takes the frames, falls back to a tone or a file when
they stop, keeps an ffmpeg encoder alive and streams MP3 to listeners. Both are
Python with one thread per job and almost no locks between jobs: the hard part
of the code is what two threads do between each other's steps, what is left when
one step of several fails, and whether the stream ever starts again.

Every definition is translated from the source (PROJECT.json `map` names the
lines). The documents in `src/*/docs/contracts` are used only as claims. Where
the code disagrees with one, section 4 says so; for two of these claims a run of
its own ends in a counterexample and PROJECT.json `findings` quotes it.

## 1. Inventory

### Station

| Part | State | Operations | Meets |
|---|---|---|---|
| `Station` (app/station.py), `main` (app/radio.py) | startup state, lifecycle state, HTTP server, state manager, lifecycle events sent | `start`, `stop`, callbacks wrapping the DJ's, signal handler | engine, DJ, state manager, Tower control |
| `PlayoutEngine` | queue, current segment, playing flag, run flags, draining flag, terminal-protocol flags | `run`, `stop`, `set_draining`, `queue_audio`, `start_segment`, `finish_segment`, `_playout_loop`, decode worker | DJ through callbacks, sink, PID controller |
| `DJEngine` | current intent, draining flag, lifecycle latch, cadence counters, rotation, asset pools | THINK (`on_segment_started`), DO (`on_segment_finished`), `set_draining`, `to_dict`/`from_dict` | engine queue, rotation, state store |
| `RotationManager`, `MediaLibrary` | play history, cooldown, last play, pools | `select_next_song`, `record_song_played` | DJ |
| `DJStateStore` | a JSON file | `save` (temp file and rename), `load` | Station start/stop |
| `StationStateManager` | state, since, current audio | `on_segment_started`, `on_shutdown`, ... | HTTP server |
| Decode pipeline | decoder process, frame queue, output pipeline, gain | decode worker thread, paced write loop | engine, PID controller, sink |
| `TowerPCMSink` | socket, frame buffer, timestamps | `write`, `_send_frame_bytes`, reconnect, buffer health | Tower's unix socket |
| `TowerControlClient` | none | lifecycle and segment events by HTTP | Tower's HTTP server |

### Tower

| Part | State | Operations | Meets |
|---|---|---|---|
| `PCMIngestor`, `UnixSocketIngestTransport` | one byte accumulator, client threads | accept, receive, split into frames | PCM ring buffer |
| `FrameRingBuffer` | bounded deque, counters | push (drop oldest), push front, pop, clear | everyone |
| `AudioPump` | next tick | every 21.3 ms: ask the manager for a frame, push it on | encoder manager |
| `EncoderManager` | audio state, run of PCM frames, grace timer, recovery thread | `next_frame`, `write_pcm`, `get_fallback_pcm_frame`, loss check, recovery loop | pump, supervisor |
| `FFmpegSupervisor` | state, process, attempts, first-frame flag, timestamps, threads | `start`, `stop`, `write_pcm`, drains, startup monitor, failure handlers, restart worker | ffmpeg, MP3 buffer, manager |
| `HTTPServer`, WebSocket, `EventBroadcaster` | listener sets, shutdown flag | accept, broadcast, drop slow listeners, events | listeners, Station |
| `TowerService` | the parts above | `start`, `stop`, `get_mode`, main loop | all |

### How the parts interact, and what is hard

* The playout thread runs THINK when a segment starts and DO when it ends; a DO
  queues what the THINK before it decided. Nothing else queues audio, so the two
  keep each other alive, and one failure stops both.
* `Station.stop()` runs on the main thread from a signal handler. It shares
  plain attributes with the playout thread: two draining flags, a callback
  reference, run flags, a completion flag.
* Frames cross a unix stream socket whose writer may be cut in the middle of a
  frame; the reader splits bytes by count.
* An ffmpeg process is replaced while threads of the former one still run: two
  drains, a startup monitor, failure handlers, restart workers, recovery threads,
  and `stop()`. A restart is refused while one is under way, by a test that no
  lock joins to the start.
* Station's events reach their listeners through sockets whose timeout two
  threads set, each for its own use: the handler that waits for what a listener
  says, and whichever ingest is sending.
* Each segment has a worker thread with an ffmpeg process. The playout thread
  begins and ends it, stop() on the main thread ends it too, and neither locks
  the two references by which the worker is known.
* What the DJ remembers decides what it says next, and is written only by a
  graceful stop.
* Bounded buffers drop; timers and counters admit or refuse PCM.

PROJECT.json `hazards` lists these at their lines, with the properties that
would catch them going wrong, or the reason none does yet. What makes each part
correct:

* playout: one break at a time, breaks aired whole and in order, the sign-off
  last and only once, a drain and a stop that end, a report that names what is
  on air;
* the DJ's memory: no ID or talk too soon after the last, through stops and
  starts; the legal ID comes back; no song twice in a row, none out of season;
  the DJ's history and the rotation's stay the same history; a crash at any
  point leaves the old or the new state;
* PCM link: the reader's frames are frames the writer wrote;
* ring buffer: first in, first out, bounded, every frame popped, dropped or
  present;
* decoding: one decoder at a time, frames in order, a segment finished when the
  pump has its last frame, a stop that ends and leaves no process;
* admission: no program without a run of frames, no gap without fallback;
* supervisor: one restart at a time and one live encoder, RUNNING only with a frame from it, no encoder
  after stop, a dead or hung encoder always replaced;
* stream listeners: an unbroken stream to each, nobody dropped but for his own
  slowness, who reads goes on receiving;
* event listeners: whoever is registered gets the whole event or is dropped, the
  gone are forgotten, Station's request is answered.

## 2. Modules

### StationPlayout (with Broadcast, MCStationPlayout, StationPlayoutProofs)

State: the attributes of `Station`, `DJEngine` and `PlayoutEngine` that the
control depends on, and a program counter for each of the two threads
(`mainPc`, `pc`). An action is the code of one thread between two accesses to an
attribute the other thread writes. Correspondence:

| Actions | Code |
|---|---|
| `LoopTop Mode Kick Kicked Settle Mark` | `PlayoutEngine._playout_loop`, `_trigger_terminal_do_if_idle` |
| `Start Finish Ret Clear` | `start_segment`, `finish_segment` |
| `Think Plan Hook` | `DJEngine.on_segment_started` within the Station's wrapper |
| `Wrap Do Record Build Push` | the wrapper and `DJEngine.on_segment_finished`, `queue_audio` |
| `Play` | `_play_audio_segment`: frames, no frame, or an error |
| `BootThink BootFails InjectAnnouncement FirstBreak Notify Run` | `Station.start`, `PlayoutEngine.run` |
| `Stop DrainEngine AwaitPlayout PostShutdown EnterPhase2 ReportShutdown Detach Recheck Halt Join` | `Station.stop`, `PlayoutEngine.stop` |

Abstracted: a segment is its type, the identifier of its intent and whether it
is terminal; which song or asset is chosen is not kept; a wait that may end by
its timeout is a fault (`"timeout"`), and so are a THINK that raises, a decode
error and a decode without frames. Left out because nothing outside the tests
calls it: `request_shutdown`, `_run_prefill_if_needed`,
`_send_idle_keepalive_frame`, `StationStateManager.on_error`.

`Broadcast` is the promise to a listener: one thing on air at a time, a break's
parts in order and at most once, a sign-off only when leaving, silence once
closed. `ImplementsBroadcast` checks that `StationPlayout` implements it with
`onAir <- seg` and the two draining flags as the three values of `hours`.

| Run | Question | Result |
|---|---|---|
| station_faults | all faults, every interleaving: one break in the queue, sign-off last, breaks aired, refinement, a stop ends | holds |
| station_fault_free | no fault: report matches air, nothing is cut off, on air until closed and then closed | holds |

Bounds: three intent identifiers. An identifier is fresh when nothing alive
carries it, and at most two are alive (the break queued or on air and the one
just decided), so three stand for an unbounded supply of uuids. There is no
other bound: the queue is at most one break long by `OneBreakInQueue` and the
shape of a break. Deadlock is not checked: the station really stops.

Fairness: weak fairness of the playout thread's step, of start()'s steps and of
stop()'s. Each is a running thread whose blocking calls are the waits that the
model lets end. No signal is assumed to arrive; `main` does call stop() when
start() raised.

### FFmpegSupervisor (with MCFFmpegSupervisor, FFmpegSupervisorProofs)

State: the attributes of `FFmpegSupervisor` that its threads share, the condition
of each ffmpeg process (`cold`: nothing written to it yet, `fed`, `hung`,
`dead`), a program counter for each stdout drain, for each restart worker and for
the main thread, and counters for the threads of which there may be many
(`fail`: failure threads at each place; `recovery`: recovery threads asleep, about
to test `_restart_thread`, or past the test). `restart` is the worker that
`_restart_thread` refers to; `overlapped` is history: two workers have been alive
at once. Processes, drains and workers are reused once nobody refers to them, so
no number of restarts is excluded.

| Actions | Code |
|---|---|
| `Start FirstSpawn FirstSpawnFails FirstDrain FirstBoot CompleteStartup` | `start`, `_complete_startup` |
| `DrainTop DrainOpen DrainFrame DrainEnd Announce` | `_stdout_drain`, `_on_first_mp3_frame` |
| `StartupTimeout ReportTimeout` | `_monitor_startup_timeout` |
| `Report HandleDeferred HandleFailure EnterRestarting NotifyFailed Schedule StartRestart` | `_on_process_failure`, `_handle_failure`, `_enter_restarting_or_failed`, `_schedule_restart` |
| `Promote Boot Reset ClosePipes JoinThreads Kill ClearEvent Spawn Started NotStarted Booting Arm Forgive ForceBooting` | `_restart_worker`, `_stop_encoder_process`, `_start_encoder_process`, `_force_booting` |
| `StartRecovery RecoveryWakes RecoverySchedules RecoveryStarts` | `EncoderManager._start_recovery_thread`, `_recovery_loop` |
| `Stop SetStopped StopPipes Terminate Forget Finish` | `stop` |
| `WritePcm ProcessExits ProcessHangs` | the pump's `write_pcm`, and ffmpeg itself |

The lock is held for single statements, so the actions are finer than it.
State-change callbacks run in the step that changes the state.
`_schedule_restart` is two steps, in a failure thread (`Schedule`,
`StartRestart`) and in a recovery thread (`RecoverySchedules`,
`RecoveryStarts`): its tests, of which `is_alive()` is one, and the assignment
and start of a new worker (ffmpeg_supervisor.py:1871-1880). That one thread
comes to the tests while another is between the two steps is the fault `"race"`:
the gap is a few statements, and a thread switch in it is as rare as it is
possible. With it every thread past the tests starts a worker of its own, and
`restart` is the last one. (Two threads that both assign before either starts go
on to start the same Thread object: the second start raises, and that thread has
done what a refused one does.)

Time: any delay may end at any moment, except that a healthy encoder that is fed
gives a frame before the startup timer (unless the fault `"slow"` is enabled),
and that a delay (timer, backoff, fork, recovery sleep) is longer than the few
statements a thread under way has left (`Settled`, `WorkerPrompt`,
`ReadersPrompt`; unless `"late"` is). A joined drain that a silent encoder keeps
in `read()` outlives the join; closing the pipe object does not wake it. What a
dead encoder has left in the pipe counts as read before its death: the drain
alone looks at the process (`write_pcm` swallows the broken pipe), and reads
before the startup timer ends.

| Run | Question | Result |
|---|---|---|
| sup_faults | crashes, deaths before a frame, failing launches, fair threads: one drain reads, a dead encoder is somebody's business, there is an encoder again (`EncoderReturns`: the dead are replaced, FAILED is left), stop() returns | holds |
| sup_hang | every fault but `"late"`: hanging and slow encoders, drains that outlive their joins, a failing first launch, threads that all pass the restart test: one live encoder, until two workers have overlapped | holds |
| sup_race | "One encoder process (FFmpeg) per Tower" (section 4) | violated |
| sup_stall | a documented claim (section 4) | violated |

`OneEncoder` says what restarts promise: as long as no two workers have been alive
at once (`~overlapped`), the live encoder is the one held. Whether they overlap is
a question of its own: without `"race"` they never do (theorem `RestartsAlone`),
with it they may, and sup_race shows what then happens to the encoder. In
sup_hang both kinds of behaviour are explored.

Bounds: two processes and one or two drains (one held and one dying are all that
can be alive while restarts are one at a time); one worker where `"race"` is not
among the faults, as a second is never used, and two where it is: a thread finds
no worker free only with as many alive. `_max_restarts` 1, 2 or the code's own 5;
at most one to three failure threads in flight (`MaxFailures` holds back a report,
never a handler; sup_hang and sup_race have two, so that two reports of one dead
encoder race each other); recovery threads are told apart up to two. `"late"` is
used by no run: with it a thread may sleep through a whole restart, and only the
theorem `EncoderUnique` covers it.

Fairness: weak fairness of each thread (failure threads, monitor, every worker,
recovery, drains, start(), stop()) and of the pump's write, which the 21.3 ms tick
repeats for ever. A process is never obliged to fail, nor anybody to call
stop(); in production nobody does, `__main__` ends the process instead.

Left out: the stderr drain and the logging (no effect on control), the framing
of MP3 bytes (a read that returns data is one frame), and the debug-only restart
entry points.

### EncoderAdmission (with MCEncoderAdmission, EncoderAdmissionProofs)

Which sound the encoder gets. One thread, the pump, runs `next_frame()` once per
tick; the threads of the supervisor run the state callback. They share the frame
count, two timestamps and the audio state, and only the audio state has a lock.

| Actions | Code |
|---|---|
| `Begin` | `next_frame`, `_select_frame_for_tick`: the mode, then the pop |
| `Load Store Stamp Met ClearTimer Promote Below` | a frame was found |
| `Missed Grace Fallback` | none was; `get_fallback_pcm_frame` |
| `CheckLoss MeasureLoss DropCount Quieten Regrace` | `_check_pcm_loss` |
| `Route Write Tick` | the routing of `next_frame`, `write_pcm`, `write_fallback`, `AudioPump._run` |
| `NoteState ResetTracking InitTimer InitCount InitLast` | `_on_supervisor_state_change`, `_init_fallback_grace_period` |
| `ReadView Judge ReadAge ApplyAudio` | `_log_audio_state_transition`, `_set_audio_state` |
| `Boot Spawn ForceBooting CompleteStartup StartReturns FirstFrame Fail Schedule Recover` | the supervisor, reduced to what it announces and on which thread |

Time is counted in ticks, and a timestamp is kept as its age, up to the bound
beyond which no comparison can tell. A pop finds a frame or not, as it likes.
`write_pcm` and `write_fallback` differ only in the states they test, and the
supervisor's own test is narrower than both, so one `Forwarded` stands for them.
The supervisor here is FFmpegSupervisor with its threads reduced to three, its
delays longer than a tick, and a first frame only for an encoder that is fed.
The variables `sent onAir got earned quiet hush` record history for the
properties and decide nothing, except that a restart waits for the tick that met
the failure (`onAir`), and recovery, minutes later, for the grace period
(`hush`).

| Run | Question | Result |
|---|---|---|
| admission | frames that come and go, failures, restarts, recovery: the encoder is fed every tick, programme is earned, loss is watched for and declared (`LossIsNoticed`), programme or tone returns (`SoundSettles`) | holds |

Bounds: threshold 2, loss window 2, grace period 3 ticks, for 15, 24 and 70 in
production: each is more than one, so that a callback may fall between the first
and the last tick of a count, and the grace period outlasts the loss window as
it does there. The number of failures is not bounded. `Late` is FALSE: a
callback ends before the next tick. If it is held up longer (by a full loss
window, in production), `EveryTickFed` and both parts of `LossIsNoticed` fail:
the reset then lands in a programme already admitted, and the verdict of `Judge`
on one already lost. So they do with a threshold of 1, which admits the first
frame while the callback of the first MP3 frame may still run. `ProgramIsEarned`
holds even so, as the theorem `Earned` says.

Fairness: weak fairness of the pump, which catches every exception and never
stops, and of each callback. The supervisor is not obliged to do anything; the
liveness properties are about an encoder that stays up.

### PcmLink (with FrameLink, MCPcmLink, PcmLinkProofs)

The way of a frame from the decode worker to Tower's PCM buffer: the queue and
the pump thread of `PCMOutputPipeline`, `TowerPCMSink`, a stream socket, the
connection threads, `PCMIngestor`'s accumulator and the ring buffer. Both
processes start, stop in order, die and come back. A byte is the pair of its
frame and its place; no byte says where a frame begins to the ingestor, which
only counts.

| Actions | Code |
|---|---|
| `StationStarts StationEnds EngineStop Drained DrainTimesOut Close JoinTimesOut` | `PCMOutputPipeline.start`/`stop`, `PlayoutEngine.stop`, `_wait_pcm_drain`, `TowerPCMSink.close` |
| `Decode Push PushFails` | `SegmentDecoder._run`, `PCMOutputPipeline.push` |
| `Tick PumpStops` | `_pump_loop` |
| `Connect ConnectFails Cool Send SendFails SendTimesOut` | `write_paced`, `_connect`, `_send_frame_bytes`, `_mark_disconnected` |
| `TowerStarts TowerStops TowerEnds Accept Recv Leave` | `UnixSocketIngestTransport` |
| `Gather Ignore Split Release` | `PCMIngestor._on_bytes_received`, `_deliver_frame` |
| `Pop` | `FrameRingBuffer.pop_frame`, for Tower's pump |

Abstracted: when a tick falls due; every wait with a bound ends by its bound as
the fault `"timeout"`; the 1 s between attempts to connect is the flag
`cooling`. The socket takes any part of what it is given, as the sink's loop
allows for. A test of `_running` at the head of the callback is taken together
with the lock. `cut` is history: since Tower started, a frame has been left half
written (by a timeout, by close() under the pump, by a death), or a Station has
started before its predecessor's connection was read out (`"late"`).

`FrameLink` is the promise: whole frames in order, programme never twice, none
lost on the way but the oldest of a full buffer. `ImplementsLink` checks it with
`inFlight` the frames whose last byte is between the accumulator and the socket,
and the link `up` while Tower is and nothing is cut.

| Run | Question | Result |
|---|---|---|
| pcm_link | crashes, deaths and timeouts: buffer entries are whole frames, the refinement, sound returns whatever connection was lost, a stop ends with or without a Tower | holds |

Bounds: frames of 2 bytes and a socket buffer of 2, so that sends and reads end
inside a frame and a read may begin in one and end in the next; queue and ring
of one, so that both can be full; two programme frames, one in the queue and one
being pushed (a third kind is silence; numbers are never reused); one
connection, used again once free (without `"late"` there are never two).
Deadlock is not checked: Station and Tower may both have stopped.

Fairness: weak fairness of the pump (it ticks for ever and every wait in a write
is bounded), of the passing of the 1 s, of stop()'s steps, of a pushing worker
and of each connection thread. No process is obliged to start, stop or fail.
`AudioReturns` excludes endless send timeouts: a Tower that does not read gets
nothing.

### StreamFanout (with MCStreamFanout, StreamFanoutProofs)

The listeners of `/stream`. State: what `HTTPServer` keeps per client (its
socket's timeout and whether it is open, its queue, whether it is registered),
a program counter for each handler thread and one for the main loop, and of the
system the room left in each send buffer. `_clients_lock` is held by the main
loop exactly in `loop = "flush"` (`LockFree`); every other lock section is one
action.

| Actions | Code |
|---|---|
| `Connect Count Add Arm Leave Remove` | `_run`, `_handle_client`, `_handle_stream_endpoint`, `_add_client`, `_remove_client` |
| `GetFrame Skip Visit Sweep` | `TowerService.main_loop`, `broadcast` |
| `Send Flushed SendFails SendTimesOut` | `_flush_client_queue_locked` and what `broadcast` makes of its result |
| `StopService StopServer` | `TowerService.stop`, `HTTPServer.stop`, `_close_all_clients` |
| `HangUp Read` | the listener |

Abstracted: a frame is a number, taken modulo `Frames`, and so much of it as is
still to be sent; whether 250 ms have passed since a client's last send is a
choice, made only when nothing was sent; a request for `/stream` has arrived
whole and its header is sent with the accepting step; `GetFrame` takes the test
of `running`, `get_frame()` and the snapshot together, which touch nothing
between them that another thread changes except the registry, read last. A
connection has an identity of its own and is not used again. `wire` is history:
what the listener's socket should take next.

| Run | Question | Result |
|---|---|---|
| tower_stream | listeners come, go, stall and read at will; a stop at any time: registry and sockets agree, streams unbroken, nobody dropped for another, the lost are forgotten, who reads goes on receiving | holds |

Bounds: two connections and a limit of one, so that the limit is met, exceeded
by the race, and one listener can stand in the other's way; frames of two bytes
and a buffer of two, so that sends are cut inside a frame; queues of two, so
that one is full with a half-sent frame at its head; two frame numbers, enough
to tell a neighbour from a repetition. Deadlock is not checked: after stop()
everything may have ended.

Fairness: weak fairness of the main loop, whose every wait is bounded (the
handler's 5 s included: `SendTimesOut` is what ends it), and of the listeners in
`Readers`. Strong fairness of each handler: the lock it wants is released
between any two clients, and while the encoder runs it is free most of the time,
since the main loop waits for its next frame without it; in the states in which
`get_frame()` does not wait, the assumption is that the interpreter does not pass
the same thread over for ever. Nobody is obliged to connect, hang up or stop.

### EventFanout (with MCEventFanout, EventFanoutProofs)

The listeners of `/tower/events`, and the events Station posts. State: the
registry, and per listener its handler's place, its socket (open, the *timeout*
the socket object has now, the room in its send buffer) and the listener
himself; per ingest its place, its event, and of `clients_copy` what is still to
be visited. `_event_clients_lock` covers single statements only, so no action
holds it.

| Actions | Code |
|---|---|
| `Upgrade Register Arm Recv Wake RecvTimesOut Answer Leave` | `_handle_client`, `_handle_websocket_events` |
| `Post Reject Accept` | `_handle_events_ingest_endpoint`, `validate_event`, `update_shutdown_state` |
| `Snapshot Filter Select SelectFails Send SendFails Restore RestoreFails Sweep` | `_broadcast_event_to_streaming_clients` |
| `Stop CloseAll` | `HTTPServer.stop`, `_close_all_clients` |
| `HangUp Say Read` | the listener |

A broadcast makes the socket "now" for its send and puts back what
`getblocking()` told it: "now", or for everything else "forever", so the
handler's 1 s is lost until it calls `settimeout` again. `Recv` goes by whatever
it finds: "now" makes it give up an idle listener, which `IdleIsKept` has to
except (section 4), and "forever" is why a handler may wait `"hang"`.

Abstracted: a request is accepted or refused as it likes, and an event is its
type; what a listener says is a ping or a Close, and either is answered and the
connection kept, as the code does; the 250 ms of `select()` and the 1 s of
`recv()` are choices, taken only when nothing else would have ended them.
Several ingests are there because Station gives up after 100 ms and posts again
while the first is still at work. `audience` and `got` are history.

| Run | Question | Result |
|---|---|---|
| events | listeners come, speak, stall and go, events overlap, a stop at any time: the registry is true to the threads, who is registered gets all of an event or is dropped, nobody is dropped who had room, an idle listener is kept but for one interleaving, Station is answered, the gone are forgotten | holds |

Bounds: one listener and two ingests, for what is hard is which of three threads
sets the one socket's timeout last; events of two bytes and a buffer of three,
so that one event fits, the second finds room for a part of it, and an answer
can take the place of a byte. What one listener does to another is left to the
proof, which has any number of both. Deadlock is not checked: after stop()
everything may have ended.

Fairness: weak fairness of each handler and of the listeners in `Readers`;
strong fairness of each ingest: what it waits for (a socket to become writable,
or 250 ms to pass without that) another thread may undo and bring back, and each
of its other steps ends by itself. Nobody has to post, speak, hang up or stop.

### DJMemory (with MCDJMemory, DJMemoryProofs)

What the DJ and its rotation remember, what a THINK chooses from it, and what
becomes of it when Station stops, dies and starts again.

| Actions | Code |
|---|---|
| `Start` (with `FromDict`) | `Station.start`, `DJStateStore.load`, `DJEngine.from_dict` |
| `Think` (with `NeedsLegalId ShouldTalk NeedsGenericId Outro Intro StationId Rotated`) | `DJEngine.on_segment_started` and its helpers, `RotationManager.select_next_song` |
| `Do` (with `Stamped Used Played`) | `DJEngine.on_segment_finished`, `record_song_played` of both |
| `Drain` | the terminal THINK and DO |
| `Save SaveFails` (with `ToDict`) | `DJEngine.to_dict`, `DJStateStore.save` |
| `Crash Tick SeasonTurns` | the end of the process, the clock and the calendar |

Abstracted: a time stamp is its age, capped at the interval it is compared with,
since nothing asks for more; the file's ages grow while Station is down; the
weights of the rotation (recent play, holiday) make a song less likely and never
impossible, so what they depend on is recorded and a choice is free. A THINK and
a DO are one step each: StationPlayout has the threads and faults between them.
`aired` and `lost` are history: the true age of the last ID or talk, and the
kinds whose last airing nobody remembers, since a crash or a save that failed.

| Run | Question | Result |
|---|---|---|
| dj_memory | songs, breaks, seasons, stops, crashes and starts in any order: IDs and talk keep their distance, both histories agree, the next song is another one and in season, unless the rotation has to refuse, the legal ID comes back | holds |

Bounds: one regular track and two holiday tracks, so that the rotation refuses
when the regular one is on air out of season, and must not be passed over when a
holiday track is; one track with an intro and an outro of its own, one generic
outro and no generic intro, so that a pool may be used up, or be empty;
intervals of 3, 2 and 1 for legal IDs, talk and generic IDs, in the order of the
code's 60, 30 and 3 minutes; histories of 1 (the DJ), 2 (the rotation) and 1 (in
the file) for 10, 48 and 20, and a cooldown of 1 for 5: each is filled and
overrun.

Fairness: weak fairness of THINK and DO, as StationPlayout's `AlwaysOnAir`
provides in the absence of faults. Nobody has to start or stop Station.

### SegmentDecode (with Tape, MCSegmentDecode, SegmentDecodeProofs)

From a segment in hand to its frames sent. Four kinds of threads: the playout
thread (`pc`), one worker per segment (`at`, with its ffmpeg in `proc`), the pump
(`held`, `air`), and the main thread in `PlayoutEngine.stop()` (`mainPc`).

| Actions | Code |
|---|---|
| `Launch Announce Read Push` | `SegmentDecoder._run`, `FFmpegDecoder.__init__`, `read_frames`, `close`, `PCMOutputPipeline.push` |
| `Take LoopEnds Start Begun` | `_playout_loop`, `start_segment`, `_begin_segment_decode` |
| `Play Playing Preroll Wait Abandon Clean Cleaned Finish` | `_play_audio_segment`, `_wait_pcm_drain`, `_stop_segment_decoder`, `finish_segment` |
| `PumpTakes PumpWrites PumpEnds` | `_pump_loop` |
| `SetDraining Halt Look JoinWorker Forget Clear Kill Join StopPump JoinPump` | `set_draining`, `PlayoutEngine.stop`, with `_stop_segment_decoder` statement by statement |
| `Hang` | ffmpeg itself |

Where StationPlayout plays a segment in one step (`Play`), this module has what
happens in it; what it leaves to StationPlayout is whether a segment is queued,
and the conditions under which a draining loop ends. `Begin` contains the stop of
a former worker only as far as it changes anything: at each of its two places
`_segment_decoder` is None. A frame is the pair of its segment and its place. The
preroll waits are bounded and change nothing, so they are no action. A join or a
push that gives up although what it waits for would still come is the fault
`"slow"`, and a drain that does `"late"`; the join of a worker whose ffmpeg hangs
ends by its bound in any case. The drain waits for the empty queue and then sleeps
for a tick and 10 ms, about 31 ms (playout_engine.py:606), while the write of the
frame that the pump took last may retry for 0.5 s (tower_pcm_sink.py:209): so
`Drained` is the empty queue, and the DO may find the pump with that frame in hand.
`FinishedIsHandedOver` says that it is never more than that frame.

`Tape` is the promise: the frames of a segment from the first on, none skipped
and none twice, segment after segment. `ImplementsTape` checks it with
`heard <- air`, and `cut` once the engine is stopped: then a segment whose
worker was lost may be begun a second time.

| Run | Question | Result |
|---|---|---|
| decode | decode errors, ffmpegs that hang, joins and pushes that give up, a stop at any time: one decoder, DO when the pump has taken the last frame, frames in order, every wait ends | holds |

`WaitsEnd` has two parts. `SegmentEnds`: the playout thread gets past every
segment whose ffmpeg does not hang (with one it waits without a bound,
playout_engine.py:1119). `StopEnds`: a stop that begins anywhere in a segment
returns, with a hanging ffmpeg too, and in the end no ffmpeg runs, the one whose
worker stop() has lost included, unless that one hangs.

Bounds: two segments of at most two frames, so that one segment follows another
and a frame another frame; a queue of one, which is full or empty at once; two
workers: one lost to stop(), or left behind by a join, and the current one (a
third is never used: the state count is the same). Which free worker is taken is
fixed, since they do not differ. `"late"` is used by no run: a drain that gives up
runs the DO early, by its own bound, and the theorems other than `FinishedHandedOver`
allow it. Deadlock is not checked: the station stops.

Fairness: weak fairness of the playout thread, the pump, the workers and the
steps of stop(). A worker reading from a hanging ffmpeg has no step; nobody is
obliged to stop the station.

## 3. Proofs

The type invariants of all eight modules are theorems (`TypeCorrect`) and in no
run.

`StationPlayoutProofs` proves, for every set of intents and every subset of the
faults, from `StationAssumption` (None is not an identifier; faults are faults):
`TypeCorrect`, `OneBreak`, `SignOffLast`, and `SignOffEndsTheBroadcast` (once the
sign-off is on air nothing else goes on air). None of the
three safety properties is inductive. The invariant of theorem `Invariance`
conjoins: the types; what the shutdown flags imply of each other; what each
program point of the playout thread knows (which segment is on air, which intent
the DO will push, that an idle kick has no segment on air); and the shape of the
queue, which is empty, the startup announcement, the rest of one break in
playing order, or those followed by the sign-off, with the latch set exactly
when a sign-off has been built. Each action is one step of the proof.

Its second half builds on that invariant. For every set of intents and
faults it proves the refinement, `PromiseKept` (`ImplementsBroadcast`), and
`BreaksNotLost` (`BreaksAreAired`); for a station without faults `NothingCutOff`
(`NeverCutOff`) and `ReportIsTrue` (`ReportMatchesAir`). The refinement needs
`InOrder`: everything queued is something `Broadcast` may air, the ranks of a
break's parts rise along the queue, and what is on air lets the rest follow,
being an earlier part of the same break or the end of the one before; the lemmas
`PartIsStretch`, `StretchesJoin` and `QueueOrderIsOrder` establish it of what a DO
builds. That no break is lost needs, while nobody stops the station, `Committed`
(a break that is decided belongs to the segment on air, and its DO finds nothing
to refuse) and `StartsUp` (which announcement the startup waits for). Without
faults `Undisturbed` says that stop() gets past its wait only when the playout
thread has ended, so that no segment is played without its THINK and its report.

`FFmpegSupervisorProofs` proves, for any processes, drains, workers, restart
limits and faults (`"late"` and `"race"` included), from `SupervisorAssumption`:
`TypeCorrect` and `EncoderUnique` (`OneEncoder`: as long as no two workers have
been alive at once). `OneEncoder` is not inductive: that the worker spawns
beside nothing has to be known when it is between `Kill` and `Spawn`, and that
the first launch does, that no worker, failure or recovery thread exists before
start() has returned. The invariant of theorem `Invariance` is `TypeOK /\
StartsAlone /\ Sole /\ InTurn /\ EncoderHeld`; `StartsAlone` in turn rests on
failures being deferred until startup completes, and `Sole` says that the worker
alive is the one `_restart_thread` refers to. `InTurn` is about the faults
without `"race"`: a thread past the restart test is the only one, and finds no
worker alive. From it `RestartsAlone`: without `"race"` no two workers are ever
alive at once, and there is one encoder without any condition
(`OneEncoderPerTower`, the property that sup_race shows violated with `"race"`).

Two more theorems admit fewer faults. `ReaderUnique` (`OneReader`) excludes
`"hang"`, `"late"` and `"race"`: its invariant `ReadersKnown` says that the one
drain is the thread the worker and stop() join, and that there is none from the
join to the next launch. A joined drain has ended, since no encoder it could be
waiting for hangs (`JoinedIsOff`); with hangs the property is false (section 4).
`DeadIsTended` (`NoDeadEnd`) assumes `Ordinary`: encoders that crash, at once or
later, launches that fail, and a bound that counts one recovery thread at least.
To show that somebody will act on a dead encoder, the invariant of
`OrdinaryInvariance` has to name who it is: what is reported, restarted or given
up is dead (`TroubleKnown`), so a late report cannot stop the watch over a
living encoder; `_first_frame_received` tells of the encoder held and of no
earlier one (`FirstKnown`), so "no frame yet" means that the monitor is armed;
and without a worker or a failure under way the drain or the monitor watches, or
the recovery thread sleeps (`WatchKnown`, `RecoveryKnown`). `LaunchKnown` and
`PipesKnown` are what the first launch and the pipes contribute.

`PcmLinkProofs` proves, for any frame, buffer, queue and ring size, any number
of connections and every subset of the faults, from `LinkAssumption`:
`TypeCorrect`, `WholeFrames` (`FramesWhole`) and the refinement of `FrameLink`,
`LinkKept` (`ImplementsLink`). The stream from the accumulator
to the socket is said to be aligned when it begins with a frame and every byte
has in front of it what its place requires; alignment speaks of places, not of
frames counted from the beginning, so it needs no induction. The invariant of
theorem `Invariance` (`IInv`) says that the accumulator is aligned while nothing
is cut (also in a Tower that is stopping), that with Tower up one connection at
most is in use, that its stream is aligned and ends with exactly the bytes of
the current frame the pump has written, and that nothing is left in the
accumulator when no connection is in use: the last is why a reconnection cannot
inherit half a frame.

The refinement adds the count and the order. `inFlight` is what the reader will
find by counting bytes: the frame of every `FrameBytes`-th byte between the
accumulator and the socket. The invariant keeps the remainder of that count equal
to what the pump has written of its frame (`EndsAt`), so a send completes a
multiple of `FrameBytes` exactly when it writes a frame's last byte; the lemmas
of the section Counts are the arithmetic, `MoreFrames` and `LessFrames` what a
send and a split do to the frames counted. That programme is sent once and in
order is `SentInOrder`: whatever happens to connections and processes, numbers
rise from the last frame sent over the pump's and the queue's to the one being
pushed. `LinkStep` has a step of `FrameLink`, or a stutter, for every action.
What follows for the listener is `ProgrammeOnce`, that `FrameLink`'s `OnceInOrder`
holds of the link: while it is up, the programme frames in Tower's buffer and on
the way to it are in the order they were decoded, none twice, and the next to be
sent is behind them all. Each step of `FrameLink` keeps it (`OnceStep`).

`StreamFanoutProofs` proves, for any set of connections, any limit and any sizes
of frames, buffers and queues, from `FanoutAssumption`: `TypeCorrect`,
`RegistryTrue`, and the two action properties as `StreamGoesOn` and `OnlySlow`.
The invariant of theorem `Invariance` conjoins the types; what a handler knows
(before it registers its connection is open and not registered; after, open
exactly as long as registered); where the main loop is (who is being flushed is
registered, not to be visited again, not given up, and has something queued
unless the socket took something); and `InOrder`: a registered client's queue is
one stretch of the stream, its frames consecutive, only the first one cut, the
last one the predecessor of the frame due to him, and its first entry what the
wire expects. A client that is given up keeps no such promise, which is why
`InOrder` excludes `dead`. `StretchGrows`, `StretchShrinks` and `StretchIsCut`
are the lemmas about append, a whole send and a partial one.

`EncoderAdmissionProofs` proves, for any threshold, loss window and grace
period, and with `Late`, from `AdmissionAssumption`: `TypeCorrect` and `Earned`
(`ProgramIsEarned`). What has to be excluded is a reset undone: the pump reads
the count, a callback sets it to 0, and the pump stores what it had read plus
one. The invariant of theorem `Invariance` says that no tick of before a failure
outlives it when the encoder is not RUNNING (`CalmKnown`), so that the count is 0
whenever an encoder may come up (`CountKnown`); that no count, stored or about to
be, is ahead of the frames found (`CountIsEarned`); and that a frame on its way
to the encoder was earned and found just now (`FlightKnown`).

With prompt callbacks and a threshold of at least 2 (`Prompt`) it also proves
`Fed` (`EveryTickFed`) and `LossNoticed` (`LossIsNoticed`). The exception that
would cost a frame needs a timestamp that is reset between a test and a second
read, and both properties fall with a reset that leaves PROGRAM shown. The
invariant of `PromptInvariance` says why neither comes about: PROGRAM does not
outlive its encoder (`AudioKnown`) and no callback sets it (`CallbackKnown`), so
that while a callback still runs the encoder is in its first tick, with at most
one frame found and no loss looked for (`FreshKnown`); from then on PROGRAM
stands on a full count and on a timestamp as old as the silence (`WatchKnown`).

`EventFanoutProofs` proves, for any listeners, ingests and sizes, from
`EventAssumption`: `TypeCorrect`, `RegistryTrue`, `EventReachesAll`, and the
action properties `OnlyStalled` and `IdleKept` (`IdleIsKept`). The invariant of
theorem `Invariance` conjoins the types; what handlers and broadcasts know of a
client (`ClientsKnow`); that no broadcast has heard of one that is not registered
yet (`Unheard`); and what an ingest owes to whom at each of its places
(`IngestsKnow`).

`DJMemoryProofs` proves, for any tracks, assets, intervals and histories that
nest, from `MemoryAssumption`: `TypeCorrect`, `Spacing`, `Histories` and
`NextSongFits`. `SpacingKept` needs that a stamp is true unless its last airing
was lost, in memory and in the file (`StampsTrue`), and that what was due when
it was planned still is (`PlanDue`). `RecentOfRecent` and `RecordedAlike` are
the lemmas about histories: two that agree on their ends go on agreeing when the
same song is recorded in both.

`SegmentDecodeProofs` proves, for any workers, capacity, segments, frames and
faults, from `DecodeAssumption`: `TypeCorrect`, `DecoderUnique` (`OneDecoder`),
the refinement `TapeKept` (`ImplementsTape`), and, with a drain that does not
give up, `FinishedHandedOver` (`FinishedIsHandedOver`). The invariant of theorem
`Invariance` says what the places imply (`Places`); that until the engine is
stopped the worker referred to is the only one, and is over before the reference
is dropped (`Alone`); that from the air to the queue's end no frame belongs to
an earlier segment than the one before it (`Ordered`), and that while the engine
runs each follows the one before it and the worker's next follows the last
(`InTurn`); and that a drain has seen the last frame taken (`HandedOver`).
`Ordered` alone is what is left after a stop, and why no earlier segment comes
back.

The hypotheses of the conditional theorems are needed: TLC finds `OneReader`
violated with `"late"` or `"hang"` among the faults, `NoDeadEnd` with either of
these and with `MaxRecoveries = 0`.

Liveness stays with TLC: this prover has neither fairness nor ENABLED. Every
invariant, action property and refinement the passing runs check is a theorem.

## 4. Findings

A run checks one quoted sentence and ends in a counterexample; PROJECT.json
`findings` has the quotation and the lines.

* sup_race: the startup monitor and the drain both report the same dead encoder,
  and both failure threads find no restart under way before either has started
  one (ffmpeg_supervisor.py:1871-1880). Two workers kill what is held and spawn one
  encoder each; the first is overwritten in `_process` and runs on, held by nobody.
  "One encoder process (FFmpeg) per Tower" (ARCHITECTURE_TOWER.md:68), "Restart
  already in progress" (ffmpeg_supervisor.py:1872);
* sup_stall: the stall check runs only after a read has returned data, so a
  silent encoder in RUNNING is kept for ever.

Other divergences met while modelling, which the models contain and no run
isolates:

* a broadcast that makes a listener's socket non-blocking between his handler's
  `settimeout(1.0)` and `recv()` ends an idle connection: recv raises
  BlockingIOError, an OSError and no socket.timeout (server.py:1082); "Idle
  connections MUST NOT be disconnected based solely on lack of data transfer"
  (NEW_TOWER_RUNTIME_CONTRACT.md:630). It is the exception in `IdleIsKept`;
* PlayoutEngine.stop() loses a worker that the playout thread begins between its
  test of `_segment_decoder` and its assignment (playout_engine.py:1223); if its
  ffmpeg hangs, nobody kills it. "Kills all FFmpeg subprocesses to prevent orphaned
  processes" (playout_engine.py:1213). It is the exception in `StopEnds` of
  SegmentDecode;
* the drain's last sleep may end before the pump's write does, and the DO then runs
  with that frame unsent: "Wait until all queued PCM frames have been sent to Tower"
  (playout_engine.py:588), "One more tick so the pump sends the last dequeued frame"
  (playout_engine.py:606), against the 0.5 s of tower_pcm_sink.py:209. It is the
  frame that `FinishedIsHandedOver` allows the pump to hold;
* one decode error leaves `_is_playing` set (playout_engine.py:789); the segments
  after it are decoded and aired, but none begins, and no THINK and no DO is run.
  "Next segment begins normally after error" (PLAYOUT_ENGINE_CONTRACT.md:168). It
  is `Start`'s second branch in SegmentDecode;
* the terminal latch is set before the leak check raises (dj_engine.py:565), and
  the sign-off is then forgotten;
* one THINK that finds no song ends the THINK/DO cycle, and with it the music
  (dj_engine.py:535); "there is ALWAYS content playing or about to play"
  (MASTER_SYSTEM_CONTRACT.md:125);
* a song that is on air at a graceful stop is recorded by neither history: after
  the restart it may be the first one again. rotation.py:374 speaks of state kept
  "to prevent immediate repeats after graceful restart";
* the startup announcement, and the nameless segment that stands for it, are
  recorded as songs by both histories, although "Don't record startup
  announcement as song played" (dj_engine.py:469);
* with a single regular track, and that one on air, the rotation refuses and the
  DJ's fallback may choose a holiday track out of season (dj_engine.py:873,
  rotation.py:288). It is the exception in `NextSongIsFit`;
* while a legal ID is due and there are no legal ID files, the DJ neither talks
  nor gives generic IDs; while talk is due and there are no outros, it gives no
  generic IDs (dj_engine.py:747, 765, 783 and their use in THINK);
* the handler gives a stream listener's socket a timeout of 5 s, and the
  broadcast's send on it waits with every listener's lock held (server.py:302);
  "Non-blocking - never blocks the main loop" (server.py:1155,
  NEW_TOWER_RUNTIME_CONTRACT.md:67);
* a broadcast's restore turns the handler's 1 s into "forever": the handler then
  notices neither stop() nor that its socket was closed, unless the listener
  speaks or hangs up; and stop() itself closes the records of the listeners, not
  their sockets (server.py:1322), against "Closes WS connections cleanly on
  server shutdown" (NEW_TOWER_RUNTIME_CONTRACT.md:539);
* for the same reason an ingest may wait without bound in its send to a listener
  who does not read, if another restored "forever" in between;
* a Close frame is answered and the connection kept; one that follows a partial
  send lands inside the torn frame;
* when the first launch fails, start() returns before `_complete_startup`; every
  failure of the encoders that recovery launches is deferred to a startup that
  never completes, and "Must run FOREVER" ends with the next dead one. `NoDeadEnd`
  fails with the faults `"crash"` and `"firstspawn"` (ffmpeg_supervisor.py:297,
  encoder_manager.py:1607);
* a DO between the two draining flags queues a sign-off the engine does not wait
  for (station.py:462);
* a DO that tested the draining flag may push a break after it is set
  (dj_engine.py:600, 656);
* a sign-off without frames never completes the drain, the bounded wait does
  (playout_engine.py:753);
* a DO can begin after SHUTTING_DOWN is entered (station.py:571);
* a failing THINK leaves the report on the former segment (station.py:304);
* the worker exposes BOOTING before it resets the first-frame flag that masks it
  (ffmpeg_supervisor.py:1912);
* a late frame of the old encoder sets that flag for the new one, which then
  never becomes RUNNING (ffmpeg_supervisor.py:1918);
* a worker in its backoff outlives stop() and launches an encoder
  (ffmpeg_supervisor.py:1942);
* a drain that a hung encoder kept in `read()` may find the shutdown event
  already cleared and read beside the new drain: `OneReader` fails with the fault
  `"hang"` (ffmpeg_supervisor.py:2131);
* the callback tests the grace timer and reads it again; if the pump clears it
  in between, the failure thread dies before it has scheduled the restart
  (encoder_manager.py:1564);
* frames count towards the validity threshold however far apart they come; the
  comment speaks of a "continuous run of N frames" (encoder_manager.py:698, 372);
* a send that times out after a short send leaves half a frame on a connection
  that is kept, and every frame after it is shifted; "MUST NOT transmit partial
  frames to Tower" (tower_pcm_sink.py:217, OUTPUT_SINK_CONTRACT.md:60). Linux
  takes 4096 bytes on a unix socket whole or not at all, so there the sink's loop
  over short sends, and this end of it, are not met with the default buffers;
* the accumulator outlives the connection (pcm_ingestor.py:154): after a Station
  that died in the middle of a frame, Tower stays shifted until it is restarted;
* while the encoder is RUNNING and the grace period lasts, silence is sent under
  the audio state FALLBACK_TONE, which the comment "Never use silence when
  encoder is RUNNING" excludes (encoder_manager.py:1554);
* the limit on listeners is tested in one lock section and used in another, so
  it may be exceeded (server.py:286), and a handler past the test registers its
  listener after stop() has closed the others (server.py:1310);
* while the encoder is FAILED `get_frame()` does not wait and the main loop
  spins, although "Timing drift between PCM cadence and MP3 output MUST be impossible by design": only the
  waiting sends slow it down (encoder_manager.py:1086,
  NEW_TOWER_RUNTIME_CONTRACT.md:93).

## 5. Plan

Done: StationPlayout, FFmpegSupervisor, EncoderAdmission, PcmLink, StreamFanout,
EventFanout, DJMemory and SegmentDecode, each with its proofs. Left, in this
order:

1. FrameRingBuffer, with waiting pops and `push_front_frame`, and first in, first
   out proved for every capacity; it may take the place of the ring in PcmLink.
2. TowerService: the order of start and stop, composing FFmpegSupervisor,
   EncoderAdmission and StreamFanout.
3. Station's events on their way to Tower.

### Not modelled

Signal processing (mixing, gain, tone synthesis, looping a file); the PID
controller and the prefill of the playout engine, which nothing uses while there is an
output pipeline; argument
parsing and entry points; the wording of log lines and of events; sinks, routers,
drain and broadcast threads that nothing in the running system constructs;
Station's read-only HTTP endpoint; developer scripts and examples. The
components of PROJECT.json name each with its reason.
