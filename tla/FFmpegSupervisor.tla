-------------------------- MODULE FFmpegSupervisor --------------------------
(***************************************************************************)
(* Tower's FFmpegSupervisor, with the recovery thread of EncoderManager:   *)
(* one ffmpeg process at a time, watched by a stdout drain thread and a    *)
(* startup monitor; failure threads that count attempts and schedule a     *)
(* restart; restart workers that wait, kill, spawn and re-arm; the main    *)
(* thread in start() and stop(); the audio pump that feeds PCM.            *)
(*                                                                         *)
(* The threads share attributes of the supervisor.  The lock is held for   *)
(* single statements, so an action is the code of one thread between two   *)
(* accesses to an attribute that another thread writes.  State-change      *)
(* callbacks run in the step that changes the state.                       *)
(*                                                                         *)
(* Time: a delay may end at any moment, except that a healthy encoder that *)
(* is being fed answers before the startup timer (unless "slow" is in      *)
(* Faults), and that no timer overtakes a thread with a few statements to  *)
(* run (unless "late" is).  The stderr drain has no effect on control.     *)
(***************************************************************************)
EXTENDS Naturals, FiniteSets

CONSTANTS
    Procs,         (* ffmpeg processes; a dead one nobody refers to is reused *)
    Drains,        (* stdout drain threads, reused once they end              *)
    Workers,       (* restart workers, reused once they end                   *)
    None,          (* the absent process or thread                            *)
    MaxRestarts,   (* _max_restarts                                           *)
    MaxFailures,   (* bound: failure threads alive at once                    *)
    MaxRecoveries, (* bound: that many sleeping recovery threads are told apart *)
    Faults         (* the failures that may happen, a subset of FaultKinds    *)

FaultKinds == {"crash",      (* a running encoder exits                        *)
               "nostart",    (* an encoder exits before its first frame        *)
               "hang",       (* an encoder stays alive and produces nothing    *)
               "slow",       (* a first frame comes after the startup timeout  *)
               "spawn",      (* Popen fails on a restart                       *)
               "firstspawn", (* Popen fails in start()                         *)
               "late",       (* a thread is held up past a timer or a join     *)
               "race"}       (* a thread is between the test and the start of  *)
                             (* _schedule_restart as another one comes to it   *)

ASSUME SupervisorAssumption ==
    /\ None \notin Procs /\ None \notin Drains /\ None \notin Workers
    /\ MaxRestarts \in Nat /\ MaxFailures \in Nat /\ MaxRecoveries \in Nat
    /\ Faults \subseteq FaultKinds

VARIABLES
    state,            (* _state                                               *)
    attempts,         (* _restart_attempts                                    *)
    first,            (* _first_frame_received                                *)
    startupComplete,  (* _startup_complete                                    *)
    pending,          (* whether a failure was deferred (_pending_failures)   *)
    restartDisabled,  (* _restart_disabled                                    *)
    shutdown,         (* _shutdown_event                                      *)
    process,          (* _process                                             *)
    pipes,            (* whose _stdin and _stdout the supervisor holds        *)
    stdoutThread,     (* _stdout_thread                                       *)
    proc,             (* of each process: its condition                       *)
    dpc,              (* of each drain thread: where it is                    *)
    seen,             (* its local current_state                              *)
    reading,          (* the process whose stdout it reads                    *)
    monitor,          (* the startup monitor                                  *)
    fail,             (* failure threads at each place                        *)
    wpc,              (* of each restart worker: where it is                  *)
    restart,          (* _restart_thread                                      *)
    overlapped,       (* history: two workers have been alive at once         *)
    recovering,       (* EncoderManager._recovery_running                     *)
    recovery,         (* recovery threads at each place                       *)
    mainPc            (* the main thread                                      *)

procVars  == <<process, pipes, proc>>
drainVars == <<dpc, seen, reading, stdoutThread>>
flagVars  == <<startupComplete, pending, restartDisabled>>
recVars   == <<recovering, recovery>>
workerVars == <<wpc, restart, overlapped>>
vars == <<state, attempts, first, flagVars, shutdown, procVars, drainVars, monitor,
          fail, workerVars, recVars, mainPc>>

States == {"STOPPED", "STARTING", "BOOTING", "RUNNING", "RESTARTING", "FAILED"}

Alive(p) == proc[p] \in {"cold", "fed", "hung"}
(* Nothing more will come from the pipe of p. *)
Ended(p) == ~(p # None /\ Alive(p))
Gone     == Ended(process)

(* A process may be spawned in the place of one that is dead and forgotten. *)
Unused == {p \in Procs : /\ ~Alive(p) /\ p \notin {process, pipes}
                         /\ \A d \in Drains : dpc[d] = "read" => reading[d] # p}

(* get_state: a restart shows as RESTARTING until its first frame. *)
View ==
    IF attempts > 0 /\ ~first /\ state \in {"BOOTING", "RESTARTING"}
    THEN "RESTARTING" ELSE state

Init ==
    /\ state = "STOPPED" /\ attempts = 0 /\ first = FALSE
    /\ startupComplete = FALSE /\ pending = FALSE /\ restartDisabled = FALSE
    /\ shutdown = FALSE
    /\ process = None /\ pipes = None /\ stdoutThread = None
    /\ proc = [p \in Procs |-> "dead"]
    /\ dpc = [d \in Drains |-> "off"]
    /\ seen = [d \in Drains |-> "STOPPED"]
    /\ reading = [d \in Drains |-> None]
    /\ monitor = "off"
    /\ fail = [deferred |-> 0, check |-> 0, enter |-> 0, failed |-> 0, schedule |-> 0,
               start |-> 0]
    /\ wpc = [w \in Workers |-> "off"] /\ restart = None /\ overlapped = FALSE
    /\ recovering = FALSE
    /\ recovery = [sleep |-> 0, schedule |-> 0, start |-> 0]
    /\ mainPc = "idle"

-----------------------------------------------------------------------------
(* Failures *)

InFlight ==
    fail.deferred + fail.check + fail.enter + fail.failed + fail.schedule + fail.start

(* _on_process_failure: deferred during startup, else a thread handles it. *)
Report ==
    /\ InFlight < MaxFailures
    /\ IF state = "STARTING" \/ ~startupComplete
       THEN pending' = TRUE /\ UNCHANGED fail
       ELSE fail' = [fail EXCEPT !.check = @ + 1] /\ UNCHANGED pending

(* The failure deferred by start(), 50 ms later. *)
HandleDeferred ==
    /\ fail.deferred > 0
    /\ fail' = IF state = "BOOTING"
               THEN [fail EXCEPT !.deferred = @ - 1, !.check = @ + 1]
               ELSE [fail EXCEPT !.deferred = @ - 1]
    /\ UNCHANGED <<state, attempts, first, flagVars, shutdown, procVars, drainVars, monitor,
                   workerVars, recVars, mainPc>>

(* _handle_failure, the checks under the lock. *)
HandleFailure ==
    /\ fail.check > 0
    /\ LET ignored == ~startupComplete \/ state \in {"STARTING", "STOPPED", "FAILED"}
       IN  fail' = IF ignored THEN [fail EXCEPT !.check = @ - 1]
                   ELSE [fail EXCEPT !.check = @ - 1, !.enter = @ + 1]
    /\ pending' = (pending \/ state = "STARTING")
    /\ UNCHANGED <<state, attempts, first, startupComplete, restartDisabled, shutdown,
                   procVars, drainVars, monitor, workerVars, recVars, mainPc>>

(* _enter_restarting_or_failed: the lock is taken again, nothing rechecked. *)
EnterRestarting ==
    /\ fail.enter > 0
    /\ attempts' = attempts + 1
    /\ \/ /\ attempts' > MaxRestarts
          /\ state' = "FAILED"
          /\ fail' = [fail EXCEPT !.enter = @ - 1, !.failed = @ + 1]
          /\ UNCHANGED recovering
       \/ /\ attempts' <= MaxRestarts
          /\ state' = "RESTARTING"
          /\ fail' = [fail EXCEPT !.enter = @ - 1, !.schedule = @ + 1]
          /\ recovering' = (recovering /\ state = "RESTARTING")
    /\ UNCHANGED <<first, flagVars, shutdown, procVars, drainVars, monitor, workerVars, recovery,
                   mainPc>>

(* MaxRecoveries and more sleeping threads count as MaxRecoveries. *)
Min2(m, n) == IF m <= n THEN m ELSE n

(* The callback for FAILED: EncoderManager._start_recovery_thread. *)
StartRecovery ==
    /\ recovering' = TRUE
    /\ IF recovering
       THEN UNCHANGED recovery
       ELSE recovery' = [recovery EXCEPT !.sleep = Min2(@ + 1, MaxRecoveries)]

NotifyFailed ==
    /\ fail.failed > 0
    /\ fail' = [fail EXCEPT !.failed = @ - 1]
    /\ StartRecovery
    /\ UNCHANGED <<state, attempts, first, flagVars, shutdown, procVars, drainVars, monitor,
                   workerVars, mainPc>>

(* _schedule_restart.  No lock is held from its tests to the start of the   *)
(* worker, so two threads may pass the tests and start one each.  Between   *)
(* the assignment and the start nothing more can happen: of two threads     *)
(* that start the same object the second fails, as if it had been refused.  *)
Refused == restartDisabled \/ (restart # None /\ wpc[restart] # "off")

(* Without "race" the tests and the start come in one piece. *)
Undisturbed == "race" \in Faults \/ fail.start + recovery.start = 0

StartWorker ==
    \E w \in Workers :
        /\ wpc[w] = "off"
        /\ wpc' = [wpc EXCEPT ![w] = "promote"]
        /\ restart' = w
        /\ overlapped' = (overlapped \/ \E v \in Workers : wpc[v] # "off")

Schedule ==
    /\ fail.schedule > 0 /\ Undisturbed
    /\ fail' = IF Refused THEN [fail EXCEPT !.schedule = @ - 1]
               ELSE [fail EXCEPT !.schedule = @ - 1, !.start = @ + 1]
    /\ UNCHANGED <<state, attempts, first, flagVars, shutdown, procVars, drainVars, monitor,
                   workerVars, recVars, mainPc>>

StartRestart ==
    /\ fail.start > 0
    /\ fail' = [fail EXCEPT !.start = @ - 1]
    /\ StartWorker
    /\ UNCHANGED <<state, attempts, first, flagVars, shutdown, procVars, drainVars, monitor,
                   recVars, mainPc>>

FailureStep ==
    HandleDeferred \/ HandleFailure \/ EnterRestarting \/ NotifyFailed \/ Schedule
    \/ StartRestart

-----------------------------------------------------------------------------
(* The stdout drain: _stdout_drain *)

Goto(d, l) == dpc' = [dpc EXCEPT ![d] = l]

(* A plausible slip: no death is reported while BOOTING. *)
AwaitsFirstFrame_Booting(s) == s = "BOOTING"

(* A dead process is not reported while its first frame is awaited. *)
AwaitsFirstFrame(s) == s = "BOOTING" /\ ~first

(* A thread ends after a report, except during start(). *)
Done == IF View = "STARTING" THEN "open" ELSE "off"

(* Top of the loop: the shutdown event, then the process, then the state.   *)
DrainTop(d) ==
    /\ dpc[d] = "top"
    /\ \/ /\ shutdown
          /\ Goto(d, "off")
          /\ UNCHANGED <<seen, pending, fail>>
       \/ /\ ~shutdown /\ process # None /\ proc[process] = "dead"
          /\ ~AwaitsFirstFrame(View)
          /\ Report
          /\ Goto(d, Done)
          /\ seen' = [seen EXCEPT ![d] = IF Done = "off" THEN "STOPPED" ELSE View]
       \/ /\ ~shutdown /\ ~(process # None /\ proc[process] = "dead")
          /\ Goto(d, "open")
          /\ seen' = [seen EXCEPT ![d] = View]
          /\ UNCHANGED <<pending, fail>>
    /\ UNCHANGED <<state, attempts, first, startupComplete, restartDisabled, shutdown,
                   procVars, reading, stdoutThread, monitor, workerVars, recVars, mainPc>>

(* self._stdout.read(4096): whichever pipe the supervisor holds by now. *)
DrainOpen(d) ==
    /\ dpc[d] = "open"
    /\ reading' = [reading EXCEPT ![d] = pipes]
    /\ Goto(d, "read")
    /\ UNCHANGED <<state, attempts, first, flagVars, shutdown, procVars, seen, stdoutThread,
                   monitor, fail, workerVars, recVars, mainPc>>

(* What a read was for, and what it was judged by, is forgotten after it. *)
Returns(d) ==
    /\ reading' = [reading EXCEPT ![d] = None]
    /\ seen' = [seen EXCEPT ![d] = "STOPPED"]

(* A frame is pushed; the first one since the flag was reset is announced.  *)
(* The stall check that follows compares the clock with _last_frame_time,   *)
(* assigned a few lines above, and never fires.                             *)
DrainFrame(d) ==
    /\ dpc[d] = "read" /\ reading[d] # None /\ proc[reading[d]] = "fed"
    /\ first' = TRUE
    /\ Goto(d, IF first THEN "top" ELSE "announce")
    /\ Returns(d)
    /\ UNCHANGED <<state, attempts, flagVars, shutdown, procVars, stdoutThread, monitor, fail,
                   workerVars, recVars, mainPc>>

(* End of file, a closed pipe or none: judged by the state read before. *)
DrainEnd(d) ==
    /\ dpc[d] = "read" /\ Ended(reading[d])
    /\ \/ /\ AwaitsFirstFrame(seen[d])
          /\ Goto(d, "top")
          /\ UNCHANGED <<pending, fail>>
       \/ /\ ~AwaitsFirstFrame(seen[d])
          /\ Report
          /\ Goto(d, IF View = "STARTING" THEN "top" ELSE "off")
    /\ Returns(d)
    /\ UNCHANGED <<state, attempts, first, startupComplete, restartDisabled, shutdown,
                   procVars, stdoutThread, monitor, workerVars, recVars, mainPc>>

Cancelled == IF monitor = "armed" THEN "off" ELSE monitor

(* _on_first_mp3_frame: only BOOTING becomes RUNNING. *)
Announce(d) ==
    /\ dpc[d] = "announce"
    /\ Goto(d, "top")
    /\ IF state = "BOOTING"
       THEN state' = "RUNNING" /\ monitor' = Cancelled /\ recovering' = FALSE
       ELSE UNCHANGED <<state, monitor, recovering>>
    /\ UNCHANGED <<attempts, first, flagVars, shutdown, procVars, seen, reading,
                   stdoutThread, fail, workerVars, recovery, mainPc>>

Drain(d) == DrainTop(d) \/ DrainOpen(d) \/ DrainFrame(d) \/ DrainEnd(d) \/ Announce(d)

(* _monitor_startup_timeout.  A healthy encoder that is fed is in time. *)
PcmAccepted == View \in {"BOOTING", "RUNNING"}

(* Without "late", no delay (a timer, the backoff, a fork) is shorter than   *)
(* the few statements that a thread under way has left.                      *)
Settled ==
    \/ "late" \in Faults
    \/ /\ InFlight = 0 /\ recovery.schedule + recovery.start = 0 /\ monitor # "report"
       /\ mainPc \notin {"spawn", "drain", "boot", "complete"}
       /\ \A d \in Drains : dpc[d] # "announce"

WorkerPrompt == "late" \in Faults \/ \A w \in Workers : wpc[w] \in {"off", "sleep"}

Healthy == process # None /\ proc[process] \in {"cold", "fed"}

Overdue ==
    /\ "slow" \in Faults \/ ~(Healthy /\ PcmAccepted)
    /\ WorkerPrompt /\ Settled

StartupTimeout ==
    /\ monitor = "armed" /\ Overdue
    /\ monitor' = IF first THEN "off" ELSE "report"
    /\ UNCHANGED <<state, attempts, first, flagVars, shutdown, procVars, drainVars, fail,
                   workerVars, recVars, mainPc>>

ReportTimeout ==
    /\ monitor = "report"
    /\ Report
    /\ monitor' = "off"
    /\ UNCHANGED <<state, attempts, first, startupComplete, restartDisabled, shutdown,
                   procVars, drainVars, workerVars, recVars, mainPc>>

MonitorStep == StartupTimeout \/ ReportTimeout

-----------------------------------------------------------------------------
(* The restart worker: _restart_worker and _stop_encoder_process *)

Step(w, l) == wpc' = [wpc EXCEPT ![w] = l] /\ UNCHANGED <<restart, overlapped>>

Promote(w) ==
    /\ wpc[w] = "promote"
    /\ state' = "RESTARTING"
    /\ recovering' = (recovering /\ state = "RESTARTING")
    /\ Step(w, "boot")
    /\ UNCHANGED <<attempts, first, flagVars, shutdown, procVars, drainVars, monitor, fail,
                   recovery, mainPc>>

Boot(w) ==
    /\ wpc[w] = "boot"
    /\ state' = "BOOTING"
    /\ Step(w, "reset")
    /\ UNCHANGED <<attempts, first, flagVars, shutdown, procVars, drainVars, monitor, fail,
                   recVars, mainPc>>

(* The liveness flags are reset before the backoff, not after the kill. *)
Reset(w) ==
    /\ wpc[w] = "reset"
    /\ first' = FALSE
    /\ recovering' = FALSE
    /\ Step(w, "sleep")
    /\ UNCHANGED <<state, attempts, flagVars, shutdown, procVars, drainVars, monitor, fail,
                   recovery, mainPc>>

(* After the backoff: signal the threads, cancel the timer, close the pipes. *)
ClosePipes(w) ==
    /\ wpc[w] = "sleep" /\ Settled
    /\ shutdown' = TRUE
    /\ monitor' = Cancelled
    /\ pipes' = None
    /\ Step(w, "join")
    /\ UNCHANGED <<state, attempts, first, flagVars, process, proc, drainVars, fail,
                   recVars, mainPc>>

(* A silent encoder: it hangs, or its stdin is open and nothing was written. *)
Silent(p) == p # None /\ (proc[p] = "hung" \/ (proc[p] = "cold" /\ pipes = p))

(* A drain that a silent encoder keeps in read() outlives its join. *)
Joinable(d) ==
    \/ dpc[d] = "off" \/ "late" \in Faults
    \/ dpc[d] = "read" /\ Silent(reading[d])

(* A plausible slip: the threads are not joined. *)
ThreadsJoined_Never == TRUE

(* A plausible slip: the joins have no timeout. *)
ThreadsJoined_Unbounded == \A d \in Drains : dpc[d] = "off"

ThreadsJoined ==
    /\ \A d \in {stdoutThread} \ {None} : Joinable(d)
    /\ monitor # "report" \/ "late" \in Faults

JoinThreads(w) ==
    /\ wpc[w] = "join" /\ ThreadsJoined
    /\ Step(w, "kill")
    /\ UNCHANGED <<state, attempts, first, flagVars, shutdown, procVars, drainVars, monitor,
                   fail, recVars, mainPc>>

(* A plausible slip: the reference is dropped and the process lives on. *)
Killed_Not == proc

Killed == IF process = None THEN proc ELSE [proc EXCEPT ![process] = "dead"]

Kill(w) ==
    /\ wpc[w] = "kill"
    /\ proc' = Killed
    /\ process' = None
    /\ Step(w, "clear")
    /\ UNCHANGED <<state, attempts, first, flagVars, shutdown, pipes, drainVars, monitor,
                   fail, recVars, mainPc>>

ClearEvent(w) ==
    /\ wpc[w] = "clear"
    /\ shutdown' = FALSE
    /\ stdoutThread' = None
    /\ Step(w, "spawn")
    /\ UNCHANGED <<state, attempts, first, flagVars, procVars, dpc, seen, reading, monitor,
                   fail, recVars, mainPc>>

(* A read that ended with the old process has returned by then. *)
ReadersPrompt ==
    "late" \in Faults \/ \A d \in Drains : dpc[d] = "read" => reading[d] = None

(* _start_encoder_process: Popen, or no process at all. *)
Popen ==
    \E p \in Unused : proc' = [proc EXCEPT ![p] = "cold"] /\ process' = p /\ pipes' = p

NoPopen == process' = None /\ pipes' = None /\ UNCHANGED proc

Spawn(w) ==
    /\ wpc[w] = "spawn" /\ Settled /\ ReadersPrompt
    /\ Popen \/ ("spawn" \in Faults /\ NoPopen)
    /\ Step(w, "started")
    /\ UNCHANGED <<state, attempts, first, flagVars, shutdown, drainVars, monitor, fail,
                   recVars, mainPc>>

StartDrain ==
    \E d \in Drains :
        /\ dpc[d] = "off"
        /\ Goto(d, "top")
        /\ stdoutThread' = d
        /\ UNCHANGED <<seen, reading>>

Started(w) ==
    /\ wpc[w] = "started"
    /\ process # None /\ pipes # None
    /\ StartDrain
    /\ Step(w, "booting")
    /\ UNCHANGED <<state, attempts, first, flagVars, shutdown, procVars, monitor, fail,
                   recVars, mainPc>>

(* No process: BOOTING all the same, and a failure once the worker is gone. *)
NotStarted(w) ==
    /\ wpc[w] = "started"
    /\ process = None \/ pipes = None
    /\ InFlight < MaxFailures
    /\ state' = "BOOTING" /\ recovering' = FALSE
    /\ fail' = [fail EXCEPT !.check = @ + 1]
    /\ Step(w, "off")
    /\ UNCHANGED <<attempts, first, flagVars, shutdown, procVars, drainVars, monitor,
                   recovery, mainPc>>

Booting(w) ==
    /\ wpc[w] = "booting"
    /\ state' = "BOOTING" /\ recovering' = FALSE
    /\ Step(w, "arm")
    /\ UNCHANGED <<attempts, first, flagVars, shutdown, procVars, drainVars, monitor, fail,
                   recovery, mainPc>>

(* A plausible slip: only start() starts the monitor. *)
Armed_Once == monitor

Armed == "armed"

Arm(w) ==
    /\ wpc[w] = "arm"
    /\ monitor' = Armed
    /\ Step(w, "forgive")
    /\ UNCHANGED <<state, attempts, first, flagVars, shutdown, procVars, drainVars, fail,
                   recVars, mainPc>>

(* The attempts are reset as soon as the process is spawned. *)
Forgiven == 0

Forgive(w) ==
    /\ wpc[w] = "forgive"
    /\ attempts' = Forgiven
    /\ Step(w, "force")
    /\ UNCHANGED <<state, first, flagVars, shutdown, procVars, drainVars, monitor, fail,
                   recVars, mainPc>>

(* _force_booting *)
ForceBooting(w) ==
    /\ wpc[w] = "force"
    /\ IF state = "STOPPED" THEN UNCHANGED <<state, recovering>>
       ELSE state' = "BOOTING" /\ recovering' = FALSE
    /\ Step(w, "off")
    /\ UNCHANGED <<attempts, first, flagVars, shutdown, procVars, drainVars, monitor, fail,
                   recovery, mainPc>>

WorkerStep(w) ==
    \/ Promote(w) \/ Boot(w) \/ Reset(w) \/ ClosePipes(w) \/ JoinThreads(w) \/ Kill(w)
    \/ ClearEvent(w) \/ Spawn(w) \/ Started(w) \/ NotStarted(w) \/ Booting(w) \/ Arm(w)
    \/ Forgive(w) \/ ForceBooting(w)

-----------------------------------------------------------------------------
(* EncoderManager._recovery_loop: wakes after minutes, any number of times. *)

RecoveryWakes ==
    /\ recovery.sleep > 0 /\ Settled
    /\ "late" \in Faults \/ \A w \in Workers : wpc[w] = "off"
    /\ \/ /\ ~recovering \/ (state # "FAILED" /\ mainPc # "done")
          /\ recovery' = [recovery EXCEPT !.sleep = @ - 1]
          /\ recovering' = FALSE
          /\ UNCHANGED attempts
       \/ /\ recovering /\ state = "FAILED" /\ mainPc # "done"
          /\ recovery' = [recovery EXCEPT !.sleep = @ - 1, !.schedule = @ + 1]
          /\ attempts' = 0
          /\ UNCHANGED recovering
    /\ UNCHANGED <<state, first, flagVars, shutdown, procVars, drainVars, monitor, fail, workerVars,
                   mainPc>>

(* Then it schedules a restart, and sleeps again unless told to end. *)
Sleeps(r) == [r EXCEPT !.sleep = Min2(@ + 1, MaxRecoveries)]

RecoverySchedules ==
    /\ recovery.schedule > 0 /\ Undisturbed
    /\ recovery' = IF Refused THEN Sleeps([recovery EXCEPT !.schedule = @ - 1])
                   ELSE [recovery EXCEPT !.schedule = @ - 1, !.start = @ + 1]
    /\ UNCHANGED <<state, attempts, first, flagVars, shutdown, procVars, drainVars, monitor,
                   fail, workerVars, recovering, mainPc>>

RecoveryStarts ==
    /\ recovery.start > 0
    /\ StartWorker
    /\ recovery' = Sleeps([recovery EXCEPT !.start = @ - 1])
    /\ UNCHANGED <<state, attempts, first, flagVars, shutdown, procVars, drainVars, monitor,
                   fail, recovering, mainPc>>

RecoveryStep == RecoveryWakes \/ RecoverySchedules \/ RecoveryStarts

-----------------------------------------------------------------------------
(* The main thread: start(), and stop() once it has returned.  The pump is  *)
(* started after start() returns, so no PCM is written during it.           *)

MainGoto(l) == mainPc' = l

Start ==
    /\ mainPc = "idle"
    /\ state' = "STARTING"
    /\ MainGoto("spawn")
    /\ UNCHANGED <<attempts, first, flagVars, shutdown, procVars, drainVars, monitor, fail,
                   workerVars, recVars>>

FirstSpawn ==
    /\ mainPc = "spawn"
    /\ Popen
    /\ MainGoto("drain")
    /\ UNCHANGED <<state, attempts, first, flagVars, shutdown, drainVars, monitor, fail, workerVars,
                   recVars>>

FirstSpawnFails ==
    /\ mainPc = "spawn"
    /\ "firstspawn" \in Faults
    /\ state' = "FAILED"
    /\ StartRecovery
    /\ MainGoto("running")
    /\ UNCHANGED <<attempts, first, flagVars, shutdown, procVars, drainVars, monitor, fail,
                   workerVars>>

FirstDrain ==
    /\ mainPc = "drain"
    /\ StartDrain
    /\ MainGoto("boot")
    /\ UNCHANGED <<state, attempts, first, flagVars, shutdown, procVars, monitor, fail, workerVars,
                   recVars>>

FirstBoot ==
    /\ mainPc = "boot"
    /\ state' = "BOOTING"
    /\ monitor' = "armed"
    /\ MainGoto("complete")
    /\ UNCHANGED <<attempts, first, flagVars, shutdown, procVars, drainVars, fail, workerVars,
                   recVars>>

(* _complete_startup: a deferred failure is handled 50 ms later. *)
CompleteStartup ==
    /\ mainPc = "complete"
    /\ state' = "BOOTING"
    /\ startupComplete' = TRUE
    /\ pending' = FALSE
    /\ fail' = IF pending THEN [fail EXCEPT !.deferred = @ + 1] ELSE fail
    /\ MainGoto("running")
    /\ UNCHANGED <<attempts, first, restartDisabled, shutdown, procVars, drainVars, monitor,
                   workerVars, recVars>>

Stop ==
    /\ mainPc = "running"
    /\ shutdown' = TRUE
    /\ monitor' = Cancelled
    /\ MainGoto("stopped")
    /\ UNCHANGED <<state, attempts, first, flagVars, procVars, drainVars, fail, workerVars, recVars>>

SetStopped ==
    /\ mainPc = "stopped"
    /\ state' = "STOPPED"
    /\ restartDisabled' = TRUE
    /\ recovering' = FALSE
    /\ MainGoto("close")
    /\ UNCHANGED <<attempts, first, startupComplete, pending, shutdown, procVars, drainVars,
                   monitor, fail, workerVars, recovery>>

StopPipes ==
    /\ mainPc = "close"
    /\ pipes' = None
    /\ MainGoto("terminate")
    /\ UNCHANGED <<state, attempts, first, flagVars, shutdown, process, proc, drainVars,
                   monitor, fail, workerVars, recVars>>

Terminate ==
    /\ mainPc = "terminate"
    /\ proc' = Killed
    /\ MainGoto(IF process = None THEN "join" ELSE "forget")
    /\ UNCHANGED <<state, attempts, first, flagVars, shutdown, process, pipes, drainVars,
                   monitor, fail, workerVars, recVars>>

Forget ==
    /\ mainPc = "forget"
    /\ process' = None
    /\ MainGoto("join")
    /\ UNCHANGED <<state, attempts, first, flagVars, shutdown, pipes, proc, drainVars,
                   monitor, fail, workerVars, recVars>>

(* Each join is bounded, the worker's by 2 s: it outlives a longer backoff. *)
Finish ==
    /\ mainPc = "join"
    /\ ThreadsJoined
    /\ \/ restart = None \/ "late" \in Faults
       \/ restart # None /\ wpc[restart] \in {"off", "sleep"}
    /\ stdoutThread' = None
    /\ startupComplete' = FALSE
    /\ recovering' = FALSE
    /\ MainGoto("done")
    /\ UNCHANGED <<state, attempts, first, pending, restartDisabled, shutdown, procVars, dpc,
                   seen, reading, monitor, fail, workerVars, recovery>>

StartStep ==
    Start \/ FirstSpawn \/ FirstSpawnFails \/ FirstDrain \/ FirstBoot \/ CompleteStartup
StopStep == SetStopped \/ StopPipes \/ Terminate \/ Forget \/ Finish

-----------------------------------------------------------------------------
(* The pump's write_pcm, also while the worker waits 0.2 s after Popen, and *)
(* what an ffmpeg process does on its own.                                  *)

WritePcm ==
    /\ mainPc = "running"
    /\ PcmAccepted
    /\ "late" \in Faults \/ \A w \in Workers : wpc[w] \in {"off", "sleep", "started"}
    /\ pipes # None /\ proc[pipes] = "cold"
    /\ proc' = [proc EXCEPT ![pipes] = "fed"]
    /\ UNCHANGED <<state, attempts, first, flagVars, shutdown, process, pipes, drainVars,
                   monitor, fail, workerVars, recVars, mainPc>>

Becomes(p, c) ==
    /\ proc' = [proc EXCEPT ![p] = c]
    /\ UNCHANGED <<state, attempts, first, flagVars, shutdown, process, pipes, drainVars,
                   monitor, fail, workerVars, recVars, mainPc>>

(* An encoder whose stdin is closed ends by itself, unless it hangs.  One    *)
(* that produces frames does not crash within a few statements ("late").    *)
ProcessExits(p) ==
    /\ \/ proc[p] = "fed" /\ "crash" \in Faults /\ (first => WorkerPrompt)
       \/ proc[p] = "cold" /\ "nostart" \in Faults
       \/ proc[p] \in {"cold", "fed"} /\ pipes # p
    /\ Becomes(p, "dead")

ProcessHangs(p) ==
    /\ "hang" \in Faults
    /\ proc[p] \in {"cold", "fed"}
    /\ Becomes(p, "hung")

Next ==
    \/ FailureStep \/ MonitorStep \/ RecoveryStep
    \/ \E w \in Workers : WorkerStep(w)
    \/ StartStep \/ Stop \/ StopStep
    \/ \E d \in Drains : Drain(d)
    \/ WritePcm
    \/ \E p \in Procs : ProcessExits(p) \/ ProcessHangs(p)

Spec == Init /\ [][Next]_vars

(* Every thread keeps running and every delay ends; no process is obliged   *)
(* to fail, and nobody is obliged to stop the Tower.                        *)
Fairness ==
    /\ WF_vars(FailureStep) /\ WF_vars(MonitorStep)
    /\ \A w \in Workers : WF_vars(WorkerStep(w))
    /\ WF_vars(RecoveryStep) /\ WF_vars(StartStep) /\ WF_vars(StopStep)
    /\ WF_vars(WritePcm)
    /\ \A d \in Drains : WF_vars(Drain(d))

FairSpec == Spec /\ Fairness
-----------------------------------------------------------------------------
(* Properties *)

DrainPcs == {"off", "top", "open", "read", "announce"}
WorkerPcs == {"off", "promote", "boot", "reset", "sleep", "join", "kill", "clear", "spawn",
              "started", "booting", "arm", "forgive", "force"}
MainPcs == {"idle", "spawn", "drain", "boot", "complete", "running", "stopped", "close",
            "terminate", "forget", "join", "done"}

Failures ==
    [deferred : Nat, check : Nat, enter : Nat, failed : Nat, schedule : Nat, start : Nat]
Recoveries == [sleep : Nat, schedule : Nat, start : Nat]

(* Every attribute of the supervisor keeps its type. *)
TypeOK ==
    /\ state \in States /\ attempts \in Nat
    /\ first \in BOOLEAN /\ startupComplete \in BOOLEAN /\ pending \in BOOLEAN
    /\ restartDisabled \in BOOLEAN /\ shutdown \in BOOLEAN /\ recovering \in BOOLEAN
    /\ process \in Procs \cup {None} /\ pipes \in Procs \cup {None}
    /\ stdoutThread \in Drains \cup {None}
    /\ proc \in [Procs -> {"cold", "fed", "hung", "dead"}]
    /\ dpc \in [Drains -> DrainPcs] /\ seen \in [Drains -> States]
    /\ reading \in [Drains -> Procs \cup {None}]
    /\ monitor \in {"off", "armed", "report"}
    /\ fail \in Failures
    /\ wpc \in [Workers -> WorkerPcs] /\ restart \in Workers \cup {None}
    /\ overlapped \in BOOLEAN
    /\ recovery \in Recoveries
    /\ mainPc \in MainPcs

Serving == mainPc = "running"

(* While the Tower serves, the only live encoder is the one the supervisor  *)
(* holds, whatever the threads do to each other, unless two workers have    *)
(* been alive at once: a worker kills what is held before it spawns, and    *)
(* nothing else spawns or drops a process.                                  *)
OneEncoder == Serving /\ ~overlapped => \A p \in Procs : Alive(p) => p = process

(* "One encoder process (FFmpeg) per Tower": also when several threads ask  *)
(* for a restart, which _schedule_restart is to refuse while one is under   *)
(* way.                                                                     *)
OneEncoderPerTower == Serving => \A p \in Procs : Alive(p) => p = process

(* Two drains never take frames from the encoder at once: as long as no     *)
(* encoder hangs, a worker starts one only when the last has ended.         *)
OneReader == Cardinality({d \in Drains : dpc[d] # "off"}) <= 1

(* Somebody will still act on a dead encoder: a failure in flight, a worker *)
(* that is going to spawn, an armed monitor, a drain that will report, or   *)
(* the recovery thread.                                                     *)
Tended ==
    \/ InFlight > 0 \/ monitor # "off" \/ \E w \in Workers : wpc[w] # "off"
    \/ \E d \in Drains : dpc[d] # "off" /\ ~AwaitsFirstFrame(View)
    \/ recovering /\ recovery.sleep + recovery.schedule + recovery.start > 0

(* There is never a dead encoder, or none, that nobody will replace. *)
NoDeadEnd == Serving /\ Gone => Tended

(* A dead encoder is replaced, or the supervisor gives up, or is stopped.   *)
DeadIsReplaced == Serving /\ Gone ~> ~Gone \/ state = "FAILED" \/ ~Serving

(* FAILED is left again without an operator: the recovery thread restarts   *)
(* the encoder for as long as it takes.                                     *)
FailedIsLeft == Serving /\ state = "FAILED" ~> state # "FAILED" \/ ~Serving

(* Both: there is an encoder again, by a restart or by recovery.            *)
EncoderReturns == DeadIsReplaced /\ FailedIsLeft

(* stop() ends, whatever the worker and the drains are doing.               *)
StopEnds == mainPc = "stopped" ~> mainPc = "done"

(* An encoder that is alive and produces nothing. *)
Stuck(p) == process = p /\ proc[p] = "hung"

(* A RUNNING encoder that stops producing frames is not kept.               *)
StallIsReplaced ==
    \A p \in Procs :
        Serving /\ state = "RUNNING" /\ Stuck(p) ~> ~Stuck(p) \/ ~Serving
=============================================================================
