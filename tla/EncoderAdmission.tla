-------------------------- MODULE EncoderAdmission --------------------------
(***************************************************************************)
(* Which sound Tower gives its encoder: EncoderManager.next_frame(), run   *)
(* once per tick by the AudioPump thread, against the supervisor's state   *)
(* callback, run by whichever supervisor thread changed the state.  The    *)
(* two share the frame count, two timestamps and the audio state; the lock *)
(* around the audio state is the only one.  An action is the code of one   *)
(* thread between two accesses to an attribute that the other one writes.  *)
(*                                                                         *)
(* The clock is counted in ticks of the pump (21.3 ms).  A timestamp is    *)
(* kept as its age and stops ageing once no comparison can tell.  The      *)
(* supervisor is FFmpegSupervisor reduced to the states it announces.  Its *)
(* delays (backoff, recovery) outlast a tick; its callbacks end within one *)
(* unless Late.                                                            *)
(***************************************************************************)
EXTENDS Integers

CONSTANTS
    Threshold,  (* _pcm_validity_threshold_frames                            *)
    LossTicks,  (* _pcm_loss_window_ms                                       *)
    GraceTicks, (* _grace_period_ms                                          *)
    Late        (* whether a callback may be held up past the end of a tick  *)

ASSUME AdmissionAssumption ==
    /\ Threshold \in Nat \ {0} /\ LossTicks \in Nat \ {0} /\ GraceTicks \in Nat \ {0}
    /\ Late \in BOOLEAN

VARIABLES
    sup,    (* the supervisor's _state                                       *)
    retried,(* get_state: a restart after a failure shows as RESTARTING      *)
    worker, (* what start() or the restart worker does after its callback    *)
    at,     (* of each supervisor thread: where it is in the callback        *)
    told,   (* new_state, the callback's argument                            *)
    want,   (* the audio state the callback has decided to set               *)
    mgr,    (* EncoderManager._state                                         *)
    audio,  (* _audio_state                                                  *)
    count,  (* _pcm_consecutive_frames, up to Threshold                      *)
    last,   (* the age of _pcm_last_frame_time                               *)
    timer,  (* the age of _fallback_grace_timer_start                        *)
    generator, (* whether _fallback_generator exists                         *)
    pc,     (* where the pump is in its tick                                 *)
    loaded, (* the count it has read in order to increment it                *)
    back,   (* where it continues after _check_pcm_loss                      *)
    frame,  (* the frame selected for the tick                               *)
    sent,   (* the frame the encoder got in this tick                        *)
    onAir,  (* "yes" if the encoder takes frames since the tick began,       *)
            (* "lost" if it met the handling of a failure, else "no"         *)
    got,    (* whether the last look into the PCM buffer found a frame       *)
    earned, (* frames found since RUNNING or since a loss, up to Threshold   *)
    quiet,  (* ticks since a frame was found, up to LossTicks + 2            *)
    hush    (* ticks since start() or a program frame was sent, up to        *)
            (* GraceTicks                                                    *)

supVars  == <<sup, retried, worker>>
cbVars   == <<at, told, want>>
pcmVars  == <<count, last, timer, generator>>
tickVars == <<pc, loaded, back, frame>>
logVars  == <<sent, onAir, got, earned, quiet, hush>>
vars == <<supVars, cbVars, mgr, audio, pcmVars, tickVars, logVars>>

Threads == {"main",    (* start(), later the restart worker *)
            "drain",   (* the stdout drain                  *)
            "failure"} (* a failure thread                  *)
Never   == -1          (* a timestamp that is None          *)
Min2(m, n) == IF m <= n THEN m ELSE n

(* FFmpegSupervisor.get_state *)
View == IF sup = "BOOTING" /\ retried THEN "RESTARTING" ELSE sup
Accepting == View \in {"BOOTING", "RUNNING"}
Quiescent == \A t \in Threads : at[t] = "off"

Init ==
    /\ sup = "STARTING" /\ retried = FALSE /\ worker = "start"
    /\ at = [t \in Threads |-> "off"]
    /\ told = [t \in Threads |-> "STARTING"]
    /\ want = [t \in Threads |-> "SILENCE_GRACE"]
    /\ mgr = "RUNNING" /\ audio = "SILENCE_GRACE"
    /\ count = 0 /\ last = Never /\ timer = Never /\ generator = FALSE
    /\ pc = "idle" /\ loaded = 0 /\ back = "grace" /\ frame = "silence"
    /\ sent = "none" /\ onAir = "no" /\ got = FALSE
    /\ earned = 0 /\ quiet = LossTicks + 2 /\ hush = 0

(* A plausible slip: no way back to silence from PROGRAM either. *)
SetAudio_Sticky(new) ==
    audio' = IF audio # "DEGRADED" /\ new = "SILENCE_GRACE" /\ View = "RUNNING"
             THEN audio ELSE new

(* _set_audio_state: no way from the tone back to silence while RUNNING. *)
SetAudio(new) ==
    audio' = IF audio = "FALLBACK_TONE" /\ new = "SILENCE_GRACE" /\ View = "RUNNING"
             THEN audio ELSE new

(* The grace timer starts unless it runs. *)
StartTimer == timer' = IF timer = Never THEN 0 ELSE timer

-----------------------------------------------------------------------------
(* The supervisor and its state changes *)

Notify(t, s) ==
    /\ at[t] = "off"
    /\ at' = [at EXCEPT ![t] = "state"]
    /\ told' = [told EXCEPT ![t] = s]
    /\ UNCHANGED <<want, mgr, audio, pcmVars, tickVars, sent, got, quiet, hush>>

(* BOOTING is announced before the backoff of a restart, and by start(). *)
Boot ==
    /\ worker \in {"start", "boot"}
    /\ sup' = "BOOTING"
    /\ worker' = IF worker = "start" THEN "complete" ELSE "spawn"
    /\ Notify("main", "BOOTING")
    /\ UNCHANGED <<retried, onAir, earned>>

(* ... again when _restart_worker has its process: no tick that met the     *)
(* failure still runs ...                                                   *)
Spawn ==
    /\ worker = "spawn" /\ onAir # "lost"
    /\ worker' = "force"
    /\ Notify("main", "BOOTING")
    /\ UNCHANGED <<sup, retried, onAir, earned>>

(* ... and again by _force_booting, once the attempts are forgiven. *)
ForceBooting ==
    /\ worker = "force"
    /\ retried' = FALSE /\ worker' = "off"
    /\ Notify("main", "BOOTING")
    /\ UNCHANGED <<sup, onAir, earned>>

(* start() announces it a second time, and EncoderManager.start() goes on   *)
(* to copy the state and to start the grace period itself.                  *)
CompleteStartup ==
    /\ worker = "complete"
    /\ worker' = "tail"
    /\ Notify("main", "BOOTING")
    /\ UNCHANGED <<sup, retried, onAir, earned>>

StartReturns ==
    /\ worker = "tail" /\ at["main"] = "off"
    /\ worker' = "off"
    /\ mgr' = "RUNNING"
    /\ told' = [told EXCEPT !["main"] = "STARTING"]
    /\ at' = IF View = "BOOTING" THEN [at EXCEPT !["main"] = "timer"] ELSE at
    /\ UNCHANGED <<sup, retried, want, audio, pcmVars, tickVars, logVars>>

(* A first frame needs an encoder that is being fed. *)
FirstFrame ==
    /\ View = "BOOTING" /\ worker \in {"tail", "off"} /\ at["failure"] = "off"
    /\ sup' = "RUNNING"
    /\ earned' = 0
    /\ Notify("drain", "RUNNING")
    /\ UNCHANGED <<retried, worker, onAir>>

(* A process dies, or does not start; the restarts may be used up. *)
Fail(s) ==
    /\ sup \in {"BOOTING", "RUNNING"} /\ worker = "off"
    /\ at["drain"] = "off" /\ at["main"] = "off"
    /\ sup' = s
    /\ retried' = TRUE
    /\ worker' = IF s = "FAILED" THEN "recover" ELSE "schedule"
    /\ onAir' = "lost"
    /\ Notify("failure", s)
    /\ UNCHANGED earned

(* The failure thread schedules the restart when its callback has returned. *)
Schedule ==
    /\ worker = "schedule" /\ at["failure"] = "off"
    /\ worker' = "boot"
    /\ UNCHANGED <<sup, retried, cbVars, mgr, audio, pcmVars, tickVars, logVars>>

(* Minutes later, past any grace period: the recovery thread resets the     *)
(* attempts, and the restart worker promotes the state.                     *)
Recover ==
    /\ worker = "recover" /\ at["failure"] = "off"
    /\ onAir # "lost" /\ hush = GraceTicks
    /\ sup' = "RESTARTING" /\ retried' = FALSE /\ worker' = "boot"
    /\ Notify("main", "RESTARTING")
    /\ UNCHANGED <<onAir, earned>>

Supervisor ==
    \/ Boot \/ Spawn \/ ForceBooting \/ CompleteStartup \/ StartReturns
    \/ FirstFrame \/ Fail("RESTARTING") \/ Fail("FAILED") \/ Schedule \/ Recover

-----------------------------------------------------------------------------
(* The callback: _on_supervisor_state_change on thread t *)

GoTo(t, l) == at' = [at EXCEPT ![t] = l]

(* EncoderState: a boot does not end RESTARTING, the first frame does. *)
Mirrored(s) ==
    IF s \in {"RESTARTING", "FAILED"} THEN s
    ELSE IF s = "BOOTING" /\ mgr = "RESTARTING" THEN mgr
    ELSE "RUNNING"

NoteState(t) ==
    /\ at[t] = "state"
    /\ mgr' = Mirrored(told[t])
    /\ GoTo(t, IF told[t] = "RUNNING" THEN "reset" ELSE "timer")
    /\ UNCHANGED <<supVars, told, want, audio, pcmVars, tickVars, logVars>>

(* On RUNNING the tracking is reset ahead of the grace period as well. *)
ResetTracking(t) ==
    /\ at[t] = "reset"
    /\ count' = 0 /\ last' = Never
    /\ GoTo(t, "timer")
    /\ UNCHANGED <<supVars, told, want, mgr, audio, timer, generator, tickVars, logVars>>

(* _init_fallback_grace_period, one attribute after the other *)
InitTimer(t) ==
    /\ at[t] = "timer"
    /\ StartTimer
    /\ GoTo(t, "count")
    /\ UNCHANGED <<supVars, told, want, mgr, audio, count, last, generator, tickVars, logVars>>

InitCount(t) ==
    /\ at[t] = "count"
    /\ count' = 0
    /\ GoTo(t, "last")
    /\ UNCHANGED <<supVars, told, want, mgr, audio, last, timer, generator, tickVars, logVars>>

InitLast(t) ==
    /\ at[t] = "last"
    /\ last' = Never /\ generator' = TRUE
    /\ GoTo(t, IF told[t] = "STARTING" THEN "off" ELSE "view")
    /\ UNCHANGED <<supVars, told, want, mgr, audio, count, timer, tickVars, logVars>>

Decide(t, s) == want' = [want EXCEPT ![t] = s] /\ GoTo(t, "set")

(* _log_audio_state_transition asks the supervisor: a callback may be late. *)
Actual(s) == IF View = "RUNNING" THEN "RUNNING" ELSE s

ReadView(t) ==
    /\ at[t] = "view"
    /\ LET s == Actual(told[t])
       IN  CASE s = "RUNNING" -> GoTo(t, "judge") /\ UNCHANGED want
             [] s = "FAILED" -> Decide(t, "DEGRADED")
             [] OTHER ->   (* BOOTING or RESTARTING *)
                  IF timer = Never THEN Decide(t, "SILENCE_GRACE")
                  ELSE GoTo(t, "age") /\ UNCHANGED want
    /\ UNCHANGED <<supVars, told, mgr, audio, pcmVars, tickVars, logVars>>

(* RUNNING: the threshold decides. *)
Judge(t) ==
    /\ at[t] = "judge"
    /\ Decide(t, IF count >= Threshold THEN "PROGRAM" ELSE "FALLBACK_TONE")
    /\ UNCHANGED <<supVars, told, mgr, audio, pcmVars, tickVars, logVars>>

(* The timer is read again.  If the pump has cleared it, the subtraction    *)
(* raises, and the thread ends without what follows the callback.           *)
ReadAge(t) ==
    /\ at[t] = "age"
    /\ \/ /\ timer # Never
          /\ Decide(t, IF timer < GraceTicks THEN "SILENCE_GRACE" ELSE "FALLBACK_TONE")
          /\ UNCHANGED worker
       \/ /\ timer = Never
          /\ GoTo(t, "off")
          /\ worker' = "dead"
          /\ UNCHANGED want
    /\ UNCHANGED <<sup, retried, told, mgr, audio, pcmVars, tickVars, logVars>>

ApplyAudio(t) ==
    /\ at[t] = "set"
    /\ SetAudio(want[t])
    /\ GoTo(t, "off")
    /\ UNCHANGED <<supVars, told, want, mgr, pcmVars, tickVars, logVars>>

Callback(t) ==
    NoteState(t) \/ ResetTracking(t) \/ InitTimer(t) \/ InitCount(t) \/ InitLast(t)
    \/ ReadView(t) \/ Judge(t) \/ ReadAge(t) \/ ApplyAudio(t)

-----------------------------------------------------------------------------
(* The pump: one tick of AudioPump._run, with next_frame() in it *)

At(l) == pc = l
Next1(l) == pc' = l

(* _select_frame_for_tick: the mode decides, then the PCM buffer is popped. *)
Begin ==
    /\ At("idle")
    /\ sent' = "none"
    /\ onAir' = IF at["failure"] # "off" THEN "lost" ELSE IF Accepting THEN "yes" ELSE "no"
    /\ \/ /\ View \in {"BOOTING", "RESTARTING", "FAILED"}
          /\ Next1("fallback")
          /\ UNCHANGED <<got, earned, quiet>>
       \/ /\ View = "STARTING"
          /\ Next1("push")
          /\ UNCHANGED <<got, earned, quiet>>
       \/ /\ View = "RUNNING"
          /\ got' = TRUE /\ quiet' = 0
          /\ earned' = Min2(earned + 1, Threshold)
          /\ Next1("load")
       \/ /\ View = "RUNNING"
          /\ got' = FALSE
          /\ Next1("missed")
          /\ UNCHANGED <<earned, quiet>>
    /\ UNCHANGED <<supVars, cbVars, mgr, audio, pcmVars, loaded, back, frame, hush>>

(* A frame was found: _pcm_consecutive_frames += 1, a load and a store. *)
Load ==
    /\ At("load")
    /\ loaded' = count
    /\ Next1("store")
    /\ UNCHANGED <<supVars, cbVars, mgr, audio, pcmVars, back, frame, logVars>>

Store ==
    /\ At("store")
    /\ count' = Min2(loaded + 1, Threshold)
    /\ Next1("stamp")
    /\ UNCHANGED <<supVars, cbVars, mgr, audio, last, timer, generator, loaded, back, frame,
                   logVars>>

Stamp ==
    /\ At("stamp")
    /\ last' = 0
    /\ Next1("met")
    /\ UNCHANGED <<supVars, cbVars, mgr, audio, count, timer, generator, loaded, back, frame,
                   logVars>>

(* A plausible slip: one frame short. *)
Admitted_Early == count >= Threshold - 1

(* A plausible slip: not while the grace timer runs. *)
Admitted_Waiting == count >= Threshold /\ timer = Never

(* The threshold is checked after the increment. *)
Admitted == count >= Threshold

Met ==
    /\ At("met")
    /\ IF Admitted
       THEN Next1("clear") /\ frame' = "program"
       ELSE Next1("below") /\ UNCHANGED frame
    /\ UNCHANGED <<supVars, cbVars, mgr, audio, pcmVars, loaded, back, logVars>>

ClearTimer ==
    /\ At("clear")
    /\ timer' = Never
    /\ Next1("promote")
    /\ UNCHANGED <<supVars, cbVars, mgr, audio, count, last, generator, loaded, back, frame,
                   logVars>>

Promote ==
    /\ At("promote")
    /\ SetAudio("PROGRAM")
    /\ Next1("route")
    /\ UNCHANGED <<supVars, cbVars, mgr, pcmVars, loaded, back, frame, logVars>>

Below ==
    /\ At("below")
    /\ IF audio \in {"SILENCE_GRACE", "FALLBACK_TONE"}
       THEN UNCHANGED audio ELSE SetAudio("SILENCE_GRACE")
    /\ Next1("grace")
    /\ UNCHANGED <<supVars, cbVars, mgr, pcmVars, loaded, back, frame, logVars>>

(* The buffer was empty: a loss is looked for once the threshold is met. *)
Missed ==
    /\ At("missed")
    /\ IF count >= Threshold /\ last # Never
       THEN Next1("check") /\ back' = "grace"
       ELSE Next1("grace") /\ UNCHANGED back
    /\ UNCHANGED <<supVars, cbVars, mgr, audio, pcmVars, loaded, frame, logVars>>

Grace ==
    /\ At("grace")
    /\ StartTimer
    /\ Next1("fallback")
    /\ UNCHANGED <<supVars, cbVars, mgr, audio, count, last, generator, loaded, back, frame,
                   logVars>>

(* get_fallback_pcm_frame: silence in the grace period, then the tone. *)
FallbackFrame ==
    IF (timer # Never /\ timer < GraceTicks) \/ ~generator THEN "silence" ELSE "tone"

Fallback ==
    /\ At("fallback")
    /\ frame' = FallbackFrame
    /\ Next1("route")
    /\ UNCHANGED <<supVars, cbVars, mgr, audio, pcmVars, loaded, back, logVars>>

(* next_frame looks for a loss once more. *)
Route ==
    /\ At("route")
    /\ IF View = "RUNNING" /\ audio = "PROGRAM" /\ last # Never
       THEN Next1("check") /\ back' = "write"
       ELSE Next1("write") /\ UNCHANGED back
    /\ UNCHANGED <<supVars, cbVars, mgr, audio, pcmVars, loaded, frame, logVars>>

(* _check_pcm_loss: None is tested first, and the timestamp read again. *)
CheckLoss ==
    /\ At("check")
    /\ Next1(IF View = "RUNNING" /\ last # Never THEN "loss" ELSE back)
    /\ UNCHANGED <<supVars, cbVars, mgr, audio, pcmVars, loaded, back, frame, logVars>>

Lost == last >= LossTicks

(* Subtracting None raises; the pump catches it and the tick sends nothing. *)
MeasureLoss ==
    /\ At("loss")
    /\ Next1(IF last = Never THEN "push" ELSE IF Lost THEN "drop" ELSE back)
    /\ UNCHANGED <<supVars, cbVars, mgr, audio, pcmVars, loaded, back, frame, logVars>>

DropCount ==
    /\ At("drop")
    /\ count' = 0 /\ last' = Never
    /\ earned' = 0
    /\ Next1("quieten")
    /\ UNCHANGED <<supVars, cbVars, mgr, audio, timer, generator, loaded, back, frame,
                   sent, onAir, got, quiet, hush>>

Quieten ==
    /\ At("quieten")
    /\ SetAudio("SILENCE_GRACE")
    /\ Next1("regrace")
    /\ UNCHANGED <<supVars, cbVars, mgr, pcmVars, loaded, back, frame, logVars>>

Regrace ==
    /\ At("regrace")
    /\ StartTimer
    /\ count' = 0 /\ last' = Never
    /\ Next1(back)
    /\ UNCHANGED <<supVars, cbVars, mgr, audio, generator, loaded, back, frame, logVars>>

(* A plausible slip: nothing is forwarded while BOOTING. *)
Forwarded_Running == IF View = "RUNNING" THEN frame ELSE "none"

(* write_pcm or write_fallback: either way the supervisor takes the frame   *)
(* while BOOTING or RUNNING, and only then.                                 *)
Forwarded == IF Accepting THEN frame ELSE "none"

Write ==
    /\ At("write")
    /\ sent' = Forwarded
    /\ hush' = IF sent' = "program" THEN 0 ELSE hush
    /\ Next1("push")
    /\ UNCHANGED <<supVars, cbVars, mgr, audio, pcmVars, loaded, back, frame,
                   onAir, got, earned, quiet>>

Older(age, bound) == IF age = Never THEN Never ELSE Min2(age + 1, bound)

(* The pump pushes the frame downstream and sleeps until the next tick. *)
Tick ==
    /\ At("push")
    /\ Late \/ Quiescent
    /\ last' = Older(last, LossTicks + 1)
    /\ timer' = Older(timer, GraceTicks)
    /\ quiet' = Min2(quiet + 1, LossTicks + 2)
    /\ hush' = IF View = "STARTING" THEN hush ELSE Min2(hush + 1, GraceTicks)
    /\ Next1("idle")
    /\ UNCHANGED <<supVars, cbVars, mgr, audio, count, generator, loaded, back, frame,
                   sent, onAir, got, earned>>

Pump ==
    \/ Begin \/ Load \/ Store \/ Stamp \/ Met \/ ClearTimer \/ Promote \/ Below
    \/ Missed \/ Grace \/ Fallback \/ Route \/ CheckLoss \/ MeasureLoss \/ DropCount
    \/ Quieten \/ Regrace \/ Write \/ Tick

Next == Supervisor \/ (\E t \in Threads : Callback(t)) \/ Pump

Spec == Init /\ [][Next]_vars

(* The pump never stops; a callback ends. *)
Fairness == WF_vars(Pump) /\ \A t \in Threads : WF_vars(Callback(t))
FairSpec == Spec /\ Fairness

-----------------------------------------------------------------------------
(* Types *)

AudioStates == {"SILENCE_GRACE", "FALLBACK_TONE", "PROGRAM", "DEGRADED"}
SupStates == {"STARTING", "BOOTING", "RUNNING", "RESTARTING", "FAILED"}
PumpAt == {"idle", "load", "store", "stamp", "met", "clear", "promote", "below", "missed",
           "grace", "fallback", "route", "check", "loss", "drop", "quieten", "regrace",
           "write", "push"}
CallbackAt == {"off", "state", "reset", "timer", "count", "last", "view", "age", "judge",
               "set"}

TypeOK ==
    /\ sup \in SupStates /\ retried \in BOOLEAN
    /\ worker \in {"start", "complete", "tail", "boot", "spawn", "force", "schedule",
                   "recover", "dead", "off"}
    /\ at \in [Threads -> CallbackAt] /\ told \in [Threads -> SupStates]
    /\ want \in [Threads -> AudioStates]
    /\ mgr \in {"RUNNING", "RESTARTING", "FAILED"} /\ audio \in AudioStates
    /\ count \in 0..Threshold /\ loaded \in 0..Threshold /\ earned \in 0..Threshold
    /\ last \in Never..(LossTicks + 1) /\ timer \in Never..GraceTicks
    /\ generator \in BOOLEAN
    /\ pc \in PumpAt /\ back \in {"grace", "write"}
    /\ frame \in {"silence", "tone", "program"}
    /\ sent \in {"none", "silence", "tone", "program"}
    /\ onAir \in {"yes", "no", "lost"} /\ got \in BOOLEAN
    /\ quiet \in 0..(LossTicks + 2) /\ hush \in 0..GraceTicks

-----------------------------------------------------------------------------
(* Properties *)

(* The encoder gets station audio only after Threshold frames have been     *)
(* found since it came up, or since the last loss: no reset of the count    *)
(* by the callback is undone by the pump's increment (BG8, M16A).           *)
ProgramIsEarned == sent = "program" => earned = Threshold

(* An encoder that takes frames during a whole tick gets one in it (S7.0,   *)
(* BG17): no callback that interferes costs a frame.                        *)
EveryTickFed == At("push") /\ onAir = "yes" => sent # "none"

(* While PROGRAM is shown on a running encoder, the loss of the station is  *)
(* watched for: nothing leaves PROGRAM behind with the tracking reset.      *)
ProgramIsWatched ==
    At("idle") /\ Quiescent /\ View = "RUNNING" /\ audio = "PROGRAM"
        => count = Threshold /\ last # Never

(* A station that is silent for the loss window is no longer PROGRAM when   *)
(* the tick that completes the window ends (BG11).                          *)
LossIsDeclared ==
    At("push") /\ Quiescent /\ View = "RUNNING" /\ onAir = "yes" /\ quiet >= LossTicks
        => audio # "PROGRAM"

(* Both: PROGRAM never outlives the station's programme unnoticed.          *)
LossIsNoticed == ProgramIsWatched /\ LossIsDeclared

(* If the encoder stays up and the station keeps sending, its programme is  *)
(* on air for good; if the station stays away, the tone is.                 *)
ProgramReturns ==
    <>[](sup = "RUNNING" /\ got) => <>[](At("push") => sent = "program")
ToneFillsIn ==
    <>[](sup = "RUNNING" /\ ~got) => <>[](At("push") => sent = "tone")

(* Both: what goes to the encoder settles to what the station does.         *)
SoundSettles == ProgramReturns /\ ToneFillsIn

=============================================================================
