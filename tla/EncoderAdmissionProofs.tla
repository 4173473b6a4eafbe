------------------------ MODULE EncoderAdmissionProofs ------------------------
(***************************************************************************)
(* Proofs about EncoderAdmission, for every threshold, loss window and     *)
(* grace period: that programme is earned however late a callback is, and  *)
(* that prompt callbacks cost no tick its frame and hide no loss.          *)
(***************************************************************************)
EXTENDS EncoderAdmission, TLAPS

(* Where the supervisor's threads are when the encoder is not RUNNING, and  *)
(* that no tick of the time before a failure outlives it.                   *)
SupervisorKnown ==
    /\ worker \in {"start", "complete", "boot", "spawn", "force", "schedule", "recover"}
         => sup # "RUNNING"
    /\ at["failure"] # "off" => worker \in {"schedule", "recover", "dead"}
    /\ worker \in {"start", "complete", "tail", "force", "off"} => onAir # "lost"

(* A tick that has found, or looks for, a frame of the station. *)
ProgramTick == pc \in {"load", "store", "stamp", "met", "clear", "promote"}

(* A program frame that is on its way to the encoder. *)
InFlight ==
    \/ pc \in {"clear", "promote"}
    \/ frame = "program" /\ pc \in {"route", "write"}
    \/ frame = "program" /\ back = "write" /\ pc \in {"check", "loss", "drop", "quieten", "regrace"}

Calm == ~ProgramTick /\ ~InFlight /\ sent # "program"

CalmKnown == View # "RUNNING" /\ onAir # "lost" => Calm

(* The count is 0 whenever the encoder may come up. *)
CountKnown ==
    /\ View # "RUNNING" /\ worker \in {"start", "complete", "tail", "off"} => count = 0
    /\ worker = "force" /\ at["main"] \notin {"state", "reset", "timer", "count"} => count = 0

(* No count is ahead of the frames that were found, a pending store's least *)
(* of all.                                                                  *)
CountIsEarned ==
    /\ count <= earned
    /\ pc = "load" => Min2(count + 1, Threshold) <= earned
    /\ pc = "store" => Min2(loaded + 1, Threshold) <= earned

(* A frame in flight was earned, and was found just now: it is not lost.    *)
FlightKnown ==
    /\ pc = "met" \/ InFlight => last \in {Never, 0}
    /\ InFlight => earned = Threshold /\ pc \notin {"drop", "quieten", "regrace"}
    /\ pc \notin {"push", "idle"} => sent = "none"

IInv == /\ TypeOK /\ SupervisorKnown /\ CalmKnown /\ CountKnown
        /\ CountIsEarned /\ FlightKnown /\ ProgramIsEarned
-----------------------------------------------------------------------------
(* Types *)

LEMMA TypesStart == ASSUME Init PROVE TypeOK
<1> USE AdmissionAssumption DEF AdmissionAssumption, Init, Never
<1>1. /\ at \in [Threads -> CallbackAt] /\ told \in [Threads -> SupStates]
      /\ want \in [Threads -> AudioStates]
      BY DEF CallbackAt, SupStates, AudioStates
<1>2. /\ last \in Never..(LossTicks + 1) /\ timer \in Never..GraceTicks
      /\ quiet \in 0..(LossTicks + 2) /\ hush \in 0..GraceTicks
      /\ count \in 0..Threshold /\ loaded \in 0..Threshold /\ earned \in 0..Threshold
      OBVIOUS
<1> QED BY <1>1, <1>2 DEF TypeOK, SupStates, AudioStates, PumpAt

LEMMA TypesKeptBySupervisor == ASSUME TypeOK, Supervisor PROVE TypeOK'
<1> USE AdmissionAssumption DEF AdmissionAssumption, TypeOK, Threads, SupStates, CallbackAt,
        cbVars, supVars, pcmVars, tickVars, logVars
<1>1. CASE Boot
      BY <1>1 DEF Boot, Notify
<1>2. CASE Spawn
      BY <1>2 DEF Spawn, Notify
<1>3. CASE ForceBooting
      BY <1>3 DEF ForceBooting, Notify
<1>4. CASE CompleteStartup
      BY <1>4 DEF CompleteStartup, Notify
<1>5. CASE StartReturns
      BY <1>5 DEF StartReturns
<1>6. CASE FirstFrame
      BY <1>6 DEF FirstFrame, Notify
<1>7. CASE Fail("RESTARTING")
      BY <1>7 DEF Fail, Notify
<1>8. CASE Fail("FAILED")
      BY <1>8 DEF Fail, Notify
<1>9. CASE Schedule
      BY <1>9 DEF Schedule
<1>10. CASE Recover
      BY <1>10 DEF Recover, Notify
<1> QED BY <1>1, <1>2, <1>3, <1>4, <1>5, <1>6, <1>7, <1>8, <1>9, <1>10 DEF Supervisor

LEMMA TypesKeptByCallback == ASSUME TypeOK, NEW t \in Threads, Callback(t) PROVE TypeOK'
<1> USE AdmissionAssumption DEF AdmissionAssumption, TypeOK, SupStates, AudioStates,
        CallbackAt, Never, cbVars, supVars, pcmVars, tickVars, logVars
<1>1. CASE NoteState(t)
      BY <1>1 DEF NoteState, GoTo, Mirrored
<1>2. CASE ResetTracking(t)
      BY <1>2 DEF ResetTracking, GoTo
<1>3. CASE InitTimer(t)
      BY <1>3 DEF InitTimer, GoTo, StartTimer
<1>4. CASE InitCount(t)
      BY <1>4 DEF InitCount, GoTo
<1>5. CASE InitLast(t)
      BY <1>5 DEF InitLast, GoTo
<1>6. CASE ReadView(t)
      BY <1>6 DEF ReadView, GoTo, Decide, Actual
<1>7. CASE Judge(t)
      BY <1>7 DEF Judge, GoTo, Decide
<1>8. CASE ReadAge(t)
      BY <1>8 DEF ReadAge, GoTo, Decide
<1>9. CASE ApplyAudio(t)
      BY <1>9 DEF ApplyAudio, GoTo, SetAudio
<1> HIDE DEF TypeOK
<1> QED BY <1>1, <1>2, <1>3, <1>4, <1>5, <1>6, <1>7, <1>8, <1>9 DEF Callback

LEMMA TypesKeptByPump == ASSUME TypeOK, Pump PROVE TypeOK'
<1> USE AdmissionAssumption DEF AdmissionAssumption, TypeOK, PumpAt, AudioStates, At, Next1,
        Never, cbVars, supVars, pcmVars, tickVars, logVars
<1>1. CASE Begin
  <2>1. earned' \in 0..Threshold
        BY <1>1 DEF Begin, Min2
  <2>2. quiet' \in 0..(LossTicks + 2)
        BY <1>1 DEF Begin
  <2>3. pc' \in PumpAt /\ got' \in BOOLEAN
        BY <1>1 DEF Begin
  <2>4. /\ onAir' \in {"yes", "no", "lost"} /\ sent' = "none"
        /\ UNCHANGED <<supVars, cbVars, mgr, audio, pcmVars, loaded, back, frame, hush>>
        BY <1>1 DEF Begin
  <2> QED BY <2>1, <2>2, <2>3, <2>4
<1>2. CASE Load
      BY <1>2 DEF Load
<1>3. CASE Store
      BY <1>3 DEF Store, Min2
<1>4. CASE Stamp
      BY <1>4 DEF Stamp
<1>5. CASE Met
      BY <1>5 DEF Met, Admitted
<1>6. CASE ClearTimer
      BY <1>6 DEF ClearTimer
<1>7. CASE Promote
      BY <1>7 DEF Promote, SetAudio
<1>8. CASE Below
      BY <1>8 DEF Below, SetAudio
<1>9. CASE Missed
      BY <1>9 DEF Missed
<1>10. CASE Grace
      BY <1>10 DEF Grace, StartTimer
<1>11. CASE Fallback
      BY <1>11 DEF Fallback, FallbackFrame
<1>12. CASE Route
      BY <1>12 DEF Route, View
<1>13. CASE CheckLoss
      BY <1>13 DEF CheckLoss, View
<1>14. CASE MeasureLoss
      BY <1>14 DEF MeasureLoss, Lost
<1>15. CASE DropCount
      BY <1>15 DEF DropCount
<1>16. CASE Quieten
      BY <1>16 DEF Quieten, SetAudio
<1>17. CASE Regrace
      BY <1>17 DEF Regrace, StartTimer
<1>18. CASE Write
      BY <1>18 DEF Write, Forwarded
<1>19. CASE Tick
      BY <1>19 DEF Tick, Older, Min2
<1> QED BY <1>1, <1>2, <1>3, <1>4, <1>5, <1>6, <1>7, <1>8, <1>9, <1>10, <1>11, <1>12, <1>13,
           <1>14, <1>15, <1>16, <1>17, <1>18, <1>19 DEF Pump

LEMMA TypesKept == ASSUME TypeOK, [Next]_vars PROVE TypeOK'
<1>1. CASE UNCHANGED vars
      BY <1>1 DEF vars, supVars, cbVars, pcmVars, tickVars, logVars, TypeOK
<1> QED BY <1>1, TypesKeptBySupervisor, TypesKeptByCallback, TypesKeptByPump DEF Next

-----------------------------------------------------------------------------
(* What the pump leaves to the supervisor, and the callback to both *)

LEMMA PumpLeaves ==
    ASSUME Pump
    PROVE  /\ UNCHANGED <<sup, retried, worker, at>>
           /\ Begin \/ UNCHANGED onAir
<1> USE DEF supVars, cbVars, logVars
<1>1. CASE Begin
      BY <1>1 DEF Begin
<1>2. CASE Load \/ Store \/ Stamp \/ Met \/ ClearTimer \/ Promote \/ Below
      BY <1>2 DEF Load, Store, Stamp, Met, ClearTimer, Promote, Below
<1>3. CASE Missed \/ Grace \/ Fallback \/ Route \/ CheckLoss \/ MeasureLoss
      BY <1>3 DEF Missed, Grace, Fallback, Route, CheckLoss, MeasureLoss
<1>4. CASE DropCount \/ Quieten \/ Regrace \/ Write \/ Tick
      BY <1>4 DEF DropCount, Quieten, Regrace, Write, Tick
<1> QED BY <1>1, <1>2, <1>3, <1>4 DEF Pump

LEMMA CallbackLeaves ==
    ASSUME NEW t \in Threads, Callback(t)
    PROVE  /\ UNCHANGED <<sup, retried, pc, loaded, back, frame>>
           /\ UNCHANGED <<sent, onAir, earned>>
           /\ UNCHANGED worker \/ (worker' = "dead" /\ ReadAge(t))
           /\ \E l : at' = [at EXCEPT ![t] = l]
           /\ at[t] # "off"
           /\ (count' = count /\ last' = last)
                \/ (count' = 0 /\ last' = Never /\ ResetTracking(t))
                \/ (count' = 0 /\ last' = last /\ InitCount(t))
                \/ (count' = count /\ last' = Never /\ InitLast(t))
<1> USE DEF supVars, pcmVars, tickVars, logVars, GoTo, Decide
<1>1. CASE NoteState(t) \/ ResetTracking(t)
      BY <1>1 DEF NoteState, ResetTracking
<1>2. CASE InitTimer(t) \/ InitCount(t) \/ InitLast(t)
      BY <1>2 DEF InitTimer, InitCount, InitLast
<1>3. CASE ReadView(t)
      BY <1>3 DEF ReadView
<1>4. CASE Judge(t) \/ ReadAge(t) \/ ApplyAudio(t)
      BY <1>4 DEF Judge, ReadAge, ApplyAudio
<1> QED BY <1>1, <1>2, <1>3, <1>4 DEF Callback

LEMMA SupervisorKept ==
    ASSUME TypeOK, SupervisorKnown, [Next]_vars
    PROVE  SupervisorKnown'
<1>1. CASE UNCHANGED vars
      BY <1>1 DEF vars, supVars, cbVars, logVars, SupervisorKnown
<1>2. CASE Pump
  <2>1. onAir' = "lost" => onAir = "lost" \/ at["failure"] # "off"
        BY <1>2, PumpLeaves DEF Begin
  <2> QED BY <1>2, <2>1, PumpLeaves DEF SupervisorKnown
<1>3. ASSUME NEW t \in Threads, Callback(t)
      PROVE  SupervisorKnown'
  <2>1. PICK l : at' = [at EXCEPT ![t] = l]
        BY <1>3, CallbackLeaves
  <2>2. at["failure"] = "off" => at'["failure"] = "off"
        BY <1>3, <2>1, CallbackLeaves DEF TypeOK, Threads
  <2> QED BY <1>3, <2>2, CallbackLeaves DEF SupervisorKnown
<1>4. CASE Supervisor
  <2> USE DEF Notify, SupervisorKnown, TypeOK, Threads, View, supVars, cbVars, logVars
  <2>1. CASE Boot \/ Spawn \/ ForceBooting \/ CompleteStartup
        BY <1>4, <2>1 DEF Boot, Spawn, ForceBooting, CompleteStartup
  <2>2. CASE StartReturns \/ FirstFrame
        BY <1>4, <2>2 DEF StartReturns, FirstFrame
  <2>3. CASE Fail("RESTARTING") \/ Fail("FAILED")
        BY <1>4, <2>3 DEF Fail
  <2>4. CASE Schedule \/ Recover
        BY <1>4, <2>4 DEF Schedule, Recover
  <2> QED BY <1>4, <2>1, <2>2, <2>3, <2>4 DEF Supervisor
<1> QED BY <1>1, <1>2, <1>3, <1>4 DEF Next

-----------------------------------------------------------------------------
(* What a tick may carry over to the next encoder *)

LEMMA CalmKept ==
    ASSUME TypeOK, SupervisorKnown, CalmKnown, [Next]_vars
    PROVE  CalmKnown'
<1> USE DEF SupervisorKnown, CalmKnown, Calm, ProgramTick, InFlight, View, supVars, cbVars, pcmVars,
        tickVars, logVars
<1>1. CASE UNCHANGED vars
      BY <1>1 DEF vars
<1>2. CASE Pump
  <2> USE DEF At, Next1
  <2>1. CASE Begin
        BY <2>1, PumpLeaves, <1>2 DEF Begin, TypeOK
  <2>2. CASE Load \/ Store \/ Stamp \/ Met \/ ClearTimer \/ Promote \/ Below
        BY <2>2, PumpLeaves, <1>2 DEF Load, Store, Stamp, Met, ClearTimer, Promote, Below
  <2>3. CASE Missed \/ Grace \/ Fallback
        BY <2>3, PumpLeaves, <1>2 DEF Missed, Grace, Fallback, FallbackFrame
  <2>4. CASE Route \/ CheckLoss \/ MeasureLoss
        BY <2>4, PumpLeaves, <1>2 DEF Route, CheckLoss, MeasureLoss, TypeOK
  <2>5. CASE DropCount \/ Quieten \/ Regrace \/ Tick
        BY <2>5, PumpLeaves, <1>2 DEF DropCount, Quieten, Regrace, Tick, TypeOK
  <2>6. CASE Write
        BY <2>6, PumpLeaves, <1>2 DEF Write, Forwarded
  <2> QED BY <1>2, <2>1, <2>2, <2>3, <2>4, <2>5, <2>6 DEF Pump
<1>3. ASSUME NEW t \in Threads, Callback(t)
      PROVE  CalmKnown'
      BY <1>3, CallbackLeaves
<1>4. CASE Supervisor
  <2> USE DEF Notify
  <2>1. CASE Boot \/ Spawn \/ ForceBooting \/ CompleteStartup
        BY <2>1 DEF Boot, Spawn, ForceBooting, CompleteStartup, TypeOK
  <2>2. CASE StartReturns \/ FirstFrame \/ Schedule \/ Recover
        BY <2>2 DEF StartReturns, FirstFrame, Schedule, Recover, TypeOK
  <2>3. CASE Fail("RESTARTING") \/ Fail("FAILED")
        BY <2>3 DEF Fail
  <2> QED BY <1>4, <2>1, <2>2, <2>3 DEF Supervisor
<1> QED BY <1>1, <1>2, <1>3, <1>4 DEF Next

LEMMA CountKept ==
    ASSUME TypeOK, SupervisorKnown, CalmKnown, CountKnown, [Next]_vars
    PROVE  CountKnown'
<1> USE DEF CountKnown, View
<1>1. CASE UNCHANGED vars
      BY <1>1 DEF vars, supVars, cbVars, pcmVars
<1>2. CASE Pump
  <2>1. Store \/ DropCount \/ Regrace \/ UNCHANGED count
        BY <1>2 DEF Pump, Begin, Load, Stamp, Met, ClearTimer, Promote, Below, Missed,
                    Grace, Fallback, Route, CheckLoss, MeasureLoss, Quieten, Write, Tick,
                    pcmVars
  <2>2. CASE Store
    <3>1. View = "RUNNING" \/ onAir = "lost"
          BY <2>2 DEF CalmKnown, Calm, ProgramTick, Store, At
    <3> QED BY <1>2, <3>1, PumpLeaves DEF SupervisorKnown
  <2>3. CASE DropCount \/ Regrace
        BY <1>2, <2>3, PumpLeaves DEF DropCount, Regrace
  <2> QED BY <1>2, <2>1, <2>2, <2>3, PumpLeaves
<1>3. ASSUME NEW t \in Threads, Callback(t)
      PROVE  CountKnown'
  <2>1. count' = 0 \/ count' = count
        BY <1>3, CallbackLeaves
  <2>2. CASE count' = count /\ t = "main" /\ worker' = "force"
    <3>1. at["main"] \in {"state", "reset", "timer", "count"} =>
              at'["main"] \in {"state", "reset", "timer", "count"} \/ count' = 0
          BY <1>3, <2>2 DEF Callback, NoteState, ResetTracking, InitTimer, InitCount, InitLast,
             ReadView, Judge, ReadAge, ApplyAudio, GoTo, TypeOK
    <3> QED BY <1>3, <2>2, <3>1, CallbackLeaves
  <2>3. CASE count' = count /\ ~(t = "main" /\ worker' = "force")
    <3>1. PICK l : at' = [at EXCEPT ![t] = l]
          BY <1>3, CallbackLeaves
    <3>2. worker' = "force" => at'["main"] = at["main"]
          BY <2>3, <3>1 DEF TypeOK, Threads
    <3> QED BY <1>3, <2>3, <3>2, CallbackLeaves
  <2>4. CASE count' = 0
        BY <2>4
  <2> QED BY <2>1, <2>2, <2>3, <2>4
<1>4. CASE Supervisor
  <2> USE DEF Notify, SupervisorKnown, TypeOK, Threads, supVars, cbVars, pcmVars
  <2>1. CASE Boot \/ Spawn \/ ForceBooting \/ CompleteStartup
        BY <2>1 DEF Boot, Spawn, ForceBooting, CompleteStartup
  <2>2. CASE StartReturns \/ FirstFrame \/ Schedule \/ Recover
        BY <2>2 DEF StartReturns, FirstFrame, Schedule, Recover
  <2>3. CASE Fail("RESTARTING") \/ Fail("FAILED")
        BY <2>3 DEF Fail
  <2> QED BY <1>4, <2>1, <2>2, <2>3 DEF Supervisor
<1> QED BY <1>1, <1>2, <1>3, <1>4 DEF Next

-----------------------------------------------------------------------------
(* The count, the frames found, and the frame on its way *)

LEMMA CountIsEarnedKept ==
    ASSUME TypeOK, SupervisorKnown, CalmKnown, CountKnown, CountIsEarned, [Next]_vars
    PROVE  CountIsEarned'
<1> USE AdmissionAssumption DEF AdmissionAssumption, CountIsEarned, Min2
<1>1. CASE UNCHANGED vars
      BY <1>1 DEF vars, pcmVars, tickVars, logVars
<1>2. CASE Pump
  <2> USE DEF At, Next1, pcmVars, tickVars, logVars
  <2>1. CASE Begin
        BY <2>1 DEF Begin, TypeOK
  <2>2. CASE Load \/ Store
        BY <2>2 DEF Load, Store, TypeOK
  <2>3. CASE Stamp \/ Met \/ ClearTimer \/ Promote \/ Below
        BY <2>3 DEF Stamp, Met, ClearTimer, Promote, Below
  <2>4. CASE Missed \/ Grace \/ Fallback \/ Route \/ CheckLoss \/ MeasureLoss
        BY <2>4 DEF Missed, Grace, Fallback, Route, CheckLoss, MeasureLoss, TypeOK
  <2>5. CASE DropCount \/ Quieten \/ Regrace \/ Write \/ Tick
        BY <2>5 DEF DropCount, Quieten, Regrace, Write, Tick, TypeOK
  <2> QED BY <1>2, <2>1, <2>2, <2>3, <2>4, <2>5 DEF Pump
<1>3. ASSUME NEW t \in Threads, Callback(t)
      PROVE  CountIsEarned'
  <2>1. UNCHANGED <<pc, loaded, earned>> /\ (count' = 0 \/ count' = count)
        BY <1>3, CallbackLeaves
  <2> QED BY <2>1 DEF TypeOK
<1>4. CASE FirstFrame
  <2>1. View = "BOOTING" /\ onAir # "lost" /\ count = 0
        BY <1>4 DEF FirstFrame, SupervisorKnown, CountKnown
  <2>2. pc \notin {"load", "store"}
        BY <2>1 DEF CalmKnown, Calm, ProgramTick
  <2> QED BY <1>4, <2>1, <2>2 DEF FirstFrame, Notify, pcmVars, tickVars
<1>5. CASE Supervisor /\ ~FirstFrame
  <2>1. UNCHANGED <<count, pc, loaded, earned>>
        BY <1>5 DEF Supervisor, Boot, Spawn, ForceBooting, CompleteStartup, StartReturns,
                    Fail, Schedule, Recover, Notify, pcmVars, tickVars, logVars
  <2> QED BY <2>1
<1> QED BY <1>1, <1>2, <1>3, <1>4, <1>5 DEF Next

LEMMA FlightKept ==
    ASSUME TypeOK, SupervisorKnown, CalmKnown, CountIsEarned, FlightKnown, ProgramIsEarned,
           [Next]_vars
    PROVE  FlightKnown' /\ ProgramIsEarned'
<1> USE AdmissionAssumption DEF AdmissionAssumption, FlightKnown, ProgramIsEarned, InFlight,
        Never
<1>1. CASE UNCHANGED vars
      BY <1>1 DEF vars, pcmVars, tickVars, logVars
<1>2. CASE Pump
  <2> USE DEF At, Next1, pcmVars, tickVars, logVars
  <2>1. CASE Begin
        BY <2>1 DEF Begin
  <2>2. CASE Load \/ Store \/ Stamp
        BY <2>2 DEF Load, Store, Stamp
  <2>3. CASE Met
        BY <2>3 DEF Met, Admitted, CountIsEarned, TypeOK
  <2>4. CASE ClearTimer \/ Promote \/ Below
        BY <2>4 DEF ClearTimer, Promote, Below
  <2>5. CASE Missed \/ Grace \/ Fallback
        BY <2>5 DEF Missed, Grace, Fallback, FallbackFrame
  <2>6. CASE Route \/ CheckLoss
        BY <2>6 DEF Route, CheckLoss, TypeOK
  <2>7. CASE MeasureLoss
        BY <2>7 DEF MeasureLoss, Lost, TypeOK
  <2>8. CASE DropCount \/ Quieten \/ Regrace
        BY <2>8 DEF DropCount, Quieten, Regrace, TypeOK
  <2>9. CASE Write \/ Tick
        BY <2>9 DEF Write, Tick, Forwarded
  <2> QED BY <1>2, <2>1, <2>2, <2>3, <2>4, <2>5, <2>6, <2>7, <2>8, <2>9 DEF Pump
<1>3. ASSUME NEW t \in Threads, Callback(t)
      PROVE  FlightKnown' /\ ProgramIsEarned'
      BY <1>3, CallbackLeaves
<1>4. CASE FirstFrame
  <2>1. View = "BOOTING" /\ onAir # "lost"
        BY <1>4 DEF FirstFrame, SupervisorKnown
  <2>2. Calm
        BY <2>1 DEF CalmKnown
  <2> QED BY <1>4, <2>2 DEF FirstFrame, Notify, Calm, pcmVars, tickVars
<1>5. CASE Supervisor /\ ~FirstFrame
  <2>1. UNCHANGED <<last, pc, back, frame, sent, earned>>
        BY <1>5 DEF Supervisor, Boot, Spawn, ForceBooting, CompleteStartup, StartReturns,
                    Fail, Schedule, Recover, Notify, pcmVars, tickVars, logVars
  <2> QED BY <2>1
<1> QED BY <1>1, <1>2, <1>3, <1>4, <1>5 DEF Next

-----------------------------------------------------------------------------
(* Theorems *)

(* The invariant holds initially and every step keeps it: TypeOK, what the  *)
(* supervisor's threads have done when no encoder runs, and where a count   *)
(* or a program frame may be, as a lemma each.                              *)
THEOREM Invariance == Spec => []IInv
<1>1. ASSUME Init PROVE IInv
  <2>1. TypeOK
        BY <1>1, TypesStart
  <2> QED BY <1>1, <2>1, AdmissionAssumption
          DEF IInv, Init, SupervisorKnown, CalmKnown, Calm, ProgramTick, InFlight, CountKnown,
              CountIsEarned, FlightKnown, ProgramIsEarned, View, Threads, AdmissionAssumption
<1>2. IInv /\ [Next]_vars => IInv'
      BY TypesKept, SupervisorKept, CalmKept, CountKept, CountIsEarnedKept, FlightKept
      DEF IInv
<1> QED BY <1>1, <1>2, PTL DEF Spec

(* EncoderManager's and the pump's attributes keep their types: no count    *)
(* passes the threshold, and a timestamp is None or a time.                 *)
THEOREM TypeCorrect == Spec => []TypeOK
<1>1. IInv => TypeOK
      BY DEF IInv
<1> QED BY <1>1, Invariance, PTL

(* The encoder gets station audio only after Threshold frames since it came *)
(* up, however the callback's resets and the pump's increment interleave.   *)
THEOREM Earned == Spec => []ProgramIsEarned
<1>1. IInv => ProgramIsEarned
      BY DEF IInv
<1> QED BY <1>1, Invariance, PTL

-----------------------------------------------------------------------------
(* A fed encoder and a watched programme, when callbacks are prompt *)

(* A callback ends within the tick it began in, and one frame is not enough *)
(* for admission.                                                           *)
Prompt == ~Late /\ Threshold >= 2

(* Which state each stage of the supervisor's workers leaves behind. *)
WorkerKnown ==
    /\ worker = "start" => sup = "STARTING"
    /\ worker \in {"complete", "spawn", "force"} => sup = "BOOTING"
    /\ worker \in {"schedule", "boot"} => sup = "RESTARTING"
    /\ worker = "recover" => sup = "FAILED"
    /\ worker = "force" => told["main"] = "BOOTING"

(* A tick that began with an encoder still has one, or knows it was lost;   *)
(* without one, it looks for no frame and no loss of the station.           *)
TickKnown ==
    /\ onAir = "yes" => Accepting
    /\ View # "RUNNING" /\ onAir # "lost"
         => pc \in {"idle", "fallback", "route", "write", "push"}
    /\ ProgramTick => quiet = 0

(* No callback is about to set PROGRAM: only the pump does. *)
CallbackKnown ==
    /\ sup = "RUNNING" => at["failure"] = "off"
    /\ \A t \in Threads :
         at[t] = "judge" \/ (at[t] # "off" /\ told[t] = "RUNNING") => sup = "RUNNING"
    /\ \A t \in Threads : at[t] = "set" => want[t] # "PROGRAM"

(* PROGRAM does not outlive its encoder. *)
AudioKnown ==
    /\ View # "RUNNING" /\ worker \in {"start", "complete", "tail", "off"} => audio # "PROGRAM"
    /\ worker = "force" /\ at["main"] = "off" => audio # "PROGRAM"

(* While a callback still runs, a RUNNING encoder is in its first tick: one *)
(* frame may have been found, and no loss is looked for.                    *)
FreshKnown ==
    sup = "RUNNING" /\ ~Quiescent =>
        /\ audio # "PROGRAM" /\ count <= 1
        /\ pc \in {"idle", "load", "missed"} => count = 0
        /\ pc = "store" => loaded = 0
        /\ pc \notin {"clear", "promote", "check", "loss", "drop", "quieten", "regrace"}

(* PROGRAM stands on a full count and on a timestamp no younger than the    *)
(* last frame; past the look for a loss, on a recent one.                   *)
WatchKnown ==
    sup = "RUNNING" =>
        /\ audio = "PROGRAM" /\ pc # "quieten"
             => count = Threshold /\ last # Never /\ last >= Min2(quiet, LossTicks)
        /\ audio = "PROGRAM" /\ pc = "store" => loaded = Threshold
        /\ audio = "PROGRAM" /\ pc \in {"write", "push"} => last < LossTicks
        /\ pc = "met" => last # Never \/ count <= 1
        /\ pc \in {"clear", "promote"} => count = Threshold /\ last # Never
        /\ pc = "loss" => last # Never
        /\ pc = "regrace" => audio # "PROGRAM"

PromptInv == /\ WorkerKnown /\ TickKnown /\ CallbackKnown /\ AudioKnown
             /\ FreshKnown /\ WatchKnown /\ EveryTickFed

LEMMA SomeoneBusy ==
    ASSUME NEW t \in Threads, Callback(t)
    PROVE  ~Quiescent
BY CallbackLeaves DEF Quiescent

LEMMA AudioByCallback ==
    ASSUME NEW t \in Threads, Callback(t), CallbackKnown
    PROVE  /\ audio' # "PROGRAM" \/ audio' = audio
           /\ audio' = audio \/ ApplyAudio(t)
BY DEF CallbackKnown, Callback, NoteState, ResetTracking, InitTimer, InitCount, InitLast, ReadView,
       Judge, ReadAge, ApplyAudio, SetAudio, GoTo, Decide

LEMMA WorkerKept ==
    ASSUME TypeOK, SupervisorKnown, WorkerKnown, [Next]_vars
    PROVE  WorkerKnown'
<1> USE DEF WorkerKnown
<1>1. CASE UNCHANGED vars
      BY <1>1 DEF vars, supVars, cbVars
<1>2. CASE Pump
  <2>1. told' = told
        BY <1>2 DEF Pump, Begin, Load, Store, Stamp, Met, ClearTimer, Promote, Below, Missed,
                    Grace, Fallback, Route, CheckLoss, MeasureLoss, DropCount, Quieten, Regrace,
                    Write, Tick, cbVars
  <2> QED BY <1>2, <2>1, PumpLeaves
<1>3. ASSUME NEW t \in Threads, Callback(t)
      PROVE  WorkerKnown'
  <2>1. told' = told
        BY <1>3 DEF Callback, NoteState, ResetTracking, InitTimer, InitCount, InitLast, ReadView,
                    Judge, ReadAge, ApplyAudio, GoTo, Decide
  <2> QED BY <1>3, <2>1, CallbackLeaves
<1>4. CASE Supervisor
  <2> USE DEF Notify, TypeOK, Threads
  <2>1. CASE Boot \/ Spawn \/ ForceBooting \/ CompleteStartup
        BY <2>1 DEF Boot, Spawn, ForceBooting, CompleteStartup
  <2>2. CASE StartReturns \/ FirstFrame
        BY <2>2 DEF StartReturns, FirstFrame, View
  <2>3. CASE Fail("RESTARTING") \/ Fail("FAILED")
        BY <2>3 DEF Fail
  <2>4. CASE Schedule \/ Recover
        BY <2>4 DEF Schedule, Recover, cbVars
  <2> QED BY <1>4, <2>1, <2>2, <2>3, <2>4 DEF Supervisor
<1> QED BY <1>1, <1>2, <1>3, <1>4 DEF Next

LEMMA TickKept ==
    ASSUME TypeOK, SupervisorKnown, WorkerKnown, TickKnown, [Next]_vars
    PROVE  TickKnown'
<1> USE AdmissionAssumption DEF AdmissionAssumption, TickKnown, ProgramTick, Accepting, View
<1>1. CASE UNCHANGED vars
      BY <1>1 DEF vars, supVars, tickVars, logVars
<1>2. CASE Pump
  <2> USE DEF At, Next1, logVars
  <2>1. CASE Begin
        BY <1>2, <2>1, PumpLeaves DEF Begin, TypeOK, SupStates
  <2>2. CASE Load \/ Store \/ Stamp \/ Met \/ ClearTimer \/ Promote \/ Below
        BY <1>2, <2>2, PumpLeaves DEF Load, Store, Stamp, Met, ClearTimer, Promote, Below
  <2>3. CASE Missed \/ Grace \/ Fallback
        BY <1>2, <2>3, PumpLeaves DEF Missed, Grace, Fallback
  <2>4. CASE Route \/ CheckLoss \/ MeasureLoss
        BY <1>2, <2>4, PumpLeaves DEF Route, CheckLoss, MeasureLoss, TypeOK
  <2>5. CASE DropCount \/ Quieten \/ Regrace \/ Write \/ Tick
        BY <1>2, <2>5, PumpLeaves DEF DropCount, Quieten, Regrace, Write, Tick, TypeOK
  <2> QED BY <1>2, <2>1, <2>2, <2>3, <2>4, <2>5 DEF Pump
<1>3. ASSUME NEW t \in Threads, Callback(t)
      PROVE  TickKnown'
  <2>1. quiet' = quiet
        BY <1>3 DEF Callback, NoteState, ResetTracking, InitTimer, InitCount, InitLast, ReadView,
                    Judge, ReadAge, ApplyAudio, logVars
  <2> QED BY <1>3, <2>1, CallbackLeaves
<1>4. CASE Supervisor
  <2> USE DEF Notify, WorkerKnown, SupervisorKnown, tickVars, logVars
  <2>1. CASE Boot \/ Spawn \/ ForceBooting \/ CompleteStartup
        BY <2>1 DEF Boot, Spawn, ForceBooting, CompleteStartup
  <2>2. CASE StartReturns \/ FirstFrame \/ Schedule \/ Recover
        BY <2>2 DEF StartReturns, FirstFrame, Schedule, Recover, supVars
  <2>3. CASE Fail("RESTARTING") \/ Fail("FAILED")
        BY <2>3 DEF Fail
  <2> QED BY <1>4, <2>1, <2>2, <2>3 DEF Supervisor
<1> QED BY <1>1, <1>2, <1>3, <1>4 DEF Next

LEMMA CallbackKept ==
    ASSUME TypeOK, WorkerKnown, CallbackKnown, FreshKnown, Prompt, [Next]_vars
    PROVE  CallbackKnown'
<1> USE DEF CallbackKnown
<1>1. CASE UNCHANGED vars
      BY <1>1 DEF vars, supVars, cbVars
<1>2. CASE Pump
  <2>1. want' = want /\ told' = told
        BY <1>2 DEF Pump, Begin, Load, Store, Stamp, Met, ClearTimer, Promote, Below, Missed,
                    Grace, Fallback, Route, CheckLoss, MeasureLoss, DropCount, Quieten, Regrace,
                    Write, Tick, cbVars
  <2> QED BY <1>2, <2>1, PumpLeaves
<1>3. ASSUME NEW t \in Threads, Callback(t)
      PROVE  CallbackKnown'
  <2>1. PICK l : at' = [at EXCEPT ![t] = l]
        BY <1>3, CallbackLeaves
  <2>2. /\ told' = told
        /\ want' = want \/ \E w : want' = [want EXCEPT ![t] = w]
        BY <1>3 DEF Callback, NoteState, ResetTracking, InitTimer, InitCount, InitLast, ReadView,
                    Judge, ReadAge, ApplyAudio, Decide
  <2>3. /\ at'["failure"] # "off" => at["failure"] # "off"
        /\ \A u \in Threads \ {t} : at'[u] = at[u] /\ want'[u] = want[u]
        /\ at'[t] = l
        BY <1>3, <2>1, <2>2, CallbackLeaves DEF TypeOK, Threads
  <2>4. at'[t] = "judge" => sup = "RUNNING"
    <3>1. CASE ReadView(t)
      <4>1. at[t] = "view"
            BY <3>1 DEF ReadView
      <4>2. Actual(told[t]) = "RUNNING" => sup = "RUNNING"
            BY <4>1 DEF Actual, View
      <4> QED BY <3>1, <4>2 DEF ReadView, Decide, GoTo, TypeOK
    <3>2. CASE ~ReadView(t)
          BY <1>3, <3>2 DEF Callback, NoteState, ResetTracking, InitTimer, InitCount, InitLast,
                            Judge, ReadAge, ApplyAudio, Decide, GoTo, TypeOK
    <3> QED BY <3>1, <3>2
  <2>5. at'[t] = "set" => want'[t] # "PROGRAM"
    <3>1. CASE ReadView(t)
          BY <3>1 DEF ReadView, Decide, GoTo, TypeOK
    <3>2. CASE Judge(t)
      <4>1. sup = "RUNNING" /\ ~Quiescent
            BY <1>3, <3>2, SomeoneBusy DEF Judge
      <4>2. count <= 1
            BY <4>1 DEF FreshKnown
      <4>3. ~(count >= Threshold)
            BY <4>2, AdmissionAssumption DEF Prompt, TypeOK, AdmissionAssumption
      <4> QED BY <3>2, <4>3 DEF Judge, Decide, GoTo, TypeOK
    <3>3. CASE ReadAge(t)
          BY <3>3 DEF ReadAge, Decide, GoTo, TypeOK
    <3>4. CASE ~(ReadView(t) \/ Judge(t) \/ ReadAge(t))
          BY <1>3, <3>4 DEF Callback, NoteState, ResetTracking, InitTimer, InitCount, InitLast,
                            ApplyAudio, GoTo, TypeOK
    <3> QED BY <3>1, <3>2, <3>3, <3>4
  <2> QED BY <1>3, <2>2, <2>3, <2>4, <2>5, CallbackLeaves
<1>4. CASE Supervisor
  <2> USE DEF Notify, WorkerKnown, TypeOK, Threads, cbVars
  <2>1. CASE Boot \/ Spawn \/ ForceBooting \/ CompleteStartup
        BY <2>1 DEF Boot, Spawn, ForceBooting, CompleteStartup
  <2>2. CASE StartReturns \/ FirstFrame \/ Schedule \/ Recover
        BY <2>2 DEF StartReturns, FirstFrame, Schedule, Recover
  <2>3. CASE Fail("RESTARTING") \/ Fail("FAILED")
        BY <2>3 DEF Fail
  <2> QED BY <1>4, <2>1, <2>2, <2>3 DEF Supervisor
<1> QED BY <1>1, <1>2, <1>3, <1>4 DEF Next

LEMMA AudioKept ==
    ASSUME TypeOK, SupervisorKnown, WorkerKnown, TickKnown, CallbackKnown, AudioKnown,
           [Next]_vars
    PROVE  AudioKnown'
<1> USE DEF AudioKnown, View
<1>1. CASE UNCHANGED vars
      BY <1>1 DEF vars, supVars, cbVars
<1>2. CASE Pump
  <2>1. CASE audio' = "PROGRAM" /\ audio # "PROGRAM"
    <3>1. Promote
          BY <1>2, <2>1 DEF Pump, Begin, Load, Store, Stamp, Met, ClearTimer, Below, Missed,
                    Grace, Fallback, Route, CheckLoss, MeasureLoss, DropCount, Quieten, Regrace,
                    Write, Tick, SetAudio
    <3>2. View = "RUNNING" \/ onAir = "lost"
          BY <3>1 DEF TickKnown, Promote, At
    <3> QED BY <1>2, <3>2, PumpLeaves DEF SupervisorKnown
  <2> QED BY <1>2, <2>1, PumpLeaves
<1>3. ASSUME NEW t \in Threads, Callback(t)
      PROVE  AudioKnown'
  <2>1. CASE worker' = "force" /\ at["main"] # "off" /\ at'["main"] = "off"
    <3>1. t = "main" /\ worker = "force" /\ told["main"] = "BOOTING" /\ sup = "BOOTING"
          BY <1>3, <2>1, CallbackLeaves DEF TypeOK, Threads, WorkerKnown
    <3>2. ~ReadAge(t)
          BY <1>3, <2>1, <3>1 DEF ReadAge, Decide, GoTo, TypeOK
    <3>3. ApplyAudio(t)
          BY <1>3, <2>1, <3>1, <3>2
          DEF Callback, NoteState, ResetTracking, InitTimer, InitCount, InitLast, ReadView, Judge,
              Decide, GoTo, TypeOK
    <3>4. audio' # "PROGRAM"
          BY <3>1, <3>3 DEF ApplyAudio, SetAudio, CallbackKnown
    <3> QED BY <3>4
  <2>2. CASE ~(worker' = "force" /\ at["main"] # "off" /\ at'["main"] = "off")
        BY <1>3, <2>2, CallbackLeaves, AudioByCallback
  <2> QED BY <2>1, <2>2
<1>4. CASE Supervisor
  <2> USE DEF Notify, WorkerKnown, TypeOK, Threads, supVars, cbVars
  <2>1. CASE Boot \/ Spawn \/ ForceBooting \/ CompleteStartup
        BY <2>1 DEF Boot, Spawn, ForceBooting, CompleteStartup
  <2>2. CASE StartReturns \/ FirstFrame \/ Schedule \/ Recover
        BY <2>2 DEF StartReturns, FirstFrame, Schedule, Recover
  <2>3. CASE Fail("RESTARTING") \/ Fail("FAILED")
        BY <2>3 DEF Fail
  <2> QED BY <1>4, <2>1, <2>2, <2>3 DEF Supervisor
<1> QED BY <1>1, <1>2, <1>3, <1>4 DEF Next

LEMMA FreshKept ==
    ASSUME TypeOK, SupervisorKnown, CountKnown, WorkerKnown, TickKnown, CallbackKnown,
           AudioKnown, FreshKnown, Prompt, [Next]_vars
    PROVE  FreshKnown'
<1> USE AdmissionAssumption DEF AdmissionAssumption, FreshKnown, Prompt
<1>1. CASE UNCHANGED vars
      BY <1>1 DEF vars, supVars, cbVars, pcmVars, tickVars, Quiescent
<1>2. CASE Pump
  <2>0. UNCHANGED <<sup, at>> /\ Quiescent' = Quiescent
        BY <1>2, PumpLeaves DEF Quiescent
  <2> USE DEF At, Next1, pcmVars, tickVars, logVars
  <2>1. CASE Begin
        BY <2>0, <2>1 DEF Begin
  <2>2. CASE Load \/ Store
        BY <2>0, <2>2 DEF Load, Store, Min2
  <2>3. CASE Stamp \/ Met
        BY <2>0, <2>3 DEF Stamp, Met, Admitted, TypeOK
  <2>4. CASE ClearTimer \/ Promote \/ Below
        BY <2>0, <2>4 DEF ClearTimer, Promote, Below, SetAudio
  <2>5. CASE Missed
        BY <2>0, <2>5 DEF Missed
  <2>6. CASE Grace \/ Fallback \/ Route \/ CheckLoss \/ MeasureLoss
        BY <2>0, <2>6 DEF Grace, Fallback, Route, CheckLoss, MeasureLoss
  <2>7. CASE DropCount \/ Quieten \/ Regrace \/ Write
        BY <2>0, <2>7 DEF DropCount, Quieten, Regrace, Write
  <2>8. CASE Tick
        BY <2>0, <2>8 DEF Tick
  <2> QED BY <1>2, <2>1, <2>2, <2>3, <2>4, <2>5, <2>6, <2>7, <2>8 DEF Pump
<1>3. ASSUME NEW t \in Threads, Callback(t)
      PROVE  FreshKnown'
  <2>1. UNCHANGED <<sup, pc, loaded>> /\ (count' = 0 \/ count' = count) /\ ~Quiescent
        BY <1>3, CallbackLeaves, SomeoneBusy
  <2>2. audio' # "PROGRAM" \/ audio' = audio
        BY <1>3, AudioByCallback
  <2> QED BY <2>1, <2>2
<1>4. CASE FirstFrame
  <2>1. count = 0 /\ audio # "PROGRAM" /\ onAir # "lost"
        BY <1>4 DEF FirstFrame, CountKnown, AudioKnown, SupervisorKnown
  <2>2. pc \in {"idle", "fallback", "route", "write", "push"}
        BY <1>4, <2>1 DEF FirstFrame, TickKnown
  <2> QED BY <1>4, <2>1, <2>2 DEF FirstFrame, Notify, pcmVars, tickVars
<1>5. CASE Supervisor /\ ~FirstFrame
  <2>1. sup' # "RUNNING" \/ UNCHANGED <<sup, at>>
        BY <1>5 DEF Supervisor, Boot, Spawn, ForceBooting, CompleteStartup, StartReturns,
                    Fail, Schedule, Recover, Notify, WorkerKnown, View, supVars, cbVars
  <2>2. UNCHANGED <<audio, count, pc, loaded>>
        BY <1>5 DEF Supervisor, Boot, Spawn, ForceBooting, CompleteStartup, StartReturns,
                    Fail, Schedule, Recover, Notify, pcmVars, tickVars
  <2> QED BY <2>1, <2>2 DEF Quiescent
<1> QED BY <1>1, <1>2, <1>3, <1>4, <1>5 DEF Next

LEMMA WatchKept ==
    ASSUME TypeOK, SupervisorKnown, WorkerKnown, TickKnown, CallbackKnown, AudioKnown,
           FreshKnown, WatchKnown, Prompt, [Next]_vars
    PROVE  WatchKnown'
<1> USE AdmissionAssumption DEF AdmissionAssumption, WatchKnown
<1>1. CASE UNCHANGED vars
      BY <1>1 DEF vars, supVars, pcmVars, tickVars, logVars
<1>2. CASE Pump
  <2>0. UNCHANGED <<sup, retried>> /\ (sup = "RUNNING" => View = "RUNNING")
        BY <1>2, PumpLeaves DEF View
  <2> USE DEF At, Next1, TypeOK, Never, Min2, pcmVars, tickVars, logVars
  <2>1. CASE Begin
        BY <2>0, <2>1 DEF Begin
  <2>2. CASE Load \/ Store
        BY <2>0, <2>2 DEF Load, Store
  <2>3. CASE Stamp
        BY <2>0, <2>3 DEF Stamp, TickKnown, ProgramTick
  <2>4. CASE Met
        BY <2>0, <2>4 DEF Met, Admitted, Prompt
  <2>5. CASE ClearTimer \/ Below
        BY <2>0, <2>5 DEF ClearTimer, Below, SetAudio
  <2>6. CASE Promote
        BY <2>0, <2>6 DEF Promote, TickKnown, ProgramTick
  <2>7. CASE Missed \/ Grace \/ Fallback \/ Route
        BY <2>0, <2>7 DEF Missed, Grace, Fallback, Route
  <2>8. CASE CheckLoss \/ MeasureLoss
        BY <2>0, <2>8 DEF CheckLoss, MeasureLoss, Lost
  <2>9. CASE DropCount \/ Quieten \/ Regrace
        BY <2>0, <2>9 DEF DropCount, Quieten, Regrace, SetAudio
  <2>10. CASE Write
        BY <2>0, <2>10 DEF Write
  <2>11. CASE Tick
        BY <2>0, <2>11 DEF Tick, Older
  <2> QED BY <1>2, <2>1, <2>2, <2>3, <2>4, <2>5, <2>6, <2>7, <2>8, <2>9, <2>10, <2>11 DEF Pump
<1>3. ASSUME NEW t \in Threads, Callback(t), sup = "RUNNING"
      PROVE  WatchKnown'
  <2>1. /\ UNCHANGED <<sup, pc, loaded>> /\ (count' = 0 \/ count' = count) /\ ~Quiescent
        /\ last' = last \/ last' = Never
        BY <1>3, CallbackLeaves, SomeoneBusy
  <2>2. audio' # "PROGRAM"
        BY <1>3, <2>1, AudioByCallback DEF FreshKnown
  <2>3. count <= 1 /\ pc \notin {"clear", "promote", "loss"}
        BY <1>3, <2>1 DEF FreshKnown
  <2> QED BY <2>1, <2>2, <2>3 DEF TypeOK
<1>4. CASE FirstFrame
  <2>1. audio # "PROGRAM" /\ onAir # "lost"
        BY <1>4 DEF FirstFrame, AudioKnown, SupervisorKnown
  <2>2. pc \in {"idle", "fallback", "route", "write", "push"}
        BY <1>4, <2>1 DEF FirstFrame, TickKnown
  <2> QED BY <1>4, <2>1, <2>2 DEF FirstFrame, Notify, pcmVars, tickVars
<1>5. CASE Supervisor /\ ~FirstFrame
  <2>1. sup' # "RUNNING" \/ sup' = sup
        BY <1>5 DEF Supervisor, Boot, Spawn, ForceBooting, CompleteStartup, StartReturns,
                    Fail, Schedule, Recover, supVars
  <2>2. UNCHANGED <<audio, count, last, quiet, pc, loaded>>
        BY <1>5 DEF Supervisor, Boot, Spawn, ForceBooting, CompleteStartup, StartReturns,
                    Fail, Schedule, Recover, Notify, pcmVars, tickVars, logVars
  <2> QED BY <2>1, <2>2
<1>6. ASSUME NEW t \in Threads, Callback(t), sup # "RUNNING"
      PROVE  WatchKnown'
      BY <1>6, CallbackLeaves
<1> QED BY <1>1, <1>2, <1>3, <1>4, <1>5, <1>6 DEF Next

LEMMA FedKept ==
    ASSUME TypeOK, TickKnown, WatchKnown, FlightKnown, EveryTickFed, [Next]_vars
    PROVE  EveryTickFed'
<1> USE DEF EveryTickFed, At
<1>1. CASE UNCHANGED vars
      BY <1>1 DEF vars, tickVars, logVars
<1>2. CASE Pump
  <2> USE DEF Next1, tickVars, logVars
  <2>1. CASE Begin
        BY <1>2, <2>1 DEF Begin, Accepting
  <2>2. CASE Load \/ Store \/ Stamp \/ Met \/ ClearTimer \/ Promote \/ Below
        BY <2>2 DEF Load, Store, Stamp, Met, ClearTimer, Promote, Below
  <2>3. CASE Missed \/ Grace \/ Fallback \/ Route
        BY <2>3 DEF Missed, Grace, Fallback, Route
  <2>4. CASE CheckLoss \/ DropCount \/ Quieten \/ Regrace \/ Tick
        BY <2>4 DEF CheckLoss, DropCount, Quieten, Regrace, Tick, TypeOK
  <2>5. CASE MeasureLoss
    <3>1. onAir = "yes" => sup = "RUNNING"
          BY <2>5 DEF MeasureLoss, TickKnown, View
    <3>2. onAir = "yes" => last # Never
          BY <2>5, <3>1 DEF MeasureLoss, WatchKnown
    <3> QED BY <2>5, <3>2 DEF MeasureLoss, TypeOK
  <2>6. CASE Write
        BY <2>6 DEF Write, Forwarded, TickKnown, TypeOK
  <2> QED BY <1>2, <2>1, <2>2, <2>3, <2>4, <2>5, <2>6 DEF Pump
<1>3. ASSUME NEW t \in Threads, Callback(t)
      PROVE  EveryTickFed'
      BY <1>3, CallbackLeaves
<1>4. CASE Supervisor
  <2>1. UNCHANGED <<pc, sent>> /\ (onAir' = onAir \/ onAir' = "lost")
        BY <1>4 DEF Supervisor, Boot, Spawn, ForceBooting, CompleteStartup, StartReturns,
                    FirstFrame, Fail, Schedule, Recover, Notify, tickVars, logVars
  <2> QED BY <2>1
<1> QED BY <1>1, <1>2, <1>3, <1>4 DEF Next

(* The invariant of prompt callbacks, on top of the one that holds however  *)
(* late they are.                                                           *)
THEOREM PromptInvariance == ASSUME Prompt PROVE Spec => []PromptInv
<1>1. ASSUME Init PROVE PromptInv
  <2>1. at = [t \in Threads |-> "off"]
        BY <1>1 DEF Init
  <2>2. CallbackKnown /\ FreshKnown
        BY <1>1, <2>1 DEF Init, CallbackKnown, FreshKnown, Threads
  <2> QED BY <1>1, <2>2
          DEF PromptInv, Init, WorkerKnown, TickKnown, ProgramTick, AudioKnown, WatchKnown,
              EveryTickFed, View, At
<1>2. IInv /\ PromptInv /\ [Next]_vars => PromptInv'
      BY WorkerKept, TickKept, CallbackKept, AudioKept, FreshKept, WatchKept, FedKept
      DEF IInv, PromptInv
<1> QED BY <1>1, <1>2, Invariance, PTL DEF Spec

(* An encoder that takes frames during a whole tick gets one in it: no      *)
(* callback makes the pump subtract from a timestamp that is gone.          *)
THEOREM Fed == ASSUME Prompt PROVE Spec => []EveryTickFed
<1>1. PromptInv => EveryTickFed
      BY DEF PromptInv
<1> QED BY <1>1, PromptInvariance, PTL

(* PROGRAM is shown only while the loss of the station is looked for, and   *)
(* not past the tick that completes the loss window.                        *)
THEOREM LossNoticed == ASSUME Prompt PROVE Spec => []LossIsNoticed
<1>1. IInv /\ PromptInv => LossIsNoticed
  <2> SUFFICES ASSUME TypeOK, WatchKnown PROVE LossIsNoticed
      BY DEF IInv, PromptInv
  <2>1. View = "RUNNING" => sup = "RUNNING"
        BY DEF View
  <2>2. ProgramIsWatched
        BY <2>1 DEF ProgramIsWatched, WatchKnown, At
  <2>3. LossIsDeclared
        BY <2>1, AdmissionAssumption
        DEF LossIsDeclared, WatchKnown, At, TypeOK, Never, Min2, AdmissionAssumption
  <2> QED BY <2>2, <2>3 DEF LossIsNoticed
<1> QED BY <1>1, Invariance, PromptInvariance, PTL
=============================================================================
