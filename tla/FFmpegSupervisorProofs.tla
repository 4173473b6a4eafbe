---------------------- MODULE FFmpegSupervisorProofs ----------------------
(***************************************************************************)
(* Proofs about FFmpegSupervisor, for any numbers of processes, drain      *)
(* threads, workers and attempts.  TypeCorrect and EncoderUnique hold with *)
(* any set of faults, "late" and "race" included; RestartsAlone without    *)
(* "race"; ReaderUnique where no encoder hangs and no thread is late       *)
(* either; DeadIsTended under Ordinary: encoders that crash, at once or    *)
(* later, and launches that fail.                                          *)
(***************************************************************************)
EXTENDS FFmpegSupervisor, FiniteSetTheorems, TLAPS

Starting == mainPc \in {"idle", "spawn", "drain", "boot", "complete"}

(* Until start() is done the main thread is alone: failures are deferred,   *)
(* so no failure thread, no worker and no recovery thread exists.           *)
StartsAlone ==
    Starting => /\ ~startupComplete /\ \A w \in Workers : wpc[w] = "off"
                /\ fail.deferred = 0 /\ fail.check = 0 /\ fail.enter = 0
                /\ fail.failed = 0 /\ fail.schedule = 0 /\ fail.start = 0
                /\ recovery.sleep = 0 /\ recovery.schedule = 0 /\ recovery.start = 0

(* As long as no two workers have been alive at once, the one alive is the  *)
(* one that _restart_thread refers to.                                      *)
Sole == ~overlapped => \A w \in Workers : wpc[w] # "off" => w = restart

(* Where tests and start come in one piece, a thread that has passed the    *)
(* tests is the only one, and finds no worker when it starts its own.       *)
InTurn ==
    "race" \notin Faults =>
        /\ ~overlapped
        /\ fail.start + recovery.start = 0 \/ fail.start + recovery.start = 1
        /\ fail.start + recovery.start = 1 => \A w \in Workers : wpc[w] = "off"

(* Until stop(), a live encoder is the one held, and none is held where the *)
(* next step launches one.                                                  *)
EncoderHeld ==
    (Starting \/ Serving) /\ ~overlapped =>
        /\ \A p \in Procs : Alive(p) => p = process
        /\ mainPc \in {"idle", "spawn"} => process = None
        /\ \A w \in Workers : wpc[w] \in {"clear", "spawn"} => process = None

IInv == TypeOK /\ StartsAlone /\ Sole /\ InTurn /\ EncoderHeld

(* One count set, and a thread that moves from one place to another. *)
LEMMA FailureCount ==
    ASSUME NEW f \in Failures, NEW n \in Nat
    PROVE  /\ [f EXCEPT !.deferred = n] \in Failures
           /\ [f EXCEPT !.check = n] \in Failures
           /\ [f EXCEPT !.enter = n] \in Failures
           /\ [f EXCEPT !.failed = n] \in Failures
           /\ [f EXCEPT !.schedule = n] \in Failures
           /\ [f EXCEPT !.start = n] \in Failures
BY DEF Failures

LEMMA FailureMoves ==
    ASSUME NEW f \in Failures, NEW m \in Nat, NEW n \in Nat
    PROVE  /\ [f EXCEPT !.deferred = m, !.check = n] \in Failures
           /\ [f EXCEPT !.check = m, !.enter = n] \in Failures
           /\ [f EXCEPT !.enter = m, !.failed = n] \in Failures
           /\ [f EXCEPT !.enter = m, !.schedule = n] \in Failures
           /\ [f EXCEPT !.schedule = m, !.start = n] \in Failures
<1>1. [[f EXCEPT !.deferred = m] EXCEPT !.check = n] \in Failures
      BY FailureCount, Zenon
<1>2. [[f EXCEPT !.check = m] EXCEPT !.enter = n] \in Failures
      BY FailureCount, Zenon
<1>3. [[f EXCEPT !.enter = m] EXCEPT !.failed = n] \in Failures
      BY FailureCount, Zenon
<1>4. [[f EXCEPT !.enter = m] EXCEPT !.schedule = n] \in Failures
      BY FailureCount, Zenon
<1>5. [[f EXCEPT !.schedule = m] EXCEPT !.start = n] \in Failures
      BY FailureCount, Zenon
<1> QED BY <1>1, <1>2, <1>3, <1>4, <1>5

LEMMA RecoveryMoves ==
    ASSUME NEW r \in Recoveries, NEW m \in Nat, NEW n \in Nat
    PROVE  /\ [r EXCEPT !.sleep = m, !.schedule = n] \in Recoveries
           /\ [r EXCEPT !.schedule = m, !.start = n] \in Recoveries
           /\ Sleeps([r EXCEPT !.schedule = m]) \in Recoveries
           /\ Sleeps([r EXCEPT !.start = m]) \in Recoveries
<1>1. ASSUME NEW q \in Recoveries, NEW k \in Nat
      PROVE  /\ [q EXCEPT !.sleep = k] \in Recoveries /\ [q EXCEPT !.schedule = k] \in Recoveries
             /\ [q EXCEPT !.start = k] \in Recoveries
      BY DEF Recoveries
<1>2. [[r EXCEPT !.sleep = m] EXCEPT !.schedule = n] \in Recoveries
      BY <1>1, Zenon
<1>3. [[r EXCEPT !.schedule = m] EXCEPT !.start = n] \in Recoveries
      BY <1>1, Zenon
<1>4. ASSUME NEW q \in Recoveries PROVE Sleeps(q) \in Recoveries
  <2>1. Min2(q.sleep + 1, MaxRecoveries) \in Nat
        BY SupervisorAssumption DEF Min2, Recoveries
  <2> QED BY <1>1, <2>1 DEF Sleeps
<1> QED BY <1>1, <1>2, <1>3, <1>4

(* A report is deferred or counted. *)
LEMMA ReportTypes ==
    ASSUME TypeOK, Report PROVE pending' \in BOOLEAN /\ fail' \in Failures
<1>1. fail' \in Failures
      BY DEF TypeOK, Report, Failures
<1>2. pending' \in BOOLEAN
      BY Zenon DEF TypeOK, Report
<1> QED BY <1>1, <1>2

(* A worker is started in the place of one that has ended. *)
LEMMA WorkerTypes ==
    ASSUME TypeOK, StartWorker
    PROVE  /\ wpc' \in [Workers -> WorkerPcs] /\ restart' \in Workers \cup {None}
           /\ overlapped' \in BOOLEAN
<1>1. overlapped' \in BOOLEAN
      BY Zenon DEF TypeOK, StartWorker
<1>2. wpc' \in [Workers -> WorkerPcs] /\ restart' \in Workers
      BY DEF TypeOK, StartWorker, WorkerPcs
<1> QED BY <1>1, <1>2

(* Every step keeps the types. *)
LEMMA TypeStep ==
    ASSUME TypeOK, [Next]_vars PROVE TypeOK'
<1> USE SupervisorAssumption DEF TypeOK, Alive, procVars, drainVars, flagVars, recVars,
        workerVars
<1>1. CASE HandleDeferred
  <2>1. fail.deferred - 1 \in Nat /\ fail.check + 1 \in Nat
        BY <1>1 DEF HandleDeferred, Failures
  <2>2. /\ [fail EXCEPT !.deferred = @ - 1] \in Failures
        /\ [fail EXCEPT !.deferred = @ - 1, !.check = @ + 1] \in Failures
        BY <2>1, FailureCount, FailureMoves, Zenon
  <2>3. fail' \in Failures
        BY <1>1, <2>2, Zenon DEF HandleDeferred
  <2> QED BY <1>1, <2>3 DEF HandleDeferred
<1>2. CASE HandleFailure
  <2>0. fail.check - 1 \in Nat /\ fail.enter + 1 \in Nat
        BY <1>2 DEF HandleFailure, Failures
  <2>3. /\ [fail EXCEPT !.check = @ - 1] \in Failures
        /\ [fail EXCEPT !.check = @ - 1, !.enter = @ + 1] \in Failures
        BY <2>0, FailureCount, FailureMoves, Zenon
  <2>1. fail' \in Failures
        BY <1>2, <2>3, Zenon DEF HandleFailure
  <2>2. pending' \in BOOLEAN
        BY <1>2, Zenon DEF HandleFailure
  <2> QED BY <1>2, <2>1, <2>2 DEF HandleFailure
<1>3. CASE EnterRestarting
  <2>0. fail.enter - 1 \in Nat /\ fail.failed + 1 \in Nat /\ fail.schedule + 1 \in Nat
        BY <1>3 DEF EnterRestarting, Failures
  <2>1. fail' \in Failures
    <3>1. \/ fail' = [fail EXCEPT !.enter = @ - 1, !.failed = @ + 1]
          \/ fail' = [fail EXCEPT !.enter = @ - 1, !.schedule = @ + 1]
          BY <1>3, Zenon DEF EnterRestarting
    <3>2. /\ [fail EXCEPT !.enter = @ - 1, !.failed = @ + 1] \in Failures
          /\ [fail EXCEPT !.enter = @ - 1, !.schedule = @ + 1] \in Failures
          BY <2>0, FailureMoves, Zenon
    <3> QED BY <3>1, <3>2
  <2>2. recovering' \in BOOLEAN
        BY <1>3 DEF EnterRestarting
  <2>3. state' \in States /\ attempts' \in Nat
        BY <1>3 DEF EnterRestarting, States
  <2> QED BY <1>3, <2>1, <2>2, <2>3 DEF EnterRestarting
<1>4. CASE NotifyFailed
  <2>1. fail' \in Failures
        BY <1>4 DEF NotifyFailed, Failures
  <2>2. recovering' \in BOOLEAN
        BY <1>4, Zenon DEF NotifyFailed, StartRecovery
  <2>3. recovery' \in Recoveries
        BY <1>4 DEF NotifyFailed, StartRecovery, Min2, Recoveries
  <2> QED BY <1>4, <2>1, <2>2, <2>3 DEF NotifyFailed
<1>5. CASE Schedule
  <2>1. fail.schedule - 1 \in Nat /\ fail.start + 1 \in Nat
        BY <1>5 DEF Schedule, Failures
  <2>2. \/ fail' = [fail EXCEPT !.schedule = @ - 1]
        \/ fail' = [fail EXCEPT !.schedule = @ - 1, !.start = @ + 1]
        BY <1>5, Zenon DEF Schedule
  <2>3. /\ [fail EXCEPT !.schedule = @ - 1] \in Failures
        /\ [fail EXCEPT !.schedule = @ - 1, !.start = @ + 1] \in Failures
        BY <2>1, FailureCount, FailureMoves, Zenon
  <2>4. fail' \in Failures
        BY <2>2, <2>3
  <2> QED BY <1>5, <2>4 DEF Schedule
<1>6. CASE StartupTimeout
      BY <1>6 DEF StartupTimeout
<1>7. CASE ReportTimeout
  <2>1. Report
        BY <1>7 DEF ReportTimeout
  <2>2. pending' \in BOOLEAN /\ fail' \in Failures
        BY <1>7, <2>1, ReportTypes
  <2> QED BY <1>7, <2>1, <2>2 DEF ReportTimeout
<1>8. ASSUME NEW w \in Workers, Promote(w) PROVE TypeOK'
      BY <1>8 DEF Promote, Step, WorkerPcs, States
<1>9. ASSUME NEW w \in Workers, Boot(w) PROVE TypeOK'
      BY <1>9 DEF Boot, Step, WorkerPcs, States
<1>10. ASSUME NEW w \in Workers, Reset(w) PROVE TypeOK'
      BY <1>10 DEF Reset, Step, WorkerPcs
<1>11. ASSUME NEW w \in Workers, ClosePipes(w) PROVE TypeOK'
      BY <1>11 DEF ClosePipes, Cancelled, Step, WorkerPcs
<1>12. ASSUME NEW w \in Workers, JoinThreads(w) PROVE TypeOK'
      BY <1>12 DEF JoinThreads, Step, WorkerPcs
<1>13. ASSUME NEW w \in Workers, Kill(w) PROVE TypeOK'
      BY <1>13 DEF Kill, Killed, Step, WorkerPcs
<1>14. ASSUME NEW w \in Workers, ClearEvent(w) PROVE TypeOK'
      BY <1>14 DEF ClearEvent, Step, WorkerPcs
<1>15. ASSUME NEW w \in Workers, Spawn(w) PROVE TypeOK'
      BY <1>15 DEF Spawn, Popen, NoPopen, Unused, Step, WorkerPcs
<1>16. ASSUME NEW w \in Workers, Started(w) PROVE TypeOK'
      BY <1>16 DEF Started, StartDrain, Goto, DrainPcs, Step, WorkerPcs
<1>17. ASSUME NEW w \in Workers, NotStarted(w) PROVE TypeOK'
  <2>1. fail' \in Failures
        BY <1>17 DEF NotStarted, Failures
  <2>2. recovering' \in BOOLEAN
        BY <1>17, Zenon DEF NotStarted
  <2>3. state' \in States /\ wpc' \in [Workers -> WorkerPcs]
        BY <1>17 DEF NotStarted, Step, States, WorkerPcs
  <2> QED BY <1>17, <2>1, <2>2, <2>3 DEF NotStarted, Step
<1>18. ASSUME NEW w \in Workers, Booting(w) PROVE TypeOK'
  <2>1. recovering' \in BOOLEAN
        BY <1>18, Zenon DEF Booting
  <2>2. state' \in States /\ wpc' \in [Workers -> WorkerPcs]
        BY <1>18 DEF Booting, Step, States, WorkerPcs
  <2> QED BY <1>18, <2>1, <2>2 DEF Booting, Step
<1>19. ASSUME NEW w \in Workers, Arm(w) PROVE TypeOK'
      BY <1>19 DEF Arm, Armed, Step, WorkerPcs
<1>20. ASSUME NEW w \in Workers, Forgive(w) PROVE TypeOK'
      BY <1>20 DEF Forgive, Forgiven, Step, WorkerPcs
<1>21. ASSUME NEW w \in Workers, ForceBooting(w) PROVE TypeOK'
  <2>1. recovering' \in BOOLEAN
        BY <1>21, Zenon DEF ForceBooting
  <2>2. state' \in States /\ wpc' \in [Workers -> WorkerPcs]
        BY <1>21 DEF ForceBooting, Step, States, WorkerPcs
  <2> QED BY <1>21, <2>1, <2>2 DEF ForceBooting, Step
<1>22. CASE RecoveryWakes
  <2>0. recovery.sleep - 1 \in Nat /\ recovery.schedule + 1 \in Nat
        BY <1>22 DEF RecoveryWakes, Recoveries
  <2>4. [recovery EXCEPT !.sleep = recovery.sleep - 1] \in Recoveries
        BY <2>0 DEF Recoveries
  <2>1. recovery' \in Recoveries
    <3>1. \/ recovery' = [recovery EXCEPT !.sleep = @ - 1]
          \/ recovery' = [recovery EXCEPT !.sleep = @ - 1, !.schedule = @ + 1]
          BY <1>22, Zenon DEF RecoveryWakes
    <3>2. [recovery EXCEPT !.sleep = @ - 1, !.schedule = @ + 1] \in Recoveries
          BY <2>0, RecoveryMoves, Zenon
    <3> QED BY <2>4, <3>1, <3>2
  <2>2. recovering' \in BOOLEAN
        BY <1>22, Zenon DEF RecoveryWakes
  <2>3. attempts' \in Nat
        BY <1>22 DEF RecoveryWakes
  <2> QED BY <1>22, <2>1, <2>2, <2>3 DEF RecoveryWakes
<1>23. CASE RecoverySchedules
  <2>1. recovery.schedule - 1 \in Nat /\ recovery.start + 1 \in Nat
        BY <1>23 DEF RecoverySchedules, Recoveries
  <2>2. \/ recovery' = Sleeps([recovery EXCEPT !.schedule = @ - 1])
        \/ recovery' = [recovery EXCEPT !.schedule = @ - 1, !.start = @ + 1]
        BY <1>23, Zenon DEF RecoverySchedules
  <2>3. /\ Sleeps([recovery EXCEPT !.schedule = @ - 1]) \in Recoveries
        /\ [recovery EXCEPT !.schedule = @ - 1, !.start = @ + 1] \in Recoveries
        BY <2>1, RecoveryMoves, Zenon
  <2>4. recovery' \in Recoveries
        BY <2>2, <2>3
  <2> QED BY <1>23, <2>4 DEF RecoverySchedules
<1>24. CASE Start
      BY <1>24 DEF Start, MainGoto, MainPcs, States
<1>25. CASE FirstSpawn
      BY <1>25 DEF FirstSpawn, Popen, Unused, MainGoto, MainPcs
<1>26. CASE FirstSpawnFails
  <2>1. recovery' \in Recoveries
        BY <1>26 DEF FirstSpawnFails, StartRecovery, Min2, Recoveries
  <2>2. recovering' \in BOOLEAN
        BY <1>26, Zenon DEF FirstSpawnFails, StartRecovery
  <2>3. state' \in States /\ mainPc' \in MainPcs
        BY <1>26 DEF FirstSpawnFails, MainGoto, States, MainPcs
  <2> QED BY <1>26, <2>1, <2>2, <2>3 DEF FirstSpawnFails
<1>27. CASE FirstDrain
      BY <1>27 DEF FirstDrain, StartDrain, Goto, DrainPcs, MainGoto, MainPcs
<1>28. CASE FirstBoot
      BY <1>28 DEF FirstBoot, MainGoto, MainPcs, States
<1>29. CASE CompleteStartup
  <2>1. fail' \in Failures
        BY <1>29 DEF CompleteStartup, Failures
  <2>2. startupComplete' \in BOOLEAN /\ pending' \in BOOLEAN
        BY <1>29, Zenon DEF CompleteStartup
  <2>3. state' \in States /\ mainPc' \in MainPcs
        BY <1>29 DEF CompleteStartup, MainGoto, States, MainPcs
  <2> QED BY <1>29, <2>1, <2>2, <2>3 DEF CompleteStartup
<1>30. CASE Stop
      BY <1>30 DEF Stop, Cancelled, MainGoto, MainPcs
<1>31. CASE SetStopped
      BY <1>31 DEF SetStopped, MainGoto, MainPcs, States
<1>32. CASE StopPipes
      BY <1>32 DEF StopPipes, MainGoto, MainPcs
<1>33. CASE Terminate
      BY <1>33 DEF Terminate, Killed, MainGoto, MainPcs
<1>34. CASE Forget
      BY <1>34 DEF Forget, MainGoto, MainPcs
<1>35. CASE Finish
      BY <1>35 DEF Finish, MainGoto, MainPcs
<1>36. CASE WritePcm
      BY <1>36 DEF WritePcm
<1>37. ASSUME NEW d \in Drains, DrainTop(d) PROVE TypeOK'
  <2>1. pending' \in BOOLEAN /\ fail' \in Failures
        BY <1>37, ReportTypes DEF DrainTop
  <2>2. View \in States
        BY <1>37 DEF View, States
  <2>3. dpc' \in [Drains -> DrainPcs]
        BY <1>37 DEF DrainTop, Goto, Done, DrainPcs
  <2>4. seen' \in [Drains -> States]
        BY <1>37, <2>2 DEF DrainTop, States
  <2> QED BY <1>37, <2>1, <2>2, <2>3, <2>4 DEF DrainTop
<1>38. ASSUME NEW d \in Drains, DrainOpen(d) PROVE TypeOK'
      BY <1>38 DEF DrainOpen, Goto, DrainPcs
<1>39. ASSUME NEW d \in Drains, DrainFrame(d) PROVE TypeOK'
      BY <1>39 DEF DrainFrame, Returns, Goto, DrainPcs, States
<1>40. ASSUME NEW d \in Drains, DrainEnd(d) PROVE TypeOK'
  <2>1. pending' \in BOOLEAN /\ fail' \in Failures
        BY <1>40, ReportTypes DEF DrainEnd
  <2>2. dpc' \in [Drains -> DrainPcs]
        BY <1>40 DEF DrainEnd, Goto, DrainPcs
  <2>3. /\ reading' \in [Drains -> Procs \cup {None}] /\ seen' \in [Drains -> States]
        BY <1>40 DEF DrainEnd, Returns, States
  <2> QED BY <1>40, <2>1, <2>2, <2>3 DEF DrainEnd
<1>41. ASSUME NEW d \in Drains, Announce(d) PROVE TypeOK'
  <2>1. dpc' \in [Drains -> DrainPcs]
        BY <1>41 DEF Announce, Goto, DrainPcs
  <2>2. recovering' \in BOOLEAN
        BY <1>41, Zenon DEF Announce
  <2>3. state' \in States
        BY <1>41 DEF Announce, States
  <2>4. monitor' \in {"off", "armed", "report"}
        BY <1>41 DEF Announce, Cancelled
  <2> QED BY <1>41, <2>1, <2>2, <2>3, <2>4 DEF Announce
<1>42. ASSUME NEW p \in Procs, ProcessExits(p) PROVE TypeOK'
      BY <1>42 DEF ProcessExits, Becomes
<1>43. ASSUME NEW p \in Procs, ProcessHangs(p) PROVE TypeOK'
      BY <1>43 DEF ProcessHangs, Becomes
<1>44. CASE UNCHANGED vars
      BY <1>44 DEF vars
<1>45. CASE StartRestart
  <2>1. fail.start - 1 \in Nat
        BY <1>45 DEF StartRestart, Failures
  <2>2. fail' \in Failures
        BY <1>45, <2>1, FailureCount DEF StartRestart
  <2>3. StartWorker
        BY <1>45 DEF StartRestart
  <2>4. /\ wpc' \in [Workers -> WorkerPcs] /\ restart' \in Workers \cup {None}
        /\ overlapped' \in BOOLEAN
        BY <2>3, WorkerTypes
  <2> QED BY <1>45, <2>2, <2>4 DEF StartRestart
<1>46. CASE RecoveryStarts
  <2>1. recovery.start - 1 \in Nat
        BY <1>46 DEF RecoveryStarts, Recoveries
  <2>2. recovery' \in Recoveries
        BY <1>46, <2>1, RecoveryMoves, Zenon DEF RecoveryStarts
  <2>3. StartWorker
        BY <1>46 DEF RecoveryStarts
  <2>4. /\ wpc' \in [Workers -> WorkerPcs] /\ restart' \in Workers \cup {None}
        /\ overlapped' \in BOOLEAN
        BY <2>3, WorkerTypes
  <2> QED BY <1>46, <2>2, <2>4 DEF RecoveryStarts
<1> QED
    BY <1>1, <1>2, <1>3, <1>4, <1>5, <1>6, <1>7, <1>8, <1>9, <1>10, <1>11, <1>12,
     <1>13, <1>14, <1>15, <1>16, <1>17, <1>18, <1>19, <1>20, <1>21, <1>22, <1>23,
     <1>24, <1>25, <1>26, <1>27, <1>28, <1>29, <1>30, <1>31, <1>32, <1>33, <1>34,
     <1>35, <1>36, <1>37, <1>38, <1>39, <1>40, <1>41, <1>42, <1>43, <1>44, <1>45, <1>46
  DEF Next, FailureStep, MonitorStep, WorkerStep, RecoveryStep, StartStep,
      StopStep, Drain
(* Nothing else runs until start() has returned. *)
LEMMA AloneStep ==
    ASSUME IInv, [Next]_vars PROVE StartsAlone'
<1>0. /\ fail \in Failures /\ recovery \in Recoveries
      BY DEF IInv, TypeOK
<1> USE SupervisorAssumption DEF IInv, StartsAlone, Starting, procVars, drainVars, flagVars,
        recVars, workerVars
<1>1. CASE HandleDeferred
      BY <1>1 DEF HandleDeferred
<1>2. CASE HandleFailure
      BY <1>2 DEF HandleFailure
<1>3. CASE EnterRestarting
      BY <1>3 DEF EnterRestarting
<1>4. CASE NotifyFailed
      BY <1>4 DEF NotifyFailed
<1>5. CASE Schedule
      BY <1>5 DEF Schedule
<1>6. CASE StartupTimeout
      BY <1>6 DEF StartupTimeout
<1>7. CASE ReportTimeout
      BY <1>7 DEF ReportTimeout, Report
<1>8. ASSUME NEW w \in Workers, Promote(w) PROVE StartsAlone'
      BY <1>8 DEF Promote, Step
<1>9. ASSUME NEW w \in Workers, Boot(w) PROVE StartsAlone'
      BY <1>9 DEF Boot, Step
<1>10. ASSUME NEW w \in Workers, Reset(w) PROVE StartsAlone'
      BY <1>10 DEF Reset, Step
<1>11. ASSUME NEW w \in Workers, ClosePipes(w) PROVE StartsAlone'
      BY <1>11 DEF ClosePipes, Step
<1>12. ASSUME NEW w \in Workers, JoinThreads(w) PROVE StartsAlone'
      BY <1>12 DEF JoinThreads, Step
<1>13. ASSUME NEW w \in Workers, Kill(w) PROVE StartsAlone'
      BY <1>13 DEF Kill, Step, Killed
<1>14. ASSUME NEW w \in Workers, ClearEvent(w) PROVE StartsAlone'
      BY <1>14 DEF ClearEvent, Step
<1>15. ASSUME NEW w \in Workers, Spawn(w) PROVE StartsAlone'
      BY <1>15 DEF Spawn, Step, Popen, NoPopen, Unused
<1>16. ASSUME NEW w \in Workers, Started(w) PROVE StartsAlone'
      BY <1>16 DEF Started, Step
<1>17. ASSUME NEW w \in Workers, NotStarted(w) PROVE StartsAlone'
      BY <1>17 DEF NotStarted, Step
<1>18. ASSUME NEW w \in Workers, Booting(w) PROVE StartsAlone'
      BY <1>18 DEF Booting, Step
<1>19. ASSUME NEW w \in Workers, Arm(w) PROVE StartsAlone'
      BY <1>19 DEF Arm, Step
<1>20. ASSUME NEW w \in Workers, Forgive(w) PROVE StartsAlone'
      BY <1>20 DEF Forgive, Step
<1>21. ASSUME NEW w \in Workers, ForceBooting(w) PROVE StartsAlone'
      BY <1>21 DEF ForceBooting, Step
<1>22. CASE RecoveryWakes
      BY <1>22 DEF RecoveryWakes
<1>23. CASE RecoverySchedules
      BY <1>23 DEF RecoverySchedules
<1>24. CASE Start
      BY <1>24 DEF Start, MainGoto
<1>25. CASE FirstSpawn
      BY <1>25 DEF FirstSpawn, MainGoto, Popen, Unused
<1>26. CASE FirstSpawnFails
      BY <1>26 DEF FirstSpawnFails, MainGoto
<1>27. CASE FirstDrain
      BY <1>27 DEF FirstDrain, MainGoto
<1>28. CASE FirstBoot
      BY <1>28 DEF FirstBoot, MainGoto
<1>29. CASE CompleteStartup
      BY <1>29 DEF CompleteStartup, MainGoto
<1>30. CASE Stop
      BY <1>30 DEF Stop, MainGoto
<1>31. CASE SetStopped
      BY <1>31 DEF SetStopped, MainGoto
<1>32. CASE StopPipes
      BY <1>32 DEF StopPipes, MainGoto
<1>33. CASE Terminate
      BY <1>33 DEF Terminate, MainGoto, Killed
<1>34. CASE Forget
      BY <1>34 DEF Forget, MainGoto
<1>35. CASE Finish
      BY <1>35 DEF Finish, MainGoto
<1>36. CASE WritePcm
      BY <1>36 DEF WritePcm
<1>37. ASSUME NEW d \in Drains, DrainTop(d) PROVE StartsAlone'
      BY <1>37 DEF DrainTop, Report
<1>38. ASSUME NEW d \in Drains, DrainOpen(d) PROVE StartsAlone'
      BY <1>38 DEF DrainOpen
<1>39. ASSUME NEW d \in Drains, DrainFrame(d) PROVE StartsAlone'
      BY <1>39 DEF DrainFrame
<1>40. ASSUME NEW d \in Drains, DrainEnd(d) PROVE StartsAlone'
      BY <1>40 DEF DrainEnd, Report
<1>41. ASSUME NEW d \in Drains, Announce(d) PROVE StartsAlone'
      BY <1>41 DEF Announce
<1>42. ASSUME NEW p \in Procs, ProcessExits(p) PROVE StartsAlone'
      BY <1>42 DEF ProcessExits, Becomes
<1>43. ASSUME NEW p \in Procs, ProcessHangs(p) PROVE StartsAlone'
      BY <1>43 DEF ProcessHangs, Becomes
<1>44. CASE UNCHANGED vars
      BY <1>44 DEF vars
<1>45. CASE StartRestart
      BY <1>45 DEF StartRestart, StartWorker
<1>46. CASE RecoveryStarts
      BY <1>46 DEF RecoveryStarts, StartWorker
<1> QED
    BY <1>1, <1>2, <1>3, <1>4, <1>5, <1>6, <1>7, <1>8, <1>9, <1>10, <1>11, <1>12,
       <1>13, <1>14, <1>15, <1>16, <1>17, <1>18, <1>19, <1>20, <1>21, <1>22,
       <1>23, <1>24, <1>25, <1>26, <1>27, <1>28, <1>29, <1>30, <1>31, <1>32,
       <1>33, <1>34, <1>35, <1>36, <1>37, <1>38, <1>39, <1>40, <1>41, <1>42,
       <1>43, <1>44, <1>45, <1>46
    DEF Next, FailureStep, MonitorStep, WorkerStep, RecoveryStep, StartStep,
        StopStep, Drain

(* Who has passed the tests changes with the tests and the start alone.     *)
LEMMA StartCount ==
    ASSUME TypeOK
    PROVE  /\ HandleDeferred \/ HandleFailure \/ EnterRestarting => fail'.start = fail.start
           /\ RecoveryWakes => recovery'.start = recovery.start
           /\ StartRestart /\ fail.start = 1 => fail'.start = 0
<1>0. fail \in Failures /\ recovery \in Recoveries
      BY DEF TypeOK
<1>1. ASSUME HandleDeferred PROVE fail'.start = fail.start
  <2>1. \/ fail' = [fail EXCEPT !.deferred = @ - 1, !.check = @ + 1]
        \/ fail' = [fail EXCEPT !.deferred = @ - 1]
        BY <1>1 DEF HandleDeferred
  <2>2. /\ [fail EXCEPT !.deferred = @ - 1, !.check = @ + 1].start = fail.start
        /\ [fail EXCEPT !.deferred = @ - 1].start = fail.start
        BY <1>0, SMT DEF Failures, Recoveries
  <2> QED BY <2>1, <2>2, Zenon
<1>2. ASSUME HandleFailure PROVE fail'.start = fail.start
  <2>1. \/ fail' = [fail EXCEPT !.check = @ - 1, !.enter = @ + 1]
        \/ fail' = [fail EXCEPT !.check = @ - 1]
        BY <1>2, Zenon DEF HandleFailure
  <2>2. /\ [fail EXCEPT !.check = @ - 1, !.enter = @ + 1].start = fail.start
        /\ [fail EXCEPT !.check = @ - 1].start = fail.start
        BY <1>0, SMT DEF Failures, Recoveries
  <2> QED BY <2>1, <2>2, Zenon
<1>3. ASSUME EnterRestarting PROVE fail'.start = fail.start
  <2>1. \/ fail' = [fail EXCEPT !.enter = @ - 1, !.failed = @ + 1]
        \/ fail' = [fail EXCEPT !.enter = @ - 1, !.schedule = @ + 1]
        BY <1>3, Zenon DEF EnterRestarting
  <2>2. /\ [fail EXCEPT !.enter = @ - 1, !.failed = @ + 1].start = fail.start
        /\ [fail EXCEPT !.enter = @ - 1, !.schedule = @ + 1].start = fail.start
        BY <1>0, SMT DEF Failures, Recoveries
  <2> QED BY <2>1, <2>2, Zenon
<1>4. ASSUME RecoveryWakes PROVE recovery'.start = recovery.start
  <2>1. \/ recovery' = [recovery EXCEPT !.sleep = @ - 1]
        \/ recovery' = [recovery EXCEPT !.sleep = @ - 1, !.schedule = @ + 1]
        BY <1>4, Zenon DEF RecoveryWakes
  <2>2. /\ [recovery EXCEPT !.sleep = @ - 1].start = recovery.start
        /\ [recovery EXCEPT !.sleep = @ - 1, !.schedule = @ + 1].start = recovery.start
        BY <1>0, SMT DEF Failures, Recoveries
  <2> QED BY <2>1, <2>2, Zenon
<1>5. ASSUME StartRestart, fail.start = 1 PROVE fail'.start = 0
  <2>1. fail' = [fail EXCEPT !.start = fail.start - 1]
        BY <1>5, Zenon DEF StartRestart
  <2>2. fail'.start = fail.start - 1
        BY <1>0, <2>1, SMT DEF Failures
  <2> QED BY <1>5, <2>2
<1> QED BY <1>1, <1>2, <1>3, <1>4, <1>5

(* What every other step does: a worker goes on, or none is concerned.      *)
Elsewhere ==
    /\ fail'.start = fail.start /\ recovery'.start = recovery.start
    /\ \/ UNCHANGED workerVars
       \/ \E w \in Workers : wpc[w] # "off" /\ \E l : Step(w, l)

LEMMA WorkersChange ==
    ASSUME TypeOK, [Next]_vars
    PROVE  StartRestart \/ RecoveryStarts \/ Schedule \/ RecoverySchedules \/ Elsewhere
<1>0. fail \in Failures /\ recovery \in Recoveries
      BY DEF TypeOK
<1>1. ASSUME NEW w \in Workers, WorkerStep(w) PROVE Elsewhere
  <2>1. PICK l : Step(w, l)
        BY <1>1 DEF WorkerStep, Promote, Boot, Reset, ClosePipes, JoinThreads, Kill, ClearEvent,
                    Spawn, Started, NotStarted, Booting, Arm, Forgive, ForceBooting
  <2>2. wpc[w] # "off"
        BY <1>1 DEF WorkerStep, Promote, Boot, Reset, ClosePipes, JoinThreads, Kill, ClearEvent,
                    Spawn, Started, NotStarted, Booting, Arm, Forgive, ForceBooting
  <2>3. fail' = fail \/ fail' = [fail EXCEPT !.check = @ + 1]
        BY <1>1 DEF WorkerStep, Promote, Boot, Reset, ClosePipes, JoinThreads, Kill, ClearEvent,
                    Spawn, Started, NotStarted, Booting, Arm, Forgive, ForceBooting
  <2>4. recovery' = recovery
        BY <1>1 DEF WorkerStep, Promote, Boot, Reset, ClosePipes, JoinThreads, Kill, ClearEvent,
                    Spawn, Started, NotStarted, Booting, Arm, Forgive, ForceBooting, recVars
  <2>5. fail'.start = fail.start
        BY <1>0, <2>3 DEF Failures
  <2> QED BY <2>1, <2>2, <2>4, <2>5 DEF Elsewhere
<1>2. CASE UNCHANGED vars
      BY <1>2 DEF Elsewhere, workerVars, recVars, vars
<1>3. CASE HandleDeferred \/ HandleFailure \/ EnterRestarting
  <2>1. UNCHANGED workerVars /\ recovery' = recovery
        BY <1>3 DEF HandleDeferred, HandleFailure, EnterRestarting, recVars
  <2>2. fail'.start = fail.start
        BY <1>3, StartCount
  <2> QED BY <2>1, <2>2 DEF Elsewhere
<1>4. CASE NotifyFailed
      BY <1>0, <1>4 DEF Elsewhere, NotifyFailed, StartRecovery, Failures, Recoveries
<1>5. CASE MonitorStep
      BY <1>0, <1>5 DEF Elsewhere, MonitorStep, StartupTimeout, ReportTimeout, Report, recVars,
                        Failures
<1>6. CASE RecoveryWakes
  <2>2. recovery'.start = recovery.start
        BY <1>6, StartCount
  <2> QED BY <1>6, <2>2 DEF Elsewhere, RecoveryWakes, workerVars
<1>7. CASE StartStep
  <2>1. UNCHANGED workerVars
        BY <1>7 DEF StartStep, Start, FirstSpawn, FirstSpawnFails, FirstDrain, FirstBoot,
                    CompleteStartup
  <2>2. fail'.start = fail.start
        BY <1>0, <1>7 DEF Failures, StartStep, Start, FirstSpawn, FirstSpawnFails, FirstDrain,
                          FirstBoot, CompleteStartup
  <2>3. recovery'.start = recovery.start
        BY <1>0, <1>7 DEF Recoveries, StartStep, Start, FirstSpawn, FirstSpawnFails, FirstDrain,
                          FirstBoot, CompleteStartup, StartRecovery, recVars
  <2> QED BY <2>1, <2>2, <2>3 DEF Elsewhere
<1>8. CASE Stop \/ StopStep \/ WritePcm
      BY <1>8 DEF Elsewhere, workerVars, recVars, Stop, StopStep, SetStopped, StopPipes,
                  Terminate, Forget, Finish, WritePcm
<1>9. ASSUME NEW d \in Drains, Drain(d) PROVE Elsewhere
      BY <1>0, <1>9 DEF Elsewhere, Drain, DrainTop, DrainOpen, DrainFrame, DrainEnd, Announce,
                        Report, recVars, Failures
<1>10. ASSUME NEW p \in Procs, ProcessExits(p) \/ ProcessHangs(p) PROVE Elsewhere
      BY <1>10 DEF Elsewhere, workerVars, recVars, ProcessExits, ProcessHangs, Becomes
<1> QED
    BY <1>1, <1>2, <1>3, <1>4, <1>5, <1>6, <1>7, <1>8, <1>9, <1>10
    DEF Next, FailureStep, RecoveryStep

(* The worker that is started is the one referred to, and the thread that   *)
(* starts it is the only one that has passed the tests.                     *)
LEMMA WorkersStep ==
    ASSUME IInv, [Next]_vars PROVE Sole' /\ InTurn'
<1> USE SupervisorAssumption DEF IInv, TypeOK, Sole, InTurn, Failures, Recoveries, workerVars,
        recVars
<1>1. CASE StartRestart
  <2>1. Sole'
        BY <1>1 DEF StartRestart, StartWorker
  <2>2. InTurn'
        BY <1>1 DEF StartRestart, StartWorker
  <2> QED BY <2>1, <2>2
<1>2. CASE RecoveryStarts
  <2>1. recovery'.start = recovery.start - 1
        BY <1>2 DEF RecoveryStarts, Sleeps
  <2>2. Sole'
        BY <1>2 DEF RecoveryStarts, StartWorker
  <2>3. InTurn'
        BY <1>2, <2>1 DEF RecoveryStarts, StartWorker
  <2> QED BY <2>2, <2>3
<1>3. CASE Schedule
  <2>1. fail'.start = fail.start \/ (~Refused /\ fail'.start = fail.start + 1)
        BY <1>3 DEF Schedule
  <2> QED BY <1>3, <2>1 DEF Schedule, Refused, Undisturbed
<1>4. CASE RecoverySchedules
  <2>1. \/ recovery' = Sleeps([recovery EXCEPT !.schedule = @ - 1])
        \/ ~Refused /\ recovery' = [recovery EXCEPT !.schedule = @ - 1, !.start = @ + 1]
        BY <1>4, Zenon DEF RecoverySchedules
  <2>2. /\ Sleeps([recovery EXCEPT !.schedule = @ - 1]).start = recovery.start
        /\ [recovery EXCEPT !.schedule = @ - 1, !.start = @ + 1].start = recovery.start + 1
        BY DEF Sleeps
  <2>3. recovery'.start = recovery.start \/ (~Refused /\ recovery'.start = recovery.start + 1)
        BY <2>1, <2>2, Zenon
  <2> QED BY <1>4, <2>3 DEF RecoverySchedules, Refused, Undisturbed
<1>5. CASE Elsewhere
      BY <1>5 DEF Elsewhere, Step
<1> QED BY <1>1, <1>2, <1>3, <1>4, <1>5, WorkersChange

(* A restart and the first launch start from no process. *)
LEMMA EncoderStep ==
    ASSUME IInv, [Next]_vars PROVE EncoderHeld'
<1> USE SupervisorAssumption DEF IInv, TypeOK, StartsAlone, Sole, EncoderHeld, Starting, Serving,
        Alive, procVars, drainVars, flagVars, recVars, workerVars
<1>1. CASE HandleDeferred
      BY <1>1 DEF HandleDeferred
<1>2. CASE HandleFailure
      BY <1>2 DEF HandleFailure
<1>3. CASE EnterRestarting
      BY <1>3 DEF EnterRestarting
<1>4. CASE NotifyFailed
      BY <1>4 DEF NotifyFailed
<1>5. CASE Schedule
      BY <1>5 DEF Schedule
<1>6. CASE StartupTimeout
      BY <1>6 DEF StartupTimeout
<1>7. CASE ReportTimeout
      BY <1>7 DEF ReportTimeout
<1>8. ASSUME NEW w \in Workers, Promote(w) PROVE EncoderHeld'
      BY <1>8 DEF Promote, Step
<1>9. ASSUME NEW w \in Workers, Boot(w) PROVE EncoderHeld'
      BY <1>9 DEF Boot, Step
<1>10. ASSUME NEW w \in Workers, Reset(w) PROVE EncoderHeld'
      BY <1>10 DEF Reset, Step
<1>11. ASSUME NEW w \in Workers, ClosePipes(w) PROVE EncoderHeld'
      BY <1>11 DEF ClosePipes, Step
<1>12. ASSUME NEW w \in Workers, JoinThreads(w) PROVE EncoderHeld'
      BY <1>12 DEF JoinThreads, Step
<1>13. ASSUME NEW w \in Workers, Kill(w) PROVE EncoderHeld'
      BY <1>13 DEF Kill, Step, Killed
<1>14. ASSUME NEW w \in Workers, ClearEvent(w) PROVE EncoderHeld'
      BY <1>14 DEF ClearEvent, Step
<1>15. ASSUME NEW w \in Workers, Spawn(w) PROVE EncoderHeld'
      BY <1>15 DEF Spawn, Step, Popen, NoPopen, Unused
<1>16. ASSUME NEW w \in Workers, Started(w) PROVE EncoderHeld'
      BY <1>16 DEF Started, Step
<1>17. ASSUME NEW w \in Workers, NotStarted(w) PROVE EncoderHeld'
      BY <1>17 DEF NotStarted, Step
<1>18. ASSUME NEW w \in Workers, Booting(w) PROVE EncoderHeld'
      BY <1>18 DEF Booting, Step
<1>19. ASSUME NEW w \in Workers, Arm(w) PROVE EncoderHeld'
      BY <1>19 DEF Arm, Step
<1>20. ASSUME NEW w \in Workers, Forgive(w) PROVE EncoderHeld'
      BY <1>20 DEF Forgive, Step
<1>21. ASSUME NEW w \in Workers, ForceBooting(w) PROVE EncoderHeld'
      BY <1>21 DEF ForceBooting, Step
<1>22. CASE RecoveryWakes
      BY <1>22 DEF RecoveryWakes
<1>23. CASE RecoverySchedules
      BY <1>23 DEF RecoverySchedules
<1>24. CASE Start
      BY <1>24 DEF Start, MainGoto
<1>25. CASE FirstSpawn
      BY <1>25 DEF FirstSpawn, MainGoto, Popen, Unused
<1>26. CASE FirstSpawnFails
      BY <1>26 DEF FirstSpawnFails, MainGoto
<1>27. CASE FirstDrain
      BY <1>27 DEF FirstDrain, MainGoto
<1>28. CASE FirstBoot
      BY <1>28 DEF FirstBoot, MainGoto
<1>29. CASE CompleteStartup
      BY <1>29 DEF CompleteStartup, MainGoto
<1>30. CASE Stop
      BY <1>30 DEF Stop, MainGoto
<1>31. CASE SetStopped
      BY <1>31 DEF SetStopped, MainGoto
<1>32. CASE StopPipes
      BY <1>32 DEF StopPipes, MainGoto
<1>33. CASE Terminate
      BY <1>33 DEF Terminate, MainGoto, Killed
<1>34. CASE Forget
      BY <1>34 DEF Forget, MainGoto
<1>35. CASE Finish
      BY <1>35 DEF Finish, MainGoto
<1>36. CASE WritePcm
      BY <1>36 DEF WritePcm
<1>37. ASSUME NEW d \in Drains, DrainTop(d) PROVE EncoderHeld'
      BY <1>37 DEF DrainTop
<1>38. ASSUME NEW d \in Drains, DrainOpen(d) PROVE EncoderHeld'
      BY <1>38 DEF DrainOpen
<1>39. ASSUME NEW d \in Drains, DrainFrame(d) PROVE EncoderHeld'
      BY <1>39 DEF DrainFrame
<1>40. ASSUME NEW d \in Drains, DrainEnd(d) PROVE EncoderHeld'
      BY <1>40 DEF DrainEnd
<1>41. ASSUME NEW d \in Drains, Announce(d) PROVE EncoderHeld'
      BY <1>41 DEF Announce
<1>42. ASSUME NEW p \in Procs, ProcessExits(p) PROVE EncoderHeld'
      BY <1>42 DEF ProcessExits, Becomes
<1>43. ASSUME NEW p \in Procs, ProcessHangs(p) PROVE EncoderHeld'
      BY <1>43 DEF ProcessHangs, Becomes
<1>44. CASE UNCHANGED vars
      BY <1>44 DEF vars
<1>45. CASE StartRestart
      BY <1>45 DEF StartRestart, StartWorker
<1>46. CASE RecoveryStarts
      BY <1>46 DEF RecoveryStarts, StartWorker
<1> QED
    BY <1>1, <1>2, <1>3, <1>4, <1>5, <1>6, <1>7, <1>8, <1>9, <1>10, <1>11, <1>12,
       <1>13, <1>14, <1>15, <1>16, <1>17, <1>18, <1>19, <1>20, <1>21, <1>22,
       <1>23, <1>24, <1>25, <1>26, <1>27, <1>28, <1>29, <1>30, <1>31, <1>32,
       <1>33, <1>34, <1>35, <1>36, <1>37, <1>38, <1>39, <1>40, <1>41, <1>42,
       <1>43, <1>44, <1>45, <1>46
    DEF Next, FailureStep, MonitorStep, WorkerStep, RecoveryStep, StartStep,
        StopStep, Drain

(* The inductive invariant: the types, a start() that runs alone, workers   *)
(* that come one after the other, and the encoder that is held.             *)
THEOREM Invariance == Spec => []IInv
<1>1. ASSUME Init PROVE IInv
  <2>1. fail \in Failures /\ recovery \in Recoveries
        BY <1>1 DEF Init, Failures, Recoveries
  <2>2. TypeOK
        BY <1>1, <2>1, SupervisorAssumption DEF Init, TypeOK, States, DrainPcs, WorkerPcs, MainPcs
  <2>3. StartsAlone
        BY <1>1 DEF Init, StartsAlone
  <2>4. EncoderHeld
        BY <1>1 DEF Init, EncoderHeld, Starting, Serving, Alive
  <2>5. Sole /\ InTurn
        BY <1>1 DEF Init, Sole, InTurn
  <2> QED BY <2>2, <2>3, <2>4, <2>5 DEF IInv
<1>2. IInv /\ [Next]_vars => IInv'
      BY TypeStep, AloneStep, WorkersStep, EncoderStep DEF IInv
<1> QED BY <1>1, <1>2, PTL DEF Spec

(* Whatever the threads do to each other, every attribute keeps its type:   *)
(* no restart leaves a count, a thread or a process that does not exist.    *)
THEOREM TypeCorrect == Spec => []TypeOK
<1>1. IInv => TypeOK
      BY DEF IInv
<1> QED BY <1>1, Invariance, PTL

(* One live encoder while the Tower serves, for any number of processes,    *)
(* attempts and failures, and even if threads are held up past timers and   *)
(* joins or pass each other in _schedule_restart: an encoder that nobody    *)
(* holds is only ever left behind by two workers at once.                   *)
THEOREM EncoderUnique == Spec => []OneEncoder
<1>1. IInv => OneEncoder
      BY DEF IInv, EncoderHeld, OneEncoder
<1> QED BY <1>1, Invariance, PTL

(* Two workers at once take two threads between the tests and the start of  *)
(* _schedule_restart: where that does not happen there is one encoder, even *)
(* if threads are held up past timers and joins.                            *)
THEOREM RestartsAlone ==
    ASSUME "race" \notin Faults PROVE Spec => [](~overlapped /\ OneEncoderPerTower)
<1>1. IInv => ~overlapped /\ OneEncoderPerTower
      BY DEF IInv, InTurn, EncoderHeld, OneEncoderPerTower
<1> QED BY <1>1, Invariance, PTL

-----------------------------------------------------------------------------
(* One reader *)

(* The worker, where there is one at a time, and whether one is going to be. *)
Pc  == IF restart = None THEN "off" ELSE wpc[restart]
Due == Pc # "off" \/ fail.start > 0 \/ recovery.start > 0

Readers == {d \in Drains : dpc[d] # "off"}

(* The one drain thread is the one that a worker, or stop(), joins.  After  *)
(* stop() no worker begins, and one that waits finds the pipes closed.      *)
ReadersKnown ==
    /\ \A p \in Procs : proc[p] # "hung"
    /\ \A d, e \in Readers : d = e
    /\ mainPc # "done" \/ Due => Readers \subseteq {stdoutThread}
    /\ Pc \in {"kill", "clear", "spawn", "started"} => Readers = {}
    /\ mainPc \in {"idle", "spawn", "drain"} => Readers = {}
    /\ Pc = "join" => pipes = None
    /\ mainPc \in {"close", "terminate", "forget", "join", "done"} => restartDisabled
    /\ mainPc \in {"terminate", "forget", "join"}
         /\ Due /\ Pc \notin {"started", "booting", "arm", "forgive", "force"}
         => pipes = None

(* The worker that takes a step is the one that _restart_thread refers to.  *)
LEMMA WorkerPc ==
    ASSUME TypeOK, Sole, InTurn, "race" \notin Faults, NEW w \in Workers, wpc[w] # "off"
    PROVE  /\ w = restart /\ Pc = wpc[w]
           /\ fail.start = 0 /\ recovery.start = 0
           /\ \A l : Step(w, l) => Pc' = l
BY SupervisorAssumption DEF TypeOK, Sole, InTurn, Pc, Step, Failures, Recoveries

(* No worker is at work where that one is not.                              *)
PcStands ==
    /\ Pc \in WorkerPcs
    /\ (\A w \in Workers : wpc[w] = "off") <=> Pc = "off"
    /\ (\A w \in Workers : wpc[w] \in {"off", "sleep"}) <=> Pc \in {"off", "sleep"}
    /\ (\A w \in Workers : wpc[w] \in {"off", "sleep", "started"})
         <=> Pc \in {"off", "sleep", "started"}
    /\ Refused <=> restartDisabled \/ Pc # "off"
    /\ fail.start > 0 \/ recovery.start > 0 => Pc = "off"

LEMMA AllPcs ==
    ASSUME TypeOK, Sole, InTurn, "race" \notin Faults
    PROVE  PcStands /\ (UNCHANGED workerVars => Pc' = Pc)
<1> USE SupervisorAssumption DEF TypeOK, Sole, InTurn, Pc, Failures, Recoveries
<1>1. Pc \in WorkerPcs
      BY DEF WorkerPcs
<1>2. \A w \in Workers : wpc[w] = "off" \/ wpc[w] = Pc
      OBVIOUS
<1>3. Pc = "off" \/ \E w \in Workers : wpc[w] = Pc
      OBVIOUS
<1>4. Refused <=> restartDisabled \/ Pc # "off"
      BY DEF Refused
<1>5. fail.start > 0 \/ recovery.start > 0 => Pc = "off"
      OBVIOUS
<1>6. UNCHANGED workerVars => Pc' = Pc
      BY DEF workerVars
<1> HIDE DEF Pc, TypeOK, Sole, InTurn, Failures, Recoveries
<1> QED BY <1>1, <1>2, <1>3, <1>4, <1>5, <1>6 DEF PcStands

(* A thread that has passed the tests is the only one, and starts a worker. *)
LEMMA StartsOne ==
    ASSUME TypeOK, Sole, InTurn, "race" \notin Faults, StartRestart \/ RecoveryStarts
    PROVE  /\ Pc = "off" /\ Pc' = "promote"
           /\ fail'.start = 0 /\ recovery'.start = 0
<1> USE SupervisorAssumption DEF TypeOK, Sole, InTurn, Pc, Failures, Recoveries, StartWorker
<1>1. CASE StartRestart
  <2>1. fail.start = 1 /\ recovery.start = 0 /\ \A w \in Workers : wpc[w] = "off"
        BY <1>1 DEF StartRestart
  <2>4. fail'.start = 0 /\ recovery'.start = 0
        BY <1>1, <2>1, StartCount DEF StartRestart, recVars
  <2>3. PICK w \in Workers : restart' = w /\ wpc' = [wpc EXCEPT ![w] = "promote"]
        BY <1>1 DEF StartRestart
  <2> QED BY <2>1, <2>3, <2>4
<1>2. CASE RecoveryStarts
  <2>1. recovery.start = 1 /\ fail.start = 0 /\ \A w \in Workers : wpc[w] = "off"
        BY <1>2 DEF RecoveryStarts
  <2>2. fail'.start = 0 /\ recovery'.start = 0
        BY <1>2, <2>1 DEF RecoveryStarts, Sleeps
  <2>3. PICK w \in Workers : restart' = w /\ wpc' = [wpc EXCEPT ![w] = "promote"]
        BY <1>2 DEF RecoveryStarts
  <2> QED BY <2>1, <2>2, <2>3
<1> QED BY <1>1, <1>2

(* After stop() nobody passes the tests, and no worker begins but of one    *)
(* that has passed them before.                                             *)
LEMMA DueStep ==
    ASSUME TypeOK, Sole, InTurn, "race" \notin Faults, [Next]_vars
    PROVE  /\ Pc # "off" => Due
           /\ Due' => Due \/ ~restartDisabled
           /\ Pc # "off" /\ Due' => Pc' # "off"
<1>0. PcStands /\ (UNCHANGED workerVars => Pc' = Pc)
      BY AllPcs
<1>1. CASE StartRestart \/ RecoveryStarts
      BY <1>1, StartsOne DEF StartRestart, RecoveryStarts, Due
<1>2. CASE Schedule
  <2>1. Refused => fail' = [fail EXCEPT !.schedule = @ - 1]
        BY <1>2 DEF Schedule
  <2>2. fail \in Failures /\ recovery' = recovery /\ Pc' = Pc
        BY <1>0, <1>2 DEF Schedule, TypeOK, recVars
  <2>3. Refused => fail'.start = fail.start
        BY <2>1, <2>2 DEF Failures
  <2> QED BY <1>0, <2>2, <2>3 DEF PcStands, Due
<1>3. CASE RecoverySchedules
  <2>1. Refused => recovery' = Sleeps([recovery EXCEPT !.schedule = @ - 1])
        BY <1>3 DEF RecoverySchedules
  <2>2. recovery \in Recoveries /\ fail' = fail /\ Pc' = Pc
        BY <1>0, <1>3 DEF RecoverySchedules, TypeOK
  <2>3. Refused => recovery'.start = recovery.start
        BY <2>1, <2>2 DEF Recoveries, Sleeps
  <2> QED BY <1>0, <2>2, <2>3 DEF PcStands, Due
<1>4. CASE Elsewhere
  <2>1. CASE UNCHANGED workerVars
        BY <1>0, <1>4, <2>1 DEF Elsewhere, Due
  <2>2. ASSUME NEW w \in Workers, wpc[w] # "off"
        PROVE  Due /\ fail.start = 0 /\ recovery.start = 0
        BY <2>2, WorkerPc DEF Due
  <2> QED BY <1>4, <2>1, <2>2 DEF Elsewhere, Due
<1>5. Pc # "off" => Due
      BY DEF Due
<1> QED BY <1>1, <1>2, <1>3, <1>4, <1>5, WorkersChange

(* A thread that a prompt supervisor can join has ended, unless it waits    *)
(* for a cold encoder whose stdin is open.                                  *)
LEMMA JoinedIsOff ==
    ASSUME ReadersKnown, ThreadsJoined, TypeOK, "late" \notin Faults,
           Readers \subseteq {stdoutThread}, pipes = None
    PROVE  Readers = {}
<1> SUFFICES ASSUME NEW d \in Readers PROVE FALSE
    OBVIOUS
<1>1. d = stdoutThread /\ d \in Drains /\ dpc[d] # "off"
      BY DEF Readers
<1>2. d # None
      BY <1>1, SupervisorAssumption
<1>3. Joinable(d)
      BY <1>1, <1>2 DEF ThreadsJoined
<1>4. dpc[d] = "read" /\ Silent(reading[d])
      BY <1>1, <1>3 DEF Joinable
<1>5. reading[d] \in Procs
      BY <1>1, <1>4 DEF Silent, TypeOK
<1> QED BY <1>4, <1>5, SupervisorAssumption DEF Silent, ReadersKnown

LEMMA ReadersStep ==
    ASSUME TypeOK, Sole, InTurn, StartsAlone, ReadersKnown,
           "hang" \notin Faults, "late" \notin Faults, "race" \notin Faults, [Next]_vars
    PROVE  ReadersKnown'
<1>0. PcStands /\ (UNCHANGED workerVars => Pc' = Pc)
      BY AllPcs
<1>d. (Pc # "off" => Due) /\ (Due' => Due \/ ~restartDisabled)
        /\ (Pc # "off" /\ Due' => Pc' # "off")
      BY DueStep
<1> USE <1>0, <1>d, SupervisorAssumption DEF ReadersKnown, Readers, StartsAlone, Starting, TypeOK,
        procVars, drainVars, flagVars, recVars
<1>1. CASE UNCHANGED vars
      BY <1>1 DEF vars
<1>2. CASE HandleDeferred \/ HandleFailure \/ EnterRestarting \/ NotifyFailed
      BY <1>2 DEF HandleDeferred, HandleFailure, EnterRestarting, NotifyFailed
<1>3. CASE MonitorStep \/ RecoveryWakes
      BY <1>3 DEF MonitorStep, StartupTimeout, ReportTimeout, RecoveryWakes
<1>4. CASE Schedule \/ RecoverySchedules
      BY <1>4 DEF Schedule, RecoverySchedules
<1>22. CASE StartRestart \/ RecoveryStarts
      BY <1>22, StartsOne DEF StartRestart, RecoveryStarts
<1>5. ASSUME NEW w \in Workers, Promote(w) \/ Boot(w) \/ Reset(w)
      PROVE  ReadersKnown'
      BY <1>5, WorkerPc DEF Promote, Boot, Reset
<1>6. ASSUME NEW w \in Workers, ClosePipes(w)
      PROVE  ReadersKnown'
      BY <1>6, WorkerPc DEF ClosePipes
<1>7. ASSUME NEW w \in Workers, JoinThreads(w)
      PROVE  ReadersKnown'
  <2>1. Pc = "join" /\ ThreadsJoined /\ pipes = None /\ Readers \subseteq {stdoutThread}
        BY <1>7, WorkerPc DEF JoinThreads
  <2>2. Readers = {}
        BY <2>1, JoinedIsOff
  <2> QED BY <1>7, <2>2, WorkerPc DEF JoinThreads
<1>8. ASSUME NEW w \in Workers, Kill(w)
      PROVE  ReadersKnown'
      BY <1>8, WorkerPc DEF Kill, Killed
<1>9. ASSUME NEW w \in Workers, ClearEvent(w)
      PROVE  ReadersKnown'
      BY <1>9, WorkerPc DEF ClearEvent
<1>10. ASSUME NEW w \in Workers, Spawn(w)
       PROVE  ReadersKnown'
      BY <1>10, WorkerPc DEF Spawn, Popen, NoPopen, Unused
<1>11. ASSUME NEW w \in Workers, Started(w)
       PROVE  ReadersKnown'
  <2>1. PICK d \in Drains : dpc' = [dpc EXCEPT ![d] = "top"] /\ stdoutThread' = d
        BY <1>11, WorkerPc DEF Started, StartDrain, Goto
  <2>2. Readers = {}
        BY <1>11, WorkerPc DEF Started
  <2>3. Readers' = {d}
        BY <2>1, <2>2
  <2> QED BY <1>11, <2>1, <2>3, WorkerPc DEF Started
<1>12. ASSUME NEW w \in Workers, NotStarted(w) \/ Booting(w)
       PROVE  ReadersKnown'
      BY <1>12, WorkerPc DEF NotStarted, Booting
<1>23. ASSUME NEW w \in Workers, Arm(w) \/ Forgive(w) \/ ForceBooting(w)
       PROVE  ReadersKnown'
      BY <1>23, WorkerPc DEF Arm, Forgive, ForceBooting
<1>13. CASE Start \/ FirstBoot \/ CompleteStartup \/ FirstSpawnFails
      BY <1>13 DEF Start, FirstBoot, CompleteStartup, FirstSpawnFails, MainGoto
<1>14. CASE FirstSpawn
      BY <1>14 DEF FirstSpawn, Popen, Unused, MainGoto, PcStands
<1>15. CASE FirstDrain
  <2>1. PICK d \in Drains : dpc' = [dpc EXCEPT ![d] = "top"] /\ stdoutThread' = d
        BY <1>15 DEF FirstDrain, StartDrain, Goto
  <2>2. Readers = {}
        BY <1>15 DEF FirstDrain
  <2>3. Readers' = {d}
        BY <2>1, <2>2
  <2> QED BY <1>15, <2>1, <2>3 DEF FirstDrain, MainGoto, PcStands
<1>16. CASE Stop \/ SetStopped \/ StopPipes \/ Forget
      BY <1>16 DEF Stop, SetStopped, StopPipes, Forget, MainGoto
<1>17. CASE Terminate
      BY <1>17 DEF Terminate, Killed, MainGoto
<1>18. CASE Finish
  <2>1. ThreadsJoined /\ mainPc = "join" /\ Pc \in {"off", "sleep"}
        BY <1>18 DEF Finish, Pc
  <2>2. Due => Readers = {}
    <3> HAVE Due
    <3>1. pipes = None /\ Readers \subseteq {stdoutThread}
          BY <2>1
    <3> QED BY <2>1, <3>1, JoinedIsOff
  <2> QED BY <1>18, <2>1, <2>2 DEF Finish, MainGoto
<1>19. CASE WritePcm
      BY <1>19 DEF WritePcm
<1>20. ASSUME NEW d \in Drains, Drain(d)
       PROVE  ReadersKnown'
  <2>1. Readers' \subseteq Readers
        BY <1>20 DEF Drain, DrainTop, DrainOpen, DrainFrame, DrainEnd, Announce, Goto, Done
  <2>2. UNCHANGED <<proc, stdoutThread, workerVars, mainPc, pipes, restartDisabled>>
        BY <1>20 DEF Drain, DrainTop, DrainOpen, DrainFrame, DrainEnd, Announce
  <2> HIDE DEF Readers
  <2> QED BY <2>1, <2>2
<1>21. ASSUME NEW p \in Procs, ProcessExits(p) \/ ProcessHangs(p)
       PROVE  ReadersKnown'
      BY <1>21 DEF ProcessExits, ProcessHangs, Becomes
<1> QED
    BY <1>1, <1>2, <1>3, <1>4, <1>5, <1>6, <1>7, <1>8, <1>9, <1>10, <1>11, <1>12, <1>13, <1>14,
       <1>15, <1>16, <1>17, <1>18, <1>19, <1>20, <1>21, <1>22, <1>23
    DEF Next, FailureStep, WorkerStep, RecoveryStep, StartStep, StopStep

(* Unless an encoder hangs, a thread is late or two ask for a restart at     *)
(* once, never do two drain threads take frames from the encoder: a worker  *)
(* starts one when the last is over.                                        *)
THEOREM ReaderUnique ==
    ASSUME "hang" \notin Faults, "late" \notin Faults, "race" \notin Faults
    PROVE  Spec => []OneReader
<1>1. ASSUME Init PROVE ReadersKnown
      BY <1>1 DEF Init, ReadersKnown, Readers
<1>2. IInv /\ ReadersKnown /\ [Next]_vars => ReadersKnown'
      BY ReadersStep DEF IInv
<1>3. ReadersKnown => OneReader
  <2> SUFFICES ASSUME ReadersKnown PROVE Cardinality(Readers) <= 1
      BY DEF OneReader, Readers
  <2>1. CASE Readers = {}
        BY <2>1, FS_EmptySet
  <2>2. CASE Readers # {}
    <3>1. PICK d : Readers = {d}
          BY <2>2 DEF ReadersKnown
    <3> QED BY <3>1, FS_Singleton
  <2> QED BY <2>1, <2>2
<1> QED BY <1>1, <1>2, <1>3, Invariance, PTL DEF Spec

-----------------------------------------------------------------------------
(* Somebody acts on a dead encoder *)

(* Encoders that crash, do not start or cannot be spawned, and no thread    *)
(* that a timer overtakes.                                                  *)
Ordinary == Faults \subseteq {"crash", "nostart", "spawn"} /\ MaxRecoveries > 0

(* During start() nothing is fed, and only a dead encoder is reported.      *)
LaunchKnown ==
    Starting =>
        /\ attempts = 0 /\ ~first /\ ~shutdown /\ ~restartDisabled
        /\ \A p \in Procs : proc[p] # "fed"
        /\ \A d \in Drains : dpc[d] # "announce"
        /\ \A d \in Drains : dpc[d] = "read" => reading[d] = process
        /\ IF mainPc = "complete" THEN monitor = "armed" ELSE monitor = "off"
        /\ pipes = process /\ (mainPc \in {"drain", "boot", "complete"} => process # None)
        /\ pending => Gone /\ mainPc \notin {"idle", "spawn"}

(* The supervisor holds the pipes of its process, and the drain reads them, *)
(* but for the time in which the worker has closed them.                    *)
PipesKnown ==
    Serving =>
        /\ startupComplete /\ ~restartDisabled
        /\ shutdown => Pc \in {"join", "kill", "clear"}
        /\ state \in {"BOOTING", "RUNNING", "RESTARTING", "FAILED"}
        /\ pipes = IF Pc \in {"join", "kill", "clear", "spawn"} THEN None ELSE process
        /\ \A d \in Drains :
             dpc[d] = "read" => reading[d] = process \/ (reading[d] = None /\ Pc = "join")

(* Where the worker still has the encoder it is there to replace. *)
Replacing == Pc \in {"promote", "boot", "reset", "sleep", "join", "kill", "clear", "spawn"}

(* Only a dead encoder is reported, restarted or given up.                  *)
TroubleKnown ==
    Serving =>
        /\ \/ InFlight > 0 \/ monitor = "report" \/ Replacing
           \/ recovery.schedule > 0 \/ recovery.start > 0
           => Gone
        /\ Pc = "off" /\ ~Gone => state \in {"BOOTING", "RUNNING"}
        /\ Pc \in {"off", "force"} /\ ~Gone => attempts = 0

(* The first frame is that of the encoder held: the flag is reset before a  *)
(* restart, and no frame of the old encoder sets it again.                  *)
FirstKnown ==
    Serving =>
        /\ Pc \in {"sleep", "join", "kill", "clear", "spawn", "started"} => ~first
        /\ Pc \in {"booting", "arm", "forgive", "force"} /\ first
             => process # None /\ proc[process] = "fed" /\ \E d \in Drains : dpc[d] # "off"
        /\ Pc \in {"forgive", "force"} /\ ~first => monitor = "armed"
        /\ \A d \in Drains : dpc[d] = "announce" => first \/ Pc = "sleep"
        /\ fail.deferred > 0
             => ~first /\ state # "RUNNING" /\ \A d \in Drains : dpc[d] # "announce"

(* Who watches, when no worker runs and no failure is on its way.           *)
WatchKnown ==
    Serving /\ Pc = "off" =>
        /\ state \in {"BOOTING", "RUNNING"}
             /\ fail.deferred = 0 /\ fail.check = 0 /\ fail.enter = 0
             => IF first THEN \E d \in Drains : dpc[d] # "off" ELSE monitor # "off"
        /\ state = "RESTARTING" => fail.schedule > 0 \/ fail.start > 0
        /\ state = "FAILED" => fail.failed > 0 \/ recovering

RecoveryKnown == recovering => recovery.sleep + recovery.schedule + recovery.start > 0

(* A report adds a failure, or defers it while start() runs.                *)
LEMMA ReportCounts ==
    ASSUME TypeOK, Report
    PROVE  /\ Starting /\ StartsAlone => pending' /\ fail' = fail
           /\ Serving /\ PipesKnown => pending' = pending /\ fail' = [fail EXCEPT !.check = @ + 1]
           /\ fail'.deferred = fail.deferred /\ fail'.enter = fail.enter
           /\ fail'.failed = fail.failed /\ fail'.schedule = fail.schedule
           /\ fail'.start = fail.start
           /\ fail'.check \in {fail.check, fail.check + 1}
BY DEF TypeOK, Failures, Report, Starting, StartsAlone, Serving, PipesKnown

LEMMA LaunchStep ==
    ASSUME TypeOK, Sole, InTurn, StartsAlone, ReadersKnown, LaunchKnown, Ordinary, [Next]_vars
    PROVE  LaunchKnown'
<1>0. PcStands /\ (UNCHANGED workerVars => Pc' = Pc)
      BY AllPcs DEF Ordinary
<1> USE <1>0, SupervisorAssumption DEF LaunchKnown, StartsAlone, Starting, TypeOK, Ordinary,
        Ended, Gone, Alive, procVars, drainVars, flagVars, recVars
<1>1. CASE UNCHANGED vars
      BY <1>1 DEF vars
<1>2. CASE FailureStep \/ RecoveryStep
      BY <1>2 DEF FailureStep, RecoveryStep, HandleDeferred, HandleFailure, EnterRestarting,
                  NotifyFailed, Schedule, StartRestart, RecoveryWakes, RecoverySchedules,
                  RecoveryStarts
<1>3. ASSUME NEW w \in Workers, WorkerStep(w)
      PROVE  LaunchKnown'
      BY <1>3, WorkerPc DEF WorkerStep, Promote, Boot, Reset, ClosePipes, JoinThreads, Kill,
                  ClearEvent, Spawn, Started, NotStarted, Booting, Arm, Forgive, ForceBooting
<1>4. CASE StartupTimeout
      BY <1>4 DEF StartupTimeout, Overdue, Settled
<1>5. CASE ReportTimeout
      BY <1>5 DEF ReportTimeout
<1>6. CASE Start
      BY <1>6 DEF Start, MainGoto
<1>7. CASE FirstSpawn
  <2>1. PICK p \in Procs : proc' = [proc EXCEPT ![p] = "cold"] /\ process' = p /\ pipes' = p
        BY <1>7 DEF FirstSpawn, Popen, Unused
  <2>2. ~pending /\ pending' = pending
        BY <1>7 DEF FirstSpawn
  <2>3. UNCHANGED <<attempts, first, shutdown, restartDisabled, dpc, reading, monitor>>
        BY <1>7 DEF FirstSpawn
  <2>4. \A d \in Drains : dpc[d] # "read"
        BY <1>7 DEF FirstSpawn, ReadersKnown, Readers
  <2>5. mainPc = "spawn" /\ mainPc' = "drain"
        BY <1>7 DEF FirstSpawn, MainGoto
  <2> QED BY <2>1, <2>2, <2>3, <2>4, <2>5
<1>8. CASE FirstSpawnFails
      BY <1>8 DEF FirstSpawnFails, MainGoto
<1>9. CASE FirstDrain
      BY <1>9 DEF FirstDrain, StartDrain, Goto, MainGoto
<1>10. CASE FirstBoot
      BY <1>10 DEF FirstBoot, MainGoto
<1>11. CASE CompleteStartup
      BY <1>11 DEF CompleteStartup, MainGoto
<1>12. CASE Stop \/ StopStep
      BY <1>12 DEF Stop, StopStep, SetStopped, StopPipes, Terminate, Forget, Finish, MainGoto
<1>13. CASE WritePcm
      BY <1>13 DEF WritePcm
<1>14. ASSUME NEW d \in Drains, DrainTop(d)
       PROVE  LaunchKnown'
  <2> SUFFICES ASSUME Starting PROVE LaunchKnown'
      BY <1>14 DEF DrainTop
  <2>1. /\ dpc' \in [Drains -> DrainPcs]
        /\ \A e \in Drains : dpc'[e] \notin {"announce", "read"} \/ dpc'[e] = dpc[e]
        BY <1>14 DEF DrainTop, Goto, Done, DrainPcs
  <2>2. pending' => pending \/ (process # None /\ proc[process] = "dead" /\ dpc[d] = "top")
        BY <1>14 DEF DrainTop
  <2>3. dpc[d] = "top" => mainPc \notin {"idle", "spawn"}
        BY DEF ReadersKnown, Readers
  <2>4. UNCHANGED <<state, attempts, first, restartDisabled, shutdown, procVars, reading, monitor,
                    mainPc>>
        BY <1>14 DEF DrainTop
  <2> QED BY <2>1, <2>2, <2>3, <2>4
<1>15. ASSUME NEW d \in Drains, DrainOpen(d) \/ DrainFrame(d) \/ Announce(d)
       PROVE  LaunchKnown'
      BY <1>15 DEF DrainOpen, DrainFrame, Announce, Goto
<1>16. ASSUME NEW d \in Drains, DrainEnd(d)
       PROVE  LaunchKnown'
  <2> SUFFICES ASSUME Starting PROVE LaunchKnown'
      BY <1>16 DEF DrainEnd
  <2>1. /\ dpc' \in [Drains -> DrainPcs]
        /\ \A e \in Drains : dpc'[e] \notin {"announce", "read"} \/ dpc'[e] = dpc[e]
        /\ \A e \in Drains : dpc'[e] = "read" => reading'[e] = reading[e]
        BY <1>16 DEF DrainEnd, Returns, Goto, DrainPcs
  <2>2. pending' => pending \/ (Gone /\ dpc[d] = "read")
        BY <1>16 DEF DrainEnd
  <2>3. dpc[d] = "read" => mainPc \notin {"idle", "spawn"}
        BY DEF ReadersKnown, Readers
  <2>4. UNCHANGED <<state, attempts, first, restartDisabled, shutdown, procVars, monitor,
                    mainPc>>
        BY <1>16 DEF DrainEnd
  <2> QED BY <2>1, <2>2, <2>3, <2>4
<1>17. ASSUME NEW p \in Procs, ProcessExits(p) \/ ProcessHangs(p)
       PROVE  LaunchKnown'
      BY <1>17 DEF ProcessExits, ProcessHangs, Becomes
<1> QED
    BY <1>1, <1>2, <1>3, <1>4, <1>5, <1>6, <1>7, <1>8, <1>9, <1>10, <1>11, <1>12, <1>13, <1>14,
       <1>15, <1>16, <1>17
    DEF Next, MonitorStep, StartStep, Drain

LEMMA PipesStep ==
    ASSUME TypeOK, Sole, InTurn, StartsAlone, ReadersKnown, LaunchKnown, PipesKnown,
           Ordinary, [Next]_vars
    PROVE  PipesKnown'
<1>0. PcStands /\ (UNCHANGED workerVars => Pc' = Pc)
      BY AllPcs DEF Ordinary
<1> USE <1>0, SupervisorAssumption DEF PipesKnown, Serving, TypeOK, Ordinary,
        procVars, drainVars, flagVars, recVars
<1>1. CASE UNCHANGED vars
      BY <1>1 DEF vars
<1>2. CASE HandleDeferred \/ HandleFailure \/ EnterRestarting \/ NotifyFailed \/ Schedule
      BY <1>2 DEF HandleDeferred, HandleFailure, EnterRestarting, NotifyFailed, Schedule
<1>14. CASE RecoveryWakes \/ RecoverySchedules
      BY <1>14 DEF RecoveryWakes, RecoverySchedules
<1>15. CASE StartRestart \/ RecoveryStarts
      BY <1>15, StartsOne DEF StartRestart, RecoveryStarts
<1>3. ASSUME NEW w \in Workers, Promote(w) \/ Boot(w) \/ Reset(w) \/ ClosePipes(w)
      PROVE  PipesKnown'
      BY <1>3, WorkerPc DEF Promote, Boot, Reset, ClosePipes
<1>4. ASSUME NEW w \in Workers, JoinThreads(w)
      PROVE  PipesKnown'
  <2>1. Pc = "join" /\ ThreadsJoined /\ pipes = None /\ Readers \subseteq {stdoutThread}
        BY <1>4, WorkerPc DEF JoinThreads, ReadersKnown, Due
  <2>2. Readers = {}
        BY <2>1, JoinedIsOff
  <2> QED BY <1>4, <2>2, WorkerPc DEF JoinThreads, Readers
<1>5. ASSUME NEW w \in Workers, Kill(w) \/ ClearEvent(w) \/ Spawn(w) \/ Started(w)
             \/ NotStarted(w)
      PROVE  PipesKnown'
      BY <1>5, WorkerPc DEF Kill, ClearEvent, Spawn, Popen, NoPopen, Started, StartDrain, Goto,
                  NotStarted, Step, ReadersKnown, Readers
<1>6. ASSUME NEW w \in Workers, Booting(w) \/ Arm(w) \/ Forgive(w) \/ ForceBooting(w)
      PROVE  PipesKnown'
      BY <1>6, WorkerPc DEF Booting, Arm, Forgive, ForceBooting
<1>7. CASE Start \/ FirstSpawn \/ FirstSpawnFails \/ FirstDrain \/ FirstBoot
      BY <1>7 DEF Start, FirstSpawn, FirstSpawnFails, FirstDrain, FirstBoot, MainGoto
<1>8. CASE CompleteStartup
      BY <1>8 DEF CompleteStartup, MainGoto, LaunchKnown, StartsAlone, Starting, PcStands
<1>9. CASE Stop \/ StopStep
      BY <1>9 DEF Stop, StopStep, SetStopped, StopPipes, Terminate, Forget, Finish, MainGoto
<1>10. CASE MonitorStep \/ WritePcm
      BY <1>10 DEF MonitorStep, StartupTimeout, ReportTimeout, WritePcm
<1>11. ASSUME NEW d \in Drains, DrainTop(d) \/ Announce(d)
       PROVE  PipesKnown'
      BY <1>11 DEF DrainTop, Announce, Goto, Done
<1>16. ASSUME NEW d \in Drains, DrainFrame(d) \/ DrainEnd(d)
       PROVE  PipesKnown'
      BY <1>16 DEF DrainFrame, DrainEnd, Goto, Returns
<1>12. ASSUME NEW d \in Drains, DrainOpen(d)
       PROVE  PipesKnown'
      BY <1>12 DEF DrainOpen, Goto, ReadersKnown, Readers
<1>13. ASSUME NEW p \in Procs, ProcessExits(p) \/ ProcessHangs(p)
       PROVE  PipesKnown'
      BY <1>13 DEF ProcessExits, ProcessHangs, Becomes
<1> QED
    BY <1>1, <1>2, <1>3, <1>4, <1>5, <1>6, <1>7, <1>8, <1>9, <1>10, <1>11, <1>12, <1>13, <1>14,
       <1>15, <1>16
    DEF Next, FailureStep, RecoveryStep, WorkerStep, StartStep, Drain

LEMMA TroubleStep ==
    ASSUME TypeOK, Sole, InTurn, StartsAlone, ReadersKnown, LaunchKnown, PipesKnown,
           TroubleKnown, Ordinary, [Next]_vars
    PROVE  TroubleKnown'
<1>0. PcStands /\ (UNCHANGED workerVars => Pc' = Pc)
      BY AllPcs DEF Ordinary
<1> USE <1>0, SupervisorAssumption DEF TroubleKnown, Serving, TypeOK, Ordinary, Replacing, Gone,
        Ended, Alive, InFlight, Failures, Recoveries, procVars, drainVars, flagVars, recVars
<1>1. CASE UNCHANGED vars
      BY <1>1 DEF vars
<1>2. CASE HandleDeferred \/ HandleFailure
      BY <1>2 DEF HandleDeferred, HandleFailure
<1>3. CASE EnterRestarting
      BY <1>3 DEF EnterRestarting
<1>4. CASE NotifyFailed
      BY <1>4 DEF NotifyFailed, StartRecovery
<1>5. CASE Schedule
      BY <1>5 DEF Schedule
<1>23. CASE StartRestart \/ RecoveryStarts
      BY <1>23, StartsOne DEF StartRestart, RecoveryStarts
<1>6. CASE StartupTimeout
  <2> SUFFICES ASSUME Serving PROVE TroubleKnown'
      BY <1>6 DEF StartupTimeout
  <2>1. Pc \in {"off", "sleep"} /\ InFlight = 0 /\ ~(Healthy /\ PcmAccepted)
        BY <1>6 DEF StartupTimeout, Overdue, WorkerPrompt, Settled, PcStands
  <2>2. Gone
    <3> SUFFICES ASSUME ~Gone PROVE FALSE
        OBVIOUS
    <3>1. Healthy
          BY DEF Healthy, ReadersKnown
    <3>2. Pc = "off" /\ state \in {"BOOTING", "RUNNING"} /\ attempts = 0
          BY <2>1
    <3> QED BY <2>1, <3>1, <3>2 DEF PcmAccepted, View
  <2> QED BY <1>6, <2>2 DEF StartupTimeout
<1>7. CASE ReportTimeout
  <2> SUFFICES ASSUME Serving PROVE TroubleKnown'
      BY <1>7 DEF ReportTimeout
  <2>1. Gone
        BY <1>7 DEF ReportTimeout
  <2> QED BY <1>7, <2>1 DEF ReportTimeout
<1>8. ASSUME NEW w \in Workers, Promote(w) \/ Boot(w) \/ Reset(w) \/ ClosePipes(w)
             \/ JoinThreads(w)
      PROVE  TroubleKnown'
      BY <1>8, WorkerPc DEF Promote, Boot, Reset, ClosePipes, JoinThreads, Cancelled
<1>9. ASSUME NEW w \in Workers, Kill(w) \/ ClearEvent(w)
      PROVE  TroubleKnown'
      BY <1>9, WorkerPc DEF Kill, ClearEvent
<1>10. ASSUME NEW w \in Workers, Spawn(w)
       PROVE  TroubleKnown'
      BY <1>10, WorkerPc DEF Spawn, Settled
<1>11. ASSUME NEW w \in Workers, Started(w) \/ Booting(w) \/ Arm(w) \/ Forgive(w)
       PROVE  TroubleKnown'
      BY <1>11, WorkerPc DEF Started, Booting, Arm, Armed, Forgive, Forgiven
<1>12. ASSUME NEW w \in Workers, NotStarted(w)
       PROVE  TroubleKnown'
      BY <1>12, WorkerPc DEF NotStarted, PipesKnown
<1>13. ASSUME NEW w \in Workers, ForceBooting(w)
       PROVE  TroubleKnown'
      BY <1>13, WorkerPc DEF ForceBooting, PipesKnown
<1>14. CASE RecoveryWakes
      BY <1>14 DEF RecoveryWakes, PcStands
<1>15. CASE RecoverySchedules
      BY <1>15 DEF RecoverySchedules, Sleeps
<1>16. CASE CompleteStartup
  <2>1. InFlight = 0 /\ recovery.schedule = 0 /\ recovery.start = 0 /\ Pc = "off" /\ attempts = 0
        /\ monitor = "armed" /\ (pending => Gone)
        BY <1>16 DEF CompleteStartup, LaunchKnown, StartsAlone, Starting, PcStands
  <2>2. fail' # fail => pending
        BY <1>16 DEF CompleteStartup
  <2> QED BY <1>16, <2>1, <2>2 DEF CompleteStartup, MainGoto
<1>17. CASE Start \/ FirstSpawn \/ FirstSpawnFails \/ FirstDrain \/ FirstBoot
      BY <1>17 DEF Start, FirstSpawn, FirstSpawnFails, FirstDrain, FirstBoot, MainGoto
<1>18. CASE Stop \/ StopStep
      BY <1>18 DEF Stop, StopStep, SetStopped, StopPipes, Terminate, Forget, Finish, MainGoto
<1>19. CASE WritePcm
      BY <1>19 DEF WritePcm
<1>20. ASSUME NEW d \in Drains, DrainTop(d) \/ DrainEnd(d)
       PROVE  TroubleKnown'
  <2> SUFFICES ASSUME Serving PROVE TroubleKnown'
      BY <1>20 DEF DrainTop, DrainEnd
  <2>1. Gone \/ fail' = fail
        BY <1>20 DEF DrainTop, DrainEnd, PipesKnown
  <2>2. UNCHANGED <<state, attempts, process, proc, monitor, recovery, workerVars>>
        BY <1>20 DEF DrainTop, DrainEnd
  <2> QED BY <2>1, <2>2
<1>21. ASSUME NEW d \in Drains, DrainOpen(d) \/ DrainFrame(d) \/ Announce(d)
       PROVE  TroubleKnown'
      BY <1>21 DEF DrainOpen, DrainFrame, Announce, Cancelled
<1>22. ASSUME NEW p \in Procs, ProcessExits(p) \/ ProcessHangs(p)
       PROVE  TroubleKnown'
      BY <1>22 DEF ProcessExits, ProcessHangs, Becomes
<1> QED
    BY <1>1, <1>2, <1>3, <1>4, <1>5, <1>6, <1>7, <1>8, <1>9, <1>10, <1>11, <1>12, <1>13, <1>14,
       <1>15, <1>16, <1>17, <1>18, <1>19, <1>20, <1>21, <1>22, <1>23
    DEF Next, FailureStep, MonitorStep, WorkerStep, RecoveryStep, StartStep, Drain

(* With no failure thread in flight none waits to be replayed. *)
LEMMA NoneInFlight ==
    ASSUME fail \in Failures, ~(InFlight > 0)
    PROVE  fail.deferred = 0
BY SMT DEF InFlight, Failures

LEMMA FirstStep ==
    ASSUME TypeOK, Sole, InTurn, StartsAlone, ReadersKnown, LaunchKnown, PipesKnown,
           TroubleKnown, FirstKnown, Ordinary, [Next]_vars
    PROVE  FirstKnown'
<1>0. PcStands /\ (UNCHANGED workerVars => Pc' = Pc)
      BY AllPcs DEF Ordinary
<1> USE <1>0, SupervisorAssumption DEF FirstKnown, Serving, TypeOK, Ordinary, Failures,
        procVars, drainVars, flagVars, recVars
<1>1. CASE UNCHANGED vars
      BY <1>1 DEF vars
<1>2. CASE HandleDeferred \/ HandleFailure \/ EnterRestarting \/ NotifyFailed
      BY <1>2 DEF HandleDeferred, HandleFailure, EnterRestarting, NotifyFailed
<1>3. CASE Schedule \/ RecoverySchedules
      BY <1>3 DEF Schedule, RecoverySchedules
<1>23. CASE StartRestart \/ RecoveryStarts
      BY <1>23, StartsOne DEF StartRestart, RecoveryStarts
<1>4. CASE StartupTimeout
      BY <1>4 DEF StartupTimeout, Overdue, WorkerPrompt, PcStands
<1>5. CASE ReportTimeout
      BY <1>5, ReportCounts DEF ReportTimeout
<1>6. ASSUME NEW w \in Workers, Promote(w) \/ Boot(w) \/ Reset(w)
      PROVE  FirstKnown'
      BY <1>6, WorkerPc DEF Promote, Boot, Reset
<1>7. ASSUME NEW w \in Workers, ClosePipes(w)
      PROVE  FirstKnown'
      BY <1>7, WorkerPc DEF ClosePipes, Settled
<1>8. ASSUME NEW w \in Workers, JoinThreads(w) \/ Kill(w) \/ ClearEvent(w) \/ Spawn(w)
      PROVE  FirstKnown'
      BY <1>8, WorkerPc DEF JoinThreads, Kill, ClearEvent, Spawn
<1>9. ASSUME NEW w \in Workers, Started(w)
      PROVE  FirstKnown'
      BY <1>9, WorkerPc DEF Started, StartDrain, Goto
<1>10. ASSUME NEW w \in Workers, NotStarted(w)
       PROVE  FirstKnown'
      BY <1>10, WorkerPc DEF NotStarted
<1>11. ASSUME NEW w \in Workers, Booting(w) \/ Arm(w) \/ Forgive(w) \/ ForceBooting(w)
       PROVE  FirstKnown'
      BY <1>11, WorkerPc DEF Booting, Arm, Armed, Forgive, ForceBooting
<1>12. CASE RecoveryWakes
      BY <1>12 DEF RecoveryWakes
<1>13. CASE CompleteStartup
      BY <1>13 DEF CompleteStartup, MainGoto, LaunchKnown, StartsAlone, Starting, PcStands
<1>14. CASE Start \/ FirstSpawn \/ FirstSpawnFails \/ FirstDrain \/ FirstBoot
      BY <1>14 DEF Start, FirstSpawn, FirstSpawnFails, FirstDrain, FirstBoot, MainGoto
<1>15. CASE Stop \/ StopStep
      BY <1>15 DEF Stop, StopStep, SetStopped, StopPipes, Terminate, Forget, Finish, MainGoto
<1>16. CASE WritePcm
      BY <1>16 DEF WritePcm
<1>17. ASSUME NEW d \in Drains, DrainTop(d) \/ DrainEnd(d), Serving
       PROVE  FirstKnown'
  <2>1. UNCHANGED <<state, first, process, proc, monitor, workerVars, mainPc>>
        /\ fail'.deferred = fail.deferred
        BY <1>17, ReportCounts DEF DrainTop, DrainEnd
  <2>2. /\ \A e \in Drains : dpc'[e] = "announce" => dpc[e] = "announce"
        /\ dpc'[d] # "off" \/ Gone \/ shutdown
        BY <1>17 DEF DrainTop, DrainEnd, Goto, Done, Gone, Ended, Alive, PipesKnown, TroubleKnown,
                     Replacing
  <2>3. ASSUME Pc \in {"booting", "arm", "forgive", "force"}, first
        PROVE  dpc'[d] # "off"
    <3>1. process # None /\ proc[process] = "fed" /\ ~shutdown
          BY <1>17, <2>3 DEF PipesKnown
    <3>2. ~Gone
          BY <3>1 DEF Gone, Ended, Alive
    <3> QED BY <2>2, <3>1, <3>2
  <2> QED BY <2>1, <2>2, <2>3
<1>18. ASSUME NEW d \in Drains, DrainOpen(d)
       PROVE  FirstKnown'
      BY <1>18 DEF DrainOpen, Goto
<1>19. ASSUME NEW d \in Drains, DrainFrame(d), Serving
       PROVE  FirstKnown'
  <2>1. reading[d] = process /\ process # None /\ proc[process] = "fed"
        BY <1>19 DEF DrainFrame, PipesKnown
  <2>2. ~Gone
        BY <2>1 DEF Gone, Ended, Alive
  <2>3. Pc \notin {"sleep", "join", "kill", "clear", "spawn"} /\ fail.deferred = 0
    <3>1. ~(InFlight > 0)
          BY <1>19, <2>2 DEF TroubleKnown
    <3>2. ~Replacing
          BY <1>19, <2>2 DEF TroubleKnown
    <3> QED BY <3>1, <3>2, NoneInFlight DEF Replacing
  <2>4. Pc # "started"
        BY <1>19 DEF DrainFrame, ReadersKnown, Readers
  <2>5. first' /\ dpc'[d] # "off" /\ UNCHANGED <<fail, workerVars, process, proc, mainPc>>
        BY <1>19 DEF DrainFrame, Goto
  <2> QED BY <2>1, <2>3, <2>4, <2>5
<1>20. ASSUME NEW d \in Drains, Announce(d)
       PROVE  FirstKnown'
      BY <1>20 DEF Announce, Cancelled, Goto
<1>21. ASSUME NEW d \in Drains, Drain(d), ~Serving
       PROVE  FirstKnown'
      BY <1>21 DEF Drain, DrainTop, DrainOpen, DrainFrame, DrainEnd, Announce
<1>22. ASSUME NEW p \in Procs, ProcessExits(p) \/ ProcessHangs(p)
       PROVE  FirstKnown'
      BY <1>22 DEF ProcessExits, ProcessHangs, Becomes, WorkerPrompt, PcStands, PipesKnown
<1> QED
    BY <1>1, <1>2, <1>3, <1>4, <1>5, <1>6, <1>7, <1>8, <1>9, <1>10, <1>11, <1>12, <1>13, <1>14,
       <1>15, <1>16, <1>17, <1>18, <1>19, <1>20, <1>21, <1>22, <1>23
    DEF Next, FailureStep, MonitorStep, WorkerStep, RecoveryStep, StartStep, Drain

LEMMA WatchStep ==
    ASSUME TypeOK, Sole, InTurn, StartsAlone, LaunchKnown, PipesKnown, FirstKnown, WatchKnown,
           Ordinary, [Next]_vars
    PROVE  WatchKnown'
<1>0. PcStands /\ (UNCHANGED workerVars => Pc' = Pc) /\ "race" \notin Faults
      BY AllPcs DEF Ordinary
<1> USE <1>0, SupervisorAssumption DEF WatchKnown, Serving, TypeOK, Failures,
        procVars, drainVars, flagVars, recVars
<1>1. CASE UNCHANGED vars
      BY <1>1 DEF vars
<1>2. CASE HandleDeferred
      BY <1>2 DEF HandleDeferred, FirstKnown
<1>3. CASE HandleFailure
      BY <1>3 DEF HandleFailure, PipesKnown
<1>4. CASE EnterRestarting
  <2>1. \/ state' = "FAILED" /\ fail' = [fail EXCEPT !.enter = @ - 1, !.failed = @ + 1]
        \/ state' = "RESTARTING" /\ fail' = [fail EXCEPT !.enter = @ - 1, !.schedule = @ + 1]
        BY <1>4, Zenon DEF EnterRestarting
  <2>2. \/ state' = "FAILED" /\ fail'.failed = fail.failed + 1
        \/ state' = "RESTARTING" /\ fail'.schedule = fail.schedule + 1
        BY <2>1
  <2>3. fail.failed + 1 > 0 /\ fail.schedule + 1 > 0
        OBVIOUS
  <2> QED BY <2>2, <2>3
<1>5. CASE NotifyFailed
      BY <1>5 DEF NotifyFailed, StartRecovery
<1>6. CASE Schedule \/ RecoverySchedules
  <2>1. Serving /\ Pc = "off" => ~Refused
        BY DEF PcStands, PipesKnown
  <2>2. fail' = fail \/ Refused \/ fail' = [fail EXCEPT !.schedule = @ - 1, !.start = @ + 1]
        BY <1>6, Zenon DEF Schedule, RecoverySchedules
  <2>3. LET f == [fail EXCEPT !.schedule = @ - 1, !.start = @ + 1]
        IN  /\ f.start > 0 /\ f.deferred = fail.deferred /\ f.check = fail.check
            /\ f.enter = fail.enter /\ f.failed = fail.failed
        OBVIOUS
  <2>4. \/ fail' = fail \/ Refused
        \/ /\ fail'.start > 0 /\ fail'.deferred = fail.deferred /\ fail'.check = fail.check
           /\ fail'.enter = fail.enter /\ fail'.failed = fail.failed
        BY <2>2, <2>3, Zenon
  <2>5. UNCHANGED <<state, first, monitor, recovering, workerVars, mainPc, dpc>>
        BY <1>6 DEF Schedule, RecoverySchedules
  <2> QED BY <2>1, <2>4, <2>5
<1>22. CASE StartRestart \/ RecoveryStarts
      BY <1>22, StartsOne DEF StartRestart, RecoveryStarts
<1>7. CASE StartupTimeout
      BY <1>7 DEF StartupTimeout
<1>8. CASE ReportTimeout
      BY <1>8, ReportCounts DEF ReportTimeout
<1>9. ASSUME NEW w \in Workers, Promote(w) \/ Boot(w) \/ Reset(w) \/ ClosePipes(w)
             \/ JoinThreads(w) \/ Kill(w) \/ ClearEvent(w) \/ Spawn(w) \/ Started(w) \/ Booting(w)
             \/ Arm(w) \/ Forgive(w)
      PROVE  WatchKnown'
      BY <1>9, WorkerPc DEF Promote, Boot, Reset, ClosePipes, JoinThreads, Kill, ClearEvent, Spawn,
                  Started, Booting, Arm, Forgive
<1>10. ASSUME NEW w \in Workers, NotStarted(w)
       PROVE  WatchKnown'
      BY <1>10, WorkerPc DEF NotStarted
<1>11. ASSUME NEW w \in Workers, ForceBooting(w)
       PROVE  WatchKnown'
      BY <1>11, WorkerPc DEF ForceBooting, PipesKnown, FirstKnown
<1>12. CASE RecoveryWakes
      BY <1>12 DEF RecoveryWakes
<1>13. CASE CompleteStartup
      BY <1>13 DEF CompleteStartup, MainGoto, LaunchKnown, Starting, PcStands
<1>14. CASE Start \/ FirstSpawn \/ FirstSpawnFails \/ FirstDrain \/ FirstBoot
      BY <1>14 DEF Start, FirstSpawn, FirstSpawnFails, FirstDrain, FirstBoot, MainGoto, Ordinary
<1>15. CASE Stop \/ StopStep
      BY <1>15 DEF Stop, StopStep, SetStopped, StopPipes, Terminate, Forget, Finish, MainGoto
<1>16. CASE WritePcm
      BY <1>16 DEF WritePcm
<1>17. ASSUME NEW d \in Drains, DrainTop(d) \/ DrainEnd(d), Serving, Pc = "off"
       PROVE  WatchKnown'
  <2>1. UNCHANGED <<state, first, monitor, recovering, workerVars, mainPc>>
        /\ fail'.deferred = fail.deferred /\ fail'.enter = fail.enter
        /\ fail'.failed = fail.failed /\ fail'.schedule = fail.schedule
        /\ fail'.start = fail.start
        BY <1>17, ReportCounts DEF DrainTop, DrainEnd
  <2>2. fail'.check > 0 \/ (fail' = fail /\ dpc'[d] # "off")
    <3>1. Report => fail'.check > 0
          BY <1>17, ReportCounts
    <3>2. ~shutdown
          BY <1>17 DEF PipesKnown
    <3>3. Report \/ (fail' = fail /\ dpc'[d] # "off")
          BY <1>17, <3>2 DEF DrainTop, DrainEnd, Goto
    <3> QED BY <3>1, <3>3
  <2> QED BY <2>1, <2>2
<1>18. ASSUME NEW d \in Drains, DrainOpen(d) \/ DrainFrame(d)
       PROVE  WatchKnown'
      BY <1>18 DEF DrainOpen, DrainFrame, Goto
<1>19. ASSUME NEW d \in Drains, Announce(d)
       PROVE  WatchKnown'
      BY <1>19 DEF Announce, Goto, FirstKnown
<1>20. ASSUME NEW d \in Drains, DrainTop(d) \/ DrainEnd(d), ~(Serving /\ Pc = "off")
       PROVE  WatchKnown'
      BY <1>20 DEF DrainTop, DrainEnd
<1>21. ASSUME NEW p \in Procs, ProcessExits(p) \/ ProcessHangs(p)
       PROVE  WatchKnown'
      BY <1>21 DEF ProcessExits, ProcessHangs, Becomes
<1> QED
    BY <1>1, <1>2, <1>3, <1>4, <1>5, <1>6, <1>7, <1>8, <1>9, <1>10, <1>11, <1>12, <1>13, <1>14,
       <1>15, <1>16, <1>17, <1>18, <1>19, <1>20, <1>21, <1>22
    DEF Next, FailureStep, MonitorStep, WorkerStep, RecoveryStep, StartStep, Drain

(* A recovery thread that is told to go on exists.                          *)
LEMMA RecoveryKept ==
    ASSUME TypeOK, RecoveryKnown, Ordinary, [Next]_vars
    PROVE  RecoveryKnown'
<1>0. recovery \in Recoveries
      BY DEF TypeOK
<1> USE SupervisorAssumption DEF RecoveryKnown, TypeOK, Recoveries, recVars
<1>1. CASE StartRecovery
      BY <1>1 DEF StartRecovery, Min2, Ordinary
<1>2. CASE RecoveryWakes
  <2>1. ~recovering' \/ recovery' = [recovery EXCEPT !.sleep = @ - 1, !.schedule = @ + 1]
        BY <1>2, Zenon DEF RecoveryWakes
  <2>2. /\ recovery.sleep > 0 /\ recovery.sleep \in Nat /\ recovery.schedule \in Nat
        /\ recovery.start \in Nat
        BY <1>2 DEF RecoveryWakes
  <2>4. LET r == [recovery EXCEPT !.sleep = @ - 1, !.schedule = @ + 1]
        IN  /\ r.sleep = recovery.sleep - 1 /\ r.schedule = recovery.schedule + 1
            /\ r.start = recovery.start
        BY SMT
  <2>3. recovering' => /\ recovery'.sleep = recovery.sleep - 1
                       /\ recovery'.schedule = recovery.schedule + 1
                       /\ recovery'.start = recovery.start
        BY <2>1, <2>4, Zenon
  <2> QED BY <2>2, <2>3
<1>3. CASE RecoverySchedules
  <2>1. /\ Sleeps([recovery EXCEPT !.schedule = @ - 1]).sleep > 0
        /\ [recovery EXCEPT !.schedule = @ - 1, !.start = @ + 1].start > 0
        BY DEF Sleeps, Min2, Ordinary
  <2>4. recovery.schedule - 1 \in Nat /\ recovery.start + 1 \in Nat
        BY <1>3 DEF RecoverySchedules
  <2>5. /\ Sleeps([recovery EXCEPT !.schedule = @ - 1]) \in Recoveries
        /\ [recovery EXCEPT !.schedule = @ - 1, !.start = @ + 1] \in Recoveries
        BY <1>0, <2>4, RecoveryMoves, Zenon
  <2>2. recovery'.sleep > 0 \/ recovery'.start > 0
        BY <1>3, <2>1, Zenon DEF RecoverySchedules
  <2>3. recovery' \in Recoveries
        BY <1>3, <2>5, Zenon DEF RecoverySchedules
  <2> QED BY <2>2, <2>3
<1>6. CASE RecoveryStarts
  <2>1. recovery'.sleep > 0
        BY <1>6 DEF RecoveryStarts, Sleeps, Min2, Ordinary
  <2>2. recovery' \in Recoveries
    <3>1. recovery.start - 1 \in Nat
          BY <1>6 DEF RecoveryStarts
    <3> QED BY <1>0, <1>6, <3>1, RecoveryMoves, Zenon DEF RecoveryStarts
  <2> QED BY <2>1, <2>2
<1>4. CASE recovery' = recovery /\ (recovering' => recovering)
      BY <1>4
<1>5. StartRecovery \/ RecoveryWakes \/ RecoverySchedules \/ RecoveryStarts
        \/ (recovery' = recovery /\ (recovering' => recovering))
  <2>1. CASE UNCHANGED vars
        BY <2>1 DEF vars
  <2>2. CASE FailureStep
        BY <2>2 DEF FailureStep, HandleDeferred, HandleFailure, EnterRestarting, NotifyFailed,
                    Schedule, StartRestart
  <2>3. ASSUME NEW w \in Workers, WorkerStep(w)
        PROVE  recovery' = recovery /\ (recovering' => recovering)
        BY <2>3 DEF WorkerStep, Promote, Boot, Reset, ClosePipes, JoinThreads, Kill, ClearEvent,
                    Spawn, Started, NotStarted, Booting, Arm, Forgive, ForceBooting
  <2>4. CASE RecoveryStep
        BY <2>4 DEF RecoveryStep
  <2>5. CASE StartStep
        BY <2>5 DEF StartStep, Start, FirstSpawn, FirstSpawnFails, FirstDrain, FirstBoot,
                    CompleteStartup
  <2>6. CASE MonitorStep \/ Stop \/ StopStep \/ WritePcm
        BY <2>6 DEF MonitorStep, StartupTimeout, ReportTimeout, Stop, StopStep, SetStopped,
                    StopPipes, Terminate, Forget, Finish, WritePcm
  <2>7. ASSUME NEW d \in Drains, Drain(d)
        PROVE  recovery' = recovery /\ (recovering' => recovering)
        BY <2>7 DEF Drain, DrainTop, DrainOpen, DrainFrame, DrainEnd, Announce
  <2>8. ASSUME NEW p \in Procs, ProcessExits(p) \/ ProcessHangs(p)
        PROVE  recovery' = recovery /\ recovering' = recovering
        BY <2>8 DEF ProcessExits, ProcessHangs, Becomes
  <2> QED BY <2>1, <2>2, <2>3, <2>4, <2>5, <2>6, <2>7, <2>8 DEF Next
<1> QED BY <1>1, <1>2, <1>3, <1>4, <1>5, <1>6

OrdinaryInv == /\ ReadersKnown /\ LaunchKnown /\ PipesKnown /\ TroubleKnown
               /\ FirstKnown /\ WatchKnown /\ RecoveryKnown

(* The invariant of ordinary failures, on top of the one for any.           *)
THEOREM OrdinaryInvariance == ASSUME Ordinary PROVE Spec => []OrdinaryInv
<1>1. ASSUME Init PROVE OrdinaryInv
      BY <1>1, SupervisorAssumption
      DEF Init, OrdinaryInv, ReadersKnown, Readers, LaunchKnown, PipesKnown, TroubleKnown,
          FirstKnown, WatchKnown, RecoveryKnown, Starting, Serving, Gone
<1>2. ASSUME IInv, OrdinaryInv, [Next]_vars PROVE OrdinaryInv'
  <2>1. "hang" \notin Faults /\ "late" \notin Faults /\ "race" \notin Faults
        BY DEF Ordinary
  <2> QED BY <1>2, <2>1, ReadersStep, LaunchStep, PipesStep, TroubleStep, FirstStep, WatchStep,
             RecoveryKept
          DEF IInv, OrdinaryInv
<1> QED BY <1>1, <1>2, Invariance, PTL DEF Spec

(* A dead encoder is never forgotten, whichever thread saw it die, and in   *)
(* whatever order reports, restarts, timers and the recovery thread come.   *)
THEOREM DeadIsTended == ASSUME Ordinary PROVE Spec => []NoDeadEnd
<1>1. IInv /\ OrdinaryInv => NoDeadEnd
  <2> SUFFICES ASSUME TypeOK, Sole, InTurn, PipesKnown, WatchKnown, RecoveryKnown, Serving,
                      ~Tended
               PROVE  FALSE
      BY DEF IInv, OrdinaryInv, NoDeadEnd
  <2>0. PcStands
        BY AllPcs DEF Ordinary
  <2>1. Pc = "off" /\ monitor = "off" /\ InFlight = 0
    <3>1. Pc = "off" /\ monitor = "off" /\ ~(InFlight > 0)
          BY <2>0 DEF Tended, PcStands
    <3>2. InFlight \in Nat
          BY DEF InFlight, TypeOK, Failures
    <3> QED BY <3>1, <3>2
  <2>2. /\ fail.deferred = 0 /\ fail.check = 0 /\ fail.enter = 0
        /\ fail.failed = 0 /\ fail.schedule = 0 /\ fail.start = 0
        BY <2>1 DEF InFlight, TypeOK, Failures
  <2>3. CASE state = "FAILED"
        BY <2>1, <2>2, <2>3 DEF WatchKnown, RecoveryKnown, Tended
  <2>4. CASE state = "RESTARTING"
        BY <2>1, <2>2, <2>4 DEF WatchKnown
  <2>5. CASE state \in {"BOOTING", "RUNNING"}
        BY <2>1, <2>2, <2>5 DEF WatchKnown, Tended, AwaitsFirstFrame
  <2> QED BY <2>3, <2>4, <2>5 DEF PipesKnown
<1> QED BY <1>1, Invariance, OrdinaryInvariance, PTL
=============================================================================
