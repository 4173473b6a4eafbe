------------------------ MODULE StationPlayoutProofs ------------------------
(***************************************************************************)
(* Proofs about StationPlayout, for any set of intent identifiers and any  *)
(* set of faults.  The inductive invariant says what each flag means to    *)
(* the thread that reads it late: which flags imply which (Flags), what    *)
(* the playout thread still knows at each of its steps (AtStep), and what  *)
(* can be in the queue (QueueOK).                                          *)
(***************************************************************************)
EXTENDS StationPlayout, TLAPS, SequenceTheorems

InDo == {"wrap", "do", "record", "build", "push"}
InDrain == {"kick", "kicked", "settle"}

BeforeStop == {"boot", "inject", "first", "notify", "run", "running", "failed"}

(* The engine drains after the DJ does, and only a draining DJ makes or     *)
(* queues a terminal intent.                                                *)
Flags ==
    /\ engDraining => djDraining
    /\ terminalIntentQueued => djDraining
    /\ HasTerminalIntent => djDraining
    /\ djDraining <=> mainPc \notin BeforeStop

(* Before run() there is no playout thread: the main thread owns the queue. *)
BeforeRun ==
    /\ mainPc \in {"boot", "inject", "first", "notify", "run"} => pc = "off"
    /\ mainPc \in {"boot", "inject", "first"} => queue = <<>>
    /\ pc = "off" => /\ seg = NoEvent
                     /\ ~terminalIntentQueued

(* What the playout thread knows at its steps. *)
AtStep ==
    /\ pc \in InDrain => engDraining
    /\ pc \in InDo /\ caller = "kick" => engDraining
    /\ pc \in InDo /\ caller = "finish" => seg.type # "none"
    /\ pc \in {"start", "think", "plan", "hook", "play", "finish", "ret", "clear", "mark"}
         => seg.type # "none"
    /\ pc = "record" => ~isTerminal /\ caller = "finish" /\ ~HasTerminalIntent
    /\ pc \in {"record", "build"} => ~terminalIntentQueued
    /\ pc \in {"build", "push"} =>
         /\ HasIntent
         /\ isTerminal = currentIntent.terminal
         /\ isTerminal \/ caller = "finish"
    /\ pc = "push" =>
         /\ terminalIntentQueued = isTerminal
         /\ ~seg.terminal
         /\ queue = <<>> \/ (isTerminal /\ queue = <<StartupAnnouncement>>)

(* The queue: the startup announcement only ever at the head, before        *)
(* anything has played; one break; a sign-off last; nothing that carries    *)
(* the intent THINK has committed and DO has not pushed yet.                *)
QueueOK ==
    /\ \A i \in 1..Len(queue) :
         queue[i].intent = NoId => i = 1 /\ queue[i] = StartupAnnouncement
    /\ queue # <<>> /\ queue[1] = StartupAnnouncement =>
         /\ seg.type = "none"
         /\ Len(queue) > 1 => terminalIntentQueued
    /\ OneBreakInQueue
    /\ SignOffIsLast
    /\ \A i \in 1..Len(queue) :
         queue[i].type # "none" /\ (queue[i].terminal => terminalIntentQueued)
    /\ HasIntent => \A i \in 1..Len(queue) : queue[i].intent # currentIntent.id
    /\ seg.terminal => queue = <<>> /\ terminalIntentQueued

IInv == TypeOK /\ Flags /\ BeforeRun /\ AtStep /\ QueueOK
-----------------------------------------------------------------------------
(* The operators the actions are built from *)

(* The segments that belong to break b. *)
SegmentsOf(b) ==
    {e \in Event : e.type # "none" /\ e.intent = b.id /\ e.terminal = b.terminal}

(* Every segment a DO queues carries the intent it executes (atomic intent  *)
(* execution, dj_engine.py:546), and a terminal intent queues at most one.  *)
LEMMA QueueOrderFacts ==
    ASSUME NEW b \in DJIntent
    PROVE  /\ QueueOrder(b) \in Seq(Event)
           /\ \A i \in 1..Len(QueueOrder(b)) :
                /\ QueueOrder(b)[i].intent = b.id
                /\ QueueOrder(b)[i].terminal = b.terminal
                /\ QueueOrder(b)[i].type # "none"
           /\ b.terminal => Len(QueueOrder(b)) \in {0, 1}
<1>1. ASSUME NEW t \in SegmentTypes
      PROVE  /\ Piece(b, t) \in Seq(SegmentsOf(b))
             /\ Len(Piece(b, t)) \in {0, 1}
      <2>. DEFINE e == [type |-> t, intent |-> b.id, terminal |-> b.terminal]
      <2>1. e \in SegmentsOf(b)
            BY DEF SegmentsOf, Event, DJIntent, SegmentTypes
      <2>2. /\ <<e>> \in Seq(SegmentsOf(b)) /\ Len(<<e>>) = 1
            /\ << >> \in Seq(SegmentsOf(b)) /\ Len(<< >>) = 0
            BY <2>1
      <2>. QED BY <2>2 DEF Piece
<1>2. QueueOrder(b) \in Seq(SegmentsOf(b))
      <2>1. \A s, t \in Seq(SegmentsOf(b)) : s \o t \in Seq(SegmentsOf(b))
            BY ConcatProperties
      <2>2. {"outro", "id", "intro", "song", "announcement"} = SegmentTypes
            BY DEF SegmentTypes
      <2>. QED BY <1>1, <2>1, <2>2 DEF QueueOrder
<1>3. b.terminal => Len(QueueOrder(b)) \in {0, 1}
      BY <1>1 DEF QueueOrder, SegmentTypes
<1>4. \A i \in 1..Len(QueueOrder(b)) : QueueOrder(b)[i] \in SegmentsOf(b)
      BY <1>2
<1>5. QueueOrder(b) \in Seq(Event)
      BY <1>2, SegmentsOf(b) \subseteq Event DEF SegmentsOf
<1>. QED BY <1>3, <1>4, <1>5 DEF SegmentsOf

(* What THINK can commit is an intent, and its identifier is new. *)
LEMMA BreakFacts ==
    ASSUME TypeOK, NEW b \in SongBreaks \cup TerminalBreaks \cup StartupBreak
    PROVE  /\ b \in DJIntent
           /\ b.id \in Intents
           /\ b.id \notin LiveIds
           /\ b \in TerminalBreaks => b.terminal
           /\ b \in SongBreaks \cup StartupBreak => ~b.terminal
BY DEF SongBreaks, TerminalBreaks, StartupBreak, DJIntent, FreshIds, SegmentTypes
(* What the station can be made to report. *)
LEMMA ReportFacts ==
    /\ \A s \in Event : AiringState(s) \in Reports /\ ShutdownState(s) \in Reports
    /\ \A s \in {NoEvent, StartupAnnouncement} :
         [state |-> "STARTING_UP", audio |-> s] \in Reports
    /\ {NoEvent, StartupAnnouncement, IdleSegment} \subseteq Event
    /\ NoIntent \in DJIntent
BY DEF AiringState, OnAirState, ShutdownState, Reports, Event, NoEvent,
       StartupAnnouncement, IdleSegment, SegmentTypes, NoIntent, DJIntent

-----------------------------------------------------------------------------
(* Type correctness: every variable of the control core keeps its type,     *)
(* whatever the two threads do and whatever fails.                          *)
LEMMA TypeStep == TypeOK /\ [Next]_vars => TypeOK'
<1>. SUFFICES ASSUME TypeOK, [Next]_vars PROVE TypeOK'
     OBVIOUS
<1>. USE DEF TypeOK, Goto, mainVars, djVars, flagVars, termVars, airVars, localVars
<1>1. CASE LoopTop
     BY <1>1 DEF LoopTop, LoopPcs
<1>2. CASE Mode
     BY <1>2 DEF Mode, Dequeue, LoopPcs
<1>3. CASE Kick
     <2>1. terminalDoExecuted' \in BOOLEAN
           BY <1>3, Zenon DEF Kick
     <2>. QED BY <1>3, <2>1 DEF Kick, LoopPcs
<1>4. CASE Kicked
     BY <1>4 DEF Kicked, LoopPcs
<1>5. CASE Settle
     <2>1. /\ terminalAudioQueued' \in BOOLEAN
           /\ playoutComplete' \in BOOLEAN
           BY <1>5, Zenon DEF Settle
     <2>2. /\ seg' \in Event /\ queue' \in Seq(Event)
           BY <1>5, HeadTailProperties DEF Settle, Dequeue
     <2>. QED BY <1>5, <2>1, <2>2 DEF Settle, LoopPcs
<1>6. CASE Start
     <2>1. isPlaying' \in BOOLEAN
           BY <1>6, Zenon DEF Start
     <2>. QED BY <1>6, <2>1 DEF Start, LoopPcs
<1>7. CASE Think
     BY <1>7, BreakFacts DEF Think, LoopPcs
<1>8. CASE Plan
     BY <1>8, BreakFacts, ReportFacts DEF Plan, LoopPcs
<1>9. CASE Hook
     BY <1>9, ReportFacts DEF Hook, StartupStates, EarlyStartup, LoopPcs
<1>10. CASE Play
     <2>1. frames' \in BOOLEAN
           BY <1>10, Zenon DEF Play
     <2>. QED BY <1>10, <2>1 DEF Play, LoopPcs
<1>11. CASE Finish
     BY <1>11 DEF Finish, LoopPcs
<1>12. CASE Wrap
     BY <1>12 DEF Wrap, Raise, StartupStates, EarlyStartup, LoopPcs
<1>13. CASE Do
     <2>1. isTerminal' \in BOOLEAN
           BY <1>13, Zenon DEF Do, HasTerminalIntent
     <2>2. currentIntent' \in DJIntent
           BY <1>13, BreakFacts DEF Do
     <2>. QED BY <1>13, <2>1, <2>2 DEF Do, Return, Raise, LoopPcs
<1>14. CASE Record
     BY <1>14 DEF Record, Raise, Return, LoopPcs
<1>15. CASE Build
     BY <1>15 DEF Build, Raise, Latch, LoopPcs
<1>16. CASE Push
     <2>1. queue' \in Seq(Event)
           BY <1>16, QueueOrderFacts, ConcatProperties DEF Push
     <2>2. terminalAudioQueued' \in BOOLEAN
           BY <1>16, Zenon DEF Push
     <2>3. startupState' \in StartupStates
           BY <1>16 DEF Push, StartupStates
     <2>4. currentIntent' \in DJIntent
           BY <1>16, ReportFacts DEF Push
     <2>. QED BY <1>16, <2>1, <2>2, <2>3, <2>4 DEF Push, Return, LoopPcs
<1>17. CASE Ret
     BY <1>17 DEF Ret, LoopPcs
<1>18. CASE Clear
     BY <1>18, ReportFacts, ZenonT(60) DEF Clear, LoopPcs
<1>19. CASE Mark
     BY <1>19 DEF Mark, LoopPcs
<1>20. CASE BootThink
     BY <1>20, BreakFacts, ReportFacts DEF BootThink, MainGoto, MainPcs
<1>21. CASE BootFails
     BY <1>21, ReportFacts DEF BootFails, MainGoto, MainPcs
<1>22. CASE InjectAnnouncement
     BY <1>22, ReportFacts DEF InjectAnnouncement, MainGoto, StartupStates, EarlyStartup, MainPcs
<1>23. CASE FirstBreak
     <2>1. queue' \in Seq(Event)
           BY <1>23, BreakFacts, QueueOrderFacts DEF FirstBreak
     <2>. QED BY <1>23, <2>1, ReportFacts DEF FirstBreak, MainGoto, StartupStates, MainPcs
<1>24. CASE Notify
     BY <1>24 DEF Notify, MainGoto, MainPcs
<1>25. CASE Run
     BY <1>25 DEF Run, MainGoto, LoopPcs, MainPcs
<1>26. CASE Stop
     BY <1>26 DEF Stop, MainGoto, MainPcs
<1>27. CASE DrainEngine
     BY <1>27 DEF DrainEngine, MainGoto, MainPcs
<1>28. CASE AwaitPlayout
     BY <1>28 DEF AwaitPlayout, MainGoto, MainPcs
<1>29. CASE PostShutdown
     BY <1>29 DEF PostShutdown, MainGoto, MainPcs
<1>30. CASE EnterPhase2
     BY <1>30 DEF EnterPhase2, MainGoto, MainPcs
<1>31. CASE ReportShutdown
     BY <1>31, ReportFacts DEF ReportShutdown, MainGoto, MainPcs
<1>32. CASE Detach
     BY <1>32, ZenonT(60) DEF Detach, MainGoto, MainPcs
<1>33. CASE Recheck
     BY <1>33 DEF Recheck, MainGoto, MainPcs
<1>34. CASE Halt
     BY <1>34, ZenonT(60) DEF Halt, MainGoto, MainPcs
<1>35. CASE Join
     BY <1>35 DEF Join, MainGoto, MainPcs
<1>36. CASE UNCHANGED vars
     BY <1>36 DEF vars
<1>. QED BY <1>1, <1>2, <1>3, <1>4, <1>5, <1>6, <1>7, <1>8, <1>9, <1>10, <1>11, <1>12, <1>13, <1>14, <1>15, <1>16, <1>17, <1>18, <1>19, <1>20, <1>21, <1>22, <1>23, <1>24, <1>25, <1>26, <1>27, <1>28, <1>29, <1>30, <1>31, <1>32, <1>33, <1>34, <1>35, <1>36
         DEF Next, PlayoutStep, StartStep, StopStep

LEMMA InitType == Init => TypeOK
<1>. SUFFICES ASSUME Init PROVE TypeOK
     OBVIOUS
<1>1. /\ djDraining \in BOOLEAN /\ engDraining \in BOOLEAN
      /\ isRunning \in BOOLEAN /\ stopEvent \in BOOLEAN /\ callback \in BOOLEAN
      /\ terminalIntentQueued \in BOOLEAN /\ isPlaying \in BOOLEAN
      /\ terminalDoExecuted \in BOOLEAN /\ terminalAudioQueued \in BOOLEAN
      /\ terminalAudioPlayed \in BOOLEAN /\ playoutComplete \in BOOLEAN
      /\ isTerminal \in BOOLEAN /\ frames \in BOOLEAN
      BY Zenon DEF Init
<1>2. queue \in Seq(Event) /\ stationState \in Reports
      BY ReportFacts DEF Init, Reports
<1>. QED BY <1>1, <1>2, ReportFacts
         DEF Init, TypeOK, LoopPcs, MainPcs, StartupStates, EarlyStartup

THEOREM TypeCorrect == Spec => []TypeOK
BY InitType, TypeStep, PTL DEF Spec

-----------------------------------------------------------------------------
(* The inductive invariant is preserved, part by part.                      *)

(* The flags keep implying each other. *)
LEMMA FlagsStep == IInv /\ [Next]_vars => Flags'
<1>. SUFFICES ASSUME IInv, [Next]_vars PROVE Flags'
     OBVIOUS
<1>. USE DEF IInv, Flags, HasTerminalIntent, HasIntent, BeforeStop, Goto, MainGoto,
             mainVars, djVars, flagVars, termVars, airVars, localVars
<1>1. CASE LoopTop
     BY <1>1 DEF LoopTop
<1>2. CASE Mode
     BY <1>2 DEF Mode
<1>3. CASE Kick
     BY <1>3 DEF Kick
<1>4. CASE Kicked
     BY <1>4 DEF Kicked
<1>5. CASE Settle
     BY <1>5 DEF Settle
<1>6. CASE Start
     BY <1>6 DEF Start
<1>7. CASE Think
     BY <1>7, BreakFacts DEF Think
<1>8. CASE Plan
     BY <1>8, BreakFacts DEF Plan, NoIntent
<1>9. CASE Hook
     BY <1>9 DEF Hook
<1>10. CASE Play
     BY <1>10 DEF Play
<1>11. CASE Finish
     BY <1>11 DEF Finish
<1>12. CASE Wrap
     BY <1>12 DEF Wrap
<1>13. CASE Do
     BY <1>13, BreakFacts DEF Do, AtStep, InDo
<1>14. CASE Record
     BY <1>14 DEF Record
<1>15. CASE Build
     BY <1>15 DEF Build, Latch, AtStep
<1>16. CASE Push
     BY <1>16 DEF Push, NoIntent
<1>17. CASE Ret
     BY <1>17 DEF Ret
<1>18. CASE Clear
     BY <1>18 DEF Clear
<1>19. CASE Mark
     BY <1>19 DEF Mark
<1>20. CASE BootThink
     BY <1>20, BreakFacts DEF BootThink
<1>21. CASE BootFails
     BY <1>21 DEF BootFails, NoIntent
<1>22. CASE InjectAnnouncement
     BY <1>22 DEF InjectAnnouncement, NoIntent
<1>23. CASE FirstBreak
     BY <1>23 DEF FirstBreak, NoIntent
<1>24. CASE Notify
     BY <1>24 DEF Notify
<1>25. CASE Run
     BY <1>25 DEF Run
<1>26. CASE Stop
     BY <1>26 DEF Stop
<1>27. CASE DrainEngine
     BY <1>27 DEF DrainEngine
<1>28. CASE AwaitPlayout
     BY <1>28 DEF AwaitPlayout
<1>29. CASE PostShutdown
     BY <1>29 DEF PostShutdown
<1>30. CASE EnterPhase2
     BY <1>30 DEF EnterPhase2
<1>31. CASE ReportShutdown
     BY <1>31 DEF ReportShutdown
<1>32. CASE Detach
     BY <1>32 DEF Detach
<1>33. CASE Recheck
     BY <1>33 DEF Recheck
<1>34. CASE Halt
     BY <1>34 DEF Halt
<1>35. CASE Join
     BY <1>35 DEF Join
<1>36. CASE UNCHANGED vars
     BY <1>36 DEF vars
<1>. QED BY <1>1, <1>2, <1>3, <1>4, <1>5, <1>6, <1>7, <1>8, <1>9, <1>10,
            <1>11, <1>12, <1>13, <1>14, <1>15, <1>16, <1>17, <1>18, <1>19,
            <1>20, <1>21, <1>22, <1>23, <1>24, <1>25, <1>26, <1>27, <1>28,
            <1>29, <1>30, <1>31, <1>32, <1>33, <1>34, <1>35, <1>36
         DEF Next, PlayoutStep, StartStep, StopStep

(* Before run() the main thread owns the queue. *)
LEMMA BeforeRunStep == IInv /\ [Next]_vars => BeforeRun'
<1>. SUFFICES ASSUME IInv, [Next]_vars PROVE BeforeRun'
     OBVIOUS
<1>. USE DEF IInv, BeforeRun, Goto, MainGoto,
             mainVars, djVars, flagVars, termVars, airVars, localVars
<1>1. CASE LoopTop
     BY <1>1 DEF LoopTop
<1>2. CASE Mode
     BY <1>2 DEF Mode
<1>3. CASE Kick
     BY <1>3 DEF Kick
<1>4. CASE Kicked
     BY <1>4 DEF Kicked
<1>5. CASE Settle
     BY <1>5 DEF Settle
<1>6. CASE Start
     BY <1>6 DEF Start
<1>7. CASE Think
     BY <1>7 DEF Think
<1>8. CASE Plan
     BY <1>8 DEF Plan
<1>9. CASE Hook
     BY <1>9 DEF Hook
<1>10. CASE Play
     BY <1>10 DEF Play
<1>11. CASE Finish
     BY <1>11 DEF Finish
<1>12. CASE Wrap
     BY <1>12 DEF Wrap, Raise
<1>13. CASE Do
     BY <1>13 DEF Do, Raise, Return
<1>14. CASE Record
     BY <1>14 DEF Record, Raise, Return
<1>15. CASE Build
     BY <1>15 DEF Build, Latch, Raise
<1>16. CASE Push
     BY <1>16 DEF Push, Return
<1>17. CASE Ret
     BY <1>17 DEF Ret
<1>18. CASE Clear
     BY <1>18 DEF Clear
<1>19. CASE Mark
     BY <1>19 DEF Mark
<1>20. CASE BootThink
     BY <1>20 DEF BootThink
<1>21. CASE BootFails
     BY <1>21 DEF BootFails
<1>22. CASE InjectAnnouncement
     BY <1>22 DEF InjectAnnouncement
<1>23. CASE FirstBreak
     BY <1>23 DEF FirstBreak
<1>24. CASE Notify
     BY <1>24 DEF Notify
<1>25. CASE Run
     BY <1>25 DEF Run
<1>26. CASE Stop
     BY <1>26 DEF Stop
<1>27. CASE DrainEngine
     BY <1>27 DEF DrainEngine
<1>28. CASE AwaitPlayout
     BY <1>28 DEF AwaitPlayout
<1>29. CASE PostShutdown
     BY <1>29 DEF PostShutdown
<1>30. CASE EnterPhase2
     BY <1>30 DEF EnterPhase2
<1>31. CASE ReportShutdown
     BY <1>31 DEF ReportShutdown
<1>32. CASE Detach
     BY <1>32 DEF Detach
<1>33. CASE Recheck
     BY <1>33 DEF Recheck
<1>34. CASE Halt
     BY <1>34 DEF Halt
<1>35. CASE Join
     BY <1>35 DEF Join
<1>36. CASE UNCHANGED vars
     BY <1>36 DEF vars
<1>. QED BY <1>1, <1>2, <1>3, <1>4, <1>5, <1>6, <1>7, <1>8, <1>9, <1>10,
            <1>11, <1>12, <1>13, <1>14, <1>15, <1>16, <1>17, <1>18, <1>19,
            <1>20, <1>21, <1>22, <1>23, <1>24, <1>25, <1>26, <1>27, <1>28,
            <1>29, <1>30, <1>31, <1>32, <1>33, <1>34, <1>35, <1>36
         DEF Next, PlayoutStep, StartStep, StopStep

(* The playout thread keeps knowing what it has found out. *)
LEMMA AtStepStep == IInv /\ [Next]_vars => AtStep'
<1>. SUFFICES ASSUME IInv, [Next]_vars PROVE AtStep'
     OBVIOUS
<1>. USE DEF IInv, AtStep, InDo, InDrain, HasIntent, HasTerminalIntent, Goto, MainGoto,
             mainVars, djVars, flagVars, termVars, airVars, localVars
<1>1. CASE LoopTop
     BY <1>1 DEF LoopTop
<1>2. CASE Mode
     BY <1>2, HeadTailProperties DEF Mode, Dequeue, QueueOK, TypeOK
<1>3. CASE Kick
     BY <1>3 DEF Kick
<1>4. CASE Kicked
     BY <1>4 DEF Kicked
<1>5. CASE Settle
     BY <1>5, HeadTailProperties DEF Settle, Dequeue, QueueOK, TypeOK
<1>6. CASE Start
     BY <1>6 DEF Start
<1>7. CASE Think
     BY <1>7, BreakFacts DEF Think
<1>8. CASE Plan
     BY <1>8, BreakFacts DEF Plan
<1>9. CASE Hook
     BY <1>9 DEF Hook
<1>10. CASE Play
     BY <1>10 DEF Play
<1>11. CASE Finish
     BY <1>11 DEF Finish
<1>12. CASE Wrap
     BY <1>12 DEF Wrap, Raise, TypeOK
<1>13. CASE Do
     <2>1. CASE pc' = "build"
       <3>1. currentIntent'.id # NoId /\ currentIntent'.terminal /\ isTerminal'
             BY <1>13, <2>1, BreakFacts, StationAssumption DEF Do, Raise, Return
       <3>2. ~terminalIntentQueued'
             BY <1>13, <2>1 DEF Do, Raise, Return
       <3>. QED BY <1>13, <2>1, <3>1, <3>2, Zenon DEF Do
     <2>2. CASE pc' = "record"
       <3>1. ~djDraining /\ isTerminal' = HasTerminalIntent
             BY <1>13, <2>2, Zenon DEF Do, Raise, Return
       <3>2. ~HasTerminalIntent /\ ~terminalIntentQueued /\ ~engDraining
             BY <3>1 DEF Flags
       <3>. QED BY <1>13, <2>2, <3>1, <3>2 DEF Do, TypeOK
     <2>3. CASE pc' \notin {"build", "record"}
           BY <1>13, <2>3 DEF Do, Raise, Return, TypeOK
     <2>. QED BY <2>1, <2>2, <2>3
<1>14. CASE Record
     <2>1. CASE pc' = "build"
       <3>1. ~currentIntent.terminal /\ ~isTerminal /\ HasIntent
             BY <1>14, <2>1 DEF Record, Raise, Return
       <3>2. currentIntent.terminal = FALSE /\ isTerminal = FALSE
             BY <3>1, Zenon DEF TypeOK, DJIntent
       <3>. QED BY <1>14, <2>1, <3>1, <3>2 DEF Record
     <2>2. CASE pc' # "build"
           BY <1>14, <2>2 DEF Record, Raise, Return, TypeOK
     <2>. QED BY <2>1, <2>2
<1>15. CASE Build
     <2>1. CASE pc' # "push"
           BY <1>15, <2>1 DEF Build, Raise, TypeOK
     <2>2. CASE pc' = "push"
       <3>1. /\ LeakFree /\ pc = "build" /\ terminalIntentQueued' = Latch
             /\ UNCHANGED <<queue, seg, caller, isTerminal, currentIntent, engDraining>>
             BY <1>15, <2>2 DEF Build, Raise
       <3>2. ~terminalIntentQueued
             BY <3>1
       <3>3. terminalIntentQueued' = isTerminal
             BY <3>1, <3>2, Zenon DEF Latch, TypeOK
       <3>4. ~seg.terminal
             BY <3>2 DEF QueueOK
       <3>5. queue # <<>> => queue[1] = StartupAnnouncement
             BY <3>1 DEF LeakFree, QueueOK, TypeOK
       <3>6. queue # <<>> => Len(queue) = 1 /\ isTerminal
         <4>. SUFFICES ASSUME queue # <<>> PROVE Len(queue) = 1 /\ isTerminal
              OBVIOUS
         <4>1. seg.type = "none" /\ ~(Len(queue) > 1)
               BY <3>2, <3>5 DEF QueueOK
         <4>2. Len(queue) \in Nat \ {0}
               BY EmptySeq DEF TypeOK
         <4>3. caller # "finish" /\ (isTerminal \/ caller = "finish")
               BY <3>1, <4>1
         <4>4. Len(queue) = 1
               BY <4>1, <4>2
         <4>5. isTerminal
               BY <4>3, Zenon
         <4>. QED BY <4>4, <4>5
       <3>7. queue # <<>> => queue = <<StartupAnnouncement>>
             BY <3>5, <3>6 DEF TypeOK
       <3>. QED BY <2>2, <3>1, <3>3, <3>4, <3>6, <3>7
     <2>. QED BY <2>1, <2>2
<1>16. CASE Push
     BY <1>16 DEF Push, Return, TypeOK
<1>17. CASE Ret
     BY <1>17 DEF Ret
<1>18. CASE Clear
     BY <1>18 DEF Clear
<1>19. CASE Mark
     BY <1>19 DEF Mark
<1>20. CASE BootThink
     BY <1>20 DEF BootThink, BeforeRun
<1>21. CASE BootFails
     BY <1>21 DEF BootFails, BeforeRun, BeforeStop, Flags
<1>22. CASE InjectAnnouncement
     BY <1>22 DEF InjectAnnouncement, BeforeRun
<1>23. CASE FirstBreak
     BY <1>23 DEF FirstBreak, BeforeRun
<1>24. CASE Notify
     BY <1>24 DEF Notify
<1>25. CASE Run
     BY <1>25 DEF Run, BeforeRun
<1>26. CASE Stop
     BY <1>26 DEF Stop
<1>27. CASE DrainEngine
     BY <1>27 DEF DrainEngine
<1>28. CASE AwaitPlayout
     BY <1>28 DEF AwaitPlayout
<1>29. CASE PostShutdown
     BY <1>29 DEF PostShutdown
<1>30. CASE EnterPhase2
     BY <1>30 DEF EnterPhase2
<1>31. CASE ReportShutdown
     BY <1>31 DEF ReportShutdown
<1>32. CASE Detach
     BY <1>32 DEF Detach
<1>33. CASE Recheck
     BY <1>33 DEF Recheck
<1>34. CASE Halt
     BY <1>34 DEF Halt
<1>35. CASE Join
     BY <1>35 DEF Join
<1>36. CASE UNCHANGED vars
     BY <1>36 DEF vars
<1>. QED BY <1>1, <1>2, <1>3, <1>4, <1>5, <1>6, <1>7, <1>8, <1>9, <1>10,
            <1>11, <1>12, <1>13, <1>14, <1>15, <1>16, <1>17, <1>18, <1>19,
            <1>20, <1>21, <1>22, <1>23, <1>24, <1>25, <1>26, <1>27, <1>28,
            <1>29, <1>30, <1>31, <1>32, <1>33, <1>34, <1>35, <1>36
         DEF Next, PlayoutStep, StartStep, StopStep

(* A step that leaves the queue and the air alone may latch, drop the intent *)
(* or commit a new one.                                                      *)
LEMMA QueueKept ==
    ASSUME TypeOK, QueueOK, queue' = queue, seg' = seg,
           terminalIntentQueued => terminalIntentQueued',
           \/ currentIntent' = currentIntent
           \/ currentIntent'.id = NoId
           \/ currentIntent'.id \notin LiveIds
    PROVE  QueueOK'
BY DEF TypeOK, QueueOK, OneBreakInQueue, SignOffIsLast, HasIntent, LiveIds

(* Taking the head of the queue, to play it or to discard it. *)
LEMMA QueueTaken ==
    ASSUME TypeOK, QueueOK, queue # <<>>, queue' = Tail(queue),
           seg' = seg \/ seg' = Head(queue),
           UNCHANGED <<terminalIntentQueued, currentIntent>>
    PROVE  QueueOK'
<1>. USE DEF TypeOK
<1>1. /\ queue' \in Seq(Event) /\ Len(queue') = Len(queue) - 1
      /\ \A i \in 1..Len(queue') : queue'[i] = queue[i + 1]
      /\ Len(queue) \in Nat \ {0} /\ Len(queue') \in Nat
      BY HeadTailProperties, EmptySeq
<1>2. \A i \in 1..Len(queue') : i + 1 \in 1..Len(queue)
      BY <1>1
<1>3. \A i \in 1..Len(queue') : queue'[i].intent # NoId
      BY <1>1, <1>2 DEF QueueOK
<1>4. queue' # <<>> => queue'[1] # StartupAnnouncement
      <2>1. queue' # <<>> => 1 \in 1..Len(queue')
            BY <1>1
      <2>. QED BY <1>3, <2>1 DEF StartupAnnouncement
<1>5. DOMAIN queue = 1..Len(queue) /\ DOMAIN queue' = 1..Len(queue')
      BY <1>1
<1>6. OneBreakInQueue'
      BY <1>1, <1>2, <1>5 DEF QueueOK, OneBreakInQueue
<1>7. SignOffIsLast'
      <2>. SUFFICES ASSUME NEW i \in 1..Len(queue'), queue'[i].terminal
                    PROVE  i = Len(queue') /\ 1..(i - 1) = {}
           BY <1>5 DEF SignOffIsLast
      <2>1. i + 1 \in 1..Len(queue) /\ queue[i + 1].terminal
            BY <1>1, <1>2
      <2>2. \A k \in 1..Len(queue) : queue[k].terminal =>
               /\ k = Len(queue)
               /\ \A j \in 1..(k - 1) : queue[j] = StartupAnnouncement
            BY <1>5 DEF QueueOK, SignOffIsLast
      <2>3. i + 1 = Len(queue)
            BY <2>1, <2>2
      <2>4. \A j \in 1..i : queue[j] = StartupAnnouncement
            BY <2>1, <2>2, (i + 1) - 1 = i
      <2>5. \A j \in 1..i : queue[j].intent = NoId /\ j \in 1..Len(queue)
            BY <1>1, <2>1, <2>4 DEF StartupAnnouncement
      <2>6. i \in 1..i /\ i \in Nat
            OBVIOUS
      <2>7. i = 1
            BY <2>5, <2>6 DEF QueueOK
      <2>. QED BY <1>1, <2>3, <2>7
<1>8. \A i \in 1..Len(queue') :
         queue'[i].type # "none" /\ (queue'[i].terminal => terminalIntentQueued')
      BY <1>1, <1>2 DEF QueueOK
<1>9. HasIntent' => \A i \in 1..Len(queue') : queue'[i].intent # currentIntent'.id
      BY <1>1, <1>2 DEF QueueOK, HasIntent
<1>10. seg'.terminal => queue' = <<>> /\ terminalIntentQueued'
       <2>. SUFFICES ASSUME seg'.terminal PROVE queue' = <<>> /\ terminalIntentQueued'
            OBVIOUS
       <2>1. seg' = queue[1] /\ 1 \in 1..Len(queue)
             BY <1>1 DEF QueueOK
       <2>2. Len(queue) = 1 /\ terminalIntentQueued
             BY <1>5, <2>1 DEF QueueOK, SignOffIsLast
       <2>. QED BY <1>1, <2>2, EmptySeq
<1>. QED BY <1>3, <1>4, <1>6, <1>7, <1>8, <1>9, <1>10 DEF QueueOK

(* A DO pushes onto an empty queue; only a sign-off finds the startup        *)
(* announcement still there.                                                 *)
LEMMA QueuePushed ==
    ASSUME TypeOK, QueueOK, NEW b \in DJIntent, b.id # NoId,
           queue = <<>> \/ (b.terminal /\ queue = <<StartupAnnouncement>>),
           queue' = queue \o QueueOrder(b),
           b.terminal => terminalIntentQueued',
           currentIntent' = NoIntent, seg' = seg, ~seg.terminal
    PROVE  QueueOK'
<1>. USE DEF TypeOK
<1>. DEFINE q == QueueOrder(b)
<1>1. /\ q \in Seq(Event) /\ Len(q) \in Nat
      /\ \A i \in 1..Len(q) :
           q[i].intent = b.id /\ q[i].terminal = b.terminal /\ q[i].type # "none"
      /\ b.terminal => Len(q) \in {0, 1}
      BY QueueOrderFacts, LenProperties
<1>. HIDE DEF q
<1>2. NoIntent.id = NoId /\ StartupAnnouncement.intent = NoId
      /\ ~StartupAnnouncement.terminal /\ StartupAnnouncement.type # "none"
      BY DEF NoIntent, StartupAnnouncement
<1>3. CASE queue = <<>>
      <2>1. queue' = q
            BY <1>1, <1>3, ConcatEmptySeq DEF q
      <2>2. DOMAIN queue' = 1..Len(queue')
            BY <1>1, <2>1, LenProperties
      <2>3. OneBreakInQueue' /\ SignOffIsLast'
            BY <1>1, <2>1, <2>2 DEF OneBreakInQueue, SignOffIsLast
      <2>4. queue' # <<>> => queue'[1] # StartupAnnouncement
            BY <1>1, <1>2, <2>1, EmptySeq
      <2>. QED BY <1>1, <1>2, <2>1, <2>3, <2>4 DEF QueueOK, HasIntent
<1>4. CASE b.terminal /\ queue = <<StartupAnnouncement>>
      <2>1. /\ Len(queue) = 1 /\ queue[1] = StartupAnnouncement /\ queue # <<>>
            /\ queue' \in Seq(Event) /\ Len(queue') = 1 + Len(q)
            /\ queue'[1] = StartupAnnouncement
            /\ \A i \in 2..Len(queue') : queue'[i] = q[i - 1] /\ i - 1 \in 1..Len(q)
            BY <1>1, <1>4, ConcatProperties DEF q
      <2>2. Len(queue') \in {1, 2} /\ DOMAIN queue' = 1..Len(queue')
            BY <1>1, <1>4, <2>1, LenProperties
      <2>3. \A i \in 1..Len(queue') :
               \/ i = 1 /\ queue'[i] = StartupAnnouncement
               \/ /\ i = 2 /\ i = Len(queue')
                  /\ queue'[i].intent = b.id /\ queue'[i].terminal = b.terminal
                  /\ queue'[i].type # "none"
            BY <1>1, <2>1, <2>2
      <2>4. OneBreakInQueue' /\ SignOffIsLast'
            BY <1>2, <2>2, <2>3 DEF OneBreakInQueue, SignOffIsLast
      <2>5. seg'.type = "none" /\ terminalIntentQueued' /\ ~seg'.terminal
            BY <1>4, <2>1 DEF QueueOK
      <2>. QED BY <1>2, <2>1, <2>3, <2>4, <2>5 DEF QueueOK, HasIntent
<1>. QED BY <1>3, <1>4

(* The queue keeps holding one break, a sign-off last. *)
LEMMA QueueStep == IInv /\ [Next]_vars => QueueOK'
<1>. SUFFICES ASSUME IInv, [Next]_vars PROVE QueueOK'
     OBVIOUS
<1>. USE DEF IInv, Goto, MainGoto,
             mainVars, djVars, flagVars, termVars, airVars, localVars
<1>1. CASE LoopTop
     BY <1>1, QueueKept DEF LoopTop
<1>2. CASE Mode
     BY <1>2, QueueKept, QueueTaken DEF Mode, Dequeue
<1>3. CASE Kick
     BY <1>3, QueueKept DEF Kick
<1>4. CASE Kicked
     BY <1>4, QueueKept DEF Kicked
<1>5. CASE Settle
     BY <1>5, QueueKept, QueueTaken DEF Settle, Dequeue
<1>6. CASE Start
     BY <1>6, QueueKept DEF Start
<1>7. CASE Think
     BY <1>7, QueueKept, BreakFacts DEF Think
<1>8. CASE Plan
     BY <1>8, QueueKept, BreakFacts DEF Plan, NoIntent
<1>9. CASE Hook
     BY <1>9, QueueKept DEF Hook
<1>10. CASE Play
     BY <1>10, QueueKept DEF Play
<1>11. CASE Finish
     BY <1>11, QueueKept DEF Finish
<1>12. CASE Wrap
     BY <1>12, QueueKept DEF Wrap
<1>13. CASE Do
     BY <1>13, QueueKept, BreakFacts DEF Do
<1>14. CASE Record
     BY <1>14, QueueKept DEF Record
<1>15. CASE Build
     BY <1>15, QueueKept DEF Build, Latch
<1>16. CASE Push
     BY <1>16, QueuePushed DEF Push, AtStep, HasIntent, TypeOK
<1>17. CASE Ret
     BY <1>17, QueueKept DEF Ret
<1>18. CASE Clear
     BY <1>18, QueueKept DEF Clear
<1>19. CASE Mark
     BY <1>19, QueueKept DEF Mark
<1>20. CASE BootThink
     BY <1>20, QueueKept, BreakFacts DEF BootThink
<1>21. CASE BootFails
     BY <1>21, QueueKept DEF BootFails, NoIntent
<1>22. CASE InjectAnnouncement
     <2>1. queue' = <<StartupAnnouncement>> /\ seg' = NoEvent /\ currentIntent' = NoIntent
           BY <1>22 DEF InjectAnnouncement, BeforeRun
     <2>2. Len(queue') = 1 /\ DOMAIN queue' = {1} /\ queue'[1] = StartupAnnouncement
           BY <2>1
     <2>3. OneBreakInQueue' /\ SignOffIsLast'
           BY <2>2 DEF OneBreakInQueue, SignOffIsLast, StartupAnnouncement
     <2>4. 1..Len(queue') = {1}
           BY <2>2
     <2>5. seg'.type = "none" /\ ~seg'.terminal /\ ~HasIntent'
           BY <2>1 DEF HasIntent, NoEvent, NoIntent
     <2>6. StartupAnnouncement.type # "none" /\ ~StartupAnnouncement.terminal
           BY DEF StartupAnnouncement
     <2>7. \A i \in 1..Len(queue') : i = 1 /\ queue'[i] = StartupAnnouncement
           BY <2>2, <2>4
     <2>. QED BY <2>2, <2>3, <2>5, <2>6, <2>7 DEF QueueOK
<1>23. CASE FirstBreak
     <2>. PICK b \in SongBreaks : queue' = QueueOrder(b)
          BY <1>23 DEF FirstBreak
     <2>1. b \in DJIntent /\ b.id # NoId /\ ~b.terminal
           BY BreakFacts, StationAssumption
     <2>2. queue = <<>> /\ seg = NoEvent
           BY <1>23 DEF FirstBreak, BeforeRun
     <2>3. queue' = queue \o QueueOrder(b)
           BY <2>1, <2>2, QueueOrderFacts, ConcatEmptySeq
     <2>. QED BY <1>23, <2>1, <2>2, <2>3, QueuePushed DEF FirstBreak, NoEvent
<1>24. CASE Notify
     BY <1>24, QueueKept DEF Notify
<1>25. CASE Run
     BY <1>25, QueueKept DEF Run
<1>26. CASE Stop
     BY <1>26, QueueKept DEF Stop
<1>27. CASE DrainEngine
     BY <1>27, QueueKept DEF DrainEngine
<1>28. CASE AwaitPlayout
     BY <1>28, QueueKept DEF AwaitPlayout
<1>29. CASE PostShutdown
     BY <1>29, QueueKept DEF PostShutdown
<1>30. CASE EnterPhase2
     BY <1>30, QueueKept DEF EnterPhase2
<1>31. CASE ReportShutdown
     BY <1>31, QueueKept DEF ReportShutdown
<1>32. CASE Detach
     BY <1>32, QueueKept DEF Detach
<1>33. CASE Recheck
     BY <1>33, QueueKept DEF Recheck
<1>34. CASE Halt
     BY <1>34, QueueKept DEF Halt
<1>35. CASE Join
     BY <1>35, QueueKept DEF Join
<1>36. CASE UNCHANGED vars
     BY <1>36, QueueKept DEF vars
<1>. QED BY <1>1, <1>2, <1>3, <1>4, <1>5, <1>6, <1>7, <1>8, <1>9, <1>10,
            <1>11, <1>12, <1>13, <1>14, <1>15, <1>16, <1>17, <1>18, <1>19,
            <1>20, <1>21, <1>22, <1>23, <1>24, <1>25, <1>26, <1>27, <1>28,
            <1>29, <1>30, <1>31, <1>32, <1>33, <1>34, <1>35, <1>36
         DEF Next, PlayoutStep, StartStep, StopStep

-----------------------------------------------------------------------------
(* Every reachable state satisfies the inductive invariant.                  *)
THEOREM Invariance == Spec => []IInv
<1>1. Init => IInv
      <2>. SUFFICES ASSUME Init PROVE IInv
           OBVIOUS
      <2>1. TypeOK
            BY InitType
      <2>2. Flags /\ BeforeRun /\ AtStep
            BY DEF Init, Flags, BeforeStop, BeforeRun, AtStep, InDo, InDrain,
                   HasTerminalIntent, HasIntent, NoIntent
      <2>3. queue = <<>> /\ seg = NoEvent /\ currentIntent = NoIntent
            BY DEF Init
      <2>4. Len(queue) = 0 /\ DOMAIN queue = {} /\ 1..Len(queue) = {}
            BY <2>3
      <2>5. QueueOK
            BY <2>3, <2>4 DEF QueueOK, OneBreakInQueue, SignOffIsLast, HasIntent,
                              NoIntent, NoEvent
      <2>. QED BY <2>1, <2>2, <2>5 DEF IInv
<1>2. IInv /\ [Next]_vars => IInv'
      BY TypeStep, FlagsStep, BeforeRunStep, AtStepStep, QueueStep DEF IInv
<1>. QED BY <1>1, <1>2, PTL DEF Spec

(* The queue never holds segments of two breaks: the check on_segment_finished *)
(* makes of the queue's head is enough, for every interleaving with stop().    *)
THEOREM OneBreak == Spec => []OneBreakInQueue
<1>1. IInv => OneBreakInQueue
      BY DEF IInv, QueueOK
<1>. QED BY <1>1, Invariance, PTL

(* A queued sign-off is last, behind at most the startup announcement.       *)
THEOREM SignOffLast == Spec => []SignOffIsLast
<1>1. IInv => SignOffIsLast
      BY DEF IInv, QueueOK
<1>. QED BY <1>1, Invariance, PTL

(* Once the playout loop has taken the sign-off, it never takes another      *)
(* segment, however the drain goes on.                                       *)
THEOREM SignOffEndsTheBroadcast == Spec => NothingAfterSignOff
<1>1. IInv /\ [Next]_vars => [seg.terminal => seg' = seg]_vars
      <2>. SUFFICES ASSUME IInv, [Next]_vars, seg.terminal PROVE seg' = seg
           OBVIOUS
      <2>1. queue = <<>>
            BY DEF IInv, QueueOK
      <2>2. CASE PlayoutStep
            BY <2>1, <2>2 DEF PlayoutStep, localVars, LoopTop, Mode, Kick, Kicked, Settle,
               Start, Think, Plan, Hook, Play, Finish, Wrap, Do, Record, Build, Push, Ret,
               Clear, Mark, Dequeue
      <2>3. CASE StartStep \/ Stop \/ StopStep
            BY <2>3 DEF localVars, StartStep, BootThink, BootFails, InjectAnnouncement,
               FirstBreak, Notify, Run, Stop, StopStep, DrainEngine, AwaitPlayout,
               PostShutdown, EnterPhase2, ReportShutdown, Detach, Recheck, Halt, Join
      <2>4. CASE UNCHANGED vars
            BY <2>4 DEF vars, localVars
      <2>. QED BY <2>2, <2>3, <2>4 DEF Next
<1>. QED BY <1>1, Invariance, PTL DEF Spec, NothingAfterSignOff

-----------------------------------------------------------------------------
(* On top of the invariant: StationPlayout implements Broadcast, the        *)
(* promise made to a listener, and no break is lost while nobody stops the  *)
(* station, both for any set of faults; and, for a station without faults,  *)
(* the report matches the air and nothing is cut off.                       *)

Rank == Air!Rank

(* A part of a break, which is neither greeting nor sign-off. *)
IsPart(e) == e.intent # NoId /\ ~e.terminal

(* What is queued is what Broadcast can air, in the order it asks for, and  *)
(* what is on air lets the rest of the queue follow it: it is an earlier    *)
(* part of the same break, or the end of the break before.                  *)
InOrder ==
    /\ \A i \in 1..Len(queue) :
         queue[i].intent # NoId =>
            queue[i] \in IF queue[i].terminal THEN Air!SignOffs ELSE Air!Items
    /\ \A i, j \in 1..Len(queue) :
         i < j /\ IsPart(queue[i]) /\ IsPart(queue[j])
            => Rank[queue[i].type] < Rank[queue[j].type]
    /\ \A i \in 1..Len(queue) :
         IsPart(queue[i]) =>
            IF queue[i].intent = seg.intent
            THEN seg.type \in Air!Parts /\ Rank[seg.type] < Rank[queue[i].type]
            ELSE seg.type \in {"none", "announcement", "song"}
    /\ seg.type = "none" => seg = NoEvent
    /\ HasIntent => seg.intent # currentIntent.id

(* A break is queued when what called for it has ended. *)
DoKnows == pc \in {"record", "build", "push"} /\ ~isTerminal => TriggersBreak(seg)

BInv == IInv /\ InOrder /\ DoKnows

-----------------------------------------------------------------------------
(* The parts of a break in playing order *)

LEMMA RankType ==
    /\ Air!Parts = {"outro", "id", "intro", "song"}
    /\ Rank["outro"] = 1 /\ Rank["id"] = 2 /\ Rank["intro"] = 3 /\ Rank["song"] = 4
BY DEF Rank, Air!Rank, Air!Parts

(* A stretch of break b: its parts have ranks from lo to hi, and they rise.  *)
Stretch(b, lo, hi, s) ==
    /\ s \in Seq(Event)
    /\ \A i \in 1..Len(s) :
         /\ s[i].type \in Air!Parts /\ s[i].intent = b.id /\ s[i].terminal = b.terminal
         /\ lo <= Rank[s[i].type] /\ Rank[s[i].type] <= hi
    /\ \A i, j \in 1..Len(s) : i < j => Rank[s[i].type] < Rank[s[j].type]

LEMMA PartIsStretch ==
    ASSUME NEW b \in DJIntent, NEW t \in Air!Parts
    PROVE  Stretch(b, Rank[t], Rank[t], Piece(b, t))
<1> DEFINE e == [type |-> t, intent |-> b.id, terminal |-> b.terminal]
<1>1. e \in Event
      BY RankType DEF Event, DJIntent, SegmentTypes
<1>2. Rank[t] \in Nat
      BY RankType
<1>3. /\ <<e>> \in Seq(Event) /\ Len(<<e>>) = 1 /\ <<e>>[1] = e
      /\ << >> \in Seq(Event) /\ Len(<< >>) = 0
      BY <1>1
<1>4. /\ e.type = t /\ e.intent = b.id /\ e.terminal = b.terminal
      OBVIOUS
<1>5. CASE Piece(b, t) = <<e>>
      <2>1. 1..Len(Piece(b, t)) = {1} /\ Piece(b, t)[1] = e
            BY <1>3, <1>5
      <2> HIDE DEF e
      <2> QED BY <1>2, <1>3, <1>4, <1>5, <2>1 DEF Stretch
<1>6. CASE Piece(b, t) = << >>
      <2>1. 1..Len(Piece(b, t)) = {}
            BY <1>3, <1>6
      <2> QED BY <1>3, <1>6, <2>1 DEF Stretch
<1> QED BY <1>5, <1>6 DEF Piece

LEMMA StretchesJoin ==
    ASSUME NEW b \in DJIntent, NEW lo \in Nat, NEW m \in Nat, NEW n \in Nat, NEW hi \in Nat,
           m < n, lo <= m, n <= hi, NEW s, NEW t, Stretch(b, lo, m, s), Stretch(b, n, hi, t)
    PROVE  Stretch(b, lo, hi, s \o t)
<1> DEFINE u == s \o t
<1>1. /\ s \in Seq(Event) /\ t \in Seq(Event) /\ Len(s) \in Nat /\ Len(t) \in Nat
      BY DEF Stretch
<1>2. /\ u \in Seq(Event) /\ Len(u) = Len(s) + Len(t)
      /\ \A i \in 1..Len(u) :
           \/ i \in 1..Len(s) /\ u[i] = s[i]
           \/ i - Len(s) \in 1..Len(t) /\ i > Len(s) /\ u[i] = t[i - Len(s)]
      BY <1>1, ConcatProperties
<1> HIDE DEF u
<1>3. \A p \in Air!Parts : Rank[p] \in Nat
      BY RankType
<1>4. ASSUME NEW i \in 1..Len(u)
      PROVE  /\ u[i].type \in Air!Parts /\ u[i].intent = b.id /\ u[i].terminal = b.terminal
             /\ lo <= Rank[u[i].type] /\ Rank[u[i].type] <= hi
      <2>1. CASE i \in 1..Len(s) /\ u[i] = s[i]
            <3>1. /\ u[i].type \in Air!Parts /\ u[i].intent = b.id
                  /\ u[i].terminal = b.terminal
                  /\ lo <= Rank[u[i].type] /\ Rank[u[i].type] <= m
                  BY <2>1 DEF Stretch
            <3>2. Rank[u[i].type] \in Nat
                  BY <1>3, <3>1
            <3> QED BY <3>1, <3>2
      <2>2. CASE i - Len(s) \in 1..Len(t) /\ u[i] = t[i - Len(s)]
            <3>1. /\ u[i].type \in Air!Parts /\ u[i].intent = b.id
                  /\ u[i].terminal = b.terminal
                  /\ n <= Rank[u[i].type] /\ Rank[u[i].type] <= hi
                  BY <2>2 DEF Stretch
            <3>2. Rank[u[i].type] \in Nat
                  BY <1>3, <3>1
            <3> QED BY <3>1, <3>2
      <2> QED BY <1>2, <2>1, <2>2
<1>5. ASSUME NEW i \in 1..Len(u), NEW j \in 1..Len(u), i < j
      PROVE  Rank[u[i].type] < Rank[u[j].type]
      <2>1. CASE j \in 1..Len(s) /\ u[j] = s[j]
            BY <1>1, <1>2, <1>5, <2>1 DEF Stretch
      <2>2. CASE i \in 1..Len(s) /\ u[i] = s[i] /\ j > Len(s) /\ u[j] = t[j - Len(s)]
                    /\ j - Len(s) \in 1..Len(t)
            BY <1>1, <1>3, <2>2 DEF Stretch
      <2>3. CASE i > Len(s) /\ j > Len(s) /\ u[i] = t[i - Len(s)] /\ u[j] = t[j - Len(s)]
                    /\ i - Len(s) \in 1..Len(t) /\ j - Len(s) \in 1..Len(t)
            <3>1. i - Len(s) < j - Len(s)
                  BY <1>1, <1>5
            <3> QED BY <2>3, <3>1 DEF Stretch
      <2> QED BY <1>1, <1>2, <1>5, <2>1, <2>2, <2>3
<1> QED BY <1>2, <1>4, <1>5 DEF Stretch, u

(* A DO queues the parts of its break in the order in which they play, or   *)
(* at most a sign-off.                                                      *)
LEMMA QueueOrderIsOrder ==
    ASSUME NEW b \in DJIntent
    PROVE  /\ ~b.terminal => Stretch(b, 1, 4, QueueOrder(b))
           /\ b.terminal =>
                /\ Len(QueueOrder(b)) \in {0, 1}
                /\ \A i \in 1..Len(QueueOrder(b)) :
                     QueueOrder(b)[i] = [type |-> "announcement", intent |-> b.id,
                                         terminal |-> b.terminal]
<1>1. /\ Stretch(b, 1, 1, Piece(b, "outro")) /\ Stretch(b, 2, 2, Piece(b, "id"))
      /\ Stretch(b, 3, 3, Piece(b, "intro")) /\ Stretch(b, 4, 4, Piece(b, "song"))
      BY PartIsStretch, RankType
<1>2. Stretch(b, 1, 2, Piece(b, "outro") \o Piece(b, "id"))
      BY <1>1, StretchesJoin
<1>3. Stretch(b, 1, 3, Piece(b, "outro") \o Piece(b, "id") \o Piece(b, "intro"))
      BY <1>1, <1>2, StretchesJoin
<1>4. Stretch(b, 1, 4, Piece(b, "outro") \o Piece(b, "id") \o Piece(b, "intro")
                          \o Piece(b, "song"))
      BY <1>1, <1>3, StretchesJoin
<1>5. ASSUME b.terminal
      PROVE  /\ Len(QueueOrder(b)) \in {0, 1}
             /\ \A i \in 1..Len(QueueOrder(b)) :
                  QueueOrder(b)[i] = [type |-> "announcement", intent |-> b.id,
                                      terminal |-> b.terminal]
      <2> DEFINE e == [type |-> "announcement", intent |-> b.id, terminal |-> b.terminal]
      <2>1. QueueOrder(b) = <<e>> \/ QueueOrder(b) = << >>
            BY <1>5 DEF QueueOrder, Piece
      <2>2. Len(<<e>>) = 1 /\ 1..1 = {1} /\ <<e>>[1] = e /\ Len(<< >>) = 0 /\ 1..0 = {}
            OBVIOUS
      <2> HIDE DEF e
      <2>3. /\ Len(QueueOrder(b)) \in {0, 1}
            /\ \A i \in 1..Len(QueueOrder(b)) : QueueOrder(b)[i] = e
            BY <2>1, <2>2
      <2> QED BY <2>3 DEF e
<1> QED BY <1>4, <1>5 DEF QueueOrder

-----------------------------------------------------------------------------
(* The queue stays in order *)

(* A step that leaves the queue and the air alone. *)
LEMMA OrderKept ==
    ASSUME InOrder, queue' = queue, seg' = seg,
           \/ currentIntent' = currentIntent
           \/ currentIntent'.id = NoId
           \/ currentIntent'.id \notin LiveIds
    PROVE  InOrder'
BY DEF InOrder, HasIntent, LiveIds

(* The head of the queue is taken, to be played or to be discarded. *)
LEMMA OrderTaken ==
    ASSUME TypeOK, QueueOK, InOrder, queue # <<>>, queue' = Tail(queue),
           seg' = seg \/ seg' = Head(queue), UNCHANGED currentIntent
    PROVE  InOrder'
<1>1. /\ queue' \in Seq(Event) /\ Len(queue') = Len(queue) - 1
      /\ \A i \in 1..Len(queue') : queue'[i] = queue[i + 1]
      /\ Len(queue) \in Nat \ {0} /\ Len(queue') \in Nat
      /\ Head(queue) = queue[1] /\ DOMAIN queue = 1..Len(queue)
      BY HeadTailProperties, EmptySeq DEF TypeOK
<1>2. \A i \in 1..Len(queue') : i + 1 \in 1..Len(queue)
      BY <1>1
<1>3. \A i \in 1..Len(queue') :
         queue'[i].intent # NoId =>
            queue'[i] \in IF queue'[i].terminal THEN Air!SignOffs ELSE Air!Items
      BY <1>1, <1>2 DEF InOrder
<1>4. ASSUME NEW i \in 1..Len(queue'), NEW j \in 1..Len(queue'),
             i < j, IsPart(queue'[i]), IsPart(queue'[j])
      PROVE  Rank[queue'[i].type] < Rank[queue'[j].type]
      <2>1. /\ i + 1 \in 1..Len(queue) /\ j + 1 \in 1..Len(queue) /\ i + 1 < j + 1
            /\ queue'[i] = queue[i + 1] /\ queue'[j] = queue[j + 1]
            BY <1>1, <1>2, <1>4
      <2> QED BY <1>4, <2>1 DEF InOrder
<1>5. ASSUME NEW i \in 1..Len(queue'), IsPart(queue'[i])
      PROVE  IF queue'[i].intent = seg'.intent
             THEN seg'.type \in Air!Parts /\ Rank[seg'.type] < Rank[queue'[i].type]
             ELSE seg'.type \in {"none", "announcement", "song"}
      <2>1. /\ i + 1 \in 1..Len(queue) /\ queue'[i] = queue[i + 1] /\ 1 < i + 1
            /\ 1 \in 1..Len(queue)
            BY <1>1, <1>2
      <2>2. CASE seg' = seg
            BY <1>5, <2>1, <2>2 DEF InOrder
      <2>3. CASE seg' = queue[1] /\ queue[1].intent = NoId
            <3>1. seg'.type = "announcement" /\ seg'.intent = NoId
                  BY <2>1, <2>3 DEF QueueOK, StartupAnnouncement
            <3> QED BY <1>5, <3>1 DEF IsPart
      <2>4. CASE seg' = queue[1] /\ queue[1].intent # NoId
            <3>1. queue'[i].intent = seg'.intent
                  BY <1>1, <1>5, <2>1, <2>4 DEF QueueOK, OneBreakInQueue, IsPart
            <3>2. ~queue[1].terminal
                  BY <1>1, <2>1 DEF QueueOK, SignOffIsLast
            <3>3. seg'.type \in Air!Parts
                  BY <2>1, <2>4, <3>2 DEF InOrder, Air!Items
            <3>4. Rank[queue[1].type] < Rank[queue[i + 1].type]
                  BY <1>5, <2>1, <2>4, <3>2 DEF InOrder, IsPart
            <3> QED BY <2>1, <2>4, <3>1, <3>3, <3>4
      <2> QED BY <1>1, <2>2, <2>3, <2>4
<1>6. seg'.type = "none" => seg' = NoEvent
      BY <1>1 DEF InOrder, QueueOK
<1>7. HasIntent' => seg'.intent # currentIntent'.id
      BY <1>1 DEF InOrder, QueueOK, HasIntent
<1> QED BY <1>3, <1>4, <1>5, <1>6, <1>7 DEF InOrder

(* A DO pushes, when a song or an announcement has ended, or a sign-off.    *)
LEMMA OrderPushed ==
    ASSUME TypeOK, InOrder, NEW b \in DJIntent, b.id \in Intents, b.id # seg.intent,
           queue = <<>> \/ (b.terminal /\ queue = <<StartupAnnouncement>>),
           queue' = queue \o QueueOrder(b),
           b.terminal \/ seg.type \in {"none", "announcement", "song"},
           currentIntent' = NoIntent, seg' = seg
    PROVE  InOrder'
<1> DEFINE q == QueueOrder(b)
<1>1. /\ q \in Seq(Event) /\ Len(q) \in Nat
      /\ ~b.terminal => Stretch(b, 1, 4, q)
      /\ b.terminal =>
           /\ Len(q) \in {0, 1}
           /\ \A i \in 1..Len(q) :
                q[i] = [type |-> "announcement", intent |-> b.id, terminal |-> b.terminal]
      BY QueueOrderFacts, QueueOrderIsOrder, LenProperties
<1> HIDE DEF q
<1>2. /\ NoIntent.id = NoId /\ StartupAnnouncement.intent = NoId
      /\ b.id # NoId /\ b.terminal \in BOOLEAN
      BY StationAssumption DEF NoIntent, StartupAnnouncement, DJIntent
<1>3. CASE b.terminal
      <2>1. b.terminal = TRUE
            BY <1>2, <1>3, Zenon
      <2>2. /\ queue \in Seq(Event) /\ Len(queue) \in {0, 1}
            /\ \A i \in 1..Len(queue) : queue[i] = StartupAnnouncement
            BY DEF TypeOK
      <2>3. /\ Len(queue') = Len(queue) + Len(q)
            /\ \A i \in 1..Len(queue') :
                 \/ i \in 1..Len(queue) /\ queue'[i] = queue[i]
                 \/ i - Len(queue) \in 1..Len(q) /\ queue'[i] = q[i - Len(queue)]
            BY <1>1, <2>2, ConcatProperties DEF q
      <2>4. \A i \in 1..Len(queue') :
               \/ queue'[i] = StartupAnnouncement
               \/ queue'[i] = [type |-> "announcement", intent |-> b.id, terminal |-> TRUE]
            BY <1>1, <1>3, <2>1, <2>2, <2>3
      <2>5. \A i \in 1..Len(queue') :
               \/ queue'[i].intent = NoId
               \/ queue'[i].terminal /\ queue'[i] \in Air!SignOffs
        <3> DEFINE e == [type |-> "announcement", intent |-> b.id, terminal |-> TRUE]
        <3>1. e.terminal /\ e \in Air!SignOffs
              BY DEF Air!SignOffs
        <3> HIDE DEF e
        <3>2. \A i \in 1..Len(queue') : queue'[i] = StartupAnnouncement \/ queue'[i] = e
              BY <2>4 DEF e
        <3> QED BY <1>2, <3>1, <3>2
      <2> QED BY <1>2, <2>5 DEF InOrder, IsPart, HasIntent
<1>4. CASE ~b.terminal
      <2>1. queue' = q
            BY <1>1, <1>4, ConcatEmptySeq DEF q
      <2>2. b.terminal = FALSE
            BY <1>2, <1>4, Zenon
      <2>3. \A i \in 1..Len(q) : q[i].type \in Air!Parts /\ q[i].intent = b.id
                                   /\ q[i].terminal = FALSE /\ q[i] \in Event
            BY <1>1, <1>4, <2>2 DEF Stretch
      <2>4. \A i \in 1..Len(q) : q[i] \in Air!Items
            BY <2>3 DEF Air!Items, Event
      <2>5. \A i, j \in 1..Len(q) : i < j => Rank[q[i].type] < Rank[q[j].type]
            BY <1>1, <1>4 DEF Stretch
      <2>6. seg.type \in {"none", "announcement", "song"}
            BY <1>4
      <2> QED BY <1>2, <2>1, <2>3, <2>4, <2>5, <2>6 DEF InOrder, IsPart, HasIntent
<1> QED BY <1>3, <1>4

LEMMA OrderStep == BInv /\ [Next]_vars => InOrder'
<1> SUFFICES ASSUME BInv, [Next]_vars PROVE InOrder'
    OBVIOUS
<1> USE DEF BInv, IInv, djVars, localVars
<1>1. CASE Mode \/ Settle
      BY <1>1, OrderKept, OrderTaken DEF Mode, Settle, Dequeue
<1>2. CASE Think \/ Plan \/ Do
      BY <1>2, OrderKept, BreakFacts DEF Think, Plan, Do, NoIntent
<1>3. CASE Push
      <2>1. /\ currentIntent \in DJIntent /\ HasIntent /\ pc = "push"
            /\ queue = <<>> \/ (isTerminal /\ queue = <<StartupAnnouncement>>)
            /\ isTerminal = currentIntent.terminal
            BY <1>3 DEF Push, AtStep, TypeOK
      <2>2. currentIntent.id \in Intents /\ currentIntent.id # seg.intent
            BY <2>1 DEF InOrder, HasIntent, DJIntent
      <2>3. currentIntent.terminal \/ seg.type \in {"none", "announcement", "song"}
            BY <2>1 DEF DoKnows, TriggersBreak
      <2> QED BY <1>3, <2>1, <2>2, <2>3, OrderPushed DEF Push
<1>4. CASE LoopTop \/ Kick \/ Kicked \/ Start \/ Hook \/ Play \/ Finish \/ Wrap \/ Record
           \/ Build \/ Ret \/ Clear \/ Mark
      BY <1>4, OrderKept DEF LoopTop, Kick, Kicked, Start, Hook, Play, Finish, Wrap, Record,
         Build, Ret, Clear, Mark
<1>5. CASE BootThink \/ BootFails
      BY <1>5, OrderKept, BreakFacts DEF BootThink, BootFails, NoIntent
<1>6. CASE InjectAnnouncement
      <2>1. queue' = <<StartupAnnouncement>> /\ seg' = seg /\ currentIntent' = NoIntent
            BY <1>6 DEF InjectAnnouncement
      <2>2. \A i \in 1..Len(queue') : queue'[i].intent = NoId
            BY <2>1 DEF StartupAnnouncement
      <2> QED BY <2>1, <2>2 DEF InOrder, IsPart, HasIntent, NoIntent
<1>7. CASE FirstBreak
      <2> PICK b \in SongBreaks : queue' = QueueOrder(b)
          BY <1>7 DEF FirstBreak
      <2>1. b \in DJIntent /\ b.id \in Intents /\ b.id # NoId /\ ~b.terminal
            BY BreakFacts, StationAssumption
      <2>2. queue = <<>> /\ seg = NoEvent
            BY <1>7 DEF FirstBreak, BeforeRun
      <2>3. queue' = queue \o QueueOrder(b)
            BY <2>1, <2>2, QueueOrderFacts, ConcatEmptySeq
      <2> QED BY <1>7, <2>1, <2>2, <2>3, OrderPushed DEF FirstBreak, NoEvent
<1>8. CASE Notify \/ Run \/ Stop \/ StopStep
      BY <1>8, OrderKept DEF Notify, Run, Stop, StopStep, DrainEngine, AwaitPlayout,
         PostShutdown, EnterPhase2, ReportShutdown, Detach, Recheck, Halt, Join
<1>9. CASE UNCHANGED vars
      BY <1>9, OrderKept DEF vars
<1> QED BY <1>1, <1>2, <1>3, <1>4, <1>5, <1>6, <1>7, <1>8, <1>9
        DEF Next, PlayoutStep, StartStep

(* What the DO has found out about the segment that ended stays true. *)
LEMMA DoStep == BInv /\ [Next]_vars => DoKnows'
<1> SUFFICES ASSUME BInv, [Next]_vars PROVE DoKnows'
    OBVIOUS
<1> USE DEF BInv, IInv, DoKnows, Goto, localVars
<1>1. CASE Do
      <2>1. CASE pc' = "record"
            BY <1>1, <2>1 DEF Do, Return, Raise, HasTerminalIntent, Flags, Finished, AtStep, TypeOK,
               InDo
      <2>2. CASE pc' # "record"
            BY <1>1, <2>2 DEF Do, Return, Raise
      <2> QED BY <2>1, <2>2
<1>2. CASE Record \/ Build \/ Push
      BY <1>2 DEF Record, Build, Push, Return, Raise, TriggersBreak
<1>3. CASE LoopTop \/ Mode \/ Kick \/ Kicked \/ Settle \/ Start \/ Think \/ Plan \/ Hook
           \/ Play \/ Finish \/ Wrap \/ Ret \/ Clear \/ Mark
      BY <1>3 DEF LoopTop, Mode, Kick, Kicked, Settle, Start, Think, Plan, Hook, Play, Finish,
         Wrap, Raise, Ret, Clear, Mark
<1>4. CASE StartStep \/ Stop \/ StopStep
      BY <1>4 DEF StartStep, BootThink, BootFails, InjectAnnouncement, FirstBreak, Notify, Run,
         Stop, StopStep, DrainEngine, AwaitPlayout, PostShutdown, EnterPhase2, ReportShutdown,
         Detach, Recheck, Halt, Join, TriggersBreak
<1>5. CASE UNCHANGED vars
      BY <1>5 DEF vars, TriggersBreak
<1> QED BY <1>1, <1>2, <1>3, <1>4, <1>5 DEF Next, PlayoutStep

-----------------------------------------------------------------------------
(* The invariant so far holds in every reachable state. *)
LEMMA InOrderAlways == Spec => []BInv
<1>1. Init => InOrder /\ DoKnows
      <2> SUFFICES ASSUME Init PROVE InOrder /\ DoKnows
          OBVIOUS
      <2>1. queue = <<>> /\ seg = NoEvent /\ currentIntent = NoIntent /\ pc = "off"
            BY DEF Init
      <2>2. 1..Len(queue) = {}
            BY <2>1
      <2> QED BY <2>1, <2>2 DEF InOrder, DoKnows, HasIntent, NoIntent
<1>2. BInv /\ IInv' /\ [Next]_vars => BInv'
      BY OrderStep, DoStep DEF BInv
<1>3. IInv /\ Init => BInv
      BY <1>1 DEF BInv
<1> QED BY <1>2, <1>3, Invariance, PTL DEF Spec

(* A segment that is taken is one Broadcast allows, whatever is on air. *)
LEMMA TakenIsAllowed ==
    ASSUME BInv, queue # <<>>, seg' = Head(queue), UNCHANGED <<djDraining, engDraining>>,
           Head(queue).terminal \/ ~engDraining
    PROVE  Air!Next
<1> DEFINE e == Head(queue)
<1>1. e = queue[1] /\ 1 \in 1..Len(queue)
      BY HeadTailProperties, EmptySeq DEF BInv, IInv, TypeOK
<1>2. Hours' = Hours /\ (~engDraining => Hours # "closed")
      BY DEF Hours
<1>3. ~seg.terminal
      BY DEF BInv, IInv, QueueOK
<1>4. CASE e.intent = NoId
      <2>1. e = StartupAnnouncement
            BY <1>1, <1>4 DEF BInv, IInv, QueueOK
      <2>2. seg = NoEvent /\ ~e.terminal
            BY <1>1, <2>1 DEF BInv, IInv, QueueOK, InOrder, StartupAnnouncement
      <2> QED BY <1>2, <2>1, <2>2 DEF Air!Next, Air!Greet, Air!Silence, Air!Greeting, NoEvent,
              StartupAnnouncement
<1>5. CASE e.intent # NoId /\ e.terminal
      <2>1. e \in Air!SignOffs /\ djDraining
            BY <1>1, <1>5 DEF BInv, IInv, QueueOK, Flags, InOrder
      <2>2. Hours # "open"
            BY <2>1 DEF Hours
      <2> QED BY <1>2, <1>3, <2>1, <2>2 DEF Air!Next, Air!SignOff
<1>6. CASE e.intent # NoId /\ ~e.terminal
      <2>1. e \in Air!Items
            BY <1>1, <1>6 DEF BInv, InOrder
      <2>2. Air!NextBreak(e) \/ Air!Continue(e)
            BY <1>1, <1>6 DEF BInv, InOrder, IsPart, Rank, Air!NextBreak, Air!Continue
      <2> QED BY <1>2, <1>3, <1>6, <2>1, <2>2 DEF Air!Next, Air!Air
<1> QED BY <1>4, <1>5, <1>6

(* The playout thread, the DJ and stop() together keep the promise made to  *)
(* a listener: one break at a time, its parts in order and none twice, one  *)
(* greeting before all else, one sign-off after all else, silence once      *)
(* closed.                                                                  *)
THEOREM PromiseKept == Spec => ImplementsBroadcast
<1>1. Init => Air!Init
      BY DEF Init, Air!Init, Air!Silence, NoEvent, Hours
<1>2. BInv /\ [Next]_vars => [Air!Next]_<<seg, Hours>>
      <2> SUFFICES ASSUME BInv, [Next]_vars PROVE [Air!Next]_<<seg, Hours>>
          OBVIOUS
      <2> USE DEF flagVars, localVars
      <2>1. CASE Mode
            BY <2>1, TakenIsAllowed DEF Mode, Dequeue, Hours
      <2>2. CASE Settle
            BY <2>2, TakenIsAllowed DEF Settle, Dequeue, Hours
      <2>3. CASE Stop
            BY <2>3 DEF Stop, Hours, Air!Next, Air!Close, BInv, IInv, Flags, BeforeStop
      <2>4. CASE DrainEngine
            BY <2>4 DEF DrainEngine, Hours, Air!Next, Air!Close, BInv, IInv, Flags, BeforeStop
      <2>5. CASE LoopTop \/ Kick \/ Kicked \/ Start \/ Think \/ Plan \/ Hook \/ Play \/ Finish
                 \/ Wrap \/ Do \/ Record \/ Build \/ Push \/ Ret \/ Clear \/ Mark
            BY <2>5 DEF LoopTop, Kick, Kicked, Start, Think, Plan, Hook, Play, Finish, Wrap, Do,
               Record, Build, Push, Ret, Clear, Mark, Hours
      <2>6. CASE \/ StartStep \/ AwaitPlayout \/ PostShutdown \/ EnterPhase2 \/ ReportShutdown
                 \/ Detach \/ Recheck \/ Halt \/ Join
            BY <2>6 DEF StartStep, BootThink, BootFails, InjectAnnouncement, FirstBreak, Notify,
               Run, AwaitPlayout, PostShutdown, EnterPhase2, ReportShutdown, Detach, Recheck,
               Halt, Join, Hours
      <2>7. CASE UNCHANGED vars
            BY <2>7 DEF vars, Hours
      <2> QED BY <2>1, <2>2, <2>3, <2>4, <2>5, <2>6, <2>7 DEF Next, PlayoutStep, StopStep
<1> QED BY <1>1, <1>2, InOrderAlways, PTL DEF Spec, ImplementsBroadcast, Air!Spec

-----------------------------------------------------------------------------
(* While nobody stops the station *)

(* From the moment a segment is taken to the moment its DO has pushed. *)
Airing == {"start", "think", "plan", "hook", "play", "finish",
           "wrap", "do", "record", "build", "push"}

(* A break that is decided belongs to the segment on air, which ends the    *)
(* break before, and the DO of which finds nothing to refuse.               *)
Committed ==
    /\ callback
    /\ mainPc \in {"boot", "notify", "run", "failed"} /\ pc = "off" => ~HasIntent
    /\ pc # "off" /\ HasIntent => isPlaying /\ TriggersBreak(current)
    /\ pc \in {"think", "plan", "ret", "clear"} => ~HasIntent
    /\ pc = "plan" => TriggersBreak(seg)
    /\ pc \in {"play", "finish"} => isPlaying
    /\ pc \in {"think", "plan", "hook"} \cup InDo => isPlaying /\ current = seg
    /\ pc \in Airing /\ TriggersBreak(seg) => queue = <<>>
    /\ seg.type = "none" => ~isPlaying

(* The startup announcement is followed by a DO that may push. *)
StartsUp ==
    /\ startupState \in EarlyStartup /\ queue # <<>> =>
         startupState = "STARTUP_ANNOUNCEMENT_PLAYING" /\ queue[1] = StartupAnnouncement
    /\ pc \in {"start", "think", "plan", "hook"} /\ startupState \in EarlyStartup =>
         startupState = "STARTUP_ANNOUNCEMENT_PLAYING" /\ seg = StartupAnnouncement
    /\ pc = "start" /\ startupState \in EarlyStartup => ~isPlaying
    /\ pc \in {"play", "finish", "wrap"} /\ HasIntent /\ startupState \in EarlyStartup =>
         startupState = "STARTUP_THINK_COMPLETE" /\ seg = StartupAnnouncement
    /\ pc \in {"do", "record", "build", "push"} /\ HasIntent => startupState \notin EarlyStartup

OnAir == ~djDraining => Committed /\ StartsUp

CInv == BInv /\ OnAir

-----------------------------------------------------------------------------
(* No break is lost *)

(* What a flag that is down tells both threads. *)
LEMMA NotStopping ==
    ASSUME CInv, [Next]_vars, ~djDraining'
    PROVE  /\ ~djDraining /\ ~engDraining /\ ~terminalIntentQueued /\ ~HasTerminalIntent
           /\ mainPc \in BeforeStop /\ Committed /\ StartsUp
           /\ ~Stop /\ ~StopStep
           /\ pc \notin InDrain /\ (pc \in InDo => caller = "finish")
           /\ \A i \in 1..Len(queue) : ~queue[i].terminal
<1>1. ~djDraining
      <2>1. CASE PlayoutStep
            BY <2>1 DEF PlayoutStep, flagVars, LoopTop, Mode, Kick, Kicked, Settle, Start,
               Think, Plan, Hook, Play, Finish, Wrap, Do, Record, Build, Push, Ret, Clear, Mark
      <2>2. CASE StartStep
            BY <2>2 DEF StartStep, flagVars, BootThink, BootFails, InjectAnnouncement,
               FirstBreak, Notify, Run
      <2>3. CASE Stop
            BY <2>3 DEF Stop
      <2>4. CASE StopStep
            BY <2>4 DEF StopStep, flagVars, DrainEngine, AwaitPlayout, PostShutdown, EnterPhase2,
               ReportShutdown, Detach, Recheck, Halt, Join
      <2>5. CASE UNCHANGED vars
            BY <2>5 DEF vars, flagVars
      <2> QED BY <2>1, <2>2, <2>3, <2>4, <2>5 DEF Next
<1>2. /\ ~engDraining /\ ~terminalIntentQueued /\ ~HasTerminalIntent
      /\ mainPc \in BeforeStop /\ Committed /\ StartsUp
      BY <1>1, TypeStep DEF CInv, BInv, IInv, Flags, OnAir, TypeOK, MainPcs, BeforeStop
<1>3. ~Stop /\ ~StopStep
      BY <1>2 DEF Stop, BeforeStop, StopStep, DrainEngine, AwaitPlayout, PostShutdown,
         EnterPhase2, ReportShutdown, Detach, Recheck, Halt, Join
<1>4. pc \notin InDrain /\ (pc \in InDo => caller = "finish")
      BY <1>2 DEF CInv, BInv, IInv, AtStep, TypeOK
<1>5. \A i \in 1..Len(queue) : ~queue[i].terminal
      BY <1>2 DEF CInv, BInv, IInv, QueueOK
<1> QED BY <1>1, <1>2, <1>3, <1>4, <1>5

(* A song, and the startup announcement, is the last that is queued. *)
LEMMA LastOfItsBreak ==
    ASSUME BInv, queue # <<>>, \A i \in 1..Len(queue) : ~queue[i].terminal,
           ~terminalIntentQueued, TriggersBreak(Head(queue))
    PROVE  Tail(queue) = <<>>
<1>1. /\ Head(queue) = queue[1] /\ 1 \in 1..Len(queue) /\ DOMAIN queue = 1..Len(queue)
      /\ Len(queue) \in Nat \ {0}
      /\ Tail(queue) \in Seq(Event) /\ Len(Tail(queue)) = Len(queue) - 1
      BY HeadTailProperties, EmptySeq DEF BInv, IInv, TypeOK
<1>2. SUFFICES ASSUME Len(queue) > 1 PROVE FALSE
      BY <1>1, EmptySeq
<1>3. 2 \in 1..Len(queue)
      BY <1>1, <1>2
<1>4. queue[2].intent # NoId /\ IsPart(queue[2]) /\ queue[2] \in Air!Items
      BY <1>3 DEF BInv, IInv, QueueOK, InOrder, IsPart
<1>5. queue[1].intent # NoId /\ IsPart(queue[1]) /\ queue[1] \in Air!Items
      BY <1>1, <1>2 DEF BInv, IInv, QueueOK, InOrder, IsPart
<1>6. Rank[queue[1].type] < Rank[queue[2].type]
      BY <1>1, <1>3, <1>4, <1>5 DEF BInv, InOrder
<1>7. queue[1].type = "song" /\ queue[2].type \in Air!Parts
      BY <1>1, <1>4, <1>5, RankType DEF TriggersBreak, Air!Items
<1> QED BY <1>6, <1>7, RankType

LEMMA CommittedStep == ASSUME CInv, [Next]_vars, ~djDraining' PROVE Committed'
<1> USE NotStopping DEF CInv, BInv, IInv, Committed, Airing, InDo, InDrain, TriggersBreak,
        Goto, MainGoto, HasIntent, HasTerminalIntent, mainVars, djVars, flagVars, termVars,
        airVars, localVars
<1>1. CASE LoopTop
      BY <1>1 DEF LoopTop
<1>2. CASE Mode
      <2>1. CASE queue = <<>>
            BY <1>2, <2>1 DEF Mode, Dequeue
      <2>2. CASE queue # <<>>
        <3>1. /\ seg' = Head(queue) /\ queue' = Tail(queue) /\ pc = "mode" /\ pc' = "start"
              /\ UNCHANGED <<callback, mainPc, current, isPlaying, currentIntent>>
              BY <1>2, <2>2 DEF Mode, Dequeue
        <3>2. TriggersBreak(seg') => queue' = <<>>
              BY <2>2, <3>1, LastOfItsBreak
        <3>3. seg'.type # "none"
              BY <2>2, <3>1, HeadTailProperties, EmptySeq DEF QueueOK, TypeOK
        <3> QED BY <3>1, <3>2, <3>3
      <2> QED BY <2>1, <2>2
<1>3. CASE Start
      BY <1>3 DEF Start, AtStep
<1>4. CASE Think
      BY <1>4 DEF Think
<1>5. CASE Plan
      BY <1>5 DEF Plan, NoIntent
<1>6. CASE Hook \/ Play
      BY <1>6 DEF Hook, Play
<1>7. CASE Finish
      BY <1>7 DEF Finish
<1>8. CASE Wrap
      BY <1>8 DEF Wrap, Raise, LeavesStartup, IsStartupAnnouncement, Finished
<1>9. CASE Do
      BY <1>9 DEF Do, Return, Raise, Finished, IsStartupAnnouncement
<1>10. CASE Record
      BY <1>10 DEF Record, Return, Raise, StartsUp, DoKnows, AtStep
<1>11. CASE Build
      BY <1>11 DEF Build, Latch, LeakFree, Raise, AtStep, DoKnows
<1>12. CASE Push
      BY <1>12 DEF Push, Return, NoIntent
<1>13. CASE Ret \/ Clear \/ Mark
      BY <1>13 DEF Ret, Clear, Mark, AtStep
<1>14. CASE Kick \/ Kicked \/ Settle
      BY <1>14 DEF Kick, Kicked, Settle
<1>15. CASE StartStep
      BY <1>15 DEF StartStep, BootThink, BootFails, InjectAnnouncement, FirstBreak, Notify,
         Run, BeforeRun, NoIntent, NoEvent
<1>16. CASE UNCHANGED vars
      BY <1>16 DEF vars
<1> QED BY <1>1, <1>2, <1>3, <1>4, <1>5, <1>6, <1>7, <1>8, <1>9, <1>10, <1>11, <1>12, <1>13,
           <1>14, <1>15, <1>16 DEF Next, PlayoutStep

LEMMA StartsUpStep == ASSUME CInv, [Next]_vars, ~djDraining' PROVE StartsUp'
<1> USE NotStopping DEF CInv, BInv, IInv, StartsUp, EarlyStartup, InDo, InDrain,
        Goto, MainGoto, HasIntent, HasTerminalIntent, mainVars, djVars, flagVars, termVars,
        airVars, localVars
<1>1. CASE LoopTop
      BY <1>1 DEF LoopTop
<1>2. CASE Mode
      <2>1. CASE queue = <<>>
            BY <1>2, <2>1 DEF Mode, Dequeue
      <2>2. CASE queue # <<>>
        <3>1. /\ seg' = Head(queue) /\ queue' = Tail(queue) /\ pc = "mode" /\ pc' = "start"
              /\ UNCHANGED <<startupState, isPlaying, currentIntent>>
              BY <1>2, <2>2 DEF Mode, Dequeue
        <3>2. seg' = queue[1] /\ 1 \in 1..Len(queue)
              BY <2>2, <3>1, HeadTailProperties, EmptySeq DEF TypeOK
        <3>3. startupState \in EarlyStartup =>
                 /\ startupState = "STARTUP_ANNOUNCEMENT_PLAYING"
                 /\ seg' = StartupAnnouncement /\ ~isPlaying
              BY <2>2, <3>2 DEF QueueOK, Committed
        <3>4. startupState \in EarlyStartup => queue' = <<>>
              BY <2>2, <3>1, <3>3, LastOfItsBreak DEF TriggersBreak, StartupAnnouncement
        <3> QED BY <3>1, <3>3, <3>4
      <2> QED BY <2>1, <2>2
<1>3. CASE Start
      BY <1>3 DEF Start
<1>4. CASE Think
      BY <1>4, Zenon DEF Think, Committed
<1>5. CASE Plan
      BY <1>5 DEF Plan, NoIntent
<1>6. CASE Hook
      <2>1. StartupAnnouncement.type = "announcement"
            BY DEF StartupAnnouncement
      <2>2. pc = "hook" /\ pc' = "play" /\ UNCHANGED <<queue, seg, isPlaying, currentIntent>>
            BY <1>6 DEF Hook
      <2>3. CASE startupState \in EarlyStartup
        <3>1. /\ startupState = "STARTUP_ANNOUNCEMENT_PLAYING" /\ seg = StartupAnnouncement
              /\ queue = <<>>
              BY <2>1, <2>2, <2>3 DEF Committed, Airing, TriggersBreak
        <3>2. currentIntent.id # NoId => startupState' = "STARTUP_THINK_COMPLETE"
              BY <1>6, <2>1, <3>1 DEF Hook
        <3> QED BY <2>2, <3>1, <3>2
      <2>4. CASE startupState \notin EarlyStartup
            BY <1>6, <2>2, <2>4 DEF Hook
      <2> QED BY <2>3, <2>4
<1>7. CASE Play \/ Finish
      BY <1>7 DEF Play, Finish
<1>8. CASE Wrap
      BY <1>8 DEF Wrap, Raise, LeavesStartup, IsStartupAnnouncement, Finished, Committed,
         StartupAnnouncement
<1>9. CASE Do
      BY <1>9 DEF Do, Return, Raise
<1>10. CASE Record
      BY <1>10 DEF Record, Return, Raise
<1>11. CASE Build
      BY <1>11 DEF Build, Raise
<1>12. CASE Push
      BY <1>12 DEF Push, Return, NoIntent, AtStep
<1>13. CASE Ret \/ Clear \/ Mark
      BY <1>13 DEF Ret, Clear, Mark
<1>14. CASE Kick \/ Kicked \/ Settle
      BY <1>14 DEF Kick, Kicked, Settle
<1>15. CASE StartStep
      BY <1>15 DEF StartStep, BootThink, BootFails, InjectAnnouncement, FirstBreak, Notify,
         Run, BeforeRun, NoIntent, NoEvent
<1>16. CASE UNCHANGED vars
      BY <1>16 DEF vars
<1> QED BY <1>1, <1>2, <1>3, <1>4, <1>5, <1>6, <1>7, <1>8, <1>9, <1>10, <1>11, <1>12, <1>13,
           <1>14, <1>15, <1>16 DEF Next, PlayoutStep

LEMMA OnAirAlways == Spec => []CInv
<1>1. Init => OnAir
      <2> SUFFICES ASSUME Init PROVE Committed /\ StartsUp
          BY DEF OnAir
      <2>1. /\ queue = <<>> /\ seg = NoEvent /\ currentIntent = NoIntent /\ pc = "off"
            /\ startupState = "BOOTSTRAP" /\ callback /\ ~isPlaying
            BY DEF Init
      <2> QED BY <2>1 DEF Committed, StartsUp, HasIntent, NoIntent, Airing, InDo
<1>2. CInv /\ BInv' /\ [Next]_vars => CInv'
      BY CommittedStep, StartsUpStep DEF CInv, OnAir
<1>3. BInv /\ Init => CInv
      BY <1>1 DEF CInv
<1> QED BY <1>2, <1>3, InOrderAlways, PTL DEF Spec

(* While nobody stops the station the DO that pushes a break is the only    *)
(* step that takes it from the DJ: no second THINK overtakes it, even if    *)
(* THINK or the decoding of a segment fails.                                *)
THEOREM BreaksNotLost == Spec => BreaksAreAired
<1>1. CInv /\ [Next]_vars =>
        [HasIntent /\ currentIntent' # currentIntent
           => pc = "push" \/ djDraining \/ pc = "off"]_vars
      <2> SUFFICES ASSUME CInv, [Next]_vars, HasIntent, currentIntent' # currentIntent,
                          ~djDraining, pc # "off"
                   PROVE  pc = "push"
          OBVIOUS
      <2>1. Committed
            BY DEF CInv, OnAir
      <2>2. CASE PlayoutStep
            BY <2>1, <2>2 DEF PlayoutStep, djVars, LoopTop, Mode, Kick, Kicked, Settle, Start,
               Think, Plan, Hook, Play, Finish, Wrap, Do, Record, Build, Push, Ret, Clear, Mark,
               Committed
      <2>3. CASE StartStep
            BY <2>3 DEF StartStep, djVars, BootThink, BootFails, InjectAnnouncement, FirstBreak,
               Notify, Run, CInv, BInv, IInv, BeforeRun, Committed, HasIntent, NoIntent,
               Flags, BeforeStop
      <2>4. CASE Stop \/ StopStep
            BY <2>4 DEF Stop, StopStep, djVars, DrainEngine, AwaitPlayout, PostShutdown,
               EnterPhase2, ReportShutdown, Detach, Recheck, Halt, Join
      <2>5. CASE UNCHANGED vars
            BY <2>5 DEF vars, djVars
      <2> QED BY <2>2, <2>3, <2>4, <2>5 DEF Next
<1> QED BY <1>1, OnAirAlways, PTL DEF Spec, BreaksAreAired

-----------------------------------------------------------------------------
(* Without faults *)

AfterWait == {"post", "phase2", "setstate", "detach", "recheck", "halt", "join", "done"}

(* stop() goes on when the playout thread has ended, and until then every   *)
(* segment goes through THINK and DO.                                       *)
Undisturbed ==
    /\ playoutComplete => pc = "stopped"
    /\ mainPc \in AfterWait => pc \in {"stopped", "off"}
    /\ ~callback => mainPc \in {"recheck", "halt", "join", "done"}
    /\ stopEvent => mainPc \in {"join", "done"} /\ pc # "off"
    /\ pc # "off" /\ mainPc \notin {"join", "done"} => isRunning
    /\ isRunning => pc # "off"
    /\ pc \in {"off", "top", "mode", "kick", "kicked", "settle", "start", "mark", "stopped"}
         => ~isPlaying
    /\ pc \in InDo /\ caller = "kick" => ~isPlaying
    /\ pc \in {"think", "plan", "hook", "play", "finish"} => isPlaying /\ current = seg
    /\ pc \in InDo /\ caller = "finish" => isPlaying /\ current = seg
    /\ pc = "play" => stationState.audio = seg

FInv == IInv /\ Undisturbed

LEMMA UndisturbedStep ==
    ASSUME Faults = {}, FInv, [Next]_vars
    PROVE  Undisturbed'
<1> USE DEF FInv, IInv, Undisturbed, AfterWait, InDo, Goto, MainGoto, mainVars, djVars,
        flagVars, termVars, airVars, localVars
<1>1. CASE LoopTop
      BY <1>1 DEF LoopTop
<1>2. CASE Mode
      BY <1>2 DEF Mode, Dequeue
<1>3. CASE Kick \/ Kicked
      BY <1>3 DEF Kick, Kicked
<1>4. CASE Settle
      BY <1>4 DEF Settle, Dequeue
<1>5. CASE Start
      BY <1>5 DEF Start
<1>6. CASE Think
      BY <1>6 DEF Think
<1>7. CASE Plan
      BY <1>7 DEF Plan
<1>8. CASE Hook
      BY <1>8 DEF Hook, AiringState, ShutdownState, OnAirState
<1>9. CASE Play
      BY <1>9 DEF Play, Halted
<1>10. CASE Finish
      BY <1>10 DEF Finish
<1>11. CASE Wrap
      BY <1>11 DEF Wrap, Raise, TypeOK
<1>12. CASE Do
      BY <1>12 DEF Do, Return, Raise, TypeOK
<1>13. CASE Record \/ Build \/ Push
      BY <1>13 DEF Record, Build, Push, Return, Raise, TypeOK
<1>14. CASE Ret \/ Clear
      BY <1>14 DEF Ret, Clear
<1>15. CASE Mark
      BY <1>15 DEF Mark
<1>16. CASE StartStep
      BY <1>16 DEF StartStep, BootThink, BootFails, InjectAnnouncement, FirstBreak, Notify,
         Run, BeforeRun
<1>17. CASE Stop \/ DrainEngine \/ PostShutdown \/ EnterPhase2 \/ ReportShutdown \/ Detach
      BY <1>17 DEF Stop, DrainEngine, PostShutdown, EnterPhase2, ReportShutdown, Detach
<1>18. CASE AwaitPlayout \/ Recheck \/ Join
      BY <1>18 DEF AwaitPlayout, Recheck, Join, Complete, TimesOut
<1>19. CASE Halt
      BY <1>19 DEF Halt
<1>20. CASE UNCHANGED vars
      BY <1>20 DEF vars
<1> QED BY <1>1, <1>2, <1>3, <1>4, <1>5, <1>6, <1>7, <1>8, <1>9, <1>10, <1>11, <1>12, <1>13,
           <1>14, <1>15, <1>16, <1>17, <1>18, <1>19, <1>20 DEF Next, PlayoutStep, StopStep

LEMMA UndisturbedAlways == Faults = {} => (Spec => []FInv)
<1> SUFFICES ASSUME Faults = {} PROVE Spec => []FInv
    OBVIOUS
<1>1. Init => Undisturbed
      BY DEF Init, Undisturbed, AfterWait, InDo, BeforeRun
<1>2. FInv /\ IInv' /\ [Next]_vars => FInv'
      BY UndisturbedStep DEF FInv
<1>3. IInv /\ Init => FInv
      BY <1>1 DEF FInv
<1> QED BY <1>2, <1>3, Invariance, PTL DEF Spec

(* Without faults no audio is cut: stop() halts an engine that has ended.   *)
THEOREM NothingCutOff == Faults = {} => (Spec => []NeverCutOff)
<1> SUFFICES ASSUME Faults = {} PROVE Spec => []NeverCutOff
    OBVIOUS
<1>1. FInv => NeverCutOff
      BY DEF FInv, Undisturbed, AfterWait, NeverCutOff
<1>2. Spec => []FInv
      BY UndisturbedAlways
<1> QED BY <1>1, <1>2, PTL

(* Without faults the report names the segment that is played, from its     *)
(* first frame to its last, although main and playout thread both write it. *)
THEOREM ReportIsTrue == Faults = {} => (Spec => []ReportMatchesAir)
<1> SUFFICES ASSUME Faults = {} PROVE Spec => []ReportMatchesAir
    OBVIOUS
<1>1. FInv => ReportMatchesAir
      BY DEF FInv, Undisturbed, ReportMatchesAir
<1>2. Spec => []FInv
      BY UndisturbedAlways
<1> QED BY <1>1, <1>2, PTL
=============================================================================
