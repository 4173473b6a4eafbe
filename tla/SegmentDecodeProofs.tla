------------------------- MODULE SegmentDecodeProofs -------------------------
(***************************************************************************)
(* Proofs about SegmentDecode, for any workers, any capacity, any numbers  *)
(* of segments and frames, and any set of faults unless a theorem says     *)
(* otherwise.  The inductive invariant has four parts: what the program    *)
(* places imply (Places); that until the engine is stopped the playout     *)
(* thread refers to the only worker there is (Alone); that the frames on   *)
(* their way, from the air back to the worker's next one, follow each      *)
(* other (Ordered, InTurn); and what a drain has waited for (HandedOver).  *)
(***************************************************************************)
EXTENDS SegmentDecode, TLAPS, SequenceTheorems

WithTask == {"wait", "abandon", "raise", "drain", "cleanRaise", "cleanFinish"}
Over     == {"raise", "drain", "cleanRaise", "cleanFinish"}

(* What a program place, or a worker's, tells of the other variables. *)
Places ==
    /\ pc \notin {"take", "ended"} => seg # 0
    /\ pc \in WithTask => task \in Workers
    /\ pc \in {"begun", "playing"} /\ segDec # None => at[segDec] = "new"
    /\ \A w \in Workers :
         /\ at[w] # "off" => of[w] = seg /\ seg # 0 /\ end[w] = "no"
         /\ at[w] = "push" => pushed[w] < MaxFrames
    /\ running <=> mainPc \in {"up", "draining"}
    /\ running => ~pumpStop /\ pump = "on"

(* Until the engine is stopped only the playout thread changes              *)
(* _segment_decoder: a worker that is not off is the one it refers to, and  *)
(* it is over before the reference is given up.                             *)
Alone ==
    running =>
      /\ \A w \in Workers : at[w] # "off" => w = segDec
      /\ pc \in {"take", "start", "finish", "ended"} => segDec = None
      /\ pc \in {"begun", "playing", "preroll"} \cup WithTask => segDec \in Workers
      /\ pc # "abandon"
      /\ pc \in WithTask => task = segDec
      /\ pc \in Over => at[segDec] = "off"
      /\ segDec # None => of[segDec] = seg

(* The last frame pushed; the one before the queue's first is Front. *)
LastIn == IF queue # <<>> THEN queue[Len(queue)] ELSE Front

(* Nothing that is on its way belongs to a segment before the one in front  *)
(* of it, even when the engine is stopped.                                  *)
Ordered ==
    /\ held # NoFrame => air[1] <= held[1]
    /\ queue # <<>> => Front[1] <= queue[1][1]
    /\ \A i \in 1..(Len(queue) - 1) : queue[i][1] <= queue[i + 1][1]
    /\ LastIn[1] <= seg

(* What Tape allows of two frames one after the other. *)
Follows(f, g) == g = <<f[1], f[2] + 1>> \/ (g[1] > f[1] /\ g[2] = 1)

(* Until the engine is stopped the frames follow each other, and the next   *)
(* one of the worker follows the last.                                      *)
InTurn ==
    running =>
      /\ held # NoFrame => Follows(air, held)
      /\ queue # <<>> => Follows(Front, queue[1])
      /\ \A i \in 1..(Len(queue) - 1) : Follows(queue[i], queue[i + 1])
      /\ segDec # None => IF pushed[segDec] = 0 THEN LastIn[1] < seg
                          ELSE LastIn = <<seg, pushed[segDec]>>
      /\ pc = "start" \/ (pc = "play" /\ segDec = None) => LastIn[1] < seg

(* If the drain never gives up, it ends when the pump has taken the last    *)
(* frame, and nothing comes after that one.                                 *)
HandedOver ==
    /\ running /\ pc = "drain" => count = pushed[segDec]
    /\ "late" \notin Faults /\ running /\ pc \in {"cleanFinish", "finish"} /\ count > 0 =>
         queue = <<>> /\ Front = <<seg, count>>

IInv == TypeOK /\ Places /\ Alone /\ Ordered /\ InTurn /\ HandedOver

-----------------------------------------------------------------------------

(* What Begin does with the worker it picks. *)
BeginWith(w) ==
    /\ at[w] = "off" /\ w \notin {segDec, curDec, task, target}
    /\ at' = [at EXCEPT ![w] = "new"]
    /\ of' = [of EXCEPT ![w] = seg]
    /\ pushed' = [pushed EXCEPT ![w] = 0]
    /\ told' = [told EXCEPT ![w] = FALSE]
    /\ end' = [end EXCEPT ![w] = "no"]
    /\ proc' = [proc EXCEPT ![w] = "none"]
    /\ segDec' = w /\ curDec' = None
    /\ UNCHANGED known

LEMMA BeginPicks == ASSUME Begin PROVE \E w \in Workers : BeginWith(w)
<1>1. PICK w \in Free : w = CHOOSE v \in Free : TRUE
  BY DEF Begin
<1>. QED BY <1>1 DEF Begin, BeginWith, Free

LEMMA TypesKept ==
  ASSUME TypeOK
  PROVE  /\ UNCHANGED loopVars => LoopTypes'
         /\ UNCHANGED refVars => RefTypes'
         /\ UNCHANGED workVars => WorkTypes'
         /\ UNCHANGED outVars => OutTypes'
         /\ UNCHANGED mainVars => MainTypes'
<1>1. UNCHANGED loopVars => LoopTypes'
  BY DEF TypeOK, LoopTypes, loopVars
<1>2. UNCHANGED refVars => RefTypes'
  BY DEF TypeOK, RefTypes, refVars
<1>3. UNCHANGED workVars => WorkTypes'
  BY DEF TypeOK, WorkTypes, workVars
<1>4. UNCHANGED outVars => OutTypes'
  BY DEF TypeOK, OutTypes, outVars
<1>5. UNCHANGED mainVars => MainTypes'
  BY DEF TypeOK, MainTypes, mainVars
<1>. QED BY <1>1, <1>2, <1>3, <1>4, <1>5

LEMMA BeginTypes == ASSUME TypeOK, Begin PROVE RefTypes' /\ WorkTypes'
<1>1. PICK w \in Workers : BeginWith(w)
  BY BeginPicks
<1>2. RefTypes'
  BY <1>1 DEF BeginWith, RefTypes
<1>3. of' \in [Workers -> 0..MaxSegments] /\ pushed' \in [Workers -> 0..MaxFrames]
  BY <1>1, DecodeAssumption DEF BeginWith, TypeOK, LoopTypes, WorkTypes
<1>4. told' \in [Workers -> BOOLEAN] /\ known' \in [Workers -> BOOLEAN]
  BY <1>1 DEF BeginWith, TypeOK, WorkTypes
<1>5. /\ at' \in [Workers -> {"off", "new", "launch", "announce", "read", "push"}]
      /\ end' \in [Workers -> {"no", "eof", "error"}]
      /\ proc' \in [Workers -> {"none", "alive", "hung", "dead"}]
  BY <1>1 DEF BeginWith, TypeOK, WorkTypes
<1>. QED BY <1>2, <1>3, <1>4, <1>5 DEF WorkTypes

LEMMA EndsTypes ==
  ASSUME TypeOK, NEW w \in Workers, NEW how \in {"eof", "error"}, Ends(w, how),
         UNCHANGED <<of, told>>, pushed' \in [Workers -> 0..MaxFrames]
  PROVE  WorkTypes'
<1>1. at' \in [Workers -> {"off", "new", "launch", "announce", "read", "push"}]
  BY DEF Ends, MoveTo, TypeOK, WorkTypes
<1>2. end' \in [Workers -> {"no", "eof", "error"}]
  BY DEF Ends, TypeOK, WorkTypes
<1>3. known' \in [Workers -> BOOLEAN]
  BY DEF Ends, TypeOK, WorkTypes
<1>4. proc' \in [Workers -> {"none", "alive", "hung", "dead"}]
  BY DEF Ends, TypeOK, WorkTypes
<1>. QED BY <1>1, <1>2, <1>3, <1>4 DEF TypeOK, WorkTypes

LEMMA StopTypes ==
  ASSUME TypeOK, NEW w \in Workers, StopWorker(w), UNCHANGED <<at, of, pushed, known, end>>
  PROVE  WorkTypes'
<1>1. told' \in [Workers -> BOOLEAN]
  BY DEF StopWorker, TypeOK, WorkTypes
<1>2. proc' \in [Workers -> {"none", "alive", "hung", "dead"}]
  BY DEF StopWorker, TypeOK, WorkTypes
<1>. QED BY <1>1, <1>2 DEF TypeOK, WorkTypes

LEMMA TypeStep == ASSUME TypeOK, Places, [Next]_vars PROVE TypeOK'
<1>. USE DecodeAssumption
<1>1. CASE Take \/ LoopEnds \/ Preroll \/ Finish
  <2>1. LoopTypes'
    <3>1. CASE Take
      BY <3>1 DEF Take, Goto, TypeOK, LoopTypes, MainTypes
    <3>2. CASE LoopEnds \/ Preroll \/ Finish
      BY <3>2 DEF LoopEnds, Preroll, Finish, Goto, TypeOK, LoopTypes, RefTypes
    <3>. QED BY <1>1, <3>1, <3>2
  <2>. QED BY <1>1, <2>1, TypesKept DEF Take, LoopEnds, Preroll, Finish, TypeOK
<1>2. CASE Start \/ Play
  <2>1. LoopTypes'
    BY <1>2 DEF Start, Play, Goto, TypeOK, LoopTypes
  <2>2. RefTypes' /\ WorkTypes'
    BY <1>2, BeginTypes, TypesKept DEF Start, Play
  <2>. QED BY <1>2, <2>1, <2>2, TypesKept DEF Start, Play, TypeOK
<1>3. CASE Begun \/ Playing
  <2>1. LoopTypes'
    BY <1>3 DEF Begun, Playing, RunWorker, Goto, TypeOK, LoopTypes
  <2>2. WorkTypes'
    BY <1>3 DEF Begun, Playing, RunWorker, MoveTo, TypeOK, RefTypes, WorkTypes
  <2>. QED BY <1>3, <2>1, <2>2, TypesKept DEF Begun, Playing, TypeOK
<1>4. CASE Wait \/ Abandon
  <2>1. task \in Workers
    BY <1>4 DEF Wait, Abandon, Places, WithTask
  <2>2. LoopTypes'
    BY <1>4, <2>1 DEF Wait, Abandon, Outcome, Goto, TypeOK, LoopTypes, WorkTypes
  <2>3. WorkTypes'
    BY <1>4, <2>1, StopTypes, TypesKept DEF Wait, Abandon, workVars
  <2>. QED BY <1>4, <2>2, <2>3, TypesKept DEF Wait, Abandon, TypeOK
<1>5. CASE Clean
  <2>1. LoopTypes'
    BY <1>5 DEF Clean, Goto, TypeOK, LoopTypes
  <2>2. WorkTypes'
    BY <1>5, StopTypes, TypesKept DEF Clean, TypeOK, RefTypes, workVars
  <2>. QED BY <1>5, <2>1, <2>2, TypesKept DEF Clean, TypeOK
<1>6. CASE Cleaned
  <2>1. LoopTypes' /\ RefTypes'
    BY <1>6 DEF Cleaned, Goto, TypeOK, LoopTypes, RefTypes
  <2>. QED BY <1>6, <2>1, TypesKept DEF Cleaned, TypeOK
<1>7. CASE Pump
  <2>1. OutTypes'
    <3>1. CASE PumpTakes
      BY <1>7, <3>1 DEF PumpTakes, TypeOK, OutTypes
    <3>2. CASE PumpWrites \/ PumpEnds
      BY <1>7, <3>2 DEF PumpWrites, PumpEnds, TypeOK, OutTypes
    <3>. QED BY <1>7, <3>1, <3>2 DEF Pump
  <2>. QED BY <1>7, <2>1, TypesKept DEF Pump, PumpTakes, PumpWrites, PumpEnds, TypeOK
<1>8. CASE SetDraining \/ Halt
  <2>1. MainTypes'
    BY <1>8 DEF SetDraining, Halt, MainGoto, TypeOK, MainTypes
  <2>. QED BY <1>8, <2>1, TypesKept DEF SetDraining, Halt, TypeOK
<1>9. CASE StopStep
  <2>1. MainTypes'
    BY <1>9 DEF StopStep, Look, JoinWorker, Forget, Clear, Kill, Join, StopPump, JoinPump,
       MainGoto, TypeOK, MainTypes, RefTypes
  <2>2. RefTypes'
    BY <1>9 DEF StopStep, Look, JoinWorker, Forget, Clear, Kill, Join, KillCurrent, StopPump,
       JoinPump, TypeOK, RefTypes, refVars
  <2>3. WorkTypes'
    <3>1. CASE Look
      BY <3>1, StopTypes, TypesKept DEF Look, TypeOK, RefTypes, workVars
    <3>2. CASE Kill \/ Join
      BY <3>2 DEF Kill, Join, KillCurrent, TypeOK, RefTypes, WorkTypes
    <3>. QED BY <1>9, <3>1, <3>2, TypesKept DEF StopStep, JoinWorker, Forget, Clear, StopPump,
            JoinPump
  <2>4. OutTypes'
    <3>1. CASE StopPump
      BY <3>1 DEF StopPump, TypeOK, OutTypes
    <3>. QED BY <1>9, <3>1, TypesKept DEF StopStep, Look, JoinWorker, Forget, Clear, Kill,
                Join, JoinPump
  <2>5. LoopTypes'
    BY <1>9, TypesKept DEF StopStep, Look, JoinWorker, Forget, Clear, Kill, Join, StopPump,
       JoinPump
  <2>. QED BY <2>1, <2>2, <2>3, <2>4, <2>5 DEF TypeOK
<1>10. ASSUME NEW w \in Workers, Worker(w) \/ Hang(w) PROVE TypeOK'
  <2>1. LoopTypes' /\ MainTypes'
    BY <1>10, TypesKept DEF Worker, Launch, Announce, Read, Push, Hang
  <2>2. RefTypes'
    <3>1. CASE Announce(w)
      BY <3>1 DEF Announce, TypeOK, RefTypes
    <3>. QED BY <1>10, <3>1, TypesKept DEF Worker, Launch, Read, Push, Hang
  <2>3. WorkTypes'
    <3>1. CASE \E how \in {"eof", "error"} : Ends(w, how) /\ UNCHANGED <<of, told, pushed>>
      BY <3>1, EndsTypes DEF TypeOK, WorkTypes
    <3>2. CASE Launch(w) /\ ~Ends(w, "error")
      BY <3>2 DEF Launch, MoveTo, TypeOK, WorkTypes
    <3>3. CASE Announce(w) \/ Hang(w)
      BY <3>3 DEF Announce, Hang, MoveTo, TypeOK, WorkTypes
    <3>4. CASE Read(w) /\ MoveTo(w, "push") /\ UNCHANGED <<known, end, proc>>
      BY <3>4 DEF Read, MoveTo, TypeOK, WorkTypes
    <3>5. CASE Push(w) /\ Room
      <4>1. pushed[w] < MaxFrames /\ pushed[w] \in Nat
        BY <3>5 DEF Push, Places, TypeOK, WorkTypes
      <4>2. pushed' = [pushed EXCEPT ![w] = @ + 1]
        BY <3>5 DEF Push
      <4>3. pushed' \in [Workers -> 0..MaxFrames]
        BY <4>1, <4>2 DEF TypeOK, WorkTypes
      <4>. QED BY <3>5, <4>3 DEF Push, MoveTo, TypeOK, WorkTypes
    <3>. QED BY <1>10, <3>1, <3>2, <3>3, <3>4, <3>5 DEF Worker, Launch, Read, Push, Refused
  <2>4. OutTypes'
    <3>1. CASE Push(w) /\ Room
      <4>1. of[w] \in 1..MaxSegments /\ pushed[w] + 1 \in 1..MaxFrames
        <5>1. at[w] = "push"
          BY <3>1 DEF Push
        <5>2. of[w] # 0 /\ pushed[w] < MaxFrames
          BY <5>1 DEF Places
        <5>. QED BY <5>2 DEF TypeOK, WorkTypes
      <4>2. queue' = Append(queue, <<of[w], pushed[w] + 1>>) /\ <<of[w], pushed[w] + 1>> \in Frames
        BY <3>1, <4>1 DEF Push, Frames
      <4>3. queue' \in Seq(Frames) /\ Len(queue') = Len(queue) + 1
        BY <4>2, AppendProperties DEF TypeOK, OutTypes
      <4>. QED BY <3>1, <4>3 DEF Push, Room, TypeOK, OutTypes
    <3>2. CASE UNCHANGED outVars
      BY <3>2, TypesKept
    <3>. QED BY <1>10, <3>1, <3>2 DEF Worker, Launch, Announce, Read, Push, Hang, outVars
  <2>. QED BY <2>1, <2>2, <2>3, <2>4 DEF TypeOK
<1>11. CASE UNCHANGED vars
  BY <1>11, TypesKept DEF vars, TypeOK
<1>. QED
  BY <1>1, <1>2, <1>3, <1>4, <1>5, <1>6, <1>7, <1>8, <1>9, <1>10, <1>11 DEF Next, Playout,
     Pump

(* A worker's step leaves alone what is not its own. *)
LEMMA WorkerStep ==
  ASSUME TypeOK, NEW w \in Workers, Worker(w) \/ Hang(w)
  PROVE  /\ UNCHANGED <<loopVars, segDec, of, held, air, pump, pumpStop, mainVars>>
         /\ at[w] \notin {"off", "new"} /\ at'[w] # "new"
         /\ \A v \in Workers \ {w} : at'[v] = at[v] /\ end'[v] = end[v] /\ pushed'[v] = pushed[v]
<1>. QED
  BY DEF Worker, Launch, Announce, Read, Push, Hang, Ends, Refused, MoveTo, TypeOK, WorkTypes,
     refVars, outVars

LEMMA PlacesStep == ASSUME TypeOK, TypeOK', Places, Alone, [Next]_vars PROVE Places'
<1>1. CASE Take
  <2>1. \A w \in Workers : at[w] = "off"
    BY <1>1, DecodeAssumption DEF Take, Alone
  <2>. QED BY <1>1, <2>1 DEF Take, Goto, Places, WithTask, TypeOK, LoopTypes, refVars,
              workVars, outVars, mainVars
<1>2. CASE LoopEnds \/ Preroll \/ Finish
  BY <1>2 DEF LoopEnds, Preroll, Finish, Goto, Places, WithTask, TypeOK, RefTypes, refVars,
     workVars, outVars, mainVars
<1>3. CASE (Start \/ Play) /\ Begin
  <2>1. PICK w \in Workers : BeginWith(w)
    BY <1>3, BeginPicks
  <2>2. pc' \in {"begun", "playing"} /\ UNCHANGED <<seg, outVars, mainVars>> /\ seg # 0
    BY <1>3, <2>1 DEF Start, Play, Places, Goto, refVars, workVars, Begin, BeginWith,
       TypeOK, WorkTypes
  <2>. QED BY <2>1, <2>2 DEF BeginWith, Places, WithTask, TypeOK, WorkTypes, outVars, mainVars
<1>4. CASE (Start \/ Play) /\ ~Begin
  BY <1>4 DEF Start, Play, Goto, Places, WithTask, refVars, workVars, outVars, mainVars
<1>5. CASE Begun \/ Playing
  BY <1>5 DEF Begun, Playing, RunWorker, MoveTo, Goto, Places, WithTask, TypeOK, RefTypes,
     WorkTypes, refVars, outVars, mainVars
<1>6. CASE Wait \/ Abandon
  BY <1>6 DEF Wait, Abandon, Outcome, StopWorker, Goto, Places, WithTask, refVars, workVars,
     outVars, mainVars
<1>7. CASE Clean
  BY <1>7 DEF Clean, Goto, Places, WithTask, refVars, outVars, mainVars
<1>8. CASE Cleaned
  BY <1>8 DEF Cleaned, Goto, Places, WithTask, workVars, outVars, mainVars
<1>9. CASE Pump
  BY <1>9 DEF Pump, PumpTakes, PumpWrites, PumpEnds, Places, loopVars, refVars, workVars,
     mainVars
<1>10. CASE SetDraining \/ Halt
  BY <1>10 DEF SetDraining, Halt, MainGoto, Places, loopVars, refVars, workVars, outVars
<1>11. CASE StopStep
  BY <1>11 DEF StopStep, Look, JoinWorker, Forget, Clear, Kill, Join, KillCurrent, StopPump,
     JoinPump, StopWorker, MainGoto, Places, loopVars, refVars, workVars, outVars
<1>12. ASSUME NEW w \in Workers, Worker(w) \/ Hang(w) PROVE Places'
  <2>1. at[w] \notin {"off", "new"} /\ at'[w] # "new"
    BY <1>12, WorkerStep
  <2>2. at'[w] # "off" => end'[w] = "no"
    BY <1>12, <2>1 DEF Worker, Launch, Announce, Read, Push, Hang, Ends, Refused, MoveTo,
       Places, TypeOK, WorkTypes
  <2>3. at'[w] = "push" => pushed'[w] < MaxFrames
    BY <1>12, <2>1 DEF Worker, Launch, Announce, Read, Push, Hang, Ends, Refused, MoveTo,
       Places, TypeOK, WorkTypes
  <2>. QED BY <1>12, <2>1, <2>2, <2>3, WorkerStep DEF Places, TypeOK, RefTypes, loopVars,
              mainVars
<1>13. CASE UNCHANGED vars
  BY <1>13 DEF vars, Places, loopVars, refVars, workVars, outVars, mainVars
<1>. QED
  BY <1>1, <1>2, <1>3, <1>4, <1>5, <1>6, <1>7, <1>8, <1>9, <1>10, <1>11, <1>12, <1>13
     DEF Next, Playout

(* While the engine is not being stopped the main thread does nothing here, *)
(* and the only worker there may be is the one referred to.                 *)
LEMMA RunningStep ==
  ASSUME TypeOK, Places, [Next]_vars, running'
  PROVE  /\ running /\ ~StopStep /\ ~Halt
         /\ \/ Playout \/ Pump \/ SetDraining
            \/ \E w \in Workers : Worker(w) \/ Hang(w)
            \/ UNCHANGED vars
<1>1. running /\ ~Halt
  BY DEF Next, Playout, Pump, Take, LoopEnds, Start, Begun, Play, Playing, Preroll, Wait,
     Abandon, Clean, Cleaned, Finish, PumpTakes, PumpWrites, PumpEnds, SetDraining, Halt,
     StopStep, Look, JoinWorker, Forget, Clear, Kill, Join, StopPump, JoinPump, Worker,
     Launch, Announce, Read, Push, Hang, mainVars, vars
<1>2. ~StopStep
  BY <1>1 DEF Places, StopStep, Look, JoinWorker, Forget, Clear, Kill, Join, StopPump,
     JoinPump
<1>. QED BY <1>1, <1>2 DEF Next

LEMMA AloneStep == ASSUME TypeOK, TypeOK', Places, Alone, [Next]_vars PROVE Alone'
<1>. SUFFICES ASSUME running' PROVE Alone'
  BY DEF Alone
<1>. USE DecodeAssumption
<1>0. running
  BY RunningStep
<1>1. CASE Take \/ LoopEnds \/ Finish
  <2>1. segDec = None /\ \A w \in Workers : at[w] = "off"
    BY <1>0, <1>1 DEF Take, LoopEnds, Finish, Alone
  <2>. QED BY <1>1, <2>1 DEF Take, LoopEnds, Finish, Goto, Alone, WithTask, Over, refVars,
              workVars
<1>2. CASE (Start \/ Play) /\ Begin
  <2>1. PICK w \in Workers : BeginWith(w)
    BY <1>2, BeginPicks
  <2>2. pc' \in {"begun", "playing"} /\ UNCHANGED seg
    BY <1>2, <2>1 DEF Start, Play, Goto, BeginWith, refVars, workVars, TypeOK, WorkTypes
  <2>3. segDec = None
    BY <1>0, <1>2, <2>1 DEF Start, Play, Alone, BeginWith, refVars, workVars, TypeOK,
       WorkTypes
  <2>4. \A v \in Workers : at[v] = "off"
    BY <1>0, <2>3 DEF Alone
  <2>. QED BY <2>1, <2>2, <2>4 DEF BeginWith, Alone, WithTask, Over, TypeOK, WorkTypes
<1>3. CASE (Start \/ Play) /\ ~Begin
  <2>1. segDec = segDec' /\ pc' \in {"play", "preroll"} /\ UNCHANGED <<workVars, seg>>
        /\ (pc' = "preroll" => segDec # None)
    BY <1>3 DEF Start, Play, Goto, refVars
  <2>. QED BY <1>0, <2>1 DEF Alone, WithTask, Over, TypeOK, RefTypes, workVars
<1>4. CASE Begun \/ Playing
  <2>1. segDec \in Workers
    BY <1>0, <1>4 DEF Begun, Playing, Alone
  <2>. QED BY <1>0, <1>4, <2>1 DEF Begun, Playing, RunWorker, MoveTo, Goto, Alone, WithTask,
              Over, TypeOK, WorkTypes, refVars
<1>5. CASE Preroll
  <2>1. segDec \in Workers
    BY <1>0, <1>5 DEF Preroll, Alone
  <2>. QED BY <1>0, <1>5, <2>1 DEF Preroll, Goto, Alone, WithTask, Over, refVars, workVars
<1>6. CASE Wait
  <2>1. task = segDec /\ segDec \in Workers /\ Exhausted(task) /\ Outcome
    BY <1>0, <1>6 DEF Wait, Alone, WithTask
  <2>2. at[segDec] = "off"
    BY <2>1 DEF Exhausted, Places
  <2>. QED BY <1>0, <1>6, <2>1, <2>2 DEF Wait, Outcome, Goto, Alone, WithTask, Over, refVars
<1>7. CASE Abandon
  BY <1>0, <1>7 DEF Abandon, Alone
<1>8. CASE Clean
  BY <1>0, <1>8 DEF Clean, Goto, Alone, WithTask, Over, refVars
<1>9. CASE Cleaned
  <2>1. \A w \in Workers : at[w] = "off"
    BY <1>0, <1>9 DEF Cleaned, Alone, Over
  <2>. QED BY <1>9, <2>1 DEF Cleaned, Goto, Alone, WithTask, Over, workVars
<1>10. CASE Pump \/ SetDraining \/ UNCHANGED vars
  BY <1>0, <1>10 DEF Pump, PumpTakes, PumpWrites, PumpEnds, SetDraining, Alone, vars,
     loopVars, refVars, workVars, mainVars
<1>11. ASSUME NEW w \in Workers, Worker(w) \/ Hang(w) PROVE Alone'
  BY <1>0, <1>11, WorkerStep DEF Alone, loopVars
<1>. QED
  BY <1>1, <1>2, <1>3, <1>4, <1>5, <1>6, <1>7, <1>8, <1>9, <1>10, <1>11, RunningStep DEF
     Playout

-----------------------------------------------------------------------------
(* The frames on their way *)

LEMMA FrameValues ==
  /\ \A f \in Frames : f # NoFrame /\ f[1] \in Nat /\ f[2] \in Nat
  /\ NoFrame[1] = 0 /\ NoFrame[2] = 0
BY DecodeAssumption DEF Frames, NoFrame

LEMMA LastInValue == ASSUME TypeOK PROVE LastIn \in Frames \cup {NoFrame}
<1>1. queue # <<>> => queue[Len(queue)] \in Frames
  BY DEF TypeOK, OutTypes
<1>. QED BY <1>1 DEF LastIn, Front, TypeOK, OutTypes

LEMMA PipeStep ==
  ASSUME [Next]_vars
  PROVE  \/ PumpTakes \/ PumpWrites
         \/ \E w \in Workers : Push(w) /\ Room
         \/ UNCHANGED <<queue, held, air>>
BY DEF Next, Playout, Pump, Take, LoopEnds, Start, Begun, Play, Playing, Preroll, Wait,
   Abandon, Clean, Cleaned, Finish, PumpEnds, SetDraining, Halt, StopStep, Look, JoinWorker,
   Forget, Clear, Kill, Join, StopPump, JoinPump, Worker, Launch, Announce, Read, Push,
   Hang, outVars, vars

(* The pump takes the first frame: the last one on the way is the same. *)
LEMMA TakenFromQueue ==
  ASSUME TypeOK, PumpTakes
  PROVE  /\ queue # <<>> /\ Len(queue') = Len(queue) - 1
         /\ held = NoFrame /\ held' = queue[1] /\ held' # NoFrame /\ air' = air
         /\ \A i \in 1..Len(queue') : queue'[i] = queue[i + 1]
         /\ queue' = <<>> <=> Len(queue) = 1
         /\ LastIn' = LastIn
<1>1. queue # <<>> /\ queue \in Seq(Frames)
  BY DEF PumpTakes, TypeOK, OutTypes
<1>2. /\ Len(queue) \in Nat \ {0} /\ Len(queue') = Len(queue) - 1
      /\ held' = queue[1]
      /\ \A i \in 1..Len(queue') : queue'[i] = queue[i + 1]
      /\ queue' \in Seq(Frames)
  BY <1>1, HeadTailProperties DEF PumpTakes
<1>3. queue' = <<>> <=> Len(queue) = 1
  BY <1>2
<1>4. held' # NoFrame
  BY <1>1, <1>2, FrameValues
<1>5. LastIn' = LastIn
  BY <1>1, <1>2, <1>3, <1>4 DEF LastIn, Front
<1>. QED BY <1>1, <1>2, <1>3, <1>4, <1>5 DEF PumpTakes

(* The worker's frame is the last one then. *)
LEMMA PushedToQueue ==
  ASSUME TypeOK, Places, NEW w \in Workers, Push(w), Room
  PROVE  /\ at[w] = "push" /\ of[w] = seg
         /\ Len(queue') = Len(queue) + 1 /\ UNCHANGED <<held, air, Front>>
         /\ \A i \in 1..Len(queue) : queue'[i] = queue[i]
         /\ queue'[Len(queue')] = <<seg, pushed[w] + 1>>
         /\ LastIn' = <<seg, pushed[w] + 1>>
         /\ pushed' = [pushed EXCEPT ![w] = @ + 1]
<1>1. at[w] = "push" /\ of[w] = seg
  BY DEF Push, Places
<1>2. queue' = Append(queue, <<seg, pushed[w] + 1>>) /\ UNCHANGED <<held, air>>
  BY <1>1 DEF Push
<1>3. /\ Len(queue) \in Nat /\ Len(queue') = Len(queue) + 1
      /\ \A i \in 1..Len(queue) : queue'[i] = queue[i]
      /\ queue'[Len(queue')] = <<seg, pushed[w] + 1>>
  BY <1>2 DEF TypeOK, OutTypes
<1>4. queue' # <<>>
  BY <1>2, <1>3
<1>. QED BY <1>1, <1>2, <1>3, <1>4 DEF LastIn, Front, Push

LEMMA OrderedStep ==
  ASSUME TypeOK, TypeOK', Places, Alone, Ordered, [Next]_vars PROVE Ordered'
<1>1. CASE PumpTakes
  <2>1. UNCHANGED seg
    BY <1>1 DEF PumpTakes, loopVars
  <2>2. Len(queue) \in Nat \ {0}
    BY <1>1, TakenFromQueue DEF TypeOK, OutTypes
  <2>3. air'[1] <= held'[1]
    BY <1>1, TakenFromQueue DEF Ordered, Front
  <2>4. queue' # <<>> => Front'[1] <= queue'[1][1]
    <3>1. ASSUME queue' # <<>> PROVE queue'[1] = queue[2] /\ queue[1][1] <= queue[2][1]
      <4>1. Len(queue) - 1 \in Nat \ {0}
        BY <1>1, <2>2, <3>1, TakenFromQueue
      <4>. QED BY <1>1, <4>1, TakenFromQueue DEF Ordered
    <3>. QED BY <1>1, <3>1, TakenFromQueue DEF Front
  <2>5. \A i \in 1..(Len(queue') - 1) : queue'[i][1] <= queue'[i + 1][1]
    BY <1>1, <2>2, TakenFromQueue DEF Ordered
  <2>6. LastIn'[1] <= seg'
    BY <1>1, <2>1, TakenFromQueue DEF Ordered
  <2>. QED BY <2>3, <2>4, <2>5, <2>6 DEF Ordered
<1>2. CASE PumpWrites
  BY <1>2 DEF PumpWrites, Ordered, LastIn, Front, loopVars
<1>3. ASSUME NEW w \in Workers, Push(w), Room PROVE Ordered'
  <2>1. UNCHANGED seg /\ seg \in Nat
    BY <1>3 DEF Push, loopVars, TypeOK, LoopTypes
  <2>2. queue # <<>> => LastIn = queue[Len(queue)]
    BY DEF LastIn
  <2>3. queue = <<>> => LastIn = Front
    BY DEF LastIn
  <2>4. Len(queue) \in Nat /\ (queue = <<>> <=> Len(queue) = 0)
    BY DEF TypeOK, OutTypes
  <2>. QED BY <1>3, <2>1, <2>2, <2>3, <2>4, PushedToQueue DEF Ordered
<1>4. CASE UNCHANGED <<queue, held, air>>
  <2>1. seg' = seg \/ seg' = seg + 1
    BY DEF Next, Playout, Pump, Take, LoopEnds, Start, Begun, Play, Playing, Preroll, Wait,
       Abandon, Clean, Cleaned, Finish, PumpTakes, PumpWrites, PumpEnds, SetDraining, Halt,
       StopStep, Look, JoinWorker, Forget, Clear, Kill, Join, StopPump, JoinPump, Worker,
       Launch, Announce, Read, Push, Hang, loopVars, vars
  <2>2. LastIn[1] \in Nat /\ seg \in Nat
    BY LastInValue, FrameValues DEF TypeOK, LoopTypes
  <2>. QED BY <1>4, <2>1, <2>2 DEF Ordered, LastIn, Front
<1>. QED BY <1>1, <1>2, <1>3, <1>4, PipeStep

LEMMA InTurnStep ==
  ASSUME TypeOK, TypeOK', Places, Alone, Ordered, InTurn, [Next]_vars PROVE InTurn'
<1>. SUFFICES ASSUME running' PROVE InTurn'
  BY DEF InTurn
<1>0. running
  BY RunningStep
<1>1. CASE PumpTakes
  <2>1. UNCHANGED <<seg, pc, segDec, pushed>>
    BY <1>1 DEF PumpTakes, loopVars, refVars, workVars
  <2>. QED BY <1>0, <1>1, <2>1, TakenFromQueue DEF InTurn, Front, TypeOK, OutTypes
<1>2. CASE PumpWrites
  BY <1>0, <1>2 DEF PumpWrites, InTurn, LastIn, Front, loopVars, refVars, workVars
<1>3. ASSUME NEW w \in Workers, Push(w), Room PROVE InTurn'
  <2>1. UNCHANGED <<seg, pc, segDec>> /\ seg \in Nat /\ pushed[w] \in Nat
    BY <1>3 DEF Push, loopVars, refVars, TypeOK, LoopTypes, WorkTypes
  <2>2. segDec = w
    BY <1>0, <1>3, PushedToQueue DEF Alone
  <2>3. Follows(LastIn, <<seg, pushed[w] + 1>>)
    BY <1>0, <2>1, <2>2, DecodeAssumption DEF InTurn, Follows
  <2>4. pushed'[w] = pushed[w] + 1
    BY <1>3, PushedToQueue DEF TypeOK, WorkTypes
  <2>5. Len(queue) \in Nat /\ (queue = <<>> <=> Len(queue) = 0)
    BY DEF TypeOK, OutTypes
  <2>6. /\ held' # NoFrame => Follows(air', held')
        /\ Follows(Front', queue'[1])
        /\ \A i \in 1..(Len(queue') - 1) : Follows(queue'[i], queue'[i + 1])
    BY <1>0, <1>3, <2>3, <2>5, PushedToQueue DEF InTurn, LastIn
  <2>7. pc # "start" /\ segDec # None
    BY <1>0, <2>2, DecodeAssumption DEF Alone
  <2>. QED BY <1>3, <2>1, <2>2, <2>4, <2>6, <2>7, PushedToQueue DEF InTurn
<1>4. CASE UNCHANGED <<queue, held, air>>
  <2>1. UNCHANGED <<LastIn, Front>>
    BY <1>4 DEF LastIn, Front
  <2>2. /\ segDec' # None => IF pushed'[segDec'] = 0 THEN LastIn[1] < seg'
                             ELSE LastIn = <<seg', pushed'[segDec']>>
        /\ pc' = "start" \/ (pc' = "play" /\ segDec' = None) => LastIn[1] < seg'
    <3>1. CASE Take
      <4>1. segDec' = None
        BY <1>0, <3>1 DEF Take, Alone, refVars
      <4>2. LastIn[1] < seg'
        BY <3>1, LastInValue, FrameValues DEF Take, Ordered, TypeOK, LoopTypes
      <4>. QED BY <4>1, <4>2
    <3>2. CASE (Start \/ Play) /\ Begin
      <4>1. PICK w \in Workers : BeginWith(w)
        BY <3>2, BeginPicks
      <4>2. pc' \in {"begun", "playing"} /\ UNCHANGED seg
        BY <3>2, <4>1 DEF Start, Play, Goto, BeginWith, refVars, workVars, TypeOK, WorkTypes
      <4>3. pc = "start" \/ (pc = "play" /\ segDec = None)
        BY <3>2, <4>1 DEF Start, Play, BeginWith, refVars, workVars, TypeOK, WorkTypes
      <4>. QED BY <1>0, <4>1, <4>2, <4>3 DEF BeginWith, InTurn, TypeOK, WorkTypes
    <3>3. CASE (Start \/ Play) /\ ~Begin
      BY <1>0, <3>3 DEF Start, Play, Goto, InTurn, refVars, workVars
    <3>4. CASE Begun \/ Playing
      BY <1>0, <3>4, DecodeAssumption DEF Begun, Playing, RunWorker, Goto, InTurn, Alone,
         refVars
    <3>5. CASE LoopEnds \/ Preroll \/ Wait \/ Abandon \/ Clean \/ Cleaned \/ Finish
      BY <1>0, <3>5 DEF LoopEnds, Preroll, Wait, Abandon, Clean, Cleaned, Finish, Outcome,
         Goto, InTurn, refVars, workVars
    <3>6. CASE Pump \/ SetDraining \/ UNCHANGED vars
      BY <1>0, <3>6 DEF Pump, PumpTakes, PumpWrites, PumpEnds, SetDraining, InTurn, vars,
         loopVars, refVars, workVars
    <3>7. ASSUME NEW w \in Workers, Worker(w) \/ Hang(w)
          PROVE  UNCHANGED <<pc, seg, segDec, pushed>>
      <4>1. ~(Push(w) /\ Room)
        BY <1>4, PushedToQueue DEF TypeOK, OutTypes
      <4>. QED BY <3>7, <4>1 DEF Worker, Launch, Announce, Read, Push, Refused, Hang,
                  loopVars, refVars
    <3>. QED BY <1>0, <3>1, <3>2, <3>3, <3>4, <3>5, <3>6, <3>7, RunningStep DEF Playout,
                InTurn
  <2>. QED BY <1>0, <1>4, <2>1, <2>2 DEF InTurn
<1>. QED BY <1>1, <1>2, <1>3, <1>4, PipeStep

LEMMA HandedOverStep ==
  ASSUME TypeOK, TypeOK', Places, Alone, InTurn, HandedOver, [Next]_vars PROVE HandedOver'
<1>. SUFFICES ASSUME running' PROVE HandedOver'
  BY DEF HandedOver
<1>0. running
  BY RunningStep
<1>1. CASE Wait
  BY <1>0, <1>1 DEF Wait, Outcome, Goto, HandedOver, Alone, WithTask, refVars
<1>2. CASE Clean
  <2>1. UNCHANGED <<seg, count, queue, held, air>> /\ pc' \in {"cleanRaise", "cleanFinish"}
    BY <1>2 DEF Clean, Goto, outVars
  <2>2. ASSUME "late" \notin Faults, pc' = "cleanFinish", count > 0
        PROVE  queue = <<>> /\ Front = <<seg, count>>
    <3>1. pc = "drain" /\ Drained
      BY <1>0, <1>2, <2>2 DEF Clean, Goto, MayGoOn, Places
    <3>2. count = pushed[segDec] /\ segDec \in Workers
      BY <1>0, <3>1 DEF HandedOver, Alone, WithTask
    <3>3. LastIn = Front
      BY <3>1 DEF Drained, LastIn
    <3>4. segDec # None /\ pushed[segDec] # 0
      BY <2>2, <3>2, DecodeAssumption
    <3>5. LastIn = <<seg, pushed[segDec]>>
      BY <1>0, <3>4 DEF InTurn
    <3>. QED BY <3>1, <3>2, <3>3, <3>5 DEF Drained
  <2>3. Front' = Front
    BY <2>1 DEF Front
  <2>. QED BY <2>1, <2>2, <2>3 DEF HandedOver
<1>3. CASE Cleaned
  <2>1. Front' = Front /\ UNCHANGED <<seg, queue>>
    BY <1>3 DEF Cleaned, Front, outVars
  <2>. QED BY <1>0, <1>3, <2>1 DEF Cleaned, Goto, HandedOver
<1>4. CASE Preroll
  BY <1>0, <1>4, DecodeAssumption DEF Preroll, Goto, HandedOver, Alone
<1>5. CASE Take \/ LoopEnds \/ Start \/ Begun \/ Play \/ Playing \/ Abandon \/ Finish
  BY <1>0, <1>5 DEF Take, LoopEnds, Start, Begun, Play, Playing, RunWorker, Abandon, Finish,
     Goto, HandedOver, Alone
<1>6. CASE Pump
  <2>1. ASSUME queue = <<>> PROVE queue' = <<>> /\ Front' = Front
    BY <1>6, <2>1 DEF Pump, PumpTakes, PumpWrites, PumpEnds, Front
  <2>. QED BY <1>0, <1>6, <2>1 DEF Pump, PumpTakes, PumpWrites, PumpEnds, HandedOver, loopVars,
           refVars, workVars
<1>7. CASE SetDraining \/ UNCHANGED vars
  <2>1. CASE SetDraining
    BY <1>0, <1>7, <2>1 DEF SetDraining, HandedOver, Front, loopVars, refVars, workVars, outVars
  <2>2. CASE UNCHANGED vars
    <3>1. UNCHANGED <<held, air>>
      BY <2>2 DEF vars, outVars
    <3>2. UNCHANGED Front
      BY <3>1 DEF Front
    <3>. QED BY <1>0, <2>2, <3>2 DEF HandedOver, vars, loopVars, refVars, workVars, outVars
  <2>. QED BY <1>7, <2>1, <2>2
<1>8. ASSUME NEW w \in Workers, Worker(w) \/ Hang(w) PROVE HandedOver'
  <2>1. UNCHANGED <<loopVars, segDec>> /\ at[w] # "off"
    BY <1>8, WorkerStep
  <2>2. pc \notin {"drain", "cleanFinish", "finish"}
    BY <1>0, <2>1, DecodeAssumption DEF Alone, Over
  <2>. QED BY <2>1, <2>2 DEF HandedOver, loopVars
<1>. QED
  BY <1>1, <1>2, <1>3, <1>4, <1>5, <1>6, <1>7, <1>8, RunningStep DEF Playout

-----------------------------------------------------------------------------
(* The theorems *)

(* The inductive invariant. *)
THEOREM Invariance == Spec => []IInv
<1>1. Init => IInv
  <2>. SUFFICES ASSUME Init PROVE IInv
    OBVIOUS
  <2>. USE DecodeAssumption DEF Init
  <2>1. TypeOK
    <3>1. LoopTypes /\ RefTypes /\ MainTypes
      <4>1. 0 \in 0..MaxSegments /\ 0 \in 0..MaxFrames
        OBVIOUS
      <4>. QED BY <4>1 DEF LoopTypes, RefTypes, MainTypes
    <3>2. WorkTypes
      BY DEF WorkTypes
    <3>3. OutTypes
      <4>1. queue \in Seq(Frames) /\ Len(queue) <= Capacity
        OBVIOUS
      <4>2. held \in Frames \cup {NoFrame} /\ air \in Frames \cup {NoFrame}
        OBVIOUS
      <4>3. pump \in {"on", "off"} /\ pumpStop \in BOOLEAN
        OBVIOUS
      <4>. QED BY <4>1, <4>2, <4>3 DEF OutTypes
    <3>. QED BY <3>1, <3>2, <3>3 DEF TypeOK
  <2>2. Places /\ Alone /\ HandedOver
    BY DEF Places, Alone, HandedOver, WithTask, Over
  <2>3. Ordered /\ InTurn
    BY DEF Ordered, InTurn, LastIn, Front, NoFrame
  <2>. QED BY <2>1, <2>2, <2>3 DEF IInv
<1>2. IInv /\ [Next]_vars => IInv'
  BY TypeStep, PlacesStep, AloneStep, OrderedStep, InTurnStep, HandedOverStep DEF IInv
<1>. QED BY <1>1, <1>2, PTL DEF Spec

(* Every variable of the engine, its workers, the pump and stop() has the   *)
(* values its code gives it; the queue keeps its capacity                   *)
(* (PCMOutputPipeline.push).                                                *)
THEOREM TypeCorrect == Spec => []TypeOK
<1>1. IInv => TypeOK
  BY DEF IInv
<1>. QED BY <1>1, Invariance, PTL

(* While the engine runs only one worker decodes, for any faults: the one   *)
(* that _segment_decoder refers to (PlayoutEngine._begin_segment_decode).   *)
THEOREM DecoderUnique == Spec => []OneDecoder
<1>1. IInv => OneDecoder
  BY DEF IInv, Alone, OneDecoder, Busy
<1>. QED BY <1>1, Invariance, PTL

(* If the drain waits as long as it takes, a segment is finished when the   *)
(* pump has its last frame: every frame the worker pushed has gone through  *)
(* the queue by then, in order, and no more will come for it, however long  *)
(* a write lasts (PlayoutEngine._play_audio_segment, _wait_pcm_drain).      *)
THEOREM FinishedHandedOver ==
  ASSUME "late" \notin Faults PROVE Spec => []FinishedIsHandedOver
<1>1. IInv => FinishedIsHandedOver
  BY DEF IInv, HandedOver, FinishedIsHandedOver
<1>. QED BY <1>1, Invariance, PTL

(* Frames go out in order, none skipped and none twice, until the engine is *)
(* stopped, and no earlier segment comes back after that: every step of the *)
(* decode pipeline is a step of Tape, for any faults.                       *)
THEOREM TapeKept == Spec => ImplementsTape
<1>1. Init => Tape_!Init
  BY DEF Init, Tape_!Init, NoFrame
<1>2. IInv /\ [Next]_vars => [Tape_!Next]_<<air, ~running>>
  <2>. SUFFICES ASSUME IInv, [Next]_vars PROVE [Tape_!Next]_<<air, ~running>>
    OBVIOUS
  <2>1. CASE PumpWrites
    <3>1. held \in Frames /\ air' = held /\ UNCHANGED running
      BY <2>1 DEF PumpWrites, IInv, TypeOK, OutTypes, mainVars
    <3>2. held \in Tape_!Frame
      BY <3>1, DecodeAssumption DEF Tape_!Frame, Frames
    <3>3. air[1] <= held[1] /\ (running => Follows(air, held))
      BY <2>1 DEF PumpWrites, IInv, Ordered, InTurn
    <3>. QED BY <3>1, <3>2, <3>3 DEF Follows, Tape_!Next, Tape_!Play, Tape_!GoesOn,
                Tape_!Changes
  <2>2. CASE Halt
    BY <2>2 DEF Halt, IInv, Places, outVars, Tape_!Next, Tape_!Cut
  <2>3. CASE UNCHANGED <<air, running>>
    BY <2>3
  <2>4. PumpWrites \/ Halt \/ UNCHANGED <<air, running>>
    BY DEF Next, Playout, Pump, Take, LoopEnds, Start, Begun, Play, Playing, Preroll, Wait,
       Abandon, Clean, Cleaned, Finish, PumpTakes, PumpEnds, SetDraining, StopStep, Look,
       JoinWorker, Forget, Clear, Kill, Join, StopPump, JoinPump, Worker, Launch, Announce,
       Read, Push, Hang, outVars, mainVars, vars
  <2>. QED BY <2>1, <2>2, <2>3, <2>4
<1>. QED BY <1>1, <1>2, Invariance, PTL DEF Spec, ImplementsTape, Tape_!Spec, Tape_!vars
=============================================================================
