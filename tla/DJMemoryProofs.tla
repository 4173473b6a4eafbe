--------------------------- MODULE DJMemoryProofs ---------------------------
(***************************************************************************)
(* Proofs about DJMemory, for any tracks and files, any intervals and any  *)
(* lengths of the histories, with crashes at any point.                    *)
(***************************************************************************)
EXTENDS DJMemory, SequenceTheorems, TLAPS

(* What is on air while a segment is, and what its break leads to. *)
AirKnown ==
    /\ phase \in {"air", "planned"} => air \in Segments
    /\ phase = "planned" => plan.song \in Tracks

(* A stamp that is not lost is true: in memory while the DJ runs, and in    *)
(* the file, or in its absence, while he does not.                          *)
StampsTrue ==
    \A k \in Kinds :
        /\ mem.age[k] <= Limit[k] /\ disk.age[k] <= Limit[k] /\ aired[k] <= Limit[k]
        /\ k \notin lost => (IF phase = "down" THEN disk ELSE mem).age[k] = aired[k]

(* A plan brings only what has stayed due since it was made. *)
PlanDue == phase = "planned" => \A k \in Brings(plan) : mem.age[k] = Limit[k]

IInv == TypeOK /\ AirKnown /\ StampsTrue /\ PlanDue /\ HistoriesAgree

-----------------------------------------------------------------------------
(* Histories *)

LEMMA RecentType ==
    ASSUME NEW S, NEW s \in Seq(S), NEW n \in Nat
    PROVE  /\ Recent(s, n) \in SeqUpTo(S, n)
           /\ Len(Recent(s, n)) = IF Len(s) <= n THEN Len(s) ELSE n
           /\ \A i \in 1 .. Len(Recent(s, n)) :
                 Recent(s, n)[i] = s[i + (Len(s) - Len(Recent(s, n)))]
<1>0. Len(s) \in Nat
      OBVIOUS
<1>1. CASE Len(s) <= n
      BY <1>0, <1>1 DEF Recent, SeqUpTo
<1>2. CASE ~(Len(s) <= n)
  <2> DEFINE m == Len(s) - n + 1
             r == SubSeq(s, m, Len(s))
  <2>1. m \in 1 .. Len(s) + 1 /\ Len(s) \in m - 1 .. Len(s)
        BY <1>0, <1>2
  <2>2. r \in Seq(S) /\ Len(r) = n /\ \A i \in 1 .. n : r[i] = s[m + i - 1]
        BY <1>0, <1>2, <2>1, SubSeqProperties
  <2>3. Recent(s, n) = r
        BY <1>2 DEF Recent
  <2> HIDE DEF r
  <2>4. \A i \in 1 .. n : m + i - 1 = i + (Len(s) - n)
        BY <1>0
  <2>5. r \in SeqUpTo(S, n)
        BY <2>2 DEF SeqUpTo
  <2>6. \A i \in 1 .. n : r[i] = s[i + (Len(s) - n)]
        BY <2>2, <2>4
  <2> QED BY <1>2, <2>2, <2>3, <2>5, <2>6
<1> QED BY <1>1, <1>2

LEMMA RecordedType ==
    ASSUME NEW S, NEW s \in Seq(S), NEW x \in S, NEW n \in Nat
    PROVE  Recorded(s, x, n) \in SeqUpTo(S, n)
<1>1. Append(s, x) \in Seq(S)
      OBVIOUS
<1> QED BY <1>1, RecentType DEF Recorded

(* What is kept of what is kept is what is kept at once. *)
LEMMA RecentOfRecent ==
    ASSUME NEW S, NEW s \in Seq(S), NEW n \in Nat, NEW m \in Nat, m <= n
    PROVE  Recent(Recent(s, n), m) = Recent(s, m)
<1> DEFINE r == Recent(s, n)
<1>1. r \in Seq(S) /\ Len(s) \in Nat
      BY RecentType DEF SeqUpTo
<1>2. /\ Len(r) = IF Len(s) <= n THEN Len(s) ELSE n
      /\ \A i \in 1 .. Len(r) : r[i] = s[i + (Len(s) - Len(r))]
      BY RecentType
<1>3. /\ Recent(r, m) \in Seq(S)
      /\ Len(Recent(r, m)) = IF Len(r) <= m THEN Len(r) ELSE m
      /\ \A i \in 1 .. Len(Recent(r, m)) : Recent(r, m)[i] = r[i + (Len(r) - Len(Recent(r, m)))]
      BY <1>1, RecentType DEF SeqUpTo
<1>4. /\ Recent(s, m) \in Seq(S)
      /\ Len(Recent(s, m)) = IF Len(s) <= m THEN Len(s) ELSE m
      /\ \A i \in 1 .. Len(Recent(s, m)) : Recent(s, m)[i] = s[i + (Len(s) - Len(Recent(s, m)))]
      BY RecentType DEF SeqUpTo
<1> HIDE DEF r
<1>5. Len(Recent(r, m)) = Len(Recent(s, m))
      BY <1>1, <1>2, <1>3, <1>4
<1>6. ASSUME NEW i \in 1 .. Len(Recent(s, m)) PROVE Recent(r, m)[i] = Recent(s, m)[i]
  <2> DEFINE l == Len(Recent(s, m))
             j == i + (Len(r) - l)
  <2>0. /\ Len(r) \in Nat /\ l \in Nat /\ Len(s) \in Nat
        /\ l = IF Len(s) <= m THEN Len(s) ELSE m
        BY <1>1, <1>2, <1>4
  <2> HIDE DEF l
  <2>1. l \in Nat /\ j \in 1 .. Len(r) /\ Len(r) \in Nat
    <3>1. i \in 1 .. l
          BY DEF l
    <3>2. l <= Len(r)
          BY <1>2, <2>0
    <3> QED BY <2>0, <3>1, <3>2
  <2>2. Recent(r, m)[i] = r[j]
        BY <1>3, <1>5 DEF l
  <2>3. r[j] = s[j + (Len(s) - Len(r))]
        BY <1>2, <2>1
  <2>4. j + (Len(s) - Len(r)) = i + (Len(s) - l)
        BY <1>1, <2>1
  <2> QED BY <1>4, <2>2, <2>3, <2>4 DEF l
<1> QED BY <1>3, <1>4, <1>5, <1>6, SeqEqual DEF r

(* A short history follows a long one: both are given the same entry, and   *)
(* the short one is still the end of the long one.                          *)
LEMMA RecordedAlike ==
    ASSUME NEW S, NEW s \in Seq(S), NEW x \in S, NEW n \in Nat, NEW m \in Nat \ {0}, m <= n
    PROVE  Recorded(Recent(s, m), x, m) = Recent(Recorded(s, x, n), m)
<1> DEFINE r == Recent(s, m)
           a == Append(r, x)
           b == Append(s, x)
<1>1. /\ r \in Seq(S) /\ Len(s) \in Nat
      /\ Len(r) = IF Len(s) <= m THEN Len(s) ELSE m
      /\ \A i \in 1 .. Len(r) : r[i] = s[i + (Len(s) - Len(r))]
      BY RecentType DEF SeqUpTo
<1> HIDE DEF r
<1>2. /\ a \in Seq(S) /\ Len(a) = Len(r) + 1 /\ a[Len(r) + 1] = x
      /\ \A i \in 1 .. Len(r) : a[i] = r[i]
      BY <1>1
<1>3. /\ b \in Seq(S) /\ Len(b) = Len(s) + 1 /\ b[Len(s) + 1] = x
      /\ \A i \in 1 .. Len(s) : b[i] = s[i]
      OBVIOUS
<1> HIDE DEF a, b
<1>4. \A i \in 1 .. Len(a) : a[i] = b[i + (Len(b) - Len(a))]
  <2> SUFFICES ASSUME NEW i \in 1 .. Len(a) PROVE a[i] = b[i + (Len(b) - Len(a))]
      OBVIOUS
  <2>1. CASE i = Len(r) + 1
    <3>0. Len(r) \in Nat /\ Len(s) \in Nat
          BY <1>1
    <3>1. i + (Len(b) - Len(a)) = Len(s) + 1
          BY <1>2, <1>3, <2>1, <3>0
    <3> QED BY <1>2, <1>3, <2>1, <3>1
  <2>2. CASE i # Len(r) + 1
    <3>1. i \in 1 .. Len(r) /\ i + (Len(s) - Len(r)) \in 1 .. Len(s)
          BY <1>1, <1>2, <2>2
    <3>2. a[i] = s[i + (Len(s) - Len(r))]
          BY <1>1, <1>2, <3>1
    <3>3. i + (Len(s) - Len(r)) = i + (Len(b) - Len(a))
          BY <1>1, <1>2, <1>3
    <3> QED BY <1>3, <3>1, <3>2, <3>3
  <2> QED BY <2>1, <2>2
<1>5. /\ Recent(a, m) \in Seq(S)
      /\ Len(Recent(a, m)) = IF Len(a) <= m THEN Len(a) ELSE m
      /\ \A i \in 1 .. Len(Recent(a, m)) : Recent(a, m)[i] = a[i + (Len(a) - Len(Recent(a, m)))]
      BY <1>2, RecentType DEF SeqUpTo
<1>6. /\ Recent(b, m) \in Seq(S)
      /\ Len(Recent(b, m)) = IF Len(b) <= m THEN Len(b) ELSE m
      /\ \A i \in 1 .. Len(Recent(b, m)) : Recent(b, m)[i] = b[i + (Len(b) - Len(Recent(b, m)))]
      BY <1>3, RecentType DEF SeqUpTo
<1>7. Len(Recent(a, m)) = Len(Recent(b, m))
      BY <1>1, <1>2, <1>3, <1>5, <1>6
<1>8. ASSUME NEW i \in 1 .. Len(Recent(b, m)) PROVE Recent(a, m)[i] = Recent(b, m)[i]
  <2> DEFINE l == Len(Recent(b, m))
             j == i + (Len(a) - l)
  <2>0. /\ Len(a) \in Nat /\ Len(b) \in Nat
        /\ l = IF Len(a) <= m THEN Len(a) ELSE m
        BY <1>1, <1>2, <1>3, <1>5, <1>7
  <2> HIDE DEF l
  <2>1. l \in Nat /\ i \in 1 .. l /\ j \in 1 .. Len(a) /\ Len(a) \in Nat /\ Len(b) \in Nat
        BY <2>0 DEF l
  <2>2. Recent(a, m)[i] = a[j]
        BY <1>5, <1>7 DEF l
  <2>3. a[j] = b[j + (Len(b) - Len(a))]
        BY <1>4, <2>1
  <2>4. j + (Len(b) - Len(a)) = i + (Len(b) - l)
        BY <2>1
  <2> QED BY <1>6, <2>2, <2>3, <2>4 DEF l
<1>9. Recent(a, m) = Recent(b, m)
      BY <1>5, <1>6, <1>7, <1>8, SeqEqual
<1>10. Recent(Recent(b, n), m) = Recent(b, m)
       BY <1>3, RecentOfRecent
<1> QED BY <1>9, <1>10 DEF Recorded, a, b, r

-----------------------------------------------------------------------------
(* Types *)

LEMMA LimitType == Limit \in [Kinds -> Nat \ {0}] /\ Kinds = {"legal", "generic", "talk"}
BY MemoryAssumption DEF MemoryAssumption, Kinds

LEMMA OlderType == ASSUME NEW a \in [Kinds -> Nat] PROVE Older(a) \in [Kinds -> Nat]
BY LimitType DEF Older

LEMMA FreshType == ASSUME NEW a \in [Kinds -> Nat], NEW K PROVE Fresh(a, K) \in [Kinds -> Nat]
BY DEF Fresh

LEMMA ColdType == Cold \in Memories
<1>1. Limit \in [Kinds -> Nat]
      BY LimitType
<1>2. ASSUME NEW S, NEW n \in Nat PROVE <<>> \in SeqUpTo(S, n)
      BY DEF SeqUpTo
<1>3. CooldownLen \in Nat /\ MaxHistory \in Nat /\ HistorySize \in Nat
      BY MemoryAssumption DEF MemoryAssumption
<1> QED BY <1>1, <1>2, <1>3 DEF Cold, Memories

(* A memory with other ages. *)
LEMMA AgeType ==
    ASSUME NEW m \in Memories, NEW a \in [Kinds -> Nat]
    PROVE  [m EXCEPT !.age = a] \in Memories
BY DEF Memories

LEMMA UsedType ==
    ASSUME NEW S, NEW files \in SeqUpTo(S, CooldownLen), NEW x \in S \cup {None}
    PROVE  Used(files, x) \in SeqUpTo(S, CooldownLen)
<1>1. files \in Seq(S) /\ CooldownLen \in Nat
      BY MemoryAssumption DEF SeqUpTo, MemoryAssumption
<1>2. CASE x = None
      BY <1>2 DEF Used
<1>3. CASE x # None
      BY <1>1, <1>3, RecordedType DEF Used
<1> QED BY <1>2, <1>3

LEMMA PlayedType ==
    ASSUME NEW m \in Memories, NEW x \in Segments
    PROVE  Played(m, x) \in Memories
<1>1. m.lastPlayed \in Seq(Segments) /\ m.history \in Seq(Segments)
      BY DEF Memories, SeqUpTo
<1>2. MaxHistory \in Nat /\ HistorySize \in Nat
      BY MemoryAssumption DEF MemoryAssumption
<1>3. /\ Recorded(m.lastPlayed, x, MaxHistory) \in SeqUpTo(Segments, MaxHistory)
      /\ Recorded(m.history, x, HistorySize) \in SeqUpTo(Segments, HistorySize)
      BY <1>1, <1>2, RecordedType
<1> QED BY <1>3 DEF Played, Memories

LEMMA SavedType ==
    ASSUME NEW m \in Memories
    PROVE  ToDict(m) \in Memories
<1>1. m.history \in Seq(Segments) /\ SavedHistory \in Nat /\ HistorySize \in Nat
      /\ SavedHistory <= HistorySize
      BY MemoryAssumption DEF Memories, SeqUpTo, MemoryAssumption
<1>2. Recent(m.history, SavedHistory) \in SeqUpTo(Segments, SavedHistory)
      BY <1>1, RecentType
<1>3. Recent(m.history, SavedHistory) \in SeqUpTo(Segments, HistorySize)
      BY <1>1, <1>2 DEF SeqUpTo
<1> QED BY <1>3 DEF ToDict, Memories

LEMMA ChosenFiles ==
    ASSUME NEW files, NEW used
    PROVE  Selected(files, used) \subseteq files \cup {None}
BY DEF Selected

LEMMA ChosenSongs == NextSongs \subseteq Tracks
BY DEF NextSongs, Rotated

LEMMA TypesKept == ASSUME TypeOK, AirKnown, [Next]_vars PROVE TypeOK'
<1>1. CASE Tick
  <2>1. /\ aired' \in [Kinds -> Nat]
        /\ Older(mem.age) \in [Kinds -> Nat] /\ Older(disk.age) \in [Kinds -> Nat]
        BY <1>1, OlderType DEF Tick, TypeOK, Memories
  <2>2. mem' \in Memories /\ disk' \in Memories
        BY <1>1, <2>1, AgeType DEF Tick, TypeOK
  <2> QED BY <1>1, <2>1, <2>2 DEF Tick, TypeOK
<1>2. CASE SeasonTurns
      BY <1>2 DEF SeasonTurns, TypeOK
<1>3. CASE Start
      BY <1>3 DEF Start, FromDict, TypeOK, Segments
<1>4. CASE Think
  <2>1. PICK song \in NextSongs, outro \in Outro :
           \E intro \in Intro(song) :
              plan' = [song |-> song, outro |-> outro, id |-> StationId, intro |-> intro]
        BY <1>4 DEF Think
  <2>2. PICK intro \in Intro(song) :
           plan' = [song |-> song, outro |-> outro, id |-> StationId, intro |-> intro]
        BY <2>1
  <2>3. song \in Tracks
        BY ChosenSongs
  <2>4. outro \in Outros \cup Own \cup {None}
        BY ChosenFiles DEF Outro
  <2>5. intro \in Intros \cup Own \cup {None}
        BY ChosenFiles DEF Intro
  <2>6. StationId \in {"legal", "generic", "none"}
        BY DEF StationId
  <2> QED BY <1>4, <2>2, <2>3, <2>4, <2>5, <2>6 DEF Think, TypeOK
<1>5. CASE Do
  <2>1. air \in Segments /\ plan.song \in Tracks
        BY <1>5 DEF Do, AirKnown
  <2> DEFINE p == Played(mem, air)
  <2>2. p \in Memories
        BY <2>1, PlayedType DEF TypeOK
  <2> HIDE DEF p
  <2>3. /\ Stamped(p.age, plan) \in [Kinds -> Nat]
        /\ Used(p.intros, plan.intro) \in SeqUpTo(Intros \cup Own, CooldownLen)
        /\ Used(p.outros, plan.outro) \in SeqUpTo(Outros \cup Own, CooldownLen)
        BY <2>2, FreshType, UsedType DEF Stamped, Memories, TypeOK
  <2>4. mem' = [p EXCEPT !.age = Stamped(p.age, plan), !.intros = Used(p.intros, plan.intro),
                         !.outros = Used(p.outros, plan.outro)]
        BY <1>5 DEF Do, p
  <2>5. mem' \in Memories
        BY <2>2, <2>3, <2>4 DEF Memories
  <2>6. aired' \in [Kinds -> Nat]
        BY <1>5, FreshType DEF Do, TypeOK
  <2> QED BY <1>5, <2>1, <2>5, <2>6 DEF Do, TypeOK, NoPlan, Segments
<1>6. CASE Drain
      BY <1>6 DEF Drain, TypeOK, NoPlan
<1>7. CASE Save
  <2>1. disk' \in Memories
        BY <1>7, SavedType DEF Save, TypeOK
  <2> QED BY <1>7, <2>1, ColdType DEF Save, Off, TypeOK, NoPlan
<1>8. CASE SaveFails \/ Crash
      BY <1>8, ColdType DEF SaveFails, Crash, Forget, Off, TypeOK, NoPlan
<1>9. CASE UNCHANGED vars
      BY <1>9 DEF vars, TypeOK
<1> QED BY <1>1, <1>2, <1>3, <1>4, <1>5, <1>6, <1>7, <1>8, <1>9 DEF Next

-----------------------------------------------------------------------------
(* The parts of the invariant *)

LEMMA AirKept == ASSUME TypeOK, AirKnown, [Next]_vars PROVE AirKnown'
<1>1. CASE Start
      BY <1>1 DEF Start, AirKnown, Segments
<1>2. CASE Think
  <2>1. plan'.song \in Tracks
        BY <1>2, ChosenSongs DEF Think
  <2> QED BY <1>2, <2>1 DEF Think, AirKnown
<1>3. CASE Do
      BY <1>3 DEF Do, AirKnown, Segments
<1>4. CASE Drain
      BY <1>4 DEF Drain, AirKnown
<1>5. CASE Save \/ SaveFails \/ Crash
      BY <1>5 DEF Save, SaveFails, Crash, Off, AirKnown
<1>6. CASE Tick \/ SeasonTurns \/ UNCHANGED vars
      BY <1>6 DEF Tick, SeasonTurns, vars, AirKnown
<1> QED BY <1>1, <1>2, <1>3, <1>4, <1>5, <1>6 DEF Next

(* The ages after a step, where they are those of memories. *)
LEMMA AgeOfCold == Cold.age = Limit
BY DEF Cold

LEMMA DoAges ==
    ASSUME TypeOK, AirKnown, Do
    PROVE  /\ mem'.age = Fresh(mem.age, Brings(plan)) /\ aired' = Fresh(aired, Brings(plan))
           /\ disk' = disk /\ lost' = lost \ Brings(plan) /\ phase' = "air"
<1> DEFINE p == Played(mem, air)
<1>1. p.age = mem.age /\ p \in Memories
      BY PlayedType DEF Do, AirKnown, Played, TypeOK, Memories
<1> HIDE DEF p
<1>2. mem' = [p EXCEPT !.age = Stamped(p.age, plan), !.intros = Used(p.intros, plan.intro),
                       !.outros = Used(p.outros, plan.outro)]
      BY DEF Do, p
<1>3. mem'.age = Stamped(mem.age, plan)
      BY <1>1, <1>2 DEF Memories
<1> QED BY <1>3 DEF Do, Stamped

LEMMA StampsKept == ASSUME TypeOK, AirKnown, StampsTrue, [Next]_vars PROVE StampsTrue'
<1>0. \A k \in Kinds : /\ Limit[k] \in Nat \ {0} /\ mem.age[k] \in Nat
                       /\ disk.age[k] \in Nat /\ aired[k] \in Nat
      BY LimitType DEF TypeOK, Memories
<1>1. CASE Tick
  <2>1. /\ mem'.age = Older(mem.age) /\ disk'.age = Older(disk.age) /\ aired' = Older(aired)
        /\ UNCHANGED <<phase, lost>>
        BY <1>1 DEF Tick, TypeOK, Memories
  <2> QED BY <1>0, <2>1 DEF StampsTrue, Older
<1>2. CASE Start
      BY <1>2 DEF Start, FromDict, StampsTrue
<1>3. CASE Think
      BY <1>3 DEF Think, StampsTrue
<1>4. CASE Do
  <2>1. phase # "down"
        BY <1>4 DEF Do
  <2> QED BY <1>0, <1>4, <2>1, DoAges DEF StampsTrue, Fresh
<1>5. CASE Drain
      BY <1>5 DEF Drain, StampsTrue
<1>6. CASE Save
  <2>1. disk'.age = mem.age
        BY <1>6 DEF Save, ToDict, TypeOK, Memories
  <2>2. mem'.age = Limit /\ phase' = "down" /\ phase # "down" /\ UNCHANGED <<aired, lost>>
        BY <1>6, AgeOfCold DEF Save, Off
  <2> QED BY <1>0, <2>1, <2>2 DEF StampsTrue
<1>7. CASE SaveFails \/ Crash
  <2>1. /\ mem'.age = Limit /\ phase' = "down" /\ phase # "down" /\ UNCHANGED <<aired, disk>>
        /\ lost' = lost \cup {k \in Kinds : mem.age[k] # disk.age[k]}
        BY <1>7, AgeOfCold DEF SaveFails, Crash, Forget, Off
  <2> QED BY <1>0, <2>1 DEF StampsTrue
<1>8. CASE SeasonTurns \/ UNCHANGED vars
      BY <1>8 DEF SeasonTurns, vars, StampsTrue
<1> QED BY <1>1, <1>2, <1>3, <1>4, <1>5, <1>6, <1>7, <1>8 DEF Next

(* What THINK finds due has reached its limit, and stays there until DO. *)
LEMMA PlanKept == ASSUME TypeOK, StampsTrue, PlanDue, [Next]_vars PROVE PlanDue'
<1>0. \A k \in Kinds : /\ Limit[k] \in Nat \ {0} /\ mem.age[k] \in Nat /\ mem.age[k] <= Limit[k]
      BY LimitType DEF TypeOK, Memories, StampsTrue
<1>1. CASE Tick
  <2>1. mem'.age = Older(mem.age) /\ UNCHANGED <<phase, plan>>
        BY <1>1 DEF Tick, TypeOK, Memories
  <2>2. Brings(plan) \subseteq Kinds
        BY LimitType DEF Brings
  <2> QED BY <1>0, <2>1, <2>2 DEF PlanDue, Older
<1>2. CASE Think
  <2> SUFFICES ASSUME NEW k \in Brings(plan') PROVE mem.age[k] = Limit[k]
      BY <1>2 DEF Think, PlanDue
  <2>1. PICK outro \in Outro : plan'.outro = outro /\ plan'.id = StationId
        BY <1>2 DEF Think
  <2>2. k \in Kinds
        BY LimitType DEF Brings
  <2>3. CASE k = plan'.id
    <3>1. (k = "legal" /\ Due("legal")) \/ (k = "generic" /\ Due("generic"))
          BY <2>1, <2>2, <2>3, LimitType DEF StationId, NeedsLegalId, NeedsGenericId
    <3> QED BY <1>0, <2>2, <3>1 DEF Due
  <2>4. CASE k # plan'.id
    <3>1. k = "talk" /\ outro # None
          BY <2>1, <2>4 DEF Brings
    <3>2. Due("talk")
          BY <3>1 DEF Outro, ShouldTalk
    <3> QED BY <1>0, <2>2, <3>1, <3>2 DEF Due
  <2> QED BY <2>3, <2>4
<1>3. CASE UNCHANGED <<phase, plan, mem>>
      BY <1>3 DEF PlanDue
<1>4. CASE phase' # "planned"
      BY <1>4 DEF PlanDue
<1> QED BY <1>1, <1>2, <1>3, <1>4
        DEF Next, SeasonTurns, Start, Do, Drain, Save, SaveFails, Crash, Off, vars

LEMMA HistoriesKept ==
    ASSUME TypeOK, AirKnown, HistoriesAgree, [Next]_vars
    PROVE  HistoriesAgree'
<1> DEFINE Agrees(m) == m.lastPlayed = Recent(m.history, MaxHistory)
<1>0. /\ Agrees(mem) /\ Agrees(disk)
      /\ mem.history \in Seq(Segments)
      /\ MaxHistory \in Nat \ {0} /\ HistorySize \in Nat /\ SavedHistory \in Nat
      /\ MaxHistory <= SavedHistory /\ MaxHistory <= HistorySize
      BY MemoryAssumption DEF HistoriesAgree, TypeOK, Memories, SeqUpTo, MemoryAssumption
<1> SUFFICES Agrees(mem') /\ Agrees(disk')
    BY DEF HistoriesAgree
<1>1. Agrees(Cold)
      BY <1>0 DEF Cold, Recent
<1>2. CASE Tick
      BY <1>0, <1>2 DEF Tick, TypeOK, Memories
<1>3. CASE Do
  <2>1. /\ mem'.lastPlayed = Recorded(mem.lastPlayed, air, MaxHistory)
        /\ mem'.history = Recorded(mem.history, air, HistorySize)
        BY <1>3 DEF Do, Played, TypeOK, Memories
  <2>2. air \in Segments /\ disk' = disk
        BY <1>3 DEF Do, AirKnown
  <2>3. Recorded(Recent(mem.history, MaxHistory), air, MaxHistory)
           = Recent(Recorded(mem.history, air, HistorySize), MaxHistory)
        BY <1>0, <2>2, RecordedAlike
  <2> QED BY <1>0, <2>1, <2>2, <2>3
<1>4. CASE Save
  <2>1. disk'.lastPlayed = mem.lastPlayed /\ disk'.history = Recent(mem.history, SavedHistory)
        BY <1>4 DEF Save, ToDict, TypeOK, Memories
  <2>2. Recent(Recent(mem.history, SavedHistory), MaxHistory) = Recent(mem.history, MaxHistory)
        BY <1>0, RecentOfRecent
  <2>3. mem' = Cold
        BY <1>4 DEF Save, Off
  <2> QED BY <1>0, <1>1, <2>1, <2>2, <2>3
<1>5. CASE SaveFails \/ Crash
      BY <1>0, <1>1, <1>5 DEF SaveFails, Crash, Off
<1>6. CASE Start
      BY <1>0, <1>6 DEF Start, FromDict
<1>7. CASE Think \/ Drain \/ SeasonTurns \/ UNCHANGED vars
      BY <1>0, <1>7 DEF Think, Drain, SeasonTurns, vars
<1> QED BY <1>2, <1>3, <1>4, <1>5, <1>6, <1>7 DEF Next

-----------------------------------------------------------------------------
(* The theorems *)

(* The inductive invariant. *)
THEOREM Invariance == Spec => []IInv
<1>1. Init => IInv
  <2> SUFFICES ASSUME Init PROVE IInv
      OBVIOUS
  <2>1. TypeOK
        BY ColdType, LimitType DEF Init, TypeOK, NoPlan
  <2>2. StampsTrue
        BY LimitType, AgeOfCold DEF Init, StampsTrue
  <2>3. HistoriesAgree
        BY MemoryAssumption DEF Init, HistoriesAgree, Cold, Recent, MemoryAssumption
  <2> QED BY <2>1, <2>2, <2>3 DEF Init, IInv, AirKnown, PlanDue
<1>2. IInv /\ [Next]_vars => IInv'
      BY TypesKept, AirKept, StampsKept, PlanKept, HistoriesKept DEF IInv
<1> QED BY <1>1, <1>2, PTL DEF Spec

(* Every variable keeps its type; no history outgrows its bound. *)
THEOREM TypeCorrect == Spec => []TypeOK
<1>1. IInv => TypeOK
      BY DEF IInv
<1> QED BY <1>1, Invariance, PTL

(* Stops, starts and crashes at any point, and breaks of any kind between   *)
(* them: what a plan brings is due by the true time of the last of its kind.*)
THEOREM Spacing == Spec => []SpacingKept
<1>1. IInv => SpacingKept
  <2>1. Brings(plan) \subseteq Kinds
        BY LimitType DEF Brings
  <2> QED BY <2>1 DEF IInv, StampsTrue, PlanDue, SpacingKept
<1> QED BY <1>1, Invariance, PTL

(* The two histories, cut to different lengths at different times, agree.   *)
THEOREM Histories == Spec => []HistoriesAgree
<1>1. IInv => HistoriesAgree
      BY DEF IInv
<1> QED BY <1>1, Invariance, PTL

(* Whatever tracks there are, the next song is in season unless the only    *)
(* regular one is on air, and another unless there is no other.              *)
THEOREM NextSongFits == Spec => NextSongIsFit
<1> DEFINE Fits == phase = "air" /\ phase' = "planned" =>
                      /\ plan'.song = air => Tracks = {air}
                      /\ plan'.song \in Holiday => season \/ Regular \subseteq {air}
<1>1. [Next]_vars => Fits
  <2> SUFFICES ASSUME [Next]_vars, phase = "air", phase' = "planned" PROVE Fits
      OBVIOUS
  <2>1. Think
        BY DEF Next, Tick, SeasonTurns, Start, Do, Drain, Save, SaveFails, Crash, Off, vars
  <2>2. plan'.song \in NextSongs
        BY <2>1 DEF Think
  <2>3. Regular \cap Holiday = {}
        BY MemoryAssumption DEF MemoryAssumption
  <2>4. plan'.song = air => Tracks = {air}
    <3>1. Tracks \ {air} # {} => NextSongs \subseteq Tracks \ {air}
          BY DEF NextSongs, Rotated
    <3>2. Tracks # {}
          BY MemoryAssumption DEF MemoryAssumption
    <3> QED BY <2>2, <3>1, <3>2
  <2>5. ASSUME ~season, ~(Regular \subseteq {air}) PROVE plan'.song \notin Holiday
    <3>1. (Tracks \ {air}) \cap Regular # {}
          BY <2>5 DEF Tracks
    <3>2. NextSongs \subseteq Regular
          BY <2>5, <3>1 DEF NextSongs, Rotated
    <3> QED BY <2>2, <2>3, <3>2
  <2> QED BY <2>4, <2>5
<1>2. [Next]_vars => [Fits]_vars
      BY <1>1
<1> QED BY <1>2, PTL DEF Spec, NextSongIsFit
=============================================================================
