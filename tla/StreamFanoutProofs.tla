------------------------ MODULE StreamFanoutProofs ------------------------
(***************************************************************************)
(* Proofs about StreamFanout, for any number of listeners, any sizes of    *)
(* frames, buffers and queues, and any limit on the clients.               *)
(***************************************************************************)
EXTENDS StreamFanout, FiniteSetTheorems, TLAPS

(* The handler and the registry: before the registration the connection is  *)
(* open, after it it is open as long as it is registered.                   *)
HandlersKnow ==
    \A c \in Clients :
        /\ handler[c] \in {"none", "count", "add", "done"} => c \notin registry
        /\ handler[c] \in {"count", "add"} => open[c]
        /\ handler[c] \in {"arm", "read", "leave"} => (open[c] <=> c \in registry)
        /\ handler[c] = "done" => ~open[c]

(* Where the main loop is: who is flushed is registered and neither to be   *)
(* visited again nor to be dropped, and has something queued until the      *)
(* socket took something.                                                   *)
LoopKnows ==
    /\ todo \cap dead = {}
    /\ loop = "top" => todo = {} /\ dead = {}
    /\ loop = "flush" => /\ cur \in registry
                         /\ cur \notin todo \cup dead
                         /\ sentAny \/ queue[cur] # <<>>

(* The entries of a queue are one stretch of the stream: they end before    *)
(* frame f, only the first may have been cut, and it is what w, the next    *)
(* byte on the wire, begins.                                                *)
Stretch(q, f, w) ==
    /\ \A i \in 1 .. Len(q) : i < Len(q) => q[i + 1].frame = After(q[i].frame)
    /\ q # <<>> => After(q[Len(q)].frame) = f
    /\ \A i \in 1 .. Len(q) : i > 1 => q[i].rest = FrameBytes
    /\ w = Nothing => \A i \in 1 .. Len(q) : q[i].rest = FrameBytes
    /\ w # Nothing => w = IF q = <<>> THEN [frame |-> f, rest |-> FrameBytes] ELSE q[1]

(* The frame that a client is sent next. *)
Due(c) == IF c \in todo THEN frame ELSE After(frame)

InOrder ==
    \A c \in Clients :
        /\ c \notin registry => queue[c] = <<>> /\ wire[c] = Nothing
        /\ c \in registry \ dead => Stretch(queue[c], Due(c), wire[c])

IInv == TypeOK /\ HandlersKnow /\ LoopKnows /\ InOrder

-----------------------------------------------------------------------------
(* A queue as it is filled and emptied *)

LEMMA AfterType == ASSUME NEW f \in 0 .. Frames - 1 PROVE After(f) \in 0 .. Frames - 1
BY FanoutAssumption DEF After, FanoutAssumption

LEMMA FollowingType ==
    ASSUME NEW e \in Entries, NEW n \in Nat
    PROVE  Following(e, n) \in Entries
<1>1. e.frame \in 0 .. Frames - 1 /\ e.rest \in 1 .. FrameBytes
      BY DEF Entries
<1>2. CASE n >= e.rest
      BY <1>1, <1>2, AfterType, FanoutAssumption DEF Following, Entries, FanoutAssumption
<1>3. CASE ~(n >= e.rest)
  <2>1. e.rest - n \in 1 .. FrameBytes
        BY <1>1, <1>3, FanoutAssumption DEF FanoutAssumption
  <2>2. [e EXCEPT !.rest = e.rest - n] \in Entries
        BY <2>1 DEF Entries
  <2> QED BY <1>3, <2>2 DEF Following
<1> QED BY <1>2, <1>3

LEMMA EntryIsNotNothing == ASSUME NEW e \in Entries PROVE e # Nothing
BY DEF Entries, Nothing

LEMMA EmptyStretch == ASSUME NEW f PROVE Stretch(<<>>, f, Nothing)
BY DEF Stretch

(* A frame is appended to a queue that ends before it.                      *)
LEMMA StretchGrows ==
    ASSUME NEW q \in Seq(Entries), NEW f \in 0 .. Frames - 1,
           NEW w \in Entries \cup {Nothing}, Stretch(q, f, w)
    PROVE  LET e == [frame |-> f, rest |-> FrameBytes]
           IN  /\ Append(q, e) \in Seq(Entries) /\ Append(q, e) # <<>>
               /\ Len(Append(q, e)) = Len(q) + 1
               /\ Stretch(Append(q, e), After(f), w)
<1> DEFINE e == [frame |-> f, rest |-> FrameBytes]
           r == Append(q, e)
<1>1. e \in Entries /\ e.frame = f /\ e.rest = FrameBytes
      BY FanoutAssumption DEF Entries, FanoutAssumption
<1>2. /\ r \in Seq(Entries) /\ r # <<>> /\ Len(q) \in Nat /\ Len(r) = Len(q) + 1
      /\ \A i \in 1 .. Len(q) : r[i] = q[i]
      /\ r[Len(r)] = e
      BY <1>1
<1> HIDE DEF e, r
<1>3. \A i \in 1 .. Len(r) : i < Len(r) => r[i + 1].frame = After(r[i].frame)
  <2> SUFFICES ASSUME NEW i \in 1 .. Len(r), i < Len(r) PROVE r[i + 1].frame = After(r[i].frame)
      OBVIOUS
  <2>1. CASE i < Len(q)
        BY <1>2, <2>1 DEF Stretch
  <2>2. CASE i = Len(q)
    <3>1. q # <<>>
          BY <1>2, <2>2
    <3> QED BY <1>1, <1>2, <2>2, <3>1 DEF Stretch
  <2> QED BY <1>2, <2>1, <2>2
<1>4. After(r[Len(r)].frame) = After(f)
      BY <1>1, <1>2
<1>5. \A i \in 1 .. Len(r) : i > 1 => r[i].rest = FrameBytes
  <2> SUFFICES ASSUME NEW i \in 1 .. Len(r), i > 1 PROVE r[i].rest = FrameBytes
      OBVIOUS
  <2>1. i \in 1 .. Len(q) \/ i = Len(r)
        BY <1>2
  <2> QED BY <1>1, <1>2, <2>1 DEF Stretch
<1>6. w = Nothing => \A i \in 1 .. Len(r) : r[i].rest = FrameBytes
  <2> SUFFICES ASSUME w = Nothing, NEW i \in 1 .. Len(r) PROVE r[i].rest = FrameBytes
      OBVIOUS
  <2>1. i \in 1 .. Len(q) \/ i = Len(r)
        BY <1>2
  <2> QED BY <1>1, <1>2, <2>1 DEF Stretch
<1>7. w # Nothing => w = r[1]
  <2>1. CASE q = <<>>
        BY <1>2, <2>1 DEF Stretch, e
  <2>2. CASE q # <<>>
    <3>1. 1 \in 1 .. Len(q)
          BY <1>2, <2>2
    <3> QED BY <1>2, <2>2, <3>1 DEF Stretch
  <2> QED BY <2>1, <2>2
<1>8. Stretch(r, After(f), w)
      BY <1>2, <1>3, <1>4, <1>5, <1>6, <1>7 DEF Stretch
<1> QED BY <1>2, <1>8 DEF e, r

(* The socket has taken what was left of the first entry...                 *)
LEMMA StretchShrinks ==
    ASSUME NEW q \in Seq(Entries), q # <<>>, NEW f \in 0 .. Frames - 1,
           NEW w \in Entries \cup {Nothing}, Stretch(q, f, w),
           NEW n \in Nat, n >= Head(q).rest
    PROVE  /\ Tail(q) \in Seq(Entries) /\ Len(Tail(q)) = Len(q) - 1
           /\ Stretch(Tail(q), f, Following(Head(q), n))
<1> DEFINE r == Tail(q)
           v == Following(Head(q), n)
<1>1. /\ r \in Seq(Entries) /\ Len(q) \in Nat \ {0} /\ Len(r) = Len(q) - 1
      /\ \A i \in 1 .. Len(r) : r[i] = q[i + 1]
      /\ Head(q) = q[1] /\ q[1] \in Entries
      OBVIOUS
<1>2. v = [frame |-> After(q[1].frame), rest |-> FrameBytes] /\ v # Nothing
  <2>1. v = [frame |-> After(q[1].frame), rest |-> FrameBytes]
        BY <1>1 DEF Following
  <2> QED BY <1>1, <2>1, FollowingType, EntryIsNotNothing
<1> HIDE DEF r, v
<1>0. r = <<>> <=> Len(q) = 1
      BY <1>1
<1>3. \A i \in 1 .. Len(r) : i < Len(r) => r[i + 1].frame = After(r[i].frame)
  <2> SUFFICES ASSUME NEW i \in 1 .. Len(r), i < Len(r) PROVE r[i + 1].frame = After(r[i].frame)
      OBVIOUS
  <2>1. r[i] = q[i + 1] /\ r[i + 1] = q[(i + 1) + 1]
        BY <1>1
  <2>2. (i + 1) \in 1 .. Len(q) /\ i + 1 < Len(q)
        BY <1>1
  <2> QED BY <2>1, <2>2 DEF Stretch
<1>4. \A i \in 1 .. Len(r) : r[i].rest = FrameBytes
  <2> SUFFICES ASSUME NEW i \in 1 .. Len(r) PROVE r[i].rest = FrameBytes
      OBVIOUS
  <2>1. r[i] = q[i + 1] /\ (i + 1) \in 1 .. Len(q) /\ i + 1 > 1
        BY <1>1
  <2> QED BY <2>1 DEF Stretch
<1>5. r # <<>> => After(r[Len(r)].frame) = f
  <2> SUFFICES ASSUME r # <<>> PROVE After(r[Len(r)].frame) = f
      OBVIOUS
  <2>1. Len(r) \in 1 .. Len(r) /\ r[Len(r)] = q[Len(q)]
        BY <1>1
  <2> QED BY <1>1, <2>1 DEF Stretch
<1>6. v = IF r = <<>> THEN [frame |-> f, rest |-> FrameBytes] ELSE r[1]
  <2>1. CASE r = <<>>
    <3>1. After(q[1].frame) = f
          BY <1>0, <1>1, <2>1 DEF Stretch
    <3> QED BY <1>2, <2>1, <3>1
  <2>2. CASE r # <<>>
    <3>1. 1 \in 1 .. Len(r) /\ 1 \in 1 .. Len(q) /\ 1 < Len(q) /\ r[1] = q[1 + 1]
          BY <1>0, <1>1, <2>2
    <3>2. r[1].frame = After(q[1].frame) /\ r[1].rest = FrameBytes /\ r[1] \in Entries
          BY <1>1, <1>4, <3>1 DEF Stretch
    <3>3. r[1] = [frame |-> r[1].frame, rest |-> r[1].rest]
          BY <3>2 DEF Entries
    <3> QED BY <1>2, <2>2, <3>2, <3>3
  <2> QED BY <2>1, <2>2
<1>7. Stretch(r, f, v)
      BY <1>2, <1>3, <1>4, <1>5, <1>6 DEF Stretch
<1> QED BY <1>1, <1>7 DEF r, v

(* ... or a part of it.                                                     *)
LEMMA StretchIsCut ==
    ASSUME NEW q \in Seq(Entries), q # <<>>, NEW f \in 0 .. Frames - 1,
           NEW w \in Entries \cup {Nothing}, Stretch(q, f, w),
           NEW n \in Nat, ~(n >= Head(q).rest)
    PROVE  LET r == <<Following(Head(q), n)>> \o Tail(q)
           IN  /\ r \in Seq(Entries) /\ Len(r) = Len(q)
               /\ Stretch(r, f, Following(Head(q), n))
<1> DEFINE v == Following(Head(q), n)
           r == <<v>> \o Tail(q)
<1>1. /\ Head(q) = q[1] /\ q[1] \in Entries /\ Len(q) \in Nat \ {0}
      /\ Tail(q) \in Seq(Entries) /\ Len(Tail(q)) = Len(q) - 1
      /\ \A i \in 1 .. Len(Tail(q)) : Tail(q)[i] = q[i + 1]
      OBVIOUS
<1>2. v \in Entries /\ v # Nothing
      BY <1>1, FollowingType, EntryIsNotNothing
<1>3. v.frame = q[1].frame
      BY <1>1 DEF Following, Entries
<1> HIDE DEF v
<1>4. /\ r \in Seq(Entries) /\ Len(r) = Len(q) /\ r[1] = v
      /\ \A i \in 2 .. Len(q) : r[i] = Tail(q)[i - 1]
      BY <1>1, <1>2
<1>5. \A i \in 2 .. Len(q) : r[i] = q[i]
  <2> SUFFICES ASSUME NEW i \in 2 .. Len(q) PROVE r[i] = q[i]
      OBVIOUS
  <2>1. (i - 1) \in 1 .. Len(Tail(q)) /\ (i - 1) + 1 = i
        BY <1>1
  <2>2. Tail(q)[i - 1] = q[(i - 1) + 1]
        BY <1>1, <2>1
  <2> QED BY <1>4, <2>1, <2>2
<1> HIDE DEF r
<1>6. \A i \in 1 .. Len(q) : r[i].frame = q[i].frame
  <2> SUFFICES ASSUME NEW i \in 1 .. Len(q) PROVE r[i].frame = q[i].frame
      OBVIOUS
  <2>1. i = 1 \/ i \in 2 .. Len(q)
        BY <1>1
  <2> QED BY <1>3, <1>4, <1>5, <2>1
<1>7. \A i \in 1 .. Len(r) : i < Len(r) => r[i + 1].frame = After(r[i].frame)
  <2> SUFFICES ASSUME NEW i \in 1 .. Len(q), i < Len(q) PROVE r[i + 1].frame = After(r[i].frame)
      BY <1>4
  <2>1. i + 1 \in 1 .. Len(q)
        BY <1>1
  <2> QED BY <1>6, <2>1 DEF Stretch
<1>8. After(r[Len(r)].frame) = f
  <2>1. Len(q) \in 1 .. Len(q)
        BY <1>1
  <2> QED BY <1>4, <1>6, <2>1 DEF Stretch
<1>9. \A i \in 1 .. Len(r) : i > 1 => r[i].rest = FrameBytes
  <2> SUFFICES ASSUME NEW i \in 1 .. Len(q), i > 1 PROVE r[i].rest = FrameBytes
      BY <1>4
  <2> QED BY <1>1, <1>5 DEF Stretch
<1>10. r # <<>>
      BY <1>1, <1>4
<1>11. Stretch(r, f, v)
      BY <1>2, <1>4, <1>7, <1>8, <1>9, <1>10 DEF Stretch
<1> QED BY <1>4, <1>11 DEF r, v

-----------------------------------------------------------------------------
(* Types *)

LEMMA SocketTypes ==
    ASSUME TypeOK, NEW S, Drop(S)
    PROVE  /\ open' \in [Clients -> BOOLEAN]
           /\ timeout' \in [Clients -> {"now", "timed"}]
           /\ room' \in [Clients -> 0 .. SendBuffer]
           /\ registry' \subseteq Clients
           /\ queue' \in [Clients -> Seq(Entries)]
           /\ \A c \in Clients : Len(queue'[c]) <= QueueSize
           /\ wire' \in [Clients -> Entries \cup {Nothing}]
<1>1. SendBuffer \in 0 .. SendBuffer /\ QueueSize \in Nat
      BY FanoutAssumption DEF FanoutAssumption
<1>2. registry' \subseteq Clients
      BY DEF TypeOK, Drop
<1>3. open' \in [Clients -> BOOLEAN]
      BY Zenon DEF TypeOK, Drop
<1>4. timeout' \in [Clients -> {"now", "timed"}]
      BY DEF TypeOK, Drop
<1>5. room' \in [Clients -> 0 .. SendBuffer]
      BY <1>1 DEF TypeOK, Drop
<1>6. queue' \in [Clients -> Seq(Entries)] /\ \A c \in Clients : Len(queue'[c]) <= QueueSize
  <2>1. queue' = [c \in Clients |-> IF c \in S \cap registry THEN <<>> ELSE queue[c]]
        BY DEF Drop
  <2>2. <<>> \in Seq(Entries) /\ Len(<<>>) <= QueueSize
        BY <1>1
  <2> QED BY <2>1, <2>2 DEF TypeOK
<1>7. wire' \in [Clients -> Entries \cup {Nothing}]
      BY DEF TypeOK, Drop
<1> QED BY <1>2, <1>3, <1>4, <1>5, <1>6, <1>7

LEMMA TypesStart == Init => TypeOK
<1> SUFFICES ASSUME Init PROVE TypeOK
    OBVIOUS
<1>1. SendBuffer \in 0 .. SendBuffer /\ QueueSize \in Nat /\ 0 \in 0 .. Frames - 1
      BY FanoutAssumption DEF FanoutAssumption
<1>2. /\ service \in {"up", "stopping", "stopped"} /\ listening \in BOOLEAN
      /\ handler \in [Clients -> {"none", "count", "add", "arm", "read", "leave", "done"}]
      /\ peer \in [Clients -> {"absent", "here", "gone"}]
      /\ open \in [Clients -> BOOLEAN]
      /\ timeout \in [Clients -> {"now", "timed"}]
      /\ wire \in [Clients -> Entries \cup {Nothing}]
      /\ registry \subseteq Clients /\ todo \subseteq Clients /\ dead \subseteq Clients
      /\ loop \in {"top", "visit", "flush"}
      /\ cur \in Clients \cup {NoClient} /\ sentAny \in BOOLEAN
      BY DEF Init
<1>3. room \in [Clients -> 0 .. SendBuffer] /\ frame \in 0 .. Frames - 1
      BY <1>1 DEF Init
<1>4. queue \in [Clients -> Seq(Entries)] /\ \A c \in Clients : Len(queue[c]) <= QueueSize
  <2>1. <<>> \in Seq(Entries) /\ Len(<<>>) <= QueueSize
        BY <1>1
  <2> QED BY <2>1 DEF Init
<1> QED BY <1>2, <1>3, <1>4 DEF TypeOK

(* What a send does, n being the bytes the socket takes of the first entry. *)
SendOf(n) ==
    /\ queue[cur] # <<>> /\ n <= room[cur] /\ n <= Head(queue[cur]).rest
    /\ queue' = [queue EXCEPT ![cur] = Unsent(queue[cur], n)]
    /\ room' = [room EXCEPT ![cur] = room[cur] - n]
    /\ wire' = [wire EXCEPT ![cur] = Following(Head(queue[cur]), n)]
    /\ IF n < Head(queue[cur]).rest
       THEN loop' = "visit" /\ cur' = NoClient /\ sentAny' = FALSE
       ELSE sentAny' = TRUE /\ UNCHANGED <<loop, cur>>
    /\ UNCHANGED <<service, listening, handler, peer, open, timeout, registry, frame, todo, dead>>

LEMMA SendTakesSome ==
    ASSUME TypeOK, LoopKnows, Send
    PROVE  /\ loop = "flush" /\ cur \in registry /\ cur \in Clients /\ cur \notin todo \cup dead
           /\ \E n \in Nat : SendOf(n)
<1> DEFINE first == Head(queue[cur])
           n == IF room[cur] < first.rest THEN room[cur] ELSE first.rest
<1>1. loop = "flush" /\ queue[cur] # <<>>
      BY DEF Send
<1>2. cur \in registry /\ cur \in Clients /\ cur \notin todo \cup dead
      BY <1>1 DEF LoopKnows, TypeOK
<1>3. queue[cur] \in Seq(Entries) /\ room[cur] \in Nat
      BY <1>2, FanoutAssumption DEF TypeOK, FanoutAssumption
<1>4. first \in Entries
      BY <1>1, <1>3
<1>5. first.rest \in Nat
      BY <1>4, FanoutAssumption DEF Entries, FanoutAssumption
<1>6. n \in Nat /\ n <= room[cur] /\ n <= first.rest
      BY <1>3, <1>5
<1>7. SendOf(n)
      BY <1>1, <1>6 DEF Send, SendOf, stopVars, peerVars
<1> QED BY <1>1, <1>2, <1>6, <1>7

LEMMA UnsentType ==
    ASSUME NEW q \in Seq(Entries), q # <<>>, NEW n \in Nat
    PROVE  Unsent(q, n) \in Seq(Entries) /\ Len(Unsent(q, n)) <= Len(q)
<1>1. Head(q) \in Entries /\ Tail(q) \in Seq(Entries) /\ Len(Tail(q)) = Len(q) - 1
      /\ Len(q) \in Nat
      OBVIOUS
<1>2. Following(Head(q), n) \in Entries
      BY <1>1, FollowingType
<1>3. CASE n >= Head(q).rest
      BY <1>1, <1>3 DEF Unsent
<1>4. CASE ~(n >= Head(q).rest)
  <2> DEFINE v == Following(Head(q), n)
             r == Tail(q)
  <2>1. v \in Entries /\ r \in Seq(Entries) /\ Len(r) = Len(q) - 1 /\ Len(q) \in Nat
        BY <1>1, <1>2
  <2>2. Unsent(q, n) = <<v>> \o r
        BY <1>4 DEF Unsent
  <2> HIDE DEF v, r
  <2> QED BY <2>1, <2>2
<1> QED BY <1>3, <1>4

LEMMA TypesKept == ASSUME TypeOK, LoopKnows, [Next]_vars PROVE TypeOK'
<1> USE DEF TypeOK
<1>1. ASSUME NEW c \in Clients, Connect(c) PROVE TypeOK'
  <2>1. listening' \in BOOLEAN
        BY <1>1, Zenon DEF Connect
  <2>2. /\ open' \in [Clients -> BOOLEAN]
        /\ handler' \in [Clients -> {"none", "count", "add", "arm", "read", "leave", "done"}]
        /\ peer' \in [Clients -> {"absent", "here", "gone"}]
        BY <1>1 DEF Connect
  <2>3. UNCHANGED <<service, timeout, room, registry, queue, wire,
                    loop, frame, todo, cur, sentAny, dead>>
        BY <1>1 DEF Connect, clientVars, loopVars
  <2> QED BY <2>1, <2>2, <2>3
<1>2. ASSUME NEW c \in Clients, HangUp(c) PROVE TypeOK'
      BY <1>2 DEF HangUp, stopVars, sockVars, clientVars, loopVars
<1>3. ASSUME NEW c \in Clients, Read(c) PROVE TypeOK'
  <2>1. room[c] + 1 \in 0 .. SendBuffer
        BY <1>3, FanoutAssumption DEF Read, FanoutAssumption
  <2>2. room' \in [Clients -> 0 .. SendBuffer]
        BY <1>3, <2>1 DEF Read
  <2> QED BY <1>3, <2>2 DEF Read, stopVars, peerVars, clientVars, loopVars
<1>4. ASSUME NEW c \in Clients, Count(c) PROVE TypeOK'
  <2>1. open' \in [Clients -> BOOLEAN]
    <3>1. CASE Cardinality(registry) < MaxClients
      <4>1. open' = [open EXCEPT ![c] = TRUE]
            BY <1>4, <3>1 DEF Count
      <4> QED BY <4>1
    <3>2. CASE ~(Cardinality(registry) < MaxClients)
      <4>1. open' = [open EXCEPT ![c] = FALSE]
        <5>1. Cardinality(registry) \in Nat /\ MaxClients \in Nat
              BY FanoutAssumption, FS_Subset, FS_CardinalityType DEF FanoutAssumption
        <5>2. (Cardinality(registry) < MaxClients) = FALSE
              BY <3>2, <5>1, SMT
        <5> QED BY <1>4, <5>2, Zenon DEF Count
      <4> QED BY <4>1
    <3> QED BY <3>1, <3>2
  <2>2. handler' \in [Clients -> {"none", "count", "add", "arm", "read", "leave", "done"}]
        BY <1>4 DEF Count, AfterCount
  <2> QED BY <1>4, <2>1, <2>2 DEF Count, stopVars, clientVars, loopVars
<1>5. ASSUME NEW c \in Clients, Add(c) PROVE TypeOK'
      BY <1>5 DEF Add, stopVars, loopVars
<1>6. ASSUME NEW c \in Clients, Arm(c) PROVE TypeOK'
  <2>1. /\ handler' \in [Clients -> {"none", "count", "add", "arm", "read", "leave", "done"}]
        /\ timeout' \in [Clients -> {"now", "timed"}]
        BY <1>6, Zenon DEF Arm
  <2> QED BY <1>6, <2>1 DEF Arm, stopVars, clientVars, loopVars
<1>7. ASSUME NEW c \in Clients, Leave(c) PROVE TypeOK'
      BY <1>7 DEF Leave, stopVars, sockVars, clientVars, loopVars
<1>8. ASSUME NEW c \in Clients, Remove(c) PROVE TypeOK'
  <2>1. Drop({c})
        BY <1>8 DEF Remove
  <2>2. /\ handler' \in [Clients -> {"none", "count", "add", "arm", "read", "leave", "done"}]
        /\ peer' \in [Clients -> {"absent", "here", "gone"}]
        BY <1>8 DEF Remove
  <2> HIDE DEF TypeOK
  <2> QED BY <1>8, <2>1, <2>2, SocketTypes DEF TypeOK, Remove, stopVars, loopVars
<1>9. CASE GetFrame
  <2>1. frame' \in 0 .. Frames - 1
        BY <1>9, AfterType DEF GetFrame
  <2> QED BY <1>9, <2>1 DEF GetFrame, stopVars, peerVars, sockVars, clientVars
<1>10. ASSUME NEW c \in Clients, Skip(c) PROVE TypeOK'
      BY <1>10 DEF Skip, stopVars, peerVars, sockVars, clientVars
<1>11. ASSUME NEW c \in Clients, Visit(c) PROVE TypeOK'
  <2>1. NewEntry \in Entries
        BY FanoutAssumption DEF NewEntry, Entries, FanoutAssumption
  <2>2. Len(queue[c]) < QueueSize /\ Enqueued(queue[c]) = Append(queue[c], NewEntry)
        BY <1>11, FanoutAssumption DEF Visit, QueueFull, Enqueued, FanoutAssumption
  <2>3. Enqueued(queue[c]) \in Seq(Entries) /\ Len(Enqueued(queue[c])) <= QueueSize
        BY <2>1, <2>2, FanoutAssumption DEF FanoutAssumption
  <2>4. queue' \in [Clients -> Seq(Entries)] /\ \A d \in Clients : Len(queue'[d]) <= QueueSize
        BY <1>11, <2>3 DEF Visit
  <2> QED BY <1>11, <2>4 DEF Visit, stopVars, peerVars, sockVars
<1>12. CASE Send
  <2>1. cur \in Clients /\ \E n \in Nat : SendOf(n)
        BY <1>12, SendTakesSome
  <2>2. PICK n \in Nat : SendOf(n)
        BY <2>1
  <2>3. queue[cur] \in Seq(Entries) /\ Len(queue[cur]) <= QueueSize /\ room[cur] \in 0 .. SendBuffer
        BY <2>1
  <2>4. Unsent(queue[cur], n) \in Seq(Entries) /\ Len(Unsent(queue[cur], n)) <= Len(queue[cur])
        BY <2>2, <2>3, UnsentType DEF SendOf
  <2>5. Len(Unsent(queue[cur], n)) <= QueueSize
        BY <2>3, <2>4, FanoutAssumption DEF FanoutAssumption
  <2>6. queue' \in [Clients -> Seq(Entries)] /\ \A d \in Clients : Len(queue'[d]) <= QueueSize
        BY <2>2, <2>4, <2>5 DEF SendOf
  <2>7. room[cur] - n \in 0 .. SendBuffer
        BY <2>2, <2>3, FanoutAssumption DEF SendOf, FanoutAssumption
  <2>8. room' \in [Clients -> 0 .. SendBuffer]
        BY <2>2, <2>7 DEF SendOf
  <2>9. Following(Head(queue[cur]), n) \in Entries
        BY <2>2, <2>3, FollowingType DEF SendOf
  <2>10. wire' \in [Clients -> Entries \cup {Nothing}]
        BY <2>2, <2>9 DEF SendOf
  <2>11. loop' \in {"top", "visit", "flush"} /\ cur' \in Clients \cup {NoClient} /\ sentAny' \in BOOLEAN
        BY <2>2 DEF SendOf
  <2>12. UNCHANGED <<service, listening, handler, peer, open, timeout, registry, frame, todo, dead>>
        BY <2>2 DEF SendOf
  <2> QED BY <2>6, <2>8, <2>10, <2>11, <2>12
<1>13. ASSUME NEW drops \in BOOLEAN, loop = "flush", Release(drops) PROVE TypeOK'
  <2>1. dead' \subseteq Clients
        BY <1>13 DEF Release, LoopKnows
  <2> QED BY <1>13, <2>1 DEF Release, stopVars, peerVars, sockVars, clientVars
<1>14. CASE Flushed
  <2>0. loop = "flush"
        BY <1>14 DEF Flushed
  <2>1. PICK tooLong \in BOOLEAN : Release(tooLong /\ ~sentAny)
        BY <1>14 DEF Flushed, Overdue
  <2>2. (tooLong /\ ~sentAny) \in BOOLEAN
        BY Zenon
  <2> HIDE DEF TypeOK
  <2> QED BY <1>13, <2>0, <2>1, <2>2, Zenon
<1>15. CASE SendFails \/ SendTimesOut
  <2>1. loop = "flush" /\ Release(TRUE)
        BY <1>15 DEF SendFails, SendTimesOut, Waiting
  <2> HIDE DEF TypeOK
  <2> QED BY <1>13, <2>1
<1>16. CASE Sweep
  <2>1. Drop(dead)
        BY <1>16 DEF Sweep
  <2> HIDE DEF TypeOK
  <2> QED BY <1>16, <2>1, SocketTypes DEF TypeOK, Sweep, stopVars, peerVars
<1>17. CASE StopService
       BY <1>17 DEF StopService, peerVars, sockVars, clientVars, loopVars
<1>18. CASE StopServer
  <2>1. Drop(registry)
        BY <1>18 DEF StopServer
  <2> HIDE DEF TypeOK
  <2> QED BY <1>18, <2>1, SocketTypes DEF TypeOK, StopServer, peerVars, loopVars
<1>20. CASE UNCHANGED vars
       BY <1>20 DEF vars, stopVars, peerVars, sockVars, clientVars, loopVars
<1> HIDE DEF TypeOK
<1> QED BY <1>1, <1>2, <1>3, <1>4, <1>5, <1>6, <1>7, <1>8, <1>9, <1>10, <1>11, <1>12,
           <1>14, <1>15, <1>16, <1>17, <1>18, <1>20
        DEF Next, Listener, Handler, Broadcast

-----------------------------------------------------------------------------
(* The handlers and the main loop *)

(* What dropping the clients of S does to each client.                      *)
LEMMA Dropped ==
    ASSUME TypeOK, NEW S, Drop(S), NEW c \in Clients
    PROVE  /\ c \in registry' <=> c \in registry /\ c \notin S
           /\ c \in registry /\ c \in S => ~open'[c] /\ queue'[c] = <<>> /\ wire'[c] = Nothing
           /\ c \notin registry \/ c \notin S =>
                 queue'[c] = queue[c] /\ wire'[c] = wire[c] /\ (open'[c] <=> open[c])
BY DEF TypeOK, Drop

LEMMA HandlersKept ==
    ASSUME TypeOK, HandlersKnow, LoopKnows, [Next]_vars
    PROVE  HandlersKnow'
<1> SUFFICES ASSUME NEW d \in Clients
             PROVE  /\ handler'[d] \in {"none", "count", "add", "done"} => d \notin registry'
                    /\ handler'[d] \in {"count", "add"} => open'[d]
                    /\ handler'[d] \in {"arm", "read", "leave"} => (open'[d] <=> d \in registry')
                    /\ handler'[d] = "done" => ~open'[d]
    BY DEF HandlersKnow
<1> DEFINE Known == /\ handler[d] \in {"none", "count", "add", "done"} => d \notin registry
                    /\ handler[d] \in {"count", "add"} => open[d]
                    /\ handler[d] \in {"arm", "read", "leave"} => (open[d] <=> d \in registry)
                    /\ handler[d] = "done" => ~open[d]
<1>0. /\ Known
      /\ handler[d] \in {"none", "count", "add", "arm", "read", "leave", "done"}
      /\ handler \in [Clients -> {"none", "count", "add", "arm", "read", "leave", "done"}]
      /\ open \in [Clients -> BOOLEAN]
      BY DEF HandlersKnow, TypeOK
<1>1. ASSUME NEW c \in Clients, Connect(c) PROVE Known'
      BY <1>0, <1>1 DEF Connect, clientVars
<1>2. ASSUME NEW c \in Clients, Count(c) PROVE Known'
  <2>1. registry' = registry
        BY <1>2 DEF Count, clientVars
  <2>2. CASE d # c
        BY <1>0, <1>2, <2>1, <2>2 DEF Count
  <2>3. CASE d = c
    <3>1. d \notin registry' /\ open'[d] = (Cardinality(registry) < MaxClients)
          /\ handler'[d] = AfterCount
          BY <1>0, <1>2, <2>1, <2>3 DEF Count
    <3>2. Cardinality(registry) \in Nat /\ MaxClients \in Nat
          BY FanoutAssumption, FS_Subset, FS_CardinalityType DEF FanoutAssumption, TypeOK
    <3>3. \/ handler'[d] = "add" /\ open'[d]
          \/ handler'[d] = "done" /\ ~open'[d]
      <4> DEFINE less == Cardinality(registry) < MaxClients
      <4>1. CASE less
        <5>1. handler'[d] = "add"
              BY <3>1, <3>2, <4>1 DEF AfterCount
        <5>2. open'[d] = less
              BY <3>1
        <5> HIDE DEF less
        <5> QED BY <4>1, <5>1, <5>2, Zenon
      <4>2. CASE ~less
        <5>1. handler'[d] = "done"
              BY <3>1, <3>2, <4>2 DEF AfterCount
        <5>2. open'[d] = less
              BY <3>1
        <5> HIDE DEF less
        <5> QED BY <4>2, <5>1, <5>2, Zenon
      <4> QED BY <4>1, <4>2
    <3> QED BY <3>1, <3>3
  <2> QED BY <2>2, <2>3
<1>3. ASSUME NEW c \in Clients, Add(c) PROVE Known'
      BY <1>0, <1>3 DEF Add
<1>4. ASSUME NEW c \in Clients, Arm(c) PROVE Known'
      BY <1>0, <1>4 DEF Arm, clientVars
<1>5. ASSUME NEW c \in Clients, Leave(c) PROVE Known'
      BY <1>0, <1>5 DEF Leave, sockVars, clientVars
<1>6. ASSUME NEW c \in Clients, Remove(c) PROVE Known'
  <2>1. Drop({c}) /\ handler[c] = "leave" /\ handler' = [handler EXCEPT ![c] = "done"]
        BY <1>6 DEF Remove
  <2>2. /\ d \in registry' <=> d \in registry /\ d \notin {c}
        /\ d \in registry /\ d \in {c} => ~open'[d]
        /\ d \notin registry \/ d \notin {c} => (open'[d] <=> open[d])
        BY <2>1, Dropped
  <2>3. CASE d # c
        BY <1>0, <2>1, <2>2, <2>3
  <2>4. CASE d = c
        BY <1>0, <2>1, <2>2, <2>4
  <2> QED BY <2>3, <2>4
<1>7. ASSUME NEW S \in SUBSET registry, Drop(S), handler' = handler PROVE Known'
      BY <1>0, <1>7, Dropped
<1>8. CASE Sweep
  <2>1. Drop(dead \cap registry)
        BY <1>8 DEF Sweep, Drop
  <2> QED BY <1>7, <1>8, <2>1 DEF Sweep, peerVars
<1>9. CASE StopServer
      BY <1>7, <1>9 DEF StopServer, peerVars
<1>10. CASE UNCHANGED <<handler, open, registry>>
       BY <1>0, <1>10
<1>11. CASE Send
  <2>1. \E n \in Nat : SendOf(n)
        BY <1>11, SendTakesSome
  <2> QED BY <1>10, <2>1 DEF SendOf
<1>12. CASE Flushed \/ SendFails \/ SendTimesOut
  <2>1. UNCHANGED <<peerVars, sockVars, clientVars>>
        BY <1>12 DEF Flushed, Overdue, SendFails, SendTimesOut, Release
  <2> QED BY <1>10, <2>1 DEF peerVars, sockVars, clientVars
<1>13. ASSUME NEW c \in Clients, HangUp(c) \/ Read(c) PROVE Known'
       BY <1>10, <1>13 DEF HangUp, Read, sockVars, peerVars, clientVars
<1>14. ASSUME NEW c \in Clients, Skip(c) \/ Visit(c) PROVE Known'
       BY <1>10, <1>14 DEF Skip, Visit, sockVars, peerVars, clientVars
<1>15. CASE GetFrame \/ StopService
       BY <1>10, <1>15 DEF GetFrame, StopService, sockVars, peerVars, clientVars
<1>16. CASE UNCHANGED vars
       BY <1>10, <1>16 DEF vars, sockVars, peerVars, clientVars
<1> QED BY <1>1, <1>2, <1>3, <1>4, <1>5, <1>6, <1>8, <1>9, <1>11, <1>12, <1>13, <1>14,
           <1>15, <1>16
        DEF Next, Listener, Handler, Broadcast

LEMMA LoopKept ==
    ASSUME TypeOK, HandlersKnow, LoopKnows, [Next]_vars
    PROVE  LoopKnows'
<1> USE DEF LoopKnows
<1>1. CASE UNCHANGED <<loop, todo, cur, sentAny, dead, queue, registry>>
      BY <1>1
<1>2. ASSUME NEW c \in Clients, Add(c) PROVE LoopKnows'
      BY <1>2 DEF Add, LockFree, loopVars
<1>3. ASSUME NEW c \in Clients, Remove(c) PROVE LoopKnows'
  <2>1. Drop({c}) /\ UNCHANGED <<loop, todo, cur, sentAny, dead>>
        BY <1>3 DEF Remove, loopVars
  <2>2. CASE loop # "flush"
        BY <2>1, <2>2
  <2>3. CASE loop = "flush"
    <3>1. c \notin registry /\ cur \in registry /\ cur \in Clients
          BY <1>3, <2>3 DEF Remove, LockFree, TypeOK
    <3>2. cur \in registry' /\ queue'[cur] = queue[cur]
          BY <2>1, <3>1, Dropped
    <3> QED BY <2>1, <2>3, <3>2
  <2> QED BY <2>2, <2>3
<1>4. CASE GetFrame
      BY <1>4 DEF GetFrame, clientVars
<1>5. ASSUME NEW c \in Clients, Skip(c) PROVE LoopKnows'
      BY <1>5 DEF Skip, clientVars
<1>6. ASSUME NEW c \in Clients, Visit(c) PROVE LoopKnows'
  <2>1. queue'[c] = Append(queue[c], NewEntry) /\ queue[c] \in Seq(Entries)
        BY <1>6, FanoutAssumption
        DEF Visit, Enqueued, QueueFull, TypeOK, FanoutAssumption
  <2>2. NewEntry \in Entries
        BY FanoutAssumption DEF NewEntry, Entries, TypeOK, FanoutAssumption
  <2>3. queue'[c] # <<>>
    <3> DEFINE q == queue[c]
               e == NewEntry
    <3>1. q \in Seq(Entries) /\ e \in Entries /\ queue'[c] = Append(q, e)
          BY <2>1, <2>2
    <3> HIDE DEF q, e
    <3> QED BY <3>1
  <2> QED BY <1>6, <2>3 DEF Visit
<1>7. CASE Send
  <2>1. loop = "flush" /\ cur \in registry /\ cur \notin todo \cup dead /\ \E n \in Nat : SendOf(n)
        BY <1>7, SendTakesSome
  <2>2. PICK n \in Nat : SendOf(n)
        BY <2>1
  <2>3. UNCHANGED <<registry, todo, dead>>
        BY <2>2 DEF SendOf
  <2>4. \/ loop' = "visit"
        \/ loop' = "flush" /\ sentAny' /\ cur' = cur
        BY <2>1, <2>2 DEF SendOf
  <2> QED BY <2>1, <2>3, <2>4
<1>8. CASE Flushed \/ SendFails \/ SendTimesOut
  <2>1. loop = "flush" /\ loop' = "visit" /\ UNCHANGED <<registry, todo>> /\ dead' \subseteq dead \cup {cur}
        BY <1>8 DEF Flushed, Overdue, SendFails, SendTimesOut, Waiting, Release, clientVars
  <2> QED BY <2>1
<1>9. CASE Sweep
      BY <1>9 DEF Sweep
<1>10. CASE StopServer
       BY <1>10 DEF StopServer, LockFree, loopVars
<1>11. ASSUME NEW c \in Clients,
              Listener(c) \/ Count(c) \/ Arm(c) \/ Leave(c)
       PROVE  LoopKnows'
       BY <1>1, <1>11 DEF Listener, Connect, HangUp, Read, Count, Arm, Leave, loopVars, clientVars
<1>12. CASE StopService \/ UNCHANGED vars
       BY <1>1, <1>12 DEF StopService, vars, loopVars, clientVars
<1> HIDE DEF LoopKnows
<1> QED BY <1>2, <1>3, <1>4, <1>5, <1>6, <1>7, <1>8, <1>9, <1>10, <1>11, <1>12
        DEF Next, Handler, Broadcast

-----------------------------------------------------------------------------
(* The stream *)

LEMMA OrderKept ==
    ASSUME TypeOK, TypeOK', HandlersKnow, LoopKnows, InOrder, [Next]_vars
    PROVE  InOrder'
<1> SUFFICES ASSUME NEW d \in Clients
             PROVE  /\ d \notin registry' => queue'[d] = <<>> /\ wire'[d] = Nothing
                    /\ d \in registry' \ dead' => Stretch(queue'[d], Due(d)', wire'[d])
    BY DEF InOrder
<1> DEFINE Ordered == /\ d \notin registry => queue[d] = <<>> /\ wire[d] = Nothing
                      /\ d \in registry \ dead => Stretch(queue[d], Due(d), wire[d])
<1>0. /\ Ordered
      /\ queue[d] \in Seq(Entries) /\ wire[d] \in Entries \cup {Nothing}
      /\ frame \in 0 .. Frames - 1 /\ After(frame) \in 0 .. Frames - 1
      /\ Due(d) \in 0 .. Frames - 1
      BY AfterType DEF InOrder, TypeOK, Due
<1>1. CASE UNCHANGED <<registry, queue, wire, dead, todo, frame>>
  <2>1. Due(d)' = Due(d)
        BY <1>1 DEF Due
  <2> QED BY <1>0, <1>1, <2>1
<1>2. ASSUME NEW c \in Clients, Add(c) PROVE Ordered'
  <2>1. /\ registry' = registry \cup {c} /\ c \notin registry
        /\ UNCHANGED <<queue, wire, dead, todo, frame>>
        BY <1>2 DEF Add, loopVars, HandlersKnow
  <2>2. Due(d)' = Due(d)
        BY <2>1 DEF Due
  <2> QED BY <1>0, <2>1, <2>2, EmptyStretch
<1>3. ASSUME NEW S, Drop(S), UNCHANGED <<todo, frame>>, dead \subseteq dead' \cup S
      PROVE  Ordered'
  <2>1. Due(d)' = Due(d)
        BY <1>3 DEF Due
  <2>2. /\ d \in registry' <=> d \in registry /\ d \notin S
        /\ d \in registry /\ d \in S => queue'[d] = <<>> /\ wire'[d] = Nothing
        /\ d \notin registry \/ d \notin S => queue'[d] = queue[d] /\ wire'[d] = wire[d]
        BY <1>3, Dropped
  <2>3. CASE d \in registry'
        BY <1>0, <1>3, <2>1, <2>2, <2>3
  <2>4. CASE d \notin registry'
        BY <1>0, <2>2, <2>4
  <2> QED BY <2>3, <2>4
<1>4. ASSUME NEW c \in Clients, Remove(c) PROVE Ordered'
      BY <1>3, <1>4 DEF Remove, loopVars
<1>5. CASE Sweep
      BY <1>3, <1>5 DEF Sweep
<1>6. CASE StopServer
      BY <1>3, <1>6 DEF StopServer, loopVars
<1>7. CASE GetFrame
  <2>1. /\ UNCHANGED <<registry, queue, wire, dead>>
        /\ todo = {} /\ dead = {} /\ frame' = After(frame) /\ todo' = registry
        BY <1>7 DEF GetFrame, clientVars, LoopKnows
  <2>2. d \in registry => Due(d)' = Due(d)
        BY <2>1 DEF Due
  <2> QED BY <1>0, <2>1, <2>2
<1>8. ASSUME NEW c \in Clients, Skip(c) PROVE Ordered'
  <2>1. /\ UNCHANGED <<registry, queue, wire, frame>>
        /\ todo' = todo \ {c} /\ dead' = dead \cup ({c} \cap registry)
        BY <1>8 DEF Skip, clientVars
  <2>2. d # c => Due(d)' = Due(d)
        BY <2>1 DEF Due
  <2> QED BY <1>0, <2>1, <2>2
<1>9. ASSUME NEW c \in Clients, Visit(c) PROVE Ordered'
  <2>0. Enqueued(queue[c]) = Append(queue[c], NewEntry)
        BY <1>9, FanoutAssumption
        DEF Visit, Enqueued, QueueFull, TypeOK, FanoutAssumption
  <2>1. /\ UNCHANGED <<registry, wire, frame, dead>>
        /\ todo' = todo \ {c} /\ queue' = [queue EXCEPT ![c] = Append(queue[c], NewEntry)]
        /\ c \in todo /\ c \in registry
        BY <1>9, <2>0 DEF Visit
  <2>2. CASE d # c
    <3>1. Due(d)' = Due(d) /\ queue'[d] = queue[d]
          BY <2>1, <2>2 DEF Due, TypeOK
    <3> QED BY <1>0, <2>1, <3>1
  <2>3. CASE d = c
    <3>1. Due(d) = frame /\ Due(d)' = After(frame) /\ queue'[d] = Append(queue[d], NewEntry)
          BY <2>1, <2>3 DEF Due, TypeOK
    <3>2. d \notin dead => Stretch(Append(queue[d], NewEntry), After(frame), wire[d])
          BY <1>0, <2>1, <2>3, <3>1, StretchGrows DEF NewEntry
    <3> QED BY <2>1, <2>3, <3>1, <3>2
  <2> QED BY <2>2, <2>3
<1>10. CASE Send
  <2>1. cur \in registry /\ cur \notin todo \cup dead /\ \E n \in Nat : SendOf(n)
        BY <1>10, SendTakesSome
  <2>2. PICK n \in Nat : SendOf(n)
        BY <2>1
  <2>3. Due(d)' = Due(d) /\ UNCHANGED <<registry, dead>>
        BY <2>2 DEF SendOf, Due
  <2>4. CASE d # cur
    <3>1. queue'[d] = queue[d] /\ wire'[d] = wire[d]
          BY <2>2, <2>4 DEF SendOf, TypeOK
    <3> QED BY <1>0, <2>3, <3>1
  <2>5. CASE d = cur
    <3> DEFINE q == queue[d]
               v == Following(Head(q), n)
    <3>1. queue'[d] = Unsent(q, n) /\ wire'[d] = v /\ q # <<>>
          BY <2>2, <2>5 DEF SendOf, TypeOK
    <3>2. Stretch(q, Due(d), wire[d])
          BY <1>0, <2>1, <2>5
    <3>3. Stretch(Unsent(q, n), Due(d), v)
      <4>1. CASE n >= Head(q).rest
            BY <1>0, <3>1, <3>2, <4>1, StretchShrinks DEF Unsent
      <4>2. CASE ~(n >= Head(q).rest)
            BY <1>0, <3>1, <3>2, <4>2, StretchIsCut DEF Unsent
      <4> QED BY <4>1, <4>2
    <3> QED BY <2>1, <2>3, <2>5, <3>1, <3>3
  <2> QED BY <2>4, <2>5
<1>11. CASE Flushed \/ SendFails \/ SendTimesOut
  <2>1. UNCHANGED <<registry, queue, wire, todo, frame>> /\ dead \subseteq dead'
        BY <1>11 DEF Flushed, Overdue, SendFails, SendTimesOut, Release, clientVars
  <2>2. Due(d)' = Due(d)
        BY <2>1 DEF Due
  <2> QED BY <1>0, <2>1, <2>2
<1>12. ASSUME NEW c \in Clients,
              Listener(c) \/ Count(c) \/ Arm(c) \/ Leave(c)
       PROVE  Ordered'
       BY <1>1, <1>12 DEF Listener, Connect, HangUp, Read, Count, Arm, Leave, loopVars, clientVars
<1>13. CASE StopService \/ UNCHANGED vars
       BY <1>1, <1>13 DEF StopService, vars, loopVars, clientVars
<1> QED BY <1>2, <1>4, <1>5, <1>6, <1>7, <1>8, <1>9, <1>10, <1>11, <1>12, <1>13
        DEF Next, Handler, Broadcast

-----------------------------------------------------------------------------
(* The theorems *)

(* The inductive invariant. *)
THEOREM Invariance == Spec => []IInv
<1>1. Init => IInv
  <2> SUFFICES ASSUME Init PROVE IInv
      OBVIOUS
  <2>1. HandlersKnow /\ LoopKnows
        BY DEF Init, HandlersKnow, LoopKnows
  <2>2. InOrder
        BY DEF Init, InOrder
  <2> QED BY <2>1, <2>2, TypesStart DEF IInv
<1>2. IInv /\ [Next]_vars => IInv'
      BY TypesKept, HandlersKept, LoopKept, OrderKept DEF IInv
<1> QED BY <1>1, <1>2, PTL DEF Spec

(* Every variable keeps its type.                                           *)
THEOREM TypeCorrect == Spec => []TypeOK
<1>1. IInv => TypeOK
      BY DEF IInv
<1> QED BY <1>1, Invariance, PTL

(* Whoever drops a client first, its handler, the main loop or stop(), what *)
(* is registered is open and has a handler that will take it out again, and *)
(* no handler that has ended leaves its connection open.                    *)
THEOREM RegistryTrue == Spec => []RegistryIsTrue
<1>1. IInv => RegistryIsTrue
      BY DEF IInv, TypeOK, HandlersKnow, LoopKnows, RegistryIsTrue
<1> QED BY <1>1, Invariance, PTL

(* A listener is sent the stream without gap, repetition or torn frame: what *)
(* send() is given is what the listener's socket should take next, or, the   *)
(* first time, the beginning of a frame.                                     *)
THEOREM StreamGoesOn == Spec => StreamUnbroken
<1> DEFINE Next1(c) == IF wire[c] = Nothing THEN Head(queue[c]).rest = FrameBytes
                                            ELSE Head(queue[c]) = wire[c]
<1>1. IInv /\ [Next]_vars => \A c \in Clients : wire'[c] \notin {wire[c], Nothing} => Next1(c)
  <2> SUFFICES ASSUME IInv, [Next]_vars, NEW c \in Clients, wire'[c] \notin {wire[c], Nothing}
               PROVE  Next1(c)
      OBVIOUS
  <2>1. Send
    <3>1. wire' # wire
          OBVIOUS
    <3>2. ASSUME NEW S, Drop(S) PROVE FALSE
          BY <3>2, Dropped DEF IInv
    <3> QED BY <3>1, <3>2
            DEF Next, Listener, Handler, Broadcast, Connect, HangUp, Read, Count, Add, Arm, Leave,
                Remove, GetFrame, Skip, Visit, Flushed, Overdue, SendFails, SendTimesOut, Release,
                Sweep, StopService, StopServer, vars, clientVars
  <2>2. cur \in registry /\ cur \notin todo \cup dead /\ \E n \in Nat : SendOf(n)
        BY <2>1, SendTakesSome DEF IInv
  <2>3. PICK n \in Nat : SendOf(n)
        BY <2>2
  <2>4. c = cur
        BY <2>3 DEF SendOf, IInv, TypeOK
  <2>5. Stretch(queue[c], Due(c), wire[c]) /\ queue[c] # <<>>
        BY <2>2, <2>3, <2>4 DEF IInv, InOrder, SendOf
  <2>6. queue[c] \in Seq(Entries)
        BY DEF IInv, TypeOK
  <2>7. Head(queue[c]) = queue[c][1] /\ 1 \in 1 .. Len(queue[c])
        BY <2>5, <2>6
  <2> QED BY <2>5, <2>7 DEF Stretch
<1>2. IInv /\ [Next]_vars =>
        [\A c \in Clients : wire'[c] \notin {wire[c], Nothing} => Next1(c)]_vars
      BY <1>1
<1> QED BY <1>2, Invariance, PTL DEF Spec, StreamUnbroken

(* Nobody is given up for what another listener does: only who hung up, or  *)
(* whose own socket or queue is full.                                       *)
THEOREM OnlySlow == Spec => OnlySlowAreDropped
<1>1. IInv /\ [Next]_vars => \A c \in dead' \ dead :
                                 peer[c] = "gone" \/ room[c] = 0 \/ Len(queue[c]) = QueueSize
  <2> SUFFICES ASSUME IInv, [Next]_vars, NEW c \in dead' \ dead
               PROVE  peer[c] = "gone" \/ room[c] = 0 \/ Len(queue[c]) = QueueSize
      OBVIOUS
  <2>1. ASSUME NEW d \in Clients, Skip(d) PROVE Len(queue[c]) = QueueSize
    <3>1. c = d /\ QueueFull(d)
          BY <2>1 DEF Skip
    <3>2. Len(queue[d]) <= QueueSize /\ Len(queue[d]) \in Nat /\ QueueSize \in Nat
          BY FanoutAssumption DEF IInv, TypeOK, FanoutAssumption
    <3> QED BY <3>1, <3>2 DEF QueueFull
  <2>2. CASE Flushed
    <3>1. PICK tooLong \in BOOLEAN : Release(tooLong /\ ~sentAny)
          BY <2>2 DEF Flushed, Overdue
    <3>2. c = cur /\ ~sentAny
          BY <3>1, Zenon DEF Release
    <3> QED BY <2>2, <3>2 DEF Flushed, IInv, LoopKnows
  <2>3. CASE SendFails
        BY <2>3 DEF SendFails, Release
  <2>4. CASE SendTimesOut
        BY <2>4 DEF SendTimesOut, Waiting, Release
  <2>5. CASE UNCHANGED dead \/ Sweep
        BY <2>5 DEF Sweep
  <2> QED BY <2>1, <2>2, <2>3, <2>4, <2>5
          DEF Next, Listener, Handler, Broadcast, Connect, HangUp, Read, Count, Add, Arm, Leave,
              Remove, GetFrame, Visit, Send, StopService, StopServer, vars, loopVars
<1>2. IInv /\ [Next]_vars =>
        [\A c \in dead' \ dead :
             peer[c] = "gone" \/ room[c] = 0 \/ Len(queue[c]) = QueueSize]_vars
      BY <1>1
<1> QED BY <1>2, Invariance, PTL DEF Spec, OnlySlowAreDropped
=============================================================================
