--------------------------- MODULE PcmLinkProofs ----------------------------
(***************************************************************************)
(* That the reader cuts the byte stream where the writer did, and that the *)
(* link carries frames as FrameLink says, for any frame size, socket,      *)
(* queue and ring, any number of connections and every fault.              *)
(*                                                                         *)
(* Aligned says of the bytes from the accumulator to the socket that they  *)
(* begin with a frame, and that whoever finds a byte at place i finds the  *)
(* i - 1 before it in front of it.  It speaks of places and not of frames  *)
(* counted from the beginning, so that it needs no induction.  How many    *)
(* frames there are follows from the count of bytes: EndsAt keeps its      *)
(* remainder.                                                              *)
(*                                                                         *)
(* Order: counts; bytes and frames; what send(), recv() and a cut do to an *)
(* aligned stream; types; the invariant, conjunct by conjunct, and whole   *)
(* frames; the order of frames, and the steps of FrameLink; that nothing   *)
(* comes twice.                                                            *)
(***************************************************************************)
EXTENDS PcmLink, SequenceTheorems, TLAPS

-----------------------------------------------------------------------------
(* Counts *)

(* Counting frames of b bytes in n bytes.                                   *)
LEMMA Quotient ==
    ASSUME NEW b \in Nat \ {0}, NEW n \in Nat
    PROVE  /\ n \div b \in Nat /\ n % b \in 0..b-1
           /\ n = b * (n \div b) + (n % b)
  OBVIOUS

LEMMA QuotientIs ==
    ASSUME NEW b \in Nat \ {0}, NEW n \in Nat, NEW q \in Nat, NEW r \in 0..b-1, n = b * q + r
    PROVE  n \div b = q /\ n % b = r
  OBVIOUS

(* m bytes more that do not go past the end of a frame.                     *)
LEMMA MoreBytes ==
    ASSUME NEW b \in Nat \ {0}, NEW n \in Nat, NEW m \in 1..b-(n % b)
    PROVE  /\ (n % b) + m < b => (n + m) % b = (n % b) + m /\ (n + m) \div b = n \div b
           /\ (n % b) + m = b => /\ (n + m) % b = 0 /\ (n + m) \div b = (n \div b) + 1
                                 /\ ((n \div b) + 1) * b = n + m
  <1> DEFINE q == n \div b
             r == n % b
  <1>1. q \in Nat /\ r \in 0..b-1 /\ n = b * q + r
    BY Quotient
  <1> HIDE DEF q, r
  <1>2. ASSUME r + m < b PROVE (n + m) % b = r + m /\ (n + m) \div b = q
    <2>1. n + m = b * q + (r + m) /\ r + m \in 0..b-1 /\ n + m \in Nat
      BY <1>1, <1>2 DEF r
    <2> QED BY <1>1, <2>1, QuotientIs
  <1>3. ASSUME r + m = b PROVE (n + m) % b = 0 /\ (n + m) \div b = q + 1 /\ (q + 1) * b = n + m
    <2>1. /\ n + m = b * (q + 1) + 0 /\ (q + 1) * b = n + m
          /\ 0 \in 0..b-1 /\ n + m \in Nat /\ q + 1 \in Nat
      BY <1>1, <1>3 DEF r
    <2> QED BY <1>1, <2>1, QuotientIs
  <1> QED BY <1>2, <1>3 DEF q, r

(* A frame less.                                                            *)
LEMMA LessBytes ==
    ASSUME NEW b \in Nat \ {0}, NEW n \in Nat, n >= b
    PROVE  (n - b) % b = n % b /\ (n - b) \div b = (n \div b) - 1 /\ n \div b >= 1
  <1> DEFINE q == n \div b
             r == n % b
  <1>1. q \in Nat /\ r \in 0..b-1 /\ n = b * q + r
    BY Quotient
  <1> HIDE DEF q, r
  <1>2. q >= 1
    BY <1>1
  <1>3. n - b = b * (q - 1) + r /\ n - b \in Nat /\ q - 1 \in Nat
    BY <1>1, <1>2
  <1>4. (n - b) \div b = q - 1 /\ (n - b) % b = r
    BY <1>1, <1>3, QuotientIs
  <1> QED BY <1>2, <1>4 DEF q, r

(* Where the last byte of frame k is.                                       *)
LEMMA LastPlace ==
    ASSUME NEW b \in Nat \ {0}, NEW n \in Nat, NEW k \in 1..(n \div b)
    PROVE  k * b \in b..n /\ k * b \in 1..n /\ (k + 1) * b = k * b + b
  <1> DEFINE q == n \div b
             r == n % b
  <1>1. q \in Nat /\ r \in 0..b-1 /\ n = b * q + r
    BY Quotient
  <1>2. k \in 1..q
    OBVIOUS
  <1> HIDE DEF q, r
  <1>3. k * b <= q * b
    BY <1>2, <1>1
  <1>4. k * b >= b
    BY <1>2, <1>1
  <1> QED BY <1>2, <1>1, <1>3, <1>4

-----------------------------------------------------------------------------
(* Bytes and frames *)

Aligned(s) ==
    /\ \A k \in 1..Len(s) : s[k][2] <= k
    /\ \A k \in 1..Len(s) : \A d \in 0..s[k][2]-1 : s[k-d] = <<s[k][1], s[k][2] - d>>
    /\ \A k \in 2..Len(s) : s[k][2] = 1 => s[k-1][2] = FrameBytes

(* The stream ends with a whole frame, or with the first a bytes of f.      *)
Whole(s) == s = <<>> \/ s[Len(s)][2] = FrameBytes
Part(s, f, a) == s # <<>> /\ s[Len(s)] = <<f, a>>
EndsAt(s, f, a) ==
    /\ Len(s) % FrameBytes = a
    /\ IF a = 0 THEN Whole(s) ELSE Part(s, f, a)

(* The bytes of a frame.                                                    *)
LEMMA FrameBytesOf ==
    ASSUME LinkAssumption, NEW f \in Frames
    PROVE  /\ FrameOf(f) \in Seq(Bytes) /\ Len(FrameOf(f)) = FrameBytes
           /\ \A i \in 1..FrameBytes : FrameOf(f)[i] = <<f, i>>
  <1>1. FrameOf(f) \in [1..FrameBytes -> Bytes]
    BY DEF FrameOf, Bytes
  <1>2. FrameOf(f) \in Seq(Bytes) /\ Len(FrameOf(f)) = FrameBytes
    BY <1>1
  <1> QED BY <1>2 DEF FrameOf

(* The piece of a frame that one send() takes.                              *)
LEMMA Piece ==
    ASSUME LinkAssumption, NEW f \in Frames, NEW a \in 0..FrameBytes-1,
           NEW n \in 1..FrameBytes-a
    PROVE  /\ SubSeq(FrameOf(f), a + 1, a + n) \in Seq(Bytes)
           /\ Len(SubSeq(FrameOf(f), a + 1, a + n)) = n
           /\ \A i \in 1..n : SubSeq(FrameOf(f), a + 1, a + n)[i] = <<f, a + i>>
  <1>1. FrameOf(f) \in Seq(Bytes) /\ Len(FrameOf(f)) = FrameBytes
        /\ \A i \in 1..FrameBytes : FrameOf(f)[i] = <<f, i>>
    BY FrameBytesOf
  <1>2. \A i \in a+1..a+n : FrameOf(f)[i] \in Bytes
    BY <1>1 DEF Bytes
  <1>3. /\ SubSeq(FrameOf(f), a + 1, a + n) \in Seq(Bytes)
        /\ Len(SubSeq(FrameOf(f), a + 1, a + n)) = n
        /\ \A i \in 1..n : SubSeq(FrameOf(f), a + 1, a + n)[i] = FrameOf(f)[a + i]
    BY <1>2, SubSeqProperties
  <1> QED BY <1>1, <1>3

(* What a sequence of bytes holds.                                          *)
LEMMA Typed ==
    ASSUME LinkAssumption, NEW s \in Seq(Bytes)
    PROVE  /\ Len(s) \in Nat
           /\ \A k \in 1..Len(s) : /\ s[k][1] \in Nat /\ s[k][2] \in Nat
                                   /\ 1 <= s[k][2] /\ s[k][2] <= FrameBytes
                                   /\ s[k] = <<s[k][1], s[k][2]>>
  <1>1. Len(s) \in Nat
    OBVIOUS
  <1>2. ASSUME NEW k \in 1..Len(s)
        PROVE  /\ s[k][1] \in Nat /\ s[k][2] \in Nat
               /\ 1 <= s[k][2] /\ s[k][2] <= FrameBytes
               /\ s[k] = <<s[k][1], s[k][2]>>
    <2>1. s[k] \in Bytes
      BY ElementOfSeq
    <2>2. PICK f \in Frames, i \in 1..FrameBytes : s[k] = <<f, i>>
      BY <2>1 DEF Bytes
    <2> QED BY <2>2 DEF Frames, LinkAssumption
  <1> QED BY <1>1, <1>2

(* The bytes the pump adds continue the stream.                             *)
LEMMA Continued ==
    ASSUME LinkAssumption, NEW s \in Seq(Bytes), Aligned(s),
           NEW f \in Frames, NEW a \in 0..FrameBytes-1, NEW n \in 1..FrameBytes-a,
           EndsAt(s, f, a),
           NEW u, Len(u) = Len(s) + n, \A k \in 1..Len(s) : u[k] = s[k],
           \A k \in Len(s)+1..Len(s)+n : u[k] = <<f, a + (k - Len(s))>>
    PROVE  Aligned(u)
  <1> USE DEF LinkAssumption
  <1>0. FrameBytes \in Nat /\ f \in Nat
    BY DEF Frames
  <1>1. /\ Len(s) \in Nat
        /\ \A k \in 1..Len(s) : /\ s[k][1] \in Nat /\ s[k][2] \in Nat
                                /\ 1 <= s[k][2] /\ s[k][2] <= FrameBytes
    BY Typed
  <1>2. a <= Len(s) /\ (a > 0 => s[Len(s)] = <<f, a>>)
    <2>1. CASE a = 0
      BY <2>1, <1>1
    <2>2. CASE a > 0
      <3>1. s # <<>> /\ s[Len(s)] = <<f, a>>
        BY <2>2 DEF EndsAt, Part
      <3>2. Len(s) \in 1..Len(s)
        BY <3>1, <1>1, EmptySeq
      <3>3. s[Len(s)][2] <= Len(s)
        BY <3>2 DEF Aligned
      <3> QED BY <3>1, <3>3
    <2> QED BY <2>1, <2>2
  <1>3. ASSUME NEW k \in 1..Len(u)
        PROVE  u[k][2] <= k
    <2>1. CASE k <= Len(s)
      <3>1. k \in 1..Len(s)
        BY <2>1, <1>1
      <3> QED BY <3>1 DEF Aligned
    <2>2. CASE k > Len(s)
      <3>1. u[k] = <<f, a + (k - Len(s))>>
        BY <1>1, <2>2
      <3>2. u[k][2] = a + (k - Len(s))
        BY <3>1
      <3> QED BY <1>1, <1>2, <3>2
    <2> QED BY <1>1, <2>1, <2>2
  <1>4. ASSUME NEW k \in 1..Len(u), NEW d \in 0..u[k][2]-1
        PROVE  u[k-d] = <<u[k][1], u[k][2] - d>>
    <2>1. CASE k <= Len(s)
      <3>1. u[k] = s[k] /\ k \in 1..Len(s) /\ s[k][2] \in Nat
        BY <1>1, <2>1
      <3>2. s[k-d] = <<s[k][1], s[k][2] - d>> /\ s[k][2] <= k
        BY <3>1 DEF Aligned
      <3>3. d \in 0..s[k][2]-1
        BY <3>1
      <3>4. k - d \in 1..Len(s)
        BY <3>1, <3>2, <3>3, <1>1
      <3> QED BY <3>1, <3>2, <3>4
    <2>2. CASE k > Len(s)
      <3>1. u[k] = <<f, a + (k - Len(s))>>
        BY <1>1, <2>2
      <3>2. u[k][1] = f /\ u[k][2] = a + (k - Len(s))
        BY <3>1
      <3>3. d \in Nat /\ d < a + (k - Len(s)) /\ k \in Nat /\ k <= Len(s) + n
        BY <3>2, <1>1
      <3>4. CASE d < k - Len(s)
        <4>1. k - d \in Len(s)+1..Len(s)+n
          BY <1>1, <3>3, <3>4, <2>2
        <4>2. u[k-d] = <<f, a + ((k - d) - Len(s))>>
          BY <4>1
        <4>3. a + ((k - d) - Len(s)) = a + (k - Len(s)) - d
          BY <1>1, <3>3
        <4> QED BY <3>2, <4>2, <4>3
      <3>5. CASE d >= k - Len(s)
        <4> DEFINE e == d - (k - Len(s))
        <4>1. a > 0 /\ e \in 0..a-1
          BY <1>1, <3>3, <3>5
        <4>2. s[Len(s)] = <<f, a>> /\ Len(s) \in 1..Len(s)
          BY <4>1, <1>1, <1>2
        <4>3. s[Len(s)][1] = f /\ s[Len(s)][2] = a
          BY <4>2
        <4>4. s[Len(s) - e] = <<s[Len(s)][1], s[Len(s)][2] - e>>
          BY <4>1, <4>2, <4>3 DEF Aligned
        <4>5. Len(s) - e = k - d /\ k - d \in 1..Len(s) /\ a - e = a + (k - Len(s)) - d
          BY <1>1, <1>2, <3>3, <3>5, <4>1
        <4>6. u[k-d] = s[k-d]
          BY <4>5
        <4> QED BY <3>2, <4>3, <4>4, <4>5, <4>6
      <3> QED BY <1>1, <3>3, <3>4, <3>5
    <2> QED BY <1>1, <2>1, <2>2
  <1>5. ASSUME NEW k \in 2..Len(u), u[k][2] = 1
        PROVE  u[k-1][2] = FrameBytes
    <2>1. CASE k <= Len(s)
      <3>1. k \in 2..Len(s) /\ u[k] = s[k] /\ u[k-1] = s[k-1]
        BY <1>1, <2>1
      <3> QED BY <3>1, <1>5 DEF Aligned
    <2>2. CASE k > Len(s)
      <3>1. u[k] = <<f, a + (k - Len(s))>>
        BY <1>1, <2>2
      <3>2. u[k][2] = a + (k - Len(s))
        BY <3>1
      <3>3. a = 0 /\ k = Len(s) + 1
        BY <3>2, <1>1, <1>5, <2>2
      <3>4. s # <<>> /\ k - 1 = Len(s) /\ Len(s) \in 1..Len(s)
        BY <3>3, <1>1
      <3>5. s[Len(s)][2] = FrameBytes
        BY <3>3, <3>4 DEF EndsAt, Whole
      <3> QED BY <3>4, <3>5
    <2> QED BY <1>1, <2>1, <2>2
  <1> QED BY <1>3, <1>4, <1>5 DEF Aligned

(* What one send() makes of the stream.                                     *)
LEMMA Extended ==
    ASSUME LinkAssumption, NEW s \in Seq(Bytes), Aligned(s),
           NEW f \in Frames, NEW a \in 0..FrameBytes-1, NEW n \in 1..FrameBytes-a,
           EndsAt(s, f, a),
           NEW u, u = s \o SubSeq(FrameOf(f), a + 1, a + n)
    PROVE  /\ Aligned(u)
           /\ a + n < FrameBytes => EndsAt(u, f, a + n)
           /\ a + n = FrameBytes => EndsAt(u, 0, 0)
  <1> USE DEF LinkAssumption
  <1> DEFINE p == SubSeq(FrameOf(f), a + 1, a + n)
  <1>1. p \in Seq(Bytes) /\ Len(p) = n /\ \A i \in 1..n : p[i] = <<f, a + i>>
    BY Piece
  <1> HIDE DEF p
  <1>2. /\ s \o p \in Seq(Bytes)
        /\ Len(s \o p) = Len(s) + Len(p)
        /\ \A i \in 1 .. Len(s) + Len(p) :
              (s \o p)[i] = IF i <= Len(s) THEN s[i] ELSE p[i - Len(s)]
    BY <1>1, ConcatProperties
  <1>3. u = s \o p
    BY DEF p
  <1>4. Len(s) \in Nat /\ Len(u) = Len(s) + n
    BY <1>1, <1>2, <1>3
  <1>5. \A k \in 1..Len(s) : u[k] = s[k]
    BY <1>1, <1>2, <1>3, <1>4
  <1>6. ASSUME NEW k \in Len(s)+1..Len(s)+n
        PROVE  u[k] = <<f, a + (k - Len(s))>>
    <2>1. u[k] = p[k - Len(s)]
      BY <1>1, <1>2, <1>3, <1>4
    <2>2. k - Len(s) \in 1..n
      BY <1>4
    <2> QED BY <1>1, <2>1, <2>2
  <1>7. Aligned(u)
    BY <1>4, <1>5, <1>6, Continued
  <1>8. u # <<>> /\ u[Len(u)] = <<f, a + n>>
    <2>1. Len(u) \in Len(s)+1..Len(s)+n /\ Len(u) - Len(s) = n
      BY <1>4
    <2>2. u[Len(u)] = <<f, a + n>>
      BY <1>6, <2>1
    <2>3. Len(u) # 0
      BY <1>4
    <2>4. u # <<>>
      BY <2>3
    <2> QED BY <2>2, <2>4
  <1>9. u[Len(u)][2] = a + n
    <2> DEFINE x == u[Len(u)]
    <2>1. x = <<f, a + n>>
      BY <1>8
    <2> HIDE DEF x
    <2>2. x[2] = a + n
      BY <2>1
    <2> QED BY <2>2 DEF x
  <1>10. a + n # 0
    OBVIOUS
  <1>11. /\ a + n < FrameBytes => Len(u) % FrameBytes = a + n
         /\ a + n = FrameBytes => Len(u) % FrameBytes = 0
    <2>1. Len(s) % FrameBytes = a /\ n \in 1..FrameBytes-(Len(s) % FrameBytes)
      BY DEF EndsAt
    <2>2. /\ a + n < FrameBytes => (Len(s) + n) % FrameBytes = a + n
          /\ a + n = FrameBytes => (Len(s) + n) % FrameBytes = 0
      BY <1>4, <2>1, MoreBytes
    <2> QED BY <1>4, <2>2
  <1>12. a + n < FrameBytes => EndsAt(u, f, a + n)
    BY <1>8, <1>10, <1>11 DEF EndsAt, Part
  <1>13. a + n = FrameBytes => EndsAt(u, 0, 0)
    BY <1>9, <1>11 DEF EndsAt, Whole
  <1> QED BY <1>7, <1>12, <1>13

(* An aligned stream begins with a frame.                                   *)
LEMMA FirstFrame ==
    ASSUME LinkAssumption, NEW s \in Seq(Bytes), Aligned(s), Len(s) >= FrameBytes
    PROVE  /\ s[FrameBytes][2] = FrameBytes
           /\ SubSeq(s, 1, FrameBytes) = FrameOf(s[1][1])
           /\ s[1][1] \in Frames
  <1> USE DEF LinkAssumption
  <1> DEFINE m == s[FrameBytes][2]
  <1>1. /\ Len(s) \in Nat /\ FrameBytes \in 1..Len(s)
        /\ \A k \in 1..Len(s) : /\ s[k][1] \in Nat /\ s[k][2] \in Nat
                                /\ 1 <= s[k][2] /\ s[k][2] <= FrameBytes
                                /\ s[k] = <<s[k][1], s[k][2]>>
    BY Typed
  <1>2. m = FrameBytes
    <2>1. SUFFICES ASSUME m # FrameBytes PROVE FALSE
      OBVIOUS
    <2>2. m \in Nat /\ 1 <= m /\ m < FrameBytes
      BY <1>1, <2>1
    <2> HIDE DEF m
    <2>3. m - 1 \in 0..m-1 /\ FrameBytes - (m - 1) \in 2..Len(s)
      BY <1>1, <2>2
    <2>4. s[FrameBytes - (m - 1)] = <<s[FrameBytes][1], m - (m - 1)>>
      BY <1>1, <2>3 DEF Aligned, m
    <2>5. s[FrameBytes - (m - 1)][2] = 1
      BY <2>2, <2>4
    <2>6. s[FrameBytes - (m - 1) - 1][2] = FrameBytes
      BY <2>3, <2>5 DEF Aligned
    <2>7. FrameBytes - (m - 1) - 1 = FrameBytes - m /\ FrameBytes - m \in 1..Len(s)
      BY <1>1, <2>2
    <2>8. s[FrameBytes - m][2] <= FrameBytes - m
      BY <2>7 DEF Aligned
    <2> QED BY <2>2, <2>6, <2>7, <2>8
  <1>3. ASSUME NEW k \in 1..FrameBytes
        PROVE  s[k] = <<s[FrameBytes][1], k>>
    <2>1. FrameBytes - k \in 0..s[FrameBytes][2]-1
      BY <1>2
    <2>2. s[FrameBytes - (FrameBytes - k)] = <<s[FrameBytes][1], s[FrameBytes][2] - (FrameBytes - k)>>
      BY <1>1, <2>1 DEF Aligned
    <2>3. FrameBytes - (FrameBytes - k) = k
      OBVIOUS
    <2> QED BY <1>2, <2>2, <2>3
  <1>4. s[1] = <<s[FrameBytes][1], 1>>
    BY <1>3
  <1>5. s[1] \in Bytes
    BY <1>1, ElementOfSeq
  <1>6. s[1][1] \in Frames
    BY <1>5 DEF Bytes
  <1>7. s[1][1] = s[FrameBytes][1]
    BY <1>4
  <1> DEFINE t == SubSeq(s, 1, FrameBytes)
  <1>8. \A i \in 1..FrameBytes : s[i] \in Bytes
    BY <1>1, ElementOfSeq
  <1>9. t \in Seq(Bytes) /\ Len(t) = FrameBytes /\ \A i \in 1..FrameBytes : t[i] = s[i]
    BY <1>8, SubSeqProperties
  <1>10. /\ FrameOf(s[1][1]) \in Seq(Bytes) /\ Len(FrameOf(s[1][1])) = FrameBytes
         /\ \A i \in 1..FrameBytes : FrameOf(s[1][1])[i] = <<s[1][1], i>>
    BY <1>6, FrameBytesOf
  <1> HIDE DEF t
  <1>11. \A i \in 1..Len(t) : t[i] = FrameOf(s[1][1])[i]
    BY <1>3, <1>7, <1>9, <1>10
  <1>12. t = FrameOf(s[1][1])
    BY <1>9, <1>10, <1>11, SeqEqual
  <1> QED BY <1>2, <1>6, <1>12 DEF t

(* What is left without its first frame is aligned, and ends as before.     *)
LEMMA WithoutFirst ==
    ASSUME LinkAssumption, NEW s \in Seq(Bytes), Aligned(s), Len(s) >= FrameBytes
    PROVE  /\ Aligned(SubSeq(s, FrameBytes + 1, Len(s)))
           /\ \A f : \A a \in 0..FrameBytes-1 :
                 EndsAt(s, f, a) => EndsAt(SubSeq(s, FrameBytes + 1, Len(s)), f, a)
  <1> USE DEF LinkAssumption
  <1> DEFINE t == SubSeq(s, FrameBytes + 1, Len(s))
  <1>1. /\ Len(s) \in Nat
        /\ \A k \in 1..Len(s) : /\ s[k][1] \in Nat /\ s[k][2] \in Nat
                                /\ 1 <= s[k][2] /\ s[k][2] <= FrameBytes
    BY Typed
  <1>2. s[FrameBytes][2] = FrameBytes
    BY FirstFrame
  <1>3. \A i \in FrameBytes+1..Len(s) : s[i] \in Bytes
    BY <1>1, ElementOfSeq
  <1>4. /\ t \in Seq(Bytes)
        /\ Len(t) = Len(s) - FrameBytes
        /\ \A i \in 1..Len(s)-FrameBytes : t[i] = s[FrameBytes+i]
    <2>1. /\ t \in Seq(Bytes)
          /\ Len(t) = IF FrameBytes + 1 <= Len(s) THEN Len(s) - (FrameBytes + 1) + 1 ELSE 0
          /\ \A i \in 1 .. Len(s) - (FrameBytes + 1) + 1 : t[i] = s[FrameBytes + 1 + i - 1]
      BY <1>1, <1>3, SubSeqProperties
    <2> HIDE DEF t
    <2>2. Len(t) = Len(s) - FrameBytes
      BY <1>1, <2>1
    <2>3. ASSUME NEW i \in 1..Len(s)-FrameBytes PROVE t[i] = s[FrameBytes+i]
      <3>1. FrameBytes + 1 + i - 1 = FrameBytes + i /\ i \in 1 .. Len(s) - (FrameBytes + 1) + 1
        BY <1>1
      <3> QED BY <2>1, <3>1
    <2> QED BY <2>1, <2>2, <2>3
  <1> HIDE DEF t
  <1>5. ASSUME NEW k \in 1..Len(t)
        PROVE  t[k][2] <= k
    <2> DEFINE p == s[FrameBytes+k][2]
    <2>1. FrameBytes + k \in 1..Len(s) /\ t[k] = s[FrameBytes+k] /\ p \in Nat /\ p <= FrameBytes
      BY <1>1, <1>4
    <2>2. SUFFICES ASSUME p > k PROVE FALSE
      BY <1>4, <2>1
    <2> HIDE DEF p
    <2>3. k \in 0..p-1 /\ FrameBytes + k - k = FrameBytes
      BY <1>4, <2>1, <2>2
    <2>4. \A d \in 0..p-1 : s[FrameBytes + k - d] = <<s[FrameBytes+k][1], p - d>>
      BY <2>1 DEF Aligned, p
    <2>5. s[FrameBytes] = <<s[FrameBytes+k][1], p - k>>
      BY <2>3, <2>4
    <2>6. s[FrameBytes][2] = p - k
      BY <2>5
    <2> QED BY <1>2, <1>4, <2>1, <2>6
  <1>6. ASSUME NEW k \in 1..Len(t), NEW d \in 0..t[k][2]-1
        PROVE  t[k-d] = <<t[k][1], t[k][2] - d>>
    <2>1. FrameBytes + k \in 1..Len(s) /\ t[k] = s[FrameBytes+k] /\ t[k][2] \in Nat /\ t[k][2] <= k
      BY <1>1, <1>4, <1>5
    <2>2. k - d \in 1..Len(s)-FrameBytes /\ FrameBytes + (k - d) = FrameBytes + k - d
      BY <1>1, <1>4, <2>1
    <2>3. t[k-d] = s[FrameBytes + k - d]
      BY <1>4, <2>2
    <2>4. s[FrameBytes + k - d] = <<s[FrameBytes+k][1], s[FrameBytes+k][2] - d>>
      BY <2>1 DEF Aligned
    <2> QED BY <2>1, <2>3, <2>4
  <1>7. ASSUME NEW k \in 2..Len(t), t[k][2] = 1
        PROVE  t[k-1][2] = FrameBytes
    <2>1. FrameBytes + k \in 2..Len(s) /\ t[k] = s[FrameBytes+k]
      BY <1>1, <1>4
    <2>2. k - 1 \in 1..Len(s)-FrameBytes /\ FrameBytes + (k - 1) = FrameBytes + k - 1
      BY <1>1, <1>4
    <2>3. t[k-1] = s[FrameBytes + k - 1]
      BY <1>4, <2>2
    <2>4. s[FrameBytes + k - 1][2] = FrameBytes
      BY <1>7, <2>1 DEF Aligned
    <2> QED BY <2>3, <2>4
  <1>8. Aligned(t)
    BY <1>5, <1>6, <1>7 DEF Aligned
  <1>9. ASSUME NEW f, NEW a \in 0..FrameBytes-1, EndsAt(s, f, a)
        PROVE  EndsAt(t, f, a)
    <2>1. CASE Len(s) = FrameBytes
      <3>1. t = <<>>
        BY <1>4, <2>1, EmptySeq
      <3>2. s # <<>>
        BY <2>1
      <3>3. a = 0
        <4>1. SUFFICES ASSUME a # 0 PROVE FALSE
          OBVIOUS
        <4>2. s[Len(s)] = <<f, a>>
          BY <1>9, <4>1 DEF EndsAt, Part
        <4> QED BY <1>2, <2>1, <4>2
      <3> QED BY <3>1, <3>3 DEF EndsAt, Whole
    <2>2. CASE Len(s) > FrameBytes
      <3>1. t # <<>> /\ s # <<>>
        BY <1>4, <2>2
      <3>2. Len(t) \in 1..Len(s)-FrameBytes /\ FrameBytes + Len(t) = Len(s)
        BY <1>1, <1>4, <2>2
      <3>3. t[Len(t)] = s[Len(s)]
        BY <1>4, <3>2
      <3>4. Len(t) % FrameBytes = Len(s) % FrameBytes
        BY <1>1, <1>4, LessBytes
      <3> QED BY <1>9, <3>1, <3>3, <3>4 DEF EndsAt, Whole, Part
    <2> QED BY <1>1, <2>1, <2>2
  <1> QED BY <1>8, <1>9 DEF t

(* Concatenation is associative.                                            *)
LEMMA Assoc == \A x, y, z \in Seq(Bytes) : (x \o y) \o z = x \o (y \o z)
  BY ConcatAssociative

(* What is in front of an aligned stream's end is aligned.                  *)
LEMMA Prefix ==
    ASSUME NEW s \in Seq(Bytes), NEW w \in Seq(Bytes), Aligned(s \o w), LinkAssumption
    PROVE  Aligned(s)
  <1> DEFINE u == s \o w
  <1>1. /\ Len(u) = Len(s) + Len(w)
        /\ \A i \in 1 .. Len(s) + Len(w) : u[i] = IF i <= Len(s) THEN s[i] ELSE w[i - Len(s)]
    BY ConcatProperties
  <1>2. Aligned(u)
    OBVIOUS
  <1> HIDE DEF u
  <1>3. Len(s) \in Nat /\ Len(w) \in Nat
    BY EmptySeq
  <1>4. \A k \in 1..Len(s) : u[k] = s[k] /\ k \in 1..Len(u) /\ s[k][2] \in Nat
    BY <1>1, <1>3, Typed
  <1>5. ASSUME NEW k \in 1..Len(s)
        PROVE  s[k][2] <= k
    BY <1>2, <1>4 DEF Aligned
  <1>6. ASSUME NEW k \in 1..Len(s), NEW d \in 0..s[k][2]-1
        PROVE  s[k-d] = <<s[k][1], s[k][2] - d>>
    <2>1. k - d \in 1..Len(s)
      BY <1>3, <1>4, <1>5
    <2>2. u[k-d] = <<u[k][1], u[k][2] - d>>
      BY <1>2, <1>4 DEF Aligned
    <2> QED BY <1>4, <2>1, <2>2
  <1>7. ASSUME NEW k \in 2..Len(s), s[k][2] = 1
        PROVE  s[k-1][2] = FrameBytes
    <2>1. k - 1 \in 1..Len(s) /\ k \in 1..Len(s) /\ k \in 2..Len(u)
      BY <1>1, <1>3
    <2>2. u[k] = s[k] /\ u[k-1] = s[k-1]
      BY <1>4, <2>1
    <2> QED BY <1>2, <1>7, <2>1, <2>2 DEF Aligned
  <1> QED BY <1>5, <1>6, <1>7 DEF Aligned

(* Less than a frame, and no part of one at its end, is nothing.            *)
LEMMA NothingLeft ==
    ASSUME LinkAssumption, NEW s \in Seq(Bytes), Aligned(s), Whole(s), Len(s) < FrameBytes
    PROVE  s = <<>>
  <1>1. SUFFICES ASSUME s # <<>> PROVE FALSE
    OBVIOUS
  <1>2. Len(s) \in 1..Len(s)
    BY <1>1, EmptySeq
  <1>3. s[Len(s)][2] = FrameBytes /\ s[Len(s)][2] <= Len(s)
    BY <1>1, <1>2 DEF Whole, Aligned
  <1> QED BY <1>2, <1>3 DEF LinkAssumption

(* What enters the ring is a frame or a mixture.                            *)
LEMMA EntryOf ==
    ASSUME LinkAssumption, NEW s \in Seq(Bytes), Len(s) >= FrameBytes
    PROVE  Entry(SubSeq(s, 1, FrameBytes)) \in Frames \cup {Torn}
  <1> USE DEF LinkAssumption
  <1> DEFINE t == SubSeq(s, 1, FrameBytes)
  <1>1. Len(s) \in Nat
    BY EmptySeq
  <1>2. \A i \in 1..FrameBytes : s[i] \in Bytes
    BY <1>1, ElementOfSeq
  <1>3. \A i \in 1..FrameBytes : t[i] = s[i]
    BY <1>2, SubSeqProperties
  <1>4. t[1] \in Bytes
    BY <1>2, <1>3
  <1>5. t[1][1] \in Frames
    BY <1>4 DEF Bytes
  <1> QED BY <1>5 DEF Entry

(* Types and lengths of the pieces bytes are cut into.                      *)
LEMMA RestOf ==
    ASSUME LinkAssumption, NEW s \in Seq(Bytes), NEW m \in 1..Len(s)+1, NEW n \in 0..Len(s)
    PROVE  /\ SubSeq(s, m, n) \in Seq(Bytes)
           /\ Len(SubSeq(s, m, n)) = IF m <= n THEN n - m + 1 ELSE 0
  <1>1. Len(s) \in Nat
    BY EmptySeq
  <1>2. \A i \in m..n : s[i] \in Bytes
    BY <1>1, ElementOfSeq
  <1> QED BY <1>1, <1>2, SubSeqProperties

(* A push keeps the ring's bound and brings nothing else into it.           *)
LEMMA PushedOf ==
    ASSUME LinkAssumption, NEW S, NEW b \in Seq(S), Len(b) <= RingCapacity, NEW e \in S
    PROVE  /\ Pushed(b, e) \in Seq(S)
           /\ Len(Pushed(b, e)) <= RingCapacity
           /\ \A k \in 1..Len(Pushed(b, e)) :
                 Pushed(b, e)[k] = e \/ \E i \in 1..Len(b) : Pushed(b, e)[k] = b[i]
  <1> USE DEF LinkAssumption
  <1>1. CASE Len(b) < RingCapacity
    <2>1. Pushed(b, e) = Append(b, e)
      BY <1>1 DEF Pushed
    <2>2. /\ Append(b, e) \in Seq(S) /\ Len(Append(b, e)) = Len(b) + 1 /\ Len(b) \in Nat
          /\ \A i \in 1..Len(b) : Append(b, e)[i] = b[i]
          /\ Append(b, e)[Len(b)+1] = e
      BY AppendProperties, EmptySeq
    <2> QED BY <1>1, <2>1, <2>2
  <1>2. CASE Len(b) >= RingCapacity
    <2> DEFINE t == Tail(b)
    <2>1. b # <<>> /\ Len(b) \in Nat
      BY <1>2
    <2>2. t \in Seq(S) /\ Len(t) = Len(b) - 1 /\ \A i \in 1..Len(t) : t[i] = b[i+1]
      BY <2>1, HeadTailProperties
    <2>3. Pushed(b, e) = Append(t, e)
      BY <1>2 DEF Pushed
    <2> HIDE DEF t
    <2>4. /\ Append(t, e) \in Seq(S) /\ Len(Append(t, e)) = Len(t) + 1
          /\ \A i \in 1..Len(t) : Append(t, e)[i] = t[i]
          /\ Append(t, e)[Len(t)+1] = e
      BY <2>2, AppendProperties
    <2>5. ASSUME NEW k \in 1..Len(t)+1
          PROVE  Append(t, e)[k] = e \/ \E i \in 1..Len(b) : Append(t, e)[k] = b[i]
      <3>1. CASE k = Len(t) + 1
        BY <2>4, <3>1
      <3>2. CASE k \in 1..Len(t)
        <4>1. k + 1 \in 1..Len(b) /\ Append(t, e)[k] = b[k+1]
          BY <2>1, <2>2, <2>4, <3>2
        <4> QED BY <4>1
      <3> QED BY <2>1, <2>2, <3>1, <3>2
    <2> QED BY <1>2, <2>1, <2>2, <2>3, <2>4, <2>5
  <1>3. Len(b) \in Nat
    BY EmptySeq
  <1> QED BY <1>1, <1>2, <1>3

(* The types hold in the first state ...                                    *)
LEMMA TypesStart ==
    ASSUME LinkAssumption, Init
    PROVE  TypeOK
  <1>1. <<>> \in Seq(Frames) /\ <<>> \in Seq(Bytes) /\ <<>> \in Seq(Frames \cup {Torn}) /\ Len(<<>>) = 0
    BY EmptySeq
  <1>2. pipe \in [Conns -> Seq(Bytes)] /\ hand \in [Conns -> Seq(Bytes)]
        /\ \A c \in Conns : Len(pipe[c]) = 0 /\ Len(hand[c]) = 0
    BY <1>1 DEF Init, NoBytes
  <1>3. made \in Frames /\ frame \in Frames /\ sent \in Frames /\ offset \in 0..FrameBytes-1
    BY DEF Init, Frames, LinkAssumption
  <1>4. main = "off" /\ pump = "off" /\ sock = None /\ lock = None /\ tower = "down"
        /\ queue = <<>> /\ acc = <<>> /\ ring = <<>>
    BY DEF Init
  <1>5. pushing \in BOOLEAN /\ stop \in BOOLEAN /\ cooling \in BOOLEAN /\ cut \in BOOLEAN
    BY DEF Init
  <1>6. conn \in [Conns -> {"free", "waiting", "recv", "call", "split"}]
    BY DEF Init, AllFree
  <1>7. PipeBytes \in Nat /\ RecvBytes \in Nat /\ QueueCapacity \in Nat /\ RingCapacity \in Nat
    BY DEF LinkAssumption
  <1> QED BY <1>1, <1>2, <1>3, <1>4, <1>5, <1>6, <1>7 DEF TypeOK

(* ... and are kept by every step.                                          *)
LEMMA TypesKept ==
    ASSUME LinkAssumption, TypeOK, [Next]_vars
    PROVE  TypeOK'
  <1> USE DEF LinkAssumption, Frames, Torn,
             station, procVars, feedVars, pumpVars, sinkVars, wireVars, readVars
  <1>1. CASE StationStarts
    BY <1>1 DEF TypeOK, StationStarts
  <1>2. CASE StationEnds
    <2>1. queue' \in Seq(Frames) /\ Len(queue') <= QueueCapacity
      BY <1>2, EmptySeq DEF StationEnds
    <2>2. pushing' \in BOOLEAN /\ stop' \in BOOLEAN /\ cooling' \in BOOLEAN
      BY <1>2 DEF StationEnds
    <2>3. cut' \in BOOLEAN
      BY <1>2, Zenon DEF TypeOK, StationEnds
    <2>4. main' = "off" /\ pump' = "off" /\ frame' = 0 /\ offset' = 0 /\ sock' = None
      BY <1>2 DEF StationEnds
    <2>5. UNCHANGED <<made, sent, tower, conn, pipe, hand, lock, acc, ring>>
      BY <1>2 DEF StationEnds, wireVars, readVars
    <2> QED BY <2>1, <2>2, <2>3, <2>4, <2>5 DEF TypeOK
  <1>3. CASE Decode
    BY <1>3 DEF TypeOK, Decode
  <1>4. CASE PushFails
    BY <1>4 DEF TypeOK, PushFails
  <1>5. CASE EngineStop
    BY <1>5 DEF TypeOK, EngineStop
  <1>6. CASE Drained
    BY <1>6 DEF TypeOK, Drained, BeginJoin
  <1>7. CASE DrainTimesOut
    BY <1>7 DEF TypeOK, DrainTimesOut, BeginJoin
  <1>8. CASE Close
    BY <1>8 DEF TypeOK, Close, CloseSink
  <1>9. CASE JoinTimesOut
    BY <1>9 DEF TypeOK, JoinTimesOut, CloseSink
  <1>10. CASE PumpStops
    BY <1>10 DEF TypeOK, PumpStops
  <1>11. CASE ConnectFails
    BY <1>11 DEF TypeOK, ConnectFails
  <1>12. CASE Cool
    BY <1>12 DEF TypeOK, Cool
  <1>13. CASE SendFails
    BY <1>13 DEF TypeOK, SendFails, AfterError
  <1>14. CASE SendTimesOut
    BY <1>14 DEF TypeOK, SendTimesOut
  <1>15. CASE TowerStarts
    BY <1>15 DEF TypeOK, TowerStarts
  <1>16. CASE TowerStops
    BY <1>16 DEF TypeOK, TowerStops
  <1>17. CASE TowerEnds
    BY <1>17 DEF TypeOK, TowerEnds, NoBytes, AllFree
  <1>18. CASE Push
    <2>1. queue \in Seq(Frames) /\ made \in Frames /\ Len(queue) \in Nat /\ Len(queue) < QueueCapacity
      BY <1>18, EmptySeq DEF TypeOK, Push
    <2>2. queue' \in Seq(Frames) /\ Len(queue') <= QueueCapacity
      BY <1>18, <2>1, AppendProperties DEF Push
    <2> QED BY <1>18, <2>2 DEF TypeOK, Push
  <1>19. CASE Tick
    <2>1. queue \in Seq(Frames) /\ Len(queue) \in Nat /\ Len(queue) <= QueueCapacity /\ 0 \in Frames
      BY <1>19, EmptySeq DEF TypeOK
    <2>2. /\ queue' \in Seq(Frames) /\ Len(queue') <= QueueCapacity
          /\ frame' \in Frames
      <3>1. CASE queue = <<>>
        BY <1>19, <2>1, <3>1 DEF Tick, Remaining
      <3>2. CASE queue # <<>>
        <4>1. Head(queue) \in Frames /\ Tail(queue) \in Seq(Frames) /\ Len(Tail(queue)) = Len(queue) - 1
          BY <2>1, <3>2, HeadTailProperties
        <4> QED BY <1>19, <2>1, <3>2, <4>1 DEF Tick, Remaining
      <3> QED BY <3>1, <3>2
    <2>3. pump' \in {"connect", "send"}
      BY <1>19 DEF Tick
    <2> QED BY <1>19, <2>2, <2>3 DEF TypeOK, Tick
  <1>20. CASE Pop
    BY <1>20, HeadTailProperties DEF TypeOK, Pop
  <1>21. ASSUME NEW c \in Conns, Connect(c) PROVE TypeOK'
    BY <1>21 DEF TypeOK, Connect
  <1>22. ASSUME NEW m \in 1..FrameBytes, Send(m) PROVE TypeOK'
    <2>1. sock \in Conns /\ frame \in Frames /\ offset \in 0..FrameBytes-1 /\ m \in 1..FrameBytes-offset
      BY <1>22 DEF TypeOK, Send, Writable
    <2> DEFINE p == SubSeq(FrameOf(frame), offset + 1, offset + m)
    <2>2. p \in Seq(Bytes) /\ Len(p) = m
      BY <2>1, Piece
    <2>3. pipe' = [pipe EXCEPT ![sock] = pipe[sock] \o p] /\ Len(pipe[sock]) + m <= PipeBytes
      BY <1>22 DEF Send
    <2> HIDE DEF p
    <2>4. pipe[sock] \o p \in Seq(Bytes) /\ Len(pipe[sock] \o p) = Len(pipe[sock]) + m
      BY <2>1, <2>2, ConcatProperties DEF TypeOK
    <2>5. pipe' \in [Conns -> Seq(Bytes)] /\ \A c \in Conns : Len(pipe'[c]) <= PipeBytes
      BY <2>1, <2>3, <2>4 DEF TypeOK
    <2>6. pump' \in {"top", "send"} /\ frame' \in Frames /\ offset' \in 0..FrameBytes-1 /\ sent' \in Frames
      BY <1>22, <2>1 DEF TypeOK, Send
    <2> QED BY <1>22, <2>5, <2>6 DEF TypeOK, Send
  <1>23. ASSUME NEW c \in Conns, Accept(c) PROVE TypeOK'
    BY <1>23, EmptySeq DEF TypeOK, Accept
  <1>24. ASSUME NEW c \in Conns, Leave(c) PROVE TypeOK'
    BY <1>24, EmptySeq DEF TypeOK, Leave
  <1>25. ASSUME NEW c \in Conns, Ignore(c) PROVE TypeOK'
    BY <1>25, EmptySeq DEF TypeOK, Ignore
  <1>26. ASSUME NEW c \in Conns, Release(c) PROVE TypeOK'
    BY <1>26, EmptySeq DEF TypeOK, Release
  <1>27. ASSUME NEW c \in Conns, Recv(c) PROVE TypeOK'
    <2> DEFINE k == Least(RecvBytes, Len(pipe[c]))
               h == SubSeq(pipe[c], 1, k)
               r == SubSeq(pipe[c], k + 1, Len(pipe[c]))
    <2>1. pipe[c] \in Seq(Bytes) /\ Len(pipe[c]) \in Nat /\ Len(pipe[c]) <= PipeBytes
      BY EmptySeq DEF TypeOK
    <2>2. k \in 0..Len(pipe[c]) /\ k <= RecvBytes
      BY <2>1 DEF Least
    <2>3. hand' = [hand EXCEPT ![c] = h] /\ pipe' = [pipe EXCEPT ![c] = r]
      BY <1>27 DEF Recv
    <2> HIDE DEF k
    <2>4. h \in Seq(Bytes) /\ Len(h) <= RecvBytes
      BY <2>1, <2>2, RestOf
    <2>5. r \in Seq(Bytes) /\ Len(r) <= PipeBytes
      BY <2>1, <2>2, RestOf
    <2> HIDE DEF h, r
    <2>6. /\ hand' \in [Conns -> Seq(Bytes)] /\ \A d \in Conns : Len(hand'[d]) <= RecvBytes
          /\ pipe' \in [Conns -> Seq(Bytes)] /\ \A d \in Conns : Len(pipe'[d]) <= PipeBytes
      BY <2>3, <2>4, <2>5 DEF TypeOK
    <2> QED BY <1>27, <2>6 DEF TypeOK, Recv
  <1>28. ASSUME NEW c \in Conns, Gather(c) PROVE TypeOK'
    <2>1. acc' = acc \o hand[c] /\ acc' \in Seq(Bytes)
      BY <1>28, ConcatProperties DEF TypeOK, Gather
    <2>2. hand' \in [Conns -> Seq(Bytes)] /\ \A d \in Conns : Len(hand'[d]) <= RecvBytes
      BY <1>28, EmptySeq DEF TypeOK, Gather
    <2> QED BY <1>28, <2>1, <2>2 DEF TypeOK, Gather
  <1>29. ASSUME NEW c \in Conns, Split(c) PROVE TypeOK'
    <2>1. acc \in Seq(Bytes) /\ Len(acc) \in Nat /\ Len(acc) >= FrameBytes
      BY <1>29, EmptySeq DEF TypeOK, Split
    <2>2. acc' \in Seq(Bytes)
      BY <1>29, <2>1, RestOf DEF Split, Rest
    <2> DEFINE e == Entry(SubSeq(acc, 1, FrameBytes))
    <2>3. e \in Frames \cup {Torn}
      BY <2>1, EntryOf
    <2>4. ring' = Pushed(ring, e)
      BY <1>29 DEF Split
    <2> HIDE DEF e
    <2>5. ring \in Seq(Frames \cup {Torn}) /\ Len(ring) <= RingCapacity
      BY DEF TypeOK
    <2>6. ring' \in Seq(Frames \cup {Torn}) /\ Len(ring') <= RingCapacity
      BY <2>3, <2>4, <2>5, PushedOf
    <2> QED BY <1>29, <2>2, <2>6 DEF TypeOK, Split
  <1>30. CASE UNCHANGED vars
    BY <1>30 DEF TypeOK, vars
  <1> QED BY <1>1, <1>2, <1>3, <1>4, <1>5, <1>6, <1>7, <1>8, <1>9, <1>10, <1>11, <1>12,
             <1>13, <1>14, <1>15, <1>16, <1>17, <1>18, <1>19, <1>20, <1>21, <1>22,
             <1>23, <1>24, <1>25, <1>26, <1>27, <1>28, <1>29, <1>30
          DEF Next, Stopping, Bounds, Write, Thread

(* Every variable keeps its type, in particular the queue, the socket's     *)
(* buffer and the ring their bounds.                                        *)
THEOREM TypeCorrect == Spec => []TypeOK
  <1> USE LinkAssumption
  <1>1. Init => TypeOK
    BY TypesStart
  <1>2. TypeOK /\ [Next]_vars => TypeOK'
    BY TypesKept
  <1> QED BY <1>1, <1>2, PTL DEF Spec

-----------------------------------------------------------------------------
(* The bytes that have left the pump and not yet entered the ring, if c is  *)
(* the connection in use.                                                   *)
Stream(c) == acc \o (hand[c] \o pipe[c])

Used(c) == conn[c] # "free"
Unused == \A c \in Conns : ~Used(c)

(* What holds in every state, cut or not.                                   *)
Kept ==
    /\ \A c \in Conns : hand[c] # <<>> => conn[c] = "call"
    /\ \A c \in Conns : ~Used(c) => pipe[c] = <<>>
    /\ \A c \in Conns : conn[c] = "split" => lock = c
    /\ lock # None => conn[lock] = "split"
    /\ lock = None => Len(acc) < FrameBytes
    /\ offset # 0 => pump = "send"
    /\ pump = "connect" => sock = None
    /\ main \in {"join", "closed"} => stop
    /\ main = "off" => pump = "off"
    /\ tower = "down" => Unused /\ lock = None /\ acc = <<>> /\ ring = <<>>

(* One connection at a time: the sink's, or the last one of a sink that is  *)
(* gone; a pump about to connect finds none.                                *)
OneConnection ==
    /\ \A c, d \in Conns : Used(c) /\ Used(d) => c = d
    /\ sock # None => \A c \in Conns : Used(c) => c = sock
    /\ pump = "connect" \/ (main \in {"run", "drain"} /\ sock = None) => Unused

(* How much of the pump's frame is at the end of the stream of c.           *)
Written(c) == IF sock = c THEN offset ELSE 0
InStep ==
    /\ Unused => acc = <<>>
    /\ \A c \in Conns : Used(c) =>
          Aligned(Stream(c)) /\ EndsAt(Stream(c), frame, Written(c))

NoneTorn == \A k \in 1..Len(ring) : ring[k] # Torn
Live == tower = "up" /\ ~cut
IInv ==
    /\ TypeOK /\ Kept
    /\ ~cut => NoneTorn /\ Aligned(acc)
    /\ Live => OneConnection /\ InStep

(* Kept holds after every step.                                             *)
LEMMA KeptKept ==
    ASSUME LinkAssumption, TypeOK, Kept, [Next]_vars
    PROVE  Kept'
  <1> USE DEF LinkAssumption,
             station, procVars, feedVars, pumpVars, sinkVars, wireVars, readVars
  <1>0. Len(<<>>) = 0 /\ None \notin Conns
    BY EmptySeq
  <1>1. CASE StationStarts
    BY <1>0, <1>1 DEF TypeOK, Kept, Used, Unused, StationStarts, MayStart, ReadOut
  <1>2. CASE StationEnds
    BY <1>0, <1>2 DEF TypeOK, Kept, Used, Unused, StationEnds
  <1>3. CASE Decode
    BY <1>0, <1>3 DEF TypeOK, Kept, Used, Unused, Decode
  <1>4. CASE Push
    BY <1>0, <1>4 DEF TypeOK, Kept, Used, Unused, Push
  <1>5. CASE PushFails
    BY <1>0, <1>5 DEF TypeOK, Kept, Used, Unused, PushFails
  <1>6. CASE EngineStop
    BY <1>0, <1>6 DEF TypeOK, Kept, Used, Unused, EngineStop
  <1>7. CASE Drained
    BY <1>0, <1>7 DEF TypeOK, Kept, Used, Unused, Drained, BeginJoin
  <1>8. CASE DrainTimesOut
    BY <1>0, <1>8 DEF TypeOK, Kept, Used, Unused, DrainTimesOut, BeginJoin
  <1>9. CASE Close
    BY <1>0, <1>9 DEF TypeOK, Kept, Used, Unused, Close, CloseSink, PumpJoined
  <1>10. CASE JoinTimesOut
    BY <1>0, <1>10 DEF TypeOK, Kept, Used, Unused, JoinTimesOut, CloseSink
  <1>11. CASE Tick
    BY <1>0, <1>11 DEF TypeOK, Kept, Used, Unused, Tick
  <1>12. CASE PumpStops
    BY <1>0, <1>12 DEF TypeOK, Kept, Used, Unused, PumpStops
  <1>13. CASE ConnectFails
    BY <1>0, <1>13 DEF TypeOK, Kept, Used, Unused, ConnectFails
  <1>14. CASE Cool
    BY <1>0, <1>14 DEF TypeOK, Kept, Used, Unused, Cool
  <1>15. CASE SendFails
    BY <1>0, <1>15 DEF TypeOK, Kept, Used, Unused, SendFails, AfterError, Writable
  <1>16. CASE SendTimesOut
    BY <1>0, <1>16 DEF TypeOK, Kept, Used, Unused, SendTimesOut
  <1>17. CASE TowerStarts
    BY <1>0, <1>17 DEF TypeOK, Kept, Used, Unused, TowerStarts
  <1>18. CASE TowerStops
    BY <1>0, <1>18 DEF TypeOK, Kept, Used, Unused, TowerStops
  <1>19. CASE TowerEnds
    BY <1>0, <1>19 DEF TypeOK, Kept, Used, Unused, TowerEnds, NoBytes, AllFree
  <1>20. CASE Pop
    BY <1>0, <1>20 DEF TypeOK, Kept, Used, Unused, Pop
  <1>21. ASSUME NEW c \in Conns, Connect(c) PROVE Kept'
    BY <1>0, <1>21 DEF TypeOK, Kept, Used, Unused, Connect
  <1>22. ASSUME NEW m \in 1..FrameBytes, Send(m) PROVE Kept'
    BY <1>0, <1>22 DEF TypeOK, Kept, Used, Unused, Send, Writable
  <1>23. ASSUME NEW c \in Conns, Accept(c) PROVE Kept'
    BY <1>0, <1>23 DEF TypeOK, Kept, Used, Unused, Accept
  <1>24. ASSUME NEW c \in Conns, Leave(c) PROVE Kept'
    BY <1>0, <1>24 DEF TypeOK, Kept, Used, Unused, Leave, Abandoned, EndOfStream
  <1>25. ASSUME NEW c \in Conns, Ignore(c) PROVE Kept'
    BY <1>0, <1>25 DEF TypeOK, Kept, Used, Unused, Ignore
  <1>26. ASSUME NEW c \in Conns, Release(c) PROVE Kept'
    BY <1>0, <1>26 DEF TypeOK, Kept, Used, Unused, Release
  <1>27. ASSUME NEW c \in Conns, Recv(c) PROVE Kept'
    BY <1>0, <1>27 DEF TypeOK, Kept, Used, Unused, Recv
  <1>28. ASSUME NEW c \in Conns, Gather(c) PROVE Kept'
    BY <1>0, <1>28 DEF TypeOK, Kept, Used, Unused, Gather
  <1>29. ASSUME NEW c \in Conns, Split(c) PROVE Kept'
    BY <1>0, <1>29 DEF TypeOK, Kept, Used, Unused, Split
  <1>30. CASE UNCHANGED vars
    BY <1>30 DEF Kept, Used, Unused, vars
  <1> QED BY <1>1, <1>2, <1>3, <1>4, <1>5, <1>6, <1>7, <1>8, <1>9, <1>10, <1>11, <1>12,
             <1>13, <1>14, <1>15, <1>16, <1>17, <1>18, <1>19, <1>20, <1>21, <1>22,
             <1>23, <1>24, <1>25, <1>26, <1>27, <1>28, <1>29, <1>30
          DEF Next, Stopping, Bounds, Write, Thread

(* A step that leaves Tower's side alone keeps the streams in step if it    *)
(* leaves alone the frame of the connection in use, or none of it has been  *)
(* written.                                                                 *)
LEMMA SameWire ==
    ASSUME InStep, UNCHANGED <<conn, pipe, hand, acc>>,
           \A c \in Conns : Used(c) =>
               \/ frame' = frame /\ Written(c)' = Written(c)
               \/ Written(c) = 0 /\ Written(c)' = 0
    PROVE  InStep'
  <1>1. Unused' => acc' = <<>>
    BY DEF InStep, Unused, Used
  <1>2. ASSUME NEW c \in Conns, Used(c)'
        PROVE  Aligned(Stream(c))' /\ EndsAt(Stream(c), frame, Written(c))'
    <2>1. Stream(c)' = Stream(c) /\ Used(c)
      BY <1>2 DEF Stream, Used
    <2>2. Aligned(Stream(c)) /\ EndsAt(Stream(c), frame, Written(c))
      BY <2>1 DEF InStep
    <2>3. Aligned(Stream(c)')
      BY <2>1, <2>2
    <2>4. CASE frame' = frame /\ Written(c)' = Written(c)
      <3>1. EndsAt(Stream(c)', frame', Written(c)')
        BY <2>1, <2>2, <2>4
      <3> QED BY <2>3, <3>1 DEF Aligned, EndsAt, Whole, Part
    <2>5. CASE Written(c) = 0 /\ Written(c)' = 0
      <3>1. Whole(Stream(c)) /\ Len(Stream(c)) % FrameBytes = 0
        BY <2>2, <2>5 DEF EndsAt
      <3>2. EndsAt(Stream(c)', frame', Written(c)')
        BY <2>1, <2>5, <3>1 DEF EndsAt, Whole
      <3> QED BY <2>3, <3>2 DEF Aligned, EndsAt, Whole, Part
    <2> QED BY <2>1, <2>4, <2>5
  <1> QED BY <1>1, <1>2 DEF InStep

(* A step that moves bytes towards the accumulator over the connection in   *)
(* use, and changes neither its stream nor what uses it.                    *)
LEMMA SameStream ==
    ASSUME NEW c \in Conns, Used(c), OneConnection, InStep,
           \A d \in Conns : Used(d)' <=> Used(d),
           Stream(c)' = Stream(c),
           UNCHANGED <<main, pump, frame, offset, sock>>
    PROVE  OneConnection' /\ InStep'
  <1>2. OneConnection'
    BY DEF OneConnection, Unused
  <1>3. ~Unused'
    BY DEF Unused
  <1>4. ASSUME NEW d \in Conns, Used(d)'
        PROVE  Aligned(Stream(d))' /\ EndsAt(Stream(d), frame, Written(d))'
    <2>1. d = c
      BY <1>4 DEF OneConnection
    <2>2. Aligned(Stream(c)) /\ EndsAt(Stream(c), frame, Written(c))
      BY DEF InStep
    <2>3. Written(c)' = Written(c)
      BY DEF Written
    <2>4. Aligned(Stream(c)') /\ EndsAt(Stream(c)', frame', Written(c)')
      BY <2>2, <2>3
    <2> QED BY <2>1, <2>4 DEF Aligned, EndsAt, Whole, Part
  <1> QED BY <1>2, <1>3, <1>4 DEF InStep

(* Bytes taken from the front of a sequence with another behind it.         *)
LEMMA FrontTaken ==
    ASSUME LinkAssumption, NEW s \in Seq(Bytes), NEW w \in Seq(Bytes), NEW n \in 0..Len(s)
    PROVE  SubSeq(s \o w, n + 1, Len(s \o w)) = SubSeq(s, n + 1, Len(s)) \o w
  <1> DEFINE u == s \o w
             l == SubSeq(u, n + 1, Len(u))
             h == SubSeq(s, n + 1, Len(s))
             r == h \o w
  <1>1. Len(s) \in Nat /\ Len(w) \in Nat
    BY EmptySeq
  <1>2. /\ u \in Seq(Bytes) /\ Len(u) = Len(s) + Len(w)
        /\ \A i \in 1 .. Len(s) + Len(w) : u[i] = IF i <= Len(s) THEN s[i] ELSE w[i - Len(s)]
    BY ConcatProperties
  <1> HIDE DEF u
  <1>3. \A i \in n+1..Len(u) : u[i] \in Bytes
    BY <1>1, <1>2, ElementOfSeq
  <1>4. /\ l \in Seq(Bytes)
        /\ Len(l) = IF n + 1 <= Len(u) THEN Len(u) - (n + 1) + 1 ELSE 0
        /\ \A i \in 1 .. Len(u) - (n + 1) + 1 : l[i] = u[(n + 1) + i - 1]
    BY <1>1, <1>2, <1>3, SubSeqProperties
  <1>5. \A i \in n+1..Len(s) : s[i] \in Bytes
    BY <1>1, ElementOfSeq
  <1>6. /\ h \in Seq(Bytes)
        /\ Len(h) = IF n + 1 <= Len(s) THEN Len(s) - (n + 1) + 1 ELSE 0
        /\ \A i \in 1 .. Len(s) - (n + 1) + 1 : h[i] = s[(n + 1) + i - 1]
    BY <1>1, <1>5, SubSeqProperties
  <1> HIDE DEF h, l
  <1>7. /\ r \in Seq(Bytes) /\ Len(r) = Len(h) + Len(w)
        /\ \A i \in 1 .. Len(h) + Len(w) : r[i] = IF i <= Len(h) THEN h[i] ELSE w[i - Len(h)]
    BY <1>6, ConcatProperties
  <1> HIDE DEF r
  <1>8. Len(h) = Len(s) - n /\ Len(l) = Len(u) - n /\ Len(r) = Len(l)
    BY <1>1, <1>2, <1>4, <1>6, <1>7
  <1>9. ASSUME NEW i \in 1..Len(l)
        PROVE  l[i] = r[i]
    <2>1. l[i] = u[n + i] /\ n + i \in 1..Len(s)+Len(w)
      <3>1. (n + 1) + i - 1 = n + i /\ i \in 1 .. Len(u) - (n + 1) + 1
        BY <1>1, <1>2, <1>8
      <3> QED BY <1>1, <1>2, <1>4, <1>8, <3>1
    <2>2. CASE i <= Len(h)
      <3>1. n + i <= Len(s) /\ (n + 1) + i - 1 = n + i /\ i \in 1 .. Len(s) - (n + 1) + 1
        BY <1>1, <1>8, <2>2
      <3>2. h[i] = s[n + i] /\ u[n + i] = s[n + i]
        BY <1>2, <1>6, <2>1, <3>1
      <3>3. r[i] = h[i]
        BY <1>1, <1>2, <1>7, <1>8, <2>2
      <3> QED BY <2>1, <3>2, <3>3
    <2>3. CASE i > Len(h)
      <3>1. ~(n + i <= Len(s)) /\ (n + i) - Len(s) = i - Len(h)
        BY <1>1, <1>8, <2>3
      <3>2. u[n + i] = w[i - Len(h)]
        BY <1>2, <2>1, <3>1
      <3>3. r[i] = w[i - Len(h)]
        BY <1>1, <1>2, <1>7, <1>8, <2>3
      <3> QED BY <2>1, <3>2, <3>3
    <2> QED BY <1>1, <1>8, <2>2, <2>3
  <1>10. l = r
    BY <1>4, <1>7, <1>8, <1>9, SeqEqual
  <1> QED BY <1>10 DEF l, r, h, u

(* What the steps that move bytes do to the stream of a connection: a send  *)
(* adds to it, reading and gathering leave it as it is, a split takes its   *)
(* first frame.                                                             *)
LEMMA SendStream ==
    ASSUME LinkAssumption, TypeOK, NEW m \in 1..FrameBytes, Send(m)
    PROVE  /\ Stream(sock) \in Seq(Bytes)
           /\ Stream(sock)' = Stream(sock) \o SubSeq(FrameOf(frame), offset + 1, offset + m)
  <1> DEFINE p == SubSeq(FrameOf(frame), offset + 1, offset + m)
             w == hand[sock] \o pipe[sock]
  <1>1. sock \in Conns /\ frame \in Frames /\ offset \in 0..FrameBytes-1 /\ m \in 1..FrameBytes-offset
    BY DEF TypeOK, Send, Writable, LinkAssumption
  <1>2. p \in Seq(Bytes)
    BY <1>1, Piece
  <1>3. acc \in Seq(Bytes) /\ hand[sock] \in Seq(Bytes) /\ pipe[sock] \in Seq(Bytes)
    BY <1>1 DEF TypeOK
  <1>4. pipe'[sock] = pipe[sock] \o p /\ UNCHANGED <<sock, hand, acc>>
    BY <1>1 DEF TypeOK, Send, readVars
  <1> HIDE DEF p
  <1>5. w \in Seq(Bytes) /\ hand[sock] \o (pipe[sock] \o p) = w \o p
    BY <1>2, <1>3, Assoc, ConcatProperties
  <1> HIDE DEF w
  <1>6. acc \o w \in Seq(Bytes) /\ acc \o (w \o p) = (acc \o w) \o p
    BY <1>2, <1>3, <1>5, Assoc, ConcatProperties
  <1> QED BY <1>4, <1>5, <1>6 DEF Stream, w, p

LEMMA RecvStream ==
    ASSUME LinkAssumption, TypeOK, Kept, NEW c \in Conns, Recv(c)
    PROVE  Stream(c)' = Stream(c)
  <1> USE DEF LinkAssumption
  <1> DEFINE k == Least(RecvBytes, Len(pipe[c]))
  <1>1. pipe[c] \in Seq(Bytes) /\ Len(pipe[c]) \in Nat /\ hand[c] = <<>>
    BY EmptySeq DEF TypeOK, Kept, Recv
  <1>2. k \in 0..Len(pipe[c])
    BY <1>1 DEF Least
  <1>3. /\ hand'[c] = SubSeq(pipe[c], 1, k)
        /\ pipe'[c] = SubSeq(pipe[c], k + 1, Len(pipe[c]))
        /\ acc' = acc
    BY DEF Recv, TypeOK
  <1> HIDE DEF k
  <1>4. SubSeq(pipe[c], 1, k) \o SubSeq(pipe[c], k + 1, Len(pipe[c]))
        = SubSeq(pipe[c], 1, Len(pipe[c]))
    <2>1. 1 \in 1..Len(pipe[c])+1 /\ k \in 1-1..Len(pipe[c]) /\ Len(pipe[c]) \in k..Len(pipe[c])
      BY <1>1, <1>2
    <2> QED BY <1>1, <2>1, ConcatAdjacentSubSeq
  <1>5. SubSeq(pipe[c], 1, Len(pipe[c])) = pipe[c]
    BY <1>1, SubSeqFull
  <1>6. hand[c] \o pipe[c] = pipe[c]
    BY <1>1, ConcatEmptySeq
  <1> QED BY <1>3, <1>4, <1>5, <1>6 DEF Stream

LEMMA GatherStream ==
    ASSUME LinkAssumption, TypeOK, NEW c \in Conns, Gather(c)
    PROVE  Stream(c)' = Stream(c)
  <1>1. acc \in Seq(Bytes) /\ hand[c] \in Seq(Bytes) /\ pipe[c] \in Seq(Bytes)
    BY DEF TypeOK
  <1>2. acc' = acc \o hand[c] /\ hand'[c] = <<>> /\ pipe'[c] = pipe[c]
    BY DEF Gather, TypeOK
  <1>3. <<>> \o pipe[c] = pipe[c]
    BY <1>1, ConcatEmptySeq
  <1>4. (acc \o hand[c]) \o pipe[c] = acc \o (hand[c] \o pipe[c])
    BY <1>1, Assoc
  <1> QED BY <1>2, <1>3, <1>4 DEF Stream

LEMMA SplitStream ==
    ASSUME LinkAssumption, TypeOK, NEW c \in Conns, Split(c)
    PROVE  /\ Stream(c) \in Seq(Bytes) /\ Len(Stream(c)) >= FrameBytes
           /\ Stream(c)' = SubSeq(Stream(c), FrameBytes + 1, Len(Stream(c)))
           /\ Stream(c)[1] = acc[1]
  <1> USE DEF LinkAssumption
  <1> DEFINE w == hand[c] \o pipe[c]
  <1>1. acc \in Seq(Bytes) /\ w \in Seq(Bytes)
    BY ConcatProperties DEF TypeOK
  <1>2. Len(acc) \in Nat /\ Len(acc) >= FrameBytes /\ FrameBytes \in 0..Len(acc)
    BY <1>1, EmptySeq DEF Split
  <1>3. acc' = SubSeq(acc, FrameBytes + 1, Len(acc)) /\ UNCHANGED <<hand, pipe>>
    BY DEF Split, Rest, wireVars
  <1> HIDE DEF w
  <1>4. SubSeq(acc \o w, FrameBytes + 1, Len(acc \o w)) = acc' \o w
    BY <1>1, <1>2, <1>3, FrontTaken
  <1>5. /\ acc \o w \in Seq(Bytes) /\ Len(acc \o w) = Len(acc) + Len(w) /\ Len(w) \in Nat
        /\ \A i \in 1 .. Len(acc) + Len(w) : (acc \o w)[i] = IF i <= Len(acc) THEN acc[i] ELSE w[i - Len(acc)]
    BY <1>1, ConcatProperties, EmptySeq
  <1>6. Len(acc \o w) >= FrameBytes /\ (acc \o w)[1] = acc[1]
    BY <1>2, <1>5
  <1> QED BY <1>3, <1>4, <1>5, <1>6 DEF Stream, w

(* A frame cut out of an aligned accumulator is whole, and leaves it        *)
(* aligned.                                                                 *)
LEMMA SplitWhole ==
    ASSUME LinkAssumption, TypeOK, NoneTorn, Aligned(acc), NEW c \in Conns, Split(c)
    PROVE  NoneTorn' /\ Aligned(acc)'
  <1>1. acc \in Seq(Bytes) /\ Len(acc) >= FrameBytes
    BY DEF TypeOK, Split
  <1>2. /\ acc' = SubSeq(acc, FrameBytes + 1, Len(acc))
        /\ ring' = Pushed(ring, Entry(SubSeq(acc, 1, FrameBytes)))
    BY DEF Split, Rest
  <1>3. Aligned(acc')
    BY <1>1, <1>2, WithoutFirst
  <1> DEFINE e == acc[1][1]
  <1>4. SubSeq(acc, 1, FrameBytes) = FrameOf(e) /\ e \in Frames
    BY <1>1, FirstFrame
  <1>5. Entry(SubSeq(acc, 1, FrameBytes)) = e
    <2> HIDE DEF e
    <2>1. FrameOf(e)[1] = <<e, 1>>
      BY DEF FrameOf, LinkAssumption
    <2>2. FrameOf(e)[1][1] = e
      BY <2>1
    <2> QED BY <1>4, <2>2 DEF Entry
  <1> HIDE DEF e
  <1> DEFINE R == Frames \cup {Torn}
  <1>6. e \in R /\ e # Torn
    BY <1>4 DEF Frames, Torn, LinkAssumption
  <1>7. ring \in Seq(R) /\ Len(ring) <= RingCapacity
    BY DEF TypeOK
  <1> HIDE DEF R
  <1>8. \A k \in 1..Len(Pushed(ring, e)) :
           Pushed(ring, e)[k] = e \/ \E i \in 1..Len(ring) : Pushed(ring, e)[k] = ring[i]
    BY <1>6, <1>7, PushedOf
  <1>9. ring' = Pushed(ring, e)
    BY <1>2, <1>5
  <1>10. NoneTorn'
    BY <1>6, <1>8, <1>9 DEF NoneTorn
  <1> QED BY <1>3, <1>10 DEF Aligned

(* While nothing is cut the ring holds whole frames and the accumulator     *)
(* begins with one, also in a Tower that is stopping.                       *)
LEMMA UncutKept ==
    ASSUME LinkAssumption, IInv, Next, ~cut'
    PROVE  NoneTorn' /\ Aligned(acc)'
  <1> USE DEF LinkAssumption,
             station, procVars, feedVars, pumpVars, sinkVars, wireVars, readVars
  <1>0. /\ TypeOK /\ Kept
        /\ ~cut => NoneTorn /\ Aligned(acc)
    BY DEF IInv
  <1>empty. acc' = <<>> /\ ring' = <<>> => NoneTorn' /\ Aligned(acc)'
    BY EmptySeq DEF NoneTorn, Aligned
  <1>1. CASE StationStarts
    BY <1>0, <1>1 DEF NoneTorn, Aligned, StationStarts
  <1>2. CASE StationEnds
    BY <1>0, <1>2 DEF NoneTorn, Aligned, StationEnds
  <1>3. CASE Decode
    BY <1>0, <1>3 DEF NoneTorn, Aligned, Decode
  <1>4. CASE Push
    BY <1>0, <1>4 DEF NoneTorn, Aligned, Push
  <1>5. CASE PushFails
    BY <1>0, <1>5 DEF NoneTorn, Aligned, PushFails
  <1>6. CASE EngineStop
    BY <1>0, <1>6 DEF NoneTorn, Aligned, EngineStop
  <1>7. CASE Drained
    BY <1>0, <1>7 DEF NoneTorn, Aligned, Drained, BeginJoin
  <1>8. CASE DrainTimesOut
    BY <1>0, <1>8 DEF NoneTorn, Aligned, DrainTimesOut, BeginJoin
  <1>9. CASE Close
    BY <1>0, <1>9 DEF NoneTorn, Aligned, Close, CloseSink
  <1>10. CASE JoinTimesOut
    BY <1>0, <1>10 DEF NoneTorn, Aligned, JoinTimesOut, CloseSink
  <1>11. CASE Tick
    BY <1>0, <1>11 DEF NoneTorn, Aligned, Tick
  <1>12. CASE PumpStops
    BY <1>0, <1>12 DEF NoneTorn, Aligned, PumpStops
  <1>13. CASE ConnectFails
    BY <1>0, <1>13 DEF NoneTorn, Aligned, ConnectFails
  <1>14. CASE Cool
    BY <1>0, <1>14 DEF NoneTorn, Aligned, Cool
  <1>15. CASE SendFails
    BY <1>0, <1>15 DEF NoneTorn, Aligned, SendFails
  <1>16. CASE SendTimesOut
    BY <1>0, <1>16 DEF NoneTorn, Aligned, SendTimesOut
  <1>17. CASE TowerStops
    BY <1>0, <1>17 DEF NoneTorn, Aligned, TowerStops
  <1>18. ASSUME NEW c \in Conns, Accept(c) PROVE NoneTorn' /\ Aligned(acc)'
    BY <1>0, <1>18 DEF NoneTorn, Aligned, Accept
  <1>19. ASSUME NEW c \in Conns, Release(c) PROVE NoneTorn' /\ Aligned(acc)'
    BY <1>0, <1>19 DEF NoneTorn, Aligned, Release
  <1>20. ASSUME NEW c \in Conns, Recv(c) PROVE NoneTorn' /\ Aligned(acc)'
    BY <1>0, <1>20 DEF NoneTorn, Aligned, Recv
  <1>21. ASSUME NEW c \in Conns, Ignore(c) PROVE NoneTorn' /\ Aligned(acc)'
    BY <1>0, <1>21 DEF NoneTorn, Aligned, Ignore
  <1>22. ASSUME NEW c \in Conns, Leave(c) PROVE NoneTorn' /\ Aligned(acc)'
    BY <1>0, <1>22 DEF NoneTorn, Aligned, Leave
  <1>23. ASSUME NEW c \in Conns, Connect(c) PROVE NoneTorn' /\ Aligned(acc)'
    BY <1>0, <1>23 DEF NoneTorn, Aligned, Connect
  <1>24. ASSUME NEW m \in 1..FrameBytes, Send(m) PROVE NoneTorn' /\ Aligned(acc)'
    BY <1>0, <1>24 DEF NoneTorn, Aligned, Send
  <1>25. CASE TowerStarts
    BY <1>0, <1>empty, <1>25 DEF Kept, TowerStarts, readVars
  <1>26. CASE TowerEnds
    BY <1>empty, <1>26 DEF TowerEnds
  <1>27. CASE Pop
    <2>1. NoneTorn /\ Aligned(acc) /\ acc' = acc
      BY <1>0, <1>27 DEF Pop, readVars
    <2>2. ring \in Seq(Frames \cup {Torn}) /\ ring # <<>> /\ ring' = Tail(ring) /\ Len(ring) \in Nat
      BY <1>27, <1>0, EmptySeq DEF TypeOK, Pop
    <2>3. Len(Tail(ring)) = Len(ring) - 1 /\ \A i \in 1..Len(Tail(ring)) : Tail(ring)[i] = ring[i+1]
      BY <2>2, HeadTailProperties
    <2>4. NoneTorn'
      BY <2>1, <2>2, <2>3 DEF NoneTorn
    <2> QED BY <2>1, <2>4 DEF Aligned
  <1>28. ASSUME NEW c \in Conns, Gather(c) PROVE NoneTorn' /\ Aligned(acc)'
    <2>1. Live /\ InStep /\ NoneTorn /\ ring' = ring /\ Used(c)
      BY <1>0, <1>28 DEF IInv, Live, Gather, Used
    <2>2. acc \in Seq(Bytes) /\ hand[c] \in Seq(Bytes) /\ pipe[c] \in Seq(Bytes)
      BY <1>0 DEF TypeOK
    <2>3. acc' = acc \o hand[c] /\ acc' \in Seq(Bytes)
      BY <1>28, <2>2, ConcatProperties DEF Gather
    <2>4. (acc \o hand[c]) \o pipe[c] = acc \o (hand[c] \o pipe[c])
      BY <2>2, Assoc
    <2>5. Aligned(acc' \o pipe[c])
      BY <2>1, <2>3, <2>4 DEF InStep, Stream
    <2>6. Aligned(acc')
      BY <2>2, <2>3, <2>5, Prefix
    <2> QED BY <2>1, <2>6 DEF NoneTorn, Aligned
  <1>29. ASSUME NEW c \in Conns, Split(c) PROVE NoneTorn' /\ Aligned(acc)'
    <2>1. NoneTorn /\ Aligned(acc)
      BY <1>0, <1>29 DEF Split
    <2> QED BY <1>0, <1>29, <2>1, SplitWhole
  <1> QED BY <1>1, <1>2, <1>3, <1>4, <1>5, <1>6, <1>7, <1>8, <1>9, <1>10, <1>11, <1>12,
             <1>13, <1>14, <1>15, <1>16, <1>17, <1>18, <1>19, <1>20, <1>21, <1>22,
             <1>23, <1>24, <1>25, <1>26, <1>27, <1>28, <1>29
          DEF Next, Stopping, Bounds, Write, Thread

(* The streams stay in step while Tower is up and nothing is cut.           *)
LEMMA LiveKept ==
    ASSUME LinkAssumption, IInv, TypeOK', Next, Live'
    PROVE  OneConnection' /\ InStep'
  <1> USE DEF LinkAssumption,
             station, procVars, feedVars, pumpVars, sinkVars, wireVars, readVars
  <1>1. CASE StationStarts
    <2>1. Live /\ OneConnection /\ InStep /\ Kept /\ TypeOK
      BY <1>1 DEF IInv, Live, StationStarts, MayStart, ReadOut
    <2>2. UNCHANGED <<conn, pipe, hand, acc>>
      BY <1>1 DEF StationStarts, MayStart, ReadOut
    <2>3. OneConnection'
      BY <1>1, <2>1 DEF Live, OneConnection, Kept, TypeOK, Unused, Used, StationStarts,
         MayStart, ReadOut
    <2>4. \A c \in Conns : Used(c) =>
               \/ frame' = frame /\ Written(c)' = Written(c)
               \/ Written(c) = 0 /\ Written(c)' = 0
      BY <1>1, <2>1 DEF Live, OneConnection, Kept, TypeOK, Used, Unused, Written,
         StationStarts, MayStart, ReadOut
    <2> QED BY <2>1, <2>2, <2>3, <2>4, SameWire
  <1>2. CASE StationEnds
    <2>1. Live /\ OneConnection /\ InStep /\ Kept /\ TypeOK
      BY <1>2 DEF IInv, Live, StationEnds
    <2>2. UNCHANGED <<conn, pipe, hand, acc>>
      BY <1>2 DEF StationEnds
    <2>3. OneConnection'
      BY <1>2, <2>1 DEF Live, OneConnection, Kept, TypeOK, Unused, Used, StationEnds
    <2>4. \A c \in Conns : Used(c) =>
               \/ frame' = frame /\ Written(c)' = Written(c)
               \/ Written(c) = 0 /\ Written(c)' = 0
      <3>1. ~(offset > 0)
        BY <1>2, Zenon DEF Live, StationEnds
      <3>2. offset = 0
        BY <2>1, <3>1 DEF TypeOK
      <3> QED BY <1>2, <2>1, <3>2 DEF Live, OneConnection, Kept, TypeOK, Used, Unused,
                 Written, StationEnds
    <2> QED BY <2>1, <2>2, <2>3, <2>4, SameWire
  <1>3. CASE Decode
    <2>1. Live /\ OneConnection /\ InStep /\ Kept /\ TypeOK
      BY <1>3 DEF IInv, Live, Decode
    <2>2. UNCHANGED <<conn, pipe, hand, acc>>
      BY <1>3 DEF Decode
    <2>3. OneConnection'
      BY <1>3, <2>1 DEF Live, OneConnection, Kept, TypeOK, Unused, Used, Decode
    <2>4. \A c \in Conns : Used(c) =>
               \/ frame' = frame /\ Written(c)' = Written(c)
               \/ Written(c) = 0 /\ Written(c)' = 0
      BY <1>3, <2>1 DEF Live, OneConnection, Kept, TypeOK, Used, Unused, Written, Decode
    <2> QED BY <2>1, <2>2, <2>3, <2>4, SameWire
  <1>4. CASE Push
    <2>1. Live /\ OneConnection /\ InStep /\ Kept /\ TypeOK
      BY <1>4 DEF IInv, Live, Push
    <2>2. UNCHANGED <<conn, pipe, hand, acc>>
      BY <1>4 DEF Push
    <2>3. OneConnection'
      BY <1>4, <2>1 DEF Live, OneConnection, Kept, TypeOK, Unused, Used, Push
    <2>4. \A c \in Conns : Used(c) =>
               \/ frame' = frame /\ Written(c)' = Written(c)
               \/ Written(c) = 0 /\ Written(c)' = 0
      BY <1>4, <2>1 DEF Live, OneConnection, Kept, TypeOK, Used, Unused, Written, Push
    <2> QED BY <2>1, <2>2, <2>3, <2>4, SameWire
  <1>5. CASE PushFails
    <2>1. Live /\ OneConnection /\ InStep /\ Kept /\ TypeOK
      BY <1>5 DEF IInv, Live, PushFails
    <2>2. UNCHANGED <<conn, pipe, hand, acc>>
      BY <1>5 DEF PushFails
    <2>3. OneConnection'
      BY <1>5, <2>1 DEF Live, OneConnection, Kept, TypeOK, Unused, Used, PushFails
    <2>4. \A c \in Conns : Used(c) =>
               \/ frame' = frame /\ Written(c)' = Written(c)
               \/ Written(c) = 0 /\ Written(c)' = 0
      BY <1>5, <2>1 DEF Live, OneConnection, Kept, TypeOK, Used, Unused, Written,
         PushFails
    <2> QED BY <2>1, <2>2, <2>3, <2>4, SameWire
  <1>6. CASE EngineStop
    <2>1. Live /\ OneConnection /\ InStep /\ Kept /\ TypeOK
      BY <1>6 DEF IInv, Live, EngineStop
    <2>2. UNCHANGED <<conn, pipe, hand, acc>>
      BY <1>6 DEF EngineStop
    <2>3. OneConnection'
      BY <1>6, <2>1 DEF Live, OneConnection, Kept, TypeOK, Unused, Used, EngineStop
    <2>4. \A c \in Conns : Used(c) =>
               \/ frame' = frame /\ Written(c)' = Written(c)
               \/ Written(c) = 0 /\ Written(c)' = 0
      BY <1>6, <2>1 DEF Live, OneConnection, Kept, TypeOK, Used, Unused, Written,
         EngineStop
    <2> QED BY <2>1, <2>2, <2>3, <2>4, SameWire
  <1>7. CASE Drained
    <2>1. Live /\ OneConnection /\ InStep /\ Kept /\ TypeOK
      BY <1>7 DEF IInv, Live, Drained, BeginJoin
    <2>2. UNCHANGED <<conn, pipe, hand, acc>>
      BY <1>7 DEF Drained, BeginJoin
    <2>3. OneConnection'
      BY <1>7, <2>1 DEF Live, OneConnection, Kept, TypeOK, Unused, Used, Drained,
         BeginJoin
    <2>4. \A c \in Conns : Used(c) =>
               \/ frame' = frame /\ Written(c)' = Written(c)
               \/ Written(c) = 0 /\ Written(c)' = 0
      BY <1>7, <2>1 DEF Live, OneConnection, Kept, TypeOK, Used, Unused, Written,
         Drained, BeginJoin
    <2> QED BY <2>1, <2>2, <2>3, <2>4, SameWire
  <1>8. CASE DrainTimesOut
    <2>1. Live /\ OneConnection /\ InStep /\ Kept /\ TypeOK
      BY <1>8 DEF IInv, Live, DrainTimesOut, BeginJoin
    <2>2. UNCHANGED <<conn, pipe, hand, acc>>
      BY <1>8 DEF DrainTimesOut, BeginJoin
    <2>3. OneConnection'
      BY <1>8, <2>1 DEF Live, OneConnection, Kept, TypeOK, Unused, Used, DrainTimesOut,
         BeginJoin
    <2>4. \A c \in Conns : Used(c) =>
               \/ frame' = frame /\ Written(c)' = Written(c)
               \/ Written(c) = 0 /\ Written(c)' = 0
      BY <1>8, <2>1 DEF Live, OneConnection, Kept, TypeOK, Used, Unused, Written,
         DrainTimesOut, BeginJoin
    <2> QED BY <2>1, <2>2, <2>3, <2>4, SameWire
  <1>9. CASE Close
    <2>1. Live /\ OneConnection /\ InStep /\ Kept /\ TypeOK
      BY <1>9 DEF IInv, Live, Close, CloseSink, PumpJoined
    <2>2. UNCHANGED <<conn, pipe, hand, acc>>
      BY <1>9 DEF Close, CloseSink, PumpJoined
    <2>3. OneConnection'
      BY <1>9, <2>1 DEF Live, OneConnection, Kept, TypeOK, Unused, Used, Close,
         CloseSink, PumpJoined
    <2>4. \A c \in Conns : Used(c) =>
               \/ frame' = frame /\ Written(c)' = Written(c)
               \/ Written(c) = 0 /\ Written(c)' = 0
      BY <1>9, <2>1 DEF Live, OneConnection, Kept, TypeOK, Used, Unused, Written,
         Close, CloseSink, PumpJoined
    <2> QED BY <2>1, <2>2, <2>3, <2>4, SameWire
  <1>10. CASE JoinTimesOut
    <2>1. Live /\ OneConnection /\ InStep /\ Kept /\ TypeOK
      BY <1>10 DEF IInv, Live, JoinTimesOut, CloseSink
    <2>2. UNCHANGED <<conn, pipe, hand, acc>>
      BY <1>10 DEF JoinTimesOut, CloseSink
    <2>3. OneConnection'
      BY <1>10, <2>1 DEF Live, OneConnection, Kept, TypeOK, Unused, Used, JoinTimesOut,
         CloseSink
    <2>4. \A c \in Conns : Used(c) =>
               \/ frame' = frame /\ Written(c)' = Written(c)
               \/ Written(c) = 0 /\ Written(c)' = 0
      <3>1. ~(offset > 0)
        BY <1>10, Zenon DEF Live, JoinTimesOut
      <3>2. offset = 0
        BY <2>1, <3>1 DEF TypeOK
      <3> QED BY <1>10, <2>1, <3>2 DEF Live, OneConnection, Kept, TypeOK, Used, Unused,
                 Written, JoinTimesOut, CloseSink
    <2> QED BY <2>1, <2>2, <2>3, <2>4, SameWire
  <1>11. CASE Tick
    <2>1. Live /\ OneConnection /\ InStep /\ Kept /\ TypeOK
      BY <1>11 DEF IInv, Live, Tick
    <2>2. UNCHANGED <<conn, pipe, hand, acc>>
      BY <1>11 DEF Tick
    <2>3. OneConnection'
      BY <1>11, <2>1 DEF Live, OneConnection, Kept, TypeOK, Unused, Used, Tick
    <2>4. \A c \in Conns : Used(c) =>
               \/ frame' = frame /\ Written(c)' = Written(c)
               \/ Written(c) = 0 /\ Written(c)' = 0
      BY <1>11, <2>1 DEF Live, OneConnection, Kept, TypeOK, Used, Unused, Written, Tick
    <2> QED BY <2>1, <2>2, <2>3, <2>4, SameWire
  <1>12. CASE PumpStops
    <2>1. Live /\ OneConnection /\ InStep /\ Kept /\ TypeOK
      BY <1>12 DEF IInv, Live, PumpStops
    <2>2. UNCHANGED <<conn, pipe, hand, acc>>
      BY <1>12 DEF PumpStops
    <2>3. OneConnection'
      BY <1>12, <2>1 DEF Live, OneConnection, Kept, TypeOK, Unused, Used, PumpStops
    <2>4. \A c \in Conns : Used(c) =>
               \/ frame' = frame /\ Written(c)' = Written(c)
               \/ Written(c) = 0 /\ Written(c)' = 0
      BY <1>12, <2>1 DEF Live, OneConnection, Kept, TypeOK, Used, Unused, Written,
         PumpStops
    <2> QED BY <2>1, <2>2, <2>3, <2>4, SameWire
  <1>13. CASE ConnectFails
    <2>1. Live /\ OneConnection /\ InStep /\ Kept /\ TypeOK
      BY <1>13 DEF IInv, Live, ConnectFails
    <2>2. UNCHANGED <<conn, pipe, hand, acc>>
      BY <1>13 DEF ConnectFails
    <2>3. OneConnection'
      BY <1>13, <2>1 DEF Live, OneConnection, Kept, TypeOK, Unused, Used, ConnectFails
    <2>4. \A c \in Conns : Used(c) =>
               \/ frame' = frame /\ Written(c)' = Written(c)
               \/ Written(c) = 0 /\ Written(c)' = 0
      BY <1>13, <2>1 DEF Live, OneConnection, Kept, TypeOK, Used, Unused, Written,
         ConnectFails
    <2> QED BY <2>1, <2>2, <2>3, <2>4, SameWire
  <1>14. CASE Cool
    <2>1. Live /\ OneConnection /\ InStep /\ Kept /\ TypeOK
      BY <1>14 DEF IInv, Live, Cool
    <2>2. UNCHANGED <<conn, pipe, hand, acc>>
      BY <1>14 DEF Cool
    <2>3. OneConnection'
      BY <1>14, <2>1 DEF Live, OneConnection, Kept, TypeOK, Unused, Used, Cool
    <2>4. \A c \in Conns : Used(c) =>
               \/ frame' = frame /\ Written(c)' = Written(c)
               \/ Written(c) = 0 /\ Written(c)' = 0
      BY <1>14, <2>1 DEF Live, OneConnection, Kept, TypeOK, Used, Unused, Written, Cool
    <2> QED BY <2>1, <2>2, <2>3, <2>4, SameWire
  <1>15. CASE SendFails
    <2>1. Live /\ OneConnection /\ InStep /\ Kept /\ TypeOK
      BY <1>15 DEF IInv, Live, SendFails, AfterError, Writable
    <2>2. UNCHANGED <<conn, pipe, hand, acc>>
      BY <1>15 DEF SendFails, AfterError, Writable
    <2>3. OneConnection'
      BY <1>15, <2>1 DEF Live, OneConnection, Kept, TypeOK, Unused, Used, SendFails,
         AfterError, Writable
    <2>4. \A c \in Conns : Used(c) =>
               \/ frame' = frame /\ Written(c)' = Written(c)
               \/ Written(c) = 0 /\ Written(c)' = 0
      BY <1>15, <2>1 DEF Live, OneConnection, Kept, TypeOK, Used, Unused, Written,
         SendFails, AfterError, Writable
    <2> QED BY <2>1, <2>2, <2>3, <2>4, SameWire
  <1>16. CASE SendTimesOut
    <2>1. Live /\ OneConnection /\ InStep /\ Kept /\ TypeOK
      BY <1>16 DEF IInv, Live, SendTimesOut, Writable
    <2>2. UNCHANGED <<conn, pipe, hand, acc>>
      BY <1>16 DEF SendTimesOut, Writable
    <2>3. OneConnection'
      BY <1>16, <2>1 DEF Live, OneConnection, Kept, TypeOK, Unused, Used, SendTimesOut,
         Writable
    <2>4. \A c \in Conns : Used(c) =>
               \/ frame' = frame /\ Written(c)' = Written(c)
               \/ Written(c) = 0 /\ Written(c)' = 0
      <3>1. ~(offset > 0)
        BY <1>16, Zenon DEF Live, SendTimesOut
      <3>2. offset = 0
        BY <2>1, <3>1 DEF TypeOK
      <3> QED BY <1>16, <2>1, <3>2 DEF Live, OneConnection, Kept, TypeOK, Used, Unused,
                 Written, SendTimesOut, Writable
    <2> QED BY <2>1, <2>2, <2>3, <2>4, SameWire
  <1>17. CASE TowerStarts
    <2>1. Unused' /\ acc' = <<>>
      BY <1>17 DEF IInv, Kept, Unused, Used, TowerStarts
    <2> QED BY <2>1 DEF OneConnection, InStep, Unused
  <1>18. CASE TowerStops
    BY <1>18 DEF Live, TowerStops
  <1>19. CASE TowerEnds
    BY <1>19 DEF Live, TowerEnds
  <1>20. CASE Pop
    <2>1. Live /\ OneConnection /\ InStep /\ TypeOK
      BY <1>20 DEF IInv, Live, Pop
    <2>5. UNCHANGED <<main, pump, frame, offset, sock, conn, pipe, hand, acc>>
      BY <1>20 DEF Pop
    <2>6. OneConnection'
      BY <2>1, <2>5 DEF OneConnection, Used, Unused
    <2>7. \A c \in Conns : frame' = frame /\ Written(c)' = Written(c)
      BY <2>5 DEF Written
    <2>8. InStep'
      BY <2>1, <2>5, <2>7, SameWire
    <2> QED BY <2>6, <2>8
  <1>21. ASSUME NEW c \in Conns, Connect(c)
         PROVE  OneConnection' /\ InStep'
    <2>1. Live /\ OneConnection /\ InStep /\ Kept /\ TypeOK
      BY <1>21 DEF IInv, Live, Connect
    <2>2. Unused /\ acc = <<>> /\ offset = 0
      BY <1>21, <2>1 DEF Connect, OneConnection, InStep, Kept
    <2>3. /\ sock' = c /\ pump' = "send" /\ offset' = 0
          /\ conn' = [conn EXCEPT ![c] = "waiting"]
          /\ acc' = <<>> /\ hand'[c] = <<>> /\ pipe'[c] = <<>>
      BY <1>21, <2>1, <2>2 DEF Connect, Kept, Unused, Used
    <2>4. Used(c)' /\ \A d \in Conns : Used(d)' => d = c
      BY <2>1, <2>2, <2>3 DEF Used, Unused, TypeOK
    <2>5. OneConnection'
      BY <2>3, <2>4 DEF OneConnection, Unused
    <2>6. Stream(c)' = <<>>
      BY <2>3, EmptySeq, ConcatEmptySeq DEF Stream
    <2>7. Aligned(<<>>) /\ EndsAt(<<>>, frame', 0)
      BY EmptySeq DEF Aligned, EndsAt, Whole
    <2>8. Aligned(Stream(c)') /\ EndsAt(Stream(c)', frame', Written(c)')
      BY <2>3, <2>6, <2>7 DEF Written
    <2>9. Aligned(Stream(c))' /\ EndsAt(Stream(c), frame, Written(c))'
      BY <2>8 DEF Aligned, EndsAt, Whole, Part
    <2>10. InStep'
      BY <2>4, <2>9 DEF InStep, Unused
    <2> QED BY <2>5, <2>10
  <1>22. ASSUME NEW m \in 1..FrameBytes, Send(m)
         PROVE  OneConnection' /\ InStep'
    <2>1. Live /\ OneConnection /\ InStep /\ Kept /\ TypeOK
      BY <1>22 DEF IInv, Live, Send
    <2> DEFINE p == SubSeq(FrameOf(frame), offset + 1, offset + m)
               s == Stream(sock)
    <2>2. /\ sock \in Conns /\ Used(sock) /\ frame \in Frames
          /\ offset \in 0..FrameBytes-1 /\ m \in 1..FrameBytes-offset
      BY <1>22, <2>1 DEF TypeOK, Send, Writable, Used
    <2>3. UNCHANGED <<main, sock, conn>> /\ pump' \in {"send", "top"}
      BY <1>22 DEF Send
    <2>4. /\ offset + m < FrameBytes => offset' = offset + m /\ frame' = frame
          /\ offset + m = FrameBytes => offset' = 0 /\ frame' = 0
      BY <1>22, <2>2 DEF Send
    <2> HIDE DEF p
    <2>5. Stream(sock)' = s \o p /\ s \in Seq(Bytes)
      BY <1>22, <2>1, SendStream DEF p
    <2>6. Aligned(s) /\ EndsAt(s, frame, offset)
      BY <2>1, <2>2 DEF InStep, Written
    <2> HIDE DEF s
    <2>7. /\ Aligned(s \o p)
          /\ offset + m < FrameBytes => EndsAt(s \o p, frame, offset + m)
          /\ offset + m = FrameBytes => EndsAt(s \o p, 0, 0)
      BY <2>2, <2>5, <2>6, Extended DEF p
    <2>8. offset + m < FrameBytes \/ offset + m = FrameBytes
      BY <2>2
    <2>9. Aligned(Stream(sock)') /\ EndsAt(Stream(sock)', frame', offset')
      BY <2>4, <2>5, <2>7, <2>8
    <2>10. \A d \in Conns : (Used(d)' <=> Used(d)) /\ (Used(d) => d = sock)
      BY <2>1, <2>2, <2>3 DEF Used, OneConnection
    <2>11. OneConnection'
      BY <2>1, <2>2, <2>3, <2>10 DEF OneConnection, Unused
    <2>12. ASSUME NEW d \in Conns, Used(d)'
           PROVE  Aligned(Stream(d))' /\ EndsAt(Stream(d), frame, Written(d))'
      <3>1. d = sock /\ sock' = sock
        BY <2>3, <2>10, <2>12
      <3>2. Written(d)' = offset'
        BY <3>1 DEF Written
      <3>3. Aligned(Stream(d)') /\ EndsAt(Stream(d)', frame', Written(d)')
        BY <2>9, <3>1, <3>2 DEF Stream
      <3> QED BY <3>3 DEF Aligned, EndsAt, Whole, Part
    <2>13. InStep'
      BY <2>2, <2>10, <2>12 DEF InStep, Unused
    <2> QED BY <2>11, <2>13
  <1>23. ASSUME NEW c \in Conns, Accept(c)
         PROVE  OneConnection' /\ InStep'
    <2>1. Live /\ OneConnection /\ InStep /\ Kept /\ TypeOK
      BY <1>23 DEF IInv, Live, Accept
    <2>2. Used(c) /\ \A d \in Conns : Used(d)' <=> Used(d)
      BY <1>23, <2>1 DEF Accept, Used, TypeOK
    <2>3. Stream(c)' = Stream(c)
      BY <1>23 DEF Accept, Stream
    <2>4. UNCHANGED <<main, pump, frame, offset, sock>>
      BY <1>23 DEF Accept
    <2> QED BY <2>1, <2>2, <2>3, <2>4, SameStream
  <1>24. ASSUME NEW c \in Conns, Release(c)
         PROVE  OneConnection' /\ InStep'
    <2>1. Live /\ OneConnection /\ InStep /\ Kept /\ TypeOK
      BY <1>24 DEF IInv, Live, Release
    <2>2. Used(c) /\ \A d \in Conns : Used(d)' <=> Used(d)
      BY <1>24, <2>1 DEF Release, Used, TypeOK
    <2>3. Stream(c)' = Stream(c)
      BY <1>24 DEF Release, Stream
    <2>4. UNCHANGED <<main, pump, frame, offset, sock>>
      BY <1>24 DEF Release
    <2> QED BY <2>1, <2>2, <2>3, <2>4, SameStream
  <1>25. ASSUME NEW c \in Conns, Ignore(c)
         PROVE  OneConnection' /\ InStep'
    BY <1>25 DEF Live, Ignore
  <1>26. ASSUME NEW c \in Conns, Recv(c)
         PROVE  OneConnection' /\ InStep'
    <2>1. Live /\ OneConnection /\ InStep /\ Kept /\ TypeOK
      BY <1>26 DEF IInv, Live, Recv
    <2>2. Used(c) /\ \A d \in Conns : Used(d)' <=> Used(d)
      BY <1>26, <2>1 DEF Recv, Used, TypeOK
    <2>3. Stream(c)' = Stream(c)
      BY <1>26, <2>1, RecvStream
    <2>4. UNCHANGED <<main, pump, frame, offset, sock>>
      BY <1>26 DEF Recv
    <2> QED BY <2>1, <2>2, <2>3, <2>4, SameStream
  <1>27. ASSUME NEW c \in Conns, Gather(c)
         PROVE  OneConnection' /\ InStep'
    <2>1. Live /\ OneConnection /\ InStep /\ Kept /\ TypeOK
      BY <1>27 DEF IInv, Live, Gather
    <2>2. Used(c) /\ \A d \in Conns : Used(d)' <=> Used(d)
      BY <1>27, <2>1 DEF Gather, Used, TypeOK
    <2>3. Stream(c)' = Stream(c)
      BY <1>27, <2>1, GatherStream
    <2>4. UNCHANGED <<main, pump, frame, offset, sock>>
      BY <1>27 DEF Gather
    <2> QED BY <2>1, <2>2, <2>3, <2>4, SameStream
  <1>28. ASSUME NEW c \in Conns, Leave(c)
         PROVE  OneConnection' /\ InStep'
    <2>1. Live /\ OneConnection /\ InStep /\ Kept /\ TypeOK
      BY <1>28 DEF IInv, Live, Leave
    <2>2. conn[c] = "recv" /\ pipe[c] = <<>> /\ sock # c /\ hand[c] = <<>>
      BY <1>28, <2>1 DEF Live, Leave, Abandoned, EndOfStream, Kept
    <2>3. Used(c) /\ \A d \in Conns : Used(d) => d = c
      BY <2>1, <2>2 DEF Used, OneConnection
    <2>4. lock = None
      BY <2>1, <2>2, <2>3 DEF Kept, TypeOK, Used
    <2>5. acc \in Seq(Bytes) /\ Len(acc) < FrameBytes
      BY <2>1, <2>4 DEF Kept, TypeOK
    <2>6. Stream(c) = acc
      BY <2>2, <2>5, EmptySeq, ConcatEmptySeq DEF Stream
    <2>7. Aligned(acc) /\ Whole(acc)
      BY <2>1, <2>2, <2>3, <2>6 DEF InStep, Written, EndsAt
    <2>8. acc = <<>>
      BY <2>5, <2>7, NothingLeft
    <2>9. Unused' /\ acc' = <<>>
      BY <1>28, <2>1, <2>3, <2>8 DEF Leave, Unused, Used, TypeOK
    <2>10. OneConnection' /\ InStep'
      BY <2>9 DEF OneConnection, InStep, Unused
    <2> QED BY <2>10
  <1>29. ASSUME NEW c \in Conns, Split(c)
         PROVE  OneConnection' /\ InStep'
    <2>1. Live /\ OneConnection /\ InStep /\ Kept /\ TypeOK
      BY <1>29 DEF IInv, Live, Split
    <2>2. Used(c) /\ \A d \in Conns : Used(d) => d = c
      BY <1>29, <2>1 DEF Split, Used, OneConnection
    <2> DEFINE s == Stream(c)
               t == SubSeq(s, FrameBytes + 1, Len(s))
    <2>3. Written(c) \in 0..FrameBytes-1
      BY <2>1 DEF TypeOK, Written
    <2>4. Aligned(s) /\ EndsAt(s, frame, Written(c))
      BY <2>1, <2>2 DEF InStep
    <2>5. UNCHANGED <<main, pump, frame, offset, sock, conn>>
      BY <1>29 DEF Split
    <2>6. Stream(c)' = t /\ s \in Seq(Bytes) /\ Len(s) >= FrameBytes
      BY <1>29, <2>1, SplitStream
    <2> HIDE DEF s
    <2>7. Aligned(t) /\ EndsAt(t, frame, Written(c))
      BY <2>3, <2>4, <2>6, WithoutFirst
    <2> HIDE DEF t
    <2>8. OneConnection'
      BY <2>1, <2>5 DEF OneConnection, Unused, Used
    <2>9. ASSUME NEW d \in Conns, Used(d)'
          PROVE  Aligned(Stream(d))' /\ EndsAt(Stream(d), frame, Written(d))'
      <3>1. d = c
        BY <2>2, <2>5, <2>9 DEF Used
      <3>2. Stream(d)' = t /\ Written(d)' = Written(c) /\ frame' = frame
        BY <2>5, <2>6, <3>1 DEF Written
      <3>3. Aligned(Stream(d)') /\ EndsAt(Stream(d)', frame', Written(d)')
        BY <2>7, <3>2
      <3> QED BY <3>3 DEF Aligned, EndsAt, Whole, Part
    <2>10. InStep'
      BY <2>2, <2>5, <2>9 DEF InStep, Unused, Used
    <2> QED BY <2>8, <2>10
  <1> QED BY <1>1, <1>2, <1>3, <1>4, <1>5, <1>6, <1>7, <1>8, <1>9, <1>10, <1>11, <1>12,
             <1>13, <1>14, <1>15, <1>16, <1>17, <1>18, <1>19, <1>20, <1>21, <1>22,
             <1>23, <1>24, <1>25, <1>26, <1>27, <1>28, <1>29
          DEF Next, Stopping, Bounds, Write, Thread

(* The inductive invariant.                                                 *)
THEOREM Invariance == Spec => []IInv
  <1> USE LinkAssumption
  <1>1. Init => IInv
    <2>1. SUFFICES ASSUME Init PROVE IInv
      OBVIOUS
    <2>2. TypeOK
      BY <2>1, TypesStart
    <2>3. Kept
      BY <2>1, EmptySeq DEF Init, Kept, Unused, Used, AllFree, NoBytes, LinkAssumption
    <2>4. ~Live
      BY <2>1 DEF Init, Live
    <2>5. NoneTorn /\ Aligned(acc)
      BY <2>1, EmptySeq DEF Init, NoneTorn, Aligned
    <2> QED BY <2>2, <2>3, <2>4, <2>5 DEF IInv
  <1>2. IInv /\ [Next]_vars => IInv'
    <2>1. SUFFICES ASSUME IInv, [Next]_vars PROVE IInv'
      OBVIOUS
    <2>2. TypeOK' /\ Kept'
      BY <2>1, TypesKept, KeptKept DEF IInv
    <2>3. CASE Next
      BY <2>1, <2>2, <2>3, LiveKept, UncutKept DEF IInv
    <2>4. CASE UNCHANGED vars
      <3>1. UNCHANGED <<main, pump, frame, offset, sock, conn, pipe, hand, acc, ring, tower, cut>>
        BY <2>4 DEF vars, procVars, pumpVars, sinkVars, wireVars, readVars
      <3>2. ~cut' => NoneTorn' /\ Aligned(acc)'
        BY <2>1, <3>1 DEF IInv, NoneTorn, Aligned
      <3>3. Live' => OneConnection' /\ InStep'
        <4>1. SUFFICES ASSUME Live' PROVE OneConnection' /\ InStep'
          OBVIOUS
        <4>2. OneConnection /\ InStep
          BY <2>1, <3>1, <4>1 DEF IInv, Live
        <4>3. OneConnection'
          BY <3>1, <4>2 DEF OneConnection, Used, Unused
        <4>4. \A c \in Conns : frame' = frame /\ Written(c)' = Written(c)
          BY <3>1 DEF Written
        <4> QED BY <3>1, <4>2, <4>3, <4>4, SameWire
      <3> QED BY <2>2, <3>2, <3>3 DEF IInv
    <2> QED BY <2>1, <2>3, <2>4
  <1> QED BY <1>1, <1>2, PTL DEF Spec

(* Every frame in Tower's buffer is one the pump wrote, whatever faults     *)
(* there were, unless one of them has cut a frame since Tower started.      *)
THEOREM WholeFrames == Spec => []FramesWhole
  <1>1. IInv => FramesWhole
    BY DEF IInv, NoneTorn, FramesWhole
  <1> QED BY <1>1, Invariance, PTL

-----------------------------------------------------------------------------
(* The link *)

(* Programme frames leave in the order they were decoded: from the queue    *)
(* over the pump's frame to the last one sent they only get older.          *)
InOrder ==
    /\ sent <= made /\ frame <= made
    /\ frame # 0 => sent < frame /\ \A i \in 1..Len(queue) : frame < queue[i]
    /\ \A i \in 1..Len(queue) : sent < queue[i] /\ queue[i] <= made
    /\ \A i, j \in 1..Len(queue) : i < j => queue[i] < queue[j]
    /\ pushing => /\ sent < made /\ frame < made
                  /\ \A i \in 1..Len(queue) : queue[i] < made

(* InOrder holds after every step.                                          *)
LEMMA OrderKept ==
    ASSUME LinkAssumption, TypeOK, InOrder, [Next]_vars
    PROVE  InOrder'
  <1> USE DEF LinkAssumption, Frames,
             station, procVars, feedVars, pumpVars, sinkVars, wireVars, readVars
  <1>0. /\ made \in Nat /\ sent \in Nat /\ frame \in Nat /\ queue \in Seq(Frames) /\ Len(queue) \in Nat
        /\ \A i \in 1..Len(queue) : queue[i] \in Nat
        /\ Len(<<>>) = 0
    <2>1. queue \in Seq(Frames) /\ \A i \in 1..Len(queue) : queue[i] \in Frames
      BY ElementOfSeq DEF TypeOK
    <2> QED BY <2>1, EmptySeq DEF TypeOK
  <1>same. ASSUME UNCHANGED <<made, pushing, queue, frame, sent>> PROVE InOrder'
    BY <1>same DEF InOrder
  <1>1. CASE StationEnds
    <2>1. queue' = <<>> /\ frame' = 0 /\ pushing' = FALSE /\ made' = made /\ sent' = sent
      BY <1>1 DEF StationEnds
    <2> QED BY <1>0, <2>1 DEF InOrder
  <1>2. CASE Decode
    <2>1. made' = made + 1 /\ UNCHANGED <<queue, frame, sent>>
      BY <1>2 DEF Decode
    <2> QED BY <1>0, <2>1 DEF InOrder
  <1>3. CASE Push
    <2>1. pushing /\ pushing' = FALSE /\ queue' = Append(queue, made) /\ UNCHANGED <<made, frame, sent>>
      BY <1>3 DEF Push
    <2>2. made \in Frames
      BY DEF TypeOK
    <2>3. /\ Len(queue') = Len(queue) + 1 /\ queue'[Len(queue)+1] = made
          /\ \A i \in 1..Len(queue) : queue'[i] = queue[i]
      BY <1>0, <2>1, <2>2, AppendProperties
    <2>4. ASSUME NEW i \in 1..Len(queue')
          PROVE  queue'[i] = made \/ (i \in 1..Len(queue) /\ queue'[i] = queue[i])
      BY <1>0, <2>3
    <2>5. \A i \in 1..Len(queue') : sent < queue'[i] /\ queue'[i] <= made /\ (frame # 0 => frame < queue'[i])
      BY <1>0, <2>1, <2>4 DEF InOrder
    <2>6. ASSUME NEW i \in 1..Len(queue'), NEW j \in 1..Len(queue'), i < j
          PROVE  queue'[i] < queue'[j]
      <3>1. i \in 1..Len(queue) /\ queue'[i] = queue[i]
        BY <1>0, <2>3, <2>6
      <3>2. CASE j = Len(queue) + 1
        BY <1>0, <2>1, <2>3, <3>1, <3>2 DEF InOrder
      <3>3. CASE j \in 1..Len(queue)
        BY <1>0, <2>3, <2>6, <3>1, <3>3 DEF InOrder
      <3> QED BY <1>0, <2>3, <3>2, <3>3
    <2> QED BY <1>0, <2>1, <2>5, <2>6 DEF InOrder
  <1>4. CASE PushFails
    <2>1. pushing' = FALSE /\ UNCHANGED <<made, queue, frame, sent>>
      BY <1>4 DEF PushFails
    <2> QED BY <2>1 DEF InOrder
  <1>5. CASE Tick
    <2>1. UNCHANGED <<made, pushing, sent>>
      BY <1>5 DEF Tick
    <2>2. CASE queue = <<>>
      <3>1. queue' = <<>> /\ frame' = 0
        BY <1>5, <2>2 DEF Tick, Remaining
      <3> QED BY <1>0, <2>1, <3>1 DEF InOrder
    <2>3. CASE queue # <<>>
      <3>1. queue' = Tail(queue) /\ frame' = Head(queue)
        BY <1>5, <2>3 DEF Tick, Remaining
      <3>2. Head(queue) = queue[1] /\ 1 \in 1..Len(queue)
        BY <1>0, <2>3, EmptySeq
      <3>3. /\ Len(queue') = Len(queue) - 1
            /\ \A i \in 1..Len(queue') : queue'[i] = queue[i+1] /\ i + 1 \in 1..Len(queue)
        BY <1>0, <2>3, <3>1, <3>2, HeadTailProperties
      <3>4. sent < frame' /\ frame' <= made /\ (pushing => frame' < made)
        BY <3>1, <3>2 DEF InOrder
      <3>5. \A i \in 1..Len(queue') : /\ frame' < queue'[i] /\ sent < queue'[i] /\ queue'[i] <= made
                                      /\ pushing => queue'[i] < made
        BY <1>0, <3>1, <3>2, <3>3 DEF InOrder
      <3>6. ASSUME NEW i \in 1..Len(queue'), NEW j \in 1..Len(queue'), i < j
            PROVE  queue'[i] < queue'[j]
        <4>1. /\ queue'[i] = queue[i+1] /\ queue'[j] = queue[j+1] /\ i + 1 < j + 1
              /\ i + 1 \in 1..Len(queue) /\ j + 1 \in 1..Len(queue)
          BY <1>0, <3>3, <3>6
        <4> QED BY <4>1 DEF InOrder
      <3> QED BY <1>0, <2>1, <3>4, <3>5, <3>6 DEF InOrder
    <2> QED BY <2>2, <2>3
  <1>6. CASE ConnectFails \/ SendFails \/ SendTimesOut
    <2>1. frame' = 0 /\ UNCHANGED <<made, pushing, queue, sent>>
      BY <1>6 DEF ConnectFails, SendFails, SendTimesOut
    <2> QED BY <1>0, <2>1 DEF InOrder
  <1>7. ASSUME NEW m \in 1..FrameBytes, Send(m) PROVE InOrder'
    <2>1. UNCHANGED <<made, pushing, queue>>
      BY <1>7 DEF Send
    <2>2. CASE UNCHANGED <<frame, sent>>
      BY <1>same, <2>1, <2>2
    <2>3. CASE frame' = 0 /\ sent' = IF frame = 0 THEN sent ELSE frame
      BY <1>0, <2>1, <2>3 DEF InOrder
    <2> QED BY <1>7, <2>2, <2>3 DEF Send
  <1>8. CASE StationStarts \/ EngineStop \/ Stopping \/ Bounds \/ PumpStops \/ Cool
    BY <1>same, <1>8 DEF StationStarts, EngineStop, Stopping, Bounds, Drained, DrainTimesOut,
       BeginJoin, Close, JoinTimesOut, CloseSink, PumpStops, Cool
  <1>9. CASE TowerStarts \/ TowerStops \/ TowerEnds \/ Pop
    BY <1>same, <1>9 DEF TowerStarts, TowerStops, TowerEnds, Pop
  <1>10. ASSUME NEW c \in Conns, Connect(c) PROVE InOrder'
    BY <1>same, <1>10 DEF Connect
  <1>11. ASSUME NEW c \in Conns, Thread(c) PROVE InOrder'
    BY <1>same, <1>11 DEF Thread, Accept, Recv, Leave, Gather, Ignore, Split, Release
  <1>12. CASE UNCHANGED vars
    BY <1>same, <1>12 DEF vars
  <1> QED BY <1>1, <1>2, <1>3, <1>4, <1>5, <1>6, <1>7, <1>8, <1>9, <1>10, <1>11, <1>12
          DEF Next, Write

(* Frames are sent once and in order, whatever happens to the connection.   *)
THEOREM SentInOrder == Spec => []InOrder
  <1> USE LinkAssumption
  <1>1. Init => InOrder
    BY EmptySeq DEF Init, InOrder
  <1>2. TypeOK /\ InOrder /\ [Next]_vars => InOrder'
    BY OrderKept
  <1> QED BY <1>1, <1>2, TypeCorrect, PTL DEF Spec

(* The frames whose last byte is in s.                                      *)
FramesIn(s) == [k \in 1..(Len(s) \div FrameBytes) |-> s[k * FrameBytes][1]]

LEMMA FramesOf ==
    ASSUME LinkAssumption, NEW s \in Seq(Bytes)
    PROVE  /\ FramesIn(s) \in Seq(Frames) /\ Len(FramesIn(s)) = Len(s) \div FrameBytes
           /\ Len(s) \div FrameBytes \in Nat
           /\ \A k \in 1..(Len(s) \div FrameBytes) :
                 FramesIn(s)[k] = s[k * FrameBytes][1] /\ k * FrameBytes \in 1..Len(s)
  <1> DEFINE q == Len(s) \div FrameBytes
  <1>1. Len(s) \in Nat /\ FrameBytes \in Nat \ {0}
    BY EmptySeq DEF LinkAssumption
  <1>2. q \in Nat
    BY <1>1, Quotient
  <1>3. ASSUME NEW k \in 1..q PROVE k * FrameBytes \in 1..Len(s) /\ s[k * FrameBytes][1] \in Frames
    <2>1. k * FrameBytes \in 1..Len(s)
      BY <1>1, LastPlace
    <2>2. s[k * FrameBytes] \in Bytes
      BY <2>1, ElementOfSeq
    <2> QED BY <2>1, <2>2 DEF Bytes
  <1>4. FramesIn(s) = [k \in 1..q |-> s[k * FrameBytes][1]]
    BY DEF FramesIn
  <1> HIDE DEF q
  <1>5. FramesIn(s) \in [1..q -> Frames]
    BY <1>3, <1>4
  <1>6. FramesIn(s) \in Seq(Frames) /\ Len(FramesIn(s)) = q
    BY <1>2, <1>5
  <1> QED BY <1>2, <1>3, <1>4, <1>6 DEF q

(* A send adds its frame when it has written the last byte, and no other.   *)
LEMMA MoreFrames ==
    ASSUME LinkAssumption, NEW s \in Seq(Bytes),
           NEW f \in Frames, NEW a \in 0..FrameBytes-1, NEW n \in 1..FrameBytes-a,
           EndsAt(s, f, a)
    PROVE  LET u == s \o SubSeq(FrameOf(f), a + 1, a + n)
           IN  /\ a + n < FrameBytes => FramesIn(u) = FramesIn(s)
               /\ a + n = FrameBytes => FramesIn(u) = Append(FramesIn(s), f)
  <1> DEFINE u == s \o SubSeq(FrameOf(f), a + 1, a + n)
             p == SubSeq(FrameOf(f), a + 1, a + n)
             q == Len(s) \div FrameBytes
  <1>1. p \in Seq(Bytes) /\ Len(p) = n /\ \A i \in 1..n : p[i] = <<f, a + i>>
    BY Piece
  <1>2. Len(s) \in Nat /\ FrameBytes \in Nat \ {0}
    BY EmptySeq DEF LinkAssumption
  <1>3. u = s \o p
    OBVIOUS
  <1> HIDE DEF p, u
  <1>4. /\ u \in Seq(Bytes) /\ Len(u) = Len(s) + n
        /\ \A i \in 1..Len(s)+n : u[i] = IF i <= Len(s) THEN s[i] ELSE p[i - Len(s)]
    <2>1. /\ s \o p \in Seq(Bytes)
          /\ Len(s \o p) = Len(s) + Len(p)
          /\ \A i \in 1 .. Len(s) + Len(p) :
                (s \o p)[i] = IF i <= Len(s) THEN s[i] ELSE p[i - Len(s)]
      BY <1>1, ConcatProperties
    <2> QED BY <1>1, <1>3, <2>1
  <1>5. /\ a + n < FrameBytes => Len(u) \div FrameBytes = q
        /\ a + n = FrameBytes => Len(u) \div FrameBytes = q + 1 /\ (q + 1) * FrameBytes = Len(u)
    <2>1. Len(s) % FrameBytes = a /\ n \in 1..FrameBytes-(Len(s) % FrameBytes)
      BY DEF EndsAt
    <2>2. /\ a + n < FrameBytes => (Len(s) + n) \div FrameBytes = q
          /\ a + n = FrameBytes => /\ (Len(s) + n) \div FrameBytes = q + 1
                                   /\ (q + 1) * FrameBytes = Len(s) + n
      BY <1>2, <2>1, MoreBytes
    <2> QED BY <1>4, <2>2
  <1>6. /\ FramesIn(s) \in Seq(Frames) /\ Len(FramesIn(s)) = q /\ q \in Nat
        /\ \A k \in 1..q : FramesIn(s)[k] = s[k * FrameBytes][1] /\ k * FrameBytes \in 1..Len(s)
    BY FramesOf
  <1> DEFINE r == Len(u) \div FrameBytes
  <1>7. /\ FramesIn(u) \in Seq(Frames) /\ Len(FramesIn(u)) = r
        /\ \A k \in 1..r : FramesIn(u)[k] = u[k * FrameBytes][1]
    BY <1>4, FramesOf
  <1>8. a + n < FrameBytes => r = q
    BY <1>5
  <1>9. a + n = FrameBytes => r = q + 1 /\ (q + 1) * FrameBytes = Len(u)
    BY <1>5
  <1> HIDE DEF q, r
  <1>10. ASSUME NEW k \in 1..q, k \in 1..r PROVE FramesIn(u)[k] = FramesIn(s)[k]
    <2>1. k * FrameBytes \in 1..Len(s)
      BY <1>6
    <2>2. u[k * FrameBytes] = s[k * FrameBytes]
      <3> DEFINE i == k * FrameBytes
      <3>1. i \in 1..Len(s)
        BY <2>1
      <3> HIDE DEF i
      <3>2. u[i] = s[i]
        BY <1>2, <1>4, <3>1
      <3> QED BY <3>2 DEF i
    <2> QED BY <1>6, <1>7, <1>10, <2>2
  <1>11. ASSUME a + n < FrameBytes PROVE FramesIn(u) = FramesIn(s)
    BY <1>6, <1>7, <1>8, <1>10, <1>11, SeqEqual
  <1>12. ASSUME a + n = FrameBytes PROVE FramesIn(u) = Append(FramesIn(s), f)
    <2> DEFINE v == Append(FramesIn(s), f)
    <2>1. /\ v \in Seq(Frames) /\ Len(v) = q + 1 /\ v[q + 1] = f
          /\ \A i \in 1..q : v[i] = FramesIn(s)[i]
      <3>1. /\ v \in Seq(Frames) /\ Len(v) = Len(FramesIn(s)) + 1 /\ v[Len(FramesIn(s)) + 1] = f
            /\ \A i \in 1..Len(FramesIn(s)) : v[i] = FramesIn(s)[i]
        BY <1>6, AppendProperties
      <3> HIDE DEF v
      <3> QED BY <1>6, <3>1
    <2> HIDE DEF v
    <2>2. FramesIn(u)[q + 1] = f
      <3>1. u[Len(u)] = p[n]
        BY <1>2, <1>4
      <3>2. p[n] = <<f, a + n>>
        BY <1>1, <1>2
      <3>3. q + 1 \in 1..r /\ (q + 1) * FrameBytes = Len(u)
        BY <1>6, <1>9, <1>12
      <3>4. FramesIn(u)[q + 1] = u[(q + 1) * FrameBytes][1]
        BY <1>7, <3>3
      <3>5. FramesIn(u)[q + 1] = u[Len(u)][1]
        BY <3>3, <3>4
      <3> QED BY <3>1, <3>2, <3>5
    <2>3. ASSUME NEW k \in 1..q+1 PROVE FramesIn(u)[k] = v[k]
      <3>1. CASE k = q + 1
        BY <2>1, <2>2, <3>1
      <3>2. CASE k \in 1..q
        BY <1>6, <1>9, <1>10, <1>12, <2>1, <3>2
      <3> QED BY <1>6, <3>1, <3>2
    <2>4. FramesIn(u) = v
      BY <1>7, <1>9, <1>12, <2>1, <2>3, SeqEqual
    <2> QED BY <2>4 DEF v
  <1> QED BY <1>11, <1>12 DEF u

(* A split takes the first one.                                             *)
LEMMA LessFrames ==
    ASSUME LinkAssumption, NEW s \in Seq(Bytes), Len(s) >= FrameBytes
    PROVE  /\ FramesIn(s) # <<>> /\ Head(FramesIn(s)) = s[FrameBytes][1]
           /\ FramesIn(SubSeq(s, FrameBytes + 1, Len(s))) = Tail(FramesIn(s))
  <1> DEFINE t == SubSeq(s, FrameBytes + 1, Len(s))
             q == Len(s) \div FrameBytes
  <1>1. Len(s) \in Nat /\ FrameBytes \in Nat \ {0}
    BY EmptySeq DEF LinkAssumption
  <1>2. t \in Seq(Bytes) /\ Len(t) = Len(s) - FrameBytes
        /\ \A i \in 1..Len(s)-FrameBytes : t[i] = s[FrameBytes + i]
    <2>1. \A i \in FrameBytes+1..Len(s) : s[i] \in Bytes
      BY <1>1, ElementOfSeq
    <2>2. /\ t \in Seq(Bytes)
          /\ Len(t) = IF FrameBytes + 1 <= Len(s) THEN Len(s) - (FrameBytes + 1) + 1 ELSE 0
          /\ \A i \in 1 .. Len(s) - (FrameBytes + 1) + 1 : t[i] = s[FrameBytes + 1 + i - 1]
      BY <1>1, <2>1, SubSeqProperties
    <2> HIDE DEF t
    <2>3. Len(t) = Len(s) - FrameBytes
      BY <1>1, <2>2
    <2>4. ASSUME NEW i \in 1..Len(s)-FrameBytes PROVE t[i] = s[FrameBytes + i]
      <3>1. FrameBytes + 1 + i - 1 = FrameBytes + i /\ i \in 1 .. Len(s) - (FrameBytes + 1) + 1
        BY <1>1
      <3> QED BY <2>2, <3>1
    <2> QED BY <2>2, <2>3, <2>4
  <1>3. /\ FramesIn(s) \in Seq(Frames) /\ Len(FramesIn(s)) = q /\ q \in Nat
        /\ \A k \in 1..q : FramesIn(s)[k] = s[k * FrameBytes][1]
    BY FramesOf
  <1> DEFINE r == Len(t) \div FrameBytes
  <1> HIDE DEF t
  <1>4. /\ FramesIn(t) \in Seq(Frames) /\ Len(FramesIn(t)) = r /\ r \in Nat
        /\ \A k \in 1..r : FramesIn(t)[k] = t[k * FrameBytes][1] /\ k * FrameBytes \in 1..Len(t)
    BY <1>2, FramesOf
  <1>5. r = q - 1 /\ q >= 1
    BY <1>1, <1>2, LessBytes
  <1>6. ASSUME NEW k \in 1..r PROVE (k + 1) * FrameBytes = FrameBytes + k * FrameBytes
    BY <1>1, <1>4
  <1> HIDE DEF q, r
  <1>7. FramesIn(s) # <<>> /\ Head(FramesIn(s)) = s[FrameBytes][1]
    <2>1. FramesIn(s) # <<>> /\ 1 \in 1..q
      BY <1>3, <1>5
    <2>2. Head(FramesIn(s)) = FramesIn(s)[1]
      BY <1>3, <2>1
    <2>3. 1 * FrameBytes = FrameBytes
      BY <1>1
    <2> QED BY <1>3, <2>1, <2>2, <2>3
  <1>8. /\ Tail(FramesIn(s)) \in Seq(Frames) /\ Len(Tail(FramesIn(s))) = q - 1
        /\ \A i \in 1..q-1 : Tail(FramesIn(s))[i] = FramesIn(s)[i+1]
    BY <1>3, <1>7, HeadTailProperties
  <1>9. ASSUME NEW k \in 1..r PROVE FramesIn(t)[k] = Tail(FramesIn(s))[k]
    <2> DEFINE i == k * FrameBytes
    <2>1. i \in 1..Len(s)-FrameBytes /\ FramesIn(t)[k] = t[i][1]
      BY <1>2, <1>4
    <2>2. (k + 1) * FrameBytes = FrameBytes + i
      BY <1>6
    <2> HIDE DEF i
    <2>3. t[i] = s[FrameBytes + i]
      BY <1>2, <2>1
    <2>4. k + 1 \in 1..q /\ k \in 1..q-1
      BY <1>3, <1>5
    <2>5. FramesIn(s)[k+1] = s[FrameBytes + i][1]
      BY <1>3, <2>2, <2>4
    <2> QED BY <1>8, <2>1, <2>3, <2>4, <2>5
  <1>10. FramesIn(t) = Tail(FramesIn(s))
    BY <1>4, <1>5, <1>8, <1>9, SeqEqual
  <1> QED BY <1>7, <1>10 DEF t

(* While the link is up, the bytes on the way are those of the connection   *)
(* in use.                                                                  *)
ArrivingIs ==
    Live => /\ Unused => Arriving = <<>>
            /\ \A c \in Conns : Used(c) => Arriving = Stream(c) /\ Arriving \in Seq(Bytes)

LEMMA ArrivingKnown ==
    ASSUME LinkAssumption, IInv
    PROVE  ArrivingIs
  <1>1. SUFFICES ASSUME Live
                 PROVE  /\ Unused => Arriving = <<>>
                        /\ \A c \in Conns : Used(c) => Arriving = Stream(c) /\ Arriving \in Seq(Bytes)
    BY DEF ArrivingIs
  <1>2. TypeOK /\ Kept /\ OneConnection /\ InStep
    BY <1>1 DEF IInv
  <1>3. \A c \in Conns : ~Used(c) => hand[c] \o pipe[c] = <<>>
    <2>1. ASSUME NEW c \in Conns, ~Used(c) PROVE hand[c] \o pipe[c] = <<>>
      <3>1. hand[c] = <<>> /\ pipe[c] = <<>>
        BY <1>2, <2>1 DEF Kept, Used
      <3> QED BY <3>1, EmptySeq, ConcatEmptySeq
    <2> QED BY <2>1
  <1>4. ASSUME Unused PROVE Arriving = <<>>
    <2>1. OnTheWire = <<>>
      BY <1>3, <1>4 DEF OnTheWire, Unused
    <2>2. acc = <<>>
      BY <1>2, <1>4 DEF InStep
    <2> QED BY <2>1, <2>2, EmptySeq, ConcatEmptySeq DEF Arriving
  <1>5. ASSUME NEW c \in Conns, Used(c) PROVE Arriving = Stream(c) /\ Arriving \in Seq(Bytes)
    <2> DEFINE busy == {d \in Conns : hand[d] \o pipe[d] # <<>>}
    <2>1. \A d \in busy : d = c
      BY <1>2, <1>3, <1>5 DEF OneConnection
    <2>2. OnTheWire = hand[c] \o pipe[c]
      <3>1. CASE busy = {}
        BY <3>1 DEF OnTheWire
      <3>2. CASE busy # {}
        <4>1. (CHOOSE x \in busy : TRUE) = c
          BY <2>1, <3>2
        <4> QED BY <3>2, <4>1 DEF OnTheWire
      <3> QED BY <3>1, <3>2
    <2>3. Arriving = Stream(c)
      BY <2>2 DEF Arriving, Stream
    <2> DEFINE w == hand[c] \o pipe[c]
    <2>4. w \in Seq(Bytes) /\ acc \in Seq(Bytes)
      BY <1>2, ConcatProperties DEF TypeOK
    <2>5. acc \o w \in Seq(Bytes)
      <3> HIDE DEF w
      <3> QED BY <2>4, ConcatProperties
    <2> QED BY <2>3, <2>5 DEF Stream
  <1> QED BY <1>4, <1>5

(* What FrameLink calls inFlight and buffer.                                *)
Flight == IF LinkUp THEN InFlight ELSE <<>>
Buffer == IF LinkUp THEN ring ELSE <<>>

(* The send that writes a frame's last byte sends it, any other is a        *)
(* stutter.                                                                 *)
LEMMA SendLink ==
    ASSUME LinkAssumption, TypeOK, InOrder, IInv, ArrivingIs, ArrivingIs', LinkUp, LinkUp',
           NEW m \in 1..FrameBytes, Send(m)
    PROVE  \/ \E f \in 0..MaxFrames : /\ f = 0 \/ f > sent
                                      /\ InFlight' = Append(InFlight, f)
                                      /\ sent' = IF f = 0 THEN sent ELSE f
           \/ InFlight' = InFlight /\ sent' = sent
  <1>1. /\ sock \in Conns /\ Used(sock) /\ frame \in Frames /\ sock' = sock /\ Used(sock)'
        /\ offset \in 0..FrameBytes-1 /\ m \in 1..FrameBytes-offset
    BY DEF TypeOK, Send, Writable, Used, LinkAssumption
  <1> DEFINE p == SubSeq(FrameOf(frame), offset + 1, offset + m)
  <1>2. Arriving = Stream(sock) /\ Arriving \in Seq(Bytes) /\ Arriving' = Stream(sock)'
    BY <1>1 DEF ArrivingIs, Live, LinkUp
  <1>3. Arriving' = Arriving \o p
    BY <1>2, SendStream
  <1>4. EndsAt(Stream(sock), frame, offset)
    BY <1>1 DEF IInv, InStep, Live, LinkUp, Written
  <1>5. EndsAt(Arriving, frame, offset)
    BY <1>2, <1>4
  <1>6. InFlight = FramesIn(Arriving) /\ InFlight' = FramesIn(Arriving')
    BY DEF InFlight, FramesIn
  <1>7. /\ offset + m < FrameBytes => FramesIn(Arriving') = FramesIn(Arriving)
        /\ offset + m = FrameBytes => FramesIn(Arriving') = Append(FramesIn(Arriving), frame)
    <2> DEFINE s == Arriving
               u == s \o SubSeq(FrameOf(frame), offset + 1, offset + m)
    <2>1. s \in Seq(Bytes) /\ EndsAt(s, frame, offset) /\ Arriving' = u
      BY <1>2, <1>3, <1>5
    <2> HIDE DEF s
    <2>2. /\ offset + m < FrameBytes => FramesIn(u) = FramesIn(s)
          /\ offset + m = FrameBytes => FramesIn(u) = Append(FramesIn(s), frame)
      BY <1>1, <2>1, MoreFrames
    <2> HIDE DEF u
    <2> QED BY <2>1, <2>2 DEF s
  <1>8. CASE offset + m < FrameBytes
    <2>1. sent' = sent
      BY <1>8, <1>1 DEF Send, LinkAssumption
    <2> QED BY <1>6, <1>7, <1>8, <2>1
  <1>9. CASE offset + m = FrameBytes
    <2>1. sent' = IF frame = 0 THEN sent ELSE frame
      BY <1>9, <1>1 DEF Send, LinkAssumption
    <2>2. frame = 0 \/ frame > sent
      BY <1>1 DEF InOrder, TypeOK, Frames
    <2>3. frame \in 0..MaxFrames
      BY <1>1 DEF Frames
    <2> QED BY <1>6, <1>7, <1>9, <2>1, <2>2, <2>3
  <1> QED BY <1>1, <1>8, <1>9 DEF LinkAssumption

(* A split delivers the first frame in flight.                              *)
LEMMA SplitLink ==
    ASSUME LinkAssumption, TypeOK, IInv, ArrivingIs, ArrivingIs', LinkUp, LinkUp',
           NEW c \in Conns, Split(c)
    PROVE  /\ InFlight # <<>> /\ InFlight' = Tail(InFlight)
           /\ ring' = (IF Len(ring) < RingCapacity THEN ring ELSE Tail(ring)) \o <<Head(InFlight)>>
  <1>1. Used(c) /\ Used(c)' /\ acc \in Seq(Bytes) /\ Len(acc) >= FrameBytes
    BY DEF Split, Used, TypeOK, wireVars
  <1>2. Arriving = Stream(c) /\ Arriving \in Seq(Bytes) /\ Arriving' = Stream(c)'
    BY <1>1 DEF ArrivingIs, Live, LinkUp
  <1>3. /\ Len(Arriving) >= FrameBytes /\ Arriving[1] = acc[1]
        /\ Arriving' = SubSeq(Arriving, FrameBytes + 1, Len(Arriving))
    BY <1>2, SplitStream
  <1>4. InFlight = FramesIn(Arriving) /\ InFlight' = FramesIn(Arriving')
    BY DEF InFlight, FramesIn
  <1>5. /\ InFlight # <<>> /\ InFlight' = Tail(InFlight)
        /\ Head(InFlight) = Arriving[FrameBytes][1]
    BY <1>2, <1>3, <1>4, LessFrames
  <1>6. Aligned(Arriving) /\ Aligned(acc)
    BY <1>1, <1>2 DEF IInv, InStep, Live, LinkUp
  <1>7. SubSeq(Arriving, 1, FrameBytes) = FrameOf(Arriving[1][1]) /\ Arriving[1][1] \in Frames
    BY <1>2, <1>3, <1>6, FirstFrame
  <1> DEFINE e == acc[1][1]
  <1>8. SubSeq(acc, 1, FrameBytes) = FrameOf(e) /\ e \in Frames
    BY <1>1, <1>6, FirstFrame
  <1>9. Entry(SubSeq(acc, 1, FrameBytes)) = e
    <2> HIDE DEF e
    <2>1. FrameOf(e)[1] = <<e, 1>>
      BY DEF FrameOf, LinkAssumption
    <2>2. FrameOf(e)[1][1] = e
      BY <2>1
    <2> QED BY <1>8, <2>2 DEF Entry
  <1>10. Arriving[FrameBytes][1] = e
    <2>1. SubSeq(Arriving, 1, FrameBytes)[FrameBytes] = Arriving[FrameBytes]
      <3>1. \A i \in 1..FrameBytes : Arriving[i] \in Bytes
        BY <1>2, <1>3, ElementOfSeq, EmptySeq DEF LinkAssumption
      <3> QED BY <3>1, SubSeqProperties DEF LinkAssumption
    <2>2. FrameOf(e)[FrameBytes] = <<e, FrameBytes>>
      BY DEF FrameOf, LinkAssumption
    <2>3. Arriving[FrameBytes] = <<e, FrameBytes>>
      BY <1>3, <1>7, <2>1, <2>2
    <2> QED BY <2>3
  <1> HIDE DEF e
  <1>11. ring' = Pushed(ring, e)
    BY <1>9 DEF Split
  <1> DEFINE b == IF Len(ring) < RingCapacity THEN ring ELSE Tail(ring)
             R == Frames \cup {Torn}
  <1>12. b \in Seq(R) /\ e \in R
    <2>1. ring \in Seq(R) /\ Len(ring) \in Nat
      BY EmptySeq DEF TypeOK
    <2>2. ASSUME ~(Len(ring) < RingCapacity) PROVE Tail(ring) \in Seq(R)
      <3>1. ring # <<>>
        BY <2>1, <2>2, EmptySeq DEF LinkAssumption
      <3> HIDE DEF R
      <3> QED BY <2>1, <3>1, HeadTailProperties
    <2> QED BY <1>8, <2>1, <2>2 DEF e
  <1>13. ring' = Append(b, e)
    BY <1>11 DEF Pushed
  <1> HIDE DEF b, R
  <1>14. ring' = b \o <<e>>
    BY <1>12, <1>13, AppendIsConcat
  <1> QED BY <1>5, <1>10, <1>14 DEF b

(* No bytes, no frames.                                                     *)
LEMMA NoFrames ==
    ASSUME LinkAssumption
    PROVE  FramesIn(<<>>) = <<>>
  <1>1. <<>> \in Seq(Bytes) /\ Len(<<>>) = 0
    BY EmptySeq
  <1>2. 0 \div FrameBytes = 0
    <2>1. 0 = FrameBytes * 0 + 0 /\ 0 \in 0..FrameBytes-1 /\ FrameBytes \in Nat \ {0}
      BY DEF LinkAssumption
    <2> QED BY <2>1, QuotientIs
  <1>3. FramesIn(<<>>) \in Seq(Frames) /\ Len(FramesIn(<<>>)) = 0
    BY <1>1, <1>2, FramesOf
  <1> QED BY <1>3, EmptySeq

(* Every step is one of FrameLink's, or a stutter.                          *)
LEMMA LinkStep ==
    ASSUME LinkAssumption, IInv, IInv', InOrder, ArrivingIs, ArrivingIs', [Next]_vars
    PROVE  [Link!Next]_<<LinkUp, Flight, Buffer, sent>>
  <1> USE DEF station, procVars, feedVars, pumpVars, sinkVars, wireVars, readVars
  <1> DEFINE Step == [Link!Next]_<<LinkUp, Flight, Buffer, sent>>
  <1>0. TypeOK /\ Kept
    BY DEF IInv
  <1>up. ASSUME LinkUp, LinkUp', InFlight' = InFlight, ring' = ring, sent' = sent
         PROVE  Step
    BY <1>up DEF Flight, Buffer, LinkUp
  <1>down. ASSUME ~LinkUp, ~LinkUp', sent' = sent
           PROVE  Step
    BY <1>down DEF Flight, Buffer, LinkUp
  <1>fall. ASSUME LinkUp, ~LinkUp', sent' = sent
           PROVE  Step
    <2>1. Link!Fall
      BY <1>fall DEF Link!Fall, Flight, Buffer
    <2> QED BY <2>1 DEF Link!Next
  <1>still. ASSUME UNCHANGED <<acc, hand, pipe>>
            PROVE  InFlight' = InFlight
    BY <1>still DEF InFlight, Arriving, OnTheWire
  <1> SUFFICES Step
    OBVIOUS
  <1> HIDE DEF Step
  <1>quiet. ASSUME UNCHANGED <<tower, cut, acc, hand, pipe, ring, sent>>
            PROVE  Step
    <2>1. InFlight' = InFlight /\ ring' = ring /\ sent' = sent
      BY <1>quiet, <1>still
    <2>2. LinkUp' <=> LinkUp
      BY <1>quiet DEF LinkUp
    <2> QED BY <1>up, <1>down, <2>1, <2>2
  <1>1. ASSUME NEW m \in 1..FrameBytes, Send(m) PROVE Step
    <2>1. (LinkUp' <=> LinkUp) /\ ring' = ring
      BY <1>1 DEF Send, LinkUp
    <2>2. CASE LinkUp
      <3>1. CASE InFlight' = InFlight /\ sent' = sent
        BY <1>up, <2>1, <2>2, <3>1
      <3>2. ASSUME NEW f \in 0..MaxFrames, f = 0 \/ f > sent,
                   InFlight' = Append(InFlight, f), sent' = IF f = 0 THEN sent ELSE f
            PROVE  Step
        <4>1. Link!Send(f)
          BY <2>1, <2>2, <3>2 DEF Link!Send, Link!Fresh, Link!Latest, Flight, Buffer
        <4> QED BY <4>1 DEF Step, Link!Next
      <3> QED BY <1>0, <1>1, <2>1, <2>2, <3>1, <3>2, SendLink
    <2>3. CASE ~LinkUp
      <3>1. CASE sent' = sent
        BY <1>down, <2>1, <2>3, <3>1
      <3>2. CASE sent' # sent
        <4>1. frame # 0 /\ sent' = frame /\ frame \in 0..MaxFrames /\ frame > sent
          BY <1>0, <1>1, <3>2 DEF Send, TypeOK, InOrder, Frames, LinkAssumption
        <4>2. Link!Lose(frame)
          BY <2>1, <2>3, <4>1 DEF Link!Lose, Link!Fresh, Link!Latest, Flight, Buffer
        <4> QED BY <4>1, <4>2 DEF Step, Link!Next
      <3> QED BY <3>1, <3>2
    <2> QED BY <2>2, <2>3
  <1>2. ASSUME NEW c \in Conns, Split(c) PROVE Step
    <2>1. (LinkUp' <=> LinkUp) /\ sent' = sent
      BY <1>2 DEF Split, LinkUp
    <2>2. CASE LinkUp
      <3>1. /\ InFlight # <<>> /\ InFlight' = Tail(InFlight)
            /\ ring' = (IF Len(ring) < RingCapacity THEN ring ELSE Tail(ring)) \o <<Head(InFlight)>>
        BY <1>0, <1>2, <2>1, <2>2, SplitLink
      <3>2. Link!Deliver
        BY <2>1, <2>2, <3>1 DEF Link!Deliver, Flight, Buffer
      <3> QED BY <3>2 DEF Step, Link!Next
    <2>3. CASE ~LinkUp
      BY <1>down, <2>1, <2>3
    <2> QED BY <2>2, <2>3
  <1>3. CASE Pop
    <2>1. (LinkUp' <=> LinkUp) /\ sent' = sent /\ InFlight' = InFlight
      BY <1>3, <1>still DEF Pop, LinkUp
    <2>2. CASE LinkUp
      <3>1. Link!Play
        BY <1>3, <2>1, <2>2 DEF Pop, Link!Play, Flight, Buffer
      <3> QED BY <3>1 DEF Step, Link!Next
    <2>3. CASE ~LinkUp
      BY <1>down, <2>1, <2>3
    <2> QED BY <2>2, <2>3
  <1>4. ASSUME NEW c \in Conns, Recv(c) \/ Gather(c) PROVE Step
    <2>1. (LinkUp' <=> LinkUp) /\ sent' = sent /\ ring' = ring
      BY <1>4 DEF Recv, Gather, LinkUp
    <2>2. ASSUME LinkUp PROVE InFlight' = InFlight
      <3>1. Used(c) /\ Used(c)'
        BY <1>0, <1>4 DEF Recv, Gather, Used, TypeOK
      <3>2. Stream(c)' = Stream(c)
        BY <1>0, <1>4, RecvStream, GatherStream
      <3>3. Arriving' = Arriving
        BY <2>1, <2>2, <3>1, <3>2 DEF ArrivingIs, Live, LinkUp
      <3> QED BY <3>3 DEF InFlight
    <2> QED BY <1>up, <1>down, <2>1, <2>2
  <1>5. CASE TowerStarts
    <2>1. ~LinkUp /\ tower' = "up" /\ cut' = FALSE /\ UNCHANGED <<sent, ring, conn>>
      BY <1>5 DEF TowerStarts, LinkUp
    <2>2. LinkUp' /\ Live'
      BY <2>1 DEF LinkUp, Live
    <2>3. Unused' /\ ring = <<>>
      BY <1>0, <1>5, <2>1 DEF TowerStarts, Kept, Unused, Used
    <2>4. Arriving' = <<>>
      BY <2>2, <2>3 DEF ArrivingIs
    <2>5. InFlight' = FramesIn(Arriving')
      BY DEF InFlight, FramesIn
    <2>6. InFlight' = <<>>
      BY <2>4, <2>5, NoFrames
    <2>7. Link!Rise
      BY <2>1, <2>2, <2>3, <2>6 DEF Link!Rise, Flight, Buffer
    <2> QED BY <2>7 DEF Step, Link!Next
  <1>6. CASE TowerStops \/ TowerEnds
    <2>1. ~LinkUp' /\ sent' = sent
      BY <1>6 DEF TowerStops, TowerEnds, LinkUp
    <2> QED BY <1>down, <1>fall, <2>1
  <1>7. ASSUME NEW c \in Conns, Ignore(c) PROVE Step
    <2>1. ~LinkUp /\ ~LinkUp' /\ sent' = sent
      BY <1>7 DEF Ignore, LinkUp
    <2> QED BY <1>down, <2>1
  <1>8. ASSUME NEW c \in Conns, Leave(c) PROVE Step
    <2>1. (LinkUp' <=> LinkUp) /\ sent' = sent /\ UNCHANGED <<acc, hand, ring>>
      BY <1>8 DEF Leave, LinkUp
    <2>2. ASSUME LinkUp PROVE pipe' = pipe
      BY <1>0, <1>8, <2>2 DEF Leave, Abandoned, EndOfStream, LinkUp, TypeOK
    <2>3. ASSUME LinkUp PROVE InFlight' = InFlight
      BY <1>still, <2>1, <2>2, <2>3
    <2> QED BY <1>up, <1>down, <2>1, <2>3
  <1>9. CASE StationStarts \/ StationEnds \/ SendTimesOut \/ JoinTimesOut
    <2>1. UNCHANGED <<tower, sent, acc, hand, pipe, ring>>
      BY <1>9 DEF StationStarts, StationEnds, SendTimesOut, JoinTimesOut, CloseSink
    <2>2. cut => cut'
      BY <1>9, Zenon DEF StationStarts, StationEnds, SendTimesOut, JoinTimesOut
    <2>3. LinkUp' => LinkUp
      BY <2>1, <2>2 DEF LinkUp
    <2>4. InFlight' = InFlight
      BY <1>still, <2>1
    <2> QED BY <1>up, <1>down, <1>fall, <2>1, <2>3, <2>4
  <1>10. CASE Decode \/ Push \/ PushFails \/ EngineStop \/ Drained \/ DrainTimesOut \/ Close
    <2>1. UNCHANGED <<tower, cut, acc, hand, pipe, ring, sent>>
      BY <1>10 DEF Decode, Push, PushFails, EngineStop, Drained, DrainTimesOut, BeginJoin,
         Close, CloseSink
    <2> QED BY <1>quiet, <2>1
  <1>11. CASE Tick \/ PumpStops \/ ConnectFails \/ SendFails \/ Cool
    <2>1. UNCHANGED <<tower, cut, acc, hand, pipe, ring, sent>>
      BY <1>11 DEF Tick, PumpStops, ConnectFails, SendFails, Cool
    <2> QED BY <1>quiet, <2>1
  <1>12. ASSUME NEW c \in Conns, Connect(c) \/ Accept(c) \/ Release(c) PROVE Step
    <2>1. UNCHANGED <<tower, cut, acc, hand, pipe, ring, sent>>
      BY <1>12 DEF Connect, Accept, Release
    <2> QED BY <1>quiet, <2>1
  <1>13. CASE UNCHANGED vars
    <2>1. UNCHANGED <<tower, cut, acc, hand, pipe, ring, sent>>
      BY <1>13 DEF vars
    <2> QED BY <1>quiet, <2>1
  <1> QED BY <1>1, <1>2, <1>3, <1>4, <1>5, <1>6, <1>7, <1>8, <1>9, <1>10, <1>11, <1>12, <1>13
          DEF Next, Stopping, Bounds, Write, Thread

(* The sink, the socket, the ingestor and the ring buffer together carry    *)
(* frames in order, none twice, and lose none on the way but the oldest of  *)
(* a full buffer, from the moment Tower is up until it stops or a frame is  *)
(* cut.                                                                     *)
THEOREM LinkKept == Spec => ImplementsLink
  <1> USE LinkAssumption
  <1>1. Init => Link!Init
    BY DEF Init, Link!Init, LinkUp
  <1>2. IInv => ArrivingIs
    BY ArrivingKnown
  <1>3. IInv /\ IInv' /\ InOrder /\ ArrivingIs /\ ArrivingIs' /\ [Next]_vars
        => [Link!Next]_<<LinkUp, Flight, Buffer, sent>>
    BY LinkStep
  <1> QED BY <1>1, <1>2, <1>3, Invariance, SentInOrder, PTL
          DEF Spec, ImplementsLink, Link!Spec, Flight, Buffer

(* Frames that Tower holds or will get are rising, silence left aside: what *)
(* takes the first one away or adds a later one leaves them so.             *)
LEMMA RisingTail ==
    ASSUME LinkAssumption, NEW s \in Seq(Frames), s # <<>>, NEW t, Link!Rising(s),
           \A k \in 1..Len(s) : s[k] <= t
    PROVE  Link!Rising(Tail(s)) /\ \A k \in 1..Len(Tail(s)) : Tail(s)[k] <= t
  <1> DEFINE r == Tail(s)
  <1>1. Len(s) \in Nat
    BY EmptySeq
  <1>2. Len(r) = Len(s) - 1 /\ \A i \in 1..Len(r) : r[i] = s[i+1]
    BY HeadTailProperties
  <1> HIDE DEF r
  <1>3. \A i \in 1..Len(r) : r[i] = s[i+1] /\ i + 1 \in 1..Len(s)
    BY <1>1, <1>2
  <1>4. ASSUME NEW i \in 1..Len(r), NEW j \in 1..Len(r), i < j, r[i] # 0, r[j] # 0
        PROVE  r[i] < r[j]
    <2>1. i + 1 < j + 1
      BY <1>1, <1>2, <1>4
    <2> QED BY <1>3, <1>4, <2>1 DEF Link!Rising
  <1>5. Link!Rising(r) /\ \A k \in 1..Len(r) : r[k] <= t
    BY <1>3, <1>4 DEF Link!Rising
  <1> QED BY <1>5 DEF r

LEMMA RisingAppend ==
    ASSUME LinkAssumption, NEW s \in Seq(Frames), NEW t \in Frames, Link!Rising(s),
           \A k \in 1..Len(s) : s[k] <= t,
           NEW f \in Frames, f = 0 \/ f > t
    PROVE  LET u == IF f = 0 THEN t ELSE f
           IN  /\ Link!Rising(Append(s, f))
               /\ \A k \in 1..Len(Append(s, f)) : Append(s, f)[k] <= u
  <1> DEFINE u == IF f = 0 THEN t ELSE f
             r == Append(s, f)
  <1>1. Len(s) \in Nat /\ t \in Nat /\ f \in Nat /\ \A k \in 1..Len(s) : s[k] \in Nat
    BY EmptySeq, ElementOfSeq DEF Frames, LinkAssumption
  <1>2. Len(r) = Len(s) + 1 /\ r[Len(s) + 1] = f /\ \A i \in 1..Len(s) : r[i] = s[i]
    BY AppendProperties
  <1> HIDE DEF r
  <1>3. u \in Nat /\ t <= u /\ f <= u
    BY <1>1
  <1> HIDE DEF u
  <1>4. ASSUME NEW k \in 1..Len(r) PROVE r[k] <= u
    <2>1. CASE k = Len(s) + 1
      BY <1>2, <1>3, <2>1
    <2>2. CASE k \in 1..Len(s)
      BY <1>1, <1>2, <1>3, <2>2
    <2> QED BY <1>1, <1>2, <2>1, <2>2
  <1>5. ASSUME NEW i \in 1..Len(r), NEW j \in 1..Len(r), i < j, r[i] # 0, r[j] # 0
        PROVE  r[i] < r[j]
    <2>1. i \in 1..Len(s) /\ r[i] = s[i]
      BY <1>1, <1>2, <1>5
    <2>2. CASE j = Len(s) + 1
      <3>1. s[i] <= t /\ r[j] = f /\ f > t
        BY <1>2, <1>5, <2>1, <2>2
      <3> QED BY <1>1, <2>1, <3>1
    <2>3. CASE j \in 1..Len(s)
      BY <1>2, <1>5, <2>1, <2>3 DEF Link!Rising
    <2> QED BY <1>1, <1>2, <2>2, <2>3
  <1>6. Link!Rising(r) /\ \A k \in 1..Len(r) : r[k] <= u
    BY <1>4, <1>5 DEF Link!Rising
  <1> QED BY <1>6 DEF r, u

(* The first sequence gives up its first element, or the second its own to  *)
(* the first.                                                               *)
LEMMA TailJoined ==
    ASSUME NEW S, NEW s \in Seq(S), NEW w \in Seq(S), s # <<>>
    PROVE  Tail(s) \o w = Tail(s \o w) /\ s \o w # <<>>
  <1> DEFINE l == Tail(s) \o w
             u == s \o w
             r == Tail(u)
             t == Tail(s)
  <1>1. Len(s) \in Nat \ {0} /\ Len(w) \in Nat
    BY EmptySeq
  <1>2. /\ u \in Seq(S) /\ Len(u) = Len(s) + Len(w)
        /\ \A i \in 1 .. Len(s) + Len(w) : u[i] = IF i <= Len(s) THEN s[i] ELSE w[i - Len(s)]
    BY ConcatProperties
  <1>3. t \in Seq(S) /\ Len(t) = Len(s) - 1 /\ \A i \in 1..Len(t) : t[i] = s[i+1]
    BY HeadTailProperties
  <1>4. l = t \o w
    OBVIOUS
  <1> HIDE DEF l, u, t
  <1>5. u # <<>>
    BY <1>1, <1>2, EmptySeq
  <1>6. r \in Seq(S) /\ Len(r) = Len(u) - 1 /\ \A i \in 1..Len(r) : r[i] = u[i+1]
    BY <1>2, <1>5, HeadTailProperties
  <1>7. /\ l \in Seq(S) /\ Len(l) = Len(t) + Len(w)
        /\ \A i \in 1 .. Len(t) + Len(w) : l[i] = IF i <= Len(t) THEN t[i] ELSE w[i - Len(t)]
    BY <1>3, <1>4, ConcatProperties
  <1> HIDE DEF r
  <1>8. Len(l) = Len(r)
    BY <1>1, <1>2, <1>3, <1>6, <1>7
  <1>9. ASSUME NEW i \in 1..Len(l) PROVE l[i] = r[i]
    <2>1. r[i] = u[i+1] /\ i + 1 \in 1..Len(s)+Len(w)
      BY <1>1, <1>2, <1>6, <1>8
    <2>2. CASE i <= Len(t)
      BY <1>1, <1>2, <1>3, <1>7, <2>1, <2>2
    <2>3. CASE i > Len(t)
      <3>1. l[i] = w[i - Len(t)] /\ u[i+1] = w[(i + 1) - Len(s)] /\ (i + 1) - Len(s) = i - Len(t)
        BY <1>1, <1>2, <1>3, <1>7, <2>1, <2>3
      <3> QED BY <2>1, <3>1
    <2> QED BY <1>1, <1>3, <2>2, <2>3
  <1>10. l = r
    BY <1>6, <1>7, <1>8, <1>9, SeqEqual
  <1> QED BY <1>5, <1>10 DEF l, r, u, t

LEMMA HeadJoined ==
    ASSUME NEW S, NEW s \in Seq(S), s # <<>>
    PROVE  <<Head(s)>> \o Tail(s) = s
  <1>1. Len(s) \in Nat \ {0} /\ 1 \in 1..Len(s) /\ Len(s) \in 1..Len(s)
    BY EmptySeq
  <1>2. SubSeq(s, 1, Len(s)) = <<s[1]>> \o SubSeq(s, 1 + 1, Len(s))
    BY <1>1, SubSeqRecursiveFirst
  <1>3. SubSeq(s, 1, Len(s)) = s /\ Tail(s) = SubSeq(s, 2, Len(s)) /\ Head(s) = s[1] /\ 1 + 1 = 2
    BY <1>1, SubSeqFull, TailIsSubSeq
  <1> QED BY <1>2, <1>3

(* What FrameLink's variables stand for are sequences of frames.            *)
Carries == Buffer \in Seq(Frames) /\ Flight \in Seq(Frames) /\ sent \in Frames

LEMMA CarriesFrames ==
    ASSUME LinkAssumption, IInv
    PROVE  Carries
  <1>1. TypeOK /\ ArrivingIs /\ <<>> \in Seq(Frames)
    BY ArrivingKnown, EmptySeq DEF IInv
  <1>2. CASE ~LinkUp
    BY <1>1, <1>2 DEF Carries, Buffer, Flight, TypeOK
  <1>3. CASE LinkUp
    <2>1. NoneTorn /\ ring \in Seq(Frames \cup {Torn}) /\ Len(ring) \in Nat
      BY <1>1, <1>3, EmptySeq DEF IInv, LinkUp, TypeOK
    <2>2. \A k \in 1..Len(ring) : ring[k] \in Frames
      <3> DEFINE R == Frames \cup {Torn}
      <3>1. ring \in Seq(R)
        BY <2>1
      <3> HIDE DEF R
      <3>2. \A k \in 1..Len(ring) : ring[k] \in R
        BY <3>1, ElementOfSeq
      <3> QED BY <2>1, <3>2 DEF R, NoneTorn
    <2>3. ring \in Seq(Frames)
      <3>1. ring \in [1..Len(ring) -> Frames \cup {Torn}]
        BY <2>1, LenProperties
      <3>2. ring \in [1..Len(ring) -> Frames]
        BY <2>2, <3>1
      <3> QED BY <2>1, <3>2
    <2>4. Arriving \in Seq(Bytes)
      <3>1. CASE Unused
        <4>1. Arriving = <<>>
          BY <1>1, <1>3, <3>1 DEF ArrivingIs, Live, LinkUp
        <4> QED BY <4>1, EmptySeq
      <3>2. CASE ~Unused
        BY <1>1, <1>3, <3>2 DEF ArrivingIs, Live, LinkUp, Unused
      <3> QED BY <3>1, <3>2
    <2>5. InFlight = FramesIn(Arriving)
      BY DEF InFlight, FramesIn
    <2>6. InFlight \in Seq(Frames)
      BY <2>4, <2>5, FramesOf
    <2> QED BY <1>1, <1>3, <2>3, <2>6 DEF Carries, Buffer, Flight, TypeOK
  <1> QED BY <1>2, <1>3

LEMMA JoinedFrames ==
    \A s, w, v \in Seq(Frames) : (s \o w) \o v = s \o (w \o v)
  BY ConcatAssociative

(* Every step of FrameLink keeps what it carries rising.                    *)
LEMMA OnceStep ==
    ASSUME LinkAssumption, Carries, Link!OnceInOrder,
           [Link!Next]_<<LinkUp, Flight, Buffer, sent>>
    PROVE  Link!OnceInOrder'
  <1> DEFINE all == Buffer \o Flight
  <1>1. /\ Link!Rising(all) /\ \A k \in 1..Len(all) : all[k] <= sent
        /\ Buffer \in Seq(Frames) /\ Flight \in Seq(Frames) /\ sent \in Frames
    BY DEF Carries, Link!OnceInOrder, Link!Carried, Buffer, Flight
  <1>2. all \in Seq(Frames)
    BY <1>1, ConcatProperties
  <1>goal. ASSUME Link!Rising(all)', \A k \in 1..Len(all)' : all'[k] <= sent'
           PROVE  Link!OnceInOrder'
    BY <1>goal DEF Link!OnceInOrder, Link!Carried, Link!Rising, Buffer, Flight
  <1>same. ASSUME all' = all, sent' = sent PROVE Link!OnceInOrder'
    <2>1. Link!Rising(all') /\ \A k \in 1..Len(all') : all'[k] <= sent'
      BY <1>1, <1>same
    <2> QED BY <1>goal, <2>1 DEF Link!Rising
  <1>less. ASSUME all # <<>>, all' = Tail(all), sent' = sent PROVE Link!OnceInOrder'
    <2> HIDE DEF all
    <2>1. Link!Rising(Tail(all)) /\ \A k \in 1..Len(Tail(all)) : Tail(all)[k] <= sent
      BY <1>1, <1>2, <1>less, RisingTail
    <2>2. Link!Rising(all') /\ \A k \in 1..Len(all') : all'[k] <= sent'
      BY <2>1, <1>less
    <2> QED BY <1>goal, <2>2 DEF Link!Rising
  <1>more. ASSUME NEW f \in Frames, f = 0 \/ f > sent, all' = Append(all, f),
                  sent' = IF f = 0 THEN sent ELSE f
           PROVE  Link!OnceInOrder'
    <2> HIDE DEF all
    <2>1. /\ Link!Rising(Append(all, f))
          /\ \A k \in 1..Len(Append(all, f)) : Append(all, f)[k] <= IF f = 0 THEN sent ELSE f
      BY <1>1, <1>2, <1>more, RisingAppend
    <2>2. Link!Rising(all') /\ \A k \in 1..Len(all') : all'[k] <= sent'
      BY <2>1, <1>more
    <2> QED BY <1>goal, <2>2 DEF Link!Rising
  <1>3. ASSUME NEW f \in 0..MaxFrames, Link!Send(f) PROVE Link!OnceInOrder'
    <2>1. /\ f \in Frames /\ (f = 0 \/ f > sent) /\ sent' = IF f = 0 THEN sent ELSE f
          /\ Buffer' = Buffer /\ Flight' = Append(Flight, f)
      BY <1>3 DEF Link!Send, Link!Fresh, Link!Latest, Buffer, Flight, Frames
    <2>2. all' = Buffer \o Append(Flight, f)
      BY <2>1
    <2> DEFINE x == <<f>>
    <2>3. Append(Flight, f) = Flight \o x /\ Append(all, f) = all \o x /\ x \in Seq(Frames)
      BY <1>1, <1>2, <2>1, AppendIsConcat
    <2> HIDE DEF x
    <2>4. Buffer \o (Flight \o x) = (Buffer \o Flight) \o x
      BY <1>1, <2>3, ConcatAssociative
    <2> QED BY <1>more, <2>1, <2>2, <2>3, <2>4
  <1>4. ASSUME NEW f \in 0..MaxFrames, Link!Lose(f) PROVE Link!OnceInOrder'
    <2>1. /\ f \in Nat /\ (f = 0 \/ f > sent) /\ sent' = IF f = 0 THEN sent ELSE f
          /\ Buffer' = Buffer /\ Flight' = Flight
      BY <1>4 DEF Link!Lose, Link!Fresh, Link!Latest, Buffer, Flight, LinkAssumption
    <2>2. all' = all /\ sent \in Nat /\ \A k \in 1..Len(all) : all[k] \in Nat
      BY <1>1, <1>2, <2>1, ElementOfSeq DEF Frames, LinkAssumption
    <2> HIDE DEF all
    <2>3. Link!Rising(all') /\ \A k \in 1..Len(all') : all'[k] <= sent'
      BY <1>1, <2>1, <2>2
    <2> QED BY <1>goal, <2>3 DEF Link!Rising
  <1>5. CASE Link!Deliver
    <2>1. /\ Flight # <<>> /\ Flight' = Tail(Flight) /\ sent' = sent
          /\ Buffer' = (IF Len(Buffer) < RingCapacity THEN Buffer ELSE Tail(Buffer)) \o <<Head(Flight)>>
      BY <1>5 DEF Link!Deliver, Buffer, Flight
    <2> DEFINE b == IF Len(Buffer) < RingCapacity THEN Buffer ELSE Tail(Buffer)
               x == <<Head(Flight)>>
               t == Tail(Flight)
    <2>2. x \in Seq(Frames) /\ t \in Seq(Frames) /\ x \o t = Flight
      <3>1. Head(Flight) \in Frames /\ t \in Seq(Frames)
        BY <1>1, <2>1, HeadTailProperties
      <3> QED BY <1>1, <2>1, <3>1, HeadJoined
    <2>3. ASSUME ~(Len(Buffer) < RingCapacity)
          PROVE  Buffer # <<>> /\ Tail(Buffer) \in Seq(Frames)
      <3>1. Buffer # <<>>
        BY <1>1, <2>3, EmptySeq DEF LinkAssumption
      <3> QED BY <1>1, <3>1, HeadTailProperties
    <2>4. b \in Seq(Frames)
      BY <1>1, <2>3
    <2>5. Buffer' = b \o x /\ Flight' = t
      BY <2>1
    <2> HIDE DEF b, x, t
    <2>6. all' = b \o Flight
      <3>1. (b \o x) \o t = b \o (x \o t)
        BY <2>2, <2>4, JoinedFrames
      <3> QED BY <2>2, <2>5, <3>1
    <2>7. CASE b = Buffer
      BY <1>same, <2>1, <2>6, <2>7
    <2>8. CASE b # Buffer
      <3>1. b = Tail(Buffer) /\ Buffer # <<>>
        BY <2>3, <2>8 DEF b
      <3>2. b \o Flight = Tail(all) /\ all # <<>>
        BY <1>1, <3>1, TailJoined
      <3> QED BY <1>less, <2>1, <2>6, <3>2
    <2> QED BY <2>7, <2>8
  <1>6. CASE Link!Play
    <2>1. Buffer # <<>> /\ Buffer' = Tail(Buffer) /\ Flight' = Flight /\ sent' = sent
      BY <1>6 DEF Link!Play, Buffer, Flight
    <2>2. Tail(Buffer) \o Flight = Tail(all) /\ all # <<>>
      BY <1>1, <2>1, TailJoined
    <2> QED BY <1>less, <2>1, <2>2
  <1>7. CASE Link!Rise \/ UNCHANGED <<LinkUp, Flight, Buffer, sent>>
    <2>1. Buffer' = Buffer /\ Flight' = Flight /\ sent' = sent
      BY <1>7 DEF Link!Rise, Buffer, Flight
    <2> QED BY <1>same, <2>1
  <1>8. CASE Link!Fall
    <2>1. Buffer' = <<>> /\ Flight' = <<>>
      BY <1>8 DEF Link!Fall, Buffer, Flight
    <2>2. all' = <<>> /\ Len(<<>>) = 0
      BY <2>1, EmptySeq, ConcatEmptySeq
    <2> HIDE DEF all
    <2>3. Link!Rising(all)' /\ \A k \in 1..Len(all)' : all'[k] <= sent'
      BY <2>2 DEF Link!Rising
    <2> QED BY <1>goal, <2>3
  <1> QED BY <1>3, <1>4, <1>5, <1>6, <1>7, <1>8 DEF Link!Next, Flight, Buffer

(* Nothing comes twice: the programme frames that Tower holds and that are  *)
(* on their way to it are in the order of their numbers, none of them       *)
(* twice, and the next to be sent is behind them all.  What has been played *)
(* was in front of them.                                                    *)
THEOREM ProgrammeOnce == Spec => []Link!OnceInOrder
  <1> USE LinkAssumption
  <1>1. Init => Link!OnceInOrder
    <2>1. SUFFICES ASSUME Init PROVE Link!OnceInOrder
      OBVIOUS
    <2>2. ~LinkUp /\ sent = 0
      BY <2>1 DEF Init, LinkUp
    <2>3. <<>> \o <<>> = <<>> /\ Len(<<>>) = 0
      BY EmptySeq, ConcatEmptySeq
    <2> QED BY <2>2, <2>3 DEF Link!OnceInOrder, Link!Carried, Link!Rising
  <1>2. IInv => ArrivingIs /\ Carries
    BY ArrivingKnown, CarriesFrames
  <1>3. /\ IInv /\ IInv' /\ InOrder /\ ArrivingIs /\ ArrivingIs' /\ Carries
        /\ Link!OnceInOrder /\ [Next]_vars
        => Link!OnceInOrder'
    BY LinkStep, OnceStep
  <1> QED BY <1>1, <1>2, <1>3, Invariance, SentInOrder, PTL DEF Spec
=============================================================================
