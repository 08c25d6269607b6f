------------------------- MODULE HcicsCameraProofs --------------------------
(***************************************************************************)
(* Proofs about HcicsCamera, for every length of a frame and every size of  *)
(* the ring: the parser stays within its buffer, frames are not spliced,    *)
(* and one whole frame brings the parser back into step.                    *)
(***************************************************************************)
EXTENDS HcicsCamera, SequenceTheorems, TLAPS

\* The variables hold sequences of bytes, in the ring those of the camera with their own
\* heads and tails; and a place on the wire.
SentOK(b) == (b.p = 1 => b.v = "head") /\ (b.p = FrameLen => b.v = "tail")
Shapes ==
  /\ ring \in Seq(Bytes) /\ \A i \in 1 .. Len(ring) : SentOK(ring[i])
  /\ buf \in Seq(Bytes) /\ latest \in Seq(Bytes)
  /\ prev \in [f : 0 .. 1, p : 0 .. FrameLen]

\* The parser collects from a byte with the value of a head, up to the byte read last; a
\* published frame has such a byte first and one with the value of a tail last.
Collects ==
  /\ state = 1 =>
       buf[1].v = "head" /\ prev = [f |-> buf[index].f, p |-> buf[index].p]
  /\ latest # <<>> => latest[1].v = "head" /\ latest[FrameLen].v = "tail"

\* Bytes 1 to n of a frame, if none was garbled and fewer, m, were lost than a frame has:
\* the last is as far behind the first as bytes were read and lost, round the two numbers of
\* frames; and without loss they are the first n bytes of one frame of the camera.
Accounted(s, n, m) ==
  (\A i \in 1 .. n : s[i].p # 0) /\ m < FrameLen =>
    /\ \/ Offset(s[n]) = Offset(s[1]) + m + n - 1
       \/ Offset(s[n]) = Offset(s[1]) + m + n - 1 - 2 * FrameLen
    /\ m = 0 /\ s[1].p = 1 => \A i \in 1 .. n : s[i].p = i /\ s[i].f = s[1].f

Accounts ==
  /\ state = 1 => Accounted(buf, index, lost)
  /\ latest # <<>> => Accounted(latest, FrameLen, lost)

\* The buffer holds the frame of the camera that is being read, from its head.
Aligned ==
  /\ state = 1 /\ index = prev.p
  /\ \A i \in 1 .. index : buf[i].p = i /\ buf[i].f = prev.f

\* While a frame without another head is read from its head, the parser has it from the
\* beginning, or still has an older frame that ends before this one does, or waits for a
\* head and finds none.  So it is in step when that frame has ended.
InStep ==
  /\ calm = 1 =>
       prev.p \in 1 .. FrameLen - 1 /\ (state = 0 \/ index > prev.p \/ Aligned)
  /\ calm >= 2 =>
       /\ prev.p \in 1 .. FrameLen
       /\ IF prev.p = FrameLen THEN state = 0 ELSE Aligned

IInv == TypeOK /\ Shapes /\ Collects /\ Accounts /\ InStep

-----------------------------------------------------------------------------
(* The wire.                                                               *)

\* The length of a frame, as the provers need it.
LEMMA LenType == FrameLen \in Nat /\ FrameLen >= 4 /\ RingSize \in Nat /\ RingSize >= 2
BY CameraAssumption

\* The camera goes from place to place.
LEMMA SuccessorType ==
  ASSUME NEW s \in Place
  PROVE  Successor(s) \in Place
BY LenType DEF Place, Successor

\* The camera's own bytes: head first, tail last.
LEMMA SendableIs ==
  ASSUME NEW q \in 1 .. FrameLen, NEW v \in Sendable(q)
  PROVE  v \in Value /\ (q = 1 => v = "head") /\ (q = FrameLen => v = "tail")
<1>1. CASE q = 1
  <2>1. Sendable(q) = {"head"} BY <1>1, LenType DEF Sendable
  <2> QED BY <1>1, <2>1, LenType DEF Value
<1>2. CASE q = 2
  <2>1. Sendable(q) = {"mode", "other"} BY <1>2, LenType DEF Sendable
  <2> QED BY <1>2, <2>1, LenType DEF Value
<1>3. CASE q = FrameLen
  <2>1. q # 1 /\ q # 2 BY <1>3, LenType
  <2>2. Sendable(q) = {"tail"} BY <1>3, <2>1 DEF Sendable
  <2> QED BY <2>1, <2>2 DEF Value
<1>4. CASE q \notin {1, 2, FrameLen}
  <2>1. Sendable(q) = {"head", "tail", "other"} BY <1>4 DEF Sendable
  <2> QED BY <1>4, <2>1 DEF Value
<1> QED BY <1>1, <1>2, <1>3, <1>4

\* rt_hw_serial_isr keeps the ring below its size.
LEMMA ReceivedIs ==
  ASSUME IInv, NEW b \in Bytes, SentOK(b), Received(b)
  PROVE  /\ ring' \in Seq(Bytes) /\ Len(ring') < RingSize
         /\ \A i \in 1 .. Len(ring') : SentOK(ring'[i])
<1>1. /\ ring \in Seq(Bytes) /\ Len(ring) \in Nat /\ Len(ring) < RingSize
      /\ \A i \in 1 .. Len(ring) : SentOK(ring[i])
  BY DEF IInv, TypeOK, Shapes
<1>2. CASE Len(ring) + 1 < RingSize
  <2>1. ring' = Append(ring, b) BY <1>2 DEF Received
  <2>2. /\ ring' \in Seq(Bytes) /\ Len(ring') = Len(ring) + 1
        /\ \A i \in 1 .. Len(ring) : ring'[i] = ring[i]
        /\ ring'[Len(ring) + 1] = b
    BY <1>1, <2>1, AppendProperties
  <2> QED BY <1>1, <1>2, <2>2, LenType
<1>3. CASE ~(Len(ring) + 1 < RingSize)
  <2>1. ring' = Append(Tail(ring), b) BY <1>3 DEF Received
  <2>2. ring # <<>> BY <1>1, <1>3, LenType
  <2>3. /\ Tail(ring) \in Seq(Bytes) /\ Len(Tail(ring)) = Len(ring) - 1
        /\ \A i \in 1 .. Len(Tail(ring)) : Tail(ring)[i] = ring[i + 1]
    BY <1>1, <2>2, HeadTailProperties
  <2>4. /\ ring' \in Seq(Bytes) /\ Len(ring') = Len(Tail(ring)) + 1
        /\ \A i \in 1 .. Len(Tail(ring)) : ring'[i] = Tail(ring)[i]
        /\ ring'[Len(Tail(ring)) + 1] = b
    BY <2>1, <2>3, AppendProperties
  <2>5. Len(ring') = Len(ring) BY <1>1, <2>3, <2>4
  <2>6. ASSUME NEW i \in 1 .. Len(ring') PROVE SentOK(ring'[i])
    <3>1. CASE i = Len(ring)
      <4>1. ring'[i] = b BY <1>1, <2>3, <2>4, <3>1
      <4> QED BY <4>1
    <3>2. CASE i # Len(ring)
      <4>1. i \in 1 .. Len(Tail(ring)) /\ i + 1 \in 1 .. Len(ring)
        <5>1. i \in Nat /\ 1 <= i /\ i <= Len(ring) BY <1>1, <2>5
        <5>2. PICK n \in Nat : n = Len(ring) BY <1>1
        <5>3. i <= n - 1 /\ Len(Tail(ring)) = n - 1
          <6>1. i # n /\ i <= n /\ Len(Tail(ring)) = n - 1 BY <2>3, <3>2, <5>1, <5>2
          <6> QED BY <5>1, <6>1
        <5>4. i \in 1 .. n - 1 /\ i + 1 \in 1 .. n BY <5>1, <5>3
        <5> QED BY <5>2, <5>3, <5>4
      <4>2. ring'[i] = ring[i + 1] BY <2>3, <2>4, <4>1
      <4> QED BY <1>1, <4>1, <4>2
    <3> QED BY <3>1, <3>2
  <2> QED BY <1>1, <2>4, <2>5, <2>6
<1> QED BY <1>2, <1>3

\* A byte that arrives is one of the camera's, or garbled.
LEMMA Arrives ==
  ASSUME IInv, Isr \/ IsrGarbled
  PROVE  \E b \in Bytes : SentOK(b) /\ Received(b)
<1>1. CASE Isr
  <2>1. PICK v \in Sendable(sending.p) :
          Received([v |-> v, f |-> sending.f, p |-> sending.p])
    BY <1>1 DEF Isr
  <2>2. sending.f \in 0 .. 1 /\ sending.p \in 1 .. FrameLen BY DEF IInv, TypeOK, Place
  <2>3. v \in Value /\ (sending.p = 1 => v = "head") /\ (sending.p = FrameLen => v = "tail")
    BY <2>2, SendableIs
  <2>4. /\ [v |-> v, f |-> sending.f, p |-> sending.p] \in Bytes
        /\ SentOK([v |-> v, f |-> sending.f, p |-> sending.p])
    BY <2>2, <2>3, LenType DEF Bytes, SentOK
  <2> QED BY <2>1, <2>4
<1>2. CASE IsrGarbled
  <2>1. PICK v \in Value : Received([v |-> v, f |-> 0, p |-> 0]) BY <1>2 DEF IsrGarbled
  <2>2. [v |-> v, f |-> 0, p |-> 0] \in Bytes /\ SentOK([v |-> v, f |-> 0, p |-> 0])
    BY LenType DEF Bytes, SentOK
  <2> QED BY <2>1, <2>2
<1> QED BY <1>1, <1>2

\* The line and the interrupt leave the parser alone.
LEMMA LineStep ==
  ASSUME IInv, Isr \/ IsrGarbled \/ LineLoss
  PROVE  IInv'
<1>1. sending' \in Place /\ UNCHANGED <<state, index, buf, latest, prev, lost, calm>>
  BY SuccessorType DEF IInv, TypeOK, Isr, IsrGarbled, LineLoss
<1>2. /\ ring' \in Seq(Bytes) /\ Len(ring') < RingSize
      /\ \A i \in 1 .. Len(ring') : SentOK(ring'[i])
  <2>1. CASE Isr \/ IsrGarbled
    <3>1. PICK b \in Bytes : SentOK(b) /\ Received(b) BY <2>1, Arrives
    <3> QED BY <3>1, ReceivedIs
  <2>2. CASE LineLoss BY <2>2 DEF LineLoss, IInv, TypeOK, Shapes
  <2> QED BY <2>1, <2>2
<1>3. TypeOK'
  <2>1. \A i \in 1 .. Len(ring') : ring'[i] \in Bytes BY <1>2
  <2> QED BY <1>1, <1>2, <2>1 DEF IInv, TypeOK
<1>4. Shapes' BY <1>1, <1>2 DEF IInv, Shapes
<1>5. Collects' /\ Accounts' /\ InStep'
  BY <1>1 DEF IInv, Collects, Accounts, Accounted, InStep, Aligned
<1> QED BY <1>3, <1>4, <1>5 DEF IInv

-----------------------------------------------------------------------------
(* The bytes that were lost.                                               *)

\* How far a place is behind the beginning of frame 0.
LEMMA OffsetIs ==
  ASSUME NEW s, s.f \in 0 .. 1, s.p \in 0 .. FrameLen
  PROVE  /\ s.f = 0 => Offset(s) = s.p
         /\ s.f = 1 => Offset(s) = FrameLen + s.p
BY LenType DEF Offset

\* A remainder modulo two frames, for numbers below four frames.
LEMMA Remainder ==
  ASSUME NEW w \in Nat, w > 0, NEW x \in Nat, x < 2 * w
  PROVE  x % w = IF x < w THEN x ELSE x - w
<1>1. CASE x < w BY <1>1
<1>2. CASE ~(x < w)
  <2>1. x = 1 * w + (x - w) /\ x - w \in 0 .. w - 1 BY <1>2
  <2> QED BY <1>2, <2>1
<1> QED BY <1>1, <1>2

\* The bytes lost between two that were read, when neither was garbled.
LEMMA GapIs ==
  ASSUME NEW a, a.f \in 0 .. 1, a.p \in 1 .. FrameLen,
         NEW b, b.f \in 0 .. 1, b.p \in 1 .. FrameLen
  PROVE  /\ Gap(a, b) \in 0 .. 2 * FrameLen - 1
         /\ \/ Offset(b) = Offset(a) + Gap(a, b) + 1
            \/ Offset(b) = Offset(a) + Gap(a, b) + 1 - 2 * FrameLen
         /\ Offset(a) \in 1 .. 2 * FrameLen /\ Offset(b) \in 1 .. 2 * FrameLen
<1> DEFINE w == 2 * FrameLen
           x == Offset(b) + w - Offset(a) - 1
<1>1. Offset(a) \in 1 .. w /\ Offset(b) \in 1 .. w BY OffsetIs, LenType
<1>2. w \in Nat /\ w > 0 BY LenType
<1>3. x \in Nat /\ x < 2 * w BY <1>1, <1>2
<1>4. Gap(a, b) = x % w BY DEF Gap
<1> HIDE DEF x, w
<1>5. Gap(a, b) = IF x < w THEN x ELSE x - w BY <1>2, <1>3, <1>4, Remainder
<1> QED BY <1>1, <1>2, <1>3, <1>5 DEF x, w


\* What was lost is counted up to a frame, whatever was read.
LEMMA LostType ==
  ASSUME IInv, NEW b \in Bytes
  PROVE  Lost(b) \in 0 .. FrameLen
<1>1. Offset(prev) \in Int /\ Offset(b) \in Int
  BY LenType DEF IInv, Shapes, Bytes, Offset
<1>2. Gap(prev, b) \in Nat
  <2> DEFINE x == Offset(b) + 2 * FrameLen - Offset(prev) - 1
             w == 2 * FrameLen
  <2>1. x \in Int /\ w \in Nat /\ w > 0 BY <1>1, LenType
  <2>2. Gap(prev, b) = x % w BY DEF Gap
  <2> HIDE DEF x, w
  <2> QED BY <2>1, <2>2
<1>3. lost \in 0 .. FrameLen BY DEF IInv, TypeOK
<1> QED BY <1>2, <1>3, LenType DEF Lost

\* The buffer with a byte more.
LEMMA Appended ==
  ASSUME IInv, NEW b \in Bytes
  PROVE  /\ Append(buf, b) \in Seq(Bytes) /\ Len(Append(buf, b)) = index + 1
         /\ \A i \in 1 .. index : Append(buf, b)[i] = buf[i] /\ buf[i] \in Bytes
         /\ Append(buf, b)[index + 1] = b
<1>1. buf \in Seq(Bytes) /\ Len(buf) = index BY DEF IInv, TypeOK, Shapes
<1> QED BY <1>1, AppendProperties

\* A byte more: what was lost before it is added.
LEMMA AccountedNext ==
  ASSUME IInv, state = 1, NEW b \in Bytes
  PROVE  Accounted(Append(buf, b), index + 1, Lost(b))
<1> DEFINE s == Append(buf, b)
           g == Gap(prev, b)
           first == buf[1]
           last == buf[index]
<1>1. index \in 1 .. FrameLen - 1 /\ lost \in 0 .. FrameLen BY LenType DEF IInv, TypeOK
<1>2. /\ \A i \in 1 .. index : s[i] = buf[i] /\ buf[i] \in Bytes
      /\ s[index + 1] = b
  BY Appended
<1> SUFFICES ASSUME \A i \in 1 .. index + 1 : s[i].p # 0, Lost(b) < FrameLen
             PROVE  /\ \/ Offset(b) = Offset(first) + Lost(b) + index
                       \/ Offset(b) = Offset(first) + Lost(b) + index - 2 * FrameLen
                    /\ Lost(b) = 0 /\ first.p = 1 =>
                         \A i \in 1 .. index + 1 : s[i].p = i /\ s[i].f = first.f
  <2>1. s[1] = first BY <1>1, <1>2
  <2>2. index + 1 - 1 = index BY <1>1
  <2>3. Lost(b) \in Int /\ Offset(first) \in Int
    BY <1>1, <1>2, LostType, LenType DEF Bytes, Offset
  <2>4. Offset(first) + Lost(b) + (index + 1) - 1 = Offset(first) + Lost(b) + index
    BY <1>1, <2>3
  <2>5. s[index + 1] = b BY <1>2
  <2> HIDE DEF s, first
  <2>6. Accounted(s, index + 1, Lost(b))
    BY <1>1, <2>1, <2>3, <2>4, <2>5, LenType DEF Accounted
  <2> QED BY <2>6 DEF s
<1>3. /\ \A i \in 1 .. index : buf[i].p # 0
      /\ b.p # 0
  <2>1. index \in Int /\ index + 1 \in 1 .. index + 1 BY <1>1
  <2> HIDE DEF s
  <2> QED BY <1>2, <2>1
<1>4. first \in Bytes /\ last \in Bytes /\ first.p # 0 /\ last.p # 0 BY <1>1, <1>2, <1>3
<1>5. prev = [f |-> last.f, p |-> last.p] BY DEF IInv, Collects
<1>6. /\ last.f \in 0 .. 1 /\ last.p \in 1 .. FrameLen
      /\ first.f \in 0 .. 1 /\ first.p \in 1 .. FrameLen
      /\ b.f \in 0 .. 1 /\ b.p \in 1 .. FrameLen
  BY <1>3, <1>4, LenType DEF Bytes
<1>7. prev.f = last.f /\ prev.p = last.p /\ Offset(prev) = Offset(last)
  BY <1>5 DEF Offset
<1>8. /\ g \in 0 .. 2 * FrameLen - 1
      /\ \/ Offset(b) = Offset(last) + g + 1
         \/ Offset(b) = Offset(last) + g + 1 - 2 * FrameLen
      /\ Offset(b) \in 1 .. 2 * FrameLen
  BY <1>6, <1>7, GapIs
<1>9. Offset(first) \in 1 .. 2 * FrameLen /\ Offset(last) \in 1 .. 2 * FrameLen
  BY <1>6, GapIs
<1> HIDE DEF s, g, first, last
<1>10. Lost(b) = lost + g /\ lost < FrameLen
  BY <1>1, <1>8, LenType DEF Lost, g
<1>11. /\ \/ Offset(last) = Offset(first) + lost + index - 1
          \/ Offset(last) = Offset(first) + lost + index - 1 - 2 * FrameLen
       /\ lost = 0 /\ first.p = 1 =>
            \A i \in 1 .. index : buf[i].p = i /\ buf[i].f = first.f
  BY <1>3, <1>10 DEF IInv, Accounts, Accounted, first, last
<1>12. \/ Offset(b) = Offset(first) + Lost(b) + index
       \/ Offset(b) = Offset(first) + Lost(b) + index - 2 * FrameLen
  BY <1>1, <1>8, <1>9, <1>10, <1>11, LenType
<1>13. ASSUME Lost(b) = 0, first.p = 1
       PROVE  \A i \in 1 .. index + 1 : s[i].p = i /\ s[i].f = first.f
  <2>1. lost = 0 /\ g = 0 BY <1>1, <1>8, <1>10, <1>13
  <2>2. \A i \in 1 .. index : buf[i].p = i /\ buf[i].f = first.f BY <1>11, <1>13, <2>1
  <2>3. last.p = index /\ last.f = first.f BY <1>1, <2>2 DEF last
  <2>4. b.p = index + 1 /\ b.f = first.f
    <3>1. /\ last.f = 0 => Offset(last) = last.p
          /\ last.f = 1 => Offset(last) = FrameLen + last.p
          /\ b.f = 0 => Offset(b) = b.p
          /\ b.f = 1 => Offset(b) = FrameLen + b.p
      BY <1>6, OffsetIs
    <3> QED BY <1>1, <1>6, <1>8, <2>1, <2>3, <3>1, LenType
  <2> QED BY <1>1, <1>2, <2>2, <2>4
<1> QED BY <1>12, <1>13

-----------------------------------------------------------------------------
(* The camera thread.                                                      *)

\* The byte that is read, and the ring without it.
LEMMA ByteRead ==
  ASSUME IInv, Read
  PROVE  /\ Head(ring) \in Bytes /\ SentOK(Head(ring))
         /\ ring' \in Seq(Bytes) /\ Len(ring') < RingSize
         /\ \A i \in 1 .. Len(ring') : SentOK(ring'[i])
         /\ prev' = [f |-> Head(ring).f, p |-> Head(ring).p]
         /\ prev' \in [f : 0 .. 1, p : 0 .. FrameLen]
         /\ UNCHANGED sending
<1>1. /\ ring \in Seq(Bytes) /\ ring # <<>> /\ Len(ring) \in Nat /\ Len(ring) < RingSize
      /\ \A i \in 1 .. Len(ring) : SentOK(ring[i])
  BY DEF IInv, TypeOK, Shapes, Read
<1>2. ring' = Tail(ring) BY DEF Read
<1>3. /\ Head(ring) = ring[1] /\ Head(ring) \in Bytes
      /\ ring' \in Seq(Bytes) /\ Len(ring') = Len(ring) - 1
      /\ \A i \in 1 .. Len(ring') : ring'[i] = ring[i + 1]
  BY <1>1, <1>2, HeadTailProperties
<1>4. SentOK(Head(ring)) BY <1>1, <1>3
<1>5. ASSUME NEW i \in 1 .. Len(ring') PROVE SentOK(ring'[i])
  <2>1. i + 1 \in 1 .. Len(ring) BY <1>1, <1>3, <1>5
  <2> QED BY <1>1, <1>3, <2>1
<1>6. prev' = [f |-> Head(ring).f, p |-> Head(ring).p] /\ UNCHANGED sending BY DEF Read
<1>7. prev' \in [f : 0 .. 1, p : 0 .. FrameLen] BY <1>3, <1>6 DEF Bytes
<1>8. Len(ring') < RingSize BY <1>1, <1>3, LenType
<1> QED BY <1>3, <1>4, <1>5, <1>6, <1>7, <1>8

\* The counter of calm frames.
LEMMA CalmIs ==
  ASSUME IInv, NEW b \in Bytes
  PROVE  /\ Calm(b) \in 0 .. 3
         /\ ~Follows(b) \/ calm = 0 => Calm(b) = IF b.p = 1 THEN 1 ELSE 0
         /\ Follows(b) /\ calm = 1 =>
              IF b.p # 1 /\ b.v = "head" THEN Calm(b) = 0
              ELSE IF b.p = FrameLen THEN Calm(b) = 2 ELSE Calm(b) = 1
         /\ Follows(b) /\ calm >= 2 => Calm(b) >= 2
<1>1. calm \in 0 .. 3 BY DEF IInv, TypeOK
<1>2. CASE ~Follows(b) BY <1>2 DEF Calm
<1>3. CASE Follows(b) /\ calm = 0 BY <1>3 DEF Calm
<1>4. CASE Follows(b) /\ calm = 1 BY <1>4 DEF Calm
<1>5. CASE Follows(b) /\ calm = 2 BY <1>5 DEF Calm
<1>6. CASE Follows(b) /\ calm = 3 BY <1>6, LenType DEF Calm
<1> QED BY <1>1, <1>2, <1>3, <1>4, <1>5, <1>6

\* hcics_protocol_camera_feed, as far as the books of the buffer go.
LEMMA FeedStep ==
  ASSUME IInv, Read
  PROVE  TypeOK' /\ Shapes' /\ Collects' /\ Accounts'
<1> DEFINE b == Head(ring)
<1>1. /\ b \in Bytes
      /\ ring' \in Seq(Bytes) /\ Len(ring') < RingSize
      /\ \A i \in 1 .. Len(ring') : SentOK(ring'[i])
      /\ prev' = [f |-> b.f, p |-> b.p]
      /\ prev' \in [f : 0 .. 1, p : 0 .. FrameLen]
      /\ UNCHANGED sending
  BY ByteRead
<1>2. Feed(b) /\ lost' = Lost(b) /\ calm' = Calm(b) BY DEF Read
<1>3. lost' \in 0 .. FrameLen /\ calm' \in 0 .. 3 BY <1>1, <1>2, LostType, CalmIs
<1>4. /\ state \in {0, 1} /\ index \in 0 .. FrameLen - 1 /\ (state = 0 <=> index = 0)
      /\ buf \in Seq(Bytes) /\ Len(buf) = index /\ sending \in Place
  BY DEF IInv, TypeOK, Shapes
<1> HIDE DEF b
<1>5. ASSUME buf' \in Seq(Bytes), Len(buf') = index', index' \in 0 .. FrameLen - 1,
             state' \in {0, 1}, state' = 0 <=> index' = 0,
             latest' \in Seq(Bytes), Len(latest') \in {0, FrameLen}
      PROVE  TypeOK' /\ Shapes'
  <2>1. /\ \A i \in 1 .. Len(ring') : ring'[i] \in Bytes
        /\ \A i \in 1 .. index' : buf'[i] \in Bytes
    BY <1>1, <1>5
  <2>2. TypeOK' BY <1>1, <1>3, <1>4, <1>5, <2>1 DEF TypeOK
  <2> QED BY <1>1, <1>5, <2>2 DEF Shapes
<1>6. CASE state = 0 /\ Seek(b)
  <2>1. latest' = <<>> BY <1>6 DEF Seek
  <2>2. CASE b.v = "head"
    <3>1. state' = 1 /\ index' = 1 /\ buf' = <<b>> BY <1>6, <2>2 DEF Seek
    <3>2. buf' \in Seq(Bytes) /\ Len(buf') = 1 /\ buf'[1] = b BY <1>1, <3>1
    <3>3. TypeOK' /\ Shapes' BY <1>5, <2>1, <3>1, <3>2, LenType
    <3>4. Collects' BY <1>1, <2>1, <2>2, <3>1, <3>2 DEF Collects
    <3>5. lost' = 0 BY <1>2, <1>6 DEF Lost
    <3>6. Accounted(buf', 1, 0)
      <4>1. Offset(b) \in Int BY <1>1, LenType DEF Bytes, Offset
      <4>2. Offset(b) = Offset(b) + 0 + 1 - 1 BY <4>1
      <4> QED BY <3>2, <4>2 DEF Accounted
    <3>7. Accounts' BY <2>1, <3>1, <3>5, <3>6 DEF Accounts
    <3> QED BY <3>3, <3>4, <3>7
  <2>3. CASE b.v # "head"
    <3>1. UNCHANGED <<state, index, buf>> BY <1>6, <2>3 DEF Seek
    <3>2. TypeOK' /\ Shapes' BY <1>4, <1>5, <2>1, <3>1, LenType
    <3>3. Collects' BY <1>6, <2>1, <3>1 DEF Collects
    <3>4. Accounts' BY <1>6, <2>1, <3>1 DEF Accounts
    <3> QED BY <3>2, <3>3, <3>4
  <2> QED BY <2>2, <2>3
<1>7. CASE state = 1 /\ index + 1 < FrameLen /\ Collect(b)
  <2>1. latest' = <<>> /\ state' = 1 /\ index' = index + 1 /\ buf' = Append(buf, b)
    BY <1>7 DEF Collect
  <2>2. /\ buf' \in Seq(Bytes) /\ Len(buf') = index + 1
        /\ \A i \in 1 .. index : buf'[i] = buf[i]
        /\ buf'[index + 1] = b
    BY <1>1, <2>1, Appended
  <2>3. TypeOK' /\ Shapes'
    <3>1. index' \in 0 .. FrameLen - 1 /\ index' # 0 BY <1>4, <1>7, <2>1, LenType
    <3> QED BY <1>5, <2>1, <2>2, <3>1, LenType
  <2>4. Collects'
    <3>1. buf'[1] = buf[1] BY <1>4, <1>7, <2>2
    <3>2. buf[1].v = "head" BY <1>7 DEF IInv, Collects
    <3> QED BY <1>1, <2>1, <2>2, <3>1, <3>2 DEF Collects
  <2>5. Accounts'
    <3>1. Accounted(buf', index', lost') BY <1>1, <1>2, <1>7, <2>1, AccountedNext
    <3> QED BY <2>1, <3>1 DEF Accounts
  <2> QED BY <2>3, <2>4, <2>5
<1>8. CASE state = 1 /\ index + 1 >= FrameLen /\ Complete(Append(buf, b))
  <2> DEFINE frame == Append(buf, b)
  <2>1. state' = 0 /\ index' = 0 /\ buf' = <<>> BY <1>8 DEF Complete
  <2>2. index + 1 = FrameLen BY <1>4, <1>8, LenType
  <2>3. /\ frame \in Seq(Bytes) /\ Len(frame) = FrameLen
        /\ \A i \in 1 .. index : frame[i] = buf[i]
    BY <1>1, <2>2, Appended
  <2>4. frame[1] = buf[1] /\ buf[1].v = "head"
    BY <1>4, <1>8, <2>3 DEF IInv, Collects
  <2>5. Accounted(frame, FrameLen, lost') BY <1>1, <1>2, <1>8, <2>2, AccountedNext
  <2> HIDE DEF frame
  <2>6. (latest' = frame /\ frame[FrameLen].v = "tail") \/ latest' = <<>>
    BY <1>8 DEF Complete, frame
  <2>7. TypeOK' /\ Shapes'
    <3>1. latest' \in Seq(Bytes) /\ Len(latest') \in {0, FrameLen}
      <4>1. CASE latest' = frame BY <2>3, <4>1
      <4>2. CASE latest' = <<>> BY <4>2
      <4> QED BY <2>6, <4>1, <4>2
    <3>2. buf' \in Seq(Bytes) /\ Len(buf') = index' /\ index' \in 0 .. FrameLen - 1
      BY <2>1, LenType
    <3> QED BY <1>5, <2>1, <3>1, <3>2
  <2>8. Collects' BY <2>1, <2>4, <2>6 DEF Collects
  <2>9. Accounts' BY <2>1, <2>5, <2>6 DEF Accounts
  <2> QED BY <2>7, <2>8, <2>9
<1> QED BY <1>2, <1>6, <1>7, <1>8 DEF Feed

\* A byte of the frame that the buffer holds from its head: it is collected, or it is
\* the last.
LEMMA AlignedNext ==
  ASSUME IInv, Read, Aligned, Follows(Head(ring)), prev.p < FrameLen
  PROVE  /\ Head(ring).p = prev.p + 1 /\ Head(ring).f = prev.f
         /\ Head(ring).p = FrameLen =>
              index + 1 = FrameLen /\ state' = 0 /\ Complete(Append(buf, Head(ring)))
         /\ Head(ring).p < FrameLen => Aligned'
<1> DEFINE b == Head(ring)
<1>1. b \in Bytes /\ prev' = [f |-> b.f, p |-> b.p] BY ByteRead
<1>2. prev \in [f : 0 .. 1, p : 0 .. FrameLen] BY DEF IInv, Shapes
<1>3. [f |-> b.f, p |-> b.p] = [f |-> prev.f, p |-> prev.p + 1] BY DEF Follows, Successor
<1>4. b.p = prev.p + 1 /\ b.f = prev.f BY <1>3
<1>5. Feed(b) BY DEF Read
<1>6. index \in 1 .. FrameLen - 1 /\ state = 1 /\ index = prev.p
  BY LenType DEF IInv, TypeOK, Aligned
<1> HIDE DEF b
<1>7. CASE b.p = FrameLen
  <2>1. Complete(Append(buf, b)) BY <1>4, <1>5, <1>6, <1>7, LenType DEF Feed
  <2> QED BY <1>4, <1>6, <1>7, <2>1 DEF Complete, b
<1>8. CASE b.p # FrameLen
  <2>1. Collect(b) BY <1>1, <1>4, <1>5, <1>6, <1>8, LenType DEF Feed, Bytes
  <2>2. state' = 1 /\ index' = index + 1 /\ buf' = Append(buf, b) BY <1>6, <2>1 DEF Collect
  <2>3. /\ \A i \in 1 .. index : buf'[i] = buf[i]
        /\ buf'[index + 1] = b
    BY <1>1, <2>2, Appended
  <2>4. prev'.p = index + 1 /\ prev'.f = prev.f BY <1>1, <1>4, <1>6
  <2>5. \A i \in 1 .. index + 1 : buf'[i].p = i /\ buf'[i].f = prev.f
    BY <1>4, <1>6, <2>3 DEF Aligned
  <2>6. Aligned' BY <2>2, <2>4, <2>5 DEF Aligned
  <2> QED BY <1>4, <1>8, <2>6 DEF b
<1> QED BY <1>7, <1>8

\* A head read in state 0 is the beginning of the buffer.
LEMMA HeadAligns ==
  ASSUME IInv, Read, state = 0, Head(ring).v = "head", Head(ring).p = 1
  PROVE  Aligned'
<1> DEFINE b == Head(ring)
<1>1. b \in Bytes /\ prev' = [f |-> b.f, p |-> b.p] BY ByteRead
<1>2. Feed(b) BY DEF Read
<1>3. state' = 1 /\ index' = 1 /\ buf' = <<b>> BY <1>2 DEF Feed, Seek
<1>4. buf'[1] = b BY <1>3
<1> HIDE DEF b
<1>5. prev'.p = 1 /\ prev'.f = b.f /\ b.p = 1 BY <1>1 DEF b
<1>6. \A i \in 1 .. index' : i = 1 BY <1>3
<1> QED BY <1>3, <1>4, <1>5, <1>6 DEF Aligned

\* The parser comes into step and stays there.
LEMMA InStepStep ==
  ASSUME IInv, Read
  PROVE  InStep'
<1> DEFINE b == Head(ring)
<1>1. b \in Bytes /\ SentOK(b) /\ prev' = [f |-> b.f, p |-> b.p] BY ByteRead
<1>2. Feed(b) /\ calm' = Calm(b) BY DEF Read
<1>3. /\ state \in {0, 1} /\ index \in 0 .. FrameLen - 1 /\ (state = 0 <=> index = 0)
      /\ calm \in 0 .. 3 /\ prev \in [f : 0 .. 1, p : 0 .. FrameLen]
  BY DEF IInv, TypeOK, Shapes
<1>4. /\ Calm(b) \in 0 .. 3
      /\ ~Follows(b) \/ calm = 0 => Calm(b) = IF b.p = 1 THEN 1 ELSE 0
      /\ Follows(b) /\ calm = 1 =>
           IF b.p # 1 /\ b.v = "head" THEN Calm(b) = 0
           ELSE IF b.p = FrameLen THEN Calm(b) = 2 ELSE Calm(b) = 1
      /\ Follows(b) /\ calm >= 2 => Calm(b) >= 2
  BY <1>1, CalmIs
<1>5. prev'.p = b.p /\ prev'.f = b.f /\ b.p \in 0 .. FrameLen /\ b.f \in 0 .. 1
  BY <1>1 DEF Bytes
<1>6. state = 1 => state' = 0 \/ (state' = 1 /\ index' = index + 1)
  <2>1. Collect(b) => state' = state /\ index' = index + 1 BY DEF Collect
  <2>2. Complete(Append(buf, b)) => state' = 0 BY DEF Complete
  <2> HIDE DEF b
  <2> QED BY <1>2, <2>1, <2>2 DEF Feed
<1>7. state = 0 /\ b.v # "head" => state' = 0
  BY <1>2 DEF Feed, Seek
<1>8. state = 0 /\ b.v = "head" /\ b.p = 1 => Aligned' BY HeadAligns
<1>9. Aligned /\ Follows(b) /\ prev.p < FrameLen =>
        /\ b.p = FrameLen => state' = 0
        /\ b.p < FrameLen => Aligned'
  BY AlignedNext
<1>10. b.p = 1 => b.v = "head" BY <1>1 DEF SentOK
<1>11. ASSUME Follows(b)
       PROVE  IF prev.p < FrameLen THEN b.p = prev.p + 1 ELSE b.p = 1
  <2>1. [f |-> b.f, p |-> b.p] = Successor(prev) BY <1>11 DEF Follows
  <2> HIDE DEF b
  <2>2. CASE prev.p < FrameLen
    <3>1. [f |-> b.f, p |-> b.p] = [f |-> prev.f, p |-> prev.p + 1]
      BY <2>1, <2>2 DEF Successor
    <3> QED BY <2>2, <3>1
  <2>3. CASE ~(prev.p < FrameLen)
    <3>1. [f |-> b.f, p |-> b.p] = [f |-> 1 - prev.f, p |-> 1] BY <2>1, <2>3 DEF Successor
    <3> QED BY <2>3, <3>1
  <2> QED BY <2>2, <2>3
<1> HIDE DEF b
<1>12. CASE ~Follows(b) \/ calm = 0
  <2>1. CASE b.p # 1
    <3>1. calm' = 0 BY <1>2, <1>4, <1>12, <2>1
    <3> QED BY <3>1 DEF InStep
  <2>2. CASE b.p = 1
    <3>1. calm' = 1 /\ prev'.p = 1 BY <1>2, <1>4, <1>5, <1>12, <2>2
    <3>2. state' = 0 \/ index' > prev'.p \/ Aligned'
      BY <1>3, <1>6, <1>8, <1>10, <2>2, <3>1
    <3> QED BY <3>1, <3>2, LenType DEF InStep
  <2> QED BY <2>1, <2>2
<1>13. CASE Follows(b) /\ calm = 1
  <2>1. prev.p \in 1 .. FrameLen - 1 /\ (state = 0 \/ index > prev.p \/ Aligned)
    BY <1>13 DEF IInv, InStep
  <2>2. b.p = prev.p + 1 /\ b.p # 1 BY <1>11, <1>13, <2>1, LenType
  <2>3. CASE b.v = "head"
    <3>1. calm' = 0 BY <1>2, <1>4, <1>13, <2>2, <2>3
    <3> QED BY <3>1 DEF InStep
  <2>4. CASE b.v # "head" /\ b.p = FrameLen
    <3>1. calm' = 2 /\ prev'.p = FrameLen BY <1>2, <1>4, <1>5, <1>13, <2>4
    <3>2. ~(index > prev.p) BY <1>3, <2>1, <2>2, <2>4, LenType
    <3>3. state' = 0 BY <1>7, <1>9, <1>13, <2>1, <2>4, <3>2, LenType
    <3> QED BY <3>1, <3>3, LenType DEF InStep
  <2>5. CASE b.v # "head" /\ b.p # FrameLen
    <3>1. calm' = 1 /\ prev'.p = prev.p + 1 BY <1>2, <1>4, <1>5, <1>13, <2>2, <2>5
    <3>2. b.p < FrameLen BY <1>5, <2>5, LenType
    <3>3. state' = 0 \/ index' > prev'.p \/ Aligned'
      <4>1. CASE state = 0 BY <1>7, <2>5, <4>1
      <4>2. CASE index > prev.p
        <5>1. state = 1 BY <1>3, <2>1, <4>2
        <5> QED BY <1>3, <1>6, <2>1, <3>1, <4>2, <5>1
      <4>3. CASE Aligned BY <1>9, <1>13, <2>1, <3>2, <4>3, LenType
      <4> QED BY <2>1, <4>1, <4>2, <4>3
    <3>4. prev'.p \in 1 .. FrameLen - 1 BY <2>1, <2>2, <3>1, <3>2, LenType
    <3> QED BY <3>1, <3>3, <3>4 DEF InStep
  <2> QED BY <2>3, <2>4, <2>5
<1>14. CASE Follows(b) /\ calm >= 2
  <2>1. prev.p \in 1 .. FrameLen /\ IF prev.p = FrameLen THEN state = 0 ELSE Aligned
    BY <1>14 DEF IInv, InStep
  <2>2. calm' >= 2 /\ calm' # 1 BY <1>2, <1>4, <1>14
  <2>3. CASE prev.p = FrameLen
    <3>1. b.p = 1 BY <1>11, <1>14, <2>3, LenType
    <3>2. Aligned' BY <1>8, <1>10, <2>1, <2>3, <3>1
    <3>3. prev'.p \in 1 .. FrameLen /\ prev'.p # FrameLen BY <1>5, <3>1, LenType
    <3> QED BY <2>2, <3>2, <3>3 DEF InStep
  <2>4. CASE prev.p # FrameLen
    <3>1. prev.p < FrameLen /\ Aligned BY <2>1, <2>4, LenType
    <3>2. b.p = prev.p + 1 /\ prev'.p \in 1 .. FrameLen
      BY <1>5, <1>11, <1>14, <2>1, <3>1, LenType
    <3>3. IF prev'.p = FrameLen THEN state' = 0 ELSE Aligned'
      BY <1>5, <1>9, <1>14, <3>1, <3>2, LenType
    <3> QED BY <2>2, <3>2, <3>3 DEF InStep
  <2> QED BY <2>3, <2>4
<1> QED BY <1>3, <1>12, <1>13, <1>14

-----------------------------------------------------------------------------
(* The results.                                                            *)

\* The parser is zeroed and nothing has been read.
LEMMA InitInv == Init => IInv
<1> SUFFICES ASSUME Init PROVE IInv OBVIOUS
<1>1. TypeOK
  <2>1. sending \in Place BY DEF Init, Place
  <2> QED BY <2>1, LenType DEF Init, TypeOK
<1>2. Shapes BY LenType DEF Init, Shapes
<1>3. Collects /\ Accounts /\ InStep BY DEF Init, Collects, Accounts, InStep
<1> QED BY <1>1, <1>2, <1>3 DEF IInv

\* Every step of the line and of the camera thread keeps the invariant.
LEMMA NextInv == IInv /\ [Next]_vars => IInv'
<1> SUFFICES ASSUME IInv, [Next]_vars PROVE IInv' OBVIOUS
<1>1. CASE Isr \/ IsrGarbled \/ LineLoss BY <1>1, LineStep
<1>2. CASE Read BY <1>2, FeedStep, InStepStep DEF IInv
<1>3. CASE UNCHANGED vars
  BY <1>3 DEF vars, IInv, TypeOK, Shapes, Collects, Accounts, InStep, Aligned
<1> QED BY <1>1, <1>2, <1>3 DEF Next

\* The invariant of the link holds.
THEOREM Invariance == Spec => []IInv
BY InitInv, NextInv, PTL DEF Spec

\* The parser never writes outside its buffer, and its state, index and buffer agree.
THEOREM TypeCorrect == Spec => []TypeOK
<1>1. IInv => TypeOK BY DEF IInv
<1> QED BY <1>1, Invariance, PTL

\* The loss of fewer bytes than a frame has never mixes two frames.
THEOREM NoSpliceHolds == Spec => []NoSplice
<1>1. IInv => NoSplice
  <2> SUFFICES ASSUME IInv, latest # <<>> PROVE NoSplice BY DEF NoSplice
  <2>0. /\ latest[1].v = "head" /\ latest[FrameLen].v = "tail"
        /\ lost \in 0 .. FrameLen
    BY DEF IInv, Collects, TypeOK
  <2> SUFFICES ASSUME \A i \in 1 .. FrameLen : latest[i].p # 0, latest[1].p = 1,
                      latest[FrameLen].p = FrameLen, lost < FrameLen
               PROVE  Genuine(latest)
    BY <2>0, LenType DEF NoSplice
  <2> DEFINE first == latest[1]
             last == latest[FrameLen]
  <2>1. latest \in Seq(Bytes) /\ Len(latest) = FrameLen
    BY LenType DEF IInv, TypeOK, Shapes
  <2>2. first \in Bytes /\ last \in Bytes BY <2>1, LenType
  <2>3. /\ \/ Offset(last) = Offset(first) + lost + FrameLen - 1
           \/ Offset(last) = Offset(first) + lost + FrameLen - 1 - 2 * FrameLen
        /\ lost = 0 => \A i \in 1 .. FrameLen : latest[i].p = i /\ latest[i].f = first.f
    BY DEF IInv, Accounts, Accounted
  <2>4. first.p = 1 /\ last.p = FrameLen /\ lost \in 0 .. FrameLen /\ lost < FrameLen
    BY DEF IInv, TypeOK
  <2>5. first.f \in 0 .. 1 /\ last.f \in 0 .. 1 BY <2>2 DEF Bytes
  <2> HIDE DEF first, last
  <2>6. /\ first.f = 0 => Offset(first) = 1
        /\ first.f = 1 => Offset(first) = FrameLen + 1
        /\ last.f = 0 => Offset(last) = FrameLen
        /\ last.f = 1 => Offset(last) = FrameLen + FrameLen
    BY <2>4, <2>5, OffsetIs, LenType
  <2>7. lost = 0 BY <2>3, <2>4, <2>5, <2>6, LenType
  <2> QED BY <2>3, <2>7 DEF Genuine, first
<1> QED BY <1>1, Invariance, PTL

\* One whole frame without a head in its payload brings the parser back, however it was
\* misled: every frame that follows undisturbed is collected whole, and published.
THEOREM ResynchronisesHolds == Spec => Resynchronises
<1> DEFINE frame == Append(buf, Head(ring))
           Due == /\ ring # <<>> /\ ring' = Tail(ring) /\ calm >= 2
                  /\ Follows(Head(ring)) /\ Head(ring).p = FrameLen
<1>1. ASSUME IInv, Next, Due
      PROVE  /\ Len(frame) = FrameLen /\ Genuine(frame)
             /\ frame[2].v = "mode" => latest' = frame
  <2>1. ring \in Seq(Bytes) /\ ring # <<>> BY <1>1 DEF IInv, Shapes
  <2>2. Tail(ring) \in Seq(Bytes) /\ Len(Tail(ring)) = Len(ring) - 1 /\ Len(ring) \in Nat
    BY <2>1, HeadTailProperties
  <2>n. PICK n \in Nat : n = Len(ring) /\ Len(Tail(ring)) = n - 1 BY <2>2
  <2>3. Read
    <3>1. Len(ring') = n - 1 BY <1>1, <2>n
    <3>2. ASSUME NEW b \in Bytes, Received(b) PROVE FALSE
      <4>1. Len(Append(ring, b)) = Len(ring) + 1 BY <2>1, AppendProperties
      <4>2. Len(Append(Tail(ring), b)) = Len(Tail(ring)) + 1 BY <2>2, AppendProperties
      <4>3. Len(ring') = Len(ring) + 1 \/ Len(ring') = Len(Tail(ring)) + 1
        BY <3>2, <4>1, <4>2 DEF Received
      <4>4. n - 1 = n + 1 \/ n - 1 = n - 1 + 1 BY <2>n, <3>1, <4>3
      <4> QED BY <4>4
    <3>3. ~Isr /\ ~IsrGarbled BY <1>1, <3>2, Arrives
    <3>4. ~LineLoss
      <4>1. n - 1 # n OBVIOUS
      <4>2. Len(ring') # Len(ring) BY <2>n, <3>1, <4>1
      <4> QED BY <4>2 DEF LineLoss
    <3> QED BY <1>1, <3>3, <3>4 DEF Next
  <2>4. /\ Head(ring) \in Bytes /\ SentOK(Head(ring)) BY <1>1, <2>3, ByteRead
  <2>5. prev.p \in 1 .. FrameLen /\ IF prev.p = FrameLen THEN state = 0 ELSE Aligned
    BY <1>1 DEF IInv, InStep
  <2>6. prev.p # FrameLen
    <3> SUFFICES ASSUME prev.p = FrameLen PROVE FALSE OBVIOUS
    <3>1. [f |-> Head(ring).f, p |-> Head(ring).p] = [f |-> 1 - prev.f, p |-> 1]
      BY <1>1, LenType DEF Follows, Successor
    <3>2. Head(ring).p = 1 BY <3>1
    <3> QED BY <1>1, <3>2, LenType
  <2>7. prev.p < FrameLen /\ Aligned BY <2>5, <2>6, LenType
  <2>8. /\ index + 1 = FrameLen /\ Complete(Append(buf, Head(ring)))
        /\ Head(ring).f = prev.f
    BY <1>1, <2>3, <2>7, AlignedNext
  <2>9. /\ Len(frame) = FrameLen
        /\ \A i \in 1 .. index : frame[i] = buf[i]
        /\ frame[FrameLen] = Head(ring)
    BY <1>1, <2>4, <2>8, Appended
  <2>10. index \in 1 .. FrameLen - 1 BY <1>1, <2>7, LenType DEF Aligned, IInv, TypeOK
  <2>11. \A i \in 1 .. FrameLen : frame[i].p = i /\ frame[i].f = prev.f
    <3> SUFFICES ASSUME NEW i \in 1 .. FrameLen PROVE frame[i].p = i /\ frame[i].f = prev.f
      OBVIOUS
    <3>1. CASE i = FrameLen BY <1>1, <2>8, <2>9, <3>1
    <3>2. CASE i # FrameLen
      <4>1. i \in 1 .. index BY <2>8, <2>10, <3>2, LenType
      <4> QED BY <2>7, <2>9, <4>1 DEF Aligned
    <3> QED BY <3>1, <3>2
  <2> HIDE DEF frame
  <2>12. Genuine(frame)
    <3>1. 1 \in 1 .. FrameLen BY LenType
    <3> QED BY <2>11, <3>1 DEF Genuine
  <2>13. frame[FrameLen].v = "tail" BY <1>1, <2>4, <2>9 DEF SentOK
  <2>14. latest' = IF frame[FrameLen].v = "tail" /\ frame[2].v = "mode" THEN frame ELSE <<>>
    BY <2>8 DEF Complete, frame
  <2> QED BY <2>9, <2>12, <2>13, <2>14
<1>2. IInv /\ [Next]_vars =>
        [Due => /\ Len(frame) = FrameLen /\ Genuine(frame)
                /\ frame[2].v = "mode" => latest' = frame]_vars
  BY <1>1
<1> QED BY <1>2, Invariance, PTL DEF Spec, Resynchronises
=============================================================================
