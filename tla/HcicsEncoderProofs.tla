------------------------- MODULE HcicsEncoderProofs -------------------------
(***************************************************************************)
(* Proofs about HcicsEncoder: type correctness, that no edge is forgotten,  *)
(* and that the count is exact unless an interrupt came too late, for       *)
(* either direction of counting and any range of the count.                 *)
(***************************************************************************)
EXTENDS HcicsEncoder, TLAPS

\* The bit of a pin that the encoder last knew.
LastA == last_state \div 2
LastB == last_state % 2

\* From the moment both interrupts are on, what is known of a pin is what it is,
\* or an interrupt of the pin is latched and will have both pins read again: for
\* the state kept between interrupts, and for the reading of A while B is still
\* to be read.
Known ==
  /\ isr # "none" => ~Masked
  /\ tpc \in {"irq_a", "irq_b"} => enabled
  /\ tpc = "irq_b" => irq_on["A"]
  /\ tpc \in {"clear", "clear_b", "ready"} =>
       enabled /\ \A pin \in Pins : irq_on[pin]
  /\ tpc \in {"clear_b", "ready"} /\ (isr = "b" \/ tpc = "clear_b") /\ ~pend["A"] =>
       seen_a = PinA(phase)
  /\ tpc = "ready" /\ isr = "none" =>
       /\ ~pend["A"] => LastA = PinA(phase)
       /\ ~pend["B"] => LastB = PinB(phase)

IInv == TypeOK /\ Known

\* What the routine takes the pins for when it has read both: at most one bit, that of A,
\* is older than the other.
Reading == Code(seen_a, PinB(phase))

\* The count plus the steps that are still to be seen is the way of the wheel, up to
\* pairs of steps; and exactly so as long as no interrupt came too late, because then
\* neither the pins nor a reading of them is opposite to the state that is known.
Counting ==
  /\ tpc \in {"open", "init_b"} => isr = "none" /\ ~enabled
  /\ isr = "b" /\ ~moved => seen_a = PinA(phase)
  /\ tpc \notin {"open", "init_b"} =>
       /\ (travel - count - Steps(last_state, phase)) % 2 = 0
       /\ ~late =>
            /\ Steps(last_state, phase) # 2
            /\ travel = Signed(count) + Steps(last_state, phase)
            /\ isr = "b" => Steps(last_state, PhaseOf(Reading)) # 2

-----------------------------------------------------------------------------

\* A pin is low or high.
LEMMA PinType ==
  ASSUME NEW ph \in 0 .. 3
  PROVE  PinA(ph) \in 0 .. 1 /\ PinB(ph) \in 0 .. 1
BY DEF PinA, PinB

\* hcics_encoder_read_state packs two bits; packing and unpacking agree.
LEMMA CodeBits ==
  ASSUME NEW a \in 0 .. 1, NEW b \in 0 .. 1
  PROVE  Code(a, b) \in 0 .. 3 /\ Code(a, b) \div 2 = a /\ Code(a, b) % 2 = b
BY DEF Code

\* A code is that of its two bits.
LEMMA CodeOfBits ==
  ASSUME NEW c \in 0 .. 3
  PROVE  c = Code(c \div 2, c % 2)
BY DEF Code

\* Every entry of decode_table is a number, and so is its signed form.
LEMMA DecodeType ==
  ASSUME NEW last \in 0 .. 3, NEW now \in 0 .. 3
  PROVE  Decode(last, now) \in Int /\ Signed(Decode(last, now)) \in Int
<1>1. Decode(last, now) \in {-1, 0, 1}
  <2>1. CASE last = 0 BY <2>1 DEF Decode
  <2>2. CASE last = 1 BY <2>2 DEF Decode
  <2>3. CASE last = 2 BY <2>3 DEF Decode
  <2>4. CASE last = 3 BY <2>4 DEF Decode
  <2> QED BY <2>1, <2>2, <2>3, <2>4
<1> QED BY <1>1 DEF Signed

\* The steps from a code to a phase are a number.
LEMMA StepsType ==
  ASSUME NEW code \in 0 .. 3, NEW ph \in 0 .. 3
  PROVE  Steps(code, ph) \in Int
BY DEF Steps, PhaseOf

\* A quarter step changes exactly one pin.
LEMMA OnePin ==
  ASSUME NEW ph \in 0 .. 3, NEW d \in {-1, 1}
  PROVE  LET nx == (ph + d + 4) % 4 IN
           /\ nx \in 0 .. 3
           /\ PinA(nx) # PinA(ph) => PinB(nx) = PinB(ph)
           /\ PinA(nx) = PinA(ph) => PinB(nx) # PinB(ph)
BY DEF PinA, PinB

\* The invariant holds when the device has just been registered.
LEMMA InitInv == Init => IInv
<1> SUFFICES ASSUME Init PROVE IInv OBVIOUS
<1>1. TypeOK
  <2>1. irq_on \in [Pins -> BOOLEAN] /\ pend \in [Pins -> BOOLEAN] BY DEF Init
  <2>2. /\ attached \in BOOLEAN /\ enabled \in BOOLEAN
        /\ moved \in BOOLEAN /\ late \in BOOLEAN
    BY DEF Init
  <2> QED BY <2>1, <2>2 DEF Init, TypeOK
<1>2. Known BY DEF Init, Known
<1> QED BY <1>1, <1>2 DEF IInv

\* The wheel: the pin that changes has its interrupt latched when it is on.
LEMMA WheelStep ==
  ASSUME IInv, NEW d \in {-1, 1}, Wheel(d)
  PROVE  IInv'
<1> DEFINE nx == (phase + d + 4) % 4
           pin == IF PinA(nx) # PinA(phase) THEN "A" ELSE "B"
<1>1. phase \in 0 .. 3 /\ d \in Int BY DEF IInv, TypeOK
<1>2. phase' = nx /\ nx \in 0 .. 3 BY <1>1, OnePin DEF Wheel
<1>3. pend' = [pend EXCEPT ![pin] = @ \/ irq_on[pin]] BY DEF Wheel
<1>4. pin \in Pins BY DEF Pins
<1>5. UNCHANGED <<irq_on, attached, enabled, count, last_state, isr, tpc, seen_a>>
  BY DEF Wheel, devVars, runVars
<1>6. pend \in [Pins -> BOOLEAN] /\ irq_on \in [Pins -> BOOLEAN] BY DEF IInv, TypeOK
<1>7. pend' \in [Pins -> BOOLEAN]
  <2>1. (pend[pin] \/ irq_on[pin]) \in BOOLEAN OBVIOUS
  <2> QED BY <2>1, <1>3, <1>6
<1>8. TypeOK'
  <2>1. travel' \in Int BY DEF Wheel, IInv, TypeOK
  <2>2. moved' \in BOOLEAN /\ late' \in BOOLEAN BY DEF Wheel
  <2> QED BY <1>2, <1>5, <1>7, <2>1, <2>2 DEF IInv, TypeOK
<1>9. Known'
  <2>1. ASSUME irq_on["A"], irq_on["B"]
        PROVE  /\ ~pend'["A"] => ~pend["A"] /\ PinA(nx) = PinA(phase)
               /\ ~pend'["B"] => ~pend["B"] /\ PinB(nx) = PinB(phase)
    <3>1. CASE pin = "A"
      <4>1. pend'["A"] BY <2>1, <3>1, <1>3, <1>4, <1>6
      <4>2. pend'["B"] = pend["B"] BY <3>1, <1>3, <1>6 DEF Pins
      <4>3. PinB(nx) = PinB(phase) BY <3>1, <1>1, OnePin
      <4> QED BY <4>1, <4>2, <4>3
    <3>2. CASE pin = "B"
      <4>1. pend'["B"] BY <2>1, <3>2, <1>3, <1>4, <1>6
      <4>2. pend'["A"] = pend["A"] BY <3>2, <1>3, <1>6 DEF Pins
      <4>3. PinA(nx) = PinA(phase) BY <3>2
      <4> QED BY <4>1, <4>2, <4>3
    <3> HIDE DEF pin
    <3> QED BY <3>1, <3>2, <1>4 DEF Pins
  <2> HIDE DEF nx, pin
  <2> QED BY <2>1, <1>2, <1>5 DEF IInv, Known, Masked, LastA, LastB, Pins
<1> QED BY <1>8, <1>9 DEF IInv

\* The latch is cleared before the pins are read.
LEMMA IsrEnterStep ==
  ASSUME IInv, NEW pin \in Pins, IsrEnter(pin)
  PROVE  IInv'
<1>1. pend \in [Pins -> BOOLEAN] BY DEF IInv, TypeOK
<1>2. pend' \in [Pins -> BOOLEAN] BY <1>1 DEF IsrEnter
<1>3. TypeOK'
  <2>1. isr' \in {"none", "a", "b"} BY DEF IsrEnter
  <2>2. moved' \in BOOLEAN BY DEF IsrEnter
  <2> QED BY <1>2, <2>1, <2>2 DEF IsrEnter, IInv, TypeOK, wheelVars, devVars
<1>4. Known'
  <2>1. UNCHANGED <<phase, irq_on, enabled, last_state, tpc, seen_a>> /\ ~Masked
    BY DEF IsrEnter, wheelVars, devVars
  <2>2. isr' = IF enabled THEN "a" ELSE "none" BY DEF IsrEnter
  <2> QED BY <2>1, <2>2 DEF IInv, Known, Masked, Pins
<1> QED BY <1>3, <1>4 DEF IInv

\* A reading of the pins, by the routine or by a call.
LEMMA ReadingCode ==
  ASSUME IInv
  PROVE  LET now == Code(seen_a, PinB(phase)) IN
           now \in 0 .. 3 /\ now \div 2 = seen_a /\ now % 2 = PinB(phase)
BY PinType, CodeBits DEF IInv, TypeOK

\* The routine hcics_encoder_irq: it reads A, then B, and remembers what it read.
LEMMA IsrReadStep ==
  ASSUME IInv, IsrReadA \/ IsrReadB
  PROVE  IInv'
<1>1. CASE IsrReadA
  <2>1. seen_a' = PinA(phase) /\ isr = "a" /\ isr' = "b" /\
        UNCHANGED <<phase, irq_on, pend, enabled, last_state, tpc>>
    BY <1>1 DEF IsrReadA, wheelVars, irqVars, devVars
  <2>2. TypeOK' BY <1>1, PinType DEF IsrReadA, IInv, TypeOK, wheelVars, irqVars, devVars
  <2>3. Known' BY <2>1 DEF IInv, Known, Masked
  <2> QED BY <2>2, <2>3 DEF IInv
<1>2. CASE IsrReadB
  <2> DEFINE now == Code(seen_a, PinB(phase))
  <2>1. /\ isr = "b" /\ isr' = "none" /\ seen_a' = 0 /\ last_state' = now
        /\ UNCHANGED <<phase, travel, irq_on, pend, attached, enabled, tpc, late>>
        /\ count' = count + Signed(Decode(last_state, now)) /\ moved' \in BOOLEAN
    BY <1>2 DEF IsrReadB, wheelVars, irqVars
  <2>2. now \in 0 .. 3 /\ now \div 2 = seen_a /\ now % 2 = PinB(phase) BY ReadingCode
  <2> HIDE DEF now
  <2>3. count' \in Int BY <2>1, <2>2, DecodeType DEF IInv, TypeOK
  <2>4. TypeOK' BY <2>1, <2>2, <2>3 DEF IInv, TypeOK
  <2>5. Known' BY <2>1, <2>2 DEF IInv, Known, Masked, LastA, LastB
  <2> QED BY <2>4, <2>5 DEF IInv
<1> QED BY <1>1, <1>2

\* What the calls set when they zero the count.
LEMMA ZeroedType ==
  ASSUME IInv, Zeroed(Code(seen_a, PinB(phase)))
  PROVE  /\ count' \in Int /\ travel' \in Int /\ last_state' \in 0 .. 3
         /\ seen_a' = 0 /\ moved' \in BOOLEAN /\ late' \in BOOLEAN
         /\ last_state' \div 2 = seen_a /\ last_state' % 2 = PinB(phase)
<1>1. phase \in 0 .. 3 BY DEF IInv, TypeOK
<1>2. Code(seen_a, PinB(phase)) \in 0 .. 3 BY ReadingCode
<1>3. travel' \in Int BY <1>1, <1>2, StepsType DEF Zeroed
<1>4. late' \in BOOLEAN BY DEF Zeroed
<1>5. last_state' = Code(seen_a, PinB(phase)) /\ count' = 0 /\ seen_a' = 0
  BY DEF Zeroed
<1>6. moved' \in BOOLEAN BY DEF Zeroed
<1> QED BY <1>3, <1>4, <1>5, <1>6, ReadingCode

\* hcics_encoder_control(ENABLE), up to the interrupt of pin B.
LEMMA OpenStep ==
  ASSUME IInv, InitReadA \/ InitReadB \/ Attach \/ EnableA \/ EnableB
  PROVE  IInv'
<1>1. CASE InitReadA
  <2>1. TypeOK' BY <1>1, PinType DEF InitReadA, IInv, TypeOK, wheelVars, irqVars, devVars
  <2>2. Known' BY <1>1 DEF InitReadA, At, Known, Masked
  <2> QED BY <2>1, <2>2 DEF IInv
<1>2. CASE InitReadB
  <2>1. Zeroed(Code(seen_a, PinB(phase))) BY <1>2 DEF InitReadB
  <2>2. tpc' = "attach" /\ isr = "none" /\
        UNCHANGED <<phase, irq_on, pend, attached, enabled, isr>>
    BY <1>2 DEF InitReadB, At, irqVars
  <2>3. TypeOK' BY <2>1, <2>2, ZeroedType DEF IInv, TypeOK
  <2>4. Known' BY <2>2 DEF Known, Masked
  <2> QED BY <2>3, <2>4 DEF IInv
<1>3. CASE Attach
  <2>1. TypeOK' BY <1>3 DEF Attach, IInv, TypeOK, wheelVars, irqVars
  <2>2. Known' BY <1>3 DEF Attach, At, Known, Masked
  <2> QED BY <2>1, <2>2 DEF IInv
<1>4. CASE EnableA
  <2>1. irq_on' \in [Pins -> BOOLEAN] BY <1>4 DEF EnableA, IInv, TypeOK
  <2>2. TypeOK' BY <1>4, <2>1 DEF EnableA, IInv, TypeOK, wheelVars
  <2>3. Known' BY <1>4 DEF EnableA, At, IInv, TypeOK, Known, Masked, Pins
  <2> QED BY <2>2, <2>3 DEF IInv
<1>5. CASE EnableB
  <2>1. irq_on' \in [Pins -> BOOLEAN] BY <1>5 DEF EnableB, IInv, TypeOK
  <2>2. TypeOK' BY <1>5, <2>1 DEF EnableB, IInv, TypeOK, wheelVars
  <2>3. Known' BY <1>5 DEF EnableB, At, IInv, TypeOK, Known, Masked, Pins
  <2> QED BY <2>2, <2>3 DEF IInv
<1> QED BY <1>1, <1>2, <1>3, <1>4, <1>5

\* hcics_encoder_clear_count, with the interrupts on but masked.
LEMMA ClearStep ==
  ASSUME IInv, ClearReadA \/ ClearReadB
  PROVE  IInv'
<1>1. CASE ClearReadA
  <2>1. TypeOK' BY <1>1, PinType DEF ClearReadA, IInv, TypeOK, wheelVars, irqVars, devVars
  <2>2. Known'
    BY <1>1 DEF ClearReadA, At, IInv, Known, Masked, wheelVars, irqVars, devVars
  <2> QED BY <2>1, <2>2 DEF IInv
<1>2. CASE ClearReadB
  <2>1. Zeroed(Code(seen_a, PinB(phase))) BY <1>2 DEF ClearReadB
  <2>2. tpc = "clear_b" /\ tpc' = "ready" /\ isr = "none" /\
        UNCHANGED <<phase, irq_on, pend, attached, enabled, isr>>
    BY <1>2 DEF ClearReadB, At, irqVars
  <2>3. TypeOK' BY <2>1, <2>2, ZeroedType DEF IInv, TypeOK
  <2>4. Known' BY <2>1, <2>2, ZeroedType DEF IInv, Known, Masked, LastA, LastB
  <2> QED BY <2>3, <2>4 DEF IInv
<1> QED BY <1>1, <1>2

\* Every step of the wheel, of the routine and of the calls keeps the invariant.
LEMMA NextInv == IInv /\ [Next]_vars => IInv'
<1> SUFFICES ASSUME IInv, [Next]_vars PROVE IInv' OBVIOUS
<1>1. CASE Next
  BY <1>1, WheelStep, IsrEnterStep, IsrReadStep, OpenStep, ClearStep DEF Next
<1>2. CASE UNCHANGED vars
  BY <1>2 DEF vars, wheelVars, irqVars, devVars, runVars, IInv, TypeOK, Known, Masked,
              LastA, LastB
<1> QED BY <1>1, <1>2

\* The invariant of the encoder holds.
THEOREM Invariance == Spec => []IInv
BY InitInv, NextInv, PTL DEF Spec

\* The variables keep their types.
THEOREM TypeCorrect == Spec => []TypeOK
<1>1. IInv => TypeOK BY DEF IInv
<1> QED BY <1>1, Invariance, PTL

\* When every interrupt has been served the encoder knows the pins as they are,
\* although interrupts come late, their readings are torn and they are enabled
\* before the count is cleared.
THEOREM NothingForgotten == Spec => []NoEdgeForgotten
<1>1. IInv => NoEdgeForgotten
  <2> SUFFICES ASSUME IInv, Settled PROVE last_state = Code(PinA(phase), PinB(phase))
    BY DEF NoEdgeForgotten
  <2>1. LastA = PinA(phase) /\ LastB = PinB(phase) BY DEF IInv, Known, Settled, Pins
  <2>2. last_state \in 0 .. 3 BY DEF IInv, TypeOK
  <2> QED BY <2>1, <2>2, CodeOfBits DEF LastA, LastB
<1> QED BY <1>1, Invariance, PTL

-----------------------------------------------------------------------------
(* The count.                                                              *)

\* The steps from one phase to another: 2 when they are opposite.
Apart(from, to) == LET d == (to + 4 - from) % 4 IN IF d = 3 THEN -1 ELSE d

\* Every code belongs to a phase.
LEMMA PhaseType ==
  ASSUME NEW code \in 0 .. 3
  PROVE  PhaseOf(code) \in 0 .. 3
BY DEF PhaseOf

\* Steps counts from the phase of the code.
LEMMA StepsIs ==
  ASSUME NEW code \in 0 .. 3, NEW ph \in 0 .. 3
  PROVE  Steps(code, ph) = Apart(PhaseOf(code), ph)
BY DEF Steps, Apart

\* The way between two phases is -1, 0, 1 or 2, and 0 from a phase to itself.
LEMMA ApartIs ==
  ASSUME NEW p \in 0 .. 3, NEW q \in 0 .. 3
  PROVE  /\ Apart(p, q) = IF q = p THEN 0
                          ELSE IF q = p + 1 \/ q = p - 3 THEN 1
                          ELSE IF q = p - 1 \/ q = p + 3 THEN -1 ELSE 2
<1>1. CASE p = 0 BY <1>1 DEF Apart
<1>2. CASE p = 1 BY <1>2 DEF Apart
<1>3. CASE p = 2 BY <1>3 DEF Apart
<1>4. CASE p = 3 BY <1>4 DEF Apart
<1> QED BY <1>1, <1>2, <1>3, <1>4

\* decode_table gives the way between the phases of two codes, and 0 when they are
\* opposite, where the way is an even number of steps.
LEMMA DecodeIs ==
  ASSUME NEW last \in 0 .. 3, NEW now \in 0 .. 3
  PROVE  LET w == Apart(PhaseOf(last), PhaseOf(now)) IN
           Decode(last, now) = IF w = 2 THEN 0 ELSE w
<1>1. /\ PhaseOf(0) = 0 /\ PhaseOf(2) = 1 /\ PhaseOf(3) = 2 /\ PhaseOf(1) = 3
  BY DEF PhaseOf
<1>2. CASE last = 0 BY <1>1, <1>2, ApartIs DEF Decode
<1>3. CASE last = 1 BY <1>1, <1>3, ApartIs DEF Decode
<1>4. CASE last = 2 BY <1>1, <1>4, ApartIs DEF Decode
<1>5. CASE last = 3 BY <1>1, <1>5, ApartIs DEF Decode
<1> QED BY <1>2, <1>3, <1>4, <1>5

\* Ways add up modulo a whole turn, and exactly when none of the three is a half turn.
LEMMA WaysAdd ==
  ASSUME NEW p \in 0 .. 3, NEW q \in 0 .. 3, NEW r \in 0 .. 3
  PROVE  /\ \E k \in {-1, 0, 1} : Apart(p, q) + Apart(q, r) = Apart(p, r) + 4 * k
         /\ Apart(p, q) # 2 /\ Apart(q, r) # 2 /\ Apart(p, r) # 2 =>
              Apart(p, q) + Apart(q, r) = Apart(p, r)
<1>1. CASE p = 0 BY <1>1, ApartIs
<1>2. CASE p = 1 BY <1>2, ApartIs
<1>3. CASE p = 2 BY <1>3, ApartIs
<1>4. CASE p = 3 BY <1>4, ApartIs
<1> QED BY <1>1, <1>2, <1>3, <1>4

\* A quarter step of the wheel is a way of one step.
LEMMA QuarterStep ==
  ASSUME NEW ph \in 0 .. 3, NEW d \in {-1, 1}
  PROVE  (ph + d + 4) % 4 \in 0 .. 3 /\ Apart(ph, (ph + d + 4) % 4) = d
<1>1. CASE d = 1 BY <1>1 DEF Apart
<1>2. CASE d = -1 BY <1>2 DEF Apart
<1> QED BY <1>1, <1>2

\* A reading whose bit of A is old is at most one step away from the pins.
LEMMA ReadingNear ==
  ASSUME NEW ph \in 0 .. 3, NEW a \in 0 .. 1
  PROVE  LET c == Code(a, PinB(ph)) IN
           /\ c \in 0 .. 3
           /\ Apart(PhaseOf(c), ph) \in {-1, 0, 1}
           /\ a = PinA(ph) => PhaseOf(c) = ph
<1>1. /\ PhaseOf(0) = 0 /\ PhaseOf(2) = 1 /\ PhaseOf(3) = 2 /\ PhaseOf(1) = 3
  BY DEF PhaseOf
<1>2. CASE ph = 0 BY <1>1, <1>2, ApartIs DEF Code, PinA, PinB
<1>3. CASE ph = 1 BY <1>1, <1>3, ApartIs DEF Code, PinA, PinB
<1>4. CASE ph = 2 BY <1>1, <1>4, ApartIs DEF Code, PinA, PinB
<1>5. CASE ph = 3 BY <1>1, <1>5, ApartIs DEF Code, PinA, PinB
<1> QED BY <1>2, <1>3, <1>4, <1>5

\* The signs: a change of the count is the same change of the signed count, and has the
\* parity of the way it was decoded from.
LEMMA SignedAdds ==
  ASSUME NEW n \in Int, NEW x \in Int
  PROVE  /\ Signed(x) \in Int
         /\ Signed(n + Signed(x)) = Signed(n) + x
         /\ Signed(Signed(x)) = x
         /\ Signed(x) = x \/ Signed(x) = 0 - x
BY DEF Signed

\* Nothing has been counted before the device is opened.
LEMMA CountingInit == Init => Counting
BY DEF Init, Counting

\* The wheel: the way that is still to be seen changes by the step it makes.
LEMMA CountingWheel ==
  ASSUME IInv, Counting, NEW d \in {-1, 1}, Wheel(d)
  PROVE  Counting'
<1> DEFINE nx == (phase + d + 4) % 4
           c == PhaseOf(last_state)
<1>1. /\ phase \in 0 .. 3 /\ last_state \in 0 .. 3 /\ seen_a \in 0 .. 1
      /\ travel \in Int /\ count \in Int /\ d \in Int
  BY DEF IInv, TypeOK
<1>2. phase' = nx /\ nx \in 0 .. 3 /\ Apart(phase, nx) = d BY <1>1, QuarterStep DEF Wheel
<1>3. /\ UNCHANGED <<enabled, count, last_state, isr, tpc, seen_a>>
      /\ travel' = travel + d
      /\ late' = (late \/ moved \/ Steps(last_state, nx) = 2)
      /\ moved' = (isr # "none" \/ tpc \in {"init_b", "clear_b"})
  BY DEF Wheel, devVars, runVars
<1>4. c \in 0 .. 3 BY <1>1, PhaseType
<1>5. Steps(last_state, phase) = Apart(c, phase) BY <1>1, StepsIs
<1>6. Steps(last_state, nx) = Apart(c, nx) BY <1>1, <1>2, StepsIs
<1>7. Steps(last_state, phase)' = Apart(c, nx) BY <1>2, <1>3, <1>6
<1>8. /\ \E k \in {-1, 0, 1} : Apart(c, phase) + Apart(phase, nx) = Apart(c, nx) + 4 * k
      /\ Apart(c, phase) # 2 /\ Apart(phase, nx) # 2 /\ Apart(c, nx) # 2 =>
           Apart(c, phase) + Apart(phase, nx) = Apart(c, nx)
  BY <1>1, <1>2, <1>4, WaysAdd
<1>9. Apart(c, phase) \in Int /\ Apart(c, nx) \in Int BY <1>1, <1>2, <1>4, ApartIs
<1>10. ASSUME tpc \notin {"open", "init_b"}
       PROVE  (travel' - count' - Apart(c, nx)) % 2 = 0
  <2>1. (travel - count - Apart(c, phase)) % 2 = 0 BY <1>5, <1>10 DEF Counting
  <2> HIDE DEF nx, c
  <2> QED BY <1>1, <1>2, <1>3, <1>8, <1>9, <2>1
<1>11. ASSUME tpc \notin {"open", "init_b"}, ~late'
       PROVE  /\ Apart(c, nx) # 2
              /\ travel' = Signed(count') + Apart(c, nx)
              /\ isr' = "b" => Steps(last_state, PhaseOf(Reading))' # 2
  <2>1. ~late /\ ~moved /\ Apart(c, nx) # 2 BY <1>3, <1>6, <1>11
  <2>2. Apart(c, phase) # 2 /\ travel = Signed(count) + Apart(c, phase)
    BY <1>5, <1>11, <2>1 DEF Counting
  <2>3. travel' = Signed(count') + Apart(c, nx)
    <3>1. Signed(count) \in Int BY <1>1, SignedAdds
    <3> HIDE DEF nx, c
    <3> QED BY <1>1, <1>2, <1>3, <1>8, <1>9, <2>1, <2>2, <3>1
  <2>4. ASSUME isr = "b"
        PROVE  Steps(last_state, PhaseOf(Reading))' # 2
    <3>1. seen_a = PinA(phase) BY <2>1, <2>4 DEF Counting
    <3>2. Reading' = Code(PinA(phase), PinB(nx)) BY <1>2, <1>3, <3>1 DEF Reading
    <3>3. PhaseOf(Reading') \in {phase, nx}
      <4>1. CASE PinA(nx) = PinA(phase) BY <1>1, <1>2, <3>2, <4>1, ReadingNear, PinType
      <4>2. CASE PinA(nx) # PinA(phase)
        <5>1. PinB(nx) = PinB(phase) BY <1>1, <4>2, OnePin
        <5> QED BY <1>1, <3>2, <5>1, ReadingNear, PinType
      <4> QED BY <4>1, <4>2
    <3>4. Steps(last_state, phase) # 2 /\ Steps(last_state, nx) # 2
      BY <1>5, <1>6, <2>1, <2>2
    <3>5. Steps(last_state, PhaseOf(Reading))' = Steps(last_state, PhaseOf(Reading'))
      BY <1>3
    <3> QED BY <3>3, <3>4, <3>5
  <2> QED BY <1>3, <2>1, <2>3, <2>4
<1>12. tpc \in {"open", "init_b"} => isr = "none" /\ ~enabled BY DEF Counting
<1> HIDE DEF nx, c
<1> QED BY <1>3, <1>7, <1>10, <1>11, <1>12 DEF Counting

\* The routine is entered and reads A: the pins as they are.
LEMMA CountingRead ==
  ASSUME IInv, Counting, IsrReadA \/ \E pin \in Pins : IsrEnter(pin)
  PROVE  Counting'
<1>1. phase \in 0 .. 3 BY DEF IInv, TypeOK
<1>2. CASE IsrReadA
  <2>1. /\ seen_a' = PinA(phase) /\ isr = "a" /\ isr' = "b"
        /\ UNCHANGED <<phase, travel, enabled, count, last_state, tpc, moved, late>>
    BY <1>2 DEF IsrReadA, wheelVars, devVars
  <2>2. PhaseOf(Reading') = phase BY <1>1, <2>1, ReadingNear, PinType DEF Reading
  <2>3. Steps(last_state, PhaseOf(Reading))' = Steps(last_state, phase) BY <2>1, <2>2
  <2>4. Steps(last_state, phase)' = Steps(last_state, phase) BY <2>1
  <2> QED BY <2>1, <2>3, <2>4 DEF Counting
<1>3. CASE \E pin \in Pins : IsrEnter(pin)
  <2>1. /\ isr = "none" /\ isr' = IF enabled THEN "a" ELSE "none"
        /\ UNCHANGED <<phase, travel, enabled, count, last_state, tpc, seen_a, late>>
    BY <1>3 DEF IsrEnter, wheelVars, devVars
  <2>2. Steps(last_state, phase)' = Steps(last_state, phase) BY <2>1
  <2> QED BY <2>1, <2>2 DEF Counting
<1> QED BY <1>2, <1>3

\* The routine reads B and counts the way to its reading; the rest is still to be seen.
LEMMA CountingIsr ==
  ASSUME IInv, Counting, IsrReadB
  PROVE  Counting'
<1> DEFINE now == Reading
           c == PhaseOf(last_state)
           r == PhaseOf(now)
           delta == Decode(last_state, now)
<1>1. /\ phase \in 0 .. 3 /\ last_state \in 0 .. 3 /\ seen_a \in 0 .. 1
      /\ travel \in Int /\ count \in Int
  BY DEF IInv, TypeOK
<1>2. /\ isr = "b" /\ isr' = "none" /\ last_state' = now /\ moved' = FALSE
      /\ UNCHANGED <<phase, travel, enabled, tpc, late>>
      /\ count' = count + Signed(delta)
  BY DEF IsrReadB, wheelVars, Reading
<1>3. now \in 0 .. 3 /\ Apart(r, phase) \in {-1, 0, 1} BY <1>1, ReadingNear DEF Reading
<1>4. c \in 0 .. 3 /\ r \in 0 .. 3 BY <1>1, <1>3, PhaseType
<1>5. Steps(last_state, phase) = Apart(c, phase) BY <1>1, StepsIs
<1>6. Steps(last_state, r) = Apart(c, r) BY <1>1, <1>4, StepsIs
<1>7. Steps(last_state, phase)' = Apart(r, phase) BY <1>1, <1>2, <1>3, StepsIs
<1>8. /\ \E k \in {-1, 0, 1} : Apart(c, r) + Apart(r, phase) = Apart(c, phase) + 4 * k
      /\ Apart(c, r) # 2 /\ Apart(r, phase) # 2 /\ Apart(c, phase) # 2 =>
           Apart(c, r) + Apart(r, phase) = Apart(c, phase)
  BY <1>1, <1>4, WaysAdd
<1>9. delta = IF Apart(c, r) = 2 THEN 0 ELSE Apart(c, r) BY <1>1, <1>3, DecodeIs
<1>10. Apart(c, phase) \in Int /\ Apart(r, phase) \in Int /\ Apart(c, r) \in Int
  BY <1>1, <1>4, ApartIs
<1>11. delta \in Int BY <1>9, <1>10
<1>12. tpc \notin {"open", "init_b"} BY <1>2 DEF Counting
<1> HIDE DEF now, c, r, delta
<1>13. (travel' - count' - Apart(r, phase)) % 2 = 0
  <2>1. (travel - count - Apart(c, phase)) % 2 = 0 BY <1>5, <1>12 DEF Counting
  <2>2. Signed(delta) = delta \/ Signed(delta) = 0 - delta BY <1>11, SignedAdds
  <2>3. (Apart(c, r) - Signed(delta)) % 2 = 0 BY <1>9, <1>10, <1>11, <2>2
  <2>4. Signed(delta) \in Int BY <1>11, SignedAdds
  <2>5. PICK k \in {-1, 0, 1} : Apart(c, r) + Apart(r, phase) = Apart(c, phase) + 4 * k
    BY <1>8
  <2> QED BY <1>1, <1>2, <1>10, <2>1, <2>3, <2>4, <2>5
<1>14. ASSUME ~late
       PROVE  travel' = Signed(count') + Apart(r, phase)
  <2>1. Apart(c, phase) # 2 /\ travel = Signed(count) + Apart(c, phase)
    BY <1>5, <1>12, <1>14 DEF Counting
  <2>2. Apart(c, r) # 2 BY <1>2, <1>6, <1>12, <1>14 DEF Counting, now, r
  <2>3. Signed(count') = Signed(count) + delta BY <1>1, <1>2, <1>11, SignedAdds
  <2>4. Signed(count) \in Int BY <1>1, SignedAdds
  <2> QED BY <1>1, <1>2, <1>3, <1>8, <1>9, <1>10, <2>1, <2>2, <2>3, <2>4
<1> QED BY <1>2, <1>3, <1>7, <1>12, <1>13, <1>14 DEF Counting

\* The count is zeroed with the pins as they were read: what is still to be seen is
\* the whole way.
LEMMA CountingZeroed ==
  ASSUME IInv, Zeroed(Code(seen_a, PinB(phase))), phase' = phase, isr' = "none",
         tpc' \notin {"open", "init_b"}
  PROVE  Counting'
<1> DEFINE code == Code(seen_a, PinB(phase))
           way == Steps(code, phase)
<1>1. phase \in 0 .. 3 BY DEF IInv, TypeOK
<1>2. code \in 0 .. 3 BY ReadingCode
<1>3. way \in Int BY <1>1, <1>2, StepsType
<1>4. count' = 0 /\ last_state' = code /\ travel' = way /\ late' = (way = 2)
  BY DEF Zeroed
<1>5. Steps(last_state, phase)' = way BY <1>4
<1> HIDE DEF way
<1>6. Signed(0) = 0 BY DEF Signed
<1>7. (way - 0 - way) % 2 = 0 BY <1>3
<1>8. way = 0 + way BY <1>3
<1> QED BY <1>4, <1>5, <1>6, <1>7, <1>8 DEF Counting

\* The calls that open the device and clear the count.
LEMMA CountingCall ==
  ASSUME IInv, Counting,
         InitReadA \/ InitReadB \/ Attach \/ EnableA \/ EnableB \/ ClearReadA \/ ClearReadB
  PROVE  Counting'
<1>1. CASE InitReadB
  BY <1>1, CountingZeroed DEF InitReadB, At
<1>2. CASE ClearReadB
  BY <1>2, CountingZeroed DEF ClearReadB, At
<1>3. CASE InitReadA \/ Attach \/ EnableA \/ EnableB \/ ClearReadA
  <2>1. /\ isr = "none" /\ UNCHANGED <<phase, travel, count, last_state, isr, late>>
        /\ \/ tpc = "open" /\ tpc' = "init_b" /\ UNCHANGED enabled
           \/ tpc \notin {"open", "init_b"} /\ tpc' \notin {"open", "init_b"}
    <3>1. CASE InitReadA BY <3>1 DEF InitReadA, At, wheelVars, devVars
    <3>2. CASE Attach BY <3>2 DEF Attach, At, wheelVars
    <3>3. CASE EnableA BY <3>3 DEF EnableA, At, wheelVars
    <3>4. CASE EnableB BY <3>4 DEF EnableB, At, wheelVars
    <3>5. CASE ClearReadA BY <3>5 DEF ClearReadA, At, wheelVars, devVars
    <3> QED BY <1>3, <3>1, <3>2, <3>3, <3>4, <3>5
  <2>2. Steps(last_state, phase)' = Steps(last_state, phase) BY <2>1
  <2> QED BY <2>1, <2>2 DEF Counting
<1> QED BY <1>1, <1>2, <1>3

\* Every step keeps the books of the count.
LEMMA CountingNext == IInv /\ Counting /\ [Next]_vars => Counting'
<1> SUFFICES ASSUME IInv, Counting, [Next]_vars PROVE Counting' OBVIOUS
<1>1. CASE Next
  BY <1>1, CountingWheel, CountingRead, CountingIsr, CountingCall DEF Next
<1>2. CASE UNCHANGED vars
  <2>1. UNCHANGED <<phase, travel, enabled, count, last_state, isr, tpc, seen_a, moved, late>>
    BY <1>2 DEF vars, wheelVars, devVars, runVars
  <2>2. Steps(last_state, phase)' = Steps(last_state, phase) BY <2>1
  <2>3. Steps(last_state, PhaseOf(Reading))' = Steps(last_state, PhaseOf(Reading))
    BY <2>1 DEF Reading
  <2> QED BY <2>1, <2>2, <2>3 DEF Counting
<1> QED BY <1>1, <1>2

\* When every interrupt has been served the count is the way of the wheel since it was
\* cleared, unless an interrupt came too late; and then it is off by pairs of steps.
THEOREM ExactHolds == Spec => []ExactUnlessLate
<1>1. Spec => []Counting BY CountingInit, CountingNext, Invariance, PTL DEF Spec
<1>2. IInv /\ NoEdgeForgotten /\ Counting => ExactUnlessLate
  <2> SUFFICES ASSUME IInv, NoEdgeForgotten, Counting, Settled
               PROVE  (~late => count = Signed(travel)) /\ (travel - count) % 2 = 0
    BY DEF ExactUnlessLate
  <2>1. phase \in 0 .. 3 /\ travel \in Int /\ count \in Int BY DEF IInv, TypeOK
  <2>2. last_state \in 0 .. 3 BY DEF IInv, TypeOK
  <2>3. PhaseOf(last_state) = phase
    BY <2>1, ReadingNear, PinType DEF NoEdgeForgotten
  <2>4. Steps(last_state, phase) = 0 BY <2>1, <2>2, <2>3, StepsIs, ApartIs
  <2>5. tpc \notin {"open", "init_b"} BY DEF Settled
  <2>6. ~late => travel = Signed(count) + 0 BY <2>4, <2>5 DEF Counting
  <2>7. (travel - count - 0) % 2 = 0 BY <2>4, <2>5 DEF Counting
  <2>8. Signed(count) \in Int /\ Signed(Signed(count)) = count BY <2>1, SignedAdds
  <2> QED BY <2>1, <2>6, <2>7, <2>8
<1> QED BY <1>1, <1>2, Invariance, NothingForgotten, PTL
=============================================================================
