---------------------------- MODULE HcicsEncoder ----------------------------
(***************************************************************************)
(* hcics_encoder.c and its opening by hcics_motion_open_encoder: one wheel  *)
(* encoder whose two pins raise interrupts, the decoding of their changes,  *)
(* and the calls that open the device and clear its count.                  *)
(*                                                                         *)
(* The wheel turns at any time.  An interrupt is latched per pin, once, and *)
(* its routine may start late: other interrupts of the same level run       *)
(* first, and hcics_axis_write_locked disables all of them for a frame.     *)
(* The two pins are read one after the other, with the wheel turning in     *)
(* between, both in the routine and in the calls that read them with        *)
(* interrupts disabled.                                                     *)
(***************************************************************************)
EXTENDS Integers, Sequences

CONSTANTS
  Reversed,   \* HCICS_ENCODER_*_REVERSED
  MaxCount    \* bound of the model on count and travel

ASSUME EncoderAssumption == Reversed \in BOOLEAN /\ MaxCount \in Nat

VARIABLES
  phase,         \* the wheel: its quarter step, 0 .. 3
  travel,        \* history: steps of the wheel since the count was cleared
  irq_on, pend,  \* interrupt enabled, and latched, per pin
  attached, enabled, count, last_state,   \* hcics_encoder_device_t
  isr, tpc,      \* place of the interrupt routine and of the calling thread
  seen_a,        \* pin A as the running read has seen it
  moved,         \* history: the wheel moved since that read began
  late           \* history: an interrupt came too late to tell the direction

wheelVars == <<phase, travel>>
irqVars == <<irq_on, pend>>
devVars == <<attached, enabled, count, last_state>>
runVars == <<isr, tpc, seen_a>>
vars == <<wheelVars, irqVars, devVars, runVars, moved, late>>

Pins == {"A", "B"}

\* The pins by phase.
PinA(ph) == IF ph \in {1, 2} THEN 1 ELSE 0
PinB(ph) == IF ph \in {2, 3} THEN 1 ELSE 0

\* hcics_encoder_read_state: the code of a reading of the pins.
Code(a, b) == 2 * a + b

\* The phase a code belongs to, and the steps from a code to a phase: 2 when
\* they are opposite.
PhaseOf(code) == CASE code = 0 -> 0 [] code = 2 -> 1 [] code = 3 -> 2 [] code = 1 -> 3
Steps(code, ph) ==
  LET d == (ph + 4 - PhaseOf(code)) % 4 IN IF d = 3 THEN -1 ELSE d

\* Mutant: one entry of the table is wrong.
DecodeWrong(last, now) ==
  <<0, -1, 1, 0,  1, 0, 0, 1,  -1, 0, 0, 1,  0, 1, -1, 0>>[4 * last + now + 1]

\* decode_table.
Decode(last, now) ==
  <<0, -1, 1, 0,  1, 0, 0, -1,  -1, 0, 0, 1,  0, 1, -1, 0>>[4 * last + now + 1]

Signed(delta) == IF Reversed THEN 0 - delta ELSE delta

\* The device is registered; the wheel stands anywhere.
Init ==
  /\ phase \in 0 .. 3 /\ travel = 0
  /\ irq_on = [p \in Pins |-> FALSE] /\ pend = [p \in Pins |-> FALSE]
  /\ attached = FALSE /\ enabled = FALSE /\ count = 0 /\ last_state = 0
  /\ isr = "none" /\ tpc = "open" /\ seen_a = 0
  /\ moved = FALSE /\ late = FALSE

-----------------------------------------------------------------------------
(* The wheel.                                                              *)

\* The wheel moves by a quarter step, which changes one pin.
Wheel(d) ==
  LET ph == (phase + d + 4) % 4
      pin == IF PinA(ph) # PinA(phase) THEN "A" ELSE "B"
  IN /\ -MaxCount <= travel + d /\ travel + d <= MaxCount
     /\ -MaxCount <= count /\ count <= MaxCount
     /\ phase' = ph
     /\ travel' = travel + d
     /\ pend' = [pend EXCEPT ![pin] = @ \/ irq_on[pin]]
     /\ moved' = (isr # "none" \/ tpc \in {"init_b", "clear_b"})
     /\ late' = (late \/ moved \/ Steps(last_state, ph) = 2)
     /\ UNCHANGED <<irq_on, devVars, runVars>>

-----------------------------------------------------------------------------
(* The interrupt routine.                                                  *)

\* A thread that reads the pins has disabled the interrupts.
Masked == tpc \in {"init_b", "clear_b"}

\* The latch is cleared, then hcics_encoder_irq is called.
IsrEnter(pin) ==
  /\ isr = "none" /\ ~Masked
  /\ pend[pin]
  /\ pend' = [pend EXCEPT ![pin] = FALSE]
  /\ isr' = IF enabled THEN "a" ELSE "none"
  /\ moved' = FALSE
  /\ UNCHANGED <<wheelVars, irq_on, devVars, tpc, seen_a, late>>

IsrReadA ==
  /\ isr = "a"
  /\ seen_a' = PinA(phase)
  /\ isr' = "b"
  /\ UNCHANGED <<wheelVars, irqVars, devVars, tpc, moved, late>>

\* Mutant: a change that cannot be decoded is not remembered.
IsrReadBForgets ==
  /\ isr = "b"
  /\ LET now == Code(seen_a, PinB(phase))
         delta == Decode(last_state, now)
     IN /\ last_state' = IF delta = 0 THEN last_state ELSE now
        /\ count' = count + Signed(delta)
  /\ isr' = "none"
  /\ seen_a' = 0 /\ moved' = FALSE
  /\ UNCHANGED <<wheelVars, irqVars, attached, enabled, tpc, late>>

IsrReadB ==
  /\ isr = "b"
  /\ LET now == Code(seen_a, PinB(phase))
     IN /\ count' = count + Signed(Decode(last_state, now))
        /\ last_state' = now
  /\ isr' = "none"
  /\ seen_a' = 0 /\ moved' = FALSE
  /\ UNCHANGED <<wheelVars, irqVars, attached, enabled, tpc, late>>

-----------------------------------------------------------------------------
(* Opening the device: hcics_encoder_control(ENABLE), then CLEAR_COUNT.    *)

\* Threads run when no interrupt routine does.
At(place) == tpc = place /\ isr = "none"

\* hcics_encoder_device_init reads A, then B, then zeroes the count.
InitReadA ==
  /\ At("open")
  /\ seen_a' = PinA(phase) /\ moved' = FALSE
  /\ tpc' = "init_b"
  /\ UNCHANGED <<wheelVars, irqVars, devVars, isr, late>>

\* The count and the state it counts from are set; the history starts again.
Zeroed(code) ==
  /\ count' = 0 /\ last_state' = code
  /\ travel' = Steps(code, phase)
  /\ seen_a' = 0 /\ moved' = FALSE
  /\ late' = (Steps(code, phase) = 2)

InitReadB ==
  /\ At("init_b")
  /\ Zeroed(Code(seen_a, PinB(phase)))
  /\ tpc' = "attach"
  /\ UNCHANGED <<phase, irqVars, attached, enabled, isr>>

\* hcics_encoder_attach_irqs; when B fails, A is detached.
Attach ==
  /\ At("attach")
  /\ \/ attached' = TRUE /\ enabled' = TRUE /\ tpc' = "irq_a"
     \/ tpc' = "failed" /\ UNCHANGED <<attached, enabled>>
  /\ UNCHANGED <<wheelVars, irqVars, count, last_state, isr, seen_a, moved, late>>

\* hcics_encoder_enable_irqs, pin A.
EnableA ==
  /\ At("irq_a")
  /\ \/ irq_on' = [irq_on EXCEPT !["A"] = TRUE] /\ tpc' = "irq_b" /\ UNCHANGED enabled
     \/ enabled' = FALSE /\ tpc' = "failed" /\ UNCHANGED irq_on
  /\ UNCHANGED <<wheelVars, pend, attached, count, last_state, isr, seen_a, moved, late>>

\* Pin B; when it fails, A is disabled again.
EnableB ==
  /\ At("irq_b")
  /\ \/ irq_on' = [irq_on EXCEPT !["B"] = TRUE] /\ tpc' = "clear" /\ UNCHANGED enabled
     \/ irq_on' = [irq_on EXCEPT !["A"] = FALSE] /\ enabled' = FALSE /\ tpc' = "failed"
  /\ UNCHANGED <<wheelVars, pend, attached, count, last_state, isr, seen_a, moved, late>>

\* hcics_encoder_clear_count.
ClearReadA ==
  /\ At("clear")
  /\ seen_a' = PinA(phase) /\ moved' = FALSE
  /\ tpc' = "clear_b"
  /\ UNCHANGED <<wheelVars, irqVars, devVars, isr, late>>

ClearReadB ==
  /\ At("clear_b")
  /\ Zeroed(Code(seen_a, PinB(phase)))
  /\ tpc' = "ready"
  /\ UNCHANGED <<phase, irqVars, attached, enabled, isr>>

Next ==
  \/ \E d \in {-1, 1} : Wheel(d)
  \/ \E pin \in Pins : IsrEnter(pin)
  \/ IsrReadA \/ IsrReadB
  \/ InitReadA \/ InitReadB \/ Attach \/ EnableA \/ EnableB
  \/ ClearReadA \/ ClearReadB

Spec == Init /\ [][Next]_vars

-----------------------------------------------------------------------------
(* Properties.                                                             *)

TypeOK ==
  /\ phase \in 0 .. 3 /\ travel \in Int
  /\ irq_on \in [Pins -> BOOLEAN] /\ pend \in [Pins -> BOOLEAN]
  /\ attached \in BOOLEAN /\ enabled \in BOOLEAN
  /\ count \in Int /\ last_state \in 0 .. 3
  /\ isr \in {"none", "a", "b"} /\ seen_a \in 0 .. 1
  /\ tpc \in {"open", "init_b", "attach", "irq_a", "irq_b", "clear", "clear_b",
              "ready", "failed"}
  /\ moved \in BOOLEAN /\ late \in BOOLEAN

\* The device is open and every interrupt has been served.
Settled ==
  tpc = "ready" /\ isr = "none" /\ \A pin \in Pins : ~pend[pin]

\* When every interrupt has been served the encoder knows the pins as they are,
\* however late the routines ran and however their readings were torn, and
\* whatever the wheel did before the interrupts were enabled.
NoEdgeForgotten == Settled => last_state = Code(PinA(phase), PinB(phase))

\* The count is the way of the wheel since it was cleared, unless the wheel made
\* two steps before an interrupt was served or while one was.  Late interrupts lose
\* steps by pairs: the count is never off by one.
ExactUnlessLate ==
  Settled => /\ ~late => count = Signed(travel)
             /\ (travel - count) % 2 = 0
=============================================================================
