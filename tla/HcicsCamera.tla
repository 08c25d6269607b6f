----------------------------- MODULE HcicsCamera -----------------------------
(***************************************************************************)
(* One camera link: the receive interrupt of the UART with its ring buffer  *)
(* (serial.c), the camera thread that reads it byte by byte                 *)
(* (hcics_camera_uart_loop), the frame parser hcics_protocol_camera_feed    *)
(* and the publication under the role of the link.                          *)
(*                                                                         *)
(* The camera sends frames  head, mode, payload ..., tail  without a        *)
(* checksum.  A payload byte may have the value of a head or a tail.  Bytes *)
(* are lost when the ring overflows (the oldest goes) and on the line, for  *)
(* instance while hcics_axis_write_locked keeps the interrupts disabled for *)
(* a whole frame to the axis; they may be garbled; and the UART is opened   *)
(* while the camera is already sending.                                     *)
(*                                                                         *)
(* A byte carries, besides its value, the frame it was sent in and its      *)
(* place there.  The program does not see them; the properties do.  Frames  *)
(* are numbered 0 and 1 in turn, enough to tell neighbours apart.           *)
(***************************************************************************)
EXTENDS Integers, Sequences

CONSTANTS
  FrameLen,  \* HCICS_CAM_FRAME_LEN
  RingSize   \* RT_SERIAL_RB_BUFSZ; one slot stays free

ASSUME CameraAssumption ==
  /\ FrameLen \in Nat /\ FrameLen >= 4
  /\ RingSize \in Nat /\ RingSize >= 2

\* Values of a byte: HCICS_CAM_HEAD, HCICS_CAM_TAIL, one of the two modes the
\* parser accepts, and all others.
Value == {"head", "tail", "mode", "other"}

VARIABLES
  sending,   \* the place on the wire of the byte the camera sends next
  ring,      \* the receive fifo of the serial device
  state, index, buf,   \* hcics_camera_parser_t
  latest,    \* the frame published by the byte read last, <<>> if none
  prev,      \* history: the place on the wire of the byte read last
  lost,      \* history: bytes lost since the head of the frame, up to FrameLen
  calm       \* history: 0 disturbed; 1 inside a frame that was read from its
             \* head and has no other; 2 since such a frame ended; 3 since the
             \* frame after it ended

vars == <<sending, ring, state, index, buf, latest, prev, lost, calm>>

\* A place on the wire: frame and position in it, 0 for a garbled byte.
Place == [f : 0 .. 1, p : 1 .. FrameLen]

\* The place after s.
Successor(s) ==
  IF s.p < FrameLen THEN [f |-> s.f, p |-> s.p + 1]
                    ELSE [f |-> 1 - s.f, p |-> 1]

\* The parser has been zeroed, and the camera may be anywhere in a frame.
Init ==
  /\ sending \in [f : {0}, p : 1 .. FrameLen]
  /\ ring = <<>>
  /\ state = 0 /\ index = 0 /\ buf = <<>>
  /\ latest = <<>>
  /\ prev = [f |-> 0, p |-> 0]
  /\ lost = 0 /\ calm = 0

-----------------------------------------------------------------------------
(* The line and the receive interrupt.                                     *)

\* What the camera may send at a position of its frame.
Sendable(p) ==
  CASE p = 1 -> {"head"}
    [] p = 2 -> {"mode", "other"}
    [] p = FrameLen -> {"tail"}
    [] OTHER -> {"head", "tail", "other"}

\* rt_hw_serial_isr: store the byte; if the ring is then full, drop the oldest.
Received(b) ==
  ring' = IF Len(ring) + 1 < RingSize THEN Append(ring, b)
                                      ELSE Append(Tail(ring), b)

\* A byte arrives as it was sent.
Isr ==
  /\ \E v \in Sendable(sending.p) :
       Received([v |-> v, f |-> sending.f, p |-> sending.p])
  /\ sending' = Successor(sending)
  /\ UNCHANGED <<state, index, buf, latest, prev, lost, calm>>

\* A byte arrives garbled.
IsrGarbled ==
  /\ \E v \in Value : Received([v |-> v, f |-> 0, p |-> 0])
  /\ sending' = Successor(sending)
  /\ UNCHANGED <<state, index, buf, latest, prev, lost, calm>>

\* A byte is lost before the interrupt can fetch it.
LineLoss ==
  /\ sending' = Successor(sending)
  /\ UNCHANGED <<ring, state, index, buf, latest, prev, lost, calm>>

-----------------------------------------------------------------------------
(* The camera thread.                                                      *)

\* The three cases of hcics_protocol_camera_feed: outside a frame, inside, and
\* at its last byte.
Seek(b) ==
  /\ IF b.v = "head" THEN state' = 1 /\ index' = 1 /\ buf' = <<b>>
                     ELSE UNCHANGED <<state, index, buf>>
  /\ latest' = <<>>

\* Mutant: any byte with the value of a head starts a frame.
CollectRestarts(b) ==
  /\ index' = IF b.v = "head" THEN 1 ELSE index + 1
  /\ buf' = IF b.v = "head" THEN <<b>> ELSE Append(buf, b)
  /\ latest' = <<>>
  /\ UNCHANGED state

Collect(b) ==
  /\ index' = index + 1 /\ buf' = Append(buf, b)
  /\ latest' = <<>>
  /\ UNCHANGED state

\* Mutant: the tail is not looked at.
CompleteNoTail(frame) ==
  /\ state' = 0 /\ index' = 0 /\ buf' = <<>>
  /\ latest' = IF frame[2].v = "mode" THEN frame ELSE <<>>

\* Accept the frame or drop it as a whole; its bytes are not searched for
\* another head.  An accepted frame is published under the role of the link,
\* whichever of the two modes it carries (hcics_app_update_role_camera).
Complete(frame) ==
  /\ state' = 0 /\ index' = 0 /\ buf' = <<>>
  /\ latest' = IF frame[FrameLen].v = "tail" /\ frame[2].v = "mode"
                 THEN frame ELSE <<>>

\* Mutant: the comparison with the frame length is off by one.
FeedOffByOne(b) ==
  \/ state = 0 /\ Seek(b)
  \/ state = 1 /\ index < FrameLen /\ Collect(b)
  \/ state = 1 /\ index >= FrameLen /\ Complete(Append(buf, b))

\* hcics_protocol_camera_feed.
Feed(b) ==
  \/ state = 0 /\ Seek(b)
  \/ state = 1 /\ index + 1 < FrameLen /\ Collect(b)
  \/ state = 1 /\ index + 1 >= FrameLen /\ Complete(Append(buf, b))

\* History: the bytes of the wire lost between two that were read, modulo two frames,
\* and those lost since the head of the frame.
Offset(s) == s.f * FrameLen + s.p
Gap(a, b) == (Offset(b) + 2 * FrameLen - Offset(a) - 1) % (2 * FrameLen)
Lost(b) ==
  IF state = 0 THEN 0
  ELSE IF lost + Gap(prev, b) < FrameLen THEN lost + Gap(prev, b) ELSE FrameLen

\* History: the byte is the one sent after the byte read before it.
Follows(b) == b.p # 0 /\ prev.p # 0 /\ [f |-> b.f, p |-> b.p] = Successor(prev)

Calm(b) ==
  IF calm = 0 \/ ~Follows(b) THEN IF b.p = 1 THEN 1 ELSE 0
  ELSE IF calm = 1 /\ b.p # 1 /\ b.v = "head" THEN 0
  ELSE IF calm < 3 /\ b.p = FrameLen THEN calm + 1
  ELSE calm

\* A turn of hcics_camera_uart_loop with a byte in the ring.
Read ==
  /\ ring # <<>>
  /\ ring' = Tail(ring)
  /\ Feed(Head(ring))
  /\ prev' = [f |-> Head(ring).f, p |-> Head(ring).p]
  /\ lost' = Lost(Head(ring))
  /\ calm' = Calm(Head(ring))
  /\ UNCHANGED sending

Next == Isr \/ IsrGarbled \/ LineLoss \/ Read

Spec == Init /\ [][Next]_vars

-----------------------------------------------------------------------------
(* Properties.                                                             *)

Bytes == [v : Value, f : 0 .. 1, p : 0 .. FrameLen]

\* The parser never writes outside its buffer of HCICS_CAM_FRAME_LEN bytes, and
\* state, index and buffer agree: the index is that of the next free byte.
TypeOK ==
  /\ sending \in Place
  /\ Len(ring) < RingSize /\ \A i \in 1 .. Len(ring) : ring[i] \in Bytes
  /\ state \in {0, 1}
  /\ index \in 0 .. FrameLen - 1 /\ (state = 0 <=> index = 0)
  /\ Len(buf) = index /\ \A i \in 1 .. index : buf[i] \in Bytes
  /\ Len(latest) \in {0, FrameLen}
  /\ lost \in 0 .. FrameLen /\ calm \in 0 .. 3

\* The bytes are one frame as the camera sent it.
Genuine(frame) ==
  \A i \in 1 .. FrameLen : frame[i].p = i /\ frame[i].f = frame[1].f

\* There is no checksum, so a published frame need not be one the camera sent.
\* But then a byte of it was garbled, or a payload byte passed for its head or
\* its tail, or at least as many bytes were lost inside it as a frame has: the
\* loss of fewer bytes, wherever, never mixes two frames.
NoSplice ==
  latest # <<>> =>
    \/ Genuine(latest)
    \/ \E i \in 1 .. FrameLen : latest[i].p = 0
    \/ latest[1].p # 1 /\ latest[1].v = "head"
    \/ latest[FrameLen].p # FrameLen /\ latest[FrameLen].v = "tail"
    \/ lost >= FrameLen

\* However the parser was misled by lost or garbled bytes or by a late start,
\* one whole frame without a head in its payload brings it back: every frame
\* that follows undisturbed is collected from its own head to its own tail, and
\* published if its mode is one, whatever its payload is.
Resynchronises ==
  [][ring # <<>> /\ ring' = Tail(ring) /\ calm >= 2
       /\ Follows(Head(ring)) /\ Head(ring).p = FrameLen =>
       LET frame == Append(buf, Head(ring)) IN
         /\ Len(frame) = FrameLen /\ Genuine(frame)
         /\ frame[2].v = "mode" => latest' = frame]_vars

=============================================================================
