---------------------------- MODULE HcicsMotion -----------------------------
(***************************************************************************)
(* hcics_motion.c and its callers in hcics_app.c: the control thread, which *)
(* takes a target from the track module and updates the motors; the mission *)
(* thread, which clears, resets and stops them; and the emergency stop of   *)
(* the UDP thread.                                                          *)
(*                                                                         *)
(* g_motion has no lock.  The control thread has the highest priority of    *)
(* the three, so a turn of its loop is never interrupted; it may come in    *)
(* between any two shared accesses of the others, whose calls are therefore *)
(* several steps.  Speeds are small integers; of an encoder reading only    *)
(* matters whether it is usable.  When a stalled vehicle is boosted or      *)
(* given up is the subject of HcicsStuck; here both may happen in any turn  *)
(* with a command that is large enough.                                     *)
(***************************************************************************)
EXTENDS Integers, FiniteSets, HcicsLatch

CONSTANTS
  Wheels,        \* left and right
  Requests,      \* speeds the track module asks for, per wheel
  SpeedMax,      \* HCICS_MOTION_SPEED_MAX
  RampStep,      \* HCICS_MOTION_RAMP_STEP
  MinCmd,        \* HCICS_MOTION_MIN_NONZERO_CMD
  StuckMin,      \* HCICS_MOTION_STUCK_MIN_CMD
  BoostCmd,      \* HCICS_MOTION_STUCK_BOOST_CMD
  FailLimit      \* HCICS_MOTION_ENCODER_FAIL_LIMIT

ASSUME SpeedAssumption ==
  /\ IsFiniteSet(Wheels) /\ Wheels # {}
  /\ Requests \subseteq [Wheels -> Int]
  /\ {SpeedMax, RampStep, MinCmd, StuckMin, BoostCmd} \subseteq Nat \ {0}
  /\ MinCmd <= SpeedMax /\ BoostCmd <= SpeedMax
  /\ FailLimit \in 1 .. 255

VARIABLES
  stop_reason,                           \* g_motion
  target, command,                       \* g_motion, per wheel
  fail_count,                            \* g_motion.encoder_*_fail_count
  stby, pulse,       \* hardware: standby pin active, PWM pulse per wheel
  running, finished, \* g_track
  abort,             \* g_hcics.abort
  cpc,               \* control thread: place in its loop
  mpc, mret, leg,    \* mission thread: place, where a stop returns to, leg
  upc,               \* UDP thread: place in hcics_app_stop
  pwm_failed         \* history: an output failed since the last reset

latchVars == <<emergency_stop, stop_reason>>
hwVars == <<stby, pulse, pwm_failed>>
trackVars == <<running, finished>>
missionVars == <<mpc, mret, leg>>
vars == <<latchVars, target, command, fail_count, hwVars, trackVars, abort, cpc,
          missionVars, upc>>

Zero == [w \in Wheels |-> 0]

Abs(v) == IF v < 0 THEN -v ELSE v

\* hcics_motion_clamp_raw.
Clamp(v) == IF v > SpeedMax THEN SpeedMax
            ELSE IF v < -SpeedMax THEN -SpeedMax ELSE v

\* hcics_motion_preserve_direction.
PreserveDirection(v, least) ==
  IF v = 0 \/ Abs(v) >= least THEN v ELSE IF v > 0 THEN least ELSE -least

\* hcics_motion_normalize_target.
Normalize(v) == PreserveDirection(Clamp(v), MinCmd)

\* hcics_motion_ramp_toward.
RampToward(v, goal) ==
  IF goal > v THEN IF v + RampStep > goal THEN goal ELSE v + RampStep
  ELSE IF v - RampStep < goal THEN goal ELSE v - RampStep

\* State after hcics_motion_init and hcics_app_init.
Init ==
  /\ emergency_stop = FALSE /\ stop_reason = "none"
  /\ target = Zero /\ command = Zero
  /\ fail_count = Zero
  /\ stby = FALSE /\ pulse = Zero /\ pwm_failed = FALSE
  /\ running = FALSE /\ finished = FALSE /\ abort = FALSE
  /\ cpc = "track" /\ mpc = "idle" /\ mret = "idle" /\ leg = "nav" /\ upc = "none"

-----------------------------------------------------------------------------
(* Parts of the calls.                                                     *)

\* Mutant: a refused target goes unnoticed.
SetMotorSilent(speeds) ==
  /\ target' = IF emergency_stop THEN target
               ELSE [w \in Wheels |-> Normalize(speeds[w])]
  /\ UNCHANGED abort

\* hcics_track_set_motor: hcics_motion_set_target refuses a target while the
\* emergency stop is latched, and the caller latches the motion fault.
SetMotor(speeds) ==
  IF emergency_stop
    THEN abort' = TRUE /\ UNCHANGED target
    ELSE /\ target' = [w \in Wheels |-> Normalize(speeds[w])]
         /\ UNCHANGED abort

\* hcics_motion_output: pins, then pulses.
OutputOk(speeds) ==
  /\ stby' = (\E w \in Wheels : speeds[w] # 0)
  /\ pulse' = speeds
  /\ UNCHANGED pwm_failed

\* hcics_motion_pwm_fail: the channels are disabled, if that works, the pins are
\* made safe and the emergency stop is latched; targets and commands stay.
PwmFail(speeds) ==
  /\ stby' = FALSE
  /\ pulse' \in {speeds, Zero}
  /\ emergency_stop' = TRUE /\ stop_reason' = "E1"
  /\ pwm_failed' = TRUE

ZeroSpeeds == target' = Zero /\ command' = Zero

-----------------------------------------------------------------------------
(* Control thread.                                                         *)

othersFrame == <<missionVars, upc>>

\* hcics_track_tick without a path, or inside a timed action of a path ...
CTrackQuiet ==
  /\ cpc = "track"
  /\ cpc' = "poll"
  /\ UNCHANGED <<latchVars, target, command, fail_count, hwVars, trackVars, abort,
                 othersFrame>>

\* ... on the line or at the start of a timed action ...
CTrackSet ==
  /\ cpc = "track" /\ running
  /\ \E r \in Requests \cup {Zero} : SetMotor(r)
  /\ cpc' = "poll"
  /\ UNCHANGED <<latchVars, command, fail_count, hwVars, trackVars, othersFrame>>

\* ... and at the end of the path.
CTrackFinish ==
  /\ cpc = "track" /\ running
  /\ running' = FALSE /\ finished' = TRUE
  /\ SetMotor(Zero)
  /\ cpc' = "poll"
  /\ UNCHANGED <<latchVars, command, fail_count, hwVars, othersFrame>>

MotionRequested == target # Zero \/ command # Zero

\* The counters of hcics_motion_poll_actual_speed after a poll in which the
\* readings of some wheels fail or are beyond the sanity limit.
FailCount(failing) ==
  [w \in Wheels |-> IF w \notin failing THEN 0
                    ELSE IF MotionRequested /\ fail_count[w] < 255
                           THEN fail_count[w] + 1
                    ELSE fail_count[w]]

PollFault(failing) ==
  MotionRequested /\ \E w \in Wheels : FailCount(failing)[w] >= FailLimit

\* Mutant: the update does not look at the latch.
CPollOkNoLatch ==
  /\ cpc = "poll"
  /\ \E failing \in SUBSET Wheels :
       ~PollFault(failing) /\ fail_count' = FailCount(failing)
  /\ cpc' = "ramp"
  /\ UNCHANGED <<latchVars, target, command, hwVars, trackVars, abort, othersFrame>>

\* The poll succeeds: go on with the update.
CPollOk ==
  /\ cpc = "poll"
  /\ \E failing \in SUBSET Wheels :
       ~PollFault(failing) /\ fail_count' = FailCount(failing)
  /\ cpc' = IF emergency_stop THEN "halt" ELSE "ramp"
  /\ UNCHANGED <<latchVars, target, command, hwVars, trackVars, abort, othersFrame>>

\* A fault found by hcics_motion_service.  The update returns the result of the
\* output, so the control loop is told only if that fails too.
FaultInService(reason) ==
  /\ ZeroSpeeds
  /\ \/ /\ OutputOk(Zero)
        /\ emergency_stop' = TRUE /\ stop_reason' = reason
        /\ UNCHANGED abort
     \/ PwmFail(Zero) /\ abort' = TRUE
  /\ cpc' = "track"
  /\ UNCHANGED <<trackVars, othersFrame>>

\* The readings of a wheel have failed too often in a row.
CEncoderFault ==
  /\ cpc = "poll"
  /\ \E failing \in SUBSET Wheels :
       PollFault(failing) /\ fail_count' = FailCount(failing)
  /\ FaultInService("E2")

\* The output of an update; a failure is latched by the control loop.
Drive(speeds) ==
  \/ OutputOk(speeds) /\ UNCHANGED <<latchVars, abort>>
  \/ PwmFail(speeds) /\ abort' = TRUE

\* The emergency stop is latched: keep everything at zero.
CHalt ==
  /\ cpc = "halt"
  /\ ZeroSpeeds
  /\ Drive(Zero)
  /\ cpc' = "track"
  /\ UNCHANGED <<fail_count, trackVars, othersFrame>>

CRamp ==
  /\ cpc = "ramp"
  /\ command' = [w \in Wheels |-> RampToward(command[w], target[w])]
  /\ cpc' = "output"
  /\ UNCHANGED <<latchVars, target, fail_count, hwVars, trackVars, abort,
                 othersFrame>>

\* hcics_motion_apply_stuck_boost gives up a stalled vehicle.
CStuckFault ==
  /\ cpc = "output"
  /\ \E w \in Wheels : Abs(command[w]) >= StuckMin
  /\ FaultInService("E3")
  /\ UNCHANGED fail_count

\* The command goes to the motors, or in a boost at least BoostCmd.
CDrive ==
  /\ cpc = "output"
  /\ \E least \in {0, BoostCmd} :
       Drive([w \in Wheels |-> Clamp(PreserveDirection(command[w], least))])
  /\ cpc' = "track"
  /\ UNCHANGED <<target, command, fail_count, trackVars, othersFrame>>

ControlNext ==
  \/ CTrackQuiet \/ CTrackSet \/ CTrackFinish \/ CPollOk \/ CEncoderFault
  \/ CHalt \/ CRamp \/ CStuckFault \/ CDrive

-----------------------------------------------------------------------------
(* Mission thread: the motion calls of hcics_run_mission.                  *)

\* Other threads run only between two turns of the control loop.
Free == cpc = "track"

MAt(place) == Free /\ mpc = place

\* A mission begins; the order comes from the UDP thread, which is therefore not
\* in hcics_app_stop.
MBegin ==
  /\ MAt("idle") /\ upc = "none"
  /\ abort' = FALSE
  /\ mpc' = "clear" /\ leg' = "nav"
  /\ UNCHANGED <<latchVars, target, command, fail_count, hwVars,
                 trackVars, cpc, mret, upc>>

\* hcics_motion_clear_emergency_stop.
MClear ==
  /\ MAt("clear")
  /\ emergency_stop' = FALSE /\ stop_reason' = "none"
  /\ mpc' = "reset"
  /\ UNCHANGED <<target, command, fail_count, hwVars, trackVars,
                 abort, cpc, mret, leg, upc>>

\* hcics_motion_reset up to its output.
MReset ==
  /\ MAt("reset")
  /\ ZeroSpeeds
  /\ fail_count' = Zero
  /\ pwm_failed' = FALSE
  /\ mpc' = "pins" /\ mret' = "check"
  /\ UNCHANGED <<latchVars, stby, pulse, trackVars, abort, cpc, leg, upc>>

\* hcics_motion_output(0, 0) in the mission thread: the pins ...
MPins ==
  /\ MAt("pins")
  /\ stby' = FALSE
  /\ mpc' = "pulses"
  /\ UNCHANGED <<latchVars, target, command, fail_count, pulse, pwm_failed,
                 trackVars, abort, cpc, mret, leg, upc>>

\* ... and the pulses, in vain or not.
MPulses ==
  /\ MAt("pulses")
  /\ \/ pulse' = Zero /\ UNCHANGED <<latchVars, stby, pwm_failed>>
     \/ PwmFail(Zero)
  /\ mpc' = mret /\ mret' = "idle"
  /\ UNCHANGED <<target, command, fail_count, trackVars, abort, cpc,
                 leg, upc>>

\* The mission fails at once if the reset has latched the emergency stop.
MCheck ==
  /\ MAt("check")
  /\ mpc' = IF emergency_stop THEN "final" ELSE "wait"
  /\ UNCHANGED <<latchVars, target, command, fail_count, hwVars,
                 trackVars, abort, cpc, mret, leg, upc>>

\* The wait for the camera and hcics_track_start_path, or their failure.
MStartPath ==
  /\ MAt("wait")
  /\ \/ ~abort /\ running' = TRUE /\ finished' = FALSE /\ mpc' = "follow"
     \/ mpc' = "final" /\ UNCHANGED trackVars
  /\ UNCHANGED <<latchVars, target, command, fail_count, hwVars,
                 abort, cpc, mret, leg, upc>>

\* Mutant: after an arrival the motors are left to ramp down.
MFollowNoDirect ==
  /\ MAt("follow")
  /\ \/ mpc' = "stop" /\ mret' = "final"
     \/ /\ ~abort /\ finished
        /\ mpc' = IF leg = "nav" THEN "panel" ELSE "final"
        /\ UNCHANGED mret
  /\ UNCHANGED <<latchVars, target, command, fail_count, hwVars, trackVars, abort,
                 cpc, leg, upc>>

\* hcics_follow_track_path ends with an arrival, or with a stop because of abort,
\* a lost camera or a timeout.
MFollow ==
  /\ MAt("follow")
  /\ \/ mpc' = "stop" /\ mret' = "final"
     \/ /\ ~abort /\ finished
        /\ mpc' = "direct"
        /\ mret' = IF leg = "nav" THEN "panel" ELSE "final"
  /\ UNCHANGED <<latchVars, target, command, fail_count, hwVars,
                 trackVars, abort, cpc, leg, upc>>

\* The panel is cleaned with the vehicle parked.
MPanel ==
  /\ MAt("panel")
  /\ \/ mpc' = "wait" /\ leg' = "return"
     \/ mpc' = "final" /\ UNCHANGED leg
  /\ UNCHANGED <<latchVars, target, command, fail_count, hwVars,
                 trackVars, abort, cpc, mret, upc>>

\* hcics_track_stop, in the follow loop and in hcics_safe_stop_outputs.
TrackStop == running' = FALSE /\ finished' = FALSE /\ SetMotor(Zero)

MStop ==
  /\ MAt("stop") \/ MAt("final")
  /\ TrackStop
  /\ mpc' = "direct"
  /\ mret' = IF mpc = "stop" THEN "final" ELSE "idle"
  /\ leg' = "nav"
  /\ UNCHANGED <<latchVars, command, fail_count, hwVars, cpc, upc>>

\* hcics_motion_set_target_direct(0, 0): refused while latched ...
MDirect ==
  /\ MAt("direct")
  /\ IF emergency_stop
       THEN mpc' = mret /\ mret' = "idle" /\ UNCHANGED target
       ELSE mpc' = "direct_poll" /\ target' = Zero /\ UNCHANGED mret
  /\ UNCHANGED <<latchVars, command, fail_count, hwVars, trackVars,
                 abort, cpc, leg, upc>>

\* ... then hcics_motion_service: poll the encoders ...
MDirectPoll ==
  /\ MAt("direct_poll")
  /\ \E failing \in SUBSET Wheels :
       /\ fail_count' = FailCount(failing)
       /\ IF PollFault(failing)
            THEN /\ emergency_stop' = TRUE /\ stop_reason' = "E2"
                 /\ ZeroSpeeds
                 /\ mpc' = "pins"
            ELSE /\ mpc' = "direct_command"
                 /\ UNCHANGED <<latchVars, target, command>>
  /\ UNCHANGED <<hwVars, trackVars, abort, cpc, mret, leg, upc>>

\* ... and command the target at once; the same stores if latched meanwhile.
MDirectCommand ==
  /\ MAt("direct_command")
  /\ target' = IF emergency_stop THEN Zero ELSE target
  /\ command' = target'
  /\ mpc' = "pins"
  /\ UNCHANGED <<latchVars, fail_count, hwVars, trackVars,
                 abort, cpc, mret, leg, upc>>

MissionNext ==
  \/ MBegin \/ MClear \/ MReset \/ MPins \/ MPulses \/ MCheck \/ MStartPath
  \/ MFollow \/ MPanel \/ MStop \/ MDirect \/ MDirectPoll \/ MDirectCommand

-----------------------------------------------------------------------------
(* UDP thread: hcics_app_stop.                                             *)

UAt(place) == Free /\ upc = place

UStop ==
  /\ UAt("none")
  /\ abort' = TRUE
  /\ upc' = "track_stop"
  /\ UNCHANGED <<latchVars, target, command, fail_count, hwVars,
                 trackVars, cpc, missionVars>>

UTrackStop ==
  /\ UAt("track_stop")
  /\ TrackStop
  /\ upc' = "latch"
  /\ UNCHANGED <<latchVars, command, fail_count, hwVars, cpc,
                 missionVars>>

\* hcics_motion_emergency_stop: first the latch ...
ULatch ==
  /\ UAt("latch")
  /\ emergency_stop' = TRUE /\ stop_reason' = "stop"
  /\ upc' = "zero"
  /\ UNCHANGED <<target, command, fail_count, hwVars, trackVars,
                 abort, cpc, missionVars>>

UZero ==
  /\ UAt("zero")
  /\ ZeroSpeeds
  /\ upc' = "pins"
  /\ UNCHANGED <<latchVars, fail_count, hwVars, trackVars,
                 abort, cpc, missionVars>>

\* ... and at last the output.
UPins ==
  /\ UAt("pins")
  /\ stby' = FALSE
  /\ upc' = "pulses"
  /\ UNCHANGED <<latchVars, target, command, fail_count, pulse, pwm_failed,
                 trackVars, abort, cpc, missionVars>>

UPulses ==
  /\ UAt("pulses")
  /\ \/ pulse' = Zero /\ UNCHANGED <<latchVars, stby, pwm_failed>>
     \/ PwmFail(Zero)
  /\ upc' = "none"
  /\ UNCHANGED <<target, command, fail_count, trackVars, abort, cpc,
                 missionVars>>

UdpNext == UStop \/ UTrackStop \/ ULatch \/ UZero \/ UPins \/ UPulses

-----------------------------------------------------------------------------

Next == ControlNext \/ MissionNext \/ UdpNext

Spec == Init /\ [][Next]_vars

\* The control loop turns for ever, and the timed actions of a path end, after
\* which the track module sets the motors again.
Fairness == WF_vars(ControlNext) /\ SF_vars(CTrackSet \/ CTrackFinish)

FairSpec == Spec /\ Fairness

-----------------------------------------------------------------------------
(* Properties.                                                             *)

FlagsOK ==
  {emergency_stop, stby, pwm_failed, running, finished, abort} \subseteq BOOLEAN

DataOK ==
  /\ stop_reason \in {"none", "stop", "E1", "E2", "E3"}
  /\ {target, command, pulse} \subseteq [Wheels -> -SpeedMax .. SpeedMax]
  /\ fail_count \in [Wheels -> 0 .. FailLimit]
  /\ cpc \in {"track", "poll", "halt", "ramp", "output"}
  /\ mpc \in {"idle", "clear", "reset", "pins", "pulses", "check", "wait",
              "follow", "stop", "direct", "direct_poll", "direct_command",
              "panel", "final"}
  /\ mret \in {"idle", "check", "panel", "final"} /\ leg \in {"nav", "return"}
  /\ upc \in {"none", "track_stop", "latch", "zero", "pins", "pulses"}

TypeOK == FlagsOK /\ DataOK

Moving == stby /\ \E w \in Wheels : pulse[w] # 0

\* The stop handler has latched the emergency stop and not reached its output.
Stopping == upc \in {"zero", "pins"}

\* A latched emergency stop means that the motors are off, except in a handler
\* between its latch and its output, and whatever the output calls return: no
\* crossing of a tick, a direct target and a stop switches them on.  And the
\* variables keep their types, speeds and counters within their limits.
LatchedIsStill ==
  /\ TypeOK
  /\ emergency_stop /\ ~Stopping /\ mpc # "pins" => ~Moving

\* The vehicle does not move before the mission drives, while it is parked at the
\* panel with the brush out, and after the mission.  There are two exceptions: a
\* stop that is on its way, which is why the mission could not stop the motors
\* itself, and a failed output, which leaves targets that a tick between clear
\* and reset would obey.
StillAtRest ==
  mpc \in {"idle", "clear", "reset", "check", "panel"} /\ ~Stopping
    => ~Moving \/ pwm_failed

\* A motion fault on the way is noticed: hcics_motion_service reports an encoder
\* or stall fault as success, but the next target is refused and aborts the
\* mission.
FaultNoticed == (emergency_stop /\ running) ~> abort
=============================================================================
