----------------------------- MODULE HcicsStuck -----------------------------
(***************************************************************************)
(* hcics_motion_apply_stuck_boost of hcics_motion.c: the timers that notice *)
(* a vehicle that is commanded and does not move, boost it, and give up.    *)
(*                                                                         *)
(* One action is one turn of the control loop, or one of the calls of other *)
(* threads that clear the timers.  The clock counts modulo ClockMod, as the *)
(* code's counts modulo 2^32, and 0 in a timer means that it is not set.    *)
(* 1 .. MaxGap units pass from one turn to the next: threads of the network *)
(* stack have a higher priority than the control thread.                    *)
(***************************************************************************)
EXTENDS Integers, HcicsLatch

CONSTANTS
  MaxBoosts,            \* HCICS_MOTION_STUCK_MAX_BOOSTS
  Trigger, Hold, Fail,  \* HCICS_MOTION_STUCK_TRIGGER_MS, _HOLD_MS, _FAIL_MS
  ClockMod,             \* modulus of the clock
  MaxGap                \* longest time between two turns of the control loop

ASSUME StuckAssumption ==
  /\ {Trigger, Hold, Fail, MaxGap, ClockMod} \subseteq Nat \ {0}
  /\ MaxBoosts = 2
  /\ MaxGap <= Hold /\ Hold + MaxGap <= Fail /\ 2 * Trigger <= Fail
  /\ Fail + 2 * Hold + 3 * Trigger + 9 * MaxGap < ClockMod

VARIABLES
  now,               \* hcics_motion_now_ms() of the last turn
  stuck_start_ms, boost_until_ms, stuck_boost_count,  \* g_motion
  at_rest,           \* the command is 0 and ramps up from there
  boosted,           \* the last turn raised the output to the boost speed
  e3,                \* the emergency stop was raised here
  stall_since,       \* history: time since the present stall was seen first
  boost_age          \* history: age of the present boost, at most Hold

timerVars == <<stuck_start_ms, boost_until_ms, stuck_boost_count>>
stallVars == <<now, timerVars, emergency_stop, at_rest, boosted, e3, stall_since, boost_age>>

NoStall == -1

StallInit ==
  /\ now \in 0 .. ClockMod - 1
  /\ stuck_start_ms = 0 /\ boost_until_ms = 0 /\ stuck_boost_count = 0
  /\ emergency_stop = FALSE /\ at_rest = TRUE /\ boosted = FALSE /\ e3 = FALSE
  /\ stall_since = NoStall /\ boost_age = 0

-----------------------------------------------------------------------------
(* A turn of the control loop, at time t, gap units after the last one.    *)

\* The stall timer of this turn, and how long it has run.
StuckStart(t, stalled) ==
  IF ~stalled THEN 0 ELSE IF stuck_start_ms = 0 THEN t ELSE stuck_start_ms

Elapsed(t, start) == (t - start) % ClockMod

\* Mutant: another boost is due although one is on.
BoostDueAgain(t, stalled) ==
  stalled /\ stuck_start_ms # 0 /\ Elapsed(t, stuck_start_ms) >= Trigger

\* The stall has lasted long enough for a boost and none is on.
BoostDue(t, stalled) ==
  /\ stalled
  /\ stuck_start_ms # 0
  /\ Elapsed(t, stuck_start_ms) >= Trigger
  /\ boost_until_ms = 0

OutOfBoosts(t, stalled) == BoostDue(t, stalled) /\ stuck_boost_count >= MaxBoosts

\* Mutant: the time for failure is never over.
TimedOutNever(t, stalled) == FALSE

TimedOut(t, stalled) == stalled /\ Elapsed(t, StuckStart(t, stalled)) >= Fail

BoostUntil(t, stalled) ==
  IF BoostDue(t, stalled) THEN (t + Hold) % ClockMod ELSE boost_until_ms

BoostCount(t, stalled) ==
  IF BoostDue(t, stalled) THEN stuck_boost_count + 1
  ELSE IF stalled THEN stuck_boost_count ELSE 0

\* Mutant: a boost has no end.
BoostOnForever(t, stalled) == BoostUntil(t, stalled) # 0

\* A comparison of the times themselves, not of their difference.
BoostOn(t, stalled) ==
  BoostUntil(t, stalled) # 0 /\ t < BoostUntil(t, stalled)

\* The age of a stall grows from turn to turn.
StallAge(gap, stalled) ==
  IF ~stalled THEN NoStall
  ELSE IF stall_since = NoStall THEN 0 ELSE stall_since + gap

BoostAge(t, gap, stalled) ==
  IF BoostDue(t, stalled) \/ boost_until_ms = 0 THEN 0
  ELSE IF boost_age + gap < Hold THEN boost_age + gap ELSE Hold

\* Stall that the boosts have not ended: latch E3.
TurnFault(t, gap, stalled) ==
  /\ OutOfBoosts(t, stalled) \/ TimedOut(t, stalled)
  /\ emergency_stop' = TRUE /\ e3' = TRUE
  /\ boost_until_ms' = 0
  /\ IF OutOfBoosts(t, stalled)
       THEN UNCHANGED <<stuck_start_ms, stuck_boost_count>>
       ELSE /\ stuck_start_ms' = StuckStart(t, stalled)
            /\ stuck_boost_count' = BoostCount(t, stalled)
  /\ boosted' = FALSE
  /\ stall_since' = StallAge(gap, stalled)
  /\ boost_age' = 0

\* A boost is on; a boost whose time is over ends, and the stall timer with it.
TurnDrive(t, gap, stalled) ==
  /\ ~OutOfBoosts(t, stalled) /\ ~TimedOut(t, stalled)
  /\ LET on == BoostOn(t, stalled)
         over == BoostUntil(t, stalled) # 0 /\ ~on
     IN /\ boosted' = on
        /\ boost_until_ms' = IF over THEN 0 ELSE BoostUntil(t, stalled)
        /\ stuck_start_ms' = IF over THEN 0 ELSE StuckStart(t, stalled)
        /\ boost_age' = IF on THEN BoostAge(t, gap, stalled) ELSE 0
  /\ stuck_boost_count' = BoostCount(t, stalled)
  /\ stall_since' = StallAge(gap, stalled)
  /\ UNCHANGED <<emergency_stop, e3>>

\* The turn of a vehicle with feedback; stalled is what command and encoders say.
\* From rest the first step of the ramp is below HCICS_MOTION_STUCK_MIN_CMD.
Turn ==
  /\ ~emergency_stop
  /\ \E gap \in 1 .. MaxGap, stalled \in BOOLEAN :
       LET t == (now + gap) % ClockMod
       IN /\ stalled => ~at_rest
          /\ now' = t
          /\ at_rest' = FALSE
          /\ TurnFault(t, gap, stalled) \/ TurnDrive(t, gap, stalled)

\* There has been no encoder reading since the reset: everything is cleared.
TurnNoFeedback ==
  /\ ~emergency_stop
  /\ \E gap \in 1 .. MaxGap : now' = (now + gap) % ClockMod
  /\ stuck_start_ms' = 0 /\ boost_until_ms' = 0 /\ stuck_boost_count' = 0
  /\ at_rest' = FALSE /\ boosted' = FALSE
  /\ stall_since' = NoStall /\ boost_age' = 0
  /\ UNCHANGED <<emergency_stop, e3>>

\* The calls that stop the vehicle and clear the timers.
Halt ==
  /\ stuck_start_ms' = 0 /\ boost_until_ms' = 0
  /\ at_rest' = TRUE /\ boosted' = FALSE
  /\ stall_since' = NoStall /\ boost_age' = 0

\* hcics_motion_emergency_stop.
EmergencyStop ==
  /\ emergency_stop' = TRUE
  /\ Halt
  /\ UNCHANGED <<now, stuck_boost_count, e3>>

\* An encoder or PWM fault of hcics_motion_service leaves the timers alone.
OtherFault ==
  /\ ~emergency_stop
  /\ emergency_stop' = TRUE
  /\ boosted' = FALSE /\ stall_since' = NoStall /\ boost_age' = 0
  /\ UNCHANGED <<now, timerVars, at_rest, e3>>

\* A turn while latched.
TurnLatched ==
  /\ emergency_stop
  /\ \E gap \in 1 .. MaxGap : now' = (now + gap) % ClockMod
  /\ Halt
  /\ UNCHANGED <<stuck_boost_count, emergency_stop, e3>>

\* hcics_motion_set_target_direct clears the timers but not the count.
Direct ==
  /\ ~emergency_stop
  /\ Halt
  /\ UNCHANGED <<now, stuck_boost_count, emergency_stop, e3>>

\* hcics_motion_clear_emergency_stop and hcics_motion_reset.
Reset ==
  /\ emergency_stop' = FALSE /\ e3' = FALSE
  /\ Halt
  /\ stuck_boost_count' = 0
  /\ UNCHANGED now

StallNext ==
  \/ Turn \/ TurnNoFeedback \/ EmergencyStop \/ OtherFault \/ TurnLatched
  \/ Direct \/ Reset

StallSpec == StallInit /\ [][StallNext]_stallVars

-----------------------------------------------------------------------------
(* Properties.                                                             *)

Times == 0 .. ClockMod - 1

StallTypeOK ==
  /\ {now, stuck_start_ms, boost_until_ms} \subseteq Times
  /\ stuck_boost_count \in 0 .. MaxBoosts
  /\ {emergency_stop, at_rest, boosted, e3} \subseteq BOOLEAN
  /\ stall_since \in Nat \cup {NoStall} /\ boost_age \in 0 .. Hold

\* Normally three triggers and two boosts, and the rest of an earlier boost; that
\* one may have missed its end and then counts for as much as the time for
\* failure.  Each of the five may end with a late turn, the timer starts again a
\* turn after each of the three boosts, and one turn more is lost when it would
\* start at the time 0, which counts as not set.
StallBound == Fail + 2 * Hold + 3 * Trigger + 9 * MaxGap

\* A vehicle that is commanded and does not move is stopped within that time,
\* wherever the clock stands.
StallStopped == stall_since <= StallBound

\* E3 is not raised before the vehicle has been commanded in vain for twice the
\* trigger time, although the wrap of the clock can cut both boosts short.
StallNotHasty == [][e3' /\ ~e3 => stall_since' >= 2 * Trigger]_stallVars

\* A boost lasts less than its time, except when its end is so close to the wrap
\* of the clock that no turn of the control loop falls between the two: then it
\* goes on in the next round of the clock.  And the variables keep their types,
\* the times within the round of the clock and the boosts within their number.
BoostEnds ==
  /\ StallTypeOK
  /\ boosted => boost_age < Hold \/ boost_until_ms > ClockMod - MaxGap
=============================================================================
