---------------------------- MODULE HcicsCleaner ----------------------------
(***************************************************************************)
(* hcics_cleaner.c and the sampling loop of hcics_guard.c: the worker that  *)
(* aims, extends the brush, sprays, scrubs, retracts and verifies; the      *)
(* calls hcics_cleaner_start, _reset and _emergency_stop of the mission     *)
(* thread; the emergency stop of the UDP thread; and the guard thread that  *)
(* publishes the distance samples and forces a stop when the sensor fails.  *)
(*                                                                         *)
(* The cleaner lock protects single assignments only, so threads meet in    *)
(* the middle of apply_pose, safe_outputs and the handlers: each of their   *)
(* shared accesses is a step.  A pose is the extension of the Z servo, from *)
(* 0 (z_retract_ns) to Wash (z_wash_ns); z_pulse is the bookkeeping, z_hw   *)
(* what the PWM channel was told.  The arm axis is moved by frames sent     *)
(* under its own lock; hcics_axis_write fails only before hcics_axis_init   *)
(* has succeeded, on which hcics_cleaner_init insists.  Camera readings are *)
(* inputs.  Timeouts may end a polling loop after any turn.  A local        *)
(* variable of the worker that is not live has its initial value.           *)
(***************************************************************************)
EXTENDS Naturals, FiniteSets

CONSTANTS
  Wash,          \* extension of the wash pose, in extend steps
  MaxCycles,     \* HCICS_CLEAN_MAX_CYCLES, attempts of one run
  MaxReadErrors, \* HCICS_GUARD_MAX_READ_ERRORS
  Preemptive     \* TRUE: priorities mission > worker > udp > guard hold;
                 \* FALSE: the threads interleave freely

ASSUME CleanerAssumption ==
  /\ Wash \in Nat \ {0}
  /\ MaxCycles \in Nat \ {0}
  /\ MaxReadErrors \in Nat \ {0}
  /\ Preemptive \in BOOLEAN

VARIABLES
  busy, stop_requested, state, sem,   \* g_cleaner: flags, state, start_sem
  relay_on, z_pulse, z_hw,            \* g_cleaner outputs and the Z channel
  axis,                               \* the last order the arm axis got
  guard, read_errors,                 \* latest sample; failed reads in a row
  seen,             \* history: the sample at the worker's last look before a sleep
  wpc, wsleep,      \* worker: place, and whether it sleeps there
  wret, wz,         \* worker: where apply_pose returns to, and its Z argument
  wres, wretry,     \* worker: result so far; retract is the one between cycles
  wcycle, stable,   \* worker: cycle number; locked frames in a row
  clear_active,     \* worker: verify_clear has seen a clean frame
  wstopped,         \* worker: its copy of stop_requested at the end
  hpc,              \* handlers: place in safe_outputs of each calling thread
  mpc,              \* mission thread: where it is between its cleaner calls
  mnext,            \* mission thread: what follows the safe_outputs it is in
  z_failed          \* history: the last attempt to move Z failed

flagVars == <<busy, stop_requested, state, sem>>
outVars == <<relay_on, z_pulse, z_hw, z_failed, axis>>
guardVars == <<guard, read_errors, seen>>
workVars == <<wpc, wsleep, wret, wz, wres, wretry, wcycle, stable, clear_active,
              wstopped>>
callVars == <<hpc, mpc, mnext>>
vars == <<flagVars, outVars, guardVars, workVars, callVars>>

Callers == {"mission", "udp", "guard"}

\* What a guard sample means: distance above 69 mm without contact, surface
\* reached, 47 to 50 mm, 46 mm or less, older than 300 ms or invalid, and a
\* sample that carries force_stop.
GuardLevel == {"clear", "surface", "near", "hard", "stale", "forced"}

Terminal == {"DONE", "ERROR", "STOPPED"}

\* hcics_cleaner_guard_forces_retract.
CallsForRetract(level, washing) ==
  \/ level \in {"hard", "stale", "forced"}
  \/ ~washing /\ level = "near"

ForcesRetract(washing) == CallsForRetract(guard, washing)

\* hcics_cleaner_surface_reached: what it may answer.  A fresh sample that
\* carries force_stop has no distance but still the contact switch.
SurfaceReached ==
  CASE guard \in {"surface", "near", "hard"} -> {TRUE}
    [] guard = "forced" -> BOOLEAN
    [] OTHER -> {FALSE}

\* hcics_cleaner_move_toward, as extension.
Extend(z) == IF z < Wash THEN z + 1 ELSE Wash
Retract(z) == IF z > 2 THEN z - 2 ELSE 0

\* State after hcics_cleaner_init: no sample yet, worker waiting.
Init ==
  /\ busy = FALSE /\ stop_requested = FALSE /\ state = "IDLE" /\ sem = 0
  /\ relay_on = FALSE /\ z_pulse = 0 /\ z_hw = 0 /\ z_failed = FALSE
  /\ axis = "still"
  /\ guard = "stale" /\ read_errors = 0 /\ seen = "none"
  /\ wpc = "wait" /\ wsleep = FALSE /\ wret = "none" /\ wz = 0
  /\ wres = "OK" /\ wretry = FALSE /\ wcycle = 0 /\ stable = 0
  /\ clear_active = FALSE /\ wstopped = FALSE
  /\ hpc = [t \in Callers |-> "none"]
  /\ mpc = "idle" /\ mnext = "none"

-----------------------------------------------------------------------------
(* Scheduling.                                                             *)

\* Between its calls the mission thread waits, and so it does in the loop of
\* hcics_cleaner_wait_not_busy.
MissionBlocked ==
  hpc["mission"] \in {"none", "wait"} /\ mpc \notin {"releasing", "relay_off"}

WorkerBlocked == wsleep \/ (wpc = "wait" /\ sem = 0)

MayRun(t) ==
  Preemptive =>
    CASE t = "mission" -> TRUE
      [] t = "worker" -> MissionBlocked
      [] t = "udp" -> MissionBlocked /\ WorkerBlocked
      [] t = "guard" -> MissionBlocked /\ WorkerBlocked /\ hpc["udp"] = "none"

-----------------------------------------------------------------------------
(* Worker.                                                                 *)

At(place) == wpc = place /\ ~wsleep /\ MayRun("worker")

Goto(place) == wpc' = place

\* A step that changes nothing but the worker's own place and sleep.
LocalStep ==
  UNCHANGED <<flagVars, outVars, guardVars, callVars, wret, wz, wres, wretry,
              wcycle, stable, clear_active, wstopped>>

\* Call apply_pose(y, z) and continue at place if it succeeds.
CallPose(z, place) == wz' = z /\ wret' = place /\ wpc' = "pose"

\* Leave run_once with a result.
Leave(result) == wres' = result /\ wpc' = "result"

WSemTake ==
  /\ At("wait")
  /\ sem > 0
  /\ sem' = sem - 1
  /\ Goto("safe")
  /\ UNCHANGED <<busy, stop_requested, state, outVars, guardVars, callVars,
                 wsleep, wret, wz, wres, wretry, wcycle, stable, clear_active,
                 wstopped>>

\* hcics_cleaner_safe_outputs before and after a run: relay off ...
WSafeRelay ==
  /\ At("safe") \/ At("final")
  /\ relay_on' = FALSE
  /\ Goto(IF wpc = "safe" THEN "safe_axis" ELSE "final_axis")
  /\ UNCHANGED <<flagVars, z_pulse, z_hw, z_failed, axis, guardVars, callVars,
                 wsleep, wret, wz, wres, wretry, wcycle, stable, clear_active,
                 wstopped>>

\* Mutant: the axis is not stopped.
WSafeAxisForgotten ==
  /\ At("safe_axis") \/ At("final_axis")
  /\ CallPose(0, IF wpc = "safe_axis" THEN "run" ELSE "publish")
  /\ UNCHANGED <<flagVars, outVars, guardVars, callVars, wsleep, wres, wretry,
                 wcycle, stable, clear_active, wstopped>>

\* ... axis stop, then the safe pose.
WSafeAxis ==
  /\ At("safe_axis") \/ At("final_axis")
  /\ axis' = "still"
  /\ CallPose(0, IF wpc = "safe_axis" THEN "run" ELSE "publish")
  /\ UNCHANGED <<flagVars, relay_on, z_pulse, z_hw, z_failed, guardVars, callVars,
                 wsleep, wres, wretry, wcycle, stable, clear_active, wstopped>>

\* apply_pose: the bookkeeping under the lock ...
WPose ==
  /\ At("pose")
  /\ z_pulse' = wz
  /\ Goto("pwm")
  /\ UNCHANGED <<flagVars, relay_on, z_hw, z_failed, axis, guardVars, callVars, wsleep,
                 wret, wz, wres, wretry, wcycle, stable, clear_active, wstopped>>

\* The Z argument is used again by the loops of extend_z and retract only.
PoseDone(z) == wz' = z /\ wret' = "none"

\* ... and the PWM calls after it.
WPwmOk ==
  /\ At("pwm")
  /\ z_hw' = wz
  /\ z_failed' = FALSE
  /\ Goto(wret)
  /\ PoseDone(IF wret \in {"extend_eval", "retract_sleep"} THEN wz ELSE 0)
  /\ UNCHANGED <<flagVars, relay_on, z_pulse, axis, guardVars, callVars, wsleep, wres,
                 wretry, wcycle, stable, clear_active, wstopped>>

\* Where a failed pose takes the worker: the run does not start, the closing
\* safe_outputs is not checked, a scrub still turns the relay off, a failed
\* retract between cycles ends the run, any other failure ends the cycle.
AfterPoseError ==
  CASE wret = "run" -> "finish"
    [] wret = "publish" -> "publish"
    [] wret = "scrub_eval" -> "scrub_off"
    [] wret = "retract_sleep" /\ wretry -> "finish"
    [] OTHER -> "result"

\* One of the PWM calls fails, before or after the one that moves Z.
WPwmFail ==
  /\ At("pwm")
  /\ z_hw' \in {z_hw, wz}
  /\ z_failed' = TRUE
  /\ Goto(AfterPoseError)
  /\ PoseDone(0)
  /\ wres' = IF wret = "publish" THEN wres ELSE "FAIL"
  /\ stable' = 0
  /\ seen' = "none"
  /\ UNCHANGED <<flagVars, relay_on, z_pulse, axis, guard, read_errors, callVars, wsleep,
                 wretry, wcycle, clear_active, wstopped>>

\* A cycle of run_mission starts, or all of them have failed.
WCycle ==
  /\ At("run")
  /\ wretry' = FALSE
  /\ IF wcycle < MaxCycles
       THEN /\ wcycle' = wcycle + 1
            /\ state' = "AIMING"
            /\ wres' = "OK"
            /\ Goto("stain")
       ELSE /\ wres' = "FAIL"
            /\ Goto("finish")
            /\ UNCHANGED <<wcycle, state>>
  /\ UNCHANGED <<busy, stop_requested, sem, outVars, guardVars, callVars, wsleep,
                 wret, wz, stable, clear_active, wstopped>>

\* hcics_cleaner_wait_stain.
WWaitStain ==
  /\ At("stain")
  /\ \/ stop_requested /\ Leave("EINTR") /\ UNCHANGED wsleep
     \/ ~stop_requested /\ Leave("FAIL") /\ UNCHANGED wsleep
     \/ ~stop_requested /\ Goto("aim") /\ UNCHANGED <<wsleep, wres>>
     \/ ~stop_requested /\ wsleep' = TRUE /\ UNCHANGED <<wpc, wres>>
  /\ UNCHANGED <<flagVars, outVars, guardVars, callVars, wret, wz, wretry, wcycle,
                 stable, clear_active, wstopped>>

\* Mutant: the aiming loop does not look at the stop request.
WAimNoStop ==
  /\ At("aim")
  /\ \/ CallPose(0, "aim_axis") /\ UNCHANGED <<wres, stable>>
     \/ stable' = 0 /\ Goto("aim_poll") /\ UNCHANGED <<wret, wz, wres>>
  /\ UNCHANGED <<flagVars, outVars, guardVars, callVars, wsleep, wretry, wcycle,
                 clear_active, wstopped>>

\* hcics_cleaner_aim, first half of a turn: a stain in the frame sets the pose.
WAim ==
  /\ At("aim")
  /\ \/ stop_requested /\ Leave("EINTR") /\ stable' = 0 /\ UNCHANGED <<wret, wz>>
     \/ ~stop_requested /\ CallPose(0, "aim_axis") /\ UNCHANGED <<wres, stable>>
     \/ ~stop_requested /\ stable' = 0 /\ Goto("aim_poll")
        /\ UNCHANGED <<wret, wz, wres>>
  /\ UNCHANGED <<flagVars, outVars, guardVars, callVars, wsleep, wretry, wcycle,
                 clear_active, wstopped>>

\* Second half: hcics_axis_center_from_error moves the axis unless the target is
\* within its deadband; count the frames in which the target is locked, which
\* does not mean that it is within the deadband.
WAimAxis ==
  /\ At("aim_axis")
  /\ axis' \in {"still", "moving"}
  /\ \/ stable < 2 /\ stable' = stable + 1 /\ Goto("aim_poll") /\ UNCHANGED state
     \/ stable = 2 /\ stable' = 0 /\ state' = "EXTENDING" /\ Goto("extend")
     \/ stable' = 0 /\ Goto("aim_poll") /\ UNCHANGED state
  /\ UNCHANGED <<busy, stop_requested, sem, relay_on, z_pulse, z_hw, z_failed,
                 guardVars, callVars, wsleep, wret, wz, wres, wretry, wcycle,
                 clear_active, wstopped>>

WAimPoll ==
  /\ At("aim_poll")
  /\ \/ Leave("FAIL") /\ stable' = 0 /\ UNCHANGED wsleep
     \/ wsleep' = TRUE /\ Goto("aim") /\ UNCHANGED <<wres, stable>>
  /\ UNCHANGED <<flagVars, outVars, guardVars, callVars, wret, wz, wretry, wcycle,
                 clear_active, wstopped>>

\* A turn of hcics_cleaner_extend_z, which starts from the retracted pose: look
\* at stop and guard, then extend by one step ...
WExtend ==
  /\ At("extend")
  /\ IF stop_requested \/ ForcesRetract(FALSE)
       THEN Leave("EINTR") /\ wz' = 0 /\ UNCHANGED <<wret, seen>>
       ELSE CallPose(Extend(wz), "extend_eval") /\ seen' = guard /\ UNCHANGED wres
  /\ UNCHANGED <<flagVars, outVars, guard, read_errors, callVars, wsleep, wretry, wcycle,
                 stable, clear_active, wstopped>>

\* ... then look for the surface; failure at full extension or by timeout.
WExtendEval ==
  /\ At("extend_eval")
  /\ \/ TRUE \in SurfaceReached /\ state' = "SPRAYING" /\ Goto("spray")
        /\ wz' = 0 /\ UNCHANGED <<wsleep, wres>>
     \/ FALSE \in SurfaceReached /\ Leave("FAIL")
        /\ wz' = 0 /\ UNCHANGED <<state, wsleep>>
     \/ FALSE \in SurfaceReached /\ wz < Wash /\ wsleep' = TRUE /\ Goto("extend")
        /\ UNCHANGED <<state, wz, wres>>
  /\ seen' = "none"
  /\ UNCHANGED <<busy, stop_requested, sem, outVars, guard, read_errors, callVars, wret,
                 wretry, wcycle, stable, clear_active, wstopped>>

\* hcics_cleaner_spray: the guard is looked at before the relay is switched on.
WSpray ==
  /\ At("spray")
  /\ IF ForcesRetract(TRUE)
       THEN Leave("EINTR") /\ UNCHANGED relay_on
       ELSE relay_on' = TRUE /\ Goto("spray_delay") /\ UNCHANGED wres
  /\ UNCHANGED <<flagVars, z_pulse, z_hw, z_failed, axis, guardVars, callVars, wsleep,
                 wret, wz, wretry, wcycle, stable, clear_active, wstopped>>

\* Mutant: the delay of the spray looks at the guard only.
WSprayDelayNoStop ==
  /\ At("spray_delay")
  /\ IF ForcesRetract(TRUE)
       THEN wres' = "EINTR" /\ Goto("spray_off") /\ UNCHANGED seen
       ELSE seen' = guard /\ Goto("spray_sleep") /\ UNCHANGED wres
  /\ UNCHANGED <<flagVars, outVars, guard, read_errors, callVars, wsleep, wret, wz,
                 wretry, wcycle, stable, clear_active, wstopped>>

\* Mutant: the delay of the spray looks at the stop request only.
WSprayDelayNoGuard ==
  /\ At("spray_delay")
  /\ IF stop_requested
       THEN wres' = "EINTR" /\ Goto("spray_off") /\ UNCHANGED seen
       ELSE seen' = guard /\ Goto("spray_sleep") /\ UNCHANGED wres
  /\ UNCHANGED <<flagVars, outVars, guard, read_errors, callVars, wsleep, wret, wz,
                 wretry, wcycle, stable, clear_active, wstopped>>

\* hcics_cleaner_delay_abortable in a spray: one look before each sleep, which
\* begins later.
WSprayDelay ==
  /\ At("spray_delay")
  /\ IF stop_requested \/ ForcesRetract(TRUE)
       THEN wres' = "EINTR" /\ Goto("spray_off") /\ UNCHANGED seen
       ELSE seen' = guard /\ Goto("spray_sleep") /\ UNCHANGED wres
  /\ UNCHANGED <<flagVars, outVars, guard, read_errors, callVars, wsleep, wret, wz,
                 wretry, wcycle, stable, clear_active, wstopped>>

\* The slice of a delay begins, whatever has happened since the look.
WDelaySleep ==
  /\ At("spray_sleep") \/ At("scrub_sleep")
  /\ wsleep' = TRUE
  /\ seen' = "none"
  /\ Goto(IF wpc = "spray_sleep" THEN "spray_delay" ELSE "scrub_delay")
  /\ UNCHANGED <<flagVars, outVars, guard, read_errors, callVars, wret, wz, wres,
                 wretry, wcycle, stable, clear_active, wstopped>>

\* Relay off, and another look at the guard, but none at the stop request.
WSprayOff ==
  /\ At("spray_off")
  /\ relay_on' = FALSE
  /\ IF wres = "EINTR" \/ ForcesRetract(TRUE)
       THEN Leave("EINTR") /\ UNCHANGED state
       ELSE Goto("scrub") /\ state' = "SCRUBBING" /\ UNCHANGED wres
  /\ UNCHANGED <<busy, stop_requested, sem, z_pulse, z_hw, z_failed, axis, guardVars,
                 callVars, wsleep,
                 wret, wz, wretry, wcycle, stable, clear_active, wstopped>>

\* hcics_cleaner_scrub switches the relay on before it looks at anything.
WScrub ==
  /\ At("scrub")
  /\ relay_on' = TRUE
  /\ Goto("scrub_loop")
  /\ UNCHANGED <<flagVars, z_pulse, z_hw, z_failed, axis, guardVars, callVars, wsleep,
                 wret, wz, wres, wretry, wcycle, stable, clear_active, wstopped>>

WScrubLoop ==
  /\ At("scrub_loop")
  /\ IF stop_requested \/ ForcesRetract(TRUE)
       THEN wres' = "EINTR" /\ Goto("scrub_off") /\ UNCHANGED <<wret, wz>>
       ELSE CallPose(Wash, "scrub_eval") /\ UNCHANGED wres
  /\ UNCHANGED <<flagVars, outVars, guardVars, callVars, wsleep, wretry, wcycle,
                 stable, clear_active, wstopped>>

\* The axis sweeps; the scrub time is over, or another delay begins.
WScrubEval ==
  /\ At("scrub_eval")
  /\ axis' = "moving"
  /\ \/ wres' = "OK" /\ Goto("scrub_off")
     \/ Goto("scrub_delay") /\ UNCHANGED wres
  /\ UNCHANGED <<flagVars, relay_on, z_pulse, z_hw, z_failed, guardVars, callVars,
                 wsleep, wret, wz, wretry, wcycle, stable, clear_active, wstopped>>

WScrubDelay ==
  /\ At("scrub_delay")
  /\ IF stop_requested \/ ForcesRetract(TRUE)
       THEN wres' = "EINTR" /\ Goto("scrub_off") /\ UNCHANGED seen
       ELSE seen' = guard /\ Goto("scrub_sleep") /\ UNCHANGED wres
  /\ UNCHANGED <<flagVars, outVars, guard, read_errors, callVars, wsleep, wret, wz,
                 wretry, wcycle, stable, clear_active, wstopped>>

\* run_once turns the relay off after the scrub, whatever its result.
WScrubOff ==
  /\ At("scrub_off")
  /\ relay_on' = FALSE
  /\ IF wres = "OK" THEN Goto("retract") /\ state' = "RETRACTING"
                    ELSE Goto("result") /\ UNCHANGED state
  /\ UNCHANGED <<busy, stop_requested, sem, z_pulse, z_hw, z_failed, axis, guardVars,
                 callVars, wsleep,
                 wret, wz, wres, wretry, wcycle, stable, clear_active, wstopped>>

\* hcics_cleaner_retract: relay off ...
WRetract ==
  /\ At("retract")
  /\ relay_on' = FALSE
  /\ Goto("retract_axis")
  /\ UNCHANGED <<flagVars, z_pulse, z_hw, z_failed, axis, guardVars, callVars,
                 wsleep, wret, wz, wres, wretry, wcycle, stable, clear_active,
                 wstopped>>

\* ... axis stop, then step back from the bookkept extension without looking at
\* the stop request.
WRetractAxis ==
  /\ At("retract_axis")
  /\ axis' = "still"
  /\ wz' = z_pulse
  /\ Goto("retract_loop")
  /\ UNCHANGED <<flagVars, relay_on, z_pulse, z_hw, z_failed, guardVars, callVars,
                 wsleep, wret, wres, wretry, wcycle, stable, clear_active, wstopped>>

WRetractLoop ==
  /\ At("retract_loop")
  /\ IF wz # 0 THEN CallPose(Retract(wz), "retract_sleep")
               ELSE Goto("retract_delay") /\ UNCHANGED <<wz, wret>>
  /\ UNCHANGED <<flagVars, outVars, guardVars, callVars, wsleep, wres, wretry,
                 wcycle, stable, clear_active, wstopped>>

WRetractSleep ==
  /\ At("retract_sleep")
  /\ wsleep' = TRUE
  /\ Goto("retract_loop")
  /\ LocalStep

\* The closing delay ends early on a stop request; its result is not used.
WRetractDelay ==
  /\ At("retract_delay")
  /\ IF stop_requested THEN Goto("retract_ret") /\ UNCHANGED wsleep
                       ELSE wsleep' = TRUE /\ UNCHANGED wpc
  /\ LocalStep

WRetractRet ==
  /\ At("retract_ret")
  /\ IF wretry THEN Goto("run") /\ UNCHANGED state
               ELSE Goto("verify") /\ state' = "VERIFYING"
  /\ UNCHANGED <<busy, stop_requested, sem, outVars, guardVars, callVars, wsleep,
                 wret, wz, wres, wretry, wcycle, stable, clear_active, wstopped>>

\* hcics_cleaner_verify_clear: success needs a clean frame now and an unbroken
\* run of clean frames since an earlier turn.
WVerify ==
  /\ At("verify")
  /\ \/ /\ stop_requested \/ ForcesRetract(TRUE)
        /\ Leave("EINTR") /\ clear_active' = FALSE
        /\ UNCHANGED wsleep
     \/ /\ ~stop_requested /\ ~ForcesRetract(TRUE)
        /\ \/ clear_active /\ Leave("OK") /\ clear_active' = FALSE /\ UNCHANGED wsleep
           \/ Leave("FAIL") /\ clear_active' = FALSE /\ UNCHANGED wsleep
           \/ clear_active' \in BOOLEAN /\ wsleep' = TRUE /\ UNCHANGED <<wpc, wres>>
  /\ UNCHANGED <<flagVars, outVars, guardVars, callVars, wret, wz, wretry, wcycle,
                 stable, wstopped>>

\* run_mission looks at the result of run_once: only a failure is retried.
WResult ==
  /\ At("result")
  /\ wretry' = (wres = "FAIL")
  /\ IF wres = "FAIL" THEN Goto("retract") /\ state' = "RETRACTING"
                      ELSE Goto("finish") /\ UNCHANGED state
  /\ UNCHANGED <<busy, stop_requested, sem, outVars, guardVars, callVars, wsleep, wret, wz, wres,
                 wcycle, stable, clear_active, wstopped>>

\* Mutant: the outcome is shown before the outputs are safe.
WFinishEarlyState ==
  /\ At("finish")
  /\ wstopped' = stop_requested
  /\ state' = IF stop_requested THEN "STOPPED"
              ELSE IF wres = "OK" THEN "DONE" ELSE "ERROR"
  /\ Goto("final")
  /\ wretry' = FALSE /\ wcycle' = 0
  /\ UNCHANGED <<busy, stop_requested, sem, outVars, guardVars, callVars, wsleep,
                 wret, wz, wres, stable, clear_active>>

\* End of the worker's turn: copy stop_requested, make the outputs safe ...
WFinish ==
  /\ At("finish")
  /\ wstopped' = stop_requested
  /\ Goto("final")
  /\ wretry' = FALSE /\ wcycle' = 0
  /\ UNCHANGED <<flagVars, outVars, guardVars, callVars, wsleep, wret, wz, wres,
                 stable, clear_active>>

\* ... and publish the end of the run.
WPublish ==
  /\ At("publish")
  /\ busy' = FALSE
  /\ state' = IF wstopped THEN "STOPPED" ELSE IF wres = "OK" THEN "DONE" ELSE "ERROR"
  /\ Goto("wait")
  /\ wres' = "OK" /\ wstopped' = FALSE
  /\ UNCHANGED <<stop_requested, sem, outVars, guardVars, callVars, wsleep, wret,
                 wz, wretry, wcycle, stable, clear_active>>

\* A sleep ends.  After the last slice of a delay the stop request is not
\* looked at again.
WWake ==
  /\ wsleep
  /\ wsleep' = FALSE
  /\ wpc' \in CASE wpc = "spray_delay" -> {"spray_delay", "spray_off"}
                [] wpc = "scrub_delay" -> {"scrub_delay", "scrub_loop"}
                [] wpc = "retract_delay" -> {"retract_delay", "retract_ret"}
                [] OTHER -> {wpc}
  /\ LocalStep

WorkerStep ==
  \/ WSemTake \/ WSafeRelay \/ WSafeAxis \/ WPose \/ WPwmOk \/ WPwmFail \/ WCycle
  \/ WWaitStain \/ WAim \/ WAimAxis \/ WAimPoll
  \/ WExtend \/ WExtendEval
  \/ WSpray \/ WSprayDelay \/ WDelaySleep \/ WSprayOff
  \/ WScrub \/ WScrubLoop \/ WScrubEval \/ WScrubDelay \/ WScrubOff
  \/ WRetract \/ WRetractAxis \/ WRetractLoop \/ WRetractSleep \/ WRetractDelay \/ WRetractRet
  \/ WVerify \/ WResult \/ WFinish \/ WPublish

-----------------------------------------------------------------------------
(* Calls from other threads.                                               *)

SetHpc(t, place) == hpc' = [hpc EXCEPT ![t] = place]

\* hcics_cleaner_start up to its unlock; the caller is the mission thread after
\* hcics_cleaner_reset.
MStart ==
  /\ mpc = "driving" /\ hpc["mission"] = "none"
  /\ IF busy
       THEN mpc' = "ending" /\ UNCHANGED <<busy, stop_requested, state>>
       ELSE /\ busy' = TRUE
            /\ stop_requested' = FALSE
            /\ state' = "AIMING"
            /\ mpc' = "releasing"
  /\ UNCHANGED <<sem, outVars, guardVars, workVars, hpc, mnext>>

\* The release of the semaphore after the unlock ...
MRelease ==
  /\ mpc = "releasing"
  /\ sem' = sem + 1
  /\ mpc' = "polling"
  /\ UNCHANGED <<busy, stop_requested, state, outVars, guardVars, workVars, hpc, mnext>>

\* ... or its failure, which takes the start back under the lock ...
MReleaseFails ==
  /\ mpc = "releasing"
  /\ busy' = FALSE
  /\ stop_requested' = TRUE
  /\ state' = "ERROR"
  /\ mpc' = "relay_off"
  /\ UNCHANGED <<sem, outVars, guardVars, workVars, hpc, mnext>>

\* ... and switches the relay off after it.
MReleaseFailed ==
  /\ mpc = "relay_off"
  /\ relay_on' = FALSE
  /\ mpc' = "ending"
  /\ UNCHANGED <<flagVars, z_pulse, z_hw, z_failed, axis, guardVars, workVars, hpc, mnext>>

\* The mission fails before it reaches the panel.
MSkipCleaning ==
  /\ mpc = "driving" /\ hpc["mission"] = "none"
  /\ mpc' = "ending"
  /\ UNCHANGED <<flagVars, outVars, guardVars, workVars, hpc, mnext>>

\* hcics_clean_panel sees a terminal state; after DONE the vehicle drives home.
MPollStatus ==
  /\ mpc = "polling" /\ hpc["mission"] = "none"
  /\ state \in Terminal
  /\ mpc' = IF state = "DONE" THEN "home" ELSE "ending"
  /\ UNCHANGED <<flagVars, outVars, guardVars, workVars, hpc, mnext>>

\* The way home ends, in whatever way.
MReturned ==
  /\ mpc = "home" /\ hpc["mission"] = "none"
  /\ mpc' = "ending"
  /\ UNCHANGED <<flagVars, outVars, guardVars, workVars, hpc, mnext>>

\* hcics_cleaner_emergency_stop up to its unlock; the outputs follow.
MEmergencyStop ==
  /\ mpc = "polling" /\ hpc["mission"] = "none"
  /\ stop_requested' = TRUE
  /\ state' = "STOPPED"
  /\ mpc' = "ending"
  /\ mnext' = "none"
  /\ SetHpc("mission", "relay")
  /\ UNCHANGED <<busy, sem, outVars, guardVars, workVars>>

UdpEmergencyStop ==
  /\ hpc["udp"] = "none" /\ MayRun("udp")
  /\ stop_requested' = TRUE
  /\ state' = "STOPPED"
  /\ SetHpc("udp", "relay")
  /\ UNCHANGED <<busy, sem, outVars, guardVars, workVars, mpc, mnext>>

\* hcics_cleaner_reset up to its unlock, at the start and the end of a mission.
MReset ==
  /\ mpc \in {"idle", "ending"} /\ hpc["mission"] = "none"
  /\ IF busy THEN stop_requested' = TRUE /\ state' = "STOPPED"
             ELSE UNCHANGED <<stop_requested, state>>
  /\ mnext' = IF busy THEN "wait" ELSE "clear"
  /\ SetHpc("mission", "relay")
  /\ UNCHANGED <<busy, sem, outVars, guardVars, workVars, mpc>>

\* safe_outputs of a caller: relay off, axis stop, then the safe pose.
HRelay(t) ==
  /\ hpc[t] = "relay" /\ MayRun(t)
  /\ relay_on' = FALSE
  /\ SetHpc(t, "axis")
  /\ UNCHANGED <<flagVars, z_pulse, z_hw, z_failed, axis, guardVars, workVars, mpc,
                 mnext>>

\* The axis is stopped before the pose, and once more after it by
\* emergency_stop and reset.
HAxis(t) ==
  /\ hpc[t] \in {"axis", "axis_end"} /\ MayRun(t)
  /\ axis' = "still"
  /\ SetHpc(t, IF hpc[t] = "axis" THEN "pose" ELSE IF t = "mission" THEN mnext
               ELSE "none")
  /\ mnext' = IF t = "mission" /\ hpc[t] = "axis_end" THEN "none" ELSE mnext
  /\ UNCHANGED <<flagVars, relay_on, z_pulse, z_hw, z_failed, guardVars, workVars,
                 mpc>>

HPose(t) ==
  /\ hpc[t] = "pose" /\ MayRun(t)
  /\ z_pulse' = 0
  /\ SetHpc(t, "pwm")
  /\ UNCHANGED <<flagVars, relay_on, z_hw, z_failed, axis, guardVars, workVars, mpc,
                 mnext>>

\* The PWM calls succeed or fail; the callers do not look at the result.
HPwm(t) ==
  /\ hpc[t] = "pwm" /\ MayRun(t)
  /\ \/ z_hw' = 0 /\ z_failed' = FALSE
     \/ z_hw' \in {z_hw, 0} /\ z_failed' = TRUE
  /\ SetHpc(t, IF t = "guard" THEN "none" ELSE "axis_end")
  /\ UNCHANGED <<flagVars, relay_on, z_pulse, axis, guardVars, workVars, mpc, mnext>>

AfterReset == mpc' = IF mpc = "idle" THEN "driving" ELSE "idle"

\* hcics_cleaner_wait_not_busy sees the worker done ...
MResetWaited ==
  /\ hpc["mission"] = "wait"
  /\ ~busy
  /\ SetHpc("mission", "clear")
  /\ UNCHANGED <<flagVars, outVars, guardVars, workVars, mpc, mnext>>

\* Mutant: reset clears the flags also when the wait has timed out.
MResetTimeoutClears ==
  /\ hpc["mission"] = "wait"
  /\ busy
  /\ SetHpc("mission", "clear")
  /\ UNCHANGED <<flagVars, outVars, guardVars, workVars, mpc, mnext>>

\* ... or gives up after 2500 ms, and reset returns without clearing.
MResetTimeout ==
  /\ hpc["mission"] = "wait"
  /\ busy
  /\ SetHpc("mission", "none")
  /\ AfterReset
  /\ UNCHANGED <<flagVars, outVars, guardVars, workVars, mnext>>

MResetClear ==
  /\ hpc["mission"] = "clear"
  /\ busy' = FALSE
  /\ stop_requested' = FALSE
  /\ state' = "IDLE"
  /\ SetHpc("mission", "none")
  /\ AfterReset
  /\ UNCHANGED <<sem, outVars, guardVars, workVars, mnext>>

CallStep ==
  \/ MStart \/ MRelease \/ MReleaseFails \/ MReleaseFailed
  \/ MSkipCleaning \/ MPollStatus \/ MReturned
  \/ MEmergencyStop \/ UdpEmergencyStop
  \/ MReset \/ MResetWaited \/ MResetTimeout \/ MResetClear
  \/ \E t \in Callers : HRelay(t) \/ HAxis(t) \/ HPose(t) \/ HPwm(t)

-----------------------------------------------------------------------------
(* Guard thread: hcics_guard_sample_once, publish and update_guard.        *)

GuardIdle == hpc["guard"] = "none" /\ MayRun("guard")

GuardSampleOk ==
  /\ GuardIdle
  /\ read_errors' = 0
  /\ guard' \in {"clear", "surface", "near", "hard"}
  /\ UNCHANGED <<seen, flagVars, outVars, workVars, callVars>>

\* A read fails or gives no distance: nothing is published until the errors in
\* a row reach the limit (the counter saturates; only the limit matters).
GuardSampleError ==
  /\ GuardIdle
  /\ read_errors + 1 < MaxReadErrors
  /\ read_errors' = read_errors + 1
  /\ UNCHANGED <<guard, seen, flagVars, outVars, workVars, callVars>>

\* Mutant: the stop is forced once, when the limit is reached.
GuardForceStopOnce ==
  /\ GuardIdle
  /\ read_errors + 1 = MaxReadErrors
  /\ read_errors' = MaxReadErrors
  /\ guard' = "forced"
  /\ stop_requested' = TRUE
  /\ SetHpc("guard", "relay")
  /\ UNCHANGED <<seen, busy, state, sem, outVars, workVars, mpc, mnext>>

\* At the limit, and with every failed read after it, force_stop is published:
\* stop the run, make the outputs safe.
GuardForceStop ==
  /\ GuardIdle
  /\ read_errors + 1 >= MaxReadErrors
  /\ read_errors' = MaxReadErrors
  /\ guard' = "forced"
  /\ stop_requested' = TRUE
  /\ SetHpc("guard", "relay")
  /\ UNCHANGED <<seen, busy, state, sem, outVars, workVars, mpc, mnext>>

\* No sample for 300 ms.  Time passes whatever the threads do.
GuardAges ==
  /\ guard \notin {"stale", "forced"}
  /\ guard' = "stale"
  /\ UNCHANGED <<read_errors, seen, flagVars, outVars, workVars, callVars>>

GuardStep == GuardSampleOk \/ GuardSampleError \/ GuardForceStop \/ GuardAges

-----------------------------------------------------------------------------

Next == WorkerStep \/ WWake \/ CallStep \/ GuardStep

Spec == Init /\ [][Next]_vars

\* A caller goes on with the call it is in.
HandlerStep ==
  \/ MRelease \/ MReleaseFails \/ MReleaseFailed \/ MResetClear
  \/ \E t \in Callers : HRelay(t) \/ HAxis(t) \/ HPose(t) \/ HPwm(t)

\* The worker is scheduled again and again, its sleeps end, and calls that have
\* begun go on; nothing else is assumed, in particular no timeout of a polling loop
\* of the worker.
Fairness == SF_vars(WorkerStep) /\ WF_vars(WWake) /\ SF_vars(HandlerStep)

FairSpec == Spec /\ Fairness

-----------------------------------------------------------------------------
(* Properties.                                                             *)

FlagsOK ==
  \A flag \in {busy, stop_requested, relay_on, z_failed, wsleep, wretry,
               clear_active, wstopped} : flag \in BOOLEAN

DataOK ==
  /\ state \in {"IDLE", "AIMING", "EXTENDING", "SPRAYING", "SCRUBBING",
                "VERIFYING", "RETRACTING"} \cup Terminal
  /\ sem \in 0 .. 1
  /\ axis \in {"still", "moving"}
  /\ z_pulse \in 0 .. Wash /\ z_hw \in 0 .. Wash /\ wz \in 0 .. Wash
  /\ guard \in GuardLevel /\ read_errors \in 0 .. MaxReadErrors
  /\ seen \in GuardLevel \cup {"none"}
  /\ wpc \in {"wait", "safe", "pose", "pwm", "run", "stain", "aim", "aim_axis",
              "aim_poll", "extend", "extend_eval", "spray",
              "spray_delay", "spray_sleep", "spray_off", "scrub", "scrub_loop",
              "scrub_eval", "scrub_delay", "scrub_sleep", "scrub_off", "retract", "retract_loop",
              "retract_sleep", "retract_delay", "retract_ret", "verify",
              "result", "finish", "final", "final_axis", "safe_axis",
              "retract_axis", "publish"}
  /\ wret \in {"none", "run", "publish", "aim_axis", "extend_eval", "scrub_eval",
               "retract_sleep"}
  /\ wres \in {"OK", "EINTR", "FAIL"}
  /\ wcycle \in 0 .. MaxCycles /\ stable \in 0 .. 2
  /\ hpc \in [Callers -> {"none", "relay", "axis", "pose", "pwm", "axis_end",
                          "wait", "clear"}]
  /\ mpc \in {"idle", "driving", "releasing", "relay_off", "polling", "home",
              "ending"}
  /\ mnext \in {"none", "wait", "clear"}

TypeOK == FlagsOK /\ DataOK

\* busy, the start semaphore and the worker agree: busy is set exactly from
\* hcics_cleaner_start to the worker's last update, and there is one start for
\* one run, not yet given while hcics_cleaner_start is between its lock and the
\* semaphore.  A reset that returned normally therefore finds the worker idle.  And
\* the variables keep their types.
BusyMatchesWorker ==
  /\ TypeOK
  /\ sem <= 1
  /\ busy <=> (mpc = "releasing" \/ sem = 1 \/ wpc # "wait")
  /\ sem = 1 => wpc = "wait"
  /\ mpc = "releasing" => sem = 0 /\ wpc = "wait"

\* A worker without a run has left the relay off, the arm axis stopped and, unless
\* the last attempt to move the servo failed, the brush retracted in the hardware,
\* whatever handlers crossed its poses.
RestIsSafe ==
  wpc = "wait" => ~relay_on /\ axis = "still" /\ (z_hw = 0 \/ z_failed)

\* Once a stop has been requested and the thread that requested it has switched
\* the relay off, the worker never sleeps with the relay on, although the scrub
\* switches it on before it looks at the stop request.
PumpOffWhileStopped ==
  stop_requested /\ wsleep /\ relay_on => \E t \in Callers : hpc[t] = "relay"

\* The vehicle drives home only when the cleaning has really ended: the worker is
\* done, the relay off, the axis stopped and the brush in, unless the servo could
\* not be moved.  In particular the mission never takes the end of an earlier run,
\* or an outcome shown too early, for the end of its own.
DrivesHomeRetracted ==
  mpc = "home" =>
    ~busy /\ ~relay_on /\ axis = "still" /\ (z_hw = 0 \/ z_failed)

\* With the thread priorities, the worker begins no sleep with the relay on or the
\* brush on its way out unless it has looked at the guard in this turn, the sample
\* it saw called for no retract, and that sample is still the latest: at most it has
\* grown too old since the look, which the look of the next turn finds.
GuardedSleep ==
  [][wsleep' /\ ~wsleep /\ (relay_on \/ wpc = "extend_eval") =>
       /\ seen # "none"
       /\ ~CallsForRetract(seen, wpc # "extend_eval")
       /\ guard \in {seen, "stale"}]_vars

\* A stop request ends the run by itself, without any timeout: every loop of
\* the worker sees it, and the retract loop runs out.
StopEndsRun == (stop_requested /\ busy) ~> ~busy

\* A blind guard ends every run, also one that was started, with its stop request
\* cleared by hcics_cleaner_start, while the sensor had already failed: provided the
\* guard thread goes on sampling and forces the stop with every failed read, either
\* the run ends or the sensor gives a sample again.
BlindEndsRun ==
  SF_vars(GuardForceStop) =>
    ((guard = "forced" /\ busy) ~> (~busy \/ guard # "forced"))
=============================================================================
