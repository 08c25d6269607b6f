----------------------------- MODULE HcicsTrack -----------------------------
(***************************************************************************)
(* hcics_track.c and hcics_follow_track_path of hcics_app.c: the path       *)
(* planner, the node machine that the control thread ticks, the camera      *)
(* frames that feed it, and the loop in which the mission thread watches    *)
(* it.  Every g_track.lock section is one step.                             *)
(*                                                                         *)
(* The clock counts units of time modulo ClockMod, as the millisecond clock *)
(* of the code counts modulo 2^32, and all differences are taken modulo     *)
(* ClockMod.  A unit is long against the 5 ms of the control thread and the *)
(* 20 ms of the follow loop: both run in every unit.  g_hcics.latest_track  *)
(* and g_track.camera hold the same frame and are one variable.  The        *)
(* steering computation is left out: of a motor command the model keeps     *)
(* which manoeuvre it belongs to.  A variable that the code assigns before  *)
(* it reads it again has its initial value meanwhile.                       *)
(***************************************************************************)
EXTENDS Integers, Sequences

CONSTANTS
  Rows, Cols,    \* the grid of panels; Cols is HCICS_TRACK_GRID_COLS
  Targets,       \* panels that orders name
  MaxPathSteps,  \* HCICS_TRACK_MAX_PATH_STEPS
  ClockMod,      \* modulus of the clock
  Stale,         \* HCICS_TRACK_TARGET_STALE_MS
  Lost,          \* HCICS_TRACK_LOST_CAMERA_MS
  Cooldown,      \* HCICS_TRACK_NODE_COOLDOWN_MS
  TurnTime,      \* HCICS_TRACK_TURN_LEFT_MS, _TURN_RIGHT_MS, _UTURN_MS
  FinishTime,    \* HCICS_TRACK_FINISH_DELAY_MS
  NavTimeout     \* HCICS_TRACK_NAV_TIMEOUT_MS

ASSUME GridAssumption ==
  /\ Rows \in Nat \ {0} /\ Cols \in Nat \ {0}
  /\ MaxPathSteps \in Nat /\ Rows + Cols + 2 <= MaxPathSteps
  /\ Targets \subseteq 1 .. Rows * Cols

\* As for the constants of the code against 2^32.
ASSUME TimeAssumption ==
  /\ {Stale, Lost, Cooldown, TurnTime, FinishTime, NavTimeout} \subseteq Nat \ {0}
  /\ ClockMod \in Nat /\ ClockMod % 2 = 0
  /\ Stale <= Lost /\ Lost + 1 < ClockMod
  /\ Cooldown + NavTimeout + 1 < ClockMod /\ Stale + NavTimeout < ClockMod
  /\ 2 * TurnTime < ClockMod /\ 2 * FinishTime < ClockMod

VARIABLES
  now,             \* hcics_now_ms()
  camera,          \* g_track.camera: kind of frame and its tick
  running, finished, action_active, active_action, \* g_track
  path, destination, path_index,   \* g_track.planned_path, path_index
  current_location,                \* g_track.current_location
  last_node_ms, action_end_ms,     \* g_track
  visual_state,    \* visual_mission_state
  motor,           \* the manoeuvre of the last hcics_track_motion_set
  abort,           \* g_hcics.abort
  mpc, leg, target, start_ms,  \* mission thread
  upc,             \* UDP thread: inside hcics_app_stop or not
  ticked,          \* the control thread has run in this unit of time
  frame_age,       \* history: age of the frame; see Older
  hits,            \* history: nodes accepted on this frame in this path
  action_age       \* history: true age of the timed action

trackVars == <<running, finished, action_active, active_action, path, destination,
               path_index, current_location, last_node_ms, action_end_ms,
               visual_state, motor, hits, action_age>>
missionVars == <<mpc, leg, target, start_ms>>
cameraVars == <<camera, frame_age>>
vars == <<now, cameraVars, trackVars, missionVars, abort, upc, ticked>>

Home == 0
Panels == 1 .. Rows * Cols

\* hcics_track_target_to_grid.
RowOf(id) == ((id - 1) \div Cols) + 1
ColOf(id) == ((id - 1) % Cols) + 1

Forwards(n) == [i \in 1 .. n |-> "FORWARD"]

\* hcics_track_build_to_target.
BuildToTarget(id) ==
  Forwards(RowOf(id)) \o <<"TURN_RIGHT">> \o Forwards(ColOf(id) - 1)
    \o <<"STOP_AT_TARGET">>

\* Mutant: rows and columns are exchanged on the way back.
BuildReturnHomeExchanged(location) ==
  IF location = Home THEN <<"FINISH_DELAY">>
  ELSE <<"UTURN">> \o Forwards(RowOf(location) - 1) \o <<"TURN_LEFT">>
         \o Forwards(ColOf(location)) \o <<"FINISH_DELAY">>

\* hcics_track_build_return_home.
BuildReturnHome(location) ==
  IF location = Home THEN <<"FINISH_DELAY">>
  ELSE <<"UTURN">> \o Forwards(ColOf(location) - 1) \o <<"TURN_LEFT">>
         \o Forwards(RowOf(location)) \o <<"FINISH_DELAY">>

\* hcics_track_plan_path; GridAssumption makes every path fit.
PlanPath(id) ==
  IF id = Home THEN BuildReturnHome(current_location) ELSE BuildToTarget(id)

\* Unsigned difference now - t.
Since(t) == (now - t) % ClockMod

\* Mutant: times are compared without regard to the wrap of the clock.
ReachedNoWrap(t) == now >= t

\* The test (rt_int32_t)(now - t) >= 0.
Reached(t) == Since(t) < ClockMod \div 2

\* A frame of mode 1, wide enough, with a tick other than 0, of at most this age:
\* hcics_track_target_recent and hcics_latest_track_recent.
FrameRecent(age) ==
  camera.kind # "narrow" /\ camera.tick # 0 /\ Since(camera.tick) <= age

\* Mutant: no cooldown after a node.
NodeSeenNoCooldown == FrameRecent(Stale) /\ camera.kind = "node"

\* hcics_track_node_seen.
NodeSeen ==
  /\ FrameRecent(Stale)
  /\ Since(last_node_ms) >= Cooldown
  /\ camera.kind = "node"

Init ==
  /\ now = 0 /\ camera = [kind |-> "narrow", tick |-> 0] /\ frame_age = 0
  /\ running = FALSE /\ finished = FALSE /\ action_active = FALSE
  /\ active_action = "FORWARD" /\ path = << >> /\ destination = Home
  /\ path_index = 0 /\ current_location = Home
  /\ last_node_ms = 0 /\ action_end_ms = 0
  /\ visual_state = "IDLE" /\ motor = "stop" /\ hits = 0 /\ action_age = 0
  /\ mpc = "idle" /\ leg = "nav" /\ target = Home /\ start_ms = 0
  /\ abort = FALSE /\ upc = "none" /\ ticked = FALSE

-----------------------------------------------------------------------------
(* Control thread: hcics_track_tick.                                       *)

controlFrame == <<now, cameraVars, missionVars, abort, upc>>

TickNotRunning ==
  /\ ~running
  /\ ticked' = TRUE
  /\ UNCHANGED <<controlFrame, trackVars>>

\* Mutant: the motors are not stopped at the end of the path.
FinishPathRolling ==
  /\ running' = FALSE
  /\ finished' = TRUE
  /\ action_active' = FALSE
  /\ current_location' = destination
  /\ visual_state' = "FINISHED"
  /\ last_node_ms' = 0 /\ action_end_ms' = 0 /\ action_age' = 0 /\ hits' = 0
  /\ UNCHANGED motor

\* hcics_track_finish_path.
FinishPath ==
  /\ running' = FALSE
  /\ finished' = TRUE
  /\ action_active' = FALSE
  /\ current_location' = destination
  /\ visual_state' = "FINISHED"
  /\ motor' = "stop"
  /\ last_node_ms' = 0 /\ action_end_ms' = 0 /\ action_age' = 0 /\ hits' = 0

\* hcics_track_complete_action before the end of the action.
TickActionGoesOn ==
  /\ running /\ action_active
  /\ ~Reached(action_end_ms)
  /\ ticked' = TRUE
  /\ UNCHANGED <<controlFrame, trackVars>>

TickFinishDelayOver ==
  /\ running /\ action_active
  /\ Reached(action_end_ms)
  /\ active_action = "FINISH_DELAY"
  /\ FinishPath
  /\ ticked' = TRUE
  /\ UNCHANGED <<controlFrame, active_action, path, destination, path_index>>

\* A turn ends: drive on without a look at the camera; the next tick, in the same
\* unit of time, looks.
TickTurnOver ==
  /\ running /\ action_active
  /\ Reached(action_end_ms)
  /\ active_action # "FINISH_DELAY"
  /\ action_active' = FALSE
  /\ last_node_ms' = now
  /\ visual_state' = "LINE"
  /\ motor' = "line"
  /\ ticked' = FALSE
  /\ action_end_ms' = 0 /\ action_age' = 0
  /\ UNCHANGED <<controlFrame, running, finished, active_action, path, destination,
                 path_index, current_location, hits>>

\* hcics_track_begin_action for a timed action.
BeginTimed(duration, state, manoeuvre) ==
  /\ action_active' = TRUE
  /\ action_end_ms' = (now + duration) % ClockMod
  /\ visual_state' = state
  /\ motor' = manoeuvre
  /\ action_age' = 0
  /\ hits' = hits + 1
  /\ last_node_ms' = 0
  /\ UNCHANGED <<running, finished, current_location>>

BeginAction(action) ==
  CASE action = "FORWARD" ->
         /\ last_node_ms' = now
         /\ visual_state' = "LINE"
         /\ hits' = hits + 1
         /\ UNCHANGED <<running, finished, action_active, current_location,
                        action_end_ms, motor, action_age>>
    [] action = "TURN_LEFT" -> BeginTimed(TurnTime, "LEFT_TURN", "left")
    [] action = "TURN_RIGHT" -> BeginTimed(TurnTime, "RIGHT_TURN", "right")
    [] action = "UTURN" -> BeginTimed(TurnTime, "UTURN", "uturn")
    [] action = "FINISH_DELAY" -> BeginTimed(FinishTime, "PAUSED", "stop")
    [] action = "STOP_AT_TARGET" -> FinishPath

\* hcics_track_accept_node; every path ends with a step that finishes it, so the
\* index stays below the length.
TickAcceptNode ==
  /\ running /\ ~action_active
  /\ NodeSeen
  /\ path_index < Len(path)
  /\ path_index' = path_index + 1
  /\ active_action' = path[path_index + 1]
  /\ BeginAction(path[path_index + 1])
  /\ ticked' = TRUE
  /\ UNCHANGED <<controlFrame, path, destination>>

\* Mutant: the line is followed without a look at the age of the frame.
TickLineFollowBlind ==
  /\ running /\ ~action_active
  /\ ~NodeSeen
  /\ motor' = "line"
  /\ ticked' = TRUE
  /\ UNCHANGED <<controlFrame, running, finished, action_active, active_action,
                 path, destination, path_index, current_location, last_node_ms,
                 action_end_ms, visual_state, hits, action_age>>

\* hcics_track_apply_line_follow.
TickLineFollow ==
  /\ running /\ ~action_active
  /\ ~NodeSeen
  /\ motor' = IF FrameRecent(Stale) THEN "line" ELSE "stop"
  /\ ticked' = TRUE
  /\ UNCHANGED <<controlFrame, running, finished, action_active, active_action,
                 path, destination, path_index, current_location, last_node_ms,
                 action_end_ms, visual_state, hits, action_age>>

ControlNext ==
  \/ TickNotRunning \/ TickActionGoesOn \/ TickFinishDelayOver \/ TickTurnOver
  \/ TickAcceptNode \/ TickLineFollow

-----------------------------------------------------------------------------
(* Mission thread: hcics_run_mission as far as it drives.                  *)

missionFrame == <<now, cameraVars, upc, ticked>>

MGoto(place) == mpc' = place

\* A mission begins; the order comes from the UDP thread, which is therefore not
\* in hcics_app_stop.
MBegin ==
  /\ mpc = "idle" /\ upc = "none"
  /\ abort' = FALSE
  /\ target' \in Targets
  /\ leg' = "nav"
  /\ MGoto("wait")
  /\ UNCHANGED <<missionFrame, trackVars, start_ms>>

\* hcics_wait_track_camera.
MWaitCamera ==
  /\ mpc = "wait"
  /\ \/ abort /\ MGoto("safe_stop")
     \/ ~abort /\ FrameRecent(Lost) /\ MGoto("start")
     \/ ~abort /\ ~FrameRecent(Lost) /\ mpc' \in {"wait", "safe_stop"}
  /\ UNCHANGED <<missionFrame, trackVars, leg, target, start_ms, abort>>

Goal == IF leg = "nav" THEN target ELSE Home

\* hcics_track_start_path refuses a frame that is not recent for it ...
MStartPathDenied ==
  /\ mpc = "start"
  /\ ~FrameRecent(Stale)
  /\ MGoto("safe_stop")
  /\ UNCHANGED <<missionFrame, trackVars, leg, target, start_ms, abort>>

\* ... or plans the path and lets the next node count at once.
MStartPath ==
  /\ mpc = "start"
  /\ FrameRecent(Stale)
  /\ path' = PlanPath(Goal)
  /\ destination' = Goal
  /\ path_index' = 0
  /\ running' = TRUE
  /\ finished' = FALSE
  /\ action_active' = FALSE
  /\ last_node_ms' = (now - Cooldown) % ClockMod
  /\ visual_state' = "LINE"
  /\ hits' = 0
  /\ start_ms' = now
  /\ MGoto("follow")
  /\ UNCHANGED <<missionFrame, active_action, current_location, action_end_ms,
                 motor, action_age, leg, target, abort>>

\* A turn of the loop of hcics_follow_track_path looks at abort and the motion
\* fault, which is latched together with abort, and at hcics_track_is_finished ...
MFollow ==
  /\ mpc = "follow"
  /\ MGoto(IF abort THEN "stop"
           ELSE IF finished THEN IF leg = "nav" THEN "panel" ELSE "safe_stop"
           ELSE "follow_camera")
  /\ start_ms' = IF abort \/ finished THEN 0 ELSE start_ms
  /\ UNCHANGED <<missionFrame, trackVars, leg, target, abort>>

\* ... then at the frame, if the track module needs one ...
MFollowCamera ==
  /\ mpc = "follow_camera"
  /\ MGoto(IF visual_state = "LINE" /\ ~FrameRecent(Lost) THEN "stop"
           ELSE "follow_time")
  /\ UNCHANGED <<missionFrame, trackVars, leg, target, start_ms, abort>>

\* Mutant: a path has no timeout.
MFollowTimeNever ==
  /\ mpc = "follow_time"
  /\ MGoto("asleep")
  /\ UNCHANGED <<missionFrame, trackVars, leg, target, start_ms, abort>>

\* ... then at the time, and sleeps.
MFollowTime ==
  /\ mpc = "follow_time"
  /\ MGoto(IF Since(start_ms) >= NavTimeout THEN "stop" ELSE "asleep")
  /\ UNCHANGED <<missionFrame, trackVars, leg, target, start_ms, abort>>

\* 20 ms later: in this unit of time or after the clock has moved on.
MFollowWake ==
  /\ mpc = "asleep"
  /\ MGoto("follow")
  /\ UNCHANGED <<missionFrame, trackVars, leg, target, start_ms, abort>>

\* The vehicle is parked and the panel cleaned, or not.
MPanel ==
  /\ mpc = "panel"
  /\ \/ leg' = "return" /\ MGoto("wait")
     \/ MGoto("safe_stop") /\ UNCHANGED leg
  /\ UNCHANGED <<missionFrame, trackVars, target, start_ms, abort>>

\* hcics_track_stop.
TrackStop ==
  /\ running' = FALSE
  /\ finished' = FALSE
  /\ action_active' = FALSE
  /\ visual_state' = "IDLE"
  /\ motor' = "stop"
  /\ active_action' = "FORWARD" /\ path' = << >> /\ path_index' = 0
  /\ destination' = Home /\ last_node_ms' = 0 /\ action_end_ms' = 0
  /\ action_age' = 0 /\ hits' = 0
  /\ UNCHANGED current_location

\* The follow loop stops the path and fails; at the end of every mission
\* hcics_safe_stop_outputs stops it once more.
MStop ==
  /\ mpc \in {"stop", "safe_stop"}
  /\ TrackStop
  /\ MGoto(IF mpc = "stop" THEN "safe_stop" ELSE "idle")
  /\ leg' = "nav" /\ target' = Home /\ start_ms' = 0
  /\ UNCHANGED <<missionFrame, abort>>

MissionNext ==
  \/ MBegin \/ MWaitCamera \/ MStartPathDenied \/ MStartPath
  \/ MFollow \/ MFollowCamera \/ MFollowTime \/ MFollowWake \/ MPanel \/ MStop

-----------------------------------------------------------------------------
(* Camera and UDP threads, motion faults, time.                            *)

\* hcics_track_update_camera with a frame stamped with the time of its arrival;
\* the control thread sees it within the unit of time.
UpdateCamera ==
  /\ \E kind \in {"narrow", "line", "node"} :
       camera' = [kind |-> kind, tick |-> IF kind = "narrow" THEN 0 ELSE now]
  /\ frame_age' = 0
  /\ hits' = 0
  /\ ticked' = FALSE
  /\ UNCHANGED <<now, running, finished, action_active, active_action, path,
                 destination, path_index, current_location, last_node_ms,
                 action_end_ms, visual_state, motor, action_age, missionVars,
                 abort, upc>>

\* The mission thread is at a place where it sleeps or waits.
MissionSleeps == mpc \in {"idle", "wait", "asleep", "panel"}

\* Mutant: a stop command stops the path and does not raise abort.
UAbortMissing ==
  /\ upc = "none" /\ MissionSleeps
  /\ upc' = "track_stop"
  /\ UNCHANGED <<now, cameraVars, trackVars, missionVars, abort, ticked>>

\* hcics_app_stop: abort first, hcics_track_stop second.  The mission thread has
\* the higher priority.
UAbort ==
  /\ upc = "none" /\ MissionSleeps
  /\ abort' = TRUE
  /\ upc' = "track_stop"
  /\ UNCHANGED <<now, cameraVars, trackVars, missionVars, ticked>>

UTrackStop ==
  /\ upc = "track_stop" /\ MissionSleeps
  /\ TrackStop
  /\ upc' = "none"
  /\ UNCHANGED <<now, cameraVars, missionVars, abort, ticked>>

\* hcics_latch_motion_fault in the control thread.
LatchMotionFault ==
  /\ mpc # "idle"
  /\ abort' = TRUE
  /\ UNCHANGED <<now, cameraVars, trackVars, missionVars, upc, ticked>>

\* The age of a frame one unit of time later: exact up to a round of the clock, and
\* from then on ClockMod and what the last round adds to it.
Older(age) == IF age = 2 * ClockMod - 1 THEN ClockMod ELSE age + 1

\* Time passes when every thread has done what it does in a unit of time: the
\* control thread has ticked, the follow loop has slept and the UDP thread is
\* not in a handler.  The camera may be silent for any number of rounds.
Clock ==
  /\ ticked /\ MissionSleeps /\ upc = "none"
  /\ now' = (now + 1) % ClockMod
  /\ frame_age' = IF camera.kind = "narrow" THEN 0 ELSE Older(frame_age)
  /\ action_age' = IF action_active THEN action_age + 1 ELSE 0
  /\ ticked' = FALSE
  /\ mpc' = IF mpc = "asleep" THEN "follow" ELSE mpc
  /\ UNCHANGED <<camera, running, finished, action_active, active_action, path,
                 destination, path_index, current_location, last_node_ms,
                 action_end_ms, visual_state, motor, hits, leg, target, start_ms,
                 abort, upc>>

Next ==
  \/ ControlNext \/ MissionNext
  \/ UpdateCamera \/ UAbort \/ UTrackStop \/ LatchMotionFault \/ Clock

Spec == Init /\ [][Next]_vars

\* The mission thread is scheduled and time goes on; the clock waits for the
\* control thread, which therefore runs too.
Fairness ==
  /\ WF_vars(MissionNext /\ mpc # "idle")
  /\ []<><<Clock>>_vars

FairSpec == Spec /\ Fairness

-----------------------------------------------------------------------------
(* Properties.                                                             *)

Actions == {"FORWARD", "TURN_LEFT", "TURN_RIGHT", "UTURN", "FINISH_DELAY",
            "STOP_AT_TARGET"}

Times == 0 .. ClockMod - 1

FlagsOK == {running, finished, action_active, abort, ticked} \subseteq BOOLEAN

DataOK ==
  /\ {now, last_node_ms, action_end_ms, start_ms} \subseteq Times
  /\ frame_age \in 0 .. 2 * ClockMod - 1
  /\ camera \in [kind : {"narrow", "line", "node"}, tick : Times]
  /\ active_action \in Actions
  /\ path \in Seq(Actions) /\ path_index \in 0 .. Len(path)
  /\ {destination, current_location, target} \subseteq Panels \cup {Home}
  /\ visual_state \in {"LINE", "LEFT_TURN", "RIGHT_TURN", "UTURN", "PAUSED",
                       "FINISHED", "IDLE"}
  /\ motor \in {"stop", "line", "left", "right", "uturn"}
  /\ mpc \in {"idle", "wait", "start", "follow", "follow_camera", "follow_time",
              "asleep", "panel", "stop", "safe_stop"}
  /\ leg \in {"nav", "return"} /\ upc \in {"none", "track_stop"}
  /\ hits \in Nat /\ action_age \in Nat

TypeOK == FlagsOK /\ DataOK

\* A path ends cleanly.  The motors are told to stop whenever no path is running: a
\* tick of the control thread never drives on after a stop or an arrival.  A path is
\* finished only when all its steps have been taken, and then the vehicle is where
\* the path leads.
PathEndsCleanly ==
  /\ ~running => motor = "stop"
  /\ finished => path_index = Len(path) /\ current_location = destination

\* While the follow loop waits for the path and nobody has raised abort, there is
\* a path to wait for: it is running or finished.  Otherwise the mission would
\* wait the two minutes of the timeout for nothing.  And the variables keep their
\* types, the index in the path included.
FollowHasPath ==
  /\ TypeOK
  /\ mpc \in {"follow", "follow_camera", "follow_time", "asleep"} /\ ~abort
       => running \/ finished

\* The same way back: steps in reverse, turns mirrored.
Mirror(action) ==
  CASE action = "TURN_RIGHT" -> "TURN_LEFT"
    [] action = "TURN_LEFT" -> "TURN_RIGHT"
    [] OTHER -> action

Retrace(steps) == [i \in 1 .. Len(steps) |-> Mirror(steps[Len(steps) + 1 - i])]

\* The path home is planned from where the vehicle is: it turns round, retraces
\* the path that led to the mission's panel, and docks.
WayHomeRetraces ==
  running /\ leg = "return"
    => LET out == BuildToTarget(target)
       IN path = <<"UTURN">> \o Retrace(SubSeq(out, 1, Len(out) - 1))
                   \o <<"FINISH_DELAY">>

\* How often one camera frame can be taken for a new node on one path: once per
\* cooldown as long as it is not stale, since nothing marks a frame as used.  A path
\* does not last until the clock makes the frame look fresh once more.
FrameHitsBounded == hits <= (Stale \div Cooldown) + 1

\* A timed action that is not stopped lasts at least its time, also when the
\* clock wraps around.
TurnsNotCut ==
  [][action_active /\ ~action_active' /\ (running' \/ finished')
       => action_age >= IF active_action = "FINISH_DELAY" THEN FinishTime
                        ELSE TurnTime]_vars

\* No unit of time passes in which the vehicle follows a line that the camera has
\* not seen for longer than the stale time, with one exception: a camera silent for
\* whole rounds of the clock, since its last frame then counts as fresh again for the
\* stale time, at the start of a path as well as on it.
NeverBlind ==
  [][now' # now /\ motor = "line"
       => /\ camera.kind # "narrow"
          /\ frame_age \in 0 .. Stale \cup ClockMod .. ClockMod + Stale]_vars

\* Every path ends: by arrival, stop, loss of the camera or timeout, also when
\* the clock wraps around on the way.
FollowEnds == mpc = "follow" ~> mpc \in {"panel", "stop", "safe_stop"}
=============================================================================
