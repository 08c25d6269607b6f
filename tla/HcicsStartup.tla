---------------------------- MODULE HcicsStartup ----------------------------
(***************************************************************************)
(* Start-up: the registration of the encoders at boot, then main and        *)
(* hcics_app_init, which brings the components up one after the other,      *)
(* creates the application's threads and starts them.  Every step may fail. *)
(* The last component is the surface guard of HcicsGuard, whose start-up    *)
(* and first sample are steps of main, and whose thread samples from then   *)
(* on.                                                                      *)
(*                                                                         *)
(* Calls of motion and cleaner initialise their component when it is not;   *)
(* the other modules leave that out.  Here it is shown that no thread runs  *)
(* that would do so.  The main thread is above all of these threads, but it *)
(* sleeps while it waits for the distance sensor, so the cleaner's worker   *)
(* may run before start-up has ended.                                       *)
(***************************************************************************)
EXTENDS HcicsGuard, Sequences

VARIABLES
  main,         \* what main does next
  registered,   \* encoder devices that the device table holds
  up,           \* components whose "initialized" flag is set, and the queue
  uarts,        \* camera UARTs that are open
  thread        \* what has become of each thread

bootVars == <<registered, up, uarts, thread>>
allVars == <<main, bootVars, vars>>

\* The threads hcics_app_init creates, in the order in which it does.
AppOrder == <<"control", "mission", "udp", "track_camera", "clean_camera">>
AppThreads == {AppOrder[i] : i \in 1 .. Len(AppOrder)}
Threads == AppThreads \cup {"worker", "guard"}

Components == {"queue", "motion", "axis", "track", "cleaner", "guard", "app"}
Encoders == {"left", "right"}
Cameras == {"track", "clean"}

\* The components a thread calls.
Needs(t) ==
  CASE t = "worker" -> {"axis", "cleaner"}
    [] t = "guard" -> {"axis", "cleaner"}
    [] t = "control" -> {"motion", "track"}
    [] t = "track_camera" -> {"track"}
    [] t = "clean_camera" -> {"cleaner"}
    [] OTHER -> {"queue", "motion", "axis", "track", "cleaner"}

BootInit ==
  /\ main = <<"boot">> /\ registered = {} /\ up = {} /\ uarts = {}
  /\ thread = [t \in Threads |-> "none"]
  /\ Init

\* Main goes on to the next component, while the guard is as it was.
Step(from, to) == main = <<from>> /\ main' = <<to>> /\ UNCHANGED vars

\* An early return of hcics_app_init.
Fail(from) == main = <<from>> /\ main' = <<"failed">> /\ UNCHANGED vars

-----------------------------------------------------------------------------

\* hcics_encoder_auto_init: left, then right if left was registered.  Nobody looks
\* at the result.
RegisterEncoders ==
  /\ Step("boot", "queue")
  /\ registered' \in {{}, {"left"}, Encoders}
  /\ UNCHANGED <<up, uarts, thread>>

CreateQueue ==
  /\ \/ Step("queue", "uart_track") /\ up' = up \cup {"queue"}
     \/ Fail("queue") /\ UNCHANGED up
  /\ UNCHANGED <<registered, uarts, thread>>

\* hcics_hw_init.
OpenTrackUart ==
  /\ \/ Step("uart_track", "uart_clean") /\ uarts' = uarts \cup {"track"}
     \/ Fail("uart_track") /\ UNCHANGED uarts
  /\ UNCHANGED <<registered, up, thread>>

\* When the second UART fails the first is closed again.
OpenCleanUart ==
  /\ \/ Step("uart_clean", "motion") /\ uarts' = uarts \cup {"clean"}
     \/ Fail("uart_clean") /\ uarts' = uarts \ {"track"}
  /\ UNCHANGED <<registered, up, thread>>

\* hcics_motion_init: both encoders must open, and there must be a PWM device.
MotionInit ==
  /\ \/ Step("motion", "axis") /\ registered = Encoders /\ up' = up \cup {"motion"}
     \/ Fail("motion") /\ UNCHANGED up
  /\ UNCHANGED <<registered, uarts, thread>>

AxisInit ==
  /\ \/ Step("axis", "track") /\ up' = up \cup {"axis"}
     \/ Fail("axis") /\ UNCHANGED up
  /\ UNCHANGED <<registered, uarts, thread>>

TrackInit ==
  /\ \/ Step("track", "cleaner") /\ up' = up \cup {"track"}
     \/ Fail("track") /\ UNCHANGED up
  /\ UNCHANGED <<registered, uarts, thread>>

\* hcics_cleaner_init up to its first safe_outputs: the flag is set before it.
CleanerInit ==
  /\ \/ Step("cleaner", "worker") /\ up' = up \cup {"cleaner"}
     \/ Fail("cleaner") /\ UNCHANGED up
  /\ UNCHANGED <<registered, uarts, thread>>

\* Mutant: the worker is started before the outputs are made safe.
CleanerWorkerFirst ==
  /\ thread' = [thread EXCEPT !["worker"] = "running"]
  /\ \/ Step("worker", "guard") /\ UNCHANGED up
     \/ Fail("worker") /\ up' = up \ {"cleaner"}
  /\ UNCHANGED <<registered, uarts>>

\* The outputs are made safe and the worker is created and started; when one of
\* them fails the flag is taken back.
CleanerWorker ==
  /\ \/ /\ Step("worker", "guard")
        /\ thread' = [thread EXCEPT !["worker"] = "running"]
        /\ UNCHANGED up
     \/ Fail("worker") /\ up' = up \ {"cleaner"} /\ UNCHANGED thread
  /\ UNCHANGED <<registered, uarts>>

\* hcics_guard_init and, once its thread runs, the guard thread.  The sensor and
\* the first sample are waited for by main.
GuardRuns == main = <<"guard">> \/ thread["guard"] = "running"

GuardThreadStarted == main = <<"guard">> /\ ~booting'

\* A step of the guard; main goes on when its thread has been started, and gives up
\* when its initialisation has failed.
GuardGoesOn ==
  /\ GuardRuns
  /\ GuardStep \/ Trouble
  /\ main' = IF GuardThreadStarted THEN <<"create", 1>>
             ELSE IF pc' = "failed" THEN <<"failed">> ELSE main
  /\ thread' = IF GuardThreadStarted THEN [thread EXCEPT !["guard"] = "running"]
                                     ELSE thread
  /\ up' = IF GuardThreadStarted THEN up \cup {"guard"} ELSE up
  /\ UNCHANGED <<registered, uarts>>

Sensor == (SensorBegin \/ SensorFinish) /\ UNCHANGED <<main, bootVars>>

-----------------------------------------------------------------------------
(* The application's threads.                                              *)

\* rt_thread_create: all five are tried, whether or not the others are there.
Create(i) ==
  /\ main = <<"create", i>>
  /\ main' = IF i = Len(AppOrder) THEN <<"check">> ELSE <<"create", i + 1>>
  /\ \/ thread' = [thread EXCEPT ![AppOrder[i]] = "created"]
     \/ UNCHANGED thread
  /\ UNCHANGED <<registered, up, uarts, vars>>

AllCreated == \A t \in AppThreads : thread[t] = "created"

Check ==
  /\ main = <<"check">>
  /\ main' = IF AllCreated THEN <<"start", 1>> ELSE <<"delete", 1>>
  /\ UNCHANGED <<bootVars, vars>>

\* Mutant: the last thread is not deleted.
DeleteAllButLast(i) ==
  /\ main = <<"delete", i>>
  /\ main' = IF i >= Len(AppOrder) - 1 THEN <<"failed">> ELSE <<"delete", i + 1>>
  /\ thread' = [thread EXCEPT ![AppOrder[i]] = IF @ = "created" THEN "deleted" ELSE @]
  /\ UNCHANGED <<registered, up, uarts, vars>>

Delete(i) ==
  /\ main = <<"delete", i>>
  /\ main' = IF i = Len(AppOrder) THEN <<"failed">> ELSE <<"delete", i + 1>>
  /\ thread' = [thread EXCEPT ![AppOrder[i]] = IF @ = "created" THEN "deleted" ELSE @]
  /\ UNCHANGED <<registered, up, uarts, vars>>

\* rt_thread_startup; after the last one the application is initialised.
Start(i) ==
  /\ main = <<"start", i>>
  /\ main' = IF i = Len(AppOrder) THEN <<"done">> ELSE <<"start", i + 1>>
  /\ thread' = [thread EXCEPT ![AppOrder[i]] = "running"]
  /\ up' = IF i = Len(AppOrder) THEN up \cup {"app"} ELSE up
  /\ UNCHANGED <<registered, uarts, vars>>

MainStep ==
  \/ RegisterEncoders \/ CreateQueue \/ OpenTrackUart \/ OpenCleanUart
  \/ MotionInit \/ AxisInit \/ TrackInit \/ CleanerInit \/ CleanerWorker \/ Check
  \/ \E i \in 1 .. Len(AppOrder) : Create(i) \/ Delete(i) \/ Start(i)

BootNext == MainStep \/ GuardGoesOn \/ Sensor

BootSpec == BootInit /\ [][BootNext]_allVars

\* Main and the guard thread are scheduled, and the sensor begins and ends what it
\* was told to measure; that the measurements give distances is assumed in the
\* property that needs it.
FairBootSpec ==
  /\ BootSpec
  /\ WF_allVars(MainStep) /\ WF_allVars(GuardGoesOn /\ GuardStep)
  /\ WF_vars(SensorBegin) /\ WF_vars(SensorFinish)

-----------------------------------------------------------------------------
(* Properties.                                                             *)

BootTypeOK ==
  /\ \/ main[1] \in {"boot", "queue", "uart_track", "uart_clean", "motion", "axis",
                     "track", "cleaner", "worker", "guard", "check", "done", "failed"}
     \/ main[1] \in {"create", "delete", "start"} /\ main[2] \in 1 .. Len(AppOrder)
  /\ registered \subseteq Encoders /\ up \subseteq Components /\ uarts \subseteq Cameras
  /\ thread \in [Threads -> {"none", "created", "running", "deleted"}]

\* No thread finds a component it calls uninitialised, so the initialisation on
\* demand in hcics_motion.c and hcics_cleaner.c never happens in a second thread:
\* what runs during start-up and what start-up leaves running when it fails, the
\* cleaner's worker and the guard, included.  And the variables of start-up and
\* of the guard keep their types.
NoLazyInit ==
  /\ BootTypeOK /\ TypeOK
  /\ \A t \in Threads : thread[t] = "running" => Needs(t) \subseteq up

\* A start-up that fails leaves none of the application's threads behind, started
\* or not: nothing is left that could drive the vehicle or start the cleaner.
FailedIsQuiet ==
  main = <<"failed">> => \A t \in AppThreads : thread[t] \in {"none", "deleted"}
=============================================================================
