------------------------- MODULE HcicsStartupProofs -------------------------
(***************************************************************************)
(* Proofs about HcicsStartup and the guard inside it, for every limit of    *)
(* failed reads and every pattern of failing transfers and timeouts.        *)
(***************************************************************************)
EXTENDS HcicsStartup, TLAPS

\* A measurement that was published cannot be read again: its interrupt status
\* has been cleared, and the status is seen before the result is read.
NoReuse ==
  /\ int_status => ~result.used
  /\ pc = "read" => ~result.used
  /\ ~got.used
  /\ NeverTwice

\* The counter of the code counts exactly the samples without a distance, and the
\* forced stop that it publishes at the limit is not taken back but by a distance.
Counted ==
  /\ read_errors = blind
  /\ BlindForcesStop

\* Where a measurement that was started can be: not begun, in progress, or done.
Quiet == ~start /\ running = "none" /\ ~int_status
Measuring ==
  \/ start /\ running = "none" /\ ~int_status
  \/ ~start /\ running = "now" /\ ~int_status
Measured == ~start /\ running = "none" /\ int_status

\* Without trouble the sensor is in step with the code: nothing is left over from
\* one measurement when the next one starts.
InStep ==
  ~troubled =>
    /\ pc # "failed"
    /\ pc \in {"probe", "setup", "spads", "tuning"} => ~start /\ running = "none"
    /\ pc \in {"vhv_start", "phase_start", "arm", "thread", "sample"} => Quiet
    /\ pc \in {"vhv_wait", "phase_wait", "wait_start", "wait_int"} =>
         Measuring \/ Measured
    /\ pc \in {"vhv_clear", "phase_clear", "read", "clear"} => Measured
    /\ pc \in {"wait_start", "wait_int", "read"} /\ int_status => result.m = "now"
    /\ pc = "clear" => got.m = "now"
    /\ FreshUntilTrouble

GuardInv == TypeOK /\ NoReuse /\ Counted /\ InStep

\* What main does before the thread of the guard is started.
Early == {"boot", "queue", "uart_track", "uart_clean", "motion", "axis", "track", "cleaner",
          "worker", "guard"}

\* A component is up once main has passed its initialisation.
Brought ==
  /\ main[1] \notin {"boot", "queue", "failed"} => "queue" \in up
  /\ main[1] \notin {"boot", "queue", "uart_track", "uart_clean", "motion", "failed"} =>
       "motion" \in up
  /\ main[1] \notin (Early \ {"track", "cleaner", "worker", "guard"}) \cup {"failed"} =>
       "axis" \in up
  /\ main[1] \notin (Early \ {"cleaner", "worker", "guard"}) \cup {"failed"} =>
       "track" \in up
  /\ main[1] \notin (Early \ {"worker", "guard"}) \cup {"failed"} => "cleaner" \in up

\* The cleaner's worker and the guard run on when start-up fails later; the cleaner's flag
\* is only taken back before they are started.  Once its thread runs the guard cannot fail.
Loop == {"sample", "wait_start", "wait_int", "read", "clear"}
RunsOn ==
  /\ thread["worker"] = "running" =>
       {"axis", "cleaner"} \subseteq up /\ main[1] \notin Early \ {"guard"}
  /\ thread["guard"] = "running" =>
       {"axis", "cleaner"} \subseteq up /\ main[1] \notin Early
  /\ booting => thread["guard"] # "running"
  /\ ~booting => pc \in Loop

\* What has become of the application's threads, by the place of main.
AppPlaces ==
  /\ main[1] \in Early => \A t \in AppThreads : thread[t] = "none"
  /\ main[1] \in {"create", "check"} =>
       \A t \in AppThreads : thread[t] \in {"none", "created"}
  /\ main[1] = "delete" =>
       \A j \in 1 .. Len(AppOrder) :
         /\ thread[AppOrder[j]] \in {"none", "created", "deleted"}
         /\ j < main[2] => thread[AppOrder[j]] # "created"
  /\ main[1] = "failed" => \A t \in AppThreads : thread[t] \in {"none", "deleted"}

BootInv == BootTypeOK /\ Brought /\ RunsOn /\ AppPlaces

-----------------------------------------------------------------------------
(* The guard: one lemma per part of the invariant.                         *)

\* The flags stay Boolean.
LEMMA FlagsStep ==
  ASSUME FlagsOK, Next
  PROVE  FlagsOK'
<1> USE DEF FlagsOK, sensorVars, NoDistance, Distance, SampleEnds
<1>1. CASE InitTransfers
  BY Zenon, <1>1 DEF InitTransfers
<1>2. CASE CalibrationStart
  BY Zenon, <1>2 DEF CalibrationStart
<1>3. CASE CalibrationDone
  BY Zenon, <1>3 DEF CalibrationDone
<1>4. CASE CalibrationClear
  BY Zenon, <1>4 DEF CalibrationClear
<1>5. CASE ThreadStarts
  BY Zenon, <1>5 DEF ThreadStarts
<1>6. CASE SampleStart
  BY Zenon, <1>6 DEF SampleStart
<1>7. CASE StartSeen
  BY Zenon, <1>7 DEF StartSeen
<1>8. CASE IntSeen
  BY Zenon, <1>8 DEF IntSeen
<1>9. CASE ReadRange
  BY Zenon, <1>9 DEF ReadRange
<1>10. CASE ClearOk
  BY Zenon, <1>10 DEF ClearOk
<1>11. CASE InitFails
  BY Zenon, <1>11 DEF InitFails
<1>12. CASE SampleStartFails
  BY Zenon, <1>12 DEF SampleStartFails
<1>13. CASE SampleFails
  BY Zenon, <1>13 DEF SampleFails
<1>14. CASE ClearFails
  BY Zenon, <1>14 DEF ClearFails
<1>15. CASE SensorBegin
  BY Zenon, <1>15 DEF SensorBegin
<1>16. CASE SensorFinish
  BY Zenon, <1>16 DEF SensorFinish
<1>17. CASE Halted
  BY Zenon, <1>17 DEF Halted, vars
<1> QED
  BY <1>1, <1>2, <1>3, <1>4, <1>5, <1>6, <1>7, <1>8, <1>9, <1>10, <1>11, <1>12, <1>13, <1>14, <1>15, <1>16, <1>17 DEF Next, GuardStep, Trouble

\* The other variables keep their types.
LEMMA DataStep ==
  ASSUME DataOK, Next
  PROVE  DataOK'
<1> USE GuardAssumption DEF DataOK, sensorVars, AfterInit, Calibration, NoDistance, Distance,
       SampleEnds, Aged, When, NoResult
<1>1. CASE InitTransfers
  BY <1>1 DEF InitTransfers
<1>2. CASE CalibrationStart
  BY <1>2 DEF CalibrationStart
<1>3. CASE CalibrationDone
  BY <1>3 DEF CalibrationDone
<1>4. CASE CalibrationClear
  BY <1>4 DEF CalibrationClear
<1>5. CASE ThreadStarts
  BY <1>5 DEF ThreadStarts
<1>6. CASE SampleStart
  BY <1>6 DEF SampleStart
<1>7. CASE StartSeen
  BY <1>7 DEF StartSeen
<1>8. CASE IntSeen
  BY <1>8 DEF IntSeen
<1>9. CASE ReadRange
  BY <1>9 DEF ReadRange
<1>10. CASE ClearOk
  <2>1. result' \in [m : When, good : BOOLEAN, used : BOOLEAN]
    <3>1. result' = [m |-> result.m, good |-> result.good,
                     used |-> result.used \/ (kept /\ got.good)]
      BY <1>10 DEF ClearOk
    <3>2. (result.used \/ (kept /\ got.good)) \in BOOLEAN
      BY Zenon
    <3> QED
      BY <3>1, <3>2
  <2>2. UNCHANGED running /\ (Distance \/ NoDistance(TRUE))
    BY Zenon, <1>10 DEF ClearOk
  <2>3. CASE Distance
    BY <2>1, <2>2, <2>3
  <2>4. CASE NoDistance(TRUE)
    BY <2>1, <2>2, <2>4
  <2> QED
    BY <2>2, <2>3, <2>4
<1>11. CASE InitFails
  BY <1>11 DEF InitFails
<1>12. CASE SampleStartFails
  BY <1>12 DEF SampleStartFails
<1>13. CASE SampleFails
  BY <1>13 DEF SampleFails
<1>14. CASE ClearFails
  BY <1>14 DEF ClearFails
<1>15. CASE SensorBegin
  BY <1>15 DEF SensorBegin
<1>16. CASE SensorFinish
  BY <1>16 DEF SensorFinish
<1>17. CASE Halted
  BY <1>17 DEF Halted, vars
<1> QED
  BY <1>1, <1>2, <1>3, <1>4, <1>5, <1>6, <1>7, <1>8, <1>9, <1>10, <1>11, <1>12, <1>13, <1>14, <1>15, <1>16, <1>17 DEF Next, GuardStep, Trouble

\* What was published is not published again.
LEMMA ReuseStep ==
  ASSUME DataOK, NoReuse, Next
  PROVE  NoReuse'
<1> USE DEF DataOK, NoReuse, NeverTwice, sensorVars, AfterInit, Calibration, NoDistance,
       Distance, SampleEnds, NoResult
<1>1. CASE InitTransfers
  BY <1>1 DEF InitTransfers
<1>2. CASE CalibrationStart
  BY <1>2 DEF CalibrationStart
<1>3. CASE CalibrationDone
  BY <1>3 DEF CalibrationDone
<1>4. CASE CalibrationClear
  BY <1>4 DEF CalibrationClear
<1>5. CASE ThreadStarts
  BY <1>5 DEF ThreadStarts
<1>6. CASE SampleStart
  BY <1>6 DEF SampleStart
<1>7. CASE StartSeen
  BY <1>7 DEF StartSeen
<1>8. CASE IntSeen
  BY <1>8 DEF IntSeen
<1>9. CASE ReadRange
  BY <1>9 DEF ReadRange
<1>10. CASE ClearOk
  BY <1>10 DEF ClearOk
<1>11. CASE InitFails
  BY <1>11 DEF InitFails
<1>12. CASE SampleStartFails
  BY <1>12 DEF SampleStartFails
<1>13. CASE SampleFails
  BY <1>13 DEF SampleFails
<1>14. CASE ClearFails
  <2>1. int_status' => int_status
    BY Zenon, <1>14 DEF ClearFails
  <2> QED
    BY <1>14, <2>1 DEF ClearFails
<1>15. CASE SensorBegin
  BY <1>15 DEF SensorBegin
<1>16. CASE SensorFinish
  BY <1>16 DEF SensorFinish
<1>17. CASE Halted
  BY <1>17 DEF Halted, vars
<1> QED
  BY <1>1, <1>2, <1>3, <1>4, <1>5, <1>6, <1>7, <1>8, <1>9, <1>10, <1>11, <1>12, <1>13, <1>14, <1>15, <1>16, <1>17 DEF Next, GuardStep, Trouble

\* The counters go together.
LEMMA CountStep ==
  ASSUME DataOK, Counted, Next
  PROVE  Counted'
<1> USE GuardAssumption DEF DataOK, Counted, BlindForcesStop, sensorVars, NoDistance, Distance
<1>1. CASE InitTransfers
  BY <1>1 DEF InitTransfers
<1>2. CASE CalibrationStart
  BY <1>2 DEF CalibrationStart
<1>3. CASE CalibrationDone
  BY <1>3 DEF CalibrationDone
<1>4. CASE CalibrationClear
  BY <1>4 DEF CalibrationClear
<1>5. CASE ThreadStarts
  BY <1>5 DEF ThreadStarts
<1>6. CASE SampleStart
  BY <1>6 DEF SampleStart
<1>7. CASE StartSeen
  BY <1>7 DEF StartSeen
<1>8. CASE IntSeen
  BY <1>8 DEF IntSeen
<1>9. CASE ReadRange
  BY <1>9 DEF ReadRange
<1>10. CASE ClearOk
  <2>1. CASE got.good
    BY <1>10, <2>1 DEF ClearOk
  <2>2. CASE ~got.good
    BY <1>10, <2>2 DEF ClearOk
  <2> QED
    BY <2>1, <2>2
<1>11. CASE InitFails
  BY <1>11 DEF InitFails
<1>12. CASE SampleStartFails
  BY <1>12 DEF SampleStartFails
<1>13. CASE SampleFails
  BY <1>13 DEF SampleFails
<1>14. CASE ClearFails
  BY <1>14 DEF ClearFails
<1>15. CASE SensorBegin
  BY <1>15 DEF SensorBegin
<1>16. CASE SensorFinish
  BY <1>16 DEF SensorFinish
<1>17. CASE Halted
  BY <1>17 DEF Halted, vars
<1> QED
  BY <1>1, <1>2, <1>3, <1>4, <1>5, <1>6, <1>7, <1>8, <1>9, <1>10, <1>11, <1>12, <1>13, <1>14, <1>15, <1>16, <1>17 DEF Next, GuardStep, Trouble

\* Without trouble a measurement ends before the next one starts.
LEMMA InStepStep ==
  ASSUME DataOK, InStep, Next
  PROVE  InStep'
<1> USE DEF DataOK, InStep, FreshUntilTrouble, Quiet, Measuring, Measured, sensorVars,
       AfterInit, Calibration, NoDistance, Distance, SampleEnds, NoResult
<1>1. CASE InitTransfers
  <2>1. pc = "tuning" => ~int_status'
    BY Zenon, <1>1 DEF InitTransfers
  <2>2. ~int_status => ~int_status'
    BY Zenon, <1>1 DEF InitTransfers
  <2> QED
    BY <1>1, <2>1, <2>2 DEF InitTransfers
<1>2. CASE CalibrationStart
  BY <1>2 DEF CalibrationStart
<1>3. CASE CalibrationDone
  BY <1>3 DEF CalibrationDone
<1>4. CASE CalibrationClear
  BY <1>4 DEF CalibrationClear
<1>5. CASE ThreadStarts
  BY <1>5 DEF ThreadStarts
<1>6. CASE SampleStart
  <2>1. CASE troubled
    BY <1>6, <2>1 DEF SampleStart
  <2>2. CASE ~troubled
    <3>1. Quiet /\ FreshUntilTrouble
      BY <1>6, <2>2 DEF SampleStart
    <3>2. Measuring' /\ ~int_status'
      BY <1>6, <3>1 DEF SampleStart, Aged
    <3> QED
      BY <1>6, <3>1, <3>2 DEF SampleStart
  <2> QED
    BY <2>1, <2>2
<1>7. CASE StartSeen
  BY <1>7 DEF StartSeen
<1>8. CASE IntSeen
  BY <1>8 DEF IntSeen
<1>9. CASE ReadRange
  BY <1>9 DEF ReadRange
<1>10. CASE ClearOk
  BY <1>10 DEF ClearOk
<1>11. CASE InitFails
  BY <1>11 DEF InitFails
<1>12. CASE SampleStartFails
  BY <1>12 DEF SampleStartFails
<1>13. CASE SampleFails
  BY <1>13 DEF SampleFails
<1>14. CASE ClearFails
  BY <1>14 DEF ClearFails
<1>15. CASE SensorBegin
  BY <1>15 DEF SensorBegin
<1>16. CASE SensorFinish
  BY <1>16 DEF SensorFinish
<1>17. CASE Halted
  BY <1>17 DEF Halted, vars
<1> QED
  BY <1>1, <1>2, <1>3, <1>4, <1>5, <1>6, <1>7, <1>8, <1>9, <1>10, <1>11, <1>12, <1>13, <1>14, <1>15, <1>16, <1>17 DEF Next, GuardStep, Trouble

-----------------------------------------------------------------------------
(* Start-up around the guard.                                              *)

\* Every step of the composition is a step of the guard or leaves it alone.
LEMMA GuardInside ==
  ASSUME [BootNext]_allVars
  PROVE  [Next]_vars
<1>1. CASE MainStep
  BY <1>1 DEF MainStep, RegisterEncoders, CreateQueue, OpenTrackUart, OpenCleanUart,
              MotionInit, AxisInit, TrackInit, CleanerInit, CleanerWorker, Check,
              Create, Delete, Start, Step, Fail
<1>2. CASE GuardGoesOn
  BY <1>2 DEF GuardGoesOn, Next
<1>3. CASE Sensor
  BY <1>3 DEF Sensor, Next
<1>4. CASE UNCHANGED allVars
  BY <1>4 DEF allVars
<1> QED
  BY <1>1, <1>2, <1>3, <1>4 DEF BootNext

\* Before the first transfer the sensor stands still and nothing is published.
LEMMA GuardInvInit == Init => GuardInv
<1> SUFFICES ASSUME Init PROVE GuardInv
  OBVIOUS
<1> USE DEF Init, NoResult, NoPub
<1>1. FlagsOK
  BY Zenon DEF FlagsOK
<1>2. DataOK
  BY GuardAssumption DEF DataOK, AfterInit, When
<1>3. NoReuse
  BY DEF NoReuse, NeverTwice
<1>4. Counted
  BY GuardAssumption DEF Counted, BlindForcesStop
<1>5. InStep
  BY DEF InStep, FreshUntilTrouble
<1> QED
  BY <1>1, <1>2, <1>3, <1>4, <1>5 DEF GuardInv, TypeOK

\* The invariant holds through start-up and for ever after.
THEOREM GuardInvariance == BootSpec => []GuardInv
<1>1. GuardInv /\ UNCHANGED vars => GuardInv'
  <2> SUFFICES ASSUME GuardInv, UNCHANGED vars PROVE GuardInv'
    OBVIOUS
  <2> USE DEF GuardInv, TypeOK, vars, sensorVars
  <2>1. FlagsOK'
    BY Zenon DEF FlagsOK
  <2>2. DataOK'
    BY DEF DataOK
  <2>3. NoReuse' /\ Counted' /\ InStep'
    BY DEF NoReuse, NeverTwice, Counted, BlindForcesStop, InStep, FreshUntilTrouble,
           Quiet, Measuring, Measured
  <2> QED
    BY <2>1, <2>2, <2>3
<1>2. GuardInv /\ Next => GuardInv'
  BY FlagsStep, DataStep, ReuseStep, CountStep, InStepStep DEF GuardInv, TypeOK
<1>3. GuardInv /\ [BootNext]_allVars => GuardInv'
  BY <1>1, <1>2, GuardInside
<1>4. BootInit => GuardInv
  BY GuardInvInit DEF BootInit
<1> QED
  BY <1>3, <1>4, PTL DEF BootSpec

\* No measurement is published twice, whatever transfers fail.
THEOREM PublishedOnce == BootSpec => []NeverTwice
<1>1. GuardInv => NeverTwice
  BY DEF GuardInv, NoReuse
<1> QED
  BY <1>1, GuardInvariance, PTL

\* After the limit of samples in a row without a distance, for whatever reason, the
\* last publication is the forced stop.
THEOREM BlindIsStopped == BootSpec => []BlindForcesStop
<1>1. GuardInv => BlindForcesStop
  BY DEF GuardInv, Counted
<1> QED
  BY <1>1, GuardInvariance, PTL

\* As long as nothing has failed or timed out, every published distance was measured
\* in the sample that publishes it.
THEOREM FreshWithoutTrouble == BootSpec => []FreshUntilTrouble
<1>1. GuardInv => FreshUntilTrouble
  BY DEF GuardInv, InStep, FreshUntilTrouble
<1> QED
  BY <1>1, GuardInvariance, PTL

-----------------------------------------------------------------------------
(* Start-up itself.                                                        *)

\* The table of threads: five different ones, none of them the worker or the guard.
LEMMA OrderIs ==
  /\ Len(AppOrder) = 5
  /\ \A i \in 1 .. 5 : AppOrder[i] \in AppThreads
  /\ \A t \in AppThreads : \E i \in 1 .. 5 : t = AppOrder[i]
  /\ \A i, j \in 1 .. 5 : AppOrder[i] = AppOrder[j] => i = j
  /\ AppThreads \subseteq Threads /\ {"worker", "guard"} \subseteq Threads
  /\ "worker" \notin AppThreads /\ "guard" \notin AppThreads
<1>1. Len(AppOrder) = 5 BY DEF AppOrder
<1>2. AppThreads = {AppOrder[i] : i \in 1 .. 5} BY <1>1 DEF AppThreads
<1>3. /\ AppOrder[1] = "control" /\ AppOrder[2] = "mission" /\ AppOrder[3] = "udp"
      /\ AppOrder[4] = "track_camera" /\ AppOrder[5] = "clean_camera"
  BY DEF AppOrder
<1>4. \A i \in 1 .. 5 : i = 1 \/ i = 2 \/ i = 3 \/ i = 4 \/ i = 5 OBVIOUS
<1>5. \A i, j \in 1 .. 5 : AppOrder[i] = AppOrder[j] => i = j BY <1>3, <1>4
<1>6. "worker" \notin AppThreads /\ "guard" \notin AppThreads BY <1>2, <1>3, <1>4
<1> QED BY <1>1, <1>2, <1>5, <1>6 DEF Threads

\* What a thread calls: an application's thread at most all that is up when they start.
LEMMA NeedsIs ==
  /\ Needs("worker") = {"axis", "cleaner"} /\ Needs("guard") = {"axis", "cleaner"}
  /\ \A t \in AppThreads : Needs(t) \subseteq {"queue", "motion", "axis", "track", "cleaner"}
<1>1. Needs("worker") = {"axis", "cleaner"} BY DEF Needs
<1>2. Needs("guard") = {"axis", "cleaner"} BY DEF Needs
<1>3. ASSUME NEW t \in AppThreads
      PROVE  Needs(t) \subseteq {"queue", "motion", "axis", "track", "cleaner"}
  <2>1. t # "worker" /\ t # "guard" BY OrderIs
  <2>2. CASE t = "control" BY <2>2 DEF Needs
  <2>3. CASE t = "track_camera" BY <2>3 DEF Needs
  <2>4. CASE t = "clean_camera" BY <2>4 DEF Needs
  <2>5. CASE t \notin {"control", "track_camera", "clean_camera"}
    <3>1. Needs(t) = {"queue", "motion", "axis", "track", "cleaner"}
      BY <2>1, <2>5 DEF Needs
    <3> QED BY <3>1
  <2> QED BY <2>2, <2>3, <2>4, <2>5
<1> QED BY <1>1, <1>2, <1>3

\* Nothing is up at boot.
LEMMA BootInvInit == BootInit => BootInv
<1> SUFFICES ASSUME BootInit PROVE BootInv OBVIOUS
<1>1. main = <<"boot">> /\ main[1] = "boot" BY DEF BootInit
<1>2. \A t \in Threads : thread[t] = "none" BY DEF BootInit
<1>3. BootTypeOK BY <1>1 DEF BootInit, BootTypeOK
<1>4. Brought BY <1>1 DEF Brought, Early
<1>5. RunsOn BY <1>1, <1>2, OrderIs DEF RunsOn, BootInit, Init
<1>6. AppPlaces BY <1>1, <1>2, OrderIs DEF AppPlaces
<1> QED BY <1>3, <1>4, <1>5, <1>6 DEF BootInv

\* The initialisation of the components, up to the cleaner.
LEMMA ComponentsStep ==
  ASSUME BootInv,
         \/ RegisterEncoders \/ CreateQueue \/ OpenTrackUart \/ OpenCleanUart
         \/ MotionInit \/ AxisInit \/ TrackInit \/ CleanerInit
  PROVE  BootInv'
<1> DEFINE Places == {"boot", "queue", "uart_track", "uart_clean", "motion", "axis", "track",
                      "cleaner"}
           Follows == [boot |-> "queue", queue |-> "uart_track", uart_track |-> "uart_clean",
                       uart_clean |-> "motion", motion |-> "axis", axis |-> "track",
                       track |-> "cleaner", cleaner |-> "worker"]
           Brings == [boot |-> {}, queue |-> {"queue"}, uart_track |-> {}, uart_clean |-> {},
                      motion |-> {"motion"}, axis |-> {"axis"}, track |-> {"track"},
                      cleaner |-> {"cleaner"}]
<1>1. /\ UNCHANGED <<thread, pc, booting>>
      /\ registered' \subseteq Encoders /\ uarts' \subseteq Cameras
      /\ \E p \in Places :
           /\ main[1] = p
           /\ \/ main' = <<Follows[p]>> /\ up' = up \cup Brings[p]
              \/ main' = <<"failed">> /\ up' = up
  <2> USE DEF BootInv, BootTypeOK, Encoders, Cameras, Step, Fail, vars
  <2>1. CASE RegisterEncoders BY <2>1 DEF RegisterEncoders
  <2>2. CASE CreateQueue BY <2>2 DEF CreateQueue
  <2>3. CASE OpenTrackUart
    <3>1. up' = up \cup Brings["uart_track"] /\ uarts' \subseteq Cameras
      BY <2>3 DEF OpenTrackUart
    <3> QED BY <2>3, <3>1 DEF OpenTrackUart
  <2>4. CASE OpenCleanUart
    <3>1. up' = up \cup Brings["uart_clean"] /\ uarts' \subseteq Cameras
      BY <2>4 DEF OpenCleanUart
    <3> QED BY <2>4, <3>1 DEF OpenCleanUart
  <2>5. CASE MotionInit BY <2>5 DEF MotionInit
  <2>6. CASE AxisInit BY <2>6 DEF AxisInit
  <2>7. CASE TrackInit BY <2>7 DEF TrackInit
  <2>8. CASE CleanerInit BY <2>8 DEF CleanerInit
  <2> QED BY <2>1, <2>2, <2>3, <2>4, <2>5, <2>6, <2>7, <2>8
<1>2. PICK p \in Places :
        /\ main[1] = p
        /\ \/ main' = <<Follows[p]>> /\ up' = up \cup Brings[p]
           \/ main' = <<"failed">> /\ up' = up
  BY <1>1
<1>3. main'[1] \in {Follows[p], "failed"} BY <1>2
<1>4. BootTypeOK'
  <2>1. Brings[p] \subseteq Components BY DEF Components
  <2>2. up \subseteq Components BY DEF BootInv, BootTypeOK
  <2>3. up' \subseteq Components BY <1>2, <2>1, <2>2
  <2> QED BY <1>1, <1>3, <2>3 DEF BootInv, BootTypeOK
<1>5. Brought' BY <1>2, <1>3 DEF BootInv, Brought, Early
<1>6. /\ \A t \in AppThreads : thread'[t] = "none"
      /\ thread'["worker"] # "running" /\ thread'["guard"] # "running"
  BY <1>1, <1>2 DEF BootInv, RunsOn, AppPlaces, Early
<1>7. RunsOn' BY <1>1, <1>6 DEF BootInv, RunsOn
<1>8. AppPlaces' BY <1>3, <1>6, OrderIs DEF AppPlaces
<1> QED BY <1>4, <1>5, <1>7, <1>8 DEF BootInv

\* The worker is started when the outputs are safe, or the cleaner is down again.
LEMMA WorkerStep ==
  ASSUME BootInv, CleanerWorker
  PROVE  BootInv'
<1>1. /\ UNCHANGED <<pc, booting, registered, uarts>> /\ main[1] = "worker"
      /\ \/ /\ main' = <<"guard">> /\ up' = up
            /\ thread' = [thread EXCEPT !["worker"] = "running"]
         \/ main' = <<"failed">> /\ up' = up \ {"cleaner"} /\ thread' = thread
  BY DEF CleanerWorker, Step, Fail, vars
<1>2. thread \in [Threads -> {"none", "created", "running", "deleted"}]
  BY DEF BootInv, BootTypeOK
<1>3. /\ thread' \in [Threads -> {"none", "created", "running", "deleted"}]
      /\ thread'["guard"] = thread["guard"]
      /\ \A t \in AppThreads : thread'[t] = thread[t]
  BY <1>1, <1>2, OrderIs
<1>4. main'[1] \in {"guard", "failed"} BY <1>1
<1>5. BootTypeOK' BY <1>1, <1>3, <1>4 DEF BootInv, BootTypeOK
<1>6. Brought' BY <1>1, <1>4 DEF BootInv, Brought, Early
<1>7. thread["worker"] # "running" /\ thread["guard"] # "running"
  BY <1>1 DEF BootInv, RunsOn, Early
<1>8. {"axis", "cleaner"} \subseteq up BY <1>1 DEF BootInv, Brought, Early
<1>9. RunsOn' BY <1>1, <1>3, <1>4, <1>7, <1>8 DEF BootInv, RunsOn, Early
<1>10. AppPlaces' BY <1>1, <1>3, <1>4, OrderIs DEF BootInv, AppPlaces, Early
<1> QED BY <1>5, <1>6, <1>9, <1>10 DEF BootInv

\* Once the guard samples in its thread it goes on: only its initialisation can fail.
LEMMA GuardMoves ==
  ASSUME TypeOK, ~booting => pc \in Loop, GuardStep \/ Trouble
  PROVE  /\ ~booting => ~booting'
         /\ ~booting' => pc' \in Loop
         /\ ~booting => pc' # "failed"
<1> USE DEF TypeOK, DataOK, Loop, AfterInit, Calibration, NoDistance, Distance, SampleEnds
<1>1. CASE InitTransfers BY <1>1 DEF InitTransfers
<1>2. CASE CalibrationStart BY <1>2 DEF CalibrationStart
<1>3. CASE CalibrationDone BY <1>3 DEF CalibrationDone
<1>4. CASE CalibrationClear BY <1>4 DEF CalibrationClear
<1>5. CASE ThreadStarts BY <1>5 DEF ThreadStarts
<1>6. CASE SampleStart BY <1>6 DEF SampleStart
<1>7. CASE StartSeen BY <1>7 DEF StartSeen
<1>8. CASE IntSeen BY <1>8 DEF IntSeen
<1>9. CASE ReadRange BY <1>9 DEF ReadRange
<1>10. CASE ClearOk BY <1>10 DEF ClearOk
<1>11. CASE InitFails BY <1>11 DEF InitFails
<1>12. CASE SampleStartFails BY <1>12 DEF SampleStartFails
<1>13. CASE SampleFails BY <1>13 DEF SampleFails
<1>14. CASE ClearFails BY <1>14 DEF ClearFails
<1> QED BY <1>1, <1>2, <1>3, <1>4, <1>5, <1>6, <1>7, <1>8, <1>9, <1>10, <1>11, <1>12,
           <1>13, <1>14 DEF GuardStep, Trouble

\* The guard in main, and later in its thread.
LEMMA GuardGoesOnStep ==
  ASSUME BootInv, TypeOK, GuardGoesOn
  PROVE  BootInv'
<1>1. /\ UNCHANGED <<registered, uarts>>
      /\ main = <<"guard">> \/ thread["guard"] = "running"
      /\ main' = IF GuardThreadStarted THEN <<"create", 1>>
                 ELSE IF pc' = "failed" THEN <<"failed">> ELSE main
      /\ thread' = IF GuardThreadStarted THEN [thread EXCEPT !["guard"] = "running"]
                                         ELSE thread
      /\ up' = IF GuardThreadStarted THEN up \cup {"guard"} ELSE up
  BY DEF GuardGoesOn, GuardRuns
<1>2. /\ ~booting => ~booting'
      /\ ~booting' => pc' \in Loop
      /\ ~booting => pc' # "failed"
  BY GuardMoves DEF GuardGoesOn, BootInv, RunsOn
<1>3. thread \in [Threads -> {"none", "created", "running", "deleted"}]
  BY DEF BootInv, BootTypeOK
<1>4. CASE GuardThreadStarted
  <2>1. main[1] = "guard" /\ ~booting' BY <1>4 DEF GuardThreadStarted
  <2>2. main' = <<"create", 1>> /\ main'[1] = "create" /\ main'[2] = 1 BY <1>1, <1>4
  <2>3. up' = up \cup {"guard"} BY <1>1, <1>4
  <2>4. /\ thread' \in [Threads -> {"none", "created", "running", "deleted"}]
        /\ thread'["worker"] = thread["worker"]
        /\ \A t \in AppThreads : thread'[t] = thread[t]
    BY <1>1, <1>3, <1>4, OrderIs
  <2>5. BootTypeOK'
    <3>1. up' \subseteq Components BY <2>3 DEF BootInv, BootTypeOK, Components
    <3> QED BY <1>1, <2>2, <2>4, <3>1, OrderIs DEF BootInv, BootTypeOK
  <2>6. Brought' BY <2>1, <2>2, <2>3 DEF BootInv, Brought, Early
  <2>7. {"axis", "cleaner"} \subseteq up BY <2>1 DEF BootInv, Brought, Early
  <2>8. RunsOn' BY <1>2, <2>1, <2>2, <2>3, <2>4, <2>7 DEF BootInv, RunsOn, Early
  <2>9. AppPlaces' BY <2>1, <2>2, <2>4 DEF BootInv, AppPlaces, Early
  <2> QED BY <2>5, <2>6, <2>8, <2>9 DEF BootInv
<1>5. CASE ~GuardThreadStarted
  <2>1. UNCHANGED <<thread, up>> BY <1>1, <1>5
  <2>2. CASE pc' = "failed"
    <3>1. booting /\ main[1] = "guard" BY <1>1, <1>2, <2>2 DEF BootInv, RunsOn
    <3>2. main' = <<"failed">> /\ main'[1] = "failed" BY <1>1, <1>5, <2>2
    <3>3. BootTypeOK' BY <1>1, <2>1, <3>2 DEF BootInv, BootTypeOK
    <3>4. Brought' BY <3>2 DEF Brought
    <3>5. RunsOn' BY <1>2, <2>1, <2>2, <3>1, <3>2 DEF BootInv, RunsOn, Early, Loop
    <3>6. AppPlaces' BY <2>1, <3>1, <3>2 DEF BootInv, AppPlaces, Early
    <3> QED BY <3>3, <3>4, <3>5, <3>6 DEF BootInv
  <2>3. CASE pc' # "failed"
    <3>1. main' = main BY <1>1, <1>5, <2>3
    <3>2. BootTypeOK' BY <1>1, <2>1, <3>1 DEF BootInv, BootTypeOK
    <3>3. Brought' BY <2>1, <3>1 DEF BootInv, Brought
    <3>4. booting' => thread["guard"] # "running" BY <1>2 DEF BootInv, RunsOn
    <3>5. RunsOn' BY <1>2, <2>1, <3>1, <3>4 DEF BootInv, RunsOn
    <3>6. AppPlaces' BY <2>1, <3>1 DEF BootInv, AppPlaces
    <3> QED BY <3>2, <3>3, <3>5, <3>6 DEF BootInv
  <2> QED BY <2>2, <2>3
<1> QED BY <1>4, <1>5

\* All threads are there, or what is there is deleted.
LEMMA CheckStep ==
  ASSUME BootInv, Check
  PROVE  BootInv'
<1>1. UNCHANGED <<registered, up, uarts, thread, pc, booting>> /\ main[1] = "check"
  BY DEF Check, bootVars, vars
<1>2. main' = <<"start", 1>> \/ main' = <<"delete", 1>> BY DEF Check
<1>3. main'[1] \in {"start", "delete"} /\ main'[2] = 1 BY <1>2
<1>4. BootTypeOK' BY <1>1, <1>3, OrderIs DEF BootInv, BootTypeOK
<1>5. Brought' BY <1>1, <1>3 DEF BootInv, Brought, Early
<1>6. RunsOn' BY <1>1, <1>3 DEF BootInv, RunsOn, Early
<1>7. AppPlaces' BY <1>1, <1>3, OrderIs DEF BootInv, AppPlaces, Early
<1> QED BY <1>4, <1>5, <1>6, <1>7 DEF BootInv

\* One thread is created, deleted or started; the worker and the guard are left alone.
LEMMA ThreadsStep ==
  ASSUME BootInv, NEW i \in 1 .. Len(AppOrder), Create(i) \/ Delete(i) \/ Start(i)
  PROVE  BootInv'
<1> DEFINE States == {"none", "created", "running", "deleted"}
<1>1. thread \in [Threads -> States] BY DEF BootInv, BootTypeOK
<1>2. i \in 1 .. 5 /\ AppOrder[i] \in AppThreads /\ AppOrder[i] \in Threads BY OrderIs
<1>3. UNCHANGED <<registered, uarts, pc, booting>>
  BY DEF Create, Delete, Start, vars
<1>4. \E x \in States : thread' = [thread EXCEPT ![AppOrder[i]] = x]
  <2>1. CASE Create(i)
    <3>1. CASE UNCHANGED thread
      <4>1. thread' = [thread EXCEPT ![AppOrder[i]] = thread[AppOrder[i]]] BY <1>1, <3>1
      <4> QED BY <1>1, <1>2, <4>1
    <3> QED BY <2>1, <3>1 DEF Create
  <2>2. CASE Delete(i)
    BY <1>1, <1>2, <2>2 DEF Delete
  <2>3. CASE Start(i) BY <2>3 DEF Start
  <2> QED BY <2>1, <2>2, <2>3
<1>5. /\ thread' \in [Threads -> States]
      /\ thread'["worker"] = thread["worker"] /\ thread'["guard"] = thread["guard"]
      /\ \A t \in AppThreads : t # AppOrder[i] => thread'[t] = thread[t]
  BY <1>1, <1>2, <1>4, OrderIs
<1>6. CASE Create(i)
  <2>1. main[1] = "create" /\ UNCHANGED up BY <1>6 DEF Create
  <2>2. main' = IF i = 5 THEN <<"check">> ELSE <<"create", i + 1>> BY <1>6, OrderIs DEF Create
  <2>3. main'[1] \in {"create", "check"} /\ (main'[1] = "create" => main'[2] \in 1 .. 5)
    BY <1>2, <2>2
  <2>4. thread'[AppOrder[i]] \in {"none", "created"}
    BY <1>1, <1>2, <1>6, <2>1 DEF Create, BootInv, AppPlaces
  <2>5. BootTypeOK' BY <1>3, <1>5, <2>1, <2>3, OrderIs DEF BootInv, BootTypeOK
  <2>6. Brought' BY <2>1, <2>3 DEF BootInv, Brought, Early
  <2>7. RunsOn' BY <1>3, <1>5, <2>1, <2>3 DEF BootInv, RunsOn, Early
  <2>8. AppPlaces' BY <1>5, <2>1, <2>3, <2>4 DEF BootInv, AppPlaces, Early
  <2> QED BY <2>5, <2>6, <2>7, <2>8 DEF BootInv
<1>7. CASE Delete(i)
  <2>1. main[1] = "delete" /\ main[2] = i /\ UNCHANGED up BY <1>7 DEF Delete
  <2>2. main' = IF i = 5 THEN <<"failed">> ELSE <<"delete", i + 1>> BY <1>7, OrderIs DEF Delete
  <2>3. /\ main'[1] \in {"delete", "failed"}
        /\ main'[1] = "delete" => main'[2] = i + 1 /\ i < 5
        /\ main'[1] = "failed" => i = 5
    BY <1>2, <2>2
  <2>4. thread'[AppOrder[i]] \in {"none", "deleted"}
    <3>1. thread[AppOrder[i]] \in {"none", "created", "deleted"}
      BY <1>2, <2>1, OrderIs DEF BootInv, AppPlaces
    <3> QED BY <1>1, <1>2, <1>7, <3>1 DEF Delete
  <2>5. \A j \in 1 .. 5 : /\ thread'[AppOrder[j]] \in {"none", "created", "deleted"}
                          /\ j < i + 1 => thread'[AppOrder[j]] # "created"
    <3> SUFFICES ASSUME NEW j \in 1 .. 5
                 PROVE  /\ thread'[AppOrder[j]] \in {"none", "created", "deleted"}
                        /\ j < i + 1 => thread'[AppOrder[j]] # "created"
      OBVIOUS
    <3>1. /\ thread[AppOrder[j]] \in {"none", "created", "deleted"}
          /\ j < i => thread[AppOrder[j]] # "created"
      BY <2>1, OrderIs DEF BootInv, AppPlaces
    <3>2. CASE j = i BY <2>4, <3>2
    <3>3. CASE j # i
      <4>1. thread'[AppOrder[j]] = thread[AppOrder[j]] BY <1>2, <1>5, <3>3, OrderIs
      <4>2. j < i + 1 => j < i BY <1>2, <3>3
      <4> QED BY <3>1, <4>1, <4>2
    <3> QED BY <3>2, <3>3
  <2>6. BootTypeOK'
    <3>1. main'[1] = "delete" => main'[2] \in 1 .. Len(AppOrder) BY <1>2, <2>3, OrderIs
    <3> QED BY <1>3, <1>5, <2>1, <2>3, <3>1 DEF BootInv, BootTypeOK
  <2>7. Brought' BY <2>1, <2>3 DEF BootInv, Brought, Early
  <2>8. RunsOn' BY <1>3, <1>5, <2>1, <2>3 DEF BootInv, RunsOn, Early
  <2>9. AppPlaces'
    <3>1. CASE main'[1] = "delete" BY <2>3, <2>5, <3>1, OrderIs DEF AppPlaces, Early
    <3>2. CASE main'[1] = "failed"
      <4>1. \A j \in 1 .. 5 : thread'[AppOrder[j]] \in {"none", "deleted"}
        BY <2>3, <2>5, <3>2
      <4>2. \A t \in AppThreads : thread'[t] \in {"none", "deleted"} BY <4>1, OrderIs
      <4> QED BY <3>2, <4>2 DEF AppPlaces, Early
    <3> QED BY <2>3, <3>1, <3>2
  <2> QED BY <2>6, <2>7, <2>8, <2>9 DEF BootInv
<1>8. CASE Start(i)
  <2>1. main[1] = "start" BY <1>8 DEF Start
  <2>2. main' = IF i = 5 THEN <<"done">> ELSE <<"start", i + 1>> BY <1>8, OrderIs DEF Start
  <2>3. main'[1] \in {"start", "done"} /\ (main'[1] = "start" => main'[2] \in 1 .. 5)
    BY <1>2, <2>2
  <2>4. up' = up \/ up' = up \cup {"app"} BY <1>8 DEF Start
  <2>5. BootTypeOK'
    <3>1. up' \subseteq Components BY <2>4 DEF BootInv, BootTypeOK, Components
    <3> QED BY <1>3, <1>5, <2>3, <3>1, OrderIs DEF BootInv, BootTypeOK
  <2>6. Brought' BY <2>1, <2>3, <2>4 DEF BootInv, Brought, Early
  <2>7. RunsOn' BY <1>3, <1>5, <2>1, <2>3, <2>4 DEF BootInv, RunsOn, Early
  <2>8. AppPlaces' BY <2>3 DEF AppPlaces, Early
  <2> QED BY <2>5, <2>6, <2>7, <2>8 DEF BootInv
<1> QED BY <1>6, <1>7, <1>8

\* Every step of main, of the guard and of the sensor keeps the invariant.
LEMMA BootInvNext == BootInv /\ TypeOK /\ [BootNext]_allVars => BootInv'
<1> SUFFICES ASSUME BootInv, TypeOK, [BootNext]_allVars PROVE BootInv' OBVIOUS
<1>1. CASE MainStep
  BY <1>1, ComponentsStep, WorkerStep, CheckStep, ThreadsStep DEF MainStep
<1>2. CASE GuardGoesOn BY <1>2, GuardGoesOnStep
<1>3. CASE Sensor \/ UNCHANGED allVars
  <2>1. UNCHANGED <<main, registered, up, uarts, thread, pc, booting>>
    BY <1>3 DEF Sensor, SensorBegin, SensorFinish, bootVars, allVars, vars
  <2> QED BY <2>1 DEF BootInv, BootTypeOK, Brought, RunsOn, AppPlaces
<1> QED BY <1>1, <1>2, <1>3 DEF BootNext

\* The invariant of start-up holds, whatever step of it fails.
THEOREM BootInvariance == BootSpec => []BootInv
<1>1. BootSpec => []TypeOK
  <2>1. GuardInv => TypeOK BY DEF GuardInv
  <2> QED BY <2>1, GuardInvariance, PTL
<1> QED BY <1>1, BootInvInit, BootInvNext, PTL DEF BootSpec

\* No thread finds a component it calls uninitialised, during start-up and after it,
\* also when start-up has failed and the worker and the guard run on.
THEOREM NoLazyInitHolds == BootSpec => []NoLazyInit
<1>1. BootInv /\ GuardInv => NoLazyInit
  <2> SUFFICES ASSUME BootInv, GuardInv PROVE NoLazyInit OBVIOUS
  <2>1. BootTypeOK /\ TypeOK BY DEF BootInv, GuardInv
  <2>2. ASSUME NEW t \in Threads, thread[t] = "running" PROVE Needs(t) \subseteq up
    <3>1. CASE t \in {"worker", "guard"} BY <2>2, <3>1, NeedsIs DEF BootInv, RunsOn
    <3>2. CASE t \in AppThreads
      <4>1. PICK j \in 1 .. 5 : t = AppOrder[j] BY <3>2, OrderIs
      <4>2. main[1] \in {"start", "done"}
        BY <2>1, <2>2, <3>2, <4>1, OrderIs DEF BootInv, BootTypeOK, AppPlaces, Early
      <4>3. {"queue", "motion", "axis", "track", "cleaner"} \subseteq up
        BY <4>2 DEF BootInv, Brought, Early
      <4> QED BY <3>2, <4>3, NeedsIs
    <3> QED BY <3>1, <3>2 DEF Threads
  <2> QED BY <2>1, <2>2 DEF NoLazyInit
<1> QED BY <1>1, BootInvariance, GuardInvariance, PTL

\* A start-up that fails leaves none of the application's threads behind.
THEOREM FailedIsQuietHolds == BootSpec => []FailedIsQuiet
<1>1. BootInv => FailedIsQuiet
  <2> SUFFICES ASSUME BootInv, main = <<"failed">>
               PROVE  \A t \in AppThreads : thread[t] \in {"none", "deleted"}
    BY DEF FailedIsQuiet
  <2>1. main[1] = "failed" OBVIOUS
  <2> QED BY <2>1 DEF BootInv, AppPlaces
<1> QED BY <1>1, BootInvariance, PTL
=============================================================================
