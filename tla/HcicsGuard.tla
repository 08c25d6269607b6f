----------------------------- MODULE HcicsGuard -----------------------------
(***************************************************************************)
(* hcics_guard.c: start-up of the VL53L0X distance sensor and the sampling  *)
(* loop of the guard thread, down to the I2C transfers, of which each may   *)
(* fail, with or without effect on the sensor, and each wait may time out.  *)
(*                                                                         *)
(* The sensor is external and modelled from its use: a measurement begins   *)
(* some time after bit 0 of SYSRANGE_START is set, which clears the bit; at *)
(* its end the result register is replaced and the interrupt status set;    *)
(* the status stays until it is cleared, and nothing else clears it.        *)
(*                                                                         *)
(* A measurement is "now" if it began during the current sample and "old"   *)
(* afterwards.  The program has no such mark.                               *)
(***************************************************************************)
EXTENDS Naturals

CONSTANT MaxReadErrors   \* HCICS_GUARD_MAX_READ_ERRORS

ASSUME GuardAssumption == MaxReadErrors \in Nat \ {0}

VARIABLES
  pc, booting,       \* place; still in hcics_guard_init
  read_errors,       \* g_guard.read_errors
  start,             \* sensor: bit 0 of SYSRANGE_START
  running,           \* sensor: the measurement in progress, "none" if there is none
  int_status,        \* sensor: RESULT_INTERRUPT_STATUS
  result,            \* sensor: the result register: m when it was measured, good
                     \* whether it is a distance, used whether it was published
  got,               \* the register as hcics_guard_read_distance read it
  kept,              \* history: the register still holds what was read
  pub,               \* what hcics_guard_publish published last
  blind,             \* history: samples without a distance in a row, capped
  troubled           \* history: a transfer has failed or a wait timed out

sensorVars == <<start, running, int_status, result>>
vars == <<pc, booting, read_errors, sensorVars, got, kept, pub, blind, troubled>>

When == {"none", "old", "now"}
NoResult == [m |-> "none", good |-> FALSE, used |-> FALSE]
NoPub == [kind |-> "none", m |-> "none", again |-> FALSE]

\* The transfers of hcics_guard_sensor_init in their order; each of the two
\* reference calibrations starts a measurement, waits for it and clears up.
AfterInit == [probe |-> "setup", setup |-> "spads", spads |-> "tuning",
              tuning |-> "vhv_start", arm |-> "sample"]
Calibration == [vhv_start |-> "vhv_wait", vhv_wait |-> "vhv_clear",
                vhv_clear |-> "phase_start", phase_start |-> "phase_wait",
                phase_wait |-> "phase_clear", phase_clear |-> "arm"]

\* A measurement from before a reset has ended by now.
Init ==
  /\ pc = "probe" /\ booting = TRUE
  /\ read_errors = 0
  /\ start = FALSE /\ running = "none" /\ int_status \in BOOLEAN
  /\ result = NoResult
  /\ got = NoResult /\ kept = FALSE
  /\ pub = NoPub
  /\ blind = 0 /\ troubled = FALSE

-----------------------------------------------------------------------------
(* The sensor.                                                             *)

\* A measurement begins; one that was in progress is given up.
SensorBegin ==
  /\ start
  /\ start' = FALSE
  /\ running' = "now"
  /\ UNCHANGED <<pc, booting, read_errors, int_status, result, got, kept, pub,
                 blind, troubled>>

SensorFinish ==
  /\ running # "none"
  /\ \E good \in BOOLEAN :
       result' = [m |-> running, good |-> good, used |-> FALSE]
  /\ int_status' = TRUE
  /\ running' = "none"
  /\ kept' = FALSE
  /\ UNCHANGED <<pc, booting, read_errors, start, got, pub, blind, troubled>>

-----------------------------------------------------------------------------
(* Start-up.                                                               *)

\* hcics_guard_init gives up; nothing is tried again.
InitFails ==
  /\ pc \in DOMAIN AfterInit \cup DOMAIN Calibration \cup {"thread"}
  /\ pc' = "failed"
  /\ troubled' = TRUE
  /\ UNCHANGED <<booting, read_errors, sensorVars, got, kept, pub, blind>>

\* Mutant: the interrupt status is not cleared after the tuning.
InitTransfersNotCleared ==
  /\ pc \in DOMAIN AfterInit
  /\ pc' = AfterInit[pc]
  /\ UNCHANGED <<booting, read_errors, sensorVars, got, kept, pub, blind, troubled>>

\* The transfers after the tuning clear the interrupt status, which may be left
\* from before a reset of the processor alone.
InitTransfers ==
  /\ pc \in DOMAIN AfterInit
  /\ pc' = AfterInit[pc]
  /\ int_status' = (int_status /\ pc # "tuning")
  /\ UNCHANGED <<booting, read_errors, start, running, result, got, kept, pub,
                 blind, troubled>>

\* hcics_guard_ref_calibration.
CalibrationStart ==
  /\ pc \in {"vhv_start", "phase_start"}
  /\ start' = TRUE
  /\ pc' = Calibration[pc]
  /\ UNCHANGED <<booting, read_errors, running, int_status, result, got, kept, pub,
                 blind, troubled>>

CalibrationDone ==
  /\ pc \in {"vhv_wait", "phase_wait"}
  /\ int_status
  /\ pc' = Calibration[pc]
  /\ UNCHANGED <<booting, read_errors, sensorVars, got, kept, pub, blind, troubled>>

CalibrationClear ==
  /\ pc \in {"vhv_clear", "phase_clear"}
  /\ int_status' = FALSE
  /\ start' = FALSE
  /\ pc' = Calibration[pc]
  /\ UNCHANGED <<booting, read_errors, running, result, got, kept, pub, blind,
                 troubled>>

\* The guard thread is created and starts to sample.
ThreadStarts ==
  /\ pc = "thread"
  /\ pc' = "sample"
  /\ booting' = FALSE
  /\ UNCHANGED <<read_errors, sensorVars, got, kept, pub, blind, troubled>>

-----------------------------------------------------------------------------
(* hcics_guard_sample_once.                                                *)

\* What was measured before this sample is old.
Aged(m) == IF m = "now" THEN "old" ELSE m

\* The sample ends: init looks at the result of the first one, the thread sleeps
\* and takes the next.
SampleEnds(ok) ==
  /\ pc' = IF ~booting THEN "sample" ELSE IF ok THEN "thread" ELSE "failed"
  /\ got' = NoResult /\ kept' = FALSE

\* Mutant: any successful read resets the error counter.
NoDistanceResets(ok) ==
  /\ read_errors' = IF ok THEN 0
                    ELSE IF read_errors < MaxReadErrors THEN read_errors + 1
                    ELSE MaxReadErrors
  /\ pub' = IF read_errors + 1 >= MaxReadErrors /\ ~ok
              THEN [kind |-> "forced", m |-> "none", again |-> FALSE] ELSE pub
  /\ blind' = IF blind < MaxReadErrors THEN blind + 1 ELSE MaxReadErrors
  /\ SampleEnds(ok)

\* A sample without a distance: count it and, at the limit, publish a forced
\* stop.  The counter saturates at 255; above the limit its value is not used.
NoDistance(ok) ==
  /\ read_errors' = IF read_errors < MaxReadErrors THEN read_errors + 1
                                                   ELSE MaxReadErrors
  /\ pub' = IF read_errors + 1 >= MaxReadErrors
              THEN [kind |-> "forced", m |-> "none", again |-> FALSE] ELSE pub
  /\ blind' = IF blind < MaxReadErrors THEN blind + 1 ELSE MaxReadErrors
  /\ SampleEnds(ok)

\* A sample with a distance is published under the current time.
Distance ==
  /\ read_errors' = 0
  /\ pub' = [kind |-> "valid", m |-> got.m, again |-> got.used]
  /\ blind' = 0
  /\ SampleEnds(TRUE)

\* Mutant: the sample waits for a measurement it has not started.
SampleStartNot ==
  /\ pc = "sample"
  /\ pc' = "wait_start"
  /\ running' = Aged(running)
  /\ result' = [result EXCEPT !.m = Aged(@)]
  /\ UNCHANGED <<booting, read_errors, start, int_status, got, kept, pub, blind,
                 troubled>>

\* The preparing transfers and the start bit succeed.
SampleStart ==
  /\ pc = "sample"
  /\ pc' = "wait_start"
  /\ start' = TRUE
  /\ running' = Aged(running)
  /\ result' = [result EXCEPT !.m = Aged(@)]
  /\ UNCHANGED <<booting, read_errors, int_status, got, kept, pub, blind, troubled>>

\* A transfer fails, the last one perhaps after the bit was set.
SampleStartFails ==
  /\ pc = "sample"
  /\ start' \in {start, TRUE}
  /\ running' = Aged(running)
  /\ result' = [result EXCEPT !.m = Aged(@)]
  /\ troubled' = TRUE
  /\ NoDistance(FALSE)
  /\ UNCHANGED <<booting, int_status>>

\* hcics_guard_wait_reg_bits sees the bit it waits for.
StartSeen ==
  /\ pc = "wait_start" /\ ~start
  /\ pc' = "wait_int"
  /\ UNCHANGED <<booting, read_errors, sensorVars, got, kept, pub, blind, troubled>>

IntSeen ==
  /\ pc = "wait_int" /\ int_status
  /\ pc' = "read"
  /\ UNCHANGED <<booting, read_errors, sensorVars, got, kept, pub, blind, troubled>>

ReadRange ==
  /\ pc = "read"
  /\ got' = result
  /\ kept' = TRUE
  /\ pc' = "clear"
  /\ UNCHANGED <<booting, read_errors, sensorVars, pub, blind, troubled>>

\* A wait times out, or its transfer or that of the range fails.
SampleFails ==
  /\ pc \in {"wait_start", "wait_int", "read"}
  /\ troubled' = TRUE
  /\ NoDistance(FALSE)
  /\ UNCHANGED <<booting, sensorVars>>

\* The status is cleared, and the distance published if it is one.
ClearOk ==
  /\ pc = "clear"
  /\ int_status' = FALSE
  /\ result' = [result EXCEPT !.used = @ \/ (kept /\ got.good)]
  /\ IF got.good THEN Distance ELSE NoDistance(TRUE)
  /\ UNCHANGED <<booting, start, running, troubled>>

\* Mutant: the result of the clearing transfer is not looked at.
ClearFailsUnseen ==
  /\ pc = "clear"
  /\ int_status' \in {int_status, FALSE}
  /\ troubled' = TRUE
  /\ result' = [result EXCEPT !.used = @ \/ (kept /\ got.good)]
  /\ IF got.good THEN Distance ELSE NoDistance(TRUE)
  /\ UNCHANGED <<booting, start, running>>

\* The clearing transfer fails: the sample counts as failed although its
\* distance was read.
ClearFails ==
  /\ pc = "clear"
  /\ int_status' \in {int_status, FALSE}
  /\ troubled' = TRUE
  /\ NoDistance(FALSE)
  /\ UNCHANGED <<booting, start, running, result>>

-----------------------------------------------------------------------------

GuardStep ==
  \/ InitTransfers \/ CalibrationStart \/ CalibrationDone \/ CalibrationClear
  \/ ThreadStarts \/ SampleStart \/ StartSeen \/ IntSeen \/ ReadRange \/ ClearOk

Trouble == InitFails \/ SampleStartFails \/ SampleFails \/ ClearFails

\* Without a working sensor hcics_app_init fails and the guard never runs.
Halted == pc = "failed" /\ UNCHANGED vars

Next == GuardStep \/ Trouble \/ SensorBegin \/ SensorFinish \/ Halted

Spec == Init /\ [][Next]_vars

-----------------------------------------------------------------------------
(* Properties.                                                             *)

FlagsOK == \A b \in {booting, start, int_status, kept, troubled} : b \in BOOLEAN

DataOK ==
  /\ pc \in DOMAIN AfterInit \cup DOMAIN Calibration
            \cup {"thread", "failed", "sample", "wait_start", "wait_int", "read",
                  "clear"}
  /\ read_errors \in 0 .. MaxReadErrors /\ blind \in 0 .. MaxReadErrors
  /\ running \in When
  /\ result \in [m : When, good : BOOLEAN, used : BOOLEAN]
  /\ got \in [m : When, good : BOOLEAN, used : BOOLEAN]
  /\ pub \in [kind : {"none", "valid", "forced"}, m : When, again : BOOLEAN]

TypeOK == FlagsOK /\ DataOK

\* No measurement is published twice, whatever transfers fail: a distance counts
\* only if the interrupt status was cleared after it was read, so the next one
\* needs another measurement.  Frozen readings cannot pass for new ones.
NeverTwice == ~pub.again

\* The cleaner is not left with an old distance: after MaxReadErrors samples in a
\* row without a distance, for whatever reason, the last publication is the
\* forced stop.
BlindForcesStop ==
  blind >= MaxReadErrors => pub.kind = "forced"

\* As long as no transfer has failed and no wait has timed out, every published
\* distance was measured in the sample that publishes it.
FreshUntilTrouble ==
  pub.kind = "valid" /\ ~troubled => pub.m = "now"

\* If from some time on no transfer fails, no wait times out and the sensor
\* measures distances, the loop turns for ever and the cleaner has a distance for
\* ever: no earlier failure leaves the guard waiting for a bit that does not come
\* or in its forced stop.
SamplesFlow ==
  <>[][~Trouble]_vars /\ <>[](pc # "failed" /\ result.good)
    => []<>(pc = "clear") /\ <>[](pub.kind = "valid" /\ blind = 0)

\* Every published distance was measured in the sample that publishes it: "feeds
\* hcics_cleaner_update_guard() with fresh data".
PublishedIsFresh == pub.kind = "valid" => pub.m = "now"
=============================================================================
