------------------------- MODULE HcicsCleanerProofs -------------------------
(***************************************************************************)
(* Proofs about HcicsCleaner for every extension of the wash pose, every    *)
(* number of cycles and of read errors, and with or without priorities.     *)
(***************************************************************************)
EXTENDS HcicsCleaner, TLAPS

\* busy is set exactly from hcics_cleaner_start to the worker's last update.  The
\* reset that clears it does so only after it has seen the worker done, and between
\* the two nobody but the mission thread itself could start a run.
Ownership ==
  /\ busy <=> (mpc = "releasing" \/ sem = 1 \/ wpc # "wait")
  /\ sem = 1 => wpc = "wait"
  /\ mpc = "releasing" => sem = 0 /\ wpc = "wait" /\ hpc["mission"] = "none"
  /\ hpc["mission"] = "clear" => ~busy
  /\ hpc["mission"] # "none" /\ mnext = "clear" => ~busy

\* A pose that is being set has somewhere to return to.
PoseReturns == wpc \in {"pose", "pwm"} => wret # "none"

\* The places between switching the relay on and switching it off.
RelayPlaces ==
  relay_on => \/ wpc \in {"spray_delay", "spray_sleep", "spray_off", "scrub_loop",
                          "scrub_eval", "scrub_delay", "scrub_sleep", "scrub_off"}
              \/ wpc \in {"pose", "pwm"} /\ wret = "scrub_eval"

\* The closing safe_outputs: the axis is stopped before the pose, and the pose is
\* the safe one.  Nothing moves the axis or the servo out after that.
Closing ==
  /\ wpc \in {"pose", "pwm"} /\ wret = "publish" => axis = "still" /\ wz = 0
  /\ wpc \in {"publish", "wait"} => axis = "still" /\ (z_hw = 0 \/ z_failed)

\* DONE is shown only when the run is over, and the mission starts no other one
\* before it has come home.
DoneIsOver ==
  /\ state = "DONE" => ~busy
  /\ mpc = "home" => ~busy

\* The places between the worker's look at the guard and the sleep after it.
Looked ==
  \/ wpc \in {"extend_eval", "spray_sleep", "scrub_sleep"}
  \/ wpc \in {"pose", "pwm"} /\ wret = "extend_eval"

\* With the priorities, no sample is published between the look and the sleep, since the
\* worker does not sleep in between; the sample can only grow old.
LookHolds ==
  Looked => /\ ~wsleep
            /\ seen \in GuardLevel
            /\ ~CallsForRetract(seen, wpc \in {"spray_sleep", "scrub_sleep"})
            /\ guard \in {seen, "stale"}

\* The pump is off, or about to be switched off, already between the look at the stop request
\* and the sleep after it.
PumpOffInDelay ==
  stop_requested /\ relay_on /\ (wsleep \/ wpc \in {"spray_sleep", "scrub_sleep"})
    => \E t \in Callers : hpc[t] = "relay"

IInv ==
  /\ DataOK /\ Ownership /\ PoseReturns /\ RelayPlaces /\ Closing /\ DoneIsOver
  /\ PumpOffInDelay
-----------------------------------------------------------------------------
(* One lemma per part of the invariant.                                    *)

\* The flags stay Boolean.
LEMMA FlagsStep ==
  ASSUME FlagsOK, [Next]_vars
  PROVE  FlagsOK'
<1> USE DEF FlagsOK, flagVars, outVars, guardVars, workVars, callVars,
       LocalStep
<1>1. CASE WSemTake
  BY Zenon, <1>1 DEF WSemTake
<1>2. CASE WSafeRelay
  BY Zenon, <1>2 DEF WSafeRelay
<1>3. CASE WSafeAxis
  BY Zenon, <1>3 DEF WSafeAxis
<1>4. CASE WPose
  BY Zenon, <1>4 DEF WPose
<1>5. CASE WPwmOk
  BY Zenon, <1>5 DEF WPwmOk
<1>6. CASE WPwmFail
  BY Zenon, <1>6 DEF WPwmFail
<1>7. CASE WCycle
  BY Zenon, <1>7 DEF WCycle
<1>8. CASE WWaitStain
  BY Zenon, <1>8 DEF WWaitStain
<1>9. CASE WAim
  BY Zenon, <1>9 DEF WAim
<1>10. CASE WAimAxis
  BY Zenon, <1>10 DEF WAimAxis
<1>11. CASE WAimPoll
  BY Zenon, <1>11 DEF WAimPoll
<1>12. CASE WExtend
  BY Zenon, <1>12 DEF WExtend
<1>13. CASE WExtendEval
  BY Zenon, <1>13 DEF WExtendEval
<1>14. CASE WSpray
  BY Zenon, <1>14 DEF WSpray
<1>15. CASE WSprayDelay
  BY Zenon, <1>15 DEF WSprayDelay
<1>16. CASE WSprayOff
  BY Zenon, <1>16 DEF WSprayOff
<1>17. CASE WScrub
  BY Zenon, <1>17 DEF WScrub
<1>18. CASE WScrubLoop
  BY Zenon, <1>18 DEF WScrubLoop
<1>19. CASE WScrubEval
  BY Zenon, <1>19 DEF WScrubEval
<1>20. CASE WScrubDelay
  BY Zenon, <1>20 DEF WScrubDelay
<1>21. CASE WScrubOff
  BY Zenon, <1>21 DEF WScrubOff
<1>22. CASE WRetract
  BY Zenon, <1>22 DEF WRetract
<1>23. CASE WRetractAxis
  BY Zenon, <1>23 DEF WRetractAxis
<1>24. CASE WRetractLoop
  BY Zenon, <1>24 DEF WRetractLoop
<1>25. CASE WRetractSleep
  BY Zenon, <1>25 DEF WRetractSleep
<1>26. CASE WRetractDelay
  BY Zenon, <1>26 DEF WRetractDelay
<1>27. CASE WRetractRet
  BY Zenon, <1>27 DEF WRetractRet
<1>28. CASE WVerify
  BY Zenon, <1>28 DEF WVerify
<1>29. CASE WResult
  BY Zenon, <1>29 DEF WResult
<1>30. CASE WFinish
  BY Zenon, <1>30 DEF WFinish
<1>31. CASE WPublish
  BY Zenon, <1>31 DEF WPublish
<1>32. CASE WWake
  BY Zenon, <1>32 DEF WWake
<1>33. CASE MStart
  BY Zenon, <1>33 DEF MStart
<1>34. CASE MSkipCleaning
  BY Zenon, <1>34 DEF MSkipCleaning
<1>35. CASE MPollStatus
  BY Zenon, <1>35 DEF MPollStatus
<1>36. CASE MReturned
  BY Zenon, <1>36 DEF MReturned
<1>37. CASE MEmergencyStop
  BY Zenon, <1>37 DEF MEmergencyStop
<1>38. CASE UdpEmergencyStop
  BY Zenon, <1>38 DEF UdpEmergencyStop
<1>39. CASE MReset
  BY Zenon, <1>39 DEF MReset
<1>40. CASE MResetWaited
  BY Zenon, <1>40 DEF MResetWaited
<1>41. CASE MResetTimeout
  BY Zenon, <1>41 DEF MResetTimeout
<1>42. CASE MResetClear
  BY Zenon, <1>42 DEF MResetClear
<1>43. ASSUME NEW t \in Callers, HRelay(t)
      PROVE  FlagsOK'
  BY Zenon, <1>43 DEF HRelay
<1>44. ASSUME NEW t \in Callers, HAxis(t)
      PROVE  FlagsOK'
  BY Zenon, <1>44 DEF HAxis
<1>45. ASSUME NEW t \in Callers, HPose(t)
      PROVE  FlagsOK'
  BY Zenon, <1>45 DEF HPose
<1>46. ASSUME NEW t \in Callers, HPwm(t)
      PROVE  FlagsOK'
  BY Zenon, <1>46 DEF HPwm
<1>47. CASE GuardSampleOk
  BY Zenon, <1>47 DEF GuardSampleOk
<1>48. CASE GuardSampleError
  BY Zenon, <1>48 DEF GuardSampleError
<1>49. CASE GuardForceStop
  BY Zenon, <1>49 DEF GuardForceStop
<1>50. CASE GuardAges
  BY Zenon, <1>50 DEF GuardAges
<1>51. CASE UNCHANGED vars
  BY Zenon, <1>51 DEF vars
<1>52. CASE WDelaySleep
  BY Zenon, <1>52 DEF WDelaySleep
<1>53. CASE MRelease
  BY Zenon, <1>53 DEF MRelease
<1>54. CASE MReleaseFails
  BY Zenon, <1>54 DEF MReleaseFails
<1>55. CASE MReleaseFailed
  BY Zenon, <1>55 DEF MReleaseFailed
<1> QED
  BY <1>1, <1>2, <1>3, <1>4, <1>5, <1>6, <1>7, <1>8, <1>9, <1>10, <1>11,
     <1>12, <1>13, <1>14, <1>15, <1>16, <1>17, <1>18, <1>19, <1>20, <1>21,
     <1>22, <1>23, <1>24, <1>25, <1>26, <1>27, <1>28, <1>29, <1>30, <1>31,
     <1>32, <1>33, <1>34, <1>35, <1>36, <1>37, <1>38, <1>39, <1>40, <1>41,
     <1>42, <1>43, <1>44, <1>45, <1>46, <1>47, <1>48, <1>49, <1>50, <1>51,
     <1>52, <1>53, <1>54, <1>55
     DEF Next, WorkerStep, CallStep, GuardStep

\* The other variables keep their types; in particular one start is never given twice.
LEMMA DataStep ==
  ASSUME DataOK, PoseReturns, Ownership, [Next]_vars
  PROVE  DataOK'
<1> USE CleanerAssumption DEF DataOK, Ownership, Terminal, GuardLevel, Callers, PoseReturns, Extend,
       Retract, AfterPoseError, At, Goto, CallPose, Leave, PoseDone, LocalStep, SetHpc, AfterReset,
       GuardIdle, flagVars, outVars, guardVars, workVars, callVars
<1>1. CASE WSemTake
  BY <1>1 DEF WSemTake
<1>2. CASE WSafeRelay
  BY <1>2 DEF WSafeRelay
<1>3. CASE WSafeAxis
  BY <1>3 DEF WSafeAxis
<1>4. CASE WPose
  BY <1>4 DEF WPose
<1>5. CASE WPwmOk
  BY <1>5 DEF WPwmOk
<1>6. CASE WPwmFail
  BY <1>6 DEF WPwmFail
<1>7. CASE WCycle
  BY <1>7 DEF WCycle
<1>8. CASE WWaitStain
  BY <1>8 DEF WWaitStain
<1>9. CASE WAim
  BY <1>9 DEF WAim
<1>10. CASE WAimAxis
  BY <1>10 DEF WAimAxis
<1>11. CASE WAimPoll
  BY <1>11 DEF WAimPoll
<1>12. CASE WExtend
  BY <1>12 DEF WExtend, ForcesRetract, CallsForRetract
<1>13. CASE WExtendEval
  <2>1. /\ state' \in {state, "SPRAYING"}
        /\ wpc' \in {"spray", "result", "extend"}
        /\ wz' \in {wz, 0}
        /\ wres' \in {wres, "FAIL"}
    BY <1>13, Zenon DEF WExtendEval
  <2> QED
    BY <1>13, <2>1 DEF WExtendEval
<1>14. CASE WSpray
  BY <1>14 DEF WSpray, ForcesRetract, CallsForRetract
<1>15. CASE WSprayDelay
  BY <1>15 DEF WSprayDelay, ForcesRetract, CallsForRetract
<1>16. CASE WSprayOff
  BY <1>16 DEF WSprayOff, ForcesRetract, CallsForRetract
<1>17. CASE WScrub
  BY <1>17 DEF WScrub
<1>18. CASE WScrubLoop
  BY <1>18 DEF WScrubLoop, ForcesRetract, CallsForRetract
<1>19. CASE WScrubEval
  BY <1>19 DEF WScrubEval
<1>20. CASE WScrubDelay
  BY <1>20 DEF WScrubDelay, ForcesRetract, CallsForRetract
<1>21. CASE WScrubOff
  BY <1>21 DEF WScrubOff
<1>22. CASE WRetract
  BY <1>22 DEF WRetract
<1>23. CASE WRetractAxis
  BY <1>23 DEF WRetractAxis
<1>24. CASE WRetractLoop
  BY <1>24 DEF WRetractLoop
<1>25. CASE WRetractSleep
  BY <1>25 DEF WRetractSleep
<1>26. CASE WRetractDelay
  BY <1>26 DEF WRetractDelay
<1>27. CASE WRetractRet
  BY <1>27 DEF WRetractRet
<1>28. CASE WVerify
  BY <1>28 DEF WVerify, ForcesRetract, CallsForRetract
<1>29. CASE WResult
  BY <1>29 DEF WResult
<1>30. CASE WFinish
  BY <1>30 DEF WFinish
<1>31. CASE WPublish
  BY <1>31 DEF WPublish
<1>32. CASE WWake
  BY <1>32 DEF WWake
<1>33. CASE MStart
  BY <1>33 DEF MStart
<1>34. CASE MSkipCleaning
  BY <1>34 DEF MSkipCleaning
<1>35. CASE MPollStatus
  BY <1>35 DEF MPollStatus
<1>36. CASE MReturned
  BY <1>36 DEF MReturned
<1>37. CASE MEmergencyStop
  BY <1>37 DEF MEmergencyStop
<1>38. CASE UdpEmergencyStop
  BY <1>38 DEF UdpEmergencyStop
<1>39. CASE MReset
  BY <1>39 DEF MReset
<1>40. CASE MResetWaited
  BY <1>40 DEF MResetWaited
<1>41. CASE MResetTimeout
  BY <1>41 DEF MResetTimeout
<1>42. CASE MResetClear
  BY <1>42 DEF MResetClear
<1>43. ASSUME NEW t \in Callers, HRelay(t)
      PROVE  DataOK'
  BY <1>43 DEF HRelay
<1>44. ASSUME NEW t \in Callers, HAxis(t)
      PROVE  DataOK'
  BY <1>44 DEF HAxis
<1>45. ASSUME NEW t \in Callers, HPose(t)
      PROVE  DataOK'
  BY <1>45 DEF HPose
<1>46. ASSUME NEW t \in Callers, HPwm(t)
      PROVE  DataOK'
  BY <1>46 DEF HPwm
<1>47. CASE GuardSampleOk
  BY <1>47 DEF GuardSampleOk
<1>48. CASE GuardSampleError
  BY <1>48 DEF GuardSampleError
<1>49. CASE GuardForceStop
  BY <1>49 DEF GuardForceStop
<1>50. CASE GuardAges
  BY <1>50 DEF GuardAges
<1>51. CASE UNCHANGED vars
  BY <1>51 DEF vars
<1>52. CASE WDelaySleep
  BY <1>52 DEF WDelaySleep
<1>53. CASE MRelease
  BY <1>53 DEF MRelease
<1>54. CASE MReleaseFails
  BY <1>54 DEF MReleaseFails
<1>55. CASE MReleaseFailed
  BY <1>55 DEF MReleaseFailed
<1> QED
  BY <1>1, <1>2, <1>3, <1>4, <1>5, <1>6, <1>7, <1>8, <1>9, <1>10, <1>11,
     <1>12, <1>13, <1>14, <1>15, <1>16, <1>17, <1>18, <1>19, <1>20, <1>21,
     <1>22, <1>23, <1>24, <1>25, <1>26, <1>27, <1>28, <1>29, <1>30, <1>31,
     <1>32, <1>33, <1>34, <1>35, <1>36, <1>37, <1>38, <1>39, <1>40, <1>41,
     <1>42, <1>43, <1>44, <1>45, <1>46, <1>47, <1>48, <1>49, <1>50, <1>51,
     <1>52, <1>53, <1>54, <1>55
     DEF Next, WorkerStep, CallStep, GuardStep

\* busy follows the run.
LEMMA OwnershipStep ==
  ASSUME DataOK, Ownership, PoseReturns, [Next]_vars
  PROVE  Ownership'
<1> USE DEF DataOK, Ownership, PoseReturns, AfterPoseError, Callers,
       At, Goto, CallPose, Leave, PoseDone, LocalStep, SetHpc, AfterReset,
       GuardIdle, flagVars, outVars, guardVars, workVars, callVars
<1>1. CASE WSemTake
  BY <1>1 DEF WSemTake
<1>2. CASE WSafeRelay
  BY <1>2 DEF WSafeRelay
<1>3. CASE WSafeAxis
  BY <1>3 DEF WSafeAxis
<1>4. CASE WPose
  BY <1>4 DEF WPose
<1>5. CASE WPwmOk
  BY <1>5 DEF WPwmOk
<1>6. CASE WPwmFail
  BY <1>6 DEF WPwmFail
<1>7. CASE WCycle
  BY <1>7 DEF WCycle
<1>8. CASE WWaitStain
  BY <1>8 DEF WWaitStain
<1>9. CASE WAim
  BY <1>9 DEF WAim
<1>10. CASE WAimAxis
  BY <1>10 DEF WAimAxis
<1>11. CASE WAimPoll
  BY <1>11 DEF WAimPoll
<1>12. CASE WExtend
  BY <1>12 DEF WExtend
<1>13. CASE WExtendEval
  BY <1>13 DEF WExtendEval
<1>14. CASE WSpray
  BY <1>14 DEF WSpray
<1>15. CASE WSprayDelay
  BY <1>15 DEF WSprayDelay
<1>16. CASE WSprayOff
  BY <1>16 DEF WSprayOff
<1>17. CASE WScrub
  BY <1>17 DEF WScrub
<1>18. CASE WScrubLoop
  BY <1>18 DEF WScrubLoop
<1>19. CASE WScrubEval
  BY <1>19 DEF WScrubEval
<1>20. CASE WScrubDelay
  BY <1>20 DEF WScrubDelay
<1>21. CASE WScrubOff
  BY <1>21 DEF WScrubOff
<1>22. CASE WRetract
  BY <1>22 DEF WRetract
<1>23. CASE WRetractAxis
  BY <1>23 DEF WRetractAxis
<1>24. CASE WRetractLoop
  BY <1>24 DEF WRetractLoop
<1>25. CASE WRetractSleep
  BY <1>25 DEF WRetractSleep
<1>26. CASE WRetractDelay
  BY <1>26 DEF WRetractDelay
<1>27. CASE WRetractRet
  BY <1>27 DEF WRetractRet
<1>28. CASE WVerify
  BY <1>28 DEF WVerify
<1>29. CASE WResult
  BY <1>29 DEF WResult
<1>30. CASE WFinish
  BY <1>30 DEF WFinish
<1>31. CASE WPublish
  BY <1>31 DEF WPublish
<1>32. CASE WWake
  BY <1>32 DEF WWake
<1>33. CASE MStart
  BY <1>33 DEF MStart
<1>34. CASE MSkipCleaning
  BY <1>34 DEF MSkipCleaning
<1>35. CASE MPollStatus
  BY <1>35 DEF MPollStatus
<1>36. CASE MReturned
  BY <1>36 DEF MReturned
<1>37. CASE MEmergencyStop
  BY <1>37 DEF MEmergencyStop
<1>38. CASE UdpEmergencyStop
  BY <1>38 DEF UdpEmergencyStop
<1>39. CASE MReset
  BY <1>39 DEF MReset
<1>40. CASE MResetWaited
  BY <1>40 DEF MResetWaited
<1>41. CASE MResetTimeout
  BY <1>41 DEF MResetTimeout
<1>42. CASE MResetClear
  BY <1>42 DEF MResetClear
<1>43. ASSUME NEW t \in Callers, HRelay(t)
      PROVE  Ownership'
  BY <1>43 DEF HRelay
<1>44. ASSUME NEW t \in Callers, HAxis(t)
      PROVE  Ownership'
  BY <1>44 DEF HAxis
<1>45. ASSUME NEW t \in Callers, HPose(t)
      PROVE  Ownership'
  BY <1>45 DEF HPose
<1>46. ASSUME NEW t \in Callers, HPwm(t)
      PROVE  Ownership'
  BY <1>46 DEF HPwm
<1>47. CASE GuardSampleOk
  BY <1>47 DEF GuardSampleOk
<1>48. CASE GuardSampleError
  BY <1>48 DEF GuardSampleError
<1>49. CASE GuardForceStop
  BY <1>49 DEF GuardForceStop
<1>50. CASE GuardAges
  BY <1>50 DEF GuardAges
<1>51. CASE UNCHANGED vars
  BY <1>51 DEF vars
<1>52. CASE WDelaySleep
  BY <1>52 DEF WDelaySleep
<1>53. CASE MRelease
  BY <1>53 DEF MRelease
<1>54. CASE MReleaseFails
  BY <1>54 DEF MReleaseFails
<1>55. CASE MReleaseFailed
  BY <1>55 DEF MReleaseFailed
<1> QED
  BY <1>1, <1>2, <1>3, <1>4, <1>5, <1>6, <1>7, <1>8, <1>9, <1>10, <1>11,
     <1>12, <1>13, <1>14, <1>15, <1>16, <1>17, <1>18, <1>19, <1>20, <1>21,
     <1>22, <1>23, <1>24, <1>25, <1>26, <1>27, <1>28, <1>29, <1>30, <1>31,
     <1>32, <1>33, <1>34, <1>35, <1>36, <1>37, <1>38, <1>39, <1>40, <1>41,
     <1>42, <1>43, <1>44, <1>45, <1>46, <1>47, <1>48, <1>49, <1>50, <1>51,
     <1>52, <1>53, <1>54, <1>55
     DEF Next, WorkerStep, CallStep, GuardStep

\* apply_pose is only called with somewhere to return to.
LEMMA PoseReturnsStep ==
  ASSUME DataOK, PoseReturns, [Next]_vars
  PROVE  PoseReturns'
<1> USE DEF DataOK, PoseReturns, AfterPoseError,
       At, Goto, CallPose, Leave, PoseDone, LocalStep, SetHpc, AfterReset,
       GuardIdle, flagVars, outVars, guardVars, workVars, callVars
<1>1. CASE WSemTake
  BY <1>1 DEF WSemTake
<1>2. CASE WSafeRelay
  BY <1>2 DEF WSafeRelay
<1>3. CASE WSafeAxis
  BY <1>3 DEF WSafeAxis
<1>4. CASE WPose
  BY <1>4 DEF WPose
<1>5. CASE WPwmOk
  BY <1>5 DEF WPwmOk
<1>6. CASE WPwmFail
  BY <1>6 DEF WPwmFail
<1>7. CASE WCycle
  BY <1>7 DEF WCycle
<1>8. CASE WWaitStain
  BY <1>8 DEF WWaitStain
<1>9. CASE WAim
  BY <1>9 DEF WAim
<1>10. CASE WAimAxis
  BY <1>10 DEF WAimAxis
<1>11. CASE WAimPoll
  BY <1>11 DEF WAimPoll
<1>12. CASE WExtend
  BY <1>12 DEF WExtend
<1>13. CASE WExtendEval
  BY <1>13 DEF WExtendEval
<1>14. CASE WSpray
  BY <1>14 DEF WSpray
<1>15. CASE WSprayDelay
  BY <1>15 DEF WSprayDelay
<1>16. CASE WSprayOff
  BY <1>16 DEF WSprayOff
<1>17. CASE WScrub
  BY <1>17 DEF WScrub
<1>18. CASE WScrubLoop
  BY <1>18 DEF WScrubLoop
<1>19. CASE WScrubEval
  BY <1>19 DEF WScrubEval
<1>20. CASE WScrubDelay
  BY <1>20 DEF WScrubDelay
<1>21. CASE WScrubOff
  BY <1>21 DEF WScrubOff
<1>22. CASE WRetract
  BY <1>22 DEF WRetract
<1>23. CASE WRetractAxis
  BY <1>23 DEF WRetractAxis
<1>24. CASE WRetractLoop
  BY <1>24 DEF WRetractLoop
<1>25. CASE WRetractSleep
  BY <1>25 DEF WRetractSleep
<1>26. CASE WRetractDelay
  BY <1>26 DEF WRetractDelay
<1>27. CASE WRetractRet
  BY <1>27 DEF WRetractRet
<1>28. CASE WVerify
  BY <1>28 DEF WVerify
<1>29. CASE WResult
  BY <1>29 DEF WResult
<1>30. CASE WFinish
  BY <1>30 DEF WFinish
<1>31. CASE WPublish
  BY <1>31 DEF WPublish
<1>32. CASE WWake
  BY <1>32 DEF WWake
<1>33. CASE MStart
  BY <1>33 DEF MStart
<1>34. CASE MSkipCleaning
  BY <1>34 DEF MSkipCleaning
<1>35. CASE MPollStatus
  BY <1>35 DEF MPollStatus
<1>36. CASE MReturned
  BY <1>36 DEF MReturned
<1>37. CASE MEmergencyStop
  BY <1>37 DEF MEmergencyStop
<1>38. CASE UdpEmergencyStop
  BY <1>38 DEF UdpEmergencyStop
<1>39. CASE MReset
  BY <1>39 DEF MReset
<1>40. CASE MResetWaited
  BY <1>40 DEF MResetWaited
<1>41. CASE MResetTimeout
  BY <1>41 DEF MResetTimeout
<1>42. CASE MResetClear
  BY <1>42 DEF MResetClear
<1>43. ASSUME NEW t \in Callers, HRelay(t)
      PROVE  PoseReturns'
  BY <1>43 DEF HRelay
<1>44. ASSUME NEW t \in Callers, HAxis(t)
      PROVE  PoseReturns'
  BY <1>44 DEF HAxis
<1>45. ASSUME NEW t \in Callers, HPose(t)
      PROVE  PoseReturns'
  BY <1>45 DEF HPose
<1>46. ASSUME NEW t \in Callers, HPwm(t)
      PROVE  PoseReturns'
  BY <1>46 DEF HPwm
<1>47. CASE GuardSampleOk
  BY <1>47 DEF GuardSampleOk
<1>48. CASE GuardSampleError
  BY <1>48 DEF GuardSampleError
<1>49. CASE GuardForceStop
  BY <1>49 DEF GuardForceStop
<1>50. CASE GuardAges
  BY <1>50 DEF GuardAges
<1>51. CASE UNCHANGED vars
  BY <1>51 DEF vars
<1>52. CASE WDelaySleep
  BY <1>52 DEF WDelaySleep
<1>53. CASE MRelease
  BY <1>53 DEF MRelease
<1>54. CASE MReleaseFails
  BY <1>54 DEF MReleaseFails
<1>55. CASE MReleaseFailed
  BY <1>55 DEF MReleaseFailed
<1> QED
  BY <1>1, <1>2, <1>3, <1>4, <1>5, <1>6, <1>7, <1>8, <1>9, <1>10, <1>11,
     <1>12, <1>13, <1>14, <1>15, <1>16, <1>17, <1>18, <1>19, <1>20, <1>21,
     <1>22, <1>23, <1>24, <1>25, <1>26, <1>27, <1>28, <1>29, <1>30, <1>31,
     <1>32, <1>33, <1>34, <1>35, <1>36, <1>37, <1>38, <1>39, <1>40, <1>41,
     <1>42, <1>43, <1>44, <1>45, <1>46, <1>47, <1>48, <1>49, <1>50, <1>51,
     <1>52, <1>53, <1>54, <1>55
     DEF Next, WorkerStep, CallStep, GuardStep

\* The relay is on only between the lines that switch it on and off.
LEMMA RelayPlacesStep ==
  ASSUME DataOK, PoseReturns, RelayPlaces, [Next]_vars
  PROVE  RelayPlaces'
<1> USE DEF DataOK, PoseReturns, RelayPlaces, AfterPoseError,
       At, Goto, CallPose, Leave, PoseDone, LocalStep, SetHpc, AfterReset,
       GuardIdle, flagVars, outVars, guardVars, workVars, callVars
<1>1. CASE WSemTake
  BY <1>1 DEF WSemTake
<1>2. CASE WSafeRelay
  BY <1>2 DEF WSafeRelay
<1>3. CASE WSafeAxis
  BY <1>3 DEF WSafeAxis
<1>4. CASE WPose
  BY <1>4 DEF WPose
<1>5. CASE WPwmOk
  BY <1>5 DEF WPwmOk
<1>6. CASE WPwmFail
  BY <1>6 DEF WPwmFail
<1>7. CASE WCycle
  BY <1>7 DEF WCycle
<1>8. CASE WWaitStain
  BY <1>8 DEF WWaitStain
<1>9. CASE WAim
  BY <1>9 DEF WAim
<1>10. CASE WAimAxis
  BY <1>10 DEF WAimAxis
<1>11. CASE WAimPoll
  BY <1>11 DEF WAimPoll
<1>12. CASE WExtend
  BY <1>12 DEF WExtend
<1>13. CASE WExtendEval
  BY <1>13 DEF WExtendEval
<1>14. CASE WSpray
  BY <1>14 DEF WSpray
<1>15. CASE WSprayDelay
  BY <1>15 DEF WSprayDelay
<1>16. CASE WSprayOff
  BY <1>16 DEF WSprayOff
<1>17. CASE WScrub
  BY <1>17 DEF WScrub
<1>18. CASE WScrubLoop
  BY <1>18 DEF WScrubLoop
<1>19. CASE WScrubEval
  BY <1>19 DEF WScrubEval
<1>20. CASE WScrubDelay
  BY <1>20 DEF WScrubDelay
<1>21. CASE WScrubOff
  BY <1>21 DEF WScrubOff
<1>22. CASE WRetract
  BY <1>22 DEF WRetract
<1>23. CASE WRetractAxis
  BY <1>23 DEF WRetractAxis
<1>24. CASE WRetractLoop
  BY <1>24 DEF WRetractLoop
<1>25. CASE WRetractSleep
  BY <1>25 DEF WRetractSleep
<1>26. CASE WRetractDelay
  BY <1>26 DEF WRetractDelay
<1>27. CASE WRetractRet
  BY <1>27 DEF WRetractRet
<1>28. CASE WVerify
  BY <1>28 DEF WVerify
<1>29. CASE WResult
  BY <1>29 DEF WResult
<1>30. CASE WFinish
  BY <1>30 DEF WFinish
<1>31. CASE WPublish
  BY <1>31 DEF WPublish
<1>32. CASE WWake
  BY <1>32 DEF WWake
<1>33. CASE MStart
  BY <1>33 DEF MStart
<1>34. CASE MSkipCleaning
  BY <1>34 DEF MSkipCleaning
<1>35. CASE MPollStatus
  BY <1>35 DEF MPollStatus
<1>36. CASE MReturned
  BY <1>36 DEF MReturned
<1>37. CASE MEmergencyStop
  BY <1>37 DEF MEmergencyStop
<1>38. CASE UdpEmergencyStop
  BY <1>38 DEF UdpEmergencyStop
<1>39. CASE MReset
  BY <1>39 DEF MReset
<1>40. CASE MResetWaited
  BY <1>40 DEF MResetWaited
<1>41. CASE MResetTimeout
  BY <1>41 DEF MResetTimeout
<1>42. CASE MResetClear
  BY <1>42 DEF MResetClear
<1>43. ASSUME NEW t \in Callers, HRelay(t)
      PROVE  RelayPlaces'
  BY <1>43 DEF HRelay
<1>44. ASSUME NEW t \in Callers, HAxis(t)
      PROVE  RelayPlaces'
  BY <1>44 DEF HAxis
<1>45. ASSUME NEW t \in Callers, HPose(t)
      PROVE  RelayPlaces'
  BY <1>45 DEF HPose
<1>46. ASSUME NEW t \in Callers, HPwm(t)
      PROVE  RelayPlaces'
  BY <1>46 DEF HPwm
<1>47. CASE GuardSampleOk
  BY <1>47 DEF GuardSampleOk
<1>48. CASE GuardSampleError
  BY <1>48 DEF GuardSampleError
<1>49. CASE GuardForceStop
  BY <1>49 DEF GuardForceStop
<1>50. CASE GuardAges
  BY <1>50 DEF GuardAges
<1>51. CASE UNCHANGED vars
  BY <1>51 DEF vars
<1>52. CASE WDelaySleep
  BY <1>52 DEF WDelaySleep
<1>53. CASE MRelease
  BY <1>53 DEF MRelease
<1>54. CASE MReleaseFails
  BY <1>54 DEF MReleaseFails
<1>55. CASE MReleaseFailed
  BY <1>55 DEF MReleaseFailed
<1> QED
  BY <1>1, <1>2, <1>3, <1>4, <1>5, <1>6, <1>7, <1>8, <1>9, <1>10, <1>11,
     <1>12, <1>13, <1>14, <1>15, <1>16, <1>17, <1>18, <1>19, <1>20, <1>21,
     <1>22, <1>23, <1>24, <1>25, <1>26, <1>27, <1>28, <1>29, <1>30, <1>31,
     <1>32, <1>33, <1>34, <1>35, <1>36, <1>37, <1>38, <1>39, <1>40, <1>41,
     <1>42, <1>43, <1>44, <1>45, <1>46, <1>47, <1>48, <1>49, <1>50, <1>51,
     <1>52, <1>53, <1>54, <1>55
     DEF Next, WorkerStep, CallStep, GuardStep

\* The closing safe_outputs cannot be undone by the handlers that cross it.
LEMMA ClosingStep ==
  ASSUME DataOK, PoseReturns, Closing, [Next]_vars
  PROVE  Closing'
<1> USE CleanerAssumption DEF DataOK, PoseReturns, Closing, AfterPoseError,
       At, Goto, CallPose, Leave, PoseDone, LocalStep, SetHpc, AfterReset,
       GuardIdle, flagVars, outVars, guardVars, workVars, callVars
<1>1. CASE WSemTake
  BY <1>1 DEF WSemTake
<1>2. CASE WSafeRelay
  BY <1>2 DEF WSafeRelay
<1>3. CASE WSafeAxis
  BY <1>3 DEF WSafeAxis
<1>4. CASE WPose
  BY <1>4 DEF WPose
<1>5. CASE WPwmOk
  BY <1>5 DEF WPwmOk
<1>6. CASE WPwmFail
  BY <1>6 DEF WPwmFail
<1>7. CASE WCycle
  BY <1>7 DEF WCycle
<1>8. CASE WWaitStain
  BY <1>8 DEF WWaitStain
<1>9. CASE WAim
  BY <1>9 DEF WAim
<1>10. CASE WAimAxis
  BY <1>10 DEF WAimAxis
<1>11. CASE WAimPoll
  BY <1>11 DEF WAimPoll
<1>12. CASE WExtend
  BY <1>12 DEF WExtend
<1>13. CASE WExtendEval
  BY <1>13 DEF WExtendEval
<1>14. CASE WSpray
  BY <1>14 DEF WSpray
<1>15. CASE WSprayDelay
  BY <1>15 DEF WSprayDelay
<1>16. CASE WSprayOff
  BY <1>16 DEF WSprayOff
<1>17. CASE WScrub
  BY <1>17 DEF WScrub
<1>18. CASE WScrubLoop
  BY <1>18 DEF WScrubLoop
<1>19. CASE WScrubEval
  BY <1>19 DEF WScrubEval
<1>20. CASE WScrubDelay
  BY <1>20 DEF WScrubDelay
<1>21. CASE WScrubOff
  BY <1>21 DEF WScrubOff
<1>22. CASE WRetract
  BY <1>22 DEF WRetract
<1>23. CASE WRetractAxis
  BY <1>23 DEF WRetractAxis
<1>24. CASE WRetractLoop
  BY <1>24 DEF WRetractLoop
<1>25. CASE WRetractSleep
  BY <1>25 DEF WRetractSleep
<1>26. CASE WRetractDelay
  BY <1>26 DEF WRetractDelay
<1>27. CASE WRetractRet
  BY <1>27 DEF WRetractRet
<1>28. CASE WVerify
  BY <1>28 DEF WVerify
<1>29. CASE WResult
  BY <1>29 DEF WResult
<1>30. CASE WFinish
  BY <1>30 DEF WFinish
<1>31. CASE WPublish
  BY <1>31 DEF WPublish
<1>32. CASE WWake
  BY <1>32 DEF WWake
<1>33. CASE MStart
  BY <1>33 DEF MStart
<1>34. CASE MSkipCleaning
  BY <1>34 DEF MSkipCleaning
<1>35. CASE MPollStatus
  BY <1>35 DEF MPollStatus
<1>36. CASE MReturned
  BY <1>36 DEF MReturned
<1>37. CASE MEmergencyStop
  BY <1>37 DEF MEmergencyStop
<1>38. CASE UdpEmergencyStop
  BY <1>38 DEF UdpEmergencyStop
<1>39. CASE MReset
  BY <1>39 DEF MReset
<1>40. CASE MResetWaited
  BY <1>40 DEF MResetWaited
<1>41. CASE MResetTimeout
  BY <1>41 DEF MResetTimeout
<1>42. CASE MResetClear
  BY <1>42 DEF MResetClear
<1>43. ASSUME NEW t \in Callers, HRelay(t)
      PROVE  Closing'
  BY <1>43 DEF HRelay
<1>44. ASSUME NEW t \in Callers, HAxis(t)
      PROVE  Closing'
  BY <1>44 DEF HAxis
<1>45. ASSUME NEW t \in Callers, HPose(t)
      PROVE  Closing'
  BY <1>45 DEF HPose
<1>46. ASSUME NEW t \in Callers, HPwm(t)
      PROVE  Closing'
  BY <1>46 DEF HPwm
<1>47. CASE GuardSampleOk
  BY <1>47 DEF GuardSampleOk
<1>48. CASE GuardSampleError
  BY <1>48 DEF GuardSampleError
<1>49. CASE GuardForceStop
  BY <1>49 DEF GuardForceStop
<1>50. CASE GuardAges
  BY <1>50 DEF GuardAges
<1>51. CASE UNCHANGED vars
  BY <1>51 DEF vars
<1>52. CASE WDelaySleep
  BY <1>52 DEF WDelaySleep
<1>53. CASE MRelease
  BY <1>53 DEF MRelease
<1>54. CASE MReleaseFails
  BY <1>54 DEF MReleaseFails
<1>55. CASE MReleaseFailed
  BY <1>55 DEF MReleaseFailed
<1> QED
  BY <1>1, <1>2, <1>3, <1>4, <1>5, <1>6, <1>7, <1>8, <1>9, <1>10, <1>11,
     <1>12, <1>13, <1>14, <1>15, <1>16, <1>17, <1>18, <1>19, <1>20, <1>21,
     <1>22, <1>23, <1>24, <1>25, <1>26, <1>27, <1>28, <1>29, <1>30, <1>31,
     <1>32, <1>33, <1>34, <1>35, <1>36, <1>37, <1>38, <1>39, <1>40, <1>41,
     <1>42, <1>43, <1>44, <1>45, <1>46, <1>47, <1>48, <1>49, <1>50, <1>51,
     <1>52, <1>53, <1>54, <1>55
     DEF Next, WorkerStep, CallStep, GuardStep

\* Nothing starts a run while the vehicle drives home.
LEMMA DoneIsOverStep ==
  ASSUME DataOK, Ownership, DoneIsOver, [Next]_vars
  PROVE  DoneIsOver'
<1> USE DEF DataOK, Ownership, DoneIsOver, Terminal,
       At, Goto, CallPose, Leave, PoseDone, LocalStep, SetHpc, AfterReset,
       GuardIdle, flagVars, outVars, guardVars, workVars, callVars
<1>1. CASE WSemTake
  BY <1>1 DEF WSemTake
<1>2. CASE WSafeRelay
  BY <1>2 DEF WSafeRelay
<1>3. CASE WSafeAxis
  BY <1>3 DEF WSafeAxis
<1>4. CASE WPose
  BY <1>4 DEF WPose
<1>5. CASE WPwmOk
  BY <1>5 DEF WPwmOk
<1>6. CASE WPwmFail
  BY <1>6 DEF WPwmFail
<1>7. CASE WCycle
  BY <1>7 DEF WCycle
<1>8. CASE WWaitStain
  BY <1>8 DEF WWaitStain
<1>9. CASE WAim
  BY <1>9 DEF WAim
<1>10. CASE WAimAxis
  BY <1>10 DEF WAimAxis
<1>11. CASE WAimPoll
  BY <1>11 DEF WAimPoll
<1>12. CASE WExtend
  BY <1>12 DEF WExtend
<1>13. CASE WExtendEval
  BY <1>13 DEF WExtendEval
<1>14. CASE WSpray
  BY <1>14 DEF WSpray
<1>15. CASE WSprayDelay
  BY <1>15 DEF WSprayDelay
<1>16. CASE WSprayOff
  BY <1>16 DEF WSprayOff
<1>17. CASE WScrub
  BY <1>17 DEF WScrub
<1>18. CASE WScrubLoop
  BY <1>18 DEF WScrubLoop
<1>19. CASE WScrubEval
  BY <1>19 DEF WScrubEval
<1>20. CASE WScrubDelay
  BY <1>20 DEF WScrubDelay
<1>21. CASE WScrubOff
  BY <1>21 DEF WScrubOff
<1>22. CASE WRetract
  BY <1>22 DEF WRetract
<1>23. CASE WRetractAxis
  BY <1>23 DEF WRetractAxis
<1>24. CASE WRetractLoop
  BY <1>24 DEF WRetractLoop
<1>25. CASE WRetractSleep
  BY <1>25 DEF WRetractSleep
<1>26. CASE WRetractDelay
  BY <1>26 DEF WRetractDelay
<1>27. CASE WRetractRet
  BY <1>27 DEF WRetractRet
<1>28. CASE WVerify
  BY <1>28 DEF WVerify
<1>29. CASE WResult
  BY <1>29 DEF WResult
<1>30. CASE WFinish
  BY <1>30 DEF WFinish
<1>31. CASE WPublish
  BY <1>31 DEF WPublish
<1>32. CASE WWake
  BY <1>32 DEF WWake
<1>33. CASE MStart
  BY <1>33 DEF MStart
<1>34. CASE MSkipCleaning
  BY <1>34 DEF MSkipCleaning
<1>35. CASE MPollStatus
  BY <1>35 DEF MPollStatus
<1>36. CASE MReturned
  BY <1>36 DEF MReturned
<1>37. CASE MEmergencyStop
  BY <1>37 DEF MEmergencyStop
<1>38. CASE UdpEmergencyStop
  BY <1>38 DEF UdpEmergencyStop
<1>39. CASE MReset
  BY <1>39 DEF MReset
<1>40. CASE MResetWaited
  BY <1>40 DEF MResetWaited
<1>41. CASE MResetTimeout
  BY <1>41 DEF MResetTimeout
<1>42. CASE MResetClear
  BY <1>42 DEF MResetClear
<1>43. ASSUME NEW t \in Callers, HRelay(t)
      PROVE  DoneIsOver'
  BY <1>43 DEF HRelay
<1>44. ASSUME NEW t \in Callers, HAxis(t)
      PROVE  DoneIsOver'
  BY <1>44 DEF HAxis
<1>45. ASSUME NEW t \in Callers, HPose(t)
      PROVE  DoneIsOver'
  BY <1>45 DEF HPose
<1>46. ASSUME NEW t \in Callers, HPwm(t)
      PROVE  DoneIsOver'
  BY <1>46 DEF HPwm
<1>47. CASE GuardSampleOk
  BY <1>47 DEF GuardSampleOk
<1>48. CASE GuardSampleError
  BY <1>48 DEF GuardSampleError
<1>49. CASE GuardForceStop
  BY <1>49 DEF GuardForceStop
<1>50. CASE GuardAges
  BY <1>50 DEF GuardAges
<1>51. CASE UNCHANGED vars
  BY <1>51 DEF vars
<1>52. CASE WDelaySleep
  BY <1>52 DEF WDelaySleep
<1>53. CASE MRelease
  BY <1>53 DEF MRelease
<1>54. CASE MReleaseFails
  BY <1>54 DEF MReleaseFails
<1>55. CASE MReleaseFailed
  BY <1>55 DEF MReleaseFailed
<1> QED
  BY <1>1, <1>2, <1>3, <1>4, <1>5, <1>6, <1>7, <1>8, <1>9, <1>10, <1>11,
     <1>12, <1>13, <1>14, <1>15, <1>16, <1>17, <1>18, <1>19, <1>20, <1>21,
     <1>22, <1>23, <1>24, <1>25, <1>26, <1>27, <1>28, <1>29, <1>30, <1>31,
     <1>32, <1>33, <1>34, <1>35, <1>36, <1>37, <1>38, <1>39, <1>40, <1>41,
     <1>42, <1>43, <1>44, <1>45, <1>46, <1>47, <1>48, <1>49, <1>50, <1>51,
     <1>52, <1>53, <1>54, <1>55
     DEF Next, WorkerStep, CallStep, GuardStep

\* Every stop request comes with a relay switch, and every sleep with the relay on
\* follows a look at the request.
LEMMA PumpOffStep ==
  ASSUME DataOK, Ownership, RelayPlaces, PumpOffInDelay, [Next]_vars
  PROVE  PumpOffInDelay'
<1> USE DEF DataOK, Ownership, RelayPlaces, PumpOffInDelay, Callers,
       At, Goto, CallPose, Leave, PoseDone, LocalStep, SetHpc, AfterReset,
       GuardIdle, flagVars, outVars, guardVars, workVars, callVars
<1>1. CASE WSemTake
  BY <1>1 DEF WSemTake
<1>2. CASE WSafeRelay
  BY <1>2 DEF WSafeRelay
<1>3. CASE WSafeAxis
  BY <1>3 DEF WSafeAxis
<1>4. CASE WPose
  BY <1>4 DEF WPose
<1>5. CASE WPwmOk
  BY <1>5 DEF WPwmOk
<1>6. CASE WPwmFail
  BY <1>6 DEF WPwmFail, AfterPoseError
<1>7. CASE WCycle
  BY <1>7 DEF WCycle
<1>8. CASE WWaitStain
  BY <1>8 DEF WWaitStain
<1>9. CASE WAim
  BY <1>9 DEF WAim
<1>10. CASE WAimAxis
  BY <1>10 DEF WAimAxis
<1>11. CASE WAimPoll
  BY <1>11 DEF WAimPoll
<1>12. CASE WExtend
  BY <1>12 DEF WExtend
<1>13. CASE WExtendEval
  BY <1>13 DEF WExtendEval
<1>14. CASE WSpray
  BY <1>14 DEF WSpray
<1>15. CASE WSprayDelay
  BY <1>15 DEF WSprayDelay
<1>16. CASE WSprayOff
  BY <1>16 DEF WSprayOff
<1>17. CASE WScrub
  BY <1>17 DEF WScrub
<1>18. CASE WScrubLoop
  BY <1>18 DEF WScrubLoop
<1>19. CASE WScrubEval
  BY <1>19 DEF WScrubEval
<1>20. CASE WScrubDelay
  BY <1>20 DEF WScrubDelay
<1>21. CASE WScrubOff
  BY <1>21 DEF WScrubOff
<1>22. CASE WRetract
  BY <1>22 DEF WRetract
<1>23. CASE WRetractAxis
  BY <1>23 DEF WRetractAxis
<1>24. CASE WRetractLoop
  BY <1>24 DEF WRetractLoop
<1>25. CASE WRetractSleep
  BY <1>25 DEF WRetractSleep
<1>26. CASE WRetractDelay
  BY <1>26 DEF WRetractDelay
<1>27. CASE WRetractRet
  BY <1>27 DEF WRetractRet
<1>28. CASE WVerify
  BY <1>28 DEF WVerify
<1>29. CASE WResult
  BY <1>29 DEF WResult
<1>30. CASE WFinish
  BY <1>30 DEF WFinish
<1>31. CASE WPublish
  BY <1>31 DEF WPublish
<1>32. CASE WWake
  BY <1>32 DEF WWake
<1>33. CASE MStart
  BY <1>33 DEF MStart
<1>34. CASE MSkipCleaning
  BY <1>34 DEF MSkipCleaning
<1>35. CASE MPollStatus
  BY <1>35 DEF MPollStatus
<1>36. CASE MReturned
  BY <1>36 DEF MReturned
<1>37. CASE MEmergencyStop
  BY <1>37 DEF MEmergencyStop
<1>38. CASE UdpEmergencyStop
  BY <1>38 DEF UdpEmergencyStop
<1>39. CASE MReset
  BY <1>39 DEF MReset
<1>40. CASE MResetWaited
  BY <1>40 DEF MResetWaited
<1>41. CASE MResetTimeout
  BY <1>41 DEF MResetTimeout
<1>42. CASE MResetClear
  BY <1>42 DEF MResetClear
<1>43. ASSUME NEW t \in Callers, HRelay(t)
      PROVE  PumpOffInDelay'
  BY <1>43 DEF HRelay
<1>44. ASSUME NEW t \in Callers, HAxis(t)
      PROVE  PumpOffInDelay'
  BY <1>44 DEF HAxis
<1>45. ASSUME NEW t \in Callers, HPose(t)
      PROVE  PumpOffInDelay'
  BY <1>45 DEF HPose
<1>46. ASSUME NEW t \in Callers, HPwm(t)
      PROVE  PumpOffInDelay'
  BY <1>46 DEF HPwm
<1>47. CASE GuardSampleOk
  BY <1>47 DEF GuardSampleOk
<1>48. CASE GuardSampleError
  BY <1>48 DEF GuardSampleError
<1>49. CASE GuardForceStop
  BY <1>49 DEF GuardForceStop
<1>50. CASE GuardAges
  BY <1>50 DEF GuardAges
<1>51. CASE UNCHANGED vars
  BY <1>51 DEF vars
<1>52. CASE WDelaySleep
  BY <1>52 DEF WDelaySleep
<1>53. CASE MRelease
  BY <1>53 DEF MRelease
<1>54. CASE MReleaseFails
  BY <1>54 DEF MReleaseFails
<1>55. CASE MReleaseFailed
  BY <1>55 DEF MReleaseFailed
<1> QED
  BY <1>1, <1>2, <1>3, <1>4, <1>5, <1>6, <1>7, <1>8, <1>9, <1>10, <1>11,
     <1>12, <1>13, <1>14, <1>15, <1>16, <1>17, <1>18, <1>19, <1>20, <1>21,
     <1>22, <1>23, <1>24, <1>25, <1>26, <1>27, <1>28, <1>29, <1>30, <1>31,
     <1>32, <1>33, <1>34, <1>35, <1>36, <1>37, <1>38, <1>39, <1>40, <1>41,
     <1>42, <1>43, <1>44, <1>45, <1>46, <1>47, <1>48, <1>49, <1>50, <1>51,
     <1>52, <1>53, <1>54, <1>55
     DEF Next, WorkerStep, CallStep, GuardStep

\* Under the priorities the guard thread does not run between a look and the sleep after it.
LEMMA LookHoldsStep ==
  ASSUME Preemptive, LookHolds, DataOK, PoseReturns, [Next]_vars
  PROVE  LookHolds'
<1> USE DEF LookHolds, Looked, GuardLevel, DataOK, PoseReturns, AfterPoseError,
       ForcesRetract, CallsForRetract, WorkerBlocked, At, Goto, CallPose, Leave, PoseDone, LocalStep, SetHpc, AfterReset,
       GuardIdle, flagVars, outVars, guardVars, workVars, callVars
<1>1. CASE WSemTake
  BY <1>1 DEF WSemTake
<1>2. CASE WSafeRelay
  BY <1>2 DEF WSafeRelay
<1>3. CASE WSafeAxis
  BY <1>3 DEF WSafeAxis
<1>4. CASE WPose
  BY <1>4 DEF WPose
<1>5. CASE WPwmOk
  BY <1>5 DEF WPwmOk
<1>6. CASE WPwmFail
  BY <1>6 DEF WPwmFail
<1>7. CASE WCycle
  BY <1>7 DEF WCycle
<1>8. CASE WWaitStain
  BY <1>8 DEF WWaitStain
<1>9. CASE WAim
  BY <1>9 DEF WAim
<1>10. CASE WAimAxis
  BY <1>10 DEF WAimAxis
<1>11. CASE WAimPoll
  BY <1>11 DEF WAimPoll
<1>12. CASE WExtend
  BY <1>12 DEF WExtend
<1>13. CASE WExtendEval
  BY <1>13 DEF WExtendEval
<1>14. CASE WSpray
  BY <1>14 DEF WSpray
<1>15. CASE WSprayDelay
  BY <1>15 DEF WSprayDelay
<1>16. CASE WSprayOff
  BY <1>16 DEF WSprayOff
<1>17. CASE WScrub
  BY <1>17 DEF WScrub
<1>18. CASE WScrubLoop
  BY <1>18 DEF WScrubLoop
<1>19. CASE WScrubEval
  BY <1>19 DEF WScrubEval
<1>20. CASE WScrubDelay
  BY <1>20 DEF WScrubDelay
<1>21. CASE WScrubOff
  BY <1>21 DEF WScrubOff
<1>22. CASE WRetract
  BY <1>22 DEF WRetract
<1>23. CASE WRetractAxis
  BY <1>23 DEF WRetractAxis
<1>24. CASE WRetractLoop
  BY <1>24 DEF WRetractLoop
<1>25. CASE WRetractSleep
  BY <1>25 DEF WRetractSleep
<1>26. CASE WRetractDelay
  BY <1>26 DEF WRetractDelay
<1>27. CASE WRetractRet
  BY <1>27 DEF WRetractRet
<1>28. CASE WVerify
  BY <1>28 DEF WVerify
<1>29. CASE WResult
  BY <1>29 DEF WResult
<1>30. CASE WFinish
  BY <1>30 DEF WFinish
<1>31. CASE WPublish
  BY <1>31 DEF WPublish
<1>32. CASE WWake
  BY <1>32 DEF WWake
<1>33. CASE MStart
  BY <1>33 DEF MStart
<1>34. CASE MSkipCleaning
  BY <1>34 DEF MSkipCleaning
<1>35. CASE MPollStatus
  BY <1>35 DEF MPollStatus
<1>36. CASE MReturned
  BY <1>36 DEF MReturned
<1>37. CASE MEmergencyStop
  BY <1>37 DEF MEmergencyStop
<1>38. CASE UdpEmergencyStop
  BY <1>38 DEF UdpEmergencyStop
<1>39. CASE MReset
  BY <1>39 DEF MReset
<1>40. CASE MResetWaited
  BY <1>40 DEF MResetWaited
<1>41. CASE MResetTimeout
  BY <1>41 DEF MResetTimeout
<1>42. CASE MResetClear
  BY <1>42 DEF MResetClear
<1>43. ASSUME NEW t \in Callers, HRelay(t)
      PROVE  LookHolds'
  BY <1>43 DEF HRelay
<1>44. ASSUME NEW t \in Callers, HAxis(t)
      PROVE  LookHolds'
  BY <1>44 DEF HAxis
<1>45. ASSUME NEW t \in Callers, HPose(t)
      PROVE  LookHolds'
  BY <1>45 DEF HPose
<1>46. ASSUME NEW t \in Callers, HPwm(t)
      PROVE  LookHolds'
  BY <1>46 DEF HPwm
<1>47. CASE GuardSampleOk
  BY <1>47 DEF GuardSampleOk, MayRun
<1>48. CASE GuardSampleError
  BY <1>48 DEF GuardSampleError
<1>49. CASE GuardForceStop
  BY <1>49 DEF GuardForceStop, MayRun
<1>50. CASE GuardAges
  BY <1>50 DEF GuardAges
<1>51. CASE UNCHANGED vars
  BY <1>51 DEF vars
<1>52. CASE WDelaySleep
  BY <1>52 DEF WDelaySleep
<1>53. CASE MRelease
  BY <1>53 DEF MRelease
<1>54. CASE MReleaseFails
  BY <1>54 DEF MReleaseFails
<1>55. CASE MReleaseFailed
  BY <1>55 DEF MReleaseFailed
<1> QED
  BY <1>1, <1>2, <1>3, <1>4, <1>5, <1>6, <1>7, <1>8, <1>9, <1>10, <1>11,
     <1>12, <1>13, <1>14, <1>15, <1>16, <1>17, <1>18, <1>19, <1>20, <1>21,
     <1>22, <1>23, <1>24, <1>25, <1>26, <1>27, <1>28, <1>29, <1>30, <1>31,
     <1>32, <1>33, <1>34, <1>35, <1>36, <1>37, <1>38, <1>39, <1>40, <1>41,
     <1>42, <1>43, <1>44, <1>45, <1>46, <1>47, <1>48, <1>49, <1>50, <1>51,
     <1>52, <1>53, <1>54, <1>55
     DEF Next, WorkerStep, CallStep, GuardStep

\* The sleeping step: with the relay on it is a slice of one of the two delays.  Each, and the
\* extend step, has looked at the guard, and the sample is the one it saw.
LEMMA GuardedStep ==
  ASSUME Preemptive, RelayPlaces, LookHolds, Next, wsleep', ~wsleep,
         relay_on \/ wpc = "extend_eval"
  PROVE  /\ seen # "none"
         /\ ~CallsForRetract(seen, wpc # "extend_eval")
         /\ guard \in {seen, "stale"}
<1> DEFINE Goal == /\ seen # "none"
                   /\ ~CallsForRetract(seen, wpc # "extend_eval")
                   /\ guard \in {seen, "stale"}
<1>1. Looked => Goal
  BY DEF LookHolds, Looked, GuardLevel, CallsForRetract
<1> HIDE DEF Goal
<1>2. SUFFICES Goal
  BY DEF Goal
<1>3. CASE WDelaySleep
  BY <1>1, <1>3 DEF WDelaySleep, At, Looked
<1>4. CASE WExtendEval
  BY <1>1, <1>4 DEF WExtendEval, At, Looked
<1>5. CASE WWaitStain \/ WAimPoll \/ WRetractSleep \/ WRetractDelay \/ WVerify
  BY <1>5 DEF RelayPlaces, At, WWaitStain, WAimPoll, WRetractSleep,
     WRetractDelay, WVerify
<1>6. CASE WWake
  BY <1>6 DEF WWake
<1> USE DEF flagVars, outVars, guardVars, workVars, callVars, LocalStep
<1>7. CASE WSemTake
  BY <1>7 DEF WSemTake
<1>8. CASE WSafeRelay
  BY <1>8 DEF WSafeRelay
<1>9. CASE WSafeAxis
  BY <1>9 DEF WSafeAxis
<1>10. CASE WPose
  BY <1>10 DEF WPose
<1>11. CASE WPwmOk
  BY <1>11 DEF WPwmOk
<1>12. CASE WPwmFail
  BY <1>12 DEF WPwmFail
<1>13. CASE WCycle
  BY <1>13 DEF WCycle
<1>14. CASE WAim
  BY <1>14 DEF WAim
<1>15. CASE WAimAxis
  BY <1>15 DEF WAimAxis
<1>16. CASE WExtend
  BY <1>16 DEF WExtend
<1>17. CASE WSpray
  BY <1>17 DEF WSpray
<1>18. CASE WSprayOff
  BY <1>18 DEF WSprayOff
<1>19. CASE WScrub
  BY <1>19 DEF WScrub
<1>20. CASE WScrubLoop
  BY <1>20 DEF WScrubLoop
<1>21. CASE WScrubEval
  BY <1>21 DEF WScrubEval
<1>22. CASE WScrubOff
  BY <1>22 DEF WScrubOff
<1>23. CASE WRetract
  BY <1>23 DEF WRetract
<1>24. CASE WRetractAxis
  BY <1>24 DEF WRetractAxis
<1>25. CASE WRetractLoop
  BY <1>25 DEF WRetractLoop
<1>26. CASE WRetractRet
  BY <1>26 DEF WRetractRet
<1>27. CASE WResult
  BY <1>27 DEF WResult
<1>28. CASE WFinish
  BY <1>28 DEF WFinish
<1>29. CASE WPublish
  BY <1>29 DEF WPublish
<1>30. CASE MStart
  BY <1>30 DEF MStart
<1>31. CASE MSkipCleaning
  BY <1>31 DEF MSkipCleaning
<1>32. CASE MPollStatus
  BY <1>32 DEF MPollStatus
<1>33. CASE MReturned
  BY <1>33 DEF MReturned
<1>34. CASE MEmergencyStop
  BY <1>34 DEF MEmergencyStop
<1>35. CASE UdpEmergencyStop
  BY <1>35 DEF UdpEmergencyStop
<1>36. CASE MReset
  BY <1>36 DEF MReset
<1>37. CASE MResetWaited
  BY <1>37 DEF MResetWaited
<1>38. CASE MResetTimeout
  BY <1>38 DEF MResetTimeout
<1>39. CASE MResetClear
  BY <1>39 DEF MResetClear
<1>40. ASSUME NEW t \in Callers, HRelay(t)
      PROVE  FALSE
  BY <1>40 DEF HRelay
<1>41. ASSUME NEW t \in Callers, HAxis(t)
      PROVE  FALSE
  BY <1>41 DEF HAxis
<1>42. ASSUME NEW t \in Callers, HPose(t)
      PROVE  FALSE
  BY <1>42 DEF HPose
<1>43. ASSUME NEW t \in Callers, HPwm(t)
      PROVE  FALSE
  BY <1>43 DEF HPwm
<1>44. CASE GuardSampleOk
  BY <1>44 DEF GuardSampleOk
<1>45. CASE GuardSampleError
  BY <1>45 DEF GuardSampleError
<1>46. CASE GuardForceStop
  BY <1>46 DEF GuardForceStop
<1>47. CASE GuardAges
  BY <1>47 DEF GuardAges
<1>48. CASE MRelease
  BY <1>48 DEF MRelease
<1>49. CASE MReleaseFails
  BY <1>49 DEF MReleaseFails
<1>50. CASE MReleaseFailed
  BY <1>50 DEF MReleaseFailed
<1>51. CASE WSprayDelay
  BY <1>51 DEF WSprayDelay
<1>52. CASE WScrubDelay
  BY <1>52 DEF WScrubDelay
<1> QED
  BY <1>3, <1>4, <1>5, <1>6, <1>7, <1>8, <1>9, <1>10, <1>11, <1>12, <1>13,
     <1>14, <1>15, <1>16, <1>17, <1>18, <1>19, <1>20, <1>21, <1>22, <1>23,
     <1>24, <1>25, <1>26, <1>27, <1>28, <1>29, <1>30, <1>31, <1>32, <1>33,
     <1>34, <1>35, <1>36, <1>37, <1>38, <1>39, <1>40, <1>41, <1>42, <1>43,
     <1>44, <1>45, <1>46, <1>47, <1>48, <1>49, <1>50, <1>51, <1>52
     DEF Next, WorkerStep, CallStep, GuardStep

-----------------------------------------------------------------------------
(* The theorems.                                                           *)

\* The invariant holds initially.
LEMMA InitInv == Init => FlagsOK /\ IInv
<1> SUFFICES ASSUME Init PROVE FlagsOK /\ IInv
  OBVIOUS
<1>1. FlagsOK
  BY Zenon DEF Init, FlagsOK
<1>2. IInv
  BY CleanerAssumption DEF Init, IInv, DataOK, Ownership, PoseReturns, RelayPlaces, Closing,
     DoneIsOver, PumpOffInDelay, Terminal, GuardLevel, Callers
<1> QED
  BY <1>1, <1>2

\* Every step keeps it.
LEMMA NextInv == ASSUME FlagsOK, IInv, [Next]_vars PROVE (FlagsOK /\ IInv)'
BY FlagsStep, DataStep, OwnershipStep, PoseReturnsStep, RelayPlacesStep, ClosingStep,
   DoneIsOverStep, PumpOffStep DEF IInv

\* The invariant of the cleaner.
THEOREM Invariance == Spec => [](FlagsOK /\ IInv)
BY InitInv, NextInv, PTL DEF Spec

\* However starts, resets that time out, stops and the worker interleave, busy covers
\* exactly the run of the worker, and a run has one start.
THEOREM BusyHolds == Spec => []BusyMatchesWorker
<1>1. FlagsOK /\ IInv => BusyMatchesWorker
  BY DEF IInv, Ownership, BusyMatchesWorker, TypeOK, DataOK
<1> QED
  BY Invariance, <1>1, PTL

\* A worker without a run has left the relay off, the axis still and the brush in, unless
\* the servo could not be moved, for every interleaving with the handlers.
THEOREM RestHolds == Spec => []RestIsSafe
<1>1. IInv => RestIsSafe
  BY DEF IInv, RelayPlaces, Closing, RestIsSafe
<1> QED
  BY Invariance, <1>1, PTL

\* The worker never sleeps on with the pump running after a stop has switched it off.
THEOREM PumpOffHolds == Spec => []PumpOffWhileStopped
<1>1. IInv => PumpOffWhileStopped
  BY DEF IInv, PumpOffInDelay, PumpOffWhileStopped
<1> QED
  BY Invariance, <1>1, PTL

\* The vehicle drives home only after the end of its own cleaning run, with the outputs
\* safe.
THEOREM DrivesHomeHolds == Spec => []DrivesHomeRetracted
<1>1. IInv => DrivesHomeRetracted
  BY DEF IInv, Ownership, RelayPlaces, Closing, DoneIsOver, DrivesHomeRetracted
<1> QED
  BY Invariance, <1>1, PTL

\* With the thread priorities, the worker begins no sleep with the relay on or the brush on
\* its way out without a look at the guard in this turn that called for no retract, at the
\* sample that is still the latest, if perhaps too old by now.
THEOREM GuardedSleepHolds ==
  ASSUME Preemptive
  PROVE  Spec => GuardedSleep
<1>1. Init => LookHolds
  BY DEF Init, LookHolds, Looked
<1>2. IInv /\ LookHolds /\ [Next]_vars => LookHolds'
  BY LookHoldsStep DEF IInv
<1>3. IInv /\ LookHolds /\ [Next]_vars =>
        [wsleep' /\ ~wsleep /\ (relay_on \/ wpc = "extend_eval") =>
           /\ seen # "none"
           /\ ~CallsForRetract(seen, wpc # "extend_eval")
           /\ guard \in {seen, "stale"}]_vars
  BY GuardedStep DEF IInv
<1> QED
  BY <1>1, <1>2, <1>3, Invariance, PTL DEF Spec, GuardedSleep
=============================================================================
