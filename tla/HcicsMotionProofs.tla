------------------------- MODULE HcicsMotionProofs --------------------------
(***************************************************************************)
(* Proofs about HcicsMotion for every number of wheels, every set of        *)
(* requested speeds and every value of the speed limits and steps; and,     *)
(* behind them, about HcicsStuck for every duration and every clock.        *)
(***************************************************************************)
EXTENDS HcicsMotion, HcicsStuck, TLAPS

\* A turn of the control loop that has seen the latch open goes on with it open, because
\* nobody interrupts it.
LatchRead == cpc \in {"ramp", "output"} => ~emergency_stop

\* The path is followed only in the follow loop, and an arrival ends it: nobody but the
\* control thread, and it only there, asks for a speed.
PathOwner ==
  /\ running => mpc \in {"follow", "stop"}
  /\ finished => ~running
  /\ mpc \in {"direct_poll", "direct_command"} => target = Zero

AllZero == target = Zero /\ command = Zero

\* A latched emergency stop has zeroed the speeds, except in the stop handler between its
\* latch and its stores, and where a failed output latched it and left them.
LatchedIsZero == emergency_stop /\ upc # "zero" => AllZero \/ pwm_failed

\* A counter at its limit was followed by a fault that zeroed the speeds; the reset of
\* the next mission finds them so and clears the counter.
LimitIsZero ==
  (\E w \in Wheels : fail_count[w] = FailLimit)
    => AllZero /\ (emergency_stop \/ mpc = "reset")

\* What the mission's places promise while no output has failed: zero speeds and still
\* motors, or a latched stop whose handler has not reached its output.
Resting ==
  ~pwm_failed =>
    /\ mpc \in {"clear", "reset", "check"} => AllZero /\ ~Moving
    /\ mpc \in {"idle", "panel"} => (AllZero /\ ~Moving) \/ (emergency_stop /\ Stopping)
    /\ mpc = "pins" => AllZero
    /\ mpc = "pulses" => AllZero /\ ~stby
    /\ mret = "check" => mpc \in {"pins", "pulses"}

\* LatchedIsStill without the types.
LatchedStill == emergency_stop /\ ~Stopping /\ mpc # "pins" => ~Moving

IInv ==
  /\ DataOK /\ LatchRead /\ PathOwner /\ LatchedIsZero /\ LimitIsZero /\ Resting
  /\ LatchedStill
-----------------------------------------------------------------------------
(* Speeds.                                                                 *)

Speeds == -SpeedMax .. SpeedMax

\* A requested speed is cut to the limit and, unless it is zero, raised to the least
\* command the motors obey.
LEMMA NormalizeRange ==
  /\ \A v \in Int : Normalize(v) \in Speeds
  /\ Normalize(0) = 0
BY SpeedAssumption DEF Normalize, Clamp, PreserveDirection, Abs, Speeds

\* The ramp stays between the command and its target.
LEMMA RampRange ==
  /\ \A v, goal \in Speeds : RampToward(v, goal) \in Speeds
  /\ RampToward(0, 0) = 0
BY SpeedAssumption DEF RampToward, Speeds

\* What is sent to the motors is within the limit, boosted or not, and a boost does not
\* move a wheel whose command is zero.
LEMMA BoostRange ==
  ASSUME NEW least \in {0, BoostCmd}
  PROVE  /\ \A v \in Speeds : Clamp(PreserveDirection(v, least)) \in Speeds
         /\ Clamp(PreserveDirection(0, least)) = 0
BY SpeedAssumption DEF Clamp, PreserveDirection, Abs, Speeds

\* Standing still is a speed.
LEMMA ZeroRange == Zero \in [Wheels -> Speeds]
BY SpeedAssumption DEF Zero, Speeds

\* A target that the track module sets is a possible one; zero stays zero.
LEMMA SetMotorRange ==
  ASSUME NEW speeds \in [Wheels -> Int], target \in [Wheels -> Speeds], SetMotor(speeds)
  PROVE  /\ target' \in [Wheels -> Speeds]
         /\ emergency_stop => target' = target
         /\ speeds = Zero => target' \in {target, Zero}
<1>1. CASE emergency_stop
  BY <1>1 DEF SetMotor
<1>2. CASE ~emergency_stop
  <2>1. target' = [w \in Wheels |-> Normalize(speeds[w])]
    BY <1>2 DEF SetMotor
  <2>2. target' \in [Wheels -> Speeds]
    BY <2>1, NormalizeRange
  <2>3. speeds = Zero => target' = Zero
    BY <2>1, NormalizeRange DEF Zero
  <2> QED
    BY <1>2, <2>2, <2>3
<1> QED
  BY <1>1, <1>2

\* hcics_track_stop sets zero speeds unless the latch refuses them.
LEMMA TrackStopZero ==
  ASSUME target \in [Wheels -> Speeds], SetMotor(Zero)
  PROVE  /\ target' \in {target, Zero}
         /\ target' \in [Wheels -> Speeds]
<1>1. Zero \in [Wheels -> Int]
  BY DEF Zero
<1> QED
  BY <1>1, SetMotorRange

\* The speeds of a drive: in range, and zero if the command is.
LEMMA DriveRange ==
  ASSUME command \in [Wheels -> Speeds], NEW least \in {0, BoostCmd}
  PROVE  LET speeds == [w \in Wheels |-> Clamp(PreserveDirection(command[w], least))]
         IN /\ speeds \in [Wheels -> Speeds]
            /\ command = Zero => speeds = Zero
<1>1. \A w \in Wheels : Clamp(PreserveDirection(command[w], least)) \in Speeds
  BY BoostRange
<1>2. command = Zero => \A w \in Wheels : Clamp(PreserveDirection(command[w], least)) = 0
  BY BoostRange DEF Zero
<1> QED
  BY <1>1, <1>2 DEF Zero

\* The counters of failed readings stay within the limit, and only a fault takes one
\* there.
LEMMA FailCountRange ==
  ASSUME DataOK, LimitIsZero, NEW failing \in SUBSET Wheels
  PROVE  /\ FailCount(failing) \in [Wheels -> 0 .. FailLimit]
         /\ ~PollFault(failing) => \A w \in Wheels :
              FailCount(failing)[w] = FailLimit => fail_count[w] = FailLimit
<1>1. \A w \in Wheels : fail_count[w] \in 0 .. FailLimit
  BY DEF DataOK
<1>2. MotionRequested => \A w \in Wheels : fail_count[w] < FailLimit
  BY <1>1, SpeedAssumption DEF LimitIsZero, MotionRequested, AllZero
<1>3. ASSUME NEW w \in Wheels
      PROVE  /\ FailCount(failing)[w] \in 0 .. FailLimit
             /\ ~MotionRequested => FailCount(failing)[w] \in {0, fail_count[w]}
  <2>1. fail_count[w] \in 0 .. FailLimit /\ (MotionRequested => fail_count[w] < FailLimit)
    BY <1>1, <1>2
  <2> QED
    BY <2>1, SpeedAssumption DEF FailCount
<1>4. ASSUME ~PollFault(failing), NEW w \in Wheels, FailCount(failing)[w] = FailLimit
      PROVE  fail_count[w] = FailLimit
  <2>1. ~MotionRequested
    BY <1>4, <1>3, SpeedAssumption DEF PollFault
  <2> QED
    BY <2>1, <1>3, <1>4, SpeedAssumption
<1>5. FailCount(failing) = [w \in Wheels |-> FailCount(failing)[w]]
  BY DEF FailCount
<1> QED
  BY <1>3, <1>4, <1>5

-----------------------------------------------------------------------------
(* One lemma per part of the invariant.                                    *)

\* The flags stay Boolean.
LEMMA FlagsStep ==
  ASSUME FlagsOK, [Next]_vars
  PROVE  FlagsOK'
<1> USE DEF FlagsOK, latchVars, hwVars, trackVars, missionVars, othersFrame, TrackStop,
       SetMotor, OutputOk, PwmFail, Drive, FaultInService
<1>1. CASE CTrackQuiet
  BY Zenon, <1>1 DEF CTrackQuiet
<1>2. CASE CTrackSet
  BY Zenon, <1>2 DEF CTrackSet
<1>3. CASE CTrackFinish
  BY Zenon, <1>3 DEF CTrackFinish
<1>4. CASE CPollOk
  BY Zenon, <1>4 DEF CPollOk
<1>5. CASE CEncoderFault
  BY Zenon, <1>5 DEF CEncoderFault
<1>6. CASE CHalt
  BY Zenon, <1>6 DEF CHalt
<1>7. CASE CRamp
  BY Zenon, <1>7 DEF CRamp
<1>8. CASE CStuckFault
  BY Zenon, <1>8 DEF CStuckFault
<1>9. CASE CDrive
  BY Zenon, <1>9 DEF CDrive
<1>10. CASE MBegin
  BY Zenon, <1>10 DEF MBegin
<1>11. CASE MClear
  BY Zenon, <1>11 DEF MClear
<1>12. CASE MReset
  BY Zenon, <1>12 DEF MReset
<1>13. CASE MPins
  BY Zenon, <1>13 DEF MPins
<1>14. CASE MPulses
  BY Zenon, <1>14 DEF MPulses
<1>15. CASE MCheck
  BY Zenon, <1>15 DEF MCheck
<1>16. CASE MStartPath
  BY Zenon, <1>16 DEF MStartPath
<1>17. CASE MFollow
  BY Zenon, <1>17 DEF MFollow
<1>18. CASE MPanel
  BY Zenon, <1>18 DEF MPanel
<1>19. CASE MStop
  BY Zenon, <1>19 DEF MStop
<1>20. CASE MDirect
  BY Zenon, <1>20 DEF MDirect
<1>21. CASE MDirectPoll
  BY Zenon, <1>21 DEF MDirectPoll
<1>22. CASE MDirectCommand
  BY Zenon, <1>22 DEF MDirectCommand
<1>23. CASE UStop
  BY Zenon, <1>23 DEF UStop
<1>24. CASE UTrackStop
  BY Zenon, <1>24 DEF UTrackStop
<1>25. CASE ULatch
  BY Zenon, <1>25 DEF ULatch
<1>26. CASE UZero
  BY Zenon, <1>26 DEF UZero
<1>27. CASE UPins
  BY Zenon, <1>27 DEF UPins
<1>28. CASE UPulses
  BY Zenon, <1>28 DEF UPulses
<1>29. CASE UNCHANGED vars
  BY Zenon, <1>29 DEF vars
<1> QED
  BY <1>1, <1>2, <1>3, <1>4, <1>5, <1>6, <1>7, <1>8, <1>9, <1>10, <1>11, <1>12,
     <1>13, <1>14, <1>15, <1>16, <1>17, <1>18, <1>19, <1>20, <1>21, <1>22,
     <1>23, <1>24, <1>25, <1>26, <1>27, <1>28, <1>29
     DEF Next, ControlNext, MissionNext, UdpNext

\* The other variables keep their types, speeds and counters within their limits.
LEMMA DataStep ==
  ASSUME DataOK, LimitIsZero, [Next]_vars
  PROVE  DataOK'
<1> USE SpeedAssumption, ZeroRange DEF DataOK, Speeds, Free, MAt, UAt, TrackStop, ZeroSpeeds,
       latchVars, hwVars, trackVars, missionVars, othersFrame
<1>1. CASE CTrackQuiet
  BY <1>1 DEF CTrackQuiet
<1>2. CASE CTrackSet
  <2>1. PICK r \in Requests \cup {Zero} : SetMotor(r)
    BY <1>2 DEF CTrackSet
  <2>2. r \in [Wheels -> Int]
    BY SpeedAssumption DEF Zero
  <2> QED
    BY <1>2, <2>1, <2>2, SetMotorRange DEF CTrackSet
<1>3. CASE CTrackFinish
  BY <1>3, TrackStopZero DEF CTrackFinish
<1>4. CASE CPollOk
  BY <1>4, FailCountRange DEF CPollOk
<1>5. CASE CEncoderFault
  BY <1>5, FailCountRange DEF CEncoderFault, FaultInService, OutputOk, PwmFail
<1>6. CASE CHalt
  BY <1>6 DEF CHalt, Drive, OutputOk, PwmFail
<1>7. CASE CRamp
  <2>1. command' \in [Wheels -> Speeds]
    <3>1. \A w \in Wheels : RampToward(command[w], target[w]) \in Speeds
      BY RampRange
    <3> QED
      BY <1>7, <3>1 DEF CRamp
  <2> QED
    BY <1>7, <2>1 DEF CRamp
<1>8. CASE CStuckFault
  BY <1>8 DEF CStuckFault, FaultInService, OutputOk, PwmFail
<1>9. CASE CDrive
  <2>1. PICK least \in {0, BoostCmd} :
          Drive([w \in Wheels |-> Clamp(PreserveDirection(command[w], least))])
    BY <1>9 DEF CDrive
  <2>2. pulse' \in [Wheels -> Speeds] /\ stop_reason' \in {stop_reason, "E1"}
    BY <2>1, DriveRange DEF Drive, OutputOk, PwmFail
  <2> QED
    BY <1>9, <2>2 DEF CDrive
<1>10. CASE MBegin
  BY <1>10 DEF MBegin
<1>11. CASE MClear
  BY <1>11 DEF MClear
<1>12. CASE MReset
  BY <1>12 DEF MReset, Zero
<1>13. CASE MPins
  BY <1>13 DEF MPins
<1>14. CASE MPulses
  BY <1>14 DEF MPulses, PwmFail
<1>15. CASE MCheck
  BY <1>15 DEF MCheck
<1>16. CASE MStartPath
  BY <1>16 DEF MStartPath
<1>17. CASE MFollow
  BY <1>17 DEF MFollow
<1>18. CASE MPanel
  BY <1>18 DEF MPanel
<1>19. CASE MStop
  BY <1>19, TrackStopZero DEF MStop
<1>20. CASE MDirect
  BY <1>20 DEF MDirect
<1>21. CASE MDirectPoll
  <2>1. PICK failing \in SUBSET Wheels :
          /\ fail_count' = FailCount(failing)
          /\ IF PollFault(failing)
               THEN /\ emergency_stop' = TRUE /\ stop_reason' = "E2"
                    /\ ZeroSpeeds
                    /\ mpc' = "pins"
               ELSE /\ mpc' = "direct_command"
                    /\ UNCHANGED <<latchVars, target, command>>
    BY <1>21 DEF MDirectPoll
  <2>2. CASE PollFault(failing)
    BY <1>21, <2>1, <2>2, FailCountRange DEF MDirectPoll
  <2>3. CASE ~PollFault(failing)
    BY <1>21, <2>1, <2>3, FailCountRange DEF MDirectPoll
  <2> QED
    BY <2>2, <2>3
<1>22. CASE MDirectCommand
  BY <1>22 DEF MDirectCommand
<1>23. CASE UStop
  BY <1>23 DEF UStop
<1>24. CASE UTrackStop
  BY <1>24, TrackStopZero DEF UTrackStop
<1>25. CASE ULatch
  BY <1>25 DEF ULatch
<1>26. CASE UZero
  BY <1>26 DEF UZero
<1>27. CASE UPins
  BY <1>27 DEF UPins
<1>28. CASE UPulses
  BY <1>28 DEF UPulses, PwmFail
<1>29. CASE UNCHANGED vars
  BY <1>29 DEF vars
<1> QED
  BY <1>1, <1>2, <1>3, <1>4, <1>5, <1>6, <1>7, <1>8, <1>9, <1>10, <1>11, <1>12,
     <1>13, <1>14, <1>15, <1>16, <1>17, <1>18, <1>19, <1>20, <1>21, <1>22,
     <1>23, <1>24, <1>25, <1>26, <1>27, <1>28, <1>29
     DEF Next, ControlNext, MissionNext, UdpNext

\* The latch read at the poll is still open at the output.
LEMMA LatchReadStep ==
  ASSUME DataOK, LatchRead, [Next]_vars
  PROVE  LatchRead'
<1> USE DEF LatchRead, Free, MAt, UAt, TrackStop, ZeroSpeeds,
       latchVars, hwVars, trackVars, missionVars, othersFrame
<1>1. CASE CTrackQuiet
  BY <1>1 DEF CTrackQuiet
<1>2. CASE CTrackSet
  BY <1>2 DEF CTrackSet
<1>3. CASE CTrackFinish
  BY <1>3 DEF CTrackFinish
<1>4. CASE CPollOk
  BY <1>4 DEF CPollOk
<1>5. CASE CEncoderFault
  BY <1>5 DEF CEncoderFault, FaultInService
<1>6. CASE CHalt
  BY <1>6 DEF CHalt
<1>7. CASE CRamp
  BY <1>7 DEF CRamp
<1>8. CASE CStuckFault
  BY <1>8 DEF CStuckFault, FaultInService
<1>9. CASE CDrive
  BY <1>9 DEF CDrive
<1>10. CASE MBegin
  BY <1>10 DEF MBegin
<1>11. CASE MClear
  BY <1>11 DEF MClear
<1>12. CASE MReset
  BY <1>12 DEF MReset
<1>13. CASE MPins
  BY <1>13 DEF MPins
<1>14. CASE MPulses
  BY <1>14 DEF MPulses, PwmFail
<1>15. CASE MCheck
  BY <1>15 DEF MCheck
<1>16. CASE MStartPath
  BY <1>16 DEF MStartPath
<1>17. CASE MFollow
  BY <1>17 DEF MFollow
<1>18. CASE MPanel
  BY <1>18 DEF MPanel
<1>19. CASE MStop
  BY <1>19 DEF MStop
<1>20. CASE MDirect
  BY <1>20 DEF MDirect
<1>21. CASE MDirectPoll
  BY <1>21 DEF MDirectPoll, PollFault
<1>22. CASE MDirectCommand
  BY <1>22 DEF MDirectCommand
<1>23. CASE UStop
  BY <1>23 DEF UStop
<1>24. CASE UTrackStop
  BY <1>24 DEF UTrackStop
<1>25. CASE ULatch
  BY <1>25 DEF ULatch
<1>26. CASE UZero
  BY <1>26 DEF UZero
<1>27. CASE UPins
  BY <1>27 DEF UPins
<1>28. CASE UPulses
  BY <1>28 DEF UPulses, PwmFail
<1>29. CASE UNCHANGED vars
  BY <1>29 DEF vars
<1> QED
  BY <1>1, <1>2, <1>3, <1>4, <1>5, <1>6, <1>7, <1>8, <1>9, <1>10, <1>11, <1>12,
     <1>13, <1>14, <1>15, <1>16, <1>17, <1>18, <1>19, <1>20, <1>21, <1>22,
     <1>23, <1>24, <1>25, <1>26, <1>27, <1>28, <1>29
     DEF Next, ControlNext, MissionNext, UdpNext

\* A path runs only under the follow loop, and the direct stop keeps its target.
LEMMA PathOwnerStep ==
  ASSUME DataOK, PathOwner, [Next]_vars
  PROVE  PathOwner'
<1> USE DEF DataOK, Speeds, PathOwner, Free, MAt, UAt, TrackStop, ZeroSpeeds,
       latchVars, hwVars, trackVars, missionVars, othersFrame
<1>1. CASE CTrackQuiet
  BY <1>1 DEF CTrackQuiet
<1>2. CASE CTrackSet
  BY <1>2 DEF CTrackSet
<1>3. CASE CTrackFinish
  BY <1>3, TrackStopZero DEF CTrackFinish
<1>4. CASE CPollOk
  BY <1>4 DEF CPollOk
<1>5. CASE CEncoderFault
  BY <1>5 DEF CEncoderFault, FaultInService
<1>6. CASE CHalt
  BY <1>6 DEF CHalt
<1>7. CASE CRamp
  BY <1>7 DEF CRamp
<1>8. CASE CStuckFault
  BY <1>8 DEF CStuckFault, FaultInService
<1>9. CASE CDrive
  BY <1>9 DEF CDrive
<1>10. CASE MBegin
  BY <1>10 DEF MBegin
<1>11. CASE MClear
  BY <1>11 DEF MClear
<1>12. CASE MReset
  BY <1>12 DEF MReset
<1>13. CASE MPins
  BY <1>13 DEF MPins
<1>14. CASE MPulses
  BY <1>14 DEF MPulses, PwmFail
<1>15. CASE MCheck
  BY <1>15 DEF MCheck
<1>16. CASE MStartPath
  BY <1>16 DEF MStartPath
<1>17. CASE MFollow
  BY <1>17 DEF MFollow
<1>18. CASE MPanel
  BY <1>18 DEF MPanel
<1>19. CASE MStop
  BY <1>19, TrackStopZero DEF MStop
<1>20. CASE MDirect
  BY <1>20 DEF MDirect
<1>21. CASE MDirectPoll
  BY <1>21 DEF MDirectPoll, PollFault
<1>22. CASE MDirectCommand
  BY <1>22 DEF MDirectCommand
<1>23. CASE UStop
  BY <1>23 DEF UStop
<1>24. CASE UTrackStop
  BY <1>24, TrackStopZero DEF UTrackStop
<1>25. CASE ULatch
  BY <1>25 DEF ULatch
<1>26. CASE UZero
  BY <1>26 DEF UZero
<1>27. CASE UPins
  BY <1>27 DEF UPins
<1>28. CASE UPulses
  BY <1>28 DEF UPulses, PwmFail
<1>29. CASE UNCHANGED vars
  BY <1>29 DEF vars
<1> QED
  BY <1>1, <1>2, <1>3, <1>4, <1>5, <1>6, <1>7, <1>8, <1>9, <1>10, <1>11, <1>12,
     <1>13, <1>14, <1>15, <1>16, <1>17, <1>18, <1>19, <1>20, <1>21, <1>22,
     <1>23, <1>24, <1>25, <1>26, <1>27, <1>28, <1>29
     DEF Next, ControlNext, MissionNext, UdpNext

\* Every latch but that of a failed output zeroes the speeds, and a latched stop refuses new ones.
LEMMA LatchedIsZeroStep ==
  ASSUME DataOK, LatchRead, LatchedIsZero, [Next]_vars
  PROVE  LatchedIsZero'
<1> USE DEF DataOK, Speeds, LatchRead, LatchedIsZero, AllZero, Free, MAt, UAt, TrackStop, ZeroSpeeds,
       latchVars, hwVars, trackVars, missionVars, othersFrame
<1>1. CASE CTrackQuiet
  BY <1>1 DEF CTrackQuiet
<1>2. CASE CTrackSet
  BY <1>2 DEF CTrackSet, SetMotor
<1>3. CASE CTrackFinish
  BY <1>3, TrackStopZero DEF CTrackFinish
<1>4. CASE CPollOk
  BY <1>4 DEF CPollOk
<1>5. CASE CEncoderFault
  BY <1>5 DEF CEncoderFault, FaultInService, OutputOk, PwmFail
<1>6. CASE CHalt
  BY <1>6 DEF CHalt, Drive, OutputOk, PwmFail
<1>7. CASE CRamp
  <2>1. command = Zero /\ target = Zero => command' = Zero
    BY <1>7, RampRange DEF CRamp, Zero
  <2> QED
    BY <1>7, <2>1 DEF CRamp
<1>8. CASE CStuckFault
  BY <1>8 DEF CStuckFault, FaultInService, OutputOk, PwmFail
<1>9. CASE CDrive
  BY <1>9 DEF CDrive, Drive, OutputOk, PwmFail
<1>10. CASE MBegin
  BY <1>10 DEF MBegin
<1>11. CASE MClear
  BY <1>11 DEF MClear
<1>12. CASE MReset
  BY <1>12 DEF MReset
<1>13. CASE MPins
  BY <1>13 DEF MPins
<1>14. CASE MPulses
  BY <1>14 DEF MPulses, PwmFail
<1>15. CASE MCheck
  BY <1>15 DEF MCheck
<1>16. CASE MStartPath
  BY <1>16 DEF MStartPath
<1>17. CASE MFollow
  BY <1>17 DEF MFollow
<1>18. CASE MPanel
  BY <1>18 DEF MPanel
<1>19. CASE MStop
  BY <1>19, TrackStopZero DEF MStop
<1>20. CASE MDirect
  BY <1>20 DEF MDirect
<1>21. CASE MDirectPoll
  BY <1>21 DEF MDirectPoll, PollFault
<1>22. CASE MDirectCommand
  BY <1>22 DEF MDirectCommand
<1>23. CASE UStop
  BY <1>23 DEF UStop
<1>24. CASE UTrackStop
  BY <1>24, TrackStopZero DEF UTrackStop
<1>25. CASE ULatch
  BY <1>25 DEF ULatch
<1>26. CASE UZero
  BY <1>26 DEF UZero
<1>27. CASE UPins
  BY <1>27 DEF UPins
<1>28. CASE UPulses
  BY <1>28 DEF UPulses, PwmFail
<1>29. CASE UNCHANGED vars
  BY <1>29 DEF vars
<1> QED
  BY <1>1, <1>2, <1>3, <1>4, <1>5, <1>6, <1>7, <1>8, <1>9, <1>10, <1>11, <1>12,
     <1>13, <1>14, <1>15, <1>16, <1>17, <1>18, <1>19, <1>20, <1>21, <1>22,
     <1>23, <1>24, <1>25, <1>26, <1>27, <1>28, <1>29
     DEF Next, ControlNext, MissionNext, UdpNext

\* Between the fault and the reset nothing sets a speed.
LEMMA LimitIsZeroStep ==
  ASSUME DataOK, LatchRead, PathOwner, LimitIsZero, [Next]_vars
  PROVE  LimitIsZero'
<1> USE SpeedAssumption DEF DataOK, Speeds, LatchRead, PathOwner, LimitIsZero, AllZero,
       Free, MAt, UAt, TrackStop, ZeroSpeeds, latchVars, hwVars, trackVars, missionVars, othersFrame
<1>1. CASE CTrackQuiet
  BY <1>1 DEF CTrackQuiet
<1>2. CASE CTrackSet
  BY <1>2 DEF CTrackSet, SetMotor
<1>3. CASE CTrackFinish
  BY <1>3, TrackStopZero DEF CTrackFinish
<1>4. CASE CPollOk
  BY <1>4, FailCountRange DEF CPollOk
<1>5. CASE CEncoderFault
  BY <1>5 DEF CEncoderFault, FaultInService, PwmFail
<1>6. CASE CHalt
  BY <1>6 DEF CHalt, Drive, OutputOk, PwmFail
<1>7. CASE CRamp
  <2>1. command = Zero /\ target = Zero => command' = Zero
    BY <1>7, RampRange DEF CRamp, Zero
  <2> QED
    BY <1>7, <2>1 DEF CRamp
<1>8. CASE CStuckFault
  BY <1>8 DEF CStuckFault, FaultInService, OutputOk, PwmFail
<1>9. CASE CDrive
  BY <1>9 DEF CDrive, Drive, OutputOk, PwmFail
<1>10. CASE MBegin
  BY <1>10 DEF MBegin
<1>11. CASE MClear
  BY <1>11 DEF MClear
<1>12. CASE MReset
  BY <1>12 DEF MReset, Zero
<1>13. CASE MPins
  BY <1>13 DEF MPins
<1>14. CASE MPulses
  BY <1>14 DEF MPulses, PwmFail
<1>15. CASE MCheck
  BY <1>15 DEF MCheck
<1>16. CASE MStartPath
  BY <1>16 DEF MStartPath
<1>17. CASE MFollow
  BY <1>17 DEF MFollow
<1>18. CASE MPanel
  BY <1>18 DEF MPanel
<1>19. CASE MStop
  BY <1>19, TrackStopZero DEF MStop
<1>20. CASE MDirect
  BY <1>20 DEF MDirect
<1>21. CASE MDirectPoll
  <2>1. PICK failing \in SUBSET Wheels :
          /\ fail_count' = FailCount(failing)
          /\ IF PollFault(failing)
               THEN /\ emergency_stop' = TRUE /\ stop_reason' = "E2"
                    /\ ZeroSpeeds
                    /\ mpc' = "pins"
               ELSE /\ mpc' = "direct_command"
                    /\ UNCHANGED <<latchVars, target, command>>
    BY <1>21 DEF MDirectPoll
  <2>2. CASE PollFault(failing)
    BY <1>21, <2>1, <2>2, FailCountRange DEF MDirectPoll
  <2>3. CASE ~PollFault(failing)
    BY <1>21, <2>1, <2>3, FailCountRange DEF MDirectPoll
  <2> QED
    BY <2>2, <2>3
<1>22. CASE MDirectCommand
  BY <1>22 DEF MDirectCommand
<1>23. CASE UStop
  BY <1>23 DEF UStop
<1>24. CASE UTrackStop
  BY <1>24, TrackStopZero DEF UTrackStop
<1>25. CASE ULatch
  BY <1>25 DEF ULatch
<1>26. CASE UZero
  BY <1>26 DEF UZero
<1>27. CASE UPins
  BY <1>27 DEF UPins
<1>28. CASE UPulses
  BY <1>28 DEF UPulses, PwmFail
<1>29. CASE UNCHANGED vars
  BY <1>29 DEF vars
<1> QED
  BY <1>1, <1>2, <1>3, <1>4, <1>5, <1>6, <1>7, <1>8, <1>9, <1>10, <1>11, <1>12,
     <1>13, <1>14, <1>15, <1>16, <1>17, <1>18, <1>19, <1>20, <1>21, <1>22,
     <1>23, <1>24, <1>25, <1>26, <1>27, <1>28, <1>29
     DEF Next, ControlNext, MissionNext, UdpNext

\* What a place of the mission promises is kept by the control loop and the stop handler.
LEMMA RestingStep ==
  ASSUME DataOK, LatchRead, PathOwner, LatchedIsZero, LatchedStill, Resting, [Next]_vars
  PROVE  Resting'
<1> USE DEF DataOK, Speeds, LatchRead, PathOwner, LatchedIsZero, LatchedStill, Resting,
       AllZero, Moving, Stopping, Zero, Free, MAt, UAt, TrackStop, ZeroSpeeds,
       latchVars, hwVars, trackVars, missionVars, othersFrame
<1>1. CASE CTrackQuiet
  BY <1>1 DEF CTrackQuiet
<1>2. CASE CTrackSet
  BY <1>2 DEF CTrackSet, SetMotor
<1>3. CASE CTrackFinish
  BY <1>3, TrackStopZero DEF CTrackFinish
<1>4. CASE CPollOk
  BY <1>4 DEF CPollOk
<1>5. CASE CEncoderFault
  <2>1. pwm_failed' \/ (AllZero' /\ pulse' = Zero /\ UNCHANGED pwm_failed)
    BY <1>5 DEF CEncoderFault, FaultInService, OutputOk, PwmFail
  <2>2. cpc' = "track" /\ UNCHANGED <<mpc, mret, upc>> /\ emergency_stop'
    BY <1>5 DEF CEncoderFault, FaultInService, OutputOk, PwmFail
  <2>3. mpc = "pulses" /\ ~pwm_failed' => ~stby'
    BY <1>5, <2>1 DEF CEncoderFault, FaultInService, OutputOk, PwmFail
  <2> QED
    BY <2>1, <2>2, <2>3
<1>6. CASE CHalt
  BY <1>6 DEF CHalt, Drive, OutputOk, PwmFail
<1>7. CASE CRamp
  <2>1. command = Zero /\ target = Zero => command' = Zero
    BY <1>7, RampRange DEF CRamp, Zero
  <2> QED
    BY <1>7, <2>1 DEF CRamp
<1>8. CASE CStuckFault
  <2>1. pwm_failed' \/ (AllZero' /\ pulse' = Zero /\ UNCHANGED pwm_failed)
    BY <1>8 DEF CStuckFault, FaultInService, OutputOk, PwmFail
  <2>2. cpc' = "track" /\ UNCHANGED <<mpc, mret, upc>> /\ emergency_stop'
    BY <1>8 DEF CStuckFault, FaultInService, OutputOk, PwmFail
  <2>3. mpc = "pulses" /\ ~pwm_failed' => ~stby'
    BY <1>8, <2>1 DEF CStuckFault, FaultInService, OutputOk, PwmFail
  <2> QED
    BY <2>1, <2>2, <2>3
<1>9. CASE CDrive
  <2>1. PICK least \in {0, BoostCmd} :
          Drive([w \in Wheels |-> Clamp(PreserveDirection(command[w], least))])
    BY <1>9 DEF CDrive
  <2>2. pwm_failed' \/ (UNCHANGED <<latchVars, pwm_failed>> /\ (AllZero => ~stby'))
    BY <2>1, DriveRange DEF Drive, OutputOk, PwmFail, Zero
  <2> QED
    BY <1>9, <2>2 DEF CDrive
<1>10. CASE MBegin
  BY <1>10 DEF MBegin
<1>11. CASE MClear
  BY <1>11 DEF MClear
<1>12. CASE MReset
  BY <1>12 DEF MReset
<1>13. CASE MPins
  BY <1>13 DEF MPins
<1>14. CASE MPulses
  BY <1>14 DEF MPulses, PwmFail
<1>15. CASE MCheck
  BY <1>15 DEF MCheck
<1>16. CASE MStartPath
  BY <1>16 DEF MStartPath
<1>17. CASE MFollow
  BY <1>17 DEF MFollow
<1>18. CASE MPanel
  BY <1>18 DEF MPanel
<1>19. CASE MStop
  BY <1>19, TrackStopZero DEF MStop
<1>20. CASE MDirect
  BY <1>20 DEF MDirect
<1>21. CASE MDirectPoll
  BY <1>21 DEF MDirectPoll, PollFault
<1>22. CASE MDirectCommand
  BY <1>22 DEF MDirectCommand
<1>23. CASE UStop
  BY <1>23 DEF UStop
<1>24. CASE UTrackStop
  BY <1>24, TrackStopZero DEF UTrackStop
<1>25. CASE ULatch
  BY <1>25 DEF ULatch
<1>26. CASE UZero
  BY <1>26 DEF UZero
<1>27. CASE UPins
  BY <1>27 DEF UPins
<1>28. CASE UPulses
  BY <1>28 DEF UPulses, PwmFail
<1>29. CASE UNCHANGED vars
  BY <1>29 DEF vars
<1> QED
  BY <1>1, <1>2, <1>3, <1>4, <1>5, <1>6, <1>7, <1>8, <1>9, <1>10, <1>11, <1>12,
     <1>13, <1>14, <1>15, <1>16, <1>17, <1>18, <1>19, <1>20, <1>21, <1>22,
     <1>23, <1>24, <1>25, <1>26, <1>27, <1>28, <1>29
     DEF Next, ControlNext, MissionNext, UdpNext

\* No step drives the motors under a latch.
LEMMA StillStep ==
  ASSUME DataOK, LatchRead, LatchedStill, [Next]_vars
  PROVE  LatchedStill'
<1> USE DEF DataOK, Speeds, LatchRead, LatchedStill, Moving, Stopping, Zero,
       Free, MAt, UAt, TrackStop, ZeroSpeeds, latchVars, hwVars, trackVars, missionVars, othersFrame
<1>1. CASE CTrackQuiet
  BY <1>1 DEF CTrackQuiet
<1>2. CASE CTrackSet
  BY <1>2 DEF CTrackSet, SetMotor
<1>3. CASE CTrackFinish
  BY <1>3, TrackStopZero DEF CTrackFinish
<1>4. CASE CPollOk
  BY <1>4 DEF CPollOk
<1>5. CASE CEncoderFault
  <2>1. stby' = FALSE \/ pulse' = Zero
    BY <1>5 DEF CEncoderFault, FaultInService, OutputOk, PwmFail
  <2> QED
    BY <2>1
<1>6. CASE CHalt
  BY <1>6 DEF CHalt, Drive, OutputOk, PwmFail
<1>7. CASE CRamp
  <2>1. command = Zero /\ target = Zero => command' = Zero
    BY <1>7, RampRange DEF CRamp, Zero
  <2> QED
    BY <1>7, <2>1 DEF CRamp
<1>8. CASE CStuckFault
  <2>1. stby' = FALSE \/ pulse' = Zero
    BY <1>8 DEF CStuckFault, FaultInService, OutputOk, PwmFail
  <2> QED
    BY <2>1
<1>9. CASE CDrive
  BY <1>9 DEF CDrive, Drive, OutputOk, PwmFail
<1>10. CASE MBegin
  BY <1>10 DEF MBegin
<1>11. CASE MClear
  BY <1>11 DEF MClear
<1>12. CASE MReset
  BY <1>12 DEF MReset
<1>13. CASE MPins
  BY <1>13 DEF MPins
<1>14. CASE MPulses
  BY <1>14 DEF MPulses, PwmFail
<1>15. CASE MCheck
  BY <1>15 DEF MCheck
<1>16. CASE MStartPath
  BY <1>16 DEF MStartPath
<1>17. CASE MFollow
  BY <1>17 DEF MFollow
<1>18. CASE MPanel
  BY <1>18 DEF MPanel
<1>19. CASE MStop
  BY <1>19, TrackStopZero DEF MStop
<1>20. CASE MDirect
  BY <1>20 DEF MDirect
<1>21. CASE MDirectPoll
  BY <1>21 DEF MDirectPoll, PollFault
<1>22. CASE MDirectCommand
  BY <1>22 DEF MDirectCommand
<1>23. CASE UStop
  BY <1>23 DEF UStop
<1>24. CASE UTrackStop
  BY <1>24, TrackStopZero DEF UTrackStop
<1>25. CASE ULatch
  BY <1>25 DEF ULatch
<1>26. CASE UZero
  BY <1>26 DEF UZero
<1>27. CASE UPins
  BY <1>27 DEF UPins
<1>28. CASE UPulses
  BY <1>28 DEF UPulses, PwmFail
<1>29. CASE UNCHANGED vars
  BY <1>29 DEF vars
<1> QED
  BY <1>1, <1>2, <1>3, <1>4, <1>5, <1>6, <1>7, <1>8, <1>9, <1>10, <1>11, <1>12,
     <1>13, <1>14, <1>15, <1>16, <1>17, <1>18, <1>19, <1>20, <1>21, <1>22,
     <1>23, <1>24, <1>25, <1>26, <1>27, <1>28, <1>29
     DEF Next, ControlNext, MissionNext, UdpNext

-----------------------------------------------------------------------------
(* The theorems.                                                           *)

\* The invariant holds initially.
LEMMA InitInv == Init => FlagsOK /\ IInv
<1> SUFFICES ASSUME Init PROVE FlagsOK /\ IInv
  OBVIOUS
<1>1. FlagsOK
  BY Zenon DEF Init, FlagsOK
<1>2. DataOK /\ LimitIsZero
  BY SpeedAssumption, ZeroRange DEF Init, DataOK, LimitIsZero, Speeds, Zero, AllZero
<1>3. LatchRead /\ PathOwner /\ LatchedIsZero /\ Resting /\ LatchedStill
  BY DEF Init, LatchRead, PathOwner, LatchedIsZero, Resting, LatchedStill, AllZero, Moving,
     Stopping
<1> QED
  BY <1>1, <1>2, <1>3 DEF IInv

\* Every step keeps it.
LEMMA NextInv == ASSUME FlagsOK, IInv, [Next]_vars PROVE (FlagsOK /\ IInv)'
BY FlagsStep, DataStep, LatchReadStep, PathOwnerStep, LatchedIsZeroStep, LimitIsZeroStep,
   RestingStep, StillStep DEF IInv

\* The invariant of the motion control.
THEOREM Invariance == Spec => [](FlagsOK /\ IInv)
BY InitInv, NextInv, PTL DEF Spec

\* A latched emergency stop means motors off outside the handlers on their way to it,
\* for every crossing of a tick, a direct target and a stop and every output that fails;
\* speeds stay within SpeedMax and the failure counters within FailLimit.
THEOREM LatchedHolds == Spec => []LatchedIsStill
<1>1. FlagsOK /\ IInv => LatchedIsStill
  BY DEF IInv, LatchedStill, LatchedIsStill, TypeOK
<1> QED
  BY Invariance, <1>1, PTL

\* The vehicle stands before, between and after the drives of a mission, unless an output
\* has failed or a stop is on its way.
THEOREM RestHolds == Spec => []StillAtRest
<1>1. IInv => StillAtRest
  BY DEF IInv, Resting, StillAtRest
<1> QED
  BY Invariance, <1>1, PTL

-----------------------------------------------------------------------------
(***************************************************************************)
(* The stall timers of the same loop, HcicsStuck, which sees of the motion  *)
(* control only the latch.                                                  *)
(***************************************************************************)

\* How long the stall timer has run, and how far the end of the boost is ahead.
Age == Elapsed(now, stuck_start_ms)
BoostLeft == boost_until_ms - now

\* A stall that has seen the wrap of the clock may have lost a turn there: a timer set at
\* time 0 counts as not set.
Round == IF stall_since >= now THEN MaxGap ELSE 0

\* The types, without the flags; the flags.
TimersOK ==
  /\ now \in Times /\ stuck_start_ms \in Times /\ boost_until_ms \in Times
  /\ stuck_boost_count \in 0 .. 2
  /\ stall_since \in Nat \cup {NoStall} /\ boost_age \in 0 .. Hold

StuckFlags ==
  /\ emergency_stop \in BOOLEAN /\ at_rest \in BOOLEAN
  /\ boosted \in BOOLEAN /\ e3 \in BOOLEAN

\* The end of a boost is ahead in this round of the clock, and within its time unless it
\* has been missed: then it lay between two turns about the wrap.
BoostKnown ==
  /\ boosted = TRUE => boost_until_ms # 0
  /\ boost_until_ms # 0 =>
       /\ now < boost_until_ms
       /\ boost_age + BoostLeft <= Hold \/ boost_until_ms > ClockMod - MaxGap

\* The stall timer runs only in a stall, not longer than the stall and not as long as
\* Fail.  A stall begins without boosts.  The timer is off during a boost only when
\* the vehicle moves, or when its stall was noticed at time 0.
Timers ==
  emergency_stop = FALSE =>
    /\ stuck_start_ms # 0 => stall_since # NoStall /\ Age <= stall_since /\ Age < Fail
    /\ stall_since = NoStall => at_rest = TRUE \/ stuck_boost_count = 0
    /\ stuck_start_ms = 0 /\ boost_until_ms # 0 =>
         stuck_boost_count = 0 /\ stall_since <= 0 /\ (stall_since = 0 => now = 0)

\* A stall with boosts has lasted for a trigger time before the present one, except that a
\* boost whose end is the time 0 is none at all and leaves the timer on.
AtLeast ==
  emergency_stop = FALSE /\ stall_since # NoStall =>
    /\ stuck_boost_count > 0 => stall_since >= Trigger
    /\ stuck_boost_count > 0 /\ stuck_start_ms # 0 /\ boost_until_ms = 0 =>
         \/ stall_since >= Age + Trigger
         \/ stuck_boost_count = 1 /\ now = ClockMod - Hold /\ Age >= Trigger
         \/ stuck_boost_count = 2 /\ stall_since >= 2 * Trigger

\* A stall that begins during the boost of an earlier one: that boost ends in its time, or
\* it had missed its end and has the failure timer to bound it.
OldBoost == boost_until_ms # 0 /\ stuck_boost_count = 0

Stale ==
  emergency_stop = FALSE /\ stall_since # NoStall /\ OldBoost =>
    /\ stuck_start_ms # 0 => stall_since <= Age + Round
    /\ stall_since + BoostLeft <= Hold \/ boost_until_ms > ClockMod - MaxGap

\* How long that delays the stall's own first trigger.
Short == Hold + MaxGap - 1
Long == Fail - 1

\* The age of a stall when the stall timer starts after n boosts: each costs a trigger
\* time and a hold time, a late turn for either end and one for the start of the timer.
Wait(lead, n) ==
  LET round == Trigger + Hold + 3 * MaxGap - 2
  IN lead + MaxGap + (IF n = 0 THEN 0 ELSE IF n = 1 THEN round ELSE 2 * round)

\* Between the boosts.
Waiting(lead) ==
  /\ boost_until_ms = 0
  /\ stuck_start_ms = 0 => stall_since <= Wait(lead, stuck_boost_count) - MaxGap + Round
  /\ stuck_start_ms # 0 => stall_since <= Wait(lead, stuck_boost_count) + Age + Round
  /\ stuck_start_ms # 0 /\ Age >= Trigger =>
       stuck_boost_count > 0 /\ stall_since <= Wait(lead, stuck_boost_count) - MaxGap + Round

\* In a boost of this stall.
Boosting(lead) ==
  /\ boost_until_ms # 0 /\ stuck_boost_count > 0
  /\ stall_since <= Wait(lead, stuck_boost_count - 1) + Age + Round

\* The boost has not missed its end, or it has, and the clock has just begun a new round.
InTime(lead) ==
  /\ BoostLeft <= Hold
  /\ stall_since + BoostLeft <=
       Wait(lead, stuck_boost_count - 1) + Trigger - 1 + MaxGap + Hold + Round

Missed == boost_until_ms > ClockMod - MaxGap /\ now <= Age + MaxGap

\* Where a stall is.  A long lead ends at the wrap of the clock; as the whole stall is
\* shorter than a round, none of its own boosts can miss its end then.
Progress ==
  emergency_stop = FALSE /\ stall_since # NoStall /\ ~OldBoost =>
    \/ Waiting(Short)
    \/ Waiting(Long) /\ (stall_since >= now \/ now > ClockMod - MaxGap)
    \/ Boosting(Short) /\ (InTime(Short) \/ Missed)
    \/ Boosting(Long) /\ InTime(Long) /\ stall_since >= now

StuckInv ==
  /\ TimersOK /\ StuckFlags /\ BoostKnown /\ Timers /\ AtLeast /\ Stale /\ Progress
  /\ StallStopped

-----------------------------------------------------------------------------
(* What a turn does, case by case.                                        *)

\* The clock gap units later.
Later(gap) == IF now + gap < ClockMod THEN now + gap ELSE now + gap - ClockMod

\* The boost of the last turn, if any, goes on, or it is over.
BoostRuns(gap) ==
  \/ /\ boost_until_ms = 0 /\ boost_until_ms' = 0
     /\ boosted' = FALSE /\ boost_age' = 0
  \/ /\ boost_until_ms # 0 /\ now' < boost_until_ms /\ boost_until_ms' = boost_until_ms
     /\ boosted' = TRUE
     /\ boost_age' = IF boost_age + gap < Hold THEN boost_age + gap ELSE Hold

BoostIsOver ==
  /\ boost_until_ms # 0 /\ ~(now' < boost_until_ms) /\ boost_until_ms' = 0
  /\ boosted' = FALSE /\ boost_age' = 0

\* The vehicle moves.
TurnMoves(gap) ==
  /\ stuck_start_ms' = 0 /\ stuck_boost_count' = 0 /\ stall_since' = NoStall
  /\ BoostRuns(gap) \/ BoostIsOver
  /\ UNCHANGED <<emergency_stop, e3>>

\* The vehicle is commanded and does not move.
Stalls(gap) ==
  /\ at_rest = FALSE
  /\ stall_since' = IF stall_since = NoStall THEN 0 ELSE stall_since + gap

\* A stalled turn that starts the timer.
TurnStarts(gap) ==
  /\ Stalls(gap) /\ stuck_start_ms = 0
  /\ stuck_start_ms' = now' /\ stuck_boost_count' = stuck_boost_count
  /\ BoostRuns(gap)
  /\ UNCHANGED <<emergency_stop, e3>>

\* A stalled turn that only lets the timer run.
TurnGoesOn(gap) ==
  /\ Stalls(gap) /\ stuck_start_ms # 0
  /\ Age + gap < Fail /\ (boost_until_ms # 0 \/ Age + gap < Trigger)
  /\ stuck_start_ms' = stuck_start_ms /\ stuck_boost_count' = stuck_boost_count
  /\ BoostRuns(gap)
  /\ UNCHANGED <<emergency_stop, e3>>

\* A stalled turn that ends a boost.
TurnEnds(gap) ==
  /\ Stalls(gap) /\ (stuck_start_ms # 0 => Age + gap < Fail)
  /\ stuck_start_ms' = 0 /\ stuck_boost_count' = stuck_boost_count
  /\ BoostIsOver
  /\ UNCHANGED <<emergency_stop, e3>>

\* A stalled turn that begins a boost, which lasts no longer than the round of the clock.
TurnBoosts(gap) ==
  /\ Stalls(gap) /\ stuck_start_ms # 0 /\ boost_until_ms = 0
  /\ Trigger <= Age + gap /\ Age + gap < Fail
  /\ stuck_boost_count < 2 /\ stuck_boost_count' = stuck_boost_count + 1
  /\ boost_age' = 0
  /\ \/ /\ now' + Hold < ClockMod /\ boost_until_ms' = now' + Hold
        /\ stuck_start_ms' = stuck_start_ms /\ boosted' = TRUE
     \/ /\ now' + Hold = ClockMod /\ boost_until_ms' = 0
        /\ stuck_start_ms' = stuck_start_ms /\ boosted' = FALSE
     \/ /\ now' + Hold > ClockMod /\ boost_until_ms' = 0
        /\ stuck_start_ms' = 0 /\ boosted' = FALSE
  /\ UNCHANGED <<emergency_stop, e3>>

\* A stalled turn that gives up.
TurnGivesUp(gap) ==
  /\ Stalls(gap) /\ stuck_start_ms # 0
  /\ Age + gap >= Fail \/ (Age + gap >= Trigger /\ boost_until_ms = 0 /\ stuck_boost_count = 2)
  /\ stuck_start_ms' = stuck_start_ms
  /\ stuck_boost_count' \in 0 .. 2
  /\ boost_until_ms' = 0 /\ boost_age' = 0 /\ boosted' = FALSE
  /\ emergency_stop' = TRUE /\ e3' = TRUE

-----------------------------------------------------------------------------
\* The constants as numbers.
LEMMA StuckNumbers ==
  /\ Trigger \in Nat \ {0} /\ Hold \in Nat \ {0} /\ Fail \in Nat \ {0}
  /\ MaxGap \in Nat \ {0} /\ ClockMod \in Nat \ {0} /\ MaxBoosts = 2
  /\ MaxGap <= Hold /\ Hold + MaxGap <= Fail /\ 2 * Trigger <= Fail
  /\ Fail + 2 * Hold + 3 * Trigger + 9 * MaxGap < ClockMod
BY StuckAssumption

\* What the difference of two clock values is, with and without a wrap between them.
LEMMA ElapsedIs ==
  ASSUME NEW t \in Times, NEW s \in Times
  PROVE  Elapsed(t, s) = IF t >= s THEN t - s ELSE t - s + ClockMod
BY StuckNumbers DEF Elapsed, Times

\* The end of a round of the clock.
LEMMA WrapIs ==
  ASSUME NEW t \in Times, NEW d \in Nat, d < ClockMod
  PROVE  /\ (t + d) % ClockMod = IF t + d < ClockMod THEN t + d ELSE t + d - ClockMod
         /\ (t + d) % ClockMod \in Times
BY StuckNumbers DEF Times

\* A timer that runs ages with the clock.
LEMMA AgeGrows ==
  ASSUME TimersOK, stuck_start_ms # 0, Age < Fail, NEW gap \in 1 .. MaxGap
  PROVE  /\ Age \in Nat
         /\ Elapsed(Later(gap), stuck_start_ms) = Age + gap
<1>1. /\ now \in 0 .. ClockMod - 1 /\ Later(gap) \in 0 .. ClockMod - 1
      /\ stuck_start_ms \in 0 .. ClockMod - 1
  BY StuckNumbers DEF TimersOK, Times, Later
<1>2. Age = IF now >= stuck_start_ms THEN now - stuck_start_ms
            ELSE now - stuck_start_ms + ClockMod
  BY <1>1, ElapsedIs DEF Age, Times
<1>3. Elapsed(Later(gap), stuck_start_ms) =
        IF Later(gap) >= stuck_start_ms THEN Later(gap) - stuck_start_ms
        ELSE Later(gap) - stuck_start_ms + ClockMod
  BY <1>1, ElapsedIs DEF Times
<1> HIDE DEF Age
<1> QED
  BY <1>1, <1>2, <1>3, StuckNumbers DEF Later

\* What a turn of the control loop does, case by case and without the remainders.
LEMMA TurnIs ==
  ASSUME TimersOK, Turn, StuckFlags,
         stuck_start_ms # 0 => Age < Fail
  PROVE  /\ emergency_stop = FALSE /\ at_rest' = FALSE
         /\ \E gap \in 1 .. MaxGap :
              /\ now' = Later(gap)
              /\ \/ TurnMoves(gap) \/ TurnStarts(gap) \/ TurnGoesOn(gap) \/ TurnEnds(gap)
                 \/ TurnBoosts(gap) \/ TurnGivesUp(gap)
<1>1. PICK gap \in 1 .. MaxGap, stalled \in BOOLEAN :
        /\ stalled => ~at_rest
        /\ now' = (now + gap) % ClockMod
        /\ at_rest' = FALSE
        /\ \/ TurnFault((now + gap) % ClockMod, gap, stalled)
           \/ TurnDrive((now + gap) % ClockMod, gap, stalled)
  BY Zenon DEF Turn
<1> DEFINE t == (now + gap) % ClockMod
<1>2. t = Later(gap) /\ t \in Times
  BY WrapIs, StuckNumbers DEF TimersOK, Later
<1>3. stuck_start_ms # 0 => Age \in Nat /\ Elapsed(t, stuck_start_ms) = Age + gap
  BY <1>2, AgeGrows
<1>4. Elapsed(t, t) = 0
  <2>1. Elapsed(t, t) = t - t
    BY <1>2, ElapsedIs DEF Times
  <2> QED
    BY <1>2, <2>1 DEF Times
<1>6. now' = t /\ (TurnFault(t, gap, stalled) \/ TurnDrive(t, gap, stalled))
  BY Zenon, <1>1
<1> HIDE DEF t
<1>5. (t + Hold) % ClockMod = IF t + Hold < ClockMod THEN t + Hold ELSE t + Hold - ClockMod
  <2>1. Hold \in Nat /\ Hold < ClockMod
    BY StuckNumbers
  <2> QED
    BY <1>2, <2>1, WrapIs
<1>7. emergency_stop = FALSE
  BY Zenon DEF Turn, StuckFlags
<1>8. CASE ~stalled
  <2>1. /\ ~BoostDue(t, stalled) /\ ~OutOfBoosts(t, stalled)
        /\ ~TimedOut(t, stalled)
    BY Zenon, <1>8 DEF BoostDue, OutOfBoosts, TimedOut
  <2>2. /\ StuckStart(t, stalled) = 0 /\ BoostUntil(t, stalled) = boost_until_ms
        /\ BoostCount(t, stalled) = 0 /\ StallAge(gap, stalled) = NoStall
    BY Zenon, <1>8, <2>1
       DEF StuckStart, BoostUntil, BoostCount, StallAge
  <2>3. TurnDrive(t, gap, stalled)
    BY Zenon, <1>6, <2>1 DEF TurnFault
  <2>4. TurnMoves(gap)
    BY Zenon, <1>6, <2>1, <2>2, <2>3
       DEF TurnDrive, BoostOn, BoostAge, TurnMoves, BoostRuns, BoostIsOver
  <2> QED
    BY <1>1, <1>2, <1>6, <1>7, <2>4
<1>9. CASE stalled
  <2>1. /\ StallAge(gap, stalled) =
             IF stall_since = NoStall THEN 0 ELSE stall_since + gap
        /\ StuckStart(t, stalled) = IF stuck_start_ms = 0 THEN t ELSE stuck_start_ms
        /\ BoostDue(t, stalled) <=>
             stuck_start_ms # 0 /\ Age + gap >= Trigger /\ boost_until_ms = 0
        /\ TimedOut(t, stalled) <=> stuck_start_ms # 0 /\ Age + gap >= Fail
        /\ OutOfBoosts(t, stalled) <=>
             /\ stuck_start_ms # 0 /\ Age + gap >= Trigger /\ boost_until_ms = 0
             /\ stuck_boost_count = 2
    BY <1>3, <1>4, <1>9, StuckNumbers
       DEF StallAge, StuckStart, BoostDue, TimedOut, OutOfBoosts,
           TimersOK
  <2>2. at_rest = FALSE
    BY Zenon, <1>1, <1>9 DEF StuckFlags
  <2>3. CASE TurnFault(t, gap, stalled)
    <3>1. BoostCount(t, stalled) =
            IF stuck_start_ms # 0 /\ Age + gap >= Trigger /\ boost_until_ms = 0
            THEN stuck_boost_count + 1 ELSE stuck_boost_count
      BY Zenon, <1>9, <2>1 DEF BoostCount
    <3>2. stuck_boost_count' \in 0 .. 2
      <4>1. CASE OutOfBoosts(t, stalled)
        BY <2>3, <4>1 DEF TurnFault, TimersOK
      <4>2. CASE ~OutOfBoosts(t, stalled)
        <5>1. stuck_boost_count' = BoostCount(t, stalled)
          BY Zenon, <2>3, <4>2 DEF TurnFault
        <5>2. ~(/\ stuck_start_ms # 0 /\ Age + gap >= Trigger /\ boost_until_ms = 0
                /\ stuck_boost_count = 2)
          BY Zenon, <2>1, <4>2
        <5>3. CASE stuck_start_ms # 0 /\ Age + gap >= Trigger /\ boost_until_ms = 0
          <6>1. stuck_boost_count' = stuck_boost_count + 1 /\ stuck_boost_count # 2
            BY Zenon, <3>1, <5>1, <5>2, <5>3
          <6> QED
            BY <6>1 DEF TimersOK
        <5>4. CASE ~(stuck_start_ms # 0 /\ Age + gap >= Trigger /\ boost_until_ms = 0)
          <6>1. stuck_boost_count' = stuck_boost_count
            BY Zenon, <3>1, <5>1, <5>4
          <6> QED
            BY <6>1 DEF TimersOK
        <5> QED
          BY Zenon, <5>3, <5>4
      <4> QED
        BY <4>1, <4>2
    <3>3. TurnGivesUp(gap)
      BY Zenon, <2>1, <2>2, <2>3, <3>2 DEF TurnFault, TurnGivesUp, Stalls
    <3> QED
      BY <1>1, <1>2, <1>6, <1>7, <3>3
  <2>4. CASE TurnDrive(t, gap, stalled)
    <3>1. /\ ~TimedOut(t, stalled) /\ ~OutOfBoosts(t, stalled)
          /\ stall_since' = StallAge(gap, stalled) /\ UNCHANGED <<emergency_stop, e3>>
          /\ stuck_boost_count' = BoostCount(t, stalled)
      BY <2>4 DEF TurnDrive
    <3>2. Stalls(gap)
      BY <2>1, <2>2, <3>1 DEF Stalls
    <3>3. CASE BoostDue(t, stalled)
      <4>1. /\ BoostUntil(t, stalled) = (t + Hold) % ClockMod
            /\ BoostCount(t, stalled) = stuck_boost_count + 1
            /\ BoostAge(t, gap, stalled) = 0
        BY Zenon, <3>3 DEF BoostUntil, BoostCount, BoostAge
      <4>2. /\ stuck_start_ms # 0 /\ boost_until_ms = 0 /\ Age + gap >= Trigger
            /\ ~(Age + gap >= Fail) /\ stuck_boost_count # 2
        BY Zenon, <2>1, <3>1, <3>3
      <4>3. /\ stuck_boost_count < 2 /\ Age + gap < Fail
        BY <1>3, <4>2, StuckNumbers DEF TimersOK
      <4> DEFINE end == (t + Hold) % ClockMod
                 on == end # 0 /\ t < end
      <4>4. /\ t + Hold < ClockMod => end = t + Hold /\ on
            /\ t + Hold = ClockMod => end = 0 /\ ~on
            /\ t + Hold > ClockMod => end # 0 /\ ~on
            /\ t + Hold < ClockMod \/ t + Hold = ClockMod \/ t + Hold > ClockMod
        BY <1>2, <1>5, StuckNumbers DEF Times
      <4>5. /\ boosted' = on
            /\ boost_until_ms' = IF end # 0 /\ ~on THEN 0 ELSE end
            /\ stuck_start_ms' = IF end # 0 /\ ~on THEN 0 ELSE stuck_start_ms
            /\ boost_age' = 0
        BY Zenon, <2>1, <2>4, <4>1, <4>2 DEF TurnDrive, BoostOn
      <4> HIDE DEF end, on
      <4>6. on \in BOOLEAN
        BY DEF on
      <4>7. on = TRUE \/ on = FALSE
        BY Zenon, <4>6
      <4>8. TurnBoosts(gap)
        BY Zenon, <1>6, <3>1, <3>2, <4>1, <4>2, <4>3, <4>4, <4>5, <4>7 DEF TurnBoosts
      <4> QED
        BY <1>1, <1>2, <1>6, <1>7, <4>8
    <3>4. CASE ~BoostDue(t, stalled)
      <4>1. /\ BoostUntil(t, stalled) = boost_until_ms
            /\ BoostCount(t, stalled) = stuck_boost_count
            /\ BoostAge(t, gap, stalled) =
                 IF boost_until_ms = 0 THEN 0
                 ELSE IF boost_age + gap < Hold THEN boost_age + gap ELSE Hold
        BY Zenon, <1>9, <3>4 DEF BoostUntil, BoostCount, BoostAge
      <4>2. stuck_start_ms # 0 => Age + gap < Fail /\ (boost_until_ms # 0 \/ Age + gap < Trigger)
        BY <1>3, <2>1, <3>1, <3>4, StuckNumbers
      <4>3. TurnStarts(gap) \/ TurnGoesOn(gap) \/ TurnEnds(gap)
        BY Zenon, <1>6, <2>1, <2>4, <3>1, <3>2, <4>1, <4>2
           DEF TurnDrive, BoostOn, TurnStarts, TurnGoesOn, TurnEnds, BoostRuns,
               BoostIsOver
      <4> QED
        BY <1>1, <1>2, <1>6, <1>7, <4>3
    <3> QED
      BY <3>3, <3>4
  <2> QED
    BY <1>6, <2>3, <2>4
<1> QED
  BY <1>8, <1>9

\* How old the stall timer is after a turn.
LEMMA NextAge ==
  ASSUME TimersOK, NEW gap \in 1 .. MaxGap, now' = Later(gap)
  PROVE  /\ now' \in Times
         /\ stuck_start_ms # 0 /\ stuck_start_ms' = stuck_start_ms /\ Age < Fail =>
              Age \in Nat /\ Age' = Age + gap
         /\ stuck_start_ms' = now' => Age' = 0
<1>1. now' \in Times
  BY StuckNumbers DEF TimersOK, Times, Later
<1>2. ASSUME stuck_start_ms # 0, stuck_start_ms' = stuck_start_ms, Age < Fail
      PROVE  Age \in Nat /\ Age' = Age + gap
  <2>1. Age' = Elapsed(Later(gap), stuck_start_ms)
    BY Zenon, <1>2 DEF Age, Elapsed
  <2> QED
    BY <1>2, <2>1, AgeGrows
<1>3. ASSUME stuck_start_ms' = now' PROVE Age' = 0
  <2>1. Age' = Elapsed(now', now')
    BY Zenon, <1>3 DEF Age, Elapsed
  <2>2. Elapsed(now', now') = now' - now'
    BY <1>1, ElapsedIs DEF Times
  <2> QED
    BY <1>1, <2>1, <2>2 DEF Times
<1> QED
  BY <1>1, <1>2, <1>3

\* The other steps: the timers are cleared, or a fault latches the stop and leaves them.
TimersCleared ==
  /\ stuck_start_ms' = 0 /\ boost_until_ms' = 0 /\ stall_since' = NoStall
  /\ boost_age' = 0 /\ boosted' = FALSE
  /\ stuck_boost_count' = 0 \/ (stuck_boost_count' = stuck_boost_count /\ at_rest' = TRUE)
  /\ now' \in Times
  /\ e3' = e3 \/ e3' = FALSE

TimersLeft ==
  /\ UNCHANGED <<stuck_start_ms, boost_until_ms, stuck_boost_count, now, e3>>
  /\ emergency_stop' = TRUE /\ boosted' = FALSE
  /\ stall_since' = NoStall /\ boost_age' = 0

\* Every step is one of these or a turn.
LEMMA StepIs ==
  ASSUME TimersOK, [StallNext]_stallVars
  PROVE  Turn \/ TimersCleared \/ TimersLeft \/ UNCHANGED stallVars
<1>1. \A gap \in 1 .. MaxGap : (now + gap) % ClockMod \in Times
  BY WrapIs, StuckNumbers DEF TimersOK
<1>2. CASE TurnNoFeedback
  BY Zenon, <1>1, <1>2 DEF TurnNoFeedback, TimersCleared
<1>3. CASE EmergencyStop
  BY Zenon, <1>3 DEF EmergencyStop, Halt, TimersCleared, TimersOK
<1>4. CASE OtherFault
  BY Zenon, <1>4 DEF OtherFault, timerVars, TimersLeft
<1>5. CASE TurnLatched
  BY Zenon, <1>1, <1>5 DEF TurnLatched, Halt, TimersCleared
<1>6. CASE Direct
  BY Zenon, <1>6 DEF Direct, Halt, TimersCleared, TimersOK
<1>7. CASE Reset
  BY Zenon, <1>7 DEF Reset, Halt, TimersCleared, TimersOK
<1> QED
  BY <1>2, <1>3, <1>4, <1>5, <1>6, <1>7 DEF StallNext

\* The flags stay Boolean.
LEMMA StuckFlagsStep ==
  ASSUME StuckFlags, [StallNext]_stallVars
  PROVE  StuckFlags'
<1> USE DEF StuckFlags
<1>1. CASE Turn
  <2>1. PICK gap, stalled, t :
          /\ at_rest' = FALSE
          /\ TurnFault(t, gap, stalled) \/ TurnDrive(t, gap, stalled)
    BY Zenon, <1>1 DEF Turn
  <2>2. CASE TurnFault(t, gap, stalled)
    BY Zenon, <2>1, <2>2 DEF TurnFault
  <2>3. CASE TurnDrive(t, gap, stalled)
    BY Zenon, <2>1, <2>3 DEF TurnDrive, BoostOn
  <2> QED
    BY <2>1, <2>2, <2>3
<1>2. CASE TurnNoFeedback
  BY Zenon, <1>2 DEF TurnNoFeedback
<1>3. CASE EmergencyStop
  BY Zenon, <1>3 DEF EmergencyStop, Halt
<1>4. CASE OtherFault
  BY Zenon, <1>4 DEF OtherFault
<1>5. CASE TurnLatched
  BY Zenon, <1>5 DEF TurnLatched, Halt
<1>6. CASE Direct
  BY Zenon, <1>6 DEF Direct, Halt
<1>7. CASE Reset
  BY Zenon, <1>7 DEF Reset, Halt
<1>8. CASE UNCHANGED stallVars
  BY Zenon, <1>8 DEF stallVars
<1> QED
  BY <1>1, <1>2, <1>3, <1>4, <1>5, <1>6, <1>7, <1>8 DEF StallNext

\* A turn of the control loop once more, from the invariant.
LEMMA TurnCases ==
  ASSUME TimersOK, StuckFlags, Timers, Turn
  PROVE  /\ emergency_stop = FALSE /\ at_rest' = FALSE
         /\ stuck_start_ms # 0 => Age \in Nat
         /\ \E gap \in 1 .. MaxGap :
              /\ now' = Later(gap) /\ now' \in Times
              /\ \/ TurnMoves(gap)
                 \/ TurnStarts(gap) /\ Age' = 0
                 \/ TurnGoesOn(gap) /\ Age' = Age + gap
                 \/ TurnEnds(gap)
                 \/ TurnBoosts(gap) /\ (stuck_start_ms' # 0 => Age' = Age + gap)
                 \/ TurnGivesUp(gap)
<1>1. emergency_stop = FALSE
  BY Zenon DEF Turn, StuckFlags
<1>2. stuck_start_ms # 0 => Age < Fail
  BY Zenon, <1>1 DEF Timers
<1>3. PICK gap \in 1 .. MaxGap :
        /\ now' = Later(gap)
        /\ \/ TurnMoves(gap) \/ TurnStarts(gap) \/ TurnGoesOn(gap) \/ TurnEnds(gap)
           \/ TurnBoosts(gap) \/ TurnGivesUp(gap)
  BY <1>2, TurnIs
<1>4. stuck_start_ms # 0 => Age \in Nat
  BY <1>2, <1>3, AgeGrows
<1>5. /\ now' \in Times
      /\ stuck_start_ms # 0 /\ stuck_start_ms' = stuck_start_ms => Age' = Age + gap
      /\ stuck_start_ms' = now' => Age' = 0
  BY <1>2, <1>3, NextAge
<1>6. TurnStarts(gap) => Age' = 0
  BY Zenon, <1>5 DEF TurnStarts
<1>7. TurnGoesOn(gap) => Age' = Age + gap
  BY Zenon, <1>5 DEF TurnGoesOn
<1>8. TurnBoosts(gap) => (stuck_start_ms' # 0 => Age' = Age + gap)
  BY Zenon, <1>5 DEF TurnBoosts
<1>9. at_rest' = FALSE
  BY <1>2, TurnIs
<1> QED
  BY Zenon, <1>1, <1>3, <1>4, <1>5, <1>6, <1>7, <1>8, <1>9

\* The timers keep their types.
LEMMA TimersOKStep ==
  ASSUME TimersOK, StuckFlags, Timers, [StallNext]_stallVars
  PROVE  TimersOK'
<1>1. CASE Turn
  <2>2. PICK gap \in 1 .. MaxGap :
          /\ now' \in Times
          /\ \/ TurnMoves(gap) \/ TurnStarts(gap) \/ TurnGoesOn(gap) \/ TurnEnds(gap)
             \/ TurnBoosts(gap) \/ TurnGivesUp(gap)
    BY Zenon, <1>1, TurnCases
  <2>3. now' \in Times
    BY <2>2
  <2> USE StuckNumbers DEF TimersOK, Times, NoStall, Stalls, BoostRuns, BoostIsOver
  <2>4. CASE TurnMoves(gap)
    BY <2>3, <2>4 DEF TurnMoves
  <2>5. CASE TurnStarts(gap)
    BY <2>3, <2>5 DEF TurnStarts
  <2>6. CASE TurnGoesOn(gap)
    BY <2>3, <2>6 DEF TurnGoesOn
  <2>7. CASE TurnEnds(gap)
    BY <2>3, <2>7 DEF TurnEnds
  <2>8. CASE TurnBoosts(gap)
    <3>1. boost_until_ms' \in Times /\ stuck_start_ms' \in Times
      <4>1. \/ boost_until_ms' = 0
            \/ boost_until_ms' = now' + Hold /\ now' + Hold < ClockMod
        BY Zenon, <2>8 DEF TurnBoosts
      <4>2. stuck_start_ms' = 0 \/ stuck_start_ms' = stuck_start_ms
        BY Zenon, <2>8 DEF TurnBoosts
      <4>3. 0 \in Times
        OBVIOUS
      <4>4. boost_until_ms' \in Times
        <5>1. \A n \in Times : n + Hold < ClockMod => n + Hold \in Times
          OBVIOUS
        <5> HIDE DEF Times
        <5> QED
          BY Zenon, <2>3, <4>1, <4>3, <5>1
      <4> QED
        BY Zenon, <4>2, <4>3, <4>4
    <3>2. stuck_boost_count' \in 0 .. 2
      BY <2>8 DEF TurnBoosts
    <3>3. boost_age' \in 0 .. Hold
      BY <2>8 DEF TurnBoosts
    <3>4. stall_since' \in Nat \cup {NoStall}
      BY <2>8 DEF TurnBoosts
    <3> QED
      BY <2>3, <3>1, <3>2, <3>3, <3>4
  <2>9. CASE TurnGivesUp(gap)
    BY <2>3, <2>9 DEF TurnGivesUp
  <2> QED
    BY <2>2, <2>4, <2>5, <2>6, <2>7, <2>8, <2>9
<1>2. CASE TimersCleared
  BY <1>2, StuckNumbers DEF TimersCleared, TimersOK, Times, NoStall
<1>3. CASE TimersLeft
  BY <1>3, StuckNumbers DEF TimersLeft, TimersOK, NoStall
<1>4. CASE UNCHANGED stallVars
  BY Zenon, <1>4 DEF stallVars, timerVars, TimersOK
<1> QED
  BY <1>1, <1>2, <1>3, <1>4, StepIs

\* A boost ends in time unless its end falls into a gap at the wrap of the clock.
LEMMA BoostKnownStep ==
  ASSUME TimersOK, StuckFlags, Timers, BoostKnown, [StallNext]_stallVars
  PROVE  BoostKnown'
<1> USE StuckNumbers DEF TimersOK, Times, NoStall, BoostKnown, BoostLeft
<1>1. CASE Turn
  <2>1. emergency_stop = FALSE /\ at_rest' = FALSE /\ (stuck_start_ms # 0 => Age \in Nat)
    BY <1>1, TurnCases
  <2>2. PICK gap \in 1 .. MaxGap :
          /\ now' = Later(gap) /\ now' \in Times
          /\ \/ TurnMoves(gap)
             \/ TurnStarts(gap) /\ Age' = 0
             \/ TurnGoesOn(gap) /\ Age' = Age + gap
             \/ TurnEnds(gap)
             \/ TurnBoosts(gap) /\ (stuck_start_ms' # 0 => Age' = Age + gap)
             \/ TurnGivesUp(gap)
    BY Zenon, <1>1, TurnCases
  <2> USE DEF Later, Stalls, BoostRuns, BoostIsOver
  <2>3. CASE TurnMoves(gap)
    BY <2>1, <2>2, <2>3 DEF TurnMoves
  <2>4. CASE TurnStarts(gap) /\ Age' = 0
    BY <2>1, <2>2, <2>4 DEF TurnStarts
  <2>5. CASE TurnGoesOn(gap) /\ Age' = Age + gap
    BY <2>1, <2>2, <2>5 DEF TurnGoesOn
  <2>6. CASE TurnEnds(gap)
    BY <2>1, <2>2, <2>6 DEF TurnEnds
  <2>7. CASE TurnBoosts(gap) /\ (stuck_start_ms' # 0 => Age' = Age + gap)
    BY <2>1, <2>2, <2>7 DEF TurnBoosts
  <2>8. CASE TurnGivesUp(gap)
    BY <2>1, <2>2, <2>8 DEF TurnGivesUp
  <2> QED
    BY Zenon, <2>2, <2>3, <2>4, <2>5, <2>6, <2>7, <2>8
<1>2. CASE TimersCleared
  BY <1>2 DEF TimersCleared
<1>3. CASE TimersLeft
  BY <1>3 DEF TimersLeft
<1>4. CASE UNCHANGED stallVars
  BY Zenon, <1>4 DEF stallVars, timerVars, Age
<1> QED
  BY <1>1, <1>2, <1>3, <1>4, StepIs

\* The stall timer runs with the stall.
LEMMA TimersStep ==
  ASSUME TimersOK, StuckFlags, Timers, BoostKnown, [StallNext]_stallVars
  PROVE  Timers'
<1> USE StuckNumbers DEF TimersOK, Times, NoStall, Timers
<1>1. CASE Turn
  <2>1. emergency_stop = FALSE /\ at_rest' = FALSE /\ (stuck_start_ms # 0 => Age \in Nat)
    BY <1>1, TurnCases
  <2>2. PICK gap \in 1 .. MaxGap :
          /\ now' = Later(gap) /\ now' \in Times
          /\ \/ TurnMoves(gap)
             \/ TurnStarts(gap) /\ Age' = 0
             \/ TurnGoesOn(gap) /\ Age' = Age + gap
             \/ TurnEnds(gap)
             \/ TurnBoosts(gap) /\ (stuck_start_ms' # 0 => Age' = Age + gap)
             \/ TurnGivesUp(gap)
    BY Zenon, <1>1, TurnCases
  <2> USE DEF Later, Stalls, BoostRuns, BoostIsOver
  <2>3. CASE TurnMoves(gap)
    BY <2>1, <2>2, <2>3 DEF TurnMoves
  <2>4. CASE TurnStarts(gap) /\ Age' = 0
    BY <2>1, <2>2, <2>4 DEF TurnStarts
  <2>5. CASE TurnGoesOn(gap) /\ Age' = Age + gap
    BY <2>1, <2>2, <2>5 DEF TurnGoesOn
  <2>6. CASE TurnEnds(gap)
    BY <2>1, <2>2, <2>6 DEF TurnEnds
  <2>7. CASE TurnBoosts(gap) /\ (stuck_start_ms' # 0 => Age' = Age + gap)
    BY <2>1, <2>2, <2>7 DEF TurnBoosts
  <2>8. CASE TurnGivesUp(gap)
    BY <2>1, <2>2, <2>8 DEF TurnGivesUp
  <2> QED
    BY Zenon, <2>2, <2>3, <2>4, <2>5, <2>6, <2>7, <2>8
<1>2. CASE TimersCleared
  BY <1>2 DEF TimersCleared
<1>3. CASE TimersLeft
  BY <1>3 DEF TimersLeft
<1>4. CASE UNCHANGED stallVars
  BY Zenon, <1>4 DEF stallVars, timerVars, Age, Elapsed
<1> QED
  BY <1>1, <1>2, <1>3, <1>4, StepIs

\* Each boost but one is preceded by a trigger time of its own.
LEMMA AtLeastStep ==
  ASSUME TimersOK, StuckFlags, Timers, BoostKnown, AtLeast,
         [StallNext]_stallVars
  PROVE  AtLeast'
<1> USE StuckNumbers DEF TimersOK, Times, NoStall, Timers, AtLeast
<1>1. CASE Turn
  <2>1. emergency_stop = FALSE /\ at_rest' = FALSE /\ (stuck_start_ms # 0 => Age \in Nat)
    BY <1>1, TurnCases
  <2>2. PICK gap \in 1 .. MaxGap :
          /\ now' = Later(gap) /\ now' \in Times
          /\ \/ TurnMoves(gap)
             \/ TurnStarts(gap) /\ Age' = 0
             \/ TurnGoesOn(gap) /\ Age' = Age + gap
             \/ TurnEnds(gap)
             \/ TurnBoosts(gap) /\ (stuck_start_ms' # 0 => Age' = Age + gap)
             \/ TurnGivesUp(gap)
    BY Zenon, <1>1, TurnCases
  <2> USE DEF Later, Stalls, BoostRuns, BoostIsOver
  <2>3. CASE TurnMoves(gap)
    BY <2>1, <2>2, <2>3 DEF TurnMoves
  <2>4. CASE TurnStarts(gap) /\ Age' = 0
    BY <2>1, <2>2, <2>4 DEF TurnStarts
  <2>5. CASE TurnGoesOn(gap) /\ Age' = Age + gap
    BY <2>1, <2>2, <2>5 DEF TurnGoesOn
  <2>6. CASE TurnEnds(gap)
    BY <2>1, <2>2, <2>6 DEF TurnEnds
  <2>7. CASE TurnBoosts(gap) /\ (stuck_start_ms' # 0 => Age' = Age + gap)
    BY <2>1, <2>2, <2>7 DEF TurnBoosts
  <2>8. CASE TurnGivesUp(gap)
    BY <2>1, <2>2, <2>8 DEF TurnGivesUp
  <2> QED
    BY Zenon, <2>2, <2>3, <2>4, <2>5, <2>6, <2>7, <2>8
<1>2. CASE TimersCleared
  BY <1>2 DEF TimersCleared
<1>3. CASE TimersLeft
  BY <1>3 DEF TimersLeft
<1>4. CASE UNCHANGED stallVars
  BY Zenon, <1>4 DEF stallVars, timerVars, Age, Elapsed
<1> QED
  BY <1>1, <1>2, <1>3, <1>4, StepIs

\* A stall that begins during an earlier boost.
LEMMA StaleStep ==
  ASSUME TimersOK, StuckFlags, Timers, BoostKnown, Stale,
         [StallNext]_stallVars
  PROVE  Stale'
<1> USE StuckNumbers DEF TimersOK, Times, NoStall, Timers, BoostKnown, Stale,
       OldBoost, BoostLeft, Round
<1>1. CASE Turn
  <2>1. emergency_stop = FALSE /\ at_rest' = FALSE /\ (stuck_start_ms # 0 => Age \in Nat)
    BY <1>1, TurnCases
  <2>2. PICK gap \in 1 .. MaxGap :
          /\ now' = Later(gap) /\ now' \in Times
          /\ \/ TurnMoves(gap)
             \/ TurnStarts(gap) /\ Age' = 0
             \/ TurnGoesOn(gap) /\ Age' = Age + gap
             \/ TurnEnds(gap)
             \/ TurnBoosts(gap) /\ (stuck_start_ms' # 0 => Age' = Age + gap)
             \/ TurnGivesUp(gap)
    BY Zenon, <1>1, TurnCases
  <2> USE DEF Later, Stalls, BoostRuns, BoostIsOver
  <2>3. CASE TurnMoves(gap)
    BY <2>1, <2>2, <2>3 DEF TurnMoves
  <2>4. CASE TurnStarts(gap) /\ Age' = 0
    BY <2>1, <2>2, <2>4 DEF TurnStarts
  <2>5. CASE TurnGoesOn(gap) /\ Age' = Age + gap
    BY <2>1, <2>2, <2>5 DEF TurnGoesOn
  <2>6. CASE TurnEnds(gap)
    BY <2>1, <2>2, <2>6 DEF TurnEnds
  <2>7. CASE TurnBoosts(gap) /\ (stuck_start_ms' # 0 => Age' = Age + gap)
    BY <2>1, <2>2, <2>7 DEF TurnBoosts
  <2>8. CASE TurnGivesUp(gap)
    BY <2>1, <2>2, <2>8 DEF TurnGivesUp
  <2> QED
    BY Zenon, <2>2, <2>3, <2>4, <2>5, <2>6, <2>7, <2>8
<1>2. CASE TimersCleared
  BY <1>2 DEF TimersCleared
<1>3. CASE TimersLeft
  BY <1>3 DEF TimersLeft
<1>4. CASE UNCHANGED stallVars
  BY Zenon, <1>4 DEF stallVars, timerVars, Age, Elapsed
<1> QED
  BY <1>1, <1>2, <1>3, <1>4, StepIs

\* Every turn brings a stall nearer to its end.
LEMMA ProgressStep ==
  ASSUME TimersOK, StuckFlags, Timers, BoostKnown, Stale, Progress,
         [StallNext]_stallVars
  PROVE  Progress'
<1> USE StuckNumbers DEF TimersOK, Times, NoStall, Timers, BoostKnown, Stale, Progress,
       OldBoost, Waiting, Boosting, InTime, Missed, Wait, Short, Long, BoostLeft, Round
<1>1. CASE Turn
  <2>1. emergency_stop = FALSE /\ at_rest' = FALSE /\ (stuck_start_ms # 0 => Age \in Nat)
    BY <1>1, TurnCases
  <2>2. PICK gap \in 1 .. MaxGap :
          /\ now' = Later(gap) /\ now' \in Times
          /\ \/ TurnMoves(gap)
             \/ TurnStarts(gap) /\ Age' = 0
             \/ TurnGoesOn(gap) /\ Age' = Age + gap
             \/ TurnEnds(gap)
             \/ TurnBoosts(gap) /\ (stuck_start_ms' # 0 => Age' = Age + gap)
             \/ TurnGivesUp(gap)
    BY Zenon, <1>1, TurnCases
  <2> USE DEF Later, Stalls, BoostRuns, BoostIsOver
  <2>3. CASE TurnMoves(gap)
    BY <2>1, <2>2, <2>3 DEF TurnMoves
  <2>4. CASE TurnStarts(gap) /\ Age' = 0
    BY <2>1, <2>2, <2>4 DEF TurnStarts
  <2>5. CASE TurnGoesOn(gap) /\ Age' = Age + gap
    BY <2>1, <2>2, <2>5 DEF TurnGoesOn
  <2>6. CASE TurnEnds(gap)
    BY <2>1, <2>2, <2>6 DEF TurnEnds
  <2>7. CASE TurnBoosts(gap) /\ (stuck_start_ms' # 0 => Age' = Age + gap)
    BY <2>1, <2>2, <2>7 DEF TurnBoosts
  <2>8. CASE TurnGivesUp(gap)
    BY <2>1, <2>2, <2>8 DEF TurnGivesUp
  <2> QED
    BY Zenon, <2>2, <2>3, <2>4, <2>5, <2>6, <2>7, <2>8
<1>2. CASE TimersCleared
  BY <1>2 DEF TimersCleared
<1>3. CASE TimersLeft
  BY <1>3 DEF TimersLeft
<1>4. CASE UNCHANGED stallVars
  BY Zenon, <1>4 DEF stallVars, timerVars, Age, Elapsed
<1> QED
  BY <1>1, <1>2, <1>3, <1>4, StepIs

\* In every case a stall has at least a turn left until the bound.
LEMMA StallBounded ==
  ASSUME TimersOK, Timers, BoostKnown, Stale, Progress,
         emergency_stop = FALSE, stuck_start_ms # 0 => Age \in Nat
  PROVE  stall_since + MaxGap <= StallBound
<1> USE StuckNumbers DEF TimersOK, Times, NoStall, StallBound, Round, BoostLeft
<1>1. CASE stall_since = NoStall
  BY <1>1
<1>2. CASE stall_since # NoStall /\ boost_until_ms # 0 /\ stuck_boost_count = 0
  BY <1>2 DEF Timers, Stale, OldBoost
<1>3. CASE stall_since # NoStall /\ ~(boost_until_ms # 0 /\ stuck_boost_count = 0)
  <2> USE DEF Wait, Short, Long
  <2>1. CASE Waiting(Short) \/ Waiting(Long)
    BY <1>3, <2>1 DEF Timers, Waiting
  <2>2. CASE Boosting(Short) /\ (InTime(Short) \/ Missed)
    BY <1>3, <2>2 DEF Timers, BoostKnown, Boosting
  <2>3. CASE Boosting(Long) /\ InTime(Long)
    BY <1>3, <2>3 DEF Timers, BoostKnown, Boosting, InTime
  <2> QED
    BY <1>3, <2>1, <2>2, <2>3 DEF Progress, OldBoost
<1> QED
  BY <1>1, <1>2, <1>3

\* The invariant holds initially.
LEMMA StuckInit == StallInit => StuckInv
<1> SUFFICES ASSUME StallInit PROVE StuckInv
  OBVIOUS
<1>1. StuckFlags
  BY Zenon DEF StallInit, StuckFlags
<1>2. TimersOK /\ BoostKnown /\ Timers /\ AtLeast /\ Stale /\ Progress /\ StallStopped
  BY StuckNumbers DEF StallInit, TimersOK, BoostKnown, Timers, AtLeast, Stale, Progress,
     StallStopped, StallBound, Times, NoStall
<1> QED
  BY <1>1, <1>2 DEF StuckInv

\* A turn that gives up does so within the bound; every other one stays a turn below it.
LEMMA StallStoppedStep ==
  ASSUME StuckInv, [StallNext]_stallVars
  PROVE  StallStopped'
<1> USE StuckNumbers DEF TimersOK, NoStall, StallBound, StallStopped
<1>1. CASE Turn
  <2>1. PICK gap \in 1 .. MaxGap : stall_since' \in {NoStall, 0, stall_since + gap}
    BY <1>1, TurnCases DEF StuckInv, TurnMoves, TurnStarts, TurnGoesOn, TurnEnds, TurnBoosts,
       TurnGivesUp, Stalls
  <2>2. emergency_stop = FALSE /\ (stuck_start_ms # 0 => Age \in Nat)
    BY <1>1, TurnCases DEF StuckInv
  <2>3. stall_since + MaxGap <= StallBound
    BY <2>2, StallBounded DEF StuckInv
  <2> QED
    BY <2>1, <2>3 DEF StuckInv
<1>2. CASE TimersCleared
  BY <1>2 DEF TimersCleared
<1>3. CASE TimersLeft
  BY <1>3 DEF TimersLeft
<1>4. CASE UNCHANGED stallVars
  BY <1>4 DEF stallVars, StuckInv
<1> QED
  BY <1>1, <1>2, <1>3, <1>4, StepIs DEF StuckInv

\* Every step keeps the invariant.
LEMMA StuckStep ==
  StuckInv /\ [StallNext]_stallVars => StuckInv'
<1> SUFFICES ASSUME StuckInv, [StallNext]_stallVars PROVE StuckInv'
  OBVIOUS
<1>1. TimersOK' /\ StuckFlags'
  BY TimersOKStep, StuckFlagsStep DEF StuckInv
<1>2. BoostKnown' /\ Timers' /\ AtLeast'
  BY BoostKnownStep, TimersStep, AtLeastStep DEF StuckInv
<1>3. Stale' /\ Progress'
  BY StaleStep, ProgressStep DEF StuckInv
<1>4. StallStopped'
  BY StallStoppedStep
<1> QED
  BY <1>1, <1>2, <1>3, <1>4 DEF StuckInv

\* The invariant of the stall timers.
THEOREM StuckInvariant == StallSpec => []StuckInv
<1>1. StallInit => StuckInv
  BY StuckInit
<1>2. StuckInv /\ [StallNext]_stallVars => StuckInv'
  BY StuckStep
<1> QED
  BY <1>1, <1>2, PTL DEF StallSpec

\* hcics_motion_apply_stuck_boost stops a vehicle that is commanded and does not move
\* within StallBound, wherever the wrap of the clock and late turns fall.
THEOREM StallStoppedHolds == StallSpec => []StallStopped
<1>1. StuckInv => StallStopped
  BY DEF StuckInv
<1> QED
  BY <1>1, StuckInvariant, PTL

\* A boost ends within its time unless its end is so near to the wrap that no turn sees it.
THEOREM BoostEndsHolds == StallSpec => []BoostEnds
<1>1. ASSUME StuckInv PROVE BoostEnds
  <2>1. StallTypeOK
    BY <1>1, StuckNumbers DEF StuckInv, TimersOK, StuckFlags, StallTypeOK, Times
  <2>2. ASSUME boosted PROVE boost_age < Hold \/ boost_until_ms > ClockMod - MaxGap
    <3>1. boosted = TRUE
      BY Zenon, <1>1, <2>2 DEF StuckInv, StuckFlags
    <3> QED
      BY <1>1, <3>1, StuckNumbers DEF StuckInv, TimersOK, BoostKnown, BoostLeft, Times
  <2> QED
    BY <2>1, <2>2 DEF BoostEnds
<1> QED
  BY <1>1, StuckInvariant, PTL

\* E3 is not raised before twice the trigger time, although the wrap can cut boosts short.
THEOREM StallNotHastyHolds == StallSpec => StallNotHasty
<1>1. ASSUME StuckInv, [StallNext]_stallVars
      PROVE  [e3' /\ ~e3 => stall_since' >= 2 * Trigger]_stallVars
  <2> SUFFICES ASSUME e3', ~e3 PROVE stall_since' >= 2 * Trigger
    OBVIOUS
  <2>1. e3 = FALSE /\ e3' # FALSE
    BY Zenon, <1>1 DEF StuckInv, StuckFlags
  <2>2. CASE Turn
    <3>1. emergency_stop = FALSE /\ (stuck_start_ms # 0 => Age \in Nat)
      BY <1>1, <2>2, TurnCases DEF StuckInv
    <3>2. PICK gap \in 1 .. MaxGap : TurnGivesUp(gap)
      <4>1. PICK gap \in 1 .. MaxGap :
              \/ TurnMoves(gap) \/ TurnStarts(gap) \/ TurnGoesOn(gap) \/ TurnEnds(gap)
              \/ TurnBoosts(gap) \/ TurnGivesUp(gap)
        BY Zenon, <1>1, <2>2, TurnCases DEF StuckInv
      <4> QED
        BY Zenon, <2>1, <4>1 DEF TurnMoves, TurnStarts, TurnGoesOn, TurnEnds, TurnBoosts
    <3> QED
      BY <1>1, <3>1, <3>2, StuckNumbers
         DEF StuckInv, TimersOK, Timers, AtLeast, TurnGivesUp, Stalls, NoStall
  <2>3. CASE TimersCleared \/ TimersLeft
    BY Zenon, <2>1, <2>3 DEF TimersCleared, TimersLeft
  <2>4. CASE UNCHANGED stallVars
    BY Zenon, <2>1, <2>4 DEF stallVars
  <2> QED
    BY <1>1, <2>2, <2>3, <2>4, StepIs DEF StuckInv
<1> QED
  BY <1>1, StuckInvariant, PTL DEF StallSpec, StallNotHasty
=============================================================================
