--------------------------- MODULE HcicsAppProofs ---------------------------
(***************************************************************************)
(* Proofs about HcicsApp for every set of faults and peers, every queue     *)
(* depth, any number of orders, and with or without thread priorities.      *)
(***************************************************************************)
EXTENDS HcicsApp, TLAPS

\* The reservation: busy is set exactly while one order is between its
\* reservation and its release, and it is in one place only.
Reservation ==
  /\ busy <=> (upc = "mq_send" \/ mq # << >> \/ mpc # "recv")
  /\ Len(mq) <= 1
  /\ mq # << >> => mpc = "recv" /\ upc # "mq_send"
  /\ upc = "mq_send" => mpc = "recv"

\* state_lock spans the two inner steps of hcics_reserve_mission, and inside
\* it the mission slot stays free.
LockSpan ==
  /\ state_lock = "udp" <=> upc \in {"reserve_pending", "reserve_set"}
  /\ state_lock = "udp" => ~busy

\* From the moment a reservation has found the pending slot empty until the
\* mission has reported, the slot stays empty.
SlotEmpty ==
  (upc \in {"reserve_set", "mq_send"} \/ mq # << >> \/ Reporting)
    => pending = NoReport

\* While a flush has a copy of the pending report, the slot still holds it.
FlushCopy ==
  upc \in {"flush_send", "flush_clear"} => pending # NoReport /\ usnap = pending

\* The order that is queued, in hand or kept is the last one accepted, and no
\* later one has an answer.
Numbers ==
  /\ \A i \in DOMAIN mq : mq[i].order = accepted
  /\ Reporting => mmsg \in Msg /\ mmsg.order = accepted
  /\ pending # NoReport => pending.order = accepted
  /\ \A o \in Orders : o > accepted => sent[o] = 0

\* The UDP thread enqueues only what it parsed as a fault.
FaultInHand ==
  /\ upc \in {"enqueue", "reserve", "reserve_pending", "reserve_set", "mq_send"}
       => umsg.type = "fault"

\* The bookkeeping that ExactlyOnce rests on.
Structure ==
  /\ Reservation
  /\ LockSpan
  /\ SlotEmpty
  /\ FlushCopy
  /\ Numbers
  /\ FaultInHand

\* ExactlyOnce is not inductive alone: that hcics_report_esp_final never finds
\* the slot occupied needs SlotEmpty, which needs Reservation and LockSpan, and
\* that a flush clears what it sent needs FlushCopy.
IndInv ==
  /\ TypeOK
  /\ Structure
  /\ ExactlyOnce

-----------------------------------------------------------------------------

\* A step that touches neither the queue, the orders in hand, the pending slot
\* nor the answers, and keeps both threads on the same side of a report,
\* preserves ExactlyOnce.
LEMMA Frame ==
  ASSUME ExactlyOnce, UNCHANGED <<mq, mmsg, pending, accepted, sent>>,
         Reporting' <=> Reporting,
         (upc' = "flush_clear") <=> (upc = "flush_clear")
  PROVE  ExactlyOnce'
  BY DEF ExactlyOnce, Owed, Kept

\* Counting a sent report keeps the type of the history.
LEMMA CountType ==
  ASSUME NEW o, sent \in [Orders -> Nat], CountSent(o)
  PROVE  sent' \in [Orders -> Nat]
  <1>1. sent' = [x \in Orders |-> IF x = o THEN sent[o] + 1 ELSE sent[x]]
    BY DEF CountSent
  <1>2. \A x \in Orders : (IF x = o THEN sent[o] + 1 ELSE sent[x]) \in Nat
    OBVIOUS
  <1> QED
    BY <1>1, <1>2

\* What rt_mq_recv finds in the queue of at most one order.
LEMMA OneMessage ==
  ASSUME mq \in Seq(Msg), Len(mq) <= 1, mq # << >>
  PROVE  /\ Len(mq) = 1 /\ DOMAIN mq = {1}
         /\ Head(mq) = mq[1] /\ Head(mq) \in Msg
         /\ Tail(mq) = << >>
  <1>1. Len(mq) \in Nat /\ Len(mq) # 0
    OBVIOUS
  <1>2. Len(mq) = 1
    BY <1>1
  <1>3. Tail(mq) \in Seq(Msg) /\ Len(Tail(mq)) = 0
    BY <1>2
  <1>4. Tail(mq) = << >>
    BY <1>3
  <1>5. DOMAIN mq = {1}
    BY <1>2
  <1>6. Head(mq) = mq[1] /\ mq[1] \in Msg
    BY <1>2, <1>5
  <1> QED
    BY <1>2, <1>4, <1>5, <1>6

\* In the empty initial state nothing is owed.
LEMMA InitInv == Init => IndInv
<1> SUFFICES ASSUME Init PROVE IndInv
  OBVIOUS
<1> USE DEF Init
<1>1. FlagsOK
  BY Zenon DEF FlagsOK
<1>2. DataOK
  BY AppAssumption DEF DataOK, Cmd, Orders
<1>3. Structure
  BY DEF Structure, Reservation, LockSpan, SlotEmpty, FlushCopy, Numbers,
         FaultInHand, Reporting, Orders
<1>4. ExactlyOnce
  BY DEF ExactlyOnce
<1> QED
  BY <1>1, <1>2, <1>3, <1>4 DEF IndInv, TypeOK

\* Every step of the UDP thread preserves the invariant.
LEMMA UdpStep == IndInv /\ UdpNext => IndInv'
<1> SUFFICES ASSUME IndInv, UdpNext PROVE IndInv'
  OBVIOUS
<1> USE DEF IndInv, TypeOK, shared, udpVars, misVars, envVars, UdpGoto, CallFlush,
            Awake, MPoll, URefuseIfPending
<1>1. CASE UWifi
  <2> USE <1>1 DEF UWifi
  <2>1. FlagsOK'
    BY Zenon DEF FlagsOK
  <2>2. DataOK'
    BY DEF DataOK
  <2>3. ExactlyOnce'
    BY Frame DEF DataOK, Structure, Reservation, SlotEmpty, FlushCopy, Reporting,
        Body
  <2>4. Structure'
    BY AppAssumption DEF DataOK, Structure, Reservation, LockSpan, SlotEmpty,
        FlushCopy, Numbers, FaultInHand, Reporting, Body, Msg, Packet, NoMsg,
        Report, NoReport, Orders, CountSent, FinalReport
  <2> QED BY <2>1, <2>2, <2>3, <2>4
<1>2. CASE USocketOk
  <2> USE <1>2 DEF USocketOk
  <2>1. FlagsOK'
    BY Zenon DEF FlagsOK
  <2>2. DataOK'
    BY DEF DataOK
  <2>3. ExactlyOnce'
    BY Frame DEF DataOK, Structure, Reservation, SlotEmpty, FlushCopy, Reporting,
        Body
  <2>4. Structure'
    BY AppAssumption DEF DataOK, Structure, Reservation, LockSpan, SlotEmpty,
        FlushCopy, Numbers, FaultInHand, Reporting, Body, Msg, Packet, NoMsg,
        Report, NoReport, Orders, CountSent, FinalReport
  <2> QED BY <2>1, <2>2, <2>3, <2>4
<1>3. CASE USocketFail
  <2> USE <1>3 DEF USocketFail
  <2>1. FlagsOK'
    BY Zenon DEF FlagsOK
  <2>2. DataOK'
    BY DEF DataOK
  <2>3. ExactlyOnce'
    BY Frame DEF DataOK, Structure, Reservation, SlotEmpty, FlushCopy, Reporting,
        Body
  <2>4. Structure'
    BY AppAssumption DEF DataOK, Structure, Reservation, LockSpan, SlotEmpty,
        FlushCopy, Numbers, FaultInHand, Reporting, Body, Msg, Packet, NoMsg,
        Report, NoReport, Orders, CountSent, FinalReport
  <2> QED BY <2>1, <2>2, <2>3, <2>4
<1>4. CASE UFlush
  <2> USE <1>4 DEF UFlush
  <2>1. FlagsOK'
    BY Zenon DEF FlagsOK
  <2>2. DataOK'
    BY DEF DataOK
  <2>3. ExactlyOnce'
    BY Frame DEF DataOK, Structure, Reservation, SlotEmpty, FlushCopy, Reporting,
        Body
  <2>4. Structure'
    BY AppAssumption DEF DataOK, Structure, Reservation, LockSpan, SlotEmpty,
        FlushCopy, Numbers, FaultInHand, Reporting, Body, Msg, Packet, NoMsg,
        Report, NoReport, Orders, CountSent, FinalReport
  <2> QED BY <2>1, <2>2, <2>3, <2>4
<1>5. CASE UFlushSendOk
  <2> USE <1>5 DEF UFlushSendOk
  <2>1. FlagsOK'
    BY Zenon DEF FlagsOK
  <2>2. DataOK'
    BY CountType DEF DataOK
  <2>3. ExactlyOnce'
    BY AppAssumption DEF DataOK, Structure, Reservation, SlotEmpty, FlushCopy,
        Numbers, Reporting, Body, ExactlyOnce, Owed, Kept, CountSent,
        NoReport, Report, Msg, Orders, SameReport
  <2>4. Structure'
    BY AppAssumption DEF DataOK, Structure, Reservation, LockSpan, SlotEmpty,
        FlushCopy, Numbers, FaultInHand, Reporting, Body, Msg, Packet, NoMsg,
        Report, NoReport, Orders, CountSent, FinalReport
  <2> QED BY <2>1, <2>2, <2>3, <2>4
<1>6. CASE UFlushSendFail
  <2> USE <1>6 DEF UFlushSendFail
  <2>1. FlagsOK'
    BY Zenon DEF FlagsOK
  <2>2. DataOK'
    BY DEF DataOK
  <2>3. ExactlyOnce'
    BY Frame DEF DataOK, Structure, Reservation, SlotEmpty, FlushCopy, Reporting,
        Body
  <2>4. Structure'
    BY AppAssumption DEF DataOK, Structure, Reservation, LockSpan, SlotEmpty,
        FlushCopy, Numbers, FaultInHand, Reporting, Body, Msg, Packet, NoMsg,
        Report, NoReport, Orders, CountSent, FinalReport
  <2> QED BY <2>1, <2>2, <2>3, <2>4
<1>7. CASE UFlushClear
  <2> USE <1>7 DEF UFlushClear
  <2>1. FlagsOK'
    BY Zenon DEF FlagsOK
  <2>2. DataOK'
    BY DEF DataOK
  <2>3. ExactlyOnce'
    BY AppAssumption DEF DataOK, Structure, Reservation, SlotEmpty, FlushCopy,
        Numbers, Reporting, Body, ExactlyOnce, Owed, Kept, CountSent,
        NoReport, Report, Msg, Orders, SameReport
  <2>4. Structure'
    BY AppAssumption DEF DataOK, Structure, Reservation, LockSpan, SlotEmpty,
        FlushCopy, Numbers, FaultInHand, Reporting, Body, Msg, Packet, NoMsg,
        Report, NoReport, Orders, CountSent, FinalReport
  <2> QED BY <2>1, <2>2, <2>3, <2>4
<1>8. CASE UCheck
  <2> USE <1>8 DEF UCheck
  <2>1. FlagsOK'
    BY Zenon DEF FlagsOK
  <2>2. DataOK'
    BY DEF DataOK
  <2>3. ExactlyOnce'
    BY Frame DEF DataOK, Structure, Reservation, SlotEmpty, FlushCopy, Reporting,
        Body
  <2>4. Structure'
    BY AppAssumption DEF DataOK, Structure, Reservation, LockSpan, SlotEmpty,
        FlushCopy, Numbers, FaultInHand, Reporting, Body, Msg, Packet, NoMsg,
        Report, NoReport, Orders, CountSent, FinalReport
  <2> QED BY <2>1, <2>2, <2>3, <2>4
<1>9. CASE URecvNothing
  <2> USE <1>9 DEF URecvNothing
  <2>1. FlagsOK'
    BY Zenon DEF FlagsOK
  <2>2. DataOK'
    BY DEF DataOK
  <2>3. ExactlyOnce'
    BY Frame DEF DataOK, Structure, Reservation, SlotEmpty, FlushCopy, Reporting,
        Body
  <2>4. Structure'
    BY AppAssumption DEF DataOK, Structure, Reservation, LockSpan, SlotEmpty,
        FlushCopy, Numbers, FaultInHand, Reporting, Body, Msg, Packet, NoMsg,
        Report, NoReport, Orders, CountSent, FinalReport
  <2> QED BY <2>1, <2>2, <2>3, <2>4
<1>10. CASE URecvNul
  <2> USE <1>10 DEF URecvNul
  <2>1. FlagsOK'
    BY Zenon DEF FlagsOK
  <2>2. DataOK'
    BY DEF DataOK
  <2>3. ExactlyOnce'
    BY Frame DEF DataOK, Structure, Reservation, SlotEmpty, FlushCopy, Reporting,
        Body
  <2>4. Structure'
    BY AppAssumption DEF DataOK, Structure, Reservation, LockSpan, SlotEmpty,
        FlushCopy, Numbers, FaultInHand, Reporting, Body, Msg, Packet, NoMsg,
        Report, NoReport, Orders, CountSent, FinalReport
  <2> QED BY <2>1, <2>2, <2>3, <2>4
<1>11. CASE URecvPacket
  <2> USE <1>11 DEF URecvPacket
  <2>1. FlagsOK'
    BY Zenon DEF FlagsOK
  <2>2. DataOK'
    BY DEF DataOK
  <2>3. ExactlyOnce'
    BY Frame DEF DataOK, Structure, Reservation, SlotEmpty, FlushCopy, Reporting,
        Body
  <2>4. Structure'
    BY AppAssumption DEF DataOK, Structure, Reservation, LockSpan, SlotEmpty,
        FlushCopy, Numbers, FaultInHand, Reporting, Body, Msg, Packet, NoMsg,
        Report, NoReport, Orders, CountSent, FinalReport
  <2> QED BY <2>1, <2>2, <2>3, <2>4
<1>12. CASE UDispatchFault
  <2> USE <1>12 DEF UDispatchFault
  <2>1. FlagsOK'
    BY Zenon DEF FlagsOK
  <2>2. DataOK'
    BY DEF DataOK
  <2>3. ExactlyOnce'
    BY Frame DEF DataOK, Structure, Reservation, SlotEmpty, FlushCopy, Reporting,
        Body
  <2>4. Structure'
    BY AppAssumption DEF DataOK, Structure, Reservation, LockSpan, SlotEmpty,
        FlushCopy, Numbers, FaultInHand, Reporting, Body, Msg, Packet, NoMsg,
        Report, NoReport, Orders, CountSent, FinalReport
  <2> QED BY <2>1, <2>2, <2>3, <2>4
<1>13. CASE UDispatchStop
  <2> USE <1>13 DEF UDispatchStop
  <2>1. FlagsOK'
    BY Zenon DEF FlagsOK
  <2>2. DataOK'
    BY DEF DataOK
  <2>3. ExactlyOnce'
    BY Frame DEF DataOK, Structure, Reservation, SlotEmpty, FlushCopy, Reporting,
        Body
  <2>4. Structure'
    BY AppAssumption DEF DataOK, Structure, Reservation, LockSpan, SlotEmpty,
        FlushCopy, Numbers, FaultInHand, Reporting, Body, Msg, Packet, NoMsg,
        Report, NoReport, Orders, CountSent, FinalReport
  <2> QED BY <2>1, <2>2, <2>3, <2>4
<1>14. CASE UDispatchUnknown
  <2> USE <1>14 DEF UDispatchUnknown
  <2>1. FlagsOK'
    BY Zenon DEF FlagsOK
  <2>2. DataOK'
    BY DEF DataOK
  <2>3. ExactlyOnce'
    BY Frame DEF DataOK, Structure, Reservation, SlotEmpty, FlushCopy, Reporting,
        Body
  <2>4. Structure'
    BY AppAssumption DEF DataOK, Structure, Reservation, LockSpan, SlotEmpty,
        FlushCopy, Numbers, FaultInHand, Reporting, Body, Msg, Packet, NoMsg,
        Report, NoReport, Orders, CountSent, FinalReport
  <2> QED BY <2>1, <2>2, <2>3, <2>4
<1>15. CASE UEnqueue
  <2> USE <1>15 DEF UEnqueue
  <2>1. FlagsOK'
    BY Zenon DEF FlagsOK
  <2>2. DataOK'
    BY DEF DataOK
  <2>3. ExactlyOnce'
    BY Frame DEF DataOK, Structure, Reservation, SlotEmpty, FlushCopy, Reporting,
        Body
  <2>4. Structure'
    BY AppAssumption DEF DataOK, Structure, Reservation, LockSpan, SlotEmpty,
        FlushCopy, Numbers, FaultInHand, Reporting, Body, Msg, Packet, NoMsg,
        Report, NoReport, Orders, CountSent, FinalReport
  <2> QED BY <2>1, <2>2, <2>3, <2>4
<1>16. CASE UReserve
  <2> USE <1>16 DEF UReserve
  <2>1. FlagsOK'
    BY Zenon DEF FlagsOK
  <2>2. DataOK'
    BY DEF DataOK
  <2>3. ExactlyOnce'
    BY Frame DEF DataOK, Structure, Reservation, SlotEmpty, FlushCopy, Reporting,
        Body
  <2>4. Structure'
    BY AppAssumption DEF DataOK, Structure, Reservation, LockSpan, SlotEmpty,
        FlushCopy, Numbers, FaultInHand, Reporting, Body, Msg, Packet, NoMsg,
        Report, NoReport, Orders, CountSent, FinalReport
  <2> QED BY <2>1, <2>2, <2>3, <2>4
<1>17. CASE UReservePending
  <2> USE <1>17 DEF UReservePending
  <2>1. FlagsOK'
    BY Zenon DEF FlagsOK
  <2>2. DataOK'
    BY DEF DataOK
  <2>3. ExactlyOnce'
    BY Frame DEF DataOK, Structure, Reservation, SlotEmpty, FlushCopy, Reporting,
        Body
  <2>4. Structure'
    BY AppAssumption DEF DataOK, Structure, Reservation, LockSpan, SlotEmpty,
        FlushCopy, Numbers, FaultInHand, Reporting, Body, Msg, Packet, NoMsg,
        Report, NoReport, Orders, CountSent, FinalReport
  <2> QED BY <2>1, <2>2, <2>3, <2>4
<1>18. CASE UReserveSet
  <2> USE <1>18 DEF UReserveSet
  <2>1. FlagsOK'
    BY Zenon DEF FlagsOK
  <2>2. DataOK'
    BY DEF DataOK
  <2>3. ExactlyOnce'
    BY Frame DEF DataOK, Structure, Reservation, SlotEmpty, FlushCopy, Reporting,
        Body
  <2>4. Structure'
    BY AppAssumption DEF DataOK, Structure, Reservation, LockSpan, SlotEmpty,
        FlushCopy, Numbers, FaultInHand, Reporting, Body, Msg, Packet, NoMsg,
        Report, NoReport, Orders, CountSent, FinalReport
  <2> QED BY <2>1, <2>2, <2>3, <2>4
<1>19. CASE UMqSendOk
  <2> USE <1>19 DEF UMqSendOk
  <2>1. FlagsOK'
    BY Zenon DEF FlagsOK
  <2>2. DataOK'
    BY AppAssumption DEF DataOK, Structure, FaultInHand, Msg, Packet,
                        NoMsg, Orders
  <2>3. ExactlyOnce'
    BY AppAssumption DEF DataOK, Structure, Reservation, SlotEmpty, FlushCopy,
        Numbers, Reporting, Body, ExactlyOnce, Owed, Kept, CountSent,
        NoReport, Report, Msg, Orders, SameReport
  <2>4. Structure'
    BY AppAssumption DEF DataOK, Structure, Reservation, LockSpan, SlotEmpty,
        FlushCopy, Numbers, FaultInHand, Reporting, Body, Msg, Packet, NoMsg,
        Report, NoReport, Orders, CountSent, FinalReport
  <2> QED BY <2>1, <2>2, <2>3, <2>4
<1>20. CASE UMqSendFull
  <2> USE <1>20 DEF UMqSendFull
  <2>1. FlagsOK'
    BY Zenon DEF FlagsOK
  <2>2. DataOK'
    BY DEF DataOK
  <2>3. ExactlyOnce'
    BY Frame DEF DataOK, Structure, Reservation, SlotEmpty, FlushCopy, Reporting,
        Body
  <2>4. Structure'
    BY AppAssumption DEF DataOK, Structure, Reservation, LockSpan, SlotEmpty,
        FlushCopy, Numbers, FaultInHand, Reporting, Body, Msg, Packet, NoMsg,
        Report, NoReport, Orders, CountSent, FinalReport
  <2> QED BY <2>1, <2>2, <2>3, <2>4
<1>21. CASE UReject
  <2> USE <1>21 DEF UReject
  <2>1. FlagsOK'
    BY Zenon DEF FlagsOK
  <2>2. DataOK'
    BY DEF DataOK
  <2>3. ExactlyOnce'
    BY Frame DEF DataOK, Structure, Reservation, SlotEmpty, FlushCopy, Reporting,
        Body
  <2>4. Structure'
    BY AppAssumption DEF DataOK, Structure, Reservation, LockSpan, SlotEmpty,
        FlushCopy, Numbers, FaultInHand, Reporting, Body, Msg, Packet, NoMsg,
        Report, NoReport, Orders, CountSent, FinalReport
  <2> QED BY <2>1, <2>2, <2>3, <2>4
<1>22. CASE UWithdraw
  <2> USE <1>22 DEF UWithdraw
  <2>1. FlagsOK'
    BY Zenon DEF FlagsOK
  <2>2. DataOK'
    BY DEF DataOK
  <2>3. ExactlyOnce'
    BY Frame DEF DataOK, Structure, Reservation, SlotEmpty, FlushCopy, Reporting,
        Body
  <2>4. Structure'
    BY AppAssumption DEF DataOK, Structure, Reservation, LockSpan, SlotEmpty,
        FlushCopy, Numbers, FaultInHand, Reporting, Body, Msg, Packet, NoMsg,
        Report, NoReport, Orders, CountSent, FinalReport
  <2> QED BY <2>1, <2>2, <2>3, <2>4
<1>23. CASE UClose
  <2> USE <1>23 DEF UClose
  <2>1. FlagsOK'
    BY Zenon DEF FlagsOK
  <2>2. DataOK'
    BY DEF DataOK
  <2>3. ExactlyOnce'
    BY Frame DEF DataOK, Structure, Reservation, SlotEmpty, FlushCopy, Reporting,
        Body
  <2>4. Structure'
    BY AppAssumption DEF DataOK, Structure, Reservation, LockSpan, SlotEmpty,
        FlushCopy, Numbers, FaultInHand, Reporting, Body, Msg, Packet, NoMsg,
        Report, NoReport, Orders, CountSent, FinalReport
  <2> QED BY <2>1, <2>2, <2>3, <2>4
<1> QED
  BY <1>1, <1>2, <1>3, <1>4, <1>5, <1>6, <1>7, <1>8, <1>9, <1>10, <1>11, <1>12,
     <1>13, <1>14, <1>15, <1>16, <1>17, <1>18, <1>19, <1>20, <1>21, <1>22, <1>23 DEF UdpNext

\* Every step of the mission thread preserves the invariant.
LEMMA MissionStep == IndInv /\ MissionNext => IndInv'
<1> SUFFICES ASSUME IndInv, MissionNext PROVE IndInv'
  OBVIOUS
<1> USE DEF IndInv, TypeOK, shared, udpVars, misVars, envVars, UdpGoto, CallFlush,
            Awake, MPoll, URefuseIfPending
<1>1. CASE MRecv
  <2> USE <1>1 DEF MRecv
  <2>1. FlagsOK'
    BY Zenon DEF FlagsOK
  <2>2. DataOK'
    BY OneMessage DEF DataOK, Structure, Reservation, Body
  <2>3. ExactlyOnce'
    BY OneMessage DEF DataOK, Structure, Reservation, Numbers, Reporting,
        ExactlyOnce, Owed, Kept, Msg
  <2>4. Structure'
    BY OneMessage DEF DataOK, Structure, Reservation, LockSpan, SlotEmpty,
        FlushCopy, Numbers, FaultInHand, Reporting, Body
  <2> QED BY <2>1, <2>2, <2>3, <2>4
<1>2. CASE MStart
  <2> USE <1>2 DEF MStart
  <2>1. FlagsOK'
    BY Zenon DEF FlagsOK
  <2>2. DataOK'
    BY DEF DataOK, Body
  <2>3. ExactlyOnce'
    BY Frame DEF DataOK, Structure, Reservation, SlotEmpty, FlushCopy, Reporting,
        Body
  <2>4. Structure'
    BY AppAssumption DEF DataOK, Structure, Reservation, LockSpan, SlotEmpty,
        FlushCopy, Numbers, FaultInHand, Reporting, Body, Msg, Packet, NoMsg,
        Report, NoReport, Orders, CountSent, FinalReport
  <2> QED BY <2>1, <2>2, <2>3, <2>4
<1>3. CASE MWaitTrackCamera
  <2> USE <1>3 DEF MWaitTrackCamera
  <2>1. FlagsOK'
    BY Zenon DEF FlagsOK
  <2>2. DataOK'
    BY DEF DataOK, Body
  <2>3. ExactlyOnce'
    BY Frame DEF DataOK, Structure, Reservation, SlotEmpty, FlushCopy, Reporting,
        Body
  <2>4. Structure'
    BY AppAssumption DEF DataOK, Structure, Reservation, LockSpan, SlotEmpty,
        FlushCopy, Numbers, FaultInHand, Reporting, Body, Msg, Packet, NoMsg,
        Report, NoReport, Orders, CountSent, FinalReport
  <2> QED BY <2>1, <2>2, <2>3, <2>4
<1>4. CASE MFollowTrackPath
  <2> USE <1>4 DEF MFollowTrackPath
  <2>1. FlagsOK'
    BY Zenon DEF FlagsOK
  <2>2. DataOK'
    BY DEF DataOK, Body
  <2>3. ExactlyOnce'
    BY Frame DEF DataOK, Structure, Reservation, SlotEmpty, FlushCopy, Reporting,
        Body
  <2>4. Structure'
    BY AppAssumption DEF DataOK, Structure, Reservation, LockSpan, SlotEmpty,
        FlushCopy, Numbers, FaultInHand, Reporting, Body, Msg, Packet, NoMsg,
        Report, NoReport, Orders, CountSent, FinalReport
  <2> QED BY <2>1, <2>2, <2>3, <2>4
<1>5. CASE MDelayAbortable
  <2> USE <1>5 DEF MDelayAbortable
  <2>1. FlagsOK'
    BY Zenon DEF FlagsOK
  <2>2. DataOK'
    BY DEF DataOK, Body
  <2>3. ExactlyOnce'
    BY Frame DEF DataOK, Structure, Reservation, SlotEmpty, FlushCopy, Reporting,
        Body
  <2>4. Structure'
    BY AppAssumption DEF DataOK, Structure, Reservation, LockSpan, SlotEmpty,
        FlushCopy, Numbers, FaultInHand, Reporting, Body, Msg, Packet, NoMsg,
        Report, NoReport, Orders, CountSent, FinalReport
  <2> QED BY <2>1, <2>2, <2>3, <2>4
<1>6. CASE MCleanStart
  <2> USE <1>6 DEF MCleanStart
  <2>1. FlagsOK'
    BY Zenon DEF FlagsOK
  <2>2. DataOK'
    BY DEF DataOK, Body
  <2>3. ExactlyOnce'
    BY Frame DEF DataOK, Structure, Reservation, SlotEmpty, FlushCopy, Reporting,
        Body
  <2>4. Structure'
    BY AppAssumption DEF DataOK, Structure, Reservation, LockSpan, SlotEmpty,
        FlushCopy, Numbers, FaultInHand, Reporting, Body, Msg, Packet, NoMsg,
        Report, NoReport, Orders, CountSent, FinalReport
  <2> QED BY <2>1, <2>2, <2>3, <2>4
<1>7. CASE MCleanPanel
  <2> USE <1>7 DEF MCleanPanel
  <2>1. FlagsOK'
    BY Zenon DEF FlagsOK
  <2>2. DataOK'
    BY DEF DataOK, Body
  <2>3. ExactlyOnce'
    BY Frame DEF DataOK, Structure, Reservation, SlotEmpty, FlushCopy, Reporting,
        Body
  <2>4. Structure'
    BY AppAssumption DEF DataOK, Structure, Reservation, LockSpan, SlotEmpty,
        FlushCopy, Numbers, FaultInHand, Reporting, Body, Msg, Packet, NoMsg,
        Report, NoReport, Orders, CountSent, FinalReport
  <2> QED BY <2>1, <2>2, <2>3, <2>4
<1>8. CASE MWake
  <2> USE <1>8 DEF MWake
  <2>1. FlagsOK'
    BY Zenon DEF FlagsOK
  <2>2. DataOK'
    BY DEF DataOK, Body
  <2>3. ExactlyOnce'
    BY Frame DEF DataOK, Structure, Reservation, SlotEmpty, FlushCopy, Reporting,
        Body
  <2>4. Structure'
    BY AppAssumption DEF DataOK, Structure, Reservation, LockSpan, SlotEmpty,
        FlushCopy, Numbers, FaultInHand, Reporting, Body, Msg, Packet, NoMsg,
        Report, NoReport, Orders, CountSent, FinalReport
  <2> QED BY <2>1, <2>2, <2>3, <2>4
<1>9. CASE MSafeStop
  <2> USE <1>9 DEF MSafeStop
  <2>1. FlagsOK'
    BY Zenon DEF FlagsOK
  <2>2. DataOK'
    BY DEF DataOK, Cmd, Body
  <2>3. ExactlyOnce'
    BY Frame DEF DataOK, Structure, Reservation, SlotEmpty, FlushCopy, Reporting,
        Body
  <2>4. Structure'
    BY AppAssumption DEF DataOK, Structure, Reservation, LockSpan, SlotEmpty,
        FlushCopy, Numbers, FaultInHand, Reporting, Body, Msg, Packet, NoMsg,
        Report, NoReport, Orders, CountSent, FinalReport
  <2> QED BY <2>1, <2>2, <2>3, <2>4
<1>10. CASE MReport
  <2> USE <1>10 DEF MReport
  <2>1. FlagsOK'
    BY Zenon DEF FlagsOK
  <2>2. DataOK'
    BY DEF DataOK, Body
  <2>3. ExactlyOnce'
    BY Frame DEF DataOK, Structure, Reservation, SlotEmpty, FlushCopy, Reporting,
        Body
  <2>4. Structure'
    BY AppAssumption DEF DataOK, Structure, Reservation, LockSpan, SlotEmpty,
        FlushCopy, Numbers, FaultInHand, Reporting, Body, Msg, Packet, NoMsg,
        Report, NoReport, Orders, CountSent, FinalReport
  <2> QED BY <2>1, <2>2, <2>3, <2>4
<1>11. CASE MReportSendOk
  <2> USE <1>11 DEF MReportSendOk
  <2>1. FlagsOK'
    BY Zenon DEF FlagsOK
  <2>2. DataOK'
    BY CountType DEF DataOK, Body
  <2>3. ExactlyOnce'
    BY AppAssumption DEF DataOK, Structure, Reservation, SlotEmpty, FlushCopy,
        Numbers, Reporting, Body, ExactlyOnce, Owed, Kept, CountSent,
        NoReport, Report, Msg, Orders, SameReport
  <2>4. Structure'
    BY AppAssumption DEF DataOK, Structure, Reservation, LockSpan, SlotEmpty,
        FlushCopy, Numbers, FaultInHand, Reporting, Body, Msg, Packet, NoMsg,
        Report, NoReport, Orders, CountSent, FinalReport
  <2> QED BY <2>1, <2>2, <2>3, <2>4
<1>12. CASE MReportSendFail
  <2> USE <1>12 DEF MReportSendFail
  <2>1. FlagsOK'
    BY Zenon DEF FlagsOK
  <2>2. DataOK'
    BY DEF DataOK, Body
  <2>3. ExactlyOnce'
    BY Frame DEF DataOK, Structure, Reservation, SlotEmpty, FlushCopy, Reporting,
        Body
  <2>4. Structure'
    BY AppAssumption DEF DataOK, Structure, Reservation, LockSpan, SlotEmpty,
        FlushCopy, Numbers, FaultInHand, Reporting, Body, Msg, Packet, NoMsg,
        Report, NoReport, Orders, CountSent, FinalReport
  <2> QED BY <2>1, <2>2, <2>3, <2>4
<1>13. CASE MReportStore
  <2> USE <1>13 DEF MReportStore
  <2>1. FlagsOK'
    BY Zenon DEF FlagsOK
  <2>2. DataOK'
    BY DEF DataOK, Structure, Numbers, Reporting, Msg, Report, Cmd,
          FinalReport, Body
  <2>3. ExactlyOnce'
    <3>1. mq = << >> /\ pending = NoReport /\ Reporting /\ ~Reporting'
      BY DEF DataOK, Structure, Reservation, SlotEmpty, Reporting, Body
    <3>2. pending' = FinalReport /\ FinalReport # NoReport
      BY <3>1 DEF DataOK, FinalReport, NoReport, Cmd
    <3>3. upc # "flush_clear" /\ UNCHANGED <<mq, upc, sent, accepted>>
      BY <3>1 DEF Structure, FlushCopy
    <3>4. \A o : Owed(o) <=> o = mmsg.order
      BY <3>1 DEF Owed
    <3>5. \A o : ~Owed(o)' /\ (Kept(o)' <=> o = mmsg.order)
      BY <3>1, <3>2, <3>3 DEF Owed, Kept, FinalReport
    <3>6. \A o : ~Kept(o)
      BY <3>1 DEF Kept
    <3> QED
      BY <3>3, <3>4, <3>5, <3>6 DEF ExactlyOnce
  <2>4. Structure'
    BY AppAssumption DEF DataOK, Structure, Reservation, LockSpan, SlotEmpty,
        FlushCopy, Numbers, FaultInHand, Reporting, Body, Msg, Packet, NoMsg,
        Report, NoReport, Orders, CountSent, FinalReport
  <2> QED BY <2>1, <2>2, <2>3, <2>4
<1>14. CASE MRelease
  <2> USE <1>14 DEF MRelease
  <2>1. FlagsOK'
    BY Zenon DEF FlagsOK
  <2>2. DataOK'
    BY DEF DataOK, Body
  <2>3. ExactlyOnce'
    BY Frame DEF DataOK, Structure, Reservation, SlotEmpty, FlushCopy, Reporting,
        Body
  <2>4. Structure'
    BY AppAssumption DEF DataOK, Structure, Reservation, LockSpan, SlotEmpty,
        FlushCopy, Numbers, FaultInHand, Reporting, Body, Msg, Packet, NoMsg,
        Report, NoReport, Orders, CountSent, FinalReport
  <2> QED BY <2>1, <2>2, <2>3, <2>4
<1> QED
  BY <1>1, <1>2, <1>3, <1>4, <1>5, <1>6, <1>7, <1>8, <1>9, <1>10, <1>11, <1>12,
     <1>13, <1>14 DEF MissionNext

\* So do the link and the control thread.
LEMMA EnvStep == IndInv /\ (LinkChange \/ LatchMotionFault) => IndInv'
<1> SUFFICES ASSUME IndInv, LinkChange \/ LatchMotionFault PROVE IndInv'
  OBVIOUS
<1> USE DEF IndInv, TypeOK, shared, udpVars, misVars, envVars, UdpGoto, CallFlush,
            Awake, MPoll, URefuseIfPending
<1>1. CASE LinkChange
  <2> USE <1>1 DEF LinkChange
  <2>1. FlagsOK'
    BY Zenon DEF FlagsOK
  <2>2. DataOK'
    BY DEF DataOK
  <2>3. ExactlyOnce'
    BY Frame DEF DataOK, Structure, Reservation, SlotEmpty, FlushCopy, Reporting,
        Body
  <2>4. Structure'
    BY AppAssumption DEF DataOK, Structure, Reservation, LockSpan, SlotEmpty,
        FlushCopy, Numbers, FaultInHand, Reporting, Body, Msg, Packet, NoMsg,
        Report, NoReport, Orders, CountSent, FinalReport
  <2> QED BY <2>1, <2>2, <2>3, <2>4
<1>2. CASE LatchMotionFault
  <2> USE <1>2 DEF LatchMotionFault
  <2>1. FlagsOK'
    BY Zenon DEF FlagsOK
  <2>2. DataOK'
    BY DEF DataOK
  <2>3. ExactlyOnce'
    BY Frame DEF DataOK, Structure, Reservation, SlotEmpty, FlushCopy, Reporting,
        Body
  <2>4. Structure'
    BY AppAssumption DEF DataOK, Structure, Reservation, LockSpan, SlotEmpty,
        FlushCopy, Numbers, FaultInHand, Reporting, Body, Msg, Packet, NoMsg,
        Report, NoReport, Orders, CountSent, FinalReport
  <2> QED BY <2>1, <2>2, <2>3, <2>4
<1> QED
  BY <1>1, <1>2

\* The inductive invariant holds in every reachable state.
THEOREM Invariance == Spec => []IndInv
<1>1. IndInv /\ UNCHANGED vars => IndInv'
  <2> SUFFICES ASSUME IndInv, UNCHANGED vars PROVE IndInv'
    OBVIOUS
  <2> USE DEF IndInv, TypeOK, vars, shared, udpVars, misVars
  <2>1. FlagsOK'
    BY Zenon DEF FlagsOK
  <2>2. DataOK'
    BY DEF DataOK
  <2>3. Structure'
    BY DEF Structure, Reservation, LockSpan, SlotEmpty, FlushCopy, Numbers,
           FaultInHand, Reporting
  <2>4. ExactlyOnce'
    BY Frame DEF Reporting
  <2> QED
    BY <2>1, <2>2, <2>3, <2>4
<1>2. IndInv /\ [Next]_vars => IndInv'
  BY <1>1, UdpStep, MissionStep, EnvStep DEF Next
<1> QED
  BY InitInv, <1>2, PTL DEF Spec

\* Every variable of the command server and of the mission thread keeps its
\* type.
THEOREM TypeCorrect == Spec => []TypeOK
<1>1. IndInv => TypeOK
  BY DEF IndInv
<1> QED
  BY Invariance, <1>1, PTL

\* The final report of every accepted order is owed, kept or sent once, for any
\* interleaving of the two threads and any behaviour of the network.
THEOREM AnsweredExactlyOnce == Spec => []ExactlyOnce
<1>1. IndInv => ExactlyOnce
  BY DEF IndInv
<1> QED
  BY Invariance, <1>1, PTL

-----------------------------------------------------------------------------

\* A handled stop keeps abort raised until the mission has seen it, and no
\* order can be waiting to clear it.
StopInv ==
  /\ masleep => mpc \in {"nav_camera", "nav", "parked", "clean",
                         "return_camera", "return", "report"}
  /\ stopped => mq = << >> /\ mpc # "start" /\ (mpc \in Body => abort)
  /\ StopHonoured

\* With the thread priorities, every step preserves StopInv: a stop is handled
\* only while the mission thread sleeps, waits for an order or is past its body.
LEMMA StopStep ==
  ASSUME Preemptive, IndInv, StopInv, Next
  PROVE  StopInv'
<1> USE DEF StopInv, StopHonoured, Body, shared, udpVars, misVars, envVars, UdpGoto,
            CallFlush, Awake, MPoll, URefuseIfPending
<1>1. CASE UdpNext /\ ~UDispatchStop /\ ~UMqSendOk
  <2>1. UNCHANGED <<misVars, abort, mq, stopped>>
    BY <1>1 DEF UdpNext, UWifi, USocketOk, USocketFail, UFlush, UFlushSendOk, UFlushSendFail, UFlushClear, UCheck, URecvNothing, URecvNul, URecvPacket, UDispatchFault, UDispatchUnknown, UEnqueue, UReserve, UReservePending, UReserveSet, UMqSendFull, UReject, UWithdraw, UClose
  <2> QED
    BY <2>1
<1>2. CASE UDispatchStop
  <2>1. mq = << >> /\ mpc # "start"
    BY <1>2 DEF UDispatchStop, UdpMayRun, MissionBlocked, IndInv, Structure,
                Reservation
  <2>2. abort' /\ UNCHANGED <<misVars, mq>>
    BY <1>2 DEF UDispatchStop
  <2>3. stopped' => stopped \/ mpc \in Body
    BY <1>2, <2>1 DEF UDispatchStop
  <2> QED
    BY <2>1, <2>2, <2>3
<1>3. CASE UMqSendOk
  BY <1>3 DEF UMqSendOk
<1>4. CASE MRecv
  BY <1>4 DEF MRecv, IndInv, Structure, Reservation
<1>5. CASE MStart
  BY <1>5 DEF MStart
<1>6. CASE MWaitTrackCamera
  BY <1>6 DEF MWaitTrackCamera
<1>7. CASE MFollowTrackPath
  BY <1>7 DEF MFollowTrackPath
<1>8. CASE MDelayAbortable
  BY <1>8 DEF MDelayAbortable
<1>9. CASE MCleanStart
  BY <1>9 DEF MCleanStart
<1>10. CASE MCleanPanel
  BY <1>10 DEF MCleanPanel
<1>11. CASE MWake
  BY <1>11 DEF MWake
<1>12. CASE MSafeStop
  BY <1>12 DEF MSafeStop
<1>13. CASE MReport
  BY <1>13 DEF MReport
<1>14. CASE MReportSendOk
  BY <1>14 DEF MReportSendOk
<1>15. CASE MReportSendFail
  BY <1>15 DEF MReportSendFail
<1>16. CASE MReportStore
  BY <1>16 DEF MReportStore
<1>17. CASE MRelease
  BY <1>17 DEF MRelease
<1>18. CASE LinkChange
  BY <1>18 DEF LinkChange
<1>19. CASE LatchMotionFault
  BY <1>19 DEF LatchMotionFault
<1> QED
  BY <1>1, <1>2, <1>3, <1>4, <1>5, <1>6, <1>7, <1>8, <1>9, <1>10, <1>11, <1>12, <1>13, <1>14, <1>15, <1>16, <1>17, <1>18, <1>19 DEF Next, MissionNext

\* Under the priorities of hcics_app_init, a stop handled while a mission is
\* queued or under way always makes that mission end as ERROR.
THEOREM StopNeverOvertaken ==
  ASSUME Preemptive
  PROVE  Spec => []StopHonoured
<1>1. Init => StopInv
  BY DEF Init, StopInv, StopHonoured
<1>2. IndInv /\ StopInv /\ [Next]_vars => StopInv'
  <2>1. StopInv /\ UNCHANGED vars => StopInv'
    BY DEF StopInv, StopHonoured, Body, vars, shared, misVars
  <2> QED
    BY <2>1, StopStep
<1>3. StopInv => StopHonoured
  BY DEF StopInv
<1> QED
  BY <1>1, <1>2, <1>3, Invariance, PTL DEF Spec

-----------------------------------------------------------------------------

\* A step of HcicsApp is a step of the abstract service or leaves it alone:
\* queueing an order is Accept, a direct send is Answer, storing the report is
\* Keep and a successful flush is Settle.
LEMMA ServiceStep ==
  ASSUME IndInv, [Next]_vars
  PROVE  [Service!Next]_(Service!vars)
<1> USE DEF IndInv, TypeOK, shared, udpVars, misVars, envVars, UdpGoto, CallFlush,
            Awake, MPoll, URefuseIfPending
<1>1. CASE UMqSendOk
  <2>1. phaseBar = "idle"
    BY <1>1 DEF UMqSendOk, phaseBar, Structure, Reservation, SlotEmpty, Reporting
  <2>2. phaseBar' = "working"
    BY <1>1 DEF UMqSendOk, phaseBar, DataOK
  <2>3. Service!Accept
    BY <1>1, <2>1, <2>2 DEF UMqSendOk, Service!Accept
  <2> QED
    BY <2>3 DEF Service!Next
<1>2. CASE UFlushSendOk
  <2>1. pending # NoReport /\ usnap.order = accepted
    BY <1>2 DEF UFlushSendOk, Structure, FlushCopy, Numbers
  <2>2. phaseBar = "owing" /\ phaseBar' = "idle"
    BY <1>2, <2>1 DEF UFlushSendOk, phaseBar, Structure, SlotEmpty, Reporting
  <2>3. Service!Settle
    BY <1>2, <2>1, <2>2 DEF UFlushSendOk, CountSent, Service!Settle
  <2> QED
    BY <2>3 DEF Service!Next
<1>3. CASE MReportSendOk
  <2>1. mmsg.order = accepted /\ mq = << >> /\ pending = NoReport
    BY <1>3 DEF MReportSendOk, Structure, Reservation, SlotEmpty, Numbers, Reporting
  <2>2. phaseBar = "working" /\ phaseBar' = "idle"
    BY <1>3, <2>1 DEF MReportSendOk, phaseBar, Reporting
  <2>3. Service!Answer
    BY <1>3, <2>1, <2>2 DEF MReportSendOk, CountSent, Service!Answer
  <2> QED
    BY <2>3 DEF Service!Next
<1>4. CASE MReportStore
  <2>1. mq = << >> /\ pending = NoReport /\ upc # "flush_clear"
    BY <1>4 DEF MReportStore, Structure, Reservation, SlotEmpty, FlushCopy, Reporting
  <2>2. pending' # NoReport
    BY <1>4, <2>1 DEF MReportStore, FinalReport, NoReport, DataOK, Cmd
  <2>3. phaseBar = "working" /\ phaseBar' = "owing"
    BY <1>4, <2>1, <2>2 DEF MReportStore, phaseBar, Reporting
  <2>4. Service!Keep
    BY <1>4, <2>3 DEF MReportStore, Service!Keep
  <2> QED
    BY <2>4 DEF Service!Next
<1>5. CASE UFlushClear
  <2>1. phaseBar = "idle"
    BY <1>5 DEF UFlushClear, phaseBar, Structure, FlushCopy, SlotEmpty, Reporting
  <2>2. pending' = NoReport
    BY <1>5 DEF UFlushClear, Structure, FlushCopy, SameReport
  <2>3. phaseBar' = "idle"
    BY <1>5, <2>1, <2>2 DEF UFlushClear, phaseBar, Structure, FlushCopy, SlotEmpty,
                            Reporting
  <2> QED
    BY <1>5, <2>1, <2>3 DEF UFlushClear, Service!vars
<1>6. CASE MRecv
  BY <1>6, OneMessage DEF MRecv, Service!vars, phaseBar, Reporting, Structure,
                          Reservation, DataOK
<1>7. CASE UdpNext /\ ~UMqSendOk /\ ~UFlushSendOk /\ ~UFlushClear
  <2>1. UNCHANGED <<misVars, mq, pending, accepted, sent>>
    BY <1>7 DEF UdpNext, UWifi, USocketOk, USocketFail, UFlush, UFlushSendFail, UCheck,
                URecvNothing, URecvNul, URecvPacket, UDispatchFault,
                UDispatchStop, UDispatchUnknown, UEnqueue, UReserve,
                UReservePending, UReserveSet, UMqSendFull, UReject, UWithdraw,
                UClose
  <2>2. upc # "flush_clear" /\ upc' # "flush_clear"
    BY <1>7 DEF UdpNext, UWifi, USocketOk, USocketFail, UFlush, UFlushSendFail, UCheck,
                URecvNothing, URecvNul, URecvPacket, UDispatchFault,
                UDispatchStop, UDispatchUnknown, UEnqueue, UReserve,
                UReservePending, UReserveSet, UMqSendFull, UReject, UWithdraw,
                UClose, DataOK
  <2> QED
    BY <2>1, <2>2 DEF Service!vars, phaseBar, Reporting
<1>8. CASE MissionNext /\ ~MRecv /\ ~MReportSendOk /\ ~MReportStore
  <2>1. UNCHANGED <<udpVars, mq, pending, accepted, sent>>
    BY <1>8 DEF MissionNext, MStart, MWaitTrackCamera, MFollowTrackPath,
                MDelayAbortable, MCleanStart, MCleanPanel, MWake, MSafeStop,
                MReport, MReportSendFail, MRelease
  <2>2. Reporting' = Reporting
    BY <1>8 DEF MissionNext, MStart, MWaitTrackCamera, MFollowTrackPath,
                MDelayAbortable, MCleanStart, MCleanPanel, MWake, MSafeStop,
                MReport, MReportSendFail, MRelease, DataOK, Reporting, Body
  <2> QED
    BY <2>1, <2>2 DEF Service!vars, phaseBar
<1>9. CASE LinkChange \/ LatchMotionFault \/ UNCHANGED vars
  BY <1>9 DEF LinkChange, LatchMotionFault, vars, Service!vars, phaseBar, Reporting
<1> QED
  BY <1>1, <1>2, <1>3, <1>4, <1>5, <1>6, <1>7, <1>8, <1>9 DEF Next

\* The command server and the mission thread implement the abstract service:
\* one order at a time, each answered once, and none accepted while a report
\* is owed.
THEOREM Refinement == Spec => ImplementsService
<1>1. Init => Service!Init
  BY DEF Init, Service!Init, phaseBar, Reporting, Orders, Service!Orders
<1>2. IndInv /\ [Next]_vars => [Service!Next]_(Service!vars)
  BY ServiceStep
<1> QED
  BY <1>1, <1>2, Invariance, PTL DEF Spec, ImplementsService, Service!Spec

-----------------------------------------------------------------------------

\* PublishedIsOpen is not inductive alone: that closing the descriptor does no harm
\* needs that it has been withdrawn by then.
SocketInv ==
  /\ PublishedIsOpen
  /\ upc = "closing" => ~udp_sock

\* Only the UDP thread touches the descriptor.
LEMMA SocketStep ==
  ASSUME TypeOK, SocketInv, [Next]_vars
  PROVE  SocketInv'
<1> USE DEF SocketInv, PublishedIsOpen, shared, udpVars, misVars, envVars, UdpGoto,
            CallFlush, Awake, MPoll, URefuseIfPending
<1>1. CASE USocketOk
  BY <1>1 DEF USocketOk
<1>2. CASE USocketFail
  BY <1>2 DEF USocketFail
<1>3. CASE UWithdraw
  BY <1>3 DEF UWithdraw
<1>4. CASE UClose
  BY <1>4 DEF UClose
<1>5. CASE UdpNext /\ ~USocketOk /\ ~USocketFail /\ ~UWithdraw /\ ~UClose
  <2>1. UNCHANGED <<udp_sock, sock_open>>
    BY <1>5 DEF UdpNext, UWifi, UFlush, UFlushSendOk, UFlushSendFail, UFlushClear,
                UCheck, URecvNothing, URecvNul, URecvPacket, UDispatchFault,
                UDispatchStop, UDispatchUnknown, UEnqueue, UReserve,
                UReservePending, UReserveSet, UMqSendOk, UMqSendFull, UReject
  <2>2. upc' # "closing"
    BY <1>5 DEF UdpNext, UWifi, UFlush, UFlushSendOk, UFlushSendFail, UFlushClear,
                UCheck, URecvNothing, URecvNul, URecvPacket, UDispatchFault,
                UDispatchStop, UDispatchUnknown, UEnqueue, UReserve,
                UReservePending, UReserveSet, UMqSendOk, UMqSendFull, UReject,
                TypeOK, DataOK
  <2> QED
    BY <2>1, <2>2
<1>6. CASE MissionNext
  <2>1. UNCHANGED <<udp_sock, sock_open, upc>>
    BY <1>6 DEF MissionNext, MRecv, MStart, MWaitTrackCamera, MFollowTrackPath,
                MDelayAbortable, MCleanStart, MCleanPanel, MWake, MSafeStop,
                MReport, MReportSendOk, MReportSendFail, MReportStore, MRelease
  <2> QED
    BY <2>1
<1>7. CASE LinkChange \/ LatchMotionFault \/ UNCHANGED vars
  BY <1>7 DEF LinkChange, LatchMotionFault, vars
<1> QED
  BY <1>1, <1>2, <1>3, <1>4, <1>5, <1>6, <1>7 DEF Next

\* The descriptor that other threads can pick up from g_hcics.udp_sock is open, under
\* every interleaving and however often the link is lost.
THEOREM NeverPublishedClosed == Spec => []PublishedIsOpen
<1>1. Init => SocketInv
  BY DEF Init, SocketInv, PublishedIsOpen
<1>2. TypeOK /\ SocketInv /\ [Next]_vars => SocketInv'
  BY SocketStep
<1>3. SocketInv => PublishedIsOpen
  BY DEF SocketInv
<1> QED
  BY <1>1, <1>2, <1>3, TypeCorrect, PTL DEF Spec

=============================================================================
