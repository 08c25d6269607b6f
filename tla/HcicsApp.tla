------------------------------ MODULE HcicsApp ------------------------------
(***************************************************************************)
(* hcics_app.c: the UDP command server and the mission thread.              *)
(*                                                                         *)
(* The UDP thread receives fault and stop commands, reserves the mission    *)
(* slot and queues the order; the mission thread drives the vehicle through *)
(* the mission and reports the outcome.  The two share busy (under          *)
(* state_lock), the socket and the pending report (under udp_lock), the     *)
(* message queue and the abort flag.  Every udp_lock section is free of     *)
(* waiting, so it is one step; state_lock is held across a udp_lock section *)
(* in hcics_reserve_mission, so it is a variable.  The track, motion and    *)
(* cleaner modules appear here through the outcome of the calls.            *)
(***************************************************************************)
EXTENDS Naturals, Sequences

CONSTANTS
  Faults,        \* fault ids a valid command can carry
  Peers,         \* addresses commands come from
  EventDepth,    \* HCICS_EVENT_DEPTH, capacity of the message queue
  MaxMissions,   \* bound on the orders accepted in one behaviour
  Preemptive     \* TRUE: the priorities of hcics_app_init hold, so the UDP
                 \* thread runs only while the mission thread is blocked;
                 \* FALSE: the two threads interleave freely

ASSUME AppAssumption ==
  /\ EventDepth \in Nat \ {0}
  /\ MaxMissions \in Nat
  /\ Preemptive \in BOOLEAN

VARIABLES
  busy,          \* g_hcics.busy
  state_lock,    \* holder of g_hcics.state_lock: "udp" or "free"
  abort,         \* g_hcics.abort
  pending,       \* g_hcics.pending_report_*: a report or NoReport
  udp_sock,      \* g_hcics.udp_sock >= 0
  sock_open,     \* the descriptor is open in the network stack
  link,          \* rt_wlan_is_ready()
  mq,            \* contents of g_hcics.mq
  upc, uret,     \* UDP thread: place, and where its flush returns to
  umsg, usnap,   \* UDP thread: packet in hand, report being flushed
  mpc, masleep,  \* mission thread: place, and whether it sleeps there
  mmsg, mcmd,    \* mission thread: its order, and the outcome to report
  msock,         \* mission thread: its copy of udp_sock
  accepted,      \* history: orders put on the queue so far
  sent,          \* history: number of final reports sent for each order
  stopped        \* history: a stop was handled before the mission's last
                 \* look at the abort flag

udpVars == <<upc, uret, umsg, usnap>>
misVars == <<mpc, masleep, mmsg, mcmd, msock>>

\* Everything a purely local step of the UDP thread leaves alone.
shared == <<busy, state_lock, abort, pending, udp_sock, sock_open, link, mq,
            accepted, sent, stopped>>

vars == <<shared, udpVars, misVars>>

Orders == 1 .. MaxMissions

\* A queued order: fault and peer as in hcics_msg_t, and the history number.
Msg == [fault : Faults, peer : Peers, order : Orders]

Cmd == {"DONE", "ERROR"}

Report == [cmd : Cmd, fault : Faults, peer : Peers, order : Orders]

NoReport == [cmd |-> "none"]

NoMsg == [type |-> "none"]

\* The packets hcics_udp_thread tells apart.
Packet ==
  [type : {"fault"}, fault : Faults, peer : Peers]
    \cup {[type |-> "stop"], [type |-> "unknown"]}

\* Mission phases in which the thread still looks at the abort flag.
Body == {"start", "nav_camera", "nav", "parked", "clean_start", "clean",
         "return_camera", "return"}

Init ==
  /\ busy = FALSE
  /\ state_lock = "free"
  /\ abort = FALSE
  /\ pending = NoReport
  /\ udp_sock = FALSE
  /\ sock_open = FALSE
  /\ link = FALSE
  /\ mq = << >>
  /\ upc = "wifi" /\ uret = "check"
  /\ umsg = NoMsg /\ usnap = NoReport
  /\ mpc = "recv" /\ masleep = FALSE
  /\ mmsg = NoMsg /\ mcmd = "ERROR" /\ msock = FALSE
  /\ accepted = 0
  /\ sent = [o \in Orders |-> 0]
  /\ stopped = FALSE

-----------------------------------------------------------------------------
(* Scheduling.                                                             *)

\* The mission thread waits: for a message, for a timer, for state_lock, or
\* inside sendto, where the network stack may block it.
MissionBlocked ==
  \/ mpc = "recv" /\ mq = << >>
  \/ masleep
  \/ mpc = "release" /\ state_lock # "free"
  \/ mpc = "report_send"

UdpMayRun == Preemptive => MissionBlocked

-----------------------------------------------------------------------------
(* UDP thread.                                                             *)

UdpGoto(place) == upc' = place

\* The flush of the pending report, called with the place to return to.
CallFlush(place) == upc' = "flush" /\ uret' = place

\* hcics_wifi_wait_ready: a failed wait is retried.
UWifi ==
  /\ upc = "wifi" /\ UdpMayRun
  /\ link
  /\ UdpGoto("socket")
  /\ UNCHANGED <<shared, uret, umsg, usnap, misVars>>

\* socket and bind succeed: publish the descriptor, then flush.
USocketOk ==
  /\ upc = "socket" /\ UdpMayRun
  /\ udp_sock' = TRUE
  /\ sock_open' = TRUE
  /\ CallFlush("check")
  /\ UNCHANGED <<busy, state_lock, abort, pending, link, mq, umsg, usnap,
                 misVars, accepted, sent, stopped>>

\* socket or bind fails: nothing stays open, start over.
USocketFail ==
  /\ upc = "socket" /\ UdpMayRun
  /\ udp_sock' = FALSE
  /\ UdpGoto("wifi")
  /\ UNCHANGED <<busy, state_lock, abort, pending, sock_open, link, mq, uret,
                 umsg, usnap, misVars, accepted, sent, stopped>>

\* hcics_flush_pending_report, the locked part: copy the report if it can be
\* sent now.
UFlush ==
  /\ upc = "flush" /\ UdpMayRun
  /\ IF pending # NoReport /\ udp_sock /\ link
       THEN usnap' = pending /\ UdpGoto("flush_send")
       ELSE UdpGoto(uret) /\ UNCHANGED usnap
  /\ UNCHANGED <<shared, uret, umsg, misVars>>

\* hcics_udp_send_report can succeed only on an open socket of a ready link.
CanSend(sock) == sock /\ sock_open /\ link

CountSent(o) == sent' = [sent EXCEPT ![o] = @ + 1]

UFlushSendOk ==
  /\ upc = "flush_send" /\ UdpMayRun
  /\ CanSend(udp_sock)
  /\ CountSent(usnap.order)
  /\ UdpGoto("flush_clear")
  /\ UNCHANGED <<busy, state_lock, abort, pending, udp_sock, sock_open, link,
                 mq, uret, umsg, usnap, misVars, accepted, stopped>>

UFlushSendFail ==
  /\ upc = "flush_send" /\ UdpMayRun
  /\ UdpGoto(uret)
  /\ UNCHANGED <<shared, uret, umsg, usnap, misVars>>

\* Same command, parameter and peer; the code does not know order numbers.
SameReport(r, s) == r.cmd = s.cmd /\ r.fault = s.fault /\ r.peer = s.peer

\* hcics_clear_pending_report_if_current.
UFlushClear ==
  /\ upc = "flush_clear" /\ UdpMayRun
  /\ pending' = IF pending # NoReport /\ SameReport(pending, usnap)
                  THEN NoReport ELSE pending
  /\ UdpGoto(uret)
  /\ UNCHANGED <<busy, state_lock, abort, udp_sock, sock_open, link, mq, uret,
                 umsg, usnap, misVars, accepted, sent, stopped>>

\* Head of the receive loop: leave it when the link is lost.
UCheck ==
  /\ upc = "check" /\ UdpMayRun
  /\ UdpGoto(IF link THEN "recv" ELSE "close")
  /\ UNCHANGED <<shared, uret, umsg, usnap, misVars>>

\* Mutant: an idle second does not flush the pending report.
URecvNothingNoFlush ==
  /\ upc = "recv" /\ UdpMayRun
  /\ UdpGoto("check")
  /\ UNCHANGED <<shared, uret, umsg, usnap, misVars>>

\* recvfrom returns nothing within the one second of SO_RCVTIMEO, or fails.
URecvNothing ==
  /\ upc = "recv" /\ UdpMayRun
  /\ CallFlush("check")
  /\ UNCHANGED <<shared, umsg, usnap, misVars>>

\* A packet with an embedded NUL is dropped without a flush.
URecvNul ==
  /\ upc = "recv" /\ UdpMayRun
  /\ UdpGoto("check")
  /\ UNCHANGED <<shared, uret, umsg, usnap, misVars>>

URecvPacket ==
  /\ upc = "recv" /\ UdpMayRun
  /\ \E p \in Packet : umsg' = p
  /\ CallFlush("dispatch")
  /\ UNCHANGED <<shared, usnap, misVars>>

\* A fault is refused while a report is pending, else enqueued; both places
\* that ask hcics_pending_report_active do the same.
URefuseIfPending(place, next) ==
  /\ upc = place /\ UdpMayRun
  /\ umsg.type = "fault"
  /\ UdpGoto(IF pending # NoReport THEN "reject" ELSE next)
  /\ UNCHANGED <<shared, uret, umsg, usnap, misVars>>

UDispatchFault == URefuseIfPending("dispatch", "enqueue")

UEnqueue == URefuseIfPending("enqueue", "reserve")

\* A stop command: hcics_app_stop raises abort before it stops the parts.
UDispatchStop ==
  /\ upc = "dispatch" /\ UdpMayRun
  /\ umsg.type = "stop"
  /\ abort' = TRUE
  /\ stopped' = (stopped \/ mq # << >> \/ mpc \in Body)
  /\ UdpGoto("check")
  /\ UNCHANGED <<busy, state_lock, pending, udp_sock, sock_open, link, mq,
                 uret, umsg, usnap, misVars, accepted, sent>>

UDispatchUnknown ==
  /\ upc = "dispatch" /\ UdpMayRun
  /\ umsg.type = "unknown"
  /\ UdpGoto("check")
  /\ UNCHANGED <<shared, uret, umsg, usnap, misVars>>

\* Mutant: the slot is reserved without a look at busy.
UReserveUnchecked ==
  /\ upc = "reserve" /\ UdpMayRun
  /\ state_lock = "free"
  /\ UdpGoto("reserve_pending") /\ state_lock' = "udp"
  /\ UNCHANGED <<busy, abort, pending, udp_sock, sock_open, link, mq, uret,
                 umsg, usnap, misVars, accepted, sent, stopped>>

\* hcics_reserve_mission takes state_lock and looks at busy.
UReserve ==
  /\ upc = "reserve" /\ UdpMayRun
  /\ state_lock = "free"
  /\ IF busy THEN UdpGoto("reject") /\ UNCHANGED state_lock
             ELSE UdpGoto("reserve_pending") /\ state_lock' = "udp"
  /\ UNCHANGED <<busy, abort, pending, udp_sock, sock_open, link, mq, uret,
                 umsg, usnap, misVars, accepted, sent, stopped>>

\* Mutant: the slot is reserved without a look at the pending report.
UReservePendingUnchecked ==
  /\ upc = "reserve_pending" /\ UdpMayRun
  /\ UdpGoto("reserve_set")
  /\ UNCHANGED <<shared, uret, umsg, usnap, misVars>>

\* Still under state_lock it looks at the pending report.
UReservePending ==
  /\ upc = "reserve_pending" /\ UdpMayRun
  /\ IF pending # NoReport
       THEN UdpGoto("reject") /\ state_lock' = "free"
       ELSE UdpGoto("reserve_set") /\ UNCHANGED state_lock
  /\ UNCHANGED <<busy, abort, pending, udp_sock, sock_open, link, mq, uret,
                 umsg, usnap, misVars, accepted, sent, stopped>>

UReserveSet ==
  /\ upc = "reserve_set" /\ UdpMayRun
  /\ busy' = TRUE
  /\ state_lock' = "free"
  /\ UdpGoto("mq_send")
  /\ UNCHANGED <<abort, pending, udp_sock, sock_open, link, mq, uret, umsg,
                 usnap, misVars, accepted, sent, stopped>>

UMqSendOk ==
  /\ upc = "mq_send" /\ UdpMayRun
  /\ Len(mq) < EventDepth
  /\ accepted < MaxMissions
  /\ accepted' = accepted + 1
  /\ mq' = Append(mq, [fault |-> umsg.fault, peer |-> umsg.peer,
                       order |-> accepted + 1])
  /\ stopped' = FALSE
  /\ UdpGoto("check")
  /\ UNCHANGED <<busy, state_lock, abort, pending, udp_sock, sock_open, link,
                 uret, umsg, usnap, misVars, sent>>

\* Mutant: the slot stays reserved when the order could not be queued.
UMqSendFullNoRelease ==
  /\ upc = "mq_send" /\ UdpMayRun
  /\ Len(mq) >= EventDepth \/ accepted >= MaxMissions
  /\ UdpGoto("reject")
  /\ UNCHANGED <<shared, uret, umsg, usnap, misVars>>

\* The queue is full, as it is taken to be once MaxMissions orders have been
\* accepted: hcics_release_mission.
UMqSendFull ==
  /\ upc = "mq_send" /\ UdpMayRun
  /\ Len(mq) >= EventDepth \/ accepted >= MaxMissions
  /\ state_lock = "free"
  /\ busy' = FALSE
  /\ UdpGoto("reject")
  /\ UNCHANGED <<state_lock, abort, pending, udp_sock, sock_open, link, mq,
                 uret, umsg, usnap, misVars, accepted, sent, stopped>>

\* hcics_report_esp_reject: one attempt, whatever comes of it.
UReject ==
  /\ upc = "reject" /\ UdpMayRun
  /\ UdpGoto("check")
  /\ UNCHANGED <<shared, uret, umsg, usnap, misVars>>

\* Mutant: the descriptor is closed and stays published.
UWithdrawNot ==
  /\ upc = "close" /\ UdpMayRun
  /\ UdpGoto("closing")
  /\ UNCHANGED <<shared, uret, umsg, usnap, misVars>>

\* Link lost: withdraw the descriptor first, close it afterwards.
UWithdraw ==
  /\ upc = "close" /\ UdpMayRun
  /\ udp_sock' = FALSE
  /\ UdpGoto("closing")
  /\ UNCHANGED <<busy, state_lock, abort, pending, sock_open, link, mq, uret,
                 umsg, usnap, misVars, accepted, sent, stopped>>

UClose ==
  /\ upc = "closing" /\ UdpMayRun
  /\ sock_open' = FALSE
  /\ UdpGoto("wifi")
  /\ UNCHANGED <<busy, state_lock, abort, pending, udp_sock, link, mq, uret,
                 umsg, usnap, misVars, accepted, sent, stopped>>

UdpNext ==
  \/ UWifi \/ USocketOk \/ USocketFail
  \/ UFlush \/ UFlushSendOk \/ UFlushSendFail \/ UFlushClear
  \/ UCheck \/ URecvNothing \/ URecvNul \/ URecvPacket
  \/ UDispatchFault \/ UDispatchStop \/ UDispatchUnknown
  \/ UEnqueue \/ UReserve \/ UReservePending \/ UReserveSet
  \/ UMqSendOk \/ UMqSendFull \/ UReject \/ UWithdraw \/ UClose

-----------------------------------------------------------------------------
(* Mission thread.                                                         *)

envVars == <<link, udp_sock, sock_open, state_lock, udpVars, accepted>>

Awake(place) == mpc = place /\ ~masleep

\* rt_mq_recv.
MRecv ==
  /\ Awake("recv")
  /\ mq # << >>
  /\ mmsg' = Head(mq)
  /\ mq' = Tail(mq)
  /\ mpc' = "start"
  /\ UNCHANGED <<envVars, busy, abort, pending, masleep, mcmd, msock, sent,
                 stopped>>

\* Start of hcics_run_mission: clear abort, the motion fault and the emergency
\* stop; fail if the motion reset latches it again, else reset the cleaner,
\* which may sleep.
MStart ==
  /\ Awake("start")
  /\ abort' = FALSE
  /\ \/ mpc' = "failed" /\ UNCHANGED masleep
     \/ mpc' = "nav_camera" /\ masleep' \in BOOLEAN
  /\ UNCHANGED <<envVars, busy, pending, mq, mmsg, mcmd, msock, sent, stopped>>

\* Mutant: the loop may be left with success although abort is set.
MPollLateAbort(place, next) ==
  /\ Awake(place)
  /\ \/ mpc' \in {next, "failed"} /\ UNCHANGED masleep
     \/ ~abort /\ masleep' = TRUE /\ UNCHANGED mpc
  /\ UNCHANGED <<envVars, busy, abort, pending, mq, mmsg, mcmd, msock, sent,
                 stopped>>

\* One turn of a polling loop "while (!abort)": leave it with success, with a
\* failure or timeout, or sleep for another turn.
MPoll(place, next) ==
  /\ Awake(place)
  /\ \/ abort /\ mpc' = "failed" /\ UNCHANGED masleep
     \/ ~abort /\ mpc' \in {next, "failed"} /\ UNCHANGED masleep
     \/ ~abort /\ masleep' = TRUE /\ UNCHANGED mpc
  /\ UNCHANGED <<envVars, busy, abort, pending, mq, mmsg, mcmd, msock, sent,
                 stopped>>

\* hcics_wait_track_camera followed by hcics_track_start_path.
MWaitTrackCamera ==
  \/ MPoll("nav_camera", "nav")
  \/ MPoll("return_camera", "return")

\* The loop of hcics_follow_track_path, there and back.
MFollowTrackPath ==
  \/ MPoll("nav", "parked")
  \/ MPoll("return", "done")

\* hcics_delay_abortable looks at abort before each of its sleeps.
MDelayAbortable ==
  /\ Awake("parked")
  /\ IF abort THEN mpc' = "failed" /\ UNCHANGED masleep
              ELSE masleep' = TRUE /\ UNCHANGED mpc
  /\ UNCHANGED <<envVars, busy, abort, pending, mq, mmsg, mcmd, msock, sent,
                 stopped>>

\* hcics_clean_panel starts the cleaner without looking at abort ...
MCleanStart ==
  /\ Awake("clean_start")
  /\ mpc' \in {"clean", "failed"}
  /\ UNCHANGED <<envVars, busy, abort, pending, mq, masleep, mmsg, mcmd, msock,
                 sent, stopped>>

\* ... and then polls its status.
MCleanPanel == MPoll("clean", "return_camera")

\* A sleep ends.  After the last sleep of hcics_delay_abortable the delay is
\* over and abort is not looked at again.
MWake ==
  /\ masleep
  /\ masleep' = FALSE
  /\ mpc' \in IF mpc = "parked" THEN {"parked", "clean_start"} ELSE {mpc}
  /\ UNCHANGED <<envVars, busy, abort, pending, mq, mmsg, mcmd, msock, sent,
                 stopped>>

\* Mutant: an aborted mission is reported with a command of its own.
MSafeStopThirdCmd ==
  /\ mpc \in {"failed", "done"} /\ ~masleep
  /\ mcmd' = IF mpc = "done" THEN "DONE" ELSE IF abort THEN "STOPPED" ELSE "ERROR"
  /\ mpc' = "report"
  /\ masleep' \in BOOLEAN
  /\ UNCHANGED <<envVars, busy, abort, pending, mq, mmsg, msock, sent, stopped>>

\* hcics_safe_stop_outputs, whose cleaner reset may sleep; the outcome is fixed.
MSafeStop ==
  /\ mpc \in {"failed", "done"} /\ ~masleep
  /\ mcmd' = IF mpc = "done" THEN "DONE" ELSE "ERROR"
  /\ mpc' = "report"
  /\ masleep' \in BOOLEAN
  /\ UNCHANGED <<envVars, busy, abort, pending, mq, mmsg, msock, sent, stopped>>

\* hcics_report_esp_final copies the descriptor under udp_lock ...
MReport ==
  /\ Awake("report")
  /\ msock' = udp_sock
  /\ mpc' = "report_send"
  /\ UNCHANGED <<envVars, busy, abort, pending, mq, masleep, mmsg, mcmd, sent,
                 stopped>>

\* ... and uses it after unlocking; it may be closed by then.
MReportSendOk ==
  /\ Awake("report_send")
  /\ CanSend(msock)
  /\ CountSent(mmsg.order)
  /\ mpc' = "release"
  /\ UNCHANGED <<envVars, busy, abort, pending, mq, masleep, mmsg, mcmd, msock,
                 stopped>>

MReportSendFail ==
  /\ Awake("report_send")
  /\ mpc' = "report_store"
  /\ UNCHANGED <<envVars, busy, abort, pending, mq, masleep, mmsg, mcmd, msock,
                 sent, stopped>>

FinalReport == [cmd |-> mcmd, fault |-> mmsg.fault, peer |-> mmsg.peer,
                order |-> mmsg.order]

\* hcics_store_pending_report_locked keeps an older report and drops this one.
MReportStore ==
  /\ Awake("report_store")
  /\ pending' = IF pending # NoReport THEN pending ELSE FinalReport
  /\ mpc' = "release"
  /\ UNCHANGED <<envVars, busy, abort, mq, masleep, mmsg, mcmd, msock, sent,
                 stopped>>

\* hcics_release_mission.
MRelease ==
  /\ Awake("release")
  /\ state_lock = "free"
  /\ busy' = FALSE
  /\ mpc' = "recv"
  /\ UNCHANGED <<envVars, abort, pending, mq, masleep, mmsg, mcmd, msock, sent,
                 stopped>>

MissionNext ==
  \/ MRecv \/ MStart \/ MWaitTrackCamera \/ MFollowTrackPath \/ MDelayAbortable
  \/ MCleanStart \/ MCleanPanel \/ MWake \/ MSafeStop \/ MReport
  \/ MReportSendOk \/ MReportSendFail \/ MReportStore \/ MRelease

-----------------------------------------------------------------------------
(* Surroundings.                                                           *)

\* The wireless link comes and goes.
LinkChange ==
  /\ link' = ~link
  /\ UNCHANGED <<busy, state_lock, abort, pending, udp_sock, sock_open, mq,
                 udpVars, misVars, accepted, sent, stopped>>

\* hcics_latch_motion_fault, called by the control thread.
LatchMotionFault ==
  /\ abort' = TRUE
  /\ UNCHANGED <<busy, state_lock, pending, udp_sock, sock_open, link, mq,
                 udpVars, misVars, accepted, sent, stopped>>

Next == UdpNext \/ MissionNext \/ LinkChange \/ LatchMotionFault

Spec == Init /\ [][Next]_vars

(***************************************************************************)
(* Fairness.  Both threads get the processor again and again: the mission   *)
(* thread sleeps between polls and the UDP thread then runs.  Every polling *)
(* loop of the mission has a timeout, so a phase is not repeated for ever.  *)
(* Of the network: a socket can be opened, a send goes through and the      *)
(* receive loop sees something else than NUL packets, again and again.      *)
(***************************************************************************)
MLeavePhase == MissionNext /\ mpc' # mpc

Fairness ==
  /\ WF_vars(MissionNext)
  /\ SF_vars(MLeavePhase)
  /\ SF_vars(UdpNext)
  /\ SF_vars(USocketOk)
  /\ SF_vars(UFlushSendOk)
  /\ SF_vars(URecvNothing \/ URecvPacket)

FairSpec == Spec /\ Fairness

-----------------------------------------------------------------------------
(* Properties.                                                             *)

FlagsOK ==
  \A flag \in {busy, abort, udp_sock, sock_open, link, masleep, msock, stopped} :
    flag \in BOOLEAN

DataOK ==
  /\ state_lock \in {"free", "udp"}
  /\ pending \in Report \cup {NoReport}
  /\ mq \in Seq(Msg)
  /\ upc \in {"wifi", "socket", "flush", "flush_send", "flush_clear", "check",
              "recv", "dispatch", "enqueue", "reserve", "reserve_pending",
              "reserve_set", "mq_send", "reject", "close", "closing"}
  /\ uret \in {"check", "dispatch"}
  /\ umsg \in Packet \cup {NoMsg}
  /\ usnap \in Report \cup {NoReport}
  /\ mpc \in Body \cup {"recv", "failed", "done", "report", "report_send",
                        "report_store", "release"}
  /\ mmsg \in Msg \cup {NoMsg}
  /\ mcmd \in Cmd
  /\ accepted \in 0 .. MaxMissions
  /\ sent \in [Orders -> Nat]

TypeOK == FlagsOK /\ DataOK

\* The mission thread has taken an order and not yet reported its outcome.
Reporting == mpc \notin {"recv", "release"}

\* Order o waits in the queue, is being carried out, or is being reported.
Owed(o) ==
  \/ \E i \in DOMAIN mq : mq[i].order = o
  \/ Reporting /\ mmsg.order = o

\* The report of order o is in the pending slot and has not been sent from it.
Kept(o) == pending # NoReport /\ upc # "flush_clear" /\ pending.order = o

\* Every accepted order is, at any time, in exactly one place: still owed,
\* kept in the pending slot, or answered once.  So the final report of a
\* mission is neither lost (hcics_report_esp_final finding the slot occupied,
\* or its socket closed meanwhile) nor sent twice (a flush that does not
\* clear the slot).
ExactlyOnce ==
  \A o \in 1 .. accepted :
    \/ Owed(o) /\ ~Kept(o) /\ sent[o] = 0
    \/ ~Owed(o) /\ Kept(o) /\ sent[o] = 0
    \/ ~Owed(o) /\ ~Kept(o) /\ sent[o] = 1

\* A descriptor other threads can pick up from g_hcics.udp_sock is open: the
\* UDP thread withdraws it before it closes it.
PublishedIsOpen == udp_sock => sock_open

\* A stop command handled while a mission is queued or under way is never
\* overtaken: that mission does not end as DONE.  hcics_run_mission clears
\* abort when it starts, so this rests on the thread priorities.
StopHonoured ==
  stopped => /\ mpc # "done"
             /\ mpc \in {"report", "report_send", "report_store", "release"}
                  => mcmd = "ERROR"

\* What the server owes, as the abstract service sees it.
phaseBar ==
  IF Reporting \/ mq # << >> THEN "working"
  ELSE IF pending # NoReport /\ upc # "flush_clear" THEN "owing"
  ELSE "idle"

Service == INSTANCE MissionService
             WITH phase <- phaseBar, orders <- accepted, answered <- sent

\* The two threads together implement the one-order-at-a-time service: no
\* fault command is accepted while the report of the last one is owed.
ImplementsService == Service!Spec

\* The mission slot always becomes free again, whatever the network does.
SlotFreed == busy ~> ~busy

\* If the link stays up from some time on, every accepted order is answered.
EveryOrderAnswered ==
  <>[]link => \A o \in Orders : (accepted >= o) ~> (sent[o] = 1)
=============================================================================
