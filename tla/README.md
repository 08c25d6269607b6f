# HCICS: a TLA+ model of the panel-cleaning vehicle

HCICS is the firmware of a vehicle that drives along a grid of photovoltaic
panels, cleans the panel an ESP gateway names and drives home (STM32H750 on an
ART-Pi board, RT-Thread 4.1, one core, 1 kHz tick).  The program's own code is
`src/applications/`; everything else in the repository is vendored (RT-Thread,
STM32 HAL, board support).  There are no tests and no separate docs: the comments
in the code are its documentation.

This directory holds TLA+ modules translated from that code, TLC configurations
that check them on small instances, and proofs for TLAPS.

## 1. Inventory

Threads, by priority (a smaller number is more urgent):

| thread | prio | loop |
|---|---|---|
| control | 12 | every 5 ms: `hcics_track_tick`, `hcics_motion_update` |
| mission | 17 | take an order from the queue, run the mission, report |
| cleaner worker | 18 | wait for the start semaphore, run the cleaning |
| UDP | 19 | open the socket, receive commands, flush the pending report |
| track camera, clean camera | 19 | read UART bytes, publish frames |
| guard | 20 | sample the distance sensor |

Threads of the network stack (lwIP) have priorities 10 and 12, so even the control
thread can be late.

| component | state | operations | hard parts | what makes it correct |
|---|---|---|---|---|
| mission server (`hcics_app.c`) | `busy` under `state_lock`, `abort`, message queue, socket and pending report under `udp_lock` | receive, reserve, queue, run, report, flush | two threads and two locks; send after unlock; link loss; stop against start | one order at a time; each answered exactly once; a stop is never lost; the slot is always freed |
| cleaner (`hcics_cleaner.c`) | `busy`, `stop_requested`, state, relay, servo bookkeeping, semaphore | start, reset, emergency stop, guard update; worker phases | the lock covers single assignments; hardware writes of several threads cross; waits that time out | one run per start; hardware safe at rest; a stop ends the run |
| guard (`hcics_guard.c`) | sensor registers, error counter, last sample | start-up with two calibrations; start, wait, read, clear, publish; force stop | every transfer may fail with or without effect; waits time out; stale samples | no measurement counts twice; a blind guard stops the cleaner; sampling recovers by itself; no sleep with pump or brush active that the latest sample does not allow |
| track (`hcics_track.c`) | path, index, timed action, location, last frame | start, stop, tick, camera update | wrapping clock, stale and repeated frames, stop against start | no blind driving but for a clock round, turns of full length, way home retraces the way out, every path ends |
| motion (`hcics_motion.c`) | targets, commands, emergency-stop latch, stall timers | set, direct, update, stop, clear, reset | no lock at all, failing PWM and encoders, wrapping clock | a latched stop and a parked vehicle stay still; faults reach the mission; stalls are stopped |
| protocol (`hcics_protocol.c`) | parser state, index and buffer; cursor in a command | feed a byte, parse FAULT and STOP | lost and garbled bytes, a full ring, no checksum; numbers beyond a byte | the parser finds back into step; commands mean what is written; both grid numberings agree |
| camera threads (`hcics_app.c`) | ring buffer of the UART, parser, role of the link | receive interrupt, read, publish | ring overflow; interrupts off while the axis sends | a frame that is published is one that was sent, as far as the format can tell |
| axis (`hcics_axis.c`) | initialised or not; the motor moves or stands | speed, centre, sweep step, stop | sends with interrupts disabled | at rest whenever the vehicle moves |
| encoders (`hcics_encoder.c`) | count, last state of the pins | interrupt routine, enable, clear | late interrupts, torn readings | no change of the pins is forgotten; the count is exact unless an interrupt was late |
| start-up (`hcics_app_init`, `main.c`) | which components and threads exist | register, open, initialise, create, start | each step may fail; the worker runs before start-up ends | no component is initialised on demand by a running thread; a failed start leaves no application thread |

Interaction: the UDP thread hands orders to the mission thread through the queue
and stops through `hcics_app_stop`, which raises `abort` and then stops track,
cleaner and motors one after the other.  The mission thread starts paths and
cleaning and polls them.  The control thread ticks the track module, which sets
motor targets by callback and latches `abort` when a target is refused.  The guard
thread forces the cleaner to stop.

The hazards are listed, each at its line, in `PROJECT.json`.

## 2. Plan

1. `HcicsApp`, the abstract `MissionService`, and the proofs `HcicsAppProofs` - done.
2. `HcicsCleaner` with the guard's sampling loop - done.
3. `HcicsTrack` with the mission's follow loop - done.
4. `HcicsMotion` (threads and latch) and `HcicsStuck` (timers) - done.
5. `HcicsCamera`, `HcicsCommand` with `HcicsCommandProofs`, `HcicsGuard`,
   `HcicsEncoder` with `HcicsEncoderProofs`, and `HcicsStartup`, which composes
   start-up with the guard, with `HcicsStartupProofs` - done.
6. `HcicsCleanerProofs`, `HcicsTrackProofs`, `HcicsMotionProofs` and
   `HcicsCameraProofs`, and the rest of `HcicsEncoderProofs`, `HcicsStartupProofs` and
   `HcicsCommandProofs` - done.  Every safety property of a passing run is proved.
7. Not planned: one module of a whole mission.  The state of application, track,
   motion and cleaner together is out of TLC's reach; instead the calls between
   them appear in both modules of each pair (the mission thread drives in `HcicsApp`,
   `HcicsTrack`, `HcicsMotion` and `HcicsCleaner`, the guard forces the stop in
   `HcicsGuard` and `HcicsCleaner`).

## 3. The modules

In every module a variable with a name of the code is that variable; `upc`, `mpc`,
`wpc`, `cpc` and `hpc` say where a thread is.  A step is one access to shared state
together with the local work around it, so the interleavings of the model are those
of the program; a section under a lock that does not wait is one step.
`PROJECT.json` maps every definition to the lines it stands for.  Operators marked
"Mutant" in their comment are wrong versions of the definition that follows.  They
are not used by the specifications; replacing the definition by its mutant shows
that a property can fail.

### HcicsApp and MissionService

`UWifi` to `UClose` are the UDP thread, `MRecv` to `MRelease` the mission thread.
`state_lock` is a variable because `hcics_reserve_mission` takes `udp_lock` inside
it; `udp_lock` sections are single steps.  `hcics_report_esp_final` reads the
descriptor under the lock and sends after it: `MReport`, then `MReportSendOk` or
`MReportSendFail`, with the UDP thread free to close the socket in between.  Track,
cleaner and motion calls appear by their outcome.  Orders carry a number
(`order`), which the code does not have, so that reports can be counted; the
comparison `SameReport` does not look at it.

`MissionService` says what the gateway may rely on: an order is accepted only when
nothing is owed for the previous one, and its report is sent exactly once, at once
or later.  `HcicsApp` implements it by the refinement mapping `phaseBar`: the
service is "owing" from the moment the report is stored until the flush has sent
it, even though the slot is cleared only a step later.

The constant `Preemptive` chooses between free interleaving and the priorities of
`hcics_app_init`.  Properties that hold under free interleaving do not depend on
the priorities; `StopHonoured` does, because `hcics_run_mission` clears `abort`.

### HcicsCleaner

The worker with all its phases, the calls `start`, `reset` and `emergency_stop` of
the mission and UDP threads, and the guard thread.  A pose is the extension of the
Z servo; `z_pulse` is the bookkeeping, `z_hw` what the hardware was told.
`hcics_cleaner_start` sets `busy` under the lock (`MStart`) and releases the semaphore
after it (`MRelease`), or takes the start back when the release fails (`MReleaseFails`,
`MReleaseFailed`); RT-Thread refuses a release only at the semaphore's limit.
`apply_pose` is two steps (bookkeeping, hardware), and so are the stopping
handlers, so that they cross as they do in the program.  Hardware calls may fail.
Camera frames are arbitrary inputs.  Timeouts may end a polling loop after any
turn, which covers every relation between the timeouts.

The worker's look at the guard and the sleep that follows are two steps, in the delays
(`WSprayDelay` and `WScrubDelay`, then `WDelaySleep`) as in the extend loop.  A sample may
grow older than 300 ms at any time, also between the two (`GuardAges`); with the
priorities no new sample is published there.  The history variable `seen` keeps the
sample of the look until the sleep.

The arm axis is moving or still.  The aim is locked within 130 pixels, the axis is
stopped only within 18, so the brush may begin to extend while the axis still
moves.  When a reset times out, the mission goes on although the worker is busy;
`DrivesHomeRetracted` is about the drive home, which follows only a run that the
mission has seen end.

### HcicsTrack

The planner (`BuildToTarget`, `BuildReturnHome`), the machine ticked by the control
thread, camera frames (narrow, line, node) with their time stamps, the follow loop
of the mission thread and the stop command.  The clock counts modulo `ClockMod`, as
the code's counts modulo 2^32; time passes only when every thread has done what it
does in a unit of time.  The camera may be silent for any number of rounds of the clock:
the history variable `frame_age` counts one round exactly and after it the rest of the last
one (`Older`).  Steering arithmetic is left out: a motor command is the
manoeuvre it belongs to.

### HcicsMotion and HcicsStuck

`HcicsMotion` is about threads: the control thread runs its turn without
interruption (it has the highest priority of the threads that use the motors) and
comes in between any two shared accesses of the mission and UDP threads.  Wheels
have small integer speeds with the code's clamp, minimum, ramp and boost.
`FailLimit` stands for 20.  When a stall is boosted or given up is left open there;
`HcicsStuck` is the timer machine of `hcics_motion_apply_stuck_boost` alone, with
a wrapping clock, the timer value 0 that means "not set", the comparison that does
not respect the wrap, and turns that come late by up to `MaxGap`.  Its specification is
`StallSpec`.  `HcicsLatch` declares the emergency-stop flag that both modules have, so that
one module can prove about both.

### HcicsGuard and HcicsStartup

`HcicsGuard` has the start-up of the distance sensor, its two calibrations and the
sampling loop.  A step is a group of I2C transfers whose failure has the same
consequence; a failed transfer may or may not have reached the sensor.  The sensor is
modelled from its use: start bit, measurement, result register, interrupt status.
`m` marks a measurement as belonging to this sample or to an earlier one; the
program has no such mark.

`HcicsStartup` extends it: main goes through `hcics_app_init` step by step, hands over
to the guard's start-up and first sample, then creates and starts the threads.  Every
step may fail, and the thread table and the open devices show what is left behind.
The other modules begin after a successful start-up; `NoLazyInit` is why they may
leave out the initialisation on demand of the motion and cleaner calls.

### HcicsCamera

The camera sends frames from any point of its stream; a byte may be lost or garbled
on the line, or pushed out of the full ring.  The parser is that of the code.  The
values of a byte are the four the parser tells apart.  Bytes carry their place on the
wire as history, so that the properties can say what a published frame is made of;
`lost` counts the bytes missing since the head of the frame, and `calm` the undisturbed
frames.

### HcicsCommand

The parsers of the FAULT and STOP commands, one character a step, with the byte limit
of the numbers, leading zeros and trailing blanks.  `Readings` says without a cursor
what a text means: `Marks` are the ways to place its four commas and the end of its last
number, `FaultAt` the fault it then says.  `RowOfId`, `ColOfId` and `GridToId` are the numberings of the
protocol and of the track module.

### HcicsEncoder

The wheel turns between any two steps.  An interrupt is latched once per pin and served
at any later time; the routine reads the pins one after the other.  `travel` and
`late` are history: the real way of the wheel, and whether two steps fell into one
interrupt or one reading.  `MaxCount` bounds count and travel, both of which
enter only by their difference and their parity.

## 4. Runs

| run | instance | shows |
|---|---|---|
| `app_free` | 2 faults, 2 peers, 3 orders, queue of 12, free interleaving, symmetry | `TypeOK`, `ExactlyOnce`, `PublishedIsOpen`, refinement of `MissionService` (`ImplementsService`) |
| `app_prio` | 1 fault, 1 peer, 2 orders, priorities, fairness | `StopHonoured`, `SlotFreed`, `EveryOrderAnswered` |
| `cleaner_free` | 3 extend steps, 2 cycles, 2 read errors, free interleaving | `BusyMatchesWorker`, `RestIsSafe`, `PumpOffWhileStopped`, `DrivesHomeRetracted` |
| `cleaner_prio` | 2 extend steps, 1 cycle, 1 read error, priorities, fairness | `GuardedSleep`, `StopEndsRun`, `BlindEndsRun` |
| `track` | 2 x 3 grid, the nearest and the farthest panel, clock of 12 units, navigation timeout of 8, fairness | `PathEndsCleanly`, `FollowHasPath`, `WayHomeRetraces`, `FrameHitsBounded`, `TurnsNotCut`, `NeverBlind`, `FollowEnds` |
| `motion` | two wheels, bend and turn on the spot, 2 read errors, fairness | `LatchedIsStill`, `StillAtRest`, `FaultNoticed` |
| `stuck` | trigger 4, hold 9, failure 36, clock of 96, turns up to 3 units apart | `StallStopped`, `StallNotHasty`, `BoostEnds` |
| `camera` | frames of 4 bytes, ring of 3 | `TypeOK`, `NoSplice`, `Resynchronises` |
| `startup` | start-up and guard, 3 read errors, fairness | `NoLazyInit`, `FailedIsQuiet`, `NeverTwice`, `BlindForcesStop`, `FreshUntilTrouble`, `SamplesFlow` |
| `guard_fresh` | guard alone | `PublishedIsFresh` is violated, see below |
| `encoder` | wheel not reversed, counts up to 3 either way | `NoEdgeForgotten`, `ExactUnlessLate` |
| `command` | 103 698 heads and texts that follow the format or nearly do | `TypeOK`, `AcceptsWhatIsWritten` |

The type invariants of the cleaner, track, motion and stuck modules and those of the
guard and of start-up are conjuncts of `BusyMatchesWorker`, `FollowHasPath`,
`LatchedIsStill`, `BoostEnds` and `NoLazyInit`; that of the encoder is proved
(section 6).  `startup`, `encoder` and `command` do not check for deadlock: a start-up
that failed, an encoder at the bound of its count and a packet that has been parsed
stop.

Why the bounds are enough.  *Application*: the server remembers at most one pending
report, so three orders cover an order that meets the report of an earlier one and
is itself followed by another; two faults and two peers make reports that are
equal and that differ.  After `MaxMissions` orders the queue counts as full, so the
release of a reservation is exercised; with its real depth of 12 and one mission at
a time it never fills.  *Cleaner*: three extend steps give a pose between the ends,
and retract moves two at a time; two cycles give a first and a last attempt; two
read errors an error below the limit and one at it.  *Track*: the way to
the farthest panel differs in rows and columns, the nearest is near enough for a
mission to come home in time; the clock wraps within one path and every duration is
at most half of it, as in the code.  *Motion*: speeds up to three ramp steps reach
the stall and boost limits, and two wheels may run in opposite directions.
*Stuck*: the durations have the ratios of 220, 450 and 1800 ms, all positions
relative to the wrap are initial states, and turns 3 apart are the first for which each
late turn in `StallBound` counts.  *Camera*: a frame of 4 bytes has a head, a mode,
one payload byte that may look like a head or a tail, and a tail; a ring that holds 2
overflows at every place of a frame.  *Startup*: three read errors are one, several and
the limit.  *Encoder*: three steps are more than the two that an interrupt can miss.
*Command*: numbers at and beyond 255 and equal to a panel modulo 256, zeros before
numbers, missing fields, wrong separators, blanks and characters behind the end.

What the runs say about the code beyond the plain reading:

- One camera frame may be accepted as a node again after the cooldown, as long as it
  is fresh; `FrameHitsBounded` gives the bound.  Nothing marks a frame as used.
- The age of a frame is a difference modulo 2^32 ms.  When the camera has been silent for a
  whole round of the clock (49.7 days), its last frame counts as fresh again for the stale
  time: a path may start by it and the vehicle follow its line for so long.  `NeverBlind`
  names exactly this exception.  A path is too short to live through it.
- A guard sample may grow too old after the worker's look at it and before the sleep, so the
  pump may run, or the brush rest on its way out, for one more slice of at most 40 ms; the
  look of the next turn ends it (`GuardedSleep`).
- The scrub switches the pump on before it looks at the stop request; it is off again
  before the worker sleeps (`PumpOffWhileStopped`).
- With a failed PWM output, targets stay set; only a control tick before the next
  mission clears them.  `StillAtRest` names this exception.
- A boost whose end lies within one turn of the clock's wrap may miss it and stay on
  in the next round of the clock, until a reset.  `BoostEnds` describes exactly this
  exception.  Only then does `HCICS_MOTION_STUCK_FAIL_MS` matter: otherwise the
  boosts run out first.
- The guard does not clear the interrupt status before it starts a measurement.  After
  a start that failed or a wait that timed out, the status and the result of the earlier
  measurement are taken for the new ones, although the comment in `hcics_guard.c` promises
  fresh data (`guard_fresh`, the one violated run).  No measurement is published twice
  even so, and without such a failure every distance is fresh (`NeverTwice`,
  `FreshUntilTrouble`).
- `hcics_cleaner_start` clears a stop request, also one the guard has just made.  The guard
  makes it again with every failed read, so the run ends all the same (`BlindEndsRun`).
- Camera frames have no checksum.  Losing fewer bytes than a frame has never mixes two
  frames into one, unless a payload byte passes for a head or a tail (`NoSplice`).  The
  parser drops what it has and does not look for a head inside it; one frame without a
  head in its payload brings it back into step (`Resynchronises`).
- An encoder interrupt that is too late loses two steps, never one, and the next
  change is decoded rightly again (`ExactUnlessLate`, `NoEdgeForgotten`).

## 5. Fairness

*Application*: both threads get the processor again and again (the mission thread
sleeps in every polling loop, so the UDP thread runs), and a polling phase does not
last for ever because each has a timeout.  For `EveryOrderAnswered`, of the network:
a socket can be opened, a send goes through and the receive loop sees something
other than packets with a NUL, again and again.  *Cleaner*: the worker is scheduled
again and again, its sleeps end, and a call that has begun goes on, although
threads of higher priority may preempt it; no timeout is assumed.  `BlindEndsRun` has a
premise of its own: the guard thread, the lowest of all, forces the stop again and again
as long as it can.  *Track*: the mission thread runs and time passes; time waits for the
control thread, which therefore runs too.  *Motion*: the control loop turns for
ever, and timed actions of a path end.  *Startup*: main, the guard thread and the sensor
go on; `SamplesFlow` supposes in its own statement that failures stop at some time and
that the sensor measures distances.

## 6. Proofs

`HcicsAppProofs` proves, for all sets of faults and peers, every queue depth and
every number of orders:

- `TypeCorrect`: `Spec => []TypeOK`;
- `AnsweredExactlyOnce`: `Spec => []ExactlyOnce`;
- `StopNeverOvertaken`: under `Preemptive`, `Spec => []StopHonoured`;
- `Refinement`: `Spec => ImplementsService`;
- `NeverPublishedClosed`: `Spec => []PublishedIsOpen`, with the addition that a descriptor
  is withdrawn before it is closed.

`ExactlyOnce` is not inductive.  It holds because at any time at most one thread has
the reservation, so the invariant proved with it says who: from the moment the UDP
thread holds `state_lock` with `busy` clear and no report pending, the mission thread
is idle and the queue empty; from then on `busy` is set and exactly one of UDP
thread, queue and mission thread owns the order; a report is pending only if it
belongs to the last accepted order and no newer order exists; and a report in the
hands of the flush is the one in the slot.  `InitInv`, `UdpStep`, `MissionStep` and
`EnvStep` show that this is inductive, one step per action; `StopStep` and
`ServiceStep` use it for the stop property and the refinement.  The assumptions are
`AppAssumption` and, for the stop, `Preemptive`.

`HcicsEncoderProofs` proves, for both directions and every bound on the counts
(`EncoderAssumption`):

- `TypeCorrect`: `Spec => []TypeOK`;
- `NothingForgotten`: `Spec => []NoEdgeForgotten`;
- `ExactHolds`: `Spec => []ExactUnlessLate`.

`NoEdgeForgotten` speaks only of settled states.  The invariant `Known` says what holds
on the way: while a pin differs from what the encoder remembers, or from what a
reading in progress will remember, an interrupt for that pin is latched, or the
reading has not come to it yet.  For the count the invariant is `Counting`: the count and
the steps from the remembered state to the pins make up the way of the wheel, up to pairs
of steps, and exactly as long as nothing came too late, because then neither the pins nor
a reading in progress is opposite to the remembered state.  `DecodeIs` and `WaysAdd` say
what the decode table gives and that ways add up.

`HcicsCommandProofs` proves, for every token and every set of texts
(`TokenAssumption`):

- `TypeCorrect`: `Spec => []TypeOK`, so the cursor stays within the text and every number
  within its byte;
- `GridNumbering`: the numbering of the panels and its inverse agree;
- `AcceptedFaultNamesPanel`: every fault the parser accepts names one panel, by number
  and by place, and the track module drives to it;
- `AcceptsExactlyWhatIsWritten`: `Spec => []AcceptsWhatIsWritten`, so the parsers accept the
  format and nothing else, whatever the length of the text and of its numbers.

For the last, `Found` says what the parser has learnt of the text at each of its places:
where the commas and the ends of the numbers it has passed are (`Reached`), and that the
number in progress is the decimal value of its digits so far.  A refusal is right because a
text can be read in one way only (`SameMarks`): any other reading would have the marks
already found, and at the refusing character it is contradicted (the lemmas `Wrong...`).
For a number beyond 255 this needs that further digits never make it smaller
(`RunGrows`).  What the recursive `Decimal` computes is proved by induction: the library's
induction principle takes an operator, which the provers cannot instantiate, but its
theorem on least elements of well-founded relations does not, and gives induction for sets
(`LeastNumber`, `SetInduction`).

`HcicsStartupProofs` proves, for every `MaxReadErrors` above 0 (`GuardAssumption`):

- `PublishedOnce`: `BootSpec => []NeverTwice`;
- `BlindIsStopped`: `BootSpec => []BlindForcesStop`;
- `FreshWithoutTrouble`: `BootSpec => []FreshUntilTrouble`;
- `NoLazyInitHolds`: `BootSpec => []NoLazyInit`;
- `FailedIsQuietHolds`: `BootSpec => []FailedIsQuiet`.

For the first three, `GuardInside` shows that a step of the composition is a step of the
guard or leaves it alone, so the argument is about the guard only.  `NoReuse`: a set
interrupt status means that the result has not been published, because publishing clears
the status and only a new measurement sets it.  `Counted`: the error counter and the true
number of samples without a distance are equal.  `InStep`: while nothing has failed, the
place in the code determines whether a measurement is asked for, in progress or done, and
none is left over when the next one starts.  For the last two, `Brought` says which
components are up at each place of main, `RunsOn` that the worker and the guard have what
they call and that the cleaner's flag is taken back only before they run, and `AppPlaces`
how far the threads have been created, deleted or started; the guard's thread cannot send
main to its failure because it never comes back to a place of the initialisation.

`HcicsCleanerProofs` proves, for every number of extend steps, cycles and read errors
(`CleanerAssumption`) and, but for the last, whether the threads interleave freely or by
priority:

- `BusyHolds`, `RestHolds`, `PumpOffHolds`, `DrivesHomeHolds`: `Spec => []` of
  `BusyMatchesWorker`, `RestIsSafe`, `PumpOffWhileStopped` and `DrivesHomeRetracted`;
- `GuardedSleepHolds`: under `Preemptive`, `Spec => GuardedSleep`.

The safe state at rest is reached over several steps of the worker, which handlers of other
threads may cross.  `Closing` says what has been done at each place of the last
`safe_outputs`, `RelayPlaces` between which places the relay can be on, `Ownership` who
may set and clear `busy`, and `DoneIsOver` that the mission cannot see the outcome of a
run that is not over.  `PumpOffInDelay` extends `PumpOffWhileStopped` to the places between
a look at the stop request and the sleep after it.  `LookHolds` holds with the priorities
only: between a look at the guard and the sleep after it the sample the worker saw stays the
latest, and at most grows too old.

`HcicsMotionProofs` proves, for every set of wheels and requests and all limits with
`MinCmd` and `BoostCmd` up to `SpeedMax` (`SpeedAssumption`):

- `LatchedHolds`: `Spec => []LatchedIsStill`;
- `RestHolds`: `Spec => []StillAtRest`.

`LatchRead` carries the argument that a turn of the control loop is not interrupted between
its look at the latch and its output.  `LatchedIsZero` and `LimitIsZero` say where a latched
stop has zeroed the speeds, `PathOwner` who may ask for others, and `Resting` what the
mission's places promise; without them a tick between clear and reset could obey an old
target.  The lemmas on `Normalize`, `RampToward` and the boost bound every speed.

The same module proves, for every choice of the durations, of the clock and of the delay of a
turn that satisfies `StuckAssumption`:

- `StallStoppedHolds`: `StallSpec => []StallStopped`;
- `BoostEndsHolds`: `StallSpec => []BoostEnds`;
- `StallNotHastyHolds`: `StallSpec => StallNotHasty`.

`StuckAssumption` asks for two boosts, a turn no later than a hold, and a bound below one
round of the clock: in the code 220, 450 and 1800 ms against 2^32 ms, so turns may be late
by up to 450 ms.  The invariant `StuckInv` follows a stall through its
boosts: `Timers` and `BoostKnown` tie the two timers to the true ages, `Stale` is the rest
of an earlier boost, and `Progress` bounds the age of the stall at each place, with a short
lead when that boost ended in its time and a long one when it missed its end at the wrap.
The argument is that the clock wraps at most once in a stall: a long lead uses the wrap up, so
that no later boost of the same stall can miss its end, and `Round` counts the one turn
that may be lost when the timer would start at time 0.  `AtLeast` is the lower bound for
`StallNotHasty`.  An earlier form of `StallBound` allowed for six late turns; it holds for
turns up to 2 units apart and fails from 3 on.  The proof gave the nine: five ends that come
late, three starts of the timer, and the turn lost at time 0.

`HcicsTrackProofs` proves, for every grid whose paths fit the array and every clock in
which the durations fit as the code's do in 2^32 (`GridAssumption`, `TimeAssumption`):

- `PathEndsHolds`, `FollowHasPathHolds`, `WayHomeHolds`, `FrameHitsHolds`: `Spec => []` of
  `PathEndsCleanly`, `FollowHasPath`, `WayHomeRetraces` and `FrameHitsBounded`;
- `PathFits`: the error returns of the planner and of `hcics_track_accept_node` are dead;
- `TurnsNotCutHolds` and `NeverBlindHolds`: `Spec => TurnsNotCut`, `Spec => NeverBlind`.

The planner lemmas give every path as an explicit sequence and show that the way home is
the way out reversed.  `OnPath` says that only the last step of a path finishes it, `Legs`
where the vehicle is on either leg.  The clock lemmas turn differences modulo `ClockMod`
into ages: `FrameAge`, `HitsSpaced` and `EndAhead` relate what the code computes from its
wrapping clock to the true ages, which the model keeps as history.  `InTime` is why a frame
that has given a node does not give more of them a round of the clock later: the follow loop
ends after `NavTimeout`, and `Stale + NavTimeout` is less than a round.

`HcicsCameraProofs` proves, for every frame length from 4 and ring size from 2
(`CameraAssumption`):

- `TypeCorrect`: `Spec => []TypeOK`;
- `NoSpliceHolds`: `Spec => []NoSplice`;
- `ResynchronisesHolds`: `Spec => Resynchronises`.

`Accounted` is the invariant behind `NoSplice`: the last byte in the buffer is as far behind
the first on the wire as bytes were read and lost, so from a head to a tail with fewer
bytes lost than a frame has, none can be missing.  `InStep` is the one behind
`Resynchronises`: while a frame is read from its head, an older frame in the buffer is
always further on, so it ends first.

Only model-checked: all liveness (`SlotFreed`, `EveryOrderAnswered`, `StopEndsRun`,
`BlindEndsRun`, `FollowEnds`, `FaultNoticed`, `SamplesFlow`), because the prover does not
handle fairness.

## 7. Not modelled

- The register values of the distance sensor, its SPAD map and the conversion of its
  results; the bit timing and the frame bytes of the software UART of the axis.  Their
  transfers succeed or fail.
- Floating-point steering and aiming geometry; the times of the cleaner's phases.
- Operations that nothing in the repository calls: the external-speed setters and the
  output callback of the motion module, `hcics_axis_move_pulses`, disabling an encoder.
- Snapshots, status dumps and the layout of report strings: they change no state.
- A whole mission in one module (section 2).
- RT-Thread, the HAL and the network stack, beyond how the code uses them.
