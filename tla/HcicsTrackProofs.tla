-------------------------- MODULE HcicsTrackProofs --------------------------
(***************************************************************************)
(* Proofs about HcicsTrack for every grid, every set of ordered panels,     *)
(* every modulus of the clock and every set of times that fits into it.     *)
(***************************************************************************)
EXTENDS HcicsTrack, SequenceTheorems, TLAPS

Diff(a, b) == (a - b) % ClockMod

FollowPlaces == {"follow", "follow_camera", "follow_time", "asleep"}

\* Who may be doing what: a path runs only while the mission follows it or is about to
\* stop it, it is running or finished and never both, and the stop handler has raised
\* abort before it stops the path.
Places ==
  /\ running => mpc \in FollowPlaces \cup {"stop"}
  /\ finished => ~running
  /\ action_active => running
  /\ upc = "track_stop" => abort
  /\ mpc \in FollowPlaces /\ ~abort => running \/ finished
  /\ ~running => motor = "stop"

Final == {"STOP_AT_TARGET", "FINISH_DELAY"}

\* A path fits into its array and has one step that finishes it, the last.  The next node
\* therefore always has a step to take, and the timed action under way is the step at the
\* index.
OnPath ==
  /\ Len(path) <= MaxPathSteps
  /\ \A i \in 1 .. Len(path) : path[i] \in Final <=> i = Len(path)
  /\ running /\ ~action_active => path_index < Len(path)
  /\ action_active => /\ path_index > 0
                      /\ active_action = path[path_index]
                      /\ active_action \notin {"FORWARD", "STOP_AT_TARGET"}
  /\ finished => path_index = Len(path) /\ current_location = destination

\* Where the vehicle is on the two legs of a mission: it is at the mission's panel from
\* the arrival there until the end of the way home, which was planned from that panel.
Legs ==
  /\ leg = "return" => target \in Targets
  /\ mpc \in {"wait", "start"} \cup FollowPlaces \cup {"panel"} => target \in Targets
  /\ leg = "nav" /\ mpc \in FollowPlaces /\ (running \/ finished) => destination = target
  /\ mpc = "panel" => current_location = target
  /\ leg = "return" /\ mpc \in {"wait", "start"} => current_location = target
  /\ leg = "return" /\ running => path = BuildReturnHome(target)

\* The age that the code computes from the tick of a frame is its true age, or what the
\* last round of the clock has added to it.
FrameAge ==
  camera.kind # "narrow" =>
    Diff(now, camera.tick) = IF frame_age < ClockMod THEN frame_age ELSE frame_age - ClockMod

\* The loop that follows a path ends in time, and a frame that has given a node on this path
\* was fresh after the path began: it does not grow a round of the clock old on the path.
InTime ==
  running /\ mpc \in FollowPlaces =>
    /\ Diff(now, start_ms) <= NavTimeout
    /\ mpc = "asleep" => Diff(now, start_ms) < NavTimeout
    /\ hits > 0 => Diff(now, camera.tick) <= Stale + Diff(now, start_ms)

\* Two nodes taken from one frame are a cooldown apart, so as many cooldowns as nodes but
\* one fit into the age of the frame.
HitsSpaced ==
  hits > 0 =>
    /\ running /\ camera.kind = "node"
    /\ (hits - 1) * Cooldown + (IF action_active THEN 0 ELSE Diff(now, last_node_ms))
         <= Diff(now, camera.tick)

Duration == IF active_action = "FINISH_DELAY" THEN FinishTime ELSE TurnTime

\* Until a timed action has lasted its time, its end lies ahead by what is missing.
EndAhead ==
  action_active /\ action_age < Duration
    => Diff(action_end_ms, now) = Duration - action_age

\* The ages at which a frame counts as fresh.
FreshAge == frame_age \in 0 .. Stale \cup ClockMod .. ClockMod + Stale

\* A tick that left the vehicle on the line has seen a fresh frame, and a vehicle in a
\* timed action does not follow the line.
LineSeen ==
  /\ action_active => motor # "line"
  /\ ticked /\ motor = "line" => camera.kind # "narrow" /\ FreshAge

IInv ==
  /\ DataOK /\ Places /\ OnPath /\ Legs /\ FrameAge /\ InTime /\ HitsSpaced /\ EndAhead
  /\ LineSeen /\ FrameHitsBounded
-----------------------------------------------------------------------------
(* The clock.                                                              *)

\* The modulus is large enough for the sums of times that occur.
LEMMA ClockPositive == ClockMod \in Nat /\ ClockMod > 2
BY TimeAssumption

\* What the difference of two clock values is, with and without a wrap between them.
LEMMA DiffIs ==
  ASSUME NEW a \in Times, NEW b \in Times
  PROVE  Diff(a, b) = IF a >= b THEN a - b ELSE a - b + ClockMod
BY ClockPositive DEF Diff, Times

\* The next clock value.
LEMMA NextIs ==
  ASSUME NEW a \in Times
  PROVE  (a + 1) % ClockMod = IF a = ClockMod - 1 THEN 0 ELSE a + 1
BY ClockPositive DEF Times

\* A difference is a clock value, and zero for equal ones.
LEMMA DiffRange ==
  ASSUME NEW a \in Times, NEW b \in Times
  PROVE  Diff(a, b) \in Times /\ Diff(a, a) = 0
<1>1. Diff(a, b) \in Times
  BY DiffIs, ClockPositive DEF Times
<1>2. Diff(a, a) = a - a
  BY DiffIs DEF Times
<1> QED
  BY <1>1, <1>2 DEF Times

\* A unit of time adds one to the age of everything, until it wraps.
LEMMA DiffNext ==
  ASSUME NEW a \in Times, NEW b \in Times
  PROVE  /\ (a + 1) % ClockMod \in Times
         /\ Diff((a + 1) % ClockMod, b) = IF Diff(a, b) = ClockMod - 1 THEN 0 ELSE Diff(a, b) + 1
         /\ Diff(b, (a + 1) % ClockMod) = IF Diff(b, a) = 0 THEN ClockMod - 1 ELSE Diff(b, a) - 1
<1> DEFINE n == (a + 1) % ClockMod
<1>1. n = IF a = ClockMod - 1 THEN 0 ELSE a + 1
  BY NextIs
<1> HIDE DEF n
<1>2. n \in Times
  BY <1>1, ClockPositive DEF Times
<1>3. Diff(n, b) = IF n >= b THEN n - b ELSE n - b + ClockMod
  BY <1>2, DiffIs
<1>4. Diff(b, n) = IF b >= n THEN b - n ELSE b - n + ClockMod
  BY <1>2, DiffIs
<1>5. Diff(a, b) = IF a >= b THEN a - b ELSE a - b + ClockMod
  BY DiffIs
<1>6. Diff(b, a) = IF b >= a THEN b - a ELSE b - a + ClockMod
  BY DiffIs
<1>7. /\ Diff(n, b) = IF Diff(a, b) = ClockMod - 1 THEN 0 ELSE Diff(a, b) + 1
      /\ Diff(b, n) = IF Diff(b, a) = 0 THEN ClockMod - 1 ELSE Diff(b, a) - 1
  BY <1>1, <1>3, <1>4, <1>5, <1>6, ClockPositive DEF Times
<1> QED
  BY <1>2, <1>7 DEF n

\* The end of an action that begins now.
LEMMA DiffAhead ==
  ASSUME NEW a \in Times, NEW d \in Nat, d < ClockMod
  PROVE  /\ (a + d) % ClockMod \in Times
         /\ Diff((a + d) % ClockMod, a) = d
<1>1. (a + d) % ClockMod = IF a + d < ClockMod THEN a + d ELSE a + d - ClockMod
  BY ClockPositive DEF Times
<1>2. (a + d) % ClockMod \in Times
  BY <1>1, ClockPositive DEF Times
<1> QED
  BY <1>1, <1>2, DiffIs, ClockPositive DEF Times

\* The two directions of a difference.
LEMMA DiffBack ==
  ASSUME NEW a \in Times, NEW b \in Times, Diff(a, b) # 0
  PROVE  Diff(b, a) = ClockMod - Diff(a, b)
BY DiffIs, ClockPositive DEF Times

\* The start of a path lets the cooldown be over.
LEMMA DiffBefore ==
  ASSUME NEW a \in Times, NEW d \in Nat
  PROVE  (a - d) % ClockMod \in Times
BY ClockPositive DEF Times

-----------------------------------------------------------------------------
(* The planner.                                                            *)

\* Rows and columns are counted from 1.
LEMMA GridRange ==
  ASSUME NEW id \in Panels
  PROVE  RowOf(id) \in 1 .. Rows /\ ColOf(id) \in 1 .. Cols
<1>1. Rows \in Nat \ {0} /\ Cols \in Nat \ {0} /\ Rows * Cols \in Nat
  BY GridAssumption
<1>2. id - 1 \in Nat /\ id - 1 < Rows * Cols
  BY <1>1 DEF Panels
<1>3. ColOf(id) \in 1 .. Cols
  BY <1>1, <1>2 DEF ColOf
<1> DEFINE q == (id - 1) \div Cols
<1>4. q \in Nat /\ q * Cols <= id - 1
  BY <1>1, <1>2
<1> HIDE DEF q
<1>5. q < Rows
  <2>1. ASSUME q >= Rows PROVE q * Cols >= Rows * Cols
    BY <1>1, <1>4, <2>1
  <2> QED
    BY <1>1, <1>2, <1>4, <2>1
<1>6. RowOf(id) = q + 1
  BY DEF RowOf, q
<1> QED
  BY <1>1, <1>3, <1>4, <1>5, <1>6

\* A concatenation as a function.
LEMMA ConcatIs ==
  ASSUME NEW s \in Seq(Actions), NEW t \in Seq(Actions)
  PROVE  /\ s \o t \in Seq(Actions)
         /\ s \o t = [i \in 1 .. Len(s) + Len(t) |->
                      IF i <= Len(s) THEN s[i] ELSE t[i - Len(s)]]
<1> DEFINE u == s \o t
<1>1. /\ u \in Seq(Actions)
      /\ Len(u) = Len(s) + Len(t)
      /\ \A i \in 1 .. Len(s) + Len(t) : u[i] = IF i <= Len(s) THEN s[i] ELSE t[i - Len(s)]
  BY ConcatProperties, Zenon
<1> HIDE DEF u
<1>2. u = [i \in 1 .. Len(s) + Len(t) |-> IF i <= Len(s) THEN s[i] ELSE t[i - Len(s)]]
  BY <1>1
<1> QED
  BY <1>1, <1>2 DEF u

\* A single step, or several steps straight on, as a path.
LEMMA StepsIs ==
  /\ \A a \in Actions : <<a>> \in Seq(Actions) /\ Len(<<a>>) = 1 /\ <<a>>[1] = a
  /\ \A n \in Nat : /\ Forwards(n) \in Seq(Actions) /\ Len(Forwards(n)) = n
                   /\ \A i \in 1 .. n : Forwards(n)[i] = "FORWARD"
BY DEF Forwards, Actions

\* Straight on, a step, straight on, a step: the shape of every path but for the turn
\* round at its beginning.
Four(m, x, n, y) == Forwards(m) \o <<x>> \o Forwards(n) \o <<y>>

\* Its length and its steps.
LEMMA FourIs ==
  ASSUME NEW m \in Nat, NEW n \in Nat, NEW x \in Actions, NEW y \in Actions
  PROVE  /\ Four(m, x, n, y) \in Seq(Actions)
         /\ Len(Four(m, x, n, y)) = m + n + 2
         /\ Four(m, x, n, y)[m + 1] = x /\ Four(m, x, n, y)[m + n + 2] = y
         /\ \A i \in 1 .. m + n + 2 : i \notin {m + 1, m + n + 2} =>
              Four(m, x, n, y)[i] = "FORWARD"
<1> DEFINE s1 == Forwards(m) \o <<x>>
           s2 == s1 \o Forwards(n)
           s3 == s2 \o <<y>>
<1>1. s1 \in Seq(Actions) /\ s1 = [i \in 1 .. m + 1 |-> IF i = m + 1 THEN x ELSE "FORWARD"]
  <2>1. s1 \in Seq(Actions) /\ s1 = [i \in 1 .. m + 1 |-> IF i <= m THEN Forwards(m)[i]
                                                          ELSE <<x>>[i - m]]
    <3>1. /\ Forwards(m) \in Seq(Actions) /\ Len(Forwards(m)) = m
          /\ <<x>> \in Seq(Actions) /\ Len(<<x>>) = 1
      BY StepsIs
    <3> QED
      BY <3>1, ConcatIs
  <2> HIDE DEF s1
  <2> QED
    BY <2>1, StepsIs
<1> HIDE DEF s1
<1>2. s2 \in Seq(Actions) /\ s2 = [i \in 1 .. m + 1 + n |-> IF i = m + 1 THEN x ELSE "FORWARD"]
  <2>1. Len(s1) = m + 1
    BY <1>1
  <2>2. s2 \in Seq(Actions) /\ s2 = [i \in 1 .. m + 1 + n |-> IF i <= m + 1 THEN s1[i]
                                                          ELSE Forwards(n)[i - (m + 1)]]
    BY <1>1, <2>1, ConcatIs, StepsIs
  <2> HIDE DEF s2
  <2> QED
    BY <1>1, <2>2, StepsIs
<1> HIDE DEF s2
<1>3. s3 \in Seq(Actions) /\ s3 = [i \in 1 .. m + n + 2 |-> IF i = m + 1 THEN x
                                            ELSE IF i = m + n + 2 THEN y ELSE "FORWARD"]
  <2>1. Len(s2) = m + 1 + n
    BY <1>2
  <2>2. s3 \in Seq(Actions) /\ s3 = [i \in 1 .. m + 1 + n + 1 |-> IF i <= m + 1 + n THEN s2[i]
                                                          ELSE <<y>>[i - (m + 1 + n)]]
    BY <1>2, <2>1, ConcatIs, StepsIs
  <2> HIDE DEF s3
  <2> QED
    BY <1>2, <2>2, StepsIs
<1>4. s3 = Four(m, x, n, y)
  BY DEF s1, s2, Four
<1> HIDE DEF s3
<1>5. Len(s3) = m + n + 2 /\ s3[m + 1] = x /\ s3[m + n + 2] = y
  BY <1>3
<1>6. \A i \in 1 .. m + n + 2 : i \notin {m + 1, m + n + 2} => s3[i] = "FORWARD"
  BY <1>3
<1> QED
  BY <1>3, <1>4, <1>5, <1>6

\* The path to a panel, step by step.
LEMMA ToTargetIs ==
  ASSUME NEW id \in Panels
  PROVE  /\ BuildToTarget(id) \in Seq(Actions)
         /\ BuildToTarget(id) = [i \in 1 .. RowOf(id) + ColOf(id) + 1 |->
              IF i = RowOf(id) + 1 THEN "TURN_RIGHT"
              ELSE IF i = RowOf(id) + ColOf(id) + 1 THEN "STOP_AT_TARGET" ELSE "FORWARD"]
<1> DEFINE r == RowOf(id)
           c == ColOf(id)
<1>1. r \in Nat \ {0} /\ c \in Nat \ {0}
  BY GridRange, GridAssumption
<1>2. BuildToTarget(id) = Four(r, "TURN_RIGHT", c - 1, "STOP_AT_TARGET")
  BY DEF BuildToTarget, Four
<1>3. "TURN_RIGHT" \in Actions /\ "STOP_AT_TARGET" \in Actions
  BY DEF Actions
<1> HIDE DEF r, c
<1>4. PICK n \in Nat : n = c - 1
  BY <1>1
<1> DEFINE out == Four(r, "TURN_RIGHT", n, "STOP_AT_TARGET")
<1>5. out \in Seq(Actions) /\ Len(out) = r + n + 2
  BY <1>1, <1>3, FourIs
<1>6. out[r + 1] = "TURN_RIGHT" /\ out[r + n + 2] = "STOP_AT_TARGET"
  BY <1>1, <1>3, FourIs
<1>7. \A i \in 1 .. r + n + 2 : i \notin {r + 1, r + n + 2} => out[i] = "FORWARD"
  BY <1>1, <1>3, FourIs
<1>8. BuildToTarget(id) = out
  BY <1>2, <1>4
<1> HIDE DEF out
<1>9. out = [i \in 1 .. r + n + 2 |-> IF i = r + 1 THEN "TURN_RIGHT"
                  ELSE IF i = r + n + 2 THEN "STOP_AT_TARGET" ELSE "FORWARD"]
  BY <1>1, <1>5, <1>6, <1>7
<1>10. r + n + 2 = r + c + 1
  BY <1>1, <1>4
<1> QED
  BY <1>5, <1>8, <1>9, <1>10 DEF r, c

\* The path home from a panel, step by step.
LEMMA ReturnHomeIs ==
  ASSUME NEW id \in Panels
  PROVE  /\ BuildReturnHome(id) \in Seq(Actions)
         /\ BuildReturnHome(id) = [i \in 1 .. RowOf(id) + ColOf(id) + 2 |->
              IF i = 1 THEN "UTURN"
              ELSE IF i = ColOf(id) + 1 THEN "TURN_LEFT"
              ELSE IF i = RowOf(id) + ColOf(id) + 2 THEN "FINISH_DELAY" ELSE "FORWARD"]
<1> DEFINE r == RowOf(id)
           c == ColOf(id)
<1>1. r \in Nat \ {0} /\ c \in Nat \ {0}
  BY GridRange, GridAssumption
<1>2. "TURN_LEFT" \in Actions /\ "FINISH_DELAY" \in Actions /\ "UTURN" \in Actions
  BY DEF Actions
<1>3. BuildReturnHome(id) = <<"UTURN">> \o Forwards(c - 1) \o <<"TURN_LEFT">> \o Forwards(r)
                              \o <<"FINISH_DELAY">>
  BY DEF BuildReturnHome, Panels, Home
<1> HIDE DEF r, c
<1>n. PICK n \in Nat : n = c - 1
  BY <1>1
<1> DEFINE back == Four(n, "TURN_LEFT", r, "FINISH_DELAY")
<1>4. /\ back \in Seq(Actions)
      /\ Len(back) = r + c + 1
      /\ \A i \in 1 .. r + c + 1 : back[i] = IF i = c THEN "TURN_LEFT"
                                  ELSE IF i = r + c + 1 THEN "FINISH_DELAY" ELSE "FORWARD"
  <2>1. back \in Seq(Actions) /\ Len(back) = n + r + 2
    BY <1>1, <1>2, FourIs
  <2>2. back[n + 1] = "TURN_LEFT" /\ back[n + r + 2] = "FINISH_DELAY"
    BY <1>1, <1>2, FourIs
  <2>3. \A i \in 1 .. n + r + 2 : i \notin {n + 1, n + r + 2} => back[i] = "FORWARD"
    BY <1>1, <1>2, FourIs
  <2> HIDE DEF back
  <2> QED
    BY <1>1, <1>n, <2>1, <2>2, <2>3
<1>5. BuildReturnHome(id) = <<"UTURN">> \o back
  <2>1. /\ <<"UTURN">> \in Seq(Actions) /\ <<"TURN_LEFT">> \in Seq(Actions)
        /\ <<"FINISH_DELAY">> \in Seq(Actions)
        /\ Forwards(n) \in Seq(Actions) /\ Forwards(r) \in Seq(Actions)
    BY <1>1, <1>2, StepsIs
  <2>2. /\ Forwards(n) \o <<"TURN_LEFT">> \in Seq(Actions)
        /\ Forwards(n) \o <<"TURN_LEFT">> \o Forwards(r) \in Seq(Actions)
    BY <2>1, ConcatIs
  <2> QED
    BY <1>3, <1>n, <2>1, <2>2, ConcatAssociative DEF Four
<1> HIDE DEF back
<1>6. /\ <<"UTURN">> \o back \in Seq(Actions)
      /\ <<"UTURN">> \o back = [i \in 1 .. 1 + (r + c + 1) |->
             IF i <= 1 THEN <<"UTURN">>[i] ELSE back[i - 1]]
  <2> DEFINE first == <<"UTURN">>
  <2>1. first \in Seq(Actions) /\ Len(first) = 1
    BY <1>2, StepsIs
  <2> HIDE DEF first
  <2>2. /\ first \o back \in Seq(Actions)
        /\ first \o back = [i \in 1 .. Len(first) + Len(back) |->
             IF i <= Len(first) THEN first[i] ELSE back[i - Len(first)]]
    BY <1>4, <2>1, ConcatIs, Zenon
  <2> QED
    BY <1>4, <2>1, <2>2 DEF first
<1>7. <<"UTURN">> \o back = [i \in 1 .. r + c + 2 |->
             IF i = 1 THEN "UTURN" ELSE IF i = c + 1 THEN "TURN_LEFT"
             ELSE IF i = r + c + 2 THEN "FINISH_DELAY" ELSE "FORWARD"]
  BY <1>1, <1>4, <1>6
<1> QED
  BY <1>5, <1>6, <1>7 DEF r, c

\* Every path has one finishing step, its last.
LEMMA PathShape ==
  ASSUME NEW id \in Panels \cup {Home}, current_location \in Panels \cup {Home}
  PROVE  /\ PlanPath(id) \in Seq(Actions)
         /\ Len(PlanPath(id)) \in 1 .. MaxPathSteps
         /\ \A i \in 1 .. Len(PlanPath(id)) :
              PlanPath(id)[i] \in Final <=> i = Len(PlanPath(id))
<1> USE GridAssumption
<1>1. CASE id # Home
  <2>1. id \in Panels /\ PlanPath(id) = BuildToTarget(id)
    BY <1>1 DEF PlanPath
  <2>2. RowOf(id) \in 1 .. Rows /\ ColOf(id) \in 1 .. Cols
    BY <2>1, GridRange
  <2>3. Len(PlanPath(id)) = RowOf(id) + ColOf(id) + 1
    BY <2>1, <2>2, ToTargetIs
  <2>4. Len(PlanPath(id)) \in 1 .. MaxPathSteps
    BY <2>2, <2>3
  <2> QED
    BY <2>1, <2>2, <2>3, <2>4, ToTargetIs DEF Final
<1>2. CASE id = Home /\ current_location # Home
  <2>1. current_location \in Panels /\ PlanPath(id) = BuildReturnHome(current_location)
    BY <1>2 DEF PlanPath
  <2>2. RowOf(current_location) \in 1 .. Rows /\ ColOf(current_location) \in 1 .. Cols
    BY <2>1, GridRange
  <2>3. Len(PlanPath(id)) = RowOf(current_location) + ColOf(current_location) + 2
    BY <2>1, <2>2, ReturnHomeIs
  <2>4. Len(PlanPath(id)) \in 1 .. MaxPathSteps
    BY <2>2, <2>3
  <2> QED
    BY <2>1, <2>2, <2>3, <2>4, ReturnHomeIs DEF Final
<1>3. CASE id = Home /\ current_location = Home
  BY <1>3 DEF PlanPath, BuildReturnHome, Actions, Final
<1> QED
  BY <1>1, <1>2, <1>3

\* The way home from a panel is the way there in reverse between a turn round and the
\* docking delay.
LEMMA HomeIsRetrace ==
  ASSUME NEW id \in Panels
  PROVE  LET out == BuildToTarget(id)
         IN BuildReturnHome(id) =
              <<"UTURN">> \o Retrace(SubSeq(out, 1, Len(out) - 1)) \o <<"FINISH_DELAY">>
<1> DEFINE r == RowOf(id)
           c == ColOf(id)
           out == BuildToTarget(id)
           there == SubSeq(out, 1, Len(out) - 1)
           back == Retrace(there)
           first == <<"UTURN">>
           last == <<"FINISH_DELAY">>
<1>1. r \in Nat \ {0} /\ c \in Nat \ {0}
  BY GridRange, GridAssumption
<1>2. /\ out \in Seq(Actions)
      /\ out = [i \in 1 .. r + c + 1 |-> IF i = r + 1 THEN "TURN_RIGHT"
                  ELSE IF i = r + c + 1 THEN "STOP_AT_TARGET" ELSE "FORWARD"]
  BY ToTargetIs
<1>3. BuildReturnHome(id) = [i \in 1 .. r + c + 2 |->
              IF i = 1 THEN "UTURN" ELSE IF i = c + 1 THEN "TURN_LEFT"
              ELSE IF i = r + c + 2 THEN "FINISH_DELAY" ELSE "FORWARD"]
  BY ReturnHomeIs
<1>4. first \in Seq(Actions) /\ Len(first) = 1 /\ first[1] = "UTURN"
  BY StepsIs DEF Actions
<1>5. last \in Seq(Actions) /\ Len(last) = 1 /\ last[1] = "FINISH_DELAY"
  BY StepsIs DEF Actions
<1> HIDE DEF r, c, out, first, last
<1>6. there = [i \in 1 .. r + c |-> IF i = r + 1 THEN "TURN_RIGHT" ELSE "FORWARD"]
  <2>1. Len(out) = r + c + 1
    BY <1>1, <1>2
  <2> QED
    BY <1>1, <1>2, <2>1
<1> HIDE DEF there
<1>7. back = [i \in 1 .. r + c |-> IF i = c THEN "TURN_LEFT" ELSE "FORWARD"]
  <2>1. Len(there) = r + c
    BY <1>1, <1>6
  <2>2. back = [i \in 1 .. r + c |-> Mirror(there[r + c + 1 - i])]
    BY <2>1 DEF Retrace
  <2>3. ASSUME NEW i \in 1 .. r + c
        PROVE  Mirror(there[r + c + 1 - i]) = IF i = c THEN "TURN_LEFT" ELSE "FORWARD"
    BY <1>1, <1>6 DEF Mirror
  <2> HIDE DEF back
  <2> QED
    BY <2>2, <2>3
<1> HIDE DEF back
<1>8. back \in Seq(Actions) /\ Len(back) = r + c
  BY <1>1, <1>7 DEF Actions
<1> DEFINE front == first \o back
<1>9. /\ front \in Seq(Actions)
      /\ front = [i \in 1 .. Len(first) + Len(back) |->
                   IF i <= Len(first) THEN first[i] ELSE back[i - Len(first)]]
  BY <1>4, <1>8, ConcatIs, Zenon
<1> HIDE DEF front
<1>10. front = [i \in 1 .. r + c + 1 |-> IF i = 1 THEN "UTURN"
                  ELSE IF i = c + 1 THEN "TURN_LEFT" ELSE "FORWARD"]
  BY <1>1, <1>4, <1>7, <1>8, <1>9
<1>11. Len(front) = r + c + 1
  BY <1>1, <1>10
<1> DEFINE all == front \o last
<1>12. all = [i \in 1 .. Len(front) + Len(last) |->
                 IF i <= Len(front) THEN front[i] ELSE last[i - Len(front)]]
  BY <1>5, <1>9, ConcatIs, Zenon
<1> HIDE DEF all
<1>13. all = BuildReturnHome(id)
  BY <1>1, <1>3, <1>5, <1>10, <1>11, <1>12
<1> QED
  BY <1>13 DEF all, front, first, last, back, there, out

\* The way home of the vehicle at a panel of the grid, as it is planned.
LEMMA PlanHome ==
  ASSUME current_location \in Panels
  PROVE  PlanPath(Home) = BuildReturnHome(current_location)
BY DEF PlanPath

-----------------------------------------------------------------------------
(* Nodes.                                                                  *)

\* One more cooldown.
LEMMA OneMore ==
  ASSUME NEW h \in Nat, NEW c \in Nat
  PROVE  (h + 1 - 1) * c = (h - 1) * c + c
BY SMT

\* How many cooldowns fit.
LEMMA Fits ==
  ASSUME NEW k \in Nat, NEW c \in Nat \ {0}, NEW s \in Nat, k * c <= s
  PROVE  k <= s \div c
<1> DEFINE q == s \div c
<1>1. q \in Nat /\ s < (q + 1) * c
  BY SMT
<1> HIDE DEF q
<1>2. ASSUME k >= q + 1 PROVE k * c >= (q + 1) * c
  BY <1>1, <1>2
<1>3. k < q + 1
  BY <1>1, <1>2
<1> QED
  BY <1>1, <1>3 DEF q

\* What accepting a node does: a step straight on, a timed action, or the end.
AcceptForward ==
  /\ path[path_index + 1] = "FORWARD"
  /\ last_node_ms' = now /\ visual_state' = "LINE" /\ hits' = hits + 1
  /\ UNCHANGED <<running, finished, action_active, current_location, action_end_ms, motor,
                 action_age>>
AcceptTimed ==
  /\ path[path_index + 1] \in {"TURN_LEFT", "TURN_RIGHT", "UTURN", "FINISH_DELAY"}
  /\ \E duration \in Nat, state \in {"LEFT_TURN", "RIGHT_TURN", "UTURN", "PAUSED"},
        manoeuvre \in {"left", "right", "uturn", "stop"} :
       /\ duration = IF path[path_index + 1] = "FINISH_DELAY" THEN FinishTime ELSE TurnTime
       /\ BeginTimed(duration, state, manoeuvre)
AcceptFinal ==
  path[path_index + 1] = "STOP_AT_TARGET" /\ FinishPath

\* The three ways are all, because the step at the index is one that the code knows.
LEMMA AcceptIs ==
  ASSUME DataOK, TickAcceptNode
  PROVE  AcceptForward \/ AcceptTimed \/ AcceptFinal
<1> DEFINE a == path[path_index + 1]
<1>1. a \in Actions /\ BeginAction(a)
  BY DEF TickAcceptNode, DataOK
<1> HIDE DEF a
<1>2. FinishTime \in Nat /\ TurnTime \in Nat
  BY TimeAssumption
<1>3. CASE a = "FORWARD"
  BY <1>1, <1>3 DEF BeginAction, AcceptForward, a
<1>4. CASE a = "TURN_LEFT"
  <2>1. BeginTimed(TurnTime, "LEFT_TURN", "left")
    BY <1>1, <1>4 DEF BeginAction
  <2> QED
    BY <1>2, <1>4, <2>1 DEF AcceptTimed, a
<1>5. CASE a = "TURN_RIGHT"
  <2>1. BeginTimed(TurnTime, "RIGHT_TURN", "right")
    BY <1>1, <1>5 DEF BeginAction
  <2> QED
    BY <1>2, <1>5, <2>1 DEF AcceptTimed, a
<1>6. CASE a = "UTURN"
  <2>1. BeginTimed(TurnTime, "UTURN", "uturn")
    BY <1>1, <1>6 DEF BeginAction
  <2> QED
    BY <1>2, <1>6, <2>1 DEF AcceptTimed, a
<1>7. CASE a = "FINISH_DELAY"
  <2>1. BeginTimed(FinishTime, "PAUSED", "stop")
    BY <1>1, <1>7 DEF BeginAction
  <2> QED
    BY <1>2, <1>7, <2>1 DEF AcceptTimed, a
<1>8. CASE a = "STOP_AT_TARGET"
  <2>1. FinishPath
    BY <1>1, <1>8 DEF BeginAction
  <2> QED
    BY <1>8, <2>1 DEF AcceptFinal, a
<1> QED
  BY <1>1, <1>3, <1>4, <1>5, <1>6, <1>7, <1>8 DEF Actions

\* The age of a time stamp.
LEMMA SinceIs == \A t : Since(t) = Diff(now, t)
BY DEF Since, Diff

\* Zero is a clock value.
LEMMA ZeroTime == 0 \in Times
BY ClockPositive DEF Times

\* The times as numbers.
LEMMA PositiveTimes ==
  /\ Stale \in Nat /\ Cooldown \in Nat \ {0} /\ TurnTime \in Nat \ {0}
  /\ FinishTime \in Nat \ {0} /\ ClockMod \in Nat
  /\ 2 * TurnTime < ClockMod /\ 2 * FinishTime < ClockMod
BY TimeAssumption

\* A timed action is shorter than the clock's round.
LEMMA ShortTimes == TurnTime < ClockMod /\ FinishTime < ClockMod
BY PositiveTimes

\* The number of cooldowns in the life of a frame is a number.
LEMMA FrameShare == Stale \div Cooldown \in Nat
BY PositiveTimes

-----------------------------------------------------------------------------
(* One lemma per part of the invariant.                                    *)

\* The flags stay Boolean.
LEMMA FlagsStep ==
  ASSUME FlagsOK, DataOK, [Next]_vars
  PROVE  FlagsOK'
<1> USE DEF FlagsOK, trackVars, missionVars, cameraVars, controlFrame, missionFrame
<1>1. CASE TickNotRunning
  BY Zenon, <1>1 DEF TickNotRunning
<1>2. CASE TickActionGoesOn
  BY Zenon, <1>2 DEF TickActionGoesOn
<1>3. CASE TickFinishDelayOver
  BY Zenon, <1>3 DEF TickFinishDelayOver, FinishPath
<1>4. CASE TickTurnOver
  BY Zenon, <1>4 DEF TickTurnOver
<1>5. CASE TickAcceptNode
  <2>1. AcceptForward \/ AcceptTimed \/ AcceptFinal
    BY <1>5, AcceptIs
  <2>2. CASE AcceptForward
    BY Zenon, <1>5, <2>2 DEF TickAcceptNode, AcceptForward
  <2>3. CASE AcceptTimed
    BY Zenon, <1>5, <2>3 DEF TickAcceptNode, AcceptTimed, BeginTimed
  <2>4. CASE AcceptFinal
    BY Zenon, <1>5, <2>4 DEF TickAcceptNode, AcceptFinal, FinishPath
  <2> QED
    BY <2>1, <2>2, <2>3, <2>4
<1>6. CASE TickLineFollow
  BY Zenon, <1>6 DEF TickLineFollow
<1>7. CASE MBegin
  BY Zenon, <1>7 DEF MBegin
<1>8. CASE MWaitCamera
  BY Zenon, <1>8 DEF MWaitCamera
<1>9. CASE MStartPathDenied
  BY Zenon, <1>9 DEF MStartPathDenied
<1>10. CASE MStartPath
  BY Zenon, <1>10 DEF MStartPath
<1>11. CASE MFollow
  BY Zenon, <1>11 DEF MFollow
<1>12. CASE MFollowCamera
  BY Zenon, <1>12 DEF MFollowCamera
<1>13. CASE MFollowTime
  BY Zenon, <1>13 DEF MFollowTime
<1>14. CASE MFollowWake
  BY Zenon, <1>14 DEF MFollowWake
<1>15. CASE MPanel
  BY Zenon, <1>15 DEF MPanel
<1>16. CASE MStop
  BY Zenon, <1>16 DEF MStop, TrackStop
<1>17. CASE UpdateCamera
  BY Zenon, <1>17 DEF UpdateCamera
<1>18. CASE UAbort
  BY Zenon, <1>18 DEF UAbort
<1>19. CASE UTrackStop
  BY Zenon, <1>19 DEF UTrackStop, TrackStop
<1>20. CASE LatchMotionFault
  BY Zenon, <1>20 DEF LatchMotionFault
<1>21. CASE Clock
  BY Zenon, <1>21 DEF Clock
<1>22. CASE UNCHANGED vars
  BY Zenon, <1>22 DEF vars
<1> QED
  BY <1>1, <1>2, <1>3, <1>4, <1>5, <1>6, <1>7, <1>8, <1>9, <1>10, <1>11, <1>12,
     <1>13, <1>14, <1>15, <1>16, <1>17, <1>18, <1>19, <1>20, <1>21, <1>22
     DEF Next, ControlNext, MissionNext

\* The other variables keep their types, the index in the path and the clock values in
\* particular.
LEMMA DataStep ==
  ASSUME DataOK, [Next]_vars
  PROVE  DataOK'
<1> USE ZeroTime DEF DataOK, MGoto, MissionSleeps, trackVars, missionVars, cameraVars, controlFrame, missionFrame
<1>1. CASE TickNotRunning
  BY <1>1 DEF TickNotRunning
<1>2. CASE TickActionGoesOn
  BY <1>2 DEF TickActionGoesOn
<1>3. CASE TickFinishDelayOver
  BY <1>3 DEF TickFinishDelayOver, FinishPath
<1>4. CASE TickTurnOver
  BY <1>4 DEF TickTurnOver
<1>5. CASE TickAcceptNode
  <2>1. path[path_index + 1] \in Actions /\ path_index + 1 \in 0 .. Len(path)
    BY <1>5 DEF TickAcceptNode
  <2>2. AcceptForward \/ AcceptTimed \/ AcceptFinal
    BY <1>5, AcceptIs
  <2>3. CASE AcceptForward
    BY <1>5, <2>1, <2>3 DEF TickAcceptNode, AcceptForward
  <2>4. CASE AcceptTimed
    <3>1. PICK duration \in Nat, state \in {"LEFT_TURN", "RIGHT_TURN", "UTURN", "PAUSED"},
               manoeuvre \in {"left", "right", "uturn", "stop"} :
            /\ duration = IF path[path_index + 1] = "FINISH_DELAY" THEN FinishTime ELSE TurnTime
            /\ BeginTimed(duration, state, manoeuvre)
      BY <2>4 DEF AcceptTimed
    <3>2. duration < ClockMod
      <4>1. duration = FinishTime \/ duration = TurnTime
        BY Zenon, <3>1
      <4> QED
        BY <4>1, ShortTimes
    <3>3. (now + duration) % ClockMod \in Times
      BY <3>2, DiffAhead
    <3> QED
      BY <1>5, <2>1, <3>1, <3>3 DEF TickAcceptNode, BeginTimed
  <2>5. CASE AcceptFinal
    BY <1>5, <2>1, <2>5 DEF TickAcceptNode, AcceptFinal, FinishPath
  <2> QED
    BY <2>2, <2>3, <2>4, <2>5
<1>6. CASE TickLineFollow
  BY <1>6 DEF TickLineFollow
<1>7. CASE MBegin
  BY <1>7, GridAssumption DEF MBegin, Panels
<1>8. CASE MWaitCamera
  BY <1>8 DEF MWaitCamera
<1>9. CASE MStartPathDenied
  BY <1>9 DEF MStartPathDenied
<1>10. CASE MStartPath
  <2>1. Goal \in Panels \cup {Home}
    BY DEF Goal
  <2>2. path' \in Seq(Actions) /\ Len(path') \in Nat
    BY <1>10, <2>1, PathShape DEF MStartPath
  <2>3. last_node_ms' \in Times
    BY <1>10, DiffBefore, TimeAssumption DEF MStartPath
  <2> QED
    BY <1>10, <2>1, <2>2, <2>3 DEF MStartPath
<1>11. CASE MFollow
  BY <1>11 DEF MFollow
<1>12. CASE MFollowCamera
  BY <1>12 DEF MFollowCamera
<1>13. CASE MFollowTime
  BY <1>13 DEF MFollowTime
<1>14. CASE MFollowWake
  BY <1>14 DEF MFollowWake
<1>15. CASE MPanel
  BY <1>15 DEF MPanel
<1>16. CASE MStop
  <2>1. path' = << >> /\ << >> \in Seq(Actions) /\ Len(<< >>) = 0
    BY <1>16 DEF MStop, TrackStop
  <2> QED
    BY <1>16, <2>1 DEF MStop, TrackStop, Actions, Home
<1>17. CASE UpdateCamera
  BY <1>17, ClockPositive DEF UpdateCamera
<1>18. CASE UAbort
  BY <1>18 DEF UAbort
<1>19. CASE UTrackStop
  <2>1. path' = << >> /\ << >> \in Seq(Actions) /\ Len(<< >>) = 0
    BY <1>19 DEF UTrackStop, TrackStop
  <2> QED
    BY <1>19, <2>1 DEF UTrackStop, TrackStop, Actions, Home
<1>20. CASE LatchMotionFault
  BY <1>20 DEF LatchMotionFault
<1>21. CASE Clock
  <2>1. now' \in Times
    BY <1>21, DiffNext DEF Clock
  <2>2. frame_age' \in 0 .. 2 * ClockMod - 1
    BY <1>21, ClockPositive DEF Clock, Older
  <2> QED
    BY <1>21, <2>1, <2>2 DEF Clock
<1>22. CASE UNCHANGED vars
  BY <1>22 DEF vars
<1> QED
  BY <1>1, <1>2, <1>3, <1>4, <1>5, <1>6, <1>7, <1>8, <1>9, <1>10, <1>11, <1>12,
     <1>13, <1>14, <1>15, <1>16, <1>17, <1>18, <1>19, <1>20, <1>21, <1>22
     DEF Next, ControlNext, MissionNext

\* A stop or an arrival ends the path for everybody.
LEMMA PlacesStep ==
  ASSUME DataOK, Places, [Next]_vars
  PROVE  Places'
<1> USE DEF Places, FollowPlaces, MGoto, MissionSleeps, trackVars, missionVars, cameraVars, controlFrame, missionFrame
<1>1. CASE TickNotRunning
  BY <1>1 DEF TickNotRunning
<1>2. CASE TickActionGoesOn
  BY <1>2 DEF TickActionGoesOn
<1>3. CASE TickFinishDelayOver
  BY <1>3 DEF TickFinishDelayOver, FinishPath
<1>4. CASE TickTurnOver
  BY <1>4 DEF TickTurnOver
<1>5. CASE TickAcceptNode
  <2>1. AcceptForward \/ AcceptTimed \/ AcceptFinal
    BY <1>5, AcceptIs
  <2>2. CASE AcceptForward
    BY <1>5, <2>2 DEF TickAcceptNode, AcceptForward
  <2>3. CASE AcceptTimed
    BY <1>5, <2>3 DEF TickAcceptNode, AcceptTimed, BeginTimed
  <2>4. CASE AcceptFinal
    BY <1>5, <2>4 DEF TickAcceptNode, AcceptFinal, FinishPath
  <2> QED
    BY <2>1, <2>2, <2>3, <2>4
<1>6. CASE TickLineFollow
  BY <1>6 DEF TickLineFollow
<1>7. CASE MBegin
  BY <1>7 DEF MBegin
<1>8. CASE MWaitCamera
  BY <1>8 DEF MWaitCamera
<1>9. CASE MStartPathDenied
  BY <1>9 DEF MStartPathDenied
<1>10. CASE MStartPath
  BY <1>10 DEF MStartPath
<1>11. CASE MFollow
  BY <1>11 DEF MFollow
<1>12. CASE MFollowCamera
  BY <1>12 DEF MFollowCamera
<1>13. CASE MFollowTime
  BY <1>13 DEF MFollowTime
<1>14. CASE MFollowWake
  BY <1>14 DEF MFollowWake
<1>15. CASE MPanel
  BY <1>15 DEF MPanel
<1>16. CASE MStop
  BY <1>16 DEF MStop, TrackStop
<1>17. CASE UpdateCamera
  BY <1>17 DEF UpdateCamera
<1>18. CASE UAbort
  BY <1>18 DEF UAbort
<1>19. CASE UTrackStop
  BY <1>19 DEF UTrackStop, TrackStop
<1>20. CASE LatchMotionFault
  BY <1>20 DEF LatchMotionFault
<1>21. CASE Clock
  BY <1>21 DEF Clock
<1>22. CASE UNCHANGED vars
  BY <1>22 DEF vars
<1> QED
  BY <1>1, <1>2, <1>3, <1>4, <1>5, <1>6, <1>7, <1>8, <1>9, <1>10, <1>11, <1>12,
     <1>13, <1>14, <1>15, <1>16, <1>17, <1>18, <1>19, <1>20, <1>21, <1>22
     DEF Next, ControlNext, MissionNext

\* The index walks along the path and reaches its end exactly when the path finishes.
LEMMA OnPathStep ==
  ASSUME DataOK, Places, OnPath, [Next]_vars
  PROVE  OnPath'
<1> USE DEF DataOK, Places, OnPath, Final, MGoto, MissionSleeps, trackVars, missionVars, cameraVars, controlFrame, missionFrame
<1>1. CASE TickNotRunning
  BY <1>1 DEF TickNotRunning
<1>2. CASE TickActionGoesOn
  BY <1>2 DEF TickActionGoesOn
<1>3. CASE TickFinishDelayOver
  BY <1>3 DEF TickFinishDelayOver, FinishPath
<1>4. CASE TickTurnOver
  BY <1>4 DEF TickTurnOver
<1>5. CASE TickAcceptNode
  <2> USE DEF TickAcceptNode
  <2>1. /\ path' = path /\ path_index' = path_index + 1 /\ path_index + 1 \in 1 .. Len(path)
        /\ active_action' = path[path_index']
        /\ path[path_index'] \in Final <=> path_index' = Len(path)
        /\ path_index \in Nat /\ Len(path) \in Nat
    BY <1>5
  <2>2. AcceptForward \/ AcceptTimed \/ AcceptFinal
    BY <1>5, AcceptIs
  <2>3. CASE AcceptForward
    BY <1>5, <2>1, <2>3 DEF AcceptForward
  <2>4. CASE AcceptTimed
    BY <1>5, <2>1, <2>4 DEF AcceptTimed, BeginTimed
  <2>5. CASE AcceptFinal
    BY <1>5, <2>1, <2>5 DEF AcceptFinal, FinishPath
  <2> QED
    BY <2>2, <2>3, <2>4, <2>5
<1>6. CASE TickLineFollow
  BY <1>6 DEF TickLineFollow
<1>7. CASE MBegin
  BY <1>7 DEF MBegin
<1>8. CASE MWaitCamera
  BY <1>8 DEF MWaitCamera
<1>9. CASE MStartPathDenied
  BY <1>9 DEF MStartPathDenied
<1>10. CASE MStartPath
  <2>1. Goal \in Panels \cup {Home}
    BY DEF Goal
  <2>2. /\ path' = PlanPath(Goal)
        /\ Len(PlanPath(Goal)) \in 1 .. MaxPathSteps
        /\ \A i \in 1 .. Len(PlanPath(Goal)) : PlanPath(Goal)[i] \in Final <=> i = Len(PlanPath(Goal))
    BY <1>10, <2>1, PathShape DEF MStartPath
  <2> QED
    BY <1>10, <2>2, GridAssumption DEF MStartPath
<1>11. CASE MFollow
  BY <1>11 DEF MFollow
<1>12. CASE MFollowCamera
  BY <1>12 DEF MFollowCamera
<1>13. CASE MFollowTime
  BY <1>13 DEF MFollowTime
<1>14. CASE MFollowWake
  BY <1>14 DEF MFollowWake
<1>15. CASE MPanel
  BY <1>15 DEF MPanel
<1>16. CASE MStop
  BY <1>16, GridAssumption DEF MStop, TrackStop
<1>17. CASE UpdateCamera
  BY <1>17 DEF UpdateCamera
<1>18. CASE UAbort
  BY <1>18 DEF UAbort
<1>19. CASE UTrackStop
  BY <1>19, GridAssumption DEF UTrackStop, TrackStop
<1>20. CASE LatchMotionFault
  BY <1>20 DEF LatchMotionFault
<1>21. CASE Clock
  BY <1>21 DEF Clock
<1>22. CASE UNCHANGED vars
  BY <1>22 DEF vars
<1> QED
  BY <1>1, <1>2, <1>3, <1>4, <1>5, <1>6, <1>7, <1>8, <1>9, <1>10, <1>11, <1>12,
     <1>13, <1>14, <1>15, <1>16, <1>17, <1>18, <1>19, <1>20, <1>21, <1>22
     DEF Next, ControlNext, MissionNext

\* From the arrival at the panel to the end of the way home the vehicle is known to have
\* been there.
LEMMA LegsStep ==
  ASSUME DataOK, Places, OnPath, Legs, [Next]_vars
  PROVE  Legs'
<1> USE DEF DataOK, Places, OnPath, Legs, FollowPlaces, MGoto, MissionSleeps, trackVars, missionVars, cameraVars, controlFrame, missionFrame
<1>1. CASE TickNotRunning
  BY <1>1 DEF TickNotRunning
<1>2. CASE TickActionGoesOn
  BY <1>2 DEF TickActionGoesOn
<1>3. CASE TickFinishDelayOver
  BY <1>3 DEF TickFinishDelayOver, FinishPath
<1>4. CASE TickTurnOver
  BY <1>4 DEF TickTurnOver
<1>5. CASE TickAcceptNode
  <2>1. AcceptForward \/ AcceptTimed \/ AcceptFinal
    BY <1>5, AcceptIs
  <2>2. CASE AcceptForward
    BY <1>5, <2>2 DEF TickAcceptNode, AcceptForward
  <2>3. CASE AcceptTimed
    BY <1>5, <2>3 DEF TickAcceptNode, AcceptTimed, BeginTimed
  <2>4. CASE AcceptFinal
    BY <1>5, <2>4 DEF TickAcceptNode, AcceptFinal, FinishPath
  <2> QED
    BY <2>1, <2>2, <2>3, <2>4
<1>6. CASE TickLineFollow
  BY <1>6 DEF TickLineFollow
<1>7. CASE MBegin
  BY <1>7 DEF MBegin
<1>8. CASE MWaitCamera
  BY <1>8 DEF MWaitCamera
<1>9. CASE MStartPathDenied
  BY <1>9 DEF MStartPathDenied
<1>10. CASE MStartPath
  <2>1. leg = "return" => Goal = Home /\ current_location = target /\ target \in Panels
    BY <1>10, GridAssumption DEF MStartPath, Goal, Panels
  <2>2. leg = "nav" => Goal = target
    BY DEF Goal
  <2>3. leg = "return" => path' = BuildReturnHome(target)
    BY <1>10, <2>1, PlanHome DEF MStartPath
  <2> QED
    BY <1>10, <2>1, <2>2, <2>3 DEF MStartPath
<1>11. CASE MFollow
  BY <1>11 DEF MFollow
<1>12. CASE MFollowCamera
  BY <1>12 DEF MFollowCamera
<1>13. CASE MFollowTime
  BY <1>13 DEF MFollowTime
<1>14. CASE MFollowWake
  BY <1>14 DEF MFollowWake
<1>15. CASE MPanel
  BY <1>15 DEF MPanel
<1>16. CASE MStop
  BY <1>16 DEF MStop, TrackStop
<1>17. CASE UpdateCamera
  BY <1>17 DEF UpdateCamera
<1>18. CASE UAbort
  BY <1>18 DEF UAbort
<1>19. CASE UTrackStop
  BY <1>19 DEF UTrackStop, TrackStop
<1>20. CASE LatchMotionFault
  BY <1>20 DEF LatchMotionFault
<1>21. CASE Clock
  BY <1>21 DEF Clock
<1>22. CASE UNCHANGED vars
  BY <1>22 DEF vars
<1> QED
  BY <1>1, <1>2, <1>3, <1>4, <1>5, <1>6, <1>7, <1>8, <1>9, <1>10, <1>11, <1>12,
     <1>13, <1>14, <1>15, <1>16, <1>17, <1>18, <1>19, <1>20, <1>21, <1>22
     DEF Next, ControlNext, MissionNext

\* The tick of a frame tells its age but for whole rounds of the clock.
LEMMA FrameAgeStep ==
  ASSUME DataOK, FrameAge, [Next]_vars
  PROVE  FrameAge'
<1> USE DEF DataOK, FrameAge, MGoto, MissionSleeps, trackVars, missionVars, cameraVars, controlFrame, missionFrame
<1>1. CASE TickNotRunning
  BY <1>1 DEF TickNotRunning
<1>2. CASE TickActionGoesOn
  BY <1>2 DEF TickActionGoesOn
<1>3. CASE TickFinishDelayOver
  BY <1>3 DEF TickFinishDelayOver, FinishPath
<1>4. CASE TickTurnOver
  BY <1>4 DEF TickTurnOver
<1>5. CASE TickAcceptNode
  <2>1. AcceptForward \/ AcceptTimed \/ AcceptFinal
    BY <1>5, AcceptIs
  <2>2. CASE AcceptForward
    BY <1>5, <2>2 DEF TickAcceptNode, AcceptForward
  <2>3. CASE AcceptTimed
    BY <1>5, <2>3 DEF TickAcceptNode, AcceptTimed, BeginTimed
  <2>4. CASE AcceptFinal
    BY <1>5, <2>4 DEF TickAcceptNode, AcceptFinal, FinishPath
  <2> QED
    BY <2>1, <2>2, <2>3, <2>4
<1>6. CASE TickLineFollow
  BY <1>6 DEF TickLineFollow
<1>7. CASE MBegin
  BY <1>7 DEF MBegin
<1>8. CASE MWaitCamera
  BY <1>8 DEF MWaitCamera
<1>9. CASE MStartPathDenied
  BY <1>9 DEF MStartPathDenied
<1>10. CASE MStartPath
  BY <1>10 DEF MStartPath
<1>11. CASE MFollow
  BY <1>11 DEF MFollow
<1>12. CASE MFollowCamera
  BY <1>12 DEF MFollowCamera
<1>13. CASE MFollowTime
  BY <1>13 DEF MFollowTime
<1>14. CASE MFollowWake
  BY <1>14 DEF MFollowWake
<1>15. CASE MPanel
  BY <1>15 DEF MPanel
<1>16. CASE MStop
  BY <1>16 DEF MStop, TrackStop
<1>17. CASE UpdateCamera
  BY <1>17, DiffRange, ClockPositive DEF UpdateCamera
<1>18. CASE UAbort
  BY <1>18 DEF UAbort
<1>19. CASE UTrackStop
  BY <1>19 DEF UTrackStop, TrackStop
<1>20. CASE LatchMotionFault
  BY <1>20 DEF LatchMotionFault
<1>21. CASE Clock
  <2>1. CASE camera.kind = "narrow"
    BY <1>21, <2>1 DEF Clock
  <2>2. CASE camera.kind # "narrow"
    <3>1. Diff(now', camera.tick) = IF Diff(now, camera.tick) = ClockMod - 1 THEN 0
                                    ELSE Diff(now, camera.tick) + 1
      BY <1>21, DiffNext DEF Clock
    <3>2. frame_age' = Older(frame_age) /\ camera' = camera
      BY <1>21, <2>2 DEF Clock
    <3> QED
      BY <2>2, <3>1, <3>2, ClockPositive DEF Older
  <2> QED
    BY <2>1, <2>2
<1>22. CASE UNCHANGED vars
  BY <1>22 DEF vars
<1> QED
  BY <1>1, <1>2, <1>3, <1>4, <1>5, <1>6, <1>7, <1>8, <1>9, <1>10, <1>11, <1>12,
     <1>13, <1>14, <1>15, <1>16, <1>17, <1>18, <1>19, <1>20, <1>21, <1>22
     DEF Next, ControlNext, MissionNext

\* A unit of time on a path with a node: the loop has looked at the time before it slept,
\* so neither the path nor the frame is a round of the clock old.
LEMMA ClockOnPath ==
  ASSUME DataOK, Places, InTime, HitsSpaced, Clock, hits > 0
  PROVE  /\ mpc = "asleep" /\ mpc' = "follow"
         /\ Diff(now', camera.tick) = Diff(now, camera.tick) + 1
         /\ Diff(now', start_ms) = Diff(now, start_ms) + 1
<1>1. mpc = "asleep" /\ mpc' = "follow" /\ running
  BY DEF Clock, HitsSpaced, Places, MissionSleeps, FollowPlaces
<1> DEFINE a == Diff(now, camera.tick)
           d == Diff(now, start_ms)
<1>2. a \in Nat /\ d \in Nat
  BY DiffRange DEF DataOK, Times
<1>3. d < NavTimeout /\ a <= Stale + d
  BY <1>1 DEF InTime, FollowPlaces
<1>4. /\ Diff(now', camera.tick) = IF a = ClockMod - 1 THEN 0 ELSE a + 1
      /\ Diff(now', start_ms) = IF d = ClockMod - 1 THEN 0 ELSE d + 1
  BY DiffNext DEF Clock, DataOK
<1> HIDE DEF a, d
<1>5. a # ClockMod - 1 /\ d # ClockMod - 1
  BY <1>2, <1>3, TimeAssumption
<1> QED
  BY <1>1, <1>4, <1>5 DEF a, d

\* The follow loop looks at the time in every turn, and a frame gives a node only while it
\* is fresh.
LEMMA InTimeStep ==
  ASSUME DataOK, Places, InTime, HitsSpaced, [Next]_vars
  PROVE  InTime'
<1> USE PositiveTimes DEF DataOK, Places, InTime, FollowPlaces, MGoto, MissionSleeps,
       trackVars, missionVars, cameraVars, controlFrame, missionFrame
<1>1. CASE TickNotRunning
  BY <1>1 DEF TickNotRunning
<1>2. CASE TickActionGoesOn
  BY <1>2 DEF TickActionGoesOn
<1>3. CASE TickFinishDelayOver
  BY <1>3 DEF TickFinishDelayOver, FinishPath
<1>4. CASE TickTurnOver
  BY <1>4 DEF TickTurnOver
<1>5. CASE TickAcceptNode
  <2>1. /\ Diff(now, camera.tick) <= Stale
        /\ running /\ UNCHANGED <<now, camera, start_ms, mpc>>
    BY <1>5, SinceIs DEF TickAcceptNode, NodeSeen, FrameRecent
  <2>2. Diff(now, camera.tick) \in Nat /\ Diff(now, start_ms) \in Nat
    BY DiffRange DEF Times
  <2> QED
    BY <2>1, <2>2
<1>6. CASE TickLineFollow
  BY <1>6 DEF TickLineFollow
<1>7. CASE MBegin
  BY <1>7 DEF MBegin
<1>8. CASE MWaitCamera
  BY <1>8 DEF MWaitCamera
<1>9. CASE MStartPathDenied
  BY <1>9 DEF MStartPathDenied
<1>10. CASE MStartPath
  <2>1. Diff(now, now) = 0
    BY DiffRange
  <2>2. start_ms' = now /\ now' = now /\ hits' = 0 /\ mpc' = "follow"
    BY <1>10 DEF MStartPath
  <2> QED
    BY <2>1, <2>2, TimeAssumption
<1>11. CASE MFollow
  BY <1>11 DEF MFollow
<1>12. CASE MFollowCamera
  BY <1>12 DEF MFollowCamera
<1>13. CASE MFollowTime
  <2>1. mpc' = "asleep" => ~(Diff(now, start_ms) >= NavTimeout)
    BY <1>13, SinceIs DEF MFollowTime
  <2>2. Diff(now, start_ms) \in Nat
    BY DiffRange DEF Times
  <2> QED
    BY <1>13, <2>1, <2>2, TimeAssumption DEF MFollowTime
<1>14. CASE MFollowWake
  BY <1>14 DEF MFollowWake
<1>15. CASE MPanel
  BY <1>15 DEF MPanel
<1>16. CASE MStop
  BY <1>16 DEF MStop, TrackStop
<1>17. CASE UpdateCamera
  BY <1>17 DEF UpdateCamera
<1>18. CASE UAbort
  BY <1>18 DEF UAbort
<1>19. CASE UTrackStop
  BY <1>19 DEF UTrackStop, TrackStop
<1>20. CASE LatchMotionFault
  BY <1>20 DEF LatchMotionFault
<1>21. CASE Clock
  <2>1. UNCHANGED <<running, hits, camera, start_ms>>
    BY <1>21 DEF Clock
  <2>2. running => mpc = "asleep" /\ mpc' = "follow"
    BY <1>21 DEF Clock
  <2>3. Diff(now, start_ms) \in Nat /\ Diff(now, camera.tick) \in Nat
    BY DiffRange DEF Times
  <2>4. Diff(now', start_ms) <= Diff(now, start_ms) + 1 /\ Diff(now', start_ms) \in Nat
    <3>1. Diff(now', start_ms) = IF Diff(now, start_ms) = ClockMod - 1 THEN 0
                                 ELSE Diff(now, start_ms) + 1
      BY <1>21, DiffNext DEF Clock
    <3> QED
      BY <2>3, <3>1
  <2>5. hits > 0 => /\ Diff(now', camera.tick) = Diff(now, camera.tick) + 1
                    /\ Diff(now', start_ms) = Diff(now, start_ms) + 1
    BY <1>21, ClockOnPath
  <2> QED
    BY <2>1, <2>2, <2>3, <2>4, <2>5, TimeAssumption
<1>22. CASE UNCHANGED vars
  BY <1>22 DEF vars
<1> QED
  BY <1>1, <1>2, <1>3, <1>4, <1>5, <1>6, <1>7, <1>8, <1>9, <1>10, <1>11, <1>12,
     <1>13, <1>14, <1>15, <1>16, <1>17, <1>18, <1>19, <1>20, <1>21, <1>22
     DEF Next, ControlNext, MissionNext

\* A frame gives one node per cooldown, and only while it is fresh.
LEMMA HitsStep ==
  ASSUME DataOK, Places, InTime, HitsSpaced, FrameHitsBounded, [Next]_vars
  PROVE  (HitsSpaced /\ FrameHitsBounded)'
<1> USE PositiveTimes DEF DataOK, Places, HitsSpaced, FrameHitsBounded, MGoto, MissionSleeps,
       trackVars, missionVars, cameraVars, controlFrame, missionFrame
<1>1. CASE TickNotRunning
  BY <1>1 DEF TickNotRunning
<1>2. CASE TickActionGoesOn
  BY <1>2 DEF TickActionGoesOn
<1>3. CASE TickFinishDelayOver
  <2>1. hits' = 0 /\ Stale \div Cooldown \in Nat
    BY <1>3 DEF TickFinishDelayOver, FinishPath
  <2> QED
    BY <2>1
<1>4. CASE TickTurnOver
  <2>1. last_node_ms' = now /\ now' = now /\ Diff(now, now) = 0
    BY <1>4, DiffRange DEF TickTurnOver
  <2> QED
    BY <1>4, <2>1 DEF TickTurnOver
<1>5. CASE TickAcceptNode
  <2> DEFINE age == Diff(now, camera.tick)
  <2>0. age \in Nat
    BY DiffRange DEF Times
  <2>1. /\ camera.kind = "node" /\ age <= Stale /\ Diff(now, last_node_ms) >= Cooldown
        /\ running /\ ~action_active /\ UNCHANGED <<now, camera>>
    BY <1>5, SinceIs DEF TickAcceptNode, NodeSeen, FrameRecent
  <2>2. hits * Cooldown <= age
    <3>1. CASE hits = 0
      BY <2>0, <3>1
    <3>2. CASE hits > 0
      <4>1. (hits + 1 - 1) * Cooldown = (hits - 1) * Cooldown + Cooldown
        BY OneMore
      <4>2. (hits - 1) * Cooldown \in Int /\ hits * Cooldown = (hits - 1) * Cooldown + Cooldown
        BY <4>1
      <4>3. Diff(now, last_node_ms) \in Nat
        BY DiffRange DEF Times
      <4> QED
        BY <2>0, <2>1, <3>2, <4>2, <4>3 DEF Times
    <3> QED
      BY <3>1, <3>2
  <2>3. hits <= Stale \div Cooldown
    <3>1. hits * Cooldown <= Stale
      BY <2>0, <2>1, <2>2 DEF Times
    <3> QED
      BY <3>1, Fits
  <2>4. (hits + 1 - 1) * Cooldown = hits * Cooldown /\ Stale \div Cooldown \in Nat
    <3>1. hits + 1 - 1 = hits
      BY SMT
    <3> QED
      BY <3>1, FrameShare
  <2>5. Diff(now, now) = 0
    BY DiffRange
  <2>6. AcceptForward \/ AcceptTimed \/ AcceptFinal
    BY <1>5, AcceptIs
  <2>7. CASE AcceptForward
    BY <2>1, <2>2, <2>3, <2>4, <2>5, <2>7 DEF AcceptForward
  <2>8. CASE AcceptTimed
    BY <2>1, <2>2, <2>3, <2>4, <2>8 DEF AcceptTimed, BeginTimed
  <2>9. CASE AcceptFinal
    BY <2>4, <2>9 DEF AcceptFinal, FinishPath
  <2> QED
    BY <2>6, <2>7, <2>8, <2>9
<1>6. CASE TickLineFollow
  BY <1>6 DEF TickLineFollow
<1>7. CASE MBegin
  BY <1>7 DEF MBegin
<1>8. CASE MWaitCamera
  BY <1>8 DEF MWaitCamera
<1>9. CASE MStartPathDenied
  BY <1>9 DEF MStartPathDenied
<1>10. CASE MStartPath
  <2>1. hits' = 0 /\ Stale \div Cooldown \in Nat
    BY <1>10 DEF MStartPath
  <2> QED
    BY <2>1
<1>11. CASE MFollow
  BY <1>11 DEF MFollow
<1>12. CASE MFollowCamera
  BY <1>12 DEF MFollowCamera
<1>13. CASE MFollowTime
  BY <1>13 DEF MFollowTime
<1>14. CASE MFollowWake
  BY <1>14 DEF MFollowWake
<1>15. CASE MPanel
  BY <1>15 DEF MPanel
<1>16. CASE MStop
  <2>1. hits' = 0 /\ Stale \div Cooldown \in Nat
    BY <1>16 DEF MStop, TrackStop
  <2> QED
    BY <2>1
<1>17. CASE UpdateCamera
  <2>1. hits' = 0 /\ Stale \div Cooldown \in Nat
    BY <1>17 DEF UpdateCamera
  <2> QED
    BY <2>1
<1>18. CASE UAbort
  BY <1>18 DEF UAbort
<1>19. CASE UTrackStop
  <2>1. hits' = 0 /\ Stale \div Cooldown \in Nat
    BY <1>19 DEF UTrackStop, TrackStop
  <2> QED
    BY <2>1
<1>20. CASE LatchMotionFault
  BY <1>20 DEF LatchMotionFault
<1>21. CASE Clock
  <2>1. /\ UNCHANGED <<hits, running, action_active, last_node_ms>>
        /\ now' = (now + 1) % ClockMod
        /\ UNCHANGED camera
    BY <1>21 DEF Clock
  <2>2. Diff(now', last_node_ms) <= Diff(now, last_node_ms) + 1
    <3>1. Diff(now', last_node_ms) = IF Diff(now, last_node_ms) = ClockMod - 1 THEN 0
                                     ELSE Diff(now, last_node_ms) + 1
      BY <2>1, DiffNext
    <3>2. Diff(now, last_node_ms) \in Nat
      BY DiffRange, ClockPositive DEF Times
    <3> QED
      BY <3>1, <3>2
  <2>3. /\ Diff(now', last_node_ms) \in Int /\ Diff(now, last_node_ms) \in Int
        /\ Diff(now, camera.tick) \in Int /\ (hits - 1) * Cooldown \in Int
    <3>1. now' \in Times
      BY <2>1, DiffNext
    <3>2. /\ Diff(now', last_node_ms) \in Times /\ Diff(now, last_node_ms) \in Times
          /\ Diff(now, camera.tick) \in Times
      BY <3>1, DiffRange
    <3> QED
      BY <3>2 DEF Times
  <2>4. hits > 0 => Diff(now', camera.tick) = Diff(now, camera.tick) + 1
    BY <1>21, ClockOnPath
  <2> QED
    BY <2>1, <2>2, <2>3, <2>4
<1>22. CASE UNCHANGED vars
  BY <1>22 DEF vars
<1> QED
  BY <1>1, <1>2, <1>3, <1>4, <1>5, <1>6, <1>7, <1>8, <1>9, <1>10, <1>11, <1>12,
     <1>13, <1>14, <1>15, <1>16, <1>17, <1>18, <1>19, <1>20, <1>21, <1>22
     DEF Next, ControlNext, MissionNext

\* What is missing of a timed action shrinks with the clock, also over a wrap.
LEMMA EndAheadStep ==
  ASSUME DataOK, Places, EndAhead, [Next]_vars
  PROVE  EndAhead'
<1> USE PositiveTimes DEF DataOK, Places, EndAhead, Duration, MGoto, MissionSleeps,
       trackVars, missionVars, cameraVars, controlFrame, missionFrame
<1>1. CASE TickNotRunning
  BY <1>1 DEF TickNotRunning
<1>2. CASE TickActionGoesOn
  BY <1>2 DEF TickActionGoesOn
<1>3. CASE TickFinishDelayOver
  BY <1>3 DEF TickFinishDelayOver, FinishPath
<1>4. CASE TickTurnOver
  BY <1>4 DEF TickTurnOver
<1>5. CASE TickAcceptNode
  <2>1. AcceptForward \/ AcceptTimed \/ AcceptFinal
    BY <1>5, AcceptIs
  <2>2. CASE AcceptForward
    BY <1>5, <2>2 DEF TickAcceptNode, AcceptForward
  <2>3. CASE AcceptTimed
    <3>1. PICK duration \in Nat, state \in {"LEFT_TURN", "RIGHT_TURN", "UTURN", "PAUSED"},
               manoeuvre \in {"left", "right", "uturn", "stop"} :
            /\ duration = IF path[path_index + 1] = "FINISH_DELAY" THEN FinishTime ELSE TurnTime
            /\ BeginTimed(duration, state, manoeuvre)
      BY <2>3 DEF AcceptTimed
    <3>2. Duration' = duration
      BY <1>5, <3>1 DEF TickAcceptNode
    <3>3. Diff((now + duration) % ClockMod, now) = duration
      <4>1. duration < ClockMod
        BY <3>1
      <4> QED
        BY <4>1, DiffAhead
    <3> QED
      BY <1>5, <3>1, <3>2, <3>3 DEF TickAcceptNode, BeginTimed
  <2>4. CASE AcceptFinal
    BY <1>5, <2>4 DEF TickAcceptNode, AcceptFinal, FinishPath
  <2> QED
    BY <2>1, <2>2, <2>3, <2>4
<1>6. CASE TickLineFollow
  BY <1>6 DEF TickLineFollow
<1>7. CASE MBegin
  BY <1>7 DEF MBegin
<1>8. CASE MWaitCamera
  BY <1>8 DEF MWaitCamera
<1>9. CASE MStartPathDenied
  BY <1>9 DEF MStartPathDenied
<1>10. CASE MStartPath
  BY <1>10 DEF MStartPath
<1>11. CASE MFollow
  BY <1>11 DEF MFollow
<1>12. CASE MFollowCamera
  BY <1>12 DEF MFollowCamera
<1>13. CASE MFollowTime
  BY <1>13 DEF MFollowTime
<1>14. CASE MFollowWake
  BY <1>14 DEF MFollowWake
<1>15. CASE MPanel
  BY <1>15 DEF MPanel
<1>16. CASE MStop
  BY <1>16 DEF MStop, TrackStop
<1>17. CASE UpdateCamera
  BY <1>17 DEF UpdateCamera
<1>18. CASE UAbort
  BY <1>18 DEF UAbort
<1>19. CASE UTrackStop
  BY <1>19 DEF UTrackStop, TrackStop
<1>20. CASE LatchMotionFault
  BY <1>20 DEF LatchMotionFault
<1>21. CASE Clock
  <2>1. /\ UNCHANGED <<active_action, action_end_ms, action_active>>
        /\ now' = (now + 1) % ClockMod
        /\ action_active => action_age' = action_age + 1
    BY <1>21 DEF Clock
  <2>2. Diff(action_end_ms, now') = IF Diff(action_end_ms, now) = 0 THEN ClockMod - 1
                                    ELSE Diff(action_end_ms, now) - 1
    BY <2>1, DiffNext
  <2>3. Duration' = Duration /\ Duration \in Nat
    BY <2>1
  <2> QED
    BY <2>1, <2>2, <2>3 DEF EndAhead
<1>22. CASE UNCHANGED vars
  BY <1>22 DEF vars
<1> QED
  BY <1>1, <1>2, <1>3, <1>4, <1>5, <1>6, <1>7, <1>8, <1>9, <1>10, <1>11, <1>12,
     <1>13, <1>14, <1>15, <1>16, <1>17, <1>18, <1>19, <1>20, <1>21, <1>22
     DEF Next, ControlNext, MissionNext

\* What the code takes for a recent frame.
LEMMA RecentIsFresh ==
  ASSUME DataOK, FrameAge, FrameRecent(Stale)
  PROVE  camera.kind # "narrow" /\ FreshAge
<1>1. camera.kind # "narrow" /\ Diff(now, camera.tick) <= Stale
  BY SinceIs DEF FrameRecent
<1> QED
  BY <1>1, ClockPositive, PositiveTimes DEF DataOK, FrameAge, FreshAge

\* Only a tick that has seen a fresh frame leaves the vehicle on the line.
LEMMA LineSeenStep ==
  ASSUME DataOK, Places, FrameAge, LineSeen, [Next]_vars
  PROVE  LineSeen'
<1> USE DEF Places, LineSeen, FreshAge, MGoto, MissionSleeps, trackVars, missionVars, cameraVars, controlFrame, missionFrame
<1>1. CASE TickNotRunning
  BY <1>1 DEF TickNotRunning
<1>2. CASE TickActionGoesOn
  BY <1>2 DEF TickActionGoesOn
<1>3. CASE TickFinishDelayOver
  BY <1>3 DEF TickFinishDelayOver, FinishPath
<1>4. CASE TickTurnOver
  BY <1>4 DEF TickTurnOver
<1>5. CASE TickAcceptNode
  <2>0. FrameRecent(Stale) => camera.kind # "narrow" /\ FreshAge
    BY RecentIsFresh
  <2>1. AcceptForward \/ AcceptTimed \/ AcceptFinal
    BY <1>5, AcceptIs
  <2>2. CASE AcceptForward
    BY <1>5, <2>2, <2>0 DEF TickAcceptNode, NodeSeen, AcceptForward
  <2>3. CASE AcceptTimed
    BY <1>5, <2>3, <2>0 DEF TickAcceptNode, NodeSeen, AcceptTimed, BeginTimed
  <2>4. CASE AcceptFinal
    BY <1>5, <2>4, <2>0 DEF TickAcceptNode, NodeSeen, AcceptFinal, FinishPath
  <2> QED
    BY <2>1, <2>2, <2>3, <2>4
<1>6. CASE TickLineFollow
  <2>0. FrameRecent(Stale) => camera.kind # "narrow" /\ FreshAge
    BY RecentIsFresh
  <2> QED
    BY <1>6, <2>0 DEF TickLineFollow
<1>7. CASE MBegin
  BY <1>7 DEF MBegin
<1>8. CASE MWaitCamera
  BY <1>8 DEF MWaitCamera
<1>9. CASE MStartPathDenied
  BY <1>9 DEF MStartPathDenied
<1>10. CASE MStartPath
  BY <1>10 DEF MStartPath
<1>11. CASE MFollow
  BY <1>11 DEF MFollow
<1>12. CASE MFollowCamera
  BY <1>12 DEF MFollowCamera
<1>13. CASE MFollowTime
  BY <1>13 DEF MFollowTime
<1>14. CASE MFollowWake
  BY <1>14 DEF MFollowWake
<1>15. CASE MPanel
  BY <1>15 DEF MPanel
<1>16. CASE MStop
  BY <1>16 DEF MStop, TrackStop
<1>17. CASE UpdateCamera
  BY <1>17 DEF UpdateCamera
<1>18. CASE UAbort
  BY <1>18 DEF UAbort
<1>19. CASE UTrackStop
  BY <1>19 DEF UTrackStop, TrackStop
<1>20. CASE LatchMotionFault
  BY <1>20 DEF LatchMotionFault
<1>21. CASE Clock
  BY <1>21 DEF Clock
<1>22. CASE UNCHANGED vars
  BY <1>22 DEF vars
<1> QED
  BY <1>1, <1>2, <1>3, <1>4, <1>5, <1>6, <1>7, <1>8, <1>9, <1>10, <1>11, <1>12,
     <1>13, <1>14, <1>15, <1>16, <1>17, <1>18, <1>19, <1>20, <1>21, <1>22
     DEF Next, ControlNext, MissionNext

-----------------------------------------------------------------------------
(* The theorems.                                                           *)

\* The invariant holds initially.
LEMMA InitInv == Init => FlagsOK /\ IInv
<1> SUFFICES ASSUME Init PROVE FlagsOK /\ IInv
  OBVIOUS
<1>1. FlagsOK
  BY Zenon DEF Init, FlagsOK
<1>2. DataOK /\ OnPath
  <2>1. << >> \in Seq(Actions) /\ Len(<< >>) = 0 /\ path = << >>
    BY DEF Init
  <2>2. DataOK
    BY <2>1, ZeroTime, ClockPositive DEF Init, DataOK, Actions
  <2> QED
    BY <2>1, <2>2, GridAssumption DEF Init, OnPath
<1>3. Places /\ Legs /\ FrameAge /\ InTime /\ HitsSpaced /\ EndAhead /\ LineSeen
  BY DEF Init, Places, Legs, FrameAge, InTime, HitsSpaced, EndAhead, LineSeen, FollowPlaces
<1>4. FrameHitsBounded
  <2>1. Stale \div Cooldown \in Nat
    BY PositiveTimes
  <2> QED
    BY <2>1 DEF Init, FrameHitsBounded
<1> QED
  BY <1>1, <1>2, <1>3, <1>4 DEF IInv

\* Every step keeps it.
LEMMA NextInv == ASSUME FlagsOK, IInv, [Next]_vars PROVE (FlagsOK /\ IInv)'
BY FlagsStep, DataStep, PlacesStep, OnPathStep, LegsStep, FrameAgeStep, InTimeStep, HitsStep,
   EndAheadStep, LineSeenStep DEF IInv

\* The invariant of the track follower.
THEOREM Invariance == Spec => [](FlagsOK /\ IInv)
BY InitInv, NextInv, PTL DEF Spec

\* No path runs without the motors being stopped after it, and a finished path has been
\* walked to its last step and has taken the vehicle where it leads.
THEOREM PathEndsHolds == Spec => []PathEndsCleanly
<1>1. IInv => PathEndsCleanly
  BY DEF IInv, Places, OnPath, PathEndsCleanly
<1> QED
  BY Invariance, <1>1, PTL

\* The follow loop never waits for a path that somebody else has stopped, unless abort
\* tells it; and the variables keep their types.
THEOREM FollowHasPathHolds == Spec => []FollowHasPath
<1>1. FlagsOK /\ IInv => FollowHasPath
  BY DEF IInv, Places, FollowPlaces, FollowHasPath, TypeOK
<1> QED
  BY Invariance, <1>1, PTL

\* The way home retraces the way to the panel, for every grid and every panel.
THEOREM WayHomeHolds == Spec => []WayHomeRetraces
<1>1. IInv => WayHomeRetraces
  <2> SUFFICES ASSUME IInv, running, leg = "return"
               PROVE  LET out == BuildToTarget(target)
                      IN path = <<"UTURN">> \o Retrace(SubSeq(out, 1, Len(out) - 1))
                                  \o <<"FINISH_DELAY">>
    BY DEF WayHomeRetraces
  <2>1. target \in Panels /\ path = BuildReturnHome(target)
    BY GridAssumption DEF IInv, Legs, Panels
  <2> QED
    BY <2>1, HomeIsRetrace
<1> QED
  BY Invariance, <1>1, PTL

\* A camera frame is taken for a node at most once per cooldown of its fresh life.
THEOREM FrameHitsHolds == Spec => []FrameHitsBounded
<1>1. IInv => FrameHitsBounded
  BY DEF IInv
<1> QED
  BY Invariance, <1>1, PTL

\* Every path fits into planned_path, and when a node is accepted there is a step left
\* for it: the error returns of the planner and of hcics_track_accept_node are never taken.
THEOREM PathFits ==
  Spec => [](Len(path) <= MaxPathSteps /\ (running /\ ~action_active => path_index < Len(path)))
<1>1. IInv => Len(path) <= MaxPathSteps /\ (running /\ ~action_active => path_index < Len(path))
  BY DEF IInv, OnPath
<1> QED
  BY Invariance, <1>1, PTL

\* The test of the end of an action is false until the action has lasted its time, also
\* when its end lies beyond the wrap of the clock.
LEMMA NotReached ==
  ASSUME DataOK, EndAhead, action_active, action_age < Duration
  PROVE  ~Reached(action_end_ms)
<1>1. Duration \in Nat /\ 2 * Duration < ClockMod /\ action_age \in Nat
  BY PositiveTimes DEF Duration, DataOK
<1>2. Diff(action_end_ms, now) = Duration - action_age
  BY DEF EndAhead
<1>3. Diff(now, action_end_ms) = ClockMod - (Duration - action_age)
  BY <1>1, <1>2, DiffBack DEF DataOK
<1>4. Since(action_end_ms) = ClockMod - (Duration - action_age)
  BY <1>3, SinceIs
<1>5. 2 * (ClockMod \div 2) <= ClockMod /\ ClockMod \div 2 \in Nat
  BY ClockPositive
<1> QED
  BY <1>1, <1>4, <1>5, ClockPositive DEF Reached

\* A step that ends a timed action, but for a stop, is a tick after the action's time.
LEMMA NotCutStep ==
  ASSUME IInv, [Next]_vars, action_active, ~action_active', running' \/ finished'
  PROVE  action_age >= IF active_action = "FINISH_DELAY" THEN FinishTime ELSE TurnTime
<1>1. Reached(action_end_ms) => action_age >= Duration
  BY NotReached, PositiveTimes DEF IInv, DataOK, Duration
<1> SUFFICES Reached(action_end_ms)
  BY <1>1 DEF Duration
<1> USE DEF trackVars, missionVars, cameraVars, controlFrame, missionFrame
<1>2. CASE TickNotRunning
  BY <1>2 DEF TickNotRunning
<1>3. CASE TickActionGoesOn
  BY <1>3 DEF TickActionGoesOn
<1>4. CASE TickFinishDelayOver
  BY <1>4 DEF TickFinishDelayOver
<1>5. CASE TickTurnOver
  BY <1>5 DEF TickTurnOver
<1>6. CASE TickAcceptNode
  BY <1>6 DEF TickAcceptNode
<1>7. CASE TickLineFollow
  BY <1>7 DEF TickLineFollow
<1>8. CASE MBegin
  BY <1>8 DEF MBegin
<1>9. CASE MWaitCamera
  BY <1>9 DEF MWaitCamera
<1>10. CASE MStartPathDenied
  BY <1>10 DEF MStartPathDenied
<1>11. CASE MStartPath
  BY <1>11 DEF MStartPath, IInv, Places, FollowPlaces
<1>12. CASE MFollow
  BY <1>12 DEF MFollow
<1>13. CASE MFollowCamera
  BY <1>13 DEF MFollowCamera
<1>14. CASE MFollowTime
  BY <1>14 DEF MFollowTime
<1>15. CASE MFollowWake
  BY <1>15 DEF MFollowWake
<1>16. CASE MPanel
  BY <1>16 DEF MPanel
<1>17. CASE MStop
  BY <1>17 DEF MStop, TrackStop
<1>18. CASE UpdateCamera
  BY <1>18 DEF UpdateCamera
<1>19. CASE UAbort
  BY <1>19 DEF UAbort
<1>20. CASE UTrackStop
  BY <1>20 DEF UTrackStop, TrackStop
<1>21. CASE LatchMotionFault
  BY <1>21 DEF LatchMotionFault
<1>22. CASE Clock
  BY <1>22 DEF Clock
<1>23. CASE UNCHANGED vars
  BY <1>23 DEF vars
<1> QED
  BY <1>2, <1>3, <1>4, <1>5, <1>6, <1>7, <1>8, <1>9, <1>10, <1>11, <1>12,
     <1>13, <1>14, <1>15, <1>16, <1>17, <1>18, <1>19, <1>20, <1>21, <1>22, <1>23
     DEF Next, ControlNext, MissionNext

\* Timed actions are not cut short by a wrap of the clock or by a node.
THEOREM TurnsNotCutHolds == Spec => TurnsNotCut
<1>1. IInv /\ [Next]_vars =>
        [action_active /\ ~action_active' /\ (running' \/ finished')
           => action_age >= IF active_action = "FINISH_DELAY" THEN FinishTime
                            ELSE TurnTime]_vars
  BY NotCutStep
<1> QED
  BY Invariance, <1>1, PTL DEF Spec, TurnsNotCut

\* No unit of time passes on the line without a frame that is fresh or older by whole rounds
\* of the clock: only the clock moves time, it waits for the control thread, and a tick
\* without such a frame leaves the line.
THEOREM NeverBlindHolds == Spec => NeverBlind
<1>1. ASSUME IInv, Next, now' # now
      PROVE  motor = "line" => camera.kind # "narrow" /\ FreshAge
  <2>1. Clock
    BY <1>1 DEF Next, ControlNext, MissionNext, controlFrame, missionFrame, cameraVars,
       missionVars, trackVars, TickNotRunning, TickActionGoesOn, TickFinishDelayOver,
       TickTurnOver, TickAcceptNode, TickLineFollow, MBegin, MWaitCamera, MStartPathDenied,
       MStartPath, MFollow, MFollowCamera, MFollowTime, MFollowWake, MPanel, MStop,
       UpdateCamera, UAbort, UTrackStop, LatchMotionFault
  <2> QED
    BY <1>1, <2>1 DEF Clock, IInv, LineSeen
<1>2. IInv /\ [Next]_vars =>
        [now' # now /\ motor = "line"
           => /\ camera.kind # "narrow"
              /\ frame_age \in 0 .. Stale \cup ClockMod .. ClockMod + Stale]_vars
  BY <1>1 DEF FreshAge
<1> QED
  BY Invariance, <1>2, PTL DEF Spec, NeverBlind
=============================================================================
