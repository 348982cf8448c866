---------------------------- MODULE FcLoop_proofs ----------------------------
(* Theorems about the main loop of fc_app, for every value of the constants. *)
EXTENDS FcLoop, TLAPS

-----------------------------------------------------------------------------
(* The sets a controller's fields range over, kept folded in the proofs.   *)

LEMMA FieldTypes ==
    /\ Modes = {"Manual", "Tracking", "LandSafely", "Takeoff"}
    /\ "mid" \in Sticks /\ "setpoint" \in Sticks /\ "search" \in Sticks /\ "follow" \in Sticks
    /\ 0 \in LandTimes /\ 0 \in TakeoffTimes
    /\ 0 \in TrackAges /\ TrackTimeout + 1 \in TrackAges
    /\ ThrMin \in Throttles /\ ThrSpool \in Throttles /\ ThrLandMin \in Throttles
    /\ "Searching" \in TrackStates /\ "Tracking" \in TrackStates
BY ThrottleAssumption, TimeAssumption
DEF Modes, Sticks, LandTimes, TakeoffTimes, TakeoffTime, TrackAges, Throttles, TrackStates

LEMMA ClampType ==
    ASSUME NEW x \in Int, NEW lo \in Throttles, NEW hi \in Throttles, lo <= hi
    PROVE  Clamp(x, lo, hi) \in Throttles
BY ThrottleAssumption DEF Clamp, Least, Greatest, Throttles

LEMMA NewControllerType ==
    ASSUME NEW h \in Hovers
    PROVE  NewController(h) \in Controller
BY FieldTypes DEF NewController, Controller, TrackMsgs

\* SetControlMode returns a controller in the mode asked for.
LEMMA SetControlModeType ==
    ASSUME NEW c \in Controller, NEW mode \in Modes
    PROVE  /\ SetControlMode(c, mode) \in Controller
           /\ SetControlMode(c, mode).mode = mode
           /\ SetControlMode(c, mode).hover = c.hover
           /\ (c.mode = "Manual" => c.sticks # "follow")
                 => (mode = "Manual" => SetControlMode(c, mode).sticks # "follow")
<1>1. CASE mode = c.mode
  BY <1>1 DEF SetControlMode
<1>2. CASE mode # c.mode /\ mode = "Manual"
  <2>1. (IF c.armed THEN Greatest(c.hover, ThrMin) ELSE ThrMin) \in Throttles
    BY ThrottleAssumption DEF Greatest, Controller, Hovers, Throttles
  <2>2. /\ EnterManual(c) \in Controller
        /\ EnterManual(c).hover = c.hover
        /\ EnterManual(c).sticks = "mid"
    BY <2>1, FieldTypes DEF EnterManual, Controller
  <2>3. /\ SetControlMode(c, mode).mode = mode
        /\ SetControlMode(c, mode).hover = EnterManual(c).hover
        /\ SetControlMode(c, mode).sticks = EnterManual(c).sticks
    BY <1>2, <2>2 DEF SetControlMode, Controller
  <2>4. SetControlMode(c, mode) \in Controller
    BY <1>2, <2>2, FieldTypes DEF SetControlMode, Controller
  <2>5. QED
    BY <2>2, <2>3, <2>4
<1>3. CASE mode # c.mode /\ mode # "Manual"
  BY <1>3, FieldTypes DEF SetControlMode, Controller
<1>4. QED
  BY <1>1, <1>2, <1>3

LEMMA DescendType ==
    ASSUME NEW c \in Controller, NEW d \in Nat
    PROVE  LET r == Descend(c, d)
           IN  /\ r \in Controller
               /\ r.mode = c.mode /\ r.hover = c.hover
               /\ r.landTimer = DisarmTime => ~r.armed
               /\ r.sticks = "mid"
<1> DEFINE timer == Least(c.landTimer + d, DisarmTime)
           thr   == IF timer >= DisarmTime THEN ThrMin
                    ELSE Clamp(c.landStart - LandRate * timer, ThrLandMin, ThrMax)
<1>1. timer \in LandTimes /\ timer \in Int
  BY TimeAssumption DEF Least, Controller, LandTimes
<1>2. thr \in Throttles
  <2> HIDE DEF timer
  <2>1. LandRate * timer \in Int
    BY <1>1, TimeAssumption
  <2>2. c.landStart - LandRate * timer \in Int
    BY <2>1, ThrottleAssumption DEF Controller, Throttles
  <2>3. ThrMax \in Throttles /\ ThrLandMin <= ThrMax
    BY ThrottleAssumption DEF Throttles
  <2>4. QED
    BY <2>2, <2>3, ClampType, FieldTypes
<1>3. PICK arm \in BOOLEAN : arm <=> ~(timer >= DisarmTime)
  OBVIOUS
<1>4. Descend(c, d) =
         [c EXCEPT !.landTimer = timer, !.altHold = FALSE, !.sticks = "mid",
                   !.armed = arm, !.telState = "Searching", !.thr = thr]
  BY <1>3, Zenon DEF Descend
<1>5. timer = DisarmTime => ~arm
  BY <1>3, TimeAssumption
<1> HIDE DEF timer, thr
<1>6. Descend(c, d) =
         [mode |-> c.mode, armed |-> arm, thr |-> thr, altHold |-> FALSE,
          sticks |-> "mid", hover |-> c.hover,
          landInit |-> c.landInit, landTimer |-> timer, landStart |-> c.landStart,
          takeoffInit |-> c.takeoffInit, takeoffTimer |-> c.takeoffTimer,
          trackAge |-> c.trackAge, trackMsg |-> c.trackMsg, telState |-> "Searching"]
  BY <1>4 DEF Controller
<1>7. Descend(c, d) \in Controller
  BY <1>1, <1>2, <1>6, FieldTypes DEF Controller
<1>8. /\ Descend(c, d).mode = c.mode /\ Descend(c, d).hover = c.hover
      /\ Descend(c, d).landTimer = timer /\ Descend(c, d).sticks = "mid"
      /\ Descend(c, d).armed = arm
  BY <1>6
<1>9. QED
  BY <1>5, <1>7, <1>8

LEMMA RunLandSafelyType ==
    ASSUME NEW c \in Controller, NEW d \in Nat, c.mode = "LandSafely"
    PROVE  LET r == RunLandSafely(c, d)
           IN  /\ r \in Controller
               /\ r.mode = "LandSafely"
               /\ r.hover = c.hover
               /\ r.landTimer = DisarmTime => ~r.armed
               /\ r.armed => r.sticks = "mid"
<1> DEFINE b == BeginLanding(c)
<1>1. LandStart(c) \in Throttles
  BY ThrottleAssumption DEF LandStart, Greatest, Least, Controller, Hovers, Throttles
<1>2. /\ b \in Controller
      /\ b.mode = "LandSafely"
      /\ b.hover = c.hover
      /\ b.armed = c.armed
  BY <1>1, FieldTypes DEF BeginLanding, Controller
<1> HIDE DEF b
<1>3. CASE ~b.armed
  <2>1. RunLandSafely(c, d) = [b EXCEPT !.thr = ThrMin, !.telState = "Searching"]
    BY <1>3 DEF RunLandSafely, b
  <2>2. RunLandSafely(c, d) \in Controller
    BY <1>2, <2>1, FieldTypes DEF Controller
  <2>3. /\ RunLandSafely(c, d).mode = b.mode /\ RunLandSafely(c, d).hover = b.hover
        /\ RunLandSafely(c, d).armed = b.armed
    BY <1>2, <2>1 DEF Controller
  <2>4. QED
    BY <1>2, <1>3, <2>2, <2>3
<1>4. CASE b.armed
  <2>1. RunLandSafely(c, d) = Descend(b, d)
    BY <1>4 DEF RunLandSafely, b
  <2>2. QED
    BY <1>2, <2>1, DescendType
<1>5. QED
  BY <1>3, <1>4

LEMMA DivBound ==
    ASSUME NEW a \in Nat, NEW n \in Nat \ {0}, NEW b \in Nat, NEW t \in Nat,
           t < n, a = b * t
    PROVE  a \div n \in 0 .. b
<1> DEFINE q == a \div n
<1>1. q \in Nat /\ q * n <= a
  OBVIOUS
<1> HIDE DEF q
<1>2. b * t <= b * n
  OBVIOUS
<1>3. ASSUME q >= b + 1 PROVE FALSE
  <2>1. q * n >= (b + 1) * n
    BY <1>1, <1>3
  <2>2. (b + 1) * n = b * n + n
    OBVIOUS
  <2>3. QED
    BY <1>1, <1>2, <2>1, <2>2
<1>4. QED
  BY <1>1, <1>3 DEF q

LEMMA TakeoffThrottleType ==
    ASSUME NEW c \in Controller, NEW timer \in Nat, c.hover # 0
    PROVE  TakeoffThrottle(c, timer) \in Throttles
<1>1. CASE timer < SpoolTime
  BY <1>1, FieldTypes DEF TakeoffThrottle
<1>2. CASE ~(timer < SpoolTime) /\ timer - SpoolTime < RampTime
  <2> DEFINE t == timer - SpoolTime
             b == ThrTakeoffTarget - ThrSpool
  <2>1. t \in Nat /\ t < RampTime /\ b \in Nat
    BY <1>2, ThrottleAssumption, TimeAssumption
  <2>2. (b * t) \div RampTime \in 0 .. b
    <3> HIDE DEF t, b
    <3>1. b * t \in Nat
      BY <2>1
    <3>2. QED
      BY <2>1, <3>1, DivBound, TimeAssumption
  <2>3. TakeoffThrottle(c, timer) = ThrSpool + (b * t) \div RampTime
    BY <1>2 DEF TakeoffThrottle, TakeoffRamp
  <2>4. QED
    BY <2>2, <2>3, ThrottleAssumption DEF Throttles
<1>3. CASE ~(timer < SpoolTime) /\ ~(timer - SpoolTime < RampTime)
  BY <1>3, ThrottleAssumption DEF TakeoffThrottle, Controller, Hovers, Throttles
<1>4. QED
  BY <1>1, <1>2, <1>3

\* A landing forced by a mode that needs the hover throttle and has none.
LEMMA LandUncalibratedType ==
    ASSUME NEW c \in Controller, NEW d \in Nat
    PROVE  LET r == RunLandSafely(SetControlMode(c, "LandSafely"), d)
           IN  /\ r \in Controller
               /\ r.mode = "LandSafely"
               /\ r.hover = c.hover
               /\ r.landTimer = DisarmTime => ~r.armed
               /\ r.armed => r.sticks = "mid"
<1> DEFINE l == SetControlMode(c, "LandSafely")
<1>1. l \in Controller /\ l.mode = "LandSafely" /\ l.hover = c.hover
  BY SetControlModeType, FieldTypes
<1>2. l.armed = c.armed
  BY DEF SetControlMode, Controller
<1> HIDE DEF l
<1>3. QED
  BY <1>1, <1>2, RunLandSafelyType DEF l

-----------------------------------------------------------------------------
(* What one time step guarantees of the controller it returns.             *)

StepOK(c, r) ==
    /\ r \in Controller /\ r.hover = c.hover
    /\ r.mode \in MspModes => c.mode \in MspModes
    /\ c.mode = "LandSafely" => r.mode = "LandSafely"
    /\ r.mode = "LandSafely" /\ r.landTimer = DisarmTime => ~r.armed
    /\ r.mode = "Manual" => c.mode = "Manual" /\ r.sticks = c.sticks
    /\ r.armed /\ r.sticks = "follow" /\ r.mode # "Manual" =>
          /\ r.mode = "Tracking"
          /\ ~TrackStale(r)
          /\ r.trackMsg.state = "Tracking" /\ r.trackMsg.confident

LEMMA LandStep ==
    ASSUME NEW c \in Controller, NEW d \in Nat
    PROVE  /\ c.mode = "LandSafely" => StepOK(c, RunLandSafely(c, d))
           /\ StepOK(c, RunLandSafely(SetControlMode(c, "LandSafely"), d))
BY RunLandSafelyType, LandUncalibratedType DEF StepOK, MspModes

LEMMA ManualStep ==
    ASSUME NEW c \in Controller, c.mode = "Manual"
    PROVE  StepOK(c, RunManual(c))
<1>1. /\ RunManual(c) \in Controller
      /\ RunManual(c).hover = c.hover
      /\ RunManual(c).mode = "Manual"
      /\ RunManual(c).sticks = c.sticks
  BY FieldTypes DEF RunManual, Controller
<1>2. QED
  BY <1>1 DEF StepOK, MspModes

LEMMA TakeoffStep ==
    ASSUME NEW c \in Controller, NEW d \in Nat, c.mode = "Takeoff"
    PROVE  StepOK(c, RunTakeoff(c, d))
<1>1. CASE c.hover = 0
  BY <1>1, LandStep DEF RunTakeoff
<1>2. CASE c.hover # 0
  <2> DEFINE timer == (IF c.takeoffInit THEN c.takeoffTimer ELSE 0) + d
             thr   == TakeoffThrottle(c, timer)
             flown(t) == [c EXCEPT !.takeoffInit = TRUE, !.takeoffTimer = t,
                                   !.armed = TRUE, !.altHold = TRUE, !.sticks = "mid",
                                   !.thr = thr, !.telState = "Searching"]
  <2>1. timer \in Nat
    BY TimeAssumption DEF Controller, TakeoffTimes, TakeoffTime
  <2> HIDE DEF timer
  <2>2. thr \in Throttles
    BY <1>2, <2>1, TakeoffThrottleType
  <2> HIDE DEF thr
  <2>3. CASE timer <= TakeoffTime
    <3>1. timer \in TakeoffTimes
      BY <2>1, <2>3, TimeAssumption DEF TakeoffTimes, TakeoffTime
    <3>2. RunTakeoff(c, d) = flown(timer)
      BY <1>2, <2>1, <2>3, TimeAssumption DEF RunTakeoff, timer, thr, TakeoffTime
    <3>3. RunTakeoff(c, d) =
             [mode |-> c.mode, armed |-> TRUE, thr |-> thr, altHold |-> TRUE,
              sticks |-> "mid", hover |-> c.hover,
              landInit |-> c.landInit, landTimer |-> c.landTimer, landStart |-> c.landStart,
              takeoffInit |-> TRUE, takeoffTimer |-> timer,
              trackAge |-> c.trackAge, trackMsg |-> c.trackMsg, telState |-> "Searching"]
      BY <3>2 DEF Controller
    <3>4. RunTakeoff(c, d) \in Controller
      BY <2>2, <3>1, <3>3, FieldTypes DEF Controller
    <3>5. QED
      BY <3>3, <3>4 DEF StepOK, MspModes
  <2>4. CASE timer > TakeoffTime
    <3>1. RunTakeoff(c, d) = SetControlMode(flown(timer), "Tracking")
      BY <1>2, <2>4 DEF RunTakeoff, timer, thr
    <3>2. RunTakeoff(c, d) =
             [flown(0) EXCEPT !.mode = "Tracking", !.landInit = FALSE, !.landTimer = 0,
                              !.takeoffInit = FALSE, !.takeoffTimer = 0]
      BY <3>1 DEF SetControlMode, Controller
    <3>3. /\ flown(0) \in Controller
          /\ flown(0).hover = c.hover /\ flown(0).sticks = "mid"
      BY <2>2, FieldTypes DEF Controller
    <3> HIDE DEF flown
    <3>4. /\ RunTakeoff(c, d) \in Controller
          /\ RunTakeoff(c, d).hover = c.hover
          /\ RunTakeoff(c, d).mode = "Tracking"
          /\ RunTakeoff(c, d).sticks = "mid"
      BY <3>2, <3>3, FieldTypes DEF Controller
    <3>5. QED
      BY <3>4 DEF StepOK, MspModes
  <2>5. QED
    BY <2>1, <2>3, <2>4, TimeAssumption DEF TakeoffTime
<1>3. QED
  BY <1>1, <1>2

LEMMA TrackingStep ==
    ASSUME NEW c \in Controller, NEW d \in Nat, NEW t \in ThrMin .. ThrAltHoldMax,
           c.mode = "Tracking"
    PROVE  StepOK(c, RunTracking(c, d, t))
<1>1. CASE c.hover = 0
  BY <1>1, LandStep DEF RunTracking
<1>2. ASSUME c.hover # 0 PROVE StepOK(c, RunTracking(c, d, t))
  <2>1. c.hover \in Throttles /\ t \in Throttles
    BY <1>2, ThrottleAssumption DEF Controller, Hovers, Throttles
  <2>2. StepOK(c, HoverSearch(c))
    <3>1. /\ HoverSearch(c) \in Controller
          /\ HoverSearch(c).hover = c.hover
          /\ HoverSearch(c).mode = "Tracking"
          /\ HoverSearch(c).sticks = "search"
      BY <2>1, FieldTypes DEF HoverSearch, Controller
    <3>2. QED
      BY <3>1 DEF StepOK, MspModes
  <2>3. StepOK(c, HoverStill(c, c.trackMsg.state))
    <3>1. c.trackMsg.state \in TrackStates
      BY DEF Controller, TrackMsgs
    <3>2. /\ HoverStill(c, c.trackMsg.state) \in Controller
          /\ HoverStill(c, c.trackMsg.state).hover = c.hover
          /\ HoverStill(c, c.trackMsg.state).mode = "Tracking"
          /\ HoverStill(c, c.trackMsg.state).sticks = "mid"
      BY <2>1, <3>1, FieldTypes DEF HoverStill, Controller
    <3>3. QED
      BY <3>2 DEF StepOK, MspModes
  <2>4. ASSUME ~TrackStale(c), c.trackMsg.state = "Tracking", c.trackMsg.confident
        PROVE  StepOK(c, FollowTarget(c, t))
    <3>1. /\ FollowTarget(c, t) \in Controller
          /\ FollowTarget(c, t).hover = c.hover
          /\ FollowTarget(c, t).mode = "Tracking"
          /\ FollowTarget(c, t).trackAge = c.trackAge
          /\ FollowTarget(c, t).trackMsg = c.trackMsg
      BY <2>1, FieldTypes DEF FollowTarget, Controller
    <3>2. QED
      BY <2>4, <3>1 DEF StepOK, MspModes, TrackStale
  <2>5. QED
    BY <1>2, <2>2, <2>3, <2>4 DEF RunTracking
<1>3. QED
  BY <1>1, <1>2

\* The two closing lines of updateTimeStep: idle when disarmed, clamp.
LEMMA FinishStep ==
    ASSUME NEW c \in Controller, NEW r, StepOK(c, r)
    PROVE  LET f == ClampChannels(CutIfDisarmed(r))
           IN  StepOK(c, f) /\ (~f.armed => f.thr = ThrMin)
<1> DEFINE k == CutIfDisarmed(r)
           f == ClampChannels(k)
<1>1. r \in Controller
  BY DEF StepOK
<1>2. CASE r.armed
  <2>1. k = r
    BY <1>2 DEF CutIfDisarmed
  <2>2. Clamp(r.thr, ThrMin, ThrMax) = r.thr
    BY <1>1, ThrottleAssumption DEF Clamp, Least, Greatest, Controller, Throttles
  <2>3. f = r
    BY <1>1, <2>1, <2>2 DEF ClampChannels, Controller
  <2>4. QED
    BY <1>2, <2>3
<1>3. CASE ~r.armed
  <2>1. Clamp(ThrMin, ThrMin, ThrMax) = ThrMin
    BY ThrottleAssumption DEF Clamp, Least, Greatest
  <2>2. f = [r EXCEPT !.thr = ThrMin]
    BY <1>1, <1>3, <2>1 DEF CutIfDisarmed, ClampChannels, Controller
  <2>3. f \in Controller
    BY <1>1, <2>2, FieldTypes DEF Controller
  <2>4. /\ f.mode = r.mode /\ f.hover = r.hover /\ f.sticks = r.sticks
        /\ f.landTimer = r.landTimer /\ f.thr = ThrMin
    BY <1>1, <2>2 DEF Controller
  <2>5. ~f.armed
    BY <1>1, <1>3, <2>2 DEF Controller
  <2> HIDE DEF f
  <2>6. StepOK(c, f)
    BY <2>3, <2>4, <2>5 DEF StepOK
  <2>7. QED
    BY <2>4, <2>5, <2>6 DEF f
<1>4. QED
  BY <1>2, <1>3

LEMMA ModeStep ==
    ASSUME NEW c \in Controller, NEW d \in Nat, NEW t \in ThrMin .. ThrAltHoldMax
    PROVE  StepOK(c, RunMode(c, d, t))
<1>1. CASE c.mode = "Manual"
  BY <1>1, ManualStep DEF RunMode
<1>2. CASE c.mode = "Tracking"
  BY <1>2, TrackingStep DEF RunMode
<1>3. CASE c.mode = "LandSafely"
  BY <1>3, LandStep DEF RunMode
<1>4. CASE c.mode = "Takeoff"
  BY <1>4, TakeoffStep DEF RunMode
<1>5. QED
  BY <1>1, <1>2, <1>3, <1>4, FieldTypes DEF Controller

LEMMA UpdateTimeStepOK ==
    ASSUME NEW c \in Controller, NEW e \in Nat, NEW t \in ThrMin .. ThrAltHoldMax
    PROVE  LET f == UpdateTimeStep(c, e, t)
           IN  StepOK(c, f) /\ (~f.armed => f.thr = ThrMin)
<1> DEFINE d    == Least(e, MaxControlDt)
           age  == Least(c.trackAge + d, TrackTimeout + 1)
           aged == [c EXCEPT !.trackAge = age]
           r    == RunMode(aged, d, t)
<1>1. d \in Nat
  BY TimeAssumption DEF Least
<1>2. age \in TrackAges
  BY <1>1, TimeAssumption DEF Least, Controller, TrackAges
<1> HIDE DEF d, age
<1>3. /\ aged \in Controller
      /\ aged.mode = c.mode /\ aged.hover = c.hover /\ aged.sticks = c.sticks
  BY <1>2 DEF Controller
<1> HIDE DEF aged
<1>4. StepOK(aged, r)
  BY <1>1, <1>3, ModeStep
<1> HIDE DEF r
<1>5. StepOK(c, r)
  BY <1>3, <1>4 DEF StepOK
<1>6. UpdateTimeStep(c, e, t) = ClampChannels(CutIfDisarmed(r))
  BY DEF UpdateTimeStep, r, aged, age, d
<1>7. QED
  BY <1>5, <1>6, FinishStep
-----------------------------------------------------------------------------
(* What applying a CMD guarantees.                                         *)

LEMMA ApplyCmdOK ==
    ASSUME TypeOK, NEW p \in Payload
    PROVE  LET r == ApplyCmd(fc, p)
           IN  /\ r \in Controller /\ r.hover = fc.hover
               /\ r.mode \in MspModes =>
                     fc.mode \in MspModes \/ (sinkOk /\ ~mismatch /\ fc.hover # 0)
               /\ (fc.mode = "Manual" => fc.sticks # "follow")
                     => (r.mode = "Manual" => r.sticks # "follow")
<1> DEFINE m == ApplyMode(fc, p.mode)
           a == ApplyArm(m, p.arm)
           s == SetManualSetpoints(a, p.axes, p.thr)
           r == ApplyTracking(s, p.track)
<1>1. fc \in Controller
  BY DEF TypeOK
<1>2. /\ m \in Controller /\ m.hover = fc.hover
      /\ m.mode \in MspModes =>
            fc.mode \in MspModes \/ (sinkOk /\ ~mismatch /\ fc.hover # 0)
      /\ (fc.mode = "Manual" => fc.sticks # "follow")
            => (m.mode = "Manual" => m.sticks # "follow")
  <2>1. CASE p.mode = "unknown" \/ (p.mode \in MspModes /\ ~MspReady(fc))
    BY <1>1, <2>1 DEF ApplyMode
  <2>2. CASE ~(p.mode = "unknown" \/ (p.mode \in MspModes /\ ~MspReady(fc)))
    <3>1. p.mode \in Modes /\ m = SetControlMode(fc, p.mode)
      BY <2>2 DEF ApplyMode, Payload
    <3>2. QED
      BY <1>1, <2>2, <3>1, SetControlModeType DEF MspReady
  <2>3. QED
    BY <2>1, <2>2
<1> HIDE DEF m
<1>3. a \in Controller /\ a.hover = m.hover /\ a.mode = m.mode /\ a.sticks = m.sticks
  <2>1. CASE p.arm = "absent"
    BY <1>2, <2>1 DEF ApplyArm
  <2>2. CASE p.arm # "absent"
    <3>1. PICK on \in BOOLEAN : on <=> p.arm = "arm"
      OBVIOUS
    <3>2. a = [m EXCEPT !.armed = on]
      BY <2>2, <3>1, Zenon DEF ApplyArm, SetArm
    <3>3. QED
      BY <1>2, <3>2 DEF Controller
  <2>3. QED
    BY <2>1, <2>2
<1> HIDE DEF a
<1>4. /\ s \in Controller /\ s.hover = a.hover /\ s.mode = a.mode
      /\ s.sticks = a.sticks \/ s.sticks = "setpoint"
  <2> DEFINE sticks == IF p.axes THEN "setpoint" ELSE a.sticks
             thr    == IF p.thr = NoThr THEN a.thr ELSE p.thr
  <2>1. sticks \in Sticks /\ (sticks = a.sticks \/ sticks = "setpoint")
    BY <1>3, FieldTypes DEF Controller
  <2>2. thr \in Throttles
    BY <1>3 DEF Controller, Payload
  <2>3. s = [a EXCEPT !.sticks = sticks, !.thr = thr]
    BY <1>3 DEF SetManualSetpoints, Controller
  <2> HIDE DEF sticks, thr
  <2>4. QED
    BY <1>3, <2>1, <2>2, <2>3 DEF Controller
<1> HIDE DEF s
<1>5. r \in Controller /\ r.hover = s.hover /\ r.mode = s.mode /\ r.sticks = s.sticks
  <2>1. CASE p.track.state = "absent"
    BY <1>4, <2>1 DEF ApplyTracking
  <2>2. CASE p.track.state # "absent"
    <3>1. p.track \in TrackMsgs
      BY <2>2 DEF Payload, TrackMsgs
    <3>2. r = [s EXCEPT !.trackMsg = p.track, !.trackAge = 0]
      BY <2>2 DEF ApplyTracking, UpdateTracking
    <3>3. QED
      BY <1>4, <3>1, <3>2, FieldTypes DEF Controller
  <2>3. QED
    BY <2>1, <2>2
<1>6. ApplyCmd(fc, p) = r
  BY DEF ApplyCmd, r, s, a, m
<1> HIDE DEF r
<1>7. QED
  BY <1>2, <1>3, <1>4, <1>5, <1>6

-----------------------------------------------------------------------------
(* Type correctness.                                                       *)

LEMMA InitType == Init => TypeOK
<1> SUFFICES ASSUME Init PROVE TypeOK
  OBVIOUS
<1>1. PICK h \in {0, Hover} : fc = NewController(h)
  BY DEF Init
<1>2. fc \in Controller
  BY <1>1, NewControllerType, FcLoopAssumption DEF Hovers
<1>3. out \in [mode : Modes, armed : BOOLEAN, thr : Throttles, sticks : Sticks]
  BY <1>2 DEF Init, Output, Controller
<1>4. NoCmd \in Cmds
  BY SeqModAssumption DEF NoCmd, NoTrack, Cmds, Payload, WireSeqs, Seqs
<1>5. dt \in 0 .. MaxLoop /\ sinceTick \in 0 .. MaxLoop /\ cmdAge \in 0 .. StaleAge
  BY FcLoopAssumption DEF Init, StaleAge
<1>6. cmd \in Cmds /\ hasCmd \in BOOLEAN
  BY <1>4, FcLoopAssumption DEF Init, Cmds
<1>7. QED
  BY <1>2, <1>3, <1>5, <1>6 DEF Init, TypeOK

LEMMA OutputType ==
    ASSUME NEW c \in Controller
    PROVE  /\ Output(c) \in [mode : Modes, armed : BOOLEAN, thr : Throttles, sticks : Sticks]
           /\ Output(c).mode = c.mode /\ Output(c).sticks = c.sticks
           /\ Output(c).thr = c.thr
BY DEF Output, Controller

LEMMA FailsafeType ==
    ASSUME TypeOK
    PROVE  /\ EnterFailsafe(fc) \in Controller
           /\ EnterFailsafe(fc).hover = fc.hover
           /\ \/ EnterFailsafe(fc) = fc
              \/ EnterFailsafe(fc).mode = "LandSafely"
BY SetControlModeType, FieldTypes DEF TypeOK, EnterFailsafe

LEMMA NextType == TypeOK /\ [Next]_vars => TypeOK'
<1> SUFFICES ASSUME TypeOK, [Next]_vars PROVE TypeOK'
  OBVIOUS
<1>1. ASSUME NEW s \in WireSeqs, NEW p \in Payloads, PublishCmd(s, p) PROVE TypeOK'
  <2>1. [seq |-> s, load |-> p] \in Cmds
    BY FcLoopAssumption DEF Cmds
  <2>2. QED
    BY <1>1, <2>1, FcLoopAssumption DEF TypeOK, PublishCmd, StaleAge
<1>2. CASE Elapse
  BY <1>2, FcLoopAssumption DEF TypeOK, Elapse, Least, StaleAge, server
<1>3. CASE ReadCmd
  <2>1. fc' \in Controller
    <3>1. cmd.load \in Payload
      BY DEF TypeOK, Cmds
    <3>2. QED
      BY <1>3, <3>1, ApplyCmdOK DEF ReadCmd, TypeOK
  <2>2. lastSeq' \in Seqs \cup {NoSeq}
    BY <1>3 DEF ReadCmd, TypeOK, Accepts
  <2>3. QED
    BY <1>3, <2>1, <2>2, FcLoopAssumption DEF ReadCmd, TypeOK, server
<1>4. CASE Control
  <2>1. PICK t \in FollowThr : fc' = UpdateTimeStep(EnterFailsafe(fc), dt, t)
    BY <1>4 DEF Control
  <2>2. fc' \in Controller
    BY <2>1, FailsafeType, UpdateTimeStepOK, FcLoopAssumption DEF StepOK, TypeOK
  <2>3. out' \in [mode : Modes, armed : BOOLEAN, thr : Throttles, sticks : Sticks]
    BY <1>4, <2>2, OutputType DEF Control
  <2>4. failsafe' \in BOOLEAN /\ sinkLatch' \in BOOLEAN /\ sinkOk' \in BOOLEAN
    <3>1. sinkOk \in BOOLEAN
      BY DEF TypeOK
    <3>2. failsafe' = CmdStale /\ sinkLatch' = ~sinkOk /\ sinkOk' \in {sinkOk, FALSE}
      BY <1>4 DEF Control
    <3>3. CmdStale \in BOOLEAN
      BY DEF CmdStale
    <3>4. QED
      BY <3>1, <3>2, <3>3, Zenon
  <2>5. QED
    BY <1>4, <2>2, <2>3, <2>4, FcLoopAssumption DEF Control, TypeOK, server
<1>5. CASE UNCHANGED vars
  BY <1>5 DEF TypeOK, vars
<1>6. QED
  BY <1>1, <1>2, <1>3, <1>4, <1>5 DEF Next, Publish

\* Every variable of the main loop keeps its type, whatever CMDs arrive and
\* however long its iterations take.
THEOREM TypeCorrect == Spec => []TypeOK
<1>1. QED
  BY InitType, NextType, PTL DEF Spec

-----------------------------------------------------------------------------
(* What the two halves of an iteration do to the controller.               *)

LEMMA ReadStep ==
    ASSUME TypeOK, ReadCmd
    PROVE  /\ fc' \in Controller /\ fc'.hover = fc.hover
           /\ fc'.mode \in MspModes =>
                 fc.mode \in MspModes \/ (sinkOk /\ ~mismatch /\ fc.hover # 0)
           /\ (fc.mode = "Manual" => fc.sticks # "follow")
                 => (fc'.mode = "Manual" => fc'.sticks # "follow")
           /\ ~Accepts => fc' = fc
<1>1. cmd.load \in Payload
  BY DEF TypeOK, Cmds
<1>2. CASE Accepts
  <2>1. fc' = ApplyCmd(fc, cmd.load)
    BY <1>2 DEF ReadCmd
  <2>2. QED
    BY <1>1, <1>2, <2>1, ApplyCmdOK
<1>3. CASE ~Accepts
  BY <1>3 DEF ReadCmd, TypeOK
<1>4. QED
  BY <1>2, <1>3

LEMMA ControlStep ==
    ASSUME TypeOK, Control
    PROVE  /\ StepOK(EnterFailsafe(fc), fc')
           /\ fc'.hover = fc.hover
           /\ ~fc'.armed => fc'.thr = ThrMin
           /\ out' = Output(fc')
<1>1. PICK t \in FollowThr : fc' = UpdateTimeStep(EnterFailsafe(fc), dt, t)
  BY DEF Control
<1>2. t \in ThrMin .. ThrAltHoldMax /\ dt \in Nat
  BY FcLoopAssumption DEF TypeOK
<1>3. EnterFailsafe(fc) \in Controller /\ EnterFailsafe(fc).hover = fc.hover
  BY FailsafeType
<1>4. StepOK(EnterFailsafe(fc), fc') /\ (~fc'.armed => fc'.thr = ThrMin)
  BY <1>1, <1>2, <1>3, UpdateTimeStepOK
<1>5. QED
  BY <1>3, <1>4 DEF StepOK, Control

-----------------------------------------------------------------------------
(* Takeoff and Tracking need a healthy sink.                               *)

\* The latch is not released while the sink is broken: without it a CMD applied
\* before the latch is recomputed could pass the gate on a latched sink.
SinkInv ==
    /\ TypeOK
    /\ MspModesNeedHealthySink
    /\ sinkLatch => ~sinkOk

LEMMA SinkInvInit == Init => SinkInv
<1>1. Init => fc.mode = "LandSafely" /\ sinkLatch = FALSE
  BY DEF Init, NewController
<1>2. QED
  BY <1>1, InitType DEF SinkInv, MspModesNeedHealthySink, MspModes

LEMMA SinkInvNext == SinkInv /\ [Next]_vars => SinkInv'
<1> SUFFICES ASSUME SinkInv, [Next]_vars PROVE SinkInv'
  OBVIOUS
<1> USE DEF SinkInv
<1>1. TypeOK'
  BY NextType
<1>2. ASSUME NEW s \in WireSeqs, NEW p \in Payloads, PublishCmd(s, p) PROVE SinkInv'
  BY <1>1, <1>2 DEF PublishCmd, MspModesNeedHealthySink
<1>3. CASE Elapse
  BY <1>1, <1>3 DEF Elapse, MspModesNeedHealthySink
<1>4. CASE ReadCmd
  <2>1. UNCHANGED <<sinkLatch, sinkOk, mismatch>>
    BY <1>4 DEF ReadCmd
  <2>2. QED
    BY <1>1, <1>4, <2>1, ReadStep DEF MspModesNeedHealthySink
<1>5. CASE Control
  <2>1. sinkLatch' = ~sinkOk /\ sinkOk' \in {sinkOk, FALSE} /\ mismatch' = mismatch
    BY <1>5 DEF Control
  <2>2. sinkLatch' => ~sinkOk'
    BY <2>1
  <2>3. ASSUME fc'.mode \in MspModes PROVE fc'.hover # 0 /\ ~mismatch' /\ ~sinkLatch'
    <3>1. EnterFailsafe(fc).mode \in MspModes
      BY <1>5, <2>3, ControlStep DEF StepOK
    <3>2. EnterFailsafe(fc) = fc
      BY <3>1, FailsafeType DEF MspModes
    <3>3. fc.hover # 0 /\ ~mismatch /\ ~sinkLatch
      BY <3>1, <3>2 DEF MspModesNeedHealthySink
    <3>4. sinkOk
      <4>1. SUFFICES ASSUME ~sinkOk PROVE FALSE
        OBVIOUS
      <4>2. EnterFailsafe(fc) = SetControlMode(fc, "LandSafely")
        BY <3>3, <4>1 DEF EnterFailsafe
      <4>3. EnterFailsafe(fc).mode = "LandSafely"
        BY <4>2, SetControlModeType, FieldTypes DEF TypeOK
      <4>4. QED
        BY <3>1, <4>3 DEF MspModes
    <3>5. QED
      BY <1>5, <2>1, <3>3, <3>4, ControlStep
  <2>4. QED
    BY <1>1, <2>2, <2>3 DEF MspModesNeedHealthySink
<1>6. CASE UNCHANGED vars
  BY <1>1, <1>6 DEF vars, MspModesNeedHealthySink
<1>7. QED
  BY <1>2, <1>3, <1>4, <1>5, <1>6 DEF Next, Publish

\* Takeoff and Tracking are flown only with a calibrated hover, a confirmed
\* rate profile and an unlatched sink, however the loop and the network thread
\* interleave.
THEOREM MspModesSafe == Spec => []MspModesNeedHealthySink
<1>1. SinkInv => MspModesNeedHealthySink
  BY DEF SinkInv
<1>2. QED
  BY <1>1, SinkInvInit, SinkInvNext, PTL DEF Spec

-----------------------------------------------------------------------------
(* A stale link ends in LandSafely, if an iteration takes at most half the  *)
(* command timeout.                                                        *)

LEMMA SeqIrreflexive == \A s \in Seqs : ~SeqAdvances(s, s)
<1>1. \A s \in Seqs : SeqDiff(s, s) = 0
  BY SeqModAssumption DEF SeqDiff, Seqs
<1>2. QED
  BY <1>1 DEF SeqAdvances

\* Once the loop runs, a CMD not applied yet was published since the last read; so
\* one that is applied while stale is at most an iteration old when its age is
\* read.  (A CMD from before the first iteration meets the rising edge instead.)
StaleInv ==
    /\ TypeOK
    /\ LandSafelyWhileStale
    /\ Accepts /\ (failsafe \/ pc = "control") => cmdAge <= sinceTick
    /\ pc = "control" /\ failsafe /\ fc.mode # "LandSafely" =>
          cmdAge <= MaxLoop + sinceTick

LEMMA StaleInvNext ==
    ASSUME 2 * MaxLoop <= CmdTimeout
    PROVE  StaleInv /\ [Next]_vars => StaleInv'
<1> SUFFICES ASSUME StaleInv, [Next]_vars PROVE StaleInv'
  OBVIOUS
<1> USE DEF StaleInv
<1>1. TypeOK'
  BY NextType
<1>2. ASSUME NEW s \in WireSeqs, NEW p \in Payloads, PublishCmd(s, p) PROVE StaleInv'
  BY <1>1, <1>2, FcLoopAssumption DEF PublishCmd, LandSafelyWhileStale, TypeOK
<1>3. CASE Elapse
  <2>1. cmdAge' <= cmdAge + 1 /\ sinceTick' = sinceTick + 1
    BY <1>3, FcLoopAssumption DEF Elapse, Least, TypeOK, StaleAge
  <2>2. Accepts' = Accepts
    BY <1>3 DEF Elapse, Accepts, server
  <2>3. QED
    BY <1>1, <1>3, <2>1, <2>2, FcLoopAssumption
    DEF Elapse, LandSafelyWhileStale, TypeOK, StaleAge
<1>4. CASE ReadCmd
  <2>1. ~Accepts'
    <3>1. hasCmd' = hasCmd /\ cmd' = cmd
      BY <1>4 DEF ReadCmd, server
    <3>2. CASE Accepts
      <4>1. lastSeq' = cmd.seq
        BY <1>4, <3>2 DEF ReadCmd
      <4>2. cmd.seq \in Seqs /\ cmd.seq # NoSeq
        BY <3>2, SeqModAssumption DEF Accepts, Seqs, NoSeq
      <4>3. QED
        BY <3>1, <4>1, <4>2, SeqIrreflexive DEF Accepts
    <3>3. CASE ~Accepts
      BY <1>4, <3>1, <3>3 DEF ReadCmd, Accepts
    <3>4. QED
      BY <3>2, <3>3
  <2>2. /\ pc = "read" /\ pc' = "control" /\ sinceTick' = 0
        /\ cmdAge' = cmdAge /\ failsafe' = failsafe
    BY <1>4 DEF ReadCmd
  <2>3. ASSUME failsafe, fc'.mode # "LandSafely" PROVE cmdAge <= MaxLoop
    <3>1. Accepts
      BY <1>4, <2>2, <2>3, ReadStep DEF LandSafelyWhileStale
    <3>2. QED
      BY <2>3, <3>1, FcLoopAssumption DEF TypeOK, StaleAge
  <2>4. QED
    BY <1>1, <2>1, <2>2, <2>3, FcLoopAssumption DEF LandSafelyWhileStale
<1>5. CASE Control
  <2>1. /\ pc = "control" /\ pc' = "read" /\ failsafe' = CmdStale
        /\ sinceTick' = sinceTick /\ cmdAge' = cmdAge
    BY <1>5 DEF Control
  <2>2. Accepts' = Accepts
    BY <1>5 DEF Control, server, Accepts
  <2>3. ASSUME CmdStale PROVE fc'.mode = "LandSafely"
    <3>1. CASE failsafe
      <4>1. fc.mode = "LandSafely"
        BY <2>1, <2>3, <3>1, FcLoopAssumption DEF CmdStale, TypeOK, StaleAge
      <4>2. EnterFailsafe(fc).mode = "LandSafely"
        BY <4>1, FailsafeType
      <4>3. QED
        BY <1>5, <4>2, ControlStep DEF StepOK
    <3>2. CASE ~failsafe
      <4>1. EnterFailsafe(fc).mode = "LandSafely"
        BY <2>3, <3>2, SetControlModeType, FieldTypes DEF EnterFailsafe, TypeOK
      <4>2. QED
        BY <1>5, <4>1, ControlStep DEF StepOK
    <3>3. QED
      BY <3>1, <3>2
  <2>4. QED
    BY <1>1, <2>1, <2>2, <2>3 DEF LandSafelyWhileStale
<1>6. CASE UNCHANGED vars
  BY <1>1, <1>6 DEF vars, LandSafelyWhileStale, Accepts
<1>7. QED
  BY <1>2, <1>3, <1>4, <1>5, <1>6 DEF Next, Publish

\* Every iteration that finds the link stale ends in LandSafely, as main.cpp
\* says of its edge-triggered failsafe, as long as an iteration takes at most
\* half the command timeout.  Without that assumption it fails (FcLoop_slow).
THEOREM FailsafeLands ==
    ASSUME 2 * MaxLoop <= CmdTimeout
    PROVE  Spec => []LandSafelyWhileStale
<1>1. Init => StaleInv
  BY InitType DEF Init, StaleInv, LandSafelyWhileStale, Accepts
<1>2. StaleInv => LandSafelyWhileStale
  BY DEF StaleInv
<1>3. StaleInv /\ [Next]_vars => StaleInv'
  BY StaleInvNext
<1>4. QED
  BY <1>1, <1>2, <1>3, PTL DEF Spec

-----------------------------------------------------------------------------
(* What the channels carry after an iteration.                             *)

\* FollowNeedsFreshTarget needs to know that no other armed mode inherits the
\* following law's stick position, and Manual is the one that keeps its sticks.
OutputInv ==
    /\ TypeOK
    /\ AutoDisarmSticks
    /\ FollowNeedsFreshTarget
    /\ fc.mode = "Manual" => fc.sticks # "follow"

LEMMA OutputInvNext == OutputInv /\ [Next]_vars => OutputInv'
<1> SUFFICES ASSUME OutputInv, [Next]_vars PROVE OutputInv'
  OBVIOUS
<1> USE DEF OutputInv
<1>1. TypeOK'
  BY NextType
<1>2. ASSUME NEW s \in WireSeqs, NEW p \in Payloads, PublishCmd(s, p) PROVE OutputInv'
  BY <1>1, <1>2 DEF PublishCmd, AutoDisarmSticks, FollowNeedsFreshTarget, TrackStale
<1>3. CASE Elapse
  BY <1>1, <1>3 DEF Elapse, AutoDisarmSticks, FollowNeedsFreshTarget, TrackStale
<1>4. CASE ReadCmd
  <2>1. pc' = "control"
    BY <1>4 DEF ReadCmd
  <2>2. QED
    BY <1>1, <1>4, <2>1, ReadStep DEF AutoDisarmSticks, FollowNeedsFreshTarget
<1>5. CASE Control
  <2>1. StepOK(EnterFailsafe(fc), fc') /\ (~fc'.armed => fc'.thr = ThrMin)
    BY <1>5, ControlStep
  <2>2. out'.armed = fc'.armed /\ out'.thr = fc'.thr /\ out'.sticks = fc'.sticks
    <3>1. out' = Output(fc')
      BY <1>5, ControlStep
    <3>2. QED
      BY <3>1 DEF Output
  <2>3. fc'.mode = "Manual" => fc'.sticks # "follow"
    <3>1. fc'.mode = "Manual" =>
             EnterFailsafe(fc).mode = "Manual" /\ fc'.sticks = EnterFailsafe(fc).sticks
      BY <2>1 DEF StepOK
    <3>2. QED
      BY <3>1, FailsafeType
  <2>4. AutoDisarmSticks'
    BY <2>1, <2>2 DEF AutoDisarmSticks, StepOK
  <2>5. FollowNeedsFreshTarget'
    <3>1. SUFFICES ASSUME fc'.armed, fc'.sticks = "follow"
                   PROVE  /\ fc'.mode = "Tracking" /\ ~TrackStale(fc')
                          /\ fc'.trackMsg.state = "Tracking" /\ fc'.trackMsg.confident
      BY <2>2 DEF FollowNeedsFreshTarget
    <3>2. QED
      BY <2>1, <2>3, <3>1 DEF StepOK
  <2>6. QED
    BY <1>1, <2>3, <2>4, <2>5
<1>6. CASE UNCHANGED vars
  BY <1>1, <1>6 DEF vars, AutoDisarmSticks, FollowNeedsFreshTarget, TrackStale
<1>7. QED
  BY <1>2, <1>3, <1>4, <1>5, <1>6 DEF Next, Publish

LEMMA OutputInvInit == Init => OutputInv
<1> SUFFICES ASSUME Init PROVE OutputInv
  OBVIOUS
<1>1. PICK h \in {0, Hover} : fc = NewController(h)
  BY DEF Init
<1>2. fc.mode = "LandSafely" /\ fc.landTimer = 0 /\ ~fc.armed
  BY <1>1 DEF NewController
<1>3. ~out.armed
  BY <1>2 DEF Init, Output
<1>4. QED
  BY <1>2, <1>3, InitType, TimeAssumption
  DEF OutputInv, AutoDisarmSticks, FollowNeedsFreshTarget

\* A finished landing stays disarmed at idle, whatever the CMDs repeat.
THEOREM AutoDisarmIsFinal == Spec => []AutoDisarmSticks
<1>1. OutputInv => AutoDisarmSticks
  BY DEF OutputInv
<1>2. QED
  BY <1>1, OutputInvInit, OutputInvNext, PTL DEF Spec

\* An armed vehicle follows a fresh and confident target, or it does not follow.
THEOREM FollowIsFresh == Spec => []FollowNeedsFreshTarget
<1>1. OutputInv => FollowNeedsFreshTarget
  BY DEF OutputInv
<1>2. QED
  BY <1>1, OutputInvInit, OutputInvNext, PTL DEF Spec

-----------------------------------------------------------------------------
(* What one step of the loop may do to a landing and to the arm flag.      *)

\* r carries on the landing c is in: its ramp starts where it did, its timer runs on.
Lands(c, r) ==
    /\ r.mode = "LandSafely" /\ r.landInit
    /\ r.landStart = c.landStart
    /\ r.landTimer >= c.landTimer

\* The last two lines of updateTimeStep touch the throttle only.
LEMMA FinishKeeps ==
    ASSUME NEW r \in Controller
    PROVE  LET f == ClampChannels(CutIfDisarmed(r))
           IN  /\ f.mode = r.mode /\ f.armed = r.armed
               /\ f.landInit = r.landInit /\ f.landStart = r.landStart
               /\ f.landTimer = r.landTimer
<1>1. \A x : LET k == [r EXCEPT !.thr = x]
             IN  \A y : LET f == [k EXCEPT !.thr = y]
                        IN  /\ f.mode = r.mode /\ f.armed = r.armed
                            /\ f.landInit = r.landInit /\ f.landStart = r.landStart
                            /\ f.landTimer = r.landTimer
  BY DEF Controller
<1>2. CutIfDisarmed(r) = [r EXCEPT !.thr = IF r.armed THEN r.thr ELSE ThrMin]
  BY DEF CutIfDisarmed, Controller
<1>3. QED
  BY <1>1, <1>2, Zenon DEF ClampChannels

LEMMA LandCarriesOn ==
    ASSUME NEW c \in Controller, NEW d \in Nat, c.mode = "LandSafely", c.landInit
    PROVE  Lands(c, RunLandSafely(c, d))
<1>1. BeginLanding(c) = c
  BY DEF BeginLanding
<1>2. CASE ~c.armed
  <2>1. RunLandSafely(c, d) = [c EXCEPT !.thr = ThrMin, !.telState = "Searching"]
    BY <1>1, <1>2 DEF RunLandSafely
  <2>2. c.landTimer \in Int
    BY DEF Controller, LandTimes
  <2>3. QED
    BY <2>1, <2>2 DEF Lands, Controller
<1>3. CASE c.armed
  <2> DEFINE timer == Least(c.landTimer + d, DisarmTime)
  <2>1. timer >= c.landTimer
    BY TimeAssumption DEF Least, Controller, LandTimes
  <2> HIDE DEF timer
  <2>2. PICK thr, arm :
           Descend(c, d) =
             [c EXCEPT !.landTimer = timer, !.altHold = FALSE, !.sticks = "mid",
                       !.armed = arm, !.telState = "Searching", !.thr = thr]
    BY Zenon DEF Descend, timer
  <2>3. RunLandSafely(c, d) = Descend(c, d)
    BY <1>1, <1>3 DEF RunLandSafely
  <2>4. QED
    BY <2>1, <2>2, <2>3 DEF Lands, Controller
<1>4. QED
  BY <1>2, <1>3

\* A landing arms nothing.
LEMMA LandArmsNothing ==
    ASSUME NEW c \in Controller, NEW d \in Nat, ~c.armed
    PROVE  ~RunLandSafely(c, d).armed
<1> DEFINE b == BeginLanding(c)
<1>1. ~b.armed
  BY DEF BeginLanding, Controller
<1>2. \A x, y : [b EXCEPT !.thr = x, !.telState = y].armed = b.armed
  BY DEF BeginLanding, Controller
<1> HIDE DEF b
<1>3. RunLandSafely(c, d) = [b EXCEPT !.thr = ThrMin, !.telState = "Searching"]
  BY <1>1 DEF RunLandSafely, b
<1>4. QED
  BY <1>1, <1>2, <1>3

LEMMA SetControlModeKeeps ==
    ASSUME NEW c \in Controller, NEW mode
    PROVE  /\ SetControlMode(c, mode).armed = c.armed
           /\ mode = c.mode => SetControlMode(c, mode) = c
BY DEF SetControlMode, EnterManual, Controller

LEMMA OnlyTakeoffArms ==
    ASSUME NEW c \in Controller, NEW d \in Nat, NEW t, ~c.armed, c.mode # "Takeoff"
    PROVE  ~RunMode(c, d, t).armed
<1>1. CASE c.mode = "Manual"
  BY <1>1 DEF RunMode, RunManual, Controller
<1>2. CASE c.mode = "LandSafely"
  BY <1>2, LandArmsNothing DEF RunMode
<1>3. CASE c.mode = "Tracking"
  <2>1. RunMode(c, d, t) = RunTracking(c, d, t)
    BY <1>3 DEF RunMode
  <2>2. ~RunLandSafely(SetControlMode(c, "LandSafely"), d).armed
    BY SetControlModeKeeps, SetControlModeType, LandArmsNothing, FieldTypes
  <2>3. /\ ~HoverSearch(c).armed /\ ~FollowTarget(c, t).armed
        /\ ~HoverStill(c, c.trackMsg.state).armed
    BY DEF HoverSearch, FollowTarget, HoverStill, Controller
  <2>4. QED
    BY <2>1, <2>2, <2>3 DEF RunTracking
<1>4. QED
  BY <1>1, <1>2, <1>3, FieldTypes DEF Controller

LEMMA TimeStep ==
    ASSUME NEW c \in Controller, NEW e \in Nat, NEW t \in ThrMin .. ThrAltHoldMax
    PROVE  /\ c.mode = "LandSafely" /\ c.landInit => Lands(c, UpdateTimeStep(c, e, t))
           /\ ~c.armed /\ c.mode # "Takeoff" => ~UpdateTimeStep(c, e, t).armed
<1> DEFINE d    == Least(e, MaxControlDt)
           age  == Least(c.trackAge + d, TrackTimeout + 1)
           aged == [c EXCEPT !.trackAge = age]
           r    == RunMode(aged, d, t)
<1>1. d \in Nat
  BY TimeAssumption DEF Least
<1>2. age \in TrackAges
  BY <1>1, TimeAssumption DEF Least, Controller, TrackAges
<1>3. UpdateTimeStep(c, e, t) = ClampChannels(CutIfDisarmed(r))
  BY DEF UpdateTimeStep
<1> HIDE DEF d, age
<1>4. /\ aged \in Controller
      /\ aged.mode = c.mode /\ aged.armed = c.armed
      /\ aged.landInit = c.landInit /\ aged.landStart = c.landStart
      /\ aged.landTimer = c.landTimer
  BY <1>2 DEF Controller
<1> HIDE DEF aged
<1>5. r \in Controller
  BY <1>1, <1>4, ModeStep DEF StepOK
<1>6. c.mode = "LandSafely" /\ c.landInit => Lands(aged, r)
  BY <1>1, <1>4, LandCarriesOn DEF RunMode
<1>7. ~c.armed /\ c.mode # "Takeoff" => ~r.armed
  BY <1>1, <1>4, OnlyTakeoffArms
<1> HIDE DEF r
<1>8. QED
  BY <1>3, <1>4, <1>5, <1>6, <1>7, FinishKeeps DEF Lands

\* A CMD changes a landing only by changing the mode, to the one it names, and
\* arms only when it says so.
LEMMA ApplyCmdKeeps ==
    ASSUME NEW c \in Controller, NEW p \in Payload
    PROVE  LET r == ApplyCmd(c, p)
           IN  /\ \/ r.mode = p.mode /\ r.mode # c.mode
                  \/ /\ r.mode = c.mode
                     /\ r.landInit = c.landInit /\ r.landStart = c.landStart
                     /\ r.landTimer = c.landTimer
               /\ ~c.armed /\ r.armed => p.arm = "arm"
<1> DEFINE m == ApplyMode(c, p.mode)
           a == ApplyArm(m, p.arm)
           s == SetManualSetpoints(a, p.axes, p.thr)
<1>1. /\ m \in Controller /\ m.armed = c.armed
      /\ m = c \/ (m.mode = p.mode /\ m.mode # c.mode)
  <2>1. CASE p.mode = "unknown" \/ (p.mode \in MspModes /\ ~MspReady(c))
    BY <2>1 DEF ApplyMode
  <2>2. CASE ~(p.mode = "unknown" \/ (p.mode \in MspModes /\ ~MspReady(c)))
    <3>1. p.mode \in Modes /\ m = SetControlMode(c, p.mode)
      BY <2>2 DEF ApplyMode, Payload
    <3>2. QED
      BY <3>1, SetControlModeType, SetControlModeKeeps
  <2>3. QED
    BY <2>1, <2>2
<1> DEFINE Same(x, y) == /\ y.mode = x.mode
                         /\ y.landInit = x.landInit /\ y.landStart = x.landStart
                         /\ y.landTimer = x.landTimer
<1> HIDE DEF m
<1>2. Same(m, a) /\ (~m.armed /\ a.armed => p.arm = "arm")
  BY <1>1 DEF ApplyArm, SetArm, Controller
<1>3. a = m \/ \E on : a = [m EXCEPT !.armed = on]
  BY Zenon DEF ApplyArm, SetArm
<1>4. Same(a, s) /\ s.armed = a.armed
  <2>1. PICK x, y : s = [a EXCEPT !.sticks = x, !.thr = y]
    BY Zenon DEF SetManualSetpoints
  <2>2. QED
    BY <1>1, <1>3, <2>1 DEF Controller
<1>5. Same(s, ApplyTracking(s, p.track)) /\ ApplyTracking(s, p.track).armed = s.armed
  BY <1>1, <1>3 DEF ApplyTracking, UpdateTracking, SetManualSetpoints, Controller
<1>6. ApplyCmd(c, p) = ApplyTracking(s, p.track)
  BY DEF ApplyCmd, m
<1> HIDE DEF a, s
<1>7. QED
  BY <1>1, <1>2, <1>4, <1>5, <1>6

-----------------------------------------------------------------------------
(* Steps of the loop.                                                      *)

LEMMA ReadKeeps ==
    ASSUME TypeOK, ReadCmd
    PROVE  /\ \/ fc'.mode = cmd.load.mode /\ fc'.mode # fc.mode /\ lastSeq' # lastSeq
              \/ /\ fc'.mode = fc.mode
                 /\ fc'.landInit = fc.landInit /\ fc'.landStart = fc.landStart
                 /\ fc'.landTimer = fc.landTimer
           /\ ~fc.armed /\ fc'.armed => cmd.load.arm = "arm" /\ lastSeq' # lastSeq
<1>1. CASE Accepts
  <2>1. fc' = ApplyCmd(fc, cmd.load) /\ lastSeq' = cmd.seq
    BY <1>1 DEF ReadCmd
  <2>2. cmd.seq # lastSeq
    <3>1. cmd.seq \in Seqs /\ NoSeq \notin Seqs
      BY <1>1, SeqModAssumption DEF Accepts, Seqs, NoSeq
    <3>2. QED
      BY <1>1, <3>1, SeqIrreflexive DEF Accepts
  <2>3. fc \in Controller /\ cmd.load \in Payload
    BY DEF TypeOK, Cmds
  <2> DEFINE load == cmd.load
  <2> HIDE DEF load
  <2>4. fc' = ApplyCmd(fc, load) /\ load \in Payload
    BY <2>1, <2>3 DEF load
  <2>5. QED
    BY <2>1, <2>2, <2>3, <2>4, ApplyCmdKeeps DEF load
<1>2. CASE ~Accepts
  BY <1>2 DEF ReadCmd
<1>3. QED
  BY <1>1, <1>2

LEMMA ControlKeeps ==
    ASSUME TypeOK, Control
    PROVE  /\ fc.mode = "LandSafely" => fc'.mode = "LandSafely"
           /\ fc.mode = "LandSafely" /\ fc.landInit => Lands(fc, fc')
           /\ ~fc.armed /\ fc'.armed => EnterFailsafe(fc).mode = "Takeoff"
<1>1. PICK t \in FollowThr : fc' = UpdateTimeStep(EnterFailsafe(fc), dt, t)
  BY DEF Control
<1>2. t \in ThrMin .. ThrAltHoldMax /\ dt \in Nat /\ fc \in Controller
  BY FcLoopAssumption DEF TypeOK
<1>3. EnterFailsafe(fc) \in Controller /\ EnterFailsafe(fc).armed = fc.armed
  BY <1>2, FailsafeType, SetControlModeKeeps DEF EnterFailsafe
<1>4. fc.mode = "LandSafely" => EnterFailsafe(fc) = fc
  BY <1>2, SetControlModeKeeps DEF EnterFailsafe
<1>5. QED
  BY <1>1, <1>2, <1>3, <1>4, TimeStep, ControlStep DEF StepOK

\* A CMD, a failsafe edge or a re-arm never begins a landing again: while the
\* mode stays LandSafely, its ramp and its timer carry on (updateLandSafely).
THEOREM LandingCarriesOn == Spec => LandingNeverRestarts
<1> DEFINE Safe == fc.mode = "LandSafely" /\ fc.landInit =>
                      \/ fc'.mode # "LandSafely"
                      \/ /\ fc'.landInit
                         /\ fc'.landStart = fc.landStart
                         /\ fc'.landTimer >= fc.landTimer
<1>1. TypeOK /\ [Next]_vars => [Safe]_vars
  <2> SUFFICES ASSUME TypeOK, Next, fc.mode = "LandSafely", fc.landInit,
                      fc'.mode = "LandSafely"
               PROVE  /\ fc'.landInit
                      /\ fc'.landStart = fc.landStart
                      /\ fc'.landTimer >= fc.landTimer
    OBVIOUS
  <2>1. fc.landTimer >= fc.landTimer
    BY DEF TypeOK, Controller, LandTimes
  <2>2. CASE Publish
    BY <2>1, <2>2 DEF Publish, PublishCmd
  <2>3. CASE Elapse
    BY <2>1, <2>3 DEF Elapse
  <2>4. CASE ReadCmd
    BY <2>1, <2>4, ReadKeeps
  <2>5. CASE Control
    BY <2>5, ControlKeeps DEF Lands
  <2>6. QED
    BY <2>2, <2>3, <2>4, <2>5 DEF Next
<1>2. QED
  BY <1>1, TypeCorrect, PTL DEF Spec, LandingNeverRestarts

\* LandSafely is left by the iteration that first accepts a CMD, for the mode it
\* names: neither an old CMD nor the link's recovery resumes a flight mode.
THEOREM LandingIsLeftByCmd == Spec => OnlyNewCmdLeavesLanding
<1> DEFINE Safe == fc.mode = "LandSafely" /\ fc'.mode # "LandSafely" =>
                      lastSeq' # lastSeq /\ cmd.load.mode = fc'.mode
<1>1. TypeOK /\ [Next]_vars => [Safe]_vars
  <2> SUFFICES ASSUME TypeOK, Next, fc.mode = "LandSafely", fc'.mode # "LandSafely"
               PROVE  lastSeq' # lastSeq /\ cmd.load.mode = fc'.mode
    OBVIOUS
  <2>1. CASE Publish \/ Elapse
    BY <2>1 DEF Publish, PublishCmd, Elapse
  <2>2. CASE ReadCmd
    BY <2>2, ReadKeeps
  <2>3. CASE Control
    BY <2>3, ControlKeeps
  <2>4. QED
    BY <2>1, <2>2, <2>3 DEF Next
<1>2. QED
  BY <1>1, TypeCorrect, PTL DEF Spec, OnlyNewCmdLeavesLanding

\* The controller arms for a new CMD that says "arm", or in a Takeoff that the
\* gate of apply_control_mode_safely let in and the sink latch has not ended.
THEOREM ArmingIsAsked == Spec => NoSpontaneousArm
<1> DEFINE Safe == ~fc.armed /\ fc'.armed =>
                      \/ lastSeq' # lastSeq /\ cmd.load.arm = "arm"
                      \/ fc.mode = "Takeoff" /\ fc.hover # 0 /\ ~mismatch
                         /\ sinkLatch' = FALSE
<1>1. SinkInv /\ [Next]_vars => [Safe]_vars
  <2> SUFFICES ASSUME SinkInv, Next, ~fc.armed, fc'.armed PROVE Safe
    OBVIOUS
  <2>1. CASE Publish \/ Elapse
    BY <2>1 DEF Publish, PublishCmd, Elapse
  <2>2. CASE ReadCmd
    BY <2>2, ReadKeeps DEF SinkInv
  <2>3. CASE Control
    <3>1. EnterFailsafe(fc).mode = "Takeoff"
      BY <2>3, ControlKeeps DEF SinkInv
    <3>2. EnterFailsafe(fc) = fc
      BY <3>1, FailsafeType DEF SinkInv
    <3>3. fc.mode = "Takeoff" /\ fc.hover # 0 /\ ~mismatch /\ ~sinkLatch
      BY <3>1, <3>2 DEF SinkInv, MspModesNeedHealthySink, MspModes
    <3>4. sinkOk
      BY <3>1, <3>3, SetControlModeType, FieldTypes DEF EnterFailsafe, SinkInv, TypeOK
    <3>5. sinkLatch' = FALSE
      BY <2>3, <3>4 DEF Control
    <3>6. QED
      BY <3>3, <3>5
  <2>4. QED
    BY <2>1, <2>2, <2>3 DEF Next
<1>2. Spec => []SinkInv
  BY SinkInvInit, SinkInvNext, PTL DEF Spec
<1>3. QED
  BY <1>1, <1>2, PTL DEF Spec, NoSpontaneousArm

=============================================================================
