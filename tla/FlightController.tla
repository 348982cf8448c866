-------------------------- MODULE FlightController --------------------------
(***************************************************************************)
(* fc::FlightController: the mode machine that turns operator modes and    *)
(* tracking updates into one RC command per time step.  A controller is a  *)
(* record; every public method of the class is an operator from records to *)
(* records, and the main loop (FcLoop) composes them.                      *)
(*                                                                         *)
(* Data abstraction: a PWM throttle is an integer on the scale the         *)
(* constants give; the roll, pitch and yaw channels are abstracted to who  *)
(* wrote them last ("mid" centred, "setpoint" a CMD setpoint, "search" the *)
(* hover-search yaw, "follow" the target-following law).  Time is counted  *)
(* in whole units.                                                         *)
(***************************************************************************)
EXTENDS Integers

CONSTANTS
    ThrMin,            \* rc::DRONE_MIN, motors idle
    ThrSpool,          \* takeoffSpoolThrottle_
    ThrLandMin,        \* kMinLandThrottle
    ThrTakeoffTarget,  \* takeoffTargetThrottle_
    ThrAltHoldMax,     \* kAltHoldMaxThrottle
    ThrMax,            \* rc::DRONE_MAX
    LandRate,          \* kLandRampRateUsPerS per time unit
    DisarmTime,        \* kDisarmTimeS
    SpoolTime, RampTime, HoldTime,   \* the phases of a takeoff
    TrackTimeout,      \* trackingConfig_.trackingTimeout_s
    MaxControlDt       \* kMaxControlDtS

ASSUME ThrottleAssumption ==
    /\ ThrMin \in Nat /\ ThrSpool \in Nat /\ ThrLandMin \in Nat
    /\ ThrTakeoffTarget \in Nat /\ ThrAltHoldMax \in Nat /\ ThrMax \in Nat
    /\ 0 < ThrMin /\ ThrMin < ThrSpool /\ ThrSpool < ThrLandMin
    /\ ThrLandMin <= ThrTakeoffTarget /\ ThrTakeoffTarget <= ThrAltHoldMax
    /\ ThrAltHoldMax < ThrMax

ASSUME TimeAssumption ==
    /\ LandRate \in Nat \ {0} /\ DisarmTime \in Nat \ {0}
    /\ SpoolTime \in Nat \ {0} /\ RampTime \in Nat \ {0} /\ HoldTime \in Nat \ {0}
    /\ TrackTimeout \in Nat \ {0} /\ MaxControlDt \in Nat \ {0}

Modes == {"Manual", "Tracking", "LandSafely", "Takeoff"}
MspModes == {"Tracking", "Takeoff"}
TrackStates == {"NoTarget", "TargetDetected", "Tracking", "Searching"}

\* lastTrackingMsg_: the state and whether its confidence reaches minConfidence.
TrackMsgs == [state : TrackStates, confident : BOOLEAN]

Throttles == ThrMin .. ThrMax

\* A CMD without a throttle setpoint.
NoThr == 0

\* hoverThrottle_: 0 is the "uncalibrated" sentinel.
Hovers == {0} \cup ThrMin .. ThrAltHoldMax

TakeoffTime == SpoolTime + RampTime + HoldTime

Sticks == {"mid", "setpoint", "search", "follow"}
LandTimes == 0 .. DisarmTime
TakeoffTimes == 0 .. TakeoffTime
TrackAges == 0 .. TrackTimeout + 1      \* saturates once the update is stale

Controller ==
    [mode : Modes, armed : BOOLEAN, thr : Throttles, altHold : BOOLEAN,
     sticks : Sticks, hover : Hovers,
     landInit : BOOLEAN, landTimer : LandTimes, landStart : Throttles,
     takeoffInit : BOOLEAN, takeoffTimer : TakeoffTimes,
     trackAge : TrackAges, trackMsg : TrackMsgs, telState : TrackStates]

Least(a, b) == IF a <= b THEN a ELSE b
Greatest(a, b) == IF a >= b THEN a ELSE b
Clamp(x, lo, hi) == Least(Greatest(x, lo), hi)

\* A new controller after setHoverThrottle(h): LandSafely, disarmed, no
\* tracking update yet (lastTrackingUpdateTime_s_ < 0 counts as stale).
NewController(h) ==
    [mode |-> "LandSafely", armed |-> FALSE, thr |-> ThrMin, altHold |-> FALSE,
     sticks |-> "mid", hover |-> h,
     landInit |-> FALSE, landTimer |-> 0, landStart |-> ThrMin,
     takeoffInit |-> FALSE, takeoffTimer |-> 0,
     trackAge |-> TrackTimeout + 1,
     trackMsg |-> [state |-> "Searching", confident |-> FALSE],
     telState |-> "Searching"]
-----------------------------------------------------------------------------
(* Operations the CMD path calls.                                          *)

SetArm(c, arm) == [c EXCEPT !.armed = arm]

\* Entering Manual centres the sticks and presets the throttle (0, the
\* uncalibrated hover, is clamped up to DRONE_MIN before it is ever sent).
EnterManual(c) ==
    [c EXCEPT !.sticks = "mid", !.altHold = FALSE,
              !.thr = IF c.armed THEN Greatest(c.hover, ThrMin) ELSE ThrMin]

\* Fault: without the early return for the current mode.
SetControlModeAlways(c, mode) ==
    [(IF mode = "Manual" THEN EnterManual(c) ELSE c) EXCEPT
       !.mode = mode,
       !.landInit = FALSE, !.landTimer = 0,
       !.takeoffInit = FALSE, !.takeoffTimer = 0]

\* Fault: the timers of the previous mode are not reset.
SetControlModeKeepsTimers(c, mode) ==
    IF mode = c.mode
    THEN c
    ELSE [(IF mode = "Manual" THEN EnterManual(c) ELSE c) EXCEPT !.mode = mode]

SetControlMode(c, mode) ==
    IF mode = c.mode
    THEN c
    ELSE [(IF mode = "Manual" THEN EnterManual(c) ELSE c) EXCEPT
            !.mode = mode,
            !.landInit = FALSE, !.landTimer = 0,
            !.takeoffInit = FALSE, !.takeoffTimer = 0]

\* axes: some of roll, pitch and yaw_rate were given; thr: the throttle, if given.
SetManualSetpoints(c, axes, thr) ==
    [c EXCEPT !.sticks = IF axes THEN "setpoint" ELSE @,
              !.thr = IF thr = NoThr THEN @ ELSE thr]

UpdateTracking(c, msg) == [c EXCEPT !.trackMsg = msg, !.trackAge = 0]
-----------------------------------------------------------------------------
(* One time step per mode.                                                 *)

TrackStale(c) == c.trackAge > TrackTimeout

LandStart(c) ==
    Greatest(ThrLandMin, IF c.hover = 0 THEN c.thr ELSE Least(c.thr, c.hover))

BeginLanding(c) ==
    IF c.landInit THEN c
    ELSE [c EXCEPT !.landInit = TRUE, !.landTimer = 0, !.landStart = LandStart(c)]

\* Fault: the landing does not disarm at the end of its time, only past it.
DescendStaysArmed(c, dt) ==
    LET timer == Least(c.landTimer + dt, DisarmTime)
    IN  [c EXCEPT !.landTimer = timer, !.altHold = FALSE, !.sticks = "mid",
                  !.telState = "Searching",
                  !.thr = Clamp(c.landStart - LandRate * timer, ThrLandMin, ThrMax)]

\* The armed part of a landing: ramp down, and disarm when the time is up.
Descend(c, dt) ==
    LET timer == Least(c.landTimer + dt, DisarmTime)
        down  == timer >= DisarmTime
    IN  [c EXCEPT !.landTimer = timer, !.altHold = FALSE, !.sticks = "mid",
                  !.armed = ~down, !.telState = "Searching",
                  !.thr = IF down THEN ThrMin
                          ELSE Clamp(c.landStart - LandRate * timer, ThrLandMin, ThrMax)]

RunLandSafely(c, dt) ==
    LET b == BeginLanding(c)
    IN  IF b.armed THEN Descend(b, dt)
        ELSE [b EXCEPT !.thr = ThrMin, !.telState = "Searching"]

\* The interpolated throttle t time units into the ramp.
TakeoffRamp(t) ==
    ThrSpool + ((ThrTakeoffTarget - ThrSpool) * t) \div RampTime

TakeoffThrottle(c, timer) ==
    IF timer < SpoolTime THEN ThrSpool
    ELSE IF timer - SpoolTime < RampTime THEN TakeoffRamp(timer - SpoolTime)
    ELSE c.hover

\* Spool, ramp, hold, then hand over to Tracking.  Takeoff arms by itself.
RunTakeoff(c, dt) ==
    IF c.hover = 0
    THEN RunLandSafely(SetControlMode(c, "LandSafely"), dt)
    ELSE LET timer == (IF c.takeoffInit THEN c.takeoffTimer ELSE 0) + dt
             next  == [c EXCEPT
                         !.takeoffInit = TRUE,
                         !.takeoffTimer = timer,
                         !.armed = TRUE, !.altHold = TRUE, !.sticks = "mid",
                         !.thr = TakeoffThrottle(c, timer),
                         !.telState = "Searching"]
         IN  IF timer > TakeoffTime THEN SetControlMode(next, "Tracking") ELSE next

HoverSearch(c) ==
    [c EXCEPT !.sticks = "search", !.altHold = TRUE, !.thr = c.hover,
              !.telState = "Searching"]

HoverStill(c, state) ==
    [c EXCEPT !.sticks = "mid", !.altHold = TRUE, !.thr = c.hover,
              !.telState = state]

\* followThr: the throttle the altitude law computes from the vertical error.
FollowTarget(c, followThr) ==
    [c EXCEPT !.sticks = "follow", !.altHold = TRUE, !.thr = followThr,
              !.telState = "Tracking"]

\* Fault: the age of the tracking update is not looked at.
RunTrackingWhenStale(c, dt, followThr) ==
    IF c.hover = 0
    THEN RunLandSafely(SetControlMode(c, "LandSafely"), dt)
    ELSE IF c.trackMsg.state = "Tracking" /\ c.trackMsg.confident
    THEN FollowTarget(c, followThr)
    ELSE HoverSearch(c)

RunTracking(c, dt, followThr) ==
    IF c.hover = 0
    THEN RunLandSafely(SetControlMode(c, "LandSafely"), dt)
    ELSE IF TrackStale(c) \/ c.trackMsg.state = "Searching"
    THEN HoverSearch(c)
    ELSE IF c.trackMsg.state # "Tracking"
    THEN HoverStill(c, c.trackMsg.state)
    ELSE IF c.trackMsg.confident THEN FollowTarget(c, followThr) ELSE HoverSearch(c)

RunManual(c) == [c EXCEPT !.telState = "Searching"]

\* A disarmed controller idles whatever the mode wrote.
CutIfDisarmed(c) == IF c.armed THEN c ELSE [c EXCEPT !.thr = ThrMin]

ClampChannels(c) == [c EXCEPT !.thr = Clamp(@, ThrMin, ThrMax)]

RunMode(c, dt, followThr) ==
    CASE c.mode = "Manual"     -> RunManual(c)
      [] c.mode = "Tracking"   -> RunTracking(c, dt, followThr)
      [] c.mode = "LandSafely" -> RunLandSafely(c, dt)
      [] c.mode = "Takeoff"    -> RunTakeoff(c, dt)

UpdateTimeStep(c, elapsed, followThr) ==
    LET dt   == Least(elapsed, MaxControlDt)
        aged == [c EXCEPT !.trackAge = Least(@ + dt, TrackTimeout + 1)]
    IN  ClampChannels(CutIfDisarmed(RunMode(aged, dt, followThr)))
=============================================================================
