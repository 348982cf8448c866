------------------------------- MODULE FcLoop -------------------------------
(***************************************************************************)
(* The main loop of fc_app: each iteration reads the latest CMD the        *)
(* command server's thread published, applies it to the flight controller, *)
(* then reads the age of the latest CMD, enters the failsafe on a stale    *)
(* link or a degraded RC sink, runs one controller time step and writes    *)
(* the channels.                                                           *)
(*                                                                         *)
(* The two reads of the command server take its mutex separately, so the   *)
(* network thread may publish, and time may pass, between them: an         *)
(* iteration is the two actions ReadCmd and Control.                       *)
(***************************************************************************)
EXTENDS FlightController, CmdSeq

CONSTANTS
    Payloads,      \* the CMD payloads a backend sends
    FollowThr,     \* throttles the altitude law may compute
    Hover,         \* FC_HOVER_THROTTLE of the calibrated airframe
    CmdTimeout,    \* CMD_TIMEOUT_S
    MaxLoop        \* bound: the longest time between two iterations

Payload ==
    [mode : Modes \cup {"unknown"}, arm : {"arm", "disarm", "absent"},
     axes : BOOLEAN, thr : {NoThr} \cup Throttles,
     track : [state : TrackStates \cup {"absent"}, confident : BOOLEAN]]

ASSUME FcLoopAssumption ==
    /\ Payloads \subseteq Payload
    /\ FollowThr \subseteq ThrMin .. ThrAltHoldMax /\ FollowThr # {}
    /\ Hover \in ThrMin .. ThrAltHoldMax
    /\ CmdTimeout \in Nat \ {0} /\ MaxLoop \in Nat \ {0}

\* The seq of a parsed frame: SeqMod stands for every value out of range.
WireSeqs == Seqs \cup {SeqMod}

Cmds == [seq : WireSeqs, load : Payload]

NoSeq == -1            \* last_cmd_seq = std::nullopt
NoTrack == [state |-> "absent", confident |-> FALSE]
NoCmd == [seq |-> 0, load |-> [mode |-> "unknown", arm |-> "absent", axes |-> FALSE,
                               thr |-> NoThr, track |-> NoTrack]]

VARIABLES
    pc,         \* "read": about to call latest_command; "control": about to read the age
    fc,         \* flight_controller
    out,        \* the command last handed to the RC sink, with its mode
    dt,         \* this iteration's dt
    sinceTick,  \* time since last_tick
    hasCmd, cmd, cmdAge,    \* CommandServer: has_cmd_, last_cmd_, age of last_cmd_time_s_
    lastSeq,    \* last_cmd_seq
    failsafe,   \* failsafe_engaged
    sinkLatch,  \* sink_degraded_engaged
    sinkOk,     \* rc_sink->ok()
    mismatch    \* rc_sink->tuning_mismatch(), decided by the boot probe

server == <<hasCmd, cmd>>
vars == <<pc, fc, out, dt, sinceTick, hasCmd, cmd, cmdAge, lastSeq,
          failsafe, sinkLatch, sinkOk, mismatch>>

Output(c) == [mode |-> c.mode, armed |-> c.armed, thr |-> c.thr, sticks |-> c.sticks]

\* No CMD yet reads as infinitely old; the age saturates once it is stale.
StaleAge == CmdTimeout + 1
CmdStale == cmdAge > CmdTimeout

TypeOK ==
    /\ pc \in {"read", "control"}
    /\ fc \in Controller
    /\ out \in [mode : Modes, armed : BOOLEAN, thr : Throttles, sticks : Sticks]
    /\ dt \in 0 .. MaxLoop /\ sinceTick \in 0 .. MaxLoop
    /\ hasCmd \in BOOLEAN /\ cmd \in Cmds /\ cmdAge \in 0 .. StaleAge
    /\ lastSeq \in Seqs \cup {NoSeq}
    /\ failsafe \in BOOLEAN /\ sinkLatch \in BOOLEAN
    /\ sinkOk \in BOOLEAN /\ mismatch \in BOOLEAN

\* The command server is up before the sink is probed, so a CMD may be waiting
\* by the first iteration; a sink that is not ok refuses to start.
Init ==
    /\ pc = "read"
    /\ fc \in {NewController(h) : h \in {0, Hover}}
    /\ out = Output(fc)
    /\ dt = 0 /\ sinceTick = 0
    /\ \/ hasCmd = FALSE /\ cmd = NoCmd /\ cmdAge = StaleAge
       \/ /\ hasCmd = TRUE
          /\ cmd \in [seq : WireSeqs, load : Payloads]
          /\ cmdAge \in 0 .. StaleAge
    /\ lastSeq = NoSeq
    /\ failsafe = FALSE /\ sinkLatch = FALSE
    /\ sinkOk = TRUE /\ mismatch \in BOOLEAN
-----------------------------------------------------------------------------
(* The command server's thread and the clock.                              *)

PublishCmd(s, p) ==
    /\ hasCmd' = TRUE
    /\ cmd' = [seq |-> s, load |-> p]
    /\ cmdAge' = 0
    /\ UNCHANGED <<pc, fc, out, dt, sinceTick, lastSeq, failsafe, sinkLatch, sinkOk, mismatch>>

Elapse ==
    /\ sinceTick < MaxLoop
    /\ sinceTick' = sinceTick + 1
    /\ cmdAge' = Least(cmdAge + 1, StaleAge)
    /\ UNCHANGED <<pc, fc, out, dt, server, lastSeq, failsafe, sinkLatch, sinkOk, mismatch>>
-----------------------------------------------------------------------------
(* One iteration of the loop.                                              *)

MspReady(c) == sinkOk /\ ~mismatch /\ c.hover # 0

\* apply_control_mode_safely, and the unknown mode that keeps the current one.
ApplyMode(c, mode) ==
    IF mode = "unknown" \/ (mode \in MspModes /\ ~MspReady(c))
    THEN c
    ELSE SetControlMode(c, mode)

\* Fault: a CMD without an arm word arms.
ApplyArmByDefault(c, arm) == SetArm(c, arm # "disarm")

ApplyArm(c, arm) == IF arm = "absent" THEN c ELSE SetArm(c, arm = "arm")

ApplyTracking(c, track) == IF track.state = "absent" THEN c ELSE UpdateTracking(c, track)

ApplyCmd(c, p) ==
    ApplyTracking(
        SetManualSetpoints(ApplyArm(ApplyMode(c, p.mode), p.arm), p.axes, p.thr),
        p.track)

\* Fault: the latest CMD is applied again by every iteration.
AcceptsAgain == hasCmd /\ cmd.seq \in Seqs

Accepts ==
    /\ hasCmd /\ cmd.seq \in Seqs
    /\ lastSeq = NoSeq \/ SeqAdvances(lastSeq, cmd.seq)

ReadCmd ==
    /\ pc = "read"
    /\ pc' = "control"
    /\ dt' = sinceTick
    /\ sinceTick' = 0
    /\ \/ /\ Accepts
          /\ lastSeq' = cmd.seq
          /\ fc' = ApplyCmd(fc, cmd.load)
       \/ /\ ~Accepts
          /\ UNCHANGED <<lastSeq, fc>>
    /\ UNCHANGED <<out, server, cmdAge, failsafe, sinkLatch, sinkOk, mismatch>>

\* Fault: a degraded sink does not engage the failsafe.
EnterFailsafeOnStaleOnly(c) ==
    IF CmdStale /\ ~failsafe THEN SetControlMode(c, "LandSafely") ELSE c

\* Fault: a stale link does not engage the failsafe.
EnterFailsafeOnSinkOnly(c) ==
    IF ~sinkOk /\ ~sinkLatch THEN SetControlMode(c, "LandSafely") ELSE c

\* Both latches act on their rising edge only.
EnterFailsafe(c) ==
    IF (CmdStale /\ ~failsafe) \/ (~sinkOk /\ ~sinkLatch)
    THEN SetControlMode(c, "LandSafely")
    ELSE c

Control ==
    /\ pc = "control"
    /\ pc' = "read"
    /\ failsafe' = CmdStale
    /\ sinkLatch' = ~sinkOk
    /\ \E t \in FollowThr : fc' = UpdateTimeStep(EnterFailsafe(fc), dt, t)
    /\ out' = Output(fc')
    /\ sinkOk' \in {sinkOk, FALSE}     \* a write may break the sink, for good
    /\ dt' = 0                         \* the local goes out of scope
    /\ UNCHANGED <<sinceTick, server, cmdAge, lastSeq, mismatch>>

Publish == \E s \in WireSeqs, p \in Payloads : PublishCmd(s, p)

Next == Publish \/ Elapse \/ ReadCmd \/ Control

Spec == Init /\ [][Next]_vars

\* The loop runs until it is told to stop, and time passes.
FairSpec == Spec /\ WF_vars(ReadCmd) /\ WF_vars(Control) /\ WF_vars(Elapse)
-----------------------------------------------------------------------------
(* Safety.                                                                 *)

\* Takeoff and Tracking are flown only with a calibrated hover throttle, a
\* confirmed rate profile and a sink whose degradation has not been latched:
\* apply_control_mode_safely gates the entry, the sink latch ends the mode, and
\* Takeoff's own hand-over to Tracking, which skips the gate, inherits both.
MspModesNeedHealthySink ==
    fc.mode \in MspModes => fc.hover # 0 /\ ~mismatch /\ ~sinkLatch

\* "The end state is LandSafely while stale" (main.cpp, on the edge-triggered
\* failsafe): after every iteration that found the link stale, the mode is
\* LandSafely.  An iteration may apply a CMD and find it stale afterwards, when
\* the latch no longer fires; it takes a loop slower than half the timeout.
LandSafelyWhileStale ==
    pc = "read" /\ failsafe => fc.mode = "LandSafely"

\* Once a landing has auto-disarmed, the motors stay off until the mode is left:
\* the arm flag the backend repeats with every CMD does not spin them up again.
AutoDisarmSticks ==
    pc = "read" /\ fc.mode = "LandSafely" /\ fc.landTimer = DisarmTime
        => ~out.armed /\ out.thr = ThrMin

\* Following is flown on a fresh, confident target only, and no stick position
\* of the following law survives into another armed mode.
FollowNeedsFreshTarget ==
    out.armed /\ out.sticks = "follow" /\ pc = "read" =>
        /\ fc.mode = "Tracking"
        /\ ~TrackStale(fc)
        /\ fc.trackMsg.state = "Tracking" /\ fc.trackMsg.confident

\* A landing that began is never begun again while the mode stays LandSafely:
\* repeated LandSafely CMDs, a failsafe edge or a re-arm do not rewind its timer
\* or raise the throttle its ramp starts from.
LandingNeverRestarts ==
    [][fc.mode = "LandSafely" /\ fc.landInit =>
          \/ fc'.mode # "LandSafely"
          \/ /\ fc'.landInit
             /\ fc'.landStart = fc.landStart
             /\ fc'.landTimer >= fc.landTimer]_vars

\* LandSafely is left only by the iteration that accepts a CMD for the first
\* time: neither the CMD that was current when the failsafe engaged, nor the
\* recovery of the link, resumes a mode on its own.
OnlyNewCmdLeavesLanding ==
    [][fc.mode = "LandSafely" /\ fc'.mode # "LandSafely" =>
          lastSeq' # lastSeq /\ cmd.load.mode = fc'.mode]_vars

\* Motors start only for an operator: the controller goes from disarmed to armed
\* only by accepting a CMD that asks to arm, or in Takeoff (which arms by itself),
\* and there only behind the gate on hover, rate profile and sink.
NoSpontaneousArm ==
    [][~fc.armed /\ fc'.armed =>
          \/ lastSeq' # lastSeq /\ cmd.load.arm = "arm"
          \/ fc.mode = "Takeoff" /\ fc.hover # 0 /\ ~mismatch /\ sinkLatch' = FALSE]_vars

\* When the backend falls silent for good, the vehicle ends up disarmed.
LinkLossDisarms ==
    <>[]CmdStale => <>[](~out.armed /\ out.thr = ThrMin)
=============================================================================
