------------------------------- MODULE MspSink -------------------------------
(***************************************************************************)
(* The flight controller's serial sink in flight (MspRcSink.cpp): a frame  *)
(* of channels written each tick, write() by write(), on a line that takes *)
(* some bytes, none, or fails; and every PollEvery ticks the arm switch    *)
(* that Betaflight reports, latched, with a new query.                     *)
(***************************************************************************)
EXTENDS Naturals, FiniteSetsExt

CONSTANTS
    FrameLen,       \* bytes of a frame
    MaxNoProgress,  \* kMaxNoProgress
    MaxTotal,       \* kMaxTotal
    PollEvery,      \* kMspRcPollEvery
    Stale           \* kArmSwitchStaleMs, in ticks

ASSUME SinkAssumption ==
    /\ FrameLen \in Nat \ {0} /\ MaxNoProgress \in Nat \ {0} /\ MaxTotal \in Nat \ {0}
    /\ PollEvery \in Nat \ {0} /\ Stale \in Nat

VARIABLES
    pc,        \* "idle", "rc" (the channels are written) or "query"
    fd,        \* is the line open
    off, noProgress, attempts,   \* of the frame being written
    tick,      \* tick_counter_ modulo PollEvery
    asked, reply,   \* Betaflight has a query; its reply: the switch and its age, or none
    arm, replied,   \* arm_switch_; ticks since the last reply was taken
    age,       \* history: how old what the latch says is
    torn       \* history: a part of a frame was left on the line

sinkVars == <<pc, fd, off, noProgress, attempts, tick, asked, reply, arm, replied, age, torn>>

frame == <<off, noProgress, attempts>>
latch == <<arm, replied, age>>

Long == Stale + 2 * PollEvery + 1    \* and longer
NoReply == [arm |-> FALSE, age |-> Long + 1]

SinkTypeOK ==
    /\ pc \in {"idle", "rc", "query"} /\ fd \in BOOLEAN
    /\ off \in 0 .. FrameLen - 1 /\ noProgress \in 0 .. MaxNoProgress - 1
    /\ attempts \in 0 .. MaxTotal - 1
    /\ tick \in 0 .. PollEvery - 1 /\ asked \in BOOLEAN
    /\ reply \in [arm : BOOLEAN, age : 0 .. Long] \cup {NoReply}
    /\ arm \in BOOLEAN /\ replied \in 0 .. Long /\ age \in 0 .. Long /\ torn \in BOOLEAN

SinkInit ==
    /\ pc = "idle" /\ fd = TRUE /\ off = 0 /\ noProgress = 0 /\ attempts = 0
    /\ tick = 0 /\ asked = FALSE /\ reply = NoReply
    /\ arm = FALSE /\ replied = 0 /\ age = 0 /\ torn = FALSE
-----------------------------------------------------------------------------
(* write_frame_.                                                           *)

NewFrame == off' = 0 /\ noProgress' = 0 /\ attempts' = 0

EndTick == pc' = "idle" /\ tick' = (tick + 1) % PollEvery

\* Fault: the latch is cleared only by a reply.
PollTrusting ==
    /\ IF reply = NoReply THEN UNCHANGED latch
       ELSE arm' = reply.arm /\ age' = reply.age /\ replied' = 0
    /\ reply' = NoReply

\* poll_msp_rc_: the reply that has come is taken, and a latch too old is cleared.
Poll ==
    /\ IF reply = NoReply
       THEN arm' = (arm /\ replied <= Stale) /\ UNCHANGED <<age, replied>>
       ELSE arm' = reply.arm /\ age' = reply.age /\ replied' = 0
    /\ reply' = NoReply

\* A frame is out: the channels' is followed by a poll when it is time, and that by a query.
Written ==
    /\ NewFrame
    /\ IF pc = "rc" /\ tick = 0
       THEN Poll /\ pc' = "query" /\ UNCHANGED <<tick, asked>>
       ELSE EndTick /\ asked' = (asked \/ pc = "query") /\ UNCHANGED <<latch, reply>>
    /\ UNCHANGED <<fd, torn>>

\* Fault: the rest of the frame is given up, and the line stays open.
GiveUpOpen ==
    /\ torn' = (torn \/ off > 0)
    /\ NewFrame /\ EndTick
    /\ UNCHANGED <<fd, asked, reply, latch>>

\* The line is closed, and nothing is polled any more.
GiveUp ==
    /\ fd' = FALSE /\ torn' = (torn \/ off > 0)
    /\ NewFrame /\ EndTick
    /\ UNCHANGED <<asked, reply, latch>>

\* write() took n bytes: one more attempt, and no two without progress yet.
Progress(n) ==
    IF off + n = FrameLen THEN Written
    ELSE IF attempts + 1 = MaxTotal
    THEN /\ fd' = FALSE /\ torn' = TRUE
         /\ NewFrame /\ EndTick /\ UNCHANGED <<asked, reply, latch>>
    ELSE /\ off' = off + n /\ noProgress' = 0 /\ attempts' = attempts + 1
         /\ UNCHANGED <<pc, fd, tick, asked, reply, latch, torn>>

\* It would block, or was interrupted.
Blocked ==
    IF noProgress + 1 = MaxNoProgress \/ attempts + 1 = MaxTotal THEN GiveUp
    ELSE /\ noProgress' = noProgress + 1 /\ attempts' = attempts + 1
         /\ UNCHANGED <<pc, fd, off, tick, asked, reply, latch, torn>>

Write ==
    /\ pc # "idle"
    /\ \/ \E n \in 1 .. FrameLen - off : Progress(n)
       \/ Blocked
       \/ GiveUp
-----------------------------------------------------------------------------
\* writeChannels, once per tick of the control loop; of a closed line nothing is asked.
WriteChannels ==
    /\ pc = "idle"
    /\ pc' = IF fd THEN "rc" ELSE "idle"
    /\ replied' = Min({replied + 1, Long}) /\ age' = Min({age + 1, Long})
    /\ reply' = IF reply = NoReply THEN NoReply ELSE [reply EXCEPT !.age = Min({@ + 1, Long})]
    /\ UNCHANGED <<fd, frame, tick, asked, arm, torn>>

\* Betaflight answers, at any time, or never, with the switch as it is.
Answer ==
    /\ asked /\ asked' = FALSE
    /\ \E a \in BOOLEAN : reply' = [arm |-> a, age |-> 0]
    /\ UNCHANGED <<pc, fd, frame, tick, latch, torn>>

LoseQuery == asked /\ asked' = FALSE /\ UNCHANGED <<pc, fd, frame, tick, reply, latch, torn>>

SinkNext == WriteChannels \/ Write \/ Answer \/ LoseQuery

SinkSpec == SinkInit /\ [][SinkNext]_sinkVars
-----------------------------------------------------------------------------
(* Properties.                                                             *)

TornIsClosed == torn => ~fd

\* A frame that was begun is finished within the budgets of its writes, or no other follows
\* it: Betaflight never reads the end of one frame of channels in another.
NoFrameInAnother == SinkTypeOK /\ TornIsClosed

\* While the line is open an arm switch that reads on was on not long ago, however many
\* queries and replies were lost: the age threshold and two polls.
ArmSwitchIsRecent == fd /\ arm => age <= Stale + 2 * PollEvery
=============================================================================
