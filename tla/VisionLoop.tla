----------------------------- MODULE VisionLoop -----------------------------
(***************************************************************************)
(* The loop of the vision process (main.py) over its source, with the      *)
(* frames it pushes to the backend over HTTP (frame_pusher.py) and the VIS *)
(* messages it sends over UDP (udp_vis_sender.py).                         *)
(*                                                                         *)
(* Everything runs in one thread, so what one part waits for delays the    *)
(* others: time passes while a frame is read, while the source backs off   *)
(* and while a push waits for its answer.  Time is in ticks; a schedule is *)
(* the ticks left until it is due.                                         *)
(***************************************************************************)
EXTENDS Camera

CONSTANTS
    VisInterval, FrameInterval,   \* 1 / vis_hz and 1 / frame_fps; 0 is every frame
    PushMax,      \* the longest a push takes, which no single timeout bounds
    WarnAfter,    \* _BLACK_FRAME_WARN_AFTER
    AgeCap        \* bound: ages are not told apart from here on

ASSUME LoopAssumption ==
    /\ VisInterval \in Nat /\ FrameInterval \in Nat /\ PushMax \in Nat
    /\ WarnAfter \in Nat \ {0} /\ AgeCap \in Nat \ {0}

VARIABLES
    pc,        \* where in the turn, or in the finally, the thread is, or "done"
    visDue, pushDue,   \* ticks until a VIS message and a frame are due
    due,       \* whether each was when now_s was taken
    spent,     \* ticks since now_s was taken
    visAge,    \* ticks since the last VIS message was sent
    starved,   \* history: a read found no frame at once since the last VIS message
    black, warned,     \* consecutive_black_frames, black_frame_warn_emitted
    warnings,  \* history: warnings since the last frame that was not black
    closed,    \* which of the publisher, the client and the socket are closed
    cut        \* history: what was cut off, the "reading" or the "closing"

loopVars == <<pc, visDue, pushDue, due, spent, visAge, starved, black, warned, warnings, closed, cut>>
processVars == <<cameraVars, loopVars>>
clocks == <<visDue, pushDue, visAge>>
blackVars == <<black, warned, warnings>>

Turning == {"read", "look", "push", "emit", "again"}
Closables == {"publisher", "client", "socket"}

LoopTypeOK ==
    /\ CameraTypeOK
    /\ pc \in Turning \cup Closables \cup {"summary", "release", "done"}
    /\ visDue \in 0 .. VisInterval /\ pushDue \in 0 .. FrameInterval
    /\ due \in [vis : BOOLEAN, push : BOOLEAN] /\ spent \in 0 .. PushMax
    /\ visAge \in 0 .. AgeCap /\ starved \in BOOLEAN
    /\ black \in 0 .. WarnAfter /\ warned \in BOOLEAN /\ warnings \in Nat
    /\ closed \subseteq Closables /\ cut \subseteq {"reading", "closing"}

LoopInit ==
    /\ CameraInit
    /\ pc = "read" /\ visDue = 0 /\ pushDue = 0 /\ due = [vis |-> FALSE, push |-> FALSE]
    /\ spent = 0 /\ visAge = 0 /\ starved = FALSE
    /\ black = 0 /\ warned = FALSE /\ warnings = 0
    /\ closed = {} /\ cut = {}

Ticks(d) ==
    /\ visDue' = Max({0, visDue - d}) /\ pushDue' = Max({0, pushDue - d})
    /\ visAge' = Min({AgeCap, visAge + d})
-----------------------------------------------------------------------------
(* One turn of the loop.                                                   *)

Reads(step, took, next) ==
    /\ pc = "read" /\ step /\ Ticks(took)
    /\ pc' = next
    /\ starved' = (starved \/ ~Delivers)
    /\ UNCHANGED <<due, spent, blackVars, closed, cut>>

\* A webcam's failed read is tried again; a file's is the end.
Read ==
    \/ Reads(ReadFrame, 1, "look")
    \/ Reads(ReadEnd, 0, "summary")
    \/ Reads(ReadSettling, 1, "read")
    \/ Reads(Reconnect, backoff, IF device = "good" THEN "look" ELSE "read")
    \/ Reads(ReconnectFails, backoff, "read")

Warn(isBlack) ==
    IF ~isBlack THEN black' = 0 /\ warned' = FALSE /\ warnings' = 0
    ELSE /\ black' = Min({black + 1, WarnAfter})
         /\ warned' = (warned \/ black + 1 >= WarnAfter)
         /\ warnings' = IF black + 1 >= WarnAfter /\ ~warned THEN Min({warnings + 1, 2}) ELSE warnings

\* The frame goes through the black-frame check and the pipeline; then the clock is read.
Look ==
    /\ pc = "look" /\ pc' = "push"
    /\ \E isBlack \in BOOLEAN : Warn(isBlack)
    /\ due' = [vis |-> visDue = 0, push |-> pushDue = 0]
    /\ spent' = 0
    /\ UNCHANGED <<cameraVars, clocks, starved, closed, cut>>

\* A read may be cut off anywhere on its way.
ReadIsCut ==
    /\ pc = "read" /\ ReadRaises /\ pc' = "summary"
    /\ cut' = cut \cup {"reading"}
    /\ UNCHANGED <<clocks, due, spent, starved, blackVars, closed>>

\* The detector, the tracker, the publisher or the preview raises, or a signal interrupts the
\* turn, in a push too; what the turn has counted by then is not read again.
Raises ==
    /\ pc \in Turning \ {"read"} /\ pc' = "summary"
    /\ UNCHANGED <<cameraVars, clocks, due, spent, starved, blackVars, closed, cut>>

\* A frame that cannot be encoded, or not small enough, takes no time; a post does.
PushTakes == 0 .. PushMax

\* The next push is due an interval after the clock was read.
PushOrNot ==
    /\ pc = "push" /\ pc' = "emit"
    /\ IF due.push
       THEN \E took \in PushTakes :
               /\ spent' = took
               /\ visDue' = Max({0, visDue - took}) /\ visAge' = Min({AgeCap, visAge + took})
               /\ pushDue' = Max({0, FrameInterval - took})
       ELSE UNCHANGED <<spent, clocks>>
    /\ UNCHANGED <<cameraVars, due, starved, blackVars, closed, cut>>

\* Fault: a message goes out only with a frame that is pushed.
EmitWithPush ==
    /\ pc = "emit" /\ pc' = "again"
    /\ IF due.vis /\ due.push
       THEN visDue' = Max({0, VisInterval - spent}) /\ visAge' = 0 /\ starved' = FALSE
       ELSE UNCHANGED <<visDue, visAge, starved>>
    /\ UNCHANGED <<cameraVars, due, spent, pushDue, blackVars, closed, cut>>

\* Whether a message is due was settled when the clock was read, before the push.
Emit ==
    /\ pc = "emit" /\ pc' = "again"
    /\ IF due.vis
       THEN visDue' = Max({0, VisInterval - spent}) /\ visAge' = 0 /\ starved' = FALSE
       ELSE UNCHANGED <<visDue, visAge, starved>>
    /\ UNCHANGED <<cameraVars, due, spent, pushDue, blackVars, closed, cut>>

\* Nobody quits the preview, and max_frames is not reached.
Again ==
    /\ pc = "again" /\ pc' = "read"
    /\ UNCHANGED <<cameraVars, clocks, due, spent, starved, blackVars, closed, cut>>

Quit ==
    /\ pc = "again" /\ pc' = "summary"
    /\ UNCHANGED <<cameraVars, clocks, due, spent, starved, blackVars, closed, cut>>

-----------------------------------------------------------------------------
(* The finally.                                                            *)

\* Fault: the client is taken to need no closing.
AfterForgettingClient ==
    [summary |-> "release", release |-> "publisher", publisher |-> "socket",
     client |-> "socket", socket |-> "done"]

After ==
    [summary |-> "release", release |-> "publisher", publisher |-> "client",
     client |-> "socket", socket |-> "done"]

Closes(step) ==
    /\ IF step = "release" THEN Release ELSE UNCHANGED cameraVars
    /\ closed' = closed \cup ({step} \cap Closables)

End ==
    /\ pc \in DOMAIN After /\ pc' = After[pc]
    /\ Closes(pc)
    /\ UNCHANGED <<clocks, due, spent, starved, blackVars, cut>>

\* A step that raises, or is interrupted, may have done its work; those after it are skipped.
EndRaises ==
    /\ pc \in DOMAIN After /\ pc' = "done"
    /\ Closes(pc) \/ UNCHANGED <<cameraVars, closed>>
    /\ cut' = cut \cup {"closing"}
    /\ UNCHANGED <<clocks, due, spent, starved, blackVars>>
-----------------------------------------------------------------------------
Step ==
    \/ Read \/ ReadIsCut \/ Look \/ Raises \/ PushOrNot \/ Emit \/ Again \/ Quit
    \/ End \/ EndRaises

Device == pc # "done" /\ DeviceChanges /\ UNCHANGED loopVars

LoopNext == Step \/ Device

LoopSpec == LoopInit /\ [][LoopNext]_processVars

Turn == Read \/ Look \/ PushOrNot \/ Emit \/ Again

\* The loop turns.
LoopFairness == WF_processVars(Turn)

LoopFairSpec == LoopSpec /\ LoopFairness
-----------------------------------------------------------------------------
(* Properties.                                                             *)

\* cv2 reads of a released capture are undefined, on some systems a crash (camera.py), and
\* a capture that is not released keeps the device from the next one.
CaptureIsSound ==
    /\ pc = "read" => capture # "released"
    /\ pc \in Turning => handles = (IF capture \in {"open", "broken"} THEN 1 ELSE 0)

\* While the source delivers, the next VIS message is sent an interval, a frame and two
\* pushes after the last: this much is lost of the freshness the backend asks for.
VisKeepsComing == ~starved => visAge <= VisInterval + 1 + 2 * PushMax

\* "Warn once per low-var stretch": neither twice nor never.
WarnsOnce == warnings = (IF black = WarnAfter THEN 1 ELSE 0)

\* Each is closed after those before it.  Once the loop has ended without a closing step that
\* raised, nothing is open but a capture that a cut reconnect had opened and not yet kept.
EndsClean ==
    /\ "socket" \in closed => "client" \in closed
    /\ "client" \in closed => "publisher" \in closed
    /\ "publisher" \in closed /\ "reading" \notin cut => handles = 0
    /\ pc = "done" /\ "closing" \notin cut =>
          closed = Closables /\ (handles = 0 \/ (capture = "dead" /\ "reading" \in cut))

\* However the camera fails and wherever the loop is left, no released capture is read and
\* one that is replaced is released; what is open at the end is what a second failure, in the
\* closing, skipped; and a dark stretch is warned of once.
LoopIsSound == LoopTypeOK /\ CaptureIsSound /\ WarnsOnce /\ EndsClean

\* A camera that comes back is found again, whatever the source went through.
CameraRecovers == <>[](device = "good") => []<>(pc # "read")
=============================================================================
