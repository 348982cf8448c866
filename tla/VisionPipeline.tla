--------------------------- MODULE VisionPipeline ---------------------------
(***************************************************************************)
(* The detection and tracking state machine of the vision process          *)
(* (vision_pipeline.py) with its tracker (opencv_tracker.py): one step is  *)
(* one call of process_frame, in a scene where the target moves, hides and *)
(* comes back, the detector misses it and the tracker loses it.            *)
(*                                                                         *)
(* Boxes are places on a line: two boxes one place apart overlap enough    *)
(* for the tracker to be kept, two farther apart do not (see Boxes).       *)
(* Confidences are in percent.                                             *)
(***************************************************************************)
EXTENDS Integers, FiniteSetsExt

CONSTANTS
    detect_hold_n, search_n, target_detected_grace_frames,
    Paces,            \* what detect_every_n may be
    Decay, Floor,     \* tracker_only_conf_decay and _floor, in percent
    Places,           \* where the target may be; 0 is nowhere
    Confs,            \* the confidences of detections
    Misses,           \* the detector may miss the target
    TrackerKind       \* "none", "true" to the target, or one that "wanders" and fails

ASSUME PipelineAssumption ==
    /\ detect_hold_n \in Nat /\ search_n \in Nat /\ Paces \subseteq Nat \ {0}
    /\ target_detected_grace_frames \in Nat
    /\ Decay \in 1 .. 100 /\ Floor \in 0 .. 100 /\ Confs \subseteq 0 .. 100
    /\ Places \subseteq Nat \ {0} /\ Misses \in BOOLEAN
    /\ TrackerKind \in {"none", "true", "wanders"}

VARIABLES
    detect_every_n,   \* as it is set
    target,   \* the scene
    phase,    \* (frame_id - 1) % detect_every_n of the next frame
    state, hold, search, miss,
    last,     \* _last_detection, with its age in frames
    active, lastBox, conf,   \* _tracker_active, _last_tracker_bbox, _last_tracking_conf
    trk,      \* the tracker: the place it believes the target at, 0 without one
    out,      \* the published result, and the age of its box
    seed      \* history: the confidence of the last detection that was published

vars == <<detect_every_n, target, phase, state, hold, search, miss, last, active, lastBox, conf,
          trk, out, seed>>

States == {"NO_TARGET", "TARGET_DETECTED", "TRACKING", "SEARCHING"}
None == [at |-> 0, conf |-> 0, age |-> 0]
Boxes == [at : {0} \cup Places, conf : Confs \cup {0}, age : 0 .. detect_every_n]
Zero(s) == [state |-> s, at |-> 0, conf |-> 0, age |-> 0]
Near(p, q) == p - q \in -1 .. 1

TypeOK ==
    /\ detect_every_n \in Paces
    /\ target \in {0} \cup Places /\ phase \in 0 .. detect_every_n - 1
    /\ state \in States /\ hold \in 0 .. detect_hold_n + 1 /\ search \in 0 .. search_n
    /\ miss \in 0 .. target_detected_grace_frames /\ last \in Boxes
    /\ active \in BOOLEAN /\ lastBox \in {0} \cup Places /\ trk \in {0} \cup Places
    /\ conf \in 0 .. 100 /\ out.state \in States /\ out.age \in Nat /\ seed \in 0 .. 100

Init ==
    /\ detect_every_n \in Paces
    /\ target = 0 /\ phase = 0
    /\ state = "NO_TARGET" /\ hold = 0 /\ search = 0 /\ miss = 0 /\ last = None
    /\ active = FALSE /\ lastBox = 0 /\ conf = 0 /\ trk = 0
    /\ out = Zero("NO_TARGET") /\ seed = 0
-----------------------------------------------------------------------------
(* The tracker.                                                            *)

\* A box that leaves nothing inside the frame is refused, and OpenCV may refuse any.
Initialize(p) ==
    \E ok \in (CASE TrackerKind = "none" -> {FALSE}
                 [] TrackerKind = "true" -> {TRUE}
                 [] OTHER -> BOOLEAN) :
        trk' = (IF ok THEN p ELSE 0) /\ active' = ok

\* Where update may find the target from where it last saw it; nowhere is a failure.
Finds(t) ==
    IF TrackerKind = "true" THEN {IF t # 0 /\ Near(t, trk) THEN t ELSE 0}
    ELSE {0} \cup {p \in Places : Near(p, trk)}
-----------------------------------------------------------------------------
(* The pipeline.  b is the detection of this frame, None without one.      *)

should_detect == phase = 0

\* The best box of the detections, of which there is one at most.
Detected(t) ==
    IF ~should_detect \/ t = 0 THEN {None}
    ELSE {[at |-> t, conf |-> c, age |-> 0] : c \in Confs} \cup (IF Misses THEN {None} ELSE {})

Remember(b) ==
    last' = IF should_detect THEN b
            ELSE IF last = None THEN None
            ELSE [last EXCEPT !.age = Min({@ + 1, detect_every_n})]

Publish(r) == out' = r

PublishTracking(p, c, age) == Publish([state |-> "TRACKING", at |-> p, conf |-> c, age |-> age])

\* A detection begins or begins again the count of the hold.
Hold(b) ==
    /\ b # None
    /\ state' = "TARGET_DETECTED" /\ hold' = 0 /\ search' = 0 /\ miss' = 0
    /\ Publish(Zero("TARGET_DETECTED"))
    /\ UNCHANGED <<active, lastBox, conf, trk, seed>>

TransitionNoTarget ==
    /\ state' = "NO_TARGET" /\ hold' = 0 /\ search' = 0 /\ miss' = 0
    /\ active' = FALSE /\ lastBox' = 0 /\ conf' = 0 /\ trk' = 0
    /\ Publish(Zero("NO_TARGET"))
    /\ UNCHANGED seed

Stay == UNCHANGED <<state, hold, search, miss, active, lastBox, conf, trk, seed>>

UpdateNoTarget(b) ==
    /\ state = "NO_TARGET"
    /\ \/ Hold(b)
       \/ b = None /\ Stay /\ Publish(Zero("NO_TARGET"))

\* Fault: between two inferences there is no detection.
ReuseNever == None

\* Between two inferences the last detection stands in for one.
Reuse ==
    IF last # None /\ last.age + 1 < detect_every_n
    THEN [last EXCEPT !.age = @ + 1] ELSE None

Missed ==
    \/ /\ miss < target_detected_grace_frames /\ miss' = miss + 1
       /\ Publish(Zero("TARGET_DETECTED"))
       /\ UNCHANGED <<state, hold, search, active, lastBox, conf, trk, seed>>
    \/ miss >= target_detected_grace_frames /\ TransitionNoTarget

BeginTracking(c) ==
    /\ state' = "TRACKING" /\ search' = 0 /\ conf' = c.conf /\ seed' = c.conf
    /\ Initialize(c.at)
    /\ PublishTracking(c.at, c.conf, c.age)

UpdateTargetDetected(b) ==
    /\ state = "TARGET_DETECTED"
    /\ LET c == IF b = None /\ ~should_detect THEN Reuse ELSE b IN
       \/ c = None /\ Missed
       \/ /\ c # None /\ hold' = hold + 1 /\ miss' = 0
          /\ \/ hold + 1 >= detect_hold_n /\ BeginTracking(c)
             \/ /\ hold + 1 < detect_hold_n /\ Publish(Zero("TARGET_DETECTED"))
                /\ UNCHANGED <<state, search, active, conf, trk, seed>>
          /\ UNCHANGED lastBox

\* Fault: the floor also lifts what began below it.
DecayedToFloor(c) == Max({(c * Decay) \div 100, Floor})

\* The floor holds up what began above it and nothing else.
Decayed(c) == IF c >= Floor THEN Max({(c * Decay) \div 100, Floor}) ELSE (c * Decay) \div 100

\* A detection is believed; the tracker is asked nothing, and told of it when the box kept
\* from the last frame is too far from it.
TrackDetection(b) ==
    /\ b # None
    /\ IF ~active \/ lastBox = 0 \/ ~Near(lastBox, b.at)
       THEN Initialize(b.at) ELSE UNCHANGED <<active, trk>>
    /\ lastBox' = (IF active' THEN b.at ELSE 0)
    /\ conf' = b.conf /\ seed' = b.conf
    /\ PublishTracking(b.at, b.conf, 0)
    /\ UNCHANGED <<state, hold, search, miss>>

TrackAlone(p) ==
    /\ p # 0
    /\ trk' = p /\ lastBox' = p /\ conf' = Decayed(conf)
    /\ PublishTracking(p, conf', 0)
    /\ UNCHANGED <<state, hold, search, miss, active, seed>>

\* Fault: the last box is published once more, and the tracker kept.
LoseByCoasting ==
    /\ PublishTracking(out.at, conf, out.age + 1)
    /\ UNCHANGED <<state, hold, search, miss, active, lastBox, conf, trk, seed>>

Lose ==
    /\ state' = "SEARCHING" /\ search' = 0 /\ hold' = 0
    /\ active' = FALSE /\ lastBox' = 0 /\ conf' = 0 /\ trk' = 0
    /\ Publish(Zero("SEARCHING"))
    /\ UNCHANGED <<miss, seed>>

UpdateTracking(t, b) ==
    /\ state = "TRACKING"
    /\ \/ TrackDetection(b)
       \/ b = None /\ active /\ \E p \in Finds(t) : TrackAlone(p) \/ (p = 0 /\ Lose)
       \/ b = None /\ ~active /\ Lose

UpdateSearching(b) ==
    /\ state = "SEARCHING"
    /\ \/ Hold(b)
       \/ /\ b = None /\ search + 1 < search_n /\ search' = search + 1
          /\ Publish(Zero("SEARCHING"))
          /\ UNCHANGED <<state, hold, miss, active, lastBox, conf, trk, seed>>
       \/ b = None /\ search + 1 >= search_n /\ TransitionNoTarget

\* The target moves one place at most, or hides, or appears somewhere.
Moves == {t \in {0} \cup Places : target = 0 \/ t = 0 \/ Near(t, target)}

ProcessFrame ==
    \E t \in Moves : \E b \in Detected(t) :
        /\ target' = t /\ phase' = (phase + 1) % detect_every_n
        /\ Remember(b)
        /\ UpdateNoTarget(b) \/ UpdateTargetDetected(b) \/ UpdateTracking(t, b) \/ UpdateSearching(b)

Next == ProcessFrame /\ UNCHANGED detect_every_n

Spec == Init /\ [][Next]_vars

\* Frames keep coming: the loop reads its source again and again.
Fairness == WF_vars(Next)

FairSpec == Spec /\ Fairness
-----------------------------------------------------------------------------
(* Properties.                                                             *)

\* The flight controller follows a target from its minimum confidence on, which the floor
\* equals: while the tracker alone holds the target, the confidence stays between the floor
\* and the detection it came from, and one that began below the floor never reaches it.
ConfidenceIsEarned ==
    out.state = "TRACKING" =>
        out.conf <= seed /\ (out.conf >= Floor <=> seed >= Floor)

\* A box sent as tracked is of this frame, or of the last inference; and the pipeline takes the
\* tracker for active exactly when it has a target: an update asked of one without fails for
\* ever, and one kept where none is due is never asked.
TrackedIsReal ==
    /\ active <=> trk # 0
    /\ out.state = "TRACKING" => out.at # 0 /\ out.age < detect_every_n

\* With any pace of inference, process_frame sends no box as tracked that is old or of a
\* tracker that has none.
PipelineIsSound == TypeOK /\ TrackedIsReal

\* A target that comes to rest in sight of a detector and a tracker that see it is tracked
\* for good, however it moved before.
Settles == \A p \in Places : <>[](target = p) => <>[](out.state = "TRACKING")
=============================================================================
