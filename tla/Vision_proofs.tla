---------------------------- MODULE Vision_proofs ----------------------------
(* Theorems about the vision process.                                        *)
(*   Its pipeline, for every set of places and confidences, every tracker,   *)
(* every decay and floor, and every value of the counts that pace it.        *)
(*   Its loop, for every interval and every timeout, with a camera that      *)
(* fails in any way.                                                         *)
(*   The geometry of its boxes, in a frame of any size.                      *)
EXTENDS VisionPipeline, VisionLoop, Boxes, FiniteSetTheorems, TLAPS

-----------------------------------------------------------------------------
(* The inductive invariant.                                                *)

Published == [state : States, at : {0} \cup Places, conf : 0 .. 100, age : Nat]

\* What is remembered of a detection is remembered whole.
LastInv == last # None => last.at # 0

\* The hold begins tracking as soon as it is long enough.
HoldInv == state = "TARGET_DETECTED" => hold <= detect_hold_n

\* A confidence is between the floor and its detection, or with it below the floor.
Earned(c) == c <= seed /\ (c >= Floor <=> seed >= Floor)

\* What is published as tracked is the confidence that is kept, and kept while tracking.
ConfInv ==
    /\ out \in Published
    /\ state = "TRACKING" => Earned(conf)
    /\ out.state = "TRACKING" => state = "TRACKING" /\ out.conf = conf

PipelineInv == TypeOK /\ LastInv /\ HoldInv /\ ConfInv /\ TrackedIsReal
-----------------------------------------------------------------------------
(* Boxes and confidences.                                                  *)

\* A detection that may be published: it is somewhere, and of this inference or the last.
FreshBoxes == [at : Places, conf : 0 .. 100, age : 0 .. detect_every_n - 1]

LEMMA MinPair ==
    ASSUME NEW a \in Int, NEW b \in Int
    PROVE  Min({a, b}) = IF a <= b THEN a ELSE b
<1> DEFINE m == IF a <= b THEN a ELSE b
<1>1. m \in {a, b} /\ \A y \in {a, b} : m <= y
  OBVIOUS
<1>2. \A x \in {a, b} : (\A y \in {a, b} : x <= y) => x = m
  OBVIOUS
<1> HIDE DEF m
<1>3. (CHOOSE x \in {a, b} : \A y \in {a, b} : x <= y) = m
  BY <1>1, <1>2, Zenon
<1>4. QED
  BY <1>3 DEF Min, m

LEMMA MaxPair ==
    ASSUME NEW a \in Int, NEW b \in Int
    PROVE  Max({a, b}) = IF a >= b THEN a ELSE b
<1> DEFINE m == IF a >= b THEN a ELSE b
<1>1. m \in {a, b} /\ \A y \in {a, b} : m >= y
  OBVIOUS
<1>2. \A x \in {a, b} : (\A y \in {a, b} : x >= y) => x = m
  OBVIOUS
<1> HIDE DEF m
<1>3. (CHOOSE x \in {a, b} : \A y \in {a, b} : x >= y) = m
  BY <1>1, <1>2, Zenon
<1>4. QED
  BY <1>3 DEF Max, m

\* A frame without a detection multiplies the confidence by the decay, which raises none.
LEMMA DecayLowers ==
    ASSUME NEW c \in 0 .. 100
    PROVE  (c * Decay) \div 100 \in 0 .. c
<1> DEFINE q == (c * Decay) \div 100
<1>1. Decay \in 1 .. 100
  BY PipelineAssumption
<1>2. c * Decay \in Nat /\ c * Decay <= c * 100
  BY <1>1
<1>3. q \in Nat /\ q * 100 <= c * Decay
  BY <1>2
<1> HIDE DEF q
<1>4. q <= c
  BY <1>2, <1>3
<1>5. QED
  BY <1>3, <1>4 DEF q

\* The floor lifts no confidence above what it was, and none across the floor.
LEMMA DecayedStays ==
    ASSUME NEW c \in 0 .. 100
    PROVE  /\ Decayed(c) \in 0 .. 100
           /\ Decayed(c) <= c
           /\ Decayed(c) >= Floor <=> c >= Floor
<1> DEFINE q == (c * Decay) \div 100
<1>1. q \in 0 .. c
  BY DecayLowers
<1>2. Floor \in 0 .. 100
  BY PipelineAssumption
<1>3. Decayed(c) = IF c >= Floor THEN Max({q, Floor}) ELSE q
  BY DEF Decayed
<1> HIDE DEF q
<1>4. Max({q, Floor}) = IF q >= Floor THEN q ELSE Floor
  BY <1>1, <1>2, MaxPair
<1>5. QED
  BY <1>1, <1>2, <1>3, <1>4

\* What the detector returns in a frame.
LEMMA DetectedType ==
    ASSUME detect_every_n \in Paces, NEW t \in {0} \cup Places, NEW b \in Detected(t)
    PROVE  b \in FreshBoxes \cup {None}
<1>1. Confs \subseteq 0 .. 100 /\ detect_every_n \in Nat \ {0}
  BY PipelineAssumption
<1>2. CASE ~should_detect \/ t = 0
  BY <1>2, Zenon DEF Detected
<1>3. CASE ~(~should_detect \/ t = 0)
  <2>1. b \in {[at |-> t, conf |-> c, age |-> 0] : c \in Confs} \cup {None}
    BY <1>3, Zenon DEF Detected
  <2>2. ASSUME NEW c \in Confs PROVE [at |-> t, conf |-> c, age |-> 0] \in FreshBoxes
    BY <1>1, <1>3 DEF FreshBoxes
  <2>3. QED
    BY <2>1, <2>2, Zenon
<1>4. QED
  BY <1>2, <1>3

LEMMA FreshBoxesAreSome ==
    ASSUME detect_every_n \in Paces
    PROVE  /\ None \notin FreshBoxes
           /\ \A d \in FreshBoxes :
                 d.at \in Places /\ d.at # 0 /\ d.conf \in 0 .. 100
                 /\ d.age \in Nat /\ d.age < detect_every_n
<1>1. 0 \notin Places /\ Confs \subseteq 0 .. 100 /\ detect_every_n \in Nat \ {0}
  BY PipelineAssumption
<1>2. QED
  BY <1>1 DEF FreshBoxes, None

\* The detection kept from the last inference stands in until the next one is due.
LEMMA ReuseType ==
    ASSUME TypeOK, LastInv
    PROVE  Reuse \in FreshBoxes \cup {None}
<1>1. last \in Boxes /\ (last # None => last.at # 0) /\ detect_every_n \in Nat \ {0}
  BY PipelineAssumption DEF TypeOK, LastInv
<1>2. CASE last # None /\ last.age + 1 < detect_every_n
  <2>1. Reuse = [last EXCEPT !.age = last.age + 1]
    BY <1>2 DEF Reuse
  <2>2. last.at \in Places /\ last.age \in Nat /\ last.conf \in 0 .. 100
    <3>1. /\ last.at \in {0} \cup Places /\ last.conf \in Confs \cup {0}
          /\ last.age \in 0 .. detect_every_n
      BY <1>1 DEF Boxes
    <3>2. Confs \subseteq 0 .. 100 /\ 0 \in 0 .. 100 /\ detect_every_n \in Nat
      BY <1>1, PipelineAssumption
    <3>3. last.at # 0
      BY <1>1, <1>2, Zenon
    <3>4. last.conf \in 0 .. 100
      BY <3>1, <3>2, Zenon
    <3>5. QED
      BY <3>1, <3>2, <3>3, <3>4
  <2>3. Reuse = [at |-> last.at, conf |-> last.conf, age |-> last.age + 1]
    BY <1>1, <2>1 DEF Boxes
  <2>4. QED
    <3>1. last.age + 1 \in 0 .. detect_every_n - 1
      BY <1>1, <2>2, <1>2
    <3>2. QED
      BY <2>2, <2>3, <3>1 DEF FreshBoxes
<1>3. CASE ~(last # None /\ last.age + 1 < detect_every_n)
  BY <1>3 DEF Reuse
<1>4. QED
  BY <1>2, <1>3
-----------------------------------------------------------------------------
(* What a frame does to the scene and to what is remembered of it.         *)

LEMMA SceneKeeps ==
    ASSUME TypeOK, NEW t \in Moves,
           target' = t, phase' = (phase + 1) % detect_every_n
    PROVE  /\ t \in {0} \cup Places
           /\ target' \in {0} \cup Places /\ phase' \in 0 .. detect_every_n - 1
<1>1. t \in {0} \cup Places
  BY Zenon DEF Moves
<1>2. phase \in Nat /\ detect_every_n \in Nat \ {0}
  BY PipelineAssumption DEF TypeOK
<1>3. (phase + 1) % detect_every_n \in 0 .. detect_every_n - 1
  BY <1>2
<1>4. QED
  BY <1>1, <1>3

LEMMA RememberKeeps ==
    ASSUME TypeOK, LastInv,
           NEW t \in {0} \cup Places, NEW b \in Detected(t), Remember(b)
    PROVE  last' \in Boxes /\ LastInv'
<1>1. /\ 0 \notin Places /\ Confs \subseteq 0 .. 100 /\ detect_every_n \in Nat \ {0}
      /\ last \in Boxes /\ (last # None => last.at # 0)
  BY PipelineAssumption DEF TypeOK, LastInv
<1>2. None \in Boxes
  BY <1>1 DEF None, Boxes
<1>3. CASE should_detect
  <2>1. last' = b
    BY <1>3 DEF Remember
  <2>2. CASE t = 0
    BY <1>2, <2>1, <2>2, Zenon DEF Detected, LastInv
  <2>3. CASE t # 0
    <3>1. b \in {[at |-> t, conf |-> c, age |-> 0] : c \in Confs} \cup {None}
      BY <1>3, <2>3, Zenon DEF Detected
    <3>2. ASSUME NEW c \in Confs
          PROVE  [at |-> t, conf |-> c, age |-> 0] \in Boxes
      BY <1>1 DEF Boxes
    <3>3. b # None => b \in Boxes /\ b.at = t
      BY <3>1, <3>2
    <3>4. QED
      BY <1>2, <2>1, <2>3, <3>3 DEF LastInv
  <2>4. QED
    BY <2>2, <2>3
<1>4. CASE ~should_detect /\ last = None
  BY <1>2, <1>4 DEF Remember, LastInv
<1>5. CASE ~should_detect /\ last # None
  <2>1. last' = [last EXCEPT !.age = Min({last.age + 1, detect_every_n})]
    BY <1>5 DEF Remember
  <2>2. last.age \in 0 .. detect_every_n
    BY <1>1 DEF Boxes
  <2>3. Min({last.age + 1, detect_every_n}) \in 0 .. detect_every_n
    BY <1>1, <2>2, MinPair
  <2>4. last' \in Boxes /\ last'.at = last.at
    BY <1>1, <2>1, <2>3 DEF Boxes
  <2>5. QED
    BY <1>1, <1>5, <2>4 DEF LastInv
<1>6. QED
  BY <1>3, <1>4, <1>5

-----------------------------------------------------------------------------
(* What a frame does to the state machine and its tracker.                 *)

\* The invariant, of all but the scene and what is remembered.
PipeType ==
    /\ state \in States /\ hold \in 0 .. detect_hold_n + 1 /\ search \in 0 .. search_n
    /\ miss \in 0 .. target_detected_grace_frames
    /\ active \in BOOLEAN /\ lastBox \in {0} \cup Places /\ trk \in {0} \cup Places
    /\ conf \in 0 .. 100 /\ seed \in 0 .. 100

Pipe == PipeType /\ HoldInv /\ ConfInv /\ TrackedIsReal

LEMMA PipelineInvParts ==
    /\ PipelineInv => Pipe /\ TypeOK /\ LastInv
    /\ Pipe /\ LastInv /\ last \in Boxes
          /\ target \in {0} \cup Places /\ phase \in 0 .. detect_every_n - 1 /\ detect_every_n \in Paces
       => PipelineInv
BY Zenon DEF PipelineInv, Pipe, PipeType, TypeOK, ConfInv, Published
\* A tracker that starts is active and believes the target where it was told.
LEMMA InitializeType ==
    ASSUME NEW p \in Places, Initialize(p)
    PROVE  /\ active' \in BOOLEAN /\ trk' \in {0} \cup Places
           /\ active' <=> trk' # 0
<1>1. PICK ok \in BOOLEAN : trk' = (IF ok THEN p ELSE 0) /\ active' = ok
  BY PipelineAssumption DEF Initialize
<1>2. p # 0
  BY PipelineAssumption
<1>3. QED
  BY <1>1, <1>2

\* Outside tracking nothing is published as tracked.
LEMMA ZeroPublished ==
    ASSUME NEW s \in States, s # "TRACKING", out' = Zero(s)
    PROVE  out' \in Published /\ out'.state # "TRACKING"
BY DEF Zero, Published, States

\* While tracking, a box that is somewhere and of an inference not too long ago.
LEMMA TrackingPublished ==
    ASSUME detect_every_n \in Paces, NEW p \in Places, NEW c \in 0 .. 100,
           NEW a \in 0 .. detect_every_n - 1, PublishTracking(p, c, a)
    PROVE  /\ out' \in Published /\ out'.conf = c
           /\ out'.at # 0 /\ out'.age < detect_every_n
BY PipelineAssumption DEF PublishTracking, Publish, Published, States

LEMMA HoldKeeps ==
    ASSUME Pipe, UNCHANGED detect_every_n,
           NEW b, Hold(b)
    PROVE  Pipe'
<1>1. /\ detect_hold_n \in Nat /\ search_n \in Nat /\ target_detected_grace_frames \in Nat
  BY PipelineAssumption
<1>2. out' \in Published /\ out'.state # "TRACKING"
  BY ZeroPublished DEF Hold, Publish, States
<1>3. PipeType'
  BY <1>1 DEF Pipe, PipeType, Hold, States
<1>4. QED
  BY <1>1, <1>2, <1>3 DEF Pipe, Hold, HoldInv, ConfInv, TrackedIsReal

LEMMA NoTargetKeeps ==
    ASSUME Pipe, UNCHANGED detect_every_n,
           TransitionNoTarget
    PROVE  Pipe'
<1>1. /\ detect_hold_n \in Nat /\ search_n \in Nat /\ target_detected_grace_frames \in Nat
  BY PipelineAssumption
<1>2. out' \in Published /\ out'.state # "TRACKING"
  BY ZeroPublished DEF TransitionNoTarget, Publish, States
<1>3. PipeType'
  <2>1. /\ state' \in States /\ hold' \in 0 .. detect_hold_n + 1 /\ search' \in 0 .. search_n
        /\ miss' \in 0 .. target_detected_grace_frames
        /\ conf' \in 0 .. 100 /\ seed' \in 0 .. 100
    BY <1>1 DEF Pipe, PipeType, TransitionNoTarget, States
  <2>2. /\ active' \in BOOLEAN /\ lastBox' \in {0} \cup Places /\ trk' \in {0} \cup Places
    BY Zenon DEF TransitionNoTarget
  <2>3. QED
    BY <2>1, <2>2, Zenon DEF PipeType
<1>4. QED
  BY <1>1, <1>2, <1>3 DEF Pipe, TransitionNoTarget, HoldInv, ConfInv, TrackedIsReal

LEMMA UpdateNoTargetKeeps ==
    ASSUME Pipe, UNCHANGED detect_every_n,
           NEW b, UpdateNoTarget(b)
    PROVE  Pipe'
<1>1. CASE Hold(b)
  BY <1>1, HoldKeeps
<1>2. CASE Stay /\ Publish(Zero("NO_TARGET"))
  <2>1. out' \in Published /\ out'.state # "TRACKING"
    BY <1>2, ZeroPublished DEF Publish, States
  <2>2. state = "NO_TARGET" /\ state' = state
    BY <1>2 DEF UpdateNoTarget, Stay
  <2>3. QED
    BY <1>2, <2>1, <2>2
    DEF Pipe, PipeType, Stay, HoldInv, ConfInv, TrackedIsReal
<1>3. QED
  BY <1>1, <1>2 DEF UpdateNoTarget

LEMMA UpdateSearchingKeeps ==
    ASSUME Pipe, UNCHANGED detect_every_n,
           NEW b, UpdateSearching(b)
    PROVE  Pipe'
<1>1. CASE Hold(b)
  BY <1>1, HoldKeeps
<1>2. CASE TransitionNoTarget
  BY <1>2, NoTargetKeeps
<1>3. CASE /\ search + 1 < search_n /\ search' = search + 1
           /\ Publish(Zero("SEARCHING"))
           /\ UNCHANGED <<state, hold, miss, active, lastBox, conf, trk, seed>>
  <2>1. out' \in Published /\ out'.state # "TRACKING"
    BY <1>3, ZeroPublished DEF Publish, States
  <2>2. state = "SEARCHING" /\ state' = state
    BY <1>3 DEF UpdateSearching
  <2>3. search' \in 0 .. search_n
    BY <1>3, PipelineAssumption DEF Pipe, PipeType
  <2>4. QED
    BY <1>3, <2>1, <2>2, <2>3 DEF Pipe, PipeType, HoldInv, ConfInv, TrackedIsReal
<1>4. QED
  BY <1>1, <1>2, <1>3 DEF UpdateSearching
\* A detection begins tracking with its own confidence.
LEMMA BeginTrackingKeeps ==
    ASSUME Pipe, detect_every_n \in Paces, UNCHANGED detect_every_n,
           NEW c \in FreshBoxes,
           hold' \in 0 .. detect_hold_n + 1, miss' = 0, lastBox' = lastBox,
           BeginTracking(c)
    PROVE  Pipe'
<1>1. /\ detect_hold_n \in Nat /\ search_n \in Nat /\ target_detected_grace_frames \in Nat
      /\ Floor \in 0 .. 100
  BY PipelineAssumption
<1>2. /\ c.at \in Places /\ c.conf \in 0 .. 100 /\ c.age \in 0 .. detect_every_n - 1
  BY DEF FreshBoxes
<1>3. /\ state' = "TRACKING" /\ search' = 0 /\ conf' = c.conf /\ seed' = c.conf
      /\ Initialize(c.at) /\ PublishTracking(c.at, c.conf, c.age)
  BY DEF BeginTracking
<1>4. /\ active' \in BOOLEAN /\ trk' \in {0} \cup Places
      /\ active' <=> trk' # 0
  BY <1>2, <1>3, InitializeType
<1>5. /\ out' \in Published /\ out'.conf = c.conf
      /\ out'.at # 0 /\ out'.age < detect_every_n
  BY <1>2, <1>3, TrackingPublished
<1>6. PipeType'
  <2>1. lastBox' \in {0} \cup Places
    BY DEF Pipe, PipeType
  <2>2. /\ state' \in States /\ search' \in 0 .. search_n
        /\ miss' \in 0 .. target_detected_grace_frames
        /\ conf' \in 0 .. 100 /\ seed' \in 0 .. 100
    BY <1>1, <1>2, <1>3 DEF States
  <2>3. QED
    BY <1>4, <2>1, <2>2, Zenon DEF PipeType
<1>7. HoldInv' /\ ConfInv'
  BY <1>1, <1>2, <1>3, <1>5 DEF HoldInv, ConfInv, Earned
<1>8. TrackedIsReal'
  BY <1>4, <1>5, Zenon DEF TrackedIsReal
<1>9. QED
  BY <1>6, <1>7, <1>8 DEF Pipe

LEMMA UpdateTargetDetectedKeeps ==
    ASSUME TypeOK, LastInv, Pipe, UNCHANGED detect_every_n,
           NEW b \in FreshBoxes \cup {None},
           UpdateTargetDetected(b)
    PROVE  Pipe'
<1>1. /\ detect_hold_n \in Nat /\ target_detected_grace_frames \in Nat
      /\ hold \in Nat /\ hold <= detect_hold_n
      /\ state = "TARGET_DETECTED" /\ detect_every_n \in Paces
  BY PipelineAssumption DEF TypeOK, Pipe, PipeType, HoldInv, UpdateTargetDetected
<1> DEFINE c == IF b = None /\ ~should_detect THEN Reuse ELSE b
<1>2. c \in FreshBoxes \cup {None}
  BY ReuseType
<1>3. CASE Missed
  <2>1. CASE TransitionNoTarget
    BY <2>1, NoTargetKeeps
  <2>2. CASE /\ miss < target_detected_grace_frames /\ miss' = miss + 1
             /\ Publish(Zero("TARGET_DETECTED"))
             /\ UNCHANGED <<state, hold, search, active, lastBox, conf, trk, seed>>
    <3>1. out' \in Published /\ out'.state # "TRACKING"
      BY <2>2, ZeroPublished DEF Publish, States
    <3>2. miss' \in 0 .. target_detected_grace_frames
      BY <1>1, <2>2 DEF Pipe, PipeType
    <3>3. QED
      BY <1>1, <2>2, <3>1, <3>2 DEF Pipe, PipeType, HoldInv, ConfInv, TrackedIsReal
  <2>3. QED
    BY <1>3, <2>1, <2>2 DEF Missed
<1>4. CASE /\ c # None /\ hold' = hold + 1 /\ miss' = 0
           /\ hold + 1 >= detect_hold_n /\ BeginTracking(c)
           /\ UNCHANGED lastBox
  <2>1. hold' \in 0 .. detect_hold_n + 1
    BY <1>1, <1>4
  <2>2. c \in FreshBoxes
    BY <1>2, <1>4
  <2> HIDE DEF c
  <2>3. QED
    BY <1>1, <1>4, <2>1, <2>2, BeginTrackingKeeps
<1>5. CASE /\ c # None /\ hold' = hold + 1 /\ miss' = 0
           /\ hold + 1 < detect_hold_n /\ Publish(Zero("TARGET_DETECTED"))
           /\ UNCHANGED <<state, search, active, conf, trk, seed>>
           /\ UNCHANGED lastBox
  <2>1. out' \in Published /\ out'.state # "TRACKING"
    BY <1>5, ZeroPublished DEF Publish, States
  <2>2. hold' \in 0 .. detect_hold_n + 1 /\ hold' <= detect_hold_n
        /\ miss' \in 0 .. target_detected_grace_frames
    BY <1>1, <1>5
  <2> HIDE DEF c
  <2>3. QED
    BY <1>1, <1>5, <2>1, <2>2 DEF Pipe, PipeType, HoldInv, ConfInv, TrackedIsReal
<1>6. QED
  BY <1>3, <1>4, <1>5, Zenon DEF UpdateTargetDetected
\* A detection while tracking is believed, whatever the tracker believes.
LEMMA TrackDetectionKeeps ==
    ASSUME Pipe, detect_every_n \in Paces, UNCHANGED detect_every_n,
           state = "TRACKING", NEW b \in FreshBoxes, b.age = 0,
           TrackDetection(b)
    PROVE  Pipe'
<1>1. /\ b.at \in Places /\ b.conf \in 0 .. 100
  BY DEF FreshBoxes
<1>2. 0 \in 0 .. detect_every_n - 1 /\ Floor \in 0 .. 100
  BY PipelineAssumption
<1>3. /\ active' \in BOOLEAN /\ trk' \in {0} \cup Places
      /\ active' <=> trk' # 0
  <2>1. CASE Initialize(b.at)
    BY <1>1, <2>1, InitializeType
  <2>2. CASE UNCHANGED <<active, trk>>
    BY <2>2, Zenon DEF Pipe, PipeType, TrackedIsReal
  <2>3. QED
    BY <2>1, <2>2, Zenon DEF TrackDetection
<1>4. lastBox' \in {0} \cup Places
  BY <1>1, Zenon DEF TrackDetection
<1>5. /\ conf' = b.conf /\ seed' = b.conf /\ PublishTracking(b.at, b.conf, 0)
      /\ state' = state /\ hold' = hold /\ search' = search /\ miss' = miss
  BY Zenon DEF TrackDetection
<1>6. /\ out' \in Published /\ out'.conf = b.conf
      /\ out'.at # 0 /\ out'.age < detect_every_n
  BY <1>1, <1>2, <1>5, TrackingPublished
<1>7. PipeType'
  BY <1>1, <1>3, <1>4, <1>5, Zenon DEF Pipe, PipeType
<1>8. HoldInv' /\ ConfInv'
  BY <1>1, <1>2, <1>5, <1>6 DEF HoldInv, ConfInv, Earned
<1>9. TrackedIsReal'
  BY <1>3, <1>6, Zenon DEF TrackedIsReal
<1>10. QED
  BY <1>7, <1>8, <1>9 DEF Pipe

\* The tracker alone: the confidence decays, and stays on its side of the floor.
LEMMA TrackAloneKeeps ==
    ASSUME Pipe, detect_every_n \in Paces, UNCHANGED detect_every_n,
           state = "TRACKING", active,
           NEW p \in {0} \cup Places, TrackAlone(p)
    PROVE  Pipe'
<1>1. p \in Places /\ p # 0
  BY Zenon DEF TrackAlone
<1>2. 0 \in 0 .. detect_every_n - 1 /\ Floor \in 0 .. 100
  BY PipelineAssumption
<1>3. conf \in 0 .. 100 /\ seed \in 0 .. 100 /\ Earned(conf)
  BY Zenon DEF Pipe, PipeType, ConfInv
<1>4. /\ conf' = Decayed(conf) /\ conf' \in 0 .. 100 /\ conf' <= conf
      /\ conf' >= Floor <=> conf >= Floor
  BY <1>3, DecayedStays DEF TrackAlone
<1>5. /\ seed' = seed /\ PublishTracking(p, conf', 0)
      /\ state' = state /\ hold' = hold /\ search' = search /\ miss' = miss
      /\ active' = active /\ trk' = p /\ lastBox' = p
  BY Zenon DEF TrackAlone
<1>6. /\ out' \in Published /\ out'.conf = conf'
      /\ out'.at # 0 /\ out'.age < detect_every_n
  BY <1>1, <1>2, <1>4, <1>5, TrackingPublished
<1>7. PipeType'
  BY <1>1, <1>4, <1>5, Zenon DEF Pipe, PipeType
<1>8. HoldInv' /\ ConfInv'
  BY <1>2, <1>3, <1>4, <1>5, <1>6 DEF HoldInv, ConfInv, Earned
<1>9. TrackedIsReal'
  BY <1>1, <1>5, <1>6, Zenon DEF TrackedIsReal
<1>10. QED
  BY <1>7, <1>8, <1>9 DEF Pipe

LEMMA LoseKeeps ==
    ASSUME Pipe, UNCHANGED detect_every_n,
           Lose
    PROVE  Pipe'
<1>1. /\ detect_hold_n \in Nat /\ search_n \in Nat
  BY PipelineAssumption
<1>2. out' \in Published /\ out'.state # "TRACKING"
  BY ZeroPublished DEF Lose, Publish, States
<1>3. PipeType'
  <2>1. /\ state' \in States /\ hold' \in 0 .. detect_hold_n + 1 /\ search' \in 0 .. search_n
        /\ conf' \in 0 .. 100
    BY <1>1 DEF Lose, States
  <2>2. /\ active' \in BOOLEAN /\ lastBox' \in {0} \cup Places /\ trk' \in {0} \cup Places
        /\ miss' \in 0 .. target_detected_grace_frames /\ seed' \in 0 .. 100
    BY Zenon DEF Lose, Pipe, PipeType
  <2>3. QED
    BY <2>1, <2>2, Zenon DEF PipeType
<1>4. QED
  BY <1>1, <1>2, <1>3 DEF Pipe, Lose, HoldInv, ConfInv, TrackedIsReal

LEMMA FindsType ==
    ASSUME NEW t \in {0} \cup Places
    PROVE  Finds(t) \subseteq {0} \cup Places
BY Zenon DEF Finds

LEMMA DetectedIsFresh ==
    ASSUME NEW t, NEW b \in Detected(t)
    PROVE  b = None \/ b.age = 0
<1>1. CASE ~should_detect \/ t = 0
  BY <1>1, Zenon DEF Detected
<1>2. CASE ~(~should_detect \/ t = 0)
  <2>1. b \in {[at |-> t, conf |-> c, age |-> 0] : c \in Confs} \cup {None}
    BY <1>2, Zenon DEF Detected
  <2>2. QED
    BY <2>1
<1>3. QED
  BY <1>1, <1>2

LEMMA UpdateTrackingKeeps ==
    ASSUME Pipe, detect_every_n \in Paces, UNCHANGED detect_every_n,
           NEW t \in {0} \cup Places, NEW b \in Detected(t),
           UpdateTracking(t, b)
    PROVE  Pipe'
<1>1. state = "TRACKING"
  BY DEF UpdateTracking
<1>2. CASE TrackDetection(b)
  <2>1. b # None
    BY <1>2 DEF TrackDetection
  <2>2. b \in FreshBoxes /\ b.age = 0
    BY <2>1, DetectedType, DetectedIsFresh
  <2>3. QED
    BY <1>1, <1>2, <2>2, TrackDetectionKeeps
<1>3. ASSUME NEW p \in Finds(t), active, TrackAlone(p) PROVE Pipe'
  BY <1>1, <1>3, FindsType, TrackAloneKeeps
<1>4. CASE Lose
  BY <1>4, LoseKeeps
<1>5. QED
  BY <1>2, <1>3, <1>4, Zenon DEF UpdateTracking

-----------------------------------------------------------------------------
(* Theorems.                                                               *)

LEMMA PipelineInvInit == Init => PipelineInv
<1> SUFFICES ASSUME Init PROVE PipelineInv
  OBVIOUS
<1>1. /\ detect_hold_n \in Nat /\ search_n \in Nat /\ detect_every_n \in Nat \ {0}
      /\ target_detected_grace_frames \in Nat /\ detect_every_n \in Paces
  BY PipelineAssumption DEF Init
<1>2. last \in Boxes /\ LastInv
  BY <1>1 DEF Init, None, Boxes, LastInv
<1>3. out \in Published /\ out.state # "TRACKING"
  BY DEF Init, Zero, Published, States
<1>4. phase \in 0 .. detect_every_n - 1
  BY <1>1 DEF Init
<1>5. PipeType
  <2>1. /\ state \in States /\ hold \in 0 .. detect_hold_n + 1 /\ search \in 0 .. search_n
        /\ miss \in 0 .. target_detected_grace_frames
        /\ conf \in 0 .. 100 /\ seed \in 0 .. 100
    BY <1>1 DEF Init, States
  <2>2. /\ active \in BOOLEAN /\ lastBox \in {0} \cup Places /\ trk \in {0} \cup Places
    BY Zenon DEF Init
  <2>3. QED
    BY <2>1, <2>2, Zenon DEF PipeType
<1>6. target \in {0} \cup Places
  BY DEF Init
<1>7. HoldInv /\ ConfInv /\ TrackedIsReal
  BY <1>1, <1>3 DEF Init, HoldInv, ConfInv, TrackedIsReal
<1>8. QED
  BY <1>1, <1>2, <1>4, <1>5, <1>6, <1>7, PipelineInvParts DEF Pipe

LEMMA ProcessFrameKeeps == PipelineInv /\ ProcessFrame /\ UNCHANGED detect_every_n => PipelineInv'
<1> SUFFICES ASSUME PipelineInv, ProcessFrame, UNCHANGED detect_every_n PROVE PipelineInv'
  OBVIOUS
<1>1. Pipe /\ TypeOK /\ LastInv /\ detect_every_n \in Paces
  BY PipelineInvParts DEF TypeOK
<1>2. PICK t \in Moves : \E b \in Detected(t) :
        /\ target' = t /\ phase' = (phase + 1) % detect_every_n
        /\ Remember(b)
        /\ \/ UpdateNoTarget(b) \/ UpdateTargetDetected(b)
           \/ UpdateTracking(t, b) \/ UpdateSearching(b)
  BY Zenon DEF ProcessFrame
<1> PICK b \in Detected(t) :
        /\ target' = t /\ phase' = (phase + 1) % detect_every_n
        /\ Remember(b)
        /\ \/ UpdateNoTarget(b) \/ UpdateTargetDetected(b)
           \/ UpdateTracking(t, b) \/ UpdateSearching(b)
  BY <1>2
<1>3. t \in {0} \cup Places /\ target' \in {0} \cup Places /\ phase' \in 0 .. detect_every_n - 1
  BY <1>1, <1>2, SceneKeeps
<1>4. last' \in Boxes /\ LastInv'
  BY <1>1, <1>2, <1>3, RememberKeeps
<1>5. b \in FreshBoxes \cup {None}
  BY <1>1, <1>3, DetectedType
<1>6. Pipe'
  <2>1. CASE UpdateNoTarget(b)
    BY <1>1, <2>1, UpdateNoTargetKeeps
  <2>2. CASE UpdateTargetDetected(b)
    BY <1>1, <1>5, <2>2, UpdateTargetDetectedKeeps
  <2>3. CASE UpdateTracking(t, b)
    BY <1>1, <1>3, <2>3, UpdateTrackingKeeps
  <2>4. CASE UpdateSearching(b)
    BY <1>1, <2>4, UpdateSearchingKeeps
  <2>5. QED
    BY <1>2, <2>1, <2>2, <2>3, <2>4
<1>7. (Pipe /\ LastInv /\ last \in Boxes
         /\ target \in {0} \cup Places /\ phase \in 0 .. detect_every_n - 1 /\ detect_every_n \in Paces
       => PipelineInv)'
  BY PipelineInvParts, PTL
<1>8. detect_every_n \in Paces
  BY DEF PipelineInv, TypeOK
<1>9. Boxes' = Boxes
  BY DEF Boxes
<1>10. QED
  BY <1>3, <1>4, <1>6, <1>7, <1>8, <1>9

LEMMA PipelineInvStutter == PipelineInv /\ UNCHANGED vars => PipelineInv'
<1> SUFFICES ASSUME PipelineInv, UNCHANGED vars PROVE PipelineInv'
  OBVIOUS
<1>1. TypeOK'
  BY Zenon DEF PipelineInv, TypeOK, Boxes, vars
<1>2. LastInv' /\ HoldInv' /\ ConfInv' /\ TrackedIsReal'
  BY Zenon DEF PipelineInv, LastInv, HoldInv, ConfInv, Earned, TrackedIsReal, vars
<1>3. QED
  BY <1>1, <1>2 DEF PipelineInv

\* The invariant holds in every state of every run of the pipeline.
LEMMA PipelineInvHolds == Spec => []PipelineInv
<1>1. Init => PipelineInv
  BY PipelineInvInit
<1>2. PipelineInv /\ [Next]_vars => PipelineInv'
  BY ProcessFrameKeeps, PipelineInvStutter DEF Next
<1>3. QED
  BY <1>1, <1>2, PTL DEF Spec
\* For every decay and every floor, the confidence that _transition_to_tracking takes from a
\* detection and _update_tracking decays is at most that of the detection, and reaches the
\* floor only if the detection did: without a new detection the flight controller neither
\* begins to follow a target nor stops.
THEOREM TrackingConfidenceIsEarned == Spec => []ConfidenceIsEarned
<1>1. PipelineInv => ConfidenceIsEarned
  BY DEF PipelineInv, ConfInv, Earned, ConfidenceIsEarned
<1>2. QED
  BY <1>1, PipelineInvHolds, PTL

\* With any tracker, one that refuses to start and one that fails at any frame included, and
\* with any pace of inference, every variable of process_frame keeps to its type, a box that
\* it publishes as tracked is somewhere and of the last inference at the latest, and
\* _tracker_active says whether the tracker has a target.
THEOREM PipelineStaysSound == Spec => []PipelineIsSound
<1>1. PipelineInv => PipelineIsSound
  BY DEF PipelineInv, PipelineIsSound
<1>2. QED
  BY <1>1, PipelineInvHolds, PTL
-----------------------------------------------------------------------------
(* The loop.                                                               *)

\* How late a VIS message may be, place by place of a turn.  A message that is not due when
\* the clock is read was sent less than an interval ago, and the next turn sends it: hence two
\* pushes.
Due == visDue > 0 => visAge + visDue <= VisInterval

Lateness ==
    /\ pc \in {"read", "again"} => Due /\ visAge <= VisInterval + PushMax
    /\ pc = "look" => Due /\ visAge <= VisInterval + 1 + PushMax
    /\ pc = "push" => Due /\ (due.vis <=> visDue = 0) /\ visAge <= VisInterval + 1 + PushMax
    /\ pc = "emit" => /\ Due
                      /\ IF due.vis THEN visAge <= VisInterval + 1 + 2 * PushMax
                         ELSE visAge <= VisInterval + PushMax
    /\ pc \notin Turning => visAge <= VisInterval + 1 + 2 * PushMax

WarnedRight == WarnsOnce /\ (warned <=> black = WarnAfter)

\* What is closed, and what of the camera is held, place by place of the finally: a capture
\* that belongs to nobody stands behind the sentinel of a read that was cut off.
Held ==
    IF capture \in {"open", "broken"} THEN handles = 1
    ELSE handles = 0 \/ (capture = "dead" /\ "reading" \in cut)

Parted ==
    /\ pc \in Turning => cut = {} /\ capture # "released"
    /\ pc \in Turning \cup {"summary", "release", "publisher"} => closed = {}
    /\ pc = "client" => closed = {"publisher"}
    /\ pc = "socket" => closed = {"publisher", "client"}
    /\ pc # "done" => "closing" \notin cut
    /\ closed \in {{}, {"publisher"}, {"publisher", "client"}, Closables}
    /\ pc = "done" /\ "closing" \notin cut => closed = Closables
    /\ pc \in Closables \/ closed # {} => capture \in {"dead", "released"}

Stations == Turning \cup Closables \cup {"summary", "release", "done"}

EndInv ==
    /\ pc \in Stations /\ cut \subseteq {"reading", "closing"}
    /\ CameraTypeOK /\ Held /\ Parted

\* The types of the clocks.
ClockTypes ==
    /\ visDue \in 0 .. VisInterval /\ pushDue \in 0 .. FrameInterval
    /\ due \in [vis : BOOLEAN, push : BOOLEAN] /\ spent \in 0 .. PushMax
    /\ visAge \in 0 .. AgeCap /\ starved \in BOOLEAN

\* What the invariant says of the camera while the loop turns, and of the frames.
CaptureInv == CameraTypeOK /\ handles = (IF capture \in {"open", "broken"} THEN 1 ELSE 0)

BlackInv ==
    /\ black \in 0 .. WarnAfter /\ warned \in BOOLEAN /\ warnings \in Nat
    /\ WarnedRight

LoopInv == EndInv /\ ClockTypes /\ BlackInv /\ (~starved => Lateness)

LEMMA LoopConstants ==
    /\ VisInterval \in Nat /\ FrameInterval \in Nat /\ PushMax \in Nat
    /\ WarnAfter \in Nat \ {0} /\ AgeCap \in Nat \ {0}
    /\ black_frames_after_open \in Nat
    /\ BackoffInitial \in Nat /\ BackoffMax \in Nat /\ BackoffInitial <= BackoffMax
BY LoopAssumption, CameraAssumption

\* Time passes: what is left until a message is due shrinks as its age grows.
LEMMA TicksKeep ==
    ASSUME NEW d \in Nat, ClockTypes, Ticks(d)
    PROVE  /\ visDue' \in 0 .. VisInterval /\ pushDue' \in 0 .. FrameInterval
           /\ visAge' \in 0 .. AgeCap /\ visAge' <= visAge + d
           /\ visDue' = IF visDue > d THEN visDue - d ELSE 0
<1>1. visDue - d \in Int /\ pushDue - d \in Int /\ visAge + d \in Nat
  BY LoopConstants DEF ClockTypes
<1>2. /\ Max({0, visDue - d}) = IF visDue - d >= 0 THEN visDue - d ELSE 0
      /\ Max({0, pushDue - d}) = IF pushDue - d >= 0 THEN pushDue - d ELSE 0
      /\ Min({AgeCap, visAge + d}) = IF visAge + d <= AgeCap THEN visAge + d ELSE AgeCap
  BY <1>1, LoopConstants, MaxPair, MinPair
<1>3. QED
  BY <1>2, LoopConstants DEF Ticks, ClockTypes

LEMMA LoopInvParts ==
    /\ LoopInv => EndInv /\ ClockTypes /\ BlackInv /\ (~starved => Lateness)
    /\ LoopInv /\ pc \in Turning => CaptureInv /\ capture # "released"
<1>1. LoopInv => EndInv /\ ClockTypes /\ BlackInv /\ (~starved => Lateness)
  BY Zenon DEF LoopInv
<1>2. EndInv /\ pc \in Turning => CaptureInv /\ capture # "released"
  BY DEF EndInv, Held, Parted, CaptureInv
<1>3. QED
  BY <1>1, <1>2, Zenon

\* A step of a turn, and the one that leaves it, keep what the finally will find.
LEMMA TurnKeepsEnd ==
    ASSUME EndInv, pc \in Turning, pc' \in Turning \cup {"summary"}, closed' = closed,
           cut' = cut, CaptureInv', capture' # "released"
    PROVE  EndInv'
<1>1. closed' = {} /\ cut' = {}
  BY DEF EndInv, Parted
<1>2. CameraTypeOK' /\ Held'
  BY DEF CaptureInv, Held
<1>3. pc' \in Stations /\ pc' \notin Closables /\ pc' # "done" /\ pc' \notin {"client", "socket"}
  BY DEF Stations, Turning, Closables
<1>4. Parted'
  BY <1>1, <1>3 DEF Parted
<1>5. QED
  BY <1>1, <1>2, <1>3, <1>4 DEF EndInv

LEMMA CameraStays ==
    ASSUME CaptureInv, UNCHANGED cameraVars, capture # "released"
    PROVE  CaptureInv' /\ capture' # "released"
BY DEF CaptureInv, CameraTypeOK, cameraVars

\* Every read keeps the camera sound; one that finds a frame at once is not followed by
\* another, and one that does not counts as starving.
LEMMA ReadsKeepCapture ==
    ASSUME CaptureInv, capture # "released",
           ReadFrame \/ ReadEnd \/ ReadSettling \/ Reconnect \/ ReconnectFails
    PROVE  CaptureInv' /\ capture' # "released"
<1>1. /\ backoff \in Nat /\ backoff <= BackoffMax /\ grace \in Nat
      /\ grace <= black_frames_after_open
      /\ black_frames_after_open \in Nat /\ BackoffInitial \in 0 .. BackoffMax
      /\ BackoffMax \in Nat
  BY LoopConstants DEF CaptureInv, CameraTypeOK
<1>2. Doubled(backoff) \in 0 .. BackoffMax
  <2>1. 2 * backoff \in Nat /\ 1 \in Nat
    BY <1>1
  <2>2. Max({2 * backoff, 1}) \in Nat
    BY <2>1, MaxPair
  <2>3. \A m \in Nat : Min({BackoffMax, m}) \in 0 .. BackoffMax
    BY <1>1, MinPair
  <2>4. QED
    BY <2>2, <2>3, Zenon DEF Doubled
<1>3. Max({0, black_frames_after_open - 1}) \in 0 .. black_frames_after_open
  BY <1>1, MaxPair
<1>4. CASE ReadFrame
  BY <1>1, <1>4 DEF ReadFrame, CaptureInv, CameraTypeOK
<1>5. CASE ReadEnd
  BY <1>5 DEF ReadEnd, cameraVars, CaptureInv, CameraTypeOK
<1>6. CASE ReadSettling
  BY <1>1, <1>6 DEF ReadSettling, CaptureInv, CameraTypeOK
<1>7. CASE Reconnect
  BY <1>1, <1>2, <1>3, <1>7 DEF Reconnect, CaptureInv, CameraTypeOK
<1>8. CASE ReconnectFails
  BY <1>1, <1>2, <1>8 DEF ReconnectFails, CaptureInv, CameraTypeOK
<1>9. QED
  BY <1>4, <1>5, <1>6, <1>7, <1>8

\* Looking at a dark frame warns when the count gets to its limit, and only then.
LEMMA WarnKeeps ==
    ASSUME BlackInv, NEW isBlack \in BOOLEAN, Warn(isBlack)
    PROVE  BlackInv'
<1>1. WarnAfter \in Nat \ {0} /\ black \in Nat /\ black <= WarnAfter /\ warnings \in Nat
  BY LoopConstants DEF BlackInv
<1>2. CASE ~isBlack
  <2>1. black' = 0 /\ warned' = FALSE /\ warnings' = 0
    BY <1>2, Zenon DEF Warn
  <2>2. warned' \in BOOLEAN
    BY <2>1, Zenon
  <2>3. QED
    BY <1>1, <2>1, <2>2 DEF BlackInv, WarnedRight, WarnsOnce
<1>3. CASE isBlack
  <2>1. /\ Min({black + 1, WarnAfter}) = IF black + 1 <= WarnAfter THEN black + 1 ELSE WarnAfter
        /\ Min({warnings + 1, 2}) = IF warnings + 1 <= 2 THEN warnings + 1 ELSE 2
    BY <1>1, MinPair
  <2>2. /\ black' = Min({black + 1, WarnAfter})
        /\ warned' = (warned \/ black + 1 >= WarnAfter)
        /\ warnings' = IF black + 1 >= WarnAfter /\ ~warned THEN Min({warnings + 1, 2})
                       ELSE warnings
    BY <1>3 DEF Warn
  <2>3. warned \in BOOLEAN /\ (warned <=> black = WarnAfter)
        /\ warnings = IF black = WarnAfter THEN 1 ELSE 0
    BY DEF BlackInv, WarnedRight, WarnsOnce
  <2>4. CASE black + 1 < WarnAfter
    BY <1>1, <2>1, <2>2, <2>3, <2>4 DEF BlackInv, WarnedRight, WarnsOnce
  <2>5. CASE black + 1 >= WarnAfter
    <3>1. black' = WarnAfter /\ warnings' = 1
      BY <1>1, <2>1, <2>2, <2>3, <2>5
    <3>2. warned' \in BOOLEAN /\ warned'
      BY <2>2, <2>5, Zenon
    <3>3. QED
      BY <1>1, <3>1, <3>2 DEF BlackInv, WarnedRight, WarnsOnce
  <2>6. QED
    BY <1>1, <2>4, <2>5
<1>4. QED
  BY <1>2, <1>3

\* The bound that holds wherever the thread is.
LEMMA AtMostLate ==
    ASSUME ClockTypes, Lateness, pc \in Stations
    PROVE  visAge <= VisInterval + 1 + 2 * PushMax
<1>1. VisInterval \in Nat /\ PushMax \in Nat /\ visAge \in Nat
  BY LoopConstants DEF ClockTypes
<1>2. QED
  BY <1>1 DEF Lateness, Turning, Stations

LEMMA DueKeeps ==
    ASSUME NEW I \in Nat, NEW took \in Nat,
           NEW d \in Nat, NEW a \in Nat, NEW d1 \in Nat, NEW a1 \in Nat,
           d > 0 => a + d <= I,
           a1 <= a + took, d1 = IF d > took THEN d - took ELSE 0, d1 > 0
    PROVE  a1 + d1 <= I
<1>1. d > took /\ d1 = d - took
  OBVIOUS
<1>2. a + d <= I
  BY <1>1
<1>3. QED
  BY <1>1, <1>2

\* One lemma for each action of a turn.
LEMMA ReadKeeps == LoopInv /\ Read => LoopInv'
<1> SUFFICES ASSUME LoopInv, Read PROVE LoopInv'
  OBVIOUS
<1>1. EndInv /\ ClockTypes /\ BlackInv /\ (~starved => Lateness)
  BY LoopInvParts
<1>2. PICK step \in BOOLEAN, took \in Nat, next \in {"read", "look", "summary"} :
         /\ Reads(step, took, next) /\ step
         /\ ReadFrame \/ ReadEnd \/ ReadSettling \/ Reconnect \/ ReconnectFails
         /\ Delivers => (took = 1 /\ next = "look") \/ (took = 0 /\ next = "summary")
  <2>1. backoff \in Nat
    BY <1>1 DEF EndInv, CameraTypeOK
  <2>2. CASE Reads(ReadFrame, 1, "look")
    BY <2>2 DEF Reads
  <2>3. CASE Reads(ReadEnd, 0, "summary")
    BY <2>3 DEF Reads
  <2>4. CASE Reads(ReadSettling, 1, "read")
    BY <2>4 DEF Reads, ReadSettling
  <2>5. CASE Reads(Reconnect, backoff, IF device = "good" THEN "look" ELSE "read")
    BY <2>1, <2>5 DEF Reads, Reconnect, ReconnectDue
  <2>6. CASE Reads(ReconnectFails, backoff, "read")
    BY <2>1, <2>6 DEF Reads, ReconnectFails, ReconnectDue
  <2>7. QED
    BY <2>2, <2>3, <2>4, <2>5, <2>6 DEF Read
<1>3. pc = "read" /\ Ticks(took) /\ pc' = next /\ starved' = (starved \/ ~Delivers)
      /\ UNCHANGED <<due, spent, blackVars, closed, cut>>
  BY <1>2 DEF Reads
<1>4. EndInv'
  <2>1. pc \in Turning /\ pc' \in Turning \cup {"summary"}
    BY <1>3 DEF Turning
  <2>2. CaptureInv' /\ capture' # "released"
    BY <1>2, <2>1, LoopInvParts, ReadsKeepCapture
  <2>3. QED
    BY <1>1, <1>3, <2>1, <2>2, TurnKeepsEnd
<1>5. /\ visDue' \in 0 .. VisInterval /\ pushDue' \in 0 .. FrameInterval
      /\ visAge' \in 0 .. AgeCap /\ visAge' <= visAge + took
      /\ visDue' = IF visDue > took THEN visDue - took ELSE 0
  BY <1>1, <1>3, TicksKeep
<1>6. ClockTypes'
  BY <1>1, <1>3, <1>5 DEF ClockTypes
<1>7. BlackInv'
  BY <1>1, <1>3, Zenon DEF BlackInv, WarnedRight, WarnsOnce, blackVars
<1>8. ASSUME ~starved' PROVE Lateness'
  <2>1. ~starved /\ Delivers
    BY <1>3, <1>8
  <2>2. Due /\ visAge <= VisInterval + PushMax
    BY <1>1, <1>3, <2>1 DEF Lateness
  <2>3. Due' /\ visAge' <= VisInterval + 1 + PushMax
    <3>1. took \in {0, 1}
      BY <1>2, <2>1
    <3>2. /\ VisInterval \in Nat /\ PushMax \in Nat /\ visAge \in Nat /\ visDue \in Nat
          /\ visAge' \in Nat /\ visDue' \in Nat
      BY <1>1, <1>5, LoopConstants DEF ClockTypes
    <3>3. visAge' <= visAge + took /\ (visDue' > 0 => visDue' = visDue - took /\ visDue > 0)
      BY <1>5, <3>1, <3>2
    <3>4. visDue' > 0 => visAge' + visDue' <= VisInterval
      <4>1. visDue' = IF visDue > took THEN visDue - took ELSE 0
        BY <1>5
      <4>2. took \in Nat /\ (visDue > 0 => visAge + visDue <= VisInterval)
        BY <2>2, <3>1 DEF Due
      <4>3. QED
        BY <3>2, <3>3, <4>1, <4>2, DueKeeps
    <3>5. visAge' <= VisInterval + 1 + PushMax
      BY <2>2, <3>1, <3>2, <3>3
    <3>6. QED
      BY <3>4, <3>5 DEF Due
  <2>4. pc' \in {"look", "summary"}
    BY <1>2, <1>3, <2>1
  <2>5. QED
    BY <1>6, <2>3, <2>4, LoopConstants DEF Lateness, ClockTypes, Turning
<1>9. QED
  BY <1>4, <1>6, <1>7, <1>8, Zenon DEF LoopInv

LEMMA LookKeeps == LoopInv /\ Look => LoopInv'
<1> SUFFICES ASSUME LoopInv, Look PROVE LoopInv'
  OBVIOUS
<1>1. EndInv /\ ClockTypes /\ BlackInv /\ (~starved => Lateness)
  BY LoopInvParts
<1>2. /\ pc = "look" /\ pc' = "push"
      /\ due' = [vis |-> visDue = 0, push |-> pushDue = 0] /\ spent' = 0
      /\ UNCHANGED <<cameraVars, clocks, starved, closed, cut>>
  BY DEF Look
<1>3. BlackInv'
  BY <1>1, WarnKeeps DEF Look
<1>4. EndInv'
  <2>1. pc \in Turning /\ pc' \in Turning
    BY <1>2 DEF Turning
  <2>2. CaptureInv' /\ capture' # "released"
    BY <1>2, <2>1, LoopInvParts, CameraStays
  <2>3. QED
    BY <1>1, <1>2, <2>1, <2>2, TurnKeepsEnd
<1>5. ClockTypes'
  <2>1. due' \in [vis : BOOLEAN, push : BOOLEAN]
    BY <1>2
  <2>2. QED
    BY <1>1, <1>2, <2>1, LoopConstants DEF ClockTypes, clocks
<1>6. ASSUME ~starved' PROVE Lateness'
  BY <1>1, <1>2, <1>6 DEF Lateness, Due, clocks, Turning
<1>7. QED
  BY <1>3, <1>4, <1>5, <1>6, Zenon DEF LoopInv

LEMMA PushKeeps == LoopInv /\ PushOrNot => LoopInv'
<1> SUFFICES ASSUME LoopInv, PushOrNot PROVE LoopInv'
  OBVIOUS
<1>1. EndInv /\ ClockTypes /\ BlackInv /\ (~starved => Lateness)
  BY LoopInvParts
<1>2. /\ pc = "push" /\ pc' = "emit"
      /\ UNCHANGED <<cameraVars, due, starved, blackVars, closed, cut>>
  BY DEF PushOrNot
<1>3. PICK took \in 0 .. PushMax :
         /\ spent' \in 0 .. PushMax
         /\ visDue' \in 0 .. VisInterval /\ visAge' \in 0 .. AgeCap /\ visAge' <= visAge + took
         /\ visDue' = IF visDue > took THEN visDue - took ELSE 0
         /\ pushDue' \in 0 .. FrameInterval
  <2>1. CASE due.push
    <3>1. PICK took \in 0 .. PushMax :
             /\ spent' = took
             /\ visDue' = Max({0, visDue - took}) /\ visAge' = Min({AgeCap, visAge + took})
             /\ pushDue' = Max({0, FrameInterval - took})
      BY <2>1 DEF PushOrNot, PushTakes
    <3>2. /\ visDue - took \in Int /\ FrameInterval - took \in Int /\ visAge + took \in Nat
          /\ AgeCap \in Nat
      BY <1>1, LoopConstants DEF ClockTypes
    <3>3. /\ visDue' = IF visDue - took >= 0 THEN visDue - took ELSE 0
          /\ pushDue' = IF FrameInterval - took >= 0 THEN FrameInterval - took ELSE 0
          /\ visAge' = IF AgeCap <= visAge + took THEN AgeCap ELSE visAge + took
      BY <3>1, <3>2, MaxPair, MinPair
    <3>4. QED
      BY <1>1, <3>1, <3>3, LoopConstants DEF ClockTypes
  <2>2. CASE ~due.push
    <3>1. UNCHANGED <<spent, clocks>>
      BY <2>2 DEF PushOrNot
    <3>2. 0 \in 0 .. PushMax
      BY LoopConstants
    <3>3. visDue \in Nat /\ visAge \in Nat
      BY <1>1, LoopConstants DEF ClockTypes
    <3>4. visDue' = visDue /\ visAge' = visAge /\ pushDue' = pushDue /\ spent' = spent
      BY <3>1 DEF clocks
    <3>5. visAge' <= visAge + 0 /\ visDue' = IF visDue > 0 THEN visDue - 0 ELSE 0
      BY <3>3, <3>4
    <3>6. QED
      BY <1>1, <3>1, <3>2, <3>4, <3>5, Zenon DEF ClockTypes
  <2>3. QED
    BY <2>1, <2>2
<1>4. EndInv'
  <2>1. pc \in Turning /\ pc' \in Turning
    BY <1>2 DEF Turning
  <2>2. CaptureInv' /\ capture' # "released"
    BY <1>2, <2>1, LoopInvParts, CameraStays
  <2>3. QED
    BY <1>1, <1>2, <2>1, <2>2, TurnKeepsEnd
<1>5. BlackInv'
  BY <1>1, <1>2, Zenon DEF BlackInv, WarnedRight, WarnsOnce, blackVars
<1>7. ClockTypes'
  BY <1>1, <1>2, <1>3 DEF ClockTypes
<1>8. ASSUME ~starved' PROVE Lateness'
  <2>1. Due /\ (due.vis <=> visDue = 0) /\ visAge <= VisInterval + 1 + PushMax
    BY <1>1, <1>2, <1>8 DEF Lateness
  <2>2. /\ VisInterval \in Nat /\ PushMax \in Nat /\ visAge \in Nat /\ visDue \in Nat
        /\ visAge' \in Nat /\ visDue' \in Nat /\ took \in Nat /\ took <= PushMax
    BY <1>1, <1>3, LoopConstants DEF ClockTypes
  <2>3. Due'
    <3>1. visAge' <= visAge + took /\ visDue' = IF visDue > took THEN visDue - took ELSE 0
      BY <1>3
    <3>2. visDue > 0 => visAge + visDue <= VisInterval
      BY <2>1 DEF Due
    <3>3. visDue' > 0 => visAge' + visDue' <= VisInterval
      BY <2>2, <3>1, <3>2, DueKeeps
    <3>4. QED
      BY <3>3 DEF Due
  <2>4. CASE due.vis
    <3>1. visAge' <= VisInterval + 1 + 2 * PushMax
      BY <1>3, <2>1, <2>2
    <3>2. QED
      BY <1>2, <2>3, <2>4, <3>1 DEF Lateness, Turning
  <2>5. CASE ~due.vis
    <3>1. visAge' <= VisInterval + PushMax
      BY <1>3, <2>1, <2>2, <2>5 DEF Due
    <3>2. QED
      BY <1>2, <2>3, <2>5, <3>1 DEF Lateness, Turning
  <2>6. QED
    BY <2>4, <2>5
<1>9. QED
  BY <1>4, <1>5, <1>7, <1>8, Zenon DEF LoopInv

LEMMA EmitKeeps == LoopInv /\ Emit => LoopInv'
<1> SUFFICES ASSUME LoopInv, Emit PROVE LoopInv'
  OBVIOUS
<1>1. EndInv /\ ClockTypes /\ BlackInv /\ (~starved => Lateness)
  BY LoopInvParts
<1>2. /\ pc = "emit" /\ pc' = "again"
      /\ UNCHANGED <<cameraVars, due, spent, pushDue, blackVars, closed, cut>>
  BY DEF Emit
<1>3. EndInv'
  <2>1. pc \in Turning /\ pc' \in Turning
    BY <1>2 DEF Turning
  <2>2. CaptureInv' /\ capture' # "released"
    BY <1>2, <2>1, LoopInvParts, CameraStays
  <2>3. QED
    BY <1>1, <1>2, <2>1, <2>2, TurnKeepsEnd
<1>4. BlackInv'
  BY <1>1, <1>2, Zenon DEF BlackInv, WarnedRight, WarnsOnce, blackVars
<1>7. CASE due.vis
  <2>1. visDue' = Max({0, VisInterval - spent}) /\ visAge' = 0 /\ starved' = FALSE
    BY <1>7 DEF Emit
  <2>2. VisInterval \in Nat /\ PushMax \in Nat /\ AgeCap \in Nat /\ spent \in Nat
    BY <1>1, LoopConstants DEF ClockTypes
  <2>3. visDue' \in 0 .. VisInterval
    BY <2>1, <2>2, MaxPair
  <2>4. starved' \in BOOLEAN
    BY <2>1, Zenon
  <2>5. visAge' \in 0 .. AgeCap
    BY <2>1, <2>2
  <2>6. ClockTypes'
    BY <1>1, <1>2, <2>3, <2>4, <2>5, Zenon DEF ClockTypes
  <2>7. Lateness'
    BY <1>2, <2>1, <2>2, <2>3 DEF Lateness, Due, Turning
  <2>8. QED
    BY <1>3, <1>4, <2>6, <2>7, Zenon DEF LoopInv
<1>8. CASE ~due.vis
  <2>1. UNCHANGED <<visDue, visAge, starved>>
    BY <1>8 DEF Emit
  <2>2. ClockTypes'
    BY <1>1, <1>2, <2>1, Zenon DEF ClockTypes
  <2>3. ASSUME ~starved' PROVE Lateness'
    BY <1>1, <1>2, <1>8, <2>1, <2>3 DEF Lateness, Due, Turning
  <2>4. QED
    BY <1>3, <1>4, <2>2, <2>3, Zenon DEF LoopInv
<1>9. QED
  BY <1>7, <1>8

\* The actions that move only from one place of the turn to another, or out of it.
LEMMA MovesKeep == LoopInv /\ (Again \/ Quit \/ Raises) => LoopInv'
<1> SUFFICES ASSUME LoopInv, Again \/ Quit \/ Raises PROVE LoopInv'
  OBVIOUS
<1>1. EndInv /\ ClockTypes /\ BlackInv /\ (~starved => Lateness)
  BY LoopInvParts
<1>2. /\ UNCHANGED <<cameraVars, clocks, due, spent, starved, blackVars, closed, cut>>
      /\ pc \in Turning
      /\ (pc = "again" /\ pc' = "read") \/ pc' = "summary"
  BY DEF Again, Quit, Raises, Turning
<1>3. EndInv'
  <2>1. pc' \in Turning \cup {"summary"}
    BY <1>2 DEF Turning
  <2>2. CaptureInv' /\ capture' # "released"
    BY <1>2, LoopInvParts, CameraStays
  <2>3. QED
    BY <1>1, <1>2, <2>1, <2>2, TurnKeepsEnd
<1>4. BlackInv' /\ ClockTypes'
  BY <1>1, <1>2, Zenon DEF BlackInv, WarnedRight, WarnsOnce, ClockTypes, blackVars, clocks
<1>5. ASSUME ~starved' PROVE Lateness'
  <2>1. Lateness
    BY <1>1, <1>2, <1>5
  <2>2. visAge' = visAge /\ visDue' = visDue
    BY <1>2 DEF clocks
  <2>3. visAge <= VisInterval + 1 + 2 * PushMax
    BY <1>1, <2>1, AtMostLate DEF EndInv
  <2>4. pc = "again" => Due /\ visAge <= VisInterval + PushMax
    BY <2>1 DEF Lateness
  <2>5. QED
    BY <1>2, <2>2, <2>3, <2>4 DEF Lateness, Due, Turning
<1>6. QED
  BY <1>3, <1>4, <1>5, Zenon DEF LoopInv

\* Every way out of a turn and through the finally leaves the clocks and the frames alone.
LEMMA EndsKeepRest ==
    ASSUME LoopInv, pc' \notin Turning, UNCHANGED <<clocks, due, spent, starved, blackVars>>
    PROVE  ClockTypes' /\ BlackInv' /\ (~starved' => Lateness')
<1>1. ClockTypes /\ BlackInv /\ (~starved => Lateness) /\ pc \in Stations
  BY LoopInvParts DEF EndInv
<1>2. BlackInv' /\ ClockTypes'
  BY <1>1, Zenon DEF BlackInv, WarnedRight, WarnsOnce, ClockTypes, blackVars, clocks
<1>3. ASSUME ~starved' PROVE Lateness'
  <2>1. visAge' = visAge /\ ~starved
    BY <1>3 DEF clocks
  <2>2. visAge <= VisInterval + 1 + 2 * PushMax
    BY <1>1, <2>1, AtMostLate
  <2>3. QED
    BY <2>1, <2>2 DEF Lateness, Turning
<1>4. QED
  BY <1>2, <1>3

\* A read that is cut off leaves a capture that its source holds, or none, or one that
\* belongs to nobody.
LEMMA ReadIsCutKeeps == LoopInv /\ ReadIsCut => LoopInv'
<1> SUFFICES ASSUME LoopInv, ReadIsCut PROVE LoopInv'
  OBVIOUS
<1>1. pc = "read" /\ ReadRaises /\ pc' = "summary" /\ cut' = cut \cup {"reading"}
      /\ UNCHANGED <<clocks, due, spent, starved, blackVars, closed>>
  BY DEF ReadIsCut
<1>2. EndInv /\ CaptureInv
  BY <1>1, LoopInvParts DEF Turning
<1>3. CameraTypeOK' /\ Held'
  <2>1. CASE UNCHANGED cameraVars
    BY <1>1, <1>2, <2>1 DEF CaptureInv, CameraTypeOK, Held, cameraVars
  <2>2. CASE ~UNCHANGED cameraVars
    BY <1>1, <1>2, <2>2 DEF ReadRaises, CaptureInv, CameraTypeOK, Held
  <2>3. QED
    BY <2>1, <2>2
<1>4. cut = {} /\ closed = {}
  BY <1>1, <1>2 DEF EndInv, Parted, Turning
<1>5. EndInv'
  <2>1. closed' = {} /\ cut' = {"reading"}
    BY <1>1, <1>4
  <2>2. Parted'
    BY <1>1, <2>1 DEF Parted, Turning, Closables
  <2>3. QED
    BY <1>1, <1>3, <2>1, <2>2 DEF EndInv, Stations
<1>6. ClockTypes' /\ BlackInv' /\ (~starved' => Lateness')
  BY <1>1, EndsKeepRest DEF Turning
<1>7. QED
  BY <1>5, <1>6, Zenon DEF LoopInv

\* One step of the finally: what it closes, and what of the camera it leaves.
LEMMA ClosesKeeps ==
    ASSUME EndInv, pc \in DOMAIN After, Closes(pc)
    PROVE  /\ CameraTypeOK' /\ (cut \subseteq cut' => Held')
           /\ pc # "release" => UNCHANGED cameraVars
           /\ pc = "release" => capture' \in {"dead", "released"}
           /\ closed' = closed \cup ({pc} \cap Closables)
<1>1. CameraTypeOK /\ Held
  BY DEF EndInv
<1>2. CASE pc = "release"
  BY <1>1, <1>2 DEF Closes, Release, CameraTypeOK, Held
<1>3. CASE pc # "release"
  BY <1>1, <1>3 DEF Closes, CameraTypeOK, Held, cameraVars
<1>4. QED
  BY <1>2, <1>3 DEF Closes

LEMMA EndKeeps == LoopInv /\ End => LoopInv'
<1> SUFFICES ASSUME LoopInv, End PROVE LoopInv'
  OBVIOUS
<1>1. /\ pc \in DOMAIN After /\ pc' = After[pc] /\ Closes(pc)
      /\ UNCHANGED <<clocks, due, spent, starved, blackVars, cut>>
  BY DEF End
<1>2. EndInv
  BY LoopInvParts
<1>3. /\ CameraTypeOK' /\ Held'
      /\ pc # "release" => UNCHANGED cameraVars
      /\ pc = "release" => capture' \in {"dead", "released"}
      /\ closed' = closed \cup ({pc} \cap Closables)
  BY <1>1, <1>2, ClosesKeeps
<1>4. \/ pc = "summary" /\ pc' = "release" /\ closed' = {}
      \/ pc = "release" /\ pc' = "publisher" /\ closed' = {}
      \/ pc = "publisher" /\ pc' = "client" /\ closed' = {"publisher"}
      \/ pc = "client" /\ pc' = "socket" /\ closed' = {"publisher", "client"}
      \/ pc = "socket" /\ pc' = "done" /\ closed' = Closables
  <2>1. <<pc, pc'>> \in {<<"summary", "release">>, <<"release", "publisher">>,
                         <<"publisher", "client">>, <<"client", "socket">>, <<"socket", "done">>}
    BY <1>1 DEF After
  <2>2. /\ pc \in {"summary", "release", "publisher"} => closed = {}
        /\ pc = "client" => closed = {"publisher"}
        /\ pc = "socket" => closed = {"publisher", "client"}
    BY <1>2 DEF EndInv, Parted
  <2>3. closed' = closed \cup ({pc} \cap {"publisher", "client", "socket"})
    BY <1>3 DEF Closables
  <2>4. QED
    BY <2>1, <2>2, <2>3 DEF Closables
<1>5. "closing" \notin cut'
  BY <1>1, <1>2, <1>4 DEF EndInv, Parted
<1>6. pc \in Closables => capture' \in {"dead", "released"}
  BY <1>2, <1>3 DEF EndInv, Parted, Closables, cameraVars
<1>7. Parted'
  BY <1>3, <1>4, <1>5, <1>6 DEF Parted, Turning, Closables
<1>8. EndInv'
  BY <1>1, <1>2, <1>3, <1>4, <1>7 DEF EndInv, Stations, Closables
<1>9. ClockTypes' /\ BlackInv' /\ (~starved' => Lateness')
  BY <1>1, <1>4, EndsKeepRest DEF Turning
<1>10. QED
  BY <1>8, <1>9, Zenon DEF LoopInv

LEMMA EndRaisesKeeps == LoopInv /\ EndRaises => LoopInv'
<1> SUFFICES ASSUME LoopInv, EndRaises PROVE LoopInv'
  OBVIOUS
<1>1. /\ pc \in DOMAIN After /\ pc' = "done" /\ cut' = cut \cup {"closing"}
      /\ Closes(pc) \/ UNCHANGED <<cameraVars, closed>>
      /\ UNCHANGED <<clocks, due, spent, starved, blackVars>>
  BY DEF EndRaises
<1>2. EndInv
  BY LoopInvParts
<1>3. /\ CameraTypeOK' /\ Held'
      /\ pc # "release" => UNCHANGED cameraVars
      /\ closed' = closed \/ closed' = closed \cup ({pc} \cap Closables)
  <2>1. CASE Closes(pc)
    BY <1>1, <1>2, <2>1, ClosesKeeps
  <2>2. CASE UNCHANGED <<cameraVars, closed>>
    BY <1>1, <1>2, <2>2 DEF EndInv, CameraTypeOK, Held, cameraVars
  <2>3. QED
    BY <1>1, <2>1, <2>2
<1>4. \/ pc \in {"summary", "release"} /\ closed' = {}
      \/ pc = "publisher" /\ closed' \in {{}, {"publisher"}}
      \/ pc = "client" /\ closed' \in {{"publisher"}, {"publisher", "client"}}
      \/ pc = "socket" /\ closed' \in {{"publisher", "client"}, Closables}
  BY <1>1, <1>2, <1>3 DEF After, EndInv, Parted, Closables, Turning
<1>5. pc \in Closables => capture' \in {"dead", "released"}
  BY <1>2, <1>3 DEF EndInv, Parted, Closables, cameraVars
<1>6. Parted'
  BY <1>1, <1>4, <1>5 DEF Parted, Turning, Closables
<1>7. EndInv'
  BY <1>1, <1>2, <1>3, <1>6 DEF EndInv, Stations
<1>8. ClockTypes' /\ BlackInv' /\ (~starved' => Lateness')
  BY <1>1, EndsKeepRest DEF Turning
<1>9. QED
  BY <1>7, <1>8, Zenon DEF LoopInv

\* The camera's device changes at any time, and nothing else with it.
LEMMA DeviceKeeps == LoopInv /\ Device => LoopInv'
<1> SUFFICES ASSUME LoopInv, Device PROVE LoopInv'
  OBVIOUS
<1>1. EndInv /\ ClockTypes /\ BlackInv /\ (~starved => Lateness)
  BY LoopInvParts
<1>2. pc # "done" /\ DeviceChanges /\ UNCHANGED loopVars
  BY DEF Device
<1>3. EndInv'
  <2>1. CameraTypeOK' /\ Held'
    BY <1>1, <1>2 DEF DeviceChanges, EndInv, CameraTypeOK, Held, loopVars
  <2>2. capture' = capture \/ (capture = "open" /\ capture' = "broken")
    BY <1>2 DEF DeviceChanges
  <2>3. Parted'
    BY <1>1, <1>2, <2>2 DEF EndInv, Parted, loopVars
  <2>4. QED
    BY <1>1, <1>2, <2>1, <2>3 DEF EndInv, loopVars
<1>4. BlackInv' /\ ClockTypes'
  BY <1>1, <1>2, Zenon DEF BlackInv, WarnedRight, WarnsOnce, ClockTypes, loopVars
<1>5. ASSUME ~starved' PROVE Lateness'
  BY <1>1, <1>2, <1>5, Zenon DEF Lateness, Due, loopVars
<1>6. QED
  BY <1>3, <1>4, <1>5, Zenon DEF LoopInv

LEMMA LoopInvInit == LoopInit => LoopInv
<1> SUFFICES ASSUME LoopInit PROVE LoopInv
  OBVIOUS
<1>1. EndInv
  <2>1. CameraTypeOK /\ Held /\ capture # "released"
    BY LoopConstants DEF LoopInit, CameraInit, CameraTypeOK, Held
  <2>2. pc = "read" /\ cut = {} /\ closed = {}
    BY DEF LoopInit
  <2>3. Parted
    BY <2>1, <2>2 DEF Parted, Closables
  <2>4. QED
    BY <2>1, <2>2, <2>3 DEF EndInv, Stations, Turning
<1>2. ClockTypes
  <2>1. starved \in BOOLEAN /\ due \in [vis : BOOLEAN, push : BOOLEAN]
    BY DEF LoopInit
  <2>2. QED
    BY <2>1, LoopConstants DEF LoopInit, ClockTypes
<1>3. BlackInv
  <2>1. warned \in BOOLEAN /\ ~warned
    BY Zenon DEF LoopInit
  <2>2. QED
    BY <2>1, LoopConstants DEF LoopInit, BlackInv, WarnedRight, WarnsOnce
<1>4. Lateness
  BY LoopConstants DEF LoopInit, Lateness, Due, Turning
<1>5. QED
  BY <1>1, <1>2, <1>3, <1>4, Zenon DEF LoopInv

LEMMA LoopInvStutter == LoopInv /\ UNCHANGED processVars => LoopInv'
<1> SUFFICES ASSUME LoopInv, UNCHANGED processVars PROVE LoopInv'
  OBVIOUS
<1>1. UNCHANGED cameraVars /\ UNCHANGED loopVars
  BY DEF processVars
<1>2. EndInv /\ ClockTypes /\ BlackInv /\ (~starved => Lateness)
  BY LoopInvParts
<1>3. EndInv'
  BY <1>1, <1>2 DEF EndInv, CameraTypeOK, Held, Parted, cameraVars, loopVars
<1>4. BlackInv' /\ ClockTypes'
  BY <1>1, <1>2, Zenon DEF BlackInv, WarnedRight, WarnsOnce, ClockTypes, loopVars
<1>5. ASSUME ~starved' PROVE Lateness'
  BY <1>1, <1>2, <1>5, Zenon DEF Lateness, Due, loopVars
<1>6. QED
  BY <1>3, <1>4, <1>5, Zenon DEF LoopInv

\* The invariant holds in every state of every run of the loop.
LEMMA LoopInvHolds == LoopSpec => []LoopInv
<1>1. LoopInv /\ [LoopNext]_processVars => LoopInv'
  BY ReadKeeps, ReadIsCutKeeps, LookKeeps, PushKeeps, EmitKeeps, MovesKeep, EndKeeps,
     EndRaisesKeeps, DeviceKeeps, LoopInvStutter, Zenon DEF LoopNext, Step
<1>2. QED
  BY <1>1, LoopInvInit, PTL DEF LoopSpec

\* However the camera is unplugged, blinded and plugged in again, and wherever an exception or
\* a signal leaves the loop, in the middle of a reconnect too, CameraSource holds one capture
\* of its device at most and reads none that is released; a dark stretch of any length is warned
\* of once; and the finally closes camera, publisher, client and socket in this order, all of
\* them unless one of its own steps raises.
THEOREM LoopStaysSound == LoopSpec => []LoopIsSound
<1>1. ASSUME LoopInv PROVE LoopIsSound
  <2>1. EndInv /\ ClockTypes /\ BlackInv
    BY <1>1, LoopInvParts
  <2>2. closed \subseteq Closables
    BY <2>1 DEF EndInv, Parted, Closables
  <2>3. LoopTypeOK
    BY <2>1, <2>2, Zenon DEF EndInv, ClockTypes, BlackInv, Stations, LoopTypeOK
  <2>4. CaptureIsSound
    BY <1>1, LoopInvParts DEF CaptureInv, CaptureIsSound, Turning
  <2>5. EndsClean
    <3>1. closed \in {{}, {"publisher"}, {"publisher", "client"}, Closables}
      BY <2>1 DEF EndInv, Parted
    <3>2. closed # {} => handles = 0 \/ (capture = "dead" /\ "reading" \in cut)
      BY <2>1 DEF EndInv, Parted, Held
    <3>3. pc = "done" /\ "closing" \notin cut => closed = Closables
      BY <2>1 DEF EndInv, Parted
    <3>4. QED
      BY <3>1, <3>2, <3>3 DEF EndsClean, Closables
  <2>6. QED
    BY <2>1, <2>3, <2>4, <2>5, Zenon DEF LoopIsSound, BlackInv, WarnedRight
<1>2. QED
  BY <1>1, LoopInvHolds, PTL

\* For every vis_hz, every frame_fps and every timeout of a push: while the source delivers, no
\* VIS message of the loop is later than its interval, one frame and two pushes.
THEOREM VisMessagesKeepComing == LoopSpec => []VisKeepsComing
<1>1. ASSUME LoopInv PROVE VisKeepsComing
  BY <1>1, LoopInvParts, AtMostLate DEF VisKeepsComing, EndInv
<1>2. QED
  BY <1>1, LoopInvHolds, PTL
-----------------------------------------------------------------------------
(* The geometry: what is between two numbers, and in two rectangles.       *)

LEMMA ClampValue ==
    ASSUME NEW v \in Int, NEW low \in Int, NEW high \in Int, low <= high
    PROVE  Clamp(v, low, high) = IF v < low THEN low ELSE IF v > high THEN high ELSE v
<1>1. Min({high, v}) = IF high <= v THEN high ELSE v
  BY MinPair
<1>2. Min({high, v}) \in Int
  BY <1>1
<1>3. Max({low, Min({high, v})}) = IF low >= Min({high, v}) THEN low ELSE Min({high, v})
  BY <1>2, MaxPair
<1>4. QED
  BY <1>1, <1>3 DEF Clamp

LEMMA Clamp01Value ==
    ASSUME NEW v \in Int
    PROVE  /\ Clamp01(v) \in 0 .. One
           /\ Clamp01(v) = IF v < 0 THEN 0 ELSE IF v > One THEN One ELSE v
<1>1. Clamp(v, 0, One) = IF v < 0 THEN 0 ELSE IF v > One THEN One ELSE v
  BY ClampValue DEF One
<1>2. QED
  BY <1>1 DEF Clamp01, One, NaN

\* A quotient is at least k when its dividend is at least k times the divisor.
LEMMA QuotientBound ==
    ASSUME NEW a \in Int, NEW b \in Nat \ {0}, NEW k \in Int
    PROVE  a \div b \in Int /\ (a \div b >= k <=> a >= k * b)
<1> DEFINE q == a \div b
<1>1. q \in Int /\ q * b <= a /\ a < q * b + b
  OBVIOUS
<1> HIDE DEF q
<1>2. ASSUME q >= k PROVE a >= k * b
  <2>1. q * b >= k * b
    BY <1>1, <1>2
  <2>2. QED
    BY <1>1, <2>1
<1>3. ASSUME ~(q >= k) PROVE ~(a >= k * b)
  <2>1. q + 1 <= k
    BY <1>1, <1>3
  <2>2. (q + 1) * b <= k * b
    BY <1>1, <2>1
  <2>3. (q + 1) * b = q * b + b
    BY <1>1
  <2>4. QED
    BY <1>1, <2>2, <2>3
<1>4. QED
  BY <1>1, <1>2, <1>3 DEF q

\* Whole points on a line and in a rectangle.
Span(a, n) == a .. a + n - 1
Rectangle(x, y, w, h) == Span(x, w) \X Span(y, h)

LEMMA SpanCount ==
    ASSUME NEW a \in Int, NEW n \in Int
    PROVE  IsFiniteSet(Span(a, n)) /\ Cardinality(Span(a, n)) = IF n > 0 THEN n ELSE 0
<1>1. a + n - 1 \in Int
  OBVIOUS
<1>2. /\ IsFiniteSet(a .. a + n - 1)
      /\ Cardinality(a .. a + n - 1) = IF a > a + n - 1 THEN 0 ELSE (a + n - 1) - a + 1
  BY <1>1, FS_Interval
<1>3. Cardinality(a .. a + n - 1) = IF n > 0 THEN n ELSE 0
  BY <1>2
<1>4. QED
  BY <1>2, <1>3, Zenon DEF Span

\* A rectangle has as many points as its sides say.
LEMMA RectangleCount ==
    ASSUME NEW x \in Int, NEW y \in Int, NEW w \in Int, NEW h \in Int
    PROVE  /\ IsFiniteSet(Rectangle(x, y, w, h))
           /\ Cardinality(Rectangle(x, y, w, h)) = IF w > 0 /\ h > 0 THEN w * h ELSE 0
<1> DEFINE A == Span(x, w)
           B == Span(y, h)
<1>1. /\ IsFiniteSet(A) /\ Cardinality(A) = IF w > 0 THEN w ELSE 0
      /\ IsFiniteSet(B) /\ Cardinality(B) = IF h > 0 THEN h ELSE 0
  BY SpanCount
<1> HIDE DEF A, B
<1>2. IsFiniteSet(A \X B) /\ Cardinality(A \X B) = Cardinality(A) * Cardinality(B)
  BY <1>1, FS_Product
<1>3. Cardinality(A) * Cardinality(B) = IF w > 0 /\ h > 0 THEN w * h ELSE 0
  <2>1. CASE w > 0 /\ h > 0
    BY <1>1, <2>1
  <2>2. CASE w <= 0
    <3>1. Cardinality(A) = 0 /\ Cardinality(B) \in Int
      BY <1>1, <2>2
    <3>2. QED
      BY <2>2, <3>1
  <2>3. CASE h <= 0
    <3>1. Cardinality(A) \in Int /\ Cardinality(B) = 0
      BY <1>1, <2>3
    <3>2. QED
      BY <2>3, <3>1
  <2>4. QED
    BY <2>1, <2>2, <2>3
<1>4. QED
  BY <1>2, <1>3 DEF A, B, Rectangle

\* Two spans meet in a span as long as Side says.
LEMMA SideIsSymmetric ==
    ASSUME NEW p \in Int, NEW pw \in Int, NEW q \in Int, NEW qw \in Int
    PROVE  /\ Side(p, pw, q, qw) \in Int /\ Side(p, pw, q, qw) = Side(q, qw, p, pw)
           /\ Side(p, pw, q, qw) <= pw /\ Side(p, pw, q, qw) <= qw
<1> DEFINE low == IF p >= q THEN p ELSE q
           high == IF p + pw <= q + qw THEN p + pw ELSE q + qw
<1>1. Max({p, q}) = low /\ Min({p + pw, q + qw}) = high
  BY MaxPair, MinPair
<1>2. {p, q} = {q, p} /\ {p + pw, q + qw} = {q + qw, p + pw}
  OBVIOUS
<1>3. Side(p, pw, q, qw) = high - low /\ Side(q, qw, p, pw) = high - low
  BY <1>1, <1>2, Zenon DEF Side
<1>4. high - low \in Int /\ high - low <= pw /\ high - low <= qw
  OBVIOUS
<1> HIDE DEF low, high
<1>5. QED
  BY <1>3, <1>4

LEMMA SpansMeet ==
    ASSUME NEW p \in Int, NEW pw \in Int, NEW q \in Int, NEW qw \in Int
    PROVE  \E x \in Int : Span(p, pw) \cap Span(q, qw) = Span(x, Side(p, pw, q, qw))
<1> DEFINE low == IF p >= q THEN p ELSE q
           high == IF p + pw <= q + qw THEN p + pw ELSE q + qw
<1>1. Max({p, q}) = low /\ Min({p + pw, q + qw}) = high
  BY MaxPair, MinPair
<1>2. Side(p, pw, q, qw) = high - low
  BY <1>1, Zenon DEF Side
<1>3. low \in Int /\ high \in Int
  OBVIOUS
<1>4. Span(p, pw) \cap Span(q, qw) = low .. high - 1
  BY DEF Span
<1> HIDE DEF low, high
<1>5. Span(low, high - low) = low .. high - 1
  <2>1. low + (high - low) - 1 = high - 1
    BY <1>3
  <2>2. QED
    BY <2>1 DEF Span
<1>6. QED
  BY <1>2, <1>3, <1>4, <1>5

IntBoxes == [x : Int, y : Int, w : Int, h : Int]

LEMMA CellsAreRectangles ==
    ASSUME NEW p \in IntBoxes, NEW q \in IntBoxes
    PROVE  /\ Cells(p) = Rectangle(p.x, p.y, p.w, p.h)
           /\ \E x, y \in Int : Cells(p) \cap Cells(q)
                 = Rectangle(x, y, Side(p.x, p.w, q.x, q.w), Side(p.y, p.h, q.y, q.h))
<1>1. /\ p.x \in Int /\ p.y \in Int /\ p.w \in Int /\ p.h \in Int
      /\ q.x \in Int /\ q.y \in Int /\ q.w \in Int /\ q.h \in Int
  BY DEF IntBoxes
<1>2. /\ Cells(p) = Span(p.x, p.w) \X Span(p.y, p.h)
      /\ Cells(q) = Span(q.x, q.w) \X Span(q.y, q.h)
  BY Zenon DEF Cells, Span
<1>3. \A A, B, C, D : (A \X B) \cap (C \X D) = (A \cap C) \X (B \cap D)
  OBVIOUS
<1>4. PICK x \in Int : Span(p.x, p.w) \cap Span(q.x, q.w) = Span(x, Side(p.x, p.w, q.x, q.w))
  BY <1>1, SpansMeet
<1>5. PICK y \in Int : Span(p.y, p.h) \cap Span(q.y, q.h) = Span(y, Side(p.y, p.h, q.y, q.h))
  BY <1>1, SpansMeet
<1>6. Cells(p) \cap Cells(q)
         = (Span(p.x, p.w) \cap Span(q.x, q.w)) \X (Span(p.y, p.h) \cap Span(q.y, q.h))
  BY <1>2, <1>3, Zenon
<1>7. QED
  BY <1>2, <1>4, <1>5, <1>6, Zenon DEF Rectangle

LEMMA SidesOfBoxes ==
    ASSUME NEW p \in IntBoxes, NEW q \in IntBoxes
    PROVE  /\ Side(p.x, p.w, q.x, q.w) \in Int
           /\ Side(p.x, p.w, q.x, q.w) = Side(q.x, q.w, p.x, p.w)
           /\ Side(p.x, p.w, q.x, q.w) <= p.w /\ Side(p.x, p.w, q.x, q.w) <= q.w
           /\ Side(p.y, p.h, q.y, q.h) \in Int
           /\ Side(p.y, p.h, q.y, q.h) = Side(q.y, q.h, p.y, p.h)
           /\ Side(p.y, p.h, q.y, q.h) <= p.h /\ Side(p.y, p.h, q.y, q.h) <= q.h
<1>1. PICK px \in Int, pw \in Int, qx \in Int, qw \in Int :
         p.x = px /\ p.w = pw /\ q.x = qx /\ q.w = qw
  BY DEF IntBoxes
<1>2. PICK py \in Int, ph \in Int, qy \in Int, qh \in Int :
         p.y = py /\ p.h = ph /\ q.y = qy /\ q.h = qh
  BY DEF IntBoxes
<1>3. /\ Side(px, pw, qx, qw) \in Int /\ Side(px, pw, qx, qw) = Side(qx, qw, px, pw)
      /\ Side(px, pw, qx, qw) <= pw /\ Side(px, pw, qx, qw) <= qw
  BY SideIsSymmetric
<1>4. /\ Side(py, ph, qy, qh) \in Int /\ Side(py, ph, qy, qh) = Side(qy, qh, py, ph)
      /\ Side(py, ph, qy, qh) <= ph /\ Side(py, ph, qy, qh) <= qh
  BY SideIsSymmetric
<1>5. QED
  BY <1>1, <1>2, <1>3, <1>4

\* Iou of two boxes is the share of their points that is in both.
LEMMA IouCounts ==
    ASSUME NEW p \in IntBoxes, NEW q \in IntBoxes
    PROVE  LET both == Cardinality(Cells(p) \cap Cells(q))
               any == Cardinality(Cells(p) \cup Cells(q))
           IN  /\ Iou(p, q).num * any = both * Iou(p, q).den
               /\ Iou(p, q) = Iou(q, p)
<1> DEFINE w == Side(p.x, p.w, q.x, q.w)
           h == Side(p.y, p.h, q.y, q.h)
           both == Cardinality(Cells(p) \cap Cells(q))
           any == Cardinality(Cells(p) \cup Cells(q))
<1>1. /\ p.x \in Int /\ p.y \in Int /\ p.w \in Int /\ p.h \in Int
      /\ q.x \in Int /\ q.y \in Int /\ q.w \in Int /\ q.h \in Int
  BY DEF IntBoxes
<1>2. /\ w \in Int /\ h \in Int /\ w = Side(q.x, q.w, p.x, p.w) /\ h = Side(q.y, q.h, p.y, p.h)
      /\ w <= p.w /\ w <= q.w /\ h <= p.h /\ h <= q.h
  BY SidesOfBoxes, Zenon
<1>3. /\ IsFiniteSet(Cells(p))
      /\ p.w > 0 /\ p.h > 0 => Cardinality(Cells(p)) = p.w * p.h
  <2>1. Cells(p) = Rectangle(p.x, p.y, p.w, p.h)
    BY CellsAreRectangles
  <2>2. QED
    BY <1>1, <2>1, RectangleCount
<1>4. /\ IsFiniteSet(Cells(q))
      /\ q.w > 0 /\ q.h > 0 => Cardinality(Cells(q)) = q.w * q.h
  <2>1. Cells(q) = Rectangle(q.x, q.y, q.w, q.h)
    BY CellsAreRectangles
  <2>2. QED
    BY <1>1, <2>1, RectangleCount
<1>5. /\ w > 0 /\ h > 0 => both = w * h
      /\ w <= 0 \/ h <= 0 => both = 0
  <2>1. PICK x \in Int, y \in Int : Cells(p) \cap Cells(q) = Rectangle(x, y, w, h)
    BY CellsAreRectangles
  <2>2. PICK m \in Int, n \in Int : m = w /\ n = h
    BY <1>2
  <2>3. both = Cardinality(Rectangle(x, y, m, n))
    BY <2>1, <2>2
  <2> HIDE DEF w, h, both
  <2>4. both = IF m > 0 /\ n > 0 THEN m * n ELSE 0
    BY <2>3, RectangleCount
  <2>5. QED
    BY <2>2, <2>4
<1>6. any = Cardinality(Cells(p)) + Cardinality(Cells(q)) - both
  BY <1>3, <1>4, FS_Union, Zenon
<1>7. any \in Nat /\ both \in Nat
  BY <1>3, <1>4, FS_Union, FS_Intersection, FS_CardinalityType
<1> DEFINE empty == p.w <= 0 \/ p.h <= 0 \/ q.w <= 0 \/ q.h <= 0 \/ w <= 0 \/ h <= 0
<1>8. /\ Iou(p, q) = IF empty THEN NoOverlap
                     ELSE [num |-> w * h, den |-> p.w * p.h + q.w * q.h - w * h]
      /\ Iou(q, p) = IF empty THEN NoOverlap
                     ELSE [num |-> w * h, den |-> q.w * q.h + p.w * p.h - w * h]
  <2> HIDE DEF w, h
  <2>1. Iou(p, q) = IF empty THEN NoOverlap
                    ELSE [num |-> w * h, den |-> p.w * p.h + q.w * q.h - w * h]
    BY DEF Iou, w, h
  <2>2. Iou(q, p) = IF empty THEN NoOverlap
                    ELSE [num |-> w * h, den |-> q.w * q.h + p.w * p.h - w * h]
    <3>1. Iou(q, p) = IF q.w <= 0 \/ q.h <= 0 \/ p.w <= 0 \/ p.h <= 0 \/ w <= 0 \/ h <= 0
                      THEN NoOverlap
                      ELSE [num |-> w * h, den |-> q.w * q.h + p.w * p.h - w * h]
      BY <1>2, Zenon DEF Iou
    <3>2. QED
      BY <3>1, Zenon
  <2>3. QED
    BY <2>1, <2>2
<1> HIDE DEF w, h, both, any
<1>9. CASE empty
  <2>1. both = 0
    BY <1>1, <1>2, <1>5, <1>9
  <2>2. Iou(p, q) = NoOverlap /\ Iou(q, p) = NoOverlap
    BY <1>8, <1>9
  <2>3. Iou(p, q).num * any = both * Iou(p, q).den
    BY <1>7, <2>1, <2>2 DEF NoOverlap
  <2>4. QED
    BY <2>2, <2>3 DEF both, any
<1>10. CASE ~empty
  <2>1. p.w > 0 /\ p.h > 0 /\ q.w > 0 /\ q.h > 0 /\ w > 0 /\ h > 0
    BY <1>1, <1>2, <1>10
  <2>2. both = w * h /\ any = p.w * p.h + q.w * q.h - w * h
    BY <1>3, <1>4, <1>5, <1>6, <2>1
  <2>3. /\ Iou(p, q) = [num |-> both, den |-> any]
        /\ Iou(q, p) = [num |-> w * h, den |-> q.w * q.h + p.w * p.h - w * h]
    BY <1>8, <1>10, <2>2
  <2>4. q.w * q.h + p.w * p.h - w * h = any
    <3>1. p.w * p.h \in Int /\ q.w * q.h \in Int /\ w * h \in Int
      BY <1>1, <1>2
    <3>2. QED
      BY <2>2, <3>1
  <2>5. Iou(p, q) = Iou(q, p)
    BY <2>2, <2>3, <2>4
  <2>6. Iou(p, q).num * any = both * Iou(p, q).den
    BY <2>3
  <2>7. QED
    BY <2>5, <2>6 DEF both, any
<1>11. QED
  BY <1>9, <1>10
-----------------------------------------------------------------------------
(* The geometry: from a detection to the tracker and to the message.       *)

LEMMA RoundType == ASSUME NEW v \in Int PROVE Round(v) \in Int
BY DEF Round

\* The box for the tracker is in the frame, wherever the detection lies.
LEMMA CvBoxIsInside ==
    ASSUME NEW p \in IntBoxes, CvBox(p) # NoBox
    PROVE  LET c == CvBox(p) IN
           /\ c.w > 0 /\ c.h > 0
           /\ c.x \in 0 .. ImgW - 1 /\ c.x + c.w <= ImgW
           /\ c.y \in 0 .. ImgH - 1 /\ c.y + c.h <= ImgH
<1>1. ImgW \in Nat \ {0} /\ ImgH \in Nat \ {0}
  BY BoxesAssumption
<1>2. PICK a \in Int, b \in Int, m \in Int, n \in Int :
         a = Round(p.x) /\ b = Round(p.y) /\ m = Round(p.w) /\ n = Round(p.h)
  <2>1. PICK x \in Int, y \in Int, w \in Int, h \in Int :
           p.x = x /\ p.y = y /\ p.w = w /\ p.h = h
    BY DEF IntBoxes
  <2>2. Round(x) \in Int /\ Round(y) \in Int /\ Round(w) \in Int /\ Round(h) \in Int
    BY RoundType
  <2>3. QED
    BY <2>1, <2>2
<1> DEFINE x == Clamp(a, 0, ImgW - 1)
           y == Clamp(b, 0, ImgH - 1)
<1>3. ImgW - 1 \in Int /\ ImgH - 1 \in Int /\ 0 <= ImgW - 1 /\ 0 <= ImgH - 1
  BY <1>1
<1>4. x \in 0 .. ImgW - 1 /\ y \in 0 .. ImgH - 1
  BY <1>3, ClampValue
<1>5. ImgW - x \in Int /\ ImgH - y \in Int
  BY <1>1, <1>4
<1> HIDE DEF x, y
<1>6. Min({m, ImgW - x}) = (IF m <= ImgW - x THEN m ELSE ImgW - x)
  BY <1>5, MinPair
<1>7. Min({n, ImgH - y}) = (IF n <= ImgH - y THEN n ELSE ImgH - y)
  BY <1>5, MinPair
<1>8. m > 0 /\ n > 0 /\ CvBox(p) = [x |-> x, y |-> y, w |-> Min({m, ImgW - x}),
                                    h |-> Min({n, ImgH - y})]
  BY <1>2 DEF CvBox, x, y
<1>9. CvBox(p).x = x /\ CvBox(p).y = y
  BY <1>8
<1>10. CvBox(p).w > 0 /\ x + CvBox(p).w <= ImgW
  BY <1>1, <1>4, <1>6, <1>8
<1>11. CvBox(p).h > 0 /\ y + CvBox(p).h <= ImgH
  BY <1>1, <1>4, <1>7, <1>8
<1>12. QED
  BY <1>4, <1>9, <1>10, <1>11

\* What the vision process may have found, with numbers a message can carry.
Normal == [cx : 0 .. One, cy : 0 .. One, w : 0 .. One, h : 0 .. One]
Found == [state : TrackingStates, bbox : Normal, conf : 0 .. One]

\* The numbers of a normalized box, each the clamped quotient of two pixels.
Across(p) == (One * (2 * p.x + p.w)) \div (4 * ImgW)
Down(p) == (One * (2 * p.y + p.h)) \div (4 * ImgH)

LEMMA NormalizeType ==
    ASSUME NEW p \in IntBoxes
    PROVE  /\ Normalize(p) \in Normal
           /\ Across(p) \in Int /\ Down(p) \in Int
           /\ Normalize(p).cx = Clamp01(Across(p)) /\ Normalize(p).cy = Clamp01(Down(p))
<1>1. PICK x \in Int, y \in Int, w \in Int, h \in Int :
         p.x = x /\ p.y = y /\ p.w = w /\ p.h = h
  BY DEF IntBoxes
<1>2. 4 * ImgW \in Nat \ {0} /\ 4 * ImgH \in Nat \ {0} /\ 2 * ImgW \in Nat \ {0}
      /\ 2 * ImgH \in Nat \ {0}
  BY BoxesAssumption
<1>3. One * (2 * x + w) \in Int /\ One * (2 * y + h) \in Int /\ One * w \in Int /\ One * h \in Int
  BY DEF One
<1>4. \A u \in Int, v \in Nat \ {0} : u \div v \in Int
  OBVIOUS
<1>5. /\ (One * (2 * x + w)) \div (4 * ImgW) \in Int /\ (One * (2 * y + h)) \div (4 * ImgH) \in Int
      /\ (One * w) \div (2 * ImgW) \in Int /\ (One * h) \div (2 * ImgH) \in Int
  BY <1>2, <1>3, <1>4
<1>6. Across(p) \in Int /\ Down(p) \in Int
  BY <1>1, <1>5 DEF Across, Down
<1>7. /\ Clamp01(Across(p)) \in 0 .. One /\ Clamp01(Down(p)) \in 0 .. One
      /\ Clamp01((One * p.w) \div (2 * ImgW)) \in 0 .. One
      /\ Clamp01((One * p.h) \div (2 * ImgH)) \in 0 .. One
  BY <1>1, <1>5, <1>6, Clamp01Value
<1>8. QED
  BY <1>6, <1>7 DEF Normalize, Normal, Across, Down

LEMMA SweepBoxType == ASSUME NEW f \in 0 .. 181 PROVE SweepBox(f) \in Normal
<1> DEFINE g == Max({1, f})
           ph == (((g - 1) % 120) * One) \div 119
<1>1. g \in Nat /\ g >= 1
  BY MaxPair
<1> HIDE DEF g
<1>2. (g - 1) % 120 \in 0 .. 119
  BY <1>1
<1>3. ph \in 0 .. One
  BY <1>2 DEF One
<1>4. SweepBox(f) = [cx |-> 150 + (700 * ph) \div One, cy |-> 500, w |-> 240, h |-> 300]
  BY Zenon DEF SweepBox, g, ph
<1> HIDE DEF ph
<1>5. 150 + (700 * ph) \div One \in 0 .. One
  BY <1>3 DEF One
<1>6. 500 \in 0 .. One /\ 240 \in 0 .. One /\ 300 \in 0 .. One
  BY DEF One
<1>7. QED
  BY <1>4, <1>5, <1>6 DEF Normal

\* Every pattern and every tracked detection has a state and numbers of a message.
LEMMA PatternFound ==
    ASSUME NEW m, NEW f \in 0 .. 181 PROVE PatternResult(m, f) \in Found
<1>1. ASSUME NEW s \in TrackingStates, NEW c \in 0 .. One
      PROVE  Result(s, SweepBox(f), c) \in Found /\ Result(s, NoNumbers, 0) \in Found
  <2>1. NoNumbers \in Normal /\ 0 \in 0 .. One
    BY DEF NoNumbers, Normal, One
  <2>2. QED
    BY <2>1, SweepBoxType DEF Result, Found
<1>2. \A c \in {900, 700, 650, 930, 720, 920, 0} : c \in 0 .. One
  BY DEF One
<1>3. 1 \in TrackingStates /\ 2 \in TrackingStates /\ Tracking \in TrackingStates
      /\ 4 \in TrackingStates
  BY DEF Tracking, TrackingStates
<1>4. \A c \in {900, 700, 650, 930, 720, 920, 0} :
         /\ PatternTracking(f, c) \in Found /\ PatternDetected(f, c) \in Found
  BY <1>1, <1>2, <1>3 DEF PatternTracking, PatternDetected
<1>5. Result(4, NoNumbers, 0) \in Found /\ Result(1, NoNumbers, 0) \in Found
  BY <1>1, <1>2, <1>3
<1>6. LoseResult(f) \in Found
  BY <1>4, <1>5 DEF LoseResult
<1>7. ReacquireResult(f) \in Found
  BY <1>4, <1>5 DEF ReacquireResult
<1>8. QED
  BY <1>4, <1>5, <1>6, <1>7 DEF PatternResult

LEMMA ResultsFound == Results \subseteq Found
<1>1. ASSUME NEW p \in AllBoxes, NEW c \in Int, NEW d \in Detections(p, c, 500)
      PROVE  TrackingResult(d) \in Found
  <2>1. d = [box |-> p, conf |-> c]
    BY DEF Detections
  <2>2. p \in IntBoxes
    BY BoxesAssumption DEF AllBoxes, IntBoxes
  <2>4. TrackingResult(d) = Result(Tracking, Normalize(p), Clamp01(c))
    BY <2>1 DEF TrackingResult
  <2>5. Normalize(p) \in Normal /\ Clamp01(c) \in 0 .. One /\ Tracking \in TrackingStates
    BY <2>2, NormalizeType, Clamp01Value DEF Tracking, TrackingStates
  <2>6. QED
    BY <2>4, <2>5 DEF Result, Found
<1>2. TrackedResults \subseteq Found
  BY <1>1 DEF TrackedResults, One, NaN
<1>3. PatternResults \subseteq Found
  BY PatternFound DEF PatternResults
<1>4. QED
  BY <1>2, <1>3 DEF Results

\* The backend accepts the payload of any of them and keeps it as it is.
LEMMA PayloadPasses ==
    ASSUME NEW r \in Found
    PROVE  VisReason(Payload(r)) = "" /\ Normalized(Payload(r)) = Payload(r)
<1>1. /\ r.state \in 1 .. 4 /\ r.conf \in 0 .. One
      /\ r.bbox.cx \in 0 .. One /\ r.bbox.cy \in 0 .. One /\ r.bbox.w \in 0 .. One
  BY DEF Found, Normal, TrackingStates
<1>2. CASE r.state # Tracking
  <2>1. Payload(r) = Wire(r.state, 0, 0, 0, 0)
    BY <1>2 DEF Payload
  <2>2. Normalized(Wire(r.state, 0, 0, 0, 0)) = Wire(r.state, 0, 0, 0, 0)
    BY <1>1, <1>2 DEF Normalized, Wire
  <2>3. VisReason(Wire(r.state, 0, 0, 0, 0)) = ""
    BY <1>1, <1>2 DEF VisReason, Common, NearZero, InRange, Finite, Wire, One, Eps, NaN, Infinity,
       TrackingStates
  <2>4. QED
    BY <2>1, <2>2, <2>3
<1>3. CASE r.state = Tracking
  <2> DEFINE x == Clamp((r.bbox.cx - 500) * 2, -One, One)
             y == Clamp((500 - r.bbox.cy) * 2, -One, One)
             b == Clamp01(r.bbox.w)
             c == Clamp01(r.conf)
  <2>1. Payload(r) = Wire(Tracking, x, y, b, c)
    BY <1>3 DEF Payload
  <2>2. x \in -One .. One
    <3>1. PICK u \in 0 .. One : u = r.bbox.cx
      BY <1>1
    <3>2. (u - 500) * 2 \in Int /\ -One \in Int /\ One \in Int /\ -One <= One
      BY DEF One
    <3>3. Clamp((u - 500) * 2, -One, One) \in -One .. One
      BY <3>2, ClampValue
    <3>4. QED
      BY <3>1, <3>3
  <2>3. b \in 0 .. One /\ c \in 0 .. One
    BY <1>1, Clamp01Value
  <2> HIDE DEF x, y, b, c
  <2>4. VisReason(Wire(Tracking, x, y, b, c)) = ""
    BY <2>2, <2>3 DEF VisReason, Common, InRange, Finite, Wire, One, NaN, Infinity, TrackingStates, Tracking
  <2>5. Normalized(Wire(Tracking, x, y, b, c)) = Wire(Tracking, x, y, b, c)
    BY DEF Normalized, Wire
  <2>6. QED
    BY <2>1, <2>4, <2>5
<1>4. QED
  BY <1>2, <1>3

\* Where the middle and a thousandth beyond it are among the quotients.
LEMMA MiddleOfQuotient ==
    ASSUME NEW a \in Int, NEW n \in Nat \ {0}
    PROVE  /\ a \div (4 * n) \in Int
           /\ a \div (4 * n) >= 500 <=> a >= 2000 * n
           /\ a \div (4 * n) >= 501 <=> a >= 2004 * n
<1>1. PICK d \in Nat \ {0} : d = 4 * n
  OBVIOUS
<1>2. 500 * d = 2000 * n /\ 501 * d = 2004 * n
  BY <1>1
<1>3. a \div d \in Int /\ (a \div d >= 500 <=> a >= 500 * d) /\ (a \div d >= 501 <=> a >= 501 * d)
  BY QuotientBound
<1>4. QED
  BY <1>1, <1>2, <1>3

LEMMA MiddleOfClamp ==
    ASSUME NEW u \in Int, NEW c, c = Clamp01(u)
    PROVE  /\ c \in Int /\ 0 <= c /\ c <= 1000
           /\ c >= 500 <=> u >= 500
           /\ c >= 501 <=> u >= 501
<1>1. c = IF u < 0 THEN 0 ELSE IF u > 1000 THEN 1000 ELSE u
  BY Clamp01Value DEF One
<1>2. c \in Int
  BY <1>1
<1>3. CASE u < 0
  <2>1. c = 0
    BY <1>1, <1>3
  <2>2. QED
    BY <1>3, <2>1
<1>4. CASE u > 1000
  <2>1. c = 1000
    BY <1>1, <1>4
  <2>2. QED
    BY <1>4, <2>1
<1>5. CASE 0 <= u /\ u <= 1000
  <2>1. c = u
    BY <1>1, <1>5
  <2>2. QED
    BY <1>2, <1>5, <2>1
<1>6. QED
  BY <1>3, <1>4, <1>5

\* What is within the bounds is left as it is.
LEMMA ClampWithin ==
    ASSUME NEW n \in Int, -One <= n, n <= One
    PROVE  Clamp(n, -One, One) = n
  BY ClampValue DEF One

\* The signs of the message are those of the place in the frame.
LEMMA SidesKept ==
    ASSUME NEW p \in IntBoxes
    PROVE  LET c == Payload(Result(Tracking, Normalize(p), One))
               right == 2 * p.x + p.w - 2 * ImgW
               below == 2 * p.y + p.h - 2 * ImgH
           IN  /\ c.loc < 0 <=> right < 0
               /\ c.loc > 0 <=> One * right >= 4 * ImgW
               /\ c.locy > 0 <=> below < 0
               /\ c.locy < 0 <=> One * below >= 4 * ImgH
<1>1. PICK x \in Int, y \in Int, w \in Int, h \in Int :
         p.x = x /\ p.y = y /\ p.w = w /\ p.h = h
  BY DEF IntBoxes
<1>2. ImgW \in Nat \ {0} /\ ImgH \in Nat \ {0} /\ 4 * ImgW \in Nat \ {0} /\ 4 * ImgH \in Nat \ {0}
  BY BoxesAssumption
<1> DEFINE a == One * (2 * x + w)
           b == One * (2 * y + h)
<1>3. a = 1000 * (2 * x + w) /\ b = 1000 * (2 * y + h) /\ a \in Int /\ b \in Int
  BY DEF One
<1> HIDE DEF a, b
<1>4. PICK u \in Int, v \in Int : u = a \div (4 * ImgW) /\ v = b \div (4 * ImgH)
  BY <1>2, <1>3, MiddleOfQuotient
<1>5. /\ u >= 500 <=> a >= 2000 * ImgW
      /\ u >= 501 <=> a >= 2004 * ImgW
  BY <1>2, <1>3, <1>4, MiddleOfQuotient
<1>6. /\ v >= 500 <=> b >= 2000 * ImgH
      /\ v >= 501 <=> b >= 2004 * ImgH
  BY <1>2, <1>3, <1>4, MiddleOfQuotient
<1>7. PICK cx : cx = Clamp01(u)
  OBVIOUS
<1>8. PICK cy : cy = Clamp01(v)
  OBVIOUS
<1>9. cx = Normalize(p).cx /\ cy = Normalize(p).cy
  BY <1>1, <1>4, <1>7, <1>8, NormalizeType DEF Across, Down, a, b
<1>10. /\ cx \in Int /\ 0 <= cx /\ cx <= 1000
       /\ cx >= 500 <=> u >= 500
       /\ cx >= 501 <=> u >= 501
  BY <1>7, MiddleOfClamp
<1>11. /\ cy \in Int /\ 0 <= cy /\ cy <= 1000
       /\ cy >= 500 <=> v >= 500
       /\ cy >= 501 <=> v >= 501
  BY <1>8, MiddleOfClamp
<1> DEFINE c == Payload(Result(Tracking, Normalize(p), One))
<1>12. /\ c.loc = Clamp((cx - 500) * 2, -One, One)
       /\ c.locy = Clamp((500 - cy) * 2, -One, One)
  BY <1>9 DEF Payload, Result, Wire
<1> HIDE DEF c
<1>13. c.loc = (cx - 500) * 2 /\ c.locy = (500 - cy) * 2
  <2>1. PICK m \in Int, n \in Int : m = (cx - 500) * 2 /\ n = (500 - cy) * 2
    BY <1>10, <1>11
  <2>2. -One <= m /\ m <= One /\ -One <= n /\ n <= One
    BY <1>10, <1>11, <2>1 DEF One
  <2>3. Clamp(m, -One, One) = m /\ Clamp(n, -One, One) = n
    BY <2>2, ClampWithin
  <2>4. QED
    BY <1>12, <2>1, <2>3
<1>14. /\ c.loc < 0 <=> a < 2000 * ImgW
       /\ c.loc > 0 <=> a >= 2004 * ImgW
  <2>1. (c.loc < 0 <=> ~(cx >= 500)) /\ (c.loc > 0 <=> cx >= 501)
    BY <1>10, <1>13
  <2>2. a < 2000 * ImgW <=> ~(a >= 2000 * ImgW)
    BY <1>2, <1>3
  <2>3. QED
    BY <1>5, <1>10, <2>1, <2>2
<1>15. /\ c.locy > 0 <=> b < 2000 * ImgH
       /\ c.locy < 0 <=> b >= 2004 * ImgH
  <2>1. (c.locy > 0 <=> ~(cy >= 500)) /\ (c.locy < 0 <=> cy >= 501)
    BY <1>11, <1>13
  <2>2. b < 2000 * ImgH <=> ~(b >= 2000 * ImgH)
    BY <1>2, <1>3
  <2>3. QED
    BY <1>6, <1>11, <2>1, <2>2
<1> DEFINE right == 2 * p.x + p.w - 2 * ImgW
           below == 2 * p.y + p.h - 2 * ImgH
<1>16. /\ right < 0 <=> a < 2000 * ImgW
       /\ One * right >= 4 * ImgW <=> a >= 2004 * ImgW
  <2>1. right = 2 * x + w - 2 * ImgW /\ One = 1000
    BY <1>1 DEF One
  <2>2. QED
    BY <1>2, <1>3, <2>1
<1>17. /\ below < 0 <=> b < 2000 * ImgH
       /\ One * below >= 4 * ImgH <=> b >= 2004 * ImgH
  <2>1. below = 2 * y + h - 2 * ImgH /\ One = 1000
    BY <1>1 DEF One
  <2>2. QED
    BY <1>2, <1>3, <2>1
<1>18. QED
  BY <1>14, <1>15, <1>16, <1>17 DEF c
-----------------------------------------------------------------------------
(* The geometry holds of whatever is looked at.                            *)

Looked ==
    \/ \E p, q \in IntBoxes : item = Pair(p, q)
    \/ \E p \in IntBoxes : item = [kind |-> "box", p |-> p]
    \/ \E r \in Found : item = [kind |-> "result", r |-> r]

LEMMA LookedHolds == LookSpec => []Looked
<1>1. AllBoxes \subseteq IntBoxes /\ NoBox \in IntBoxes
  <2>1. NoBox \in IntBoxes
    BY DEF IntBoxes, NoBox
  <2>2. ASSUME NEW b \in AllBoxes PROVE b \in IntBoxes
    BY BoxesAssumption DEF AllBoxes, IntBoxes
  <2>3. QED
    BY <2>1, <2>2
<1>2. LookInit => Looked
  BY <1>1 DEF LookInit, Looked
<1>3. ASSUME LookNext PROVE Looked'
  <2>1. CASE LookAtPair
    BY <1>1, <2>1 DEF LookAtPair, Looked
  <2>2. CASE LookAtBox
    BY <1>1, <2>2 DEF LookAtBox, Looked
  <2>3. CASE LookAtResult
    BY <2>3, ResultsFound DEF LookAtResult, Looked
  <2>4. QED
    BY <1>3, <2>1, <2>2, <2>3 DEF LookNext
<1>4. Looked /\ UNCHANGED item => Looked'
  BY DEF Looked
<1>5. QED
  BY <1>2, <1>3, <1>4, PTL DEF LookSpec

\* In a frame of any size, for boxes anywhere and of any size: _iou is the share of the points
\* that two boxes have in common, _to_cv_bbox gives OpenCV a part of the frame that is not
\* empty, the backend's parser accepts and keeps what _build_vis_payload makes of any tracked
\* detection and of every pattern, and the signs of loc_x and loc_y are those of the side of the
\* frame that the box is on, as far as a thousandth of it tells.
THEOREM GeometryStaysSound == LookSpec => []GeometryIsSound
<1>1. ASSUME Looked PROVE GeometryIsSound
  <2>1. CASE \E p, q \in IntBoxes : item = Pair(p, q)
    <3>1. PICK p \in IntBoxes, q \in IntBoxes : item = Pair(p, q)
      BY <2>1
    <3>2. item.kind = "pair" /\ item.p = p /\ item.q = q
      BY <3>1 DEF Pair
    <3>3. IouIsOverlap
      BY <3>2, IouCounts DEF IouIsOverlap
    <3>4. QED
      BY <3>2, <3>3 DEF GeometryIsSound, CvBoxIsOfTheFrame, PayloadIsAccepted, SidesAreKept
  <2>2. CASE \E p \in IntBoxes : item = [kind |-> "box", p |-> p]
    <3>1. PICK p \in IntBoxes : item = [kind |-> "box", p |-> p]
      BY <2>2
    <3>2. item.kind = "box" /\ item.p = p
      BY <3>1
    <3>3. CvBoxIsOfTheFrame
      BY <3>2, CvBoxIsInside DEF CvBoxIsOfTheFrame
    <3>4. SidesAreKept
      BY <3>2, SidesKept DEF SidesAreKept
    <3>5. QED
      BY <3>2, <3>3, <3>4 DEF GeometryIsSound, IouIsOverlap, PayloadIsAccepted
  <2>3. CASE \E r \in Found : item = [kind |-> "result", r |-> r]
    <3>1. PICK r \in Found : item = [kind |-> "result", r |-> r]
      BY <2>3
    <3>2. item.kind = "result" /\ item.r = r
      BY <3>1
    <3>3. PayloadIsAccepted
      BY <3>2, PayloadPasses DEF PayloadIsAccepted
    <3>4. QED
      BY <3>2, <3>3 DEF GeometryIsSound, IouIsOverlap, CvBoxIsOfTheFrame, SidesAreKept
  <2>4. QED
    BY <1>1, <2>1, <2>2, <2>3 DEF Looked
<1>2. QED
  BY <1>1, LookedHolds, PTL
=============================================================================
