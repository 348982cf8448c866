------------------------------- MODULE Boxes -------------------------------
(***************************************************************************)
(* The geometry between a detection and the VIS message: the overlap of    *)
(* two boxes (vision_pipeline.py), the box the OpenCV tracker is given     *)
(* (opencv_tracker.py), the detections the YOLO results leave              *)
(* (yolo_detector.py), the normalized box (types.py), the synthetic        *)
(* patterns (patterns.py) and the VIS payload (main.py), which the         *)
(* backend's schema must accept.                                           *)
(*                                                                         *)
(* Coordinates are in half pixels, so that rounding to pixels is seen; the *)
(* numbers of a message are in thousandths, as in Schemas.  They are       *)
(* finite: the detector drops a box with a corner that is no number, and   *)
(* the OpenCV tracker's boxes are made of integers.                        *)
(***************************************************************************)
EXTENDS Schemas, FiniteSets, FiniteSetsExt

CONSTANTS
    ImgW, ImgH,    \* the frame, in pixels
    Coords, Sizes  \* the coordinates and sizes of boxes, in half pixels

ASSUME BoxesAssumption ==
    /\ ImgW \in Nat \ {0} /\ ImgH \in Nat \ {0}
    /\ Coords \subseteq Int /\ Sizes \subseteq Int

VARIABLE item   \* what is looked at: a pair of boxes, a box, or a result

AllBoxes == [x : Coords, y : Coords, w : Sizes, h : Sizes]
NoBox == [x |-> 0, y |-> 0, w |-> 0, h |-> 0]

Clamp(v, low, high) == Max({low, Min({high, v})})
Clamp01(v) == IF v = NaN THEN One ELSE Clamp(v, 0, One)
-----------------------------------------------------------------------------
(* The overlap, as a fraction.                                             *)

NoOverlap == [num |-> 0, den |-> 1]

Side(p, pw, q, qw) == Min({p + pw, q + qw}) - Max({p, q})

Iou(p, q) ==
    LET w == Side(p.x, p.w, q.x, q.w)
        h == Side(p.y, p.h, q.y, q.h)
    IN  IF p.w <= 0 \/ p.h <= 0 \/ q.w <= 0 \/ q.h <= 0 \/ w <= 0 \/ h <= 0 THEN NoOverlap
        ELSE [num |-> w * h, den |-> p.w * p.h + q.w * q.h - w * h]
-----------------------------------------------------------------------------
(* The box for the tracker.                                                *)

\* Half pixels to pixels, halves to even.
Round(v) == LET k == v \div 2 IN IF v % 2 = 0 \/ k % 2 = 0 THEN k ELSE k + 1

CvBox(p) ==
    LET x == Clamp(Round(p.x), 0, ImgW - 1)
        y == Clamp(Round(p.y), 0, ImgH - 1)
        w == Min({Round(p.w), ImgW - x})
        h == Min({Round(p.h), ImgH - y})
    IN  IF Round(p.w) <= 0 \/ Round(p.h) <= 0 THEN NoBox ELSE [x |-> x, y |-> y, w |-> w, h |-> h]
-----------------------------------------------------------------------------
(* Results and their payload.                                              *)

\* The detections of corners (x, y) and (x + w, y + h): a NaN score passes the threshold.
Detections(p, conf, threshold) ==
    IF (Finite(conf) /\ conf < threshold) \/ Max({0, p.w}) = 0 \/ Max({0, p.h}) = 0
    THEN {} ELSE {[box |-> p, conf |-> conf]}

Normalize(p) ==
    [cx |-> Clamp01((One * (2 * p.x + p.w)) \div (4 * ImgW)),
     cy |-> Clamp01((One * (2 * p.y + p.h)) \div (4 * ImgH)),
     w |-> Clamp01((One * p.w) \div (2 * ImgW)), h |-> Clamp01((One * p.h) \div (2 * ImgH))]

NoNumbers == [cx |-> 0, cy |-> 0, w |-> 0, h |-> 0]

Result(state, bbox, conf) == [state |-> state, bbox |-> bbox, conf |-> conf]

\* A tracked detection, with the confidence it is published with.
TrackingResult(d) == Result(Tracking, Normalize(d.box), Clamp01(d.conf))

\* Where the sweep has the box, left to right.
SweepBox(frame_id) ==
    LET phase == (((Max({1, frame_id}) - 1) % 120) * One) \div 119
    IN  [cx |-> 150 + (700 * phase) \div One, cy |-> 500, w |-> 240, h |-> 300]

PatternTracking(f, conf) == Result(Tracking, SweepBox(f), conf)
PatternDetected(f, conf) == Result(2, SweepBox(f), conf)

LoseResult(f) ==
    LET idx == (Max({1, f}) - 1) % 160 IN
    CASE idx < 70  -> PatternTracking(f, 900)
      [] idx \in 70 .. 99   -> Result(4, NoNumbers, 0)
      [] idx \in 100 .. 129 -> Result(1, NoNumbers, 0)
      [] OTHER -> PatternDetected(f, 700)

ReacquireResult(f) ==
    LET idx == (Max({1, f}) - 1) % 180 IN
    CASE idx < 50 -> Result(1, NoNumbers, 0)
      [] idx \in 50 .. 79   -> PatternDetected(f, 650)
      [] idx \in 80 .. 139  -> PatternTracking(f, 930)
      [] idx \in 140 .. 164 -> Result(4, NoNumbers, 0)
      [] OTHER -> PatternDetected(f, 720)

PatternResult(mode, f) ==
    CASE mode = "sweep" -> PatternTracking(f, 920)
      [] mode = "lose" -> LoseResult(f)
      [] mode = "reacquire" -> ReacquireResult(f)
      [] OTHER -> Result(1, NoNumbers, 0)

Wire(state, x, y, bound, conf) ==
    [text |-> "vis", early |-> "read", late |-> "read", state |-> state, loc |-> x, locy |-> y,
     bound |-> bound, conf |-> conf, tiny |-> FALSE]

\* Fault: the numbers of a box that is only detected are sent too.
PayloadAsIs(r) ==
    Wire(r.state, Clamp((r.bbox.cx - 500) * 2, -One, One), Clamp((500 - r.bbox.cy) * 2, -One, One),
         Clamp01(r.bbox.w), Clamp01(r.conf))

\* The width stands for both bounds, which are made and checked alike.
Payload(r) ==
    IF r.state # Tracking THEN Wire(r.state, 0, 0, 0, 0)
    ELSE Wire(r.state, Clamp((r.bbox.cx - 500) * 2, -One, One),
              Clamp((500 - r.bbox.cy) * 2, -One, One), Clamp01(r.bbox.w), Clamp01(r.conf))
-----------------------------------------------------------------------------
Pair(p, q) == [kind |-> "pair", p |-> p, q |-> q]
LookInit == item = Pair(NoBox, NoBox)

TrackedResults == UNION {{TrackingResult(d) : d \in Detections(p, c, 500)} :
                         p \in AllBoxes, c \in {400, 500, One, NaN}}
PatternResults == {PatternResult(m, f) : m \in {"none", "sweep", "lose", "reacquire"}, f \in 0 .. 181}
Results == TrackedResults \cup PatternResults

LookAtPair == \E p, q \in AllBoxes : item' = Pair(p, q)
LookAtBox == \E p \in AllBoxes : item' = [kind |-> "box", p |-> p]
LookAtResult == \E r \in Results : item' = [kind |-> "result", r |-> r]

\* One look at each, from the first item.
LookNext == item = Pair(NoBox, NoBox) /\ (LookAtPair \/ LookAtBox \/ LookAtResult)

LookSpec == LookInit /\ [][LookNext]_item
-----------------------------------------------------------------------------
(* Properties.                                                             *)

Cells(p) == (p.x .. p.x + p.w - 1) \X (p.y .. p.y + p.h - 1)

\* The overlap that decides whether the tracker begins anew is that of the boxes' points.
IouIsOverlap ==
    item.kind = "pair" =>
        LET both == Cardinality(Cells(item.p) \cap Cells(item.q))
            any == Cardinality(Cells(item.p) \cup Cells(item.q))
        IN  /\ Iou(item.p, item.q).num * any = both * Iou(item.p, item.q).den
            /\ Iou(item.p, item.q) = Iou(item.q, item.p)

\* OpenCV is given a part of the frame that is not empty, wherever the detection lies:
\* outside of it, it would read pixels that do not exist.
CvBoxIsOfTheFrame ==
    item.kind = "box" /\ CvBox(item.p) # NoBox =>
        LET c == CvBox(item.p) IN
        /\ c.w > 0 /\ c.h > 0
        /\ c.x \in 0 .. ImgW - 1 /\ c.x + c.w <= ImgW
        /\ c.y \in 0 .. ImgH - 1 /\ c.y + c.h <= ImgH

\* The backend keeps every message the vision process sends, as it was sent.
PayloadIsAccepted ==
    item.kind = "result" =>
        VisReason(Payload(item.r)) = "" /\ Normalized(Payload(item.r)) = Payload(item.r)

\* To the right of the middle is positive, and above it is: the flight controller steers by
\* these signs.  They are lost only where a message tells nothing apart, within a thousandth
\* of the frame.
SidesAreKept ==
    item.kind = "box" =>
        LET c == Payload(Result(Tracking, Normalize(item.p), One))
            right == 2 * item.p.x + item.p.w - 2 * ImgW
            below == 2 * item.p.y + item.p.h - 2 * ImgH
        IN  /\ c.loc < 0 <=> right < 0
            /\ c.loc > 0 <=> One * right >= 4 * ImgW
            /\ c.locy > 0 <=> below < 0
            /\ c.locy < 0 <=> One * below >= 4 * ImgH

\* From detection to message, a box keeps its overlap, stays in the frame it is cut from, and
\* reaches the backend with the signs the flight controller steers by.
GeometryIsSound == IouIsOverlap /\ CvBoxIsOfTheFrame /\ PayloadIsAccepted /\ SidesAreKept
=============================================================================
