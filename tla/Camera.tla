------------------------------- MODULE Camera -------------------------------
(***************************************************************************)
(* The frame source of the vision process (camera.py): a file, or a webcam *)
(* that stops delivering, is unplugged and comes back.  One step is one    *)
(* call of read().                                                         *)
(***************************************************************************)
EXTENDS Integers, FiniteSetsExt

CONSTANTS
    black_frames_after_open,
    BackoffInitial, BackoffMax   \* in ticks

ASSUME CameraAssumption ==
    /\ black_frames_after_open \in Nat
    /\ BackoffInitial \in Nat /\ BackoffMax \in Nat /\ BackoffInitial <= BackoffMax

VARIABLES
    device,    \* "file", or a webcam's: "good", "blind" (it opens and shows nothing) or
               \* "gone" (it does not open)
    capture,   \* _capture: "open", "broken" (its device was lost), "dead" or "released"
    handles,   \* captures of the device that are not released
    grace,     \* _post_open_grace_remaining
    backoff    \* _next_backoff_s

cameraVars == <<device, capture, handles, grace, backoff>>

CameraTypeOK ==
    /\ device \in {"file", "good", "blind", "gone"}
    /\ capture \in {"open", "broken", "dead", "released"} /\ handles \in 0 .. 2
    /\ grace \in 0 .. black_frames_after_open /\ backoff \in 0 .. BackoffMax

CameraInit ==
    /\ device \in {"file", "good"} /\ capture = "open" /\ handles = 1
    /\ grace = black_frames_after_open /\ backoff = BackoffInitial

\* A device that was away needs a new capture; a blind one may see again.
DeviceChanges ==
    /\ device # "file"
    /\ device' \in {"good", "blind", "gone"} \ {device}
    /\ capture' = IF device' = "gone" /\ capture = "open" THEN "broken" ELSE capture
    /\ UNCHANGED <<handles, grace, backoff>>

Live == device # "file"
Delivers == capture = "open" /\ device \in {"file", "good"}

\* A frame, which makes the next failure the first again.
ReadFrame ==
    /\ Delivers
    /\ grace' = black_frames_after_open /\ backoff' = BackoffInitial
    /\ UNCHANGED <<device, capture, handles>>

\* The end of a file; a webcam never ends.
ReadEnd == ~Live /\ UNCHANGED cameraVars

\* Fault: the grace after an opening never ends.
ReadSettlingOn ==
    /\ Live /\ ~Delivers /\ grace > 0
    /\ UNCHANGED cameraVars

\* An empty read in the grace after an opening, which keeps the capture.
ReadSettling ==
    /\ Live /\ ~Delivers /\ grace > 0
    /\ grace' = grace - 1
    /\ UNCHANGED <<device, capture, handles, backoff>>

Doubled(b) == Min({BackoffMax, Max({2 * b, 1})})

ReconnectDue == Live /\ ~Delivers /\ grace = 0

\* The old capture is released; the new one is read at once.  Its first empty read is taken
\* from its grace, and leaves the backoff for the next failure.
Reconnect ==
    /\ ReconnectDue /\ device # "gone"
    /\ capture' = "open" /\ handles' = 1
    /\ IF device = "good"
       THEN grace' = black_frames_after_open /\ backoff' = BackoffInitial
       ELSE grace' = Max({0, black_frames_after_open - 1}) /\ backoff' = Doubled(backoff)
    /\ UNCHANGED device

\* Fault: the released capture stays the source's.
ReconnectFailsReleased ==
    /\ ReconnectDue /\ device = "gone"
    /\ capture' = "released" /\ handles' = 0
    /\ backoff' = Doubled(backoff)
    /\ UNCHANGED <<device, grace>>

\* The device does not open: a capture that always fails takes the place of the old one.
ReconnectFails ==
    /\ ReconnectDue /\ device = "gone"
    /\ capture' = "dead" /\ handles' = 0
    /\ backoff' = Doubled(backoff)
    /\ UNCHANGED <<device, grace>>

\* An exception or a signal cuts a read off: before anything changed, or on the way of a
\* reconnect, which lets go of the old capture, puts the sentinel in its place, waits, opens
\* and only then keeps what it opened.  A capture opened and not kept belongs to nobody.
ReadRaises ==
    \/ UNCHANGED cameraVars
    \/ /\ ReconnectDue
       /\ \/ capture # "dead" /\ capture' = "released" /\ handles' = 0
          \/ capture' = "dead" /\ handles' = 0
          \/ device # "gone" /\ capture' \in {"dead", "open"} /\ handles' = 1
       /\ UNCHANGED <<device, grace, backoff>>

\* The sentinel's release does nothing.
Release ==
    /\ IF capture = "dead" THEN UNCHANGED <<capture, handles>>
       ELSE capture' = "released" /\ handles' = 0
    /\ UNCHANGED <<device, grace, backoff>>
=============================================================================
