------------------------------ MODULE Schemas ------------------------------
(***************************************************************************)
(* What the backend accepts of a datagram (vis_schema.py, tel_schema.py),  *)
(* what it makes of it in a CMD (cmd_schema.py), and what the flight       *)
(* controller's parser accepts of that (CommandReceiver.cpp).              *)
(*                                                                         *)
(* A datagram is told apart by what the checks look at: its length, what   *)
(* its text decodes to, what the reading of its fields comes to, early     *)
(* (before the states are looked at) and late, the states, and one number  *)
(* for each group that is checked alike.  Numbers are thousandths; the     *)
(* tolerance for zero is one of them.  A datagram is wide if its seq is    *)
(* no int32, and tiny if a location, size or confidence of it is too small *)
(* for a normal double; a timestamp that is so stands with the infinite,   *)
(* from which nothing tells it apart.                                      *)
(***************************************************************************)
EXTENDS Integers

One == 1000
Eps == 1
NaN == 999999        \* fails every comparison; Python's json reads and writes it,
Infinity == 999998   \* and this, of either sign

Finite(x) == x \notin {NaN, Infinity}

\* Fault: a range check that asks whether the number is outside.
InRangeByExclusion(x, low, high) == ~(x # NaN /\ (x < low \/ high < x))

InRange(x, low, high) == Finite(x) /\ low <= x /\ x <= high

TrackingStates == 1 .. 4
Tracking == 3
ControlModes == 0 .. 3

\* What reading the fields comes to: a field is missing or of another type, or an integer is
\* too large for float(), which raises what nobody expects.
Readings == {"read", "schema", "overflow"}

\* The checks both schemas share, in their order: "" if they find nothing.
Common(m, states) ==
    IF m.text = "garbled" THEN "json"
    ELSE IF m.text = "alien" THEN "schema"
    ELSE IF m.early # "read" THEN m.early
    ELSE IF ~states THEN "range"
    ELSE IF m.late # "read" THEN m.late
    ELSE IF ~(InRange(m.loc, -One, One) /\ InRange(m.bound, 0, One) /\ InRange(m.conf, 0, One))
    THEN "range" ELSE ""

NearZero(m) == m.loc \in -Eps .. Eps /\ m.bound <= Eps /\ m.conf <= Eps

VisReason(m) ==
    LET r == Common(m, m.state \in TrackingStates) IN
    IF r # "" THEN r
    ELSE IF m.state # Tracking /\ ~NearZero(m) THEN "semantics" ELSE ""

TelReason(m) == Common(m, m.state \in TrackingStates /\ m.mode \in ControlModes)

\* What is kept of an accepted VIS datagram.
Normalized(m) ==
    IF m.state = Tracking THEN m
    ELSE [m EXCEPT !.loc = 0, !.bound = 0, !.conf = 0, !.tiny = FALSE]

\* The tracking object of a CMD.
TrackingObject(m) ==
    [state |-> m.state, loc |-> m.loc, bound |-> m.bound, conf |-> m.conf, tiny |-> m.tiny,
     vis_seq |-> m.seq, wide |-> m.wide, vis_timestamp_s |-> m.ts]

\* A token that is no number is no CMD, nor is one that strtod calls out of range, in either
\* direction, or a vis_seq that is no int.
FcParses(t) ==
    /\ Finite(t.loc) /\ Finite(t.bound) /\ Finite(t.conf) /\ ~t.tiny
    /\ Finite(t.vis_timestamp_s) /\ ~t.wide
    /\ t.state \in TrackingStates
=============================================================================
