----------------------------- MODULE CmdDelivery -----------------------------
(***************************************************************************)
(* What the command link promises: the flight controller applies CMDs in   *)
(* the order the backend built them, each at most once, skipping any       *)
(* number.  CMDs are numbered by the order they were built.                *)
(***************************************************************************)
EXTENDS Naturals

VARIABLES
    built,     \* the number of the newest CMD
    applied,   \* the number of the CMD applied last, 0 before the first
    turn       \* flips with each application

Init == built = 0 /\ applied = 0 /\ turn = FALSE

Build == built' = built + 1 /\ UNCHANGED <<applied, turn>>

Apply == applied' \in applied + 1 .. built /\ turn' = ~turn /\ UNCHANGED built

Next == Build \/ Apply

Spec == Init /\ [][Next]_<<built, applied, turn>>
=============================================================================
