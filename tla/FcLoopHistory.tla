---------------------------- MODULE FcLoopHistory ----------------------------
(***************************************************************************)
(* FcLoop with one history variable, for statements about what the         *)
(* operator last asked for: operatorArm is the arm word of the last CMD    *)
(* the loop accepted that carried one.                                     *)
(***************************************************************************)
EXTENDS MCFcLoop

VARIABLE operatorArm

HInit == Init /\ operatorArm = "absent"

HNext ==
    /\ Next
    /\ operatorArm' = IF lastSeq' # lastSeq /\ cmd.load.arm # "absent"
                      THEN cmd.load.arm ELSE operatorArm

HSpec == HInit /\ [][HNext]_<<vars, operatorArm>>

\* "Disarm forces minimum throttle every tick" (README.md, safety interlocks).
\* Takeoff re-arms in the same iteration that applied the disarm.
DisarmForcesMinimumThrottle ==
    pc = "read" /\ operatorArm = "disarm" => out.thr = ThrMin
=============================================================================
