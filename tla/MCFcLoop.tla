------------------------------ MODULE MCFcLoop ------------------------------
(* FcLoop with small payload sets for TLC.                                 *)
EXTENDS FcLoop

Load(mode, arm, thr, track) ==
    [mode |-> mode, arm |-> arm, axes |-> thr # NoThr, thr |-> thr, track |-> track]

Target(confident) == [state |-> "Tracking", confident |-> confident]

\* Arming, disarming and every mode, with a throttle setpoint above hover.
ModePayloads ==
    {Load("Manual", "arm", ThrMax, NoTrack),
     Load("Manual", "disarm", NoThr, NoTrack),
     Load("LandSafely", "arm", NoThr, NoTrack),
     Load("Takeoff", "absent", NoThr, NoTrack),
     Load("Tracking", "absent", NoThr, NoTrack),
     Load("unknown", "disarm", NoThr, NoTrack)}

\* Tracking updates of every kind.
TrackPayloads ==
    {Load("Tracking", "arm", NoThr, Target(TRUE)),
     Load("Tracking", "absent", NoThr, Target(FALSE)),
     Load("Tracking", "absent", NoThr, [state |-> "NoTarget", confident |-> FALSE]),
     Load("LandSafely", "disarm", NoThr, NoTrack),
     Load("Manual", "arm", NoThr, NoTrack)}

\* Enough to fly: arm in Manual and take off.
FlyPayloads ==
    {Load("Manual", "arm", ThrMax, NoTrack),
     Load("LandSafely", "arm", NoThr, NoTrack),
     Load("Takeoff", "absent", NoThr, NoTrack)}

\* The webapp's Disarm button repeats the selected mode: Takeoff with arm:false.
DisarmPayloads ==
    {Load("Manual", "disarm", NoThr, NoTrack),
     Load("Takeoff", "absent", NoThr, NoTrack),
     Load("Takeoff", "disarm", NoThr, NoTrack)}

MCFollowThr == {ThrLandMin, ThrAltHoldMax}
=============================================================================
