------------------------------- MODULE MCVision -------------------------------
(***************************************************************************)
(* The vision process for TLC: the pipeline with inference on every frame  *)
(* and on every third, and with a scene and a detector that let it settle; *)
(* its geometry on boxes inside, across and outside a small frame; and the *)
(* loop around it.  They share no state (the loop abstracts from what a    *)
(* frame shows), so one of them moves in a behaviour.                      *)
(***************************************************************************)
EXTENDS VisionPipeline, Boxes, VisionLoop

VARIABLE part    \* what moves

\* Half pixels before, in and after a frame two pixels wide and one high.
MCCoords == {-1, 0, 1, 3}

Steady == INSTANCE VisionPipeline WITH
    Confs <- {100}, Misses <- FALSE, TrackerKind <- "true"

ASSUME Steady!PipelineAssumption

ProcessInit ==
    /\ part \in {"pipeline", "steady", "geometry", "loop"}
    /\ Init /\ LookInit /\ LoopInit
    /\ part # "loop" => device = "file"
    /\ part \in {"geometry", "loop"} => detect_every_n = Max(Paces)

ProcessNext ==
    \/ part = "pipeline" /\ Next /\ UNCHANGED <<part, item, processVars>>
    \/ part = "steady" /\ Steady!Next /\ UNCHANGED <<part, item, processVars>>
    \/ part = "geometry" /\ LookNext /\ UNCHANGED <<part, vars, processVars>>
    \/ part = "loop" /\ LoopNext /\ UNCHANGED <<part, vars, item>>

ProcessSpec ==
    /\ ProcessInit /\ [][ProcessNext]_<<part, vars, item, processVars>>
    /\ part = "steady" => Steady!Fairness
    /\ part = "loop" => LoopFairness
-----------------------------------------------------------------------------
\* A target that comes to rest is tracked for good (VisionPipeline).
TargetSettles == part = "steady" => Steady!Settles
=============================================================================
