------------------------------- MODULE MCEvents -------------------------------
(***************************************************************************)
(* The way of events to the operator for TLC, with fairness: the fan-out   *)
(* to a viewer that keeps up, whose threads go on for ever; and the        *)
(* webapp's client, with a browser that tells of an error and the close in *)
(* one task, and one whose close events come late or never.  The client    *)
(* takes events as messages that come or do not, so one moves at a time.   *)
(***************************************************************************)
EXTENDS WsClient

VARIABLES
    part,
    link, sampled, due, nextSeq, job, stage, hello, queue, view, posted, taken

Events == INSTANCE Fanout WITH
    Viewers <- {1}, Ingests <- {}, Causes <- {"connection", "gate"},
    QueueMax <- 3, KeepsUp <- TRUE, MaxSeq <- 0, Endless <- TRUE

ASSUME Events!FanoutAssumption

events == <<link, sampled, due, nextSeq, job, stage, hello, queue, view, posted, taken>>

WayInit == part \in {"events", "client"} /\ Events!Init /\ Init /\ (part = "events" => ~drops)

WayNext ==
    \/ part = "events" /\ Events!Next /\ UNCHANGED <<part, vars>>
    \/ part = "client" /\ Next /\ UNCHANGED <<part, events>>

WaySpec ==
    /\ WayInit /\ [][WayNext]_<<part, events, vars>>
    /\ part = "events" => Events!Fairness
    /\ part = "client" /\ ~drops => Fairness
-----------------------------------------------------------------------------
\* (ClientIsSound and ComesBack are WsClient's.)

\* Once the link to the flight controller settles, every viewer that stays shows it (Fanout).
ViewSettles == part = "events" => Events!ViewSettles
=============================================================================
