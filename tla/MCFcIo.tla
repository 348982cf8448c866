-------------------------------- MODULE MCFcIo --------------------------------
(***************************************************************************)
(* The sockets and the serial line of the flight controller's program for  *)
(* TLC: the CMD server, the sink that writes to Betaflight, and the parser *)
(* of what Betaflight sends.  They share no state, so one of them moves in *)
(* a behaviour and the others stay where they begin.                       *)
(***************************************************************************)
EXTENDS CmdServer, MspSink

VARIABLES
    part,     \* what moves
    sent, at, line, pos, buffer, got, errors

\* Bytes before the first frame that look like a part of a header, and replies that hold one.
Chunks == INSTANCE MspStream WITH
    Garbage <- {<<>>, <<7>>, <<7, 6>>, <<2, 7, 7>>}, Payloads <- {<<2>>, <<7, 6, 5, 0>>},
    Frames <- 3, Corrupts <- FALSE

Noise == INSTANCE MspStream WITH
    Garbage <- {<<>>}, Payloads <- {<<>>, <<4, 3, 0, 1>>}, Frames <- 3, Corrupts <- TRUE

ASSUME Chunks!StreamAssumption /\ Noise!StreamAssumption

stream == <<sent, at, line, pos, buffer, got, errors>>

IoInit ==
    /\ part \in {"server", "sink", "chunks", "noise"}
    /\ Init /\ SinkInit
    /\ CASE part = "chunks" -> Chunks!Init
         [] part = "noise" -> Noise!Init
         [] OTHER -> /\ sent = <<>> /\ at = [frame |-> <<>>, corrupt |-> 0] /\ line = <<>>
                     /\ pos = 0 /\ buffer = <<>> /\ got = <<>> /\ errors = 0

IoNext ==
    \/ part = "server" /\ Next /\ UNCHANGED <<part, sinkVars, stream>>
    \/ part = "sink" /\ SinkNext /\ UNCHANGED <<part, vars, stream>>
    \/ part = "chunks" /\ Chunks!Next /\ UNCHANGED <<part, vars, sinkVars>>
    \/ part = "noise" /\ Noise!Next /\ UNCHANGED <<part, vars, sinkVars>>

IoSpec ==
    /\ IoInit /\ [][IoNext]_<<part, vars, sinkVars, stream>>
    /\ part = "server" => Fairness
-----------------------------------------------------------------------------
\* (DescriptorsAreOurs and StopReturns are CmdServer's; NoFrameInAnother and
\* ArmSwitchIsRecent are MspSink's.)

\* No cut of the bytes into reads loses a reply, and a corrupted byte only those near it
\* (MspStream).
LossIsLocal == part \in {"chunks", "noise"} => Noise!LossIsLocal
=============================================================================
