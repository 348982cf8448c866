------------------------------ MODULE MCBackend ------------------------------
(***************************************************************************)
(* The backend for TLC: the fan-out of events to two viewers that need not *)
(* keep up, the gate of its endpoints at two rates, the video hub, the     *)
(* ingest of both streams, and the calibration script that posts to it.    *)
(* They are checked one at a time: what one gets of another (a status, a   *)
(* sample, an answer) it takes as any that can be.                         *)
(***************************************************************************)
EXTENDS Fanout, Integers

CONSTANTS
    Addresses, Rates, RawTokens, MaxTime,                          \* of ApiGate
    Datagrams, MaxCycles, MaxSent, MaxFlight,                      \* of Ingest
    Streams, Requests, Kinds, Fresh, Period, Lag, MaxPosts,            \* of Video
    Steps, MaxCrashes                                              \* of Calibration

VARIABLES
    part,    \* what moves
    rate, token, now, bucket, answer, grants, tried, paced,
    pusher, request, posts, pushOk, givenUp, hub, framesOk, framesBad, answers, back,
    clients, viewer, shown,
    stream, app, cycle, stop, th, datagram, sock, held, net, sent, total, ok, bad, latest,
    pc, step, note, rows, exit, sweepPosts, backend, crashes, applied

Gate == INSTANCE ApiGate

\* Below one request a second, and above it.
MCRates == {[num |-> 1, den |-> 2, ticks |-> 1], [num |-> 2, den |-> 1, ticks |-> 4]}

Hub == INSTANCE Video WITH Viewers <- Streams

S == INSTANCE Schemas

Good(text) ==
    [seq |-> 0, wide |-> FALSE, oversize |-> FALSE, text |-> text,
     early |-> "read", late |-> "read", state |-> S!Tracking, mode |-> 3,
     loc |-> -500, bound |-> 200, conf |-> 800, tiny |-> FALSE, ts |-> 1, dist |-> 1]

NoTarget(text) == [Good(text) EXCEPT !.state = 4, !.loc = 1, !.bound = 0, !.conf = 0]

\* What passes the checks, and what each of them drops.
Samples(text) ==
    {Good(text), NoTarget(text),
     [NoTarget(text) EXCEPT !.conf = 600],
     [Good(text) EXCEPT !.conf = S!NaN],
     [Good(text) EXCEPT !.oversize = TRUE],
     [Good(text) EXCEPT !.text = "garbled"],
     [Good(text) EXCEPT !.state = 5, !.late = "overflow"],
     [Good(text) EXCEPT !.early = "overflow"],
     [Good(text) EXCEPT !.late = "schema"]}
    \cup (IF text = "vis"
          THEN {[Good(text) EXCEPT !.wide = TRUE], [NoTarget(text) EXCEPT !.tiny = TRUE],
                [Good(text) EXCEPT !.tiny = TRUE, !.ts = S!Infinity]}
          ELSE {})

MCDatagrams == [s \in {"vis", "tel"} |-> Samples(s)]

Udp == INSTANCE Ingest WITH job <- datagram

Sweep == INSTANCE Calibration WITH posts <- sweepPosts

ASSUME BackendAssumption ==
    /\ Gate!GateAssumption /\ Udp!IngestAssumption /\ Hub!VideoAssumption
    /\ Sweep!CalibrationAssumption

gate == <<rate, token, now, bucket, answer, grants, tried, paced>>
video == <<pusher, request, posts, pushOk, givenUp, hub, framesOk, framesBad, answers, back,
           clients, viewer, shown>>
ingest == <<stream, app, cycle, stop, th, datagram, sock, held, net, sent, total, ok, bad, latest>>
sweep == <<pc, step, note, rows, exit, sweepPosts, backend, crashes, applied>>

BackendInit ==
    /\ part \in {"events", "gate", "video", "ingest", "sweep"}
    /\ Init /\ Gate!Init /\ Hub!Init /\ Udp!Init /\ Sweep!Init
    /\ part # "sweep" => backend.up /\ ~backend.locked
    /\ part # "gate" => rate = CHOOSE r \in Rates : TRUE
    /\ part # "ingest" => stream = "vis"

BackendNext ==
    \/ part = "events" /\ Next /\ UNCHANGED <<part, gate, video, ingest, sweep>>
    \/ part = "gate" /\ Gate!Next /\ UNCHANGED <<part, vars, video, ingest, sweep>>
    \/ part = "video" /\ Hub!Next /\ UNCHANGED <<part, vars, gate, ingest, sweep>>
    \/ part = "ingest" /\ Udp!Next /\ UNCHANGED <<part, vars, gate, video, sweep>>
    \/ part = "sweep" /\ Sweep!Next /\ UNCHANGED <<part, vars, gate, video, ingest>>

BackendSpec == BackendInit /\ [][BackendNext]_<<part, vars, gate, video, ingest, sweep>>
-----------------------------------------------------------------------------
\* (FeedsEachViewer is Fanout's.)

\* No address gets more than its burst and what time refills, a caller that keeps to the rate
\* is served, and a token good for REST opens the WebSocket (ApiGate).
GateIsSound ==
    part = "gate" => /\ Gate!TypeOK /\ Gate!BurstIsBounded
                     /\ Gate!PacedIsServed /\ Gate!OneTokenServesBoth

\* No viewer has an old frame on the screen as the live view, however posts overlap and are
\* given up, and posts and viewers are counted right (Video).
LiveViewIsRecent ==
    part = "video" => /\ Hub!TypeOK /\ Hub!LiveViewIsRecent
                      /\ Hub!PostsAreCounted /\ Hub!ClientsAreCounted

\* The view goes back at most once for each post that was given up (Video).
BackOnlyByGivenUp == part = "video" => Hub!BackOnlyByGivenUp

\* Every datagram is counted once but one whose reading ends the thread, the flight
\* controller's parser refuses a forwarded sample for what no schema asks only, and a shutdown
\* leaves neither thread nor socket (Ingest).
IngestIsSound ==
    part = "ingest" => /\ Udp!TypeOK /\ Udp!CountersAddUp /\ Udp!ShutdownIsClean
                       /\ Udp!ForwardedIsParsed /\ Udp!NoTargetNoNumbers

\* A row without a note is of a throttle the backend took over, whatever failed before it
\* (Calibration).
RowsAreTrue ==
    part = "sweep" => /\ Sweep!TypeOK /\ Sweep!RowsFollowTheSteps
                      /\ Sweep!SilentRowWasApplied /\ Sweep!RefusedLeavesNothing

\* A backend that goes down before it answers costs a step and not the sweep, says
\* hover_calibration.py:44-46 (Calibration).
NoSweepIsLost == Sweep!NoSweepIsLost
=============================================================================
