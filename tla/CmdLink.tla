------------------------------- MODULE CmdLink -------------------------------
(***************************************************************************)
(* The command link end to end: the backend numbers a CMD at every tick    *)
(* and writes it to its connection (cmd_bridge.py, state.py); the flight   *)
(* controller's server serves one connection after the other and publishes *)
(* each frame it reads (CommandServer.cpp); the main loop applies a        *)
(* published CMD whose seq advances (main.cpp).  Connections break and go  *)
(* half-open, and both programs crash and restart.                         *)
(*                                                                         *)
(* Numbers (n) are not in the program: they record the order in which the  *)
(* backends built the CMDs.  They saturate at MaxCmds, where an endless    *)
(* backend goes on and another one stops.                                  *)
(***************************************************************************)
EXTENDS CmdSeq, Sequences

CONSTANTS
    FirstSeqs,    \* the seqs the first backend may be seeded with
    MaxLead,      \* how far ahead a restarted backend's seed may be (see BackendStarts)
    MaxCmds,      \* bound: numbers saturate here
    Endless,      \* the backend goes on sending at MaxCmds
    MaxWire,      \* bound: frames in flight on a connection
    MaxConns,     \* bound: connections accepted or in the backlog
    MaxBehind,    \* bound: frames published between two iterations of the loop
    MaxFaults     \* bound: faults

ASSUME CmdLinkAssumption ==
    /\ FirstSeqs \subseteq Seqs /\ FirstSeqs # {}
    /\ MaxLead \in Nat /\ MaxFaults \in Nat /\ Endless \in BOOLEAN
    /\ MaxCmds \in Nat \ {0} /\ MaxWire \in Nat \ {0}
    /\ MaxConns \in Nat \ {0} /\ MaxBehind \in Nat \ {0}

VARIABLES
    backendUp, nextSeq,     \* the backend runs; cmd_next_seq
    built,                  \* the number of the newest CMD
    sock,                   \* the bridge's socket: "none", "live", or "dead"
    conns,                  \* the server's connections, the one it serves first
    serving,                \* the server has accepted conns[1]
    latest,                 \* CommandServer: has_cmd_ and last_cmd_
    behind,                 \* frames published since the loop last read one
    lastSeq,                \* last_cmd_seq of the main loop
    applied,                \* the number of the CMD the loop applied last
    turn,                   \* flips with each application
    faults                  \* faults so far

vars == <<backendUp, nextSeq, built, sock, conns, serving, latest, behind, lastSeq,
          applied, turn, faults>>

backend == <<backendUp, nextSeq, built>>
loop == <<lastSeq, applied, turn>>

Cmds == [n : 1 .. MaxCmds, seq : Seqs]
NoCmd == [n |-> 0, seq |-> 0]
NoSeq == -1

\* open: the backend's side has not closed, as far as the flight controller's
\* kernel knows.  The live socket of the bridge is the last connection.
Conns == [wire : Seq(Cmds), open : BOOLEAN]

TypeOK ==
    /\ backendUp \in BOOLEAN /\ nextSeq \in Seqs /\ built \in 0 .. MaxCmds
    /\ sock \in {"none", "live", "dead"}
    /\ conns \in Seq(Conns) /\ Len(conns) <= MaxConns
    /\ \A i \in DOMAIN conns : Len(conns[i].wire) <= MaxWire
    /\ sock = "live" => conns # <<>> /\ conns[Len(conns)].open
    /\ serving \in BOOLEAN /\ (serving => conns # <<>>)
    /\ latest \in Cmds \cup {NoCmd}
    /\ behind \in 0 .. MaxBehind
    /\ lastSeq \in Seqs \cup {NoSeq} /\ applied \in 0 .. MaxCmds
    /\ turn \in BOOLEAN
    /\ faults \in 0 .. MaxFaults

Init ==
    /\ backendUp = TRUE /\ nextSeq \in FirstSeqs /\ built = 0
    /\ sock = "none" /\ conns = <<>> /\ serving = FALSE
    /\ latest = NoCmd /\ behind = 0 /\ lastSeq = NoSeq /\ applied = 0
    /\ turn = FALSE /\ faults = 0
-----------------------------------------------------------------------------
(* The backend.                                                            *)

Connect ==
    /\ backendUp /\ sock = "none" /\ Len(conns) < MaxConns
    /\ sock' = "live"
    /\ conns' = Append(conns, [wire |-> <<>>, open |-> TRUE])
    /\ UNCHANGED <<backend, serving, latest, behind, loop, faults>>

\* reserve_cmd_seq and the numbering of the CMD.
Reserve ==
    /\ built < MaxCmds \/ Endless
    /\ nextSeq' = SeqNext(nextSeq)
    /\ built' = IF built < MaxCmds THEN built + 1 ELSE built

SendTick ==
    /\ backendUp /\ sock = "live"
    /\ Len(conns[Len(conns)].wire) < MaxWire
    /\ Reserve
    /\ conns' = [conns EXCEPT ![Len(conns)].wire = Append(@, [n |-> built', seq |-> nextSeq])]
    /\ UNCHANGED <<backendUp, sock, serving, latest, behind, loop, faults>>

\* The write to a dead connection fails; its CMD keeps its seq.
SendFails ==
    /\ backendUp /\ sock = "dead"
    /\ Reserve
    /\ sock' = "none"
    /\ UNCHANGED <<backendUp, conns, serving, latest, behind, loop, faults>>

\* A new backend seeds its seq from a clock in milliseconds.  The seq advanced at
\* most 50 times a second since the old one was seeded, so the new seed is ahead
\* by the time the old backend ran, in a space that wraps after 24 days.
BackendStarts ==
    /\ ~backendUp
    /\ backendUp' = TRUE
    /\ \E lead \in 0 .. MaxLead : nextSeq' = (nextSeq + lead) % SeqMod
    /\ UNCHANGED <<built, sock, conns, serving, latest, behind, loop, faults>>
-----------------------------------------------------------------------------
(* The flight controller's server: one connection after the other.         *)

Accept ==
    /\ ~serving /\ conns # <<>>
    /\ serving' = TRUE
    /\ UNCHANGED <<backend, sock, conns, latest, behind, loop, faults>>

ReadFrame ==
    /\ serving /\ behind < MaxBehind
    /\ conns[1].wire # <<>>
    /\ latest' = Head(conns[1].wire)
    /\ conns' = [conns EXCEPT ![1].wire = Tail(@)]
    /\ behind' = behind + 1
    /\ UNCHANGED <<backend, sock, serving, loop, faults>>

\* Fault: the server reads again from the connection that ended.
EndOfConnectionRetried ==
    /\ serving
    /\ conns[1].wire = <<>> /\ ~conns[1].open
    /\ UNCHANGED vars

\* The end of the stream; the server goes back to accepting.
EndOfConnection ==
    /\ serving
    /\ conns[1].wire = <<>> /\ ~conns[1].open
    /\ conns' = Tail(conns)
    /\ serving' = FALSE
    /\ UNCHANGED <<backend, sock, latest, behind, loop, faults>>

Server == Accept \/ ReadFrame \/ EndOfConnection
-----------------------------------------------------------------------------
(* The flight controller's main loop.                                      *)

\* Fault: a comparison that does not wrap.
AcceptsGreater == latest # NoCmd /\ latest.seq > lastSeq

\* Fault: no comparison at all.
AcceptsEach == latest # NoCmd

Accepts == latest # NoCmd /\ (lastSeq = NoSeq \/ SeqAdvances(lastSeq, latest.seq))

LoopRead ==
    /\ latest # NoCmd
    /\ behind' = 0
    /\ IF Accepts
       THEN lastSeq' = latest.seq /\ applied' = latest.n /\ turn' = ~turn
       ELSE UNCHANGED loop
    /\ UNCHANGED <<backend, sock, conns, serving, latest, faults>>
-----------------------------------------------------------------------------
(* Faults.                                                                 *)

Fault == faults < MaxFaults /\ faults' = faults + 1

\* Connection i ends after its first k frames; the rest of its wire is lost.
Cut(i, k, open) ==
    [conns EXCEPT ![i] = [wire |-> SubSeq(@.wire, 1, k), open |-> open]]

SockAfterCut(i) == IF sock = "live" /\ i = Len(conns) THEN "dead" ELSE sock

\* A connection breaks; if half-open, the flight controller does not learn of it.
Breaks ==
    /\ Fault
    /\ \E i \in DOMAIN conns, open \in BOOLEAN :
          \E k \in 0 .. Len(conns[i].wire) :
             /\ open => conns[i].open
             /\ conns' = Cut(i, k, open)
             /\ sock' = SockAfterCut(i)
    /\ UNCHANGED <<backend, serving, latest, behind, loop>>

\* The backend's process dies: its kernel closes the connection.
BackendCrashes ==
    /\ Fault
    /\ backendUp
    /\ backendUp' = FALSE
    /\ sock' = "none"
    /\ IF sock = "live"
       THEN \E k \in 0 .. Len(conns[Len(conns)].wire) : conns' = Cut(Len(conns), k, FALSE)
       ELSE UNCHANGED conns
    /\ UNCHANGED <<nextSeq, built, serving, latest, behind, loop>>

\* The flight controller's program restarts and knows no CMD.
FcRestarts ==
    /\ Fault
    /\ conns' = <<>> /\ serving' = FALSE
    /\ sock' = IF sock = "live" THEN "dead" ELSE sock
    /\ latest' = NoCmd /\ behind' = 0 /\ lastSeq' = NoSeq
    /\ UNCHANGED <<backend, applied, turn>>

Faults == Breaks \/ BackendCrashes \/ FcRestarts

Next ==
    \/ Connect \/ SendTick \/ SendFails \/ BackendStarts
    \/ Server
    \/ LoopRead
    \/ Faults

Spec == Init /\ [][Next]_vars

\* Every program runs, and a crashed backend is restarted.
Fairness ==
    /\ WF_vars(Connect) /\ WF_vars(SendTick) /\ WF_vars(SendFails) /\ WF_vars(BackendStarts)
    /\ WF_vars(Server) /\ WF_vars(LoopRead)

FairSpec == Spec /\ Fairness
-----------------------------------------------------------------------------
(* Properties.                                                             *)

\* Over crashes, restarts, lost frames and iterations that find no new CMD, the flight
\* controller goes through the CMDs in the order they were built, each at most once:
\* an old one is never applied again (and lifts no failsafe).
Delivery == INSTANCE CmdDelivery

\* "cmd_age_s: seconds since the FC last accepted a CMD frame" (message-spec.md):
\* the CMD whose age is reported is one the loop has applied or is about to apply;
\* a link that looks fresh is one whose CMDs are obeyed.
FreshLinkIsObeyed ==
    latest # NoCmd /\ latest.n # applied => Accepts

\* A connection the flight controller believes open and no backend writes to.
HalfOpen ==
    \E i \in DOMAIN conns : conns[i].open /\ ~(sock = "live" /\ i = Len(conns))

\* Whatever was built, that CMD or a newer one is applied in the end, unless the
\* server is left reading from a half-open connection for good.
Delivers ==
    <>[]~HalfOpen => \A n \in 1 .. MaxCmds : (built >= n) ~> (applied >= n)
=============================================================================
