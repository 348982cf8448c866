------------------------------- MODULE Ingest -------------------------------
(***************************************************************************)
(* The backend's UDP ingest of one stream (vis_ingest.py, tel_ingest.py)   *)
(* with its part of the start-up and shutdown (app.py) and of the shared   *)
(* state (state.py), against a network that loses, repeats and reorders    *)
(* datagrams.  Each start-up makes a new ingestor and a new thread.        *)
(***************************************************************************)
EXTENDS Schemas, Sequences, SequencesExt, FiniteSets

CONSTANTS
    Datagrams,   \* what is sent in each stream, its seq (see Schemas) not yet given
    MaxCycles,   \* bound: start-ups
    MaxSent,     \* bound: datagrams sent; none is repeated once as many were received
    MaxFlight    \* bound: datagrams in flight

Protocols == {"vis", "tel"}

Messages(seqs) ==
    [seq : seqs, wide : BOOLEAN, oversize : BOOLEAN, text : Protocols \cup {"garbled", "alien"},
     early : Readings, late : Readings, state : Int, mode : Int, loc : Int, bound : Int,
     conf : Int, tiny : BOOLEAN, ts : Int, dist : Int]

IngestAssumption ==
    /\ Datagrams \in [Protocols -> SUBSET Messages({0})]
    /\ MaxCycles \in Nat \ {0} /\ MaxSent \in Nat /\ MaxFlight \in Nat \ {0}

VARIABLES
    stream,   \* which of the two ingests it is
    app,      \* the backend: "down", "up", "closing" or "joining"
    cycle,    \* start-ups so far; also the current thread
    stop,     \* the stop event, shared by all cycles
    th,       \* where each thread is
    sock,     \* its socket: "none", "open" or "closed"
    held,     \* its ingestor knows the socket (_sock)
    job,      \* the datagram it is about
    net,      \* datagrams in flight
    sent,     \* the seq of the last datagram
    total, ok, bad,   \* rx_total, rx_ok, and the drops by reason
    latest    \* the latest sample

vars == <<stream, app, cycle, stop, th, sock, held, job, net, sent, total, ok, bad, latest>>

life == <<stream, app, cycle, stop>>
sockets == <<sock, held>>
counts == <<total, ok, bad, latest>>
network == <<net, sent>>

Cycles == 1 .. MaxCycles
Reasons == {"oversize", "json", "schema", "range"}
           \cup (IF stream = "vis" THEN {"semantics"} ELSE {})
Nothing == [seq |-> 0]

TypeOK ==
    /\ stream \in Protocols /\ app \in {"down", "up", "closing", "joining"}
    /\ cycle \in 0 .. MaxCycles /\ stop \in BOOLEAN
    /\ th \in [Cycles -> {"none", "starting", "bound", "loop", "got", "finally", "ended", "failed"}]
    /\ sock \in [Cycles -> {"none", "open", "closed"}]
    /\ held \in [Cycles -> BOOLEAN] /\ \A k \in Cycles : held[k] => sock[k] = "open"
    /\ Len(net) <= MaxFlight /\ sent \in 0 .. MaxSent
    /\ total \in Nat /\ ok \in Nat /\ bad \in [Reasons -> Nat]
    /\ latest.seq \in 0 .. MaxSent

ResetCounts ==
    /\ total' = 0 /\ ok' = 0 /\ bad' = [r \in Reasons |-> 0]
    /\ latest' = Nothing

Init ==
    /\ stream \in Protocols /\ app = "down" /\ cycle = 0 /\ stop = FALSE
    /\ th = [k \in Cycles |-> "none"] /\ sock = [k \in Cycles |-> "none"]
    /\ held = [k \in Cycles |-> FALSE] /\ job = [k \in Cycles |-> Nothing]
    /\ net = <<>> /\ sent = 0
    /\ total = 0 /\ ok = 0 /\ bad = [r \in Reasons |-> 0] /\ latest = Nothing
-----------------------------------------------------------------------------
(* The application.                                                        *)

Startup ==
    /\ app = "down" /\ cycle < MaxCycles
    /\ ResetCounts
    /\ app' = "up" /\ cycle' = cycle + 1 /\ stop' = FALSE
    /\ th' = [th EXCEPT ![cycle + 1] = "starting"]
    /\ UNCHANGED <<stream, sockets, job, network>>

Shutdown ==
    /\ app = "up"
    /\ app' = "closing" /\ stop' = TRUE
    /\ UNCHANGED <<stream, cycle, th, sockets, job, network, counts>>

\* The socket of k's ingestor is closed, if it has one.
CloseSocket(k) ==
    /\ sock' = IF held[k] THEN [sock EXCEPT ![k] = "closed"] ELSE sock
    /\ held' = [held EXCEPT ![k] = FALSE]

Close ==
    /\ app = "closing"
    /\ app' = "joining"
    /\ CloseSocket(cycle)
    /\ UNCHANGED <<stream, cycle, stop, th, job, network, counts>>

\* Fault: a shutdown that does not wait for the thread.
JoinAtOnce ==
    /\ app = "joining"
    /\ app' = "down"
    /\ UNCHANGED <<stream, cycle, stop, th, sockets, job, network, counts>>

\* The join's timeout is an order of magnitude above the thread's longest wait.
Join ==
    /\ app = "joining" /\ th[cycle] \in {"ended", "failed"}
    /\ app' = "down"
    /\ UNCHANGED <<stream, cycle, stop, th, sockets, job, network, counts>>
-----------------------------------------------------------------------------
(* The ingest thread of cycle k.                                           *)

PortFree == \A j \in Cycles : sock[j] # "open"

\* A port in use ends the thread.
Bind(k) ==
    /\ th[k] = "starting"
    /\ IF PortFree
       THEN th' = [th EXCEPT ![k] = "bound"] /\ sock' = [sock EXCEPT ![k] = "open"]
       ELSE th' = [th EXCEPT ![k] = "failed"] /\ UNCHANGED sock
    /\ UNCHANGED <<life, held, job, network, counts>>

Hold(k) ==
    /\ th[k] = "bound"
    /\ th' = [th EXCEPT ![k] = "loop"]
    /\ held' = [held EXCEPT ![k] = TRUE]
    /\ UNCHANGED <<life, sock, job, network, counts>>

\* The stop event, before a read or after one that failed or timed out.
Leave(k) ==
    /\ th[k] = "loop" /\ stop
    /\ th' = [th EXCEPT ![k] = "finally"]
    /\ UNCHANGED <<life, sockets, job, network, counts>>

\* rx_total counts the datagram before it is judged.
Receive(k) ==
    /\ th[k] = "loop" /\ sock[k] = "open"
    /\ \E i \in DOMAIN net :
          /\ job' = [job EXCEPT ![k] = net[i]]
          /\ net' = RemoveAt(net, i)
    /\ th' = [th EXCEPT ![k] = "got"]
    /\ total' = total + 1
    /\ UNCHANGED <<life, sockets, sent, ok, bad, latest>>

VisVerdict(d) == IF d.oversize THEN "oversize" ELSE VisReason(d)

TelVerdict(d) == IF d.oversize THEN "oversize" ELSE TelReason(d)

Verdict(d) == IF stream = "vis" THEN VisVerdict(d) ELSE TelVerdict(d)

Accept(k) ==
    /\ Verdict(job[k]) = ""
    /\ ok' = ok + 1
    /\ latest' = IF stream = "vis" THEN Normalized(job[k]) ELSE job[k]
    /\ th' = [th EXCEPT ![k] = "loop"]
    /\ UNCHANGED bad

Drop(k) ==
    /\ Verdict(job[k]) \in Reasons
    /\ bad' = [bad EXCEPT ![Verdict(job[k])] = @ + 1]
    /\ th' = [th EXCEPT ![k] = "loop"]
    /\ UNCHANGED <<ok, latest>>

\* Only the schema's own exception is caught: an OverflowError ends the thread, the datagram
\* counted in rx_total and nowhere else.  Nobody starts it again.
Escape(k) ==
    /\ Verdict(job[k]) = "overflow"
    /\ th' = [th EXCEPT ![k] = "finally"]
    /\ UNCHANGED <<ok, latest, bad>>

Judge(k) ==
    /\ th[k] = "got"
    /\ Accept(k) \/ Drop(k) \/ Escape(k)
    /\ UNCHANGED <<life, sockets, job, network, total>>

Finally(k) ==
    /\ th[k] = "finally"
    /\ th' = [th EXCEPT ![k] = "ended"]
    /\ CloseSocket(k)
    /\ UNCHANGED <<life, job, network, counts>>

Thread(k) == Bind(k) \/ Hold(k) \/ Leave(k) \/ Receive(k) \/ Judge(k) \/ Finally(k)
-----------------------------------------------------------------------------
(* The sender and the network.                                             *)

Send ==
    /\ sent < MaxSent /\ Len(net) < MaxFlight
    /\ sent' = sent + 1
    /\ \E d \in Datagrams[stream] : net' = Append(net, [d EXCEPT !.seq = sent + 1])
    /\ UNCHANGED <<life, th, sockets, job, counts>>

Lose ==
    /\ \E i \in DOMAIN net : net' = RemoveAt(net, i)
    /\ UNCHANGED <<life, th, sockets, job, sent, counts>>

Repeat ==
    /\ Len(net) < MaxFlight /\ total + Len(net) < MaxSent
    /\ \E i \in DOMAIN net : net' = Append(net, net[i])
    /\ UNCHANGED <<life, th, sockets, job, sent, counts>>
-----------------------------------------------------------------------------
Next ==
    \/ Startup \/ Shutdown \/ Close \/ Join
    \/ \E k \in Cycles : Thread(k)
    \/ Send \/ Lose \/ Repeat

Spec == Init /\ [][Next]_vars
-----------------------------------------------------------------------------
(* Properties.                                                             *)

\* The thread k ended over its last datagram.
Escaped(k) == th[k] \in {"finally", "ended"} /\ job[k] # Nothing /\ Verdict(job[k]) = "overflow"

\* Every datagram received is counted once as accepted or dropped, whatever reader of
\* the counters comes between two steps, but the one whose reading ended the thread: what the
\* status pages show adds up until then, and one is missing from then on.
CountersAddUp ==
    total = ok + bad["oversize"] + bad["json"] + bad["schema"] + bad["range"]
               + (IF stream = "vis" THEN bad["semantics"] ELSE 0)
               + Cardinality({k \in Cycles : th[k] = "got"})
               + (IF cycle # 0 /\ Escaped(cycle) THEN 1 ELSE 0)

\* A shutdown leaves neither a thread nor a socket, at whatever point of its start the
\* thread was when close() found no socket to close.
ShutdownIsClean ==
    app = "down" => \A k \in Cycles : th[k] \in {"none", "ended"} /\ sock[k] # "open"

\* The flight controller's parser takes the latest sample, in a CMD that would otherwise be
\* refused as a whole; it refuses one for its seq, its timestamp or a number too small, which
\* the schema does not ask, and for nothing else.
ForwardedIsParsed ==
    latest # Nothing /\ stream = "vis" =>
        (FcParses(TrackingObject(latest)) <=> ~latest.wide /\ Finite(latest.ts) /\ ~latest.tiny)

\* "Use 0.0 ... when no target is available" (message-spec.md): a consumer that forgets
\* the state reads no target from a sample without one.
NoTargetNoNumbers ==
    latest # Nothing /\ stream = "vis" /\ latest.state # Tracking =>
        latest.loc = 0 /\ latest.bound = 0 /\ latest.conf = 0
=============================================================================
