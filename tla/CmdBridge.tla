------------------------------ MODULE CmdBridge ------------------------------
(***************************************************************************)
(* CmdBridge (cmd_bridge.py): the backend thread that connects to the      *)
(* flight controller, and at every tick sends it the latest intent with    *)
(* the latest VIS sample, gated on that sample's age (cmd_schema.py); and  *)
(* stop(), called by another thread at shutdown.                           *)
(*                                                                         *)
(* A step of a thread runs up to its next access of state the other        *)
(* threads write: the socket (under _sock_lock), the VIS sample and its    *)
(* age (under SharedState.lock, in two acquisitions), the connection flags.*)
(* Seq numbers are left to CmdLink, statistics counters are left out, and  *)
(* a CMD is its mode and whether it carries a tracking object.             *)
(***************************************************************************)
EXTENDS Integers

CONSTANTS
    VisFresh,      \* vis_fresh_s
    BackoffMin,    \* connect_backoff_initial_s
    BackoffMax,    \* connect_backoff_max_s
    MaxTick        \* bound: the longest a tick takes to build its CMD

ASSUME CmdBridgeAssumption ==
    /\ VisFresh \in Nat
    /\ BackoffMin \in Nat \ {0} /\ BackoffMax \in Nat /\ MaxTick \in Nat
    /\ BackoffMin <= BackoffMax /\ BackoffMax <= MaxTick

\* "Oversize" is an intent whose CMD exceeds max_payload_bytes: its setpoints
\* may name any number of channels.
Intents == {"none", "Manual", "Tracking", "LandSafely", "Oversize"}
CmdModes == {"Manual", "Tracking", "LandSafely"}
NoCmd == [mode |-> "LandSafely", tracked |-> FALSE]

\* Ages saturate beyond what the freshness gate can tell apart.
OldAge == VisFresh + MaxTick + 1
NoVis == OldAge + 1                  \* latest_vis is None
VisAges == 0 .. NoVis

Threads == {"bridge", "stopper"}
\* _sock: "closed" when the peer has closed and the kernel still takes a write,
\* "stalled" when the peer does not read and a write blocks.
Socks == {"none", "good", "stalled", "closed", "reset"}

VARIABLES
    pc,            \* the bridge thread's next step
    st,            \* the stopper's next step
    joined,        \* the stopper's join saw the thread end
    call,          \* a thread's step in _set_fc_connected
    sock, fcUp,    \* the connection; whether the flight controller listens
    fcConnected,   \* SharedState.fc_connected
    lastConnected, \* _last_fc_connected
    told,          \* what on_connection_change was last called with
    intent, visAge,              \* SharedState: latest intent, age of the latest VIS
    snapAge, tickIntent, tickAge, cmd,   \* the tick's sample, intent, elapsed time, CMD
    blocked,       \* tracking_blocked_reason, also the last one reported
    retryIn, backoff   \* time until _next_connect_attempt_s, _connect_backoff_s

flags == <<fcConnected, lastConnected, told>>
locals == <<snapAge, tickIntent, tickAge, cmd>>
tick == <<locals, blocked>>
retry == <<retryIn, backoff>>
inputs == <<intent, visAge>>
vars == <<pc, st, joined, call, sock, fcUp, flags, inputs, tick, retry>>

Idle == [step |-> "idle", value |-> FALSE]
Returned(t) == call[t] = Idle
Ended == pc = "end" /\ Returned("bridge")
Stopped == st = "announced" /\ Returned("stopper")

Calls == [step : {"idle", "state", "compare", "assign", "callback"}, value : BOOLEAN]
Cmds == [mode : CmdModes, tracked : BOOLEAN]

TypeOK ==
    /\ pc \in {"top", "pick", "connect", "age", "get", "send", "blocked", "drop",
               "wait", "end"}
    /\ st \in {"running", "close", "join", "announced"} /\ joined \in BOOLEAN
    /\ call \in [Threads -> Calls]
    /\ sock \in Socks /\ fcUp \in BOOLEAN
    /\ fcConnected \in BOOLEAN /\ lastConnected \in BOOLEAN /\ told \in BOOLEAN
    /\ intent \in Intents /\ visAge \in VisAges
    /\ snapAge \in VisAges /\ tickIntent \in Intents /\ tickAge \in 0 .. MaxTick
    /\ cmd \in Cmds
    /\ blocked \in {"none", "no_vis", "stale_vis"}
    /\ retryIn \in 0 .. BackoffMax /\ backoff \in BackoffMin .. BackoffMax

Smaller(a, b) == IF a <= b THEN a ELSE b
Larger(a, b) == IF a >= b THEN a ELSE b

\* start() has been called: the thread enters run_forever.
Init ==
    /\ pc = "top" /\ st = "running" /\ joined = FALSE
    /\ call = [t \in Threads |->
                 IF t = "bridge" THEN [step |-> "state", value |-> FALSE] ELSE Idle]
    /\ sock = "none" /\ fcUp \in BOOLEAN
    /\ fcConnected = FALSE /\ lastConnected = FALSE /\ told = FALSE
    /\ intent = "none" /\ visAge = NoVis
    /\ snapAge = NoVis /\ tickIntent = "none" /\ tickAge = 0
    /\ cmd = NoCmd
    /\ blocked = "none"
    /\ retryIn = 0 /\ backoff = BackoffMin
-----------------------------------------------------------------------------
(* _set_fc_connected, run by either thread and not atomic.                 *)

CallSetConnected(t, value) == call' = [call EXCEPT ![t] = [step |-> "state", value |-> value]]

Goto(t, step) == call' = [call EXCEPT ![t].step = step]
Return(t) == call' = [call EXCEPT ![t] = Idle]

SetConnected(t) ==
    /\ \/ /\ call[t].step = "state"
          /\ fcConnected' = call[t].value
          /\ Goto(t, "compare")
          /\ UNCHANGED <<lastConnected, told>>
       \/ /\ call[t].step = "compare"
          /\ IF call[t].value = lastConnected THEN Return(t) ELSE Goto(t, "assign")
          /\ UNCHANGED flags
       \/ /\ call[t].step = "assign"
          /\ lastConnected' = call[t].value
          /\ Goto(t, "callback")
          /\ UNCHANGED <<fcConnected, told>>
       \/ /\ call[t].step = "callback"
          /\ told' = call[t].value
          /\ Return(t)
          /\ UNCHANGED <<fcConnected, lastConnected>>
    /\ UNCHANGED <<pc, st, joined, sock, fcUp, inputs, tick, retry>>
-----------------------------------------------------------------------------
(* The bridge thread.                                                      *)

Step(from, to) == pc = from /\ Returned("bridge") /\ pc' = to

\* The tick's locals are not used again.
Forget(age) ==
    snapAge' = NoVis /\ tickIntent' = "none" /\ cmd' = NoCmd /\ tickAge' = age

\* The head of the loop: the stop event, then the tick's clock (tickAge is 0).
Top ==
    /\ Step("top", "pick")
    /\ st = "running"
    /\ UNCHANGED <<st, joined, call, sock, fcUp, flags, inputs, tick, retry>>

\* Fault: the thread leaves its loop without closing the socket.
ExitKeepsSocket ==
    /\ Step("top", "end")
    /\ st # "running"
    /\ CallSetConnected("bridge", FALSE)
    /\ UNCHANGED <<st, joined, sock, fcUp, flags, inputs, tick, retry>>

\* Fault: the thread leaves its loop without announcing it.
ExitSilently ==
    /\ Step("top", "end")
    /\ st # "running"
    /\ sock' = "none"
    /\ UNCHANGED <<st, joined, call, fcUp, flags, inputs, tick, retry>>

Exit ==
    /\ Step("top", "end")
    /\ st # "running"
    /\ sock' = "none"
    /\ CallSetConnected("bridge", FALSE)
    /\ UNCHANGED <<st, joined, fcUp, flags, inputs, tick, retry>>

\* _attempt_connect up to the blocking connect, or the wait for the next attempt.
PickConnect ==
    /\ sock = "none"
    /\ Step("pick", IF retryIn > 0 THEN "wait" ELSE "connect")
    /\ UNCHANGED <<st, joined, call, sock, fcUp, flags, inputs, tick, retry>>

ConnectOk ==
    /\ Step("connect", "wait")
    /\ fcUp
    /\ sock' = "good"
    /\ CallSetConnected("bridge", TRUE)
    /\ backoff' = BackoffMin /\ retryIn' = 0
    /\ Forget(0)
    /\ UNCHANGED <<st, joined, fcUp, flags, inputs, blocked>>

\* Fault: the backoff doubles without limit.
BackOffUncapped ==
    /\ retryIn' = Larger(0, backoff - tickAge)
    /\ backoff' = 2 * backoff

\* The next attempt is backoff after the tick began; the backoff doubles.
BackOff ==
    /\ retryIn' = Larger(0, backoff - tickAge)
    /\ backoff' = Smaller(2 * backoff, BackoffMax)

ConnectFails ==
    /\ Step("connect", "wait")
    /\ ~fcUp
    /\ CallSetConnected("bridge", FALSE)
    /\ BackOff
    /\ Forget(0)
    /\ UNCHANGED <<st, joined, sock, fcUp, flags, inputs, blocked>>

\* _send_tick reads the intent and the VIS sample ...
PickSend ==
    /\ sock # "none"
    /\ Step("pick", "age")
    /\ tickIntent' = intent
    /\ snapAge' = visAge
    /\ UNCHANGED <<st, joined, call, sock, fcUp, flags, inputs, tickAge, cmd, blocked, retry>>

\* ... then the age of the sample that is the latest by now, at the tick's clock.
VisAgeNow == Larger(0, visAge - tickAge)

\* Fault: any sample counts as fresh.
VisIsFreshAtAnyAge == snapAge # NoVis

VisIsFresh == snapAge # NoVis /\ VisAgeNow <= VisFresh

Desired == IF tickIntent = "none" THEN "LandSafely" ELSE tickIntent

\* build_cmd_payload, the blocked reason, and frame_cmd_payload's size check.
Build ==
    /\ Step("age", IF tickIntent = "Oversize" THEN "wait" ELSE "get")
    /\ IF Desired = "Tracking" /\ ~VisIsFresh
       THEN blocked' = IF snapAge = NoVis THEN "no_vis" ELSE "stale_vis"
       ELSE blocked' = "none"
    /\ IF tickIntent = "Oversize"
       THEN Forget(0)
       ELSE /\ cmd' = [mode |-> IF Desired = "Tracking" /\ ~VisIsFresh
                                THEN "LandSafely" ELSE Desired,
                       tracked |-> VisIsFresh]
            /\ UNCHANGED <<snapAge, tickIntent, tickAge>>
    /\ UNCHANGED <<st, joined, call, sock, fcUp, flags, inputs, retry>>

\* The socket the frame goes to; stop() may have closed it since.
GetSocket ==
    /\ sock # "none"
    /\ Step("get", "send")
    /\ Forget(tickAge)
    /\ UNCHANGED <<st, joined, call, sock, fcUp, flags, inputs, blocked, retry>>

NoSocket ==
    /\ sock = "none"
    /\ Step("get", "wait")
    /\ CallSetConnected("bridge", FALSE)
    /\ retryIn' = 0
    /\ Forget(0)
    /\ UNCHANGED <<st, joined, sock, fcUp, flags, inputs, blocked, backoff>>

SendOk ==
    /\ Step("send", "wait")
    /\ sock \in {"good", "closed"}
    /\ sock' = IF sock = "closed" THEN "reset" ELSE sock
    /\ Forget(0)
    /\ UNCHANGED <<st, joined, call, fcUp, flags, inputs, blocked, retry>>

\* sendall has no timeout.
SendBlocks ==
    /\ Step("send", "blocked")
    /\ sock = "stalled"
    /\ UNCHANGED <<st, joined, call, sock, fcUp, flags, inputs, tick, retry>>

\* Fault: a failed send is not announced.
SendFailsSilently ==
    /\ Step("send", "drop")
    /\ sock \in {"closed", "reset", "none"}
    /\ UNCHANGED <<st, joined, call, sock, fcUp, flags, inputs, tick, retry>>

SendFails ==
    /\ Step("send", "drop")
    /\ sock \in {"closed", "reset", "none"}
    /\ CallSetConnected("bridge", FALSE)
    /\ UNCHANGED <<st, joined, sock, fcUp, flags, inputs, tick, retry>>

\* Fault: a failed send keeps the socket.
DropKeepsSocket ==
    /\ Step("drop", "wait")
    /\ BackOff
    /\ Forget(0)
    /\ UNCHANGED <<st, joined, call, sock, fcUp, flags, inputs, blocked>>

\* After the announcement of the failure.
Drop ==
    /\ Step("drop", "wait")
    /\ sock' = "none"
    /\ BackOff
    /\ Forget(0)
    /\ UNCHANGED <<st, joined, call, fcUp, flags, inputs, blocked>>

Wait ==
    /\ Step("wait", "top")
    /\ UNCHANGED <<st, joined, call, sock, fcUp, flags, inputs, tick, retry>>

Bridge ==
    \/ Top \/ Exit
    \/ PickConnect \/ ConnectOk \/ ConnectFails
    \/ PickSend \/ Build \/ GetSocket \/ NoSocket
    \/ SendOk \/ SendBlocks \/ SendFails \/ Drop
    \/ Wait
    \/ SetConnected("bridge")
-----------------------------------------------------------------------------
(* stop(), called once, at shutdown.                                       *)

Stop ==
    /\ st = "running"
    /\ st' = "close"
    /\ UNCHANGED <<pc, joined, call, sock, fcUp, flags, inputs, tick, retry>>

StopCloses ==
    /\ st = "close"
    /\ st' = "join"
    /\ sock' = "none"
    /\ UNCHANGED <<pc, joined, call, fcUp, flags, inputs, tick, retry>>

\* The join returns when the thread has ended, or times out.
StopJoins ==
    /\ st = "join"
    /\ st' = "announced"
    /\ joined' = Ended
    /\ CallSetConnected("stopper", FALSE)
    /\ UNCHANGED <<pc, sock, fcUp, flags, inputs, tick, retry>>

Stopper == StopCloses \/ StopJoins \/ SetConnected("stopper")
-----------------------------------------------------------------------------
(* The other threads of the backend, the flight controller and the clock.  *)

PostIntent ==
    /\ \E i \in Intents \ {"none"} : intent' = i
    /\ UNCHANGED <<pc, st, joined, call, sock, fcUp, flags, visAge, tick, retry>>

ReceiveVis ==
    /\ visAge' = 0
    /\ UNCHANGED <<pc, st, joined, call, sock, fcUp, flags, intent, tick, retry>>

\* The flight controller's process goes, or only this connection does.
FcCloses ==
    /\ fcUp
    /\ fcUp' \in BOOLEAN
    /\ sock' = IF sock \in {"good", "stalled"} THEN "closed" ELSE sock
    /\ UNCHANGED <<pc, st, joined, call, flags, inputs, tick, retry>>

FcStarts ==
    /\ ~fcUp
    /\ fcUp' = TRUE
    /\ UNCHANGED <<pc, st, joined, call, sock, flags, inputs, tick, retry>>

\* The flight controller stops reading, or reads again.
FcStalls ==
    /\ \/ sock = "good" /\ sock' = "stalled"
       \/ sock = "stalled" /\ sock' = "good"
    /\ UNCHANGED <<pc, st, joined, call, fcUp, flags, inputs, tick, retry>>

\* A blocked write resumes once its connection moves again or is gone; closing
\* the socket in another thread does not by itself wake it.
Unblock ==
    /\ pc = "blocked" /\ sock # "stalled"
    /\ pc' = "send"
    /\ UNCHANGED <<st, joined, call, sock, fcUp, flags, inputs, tick, retry>>

Older(age) == IF age = NoVis THEN NoVis ELSE Smaller(age + 1, OldAge)

Elapse ==
    /\ pc # "pick"
    /\ pc \in {"age", "get"} => tickAge < MaxTick
    /\ visAge' = Older(visAge) /\ snapAge' = Older(snapAge)
    /\ tickAge' = IF pc \in {"top", "wait", "end"} THEN 0 ELSE Smaller(tickAge + 1, MaxTick)
    /\ retryIn' = Larger(0, retryIn - 1)
    /\ UNCHANGED <<pc, st, joined, call, sock, fcUp, flags, intent, tickIntent, cmd,
                   blocked, backoff>>

Environment == PostIntent \/ ReceiveVis \/ FcCloses \/ FcStarts \/ FcStalls \/ Unblock

Next == Bridge \/ Stop \/ Stopper \/ Environment \/ Elapse

Spec == Init /\ [][Next]_vars

\* Both threads run, and time passes (Elapse is disabled, again and again, while a
\* tick begins); nothing is assumed of the environment.
FairSpec == Spec /\ WF_vars(Bridge) /\ WF_vars(Stopper) /\ SF_vars(Elapse)
-----------------------------------------------------------------------------
(* Properties.                                                             *)

\* A CMD that asks for Tracking carries a VIS sample, and the VIS stream was live
\* when its age was read: the backend's gate of message-spec.md.
TrackingNeedsLiveVis ==
    pc = "get" /\ cmd.mode = "Tracking" => cmd.tracked /\ visAge <= VisFresh + tickAge

\* "the freshest sample ... inlined into the next outbound CMD frame" behind the
\* gate "if VIS is stale, force LandSafely" (decisions.md): the sample a CMD
\* carries is itself fresh at the tick's clock.
ForwardedSampleIsFresh ==
    pc = "get" /\ cmd.tracked => snapAge <= VisFresh + tickAge

\* Between ticks, while nobody stops the bridge, the link status the UI reads is
\* that of the socket, and so is the last announcement.
LinkStatusIsTruthful ==
    st = "running" /\ pc \in {"top", "wait"} /\ Returned("bridge") =>
        /\ fcConnected <=> sock # "none"
        /\ told <=> sock # "none"

\* Once stop() has returned and the thread has ended, in whatever order they got
\* there, no socket is left open and the link status says so; and the last
\* announcement says so too, unless the join had timed out.
StopLeavesNothing ==
    Stopped /\ Ended =>
        /\ sock = "none" /\ ~fcConnected /\ ~lastConnected
        /\ joined => ~told

\* While the flight controller listens and reads, the bridge gets connected and
\* announces it, again and again however often the connection is closed.
Reconnects ==
    <>[](fcUp /\ st = "running" /\ sock # "stalled" /\ pc # "blocked")
        => []<>(sock # "none" /\ fcConnected)

\* A stop wins in the end: no thread reopens the connection or reports it up,
\* even a thread that outlived the join.
StopIsFinal == (st # "running") ~> [](sock = "none" /\ ~fcConnected)
=============================================================================
