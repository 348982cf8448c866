------------------------------- MODULE WsClient -------------------------------
(***************************************************************************)
(* The webapp's WebSocket client (ws.ts): one socket at a time, a watchdog *)
(* on its messages, reconnection with back-off, and the count of failures  *)
(* the operator is warned by, against a browser that delivers events and a *)
(* network that refuses, breaks or silently stops.                         *)
(*                                                                         *)
(* The handlers of a socket act on the client, whichever socket it has by  *)
(* then.  A browser fires an error and its close event in one task; with   *)
(* drops the close event comes late or never, which the client's comments  *)
(* reckon with.                                                            *)
(***************************************************************************)
EXTENDS Naturals, FiniteSets, FiniteSetsExt

CONSTANTS
    Sockets,     \* bound: sockets known at once; a closed one is used again
    MaxDelay,    \* maxBackoffMs, in units of minBackoffMs
    MaxErrors    \* bound: consecutive errors counted apart

ASSUME WsAssumption ==
    Sockets \subseteq Nat \ {0} /\ MaxDelay \in Nat \ {0} /\ MaxErrors \in Nat

VARIABLES
    drops,       \* which browser it is
    active, connected,
    ws,          \* the client's socket, or 0
    sock,        \* what the browser knows of each socket
    reconnect, heartbeat,   \* is the timer set
    delay,       \* reconnectDelayMs
    errors, counted,        \* consecutiveErrors, errorAlreadyCounted
    tally        \* history: how often the failure of each socket was counted

client == <<active, connected, ws, sock, reconnect, heartbeat, delay, errors, counted, tally>>
vars == <<drops, client>>

Live == {"connecting", "open", "half", "closing"}   \* "half": its peer is gone

TypeOK ==
    /\ drops \in BOOLEAN /\ active \in BOOLEAN /\ connected \in BOOLEAN /\ ws \in {0} \cup Sockets
    /\ sock \in [Sockets -> Live \cup {"free", "erred", "failed", "closed"}]
    /\ reconnect \in BOOLEAN /\ heartbeat \in BOOLEAN /\ delay \in 1 .. MaxDelay
    /\ errors \in 0 .. MaxErrors /\ counted \in BOOLEAN /\ tally \in [Sockets -> 0 .. 3]

Init ==
    /\ drops \in BOOLEAN /\ active = FALSE /\ connected = FALSE /\ ws = 0
    /\ sock = [s \in Sockets |-> "free"] /\ tally = [s \in Sockets |-> 0]
    /\ reconnect = FALSE /\ heartbeat = FALSE /\ delay = 1 /\ errors = 0 /\ counted = FALSE
-----------------------------------------------------------------------------
OneMore(n) == Min({n + 1, MaxErrors})

\* Whoever calls it knows that the client is active.
Schedule == reconnect' = TRUE /\ delay' = IF reconnect THEN delay ELSE Min({2 * delay, MaxDelay})

Unused == {s \in Sockets : sock[s] \in {"free", "failed", "closed"}}

\* The constructor may throw; that failure is counted too.
Connect ==
    /\ heartbeat' = FALSE /\ counted' = FALSE
    /\ \/ /\ \E s \in Unused :
                /\ \A t \in Unused : s <= t
                /\ ws' = s /\ sock' = [sock EXCEPT ![s] = "connecting"]
                /\ tally' = [tally EXCEPT ![s] = 0]
          /\ reconnect' = FALSE
          /\ UNCHANGED <<delay, errors>>
       \/ /\ errors' = OneMore(errors)
          /\ reconnect' = TRUE /\ delay' = Min({2 * delay, MaxDelay})
          /\ UNCHANGED <<ws, sock, tally>>

Start ==
    /\ ~active
    /\ active' = TRUE
    /\ Connect
    /\ UNCHANGED connected

ReconnectFires ==
    /\ reconnect
    /\ Connect
    /\ UNCHANGED <<active, connected>>

\* close() of the client's socket, whose event comes later.
Closing(f) == IF ws # 0 /\ f[ws] \in Live THEN [f EXCEPT ![ws] = "closing"] ELSE f

\* The handlers are taken off before the close, so nothing more is heard of the socket.
Stop ==
    /\ active
    /\ active' = FALSE /\ connected' = FALSE /\ ws' = 0
    /\ reconnect' = FALSE /\ heartbeat' = FALSE
    /\ sock' = IF ws # 0 THEN [sock EXCEPT ![ws] = "free"] ELSE sock
    /\ UNCHANGED <<delay, errors, counted, tally>>
-----------------------------------------------------------------------------
(* The handlers of socket s.                                               *)

\* Fault: the watchdog waits for the first message.
OpenUnwatched(s) ==
    /\ sock[s] = "connecting" /\ active
    /\ sock' = [sock EXCEPT ![s] = "open"]
    /\ delay' = 1 /\ errors' = 0 /\ counted' = FALSE /\ connected' = TRUE
    /\ UNCHANGED <<active, ws, reconnect, heartbeat, tally>>

Open(s) ==
    /\ sock[s] = "connecting" /\ active
    /\ sock' = [sock EXCEPT ![s] = "open"]
    /\ delay' = 1 /\ errors' = 0 /\ counted' = FALSE /\ connected' = TRUE /\ heartbeat' = TRUE
    /\ UNCHANGED <<active, ws, reconnect, tally>>

\* It sets the watchdog anew.
Message(s) ==
    /\ sock[s] = "open" /\ active
    /\ heartbeat' = TRUE
    /\ UNCHANGED <<active, connected, ws, sock, reconnect, delay, errors, counted, tally>>

\* onerror alone; its close event has been dropped, or is late.
Error(s) ==
    /\ drops /\ sock[s] \in Live /\ active
    /\ errors' = OneMore(errors) /\ counted' = TRUE /\ connected' = FALSE
    /\ sock' = Closing([sock EXCEPT ![s] = "erred"])
    /\ tally' = [tally EXCEPT ![s] = @ + 1]
    /\ UNCHANGED <<active, ws, reconnect, heartbeat, delay>>

\* Fault: a failure is counted by onerror and by onclose.
ReportsAgain(erred, code) == code # 1000

Reports(erred, code) == ~erred /\ code # 1000

Times(b) == IF b THEN 1 ELSE 0

\* onclose, and just before it onerror if the browser has an error to tell; what the client
\* counts is that error, or a close that is neither clean nor already counted.
Close(s, erring, code) ==
    /\ sock[s] \in Live \cup {"erred"}
    /\ erring => sock[s] \in Live /\ code = 1006
    /\ code = 1000 => sock[s] \in {"open", "half"}
    /\ sock[s] = "erred" => drops
    /\ LET twice == Reports(erring \/ counted, code) IN
       /\ errors' = IF twice /\ erring THEN OneMore(OneMore(errors))
                    ELSE IF twice \/ erring THEN OneMore(errors) ELSE errors
       /\ tally' = [tally EXCEPT ![s] = @ + Times(erring) + Times(twice)]
    /\ sock' = [(IF erring THEN Closing(sock) ELSE sock) EXCEPT
                    ![s] = IF code = 1000 THEN "closed" ELSE "failed"]
    /\ heartbeat' = FALSE /\ ws' = 0 /\ connected' = FALSE /\ counted' = FALSE
    /\ Schedule
    /\ UNCHANGED active

\* After a stop only a socket given up before tells anything.
CloseStopped(s) ==
    /\ ~active /\ sock[s] \in Live \cup {"erred"}
    /\ sock' = [sock EXCEPT ![s] = "free"]
    /\ heartbeat' = FALSE /\ ws' = 0 /\ connected' = FALSE
    /\ UNCHANGED <<active, reconnect, delay, errors, counted, tally>>

Closes(s) == active /\ \E erring \in BOOLEAN, code \in {1000, 1006} : Close(s, erring, code)

\* Its peer is gone, and nothing tells.
Silence(s) ==
    /\ sock[s] = "open"
    /\ sock' = [sock EXCEPT ![s] = "half"]
    /\ UNCHANGED <<active, connected, ws, reconnect, heartbeat, delay, errors, counted, tally>>
-----------------------------------------------------------------------------
\* No message in time: the socket is closed; if its error came without its close event, that
\* is made up for here.
HeartbeatFires ==
    /\ heartbeat
    /\ heartbeat' = FALSE
    /\ IF ws = 0 THEN UNCHANGED <<ws, sock, connected, counted, reconnect, delay>>
       ELSE /\ sock' = Closing(sock)
            /\ IF counted
               THEN ws' = 0 /\ connected' = FALSE /\ counted' = FALSE /\ Schedule
               ELSE UNCHANGED <<ws, connected, counted, reconnect, delay>>
    /\ UNCHANGED <<active, errors, tally>>

Next ==
    /\ \/ Start \/ Stop \/ ReconnectFires \/ HeartbeatFires
       \/ \E s \in Sockets :
             Open(s) \/ Message(s) \/ Error(s) \/ Closes(s) \/ CloseStopped(s) \/ Silence(s)
    /\ UNCHANGED drops

Spec == Init /\ [][Next]_vars

\* Timers fire, the watchdog's when nothing comes; the browser ends a close that was asked
\* for and an attempt to connect; and a backend that is tried for ever is reached for ever.
Fairness ==
    /\ WF_client(ReconnectFires)
    /\ WF_client(HeartbeatFires /\ ws # 0 /\ sock[ws] = "half")
    /\ \A s \in Sockets :
          /\ WF_client(sock[s] = "closing" /\ Closes(s))
          /\ SF_client(Open(s))

FairSpec == Spec /\ Fairness
-----------------------------------------------------------------------------
(* Properties.                                                             *)

\* An active client is never left with nothing to wake it: it waits for its timer, for the
\* browser to end an attempt or a close, or has a socket that is watched.
SomethingWillCome ==
    active => \/ reconnect
              \/ /\ ws # 0 /\ sock[ws] \in Live
                 /\ sock[ws] \in {"open", "half"} => heartbeat
              \/ ws # 0 /\ sock[ws] = "erred" /\ heartbeat

\* At most one socket is in use, and none while a reconnection is due: no envelope comes
\* twice, and no connection is left open on the backend.
OneSocketAtATime ==
    /\ Cardinality({s \in Sockets : sock[s] \in Live}) <= 1
    /\ reconnect => \A s \in Sockets : sock[s] \notin Live

\* A client that was stopped has no timer and no socket, and stays so, whatever the sockets it
\* had given up still tell.
StopIsFinal == ~active => ~reconnect /\ ~heartbeat /\ ~connected /\ ws = 0

\* What the operator is warned by counts each failed connection once: "onerror already bumped
\* the counter", "double-counting the same lifecycle's failure" (ws.ts).
FailuresCountOnce ==
    \A s \in Sockets : /\ tally[s] <= 1
                       /\ sock[s] = "failed" => tally[s] = 1

\* The client stays stopped whatever late events its browser tells it; if the browser drops
\* none, it is never left with nothing to wake it, has one socket at most and counts each
\* failure once.
ClientIsSound ==
    /\ TypeOK /\ StopIsFinal
    /\ ~drops => SomethingWillCome /\ OneSocketAtATime /\ FailuresCountOnce

\* A client that has been started comes to have a working connection, whatever refused it,
\* broke it or fell silent before, or is stopped.
ComesBack == ~drops => [](active => <>(~active \/ (connected /\ ws # 0 /\ sock[ws] = "open")))
=============================================================================
