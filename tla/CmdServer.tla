------------------------------ MODULE CmdServer ------------------------------
(***************************************************************************)
(* The life of the flight controller's command server (CommandServer.cpp): *)
(* start() and stop() of the main thread against the server thread, which  *)
(* blocks in accept() and read() on descriptors it took under the lock and *)
(* uses outside it.                                                        *)
(*                                                                         *)
(* A descriptor is a number the system hands out again once it is closed;  *)
(* a call that blocks holds the socket behind it.                          *)
(***************************************************************************)
EXTENDS Naturals, FiniteSets, FiniteSetsExt

CONSTANTS
    MaxSockets,   \* bound: sockets ever made
    MaxStarts,    \* bound
    Numbers       \* descriptors

ASSUME ServerAssumption ==
    MaxSockets \in Nat \ {0} /\ MaxStarts \in Nat \ {0} /\ Numbers \subseteq Nat \ {0}

VARIABLES
    running, listenFd, clientFd,   \* 0 for -1
    table,     \* what each descriptor refers to: a socket, Foreign or 0
    shut,      \* sockets that were shut down
    made,      \* sockets made so far; also the latest
    ours,      \* history: those of this server's connections and listening
    backlog,   \* is a client waiting to be accepted
    main,      \* the main thread: "out", "up", "join"
    starts,
    th         \* the server thread: where it is, its snapshot, the socket it blocks on

vars == <<running, listenFd, clientFd, table, shut, made, ours, backlog, main, starts, th>>

fds == <<listenFd, clientFd>>
sockets == <<table, shut, made, ours>>
outer == <<backlog, main, starts>>

Foreign == MaxSockets + 1
Ended == [pc |-> "ended", fd |-> 0, on |-> 0]

TypeOK ==
    /\ running \in BOOLEAN /\ listenFd \in {0} \cup Numbers /\ clientFd \in {0} \cup Numbers
    /\ table \in [Numbers -> 0 .. Foreign] /\ shut \subseteq 1 .. made /\ made \in 0 .. MaxSockets
    /\ main \in {"out", "up", "join"} /\ starts \in 0 .. MaxStarts /\ backlog \in BOOLEAN
    /\ th.pc \in {"ended", "top", "toAccept", "accept", "accepted", "inner", "toRead", "read",
                  "lost"}
    /\ th.fd \in {0} \cup Numbers /\ th.on \in 0 .. Foreign

Init ==
    /\ running = FALSE /\ listenFd = 0 /\ clientFd = 0
    /\ table = [n \in Numbers |-> 0] /\ shut = {} /\ made = 0 /\ ours = {}
    /\ backlog = FALSE /\ main = "out" /\ starts = 0 /\ th = Ended

Unused == {n \in Numbers : table[n] = 0}

\* The system hands out the lowest number.
Opens(n) == n \in Unused /\ \A m \in Unused : n <= m
-----------------------------------------------------------------------------
(* The main thread.                                                        *)

Start ==
    /\ main = "out" /\ starts < MaxStarts /\ made < MaxSockets
    /\ \E n \in Numbers :
          /\ Opens(n)
          /\ table' = [table EXCEPT ![n] = made + 1] /\ listenFd' = n
    /\ made' = made + 1 /\ ours' = ours \cup {made + 1}
    /\ running' = TRUE /\ main' = "up" /\ starts' = starts + 1
    /\ th' = [pc |-> "top", fd |-> 0, on |-> 0]
    /\ UNCHANGED <<clientFd, shut, backlog>>

\* shutdown_and_close_fd of the descriptors of a set.
ShutAndClose(s) ==
    /\ shut' = shut \cup ({table[n] : n \in s} \cap 1 .. made)
    /\ table' = [n \in Numbers |-> IF n \in s THEN 0 ELSE table[n]]

\* Fault: the sockets are closed, which wakes nobody.
StopByClose ==
    /\ main = "up"
    /\ running' = FALSE /\ main' = "join"
    /\ shut' = shut
    /\ table' = [n \in Numbers |-> IF n \in {clientFd, listenFd} THEN 0 ELSE table[n]]
    /\ clientFd' = 0 /\ listenFd' = 0
    /\ UNCHANGED <<made, ours, backlog, starts, th>>

\* running is cleared before the lock is taken; the thread may be anywhere by then.
StopFlag ==
    /\ main = "up" /\ running
    /\ running' = FALSE
    /\ UNCHANGED <<fds, sockets, outer, th>>

Stop ==
    /\ main = "up" /\ ~running
    /\ main' = "join"
    /\ ShutAndClose({clientFd, listenFd} \ {0})
    /\ clientFd' = 0 /\ listenFd' = 0
    /\ UNCHANGED <<running, made, ours, backlog, starts, th>>

Join ==
    /\ main = "join" /\ th.pc = "ended"
    /\ main' = "out"
    /\ UNCHANGED <<running, fds, sockets, backlog, starts, th>>

\* What else the main thread opens and closes when it is not in stop().
OpenForeign ==
    /\ main = "out" \/ running
    /\ \/ \E n \in Numbers : Opens(n) /\ table' = [table EXCEPT ![n] = Foreign]
       \/ \E n \in Numbers : table[n] = Foreign /\ table' = [table EXCEPT ![n] = 0]
    /\ UNCHANGED <<running, fds, shut, made, ours, outer, th>>
-----------------------------------------------------------------------------
(* The server thread.                                                      *)

Goes(pc, fd, on) == th' = [pc |-> pc, fd |-> fd, on |-> on]

\* The end of run_loop, with a connection that was not taken over.
FinishWith(s) ==
    /\ ShutAndClose(({clientFd, listenFd} \ {0}) \cup s)
    /\ clientFd' = 0 /\ listenFd' = 0
    /\ Goes("ended", 0, 0)
    /\ UNCHANGED <<running, made, ours, outer>>

Finish == FinishWith({})

Top ==
    /\ th.pc = "top"
    /\ IF running /\ listenFd # 0
       THEN Goes("toAccept", listenFd, 0) /\ UNCHANGED <<running, fds, sockets, outer>>
       ELSE Finish

\* The call resolves its descriptor; a closed one fails at once.
ToAccept ==
    /\ th.pc = "toAccept"
    /\ IF table[th.fd] = 0 THEN Goes("top", 0, 0) ELSE Goes("accept", th.fd, table[th.fd])
    /\ UNCHANGED <<running, fds, sockets, outer>>

Accept ==
    /\ th.pc = "accept"
    /\ \/ th.on \in shut /\ Goes("top", 0, 0) /\ UNCHANGED <<sockets, backlog>>
       \/ /\ backlog /\ backlog' = FALSE /\ made < MaxSockets
          /\ \E n \in Numbers :
                /\ Opens(n)
                /\ table' = [table EXCEPT ![n] = made + 1]
                /\ Goes("accepted", n, 0)
          /\ made' = made + 1 /\ ours' = ours \cup {made + 1} /\ UNCHANGED shut
    /\ UNCHANGED <<running, fds, main, starts>>

\* Under the lock: a connection accepted while the server stops is closed.
Accepted ==
    /\ th.pc = "accepted"
    /\ IF running
       THEN /\ ShutAndClose({clientFd} \ {0}) /\ clientFd' = th.fd
            /\ Goes("inner", 0, 0)
            /\ UNCHANGED <<running, listenFd, made, ours, outer>>
       ELSE FinishWith({th.fd})

Inner ==
    /\ th.pc = "inner"
    /\ IF running /\ clientFd # 0 THEN Goes("toRead", clientFd, 0) ELSE Goes("top", 0, 0)
    /\ UNCHANGED <<running, fds, sockets, outer>>

ToRead ==
    /\ th.pc = "toRead"
    /\ Goes(IF table[th.fd] = 0 THEN "lost" ELSE "read", th.fd, table[th.fd])
    /\ UNCHANGED <<running, fds, sockets, outer>>

\* A frame, good or not, or the end of the connection; a half-open client ends nothing.
Read ==
    /\ th.pc = "read"
    /\ IF th.on \in shut THEN Goes("lost", th.fd, 0)
       ELSE Goes("inner", 0, 0) \/ Goes("lost", th.fd, 0)
    /\ UNCHANGED <<running, fds, sockets, outer>>

\* Fault: the number read from is closed, whosever it is by now.
LostBySnapshot ==
    /\ th.pc = "lost"
    /\ ShutAndClose({th.fd}) /\ UNCHANGED clientFd
    /\ Goes("top", 0, 0)
    /\ UNCHANGED <<running, listenFd, made, ours, outer>>

Lost ==
    /\ th.pc = "lost"
    /\ IF clientFd = th.fd THEN ShutAndClose({clientFd}) /\ clientFd' = 0
       ELSE UNCHANGED <<clientFd, table, shut>>
    /\ Goes("top", 0, 0)
    /\ UNCHANGED <<running, listenFd, made, ours, outer>>

Server == Top \/ ToAccept \/ Accept \/ Accepted \/ Inner \/ ToRead \/ Read \/ Lost

ClientComes ==
    /\ ~backlog /\ listenFd # 0
    /\ backlog' = TRUE
    /\ UNCHANGED <<running, fds, sockets, main, starts, th>>

Next == Start \/ StopFlag \/ Stop \/ Join \/ OpenForeign \/ Server \/ ClientComes

Spec == Init /\ [][Next]_vars

\* The threads run, but a client that says nothing keeps the server thread in read() for as
\* long as its socket is not shut down.
Fairness ==
    /\ WF_vars(Stop) /\ WF_vars(Join)
    /\ WF_vars(Server /\ th.pc # "read") /\ WF_vars(Read /\ th.on \in shut)

FairSpec == Spec /\ Fairness
-----------------------------------------------------------------------------
(* Properties.                                                             *)

\* The server thread never accepts from or reads a descriptor that has become another's,
\* though it uses it outside the lock; nor is another's closed.
OnlyOurSockets ==
    /\ th.on # 0 => th.on \in ours
    /\ \A n \in {listenFd, clientFd} \ {0} : table[n] \in ours

\* A stopped server has no descriptor left, wherever stop() met the thread.
StopLeavesNoDescriptor ==
    main = "out" => th.pc = "ended" /\ \A n \in Numbers : table[n] \in {0, Foreign}

\* Over starts, stops and clients that come and go, the two hold together: CommandServer uses
\* no descriptor but its own, and keeps none after stop().
DescriptorsAreOurs == TypeOK /\ OnlyOurSockets /\ StopLeavesNoDescriptor

\* stop() comes back, also while the thread waits for a client or for a silent one.
StopReturns == main = "join" ~> main = "out"
=============================================================================
