--------------------------- MODULE WsClient_proofs ---------------------------
(* Theorems about the webapp's WebSocket client, for any number of sockets,  *)
(* any back-off and either kind of browser.                                  *)
EXTENDS WsClient, FiniteSetTheorems, TLAPS

-----------------------------------------------------------------------------
(* The inductive invariant.                                                *)

SockStates == Live \cup {"free", "erred", "failed", "closed"}

\* A socket in use has had no failure counted, one with an error exactly that one; its close
\* event may be counted again, once.
CountedSoFar ==
    \A s \in Sockets : /\ sock[s] \in Live => tally[s] = 0
                       /\ sock[s] = "erred" => tally[s] = 1
                       /\ tally[s] <= 2

\* With a browser that drops no event the client knows the one socket there is, and waits for
\* its timer only without one.
KnowsItsSocket ==
    /\ ~counted /\ \A s \in Sockets : sock[s] # "erred"
    /\ \A s \in Sockets : sock[s] \in Live => active /\ s = ws
    /\ reconnect => ws = 0
    /\ active => \/ reconnect
                 \/ ws # 0 /\ sock[ws] \in Live /\ (sock[ws] \in {"open", "half"} => heartbeat)
    /\ FailuresCountOnce

Inv == TypeOK /\ StopIsFinal /\ CountedSoFar /\ (~drops => KnowsItsSocket)
-----------------------------------------------------------------------------
(* What the helpers return.                                                *)

LEMMA MinPair ==
    ASSUME NEW a \in Nat, NEW b \in Nat
    PROVE  Min({a, b}) = IF a <= b THEN a ELSE b
<1> DEFINE m == IF a <= b THEN a ELSE b
<1>1. m \in {a, b} /\ \A y \in {a, b} : m <= y
  OBVIOUS
<1>2. \A x \in {a, b} : (\A y \in {a, b} : x <= y) => x = m
  OBVIOUS
<1> HIDE DEF m
<1>3. (CHOOSE x \in {a, b} : \A y \in {a, b} : x <= y) = m
  BY <1>1, <1>2, Zenon
<1>4. QED
  BY <1>3 DEF Min, m

LEMMA Bounded ==
    /\ \A n \in 0 .. MaxErrors : OneMore(n) \in 0 .. MaxErrors
    /\ \A d \in 1 .. MaxDelay : Min({2 * d, MaxDelay}) \in 1 .. MaxDelay
<1>1. ASSUME NEW n \in 0 .. MaxErrors PROVE OneMore(n) \in 0 .. MaxErrors
  BY MinPair, WsAssumption DEF OneMore
<1>2. ASSUME NEW d \in 1 .. MaxDelay PROVE Min({2 * d, MaxDelay}) \in 1 .. MaxDelay
  BY MinPair, WsAssumption
<1>3. QED
  BY <1>1, <1>2

\* close() of the client's socket touches no other, and only one in use.
LEMMA ClosingEffect ==
    ASSUME NEW f \in [Sockets -> SockStates], ws \in {0} \cup Sockets
    PROVE  /\ Closing(f) \in [Sockets -> SockStates]
           /\ \A s \in Sockets : Closing(f)[s] # f[s] =>
                 s = ws /\ f[s] \in Live /\ Closing(f)[s] = "closing"
           /\ ws # 0 /\ f[ws] \in Live => Closing(f)[ws] = "closing"
BY DEF Closing, SockStates, Live

LEMMA TypeFacts ==
    ASSUME TypeOK
    PROVE  /\ sock \in [Sockets -> SockStates] /\ tally \in [Sockets -> 0 .. 3]
           /\ ws \in {0} \cup Sockets /\ 0 \notin Sockets
           /\ delay \in 1 .. MaxDelay /\ errors \in 0 .. MaxErrors
BY WsAssumption DEF TypeOK, SockStates

-----------------------------------------------------------------------------
LEMMA InvInit == Init => Inv
<1> SUFFICES ASSUME Init PROVE Inv
  OBVIOUS
<1>1. /\ sock \in [Sockets -> SockStates] /\ tally \in [Sockets -> 0 .. 3]
      /\ \A s \in Sockets : sock[s] = "free" /\ tally[s] = 0
      /\ errors \in 0 .. MaxErrors /\ delay \in 1 .. MaxDelay
  BY WsAssumption DEF Init, SockStates
<1>2. TypeOK
  BY <1>1, Zenon DEF Init, TypeOK, SockStates
<1>3. StopIsFinal /\ CountedSoFar /\ KnowsItsSocket
  BY <1>1 DEF Init, StopIsFinal, CountedSoFar, KnowsItsSocket, FailuresCountOnce, Live
<1>4. QED
  BY <1>2, <1>3 DEF Inv

\* A new socket is the client's only one; a constructor that throws leaves the timer.
LEMMA ConnectInv ==
    ASSUME Inv, Connect, active' = TRUE, UNCHANGED <<drops, connected>>, active \/ ~reconnect,
           ws = 0 \/ drops
    PROVE  Inv'
<1>1. CASE /\ \E s \in Unused :
                 /\ \A t \in Unused : s <= t
                 /\ ws' = s /\ sock' = [sock EXCEPT ![s] = "connecting"]
                 /\ tally' = [tally EXCEPT ![s] = 0]
           /\ reconnect' = FALSE
           /\ UNCHANGED <<delay, errors>>
  <2>1. PICK s \in Unused :
               /\ ws' = s /\ sock' = [sock EXCEPT ![s] = "connecting"]
               /\ tally' = [tally EXCEPT ![s] = 0]
    BY <1>1
  <2>2. s \in Sockets /\ s # 0 /\ heartbeat' = FALSE /\ counted' = FALSE /\ reconnect' = FALSE
        /\ active' \in BOOLEAN
    BY <1>1, WsAssumption DEF Unused, Connect
  <2>3. TypeOK'
    <3>1. sock' \in [Sockets -> SockStates] /\ tally' \in [Sockets -> 0 .. 3]
      BY <2>1, <2>2, TypeFacts DEF Inv, SockStates, Live
    <3>2. QED
      BY <1>1, <2>1, <2>2, <3>1 DEF Inv, TypeOK, SockStates
  <2>4. StopIsFinal' /\ CountedSoFar'
    BY <2>1, <2>2, TypeFacts DEF Inv, StopIsFinal, CountedSoFar, Live
  <2>5. ~drops => KnowsItsSocket'
    BY <2>1, <2>2, TypeFacts DEF Inv, KnowsItsSocket, FailuresCountOnce, Live
  <2>6. QED
    BY <2>3, <2>4, <2>5 DEF Inv
<1>2. CASE /\ errors' = OneMore(errors)
           /\ reconnect' = TRUE /\ delay' = Min({2 * delay, MaxDelay})
           /\ UNCHANGED <<ws, sock, tally>>
  <2>1. heartbeat' = FALSE /\ counted' = FALSE /\ active' \in BOOLEAN
    BY DEF Connect
  <2>2. errors' \in 0 .. MaxErrors /\ delay' \in 1 .. MaxDelay
    BY <1>2, Bounded, TypeFacts DEF Inv
  <2>3. TypeOK'
    BY <1>2, <2>1, <2>2 DEF Inv, TypeOK
  <2>4. QED
    BY <1>2, <2>1, <2>3
    DEF Inv, StopIsFinal, CountedSoFar, KnowsItsSocket, FailuresCountOnce
<1>3. QED
  BY <1>1, <1>2 DEF Connect

LEMMA StartInv == Inv /\ Start /\ UNCHANGED drops => Inv'
BY ConnectInv DEF Start, Inv, StopIsFinal

LEMMA ReconnectInv == Inv /\ ReconnectFires /\ UNCHANGED drops => Inv'
<1> SUFFICES ASSUME Inv, ReconnectFires, UNCHANGED drops PROVE Inv'
  OBVIOUS
<1>1. active /\ active \in BOOLEAN /\ (ws = 0 \/ drops)
  BY DEF ReconnectFires, Inv, TypeOK, StopIsFinal, KnowsItsSocket
<1>2. QED
  BY <1>1, ConnectInv DEF ReconnectFires

LEMMA StopInv == Inv /\ Stop /\ UNCHANGED drops => Inv'
<1> SUFFICES ASSUME Inv, Stop, UNCHANGED drops PROVE Inv'
  OBVIOUS
<1>1. /\ sock' \in [Sockets -> SockStates]
      /\ \A s \in Sockets : sock'[s] = IF s = ws THEN "free" ELSE sock[s]
  BY TypeFacts DEF Stop, Inv, SockStates
<1>2. TypeOK'
  BY <1>1 DEF Stop, Inv, TypeOK, SockStates
<1>3. StopIsFinal' /\ CountedSoFar'
  BY <1>1 DEF Stop, Inv, StopIsFinal, CountedSoFar, Live
<1>4. ~drops => KnowsItsSocket'
  BY <1>1 DEF Stop, Inv, KnowsItsSocket, FailuresCountOnce, Live
<1>5. QED
  BY <1>2, <1>3, <1>4 DEF Inv

-----------------------------------------------------------------------------
(* The handlers of a socket.                                               *)

\* One socket goes from a use to another; the client may begin to watch it.
LEMMA SameUseInv ==
    ASSUME Inv, NEW s \in Sockets, NEW u \in {"open", "half"}, sock[s] \in {"connecting", "open"},
           sock' = [sock EXCEPT ![s] = u],
           UNCHANGED <<drops, active, ws, reconnect, tally>>,
           connected' \in BOOLEAN, heartbeat' \in BOOLEAN, counted' \in BOOLEAN,
           delay' \in 1 .. MaxDelay, errors' \in 0 .. MaxErrors,
           \/ active /\ heartbeat' /\ ~counted'
           \/ sock[s] = "open" /\ UNCHANGED <<connected, heartbeat, counted>>
    PROVE  Inv'
<1>1. /\ sock' \in [Sockets -> SockStates]
      /\ \A t \in Sockets : sock'[t] = IF t = s THEN u ELSE sock[t]
  BY TypeFacts DEF Inv, SockStates, Live
<1>2. TypeOK'
  BY <1>1 DEF Inv, TypeOK, SockStates
<1>3. StopIsFinal' /\ CountedSoFar'
  BY <1>1 DEF Inv, StopIsFinal, CountedSoFar, Live
<1>4. ~drops => KnowsItsSocket'
  BY <1>1 DEF Inv, KnowsItsSocket, FailuresCountOnce, Live
<1>5. QED
  BY <1>2, <1>3, <1>4 DEF Inv

LEMMA OpenInv == ASSUME NEW s \in Sockets PROVE Inv /\ Open(s) /\ UNCHANGED drops => Inv'
<1> SUFFICES ASSUME Inv, Open(s), UNCHANGED drops PROVE Inv'
  OBVIOUS
<1>1. delay' \in 1 .. MaxDelay /\ errors' \in 0 .. MaxErrors
  BY WsAssumption DEF Open
<1>2. QED
  BY <1>1, SameUseInv DEF Open

LEMMA SilenceInv == ASSUME NEW s \in Sockets PROVE Inv /\ Silence(s) /\ UNCHANGED drops => Inv'
BY SameUseInv DEF Silence, Inv, TypeOK

LEMMA MessageInv == ASSUME NEW s \in Sockets PROVE Inv /\ Message(s) /\ UNCHANGED drops => Inv'
<1> SUFFICES ASSUME Inv, Message(s), UNCHANGED drops PROVE Inv'
  OBVIOUS
<1>1. TypeOK' /\ StopIsFinal' /\ CountedSoFar'
  BY DEF Message, Inv, TypeOK, StopIsFinal, CountedSoFar
<1>2. ~drops => KnowsItsSocket'
  BY DEF Message, Inv, KnowsItsSocket, FailuresCountOnce
<1>3. QED
  BY <1>1, <1>2 DEF Inv

LEMMA ErrorInv == ASSUME NEW s \in Sockets PROVE Inv /\ Error(s) /\ UNCHANGED drops => Inv'
<1> SUFFICES ASSUME Inv, Error(s), UNCHANGED drops PROVE Inv'
  OBVIOUS
<1> DEFINE f == [sock EXCEPT ![s] = "erred"]
<1>1. f \in [Sockets -> SockStates] /\ \A t \in Sockets : f[t] = IF t = s THEN "erred" ELSE sock[t]
  BY TypeFacts DEF Inv, SockStates
<1>2. /\ sock' = Closing(f) /\ tally' = [tally EXCEPT ![s] = tally[s] + 1]
      /\ sock[s] \in Live /\ active /\ drops /\ drops' = drops
      /\ UNCHANGED <<active, ws, reconnect, heartbeat, delay>>
      /\ counted' = TRUE /\ connected' = FALSE
  BY DEF Error
<1>3. errors' \in 0 .. MaxErrors
  BY Bounded, TypeFacts DEF Error, Inv
<1> HIDE DEF f
<1>4. /\ sock' \in [Sockets -> SockStates]
      /\ \A t \in Sockets : sock'[t] # f[t] => f[t] \in Live /\ sock'[t] = "closing"
  BY <1>1, <1>2, ClosingEffect, TypeFacts DEF Inv
<1>5. tally' \in [Sockets -> 0 .. 3] /\ tally'[s] = 1 /\ \A t \in Sockets \ {s} : tally'[t] = tally[t]
  BY <1>2, TypeFacts DEF Inv, CountedSoFar
<1>6. TypeOK'
  BY <1>2, <1>3, <1>4, <1>5 DEF Inv, TypeOK, SockStates
<1>7. sock'[s] = "erred"
  BY <1>1, <1>4 DEF Live
<1>8. CountedSoFar'
  <2>1. ASSUME NEW t \in Sockets \ {s}
        PROVE  /\ sock'[t] \in Live => tally'[t] = 0
               /\ sock'[t] = "erred" => tally'[t] = 1
               /\ tally'[t] <= 2
    BY <1>1, <1>4, <1>5 DEF Inv, CountedSoFar, Live
  <2>2. QED
    BY <1>5, <1>7, <2>1 DEF CountedSoFar, Live
<1>9. StopIsFinal'
  BY <1>2 DEF StopIsFinal
<1>10. QED
  BY <1>2, <1>6, <1>8, <1>9 DEF Inv

\* The close codes told apart; a number this large is better left unexpanded.
Codes == {1000, 1006}

\* A close is of the socket that is in use or erred; with a browser that drops nothing it is
\* the client's, which has then none, and its timer is set.
LEMMA CloseInv ==
    ASSUME NEW s \in Sockets, NEW erring \in BOOLEAN, NEW code \in Codes,
           Inv, active, Close(s, erring, code), UNCHANGED <<active, drops>>
    PROVE  Inv'
<1> DEFINE f == IF erring THEN Closing(sock) ELSE sock
           end == IF code = 1000 THEN "closed" ELSE "failed"
           twice == Reports(erring \/ counted, code)
           one == Times(erring)
           other == Times(twice)
<1>1. /\ f \in [Sockets -> SockStates]
      /\ \A t \in Sockets : f[t] # sock[t] => t = ws /\ sock[t] \in Live /\ f[t] = "closing"
  BY ClosingEffect, TypeFacts DEF Inv
<1>2. /\ sock' = [f EXCEPT ![s] = end]
      /\ tally' = [tally EXCEPT ![s] = tally[s] + one + other]
      /\ sock[s] \in Live \cup {"erred"}
      /\ (erring => sock[s] \in Live /\ code = 1006) /\ (sock[s] = "erred" => drops)
      /\ (code = 1000 => sock[s] \in {"open", "half"})
      /\ heartbeat' = FALSE /\ ws' = 0 /\ connected' = FALSE /\ counted' = FALSE
      /\ Schedule
  BY TypeFacts DEF Close, Inv
<1>3. reconnect' = TRUE /\ delay' \in 1 .. MaxDelay
  BY <1>2, Bounded, TypeFacts DEF Schedule, Inv
<1>4. errors' \in 0 .. MaxErrors
  BY Bounded, TypeFacts DEF Close, Inv
<1>5. /\ end \in {"closed", "failed"} /\ one \in 0 .. 1 /\ other \in 0 .. 1
      /\ (erring => one = 1 /\ other = 0) /\ (~erring => one = 0)
      /\ ~erring /\ ~counted /\ code = 1006 => other = 1
      /\ end = "failed" <=> code = 1006
  BY DEF Reports, Times, Codes
<1> HIDE DEF f, end, one, other, twice
<1>6. /\ sock' \in [Sockets -> SockStates] /\ sock'[s] = end
      /\ \A t \in Sockets \ {s} : sock'[t] = f[t]
  BY <1>1, <1>2, <1>5 DEF SockStates
<1>7. /\ tally[s] \in {0, 1} /\ tally' \in [Sockets -> 0 .. 3] /\ tally'[s] = tally[s] + one + other
      /\ \A t \in Sockets \ {s} : tally'[t] = tally[t]
      /\ sock[s] \in Live => tally[s] = 0
  BY <1>2, <1>5, TypeFacts DEF Inv, CountedSoFar
<1>8. TypeOK'
  <2>1. drops' \in BOOLEAN /\ active' \in BOOLEAN
    BY DEF Inv, TypeOK
  <2>2. heartbeat' = FALSE /\ ws' = 0 /\ connected' = FALSE /\ counted' = FALSE
    BY <1>2
  <2>3. heartbeat' \in BOOLEAN /\ connected' \in BOOLEAN /\ counted' \in BOOLEAN
    BY <2>2, Zenon
  <2>4. reconnect' \in BOOLEAN /\ ws' \in {0} \cup Sockets
    BY <1>3, <2>2
  <2>5. delay' \in 1 .. MaxDelay
    BY <1>3
  <2>6. tally' \in [Sockets -> 0 .. 3]
    BY <1>7
  <2>7. sock' \in [Sockets -> Live \cup {"free", "erred", "failed", "closed"}]
    BY <1>6 DEF SockStates
  <2>8. QED
    BY <1>4, <2>1, <2>3, <2>4, <2>5, <2>6, <2>7 DEF TypeOK
<1>9. CountedSoFar'
  <2>1. ASSUME NEW t \in Sockets \ {s}
        PROVE  /\ sock'[t] \in Live => tally'[t] = 0
               /\ sock'[t] = "erred" => tally'[t] = 1
               /\ tally'[t] <= 2
    BY <1>1, <1>6, <1>7 DEF Inv, CountedSoFar, Live
  <2>2. QED
    BY <1>5, <1>6, <1>7, <2>1 DEF CountedSoFar, Live
<1>10. StopIsFinal'
  BY DEF StopIsFinal
<1>11. ASSUME ~drops PROVE KnowsItsSocket'
  <2>1. KnowsItsSocket /\ sock[s] \in Live /\ s = ws
    BY <1>2, <1>11 DEF Inv, KnowsItsSocket
  <2>2. \A t \in Sockets \ {s} : sock'[t] = sock[t] /\ sock[t] \notin Live \cup {"erred"}
    BY <1>1, <1>6, <2>1 DEF KnowsItsSocket
  <2>3. tally'[s] <= 1 /\ (sock'[s] = "failed" => tally'[s] = 1)
    BY <1>5, <1>6, <1>7, <2>1 DEF KnowsItsSocket
  <2>4. FailuresCountOnce'
    BY <1>7, <2>1, <2>2, <2>3 DEF KnowsItsSocket, FailuresCountOnce
  <2>5. QED
    BY <1>2, <1>3, <1>5, <1>6, <2>2, <2>4 DEF KnowsItsSocket, Live
<1>12. QED
  BY <1>8, <1>9, <1>10, <1>11 DEF Inv

LEMMA CloseStoppedInv ==
    ASSUME NEW s \in Sockets PROVE Inv /\ CloseStopped(s) /\ UNCHANGED drops => Inv'
<1> SUFFICES ASSUME Inv, CloseStopped(s), UNCHANGED drops PROVE Inv'
  OBVIOUS
<1>1. /\ sock' \in [Sockets -> SockStates]
      /\ \A t \in Sockets : sock'[t] = IF t = s THEN "free" ELSE sock[t]
  BY TypeFacts DEF CloseStopped, Inv, SockStates
<1>2. TypeOK'
  BY <1>1 DEF CloseStopped, Inv, TypeOK, SockStates
<1>3. StopIsFinal' /\ CountedSoFar'
  BY <1>1 DEF CloseStopped, Inv, StopIsFinal, CountedSoFar, Live
<1>4. ~drops => KnowsItsSocket'
  BY <1>1 DEF CloseStopped, Inv, KnowsItsSocket, FailuresCountOnce, Live
<1>5. QED
  BY <1>2, <1>3, <1>4 DEF Inv

\* The watchdog closes the client's socket, or gives up one whose close event never came.
LEMMA HeartbeatInv == Inv /\ HeartbeatFires /\ UNCHANGED drops => Inv'
<1> SUFFICES ASSUME Inv, HeartbeatFires, UNCHANGED drops PROVE Inv'
  OBVIOUS
<1>1. /\ heartbeat' = FALSE /\ active /\ UNCHANGED <<drops, active, errors, tally>>
  BY DEF HeartbeatFires, Inv, StopIsFinal
<1>2. CASE ws = 0
  <2>1. UNCHANGED <<ws, sock, connected, counted, reconnect, delay>>
    BY <1>2 DEF HeartbeatFires
  <2>2. TypeOK' /\ StopIsFinal' /\ CountedSoFar'
    BY <1>1, <2>1 DEF Inv, TypeOK, StopIsFinal, CountedSoFar
  <2>3. ~drops => KnowsItsSocket'
    BY <1>1, <1>2, <2>1 DEF Inv, KnowsItsSocket, FailuresCountOnce
  <2>4. QED
    BY <2>2, <2>3 DEF Inv
<1>3. CASE ws # 0
  <2>1. /\ sock' \in [Sockets -> SockStates]
        /\ \A s \in Sockets : sock'[s] # sock[s] =>
              s = ws /\ sock[s] \in Live /\ sock'[s] = "closing"
        /\ sock[ws] \in Live => sock'[ws] = "closing"
    BY <1>3, ClosingEffect, TypeFacts DEF HeartbeatFires, Inv
  <2>2. /\ ws' \in {0, ws} /\ connected' \in BOOLEAN /\ counted' \in BOOLEAN
        /\ reconnect' \in BOOLEAN /\ delay' \in 1 .. MaxDelay
    BY <1>3, Bounded, TypeFacts DEF HeartbeatFires, Schedule, Inv, TypeOK
  <2>3. TypeOK' /\ StopIsFinal' /\ CountedSoFar'
    <3>1. TypeOK'
      BY <1>1, <2>1, <2>2 DEF Inv, TypeOK, SockStates
    <3>2. CountedSoFar'
      BY <1>1, <2>1 DEF Inv, CountedSoFar, Live
    <3>3. QED
      BY <1>1, <3>1, <3>2 DEF StopIsFinal
  <2>4. ASSUME ~drops PROVE KnowsItsSocket'
    <3>1. KnowsItsSocket /\ ~counted /\ UNCHANGED <<ws, connected, counted, reconnect, delay>>
      BY <1>3, <2>4 DEF Inv, KnowsItsSocket, HeartbeatFires
    <3>2. sock[ws] \in Live /\ sock'[ws] = "closing"
      BY <1>1, <1>3, <2>1, <3>1 DEF KnowsItsSocket
    <3>3. QED
      BY <1>1, <1>3, <2>1, <3>1, <3>2 DEF KnowsItsSocket, FailuresCountOnce, Live
  <2>5. QED
    BY <2>3, <2>4, <1>1 DEF Inv
<1>4. QED
  BY <1>2, <1>3

LEMMA InvNext == Inv /\ [Next]_vars => Inv'
<1> SUFFICES ASSUME Inv, [Next]_vars PROVE Inv'
  OBVIOUS
<1>1. CASE UNCHANGED vars
  BY <1>1 DEF vars, client, Inv, TypeOK, StopIsFinal, CountedSoFar, KnowsItsSocket, FailuresCountOnce
<1>2. ASSUME NEW s \in Sockets, Closes(s), UNCHANGED drops PROVE Inv'
  <2>1. PICK erring \in BOOLEAN, code \in Codes : Close(s, erring, code)
    BY <1>2 DEF Closes, Codes
  <2>2. active /\ UNCHANGED active
    BY <1>2, <2>1 DEF Closes, Close
  <2>3. QED
    BY <1>2, <2>1, <2>2, CloseInv
<1>3. CASE Next
  BY <1>2, <1>3, StartInv, StopInv, ReconnectInv, HeartbeatInv, OpenInv, MessageInv, ErrorInv,
     CloseStoppedInv, SilenceInv DEF Next
<1>4. QED
  BY <1>1, <1>3

-----------------------------------------------------------------------------
(* The theorem.                                                            *)

LEMMA AtMostOne ==
    ASSUME NEW S, NEW x, \A y \in S : y = x
    PROVE  Cardinality(S) <= 1
<1>1. S = {} \/ S = {x}
  OBVIOUS
<1>2. Cardinality({}) = 0 /\ Cardinality({x}) = 1
  BY FS_EmptySet, FS_Singleton
<1>3. QED
  BY <1>1, <1>2

LEMMA InvIsSound == Inv => ClientIsSound
<1> SUFFICES ASSUME Inv PROVE ClientIsSound
  OBVIOUS
<1>1. ASSUME ~drops PROVE SomethingWillCome /\ OneSocketAtATime /\ FailuresCountOnce
  <2>1. KnowsItsSocket
    BY <1>1 DEF Inv
  <2>2. SomethingWillCome /\ FailuresCountOnce
    BY <2>1 DEF KnowsItsSocket, SomethingWillCome
  <2>3. Cardinality({s \in Sockets : sock[s] \in Live}) <= 1
    BY <2>1, AtMostOne DEF KnowsItsSocket
  <2>4. reconnect => \A s \in Sockets : sock[s] \notin Live
    BY <2>1, TypeFacts DEF KnowsItsSocket, Inv
  <2>5. QED
    BY <2>2, <2>3, <2>4 DEF OneSocketAtATime
<1>2. QED
  BY <1>1 DEF Inv, ClientIsSound

\* However connections fail, break, fall silent or are given up by the watchdog, a stopped
\* client stays stopped; and unless its browser drops close events, an active one always
\* waits for something that will come, uses one socket at a time and counts each failure once.
THEOREM ClientStaysSound == Spec => []ClientIsSound
<1>1. QED
  BY InvInit, InvNext, InvIsSound, PTL DEF Spec

=============================================================================
