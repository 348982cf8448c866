----------------------------- MODULE FcIo_proofs -----------------------------
(* Theorems about the flight controller's command server and its serial sink *)
(* in flight, for every value of the constants: any number of sockets and    *)
(* starts; any length of a frame, retry budget of write() and poll period.   *)
EXTENDS CmdServer, MspSink, TLAPS

-----------------------------------------------------------------------------
(* The command server: the inductive invariant.                            *)

Held == {listenFd, clientFd} \ {0}

\* Sockets are numbered from 1, so that none of ours is Foreign.
OursAreMade == ours \subseteq 1 .. made

\* Out of start() and past the lock in stop() the server has no descriptor, and
\* the thread can take none over: running is false.
DownWhenStopped ==
    /\ main # "up" => ~running /\ listenFd = 0 /\ clientFd = 0
    /\ main = "out" => th.pc = "ended"

\* Each descriptor of a connection or of listening has one owner.
OneOwner ==
    /\ listenFd # 0 => listenFd # clientFd
    /\ th.pc = "accepted" => th.fd \notin Held /\ table[th.fd] \in ours
    /\ \A n \in Numbers :
          table[n] \in {0, Foreign} \/ n \in Held \/ (th.pc = "accepted" /\ n = th.fd)

\* A number taken under the lock is still the server's, or stop() has closed it and
\* nobody opens another before the thread is joined.
SnapshotIsOurs ==
    /\ th.pc \in {"toAccept", "accept", "accepted", "toRead", "read", "lost"} => th.fd \in Numbers
    /\ th.pc = "toAccept" => th.fd = listenFd \/ (main = "join" /\ table[th.fd] = 0)
    /\ th.pc = "toRead" => th.fd = clientFd \/ (main = "join" /\ table[th.fd] = 0)

ServerInv ==
    TypeOK /\ OnlyOurSockets /\ OursAreMade /\ DownWhenStopped /\ OneOwner /\ SnapshotIsOurs
-----------------------------------------------------------------------------
LEMMA NumberTypes ==
    /\ 0 \notin Numbers /\ Foreign \notin 1 .. MaxSockets /\ Foreign # 0
    /\ 0 \in 0 .. Foreign /\ Foreign \in 0 .. Foreign
    /\ \A m \in 0 .. MaxSockets :
          /\ 1 .. m \subseteq 1 .. MaxSockets /\ 1 .. m \subseteq 0 .. Foreign
          /\ 0 \notin 1 .. m
          /\ m < MaxSockets => /\ m + 1 \in 1 .. (m + 1) /\ m + 1 \in 0 .. MaxSockets
                               /\ 1 .. m \subseteq 1 .. (m + 1) /\ m + 1 \in 0 .. Foreign
                               /\ m + 1 # 0 /\ m + 1 # Foreign
BY ServerAssumption DEF Foreign

\* Closing clears the closed numbers and touches no other.
LEMMA CloseEffect ==
    ASSUME TypeOK, NEW s \in SUBSET Numbers, ShutAndClose(s)
    PROVE  /\ table' \in [Numbers -> 0 .. Foreign] /\ shut' \subseteq 1 .. made
           /\ \A n \in s : table'[n] = 0
           /\ \A n \in Numbers \ s : table'[n] = table[n]
BY NumberTypes DEF ShutAndClose, TypeOK

\* A number the system hands out was closed.
LEMMA OpenEffect ==
    ASSUME TypeOK, NEW n \in Numbers, NEW v \in 0 .. Foreign, Opens(n),
           table' = [table EXCEPT ![n] = v]
    PROVE  /\ table' \in [Numbers -> 0 .. Foreign] /\ table[n] = 0 /\ table'[n] = v
           /\ \A m \in Numbers \ {n} : table'[m] = table[m]
BY DEF Opens, Unused, TypeOK
-----------------------------------------------------------------------------
LEMMA ServerInvInit == Init => ServerInv
<1> SUFFICES ASSUME Init PROVE ServerInv
  OBVIOUS
<1>1. TypeOK
  <2>1. 0 \in 0 .. MaxSockets /\ 0 \in 0 .. MaxStarts /\ 0 \in 0 .. Foreign
    BY NumberTypes, ServerAssumption
  <2>2. th.pc = "ended" /\ th.fd = 0 /\ th.on = 0
    BY DEF Init, Ended
  <2>3. QED
    BY <2>1, <2>2 DEF Init, TypeOK
<1>2. QED
  BY <1>1
  DEF Init, ServerInv, OnlyOurSockets, OursAreMade, DownWhenStopped, OneOwner, SnapshotIsOurs, Held,
      Ended

\* The end of run_loop closes what the server holds, and the connection it refused.
LEMMA FinishStep ==
    ASSUME ServerInv, main # "out", NEW s \in SUBSET Numbers,
           th.pc = "accepted" => th.fd \in s, FinishWith(s)
    PROVE  ServerInv'
<1> USE DEF ServerInv, TypeOK, Held, outer
<1>1. /\ th' = [pc |-> "ended", fd |-> 0, on |-> 0]
      /\ listenFd' = 0 /\ clientFd' = 0
      /\ UNCHANGED <<running, made, ours, backlog, main, starts>>
  BY DEF FinishWith, Goes
<1>2. Held \cup s \subseteq Numbers
  OBVIOUS
<1>3. /\ table' \in [Numbers -> 0 .. Foreign] /\ shut' \subseteq 1 .. made
      /\ \A n \in Held \cup s : table'[n] = 0
      /\ \A n \in Numbers \ (Held \cup s) : table'[n] = table[n]
  BY <1>2, CloseEffect DEF FinishWith
<1>4. TypeOK'
  BY <1>1, <1>3, NumberTypes
<1>5. OneOwner'
  BY <1>1, <1>2, <1>3 DEF OneOwner
<1>6. QED
  BY <1>1, <1>4, <1>5 DEF OnlyOurSockets, OursAreMade, DownWhenStopped, SnapshotIsOurs

LEMMA ServerInvNext ==
    ASSUME ServerInv, [Next]_vars
    PROVE  ServerInv'
<1> USE DEF ServerInv, TypeOK, OnlyOurSockets, OursAreMade, DownWhenStopped, OneOwner, SnapshotIsOurs,
            Held, fds, sockets, outer, Goes
<1>1. CASE Start
  BY <1>1, NumberTypes, OpenEffect, ServerAssumption DEF Start
<1>2. CASE StopFlag
  BY <1>2 DEF StopFlag
<1>3. CASE Stop
  BY <1>3, NumberTypes, CloseEffect DEF Stop
<1>4. CASE Join
  BY <1>4 DEF Join
<1>5. CASE OpenForeign
  BY <1>5, NumberTypes, OpenEffect DEF OpenForeign
<1>6. CASE Top
  <2>1. CASE running /\ listenFd # 0
    <3>1. /\ th.pc = "top" /\ th' = [pc |-> "toAccept", fd |-> listenFd, on |-> 0]
          /\ UNCHANGED <<running, listenFd, clientFd, table, shut, made, ours, backlog, main,
                        starts>>
      BY <1>6, <2>1 DEF Top
    <3>2. TypeOK' /\ OursAreMade'
      BY <3>1, NumberTypes
    <3>3. OnlyOurSockets' /\ DownWhenStopped'
      BY <2>1, <3>1
    <3>4. OneOwner'
      BY <3>1
    <3>5. SnapshotIsOurs'
      BY <2>1, <3>1
    <3>6. QED
      BY <3>2, <3>3, <3>4, <3>5
  <2>2. CASE ~(running /\ listenFd # 0)
    BY <1>6, <2>2, FinishStep DEF Top, Finish
  <2>3. QED
    BY <2>1, <2>2
<1>7. CASE ToAccept
  BY <1>7, NumberTypes DEF ToAccept
<1>8. CASE Accept
  <2>1. CASE th.on \in shut /\ Goes("top", 0, 0) /\ UNCHANGED <<sockets, backlog>>
    BY <1>8, <2>1, NumberTypes DEF Accept
  <2>2. CASE ~(th.on \in shut /\ Goes("top", 0, 0) /\ UNCHANGED <<sockets, backlog>>)
    <3>1. PICK n \in Numbers :
             /\ Opens(n) /\ table' = [table EXCEPT ![n] = made + 1]
             /\ th' = [pc |-> "accepted", fd |-> n, on |-> 0]
      BY <1>8, <2>2 DEF Accept
    <3>2. /\ made < MaxSockets /\ made' = made + 1 /\ ours' = ours \cup {made + 1}
          /\ backlog' = FALSE
          /\ UNCHANGED <<running, listenFd, clientFd, shut, main, starts>>
      BY <1>8, <2>2 DEF Accept
    <3>3. /\ table' \in [Numbers -> 0 .. Foreign] /\ table[n] = 0 /\ table'[n] = made + 1
          /\ \A m \in Numbers \ {n} : table'[m] = table[m]
      BY <3>1, <3>2, OpenEffect, NumberTypes
    <3>4. TypeOK' /\ OursAreMade'
      <4>1. shut' \subseteq 1 .. made' /\ made' \in 0 .. MaxSockets /\ OursAreMade'
        BY <3>2, NumberTypes
      <4>2. th'.fd \in Numbers /\ th'.on \in 0 .. Foreign /\ th'.pc = "accepted"
        BY <3>1, NumberTypes
      <4>3. QED
        BY <3>2, <3>3, <4>1, <4>2
    <3>5. n \notin Held
      BY <3>3, NumberTypes
    <3>6. OneOwner' /\ SnapshotIsOurs' /\ DownWhenStopped'
      BY <1>8, <3>1, <3>2, <3>3, <3>5 DEF Accept
    <3>7. OnlyOurSockets'
      BY <3>1, <3>2, <3>3, <3>5
    <3>8. QED
      BY <3>4, <3>6, <3>7
  <2>3. QED
    BY <2>1, <2>2
<1>9. CASE Accepted
  <2>1. CASE running
    <3>1. /\ ShutAndClose({clientFd} \ {0}) /\ clientFd' = th.fd
          /\ th' = [pc |-> "inner", fd |-> 0, on |-> 0]
          /\ UNCHANGED <<running, listenFd, made, ours, backlog, main, starts>>
      BY <1>9, <2>1 DEF Accepted
    <3>2. th.fd \in Numbers /\ th.fd \notin Held /\ table[th.fd] \in ours
      BY <1>9 DEF Accepted
    <3>3. /\ table' \in [Numbers -> 0 .. Foreign] /\ shut' \subseteq 1 .. made
          /\ \A n \in {clientFd} \ {0} : table'[n] = 0
          /\ \A n \in Numbers \ ({clientFd} \ {0}) : table'[n] = table[n]
      BY <3>1, CloseEffect
    <3>4. TypeOK'
      BY <3>1, <3>2, <3>3, NumberTypes
    <3>5. OnlyOurSockets'
      BY <3>1, <3>2, <3>3
    <3>6. OneOwner'
      <4>1. Held' = {listenFd, th.fd} \ {0} /\ th'.pc # "accepted" /\ th.pc = "accepted"
        BY <1>9, <3>1 DEF Accepted
      <4>2. listenFd' # 0 => listenFd' # clientFd'
        BY <3>1, <3>2
      <4>3. ASSUME NEW n \in Numbers PROVE table'[n] \in {0, Foreign} \/ n \in Held'
        <5>1. CASE n \in {clientFd} \ {0}
          BY <3>3, <5>1
        <5>2. CASE n \notin {clientFd} \ {0}
          <6>1. table'[n] = table[n]
            BY <3>3, <5>2
          <6>2. table[n] \in {0, Foreign} \/ n \in Held \/ n = th.fd
            BY <4>1
          <6>3. n # 0 /\ Foreign' = Foreign
            BY NumberTypes DEF Foreign
          <6>4. QED
            BY <4>1, <5>2, <6>1, <6>2, <6>3
        <5>3. QED
          BY <5>1, <5>2
      <4>4. QED
        BY <4>1, <4>2, <4>3
    <3>7. OursAreMade' /\ SnapshotIsOurs' /\ DownWhenStopped'
      BY <2>1, <3>1
    <3>8. QED
      BY <3>4, <3>5, <3>6, <3>7
  <2>2. CASE ~running
    BY <1>9, <2>2, FinishStep DEF Accepted
  <2>3. QED
    BY <2>1, <2>2
<1>10. CASE Inner
  BY <1>10, NumberTypes DEF Inner
<1>11. CASE ToRead
  BY <1>11, NumberTypes DEF ToRead
<1>12. CASE Read
  BY <1>12, NumberTypes DEF Read
<1>13. CASE Lost
  <2>1. CASE clientFd = th.fd
    <3>1. /\ ShutAndClose({clientFd}) /\ clientFd' = 0
          /\ th' = [pc |-> "top", fd |-> 0, on |-> 0]
          /\ UNCHANGED <<running, listenFd, made, ours, backlog, main, starts>>
      BY <1>13, <2>1 DEF Lost
    <3>2. clientFd \in Numbers
      BY <1>13, <2>1 DEF Lost
    <3>3. /\ table' \in [Numbers -> 0 .. Foreign] /\ shut' \subseteq 1 .. made
          /\ table'[clientFd] = 0
          /\ \A n \in Numbers \ {clientFd} : table'[n] = table[n]
      BY <3>1, <3>2, CloseEffect
    <3>4. TypeOK'
      BY <3>1, <3>3, NumberTypes
    <3>5. OnlyOurSockets'
      BY <3>1, <3>2, <3>3
    <3>6. OneOwner'
      BY <1>13, <3>1, <3>2, <3>3 DEF Lost
    <3>7. OursAreMade' /\ SnapshotIsOurs' /\ DownWhenStopped'
      BY <1>13, <3>1 DEF Lost
    <3>8. QED
      BY <3>4, <3>5, <3>6, <3>7
  <2>2. CASE clientFd # th.fd
    BY <1>13, <2>2, NumberTypes DEF Lost
  <2>3. QED
    BY <2>1, <2>2
<1>14. CASE ClientComes
  BY <1>14 DEF ClientComes
<1>15. CASE UNCHANGED vars
  BY <1>15 DEF vars
<1>16. QED
  BY <1>1, <1>2, <1>3, <1>4, <1>5, <1>6, <1>7, <1>8, <1>9, <1>10, <1>11, <1>12, <1>13, <1>14,
     <1>15, Zenon DEF Next, Server

\* CommandServer uses no descriptor but its own and keeps none after stop(), whatever number
\* the system reuses and wherever stop() meets the thread outside the lock.
THEOREM ServerOwnsItsDescriptors == Spec => []DescriptorsAreOurs
<1>1. ServerInv => DescriptorsAreOurs
  BY DEF ServerInv, DescriptorsAreOurs, OnlyOurSockets, StopLeavesNoDescriptor, DownWhenStopped,
         OneOwner, Held
<1>2. QED
  BY <1>1, ServerInvInit, ServerInvNext, PTL DEF Spec

-----------------------------------------------------------------------------
(* The sink: the inductive invariant.                                      *)

\* The ticks since the last poll, or since before the first one that will be made.
SincePoll ==
    IF pc = "query" THEN 0
    ELSE IF pc = "rc" THEN (IF tick = 0 THEN PollEvery ELSE tick)
    ELSE (IF tick = 0 THEN PollEvery - 1 ELSE tick - 1)

\* A reply waits for the next poll at most, so it is a poll period old when it is taken;
\* and a poll that finds none clears a latch whose last reply is too long ago.
LatchInv ==
    /\ pc # "idle" => fd
    /\ pc = "query" => tick = 0
    /\ fd /\ reply # NoReply => reply.age <= SincePoll
    /\ fd /\ arm => replied <= Stale + SincePoll /\ age <= replied + PollEvery

SinkInv == SinkTypeOK /\ TornIsClosed /\ LatchInv

-----------------------------------------------------------------------------
(* Types.                                                                  *)

LEMMA MinPair ==
    ASSUME NEW a \in Nat, NEW b \in Nat
    PROVE  Min({a, b}) = IF a <= b THEN a ELSE b
<1> DEFINE m == IF a <= b THEN a ELSE b
<1>1. m \in {a, b} /\ \A y \in {a, b} : m <= y
  OBVIOUS
<1>2. \A x \in {a, b} : (\A y \in {a, b} : x <= y) => x = m
  OBVIOUS
<1> HIDE DEF m
<1>3. (CHOOSE x \in {a, b} : \A y \in {a, b} : x <= y) = m
  BY <1>1, <1>2, Zenon
<1>4. QED
  BY <1>3 DEF Min, m

Replies == [arm : BOOLEAN, age : 0 .. Long]

LEMMA LongType ==
    /\ Long \in Nat /\ Stale + 2 * PollEvery < Long
    /\ NoReply \notin Replies
BY SinkAssumption DEF Long, NoReply, Replies

\* An age grows by a tick until it is too large to tell.
LEMMA Ages ==
    ASSUME NEW a \in 0 .. Long
    PROVE  /\ Min({a + 1, Long}) \in 0 .. Long
           /\ Min({a + 1, Long}) = IF a + 1 <= Long THEN a + 1 ELSE Long
           /\ Min({a + 1, Long}) \in Nat /\ Min({a + 1, Long}) <= a + 1
<1>1. Min({a + 1, Long}) = IF a + 1 <= Long THEN a + 1 ELSE Long
  BY LongType, MinPair
<1>2. QED
  BY <1>1, LongType

LEMMA SincePollType ==
    ASSUME SinkTypeOK
    PROVE  SincePoll \in 0 .. PollEvery
BY SinkAssumption DEF SinkTypeOK, SincePoll

LEMMA SinkInvInit == SinkInit => SinkInv
<1> SUFFICES ASSUME SinkInit PROVE SinkInv
  OBVIOUS
<1>1. SinkTypeOK
  <2>1. 0 \in 0 .. Long /\ 0 \in 0 .. FrameLen - 1 /\ 0 \in 0 .. MaxNoProgress - 1
        /\ 0 \in 0 .. MaxTotal - 1 /\ 0 \in 0 .. PollEvery - 1
    BY LongType, SinkAssumption
  <2>2. QED
    BY <2>1, Zenon DEF SinkInit, SinkTypeOK
<1>2. LatchInv
  BY DEF SinkInit, LatchInv
<1>3. QED
  BY <1>1, <1>2 DEF SinkInv, SinkInit, TornIsClosed

-----------------------------------------------------------------------------
(* A tick begins: what is waited for gets older.                           *)

LEMMA WriteChannelsInv == SinkInv /\ WriteChannels => SinkInv'
<1> SUFFICES ASSUME SinkInv, WriteChannels PROVE SinkInv'
  OBVIOUS
<1>1. /\ replied \in 0 .. Long /\ age \in 0 .. Long /\ PollEvery \in Nat \ {0} /\ Stale \in Nat
      /\ tick \in 0 .. PollEvery - 1 /\ fd \in BOOLEAN /\ pc = "idle"
      /\ reply \in Replies \cup {NoReply}
  BY SinkAssumption DEF SinkInv, SinkTypeOK, Replies, WriteChannels
<1>2. /\ replied' = Min({replied + 1, Long}) /\ age' = Min({age + 1, Long})
      /\ pc' = IF fd THEN "rc" ELSE "idle"
      /\ UNCHANGED <<fd, off, noProgress, attempts, tick, asked, arm, torn>>
  BY DEF WriteChannels, frame
<1>3. /\ replied' \in 0 .. Long /\ replied' = IF replied + 1 <= Long THEN replied + 1 ELSE Long
      /\ age' \in 0 .. Long /\ age' = IF age + 1 <= Long THEN age + 1 ELSE Long
  BY <1>1, <1>2, Ages
<1>4. /\ reply = NoReply => reply' = NoReply
      /\ reply # NoReply => /\ reply \in Replies /\ reply' \in Replies
                            /\ reply'.age <= reply.age + 1
  <2>1. CASE reply = NoReply
    BY <2>1 DEF WriteChannels
  <2>2. CASE reply # NoReply
    <3> DEFINE older == Min({reply.age + 1, Long})
    <3>1. reply \in Replies /\ reply.age \in 0 .. Long
      BY <1>1, <2>2 DEF Replies
    <3>2. older \in 0 .. Long /\ older <= reply.age + 1
      BY <3>1, Ages, LongType
    <3>3. reply' = [reply EXCEPT !.age = older]
      BY <2>2, <3>1 DEF WriteChannels, Replies
    <3> HIDE DEF older
    <3>4. QED
      BY <2>2, <3>1, <3>2, <3>3 DEF Replies
  <2>3. QED
    BY <2>1, <2>2
<1>5. SinkTypeOK'
  BY <1>1, <1>2, <1>3, <1>4 DEF SinkInv, SinkTypeOK, Replies
<1>6. fd => SincePoll' = SincePoll + 1
  BY <1>1, <1>2 DEF SincePoll
<1>7. LatchInv'
  <2>1. fd /\ reply # NoReply => reply.age <= SincePoll
    BY DEF SinkInv, LatchInv
  <2>2. fd /\ arm => replied <= Stale + SincePoll /\ age <= replied + PollEvery
    BY DEF SinkInv, LatchInv
  <2>3. SincePoll \in Nat
    BY SincePollType DEF SinkInv
  <2>4. (fd /\ reply # NoReply => reply.age <= SincePoll)'
    <3>1. SUFFICES ASSUME fd, reply # NoReply PROVE reply'.age <= SincePoll'
      BY <1>2, <1>4, LongType
    <3>2. reply.age \in Nat /\ reply'.age \in Nat
      BY <1>4, <3>1, LongType DEF Replies
    <3>3. QED
      BY <1>4, <1>6, <2>1, <2>3, <3>1, <3>2
  <2>5. (fd /\ arm => replied <= Stale + SincePoll /\ age <= replied + PollEvery)'
    <3>1. ASSUME fd, arm
          PROVE  replied' <= Stale + SincePoll' /\ age' <= replied' + PollEvery
      <4>1. replied' \in Nat /\ replied' <= replied + 1
        BY <1>1, <1>2, Ages
      <4>2. age' <= replied' + PollEvery
        BY <1>1, <1>3, <2>2, <3>1, LongType
      <4>3. replied' <= Stale + (SincePoll + 1)
        BY <1>1, <2>2, <2>3, <3>1, <4>1
      <4>4. SincePoll' = SincePoll + 1
        BY <1>6, <3>1
      <4>5. QED
        BY <4>2, <4>3, <4>4, Zenon
    <3>2. (fd' <=> fd) /\ (arm' <=> arm)
      BY <1>2
    <3>3. QED
      BY <3>1, <3>2
  <2>6. QED
    BY <1>2, <2>4, <2>5 DEF LatchInv
<1>8. QED
  BY <1>2, <1>5, <1>7 DEF SinkInv, TornIsClosed

-----------------------------------------------------------------------------
(* A write ends the frame, closes the line, or is tried again.             *)

LEMMA EndTickStep ==
    ASSUME SinkTypeOK, EndTick, pc # "idle"
    PROVE  /\ pc' = "idle" /\ tick' \in 0 .. PollEvery - 1
           /\ (pc = "query" => tick = 0) /\ ~(pc = "rc" /\ tick = 0) => SincePoll' = SincePoll
<1>1. /\ pc' = "idle" /\ tick' = (tick + 1) % PollEvery /\ tick \in 0 .. PollEvery - 1
      /\ PollEvery \in Nat \ {0} /\ pc \in {"rc", "query"}
  BY SinkAssumption DEF EndTick, SinkTypeOK
<1>2. tick' = IF tick + 1 = PollEvery THEN 0 ELSE tick + 1
  <2>1. CASE tick + 1 = PollEvery
    BY <1>1, <2>1
  <2>2. CASE tick + 1 # PollEvery
    BY <1>1, <2>2
  <2>3. QED
    BY <2>1, <2>2
<1>3. QED
  BY <1>1, <1>2 DEF SincePoll

\* A line that is closed stays closed, and nothing is claimed of its latch.
LEMMA ClosedInv ==
    ASSUME SinkInv, pc # "idle", fd' = FALSE, torn' \in BOOLEAN,
           NewFrame, EndTick, UNCHANGED <<asked, reply, latch>>
    PROVE  SinkInv'
<1>1. pc' = "idle" /\ tick' \in 0 .. PollEvery - 1
  BY EndTickStep DEF SinkInv
<1>2. SinkTypeOK'
  <2>1. /\ off' \in 0 .. FrameLen - 1 /\ noProgress' \in 0 .. MaxNoProgress - 1
        /\ attempts' \in 0 .. MaxTotal - 1
    BY SinkAssumption DEF NewFrame
  <2>2. UNCHANGED <<asked, reply, arm, replied, age>>
    BY DEF latch
  <2>3. fd' \in BOOLEAN
    BY Zenon
  <2>4. QED
    BY <1>1, <2>1, <2>2, <2>3 DEF SinkInv, SinkTypeOK
<1>3. QED
  BY <1>1, <1>2 DEF SinkInv, LatchInv, TornIsClosed

LEMMA WrittenInv == SinkInv /\ pc # "idle" /\ Written => SinkInv'
<1> SUFFICES ASSUME SinkInv, pc # "idle", Written PROVE SinkInv'
  OBVIOUS
<1>1. /\ SinkTypeOK /\ fd /\ NewFrame /\ fd' = fd /\ torn' = torn
      /\ SincePoll \in 0 .. PollEvery /\ PollEvery \in Nat /\ Stale \in Nat
  BY SincePollType, SinkAssumption DEF SinkInv, LatchInv, Written
<1>2. CASE pc = "rc" /\ tick = 0
  <2>1. Poll /\ pc' = "query" /\ tick' = tick /\ asked' = asked
    BY <1>2 DEF Written
  <2>2. SincePoll = PollEvery /\ SincePoll' = 0
    BY <1>2, <2>1 DEF SincePoll
  <2>3. reply' = NoReply
    BY <2>1 DEF Poll
  <2>4. CASE reply = NoReply
    <3>1. /\ arm' = (arm /\ replied <= Stale) /\ age' = age /\ replied' = replied
      BY <2>1, <2>4 DEF Poll
    <3>2. arm' \in BOOLEAN
      BY <3>1
    <3>3. SinkTypeOK'
      BY <1>1, <2>1, <2>3, <3>1, <3>2, SinkAssumption DEF SinkTypeOK, NewFrame
    <3>4. arm' => replied' <= Stale + SincePoll' /\ age' <= replied' + PollEvery
      <4>1. SUFFICES ASSUME arm, replied <= Stale
                     PROVE  replied <= Stale + 0 /\ age <= replied + PollEvery
        BY <2>2, <3>1
      <4>2. QED
        BY <1>1, <4>1 DEF SinkInv, LatchInv, SinkTypeOK
    <3>5. QED
      BY <1>1, <1>2, <2>1, <2>3, <3>3, <3>4 DEF SinkInv, LatchInv, TornIsClosed
  <2>5. CASE reply # NoReply
    <3>1. arm' = reply.arm /\ age' = reply.age /\ replied' = 0
      BY <2>1, <2>5 DEF Poll
    <3>2. reply \in Replies
      BY <1>1, <2>5 DEF SinkTypeOK, Replies
    <3>3. reply.age <= PollEvery /\ reply.age \in 0 .. Long /\ reply.arm \in BOOLEAN
      BY <1>1, <2>2, <2>5, <3>2 DEF SinkInv, LatchInv, Replies
    <3>4. SinkTypeOK'
      BY <1>1, <2>1, <2>3, <3>1, <3>3, LongType, SinkAssumption DEF SinkTypeOK, NewFrame
    <3>5. QED
      BY <1>1, <1>2, <2>1, <2>2, <2>3, <3>1, <3>3, <3>4 DEF SinkInv, LatchInv, TornIsClosed
  <2>6. QED
    BY <2>4, <2>5
<1>3. CASE ~(pc = "rc" /\ tick = 0)
  <2>1. EndTick /\ asked' = (asked \/ pc = "query") /\ UNCHANGED <<arm, replied, age, reply>>
    BY <1>3 DEF Written, latch
  <2>2. /\ pc' = "idle" /\ tick' \in 0 .. PollEvery - 1 /\ SincePoll' = SincePoll
    BY <1>1, <1>3, <2>1, EndTickStep DEF SinkInv, LatchInv
  <2>3. asked' \in BOOLEAN
    BY <2>1
  <2>4. SinkTypeOK'
    BY <1>1, <2>1, <2>2, <2>3, SinkAssumption DEF SinkTypeOK, NewFrame
  <2>5. QED
    BY <1>1, <2>1, <2>2, <2>4 DEF SinkInv, LatchInv, TornIsClosed
<1>4. QED
  BY <1>2, <1>3

\* Another write of the same frame.
LEMMA AgainInv ==
    ASSUME SinkInv, off' \in 0 .. FrameLen - 1,
           noProgress' \in 0 .. MaxNoProgress - 1, attempts' \in 0 .. MaxTotal - 1,
           UNCHANGED <<pc, fd, tick, asked, reply, latch, torn>>
    PROVE  SinkInv'
<1>1. SinkTypeOK'
  BY DEF SinkInv, SinkTypeOK, latch
<1>2. SincePoll' = SincePoll
  BY DEF SincePoll
<1>3. QED
  BY <1>1, <1>2 DEF SinkInv, LatchInv, TornIsClosed, latch

LEMMA GiveUpInv == SinkInv /\ pc # "idle" /\ GiveUp => SinkInv'
<1> SUFFICES ASSUME SinkInv, pc # "idle", GiveUp PROVE SinkInv'
  OBVIOUS
<1>1. torn' \in BOOLEAN
  BY DEF GiveUp
<1>2. QED
  BY <1>1, ClosedInv DEF GiveUp

LEMMA WriteInv == SinkInv /\ Write => SinkInv'
<1> SUFFICES ASSUME SinkInv, Write PROVE SinkInv'
  OBVIOUS
<1>1. /\ pc # "idle" /\ off \in 0 .. FrameLen - 1 /\ FrameLen \in Nat \ {0}
      /\ noProgress \in 0 .. MaxNoProgress - 1 /\ attempts \in 0 .. MaxTotal - 1
      /\ MaxNoProgress \in Nat \ {0} /\ MaxTotal \in Nat \ {0}
  BY SinkAssumption DEF Write, SinkInv, SinkTypeOK
<1>2. ASSUME NEW n \in 1 .. FrameLen - off, Progress(n) PROVE SinkInv'
  <2>1. CASE off + n = FrameLen
    BY <1>1, <1>2, <2>1, WrittenInv DEF Progress
  <2>2. CASE off + n # FrameLen /\ attempts + 1 = MaxTotal
    BY <1>1, <1>2, <2>2, ClosedInv DEF Progress
  <2>3. CASE off + n # FrameLen /\ attempts + 1 # MaxTotal
    <3>1. /\ off' = off + n /\ noProgress' = 0 /\ attempts' = attempts + 1
          /\ UNCHANGED <<pc, fd, tick, asked, reply, latch, torn>>
      BY <1>2, <2>3 DEF Progress
    <3>2. QED
      BY <1>1, <2>3, <3>1, AgainInv
  <2>4. QED
    BY <2>1, <2>2, <2>3
<1>3. CASE Blocked
  <2>1. CASE noProgress + 1 = MaxNoProgress \/ attempts + 1 = MaxTotal
    BY <1>1, <1>3, <2>1, GiveUpInv DEF Blocked
  <2>2. CASE ~(noProgress + 1 = MaxNoProgress \/ attempts + 1 = MaxTotal)
    <3>1. /\ off' = off /\ noProgress' = noProgress + 1 /\ attempts' = attempts + 1
          /\ UNCHANGED <<pc, fd, tick, asked, reply, latch, torn>>
      BY <1>3, <2>2 DEF Blocked
    <3>2. QED
      BY <1>1, <2>2, <3>1, AgainInv
  <2>3. QED
    BY <2>1, <2>2
<1>4. CASE GiveUp
  BY <1>1, <1>4, GiveUpInv
<1>5. QED
  BY <1>2, <1>3, <1>4 DEF Write

LEMMA BetaflightInv == SinkInv /\ (Answer \/ LoseQuery) => SinkInv'
<1> SUFFICES ASSUME SinkInv, Answer \/ LoseQuery PROVE SinkInv'
  OBVIOUS
<1>1. /\ asked' = FALSE
      /\ UNCHANGED <<pc, fd, off, noProgress, attempts, tick, arm, replied, age, torn>>
  BY DEF Answer, LoseQuery, frame, latch
<1>2. reply' = reply \/ (reply' \in Replies /\ reply'.age = 0)
  BY LongType DEF Answer, LoseQuery, Replies
<1>3. SincePoll' = SincePoll /\ SincePoll \in Nat
  BY <1>1, SincePollType DEF SincePoll, SinkInv
<1>4. SinkTypeOK'
  BY <1>1, <1>2 DEF SinkInv, SinkTypeOK, Replies
<1>5. QED
  BY <1>1, <1>2, <1>3, <1>4 DEF SinkInv, LatchInv, TornIsClosed

LEMMA SinkInvNext == SinkInv /\ [SinkNext]_sinkVars => SinkInv'
<1>1. SinkInv /\ UNCHANGED sinkVars => SinkInv'
  BY DEF sinkVars, SinkInv, SinkTypeOK, LatchInv, TornIsClosed, SincePoll
<1>2. QED
  BY <1>1, WriteChannelsInv, WriteInv, BetaflightInv DEF SinkNext

-----------------------------------------------------------------------------
\* However write() stalls, every counter of the sink stays within the bound that
\* write_frame_ gives it.
THEOREM SinkTypeCorrect == SinkSpec => []SinkTypeOK
<1>1. SinkInv => SinkTypeOK
  BY DEF SinkInv, NoFrameInAnother
<1>2. (SinkInit => SinkInv) /\ (SinkInv /\ [SinkNext]_sinkVars => SinkInv')
  BY SinkInvInit, SinkInvNext
<1>3. QED
  BY <1>1, <1>2, PTL DEF SinkSpec

\* A frame that write_frame_ cut off is the last on its line: Betaflight never takes
\* the end of one frame of channels for a part of another.
THEOREM FramesStayApart == SinkSpec => []NoFrameInAnother
<1>1. SinkInv => NoFrameInAnother
  BY DEF SinkInv, NoFrameInAnother
<1>2. (SinkInit => SinkInv) /\ (SinkInv /\ [SinkNext]_sinkVars => SinkInv')
  BY SinkInvInit, SinkInvNext
<1>3. QED
  BY <1>1, <1>2, PTL DEF SinkSpec

\* However many queries and replies are lost, an arm switch that poll_msp_rc_ still
\* reports as on was on within the age threshold and two poll periods.
THEOREM ArmSwitchDoesNotLinger == SinkSpec => []ArmSwitchIsRecent
<1>1. SinkInv => ArmSwitchIsRecent
  <2> SUFFICES ASSUME SinkInv, fd, arm PROVE age <= Stale + 2 * PollEvery
    BY DEF ArmSwitchIsRecent
  <2>1. SincePoll \in 0 .. PollEvery
    BY SincePollType DEF SinkInv
  <2>2. replied <= Stale + SincePoll /\ age <= replied + PollEvery
    BY DEF SinkInv, LatchInv
  <2>3. /\ replied \in Nat /\ age \in Nat /\ Stale \in Nat /\ PollEvery \in Nat
    BY LongType, SinkAssumption DEF SinkInv, SinkTypeOK
  <2>4. QED
    BY <2>1, <2>2, <2>3
<1>2. (SinkInit => SinkInv) /\ (SinkInv /\ [SinkNext]_sinkVars => SinkInv')
  BY SinkInvInit, SinkInvNext
<1>3. QED
  BY <1>1, <1>2, PTL DEF SinkSpec

=============================================================================
