---------------------------- MODULE CmdLink_proofs ----------------------------
(* Theorems about the command link, for every value of the constants. *)
EXTENDS MCCmdLink, SequenceTheorems, TLAPS

-----------------------------------------------------------------------------
(* The connections, as the actions change them.                            *)

Frame(i, j) == conns[i].wire[j]

ConnsOK ==
    /\ conns \in Seq(Conns) /\ Len(conns) <= MaxConns
    /\ \A i \in DOMAIN conns : Len(conns[i].wire) <= MaxWire

\* The frames of the next state are frames of this one, in their order: a connections and
\* then b frames have gone at the front.
Remain(a, b) ==
    \A i \in DOMAIN conns' : \A j \in DOMAIN conns'[i].wire :
        LET k == IF i = 1 THEN j + b ELSE j
        IN  /\ i + a \in DOMAIN conns /\ k \in DOMAIN conns[i + a].wire
            /\ Frame(i, j)' = Frame(i + a, k)

LEMMA ConnType ==
    ASSUME ConnsOK, NEW i \in DOMAIN conns
    PROVE  /\ Len(conns) \in Nat /\ DOMAIN conns = 1 .. Len(conns) /\ i \in 1 .. Len(conns)
           /\ conns[i] \in Conns /\ conns[i].wire \in Seq(Cmds)
           /\ Len(conns[i].wire) \in 0 .. MaxWire
           /\ DOMAIN conns[i].wire = 1 .. Len(conns[i].wire)
           /\ \A j \in DOMAIN conns[i].wire : Frame(i, j) \in Cmds
<1>1. Len(conns) \in Nat /\ DOMAIN conns = 1 .. Len(conns)
  BY LenProperties DEF ConnsOK
<1>2. conns[i] \in Conns
  BY <1>1, ElementOfSeq DEF ConnsOK
<1>3. conns[i].wire \in Seq(Cmds)
  BY <1>2 DEF Conns
<1>4. Len(conns[i].wire) \in Nat /\ DOMAIN conns[i].wire = 1 .. Len(conns[i].wire)
  BY <1>3, LenProperties
<1>5. \A j \in DOMAIN conns[i].wire : Frame(i, j) \in Cmds
  BY <1>3, <1>4, ElementOfSeq DEF Frame
<1>6. QED
  BY <1>1, <1>2, <1>3, <1>4, <1>5, CmdLinkAssumption DEF ConnsOK

LEMMA ConnectFrames ==
    ASSUME ConnsOK, Len(conns) < MaxConns,
           conns' = Append(conns, [wire |-> <<>>, open |-> TRUE])
    PROVE  /\ ConnsOK' /\ Remain(0, 0)
           /\ Len(conns') \in Nat \ {0} /\ conns' # <<>> /\ conns'[Len(conns')].open
<1> DEFINE c == [wire |-> <<>>, open |-> TRUE]
<1>1. c \in Conns /\ Len(c.wire) = 0 /\ DOMAIN c.wire = {}
  BY EmptySeq DEF Conns
<1>2. /\ conns' \in Seq(Conns) /\ Len(conns') = Len(conns) + 1 /\ conns' # <<>>
      /\ \A i \in 1 .. Len(conns) : conns'[i] = conns[i]
      /\ conns'[Len(conns) + 1] = c
  BY <1>1, AppendProperties DEF ConnsOK
<1>3. Len(conns) \in Nat /\ DOMAIN conns = 1 .. Len(conns) /\ DOMAIN conns' = 1 .. Len(conns) + 1
  BY <1>2, LenProperties DEF ConnsOK
<1>4. \A i \in DOMAIN conns' : i \in DOMAIN conns \/ i = Len(conns) + 1
  BY <1>3
<1>5. ConnsOK'
  BY <1>1, <1>2, <1>3, <1>4, CmdLinkAssumption DEF ConnsOK
<1>6. Remain(0, 0)
  <2> SUFFICES ASSUME NEW i \in DOMAIN conns', NEW j \in DOMAIN conns'[i].wire
               PROVE  i \in DOMAIN conns /\ conns'[i] = conns[i] /\ i \in Int /\ j \in Int
    <3>1. ASSUME NEW i \in DOMAIN conns', NEW j \in DOMAIN conns'[i].wire
          PROVE  LET k == IF i = 1 THEN j + 0 ELSE j
                 IN  /\ i + 0 \in DOMAIN conns /\ k \in DOMAIN conns[i + 0].wire
                     /\ Frame(i, j)' = Frame(i + 0, k)
      <4>1. i \in DOMAIN conns /\ conns'[i] = conns[i] /\ i + 0 = i /\ j + 0 = j
        BY <3>1
      <4>2. QED
        BY <4>1 DEF Frame
    <3>2. QED
      BY <3>1 DEF Remain
  <2>1. i \in DOMAIN conns /\ conns'[i] = conns[i]
    BY <1>1, <1>2, <1>3, <1>4
  <2>2. DOMAIN conns[i].wire \subseteq Int
    BY <2>1, ConnType
  <2>3. QED
    BY <1>3, <2>1, <2>2
<1>7. QED
  BY <1>1, <1>2, <1>3, <1>5, <1>6

\* One connection changes, in place.
LEMMA ReplaceConn ==
    ASSUME ConnsOK, NEW i \in DOMAIN conns, NEW c \in Conns, Len(c.wire) <= MaxWire,
           conns' = [conns EXCEPT ![i] = c]
    PROVE  /\ ConnsOK' /\ Len(conns') = Len(conns) /\ DOMAIN conns' = DOMAIN conns
           /\ conns'[i] = c
           /\ \A k \in DOMAIN conns \ {i} : conns'[k] = conns[k]
<1>1. Len(conns) \in Nat /\ DOMAIN conns = 1 .. Len(conns)
  BY LenProperties DEF ConnsOK
<1>2. /\ conns' \in Seq(Conns) /\ Len(conns') = Len(conns)
      /\ \A k \in 1 .. Len(conns) : conns'[k] = IF k = i THEN c ELSE conns[k]
  BY <1>1, ExceptSeq DEF ConnsOK
<1>3. DOMAIN conns' = DOMAIN conns
  BY <1>1, <1>2, LenProperties
<1>4. QED
  BY <1>1, <1>2, <1>3 DEF ConnsOK

LEMMA ReadFrames ==
    ASSUME ConnsOK, 1 \in DOMAIN conns, conns[1].wire # <<>>,
           conns' = [conns EXCEPT ![1].wire = Tail(@)]
    PROVE  /\ ConnsOK' /\ Remain(0, 1)
           /\ Len(conns') = Len(conns) /\ \A i \in DOMAIN conns : conns'[i].open = conns[i].open
           /\ 1 \in DOMAIN conns[1].wire /\ Head(conns[1].wire) = Frame(1, 1)
<1> DEFINE w == Tail(conns[1].wire)
           c == [conns[1] EXCEPT !.wire = w]
<1>1. /\ conns[1].wire \in Seq(Cmds) /\ conns[1] \in Conns /\ Len(conns[1].wire) \in 0 .. MaxWire
      /\ DOMAIN conns[1].wire = 1 .. Len(conns[1].wire) /\ DOMAIN conns \subseteq Nat
  BY ConnType
<1>2. /\ w \in Seq(Cmds) /\ Len(w) = Len(conns[1].wire) - 1
      /\ \A j \in 1 .. Len(w) : w[j] = conns[1].wire[j + 1]
  BY <1>1, HeadTailProperties
<1>3. DOMAIN w = 1 .. Len(w) /\ Len(w) \in Nat
  BY <1>2, LenProperties
<1> HIDE DEF w
<1>4. c \in Conns /\ c.wire = w /\ c.open = conns[1].open
  BY <1>1, <1>2 DEF Conns
<1>5. conns' = [conns EXCEPT ![1] = c] /\ Len(c.wire) <= MaxWire
  BY <1>1, <1>2, <1>3, <1>4, CmdLinkAssumption DEF w
<1> HIDE DEF c
<1>6. /\ ConnsOK' /\ Len(conns') = Len(conns) /\ DOMAIN conns' = DOMAIN conns /\ conns'[1] = c
      /\ \A k \in DOMAIN conns \ {1} : conns'[k] = conns[k]
  BY <1>4, <1>5, ReplaceConn
<1>7. ASSUME NEW i \in DOMAIN conns', NEW j \in DOMAIN conns'[i].wire
      PROVE  LET k == IF i = 1 THEN j + 1 ELSE j
             IN  /\ i + 0 \in DOMAIN conns /\ k \in DOMAIN conns[i + 0].wire
                 /\ Frame(i, j)' = Frame(i + 0, k)
  <2>1. i + 0 = i /\ i \in DOMAIN conns
    BY <1>1, <1>6
  <2>2. CASE i = 1
    <3>1. j \in 1 .. Len(w) /\ conns'[i].wire = w
      BY <1>3, <1>4, <1>6, <2>2
    <3>2. j + 1 \in DOMAIN conns[1].wire /\ w[j] = conns[1].wire[j + 1]
      BY <1>1, <1>2, <3>1
    <3>3. QED
      BY <2>1, <2>2, <3>1, <3>2 DEF Frame
  <2>3. CASE i # 1
    BY <1>6, <2>1, <2>3 DEF Frame
  <2>4. QED
    BY <2>2, <2>3
<1>8. 1 \in DOMAIN conns[1].wire /\ Head(conns[1].wire) = Frame(1, 1)
  BY <1>1, EmptySeq DEF Frame
<1>9. QED
  BY <1>4, <1>6, <1>7, <1>8 DEF Remain

LEMMA EndFrames ==
    ASSUME ConnsOK, conns # <<>>, conns' = Tail(conns)
    PROVE  /\ ConnsOK' /\ Remain(1, 0)
           /\ Len(conns') = Len(conns) - 1
           /\ \A i \in DOMAIN conns' : i + 1 \in DOMAIN conns /\ conns'[i] = conns[i + 1]
<1>1. Len(conns) \in Nat /\ DOMAIN conns = 1 .. Len(conns)
  BY LenProperties DEF ConnsOK
<1>2. /\ conns' \in Seq(Conns) /\ Len(conns') = Len(conns) - 1
      /\ \A i \in 1 .. Len(conns') : conns'[i] = conns[i + 1]
  BY HeadTailProperties DEF ConnsOK
<1>3. DOMAIN conns' = 1 .. Len(conns')
  BY <1>2, LenProperties
<1>4. \A i \in DOMAIN conns' : i \in Int /\ i + 1 \in DOMAIN conns /\ conns'[i] = conns[i + 1]
  BY <1>1, <1>2, <1>3
<1>5. ConnsOK'
  BY <1>1, <1>2, <1>4, CmdLinkAssumption DEF ConnsOK
<1>6. ASSUME NEW i \in DOMAIN conns', NEW j \in DOMAIN conns'[i].wire
      PROVE  LET k == IF i = 1 THEN j + 0 ELSE j
             IN  /\ i + 1 \in DOMAIN conns /\ k \in DOMAIN conns[i + 1].wire
                 /\ Frame(i, j)' = Frame(i + 1, k)
  <2>1. DOMAIN conns[i + 1].wire \subseteq Int
    BY <1>4, ConnType
  <2>2. j + 0 = j
    BY <1>4, <2>1
  <2>3. QED
    BY <1>4, <2>2 DEF Frame
<1>7. QED
  BY <1>2, <1>4, <1>5, <1>6 DEF Remain

LEMMA CutFrames ==
    ASSUME ConnsOK, NEW i \in DOMAIN conns, NEW k \in 0 .. Len(conns[i].wire),
           NEW open \in BOOLEAN, conns' = Cut(i, k, open)
    PROVE  /\ ConnsOK' /\ Remain(0, 0)
           /\ Len(conns') = Len(conns) /\ DOMAIN conns' = DOMAIN conns
           /\ \A m \in DOMAIN conns \ {i} : conns'[m] = conns[m]
<1> DEFINE w == SubSeq(conns[i].wire, 1, k)
           c == [wire |-> w, open |-> open]
<1>1. /\ conns[i].wire \in Seq(Cmds) /\ Len(conns[i].wire) \in 0 .. MaxWire
      /\ DOMAIN conns[i].wire = 1 .. Len(conns[i].wire) /\ DOMAIN conns \subseteq Nat
      /\ k \in Nat /\ k <= MaxWire
      /\ \A j \in 1 .. k : j \in DOMAIN conns[i].wire
  BY ConnType, CmdLinkAssumption
<1>2. \A j \in 1 .. k : conns[i].wire[j] \in Cmds
  BY <1>1, ElementOfSeq
<1>3. /\ w \in Seq(Cmds) /\ Len(w) = k /\ DOMAIN w = 1 .. k
      /\ \A j \in 1 .. k : w[j] = conns[i].wire[j]
  <2>1. /\ w \in Seq(Cmds) /\ Len(w) = IF 1 <= k THEN k - 1 + 1 ELSE 0
        /\ \A j \in 1 .. k - 1 + 1 : w[j] = conns[i].wire[1 + j - 1]
    BY <1>1, <1>2, SubSeqProperties
  <2>2. Len(w) = k
    BY <1>1, <2>1
  <2>3. DOMAIN w = 1 .. k
    BY <2>1, <2>2, LenProperties
  <2>4. ASSUME NEW j \in 1 .. k PROVE w[j] = conns[i].wire[j]
    <3> HIDE DEF w
    <3>1. j \in 1 .. k - 1 + 1 /\ 1 + j - 1 = j
      BY <1>1
    <3>2. QED
      BY <2>1, <3>1
  <2>5. QED
    BY <2>1, <2>2, <2>3, <2>4
<1> HIDE DEF w
<1>4. c \in Conns /\ c.wire = w
  BY <1>3 DEF Conns
<1>5. conns' = [conns EXCEPT ![i] = c]
  BY DEF Cut, w
<1> HIDE DEF c
<1>6. /\ ConnsOK' /\ Len(conns') = Len(conns) /\ DOMAIN conns' = DOMAIN conns /\ conns'[i] = c
      /\ \A m \in DOMAIN conns \ {i} : conns'[m] = conns[m]
  BY <1>1, <1>3, <1>4, <1>5, ReplaceConn
<1>7. ASSUME NEW m \in DOMAIN conns', NEW j \in DOMAIN conns'[m].wire
      PROVE  LET n == IF m = 1 THEN j + 0 ELSE j
             IN  /\ m + 0 \in DOMAIN conns /\ n \in DOMAIN conns[m + 0].wire
                 /\ Frame(m, j)' = Frame(m + 0, n)
  <2>1. m + 0 = m /\ m \in DOMAIN conns
    BY <1>1, <1>6
  <2>2. j \in DOMAIN conns[m].wire /\ Frame(m, j)' = Frame(m, j)
    BY <1>1, <1>3, <1>4, <1>6, <2>1 DEF Frame
  <2>3. DOMAIN conns[m].wire \subseteq Int
    BY <2>1, ConnType
  <2>4. j + 0 = j
    BY <2>2, <2>3
  <2>5. QED
    BY <2>1, <2>2, <2>4
<1>8. QED
  BY <1>6, <1>7 DEF Remain

\* A frame goes to the end of the last connection, behind every other one.
LEMMA SendFrames ==
    ASSUME ConnsOK, conns # <<>>, Len(conns[Len(conns)].wire) < MaxWire, NEW cmd \in Cmds,
           conns' = [conns EXCEPT ![Len(conns)].wire = Append(@, cmd)]
    PROVE  /\ ConnsOK' /\ Len(conns') = Len(conns) /\ DOMAIN conns' = DOMAIN conns
           /\ \A i \in DOMAIN conns : conns'[i].open = conns[i].open
           /\ \A i \in DOMAIN conns' : \A j \in DOMAIN conns'[i].wire :
                 \/ j \in DOMAIN conns[i].wire /\ Frame(i, j)' = Frame(i, j)
                 \/ /\ i = Len(conns) /\ j = Len(conns[i].wire) + 1
                    /\ Frame(i, j)' = cmd
<1> DEFINE l == Len(conns)
           w == Append(conns[l].wire, cmd)
           c == [conns[l] EXCEPT !.wire = w]
<1>1. l \in DOMAIN conns
  BY LenProperties, EmptySeq DEF ConnsOK
<1>2. /\ conns[l].wire \in Seq(Cmds) /\ conns[l] \in Conns /\ Len(conns[l].wire) \in Nat
      /\ DOMAIN conns[l].wire = 1 .. Len(conns[l].wire)
  BY <1>1, ConnType, CmdLinkAssumption
<1>3. /\ w \in Seq(Cmds) /\ Len(w) = Len(conns[l].wire) + 1
      /\ \A j \in 1 .. Len(conns[l].wire) : w[j] = conns[l].wire[j]
      /\ w[Len(conns[l].wire) + 1] = cmd
  BY <1>2, AppendProperties
<1>4. DOMAIN w = 1 .. Len(conns[l].wire) + 1
  BY <1>3, LenProperties
<1> HIDE DEF w
<1>5. c \in Conns /\ c.wire = w /\ c.open = conns[l].open
  BY <1>2, <1>3 DEF Conns
<1>6. conns' = [conns EXCEPT ![l] = c] /\ Len(c.wire) <= MaxWire
  BY <1>2, <1>3, <1>5, CmdLinkAssumption DEF w
<1> HIDE DEF c
<1>7. /\ ConnsOK' /\ Len(conns') = l /\ DOMAIN conns' = DOMAIN conns /\ conns'[l] = c
      /\ \A i \in DOMAIN conns \ {l} : conns'[i] = conns[i]
  BY <1>1, <1>5, <1>6, ReplaceConn
<1> HIDE DEF l
<1>8. ASSUME NEW i \in DOMAIN conns', NEW j \in DOMAIN conns'[i].wire
      PROVE  \/ j \in DOMAIN conns[i].wire /\ Frame(i, j)' = Frame(i, j)
             \/ i = l /\ j = Len(conns[i].wire) + 1 /\ Frame(i, j)' = cmd
  BY <1>2, <1>3, <1>4, <1>5, <1>7 DEF Frame
<1>9. QED
  BY <1>5, <1>7, <1>8 DEF l
-----------------------------------------------------------------------------
(* Type correctness.                                                       *)

LEMMA SeqTypes ==
    /\ SeqMod \in Nat \ {0} /\ 0 \in Seqs /\ NoSeq \notin Seqs /\ Seqs \subseteq Nat
    /\ \A s \in Int : s % SeqMod \in Seqs
    /\ 0 \in 0 .. MaxCmds /\ 0 \in 0 .. MaxBehind /\ 0 \in 0 .. MaxFaults
    /\ NoCmd \notin Cmds
BY SeqModAssumption, CmdLinkAssumption DEF Seqs, NoSeq, NoCmd, Cmds

LEMMA ReserveType ==
    ASSUME TypeOK, Reserve
    PROVE  /\ nextSeq' \in Seqs /\ built' \in 1 .. MaxCmds
           /\ [n |-> built', seq |-> nextSeq] \in Cmds
<1>1. nextSeq \in Seqs /\ nextSeq \in Int /\ nextSeq + 1 \in Int
  BY SeqTypes DEF TypeOK
<1>2. nextSeq' \in Seqs
  BY <1>1, SeqTypes DEF Reserve, SeqNext
<1>3. built' \in 1 .. MaxCmds
  BY CmdLinkAssumption DEF TypeOK, Reserve
<1>4. QED
  BY <1>1, <1>2, <1>3 DEF Cmds

LEMMA FaultType ==
    ASSUME TypeOK, Fault
    PROVE  faults' \in 0 .. MaxFaults
BY CmdLinkAssumption DEF TypeOK, Fault

LEMMA NoConns ==
    /\ <<>> \in Seq(Conns) /\ Len(<<>>) = 0 /\ 0 <= MaxConns
    /\ DOMAIN <<>> = {}
BY EmptySeq, CmdLinkAssumption

LEMMA ConnsTyped == TypeOK => ConnsOK
BY DEF TypeOK, ConnsOK

LEMMA ServedConn ==
    ASSUME TypeOK, conns # <<>>
    PROVE  1 \in DOMAIN conns /\ Len(conns) \in DOMAIN conns /\ Len(conns) \in Nat
           /\ DOMAIN conns = 1 .. Len(conns)
BY LenProperties, EmptySeq DEF TypeOK

LEMMA TypeInit == Init => TypeOK
<1> SUFFICES ASSUME Init PROVE TypeOK
  OBVIOUS
<1>1. nextSeq \in Seqs
  BY CmdLinkAssumption DEF Init
<1>2. conns \in Seq(Conns) /\ Len(conns) <= MaxConns /\ DOMAIN conns = {}
  BY NoConns DEF Init
<1>3. QED
  BY <1>1, <1>2, SeqTypes DEF Init, TypeOK

LEMMA TypeStep ==
    ASSUME TypeOK, [Next]_vars
    PROVE  TypeOK'
<1>0. ConnsOK
  BY ConnsTyped
<1> USE DEF backend, loop
<1>1. CASE Connect
  <2>1. /\ ConnsOK' /\ conns' # <<>> /\ conns'[Len(conns')].open
    BY <1>0, <1>1, ConnectFrames DEF Connect
  <2>2. QED
    BY <1>1, <2>1 DEF Connect, TypeOK, ConnsOK
<1>2. CASE SendTick
  <2>1. conns # <<>> /\ conns[Len(conns)].open
    BY <1>2 DEF SendTick, TypeOK
  <2>2. /\ nextSeq' \in Seqs /\ built' \in 1 .. MaxCmds
        /\ [n |-> built', seq |-> nextSeq] \in Cmds
    BY <1>2, ReserveType DEF SendTick
  <2>3. /\ ConnsOK' /\ Len(conns') = Len(conns) /\ DOMAIN conns' = DOMAIN conns
        /\ \A i \in DOMAIN conns : conns'[i].open = conns[i].open
    BY <1>0, <1>2, <2>1, <2>2, SendFrames DEF SendTick
  <2>4. conns' # <<>> /\ conns'[Len(conns')].open
    BY <2>1, <2>3, ServedConn, EmptySeq
  <2>5. QED
    BY <1>2, <2>2, <2>3, <2>4 DEF SendTick, TypeOK, ConnsOK
<1>3. CASE SendFails
  <2>1. nextSeq' \in Seqs /\ built' \in 0 .. MaxCmds
    BY <1>3, ReserveType DEF SendFails
  <2>2. QED
    BY <1>3, <2>1 DEF SendFails, TypeOK
<1>4. CASE BackendStarts
  <2>1. PICK lead \in 0 .. MaxLead : nextSeq' = (nextSeq + lead) % SeqMod
    BY <1>4 DEF BackendStarts
  <2>2. nextSeq + lead \in Int
    BY SeqTypes, CmdLinkAssumption DEF TypeOK
  <2>3. nextSeq' \in Seqs
    BY <2>1, <2>2, SeqTypes
  <2>4. QED
    BY <1>4, <2>3 DEF BackendStarts, TypeOK
<1>5. CASE Accept
  BY <1>5 DEF Accept, TypeOK
<1>6. CASE ReadFrame
  <2>1. conns # <<>> /\ 1 \in DOMAIN conns
    BY <1>6, ServedConn DEF ReadFrame, TypeOK
  <2>2. /\ ConnsOK' /\ Len(conns') = Len(conns)
        /\ \A i \in DOMAIN conns : conns'[i].open = conns[i].open
        /\ latest' \in Cmds
    BY <1>0, <1>6, <2>1, ReadFrames, ConnType DEF ReadFrame
  <2>3. conns' # <<>> /\ Len(conns) \in DOMAIN conns
    BY <2>1, <2>2, ServedConn, EmptySeq
  <2>4. behind' \in 0 .. MaxBehind
    <3>1. behind' = behind + 1 /\ behind < MaxBehind /\ behind \in 0 .. MaxBehind
      BY <1>6, Zenon DEF ReadFrame, TypeOK
    <3>2. QED
      BY <3>1, CmdLinkAssumption
  <2>5. sock' = "live" => conns'[Len(conns')].open
    BY <1>6, <2>2, <2>3, Zenon DEF ReadFrame, TypeOK
  <2>6. UNCHANGED <<backend, sock, serving, loop, faults>>
    BY <1>6 DEF ReadFrame
  <2>7. QED
    BY <2>2, <2>3, <2>4, <2>5, <2>6 DEF TypeOK, ConnsOK, backend, loop
<1>7. CASE EndOfConnection
  <2>1. conns # <<>>
    BY <1>7 DEF EndOfConnection, TypeOK
  <2>2. /\ ConnsOK' /\ Len(conns') = Len(conns) - 1
        /\ \A i \in DOMAIN conns' : conns'[i] = conns[i + 1]
    BY <1>0, <1>7, <2>1, EndFrames DEF EndOfConnection
  <2>3. ASSUME sock = "live" PROVE conns' # <<>> /\ conns'[Len(conns')].open
    <3>1. Len(conns) \in Nat /\ Len(conns) # 1 /\ Len(conns) # 0
      BY <1>7, <2>1, <2>3, ServedConn DEF EndOfConnection, TypeOK
    <3>2. Len(conns') \in DOMAIN conns'
      BY <2>2, <3>1, LenProperties DEF ConnsOK
    <3>3. QED
      BY <2>2, <2>3, <3>1, <3>2, EmptySeq DEF TypeOK, ConnsOK
  <2>4. QED
    BY <1>7, <2>2, <2>3 DEF EndOfConnection, TypeOK, ConnsOK
<1>8. CASE LoopRead
  <2>1. latest \in Cmds /\ latest.seq \in Seqs /\ latest.n \in 0 .. MaxCmds
    BY <1>8, CmdLinkAssumption DEF LoopRead, TypeOK, Cmds
  <2>2. lastSeq' \in Seqs \cup {NoSeq} /\ applied' \in 0 .. MaxCmds /\ turn' \in BOOLEAN
    <3>1. CASE Accepts
      BY <1>8, <2>1, <3>1 DEF LoopRead
    <3>2. CASE ~Accepts
      BY <1>8, <3>2 DEF LoopRead, TypeOK
    <3>3. QED
      BY <3>1, <3>2
  <2>3. QED
    BY <1>8, <2>2, SeqTypes DEF LoopRead, TypeOK
<1>9. CASE Breaks
  <2>1. PICK i \in DOMAIN conns, open \in BOOLEAN :
           \E k \in 0 .. Len(conns[i].wire) :
              /\ open => conns[i].open
              /\ conns' = Cut(i, k, open)
              /\ sock' = SockAfterCut(i)
    BY <1>9 DEF Breaks
  <2>2. PICK k \in 0 .. Len(conns[i].wire) :
           /\ conns' = Cut(i, k, open)
           /\ sock' = SockAfterCut(i)
    BY <2>1
  <2>3. /\ ConnsOK' /\ Len(conns') = Len(conns) /\ DOMAIN conns' = DOMAIN conns
        /\ \A m \in DOMAIN conns \ {i} : conns'[m] = conns[m]
    BY <1>0, <2>2, CutFrames
  <2>4. conns # <<>> /\ conns' # <<>>
    BY <2>3, LenProperties, EmptySeq DEF TypeOK, ConnsOK
  <2>5. sock' = "live" => conns'[Len(conns')].open
    BY <2>2, <2>3, <2>4, ServedConn DEF SockAfterCut, TypeOK
  <2>6. sock' \in {"none", "live", "dead"}
    BY <2>2 DEF SockAfterCut, TypeOK
  <2>7. QED
    <3>1. faults' \in 0 .. MaxFaults
      BY <1>9, FaultType DEF Breaks
    <3>2. QED
      BY <1>9, <2>3, <2>4, <2>5, <2>6, <3>1 DEF Breaks, TypeOK, ConnsOK
<1>10. CASE BackendCrashes
  <2>0. faults' \in 0 .. MaxFaults
    BY <1>10, FaultType DEF BackendCrashes
  <2>1. CASE sock = "live"
    <3>1. conns # <<>> /\ Len(conns) \in DOMAIN conns
      BY <2>1, ServedConn DEF TypeOK
    <3>2. PICK k \in 0 .. Len(conns[Len(conns)].wire) : conns' = Cut(Len(conns), k, FALSE)
      BY <1>10, <2>1 DEF BackendCrashes
    <3>3. ConnsOK' /\ Len(conns') = Len(conns)
      BY <1>0, <3>1, <3>2, CutFrames
    <3>4. conns' # <<>>
      BY <3>1, <3>3, LenProperties, EmptySeq DEF ConnsOK
    <3>5. QED
      BY <1>10, <2>0, <3>3, <3>4 DEF BackendCrashes, TypeOK, ConnsOK
  <2>2. CASE sock # "live"
    BY <1>10, <2>0, <2>2 DEF BackendCrashes, TypeOK
  <2>3. QED
    BY <2>1, <2>2
<1>11. CASE FcRestarts
  <2>1. faults' \in 0 .. MaxFaults
    BY <1>11, FaultType DEF FcRestarts
  <2>2. conns' \in Seq(Conns) /\ Len(conns') <= MaxConns /\ DOMAIN conns' = {}
    BY <1>11, NoConns DEF FcRestarts
  <2>3. QED
    BY <1>11, <2>1, <2>2, SeqTypes DEF FcRestarts, TypeOK
<1>12. CASE UNCHANGED vars
  BY <1>12 DEF vars, TypeOK
<1>13. QED
  BY <1>1, <1>2, <1>3, <1>4, <1>5, <1>6, <1>7, <1>8, <1>9, <1>10, <1>11, <1>12, Zenon
  DEF Next, Server, Faults

\* Numbers, seqs, wires and the server's connections keep their types and bounds over every
\* crash and reconnection; a live socket is the last connection and is open.
THEOREM TypeCorrect == Spec => []TypeOK
BY TypeInit, TypeStep, PTL DEF Spec
-----------------------------------------------------------------------------
(* The order of the CMDs: each step of a frame's way to the loop keeps them in the order *)
(* they were built, for a backend that numbers them apart.                               *)

Earlier(i, j, k, l) == i < k \/ (i = k /\ j < l)

\* What is behind on the wires was built later; the connection served first comes first.
WiresOrdered ==
    \A i, k \in DOMAIN conns : \A j \in DOMAIN conns[i].wire, l \in DOMAIN conns[k].wire :
        Earlier(i, j, k, l) => Frame(i, j).n < Frame(k, l).n

\* What is on a wire has been built, and is newer than what was published or applied.
WiresAhead ==
    \A i \in DOMAIN conns : \A j \in DOMAIN conns[i].wire :
        Frame(i, j).n <= built /\ applied < Frame(i, j).n /\ latest.n < Frame(i, j).n

\* The published CMD is the one applied last, or a newer one.
PublishedAhead ==
    /\ applied <= built
    /\ latest # NoCmd =>
          /\ applied <= latest.n /\ latest.n <= built
          /\ latest.n = applied => lastSeq = latest.seq
    /\ lastSeq # NoSeq => latest # NoCmd /\ applied # 0

OrderInv == TypeOK /\ WiresOrdered /\ WiresAhead /\ PublishedAhead

LEMMA RemainStep ==
    ASSUME ConnsOK, WiresOrdered, NEW a \in {0, 1}, NEW b \in {0, 1},
           ConnsOK', Remain(a, b)
    PROVE  /\ WiresOrdered'
           /\ \A i \in DOMAIN conns' : \A j \in DOMAIN conns'[i].wire :
                 \E m \in DOMAIN conns : \E k \in DOMAIN conns[m].wire :
                    Frame(i, j)' = Frame(m, k)
<1>1. /\ DOMAIN conns' \subseteq Nat
      /\ \A i \in DOMAIN conns' : DOMAIN conns'[i].wire \subseteq Nat
  <2>1. DOMAIN conns' = 1 .. Len(conns') /\ Len(conns') \in Nat
    BY LenProperties DEF ConnsOK
  <2>2. ASSUME NEW i \in DOMAIN conns' PROVE DOMAIN conns'[i].wire \subseteq Nat
    <3>1. conns'[i] \in Conns
      BY <2>1, ElementOfSeq DEF ConnsOK
    <3>2. conns'[i].wire \in Seq(Cmds)
      BY <3>1 DEF Conns
    <3>3. QED
      BY <3>2, LenProperties
  <2>3. QED
    BY <2>1, <2>2
<1> DEFINE K(i, j) == IF i = 1 THEN j + b ELSE j
<1>2. ASSUME NEW i \in DOMAIN conns', NEW j \in DOMAIN conns'[i].wire
      PROVE  /\ i + a \in DOMAIN conns /\ K(i, j) \in DOMAIN conns[i + a].wire
             /\ Frame(i, j)' = Frame(i + a, K(i, j))
  BY DEF Remain
<1>3. ASSUME NEW i \in DOMAIN conns', NEW k \in DOMAIN conns',
             NEW j \in DOMAIN conns'[i].wire, NEW l \in DOMAIN conns'[k].wire,
             Earlier(i, j, k, l)
      PROVE  Frame(i, j)'.n < Frame(k, l)'.n
  <2>1. Earlier(i + a, K(i, j), k + a, K(k, l))
    BY <1>1, <1>3 DEF Earlier
  <2>2. QED
    <3> HIDE DEF K
    <3>1. QED
      BY <1>2, <2>1 DEF WiresOrdered
<1> HIDE DEF K
<1>4. QED
  BY <1>2, <1>3 DEF WiresOrdered, Earlier

LEMMA OrderInit == Init => OrderInv
BY TypeInit, NoConns DEF Init, OrderInv, WiresOrdered, WiresAhead, PublishedAhead

\* Steps that take frames off the wires and publish or apply none.
LEMMA LossStep ==
    ASSUME OrderInv, TypeOK', NEW a \in {0, 1}, NEW b \in {0, 1}, Remain(a, b),
           UNCHANGED <<built, latest, lastSeq, applied>>
    PROVE  OrderInv'
<1>1. ConnsOK /\ ConnsOK'
  BY ConnsTyped DEF OrderInv, TypeOK, ConnsOK
<1>2. /\ WiresOrdered'
      /\ \A i \in DOMAIN conns' : \A j \in DOMAIN conns'[i].wire :
            \E m \in DOMAIN conns : \E k \in DOMAIN conns[m].wire :
               Frame(i, j)' = Frame(m, k)
  BY <1>1, RemainStep DEF OrderInv
<1>3. WiresAhead'
  BY <1>2 DEF OrderInv, WiresAhead
<1>4. QED
  BY <1>2, <1>3 DEF OrderInv, PublishedAhead

LEMMA OrderStep ==
    ASSUME ~Endless, OrderInv, [Next]_vars
    PROVE  OrderInv'
<1>0. TypeOK' /\ ConnsOK /\ ConnsOK'
  BY TypeStep, ConnsTyped DEF OrderInv, TypeOK, ConnsOK
<1> USE DEF backend, loop
<1>1. CASE Connect
  <2>1. Remain(0, 0)
    BY <1>0, <1>1, ConnectFrames DEF Connect
  <2>2. QED
    BY <1>0, <1>1, <2>1, LossStep DEF Connect
<1>2. CASE SendTick
  <2> DEFINE cmd == [n |-> built', seq |-> nextSeq]
  <2>1. conns # <<>> /\ cmd \in Cmds /\ cmd.n = built' /\ built' = built + 1 /\ built \in Nat
    <3>1. conns # <<>>
      BY <1>2 DEF SendTick, OrderInv, TypeOK
    <3>2. cmd \in Cmds
      BY <1>2, ReserveType DEF SendTick, OrderInv
    <3>3. built' = built + 1 /\ built \in Nat
      BY <1>2 DEF SendTick, Reserve, OrderInv, TypeOK
    <3>4. QED
      BY <3>1, <3>2, <3>3
  <2> HIDE DEF cmd
  <2>2. /\ DOMAIN conns' = DOMAIN conns
        /\ \A i \in DOMAIN conns' : \A j \in DOMAIN conns'[i].wire :
              \/ j \in DOMAIN conns[i].wire /\ Frame(i, j)' = Frame(i, j)
              \/ /\ i = Len(conns) /\ j = Len(conns[i].wire) + 1
                 /\ Frame(i, j)' = cmd
    BY <1>0, <1>2, <2>1, SendFrames DEF SendTick, cmd
  <2>3. UNCHANGED <<latest, lastSeq, applied>>
    BY <1>2 DEF SendTick
  <2>4. WiresAhead'
    <3>1. latest.n <= built /\ applied <= built /\ latest.n \in Nat /\ applied \in Nat
      BY <2>1 DEF OrderInv, PublishedAhead, TypeOK, NoCmd, Cmds
    <3>2. ASSUME NEW i \in DOMAIN conns', NEW j \in DOMAIN conns'[i].wire
          PROVE  /\ Frame(i, j)'.n <= built' /\ applied' < Frame(i, j)'.n
                 /\ latest'.n < Frame(i, j)'.n
      <4>1. CASE j \in DOMAIN conns[i].wire /\ Frame(i, j)' = Frame(i, j)
        <5>1. Frame(i, j) \in Cmds /\ Frame(i, j).n \in Int
          BY <1>0, <2>2, <4>1, ConnType DEF Cmds
        <5>2. /\ Frame(i, j).n <= built /\ applied < Frame(i, j).n
              /\ latest.n < Frame(i, j).n
          BY <2>2, <4>1 DEF OrderInv, WiresAhead
        <5>3. QED
          BY <2>1, <2>3, <4>1, <5>1, <5>2
      <4>2. CASE Frame(i, j)' = cmd
        BY <2>1, <2>3, <3>1, <4>2
      <4>3. QED
        BY <2>2, <4>1, <4>2
    <3>3. QED
      BY <3>2 DEF WiresAhead
  <2>5. WiresOrdered'
    <3>1. ASSUME NEW i \in DOMAIN conns', NEW k \in DOMAIN conns',
                 NEW j \in DOMAIN conns'[i].wire, NEW l \in DOMAIN conns'[k].wire,
                 Earlier(i, j, k, l)
          PROVE  Frame(i, j)'.n < Frame(k, l)'.n
      <4>1. /\ i \in 1 .. Len(conns) /\ k \in 1 .. Len(conns) /\ Len(conns) \in Nat
            /\ Len(conns[i].wire) \in Nat /\ Len(conns[k].wire) \in Nat
            /\ DOMAIN conns[i].wire = 1 .. Len(conns[i].wire)
            /\ DOMAIN conns[k].wire = 1 .. Len(conns[k].wire)
        BY <1>0, <2>2, ConnType, CmdLinkAssumption
      <4>2. j \in DOMAIN conns[i].wire /\ Frame(i, j)' = Frame(i, j)
        BY <2>2, <3>1, <4>1 DEF Earlier
      <4>3. CASE l \in DOMAIN conns[k].wire /\ Frame(k, l)' = Frame(k, l)
        BY <2>2, <3>1, <4>2, <4>3 DEF OrderInv, WiresOrdered
      <4>4. CASE Frame(k, l)' = cmd
        <5>1. Frame(i, j).n <= built /\ Frame(i, j).n \in Int
          BY <1>0, <2>2, <4>2, ConnType DEF OrderInv, WiresAhead, Cmds
        <5>2. QED
          BY <2>1, <4>2, <4>4, <5>1
      <4>5. QED
        BY <2>2, <4>3, <4>4
    <3>2. QED
      BY <3>1 DEF WiresOrdered, Earlier
  <2>6. PublishedAhead'
    BY <2>1, <2>3 DEF OrderInv, PublishedAhead, TypeOK, Cmds
  <2>7. QED
    BY <1>0, <2>4, <2>5, <2>6 DEF OrderInv
<1>3. CASE SendFails
  <2>1. built' = built + 1 /\ UNCHANGED <<conns, latest, lastSeq, applied>>
    BY <1>3 DEF SendFails, Reserve
  <2>2. WiresAhead'
    <3>1. \A i \in DOMAIN conns : \A j \in DOMAIN conns[i].wire : Frame(i, j).n \in Int
      BY <1>0, ConnType DEF Cmds
    <3>2. QED
      BY <2>1, <3>1 DEF OrderInv, WiresAhead, Frame, TypeOK
  <2>3. WiresOrdered'
    BY <2>1 DEF OrderInv, WiresOrdered, Frame, Earlier
  <2>4. PublishedAhead'
    BY <2>1 DEF OrderInv, PublishedAhead, TypeOK, Cmds
  <2>5. QED
    BY <1>0, <2>2, <2>3, <2>4 DEF OrderInv
<1>4. CASE BackendStarts \/ Accept
  BY <1>0, <1>4
  DEF BackendStarts, Accept, OrderInv, WiresAhead, WiresOrdered, PublishedAhead, Frame, Earlier
<1>5. CASE ReadFrame
  <2>1. 1 \in DOMAIN conns /\ conns[1].wire # <<>>
    BY <1>5, ServedConn DEF ReadFrame, OrderInv, TypeOK
  <2>2. Remain(0, 1) /\ 1 \in DOMAIN conns[1].wire /\ latest' = Frame(1, 1)
    BY <1>0, <1>5, <2>1, ReadFrames DEF ReadFrame
  <2>3. /\ WiresOrdered'
        /\ \A i \in DOMAIN conns' : \A j \in DOMAIN conns'[i].wire :
              \E m \in DOMAIN conns : \E k \in DOMAIN conns[m].wire :
                 Frame(i, j)' = Frame(m, k)
    BY <1>0, <2>2, RemainStep DEF OrderInv
  <2>4. UNCHANGED <<built, lastSeq, applied>>
    BY <1>5 DEF ReadFrame
  <2>5. WiresAhead'
    <3>1. ASSUME NEW i \in DOMAIN conns', NEW j \in DOMAIN conns'[i].wire
          PROVE  Frame(1, 1).n < Frame(i, j)'.n
      <4> DEFINE k == IF i = 1 THEN j + 1 ELSE j
      <4>1. /\ i + 0 \in DOMAIN conns /\ k \in DOMAIN conns[i + 0].wire
            /\ Frame(i, j)' = Frame(i + 0, k)
        BY <2>2 DEF Remain
      <4>2. /\ i \in Nat \ {0} /\ i + 0 = i
        <5>1. DOMAIN conns' = 1 .. Len(conns') /\ Len(conns') \in Nat
          BY <1>0, LenProperties DEF ConnsOK
        <5>2. QED
          BY <5>1
      <4>3. k \in Nat \ {0} /\ (i = 1 => k = j + 1 /\ k # 1)
        <5>1. DOMAIN conns[i].wire = 1 .. Len(conns[i].wire)
          BY <1>0, <4>1, <4>2, ConnType
        <5>2. k \in Nat \ {0}
          BY <4>1, <4>2, <5>1
        <5>3. conns'[i].wire \in Seq(Cmds)
          <6>1. DOMAIN conns' = 1 .. Len(conns')
            BY <1>0, LenProperties DEF ConnsOK
          <6>2. conns'[i] \in Conns
            BY <1>0, <6>1, ElementOfSeq DEF ConnsOK
          <6>3. QED
            BY <6>2 DEF Conns
        <5>4. j \in Nat \ {0}
          BY <5>3, LenProperties
        <5>5. QED
          BY <5>2, <5>4
      <4> HIDE DEF k
      <4>4. Earlier(1, 1, i, k)
        BY <4>2, <4>3 DEF Earlier
      <4>5. QED
        BY <2>1, <2>2, <4>1, <4>2, <4>4 DEF OrderInv, WiresOrdered
    <3>2. QED
      BY <2>2, <2>3, <2>4, <3>1 DEF OrderInv, WiresAhead
  <2>6. PublishedAhead'
    <3>1. /\ Frame(1, 1).n <= built /\ applied < Frame(1, 1).n
          /\ Frame(1, 1) \in Cmds
      BY <1>0, <2>1, <2>2, ConnType DEF OrderInv, WiresAhead
    <3>2. QED
      <4>1. Frame(1, 1).n \in Int
        BY <3>1 DEF Cmds
      <4>2. lastSeq' # NoSeq => latest' # NoCmd
        BY <2>2, <3>1, SeqTypes
      <4>4. QED
        BY <2>2, <2>4, <3>1, <4>1, <4>2 DEF OrderInv, PublishedAhead, TypeOK
  <2>7. QED
    BY <1>0, <2>3, <2>5, <2>6 DEF OrderInv
<1>6. CASE EndOfConnection
  <2>1. Remain(1, 0)
    BY <1>0, <1>6, EndFrames DEF EndOfConnection, OrderInv, TypeOK
  <2>2. QED
    BY <1>0, <1>6, <2>1, LossStep DEF EndOfConnection
<1>7. CASE LoopRead
  <2>1. UNCHANGED <<built, conns, latest>> /\ latest # NoCmd
    BY <1>7 DEF LoopRead
  <2>2. latest \in Cmds /\ latest.n \in Nat \ {0} /\ latest.seq # NoSeq
    <3>1. latest \in Cmds
      BY <2>1 DEF OrderInv, TypeOK
    <3>2. latest.seq \in Seqs /\ latest.n \in Nat \ {0}
      BY <3>1 DEF Cmds
    <3>3. QED
      BY <3>1, <3>2, SeqTypes
  <2>3. \/ applied' = latest.n /\ lastSeq' = latest.seq
        \/ UNCHANGED <<applied, lastSeq>>
    BY <1>7 DEF LoopRead
  <2>4. WiresAhead' /\ WiresOrdered'
    BY <2>1, <2>3 DEF OrderInv, WiresAhead, WiresOrdered, Frame, Earlier
  <2>5. PublishedAhead'
    BY <2>1, <2>2, <2>3 DEF OrderInv, PublishedAhead
  <2>6. QED
    BY <1>0, <2>4, <2>5 DEF OrderInv
<1>8. CASE Breaks
  <2>1. PICK i \in DOMAIN conns, open \in BOOLEAN :
           \E k \in 0 .. Len(conns[i].wire) : conns' = Cut(i, k, open)
    BY <1>8 DEF Breaks
  <2>2. Remain(0, 0)
    BY <1>0, <2>1, CutFrames
  <2>3. QED
    BY <1>0, <1>8, <2>2, LossStep DEF Breaks
<1>9. CASE BackendCrashes
  <2>1. CASE sock = "live"
    <3>1. Len(conns) \in DOMAIN conns
      BY <2>1, ServedConn DEF OrderInv, TypeOK
    <3>2. \E k \in 0 .. Len(conns[Len(conns)].wire) : conns' = Cut(Len(conns), k, FALSE)
      BY <1>9, <2>1 DEF BackendCrashes
    <3>3. Remain(0, 0)
      BY <1>0, <3>1, <3>2, CutFrames
    <3>4. QED
      BY <1>0, <1>9, <3>3, LossStep DEF BackendCrashes
  <2>2. CASE sock # "live"
    BY <1>0, <1>9, <2>2
    DEF BackendCrashes, OrderInv, WiresAhead, WiresOrdered, PublishedAhead, Frame, Earlier
  <2>3. QED
    BY <2>1, <2>2
<1>10. CASE FcRestarts
  <2>1. DOMAIN conns' = {} /\ latest' = NoCmd /\ lastSeq' = NoSeq /\ UNCHANGED <<built, applied>>
    BY <1>10, NoConns DEF FcRestarts
  <2>2. QED
    BY <1>0, <2>1 DEF OrderInv, WiresAhead, WiresOrdered, PublishedAhead
<1>11. CASE UNCHANGED vars
  BY <1>0, <1>11 DEF vars, OrderInv, WiresAhead, WiresOrdered, PublishedAhead, Frame, Earlier
<1>12. QED
  BY <1>1, <1>2, <1>3, <1>4, <1>5, <1>6, <1>7, <1>8, <1>9, <1>10, <1>11, Zenon
  DEF Next, Server, Faults

LEMMA DeliveryStep ==
    ASSUME ~Endless, OrderInv, [Next]_vars
    PROVE  [Delivery!Next]_<<built, applied, turn>>
<1> USE DEF backend, loop
<1>1. CASE SendTick \/ SendFails
  <2>1. Reserve /\ UNCHANGED <<applied, turn>>
    BY <1>1 DEF SendTick, SendFails
  <2>2. QED
    BY <2>1 DEF Reserve, Delivery!Next, Delivery!Build
<1>2. CASE LoopRead
  <2>1. CASE Accepts
    <3>1. /\ applied' = latest.n /\ turn' = ~turn /\ UNCHANGED built
          /\ latest \in Cmds
      BY <1>2, <2>1 DEF LoopRead, OrderInv, TypeOK
    <3>2. /\ applied <= latest.n /\ latest.n <= built /\ latest.n # applied
          /\ latest.n \in Int /\ applied \in Int /\ built \in Int
      <4>1. latest.seq \in Seqs /\ latest.n \in Int
        BY <3>1 DEF Cmds
      <4>2. SeqDiff(latest.seq, latest.seq) = 0
        BY <4>1, SeqModAssumption DEF SeqDiff, Seqs
      <4>3. lastSeq # latest.seq
        BY <2>1, <4>1, <4>2, SeqTypes DEF Accepts, SeqAdvances
      <4>4. QED
        BY <1>2, <4>1, <4>3 DEF LoopRead, OrderInv, PublishedAhead, TypeOK
    <3>3. applied' \in applied + 1 .. built
      BY <3>1, <3>2
    <3>4. QED
      BY <3>1, <3>3 DEF Delivery!Next, Delivery!Apply
  <2>2. CASE ~Accepts
    BY <1>2, <2>2 DEF LoopRead
  <2>3. QED
    BY <2>1, <2>2
<1>3. CASE Connect \/ BackendStarts \/ Server
  BY <1>3 DEF Connect, BackendStarts, Server, Accept, ReadFrame, EndOfConnection
<1>4. CASE Faults
  BY <1>4 DEF Faults, Breaks, BackendCrashes, FcRestarts
<1>5. CASE UNCHANGED vars
  BY <1>5 DEF vars
<1>6. QED
  BY <1>1, <1>2, <1>3, <1>4, <1>5 DEF Next

\* The link applies CMDs in the order they were built, each at most once: a repeated seq is
\* that of the CMD applied last, and connections are served one after the other.
THEOREM LinkDelivers ==
    ASSUME ~Endless
    PROVE  Spec => Delivery!Spec
<1>1. Init => Delivery!Init
  BY DEF Init, Delivery!Init
<1>2. OrderInv /\ [Next]_vars => OrderInv'
  BY OrderStep
<1>3. OrderInv /\ [Next]_vars => [Delivery!Next]_<<built, applied, turn>>
  BY DeliveryStep
<1>4. QED
  BY <1>1, <1>2, <1>3, OrderInit, PTL DEF Spec, Delivery!Spec

\* The same in the behaviours of the run, those of a backend that goes on for ever aside.
THEOREM OrderHolds ==
    ASSUME ~Endless
    PROVE  LinkSpec => OrderIsKept
<1> DEFINE LinkInv == ~forEver => OrderInv
<1>1. LinkInit => LinkInv /\ Delivery!Init
  BY OrderInit DEF LinkInit, Init, Delivery!Init
<1>2. LinkInv /\ [LinkNext]_<<forEver, vars>> => LinkInv'
  BY OrderStep DEF LinkNext
<1>3. LinkInv /\ [LinkNext]_<<forEver, vars>>
         => [~forEver => Delivery!Next]_<<built, applied, turn>>
  BY DeliveryStep DEF LinkNext, vars
<1>4. QED
  BY <1>1, <1>2, <1>3, PTL DEF LinkSpec, OrderIsKept
-----------------------------------------------------------------------------
(* Seq numbers: while less than half the space is used up, what was built later is ahead. *)

\* At most half the space is given to CMDs and to the leads of restarted backends.
Budget == MaxLead * MaxFaults
ShortLink == ~Endless /\ MaxCmds + Budget <= SeqHalf

\* How far behind the next seq one is, and how much of it restarts may have given.
Gap(s) == SeqDiff(s, nextSeq)
Moves(d) == nextSeq' = (nextSeq + d) % SeqMod
Leads == MaxLead * (IF backendUp THEN faults ELSE faults - 1)

\* The CMDs that may still meet in a comparison.
Live ==
    {c \in Cmds : \/ c = latest
                  \/ lastSeq # NoSeq /\ c = [n |-> applied, seq |-> lastSeq]
                  \/ \E i \in DOMAIN conns : \E j \in DOMAIN conns[i].wire : c = Frame(i, j)}

GapInv ==
    /\ ~backendUp => faults # 0
    /\ \A c \in Live : 1 <= Gap(c.seq) /\ Gap(c.seq) <= built - c.n + 1 + Leads
    /\ \A c, d \in Live : c.n < d.n => Gap(d.seq) < Gap(c.seq)

LEMMA ModUnique ==
    ASSUME NEW m \in Nat \ {0}, NEW a \in Int, NEW k \in Int, NEW r \in 0 .. m - 1,
           a = m * k + r
    PROVE  a % m = r
<1> DEFINE q == a \div m
           p == a % m
<1>1. q \in Int /\ p \in 0 .. m - 1 /\ a = m * q + p
  BY SMT
<1> HIDE DEF q, p
<1>2. m * (q - k) = r - p
  <2>1. m * q - m * k = r - p
    BY <1>1
  <2>2. m * (q - k) = m * q - m * k
    BY <1>1
  <2>3. QED
    BY <2>1, <2>2
<1>3. q - k <= 0
  <2> SUFFICES ASSUME q - k >= 1 PROVE FALSE
    BY <1>1
  <2>1. m * (q - k) >= m
    BY <1>1
  <2>2. QED
    BY <1>1, <1>2, <2>1
<1>4. q - k >= 0
  <2> SUFFICES ASSUME q - k <= -1 PROVE FALSE
    BY <1>1
  <2>1. m * (q - k) <= -m
    BY <1>1
  <2>2. QED
    BY <1>1, <1>2, <2>1
<1>5. q = k
  BY <1>1, <1>3, <1>4
<1>6. QED
  BY <1>1, <1>5 DEF p

LEMMA ModParts ==
    ASSUME NEW m \in Nat \ {0}, NEW a \in Int
    PROVE  \E k \in Int : a = m * k + (a % m) /\ a % m \in 0 .. m - 1
<1> DEFINE q == a \div m
           p == a % m
<1>1. q \in Int /\ p \in 0 .. m - 1 /\ a = m * q + p
  BY SMT
<1>2. QED
  BY <1>1

\* A seq that moves on by d moves away by d from one behind it, until it is a whole space away.
LEMMA DiffAdvances ==
    ASSUME NEW s \in Seqs, NEW x \in Seqs, NEW y \in Seqs, NEW d \in Nat,
           y = (x + d) % SeqMod, SeqDiff(s, x) + d < SeqMod
    PROVE  SeqDiff(s, y) = SeqDiff(s, x) + d
<1> DEFINE g == (x - s) % SeqMod
<1>0. /\ SeqMod \in Nat \ {0} /\ s \in Int /\ x \in Int /\ y \in Int
      /\ x - s \in Int /\ x + d \in Int
  BY SeqTypes
<1>1. PICK k \in Int : x - s = SeqMod * k + g /\ g \in 0 .. SeqMod - 1
  BY <1>0, ModParts
<1>2. PICK l \in Int : x + d = SeqMod * l + y
  BY <1>0, ModParts
<1> HIDE DEF g
<1>3. y - s = SeqMod * (k - l) + (g + d)
  <2>1. SeqMod * (k - l) = SeqMod * k - SeqMod * l
    BY <1>0
  <2>2. SeqMod * k \in Int /\ SeqMod * l \in Int
    BY <1>0
  <2>3. QED
    BY <1>0, <1>1, <1>2, <2>1, <2>2
<1>4. g + d \in 0 .. SeqMod - 1
  BY <1>0, <1>1 DEF SeqDiff, g
<1>5. (y - s) % SeqMod = g + d
  <2>1. y - s \in Int /\ k - l \in Int
    BY <1>0
  <2>2. QED
    BY <1>0, <1>3, <1>4, <2>1, ModUnique
<1>6. QED
  BY <1>5 DEF SeqDiff, g

\* Of two seqs behind the next one, the nearer is ahead by the difference.
LEMMA DiffOfGaps ==
    ASSUME NEW s \in Seqs, NEW t \in Seqs, NEW x \in Seqs, SeqDiff(t, x) <= SeqDiff(s, x)
    PROVE  SeqDiff(s, t) = SeqDiff(s, x) - SeqDiff(t, x)
<1> DEFINE g == (x - s) % SeqMod
           h == (x - t) % SeqMod
<1>0. /\ SeqMod \in Nat \ {0} /\ s \in Int /\ x \in Int /\ t \in Int
      /\ x - s \in Int /\ x - t \in Int
  BY SeqTypes
<1>1. PICK k \in Int : x - s = SeqMod * k + g /\ g \in 0 .. SeqMod - 1
  BY <1>0, ModParts
<1>2. PICK l \in Int : x - t = SeqMod * l + h /\ h \in 0 .. SeqMod - 1
  BY <1>0, ModParts
<1>3. h <= g
  BY DEF SeqDiff
<1> HIDE DEF g, h
<1>4. t - s = SeqMod * (k - l) + (g - h)
  <2>1. SeqMod * (k - l) = SeqMod * k - SeqMod * l
    BY <1>0
  <2>2. SeqMod * k \in Int /\ SeqMod * l \in Int
    BY <1>0
  <2>3. QED
    BY <1>0, <1>1, <1>2, <2>1, <2>2
<1>5. g - h \in 0 .. SeqMod - 1
  BY <1>0, <1>1, <1>2, <1>3
<1>6. (t - s) % SeqMod = g - h
  <2>1. t - s \in Int /\ k - l \in Int
    BY <1>0
  <2>2. QED
    BY <1>0, <1>4, <1>5, <2>1, ModUnique
<1>7. QED
  BY <1>6 DEF SeqDiff, g, h

LEMMA DiffType ==
    ASSUME NEW s \in Seqs, NEW x \in Seqs
    PROVE  SeqDiff(s, x) \in 0 .. SeqMod - 1 /\ SeqDiff(s, s) = 0
BY SeqTypes, SeqModAssumption DEF SeqDiff

LEMMA LeadsBound ==
    ASSUME TypeOK, ~backendUp => faults # 0
    PROVE  Leads \in Nat /\ Leads <= Budget
<1> DEFINE f == IF backendUp THEN faults ELSE faults - 1
<1>1. f \in Nat /\ f <= MaxFaults /\ MaxLead \in Nat /\ MaxFaults \in Nat
  BY CmdLinkAssumption DEF TypeOK
<1> HIDE DEF f
<1>2. MaxLead * f \in Nat /\ MaxLead * f <= MaxLead * MaxFaults
  BY <1>1
<1>3. QED
  BY <1>2 DEF Leads, Budget, f

LEMMA LiveBuilt ==
    ASSUME OrderInv, NEW c \in Live
    PROVE  /\ c.n \in Int /\ 1 <= c.n /\ c.n <= built /\ c.seq \in Seqs
           /\ built \in Int /\ built <= MaxCmds
<1>1. c \in Cmds /\ built \in Int /\ built <= MaxCmds
  BY CmdLinkAssumption DEF Live, OrderInv, TypeOK
<1>2. c.n \in Int /\ 1 <= c.n /\ c.seq \in Seqs
  BY <1>1 DEF Cmds
<1>3. CASE c = latest
  BY <1>1, <1>2, <1>3, SeqTypes DEF OrderInv, PublishedAhead
<1>4. CASE c = [n |-> applied, seq |-> lastSeq]
  BY <1>1, <1>2, <1>4 DEF OrderInv, PublishedAhead
<1>5. CASE \E i \in DOMAIN conns : \E j \in DOMAIN conns[i].wire : c = Frame(i, j)
  BY <1>1, <1>2, <1>5 DEF OrderInv, WiresAhead
<1>6. QED
  BY <1>1, <1>2, <1>3, <1>4, <1>5 DEF Live

LEMMA GapBound ==
    ASSUME ShortLink, OrderInv, GapInv, NEW c \in Live
    PROVE  /\ Gap(c.seq) \in Nat /\ 1 <= Gap(c.seq) /\ Gap(c.seq) <= SeqHalf
           /\ SeqHalf \in Nat /\ SeqHalf < SeqMod
<1>1. /\ c.n \in Int /\ 1 <= c.n /\ c.n <= built /\ c.seq \in Seqs
      /\ built \in Int /\ built <= MaxCmds
  BY LiveBuilt
<1>2. Leads \in Nat /\ Leads <= Budget
  BY LeadsBound DEF OrderInv, GapInv
<1>3. Gap(c.seq) \in Nat
  <2>1. nextSeq \in Seqs /\ SeqMod \in Nat
    BY SeqTypes DEF OrderInv, TypeOK
  <2>2. SeqDiff(c.seq, nextSeq) \in 0 .. SeqMod - 1
    BY <1>1, <2>1, DiffType
  <2>3. QED
    BY <2>1, <2>2 DEF Gap
<1>4. 1 <= Gap(c.seq) /\ Gap(c.seq) <= built - c.n + 1 + Leads
  BY DEF GapInv
<1>5. MaxCmds \in Int /\ Budget \in Int /\ MaxCmds + Budget <= SeqHalf
  BY CmdLinkAssumption DEF ShortLink, Budget
<1>6. SeqHalf \in Nat /\ SeqHalf < SeqMod
  BY SeqModAssumption DEF SeqHalf
<1>7. QED
  BY <1>1, <1>2, <1>3, <1>4, <1>5, <1>6

\* Steps that neither number a CMD nor seed a backend, and keep no CMD that was not live.
LEMMA GapKept ==
    ASSUME GapInv, Live' \subseteq Live, UNCHANGED <<nextSeq, built>>,
           ~backendUp' => faults' # 0, Leads \in Int, Leads' \in Int, Leads <= Leads',
           OrderInv
    PROVE  GapInv'
<1>1. \A c \in Live' : Gap(c.seq)' = Gap(c.seq) /\ Gap(c.seq) \in Int /\ c.n \in Int
  <2>1. nextSeq \in Seqs /\ SeqMod \in Nat
    BY SeqTypes DEF OrderInv, TypeOK
  <2>2. ASSUME NEW c \in Live'
        PROVE  SeqDiff(c.seq, nextSeq) \in 0 .. SeqMod - 1 /\ c.n \in Int
    BY <2>1, LiveBuilt, DiffType
  <2>3. QED
    BY <2>1, <2>2 DEF Gap
<1>2. ASSUME NEW c \in Live'
      PROVE  1 <= Gap(c.seq)' /\ Gap(c.seq)' <= built' - c.n + 1 + Leads'
  <2>1. built \in Int /\ c.n \in Int
    BY LiveBuilt
  <2>2. QED
    BY <1>1, <2>1 DEF GapInv
<1>3. QED
  BY <1>1, <1>2 DEF GapInv

\* The next seq moves on by d, the numbers of CMDs and the restarts having made room for it.
LEMMA GapMoves ==
    ASSUME ShortLink, OrderInv, GapInv, NEW d \in Nat, Moves(d), nextSeq' \in Seqs,
           NEW c \in Live, NEW leads \in Nat, leads <= Budget,
           NEW b \in Nat, b <= MaxCmds, built + Leads + d <= b + leads
    PROVE  /\ Gap(c.seq)' = Gap(c.seq) + d
           /\ 1 <= Gap(c.seq)' /\ Gap(c.seq)' <= b - c.n + 1 + leads
<1>1. /\ c.n \in Int /\ 1 <= c.n /\ c.n <= built /\ c.seq \in Seqs /\ built \in Int
      /\ Gap(c.seq) \in Nat /\ 1 <= Gap(c.seq) /\ Gap(c.seq) <= built - c.n + 1 + Leads
      /\ SeqHalf \in Nat /\ SeqHalf < SeqMod /\ SeqMod \in Nat
  BY LiveBuilt, GapBound, SeqTypes DEF GapInv
<1>2. Leads \in Nat
  BY LeadsBound DEF OrderInv, GapInv
<1>3. MaxCmds \in Int /\ Budget \in Int /\ MaxCmds + Budget <= SeqHalf
  BY CmdLinkAssumption DEF ShortLink, Budget
<1>4. Gap(c.seq) + d <= b - c.n + 1 + leads /\ Gap(c.seq) + d < SeqMod
  BY <1>1, <1>2, <1>3
<1>5. SeqDiff(c.seq, nextSeq') = SeqDiff(c.seq, nextSeq) + d
  <2>1. nextSeq \in Seqs /\ nextSeq' = (nextSeq + d) % SeqMod
    BY DEF OrderInv, TypeOK, Moves
  <2>2. SeqDiff(c.seq, nextSeq) + d < SeqMod
    BY <1>4 DEF Gap
  <2>3. c.seq \in Seqs /\ nextSeq' \in Seqs
    BY <1>1
  <2>4. \A s, x, y \in Seqs :
           y = (x + d) % SeqMod /\ SeqDiff(s, x) + d < SeqMod
              => SeqDiff(s, y) = SeqDiff(s, x) + d
    BY DiffAdvances
  <2>5. QED
    BY <2>1, <2>2, <2>3, <2>4, Zenon
<1>6. QED
  BY <1>1, <1>4, <1>5 DEF Gap

LEMMA LiveShrinks ==
    ASSUME OrderInv,
           \A i \in DOMAIN conns' : \A j \in DOMAIN conns'[i].wire :
              \E m \in DOMAIN conns : \E k \in DOMAIN conns[m].wire :
                 Frame(i, j)' = Frame(m, k),
           latest' \in Cmds => latest' \in Live,
           \/ lastSeq' = NoSeq
           \/ UNCHANGED <<applied, lastSeq>>
           \/ applied' = latest.n /\ lastSeq' = latest.seq /\ latest \in Cmds
    PROVE  Live' \subseteq Live
<1> SUFFICES ASSUME NEW c \in Live' PROVE c \in Live
  OBVIOUS
<1>1. c \in Cmds
  BY DEF Live
<1>2. CASE c = latest'
  BY <1>1, <1>2
<1>3. CASE lastSeq' # NoSeq /\ c = [n |-> applied', seq |-> lastSeq']
  <2>1. CASE UNCHANGED <<applied, lastSeq>>
    BY <1>1, <1>3, <2>1 DEF Live
  <2>2. CASE applied' = latest.n /\ lastSeq' = latest.seq /\ latest \in Cmds
    <3>1. c = latest
      BY <1>3, <2>2 DEF Cmds
    <3>2. QED
      BY <1>1, <3>1 DEF Live
  <2>3. QED
    BY <1>3, <2>1, <2>2
<1>4. CASE \E i \in DOMAIN conns' : \E j \in DOMAIN conns'[i].wire : c = Frame(i, j)'
  BY <1>1, <1>4 DEF Live
<1>5. QED
  BY <1>2, <1>3, <1>4 DEF Live

LEMMA ReserveStep ==
    ASSUME ShortLink, OrderInv, OrderInv', GapInv, Reserve, UNCHANGED <<backendUp, faults>>,
           \A c \in Live' : c \in Live \/ (c.n = built' /\ c.seq = nextSeq)
    PROVE  GapInv'
<1>1. /\ built' = built + 1 /\ built \in Nat /\ built' \in Nat /\ built' <= MaxCmds
      /\ Moves(1) /\ nextSeq' \in Seqs /\ nextSeq \in Seqs
  BY ReserveType, CmdLinkAssumption
  DEF ShortLink, Reserve, SeqNext, Moves, OrderInv, TypeOK
<1>2. Leads' = Leads /\ Leads \in Nat /\ Leads <= Budget
  BY LeadsBound DEF OrderInv, GapInv, Leads
<1>3. ASSUME NEW c \in Live
      PROVE  /\ Gap(c.seq)' = Gap(c.seq) + 1 /\ Gap(c.seq) \in Nat /\ 1 <= Gap(c.seq)
             /\ 1 <= Gap(c.seq)' /\ Gap(c.seq)' <= built' - c.n + 1 + Leads'
             /\ c.n \in Int /\ c.n <= built
  BY <1>1, <1>2, GapMoves, GapBound, LiveBuilt
<1>4. SeqDiff(nextSeq, nextSeq') = 1
  <2>1. SeqDiff(nextSeq, nextSeq) = 0
    BY <1>1, DiffType
  <2>2. 0 + 1 < SeqMod
    BY SeqModAssumption
  <2>3. SeqDiff(nextSeq, nextSeq') = 0 + 1
    BY <1>1, <2>1, <2>2, DiffAdvances DEF Moves
  <2>4. QED
    BY <2>3
<1>5. ASSUME NEW c \in Live', c.n = built', c.seq = nextSeq
      PROVE  /\ Gap(c.seq)' = 1
             /\ 1 <= Gap(c.seq)' /\ Gap(c.seq)' <= built' - c.n + 1 + Leads'
  BY <1>1, <1>2, <1>4, <1>5 DEF Gap
<1>6. ASSUME NEW c \in Live', NEW d \in Live', c.n < d.n
      PROVE  Gap(d.seq)' < Gap(c.seq)'
  <2>1. d.n \in Int /\ d.n <= built'
    BY LiveBuilt, <1>6, <1>1, <1>3
  <2>2. c \in Live
    BY <1>1, <1>6, <2>1
  <2>3. CASE d \in Live
    BY <1>3, <1>6, <2>2, <2>3 DEF GapInv
  <2>4. CASE d.n = built' /\ d.seq = nextSeq
    BY <1>3, <1>5, <2>2, <2>4
  <2>5. QED
    BY <2>3, <2>4
<1>7. QED
  BY <1>3, <1>5, <1>6 DEF GapInv

LEMMA GapStep ==
    ASSUME ShortLink, OrderInv, OrderInv', GapInv, [Next]_vars
    PROVE  GapInv'
<1>0. ConnsOK /\ ConnsOK' /\ WiresOrdered /\ TypeOK /\ TypeOK'
  BY ConnsTyped DEF OrderInv, TypeOK, ConnsOK
<1>00. latest \in Cmds => latest \in Live
  BY DEF Live
<1>000. MaxLead \in Nat /\ faults \in Nat /\ faults' \in Nat
  BY <1>0, CmdLinkAssumption DEF TypeOK
<1> USE DEF backend, loop
<1>1. CASE Connect \/ Accept
  <2>1. UNCHANGED <<nextSeq, built, backendUp, faults, latest, lastSeq, applied>>
    BY <1>1 DEF Connect, Accept
  <2>2. Remain(0, 0) \/ UNCHANGED conns
    BY <1>0, <1>1, ConnectFrames DEF Connect, Accept
  <2>3. \A i \in DOMAIN conns' : \A j \in DOMAIN conns'[i].wire :
           \E m \in DOMAIN conns : \E k \in DOMAIN conns[m].wire : Frame(i, j)' = Frame(m, k)
    <3>1. CASE Remain(0, 0)
      BY <1>0, <3>1, RemainStep
    <3>2. CASE UNCHANGED conns
      BY <3>2 DEF Frame
    <3>3. QED
      BY <2>2, <3>1, <3>2
  <2>4. Live' \subseteq Live
    BY <1>00, <2>1, <2>3, LiveShrinks
  <2>5. Leads' = Leads /\ Leads \in Int
    BY <1>0, <2>1, LeadsBound DEF Leads, GapInv
  <2>6. QED
    BY <2>1, <2>4, <2>5, GapKept DEF GapInv
<1>2. CASE ReadFrame
  <2>1. UNCHANGED <<nextSeq, built, backendUp, faults, lastSeq, applied>>
    BY <1>2 DEF ReadFrame
  <2>2. 1 \in DOMAIN conns /\ conns[1].wire # <<>>
    BY <1>0, <1>2, ServedConn DEF ReadFrame, TypeOK
  <2>3. Remain(0, 1) /\ 1 \in DOMAIN conns[1].wire /\ latest' = Frame(1, 1)
    BY <1>0, <1>2, <2>2, ReadFrames DEF ReadFrame
  <2>4. \A i \in DOMAIN conns' : \A j \in DOMAIN conns'[i].wire :
           \E m \in DOMAIN conns : \E k \in DOMAIN conns[m].wire : Frame(i, j)' = Frame(m, k)
    BY <1>0, <2>3, RemainStep
  <2>5. latest' \in Cmds => latest' \in Live
    BY <2>2, <2>3 DEF Live
  <2>6. Live' \subseteq Live
    BY <2>1, <2>4, <2>5, LiveShrinks
  <2>7. Leads' = Leads /\ Leads \in Int
    BY <1>0, <2>1, LeadsBound DEF Leads, GapInv
  <2>8. QED
    BY <2>1, <2>6, <2>7, GapKept DEF GapInv
<1>3. CASE EndOfConnection
  <2>1. UNCHANGED <<nextSeq, built, backendUp, faults, latest, lastSeq, applied>>
    BY <1>3 DEF EndOfConnection
  <2>2. Remain(1, 0)
    BY <1>0, <1>3, EndFrames DEF EndOfConnection, TypeOK
  <2>3. Live' \subseteq Live
    BY <1>0, <1>00, <2>1, <2>2, RemainStep, LiveShrinks
  <2>4. Leads' = Leads /\ Leads \in Int
    BY <1>0, <2>1, LeadsBound DEF Leads, GapInv
  <2>5. QED
    BY <2>1, <2>3, <2>4, GapKept DEF GapInv
<1>4. CASE LoopRead
  <2>1. UNCHANGED <<nextSeq, built, backendUp, faults, latest, conns>> /\ latest \in Cmds
    BY <1>0, <1>4 DEF LoopRead, TypeOK
  <2>2. \/ UNCHANGED <<applied, lastSeq>>
        \/ applied' = latest.n /\ lastSeq' = latest.seq
    BY <1>4 DEF LoopRead
  <2>3. Live' \subseteq Live
    BY <1>00, <2>1, <2>2, LiveShrinks DEF Frame
  <2>4. Leads' = Leads /\ Leads \in Int
    BY <1>0, <2>1, LeadsBound DEF Leads, GapInv
  <2>5. QED
    BY <2>1, <2>3, <2>4, GapKept DEF GapInv
<1>5. CASE Breaks \/ FcRestarts
  <2>1. /\ UNCHANGED <<nextSeq, built, backendUp, applied>> /\ faults' = faults + 1
        /\ \/ UNCHANGED <<latest, lastSeq>>
           \/ latest' = NoCmd /\ lastSeq' = NoSeq
    BY <1>5 DEF Breaks, FcRestarts, Fault
  <2>2. \A i \in DOMAIN conns' : \A j \in DOMAIN conns'[i].wire :
           \E m \in DOMAIN conns : \E k \in DOMAIN conns[m].wire : Frame(i, j)' = Frame(m, k)
    <3>1. CASE Breaks
      <4>1. PICK i \in DOMAIN conns, open \in BOOLEAN :
               \E k \in 0 .. Len(conns[i].wire) : conns' = Cut(i, k, open)
        BY <3>1 DEF Breaks
      <4>2. Remain(0, 0)
        BY <1>0, <4>1, CutFrames
      <4>3. QED
        BY <1>0, <4>2, RemainStep
    <3>2. CASE FcRestarts
      BY <3>2, NoConns DEF FcRestarts
    <3>3. QED
      BY <1>5, <3>1, <3>2
  <2>3. Live' \subseteq Live
    BY <1>00, <2>1, <2>2, SeqTypes, LiveShrinks
  <2>4. Leads \in Nat /\ Leads' \in Nat
    BY <1>0, <1>000, <2>1, LeadsBound DEF GapInv, Leads
  <2>5. Leads <= Leads'
    BY <1>000, <2>1 DEF Leads
  <2>6. QED
    BY <1>000, <2>1, <2>3, <2>4, <2>5, GapKept DEF GapInv
<1>6. CASE BackendCrashes
  <2>1. /\ UNCHANGED <<nextSeq, built, latest, lastSeq, applied>> /\ faults' = faults + 1
        /\ backendUp = TRUE /\ backendUp' = FALSE
    BY <1>0, <1>6 DEF BackendCrashes, Fault, TypeOK
  <2>2. \A i \in DOMAIN conns' : \A j \in DOMAIN conns'[i].wire :
           \E m \in DOMAIN conns : \E k \in DOMAIN conns[m].wire : Frame(i, j)' = Frame(m, k)
    <3>1. CASE sock = "live"
      <4>1. Len(conns) \in DOMAIN conns
        BY <1>0, <3>1, ServedConn DEF TypeOK
      <4>2. \E k \in 0 .. Len(conns[Len(conns)].wire) : conns' = Cut(Len(conns), k, FALSE)
        BY <1>6, <3>1 DEF BackendCrashes
      <4>3. Remain(0, 0)
        BY <1>0, <4>1, <4>2, CutFrames
      <4>4. QED
        BY <1>0, <4>3, RemainStep
    <3>2. CASE sock # "live"
      BY <1>6, <3>2 DEF BackendCrashes, Frame
    <3>3. QED
      BY <3>1, <3>2
  <2>3. Live' \subseteq Live
    BY <1>00, <2>1, <2>2, LiveShrinks
  <2>4. Leads' = Leads /\ Leads \in Nat
    BY <1>0, <1>000, <2>1, LeadsBound DEF Leads, GapInv
  <2>5. QED
    BY <1>000, <2>1, <2>3, <2>4, GapKept DEF GapInv
<1>7. CASE BackendStarts
  <2>1. PICK lead \in 0 .. MaxLead : Moves(lead)
    BY <1>7 DEF BackendStarts, Moves
  <2>2. /\ ~backendUp /\ backendUp' = TRUE
        /\ UNCHANGED <<built, conns, latest, lastSeq, applied, faults>>
    BY <1>7 DEF BackendStarts
  <2>3. Live' = Live
    BY <2>2 DEF Live, Frame
  <2>4. /\ Leads \in Nat /\ Leads' \in Nat /\ Leads' <= Budget
        /\ Leads' = Leads + MaxLead
    <3>1. Leads \in Nat
      BY <1>0, LeadsBound DEF GapInv
    <3>2. Leads = MaxLead * (faults - 1) /\ Leads' = MaxLead * faults
      BY <2>2 DEF Leads
    <3>3. MaxLead * (faults - 1) = MaxLead * faults - MaxLead
      BY <1>000
    <3>4. faults <= MaxFaults /\ MaxFaults \in Nat
      BY <1>0, CmdLinkAssumption DEF TypeOK
    <3>5. MaxLead * faults <= Budget /\ MaxLead * faults \in Nat
      BY <1>000, <3>4 DEF Budget
    <3>6. QED
      BY <1>000, <3>1, <3>2, <3>3, <3>5
  <2>5. lead \in Nat /\ lead <= MaxLead /\ built \in Nat /\ built <= MaxCmds /\ nextSeq' \in Seqs
    BY <1>0, <1>000, CmdLinkAssumption DEF TypeOK
  <2>6. built + Leads + lead <= built' + Leads' /\ built' = built
    BY <1>000, <2>2, <2>4, <2>5
  <2>7. ASSUME NEW c \in Live
        PROVE  /\ Gap(c.seq)' = Gap(c.seq) + lead /\ Gap(c.seq) \in Nat
               /\ 1 <= Gap(c.seq)' /\ Gap(c.seq)' <= built' - c.n + 1 + Leads'
    BY <2>1, <2>4, <2>5, <2>6, GapMoves, GapBound
  <2>8. ASSUME NEW c \in Live, NEW d \in Live, c.n < d.n
        PROVE  Gap(d.seq)' < Gap(c.seq)'
    <3>1. Gap(d.seq) < Gap(c.seq)
      BY <2>8 DEF GapInv
    <3>2. QED
      BY <2>5, <2>7, <3>1
  <2>9. QED
    BY <2>2, <2>3, <2>7, <2>8 DEF GapInv
<1>8. CASE SendTick
  <2> DEFINE cmd == [n |-> built', seq |-> nextSeq]
  <2>1. conns # <<>> /\ cmd \in Cmds
    BY <1>0, <1>8, ReserveType DEF SendTick, TypeOK
  <2>2. \A i \in DOMAIN conns' : \A j \in DOMAIN conns'[i].wire :
           \/ i \in DOMAIN conns /\ j \in DOMAIN conns[i].wire /\ Frame(i, j)' = Frame(i, j)
           \/ Frame(i, j)' = cmd
    <3> HIDE DEF cmd
    <3>1. conns' = [conns EXCEPT ![Len(conns)].wire = Append(@, cmd)]
          /\ Len(conns[Len(conns)].wire) < MaxWire
      BY <1>8 DEF SendTick, cmd
    <3>2. QED
      <4>1. /\ DOMAIN conns' = DOMAIN conns
            /\ \A i \in DOMAIN conns' : \A j \in DOMAIN conns'[i].wire :
                  \/ j \in DOMAIN conns[i].wire /\ Frame(i, j)' = Frame(i, j)
                  \/ /\ i = Len(conns) /\ j = Len(conns[i].wire) + 1
                     /\ Frame(i, j)' = cmd
        BY <1>0, <2>1, <3>1, SendFrames
      <4>2. QED
        BY <4>1
  <2>3. UNCHANGED <<latest, lastSeq, applied, backendUp, faults>> /\ Reserve
    BY <1>8 DEF SendTick
  <2>4. ASSUME NEW c \in Live' PROVE c \in Live \/ c = cmd
    <3> HIDE DEF cmd
    <3>1. c \in Cmds
      BY DEF Live
    <3>2. CASE c = latest' \/ (lastSeq' # NoSeq /\ c = [n |-> applied', seq |-> lastSeq'])
      BY <2>3, <3>1, <3>2 DEF Live
    <3>3. CASE \E i \in DOMAIN conns' : \E j \in DOMAIN conns'[i].wire : c = Frame(i, j)'
      BY <2>2, <3>1, <3>3 DEF Live
    <3>4. QED
      BY <3>2, <3>3 DEF Live
  <2>5. \A c \in Live' : c \in Live \/ (c.n = built' /\ c.seq = nextSeq)
    BY <2>4
  <2>6. QED
    BY <2>3, <2>5, ReserveStep
<1>9. CASE SendFails
  <2>1. UNCHANGED <<latest, lastSeq, applied, backendUp, faults, conns>> /\ Reserve
    BY <1>9 DEF SendFails
  <2>2. Live' = Live
    BY <2>1 DEF Live, Frame
  <2>3. QED
    BY <2>1, <2>2, ReserveStep
<1>10. CASE UNCHANGED vars
  <2>1. Live' = Live /\ Leads' = Leads /\ nextSeq' = nextSeq
    BY <1>10 DEF vars, Live, Leads, Frame
  <2>2. QED
    BY <1>10, <2>1 DEF vars, GapInv, Gap
<1>11. QED
  BY <1>1, <1>2, <1>3, <1>4, <1>5, <1>6, <1>7, <1>8, <1>9, <1>10, Zenon
  DEF Next, Server, Faults

LEMMA FreshObeyed ==
    ASSUME ShortLink, OrderInv, GapInv
    PROVE  FreshLinkIsObeyed
<1> SUFFICES ASSUME latest # NoCmd, latest.n # applied, lastSeq # NoSeq
             PROVE  SeqAdvances(lastSeq, latest.seq)
  BY DEF FreshLinkIsObeyed, Accepts
<1> DEFINE last == [n |-> applied, seq |-> lastSeq]
<1>1. latest \in Live /\ last \in Live /\ last.seq = lastSeq /\ last.n < latest.n
  <2>1. latest \in Cmds /\ lastSeq \in Seqs /\ applied \in Int
    BY DEF OrderInv, TypeOK
  <2>2. applied \in 1 .. MaxCmds
    BY <2>1 DEF OrderInv, PublishedAhead, TypeOK
  <2>3. last \in Cmds
    BY <2>1, <2>2 DEF Cmds
  <2>4. latest \in Live /\ last \in Live
    BY <2>1, <2>3 DEF Live
  <2>5. applied < latest.n
    BY <2>1 DEF OrderInv, PublishedAhead, Cmds
  <2>6. QED
    BY <2>4, <2>5
<1> HIDE DEF last
<1>2. /\ Gap(latest.seq) < Gap(lastSeq) /\ Gap(latest.seq) \in Nat /\ Gap(lastSeq) \in Nat
      /\ 1 <= Gap(latest.seq) /\ Gap(lastSeq) <= SeqHalf /\ SeqHalf \in Nat
  BY <1>1, GapBound DEF GapInv
<1>3. lastSeq \in Seqs /\ latest.seq \in Seqs /\ nextSeq \in Seqs
  BY <1>1, LiveBuilt DEF OrderInv, TypeOK
<1>4. SeqDiff(lastSeq, latest.seq) = Gap(lastSeq) - Gap(latest.seq)
  BY <1>2, <1>3, DiffOfGaps DEF Gap
<1>5. QED
  BY <1>2, <1>4 DEF SeqAdvances

LEMMA GapInit == Init => GapInv
BY SeqTypes, NoConns DEF Init, GapInv, Live

\* A link that looks fresh is obeyed: while CMDs and restarts use up at most half the seq
\* space, the published CMD advances the seq of the one applied last, or is that one,
\* through every wrap, crash and reconnection.
THEOREM FreshIsObeyed ==
    ASSUME ShortLink
    PROVE  Spec => []FreshLinkIsObeyed
<1>1. Init => OrderInv /\ GapInv
  BY OrderInit, GapInit
<1>2. OrderInv /\ GapInv /\ [Next]_vars => (OrderInv /\ GapInv)'
  BY OrderStep, GapStep DEF ShortLink
<1>3. OrderInv /\ GapInv => FreshLinkIsObeyed
  BY FreshObeyed
<1>4. QED
  BY <1>1, <1>2, <1>3, PTL DEF Spec
=============================================================================
