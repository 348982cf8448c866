--------------------------- MODULE CmdBridge_proofs ---------------------------
(* Theorems about the backend's CMD bridge, for every value of the constants. *)
EXTENDS CmdBridge, TLAPS

-----------------------------------------------------------------------------
(* The inductive invariant.                                                *)

bridge == call["bridge"]
stopper == call["stopper"]

\* What the link status is about to say: a failed send is announced before the
\* socket is dropped.
Up == sock # "none" /\ pc # "drop"

\* A connect begins without a socket, and the thread that has left its loop has none.
SocketFollowsThread == pc \in {"connect", "end"} => sock = "none"

\* Until the join returns, only the bridge thread is in _set_fc_connected, and what
\* was announced lags behind _last_fc_connected by the pending callback only.
OneAnnouncer ==
    /\ stopper.value = FALSE
    /\ st = "announced" \/ stopper = Idle
    /\ st # "announced" =>
          IF bridge.step = "callback" THEN lastConnected = bridge.value
                                      ELSE told = lastConnected

\* While nobody stops the bridge, each flag holds the status from the step of
\* _set_fc_connected that writes it on.
FlagsFollow ==
    st = "running" =>
        /\ pc # "end"
        /\ bridge.step # "idle" => bridge.value = Up
        /\ bridge.step # "state" => fcConnected = Up
        /\ bridge.step \in {"idle", "callback"} => lastConnected = Up

\* The last announcement of the thread is FALSE, whatever the stopper does meanwhile.
EndIsDown ==
    pc = "end" =>
        /\ bridge.value = FALSE
        /\ bridge.step # "state" => ~fcConnected
        /\ bridge.step \in {"idle", "callback"} => ~lastConnected

\* A join that saw the thread end leaves nothing to announce.
JoinedIsDown == joined => st = "announced" /\ Ended /\ ~told /\ ~lastConnected

LinkInv ==
    SocketFollowsThread /\ OneAnnouncer /\ FlagsFollow /\ EndIsDown /\ JoinedIsDown

IInv == TypeOK /\ TrackingNeedsLiveVis /\ LinkInv
-----------------------------------------------------------------------------
(* The operators the steps are built from.                                 *)

LEMMA AgeTypes ==
    /\ 0 \in VisAges /\ NoVis \in VisAges /\ OldAge \in Nat /\ NoVis = OldAge + 1
    /\ \A age \in VisAges : Older(age) \in VisAges
    /\ \A age \in VisAges : age # NoVis => Older(age) <= age + 1
    /\ \A age \in VisAges : age <= VisFresh + MaxTick => age # NoVis
BY CmdBridgeAssumption DEF VisAges, NoVis, OldAge, Older, Smaller

LEMMA BackOffType ==
    ASSUME TypeOK, BackOff
    PROVE  retryIn' \in 0 .. BackoffMax /\ backoff' \in BackoffMin .. BackoffMax
BY CmdBridgeAssumption DEF TypeOK, BackOff, Larger, Smaller

LEMMA IdleType == Idle \in Calls /\ NoCmd \in Cmds
BY DEF Idle, Calls, NoCmd, Cmds, CmdModes

\* A call of _set_fc_connected begins at its first step; the other thread's goes on.
LEMMA CallStarts ==
    ASSUME call \in [Threads -> Calls], NEW t \in Threads, NEW value \in BOOLEAN,
           CallSetConnected(t, value)
    PROVE  /\ call' \in [Threads -> Calls]
           /\ call'[t].step = "state" /\ call'[t].value = value
           /\ \A u \in Threads \ {t} : call'[u] = call[u]
BY DEF CallSetConnected, Calls

LEMMA CallGoes ==
    ASSUME call \in [Threads -> Calls], NEW t \in Threads,
           NEW step \in {"idle", "state", "compare", "assign", "callback"}, Goto(t, step)
    PROVE  /\ call' \in [Threads -> Calls]
           /\ call'[t].step = step /\ call'[t].value = call[t].value
           /\ \A u \in Threads \ {t} : call'[u] = call[u]
BY DEF Goto, Calls

LEMMA CallReturns ==
    ASSUME call \in [Threads -> Calls], NEW t \in Threads, Return(t)
    PROVE  /\ call' \in [Threads -> Calls] /\ call'[t] = Idle
           /\ \A u \in Threads \ {t} : call'[u] = call[u]
BY IdleType DEF Return
-----------------------------------------------------------------------------
(* Type correctness.                                                       *)

LEMMA ForgetType ==
    ASSUME NEW age \in 0 .. MaxTick, Forget(age)
    PROVE  snapAge' \in VisAges /\ tickIntent' \in Intents /\ cmd' \in Cmds
           /\ tickAge' \in 0 .. MaxTick
BY AgeTypes, IdleType DEF Forget, Intents

LEMMA TypeStep ==
    ASSUME TypeOK, [Next]_vars
    PROVE  TypeOK'
<1>0. 0 \in 0 .. MaxTick /\ 0 \in 0 .. BackoffMax /\ BackoffMin \in BackoffMin .. BackoffMax
  BY CmdBridgeAssumption
<1> USE DEF TypeOK, flags, locals, tick, retry, inputs
<1>1. CASE Top
  BY <1>1 DEF Top, Step
<1>2. CASE Exit
  BY <1>2, CallStarts DEF Exit, Step, Threads, Socks
<1>3. CASE PickConnect
  BY <1>3 DEF PickConnect, Step
<1>4. CASE ConnectOk
  BY <1>4, <1>0, CallStarts, ForgetType DEF ConnectOk, Step, Threads, Socks
<1>5. CASE ConnectFails
  BY <1>5, <1>0, CallStarts, ForgetType, BackOffType DEF ConnectFails, Step, Threads
<1>6. CASE PickSend
  BY <1>6 DEF PickSend, Step
<1>7. CASE GetSocket
  BY <1>7, ForgetType DEF GetSocket, Step
<1>8. CASE NoSocket
  BY <1>8, <1>0, CallStarts, ForgetType DEF NoSocket, Step, Threads
<1>9. CASE SendOk
  BY <1>9, <1>0, ForgetType DEF SendOk, Step, Socks
<1>10. CASE SendBlocks
  BY <1>10 DEF SendBlocks, Step
<1>11. CASE SendFails
  BY <1>11, CallStarts DEF SendFails, Step, Threads
<1>12. CASE Drop
  BY <1>12, <1>0, ForgetType, BackOffType DEF Drop, Step, Socks
<1>13. CASE Wait
  BY <1>13 DEF Wait, Step
<1>14. CASE Stop
  BY <1>14 DEF Stop
<1>15. CASE StopCloses
  BY <1>15 DEF StopCloses, Socks
<1>16. CASE PostIntent
  BY <1>16 DEF PostIntent
<1>17. CASE ReceiveVis
  BY <1>17, AgeTypes DEF ReceiveVis
<1>18. CASE FcCloses
  BY <1>18 DEF FcCloses, Socks
<1>19. CASE FcStarts
  BY <1>19 DEF FcStarts
<1>20. CASE FcStalls
  BY <1>20 DEF FcStalls, Socks
<1>21. CASE Unblock
  BY <1>21 DEF Unblock
<1>22. CASE Build
  <2>1. Desired \in CmdModes \cup {"Oversize"}
    BY DEF Desired, Intents, CmdModes
  <2>2. PICK fresh \in BOOLEAN : fresh <=> VisIsFresh
    OBVIOUS
  <2>3. blocked' \in {"none", "no_vis", "stale_vis"}
    BY <1>22 DEF Build
  <2>4. CASE tickIntent = "Oversize"
    BY <1>0, <1>22, <2>3, <2>4, ForgetType DEF Build, Step
  <2>5. CASE tickIntent # "Oversize"
    <3>1. cmd' = [mode |-> IF Desired = "Tracking" /\ ~fresh THEN "LandSafely" ELSE Desired,
                  tracked |-> fresh]
      BY <1>22, <2>2, <2>5, Zenon DEF Build
    <3>2. Desired # "Oversize"
      BY <2>5 DEF Desired
    <3>3. cmd' \in Cmds
      BY <2>1, <3>1, <3>2 DEF Cmds, CmdModes
    <3>4. QED
      BY <1>22, <2>3, <2>5, <3>3 DEF Build, Step
  <2>6. QED
    BY <2>4, <2>5
<1>23. CASE StopJoins
  <2>1. PICK ended \in BOOLEAN : ended <=> Ended
    OBVIOUS
  <2>2. joined' = ended
    BY <1>23, <2>1, Zenon DEF StopJoins
  <2>3. QED
    BY <1>23, <2>2, CallStarts DEF StopJoins, Threads
<1>24. CASE Elapse
  BY <1>24, <1>0, AgeTypes, CmdBridgeAssumption DEF Elapse, Smaller, Larger
<1>25. ASSUME NEW t \in Threads, SetConnected(t) PROVE TypeOK'
  BY <1>25, CallGoes, CallReturns DEF SetConnected, Calls
<1>26. CASE UNCHANGED vars
  BY <1>26 DEF vars
<1>27. QED
  BY <1>1, <1>2, <1>3, <1>4, <1>5, <1>6, <1>7, <1>8, <1>9, <1>10, <1>11, <1>12,
     <1>13, <1>14, <1>15, <1>16, <1>17, <1>18, <1>19, <1>20, <1>21, <1>22,
     <1>23, <1>24, <1>25, <1>26, Zenon DEF Next, Bridge, Stopper, Environment,
     Threads
-----------------------------------------------------------------------------
(* The steps of the two properties.                                        *)

LEMMA TrackingStep ==
    ASSUME TypeOK, TrackingNeedsLiveVis, [Next]_vars
    PROVE  TrackingNeedsLiveVis'
<1> USE DEF TrackingNeedsLiveVis, flags, locals, tick, retry, inputs
<1>1. CASE Build
  <2> SUFFICES ASSUME pc' = "get", cmd'.mode = "Tracking"
               PROVE  cmd'.tracked /\ visAge' <= VisFresh + tickAge'
    OBVIOUS
  <2>1. tickIntent # "Oversize"
    BY <1>1 DEF Build, Step
  <2>2. VisIsFresh
    <3> SUFFICES ASSUME ~VisIsFresh PROVE FALSE
      OBVIOUS
    <3>1. cmd'.mode = IF Desired = "Tracking" THEN "LandSafely" ELSE Desired
      BY <1>1, <2>1 DEF Build
    <3>2. QED
      BY <3>1
  <2>3. cmd'.tracked = VisIsFresh
    <3> HIDE DEF TrackingNeedsLiveVis
    <3>1. cmd' = [mode |-> IF Desired = "Tracking" /\ ~VisIsFresh THEN "LandSafely"
                          ELSE Desired, tracked |-> VisIsFresh]
      BY <1>1, <2>1, Zenon DEF Build
    <3>2. QED
      BY <3>1, Zenon
  <2>4. visAge <= VisFresh + tickAge
    BY <2>2, CmdBridgeAssumption, AgeTypes
    DEF VisIsFresh, VisAgeNow, Larger, TypeOK, VisAges
  <2>5. visAge' = visAge /\ tickAge' = tickAge
    BY <1>1, <2>1 DEF Build
  <2>6. QED
    BY <2>2, <2>3, <2>4, <2>5
<1>2. CASE Elapse
  <2> SUFFICES ASSUME pc = "get", cmd.mode = "Tracking"
               PROVE  visAge' <= VisFresh + tickAge'
    BY <1>2 DEF Elapse
  <2>1. tickAge < MaxTick /\ visAge <= VisFresh + tickAge
    BY <1>2 DEF Elapse
  <2>2. tickAge' = tickAge + 1
    BY <1>2, <2>1, CmdBridgeAssumption DEF Elapse, Smaller, TypeOK
  <2>3. visAge' \in VisAges /\ visAge' <= visAge + 1
    BY <1>2, <2>1, AgeTypes, CmdBridgeAssumption DEF Elapse, TypeOK, VisAges
  <2>4. visAge \in Int /\ visAge' \in Int /\ tickAge \in Int
    BY <2>3, CmdBridgeAssumption DEF TypeOK, VisAges
  <2>5. QED
    BY <2>1, <2>2, <2>3, <2>4, CmdBridgeAssumption
<1>3. CASE ReceiveVis
  BY <1>3, CmdBridgeAssumption DEF ReceiveVis, TypeOK
<1>4. CASE Top \/ Exit \/ PickConnect \/ ConnectOk \/ ConnectFails \/ PickSend
            \/ GetSocket \/ NoSocket \/ SendOk \/ SendBlocks \/ SendFails \/ Drop \/ Wait
  BY <1>4 DEF Step, Top, Exit, PickConnect, ConnectOk, ConnectFails, PickSend,
     GetSocket, NoSocket, SendOk, SendBlocks, SendFails, Drop, Wait
<1>5. CASE Stop \/ StopCloses \/ StopJoins \/ PostIntent \/ FcCloses \/ FcStarts \/ FcStalls \/ Unblock
  BY <1>5 DEF Stop, StopCloses, StopJoins, PostIntent, FcCloses, FcStarts,
     FcStalls, Unblock
<1>6. ASSUME NEW t \in Threads, SetConnected(t) PROVE TrackingNeedsLiveVis'
  BY <1>6 DEF SetConnected
<1>7. CASE UNCHANGED vars
  BY <1>7 DEF vars
<1>8. QED
  BY <1>1, <1>2, <1>3, <1>4, <1>5, <1>6, <1>7, Zenon DEF Next, Bridge, Stopper,
     Environment, Threads

LEMMA LinkStep ==
    ASSUME TypeOK, LinkInv, [Next]_vars
    PROVE  LinkInv'
<1> USE DEF LinkInv, SocketFollowsThread, OneAnnouncer, FlagsFollow, EndIsDown, JoinedIsDown,
            bridge, stopper, Up, flags, locals, tick, retry, inputs
<1>0. Idle.step = "idle" /\ Idle.value = FALSE
  BY DEF Idle
<1>1. CASE Top
  BY <1>0, <1>1 DEF Top, Step, Returned, Ended
<1>2. CASE PickConnect
  BY <1>0, <1>2 DEF PickConnect, Step, Returned, Ended
<1>3. CASE PickSend
  BY <1>0, <1>3 DEF PickSend, Step, Returned, Ended
<1>4. CASE GetSocket
  BY <1>0, <1>4 DEF GetSocket, Step, Returned, Ended
<1>5. CASE SendOk
  BY <1>0, <1>5 DEF SendOk, Step, Returned, Ended
<1>6. CASE SendBlocks
  BY <1>0, <1>6 DEF SendBlocks, Step, Returned, Ended
<1>7. CASE Drop
  BY <1>0, <1>7 DEF Drop, Step, Returned, Ended
<1>8. CASE Wait
  BY <1>0, <1>8 DEF Wait, Step, Returned, Ended
<1>9. CASE Build
  BY <1>0, <1>9 DEF Build, Step, Returned, Ended
<1>10. CASE Exit
  BY <1>0, <1>10, CallStarts DEF Exit, Step, Returned, Ended, TypeOK, Threads
<1>11. CASE ConnectOk
  BY <1>0, <1>11, CallStarts DEF ConnectOk, Step, Returned, Ended, TypeOK, Threads
<1>12. CASE ConnectFails
  BY <1>0, <1>12, CallStarts DEF ConnectFails, Step, Returned, Ended, TypeOK, Threads
<1>13. CASE NoSocket
  BY <1>0, <1>13, CallStarts DEF NoSocket, Step, Returned, Ended, TypeOK, Threads
<1>14. CASE SendFails
  BY <1>0, <1>14, CallStarts DEF SendFails, Step, Returned, Ended, TypeOK, Threads
<1>15. CASE StopJoins
  BY <1>0, <1>15, CallStarts DEF StopJoins, Step, Returned, Ended, TypeOK, Threads
<1>16. CASE Stop
  BY <1>0, <1>16 DEF Stop, Ended, Returned
<1>17. CASE StopCloses
  BY <1>0, <1>17 DEF StopCloses, Ended, Returned
<1>18. CASE PostIntent
  BY <1>0, <1>18 DEF PostIntent, Ended, Returned
<1>19. CASE ReceiveVis
  BY <1>0, <1>19 DEF ReceiveVis, Ended, Returned
<1>20. CASE FcCloses
  BY <1>0, <1>20 DEF FcCloses, Ended, Returned
<1>21. CASE FcStarts
  BY <1>0, <1>21 DEF FcStarts, Ended, Returned
<1>22. CASE FcStalls
  BY <1>0, <1>22 DEF FcStalls, Ended, Returned
<1>23. CASE Unblock
  BY <1>0, <1>23 DEF Unblock, Ended, Returned
<1>24. CASE Elapse
  BY <1>0, <1>24 DEF Elapse, Ended, Returned
<1>25. CASE SetConnected("bridge")
  BY <1>0, <1>25, CallGoes, CallReturns DEF SetConnected, Ended, Returned, TypeOK, Threads
<1>26. CASE SetConnected("stopper")
  BY <1>0, <1>26, CallGoes, CallReturns DEF SetConnected, Ended, Returned, TypeOK, Threads
<1>27. CASE UNCHANGED vars
  BY <1>27 DEF vars, Ended, Returned
<1>28. QED
  BY <1>1, <1>2, <1>3, <1>4, <1>5, <1>6, <1>7, <1>8, <1>9, <1>10, <1>11, <1>12,
     <1>13, <1>14, <1>15, <1>16, <1>17, <1>18, <1>19, <1>20, <1>21, <1>22, <1>23,
     <1>24, <1>25, <1>26, <1>27, Zenon DEF Next, Bridge, Stopper, Environment
-----------------------------------------------------------------------------
(* The theorems.                                                           *)

LEMMA IInvInit == Init => IInv
<1> SUFFICES ASSUME Init PROVE IInv
  OBVIOUS
<1>1. /\ call \in [Threads -> Calls]
      /\ bridge = [step |-> "state", value |-> FALSE] /\ stopper = Idle
  BY IdleType DEF Init, Threads, Calls, bridge, stopper
<1>2. TypeOK
  <2>1. 0 \in 0 .. MaxTick /\ 0 \in 0 .. BackoffMax /\ BackoffMin \in BackoffMin .. BackoffMax
    BY CmdBridgeAssumption
  <2>2. QED
    BY <1>1, <2>1, AgeTypes, IdleType DEF Init, TypeOK, Socks, Intents
<1>3. QED
  BY <1>1, <1>2
  DEF Init, IInv, TrackingNeedsLiveVis, LinkInv, SocketFollowsThread, OneAnnouncer,
      FlagsFollow, EndIsDown, JoinedIsDown, Up, Idle

LEMMA IInvNext == IInv /\ [Next]_vars => IInv'
BY TypeStep, TrackingStep, LinkStep DEF IInv

LEMMA IInvAlways == Spec => []IInv
BY IInvInit, IInvNext, PTL DEF Spec

\* The bridge's state keeps its types: the flags, the retry and its backoff within
\* connect_backoff_max_s, and the pending steps of both threads.
THEOREM TypeCorrect == Spec => []TypeOK
<1>1. IInv => TypeOK
  BY DEF IInv
<1>2. QED
  BY <1>1, IInvAlways, PTL

\* A CMD that asks for Tracking carries a sample of a live VIS stream, whatever is
\* received and however long the tick takes between the two reads of SharedState.
THEOREM TrackingIsGated == Spec => []TrackingNeedsLiveVis
<1>1. IInv => TrackingNeedsLiveVis
  BY DEF IInv
<1>2. QED
  BY <1>1, IInvAlways, PTL

\* Between ticks the link status is the socket's, whatever the peer does and whichever
\* of connect, send and build failed.
THEOREM LinkStatusIsTrue == Spec => []LinkStatusIsTruthful
<1>1. IInv => LinkStatusIsTruthful
  <2> SUFFICES ASSUME IInv, st = "running", pc \in {"top", "wait"}, Returned("bridge")
               PROVE  (fcConnected <=> sock # "none") /\ (told <=> sock # "none")
    BY DEF LinkStatusIsTruthful
  <2>1. bridge.step = "idle"
    BY DEF Returned, bridge, Idle
  <2>2. fcConnected = Up /\ lastConnected = Up
    BY <2>1 DEF IInv, LinkInv, FlagsFollow
  <2>3. told = lastConnected
    BY <2>1 DEF IInv, LinkInv, OneAnnouncer
  <2>4. QED
    BY <2>2, <2>3 DEF Up
<1>2. QED
  BY <1>1, IInvAlways, PTL

\* A stopped bridge has no socket and reports none, however the steps of stop() fell
\* between those of the thread; a join that timed out may leave the last announcement
\* behind, one that returned does not.
THEOREM StopIsClean == Spec => []StopLeavesNothing
<1>1. IInv => StopLeavesNothing
  <2> SUFFICES ASSUME IInv, Stopped, Ended
               PROVE  /\ sock = "none" /\ ~fcConnected /\ ~lastConnected
                      /\ joined => ~told
    BY DEF StopLeavesNothing
  <2>1. pc = "end" /\ bridge.step = "idle"
    BY DEF Ended, Returned, bridge, Idle
  <2>2. QED
    BY <2>1 DEF IInv, LinkInv, SocketFollowsThread, EndIsDown, JoinedIsDown
<1>2. QED
  BY <1>1, IInvAlways, PTL

=============================================================================
