------------------------------- MODULE Fanout -------------------------------
(***************************************************************************)
(* The backend's event fan-out: the threads that broadcast (broadcast.py), *)
(* the bounded queue of each viewer (ws_manager.py) and the WebSocket      *)
(* endpoint that serves it (app.py), in every interleaving of their steps  *)
(* between two lock acquisitions.                                          *)
(*                                                                         *)
(* The link's state is what LINK_STATUS reports of it: whether the flight  *)
(* controller is connected and whether the safety gate blocks tracking.    *)
(* Time is the set of rate-limited kinds whose interval has passed.        *)
(***************************************************************************)
EXTENDS Naturals, Sequences

CONSTANTS
    Viewers,     \* client ids, in the order of registration
    Ingests,     \* the ingest threads that broadcast samples
    Causes,      \* what the bridge tells: "connection" and "gate"
    QueueMax,    \* queue_max
    KeepsUp,     \* viewers take a thread's events before it has new ones
    MaxSeq,      \* bound: seqs saturate here
    Endless      \* threads go on broadcasting at MaxSeq

ASSUME FanoutAssumption ==
    /\ Viewers \subseteq Nat \ {0} /\ Viewers # {}
    /\ Ingests \subseteq {"tel", "vis"} /\ Causes \subseteq {"connection", "gate"}
    /\ QueueMax \in Nat \ {0} /\ MaxSeq \in Nat
    /\ KeepsUp \in BOOLEAN /\ Endless \in BOOLEAN

VARIABLES
    link,        \* SharedState: fc_connected and tracking_blocked_reason
    sampled,     \* ingests that have received a sample
    due,         \* rate-limited kinds whose interval has passed
    nextSeq,     \* _next_event_seq
    job,         \* what each broadcasting thread is about
    stage,       \* each viewer's endpoint
    hello,       \* the events its endpoint sends before those of its queue
    queue,       \* its queue
    view,        \* the last LINK_STATUS it received
    posted, taken   \* history: see FeedsEachViewer

vars == <<link, sampled, due, nextSeq, job, stage, hello, queue, view, posted, taken>>

shared == <<link, sampled, due>>
endpoints == <<stage, hello, view, taken>>

Threads == {"heartbeat", "bridge"} \cup Ingests
Links == [connected : BOOLEAN, blocked : BOOLEAN]
Warnings ==
    (IF "connection" \in Causes THEN {"fc_reconnected", "fc_disconnected"} ELSE {})
    \cup (IF "gate" \in Causes THEN {"tracking_blocked"} ELSE {})
    \cup {i \o "_oversize_drop" : i \in Ingests}
Events == {"LINK_STATUS", "WARNING"} \cup Ingests

NoLink == [connected |-> FALSE, blocked |-> FALSE]
Idle == [phase |-> "idle"]

Envelopes == [seq : 0 .. MaxSeq, event : Events, data : Links, by : Threads, n : 0 .. MaxSeq]

Jobs ==
    {Idle} \cup [phase : {"build"}]
    \cup [phase : {"seal"}, event : Events, data : Links]
    \cup [phase : {"post"}, event : Events, data : Links, seq : 0 .. MaxSeq,
          todo : SUBSET Viewers]

TypeOK ==
    /\ link \in Links /\ sampled \subseteq Ingests /\ due \subseteq Warnings \cup Ingests
    /\ nextSeq \in 0 .. MaxSeq
    /\ job \in [Threads -> Jobs]
    /\ stage \in [Viewers -> {"absent", "accepted", "greeting", "live", "gone"}]
    /\ hello \in [Viewers -> Seq(Events)]
    /\ queue \in [Viewers -> Seq(Envelopes)]
    /\ \A v \in Viewers : Len(queue[v]) <= QueueMax
    /\ view \in [Viewers -> Links]

Init ==
    /\ link = NoLink /\ sampled = {} /\ due = Warnings \cup Ingests
    /\ nextSeq = 0
    /\ job = [t \in Threads |-> Idle]
    /\ stage = [v \in Viewers |-> "absent"]
    /\ hello = [v \in Viewers |-> <<>>] /\ queue = [v \in Viewers |-> <<>>]
    /\ view = [v \in Viewers |-> NoLink]
    /\ posted = [v \in Viewers |-> 0] /\ taken = [v \in Viewers |-> 0]
-----------------------------------------------------------------------------
(* What the threads have to tell.                                          *)

Room == nextSeq < MaxSeq \/ Endless

\* A viewer that keeps up has none of t's events left.
TakenUp(t) ==
    KeepsUp => \A v \in Viewers, i \in 1 .. QueueMax : i <= Len(queue[v]) => queue[v][i].by # t

Begins(t, next) ==
    /\ job[t] = Idle /\ TakenUp(t)
    /\ Room
    /\ job' = [job EXCEPT ![t] = next]

BuildLink == [phase |-> "build"]
Warning == [phase |-> "seal", event |-> "WARNING", data |-> NoLink]

\* emit_warning: not again within the interval.  What follows a warning that is
\* suppressed is otherwise.
Warns(t, kind, otherwise) ==
    /\ Begins(t, IF kind \in due THEN Warning ELSE otherwise)
    /\ due' = due \ {kind}

\* Fault: the heartbeat beats on a connected link only.
HeartbeatWhenConnected ==
    /\ link.connected
    /\ Begins("heartbeat", BuildLink)
    /\ UNCHANGED <<shared, nextSeq, endpoints, queue, posted>>

Heartbeat ==
    /\ Begins("heartbeat", BuildLink)
    /\ UNCHANGED <<shared, nextSeq, endpoints, queue, posted>>

\* The bridge connects or loses the flight controller.
ConnectionChanges ==
    /\ "connection" \in Causes
    /\ link' = [link EXCEPT !.connected = ~@]
    /\ Warns("bridge", IF link'.connected THEN "fc_reconnected" ELSE "fc_disconnected", BuildLink)
    /\ UNCHANGED <<sampled, nextSeq, endpoints, queue, posted>>

TrackingBlocked ==
    /\ "gate" \in Causes /\ ~link.blocked
    /\ link' = [link EXCEPT !.blocked = TRUE]
    /\ Warns("bridge", "tracking_blocked", BuildLink)
    /\ UNCHANGED <<sampled, nextSeq, endpoints, queue, posted>>

\* Nobody is told: the next LINK_STATUS shows it.
TrackingUnblocked ==
    /\ link.blocked /\ job["bridge"] = Idle
    /\ link' = [link EXCEPT !.blocked = FALSE]
    /\ UNCHANGED <<sampled, due, nextSeq, job, endpoints, queue, posted>>

\* A valid datagram: broadcast unless one was within the period.
SampleArrives(i) ==
    /\ Begins(i, IF i \in due THEN [phase |-> "seal", event |-> i, data |-> NoLink] ELSE Idle)
    /\ sampled' = sampled \cup {i}
    /\ due' = due \ {i}
    /\ UNCHANGED <<link, nextSeq, endpoints, queue, posted>>

OversizeDrop(i) ==
    /\ Warns(i, i \o "_oversize_drop", Idle)
    /\ UNCHANGED <<link, sampled, nextSeq, endpoints, queue, posted>>

IntervalPasses ==
    /\ \E kind \in (Warnings \cup Ingests) \ due : due' = due \cup {kind}
    /\ UNCHANGED <<link, sampled, nextSeq, job, endpoints, queue, posted>>
-----------------------------------------------------------------------------
(* A broadcast: the status is read, numbered, and put into the queues.     *)

Build(t) ==
    /\ job[t].phase = "build"
    /\ job' = [job EXCEPT ![t] = [phase |-> "seal", event |-> "LINK_STATUS", data |-> link]]
    /\ UNCHANGED <<shared, nextSeq, endpoints, queue, posted>>

Numbered == IF nextSeq < MaxSeq THEN nextSeq + 1 ELSE nextSeq

Registered == {v \in Viewers : stage[v] \in {"accepted", "greeting", "live"}}

\* After a warning the bridge goes on to the LINK_STATUS.
Done(t) == IF t = "bridge" /\ job[t].event = "WARNING" THEN BuildLink ELSE Idle

\* The envelope gets its seq, then the clients are listed: two acquisitions of one
\* lock, and whatever comes in between could as well come before.
Seal(t) ==
    /\ job[t].phase = "seal" /\ Room
    /\ nextSeq' = Numbered
    /\ job' = [job EXCEPT ![t] =
          IF Registered = {} THEN Done(t)
          ELSE [phase |-> "post", event |-> @.event, data |-> @.data, seq |-> Numbered,
                todo |-> Registered]]
    /\ UNCHANGED <<shared, endpoints, queue, posted>>

\* Fault: a full queue refuses the new event.
PushedOrRefused(q, e) == IF Len(q) >= QueueMax THEN q ELSE Append(q, e)

\* popleft when full, then append.
Pushed(q, e) == Append(IF Len(q) >= QueueMax THEN Tail(q) ELSE q, e)

PostedTo(v, n) == IF n <= MaxSeq THEN [posted EXCEPT ![v] = n] ELSE posted

\* To one client of the list at a time.  The queue of one that left is nobody's.
Post(t) ==
    /\ job[t].phase = "post"
    /\ \E v \in job[t].todo :
          LET e == [seq |-> job[t].seq, event |-> job[t].event, data |-> job[t].data, by |-> t,
                    n |-> PostedTo(v, posted[v] + 1)[v]]
              rest == job[t].todo \ {v}
          IN  /\ \A w \in job[t].todo : v <= w
              /\ IF stage[v] = "gone"
                 THEN UNCHANGED <<queue, posted>>
                 ELSE /\ queue' = [queue EXCEPT ![v] = Pushed(@, e)]
                      /\ posted' = PostedTo(v, posted[v] + 1)
              /\ job' = [job EXCEPT ![t] = IF rest = {} THEN Done(t) ELSE [@ EXCEPT !.todo = rest]]
    /\ UNCHANGED <<shared, nextSeq, endpoints>>

Broadcast(t) == Build(t) \/ Seal(t) \/ Post(t)
-----------------------------------------------------------------------------
(* A viewer's endpoint: it registers, then greets, then serves its queue.  *)

Join(v) ==
    /\ stage[v] = "absent" /\ \A w \in Viewers : w < v => stage[w] # "absent"
    /\ stage' = [stage EXCEPT ![v] = "accepted"]
    /\ UNCHANGED <<shared, nextSeq, job, hello, queue, view, posted, taken>>

\* The latest sample of a stream, if there was one.
Snapshot(i) == IF i \in sampled THEN <<i>> ELSE <<>>

\* The events of the greeting; view holds the status it will show.
Greet(v) ==
    /\ stage[v] = "accepted"
    /\ stage' = [stage EXCEPT ![v] = "greeting"]
    /\ view' = [view EXCEPT ![v] = link]
    /\ hello' = [hello EXCEPT ![v] = <<"LINK_STATUS">>
                    \o Snapshot("tel") \o Snapshot("vis")]
    /\ UNCHANGED <<shared, nextSeq, job, queue, posted, taken>>

SendHello(v) ==
    /\ stage[v] = "greeting" /\ Room
    /\ nextSeq' = Numbered
    /\ hello' = [hello EXCEPT ![v] = Tail(@)]
    /\ stage' = [stage EXCEPT ![v] = IF Len(hello[v]) = 1 THEN "live" ELSE @]
    /\ UNCHANGED <<shared, job, queue, view, posted, taken>>

Deliver(v) ==
    /\ stage[v] = "live" /\ queue[v] # <<>>
    /\ LET e == Head(queue[v]) IN
          /\ queue' = [queue EXCEPT ![v] = Tail(@)]
          /\ taken' = [taken EXCEPT ![v] = e.n]
          /\ view' = IF e.event = "LINK_STATUS" THEN [view EXCEPT ![v] = e.data] ELSE view
    /\ UNCHANGED <<shared, nextSeq, job, stage, hello, posted>>

\* The viewer disconnects; its id is not used again.
Leave(v) ==
    /\ v \in Registered
    /\ stage' = [stage EXCEPT ![v] = "gone"]
    /\ hello' = [hello EXCEPT ![v] = <<>>] /\ queue' = [queue EXCEPT ![v] = <<>>]
    /\ UNCHANGED <<shared, nextSeq, job, view, posted, taken>>

Serve(v) == Greet(v) \/ SendHello(v) \/ Deliver(v)
-----------------------------------------------------------------------------
Next ==
    \/ Heartbeat \/ ConnectionChanges \/ TrackingBlocked \/ TrackingUnblocked
    \/ \E i \in Ingests : SampleArrives(i) \/ OversizeDrop(i)
    \/ IntervalPasses
    \/ \E t \in Threads : Broadcast(t)
    \/ \E v \in Viewers : Join(v) \/ Serve(v) \/ Leave(v)

Spec == Init /\ [][Next]_vars

\* The threads run and the endpoints serve; nobody has to join, and nothing has to happen.
Fairness ==
    /\ WF_vars(Heartbeat)
    /\ \A t \in Threads : WF_vars(Broadcast(t))
    /\ \A v \in Viewers : WF_vars(Serve(v))

FairSpec == Spec /\ Fairness
-----------------------------------------------------------------------------
(* Properties.                                                             *)

\* The queues lose events of slow viewers only, the oldest first, never more than they
\* must, and reorder or repeat none, whichever threads broadcast at once.
Feed == INSTANCE EventFeed WITH Depth <- QueueMax, taken <- taken, posted <- posted
FeedsEachViewer == Feed!Spec

\* Once the link's state settles, a viewer that stays and keeps up shows it in the end,
\* whatever races brought older statuses to it after newer ones.
ViewSettles ==
    \A v \in Viewers, l \in Links :
        <>[](link = l) => <>[](stage[v] = "live" => view[v] = l)
=============================================================================
