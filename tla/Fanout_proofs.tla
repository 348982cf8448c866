---------------------------- MODULE Fanout_proofs ----------------------------
(* Theorems about the fan-out of events, for every set of viewers, every     *)
(* length of their queues and every interleaving of the threads.             *)
EXTENDS Fanout, FiniteSetTheorems, SequenceTheorems, TLAPS

-----------------------------------------------------------------------------
(* Jobs, by their phase.                                                   *)

Seals == [phase : {"seal"}, event : Events, data : Links]
Posts == [phase : {"post"}, event : Events, data : Links, seq : 0 .. MaxSeq,
          todo : SUBSET Viewers]

\* The threads that still have an event for v.
Pending(v) == {t \in Threads : job[t].phase = "post" /\ v \in job[t].todo}

-----------------------------------------------------------------------------
(* The inductive invariant.                                                *)

\* What a viewer has not taken is in its queue, up to what a full queue drops, and
\* the queue holds the last events posted, in order.
Fed(v) ==
    /\ taken[v] <= posted[v]
    /\ Len(queue[v]) = IF posted[v] - taken[v] > QueueMax THEN QueueMax
                       ELSE posted[v] - taken[v]
    /\ \A i \in 1 .. Len(queue[v]) : queue[v][i].n = posted[v] - Len(queue[v]) + i

\* Every event posted to a viewer, and every one on its way to it, has a seq of its own.
Numbers(v) == posted[v] + Cardinality(Pending(v)) <= nextSeq

FeedInv ==
    /\ TypeOK
    /\ posted \in [Viewers -> 0 .. MaxSeq] /\ taken \in [Viewers -> 0 .. MaxSeq]
    /\ \A v \in Viewers : Numbers(v)
    /\ \A v \in Viewers : stage[v] # "gone" => Fed(v)
    /\ \A v \in Viewers : stage[v] = "greeting" => hello[v] # <<>>

-----------------------------------------------------------------------------
(* The type invariant.                                                     *)

LEMMA JobShape ==
    ASSUME NEW j \in Jobs
    PROVE  /\ j.phase = "seal" => j \in Seals
           /\ j.phase = "post" => j \in Posts
BY DEF Jobs, Idle, Seals, Posts

LEMMA JobTypes ==
    /\ Idle \in Jobs /\ BuildLink \in Jobs /\ Warning \in Jobs
    /\ Seals \subseteq Jobs /\ Posts \subseteq Jobs
    /\ Idle.phase # "post" /\ BuildLink.phase # "post" /\ Warning.phase # "post"
    /\ \A j \in Seals : j.phase # "post"
<1>1. NoLink \in Links
  BY DEF NoLink, Links
<1>2. QED
  BY <1>1 DEF Jobs, Idle, BuildLink, Warning, Seals, Posts, Events

LEMMA DoneType ==
    ASSUME NEW t \in Threads
    PROVE  Done(t) \in Jobs /\ Done(t).phase # "post"
BY JobTypes DEF Done

LEMMA NumberedType ==
    ASSUME nextSeq \in 0 .. MaxSeq
    PROVE  /\ Numbered \in 0 .. MaxSeq
           /\ nextSeq <= Numbered
           /\ ~Endless /\ Room => Numbered = nextSeq + 1
BY FanoutAssumption DEF Numbered, Room

\* Pushing keeps the queue within its bound, and drops the head when it must.
LEMMA PushedType ==
    ASSUME NEW q \in Seq(Envelopes), Len(q) <= QueueMax, NEW e \in Envelopes
    PROVE  /\ Pushed(q, e) \in Seq(Envelopes)
           /\ Len(Pushed(q, e)) = IF Len(q) >= QueueMax THEN QueueMax ELSE Len(q) + 1
           /\ \A i \in 1 .. Len(Pushed(q, e)) :
                 Pushed(q, e)[i] =
                    IF i = Len(Pushed(q, e)) THEN e
                    ELSE q[i + (IF Len(q) >= QueueMax THEN 1 ELSE 0)]
<1> DEFINE r == IF Len(q) >= QueueMax THEN Tail(q) ELSE q
<1>1. Len(q) \in Nat /\ QueueMax \in Nat \ {0}
  BY FanoutAssumption
<1>2. /\ r \in Seq(Envelopes)
      /\ Len(r) = IF Len(q) >= QueueMax THEN QueueMax - 1 ELSE Len(q)
      /\ \A i \in 1 .. Len(r) : r[i] = q[i + (IF Len(q) >= QueueMax THEN 1 ELSE 0)]
  <2>1. CASE Len(q) >= QueueMax
    <3>1. q # <<>>
      BY <1>1, <2>1
    <3>2. /\ Tail(q) \in Seq(Envelopes) /\ Len(Tail(q)) = Len(q) - 1
          /\ \A i \in 1 .. Len(Tail(q)) : Tail(q)[i] = q[i + 1]
      BY <3>1, HeadTailProperties
    <3>3. r = Tail(q) /\ Len(q) = QueueMax
      BY <1>1, <2>1
    <3> HIDE DEF r
    <3>4. QED
      BY <1>1, <2>1, <3>2, <3>3
  <2>2. CASE ~(Len(q) >= QueueMax)
    BY <1>1, <2>2
  <2>3. QED
    BY <2>1, <2>2
<1>3. Pushed(q, e) = Append(r, e)
  BY DEF Pushed
<1> HIDE DEF r
<1>4. /\ Append(r, e) \in Seq(Envelopes)
      /\ Len(Append(r, e)) = Len(r) + 1
      /\ \A i \in 1 .. Len(r) : Append(r, e)[i] = r[i]
      /\ Append(r, e)[Len(r) + 1] = e
  BY <1>2, AppendProperties
<1>5. QED
  BY <1>1, <1>2, <1>3, <1>4

\* What one job becomes is all that a thread's step changes of the jobs.
LEMMA JobStep ==
    ASSUME TypeOK, NEW t \in Threads, NEW j \in Jobs, job' = [job EXCEPT ![t] = j]
    PROVE  /\ job' \in [Threads -> Jobs]
           /\ \A v : \A u \in Threads :
                 u \in Pending(v)' <=>
                    IF u = t THEN j.phase = "post" /\ v \in j.todo ELSE u \in Pending(v)
BY DEF TypeOK, Pending

LEMMA BeginsType ==
    ASSUME TypeOK, NEW t \in Threads, NEW j \in Jobs, j.phase # "post", Begins(t, j)
    PROVE  /\ job' \in [Threads -> Jobs]
           /\ \A v : Pending(v)' \subseteq Pending(v)
<1>1. job' = [job EXCEPT ![t] = j]
  BY DEF Begins
<1>2. \A v : Pending(v)' \subseteq Threads
  BY DEF Pending
<1>3. QED
  BY <1>1, <1>2, JobStep

\* The steps that begin a broadcast, or do not.
Beginnings ==
    \/ Heartbeat \/ ConnectionChanges \/ TrackingBlocked \/ TrackingUnblocked
    \/ \E i \in Ingests : SampleArrives(i) \/ OversizeDrop(i)
    \/ IntervalPasses

LEMMA BeginningType ==
    ASSUME TypeOK, Beginnings
    PROVE  /\ job' \in [Threads -> Jobs]
           /\ \A v : Pending(v)' \subseteq Pending(v)
           /\ link' \in Links /\ sampled' \subseteq Ingests
           /\ due' \subseteq Warnings \cup Ingests
           /\ UNCHANGED <<nextSeq, endpoints, queue, posted>>
<1>1. /\ "heartbeat" \in Threads /\ "bridge" \in Threads
      /\ Ingests \subseteq Threads
  BY DEF Threads
<1>2. \A connected, blocked \in BOOLEAN : [connected |-> connected, blocked |-> blocked] \in Links
  BY DEF Links
<1>3. job' = job => \A v : Pending(v)' \subseteq Pending(v)
  BY DEF Pending
<1>4. CASE Heartbeat
  BY <1>1, <1>4, BeginsType, JobTypes DEF Heartbeat, TypeOK, shared
<1>5. CASE ConnectionChanges
  <2>1. link' \in Links
    BY <1>5, Zenon DEF ConnectionChanges, TypeOK, Links
  <2>2. QED
    BY <1>1, <1>5, <2>1, BeginsType, JobTypes DEF ConnectionChanges, Warns, TypeOK
<1>6. CASE TrackingBlocked
  <2>1. link' \in Links
    BY <1>6, Zenon DEF TrackingBlocked, TypeOK, Links
  <2>2. QED
    BY <1>1, <1>6, <2>1, BeginsType, JobTypes DEF TrackingBlocked, Warns, TypeOK
<1>7. CASE TrackingUnblocked
  <2>1. link' \in Links
    BY <1>7, Zenon DEF TrackingUnblocked, TypeOK, Links
  <2>2. QED
    BY <1>3, <1>7, <2>1 DEF TrackingUnblocked, TypeOK
<1>8. ASSUME NEW i \in Ingests, SampleArrives(i)
      PROVE  /\ job' \in [Threads -> Jobs]
             /\ \A v : Pending(v)' \subseteq Pending(v)
             /\ link' \in Links /\ sampled' \subseteq Ingests
             /\ due' \subseteq Warnings \cup Ingests
             /\ UNCHANGED <<nextSeq, endpoints, queue, posted>>
  <2> DEFINE sample == [phase |-> "seal", event |-> i, data |-> NoLink]
  <2>1. sample \in Seals
    BY <1>2 DEF Seals, NoLink, Events
  <2> HIDE DEF sample
  <2>2. Begins(i, IF i \in due THEN sample ELSE Idle)
    BY <1>8 DEF SampleArrives, sample
  <2>3. QED
    BY <1>1, <1>8, <2>1, <2>2, BeginsType, JobTypes DEF SampleArrives, TypeOK
<1>9. ASSUME NEW i \in Ingests, OversizeDrop(i)
      PROVE  /\ job' \in [Threads -> Jobs]
             /\ \A v : Pending(v)' \subseteq Pending(v)
             /\ link' \in Links /\ sampled' \subseteq Ingests
             /\ due' \subseteq Warnings \cup Ingests
             /\ UNCHANGED <<nextSeq, endpoints, queue, posted>>
  BY <1>1, <1>9, BeginsType, JobTypes DEF OversizeDrop, Warns, TypeOK
<1>10. CASE IntervalPasses
  BY <1>3, <1>10 DEF IntervalPasses, TypeOK
<1>11. QED
  BY <1>4, <1>5, <1>6, <1>7, <1>8, <1>9, <1>10 DEF Beginnings

-----------------------------------------------------------------------------
(* Counting what is on its way to a viewer.                                *)

LEMMA ThreadsFinite == IsFiniteSet(Threads)
<1>1. Threads \subseteq {"heartbeat", "bridge", "tel", "vis"}
  BY FanoutAssumption DEF Threads
<1>2. IsFiniteSet({"heartbeat"})
  BY FS_Singleton
<1>3. IsFiniteSet({"heartbeat"} \cup {"bridge"})
  BY <1>2, FS_AddElement
<1>4. IsFiniteSet(({"heartbeat"} \cup {"bridge"}) \cup {"tel"})
  BY <1>3, FS_AddElement
<1>5. IsFiniteSet((({"heartbeat"} \cup {"bridge"}) \cup {"tel"}) \cup {"vis"})
  BY <1>4, FS_AddElement
<1>6. Threads \in SUBSET ((({"heartbeat"} \cup {"bridge"}) \cup {"tel"}) \cup {"vis"})
  BY <1>1
<1>7. QED
  BY <1>5, <1>6, FS_Subset

LEMMA SubsetCounts ==
    ASSUME NEW S \in SUBSET Threads, NEW T \in SUBSET S
    PROVE  /\ IsFiniteSet(S)
           /\ Cardinality(S) \in Nat /\ Cardinality(T) \in Nat
           /\ Cardinality(T) <= Cardinality(S)
<1>1. IsFiniteSet(S)
  BY ThreadsFinite, FS_Subset
<1>2. IsFiniteSet(T) /\ Cardinality(T) <= Cardinality(S)
  BY <1>1, FS_Subset
<1>3. QED
  BY <1>1, <1>2, FS_CardinalityType

\* Nobody is sent more by a step that posts nothing and lists no client.
LEMMA NumbersKept ==
    ASSUME FeedInv, posted' = posted, nextSeq' \in Nat, nextSeq <= nextSeq',
           \A v : Pending(v)' \subseteq Pending(v)
    PROVE  \A v \in Viewers : Numbers(v)'
<1> SUFFICES ASSUME NEW v \in Viewers PROVE Numbers(v)'
  OBVIOUS
<1> DEFINE S == Pending(v)
           T == Pending(v)'
<1>1. S \in SUBSET Threads /\ T \in SUBSET S
  BY DEF Pending
<1>2. posted[v] \in Nat /\ nextSeq \in Nat /\ posted[v] + Cardinality(S) <= nextSeq
  BY DEF FeedInv, TypeOK, Numbers
<1> HIDE DEF S, T
<1>3. Cardinality(S) \in Nat /\ Cardinality(T) \in Nat /\ Cardinality(T) <= Cardinality(S)
  BY <1>1, SubsetCounts
<1>4. posted[v] + Cardinality(T) <= nextSeq'
  BY <1>2, <1>3
<1>5. QED
  BY <1>4 DEF Numbers, T

\* A viewer that left stays away, and the others keep what they were fed.
LEMMA FedKept ==
    ASSUME FeedInv, UNCHANGED <<queue, posted, taken>>,
           \A v \in Viewers : stage[v] = "gone" => stage'[v] = "gone"
    PROVE  \A v \in Viewers : stage'[v] # "gone" => Fed(v)'
BY DEF FeedInv, Fed

-----------------------------------------------------------------------------
(* Every step keeps the invariant.                                         *)

LEMMA FeedInit == Init => FeedInv
<1> SUFFICES ASSUME Init PROVE FeedInv
  OBVIOUS
<1>1. \A v : Pending(v) = {}
  BY DEF Init, Pending, Idle
<1>2. NoLink \in Links
  BY DEF NoLink, Links
<1>3. TypeOK
  BY <1>2, JobTypes, FanoutAssumption DEF Init, TypeOK
<1>4. ASSUME NEW v \in Viewers PROVE Numbers(v)
  <2>1. Cardinality(Pending(v)) = 0
    BY <1>1, FS_EmptySet
  <2>2. posted[v] = 0 /\ nextSeq = 0
    BY DEF Init
  <2>3. QED
    BY <2>1, <2>2 DEF Numbers
<1>5. ASSUME NEW v \in Viewers PROVE Fed(v)
  <2>1. queue[v] = <<>> /\ posted[v] = 0 /\ taken[v] = 0
    BY DEF Init
  <2>2. Len(queue[v]) = 0
    BY <2>1
  <2>3. QED
    BY <2>1, <2>2, FanoutAssumption DEF Fed
<1>6. QED
  BY <1>3, <1>4, <1>5, FanoutAssumption DEF FeedInv, Init

LEMMA BeginningInv == FeedInv /\ Beginnings => FeedInv'
<1> SUFFICES ASSUME FeedInv, Beginnings PROVE FeedInv'
  OBVIOUS
<1>1. TypeOK
  BY DEF FeedInv
<1>2. /\ job' \in [Threads -> Jobs]
      /\ \A v : Pending(v)' \subseteq Pending(v)
      /\ link' \in Links /\ sampled' \subseteq Ingests
      /\ due' \subseteq Warnings \cup Ingests
      /\ UNCHANGED <<nextSeq, stage, hello, view, taken, queue, posted>>
  BY <1>1, BeginningType DEF endpoints
<1>3. TypeOK'
  BY <1>1, <1>2 DEF TypeOK
<1>4. \A v \in Viewers : Numbers(v)'
  BY <1>1, <1>2, NumbersKept, FanoutAssumption DEF TypeOK
<1>5. \A v \in Viewers : stage'[v] # "gone" => Fed(v)'
  BY <1>2, FedKept
<1>6. QED
  BY <1>2, <1>3, <1>4, <1>5 DEF FeedInv

LEMMA BuildInv == ASSUME NEW t \in Threads PROVE FeedInv /\ Build(t) => FeedInv'
<1> SUFFICES ASSUME FeedInv, Build(t) PROVE FeedInv'
  OBVIOUS
<1> DEFINE status == [phase |-> "seal", event |-> "LINK_STATUS", data |-> link]
<1>1. TypeOK
  BY DEF FeedInv
<1>2. status \in Seals
  BY <1>1 DEF Seals, TypeOK, Events
<1>3. /\ job' = [job EXCEPT ![t] = status]
      /\ UNCHANGED <<link, sampled, due, nextSeq, stage, hello, view, taken, queue, posted>>
  BY DEF Build, shared, endpoints
<1> HIDE DEF status
<1>4. /\ job' \in [Threads -> Jobs]
      /\ \A v : Pending(v)' \subseteq Pending(v)
  <2>1. \A v : Pending(v)' \subseteq Threads
    BY DEF Pending
  <2>2. QED
    BY <1>1, <1>2, <1>3, <2>1, JobStep, JobTypes
<1>5. TypeOK'
  BY <1>1, <1>3, <1>4 DEF TypeOK
<1>6. \A v \in Viewers : Numbers(v)'
  BY <1>1, <1>3, <1>4, NumbersKept, FanoutAssumption DEF TypeOK
<1>7. \A v \in Viewers : stage'[v] # "gone" => Fed(v)'
  BY <1>3, FedKept
<1>8. QED
  BY <1>3, <1>5, <1>6, <1>7 DEF FeedInv

\* Sealing uses up a seq and owes the event to each client listed.
LEMMA SealInv ==
    ASSUME ~Endless, NEW t \in Threads
    PROVE  FeedInv /\ Seal(t) => FeedInv'
<1> SUFFICES ASSUME FeedInv, Seal(t) PROVE FeedInv'
  OBVIOUS
<1> DEFINE j == IF Registered = {} THEN Done(t)
                ELSE [phase |-> "post", event |-> job[t].event, data |-> job[t].data,
                      seq |-> Numbered, todo |-> Registered]
<1>1. TypeOK
  BY DEF FeedInv
<1>2. /\ job' = [job EXCEPT ![t] = j]
      /\ UNCHANGED <<link, sampled, due, stage, hello, view, taken, queue, posted>>
  BY <1>1 DEF Seal, shared, endpoints, TypeOK
<1>3. Numbered \in 0 .. MaxSeq /\ nextSeq' = nextSeq + 1 /\ nextSeq' \in 0 .. MaxSeq
  BY <1>1, NumberedType DEF Seal, TypeOK
<1>4. j \in Jobs
  <2>1. job[t] \in Seals
    BY <1>1, JobShape DEF Seal, TypeOK
  <2>2. Registered \in SUBSET Viewers
    BY DEF Registered
  <2>3. [phase |-> "post", event |-> job[t].event, data |-> job[t].data,
         seq |-> Numbered, todo |-> Registered] \in Posts
    BY <1>3, <2>1, <2>2 DEF Seals, Posts
  <2>4. QED
    BY <2>3, DoneType, JobTypes
<1> HIDE DEF j
<1>5. /\ job' \in [Threads -> Jobs]
      /\ \A v : Pending(v)' \in SUBSET (Pending(v) \cup {t})
  <2>1. \A v : Pending(v)' \subseteq Threads
    BY DEF Pending
  <2>2. QED
    BY <1>1, <1>2, <1>4, <2>1, JobStep
<1>6. TypeOK'
  BY <1>1, <1>2, <1>3, <1>5 DEF TypeOK
<1>7. ASSUME NEW v \in Viewers PROVE Numbers(v)'
  <2> DEFINE S == Pending(v)
             T == Pending(v)'
  <2>1. S \in SUBSET Threads /\ T \in SUBSET (S \cup {t}) /\ S \cup {t} \in SUBSET Threads
    BY <1>5 DEF Pending
  <2>2. posted[v] \in Nat /\ nextSeq \in Nat /\ posted[v] + Cardinality(S) <= nextSeq
    BY <1>1 DEF FeedInv, TypeOK, Numbers
  <2> HIDE DEF S, T
  <2>3. IsFiniteSet(S) /\ Cardinality(S) \in Nat
    BY <2>1, SubsetCounts
  <2>4. Cardinality(S \cup {t}) = Cardinality(S) \/ Cardinality(S \cup {t}) = Cardinality(S) + 1
    <3>1. Cardinality(S \cup {t}) =
             IF t \in S THEN Cardinality(S) ELSE Cardinality(S) + 1
      BY <2>3, FS_AddElement
    <3>2. QED
      BY <3>1
  <2>5. /\ Cardinality(T) \in Nat /\ Cardinality(S \cup {t}) \in Nat
        /\ Cardinality(T) <= Cardinality(S \cup {t})
    BY <2>1, SubsetCounts
  <2>6. posted[v] + Cardinality(T) <= nextSeq'
    BY <1>3, <2>2, <2>3, <2>4, <2>5
  <2>7. QED
    BY <1>2, <2>6 DEF Numbers, T
<1>8. \A v \in Viewers : stage'[v] # "gone" => Fed(v)'
  BY <1>2, FedKept
<1>9. QED
  BY <1>2, <1>6, <1>7, <1>8 DEF FeedInv

\* The seq an event was given leaves room to count it: posted does not saturate.
LEMMA PendingHasRoom ==
    ASSUME FeedInv, NEW v \in Viewers, NEW t \in Pending(v)
    PROVE  /\ posted[v] \in Nat /\ posted[v] + 1 <= MaxSeq
           /\ PostedTo(v, posted[v] + 1) = [posted EXCEPT ![v] = posted[v] + 1]
<1> DEFINE S == Pending(v)
<1>1. S \in SUBSET Threads /\ {t} \in SUBSET S
  BY DEF Pending
<1>2. /\ posted[v] \in Nat /\ nextSeq \in Nat /\ nextSeq <= MaxSeq /\ MaxSeq \in Nat
      /\ posted[v] + Cardinality(S) <= nextSeq
  BY FanoutAssumption DEF FeedInv, TypeOK, Numbers
<1> HIDE DEF S
<1>3. Cardinality({t}) = 1
  BY FS_Singleton
<1>4. Cardinality(S) \in Nat /\ 1 <= Cardinality(S)
  BY <1>1, <1>3, SubsetCounts
<1>5. posted[v] + 1 <= MaxSeq
  BY <1>2, <1>4
<1>6. QED
  BY <1>2, <1>5 DEF PostedTo

\* What a post does, to the viewer v it is for.
PostsTo(t, v, e) ==
    /\ v \in Viewers /\ t \in Pending(v) /\ e \in Envelopes
    /\ \/ stage[v] = "gone" /\ UNCHANGED <<queue, posted>>
       \/ /\ stage[v] # "gone" /\ e.n = posted[v] + 1
          /\ queue' = [queue EXCEPT ![v] = Pushed(queue[v], e)]
          /\ posted' = [posted EXCEPT ![v] = posted[v] + 1]
    /\ job' \in [Threads -> Jobs]
    /\ Pending(v)' \subseteq Pending(v) \ {t}
    /\ \A w : Pending(w)' \subseteq Pending(w)
    /\ UNCHANGED <<link, sampled, due, nextSeq, stage, hello, view, taken>>

LEMMA PostStep ==
    ASSUME FeedInv, NEW t \in Threads, Post(t)
    PROVE  \E v, e : PostsTo(t, v, e)
<1>1. TypeOK
  BY DEF FeedInv
<1>2. job[t] \in Posts
  BY <1>1, JobShape DEF Post, TypeOK
<1> DEFINE e(v) == [seq |-> job[t].seq, event |-> job[t].event, data |-> job[t].data,
                    by |-> t, n |-> PostedTo(v, posted[v] + 1)[v]]
           j(v) == IF job[t].todo \ {v} = {} THEN Done(t)
                   ELSE [job[t] EXCEPT !.todo = job[t].todo \ {v}]
<1>3. PICK v \in job[t].todo :
         /\ IF stage[v] = "gone"
            THEN UNCHANGED <<queue, posted>>
            ELSE /\ queue' = [queue EXCEPT ![v] = Pushed(@, e(v))]
                 /\ posted' = PostedTo(v, posted[v] + 1)
         /\ job' = [job EXCEPT ![t] = j(v)]
  <2>1. PICK v \in job[t].todo :
         LET rest == job[t].todo \ {v}
         IN  /\ IF stage[v] = "gone"
                THEN UNCHANGED <<queue, posted>>
                ELSE /\ queue' = [queue EXCEPT ![v] = Pushed(@, e(v))]
                     /\ posted' = PostedTo(v, posted[v] + 1)
             /\ job' = [job EXCEPT ![t] = IF rest = {} THEN Done(t) ELSE [@ EXCEPT !.todo = rest]]
    BY Zenon DEF Post
  <2>2. job' = [job EXCEPT ![t] = j(v)]
    BY <1>1, <2>1 DEF TypeOK
  <2>3. QED
    BY <2>1, <2>2
<1>4. v \in Viewers /\ t \in Pending(v)
  BY <1>2, <1>3 DEF Posts, Pending
<1>5. /\ posted[v] \in Nat /\ posted[v] + 1 <= MaxSeq
      /\ PostedTo(v, posted[v] + 1) = [posted EXCEPT ![v] = posted[v] + 1]
  BY <1>4, PendingHasRoom
<1>6. PostedTo(v, posted[v] + 1)[v] = posted[v] + 1
  BY <1>4, <1>5 DEF FeedInv
<1>7. e(v) \in Envelopes /\ e(v).n = posted[v] + 1
  <2>1. posted[v] + 1 \in 0 .. MaxSeq
    BY <1>5, FanoutAssumption
  <2>2. QED
    BY <1>2, <1>6, <2>1 DEF Posts, Envelopes
<1>8. /\ j(v) \in Jobs
      /\ j(v).phase = "post" => j(v).todo = job[t].todo \ {v}
  <2>1. /\ [job[t] EXCEPT !.todo = job[t].todo \ {v}] \in Posts
        /\ [job[t] EXCEPT !.todo = job[t].todo \ {v}].todo = job[t].todo \ {v}
    BY <1>2 DEF Posts
  <2>2. QED
    BY <2>1, DoneType, JobTypes
<1> DEFINE ev == e(v)
           jv == j(v)
<1>9. /\ job' = [job EXCEPT ![t] = jv]
      /\ \/ stage[v] = "gone" /\ UNCHANGED <<queue, posted>>
         \/ /\ stage[v] # "gone"
            /\ queue' = [queue EXCEPT ![v] = Pushed(queue[v], ev)]
            /\ posted' = [posted EXCEPT ![v] = posted[v] + 1]
  BY <1>1, <1>3, <1>4, <1>5 DEF TypeOK
<1>10. ev \in Envelopes /\ ev.n = posted[v] + 1
  BY <1>7
<1>11. jv \in Jobs /\ (jv.phase = "post" => jv.todo = job[t].todo \ {v})
  BY <1>8
<1> HIDE DEF ev, jv, e, j
<1>12. /\ job' \in [Threads -> Jobs]
       /\ Pending(v)' \subseteq Pending(v) \ {t}
       /\ \A w : Pending(w)' \subseteq Pending(w)
  <2>1. /\ job' \in [Threads -> Jobs]
        /\ \A w : \A u \in Threads :
              u \in Pending(w)' <=>
                 IF u = t THEN jv.phase = "post" /\ w \in jv.todo ELSE u \in Pending(w)
    BY <1>1, <1>9, <1>11, JobStep
  <2>2. \A w : Pending(w)' \subseteq Threads
    BY DEF Pending
  <2>3. \A w : t \in Pending(w)' => t \in Pending(w) /\ w # v
    BY <1>2, <1>4, <1>11, <2>1 DEF Pending, Posts
  <2>4. QED
    BY <2>1, <2>2, <2>3
<1>13. UNCHANGED <<link, sampled, due, nextSeq, stage, hello, view, taken>>
  BY DEF Post, shared, endpoints
<1>14. PostsTo(t, v, ev)
  BY <1>4, <1>9, <1>10, <1>12, <1>13 DEF PostsTo
<1>15. QED
  BY <1>14

LEMMA PostInv == ASSUME NEW t \in Threads PROVE FeedInv /\ Post(t) => FeedInv'
<1> SUFFICES ASSUME FeedInv, Post(t) PROVE FeedInv'
  OBVIOUS
<1>1. PICK v, e : PostsTo(t, v, e)
  BY PostStep
<1>2. TypeOK /\ v \in Viewers /\ e \in Envelopes
  BY <1>1 DEF FeedInv, PostsTo
<1>3. CASE stage[v] = "gone"
  <2>1. UNCHANGED <<link, sampled, due, nextSeq, stage, hello, view, taken, queue, posted>>
    BY <1>1, <1>3 DEF PostsTo
  <2>2. TypeOK'
    BY <1>1, <1>2, <2>1 DEF TypeOK, PostsTo
  <2>3. \A w \in Viewers : Numbers(w)'
    BY <1>1, <1>2, <2>1, NumbersKept, FanoutAssumption DEF PostsTo, TypeOK
  <2>4. \A w \in Viewers : stage'[w] # "gone" => Fed(w)'
    BY <2>1, FedKept
  <2>5. QED
    BY <2>1, <2>2, <2>3, <2>4 DEF FeedInv
<1>4. CASE stage[v] # "gone"
  <2> DEFINE q == Pushed(queue[v], e)
  <2>1. /\ posted[v] \in Nat /\ posted[v] + 1 \in 0 .. MaxSeq
        /\ posted \in [Viewers -> 0 .. MaxSeq]
    <3>1. t \in Pending(v)
      BY <1>1 DEF PostsTo
    <3>2. posted[v] \in Nat /\ posted[v] + 1 <= MaxSeq
      BY <1>2, <3>1, PendingHasRoom
    <3>3. QED
      BY <3>2, FanoutAssumption DEF FeedInv
  <2>2. /\ queue' = [queue EXCEPT ![v] = q]
        /\ posted' = [posted EXCEPT ![v] = posted[v] + 1]
        /\ e.n = posted[v] + 1
        /\ UNCHANGED <<link, sampled, due, nextSeq, stage, hello, view, taken>>
    BY <1>1, <1>4 DEF PostsTo
  <2>3. /\ queue[v] \in Seq(Envelopes) /\ Len(queue[v]) <= QueueMax
        /\ queue \in [Viewers -> Seq(Envelopes)]
    BY <1>2 DEF TypeOK
  <2>4. /\ q \in Seq(Envelopes)
        /\ Len(q) = IF Len(queue[v]) >= QueueMax THEN QueueMax ELSE Len(queue[v]) + 1
        /\ \A i \in 1 .. Len(q) :
              q[i] = IF i = Len(q) THEN e
                     ELSE queue[v][i + (IF Len(queue[v]) >= QueueMax THEN 1 ELSE 0)]
    BY <1>2, <2>3, PushedType
  <2> HIDE DEF q
  <2>5. TypeOK'
    <3>1. Len(q) <= QueueMax
      BY <2>3, <2>4, FanoutAssumption
    <3>2. /\ queue' \in [Viewers -> Seq(Envelopes)]
          /\ \A w \in Viewers : Len(queue'[w]) <= QueueMax
      BY <1>2, <2>2, <2>3, <2>4, <3>1 DEF TypeOK
    <3>3. job' \in [Threads -> Jobs]
      BY <1>1 DEF PostsTo
    <3>4. QED
      BY <1>2, <2>2, <3>2, <3>3 DEF TypeOK
  <2>6. ASSUME NEW w \in Viewers PROVE Numbers(w)'
    <3> DEFINE S == Pending(w)
               T == Pending(w)'
    <3>1. S \in SUBSET Threads /\ T \in SUBSET S
      BY <1>1 DEF PostsTo, Pending
    <3>2. /\ posted[w] \in Nat /\ nextSeq \in Nat /\ nextSeq' = nextSeq
          /\ posted[w] + Cardinality(S) <= nextSeq
      BY <1>2, <2>2 DEF FeedInv, TypeOK, Numbers
    <3>3. w = v => t \in S /\ T \in SUBSET (S \ {t}) /\ S \ {t} \in SUBSET Threads
      BY <1>1 DEF PostsTo, Pending
    <3>4. posted'[w] = IF w = v THEN posted[w] + 1 ELSE posted[w]
      BY <2>1, <2>2
    <3> HIDE DEF S, T
    <3>5. /\ IsFiniteSet(S) /\ Cardinality(S) \in Nat /\ Cardinality(T) \in Nat
          /\ Cardinality(T) <= Cardinality(S)
      BY <3>1, SubsetCounts
    <3>6. w = v => Cardinality(T) <= Cardinality(S) - 1
      <4>1. SUFFICES ASSUME w = v PROVE Cardinality(T) <= Cardinality(S) - 1
        OBVIOUS
      <4>2. Cardinality(S \ {t}) = Cardinality(S) - 1
        BY <3>3, <3>5, <4>1, FS_RemoveElement
      <4>3. QED
        BY <3>3, <4>1, <4>2, SubsetCounts
    <3>7. posted'[w] + Cardinality(T) <= nextSeq'
      BY <3>2, <3>4, <3>5, <3>6
    <3>8. QED
      BY <3>7 DEF Numbers, T
  <2>7. ASSUME NEW w \in Viewers, stage'[w] # "gone" PROVE Fed(w)'
    <3>1. Fed(w)
      BY <2>2, <2>7 DEF FeedInv
    <3>2. CASE w # v
      BY <2>2, <3>1, <3>2 DEF Fed
    <3>3. CASE w = v
      <4>1. queue'[v] = q /\ posted'[v] = posted[v] + 1 /\ taken'[v] = taken[v]
        BY <2>1, <2>2, <2>3, <3>3
      <4>2. taken[v] \in Nat /\ QueueMax \in Nat \ {0} /\ Len(queue[v]) \in Nat
        BY <1>2, <2>3, FanoutAssumption DEF FeedInv
      <4>3. /\ taken[v] <= posted[v]
            /\ Len(queue[v]) = IF posted[v] - taken[v] > QueueMax THEN QueueMax
                               ELSE posted[v] - taken[v]
            /\ \A i \in 1 .. Len(queue[v]) : queue[v][i].n = posted[v] - Len(queue[v]) + i
        BY <3>1, <3>3 DEF Fed
      <4>4. Len(q) = IF posted[v] + 1 - taken[v] > QueueMax THEN QueueMax
                     ELSE posted[v] + 1 - taken[v]
        BY <2>1, <2>3, <2>4, <4>2, <4>3
      <4>5. ASSUME NEW i \in 1 .. Len(q) PROVE q[i].n = posted[v] + 1 - Len(q) + i
        <5>1. CASE i = Len(q)
          <6> DEFINE len == Len(q)
                     n == q[i].n
                     p == posted[v]
          <6>1. q[i] = e
            BY <2>4, <5>1, Zenon
          <6>2. n = p + 1 /\ p \in Nat
            BY <2>1, <2>2, <6>1
          <6>3. i = len /\ i \in Int
            BY <5>1
          <6> HIDE DEF len, n, p
          <6>4. n = p + 1 - len + i
            BY <6>2, <6>3
          <6>5. QED
            BY <6>4 DEF len, n, p
        <5>2. CASE i # Len(q) /\ Len(queue[v]) >= QueueMax
          <6>1. q[i] = queue[v][i + 1] /\ i + 1 \in 1 .. Len(queue[v])
            BY <2>3, <2>4, <4>2, <5>2
          <6>2. queue[v][i + 1].n = posted[v] - Len(queue[v]) + (i + 1)
            BY <4>3, <6>1
          <6>3. Len(q) = Len(queue[v])
            BY <2>3, <2>4, <4>2, <5>2
          <6>4. q[i].n = posted[v] - Len(q) + (i + 1)
            BY <6>1, <6>2, <6>3
          <6> DEFINE len == Len(q)
                     n == q[i].n
                     p == posted[v]
          <6>5. n = p - len + (i + 1) /\ p \in Nat /\ len \in Nat
            BY <2>1, <4>2, <6>3, <6>4
          <6> HIDE DEF len, n, p
          <6>6. i \in Int
            OBVIOUS
          <6>7. n = p + 1 - len + i
            BY <6>5, <6>6
          <6>8. QED
            BY <6>7 DEF len, n, p
        <5>3. CASE i # Len(q) /\ ~(Len(queue[v]) >= QueueMax)
          <6>1. q[i] = queue[v][i] /\ i \in 1 .. Len(queue[v])
            BY <2>3, <2>4, <4>2, <5>3
          <6>2. queue[v][i].n = posted[v] - Len(queue[v]) + i
            BY <4>3, <6>1
          <6>3. q[i].n = posted[v] - Len(queue[v]) + i
            BY <6>1, <6>2, Zenon
          <6> DEFINE len == Len(queue[v])
                     qlen == Len(q)
                     n == q[i].n
                     p == posted[v]
          <6>4. qlen = len + 1 /\ len \in Nat
            BY <2>3, <2>4, <4>2, <5>3
          <6>5. n = p - len + i /\ p \in Nat /\ i \in Int
            BY <2>1, <6>3
          <6> HIDE DEF len, qlen, n, p
          <6>6. n = p + 1 - qlen + i
            BY <6>4, <6>5
          <6>7. QED
            BY <6>6 DEF qlen, n, p
        <5>4. QED
          BY <5>1, <5>2, <5>3
      <4>6. taken[v] <= posted[v] + 1
        BY <2>1, <4>2, <4>3
      <4>7. /\ taken'[v] <= posted'[v]
            /\ Len(queue'[v]) = IF posted'[v] - taken'[v] > QueueMax THEN QueueMax
                                ELSE posted'[v] - taken'[v]
            /\ \A i \in 1 .. Len(queue'[v]) :
                  queue'[v][i].n = posted'[v] - Len(queue'[v]) + i
        <5>1. taken'[v] <= posted'[v]
          BY <4>1, <4>6
        <5>2. Len(queue'[v]) = IF posted'[v] - taken'[v] > QueueMax THEN QueueMax
                               ELSE posted'[v] - taken'[v]
          <6>1. /\ queue'[v] = q
                /\ posted'[v] - taken'[v] = posted[v] + 1 - taken[v]
            BY <2>1, <4>1, <4>2
          <6> HIDE DEF q
          <6>2. QED
            BY <4>4, <6>1
        <5>3. \A i \in 1 .. Len(queue'[v]) :
                 queue'[v][i].n = posted'[v] - Len(queue'[v]) + i
          BY <2>1, <4>1, <4>2, <4>4, <4>5
        <5>4. QED
          BY <5>1, <5>2, <5>3
      <4>8. Fed(v)'
        BY <4>7, Zenon DEF Fed
      <4>9. QED
        BY <3>3, <4>8
    <3>4. QED
      BY <3>2, <3>3
  <2>8. posted' \in [Viewers -> 0 .. MaxSeq] /\ taken' \in [Viewers -> 0 .. MaxSeq]
    BY <2>1, <2>2 DEF FeedInv
  <2>9. \A w \in Viewers : stage'[w] = "greeting" => hello'[w] # <<>>
    BY <2>2 DEF FeedInv
  <2>10. QED
    BY <2>5, <2>6, <2>7, <2>8, <2>9, Zenon DEF FeedInv
<1>5. QED
  BY <1>3, <1>4

\* Steps of an endpoint that leave the jobs and what was posted alone.
LEMMA EndpointKeeps ==
    ASSUME FeedInv, UNCHANGED <<link, sampled, due, job, posted>>,
           nextSeq' \in 0 .. MaxSeq, nextSeq <= nextSeq',
           stage' \in [Viewers -> {"absent", "accepted", "greeting", "live", "gone"}],
           hello' \in [Viewers -> Seq(Events)], view' \in [Viewers -> Links],
           queue' \in [Viewers -> Seq(Envelopes)],
           \A v \in Viewers : Len(queue'[v]) <= QueueMax,
           taken' \in [Viewers -> 0 .. MaxSeq],
           \A v \in Viewers : stage'[v] # "gone" => Fed(v)',
           \A v \in Viewers : stage'[v] = "greeting" => hello'[v] # <<>>
    PROVE  FeedInv'
<1>1. TypeOK'
  BY DEF FeedInv, TypeOK
<1>2. \A v : Pending(v)' \subseteq Pending(v)
  BY DEF Pending
<1>3. \A v \in Viewers : Numbers(v)'
  BY <1>2, NumbersKept, FanoutAssumption
<1>4. QED
  BY <1>1, <1>3 DEF FeedInv

\* What an endpoint's step starts from, field by field.
LEMMA EndpointTypes ==
    ASSUME FeedInv
    PROVE  /\ stage \in [Viewers -> {"absent", "accepted", "greeting", "live", "gone"}]
           /\ hello \in [Viewers -> Seq(Events)] /\ view \in [Viewers -> Links]
           /\ queue \in [Viewers -> Seq(Envelopes)]
           /\ \A v \in Viewers : Len(queue[v]) <= QueueMax
           /\ taken \in [Viewers -> 0 .. MaxSeq] /\ posted \in [Viewers -> 0 .. MaxSeq]
           /\ nextSeq \in 0 .. MaxSeq /\ nextSeq <= nextSeq
           /\ \A v \in Viewers : stage[v] = "greeting" => hello[v] # <<>>
BY FanoutAssumption DEF FeedInv, TypeOK

LEMMA JoinInv == ASSUME NEW v \in Viewers PROVE FeedInv /\ Join(v) => FeedInv'
<1> SUFFICES ASSUME FeedInv, Join(v) PROVE FeedInv'
  OBVIOUS
<1>1. /\ stage[v] = "absent" /\ stage' = [stage EXCEPT ![v] = "accepted"]
      /\ UNCHANGED <<link, sampled, due, nextSeq, job, hello, queue, view, posted, taken>>
  BY DEF Join, shared
<1>2. \A w \in Viewers : stage'[w] # "gone" => Fed(w)'
  BY <1>1, FedKept, EndpointTypes
<1>3. /\ stage' \in [Viewers -> {"absent", "accepted", "greeting", "live", "gone"}]
      /\ \A w \in Viewers : stage'[w] = "greeting" => hello'[w] # <<>>
  BY <1>1, EndpointTypes
<1>4. QED
  BY <1>1, <1>2, <1>3, EndpointTypes, EndpointKeeps

LEMMA GreetInv == ASSUME NEW v \in Viewers PROVE FeedInv /\ Greet(v) => FeedInv'
<1> SUFFICES ASSUME FeedInv, Greet(v) PROVE FeedInv'
  OBVIOUS
<1> DEFINE hi == <<"LINK_STATUS">> \o Snapshot("tel") \o Snapshot("vis")
<1>1. hi \in Seq(Events) /\ hi # <<>>
  <2>1. Snapshot("tel") \in Seq(Events) /\ Snapshot("vis") \in Seq(Events)
    <3>1. sampled \subseteq Events
      BY DEF FeedInv, TypeOK, Events
    <3>2. \A i \in sampled : <<i>> \in Seq(Events)
      BY <3>1
    <3>3. <<>> \in Seq(Events)
      OBVIOUS
    <3>4. QED
      BY <3>2, <3>3 DEF Snapshot
  <2>2. <<"LINK_STATUS">> \in Seq(Events) /\ Len(<<"LINK_STATUS">>) = 1
    BY DEF Events
  <2>3. /\ <<"LINK_STATUS">> \o Snapshot("tel") \in Seq(Events)
        /\ Len(<<"LINK_STATUS">> \o Snapshot("tel")) = 1 + Len(Snapshot("tel"))
    BY <2>1, <2>2, ConcatProperties
  <2>4. /\ hi \in Seq(Events)
        /\ Len(hi) = Len(<<"LINK_STATUS">> \o Snapshot("tel")) + Len(Snapshot("vis"))
    BY <2>1, <2>3, ConcatProperties
  <2>5. Len(Snapshot("tel")) \in Nat /\ Len(Snapshot("vis")) \in Nat
    BY <2>1, LenProperties
  <2> HIDE DEF hi
  <2>6. Len(hi) > 0
    BY <2>3, <2>4, <2>5
  <2>7. QED
    BY <2>4, <2>6, EmptySeq
<1>2. /\ stage[v] = "accepted" /\ stage' = [stage EXCEPT ![v] = "greeting"]
      /\ view' = [view EXCEPT ![v] = link] /\ hello' = [hello EXCEPT ![v] = hi]
      /\ UNCHANGED <<link, sampled, due, nextSeq, job, queue, posted, taken>>
  BY DEF Greet, shared
<1> HIDE DEF hi
<1>3. \A w \in Viewers : stage'[w] # "gone" => Fed(w)'
  BY <1>2, FedKept, EndpointTypes
<1>4. /\ stage' \in [Viewers -> {"absent", "accepted", "greeting", "live", "gone"}]
      /\ hello' \in [Viewers -> Seq(Events)] /\ view' \in [Viewers -> Links]
      /\ \A w \in Viewers : stage'[w] = "greeting" => hello'[w] # <<>>
  <2>1. link \in Links
    BY DEF FeedInv, TypeOK
  <2>2. QED
    BY <1>1, <1>2, <2>1, EndpointTypes
<1>5. QED
  BY <1>2, <1>3, <1>4, EndpointTypes, EndpointKeeps

LEMMA SendHelloInv == ASSUME NEW v \in Viewers PROVE FeedInv /\ SendHello(v) => FeedInv'
<1> SUFFICES ASSUME FeedInv, SendHello(v) PROVE FeedInv'
  OBVIOUS
<1> DEFINE next == IF Len(hello[v]) = 1 THEN "live" ELSE stage[v]
           rest == Tail(hello[v])
<1>1. /\ stage[v] = "greeting" /\ stage' = [stage EXCEPT ![v] = next]
      /\ hello' = [hello EXCEPT ![v] = rest] /\ nextSeq' = Numbered
      /\ UNCHANGED <<link, sampled, due, job, queue, view, posted, taken>>
  BY EndpointTypes DEF SendHello, shared
<1>2. /\ rest \in Seq(Events) /\ next \in {"live", "greeting"}
      /\ next = "greeting" => rest # <<>>
  <2>1. hello[v] \in Seq(Events) /\ hello[v] # <<>>
    BY <1>1, EndpointTypes
  <2>2. rest \in Seq(Events) /\ Len(rest) = Len(hello[v]) - 1
    BY <2>1, HeadTailProperties
  <2>3. Len(hello[v]) \in Nat \ {0}
    BY <2>1, EmptySeq
  <2> HIDE DEF rest
  <2>4. Len(hello[v]) # 1 => rest # <<>>
    <3>1. Len(<<>>) = 0
      OBVIOUS
    <3>2. Len(hello[v]) # 1 => Len(rest) # 0
      BY <2>2, <2>3
    <3>3. QED
      BY <3>1, <3>2, Zenon
  <2>5. QED
    BY <1>1, <2>2, <2>4
<1> HIDE DEF next, rest
<1>3. nextSeq' \in 0 .. MaxSeq /\ nextSeq <= nextSeq'
  BY <1>1, EndpointTypes, NumberedType
<1>4. \A w \in Viewers : stage'[w] # "gone" => Fed(w)'
  BY <1>1, FedKept, EndpointTypes
<1>5. /\ stage' \in [Viewers -> {"absent", "accepted", "greeting", "live", "gone"}]
      /\ hello' \in [Viewers -> Seq(Events)]
      /\ \A w \in Viewers : stage'[w] = "greeting" => hello'[w] # <<>>
  BY <1>1, <1>2, EndpointTypes
<1>6. QED
  BY <1>1, <1>3, <1>4, <1>5, EndpointTypes, EndpointKeeps

\* The head of the queue is the oldest event v has not taken of those kept for it.
LEMMA DeliverStep ==
    ASSUME FeedInv, NEW v \in Viewers, Deliver(v)
    PROVE  /\ Head(queue[v]) \in Envelopes
           /\ queue' = [queue EXCEPT ![v] = Tail(queue[v])]
           /\ taken' = [taken EXCEPT ![v] = posted[v] - Len(queue[v]) + 1]
           /\ posted[v] - Len(queue[v]) + 1 \in 0 .. MaxSeq
           /\ Fed(v) /\ Len(queue[v]) > 0
           /\ taken[v] < posted[v]
<1>1. /\ queue[v] \in Seq(Envelopes) /\ queue[v] # <<>> /\ stage[v] # "gone"
      /\ posted[v] \in 0 .. MaxSeq /\ taken[v] \in 0 .. MaxSeq
      /\ queue \in [Viewers -> Seq(Envelopes)]
  BY DEF FeedInv, TypeOK, Deliver
<1>2. Len(queue[v]) \in Nat \ {0}
  BY <1>1
<1>3. Fed(v)
  BY <1>1 DEF FeedInv
<1>4. queue[v][1].n = posted[v] - Len(queue[v]) + 1
  BY <1>2, <1>3 DEF Fed
<1>5. Head(queue[v]) = queue[v][1] /\ queue[v][1] \in Envelopes
  BY <1>1, <1>2
<1>6. Len(queue[v]) <= posted[v] - taken[v]
  BY <1>1, <1>2, <1>3, FanoutAssumption DEF Fed
<1>7. posted[v] - Len(queue[v]) + 1 \in 0 .. MaxSeq /\ taken[v] < posted[v]
  BY <1>1, <1>2, <1>6, FanoutAssumption
<1>8. queue' = [queue EXCEPT ![v] = Tail(queue[v])] /\ taken' = [taken EXCEPT ![v] = Head(queue[v]).n]
  BY <1>1 DEF Deliver
<1>9. Head(queue[v]).n = posted[v] - Len(queue[v]) + 1
  BY <1>4, <1>5, Zenon
<1>10. Len(queue[v]) > 0
  BY <1>2
<1>11. QED
  BY <1>3, <1>5, <1>7, <1>8, <1>9, <1>10, Zenon

LEMMA DeliverInv == ASSUME NEW v \in Viewers PROVE FeedInv /\ Deliver(v) => FeedInv'
<1> SUFFICES ASSUME FeedInv, Deliver(v) PROVE FeedInv'
  OBVIOUS
<1> DEFINE len == Len(queue[v])
           new == posted[v] - len + 1
           q   == Tail(queue[v])
<1>1. /\ queue \in [Viewers -> Seq(Envelopes)] /\ posted \in [Viewers -> 0 .. MaxSeq]
      /\ taken \in [Viewers -> 0 .. MaxSeq] /\ view \in [Viewers -> Links]
      /\ \A w \in Viewers : Len(queue[w]) <= QueueMax
  BY EndpointTypes
<1>2. /\ queue' = [queue EXCEPT ![v] = q] /\ taken' = [taken EXCEPT ![v] = new]
      /\ new \in 0 .. MaxSeq /\ Fed(v) /\ len > 0 /\ taken[v] < posted[v]
      /\ Head(queue[v]) \in Envelopes
  BY DeliverStep
<1>3. UNCHANGED <<link, sampled, due, nextSeq, job, stage, hello, posted>>
  BY DEF Deliver, shared
<1>4. /\ q \in Seq(Envelopes) /\ len \in Nat /\ Len(q) = len - 1
      /\ \A i \in 1 .. Len(q) : q[i] = queue[v][i + 1]
  <2>1. queue[v] \in Seq(Envelopes) /\ queue[v] # <<>>
    BY <1>1 DEF Deliver
  <2>2. QED
    BY <2>1, HeadTailProperties
<1>5. view' \in [Viewers -> Links]
  BY <1>1, <1>2 DEF Deliver, Envelopes
<1>6. /\ len = IF posted[v] - taken[v] > QueueMax THEN QueueMax ELSE posted[v] - taken[v]
      /\ \A i \in 1 .. len : queue[v][i].n = posted[v] - len + i
      /\ len <= QueueMax
  BY <1>1, <1>2, Zenon DEF Fed
<1> HIDE DEF len, q
<1>7. Fed(v)'
  <2>1. /\ posted[v] \in Nat /\ QueueMax \in Nat \ {0}
        /\ posted'[v] = posted[v] /\ taken'[v] = posted[v] - len + 1 /\ queue'[v] = q
    BY <1>1, <1>2, <1>3, FanoutAssumption
  <2>2. taken'[v] <= posted'[v]
    BY <1>2, <1>4, <2>1
  <2>3. posted'[v] - taken'[v] = Len(q)
    BY <1>4, <2>1
  <2>4. Len(q) <= QueueMax /\ Len(q) \in Int
    BY <1>4, <1>6, <2>1
  <2>5. Len(queue'[v]) = IF posted'[v] - taken'[v] > QueueMax THEN QueueMax
                         ELSE posted'[v] - taken'[v]
    BY <2>1, <2>3, <2>4
  <2>6. ASSUME NEW i \in 1 .. Len(q) PROVE q[i].n = posted[v] - Len(q) + i
    <3>1. q[i] = queue[v][i + 1] /\ i + 1 \in 1 .. len /\ i \in Int
      BY <1>4
    <3>2. queue[v][i + 1].n = posted[v] - len + (i + 1)
      BY <1>6, <3>1
    <3>3. Len(q) = len - 1 /\ len \in Nat /\ posted[v] \in Nat /\ i \in Int
      BY <1>4, <2>1, <3>1
    <3>4. posted[v] - len + (i + 1) = posted[v] - Len(q) + i
      BY <3>3
    <3>5. QED
      BY <3>1, <3>2, <3>4, Zenon
  <2>7. \A i \in 1 .. Len(queue'[v]) : queue'[v][i].n = posted'[v] - Len(queue'[v]) + i
    BY <2>1, <2>6
  <2>8. QED
    BY <2>2, <2>5, <2>7, Zenon DEF Fed
<1>8. ASSUME NEW w \in Viewers, stage'[w] # "gone" PROVE Fed(w)'
  <2>1. CASE w = v
    BY <1>7, <2>1
  <2>2. CASE w # v
    <3>1. Fed(w)
      BY <1>3, <1>8 DEF FeedInv
    <3>2. queue'[w] = queue[w] /\ taken'[w] = taken[w] /\ posted'[w] = posted[w]
      BY <1>1, <1>2, <1>3, <2>2
    <3>3. QED
      BY <3>1, <3>2, Zenon DEF Fed
  <2>3. QED
    BY <2>1, <2>2
<1>9. \A w \in Viewers : Len(queue'[w]) <= QueueMax
  <2>1. Len(q) <= QueueMax
    BY <1>4, <1>6, FanoutAssumption
  <2>2. QED
    BY <1>1, <1>2, <2>1
<1>10. /\ queue' \in [Viewers -> Seq(Envelopes)]
       /\ taken' \in [Viewers -> 0 .. MaxSeq]
  BY <1>1, <1>2, <1>4
<1>11. QED
  BY <1>3, <1>5, <1>8, <1>9, <1>10, EndpointTypes, EndpointKeeps

LEMMA LeaveInv == ASSUME NEW v \in Viewers PROVE FeedInv /\ Leave(v) => FeedInv'
<1> SUFFICES ASSUME FeedInv, Leave(v) PROVE FeedInv'
  OBVIOUS
<1>1. /\ stage' = [stage EXCEPT ![v] = "gone"]
      /\ hello' = [hello EXCEPT ![v] = <<>>] /\ queue' = [queue EXCEPT ![v] = <<>>]
      /\ UNCHANGED <<link, sampled, due, nextSeq, job, view, posted, taken>>
  BY DEF Leave, shared
<1>2. ASSUME NEW w \in Viewers, stage'[w] # "gone" PROVE Fed(w)'
  <2>1. w # v /\ stage[w] # "gone"
    BY <1>1, <1>2, EndpointTypes
  <2>2. Fed(w)
    BY <2>1 DEF FeedInv
  <2>3. queue'[w] = queue[w] /\ taken'[w] = taken[w] /\ posted'[w] = posted[w]
    BY <1>1, <2>1, EndpointTypes
  <2>4. QED
    BY <2>2, <2>3, Zenon DEF Fed
<1>3. <<>> \in Seq(Envelopes) /\ <<>> \in Seq(Events) /\ Len(<<>>) = 0
  OBVIOUS
<1>4. /\ queue' \in [Viewers -> Seq(Envelopes)] /\ hello' \in [Viewers -> Seq(Events)]
      /\ stage' \in [Viewers -> {"absent", "accepted", "greeting", "live", "gone"}]
      /\ \A w \in Viewers : stage'[w] = "greeting" => hello'[w] # <<>>
  BY <1>1, <1>3, EndpointTypes
<1>5. \A w \in Viewers : Len(queue'[w]) <= QueueMax
  BY <1>1, <1>3, EndpointTypes, FanoutAssumption
<1>6. QED
  BY <1>1, <1>2, <1>4, <1>5, EndpointTypes, EndpointKeeps

LEMMA FeedNext == ~Endless => (FeedInv /\ [Next]_vars => FeedInv')
<1> SUFFICES ASSUME ~Endless, FeedInv, [Next]_vars PROVE FeedInv'
  OBVIOUS
<1>1. CASE Beginnings
  BY <1>1, BeginningInv
<1>2. CASE \E t \in Threads : Broadcast(t)
  BY <1>2, BuildInv, SealInv, PostInv DEF Broadcast
<1>3. CASE \E v \in Viewers : Join(v) \/ Serve(v) \/ Leave(v)
  BY <1>3, JoinInv, GreetInv, SendHelloInv, DeliverInv, LeaveInv DEF Serve
<1>4. CASE UNCHANGED vars
  BY <1>4 DEF vars, FeedInv, TypeOK, Numbers, Pending, Fed
<1>5. QED
  BY <1>1, <1>2, <1>3, <1>4 DEF Next, Beginnings

\* Whatever the threads broadcast at once, and however viewers come, fall behind and
\* leave, the fan-out's state keeps its types and no queue outgrows queue_max.
THEOREM TypeCorrect == ASSUME ~Endless PROVE Spec => []TypeOK
<1>1. FeedInv => TypeOK
  BY DEF FeedInv
<1>2. FeedInv /\ [Next]_vars => FeedInv'
  BY FeedNext
<1>3. QED
  BY <1>1, <1>2, FeedInit, PTL DEF Spec

-----------------------------------------------------------------------------
(* The queues implement the feed each viewer is promised.                  *)

LEMMA FeedStep ==
    ASSUME ~Endless
    PROVE  FeedInv /\ [Next]_vars => [Feed!Next]_<<posted, taken>>
<1> SUFFICES ASSUME FeedInv, [Next]_vars PROVE [Feed!Next]_<<posted, taken>>
  OBVIOUS
<1>1. CASE Beginnings
  BY <1>1, BeginningType DEF FeedInv, endpoints
<1>2. ASSUME NEW t \in Threads, Build(t) \/ Seal(t)
      PROVE  UNCHANGED <<posted, taken>>
  BY <1>2 DEF Build, Seal, endpoints
<1>3. ASSUME NEW t \in Threads, Post(t)
      PROVE  [Feed!Next]_<<posted, taken>>
  <2>1. PICK v, e : PostsTo(t, v, e)
    BY <1>3, PostStep
  <2>2. v \in Viewers /\ taken' = taken
    BY <2>1 DEF PostsTo
  <2>3. posted' = posted \/ Feed!Post(v)
    BY <2>1 DEF PostsTo, Feed!Post
  <2>4. QED
    BY <2>2, <2>3 DEF Feed!Next
<1>4. ASSUME NEW v \in Viewers, Join(v) \/ Greet(v) \/ SendHello(v) \/ Leave(v)
      PROVE  UNCHANGED <<posted, taken>>
  BY <1>4 DEF Join, Greet, SendHello, Leave
<1>5. ASSUME NEW v \in Viewers, Deliver(v)
      PROVE  Feed!Take(v)
  <2>1. /\ taken' = [taken EXCEPT ![v] = posted[v] - Len(queue[v]) + 1]
        /\ Fed(v) /\ taken[v] < posted[v]
    BY <1>5, DeliverStep
  <2>2. posted' = posted
    BY <1>5 DEF Deliver
  <2>3. posted[v] \in Nat /\ taken[v] \in Nat /\ QueueMax \in Nat
    BY FanoutAssumption DEF FeedInv
  <2>4. posted[v] - Len(queue[v]) + 1 =
           IF posted[v] - taken[v] > QueueMax THEN posted[v] - QueueMax + 1 ELSE taken[v] + 1
    BY <2>1, <2>3 DEF Fed
  <2>5. QED
    BY <2>1, <2>2, <2>4 DEF Feed!Take
<1>6. CASE UNCHANGED vars
  BY <1>6 DEF vars
<1>7. QED
  BY <1>1, <1>2, <1>3, <1>4, <1>5, <1>6 DEF Next, Beginnings, Broadcast, Serve, Feed!Next

\* Each viewer is sent the events broadcast to it in the order of broadcasting, none
\* twice, and loses the oldest only when its queue is full, as pop_next and
\* broadcast_envelope keep it.
THEOREM QueuesFeedViewers == ASSUME ~Endless PROVE Spec => FeedsEachViewer
<1>1. Init => FeedInv /\ Feed!Init
  BY FeedInit DEF Init, Feed!Init
<1>2. FeedInv /\ [Next]_vars => FeedInv'
  BY FeedNext
<1>3. FeedInv /\ [Next]_vars => [Feed!Next]_<<posted, taken>>
  BY FeedStep
<1>4. QED
  BY <1>1, <1>2, <1>3, PTL DEF Spec, FeedsEachViewer, Feed!Spec

=============================================================================
