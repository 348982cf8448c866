-------------------------------- MODULE Video --------------------------------
(***************************************************************************)
(* The live view: frames the vision process posts to the backend one after *)
(* the other (frame_pusher.py), the requests that receive them (app.py),   *)
(* the hub that keeps the latest (video_hub.py), and the MJPEG streams of  *)
(* the viewers.                                                            *)
(*                                                                         *)
(* A post that fails is given up, and its request goes on without it: the  *)
(* gate in front of the endpoint runs in a pool of threads, which keeps no *)
(* order, and of a long body that nobody reads yet the server stops        *)
(* reading, so that it does not hear of a close behind it.  Such a frame   *)
(* may reach the hub at any time, and after its successors.                *)
(***************************************************************************)
EXTENDS Naturals, FiniteSets, FiniteSetsExt

CONSTANTS
    Viewers,
    Requests,    \* bound: requests under way at once
    Kinds,       \* posts: "good", "headers" (they are refused), "empty" or "garbage"
    Fresh,       \* frame_fresh_s, in ticks
    Period,      \* 1 / video_fps
    Lag,         \* a stream that is due goes on within Lag
    MaxPosts     \* bound: posts

VideoAssumption ==
    /\ Fresh \in Nat /\ Period \in Nat \ {0} /\ Lag \in Nat /\ MaxPosts \in Nat
    /\ Kinds \subseteq {"good", "headers", "empty", "garbage"}
    /\ IsFiniteSet(Viewers) /\ IsFiniteSet(Requests) /\ 0 \notin Requests

VARIABLES
    pusher,    \* the request whose answer the vision process waits for, or 0
    request,   \* the requests, each with the number of its post
    hub,       \* the latest frame: its post, and the ticks since it was received
    framesOk, framesBad, clients,   \* the hub's counters
    viewer,    \* the streams, with the ticks until the next part has to go
    shown,     \* ticks since the reception of what each viewer was sent, or Synthetic
    posts, pushOk,   \* posts, and push_ok
    givenUp, answers, back   \* history: posts without an answer, posts the endpoint
                             \* answered, and times a frame took the place of a newer one

requestVars == <<pusher, request, posts, pushOk, givenUp>>
hubVars == <<hub, framesOk, framesBad, answers, back>>
viewVars == <<clients, viewer, shown>>
vars == <<requestVars, hubVars, viewVars>>

OldAge == Fresh + Period + Lag + 1   \* and older
Synthetic == OldAge + 1              \* no frame: the stream shows a synthetic one
Free == [phase |-> "free"]

TypeOK ==
    /\ pusher \in {0} \cup Requests
    /\ \A r \in Requests : request[r] = Free \/
         request[r] \in [phase : {"gate", "body", "ok", "bad"}, kind : Kinds, num : 1 .. posts,
                         arrived : BOOLEAN, gone : BOOLEAN]
    /\ hub \in [num : 0 .. posts, rx : 0 .. Synthetic]
    /\ clients \in 0 .. Cardinality(Viewers)
    /\ viewer \in [Viewers -> [phase : {"off", "opened", "part", "sending", "waiting"},
                               due : 0 .. Period + Lag, slow : BOOLEAN]]
    /\ shown \in [Viewers -> 0 .. Synthetic]

Init ==
    /\ pusher = 0 /\ request = [r \in Requests |-> Free]
    /\ posts = 0 /\ pushOk = 0 /\ givenUp = 0
    /\ hub = [num |-> 0, rx |-> Synthetic]
    /\ framesOk = 0 /\ framesBad = 0 /\ answers = 0 /\ back = 0
    /\ clients = 0 /\ viewer = [v \in Viewers |-> [phase |-> "off", due |-> 0, slow |-> FALSE]]
    /\ shown = [v \in Viewers |-> Synthetic]

-----------------------------------------------------------------------------
(* The vision process.                                                     *)

Posted(r, k) ==
    /\ request[r] = Free
    /\ request' = [request EXCEPT ![r] = [phase |-> "gate", kind |-> k, num |-> posts + 1,
                                          arrived |-> FALSE, gone |-> FALSE]]
    /\ pusher' = r /\ posts' = posts + 1

\* Fault: a frame is posted without waiting for the answer to the one before.
PostAtOnce ==
    /\ posts < MaxPosts
    /\ \E r \in Requests, k \in Kinds : Posted(r, k)
    /\ UNCHANGED <<pushOk, givenUp, hubVars, viewVars>>

Post ==
    /\ pusher = 0 /\ posts < MaxPosts
    /\ \E r \in Requests, k \in Kinds : Posted(r, k)
    /\ UNCHANGED <<pushOk, givenUp, hubVars, viewVars>>

\* The timeout bounds each connect, write and read of the post and not their sum, so nothing
\* is known of when.  What was written is on its way.
GiveUp ==
    /\ pusher # 0 /\ pusher' = 0 /\ givenUp' = givenUp + 1
    /\ UNCHANGED <<request, posts, pushOk, hubVars, viewVars>>

\* The backend's answer, which frees the request.
Answered ==
    /\ pusher # 0 /\ request[pusher].phase \in {"ok", "bad"}
    /\ pushOk' = IF request[pusher].phase = "ok" THEN pushOk + 1 ELSE pushOk
    /\ request' = [request EXCEPT ![pusher] = Free]
    /\ pusher' = 0
    /\ UNCHANGED <<posts, givenUp, hubVars, viewVars>>
-----------------------------------------------------------------------------
(* The request r.                                                          *)

\* The whole body, also of a post that was given up.
Arrives(r) ==
    /\ request[r] # Free /\ ~request[r].arrived /\ ~request[r].gone
    /\ request' = [request EXCEPT ![r].arrived = TRUE]
    /\ UNCHANGED <<pusher, posts, pushOk, givenUp, hubVars, viewVars>>

\* The backend hears, if it does, that the pusher closed the connection.
Closed(r) ==
    /\ request[r] # Free /\ pusher # r /\ ~request[r].gone
    /\ request' = [request EXCEPT ![r].gone = TRUE]
    /\ UNCHANGED <<pusher, posts, pushOk, givenUp, hubVars, viewVars>>

\* The checks before the body: the token and the rate, which the hub does not count, and
\* then the headers.
Gate(r) ==
    /\ request[r].phase = "gate"
    /\ \/ /\ request' = [request EXCEPT ![r].phase = "bad"]
          /\ UNCHANGED <<framesBad, answers>>
       \/ /\ request[r].kind # "headers"
          /\ request' = [request EXCEPT ![r].phase = "body"]
          /\ UNCHANGED <<framesBad, answers>>
       \/ /\ request[r].kind = "headers"
          /\ request' = [request EXCEPT ![r].phase = "bad"]
          /\ framesBad' = framesBad + 1 /\ answers' = answers + 1
    /\ UNCHANGED <<pusher, posts, pushOk, givenUp, hub, framesOk, back, viewVars>>

\* set_jpeg and record_bad_frame
Stores(r) ==
    IF request[r].kind = "good"
    THEN /\ hub' = [num |-> request[r].num, rx |-> 0]
         /\ framesOk' = framesOk + 1
         /\ back' = IF request[r].num < hub.num THEN back + 1 ELSE back
         /\ UNCHANGED framesBad
    ELSE framesBad' = framesBad + 1 /\ UNCHANGED <<hub, framesOk, back>>

\* A close that was heard ends the reading; from the last chunk to the end of the handler
\* nothing is awaited.
Body(r) ==
    /\ request[r].phase = "body" /\ request[r].arrived /\ ~request[r].gone
    /\ request' = [request EXCEPT ![r].phase = IF request[r].kind = "good" THEN "ok" ELSE "bad"]
    /\ Stores(r) /\ answers' = answers + 1
    /\ UNCHANGED <<pusher, posts, pushOk, givenUp, viewVars>>

\* A request nobody waits for ends uncounted, or its answer goes nowhere.
Ends(r) ==
    /\ request[r] # Free /\ request[r].gone /\ request[r].phase # "gate"
    /\ request' = [request EXCEPT ![r] = Free]
    /\ UNCHANGED <<pusher, posts, pushOk, givenUp, hubVars, viewVars>>

Handler(r) == Gate(r) \/ Body(r) \/ Ends(r)
-----------------------------------------------------------------------------
(* The stream of viewer v.                                                 *)

Open(v) ==
    /\ viewer[v].phase = "off"
    /\ viewer' = [viewer EXCEPT ![v].phase = "opened"]
    /\ UNCHANGED <<requestVars, hubVars, clients, shown>>

Begin(v) ==
    /\ viewer[v].phase = "opened"
    /\ viewer' = [viewer EXCEPT ![v].phase = "part"]
    /\ clients' = clients + 1
    /\ UNCHANGED <<requestVars, hubVars, shown>>

\* Fault: how old the latest frame is is not asked.
LatestOfAnyAge == hub.rx

\* The latest frame, if it was received within frame_fresh_s.
Latest == IF hub.rx <= Fresh THEN hub.rx ELSE Synthetic

Part(v) ==
    /\ viewer[v].phase = "part" \/ (viewer[v].phase = "waiting" /\ viewer[v].due <= Lag)
    /\ shown' = [shown EXCEPT ![v] = Latest]
    /\ viewer' = [viewer EXCEPT ![v] = [phase |-> "sending", due |-> 0, slow |-> FALSE]]
    /\ UNCHANGED <<requestVars, hubVars, clients>>

\* The part has left; the stream sleeps until the next.
Sent(v) ==
    /\ viewer[v].phase = "sending"
    /\ viewer' = [viewer EXCEPT ![v].phase = "waiting", ![v].due = Period + Lag]
    /\ UNCHANGED <<requestVars, hubVars, clients, shown>>

\* The viewer goes away, or has had max_parts parts; a stream that never began is not counted.
Leave(v) ==
    /\ viewer[v].phase # "off"
    /\ viewer' = [viewer EXCEPT ![v] = [phase |-> "off", due |-> 0, slow |-> FALSE]]
    /\ shown' = [shown EXCEPT ![v] = Synthetic]
    /\ clients' = IF viewer[v].phase = "opened" THEN clients ELSE Max({0, clients - 1})
    /\ UNCHANGED <<requestVars, hubVars>>
-----------------------------------------------------------------------------
Older(a) == IF a = Synthetic THEN Synthetic ELSE Min({a + 1, OldAge})

\* A stream that sleeps goes on in time; one that sends waits for its viewer.
Tick ==
    /\ \A v \in Viewers : viewer[v].phase = "waiting" => viewer[v].due > 0
    /\ hub' = [hub EXCEPT !.rx = Older(@)]
    /\ shown' = [v \in Viewers |-> Older(shown[v])]
    /\ viewer' = [v \in Viewers |->
                    [viewer[v] EXCEPT !.due = IF @ = 0 THEN 0 ELSE @ - 1,
                                      !.slow = @ \/ viewer[v].phase = "sending"]]
    /\ UNCHANGED <<requestVars, framesOk, framesBad, answers, back, clients>>

Next ==
    \/ Post \/ GiveUp \/ Answered \/ Tick
    \/ \E r \in Requests : Arrives(r) \/ Closed(r) \/ Handler(r)
    \/ \E v \in Viewers : Open(v) \/ Begin(v) \/ Part(v) \/ Sent(v) \/ Leave(v)

Spec == Init /\ [][Next]_vars
-----------------------------------------------------------------------------
(* Properties.                                                             *)

\* What a viewer that takes its parts at once has on the screen as live was received within
\* frame_fresh_s, a period and a lag; then the synthetic frame has replaced it.
LiveViewIsRecent ==
    \A v \in Viewers :
        ~viewer[v].slow /\ shown[v] # Synthetic => shown[v] <= Fresh + Period + Lag

\* A frame takes the place of a newer one at most once for each post that was given up: what
\* is answered moves the view forward.
BackOnlyByGivenUp == back <= givenUp

\* Each post is counted once at most, as good or bad, when the endpoint answers, also after
\* the pusher gave it up; and what the pusher counts as delivered the backend has.
PostsAreCounted ==
    /\ framesOk + framesBad = answers /\ answers <= posts
    /\ pushOk <= framesOk

\* video_clients counts the streams under way, however earlier ones ended.
ClientsAreCounted ==
    clients = Cardinality({v \in Viewers : viewer[v].phase \in {"part", "sending", "waiting"}})
=============================================================================
