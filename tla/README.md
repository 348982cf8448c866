# AOT_DRONE: a verification development

TLA+ specifications of AOT_DRONE, an aerial object-tracking drone, checked with
TLC on small instances and proved with TLAPS for every value of the constants.
Paths below are relative to the repository; the program is under `src/`.

## The system

Four programs on two links:

    webapp --HTTP/WS--> backend --TCP CMD, 50 Hz--> fc_app --RC/MSP--> flight board
                          ^  ^                        |
         vision --UDP VIS-+  +------- UDP TEL --------+

The operator's intent (mode, arm word, setpoints) goes from the webapp to the
backend, which resends it at 50 Hz to the flight controller together with the
newest vision sample; the flight controller runs a mode machine at 50 Hz and
writes RC channels.  Telemetry and events go back.

### Inventory

| component | source | state it keeps | operations | hard behaviour |
|---|---|---|---|---|
| FC main loop | `fc/implementation/main.cpp` | last applied seq, stale-link latch, degraded-sink latch | one iteration at 50 Hz | shares the latest CMD with a network thread and reads it twice; latches act on edges |
| mode machine | `fc/implementation/FlightController.cpp` | mode, arm flag, channels, landing and takeoff timers, last tracking update | set mode / arm / setpoints / tracking, time step | self-transitions (hand-over, fallback, auto-disarm) race with operator CMDs |
| command server | `CommandServer.cpp`, `FrameCodec.cpp` | listening and client sockets, latest CMD and its time | accept, read a frame, publish, stop | thread against `stop()`, half-open clients |
| CMD parser | `CommandReceiver.cpp` | none | parse one JSON object | stateless |
| MSP sink | `MspRcSink.cpp`, `MspFraming.cpp` | fd, parser buffer, health, probe results | probe, write channels, drain replies | partial writes, retries, resynchronisation |
| CMD bridge | `backend/cmd_bridge.py`, `cmd_schema.py` | socket, back-off, last announced state, stop event | connect, send tick, start, stop | thread against `stop()`, shared state read piecewise, VIS freshness gate |
| shared state | `backend/state.py` | newest VIS, TEL, intent, CMD seq, counters | record, read, reserve a seq | read and written by five threads |
| fan-out | `backend/ws_manager.py`, `broadcast.py` | per-client queues, event seq, rate limits | register, broadcast, pop | bounded drop-oldest queues, two locks |
| ingest | `backend/vis_ingest.py`, `tel_ingest.py` | socket, drop counters | receive and validate | UDP: loss, duplication, reordering |
| HTTP application | `backend/app.py`, `rate_limit.py` | component instances, token buckets | start-up, shutdown, routes | order of start and stop |
| video hub | `backend/video_hub.py` | latest frame, subscribers | publish, subscribe | slow viewers |
| vision pipeline | `vision/vision_pipeline.py`, `opencv_tracker.py` | tracking state, last box, confidence | process a frame | detector gaps, confidence decay |
| camera, pusher | `vision/camera.py`, `frame_pusher.py` | capture handle, latest frame | read, reopen, push | reconnection, latest-only hand-over |
| WebSocket client | `webapp/src/ws.ts` | socket, two timers, counters | start, stop, four callbacks | late or lost close events |
| user interface | `webapp/src/App.tsx`, `api.ts` | form state | buttons | none beyond rendering |

How the parts interact: the webapp posts intents to the backend over HTTP; route
handlers, the two ingest threads and the bridge thread meet in `SharedState`
under one lock; the bridge writes frames to a TCP connection the flight
controller's server thread reads; that thread and the FC main loop meet in the
latest CMD under `cmd_mutex_`; the main loop calls the mode machine and the RC
sink directly; the bridge reports to the broadcaster, and the broadcaster to the
browsers, through callbacks.

### What makes each part correct

- *Main loop and mode machine*: Takeoff and Tracking only behind their
  interlocks; a stale link ends in LandSafely, and silence for good ends
  disarmed; a landing never begins again and its auto-disarm is final; only a new
  CMD lifts a failsafe; the vehicle follows fresh targets only.
- *CMD bridge*: reconnects, tells the truth about the link, sends Tracking only
  with a live VIS stream, leaves nothing behind after `stop()`.
- *Command link*: CMDs are applied in the order they were built, each at most
  once; a link that looks fresh is a link that is obeyed; an operator's CMD is
  applied in the end.
- *Command server*: uses no descriptor but its own; `stop()` comes back, ends the
  thread and closes every descriptor.
- *MSP sink*: a frame that was begun is finished or is the last; the latched arm
  switch is recent; the parser loses to a corrupted byte only replies near it.
- *Fan-out*: each viewer takes events in the order they were posted to it, losing
  only what newer ones pushed out; once the link settles, its view is true.
- *Ingest*: every datagram is counted once, but one whose reading ends the thread; what the flight
  controller's parser refuses of what is forwarded is known; a shutdown leaves neither thread nor socket.
- *Gate, video hub*: no burst beyond the limit and no refusal below it; a live
  view is recent, and goes back only by a post that was given up.
- *Vision*: a box sent as tracked is fresh and its confidence was earned; a target
  and a camera that come back are found again; VIS messages keep coming; wherever the
  loop is left, what it opened is closed, unless the closing fails too.
- *WebSocket client*: one socket at most, never without something to wake it, each
  failure counted once, and a working backend is reconnected to.
- *Hover calibration*: a row without a note is of a throttle that was commanded.

## Modules

| module | models | extends |
|---|---|---|
| `CmdSeq` | the wrapping CMD seq space and its comparison | |
| `FlightController` | the mode machine as operators on a controller record | |
| `FcLoop` | the FC main loop, with the server thread's publications, the clock and a sink that breaks | `FlightController`, `CmdSeq` |
| `FcLoopHistory` | `FcLoop` with the last arm word of the operator | `MCFcLoop` |
| `CmdServer` | start and stop of the command server, descriptor by descriptor | |
| `MspSink` | writes, polls and the arm switch on the serial line | |
| `MspStream` | the byte parser on replies with a corrupted byte | |
| `CmdBridge` | the backend's bridge thread against `stop()` | |
| `CmdDelivery` | abstract: CMDs applied in order, each at most once | |
| `CmdLink` | the link end to end; implements `CmdDelivery` | `CmdSeq` |
| `EventFeed` | abstract: a lossy, ordered feed of events | |
| `Fanout` | the backend's broadcasters, queues and WebSocket endpoint; implements `EventFeed` | |
| `WsClient` | the webapp's client against a browser that loses or delays close events | |
| `ApiGate` | token and rate limit in front of every endpoint | |
| `Video` | frame posts, the hub and the MJPEG streams | |
| `Schemas` | what is accepted, normalised and forwarded of a datagram | |
| `Ingest` | an ingest thread through start-ups and shutdowns, against UDP | `Schemas` |
| `Calibration` | the hover calibration script against the backend | |
| `VisionPipeline` | detection and tracking, frame by frame | |
| `Boxes` | boxes from the detection to the VIS payload | `Schemas` |
| `Camera` | the frame source, call by call of `read()` | |
| `VisionLoop` | the loop of the vision process around them | `Camera` |
| `FcLoop_proofs`, `CmdBridge_proofs`, `Fanout_proofs`, `WsClient_proofs` | theorems about the module of that name | it, `TLAPS` |
| `FcIo_proofs` | theorems about `CmdServer` and `MspSink` | them, `TLAPS` |
| `Vision_proofs` | theorems about `VisionPipeline`, `VisionLoop` with its `Camera`, and `Boxes` | them, `TLAPS` |
| `CmdLink_proofs` | theorems about `CmdLink` and its run | `MCCmdLink`, `TLAPS` |
| `Backend_proofs` | theorems about `Calibration`, `Video`, `ApiGate` and `Ingest` in the backend's run | `MCBackend`, `TLAPS` |
| `MCFcLoop`, `MCCmdLink`, `MCFcIo`, `MCVision`, `MCEvents`, `MCBackend` | the instances TLC checks | |

The last four `MC` modules put components beside one another that share no state
in the models: what one gets of another (a status, a sample, an answer) it takes
as any that can be.  Their variable `part` names the component, or the instance
of one, that moves in a behaviour; the others stay where they begin.  The run is
the union of the components' state spaces, not their product, and a property
there is one of a component, or the conjunction of several.
A setting that a run is to try more than one value of (the rate limit, the stream of an ingest, the
pace of inference, the kind of browser) is a variable that `Init` chooses and nothing changes.
What does interact is composed within one module: the threads that meet in
`Fanout`, pusher, requests, hub and viewers in `Video`, application and threads
in `Ingest`, script and backend in `Calibration`, loop and camera in
`VisionLoop`, and bridge, server and main loop in `CmdLink`.

An operator whose comment begins with "Fault:" is not part of the specification:
it is the definition below it as a plausible bug would have it, and every
property is known to catch one of them.

### FlightController and FcLoop

The C++ object is one record (`Controller`), and each public method an operator
from records to records: `SetControlMode`, `SetArm`, `SetManualSetpoints`,
`UpdateTracking`, `UpdateTimeStep`.  `UpdateTimeStep` is the whole of
`updateTimeStep`: the dt clamp, the tracking timeout, the mode's law, the disarm
cut and the final clamp.  Throttles keep their order (idle < spool < landing
minimum <= takeoff target <= altitude-hold limit < maximum); the three stick channels are
abstracted to who wrote them last; the altitude law yields any throttle of its
clamped range (`FollowThr`); a tracking message keeps its state and whether its
confidence reaches the minimum.

One iteration of the loop is two actions, cut where the program releases
`cmd_mutex_`: `ReadCmd` takes the latest CMD, dedupes it by seq and applies it in
the code's order (mode behind its gate, arm word, setpoints, tracking);
`Control` reads the age, updates both latches, enters LandSafely on a rising
edge, runs the time step and writes.  `PublishCmd` (the server thread) and
`Elapse` (time, at most `MaxLoop` units per iteration) may fall anywhere.  A seq out of
range and an unknown mode are values of the inputs.  A write may break the sink, for good.

### CmdBridge

`pc` walks through `run_forever`, `_attempt_connect` and `_send_tick`; a step
runs up to the next access of state another thread writes.  `st` is the shutdown
thread in `stop()`: set the event, close the socket, join (which may time out),
announce.  Both threads run `_set_fc_connected`, which is not atomic; its four
accesses are the steps of `call`.  `snapAge` follows the age of the sample the
tick really read, which the program does not know; `VisAgeNow` is the age it
computes.  The environment posts intents (an oversized one included), delivers
VIS samples, and closes, restarts or stops reading the connection.

### CmdLink

The backend's numbering, up to `MaxConns` connections queued at the server in
the order they were made, the serial server, and the loop's dedupe.  `Breaks`
ends a connection and loses the end of its wire, with the flight controller told
(`open` false) or not (half-open); either program may crash and restart.  A CMD
carries, besides its seq, the number of its building, which no program reads:
with `applied` and the bit `turn` it maps the link to `CmdDelivery`, whose
variables have the same names.  Seq 0 to 2^31-1 becomes a space of 16, and seeds
start just before its end so that every run wraps.  A new backend is seeded up
to `MaxLead` ahead of its predecessor's seq.

### CmdServer

One action per stretch between lock acquisitions.  A descriptor is a number the
system hands out again once it is closed (`table` says what it refers to), and
`OpenForeign` is any other part of the process that opens a file or a socket.
`th` keeps the snapshot the server thread took under the lock and the socket its
blocking call holds; `Stop` is the critical section of `stop()`, which shuts down before
it closes.  Malformed frames end a connection as a client does.

### MspSink and MspStream

`MspSink`: an iteration writes a frame of channels `write()` by `write()`
with both budgets of `write_all`, and every `PollEvery` ticks drains the replies and
sends a query.  `age` follows how old the latched switch is, which the program
does not know; `torn` records that part of a frame was left on the line.
`MspStream`: bytes of three bits with a header of two, checksum and length,
read in pieces of any length into `rx_buffer_`; `Parse` is `parse_response`
with its resynchronisation, and `Drain` the loop around it.

### Fanout and EventFeed

A broadcasting thread (heartbeat, bridge, ingests) goes through build, seal and
post: it reads the shared state, takes a seq, and enters each queue, each under
its own lock.  `Warns` and `SampleArrives` keep the rate limits, with time as the set of kinds
whose interval has passed.  An endpoint accepts, registers its queue, sends the
greeting and serves.  `posted` and `taken` number the events of each viewer and
map the module to `EventFeed`.

### WsClient

`sock` is what the browser knows of a socket (`half` has lost its peer without a
word, `erred` has told its error and not yet its close); each event handler and timer of `ws.ts` is an action, acting on the client whichever socket it has by
then, as the closures do.  `tally` counts how often a socket's failure was counted.  `drops` says
which browser it is: one that tells of an error and the close in one task, or one
whose close event may come late or never.

### ApiGate, Video, Ingest, Schemas, Calibration

`ApiGate!Request` is the check of the token and then the bucket, in units that
make a tick's refill a whole number at any rational `rate`; `ReadToken` is the start-up's normalisation; `Select`
the subprotocol negotiation.

`Video` knows a frame by the number of its post and the time since it was received; how old it was by then
the backend is not told (`captured_ts` is a header it only stores).  The pusher's timeout bounds
each connect, write and read by itself, so `GiveUp` may come at any time of a post.  The request goes
on: the gate in front of it runs in a pool of threads, which keeps no order, and of a body above 64 KiB that
nobody reads yet the server stops reading, so a close may be heard (`Closed`) late or never.  A given-up frame
may therefore be stored at any time (`Body`), also after its successors.

`Ingest` is that of one `stream`, VIS or TEL; it cuts the thread at its lock acquisitions and at the
points where `close()` may meet it (`Bind`, `Hold`).  `Schemas` keeps the order of the
checks, so each datagram has the reason the code gives: what reading the fields comes to before the states are looked
at and after (`early`, `late`; an integer too large for `float()` raises an `OverflowError` that nothing
catches, and `Escape` ends the thread), the states, and the ranges.  Numbers are
thousandths; NaN and infinity are two more, which no range has.  `wide` is a seq that is no int32, and `tiny` a number
too small for a normal double, which `strtod` calls out of range.

`Calibration` is the sweep,
post, wait, row, with a handler in the backend that goes on after the script has given up on it.

### VisionPipeline, Boxes, Camera, VisionLoop

One step of `VisionPipeline` is `process_frame` on a scene whose target is at one
of a few places, or hidden, and moves by one; the tracker is what it believes
(`trk`), and `detect_every_n` the pace of inference.  Confidences are percents, and the decay is the code's law with a faster rate.  `Boxes` works in
half pixels, so that rounding shows, over all boxes of a small grid.  `Camera` and
`VisionLoop` share one thread of time: a push or a reopening takes ticks, and the two
schedules are compared with the time taken after the frame, as in the code.  A turn may be left anywhere,
by an exception or a signal: in a read (`ReadIsCut`, which may leave a reconnect between any two of its steps,
`Camera!ReadRaises`), or after it (`Raises`, `Quit`).  The `finally` is a sequence of steps (`summary`, the source,
the publisher, the HTTP client, the UDP socket); each is done (`End`), or raises or is interrupted (`EndRaises`), which
skips those after it.

## Runs

| run | parts | properties | shows |
|---|---|---|---|
| `FcLoop_modes` | `FcLoop` | types, interlocks, failsafe, landing | holds over every mode, arm word and sink failure, in every interleaving with the network thread |
| `FcLoop_track` | `FcLoop` | `FollowNeedsFreshTarget` | holds with tracking updates that age and lose confidence |
| `FcLoop_silence` | `FcLoop` | `LinkLossDisarms` | after the last CMD the vehicle ends disarmed at idle |
| `CmdLink` | `CmdLink`, with an end and for ever | `FreshLinkIsObeyed`, `OrderIsKept` (the refinement), `DeliversForEver` | holds over crashes, broken connections and wrapping seqs; half-open connections for good excepted from delivery |
| `CmdBridge` | `CmdBridge` | VIS gate, truthful status, clean and final stop, `Reconnects` | holds in every interleaving under fair threads |
| `FcIo` | `CmdServer`, `MspSink`, `MspStream` (reads of any length; a corrupted byte) | `DescriptorsAreOurs`, `StopReturns`, `NoFrameInAnother`, `ArmSwitchIsRecent`, `LossIsLocal` | holds |
| `Vision` | `VisionPipeline` (inference on every frame, every third, and a steady scene), `Boxes`, `VisionLoop` | `PipelineIsSound`, `ConfidenceIsEarned`, `TargetSettles`, `GeometryIsSound`, `LoopIsSound`, `VisKeepsComing`, `CameraRecovers` | holds |
| `Events` | `Fanout` for ever, `WsClient` with a browser that drops nothing and one that does | `ViewSettles`, `ClientIsSound`, `ComesBack` | holds |
| `Backend` | `Fanout` with slow viewers, `ApiGate` at 2 Hz and 1/2 Hz, `Video`, `Ingest` of VIS and of TEL, `Calibration` | `FeedsEachViewer` (the refinement), `GateIsSound`, `LiveViewIsRecent`, `BackOnlyByGivenUp`, `IngestIsSound`, `RowsAreTrue` | holds |
| `FcLoop_disarm` | `FcLoopHistory` | `DisarmForcesMinimumThrottle` | **violated** by Takeoff, which arms on every step |
| `CmdBridge_torn` | `CmdBridge` | `ForwardedSampleIsFresh` | **violated** by the two reads of the VIS sample |
| `Backend_hiccup` | `Calibration` | `NoSweepIsLost` | **violated** by a connection that ends without an answer |

### The bounds, and why they are enough

- *FC time.*  `CmdTimeout` 2 and `MaxLoop` 1 are the smallest values with
  2 * `MaxLoop` <= `CmdTimeout`, the condition of the proof.  `DisarmTime` 3 lets
  a landing be interrupted before
  its end; takeoff phases of one unit each are passed in turn; ages saturate one
  unit past their timeout, where the code no longer tells them apart.
- *Seqs.*  The comparison depends on differences only.  `FcLoop_modes` uses a
  space of 4 (ahead, half, behind and equal all occur); the other FC runs, which
  are not about the dedupe, use 2.  `CmdLink` builds at most 4 CMDs and
  restarts the backend at most twice with a lead of at most 2: under half of 16,
  as the real link is under half of 2^31 within twelve days.
- *Link.*  Two frames on a wire, two connections, two publications between two iterations
  and two faults: a restart during a reconnection, a lost frame before a kept
  one, and a CMD overtaken before it is read all occur.  The part that runs for ever lets
  numbers saturate at 2; the other stops, so that numbers stay exact.  `CmdLink` is checked
  without the deadlock test: a server left reading from a half-open connection waits for
  ever, and so does the bridge once its buffer is full.
- *Bridge.*  A sample is fresh for one unit, a back-off is one or two, and a tick
  may take two: a sample can turn stale, and be replaced, within a tick.
- *Server.*  Two starts, five sockets and three numbers: each number is handed out
  again while the thread may still hold it.
- *Serial line.*  Frames of four bytes with budgets of two and five let each budget
  end a frame before and after its first byte.  Three replies on a line: one before,
  one at and one behind the corrupted byte, each length byte reaching over the next.
- *Fan-out.*  Queues of two and four seqs: a queue overflows with a slow and a fast
  viewer and two threads.  `Events` has one viewer that keeps up, both of the bridge's reports and
  saturated seqs, for the liveness.
- *Client.*  Two sockets, reused once closed: the one it has and the one it gave up.
- *Gate.*  Six ticks: three intervals of two quarter seconds at 2 Hz, with a bucket of two, and three of
  two seconds at 1/2 Hz, with a bucket of one; it is emptied and refilled at either.
- *Video.*  Two requests and two posts: one given up and its successor, which it may follow into the hub.
- *Ingest.*  Two start-ups of either stream, two datagrams of the kinds the checks tell apart: each reason,
  an overflow read early and late, a seq that is too wide, an infinite timestamp, a tiny number kept and one set to zero.
- *Calibration.*  Three steps and two crashes: before, during and after a step.
- *Vision.*  Places a step apart and out of reach; holds of two and three frames; inference on
  every frame and on every third.  Boxes of half pixels on a frame of two by one
  pixels lie inside, across and outside of it.  Pushes of up to two ticks against an interval of one delay VIS messages.
  `PushMax` is a parameter of the environment: the timeout bounds each operation of a post, and the sum only as long
  as the backend neither trickles its answer nor its reading.
- `FcIo`, `Vision` and `Backend` are checked without the deadlock test: a line, a
  sweep, a video file and a server that was stopped for the last time end, a box is
  looked at once, and threads stop at their bounds.

### Fairness, and why the code justifies it

- `FcLoop!FairSpec`: the loop has no exit but a signal, and time passes; nothing
  obliges the backend to publish.
- `CmdBridge!FairSpec`: both threads are
  scheduled (`WF`), and time passes although a tick may begin over and over
  (`SF` of `Elapse`, which is disabled between a tick's clock read and its first
  shared access); nothing is assumed of the environment, `Reconnects` has the
  listening flight controller as its hypothesis.
- `CmdLink!Fairness`: the bridge, the server and the loop run, and a crashed
  backend is started again by its operator; faults are bounded in number.
- `CmdServer!Fairness`: both threads run; a silent client keeps the server in
  `read()` for as long as its socket is not shut down, so only a read of a socket
  that was shut down is fair.
- `Fanout!Fairness`: the heartbeat's timer fires, threads that began finish, and
  endpoints serve (a viewer that keeps up); nobody has to join and no state has to change.
- `VisionPipeline!Fairness`, `VisionLoop!LoopFairness`: frames are processed and the loop
  turns; nothing is assumed of the camera.
- `WsClient!Fairness`: timers fire, the browser completes a close that was asked
  for, and a backend that is tried for ever is reached for ever (`SF` of `Open`, the
  hypothesis of reconnecting).

## Findings

1. **Takeoff re-arms** (`FcLoop_disarm`, `FlightController.cpp:185`).  A disarm sent with
   mode Takeoff is undone in the same iteration; the repository README (line 91) says
   "Disarm forces minimum throttle every tick".
2. **A torn read of the VIS sample** (`CmdBridge_torn`, `cmd_bridge.py:171`).  The sample
   and its age are read separately: a sample of any age can be forwarded with the
   age of its successor, against `docs/decisions.md:57-60`.  One CMD is affected.
3. **A sweep is lost to a hiccup** (`Backend_hiccup`, `hover_calibration.py:161`).  A backend
   that goes down after it has read a request closes the connection without an
   answer; `http.client.RemoteDisconnected` is caught by no clause, and the script dies.  Its
   text (lines 44-46) says a sweep "isn't lost to a single backend hiccup".

Seen while modelling, and described here without a run of their own (the models
contain the behaviour, and the properties above are stated so as to leave it out):

- The failsafe fires on an edge (`main.cpp:569`): an iteration longer than half
  the command timeout that applies a CMD and then finds it stale, the latch already set,
  leaves LandSafely while the link is stale, against the comment at `main.cpp:490-491`.
  `FailsafeLands` has the condition under which it cannot happen.
- Seeds outrun seqs (`state.py:14`): 1000 a second against 50.  A backend restarted
  after some 13 days is taken for an old one, and its CMDs renew `cmd_age_s`
  without being applied.  `MaxLead` is the assumption that excludes it.
- A viewer is registered before its two greeting events are numbered
  (`app.py:621`), so a LINK_STATUS queued in between comes after one with a
  higher seq, where `ws.ts:38-40` speaks of a monotonic counter.
- An overtaken datagram replaces its successor as the latest sample
  (`state.py:198`), though `docs/message-spec.md:83` says receivers rely on seq.
- NaN and Infinity pass for `timestamp_s` and `distance_m` (`tel_schema.py:93`), which have no
  range; `docs/message-spec.md:158-159` has such messages dropped.
- A datagram with an integer too large for `float()` raises `OverflowError` (`vis_schema.py:110`,
  `tel_schema.py:97`), which the ingest does not catch (`vis_ingest.py:131-137`): its thread ends, the
  datagram is missing from the drops, and nobody starts the thread again until the backend restarts.
- The flight controller refuses a whole CMD for a `vis_seq` beyond int32, a timestamp that is not finite, or a
  number too small for a normal double (`CommandReceiver.cpp:349-380`, `:516-525`), none of which the VIS schema asks for.
- A frame whose post was given up may reach the hub after its successor (`app.py:548`), and is shown as live.
- A closing step of the vision process that raises skips those after it (`main.py:492-501`), and a capture that
  a reconnect had opened when it was interrupted is not kept by anybody and stays open as long as the process.
- The miss streak counts frames (`vision_pipeline.py:197`): with inference on every
  second frame and a grace of 1, one missed inference drops the hold the grace is to keep.
- Drift is judged between successive detections (`vision_pipeline.py:268`), so a
  target that moves a little per frame leaves the tracker's own estimate behind.
- The reset on Ctrl-C ignores its outcome (`hover_calibration.py:331`).
- An error of an attempt whose close event is dropped leaves no watchdog armed
  (`ws.ts:250`), and a late close counts a failure twice (`ws.ts:380`).  Browsers fire
  both events in one task; `ClientIsSound` asks both of such a browser only.
- A line that failed is polled no more, so an arm switch that was on stays latched
  (`MspRcSink.cpp:463`); nothing reads it yet.

## Proofs

What TLAPS proves holds for every value of the constants that satisfies the
assumptions named in the modules and the hypotheses below.  The invariants were
checked by TLC before they were proved.

| module | theorem | property | invariant |
|---|---|---|---|
| `FcLoop_proofs` | `TypeCorrect` | `TypeOK` | itself |
| | `MspModesSafe` | `MspModesNeedHealthySink` | `SinkInv` |
| | `FailsafeLands` | `LandSafelyWhileStale`, if `2 * MaxLoop <= CmdTimeout` | `StaleInv` |
| | `AutoDisarmIsFinal` | `AutoDisarmSticks` | `OutputInv` |
| | `FollowIsFresh` | `FollowNeedsFreshTarget` | `OutputInv` |
| | `LandingCarriesOn` | `LandingNeverRestarts` | `TypeOK` |
| | `LandingIsLeftByCmd` | `OnlyNewCmdLeavesLanding` | `TypeOK` |
| | `ArmingIsAsked` | `NoSpontaneousArm` | `SinkInv` |
| `FcIo_proofs` | `ServerOwnsItsDescriptors` | `DescriptorsAreOurs` | `ServerInv` |
| | `SinkTypeCorrect`, `FramesStayApart`, `ArmSwitchDoesNotLinger` | `SinkTypeOK`, `NoFrameInAnother`, `ArmSwitchIsRecent` | `SinkInv` |
| `CmdBridge_proofs` | `TypeCorrect`, `TrackingIsGated` | `TypeOK`, `TrackingNeedsLiveVis` | themselves |
| | `LinkStatusIsTrue`, `StopIsClean` | `LinkStatusIsTruthful`, `StopLeavesNothing` | `LinkInv` |
| `CmdLink_proofs` | `TypeCorrect` | `TypeOK` | itself |
| | `LinkDelivers`, `OrderHolds` | refinement of `CmdDelivery`, `OrderIsKept`, if `~Endless` | `OrderInv` |
| | `FreshIsObeyed` | `FreshLinkIsObeyed`, if `ShortLink` | `OrderInv`, `GapInv` |
| `Fanout_proofs` | `TypeCorrect`, `QueuesFeedViewers` | `TypeOK`, refinement `FeedsEachViewer`, if `~Endless` | `FeedInv` |
| `Backend_proofs` | `RowsAreAlwaysTrue` | `RowsAreTrue` | `SweepInv` |
| | `LiveViewIsAlwaysRecent`, `ViewGoesBackOnlyByGivenUp` | `LiveViewIsRecent`, `BackOnlyByGivenUp` | `VideoInv` |
| | `GateStaysSound` | `GateIsSound` | `GateInv` |
| | `IngestStaysSound` | `IngestIsSound` | `UdpInv` |
| `Vision_proofs` | `TrackingConfidenceIsEarned`, `PipelineStaysSound` | `ConfidenceIsEarned`, `PipelineIsSound` | `PipelineInv` |
| | `LoopStaysSound`, `VisMessagesKeepComing` | `LoopIsSound`, `VisKeepsComing` | `LoopInv` |
| | `GeometryStaysSound` | `GeometryIsSound` | `Looked` |
| `WsClient_proofs` | `ClientStaysSound` | `ClientIsSound` | `Inv` |

Every invariant and every action property of the passing runs is a theorem, with one
exception (see "Only model-checked"); the theorems of `Backend_proofs` and `CmdLink_proofs` are about the
specification of the run itself, the others about the component's own, in which the run's `part`
lets it move.

### The hypotheses

- `~Endless`: with it numbers of events and builds are exact up to a bound of any size; without
  it they saturate so that a run may go on for ever, and two events have one number.  The
  program's numbers do not saturate: it is the case without the hypothesis that is the artefact.
- `ShortLink`: `MaxCmds + MaxLead * MaxFaults <= SeqHalf`.  The seqs built and the leads of the restarted
  backends use up at most half the seq space: 2^30 of them, 248 days at 50 Hz without a
  restart.  The run's instance is exactly at the bound (4 + 2 * 2 = 16 / 2), and with `MaxLead` 3
  TLC finds the property violated there.
- `2 * MaxLoop <= CmdTimeout`: an iteration of 20 ms against a timeout of a second.
- `BackendAssumption` gathers the assumptions of the backend's parts, which are instantiated in their run.

### The arguments

- *`FcLoop`.*  Each operator on controllers has a lemma saying what it returns: a controller,
  with its hover kept, in a mode the old one may lead to (`StepOK`), idle if
  disarmed.  `UpdateTimeStepOK` puts them together, and the invariants use only it.
  `SinkInv` adds that a set latch means a broken sink.  Without it, a CMD could
  pass the gate on a sink whose latch is already set, whose edge never comes.
  `StaleInv` measures ages against the iteration.  In an iteration that may apply a CMD while the latch is
  set, that CMD was published since the age was last read, so it is no older than
  the time since (`cmdAge <= sinceTick`); and one applied in this iteration is at most
  `MaxLoop` older than that.  Both together stay within the timeout if two iterations do.
  `OutputInv` proves the two output properties together and adds that Manual never holds the following law's
  sticks, so that they do not come back with a throttle setpoint.
  The three action properties are proved operator by operator: which of them may touch the landing
  timer, leave LandSafely or raise the arm flag.  The last needs `SinkInv`: a hand-over to Takeoff arms,
  and only the interlock keeps it from a controller that would fall back to landing.
- *`CmdServer`.*  The property speaks of what a thread does next, the invariant of what it holds now: a number in
  the thread's snapshot or in its blocking call still refers to the server's socket (`SnapshotIsOurs`), each
  number has one owner (`OneOwner`), and once `stop()` is over none is left (`DownWhenStopped`).
- *`MspSink`.*  The age of the latched switch is at most `replied + PollEvery`, as a reply waits for the next
  poll at most, and `replied` at most `Stale` and the ticks since the last poll (`SincePoll`), which clears
  an older latch.
- *`CmdBridge`.*  `LinkInv`: the thread has no socket while it connects and at its end (`SocketFollowsThread`);
  until the join has returned only the thread announces, and what was told last differs from
  `lastConnected` by the callback still to come only (`OneAnnouncer`); while the thread runs, each flag holds the status from the
  access that writes it on (`FlagsFollow`); a thread at its end has announced a link that is down (`EndIsDown`), and
  a join that saw the thread end leaves nothing to announce (`JoinedIsDown`).
- *`CmdLink`.*  `OrderInv`: along the way of a frame (published, the wires of the connections in their order,
  built) the numbers never decrease, each wire holds a number once, and the applied number is
  not above the published one; then each step of the link is a step of the delivery or a
  stutter.  `GapInv` bounds the distance, in the seq space, from the seq applied last to any seq ahead of it by the
  numbers built and the leads of the backends between them: under half the space, the wrapping
  comparison is the comparison of numbers.
- *`Fanout`.*  `FeedInv`: the queue of a viewer holds the last of the numbers posted to it without a gap
  (`Fed`), so that dropping the oldest and taking the first are steps of the feed; the seqs taken and still to be posted are
  within the bound (`Numbers`); and a greeting that is sent has something to send.
- *`Calibration`.*  `SweepInv`: the script waits for one post at most, the one of its step or of the reset
  (`WaitsForOne`), so an answer it gets is that of its own post although forgotten ones are still handled.  A step held
  without a note was taken over (`HeldIsApplied`), which is what its row will say.  A backend that is down or refuses the
  token has no intent, and after a refusal nothing is under way on a backend that may take it (`LockedIsIdle`).
- *`Video`.*  `VideoInv` is of the posts and of the streams.  The pusher waits only for its newest post, whose connection
  nobody has closed (`WaitsForTheLast`).  So a frame that finds a newer one in the hub is of a post that was given up
  and not yet answered, and there are no more of these, with those that already went back, than posts given up
  (`back + Cardinality(Abandoned) <= givenUp`): an answer takes one away, and only giving up adds one.  The same
  bookkeeping of unanswered posts (`Pending`) and of the answer the pusher has not yet taken (`Delivered`) gives the
  counters.  Of each stream, what is on the screen was within `frame_fresh_s` when its part left, and while the stream
  sleeps its age and what is left of the sleep stay within a period and a lag more (`Recent`).
- *`ApiGate`.*  The burst bound speaks of any two grants, so the account of an address (`Account`) is kept from each of
  its grants on: what was granted since, and what is left in the bucket, is no more than a full bucket and what time has
  refilled since that grant (`Paid`).  A refill adds to both sides, a grant moves a unit from one to the other, and
  the cap only takes away.  An address whose calls are an interval apart finds a unit in its bucket because an
  interval, rounded up to ticks, refills one and a bucket holds at least one.
- *`Ingest`.*  Threads of earlier start-ups have ended and closed their sockets, and that of the current one has a socket exactly
  between its bind and the close of the one that knows it (`ThreadAt`), so the port is always free at a bind, and
  one thread at most has a datagram that is counted and not judged, or never will be (`InHand`); a thread that reads on
  has got past its last one (`JudgingAt`).  With it the counters add up (`Counted`).  What
  `_require_range` lets through is finite, since NaN fails both comparisons, and the rest is set to zero (`KeptSample`):
  so what the parser can still refuse is the seq, the timestamp and a tiny number of a tracked target.
- *`VisionPipeline`.*  What is published as tracked is the confidence that is kept, and kept while tracking
  (`ConfInv`); the decay lowers a confidence and never takes it across the floor (`DecayedStays`).  A hold
  begins tracking as soon as it is long enough (`HoldInv`), and a remembered detection is whole (`LastInv`).
- *`VisionLoop`.*  `Lateness` says at each point of a turn how old the last VIS message may be.  A message that is not
  due when the clock is read was sent less than an interval ago, and the push of that turn and that of the next
  may both come before the one that follows: hence two pushes.  `EndInv` says place by place of the `finally` what is closed and
  what of the camera is held (`Parted`, `Held`): a capture that belongs to nobody stands behind the sentinel of a read that
  was cut off, and nothing else is left open without a closing step that raised.
- *`Boxes`.*  `_intersection_over_union` is compared with the points the boxes have in common: a box is a product of two
  intervals, so is an intersection, and the cardinality of a product is the product of the cardinalities.  The
  rest bounds each clamp and division of the conversions.
- *`WsClient`.*  In a browser that drops no close event the client knows the one socket that is in use, and waits for a
  timer only without one (`KnowsItsSocket`); what was counted follows from where each socket is (`CountedSoFar`).
  In the other browser a stopped client still stays stopped, and no failure is counted more than twice.

### What proving found

- A call of `read()` may wait out a back-off, open a new capture and return its frame.  With
  `black_frames_after_open` 0 such a call follows the failure at once, so a VIS message can be late although every call
  returned a frame.  `VisKeepsComing` is about the time in which reads find a frame at once (`starved` is the rest).
- The sign of an offset survives the conversion up to the resolution of a thousandth
  (`SidesAreKept` says it exactly): a target to the right of the centre or below it by less than that is sent as centred.
- What of an accepted sample the flight controller can parse was first stated as "all of it", which is false of a
  timestamp that is NaN or infinite, of a seq beyond int32 and of a tiny number; `ForwardedIsParsed` is now an
  equivalence, so it says that it is false of nothing else.
- The counters of an ingest add up except for the one datagram whose reading ended the thread, and for no other reason.


### Only model-checked

- Liveness (`LinkLossDisarms`, `DeliversForEver`, `Reconnects`, `StopIsFinal`, `StopReturns`, `TargetSettles`,
  `CameraRecovers`, `ViewSettles`, `ComesBack`): fairness and ENABLED are out of the provers' reach.
- `LossIsLocal` of `MspStream`, whose parser and reference are recursive over the bytes: induction over data
  is out of their reach too.

## Plan

Done: all modules above, in the order flight controller, bridge, link, server and
sink, fan-out and client, backend, vision; and the proofs above.  Left: the probes of
`MspRcSink.cpp:286-388` at boot, and `FcLoop` composed with `MspSink` in place of its
nondeterministic `sinkOk`.

## Not modelled, and why

- Character-level reading and writing of JSON, the
  telemetry sender, the recording and fake sinks, the user interface and the other
  development scripts: stateless or outside the running system.
- Image processing (the YOLO model, OpenCV's tracker, overlays, JPEG): external
  libraries, or drawing.  `tracker.py` is a scaffold the pipeline does not use.
- The numeric following law and the PI gains: only their ranges are kept.
- Flight dynamics and the flight board's firmware: not in the repository.
- The MSP probes at boot (`MspRcSink.cpp:286-388`): their outcomes are the initial
  states of `FcLoop`.
- A start-up that fails halfway (`app.py:365`), the status pages, and
  `ensure_cmd_seq_minimum`, which nothing but tests calls with a value.
- Boxes with coordinates that are not finite: the guard of `vision_pipeline.py:409-410` is for values
  that no source of boxes yields (`yolo_detector.py:119-121` drops a box with a NaN corner, as `max(0.0, nan)` is 0,
  and the OpenCV tracker's boxes are made of integers).
- In what is modelled: statistics counters no property is about, logging,
  telemetry contents, the preview's windows, and the replacement of a listening socket that fails.
