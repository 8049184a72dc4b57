# Starfire: verification project

Starfire is a game-streaming client in Rust. It pairs with a host, launches an
application there, receives video and audio over UDP, decodes and presents the
video, and sends input back over an ENet control channel. This directory holds TLA+
specifications of its logic, the TLC runs that check them on small instances, and
proofs about them that TLAPS checks for every value of the constants.

Paths below are relative to the repository's root. `video.rs` and `session.rs` are those
of `crates/starfire-core/src`, `lib.rs` is that of `crates/starfire-client/src`.

## 1. Inventory

### Threads and how they interact

```
 embedder ── stop, drop, poll_event, latest ──┐
    │ send_input                              │ Frame / Stopped events, frame_pending, `latest`
    ▼                                         ▼
 ControlHandle ─ cmds ─► control thread    pipeline thread ◄── events channel ── receive threads
                          │ ENet              │ Depacketizer, KeyframeRequester,      (video, audio)
                          ▼                   │ decoder, TransitTracker                   ▲
                         host                 └── recycled buffers ── pool ───────────────┘
```

* The **receive threads** (one per stream, `recv_loop`) take a buffer from a shared pool,
  read a datagram into it and push it on an unbounded event channel.
* The **pipeline thread** (`Pipeline::stream`) sets the session up, then takes events,
  gives video datagrams to the reassembler, decodes what comes out, publishes the
  decoded frame in a one-element slot and wakes the embedder; it asks the host for a
  keyframe when one is needed, and gives buffers back to the pool.
* The **control thread** (`control_loop`) connects ENet, then takes commands from an
  unbounded queue, folds relative mouse moves that piled up, and sends them.
* The **embedder** polls events, presents the frame in the slot, and stops or drops the
  client; the app (`crates/app`) is one embedder.

### Components

| component | state it keeps | operations | what is hard | what makes it correct |
|---|---|---|---|---|
| Reassembly, `video.rs` | window of incomplete frames, floor, keyframe gate, unread loss report, counters | `push_at`, `take_loss`, `require_keyframe` | loss, reordering and repetition of datagrams, wrapping indices, a restarted counter, one packet that settles several frames | order, exact counts, nothing decodable waits, no predicted frame without its reference |
| Keyframe recovery, `lib.rs` `KeyframeRequester` and `Pipeline::stream` | `needed`, time of the last request, error streak | `need`, `satisfied`, `due` | retry time against a late answer; a need nobody reports | asked exactly while needed, not twice, again in time; the picture comes back |
| Client, `lib.rs` `Client`, `Notify`, `Shared` | slot, event channel, `frame_pending`, stop flag | `connect`, `poll_event`, `stop`, `drop` | flag and channel are updated apart; stop at any point of setup | no lost wake-up, no growth, the thread ends, the end is told |
| Control thread, `session.rs` `control_loop` | command queue, batch | `send_input`, `request_idr`, drain, merge, send | folding across other messages, overflow of one axis, Stop in mid-drain, a send that fails | same motion, same order, nothing left behind a Stop |
| Session, `session.rs` `StreamSession` | threads, stop flag, pool, control commands | `start`, `recv_loop`, `recycle`, `drop` | setup that fails half-way, teardown against three threads and a lost connection | no thread survives, /cancel comes last, only audio costs buffers |
| Frame path, `lib.rs` `Pipeline::decode`, `starfire-decode` Media Foundation and VideoToolbox, `starfire-render` D3D11, Metal and wgpu | submissions, decoder queue or sink, sample and texture pools, held textures | `push`, `drain_output`, `decompression_output`, `drain_sink`, `present`, `upload` | GPU textures shared by two threads, a failing call in the middle of a push, an error reported by a later push | no texture overwritten while needed, the newest frame is shown |
| Network delay, `crates/starfire-protocol/src/metrics.rs` `TransitTracker` | epoch, queue of minima with a dead prefix | `observe` | wrapping stamps, clock drift, eviction against undercutting | the floor is the minimum of the window |
| Latency summaries and client statistics | ring of samples; counters and baselines | `record`, `summary`, `reset`, `frame_presented` | rank arithmetic; baselines that are up to a second old | summaries equal those of a sort; no counter runs backwards |
| Input capture, `crates/app/src/main.rs` | grab, modifiers, carried remainder | window and device events | a button or key down when the grab changes | every press that is forwarded is released; motion is not lost |
| Audio, `main.rs` `audio_thread`, `starfire-audio` | queue of datagrams, ring of samples | try_send, decode, push, device callback | two bounded queues, each drops something | latency bounded; which end is dropped |
| Setup: serverinfo, pairing, launch, RTSP | phase of a request ladder, a fresh identity; at the host its ladder, trusted identities, running app, RTSP session | one request per phase, each on its own connection | timeouts, a PIN typed late, a busy host, a client that dies, requests given up that the host still acts on | past the ladder it is trusted; a playing run has the right ports; a next run gets the stream |
| FEC, `crates/starfire-protocol/src/fec.rs` | tables of matrices | `recover` | field arithmetic, singular sub-matrices | any k of the shards give the data back |
| Annex-B, packet headers, XML | - | parsing | boundaries | what is branched on is taken over as fields of records; see section 8 |
| Thread priorities, allocator, decoder selection, test tools | - | - | - | not protocol logic; see section 8 |

`PROJECT.json` lists every component with its status, and every hazard at its line with
the properties that would notice it going wrong.

## 2. Plan

The order in which the modules were written, most important first.

1. `Depacketizer`, its promise `GatedStream`, and `VideoStream`, which composes it with a
   host and a network. All of it is proved, the promise among it.
2. `Pipeline`: keyframe recovery over time. Safety proved.
3. `Client`: pipeline thread and embedder. Wake-up safety proved.
4. `ControlThread`, which implements `InputChannel`. Proved.
5. `ReceivePath` and `Session`, which composes it with teardown.
6. `FramePath` (Windows) and `MacFramePath`, which adds the macOS decoder and renderer to it.
   Proved.
7. `TransitTracker`, `LatencySeries`, and
   `NetworkDelay`, which composes the two. Proved, while the stamps are comparable.
8. `Setup`, and `Lifetime`, which composes it with `Session` over several runs of the
   client against one host. Its safety is proved.
9. `InputCapture`: grab, modifiers, buttons and carried motion of the app, its output
   being the messages `ControlThread` takes. Proved.
10. `AudioPath`, and `ClientStats`, which composes it with the frame timeline. Its safety is proved.
11. `ReedSolomon`: the erasure code as an algorithm, over a small field for TLC. Proved for every field.

What would come next: the splitting of Annex-B into NAL units as a pure algorithm; delivery by callback.

## 3. Modules

| module | models | actions and the code |
|---|---|---|
| `Depacketizer` | `Depacketizer` of `video.rs` | one action per way a call of `push_at` can end: malformed, late, stale, refused by the frame's geometry, duplicate, stored, or finishing a frame (`FinishUnrecoverable`, `FinishRunt`, `FinishSkip`, `EmitKey`, `EmitPredicted`); `TakeLoss`; `RequireKeyframe`. The helpers `MakeRoom`, `GiveUpThrough`, `DeclareLost`, `Insert`, `Retire`, `Restarted` are the functions of those names |
| `GatedStream` | the abstract promise to the decoder | frames in order, a predicted frame only directly after its reference |
| `VideoStream` | host, network and reassembler | `Send`, loss by never receiving, `Receive` in any order within `MaxDelay` frames, a counter restart between two epochs of the host |
| `MCDepacketizer`, `MCVideoStream` | instances | the packet sets |
| `Pipeline` | `KeyframeRequester`, the loop of `Pipeline::stream` | a turn of the loop per kind of event (`NewKeyframe`, `PredictedFrame`, an answer), with the three things `push` can say of an access unit (`Outcomes`: a frame, nothing, an error); the host and the clock are external actions |
| `Client` | the client API | each access to shared state is a step: publish, swap of `frame_pending`, send, take, clear, show, stop, join, drop |
| `InputChannel` | abstract control channel | say, hear, join two moves, close |
| `ControlThread` | `control_loop` after the connection, `merge_mouse_rel` | `Receive`, `Drain`, `Drained` (folding), `SendBatch`, `SendFails`, `Service` |
| `ReceivePath` | the buffer pool and the event channel | `Take`, `Datagram`, `Nothing`, `Consume`, `GiveBack` |
| `Session` | `StreamSession::start` after its requests, the threads, `Drop` | `Ready`, the owner's loop, `Connect`, `ServeStop`, `ServeLost`, the receive threads, `DropFlag`, `DropTell`, `Join`, `Cancel` |
| `Setup` | every request of a run before the stream: the five of the pairing ladder, `/applist`, `/serverinfo`, `/cancel`, `/launch`, and RTSP from OPTIONS to PLAY; and the host, external | `HttpGet`, `TlsGet`, `RtspRequest`, `Take` with the acceptance of each answer (`PairAccepted`, `AppFound`, `Launched`, `RtspAccepted`), `GiveUp`, `TimeOut`, `Crash`; the host's `Handle`, one action per request |
| `Lifetime` | `Setup` and `Session` one after the other, and the next run of the client | `SetUp`, `Begin`, `CancelOnHost` (which may be lost or late), `Again` |
| `FramePath`, `MCFramePath` | `Pipeline::decode`, Media Foundation `push` and `drain_output`, D3D11 `present`, wgpu `upload`; zero-copy, copied to a texture, copied to memory | a step per call that can fail or be interleaved with a present |
| `MacFramePath` | VideoToolbox `push`, its callback and sink, Metal `present` | `EnsureSession`, `Callback`, `CallbackEmpty`, `DecodeFails`, `SinkFails`, `SinkDrained`, `Draw`; the rest is that of `FramePath` |
| `TransitTracker` | `TransitTracker::observe` | `Observe` is the whole call, `Micros` the truncating conversion of `delta_us`; `FirstFrame` and `Frame` are what `decode` feeds it |
| `LatencySeries`, `NetworkDelay` | `LatencySeries` with `summary()`; what becomes of a delay | `Record` is the call; `Summaries` is the set of what the partial selections may leave behind; `Decode`, `Reset` |
| `InputCapture`, `MCInputCapture` | the event loop of `App` | one action per window event: `ButtonDown`, `ButtonUp`, `KeyDown`, `KeyUp`, `Wheel`, `CursorMoved`, `MouseMotion`, `FocusLost`, `Frame`, `Resized`, `Exit`; `ReleasedElsewhere` is a release another window gets |
| `AudioPath` | the audio queue, `audio_thread`, the ring and the device's callback | `Offer`, `StartAudio`, `OpenOutput`, `PassOver`, `Play`, `Write`, `Callback` |
| `ClientStats` | `StatsState`: series, counters, baselines, `recent`; the `Reporter` | `FirstPacket` to `RecordFrame` are one frame on the pipeline thread; `Refresh`; `Redraw`, `TickReporter`, `EmbedderResets` are the other thread |
| `MCThreads`, `MCStats` | instances | `Client` and `ControlThread`, and `ClientStats` and `NetworkDelay`, for one run each. The two parts share no variable and neither waits for the other, so a behaviour is of one of them (`part`), and the states of a run are those of the one and those of the other, not their pairs |
| `ReedSolomon`, `MCReedSolomon` | `Fec::encode`, `recover_views`, the scalar oracle | `Encode`, `Arrive`, `RecoverViews`; `RecoverMissing` and `ScalarRecover` are the two algorithms, `Exp` and `Log` the tables of `Gf256::build`, `Inverted` is `scalar::invert`. The exclusive or is a constant, `Xor`, which `MCReedSolomon` makes that of `Bitwise` |
| `DataLemmas` | - | lemmas on removal, insertion and replacement in sequences, on least and greatest elements, and induction over a segment of the natural numbers |
| `DepacketizerProofs`, `ClientProofs` (of `Pipeline` too), `LifetimeProofs`, `TransitProofs`, `InputProofs`, `FramePathProofs`, `FecProofs` | - | the proofs |

A payload is never modelled byte by byte. A shard is a slot number, a length and the host frame
it came from, so "recovered from shards of one frame" can be said; a frame is a number;
time is a count of ticks. Buffer pools inside the reassembler and an access unit's
metadata are left out; the receive pool is in `ReceivePath`. What the cryptography of the
pairing ladder decides is modelled by what it compares (the PIN both sides have, the
identity a certificate belongs to), and a parsed answer is "whole", "bare" or "refused".

## 4. Runs

| run | instance | what it shows |
|---|---|---|
| `depacketizer` | four frames with indices 15, 0, 1, 2 modulo 16, two keyframes, one frame of two blocks, one with contradicting packets; window 2; any datagram any number of times in any order | order, exact counts, loss reports, sound gate, nothing decodable waits; implements `GatedStream` |
| `stream` | two epochs of the host's counter, lossy and reordering network | while every restart has been followed and the epochs' datagrams do not cross, an access unit is handed out directly after the host frame it was encoded against |
| `fec` | every shape of block with up to five shards in the field of eight elements, and two the encoder refuses | recovery is exact or does not happen, the oracle agrees, the fallback stays unused |
| `pipeline` | round trip 1, frame 1, floor 2, idle tick 2, streak 2 | asked exactly while needed, not twice, again in time; the picture recovers, unless the lost decoder goes silent |
| `pipeline_silent_decoder` (violation) | the same | a lost decoder that gives nothing, or errors and nothing in turn, never reaches the error streak: the picture does not come back |
| `threads` | `Client` with four frames, and `ControlThread` with two-bit deltas and four messages | wake-ups, shown frames, end of the thread; motion and order preserved, Stop, refinement of `InputChannel` |
| `lifetime` | three runs of the client, one fault, two receive threads, pool of 4 | teardown, buffers, trust, ports and announcements in order, termination, and that a next run gets the stream |
| `lifetime_failed_start` (violation) | one run, no fault on the way | a start that fails after launch leaves the app running |
| `lifetime_audio_buffers` (violation) | one run without faults, backlog of 3, pool of 6, ten buffers | every audio datagram costs a buffer, for as long as the stream lasts |
| `frame_path` | four access units, four samples, ring of 2; both platforms, every present path | textures intact, samples suffice, newest frame shown, timelines matched |
| `input_capture` | four keys the app treats differently and one it does not know, a known and an unknown button, half steps, two things held at once | nothing stuck at the host, motion carried |
| `stats` | `ClientStats` with three events, two ticks, one reset, queue of 1, ring of 4 samples; `NetworkDelay` with a clock of 16 ticks, window 3, five frames, a series of three | datagrams accounted for, channels aligned, timelines add up, counters of the window; the delay reported is that above the fastest frame of the window, in truncated microseconds, and the summary is that of a sort |

### Bounds, and why they are enough

* `depacketizer`: the index space is small so that it wraps inside the run and half of it
  is still further than the window. A window of two is the least in which a frame is
  overtaken, evicted, or completed behind an incomplete one. The datagrams are not
  consumed, so repetition and reordering have no bound. `StatCap = 0` means counters are
  kept exactly.
* `stream`: five frames after a restart leave room for the restart to be followed, a loss,
  an extra keyframe and the window's turnover. `MaxDelay` bounds reordering to one frame.
* `pipeline`: all times are counted in ticks up to `LongAgo`, beyond which nothing differs; the state
  space is complete, no behaviour is cut off. `MaxAnswer` is the longest time an answer
  takes, at most the round trip and two frames (`TimeAssumption`), which is what
  the retry time in `KeyframeRequester::due` is computed from.
* `threads`, `Client`: the wake-up protocol has a cycle of one frame; four frames let two pile up
  behind a slow poll, and one be published in each of the two gaps.
* `threads`, `ControlThread`: `Limit = 2`, so that two moves fit and three do not; one axis overflows while
  the other does not. `MaxIssued` bounds the drain too: the code's drain ends when the queue
  is empty, which an embedder that queues faster than the thread takes could defer.
* `lifetime`: a fault is a request lost, refused or answered short or late, a wrong PIN, or the
  death of the client; failures of the session's own stages are not counted. One fault in three runs is the least in which a run meets what an
  earlier one left on the host, requests it gave up among them, and one more is left to get through. `MaxQueued` bounds the
  event channel, which the code does not (`docs/02-architecture.md:61` speaks of bounded ring
  buffers). With `MaxQueued` = 1 at most four buffers are in use, one in each receive thread's hands, one queued and one being
  read, and `PoolLimit` = 4 (1024 in the code) keeps them all, so that the condition of `OnlyAudioTakesBuffers` holds in
  every state; `MaxMade` = 6 leaves two buffers to be lost beyond those. Past it a receive thread without a buffer
  only looks at the flag.
* `lifetime_audio_buffers`: the question is about one session, so one run and no fault will do.
* `frame_path`: `MaxPushed` = 4 with `SubmittedLimit` = 2 (8 in the code) and `RingSize` = 2 let every pool
  wrap around; on macOS the fourth access unit is coded with new parameter sets. Samples are interchangeable (symmetry); no liveness is checked there.
* `stats`, `NetworkDelay`: `Hz` = 2, `Micro` = 3 and `Nano` = 2 (90 000, 1 000 000 and 1000 in the code) make both conversions truncate, of positive and
  of negative differences. `CompactAt` = 2 (64 in the code) and five frames make the queue compact and go on; the
  stamps start at 0 or 15, so that they wrap on the second frame or stay. A series of `Cap` = 3 overwrites
  its oldest sample with the fourth; 20, 50 and 99 per cent have different ranks in it.
* `input_capture`: `Half = 2` makes one event overrun a message; `Fine = 2` gives halves to carry;
  `MaxRest` cuts off motion that piles up faster than clamped messages take it away. Both Shift keys share one code, so the release
  of one with the other held is in.
* `stats`, `ClientStats`: with two ticks any two of a frame's four stages take time at once, in two frames or in one; the
  proof has no such bound; three events are a frame overtaking another
  in the decoder, or a frame and two datagrams on a queue of one. `Lengths` 1 and 3 let one push fill the ring and the next run over it.
* `fec`: what could fail in the field of 256 and not in that of 8 is the table of 255 powers; the Cauchy
  argument for the rows is the same. The shapes are all that five shards allow, so every set of lost
  columns of these sizes is tried.

`CHECK_DEADLOCK FALSE` stands where the system really ends: a session or client that is
over, or a bounded number of frames or messages used up.

### Fairness, and why the code justifies it

* `Client`: weak fairness of each step of either thread that needs no decision of a
  user. The loop's `recv_timeout` returns after `IDLE_TICK` at the latest; setup ends because
  each of its requests has a timeout; the embedder is assumed to poll and to look at the
  slot when told. No fairness for `stop` or `drop`: they may never be called.
* `ControlThread`: weak fairness of the loop, which blocks at most for a service interval.
* `Lifetime`: weak fairness of the threads of `Session` (reading a socket has a timeout in
  `recv_loop`; ENet reports a lost connection or the service call returns), of the requests of a run,
  which are sent, taken or given up, and of the host: it takes up a request that has reached it, and the
  person there types the PIN. A lost or late request is a fault and has no fairness. `StreamsInTheEnd`
  assumes besides that somebody starts the client again, which is the number of `Runs`.
* `InputCapture`: weak fairness of `StopClient` only: an event loop told to exit returns. Its properties
  are of safety.
* `Pipeline`: weak fairness of time, of the idle turn and of host frames that arrive;
  strong fairness of "a request is answered and the answer decodes", which says that a
  host that is asked again and again gets a keyframe through. Without that no client could
  promise a picture. `PictureRecoversUnlessSilent` is that the loop never stops asking too early. Nothing is
  assumed of what the decoder says of other access units; a decoder that goes on losing its reference and
  reporting nothing, or errors and nothing in turn, is excepted in the property itself, and section 5 says why.

## 5. What the code and its documents disagree on

The violation run `lifetime_failed_start` shows that `StreamSession::start` fails without `/cancel`
after a successful launch (`session.rs:459`); `docs/protocol/04-applist-and-launch.md:88` says it is sent
on an unrecoverable error. `StreamsInTheEnd` shows why it does little harm: the next run cancels before it launches.

The violation run `pipeline_silent_decoder` shows that `docs/04-platform-backends.md:28` does not hold of every decode
error: `push` may also give nothing (`videotoolbox.rs:669`), which resets the streak of errors (`lib.rs:886`). A decoder
that has lost its reference and gives nothing, or errors and nothing in turn, never makes `DECODE_ERROR_STREAK`, and as
no packet is lost nobody else asks for a keyframe.

The violation run `lifetime_audio_buffers` shows that audio datagrams keep their pool buffer (`session.rs:296`, `lib.rs:904`): a
session that receives audio allocates for each of them, where `session.rs:569` says that steady-state receive does not allocate per
packet. `OnlyAudioTakesBuffers`, which holds, says that nothing else costs a buffer.

Met while modelling, and not kept as runs:

* A host counter that restarts at most `RESTART_DISTANCE` behind the floor is taken for late
  packets (`video.rs:610`), and the decoder is handed the first frame past the floor as if nothing had
  happened; `video.rs:499` says it is never handed a frame whose reference is missing.
* With `CrossSeam = TRUE`, `ReferenceHeldIfFollowed` fails: `restart()` forgets the floor
  (`video.rs:1036`), a straggler of the old epoch keeps its slot, and the new frame of the same
  index is put together from the shards of both. `video.rs:493` says stale packets are ignored.
* `TransitTracker` measures every stamp from the first frame's (`metrics.rs:279`), so that a
  session longer than half the media clock's range (6.6 hours) reports delays of 13 hours for
  a window's time. The run and the proof stay within half the range (`NearEpoch`).
* A loss within the retry time of an answered request is not asked about at once: `satisfied`
  keeps `last` (`lib.rs:736`), while `lib.rs:702` says a request goes out the moment one is needed. The delay
  is bounded by `RetriedInTime`.
* `take_audio`'s doc (`lib.rs:637`) says the oldest audio is dropped; `try_send` (`lib.rs:906`) drops the newest.
* `audio_dropped` is not rebased by `reset_stats`, as the losses are (`StatsState::reset`): it is refreshed to the cumulative
  count half a second later. `CountersOfWindow` is therefore about the losses only.
* `unique_id` is called stable per install in `crates/starfire-protocol/src/pairing/identity.rs:20`; every run of
  the client generates a fresh identity, so that each run pairs again and the host's list of trusted
  certificates grows (`trusted` in `Setup`).
* A VideoToolbox session is made from the first parameter sets and never again (`videotoolbox.rs:407`): after
  a change of them every push fails or gives nothing. `MacFramePath` has it (`EnsureSession`, `Callback`).
* The native renderers (Metal, D3D11) draw nothing for a frame in memory; `FramePath` lets only wgpu
  (`Upload`) present one.
* `decode` compares frame indices with `<` and `==` (`lib.rs:1003`) and does not take them modulo
  2^32 as `video.rs` does; around a wrap, submissions stay in the list until they are pushed out.
* Connecting over TLS and RTSP has no timeout of its own; `Setup` takes the operating system's for one (`GiveUp`).
* A button held while Esc or a loss of focus frees the pointer, and a modifier released in another
  window, stay down at the host, and in the mask of every later key, until the next release of
  their kind (`main.rs:578`, `main.rs:432`). `NothingStuck` says that nothing else does (`stray`).

## 6. What is proved

All theorems hold for every value of the constants that satisfies the named assumptions
of the module (`PacketAssumption`, `TimeAssumption`, `ClockAssumption` and so on).

* **Reassembly** (`DepacketizerProofs`). `TypeCorrect`, `OpenGateUnbroken`, `GateIsSound`. That a predicted frame
  follows its reference is not inductive by itself: the code looks at the floor, not at
  what was handed out. The invariant `GateInv` adds that while the gate is open, the floor is
  the frame handed out last (`GateOpenMeansUnbroken`); every way a push can end either keeps the
  floor, closes the gate, or hands out the floor. One lemma per helper says what it does to
  the floor and the gate, one per action that the invariant is kept.

  Whatever is about the order of frames needs that the order is one: `OneSpan` says that the indices a session
  is sent span less than half of the counter's ring (2^31 frames, about a year of video). Without it `WindowAhead`
  is false for the first two frames already, if they are half a ring apart; the indices of the run satisfy it. From
  it, with `PlacedInv` (the window is in order and past the floor, and nothing in it could be finished),
  follow `WindowStaysAhead` and `NothingWaits`. `EveryIndexCountedOnce` and `LossesReported` come from `Told`, what
  one push has counted, reported and moved the floor by, lemma by lemma through `GiveUpThrough`, `MakeRoom` and
  `DeclareLost`, and from `PendInv`, that a report nobody has read covers frames behind the floor. `LossReported`
  speaks of an extended report only until the host restarts its counter: after that a report may begin
  in the old epoch and end in the new one, and its length says nothing. `ImplementsGatedStream` puts these together:
  the steps of the reassembler are those of `GatedStream`, packets, blocks and window being invisible.

  `ReferencesAreHeld` is about `VideoStream`, hence about the host's frames and not their indices. It assumes that the
  host counts its frames up within an epoch (`HostCountsUp`), that datagrams are cut from them (`CutByHost`), and that
  none is so late that it looks like a restart, nor crosses one (`DelayBelowRestart`; section 5 says what happens otherwise).
  The invariant `SeamInv` says that there are no more restarts than epochs, and that once the last was
  followed, every frame of the window, the floor and the last access unit are of the present epoch, a frame of the window being put together from one
  frame of the host. A restart within an epoch is what has to be excluded (`OnItsWay`).
* **Recovery** (`ClientProofs`). `PipelineTypes`, `WantedExactly`, `NeverAskedTwice`, `AlwaysRetriedInTime`. The invariant
  `PaceInv` adds that the outstanding request is as old as the requester's clock says, and that
  a need is younger than the retry time and the idle ticks so far. `NeverAskedTwice` rests on
  `MaxAnswer <= Rtt + 2 * Interval`: an answer that takes longer is asked for again.
* **Wake-ups** (`ClientProofs`). `OneWakeUpAlways`, `WakeUpNeverLost`. `WakeInv` ties the flag to whoever holds
  the duty: while it is set, a wake-up is queued, or about to be, or taken and not cleared.
* **Delay** (`TransitProofs`). `TypeCorrect`, `DelayIsAlwaysReal`, under `NearEpoch` (the sender's clock stays within half its
  range of the first stamp: section 5 says what happens beyond). `TransitInv` says what a
  monotonic queue is: its living entries get younger and slower towards the back (`Sorted`),
  each is a frame that was seen (`FromSeen`), and every frame of the window is covered by a living
  entry that is as young and as fast (`Covered`). `Covered` is what makes dropping an entry right,
  whether it is evicted, undercut or compacted away. Neither clock is assumed to be regular: the sender's may
  even go back. The delay is the difference of two transits in whole microseconds (`Transit`), each made of two readings that are
  truncated by less than one, so it is less than three microseconds off that of the unrounded ones. `RecordedIsReal` says the same with resets in between.

  `SummaryIsAlwaysReal` is about the series the delays are recorded in. `SeriesOf` says what the ring holds: the
  samples as they came until it is full, then the last `Cap`, turned by `next` (`SampleAt`), hence in some order
  (`Shuffled`). A selection shuffles, and parts the samples at its rank (`Parted`); the next one, made only to
  the left of that rank, shuffles the whole ring too, and parts the whole at a lower rank, since all it did not look at is no
  less than anything it did (`SelectedLeftIs`). What is at the rank that parts a sequence has that rank in every
  shuffle of it (`PartedRank`, `ShuffledRank`). It assumes the percentages in ascending order, as `summary()` asks for them.
  That the sum is right is an induction through the fold (`SumOfAppended`).
* **Frames** (`FramePathProofs`). `PicturesIntact`, for both systems and all three paths, however many samples the
  decoder has and however large the ring is. The invariant `IntactInv` says of every frame that is held, and not
  only of those still to be drawn, where its picture is: in a sample nobody else holds, in planes of its own, or in
  a texture of the ring. In the ring, the frame is at least as many frames old as the ring has turned since its
  texture was written (`Back`), so the texture that is written next belongs to a frame at least `RingSize` old.
  For this the decoder has to return frames in the order in which it was given them (`InOrder`), and a change of
  the picture's size has to make new textures. `TextureAssumption` says that no sample is a texture.

  `ShowsNewest` rests on where the newest frame is: last in the queue, else in the hand, else in the slot
  (`NewestLast`), which a push that fails half-way must not disturb. `ThreeSamplesAreEnough` adds that hand, slot and
  renderer hold one frame each. `TimelineFound` rests on `Remembered`: of the last `SubmittedLimit` submissions
  those whose frame can still come out are in the list, which is sorted, so that passing over earlier ones
  never loses a later one.
* **Lifetime** (`LifetimeProofs`), for every number of runs and faults. `SessionTornDown` is inductive with
  little more than itself. `OnlyAudioBuffersAreLost` needs the account of the pool: while no more buffers are in use than
  the pool can keep, every buffer ever made is in the pool, in a thread's hands, in the queue, being read, or gone with
  an audio datagram (`BuffersInv`).
  `PastTheLadderTrusted` and `HandshakeIsComplete` are about what other runs have left behind: requests on the way,
  an app, sockets. `NotTwice` says that what must not be repeated is on its way only while its answer is
  waited for; from it `OwnApp` and `OwnPorts` follow the host through the SETUPs of the run's own app, and
  `Trusting` and `CodecKnown` through the ladder and `/serverinfo`.
* **Input** (`InputProofs`). `NothingIsStuck` rests on `ToldOnly`: the host was told of nothing but
  keys that can be sent and buttons that have a name, and of nothing before the session. `MotionIsCarried`, an
  action property, rests on `CarriedInv` (while the pointer is captured, what was reported and not sent is the
  remainder the app keeps) and on what `TakeWhole` does to a remainder, whatever a message can carry.

  Of the control thread all three properties of safety are proved. `StopLeavesNothing` needs that a Stop is said
  once and taken once, and that nothing is in hand between two rounds (`StopInv`). `MotionIsPreserved` compares two
  sequences by what they say, which `Meaning` defines by recursion; no induction theorem of the library can be
  used for it (they take an operator), so `DataLemmas` proves induction over a segment of the naturals from the least
  element of a set, and the proof goes through readings of a sequence, which exist and agree. What
  is needed of `Meaning` is that a message more is joined to what was said so far (`MeaningGrows`), that what is said later
  depends on what was said before by its meaning alone (`MeaningGoesOn`), and that two moves in a row say the same as
  their sum (`SumSaysTheSame`). `ImplementsInputChannel` maps each step to one of the channel: a command that is
  taken is a stutter, a `Fold` or the `Notice` of the end, a batch that is sent is heard as a whole.

* **Measurements and audio** (`ClientProofs`), for every queue, ring and number of frames. `AudioIsAccounted` and
  `ChannelsStayAligned` rest on `AudioInv`: the ring holds whole pairs of samples, left before right, and nothing
  in it is younger than what the thread took last, which is no younger than the queue.
  `TimelineAlwaysAdds` compares sums that run over different frames, since a frame adds to "pipeline" when it is
  recorded and to "total" when it is drawn, if ever. Its invariant needs no sum over a list: `HasCover` gives every
  remembered frame a number, the sum of "pipeline" when it was recorded, which exceeds that of each earlier one by at
  least the frame's own span, so that drawing a frame and forgetting those before it stays within what was recorded. `StampsInOrder` and `FramesInOrder`
  say that no span is negative and that frames are recorded in the order in which they came.
  `CountersAreOfWindow` bounds the baseline of the counter by what it was at the reset, which may fall between two refreshes.

* **Reed-Solomon** (`FecProofs`). `FecRecoversExactly` states `RecoversExactly` for every field, block shape, pattern of losses
  and every data. Three assumptions name what the arithmetic of bytes is. `XorAssumption` gives the laws of the machine's exclusive
  or on numbers of one bit more than a byte: commutative, associative, each number its own inverse, the top bit
  that of one argument, and a shift goes through it. `PrimitiveAssumption` says that the polynomial is primitive: doubling from 1 on passes every byte
  but 0 before it comes back to 1. `WidthAssumption` gives the ranges. Exclusive or, 255 and `0x11d` satisfy all three; TLC evaluates them on
  the field of eight elements that the run uses (255 makes it recurse too deep).

  `TablesMakeAField`: the product looked up in the tables is associative, distributes over `Xor`, and `Reciprocal` inverts. That
  it distributes is the step that needs the polynomial: a power of 2 times a sum is that many doublings of the sum.
  `InverseUndoes` and `RegularInverts` are about `scalar::invert`. A pass over one column keeps that the pair relates what the matrix makes of a vector to
  that vector, and that the matrix sends no more vectors to 0 than before (`Reached`); so what it returns is an inverse, and it
  stops at a column without a pivot only if some vector other than 0 is sent to 0. `CauchyRegular`: a square of
  coefficients `1 / ((m + i) XOR j)` sends none, by taking the last row from the others, which leaves a smaller square of the
  same kind (`CauchySmaller`).

  From these, `RecoverMissingExact`: the `e` chosen parity shards are the lost columns' square times the lost data, plus
  the rest, so the mixed row gives the lost byte back. `ScalarRecoverExact`: the surviving rows of the generator send only 0 to 0, since
  the rows of the identity among them say that a vector is 0 where data arrived, and the others are a square of the lost
  columns. The invariant `FecInv` adds to the property that a block is coded as its shape says (`Coding`) and
  that a shard that arrives has the byte that was sent (`Arrival`). The inverse that the shipping path
  takes from `rusty_erasure` is assumed to be an inverse, found when there is one, as the scalar one is.

## 7. What is only model-checked

Liveness (`PictureRecoversUnlessSilent`, `FramesShown`, `QuitEnds`, `EndIsTold`, `StopEndsThread`, `StopEnds`,
`StreamsInTheEnd`) is beyond the prover. Every other property of the passing runs, invariants, action properties and refinements, is a theorem.

## 8. What is not modelled

* Delivery of events by callback (`connect_with`): there is no queue between the threads then.
* A codec set in the configuration: `Setup` negotiates, as the app does by default.
* The content of the loss statistics sent to the host; ENet itself and the AES-GCM layer: `ControlThread`
  takes ENet as reliable and ordered until it reports the end of the connection.
* Bytes: packet headers, Annex-B, XML, RTSP text, hexadecimal. What is branched on is a field of a record.
* Hashes, ciphers and signatures of the ladder: by what comparing them decides.
* VideoToolbox's asynchronous mode and the wait for the GPU, both switched on by environment variables
  for measurements.
* Creation of devices, windows and swap chains, shaders, colour matrices; Opus.
* Discovery by mDNS, which is not implemented (`discovery.rs:6`).
* Decoder selection, thread priorities, allocator configuration, test tools.
