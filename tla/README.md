# Verification of liballa

TLA+ models of liballa, a userspace USB Audio Class driver for Android built on
libusb (`src/src/libusb_uac_driver.cpp`) and the float-audio adapter above it
(`src/include/liblowlatencyaudio/DirectUsbOutput.h`). TLC checks the models on
small instances; TLAPS proves the central safety properties for every value of
the constants.

Source names are kept where TLA+ allows: `inflight` is `inflight_`,
`OnIsoDefer` is the deferring exit of `onIso()`, and so on. `PROJECT.json`
gives the lines each definition translates.

## 1. Inventory

### Threads

| thread | runs |
|---|---|
| control thread | `open`, `start`, `startDuplex`, `startPlayback`, `stop`, `close`, the destructor, the adapter's `start` and `stop`; inside a drain it also runs callbacks |
| event thread | `runEventLoop()` (2238-2290): `libusb_handle_events_timeout` until `stopRequested_`; runs `onIso`, `onFeedback`, `onCapture` |
| render thread | `submitQuantum`, `readInputChannels`, `waitForWritableFrames`, `waitForInputFrames` |
| anyone | `requestStop()`, which takes no lock |

libusb's event lock lets one callback run at a time. `sessionMutex_` lets one
control call run at a time, except that `startPlayback()` and `requestStop()`
do not take it and `close()` takes it twice.

### Components

| component | state | operations | interacts with |
|---|---|---|---|
| Wake channels (`WakeChannel.h`) | an eventfd counter, a waiter count | `signalIfWaiting`, `signal`, `Registration`, `drain`, timed and untimed waits | both rings, `requestStop`, every waiting thread |
| Isochronous transport | transfer pools, `inflight_`, `captureInflight_`, implicit-feedback FIFO, pending array, `queuedOutFrames_` | `startIsoPump`, `submitIsoPump`, `onIso`, `onFeedback`, `onCapture`, `submitPendingImplicitTransfers`, `stopIsoPump`, `stopCapturePump` | libusb, playback ring, wake channels |
| Packet clocks (`UsbScheduling.h`, `onFeedback`) | remainder and phase registers, Q16 rate and accumulator | `RationalPacketScheduler::next`, the rate branch of `onIso`, the decoding in `onFeedback` | the transport's packet plan |
| Driver lifecycle | device handle, three claim flags, pools, event thread, session flags | `open`, `start`, `startDuplex`, `startPlayback`, `stop`, `requestStop`, `close`, destructor | kernel (claims), libusb, event thread |
| Playback ring | `ring_`, `ringHead_`, `ringTail_` | `preparePlaybackWrite`, `commitPlaybackWrite`, `drainRing`, `flushRing` | render thread, transport |
| Adapter (`DirectUsbOutput.h`) | `accepting_`, `activeWriters_` | `start`, `startPlayback`, `stop`, `requestStop`, `submitQuantum` | driver, render thread |
| Capture ring | cursors, live mark, frame limit | `onCapture` store, `prepareCaptureRead`, `commitCaptureRead`, `beginCaptureLive`, `discardCaptureFrames` | transport, render thread |
| Credit ledger | `playbackCredit_`, its reserve, `queuedOutFrames_` | `takePlaybackCredit`, `chargePlaybackCredit`, the credit of a completion, the accounting of `startPlayback` | transport, render thread |
| Buffer policy | the user's request, the terms in force (quantum, target, prime, headroom), the ring size | `configureUserspaceBuffers`, `setUserspaceBufferConfig`, `setGraphQuantum`, helpers of `UsbScheduling.h` | both rings, admission |
| Packet flight recorder | a lock-free ring of records, sequence counter, mask, trigger, freeze flag | `record` (which freezes on its trigger), `setEnabled` with its reset, `setEventMask`, `setFreezeTrigger`, `snapshot` | event and render threads write, the control thread reads |
| Negotiation: descriptors, clock entities, Line6 setup | `format_`, `captureFormat_`, `supportedRates_`, the rate of each clock in the device | `enumerateFormats`, `captureChannelCount`, `selectAltSetting`, `setSampleRate`, `selectCaptureAltSetting`, `line6VendorSetup`, the packet checks of both pumps | device (control requests), lifecycle (its outcome) |
| Telemetry, thread helpers, log, analyser script | counters that are only reported | | |

### What is hard, and what must hold

- **Stop against callbacks.** A callback tests `stopRequested_` once and acts
  much later; `stop()` may drain, join and free in between. Correct: the
  in-flight counters are exact on every exit of every callback, and nothing is
  freed while USB owns it.
- **Deferral.** In implicit mode an OUT completion without packet metadata is
  parked and resubmitted by a later capture completion. Correct: never lost,
  never doubled, never overtaken, always resumed.
- **Wakeups.** A publisher skips its eventfd write when it sees no waiter.
  Correct: no waiter sleeps on a satisfied condition, and a stop releases all.
- **Deadlines.** Every drain gives up after 500 ms with transfers live, and a
  later call retries. Correct: interfaces, pools and the thread outlive what
  uses them, whatever order cancellations and retries come in.
- **Partial failure.** Any libusb call of a start may fail. Correct: claim
  flags and the kernel agree, and the next session starts fresh.
- **Ring arithmetic.** A power-of-two ring with frames of any size, and cursors
  of finite width. Correct: a FIFO of whole quanta.
- **Gate.** The adapter closes `accepting_`, waits for the writers and tears
  down. Correct: no writer touches the ring behind a closed gate.
- **Admission.** A quantum is admitted against a credit that three threads
  move, from a policy resolved earlier. Correct: no frame is charged twice or
  never, the lead over the device is bounded, and render thread and deferred
  transfers do not wait for each other.
- **Recording.** Threads without a lock write records while a fault freezes
  them and the control thread reads. Correct: a torn record can be told from a
  whole one, and a freeze keeps the run-up to its trigger.
- **Negotiation.** The same descriptors are read by separate code for listing,
  selection and the pumps, and a refused request falls through to the next
  candidate; the clock graph is walked by first pins only. Correct: the clock
  that is set is the one that drives the stream, and what is listed can be
  selected.
- **Clocks.** Carries in 32-bit registers. Correct: no frame drifts, ever.

The full list, with source lines and the properties that cover each entry, is
`hazards` in `PROJECT.json`.

## 2. Plan

Order of work; 1-11 are in place.

1. `WakeChannel`: the handshake every blocking wait uses.
2. `IsoTransport`: one duplex session with all callbacks and both teardowns.
3. `PacketClock`: both packet clocks with register width.
4. `DriverLifecycle`: control calls on handle, claims, pools and thread.
5. `PlaybackRing` implementing `FrameFifo`: ring, admission and gate.
6. `CaptureRing` implementing `CaptureFifo`: the store of `onCapture()`, the
   reads with their trim, and the handover to live capture.
7. `BufferPolicy`: the frame arithmetic of `UsbScheduling.h` and of
   `setUserspaceBufferConfig`.
8. `PlaybackAdmission` on top of it: the policy, the ledger and the bus count
   in one session.
9. `FlightRecorder`: `record`, with its freeze trigger, against re-enabling and
   `snapshot`.
10. `Negotiation`: formats, clocks and packet checks before a session streams.
11. Proofs of every invariant and of both refinements (section 6); what rests on
    fairness is checked only.
12. The byte walk over descriptors (`walkExtra`), below the fields that
    `Negotiation` starts from.

Each module is written for proof as well as for checking: constants with named
assumptions, one action per operation or interleaving point, invariants as
named conjuncts, and recursion only as a recursive function.

## 3. Modules

### WakeChannel

One channel with its producer, its waiters and a stop. The variables are
whether the eventfd is readable, the waiter count, the published frames, the
session flags and a program counter for each thread; a waiter registers, reads
the frame count and the flag, polls, drains if its wait does, looks again, and
leaves. Every load
and store is a step, because the handshake is about their order. Constants say
which waiters drain and which have a timeout.

### IsoTransport

From the end of `startDuplex()` to the end of `stop()`. A transfer is at one
place: idle, with USB, in a callback, pending, freed, or *dangling* (freed
while USB owned it). Callbacks are split where another thread can act: after
the stop test (`OnIsoCompleted`), after the packet plan (`OnIsoImplicit`,
`OnIsoDefer`, `OnIsoNominal`), before the submission (`OnIsoSubmit`). The
playback ring is its number of frames, the packet metadata a bounded sequence.
The control thread runs `startPlayback()` transfer by transfer (a submission
may fail midway) and both teardowns with their deadlines; callbacks run on
either thread that handles events. A libusb answer is a choice.

### PacketClock

`RationalPacketScheduler` and the feedback accumulator, with all registers
modulo `Word` and fixed point `One` in place of 2^32 and 2^16; the seed of the
feedback rate, the per-packet limit and the acceptance window as the code
computes them. A history counter of planned packets and the sum of the accepted
rates gives the reference both clocks are compared with.

### DriverLifecycle

The control calls on the resources they hold. `todo` is what the call under way
still has to do, one entry per part that USB, the event thread or
`requestStop()` can interleave with; a failure replaces the rest by the code's
own cleanup. `owned` is the kernel's view of the claims, next to the driver's
three flags. A pool is its number of live transfers: what callbacks do with
them is `IsoTransport`. The Line6 profile has its own start and failure path.

A direct `start()` always ends in `DirectRejected`: the session preparation
has just emptied the ring, and the pump is started only with a primed ring. The
actions of the successful branch are therefore not in the model.

### PlaybackRing and FrameFifo

`FrameFifo` is what the playback path promises: a bounded queue of bytes with
`Publish` of a whole quantum, `Take` of at most what a packet asks, and `Clear`
at a session boundary. `PlaybackRing` is the code: each load and store of a
cursor or flag is a step, the ring is byte by byte (a byte is its position in
the stream), the copy is in two parts around the wrap, cursors are modulo
`CursorMod`. The refinement mapping reads the queue off the slots between tail
and head. The adapter's `stop()` closes the gate, waits for the writers, stops
the driver; `start()` resets both cursors in two stores. `flushRing()` has no
caller in the repository and is left out.

### CaptureRing and CaptureFifo

`CaptureFifo` is what the capture path promises: a bounded queue that loses
frames only at its ends. A completion offers what it kept and publishes it at
once, a read drops a prefix and takes what is behind it, a session starts empty.
`CaptureRing` is the code: `onCapture()` loads both cursors once, stores packet
by packet (a good one clipped to whole frames, a failed one skipped) and
publishes the head; `prepareCaptureRead()` trims to the newest window, the copy
runs around the wrap, `commitCaptureRead()` publishes the tail, and
`readInputChannels()` commits a short read without handing it over. Bytes are
numbered as captured, lost ones included, so that a gap is visible; `credit`
is the number of losses the counters or return values have reported less the
gaps a live caller has received. `readInputChannels()` has no gate like the
one of `submitQuantum()`; `RenderJoined` states the documented order, in which
the render thread is done before a teardown resets the cursors.

### BufferPolicy and PlaybackAdmission

`BufferPolicy` holds the pure arithmetic: how a request of automatic, exact or
explicitly empty terms becomes frame counts for the negotiated stream, and when
it is rejected. `PlaybackAdmission` is one session from
`configureUserspaceBuffers()` to steady playback. The control thread configures,
then submits the first transfers, each submission and its accounting a step of
their own; the event thread completes transfers, plans the next from the
nominal clock or from a capture layout, refills or defers; the render thread
checks the ceiling, takes credit (reading its floor and swapping the counter in
two steps) and publishes, or keeps a refused block in its holding slot. The ring
is counted in frames, implicit metadata is one layout at a time, and every
submission succeeds: failures are `IsoTransport`'s. The history `free` is what
was published or held without a charge; `LedgerExact` compares the credit
with it and the audio in the pipeline.

### FlightRecorder

Every store of `record()` is a step, the payload in two halves, and each
record knows the call that wrote it. `Joined` producers are inside a call only
while the stream runs, because `stop()` joins the event thread; `Stragglers`
may still record afterwards, because `submitQuantum()` leaves the writer count
before it records its outcome. The history `faults` notes what the recorder's
design excludes: a producer that laps another, a claim during a snapshot, a
record that straddles `setEnabled(true)`, a snapshot with a producer inside.

### Negotiation

A device is its descriptors split into fields, the rate of each clock entity,
which of them can be set, and the pin that each clock selector has selected.
Selectors have any number of pins and multipliers a ratio; the driver reads the
first pin (`Base`) and neither the selected pin nor the ratio, and what it
takes for SET_CUR of a rate may move a selector (`Switched`). `EnumerateFormats` lists what the descriptors and
the clocks' ranges offer; `Select` is the first part of `start()` or
`startDuplex()`; `SetCur`, `SetCurFails` and `GetCur` are the two passes of
`setSampleRate()` over the candidate clocks, with promotion of the one that
took the rate (the clocks yet to be tried are a set, `TriedBefore` is the order
in which the code's vector lists them); then come the capture alternate, and the checks of
both pumps that a packet carries the nominal frames. The Line6 profile has its
own selection and its bounded status polls. Control requests may fail at each
step; in a start, `GET_RANGE` answers with what the device has, in an
enumeration it may also fail.

### How they fit

`Negotiation` says which stream a start agrees on; `DriverLifecycle` says when
a session exists; `IsoTransport` opens it up between `startDuplex()` and
`stop()`; `PlaybackRing`, `CaptureRing` and `WakeChannel` open up the rings and
the wait that `IsoTransport` keeps as a count and a blocked writer;
`PacketClock` opens up the packet plan it draws from `NominalFrames`;
`PlaybackAdmission` opens up the credit refusal that `PlaybackRing` leaves as a
choice, and composes policy, ring occupancy, bus and render thread;
`FlightRecorder` stands beside them and reads nothing they decide on.

## 4. Runs

All invariants and temporal properties of a run are in its `.cfg`. Each one is
also broken on purpose by a mutated operator (kept beside the original under a
`Mutant` comment): a dropped test, a wrong counter, a swapped order. Ranges of
the state are an invariant of their own only where an argument needs them
(`TypeOK` of `IsoTransport`, checked, and of `WakeChannel` and `PacketClock`,
proved).

| run | question | instance |
|---|---|---|
| `wake` | Is the count exact on all ways out, no wakeup lost, a stop always noticed? | one draining waiter that may also time out, 4 frames, need 2: a wait can be satisfied, unsatisfied, or become satisfied between any two steps |
| `iso_implicit` | Implicit feedback: are counters, pending array and order right under every interleaving of callbacks, stops, failures and deadlines, does a deferred transfer resume and a teardown end? | 2 OUT, 1 capture transfer; packets of 1 or (too large) 2 frames |
| `iso_explicit` | Explicit feedback: is no transfer freed under USB, and a blocked writer woken? | 2 OUT, 1 feedback, 1 capture |
| `clock` | Are both clocks exact? | 5 rates, 3 packet rates, registers of 16, fixed point 4, up to 32 packets |
| `lifecycle` | Any sequence of control calls with any failure: claims tracked, interfaces outlive transfers, fresh starts, calls return. | 2 descriptors, 2 streaming and 1 control interface, pools of 2 |
| `ring` | Does the ring implement the FIFO, and the gate keep writers out? | 8 bytes, 3-byte frames, cursors modulo 16, quanta and packets of 1 and 2 |
| `capture` | Does the ring lose frames only at its ends, is no read overwritten, and is no gap of a live stream uncounted? | 5 bytes, 2-byte frames, cursors modulo 10, transfers of 2 packets, a window of 1 frame, reads of 1 and 2 |
| `admission` | From a buffer request to steady playback: is the ledger exact, the lead and the error of the bus count bounded, a late drain absorbed, and do playback and admission go on? | 2 transfers, 3 frames in 2 packets (transfers of 1 and 2 frames), quantum 2, ring 8; implicit or explicit clock, blocks held or dropped; automatic, exact and non-fitting requests |
| `recorder` | Can a torn record be told, is a quiet snapshot exact, does a freeze keep the run-up? | event thread and one straggler, ring of 2, 4 records in each of 2 sessions, a filter, a trigger, buffers of 1 and 4 |
| `negotiate` | Is the clock that is set the one that drives the stream, do streams run at the rate asked for, do packets carry what was selected, is what the driver announces true of the device? | all clock topologies of two entities; chains of three, five (four hops) and six; two sources under a selector of both, on either pin, or under a multiplier by 1, 2 or 1/2; UAC1 at full speed, Line6, and odd devices; 2 starts, 2 polls |

Why the bounds suffice for the cases of interest. Two OUT transfers are the
fewest for which one can overtake another or find the pending array half full;
the array has as many slots as there are transfers, the tightest the code's
assumption allows. One capture transfer completes again and again, so any
number of retries is reached. In the ring, 3 does not divide 8 and 16 is two
ring lengths, so frames straddle the end at every offset and cursors wrap; the
capture ring, whose state is richer, has the same shape at 5, 2 and 10 (only
the divisibility of the cursor range by the capacity matters to the code's
mask). A window of one frame in a ring of two makes every read that finds both
trim, and a read of two is always short. In
the clocks, 16 is below the sum of remainder and fraction, so a naive carry
would wrap, and 32 packets are several seconds of the small packet rates. The
lifecycle needs two interfaces for a change of interface between sessions and
two transfers for a drain that is half done. Two OUT transfers of different
lengths let a completion overtake the accounting of the first while the second
waits, which is where `queuedOutFrames_` goes wrong; a quantum of 2 is above
the drain chunk of 1 (the first plans average 1.5 frames), so that occupancy
climbs in a cycle with one completion, and a ring of 8 holds target, headroom
and prime of the accepted requests and not of the rejected one. Two records fill the recorder's ring, so four lap it. Two clock entities
give every way of naming a source, a selector of it, a cycle, or nothing; the
chains add a selector of a selector, the last chain that four hops follow and
the first that they do not; the second start runs on what the first
left in the driver and in the device. For the properties in section 6
the proofs remove the bounds altogether.

What the properties leave out, and why. `PlaybackStarts` is about requests that
fit: one that does not leaves a policy of zeros, which the documents say fails
the start and the code plays. `ResolvedIsSource` is about terminals whose
selectors, at most four deep, have their first pin selected; `RateTruthful`
asks besides that every ratio on the way is one and, for playback, that no
other clock was promoted; what a stream really runs at, `StreamRate`, is
computed from the pins selected and the ratios. `AnnouncedTruthful` says that
`selectAltSetting()` finds a listed format if the device has an AudioControl
interface and an alternate that offers the format carries it in a packet. The
conditions of the last three are needed: without any one of them TLC finds a
counterexample on the same instance. On that of `admission` it also finds the
session that plays with a prime of zero.

Deadlock is checked wherever the system must go on. `wake`, `lifecycle` and
`negotiate` may stop: all waiters have left, the driver is destroyed, or the
starts of the instance are used up.

### Runs that show a disagreement

| run | what TLC shows | the text it contradicts |
|---|---|---|
| `iso_teardown_race` | `submitPendingImplicitTransfers()` has no stop test: a capture callback that passed its own test resubmits a deferred OUT transfer after the drain saw `inflight_ = 0`, and `stopIsoPump()` frees it under USB | `libusb_uac_driver.h:290-292` |
| `life_line6` | a failed Line6 start whose drain expires releases the interface under live transfers | `docs/android-integration.md:28-34` |

Others of this kind, met while modelling and not given a run, with their lines
in `libusb_uac_driver.cpp` where no other file is named.

Waiting and stopping:

- deferred transfers drain the ring from `onCapture()`, which signals only the
  capture channel: an untimed playback wait misses room that is there
  (`README.md:57`); the adapter's timed waits bound the delay;
- two threads draining one channel (`WakeChannel.h:147`) can lose the terminal
  signal; the code has one at a time;
- the playback waits (3415) never drain: signalled with too little room, they
  spin until their deadline;
- `requestStop()` takes no lock, so a `start()` may erase it (1361), and
  `startPlayback()` takes none either (2489), so a `stop()` of another control
  thread may free the pool it submits;
- cancellations that arrive between the two deadlines of the last `stop()` make
  the destructor skip its second one and leave claims, handle, pools and a
  joinable thread, against its comment (112-115);
- `close()` in two halves (247) loses claims if another control thread enters between
  them (`SharedClose = TRUE`);
- one transfer may be planned from the nominal scheduler in implicit mode when
  a stop falls between two reads of `onIso()` (2804, 2908);
- `streaming_` is set (2563) after the first transfers may already have failed.

Rings and admission:

- `captureLive_`, which a comment calls session scoped, survives a clean stop
  (1218); a read that spans a stop (2017) commits into the next session
  (`RenderJoined = FALSE`);
- `flushRing()` (2131) stores the tail first, so that a drain in between finds
  everything written since the session began, the opposite of what its comment
  says;
- a buffer policy that does not fit zeroes every term and the start goes on with
  a prime of zero, although `UsbScheduling.h:41`, `docs/DRIVER_NOTES.md:175`
  and `README.md:71` say that startup fails;
- `queuedOutFrames_` stays too high when a completion overtakes its
  accounting (`DriftBounded` says by how much), and the zero-runway underruns
  that its zero should report (2917) are then hidden;
- a target and headroom whose sum is below the quantum are accepted (3305), and
  nothing is then admitted.

Negotiation:

- a clock that takes the rate is promoted even when it does not drive the
  stream (1010-1014), the distortion that the comment at 1099-1104 says is
  refused; `RateTruthful` is stated for starts without promotion;
- a selector's first pin is taken for its clock (585-591) whichever pin is
  selected, and a multiplier's ratio is not read (592-593): the rate is then
  set on a source that does not drive the stream, or the stream runs at a
  multiple of it, without any promotion and against the same comment;
- `enumerateFormats()` (394) tests neither for an AudioControl interface nor
  that a packet carries the format, as selection does (609-613, 822-835), so it
  lists formats that `start()` refuses;
- a clock range with step zero lists its lower end only, against the comment
  at 378;
- `captureChannelCount()` (440) counts a feedback endpoint as an input;
- `startDuplex()` (1672) waits for metadata of the automatic packets per
  transfer, the pump consumes the configured ones.

The gate of the adapter (`DirectUsbOutput.h:176`) uses acquire and release only, which lets the store
pass the load on x86 (not on AArch64); the models interleave sequentially
consistent steps. That includes `TornDetectable`: the model copies a record's
sequence before its payload, in the order of the fields of `Record`, while the
acquire fence of `snapshot()` (`PacketFlightRecorder.h:284`) stands before the
copy and orders nothing inside it. On AArch64 the processor, and anywhere the
compiler, may read the payload first; the property is proved of the order
written, not of that reordering.

## 5. Fairness

- `WakeChannel`: a waiter that is not blocked runs on, and a stop that has begun
  ends. Nothing makes the producer publish.
- `IsoTransport`: USB completes each transfer it was given and libusb hands the
  completion to a thread that handles events. This is strong fairness per
  transfer, because the event thread is inside `libusb_handle_events` again
  and again and not always; callbacks, the event loop and a control call under
  way run on; the render thread keeps producing; timed waits expire. Nothing
  makes the owner start or stop, or a deadline pass. An
  expired drain leaves the rest to the owner's next `stop()`, so
  `TeardownCompletes` counts it as an end of this one.
- `DriverLifecycle`: a control call under way runs on, cancelled transfers
  complete while some thread handles events, and the event thread sees the
  stop flag (it polls with a timeout).
- `PlaybackRing`: threads inside a call run on; nothing makes the render thread
  submit.
- `PlaybackAdmission`: a `startPlayback()` under way runs on (and the owner
  calls it again when the prime was not there), transfers on the bus
  complete, capture completes, and the render thread keeps offering quanta.
  These are the conditions of a running stream; a stopped one is
  `IsoTransport`'s.
- `FlightRecorder`, `CaptureRing` and `Negotiation` state no liveness.

## 6. Proofs

Theorems hold for every value of the constants that satisfies the named
assumption of the module.

**WakeChannelProofs.** `CountCorrect`: `TypeOK /\ CountExact`, for any set of
waiters; the count is the cardinality of the set of waiters inside a wait, and
each step adds one, removes one or keeps the set. `WakeupNotLost`:
`NoLostWakeup` when a draining waiter has the channel to itself (the assumption
`Solo`; otherwise one waiter can take the signal of another). The inductive `WakeInv` also
covers the waiter that has read the frame count and not yet the flag: if its
frames have come since, the eventfd is readable or the publisher is still
between its publication and its write, and `CountExact` makes that publisher
see the waiter. A drain is followed by a new read of the frames, so it takes no
signal the waiter needs.

**IsoTransportProofs.** The inductive invariant `TransportInv` is
`Typed` (the ranges the argument needs), `Owned` (a transfer is in a callback
exactly if it is the one the running callback handles, the callback is of its
kind, and its thread is handling events), `Unsubmitted` (what
`startPlayback()` has yet to submit is idle), `PendingOwned`, `InflightExact`
and `CaptureTeardownSafe`. `Owned` is needed since a counter alone does not say
whose decrement is due; `PendingOwned` because a resubmission raises the
counter for the transfer at the head of the array. From it follow
`InflightCorrect`, `CaptureTeardownCorrect`, `PendingCorrect`, `PendingFits`
(the running callback's transfer is not in the array, so the array is not
full) and, with one more conjunct on the order, `OrderPreserved`.
`ExplicitTeardown` is `TeardownSafe` without implicit feedback: there, nothing
is ever deferred, so between the drain's last look and the join no callback
can raise `inflight_`. With implicit feedback the statement is false.
`TypeCorrect` is `TypeOK`; it needs `TransportInv`, since the counters are in
range only as cardinalities of sets of transfers.

**NegotiationProofs.** First, what a session negotiates. `SourceFound`,
`RatesTruthful`, `PumpsCarry` and `AnnouncementsTruthful`: `ResolvedIsSource`,
`RateTruthful`, `PumpCarriesSelected` and `AnnouncedTruthful`, for every set of
devices and wishes under `NegotiationAssumption`: fields are bytes or the
widths of their descriptors; what the standards demand and the code takes for
granted holds (clock entities have identifiers of their own, from 1; a source
has a rate; a sample has bytes; a continuous range is not upside down; a
high-speed interval is at most 13, above which the code divides by zero; the
Line6 profile is no UAC2 device); and a wish has a channel. The clock graph is
arbitrary: selectors have any pins and any selection, may form cycles, name
nothing, or be longer than the code follows, and multipliers have any ratio.
The conclusions of `SourceFound` and `RatesTruthful` are limited instead, as in
section 4: to terminals that a source drives through at most four entities on
their first pin and, for the rate, with ratios of one and no promotion of
another clock over that of playback. These properties speak of the end of a
start, so none is inductive. `NegotiationInv` follows the format through the stages:
what `selectAltSetting()` returned is what the pumps use, but for the clock
(`FormatInv`); once a rate is accepted, the clock of the format is at it if it
is a source (`RatedInv`); the inventory is what the clocks tried so far report
(`InventoryInv`); the capture alternate agrees with that clock (`CaptureInv`).
`SourceFound` compares four hops through a finite map with a chain of links of
any of the lengths 0 to 4, and `RatesTruthful` what is passed on along that
chain, entity by entity, with the rate of its source (`PlainRate`);
`AnnouncementsTruthful` rests on every alternate that offers a format being
one that selection matches (`OfferMatches`); `PumpsCarry` compares two quotients rounded up, one
computed by addition before division and one by a remainder test.

Then the packet clocks, under `ClockAssumption`. `ClocksExact`: registers in range and planned frames equal to the floor of the
exact quotient after every packet, for every rate, packet rate and register
width; the carry test `remainder >= period - fraction` is shown equal to the
unbounded comparison. `SecondsExact`: every whole number of seconds carries
exactly the sample rate. `FeedbackCorrect`: following explicit feedback, frames
and kept fraction are the sum of the rates reported; it is part of the same
invariant.

`PumpsAgree` joins the two: `StartIsoPump` of `Negotiation` and `StartClocks` of
`PacketClock` are two views of one call, and started with the negotiated format
both take the same branch; when they succeed, `maxFrames`, the limit every plan
of the clocks is held to, fits the endpoint's packet. (This is the generic
profile: Line6's format is fixed, not negotiated.)

**DriverLifecycleProofs.** `ClaimsCorrect`, `LiveTransfersHeld`,
`ReleaseQuiescent` and `StartsFresh`: `ClaimsTracked`, `GenericLiveHeld`,
`ReleasedQuiescent` and `FreshStart`, for any descriptors, interfaces and
transfer count, assuming `~SharedClose`: one control thread, as the
documentation asks. (With `SharedClose` TLC refutes `ClaimsTracked`.) A control
call is a plan, `todo`, of parts still to run, so the inductive `IInv` has three
parts: `ResourceInv` ties flags, claims, pools and counters together; `PlanInv`
says which part may follow which, so that a drain always stands between a live
pool and the release behind it; `CallInv` says what the part at the head of the
plan may rely on, such as a start that has reached its capture pump having
passed a complete stop.

**PlaybackRingProofs.** `GateExclusive`: `StopExcludesWriters`. `GateInv` says
the counter tells whether the render thread is inside, the gate is open only
in a session, and behind a closed and counted gate nobody holds a region; the
second test of `accepting_` is what makes it inductive. `RegionsApart`:
`RegionsDisjoint`, for any ring, stride, quanta and width of the cursors.
`CursorInv` says that a stale tail makes the writer see less room than there is
and a stale head makes the drain see less audio, so both regions stay inside
theirs. `RingRefines`: `Spec` implies `FrameFifo`'s. Each step is shown to
publish, take, clear or stutter under the refinement mapping; `ContentInv`
adds that the bytes packed, and the bytes copied, are still in their slots. The
wrap of a cursor at `CursorMod` keeps its slot because `RingBytes` divides
`CursorMod`.

**CaptureRingProofs.** `ReadsUndisturbed`: `ReadUndisturbed`, and
`CaptureRefines`: `Spec` implies `CaptureFifo`'s, both assuming `RenderJoined`,
the documented order of a stop: `readInputChannels()` has no gate, and a read
that commits its cursor after the reset would break both. `CaptureInv` is about
two stale cursors at once: the tail a completion loaded before its first packet
only makes the queue look longer, the head a read loaded only makes it look
shorter, and the trim of `prepareCaptureRead()` moves inside what that head
covers. It also says that queue, kept bytes and trim are whole frames, without
which a short read would split one. `GapsCounted`: `NoSilentGap`, under the same
assumption. A loss is counted when it happens and heard when the frames around
it are read, so `credit >= 0` alone is not inductive. `CreditInv` counts the
breaks: the frame boundaries from the tail (or the caller's last frame) to the
next captured byte at which positions are missing. There are never more of them
than losses counted and not yet heard; while a read that trimmed has yet to
commit, those beyond its trim leave one loss over, for the break that the trim
itself is about to make. The breaks are at most the frames the ring holds and one, which is why
counting may stop at `MaxCredit`.

**FlightRecorderProofs.** `FreezeCorrect`: `FreezeBounded`, for any finite set of
producers and any capacity, filters and triggers (`RecorderAssumption`). The
inductive `FreezeInv` counts, once frozen, the producers that have passed
their tests and not yet claimed a slot together with the records claimed since:
no step raises the sum, and it starts at most one below the number of
producers, because the one that froze is past its claim. `TornCorrect` and
`SnapshotCorrect`: `TornDetectable` and `SnapshotExact`. `SnapshotInv` follows
each of the latest `Capacity` claims: it is whole in its slot or one producer is
on its way to publishing it, and no other claim of the session shares the slot
(two claims less than `Capacity` apart differ modulo `Capacity`). While a reset
runs, no producer is past its tests; while a copy runs, a record whose sequence
was seen keeps it.

**PlaybackAdmissionProofs.** `LedgerCorrect`, `LeadCorrect`, `DriftCorrect` and
`HeadroomCorrect`: `LedgerExact`, `LeadBounded`, `DriftBounded` and
`LateDrainAbsorbed`, for any number of transfers, first plans, quanta, requests
and ring sizes under `AdmissionAssumption` and `PolicyAssumption` (plans are
positive and one is the largest, requests are records of integers). All but the
last are about sums over sets of transfers. The
library's induction takes an operator, which the provers cannot instantiate, so
the module proves induction for sets (`LeastNat`, `Induction`) and with it that
the recursive function of `SumOf` is the running sum, what a sum gains when a
transfer joins the set (`SumJoin`), and that filling the transfers in order
takes the lesser of what the ring holds and what they ask for (`SumFill`). The
inductive `AdmissionInv` says where each submitted transfer is (`PlaceInv`; in
two places, a completion would credit it twice), who has paid for the block in
the render thread's hands (`PaidInv`), and states both bounds while
`startPlayback()` is still at work: the error of `queuedOutFrames_` is at most
the plans counted so far, and the lead at most the plans submitted so far, on
top of target and reserve. A submission lowers the error by its frames and
raises the limit by a whole plan; a completion that finds too little counted
leaves the count at zero; neither can raise the error above its bound.

Only model-checked: all liveness (`StopReleasesWaiters`, `WriterReleased`,
`DeferredResumes`, `TeardownCompletes`, `CallsReturn`, `StopReturns`,
`PlaybackStarts`, `AdmissionProgress`), which rests on fairness, outside this
prover, and `DriverLifecycle` with two control threads. Every invariant and
every refinement of a passing run is also a theorem, with the assumption named
where the code needs one (`Solo`, `~SharedClose`, `RenderJoined`, no implicit
feedback).

## 7. Not modelled

- The byte walk over descriptors (`walkExtra`, `isClassDescriptor`): the models
  start from its fields. The payloads of the Line6 vendor requests. A high-speed
  `bInterval` of 14 or more, where the packet rate of `selectAltSetting()` is
  zero.
- Sample conversion and continuity inspection of the adapter: numeric code with
  no concurrency.
- Telemetry that nothing decides on, thread priorities and affinity
  (`ThreadUtils.h`), logging and the offline analyser: operating-system or
  report I/O without state of its own.
- `flushRing()` and the helpers of `UsbScheduling.h` that only tests call.
- Calls of two control threads at once, beyond `requestStop()`; and
  `configureUserspaceBuffers()` while capture already runs.
- Real time: a deadline is an event that may happen; how long a busy wait
  lasts is not stated.
- Weak memory: see section 4.
