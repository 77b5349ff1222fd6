----------------------------- MODULE IsoTransport -----------------------------
(***************************************************************************)
(* One duplex session of LibusbUacDriver, from the end of startDuplex()    *)
(* to the end of stop(): the isochronous OUT, feedback and capture         *)
(* transfers, the callbacks libusb runs for them, the implicit-feedback    *)
(* metadata FIFO, the FIFO of deferred OUT transfers, startPlayback(),     *)
(* requestStop() and the teardown of both pumps.                           *)
(*                                                                         *)
(* Three threads interleave.  The control thread runs startPlayback() and  *)
(* stop(), the render thread fills the playback ring or blocks in          *)
(* waitForWritableFrames(), and the event thread runs callbacks.  The      *)
(* control thread runs callbacks too while it drains a pump; libusb's      *)
(* event lock lets one callback run at a time.  A callback is split where  *)
(* another thread can act between two of its reads or writes: after the    *)
(* test of the stop flags, after the packet plan and before a submit.      *)
(*                                                                         *)
(* The playback ring is its frame count: every transfer of PCM is whole    *)
(* frames.  Counters that only telemetry reads are left out.               *)
(***************************************************************************)
EXTENDS Integers, Sequences, FiniteSets

CONSTANTS
  Out,               \* transfers_
  Fb,                \* feedbackTransfers_ ({} without a feedback endpoint)
  In,                \* captureTransfers_
  ImplicitFeedback,  \* captureFormat_.implicitFeedback
  Packets,           \* packets per transfer
  EntryFrames,       \* frames one capture packet may carry; 0 for a failed one
  MaxPacketFrames,   \* maxFramesPerPacket_
  NominalFrames,     \* frames the rate scheduler may plan for one transfer
  FifoCapacity,      \* kImplicitFifoCapacity
  PendingSlots,      \* pendingImplicitTransfers_.size()
  InitialFrames,     \* frames of each initial OUT transfer
  Prime,             \* startupPrimeFrames_
  Target,            \* playbackTargetFrames_
  Headroom,          \* writeHeadroomFrames_
  RingFrames,        \* frames the playback ring can hold
  Quantum,           \* frames the render thread waits for
  TimedWait,         \* the render thread waits with a timeout
  Deadlines          \* the 500 ms drain deadline may pass

Xfers == Out \cup Fb \cup In

ASSUME TransportAssumption ==
  /\ IsFiniteSet(Out) /\ Out # {}
  /\ IsFiniteSet(Fb)
  /\ IsFiniteSet(In) /\ In # {}
  /\ Out \cap Fb = {} /\ Out \cap In = {} /\ Fb \cap In = {}
  /\ ImplicitFeedback \in BOOLEAN
  /\ TimedWait \in BOOLEAN /\ Deadlines \in BOOLEAN
  /\ Packets \in Nat \ {0}
  /\ EntryFrames \subseteq Nat /\ NominalFrames \subseteq Nat
  /\ MaxPacketFrames \in Nat
  /\ FifoCapacity \in Nat /\ FifoCapacity >= Packets
  /\ PendingSlots \in Nat /\ Cardinality(Out) <= PendingSlots
  /\ InitialFrames \in Nat
  /\ Prime \in Nat /\ Prime >= InitialFrames * Cardinality(Out)
  /\ Target \in Nat /\ Headroom \in Nat /\ Quantum \in Nat
  /\ RingFrames \in Nat /\ Prime <= RingFrames /\ Target + Headroom <= RingFrames

VARIABLES
  at,               \* [Xfers -> where the transfer is]
  len,              \* [Out -> frames in its packet descriptors]
  pending,          \* pendingImplicitTransfers_, oldest first
  fifo,             \* implicitFrames_ between implicitRead_ and implicitWrite_
  ring,             \* bufferedFrames()
  inflight,         \* inflight_
  captureInflight,  \* captureInflight_
  queuedOut,        \* queuedOutFrames_
  stopRequested, captureActive, streaming, transportFailed,
  playbackStarted,
  cbpc,             \* the callback that holds libusb's event lock: its step,
  cbx,              \*   its transfer,
  cbby,             \*   the thread that runs it,
  cbimp,            \*   and onIso's local `implicit'
  evt,              \* the event thread
  ctl,              \* the control thread: its step,
  ctlx,             \*   the OUT transfer submitIsoPump() accounts for,
  ret,              \*   and the caller stopIsoPump() returns to
  todo,             \* transfers submitIsoPump() has still to submit
  writer            \* the render thread

flags == <<stopRequested, captureActive, streaming, transportFailed>>
callback == <<cbpc, cbx, cbby, cbimp>>
control == <<ctl, ctlx, ret, todo>>
plan == <<len, pending, fifo, ring>>
counts == <<inflight, captureInflight, queuedOut>>
vars == <<at, plan, counts, flags, playbackStarted, callback, evt, control, writer>>

\* "usb": submitted and not yet completed; "callback": its completion is being
\* handled; "pending": deferred; "dangling": freed although it was submitted.
Places == {"idle", "usb", "callback", "pending", "freed", "dangling"}

CallbackSteps ==
  {"none", "plan", "submit", "feedback", "store", "deferred", "resubmit"}

ControlSteps ==
  {"idle", "submit", "account", "armed", "unarmed", "drainOut", "join",
   "drainIn", "partial", "deferred", "stopped"}

(* Ranges of the state; the frame and transfer counters never go negative.  *)
TypeOK ==
  /\ at \in [Xfers -> Places]
  /\ len \in [Out -> Nat]
  /\ pending \in Seq(Out)
  /\ fifo \in Seq(Nat)
  /\ ring \in Nat
  /\ inflight \in Nat
  /\ captureInflight \in Nat
  /\ queuedOut \in Nat
  /\ stopRequested \in BOOLEAN
  /\ captureActive \in BOOLEAN
  /\ streaming \in BOOLEAN
  /\ transportFailed \in BOOLEAN
  /\ playbackStarted \in BOOLEAN
  /\ cbpc \in CallbackSteps
  /\ cbx \in Xfers \cup {"none"}
  /\ cbby \in {"event", "control"}
  /\ cbimp \in BOOLEAN
  /\ evt \in {"top", "in", "exited"}
  /\ ctl \in ControlSteps
  /\ ctlx \in Out \cup {"none"}
  /\ ret \in {"start", "stop"}
  /\ todo \in SUBSET (Out \cup Fb)
  /\ writer \in {"running", "blocked"}

\* The state startDuplex() leaves: capture runs, the OUT transfers hold their
\* initial packet plan and nothing of playback is submitted.
Init ==
  /\ at = [x \in Xfers |-> IF x \in In THEN "usb" ELSE "idle"]
  /\ len = [x \in Out |-> InitialFrames]
  /\ pending = <<>>
  /\ fifo = <<>>
  /\ ring = 0
  /\ inflight = 0
  /\ captureInflight = Cardinality(In)
  /\ queuedOut = 0
  /\ stopRequested = FALSE
  /\ captureActive = TRUE
  /\ streaming = TRUE
  /\ transportFailed = FALSE
  /\ playbackStarted = FALSE
  /\ cbpc = "none"
  /\ cbx = "none"
  /\ cbby = "event"
  /\ cbimp = FALSE
  /\ evt = "top"
  /\ ctl = "idle"
  /\ ctlx = "none"
  /\ ret = "stop"
  /\ todo = {}
  /\ writer = "running"

-----------------------------------------------------------------------------
(* Shared pieces of the callbacks.                                          *)

\* Capture completions carry the packet clock of the OUT endpoint.
ImplicitMode == ImplicitFeedback /\ Fb = {}

\* markTransportFailed()
MarkTransportFailed ==
  /\ transportFailed' = TRUE
  /\ captureActive' = FALSE
  /\ streaming' = FALSE
  /\ stopRequested' = TRUE
  /\ writer' = "running"

\* Which thread may run the next callback: the event thread inside
\* libusb_handle_events, or the control thread while it drains a pump.
Handles(by) ==
  /\ cbpc = "none"
  /\ \/ by = "event" /\ evt = "in"
     \/ by = "control" /\ ctl \in {"drainOut", "drainIn", "partial"}

Enter(x, by, step) ==
  /\ at' = [at EXCEPT ![x] = "callback"]
  /\ cbpc' = step
  /\ cbx' = x
  /\ cbby' = by
  /\ cbimp' = FALSE

Continue(step) ==
  /\ cbpc' = step
  /\ UNCHANGED <<cbx, cbby, cbimp>>

Return ==
  /\ cbpc' = "none"
  /\ cbx' = "none"
  /\ cbby' = "event"
  /\ cbimp' = FALSE

Move(x, place) == at' = [at EXCEPT ![x] = place]

\* subtractQueued() saturates at zero.
SubtractQueued(n) == IF queuedOut >= n THEN queuedOut - n ELSE 0

\* Frames the next Packets metadata entries ask for, each clamped to what a
\* packet can carry.
TransferFrames ==
  LET sum[n \in 0..Packets] ==
        IF n = 0 THEN 0
        ELSE sum[n - 1] + (IF fifo[n] > MaxPacketFrames THEN MaxPacketFrames
                                                         ELSE fifo[n])
  IN  sum[Packets]

\* Mutant: the PCM check compares against what is queued for one packet.
PreparesShort(frames) ==
  /\ Len(fifo) >= Packets
  /\ frames = TransferFrames

\* prepareImplicitTransfer(): whole-transfer admission.  It succeeds with
\* enough metadata and enough PCM for every packet, and takes both.
Prepares(frames) ==
  /\ Len(fifo) >= Packets
  /\ frames = TransferFrames
  /\ ring >= frames

TransferRange == 0..(Packets * MaxPacketFrames)

Deferred == ~ \E frames \in TransferRange : Prepares(frames)

TakePlan(x, frames) ==
  /\ len' = [len EXCEPT ![x] = frames]
  /\ fifo' = SubSeq(fifo, Packets + 1, Len(fifo))
  /\ ring' = ring - frames

-----------------------------------------------------------------------------
(* onIso(): the completion of an OUT transfer.                              *)

\* Mutant: a cancelled transfer retires without being counted.
OnIsoStoppedLeaks(x, by) ==
  /\ Handles(by) /\ at[x] = "usb" /\ stopRequested
  /\ Move(x, "idle")
  /\ queuedOut' = SubtractQueued(len[x])
  /\ UNCHANGED <<plan, inflight, captureInflight, flags, playbackStarted,
                 callback, evt, control, writer>>

\* The stop test.  A transfer cancelled by libusb reports CANCELLED only after
\* stopRequested_ was set, and takes the same branch.
OnIsoStopped(x, by) ==
  /\ Handles(by) /\ at[x] = "usb" /\ stopRequested
  /\ Move(x, "idle")
  /\ queuedOut' = SubtractQueued(len[x])
  /\ inflight' = inflight - 1
  /\ UNCHANGED <<plan, captureInflight, flags, playbackStarted, callback, evt,
                 control, writer>>

OnIsoNoDevice(x, by) ==
  /\ Handles(by) /\ at[x] = "usb" /\ ~stopRequested
  /\ Move(x, "idle")
  /\ queuedOut' = SubtractQueued(len[x])
  /\ inflight' = inflight - 1
  /\ MarkTransportFailed
  /\ UNCHANGED <<plan, captureInflight, playbackStarted, callback, evt, control>>

OnIsoCompleted(x, by) ==
  /\ Handles(by) /\ at[x] = "usb" /\ ~stopRequested
  /\ Enter(x, by, "plan")
  /\ queuedOut' = SubtractQueued(len[x])
  /\ UNCHANGED <<plan, inflight, captureInflight, flags, playbackStarted, evt,
                 control, writer>>

\* Mutant: a later completion may overtake a deferred transfer.
OnIsoImplicitOvertakes ==
  /\ cbpc = "plan" /\ captureActive /\ ImplicitMode
  /\ \E frames \in TransferRange : Prepares(frames) /\ TakePlan(cbx, frames)
  /\ cbpc' = "submit" /\ cbimp' = TRUE
  /\ UNCHANGED <<cbx, cbby, at, pending, counts, flags, playbackStarted, evt,
                 control, writer>>

\* Implicit feedback, nothing deferred, metadata and PCM at hand.
OnIsoImplicit ==
  /\ cbpc = "plan" /\ captureActive /\ ImplicitMode
  /\ pending = <<>>
  /\ \E frames \in TransferRange : Prepares(frames) /\ TakePlan(cbx, frames)
  /\ cbpc' = "submit" /\ cbimp' = TRUE
  /\ UNCHANGED <<cbx, cbby, at, pending, counts, flags, playbackStarted, evt,
                 control, writer>>

\* Mutant: a deferred transfer still counts as in flight.
OnIsoDeferCounted ==
  /\ cbpc = "plan" /\ captureActive /\ ImplicitMode
  /\ pending # <<>> \/ Deferred
  /\ Move(cbx, "pending")
  /\ pending' = Append(pending, cbx)
  /\ Return
  /\ UNCHANGED <<len, fifo, ring, counts, flags, playbackStarted, evt, control,
                 writer>>

\* Implicit feedback, deferred: the transfer joins the pending FIFO, which has
\* a slot for it unless all slots are taken.
OnIsoDefer ==
  /\ cbpc = "plan" /\ captureActive /\ ImplicitMode
  /\ pending # <<>> \/ Deferred
  /\ inflight' = inflight - 1
  /\ IF Len(pending) < PendingSlots
       THEN /\ Move(cbx, "pending")
            /\ pending' = Append(pending, cbx)
            /\ UNCHANGED <<flags, writer>>
       ELSE /\ Move(cbx, "idle")
            /\ MarkTransportFailed
            /\ UNCHANGED pending
  /\ Return
  /\ UNCHANGED <<len, fifo, ring, captureInflight, queuedOut, playbackStarted,
                 evt, control>>

\* The rate scheduler plans the packets; a short ring shortens them.
OnIsoNominal ==
  /\ cbpc = "plan" /\ ~(captureActive /\ ImplicitMode)
  /\ \E planned \in NominalFrames :
       LET frames == IF ring >= planned THEN planned ELSE ring
       IN  /\ len' = [len EXCEPT ![cbx] = frames]
           /\ ring' = ring - frames
  /\ Continue("submit")
  /\ UNCHANGED <<at, pending, fifo, counts, flags, playbackStarted, evt, control,
                 writer>>

\* Mutant: the render thread is not told of the room the drain made.
OnIsoSubmitSilent ==
  /\ cbpc = "submit"
  /\ Move(cbx, "usb")
  /\ queuedOut' = queuedOut + len[cbx]
  /\ Return
  /\ UNCHANGED <<plan, inflight, captureInflight, flags, playbackStarted, evt,
                 control, writer>>

\* playbackWake_.signalIfWaiting(), then the resubmission.
OnIsoSubmit ==
  /\ cbpc = "submit"
  /\ Move(cbx, "usb")
  /\ queuedOut' = queuedOut + len[cbx]
  /\ writer' = "running"
  /\ Return
  /\ UNCHANGED <<plan, inflight, captureInflight, flags, playbackStarted, evt,
                 control>>

OnIsoSubmitFails ==
  /\ cbpc = "submit"
  /\ Move(cbx, "idle")
  /\ inflight' = inflight - 1
  /\ MarkTransportFailed
  /\ Return
  /\ UNCHANGED <<plan, captureInflight, queuedOut, playbackStarted, evt, control>>

-----------------------------------------------------------------------------
(* onFeedback(): the completion of a feedback transfer.  The rate it        *)
(* carries is left open (NominalFrames).                                    *)

OnFeedbackStopped(x, by) ==
  /\ Handles(by) /\ at[x] = "usb" /\ stopRequested
  /\ Move(x, "idle")
  /\ inflight' = inflight - 1
  /\ UNCHANGED <<plan, captureInflight, queuedOut, flags, playbackStarted,
                 callback, evt, control, writer>>

OnFeedbackNoDevice(x, by) ==
  /\ Handles(by) /\ at[x] = "usb" /\ ~stopRequested
  /\ Move(x, "idle")
  /\ inflight' = inflight - 1
  /\ MarkTransportFailed
  /\ UNCHANGED <<plan, captureInflight, queuedOut, playbackStarted, callback,
                 evt, control>>

OnFeedbackCompleted(x, by) ==
  /\ Handles(by) /\ at[x] = "usb" /\ ~stopRequested
  /\ Enter(x, by, "feedback")
  /\ UNCHANGED <<plan, counts, flags, playbackStarted, evt, control, writer>>

OnFeedbackSubmit ==
  /\ cbpc = "feedback"
  /\ Move(cbx, "usb")
  /\ Return
  /\ UNCHANGED <<plan, counts, flags, playbackStarted, evt, control, writer>>

OnFeedbackSubmitFails ==
  /\ cbpc = "feedback"
  /\ Move(cbx, "idle")
  /\ inflight' = inflight - 1
  /\ MarkTransportFailed
  /\ Return
  /\ UNCHANGED <<plan, captureInflight, queuedOut, playbackStarted, evt, control>>

-----------------------------------------------------------------------------
(* onCapture(): the completion of a capture transfer.                       *)

\* captureActive_ clear, or the stop test.
OnCaptureStopped(x, by) ==
  /\ Handles(by) /\ at[x] = "usb"
  /\ ~captureActive \/ stopRequested
  /\ Move(x, "idle")
  /\ captureInflight' = captureInflight - 1
  /\ UNCHANGED <<plan, inflight, queuedOut, flags, playbackStarted, callback,
                 evt, control, writer>>

OnCaptureNoDevice(x, by) ==
  /\ Handles(by) /\ at[x] = "usb" /\ captureActive /\ ~stopRequested
  /\ Move(x, "idle")
  /\ captureInflight' = captureInflight - 1
  /\ MarkTransportFailed
  /\ UNCHANGED <<plan, inflight, queuedOut, playbackStarted, callback, evt,
                 control>>

OnCaptureCompleted(x, by) ==
  /\ Handles(by) /\ at[x] = "usb" /\ captureActive /\ ~stopRequested
  /\ Enter(x, by, "store")
  /\ UNCHANGED <<plan, counts, flags, playbackStarted, evt, control, writer>>

\* Entries pushed one by one onto a FIFO that is emptied when a push finds it
\* full.
Pushed(f, entries) ==
  IF Len(f) + Len(entries) <= FifoCapacity
    THEN f \o entries
    ELSE SubSeq(entries, FifoCapacity - Len(f) + 1, Len(entries))

\* Mutant: deferred transfers are not retried when metadata arrives.
OnCaptureStoreOnly ==
  /\ cbpc = "store"
  /\ IF ImplicitMode
       THEN \E entries \in [1..Packets -> EntryFrames] :
              fifo' = Pushed(fifo, entries)
       ELSE UNCHANGED fifo
  /\ Continue("resubmit")
  /\ UNCHANGED <<at, len, pending, ring, counts, flags, playbackStarted, evt,
                 control, writer>>

\* One metadata entry per packet, zero for a failed or empty one.
OnCaptureStore ==
  /\ cbpc = "store"
  /\ IF ImplicitMode
       THEN \E entries \in [1..Packets -> EntryFrames] :
              fifo' = Pushed(fifo, entries)
       ELSE UNCHANGED fifo
  /\ Continue("deferred")
  /\ UNCHANGED <<at, len, pending, ring, counts, flags, playbackStarted, evt,
                 control, writer>>

\* Mutant: the array is not shifted behind the transfer that left it.
SubmitPendingUnshifted ==
  /\ cbpc = "deferred" /\ pending # <<>>
  /\ at[Head(pending)] = "pending"
  /\ \E frames \in TransferRange :
       /\ Prepares(frames)
       /\ TakePlan(Head(pending), frames)
       /\ queuedOut' = queuedOut + frames
  /\ inflight' = inflight + 1
  /\ Move(Head(pending), "usb")
  /\ UNCHANGED <<pending, captureInflight, flags, playbackStarted, callback, evt,
                 control, writer>>

\* submitPendingImplicitTransfers(), one transfer of its loop: the oldest
\* deferred transfer is prepared, counted and submitted.
SubmitPending ==
  /\ cbpc = "deferred" /\ pending # <<>>
  /\ \E frames \in TransferRange :
       /\ Prepares(frames)
       /\ TakePlan(Head(pending), frames)
       /\ queuedOut' = queuedOut + frames
  /\ inflight' = inflight + 1
  /\ Move(Head(pending), "usb")
  /\ pending' = Tail(pending)
  /\ UNCHANGED <<captureInflight, flags, playbackStarted, callback, evt, control,
                 writer>>

\* The submission fails: the transfer keeps its slot, its frames are gone.
SubmitPendingFails ==
  /\ cbpc = "deferred" /\ pending # <<>>
  /\ \E frames \in TransferRange :
       Prepares(frames) /\ TakePlan(Head(pending), frames)
  /\ MarkTransportFailed
  /\ Continue("resubmit")
  /\ UNCHANGED <<at, pending, counts, playbackStarted, evt, control>>

SubmitPendingDone ==
  /\ cbpc = "deferred"
  /\ pending = <<>> \/ Deferred
  /\ Continue("resubmit")
  /\ UNCHANGED <<at, plan, counts, flags, playbackStarted, evt, control, writer>>

\* A failed transport retires the capture transfer.
OnCaptureRetire ==
  /\ cbpc = "resubmit" /\ transportFailed
  /\ Move(cbx, "idle")
  /\ captureInflight' = captureInflight - 1
  /\ Return
  /\ UNCHANGED <<plan, inflight, queuedOut, flags, playbackStarted, evt, control,
                 writer>>

OnCaptureSubmit ==
  /\ cbpc = "resubmit" /\ ~transportFailed
  /\ Move(cbx, "usb")
  /\ Return
  /\ UNCHANGED <<plan, counts, flags, playbackStarted, evt, control, writer>>

OnCaptureSubmitFails ==
  /\ cbpc = "resubmit" /\ ~transportFailed
  /\ Move(cbx, "idle")
  /\ captureInflight' = captureInflight - 1
  /\ MarkTransportFailed
  /\ Return
  /\ UNCHANGED <<plan, inflight, queuedOut, playbackStarted, evt, control>>

-----------------------------------------------------------------------------
(* runEventLoop()                                                           *)

EventLoopEnter ==
  /\ evt = "top" /\ ~stopRequested
  /\ evt' = "in"
  /\ UNCHANGED <<at, plan, counts, flags, playbackStarted, callback, control,
                 writer>>

EventLoopLeave ==
  /\ evt = "in" /\ ~(cbpc # "none" /\ cbby = "event")
  /\ evt' = "top"
  /\ UNCHANGED <<at, plan, counts, flags, playbackStarted, callback, control,
                 writer>>

EventLoopExit ==
  /\ evt = "top" /\ stopRequested
  /\ evt' = "exited"
  /\ UNCHANGED <<at, plan, counts, flags, playbackStarted, callback, control,
                 writer>>

-----------------------------------------------------------------------------
(* The render thread.                                                       *)

\* Room below the admission ceiling, and in the ring itself.
WritableFrames ==
  LET ceiling == (IF playbackStarted THEN Target ELSE Prime) + Headroom
      limit == IF ceiling < RingFrames THEN ceiling ELSE RingFrames
  IN  IF ring < limit THEN limit - ring ELSE 0

\* A quantum is admitted whole.
WriteQuantum ==
  /\ writer = "running"
  /\ WritableFrames >= Quantum
  /\ ring' = ring + Quantum
  /\ UNCHANGED <<at, len, pending, fifo, counts, flags, playbackStarted, callback,
                 evt, control, writer>>

\* waitForWritableFrames() without a timeout blocks.  Registration, check and
\* poll are one step: module WakeChannel shows that no signal is lost between.
WaitForWritable ==
  /\ writer = "running"
  /\ streaming /\ ~transportFailed
  /\ WritableFrames < Quantum
  /\ writer' = "blocked"
  /\ UNCHANGED <<at, plan, counts, flags, playbackStarted, callback, evt, control>>

WaitExpires ==
  /\ TimedWait
  /\ writer = "blocked"
  /\ writer' = "running"
  /\ UNCHANGED <<at, plan, counts, flags, playbackStarted, callback, evt, control>>

-----------------------------------------------------------------------------
(* The control thread.                                                      *)

\* requestStop() takes no lock: any thread calls it at any time.
RequestStop ==
  /\ stopRequested' = TRUE
  /\ captureActive' = FALSE
  /\ streaming' = FALSE
  /\ writer' = "running"
  /\ UNCHANGED <<at, plan, counts, transportFailed, playbackStarted, callback,
                 evt, control>>

\* startPlayback() up to the first submit.  A stop that was requested, or a
\* ring below the prime, leaves everything as it was.
StartPlayback ==
  /\ ctl = "idle" /\ ~playbackStarted
  /\ ~stopRequested
  /\ ring >= Prime
  /\ playbackStarted' = TRUE
  /\ ring' = ring - InitialFrames * Cardinality(Out)
  /\ todo' = Out \cup Fb
  /\ ctl' = "submit"
  /\ UNCHANGED <<at, len, pending, fifo, counts, flags, callback, evt, ctlx, ret,
                 writer>>

\* submitIsoPump(): feedback transfers first; inflight_ rises before a submit.
NextToSubmit(x) == x \in todo /\ (x \in Fb \/ todo \cap Fb = {})

SubmitFeedback(x) ==
  /\ ctl = "submit" /\ NextToSubmit(x)
  /\ Move(x, "usb")
  /\ inflight' = inflight + 1
  /\ todo' = todo \ {x}
  /\ UNCHANGED <<plan, captureInflight, queuedOut, flags, playbackStarted,
                 callback, evt, ctl, ctlx, ret, writer>>

SubmitOut(x) ==
  /\ ctl = "submit" /\ NextToSubmit(x)
  /\ Move(x, "usb")
  /\ inflight' = inflight + 1
  /\ todo' = todo \ {x}
  /\ ctl' = "account"
  /\ ctlx' = x
  /\ UNCHANGED <<plan, captureInflight, queuedOut, flags, playbackStarted,
                 callback, evt, ret, writer>>

\* The frames of the transfer join queuedOutFrames_ after its submit, by which
\* time the event thread may have completed it and planned it anew.
AccountOut ==
  /\ ctl = "account"
  /\ queuedOut' = queuedOut + len[ctlx]
  /\ ctl' = "submit"
  /\ ctlx' = "none"
  /\ UNCHANGED <<at, plan, inflight, captureInflight, flags, playbackStarted,
                 callback, evt, ret, todo, writer>>

\* A submit fails: stopIsoPump(), called from startPlayback().
SubmitFails ==
  /\ ctl = "submit" /\ todo # {}
  /\ stopRequested' = TRUE
  /\ ctl' = "drainOut"
  /\ ret' = "start"
  /\ todo' = {}
  /\ UNCHANGED <<at, plan, counts, captureActive, streaming, transportFailed,
                 playbackStarted, callback, evt, ctlx, writer>>

PlaybackArmed ==
  /\ ctl = "submit" /\ todo = {}
  /\ playbackStarted' = TRUE
  /\ streaming' = TRUE
  /\ ctl' = "armed"
  /\ UNCHANGED <<at, plan, counts, stopRequested, captureActive, transportFailed,
                 callback, evt, ctlx, ret, todo, writer>>

\* stop(): requestStop(), then stopIsoPump() cancels every transfer.
Stop ==
  /\ ctl \in {"idle", "armed", "unarmed", "deferred"}
  /\ stopRequested' = TRUE
  /\ captureActive' = FALSE
  /\ streaming' = FALSE
  /\ writer' = "running"
  /\ ctl' = "drainOut"
  /\ ret' = "stop"
  /\ UNCHANGED <<at, plan, counts, transportFailed, playbackStarted, callback,
                 evt, ctlx, todo>>

\* The control thread is not inside a callback of its own.
ControlFree == ~(cbpc # "none" /\ cbby = "control")

\* Mutant: the drain loop is left on its first empty poll.
DrainedOutEarly ==
  /\ ctl = "drainOut" /\ ControlFree
  /\ ctl' = "join"
  /\ UNCHANGED <<at, plan, counts, flags, playbackStarted, callback, evt, ctlx,
                 ret, todo, writer>>

DrainedOut ==
  /\ ctl = "drainOut" /\ ControlFree
  /\ inflight = 0
  /\ ctl' = "join"
  /\ UNCHANGED <<at, plan, counts, flags, playbackStarted, callback, evt, ctlx,
                 ret, todo, writer>>

\* The deadline passes with transfers live: they are kept for a later stop().
DrainOutExpires ==
  /\ Deadlines
  /\ ctl = "drainOut" /\ ControlFree
  /\ inflight # 0
  /\ ctl' = IF ret = "stop" THEN "partial" ELSE "unarmed"
  /\ playbackStarted' = IF ret = "stop" THEN playbackStarted ELSE FALSE
  /\ UNCHANGED <<at, plan, counts, flags, callback, evt, ctlx, ret, todo, writer>>

\* What freeing does to a transfer.
Freed(place) == IF place \in {"usb", "dangling"} THEN "dangling" ELSE "freed"

\* The event thread is joined and the OUT and feedback transfers are freed.
JoinAndFree ==
  /\ ctl = "join" /\ evt = "exited"
  /\ at' = [x \in Xfers |-> IF x \in In THEN at[x] ELSE Freed(at[x])]
  /\ pending' = <<>>
  /\ queuedOut' = 0
  /\ playbackStarted' = FALSE
  /\ ctl' = IF ret = "stop" THEN "drainIn" ELSE "unarmed"
  /\ UNCHANGED <<len, fifo, ring, inflight, captureInflight, flags, callback, evt,
                 ctlx, ret, todo, writer>>

\* Mutant: the capture half waits for the playback counter.
StopCaptureWrongCount ==
  /\ ctl \in {"drainIn", "partial"} /\ ControlFree
  /\ inflight = 0
  /\ at' = [x \in Xfers |-> IF x \in In THEN Freed(at[x]) ELSE at[x]]
  /\ ctl' = IF ctl = "drainIn" THEN "stopped" ELSE "deferred"
  /\ UNCHANGED <<plan, counts, flags, playbackStarted, callback, evt, ctlx, ret,
                 todo, writer>>

\* stopCapturePump(): capture transfers are freed once all have retired.
StopCapture ==
  /\ ctl \in {"drainIn", "partial"} /\ ControlFree
  /\ captureInflight = 0
  /\ at' = [x \in Xfers |-> IF x \in In THEN Freed(at[x]) ELSE at[x]]
  /\ ctl' = IF ctl = "drainIn" THEN "stopped" ELSE "deferred"
  /\ UNCHANGED <<plan, counts, flags, playbackStarted, callback, evt, ctlx, ret,
                 todo, writer>>

DrainInExpires ==
  /\ Deadlines
  /\ ctl \in {"drainIn", "partial"} /\ ControlFree
  /\ captureInflight # 0
  /\ ctl' = "deferred"
  /\ UNCHANGED <<at, plan, counts, flags, playbackStarted, callback, evt, ctlx,
                 ret, todo, writer>>

-----------------------------------------------------------------------------
\* A completion libusb delivers to the thread that handles events.
Completion(x, by) ==
  \/ x \in Out /\ OnIsoStopped(x, by)
  \/ x \in Out /\ OnIsoNoDevice(x, by)
  \/ x \in Out /\ OnIsoCompleted(x, by)
  \/ x \in Fb /\ OnFeedbackStopped(x, by)
  \/ x \in Fb /\ OnFeedbackNoDevice(x, by)
  \/ x \in Fb /\ OnFeedbackCompleted(x, by)
  \/ x \in In /\ OnCaptureStopped(x, by)
  \/ x \in In /\ OnCaptureNoDevice(x, by)
  \/ x \in In /\ OnCaptureCompleted(x, by)

CallbackStep ==
  \/ OnIsoImplicit \/ OnIsoDefer \/ OnIsoNominal
  \/ OnIsoSubmit \/ OnIsoSubmitFails
  \/ OnFeedbackSubmit \/ OnFeedbackSubmitFails
  \/ OnCaptureStore
  \/ SubmitPending \/ SubmitPendingFails \/ SubmitPendingDone
  \/ OnCaptureRetire \/ OnCaptureSubmit \/ OnCaptureSubmitFails

EventLoop == EventLoopEnter \/ EventLoopLeave \/ EventLoopExit

Render == WriteQuantum \/ WaitForWritable \/ WaitExpires

ControlStep ==
  \/ \E x \in Fb : SubmitFeedback(x)
  \/ \E x \in Out : SubmitOut(x)
  \/ AccountOut \/ PlaybackArmed
  \/ DrainedOut \/ JoinAndFree \/ StopCapture

ControlChoice ==
  \/ StartPlayback \/ SubmitFails \/ Stop
  \/ DrainOutExpires \/ DrainInExpires

Next ==
  \/ \E x \in Xfers, by \in {"event", "control"} : Completion(x, by)
  \/ CallbackStep
  \/ EventLoop
  \/ Render
  \/ RequestStop
  \/ ControlStep
  \/ ControlChoice

Spec == Init /\ [][Next]_vars

(* USB completes every transfer it was given and libusb hands the           *)
(* completion to whichever thread handles events (strong fairness: that     *)
(* thread is inside libusb_handle_events again and again); a callback, the  *)
(* event loop and a control call that has begun run on; the render thread   *)
(* keeps producing and its timed waits expire.  Nothing makes the owner     *)
(* start, stop or a deadline pass.                                          *)
Fairness ==
  /\ \A x \in Xfers : SF_vars(\E by \in {"event", "control"} : Completion(x, by))
  /\ WF_vars(CallbackStep)
  /\ WF_vars(EventLoopEnter)
  /\ WF_vars(EventLoopLeave /\ stopRequested)
  /\ WF_vars(EventLoopExit)
  /\ WF_vars(ControlStep)
  /\ WF_vars(WriteQuantum)
  /\ WF_vars(WaitExpires)

FairSpec == Spec /\ Fairness

-----------------------------------------------------------------------------
(* Properties.                                                              *)

\* Transfers USB or a callback owns.
Live(S) == {x \in S : at[x] \in {"usb", "callback", "dangling"}}

(* inflight_ and captureInflight_ are exact on every path of every callback *)
(* (retired, deferred, failed, resubmitted): the drain loops of             *)
(* stopIsoPump and stopCapturePump rest on them and on nothing else.        *)
InflightExact ==
  /\ inflight = Cardinality(Live(Out \cup Fb))
  /\ captureInflight = Cardinality(Live(In))

(* stop() "releases interfaces only after every transfer retires": no OUT   *)
(* or feedback transfer is freed while USB still owns it.                   *)
TeardownSafe == \A x \in Out \cup Fb : at[x] # "dangling"

(* The same for the capture transfers, also when the playback half of the   *)
(* teardown was deferred by its deadline.                                   *)
CaptureTeardownSafe == \A x \in In : at[x] # "dangling"

(* The pending array lists exactly the deferred transfers, each once,       *)
(* whatever mixture of completions, resubmissions and failures came before. *)
PendingOwned ==
  /\ {pending[i] : i \in 1..Len(pending)} = {x \in Out : at[x] = "pending"}
  /\ \A i, j \in 1..Len(pending) : pending[i] = pending[j] => i = j

(* A completing OUT transfer always finds a free pending slot, so the       *)
(* overflow branch of onIso, which fails the transport, is never taken.     *)
PendingHasSlot == cbpc = "plan" => Len(pending) < PendingSlots

(* "Preserve completion order": while capture drives the packet clock, no   *)
(* OUT transfer is resubmitted ahead of an older deferred one.              *)
NeverOvertaken ==
  [][ \A x \in Out :
        /\ at[x] \in {"callback", "pending"} /\ at'[x] = "usb"
        /\ captureActive /\ ImplicitMode /\ pending # <<>>
        => x = Head(pending) ]_vars

(* A teardown ends, whatever callback was under way when it began: the      *)
(* drain, the join of the event thread and the capture half all finish, or  *)
(* a 500 ms deadline passes and the rest is left to the next stop().  Only  *)
(* a transfer freed under USB can keep it from ending, which run            *)
(* iso_teardown_race shows and TeardownSafe excludes for explicit feedback. *)
TeardownCompletes ==
  ctl = "drainOut" ~> (ctl \in {"stopped", "unarmed", "deferred"} \/ ~TeardownSafe)

(* Provided the device keeps sending usable packet sizes, a deferred OUT    *)
(* transfer is resubmitted as long as the stream is not stopped.            *)
DeferredResumes ==
  []<>(Len(fifo) >= Packets) =>
    \A x \in Out : at[x] = "pending" ~> (at[x] # "pending" \/ stopRequested)

(* A render thread blocked in waitForWritableFrames() is woken once the     *)
(* ring has room for its quantum, as long as nobody stops the stream (what  *)
(* a stop does to a waiter is the subject of module WakeChannel).           *)
WriterReleased ==
  (writer = "blocked" /\ WritableFrames >= Quantum)
    ~> (writer = "running" \/ stopRequested)

=============================================================================
