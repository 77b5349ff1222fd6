------------------------------ MODULE PlaybackRing ------------------------------
(***************************************************************************)
(* The playback path between the render thread and the USB pump: the       *)
(* byte ring of libusb_uac_driver.cpp (preparePlaybackWrite,               *)
(* commitPlaybackWrite, drainRing), the admission of whole quanta by       *)
(* DirectUsbOutput::submitQuantum, and the gate (accepting_,               *)
(* activeWriters_) that keeps the render thread out of a teardown.         *)
(*                                                                         *)
(* The ring is modelled byte by byte: its capacity is a power of two, so   *)
(* a frame may straddle its end, and the cursors run modulo the width of   *)
(* size_t.  A byte is represented by its position in the session's stream. *)
(* Every load and store of a shared cursor or flag is a step of its own.   *)
(* One thread drains at a time: startPlayback() while it fills the first   *)
(* transfers, the event thread afterwards.                                 *)
(***************************************************************************)
EXTENDS Integers, Sequences

CONSTANTS
  RingBytes,  \* capacity of ring_
  Stride,     \* bytes per frame (format_.channels * format_.bytesPerSample)
  CursorMod,  \* 2^w for the width w of size_t
  Quanta,     \* quantum sizes the render thread submits, in frames
  Packets,    \* packet sizes the pump asks for, in frames
  Prime,      \* startupPrimeFrames_
  Target,     \* playbackTargetFrames_
  Headroom    \* writeHeadroomFrames_

ASSUME RingAssumption ==
  /\ RingBytes \in Nat \ {0}
  /\ Stride \in 1..RingBytes
  /\ CursorMod \in Nat
  /\ CursorMod >= 2 * RingBytes
  /\ CursorMod % RingBytes = 0
  /\ Quanta \subseteq Nat \ {0}
  /\ Packets \subseteq Nat \ {0}
  /\ Prime \in Nat
  /\ Target \in Nat
  /\ Headroom \in Nat

VARIABLES
  ring,          \* ring_: the stream position each byte slot holds
  head,          \* ringHead_
  tail,          \* ringTail_
  written,       \* writtenFrames_, in bytes: position of the next byte of PCM
  started,       \* playbackStarted_
  stopRequested, \* stopRequested_
  accepting,     \* accepting_ of the adapter
  writers,       \* activeWriters_
  ctl,           \* the control thread
  after,         \* the call whose stop() is under way: "stop" or "start"
  wpc,           \* the render thread inside submitQuantum
  w,             \* its locals: frames, fits, head, tail
  dpc,           \* the drain under way
  d,             \* its locals: bytes, head, tail, dst
  got            \* the PCM the last drain handed to a packet

ringVars == <<ring, head, tail, written>>
session == <<started, stopRequested>>
gate == <<accepting, writers>>
control == <<ctl, after>>
writing == <<wpc, w>>
draining == <<dpc, d>>
vars == <<ringVars, session, gate, control, writing, draining, got>>

ControlStates == {"stopped", "closing", "ending", "starting", "resetting", "ready",
                  "open", "arming", "filling", "playing"}
WriterStates == {"out", "enter", "room", "recheck", "load", "admit", "first", "second",
                 "commit", "leave"}

Init ==
  /\ ring = [slot \in 0..(RingBytes - 1) |-> 0]
  /\ head = 0
  /\ tail = 0
  /\ written = 0
  /\ started = FALSE
  /\ stopRequested = FALSE
  /\ accepting = FALSE
  /\ writers = 0
  /\ ctl = "stopped"
  /\ after = "stop"
  /\ wpc = "out"
  /\ w = [frames |-> 0, fits |-> FALSE, head |-> 0, tail |-> 0]
  /\ dpc = "idle"
  /\ d = [bytes |-> 0, head |-> 0, tail |-> 0, dst |-> <<>>]
  /\ got = <<>>

--------------------------------------------------------------------------------
(* Cursor arithmetic.  Differences of size_t wrap.                         *)

Lesser(m, n) == IF m < n THEN m ELSE n

Minus(a, b) == (a - b) % CursorMod

Queued == Minus(head, tail)

Slot(cursor) == cursor % RingBytes

\* Bytes of a region of that length before the ring wraps.
FirstPart(cursor, bytes) == Lesser(bytes, RingBytes - Slot(cursor))

\* Admission ceiling: the prime before playback starts, then the target.
FrameLimit == (IF started THEN Target ELSE Prime) + Headroom

\* Mutant: a partial frame of free space is rounded up.
RoomRoundedUp(h, t) ==
  LET queued == Minus(h, t) \div Stride
      physical == (Minus(RingBytes, Minus(h, t)) + Stride - 1) \div Stride
      logical == IF queued < FrameLimit THEN FrameLimit - queued ELSE 0
  IN  Lesser(physical, logical)

\* Room between the cursors h and t, physical and below the ceiling.
Room(h, t) ==
  LET queued == Minus(h, t) \div Stride
      physical == Minus(RingBytes, Minus(h, t)) \div Stride
      logical == IF queued < FrameLimit THEN FrameLimit - queued ELSE 0
  IN  Lesser(physical, logical)

--------------------------------------------------------------------------------
(* The render thread: submitQuantum(frames).                               *)

\* The first test of accepting_; a closed gate refuses without entering.
Submit(frames) ==
  /\ wpc = "out"
  /\ accepting
  /\ wpc' = "enter"
  /\ w' = [w EXCEPT !.frames = frames]
  /\ UNCHANGED <<ringVars, session, gate, control, draining, got>>

\* activeWriters_ is raised.
Enter ==
  /\ wpc = "enter"
  /\ writers' = writers + 1
  /\ wpc' = "room"
  /\ UNCHANGED <<ringVars, session, accepting, control, w, draining, got>>

\* writableFrames(), compared with the quantum.
ReadRoom ==
  /\ wpc = "room"
  /\ w' = [w EXCEPT !.fits = Room(head, tail) >= w.frames]
  /\ wpc' = "recheck"
  /\ UNCHANGED <<ringVars, session, gate, control, draining, got>>

\* Mutant: the gate is not tested again once the writer is counted.
RecheckRoomOnly ==
  /\ wpc = "recheck"
  /\ wpc' = IF w.fits THEN "load" ELSE "leave"
  /\ UNCHANGED <<ringVars, session, gate, control, w, draining, got>>

\* Mutant: a refused quantum returns early and stays counted.
RecheckAbandons ==
  /\ wpc = "recheck"
  /\ wpc' = IF accepting /\ w.fits THEN "load" ELSE "out"
  /\ UNCHANGED <<ringVars, session, gate, control, w, draining, got>>

\* The second test of accepting_, after the writer is counted.
Recheck ==
  /\ wpc = "recheck"
  /\ wpc' = IF accepting /\ w.fits THEN "load" ELSE "leave"
  /\ UNCHANGED <<ringVars, session, gate, control, w, draining, got>>

\* preparePlaybackWrite reads both cursors.
LoadCursors ==
  /\ wpc = "load"
  /\ w' = [w EXCEPT !.head = head, !.tail = tail]
  /\ wpc' = "admit"
  /\ UNCHANGED <<ringVars, session, gate, control, draining, got>>

\* preparePlaybackWrite admits the whole quantum, or submitQuantum drops it;
\* the credit policy may drop it too once playback has started.
Admit ==
  /\ wpc = "admit"
  /\ wpc' \in {IF Room(w.head, w.tail) >= w.frames THEN "first" ELSE "leave"}
              \cup IF started THEN {"leave"} ELSE {}
  /\ UNCHANGED <<ringVars, session, gate, control, w, draining, got>>

\* Writes the bytes from..(to - 1) of the quantum into the slots of its region.
PackRun(from, to) ==
  ring' = [slot \in DOMAIN ring |->
             LET at == (slot - w.head) % RingBytes
             IN  IF at >= from /\ at < to THEN (written + at) % CursorMod ELSE ring[slot]]

\* packPlaybackRegion up to the end of the ring, the head of a frame that
\* straddles it included.
PackFirst ==
  /\ wpc = "first"
  /\ PackRun(0, FirstPart(w.head, w.frames * Stride))
  /\ wpc' = "second"
  /\ UNCHANGED <<head, tail, written, session, gate, control, w, draining, got>>

\* Mutant: the part of the quantum behind the wrap is not written.
PackSecondSkipped ==
  /\ wpc = "second"
  /\ wpc' = "commit"
  /\ UNCHANGED <<ringVars, session, gate, control, w, draining, got>>

\* packPlaybackRegion from the beginning of the ring.
PackSecond ==
  /\ wpc = "second"
  /\ PackRun(FirstPart(w.head, w.frames * Stride), w.frames * Stride)
  /\ wpc' = "commit"
  /\ UNCHANGED <<head, tail, written, session, gate, control, w, draining, got>>

\* commitPlaybackWrite publishes the region.
Commit ==
  /\ wpc = "commit"
  /\ head' = (w.head + w.frames * Stride) % CursorMod
  /\ written' = (written + w.frames * Stride) % CursorMod
  /\ wpc' = "leave"
  /\ UNCHANGED <<ring, tail, session, gate, control, w, draining, got>>

\* activeWriters_ is lowered.
Leave ==
  /\ wpc = "leave"
  /\ writers' = writers - 1
  /\ wpc' = "out"
  /\ w' = [frames |-> 0, fits |-> FALSE, head |-> 0, tail |-> 0]
  /\ UNCHANGED <<ringVars, session, accepting, control, draining, got>>

--------------------------------------------------------------------------------
(* The pump: drainRing for one packet.                                     *)

\* A transfer is filled by startPlayback(), or refilled by a callback that
\* saw no stop request.  The drain reads the producer's cursor.
Drain(frames) ==
  /\ dpc = "idle"
  /\ started
  /\ ctl # "arming"
  /\ stopRequested => ctl = "filling"
  /\ d' = [d EXCEPT !.head = head, !.bytes = frames * Stride]
  /\ dpc' = "tail"
  /\ UNCHANGED <<ringVars, session, gate, control, writing, got>>

\* It reads its own cursor and takes what is there, up to the request.
LoadTail ==
  /\ dpc = "tail"
  /\ LET bytes == Lesser(Minus(d.head, tail), d.bytes)
     IN  /\ d' = [d EXCEPT !.tail = tail, !.bytes = bytes]
         /\ dpc' = IF bytes > 0 THEN "first" ELSE "idle"
  /\ UNCHANGED <<ringVars, session, gate, control, writing, got>>

\* The bytes from..(to - 1) of the drained region, copied out of the ring.
CopyRun(from, to) ==
  d' = [d EXCEPT !.dst = @ \o [i \in 1..(to - from) |-> ring[Slot(d.tail + from + i - 1)]]]

CopyFirst ==
  /\ dpc = "first"
  /\ CopyRun(0, FirstPart(d.tail, d.bytes))
  /\ dpc' = "second"
  /\ UNCHANGED <<ringVars, session, gate, control, writing, got>>

CopySecond ==
  /\ dpc = "second"
  /\ CopyRun(FirstPart(d.tail, d.bytes), d.bytes)
  /\ dpc' = "store"
  /\ UNCHANGED <<ringVars, session, gate, control, writing, got>>

\* The slots are returned to the producer and the packet has its PCM.
StoreTail ==
  /\ dpc = "store"
  /\ tail' = (d.tail + d.bytes) % CursorMod
  /\ got' = d.dst
  /\ dpc' = "idle"
  /\ d' = [bytes |-> 0, head |-> 0, tail |-> 0, dst |-> <<>>]
  /\ UNCHANGED <<ring, head, written, session, gate, control, writing>>

--------------------------------------------------------------------------------
(* The control thread: start, startPlayback and stop of the adapter.       *)

\* stop(), called by itself or as the first thing start() does: the gate is
\* closed before the writers are counted.
Stop(call) ==
  /\ ctl \in {"stopped", "open", "playing"}
  /\ accepting' = FALSE
  /\ ctl' = "closing"
  /\ after' = call
  /\ UNCHANGED <<ringVars, session, writers, writing, draining, got>>

\* The spin of stop() ends when activeWriters_ is zero; driver_.stop()
\* begins with its stop request.
WritersGone ==
  /\ ctl = "closing"
  /\ writers = 0
  /\ stopRequested' = TRUE
  /\ ctl' = "ending"
  /\ UNCHANGED <<ringVars, started, gate, after, writing, draining, got>>

\* driver_.stop() has retired every transfer and joined the event thread.
\* A teardown that is deferred instead is retried by the next call, and no
\* session starts before it has succeeded.
DriverStopped ==
  /\ ctl = "ending"
  /\ dpc = "idle"
  /\ started' = FALSE
  /\ ctl' = IF after = "start" THEN "starting" ELSE "stopped"
  /\ UNCHANGED <<ringVars, stopRequested, gate, after, writing, draining, got>>

\* startDuplex() resets the cursors one after the other.
ResetHead ==
  /\ ctl = "starting"
  /\ head' = 0
  /\ ctl' = "resetting"
  /\ UNCHANGED <<ring, tail, written, session, gate, after, writing, draining, got>>

\* The rest of the reset of start(): no session is started or stopped yet.
ResetTail ==
  /\ ctl = "resetting"
  /\ tail' = 0
  /\ written' = 0
  /\ started' = FALSE
  /\ stopRequested' = FALSE
  /\ ctl' = "ready"
  /\ UNCHANGED <<ring, head, gate, after, writing, draining, got>>

\* startDuplex() fails before or after the reset, or the negotiated format
\* does not suit the adapter.
StartFails ==
  /\ ctl \in {"starting", "ready"}
  /\ stopRequested' = TRUE
  /\ ctl' = "stopped"
  /\ UNCHANGED <<ringVars, started, gate, after, writing, draining, got>>

\* start() succeeds: the render thread may fill the ring.
OpenGate ==
  /\ ctl = "ready"
  /\ accepting' = TRUE
  /\ ctl' = "open"
  /\ UNCHANGED <<ringVars, session, writers, after, writing, draining, got>>

\* startPlayback() takes playbackStarted_ before it looks at the ring.
StartPlayback ==
  /\ ctl = "open"
  /\ started' = TRUE
  /\ ctl' = "arming"
  /\ UNCHANGED <<ringVars, stopRequested, gate, after, writing, draining, got>>

\* submitIsoPump() refuses a stopped session and an unprimed ring.
Arm ==
  /\ ctl = "arming"
  /\ LET refused == stopRequested \/ Prime > Queued \div Stride
     IN  /\ started' = ~refused
         /\ ctl' = IF refused THEN "open" ELSE "filling"
  /\ UNCHANGED <<ringVars, stopRequested, gate, after, writing, draining, got>>

\* Every initial packet is filled and every transfer is submitted.
Filled ==
  /\ ctl = "filling"
  /\ dpc = "idle"
  /\ ctl' = "playing"
  /\ UNCHANGED <<ringVars, session, gate, after, writing, draining, got>>

\* A submission fails: stopIsoPump() ends playback, the gate stays open.
SubmitFails ==
  /\ ctl = "filling"
  /\ dpc = "idle"
  /\ stopRequested' = TRUE
  /\ started' = FALSE
  /\ ctl' = "open"
  /\ UNCHANGED <<ringVars, gate, after, writing, draining, got>>

\* requestStop() of the adapter, on any thread.  No thread reads both flags,
\* so the two stores are one step.
RequestStop ==
  /\ accepting \/ ~stopRequested
  /\ accepting' = FALSE
  /\ stopRequested' = TRUE
  /\ UNCHANGED <<ringVars, started, writers, control, writing, draining, got>>

--------------------------------------------------------------------------------

Writer ==
  \/ Enter \/ ReadRoom \/ Recheck \/ LoadCursors \/ Admit
  \/ PackFirst \/ PackSecond \/ Commit \/ Leave

Pump == LoadTail \/ CopyFirst \/ CopySecond \/ StoreTail

Control ==
  \/ WritersGone \/ DriverStopped
  \/ ResetHead \/ ResetTail \/ StartFails \/ OpenGate
  \/ StartPlayback \/ Arm \/ Filled \/ SubmitFails

Next ==
  \/ \E frames \in Quanta : Submit(frames)
  \/ Writer
  \/ \E frames \in Packets : Drain(frames)
  \/ Pump
  \/ \E call \in {"stop", "start"} : Stop(call)
  \/ Control
  \/ RequestStop

Spec == Init /\ [][Next]_vars

(* submitQuantum() and drainRing() never block, so a call that has begun    *)
(* ends; stop() yields until it can go on.                                  *)
FairSpec == Spec /\ WF_vars(Writer) /\ WF_vars(Pump) /\ WF_vars(WritersGone)
                 /\ WF_vars(DriverStopped)

--------------------------------------------------------------------------------
(* Properties.                                                             *)

\* The bytes between the cursors.  A session that is being reset is empty.
Contents ==
  IF ctl = "resetting" THEN <<>>
  ELSE [i \in 1..Queued |-> ring[Slot(tail + i - 1)]]

Fifo == INSTANCE FrameFifo WITH
          Capacity <- RingBytes, FrameBytes <- Stride, Numbers <- CursorMod,
          queue <- Contents, sent <- (IF ctl = "resetting" THEN 0 ELSE written)

(* The ring implements a bounded queue: under every interleaving of         *)
(* preparePlaybackWrite, commitPlaybackWrite and drainRing, wrapped regions *)
(* and wrapped cursors included, a quantum is published whole, the packets  *)
(* receive the PCM in order, none of it twice and none of it made up, and a *)
(* new session starts empty.                                                *)
ImplementsFifo == Fifo!Spec

Region(cursor, bytes) == {Slot(cursor + i) : i \in 0..(bytes - 1)}

(* The slots submitQuantum() is packing are never the slots drainRing() is  *)
(* copying: the region of preparePlaybackWrite, taken from a tail that may  *)
(* be stale, stays clear of the unread bytes until it is committed.         *)
RegionsDisjoint ==
  wpc \in {"first", "second", "commit"} /\ dpc \in {"first", "second", "store"}
    => Region(w.head, w.frames * Stride) \cap Region(d.tail, d.bytes) = {}

(* Once stop() has seen activeWriters_ = 0, the render thread holds no      *)
(* region of the ring until start() opens the gate again, so no commit of   *)
(* one session lands on the cursors of the next.                            *)
StopExcludesWriters ==
  ctl \in {"ending", "stopped", "starting", "resetting", "ready"}
    => wpc \notin {"load", "admit", "first", "second", "commit"}

(* stop() returns: the writers it waits for leave, whatever they were       *)
(* refused or admitted for, and no new one enters.                          *)
StopReturns == ctl = "closing" ~> ctl \in {"stopped", "starting"}
================================================================================
