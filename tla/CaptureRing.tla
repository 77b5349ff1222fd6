------------------------------ MODULE CaptureRing ------------------------------
(***************************************************************************)
(* The capture path between onCapture() and the render thread: the byte    *)
(* ring of libusb_uac_driver.cpp, the trim of prepareCaptureRead() to the  *)
(* newest window, commitCaptureRead(), discardCaptureFrames(),             *)
(* beginCaptureLive(), and DirectUsbOutput::readInputChannels(), which     *)
(* hands over whole quanta or nothing.                                     *)
(*                                                                         *)
(* Bytes, cursors and slots are those of module PlaybackRing.  A byte is   *)
(* its position in what the device captured, the packets that are lost     *)
(* included, so that a gap shows.                                          *)
(*                                                                         *)
(* readInputChannels() has no counterpart of the playback gate.  The       *)
(* documented order of a stop ends the render thread's work before         *)
(* native resources are released (RenderJoined).                           *)
(***************************************************************************)
EXTENDS Integers, Sequences

CONSTANTS
  RingBytes,    \* capacity of captureRing_
  Stride,       \* bytes per frame
  CursorMod,    \* 2^w for the width w of size_t
  Numbers,      \* captured bytes are numbered modulo Numbers
  Packets,      \* frames a capture packet may carry
  PerTransfer,  \* packets of one capture transfer
  Quanta,       \* frames the render thread asks for, keeps or discards
  Limit,        \* frames the latency policy lets a read look back
  MaxCredit,    \* bound on the losses counted and not yet heard
  RenderJoined  \* the render thread is outside a read while stop() resets

ASSUME CaptureAssumption ==
  /\ RingBytes \in Nat \ {0}
  /\ Stride \in 1..RingBytes
  /\ CursorMod \in Nat /\ CursorMod >= 2 * RingBytes /\ CursorMod % RingBytes = 0
  /\ Numbers \in Nat /\ Numbers > RingBytes /\ Numbers % Stride = 0
  /\ Packets \subseteq Nat \ {0}
  /\ PerTransfer \in Nat \ {0}
  /\ Quanta \subseteq Nat \ {0}
  /\ Limit \in Nat \ {0}
  /\ MaxCredit \in Nat /\ MaxCredit > RingBytes \div Stride
  /\ RenderJoined \in BOOLEAN

VARIABLES
  ring,      \* captureRing_: the position each byte slot holds
  head,      \* captureHead_
  tail,      \* captureTail_
  live,      \* captureLive_
  active,    \* captureActive_
  captured,  \* position of the next byte the device delivers
  ctl,       \* the control thread
  ppc, p,    \* onCapture(): step; locals head, tail, packets left, bytes kept
  rpc, r,    \* the read under way: step; locals, with the bytes copied
  got,       \* the PCM the last read handed over
  heard,     \* history: position after the last byte handed over while live;
  credit     \*   counted losses less the gaps handed over while live

ringVars == <<ring, head, tail, captured>>
session == <<active, ctl>>
producer == <<ppc, p>>
reader == <<rpc, r>>
output == <<got, heard, credit>>
vars == <<ringVars, live, session, producer, reader, output>>

Nothing == -1

NoRead == [frames |-> 0, whole |-> TRUE, head |-> 0, cursor |-> 0,
           exempt |-> FALSE, dst |-> <<>>]
NoTransfer == [head |-> 0, tail |-> 0, left |-> 0, kept |-> <<>>]

--------------------------------------------------------------------------------
Lesser(m, n) == IF m < n THEN m ELSE n

Minus(a, b) == (a - b) % CursorMod

Slot(cursor) == cursor % RingBytes

FirstPart(cursor, bytes) == Lesser(bytes, RingBytes - Slot(cursor))

\* captureFrameLimit(): the policy's limit within the ring.
FrameLimit == Lesser(RingBytes \div Stride, Limit)

\* One more loss is visible in a counter or in a return value.
Counted(n) == Lesser(n + 1, MaxCredit)

Init ==
  /\ ring = [slot \in 0..(RingBytes - 1) |-> 0]
  /\ head = 0 /\ tail = 0 /\ captured = 0
  /\ live = FALSE
  /\ active = FALSE /\ ctl = "stopped"
  /\ ppc = "idle" /\ p = NoTransfer
  /\ rpc = "out" /\ r = NoRead
  /\ got = <<>> /\ heard = Nothing /\ credit = 0

--------------------------------------------------------------------------------
(* onCapture().                                                             *)

\* A completion that finds captureActive_ set loads both cursors, once for all
\* packets of the transfer.
OnCapture ==
  /\ ppc = "idle" /\ active
  /\ p' = [head |-> head, tail |-> tail, left |-> PerTransfer, kept |-> <<>>]
  /\ ppc' = "packet"
  /\ UNCHANGED <<ringVars, live, session, reader, output>>

\* Mutant: the free space is taken once, before the packets of the transfer.
KeptOfOnce(bytes) ==
  LET free == RingBytes - Minus(head, p.tail)
  IN  Lesser(bytes, free - (free % Stride))

\* Bytes of a packet the ring has room for, in whole frames.
KeptOf(bytes) ==
  LET free == RingBytes - Minus(p.head, p.tail)
  IN  Lesser(bytes, free - (free % Stride))

\* A good packet is copied behind the ones before it; what does not fit is
\* dropped and counts as one overrun.
StorePacket(frames) ==
  LET bytes == frames * Stride
      keep == KeptOf(bytes)
  IN  /\ ppc = "packet" /\ p.left > 0
      /\ ring' = [slot \in DOMAIN ring |->
                    LET at == (slot - p.head) % RingBytes
                    IN  IF at < keep THEN (captured + at) % Numbers ELSE ring[slot]]
      /\ p' = [p EXCEPT !.head = (@ + keep) % CursorMod, !.left = @ - 1,
                 !.kept = @ \o [i \in 1..keep |-> (captured + i - 1) % Numbers]]
      /\ captured' = (captured + bytes) % Numbers
      /\ credit' = IF keep < bytes THEN Counted(credit) ELSE credit
      /\ UNCHANGED <<head, tail, live, session, ppc, reader, got, heard>>

\* A failed or empty packet leaves a gap, and a count of dropped packets.
DropPacket(frames) ==
  /\ ppc = "packet" /\ p.left > 0
  /\ p' = [p EXCEPT !.left = @ - 1]
  /\ captured' = (captured + frames * Stride) % Numbers
  /\ credit' = Counted(credit)
  /\ UNCHANGED <<ring, head, tail, live, session, ppc, reader, got, heard>>

\* The frames of all packets are published at once.
PublishHead ==
  /\ ppc = "packet" /\ p.left = 0
  /\ head' = p.head
  /\ p' = NoTransfer
  /\ ppc' = "idle"
  /\ UNCHANGED <<ring, tail, captured, live, session, reader, output>>

--------------------------------------------------------------------------------
(* The render thread.                                                       *)

\* prepareCaptureRead() finds capture running and loads the producer's cursor,
\* for readInputChannels() (whole) or readCapturePcm().  The caller is done
\* with its last block.
Read(frames, whole) ==
  /\ rpc = "out" /\ active
  /\ r' = [NoRead EXCEPT !.frames = frames, !.whole = whole, !.head = head]
  /\ rpc' = "load"
  /\ got' = <<>>
  /\ UNCHANGED <<ringVars, live, session, producer, heard, credit>>

\* Mutant: the trim is not counted.
PrepareSilent ==
  LET limit == FrameLimit * Stride
      stale == Minus(r.head, tail) > limit
      cursor == IF stale THEN Minus(r.head, limit) ELSE tail
      frames == Lesser(Minus(r.head, cursor) \div Stride, r.frames)
  IN  /\ rpc = "load"
      /\ r' = [NoRead EXCEPT !.cursor = cursor, !.frames = frames, !.exempt = ~live]
      /\ rpc' = IF frames < r.frames /\ (r.whole \/ frames = 0) THEN "short"
                ELSE "first"
      /\ UNCHANGED <<ringVars, live, session, producer, output>>

\* The rest of prepareCaptureRead(): it looks back no further than the limit,
\* counts that as an overrun once capture is live, and clips the request to
\* what is there.
Prepare ==
  LET limit == FrameLimit * Stride
      stale == Minus(r.head, tail) > limit
      cursor == IF stale THEN Minus(r.head, limit) ELSE tail
      frames == Lesser(Minus(r.head, cursor) \div Stride, r.frames)
  IN  /\ rpc = "load"
      /\ r' = [NoRead EXCEPT !.cursor = cursor, !.frames = frames, !.exempt = ~live]
      /\ rpc' = IF frames < r.frames /\ (r.whole \/ frames = 0) THEN "short"
                ELSE "first"
      /\ credit' = IF stale /\ live THEN Counted(credit) ELSE credit
      /\ UNCHANGED <<ringVars, live, session, producer, got, heard>>

\* The bytes from..(to - 1) of the region, copied or unpacked.
CopyRun(from, to) ==
  r' = [r EXCEPT !.dst =
          @ \o [i \in 1..(to - from) |-> ring[Slot(r.cursor + from + i - 1)]]]

CopyFirst ==
  /\ rpc = "first"
  /\ CopyRun(0, FirstPart(r.cursor, r.frames * Stride))
  /\ rpc' = IF FirstPart(r.cursor, r.frames * Stride) < r.frames * Stride
            THEN "second" ELSE "commit"
  /\ UNCHANGED <<ringVars, live, session, producer, output>>

CopySecond ==
  /\ rpc = "second"
  /\ CopyRun(FirstPart(r.cursor, r.frames * Stride), r.frames * Stride)
  /\ rpc' = "commit"
  /\ UNCHANGED <<ringVars, live, session, producer, output>>

\* A gap the caller hears in what this read hands over.
Gap == ~r.exempt /\ heard # Nothing /\ Head(r.dst) # heard

\* Mutant: the commit advances the published cursor and forgets the trim.
CommitUntrimmed ==
  /\ rpc = "commit"
  /\ tail' = (tail + r.frames * Stride) % CursorMod
  /\ got' = r.dst
  /\ heard' = IF r.exempt THEN Nothing ELSE (r.dst[Len(r.dst)] + 1) % Numbers
  /\ credit' = IF Gap THEN credit - 1 ELSE credit
  /\ rpc' = "out" /\ r' = NoRead
  /\ UNCHANGED <<ring, head, captured, live, session, producer>>

\* commitCaptureRead() gives the slots back and the caller has its PCM.
Commit ==
  /\ rpc = "commit"
  /\ tail' = (r.cursor + r.frames * Stride) % CursorMod
  /\ got' = r.dst
  /\ heard' = IF r.exempt THEN Nothing ELSE (r.dst[Len(r.dst)] + 1) % Numbers
  /\ credit' = IF Gap THEN credit - 1 ELSE credit
  /\ rpc' = "out" /\ r' = NoRead
  /\ UNCHANGED <<ring, head, captured, live, session, producer>>

\* A short read is committed and counted, and hands over nothing.
CommitShort ==
  /\ rpc = "short"
  /\ tail' = IF r.frames > 0 THEN (r.cursor + r.frames * Stride) % CursorMod
             ELSE tail
  /\ credit' = Counted(credit)
  /\ rpc' = "out" /\ r' = NoRead
  /\ UNCHANGED <<ring, head, captured, live, session, producer, got, heard>>

\* discardCaptureFrames(): the caller is told how many.
DiscardCaptureFrames(most) ==
  LET discarded == Lesser(Minus(head, tail) \div Stride, most)
  IN  /\ rpc = "out" /\ active
      /\ discarded > 0
      /\ tail' = (tail + discarded * Stride) % CursorMod
      /\ credit' = Counted(credit)
      /\ UNCHANGED <<ring, head, captured, live, session, producer, reader, got,
                     heard>>

\* beginCaptureLive(): the first call keeps the newest frames and reports what
\* it dropped; one that finds capture stopped only sets the flag.
BeginCaptureLive(keep) ==
  LET available == Minus(head, tail) \div Stride
      discards == active /\ available > keep
  IN  /\ rpc = "out" /\ ~live
      /\ live' = TRUE
      /\ tail' = IF discards THEN (tail + (available - keep) * Stride) % CursorMod
                 ELSE tail
      /\ credit' = IF discards THEN Counted(credit) ELSE credit
      /\ UNCHANGED <<ring, head, captured, session, producer, reader, got, heard>>

--------------------------------------------------------------------------------
(* The control thread.                                                      *)

\* requestStop() on any thread, the first thing stop() does, what start() does
\* to a session it has to reconfigure, or a failed transport.
RequestStop ==
  /\ active
  /\ active' = FALSE
  /\ UNCHANGED <<ringVars, live, ctl, producer, reader, output>>

\* Both pumps have stopped: no callback runs.  (A teardown whose drain expires
\* is retried by the next call.)  The cursors are reset one after the other.
ClearHead ==
  /\ ctl = "active" /\ ~active
  /\ ppc = "idle"
  /\ RenderJoined => rpc = "out"
  /\ head' = 0
  /\ ctl' = "clearing"
  /\ UNCHANGED <<ring, tail, captured, live, active, producer, reader, output>>

\* Only the reconfiguration inside start() ends the live epoch as well.  What
\* was heard before is not the past of the next session.
ClearTail(call) ==
  /\ ctl = "clearing"
  /\ tail' = 0
  /\ live' = (live /\ call = "stop")
  /\ ctl' = IF call = "start" THEN "starting" ELSE "stopped"
  /\ captured' = 0 /\ heard' = Nothing /\ credit' = 0
  /\ UNCHANGED <<ring, head, active, producer, reader, got>>

StartDuplex ==
  /\ ctl = "stopped"
  /\ ctl' = "starting"
  /\ UNCHANGED <<ringVars, live, active, producer, reader, output>>

\* startDuplex() resets the cursors again before it starts the capture pump.
StartHead ==
  /\ ctl = "starting"
  /\ head' = 0
  /\ ctl' = "begin"
  /\ UNCHANGED <<ring, tail, captured, live, active, producer, reader, output>>

\* startCapturePump() lets the completions in.
StartCapturePump ==
  /\ ctl = "begin"
  /\ tail' = 0
  /\ active' = TRUE
  /\ ctl' = "active"
  /\ UNCHANGED <<ring, head, captured, live, producer, reader, output>>

--------------------------------------------------------------------------------
Callback ==
  \/ OnCapture
  \/ \E frames \in Packets : StorePacket(frames) \/ DropPacket(frames)
  \/ PublishHead

Render ==
  \/ \E frames \in Quanta, whole \in BOOLEAN : Read(frames, whole)
  \/ Prepare \/ CopyFirst \/ CopySecond \/ Commit \/ CommitShort
  \/ \E frames \in Quanta : DiscardCaptureFrames(frames)
  \/ \E keep \in Quanta \cup {0} : BeginCaptureLive(keep)

Control ==
  \/ ClearHead
  \/ \E call \in {"stop", "start"} : ClearTail(call)
  \/ StartDuplex \/ StartHead \/ StartCapturePump

Next == Callback \/ Render \/ RequestStop \/ Control

Spec == Init /\ [][Next]_vars

--------------------------------------------------------------------------------
(* Properties.                                                              *)

Contents ==
  IF ctl \in {"clearing", "begin"} THEN <<>>
  ELSE [i \in 1..Minus(head, tail) |-> ring[Slot(tail + i - 1)]]

Fifo == INSTANCE CaptureFifo WITH
          Capacity <- RingBytes, FrameBytes <- Stride,
          queue <- Contents, offered <- p.kept

(* The ring implements a queue that loses frames only at its ends: with     *)
(* frames that straddle the end of the ring, wrapped cursors, overruns,     *)
(* trims and short reads in any order, the render thread receives whole     *)
(* frames in the order they were captured, none twice, none overwritten     *)
(* while it copies, and none of an earlier session.                         *)
ImplementsLossyFifo == Fifo!Spec

Region(cursor, bytes) == {Slot(cursor + i) : i \in 0..(bytes - 1)}

(* onCapture() never stores into the slots a read is unpacking, although    *)
(* its tail is as old as the first packet of the transfer and the read has  *)
(* moved its own past the published one.                                    *)
ReadUndisturbed ==
  ppc = "packet" /\ rpc \in {"first", "second", "commit"}
    => Region(head, Minus(p.head, head)) \cap Region(r.cursor, r.frames * Stride) = {}

(* No silent loss: once capture is live, every gap in what the reads hand   *)
(* over is one a counter (captureOverruns_, capturePacketDrops_,            *)
(* capturePartialReads_, startupCaptureDiscardFrames_) or a return value    *)
(* has reported.                                                            *)
NoSilentGap == credit >= 0
================================================================================
