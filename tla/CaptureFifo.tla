------------------------------ MODULE CaptureFifo ------------------------------
(***************************************************************************)
(* What the capture ring promises the render thread: a bounded queue that  *)
(* loses frames only at its two ends.  A completion offers the frames it   *)
(* kept and publishes them together; the consumer drops a prefix and takes *)
(* the frames behind it, in the order they were captured; a new session    *)
(* starts empty.                                                           *)
(***************************************************************************)
EXTENDS Integers, Sequences

CONSTANTS
  Capacity,   \* bytes the queue holds
  FrameBytes, \* bytes of one frame
  Numbers     \* bytes are numbered as they are captured, modulo Numbers

VARIABLES
  queue,      \* bytes published and neither dropped nor taken
  offered,    \* bytes a completion has kept and not published yet
  got         \* the bytes the last read took

captureVars == <<queue, offered, got>>

Init ==
  /\ queue = <<>>
  /\ offered = <<>>
  /\ got = <<>>

\* Whole frames of consecutive bytes are kept, if the queue has room for them.
Offer(first, frames) ==
  LET bytes == frames * FrameBytes
  IN  /\ Len(queue) + Len(offered) + bytes =< Capacity
      /\ offered' = offered \o [i \in 1..bytes |-> (first + i - 1) % Numbers]
      /\ UNCHANGED <<queue, got>>

Publish ==
  /\ queue' = queue \o offered
  /\ offered' = <<>>
  /\ UNCHANGED got

\* The oldest frames are given up.
Drop(frames) ==
  /\ queue' = SubSeq(queue, frames * FrameBytes + 1, Len(queue))
  /\ UNCHANGED <<offered, got>>

\* A read gives up the oldest frames and takes the ones behind them.
Take(stale, frames) ==
  LET from == stale * FrameBytes
      to == (stale + frames) * FrameBytes
  IN  /\ got' = SubSeq(queue, from + 1, to)
      /\ queue' = SubSeq(queue, to + 1, Len(queue))
      /\ UNCHANGED offered

\* The caller has used what it took.
Release ==
  /\ got' = <<>>
  /\ UNCHANGED <<queue, offered>>

Clear ==
  /\ queue' = <<>>
  /\ UNCHANGED <<offered, got>>

Frames == Len(queue) \div FrameBytes

Next ==
  \/ \E first \in 0..(Numbers - 1), frames \in 1..(Capacity \div FrameBytes) :
       Offer(first, frames)
  \/ Publish
  \/ \E frames \in 1..Frames : Drop(frames)
  \/ \E stale \in 0..Frames, frames \in 1..Frames :
       stale + frames =< Frames /\ Take(stale, frames)
  \/ Release
  \/ Clear

Spec == Init /\ [][Next]_captureVars
================================================================================
