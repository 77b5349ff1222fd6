------------------------------- MODULE FrameFifo -------------------------------
(***************************************************************************)
(* What the playback ring promises the render thread and the USB pump: a   *)
(* bounded queue of bytes.  A quantum enters whole or not at all, a packet *)
(* takes a prefix made of whole frames, and a new session starts empty.    *)
(* Bytes are numbered in the order they are handed in, modulo Numbers.     *)
(***************************************************************************)
EXTENDS Integers, Sequences

CONSTANTS
  Capacity,   \* bytes the queue holds
  FrameBytes, \* bytes of one frame
  Quanta,     \* sizes a quantum may have, in frames
  Numbers     \* modulus of the byte numbers

VARIABLES
  queue,      \* bytes published and not taken yet
  sent,       \* number of the next byte to be published
  got         \* the bytes the last packet took

fifoVars == <<queue, sent, got>>

Init ==
  /\ queue = <<>>
  /\ sent = 0
  /\ got = <<>>

\* One whole quantum is published.
Publish(frames) ==
  LET bytes == frames * FrameBytes
  IN  /\ Len(queue) + bytes =< Capacity
      /\ queue' = queue \o [i \in 1..bytes |-> (sent + i - 1) % Numbers]
      /\ sent' = (sent + bytes) % Numbers
      /\ UNCHANGED got

\* A packet takes the oldest frames.
Take(frames) ==
  LET bytes == frames * FrameBytes
  IN  /\ got' = SubSeq(queue, 1, bytes)
      /\ queue' = SubSeq(queue, bytes + 1, Len(queue))
      /\ UNCHANGED sent

\* A new session.
Clear ==
  /\ queue' = <<>>
  /\ sent' = 0
  /\ UNCHANGED got

Next ==
  \/ \E frames \in Quanta : Publish(frames)
  \/ \E frames \in 1..(Len(queue) \div FrameBytes) : Take(frames)
  \/ Clear

Spec == Init /\ [][Next]_fifoVars
================================================================================
