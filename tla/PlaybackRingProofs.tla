--------------------------- MODULE PlaybackRingProofs ---------------------------
(***************************************************************************)
(* The playback path for every ring, frame size, cursor width and set of   *)
(* quanta and packets: the gate between DirectUsbOutput::submitQuantum and *)
(* stop(), the disjointness of the regions packed and copied, and the      *)
(* refinement of the bounded queue of module FrameFifo.                    *)
(***************************************************************************)
EXTENDS PlaybackRing, SequenceTheorems, TLAPS

\* Where the render thread is counted by activeWriters_.
Counted == WriterStates \ {"out", "enter"}

\* Control states in which accepting_ may be set.
GateOpen == {"open", "arming", "filling", "playing"}

(* The counter says whether the render thread is inside, the gate is open   *)
(* only in a session, and behind a closed and counted gate nobody holds a   *)
(* region.  The second test of accepting_ is what makes this inductive: the *)
(* thread may be counted after stop() has looked, but then finds the gate   *)
(* closed.                                                                  *)
GateInv ==
  /\ wpc \in WriterStates
  /\ ctl \in ControlStates
  /\ accepting \in BOOLEAN
  /\ writers = IF wpc \in Counted THEN 1 ELSE 0
  /\ accepting => ctl \in GateOpen
  /\ StopExcludesWriters

LEMMA GateInit == Init => GateInv
BY DEF Init, GateInv, WriterStates, ControlStates, Counted, GateOpen,
       StopExcludesWriters

LEMMA GateStep == GateInv /\ [Next]_vars => GateInv'
<1> SUFFICES ASSUME GateInv, [Next]_vars PROVE GateInv'
  OBVIOUS
<1> USE DEF GateInv, WriterStates, ControlStates, Counted, GateOpen,
            StopExcludesWriters
<1>1. ASSUME NEW frames \in Quanta, Submit(frames) PROVE GateInv'
  BY <1>1 DEF Submit, gate, control
<1>2. CASE Enter
  BY <1>2 DEF Enter, control
<1>3. CASE ReadRoom
  BY <1>3 DEF ReadRoom, gate, control
<1>4. CASE Recheck
  BY <1>4 DEF Recheck, gate, control
<1>5. CASE LoadCursors
  BY <1>5 DEF LoadCursors, gate, control
<1>6. CASE Admit
  BY <1>6 DEF Admit, gate, control
<1>7. CASE PackFirst
  BY <1>7 DEF PackFirst, gate, control
<1>8. CASE PackSecond
  BY <1>8 DEF PackSecond, gate, control
<1>9. CASE Commit
  BY <1>9 DEF Commit, gate, control
<1>10. CASE Leave
  BY <1>10 DEF Leave, control
<1>11. ASSUME NEW frames \in Packets, Drain(frames) PROVE GateInv'
  BY <1>11 DEF Drain, gate, control, writing
<1>12. CASE Pump
  BY <1>12 DEF Pump, LoadTail, CopyFirst, CopySecond, StoreTail, gate, control, writing
<1>13. ASSUME NEW call \in {"stop", "start"}, Stop(call) PROVE GateInv'
  BY <1>13 DEF Stop, writing
<1>14. CASE WritersGone
  BY <1>14 DEF WritersGone, gate, writing
<1>15. CASE DriverStopped
  BY <1>15 DEF DriverStopped, gate, writing
<1>16. CASE ResetHead
  BY <1>16 DEF ResetHead, gate, writing
<1>17. CASE ResetTail
  BY <1>17 DEF ResetTail, gate, writing
<1>18. CASE StartFails
  BY <1>18 DEF StartFails, gate, writing
<1>19. CASE OpenGate
  BY <1>19 DEF OpenGate, writing
<1>20. CASE StartPlayback
  BY <1>20 DEF StartPlayback, gate, writing
<1>21. CASE Arm
  BY <1>21 DEF Arm, gate, writing
<1>22. CASE Filled
  BY <1>22 DEF Filled, gate, writing
<1>23. CASE SubmitFails
  BY <1>23 DEF SubmitFails, gate, writing
<1>24. CASE RequestStop
  BY <1>24 DEF RequestStop, control, writing
<1>25. CASE UNCHANGED vars
  BY <1>25 DEF vars, gate, control, writing
<1> QED
  BY <1>1, <1>2, <1>3, <1>4, <1>5, <1>6, <1>7, <1>8, <1>9, <1>10, <1>11, <1>12,
     <1>13, <1>14, <1>15, <1>16, <1>17, <1>18, <1>19, <1>20, <1>21, <1>22, <1>23,
     <1>24, <1>25 DEF Next, Writer, Control

(* The gate is exclusive: once stop() has counted the writers out, the      *)
(* render thread holds no region of the ring until the next start().        *)
THEOREM GateExclusive == Spec => []StopExcludesWriters
<1>1. GateInv => StopExcludesWriters
  BY DEF GateInv
<1> QED
  BY GateInit, GateStep, <1>1, PTL DEF Spec

--------------------------------------------------------------------------------
(* Remainders.                                                             *)

(* Euclidean division by a positive number.                                *)
LEMMA IntDivMod ==
  ASSUME NEW x \in Int, NEW n \in Nat \ {0}
  PROVE  /\ x % n \in 0..(n - 1)
         /\ x \div n \in Int
         /\ x = n * (x \div n) + (x % n)
  OBVIOUS

(* The remainder is the only one.                                          *)
LEMMA ModUnique ==
  ASSUME NEW n \in Nat \ {0}, NEW k \in Int, NEW r \in 0..(n - 1)
  PROVE  (n * k + r) % n = r
  <1> DEFINE x == n * k + r
  <1>1. x \in Int
    OBVIOUS
  <1>2. PICK q \in Int, s \in 0..(n - 1) : x = n * q + s /\ s = x % n
    BY <1>1, IntDivMod
  <1>3. n * (k - q) = s - r
    BY <1>2
  <1>4. k - q = 0
    <2>1. ~(k - q >= 1)
       <3>1. ASSUME k - q >= 1 PROVE n * (k - q) >= n
         BY <3>1
       <3> QED
         BY <3>1, <1>3
    <2>2. ~(k - q <= -1)
       <3>1. ASSUME k - q <= -1 PROVE n * (k - q) <= -n
         BY <3>1
       <3> QED
         BY <3>1, <1>3
    <2> QED
      BY <2>1, <2>2
  <1> QED
    BY <1>2, <1>3, <1>4

(* Multiples of the modulus do not count.                                  *)
LEMMA ModShift ==
  ASSUME NEW n \in Nat \ {0}, NEW x \in Int, NEW k \in Int
  PROVE  (x + n * k) % n = x % n
  <1>1. PICK q \in Int, s \in 0..(n - 1) : x = n * q + s /\ s = x % n
    BY IntDivMod
  <1>2. x + n * k = n * (q + k) + s
    BY <1>1
  <1>3. (n * (q + k) + s) % n = s
    BY ModUnique, q + k \in Int
  <1> QED
    BY <1>1, <1>2, <1>3

(* A remainder modulo a multiple of n has the same remainder modulo n.     *)
LEMMA ModMod ==
  ASSUME NEW n \in Nat \ {0}, NEW m \in Nat \ {0}, m % n = 0, NEW x \in Int
  PROVE  (x % m) % n = x % n
  <1>1. PICK c \in Int : m = n * c
    BY IntDivMod
  <1>2. PICK q \in Int : x = m * q + (x % m)
    BY IntDivMod
  <1>3. x = (x % m) + n * (c * q) /\ x % m \in Int /\ c * q \in Int
    <2>1. (n * c) * q = n * (c * q)
      OBVIOUS
    <2> QED
      BY <1>1, <1>2, <2>1, IntDivMod
  <1>4. ((x % m) + n * (c * q)) % n = (x % m) % n
    BY <1>3, ModShift
  <1> QED
    BY <1>3, <1>4

(* A summand may be reduced first.                                         *)
LEMMA ModAdd ==
  ASSUME NEW n \in Nat \ {0}, NEW x \in Int, NEW y \in Int
  PROVE  ((x % n) + y) % n = (x + y) % n
  <1>1. PICK q \in Int : x = n * q + (x % n)
    BY IntDivMod
  <1>2. x + y = ((x % n) + y) + n * q /\ (x % n) + y \in Int
    BY <1>1, IntDivMod
  <1> QED
    BY <1>2, ModShift

(* Numbers less than the modulus apart have different remainders.          *)
LEMMA ModApart ==
  ASSUME NEW n \in Nat \ {0}, NEW x \in Int, NEW y \in Int, x < y, y - x < n
  PROVE  x % n # y % n
  <1>1. PICK q \in Int : x = n * q + (x % n)
    BY IntDivMod
  <1>2. PICK s \in Int : y = n * s + (y % n)
    BY IntDivMod
  <1>3. SUFFICES ASSUME x % n = y % n PROVE FALSE
    OBVIOUS
  <1>4. y - x = n * (s - q)
    BY <1>1, <1>2, <1>3, IntDivMod
  <1>5. s - q >= 1
    BY <1>4
  <1>6. n * (s - q) >= n
    BY <1>5
  <1> QED
    BY <1>4, <1>6

--------------------------------------------------------------------------------
(* Cursors.                                                                *)

Cursors == 0..(CursorMod - 1)

(* The moduli are positive and the ring divides the cursors' range.        *)
LEMMA Moduli ==
  /\ RingBytes \in Nat \ {0} /\ CursorMod \in Nat \ {0}
  /\ CursorMod % RingBytes = 0 /\ CursorMod >= 2 * RingBytes
  /\ Stride \in Nat \ {0} /\ 0 \in Cursors
  BY RingAssumption DEF RingAssumption, Cursors

(* A number wraps to a cursor.                                             *)
LEMMA Wraps ==
  ASSUME NEW x \in Int
  PROVE  x % CursorMod \in Cursors
  BY Moduli, IntDivMod DEF Cursors

(* A wrapped difference leads back from one cursor to the other, and is    *)
(* the only one that does.                                                 *)
LEMMA MinusLeads ==
  ASSUME NEW a \in Cursors, NEW b \in Cursors
  PROVE  /\ Minus(a, b) \in Cursors
         /\ (b + Minus(a, b)) % CursorMod = a
  <1>1. a \in Int /\ b \in Int /\ a - b \in Int
    BY Moduli DEF Cursors
  <1>2. Minus(a, b) \in Cursors
    BY <1>1, Moduli, IntDivMod DEF Minus, Cursors
  <1>3. (Minus(a, b) + b) % CursorMod = ((a - b) + b) % CursorMod
    BY <1>1, Moduli, ModAdd DEF Minus
  <1>4. (a - b) + b = a /\ a % CursorMod = a
    BY <1>1, Moduli DEF Cursors
  <1>5. Minus(a, b) + b = b + Minus(a, b)
    BY <1>1, <1>2 DEF Cursors
  <1> QED
    BY <1>2, <1>3, <1>4, <1>5

LEMMA MinusIs ==
  ASSUME NEW a \in Cursors, NEW b \in Cursors, NEW q \in Cursors,
         a = (b + q) % CursorMod
  PROVE  Minus(a, b) = q
  <1>1. b \in Int /\ q \in Int /\ -b \in Int /\ b + q \in Int
    BY Moduli DEF Cursors
  <1>2. (((b + q) % CursorMod) + (-b)) % CursorMod = ((b + q) + (-b)) % CursorMod
    BY <1>1, Moduli, ModAdd
  <1>3. (b + q) + (-b) = q /\ q % CursorMod = q
    BY <1>1, Moduli DEF Cursors
  <1>4. a - b = a + (-b)
    BY <1>1, Moduli DEF Cursors
  <1> QED
    BY <1>2, <1>3, <1>4 DEF Minus

(* Moving the head, or the tail, by n bytes.                               *)
LEMMA MoveHead ==
  ASSUME NEW h \in Cursors, NEW t \in Cursors, NEW n \in Nat,
         Minus(h, t) + n < CursorMod
  PROVE  /\ (h + n) % CursorMod \in Cursors
         /\ Minus((h + n) % CursorMod, t) = Minus(h, t) + n
  <1> DEFINE q == Minus(h, t)
  <1>1. q \in Cursors /\ (t + q) % CursorMod = h
    BY MinusLeads
  <1> HIDE DEF q
  <1>2. t \in Int /\ q \in Int /\ n \in Int /\ h \in Int /\ q + n \in Cursors
    BY <1>1, Moduli DEF Cursors, q
  <1>3. (h + n) % CursorMod = (t + (q + n)) % CursorMod
    <2>1. (((t + q) % CursorMod) + n) % CursorMod = ((t + q) + n) % CursorMod
      BY <1>2, Moduli, ModAdd, t + q \in Int
    <2>2. (t + q) + n = t + (q + n)
      BY <1>2
    <2> QED
      BY <1>1, <2>1, <2>2
  <1>4. (h + n) % CursorMod \in Cursors
    BY <1>2, Wraps, h + n \in Int
  <1> QED
    BY <1>2, <1>3, <1>4, MinusIs DEF q

LEMMA MoveTail ==
  ASSUME NEW h \in Cursors, NEW t \in Cursors, NEW n \in Nat, n <= Minus(h, t)
  PROVE  /\ (t + n) % CursorMod \in Cursors
         /\ Minus(h, (t + n) % CursorMod) = Minus(h, t) - n
  <1> DEFINE q == Minus(h, t)
             u == (t + n) % CursorMod
  <1>1. q \in Cursors /\ (t + q) % CursorMod = h
    BY MinusLeads
  <1> HIDE DEF q
  <1>2. t \in Int /\ q \in Int /\ n \in Int /\ q - n \in Cursors /\ t + n \in Int
    BY <1>1, Moduli DEF Cursors, q
  <1>3. u \in Cursors
    BY <1>2, Wraps
  <1>4. h = (u + (q - n)) % CursorMod
    <2>1. (((t + n) % CursorMod) + (q - n)) % CursorMod = ((t + n) + (q - n)) % CursorMod
      BY <1>2, Moduli, ModAdd, q - n \in Int
    <2>2. (t + n) + (q - n) = t + q
      BY <1>2
    <2> QED
      BY <1>1, <2>1, <2>2
  <1> HIDE DEF u
  <1>5. Minus(h, u) = q - n
    BY <1>2, <1>3, <1>4, MinusIs
  <1> QED
    BY <1>3, <1>5 DEF q, u

(* The slot of a cursor that has wrapped.                                  *)
LEMMA SlotWrap ==
  ASSUME NEW x \in Int, NEW i \in Int
  PROVE  Slot((x % CursorMod) + i) = Slot(x + i)
  <1> DEFINE y == x % CursorMod
  <1>1. y \in Int /\ y % RingBytes = x % RingBytes
    <2>1. y \in Int
      BY Moduli, Wraps DEF Cursors
    <2>2. y % RingBytes = x % RingBytes
      BY Moduli, ModMod
    <2> QED
      BY <2>1, <2>2
  <1> HIDE DEF y
  <1>2. ((y % RingBytes) + i) % RingBytes = (y + i) % RingBytes
    BY <1>1, Moduli, ModAdd
  <1>3. ((x % RingBytes) + i) % RingBytes = (x + i) % RingBytes
    BY Moduli, ModAdd
  <1> QED
    BY <1>1, <1>2, <1>3 DEF Slot, y

(* The slots in front of the head are those behind the queued bytes.       *)
LEMMA SlotBehind ==
  ASSUME NEW h \in Cursors, NEW t \in Cursors, NEW i \in Int
  PROVE  Slot(h + i) = Slot(t + (Minus(h, t) + i))
  <1> DEFINE q == Minus(h, t)
  <1>1. q \in Cursors /\ (t + q) % CursorMod = h
    BY MinusLeads
  <1> HIDE DEF q
  <1>2. t + q \in Int /\ (t + q) + i = t + (q + i)
    BY <1>1, Moduli DEF Cursors
  <1>3. Slot(((t + q) % CursorMod) + i) = Slot((t + q) + i)
    BY <1>2, SlotWrap
  <1> QED
    BY <1>1, <1>2, <1>3 DEF q

(* Slots less than the ring apart differ.                                  *)
LEMMA SlotsApart ==
  ASSUME NEW x \in Int, NEW i \in Int, NEW j \in Int, i < j, j - i < RingBytes
  PROVE  Slot(x + i) # Slot(x + j)
  <1>1. x + i \in Int /\ x + j \in Int /\ x + i < x + j /\ (x + j) - (x + i) < RingBytes
    BY Moduli
  <1> QED
    BY <1>1, Moduli, ModApart DEF Slot

(* A slot is a slot of the ring.                                           *)
LEMMA SlotInRing ==
  ASSUME NEW x \in Int
  PROVE  Slot(x) \in 0..(RingBytes - 1)
  BY Moduli, IntDivMod DEF Slot

--------------------------------------------------------------------------------
(* The inductive invariant of the cursors.                                 *)

\* A number of bytes that is made of whole frames.
Whole(bytes) == \E frames \in Nat : bytes = frames * Stride

\* The render thread holds a region, the pump copies one.
Holding == wpc \in {"first", "second", "commit"}
Copying == dpc \in {"first", "second", "store"}

RingTypes ==
  /\ ring \in [0..(RingBytes - 1) -> Cursors]
  /\ head \in Cursors /\ tail \in Cursors /\ written \in Cursors
  /\ started \in BOOLEAN
  /\ w \in [frames : Nat, fits : BOOLEAN, head : Cursors, tail : Cursors]
  /\ dpc \in {"idle", "tail", "first", "second", "store"}
  /\ d \in [bytes : Nat, head : Cursors, tail : Cursors, dst : Seq(Cursors)]

\* Between two sessions nothing is drained, so the reset has the cursors to
\* itself; while it is under way the head is already zero.
SessionInv ==
  /\ ctl \in {"stopped", "starting", "resetting", "ready", "open"} => ~started
  /\ ctl \in {"stopped", "starting", "resetting", "ready", "open", "arming"} =>
       dpc = "idle"
  /\ ctl = "resetting" => head = 0

\* The queue fits the ring and holds whole frames.
QueueInv == ctl # "resetting" => Queued <= RingBytes /\ Whole(Queued)

\* A stale tail only makes the queue look longer than it is, so a region
\* that was admitted fits behind the bytes that are really queued.
WriterInv ==
  /\ wpc # "out" => w.frames \in Quanta
  /\ wpc = "admit" => /\ w.head = head
                      /\ Queued <= Minus(head, w.tail)
                      /\ Minus(head, w.tail) <= RingBytes
  /\ Holding => w.head = head /\ Queued + w.frames * Stride <= RingBytes

\* A stale head only makes the queue look shorter.
DrainInv ==
  /\ dpc = "tail" => /\ Minus(d.head, tail) <= Queued
                     /\ Whole(Minus(d.head, tail)) /\ Whole(d.bytes)
  /\ Copying => d.tail = tail /\ d.bytes > 0 /\ d.bytes <= Queued /\ Whole(d.bytes)

CursorInv == RingTypes /\ SessionInv /\ QueueInv /\ WriterInv /\ DrainInv

(* Whole frames.                                                           *)
LEMMA WholeFrames ==
  /\ \A f \in Nat : Whole(f * Stride)
  /\ \A b : Whole(b) => b \in Nat
  /\ Whole(0)
  <1>1. \A f \in Nat : Whole(f * Stride)
    BY DEF Whole
  <1>2. \A b : Whole(b) => b \in Nat
    BY Moduli DEF Whole
  <1>3. 0 = 0 * Stride
    BY Moduli
  <1> QED
    BY <1>1, <1>2, <1>3 DEF Whole

LEMMA WholeSum ==
  ASSUME NEW a, NEW b, Whole(a), Whole(b)
  PROVE  Whole(a + b) /\ (b <= a => Whole(a - b))
  <1>1. PICK f \in Nat : a = f * Stride
    BY DEF Whole
  <1>2. PICK g \in Nat : b = g * Stride
    BY DEF Whole
  <1>3. f * Stride + g * Stride = (f + g) * Stride
    BY Moduli
  <1>4. f * Stride - g * Stride = (f - g) * Stride
    BY Moduli
  <1>5. b <= a => f - g \in Nat
    <2> SUFFICES ASSUME f * Stride >= g * Stride, f < g PROVE FALSE
      BY <1>1, <1>2
    <2>1. (g - f) * Stride >= Stride
      BY Moduli
    <2>2. (g - f) * Stride = g * Stride - f * Stride
      BY Moduli
    <2>3. f * Stride \in Int /\ g * Stride \in Int
      BY Moduli
    <2> QED
      BY <2>1, <2>2, <2>3, Moduli
  <1> QED
    BY <1>1, <1>2, <1>3, <1>4, <1>5, f + g \in Nat DEF Whole

(* A quantum is a positive number of whole frames.                         *)
LEMMA QuantumBytes ==
  ASSUME CursorInv
  PROVE  w.frames \in Nat /\ w.frames * Stride \in Nat /\ Whole(w.frames * Stride)
  <1>1. w.frames \in Nat
    BY DEF CursorInv, RingTypes
  <1> QED
    BY <1>1, WholeFrames

(* The steps that leave the ring, the render thread and the pump alone.    *)
LEMMA ControlKeeps ==
  ASSUME CursorInv, UNCHANGED <<ringVars, writing, draining>>, SessionInv',
         started' \in BOOLEAN, ctl' # "resetting" => ctl # "resetting"
  PROVE  CursorInv'
  BY DEF CursorInv, RingTypes, QueueInv, WriterInv, DrainInv, Holding, Copying, Queued,
         ringVars, writing, draining

LEMMA ControlStep ==
  ASSUME GateInv, CursorInv,
         \/ \E call \in {"stop", "start"} : Stop(call)
         \/ WritersGone \/ DriverStopped \/ StartFails \/ OpenGate
         \/ StartPlayback \/ Arm \/ Filled \/ SubmitFails \/ RequestStop
  PROVE  CursorInv' /\ UNCHANGED <<ringVars, writing, draining>>
  <1>1. UNCHANGED <<ringVars, writing, draining>>
    BY DEF Stop, WritersGone, DriverStopped, StartFails, OpenGate, StartPlayback, Arm,
           Filled, SubmitFails, RequestStop
  <1>2. SessionInv' /\ started' \in BOOLEAN /\ (ctl' # "resetting" => ctl # "resetting")
    <2>0. SessionInv /\ started \in BOOLEAN /\ UNCHANGED <<head, dpc>>
      BY <1>1 DEF CursorInv, RingTypes, ringVars, draining
    <2> USE <2>0 DEF SessionInv
    <2>1. CASE \E call \in {"stop", "start"} : Stop(call)
      BY <2>1 DEF Stop, session
    <2>2. CASE WritersGone
      BY <2>2 DEF WritersGone
    <2>3. CASE DriverStopped
      BY <2>3 DEF DriverStopped
    <2>4. CASE StartFails
      BY <2>4 DEF StartFails
    <2>5. CASE OpenGate
      BY <2>5 DEF OpenGate, session
    <2>6. CASE StartPlayback
      BY <2>6 DEF StartPlayback
    <2>7. CASE Arm
      BY <2>7 DEF Arm
    <2>8. CASE Filled
      BY <2>8 DEF Filled, session
    <2>9. CASE SubmitFails
      BY <2>9 DEF SubmitFails
    <2>10. CASE RequestStop
      BY <2>10 DEF RequestStop, control
    <2> QED
      BY <2>1, <2>2, <2>3, <2>4, <2>5, <2>6, <2>7, <2>8, <2>9, <2>10
  <1> QED
    BY <1>1, <1>2, ControlKeeps

(* The reset of the cursors: nobody holds a region and nothing is drained. *)
LEMMA ResetStep ==
  ASSUME GateInv, CursorInv, ResetHead \/ ResetTail
  PROVE  CursorInv'
  <1>1. /\ UNCHANGED <<ring, writing, draining>> /\ ctl \in {"starting", "resetting"}
        /\ head' = 0 /\ tail' \in Cursors /\ written' \in Cursors /\ started' \in BOOLEAN
    BY Moduli DEF ResetHead, ResetTail, CursorInv, RingTypes, SessionInv, session
  <1>2. dpc = "idle" /\ ~started /\ wpc \notin {"admit", "first", "second", "commit"}
    BY <1>1 DEF CursorInv, SessionInv, GateInv, StopExcludesWriters
  <1>3. RingTypes'
    BY <1>1, Moduli DEF CursorInv, RingTypes, writing, draining
  <1>4. SessionInv'
    BY <1>1, <1>2 DEF ResetHead, ResetTail, SessionInv, draining, session
  <1>5. QueueInv'
    <2>1. CASE ResetHead
      BY <2>1 DEF ResetHead, QueueInv
    <2>2. CASE ResetTail
      <3>1. head' = 0 /\ tail' = 0 /\ Minus(0, 0) = 0
        BY <1>1, <2>2, Moduli DEF ResetTail, Minus
      <3> QED
        BY <3>1, Moduli, WholeFrames DEF QueueInv, Queued
    <2> QED
      BY <2>1, <2>2
  <1>6. WriterInv' /\ DrainInv'
    BY <1>1, <1>2 DEF CursorInv, WriterInv, DrainInv, Holding, Copying, writing, draining
  <1> QED
    BY <1>3, <1>4, <1>5, <1>6 DEF CursorInv

(* The queue is a number of bytes.                                         *)
LEMMA QueuedType ==
  ASSUME CursorInv
  PROVE  Queued \in Cursors /\ Queued \in Nat
  <1>1. Queued \in Cursors
    BY MinusLeads DEF CursorInv, RingTypes, Queued
  <1> QED
    BY <1>1, Moduli DEF Cursors

(* The queue while the render thread may hold a region.                    *)
LEMMA QueueWhileWriting ==
  ASSUME GateInv, CursorInv, wpc \in {"load", "admit", "first", "second", "commit"}
  PROVE  ctl # "resetting" /\ Queued \in Cursors /\ Queued <= RingBytes /\ Whole(Queued)
  BY MinusLeads DEF GateInv, StopExcludesWriters, CursorInv, QueueInv, RingTypes, Queued

(* What admission promises: the region fits between the cursors it read.   *)
LEMMA RoomFits ==
  ASSUME NEW h \in Cursors, NEW t \in Cursors, NEW n \in Nat,
         started \in BOOLEAN, Minus(h, t) <= RingBytes, Room(h, t) >= n
  PROVE  Minus(h, t) + n * Stride <= RingBytes
  <1> DEFINE m == Minus(h, t)
             p == (RingBytes - m) \div Stride
  <1>1. m \in Nat /\ m <= RingBytes
    BY Moduli, MinusLeads DEF Cursors
  <1>2. Minus(RingBytes, m) = RingBytes - m
    <2> HIDE DEF m
    <2>1. RingBytes - m \in 0..(CursorMod - 1)
      BY <1>1, Moduli
    <2> QED
      BY <2>1, Moduli DEF Minus
  <1>3. m \div Stride \in Int /\ FrameLimit \in Int
    <2>1. m \div Stride \in Int
      BY <1>1, Moduli, IntDivMod
    <2> QED
      BY <2>1, RingAssumption DEF FrameLimit, RingAssumption
  <1>4. p \in Int /\ p * Stride <= RingBytes - m
    <2> HIDE DEF m
    <2>1. RingBytes - m \in Int
      BY <1>1, Moduli
    <2>2. p \in Int /\ RingBytes - m = Stride * p + ((RingBytes - m) % Stride)
          /\ (RingBytes - m) % Stride \in 0..(Stride - 1)
      BY <2>1, Moduli, IntDivMod
    <2> HIDE DEF p
    <2>3. Stride * p = p * Stride
      BY <2>2, Moduli
    <2> QED
      BY <2>1, <2>2, <2>3, Moduli
  <1>5. n <= p
    <2> DEFINE logical == IF m \div Stride < FrameLimit THEN FrameLimit - m \div Stride ELSE 0
    <2>1. Room(h, t) = Lesser(p, logical)
      BY <1>2 DEF Room
    <2>2. logical \in Int
      BY <1>3
    <2> HIDE DEF p, logical
    <2> QED
      BY <1>4, <2>1, <2>2 DEF Lesser
  <1>6. n * Stride <= p * Stride
    <2> HIDE DEF p
    <2> QED
      BY <1>4, <1>5, Moduli
  <1> HIDE DEF m, p
  <1>7. n * Stride \in Int /\ p * Stride \in Int
    BY <1>4, Moduli
  <1>8. m + n * Stride <= RingBytes
    BY <1>1, <1>4, <1>6, <1>7, Moduli
  <1> QED
    BY <1>8 DEF m

(* A step of the render thread that leaves the cursors alone.              *)
LEMMA WriterKeeps ==
  ASSUME CursorInv, UNCHANGED <<head, tail, written, started, ctl, dpc, d>>,
         ring' \in [0..(RingBytes - 1) -> Cursors],
         w' \in [frames : Nat, fits : BOOLEAN, head : Cursors, tail : Cursors],
         WriterInv'
  PROVE  CursorInv'
  BY DEF CursorInv, RingTypes, SessionInv, QueueInv, DrainInv, Copying, Queued

(* The render thread up to the admission of its region.                    *)
LEMMA AdmissionStep ==
  ASSUME GateInv, CursorInv,
         \/ \E frames \in Quanta : Submit(frames)
         \/ Enter \/ ReadRoom \/ Recheck \/ LoadCursors \/ Admit \/ Leave
  PROVE  CursorInv' /\ UNCHANGED <<ringVars, draining, ctl>>
  <1>1. UNCHANGED <<ringVars, draining, started, ctl>>
    BY DEF Submit, Enter, ReadRoom, Recheck, LoadCursors, Admit, Leave, session, control
  <1> SUFFICES CursorInv'
    BY <1>1
  <1>2. /\ w \in [frames : Nat, fits : BOOLEAN, head : Cursors, tail : Cursors]
        /\ head \in Cursors /\ tail \in Cursors
        /\ ring' \in [0..(RingBytes - 1) -> Cursors]
        /\ UNCHANGED <<head, tail, written, started, ctl, dpc, d>>
    BY <1>1 DEF CursorInv, RingTypes, ringVars, draining
  <1>3. WriterInv
    BY DEF CursorInv
  <1>4. ASSUME NEW frames \in Quanta, Submit(frames)
        PROVE  CursorInv'
    <2>1. frames \in Nat
      BY RingAssumption DEF RingAssumption
    <2>2. wpc' = "enter" /\ w' = [w EXCEPT !.frames = frames]
      BY <1>4 DEF Submit
    <2>3. w' \in [frames : Nat, fits : BOOLEAN, head : Cursors, tail : Cursors]
          /\ w'.frames = frames
      BY <1>2, <2>1, <2>2
    <2>4. WriterInv'
      BY <2>2, <2>3 DEF WriterInv, Holding
    <2> QED
      BY <1>2, <2>3, <2>4, WriterKeeps
  <1>5. CASE Enter \/ Recheck
    <2>1. UNCHANGED w /\ wpc # "out" /\ wpc' \in {"room", "load", "leave"}
      BY <1>5 DEF Enter, Recheck
    <2>2. WriterInv'
      BY <1>3, <2>1 DEF WriterInv, Holding
    <2> QED
      BY <1>2, <2>1, <2>2, WriterKeeps
  <1>6. CASE ReadRoom
    <2>1. wpc # "out" /\ wpc' = "recheck"
      BY <1>6 DEF ReadRoom
    <2>0. PICK fits \in BOOLEAN : w' = [w EXCEPT !.fits = fits]
      <3> DEFINE enough == Room(head, tail) >= w.frames
      <3>1. w' = [w EXCEPT !.fits = enough]
        BY <1>6, Zenon DEF ReadRoom
      <3>2. enough \in BOOLEAN
        OBVIOUS
      <3> HIDE DEF enough
      <3> QED
        BY <3>1, <3>2, Zenon
    <2>2. w' \in [frames : Nat, fits : BOOLEAN, head : Cursors, tail : Cursors]
          /\ w'.frames = w.frames
      BY <1>2, <2>0
    <2>3. WriterInv'
      BY <1>3, <2>1, <2>2 DEF WriterInv, Holding
    <2> QED
      BY <1>2, <2>2, <2>3, WriterKeeps
  <1>7. CASE LoadCursors
    <2>1. wpc = "load" /\ wpc' = "admit" /\ w' = [w EXCEPT !.head = head, !.tail = tail]
      BY <1>7 DEF LoadCursors
    <2>2. /\ w' \in [frames : Nat, fits : BOOLEAN, head : Cursors, tail : Cursors]
          /\ w'.frames = w.frames /\ w'.head = head /\ w'.tail = tail
      BY <1>2, <2>1
    <2>3. Queued \in Int /\ Queued <= RingBytes
      BY <2>1, QueueWhileWriting, Moduli DEF Cursors
    <2>4. WriterInv'
      BY <1>2, <1>3, <2>1, <2>2, <2>3 DEF WriterInv, Holding, Queued
    <2> QED
      BY <1>2, <2>2, <2>4, WriterKeeps
  <1>8. CASE Admit
    <2>1. /\ wpc = "admit" /\ UNCHANGED w /\ wpc' \in {"first", "leave"}
          /\ wpc' = "first" => Room(w.head, w.tail) >= w.frames
      BY <1>8 DEF Admit
    <2>2. /\ w.head = head /\ Queued <= Minus(head, w.tail)
          /\ Minus(head, w.tail) <= RingBytes /\ w.frames \in Quanta
      BY <1>3, <2>1 DEF WriterInv
    <2>3. w.frames \in Nat /\ w.tail \in Cursors /\ started \in BOOLEAN
      BY <1>2 DEF CursorInv, RingTypes
    <2>4. wpc' = "first" => Minus(head, w.tail) + w.frames * Stride <= RingBytes
      BY <1>2, <2>1, <2>2, <2>3, RoomFits
    <2>5. Queued \in Int /\ Minus(head, w.tail) \in Int /\ w.frames * Stride \in Int
      <3>1. Queued \in Cursors /\ Minus(head, w.tail) \in Cursors
        BY <1>2, <2>3, MinusLeads DEF Queued
      <3> QED
        BY <2>3, <3>1, Moduli DEF Cursors
    <2>6. wpc' = "first" => Queued + w.frames * Stride <= RingBytes
      BY <2>2, <2>4, <2>5, Moduli
    <2>7. WriterInv'
      BY <1>2, <2>1, <2>2, <2>6 DEF WriterInv, Holding, Queued
    <2> QED
      BY <1>2, <2>1, <2>7, WriterKeeps
  <1>9. CASE Leave
    <2>1. wpc' = "out" /\ w' = [frames |-> 0, fits |-> FALSE, head |-> 0, tail |-> 0]
      BY <1>9 DEF Leave
    <2>2. w' \in [frames : Nat, fits : BOOLEAN, head : Cursors, tail : Cursors]
      BY <2>1, Moduli
    <2>3. WriterInv'
      BY <2>1 DEF WriterInv, Holding
    <2> QED
      BY <1>2, <2>2, <2>3, WriterKeeps
  <1> QED
    BY <1>1, <1>4, <1>5, <1>6, <1>7, <1>8, <1>9

(* Packing writes cursors' worth of numbers and moves no cursor.           *)
LEMMA PackTypes ==
  ASSUME CursorInv, NEW from, NEW to, PackRun(from, to)
  PROVE  ring' \in [0..(RingBytes - 1) -> Cursors]
  <1>1. ring \in [0..(RingBytes - 1) -> Cursors] /\ written \in Int /\ w.head \in Int
    BY Moduli DEF CursorInv, RingTypes, Cursors
  <1>2. \A slot \in 0..(RingBytes - 1) :
          (written + ((slot - w.head) % RingBytes)) % CursorMod \in Cursors
    <2> SUFFICES ASSUME NEW slot \in 0..(RingBytes - 1)
                 PROVE  (written + ((slot - w.head) % RingBytes)) % CursorMod \in Cursors
      OBVIOUS
    <2>1. slot - w.head \in Int
      BY <1>1, Moduli
    <2>2. (slot - w.head) % RingBytes \in Int
      BY <2>1, IntDivMod, Moduli
    <2> QED
      BY <1>1, <2>2, Wraps, written + ((slot - w.head) % RingBytes) \in Int
  <1> QED
    BY <1>1, <1>2 DEF PackRun

LEMMA PackStep ==
  ASSUME GateInv, CursorInv, PackFirst \/ PackSecond
  PROVE  CursorInv' /\ UNCHANGED <<head, tail, written, w, draining, ctl>>
  <1>1. /\ UNCHANGED <<head, tail, written, started, ctl, w, draining>>
        /\ wpc \in {"first", "second"} /\ wpc' \in {"second", "commit"}
    BY DEF PackFirst, PackSecond, session, control
  <1>2. ring' \in [0..(RingBytes - 1) -> Cursors]
    BY PackTypes DEF PackFirst, PackSecond
  <1>3. WriterInv' /\ UNCHANGED <<dpc, d>>
    BY <1>1 DEF CursorInv, WriterInv, Holding, Queued, draining
  <1>4. w' \in [frames : Nat, fits : BOOLEAN, head : Cursors, tail : Cursors]
    BY <1>1 DEF CursorInv, RingTypes
  <1> QED
    BY <1>1, <1>2, <1>3, <1>4, WriterKeeps

(* Publishing the region lengthens the queue by it.                        *)
LEMMA CommitMoves ==
  ASSUME GateInv, CursorInv, Commit
  PROVE  /\ Queued' = Queued + w.frames * Stride
         /\ Queued' <= RingBytes /\ Queued \in Nat
         /\ w.frames \in Quanta /\ w.frames * Stride \in Nat
         /\ head' \in Cursors /\ written' = (written + w.frames * Stride) % CursorMod
         /\ ctl # "resetting"
         /\ UNCHANGED <<ring, tail, w, started, ctl, dpc, d>>
  <1>1. /\ wpc = "commit" /\ head' = (w.head + w.frames * Stride) % CursorMod
        /\ written' = (written + w.frames * Stride) % CursorMod
        /\ UNCHANGED <<ring, tail, w, started, ctl, dpc, d>>
    BY DEF Commit, session, control, draining
  <1>2. /\ w.head = head /\ Queued + w.frames * Stride <= RingBytes
        /\ w.frames \in Quanta
    BY <1>1 DEF CursorInv, WriterInv, Holding
  <1>3. w.frames * Stride \in Nat
    BY QuantumBytes
  <1>4. ctl # "resetting" /\ Queued \in Nat
    BY <1>1, QueueWhileWriting, Moduli DEF Cursors
  <1>5. head \in Cursors /\ tail \in Cursors
    BY DEF CursorInv, RingTypes
  <1>6. Queued + w.frames * Stride < CursorMod
    BY <1>2, <1>3, <1>4, Moduli
  <1>7. head' \in Cursors /\ Queued' = Queued + w.frames * Stride
    BY <1>1, <1>2, <1>3, <1>5, <1>6, MoveHead DEF Queued
  <1> QED
    BY <1>1, <1>2, <1>3, <1>4, <1>7

LEMMA CommitStep ==
  ASSUME GateInv, CursorInv, Commit
  PROVE  CursorInv'
  <1>1. wpc' = "leave" /\ wpc = "commit"
    BY DEF Commit
  <1>2. written' \in Cursors
    <2>1. written + w.frames * Stride \in Int
      BY CommitMoves, Moduli DEF CursorInv, RingTypes, Cursors
    <2> QED
      BY <2>1, CommitMoves, Wraps
  <1>3. RingTypes'
    BY <1>2, CommitMoves DEF CursorInv, RingTypes
  <1>4. SessionInv'
    BY CommitMoves DEF CursorInv, SessionInv
  <1>5. Whole(Queued) /\ Whole(w.frames * Stride)
    BY <1>1, QueueWhileWriting, QuantumBytes
  <1>6. QueueInv'
    BY <1>5, CommitMoves, WholeSum DEF QueueInv
  <1>7. WriterInv'
    BY <1>1, CommitMoves DEF WriterInv, Holding
  <1>8. Queued <= Queued'
    BY CommitMoves
  <1>9. DrainInv'
    <2>1. dpc = "tail" => Minus(d.head, tail) \in Int
      BY MinusLeads, Moduli DEF CursorInv, RingTypes, Cursors
    <2>2. d.bytes \in Nat /\ Queued' \in Nat /\ Queued \in Nat
      BY CommitMoves DEF CursorInv, RingTypes
    <2>3. dpc = "tail" => Minus(d.head, tail) <= Queued'
      BY <1>8, <2>1, <2>2 DEF CursorInv, DrainInv
    <2>4. Copying => d.bytes <= Queued'
      BY <1>8, <2>2 DEF CursorInv, DrainInv
    <2> QED
      BY <2>3, <2>4, CommitMoves DEF CursorInv, DrainInv, Copying
  <1> QED
    BY <1>3, <1>4, <1>6, <1>7, <1>9 DEF CursorInv

(* A region is cut in two at the end of the ring.                          *)
LEMMA FirstPartBound ==
  ASSUME NEW c \in Cursors, NEW bytes \in Nat
  PROVE  FirstPart(c, bytes) \in Nat /\ FirstPart(c, bytes) <= bytes
  <1>1. Slot(c) \in 0..(RingBytes - 1)
    BY SlotInRing, Moduli DEF Cursors
  <1> QED
    BY <1>1, Moduli DEF FirstPart, Lesser

(* n bytes from a cursor are a sequence of numbers.                        *)
LEMMA RunIsSeq ==
  ASSUME CursorInv, NEW c \in Int, NEW n \in Nat
  PROVE  [i \in 1..n |-> ring[Slot(c + i - 1)]] \in Seq(Cursors)
  <1>1. \A i \in 1..n : Slot(c + i - 1) \in 0..(RingBytes - 1)
    BY SlotInRing
  <1>2. \A i \in 1..n : ring[Slot(c + i - 1)] \in Cursors
    BY <1>1 DEF CursorInv, RingTypes
  <1> QED
    BY <1>2

(* A step of the pump that leaves the cursors alone.                       *)
LEMMA DrainKeeps ==
  ASSUME CursorInv, UNCHANGED <<ringVars, started, ctl, wpc, w>>,
         dpc' \in {"idle", "tail", "first", "second", "store"},
         dpc' # "idle" => dpc # "idle" \/ (started /\ ctl # "arming"),
         d' \in [bytes : Nat, head : Cursors, tail : Cursors, dst : Seq(Cursors)],
         DrainInv'
  PROVE  CursorInv'
  BY DEF CursorInv, RingTypes, SessionInv, QueueInv, WriterInv, Holding, Queued, ringVars

(* The pump up to the store of its cursor.                                 *)
LEMMA DrainStep ==
  ASSUME GateInv, CursorInv,
         \/ \E frames \in Packets : Drain(frames)
         \/ LoadTail \/ CopyFirst \/ CopySecond
  PROVE  CursorInv' /\ UNCHANGED <<ringVars, writing, ctl>>
  <1>1. UNCHANGED <<ringVars, started, ctl, writing>>
    BY DEF Drain, LoadTail, CopyFirst, CopySecond, session, control
  <1> SUFFICES CursorInv'
    BY <1>1
  <1>2. /\ d \in [bytes : Nat, head : Cursors, tail : Cursors, dst : Seq(Cursors)]
        /\ head \in Cursors /\ tail \in Cursors
        /\ UNCHANGED <<ringVars, started, ctl, wpc, w>>
        /\ UNCHANGED <<head, tail>>
    BY <1>1 DEF CursorInv, RingTypes, ringVars, writing
  <1>3. DrainInv
    BY DEF CursorInv
  <1>4. Queued \in Nat
    BY QueuedType
  <1>5. ASSUME NEW frames \in Packets, Drain(frames)
        PROVE  CursorInv'
    <2>1. /\ dpc = "idle" /\ started /\ ctl # "arming" /\ dpc' = "tail"
          /\ d' = [d EXCEPT !.head = head, !.bytes = frames * Stride]
      BY <1>5 DEF Drain
    <2>2. frames \in Nat
      BY RingAssumption DEF RingAssumption
    <2>3. frames * Stride \in Nat /\ Whole(frames * Stride)
      BY <2>2, WholeFrames
    <2>4. /\ d' \in [bytes : Nat, head : Cursors, tail : Cursors, dst : Seq(Cursors)]
          /\ d'.head = head /\ d'.bytes = frames * Stride
      BY <1>2, <2>1, <2>3
    <2>5. Whole(Queued)
      BY <2>1 DEF CursorInv, SessionInv, QueueInv
    <2>6. DrainInv'
      BY <1>2, <1>4, <2>1, <2>3, <2>4, <2>5 DEF DrainInv, Copying, Queued
    <2> QED
      BY <1>2, <2>1, <2>4, <2>6, DrainKeeps
  <1>6. CASE LoadTail
    <2> DEFINE n == Lesser(Minus(d.head, tail), d.bytes)
    <2>1. /\ dpc = "tail" /\ d' = [d EXCEPT !.tail = tail, !.bytes = n]
          /\ dpc' = IF n > 0 THEN "first" ELSE "idle"
      BY <1>6 DEF LoadTail
    <2>2. /\ Minus(d.head, tail) <= Queued
          /\ Whole(Minus(d.head, tail)) /\ Whole(d.bytes)
      BY <1>3, <2>1 DEF DrainInv
    <2>3. Minus(d.head, tail) \in Nat /\ d.bytes \in Nat
      BY <2>2, WholeFrames
    <2>4. Whole(n) /\ n \in Nat /\ n <= Queued
      BY <1>4, <2>2, <2>3 DEF Lesser
    <2> HIDE DEF n
    <2>5. /\ d' \in [bytes : Nat, head : Cursors, tail : Cursors, dst : Seq(Cursors)]
          /\ d'.tail = tail /\ d'.bytes = n
      BY <1>2, <2>1, <2>4
    <2>6. DrainInv'
      BY <1>2, <2>1, <2>4, <2>5 DEF DrainInv, Copying, Queued
    <2> QED
      BY <1>2, <2>1, <2>5, <2>6, DrainKeeps
  <1>7. CASE CopyFirst \/ CopySecond
    <2> DEFINE m == FirstPart(d.tail, d.bytes)
    <2>1. m \in Nat /\ m <= d.bytes /\ d.bytes \in Nat /\ d.tail \in Int /\ 0 \in Nat
      BY <1>2, FirstPartBound, Moduli DEF Cursors
    <2>2. PICK run \in Seq(Cursors) : d' = [d EXCEPT !.dst = @ \o run]
      <3> DEFINE from == IF dpc = "first" THEN 0 ELSE m
                 to == IF dpc = "first" THEN m ELSE d.bytes
                 c == d.tail + from
      <3>1. from \in Nat /\ to - from \in Nat /\ c \in Int
        BY <1>7, <2>1 DEF CopyFirst, CopySecond
      <3>2. d' = [d EXCEPT !.dst = @ \o [i \in 1..(to - from) |->
                                            ring[Slot(d.tail + from + i - 1)]]]
        BY <1>7 DEF CopyFirst, CopySecond, CopyRun
      <3>3. [i \in 1..(to - from) |-> ring[Slot(c + i - 1)]] \in Seq(Cursors)
        BY <3>1, RunIsSeq
      <3> QED
        BY <3>2, <3>3
    <2>3. /\ d' \in [bytes : Nat, head : Cursors, tail : Cursors, dst : Seq(Cursors)]
          /\ d'.tail = d.tail /\ d'.bytes = d.bytes
      <3>1. d.dst \o run \in Seq(Cursors)
        BY <1>2, ConcatProperties
      <3> QED
        BY <1>2, <2>2, <3>1
    <2>4. dpc \in {"first", "second"} /\ dpc' \in {"second", "store"}
      BY <1>7 DEF CopyFirst, CopySecond
    <2>5. DrainInv'
      BY <1>2, <1>3, <2>3, <2>4 DEF DrainInv, Copying, Queued
    <2> QED
      BY <1>2, <2>3, <2>4, <2>5, DrainKeeps
  <1> QED
    BY <1>5, <1>6, <1>7

(* The slots go back to the producer: the queue is shorter by the packet.  *)
LEMMA StoreMoves ==
  ASSUME GateInv, CursorInv, StoreTail
  PROVE  /\ d.tail = tail /\ d.bytes \in Nat /\ d.bytes > 0 /\ d.bytes <= Queued
         /\ Whole(d.bytes) /\ Whole(Queued) /\ ctl # "resetting"
         /\ tail' = (tail + d.bytes) % CursorMod /\ tail' \in Cursors
         /\ Queued' = Queued - d.bytes
         /\ UNCHANGED <<ring, head, written, started, ctl, wpc, w>>
  <1>1. /\ dpc = "store" /\ tail' = (d.tail + d.bytes) % CursorMod
        /\ UNCHANGED <<ring, head, written, started, ctl, wpc, w>>
    BY DEF StoreTail, session, control, writing
  <1>2. /\ d.tail = tail /\ d.bytes > 0 /\ d.bytes <= Queued /\ Whole(d.bytes)
        /\ d.bytes \in Nat /\ head \in Cursors /\ tail \in Cursors
    BY <1>1 DEF CursorInv, RingTypes, DrainInv, Copying
  <1>3. ctl # "resetting" /\ Whole(Queued)
    BY <1>1 DEF CursorInv, SessionInv, QueueInv
  <1>4. tail' \in Cursors /\ Queued' = Queued - d.bytes
    BY <1>1, <1>2, MoveTail DEF Queued
  <1> QED
    BY <1>1, <1>2, <1>3, <1>4

LEMMA StoreStep ==
  ASSUME GateInv, CursorInv, StoreTail
  PROVE  CursorInv'
  <1>1. dpc' = "idle" /\ d' = [bytes |-> 0, head |-> 0, tail |-> 0, dst |-> <<>>]
    BY DEF StoreTail
  <1>2. RingTypes'
    BY <1>1, StoreMoves, Moduli DEF CursorInv, RingTypes
  <1>3. SessionInv' /\ DrainInv'
    BY <1>1, StoreMoves DEF CursorInv, SessionInv, DrainInv, Copying
  <1>4. Queued' <= Queued /\ Queued' \in Nat /\ Queued \in Nat
    BY StoreMoves, QueuedType
  <1>5. QueueInv'
    BY <1>4, StoreMoves, WholeSum, Moduli DEF CursorInv, QueueInv
  <1>6. WriterInv'
    <2>1. w.frames * Stride \in Nat
      BY QuantumBytes
    <2>2. wpc = "admit" => Minus(head, w.tail) \in Int
      BY MinusLeads, Moduli DEF CursorInv, RingTypes, Cursors
    <2>3. wpc = "admit" => Queued' <= Minus(head, w.tail)
      BY <1>4, <2>2 DEF CursorInv, WriterInv
    <2>4. Holding => Queued' + w.frames * Stride <= RingBytes
      BY <1>4, <2>1, Moduli DEF CursorInv, WriterInv
    <2> QED
      BY <2>3, <2>4, StoreMoves DEF CursorInv, WriterInv, Holding
  <1> QED
    BY <1>2, <1>3, <1>5, <1>6 DEF CursorInv

LEMMA CursorInit == Init => CursorInv
  <1> SUFFICES ASSUME Init PROVE CursorInv
    OBVIOUS
  <1>1. RingTypes
    <2>1. ring \in [0..(RingBytes - 1) -> Cursors]
      BY Moduli DEF Init
    <2>2. w \in [frames : Nat, fits : BOOLEAN, head : Cursors, tail : Cursors]
      BY Moduli DEF Init
    <2>3. d \in [bytes : Nat, head : Cursors, tail : Cursors, dst : Seq(Cursors)]
      BY Moduli DEF Init
    <2>4. /\ head \in Cursors /\ tail \in Cursors /\ written \in Cursors
          /\ started \in BOOLEAN /\ dpc = "idle"
      BY Moduli DEF Init
    <2> QED
      BY <2>1, <2>2, <2>3, <2>4 DEF RingTypes
  <1>2. SessionInv /\ WriterInv /\ DrainInv
    BY DEF Init, SessionInv, WriterInv, DrainInv, Holding, Copying
  <1>3. Minus(0, 0) = 0
    BY Moduli DEF Minus
  <1>4. QueueInv
    BY <1>3, Moduli, WholeFrames DEF Init, QueueInv, Queued
  <1> QED
    BY <1>1, <1>2, <1>4 DEF CursorInv

LEMMA CursorStep == GateInv /\ CursorInv /\ [Next]_vars => CursorInv'
  <1> SUFFICES ASSUME GateInv, CursorInv, [Next]_vars PROVE CursorInv'
    OBVIOUS
  <1>1. CASE \E frames \in Quanta : Submit(frames)
    BY <1>1, AdmissionStep
  <1>2. CASE Writer
    BY <1>2, AdmissionStep, PackStep, CommitStep DEF Writer
  <1>3. CASE \E frames \in Packets : Drain(frames)
    BY <1>3, DrainStep
  <1>4. CASE Pump
    BY <1>4, DrainStep, StoreStep DEF Pump
  <1>5. CASE \E call \in {"stop", "start"} : Stop(call)
    BY <1>5, ControlStep
  <1>6. CASE Control
    BY <1>6, ControlStep, ResetStep DEF Control
  <1>7. CASE RequestStop
    BY <1>7, ControlStep
  <1>8. CASE UNCHANGED vars
    BY <1>8 DEF vars, CursorInv, RingTypes, SessionInv, QueueInv, WriterInv, DrainInv,
                Holding, Copying, Queued, ringVars, session, control, writing, draining
  <1> QED
    BY <1>1, <1>2, <1>3, <1>4, <1>5, <1>6, <1>7, <1>8 DEF Next

(* The slots being packed are never the slots being copied, although each  *)
(* side works from a cursor of the other that may be stale.                *)
THEOREM RegionsApart == Spec => []RegionsDisjoint
  <1>1. CursorInv => RegionsDisjoint
    <2> SUFFICES ASSUME CursorInv, Holding, Copying,
                        NEW i \in 0..(w.frames * Stride - 1), NEW j \in 0..(d.bytes - 1)
                 PROVE  Slot(w.head + i) # Slot(d.tail + j)
      BY DEF RegionsDisjoint, Region, Holding, Copying
    <2>1. /\ w.head = head /\ Queued + w.frames * Stride <= RingBytes
          /\ d.tail = tail /\ d.bytes <= Queued
          /\ head \in Cursors /\ tail \in Cursors /\ d.bytes \in Nat
      BY DEF CursorInv, RingTypes, WriterInv, DrainInv
    <2>2. w.frames * Stride \in Nat /\ Queued \in Nat
      BY QuantumBytes, QueuedType
    <2>3. i \in Int /\ j \in Int /\ tail \in Int /\ Queued + i \in Int
      BY <2>1, <2>2, Moduli DEF Cursors
    <2>4. j < Queued + i /\ (Queued + i) - j < RingBytes
      BY <2>1, <2>2, Moduli
    <2>5. Slot(head + i) = Slot(tail + (Queued + i))
      BY <2>1, <2>3, SlotBehind DEF Queued
    <2>6. Slot(tail + j) # Slot(tail + (Queued + i))
      BY <2>3, <2>4, SlotsApart
    <2> QED
      BY <2>1, <2>5, <2>6
  <1> QED
    BY GateInit, GateStep, CursorInit, CursorStep, <1>1, PTL DEF Spec

--------------------------------------------------------------------------------
(* The contents of the ring.                                               *)

\* n bytes from a cursor.
Run(cursor, n) == [i \in 1..n |-> ring[Slot(cursor + i - 1)]]

\* The first n bytes of the region the render thread holds are in place.
Packed(n) == \A k \in 0..(n - 1) : ring[Slot(head + k)] = (written + k) % CursorMod

(* What has been packed and copied so far.  It stays so: the region that   *)
(* is packed is clear of the queue, and the copied bytes are still in it.  *)
PackedInv ==
  /\ wpc = "second" => Packed(FirstPart(w.head, w.frames * Stride))
  /\ wpc = "commit" => Packed(w.frames * Stride)

CopiedInv ==
  /\ dpc \in {"idle", "tail", "first"} => d.dst = <<>>
  /\ dpc = "second" => d.dst = Run(tail, FirstPart(d.tail, d.bytes))
  /\ dpc = "store" => d.dst = Run(tail, d.bytes)

ContentInv == PackedInv /\ CopiedInv

(* A run is a sequence of that length.                                     *)
LEMMA RunLength ==
  ASSUME CursorInv, NEW c \in Int, NEW n \in Nat
  PROVE  /\ Run(c, n) \in Seq(Cursors) /\ Len(Run(c, n)) = n
         /\ \A i \in 1..n : Run(c, n)[i] = ring[Slot(c + i - 1)]
  <1>1. Run(c, n) \in Seq(Cursors)
    BY RunIsSeq DEF Run
  <1>2. Len(Run(c, n)) = n
    BY DEF Run
  <1> QED
    BY <1>1, <1>2 DEF Run

(* Two runs, one behind the other, are one.                                *)
LEMMA RunSplit ==
  ASSUME CursorInv, NEW c \in Int, NEW m \in Nat, NEW n \in Nat
  PROVE  Run(c, m) \o Run(c + m, n) = Run(c, m + n)
  <1> DEFINE a == Run(c, m)
             b == Run(c + m, n)
             r == Run(c, m + n)
  <1>1. /\ a \in Seq(Cursors) /\ Len(a) = m
        /\ \A i \in 1..m : a[i] = ring[Slot(c + i - 1)]
    BY RunLength
  <1>2. /\ b \in Seq(Cursors) /\ Len(b) = n
        /\ \A i \in 1..n : b[i] = ring[Slot((c + m) + i - 1)]
    BY RunLength, c + m \in Int
  <1>3. /\ r \in Seq(Cursors) /\ Len(r) = m + n
        /\ \A i \in 1..(m + n) : r[i] = ring[Slot(c + i - 1)]
    BY RunLength, m + n \in Nat
  <1> HIDE DEF a, b, r
  <1>4. a \o b \in Seq(Cursors) /\ Len(a \o b) = m + n
    BY <1>1, <1>2, ConcatProperties
  <1>5. ASSUME NEW i \in 1..(m + n) PROVE (a \o b)[i] = r[i]
    <2>1. (a \o b)[i] = IF i <= m THEN a[i] ELSE b[i - m]
      BY <1>1, <1>2, ConcatProperties
    <2>2. CASE i <= m
      <3>1. i \in 1..m
        BY <2>2
      <3>2. a[i] = ring[Slot(c + i - 1)] /\ r[i] = ring[Slot(c + i - 1)]
        BY <1>1, <1>3, <3>1
      <3> QED
        BY <2>1, <2>2, <3>2
    <2>3. CASE i > m
      <3>1. i - m \in 1..n /\ (c + m) + (i - m) - 1 = c + i - 1
        BY <2>3
      <3>2. b[i - m] = ring[Slot((c + m) + (i - m) - 1)]
        BY <1>2, <3>1
      <3>3. r[i] = ring[Slot(c + i - 1)]
        BY <1>3
      <3>4. ~(i <= m)
        BY <2>3
      <3>5. (a \o b)[i] = b[i - m]
        BY <2>1, <3>4
      <3>6. b[i - m] = ring[Slot(c + i - 1)]
        BY <3>1, <3>2
      <3> QED
        BY <3>3, <3>5, <3>6
    <2>4. i <= m \/ i > m
      OBVIOUS
    <2> QED
      BY <2>2, <2>3, <2>4
  <1>6. a \o b = r
    BY <1>3, <1>4, <1>5, SeqEqual
  <1> QED
    BY <1>6 DEF a, b, r

(* Packing a part of the held region writes that part and nothing else of  *)
(* the ring.                                                               *)
LEMMA PackWrites ==
  ASSUME CursorInv, w.head = head, NEW from \in Nat, NEW to \in Nat, PackRun(from, to),
         NEW k \in 0..(RingBytes - 1)
  PROVE  ring'[Slot(head + k)] = IF from <= k /\ k < to THEN (written + k) % CursorMod
                                                       ELSE ring[Slot(head + k)]
  <1> DEFINE slot == Slot(head + k)
  <1>1. head \in Int /\ k \in Int /\ -head \in Int /\ head + k \in Int
    BY Moduli DEF CursorInv, RingTypes, Cursors
  <1>2. slot \in 0..(RingBytes - 1) /\ DOMAIN ring = 0..(RingBytes - 1)
    BY <1>1, SlotInRing DEF CursorInv, RingTypes
  <1>3. (slot - head) % RingBytes = k
    <2>1. (((head + k) % RingBytes) + (-head)) % RingBytes
             = ((head + k) + (-head)) % RingBytes
      BY <1>1, Moduli, ModAdd
    <2>2. (head + k) + (-head) = k /\ k % RingBytes = k
      BY <1>1, Moduli
    <2>3. slot - head = ((head + k) % RingBytes) + (-head)
      BY <1>1, <1>2 DEF Slot
    <2> QED
      BY <2>1, <2>2, <2>3
  <1> HIDE DEF slot
  <1>4. ring'[slot] = LET at == (slot - w.head) % RingBytes
                      IN  IF at >= from /\ at < to THEN (written + at) % CursorMod
                                                   ELSE ring[slot]
    BY <1>2 DEF PackRun
  <1>5. ring'[slot] = IF k >= from /\ k < to THEN (written + k) % CursorMod ELSE ring[slot]
    BY <1>3, <1>4
  <1> QED
    BY <1>5 DEF slot

(* The queued bytes stay as they are while a region is packed.             *)
LEMMA PackKeeps ==
  ASSUME GateInv, CursorInv, Holding, NEW from \in Nat, NEW to \in Nat,
         to <= w.frames * Stride, PackRun(from, to), NEW j \in 0..(Queued - 1)
  PROVE  ring'[Slot(tail + j)] = ring[Slot(tail + j)]
  <1> DEFINE k == (j - Queued) + RingBytes
  <1>1. /\ w.head = head /\ Queued + w.frames * Stride <= RingBytes
        /\ head \in Cursors /\ tail \in Cursors
    BY DEF CursorInv, RingTypes, WriterInv
  <1>2. w.frames * Stride \in Nat /\ Queued \in Nat
    BY QuantumBytes, QueuedType
  <1>3. k \in 0..(RingBytes - 1) /\ ~(k < to) /\ j \in Int /\ k \in Int /\ tail \in Int
    BY <1>1, <1>2, Moduli DEF Cursors
  <1>4. Slot(head + k) = Slot(tail + j)
    <2>1. Slot(head + k) = Slot(tail + (Queued + k))
      BY <1>1, <1>3, SlotBehind DEF Queued
    <2>2. tail + (Queued + k) = (tail + j) + RingBytes * 1
      BY <1>2, <1>3, Moduli
    <2>3. ((tail + j) + RingBytes * 1) % RingBytes = (tail + j) % RingBytes
      <3> DEFINE x == tail + j
      <3>1. x \in Int
        BY <1>3
      <3> HIDE DEF x
      <3>2. (x + RingBytes * 1) % RingBytes = x % RingBytes
        BY <3>1, Moduli, ModShift, 1 \in Int
      <3> QED
        BY <3>2 DEF x
    <2> QED
      BY <2>1, <2>2, <2>3 DEF Slot
  <1> HIDE DEF k
  <1>5. ring'[Slot(head + k)] = ring[Slot(head + k)]
    BY <1>1, <1>3, PackWrites
  <1> QED
    BY <1>4, <1>5

LEMMA RunKept ==
  ASSUME GateInv, CursorInv, Holding, NEW from \in Nat, NEW to \in Nat,
         to <= w.frames * Stride, PackRun(from, to), NEW n \in Nat, n <= Queued,
         UNCHANGED tail
  PROVE  Run(tail, n)' = Run(tail, n)
  <1>1. Queued \in Nat /\ tail \in Int
    BY QueuedType, Moduli DEF CursorInv, RingTypes, Cursors
  <1>2. ASSUME NEW i \in 1..n
        PROVE  ring'[Slot(tail + i - 1)] = ring[Slot(tail + i - 1)]
    <2>1. i - 1 \in 0..(Queued - 1) /\ tail + i - 1 = tail + (i - 1)
      BY <1>1
    <2> QED
      BY <2>1, PackKeeps
  <1> QED
    BY <1>2 DEF Run

(* The halves of the region come into place one after the other.           *)
LEMMA PackContents ==
  ASSUME GateInv, CursorInv, ContentInv, PackFirst \/ PackSecond
  PROVE  PackedInv'
  <1> DEFINE b == w.frames * Stride
             m == FirstPart(w.head, b)
  <1>1. /\ UNCHANGED <<head, tail, written, w>> /\ w.head = head
        /\ b \in Nat /\ b <= RingBytes
    <2>1. Holding /\ UNCHANGED <<head, tail, written, w>>
      BY DEF PackFirst, PackSecond, Holding
    <2>2. w.head = head /\ Queued + b <= RingBytes
      BY <2>1 DEF CursorInv, WriterInv
    <2>3. b \in Nat /\ Queued \in Nat
      BY QuantumBytes, QueuedType
    <2> QED
      BY <2>1, <2>2, <2>3, Moduli
  <1>2. m \in Nat /\ m <= b
    BY <1>1, FirstPartBound DEF CursorInv, RingTypes
  <1> HIDE DEF b, m
  <1>3. ASSUME NEW from \in Nat, NEW to \in Nat, to <= b, Packed(from), PackRun(from, to)
        PROVE  \A k \in 0..(to - 1) : ring'[Slot(head + k)] = (written + k) % CursorMod
    <2> SUFFICES ASSUME NEW k \in 0..(to - 1)
                 PROVE  ring'[Slot(head + k)] = (written + k) % CursorMod
      OBVIOUS
    <2>1. k \in 0..(RingBytes - 1)
      BY <1>1, <1>3, Moduli
    <2>2. ring'[Slot(head + k)] = IF from <= k /\ k < to THEN (written + k) % CursorMod
                                                         ELSE ring[Slot(head + k)]
      BY <1>1, <1>3, <2>1, PackWrites
    <2>3. CASE k >= from
      BY <2>2, <2>3
    <2>4. CASE k < from
      <3>1. k \in 0..(from - 1) /\ ~(from <= k)
        BY <2>4
      <3> QED
        BY <2>2, <3>1, <1>3 DEF Packed
    <2> QED
      BY <2>3, <2>4
  <1>4. CASE PackFirst
    <2>1. wpc' = "second" /\ PackRun(0, m)
      BY <1>4 DEF PackFirst, m, b
    <2>2. Packed(0)
      BY DEF Packed
    <2>3. \A k \in 0..(m - 1) : ring'[Slot(head + k)] = (written + k) % CursorMod
      BY <1>2, <1>3, <2>1, <2>2
    <2>4. m' = m
      BY <1>1 DEF m, b, FirstPart, Slot
    <2>5. Packed(m)'
      BY <1>1, <2>3, <2>4 DEF Packed, Slot
    <2> QED
      BY <2>1, <2>5 DEF PackedInv, m, b
  <1>5. CASE PackSecond
    <2>1. wpc' = "commit" /\ PackRun(m, b) /\ Packed(m)
      BY <1>5 DEF PackSecond, m, b, ContentInv, PackedInv
    <2>2. \A k \in 0..(b - 1) : ring'[Slot(head + k)] = (written + k) % CursorMod
      BY <1>1, <1>2, <1>3, <2>1
    <2>3. b' = b
      BY <1>1 DEF b
    <2>4. Packed(b)'
      BY <1>1, <2>2, <2>3 DEF Packed, Slot
    <2> QED
      BY <2>1, <2>4 DEF PackedInv, b
  <1> QED
    BY <1>4, <1>5

(* Packing does not touch what has been copied.                            *)
LEMMA PackKeepsCopied ==
  ASSUME GateInv, CursorInv, ContentInv, PackFirst \/ PackSecond
  PROVE  CopiedInv' /\ Run(tail, Queued)' = Run(tail, Queued)
  <1> DEFINE b == w.frames * Stride
             m == FirstPart(w.head, b)
  <1>1. /\ UNCHANGED <<head, tail, dpc, d>> /\ Holding
        /\ \/ PackRun(0, m)
           \/ PackRun(m, b)
    BY DEF PackFirst, PackSecond, Holding, draining
  <1>2. b \in Nat /\ m \in Nat /\ m <= b /\ b <= b /\ 0 \in Nat
    <2>1. b \in Nat /\ w.head \in Cursors
      BY QuantumBytes DEF CursorInv, RingTypes
    <2> HIDE DEF b
    <2> QED
      BY <2>1, FirstPartBound
  <1>3. Queued \in Nat /\ Queued' = Queued
    BY <1>1, QueuedType DEF Queued
  <1> HIDE DEF b, m
  <1>4. ASSUME NEW n \in Nat, n <= Queued PROVE Run(tail, n)' = Run(tail, n)
    BY <1>1, <1>2, <1>4, RunKept DEF b
  <1>5. Copying => /\ d.bytes \in Nat /\ d.bytes <= Queued
                   /\ FirstPart(d.tail, d.bytes) \in Nat
                   /\ FirstPart(d.tail, d.bytes) <= Queued
    <2>1. d.bytes \in Nat /\ d.tail \in Cursors /\ (Copying => d.bytes <= Queued)
      BY DEF CursorInv, RingTypes, DrainInv
    <2>2. FirstPart(d.tail, d.bytes) \in Nat /\ FirstPart(d.tail, d.bytes) <= d.bytes
      BY <2>1, FirstPartBound
    <2> QED
      BY <1>3, <2>1, <2>2
  <1>6. CopiedInv'
    <2>1. CASE dpc = "second"
      <3>1. Run(tail, FirstPart(d.tail, d.bytes))' = Run(tail, FirstPart(d.tail, d.bytes))
        BY <1>1, <1>4, <1>5, <2>1 DEF Copying, Run
      <3> QED
        BY <1>1, <2>1, <3>1 DEF ContentInv, CopiedInv
    <2>2. CASE dpc = "store"
      <3>1. Run(tail, d.bytes)' = Run(tail, d.bytes)
        BY <1>1, <1>4, <1>5, <2>2 DEF Copying, Run
      <3> QED
        BY <1>1, <2>2, <3>1 DEF ContentInv, CopiedInv
    <2> QED
      BY <1>1, <2>1, <2>2 DEF ContentInv, CopiedInv
  <1>7. Run(tail, Queued)' = Run(tail, Queued)
    BY <1>1, <1>3, <1>4 DEF Run
  <1> QED
    BY <1>6, <1>7

(* Copying appends to what the packet has.                                 *)
LEMMA CopyContents ==
  ASSUME GateInv, CursorInv, ContentInv,
         \/ \E frames \in Packets : Drain(frames)
         \/ LoadTail \/ CopyFirst \/ CopySecond
  PROVE  CopiedInv'
  <1>1. /\ UNCHANGED <<ring, tail>> /\ CopiedInv
        /\ d \in [bytes : Nat, head : Cursors, tail : Cursors, dst : Seq(Cursors)]
        /\ tail \in Cursors /\ DrainInv
    BY DrainStep DEF ringVars, ContentInv, CursorInv, RingTypes
  <1>2. ASSUME NEW frames \in Packets, Drain(frames) PROVE CopiedInv'
    <2>1. dpc = "idle" /\ dpc' = "tail" /\ d'.dst = d.dst
      BY <1>1, <1>2 DEF Drain
    <2> QED
      BY <1>1, <2>1 DEF CopiedInv
  <1>3. CASE LoadTail
    <2>1. dpc = "tail" /\ dpc' \in {"first", "idle"} /\ d'.dst = d.dst
      BY <1>1, <1>3 DEF LoadTail
    <2> QED
      BY <1>1, <2>1 DEF CopiedInv
  <1> DEFINE m == FirstPart(d.tail, d.bytes)
             n == d.bytes - m
  <1>4. CASE CopyFirst \/ CopySecond
    <2>1. d.tail = tail /\ d.bytes \in Nat /\ d.tail \in Int
      BY <1>1, <1>4, Moduli DEF CopyFirst, CopySecond, DrainInv, Copying, Cursors
    <2>2. m \in Nat /\ m <= d.bytes
      BY <1>1, FirstPartBound
    <2>3. n \in Nat /\ m + n = d.bytes /\ m - 0 = m /\ 0 + d.tail = d.tail
      BY <2>1, <2>2
    <2> HIDE DEF m, n
    <2>4. CASE CopyFirst
      <3>1. /\ dpc = "first" /\ dpc' = "second" /\ d.dst = <<>>
            /\ d'.dst = d.dst \o [i \in 1..(m - 0) |-> ring[Slot(d.tail + 0 + i - 1)]]
            /\ d'.bytes = d.bytes /\ d'.tail = d.tail
        BY <1>1, <2>4 DEF CopyFirst, CopyRun, CopiedInv, m
      <3>2. [i \in 1..(m - 0) |-> ring[Slot(d.tail + 0 + i - 1)]] = Run(tail, m)
        BY <2>1, <2>2, <2>3 DEF Run
      <3>3. Run(tail, m) \in Seq(Cursors)
        BY <2>1, <2>2, RunLength
      <3>4. d'.dst = Run(tail, m)
        BY <3>1, <3>2, <3>3, ConcatEmptySeq
      <3>5. m' = m /\ Run(tail, m)' = Run(tail, m)
        BY <1>1, <3>1 DEF m, FirstPart, Slot, Run
      <3> QED
        BY <3>1, <3>4, <3>5 DEF CopiedInv, m
    <2>5. CASE CopySecond
      <3>1. /\ dpc = "second" /\ dpc' = "store" /\ d.dst = Run(tail, m)
            /\ d'.dst = d.dst \o [i \in 1..(d.bytes - m) |-> ring[Slot(d.tail + m + i - 1)]]
            /\ d'.bytes = d.bytes /\ d'.tail = d.tail
        BY <1>1, <2>5 DEF CopySecond, CopyRun, CopiedInv, m
      <3>2. [i \in 1..(d.bytes - m) |-> ring[Slot(d.tail + m + i - 1)]] = Run(tail + m, n)
        BY <2>1 DEF Run, n
      <3>3. Run(tail, m) \o Run(tail + m, n) = Run(tail, m + n)
        BY <2>1, <2>2, <2>3, RunSplit
      <3>4. d'.dst = Run(tail, d.bytes)
        BY <2>3, <3>1, <3>2, <3>3
      <3>5. Run(tail, d.bytes)' = Run(tail, d.bytes)
        BY <1>1, <3>1 DEF Run, Slot
      <3> QED
        BY <3>1, <3>4, <3>5 DEF CopiedInv
    <2> QED
      BY <1>4, <2>4, <2>5
  <1> QED
    BY <1>2, <1>3, <1>4

LEMMA ContentInit == Init => ContentInv
  BY DEF Init, ContentInv, PackedInv, CopiedInv

LEMMA ContentStep == GateInv /\ CursorInv /\ ContentInv /\ [Next]_vars => ContentInv'
  <1> SUFFICES ASSUME GateInv, CursorInv, ContentInv, [Next]_vars PROVE ContentInv'
    OBVIOUS
  <1> USE DEF ContentInv
  <1>1. ASSUME UNCHANGED <<ring, head, written, wpc, w>> PROVE PackedInv'
    BY <1>1 DEF PackedInv, Packed, FirstPart, Slot
  <1>2. ASSUME UNCHANGED <<ring, tail, dpc, d>> PROVE CopiedInv'
    BY <1>2 DEF CopiedInv, Run, FirstPart, Slot
  <1>3. CASE \/ \E frames \in Quanta : Submit(frames)
             \/ Enter \/ ReadRoom \/ Recheck \/ LoadCursors \/ Admit \/ Leave
    <2>1. UNCHANGED <<ring, tail, dpc, d>>
      BY <1>3, AdmissionStep DEF ringVars, draining
    <2>2. wpc' \notin {"second", "commit"}
      BY <1>3 DEF Submit, Enter, ReadRoom, Recheck, LoadCursors, Admit, Leave
    <2> QED
      BY <1>2, <2>1, <2>2 DEF PackedInv
  <1>4. CASE PackFirst \/ PackSecond
    BY <1>4, PackContents, PackKeepsCopied
  <1>5. CASE Commit
    <2>1. UNCHANGED <<ring, tail, dpc, d>> /\ wpc' = "leave"
      BY <1>5, CommitMoves DEF Commit
    <2> QED
      BY <1>2, <2>1 DEF PackedInv
  <1>6. CASE \/ \E frames \in Packets : Drain(frames)
             \/ LoadTail \/ CopyFirst \/ CopySecond
    <2>1. UNCHANGED <<ring, head, written, wpc, w>>
      BY <1>6, DrainStep DEF ringVars, writing
    <2> QED
      BY <1>1, <1>6, <2>1, CopyContents
  <1>7. CASE StoreTail
    <2>1. UNCHANGED <<ring, head, written, wpc, w>>
      BY <1>7, StoreMoves
    <2>2. dpc' = "idle" /\ d'.dst = <<>>
      BY <1>7 DEF StoreTail
    <2> QED
      BY <1>1, <2>1, <2>2 DEF CopiedInv
  <1>8. CASE ResetHead \/ ResetTail
    <2>1. /\ UNCHANGED <<wpc, dpc, d>> /\ dpc = "idle"
          /\ wpc \notin {"second", "commit"}
      BY <1>8 DEF ResetHead, ResetTail, writing, draining, GateInv, StopExcludesWriters,
                  CursorInv, SessionInv
    <2> QED
      BY <2>1 DEF PackedInv, CopiedInv
  <1>9. CASE \/ \E call \in {"stop", "start"} : Stop(call)
             \/ WritersGone \/ DriverStopped \/ StartFails \/ OpenGate
             \/ StartPlayback \/ Arm \/ Filled \/ SubmitFails \/ RequestStop
    <2>1. UNCHANGED <<ring, head, tail, written, wpc, w, dpc, d>>
      BY <1>9, ControlStep DEF ringVars, writing, draining
    <2> QED
      BY <1>1, <1>2, <2>1
  <1>10. CASE UNCHANGED vars
    BY <1>1, <1>2, <1>10 DEF vars, ringVars, writing, draining
  <1> QED
    BY <1>3, <1>4, <1>5, <1>6, <1>7, <1>8, <1>9, <1>10 DEF Next, Writer, Pump, Control

--------------------------------------------------------------------------------
(* The refinement of the bounded queue.                                    *)

(* What the queue of a session that is not being reset holds.              *)
LEMMA ContentsIsRun ==
  ctl # "resetting" => Contents = Run(tail, Queued)
  BY DEF Contents, Run

(* A step that leaves the ring, its cursors and the packets alone.         *)
LEMMA Stutters ==
  ASSUME UNCHANGED <<ringVars, got>>, ctl' = "resetting" <=> ctl = "resetting"
  PROVE  UNCHANGED Fifo!fifoVars
  BY DEF Fifo!fifoVars, Contents, Queued, Slot, ringVars

LEMMA ResetClears ==
  ASSUME GateInv, CursorInv, ResetHead \/ ResetTail
  PROVE  [Fifo!Next]_(Fifo!fifoVars)
  <1>1. CASE ResetHead
    <2>1. Fifo!Clear
      BY <1>1 DEF ResetHead, Fifo!Clear, Contents
    <2> QED
      BY <2>1 DEF Fifo!Next
  <1>2. CASE ResetTail
    <2>1. /\ ctl = "resetting" /\ ctl' = "ready" /\ head' = 0 /\ tail' = 0
          /\ written' = 0 /\ UNCHANGED got
      BY <1>2 DEF ResetTail, CursorInv, SessionInv
    <2>2. Queued' = 0
      BY <2>1, Moduli DEF Queued, Minus
    <2>3. Contents' = <<>>
      BY <2>1, <2>2 DEF Contents
    <2> QED
      BY <2>1, <2>3 DEF Fifo!fifoVars, Contents
  <1> QED
    BY <1>1, <1>2

(* commitPlaybackWrite publishes one whole quantum, numbered in order.     *)
LEMMA CommitPublishes ==
  ASSUME GateInv, CursorInv, ContentInv, Commit
  PROVE  \E frames \in Quanta : Fifo!Publish(frames)
  <1> DEFINE b == w.frames * Stride
             pcm == [i \in 1..b |-> (written + i - 1) % CursorMod]
  <1>1. /\ Queued' = Queued + b /\ Queued' <= RingBytes /\ Queued \in Nat /\ b \in Nat
        /\ w.frames \in Quanta /\ written' = (written + b) % CursorMod
        /\ ctl # "resetting" /\ UNCHANGED <<ring, tail, ctl>>
    BY CommitMoves
  <1>2. Packed(b) /\ UNCHANGED got
    BY DEF Commit, ContentInv, PackedInv
  <1>3. head \in Cursors /\ tail \in Cursors /\ tail \in Int /\ written \in Int
    BY Moduli DEF CursorInv, RingTypes, Cursors
  <1> HIDE DEF b
  <1>4. Run(tail + Queued, b) = pcm
    <2>1. ASSUME NEW i \in 1..b
          PROVE  ring[Slot(tail + Queued + i - 1)] = (written + i - 1) % CursorMod
      <3>1. i - 1 \in 0..(b - 1) /\ i - 1 \in Int
        BY <1>1
      <3>2. ring[Slot(head + (i - 1))] = (written + (i - 1)) % CursorMod
        BY <1>2, <3>1 DEF Packed
      <3>3. Slot(head + (i - 1)) = Slot(tail + (Queued + (i - 1)))
        BY <1>3, <3>1, SlotBehind DEF Queued
      <3>4. /\ tail + (Queued + (i - 1)) = tail + Queued + i - 1
            /\ written + (i - 1) = written + i - 1
        BY <1>1, <1>3
      <3> QED
        BY <3>2, <3>3, <3>4
    <2> QED
      BY <2>1 DEF Run
  <1>5. Run(tail, Queued) \o Run(tail + Queued, b) = Run(tail, Queued + b)
    BY <1>1, <1>3, RunSplit
  <1>6. Contents' = Run(tail, Queued + b)
    BY <1>1 DEF Contents, Run, Slot
  <1>7. Contents = Run(tail, Queued) /\ Len(Run(tail, Queued)) = Queued
    BY <1>1, <1>3, ContentsIsRun, RunLength
  <1>8. Contents' = Contents \o pcm
    BY <1>4, <1>5, <1>6, <1>7
  <1>9. Len(Contents) + b <= RingBytes
    BY <1>1, <1>7
  <1>10. Fifo!Publish(w.frames)
    BY <1>1, <1>2, <1>8, <1>9 DEF Fifo!Publish, b
  <1> QED
    BY <1>1, <1>10

(* A part of a run is a run.                                               *)
LEMMA SubRun ==
  ASSUME CursorInv, NEW c \in Int, NEW k \in Nat, NEW n \in Nat, k <= n
  PROVE  /\ SubSeq(Run(c, n), 1, k) = Run(c, k)
         /\ SubSeq(Run(c, n), k + 1, n) = Run(c + k, n - k)
  <1>1. /\ Run(c, n) \in Seq(Cursors) /\ Len(Run(c, n)) = n
        /\ \A i \in 1..n : Run(c, n)[i] = ring[Slot(c + i - 1)]
    BY RunLength
  <1> DEFINE r == Run(c, n)
  <1> HIDE DEF r
  <1>2. SubSeq(r, 1, k) = Run(c, k)
    <2>1. SubSeq(r, 1, k) = [i \in 1..k |-> r[i]]
      BY <1>1 DEF r
    <2>2. \A i \in 1..k : r[i] = ring[Slot(c + i - 1)]
      BY <1>1 DEF r
    <2> QED
      BY <2>1, <2>2 DEF Run
  <1>3. SubSeq(r, k + 1, n) = Run(c + k, n - k)
    <2>1. SubSeq(r, k + 1, n) = [i \in 1..(n - k) |-> r[k + i]]
      BY <1>1 DEF r
    <2>2. ASSUME NEW i \in 1..(n - k) PROVE r[k + i] = ring[Slot(c + k + i - 1)]
      <3>1. k + i \in 1..n /\ c + (k + i) - 1 = c + k + i - 1
        OBVIOUS
      <3> QED
        BY <1>1, <3>1 DEF r
    <2> QED
      BY <2>1, <2>2 DEF Run
  <1> QED
    BY <1>2, <1>3 DEF r

(* drainRing hands the oldest whole frames to the packet.                  *)
LEMMA StoreTakes ==
  ASSUME GateInv, CursorInv, ContentInv, StoreTail
  PROVE  \E frames \in 1..(Len(Contents) \div Stride) : Fifo!Take(frames)
  <1>1. /\ d.tail = tail /\ d.bytes \in Nat /\ d.bytes > 0 /\ d.bytes <= Queued
        /\ Whole(d.bytes) /\ Whole(Queued) /\ ctl # "resetting"
        /\ tail' = (tail + d.bytes) % CursorMod /\ Queued' = Queued - d.bytes
        /\ UNCHANGED <<ring, written, ctl>>
    BY StoreMoves
  <1>2. got' = Run(tail, d.bytes)
    BY DEF StoreTail, ContentInv, CopiedInv
  <1>3. tail \in Cursors /\ tail \in Int /\ Queued \in Nat
    BY Moduli, QueuedType DEF CursorInv, RingTypes, Cursors
  <1>4. Contents = Run(tail, Queued) /\ Len(Contents) = Queued
    BY <1>1, <1>3, ContentsIsRun, RunLength
  <1>5. got' = SubSeq(Contents, 1, d.bytes)
    BY <1>1, <1>2, <1>3, <1>4, SubRun
  <1>6. Contents' = SubSeq(Contents, d.bytes + 1, Len(Contents))
    <2>1. Contents' = [i \in 1..(Queued - d.bytes) |->
                         ring[Slot(((tail + d.bytes) % CursorMod) + i - 1)]]
      BY <1>1 DEF Contents, Slot
    <2>2. ASSUME NEW i \in 1..(Queued - d.bytes)
          PROVE  Slot(((tail + d.bytes) % CursorMod) + i - 1) = Slot(tail + d.bytes + i - 1)
      <3> DEFINE x == tail + d.bytes
      <3>0. x \in Int /\ i - 1 \in Int
        BY <1>1, <1>3
      <3> HIDE DEF x
      <3>1. x \in Int /\ i - 1 \in Int /\ x % CursorMod \in Int
        BY <3>0, Wraps, Moduli DEF Cursors
      <3>2. Slot((x % CursorMod) + (i - 1)) = Slot(x + (i - 1))
        BY <3>1, SlotWrap
      <3>3. (x % CursorMod) + (i - 1) = (x % CursorMod) + i - 1 /\ x + (i - 1) = x + i - 1
        BY <3>1
      <3> QED
        BY <3>2, <3>3 DEF x
    <2>3. Contents' = Run(tail + d.bytes, Queued - d.bytes)
      BY <2>1, <2>2 DEF Run
    <2>4. SubSeq(Run(tail, Queued), d.bytes + 1, Queued)
            = Run(tail + d.bytes, Queued - d.bytes)
      BY <1>1, <1>3, SubRun
    <2> QED
      BY <1>4, <2>3, <2>4
  <1>7. PICK f \in Nat : d.bytes = f * Stride
    BY <1>1 DEF Whole
  <1>8. PICK q \in Nat : Queued = q * Stride
    BY <1>1 DEF Whole
  <1>9. f \in 1..(Len(Contents) \div Stride)
    <2>1. f # 0
      BY <1>1, <1>7, Moduli
    <2>2. f <= q
      <3> SUFFICES ASSUME q + 1 <= f PROVE FALSE
        OBVIOUS
      <3>1. (q + 1) * Stride <= f * Stride
        BY Moduli
      <3>2. (q + 1) * Stride = q * Stride + Stride
        BY Moduli
      <3>3. q * Stride \in Int /\ f * Stride \in Int
        BY Moduli
      <3> QED
        BY <1>1, <1>7, <1>8, <3>1, <3>2, <3>3, Moduli
    <2>3. (q * Stride) \div Stride = q
      BY Moduli
    <2> QED
      BY <1>4, <1>8, <2>1, <2>2, <2>3
  <1>10. Fifo!Take(f)
    BY <1>1, <1>5, <1>6, <1>7 DEF Fifo!Take
  <1> QED
    BY <1>9, <1>10

(* Every step of the ring is a step of the queue or leaves it alone.       *)
LEMMA RefinesStep ==
  GateInv /\ CursorInv /\ ContentInv /\ [Next]_vars => [Fifo!Next]_(Fifo!fifoVars)
  <1> SUFFICES ASSUME GateInv, CursorInv, ContentInv, [Next]_vars
               PROVE  [Fifo!Next]_(Fifo!fifoVars)
    OBVIOUS
  <1>1. CASE \/ \E frames \in Quanta : Submit(frames)
             \/ Enter \/ ReadRoom \/ Recheck \/ LoadCursors \/ Admit \/ Leave
    <2>1. UNCHANGED <<ringVars, ctl, got>>
      BY <1>1 DEF Submit, Enter, ReadRoom, Recheck, LoadCursors, Admit, Leave, control
    <2> QED
      BY <2>1, Stutters
  <1>2. CASE PackFirst \/ PackSecond
    <2>1. UNCHANGED <<head, tail, written, ctl, got>>
      BY <1>2 DEF PackFirst, PackSecond, control
    <2>2. Run(tail, Queued)' = Run(tail, Queued)
      BY <1>2, PackKeepsCopied
    <2>3. Contents' = Contents
      BY <2>1, <2>2 DEF Contents, Run
    <2> QED
      BY <2>1, <2>3 DEF Fifo!fifoVars
  <1>3. CASE Commit
    BY <1>3, CommitPublishes DEF Fifo!Next
  <1>4. CASE \/ \E frames \in Packets : Drain(frames)
             \/ LoadTail \/ CopyFirst \/ CopySecond
    <2>1. UNCHANGED <<ringVars, ctl, got>>
      BY <1>4 DEF Drain, LoadTail, CopyFirst, CopySecond, control
    <2> QED
      BY <2>1, Stutters
  <1>5. CASE StoreTail
    BY <1>5, StoreTakes DEF Fifo!Next
  <1>6. CASE ResetHead \/ ResetTail
    BY <1>6, ResetClears
  <1>7. CASE \/ \E call \in {"stop", "start"} : Stop(call)
             \/ WritersGone \/ DriverStopped \/ StartFails \/ OpenGate
             \/ StartPlayback \/ Arm \/ Filled \/ SubmitFails \/ RequestStop
    <2>1. UNCHANGED <<ringVars, got>> /\ (ctl' = "resetting" <=> ctl = "resetting")
      BY <1>7 DEF Stop, WritersGone, DriverStopped, StartFails, OpenGate, StartPlayback,
                  Arm, Filled, SubmitFails, RequestStop, control
    <2> QED
      BY <2>1, Stutters
  <1>8. CASE UNCHANGED vars
    <2>1. UNCHANGED <<ringVars, got>> /\ (ctl' = "resetting" <=> ctl = "resetting")
      BY <1>8 DEF vars, control
    <2> QED
      BY <2>1, Stutters
  <1> QED
    BY <1>1, <1>2, <1>3, <1>4, <1>5, <1>6, <1>7, <1>8 DEF Next, Writer, Pump, Control

LEMMA RefinesInit == Init => Fifo!Init
  <1> SUFFICES ASSUME Init PROVE Fifo!Init
    OBVIOUS
  <1>1. head = 0 /\ tail = 0 /\ written = 0 /\ ctl = "stopped" /\ got = <<>>
    BY DEF Init
  <1>2. Queued = 0
    BY <1>1, Moduli DEF Queued, Minus
  <1>3. Contents = <<>>
    BY <1>1, <1>2 DEF Contents
  <1> QED
    BY <1>1, <1>3 DEF Fifo!Init

(* The ring of preparePlaybackWrite, commitPlaybackWrite and drainRing      *)
(* implements the bounded queue of FrameFifo, for every capacity, frame     *)
(* size and cursor width: a quantum is published whole, the packets receive *)
(* the PCM in order, nothing twice and nothing made up, and a new session   *)
(* starts empty.                                                            *)
THEOREM RingRefines == Spec => ImplementsFifo
  <1> QED
    BY GateInit, GateStep, CursorInit, CursorStep, ContentInit, ContentStep,
       RefinesInit, RefinesStep, PTL DEF Spec, ImplementsFifo, Fifo!Spec
================================================================================
