--------------------------- MODULE CaptureRingProofs ----------------------------
(***************************************************************************)
(* The capture path for every ring, frame size, cursor width and set of    *)
(* packets and quanta: a read is never disturbed, the ring implements the  *)
(* queue of module CaptureFifo, which loses frames only at its ends, and   *)
(* every gap in what the caller hears was counted before.                  *)
(*                                                                         *)
(* The results are about a render thread that is outside a read while      *)
(* stop() resets the cursors (RenderJoined), the documented order.         *)
(*                                                                         *)
(* None is inductive.  A completion works from a tail as old as its first  *)
(* packet and a read from a head as old as its start; CaptureInv says that *)
(* a stale tail only makes the queue look longer and a stale head shorter, *)
(* and what the bytes kept and copied so far are.  A gap is heard long     *)
(* after its cause: CreditInv says that losses counted and not yet heard   *)
(* are at least as many as the breaks still in the queue, and one more     *)
(* while a read that trimmed has yet to commit.                            *)
(***************************************************************************)
EXTENDS CaptureRing, SequenceTheorems, FiniteSetTheorems, TLAPS

(* Remainders.                                                             *)

(* Euclidean division by a positive number.                                *)
LEMMA IntDivMod ==
  ASSUME NEW x \in Int, NEW n \in Nat \ {0}
  PROVE  /\ x % n \in 0..(n - 1)
         /\ x \div n \in Int
         /\ x = n * (x \div n) + (x % n)
  OBVIOUS

(* The remainder is the only one.                                          *)
LEMMA ModUnique ==
  ASSUME NEW n \in Nat \ {0}, NEW k \in Int, NEW e \in 0..(n - 1)
  PROVE  (n * k + e) % n = e
  <1> DEFINE x == n * k + e
  <1>1. x \in Int
    OBVIOUS
  <1>2. PICK q \in Int, s \in 0..(n - 1) : x = n * q + s /\ s = x % n
    BY <1>1, IntDivMod
  <1>3. n * (k - q) = s - e
    BY <1>2
  <1>4. k - q = 0
    <2>1. ~(k - q >= 1)
       <3>1. ASSUME k - q >= 1 PROVE n * (k - q) >= n
         BY <3>1
       <3> QED
         BY <3>1, <1>3
    <2>2. ~(k - q <= -1)
       <3>1. ASSUME k - q <= -1 PROVE n * (k - q) <= -n
         BY <3>1
       <3> QED
         BY <3>1, <1>3
    <2> QED
      BY <2>1, <2>2
  <1> QED
    BY <1>2, <1>3, <1>4

(* Multiples of the modulus do not count.                                  *)
LEMMA ModShift ==
  ASSUME NEW n \in Nat \ {0}, NEW x \in Int, NEW k \in Int
  PROVE  (x + n * k) % n = x % n
  <1>1. PICK q \in Int, s \in 0..(n - 1) : x = n * q + s /\ s = x % n
    BY IntDivMod
  <1>2. x + n * k = n * (q + k) + s
    BY <1>1
  <1>3. (n * (q + k) + s) % n = s
    BY ModUnique, q + k \in Int
  <1> QED
    BY <1>1, <1>2, <1>3

(* A remainder modulo a multiple of n has the same remainder modulo n.     *)
LEMMA ModMod ==
  ASSUME NEW n \in Nat \ {0}, NEW m \in Nat \ {0}, m % n = 0, NEW x \in Int
  PROVE  (x % m) % n = x % n
  <1>1. PICK c \in Int : m = n * c
    BY IntDivMod
  <1>2. PICK q \in Int : x = m * q + (x % m)
    BY IntDivMod
  <1>3. x = (x % m) + n * (c * q) /\ x % m \in Int /\ c * q \in Int
    <2>1. (n * c) * q = n * (c * q)
      OBVIOUS
    <2> QED
      BY <1>1, <1>2, <2>1, IntDivMod
  <1>4. ((x % m) + n * (c * q)) % n = (x % m) % n
    BY <1>3, ModShift
  <1> QED
    BY <1>3, <1>4

(* A summand may be reduced first.                                         *)
LEMMA ModAdd ==
  ASSUME NEW n \in Nat \ {0}, NEW x \in Int, NEW y \in Int
  PROVE  ((x % n) + y) % n = (x + y) % n
  <1>1. PICK q \in Int : x = n * q + (x % n)
    BY IntDivMod
  <1>2. x + y = ((x % n) + y) + n * q /\ (x % n) + y \in Int
    BY <1>1, IntDivMod
  <1> QED
    BY <1>2, ModShift

(* Numbers less than the modulus apart have different remainders.          *)
LEMMA ModApart ==
  ASSUME NEW n \in Nat \ {0}, NEW x \in Int, NEW y \in Int, x < y, y - x < n
  PROVE  x % n # y % n
  <1>1. PICK q \in Int : x = n * q + (x % n)
    BY IntDivMod
  <1>2. PICK s \in Int : y = n * s + (y % n)
    BY IntDivMod
  <1>3. SUFFICES ASSUME x % n = y % n PROVE FALSE
    OBVIOUS
  <1>4. y - x = n * (s - q)
    BY <1>1, <1>2, <1>3, IntDivMod
  <1>5. s - q >= 1
    BY <1>4
  <1>6. n * (s - q) >= n
    BY <1>5
  <1> QED
    BY <1>4, <1>6

--------------------------------------------------------------------------------
(* Cursors.                                                                *)

Cursors == 0..(CursorMod - 1)

(* The moduli are positive and the ring divides the cursors' range.        *)
LEMMA Moduli ==
  /\ RingBytes \in Nat \ {0} /\ CursorMod \in Nat \ {0}
  /\ CursorMod % RingBytes = 0 /\ CursorMod >= 2 * RingBytes
  /\ Stride \in Nat \ {0} /\ Stride <= RingBytes /\ 0 \in Cursors
  /\ Numbers \in Nat \ {0}
  BY CaptureAssumption DEF CaptureAssumption, Cursors

(* A number wraps to a cursor.                                             *)
LEMMA Wraps ==
  ASSUME NEW x \in Int
  PROVE  x % CursorMod \in Cursors
  BY Moduli, IntDivMod DEF Cursors

(* A wrapped difference leads back from one cursor to the other, and is    *)
(* the only one that does.                                                 *)
LEMMA MinusLeads ==
  ASSUME NEW a \in Cursors, NEW b \in Cursors
  PROVE  /\ Minus(a, b) \in Cursors
         /\ (b + Minus(a, b)) % CursorMod = a
  <1>1. a \in Int /\ b \in Int /\ a - b \in Int
    BY Moduli DEF Cursors
  <1>2. Minus(a, b) \in Cursors
    BY <1>1, Moduli, IntDivMod DEF Minus, Cursors
  <1>3. (Minus(a, b) + b) % CursorMod = ((a - b) + b) % CursorMod
    BY <1>1, Moduli, ModAdd DEF Minus
  <1>4. (a - b) + b = a /\ a % CursorMod = a
    BY <1>1, Moduli DEF Cursors
  <1>5. Minus(a, b) + b = b + Minus(a, b)
    BY <1>1, <1>2 DEF Cursors
  <1> QED
    BY <1>2, <1>3, <1>4, <1>5

LEMMA MinusIs ==
  ASSUME NEW a \in Cursors, NEW b \in Cursors, NEW q \in Cursors,
         a = (b + q) % CursorMod
  PROVE  Minus(a, b) = q
  <1>1. b \in Int /\ q \in Int /\ -b \in Int /\ b + q \in Int
    BY Moduli DEF Cursors
  <1>2. (((b + q) % CursorMod) + (-b)) % CursorMod = ((b + q) + (-b)) % CursorMod
    BY <1>1, Moduli, ModAdd
  <1>3. (b + q) + (-b) = q /\ q % CursorMod = q
    BY <1>1, Moduli DEF Cursors
  <1>4. a - b = a + (-b)
    BY <1>1, Moduli DEF Cursors
  <1> QED
    BY <1>2, <1>3, <1>4 DEF Minus

(* Moving the head, or the tail, by n bytes.                               *)
LEMMA MoveHead ==
  ASSUME NEW h \in Cursors, NEW t \in Cursors, NEW n \in Nat,
         Minus(h, t) + n < CursorMod
  PROVE  /\ (h + n) % CursorMod \in Cursors
         /\ Minus((h + n) % CursorMod, t) = Minus(h, t) + n
  <1> DEFINE q == Minus(h, t)
  <1>1. q \in Cursors /\ (t + q) % CursorMod = h
    BY MinusLeads
  <1> HIDE DEF q
  <1>2. t \in Int /\ q \in Int /\ n \in Int /\ h \in Int /\ q + n \in Cursors
    BY <1>1, Moduli DEF Cursors, q
  <1>3. (h + n) % CursorMod = (t + (q + n)) % CursorMod
    <2>1. (((t + q) % CursorMod) + n) % CursorMod = ((t + q) + n) % CursorMod
      BY <1>2, Moduli, ModAdd, t + q \in Int
    <2>2. (t + q) + n = t + (q + n)
      BY <1>2
    <2> QED
      BY <1>1, <2>1, <2>2
  <1>4. (h + n) % CursorMod \in Cursors
    BY <1>2, Wraps, h + n \in Int
  <1> QED
    BY <1>2, <1>3, <1>4, MinusIs DEF q

LEMMA MoveTail ==
  ASSUME NEW h \in Cursors, NEW t \in Cursors, NEW n \in Nat, n <= Minus(h, t)
  PROVE  /\ (t + n) % CursorMod \in Cursors
         /\ Minus(h, (t + n) % CursorMod) = Minus(h, t) - n
  <1> DEFINE q == Minus(h, t)
             u == (t + n) % CursorMod
  <1>1. q \in Cursors /\ (t + q) % CursorMod = h
    BY MinusLeads
  <1> HIDE DEF q
  <1>2. t \in Int /\ q \in Int /\ n \in Int /\ q - n \in Cursors /\ t + n \in Int
    BY <1>1, Moduli DEF Cursors, q
  <1>3. u \in Cursors
    BY <1>2, Wraps
  <1>4. h = (u + (q - n)) % CursorMod
    <2>1. (((t + n) % CursorMod) + (q - n)) % CursorMod = ((t + n) + (q - n)) % CursorMod
      BY <1>2, Moduli, ModAdd, q - n \in Int
    <2>2. (t + n) + (q - n) = t + q
      BY <1>2
    <2> QED
      BY <1>1, <2>1, <2>2
  <1> HIDE DEF u
  <1>5. Minus(h, u) = q - n
    BY <1>2, <1>3, <1>4, MinusIs
  <1> QED
    BY <1>3, <1>5 DEF q, u

(* The slot of a cursor that has wrapped.                                  *)
LEMMA SlotWrap ==
  ASSUME NEW x \in Int, NEW i \in Int
  PROVE  Slot((x % CursorMod) + i) = Slot(x + i)
  <1> DEFINE y == x % CursorMod
  <1>1. y \in Int /\ y % RingBytes = x % RingBytes
    <2>1. y \in Int
      BY Moduli, Wraps DEF Cursors
    <2>2. y % RingBytes = x % RingBytes
      BY Moduli, ModMod
    <2> QED
      BY <2>1, <2>2
  <1> HIDE DEF y
  <1>2. ((y % RingBytes) + i) % RingBytes = (y + i) % RingBytes
    BY <1>1, Moduli, ModAdd
  <1>3. ((x % RingBytes) + i) % RingBytes = (x + i) % RingBytes
    BY Moduli, ModAdd
  <1> QED
    BY <1>1, <1>2, <1>3 DEF Slot, y

(* The slots in front of the head are those behind the queued bytes.       *)
LEMMA SlotBehind ==
  ASSUME NEW h \in Cursors, NEW t \in Cursors, NEW i \in Int
  PROVE  Slot(h + i) = Slot(t + (Minus(h, t) + i))
  <1> DEFINE q == Minus(h, t)
  <1>1. q \in Cursors /\ (t + q) % CursorMod = h
    BY MinusLeads
  <1> HIDE DEF q
  <1>2. t + q \in Int /\ (t + q) + i = t + (q + i)
    BY <1>1, Moduli DEF Cursors
  <1>3. Slot(((t + q) % CursorMod) + i) = Slot((t + q) + i)
    BY <1>2, SlotWrap
  <1> QED
    BY <1>1, <1>2, <1>3 DEF q

(* Slots less than the ring apart differ.                                  *)
LEMMA SlotsApart ==
  ASSUME NEW x \in Int, NEW i \in Int, NEW j \in Int, i < j, j - i < RingBytes
  PROVE  Slot(x + i) # Slot(x + j)
  <1>1. x + i \in Int /\ x + j \in Int /\ x + i < x + j /\ (x + j) - (x + i) < RingBytes
    BY Moduli
  <1> QED
    BY <1>1, Moduli, ModApart DEF Slot

(* A slot is a slot of the ring.                                           *)
LEMMA SlotInRing ==
  ASSUME NEW x \in Int
  PROVE  Slot(x) \in 0..(RingBytes - 1)
  BY Moduli, IntDivMod DEF Slot

--------------------------------------------------------------------------------
(* Whole frames and runs of bytes.                                         *)

\* A number of bytes that is made of whole frames.
Whole(bytes) == \E frames \in Nat : bytes = frames * Stride

(* Whole frames.                                                           *)
LEMMA WholeFrames ==
  /\ \A f \in Nat : Whole(f * Stride)
  /\ \A b : Whole(b) => b \in Nat
  /\ Whole(0)
  <1>1. \A f \in Nat : Whole(f * Stride)
    BY DEF Whole
  <1>2. \A b : Whole(b) => b \in Nat
    BY Moduli DEF Whole
  <1>3. 0 = 0 * Stride
    BY Moduli
  <1> QED
    BY <1>1, <1>2, <1>3 DEF Whole

LEMMA WholeSum ==
  ASSUME NEW a, NEW b, Whole(a), Whole(b)
  PROVE  Whole(a + b) /\ (b <= a => Whole(a - b))
  <1>1. PICK f \in Nat : a = f * Stride
    BY DEF Whole
  <1>2. PICK g \in Nat : b = g * Stride
    BY DEF Whole
  <1>3. f * Stride + g * Stride = (f + g) * Stride
    BY Moduli
  <1>4. f * Stride - g * Stride = (f - g) * Stride
    BY Moduli
  <1>5. b <= a => f - g \in Nat
    <2> SUFFICES ASSUME f * Stride >= g * Stride, f < g PROVE FALSE
      BY <1>1, <1>2
    <2>1. (g - f) * Stride >= Stride
      BY Moduli
    <2>2. (g - f) * Stride = g * Stride - f * Stride
      BY Moduli
    <2>3. f * Stride \in Int /\ g * Stride \in Int
      BY Moduli
    <2> QED
      BY <2>1, <2>2, <2>3, Moduli
  <1> QED
    BY <1>1, <1>2, <1>3, <1>4, <1>5, f + g \in Nat DEF Whole

(* The whole frames in a number of bytes.                                  *)
LEMMA FramesIn ==
  ASSUME NEW a \in Nat
  PROVE  /\ a \div Stride \in Nat /\ (a \div Stride) * Stride <= a
         /\ Whole(a) => (a \div Stride) * Stride = a
         /\ Whole(a - (a % Stride)) /\ a - (a % Stride) <= a
  <1> DEFINE f == a \div Stride
  <1>1. f \in Int /\ a = Stride * f + (a % Stride) /\ a % Stride \in 0..(Stride - 1)
    BY Moduli, IntDivMod
  <1> HIDE DEF f
  <1>2. Stride * f = f * Stride /\ f * Stride \in Int
    BY <1>1, Moduli
  <1>3. f \in Nat
    <2> SUFFICES ASSUME f <= -1 PROVE FALSE
      BY <1>1
    <2>1. Stride * f <= -Stride
      BY <1>1, Moduli
    <2> QED
      BY <1>1, <1>2, <2>1, Moduli
  <1>4. ASSUME Whole(a) PROVE f * Stride = a
    <2>1. PICK g \in Nat : a = g * Stride
      BY <1>4 DEF Whole
    <2>2. (g * Stride) \div Stride = g
      BY Moduli
    <2> QED
      BY <2>1, <2>2 DEF f
  <1>5. a - (a % Stride) = f * Stride
    BY <1>1, <1>2, Moduli
  <1>6. f * Stride <= a
    BY <1>1, <1>2, Moduli
  <1>7. Whole(a - (a % Stride)) /\ a - (a % Stride) <= a
    BY <1>3, <1>5, <1>6, WholeFrames
  <1> QED
    BY <1>3, <1>4, <1>6, <1>7 DEF f

(* More bytes hold more frames.                                            *)
LEMMA FramesOrder ==
  ASSUME NEW f \in Nat, NEW g \in Nat
  PROVE  (f * Stride <= g * Stride) <=> f <= g
  <1>1. ASSUME g + 1 <= f, f * Stride <= g * Stride PROVE FALSE
    <2>1. (g + 1) * Stride <= f * Stride
      BY <1>1, Moduli
    <2>2. (g + 1) * Stride = g * Stride + Stride
      BY Moduli
    <2>3. f * Stride \in Int /\ g * Stride \in Int
      BY Moduli
    <2> QED
      BY <1>1, <2>1, <2>2, <2>3, Moduli
  <1>2. ASSUME f <= g PROVE f * Stride <= g * Stride
    BY <1>2, Moduli
  <1> QED
    BY <1>1, <1>2

\* Captured bytes, as they are numbered.
Positions == 0..(Numbers - 1)

\* What a ring may hold.
Rings == [0..(RingBytes - 1) -> Positions]

\* n bytes of a ring, from a cursor.
Run(bytes, cursor, n) == [i \in 1..n |-> bytes[Slot(cursor + i - 1)]]

LEMMA RunLength ==
  ASSUME NEW f \in Rings, NEW c \in Int, NEW n \in Nat
  PROVE  /\ Run(f, c, n) \in Seq(Positions) /\ Len(Run(f, c, n)) = n
         /\ \A i \in 1..n : Run(f, c, n)[i] = f[Slot(c + i - 1)]
  <1>1. \A i \in 1..n : Slot(c + i - 1) \in 0..(RingBytes - 1)
    BY SlotInRing
  <1>2. \A i \in 1..n : f[Slot(c + i - 1)] \in Positions
    BY <1>1 DEF Rings
  <1>3. Run(f, c, n) \in Seq(Positions)
    BY <1>2 DEF Run
  <1>4. Len(Run(f, c, n)) = n
    BY DEF Run
  <1> QED
    BY <1>3, <1>4 DEF Run

(* Two runs, one behind the other, are one.                                *)
LEMMA RunSplit ==
  ASSUME NEW f \in Rings, NEW c \in Int, NEW m \in Nat, NEW n \in Nat
  PROVE  Run(f, c, m) \o Run(f, c + m, n) = Run(f, c, m + n)
  <1> DEFINE a == Run(f, c, m)
             b == Run(f, c + m, n)
             ab == Run(f, c, m + n)
  <1>1. /\ a \in Seq(Positions) /\ Len(a) = m
        /\ \A i \in 1..m : a[i] = f[Slot(c + i - 1)]
    BY RunLength
  <1>2. /\ b \in Seq(Positions) /\ Len(b) = n
        /\ \A i \in 1..n : b[i] = f[Slot((c + m) + i - 1)]
    BY RunLength, c + m \in Int
  <1>3. /\ ab \in Seq(Positions) /\ Len(ab) = m + n
        /\ \A i \in 1..(m + n) : ab[i] = f[Slot(c + i - 1)]
    BY RunLength, m + n \in Nat
  <1> HIDE DEF a, b, ab
  <1>4. a \o b \in Seq(Positions) /\ Len(a \o b) = m + n
    BY <1>1, <1>2, ConcatProperties
  <1>5. ASSUME NEW i \in 1..(m + n) PROVE (a \o b)[i] = ab[i]
    <2>1. (a \o b)[i] = IF i <= m THEN a[i] ELSE b[i - m]
      BY <1>1, <1>2, ConcatProperties
    <2>2. CASE i <= m
      <3>1. i \in 1..m
        BY <2>2
      <3>2. a[i] = f[Slot(c + i - 1)] /\ ab[i] = f[Slot(c + i - 1)]
        BY <1>1, <1>3, <3>1
      <3> QED
        BY <2>1, <2>2, <3>2
    <2>3. CASE i > m
      <3>1. i - m \in 1..n /\ (c + m) + (i - m) - 1 = c + i - 1 /\ ~(i <= m)
        BY <2>3
      <3>2. b[i - m] = f[Slot((c + m) + (i - m) - 1)]
        BY <1>2, <3>1
      <3>3. ab[i] = f[Slot(c + i - 1)]
        BY <1>3
      <3>4. (a \o b)[i] = b[i - m]
        BY <2>1, <3>1
      <3>5. b[i - m] = f[Slot(c + i - 1)]
        BY <3>1, <3>2
      <3> QED
        BY <3>3, <3>4, <3>5
    <2>4. i <= m \/ i > m
      OBVIOUS
    <2> QED
      BY <2>2, <2>3, <2>4
  <1>6. a \o b = ab
    BY <1>3, <1>4, <1>5, SeqEqual
  <1> QED
    BY <1>6 DEF a, b, ab

(* A part of a run is a run.                                               *)
LEMMA SubRun ==
  ASSUME NEW f \in Rings, NEW c \in Int, NEW k \in Nat, NEW m \in Nat, NEW n \in Nat,
         k + m <= n
  PROVE  SubSeq(Run(f, c, n), k + 1, k + m) = Run(f, c + k, m)
  <1> DEFINE all == Run(f, c, n)
  <1>1. /\ all \in Seq(Positions) /\ Len(all) = n
        /\ \A i \in 1..n : all[i] = f[Slot(c + i - 1)]
    BY RunLength
  <1> HIDE DEF all
  <1>2. SubSeq(all, k + 1, k + m) = [i \in 1..m |-> all[k + i]]
    <2> DEFINE to == k + m
    <2>1. to \in Nat /\ to - k = m
      OBVIOUS
    <2> HIDE DEF to
    <2>2. SubSeq(all, k + 1, to) = [i \in 1..(to - k) |-> all[k + i]]
      BY <1>1, <2>1
    <2> QED
      BY <2>1, <2>2 DEF to
  <1>3. ASSUME NEW i \in 1..m PROVE all[k + i] = f[Slot(c + k + i - 1)]
    <2>1. k + i \in 1..n /\ c + (k + i) - 1 = c + k + i - 1
      OBVIOUS
    <2> QED
      BY <1>1, <2>1
  <1> QED
    BY <1>2, <1>3 DEF Run, all

(* A run from a cursor that has wrapped.                                   *)
LEMMA RunWrap ==
  ASSUME NEW f, NEW x \in Int, NEW n \in Nat
  PROVE  Run(f, x % CursorMod, n) = Run(f, x, n)
  <1>1. ASSUME NEW i \in 1..n PROVE Slot((x % CursorMod) + i - 1) = Slot(x + i - 1)
    <2>1. i - 1 \in Int /\ x % CursorMod \in Int
      BY Wraps, Moduli DEF Cursors
    <2>2. Slot((x % CursorMod) + (i - 1)) = Slot(x + (i - 1))
      BY <2>1, SlotWrap
    <2>3. (x % CursorMod) + (i - 1) = (x % CursorMod) + i - 1 /\ x + (i - 1) = x + i - 1
      BY <2>1
    <2> QED
      BY <2>2, <2>3
  <1> QED
    BY <1>1 DEF Run

(* A region is cut in two at the end of the ring.                          *)
LEMMA FirstPartBound ==
  ASSUME NEW c \in Cursors, NEW bytes \in Nat
  PROVE  FirstPart(c, bytes) \in Nat /\ FirstPart(c, bytes) <= bytes
  <1>1. Slot(c) \in 0..(RingBytes - 1)
    BY SlotInRing, Moduli DEF Cursors
  <1> QED
    BY <1>1, Moduli DEF FirstPart, Lesser

--------------------------------------------------------------------------------
(* The inductive invariant.                                                *)

\* Bytes published and not consumed, kept by the completion under way, and
\* passed over by the read under way.
Queued == Minus(head, tail)
Kept == Minus(p.head, head)
Skipped == Minus(r.cursor, tail)

\* Bytes the read under way will consume.
Wanted == r.frames * Stride

Transfers == [head : Cursors, tail : Cursors, left : Nat, kept : Seq(Positions)]
Reads == [frames : Nat, whole : BOOLEAN, head : Cursors, cursor : Cursors,
          exempt : BOOLEAN, dst : Seq(Positions)]

CaptureTypes ==
  /\ ring \in Rings
  /\ head \in Cursors /\ tail \in Cursors /\ captured \in Positions
  /\ live \in BOOLEAN
  /\ ppc \in {"idle", "packet"} /\ p \in Transfers
  /\ rpc \in {"out", "load", "short", "first", "second", "commit"} /\ r \in Reads

\* Outside a session nobody holds a cursor and the ring is empty.
SessionInv ==
  /\ ctl # "active" => ~active /\ ppc = "idle" /\ rpc = "out"
  /\ ctl \in {"stopped", "starting", "begin"} => head = 0 /\ tail = 0
  /\ ctl = "clearing" => head = 0

\* The queue fits the ring and holds whole frames.
QueueInv == ctl # "clearing" => Queued <= RingBytes /\ Whole(Queued)

\* The stale tail of a completion only makes the queue look longer than it is,
\* so the bytes it keeps fit behind the ones that are really queued.
ProducerInv ==
  /\ ppc = "idle" => p.kept = <<>>
  /\ ppc = "packet" => /\ Whole(Kept) /\ Queued + Kept <= Minus(p.head, p.tail)
                       /\ Minus(p.head, p.tail) <= RingBytes
                       /\ p.kept = Run(ring, head, Kept)

\* The stale head of a read only makes the queue look shorter; the bytes it
\* has copied are still in the ring.
ReaderInv ==
  /\ rpc = "load" => /\ r.frames \in Quanta
                     /\ Minus(r.head, tail) <= Queued /\ Whole(Minus(r.head, tail))
  /\ rpc \in {"short", "first", "second", "commit"} =>
       Whole(Skipped) /\ Skipped + Wanted <= Queued
  /\ rpc \in {"first", "second", "commit"} => r.frames > 0
  /\ rpc = "first" => r.dst = <<>>
  /\ rpc = "second" => r.dst = Run(ring, r.cursor, FirstPart(r.cursor, Wanted))
  /\ rpc = "commit" => r.dst = Run(ring, r.cursor, Wanted)

CaptureInv == CaptureTypes /\ SessionInv /\ QueueInv /\ ProducerInv /\ ReaderInv

(* The empty transfer and the empty read.                                  *)
LEMMA Nones == NoTransfer \in Transfers /\ NoRead \in Reads /\ NoTransfer.kept = <<>>
  <1>1. 0 \in Cursors
    BY Moduli
  <1>2. NoTransfer \in Transfers
    BY <1>1 DEF NoTransfer, Transfers
  <1>3. NoRead \in Reads
    BY <1>1 DEF NoRead, Reads
  <1> QED
    BY <1>2, <1>3 DEF NoTransfer

(* The numbers of bytes the invariant speaks of.                           *)
LEMMA Amounts ==
  ASSUME CaptureTypes
  PROVE  /\ Queued \in Nat /\ Kept \in Nat /\ Skipped \in Nat /\ Wanted \in Nat
         /\ Minus(p.head, p.tail) \in Nat /\ Minus(r.head, tail) \in Nat
         /\ r.frames \in Nat /\ Whole(Wanted)
         /\ p.head \in Cursors /\ p.tail \in Cursors /\ r.head \in Cursors
         /\ r.cursor \in Cursors /\ head \in Cursors /\ tail \in Cursors
         /\ head \in Int /\ tail \in Int /\ r.cursor \in Int /\ p.head \in Int
  <1>1. /\ p.head \in Cursors /\ p.tail \in Cursors /\ r.head \in Cursors
        /\ r.cursor \in Cursors /\ head \in Cursors /\ tail \in Cursors
        /\ r.frames \in Nat
    BY DEF CaptureTypes, Transfers, Reads
  <1>2. Cursors \subseteq Nat /\ Cursors \subseteq Int
    BY Moduli DEF Cursors
  <1>3. /\ Queued \in Cursors /\ Kept \in Cursors /\ Skipped \in Cursors
        /\ Minus(p.head, p.tail) \in Cursors /\ Minus(r.head, tail) \in Cursors
    BY <1>1, MinusLeads DEF Queued, Kept, Skipped
  <1>4. Wanted \in Nat /\ Whole(Wanted)
    BY <1>1, WholeFrames DEF Wanted
  <1> QED
    BY <1>1, <1>2, <1>3, <1>4

LEMMA CaptureInit == Init => CaptureInv
  <1> SUFFICES ASSUME Init PROVE CaptureInv
    OBVIOUS
  <1>1. /\ ring = [slot \in 0..(RingBytes - 1) |-> 0] /\ head = 0 /\ tail = 0
        /\ captured = 0 /\ ctl = "stopped" /\ ppc = "idle" /\ p = NoTransfer
        /\ rpc = "out" /\ r = NoRead
    BY DEF Init
  <1>2. live \in BOOLEAN /\ ~active
    BY Zenon DEF Init
  <1>3. 0 \in Positions /\ 0 \in Cursors
    BY Moduli DEF Positions
  <1>4. CaptureTypes
    BY <1>1, <1>2, <1>3, Nones DEF CaptureTypes, Rings
  <1>5. Queued = 0
    BY <1>1, Moduli DEF Queued, Minus
  <1> QED
    BY <1>1, <1>2, <1>4, <1>5, Nones, Moduli, WholeFrames
    DEF CaptureInv, SessionInv, QueueInv, ProducerInv, ReaderInv

--------------------------------------------------------------------------------
(* The control thread.                                                     *)

(* A step that leaves the ring and both its users alone.                   *)
LEMMA ControlKeeps ==
  ASSUME CaptureInv, UNCHANGED <<ring, head, tail, ppc, p, rpc, r>>,
         captured' \in Positions, live' \in BOOLEAN, SessionInv',
         ctl' # "clearing" => ctl # "clearing"
  PROVE  CaptureInv'
  <1>1. CaptureTypes'
    BY DEF CaptureInv, CaptureTypes
  <1>2. /\ Queued' = Queued /\ Kept' = Kept /\ Skipped' = Skipped /\ Wanted' = Wanted
        /\ Minus(p.head, p.tail)' = Minus(p.head, p.tail)
        /\ Minus(r.head, tail)' = Minus(r.head, tail)
    BY DEF Queued, Kept, Skipped, Wanted, Minus
  <1>3. QueueInv'
    BY <1>2 DEF CaptureInv, QueueInv
  <1>4. ProducerInv' /\ ReaderInv'
    BY <1>2 DEF CaptureInv, ProducerInv, ReaderInv, FirstPart, Slot
  <1> QED
    BY <1>1, <1>3, <1>4 DEF CaptureInv

LEMMA ControlStep ==
  ASSUME RenderJoined, CaptureInv, Control \/ RequestStop
  PROVE  CaptureInv'
  <1>0. /\ live \in BOOLEAN /\ SessionInv /\ captured \in Positions
        /\ 0 \in Positions /\ 0 \in Cursors
    BY Moduli DEF CaptureInv, CaptureTypes, Positions
  <1>1. CASE RequestStop
    <2>1. /\ UNCHANGED <<ring, head, tail, captured, live, ctl, ppc, p, rpc, r>>
          /\ active' = FALSE
      BY <1>1 DEF RequestStop, ringVars, producer, reader
    <2>2. SessionInv'
      BY <1>0, <2>1 DEF SessionInv
    <2> QED
      BY <1>0, <2>1, <2>2, ControlKeeps
  <1>2. CASE ClearHead
    <2>1. /\ ctl = "active" /\ ctl' = "clearing" /\ head' = 0 /\ ppc = "idle"
          /\ UNCHANGED <<ring, tail, captured, live, active, ppc, p, rpc, r>>
      BY <1>2 DEF ClearHead, producer, reader
    <2>2. rpc = "out" /\ ~active
      BY <1>2 DEF ClearHead
    <2>3. CaptureTypes'
      BY <1>0, <2>1 DEF CaptureInv, CaptureTypes
    <2>4. SessionInv' /\ QueueInv'
      BY <2>1, <2>2 DEF SessionInv, QueueInv
    <2>5. ProducerInv' /\ ReaderInv'
      BY <2>1, <2>2 DEF CaptureInv, ProducerInv, ReaderInv
    <2> QED
      BY <2>3, <2>4, <2>5 DEF CaptureInv
  <1>3. ASSUME NEW call \in {"stop", "start"}, ClearTail(call)
        PROVE  CaptureInv'
    <2>1. /\ ctl = "clearing" /\ ctl' \in {"starting", "stopped"} /\ tail' = 0
          /\ captured' = 0
          /\ UNCHANGED <<ring, head, active, ppc, p, rpc, r>>
      BY <1>3 DEF ClearTail, producer, reader
    <2>2. live' \in BOOLEAN
      BY <1>3, <1>0, Zenon DEF ClearTail
    <2>3. head = 0 /\ ~active /\ ppc = "idle" /\ rpc = "out"
      BY <1>0, <2>1 DEF SessionInv
    <2>4. CaptureTypes'
      BY <1>0, <2>1, <2>2 DEF CaptureInv, CaptureTypes
    <2>5. Queued' = 0
      BY <2>1, <2>3, Moduli DEF Queued, Minus
    <2>6. SessionInv' /\ QueueInv'
      BY <2>1, <2>3, <2>5, WholeFrames, Moduli DEF SessionInv, QueueInv
    <2>7. ProducerInv' /\ ReaderInv'
      BY <2>1, <2>3 DEF CaptureInv, ProducerInv, ReaderInv
    <2> QED
      BY <2>4, <2>6, <2>7 DEF CaptureInv
  <1>4. CASE StartDuplex \/ StartHead \/ StartCapturePump
    <2>1. /\ ctl \in {"stopped", "starting", "begin"}
          /\ ctl' \in {"starting", "begin", "active"}
          /\ ctl' = "active" \/ UNCHANGED active
          /\ UNCHANGED <<ring, captured, live, ppc, p, rpc, r>>
          /\ head' \in {0, head} /\ tail' \in {0, tail}
      BY <1>4 DEF StartDuplex, StartHead, StartCapturePump, producer, reader, ringVars
    <2>2. UNCHANGED <<head, tail>> /\ head' = 0 /\ tail' = 0
      BY <1>0, <2>1 DEF SessionInv
    <2>3. SessionInv'
      BY <1>0, <2>1, <2>2 DEF SessionInv
    <2> QED
      BY <1>0, <2>1, <2>2, <2>3, ControlKeeps
  <1> QED
    BY <1>1, <1>2, <1>3, <1>4 DEF Control

--------------------------------------------------------------------------------
(* onCapture().                                                            *)

(* A run of no bytes.                                                      *)
LEMMA RunEmpty ==
  ASSUME NEW f, NEW c
  PROVE  Run(f, c, 0) = <<>>
  BY DEF Run

(* The queue while a completion or a read is under way.                    *)
LEMMA QueueInUse ==
  ASSUME CaptureInv, ppc = "packet" \/ rpc # "out" \/ active
  PROVE  ctl = "active" /\ Queued <= RingBytes /\ Whole(Queued)
  BY DEF CaptureInv, SessionInv, QueueInv

(* Where a completion stands behind the queue.                             *)
LEMMA ProducerPlace ==
  ASSUME CaptureInv, ppc = "packet"
  PROVE  /\ Minus(p.head, tail) = Queued + Kept
         /\ (head + Kept) % CursorMod = p.head
         /\ Queued + Kept <= RingBytes
  <1>1. CaptureTypes
    BY DEF CaptureInv
  <1>2. /\ Queued + Kept <= Minus(p.head, p.tail) /\ Minus(p.head, p.tail) <= RingBytes
        /\ Queued \in Nat /\ Kept \in Nat /\ Minus(p.head, p.tail) \in Nat
        /\ p.head \in Cursors /\ head \in Cursors /\ tail \in Cursors
    BY <1>1, Amounts DEF CaptureInv, ProducerInv
  <1>3. (head + Kept) % CursorMod = p.head
    BY <1>2, MinusLeads DEF Kept
  <1>4. Queued + Kept < CursorMod /\ Queued + Kept <= RingBytes
    BY <1>2, Moduli
  <1>5. Minus((head + Kept) % CursorMod, tail) = Queued + Kept
    BY <1>2, <1>4, MoveHead DEF Queued
  <1> QED
    BY <1>3, <1>4, <1>5

(* A packet keeps whole frames, as many as the completion's tail leaves    *)
(* room for.                                                               *)
LEMMA KeptFits ==
  ASSUME CaptureInv, ppc = "packet", NEW frames \in Nat, NEW keep,
         keep = KeptOf(frames * Stride)
  PROVE  /\ keep \in Nat /\ Whole(keep)
         /\ Minus(p.head, p.tail) + keep <= RingBytes
         /\ Queued + Kept + keep <= RingBytes
  <1> DEFINE m == Minus(p.head, p.tail)
             free == RingBytes - m
             room == free - (free % Stride)
             bytes == frames * Stride
  <1>1. m \in Nat /\ m <= RingBytes /\ Queued + Kept <= m /\ Queued \in Nat /\ Kept \in Nat
    <2>1. CaptureTypes
      BY DEF CaptureInv
    <2> QED
      BY <2>1, Amounts DEF CaptureInv, ProducerInv
  <1>2. keep = Lesser(bytes, room)
    BY DEF KeptOf
  <1>3. bytes \in Nat /\ Whole(bytes)
    BY WholeFrames
  <1> HIDE DEF m, bytes
  <1>4. free \in Nat
    BY <1>1, Moduli
  <1> HIDE DEF free
  <1>5. Whole(room) /\ room <= free
    BY <1>4, FramesIn
  <1>6. room \in Nat
    BY <1>5, WholeFrames
  <1> HIDE DEF room
  <1>7. keep \in Nat /\ Whole(keep) /\ keep <= free
    BY <1>2, <1>3, <1>4, <1>5, <1>6 DEF Lesser
  <1>8. m + keep <= RingBytes
    BY <1>1, <1>7, Moduli DEF free
  <1>9. Queued + Kept + keep <= RingBytes
    BY <1>1, <1>7, <1>8, Moduli
  <1> QED
    BY <1>7, <1>8, <1>9 DEF m

(* Storing a packet writes the slots behind the ones kept before it.       *)
LEMMA StoreWrites ==
  ASSUME CaptureInv, NEW frames \in Nat, StorePacket(frames), NEW keep,
         keep = KeptOf(frames * Stride), NEW k \in 0..(RingBytes - 1)
  PROVE  ring'[Slot(p.head + k)] = IF k < keep THEN (captured + k) % Numbers
                                               ELSE ring[Slot(p.head + k)]
  <1> DEFINE slot == Slot(p.head + k)
  <1>0. CaptureTypes
    BY DEF CaptureInv
  <1>1. p.head \in Int /\ k \in Int /\ -p.head \in Int /\ p.head + k \in Int
    BY <1>0, Amounts, Moduli
  <1>2. slot \in 0..(RingBytes - 1) /\ DOMAIN ring = 0..(RingBytes - 1)
    BY <1>0, <1>1, SlotInRing DEF CaptureTypes, Rings
  <1>3. (slot - p.head) % RingBytes = k
    <2> DEFINE h == p.head
    <2>0. h \in Int /\ -h \in Int /\ h + k \in Int
      BY <1>1
    <2> HIDE DEF h
    <2>1. (((h + k) % RingBytes) + (-h)) % RingBytes = ((h + k) + (-h)) % RingBytes
      BY <2>0, Moduli, ModAdd
    <2>2. (h + k) + (-h) = k /\ k % RingBytes = k
      BY <2>0, <1>1, Moduli
    <2>3. slot - h = ((h + k) % RingBytes) + (-h)
      BY <2>0, <1>2 DEF Slot, h
    <2> QED
      BY <2>1, <2>2, <2>3 DEF h
  <1> HIDE DEF slot
  <1>4. ring'[slot] = LET at == (slot - p.head) % RingBytes
                      IN  IF at < keep THEN (captured + at) % Numbers ELSE ring[slot]
    BY <1>2 DEF StorePacket
  <1>5. ring'[slot] = IF k < keep THEN (captured + k) % Numbers ELSE ring[slot]
    BY <1>3, <1>4
  <1> QED
    BY <1>5 DEF slot

(* What is queued and what was kept before stays as it is.                 *)
LEMMA StoreKeeps ==
  ASSUME CaptureInv, NEW frames \in Nat, StorePacket(frames),
         NEW j \in 0..(Queued + Kept - 1)
  PROVE  ring'[Slot(tail + j)] = ring[Slot(tail + j)]
  <1>0. CaptureTypes /\ ppc = "packet"
    BY DEF CaptureInv, StorePacket
  <1>1. PICK keep : keep = KeptOf(frames * Stride)
    OBVIOUS
  <1>2. keep \in Nat /\ Queued + Kept + keep <= RingBytes
    BY <1>0, <1>1, KeptFits
  <1> DEFINE m == Queued + Kept
             k == (j - m) + RingBytes
  <1>3. m \in Nat /\ Minus(p.head, tail) = m /\ p.head \in Cursors /\ tail \in Cursors
        /\ tail \in Int /\ Queued \in Nat /\ Kept \in Nat
    BY <1>0, Amounts, ProducerPlace
  <1> HIDE DEF m
  <1>4. k \in 0..(RingBytes - 1) /\ ~(k < keep) /\ j \in Int /\ k \in Int
    BY <1>2, <1>3, Moduli DEF m
  <1>5. Slot(p.head + k) = Slot(tail + j)
    <2>1. Slot(p.head + k) = Slot(tail + (m + k))
      BY <1>3, <1>4, SlotBehind
    <2>2. tail + (m + k) = (tail + j) + RingBytes * 1
      BY <1>3, <1>4, Moduli
    <2>3. ((tail + j) + RingBytes * 1) % RingBytes = (tail + j) % RingBytes
      <3> DEFINE x == tail + j
      <3>1. x \in Int
        BY <1>3, <1>4
      <3> HIDE DEF x
      <3>2. (x + RingBytes * 1) % RingBytes = x % RingBytes
        BY <3>1, Moduli, ModShift, 1 \in Int
      <3> QED
        BY <3>2 DEF x
    <2> QED
      BY <2>1, <2>2, <2>3 DEF Slot
  <1> HIDE DEF k
  <1>6. ring'[Slot(p.head + k)] = ring[Slot(p.head + k)]
    BY <1>1, <1>4, StoreWrites
  <1> QED
    BY <1>5, <1>6

LEMMA StoreKeepsRuns ==
  ASSUME CaptureInv, NEW frames \in Nat, StorePacket(frames),
         NEW c, NEW s \in Nat, NEW n \in Nat, c = (tail + s) % CursorMod,
         s + n <= Queued + Kept
  PROVE  Run(ring', c, n) = Run(ring, c, n)
  <1>0. tail \in Int /\ tail + s \in Int /\ Queued \in Nat /\ Kept \in Nat
    BY Amounts DEF CaptureInv
  <1>1. ASSUME NEW i \in 1..n
        PROVE  ring'[Slot((tail + s) + i - 1)] = ring[Slot((tail + s) + i - 1)]
    <2> DEFINE j == s + (i - 1)
    <2>1. j \in 0..(Queued + Kept - 1) /\ (tail + s) + i - 1 = tail + j
      BY <1>0
    <2> HIDE DEF j
    <2> QED
      BY <2>1, StoreKeeps
  <1>2. Run(ring', tail + s, n) = Run(ring, tail + s, n)
    BY <1>1 DEF Run
  <1>3. /\ Run(ring', (tail + s) % CursorMod, n) = Run(ring', tail + s, n)
        /\ Run(ring, (tail + s) % CursorMod, n) = Run(ring, tail + s, n)
    BY <1>0, RunWrap
  <1> QED
    BY <1>2, <1>3

(* Where the head and the read are behind the tail.                        *)
LEMMA Places ==
  ASSUME CaptureTypes
  PROVE  /\ head = (tail + Queued) % CursorMod
         /\ r.cursor = (tail + Skipped) % CursorMod
         /\ tail = (tail + 0) % CursorMod
  <1>1. head \in Cursors /\ tail \in Cursors /\ r.cursor \in Cursors
    BY Amounts
  <1>2. tail + 0 = tail /\ tail % CursorMod = tail
    BY <1>1, Moduli DEF Cursors
  <1> QED
    BY <1>1, <1>2, MinusLeads DEF Queued, Skipped

(* A step of the completion that moves no cursor, on a ring whose queued   *)
(* bytes it leaves as they are.                                            *)
LEMMA ProducerKeeps ==
  ASSUME CaptureInv, ctl = "active", UNCHANGED <<head, tail, live, active, ctl, rpc, r>>,
         ring' \in Rings, captured' \in Positions, ppc' \in {"idle", "packet"},
         p' \in Transfers, ProducerInv',
         \A n \in Nat : Skipped + n <= Queued => Run(ring', r.cursor, n) = Run(ring, r.cursor, n)
  PROVE  CaptureInv'
  <1>1. CaptureTypes'
    BY DEF CaptureInv, CaptureTypes
  <1>2. SessionInv' /\ QueueInv'
    BY DEF CaptureInv, SessionInv, QueueInv, Queued
  <1>3. /\ Queued' = Queued /\ Skipped' = Skipped /\ Wanted' = Wanted
        /\ Minus(r.head, tail)' = Minus(r.head, tail)
    BY DEF Queued, Skipped, Wanted, Minus
  <1>4. /\ Queued \in Nat /\ Skipped \in Nat /\ Wanted \in Nat
        /\ FirstPart(r.cursor, Wanted) \in Nat /\ FirstPart(r.cursor, Wanted) <= Wanted
    BY Amounts, FirstPartBound DEF CaptureInv
  <1>5. FirstPart(r.cursor, Wanted)' = FirstPart(r.cursor, Wanted)
    BY <1>3 DEF FirstPart, Slot
  <1> DEFINE m == FirstPart(r.cursor, Wanted)
  <1>6. rpc = "second" => Run(ring', r.cursor, m) = Run(ring, r.cursor, m)
    <2> HIDE DEF m
    <2>1. rpc = "second" => Skipped + m <= Queued
      BY <1>4 DEF CaptureInv, ReaderInv, m
    <2> QED
      BY <2>1, <1>4 DEF m
  <1>7. rpc = "commit" => Run(ring', r.cursor, Wanted) = Run(ring, r.cursor, Wanted)
    BY <1>4 DEF CaptureInv, ReaderInv
  <1>8. ReaderInv'
    <2>1. ReaderInv
      BY DEF CaptureInv
    <2>2. rpc' = "second" => r'.dst = Run(ring', r'.cursor, FirstPart(r.cursor, Wanted)')
      BY <1>5, <1>6, <2>1 DEF ReaderInv
    <2>3. rpc' = "commit" => r'.dst = Run(ring', r'.cursor, Wanted')
      BY <1>3, <1>7, <2>1 DEF ReaderInv
    <2> QED
      BY <1>3, <2>1, <2>2, <2>3 DEF ReaderInv
  <1> QED
    BY <1>1, <1>2, <1>8 DEF CaptureInv

(* A completion loads both cursors.                                        *)
LEMMA OnCaptureStep ==
  ASSUME CaptureInv, OnCapture
  PROVE  CaptureInv'
  <1>1. /\ ppc' = "packet" /\ active
        /\ p' = [head |-> head, tail |-> tail, left |-> PerTransfer, kept |-> <<>>]
        /\ UNCHANGED <<ring, head, tail, captured, live, active, ctl, rpc, r>>
    BY DEF OnCapture, ringVars, session, reader
  <1>2. ctl = "active" /\ Queued <= RingBytes
    BY <1>1, QueueInUse
  <1>3. /\ head \in Cursors /\ tail \in Cursors /\ head \in Int /\ Queued \in Nat
        /\ PerTransfer \in Nat /\ ring \in Rings /\ captured \in Positions
    BY Amounts, CaptureAssumption DEF CaptureAssumption, CaptureInv, CaptureTypes
  <1>4. p' \in Transfers /\ p'.head = head /\ p'.tail = tail /\ p'.kept = <<>>
    BY <1>1, <1>3 DEF Transfers
  <1>5. Kept' = 0 /\ Queued' = Queued /\ Minus(p.head, p.tail)' = Queued
    BY <1>1, <1>3, <1>4, Moduli DEF Kept, Queued, Minus
  <1>6. ProducerInv'
    BY <1>1, <1>2, <1>3, <1>4, <1>5, RunEmpty, WholeFrames DEF ProducerInv
  <1> QED
    BY <1>1, <1>2, <1>3, <1>4, <1>6, ProducerKeeps

(* Positions wrap.                                                         *)
LEMMA PositionWraps ==
  ASSUME NEW x \in Int
  PROVE  x % Numbers \in Positions
  BY Moduli, IntDivMod DEF Positions

(* A packet that failed or was empty.                                      *)
LEMMA DropStep ==
  ASSUME CaptureInv, NEW frames \in Packets, DropPacket(frames)
  PROVE  CaptureInv'
  <1>1. /\ ppc = "packet" /\ p.left > 0 /\ p' = [p EXCEPT !.left = @ - 1]
        /\ captured' = (captured + frames * Stride) % Numbers
        /\ UNCHANGED <<ring, head, tail, live, active, ctl, ppc, rpc, r>>
    BY DEF DropPacket, session, reader
  <1>2. ctl = "active"
    BY <1>1, QueueInUse
  <1>3. p \in Transfers /\ ring \in Rings /\ captured \in Int /\ frames \in Nat
    BY CaptureAssumption, Moduli
    DEF CaptureAssumption, CaptureInv, CaptureTypes, Positions
  <1>4. captured' \in Positions
    <2>1. captured + frames * Stride \in Int
      BY <1>3, Moduli
    <2> QED
      BY <1>1, <2>1, PositionWraps
  <1>5. p' \in Transfers /\ p'.head = p.head /\ p'.tail = p.tail /\ p'.kept = p.kept
    BY <1>1, <1>3 DEF Transfers
  <1>6. Kept' = Kept /\ Queued' = Queued /\ Minus(p.head, p.tail)' = Minus(p.head, p.tail)
    BY <1>1, <1>5 DEF Kept, Queued, Minus
  <1>7. ProducerInv'
    BY <1>1, <1>5, <1>6 DEF CaptureInv, ProducerInv
  <1> QED
    BY <1>1, <1>2, <1>3, <1>4, <1>5, <1>7, ProducerKeeps

(* What storing a packet does to the bytes kept.                           *)
LEMMA StoreEffect ==
  ASSUME CaptureInv, NEW frames \in Nat, StorePacket(frames), NEW keep,
         keep = KeptOf(frames * Stride)
  PROVE  /\ ring' \in Rings
         /\ p' \in Transfers /\ p'.tail = p.tail
         /\ p'.kept = p.kept \o [i \in 1..keep |-> (captured + i - 1) % Numbers]
         /\ Kept' = Kept + keep
         /\ Minus(p.head, p.tail)' = Minus(p.head, p.tail) + keep
         /\ p'.kept = Run(ring', head, Kept + keep)
  <1>0. CaptureTypes /\ ppc = "packet" /\ p \in Transfers /\ ring \in Rings
        /\ captured \in Int /\ p.kept \in Seq(Positions) /\ p.left \in Nat /\ p.left > 0
    BY Moduli DEF CaptureInv, CaptureTypes, StorePacket, Positions, Transfers
  <1>1. /\ keep \in Nat /\ Minus(p.head, p.tail) + keep <= RingBytes
        /\ Queued + Kept + keep <= RingBytes
    BY <1>0, KeptFits
  <1>2. /\ Queued \in Nat /\ Kept \in Nat /\ Minus(p.head, p.tail) \in Nat
        /\ p.head \in Cursors /\ p.tail \in Cursors /\ head \in Cursors /\ head \in Int
        /\ p.head \in Int
    BY <1>0, Amounts
  <1> DEFINE pcm == [i \in 1..keep |-> (captured + i - 1) % Numbers]
             h == (p.head + keep) % CursorMod
  <1>3. /\ p' = [p EXCEPT !.head = h, !.left = @ - 1, !.kept = @ \o pcm]
        /\ UNCHANGED head
    BY DEF StorePacket
  <1>4. h \in Cursors /\ Minus(h, p.tail) = Minus(p.head, p.tail) + keep
        /\ Minus(h, head) = Kept + keep
    <2>1. Minus(p.head, p.tail) + keep < CursorMod /\ Minus(p.head, head) + keep < CursorMod
      BY <1>1, <1>2, Moduli DEF Kept
    <2> QED
      BY <1>1, <1>2, <2>1, MoveHead, ZenonT(60) DEF Kept
  <1> HIDE DEF h
  <1>5. pcm \in Seq(Positions) /\ Len(pcm) = keep
    <2>1. \A i \in 1..keep : (captured + i - 1) % Numbers \in Positions
      BY <1>0, <1>1, PositionWraps
    <2> QED
      BY <1>1, <2>1
  <1>6. ring' \in Rings
    <2>1. ring' = [slot \in 0..(RingBytes - 1) |->
                     LET at == (slot - p.head) % RingBytes
                     IN  IF at < keep THEN (captured + at) % Numbers ELSE ring[slot]]
      BY <1>0 DEF StorePacket, Rings
    <2>2. ASSUME NEW slot \in 0..(RingBytes - 1)
          PROVE  (captured + ((slot - p.head) % RingBytes)) % Numbers \in Positions
      <3>1. slot - p.head \in Int
        BY <1>2, Moduli
      <3> DEFINE x == slot - p.head
                 at == x % RingBytes
      <3>2. at \in Int
        <4> HIDE DEF x
        <4>1. x % RingBytes \in 0..(RingBytes - 1)
          BY <3>1, IntDivMod, Moduli DEF x
        <4> QED
          BY <4>1, Moduli
      <3> HIDE DEF at
      <3>3. (captured + at) % Numbers \in Positions
        BY <1>0, <3>2, PositionWraps, captured + at \in Int
      <3> QED
        BY <3>3 DEF at
    <2>3. \A slot \in 0..(RingBytes - 1) : ring[slot] \in Positions
      BY <1>0 DEF Rings
    <2> QED
      BY <2>1, <2>2, <2>3 DEF Rings
  <1>7. Run(ring', head + Kept, keep) = pcm
    <2>1. ASSUME NEW i \in 1..keep
          PROVE  ring'[Slot(p.head + i - 1)] = (captured + i - 1) % Numbers
      <3>1. i - 1 \in 0..(RingBytes - 1) /\ i - 1 < keep /\ p.head + (i - 1) = p.head + i - 1
            /\ captured + (i - 1) = captured + i - 1
        BY <1>0, <1>1, <1>2, Moduli
      <3>2. ring'[Slot(p.head + (i - 1))] = (captured + (i - 1)) % Numbers
        BY <3>1, StoreWrites
      <3> QED
        BY <3>1, <3>2
    <2>2. Run(ring', p.head, keep) = pcm
      BY <2>1 DEF Run
    <2>3. (head + Kept) % CursorMod = p.head /\ head + Kept \in Int
      BY <1>0, <1>2, ProducerPlace
    <2>4. Run(ring', (head + Kept) % CursorMod, keep) = Run(ring', head + Kept, keep)
      BY <1>1, <2>3, RunWrap
    <2> QED
      BY <2>2, <2>3, <2>4
  <1>8. p.kept = Run(ring', head, Kept)
    <2>1. p.kept = Run(ring, head, Kept)
      BY <1>0 DEF CaptureInv, ProducerInv
    <2>2. head = (tail + Queued) % CursorMod
      BY <1>0, Places
    <2>3. Run(ring', head, Kept) = Run(ring, head, Kept)
      BY <1>2, <2>2, StoreKeepsRuns, Queued + Kept <= Queued + Kept
    <2> QED
      BY <2>1, <2>3
  <1> HIDE DEF pcm
  <1>9. p.kept \o pcm \in Seq(Positions)
    BY <1>0, <1>5, ConcatProperties
  <1>10. /\ p' \in Transfers /\ p'.tail = p.tail /\ p'.head = h
         /\ p'.kept = p.kept \o pcm
    <2> DEFINE kept == p.kept \o pcm
               left == p.left - 1
    <2>1. p' = [p EXCEPT !.head = h, !.left = left, !.kept = kept]
      BY <1>3
    <2>2. left \in Nat /\ kept \in Seq(Positions)
      BY <1>0, <1>9
    <2> HIDE DEF kept, left
    <2>3. /\ p' \in Transfers /\ p'.tail = p.tail /\ p'.head = h
          /\ p'.kept = kept
      BY <1>0, <1>4, <2>1, <2>2 DEF Transfers
    <2> QED
      BY <2>3 DEF kept
  <1>11. Kept' = Kept + keep /\ Minus(p.head, p.tail)' = Minus(p.head, p.tail) + keep
    BY <1>3, <1>4, <1>10 DEF Kept, Minus
  <1>12. Run(ring', head, Kept) \o Run(ring', head + Kept, keep)
           = Run(ring', head, Kept + keep)
    BY <1>1, <1>2, <1>6, RunSplit, ZenonT(60)
  <1> QED
    BY <1>6, <1>7, <1>8, <1>10, <1>11, <1>12, ZenonT(60) DEF pcm

LEMMA StoreStep ==
  ASSUME CaptureInv, NEW frames \in Packets, StorePacket(frames)
  PROVE  CaptureInv'
  <1>0. frames \in Nat /\ CaptureTypes
    BY CaptureAssumption DEF CaptureAssumption, CaptureInv
  <1>1. PICK keep : keep = KeptOf(frames * Stride)
    OBVIOUS
  <1>2. /\ ppc = "packet" /\ captured' = (captured + frames * Stride) % Numbers
        /\ UNCHANGED <<head, tail, live, active, ctl, ppc, rpc, r>>
    BY DEF StorePacket, session, reader
  <1>3. ctl = "active"
    BY <1>2, QueueInUse
  <1>4. captured' \in Positions
    <2>1. captured \in Int
      BY <1>0, Moduli DEF CaptureTypes, Positions
    <2>2. captured + frames * Stride \in Int
      BY <1>0, <2>1, Moduli
    <2> QED
      BY <1>2, <2>2, PositionWraps
  <1>5. /\ keep \in Nat /\ Whole(keep) /\ Minus(p.head, p.tail) + keep <= RingBytes
    BY <1>0, <1>1, <1>2, KeptFits
  <1>6. /\ ring' \in Rings /\ p' \in Transfers
        /\ Kept' = Kept + keep
        /\ Minus(p.head, p.tail)' = Minus(p.head, p.tail) + keep
        /\ p'.kept = Run(ring', head, Kept + keep)
    BY <1>0, <1>1, StoreEffect
  <1>7. /\ Queued \in Nat /\ Kept \in Nat /\ Skipped \in Nat
        /\ Minus(p.head, p.tail) \in Nat
    BY <1>0, Amounts
  <1>8. ProducerInv'
    <2>1. Whole(Kept) /\ Queued + Kept <= Minus(p.head, p.tail)
      BY <1>2 DEF CaptureInv, ProducerInv
    <2>2. Whole(Kept') /\ Queued' = Queued
      BY <1>2, <1>5, <1>6, <2>1, WholeSum DEF Queued
    <2>3. Queued' + Kept' <= Minus(p.head, p.tail)' /\ Minus(p.head, p.tail)' <= RingBytes
      BY <1>5, <1>6, <1>7, <2>1, <2>2
    <2> QED
      BY <1>2, <1>6, <2>2, <2>3 DEF ProducerInv
  <1>9. ASSUME NEW n \in Nat, Skipped + n <= Queued
        PROVE  Run(ring', r.cursor, n) = Run(ring, r.cursor, n)
    <2>1. r.cursor = (tail + Skipped) % CursorMod /\ Skipped + n <= Queued + Kept
      BY <1>0, <1>7, <1>9, Places
    <2> QED
      BY <1>0, <1>7, <2>1, StoreKeepsRuns
  <1> QED
    BY <1>2, <1>3, <1>4, <1>6, <1>8, <1>9, ProducerKeeps

(* The kept bytes join the queue.                                          *)
LEMMA PublishMoves ==
  ASSUME CaptureInv, PublishHead
  PROVE  /\ Queued' = Queued + Kept /\ ctl = "active"
         /\ UNCHANGED <<ring, tail, captured, live, active, ctl, rpc, r>>
         /\ p' = NoTransfer /\ ppc' = "idle" /\ head' \in Cursors
  <1>1. /\ ppc = "packet" /\ head' = p.head /\ p' = NoTransfer /\ ppc' = "idle"
        /\ UNCHANGED <<ring, tail, captured, live, active, ctl, rpc, r>>
    BY DEF PublishHead, session, reader
  <1>2. ctl = "active"
    BY <1>1, QueueInUse
  <1>3. Queued' = Queued + Kept
    BY <1>1, ProducerPlace DEF Queued
  <1>4. head' \in Cursors
    BY <1>1, Amounts DEF CaptureInv
  <1> QED
    BY <1>1, <1>2, <1>3, <1>4

LEMMA PublishStep ==
  ASSUME CaptureInv, PublishHead
  PROVE  CaptureInv'
  <1>1. CaptureTypes /\ ppc = "packet"
    BY DEF CaptureInv, PublishHead
  <1>2. CaptureTypes'
    BY <1>1, PublishMoves, Nones DEF CaptureTypes
  <1>3. SessionInv'
    BY PublishMoves DEF CaptureInv, SessionInv
  <1>4. Queued \in Nat /\ Kept \in Nat /\ Queued' \in Nat /\ Queued <= Queued'
    BY <1>1, PublishMoves, Amounts
  <1>5. QueueInv'
    <2>1. Whole(Queued) /\ Whole(Kept) /\ Queued + Kept <= RingBytes
      BY <1>1, QueueInUse, ProducerPlace DEF CaptureInv, ProducerInv
    <2> QED
      BY <2>1, PublishMoves, WholeSum DEF QueueInv
  <1>6. ProducerInv'
    BY PublishMoves, Nones DEF ProducerInv
  <1>7. ReaderInv'
    <2>1. /\ Skipped' = Skipped /\ Wanted' = Wanted
          /\ Minus(r.head, tail)' = Minus(r.head, tail)
          /\ FirstPart(r.cursor, Wanted)' = FirstPart(r.cursor, Wanted)
      BY PublishMoves DEF Skipped, Wanted, Minus, FirstPart, Slot
    <2>2. Skipped \in Nat /\ Wanted \in Nat /\ Minus(r.head, tail) \in Nat
      BY <1>1, Amounts
    <2>3. ReaderInv
      BY DEF CaptureInv
    <2>4. rpc = "load" => Minus(r.head, tail) <= Queued'
      BY <1>4, <2>2, <2>3 DEF ReaderInv
    <2>5. rpc \in {"short", "first", "second", "commit"} => Skipped + Wanted <= Queued'
      BY <1>4, <2>2, <2>3 DEF ReaderInv
    <2> QED
      BY <2>1, <2>3, <2>4, <2>5, PublishMoves DEF ReaderInv
  <1> QED
    BY <1>2, <1>3, <1>5, <1>6, <1>7 DEF CaptureInv

--------------------------------------------------------------------------------
(* The render thread.                                                      *)

(* A step of the read that moves no cursor.                                *)
LEMMA ReaderKeeps ==
  ASSUME CaptureInv, UNCHANGED <<ring, head, tail, captured, live, active, ctl, ppc, p>>,
         ctl = "active", r' \in Reads, ReaderInv',
         rpc' \in {"out", "load", "short", "first", "second", "commit"}
  PROVE  CaptureInv'
  <1>1. CaptureTypes'
    BY DEF CaptureInv, CaptureTypes
  <1>2. SessionInv' /\ QueueInv'
    BY DEF CaptureInv, SessionInv, QueueInv, Queued
  <1>3. ProducerInv'
    BY DEF CaptureInv, ProducerInv, Queued, Kept, Minus
  <1> QED
    BY <1>1, <1>2, <1>3 DEF CaptureInv

(* A read loads the head.                                                  *)
LEMMA ReadStep ==
  ASSUME CaptureInv, NEW frames \in Quanta, NEW whole \in BOOLEAN, Read(frames, whole)
  PROVE  CaptureInv'
  <1>1. /\ rpc' = "load" /\ active
        /\ r' = [NoRead EXCEPT !.frames = frames, !.whole = whole, !.head = head]
        /\ UNCHANGED <<ring, head, tail, captured, live, active, ctl, ppc, p>>
    BY DEF Read, ringVars, session, producer
  <1>2. ctl = "active" /\ Whole(Queued)
    BY <1>1, QueueInUse
  <1>3. frames \in Nat /\ head \in Cursors /\ NoRead \in Reads /\ Queued \in Nat
    BY Amounts, Nones, CaptureAssumption DEF CaptureAssumption, CaptureInv
  <1>4. r' \in Reads /\ r'.frames = frames /\ r'.head = head
    BY <1>1, <1>3 DEF Reads
  <1>5. Queued' = Queued /\ Minus(r.head, tail)' = Queued
    BY <1>1, <1>4 DEF Queued, Minus
  <1>6. ReaderInv'
    BY <1>1, <1>2, <1>3, <1>4, <1>5 DEF ReaderInv
  <1> QED
    BY <1>1, <1>2, <1>4, <1>6, ReaderKeeps

(* The window a read looks back: it starts at the tail or at the limit,    *)
(* and what it wants is queued.                                            *)
LEMMA Window ==
  ASSUME CaptureInv, rpc = "load", NEW limit, limit = FrameLimit * Stride,
         NEW cursor, NEW frames,
         cursor = IF Minus(r.head, tail) > limit THEN Minus(r.head, limit) ELSE tail,
         frames = Lesser(Minus(r.head, cursor) \div Stride, r.frames)
  PROVE  /\ cursor \in Cursors /\ frames \in Nat /\ Whole(Minus(cursor, tail))
         /\ Minus(cursor, tail) + frames * Stride <= Queued
  <1> DEFINE q == Minus(r.head, tail)
  <1>1. /\ q \in Nat /\ q <= Queued /\ Queued \in Nat /\ Whole(q) /\ r.frames \in Nat
        /\ r.head \in Cursors /\ tail \in Cursors /\ q \in Cursors
        /\ Queued <= RingBytes
    BY Amounts, QueueInUse, MinusLeads DEF CaptureInv, ReaderInv
  <1>2. FrameLimit \in Nat
    <2>1. RingBytes \div Stride \in Nat
      BY FramesIn, Moduli
    <2>2. Limit \in Nat
      BY CaptureAssumption DEF CaptureAssumption
    <2> QED
      BY <2>1, <2>2 DEF FrameLimit, Lesser
  <1>3. limit \in Nat /\ Whole(limit)
    BY <1>2, WholeFrames
  <1>4. ASSUME NEW a \in Nat, NEW f, f = Lesser(a \div Stride, r.frames)
        PROVE  f \in Nat /\ f * Stride \in Nat /\ f * Stride <= a
    <2> DEFINE g == a \div Stride
    <2>1. g \in Nat /\ g * Stride <= a
      BY FramesIn
    <2> HIDE DEF g
    <2>2. f \in Nat /\ f <= g
      BY <1>1, <1>4, <2>1 DEF Lesser, g
    <2>3. f * Stride <= g * Stride
      BY <2>1, <2>2, FramesOrder
    <2>4. f * Stride \in Nat /\ g * Stride \in Nat
      BY <2>1, <2>2, Moduli
    <2> QED
      BY <2>1, <2>2, <2>3, <2>4
  <1>5. CASE q > limit
    <2> DEFINE skip == q - limit
    <2>1. skip \in Nat /\ skip <= q /\ q - skip = limit /\ Whole(skip)
      BY <1>1, <1>3, <1>5, WholeSum
    <2>2. cursor = Minus(r.head, limit)
      BY <1>5
    <2>3. cursor = (tail + skip) % CursorMod
      <3>0. (tail + q) % CursorMod = r.head
        BY <1>1, MinusLeads
      <3>1. (tail + q) % CursorMod = r.head /\ tail \in Int /\ -limit \in Int
        BY <3>0, <1>1, <1>3, Moduli DEF Cursors
      <3> HIDE DEF q, skip
      <3>2. (((tail + q) % CursorMod) + (-limit)) % CursorMod = ((tail + q) + (-limit)) % CursorMod
        BY <1>1, <3>1, Moduli, ModAdd, tail + q \in Int
      <3>3. (tail + q) + (-limit) = tail + skip
        BY <1>1, <1>3, <3>1 DEF skip
      <3>4. r.head - limit = r.head + (-limit)
        BY <1>1, <1>3, Moduli DEF Cursors
      <3> QED
        BY <2>2, <3>1, <3>2, <3>3, <3>4 DEF Minus
    <2> HIDE DEF skip
    <2>4. cursor \in Cursors /\ Minus(r.head, cursor) = q - skip
      BY <1>1, <2>1, <2>3, MoveTail
    <2>5. Minus(cursor, tail) = skip
      <3>1. skip \in Cursors
        BY <1>1, <2>1, Moduli DEF Cursors
      <3> QED
        BY <1>1, <2>3, <2>4, <3>1, MinusIs
    <2>6. frames \in Nat /\ frames * Stride \in Nat /\ frames * Stride <= limit
      BY <1>3, <1>4, <2>1, <2>4
    <2>7. skip + frames * Stride <= Queued
      <3> DEFINE b == frames * Stride
      <3>1. b \in Nat /\ b <= limit
        BY <2>6
      <3> HIDE DEF b, q
      <3>2. skip + b <= Queued
        BY <1>1, <1>3, <2>1, <3>1
      <3> QED
        BY <3>2 DEF b
    <2> QED
      BY <2>1, <2>4, <2>5, <2>6, <2>7
  <1>6. CASE ~(q > limit)
    <2>1. cursor = tail
      BY <1>6
    <2>2. Minus(cursor, tail) = 0
      BY <1>1, <2>1, Moduli DEF Minus, Cursors
    <2>3. frames \in Nat /\ frames * Stride \in Nat /\ frames * Stride <= q
      BY <1>1, <1>4, <2>1
    <2>4. 0 + frames * Stride <= Queued
      <3> DEFINE b == frames * Stride
      <3>1. b \in Nat /\ b <= q
        BY <2>3
      <3> HIDE DEF b, q
      <3>2. 0 + b <= Queued
        BY <1>1, <3>1
      <3> QED
        BY <3>2 DEF b
    <2> QED
      BY <1>1, <2>1, <2>2, <2>3, <2>4, WholeFrames
  <1> QED
    BY <1>5, <1>6

LEMMA PrepareStep ==
  ASSUME CaptureInv, Prepare
  PROVE  CaptureInv'
  <1>1. PICK limit : limit = FrameLimit * Stride
    OBVIOUS
  <1>2. PICK cursor : cursor = IF Minus(r.head, tail) > limit THEN Minus(r.head, limit) ELSE tail
    OBVIOUS
  <1>3. PICK frames : frames = Lesser(Minus(r.head, cursor) \div Stride, r.frames)
    OBVIOUS
  <1>4. /\ rpc = "load" /\ rpc' \in {"short", "first"}
        /\ rpc' = "first" => ~(frames < r.frames /\ frames = 0)
        /\ UNCHANGED <<ring, head, tail, captured, live, active, ctl, ppc, p>>
    BY <1>1, <1>2, <1>3 DEF Prepare, ringVars, session, producer
  <1>5. PICK exempt \in BOOLEAN :
          r' = [NoRead EXCEPT !.cursor = cursor, !.frames = frames, !.exempt = exempt]
    <2> DEFINE exempt == ~live
    <2>1. r' = [NoRead EXCEPT !.cursor = cursor, !.frames = frames, !.exempt = exempt]
      BY <1>1, <1>2, <1>3, Zenon DEF Prepare
    <2>2. exempt \in BOOLEAN
      BY Zenon
    <2> HIDE DEF exempt
    <2> QED
      BY <2>1, <2>2, Zenon
  <1>6. /\ cursor \in Cursors /\ frames \in Nat /\ Whole(Minus(cursor, tail))
        /\ Minus(cursor, tail) + frames * Stride <= Queued
    BY <1>1, <1>2, <1>3, <1>4, Window
  <1>7. ctl = "active" /\ r.frames \in Quanta /\ NoRead \in Reads
    BY <1>4, QueueInUse, Nones DEF CaptureInv, ReaderInv
  <1>8. r' \in Reads /\ r'.cursor = cursor /\ r'.frames = frames /\ r'.dst = <<>>
    BY <1>5, <1>6, <1>7 DEF Reads, NoRead
  <1>9. rpc' = "first" => frames > 0
    <2>1. \A quantum \in Quanta : quantum \in Nat /\ quantum > 0
      BY CaptureAssumption DEF CaptureAssumption
    <2>2. r.frames \in Nat /\ r.frames > 0
      BY <1>7, <2>1
    <2> QED
      BY <1>4, <1>6, <2>2
  <1>10. Queued' = Queued /\ Skipped' = Minus(cursor, tail) /\ Wanted' = frames * Stride
    BY <1>4, <1>8 DEF Queued, Skipped, Wanted
  <1>11. ReaderInv'
    BY <1>4, <1>6, <1>8, <1>9, <1>10 DEF ReaderInv
  <1> QED
    BY <1>4, <1>7, <1>8, <1>11, ReaderKeeps

(* The two halves of the region are copied one after the other.            *)
LEMMA CopyStep ==
  ASSUME CaptureInv, CopyFirst \/ CopySecond
  PROVE  CaptureInv'
  <1> DEFINE m == FirstPart(r.cursor, Wanted)
             n == Wanted - m
  <1>1. /\ rpc \in {"first", "second"} /\ rpc' \in {"second", "commit"}
        /\ UNCHANGED <<ring, head, tail, captured, live, active, ctl, ppc, p>>
    BY DEF CopyFirst, CopySecond, ringVars, session, producer
  <1>2. /\ ctl = "active" /\ r \in Reads /\ ring \in Rings /\ r.cursor \in Int
        /\ Wanted \in Nat /\ r.cursor \in Cursors /\ r.dst \in Seq(Positions) /\ ReaderInv
    BY <1>1, QueueInUse, Amounts DEF CaptureInv, CaptureTypes, Reads
  <1>3. m \in Nat /\ m <= Wanted
    BY <1>2, FirstPartBound
  <1>4. n \in Nat /\ m + n = Wanted
    BY <1>2, <1>3
  <1> HIDE DEF m, n
  <1>5. Run(ring, r.cursor, m) \in Seq(Positions)
        /\ Run(ring, r.cursor, Wanted) \in Seq(Positions)
        /\ Run(ring, r.cursor, m) \o Run(ring, r.cursor + m, n) = Run(ring, r.cursor, Wanted)
    BY <1>2, <1>3, <1>4, RunLength, RunSplit
  <1>6. \E run \in Seq(Positions) :
          /\ r' = [r EXCEPT !.dst = run]
          /\ rpc' = "second" => run = Run(ring, r.cursor, m)
          /\ rpc' = "commit" => run = Run(ring, r.cursor, Wanted)
    <2>1. CASE CopyFirst
      <3>1. /\ rpc = "first" /\ r.dst = <<>>
            /\ r' = [r EXCEPT !.dst = r.dst \o [i \in 1..(m - 0) |->
                                                  ring[Slot(r.cursor + 0 + i - 1)]]]
            /\ rpc' = IF m < Wanted THEN "second" ELSE "commit"
        BY <1>2, <2>1 DEF CopyFirst, CopyRun, ReaderInv, m, Wanted
      <3>2. [i \in 1..(m - 0) |-> ring[Slot(r.cursor + 0 + i - 1)]] = Run(ring, r.cursor, m)
        BY <1>2, <1>3 DEF Run
      <3>3. r' = [r EXCEPT !.dst = Run(ring, r.cursor, m)]
        BY <1>5, <3>1, <3>2, ConcatEmptySeq
      <3>4. rpc' = "commit" => m = Wanted
        BY <1>2, <1>3, <3>1
      <3> QED
        BY <1>5, <3>3, <3>4
    <2>2. CASE CopySecond
      <3>1. /\ rpc = "second" /\ rpc' = "commit" /\ r.dst = Run(ring, r.cursor, m)
            /\ r' = [r EXCEPT !.dst = r.dst \o [i \in 1..(Wanted - m) |->
                                                  ring[Slot(r.cursor + m + i - 1)]]]
        BY <1>2, <2>2 DEF CopySecond, CopyRun, ReaderInv, m, Wanted
      <3>2. [i \in 1..(Wanted - m) |-> ring[Slot(r.cursor + m + i - 1)]]
              = Run(ring, r.cursor + m, n)
        BY DEF Run, n
      <3> QED
        BY <1>5, <3>1, <3>2
    <2> QED
      BY <2>1, <2>2
  <1>7. PICK run \in Seq(Positions) :
          /\ r' = [r EXCEPT !.dst = run]
          /\ rpc' = "second" => run = Run(ring, r.cursor, m)
          /\ rpc' = "commit" => run = Run(ring, r.cursor, Wanted)
    BY <1>6
  <1>8. /\ r' \in Reads /\ r'.cursor = r.cursor /\ r'.frames = r.frames /\ r'.dst = run
    BY <1>2, <1>7 DEF Reads
  <1>9. Queued' = Queued /\ Skipped' = Skipped /\ Wanted' = Wanted
    BY <1>1, <1>8 DEF Queued, Skipped, Wanted
  <1>10. FirstPart(r.cursor, Wanted)' = m
    BY <1>8, <1>9 DEF FirstPart, Slot, m
  <1>11. ReaderInv'
    BY <1>1, <1>2, <1>7, <1>8, <1>9, <1>10 DEF ReaderInv
  <1> QED
    BY <1>1, <1>2, <1>8, <1>11, ReaderKeeps

(* The render thread gives whole frames back.                              *)
LEMMA TailMoves ==
  ASSUME CaptureInv, ctl = "active", NEW n \in Nat, n <= Queued, Whole(n),
         tail' = (tail + n) % CursorMod, live' \in BOOLEAN, rpc' = "out", r' \in Reads,
         UNCHANGED <<ring, head, captured, active, ctl, ppc, p>>
  PROVE  CaptureInv' /\ Queued' = Queued - n
  <1>1. /\ CaptureTypes /\ head \in Cursors /\ tail \in Cursors /\ Queued \in Nat
        /\ Kept \in Nat /\ Minus(p.head, p.tail) \in Nat
    BY Amounts DEF CaptureInv
  <1>2. tail' \in Cursors /\ Queued' = Queued - n
    BY <1>1, MoveTail DEF Queued
  <1>3. CaptureTypes'
    BY <1>1, <1>2 DEF CaptureTypes
  <1>4. SessionInv' /\ ReaderInv'
    BY DEF CaptureInv, SessionInv, ReaderInv
  <1>5. QueueInv'
    <2>1. Queued <= RingBytes /\ Whole(Queued)
      BY DEF CaptureInv, QueueInv
    <2>2. Queued - n <= RingBytes
      BY <1>1, <2>1, Moduli
    <2>3. Whole(Queued - n)
      BY <2>1, WholeSum
    <2> QED
      BY <1>2, <2>2, <2>3 DEF QueueInv
  <1>6. ProducerInv'
    <2>1. Kept' = Kept /\ Minus(p.head, p.tail)' = Minus(p.head, p.tail)
      BY DEF Kept, Minus
    <2>2. ppc = "packet" => Queued' + Kept <= Minus(p.head, p.tail)
      BY <1>1, <1>2 DEF CaptureInv, ProducerInv
    <2> QED
      BY <2>1, <2>2 DEF CaptureInv, ProducerInv
  <1> QED
    BY <1>2, <1>3, <1>4, <1>5, <1>6 DEF CaptureInv

(* Where a read ends.                                                      *)
LEMMA ReadEnd ==
  ASSUME CaptureInv, rpc \in {"short", "first", "second", "commit"}
  PROVE  /\ Skipped \in Nat /\ Wanted \in Nat /\ Skipped + Wanted \in Nat
         /\ Skipped + Wanted <= Queued /\ Whole(Skipped) /\ Whole(Skipped + Wanted)
         /\ (r.cursor + Wanted) % CursorMod = (tail + (Skipped + Wanted)) % CursorMod
         /\ ctl = "active"
  <1>1. /\ CaptureTypes /\ ctl = "active" /\ Skipped \in Nat /\ Wanted \in Nat
        /\ Whole(Wanted) /\ tail \in Int
    BY Amounts, QueueInUse DEF CaptureInv
  <1>2. Skipped + Wanted <= Queued /\ Whole(Skipped)
    BY DEF CaptureInv, ReaderInv
  <1>3. Whole(Skipped + Wanted)
    BY <1>1, <1>2, WholeSum
  <1>4. r.cursor = (tail + Skipped) % CursorMod
    BY <1>1, Places
  <1>5. (((tail + Skipped) % CursorMod) + Wanted) % CursorMod
          = ((tail + Skipped) + Wanted) % CursorMod
    <2> DEFINE x == tail + Skipped
    <2>1. x \in Int /\ Wanted \in Int
      BY <1>1
    <2> HIDE DEF x
    <2>2. ((x % CursorMod) + Wanted) % CursorMod = (x + Wanted) % CursorMod
      BY <2>1, Moduli, ModAdd
    <2> QED
      BY <2>2 DEF x
  <1>6. (tail + Skipped) + Wanted = tail + (Skipped + Wanted)
    BY <1>1
  <1> QED
    BY <1>1, <1>2, <1>3, <1>4, <1>5, <1>6

(* The steps that give frames back, and how many bytes.                    *)
LEMMA GivesBack ==
  ASSUME CaptureInv,
         \/ Commit \/ CommitShort
         \/ \E frames \in Quanta : DiscardCaptureFrames(frames)
         \/ \E keep \in Quanta \cup {0} : BeginCaptureLive(keep) /\ tail' # tail
  PROVE  \E n \in Nat :
           /\ n <= Queued /\ Whole(n) /\ tail' = (tail + n) % CursorMod
           /\ Commit => n = Skipped + Wanted
           /\ live' \in BOOLEAN /\ rpc' = "out" /\ r' \in Reads /\ ctl = "active"
           /\ UNCHANGED <<ring, head, captured, active, ctl, ppc, p>>
  <1>0. /\ CaptureTypes /\ live \in BOOLEAN /\ NoRead \in Reads /\ r \in Reads
        /\ Queued \in Nat /\ tail = (tail + 0) % CursorMod /\ tail \in Int
    BY Nones, Amounts, Places DEF CaptureInv, CaptureTypes
  <1>1. CASE Commit
    <2>1. /\ rpc = "commit" /\ tail' = (r.cursor + Wanted) % CursorMod
          /\ rpc' = "out" /\ r' = NoRead
          /\ UNCHANGED <<ring, head, captured, live, active, ctl, ppc, p>>
      BY <1>1 DEF Commit, Wanted, session, producer
    <2> QED
      BY <1>0, <2>1, ReadEnd
  <1>2. CASE CommitShort
    <2>1. /\ rpc = "short" /\ rpc' = "out" /\ r' = NoRead
          /\ tail' = IF r.frames > 0 THEN (r.cursor + Wanted) % CursorMod ELSE tail
          /\ UNCHANGED <<ring, head, captured, live, active, ctl, ppc, p>>
          /\ ~Commit
      BY <1>2 DEF CommitShort, Commit, Wanted, session, producer
    <2>2. CASE r.frames > 0
      BY <1>0, <2>1, <2>2, ReadEnd
    <2>3. CASE ~(r.frames > 0)
      BY <1>0, <2>1, <2>3, ReadEnd, WholeFrames
    <2> QED
      BY <2>2, <2>3
  <1>3. ASSUME NEW f \in Nat, f <= Queued \div Stride
        PROVE  f * Stride \in Nat /\ f * Stride <= Queued /\ Whole(f * Stride)
    <2> DEFINE g == Queued \div Stride
    <2>1. g \in Nat /\ g * Stride <= Queued /\ g * Stride \in Nat
      BY <1>0, FramesIn, Moduli
    <2>2. f <= g
      BY <1>3
    <2> HIDE DEF g
    <2>3. f * Stride <= g * Stride /\ f * Stride \in Nat
      BY <2>1, <2>2, FramesOrder, Moduli
    <2> QED
      BY <1>0, <2>1, <2>3, WholeFrames
  <1>4. ASSUME NEW most \in Quanta, DiscardCaptureFrames(most)
        PROVE  \E n \in Nat :
                 /\ n <= Queued /\ Whole(n) /\ tail' = (tail + n) % CursorMod
                 /\ Commit => n = Skipped + Wanted
                 /\ live' \in BOOLEAN /\ rpc' = "out" /\ r' \in Reads /\ ctl = "active"
                 /\ UNCHANGED <<ring, head, captured, active, ctl, ppc, p>>
    <2> DEFINE f == Lesser(Queued \div Stride, most)
    <2>1. /\ rpc = "out" /\ active /\ tail' = (tail + f * Stride) % CursorMod
          /\ UNCHANGED <<ring, head, captured, live, active, ctl, ppc, p, rpc, r>>
          /\ ~Commit
      BY <1>4 DEF DiscardCaptureFrames, Commit, Queued, session, producer, reader
    <2>2. ctl = "active"
      BY <2>1, QueueInUse
    <2>3. f \in Nat /\ f <= Queued \div Stride
      <3> DEFINE g == Queued \div Stride
      <3>1. g \in Nat /\ most \in Nat
        BY <1>0, FramesIn, CaptureAssumption DEF CaptureAssumption
      <3> HIDE DEF g
      <3> QED
        BY <3>1 DEF Lesser, g
    <2> HIDE DEF f
    <2> QED
      BY <1>0, <1>3, <2>1, <2>2, <2>3
  <1>5. ASSUME NEW keep \in Quanta \cup {0}, BeginCaptureLive(keep), tail' # tail
        PROVE  \E n \in Nat :
                 /\ n <= Queued /\ Whole(n) /\ tail' = (tail + n) % CursorMod
                 /\ Commit => n = Skipped + Wanted
                 /\ live' \in BOOLEAN /\ rpc' = "out" /\ r' \in Reads /\ ctl = "active"
                 /\ UNCHANGED <<ring, head, captured, active, ctl, ppc, p>>
    <2> DEFINE g == Queued \div Stride
               f == g - keep
    <2>1. /\ rpc = "out" /\ active /\ g > keep /\ tail' = (tail + f * Stride) % CursorMod
          /\ UNCHANGED <<ring, head, captured, active, ctl, ppc, p, rpc, r>>
          /\ ~Commit
      BY <1>5 DEF BeginCaptureLive, Commit, Queued, session, producer, reader
    <2>2. live' \in BOOLEAN
      BY <1>5, Zenon DEF BeginCaptureLive
    <2>3. ctl = "active"
      BY <2>1, QueueInUse
    <2>4. f \in Nat /\ f <= g
      <3>1. g \in Nat /\ keep \in Nat
        BY <1>0, FramesIn, CaptureAssumption DEF CaptureAssumption
      <3> HIDE DEF g
      <3> QED
        BY <2>1, <3>1
    <2>5. f * Stride \in Nat /\ f * Stride <= Queued /\ Whole(f * Stride)
      <3> HIDE DEF f
      <3> QED
        BY <1>3, <2>4
    <2> HIDE DEF f
    <2> QED
      BY <1>0, <2>1, <2>2, <2>3, <2>5
  <1> QED
    BY <1>1, <1>2, <1>4, <1>5

LEMMA GiveBackStep ==
  ASSUME CaptureInv,
         \/ Commit \/ CommitShort
         \/ \E frames \in Quanta : DiscardCaptureFrames(frames)
         \/ \E keep \in Quanta \cup {0} : BeginCaptureLive(keep)
  PROVE  CaptureInv'
  <1>1. CASE \/ Commit \/ CommitShort
             \/ \E frames \in Quanta : DiscardCaptureFrames(frames)
             \/ \E keep \in Quanta \cup {0} : BeginCaptureLive(keep) /\ tail' # tail
    BY <1>1, GivesBack, TailMoves
  <1>2. ASSUME NEW keep \in Quanta \cup {0}, BeginCaptureLive(keep), tail' = tail
        PROVE  CaptureInv'
    <2>1. UNCHANGED <<ring, head, tail, captured, active, ctl, ppc, p, rpc, r>>
      BY <1>2 DEF BeginCaptureLive, session, producer, reader
    <2>2. live' \in BOOLEAN
      BY <1>2, Zenon DEF BeginCaptureLive
    <2>3. SessionInv' /\ captured \in Positions
      BY <2>1 DEF CaptureInv, CaptureTypes, SessionInv
    <2> QED
      BY <2>1, <2>2, <2>3, ControlKeeps
  <1> QED
    BY <1>1, <1>2

LEMMA CaptureStep ==
  ASSUME RenderJoined, CaptureInv, [Next]_vars
  PROVE  CaptureInv'
  <1>1. CASE Callback
    BY <1>1, OnCaptureStep, StoreStep, DropStep, PublishStep DEF Callback
  <1>2. CASE Render
    BY <1>2, ReadStep, PrepareStep, CopyStep, GiveBackStep DEF Render
  <1>3. CASE RequestStop \/ Control
    BY <1>3, ControlStep
  <1>4. CASE UNCHANGED vars
    <2>1. UNCHANGED <<ring, head, tail, captured, live, active, ctl, ppc, p, rpc, r>>
      BY <1>4 DEF vars, ringVars, session, producer, reader
    <2>2. SessionInv' /\ captured' \in Positions /\ live' \in BOOLEAN
      BY <2>1 DEF CaptureInv, CaptureTypes, SessionInv
    <2> QED
      BY <2>1, <2>2, ControlKeeps
  <1> QED
    BY <1>1, <1>2, <1>3, <1>4 DEF Next

--------------------------------------------------------------------------------
(* The results.                                                            *)

LEMMA CaptureCorrect ==
  ASSUME RenderJoined
  PROVE  Spec => []CaptureInv
  <1>1. CaptureInv /\ [Next]_vars => CaptureInv'
    BY CaptureStep
  <1> QED
    BY <1>1, CaptureInit, PTL DEF Spec

(* The kept bytes lie behind the queue and the read's bytes in it.         *)
LEMMA Undisturbed ==
  ASSUME CaptureInv
  PROVE  ReadUndisturbed
  <1> SUFFICES ASSUME ppc = "packet", rpc \in {"first", "second", "commit"},
                      NEW i \in 0..(Kept - 1), NEW j \in 0..(Wanted - 1)
               PROVE  Slot(head + i) # Slot(r.cursor + j)
    BY DEF ReadUndisturbed, Region, Kept, Wanted
  <1>1. /\ CaptureTypes /\ head \in Cursors /\ tail \in Cursors /\ r.cursor \in Cursors
        /\ tail \in Int /\ Queued \in Nat /\ Kept \in Nat /\ Skipped \in Nat /\ Wanted \in Nat
    BY Amounts DEF CaptureInv
  <1>2. Queued + Kept <= RingBytes /\ Skipped + Wanted <= Queued
    BY ProducerPlace, ReadEnd
  <1>3. i \in Int /\ j \in Int /\ Queued + i \in Int /\ Skipped + j \in Int
    BY <1>1
  <1>4. Slot(head + i) = Slot(tail + (Queued + i))
    BY <1>1, <1>3, SlotBehind DEF Queued
  <1>5. Slot(r.cursor + j) = Slot(tail + (Skipped + j))
    BY <1>1, <1>3, SlotBehind DEF Skipped
  <1>6. Skipped + j < Queued + i /\ (Queued + i) - (Skipped + j) < RingBytes
    BY <1>1, <1>2, Moduli
  <1>7. Slot(tail + (Skipped + j)) # Slot(tail + (Queued + i))
    BY <1>1, <1>3, <1>6, SlotsApart
  <1> QED
    BY <1>4, <1>5, <1>7

(* onCapture() never stores into the slots a read is unpacking.            *)
THEOREM ReadsUndisturbed ==
  ASSUME RenderJoined
  PROVE  Spec => []ReadUndisturbed
  <1>1. CaptureInv => ReadUndisturbed
    BY Undisturbed
  <1> QED
    BY <1>1, CaptureCorrect, PTL

--------------------------------------------------------------------------------
(* The refinement.                                                         *)

(* Frames that fit into a number of bytes.                                 *)
LEMMA FramesFit ==
  ASSUME NEW a \in Nat, NEW f \in Nat, f * Stride <= a
  PROVE  f <= a \div Stride
  <1> DEFINE g == a \div Stride
  <1>1. g \in Nat /\ a = Stride * g + (a % Stride) /\ a % Stride \in 0..(Stride - 1)
    <2>1. g \in Nat
      BY FramesIn
    <2>2. a = Stride * g + (a % Stride) /\ a % Stride \in 0..(Stride - 1)
      BY Moduli, IntDivMod
    <2> QED
      BY <2>1, <2>2
  <1> HIDE DEF g
  <1>2. (g + 1) * Stride = Stride * g + Stride /\ Stride * g \in Int
    BY <1>1, Moduli
  <1>3. a < (g + 1) * Stride
    BY <1>1, <1>2, Moduli
  <1>4. f * Stride \in Int /\ (g + 1) * Stride \in Int
    BY <1>1, Moduli
  <1>5. ~((g + 1) * Stride <= f * Stride)
    BY <1>3, <1>4
  <1>6. ~(g + 1 <= f)
    BY <1>1, <1>5, FramesOrder, g + 1 \in Nat
  <1> QED
    BY <1>1, <1>6 DEF g

(* What the abstract queue holds in a session, and outside one.            *)
LEMMA QueueIs ==
  ASSUME CaptureInv, ctl = "active"
  PROVE  /\ Contents = Run(ring, tail, Queued)
         /\ Contents \in Seq(Positions) /\ Len(Contents) = Queued
         /\ Queued \in Nat /\ ring \in Rings /\ tail \in Int
  <1>1. Queued \in Nat /\ ring \in Rings /\ tail \in Int
    BY Amounts DEF CaptureInv, CaptureTypes
  <1>2. Contents = Run(ring, tail, Queued)
    BY DEF Contents, Run, Queued
  <1> QED
    BY <1>1, <1>2, RunLength

LEMMA QueueEmpty ==
  ASSUME ctl \in {"clearing", "begin"} \/ (head = 0 /\ tail = 0)
  PROVE  Contents = <<>>
  <1>1. ASSUME head = 0, tail = 0 PROVE Minus(head, tail) = 0
    BY <1>1, Moduli DEF Minus
  <1> QED
    BY <1>1 DEF Contents

(* A step that moves no cursor and stores nothing.                         *)
LEMMA QueueStays ==
  ASSUME UNCHANGED <<ring, head, tail, ctl>>
  PROVE  Contents' = Contents
  BY DEF Contents, Minus, Slot

(* Frames given back leave the front of the queue.                         *)
LEMMA FrontLeaves ==
  ASSUME CaptureInv, ctl = "active", NEW n \in Nat, n <= Queued,
         tail' = (tail + n) % CursorMod, UNCHANGED <<ring, head, ctl>>
  PROVE  Contents' = SubSeq(Contents, n + 1, Len(Contents))
  <1>1. /\ Contents = Run(ring, tail, Queued) /\ Len(Contents) = Queued
        /\ Queued \in Nat /\ ring \in Rings /\ tail \in Int
    BY QueueIs
  <1> DEFINE m == Queued - n
  <1>2. m \in Nat /\ n + m = Queued
    BY <1>1
  <1>3. Minus(head, (tail + n) % CursorMod) = m
    <2>1. head \in Cursors /\ tail \in Cursors
      BY Amounts DEF CaptureInv
    <2> QED
      BY <2>1, MoveTail DEF Queued
  <1> HIDE DEF m
  <1>4. SubSeq(Contents, n + 1, n + m) = Run(ring, tail + n, m)
    <2>1. \A k \in Nat, i \in Nat, j \in Nat :
            k + i <= j => SubSeq(Run(ring, tail, j), k + 1, k + i) = Run(ring, tail + k, i)
      BY <1>1, SubRun
    <2>2. n + m <= Queued
      BY <1>1, <1>2
    <2> QED
      BY <1>1, <1>2, <2>1, <2>2, Zenon
  <1>5. Run(ring, (tail + n) % CursorMod, m) = Run(ring, tail + n, m)
    BY <1>1, <1>2, RunWrap, tail + n \in Int
  <1>6. Contents' = Run(ring, (tail + n) % CursorMod, m)
    BY <1>3 DEF Contents, Run, Minus, Slot
  <1> QED
    BY <1>1, <1>2, <1>4, <1>5, <1>6

LEMMA InitRefines ==
  ASSUME Init
  PROVE  Fifo!Init
  <1>1. Contents = <<>>
    BY QueueEmpty DEF Init
  <1> QED
    BY <1>1, Nones DEF Init, Fifo!Init

(* A packet offers the frames it keeps, if any.                            *)
LEMMA StoreRefines ==
  ASSUME CaptureInv, NEW frames \in Packets, StorePacket(frames)
  PROVE  [Fifo!Next]_(Fifo!captureVars)
  <1>0. frames \in Nat /\ CaptureTypes /\ ppc = "packet" /\ captured \in Positions
    BY CaptureAssumption DEF CaptureAssumption, CaptureInv, CaptureTypes, StorePacket
  <1>1. PICK keep : keep = KeptOf(frames * Stride)
    OBVIOUS
  <1>2. UNCHANGED <<head, tail, ctl, got>>
    BY DEF StorePacket, session
  <1>3. ctl = "active"
    BY <1>0, QueueInUse
  <1>4. keep \in Nat /\ Whole(keep) /\ Queued + Kept + keep <= RingBytes
    BY <1>0, <1>1, KeptFits
  <1>5. /\ p'.kept = p.kept \o [i \in 1..keep |-> (captured + i - 1) % Numbers]
    BY <1>0, <1>1, StoreEffect
  <1>6. /\ Contents = Run(ring, tail, Queued) /\ Len(Contents) = Queued
        /\ Queued \in Nat /\ Kept \in Nat /\ tail \in Int /\ head \in Int /\ ring \in Rings
    BY <1>0, <1>3, QueueIs, Amounts
  <1>7. Contents' = Contents
    <2>1. Run(ring', tail, Queued) = Run(ring, tail, Queued)
      <3>1. 0 + Queued <= Queued + Kept /\ tail = (tail + 0) % CursorMod
        BY <1>0, <1>6, Places
      <3> QED
        BY <1>0, <1>6, <3>1, StoreKeepsRuns
    <2>2. Contents' = Run(ring', tail, Queued)
      BY <1>2, <1>3 DEF Contents, Run, Queued, Minus, Slot
    <2> QED
      BY <1>6, <2>1, <2>2
  <1>8. p.kept \in Seq(Positions) /\ Len(p.kept) = Kept
    <2>1. p.kept = Run(ring, head, Kept)
      BY <1>0 DEF CaptureInv, ProducerInv
    <2> QED
      BY <1>6, <2>1, RunLength
  <1>9. PICK f \in Nat : keep = f * Stride
    BY <1>4 DEF Whole
  <1>10. CASE f = 0
    <2>1. [i \in 1..keep |-> (captured + i - 1) % Numbers] = <<>>
      BY <1>9, <1>10, Moduli
    <2>2. p'.kept = p.kept
      BY <1>5, <1>8, <2>1, ConcatEmptySeq
    <2> QED
      BY <1>2, <1>7, <2>2 DEF Fifo!captureVars
  <1>11. CASE f # 0
    <2>1. f <= RingBytes \div Stride
      <3>1. keep <= RingBytes /\ RingBytes \in Nat
        BY <1>4, <1>6, Moduli
      <3> QED
        BY <1>9, <3>1, FramesFit
    <2>2. Fifo!Offer(captured, f)
      BY <1>2, <1>4, <1>5, <1>6, <1>7, <1>8, <1>9 DEF Fifo!Offer
    <2>3. f \in 1..(RingBytes \div Stride) /\ captured \in 0..(Numbers - 1)
      <3>1. RingBytes \div Stride \in Nat
        BY Moduli, FramesIn
      <3> QED
        BY <1>0, <1>11, <2>1, <3>1 DEF Positions
    <2> QED
      BY <2>2, <2>3 DEF Fifo!Next
  <1> QED
    BY <1>10, <1>11

(* The kept frames are published together.                                 *)
LEMMA PublishRefines ==
  ASSUME CaptureInv, PublishHead
  PROVE  Fifo!Publish
  <1>1. /\ ppc = "packet" /\ ctl = "active" /\ Queued' = Queued + Kept
        /\ p' = NoTransfer /\ UNCHANGED <<ring, tail, ctl, got>>
    BY PublishMoves DEF PublishHead, output
  <1>2. /\ Contents = Run(ring, tail, Queued) /\ Queued \in Nat /\ Kept \in Nat
        /\ ring \in Rings /\ tail \in Int /\ CaptureTypes
    BY <1>1, QueueIs, Amounts DEF CaptureInv
  <1>3. Contents' = Run(ring, tail, Queued + Kept)
    <2>1. Minus(head', tail) = Queued + Kept
      BY <1>1 DEF Queued, Minus
    <2> QED
      BY <1>1, <2>1 DEF Contents, Run, Minus, Slot
  <1>4. p.kept = Run(ring, tail + Queued, Kept)
    <2>1. p.kept = Run(ring, head, Kept) /\ head = (tail + Queued) % CursorMod
      BY <1>1, <1>2, Places DEF CaptureInv, ProducerInv
    <2>2. Run(ring, (tail + Queued) % CursorMod, Kept) = Run(ring, tail + Queued, Kept)
      BY <1>2, RunWrap, tail + Queued \in Int
    <2> QED
      BY <2>1, <2>2
  <1>5. Run(ring, tail, Queued) \o Run(ring, tail + Queued, Kept)
          = Run(ring, tail, Queued + Kept)
    BY <1>2, RunSplit
  <1> QED
    BY <1>1, <1>2, <1>3, <1>4, <1>5, Nones DEF Fifo!Publish

(* A read that succeeds passes over what is stale and takes the rest.      *)
LEMMA CommitRefines ==
  ASSUME CaptureInv, Commit
  PROVE  Fifo!Next
  <1>1. rpc = "commit" /\ got' = r.dst
    BY DEF Commit
  <1>2. /\ ctl = "active" /\ tail' = (tail + (Skipped + Wanted)) % CursorMod
        /\ UNCHANGED <<ring, head, ctl, p>>
    BY <1>1, ReadEnd DEF Commit, session, producer, Wanted
  <1>3. /\ Skipped \in Nat /\ Wanted \in Nat /\ Skipped + Wanted \in Nat
        /\ Skipped + Wanted <= Queued /\ Whole(Skipped)
    BY <1>1, ReadEnd
  <1>4. /\ Contents = Run(ring, tail, Queued) /\ Len(Contents) = Queued
        /\ Queued \in Nat /\ ring \in Rings /\ tail \in Int /\ CaptureTypes
    BY <1>2, QueueIs DEF CaptureInv
  <1>5. r.frames \in Nat /\ r.frames > 0
    BY <1>1, <1>4, Amounts DEF CaptureInv, ReaderInv
  <1>6. PICK s \in Nat : Skipped = s * Stride
    BY <1>3 DEF Whole
  <1>7. (s + r.frames) * Stride = Skipped + Wanted
    BY <1>5, <1>6, Moduli DEF Wanted
  <1>8. r.dst = SubSeq(Contents, Skipped + 1, Skipped + Wanted)
    <2>1. r.dst = Run(ring, r.cursor, Wanted) /\ r.cursor = (tail + Skipped) % CursorMod
      BY <1>1, <1>4, Places DEF CaptureInv, ReaderInv
    <2>2. Run(ring, (tail + Skipped) % CursorMod, Wanted) = Run(ring, tail + Skipped, Wanted)
      BY <1>3, <1>4, RunWrap, tail + Skipped \in Int
    <2>3. SubSeq(Run(ring, tail, Queued), Skipped + 1, Skipped + Wanted)
            = Run(ring, tail + Skipped, Wanted)
      <3>1. \A k \in Nat, i \in Nat, j \in Nat :
              k + i <= j => SubSeq(Run(ring, tail, j), k + 1, k + i) = Run(ring, tail + k, i)
        BY <1>4, SubRun
      <3> QED
        BY <1>3, <1>4, <3>1, Zenon
    <2> QED
      BY <1>4, <2>1, <2>2, <2>3
  <1>9. Contents' = SubSeq(Contents, (Skipped + Wanted) + 1, Len(Contents))
    BY <1>2, <1>3, FrontLeaves
  <1>10. Fifo!Take(s, r.frames)
    BY <1>1, <1>2, <1>6, <1>7, <1>8, <1>9 DEF Fifo!Take
  <1>11. s + r.frames <= Fifo!Frames /\ Fifo!Frames \in Nat
    <2>1. Fifo!Frames = Queued \div Stride
      BY <1>4 DEF Fifo!Frames
    <2>2. s + r.frames <= Queued \div Stride
      BY <1>3, <1>4, <1>5, <1>7, FramesFit, s + r.frames \in Nat
    <2>3. Queued \div Stride \in Nat
      BY <1>4, FramesIn
    <2> QED
      BY <2>1, <2>2, <2>3
  <1>12. s \in 0..Fifo!Frames /\ r.frames \in 1..Fifo!Frames
    BY <1>5, <1>11
  <1> QED
    BY <1>10, <1>11, <1>12 DEF Fifo!Next

(* Short reads, discards and the trim of beginCaptureLive() drop frames.   *)
LEMMA DropRefines ==
  ASSUME CaptureInv,
         \/ CommitShort
         \/ \E frames \in Quanta : DiscardCaptureFrames(frames)
         \/ \E keep \in Quanta \cup {0} : BeginCaptureLive(keep)
  PROVE  [Fifo!Next]_(Fifo!captureVars)
  <1>1. UNCHANGED <<ring, head, ctl, p, got>>
    BY DEF CommitShort, DiscardCaptureFrames, BeginCaptureLive, session, producer
  <1>2. CASE tail' = tail
    BY <1>1, <1>2, QueueStays DEF Fifo!captureVars
  <1>3. CASE tail' # tail
    <2>1. PICK n \in Nat : /\ n <= Queued /\ Whole(n) /\ ctl = "active"
                           /\ tail' = (tail + n) % CursorMod
      BY <1>3, GivesBack
    <2>2. PICK f \in Nat : n = f * Stride
      BY <2>1 DEF Whole
    <2>3. Len(Contents) = Queued /\ Queued \in Nat
      BY <2>1, QueueIs
    <2>4. f # 0
      <3>1. tail = (tail + 0) % CursorMod
        BY Places DEF CaptureInv
      <3> QED
        BY <1>3, <2>1, <2>2, <3>1, Moduli
    <2>5. f <= Queued \div Stride /\ Queued \div Stride \in Nat
      BY <2>1, <2>2, <2>3, FramesFit, FramesIn
    <2>6. Fifo!Drop(f)
      <3>1. Contents' = SubSeq(Contents, n + 1, Len(Contents))
        BY <1>1, <2>1, FrontLeaves
      <3> QED
        BY <1>1, <2>2, <3>1 DEF Fifo!Drop
    <2>7. f \in 1..Fifo!Frames
      BY <2>3, <2>4, <2>5 DEF Fifo!Frames
    <2> QED
      BY <2>6, <2>7 DEF Fifo!Next
  <1> QED
    BY <1>2, <1>3

(* The control thread empties the queue, or finds it empty.                *)
LEMMA ControlRefines ==
  ASSUME CaptureInv, Control \/ RequestStop
  PROVE  [Fifo!Next]_(Fifo!captureVars)
  <1>0. SessionInv
    BY DEF CaptureInv
  <1>1. CASE RequestStop
    <2>1. UNCHANGED <<ring, head, tail, ctl, p, got>>
      BY <1>1 DEF RequestStop, ringVars, producer, output
    <2> QED
      BY <2>1, QueueStays DEF Fifo!captureVars
  <1>2. CASE ClearHead
    <2>1. ctl' = "clearing" /\ UNCHANGED <<p, got>>
      BY <1>2 DEF ClearHead, producer, output
    <2>2. Contents' = <<>>
      BY <2>1 DEF Contents
    <2> QED
      BY <2>1, <2>2 DEF Fifo!Clear, Fifo!Next
  <1>3. CASE \/ \E call \in {"stop", "start"} : ClearTail(call)
             \/ StartDuplex \/ StartHead \/ StartCapturePump
    <2>1. /\ ctl \in {"clearing", "stopped", "starting", "begin"}
          /\ ctl' \in {"stopped", "starting", "begin", "active"}
          /\ UNCHANGED <<p, got>> /\ head' \in {0, head} /\ tail' \in {0, tail}
          /\ ctl = "clearing" => tail' = 0
      BY <1>3 DEF ClearTail, StartDuplex, StartHead, StartCapturePump, ringVars,
                  producer, output
    <2>2. Contents = <<>>
      BY <1>0, <2>1, QueueEmpty DEF SessionInv
    <2>3. head' = 0 /\ tail' = 0
      BY <1>0, <2>1 DEF SessionInv
    <2>4. Contents' = <<>>
      <3>1. Minus(head', tail') = 0
        BY <2>3, Moduli DEF Minus
      <3> QED
        BY <3>1 DEF Contents, Minus
    <2> QED
      BY <2>1, <2>2, <2>4 DEF Fifo!captureVars
  <1> QED
    BY <1>1, <1>2, <1>3 DEF Control

LEMMA StepRefines ==
  ASSUME CaptureInv, [Next]_vars
  PROVE  [Fifo!Next]_(Fifo!captureVars)
  <1>1. CASE \/ OnCapture \/ (\E frames \in Packets : DropPacket(frames))
             \/ Prepare \/ CopyFirst \/ CopySecond \/ UNCHANGED vars
    <2>1. UNCHANGED <<ring, head, tail, ctl, got>>
      BY <1>1 DEF OnCapture, DropPacket, Prepare, CopyFirst, CopySecond, vars, ringVars,
                  session, output
    <2>2. p'.kept = p.kept
      <3>1. CASE OnCapture
        BY <3>1 DEF OnCapture, CaptureInv, ProducerInv
      <3>2. CASE \E frames \in Packets : DropPacket(frames)
        BY <3>2 DEF DropPacket, CaptureInv, CaptureTypes, Transfers
      <3>3. CASE Prepare \/ CopyFirst \/ CopySecond \/ UNCHANGED vars
        BY <3>3 DEF Prepare, CopyFirst, CopySecond, vars, producer
      <3> QED
        BY <1>1, <3>1, <3>2, <3>3
    <2> QED
      BY <2>1, <2>2, QueueStays DEF Fifo!captureVars
  <1>2. ASSUME NEW frames \in Packets, StorePacket(frames)
        PROVE  [Fifo!Next]_(Fifo!captureVars)
    BY <1>2, StoreRefines
  <1>3. CASE PublishHead
    BY <1>3, PublishRefines DEF Fifo!Next
  <1>4. ASSUME NEW frames \in Quanta, NEW whole \in BOOLEAN, Read(frames, whole)
        PROVE  [Fifo!Next]_(Fifo!captureVars)
    <2>1. UNCHANGED <<ring, head, tail, ctl, p>> /\ got' = <<>>
      BY <1>4 DEF Read, ringVars, session, producer
    <2> QED
      BY <2>1, QueueStays DEF Fifo!Release, Fifo!Next
  <1>5. CASE Commit
    BY <1>5, CommitRefines
  <1>6. CASE \/ CommitShort
             \/ \E frames \in Quanta : DiscardCaptureFrames(frames)
             \/ \E keep \in Quanta \cup {0} : BeginCaptureLive(keep)
    BY <1>6, DropRefines
  <1>7. CASE Control \/ RequestStop
    BY <1>7, ControlRefines
  <1> QED
    BY <1>1, <1>2, <1>3, <1>4, <1>5, <1>6, <1>7 DEF Next, Callback, Render

(* The capture ring implements the queue that loses frames only at its     *)
(* ends: a stale tail, a stale head, wrapped cursors and a frame that      *)
(* straddles the end of the ring never show in what the reads hand over.   *)
THEOREM CaptureRefines ==
  ASSUME RenderJoined
  PROVE  Spec => ImplementsLossyFifo
  <1>1. Init => Fifo!Init
    BY InitRefines
  <1>2. CaptureInv /\ [Next]_vars => [Fifo!Next]_(Fifo!captureVars)
    BY StepRefines
  <1> QED
    BY <1>1, <1>2, CaptureCorrect, PTL DEF Spec, ImplementsLossyFifo, Fifo!Spec

--------------------------------------------------------------------------------
(* Gaps and the losses that were counted.                                  *)

\* Where the next captured byte goes, and the bytes from the tail to there.
End == IF ppc = "packet" THEN p.head ELSE head
Load == Minus(End, tail)

\* The position a read would find at a cursor, and the one that follows what
\* it finds, or the caller has heard, before the cursor.
Found(c) == IF c = End THEN captured ELSE ring[Slot(c)]
Expected(c) == IF c = tail THEN heard ELSE (ring[Slot(c - 1)] + 1) % Numbers

\* The frame boundaries from the tail to the next captured byte, and the ones
\* among them where positions are missing.
Boundaries == {c \in Cursors : Minus(c, tail) <= Load /\ Whole(Minus(c, tail))}
Breaks == {c \in Boundaries : Expected(c) # Nothing /\ Expected(c) # Found(c)}

\* A read that is to hand over frames has skipped some that it counted.
Trimmed == rpc \in {"first", "second", "commit"} /\ ~r.exempt /\ Skipped > 0
Later == {c \in Breaks : Minus(c, tail) > Skipped}

\* Every break is paid for, and so is the one a trimmed read is about to make.
CreditInv ==
  /\ credit \in Nat
  /\ ctl # "clearing" => /\ Cardinality(Breaks) <= credit
                         /\ Trimmed => Cardinality(Later) + 1 <= credit

(* The load fits the ring.                                                 *)
LEMMA LoadIs ==
  ASSUME CaptureInv, ctl # "clearing"
  PROVE  /\ End \in Cursors /\ tail \in Cursors /\ tail \in Int /\ Load \in Nat
         /\ Queued <= Load /\ Load <= RingBytes /\ Queued \in Nat /\ Whole(Load)
         /\ ppc = "packet" => Load = Queued + Kept
         /\ ppc # "packet" => Load = Queued
  <1>1. /\ CaptureTypes /\ Queued \in Nat /\ Kept \in Nat /\ head \in Cursors /\ p.head \in Cursors
        /\ tail \in Cursors /\ tail \in Int
    BY Amounts DEF CaptureInv
  <1>2. Queued <= RingBytes /\ Whole(Queued)
    BY DEF CaptureInv, QueueInv
  <1>3. CASE ppc = "packet"
    <2>1. Load = Queued + Kept /\ Queued + Kept <= RingBytes
      BY <1>3, ProducerPlace DEF Load, End
    <2>2. Whole(Kept)
      BY <1>3 DEF CaptureInv, ProducerInv
    <2> QED
      BY <1>1, <1>2, <1>3, <2>1, <2>2, WholeSum DEF End
  <1>4. CASE ppc # "packet"
    BY <1>1, <1>2, <1>4 DEF Load, End, Queued
  <1> QED
    BY <1>3, <1>4

(* A cursor is known by its distance from the tail.                        *)
LEMMA Distance ==
  ASSUME NEW t \in Cursors, NEW c \in Cursors
  PROVE  /\ Minus(c, t) \in Nat /\ Minus(c, t) \in Cursors
         /\ Slot(c) = Slot(t + Minus(c, t)) /\ Slot(c - 1) = Slot(t + (Minus(c, t) - 1))
         /\ \A d \in Cursors : Minus(d, t) = Minus(c, t) => d = c
         /\ Minus(c, t) = 0 <=> c = t
  <1>1. Minus(c, t) \in Cursors /\ (t + Minus(c, t)) % CursorMod = c
    BY MinusLeads
  <1>2. \A d \in Cursors : (t + Minus(d, t)) % CursorMod = d
    BY MinusLeads
  <1>3. c \in Int /\ t \in Int /\ Minus(c, t) \in Nat /\ Minus(c, t) \in Int
    BY <1>1, Moduli DEF Cursors
  <1>4. Slot(c + 0) = Slot(t + (Minus(c, t) + 0)) /\ Slot(c + (-1)) = Slot(t + (Minus(c, t) + (-1)))
    BY SlotBehind, 0 \in Int, -1 \in Int
  <1>5. /\ c + 0 = c /\ Minus(c, t) + 0 = Minus(c, t)
        /\ c + (-1) = c - 1 /\ Minus(c, t) + (-1) = Minus(c, t) - 1
    BY <1>3
  <1>6. Minus(t, t) = 0
    BY <1>3, Moduli DEF Minus
  <1>7. \A d \in Cursors : Minus(d, t) = Minus(c, t) => d = c
    BY <1>1, <1>2
  <1> QED
    BY <1>1, <1>3, <1>4, <1>5, <1>6, <1>7

(* There are no more boundaries than the bound on the credit.              *)
LEMMA BoundariesFew ==
  ASSUME CaptureInv, ctl # "clearing"
  PROVE  IsFiniteSet(Boundaries) /\ Cardinality(Boundaries) <= MaxCredit
         /\ Cardinality(Boundaries) \in Nat
  <1> DEFINE most == RingBytes \div Stride
             f == [c \in Boundaries |-> Minus(c, tail) \div Stride]
  <1>1. tail \in Cursors /\ Load \in Nat /\ Load <= RingBytes
    BY LoadIs
  <1>2. most \in Nat /\ most < MaxCredit /\ MaxCredit \in Nat
    BY FramesIn, Moduli, CaptureAssumption DEF CaptureAssumption
  <1> HIDE DEF most
  <1>3. ASSUME NEW c \in Boundaries
        PROVE  /\ Minus(c, tail) \div Stride \in 0..most /\ c \in Cursors
               /\ (Minus(c, tail) \div Stride) * Stride = Minus(c, tail)
    <2> DEFINE m == Minus(c, tail)
               g == m \div Stride
    <2>1. m \in Nat /\ m <= Load /\ Whole(m) /\ c \in Cursors
      BY <1>1, <1>3, Distance DEF Boundaries
    <2> HIDE DEF m
    <2>2. g \in Nat /\ g * Stride = m
      BY <2>1, FramesIn
    <2> HIDE DEF g
    <2>3. g * Stride <= RingBytes
      BY <1>1, <2>1, <2>2, Moduli
    <2>4. g <= most
      BY <2>2, <2>3, FramesFit, Moduli DEF most
    <2> QED
      BY <1>2, <2>1, <2>2, <2>4 DEF g, m
  <1>4. f \in Injection(Boundaries, 0..most)
    <2>1. f \in [Boundaries -> 0..most]
      BY <1>3
    <2>2. ASSUME NEW c \in Boundaries, NEW d \in Boundaries, f[c] = f[d]
          PROVE  c = d
      <3>1. Minus(c, tail) = Minus(d, tail) /\ c \in Cursors /\ d \in Cursors
        BY <1>3, <2>2
      <3> QED
        BY <1>1, <3>1, Distance
    <2> QED
      BY <2>1, <2>2 DEF Injection, IsInjective
  <1>5. IsFiniteSet(0..most) /\ Cardinality(0..most) = most + 1
    BY <1>2, FS_Interval, 0 \in Int, most \in Int
  <1> HIDE DEF f
  <1>6. IsFiniteSet(Boundaries) /\ Cardinality(Boundaries) <= most + 1
    <2>1. IsFiniteSet(Boundaries) /\ Cardinality(Boundaries) <= Cardinality(0..most)
      BY <1>4, <1>5, FS_Injection
    <2> QED
      BY <1>5, <2>1
  <1>7. Cardinality(Boundaries) \in Nat
    BY <1>6, FS_CardinalityType
  <1> QED
    BY <1>2, <1>6, <1>7

(* Counting is meaningful: the breaks are finitely many, fewer than the    *)
(* bound at which the model stops counting losses.                         *)
Countable ==
  /\ IsFiniteSet(Breaks) /\ Cardinality(Breaks) \in Nat
  /\ Cardinality(Breaks) <= MaxCredit
  /\ IsFiniteSet(Later) /\ Cardinality(Later) \in Nat
  /\ Cardinality(Later) + 1 <= MaxCredit
  /\ MaxCredit \in Nat

(* A break is at a frame boundary of the queue, and those are few.         *)
LEMMA BreaksFew == CaptureInv /\ ctl # "clearing" => Countable
  <1> SUFFICES ASSUME CaptureInv, ctl # "clearing" PROVE Countable
    OBVIOUS
  <1>0. MaxCredit \in Nat /\ tail \in Cursors /\ Load \in Nat
    BY CaptureAssumption, LoadIs DEF CaptureAssumption
  <1>1. IsFiniteSet(Boundaries) /\ Cardinality(Boundaries) <= MaxCredit /\ Cardinality(Boundaries) \in Nat
    BY BoundariesFew
  <1>2. Breaks \in SUBSET Boundaries /\ Later \in SUBSET Boundaries
    BY DEF Breaks, Later
  <1>3. /\ IsFiniteSet(Breaks) /\ Cardinality(Breaks) <= Cardinality(Boundaries)
        /\ IsFiniteSet(Later)
    BY <1>1, <1>2, FS_Subset
  <1>4. Cardinality(Breaks) \in Nat /\ Cardinality(Later) \in Nat
    BY <1>3, FS_CardinalityType
  <1>5. Cardinality(Later) + 1 <= Cardinality(Boundaries)
    <2>1. Minus(tail, tail) = 0
      BY <1>0, Distance
    <2>2. tail \in Boundaries
      BY <1>0, <2>1, WholeFrames DEF Boundaries
    <2>3. Skipped \in Nat
      BY Amounts DEF CaptureInv
    <2>4. tail \notin Later
      BY <2>1, <2>3 DEF Later
    <2>5. Cardinality(Later \cup {tail}) = Cardinality(Later) + 1
      BY <1>3, <2>4, FS_AddElement
    <2>6. Later \cup {tail} \in SUBSET Boundaries
      BY <1>2, <2>2
    <2> QED
      BY <1>1, <2>5, <2>6, FS_Subset
  <1> QED
    BY <1>0, <1>1, <1>3, <1>4, <1>5 DEF Countable

(* A step that makes no break, and one that makes one and counts it.       *)
LEMMA CreditStays ==
  ASSUME CaptureInv, CaptureInv', CreditInv, ctl # "clearing", ctl' # "clearing",
         Breaks' \subseteq Breaks, credit' = credit,
         Trimmed' => Trimmed /\ Later' \subseteq Later
  PROVE  CreditInv'
  <1>1. /\ IsFiniteSet(Breaks) /\ Cardinality(Breaks) \in Nat
        /\ IsFiniteSet(Later) /\ Cardinality(Later) \in Nat
    BY BreaksFew DEF Countable
  <1>2. Cardinality(Breaks') <= Cardinality(Breaks) /\ IsFiniteSet(Breaks')
        /\ Cardinality(Breaks') \in Nat
    BY <1>1, FS_Subset, FS_CardinalityType
  <1>3. Trimmed' => /\ Cardinality(Later') <= Cardinality(Later)
                    /\ Cardinality(Later') \in Nat
    BY <1>1, FS_Subset, FS_CardinalityType
  <1>4. credit \in Nat /\ Cardinality(Breaks) <= credit
        /\ (Trimmed => Cardinality(Later) + 1 <= credit)
    BY DEF CreditInv
  <1>5. Cardinality(Breaks)' <= credit'
    BY <1>1, <1>2, <1>4
  <1>6. Trimmed' => Cardinality(Later)' + 1 <= credit'
    BY <1>1, <1>3, <1>4
  <1> QED
    BY <1>4, <1>5, <1>6 DEF CreditInv

(* One more break, and one more loss counted.                              *)
LEMMA CreditGrows ==
  ASSUME CaptureInv, CaptureInv', CreditInv, ctl # "clearing", ctl' # "clearing",
         NEW e, Breaks' \subseteq Breaks \cup {e}, credit' = Counted(credit),
         Trimmed' => Trimmed /\ Later' \subseteq Later \cup {e}
  PROVE  CreditInv'
  <1>1. /\ IsFiniteSet(Breaks) /\ Cardinality(Breaks) \in Nat /\ MaxCredit \in Nat
        /\ IsFiniteSet(Later) /\ Cardinality(Later) \in Nat
    BY BreaksFew DEF Countable
  <1>2. /\ Cardinality(Breaks)' \in Nat /\ Cardinality(Breaks)' <= MaxCredit
        /\ Cardinality(Later)' \in Nat /\ Cardinality(Later)' + 1 <= MaxCredit
    <2>1. (ctl # "clearing")'
      OBVIOUS
    <2>2. Countable'
      BY <2>1, BreaksFew, PTL
    <2> QED
      BY <1>1, <2>2 DEF Countable
  <1>3. /\ IsFiniteSet(Breaks \cup {e}) /\ Cardinality(Breaks \cup {e}) \in Nat
        /\ Cardinality(Breaks \cup {e}) <= Cardinality(Breaks) + 1
        /\ IsFiniteSet(Later \cup {e}) /\ Cardinality(Later \cup {e}) \in Nat
        /\ Cardinality(Later \cup {e}) <= Cardinality(Later) + 1
    <2>1. ASSUME NEW S, IsFiniteSet(S), Cardinality(S) \in Nat
          PROVE  /\ IsFiniteSet(S \cup {e}) /\ Cardinality(S \cup {e}) \in Nat
                 /\ Cardinality(S \cup {e}) <= Cardinality(S) + 1
      BY <2>1, FS_AddElement
    <2> QED
      BY <1>1, <2>1
  <1>4. Cardinality(Breaks)' <= Cardinality(Breaks \cup {e})
    BY <1>3, FS_Subset
  <1>5. Trimmed' => Cardinality(Later)' <= Cardinality(Later \cup {e})
    BY <1>3, FS_Subset
  <1>6. credit \in Nat /\ Cardinality(Breaks) <= credit
        /\ (Trimmed => Cardinality(Later) + 1 <= credit)
    BY DEF CreditInv
  <1>7. credit' \in Nat /\ (credit' = credit + 1 \/ credit' = MaxCredit)
    BY <1>1, <1>6 DEF Counted, Lesser
  <1>8. Cardinality(Breaks)' <= credit'
    BY <1>1, <1>2, <1>3, <1>4, <1>6, <1>7
  <1>9. Trimmed' => Cardinality(Later)' + 1 <= credit'
    BY <1>1, <1>2, <1>3, <1>5, <1>6, <1>7
  <1> QED
    BY <1>7, <1>8, <1>9 DEF CreditInv

--------------------------------------------------------------------------------
(* Steps that move neither end of the queue.                               *)

(* The breaks depend only on the ring, the tail and what was heard.        *)
LEMMA BreaksSame ==
  ASSUME UNCHANGED <<ring, tail, captured, heard>>, End' = End
  PROVE  Breaks' = Breaks /\ Load' = Load
  <1>1. Load' = Load
    BY DEF Load, Minus
  <1>2. Boundaries' = Boundaries
    BY <1>1 DEF Boundaries, Minus, Whole
  <1>3. \A c : Found(c)' = Found(c) /\ Expected(c)' = Expected(c)
    BY DEF Found, Expected, Slot
  <1> QED
    BY <1>1, <1>2, <1>3 DEF Breaks

(* Such a step leaves the credit sufficient.                               *)
LEMMA StillCredit ==
  ASSUME CaptureInv, CaptureInv', CreditInv, ctl # "clearing", ctl' # "clearing",
         UNCHANGED <<ring, tail, captured, heard, credit>>, End' = End,
         Trimmed' => Trimmed /\ Skipped' = Skipped
  PROVE  CreditInv'
  <1>1. Breaks' = Breaks
    BY BreaksSame
  <1>2. Trimmed' => Later' = Later
    BY <1>1 DEF Later, Minus
  <1> QED
    BY <1>1, <1>2, CreditStays

(* A read that trims counts the gap it may make.                           *)
LEMMA PrepareCredit ==
  ASSUME CaptureInv, CaptureInv', CreditInv, Prepare
  PROVE  CreditInv'
  <1> DEFINE limit == FrameLimit * Stride
             stale == Minus(r.head, tail) > limit
             cursor == IF stale THEN Minus(r.head, limit) ELSE tail
  <1>1. /\ rpc = "load"
        /\ UNCHANGED <<ring, head, tail, captured, live, active, ctl, ppc, p, heard>>
    BY DEF Prepare, ringVars, session, producer
  <1>2. credit' = IF stale /\ live THEN Counted(credit) ELSE credit
    BY DEF Prepare
  <1>3. ~Trimmed
    BY <1>1 DEF Trimmed
  <1>4. ctl = "active"
    BY <1>1, QueueInUse
  <1>5. End' = End
    BY <1>1 DEF End
  <1>6. Breaks' = Breaks
    BY <1>1, <1>5, BreaksSame
  <1>7. Trimmed' => stale /\ live
    <2>1. r'.cursor = cursor
      BY DEF Prepare, NoRead
    <2>2. r'.exempt = ~live
      BY Zenon DEF Prepare, NoRead
    <2>3. ~stale => Skipped' = 0
      <3>1. Minus(tail, tail) = 0
        BY Distance, Amounts DEF CaptureInv
      <3> QED
        BY <1>1, <2>1, <3>1 DEF Skipped
    <2>4. Trimmed' => stale
      BY <2>3 DEF Trimmed
    <2>5. Trimmed' => live
      BY <2>2, Zenon DEF Trimmed
    <2> QED
      BY <2>4, <2>5
  <1> HIDE DEF stale, cursor, limit
  <1>8. Countable /\ Countable'
    <2>1. ctl # "clearing" /\ (ctl # "clearing")'
      BY <1>1, <1>4
    <2> QED
      BY <2>1, BreaksFew, PTL
  <1>9. Later' \subseteq Breaks
    BY <1>6 DEF Later
  <1>10. Cardinality(Later)' <= Cardinality(Breaks)
    BY <1>8, <1>9, FS_Subset DEF Countable
  <1>11. /\ credit \in Nat /\ Cardinality(Breaks) <= credit
    BY <1>4 DEF CreditInv
  <1>12. /\ MaxCredit \in Nat /\ Cardinality(Breaks) \in Nat
         /\ Cardinality(Later)' \in Nat /\ Cardinality(Later)' + 1 <= MaxCredit
         /\ Cardinality(Breaks) <= MaxCredit
    BY <1>8 DEF Countable
  <1>13. credit' \in Nat /\ (credit' = credit \/ credit' = credit + 1 \/ credit' = MaxCredit)
         /\ (stale /\ live => credit' = credit + 1 \/ credit' = MaxCredit)
    BY <1>2, <1>11, <1>12 DEF Counted, Lesser
  <1>14. Cardinality(Breaks)' <= credit'
    BY <1>6, <1>11, <1>12, <1>13
  <1>15. Trimmed' => Cardinality(Later)' + 1 <= credit'
    BY <1>7, <1>10, <1>11, <1>12, <1>13
  <1> QED
    BY <1>13, <1>14, <1>15 DEF CreditInv

--------------------------------------------------------------------------------
(* onCapture().                                                            *)

(* Counting on from a position.                                            *)
LEMMA NextPosition ==
  ASSUME NEW x \in Int
  PROVE  ((x % Numbers) + 1) % Numbers = (x + 1) % Numbers
  BY Moduli, ModAdd, 1 \in Int

(* A packet that fits makes no break; one that does not, a break at the    *)
(* new end.                                                                *)
LEMMA StoreBreaks ==
  ASSUME CaptureInv, CaptureInv', NEW frames \in Packets, StorePacket(frames), NEW keep,
         keep = KeptOf(frames * Stride)
  PROVE  /\ Breaks' \subseteq Breaks \cup {End'}
         /\ ~(keep < frames * Stride) => Breaks' \subseteq Breaks
  <1> DEFINE bytes == frames * Stride
  <1>0. /\ frames \in Nat /\ frames > 0 /\ CaptureTypes /\ captured \in Positions
        /\ captured \in Int /\ RingBytes \in Nat
    BY CaptureAssumption, Moduli DEF CaptureAssumption, CaptureInv, CaptureTypes, Positions
  <1>1. /\ ppc = "packet" /\ captured' = (captured + bytes) % Numbers
        /\ UNCHANGED <<head, tail, ctl, ppc, heard>>
    BY DEF StorePacket, session
  <1>2. ctl = "active" /\ ctl' = "active"
    BY <1>1, QueueInUse
  <1>3. /\ End \in Cursors /\ tail \in Cursors /\ tail \in Int /\ Load \in Nat /\ End = p.head
        /\ Load = Queued + Kept /\ Load <= RingBytes
    BY <1>1, <1>2, LoadIs DEF End
  <1>4. bytes \in Nat /\ bytes > 0
    <2>1. 1 * Stride <= frames * Stride
      BY <1>0, FramesOrder
    <2> QED
      BY <1>0, <2>1, Moduli
  <1> HIDE DEF bytes
  <1>5. keep \in Nat /\ Load + keep <= RingBytes /\ keep <= bytes
    <2>1. keep \in Nat /\ Load + keep <= RingBytes
      BY <1>0, <1>1, <1>3, KeptFits
    <2>2. ~(bytes < keep)
      <3> DEFINE room == (RingBytes - Minus(p.head, p.tail)) - ((RingBytes - Minus(p.head, p.tail)) % Stride)
      <3>1. keep = Lesser(bytes, room)
        BY DEF KeptOf, bytes
      <3> HIDE DEF room
      <3> QED
        BY <1>4, <2>1, <3>1 DEF Lesser
    <2> QED
      BY <1>4, <2>1, <2>2
  <1>6. End' = (p.head + keep) % CursorMod /\ End' \in Cursors /\ Load' = Load + keep
    <2>1. p'.head = (p.head + keep) % CursorMod
      BY <1>0 DEF StorePacket, CaptureTypes, Transfers
    <2>2. End' = (p.head + keep) % CursorMod
      BY <1>1, <2>1 DEF End
    <2>3. Minus(p.head, tail) = Load
      BY <1>3 DEF Load
    <2>4. Load + keep < CursorMod
      BY <1>3, <1>5, Moduli
    <2>5. /\ (p.head + keep) % CursorMod \in Cursors
          /\ Minus((p.head + keep) % CursorMod, tail) = Minus(p.head, tail) + keep
      BY <1>3, <1>5, <2>3, <2>4, MoveHead
    <2> QED
      BY <1>1, <2>2, <2>3, <2>5 DEF Load
  <1>7. ASSUME NEW c \in Breaks', ~(c = End' /\ keep < bytes)
        PROVE  c \in Breaks
    <2> DEFINE m == Minus(c, tail)
    <2>1. /\ c \in Cursors /\ m <= Load + keep /\ Whole(m)
          /\ Expected(c)' # Nothing /\ Expected(c)' # Found(c)'
      BY <1>1, <1>6, <1>7 DEF Breaks, Boundaries, Minus, Whole
    <2>2. /\ m \in Nat /\ Slot(c) = Slot(tail + m) /\ Slot(c - 1) = Slot(tail + (m - 1))
          /\ (m = 0 <=> c = tail) /\ (m = Load <=> c = End)
      BY <1>3, <2>1, Distance DEF Load
    <2>3. m = Load + keep <=> c = End'
      <3>1. Minus(End', tail) = Load + keep
        BY <1>1, <1>6 DEF Load, Minus
      <3>2. Minus(c, tail) = Minus(End', tail) => c = End'
        <4>1. PICK e \in Cursors : e = End'
          BY <1>6
        <4>2. Minus(c, tail) = Minus(e, tail) => c = e
          BY <1>3, <2>1, Distance
        <4> QED
          BY <4>1, <4>2
      <3> QED
        BY <3>1, <3>2
    <2> HIDE DEF m
    <2>4. \A j \in 0..(Load - 1) : ring'[Slot(tail + j)] = ring[Slot(tail + j)]
      <3> SUFFICES ASSUME NEW j \in 0..(Load - 1)
                   PROVE  ring'[Slot(tail + j)] = ring[Slot(tail + j)]
        OBVIOUS
      <3>1. j \in 0..(Queued + Kept - 1)
        BY <1>0, <1>3, Amounts
      <3> QED
        BY <1>0, <3>1, StoreKeeps
    <2>5. \A k \in 0..(keep - 1) : ring'[Slot(tail + (Load + k))] = (captured + k) % Numbers
      <3> SUFFICES ASSUME NEW k \in 0..(keep - 1)
                   PROVE  ring'[Slot(tail + (Load + k))] = (captured + k) % Numbers
        OBVIOUS
      <3>0. keep <= RingBytes
        BY <1>0, <1>3, <1>5
      <3>1. k \in 0..(RingBytes - 1) /\ k < keep /\ k \in Int
        BY <1>0, <1>5, <3>0
      <3>2. ring'[Slot(p.head + k)] = (captured + k) % Numbers
        BY <1>0, <3>1, StoreWrites
      <3>3. Slot(p.head + k) = Slot(tail + (Load + k))
        BY <1>3, <3>1, SlotBehind DEF Load
      <3> QED
        BY <3>2, <3>3
    <2>6. m <= Load => Expected(c)' = Expected(c)
      <3>1. CASE m = 0
        BY <1>1, <2>2, <3>1 DEF Expected
      <3>2. CASE m # 0
        <4> DEFINE j == m - 1
        <4>1. m <= Load => j \in 0..(Load - 1)
          BY <1>3, <2>2, <3>2
        <4>2. m <= Load => ring'[Slot(c - 1)] = ring[Slot(c - 1)]
          <5> HIDE DEF j
          <5> QED
            BY <2>2, <2>4, <4>1 DEF j
        <4> QED
          BY <1>1, <2>2, <3>2, <4>2 DEF Expected, Slot
      <3> QED
        BY <3>1, <3>2
    <2>7. Found(c)' = IF m = Load + keep THEN captured' ELSE ring'[Slot(c)]
      BY <2>3 DEF Found, Slot
    <2>8. Found(c) = IF m = Load THEN captured ELSE ring[Slot(c)]
      BY <2>2 DEF Found
    <2>9. CASE m < Load
      <3>1. m \in 0..(Load - 1) /\ m <= Load /\ m # Load /\ m # Load + keep
        BY <1>3, <1>5, <2>2, <2>9
      <3>2. Found(c)' = Found(c) /\ Expected(c)' = Expected(c)
        BY <2>2, <2>4, <2>6, <2>7, <2>8, <3>1
      <3> QED
        BY <2>1, <3>1, <3>2 DEF Breaks, Boundaries, m
    <2>10. CASE m = Load /\ keep > 0
      <3>1. m # Load + keep /\ 0 \in 0..(keep - 1) /\ Load + 0 = Load /\ m <= Load
        BY <1>3, <1>5, <2>2, <2>10
      <3>2. ring'[Slot(c)] = (captured + 0) % Numbers
        BY <2>2, <2>5, <2>10, <3>1
      <3>3. (captured + 0) % Numbers = captured
        BY <1>0, Moduli DEF Positions
      <3>4. Found(c)' = Found(c) /\ Expected(c)' = Expected(c)
        BY <2>6, <2>7, <2>8, <2>10, <3>1, <3>2, <3>3
      <3> QED
        BY <2>1, <3>1, <3>4 DEF Breaks, Boundaries, m
    <2>11. CASE m > Load
      <3> DEFINE k == m - Load
      <3>1. /\ k \in 1..keep /\ k - 1 \in 0..(keep - 1) /\ m - 1 = Load + (k - 1) /\ m # 0
            /\ m = Load + k /\ k \in Int
        BY <1>3, <1>5, <2>1, <2>2, <2>11 DEF m
      <3>2. ring'[Slot(c - 1)] = (captured + (k - 1)) % Numbers
        <4> HIDE DEF k
        <4> QED
          BY <2>2, <2>5, <3>1
      <3>3. Expected(c)' = (ring'[Slot(c - 1)] + 1) % Numbers
        BY <1>1, <2>2, <3>1 DEF Expected, Slot
      <3> HIDE DEF k
      <3>4. Expected(c)' = (captured + k) % Numbers
        <4>1. captured + (k - 1) \in Int /\ (captured + (k - 1)) + 1 = captured + k
          BY <1>0, <3>1
        <4> QED
          BY <3>2, <3>3, <4>1, NextPosition
      <3>5. CASE k = keep
        <4>1. m = Load + keep /\ c = End'
          BY <2>3, <3>1, <3>5
        <4>2. keep = bytes
          BY <1>4, <1>5, <1>7, <4>1
        <4>3. Found(c)' = (captured + k) % Numbers
          BY <1>1, <2>7, <3>5, <4>1, <4>2
        <4> QED
          BY <2>1, <3>4, <4>3
      <3>6. CASE k # keep
        <4>1. k \in 0..(keep - 1) /\ m # Load + keep
          BY <1>3, <1>5, <3>1, <3>6
        <4>2. ring'[Slot(c)] = (captured + k) % Numbers
          BY <2>2, <2>5, <3>1, <4>1
        <4> QED
          BY <2>1, <2>7, <3>4, <4>1, <4>2
      <3> QED
        BY <3>5, <3>6
    <2>12. ~(m = Load /\ ~(keep > 0))
      <3> SUFFICES ASSUME m = Load, ~(keep > 0) PROVE FALSE
        OBVIOUS
      <3>1. keep = 0 /\ m = Load + keep /\ keep < bytes
        BY <1>3, <1>4, <1>5
      <3> QED
        BY <1>7, <2>3, <3>1
    <2> QED
      BY <1>3, <2>2, <2>9, <2>10, <2>11, <2>12
  <1> QED
    BY <1>7 DEF bytes

(* The step of a completion that may make a break, and counts it then.     *)
LEMMA ProducerCredit ==
  ASSUME CaptureInv, CaptureInv', CreditInv, ctl = "active",
         UNCHANGED <<tail, ctl, rpc, r>>, NEW e, Breaks' \subseteq Breaks \cup {e},
         credit' = Counted(credit) \/ (Breaks' \subseteq Breaks /\ credit' = credit)
  PROVE  CreditInv'
  <1>1. Trimmed' => Trimmed
    BY DEF Trimmed, Skipped
  <1>2. Later' = {c \in Breaks' : Minus(c, tail) > Skipped}
    BY DEF Later, Skipped, Minus
  <1>3. CASE credit' = Counted(credit)
    <2>1. Later' \subseteq Later \cup {e}
      BY <1>2 DEF Later
    <2> QED
      BY <1>1, <1>3, <2>1, CreditGrows
  <1>4. CASE Breaks' \subseteq Breaks /\ credit' = credit
    <2>1. Later' \subseteq Later
      BY <1>2, <1>4 DEF Later
    <2> QED
      BY <1>1, <1>4, <2>1, CreditStays
  <1> QED
    BY <1>3, <1>4

(* A packet stored in part makes one break, at its end, and counts it.     *)
LEMMA StoreCredit ==
  ASSUME CaptureInv, CaptureInv', CreditInv, NEW frames \in Packets, StorePacket(frames)
  PROVE  CreditInv'
  <1>1. PICK keep : keep = KeptOf(frames * Stride)
    OBVIOUS
  <1>2. /\ ppc = "packet" /\ UNCHANGED <<tail, ctl, rpc, r>>
        /\ credit' = IF keep < frames * Stride THEN Counted(credit) ELSE credit
    BY <1>1 DEF StorePacket, session, reader
  <1>3. ctl = "active"
    BY <1>2, QueueInUse
  <1>4. /\ Breaks' \subseteq Breaks \cup {End'}
        /\ ~(keep < frames * Stride) => Breaks' \subseteq Breaks
    BY <1>1, StoreBreaks
  <1> QED
    BY <1>2, <1>3, <1>4, ProducerCredit

(* A lost packet makes a break at the end.                                 *)
LEMMA DropCredit ==
  ASSUME CaptureInv, CaptureInv', CreditInv, NEW frames \in Packets, DropPacket(frames)
  PROVE  CreditInv'
  <1>1. /\ ppc = "packet" /\ UNCHANGED <<ring, head, tail, ctl, ppc, rpc, r, heard>>
        /\ credit' = Counted(credit)
    BY DEF DropPacket, session, reader
  <1>2. ctl = "active"
    BY <1>1, QueueInUse
  <1>3. End' = End
    <2>1. p'.head = p.head
      BY DEF DropPacket, CaptureInv, CaptureTypes, Transfers
    <2> QED
      BY <1>1, <2>1 DEF End
  <1>4. Boundaries' = Boundaries
    BY <1>1, <1>3 DEF Boundaries, Load, Minus, Whole
  <1>5. \A c : c # End => Found(c)' = Found(c) /\ Expected(c)' = Expected(c)
    BY <1>1, <1>3 DEF Found, Expected, Slot
  <1>6. Breaks' \subseteq Breaks \cup {End}
    BY <1>4, <1>5 DEF Breaks
  <1> QED
    BY <1>1, <1>2, <1>6, ProducerCredit

--------------------------------------------------------------------------------
(* The render thread.                                                      *)

(* Giving n bytes back leaves the breaks behind them, and may make one at  *)
(* the new tail.                                                           *)
LEMMA TailBreaks ==
  ASSUME CaptureInv, CaptureInv', ctl = "active", NEW n \in Nat, n <= Queued, Whole(n),
         tail' = (tail + n) % CursorMod, UNCHANGED <<ring, head, captured, ctl, ppc, p>>
  PROVE  /\ tail' \in Cursors /\ Minus(tail', tail) = n
         /\ \A c \in Breaks' : c # tail' => c \in Breaks /\ Minus(c, tail) > n
         /\ tail' \in Breaks' => tail' \in Boundaries
  <1>1. /\ End \in Cursors /\ tail \in Cursors /\ tail \in Int /\ Load \in Nat /\ n <= Load
        /\ Load <= RingBytes /\ Queued \in Nat
    BY LoadIs
  <1>2. tail' \in Cursors
    BY <1>1, Wraps, tail + n \in Int
  <1>3. End' = End
    BY DEF End
  <1>4. Load' = Load - n
    <2>1. Minus(End, (tail + n) % CursorMod) = Minus(End, tail) - n
      BY <1>1, MoveTail DEF Load
    <2> QED
      BY <1>3, <2>1 DEF Load
  <1>5. ASSUME NEW c \in Cursors, Minus(c, tail') <= Load - n
        PROVE  Minus(c, tail) = Minus(c, tail') + n /\ Minus(c, tail') \in Nat
    <2> DEFINE m == Minus(c, tail')
    <2>1. m \in Nat /\ m \in Cursors /\ (tail' + m) % CursorMod = c
      BY <1>2, Distance, MinusLeads
    <2>2. m <= Load - n
      BY <1>5
    <2> HIDE DEF m
    <2>3. m + n \in Cursors /\ n + m = m + n /\ m \in Int
      BY <1>1, <2>1, <2>2, Moduli DEF Cursors
    <2>4. (((tail + n) % CursorMod) + m) % CursorMod = ((tail + n) + m) % CursorMod
      <3> DEFINE x == tail + n
      <3>1. x \in Int
        BY <1>1
      <3> HIDE DEF x
      <3>2. ((x % CursorMod) + m) % CursorMod = (x + m) % CursorMod
        BY <2>3, <3>1, Moduli, ModAdd
      <3> QED
        BY <3>2 DEF x
    <2>5. (tail + n) + m = tail + (m + n)
      BY <1>1, <2>3
    <2>6. c = (tail + (m + n)) % CursorMod
      BY <2>1, <2>4, <2>5
    <2>7. Minus(c, tail) = m + n
      BY <1>1, <2>3, <2>6, MinusIs
    <2> QED
      BY <2>1, <2>7 DEF m
  <1>6. Minus(tail', tail) = n
    <2>1. n \in Cursors
      BY <1>1, Moduli DEF Cursors
    <2> QED
      BY <1>1, <1>2, <2>1, MinusIs
  <1>7. ASSUME NEW c \in Breaks', c # tail'
        PROVE  c \in Breaks /\ Minus(c, tail) > n
    <2>1. /\ c \in Cursors /\ Minus(c, tail') <= Load - n /\ Whole(Minus(c, tail'))
          /\ Expected(c)' # Nothing /\ Expected(c)' # Found(c)'
      BY <1>4, <1>7 DEF Breaks, Boundaries, Minus, Whole
    <2>2. Minus(c, tail) = Minus(c, tail') + n /\ Minus(c, tail') \in Nat
      BY <1>5, <2>1
    <2>3. Minus(c, tail') # 0
      BY <1>2, <1>7, <2>1, Distance
    <2> DEFINE m == Minus(c, tail')
    <2>4. m \in Nat /\ m # 0 /\ Minus(c, tail) = m + n /\ m <= Load - n /\ Whole(m)
      BY <2>1, <2>2, <2>3
    <2> HIDE DEF m
    <2>5. m + n > n /\ m + n <= Load /\ m + n # 0 /\ Whole(m + n)
      BY <1>1, <2>4, WholeSum
    <2>6. c # tail
      BY <1>1, <2>1, <2>4, <2>5, Distance
    <2>7. Found(c)' = Found(c) /\ Expected(c)' = Expected(c)
      BY <1>3, <1>7, <2>6 DEF Found, Expected, Slot
    <2> QED
      BY <2>1, <2>4, <2>5, <2>7 DEF Breaks, Boundaries
  <1>8. tail' \in Boundaries
    BY <1>1, <1>2, <1>6 DEF Boundaries
  <1> QED
    BY <1>2, <1>6, <1>7, <1>8

(* Frames that are counted as lost when they are given back.               *)
LEMMA LossCredit ==
  ASSUME CaptureInv, CaptureInv', CreditInv, ctl = "active", NEW n \in Nat, n <= Queued,
         Whole(n), tail' = (tail + n) % CursorMod, rpc' = "out", credit' = Counted(credit),
         UNCHANGED <<ring, head, captured, ctl, ppc, p, heard>>
  PROVE  CreditInv'
  <1>1. Breaks' \subseteq Breaks \cup {tail'}
    BY TailBreaks
  <1>2. ~Trimmed'
    BY DEF Trimmed
  <1> QED
    BY <1>1, <1>2, CreditGrows

(* A read that hands over frames: the break at the new tail is one the     *)
(* ring had, the one it makes the caller hear is paid for.                 *)
LEMMA CommitCredit ==
  ASSUME CaptureInv, CaptureInv', CreditInv, Commit
  PROVE  CreditInv'
  <1> DEFINE n == Skipped + Wanted
  <1>1. /\ rpc = "commit" /\ rpc' = "out" /\ tail' = (r.cursor + Wanted) % CursorMod
        /\ UNCHANGED <<ring, head, captured, ctl, ppc, p>>
        /\ heard' = IF r.exempt THEN Nothing ELSE (r.dst[Len(r.dst)] + 1) % Numbers
        /\ credit' = IF Gap THEN credit - 1 ELSE credit
    BY DEF Commit, Wanted, session, producer
  <1>2. /\ Skipped \in Nat /\ Wanted \in Nat /\ n \in Nat /\ n <= Queued /\ Whole(Skipped)
        /\ Whole(n) /\ tail' = (tail + n) % CursorMod /\ ctl = "active"
    BY <1>1, ReadEnd
  <1>3. Wanted > 0 /\ r.dst = Run(ring, r.cursor, Wanted)
    <2>1. r.frames > 0 /\ r.frames \in Nat /\ r.dst = Run(ring, r.cursor, Wanted)
      BY <1>1, Amounts DEF CaptureInv, ReaderInv
    <2>2. 1 * Stride <= r.frames * Stride
      BY <2>1, FramesOrder
    <2> QED
      BY <2>1, <2>2, <1>2, Moduli DEF Wanted
  <1>4. /\ ring \in Rings /\ r.cursor \in Int /\ r.cursor \in Cursors /\ tail \in Cursors
        /\ tail \in Int /\ End \in Cursors /\ Load \in Nat /\ Queued <= Load /\ Queued \in Nat
    BY <1>2, Amounts, LoadIs DEF CaptureInv, CaptureTypes
  <1>5. /\ Len(r.dst) = Wanted /\ Head(r.dst) = ring[Slot(r.cursor)]
        /\ r.dst[Len(r.dst)] = ring[Slot(r.cursor + (Wanted - 1))]
    <2>1. /\ r.dst \in Seq(Positions) /\ Len(r.dst) = Wanted
          /\ \A i \in 1..Wanted : r.dst[i] = ring[Slot(r.cursor + i - 1)]
      BY <1>2, <1>3, <1>4, RunLength, SMTT(30)
    <2>2. 1 \in 1..Wanted /\ Wanted \in 1..Wanted
      BY <1>2, <1>3
    <2>3. r.dst[1] = ring[Slot(r.cursor + 1 - 1)] /\ r.dst[Wanted] = ring[Slot(r.cursor + Wanted - 1)]
      BY <2>1, <2>2
    <2>4. r.cursor + 1 - 1 = r.cursor /\ r.cursor + Wanted - 1 = r.cursor + (Wanted - 1)
      BY <1>2, <1>4
    <2>5. Head(r.dst) = r.dst[1]
      BY <2>1
    <2> QED
      BY <2>1, <2>3, <2>4, <2>5
  <1>6. n > 0 /\ n > Skipped /\ n <= Load
    BY <1>2, <1>3, <1>4
  <1> HIDE DEF n
  <1>7. /\ tail' \in Cursors /\ Minus(tail', tail) = n
        /\ \A c \in Breaks' : c # tail' => c \in Breaks /\ Minus(c, tail) > n
        /\ tail' \in Breaks' => tail' \in Boundaries
    BY <1>1, <1>2, TailBreaks
  <1>8. \A c \in Breaks' : c \in Breaks /\ Minus(c, tail) > Skipped
    <2>1. ASSUME tail' \in Breaks' PROVE tail' \in Breaks
      <3>1. heard' # Nothing /\ heard' # Found(tail)'
        BY <2>1 DEF Breaks, Expected
      <3>2. heard' = (ring[Slot(r.cursor + (Wanted - 1))] + 1) % Numbers
        BY <1>1, <1>5, <3>1
      <3>3. PICK t \in Cursors : t = tail'
        BY <1>7
      <3>4. Slot(t - 1) = Slot(tail + (n - 1)) /\ t # tail
        <4>1. Minus(t, tail) = n /\ n # 0
          BY <1>2, <1>6, <1>7, <3>3 DEF n
        <4>2. /\ Slot(t - 1) = Slot(tail + (Minus(t, tail) - 1))
              /\ Minus(t, tail) = 0 <=> t = tail
          BY <1>4, Distance
        <4> QED
          BY <4>1, <4>2
      <3>5. Slot(r.cursor + (Wanted - 1)) = Slot(tail + (n - 1))
        <4>1. Slot(r.cursor + (Wanted - 1)) = Slot(tail + (Skipped + (Wanted - 1)))
          BY <1>2, <1>4, SlotBehind, Wanted - 1 \in Int DEF Skipped
        <4>2. Skipped + (Wanted - 1) = n - 1
          BY <1>2 DEF n
        <4> QED
          BY <4>1, <4>2
      <3>6. Expected(t) = heard'
        BY <3>2, <3>4, <3>5 DEF Expected
      <3>7. Found(t) = Found(tail)'
        BY <1>1, <3>3 DEF Found, End, Slot
      <3> QED
        BY <1>7, <2>1, <3>1, <3>3, <3>6, <3>7 DEF Breaks
    <2>2. Minus(tail', tail) > Skipped
      BY <1>6, <1>7
    <2>3. ASSUME NEW c \in Breaks', c # tail'
          PROVE  c \in Breaks /\ Minus(c, tail) > Skipped
      <3>1. c \in Breaks /\ Minus(c, tail) > n
        BY <1>7, <2>3
      <3>2. Minus(c, tail) \in Nat
        BY <1>4, <3>1, Distance DEF Breaks, Boundaries
      <3> QED
        BY <1>2, <1>6, <3>1, <3>2
    <2> QED
      BY <2>1, <2>2, <2>3
  <1>9. ~Trimmed'
    BY <1>1 DEF Trimmed
  <1>10. CASE ~Gap
    BY <1>1, <1>2, <1>8, <1>9, <1>10, CreditStays
  <1>11. CASE Gap
    <2>1. /\ ~r.exempt /\ heard # Nothing /\ ring[Slot(r.cursor)] # heard
          /\ credit' = credit - 1
      BY <1>1, <1>5, <1>11 DEF Gap
    <2>2. /\ credit \in Nat /\ Cardinality(Breaks) <= credit
          /\ (Trimmed => Cardinality(Later) + 1 <= credit)
      BY <1>2 DEF CreditInv
    <2>3. Countable
      BY <1>2, BreaksFew
    <2>4. Cardinality(Breaks') + 1 <= credit /\ Cardinality(Breaks') \in Nat
      <3>1. CASE Skipped > 0
        <4>1. Trimmed
          BY <1>1, <2>1, <3>1 DEF Trimmed
        <4>2. Breaks' \subseteq Later
          BY <1>8 DEF Later
        <4>3. Cardinality(Breaks') <= Cardinality(Later) /\ IsFiniteSet(Breaks')
          BY <2>3, <4>2, FS_Subset DEF Countable
        <4>4. Cardinality(Breaks') \in Nat /\ Cardinality(Later) \in Nat
          BY <2>3, <4>3, FS_CardinalityType DEF Countable
        <4> QED
          BY <2>2, <4>1, <4>3, <4>4
      <3>2. CASE Skipped = 0
        <4>1. r.cursor = tail
          BY <1>4, <3>2, Distance DEF Skipped
        <4>2. tail # End
          <5>1. Load # 0
            BY <1>2, <1>4, <1>6 DEF n
          <5>2. Minus(End, tail) = 0 <=> End = tail
            BY <1>4, Distance
          <5> QED
            BY <5>1, <5>2 DEF Load
        <4>3. tail \in Breaks
          <5>1. Minus(tail, tail) = 0
            BY <1>4, Distance
          <5>2. tail \in Boundaries
            BY <1>4, <5>1, WholeFrames DEF Boundaries
          <5> QED
            BY <2>1, <4>1, <4>2, <5>2 DEF Breaks, Found, Expected
        <4>4. tail \notin Breaks'
          <5>1. Minus(tail, tail) = 0
            BY <1>4, Distance
          <5> QED
            BY <1>8, <3>2, <5>1
        <4>5. Breaks' \subseteq Breaks \ {tail}
          BY <1>8, <4>4
        <4>6. IsFiniteSet(Breaks \ {tail}) /\ Cardinality(Breaks \ {tail}) = Cardinality(Breaks) - 1
          BY <2>3, <4>3, FS_RemoveElement DEF Countable
        <4>7. Cardinality(Breaks') <= Cardinality(Breaks \ {tail}) /\ IsFiniteSet(Breaks')
          BY <4>5, <4>6, FS_Subset
        <4>8. Cardinality(Breaks') \in Nat /\ Cardinality(Breaks) \in Nat
          BY <2>3, <4>7, FS_CardinalityType DEF Countable
        <4> QED
          BY <2>2, <4>6, <4>7, <4>8
      <3> QED
        BY <1>2, <3>1, <3>2
    <2>5. credit' \in Nat /\ Cardinality(Breaks)' <= credit'
      BY <2>1, <2>2, <2>4
    <2> QED
      BY <1>9, <2>5 DEF CreditInv
  <1> QED
    BY <1>10, <1>11

--------------------------------------------------------------------------------
(* The control thread, and all steps.                                      *)

(* stop() and start() empty the queue and drop what was heard: no break is *)
(* left to pay for.                                                        *)
LEMMA ControlCredit ==
  ASSUME CaptureInv, CaptureInv', CreditInv, Control
  PROVE  CreditInv'
  <1>1. credit \in Nat
    BY DEF CreditInv
  <1>2. CASE ClearHead
    BY <1>1, <1>2 DEF ClearHead, output, CreditInv
  <1>3. ASSUME NEW call \in {"stop", "start"}, ClearTail(call)
        PROVE  CreditInv'
    <2>1. /\ ctl = "clearing" /\ tail' = 0 /\ credit' = 0 /\ heard' = Nothing
          /\ head' = head /\ ppc' = ppc /\ rpc' = rpc
      BY <1>3 DEF ClearTail, producer, reader
    <2>2. head = 0 /\ ppc = "idle" /\ rpc = "out"
      BY <2>1 DEF CaptureInv, SessionInv
    <2>3. Load' = 0
      BY <2>1, <2>2, Moduli DEF Load, End, Minus
    <2>4. Breaks' = {}
      <3> SUFFICES ASSUME NEW c \in Breaks' PROVE FALSE
        OBVIOUS
      <3>1. c \in Cursors /\ Minus(c, 0) <= 0 /\ Expected(c)' # Nothing
        BY <2>1, <2>3 DEF Breaks, Boundaries, Minus
      <3>2. c = 0
        BY <3>1, Distance, Moduli
      <3> QED
        BY <2>1, <3>1, <3>2 DEF Expected
    <2>5. Cardinality(Breaks)' = 0
      BY <2>4, FS_EmptySet
    <2>6. ~Trimmed'
      BY <2>1, <2>2 DEF Trimmed
    <2> QED
      BY <2>1, <2>5, <2>6 DEF CreditInv
  <1>4. CASE StartDuplex \/ StartHead \/ StartCapturePump
    <2>1. /\ ctl \in {"stopped", "starting", "begin"}
          /\ ctl' \in {"starting", "begin", "active"}
          /\ UNCHANGED <<ring, captured, ppc, p, rpc, r, heard, credit>>
          /\ head' \in {0, head} /\ tail' \in {0, tail}
      BY <1>4 DEF StartDuplex, StartHead, StartCapturePump, producer, reader, ringVars, output
    <2>2. UNCHANGED <<head, tail>> /\ rpc = "out"
      BY <2>1 DEF CaptureInv, SessionInv
    <2>3. End' = End /\ ~Trimmed'
      BY <2>1, <2>2 DEF End, Trimmed
    <2> QED
      BY <2>1, <2>2, <2>3, StillCredit
  <1> QED
    BY <1>2, <1>3, <1>4 DEF Control

(* The steps that move no end of the queue.                                *)
LEMMA QuietCredit ==
  ASSUME CaptureInv, CaptureInv', CreditInv,
         \/ OnCapture \/ PublishHead \/ CopyFirst \/ CopySecond \/ RequestStop
         \/ \E frames \in Quanta, whole \in BOOLEAN : Read(frames, whole)
         \/ UNCHANGED vars
  PROVE  CreditInv'
  <1>1. UNCHANGED <<ring, tail, captured, ctl, heard, credit>>
    BY DEF OnCapture, PublishHead, CopyFirst, CopySecond, RequestStop, Read, vars, ringVars,
           session, output
  <1>2. CASE ctl = "clearing"
    BY <1>1, <1>2 DEF CreditInv
  <1>3. CASE ctl # "clearing"
    <2>1. End' = End
      <3>1. CASE OnCapture
        BY <3>1 DEF OnCapture, End
      <3>2. CASE PublishHead
        BY <3>2 DEF PublishHead, End
      <3>3. CASE ~OnCapture /\ ~PublishHead
        <4>1. UNCHANGED <<head, ppc, p>>
          BY <3>3 DEF CopyFirst, CopySecond, RequestStop, Read, vars, ringVars, producer
        <4> QED
          BY <4>1 DEF End
      <3> QED
        BY <3>1, <3>2, <3>3
    <2>2. Trimmed' => Trimmed /\ Skipped' = Skipped
      <3>1. CASE CopyFirst \/ CopySecond
        <4>1. r \in Reads /\ rpc \in {"first", "second"} /\ rpc' \in {"second", "commit"}
          BY <3>1 DEF CopyFirst, CopySecond, CaptureInv, CaptureTypes
        <4>2. r'.cursor = r.cursor /\ r'.exempt = r.exempt
          BY <3>1, <4>1 DEF CopyFirst, CopySecond, CopyRun, Reads
        <4>3. Skipped' = Skipped
          BY <1>1, <4>2 DEF Skipped
        <4> QED
          BY <4>1, <4>2, <4>3 DEF Trimmed
      <3>2. ASSUME NEW frames \in Quanta, NEW whole \in BOOLEAN, Read(frames, whole)
            PROVE  ~Trimmed'
        BY <3>2 DEF Read, Trimmed
      <3>3. CASE OnCapture \/ PublishHead \/ RequestStop \/ UNCHANGED vars
        <4>1. UNCHANGED <<rpc, r>>
          BY <3>3 DEF OnCapture, PublishHead, RequestStop, vars, reader
        <4> QED
          BY <1>1, <4>1 DEF Trimmed, Skipped
      <3> QED
        BY <3>1, <3>2, <3>3
    <2> QED
      BY <1>1, <1>3, <2>1, <2>2, StillCredit
  <1> QED
    BY <1>2, <1>3

(* Short reads and discards, which count what they lose.                   *)
LEMMA GiveBackCredit ==
  ASSUME CaptureInv, CaptureInv', CreditInv,
         \/ CommitShort
         \/ \E frames \in Quanta : DiscardCaptureFrames(frames)
         \/ \E keep \in Quanta \cup {0} : BeginCaptureLive(keep)
  PROVE  CreditInv'
  <1>1. CASE \/ CommitShort
             \/ \E frames \in Quanta : DiscardCaptureFrames(frames)
             \/ \E keep \in Quanta \cup {0} : BeginCaptureLive(keep) /\ tail' # tail
    <2>1. \E n \in Nat :
            /\ n <= Queued /\ Whole(n) /\ tail' = (tail + n) % CursorMod
            /\ rpc' = "out" /\ ctl = "active"
            /\ UNCHANGED <<ring, head, captured, ctl, ppc, p>>
      BY <1>1, GivesBack
    <2>2. heard' = heard /\ credit' = Counted(credit)
      BY <1>1 DEF CommitShort, DiscardCaptureFrames, BeginCaptureLive
    <2> QED
      BY <2>1, <2>2, LossCredit
  <1>2. ASSUME NEW keep \in Quanta \cup {0}, BeginCaptureLive(keep), tail' = tail
        PROVE  CreditInv'
    <2>1. /\ UNCHANGED <<ring, head, tail, captured, active, ctl, ppc, p, rpc, r, heard>>
          /\ credit' \in {credit, Counted(credit)} /\ rpc = "out"
      BY <1>2 DEF BeginCaptureLive, session, producer, reader
    <2>2. End' = End /\ ~Trimmed'
      BY <2>1 DEF End, Trimmed
    <2>3. Breaks' = Breaks
      BY <2>1, <2>2, BreaksSame
    <2>4. CASE ctl = "clearing"
      <3>1. credit \in Nat /\ MaxCredit \in Nat
        BY CaptureAssumption DEF CreditInv, CaptureAssumption
      <3>2. credit' \in Nat
        BY <2>1, <3>1 DEF Counted, Lesser
      <3> QED
        BY <2>1, <2>4, <3>2 DEF CreditInv
    <2>5. CASE ctl # "clearing" /\ credit' = credit
      BY <2>1, <2>2, <2>3, <2>5, CreditStays
    <2>6. CASE ctl # "clearing" /\ credit' = Counted(credit)
      BY <2>1, <2>2, <2>3, <2>6, CreditGrows
    <2> QED
      BY <2>1, <2>4, <2>5, <2>6
  <1> QED
    BY <1>1, <1>2

(* Every step keeps the credit sufficient,                                 *)
LEMMA CreditStep ==
  ASSUME CaptureInv, CaptureInv', CreditInv, [Next]_vars
  PROVE  CreditInv'
  <1>1. CASE Callback
    BY <1>1, QuietCredit, StoreCredit, DropCredit DEF Callback
  <1>2. CASE Render
    BY <1>2, QuietCredit, PrepareCredit, CommitCredit, GiveBackCredit DEF Render
  <1>3. CASE RequestStop \/ Control \/ UNCHANGED vars
    BY <1>3, QuietCredit, ControlCredit
  <1> QED
    BY <1>1, <1>2, <1>3 DEF Next

(* and it is so before the first.                                          *)
LEMMA CreditInit == Init => CreditInv
  <1> SUFFICES ASSUME Init PROVE CreditInv
    OBVIOUS
  <1>1. /\ head = 0 /\ tail = 0 /\ ppc = "idle" /\ rpc = "out" /\ heard = Nothing
        /\ credit = 0
    BY DEF Init
  <1>2. Load = 0
    BY <1>1, Moduli DEF Load, End, Minus
  <1>3. Breaks = {}
    <2> SUFFICES ASSUME NEW c \in Breaks PROVE FALSE
      OBVIOUS
    <2>1. c \in Cursors /\ Minus(c, 0) <= 0 /\ Expected(c) # Nothing
      BY <1>1, <1>2 DEF Breaks, Boundaries
    <2>2. c = 0
      BY <2>1, Distance, Moduli
    <2> QED
      BY <1>1, <2>1, <2>2 DEF Expected
  <1> QED
    BY <1>1, <1>3, FS_EmptySet DEF CreditInv, Trimmed

(* Every gap the reads make the caller hear has been counted before: each  *)
(* place where captured positions are missing, in the ring or between what *)
(* was heard and the tail, is covered by a loss counted and not yet heard. *)
THEOREM GapsCounted ==
  ASSUME RenderJoined
  PROVE  Spec => []NoSilentGap
  <1>1. CaptureInv /\ CaptureInv' /\ CreditInv /\ [Next]_vars => CreditInv'
    BY CreditStep
  <1>2. CreditInv => NoSilentGap
    BY DEF CreditInv, NoSilentGap
  <1> QED
    BY <1>1, <1>2, CreditInit, CaptureCorrect, PTL DEF Spec

================================================================================
