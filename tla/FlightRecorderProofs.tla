------------------------- MODULE FlightRecorderProofs -------------------------
(***************************************************************************)
(* The bound on late records, and what a snapshot holds, for any number of *)
(* producers, any ring, any filter and any sequence of sessions and        *)
(* snapshots.                                                              *)
(*                                                                         *)
(* FreezeBounded alone is not inductive: a producer that passed its tests  *)
(* before the freeze still has its record to claim.  FreezeInv counts      *)
(* those producers with the records that are late already.                 *)
(*                                                                         *)
(* TornDetectable and SnapshotExact speak of a snapshot that is complete.  *)
(* SnapshotInv says what makes it so on the way: which claims the ring     *)
(* still holds, that each is published or has its one writer, how far that *)
(* writer has come, and that a copy whose sequence was read is not         *)
(* overwritten before its payload is.                                      *)
(***************************************************************************)
EXTENDS FlightRecorder, FiniteSetTheorems, WellFoundedInduction, TLAPS

\* Producers that passed their tests and have not claimed a sequence yet.
Claiming == {p \in Producers : pc[p] = "claim"}

FreezeInv ==
  /\ pc \in [Producers -> {"out", "called", "claim", "head", "tail", "publish", "freeze"}]
  /\ frozen \in BOOLEAN
  /\ late \in Nat
  /\ ~frozen => late = 0
  /\ frozen => late + Cardinality(Claiming) <= Cardinality(Producers) - 1

(* The producers are finitely many, and so are the claiming ones.          *)
LEMMA ClaimingFinite ==
  /\ IsFiniteSet(Producers)
  /\ IsFiniteSet(Claiming)
  /\ Cardinality(Producers) \in Nat
  /\ Cardinality(Claiming) \in Nat
<1>1. IsFiniteSet(Producers)
  BY RecorderAssumption DEF Producers
<1>2. IsFiniteSet(Claiming)
  BY <1>1, FS_Subset DEF Claiming
<1> QED
  BY <1>1, <1>2, FS_CardinalityType

(* A producer that is not claiming leaves room for itself in the bound.    *)
LEMMA OneNotClaiming ==
  ASSUME NEW p \in Producers, pc[p] # "claim"
  PROVE  Cardinality(Claiming) <= Cardinality(Producers) - 1
<1>1. Claiming \subseteq Producers \ {p}
  BY DEF Claiming
<1>2. /\ IsFiniteSet(Producers \ {p})
      /\ Cardinality(Producers \ {p}) = Cardinality(Producers) - 1
  BY ClaimingFinite, FS_RemoveElement
<1> QED
  BY <1>1, <1>2, FS_Subset

(* Nothing is frozen or late when the recorder is made.                    *)
LEMMA FreezeInvInit == Init => FreezeInv
<1>1. Init => pc = [p \in Producers |-> "out"] /\ late = 0
  BY DEF Init
<1>2. Init => frozen \in BOOLEAN /\ ~frozen
  BY Zenon DEF Init
<1> QED
  BY <1>1, <1>2 DEF FreezeInv

(* A step of the control thread leaves the producers where they are: it    *)
(* keeps frozen_ and the late records, or clears both.                     *)
LEMMA ControlKeepsFreezeInv ==
  ASSUME FreezeInv, Configure \/ Read
  PROVE  FreezeInv'
<1> DEFINE Clears == pc' = pc /\ frozen' = FALSE /\ late' = 0
           Keeps == pc' = pc /\ frozen' = frozen /\ late' = late
<1>1. ResetCounters \/ Enable \/ SetDisabled => Clears
  BY DEF ResetCounters, Enable, SetDisabled, inside
<1>2. StartStream \/ StopStream \/ SetEnabled \/ ResetSlot => Keeps
  BY DEF StartStream, StopStream, SetEnabled, ResetSlot, inside
<1>3. ASSUME NEW events \in Filters, SetEventMask(events) PROVE Keeps
  BY <1>3 DEF SetEventMask, inside
<1>4. ASSUME NEW e \in Triggers, SetFreezeTrigger(e) PROVE Keeps
  BY <1>4 DEF SetFreezeTrigger, inside
<1>5. ASSUME NEW capacity \in OutCapacities, Snapshot(capacity) PROVE Keeps
  BY <1>5 DEF Snapshot, inside
<1>6. CopySequence \/ CopyPayload \/ SnapshotTaken \/ SnapshotUsed => Keeps
  BY DEF CopySequence, CopyPayload, SnapshotTaken, SnapshotUsed, inside
<1>7. Clears \/ Keeps
  BY <1>1, <1>2, <1>3, <1>4, <1>5, <1>6 DEF Configure, Read
<1>8. CASE Clears
  <2>1. frozen' \in BOOLEAN /\ ~frozen'
    BY <1>8, Zenon
  <2> QED
    BY <1>8, <2>1 DEF FreezeInv
<1>9. CASE Keeps
  BY <1>9 DEF FreezeInv, Claiming
<1> QED
  BY <1>7, <1>8, <1>9

(* A producer adds to the claiming ones only while nothing is frozen, each *)
(* late record takes one of them away, and the one that freezes is not     *)
(* among them.                                                             *)
LEMMA RecordKeepsFreezeInv ==
  ASSUME FreezeInv, NEW p \in Producers, Record(p)
  PROVE  FreezeInv'
<1> USE DEF FreezeInv
<1>1. ASSUME NEW e \in Events, CallRecord(p, e) PROVE FreezeInv'
  <2>1. Claiming' = Claiming
    BY <1>1 DEF CallRecord, Claiming
  <2> QED
    BY <1>1, <2>1 DEF CallRecord, config, reading
<1>2. CASE Offer(p)
  BY <1>2 DEF Offer, Recorded, config, reading
<1>3. CASE TurnedAway(p)
  <2>1. Claiming' = Claiming
    BY <1>3 DEF TurnedAway, Claiming
  <2> QED
    BY <1>3, <2>1 DEF TurnedAway, config, reading
<1>4. CASE Claim(p)
  <2>1. Claiming' = Claiming \ {p} /\ p \in Claiming
    BY <1>4 DEF Claim, Claiming
  <2>2. Cardinality(Claiming') = Cardinality(Claiming) - 1
    BY <2>1, ClaimingFinite, FS_RemoveElement
  <2>3. /\ pc' \in [Producers -> {"out", "called", "claim", "head", "tail", "publish", "freeze"}]
        /\ frozen' = frozen
        /\ late' = IF frozen THEN late + 1 ELSE late
    BY <1>4 DEF Claim
  <2> QED
    BY <2>2, <2>3, ClaimingFinite
<1>5. CASE WriteHead(p) \/ WriteTail(p) \/ Publish(p)
  <2>1. Claiming' = Claiming
    BY <1>5 DEF WriteHead, WriteTail, Publish, Claiming
  <2> QED
    BY <1>5, <2>1 DEF WriteHead, WriteTail, Publish, config, reading
<1>6. CASE FreezeOrReturn(p)
  <2>1. Claiming' = Claiming /\ pc[p] # "claim"
    BY <1>6 DEF FreezeOrReturn, Claiming
  <2>2. Cardinality(Claiming) <= Cardinality(Producers) - 1
    BY <2>1, OneNotClaiming
  <2>3. /\ pc' \in [Producers -> {"out", "called", "claim", "head", "tail", "publish", "freeze"}]
        /\ late' = late
        /\ frozen' = (frozen \/ event[p] = trigger)
    BY <1>6 DEF FreezeOrReturn
  <2> QED
    BY <2>1, <2>2, <2>3, ClaimingFinite
<1> QED
  BY <1>1, <1>2, <1>3, <1>4, <1>5, <1>6 DEF Record

(* Once frozen_ is set, every other producer lands at most the one record  *)
(* whose tests it had passed, for every set of producers.                  *)
THEOREM FreezeCorrect == Spec => []FreezeBounded
<1>1. FreezeInv /\ [Next]_vars => FreezeInv'
  <2>1. FreezeInv /\ Next => FreezeInv'
    BY ControlKeepsFreezeInv, RecordKeepsFreezeInv DEF Next
  <2>2. FreezeInv /\ UNCHANGED vars => FreezeInv'
    BY DEF FreezeInv, Claiming, vars, inside
  <2> QED
    BY <2>1, <2>2
<1>2. FreezeInv => FreezeBounded
  BY ClaimingFinite DEF FreezeInv, FreezeBounded
<1> QED
  BY FreezeInvInit, <1>1, <1>2, PTL DEF Spec

-------------------------------------------------------------------------------
(* What a snapshot holds.                                                  *)

RecordType == [sequence : Nat, head : Nat \X Nat, tail : Nat \X Nat]

SnapshotTypes ==
  /\ pc \in [Producers -> {"out", "called", "claim", "head", "tail", "publish", "freeze"}]
  /\ sequence \in [Producers -> Nat \X Nat]
  /\ records \in [Indices -> RecordType]
  /\ next \in Nat /\ session \in Nat /\ index \in Nat
  /\ begin \in Nat /\ wanted \in Nat
  /\ out \in Seq(RecordType)
  /\ control \in {"idle", "reset", "enable", "copy", "taken"}

\* No producer straddled setEnabled() or lapped another one.
Sound == faults \cap {"straddled", "lapped"} = {}

\* The claims whose slots no later claim has taken.
Latest == {m \in Nat : m < next /\ next <= m + Capacity}

\* The slot of claim m bears its sequence.
Published(m) == records[m % Capacity].sequence = m + 1
HeadThere(m) == records[m % Capacity].head = Call(m)
TailThere(m) == records[m % Capacity].tail = Call(m)

\* The reset finds no producer past its tests and empties slot after slot.
ResetInv ==
  /\ (Sound /\ control \in {"reset", "enable"}) =>
        \A p \in Producers : pc[p] \in {"out", "called"}
  /\ (Sound /\ control = "reset") =>
        /\ index <= Capacity
        /\ \A i \in Indices : i < index => records[i].sequence = 0

\* A producer that is writing owns one of the latest claims of this session.
WriterInv ==
  (Sound /\ control # "reset") =>
    \A p \in Producers : Writing(p) =>
      /\ sequence[p][1] = session
      /\ sequence[p][2] \in Latest
      /\ \A q \in Producers : Writing(q) /\ q # p => sequence[q][2] # sequence[p][2]

\* A latest claim is whole in its slot, or its writer is on the way.
RecordInv ==
  (Sound /\ control # "reset") =>
    /\ \A i \in Indices : records[i].sequence <= next
    /\ \A m \in Latest :
         /\ Published(m) \/ \E p \in Producers : Writing(p) /\ sequence[p][2] = m
         /\ Published(m) => HeadThere(m) /\ TailThere(m)
    /\ \A p \in Producers : Writing(p) =>
         /\ ~Published(sequence[p][2])
         /\ pc[p] \in {"tail", "publish"} => HeadThere(sequence[p][2])
         /\ pc[p] = "publish" => TailThere(sequence[p][2])

\* The copy so far; the one whose payload is still to come stays published.
CopyInv ==
  control \in {"copy", "taken"} =>
    /\ index <= wanted /\ wanted <= Capacity
    /\ Len(out) = index \/ (Len(out) = index + 1 /\ index < wanted)
    /\ control = "taken" => index = wanted /\ Len(out) = wanted
    /\ "raced" \notin faults => begin + wanted = next
    /\ faults = {} => \A p \in Producers : ~Writing(p)
    /\ (Sound /\ "raced" \notin faults) =>
          \A n \in 1..Len(out) :
            /\ Expected(n) => IF n <= index THEN Whole(n) ELSE Published(begin + n - 1)
            /\ faults = {} => Expected(n)

SnapshotInv == SnapshotTypes /\ ResetInv /\ WriterInv /\ RecordInv /\ CopyInv

(* A nonempty set of naturals has a least element: of the intervals from 0  *)
(* to its members, a minimal one under strict inclusion ends there.        *)
LEMMA LeastNat ==
  ASSUME NEW T, T \subseteq Nat, T # {}
  PROVE  \E x \in T : \A y \in T : x <= y
<1> DEFINE Below == {0..n : n \in T}
           R == StrictSubsetOrdering(Nat)
           F == FiniteSubsetsOf(Nat)
<1>1. Below \subseteq F
  <2>1. SUFFICES ASSUME NEW n \in T PROVE 0..n \in F
    OBVIOUS
  <2>2. IsFiniteSet(0..n)
    BY FS_Interval, n \in Int, 0 \in Int
  <2> QED
    BY <2>2 DEF FiniteSubsetsOf
<1>2. Below # {}
  OBVIOUS
<1>3. IsWellFoundedOn(R, F)
  BY FS_StrictSubsetOrderingWellFounded
<1>4. \E x \in Below : \A y \in Below : ~(<<y, x>> \in R)
  <2> HIDE DEF Below, R, F
  <2> QED
    BY <1>1, <1>2, <1>3, WFMin
<1>5. PICK n \in T : \A m \in T : ~(<<0..m, 0..n>> \in R)
  BY <1>4
<1>6. ASSUME NEW m \in T, m < n PROVE FALSE
  <2>1. n \in 0..n /\ n \notin 0..m
    BY <1>6
  <2>2. 0..m \subseteq 0..n /\ 0..m # 0..n /\ 0..n \subseteq Nat
    BY <1>6, <2>1
  <2>3. <<0..m, 0..n>> \in R
    BY <2>2 DEF StrictSubsetOrdering
  <2> QED
    BY <2>3, <1>5
<1> QED
  BY <1>6

(* The rounding of the constructor ends: there is a least power of two that *)
(* holds the request or is the largest ring.                               *)
LEMMA CapacityType == Capacity \in Nat \ {0}
<1> DEFINE Fits(n) == \E k \in 0..20 : n = 2^k /\ (n >= RequestedCapacity \/ k = 20)
           Top == 2^20
           T == {n \in 1..Top : Fits(n)}
<1>1. Top \in Nat \ {0} /\ Fits(Top)
  OBVIOUS
<1>2. Capacity = CHOOSE c \in 1..Top : Fits(c) /\ \A m \in 1..(c - 1) : ~Fits(m)
  BY DEF Capacity
<1> HIDE DEF Fits, Top
<1>3. T \subseteq Nat /\ Top \in T
  BY <1>1
<1>4. PICK n \in T : \A m \in T : n <= m
  BY <1>3, LeastNat
<1>5. n \in 1..Top /\ Fits(n) /\ \A m \in 1..(n - 1) : ~Fits(m)
  BY <1>1, <1>4
<1>6. Capacity \in 1..Top
  BY <1>2, <1>5
<1> QED
  BY <1>1, <1>6

(* Euclidean division by a positive number.                                *)
LEMMA IntDivMod ==
  ASSUME NEW x \in Int, NEW n \in Nat \ {0}
  PROVE  /\ x % n \in 0..(n - 1)
         /\ x \div n \in Int
         /\ x = n * (x \div n) + (x % n)
  OBVIOUS

(* The remainder is the only one.                                          *)
LEMMA ModUnique ==
  ASSUME NEW n \in Nat \ {0}, NEW k \in Int, NEW r \in 0..(n - 1)
  PROVE  (n * k + r) % n = r
  <1> DEFINE x == n * k + r
  <1>1. x \in Int
    OBVIOUS
  <1>2. PICK q \in Int, s \in 0..(n - 1) : x = n * q + s /\ s = x % n
    BY <1>1, IntDivMod
  <1>3. n * (k - q) = s - r
    BY <1>2
  <1>4. k - q = 0
    <2>1. ~(k - q >= 1)
       <3>1. ASSUME k - q >= 1 PROVE n * (k - q) >= n
         BY <3>1
       <3> QED
         BY <3>1, <1>3
    <2>2. ~(k - q <= -1)
       <3>1. ASSUME k - q <= -1 PROVE n * (k - q) <= -n
         BY <3>1
       <3> QED
         BY <3>1, <1>3
    <2> QED
      BY <2>1, <2>2
  <1> QED
    BY <1>2, <1>3, <1>4

(* Multiples of the modulus do not count.                                  *)
LEMMA ModShift ==
  ASSUME NEW n \in Nat \ {0}, NEW x \in Int, NEW k \in Int
  PROVE  (x + n * k) % n = x % n
  <1>1. PICK q \in Int, s \in 0..(n - 1) : x = n * q + s /\ s = x % n
    BY IntDivMod
  <1>2. x + n * k = n * (q + k) + s
    BY <1>1
  <1>3. (n * (q + k) + s) % n = s
    BY ModUnique, q + k \in Int
  <1> QED
    BY <1>1, <1>2, <1>3

(* Numbers less than the modulus apart have different remainders.          *)
LEMMA ModApart ==
  ASSUME NEW n \in Nat \ {0}, NEW x \in Int, NEW y \in Int, x < y, y - x < n
  PROVE  x % n # y % n
  <1>1. PICK q \in Int : x = n * q + (x % n)
    BY IntDivMod
  <1>2. PICK s \in Int : y = n * s + (y % n)
    BY IntDivMod
  <1>3. SUFFICES ASSUME x % n = y % n PROVE FALSE
    OBVIOUS
  <1>4. y - x = n * (s - q)
    BY <1>1, <1>2, <1>3, IntDivMod
  <1>5. s - q >= 1
    BY <1>4
  <1>6. n * (s - q) >= n
    BY <1>5
  <1> QED
    BY <1>4, <1>6

(* A claim has a slot; the next claim of that slot comes Capacity later and *)
(* no other does before.                                                   *)
LEMMA ClaimSlots ==
  /\ \A m \in Nat : m % Capacity \in Indices
  /\ \A m \in Nat : (m + Capacity) % Capacity = m % Capacity
  /\ \A m, n \in Nat : m < n /\ n < m + Capacity => m % Capacity # n % Capacity
<1>1. Capacity \in Nat \ {0}
  BY CapacityType
<1>2. \A m \in Nat : m % Capacity \in Indices
  BY <1>1, IntDivMod DEF Indices
<1>3. ASSUME NEW m \in Nat PROVE (m + Capacity) % Capacity = m % Capacity
  <2>1. (m + Capacity * 1) % Capacity = m % Capacity
    BY <1>1, ModShift, m \in Int, 1 \in Int
  <2> QED
    BY <1>1, <2>1
<1>4. ASSUME NEW m \in Nat, NEW n \in Nat, m < n, n < m + Capacity
      PROVE  m % Capacity # n % Capacity
  BY <1>1, <1>4, ModApart, m \in Int, n \in Int, n - m < Capacity
<1> QED
  BY <1>2, <1>3, <1>4

-------------------------------------------------------------------------------
(* The steps of the producers.                                             *)

ProducerStates == {"out", "called", "claim", "head", "tail", "publish", "freeze"}

(* Nothing is claimed, written or copied when the recorder is made.        *)
LEMMA SnapshotInvInit == Init => SnapshotInv
<1> SUFFICES ASSUME Init PROVE SnapshotInv
  OBVIOUS
<1>1. /\ pc = [p \in Producers |-> "out"] /\ sequence = [p \in Producers |-> NoCall]
      /\ records = [i \in Indices |-> [sequence |-> 0, head |-> NoCall, tail |-> NoCall]]
      /\ next = 0 /\ session = 0 /\ index = 0 /\ begin = 0 /\ wanted = 0
      /\ out = <<>> /\ control = "idle"
  BY DEF Init
<1>2. NoCall \in Nat \X Nat
  BY DEF NoCall
<1>3. SnapshotTypes
  BY <1>1, <1>2 DEF SnapshotTypes, RecordType
<1>4. Latest = {} /\ \A p \in Producers : ~Writing(p)
  BY <1>1, CapacityType DEF Latest, Writing
<1>5. \A i \in Indices : records[i].sequence <= next
  BY <1>1
<1> QED
  BY <1>1, <1>3, <1>4, <1>5 DEF SnapshotInv, ResetInv, WriterInv, RecordInv, CopyInv

(* A producer that writes nothing, before the step and after it, disturbs  *)
(* no record and no copy.                                                  *)
LEMMA MoveKeeps ==
  ASSUME SnapshotInv, NEW p \in Producers,
         pc' \in [Producers -> ProducerStates],
         sequence' \in [Producers -> Nat \X Nat],
         \A q \in Producers : q # p => pc'[q] = pc[q] /\ sequence'[q] = sequence[q],
         pc[p] \notin {"head", "tail", "publish"},
         pc'[p] \notin {"head", "tail", "publish"},
         UNCHANGED <<records, next, session, index, begin, wanted, out, control>>,
         faults' = faults \/ (faults' = faults \cup {"straddled"}),
         (Sound' /\ control \in {"reset", "enable"}) => pc'[p] \in {"out", "called"}
  PROVE  SnapshotInv'
<1>1. \A q \in Producers : Writing(q)' <=> Writing(q)
  BY DEF Writing
<1>2. \A q \in Producers : Writing(q) => sequence'[q] = sequence[q]
  BY DEF Writing
<1>3. Sound' => Sound /\ faults' = faults
  BY DEF Sound
<1>4. Latest' = Latest
  BY DEF Latest
<1>5. \A m : /\ Published(m)' <=> Published(m)
             /\ HeadThere(m)' <=> HeadThere(m)
             /\ TailThere(m)' <=> TailThere(m)
  BY DEF Published, HeadThere, TailThere, Call
<1>6. SnapshotTypes'
  BY DEF SnapshotInv, SnapshotTypes, ProducerStates
<1>7. ResetInv'
  BY <1>3 DEF SnapshotInv, ResetInv
<1>8. WriterInv'
  BY <1>1, <1>2, <1>3, <1>4 DEF SnapshotInv, WriterInv
<1>9. RecordInv'
  <2> SUFFICES ASSUME Sound', control' # "reset" PROVE RecordInv'
    BY DEF RecordInv
  <2>1. \A q \in Producers : Writing(q) => pc'[q] = pc[q]
    BY DEF Writing
  <2> QED
    BY <1>1, <1>2, <1>3, <1>4, <1>5, <2>1 DEF SnapshotInv, RecordInv
<1>10. CopyInv'
  <2>1. \A n : (Expected(n)' <=> Expected(n)) /\ (Whole(n)' <=> Whole(n))
    BY DEF Expected, Whole, Call
  <2>2. ("raced" \notin faults' <=> "raced" \notin faults) /\ (faults' = {} => faults = {})
    OBVIOUS
  <2> QED
    BY <1>1, <1>3, <1>5, <2>1, <2>2 DEF SnapshotInv, CopyInv
<1> QED
  BY <1>6, <1>7, <1>8, <1>9, <1>10 DEF SnapshotInv

(* A claim takes the slot of the oldest of the latest claims, which no     *)
(* producer is writing unless this one laps it.                            *)
LEMMA ClaimKeeps ==
  ASSUME SnapshotInv, NEW p \in Producers, Claim(p)
  PROVE  SnapshotInv'
<1>1. /\ pc[p] = "claim" /\ pc' = [pc EXCEPT ![p] = "head"]
      /\ sequence' = [sequence EXCEPT ![p] = Call(next)]
      /\ next' = next + 1
      /\ UNCHANGED <<records, session, index, begin, wanted, out, control>>
  BY DEF Claim, reading
<1>2. Capacity \in Nat \ {0} /\ next \in Nat
  BY CapacityType DEF SnapshotInv, SnapshotTypes
<1>3. Call(next) \in Nat \X Nat /\ Call(next)[1] = session /\ Call(next)[2] = next
  BY <1>2 DEF Call, SnapshotInv, SnapshotTypes
<1>4. SnapshotTypes'
  BY <1>1, <1>2, <1>3 DEF SnapshotInv, SnapshotTypes
<1>5. /\ \A q \in Producers : q # p => /\ Writing(q)' <=> Writing(q)
                                       /\ sequence'[q] = sequence[q] /\ pc'[q] = pc[q]
      /\ Writing(p)' /\ sequence'[p] = Call(next) /\ pc'[p] = "head" /\ ~Writing(p)
  BY <1>1 DEF SnapshotInv, SnapshotTypes, Writing
<1>6. Sound' => Sound
  BY DEF Sound, Claim
<1>7. (Sound' /\ control \in {"reset", "enable"}) => FALSE
  BY <1>1, <1>6 DEF SnapshotInv, ResetInv
<1>8. ASSUME Sound', NEW q \in Producers, q # p, Writing(q)
      PROVE  sequence[q][2] % Capacity # next % Capacity
  <2>1. "lapped" \notin faults'
    BY <1>8 DEF Sound
  <2>2. ~(Slot(sequence[q]) = Slot(Call(next)))
    BY <1>8, <2>1 DEF Claim
  <2> QED
    BY <2>2, <1>3 DEF Slot
<1>9. ResetInv'
  BY <1>1, <1>7 DEF ResetInv
<1>10. Latest' \subseteq Latest \cup {next} /\ next \in Latest'
  BY <1>1, <1>2 DEF Latest
<1>11. ASSUME Sound', NEW q \in Producers, q # p, Writing(q), control # "reset"
       PROVE  sequence[q][2] \in Latest /\ sequence[q][2] \in Latest'
  <2> DEFINE m == sequence[q][2]
  <2>1. m \in Latest
    BY <1>6, <1>11 DEF SnapshotInv, WriterInv
  <2>2. m + Capacity # next
    <3>1. m \in Nat /\ m % Capacity # next % Capacity
      BY <1>8, <1>11, <2>1 DEF Latest
    <3> HIDE DEF m
    <3> QED
      BY <3>1, ClaimSlots
  <2> HIDE DEF m
  <2>3. m \in Latest'
    BY <2>1, <2>2, <1>1, <1>2 DEF Latest
  <2> QED
    BY <2>1, <2>3 DEF m
<1>12. WriterInv'
  <2> SUFFICES ASSUME Sound', control' # "reset", NEW q \in Producers, Writing(q)'
               PROVE  /\ sequence'[q][1] = session'
                      /\ sequence'[q][2] \in Latest'
                      /\ \A o \in Producers : Writing(o)' /\ o # q
                                               => sequence'[o][2] # sequence'[q][2]
    BY DEF WriterInv
  <2>1. \A m \in Latest : m # next
    BY <1>2 DEF Latest
  <2>2. CASE q = p
    BY <2>1, <2>2, <1>1, <1>3, <1>5, <1>10, <1>11
  <2>3. CASE q # p
    <3>1. Writing(q) /\ sequence'[q] = sequence[q] /\ control # "reset" /\ Sound
      BY <2>3, <1>1, <1>5, <1>6
    <3>2. sequence[q][1] = session /\ sequence[q][2] \in Latest'
      BY <3>1, <2>3, <1>11 DEF SnapshotInv, WriterInv
    <3>3. ASSUME NEW o \in Producers, Writing(o)', o # q
          PROVE  sequence'[o][2] # sequence'[q][2]
      <4>1. CASE o = p
        BY <4>1, <3>1, <2>1, <2>3, <1>3, <1>5, <1>11
      <4>2. CASE o # p
        BY <4>2, <3>1, <3>3, <1>5 DEF SnapshotInv, WriterInv
      <4> QED
        BY <4>1, <4>2
    <3> QED
      BY <3>1, <3>2, <3>3, <1>1
  <2> QED
    BY <2>2, <2>3
<1>13. RecordInv'
  <2> SUFFICES ASSUME Sound', control' # "reset" PROVE RecordInv'
    BY DEF RecordInv
  <2>1. /\ Sound /\ control # "reset"
        /\ \A i \in Indices : records[i].sequence <= next /\ records[i].sequence \in Nat
    BY <1>1, <1>6 DEF SnapshotInv, RecordInv, SnapshotTypes, RecordType
  <2>2. \A m : /\ Published(m)' <=> Published(m)
               /\ HeadThere(m)' <=> HeadThere(m)
               /\ TailThere(m)' <=> TailThere(m)
    BY <1>1 DEF Published, HeadThere, TailThere, Call
  <2>3. ~Published(next)
    <3>1. next % Capacity \in Indices
      BY <1>2, ClaimSlots
    <3> QED
      BY <3>1, <2>1, <1>2 DEF Published
  <2>4. \A i \in Indices : records'[i].sequence <= next'
    BY <2>1, <1>1, <1>2
  <2>5. ASSUME NEW m \in Latest'
        PROVE  /\ Published(m) \/ \E q \in Producers : Writing(q)' /\ sequence'[q][2] = m
               /\ Published(m) => HeadThere(m) /\ TailThere(m)
    <3>1. CASE m = next
      BY <3>1, <2>3, <1>3, <1>5
    <3>2. CASE m \in Latest
      <4>1. /\ Published(m) \/ \E q \in Producers : Writing(q) /\ sequence[q][2] = m
            /\ Published(m) => HeadThere(m) /\ TailThere(m)
        BY <3>2, <2>1 DEF SnapshotInv, RecordInv
      <4> QED
        BY <4>1, <1>5
    <3> QED
      BY <3>1, <3>2, <1>10
  <2>6. ASSUME NEW q \in Producers, Writing(q)'
        PROVE  /\ ~Published(sequence'[q][2])
               /\ pc'[q] \in {"tail", "publish"} => HeadThere(sequence'[q][2])
               /\ pc'[q] = "publish" => TailThere(sequence'[q][2])
    <3>1. CASE q = p
      BY <3>1, <2>3, <1>3, <1>5
    <3>2. CASE q # p
      BY <3>2, <2>1, <2>6, <1>5 DEF SnapshotInv, RecordInv
    <3> QED
      BY <3>1, <3>2
  <2> QED
    BY <2>2, <2>4, <2>5, <2>6 DEF RecordInv
<1>14. CopyInv'
  <2>1. control \in {"copy", "taken"} => "raced" \in faults'
    BY DEF Claim
  <2> QED
    BY <2>1, <1>1 DEF SnapshotInv, CopyInv
<1> QED
  BY <1>4, <1>9, <1>12, <1>13, <1>14 DEF SnapshotInv

(* A producer that is writing disturbs no slot but its own, and publishes  *)
(* it only when the payload is there.                                      *)
LEMMA WriteKeeps ==
  ASSUME SnapshotInv, NEW p \in Producers, Writing(p), NEW s, s = Slot(sequence[p]),
         records' \in [Indices -> RecordType],
         \A i \in Indices : i # s => records'[i] = records[i],
         pc' = [pc EXCEPT ![p] = pc'[p]],
         \/ /\ pc[p] = "head" /\ pc'[p] = "tail"
            /\ records'[s].sequence = records[s].sequence
            /\ records'[s].head = sequence[p]
         \/ /\ pc[p] = "tail" /\ pc'[p] = "publish"
            /\ records'[s].sequence = records[s].sequence
            /\ records'[s].head = records[s].head
            /\ records'[s].tail = sequence[p]
         \/ /\ pc[p] = "publish" /\ pc'[p] = "freeze"
            /\ records'[s].sequence = sequence[p][2] + 1
            /\ records'[s].head = records[s].head
            /\ records'[s].tail = records[s].tail,
         UNCHANGED <<sequence, next, session, index, begin, wanted, out, control, faults>>
  PROVE  SnapshotInv'
<1> DEFINE k == sequence[p][2]
<1>1. Capacity \in Nat \ {0} /\ next \in Nat
  BY CapacityType DEF SnapshotInv, SnapshotTypes
<1>2. s = k % Capacity /\ k \in Nat /\ s \in Indices
  BY ClaimSlots DEF Slot, SnapshotInv, SnapshotTypes
<1>3. SnapshotTypes'
  BY DEF SnapshotInv, SnapshotTypes
<1>4. \A q \in Producers : q # p => (Writing(q)' <=> Writing(q)) /\ pc'[q] = pc[q]
  BY DEF SnapshotInv, SnapshotTypes, Writing
<1>5. Latest' = Latest /\ (Sound' <=> Sound)
  BY DEF Latest, Sound
<1>6. Sound => control \notin {"reset", "enable"}
  BY DEF SnapshotInv, ResetInv, Writing
<1>7. ResetInv'
  BY <1>5, <1>6 DEF ResetInv
<1>8. WriterInv'
  <2>1. \A q \in Producers : Writing(q)' => Writing(q)
    BY <1>4
  <2> QED
    BY <2>1, <1>5 DEF SnapshotInv, WriterInv
<1>9. ASSUME Sound
      PROVE  /\ k \in Latest /\ k < next /\ sequence[p] = Call(k)
             /\ ~Published(k)
             /\ pc[p] \in {"tail", "publish"} => HeadThere(k)
             /\ pc[p] = "publish" => TailThere(k)
  <2>1. k \in Latest /\ sequence[p][1] = session
    BY <1>6, <1>9 DEF SnapshotInv, WriterInv
  <2>2. sequence[p] = <<session, k>>
    BY <2>1 DEF SnapshotInv, SnapshotTypes
  <2>3. /\ ~Published(k)
        /\ pc[p] \in {"tail", "publish"} => HeadThere(k)
        /\ pc[p] = "publish" => TailThere(k)
    BY <1>6, <1>9 DEF SnapshotInv, RecordInv
  <2> QED
    BY <2>1, <2>2, <2>3 DEF Latest, Call
<1>10. ASSUME Sound, NEW m \in Latest, m # k
       PROVE  /\ Published(m)' <=> Published(m)
              /\ HeadThere(m)' <=> HeadThere(m)
              /\ TailThere(m)' <=> TailThere(m)
  <2>1. k \in Latest
    BY <1>9, <1>10
  <2>2. m % Capacity \in Indices /\ m % Capacity # s
    <3> HIDE DEF k
    <3>1. m \in Nat /\ m < k + Capacity /\ k < m + Capacity
      BY <2>1, <1>1 DEF Latest
    <3> QED
      BY <3>1, <1>2, <1>10, ClaimSlots
  <2>3. records'[m % Capacity] = records[m % Capacity]
    BY <2>2, SMTT(30)
  <2> QED
    BY <2>3 DEF Published, HeadThere, TailThere, Call
<1>11. ASSUME Sound, Writing(p)'
       PROVE  /\ ~Published(k)'
              /\ pc'[p] \in {"tail", "publish"} => HeadThere(k)'
              /\ pc'[p] = "publish" => TailThere(k)'
  BY <1>2, <1>9, <1>11, ZenonT(60) DEF Published, HeadThere, TailThere, Call, Writing
<1>12. ASSUME Sound, ~Writing(p)'
       PROVE  /\ Published(k)' /\ HeadThere(k)' /\ TailThere(k)'
              /\ records'[s].sequence = k + 1
  BY <1>2, <1>9, <1>12 DEF Published, HeadThere, TailThere, Call, Writing
<1>13. RecordInv'
  <2> SUFFICES ASSUME Sound, control # "reset" PROVE RecordInv'
    BY <1>5 DEF RecordInv
  <2>1. \A i \in Indices : records'[i].sequence <= next'
    <3>1. \A i \in Indices : records[i].sequence <= next
      BY DEF SnapshotInv, RecordInv
    <3>2. k + 1 <= next
      <4> HIDE DEF k
      <4> QED
        BY <1>1, <1>2, <1>9
    <3> QED
      BY <3>1, <3>2, <1>2
  <2>2. ASSUME NEW m \in Latest
        PROVE  /\ Published(m)' \/ \E q \in Producers : Writing(q)' /\ sequence'[q][2] = m
               /\ Published(m)' => HeadThere(m)' /\ TailThere(m)'
    <3>1. CASE m = k
      <4>1. CASE Writing(p)'
        BY <4>1, <3>1, <1>11
      <4>2. CASE ~Writing(p)'
        BY <4>2, <3>1, <1>12
      <4> QED
        BY <4>1, <4>2
    <3>2. CASE m # k
      <4>1. /\ Published(m) \/ \E q \in Producers : Writing(q) /\ sequence[q][2] = m
            /\ Published(m) => HeadThere(m) /\ TailThere(m)
        BY DEF SnapshotInv, RecordInv
      <4>2. (\E q \in Producers : Writing(q) /\ sequence[q][2] = m)
              => \E q \in Producers : Writing(q)' /\ sequence'[q][2] = m
        BY <3>2, <1>4
      <4>3. /\ Published(m)' <=> Published(m)
            /\ HeadThere(m)' <=> HeadThere(m)
            /\ TailThere(m)' <=> TailThere(m)
        BY <3>2, <1>10
      <4> QED
        BY <4>1, <4>2, <4>3
    <3> QED
      BY <3>1, <3>2
  <2>3. ASSUME NEW q \in Producers, Writing(q)', NEW m, m = sequence[q][2]
        PROVE  /\ ~Published(m)'
               /\ pc'[q] \in {"tail", "publish"} => HeadThere(m)'
               /\ pc'[q] = "publish" => TailThere(m)'
    <3>1. CASE q = p
      BY <3>1, <2>3, <1>11
    <3>2. CASE q # p
      <4>1. Writing(q) /\ pc'[q] = pc[q]
        BY <3>2, <2>3, <1>4
      <4>2. m \in Latest /\ m # k
        BY <4>1, <3>2, <2>3 DEF SnapshotInv, WriterInv
      <4>3. /\ ~Published(m)
            /\ pc[q] \in {"tail", "publish"} => HeadThere(m)
            /\ pc[q] = "publish" => TailThere(m)
        BY <4>1, <2>3 DEF SnapshotInv, RecordInv
      <4> QED
        BY <4>1, <4>2, <4>3, <1>10
    <3> QED
      BY <3>1, <3>2
  <2> QED
    BY <2>1, <2>2, <2>3, <1>5 DEF RecordInv
<1>14. CopyInv'
  <2> SUFFICES ASSUME control \in {"copy", "taken"} PROVE CopyInv'
    BY DEF CopyInv
  <2>1. \A n : (Expected(n)' <=> Expected(n)) /\ (Whole(n)' <=> Whole(n))
    BY DEF Expected, Whole, Call
  <2>2. faults # {}
    BY DEF SnapshotInv, CopyInv
  <2>3. ASSUME Sound, "raced" \notin faults, NEW n \in 1..Len(out), Published(begin + n - 1)
        PROVE  Published(begin + n - 1)'
    <3>1. PICK m : m = begin + n - 1
      OBVIOUS
    <3>2. m \in Latest
      BY <3>1, <2>3, <1>1 DEF SnapshotInv, SnapshotTypes, CopyInv, Latest
    <3>3. m # k
      BY <3>1, <2>3, <1>9
    <3>4. Published(m)' <=> Published(m)
      BY <3>2, <3>3, <2>3, <1>10
    <3> QED
      BY <3>1, <3>4, <2>3 DEF Published
  <2> QED
    BY <2>1, <2>2, <2>3, <1>5 DEF SnapshotInv, CopyInv
<1> QED
  BY <1>3, <1>7, <1>8, <1>13, <1>14 DEF SnapshotInv

(* Every step of record().                                                 *)
LEMMA RecordKeepsSnapshotInv ==
  ASSUME SnapshotInv, NEW p \in Producers, Record(p)
  PROVE  SnapshotInv'
<1> DEFINE s == Slot(sequence[p])
           old == records[s]
<1>1. /\ pc \in [Producers -> ProducerStates]
      /\ sequence \in [Producers -> Nat \X Nat] /\ records \in [Indices -> RecordType]
      /\ sequence[p] \in Nat \X Nat /\ sequence[p][2] + 1 \in Nat /\ s \in Indices
      /\ old \in RecordType
  BY ClaimSlots DEF SnapshotInv, SnapshotTypes, ProducerStates, Slot
<1>2. ASSUME NEW e \in Events, CallRecord(p, e) PROVE SnapshotInv'
  <2>1. pc' = [pc EXCEPT ![p] = "called"] /\ pc[p] = "out"
    BY <1>2 DEF CallRecord
  <2>2. UNCHANGED <<records, sequence, next, session, index, begin, wanted, out, control, faults>>
    BY <1>2 DEF CallRecord, reading
  <2> QED
    BY <2>1, <2>2, <1>1, MoveKeeps DEF ProducerStates
<1>3. CASE Offer(p)
  <2>1. pc' = [pc EXCEPT ![p] = "claim"] /\ pc[p] = "called"
    BY <1>3 DEF Offer
  <2>2. UNCHANGED <<records, sequence, next, session, index, begin, wanted, out, control>>
    BY <1>3 DEF Offer, reading
  <2>3. faults' = faults \/ faults' = faults \cup {"straddled"}
    BY <1>3 DEF Offer
  <2>4. ~(Sound' /\ control \in {"reset", "enable"})
    BY <1>3 DEF Offer, Sound
  <2> QED
    BY <2>1, <2>2, <2>3, <2>4, <1>1, MoveKeeps DEF ProducerStates
<1>4. CASE TurnedAway(p)
  <2>1. pc' = [pc EXCEPT ![p] = "out"] /\ pc[p] = "called"
    BY <1>4 DEF TurnedAway
  <2>2. UNCHANGED <<records, sequence, next, session, index, begin, wanted, out, control, faults>>
    BY <1>4 DEF TurnedAway, reading
  <2> QED
    BY <2>1, <2>2, <1>1, MoveKeeps DEF ProducerStates
<1>5. CASE Claim(p)
  BY <1>5, ClaimKeeps
<1>6. CASE FreezeOrReturn(p)
  <2>1. /\ pc' = [pc EXCEPT ![p] = "out"] /\ pc[p] = "freeze"
        /\ sequence' = [sequence EXCEPT ![p] = NoCall] /\ NoCall \in Nat \X Nat
    BY <1>6 DEF FreezeOrReturn, NoCall
  <2>2. UNCHANGED <<records, next, session, index, begin, wanted, out, control, faults>>
    BY <1>6 DEF FreezeOrReturn, reading
  <2> QED
    BY <2>1, <2>2, <1>1, MoveKeeps DEF ProducerStates
<1>7. CASE WriteHead(p)
  <2>1. /\ pc[p] = "head" /\ pc' = [pc EXCEPT ![p] = "tail"]
        /\ records' = [records EXCEPT ![s] = [old EXCEPT !.head = sequence[p]]]
        /\ UNCHANGED <<sequence, next, session, index, begin, wanted, out, control, faults>>
    BY <1>7 DEF WriteHead, reading
  <2> HIDE DEF s, old
  <2>2. records' \in [Indices -> RecordType] /\ records'[s] = [old EXCEPT !.head = sequence[p]]
    BY <2>1, <1>1 DEF RecordType
  <2>3. records'[s].sequence = old.sequence /\ records'[s].head = sequence[p]
    BY <2>2, <1>1 DEF RecordType
  <2>4. pc'[p] = "tail" /\ Writing(p)
    BY <2>1, <1>1 DEF Writing
  <2> QED
    BY <2>1, <2>2, <2>3, <2>4, <1>1, WriteKeeps DEF s, old
<1>8. CASE WriteTail(p)
  <2>1. /\ pc[p] = "tail" /\ pc' = [pc EXCEPT ![p] = "publish"]
        /\ records' = [records EXCEPT ![s] = [old EXCEPT !.tail = sequence[p]]]
        /\ UNCHANGED <<sequence, next, session, index, begin, wanted, out, control, faults>>
    BY <1>8 DEF WriteTail, reading
  <2> HIDE DEF s, old
  <2>2. records' \in [Indices -> RecordType] /\ records'[s] = [old EXCEPT !.tail = sequence[p]]
    BY <2>1, <1>1 DEF RecordType
  <2>3. /\ records'[s].sequence = old.sequence /\ records'[s].head = old.head
        /\ records'[s].tail = sequence[p]
    BY <2>2, <1>1 DEF RecordType
  <2>4. pc'[p] = "publish" /\ Writing(p)
    BY <2>1, <1>1 DEF Writing
  <2> QED
    BY <2>1, <2>2, <2>3, <2>4, <1>1, WriteKeeps DEF s, old
<1>9. CASE Publish(p)
  <2>1. /\ pc[p] = "publish" /\ pc' = [pc EXCEPT ![p] = "freeze"]
        /\ records' = [records EXCEPT ![s] = [old EXCEPT !.sequence = sequence[p][2] + 1]]
        /\ UNCHANGED <<sequence, next, session, index, begin, wanted, out, control, faults>>
    BY <1>9 DEF Publish, reading
  <2> HIDE DEF s, old
  <2>2. /\ records' \in [Indices -> RecordType]
        /\ records'[s] = [old EXCEPT !.sequence = sequence[p][2] + 1]
    BY <2>1, <1>1 DEF RecordType
  <2>3. /\ records'[s].sequence = sequence[p][2] + 1 /\ records'[s].head = old.head
        /\ records'[s].tail = old.tail
    BY <2>2, <1>1 DEF RecordType
  <2>4. pc'[p] = "freeze" /\ Writing(p)
    BY <2>1, <1>1 DEF Writing
  <2> QED
    BY <2>1, <2>2, <2>3, <2>4, <1>1, WriteKeeps DEF s, old
<1> QED
  BY <1>2, <1>3, <1>4, <1>5, <1>6, <1>7, <1>8, <1>9 DEF Record

-------------------------------------------------------------------------------
(* The steps of the control thread.                                        *)

(* What the invariant speaks of.                                           *)
data == <<pc, sequence, records, next, session, index, begin, wanted, out, control, faults>>

LEMMA CalmKeeps ==
  ASSUME SnapshotInv, UNCHANGED data
  PROVE  SnapshotInv'
BY ZenonT(60)
   DEF data, SnapshotInv, SnapshotTypes, ResetInv, WriterInv, RecordInv, CopyInv, Sound,
       Latest, Writing, Published, HeadThere, TailThere, Expected, Whole, Call

(* setEnabled(true) from its first test to the last counter it clears.     *)
LEMMA ResetKeeps ==
  ASSUME SnapshotInv, SetEnabled \/ ResetSlot \/ ResetCounters \/ Enable
  PROVE  SnapshotInv'
<1>1. CASE SetEnabled
  <2>1. /\ control' = "reset" /\ index' = 0 /\ session' = session + 1
        /\ faults' = {f \in {"straddled"} : Busy}
        /\ UNCHANGED <<pc, sequence, records, next, begin, wanted, out>>
    BY <1>1 DEF SetEnabled, inside, reading
  <2>2. Sound' => \A p \in Producers : pc'[p] \in {"out", "called"}
    BY <2>1 DEF Sound, Busy
  <2>3. SnapshotTypes'
    BY <2>1 DEF SnapshotInv, SnapshotTypes
  <2>4. index' <= Capacity /\ \A i \in Indices : ~(i < index')
    BY <2>1, CapacityType DEF Indices
  <2> QED
    BY <2>1, <2>2, <2>3, <2>4
    DEF SnapshotInv, ResetInv, WriterInv, RecordInv, CopyInv
<1>2. CASE ResetSlot
  <2> DEFINE old == records[index]
             new == [old EXCEPT !.sequence = 0, !.tail = NoCall]
  <2>1. /\ control = "reset" /\ control' = "reset" /\ index \in Indices
        /\ index' = index + 1 /\ records' = [records EXCEPT ![index] = new]
        /\ UNCHANGED <<pc, sequence, next, session, begin, wanted, out, faults>>
    BY <1>2 DEF ResetSlot, inside, reading
  <2>2. old \in RecordType /\ records \in [Indices -> RecordType] /\ index \in Nat
    BY <2>1 DEF SnapshotInv, SnapshotTypes
  <2>3. new \in RecordType /\ new.sequence = 0
    BY <2>2 DEF RecordType, NoCall
  <2> HIDE DEF new
  <2>4. records' \in [Indices -> RecordType]
    BY <2>1, <2>2, <2>3
  <2>5. \A i \in Indices : records'[i] = IF i = index THEN new ELSE records[i]
    BY <2>1, <2>2
  <2>6. SnapshotTypes'
    BY <2>1, <2>4 DEF SnapshotInv, SnapshotTypes
  <2>7. Sound' => /\ index' <= Capacity
                 /\ \A i \in Indices : i < index' => records'[i].sequence = 0
    <3>1. Sound' => Sound
      BY <2>1 DEF Sound
    <3>2. Sound => \A i \in Indices : i < index => records[i].sequence = 0
      BY <2>1 DEF SnapshotInv, ResetInv
    <3>3. \A i \in Indices : i < index' => i = index \/ i < index
      BY <2>1, CapacityType DEF Indices
    <3>4. index' <= Capacity
      BY <2>1, CapacityType DEF Indices
    <3> QED
      BY <3>1, <3>2, <3>3, <3>4, <2>3, <2>5
  <2>8. Sound' => \A p \in Producers : pc'[p] \in {"out", "called"}
    BY <2>1 DEF Sound, SnapshotInv, ResetInv
  <2> QED
    BY <2>1, <2>6, <2>7, <2>8 DEF SnapshotInv, ResetInv, WriterInv, RecordInv, CopyInv
<1>3. CASE ResetCounters
  <2>1. /\ control = "reset" /\ control' = "enable" /\ index = Capacity /\ next' = 0
        /\ UNCHANGED <<pc, sequence, records, session, index, begin, wanted, out, faults>>
    BY <1>3 DEF ResetCounters, inside, reading
  <2>2. SnapshotTypes'
    BY <2>1 DEF SnapshotInv, SnapshotTypes
  <2>3. Latest' = {}
    BY <2>1, CapacityType DEF Latest
  <2>4. Sound' => \A p \in Producers : pc'[p] \in {"out", "called"}
    BY <2>1 DEF Sound, SnapshotInv, ResetInv
  <2>5. Sound' => \A p \in Producers : ~Writing(p)'
    BY <2>4 DEF Writing
  <2>6. Sound' => \A i \in Indices : records'[i].sequence <= next'
    <3>1. Sound => \A i \in Indices : i < index => records[i].sequence = 0
      BY <2>1 DEF SnapshotInv, ResetInv
    <3>2. \A i \in Indices : i < index
      BY <2>1, CapacityType DEF Indices
    <3>3. Sound' => Sound
      BY <2>1 DEF Sound
    <3> QED
      BY <3>1, <3>2, <3>3, <2>1
  <2> QED
    BY <2>1, <2>2, <2>3, <2>4, <2>5, <2>6
    DEF SnapshotInv, ResetInv, WriterInv, RecordInv, CopyInv
<1>4. CASE Enable
  <2>1. /\ control = "enable" /\ control' = "idle"
        /\ UNCHANGED <<pc, sequence, records, next, session, index, begin, wanted, out, faults>>
    BY <1>4 DEF Enable, inside, reading
  <2> QED
    BY <2>1 DEF SnapshotInv, SnapshotTypes, ResetInv, WriterInv, RecordInv, CopyInv, Sound,
                Latest, Writing, Published, HeadThere, TailThere, Call
<1> QED
  BY <1>1, <1>2, <1>3, <1>4

(* What a step of snapshot() leaves alone, the ring stays as it is.        *)
LEMMA ReadKeepsRing ==
  ASSUME SnapshotInv, control # "reset", control' \notin {"reset", "enable"},
         UNCHANGED <<pc, sequence, records, next, session>>, Sound' <=> Sound
  PROVE  ResetInv' /\ WriterInv' /\ RecordInv'
<1>1. ResetInv'
  BY DEF ResetInv
<1>2. WriterInv'
  BY DEF SnapshotInv, WriterInv, Latest, Writing
<1>3. RecordInv'
  BY DEF SnapshotInv, RecordInv, Latest, Writing, Published, HeadThere, TailThere, Call
<1> QED
  BY <1>1, <1>2, <1>3

(* A snapshot begins with the newest claims the ring and the buffer hold.  *)
LEMMA BeginKeeps ==
  ASSUME SnapshotInv, NEW capacity \in OutCapacities, Snapshot(capacity)
  PROVE  SnapshotInv'
<1>1. /\ control = "idle" /\ control' = "copy" /\ out' = <<>> /\ index' = 0
      /\ wanted' = Least(Available, capacity) /\ begin' = next - wanted'
      /\ faults' = (faults \ {"raced", "busy"}) \cup {f \in {"busy"} : Busy}
      /\ UNCHANGED <<pc, sequence, records, next, session>>
  BY DEF Snapshot, Setup, inside
<1>2. capacity \in Nat /\ next \in Nat /\ Capacity \in Nat
  BY RecorderAssumption, CapacityType DEF SnapshotInv, SnapshotTypes
<1>3. wanted' \in Nat /\ wanted' <= Capacity /\ begin' \in Nat /\ begin' + wanted' = next'
  BY <1>1, <1>2, SMTT(30) DEF Least, Available
<1>4. SnapshotTypes'
  BY <1>1, <1>3, SMTT(30) DEF SnapshotInv, SnapshotTypes
<1>5. Sound' <=> Sound
  BY <1>1 DEF Sound
<1>6. faults' = {} => \A p \in Producers : ~Writing(p)'
  BY <1>1 DEF Busy, Writing
<1>7. CopyInv'
  <2>1. Len(out') = 0 /\ index' = 0 /\ 1..Len(out') = {}
    BY <1>1
  <2>2. index' <= wanted'
    BY <1>1, <1>3
  <2> QED
    BY <1>1, <1>3, <1>6, <2>1, <2>2 DEF CopyInv
<1> QED
  BY <1>1, <1>4, <1>5, <1>7, ReadKeepsRing DEF SnapshotInv

(* The claim a copy is due for, while no later one has raced it.           *)
LEMMA SourceLatest ==
  ASSUME SnapshotInv, control = "copy", index < wanted, "raced" \notin faults
  PROVE  begin + index \in Latest
BY CapacityType DEF SnapshotInv, SnapshotTypes, CopyInv, Latest

(* The sequence of a record is copied, and then its payload.               *)
LEMMA CopyKeeps ==
  ASSUME SnapshotInv, CopySequence \/ CopyPayload
  PROVE  SnapshotInv'
<1>1. /\ begin \in Nat /\ index \in Nat /\ wanted \in Nat /\ out \in Seq(RecordType)
      /\ Len(out) \in Nat /\ records \in [Indices -> RecordType]
      /\ Source \in Indices /\ records[Source] \in RecordType
  BY ClaimSlots, begin + index \in Nat DEF SnapshotInv, SnapshotTypes, Source
<1>2. /\ control = "copy" /\ control' = "copy"
      /\ UNCHANGED <<pc, sequence, records, next, session, begin, wanted, faults>>
  BY DEF CopySequence, CopyPayload, inside
<1>3. (Sound' <=> Sound) /\ \A m : Published(m)' <=> Published(m)
  BY <1>2 DEF Sound, Published
<1>4. ResetInv' /\ WriterInv' /\ RecordInv'
  BY <1>2, <1>3, ReadKeepsRing
<1>5. /\ index <= wanted /\ wanted <= Capacity
      /\ Len(out) = index \/ (Len(out) = index + 1 /\ index < wanted)
      /\ "raced" \notin faults => begin + wanted = next
      /\ faults = {} => \A p \in Producers : ~Writing(p)
      /\ (Sound /\ "raced" \notin faults) =>
            \A n \in 1..Len(out) :
              /\ Expected(n) => IF n <= index THEN Whole(n) ELSE Published(begin + n - 1)
              /\ faults = {} => Expected(n)
  BY <1>2 DEF SnapshotInv, CopyInv
<1>6. CASE CopySequence
  <2> DEFINE copy == [sequence |-> records[Source].sequence, head |-> NoCall, tail |-> NoCall]
  <2>1. index < wanted /\ Len(out) = index /\ index' = index /\ out' = Append(out, copy)
    BY <1>6 DEF CopySequence
  <2>2. copy \in RecordType /\ copy.sequence = records[Source].sequence
    BY <1>1 DEF RecordType, NoCall
  <2> HIDE DEF copy
  <2>3. /\ out' \in Seq(RecordType) /\ Len(out') = index + 1
        /\ \A n \in 1..Len(out) : out'[n] = out[n]
        /\ out'[index + 1] = copy
    BY <1>1, <2>1, <2>2
  <2>4. SnapshotTypes'
    BY <1>2, <2>1, <2>3 DEF SnapshotInv, SnapshotTypes
  <2>5. \A n \in 1..Len(out) : (Expected(n)' <=> Expected(n)) /\ (Whole(n)' <=> Whole(n))
    BY <1>2, <2>3 DEF Expected, Whole, Call
  <2>6. Expected(index + 1)' <=> Published(begin + index)
    BY <1>1, <1>2, <2>1, <2>2, <2>3 DEF Expected, Published, Source
  <2>7. (Sound /\ faults = {}) => Published(begin + index)
    BY <1>2, <1>5, <2>1, SourceLatest DEF SnapshotInv, RecordInv
  <2>8. \A n \in 1..Len(out') : n \in 1..Len(out) \/ n = index + 1
    BY <1>1, <2>1, <2>3
  <2>9. (Sound' /\ "raced" \notin faults') =>
          \A n \in 1..Len(out') :
            /\ Expected(n)' => IF n <= index' THEN Whole(n)' ELSE Published(begin + n - 1)'
            /\ faults' = {} => Expected(n)'
    <3> SUFFICES ASSUME Sound, "raced" \notin faults, NEW n \in 1..Len(out')
                 PROVE  /\ Expected(n)' => IF n <= index' THEN Whole(n)'
                                           ELSE Published(begin + n - 1)'
                        /\ faults' = {} => Expected(n)'
      BY <1>2, <1>3
    <3>1. CASE n \in 1..Len(out)
      <4>1. n <= index /\ n <= index'
        BY <3>1, <1>1, <2>1
      <4> QED
        BY <3>1, <4>1, <1>2, <1>5, <2>5
    <3>2. CASE n = index + 1
      <4>1. ~(n <= index') /\ begin + n - 1 = begin + index
        BY <3>2, <1>1, <2>1
      <4>2. Expected(n)' <=> Published(begin + index)
        BY <3>2, <2>1, <2>6
      <4>3. Published(begin + n - 1)' <=> Published(begin + index)
        BY <4>1, <1>2 DEF Published
      <4> QED
        BY <4>1, <4>2, <4>3, <2>7, <1>2
    <3> QED
      BY <3>1, <3>2, <2>8
  <2>10. CopyInv'
    <3>1. faults' = {} => \A p \in Producers : ~Writing(p)'
      BY <1>2, <1>5 DEF Writing
    <3> QED
      BY <3>1, <1>1, <1>2, <1>5, <2>1, <2>3, <2>9 DEF CopyInv
  <2> QED
    BY <1>4, <2>4, <2>10 DEF SnapshotInv
<1>7. CASE CopyPayload
  <2>1. PICK i \in Nat : i = index + 1
    BY <1>1
  <2> DEFINE copy == [out[i] EXCEPT !.head = records[Source].head,
                                    !.tail = records[Source].tail]
  <2>2. Len(out) = i /\ index' = i /\ index < wanted /\ i \in 1..Len(out)
    BY <1>1, <1>5, <1>7, <2>1 DEF CopyPayload
  <2>3. out' = [out EXCEPT ![i] = copy]
    BY <1>7, <2>1 DEF CopyPayload
  <2>4. out[i] \in RecordType
    BY <1>1, <2>2
  <2>5. /\ copy \in RecordType /\ copy.sequence = out[i].sequence
        /\ copy.head = records[Source].head /\ copy.tail = records[Source].tail
    BY <1>1, <2>4 DEF RecordType
  <2> HIDE DEF copy
  <2>6. /\ out' \in Seq(RecordType) /\ Len(out') = Len(out)
        /\ \A n \in 1..Len(out) : out'[n] = IF n = i THEN copy ELSE out[n]
    BY <1>1, <2>2, <2>3, <2>5
  <2>7. SnapshotTypes'
    BY <1>1, <1>2, <2>2, <2>6 DEF SnapshotInv, SnapshotTypes
  <2>8. \A n \in 1..Len(out) : Expected(n)' <=> Expected(n)
    BY <1>2, <2>5, <2>6 DEF Expected
  <2>9. \A n \in 1..Len(out) : n # i => (Whole(n)' <=> Whole(n)) /\ n <= index
    BY <1>1, <1>2, <2>1, <2>2, <2>6 DEF Whole, Call
  <2>10. ASSUME Sound, "raced" \notin faults, Expected(i) PROVE Whole(i)'
    <3>1. ~(i <= index) /\ begin + i - 1 = begin + index /\ begin' + i - 1 = begin + index
      BY <1>1, <1>2, <2>1
    <3>2. Published(begin + index)
      BY <3>1, <2>10, <1>5, <2>2
    <3>3. HeadThere(begin + index) /\ TailThere(begin + index)
      BY <3>2, <2>10, <1>2, <2>2, SourceLatest DEF SnapshotInv, RecordInv
    <3>4. copy.head = Call(begin + index) /\ copy.tail = Call(begin + index)
      BY <3>3, <2>5 DEF HeadThere, TailThere, Source
    <3>5. out'[i] = copy /\ session' = session
      BY <1>2, <2>2, <2>6
    <3> QED
      BY <3>1, <3>4, <3>5 DEF Whole, Call
  <2>11. (Sound' /\ "raced" \notin faults') =>
           \A n \in 1..Len(out') : /\ Expected(n)' => Whole(n)'
                                   /\ faults' = {} => Expected(n)'
    BY <1>2, <1>3, <1>5, <2>6, <2>8, <2>9, <2>10
  <2>12. \A n \in 1..Len(out') : n <= index'
    BY <1>1, <2>2, <2>6
  <2>13. CopyInv'
    <3>1. faults' = {} => \A p \in Producers : ~Writing(p)'
      BY <1>2, <1>5 DEF Writing
    <3>2. index' <= wanted' /\ wanted' <= Capacity /\ Len(out') = index'
      BY <1>1, <1>2, <1>5, <2>1, <2>2, <2>6
    <3>3. (Sound' /\ "raced" \notin faults') =>
            \A n \in 1..Len(out') :
              /\ Expected(n)' => IF n <= index' THEN Whole(n)' ELSE Published(begin + n - 1)'
              /\ faults' = {} => Expected(n)'
      <4> SUFFICES ASSUME Sound', "raced" \notin faults', NEW n \in 1..Len(out')
                   PROVE  /\ Expected(n)' => IF n <= index' THEN Whole(n)'
                                             ELSE Published(begin + n - 1)'
                          /\ faults' = {} => Expected(n)'
        OBVIOUS
      <4>1. n <= index'
        BY <2>12
      <4>2. (Expected(n)' => Whole(n)') /\ (faults' = {} => Expected(n)')
        BY <2>11
      <4> QED
        BY <4>1, <4>2
    <3>4. "raced" \notin faults' => begin' + wanted' = next'
      BY <1>2, <1>5
    <3> QED
      BY <3>1, <3>2, <3>3, <3>4, <1>2 DEF CopyInv
  <2> QED
    BY <1>4, <2>7, <2>13 DEF SnapshotInv
<1> QED
  BY <1>6, <1>7

(* Every step of snapshot().                                               *)
LEMMA ReadKeepsSnapshotInv ==
  ASSUME SnapshotInv, Read
  PROVE  SnapshotInv'
<1>1. ASSUME NEW capacity \in OutCapacities, Snapshot(capacity) PROVE SnapshotInv'
  BY <1>1, BeginKeeps
<1>2. CASE CopySequence \/ CopyPayload
  BY <1>2, CopyKeeps
<1>3. CASE SnapshotTaken
  <2>1. /\ control = "copy" /\ index = wanted /\ control' = "taken"
        /\ UNCHANGED <<pc, sequence, records, next, session, index, begin, wanted, out, faults>>
    BY <1>3 DEF SnapshotTaken, inside, reading
  <2>2. SnapshotTypes' /\ (Sound' <=> Sound)
    BY <2>1 DEF SnapshotInv, SnapshotTypes, Sound
  <2>3. Len(out) = wanted
    BY <2>1 DEF SnapshotInv, SnapshotTypes, CopyInv
  <2>4. CopyInv'
    BY <2>1, <2>2, <2>3
    DEF SnapshotInv, CopyInv, Writing, Expected, Whole, Call, Published
  <2> QED
    BY <2>1, <2>2, <2>4, ReadKeepsRing DEF SnapshotInv
<1>4. CASE SnapshotUsed
  <2>1. /\ control = "taken" /\ control' = "idle"
        /\ index' = 0 /\ begin' = 0 /\ wanted' = 0 /\ out' = <<>>
        /\ UNCHANGED <<pc, sequence, records, next, session, faults>>
    BY <1>4 DEF SnapshotUsed, inside
  <2>2. SnapshotTypes' /\ (Sound' <=> Sound) /\ CopyInv'
    BY <2>1 DEF SnapshotInv, SnapshotTypes, Sound, CopyInv
  <2> QED
    BY <2>1, <2>2, ReadKeepsRing DEF SnapshotInv
<1> QED
  BY <1>1, <1>2, <1>3, <1>4 DEF Read

(* Every step of the setup.                                                *)
LEMMA ConfigureKeepsSnapshotInv ==
  ASSUME SnapshotInv, Configure
  PROVE  SnapshotInv'
<1>1. StartStream \/ StopStream \/ SetDisabled => UNCHANGED data
  BY DEF StartStream, StopStream, SetDisabled, inside, reading, data
<1>2. ASSUME NEW events \in Filters, SetEventMask(events) PROVE UNCHANGED data
  BY <1>2 DEF SetEventMask, inside, reading, data
<1>3. ASSUME NEW e \in Triggers, SetFreezeTrigger(e) PROVE UNCHANGED data
  BY <1>3 DEF SetFreezeTrigger, inside, reading, data
<1> QED
  BY <1>1, <1>2, <1>3, CalmKeeps, ResetKeeps DEF Configure

LEMMA SnapshotStep == SnapshotInv /\ [Next]_vars => SnapshotInv'
<1>1. SnapshotInv /\ Next => SnapshotInv'
  BY RecordKeepsSnapshotInv, ConfigureKeepsSnapshotInv, ReadKeepsSnapshotInv DEF Next
<1>2. SnapshotInv /\ UNCHANGED vars => SnapshotInv'
  BY CalmKeeps DEF vars, inside, reading, data
<1> QED
  BY <1>1, <1>2

(* A copy that bears the sequence its position calls for is whole and of   *)
(* this session, for every ring and every number of producers, although a  *)
(* producer may be in the middle of a record while snapshot() copies it.   *)
THEOREM TornCorrect == Spec => []TornDetectable
<1>1. SnapshotInv => TornDetectable
  <2>1. faults \subseteq {"busy"} => Sound /\ "raced" \notin faults
    BY DEF Sound
  <2>2. SnapshotInv /\ control = "taken" => \A n \in 1..Len(out) : n <= index
    BY DEF SnapshotInv, SnapshotTypes, CopyInv
  <2> QED
    BY <2>1, <2>2 DEF SnapshotInv, CopyInv, TornDetectable
<1> QED
  BY SnapshotInvInit, SnapshotStep, <1>1, PTL DEF Spec

(* With every producer outside record(), snapshot() hands over exactly the *)
(* newest records of the session, as many as there are or the buffer       *)
(* holds, whole and in the order of their claims.                          *)
THEOREM SnapshotCorrect == Spec => []SnapshotExact
<1>1. SnapshotInv => SnapshotExact
  <2>1. faults = {} => Sound /\ "raced" \notin faults
    BY DEF Sound
  <2>2. SnapshotInv /\ control = "taken" => \A n \in 1..Len(out) : n <= index
    BY DEF SnapshotInv, SnapshotTypes, CopyInv
  <2> QED
    BY <2>1, <2>2 DEF SnapshotInv, CopyInv, SnapshotExact
<1> QED
  BY SnapshotInvInit, SnapshotStep, <1>1, PTL DEF Spec

===============================================================================
