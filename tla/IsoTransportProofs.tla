-------------------------- MODULE IsoTransportProofs --------------------------
(***************************************************************************)
(* Proofs about the duplex transport, for every number of OUT, feedback    *)
(* and capture transfers, every packet layout, every ring and FIFO size    *)
(* and every order of completions, stops and failures.                     *)
(***************************************************************************)
EXTENDS IsoTransport, FiniteSetTheorems, SequenceTheorems, TLAPS

Playback == Out \cup Fb

LivePlaces == {"usb", "callback", "dangling"}

DrainSteps == {"drainOut", "drainIn", "partial"}

\* The part of the type invariant the argument needs.
Typed ==
  /\ at \in [Xfers -> Places]
  /\ pending \in Seq(Out)
  /\ cbpc \in CallbackSteps
  /\ cbby \in {"event", "control"}
  /\ evt \in {"top", "in", "exited"}
  /\ ctl \in ControlSteps
  /\ todo \in SUBSET Playback

\* The callback under way owns its transfer, is of its kind, and belongs to a
\* thread that is handling events.
Owned ==
  /\ cbpc # "none" => cbx \in Xfers /\ at[cbx] = "callback"
  /\ \A x \in Xfers : at[x] = "callback" => cbpc # "none" /\ cbx = x
  /\ cbpc \in {"plan", "submit"} => cbx \in Out
  /\ cbpc = "feedback" => cbx \in Fb
  /\ cbpc \in {"store", "deferred", "resubmit"} => cbx \in In
  /\ cbpc # "none" /\ cbby = "event" => evt = "in"
  /\ cbpc # "none" /\ cbby = "control" => ctl \in DrainSteps

\* A transfer submitIsoPump() has still to submit is idle, and only an OUT
\* transfer is ever deferred.
Unsubmitted ==
  /\ todo # {} => ctl \in {"submit", "account"}
  /\ \A x \in todo : at[x] = "idle"
  /\ ctl = "idle" => \A x \in Playback : at[x] = "idle"
  /\ \A x \in Fb \cup In : at[x] # "pending"

\* The inductive invariant.
TransportInv ==
  /\ Typed
  /\ Owned
  /\ Unsubmitted
  /\ PendingOwned
  /\ InflightExact
  /\ CaptureTeardownSafe

-----------------------------------------------------------------------------
(* The transfer sets are finite, disjoint and of the size the counters      *)
(* count.                                                                   *)
LEMMA Finite ==
  /\ IsFiniteSet(Playback) /\ IsFiniteSet(In)
  /\ Playback \subseteq Xfers /\ In \subseteq Xfers
  /\ Playback \cap In = {}
  /\ \A x \in Xfers : x \in In <=> x \notin Playback
  <1>1. IsFiniteSet(Playback)
    BY TransportAssumption, FS_Union DEF TransportAssumption, Playback
  <1> QED
    BY <1>1, TransportAssumption DEF TransportAssumption, Playback, Xfers

(* How many transfers of a set are live is a natural number.                *)
LEMMA LiveFinite ==
  ASSUME NEW S, IsFiniteSet(S)
  PROVE  IsFiniteSet(Live(S)) /\ Cardinality(Live(S)) \in Nat
  <1>1. IsFiniteSet(Live(S))
    BY FS_Subset DEF Live
  <1> QED
    BY <1>1, FS_CardinalityType

(* A set with no live transfer counts zero, and only such a set does.       *)
LEMMA NoneLive ==
  ASSUME NEW S, IsFiniteSet(S), Cardinality(Live(S)) = 0
  PROVE  \A x \in S : at[x] \notin LivePlaces
  <1>1. Live(S) = {}
    BY LiveFinite, FS_EmptySet
  <1> QED
    BY <1>1 DEF Live, LivePlaces

Change(x, place, S) ==
  IF x \in S
    THEN (IF place \in LivePlaces THEN 1 ELSE 0)
         - (IF at[x] \in LivePlaces THEN 1 ELSE 0)
    ELSE 0

(* Moving one transfer changes the count of live transfers by what the move *)
(* gains and loses.                                                         *)
LEMMA MoveCounts ==
  ASSUME NEW S, IsFiniteSet(S), S \subseteq Xfers,
         at \in [Xfers -> Places],
         NEW x \in Xfers, NEW place, Move(x, place)
  PROVE  Cardinality(Live(S)') = Cardinality(Live(S)) + Change(x, place, S)
  <1>1. IsFiniteSet(Live(S)) /\ Cardinality(Live(S)) \in Nat
    BY LiveFinite
  <1>2. CASE x \in S /\ place \in LivePlaces /\ at[x] \notin LivePlaces
    <2>1. Live(S)' = Live(S) \cup {x} /\ x \notin Live(S)
      BY <1>2 DEF Live, Move, LivePlaces
    <2>2. Cardinality(Live(S)') = Cardinality(Live(S)) + 1
      BY <1>1, <2>1, FS_AddElement
    <2>3. Change(x, place, S) = 1
      BY <1>2 DEF Change
    <2> QED BY <2>2, <2>3
  <1>3. CASE x \in S /\ place \notin LivePlaces /\ at[x] \in LivePlaces
    <2>1. Live(S)' = Live(S) \ {x} /\ x \in Live(S)
      BY <1>3 DEF Live, Move, LivePlaces
    <2>2. Cardinality(Live(S)') = Cardinality(Live(S)) - 1
      BY <1>1, <2>1, FS_RemoveElement
    <2>3. Change(x, place, S) = -1
      BY <1>3 DEF Change
    <2> QED BY <1>1, <2>2, <2>3
  <1>4. CASE x \notin S \/ (place \in LivePlaces <=> at[x] \in LivePlaces)
    <2>1. Live(S)' = Live(S)
      BY <1>4 DEF Live, Move, LivePlaces
    <2> QED BY <1>1, <1>4, <2>1 DEF Change
  <1> QED BY <1>2, <1>3, <1>4

(* The pending FIFO is undisturbed by a step that defers and resumes no     *)
(* transfer.                                                                *)
LEMMA PendingKept ==
  ASSUME PendingOwned, UNCHANGED pending,
         \A x \in Out : at'[x] = "pending" <=> at[x] = "pending"
  PROVE  PendingOwned'
  BY DEF PendingOwned

(* A step that moves nothing keeps the counts and the ownership of the      *)
(* transfers.                                                               *)
LEMMA StillStep ==
  ASSUME TransportInv, UNCHANGED <<at, pending, inflight, captureInflight>>
  PROVE  PendingOwned' /\ InflightExact' /\ CaptureTeardownSafe'
  <1>1. PendingOwned'
    BY PendingKept DEF TransportInv
  <1>2. InflightExact' /\ CaptureTeardownSafe'
    BY DEF TransportInv, InflightExact, CaptureTeardownSafe, Live
  <1> QED BY <1>1, <1>2

(* The three effects of moving a transfer that is not deferred.             *)
LEMMA MoveStep ==
  ASSUME TransportInv, NEW x \in Xfers, NEW place \in {"idle", "usb", "callback"},
         at[x] \in {"idle", "usb", "callback"},
         Move(x, place), UNCHANGED pending
  PROVE  /\ at' \in [Xfers -> Places]
         /\ PendingOwned'
         /\ CaptureTeardownSafe'
         /\ Cardinality(Live(Playback)') = inflight + Change(x, place, Playback)
         /\ Cardinality(Live(In)') = captureInflight + Change(x, place, In)
  <1>1. at \in [Xfers -> Places]
    BY DEF TransportInv, Typed
  <1>2. at' \in [Xfers -> Places]
    BY <1>1 DEF Move, Places
  <1>3. PendingOwned'
    <2>1. \A y \in Out : at'[y] = "pending" <=> at[y] = "pending"
      BY <1>1 DEF Move, Xfers
    <2> QED BY <2>1, PendingKept DEF TransportInv
  <1>4. CaptureTeardownSafe'
    BY <1>1 DEF Move, TransportInv, CaptureTeardownSafe, Xfers
  <1>5. Cardinality(Live(Playback)') = Cardinality(Live(Playback)) + Change(x, place, Playback)
    BY <1>1, Finite, MoveCounts
  <1>6. Cardinality(Live(In)') = Cardinality(Live(In)) + Change(x, place, In)
    BY <1>1, Finite, MoveCounts
  <1>7. inflight = Cardinality(Live(Playback)) /\ captureInflight = Cardinality(Live(In))
    BY DEF TransportInv, InflightExact, Playback
  <1> QED BY <1>2, <1>3, <1>4, <1>5, <1>6, <1>7

(* The counters are those of the invariant.                                 *)
LEMMA Counters ==
  /\ InflightExact <=>
       /\ inflight = Cardinality(Live(Playback))
       /\ captureInflight = Cardinality(Live(In))
  /\ InflightExact' <=>
       /\ inflight' = Cardinality(Live(Playback)')
       /\ captureInflight' = Cardinality(Live(In)')
  /\ TransportInv => inflight \in Nat /\ captureInflight \in Nat
  <1>1. InflightExact <=>
          /\ inflight = Cardinality(Live(Playback))
          /\ captureInflight = Cardinality(Live(In))
    BY DEF InflightExact, Playback
  <1>2. InflightExact' <=>
          /\ inflight' = Cardinality(Live(Playback)')
          /\ captureInflight' = Cardinality(Live(In)')
    BY DEF InflightExact, Playback
  <1>3. TransportInv => inflight \in Nat /\ captureInflight \in Nat
    BY <1>1, Finite, LiveFinite DEF TransportInv
  <1> QED BY <1>1, <1>2, <1>3

-----------------------------------------------------------------------------
(* A completion that retires its transfer: the counter of its half falls.   *)
LEMMA RetireStep ==
  ASSUME TransportInv, NEW x \in Xfers, at[x] = "usb", Move(x, "idle"),
         UNCHANGED <<pending, callback, evt, control>>,
         x \in Playback => inflight' = inflight - 1 /\ captureInflight' = captureInflight,
         x \in In => inflight' = inflight /\ captureInflight' = captureInflight - 1
  PROVE  TransportInv'
  <1>1. /\ at' \in [Xfers -> Places] /\ PendingOwned' /\ CaptureTeardownSafe'
        /\ Cardinality(Live(Playback)') = inflight + Change(x, "idle", Playback)
        /\ Cardinality(Live(In)') = captureInflight + Change(x, "idle", In)
    BY MoveStep
  <1>2. InflightExact'
    BY <1>1, Counters, Finite DEF Change, LivePlaces
  <1>3. Typed'
    BY <1>1 DEF TransportInv, Typed, callback, control
  <1>4. Owned'
    BY DEF TransportInv, Typed, Owned, Move, callback, control
  <1>5. Unsubmitted'
    BY DEF TransportInv, Typed, Unsubmitted, Move, control, Xfers, Playback
  <1> QED BY <1>1, <1>2, <1>3, <1>4, <1>5 DEF TransportInv

(* A completion that goes on: the callback takes its transfer.              *)
LEMMA EnterStep ==
  ASSUME TransportInv, NEW x \in Xfers, NEW by \in {"event", "control"},
         NEW step \in CallbackSteps, Handles(by), at[x] = "usb",
         Enter(x, by, step),
         \/ step = "plan" /\ x \in Out
         \/ step = "feedback" /\ x \in Fb
         \/ step = "store" /\ x \in In,
         UNCHANGED <<pending, evt, control, inflight, captureInflight>>
  PROVE  TransportInv'
  <1>0. Move(x, "callback")
    BY DEF Enter, Move
  <1>1. /\ at' \in [Xfers -> Places] /\ PendingOwned' /\ CaptureTeardownSafe'
        /\ Cardinality(Live(Playback)') = inflight + Change(x, "callback", Playback)
        /\ Cardinality(Live(In)') = captureInflight + Change(x, "callback", In)
    BY <1>0, MoveStep
  <1>2. InflightExact'
    BY <1>1, Counters, Finite DEF Change, LivePlaces
  <1>3. Typed'
    BY <1>1 DEF TransportInv, Typed, Enter, control
  <1>4. Owned'
    BY DEF TransportInv, Typed, Owned, Enter, Handles, control, DrainSteps,
           CallbackSteps
  <1>5. Unsubmitted'
    BY DEF TransportInv, Typed, Unsubmitted, Enter, control, Xfers, Playback
  <1> QED BY <1>1, <1>2, <1>3, <1>4, <1>5 DEF TransportInv

(* A callback that ends: its transfer is submitted again, and the counters  *)
(* stay, or it retires, and the counter of its half falls.                  *)
LEMMA ReturnStep ==
  ASSUME TransportInv, cbpc # "none", NEW place \in {"idle", "usb"},
         Move(cbx, place), Return, UNCHANGED <<pending, evt, control>>,
         place = "usb" => UNCHANGED <<inflight, captureInflight>>,
         place = "idle" /\ cbx \in Playback =>
           inflight' = inflight - 1 /\ captureInflight' = captureInflight,
         place = "idle" /\ cbx \in In =>
           inflight' = inflight /\ captureInflight' = captureInflight - 1
  PROVE  TransportInv'
  <1>0. PICK x \in Xfers : x = cbx /\ at[x] = "callback"
    BY DEF TransportInv, Owned
  <1>1. /\ at' \in [Xfers -> Places] /\ PendingOwned' /\ CaptureTeardownSafe'
        /\ Cardinality(Live(Playback)') = inflight + Change(x, place, Playback)
        /\ Cardinality(Live(In)') = captureInflight + Change(x, place, In)
    BY <1>0, MoveStep
  <1>2. InflightExact'
    BY <1>0, <1>1, Counters, Finite DEF Change, LivePlaces
  <1>3. Typed'
    BY <1>1 DEF TransportInv, Typed, Return, control, CallbackSteps
  <1>4. Owned'
    BY <1>0 DEF TransportInv, Typed, Owned, Move, Return, control
  <1>5. Unsubmitted'
    BY <1>0 DEF TransportInv, Typed, Unsubmitted, Move, control, Xfers, Playback
  <1> QED BY <1>1, <1>2, <1>3, <1>4, <1>5 DEF TransportInv

(* A callback that goes on to a later step of the same handler.             *)
LEMMA ContinueStep ==
  ASSUME TransportInv,
         \/ cbpc = "plan" /\ cbpc' = "submit"
         \/ cbpc = "store" /\ cbpc' = "deferred"
         \/ cbpc = "deferred" /\ cbpc' = "resubmit",
         UNCHANGED <<cbx, cbby, at, pending, inflight, captureInflight, evt, control>>
  PROVE  TransportInv'
  <1>1. PendingOwned' /\ InflightExact' /\ CaptureTeardownSafe'
    BY StillStep
  <1>2. Typed' /\ Owned' /\ Unsubmitted'
    BY DEF TransportInv, Typed, Owned, Unsubmitted, control, CallbackSteps
  <1> QED BY <1>1, <1>2 DEF TransportInv

(* A step that touches neither transfers, callback, event nor control       *)
(* thread.                                                                  *)
LEMMA OutsideStep ==
  ASSUME TransportInv,
         UNCHANGED <<at, pending, inflight, captureInflight, callback, evt, control>>
  PROVE  TransportInv'
  <1>1. PendingOwned' /\ InflightExact' /\ CaptureTeardownSafe'
    BY StillStep
  <1>2. Typed' /\ Owned' /\ Unsubmitted'
    BY DEF TransportInv, Typed, Owned, Unsubmitted, callback, control
  <1> QED BY <1>1, <1>2 DEF TransportInv

(* A step of the control thread that moves no transfer and begins no        *)
(* submission.                                                              *)
LEMMA ControlOnly ==
  ASSUME TransportInv,
         UNCHANGED <<at, pending, inflight, captureInflight, callback, evt>>,
         ctl' \in ControlSteps, ctl' # "idle",
         ControlFree \/ ctl' \in DrainSteps,
         todo' = {} \/ (todo' = todo /\ ctl' \in {"submit", "account"})
  PROVE  TransportInv'
  <1>1. PendingOwned' /\ InflightExact' /\ CaptureTeardownSafe'
    BY StillStep
  <1>2. Typed' /\ Unsubmitted'
    BY DEF TransportInv, Typed, Unsubmitted, callback
  <1>3. Owned'
    BY DEF TransportInv, Typed, Owned, callback, ControlFree
  <1> QED BY <1>1, <1>2, <1>3 DEF TransportInv

-----------------------------------------------------------------------------
(* The pending FIFO, whose entries are distinct, gains the transfer of the  *)
(* callback under way and loses its oldest one.                             *)
LEMMA PendingAppends ==
  ASSUME pending \in Seq(Out), PendingOwned, NEW x \in Out,
         at[x] # "pending", at \in [Xfers -> Places],
         Move(x, "pending"), pending' = Append(pending, x)
  PROVE  PendingOwned' /\ pending' \in Seq(Out)
  <1>1. /\ pending' \in Seq(Out) /\ Len(pending') = Len(pending) + 1
        /\ Len(pending) \in Nat
        /\ \A i \in 1..Len(pending) : pending'[i] = pending[i]
        /\ pending'[Len(pending) + 1] = x
    OBVIOUS
  <1>2. \A i \in 1..Len(pending) : pending[i] \in Out /\ at[pending[i]] = "pending"
    BY DEF PendingOwned
  <1>3. {y \in Out : at'[y] = "pending"} = {y \in Out : at[y] = "pending"} \cup {x}
    BY DEF Move, Xfers
  <1>4. {pending'[i] : i \in 1..Len(pending')}
          = {pending[i] : i \in 1..Len(pending)} \cup {x}
    <2>1. 1..Len(pending') = 1..Len(pending) \cup {Len(pending) + 1}
      BY <1>1
    <2> QED BY <1>1, <2>1
  <1>5. \A i, j \in 1..Len(pending') : pending'[i] = pending'[j] => i = j
    <2>1. \A i \in 1..Len(pending') : i \in 1..Len(pending) \/ i = Len(pending) + 1
      BY <1>1
    <2> QED BY <1>1, <1>2, <2>1 DEF PendingOwned
  <1> QED BY <1>1, <1>3, <1>4, <1>5 DEF PendingOwned

LEMMA PendingShifts ==
  ASSUME pending \in Seq(Out), pending # <<>>, PendingOwned,
         at \in [Xfers -> Places],
         Move(Head(pending), "usb"), pending' = Tail(pending)
  PROVE  /\ PendingOwned' /\ pending' \in Seq(Out)
         /\ Head(pending) \in Out /\ at[Head(pending)] = "pending"
  <1>1. /\ pending' \in Seq(Out) /\ Len(pending') = Len(pending) - 1
        /\ Len(pending) \in Nat /\ Len(pending) >= 1
        /\ \A i \in 1..Len(pending') : pending'[i] = pending[i + 1]
        /\ Head(pending) = pending[1]
    BY HeadTailProperties, EmptySeq
  <1>2. \A i \in 1..Len(pending) : pending[i] \in Out /\ at[pending[i]] = "pending"
    BY DEF PendingOwned
  <1>3. Head(pending) \in Out /\ at[Head(pending)] = "pending"
    BY <1>1, <1>2
  <1>4. {y \in Out : at'[y] = "pending"}
          = {y \in Out : at[y] = "pending"} \ {Head(pending)}
    BY <1>3 DEF Move, Xfers
  <1>5. \A i, j \in 1..Len(pending) : pending[i] = pending[j] => i = j
    BY DEF PendingOwned
  <1>6. {pending'[i] : i \in 1..Len(pending')}
          = {pending[i] : i \in 1..Len(pending)} \ {Head(pending)}
    <2>1. ASSUME NEW i \in 1..Len(pending')
          PROVE  pending'[i] \in {pending[k] : k \in 1..Len(pending)} \ {Head(pending)}
      <3>1. i + 1 \in 1..Len(pending) /\ i + 1 # 1 /\ 1 \in 1..Len(pending)
        BY <1>1
      <3> QED BY <1>1, <1>5, <3>1
    <2>2. ASSUME NEW k \in 1..Len(pending), pending[k] # Head(pending)
          PROVE  pending[k] \in {pending'[i] : i \in 1..Len(pending')}
      <3>1. k # 1
        BY <1>1, <2>2
      <3>2. k - 1 \in 1..Len(pending') /\ pending'[k - 1] = pending[k]
        BY <1>1, <3>1
      <3> QED BY <3>2
    <2> QED BY <2>1, <2>2
  <1>7. \A i, j \in 1..Len(pending') : pending'[i] = pending'[j] => i = j
    <2>1. ASSUME NEW i \in 1..Len(pending'), NEW j \in 1..Len(pending'),
                 pending'[i] = pending'[j]
          PROVE  i = j
      <3>1. i + 1 \in 1..Len(pending) /\ j + 1 \in 1..Len(pending)
        BY <1>1
      <3>2. i + 1 = j + 1
        BY <1>1, <1>5, <2>1, <3>1
      <3> QED BY <3>2
    <2> QED BY <2>1
  <1>8. {pending'[i] : i \in 1..Len(pending')} = {y \in Out : at'[y] = "pending"}
    BY <1>4, <1>6 DEF PendingOwned
  <1> QED BY <1>1, <1>3, <1>7, <1>8 DEF PendingOwned

(* onIso() defers: the transfer leaves the callback for the pending FIFO.   *)
LEMMA DeferStep ==
  ASSUME TransportInv, OnIsoDefer
  PROVE  TransportInv'
  <1>0. PICK x \in Out : x = cbx
    BY DEF TransportInv, Owned, OnIsoDefer
  <1>1. x \in Xfers /\ x \in Playback /\ x \notin In /\ at[x] = "callback"
    BY <1>0, Finite DEF TransportInv, Owned, OnIsoDefer, Playback, Xfers
  <1>2. CASE Len(pending) < PendingSlots
    <2>1. Move(x, "pending") /\ pending' = Append(pending, x)
          /\ Return /\ inflight' = inflight - 1
          /\ UNCHANGED <<captureInflight, evt, control>>
      BY <1>0, <1>2 DEF OnIsoDefer
    <2>2. PendingOwned' /\ pending' \in Seq(Out)
      BY <1>1, <2>1, PendingAppends DEF TransportInv, Typed
    <2>3. /\ Cardinality(Live(Playback)') =
               Cardinality(Live(Playback)) + Change(x, "pending", Playback)
          /\ Cardinality(Live(In)') =
               Cardinality(Live(In)) + Change(x, "pending", In)
      BY <1>1, <2>1, MoveCounts, Finite DEF TransportInv, Typed
    <2>4. /\ Change(x, "pending", Playback) = -1
          /\ Change(x, "pending", In) = 0
      BY <1>1 DEF Change, LivePlaces
    <2>5. InflightExact'
      BY <2>1, <2>3, <2>4, Counters DEF TransportInv
    <2>6. at' \in [Xfers -> Places]
      BY <1>1, <2>1 DEF TransportInv, Typed, Move, Places
    <2>7. Typed'
      BY <2>1, <2>2, <2>6 DEF TransportInv, Typed, Return, control, CallbackSteps
    <2>8. Owned'
      BY <1>0, <1>1, <2>1 DEF TransportInv, Typed, Owned, Move, Return, control
    <2>9. Unsubmitted'
      BY <1>1, <2>1, Finite, TransportAssumption
         DEF TransportAssumption, TransportInv, Typed, Unsubmitted, Move,
             control, Xfers, Playback
    <2>10. CaptureTeardownSafe'
      BY <1>1, <2>1 DEF TransportInv, Typed, CaptureTeardownSafe, Move, Xfers
    <2> QED BY <2>2, <2>5, <2>7, <2>8, <2>9, <2>10 DEF TransportInv
  <1>3. CASE ~(Len(pending) < PendingSlots)
    <2>1. /\ Move(cbx, "idle") /\ Return /\ cbpc # "none"
          /\ inflight' = inflight - 1
          /\ UNCHANGED <<pending, captureInflight, evt, control>>
      BY <1>3 DEF OnIsoDefer
    <2> QED BY <1>0, <1>1, <2>1, ReturnStep
  <1> QED BY <1>2, <1>3

(* submitPendingImplicitTransfers() resumes the oldest deferred transfer.   *)
LEMMA ResumeStep ==
  ASSUME TransportInv, SubmitPending
  PROVE  TransportInv'
  <1>1. /\ pending # <<>> /\ Move(Head(pending), "usb") /\ pending' = Tail(pending)
        /\ inflight' = inflight + 1
        /\ UNCHANGED <<captureInflight, callback, evt, control>>
    BY DEF SubmitPending
  <1>2. /\ PendingOwned' /\ pending' \in Seq(Out)
        /\ Head(pending) \in Out /\ at[Head(pending)] = "pending"
    BY <1>1, PendingShifts DEF TransportInv, Typed
  <1>3. PICK x \in Out : x = Head(pending)
    BY <1>2
  <1>4. x \in Xfers /\ x \in Playback /\ x \notin In
        /\ at[x] = "pending" /\ Move(x, "usb")
    BY <1>1, <1>2, <1>3, Finite DEF Playback, Xfers
  <1>5. /\ Cardinality(Live(Playback)') =
             Cardinality(Live(Playback)) + Change(x, "usb", Playback)
        /\ Cardinality(Live(In)') = Cardinality(Live(In)) + Change(x, "usb", In)
    BY <1>4, MoveCounts, Finite DEF TransportInv, Typed
  <1>6. Change(x, "usb", Playback) = 1 /\ Change(x, "usb", In) = 0
    BY <1>4 DEF Change, LivePlaces
  <1>7. InflightExact'
    BY <1>1, <1>5, <1>6, Counters DEF TransportInv
  <1>8. at' \in [Xfers -> Places]
    BY <1>4 DEF TransportInv, Typed, Move, Places
  <1>9. Typed'
    BY <1>1, <1>2, <1>8 DEF TransportInv, Typed, callback, control
  <1>10. Owned'
    BY <1>1, <1>4 DEF TransportInv, Typed, Owned, Move, callback, control
  <1>11. Unsubmitted'
    BY <1>1, <1>4 DEF TransportInv, Typed, Unsubmitted, Move, control, Xfers,
                      Playback
  <1>12. CaptureTeardownSafe'
    BY <1>4 DEF TransportInv, Typed, CaptureTeardownSafe, Move, Xfers
  <1> QED BY <1>2, <1>7, <1>9, <1>10, <1>11, <1>12 DEF TransportInv

(* submitIsoPump() submits one transfer it has still to submit.             *)
LEMMA SubmitStep ==
  ASSUME TransportInv, NEW x \in todo, ctl = "submit", Move(x, "usb"),
         inflight' = inflight + 1, todo' = todo \ {x},
         ctl' \in {"submit", "account"},
         UNCHANGED <<pending, captureInflight, callback, evt>>
  PROVE  TransportInv'
  <1>1. x \in Xfers /\ x \in Playback /\ x \notin In /\ at[x] = "idle"
    BY Finite DEF TransportInv, Typed, Unsubmitted
  <1>2. /\ at' \in [Xfers -> Places] /\ PendingOwned' /\ CaptureTeardownSafe'
        /\ Cardinality(Live(Playback)') = inflight + Change(x, "usb", Playback)
        /\ Cardinality(Live(In)') = captureInflight + Change(x, "usb", In)
    BY <1>1, MoveStep
  <1>3. Change(x, "usb", Playback) = 1 /\ Change(x, "usb", In) = 0
    BY <1>1 DEF Change, LivePlaces
  <1>4. InflightExact'
    BY <1>2, <1>3, Counters
  <1>5. Typed'
    BY <1>2 DEF TransportInv, Typed, callback, ControlSteps
  <1>6. Owned'
    BY <1>1 DEF TransportInv, Typed, Owned, Move, callback, DrainSteps
  <1>7. Unsubmitted'
    BY <1>1 DEF TransportInv, Typed, Unsubmitted, Move, Xfers, Playback
  <1> QED BY <1>2, <1>4, <1>5, <1>6, <1>7 DEF TransportInv

(* stopIsoPump() frees its transfers: no callback is under way, so a live   *)
(* transfer stays counted.                                                  *)
LEMMA FreeStep ==
  ASSUME TransportInv, JoinAndFree
  PROVE  TransportInv'
  <1>1. \A x \in Xfers : at[x] # "callback"
    BY DEF TransportInv, Typed, Owned, JoinAndFree, DrainSteps
  <1>2. /\ at' = [x \in Xfers |-> IF x \in In THEN at[x] ELSE Freed(at[x])]
        /\ pending' = <<>> /\ UNCHANGED <<inflight, captureInflight, callback, evt, todo>>
        /\ ctl' \in {"drainIn", "unarmed"} /\ ctl = "join"
    BY DEF JoinAndFree
  <1>3. at' \in [Xfers -> Places]
    BY <1>2 DEF TransportInv, Typed, Freed, Places
  <1>4. Live(Playback)' = Live(Playback) /\ Live(In)' = Live(In)
    BY <1>1, <1>2, Finite DEF Live, Freed
  <1>5. InflightExact'
    BY <1>2, <1>4, Counters DEF TransportInv
  <1>6. \A x \in Out : at'[x] # "pending"
    BY <1>2, Finite DEF Freed, Playback, Xfers
  <1>7. PendingOwned' /\ pending' \in Seq(Out)
    BY <1>2, <1>6 DEF PendingOwned
  <1>8. Typed'
    BY <1>2, <1>3, <1>7 DEF TransportInv, Typed, callback, ControlSteps
  <1>9. Owned'
    BY <1>1, <1>2 DEF TransportInv, Typed, Owned, callback, DrainSteps, Freed
  <1>10. Unsubmitted'
    BY <1>2, Finite, TransportAssumption
       DEF TransportAssumption, TransportInv, Typed, Unsubmitted, Freed, Xfers,
           Playback
  <1>11. CaptureTeardownSafe'
    BY <1>2, Finite DEF TransportInv, CaptureTeardownSafe
  <1> QED BY <1>5, <1>7, <1>8, <1>9, <1>10, <1>11 DEF TransportInv

(* stopCapturePump() frees its transfers when none is live.                 *)
LEMMA FreeCaptureStep ==
  ASSUME TransportInv, StopCapture
  PROVE  TransportInv'
  <1>1. /\ at' = [x \in Xfers |-> IF x \in In THEN Freed(at[x]) ELSE at[x]]
        /\ UNCHANGED <<pending, inflight, captureInflight, callback, evt, todo>>
        /\ ctl' \in {"stopped", "deferred"} /\ ctl \in DrainSteps /\ ControlFree
        /\ captureInflight = 0
    BY DEF StopCapture, DrainSteps, plan, counts
  <1>2. \A x \in In : at[x] \notin LivePlaces
    BY <1>1, NoneLive, Finite, Counters DEF TransportInv
  <1>3. at' \in [Xfers -> Places]
    BY <1>1 DEF TransportInv, Typed, Freed, Places
  <1>4. Live(Playback)' = Live(Playback) /\ Live(In)' = Live(In)
    BY <1>1, <1>2, Finite DEF Live, Freed, LivePlaces
  <1>5. InflightExact'
    BY <1>1, <1>4, Counters DEF TransportInv
  <1>6. PendingOwned'
    <2>1. \A x \in Out : at'[x] = at[x]
      BY <1>1, Finite DEF Playback, Xfers
    <2> QED BY <1>1, <2>1, PendingKept DEF TransportInv
  <1>7. Typed'
    BY <1>1, <1>3 DEF TransportInv, Typed, callback, ControlSteps
  <1>8. Owned'
    BY <1>1, <1>2, Finite
       DEF TransportInv, Typed, Owned, callback, ControlFree, Freed, LivePlaces
  <1>9. Unsubmitted'
    BY <1>1, <1>2, Finite
       DEF TransportInv, Typed, Unsubmitted, Freed, LivePlaces, Xfers, Playback,
           DrainSteps
  <1>10. CaptureTeardownSafe'
    BY <1>1, <1>2, Finite DEF CaptureTeardownSafe, Freed, LivePlaces
  <1> QED BY <1>5, <1>6, <1>7, <1>8, <1>9, <1>10 DEF TransportInv

-----------------------------------------------------------------------------
(* Every completion libusb delivers keeps the invariant.                    *)
LEMMA CompletionInv ==
  ASSUME TransportInv, NEW x \in Xfers, NEW by \in {"event", "control"},
         Completion(x, by)
  PROVE  TransportInv'
  <1> USE DEF plan, counts
  <1>0. (x \in Out \/ x \in Fb => x \in Playback /\ x \notin In)
        /\ (x \in In => x \notin Playback)
        /\ {"plan", "feedback", "store"} \subseteq CallbackSteps
    BY Finite DEF Playback, CallbackSteps
  <1>1. CASE x \in Out /\ OnIsoStopped(x, by)
    BY <1>0, <1>1, RetireStep DEF OnIsoStopped
  <1>2. CASE x \in Out /\ OnIsoNoDevice(x, by)
    BY <1>0, <1>2, RetireStep DEF OnIsoNoDevice
  <1>3. CASE x \in Out /\ OnIsoCompleted(x, by)
    BY <1>0, <1>3, EnterStep DEF OnIsoCompleted
  <1>4. CASE x \in Fb /\ OnFeedbackStopped(x, by)
    BY <1>0, <1>4, RetireStep DEF OnFeedbackStopped
  <1>5. CASE x \in Fb /\ OnFeedbackNoDevice(x, by)
    BY <1>0, <1>5, RetireStep DEF OnFeedbackNoDevice
  <1>6. CASE x \in Fb /\ OnFeedbackCompleted(x, by)
    BY <1>0, <1>6, EnterStep DEF OnFeedbackCompleted
  <1>7. CASE x \in In /\ OnCaptureStopped(x, by)
    BY <1>0, <1>7, RetireStep DEF OnCaptureStopped
  <1>8. CASE x \in In /\ OnCaptureNoDevice(x, by)
    BY <1>0, <1>8, RetireStep DEF OnCaptureNoDevice
  <1>9. CASE x \in In /\ OnCaptureCompleted(x, by)
    BY <1>0, <1>9, EnterStep DEF OnCaptureCompleted
  <1> QED BY <1>1, <1>2, <1>3, <1>4, <1>5, <1>6, <1>7, <1>8, <1>9 DEF Completion

(* Every later step of a callback keeps the invariant.                      *)
LEMMA CallbackInv ==
  ASSUME TransportInv, CallbackStep
  PROVE  TransportInv'
  <1> USE DEF plan, counts
  <1>0. /\ cbpc \in {"submit", "feedback"} => cbx \in Playback /\ cbx \notin In
        /\ cbpc = "resubmit" => cbx \in In /\ cbx \notin Playback
    BY Finite DEF TransportInv, Owned, Playback
  <1>1. CASE OnIsoImplicit
    BY <1>1, ContinueStep DEF OnIsoImplicit
  <1>2. CASE OnIsoDefer
    BY <1>2, DeferStep
  <1>3. CASE OnIsoNominal
    BY <1>3, ContinueStep DEF OnIsoNominal, Continue
  <1>4. CASE OnIsoSubmit
    BY <1>0, <1>4, ReturnStep DEF OnIsoSubmit
  <1>5. CASE OnIsoSubmitFails
    BY <1>0, <1>5, ReturnStep DEF OnIsoSubmitFails
  <1>6. CASE OnFeedbackSubmit
    BY <1>0, <1>6, ReturnStep DEF OnFeedbackSubmit
  <1>7. CASE OnFeedbackSubmitFails
    BY <1>0, <1>7, ReturnStep DEF OnFeedbackSubmitFails
  <1>8. CASE OnCaptureStore
    BY <1>8, ContinueStep DEF OnCaptureStore, Continue
  <1>9. CASE SubmitPending
    BY <1>9, ResumeStep
  <1>10. CASE SubmitPendingFails
    BY <1>10, ContinueStep DEF SubmitPendingFails, Continue
  <1>11. CASE SubmitPendingDone
    BY <1>11, ContinueStep DEF SubmitPendingDone, Continue
  <1>12. CASE OnCaptureRetire
    BY <1>0, <1>12, ReturnStep DEF OnCaptureRetire
  <1>13. CASE OnCaptureSubmit
    BY <1>0, <1>13, ReturnStep DEF OnCaptureSubmit
  <1>14. CASE OnCaptureSubmitFails
    BY <1>0, <1>14, ReturnStep DEF OnCaptureSubmitFails
  <1> QED BY <1>1, <1>2, <1>3, <1>4, <1>5, <1>6, <1>7, <1>8, <1>9, <1>10, <1>11,
             <1>12, <1>13, <1>14 DEF CallbackStep

(* The event thread enters and leaves libusb and exits.                     *)
LEMMA EventInv ==
  ASSUME TransportInv, EventLoop
  PROVE  TransportInv'
  <1> USE DEF plan, counts
  <1>1. /\ UNCHANGED <<at, pending, inflight, captureInflight, callback, control>>
        /\ evt' \in {"top", "in", "exited"}
        /\ cbpc # "none" /\ cbby = "event" => evt' = "in"
    BY DEF EventLoop, EventLoopEnter, EventLoopLeave, EventLoopExit,
           TransportInv, Owned
  <1>2. PendingOwned' /\ InflightExact' /\ CaptureTeardownSafe'
    BY <1>1, StillStep
  <1>3. Typed' /\ Unsubmitted'
    BY <1>1 DEF TransportInv, Typed, Unsubmitted, callback, control
  <1>4. Owned'
    BY <1>1 DEF TransportInv, Owned, callback, control
  <1> QED BY <1>2, <1>3, <1>4 DEF TransportInv

(* Every step of the control thread keeps the invariant.                    *)
LEMMA ControlInv ==
  ASSUME TransportInv, ControlStep \/ ControlChoice
  PROVE  TransportInv'
  <1> USE DEF plan, counts
  <1>1. ASSUME NEW x \in Fb, SubmitFeedback(x)
        PROVE  TransportInv'
    BY <1>1, SubmitStep DEF SubmitFeedback, NextToSubmit
  <1>2. ASSUME NEW x \in Out, SubmitOut(x)
        PROVE  TransportInv'
    BY <1>2, SubmitStep DEF SubmitOut, NextToSubmit
  <1>3. CASE AccountOut
    BY <1>3, ControlOnly
       DEF AccountOut, ControlFree, ControlSteps, TransportInv, Owned, DrainSteps
  <1>4. CASE PlaybackArmed
    BY <1>4, ControlOnly
       DEF PlaybackArmed, ControlFree, ControlSteps, TransportInv, Owned, DrainSteps
  <1>5. CASE DrainedOut
    BY <1>5, ControlOnly
       DEF DrainedOut, ControlSteps, TransportInv, Unsubmitted
  <1>6. CASE JoinAndFree
    BY <1>6, FreeStep
  <1>7. CASE StopCapture
    BY <1>7, FreeCaptureStep
  <1>8. CASE StartPlayback
    <2>1. PendingOwned' /\ InflightExact' /\ CaptureTeardownSafe'
      BY <1>8, StillStep DEF StartPlayback
    <2>2. Typed'
      BY <1>8 DEF StartPlayback, TransportInv, Typed, callback, ControlSteps,
                  Playback
    <2>3. Owned'
      BY <1>8 DEF StartPlayback, TransportInv, Owned, callback, DrainSteps
    <2>4. Unsubmitted'
      BY <1>8 DEF StartPlayback, TransportInv, Unsubmitted, Playback
    <2> QED BY <2>1, <2>2, <2>3, <2>4 DEF TransportInv
  <1>9. CASE SubmitFails
    BY <1>9, ControlOnly DEF SubmitFails, ControlSteps, DrainSteps
  <1>10. CASE Stop
    BY <1>10, ControlOnly
       DEF Stop, ControlSteps, DrainSteps, TransportInv, Unsubmitted
  <1>11. CASE DrainOutExpires
    BY <1>11, ControlOnly
       DEF DrainOutExpires, ControlSteps, TransportInv, Unsubmitted
  <1>12. CASE DrainInExpires
    BY <1>12, ControlOnly
       DEF DrainInExpires, ControlSteps, TransportInv, Unsubmitted
  <1> QED BY <1>1, <1>2, <1>3, <1>4, <1>5, <1>6, <1>7, <1>8, <1>9, <1>10, <1>11,
             <1>12 DEF ControlStep, ControlChoice

(* startDuplex() leaves the capture transfers submitted, and all others     *)
(* idle.                                                                    *)
LEMMA TransportInit ==
  ASSUME Init
  PROVE  TransportInv
  <1>1. at \in [Xfers -> Places] /\ \A x \in Xfers : at[x] \in {"idle", "usb"}
    BY DEF Init, Places
  <1>2. Typed
    BY <1>1 DEF Init, Typed, CallbackSteps, ControlSteps
  <1>3. \A x \in Playback : at[x] = "idle"
    BY Finite DEF Init
  <1>4. Owned /\ Unsubmitted
    BY <1>1, <1>3 DEF Init, Owned, Unsubmitted, Xfers
  <1>5. PendingOwned
    BY <1>1 DEF Init, PendingOwned, Xfers
  <1>6. Live(Playback) = {} /\ Live(In) = In
    BY <1>3, Finite DEF Init, Live
  <1>7. InflightExact
    BY <1>6, Counters, FS_EmptySet DEF Init
  <1>8. CaptureTeardownSafe
    BY Finite DEF Init, CaptureTeardownSafe
  <1> QED BY <1>2, <1>4, <1>5, <1>7, <1>8 DEF TransportInv

(* The invariant is inductive.                                              *)
LEMMA TransportStep ==
  ASSUME TransportInv, [Next]_vars
  PROVE  TransportInv'
  <1> USE DEF plan, counts
  <1>1. ASSUME NEW x \in Xfers, NEW by \in {"event", "control"}, Completion(x, by)
        PROVE  TransportInv'
    BY <1>1, CompletionInv
  <1>2. CASE CallbackStep
    BY <1>2, CallbackInv
  <1>3. CASE EventLoop
    BY <1>3, EventInv
  <1>4. CASE Render
    BY <1>4, OutsideStep DEF Render, WriteQuantum, WaitForWritable, WaitExpires
  <1>5. CASE RequestStop
    BY <1>5, OutsideStep DEF RequestStop
  <1>6. CASE ControlStep \/ ControlChoice
    BY <1>6, ControlInv
  <1>7. CASE UNCHANGED vars
    BY <1>7, OutsideStep DEF vars
  <1> QED BY <1>1, <1>2, <1>3, <1>4, <1>5, <1>6, <1>7 DEF Next

-----------------------------------------------------------------------------
(* inflight_ and captureInflight_ count exactly the transfers libusb or a   *)
(* callback still owns, in every reachable state.  The drain loops of       *)
(* stopIsoPump() and stopCapturePump() rest on this.                        *)
THEOREM InflightCorrect == Spec => []InflightExact
  <1>1. Init => TransportInv
    BY TransportInit
  <1>2. TransportInv /\ [Next]_vars => TransportInv'
    BY TransportStep
  <1>3. TransportInv => InflightExact
    BY DEF TransportInv
  <1> QED BY <1>1, <1>2, <1>3, PTL DEF Spec

(* stopCapturePump() never frees a capture transfer libusb still owns, also *)
(* after a playback half whose deadline passed and with the event thread    *)
(* still running.                                                           *)
THEOREM CaptureTeardownCorrect == Spec => []CaptureTeardownSafe
  <1>1. Init => TransportInv
    BY TransportInit
  <1>2. TransportInv /\ [Next]_vars => TransportInv'
    BY TransportStep
  <1>3. TransportInv => CaptureTeardownSafe
    BY DEF TransportInv
  <1> QED BY <1>1, <1>2, <1>3, PTL DEF Spec

(* The pending array of onIso() and submitPendingImplicitTransfers() holds  *)
(* exactly the deferred transfers, each once.                               *)
THEOREM PendingCorrect == Spec => []PendingOwned
  <1>1. Init => TransportInv
    BY TransportInit
  <1>2. TransportInv /\ [Next]_vars => TransportInv'
    BY TransportStep
  <1>3. TransportInv => PendingOwned
    BY DEF TransportInv
  <1> QED BY <1>1, <1>2, <1>3, PTL DEF Spec

(* The pending FIFO is never full when a transfer has to join it, so a      *)
(* deferral never fails the transport, whatever the number of transfers.    *)
THEOREM PendingFits == Spec => []PendingHasSlot
  <1>1. Init => TransportInv
    BY TransportInit
  <1>2. TransportInv /\ [Next]_vars => TransportInv'
    BY TransportStep
  <1>3. TransportInv => PendingHasSlot
    <2> SUFFICES ASSUME TransportInv, cbpc = "plan"
                 PROVE  Len(pending) < PendingSlots
      BY DEF PendingHasSlot
    <2>1. PICK x \in Out : x = cbx /\ at[x] = "callback"
      BY DEF TransportInv, Owned
    <2> DEFINE Others == Out \ {x}
               Slots == 1..Len(pending)
    <2>2. /\ IsFiniteSet(Others) /\ Cardinality(Others) = Cardinality(Out) - 1
          /\ Cardinality(Out) \in Nat /\ Cardinality(Out) <= PendingSlots
          /\ PendingSlots \in Nat
      BY TransportAssumption, FS_RemoveElement, FS_CardinalityType
         DEF TransportAssumption
    <2>3. Len(pending) \in Nat /\ pending \in [Slots -> Out]
      BY LenProperties DEF TransportInv, Typed
    <2>4. pending \in [Slots -> Others]
      BY <2>1, <2>3 DEF TransportInv, PendingOwned
    <2>5. IsFiniteSet(Slots) /\ Cardinality(Slots) = Len(pending)
      BY <2>3, FS_Interval
    <2>6. ~(Cardinality(Others) < Cardinality(Slots))
      <3>1. SUFFICES ASSUME Cardinality(Others) < Cardinality(Slots)
                     PROVE  FALSE
        OBVIOUS
      <3>2. \E i, j \in Slots : i # j /\ pending[i] = pending[j]
        BY <2>2, <2>4, <2>5, <3>1, FS_PigeonHole
      <3> QED BY <3>2 DEF TransportInv, PendingOwned
    <2> QED BY <2>2, <2>3, <2>5, <2>6
  <1> QED BY <1>1, <1>2, <1>3, PTL DEF Spec

-----------------------------------------------------------------------------
\* While capture is the clock, a planned transfer is not behind a deferred one.
OrderInv ==
  captureActive /\ ImplicitMode /\ cbpc = "submit" => pending = <<>>

(* captureActive_ is never set again, and a transfer planned from metadata  *)
(* found the FIFO empty.                                                    *)
LEMMA OrderStep ==
  ASSUME TransportInv, OrderInv, [Next]_vars
  PROVE  OrderInv'
  <1> USE DEF plan, counts, flags, callback, control
  <1>1. ASSUME NEW x \in Xfers, NEW by \in {"event", "control"}, Completion(x, by)
        PROVE  OrderInv'
    BY <1>1 DEF OrderInv, Completion, OnIsoStopped, OnIsoNoDevice, OnIsoCompleted,
       OnFeedbackStopped, OnFeedbackNoDevice, OnFeedbackCompleted,
       OnCaptureStopped, OnCaptureNoDevice, OnCaptureCompleted, Enter, Handles,
       MarkTransportFailed
  <1>2. CASE CallbackStep
    BY <1>2 DEF OrderInv, CallbackStep, OnIsoImplicit, OnIsoDefer, OnIsoNominal,
       OnIsoSubmit, OnIsoSubmitFails, OnFeedbackSubmit, OnFeedbackSubmitFails,
       OnCaptureStore, SubmitPending, SubmitPendingFails, SubmitPendingDone,
       OnCaptureRetire, OnCaptureSubmit, OnCaptureSubmitFails, Return, Continue,
       MarkTransportFailed
  <1>3. CASE EventLoop \/ Render
    BY <1>3 DEF OrderInv, EventLoop, EventLoopEnter, EventLoopLeave,
       EventLoopExit, Render, WriteQuantum, WaitForWritable, WaitExpires
  <1>4. CASE RequestStop
    BY <1>4 DEF OrderInv, RequestStop
  <1>5. CASE ControlStep
    BY <1>5 DEF OrderInv, ControlStep, SubmitFeedback, SubmitOut, AccountOut,
       PlaybackArmed, DrainedOut, JoinAndFree, StopCapture
  <1>6. CASE ControlChoice
    BY <1>6 DEF OrderInv, ControlChoice, StartPlayback, SubmitFails, Stop,
       DrainOutExpires, DrainInExpires
  <1>7. CASE UNCHANGED vars
    BY <1>7 DEF OrderInv, vars
  <1> QED BY <1>1, <1>2, <1>3, <1>4, <1>5, <1>6, <1>7 DEF Next

\* What NeverOvertaken says of one step.
KeepsOrder ==
  \A x \in Out :
    /\ at[x] \in {"callback", "pending"} /\ at'[x] = "usb"
    /\ captureActive /\ ImplicitMode /\ pending # <<>>
    => x = Head(pending)

(* A step that resubmits an OUT transfer while others are deferred          *)
(* resubmits the oldest.                                                    *)
LEMMA OvertakeStep ==
  ASSUME TransportInv, OrderInv, [Next]_vars
  PROVE  KeepsOrder
  <1> USE DEF plan, counts
  <1>0. at \in [Xfers -> Places] /\ Out \subseteq Xfers
    BY DEF TransportInv, Typed, Xfers
  <1>1. ASSUME NEW x \in Xfers, NEW by \in {"event", "control"}, Completion(x, by)
        PROVE  KeepsOrder
    BY <1>0, <1>1 DEF KeepsOrder, Completion, OnIsoStopped, OnIsoNoDevice,
       OnIsoCompleted, OnFeedbackStopped, OnFeedbackNoDevice,
       OnFeedbackCompleted, OnCaptureStopped, OnCaptureNoDevice,
       OnCaptureCompleted, Enter, Move
  <1>2. ASSUME at' = at
        PROVE  KeepsOrder
    BY <1>2 DEF KeepsOrder
  <1>3. CASE OnIsoImplicit \/ OnIsoNominal \/ OnCaptureStore \/ SubmitPendingFails
             \/ SubmitPendingDone
    BY <1>2, <1>3 DEF OnIsoImplicit, OnIsoNominal, OnCaptureStore,
       SubmitPendingFails, SubmitPendingDone
  <1>4. CASE OnIsoSubmit
    BY <1>0, <1>4 DEF KeepsOrder, OrderInv, OnIsoSubmit, Move
  <1>5. CASE OnFeedbackSubmit \/ OnCaptureSubmit
    <2>1. cbx \notin Out
      BY <1>5, TransportAssumption
         DEF TransportAssumption, OnFeedbackSubmit, OnCaptureSubmit,
             TransportInv, Owned
    <2> QED BY <1>0, <1>5, <2>1
            DEF KeepsOrder, OnFeedbackSubmit, OnCaptureSubmit, Move
  <1>6. CASE SubmitPending
    BY <1>0, <1>6 DEF KeepsOrder, SubmitPending, Move
  <1>7. CASE OnIsoDefer \/ OnIsoSubmitFails \/ OnFeedbackSubmitFails
             \/ OnCaptureRetire \/ OnCaptureSubmitFails
    BY <1>0, <1>7 DEF KeepsOrder, OnIsoDefer, OnIsoSubmitFails,
       OnFeedbackSubmitFails, OnCaptureRetire, OnCaptureSubmitFails, Move
  <1>8. CASE EventLoop \/ Render \/ RequestStop \/ ControlChoice
    BY <1>2, <1>8 DEF EventLoop, EventLoopEnter, EventLoopLeave, EventLoopExit,
       Render, WriteQuantum, WaitForWritable, WaitExpires, RequestStop,
       ControlChoice, StartPlayback, SubmitFails, Stop, DrainOutExpires,
       DrainInExpires
  <1>9. ASSUME NEW x \in todo, Move(x, "usb")
        PROVE  KeepsOrder
    BY <1>0, <1>9 DEF KeepsOrder, Move, TransportInv, Unsubmitted
  <1>10. CASE ControlStep
    <2>1. CASE \E x \in Fb : SubmitFeedback(x)
      BY <1>9, <2>1 DEF SubmitFeedback, NextToSubmit
    <2>2. CASE \E x \in Out : SubmitOut(x)
      BY <1>9, <2>2 DEF SubmitOut, NextToSubmit
    <2>3. CASE AccountOut \/ PlaybackArmed \/ DrainedOut
      BY <1>2, <2>3 DEF AccountOut, PlaybackArmed, DrainedOut
    <2>4. CASE JoinAndFree \/ StopCapture
      BY <1>0, <2>4, Finite
         DEF KeepsOrder, JoinAndFree, StopCapture, Freed, Playback
    <2> QED BY <1>10, <2>1, <2>2, <2>3, <2>4 DEF ControlStep
  <1>11. CASE UNCHANGED vars
    BY <1>2, <1>11 DEF vars
  <1> QED BY <1>1, <1>3, <1>4, <1>5, <1>6, <1>7, <1>8, <1>10, <1>11
          DEF Next, CallbackStep

(* "Preserve completion order": for any number of transfers, no OUT         *)
(* transfer is resubmitted ahead of an older deferred one while capture     *)
(* drives the packet clock.                                                 *)
THEOREM OrderPreserved == Spec => NeverOvertaken
  <1>1. Init => TransportInv /\ OrderInv
    BY TransportInit DEF Init, OrderInv
  <1>2. TransportInv /\ OrderInv /\ [Next]_vars => (TransportInv /\ OrderInv)'
    BY TransportStep, OrderStep
  <1>3. TransportInv /\ OrderInv /\ [Next]_vars => [KeepsOrder]_vars
    BY OvertakeStep
  <1>4. NeverOvertaken <=> [][KeepsOrder]_vars
    BY PTL DEF NeverOvertaken, KeepsOrder
  <1> QED BY <1>1, <1>2, <1>3, <1>4, PTL DEF Spec

-----------------------------------------------------------------------------
\* Without implicit feedback nothing is ever deferred, so nothing but
\* submitIsoPump() can raise inflight_ and a drained pump stays drained.
ExplicitInv ==
  /\ TransportInv
  /\ pending = <<>>
  /\ ctl = "join" => inflight = 0
  /\ TeardownSafe

(* Nothing is ever deferred.                                                *)
LEMMA NothingDeferred ==
  ASSUME ~ImplicitMode, pending = <<>>, [Next]_vars
  PROVE  pending' = <<>>
  <1> USE DEF plan, counts
  <1>1. ASSUME NEW x \in Xfers, NEW by \in {"event", "control"}, Completion(x, by)
        PROVE  pending' = <<>>
    BY <1>1 DEF Completion, OnIsoStopped, OnIsoNoDevice, OnIsoCompleted,
       OnFeedbackStopped, OnFeedbackNoDevice, OnFeedbackCompleted,
       OnCaptureStopped, OnCaptureNoDevice, OnCaptureCompleted
  <1>2. CASE CallbackStep
    BY <1>2 DEF CallbackStep, OnIsoImplicit, OnIsoDefer, OnIsoNominal,
       OnIsoSubmit, OnIsoSubmitFails, OnFeedbackSubmit, OnFeedbackSubmitFails,
       OnCaptureStore, SubmitPending, SubmitPendingFails, SubmitPendingDone,
       OnCaptureRetire, OnCaptureSubmit, OnCaptureSubmitFails
  <1>3. CASE EventLoop \/ Render \/ RequestStop
    BY <1>3 DEF EventLoop, EventLoopEnter, EventLoopLeave, EventLoopExit, Render,
       WriteQuantum, WaitForWritable, WaitExpires, RequestStop
  <1>4. CASE ControlStep
    BY <1>4 DEF ControlStep, SubmitFeedback, SubmitOut, AccountOut,
       PlaybackArmed, DrainedOut, JoinAndFree, StopCapture
  <1>5. CASE ControlChoice
    BY <1>5 DEF ControlChoice, StartPlayback, SubmitFails, Stop,
       DrainOutExpires, DrainInExpires
  <1>6. CASE UNCHANGED vars
    BY <1>6 DEF vars
  <1> QED BY <1>1, <1>2, <1>3, <1>4, <1>5, <1>6 DEF Next

(* While the control thread joins the event thread, no playback transfer    *)
(* comes alive and none is freed alive.                                     *)
LEMMA ExplicitStep ==
  ASSUME ~ImplicitMode, ExplicitInv, [Next]_vars
  PROVE  (ctl' = "join" => inflight' = 0) /\ TeardownSafe'
  <1> USE DEF plan, counts
  <1>0. /\ at \in [Xfers -> Places] /\ Out \cup Fb \subseteq Xfers
        /\ TeardownSafe /\ (ctl = "join" => inflight = 0)
    BY DEF ExplicitInv, TransportInv, Typed, Xfers
  <1>a. ASSUME ctl = "join"
        PROVE  \A x \in Playback : at[x] \notin LivePlaces
    BY <1>0, <1>a, NoneLive, Finite, Counters DEF ExplicitInv, TransportInv
  <1>b. ctl = "join" => cbpc \notin {"plan", "submit", "feedback"}
    BY <1>a DEF ExplicitInv, TransportInv, Owned, LivePlaces, Playback
  <1>1. ASSUME NEW x \in Xfers, NEW by \in {"event", "control"}, Completion(x, by)
        PROVE  (ctl' = "join" => inflight' = 0) /\ TeardownSafe'
    <2>1. /\ ctl' = ctl /\ at[x] = "usb"
          /\ x \in In => inflight' = inflight
          /\ Move(x, "idle") \/ Move(x, "callback")
      BY <1>1, Finite
         DEF Completion, OnIsoStopped, OnIsoNoDevice, OnIsoCompleted,
         OnFeedbackStopped, OnFeedbackNoDevice, OnFeedbackCompleted,
         OnCaptureStopped, OnCaptureNoDevice, OnCaptureCompleted, Enter, Move,
         control, Playback
    <2>2. TeardownSafe'
      BY <1>0, <2>1 DEF TeardownSafe, Move
    <2>3. ctl' = "join" => inflight' = 0
      BY <1>0, <1>a, <2>1, Finite DEF LivePlaces
    <2> QED BY <2>2, <2>3
  <1>2. CASE CallbackStep
    <2>1. ~SubmitPending /\ ~OnIsoDefer
      BY DEF ExplicitInv, SubmitPending, OnIsoDefer
    <2>2. /\ ctl' = ctl
          /\ at' = at \/ Move(cbx, "idle") \/ Move(cbx, "usb")
      BY <1>2, <2>1
         DEF CallbackStep, OnIsoImplicit, OnIsoNominal, OnIsoSubmit,
         OnIsoSubmitFails, OnFeedbackSubmit, OnFeedbackSubmitFails,
         OnCaptureStore, SubmitPendingFails, SubmitPendingDone,
         OnCaptureRetire, OnCaptureSubmit, OnCaptureSubmitFails, control
    <2>3. cbpc \notin {"plan", "submit", "feedback"} => inflight' = inflight
      BY <1>2, <2>1
         DEF CallbackStep, OnIsoImplicit, OnIsoNominal, OnIsoSubmit,
         OnIsoSubmitFails, OnFeedbackSubmit, OnFeedbackSubmitFails,
         OnCaptureStore, SubmitPendingFails, SubmitPendingDone,
         OnCaptureRetire, OnCaptureSubmit, OnCaptureSubmitFails
    <2> QED BY <1>0, <1>b, <2>2, <2>3 DEF TeardownSafe, Move
  <1>3. ASSUME UNCHANGED <<at, inflight>>, ctl' # "join" \/ ctl = "join" \/ inflight = 0
        PROVE  (ctl' = "join" => inflight' = 0) /\ TeardownSafe'
    BY <1>0, <1>3 DEF TeardownSafe
  <1>4. CASE EventLoop \/ Render \/ RequestStop
    BY <1>3, <1>4 DEF EventLoop, EventLoopEnter, EventLoopLeave, EventLoopExit,
       Render, WriteQuantum, WaitForWritable, WaitExpires, RequestStop, control
  <1>5. CASE ControlChoice
    BY <1>3, <1>5 DEF ControlChoice, StartPlayback, SubmitFails, Stop,
       DrainOutExpires, DrainInExpires
  <1>6. CASE ControlStep
    <2>1. CASE (\E x \in Fb : SubmitFeedback(x)) \/ (\E x \in Out : SubmitOut(x))
      BY <1>0, <2>1 DEF SubmitFeedback, SubmitOut, Move, TeardownSafe
    <2>2. CASE AccountOut \/ PlaybackArmed \/ DrainedOut
      BY <1>3, <2>2 DEF AccountOut, PlaybackArmed, DrainedOut
    <2>3. CASE JoinAndFree
      BY <1>0, <1>a, <2>3, Finite
         DEF JoinAndFree, TeardownSafe, Freed, LivePlaces, Playback
    <2>4. CASE StopCapture
      BY <1>0, <2>4, Finite DEF StopCapture, TeardownSafe, Playback
    <2> QED BY <1>6, <2>1, <2>2, <2>3, <2>4 DEF ControlStep
  <1>7. CASE UNCHANGED vars
    BY <1>3, <1>7 DEF vars, control
  <1> QED BY <1>1, <1>2, <1>4, <1>5, <1>6, <1>7 DEF Next

(* With explicit feedback, or none, stop() frees an OUT or feedback         *)
(* transfer only after libusb has let go of it, for every number of         *)
(* transfers and every interleaving of the callbacks with the teardown.     *)
(* (With implicit feedback it does not: run iso_teardown_race.)             *)
THEOREM ExplicitTeardown ==
  ASSUME ~ImplicitMode
  PROVE  Spec => []TeardownSafe
  <1>1. Init => ExplicitInv
    BY TransportInit, Finite DEF Init, ExplicitInv, TeardownSafe, Playback
  <1>2. ExplicitInv /\ [Next]_vars => ExplicitInv'
    BY TransportStep, NothingDeferred, ExplicitStep DEF ExplicitInv
  <1>3. ExplicitInv => TeardownSafe
    BY DEF ExplicitInv
  <1> QED BY <1>1, <1>2, <1>3, PTL DEF Spec

-----------------------------------------------------------------------------
(* The frames of the plan, the ring and the queue.                          *)

\* The rest of the type invariant; the metadata FIFO keeps to its array.
FrameTypes ==
  /\ len \in [Out -> Nat]
  /\ fifo \in Seq(Nat) /\ Len(fifo) <= FifoCapacity
  /\ ring \in Nat
  /\ queuedOut \in Nat

FlagTypes ==
  /\ stopRequested \in BOOLEAN
  /\ captureActive \in BOOLEAN
  /\ streaming \in BOOLEAN
  /\ transportFailed \in BOOLEAN
  /\ playbackStarted \in BOOLEAN
  /\ cbimp \in BOOLEAN
  /\ ret \in {"start", "stop"}
  /\ writer \in {"running", "blocked"}

\* The transfer a submission accounts for is an OUT transfer.
OwnerTypes ==
  /\ cbx \in Xfers \cup {"none"}
  /\ ctlx \in Out \cup {"none"}
  /\ ctl = "account" => ctlx \in Out

(* A plan takes no more frames from the ring than it holds.                 *)
LEMMA TakesFrames ==
  ASSUME FrameTypes, NEW x \in Out, NEW frames \in TransferRange, Prepares(frames),
         TakePlan(x, frames)
  PROVE  /\ len' \in [Out -> Nat] /\ ring' \in Nat /\ frames \in Nat
         /\ fifo' \in Seq(Nat) /\ Len(fifo') <= FifoCapacity
  <1>1. frames \in Nat /\ ring >= frames /\ Packets + 1 \in Int /\ Len(fifo) \in Int
    BY TransportAssumption DEF TransportAssumption, TransferRange, Prepares, FrameTypes
  <1>2. ring' \in Nat
    BY <1>1 DEF TakePlan, FrameTypes
  <1>3. len' \in [Out -> Nat]
    BY <1>1 DEF TakePlan, FrameTypes
  <1>4. \A i \in (Packets + 1)..Len(fifo) : fifo[i] \in Nat
    BY TransportAssumption DEF TransportAssumption, FrameTypes
  <1>5. /\ fifo' \in Seq(Nat)
        /\ Len(fifo') = IF Packets + 1 <= Len(fifo) THEN Len(fifo) - (Packets + 1) + 1 ELSE 0
    BY <1>1, <1>4, SubSeqProperties DEF TakePlan
  <1>6. Len(fifo') <= FifoCapacity
    BY <1>1, <1>5, TransportAssumption DEF TransportAssumption, FrameTypes
  <1> QED BY <1>1, <1>2, <1>3, <1>5, <1>6

(* Entries pushed onto the metadata FIFO.                                   *)
LEMMA PushesFrames ==
  ASSUME FrameTypes, NEW entries \in [1..Packets -> EntryFrames]
  PROVE  Pushed(fifo, entries) \in Seq(Nat) /\ Len(Pushed(fifo, entries)) <= FifoCapacity
  <1> DEFINE k == Len(fifo)
  <1>1. /\ fifo \in Seq(Nat) /\ k \in Nat /\ k <= FifoCapacity
        /\ Packets \in Nat /\ FifoCapacity \in Nat /\ Packets <= FifoCapacity
    BY TransportAssumption DEF TransportAssumption, FrameTypes
  <1>2. entries \in [1..Packets -> Nat]
    BY TransportAssumption DEF TransportAssumption
  <1>3. entries \in Seq(Nat) /\ Len(entries) = Packets
    BY <1>1, <1>2
  <1> HIDE DEF k
  <1>4. CASE k + Packets <= FifoCapacity
    <2>1. Pushed(fifo, entries) = fifo \o entries
      BY <1>3, <1>4 DEF Pushed, k
    <2>2. fifo \o entries \in Seq(Nat) /\ Len(fifo \o entries) = k + Packets
      BY <1>1, <1>3, ConcatProperties DEF k
    <2> QED BY <1>4, <2>1, <2>2
  <1>5. CASE ~(k + Packets <= FifoCapacity)
    <2> DEFINE m == FifoCapacity - k + 1
    <2>1. Pushed(fifo, entries) = SubSeq(entries, m, Packets)
      BY <1>3, <1>5 DEF Pushed, k
    <2>2. m \in Int /\ m >= 1 /\ Packets \in Int
      BY <1>1
    <2>3. Packets - m + 1 <= FifoCapacity
      BY <1>1
    <2> HIDE DEF m
    <2>4. \A i \in m..Packets : entries[i] \in Nat
      BY <1>2, <2>2
    <2>5. /\ SubSeq(entries, m, Packets) \in Seq(Nat)
          /\ Len(SubSeq(entries, m, Packets)) = IF m <= Packets THEN Packets - m + 1 ELSE 0
      BY <2>2, <2>4, SubSeqProperties
    <2> QED BY <1>1, <2>1, <2>3, <2>5
  <1> QED BY <1>4, <1>5

(* The frame counters on every step.                                        *)
LEMMA FrameStep ==
  ASSUME TransportInv, FrameTypes, OwnerTypes, [Next]_vars
  PROVE  FrameTypes'
  <1> USE DEF plan, counts
  <1>1. ASSUME UNCHANGED <<len, fifo, ring>>, queuedOut' \in Nat PROVE FrameTypes'
    BY <1>1 DEF FrameTypes
  <1>2. queuedOut \in Nat /\ ring \in Nat /\ (\A x \in Out : len[x] \in Nat)
    BY DEF FrameTypes
  <1>3. \A x \in Out : SubtractQueued(len[x]) \in Nat
    BY <1>2 DEF SubtractQueued
  <1>4. ASSUME NEW x \in Xfers, NEW by \in {"event", "control"}, Completion(x, by)
        PROVE  FrameTypes'
    <2>1. UNCHANGED <<len, fifo, ring>> /\ queuedOut' \in Nat
      BY <1>2, <1>3, <1>4 DEF Completion, OnIsoStopped, OnIsoNoDevice, OnIsoCompleted,
        OnFeedbackStopped, OnFeedbackNoDevice, OnFeedbackCompleted, OnCaptureStopped,
        OnCaptureNoDevice, OnCaptureCompleted
    <2> QED BY <1>1, <2>1
  <1>5. CASE OnIsoImplicit
    <2>1. cbx \in Out
      BY <1>5 DEF OnIsoImplicit, TransportInv, Owned
    <2>2. PICK frames \in TransferRange : Prepares(frames) /\ TakePlan(cbx, frames)
      BY <1>5 DEF OnIsoImplicit
    <2>3. UNCHANGED queuedOut
      BY <1>5 DEF OnIsoImplicit
    <2>4. /\ len' \in [Out -> Nat] /\ ring' \in Nat
          /\ fifo' \in Seq(Nat) /\ Len(fifo') <= FifoCapacity
      BY <2>1, <2>2, TakesFrames
    <2> QED BY <1>2, <2>3, <2>4 DEF FrameTypes
  <1>6. CASE OnIsoNominal
    <2>1. PICK planned \in NominalFrames :
            LET frames == IF ring >= planned THEN planned ELSE ring
            IN  len' = [len EXCEPT ![cbx] = frames] /\ ring' = ring - frames
      BY <1>6 DEF OnIsoNominal
    <2> DEFINE frames == IF ring >= planned THEN planned ELSE ring
    <2>2. planned \in Nat
      BY TransportAssumption DEF TransportAssumption
    <2>3. frames \in Nat /\ ring - frames \in Nat
      BY <1>2, <2>2
    <2>4. len' = [len EXCEPT ![cbx] = frames] /\ ring' = ring - frames
      BY <2>1
    <2> HIDE DEF frames
    <2>5. len' \in [Out -> Nat] /\ ring' \in Nat
      BY <2>3, <2>4 DEF FrameTypes
    <2>6. UNCHANGED <<fifo, queuedOut>>
      BY <1>6 DEF OnIsoNominal
    <2> QED BY <2>5, <2>6 DEF FrameTypes
  <1>7. CASE OnCaptureStore
    <2>1. UNCHANGED <<len, ring, queuedOut>>
      BY <1>7 DEF OnCaptureStore
    <2>2. \/ UNCHANGED fifo
          \/ \E entries \in [1..Packets -> EntryFrames] : fifo' = Pushed(fifo, entries)
      BY <1>7 DEF OnCaptureStore
    <2>3. fifo' \in Seq(Nat) /\ Len(fifo') <= FifoCapacity
      BY <2>2, PushesFrames DEF FrameTypes
    <2> QED BY <2>1, <2>3 DEF FrameTypes
  <1>8. CASE SubmitPending \/ SubmitPendingFails
    <2>1. Head(pending) \in Out
      BY <1>8 DEF SubmitPending, SubmitPendingFails, TransportInv, Typed
    <2>2. PICK frames \in TransferRange :
            /\ Prepares(frames) /\ TakePlan(Head(pending), frames)
            /\ queuedOut' \in {queuedOut, queuedOut + frames}
      BY <1>8 DEF SubmitPending, SubmitPendingFails
    <2>3. /\ len' \in [Out -> Nat] /\ ring' \in Nat /\ frames \in Nat
          /\ fifo' \in Seq(Nat) /\ Len(fifo') <= FifoCapacity
      BY <2>1, <2>2, TakesFrames
    <2>4. queuedOut' \in Nat
      BY <1>2, <2>2, <2>3
    <2> QED BY <2>3, <2>4 DEF FrameTypes
  <1>9. CASE OnIsoDefer \/ OnIsoSubmit \/ OnIsoSubmitFails \/ OnFeedbackSubmit
             \/ OnFeedbackSubmitFails \/ SubmitPendingDone \/ OnCaptureRetire
             \/ OnCaptureSubmit \/ OnCaptureSubmitFails
    <2>1. cbpc = "submit" => cbx \in Out
      BY DEF TransportInv, Owned
    <2>2. UNCHANGED <<len, fifo, ring>> /\ queuedOut' \in Nat
      BY <1>2, <1>9, <2>1 DEF OnIsoDefer, OnIsoSubmit, OnIsoSubmitFails,
        OnFeedbackSubmit, OnFeedbackSubmitFails, SubmitPendingDone, OnCaptureRetire,
        OnCaptureSubmit, OnCaptureSubmitFails
    <2> QED BY <1>1, <2>2
  <1>10. CASE EventLoop \/ WaitForWritable \/ WaitExpires \/ RequestStop
    <2>1. UNCHANGED <<len, fifo, ring, queuedOut>>
      BY <1>10 DEF EventLoop, EventLoopEnter, EventLoopLeave, EventLoopExit,
        WaitForWritable, WaitExpires, RequestStop
    <2> QED BY <1>1, <1>2, <2>1
  <1>11. CASE WriteQuantum
    BY <1>11, TransportAssumption DEF WriteQuantum, FrameTypes, TransportAssumption
  <1>12. CASE StartPlayback
    <2>1. /\ ring >= Prime /\ ring' = ring - InitialFrames * Cardinality(Out)
          /\ UNCHANGED <<len, fifo, queuedOut>>
      BY <1>12 DEF StartPlayback
    <2>2. Cardinality(Out) \in Nat
      BY TransportAssumption, FS_CardinalityType DEF TransportAssumption
    <2>3. InitialFrames * Cardinality(Out) \in Nat /\ Prime \in Nat
          /\ Prime >= InitialFrames * Cardinality(Out)
      BY <2>2, TransportAssumption DEF TransportAssumption
    <2>4. ring' \in Nat
      BY <1>2, <2>1, <2>3
    <2> QED BY <2>1, <2>4 DEF FrameTypes
  <1>13. CASE ControlStep
    <2>1. UNCHANGED <<len, fifo, ring>> /\ queuedOut' \in Nat
      BY <1>2, <1>13 DEF ControlStep, SubmitFeedback, SubmitOut, AccountOut,
        PlaybackArmed, DrainedOut, JoinAndFree, StopCapture, OwnerTypes
    <2> QED BY <1>1, <2>1
  <1>14. CASE SubmitFails \/ Stop \/ DrainOutExpires \/ DrainInExpires \/ UNCHANGED vars
    <2>1. UNCHANGED <<len, fifo, ring, queuedOut>>
      BY <1>14 DEF SubmitFails, Stop, DrainOutExpires, DrainInExpires, vars
    <2> QED BY <1>1, <1>2, <2>1
  <1> QED BY <1>4, <1>5, <1>6, <1>7, <1>8, <1>9, <1>10, <1>11, <1>12, <1>13, <1>14
          DEF Next, CallbackStep, Render, ControlChoice

(* The flags are assigned constants, or one another.                        *)
LEMMA FlagStep ==
  ASSUME FlagTypes, [Next]_vars
  PROVE  FlagTypes'
  <1> USE DEF FlagTypes, flags, callback, control
  <1>1. ASSUME NEW x \in Xfers, NEW by \in {"event", "control"}, Completion(x, by)
        PROVE  FlagTypes'
    BY <1>1 DEF Completion, OnIsoStopped, OnIsoNoDevice, OnIsoCompleted,
      OnFeedbackStopped, OnFeedbackNoDevice, OnFeedbackCompleted, OnCaptureStopped,
      OnCaptureNoDevice, OnCaptureCompleted, MarkTransportFailed, Enter
  <1>2. CASE CallbackStep
    BY <1>2 DEF CallbackStep, OnIsoImplicit, OnIsoDefer, OnIsoNominal, OnIsoSubmit,
      OnIsoSubmitFails, OnFeedbackSubmit, OnFeedbackSubmitFails, OnCaptureStore,
      SubmitPending, SubmitPendingFails, SubmitPendingDone, OnCaptureRetire,
      OnCaptureSubmit, OnCaptureSubmitFails, MarkTransportFailed, Return, Continue
  <1>3. CASE EventLoop
    BY <1>3 DEF EventLoop, EventLoopEnter, EventLoopLeave, EventLoopExit
  <1>4. CASE Render
    BY <1>4 DEF Render, WriteQuantum, WaitForWritable, WaitExpires
  <1>5. CASE RequestStop
    BY <1>5 DEF RequestStop
  <1>6. CASE ControlStep
    BY <1>6, ZenonT(60) DEF ControlStep, SubmitFeedback, SubmitOut, AccountOut,
      PlaybackArmed, DrainedOut, JoinAndFree, StopCapture
  <1>7. CASE ControlChoice
    BY <1>7, ZenonT(60) DEF ControlChoice, StartPlayback, SubmitFails, Stop,
      DrainOutExpires, DrainInExpires
  <1>8. CASE UNCHANGED vars
    BY <1>8 DEF vars
  <1> QED BY <1>1, <1>2, <1>3, <1>4, <1>5, <1>6, <1>7, <1>8 DEF Next

LEMMA OwnerStep ==
  ASSUME OwnerTypes, [Next]_vars
  PROVE  OwnerTypes'
  <1> USE DEF OwnerTypes, callback, control
  <1>1. ASSUME NEW x \in Xfers, NEW by \in {"event", "control"}, Completion(x, by)
        PROVE  OwnerTypes'
    BY <1>1 DEF Completion, OnIsoStopped, OnIsoNoDevice, OnIsoCompleted,
      OnFeedbackStopped, OnFeedbackNoDevice, OnFeedbackCompleted, OnCaptureStopped,
      OnCaptureNoDevice, OnCaptureCompleted, Enter
  <1>2. CASE CallbackStep
    BY <1>2 DEF CallbackStep, OnIsoImplicit, OnIsoDefer, OnIsoNominal, OnIsoSubmit,
      OnIsoSubmitFails, OnFeedbackSubmit, OnFeedbackSubmitFails, OnCaptureStore,
      SubmitPending, SubmitPendingFails, SubmitPendingDone, OnCaptureRetire,
      OnCaptureSubmit, OnCaptureSubmitFails, Return, Continue
  <1>3. CASE EventLoop
    BY <1>3 DEF EventLoop, EventLoopEnter, EventLoopLeave, EventLoopExit
  <1>4. CASE Render
    BY <1>4 DEF Render, WriteQuantum, WaitForWritable, WaitExpires
  <1>5. CASE RequestStop
    BY <1>5 DEF RequestStop
  <1>6. CASE ControlStep
    BY <1>6, ZenonT(60) DEF ControlStep, SubmitFeedback, SubmitOut, AccountOut,
      PlaybackArmed, DrainedOut, JoinAndFree, StopCapture
  <1>7. CASE ControlChoice
    BY <1>7, ZenonT(60) DEF ControlChoice, StartPlayback, SubmitFails, Stop,
      DrainOutExpires, DrainInExpires
  <1>8. CASE UNCHANGED vars
    BY <1>8 DEF vars
  <1> QED BY <1>1, <1>2, <1>3, <1>4, <1>5, <1>6, <1>7, <1>8 DEF Next

(* Type correctness.  That no counter goes below zero is the part that      *)
(* needs TransportInv: inflight_ and captureInflight_ are cardinalities,    *)
(* prepareImplicitTransfer() takes no more PCM than the ring holds, and a   *)
(* prime covers the initial packets startPlayback() fills.                  *)
THEOREM TypeCorrect == Spec => []TypeOK
  <1> DEFINE IInv == TransportInv /\ FrameTypes /\ FlagTypes /\ OwnerTypes
  <1>1. Init => IInv
    <2> SUFFICES ASSUME Init PROVE IInv
      OBVIOUS
    <2>1. FrameTypes
      BY TransportAssumption DEF Init, FrameTypes, TransportAssumption
    <2>2. FlagTypes
      BY Zenon DEF Init, FlagTypes
    <2>3. OwnerTypes
      BY DEF Init, OwnerTypes
    <2> QED BY <2>1, <2>2, <2>3, TransportInit
  <1>2. IInv /\ [Next]_vars => IInv'
    BY TransportStep, FrameStep, FlagStep, OwnerStep
  <1>3. IInv => TypeOK
    BY Counters DEF TransportInv, Typed, FrameTypes, FlagTypes, OwnerTypes, TypeOK,
                    Playback
  <1> QED BY <1>1, <1>2, <1>3, PTL DEF Spec
=============================================================================
