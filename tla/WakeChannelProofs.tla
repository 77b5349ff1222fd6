--------------------------- MODULE WakeChannelProofs ---------------------------
(***************************************************************************)
(* Proofs about the wake channel, for every number of waiters and every    *)
(* frame count.                                                            *)
(***************************************************************************)
EXTENDS WakeChannel, FiniteSetTheorems, TLAPS

\* The threads inside a wait.
Waiting == {w \in Waiters : wpc[w] # "idle"}

\* That waiters_ never goes negative (TypeOK) rests on CountExact.
CountInv == TypeOK /\ CountExact

(* The waits that have read the frame count and go on to block already      *)
(* have a wake on its way when the frames are there; so do the blocked      *)
(* ones when the stream has ended.  The clause for "flag" is the part       *)
(* NoLostWakeup needs to be inductive: a wait has tested the frame count    *)
(* and has yet to test streaming_.                                          *)
WakeInv ==
  \A w \in Waiters :
    \/ wpc[w] \in {"flag", "poll"} /\ Available >= Need
    \/ wpc[w] = "poll" /\ ~streaming
    => WakePending

\* Only the waits that drain reach their drain.
DrainInv == \A w \in Waiters : wpc[w] = "drain" => w \in Draining

\* A wait that drains has the channel to itself.
Solo == \A d \in Draining : Waiters = {d}

-----------------------------------------------------------------------------
(* The set of waiting threads is finite and its size is a natural number.   *)
LEMMA WaitingFinite ==
  IsFiniteSet(Waiting) /\ Cardinality(Waiting) \in Nat
  <1>1. IsFiniteSet(Waiting)
    BY WakeAssumption, FS_Subset DEF Waiting, WakeAssumption
  <1> QED
    BY <1>1, FS_CardinalityType

(* A thread that is in a wait makes the count positive.                     *)
LEMMA WaiterCounted ==
  ASSUME CountInv, NEW w \in Waiters, wpc[w] # "idle"
  PROVE  waiters > 0
  <1>1. w \in Waiting
    BY DEF Waiting
  <1>2. Cardinality(Waiting) # 0
    BY <1>1, WaitingFinite, FS_EmptySet
  <1> QED
    BY <1>2, WaitingFinite DEF CountInv, CountExact, Waiting

(* Entering a wait raises the count by one.                                 *)
LEMMA EnterCounts ==
  ASSUME CountInv, NEW w \in Waiters, NEW pc \in WaiterStates,
         wpc[w] = "idle", pc # "idle", Goto(w, pc)
  PROVE  Cardinality(Waiting') = Cardinality(Waiting) + 1
  <1>1. Waiting' = Waiting \cup {w} /\ w \notin Waiting
    BY DEF Waiting, Goto, CountInv, TypeOK
  <1> QED
    BY <1>1, WaitingFinite, FS_AddElement

(* Leaving a wait lowers the count by one.                                  *)
LEMMA LeaveCounts ==
  ASSUME CountInv, NEW w \in Waiters, wpc[w] # "idle", Goto(w, "idle")
  PROVE  Cardinality(Waiting') = Cardinality(Waiting) - 1
  <1>1. Waiting' = Waiting \ {w} /\ w \in Waiting
    BY DEF Waiting, Goto, CountInv, TypeOK
  <1> QED
    BY <1>1, WaitingFinite, FS_RemoveElement

(* Moving inside a wait leaves the set of waiting threads alone.            *)
LEMMA MoveKeeps ==
  ASSUME CountInv, NEW w \in Waiters, NEW pc \in WaiterStates,
         wpc[w] # "idle", pc # "idle", Goto(w, pc)
  PROVE  Waiting' = Waiting
  BY DEF Waiting, Goto, CountInv, TypeOK

(* waiters_ is exact in every reachable state, whatever the waits do: the   *)
(* skipped eventfd write of signalIfWaiting is never a missed one.          *)
THEOREM CountCorrect == Spec => [](TypeOK /\ CountExact)
<1>1. Init => CountInv
  <2> SUFFICES ASSUME Init PROVE CountInv
    OBVIOUS
  <2>a. frames \in 0..MaxFrames /\ waiters \in Nat
    BY WakeAssumption DEF Init, WakeAssumption
  <2>b. active \in BOOLEAN /\ streaming \in BOOLEAN /\ readable \in BOOLEAN
    BY Zenon DEF Init
  <2>c. wpc \in [Waiters -> WaiterStates]
    BY DEF Init, WaiterStates
  <2>1. TypeOK
    BY <2>a, <2>b, <2>c DEF Init, TypeOK
  <2>2. Waiting = {}
    BY DEF Init, Waiting
  <2>3. CountExact
    BY <2>2, FS_EmptySet DEF Init, CountExact, Waiting
  <2> QED
    BY <2>1, <2>3 DEF CountInv
<1>2. CountInv /\ [Next]_vars => CountInv'
  <2> SUFFICES ASSUME CountInv, [Next]_vars PROVE CountInv'
    OBVIOUS
  <2> USE WakeAssumption DEF WakeAssumption
  <2>a. TypeOK /\ waiters = Cardinality(Waiting)
    BY DEF CountInv, CountExact, Waiting
  <2>b. SUFFICES TypeOK' /\ waiters' = Cardinality(Waiting')
    BY DEF CountInv, CountExact, Waiting
  <2>c. ASSUME wpc' = wpc PROVE Waiting' = Waiting
    BY <2>c DEF Waiting
  <2>1. CASE Publish
    BY <2>1, <2>a, <2>c DEF Publish, TypeOK
  <2>2. CASE SignalIfWaiting
    BY <2>2, <2>a, <2>c DEF SignalIfWaiting, TypeOK
  <2>3. CASE Signal
    BY <2>3, <2>a, <2>c DEF Signal, TypeOK
  <2>4. CASE ClearActive
    BY <2>4, <2>a, <2>c DEF ClearActive, TypeOK
  <2>5. CASE ClearStreaming
    BY <2>5, <2>a, <2>c DEF ClearStreaming, TypeOK
  <2>6. CASE SignalEnd
    BY <2>6, <2>a, <2>c DEF SignalEnd, TypeOK
  <2>7. ASSUME NEW w \in Waiters, Waiter(w)
        PROVE  TypeOK' /\ waiters' = Cardinality(Waiting')
    <3>1. CASE Register(w)
      <4>1. Cardinality(Waiting') = Cardinality(Waiting) + 1
        BY <3>1, EnterCounts DEF Register, WaiterStates
      <4> QED
        BY <3>1, <4>1, <2>a DEF Register, Goto, TypeOK, WaiterStates
    <3>2. CASE Leave(w)
      <4>1. Cardinality(Waiting') = Cardinality(Waiting) - 1
        BY <3>2, LeaveCounts DEF Leave
      <4>2. waiters > 0
        BY <3>2, WaiterCounted DEF Leave
      <4> QED
        BY <3>2, <4>1, <4>2, <2>a DEF Leave, Goto, TypeOK, WaiterStates
    <3>3. CASE Consume(w)
      BY <3>3, <2>a, <2>c DEF Consume, TypeOK, Available
    <3>4. CASE ReadCount(w)
      <4>1. Waiting' = Waiting
        BY <3>4, MoveKeeps DEF ReadCount, WaiterStates
      <4> QED
        BY <3>4, <4>1, <2>a DEF ReadCount, Goto, TypeOK, WaiterStates
    <3>5. CASE ReadFlag(w)
      <4>1. Waiting' = Waiting
        BY <3>5, MoveKeeps DEF ReadFlag, WaiterStates
      <4> QED
        BY <3>5, <4>1, <2>a DEF ReadFlag, Goto, TypeOK, WaiterStates
    <3>6. CASE Poll(w)
      <4>1. Waiting' = Waiting
        BY <3>6, MoveKeeps DEF Poll, WaiterStates
      <4> QED
        BY <3>6, <4>1, <2>a DEF Poll, Goto, TypeOK, WaiterStates
    <3>7. CASE TimeOut(w)
      <4>1. Waiting' = Waiting
        BY <3>7, MoveKeeps DEF TimeOut, WaiterStates
      <4> QED
        BY <3>7, <4>1, <2>a DEF TimeOut, Goto, TypeOK, WaiterStates
    <3>8. CASE Drain(w)
      <4>1. Waiting' = Waiting
        BY <3>8, MoveKeeps DEF Drain, WaiterStates
      <4> QED
        BY <3>8, <4>1, <2>a DEF Drain, Goto, TypeOK, WaiterStates
    <3> QED
      BY <2>7, <3>1, <3>2, <3>3, <3>4, <3>5, <3>6, <3>7, <3>8 DEF Waiter
  <2>8. CASE UNCHANGED vars
    BY <2>8, <2>a, <2>c DEF vars, TypeOK
  <2> QED
    BY <2>1, <2>2, <2>3, <2>4, <2>5, <2>6, <2>7, <2>8 DEF Next
<1> QED
  BY <1>1, <1>2, PTL DEF Spec, CountInv

(* The lost-wakeup argument of WakeChannel.h: when no other thread can      *)
(* drain the eventfd under a wait's feet, a thread blocked in poll() whose  *)
(* frames are there, or whose stream has ended, has a wake on its way.      *)
THEOREM WakeupNotLost ==
  ASSUME Solo
  PROVE  Spec => []NoLostWakeup
<1>1. Init => DrainInv /\ WakeInv
  BY DEF Init, DrainInv, WakeInv
<1>d. CountInv /\ DrainInv /\ [Next]_vars => DrainInv'
  BY DEF CountInv, TypeOK, DrainInv, Next, vars, Publish, SignalIfWaiting, Signal,
     ClearActive, ClearStreaming, SignalEnd, Waiter, Register, ReadCount,
     ReadFlag, Poll, TimeOut, Drain, Leave, Consume, Goto
<1>2. CountInv /\ DrainInv /\ WakeInv /\ [Next]_vars => WakeInv'
  <2> SUFFICES ASSUME CountInv, DrainInv, WakeInv, [Next]_vars PROVE WakeInv'
    OBVIOUS
  <2> USE WakeAssumption DEF WakeAssumption
  <2>a. TypeOK
    BY DEF CountInv
  <2>b. SUFFICES ASSUME NEW v \in Waiters,
                        \/ wpc[v]' \in {"flag", "poll"} /\ Available' >= Need
                        \/ wpc[v]' = "poll" /\ ~streaming'
                 PROVE  WakePending'
    BY DEF WakeInv
  <2>1. CASE Publish
    BY <2>1 DEF Publish, WakePending
  <2>2. CASE SignalIfWaiting
    <3>1. waiters > 0
      BY <2>2, <2>b, WaiterCounted DEF SignalIfWaiting
    <3> QED
      BY <2>2, <3>1 DEF SignalIfWaiting, WakePending
  <2>3. CASE Signal
    BY <2>3 DEF Signal, WakePending
  <2>4. CASE ClearActive
    BY <2>4, <2>a, <2>b DEF ClearActive, WakePending, WakeInv, Available, TypeOK
  <2>5. CASE ClearStreaming
    BY <2>5 DEF ClearStreaming, WakePending
  <2>6. CASE SignalEnd
    BY <2>6 DEF SignalEnd, WakePending
  <2>7. ASSUME NEW w \in Waiters, Waiter(w) PROVE WakePending'
    <3>1. CASE Register(w)
      BY <3>1, <2>a, <2>b DEF Register, Goto, WakePending, WakeInv, Available, TypeOK
    <3>2. CASE Leave(w)
      BY <3>2, <2>a, <2>b DEF Leave, Goto, WakePending, WakeInv, Available, TypeOK
    <3>3. CASE Consume(w)
      BY <3>3, <2>a, <2>b DEF Consume, WakePending, WakeInv, Available, TypeOK
    <3>4. CASE ReadCount(w)
      BY <3>4, <2>a, <2>b DEF ReadCount, Goto, WakePending, WakeInv, Available, TypeOK
    <3>5. CASE ReadFlag(w)
      BY <3>5, <2>a, <2>b DEF ReadFlag, Goto, WakePending, WakeInv, Available, TypeOK
    <3>6. CASE Poll(w)
      BY <3>6, <2>a, <2>b DEF Poll, Goto, WakePending, WakeInv, Available, TypeOK
    <3>7. CASE TimeOut(w)
      BY <3>7, <2>a, <2>b DEF TimeOut, Goto, WakePending, WakeInv, Available, TypeOK
    <3>8. CASE Drain(w)
      <4>1. v = w
        BY <3>8 DEF Drain, DrainInv, Solo
      <4> QED
        BY <4>1, <3>8, <2>a, <2>b DEF Drain, Goto, TypeOK
    <3> QED
      BY <2>7, <3>1, <3>2, <3>3, <3>4, <3>5, <3>6, <3>7, <3>8 DEF Waiter
  <2>8. CASE UNCHANGED vars
    BY <2>8, <2>b DEF vars, WakePending, WakeInv, Available
  <2> QED
    BY <2>1, <2>2, <2>3, <2>4, <2>5, <2>6, <2>7, <2>8 DEF Next
<1>3. WakeInv => NoLostWakeup
  BY DEF WakeInv, NoLostWakeup, Due
<1> QED
  BY <1>1, <1>d, <1>2, <1>3, CountCorrect, PTL DEF Spec, CountInv

=============================================================================
