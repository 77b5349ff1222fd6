------------------------------ MODULE WakeChannel ------------------------------
(***************************************************************************)
(* The eventfd wake channel of WakeChannel.h together with the callers     *)
(* whose correctness rests on it: a USB completion that publishes frames   *)
(* and then calls signalIfWaiting(), a terminal transition (requestStop,   *)
(* markTransportFailed) that clears captureActive_ and streaming_ and then *)
(* calls signal(), and the waits built on Registration, poll and drain.    *)
(*                                                                         *)
(* Every shared access of a wait is a step of its own: register, read the  *)
(* frame count, read streaming_, poll, drain, deregister.  The seq_cst     *)
(* fence and counter put the accesses of the two sides in one total order, *)
(* so interleaving is the memory model they have.                          *)
(***************************************************************************)
EXTENDS Integers, FiniteSets

CONSTANTS
  Waiters,    \* threads that may wait on the channel
  Draining,   \* those whose wait loop calls drain() after poll()
  Timed,      \* those that pass a finite timeout or a deadline
  Capture,    \* TRUE: captureWake_ ; FALSE: playbackWake_
  MaxFrames,  \* bound on the published frames that are not consumed yet
  Need        \* frames a wait asks for

ASSUME WakeAssumption ==
  /\ IsFiniteSet(Waiters)
  /\ Draining \subseteq Waiters
  /\ Timed \subseteq Waiters
  /\ Waiters \ Draining \subseteq Timed
  /\ Capture \in BOOLEAN
  /\ MaxFrames \in Nat
  /\ Need \in 1..MaxFrames

VARIABLES
  frames,     \* frames in the ring (capture) or room in it (playback)
  active,     \* captureActive_
  streaming,  \* streaming_
  readable,   \* the eventfd counter is nonzero
  waiters,    \* waiters_
  wpc,        \* [Waiters -> program counter]
  ppc,        \* the publishing callback
  tpc         \* the thread that ends the stream

vars == <<frames, active, streaming, readable, waiters, wpc, ppc, tpc>>

WaiterStates == {"idle", "count", "flag", "poll", "drain", "leave"}

(* Ranges of the state.                                                    *)
TypeOK ==
  /\ frames \in 0..MaxFrames
  /\ active \in BOOLEAN
  /\ streaming \in BOOLEAN
  /\ readable \in BOOLEAN
  /\ waiters \in Nat
  /\ wpc \in [Waiters -> WaiterStates]
  /\ ppc \in {"idle", "gate", "write"}
  /\ tpc \in {"idle", "clear", "write", "done"}

Init ==
  /\ frames = 0
  /\ active = TRUE
  /\ streaming = TRUE
  /\ readable = FALSE
  /\ waiters = 0
  /\ wpc = [w \in Waiters |-> "idle"]
  /\ ppc = "idle"
  /\ tpc = "idle"

\* captureAvailableFrames() is 0 once captureActive_ is clear; writableFrames()
\* looks at the ring alone.
Available == IF Capture /\ ~active THEN 0 ELSE frames

-----------------------------------------------------------------------------
(* The publisher: a completion callback.                                    *)

\* The state change a callback makes before it signals.  The callback read
\* the stop flags when it was entered, so it may still publish after them.
Publish ==
  /\ ppc = "idle"
  /\ frames < MaxFrames
  /\ frames' = frames + 1
  /\ ppc' = "gate"
  /\ UNCHANGED <<active, streaming, readable, waiters, wpc, tpc>>

\* signalIfWaiting() : after the fence, the count decides.
SignalIfWaiting ==
  /\ ppc = "gate"
  /\ ppc' = IF waiters > 0 THEN "write" ELSE "idle"
  /\ UNCHANGED <<frames, active, streaming, readable, waiters, wpc, tpc>>

\* signal() : the eventfd write.
Signal ==
  /\ ppc = "write"
  /\ readable' = TRUE
  /\ ppc' = "idle"
  /\ UNCHANGED <<frames, active, streaming, waiters, wpc, tpc>>

\* The reader of the frames takes them between two waits.
Consume(w) ==
  /\ wpc[w] = "idle"
  /\ Available >= Need
  /\ frames' = frames - Need
  /\ UNCHANGED <<active, streaming, readable, waiters, wpc, ppc, tpc>>

-----------------------------------------------------------------------------
(* A terminal transition: requestStop() or markTransportFailed().           *)

ClearActive ==
  /\ tpc = "idle"
  /\ active' = FALSE
  /\ tpc' = "clear"
  /\ UNCHANGED <<frames, streaming, readable, waiters, wpc, ppc>>

ClearStreaming ==
  /\ tpc = "clear"
  /\ streaming' = FALSE
  /\ tpc' = "write"
  /\ UNCHANGED <<frames, active, readable, waiters, wpc, ppc>>

\* The terminal signal is unconditional.
SignalEnd ==
  /\ tpc = "write"
  /\ readable' = TRUE
  /\ tpc' = "done"
  /\ UNCHANGED <<frames, active, streaming, waiters, wpc, ppc>>

-----------------------------------------------------------------------------
(* A wait: waitForCaptureFrames, waitForWritableFrames and their variants.  *)

Goto(w, pc) == wpc' = [wpc EXCEPT ![w] = pc]

Register(w) ==
  /\ wpc[w] = "idle"
  /\ Goto(w, "count")
  /\ waiters' = waiters + 1
  /\ UNCHANGED <<frames, active, streaming, readable, ppc, tpc>>

ReadCount(w) ==
  /\ wpc[w] = "count"
  /\ Goto(w, IF Available >= Need THEN "leave" ELSE "flag")
  /\ UNCHANGED <<frames, active, streaming, readable, waiters, ppc, tpc>>

\* Mutant: the loop condition forgets streaming_.
ReadFlagIgnored(w) ==
  /\ wpc[w] = "flag"
  /\ Goto(w, "poll")
  /\ UNCHANGED <<frames, active, streaming, readable, waiters, ppc, tpc>>

ReadFlag(w) ==
  /\ wpc[w] = "flag"
  /\ Goto(w, IF streaming THEN "poll" ELSE "leave")
  /\ UNCHANGED <<frames, active, streaming, readable, waiters, ppc, tpc>>

\* poll() returns once the eventfd is readable.
Poll(w) ==
  /\ wpc[w] = "poll"
  /\ readable
  /\ Goto(w, IF w \in Draining THEN "drain" ELSE "count")
  /\ UNCHANGED <<frames, active, streaming, readable, waiters, ppc, tpc>>

\* Mutant: the early return on a timeout skips ~Registration.
TimeOutLeaks(w) ==
  /\ wpc[w] = "poll"
  /\ w \in Timed
  /\ Goto(w, "idle")
  /\ UNCHANGED <<frames, active, streaming, readable, waiters, ppc, tpc>>

\* The timeout passes inside poll(), or is found expired before it.
TimeOut(w) ==
  /\ wpc[w] = "poll"
  /\ w \in Timed
  /\ Goto(w, "leave")
  /\ UNCHANGED <<frames, active, streaming, readable, waiters, ppc, tpc>>

\* Mutant: drain() moved below the check of the loop condition.
DrainAfterCheck(w) ==
  /\ wpc[w] = "drain"
  /\ readable' = FALSE
  /\ Goto(w, "poll")
  /\ UNCHANGED <<frames, active, streaming, waiters, ppc, tpc>>

Drain(w) ==
  /\ wpc[w] = "drain"
  /\ readable' = FALSE
  /\ Goto(w, "count")
  /\ UNCHANGED <<frames, active, streaming, waiters, ppc, tpc>>

\* The wait returns; ~Registration lowers the count.
Leave(w) ==
  /\ wpc[w] = "leave"
  /\ waiters' = waiters - 1
  /\ Goto(w, "idle")
  /\ UNCHANGED <<frames, active, streaming, readable, ppc, tpc>>

-----------------------------------------------------------------------------
Waiter(w) ==
  \/ Register(w)
  \/ ReadCount(w)
  \/ ReadFlag(w)
  \/ Poll(w)
  \/ TimeOut(w)
  \/ Drain(w)
  \/ Leave(w)
  \/ Consume(w)

Next ==
  \/ Publish
  \/ SignalIfWaiting
  \/ Signal
  \/ ClearActive
  \/ ClearStreaming
  \/ SignalEnd
  \/ \E w \in Waiters : Waiter(w)

Spec == Init /\ [][Next]_vars

(* A callback that has published runs on to its signal, a terminal          *)
(* transition runs on to its own, and a wait that can take a step takes it. *)
(* Nothing makes a completion arrive, a stream end, a timeout pass or a     *)
(* thread begin to wait.                                                    *)
Fairness ==
  /\ WF_vars(SignalIfWaiting)
  /\ WF_vars(Signal)
  /\ WF_vars(ClearStreaming)
  /\ WF_vars(SignalEnd)
  /\ \A w \in Waiters :
       WF_vars(ReadCount(w) \/ ReadFlag(w) \/ Poll(w) \/ Drain(w) \/ Leave(w))

FairSpec == Spec /\ Fairness

-----------------------------------------------------------------------------
(* What a wait is for has happened: frames are there, or the stream ended.  *)
Due == Available >= Need \/ ~streaming

(* A wake is on its way: the eventfd is readable, or a thread is between    *)
(* its publication and its signal.                                          *)
WakePending == readable \/ ppc \in {"gate", "write"} \/ tpc = "write"

(* waiters_ counts exactly the threads inside a wait, whichever way they    *)
(* leave it: signalIfWaiting skips the eventfd write on its word.           *)
CountExact == waiters = Cardinality({w \in Waiters : wpc[w] # "idle"})

(* No lost wakeup, the argument of WakeChannel.h: a thread that blocks in   *)
(* poll() although what it waits for has happened has a wake on its way.    *)
NoLostWakeup ==
  \A w \in Waiters : wpc[w] = "poll" /\ Due => WakePending

(* Once the stream has ended, no thread stays blocked in a wait: requestStop *)
(* and markTransportFailed signal so that "no waiter can miss the failure". *)
StopReleasesWaiters ==
  \A w \in Waiters : ~streaming ~> wpc[w] # "poll"

=============================================================================
