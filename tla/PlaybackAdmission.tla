--------------------------- MODULE PlaybackAdmission ---------------------------
(***************************************************************************)
(* How much audio may be queued for the device, and who keeps the count:   *)
(* the buffering policy a session resolves, the admission of quanta by the *)
(* render thread, the credit ledger (playbackCredit_), the count of frames *)
(* on the bus (queuedOutFrames_), and the refill or deferral of completed  *)
(* transfers.  One session, from configureUserspaceBuffers() on.           *)
(*                                                                         *)
(* Three threads: control (configuration, then startPlayback, which        *)
(* submits a transfer and accounts for it in two steps), the event thread  *)
(* (onIso, onCapture), and the render thread (submitQuantum, with the      *)
(* holding slot its caller keeps).  The ring is counted in frames; its     *)
(* bytes are PlaybackRing's subject and the lives of the transfers         *)
(* IsoTransport's, which also models what a failed transfer leads to: here *)
(* every submission succeeds and the device stays.                         *)
(***************************************************************************)
EXTENDS BufferPolicy, Sequences, FiniteSetsExt

CONSTANTS
  Transfers,      \* transferCount_; transfers are 1..Transfers
  DefaultRing,    \* frames of kRingBytes
  DefaultQuantum, \* initial graphQuantum_; half the initial target and prime
  RingSizes,      \* frames of the ring capacities that may be configured
  Plans,          \* frames a whole transfer may be planned to carry
  FirstPlans,     \* packet plans of the first transfers
  Quanta,         \* graph quanta the application asks for
  Multipliers,    \* period multipliers it asks for
  Requests,       \* userspace buffer requests
  Watermarks,     \* targets it passes to setGraphQuantum()
  Reserve,        \* playbackCreditReserve_
  Policy,         \* admissionPolicy_: 1 spends credit, 0 only counts it
  EarlyStarts     \* bound: startPlayback() calls before the prime is there

ASSUME AdmissionAssumption ==
  /\ Transfers \in Nat \ {0}
  /\ {DefaultRing, DefaultQuantum} \subseteq Nat \ {0}
  /\ RingSizes \subseteq Nat \ {0}
  /\ Plans \subseteq Nat \ {0} /\ \E most \in Plans : \A plan \in Plans : plan <= most
  /\ FirstPlans \subseteq [1..Transfers -> Plans]
  /\ Quanta \subseteq Nat \ {0}
  /\ Multipliers \subseteq Int
  /\ Requests \subseteq UserspaceBufferConfig
  /\ Watermarks \subseteq Int
  /\ Reserve \in Nat
  /\ Policy \in {0, 1}
  /\ EarlyStarts \in Nat

VARIABLES
  phase,     \* the control thread
  ringFrames,\* ring_.size(), in frames
  implicit,  \* the OUT clock is the capture stream's
  holding,   \* the caller keeps a refused block for the next cycle
  user,      \* userspaceBufferConfig_
  terms,     \* the policy in force
  early,     \* startPlayback() calls made before the prime was there
  started,   \* playbackStarted_
  exactInitial, \* exactInitialPacketFrames_
  toSubmit,  \* transfers startPlayback() has yet to submit or account for
  length,    \* frames in each transfer's packet descriptors
  bus,       \* transfers on the bus, oldest first
  pending,   \* pendingImplicitTransfers_
  layout,    \* frames of the next implicit layout; 0 while there is none
  done,      \* the completed transfer onIso() is working on; 0 if none
  step,      \* where in onIso() it is
  occ,       \* bufferedFrames()
  queuedOut, \* queuedOutFrames_
  credit,    \* playbackCredit_
  render,    \* the render thread inside submitQuantum
  floor,     \* the floor it compares the credit with
  held,      \* frames in the holding slot
  free       \* history: frames queued or held that were never charged

policyVars == <<ringFrames, implicit, holding, exactInitial, user, terms>>
control == <<phase, early, started, toSubmit>>
pump == <<length, bus, pending, layout>>
event == <<done, step>>
ledger == <<queuedOut, credit>>
rendering == <<render, floor, held>>
vars == <<policyVars, control, pump, event, ledger, occ, rendering, free>>

Pool == 1..Transfers
SumOf(plan, set) ==
  LET sum[t \in 0..Transfers] ==
        IF t = 0 THEN 0 ELSE sum[t - 1] + (IF t \in set THEN plan[t] ELSE 0)
  IN  sum[Transfers]
Frames(set) == SumOf(length, set)
OnBus == {bus[i] : i \in DOMAIN bus}
DrainChunk == exactInitial \div Transfers
MaxPlan == Max(Plans)

Init ==
  /\ phase = "closed"
  /\ ringFrames = DefaultRing
  /\ implicit \in BOOLEAN
  /\ holding \in BOOLEAN
  /\ exactInitial = 0
  /\ user = automaticRequest
  /\ terms = [noTerms(DefaultQuantum) EXCEPT
                 !.target = 2 * DefaultQuantum, !.prime = 2 * DefaultQuantum,
                 !.headroom = DefaultQuantum]
  /\ early = 0
  /\ started = FALSE
  /\ toSubmit = 0
  /\ length = [t \in Pool |-> 0]
  /\ bus = <<>>
  /\ pending = <<>>
  /\ layout = 0
  /\ done = 0
  /\ step = "idle"
  /\ occ = 0
  /\ queuedOut = 0
  /\ credit = 0
  /\ render = "out"
  /\ floor = 0
  /\ held = 0
  /\ free = 0

--------------------------------------------------------------------------------
(* Configuration, by the control thread.                                   *)

\* configureUserspaceBuffers(): only before the pump; a bad request is refused.
ConfigureUserspaceBuffers(request, size) ==
  /\ phase = "closed"
  /\ acceptableRequest(request)
  /\ user' = request
  /\ ringFrames' = size
  /\ UNCHANGED <<implicit, holding, exactInitial, terms, control, pump, event, ledger, occ, rendering, free>>

\* startIsoPump(false): the first packet plans, and a prime for the policy
\* left by the previous session (its ring is taken to be kRingBytes long).
StartIsoPump(plan) ==
  /\ phase = "closed"
  /\ length' = plan
  /\ exactInitial' = SumOf(plan, Pool)
  /\ terms' = [terms EXCEPT !.prime =
       startupPlaybackPrimeFrames(Greater(0, DefaultRing - terms.quantum),
                                  exactInitial', terms.target)]
  /\ phase' = "ready"
  /\ UNCHANGED <<ringFrames, implicit, holding, user, early, started, toSubmit, bus, pending,
                 layout, event, ledger, occ, rendering, free>>

\* setUserspaceBufferConfig() against the negotiated stream.
ApplyPolicy(frames, multiplier, request) ==
  LET wanted == requestedTerms(frames, multiplier, request, ringFrames, exactInitial,
                               Transfers)
  IN  /\ phase = "ready"
      /\ terms' = IF termsFit(wanted, ringFrames, exactInitial)
                  THEN wanted
                  ELSE noTerms(terms.quantum)
      /\ phase' = "open"
      /\ UNCHANGED <<ringFrames, implicit, holding, exactInitial, user, early, started, toSubmit,
                     pump, event, ledger, occ, rendering, free>>

SetUserspaceBufferConfig(frames, multiplier) == ApplyPolicy(frames, multiplier, user)

\* setGraphQuantum(): the stored request with another target.
SetGraphQuantum(frames, multiplier, watermark) ==
  ApplyPolicy(frames, multiplier, [user EXCEPT !.target = watermark])

--------------------------------------------------------------------------------
(* startPlayback(), by the control thread.                                 *)

\* playbackStarted_ is exchanged before anything else is tested.  The
\* application calls when it sees the prime buffered, and may call too early.
StartPlayback ==
  /\ phase = "open"
  /\ ~started
  /\ occ >= terms.prime \/ early < EarlyStarts
  /\ started' = TRUE
  /\ phase' = "arming"
  /\ UNCHANGED <<policyVars, early, toSubmit, pump, event, ledger, occ, rendering,
                 free>>

\* Mutant: the failed call leaves playbackStarted_ set.
PrimeMissingKeepsFlag ==
  /\ phase = "arming"
  /\ terms.prime > occ
  /\ early' = early + 1
  /\ phase' = "open"
  /\ UNCHANGED <<policyVars, started, toSubmit, pump, event, ledger, occ, rendering, free>>

\* Too little is buffered for the prime: playbackStarted_ is taken back.
PrimeMissing ==
  /\ phase = "arming"
  /\ terms.prime > occ
  /\ started' = FALSE
  /\ early' = early + 1
  /\ phase' = "open"
  /\ UNCHANGED <<policyVars, toSubmit, pump, event, ledger, occ, rendering, free>>

\* What transfer t gets when the transfers are filled in order from the ring.
FirstFill(t) ==
  Lesser(length[t], Greater(0, occ - Frames(1..(t - 1))))

FillTransfers ==
  /\ phase = "arming"
  /\ terms.prime <= occ
  /\ length' = [t \in Pool |-> FirstFill(t)]
  /\ occ' = Greater(0, occ - exactInitial)
  /\ toSubmit' = 1
  /\ early' = 0
  /\ phase' = "submit"
  /\ UNCHANGED <<policyVars, started, bus, pending, layout, event, ledger,
                 rendering, free>>

SubmitTransfer ==
  /\ phase = "submit"
  /\ bus' = Append(bus, toSubmit)
  /\ phase' = "account"
  /\ UNCHANGED <<policyVars, early, started, toSubmit, length, pending, layout, event,
                 ledger, occ, rendering, free>>

\* The frames are counted after the submission, from the descriptors as they
\* are by then.
AccountTransfer ==
  /\ phase = "account"
  /\ queuedOut' = queuedOut + length[toSubmit]
  /\ toSubmit' = toSubmit + 1
  /\ phase' = IF toSubmit = Transfers THEN "playing" ELSE "submit"
  /\ UNCHANGED <<policyVars, early, started, pump, event, credit, occ, rendering,
                 free>>

--------------------------------------------------------------------------------
(* The event thread: onIso() for the oldest transfer on the bus, onCapture *)
(* for the layouts it brings.                                              *)

subtractQueued(amount) == Greater(0, queuedOut - amount)

\* Mutant: the frames of a completed transfer stay in the count.
PlayedStillQueued(t) ==
  /\ step = "idle"
  /\ bus # <<>>
  /\ t = Head(bus)
  /\ credit' = credit + length[t]
  /\ bus' = Tail(bus)
  /\ UNCHANGED queuedOut

\* The first half of every completion that is refilled or deferred: its
\* frames leave the count and, played, become credit.
Played(t) ==
  /\ step = "idle"
  /\ bus # <<>>
  /\ t = Head(bus)
  /\ queuedOut' = subtractQueued(length[t])
  /\ credit' = credit + length[t]
  /\ bus' = Tail(bus)

\* Packet sizes from the scheduler or the feedback endpoint; a short ring
\* shortens the packets.
CompleteExplicit(t, plan) ==
  /\ Played(t)
  /\ ~implicit
  /\ occ' = occ - Lesser(plan, occ)
  /\ length' = [length EXCEPT ![t] = Lesser(plan, occ)]
  /\ done' = t
  /\ step' = "submit"
  /\ UNCHANGED <<policyVars, control, pending, layout, rendering, free>>

\* prepareImplicitTransfer(): a layout is there and so is all of its PCM.
Preparable(plan) == plan > 0 /\ occ >= plan

CompleteImplicit(t) ==
  /\ Played(t)
  /\ implicit
  /\ pending = <<>>
  /\ Preparable(layout)
  /\ occ' = occ - layout
  /\ length' = [length EXCEPT ![t] = layout]
  /\ layout' = 0
  /\ done' = t
  /\ step' = "submit"
  /\ UNCHANGED <<policyVars, control, pending, rendering, free>>

\* It is not, or an older transfer is still deferred.
CompleteDeferred(t) ==
  /\ Played(t)
  /\ implicit
  /\ pending # <<>> \/ ~Preparable(layout)
  /\ pending' = Append(pending, t)
  /\ UNCHANGED <<policyVars, control, length, layout, event, occ, rendering, free>>

\* The second half: back on the bus, and only then counted.
Resubmit ==
  /\ step = "submit"
  /\ bus' = Append(bus, done)
  /\ queuedOut' = queuedOut + length[done]
  /\ done' = 0
  /\ step' = "idle"
  /\ UNCHANGED <<policyVars, control, length, pending, layout, credit, occ, rendering, free>>

\* Mutant: the metadata is kept and the deferred transfers are left alone.
OnCaptureNeverRetries(plan) ==
  /\ step = "idle"
  /\ implicit
  /\ phase \in {"submit", "account", "playing"}
  /\ layout' = IF layout = 0 THEN plan ELSE layout
  /\ UNCHANGED <<policyVars, control, length, bus, pending, event, ledger, occ, rendering, free>>

\* onCapture(): metadata for one more layout unless one is waiting, then the
\* oldest deferred transfer is prepared and submitted.
OnCapture(plan) ==
  LET next == IF layout = 0 THEN plan ELSE layout
  IN  /\ step = "idle"
      /\ implicit
      /\ phase \in {"submit", "account", "playing"}
      /\ IF pending # <<>> /\ Preparable(next)
         THEN /\ occ' = occ - next
              /\ length' = [length EXCEPT ![Head(pending)] = next]
              /\ bus' = Append(bus, Head(pending))
              /\ pending' = Tail(pending)
              /\ queuedOut' = queuedOut + next
              /\ layout' = 0
         ELSE /\ layout' = next
              /\ UNCHANGED <<length, bus, pending, queuedOut, occ>>
      /\ UNCHANGED <<policyVars, control, event, credit, rendering, free>>

--------------------------------------------------------------------------------
(* The render thread: submitQuantum(), one graph quantum at a time.        *)

\* The room that writableFrames() and again preparePlaybackWrite() measure:
\* the later measure decides.
Writable ==
  LET limit == (IF started THEN terms.target ELSE terms.prime) + terms.headroom
  IN  Lesser(ringFrames - occ, Greater(0, limit - occ))

\* chargePlaybackCredit(): an unconditional debit once playback has started.
chargePlaybackCredit(frames) ==
  /\ credit' = IF started THEN credit - frames ELSE credit
  /\ free' = IF started THEN free ELSE free + frames

\* Mutant: a block is charged again each time it is refused.
RefuseChargesAgain ==
  /\ render' = "out"
  /\ floor' = 0
  /\ IF ~holding
     THEN UNCHANGED <<credit, free, held>>
     ELSE chargePlaybackCredit(terms.quantum) /\ held' = terms.quantum
  /\ UNCHANGED <<policyVars, control, pump, event, queuedOut, occ>>

\* A refused block is dropped, or waits in the holding slot, charged; one that
\* was there already stays.
Refuse ==
  /\ render' = "out"
  /\ floor' = 0
  /\ IF held > 0 \/ ~holding
     THEN UNCHANGED <<credit, free, held>>
     ELSE chargePlaybackCredit(terms.quantum) /\ held' = terms.quantum
  /\ UNCHANGED <<policyVars, control, pump, event, queuedOut, occ>>

CanOffer == render = "out" /\ phase \notin {"closed", "ready"}

OfferRefused ==
  /\ CanOffer
  /\ Writable < terms.quantum
  /\ Refuse

\* Only the credit policy charges, only a new block (a held one goes first
\* and is paid for), and only once playback has started.
Charged == held = 0 /\ Policy = 1 /\ started

Offer ==
  /\ CanOffer
  /\ Writable >= terms.quantum
  /\ IF Charged
     THEN render' = "credit" /\ floor' = -terms.target - queuedOut - Reserve
     ELSE render' = "unpaid" /\ UNCHANGED floor
  /\ UNCHANGED <<policyVars, control, pump, event, ledger, occ, held, free>>

\* Mutant: the credit before the debit is compared with the floor.
TakeBelowFloor ==
  /\ render = "credit"
  /\ credit >= floor
  /\ credit' = credit - terms.quantum
  /\ render' = "paid"
  /\ floor' = 0
  /\ UNCHANGED <<policyVars, control, pump, event, queuedOut, occ, held, free>>

\* takePlaybackCredit(): the compare-and-swap against the floor read before.
TakePlaybackCredit ==
  /\ render = "credit"
  /\ credit - terms.quantum >= floor
  /\ credit' = credit - terms.quantum
  /\ render' = "paid"
  /\ floor' = 0
  /\ UNCHANGED <<policyVars, control, pump, event, queuedOut, occ, held, free>>

CreditRefused ==
  /\ render = "credit"
  /\ credit - terms.quantum < floor
  /\ Refuse

\* commitPlaybackWrite().
Publish ==
  /\ render \in {"unpaid", "paid"}
  /\ occ' = occ + terms.quantum
  /\ held' = 0
  /\ free' = IF render = "unpaid" /\ held = 0 THEN free + terms.quantum ELSE free
  /\ render' = "out"
  /\ UNCHANGED <<policyVars, control, pump, event, ledger, floor>>

--------------------------------------------------------------------------------

Configure ==
  \/ \E request \in Requests, size \in RingSizes : ConfigureUserspaceBuffers(request, size)
  \/ \E plan \in FirstPlans : StartIsoPump(plan)
  \/ \E frames \in Quanta, multiplier \in Multipliers :
       \/ SetUserspaceBufferConfig(frames, multiplier)
       \/ \E watermark \in Watermarks : SetGraphQuantum(frames, multiplier, watermark)

Starting == StartPlayback \/ PrimeMissing \/ FillTransfers \/ SubmitTransfer \/ AccountTransfer

OnIso ==
  \/ \E t \in Pool :
       \/ \E plan \in Plans : CompleteExplicit(t, plan)
       \/ CompleteImplicit(t)
       \/ CompleteDeferred(t)
  \/ Resubmit

Capture == \E plan \in Plans : OnCapture(plan)

Render == Offer \/ OfferRefused \/ TakePlaybackCredit \/ CreditRefused \/ Publish

Next == Configure \/ Starting \/ OnIso \/ Capture \/ Render

Spec == Init /\ [][Next]_vars

FairSpec ==
  /\ Spec
  /\ WF_vars(Starting)
  /\ WF_vars(OnIso)
  /\ WF_vars(Capture)
  /\ WF_vars(Render)

--------------------------------------------------------------------------------
(* Properties.                                                             *)

\* Transfers that startPlayback() has filled and not yet submitted.
Filled ==
  IF phase = "submit" THEN toSubmit..Transfers
  ELSE IF phase = "account" THEN (toSubmit + 1)..Transfers
  ELSE {}

\* Frames of audio between the render thread and the device.
Pipeline ==
  occ + Frames(OnBus) + Frames(Filled) + held
    + (IF step = "submit" THEN length[done] ELSE 0)
    + (IF render = "paid" THEN terms.quantum ELSE 0)

(* The ledger is never out by a frame: what was published or held without *)
(* a charge, less the credit, is exactly the audio in the pipeline.        *)
LedgerExact == Policy = 1 => credit + Pipeline = free

\* The error of queuedOutFrames_.
Drift == queuedOut - Frames(OnBus)

(* Unless blocks are held (their charge is not gated), the producer's lead  *)
(* over the device never exceeds the target, the reserve and what the       *)
(* transfers can carry, but for the error of queuedOutFrames_: a floor that *)
(* completions have made stale by the compare-and-swap costs no more.       *)
LeadBounded ==
  (Policy = 1 /\ ~holding /\ phase = "playing") =>
    -credit <= terms.target + Reserve + Transfers * MaxPlan + Greater(0, Drift)

(* queuedOutFrames_ may be off after a completion overtook its accounting, *)
(* by no more than the frames of the first transfers.                      *)
DriftBounded ==
  phase = "playing" =>
    Drift \in (-Transfers * MaxPlan)..(Transfers * MaxPlan)

(* An automatic headroom absorbs a late drain: from any occupancy at or    *)
(* below the target, one quantum in and one drain chunk out leaves room    *)
(* for the next quantum.                                                   *)
LateDrainAbsorbed ==
  (phase \notin {"closed", "ready"} /\ terms.target > 0 /\ user.headroom = 0) =>
    \A before \in 0..terms.target :
      Greater(0, before + terms.quantum - DrainChunk) + terms.quantum
        <= Lesser(ringFrames, terms.target + terms.headroom)

(* There is a prime, and it can be reached in whole quanta below the       *)
(* ceiling.  A request that does not fit leaves a policy of zeros, prime   *)
(* included: the documents say that it fails the start.                    *)
PrimeReachable ==
  LET quanta == CeilDiv(terms.prime, terms.quantum) * terms.quantum
  IN  terms.prime > 0 /\ quanta <= Lesser(ringFrames, terms.prime + terms.headroom)

(* A session whose request fits, and whose prime is reachable, gets to     *)
(* play unless libusb refuses a transfer.                                  *)
PlaybackStarts ==
  (phase = "open" /\ PrimeReachable) ~> (phase = "playing")

\* Room for a quantum above every transfer that may still wait for its PCM.
Roomy == terms.target + terms.headroom + 1 >= terms.quantum + MaxPlan

(* Where the ceiling leaves room for a quantum above every transfer that   *)
(* may still wait for its PCM, the render thread and the deferred          *)
(* transfers never wait on each other: quanta are published for ever.      *)
AdmissionProgress ==
  (phase = "playing" /\ Roomy) ~> (render \in {"paid", "unpaid"})

================================================================================
