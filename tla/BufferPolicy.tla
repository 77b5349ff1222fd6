------------------------------ MODULE BufferPolicy ------------------------------
(***************************************************************************)
(* The userspace buffering policy: the functions of UsbScheduling.h, and   *)
(* the resolution of a request against the negotiated stream that          *)
(* LibusbUacDriver::setUserspaceBufferConfig performs with them.  All      *)
(* quantities are frames.  A request of zero selects the automatic value   *)
(* of a term and a positive one is exact; for the capture terms            *)
(* ExplicitZero asks for none.                                             *)
(***************************************************************************)
EXTENDS Integers

CONSTANTS
  MinGraphQuantum,      \* kMinGraphQuantum
  MaxGraphQuantum,      \* kMaxGraphQuantum
  MaxPeriodMultiplier,  \* kMaxPeriodMultiplier; the minimum is 1
  SampleRate,           \* format_.sampleRateHz
  PacketsPerTransfer,   \* playbackPacketsPerTransfer_
  PacketsPerSecond,     \* microframesPerSec_
  CaptureWave           \* captureTransferFrames_

ASSUME PolicyAssumption ==
  /\ {MinGraphQuantum, MaxGraphQuantum, MaxPeriodMultiplier, SampleRate,
      PacketsPerTransfer, PacketsPerSecond, CaptureWave} \subseteq Nat \ {0}
  /\ MinGraphQuantum <= MaxGraphQuantum

Lesser(m, n) == IF m < n THEN m ELSE n

Greater(m, n) == IF m > n THEN m ELSE n

Clamp(n, low, high) == Greater(low, Lesser(n, high))

CeilDiv(m, n) == (m + n - 1) \div n

ExplicitZero == -1

resolveOptionalFrames(requested, automatic) ==
  CASE requested = ExplicitZero -> 0
    [] requested = 0 -> automatic
    [] OTHER -> requested

\* A term that has no explicit zero.
OrAutomatic(requested, automatic) == IF requested = 0 THEN automatic ELSE requested

checkedFrameBudgetFits(first, second, third, capacity) ==
  /\ \A term \in {first, second, third, capacity} : term >= 0
  /\ first + second + third <= capacity

nominalTransferFrames == CeilDiv(SampleRate * PacketsPerTransfer, PacketsPerSecond)

\* Mutant: the headroom is the quantum, whatever the drain granularity.
HeadroomOfOneQuantum(quantum, drainChunk) == quantum

\* The block being admitted and the step that one drain per cycle leaves.
automaticWriteHeadroomFrames(quantum, drainChunk) ==
  IF drainChunk > 0 /\ quantum > drainChunk
  THEN quantum + (quantum - drainChunk)
  ELSE quantum

graphQuantumFor(frames) == Clamp(frames, MinGraphQuantum, MaxGraphQuantum)

playbackWatermarkTarget(frames, multiplier) ==
  Lesser(MaxGraphQuantum,
         graphQuantumFor(frames) * Clamp(multiplier, 1, MaxPeriodMultiplier))

automaticPlaybackTargetFrames(quantum, drainChunk, periodTarget) ==
  CASE quantum <= 0 \/ drainChunk <= 0 -> periodTarget
    [] quantum > MaxGraphQuantum - drainChunk -> MaxGraphQuantum
    [] OTHER -> quantum + drainChunk

startupPlaybackPrimeFrames(maxTarget, exactInitial, playbackTarget) ==
  IF maxTarget <= 0 THEN 0
  ELSE Lesser(maxTarget, Greater(0, Greater(exactInitial, playbackTarget)))

--------------------------------------------------------------------------------
UserspaceBufferConfig ==
  [target : Int, prime : Int, headroom : Int, captureLimit : Int, captureTarget : Int,
   captureHeadroom : Int, captureSlack : Int]

\* A default-constructed one.
automaticRequest ==
  [target |-> 0, prime |-> 0, headroom |-> 0, captureLimit |-> 0, captureTarget |-> 0,
   captureHeadroom |-> 0, captureSlack |-> 0]

(* What configureUserspaceBuffers() accepts before the pump exists.        *)
acceptableRequest(user) ==
  /\ user.target >= 0
  /\ user.prime >= 0
  /\ user.headroom >= 0
  /\ user.captureLimit >= 0
  /\ user.captureTarget >= ExplicitZero
  /\ user.captureHeadroom >= ExplicitZero
  /\ user.captureSlack >= ExplicitZero

\* The terms setUserspaceBufferConfig() derives from a request, before it
\* decides whether they fit.
requestedTerms(frames, multiplier, user, ringFrames, exactInitial, transfers) ==
  LET quantum == graphQuantumFor(frames)
      target == OrAutomatic(user.target,
                  automaticPlaybackTargetFrames(quantum, nominalTransferFrames,
                    playbackWatermarkTarget(frames, multiplier)))
  IN  [quantum |-> quantum,
       target |-> target,
       headroom |-> OrAutomatic(user.headroom,
                      automaticWriteHeadroomFrames(quantum, exactInitial \div transfers)),
       prime |-> OrAutomatic(user.prime,
                   startupPlaybackPrimeFrames(ringFrames, exactInitial, target)),
       captureLimit |-> user.captureLimit,
       captureTarget |-> resolveOptionalFrames(user.captureTarget, CaptureWave),
       captureHeadroom |-> resolveOptionalFrames(user.captureHeadroom, CaptureWave),
       captureSlack |-> resolveOptionalFrames(user.captureSlack, CaptureWave)]

termsFit(terms, ringFrames, exactInitial) ==
  /\ checkedFrameBudgetFits(terms.target, terms.headroom, 0, ringFrames)
  /\ exactInitial <= terms.prime
  /\ terms.prime <= ringFrames
  /\ checkedFrameBudgetFits(CaptureWave, terms.captureTarget, terms.captureHeadroom,
                            ringFrames)

\* A request that does not fit leaves every term zero and the quantum alone.
noTerms(quantum) ==
  [quantum |-> quantum, target |-> 0, headroom |-> 0, prime |-> 0,
   captureLimit |-> 0, captureTarget |-> 0, captureHeadroom |-> 0, captureSlack |-> 0]

===============================================================================
