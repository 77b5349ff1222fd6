------------------------------ MODULE PacketClock ------------------------------
(***************************************************************************)
(* How many frames each OUT packet is planned to carry when capture is not *)
(* the clock: the exact rational scheduler (RationalPacketScheduler) and   *)
(* the fixed-point accumulator that follows an explicit feedback endpoint. *)
(* startIsoPump() derives both from the negotiated rate and plans the      *)
(* initial packets, onFeedback() moves the fixed-point rate, and the       *)
(* nominal branch of onIso() plans the packets of every later transfer.    *)
(*                                                                         *)
(* Registers of 32 bits wrap at Word; One is 1.0 in the fixed-point format *)
(* (2^16 in the code, 4 at least, since the full-speed format is shifted   *)
(* by two bits).                                                           *)
(***************************************************************************)
EXTENDS Integers

CONSTANTS
  Rates,           \* sample rates start() may be asked for
  PacketRates,     \* packets per second the endpoint's bInterval gives
  Physical,        \* frames the endpoint's packet can carry
  Raws,            \* what the bytes of a feedback packet may hold
  Interval,        \* packetIntervalUframes_
  InitialPackets,  \* packets of the initial OUT transfers
  One,             \* 1.0 in Q16
  Word,            \* 2^32
  MaxPackets,      \* bound on the packets of a session without feedback
  MaxFeedback      \* bound on the packets of a session that follows feedback

ASSUME ClockAssumption ==
  /\ One \in Nat /\ One > 0
  /\ Word \in Nat /\ Word > 1
  /\ Rates \subseteq Nat /\ \A r \in Rates : r < Word
  /\ PacketRates \subseteq Nat /\ \A p \in PacketRates : p > 0 /\ p < Word
  /\ Physical \subseteq Nat
  \* A packet holds at most 3072 bytes, far below 2^16 frames.
  /\ \A f \in Physical : (f + 1) * One <= Word
  /\ Raws \subseteq Nat /\ \A v \in Raws : v < Word
  /\ Interval \in Nat /\ Interval > 0
  /\ InitialPackets \in Nat /\ MaxPackets \in Nat /\ MaxFeedback \in Nat

VARIABLES
  phase,       \* "off", "priming" (inside startIsoPump), "running"
  clockRate,   \* format_.sampleRateHz
  feedback,    \* format_.feedbackEndpointAddress # 0
  period, whole, fraction, remainder,   \* the fields of nominalScheduler_
  rateQ,       \* framesPerUframe_q16_
  acc,         \* fracAccumulator_q16_
  maxFrames,   \* maxFramesPerPacket_
  nomPackets,  \* history: packets the scheduler planned in this session,
  nomFrames,   \*   and the frames they carry;
  fbPackets,   \* packets planned from the feedback rate,
  fbFrames,    \*   the frames they carry,
  fbAsked      \*   and the sum of the rates in force when they were planned

scheduler == <<period, whole, fraction, remainder>>
history == <<nomPackets, nomFrames, fbPackets, fbFrames, fbAsked>>
clockVars == <<phase, clockRate, feedback, scheduler, rateQ, acc, maxFrames, history>>

(* Ranges.  The remainder stays below the period and the accumulator keeps  *)
(* only the fraction, so no register of either clock can wrap.              *)
TypeOK ==
  /\ phase \in {"off", "priming", "running"}
  /\ clockRate \in Nat
  /\ feedback \in BOOLEAN
  /\ period \in Nat \ {0} /\ period < Word
  /\ whole \in Nat
  /\ fraction \in Nat /\ fraction < period
  /\ remainder \in Nat /\ remainder < period
  /\ rateQ \in Nat
  /\ acc \in Nat /\ acc < One
  /\ maxFrames \in Nat
  /\ nomPackets \in Nat /\ nomFrames \in Nat
  /\ fbPackets \in Nat /\ fbFrames \in Nat /\ fbAsked \in Nat

\* A driver that has not started yet; startIsoPump() assigns every field.
ClockInit ==
  /\ phase = "off"
  /\ clockRate = 0
  /\ feedback = FALSE
  /\ period = 1 /\ whole = 0 /\ fraction = 0 /\ remainder = 0
  /\ rateQ = 0 /\ acc = 0 /\ maxFrames = 0
  /\ nomPackets = 0 /\ nomFrames = 0
  /\ fbPackets = 0 /\ fbFrames = 0 /\ fbAsked = 0

-----------------------------------------------------------------------------
\* RationalPacketScheduler::reset()
Reset(r, p) ==
  /\ period' = p
  /\ whole' = r \div p
  /\ fraction' = r % p
  /\ remainder' = 0

\* startIsoPump() up to its first transfer: the fixed-point seed, the reset of
\* both clocks and the packet limit, which admits one frame above nominal.  An
\* endpoint that cannot carry the nominal cadence ends the start.
StartClocks(r, p, physical, fb) ==
  LET nominalMax == (r \div p) + (IF r % p > 0 THEN 1 ELSE 0)
      seed == ((r \div p) * One + ((r % p) * One) \div p) % Word
  IN  /\ clockRate' = r
      /\ feedback' = fb
      /\ Reset(r, p)
      /\ rateQ' = seed
      /\ acc' = 0
      /\ IF physical < nominalMax
           THEN phase' = "off" /\ UNCHANGED maxFrames
           ELSE /\ phase' = "priming"
                /\ maxFrames' = IF physical < nominalMax + 1 THEN physical
                                                             ELSE nominalMax + 1
      /\ nomPackets' = 0 /\ nomFrames' = 0
      /\ fbPackets' = 0 /\ fbFrames' = 0 /\ fbAsked' = 0

\* Mutant: the carry is computed from a sum, which wraps.
CarriesFromSum == (remainder + fraction) % Word >= period

\* RationalPacketScheduler::next(): does this packet carry the extra frame?
Carries == remainder >= (period - fraction) % Word

NextFrames == IF Carries THEN whole + 1 ELSE whole

NextRemainder ==
  IF Carries THEN (remainder - (period - fraction)) % Word
             ELSE (remainder + fraction) % Word

PlanNominal(frames) ==
  /\ remainder' = NextRemainder
  /\ nomPackets' = nomPackets + 1
  /\ nomFrames' = nomFrames + frames
  /\ UNCHANGED <<clockRate, feedback, period, whole, fraction, fbPackets,
                 fbFrames, fbAsked>>

Bounded == nomPackets + fbPackets < IF feedback THEN MaxFeedback ELSE MaxPackets

\* startIsoPump(): one initial packet.
PrimePacket ==
  /\ phase = "priming" /\ nomPackets < InitialPackets /\ Bounded
  /\ PlanNominal(NextFrames)
  /\ UNCHANGED <<phase, rateQ, acc, maxFrames>>

\* startPlayback() submits them.
StartPlayback ==
  /\ phase = "priming" /\ nomPackets = InitialPackets
  /\ phase' = "running"
  /\ UNCHANGED <<clockRate, feedback, scheduler, rateQ, acc, maxFrames, history>>

\* onIso(): an empty plan falls back on the whole part of the rate, and no plan
\* exceeds the packet limit.
Clamped(frames) ==
  LET planned == IF frames <= 0 THEN rateQ \div One ELSE frames
  IN  IF planned < maxFrames THEN planned ELSE maxFrames

\* onIso(): one packet without a feedback endpoint.
PlanFromRate ==
  /\ phase = "running" /\ ~feedback /\ Bounded
  /\ PlanNominal(Clamped(NextFrames))
  /\ UNCHANGED <<phase, rateQ, acc, maxFrames>>

\* fracAccumulator_q16_ &= 0xFFFF
Fraction(sum) == sum % One

\* onIso(): one packet from the feedback rate.
PlanFromFeedback ==
  /\ phase = "running" /\ feedback /\ Bounded
  /\ LET sum == (acc + rateQ) % Word
     IN  /\ acc' = Fraction(sum)
         /\ fbFrames' = fbFrames + Clamped(sum \div One)
  /\ fbPackets' = fbPackets + 1
  /\ fbAsked' = fbAsked + rateQ
  /\ UNCHANGED <<phase, clockRate, feedback, scheduler, rateQ, maxFrames, nomPackets,
                 nomFrames>>

-----------------------------------------------------------------------------
\* onFeedback(): four bytes hold Q16, three hold Q14, fewer hold nothing.
Decoded(bytes, raw) ==
  IF bytes >= 4 THEN raw
  ELSE IF bytes >= 3 THEN (raw * 4) % Word
  ELSE 0

\* Mutant: one more frame than a packet can carry is let through.
AcceptsAbove(packetRate) ==
  packetRate > 0 /\ packetRate <= (maxFrames + 1) * One

\* A rate of zero, or one a packet cannot carry, is ignored.
Accepts(packetRate) ==
  packetRate > 0 /\ packetRate <= maxFrames * One

OnFeedback(bytes, raw) ==
  /\ phase = "running" /\ feedback
  /\ LET packetRate == Decoded(bytes, raw) * Interval
     IN  rateQ' = IF Accepts(packetRate) THEN packetRate % Word ELSE rateQ
  /\ UNCHANGED <<phase, clockRate, feedback, scheduler, acc, maxFrames, history>>

ClockNext ==
  \/ \E r \in Rates, p \in PacketRates, f \in Physical, fb \in BOOLEAN :
       StartClocks(r, p, f, fb)
  \/ PrimePacket
  \/ StartPlayback
  \/ PlanFromRate
  \/ PlanFromFeedback
  \/ \E bytes \in {0, 3, 4}, raw \in Raws : OnFeedback(bytes, raw)

ClockSpec == ClockInit /\ [][ClockNext]_clockVars

-----------------------------------------------------------------------------
(* "the long-run sum is exactly rate frames": after any number of packets   *)
(* the scheduler has planned floor(packets * rate / period) frames and the  *)
(* remainder is what is owed.  No wrap, fallback or clamp of onIso() ever   *)
(* takes or adds a frame.                                                   *)
NominalExact == nomFrames * period + remainder = nomPackets * clockRate

(* Every whole number of seconds of packets carries exactly the sample rate *)
(* and starts the next second with nothing owed.                            *)
SecondExact ==
  \A k \in 0..nomPackets :
    nomPackets = k * period => nomFrames = k * clockRate /\ remainder = 0

(* Following explicit feedback, frames planned plus the fraction kept are   *)
(* the sum of the rates reported: the packet limit never truncates a rate   *)
(* onFeedback() accepted, and a change of rate loses no fraction.           *)
FeedbackExact == fbFrames * One + acc = fbAsked
=============================================================================
