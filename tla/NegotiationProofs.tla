--------------------------- MODULE NegotiationProofs ---------------------------
(***************************************************************************)
(* What a session negotiates, for every device that keeps to its standards *)
(* and every format asked for: behind first pins the clock found is the    *)
(* source that drives the stream, and with ratios of one streams run at    *)
(* the rate asked for; the pump carries what was selected, and what the    *)
(* driver announces is true.  Then the packet clocks that startIsoPump()   *)
(* starts at that rate (module PacketClock): both are exact for every      *)
(* rate, packet rate, packet capacity and stream of feedback values, and   *)
(* no packet they plan is too large for the endpoint that was negotiated.  *)
(*                                                                         *)
(* The properties of negotiation are about the end of a start and say      *)
(* nothing of the stages before.  NegotiationInv follows a format through  *)
(* them: what was selected stays selected until the pumps (FormatInv),     *)
(* the clock entities yet to be tried and the rate of the one accepted     *)
(* (RatedInv), the ranges heard so far (InventoryInv), and the clock the   *)
(* capture shares with playback (CaptureInv).                              *)
(***************************************************************************)
EXTENDS Negotiation, PacketClock, FiniteSetTheorems, WellFoundedInduction, TLAPS

\* A format has the fields of StreamFormat that are modelled.
Shaped(f) == f = [alt |-> f.alt, ep |-> f.ep, clock |-> f.clock, resolved |-> f.resolved]

\* What selectAltSetting() returned, but for the clock, which may be promoted.
Chosen(f) ==
  /\ f.alt \in AltIndices
  /\ Selectable(Alts[f.alt], want)
  /\ f.ep = outEndpoint(Alts[f.alt])
  /\ f.resolved = playbackClock(Alts[f.alt].terminal)

\* Stages of start() after the alternate setting, and of the pumps.
Rating == {"endpoint", "endpoint4", "setting", "reading", "rated"}
Starting == {"capturePump", "pump", "streaming"}

ShapeInv ==
  /\ device \in Devices
  /\ rate \in [DOMAIN device.clockRates -> Nat]
  /\ Shaped(fmt) /\ Shaped(format)

FormatInv ==
  /\ stage = "vendor" => device.line6
  /\ stage = "selected" => ~device.line6 /\ want \in Wanted /\ Chosen(fmt)
  /\ stage \in Rating => ~device.line6 /\ want \in Wanted /\ Chosen(format)
  /\ stage \in Starting /\ ~device.line6 => want \in Wanted /\ Chosen(format)

RatedInv ==
  /\ stage \in {"endpoint", "endpoint4"} => ~device.uac2
  /\ stage \in {"setting", "reading"} => device.uac2 /\ tryIds \subseteq clocksToTry(format.clock)
  /\ stage \in {"rated"} \cup Starting /\ device.uac2 =>
       /\ format.clock \in SourceIds => rate[format.clock] = want.rate
       /\ SourceIds # {} => format.clock # 0

\* What a set of clock entities reports.
RangesOf(ids) == UNION {device.ranges[id] : id \in ids}

InventoryInv ==
  /\ device.uac2 /\ stage \in {"selected", "setting"} => inventory = {}
  /\ stage = "reading" => inventory = RangesOf(clocksToTry(format.clock) \ tryIds)
  /\ InventoryOfRequest

CaptureInv ==
  stage \in Starting /\ duplex /\ ~device.line6 =>
    /\ capture.alt \in AltIndices
    /\ \E ep \in ToSet(Alts[capture.alt].eps) : ep.in
    /\ captureClockAgrees(resolveClock(Alts[capture.alt].terminal))

\* The inductive invariant.
NegotiationInv ==
  /\ ShapeInv /\ FormatInv /\ RatedInv /\ InventoryInv /\ CaptureInv
  /\ PumpCarriesSelected /\ ListedFound

--------------------------------------------------------------------------------
(* A nonempty set of naturals has a least element.                         *)
LEMMA LeastNat ==
  ASSUME NEW T, T \subseteq Nat, T # {}
  PROVE  \E x \in T : \A y \in T : x <= y
  <1> DEFINE Below == {0..n : n \in T}
             R == StrictSubsetOrdering(Nat)
             F == FiniteSubsetsOf(Nat)
  <1>1. Below \subseteq F
    <2>1. SUFFICES ASSUME NEW n \in T PROVE 0..n \in F
      OBVIOUS
    <2>2. IsFiniteSet(0..n) /\ 0..n \subseteq Nat
      BY FS_Interval, n \in Int, 0 \in Int
    <2> QED
      BY <2>2 DEF FiniteSubsetsOf
  <1>2. Below # {}
    OBVIOUS
  <1>3. \E x \in Below : \A y \in Below : ~(<<y, x>> \in R)
    <2> HIDE DEF Below, R, F
    <2> QED
      BY <1>1, <1>2, FS_StrictSubsetOrderingWellFounded, WFMin DEF R, F
  <1>4. PICK n \in T : \A m \in T : ~(<<0..m, 0..n>> \in R)
    BY <1>3
  <1>5. ASSUME NEW m \in T, m < n PROVE FALSE
    <2>1. n \in 0..n /\ n \notin 0..m
      BY <1>5
    <2>2. 0..m \subseteq 0..n /\ 0..m # 0..n /\ 0..m \subseteq Nat /\ 0..n \subseteq Nat
      BY <1>5, <2>1
    <2> QED
      BY <1>4, <2>2 DEF StrictSubsetOrdering
  <1> QED
    BY <1>5

(* The first of a set of positions.                                        *)
LEMMA MinIs ==
  ASSUME NEW T, T \subseteq Nat, T # {}
  PROVE  Min(T) \in T /\ Least(T) \in T
  <1>1. \E x \in T : \A y \in T : x <= y
    BY LeastNat
  <1> QED
    BY <1>1 DEF Min, Least

--------------------------------------------------------------------------------
(* Clock entities.                                                         *)

(* The assumption on the devices, for the one attached.                    *)
LEMMA DeviceIs == device \in Devices => Conforms(device)
  BY NegotiationAssumption DEF NegotiationAssumption

(* An identifier leads to its entity.                                      *)
LEMMA EntityIs ==
  ASSUME device \in Devices, NEW i \in DOMAIN device.clocks
  PROVE  EntityAt(device.clocks[i].id) = i
  <1> DEFINE T == {j \in 1..Len(device.clocks) : device.clocks[j].id = device.clocks[i].id}
  <1>1. device.clocks \in Seq(Entities) /\ DOMAIN device.clocks = 1..Len(device.clocks)
    BY DeviceIs DEF Conforms
  <1>2. \A j \in DOMAIN device.clocks : device.clocks[j].id = device.clocks[i].id => j = i
    BY DeviceIs DEF Conforms
  <1>3. i \in T /\ T \subseteq Nat
    BY <1>1
  <1>4. Min(T) \in T
    BY <1>3, MinIs
  <1>5. EntityAt(device.clocks[i].id) = Min(T)
    BY <1>3 DEF EntityAt, SelectInSeq
  <1> QED
    BY <1>1, <1>2, <1>4, <1>5

(* A hop leads from an entity to the one on its first pin, if it has one.  *)
LEMMA HopIs ==
  ASSUME device \in Devices, NEW i \in DOMAIN device.clocks
  PROVE  Hop[device.clocks[i].id] =
           IF Base(device.clocks[i]) = 0 THEN device.clocks[i].id ELSE Base(device.clocks[i])
  <1>1. device.clocks[i].id \in NamedIds
    BY DEF NamedIds, ToSet, ClockIds
  <1>2. EntityAt(device.clocks[i].id) = i /\ i # 0
    BY EntityIs, DeviceIs DEF Conforms
  <1> QED
    BY <1>1, <1>2 DEF Hop

(* A link of a chain, between the entity and the pin it has selected.      *)
LEMMA LinkIs ==
  ASSUME device \in Devices, NEW a \in Straight, NEW b \in ToSet(ClockIds), Linked(a, b)
  PROVE  \E i, j \in DOMAIN device.clocks :
           /\ EntityAt(a) = i /\ EntityAt(b) = j /\ i # 0 /\ j # 0
           /\ device.clocks[i].id = a /\ device.clocks[j].id = b /\ b # 0
           /\ ~device.clocks[i].source /\ selected[i] = 1 /\ device.clocks[i].pins[1] = b
  <1>1. PICK i \in DOMAIN device.clocks :
          /\ ~device.clocks[i].source
          /\ device.clocks[i].id = a /\ device.clocks[i].pins[selected[i]] = b
    BY DEF Linked
  <1>2. PICK k \in DOMAIN device.clocks : device.clocks[k].id = a /\ selected[k] = 1
    BY DEF Straight, ClockIds
  <1>3. PICK j \in DOMAIN device.clocks : device.clocks[j].id = b
    BY DEF ToSet, ClockIds
  <1>4. k = i /\ b # 0 /\ i # 0 /\ j # 0
    BY <1>1, <1>2, <1>3, DeviceIs DEF Conforms
  <1>5. EntityAt(a) = i /\ EntityAt(b) = j
    BY <1>1, <1>3, EntityIs
  <1> QED
    BY <1>1, <1>2, <1>3, <1>4, <1>5

(* Behind a first pin, such a link is a hop.                               *)
LEMMA LinkHops ==
  ASSUME device \in Devices, NEW a \in Straight, NEW b \in ToSet(ClockIds), Linked(a, b)
  PROVE  Hop[a] = b
  <1>1. PICK i \in DOMAIN device.clocks :
          device.clocks[i].id = a /\ Base(device.clocks[i]) = b /\ b # 0
    BY LinkIs DEF Base
  <1> QED
    BY <1>1, HopIs

(* A source is where the walk stops.                                       *)
LEMMA SourceStays ==
  ASSUME device \in Devices, NEW s \in SourceIds
  PROVE  Hop[s] = s /\ s # 0 /\ s \in DOMAIN device.clockRates /\ s \in ToSet(ClockIds)
  <1>1. PICK i \in DOMAIN device.clocks : device.clocks[i].source /\ device.clocks[i].id = s
    BY DEF SourceIds, ToSet
  <1>2. s # 0 /\ s \in DOMAIN device.clockRates
    BY <1>1, DeviceIs DEF Conforms
  <1>3. s \in ToSet(ClockIds)
    BY <1>1 DEF ToSet, ClockIds
  <1> QED
    BY <1>1, <1>2, <1>3, HopIs DEF Base

(* Four hops follow every chain of first pins to its end.                  *)
LEMMA ChainResolved ==
  ASSUME device \in Devices, NEW s \in SourceIds, NEW terminal, NEW via \in SUBSET Straight,
         Drives(s, terminal, via)
  PROVE  resolveClock(terminal) = s
  <1>1. PICK n \in 0..4 : \E chain \in Chains(n) :
            /\ chain[0] = TerminalClock(terminal)
            /\ chain[n] = s
            /\ \A k \in 1..n : chain[k - 1] \in via /\ Linked(chain[k - 1], chain[k])
    BY DEF Drives
  <1>2. PICK chain \in Chains(n) :
            /\ chain[0] = TerminalClock(terminal)
            /\ chain[n] = s
            /\ \A k \in 1..n : chain[k - 1] \in via /\ Linked(chain[k - 1], chain[k])
    BY <1>1
  <1>3. \A k \in 1..n : Hop[chain[k - 1]] = chain[k]
    <2> SUFFICES ASSUME NEW k \in 1..n PROVE Hop[chain[k - 1]] = chain[k]
      OBVIOUS
    <2>1. /\ chain[k] \in ToSet(ClockIds) /\ chain[k - 1] \in Straight
          /\ Linked(chain[k - 1], chain[k])
      BY <1>2 DEF Chains
    <2> QED
      BY <2>1, LinkHops
  <1>4. Hop[s] = s
    BY SourceStays
  <1>5. n = 0 => Hop[Hop[Hop[Hop[chain[0]]]]] = s
    BY <1>2, <1>4
  <1>6. n = 1 => Hop[Hop[Hop[Hop[chain[0]]]]] = s
    BY <1>2, <1>3, <1>4
  <1>7. n = 2 => Hop[Hop[Hop[Hop[chain[0]]]]] = s
    BY <1>2, <1>3, <1>4
  <1>8. n = 3 => Hop[Hop[Hop[Hop[chain[0]]]]] = s
    BY <1>2, <1>3, <1>4
  <1>9. n = 4 => Hop[Hop[Hop[Hop[chain[0]]]]] = s
    BY <1>2, <1>3, <1>4
  <1> QED
    BY <1>2, <1>5, <1>6, <1>7, <1>8, <1>9 DEF resolveClock

(* So whatever SourceOf() finds behind first pins, selectAltSetting() and  *)
(* the capture find.                                                       *)
LEMMA SourceResolved ==
  ASSUME device \in Devices, NEW terminal, NEW via \in SUBSET Straight,
         SourceOf(terminal, via) # 0
  PROVE  /\ SourceOf(terminal, via) \in SourceIds
         /\ Drives(SourceOf(terminal, via), terminal, via)
         /\ resolveClock(terminal) = SourceOf(terminal, via)
         /\ playbackClock(terminal) = SourceOf(terminal, via)
  <1> DEFINE sources == {s \in SourceIds : Drives(s, terminal, via)}
  <1>1. SourceOf(terminal, via) \in sources
    BY DEF SourceOf
  <1>2. resolveClock(terminal) = SourceOf(terminal, via)
    BY <1>1, ChainResolved
  <1> QED
    BY <1>1, <1>2 DEF playbackClock

(* A source passes on its own rate.                                        *)
LEMMA SourcePasses ==
  ASSUME device \in Devices, NEW s \in SourceIds, NEW out
  PROVE  EntityAt(s) # 0 /\ Passed(out)[EntityAt(s)] = rate[s]
  <1>1. PICK i \in DOMAIN device.clocks : device.clocks[i].source /\ device.clocks[i].id = s
    BY DEF SourceIds, ToSet
  <1>2. EntityAt(s) = i /\ i # 0
    BY <1>1, EntityIs, DeviceIs DEF Conforms
  <1> QED
    BY <1>1, <1>2 DEF Passed

(* A link with a ratio of one passes on the rate it is given.              *)
LEMMA LinkPasses ==
  ASSUME device \in Devices, NEW a \in Straight \cap Unity, NEW b \in ToSet(ClockIds),
         Linked(a, b), NEW out, NEW hz \in Nat, out[EntityAt(b)] = hz
  PROVE  EntityAt(a) # 0 /\ Passed(out)[EntityAt(a)] = hz
  <1>1. PICK i, j \in DOMAIN device.clocks :
           /\ EntityAt(a) = i /\ EntityAt(b) = j /\ i # 0 /\ j # 0
           /\ device.clocks[i].id = a /\ device.clocks[j].id = b
           /\ ~device.clocks[i].source /\ selected[i] = 1 /\ device.clocks[i].pins[1] = b
    BY LinkIs
  <1>2. PICK k \in DOMAIN device.clocks :
          device.clocks[k].id = a /\ device.clocks[k].num = 1 /\ device.clocks[k].den = 1
    BY DEF Unity, ToSet
  <1>3. k = i
    BY <1>1, <1>2, DeviceIs DEF Conforms
  <1>4. Passed(out)[i] = (out[j] * device.clocks[i].num) \div device.clocks[i].den
    BY <1>1 DEF Passed
  <1>5. (hz * 1) \div 1 = hz
    OBVIOUS
  <1> QED
    BY <1>1, <1>2, <1>3, <1>4, <1>5

(* Through first pins and ratios of one a stream runs at the rate of the   *)
(* source that drives it.                                                  *)
LEMMA PlainRate ==
  ASSUME device \in Devices, rate \in [DOMAIN device.clockRates -> Nat],
         NEW s \in SourceIds, NEW terminal, Drives(s, terminal, Straight \cap Unity)
  PROVE  StreamRate(terminal) = rate[s]
  <1>1. PICK n \in 0..4 : \E chain \in Chains(n) :
            /\ chain[0] = TerminalClock(terminal)
            /\ chain[n] = s
            /\ \A k \in 1..n : /\ chain[k - 1] \in Straight \cap Unity
                               /\ Linked(chain[k - 1], chain[k])
    BY DEF Drives
  <1>2. PICK chain \in Chains(n) :
            /\ chain[0] = TerminalClock(terminal)
            /\ chain[n] = s
            /\ \A k \in 1..n : /\ chain[k - 1] \in Straight \cap Unity
                               /\ Linked(chain[k - 1], chain[k])
    BY <1>1
  <1> DEFINE at(k) == EntityAt(chain[k])
             o1 == Passed([i \in DOMAIN device.clocks |-> 0])
             o2 == Passed(o1)
             o3 == Passed(o2)
             o4 == Passed(o3)
             o5 == Passed(o4)
  <1>3. rate[s] \in Nat
    BY SourceStays
  <1>4. \A out : at(n) # 0 /\ Passed(out)[at(n)] = rate[s]
    BY <1>2, SourcePasses
  <1>5. \A k \in 1..n : \A out : out[at(k)] = rate[s] =>
          at(k - 1) # 0 /\ Passed(out)[at(k - 1)] = rate[s]
    <2> SUFFICES ASSUME NEW k \in 1..n, NEW out, out[at(k)] = rate[s]
                 PROVE  at(k - 1) # 0 /\ Passed(out)[at(k - 1)] = rate[s]
      OBVIOUS
    <2>1. /\ chain[k] \in ToSet(ClockIds) /\ chain[k - 1] \in Straight \cap Unity
          /\ Linked(chain[k - 1], chain[k])
      BY <1>2 DEF Chains
    <2> QED
      BY <1>3, <2>1, LinkPasses
  <1>6. StreamRate(terminal) = IF at(0) = 0 THEN 0 ELSE o5[at(0)]
    BY <1>2 DEF StreamRate
  <1>7. /\ o1[at(n)] = rate[s] /\ o2[at(n)] = rate[s] /\ o3[at(n)] = rate[s]
        /\ o4[at(n)] = rate[s] /\ o5[at(n)] = rate[s] /\ at(n) # 0
    BY <1>4
  <1>8. \A k \in 1..n :
          /\ o1[at(k)] = rate[s] => at(k - 1) # 0 /\ o2[at(k - 1)] = rate[s]
          /\ o2[at(k)] = rate[s] => at(k - 1) # 0 /\ o3[at(k - 1)] = rate[s]
          /\ o3[at(k)] = rate[s] => at(k - 1) # 0 /\ o4[at(k - 1)] = rate[s]
          /\ o4[at(k)] = rate[s] => at(k - 1) # 0 /\ o5[at(k - 1)] = rate[s]
    BY <1>5
  <1> HIDE DEF at, o1, o2, o3, o4, o5
  <1>9. n = 0 => at(0) # 0 /\ o5[at(0)] = rate[s]
    BY <1>7
  <1>10. n = 1 => at(0) # 0 /\ o5[at(0)] = rate[s]
    BY <1>7, <1>8
  <1>11. n = 2 => at(0) # 0 /\ o5[at(0)] = rate[s]
    BY <1>7, <1>8
  <1>12. n = 3 => at(0) # 0 /\ o5[at(0)] = rate[s]
    BY <1>7, <1>8
  <1>13. n = 4 => at(0) # 0 /\ o5[at(0)] = rate[s]
    BY <1>7, <1>8
  <1> QED
    BY <1>6, <1>9, <1>10, <1>11, <1>12, <1>13

--------------------------------------------------------------------------------
(* Packets.                                                                *)

(* So many frames that fit are so many frames that are found to fit.       *)
LEMMA FramesHeld ==
  ASSUME NEW n \in Nat, NEW s \in Nat \ {0}, NEW z \in Nat, n * s <= z
  PROVE  z \div s >= n /\ z \div s \in Nat
  <1>1. z \div s \in Nat /\ z % s \in 0..(s - 1) /\ z = s * (z \div s) + (z % s)
    OBVIOUS
  <1> DEFINE d == z \div s
  <1> HIDE DEF d
  <1>2. ASSUME d < n PROVE FALSE
    <2>1. d + 1 <= n /\ d \in Nat
      BY <1>1, <1>2 DEF d
    <2>2. (d + 1) * s <= n * s
      BY <2>1
    <2>3. (d + 1) * s = s * d + s
      BY <2>1
    <2>4. z < s * d + s
      BY <1>1 DEF d
    <2> QED
      BY <2>1, <2>2, <2>3, <2>4
  <1> QED
    BY <1>1, <1>2 DEF d

\* The microframes of a high-speed interval.
Microframes(n) == 2^n

(* Up to an interval of 13 they are less than a second.                    *)
LEMMA Power ==
  ASSUME NEW n \in 0..12
  PROVE  Microframes(n) \in Nat \ {0} /\ Microframes(n) <= 8000
  <1>1. /\ Microframes(0) = 1 /\ Microframes(1) = 2 /\ Microframes(2) = 4
        /\ Microframes(3) = 8 /\ Microframes(4) = 16 /\ Microframes(5) = 32
        /\ Microframes(6) = 64 /\ Microframes(7) = 128 /\ Microframes(8) = 256
        /\ Microframes(9) = 512 /\ Microframes(10) = 1024 /\ Microframes(11) = 2048
        /\ Microframes(12) = 4096
    BY DEF Microframes
  <1>2. \/ n = 0 \/ n = 1 \/ n = 2 \/ n = 3 \/ n = 4 \/ n = 5 \/ n = 6
        \/ n = 7 \/ n = 8 \/ n = 9 \/ n = 10 \/ n = 11 \/ n = 12
    OBVIOUS
  <1> QED
    BY <1>1, <1>2

(* The two packet rates agree on every interval a device may have.         *)
LEMMA RatesAgree ==
  ASSUME device \in Devices, NEW interval \in Bytes, device.highSpeed => interval <= 13
  PROVE  /\ altPacketsPerSecond(interval) = packetsPerSecondForInterval(interval)
         /\ altPacketsPerSecond(interval) \in Nat \ {0}
  <1>1. CASE device.highSpeed
    <2> DEFINE e == IF interval > 0 THEN interval - 1 ELSE 0
    <2>1. e \in 0..12
      BY <1>1 DEF Bytes, UpTo
    <2>2. Microframes(e) \in Nat \ {0} /\ Microframes(e) <= 8000
      <3> HIDE DEF e
      <3> QED
        BY <2>1, Power
    <2> DEFINE u == Microframes(e)
    <2>3. u \in Nat \ {0} /\ 1 * u <= 8000 /\ u = Microframes(e)
      BY <2>2
    <2> HIDE DEF u
    <2>4. 8000 \div u \in Nat /\ 8000 \div u >= 1
      BY <2>3, FramesHeld, 8000 \in Nat, 1 \in Nat
    <2>5. altPacketsPerSecond(interval) = 8000 \div u
      BY <1>1, <2>3 DEF altPacketsPerSecond, HostPeriods, Microframes
    <2>6. packetsPerSecondForInterval(interval) = 8000 \div u
      BY <1>1, <2>1, <2>3, <2>4
         DEF packetsPerSecondForInterval, HostPeriods, Bytes, UpTo, Microframes
    <2> QED
      BY <2>4, <2>5, <2>6
  <1>2. CASE ~device.highSpeed
    <2>1. interval > 0 => 1000 \div interval \in Nat /\ 1000 \div interval >= 1
      BY DEF Bytes, UpTo
    <2> QED
      BY <1>2, <2>1 DEF altPacketsPerSecond, packetsPerSecondForInterval, HostPeriods, Bytes, UpTo
  <1> QED
    BY <1>1, <1>2

(* The ceiling, written in two ways.                                       *)
LEMMA Ceiling ==
  ASSUME NEW hz \in Nat, NEW p \in Nat \ {0}
  PROVE  /\ (hz + p - 1) \div p = hz \div p + (IF hz % p > 0 THEN 1 ELSE 0)
         /\ (hz + p - 1) \div p \in Nat
  <1> DEFINE q == hz \div p
             r == hz % p
  <1>1. q \in Nat /\ r \in 0..(p - 1) /\ hz = p * q + r
    OBVIOUS
  <1> HIDE DEF q, r
  <1>2. CASE r = 0
    <2>1. hz + p - 1 = p * q + (p - 1) /\ p - 1 \in 0..(p - 1)
      BY <1>1, <1>2
    <2>2. (hz + p - 1) \div p = q
      BY <1>1, <2>1
    <2> QED
      BY <1>1, <1>2, <2>2 DEF q, r
  <1>3. CASE r > 0
    <2>1. hz + p - 1 = p * (q + 1) + (r - 1) /\ r - 1 \in 0..(p - 1)
      BY <1>1, <1>3
    <2>2. (hz + p - 1) \div p = q + 1
      BY <1>1, <2>1
    <2> QED
      BY <1>1, <1>3, <2>2 DEF q, r
  <1> QED
    BY <1>1, <1>2, <1>3

--------------------------------------------------------------------------------
(* Alternate settings and their endpoints.                                 *)
LEMMA AltIs ==
  ASSUME device \in Devices, NEW i \in DOMAIN Alts
  PROVE  /\ Alts[i] \in Alternates /\ i \in Nat \ {0}
         /\ DOMAIN Alts = 1..Len(Alts) /\ Len(Alts) \in Nat
         /\ Alts[i].eps \in Seq(Endpoints) /\ Len(Alts[i].eps) \in Nat
         /\ DOMAIN Alts[i].eps = 1..Len(Alts[i].eps)
         /\ \A e \in DOMAIN Alts[i].eps : Alts[i].eps[e] \in Endpoints
         /\ Alts[i].number # 0 => Alts[i].bytes > 0
         /\ Alts[i].continuous => Len(Alts[i].rates) = 2 /\ Alts[i].rates[1] <= Alts[i].rates[2]
         /\ Alts[i].rates \in Seq(Nat)
         /\ device.highSpeed => \A e \in DOMAIN Alts[i].eps : Alts[i].eps[e].interval <= 13
  <1>1. Conforms(device)
    BY DeviceIs
  <1>2. /\ Alts \in Seq(Alternates) /\ Alts[i] \in Alternates /\ i \in Nat \ {0}
        /\ DOMAIN Alts = 1..Len(Alts) /\ Len(Alts) \in Nat
    BY <1>1 DEF Conforms, Alts
  <1>3. Alts[i].eps \in Seq(Endpoints) /\ Alts[i].rates \in Seq(Nat)
    BY <1>2 DEF Alternates
  <1>4. /\ Len(Alts[i].eps) \in Nat /\ DOMAIN Alts[i].eps = 1..Len(Alts[i].eps)
        /\ \A e \in DOMAIN Alts[i].eps : Alts[i].eps[e] \in Endpoints
    BY <1>3
  <1>5. /\ Alts[i].number # 0 => Alts[i].bytes > 0
        /\ Alts[i].continuous => Len(Alts[i].rates) = 2 /\ Alts[i].rates[1] <= Alts[i].rates[2]
        /\ device.highSpeed => \A e \in DOMAIN Alts[i].eps : Alts[i].eps[e].interval <= 13
    BY <1>1 DEF Conforms, Alts
  <1> QED
    BY <1>2, <1>3, <1>4, <1>5

(* The fields the arithmetic uses.                                         *)
LEMMA FieldsAre ==
  /\ \A alt \in Alternates : alt.bytes \in Nat /\ alt.channels \in Nat /\ alt.channels <= 255
  /\ \A ep \in Endpoints : ep.interval \in Bytes /\ PacketSize(ep) \in Nat
  <1>1. ASSUME NEW alt \in Alternates
        PROVE  alt.bytes \in Nat /\ alt.channels \in Nat /\ alt.channels <= 255
    <2>1. alt.bytes \in Bytes /\ alt.channels \in Bytes
      BY DEF Alternates
    <2> QED
      BY <2>1 DEF Bytes, UpTo
  <1>2. ASSUME NEW ep \in Endpoints PROVE ep.interval \in Bytes /\ PacketSize(ep) \in Nat
    <2>1. ep.interval \in Bytes /\ ep.size \in UpTo(2047) /\ ep.extra \in UpTo(3)
      BY DEF Endpoints
    <2> QED
      BY <2>1 DEF PacketSize, UpTo
  <1> QED
    BY <1>1, <1>2

(* The first endpoint of a kind is an endpoint.                            *)
LEMMA OutIs ==
  ASSUME device \in Devices, NEW i \in DOMAIN Alts, outEndpoint(Alts[i]) # 0
  PROVE  outEndpoint(Alts[i]) \in DOMAIN Alts[i].eps
  <1> DEFINE eps == Alts[i].eps
             T == {e \in 1..Len(eps) : ~eps[e].in /\ eps[e].usage = "data"}
  <1>1. DOMAIN eps = 1..Len(eps)
    BY AltIs
  <1>2. outEndpoint(Alts[i]) = IF T # {} THEN Min(T) ELSE 0
    BY DEF outEndpoint, SelectInSeq
  <1>3. T # {} /\ T \subseteq Nat /\ T \subseteq DOMAIN eps
    BY <1>1, <1>2
  <1> HIDE DEF T
  <1>4. Min(T) \in T
    BY <1>3, MinIs
  <1> QED
    BY <1>2, <1>3, <1>4

(* What libusb finds for an address is a packet size of that address.      *)
LEMMA MaxIsoIs ==
  ASSUME device \in Devices, NEW a, NEW i \in DOMAIN Alts, NEW e \in DOMAIN Alts[i].eps,
         Alts[i].eps[e].address = a
  PROVE  \E j \in DOMAIN Alts : \E ep \in ToSet(Alts[j].eps) :
           ep.address = a /\ maxIsoPacketSize(a) = PacketSize(ep) /\ ep \in Endpoints
  <1> DEFINE Has(k) == \E x \in DOMAIN Alts[k].eps : Alts[k].eps[x].address = a
             J == {k \in DOMAIN Alts : Has(k)}
             j == Least(J)
             T == {x \in 1..Len(Alts[j].eps) : Alts[j].eps[x].address = a}
  <1>1. i \in J /\ J \subseteq Nat /\ J \subseteq DOMAIN Alts
    BY AltIs
  <1>2. j \in J
    <2> HIDE DEF J
    <2> QED
      BY <1>1, MinIs
  <1>3. j \in DOMAIN Alts /\ Has(j)
    BY <1>2
  <1>4. maxIsoPacketSize(a) = PacketSize(Alts[j].eps[IF T # {} THEN Min(T) ELSE 0])
    BY DEF maxIsoPacketSize, SelectInSeq
  <1> HIDE DEF j
  <1>5. /\ DOMAIN Alts[j].eps = 1..Len(Alts[j].eps)
        /\ \A x \in DOMAIN Alts[j].eps : Alts[j].eps[x] \in Endpoints
    BY <1>3, AltIs
  <1>6. T # {} /\ T \subseteq Nat
    BY <1>3, <1>5
  <1>7. Min(T) \in T
    <2> HIDE DEF T
    <2> QED
      BY <1>6, MinIs
  <1>8. Alts[j].eps[Min(T)] \in ToSet(Alts[j].eps) /\ Alts[j].eps[Min(T)] \in Endpoints
        /\ Alts[j].eps[Min(T)].address = a
    BY <1>5, <1>7 DEF ToSet
  <1> HIDE DEF T
  <1> QED
    BY <1>3, <1>4, <1>6, <1>8

(* The arithmetic of a selected format is about positive numbers.          *)
LEMMA ChosenIs ==
  ASSUME device \in Devices, want \in Wanted, NEW f, Chosen(f)
  PROVE  /\ f.alt \in DOMAIN Alts /\ f.ep \in DOMAIN Alts[f.alt].eps
         /\ Alts[f.alt].eps[f.ep] \in Endpoints
         /\ want.rate \in Nat /\ stride(Alts[f.alt]) \in Nat \ {0}
         /\ altFits(Alts[f.alt], Alts[f.alt].eps[f.ep], want.rate)
         /\ packetsPerSecondForInterval(Alts[f.alt].eps[f.ep].interval) \in Nat \ {0}
         /\ altPacketsPerSecond(Alts[f.alt].eps[f.ep].interval)
              = packetsPerSecondForInterval(Alts[f.alt].eps[f.ep].interval)
  <1> DEFINE alt == Alts[f.alt]
             ep == alt.eps[f.ep]
  <1>1. f.alt \in DOMAIN Alts /\ alt.number # 0 /\ f.ep = outEndpoint(alt) /\ Selectable(alt, want)
    BY DEF Chosen, AltIndices
  <1>2. f.ep \in DOMAIN alt.eps
    BY <1>1, OutIs DEF Selectable
  <1>3. /\ alt \in Alternates /\ ep \in Endpoints /\ alt.bytes > 0
        /\ (device.highSpeed => ep.interval <= 13)
    BY <1>1, <1>2, AltIs
  <1>4. want.rate \in Nat /\ want.channels \in Nat /\ want.channels > 0
    BY NegotiationAssumption DEF NegotiationAssumption
  <1>5. alt.channels = want.channels /\ altFits(alt, ep, want.rate)
    BY <1>1 DEF Selectable, altMatches, sameDepth
  <1>6. alt.bytes \in Nat /\ alt.channels \in Nat /\ alt.channels > 0
    BY <1>3, <1>4, <1>5, FieldsAre
  <1>7. stride(alt) \in Nat \ {0}
    BY <1>3, <1>6 DEF stride
  <1>8. /\ packetsPerSecondForInterval(ep.interval) \in Nat \ {0}
        /\ altPacketsPerSecond(ep.interval) = packetsPerSecondForInterval(ep.interval)
    BY <1>3, FieldsAre, RatesAgree
  <1> QED
    BY <1>1, <1>2, <1>3, <1>4, <1>5, <1>7, <1>8

(* A selected alternate that the pump refuses shares its endpoint address  *)
(* with a smaller endpoint.                                                *)
LEMMA RefusedShares ==
  ASSUME device \in Devices, want \in Wanted, NEW f, Chosen(f), ~pumpCarries(f, want.rate)
  PROVE  \E i \in DOMAIN Alts : \E ep \in ToSet(Alts[i].eps) :
           /\ ep.address = Alts[f.alt].eps[f.ep].address
           /\ PacketSize(ep) < PacketSize(Alts[f.alt].eps[f.ep])
  <1> DEFINE alt == Alts[f.alt]
             ep == alt.eps[f.ep]
             p == packetsPerSecondForInterval(ep.interval)
             hz == want.rate
             n == (hz + p - 1) \div p
             found == maxIsoPacketSize(ep.address)
             s == stride(alt)
  <1>1. /\ f.alt \in DOMAIN Alts /\ f.ep \in DOMAIN alt.eps /\ ep \in Endpoints
        /\ hz \in Nat /\ s \in Nat \ {0} /\ p \in Nat \ {0}
        /\ altFits(alt, ep, hz) /\ altPacketsPerSecond(ep.interval) = p
    BY ChosenIs
  <1>2. n * s <= PacketSize(ep)
    BY <1>1 DEF altFits
  <1> HIDE DEF alt, ep, p, hz, s, n
  <1>3. n = hz \div p + (IF hz % p > 0 THEN 1 ELSE 0) /\ n \in Nat
    BY <1>1, Ceiling DEF n
  <1>4. ~(found \div s >= n)
    <2>1. pumpCarries(f, want.rate) = (found \div s >= hz \div p + (IF hz % p > 0 THEN 1 ELSE 0))
      BY DEF pumpCarries, alt, ep, p, hz, s
    <2> QED
      BY <1>3, <2>1
  <1>5. PICK i \in DOMAIN Alts : \E x \in ToSet(Alts[i].eps) :
            x.address = ep.address /\ found = PacketSize(x) /\ x \in Endpoints
    BY <1>1, MaxIsoIs DEF alt, ep
  <1>6. PICK x \in ToSet(Alts[i].eps) :
          x.address = ep.address /\ found = PacketSize(x) /\ x \in Endpoints
    BY <1>5
  <1>7. PacketSize(x) \in Nat /\ PacketSize(ep) \in Nat
    BY <1>1, <1>6, FieldsAre
  <1> HIDE DEF found
  <1>8. ~(n * s <= PacketSize(x))
    BY <1>1, <1>3, <1>4, <1>6, <1>7, FramesHeld
  <1>9. n * s \in Nat
    BY <1>1, <1>3
  <1>10. PacketSize(x) < PacketSize(ep)
    BY <1>2, <1>7, <1>8, <1>9
  <1> QED
    BY <1>6, <1>10 DEF alt, ep

(* What selectAltSetting() returns when it finds an alternate.             *)
LEMMA SelectionIs ==
  ASSUME device \in Devices, NEW wish, selectAltSetting(wish) # noFormat
  PROVE  /\ selectAltSetting(wish).alt \in AltIndices
         /\ Selectable(Alts[selectAltSetting(wish).alt], wish)
         /\ selectAltSetting(wish).ep = outEndpoint(Alts[selectAltSetting(wish).alt])
         /\ selectAltSetting(wish).resolved =
              playbackClock(Alts[selectAltSetting(wish).alt].terminal)
  <1> DEFINE T == {i \in 1..Len(Alts) : Alts[i].number # 0 /\ Selectable(Alts[i], wish)}
             first == IF T # {} THEN Min(T) ELSE 0
             f == selectAltSetting(wish)
  <1>1. f = IF ~device.control \/ first = 0 THEN noFormat
            ELSE [alt |-> first, ep |-> outEndpoint(Alts[first]),
                  clock |-> playbackClock(Alts[first].terminal),
                  resolved |-> playbackClock(Alts[first].terminal)]
    BY DEF selectAltSetting, SelectInSeq
  <1>2. f # noFormat
    OBVIOUS
  <1> HIDE DEF f
  <1>3. Alts \in Seq(Alternates) /\ DOMAIN Alts = 1..Len(Alts) /\ Len(Alts) \in Nat
    BY DeviceIs DEF Conforms, Alts
  <1>4. T # {} /\ T \subseteq Nat
    BY <1>1, <1>2, <1>3
  <1>5. Min(T) \in T
    <2> HIDE DEF T
    <2> QED
      BY <1>4, MinIs
  <1>6. /\ f.alt = Min(T) /\ f.ep = outEndpoint(Alts[f.alt])
        /\ f.resolved = playbackClock(Alts[f.alt].terminal)
    <2> HIDE DEF T
    <2> QED
      BY <1>1, <1>2, <1>4
  <1>7. f.alt \in AltIndices /\ Selectable(Alts[f.alt], wish)
    BY <1>5, <1>3, <1>6 DEF AltIndices
  <1> QED
    BY <1>6, <1>7 DEF f

(* It has the fields of a format.                                          *)
LEMMA SelectionShaped == ASSUME NEW wish PROVE Shaped(selectAltSetting(wish))
  BY DEF Shaped, selectAltSetting, noFormat

(* What a device tells does not change while it is attached.               *)
LEMMA Steady ==
  ASSUME device' = device
  PROVE  /\ Alts' = Alts /\ AltIndices' = AltIndices /\ SourceIds' = SourceIds
         /\ \A id : (clocksToTry(id))' = clocksToTry(id)
         /\ \A ids : (RangesOf(ids))' = RangesOf(ids)
         /\ \A alt, wish : (altMatches(alt, wish))' = altMatches(alt, wish)
         /\ \A alt, wish : (Selectable(alt, wish))' = Selectable(alt, wish)
         /\ \A t : (resolveClock(t))' = resolveClock(t)
         /\ \A t : (playbackClock(t))' = playbackClock(t)
         /\ \A f : (Findable(f))' = Findable(f)
  <1>1. Alts' = Alts /\ AltIndices' = AltIndices /\ SourceIds' = SourceIds
    BY DEF Alts, AltIndices, SourceIds
  <1>2. ASSUME NEW id PROVE (clocksToTry(id))' = clocksToTry(id)
    BY DEF clocksToTry, ClockIds, ToSet
  <1>3. ASSUME NEW ids PROVE (RangesOf(ids))' = RangesOf(ids)
    BY DEF RangesOf
  <1>4. ASSUME NEW alt, NEW wish PROVE (altMatches(alt, wish))' = altMatches(alt, wish)
    BY DEF altMatches
  <1>5. ASSUME NEW alt, NEW wish PROVE (Selectable(alt, wish))' = Selectable(alt, wish)
    BY DEF Selectable, altMatches, altFits, altPacketsPerSecond, HostPeriods
  <1>6. ASSUME NEW t PROVE (resolveClock(t))' = resolveClock(t)
    BY DEF resolveClock, Hop, Base, NamedIds, EntityAt, ClockIds, ToSet, TerminalClock,
           SelectInSeq, Min
  <1>7. ASSUME NEW t PROVE (playbackClock(t))' = playbackClock(t)
    BY DEF playbackClock, resolveClock, Hop, Base, NamedIds, EntityAt, ClockIds, ToSet,
           TerminalClock, SelectInSeq, Min
  <1>8. ASSUME NEW f PROVE (Findable(f))' = Findable(f)
    <2>1. \A alt : /\ (Offers(alt, f))' = Offers(alt, f)
                   /\ (Carried(alt, f.rate))' = Carried(alt, f.rate)
      BY DEF Offers, Carried, altFits, altPacketsPerSecond, HostPeriods
    <2>2. (selectAltSetting(f))' = selectAltSetting(f)
      <3> DEFINE T == {i \in 1..Len(Alts) : Alts[i].number # 0 /\ Selectable(Alts[i], f)}
                 first == IF T # {} THEN Min(T) ELSE 0
                 sel == IF ~device.control \/ first = 0 THEN noFormat
                        ELSE [alt |-> first, ep |-> outEndpoint(Alts[first]),
                              clock |-> playbackClock(Alts[first].terminal),
                              resolved |-> playbackClock(Alts[first].terminal)]
      <3>1. selectAltSetting(f) = sel /\ selectAltSetting(f)' = sel'
        BY DEF selectAltSetting, SelectInSeq
      <3>2. T' = T
        BY <1>1, <1>5
      <3> HIDE DEF T
      <3>3. first' = first
        BY <3>2
      <3> HIDE DEF first
      <3>4. sel' = sel
        BY <1>1, <1>7, <3>3
      <3> QED
        BY <3>1, <3>4
    <2> QED
      BY <1>1, <2>1, <2>2 DEF Findable
  <1> QED
    BY <1>1, <1>2, <1>3, <1>4, <1>5, <1>6, <1>7, <1>8

(* An alternate that offers a format matches it.                           *)
LEMMA OfferMatches ==
  ASSUME device \in Devices, NEW i \in AltIndices, NEW f, Offers(Alts[i], f)
  PROVE  altMatches(Alts[i], f)
  <1> DEFINE hz == f.rate
  <1>1. i \in DOMAIN Alts
    BY DEF AltIndices
  <1>2. /\ f.bits = Alts[i].bits /\ f.channels = Alts[i].channels /\ f.bytes = Alts[i].bytes
        /\ device.uac2 \/ hz \in ToSet(Alts[i].rates)
    BY DEF Offers, listing
  <1> HIDE DEF hz
  <1>3. hz \in ToSet(Alts[i].rates) => rateAdvertised(Alts[i], hz)
    <2> SUFFICES ASSUME hz \in ToSet(Alts[i].rates), Alts[i].continuous
                 PROVE  Alts[i].rates[1] <= hz /\ hz <= Alts[i].rates[2]
      BY DEF rateAdvertised
    <2>1. /\ Len(Alts[i].rates) = 2 /\ Alts[i].rates[1] <= Alts[i].rates[2]
          /\ Alts[i].rates \in Seq(Nat)
      BY <1>1, AltIs
    <2>2. PICK k \in DOMAIN Alts[i].rates : hz = Alts[i].rates[k]
      BY DEF ToSet
    <2>3. k \in {1, 2} /\ Alts[i].rates[1] \in Nat /\ Alts[i].rates[2] \in Nat
      BY <2>1
    <2> QED
      BY <2>1, <2>2, <2>3
  <1> QED
    BY <1>2, <1>3 DEF altMatches, sameDepth, hz

(* selectAltSetting() finds an alternate if there is one.                  *)
LEMMA SelectionFound ==
  ASSUME device \in Devices, device.control, NEW wish, NEW i \in AltIndices,
         Selectable(Alts[i], wish)
  PROVE  selectAltSetting(wish) # noFormat
  <1> DEFINE T == {k \in 1..Len(Alts) : Alts[k].number # 0 /\ Selectable(Alts[k], wish)}
             first == IF T # {} THEN Min(T) ELSE 0
             found == [alt |-> first, ep |-> outEndpoint(Alts[first]),
                       clock |-> playbackClock(Alts[first].terminal),
                       resolved |-> playbackClock(Alts[first].terminal)]
  <1>1. selectAltSetting(wish) = IF ~device.control \/ first = 0 THEN noFormat ELSE found
    BY DEF selectAltSetting, SelectInSeq
  <1>2. i \in T /\ T \subseteq Nat \ {0}
    BY AltIs DEF AltIndices
  <1> HIDE DEF T
  <1>3. first # 0
    BY <1>2, MinIs
  <1>4. found.alt = first /\ noFormat.alt = 0
    BY DEF noFormat
  <1> HIDE DEF found
  <1> QED
    BY <1>1, <1>3, <1>4

(* Every listed format is offered, and found where it can be carried.      *)
LEMMA ListingFound ==
  ASSUME device \in Devices, NEW answering, NEW f \in enumerateFormats(answering), ~device.line6
  PROVE  Findable(f)
  <1>1. PICK i \in AltIndices :
          /\ Listable(Alts[i])
          /\ \E hz : f = listing(Alts[i], hz) /\ (device.uac2 \/ hz \in ToSet(Alts[i].rates))
    BY DEF enumerateFormats
  <1>2. PICK hz : f = listing(Alts[i], hz) /\ (device.uac2 \/ hz \in ToSet(Alts[i].rates))
    BY <1>1
  <1>3. Offers(Alts[i], f)
    BY <1>1, <1>2 DEF Offers, listing
  <1>4. ASSUME device.control, NEW k \in AltIndices, Offers(Alts[k], f), Carried(Alts[k], f.rate)
        PROVE  selectAltSetting(f) # noFormat
    <2>1. Selectable(Alts[k], f)
      BY <1>4, OfferMatches DEF Selectable, Offers, Listable, Carried
    <2> QED
      BY <1>4, <2>1, SelectionFound
  <1> QED
    BY <1>3, <1>4 DEF Findable

(* The rates that the walk of selectAltSetting() collects.                 *)
LEMMA AdvertisedIs ==
  ASSUME device \in Devices, NEW wish
  PROVE  /\ device.uac2 => advertisedRates(wish) = {}
         /\ \A r \in advertisedRates(wish) : \E i \in AltIndices :
              /\ sameDepth(Alts[i], wish)
              /\ {r.min, r.max} \subseteq ToSet(Alts[i].rates)
              /\ Alts[i].continuous \/ r.min = r.max
  <1>1. device.uac2 => advertisedRates(wish) = {}
    BY DEF advertisedRates
  <1>2. ASSUME NEW r \in advertisedRates(wish)
        PROVE  \E i \in AltIndices :
              /\ sameDepth(Alts[i], wish)
              /\ {r.min, r.max} \subseteq ToSet(Alts[i].rates)
              /\ Alts[i].continuous \/ r.min = r.max
    <2>1. PICK i \in AltIndices :
            /\ sameDepth(Alts[i], wish)
            /\ r \in IF Alts[i].continuous
                     THEN {[min |-> Alts[i].rates[1], max |-> Alts[i].rates[2], res |-> 0]}
                     ELSE {[min |-> hz, max |-> hz, res |-> 0] : hz \in ToSet(Alts[i].rates)}
      BY <1>2 DEF advertisedRates
    <2>2. i \in DOMAIN Alts
      BY DEF AltIndices
    <2>3. CASE Alts[i].continuous
      <3>1. Len(Alts[i].rates) = 2 /\ Alts[i].rates \in Seq(Nat)
        BY <2>2, <2>3, AltIs
      <3>2. {Alts[i].rates[1], Alts[i].rates[2]} \subseteq ToSet(Alts[i].rates)
        BY <3>1 DEF ToSet
      <3>3. r.min = Alts[i].rates[1] /\ r.max = Alts[i].rates[2]
        BY <2>1, <2>3
      <3> QED
        BY <2>1, <2>3, <3>2, <3>3
    <2>4. CASE ~Alts[i].continuous
      BY <2>1, <2>4
    <2> QED
      BY <2>3, <2>4
  <1> QED
    BY <1>1, <1>2

(* captureChannelCount() is the most channels any input has.               *)
LEMMA MostChannels ==
  ASSUME device \in Devices, ~device.line6, NEW i \in AltIndices,
         \E ep \in ToSet(Alts[i].eps) : ep.in
  PROVE  Alts[i].channels <= captureChannelCount
  <1> DEFINE inputs == {0} \cup {Alts[j].channels : j \in
                          {k \in AltIndices : \E ep \in ToSet(Alts[k].eps) : ep.in}}
             T == {255 - n : n \in inputs}
  <1>1. \A n \in inputs : n \in Nat /\ n <= 255
    BY AltIs, FieldsAre DEF AltIndices
  <1>2. Alts[i].channels \in inputs
    OBVIOUS
  <1>3. captureChannelCount = CHOOSE n \in inputs : \A m \in inputs : m <= n
    BY DEF captureChannelCount
  <1> HIDE DEF inputs
  <1>4. T \subseteq Nat /\ T # {}
    BY <1>1, <1>2
  <1>5. PICK x \in T : \A y \in T : x <= y
    BY <1>4, LeastNat
  <1>6. PICK n \in inputs : x = 255 - n
    BY <1>5
  <1>7. \A m \in inputs : m <= n
    <2> SUFFICES ASSUME NEW m \in inputs PROVE m <= n
      OBVIOUS
    <2>1. x <= 255 - m
      BY <1>5
    <2> QED
      BY <1>1, <1>6, <2>1
  <1>8. \A m \in inputs : m <= captureChannelCount
    BY <1>3, <1>6, <1>7
  <1> QED
    BY <1>2, <1>8

--------------------------------------------------------------------------------
(* The steps of a start.                                                   *)

(* Formats are listed before anything is negotiated.                       *)
LEMMA EnumerateFormatsStep ==
  ASSUME NegotiationInv, EnumerateFormats
  PROVE  NegotiationInv'
  <1>0. device' = device /\ device \in Devices
    BY DEF NegotiationInv, ShapeInv, EnumerateFormats
  <1>1. ShapeInv'
    BY <1>0 DEF NegotiationInv, ShapeInv, Shaped, EnumerateFormats
  <1>2. FormatInv'
    BY <1>0, Steady DEF NegotiationInv, FormatInv, Chosen, Rating, Starting, EnumerateFormats
  <1>3. RatedInv'
    BY <1>0, Steady DEF NegotiationInv, RatedInv, Rating, Starting, EnumerateFormats
  <1>4. InventoryInv'
    BY <1>0, Steady
       DEF NegotiationInv, InventoryInv, InventoryOfRequest, RangesOf, sameDepth, EnumerateFormats
  <1>5. CaptureInv'
    BY <1>0, Steady DEF NegotiationInv, CaptureInv, captureClockAgrees, Starting, EnumerateFormats
  <1>6. PumpCarriesSelected'
    BY <1>0, Steady DEF NegotiationInv, PumpCarriesSelected, EnumerateFormats
  <1>7. ListedFound'
    <2> SUFFICES ASSUME NEW f \in listed', ~device.line6
                 PROVE  Findable(f)
      BY <1>0, Steady DEF ListedFound
    <2>1. PICK answering \in SUBSET SourceIds : listed' = enumerateFormats(answering)
      BY DEF EnumerateFormats
    <2> QED
      BY <1>0, <2>1, ListingFound
  <1> QED
    BY <1>1, <1>2, <1>3, <1>4, <1>5, <1>6, <1>7 DEF NegotiationInv

(* selectAltSetting() starts from an empty inventory.                      *)
LEMMA SelectStep ==
  ASSUME NegotiationInv, NEW wish \in Wanted, NEW both \in BOOLEAN, Select(wish, both)
  PROVE  NegotiationInv'
  <1>0. device' = device /\ device \in Devices
    BY DEF NegotiationInv, ShapeInv, Select
  <1>1. ShapeInv'
    <2>1. Shaped(fmt)'
      BY SelectionShaped DEF Select, Shaped
    <2> QED
      BY <1>0, <2>1 DEF NegotiationInv, ShapeInv, Shaped, Select
  <1>2. FormatInv'
    <2> SUFFICES ASSUME stage' = "selected" PROVE ~device.line6 /\ Chosen(fmt)'
      BY <1>0 DEF FormatInv, Rating, Starting, Select
    <2>1. selectAltSetting(wish) # noFormat /\ fmt' = selectAltSetting(wish) /\ want' = wish
      BY DEF Select
    <2>2. /\ fmt'.alt \in AltIndices /\ Selectable(Alts[fmt'.alt], wish)
          /\ fmt'.ep = outEndpoint(Alts[fmt'.alt])
          /\ fmt'.resolved = playbackClock(Alts[fmt'.alt].terminal)
      BY <1>0, <2>1, SelectionIs
    <2> QED
      BY <1>0, <2>1, <2>2, Steady DEF Chosen, Select
  <1>3. RatedInv'
    BY <1>0, Steady DEF NegotiationInv, RatedInv, Rating, Starting, Select
  <1>4. InventoryInv'
    <2>1. /\ device.uac2 => inventory' = {}
          /\ \A r \in inventory' : \E i \in AltIndices :
               /\ sameDepth(Alts[i], want')
               /\ {r.min, r.max} \subseteq ToSet(Alts[i].rates)
               /\ Alts[i].continuous \/ r.min = r.max
      BY <1>0, AdvertisedIs DEF Select
    <2>2. stage' \in {"selected", "noMatch"}
      BY DEF Select
    <2> QED
      BY <1>0, <2>1, <2>2, Steady DEF InventoryInv, InventoryOfRequest, sameDepth
  <1>5. CaptureInv'
    BY <1>0, Steady DEF NegotiationInv, CaptureInv, captureClockAgrees, Starting, Select
  <1>6. PumpCarriesSelected'
    BY <1>0, Steady DEF NegotiationInv, PumpCarriesSelected, Select
  <1>7. ListedFound'
    BY <1>0, Steady DEF NegotiationInv, ListedFound, Select
  <1> QED
    BY <1>1, <1>2, <1>3, <1>4, <1>5, <1>6, <1>7 DEF NegotiationInv

(* A refusal ends the start.                                               *)
LEMMA RefusedStep ==
  ASSUME NegotiationInv, Refused
  PROVE  NegotiationInv'
  <1>0. device' = device /\ device \in Devices
    BY DEF NegotiationInv, ShapeInv, Refused
  <1>1. ShapeInv'
    BY <1>0 DEF NegotiationInv, ShapeInv, Shaped, Refused
  <1>2. FormatInv'
    BY <1>0, Steady DEF NegotiationInv, FormatInv, Chosen, Rating, Starting, Refused
  <1>3. RatedInv'
    BY <1>0, Steady DEF NegotiationInv, RatedInv, Rating, Starting, Refused
  <1>4. InventoryInv'
    BY <1>0, Steady
       DEF NegotiationInv, InventoryInv, InventoryOfRequest, RangesOf, sameDepth, Refused
  <1>5. CaptureInv'
    BY <1>0, Steady DEF NegotiationInv, CaptureInv, captureClockAgrees, Starting, Refused
  <1>6. PumpCarriesSelected'
    BY <1>0, Steady DEF NegotiationInv, PumpCarriesSelected, Refused
  <1>7. ListedFound'
    BY <1>0, Steady DEF NegotiationInv, ListedFound, Refused
  <1> QED
    BY <1>1, <1>2, <1>3, <1>4, <1>5, <1>6, <1>7 DEF NegotiationInv

(* A device with a source has a clock to try.                              *)
LEMMA AltSetStep ==
  ASSUME NegotiationInv, AltSet
  PROVE  NegotiationInv'
  <1>0. device' = device /\ device \in Devices
    BY DEF NegotiationInv, ShapeInv, AltSet
  <1>1. ShapeInv'
    BY <1>0 DEF NegotiationInv, ShapeInv, Shaped, AltSet
  <1>2. FormatInv'
    BY <1>0, Steady DEF NegotiationInv, FormatInv, Chosen, Rating, Starting, AltSet
  <1>3. RatedInv'
    <2>1. CASE ~device.uac2
      BY <1>0, <2>1 DEF RatedInv, Starting, AltSet
    <2>2. CASE device.uac2 /\ clocksToTry(fmt.clock) # {}
      BY <1>0, <2>2, Steady DEF RatedInv, Starting, AltSet
    <2>3. CASE device.uac2 /\ clocksToTry(fmt.clock) = {}
      <3>1. SourceIds = {}
        BY <1>0, <2>3, SourceStays DEF clocksToTry
      <3> QED
        BY <1>0, <2>3, <3>1, Steady DEF RatedInv, Starting, AltSet
    <2> QED
      BY <2>1, <2>2, <2>3
  <1>4. InventoryInv'
    BY <1>0, Steady
       DEF NegotiationInv, InventoryInv, InventoryOfRequest, RangesOf, sameDepth, AltSet
  <1>5. CaptureInv'
    BY <1>0, Steady DEF NegotiationInv, CaptureInv, captureClockAgrees, Starting, AltSet
  <1>6. PumpCarriesSelected'
    BY <1>0, Steady DEF NegotiationInv, PumpCarriesSelected, AltSet
  <1>7. ListedFound'
    BY <1>0, Steady DEF NegotiationInv, ListedFound, AltSet
  <1> QED
    BY <1>1, <1>2, <1>3, <1>4, <1>5, <1>6, <1>7 DEF NegotiationInv

(* An entity that took the rate has it, and is the clock now.              *)
LEMMA SetCurStep ==
  ASSUME NegotiationInv, NEW id \in tryIds, SetCur(id)
  PROVE  NegotiationInv'
  <1>0. device' = device /\ device \in Devices
    BY DEF NegotiationInv, ShapeInv, SetCur
  <1>1. ShapeInv'
    <2>1. want.rate \in Nat
      BY NegotiationAssumption DEF NegotiationAssumption, NegotiationInv, FormatInv, Rating, SetCur
    <2>2. rate' \in [DOMAIN device.clockRates -> Nat]
      BY <2>1 DEF NegotiationInv, ShapeInv, SetCur
    <2>3. Shaped(fmt)' /\ Shaped(format)'
      BY DEF NegotiationInv, ShapeInv, Shaped, SetCur
    <2> QED
      BY <1>0, <2>2, <2>3 DEF ShapeInv
  <1>2. FormatInv'
    BY <1>0, Steady DEF NegotiationInv, FormatInv, Chosen, Rating, Starting, SetCur
  <1>3. RatedInv'
    <2>1. id # 0 /\ format'.clock = id /\ stage' = "rated" /\ device.uac2
      BY DEF NegotiationInv, ShapeInv, Shaped, RatedInv, clocksToTry, SetCur
    <2>2. id \in SourceIds => rate'[id] = want'.rate
      BY <1>0, SourceStays DEF NegotiationInv, ShapeInv, SetCur
    <2> QED
      BY <1>0, <2>1, <2>2, Steady DEF RatedInv
  <1>4. InventoryInv'
    <2>1. stage' = "rated" /\ device.uac2
      BY DEF NegotiationInv, RatedInv, SetCur
    <2> QED
      BY <1>0, <2>1 DEF InventoryInv, InventoryOfRequest
  <1>5. CaptureInv'
    BY <1>0, Steady DEF NegotiationInv, CaptureInv, captureClockAgrees, Starting, SetCur
  <1>6. PumpCarriesSelected'
    BY <1>0, Steady DEF NegotiationInv, PumpCarriesSelected, SetCur
  <1>7. ListedFound'
    BY <1>0, Steady DEF NegotiationInv, ListedFound, SetCur
  <1> QED
    BY <1>1, <1>2, <1>3, <1>4, <1>5, <1>6, <1>7 DEF NegotiationInv

(* When all have refused, all are read.                                    *)
LEMMA SetCurFailsStep ==
  ASSUME NegotiationInv, NEW id \in tryIds, SetCurFails(id)
  PROVE  NegotiationInv'
  <1>0. device' = device /\ device \in Devices
    BY DEF NegotiationInv, ShapeInv, SetCurFails
  <1>1. ShapeInv'
    BY <1>0 DEF NegotiationInv, ShapeInv, Shaped, SetCurFails
  <1>2. FormatInv'
    BY <1>0, Steady DEF NegotiationInv, FormatInv, Chosen, Rating, Starting, SetCurFails
  <1>3. RatedInv'
    BY <1>0, Steady DEF NegotiationInv, RatedInv, Rating, Starting, SetCurFails
  <1>4. InventoryInv'
    <2>1. device.uac2 /\ inventory' = {} /\ format' = format
      BY DEF NegotiationInv, RatedInv, InventoryInv, SetCurFails
    <2>2. \/ stage' = "setting"
          \/ stage' = "reading" /\ tryIds' = clocksToTry(format.clock)
      BY DEF SetCurFails
    <2> QED
      BY <1>0, <2>1, <2>2, Steady DEF InventoryInv, InventoryOfRequest, RangesOf
  <1>5. CaptureInv'
    BY <1>0, Steady DEF NegotiationInv, CaptureInv, captureClockAgrees, Starting, SetCurFails
  <1>6. PumpCarriesSelected'
    BY <1>0, Steady DEF NegotiationInv, PumpCarriesSelected, SetCurFails
  <1>7. ListedFound'
    BY <1>0, Steady DEF NegotiationInv, ListedFound, SetCurFails
  <1> QED
    BY <1>1, <1>2, <1>3, <1>4, <1>5, <1>6, <1>7 DEF NegotiationInv

(* Every entity read adds its ranges; one at the rate is accepted.         *)
LEMMA GetCurStep ==
  ASSUME NegotiationInv, NEW id \in tryIds, NEW ok \in BOOLEAN, GetCur(id, ok)
  PROVE  NegotiationInv'
  <1>0. device' = device /\ device \in Devices
    BY DEF NegotiationInv, ShapeInv, GetCur
  <1>1. ShapeInv'
    BY <1>0 DEF NegotiationInv, ShapeInv, Shaped, GetCur
  <1>2. FormatInv'
    BY <1>0, Steady DEF NegotiationInv, FormatInv, Chosen, Rating, Starting, GetCur
  <1>3. RatedInv'
    <2> DEFINE fixed == ok /\ rate[id] = want.rate
    <2>1. device.uac2 /\ id # 0 /\ tryIds \subseteq clocksToTry(format.clock)
      BY DEF NegotiationInv, RatedInv, clocksToTry, GetCur
    <2>2. CASE fixed
      <3>1. stage' = "rated" /\ format'.clock = id /\ rate'[id] = want'.rate
        BY <2>2 DEF NegotiationInv, ShapeInv, Shaped, GetCur
      <3> QED
        BY <1>0, <2>1, <3>1, Steady DEF RatedInv
    <2>3. CASE ~fixed
      <3>1. stage' \in {"reading", "noRate"} /\ format' = format /\ tryIds' \subseteq tryIds
        BY <2>3 DEF GetCur
      <3> QED
        BY <1>0, <2>1, <3>1, Steady DEF RatedInv, Starting
    <2> QED
      BY <2>2, <2>3
  <1>4. InventoryInv'
    <2> DEFINE fixed == ok /\ rate[id] = want.rate
               tried == clocksToTry(format.clock)
    <2>1. /\ device.uac2 /\ tryIds \subseteq tried
          /\ inventory = RangesOf(tried \ tryIds)
      BY DEF NegotiationInv, RatedInv, InventoryInv, GetCur
    <2>2. inventory' = RangesOf(tried \ (tryIds \ {id}))
      BY <2>1 DEF GetCur, captureRangeForClock, RangesOf
    <2>3. CASE fixed
      <3>1. stage' = "rated"
        BY <2>3 DEF GetCur
      <3> QED
        BY <1>0, <2>1, <3>1 DEF InventoryInv, InventoryOfRequest
    <2>4. CASE ~fixed
      <3>1. /\ format' = format /\ tryIds' = tryIds \ {id}
            /\ stage' = IF tryIds' = {} THEN "noRate" ELSE "reading"
        BY <2>4 DEF GetCur
      <3>2. inventory' = RangesOf(tried \ tryIds')
        BY <2>2, <3>1
      <3>3. stage' = "noRate" => inventory' = RangesOf(tried)
        BY <3>1, <3>2
      <3> QED
        BY <1>0, <2>1, <3>1, <3>2, <3>3, Steady DEF InventoryInv, InventoryOfRequest, RangesOf
    <2> QED
      BY <2>3, <2>4
  <1>5. CaptureInv'
    BY <1>0, Steady DEF NegotiationInv, CaptureInv, captureClockAgrees, Starting, GetCur
  <1>6. PumpCarriesSelected'
    BY <1>0, Steady DEF NegotiationInv, PumpCarriesSelected, GetCur
  <1>7. ListedFound'
    BY <1>0, Steady DEF NegotiationInv, ListedFound, GetCur
  <1> QED
    BY <1>1, <1>2, <1>3, <1>4, <1>5, <1>6, <1>7 DEF NegotiationInv

(* UAC1 has no clock entity and asks none.                                 *)
LEMMA SetEndpointRateStep ==
  ASSUME NegotiationInv, NEW ok \in BOOLEAN, SetEndpointRate(ok)
  PROVE  NegotiationInv'
  <1>0. device' = device /\ device \in Devices
    BY DEF NegotiationInv, ShapeInv, SetEndpointRate
  <1>1. ShapeInv'
    BY <1>0 DEF NegotiationInv, ShapeInv, Shaped, SetEndpointRate
  <1>2. FormatInv'
    BY <1>0, Steady DEF NegotiationInv, FormatInv, Chosen, Rating, Starting, SetEndpointRate
  <1>3. RatedInv'
    BY <1>0 DEF NegotiationInv, RatedInv, Starting, SetEndpointRate
  <1>4. InventoryInv'
    <2>1. ~device.uac2 /\ stage' \in {"rated", "endpoint4", "noRate"}
      BY DEF NegotiationInv, RatedInv, SetEndpointRate
    <2> QED
      BY <1>0, <2>1, Steady
         DEF NegotiationInv, InventoryInv, InventoryOfRequest, sameDepth, SetEndpointRate
  <1>5. CaptureInv'
    BY <1>0, Steady DEF NegotiationInv, CaptureInv, captureClockAgrees, Starting, SetEndpointRate
  <1>6. PumpCarriesSelected'
    BY <1>0, Steady DEF NegotiationInv, PumpCarriesSelected, SetEndpointRate
  <1>7. ListedFound'
    BY <1>0, Steady DEF NegotiationInv, ListedFound, SetEndpointRate
  <1> QED
    BY <1>1, <1>2, <1>3, <1>4, <1>5, <1>6, <1>7 DEF NegotiationInv

(* The capture chosen shares the clock that was accepted.                  *)
LEMMA SelectCaptureStep ==
  ASSUME NegotiationInv, SelectCapture
  PROVE  NegotiationInv'
  <1>0. device' = device /\ device \in Devices
    BY DEF NegotiationInv, ShapeInv, SelectCapture
  <1>a. /\ stage = "rated" /\ stage' \in {"noCapture", "capturePump"} /\ rate' = rate
        /\ want' = want /\ fmt' = fmt /\ format' = format /\ tryIds' = tryIds
        /\ inventory' = inventory /\ listed' = listed
    BY DEF SelectCapture
  <1>1. ShapeInv'
    BY <1>0, <1>a DEF NegotiationInv, ShapeInv, Shaped
  <1>2. FormatInv'
    BY <1>0, <1>a, Steady DEF NegotiationInv, FormatInv, Chosen, Rating, Starting
  <1>3. RatedInv'
    BY <1>0, <1>a, Steady DEF NegotiationInv, RatedInv, Rating, Starting
  <1>4. InventoryInv'
    BY <1>0, <1>a, Steady
       DEF NegotiationInv, InventoryInv, InventoryOfRequest, RangesOf, sameDepth
  <1>5. CaptureInv'
    <2> SUFFICES ASSUME stage' \in Starting
                 PROVE  /\ capture'.alt \in AltIndices
                        /\ \E ep \in ToSet(Alts[capture'.alt].eps) : ep.in
                        /\ captureClockAgrees(resolveClock(Alts[capture'.alt].terminal))
      BY <1>0, Steady DEF CaptureInv, captureClockAgrees, SelectCapture
    <2>1. PICK c \in selectCaptureAltSetting : capture'.alt = c[1]
      BY DEF SelectCapture, Starting, noFormat
    <2>2. c \in captureChoices
      BY <2>1 DEF selectCaptureAltSetting
    <2>3. /\ c[1] \in AltIndices /\ c[2] \in DOMAIN Alts[c[1]].eps
          /\ Alts[c[1]].eps[c[2]].in
          /\ captureClockAgrees(resolveClock(Alts[c[1]].terminal))
      BY <2>2 DEF captureChoices
    <2> QED
      BY <2>1, <2>3 DEF ToSet
  <1>6. PumpCarriesSelected'
    BY <1>0, <1>a, Steady DEF NegotiationInv, PumpCarriesSelected
  <1>7. ListedFound'
    BY <1>0, <1>a, Steady DEF NegotiationInv, ListedFound
  <1> QED
    BY <1>1, <1>2, <1>3, <1>4, <1>5, <1>6, <1>7 DEF NegotiationInv

(* The capture pump changes the stage only.                                *)
LEMMA StartCapturePumpStep ==
  ASSUME NegotiationInv, StartCapturePump
  PROVE  NegotiationInv'
  <1>0. device' = device /\ device \in Devices
    BY DEF NegotiationInv, ShapeInv, StartCapturePump
  <1>1. ShapeInv'
    BY <1>0 DEF NegotiationInv, ShapeInv, Shaped, StartCapturePump
  <1>2. FormatInv'
    BY <1>0, Steady DEF NegotiationInv, FormatInv, Chosen, Rating, Starting, StartCapturePump
  <1>3. RatedInv'
    BY <1>0, Steady DEF NegotiationInv, RatedInv, Rating, Starting, StartCapturePump
  <1>4. InventoryInv'
    BY <1>0, Steady
       DEF NegotiationInv, InventoryInv, InventoryOfRequest, RangesOf, sameDepth, StartCapturePump
  <1>5. CaptureInv'
    BY <1>0, Steady DEF NegotiationInv, CaptureInv, captureClockAgrees, Starting, StartCapturePump
  <1>6. PumpCarriesSelected'
    BY <1>0, Steady DEF NegotiationInv, PumpCarriesSelected, StartCapturePump
  <1>7. ListedFound'
    BY <1>0, Steady DEF NegotiationInv, ListedFound, StartCapturePump
  <1> QED
    BY <1>1, <1>2, <1>3, <1>4, <1>5, <1>6, <1>7 DEF NegotiationInv

(* The playback pump refuses a selected packet for one reason only.        *)
LEMMA StartIsoPumpStep ==
  ASSUME NegotiationInv, StartIsoPump
  PROVE  NegotiationInv'
  <1>0. device' = device /\ device \in Devices
    BY DEF NegotiationInv, ShapeInv, StartIsoPump
  <1>1. ShapeInv'
    BY <1>0 DEF NegotiationInv, ShapeInv, Shaped, StartIsoPump
  <1>2. FormatInv'
    BY <1>0, Steady DEF NegotiationInv, FormatInv, Chosen, Rating, Starting, StartIsoPump
  <1>3. RatedInv'
    BY <1>0, Steady DEF NegotiationInv, RatedInv, Rating, Starting, StartIsoPump
  <1>4. InventoryInv'
    BY <1>0, Steady
       DEF NegotiationInv, InventoryInv, InventoryOfRequest, RangesOf, sameDepth, StartIsoPump
  <1>5. CaptureInv'
    BY <1>0, Steady DEF NegotiationInv, CaptureInv, captureClockAgrees, Starting, StartIsoPump
  <1>6. PumpCarriesSelected'
    <2> SUFFICES ASSUME stage' = "tooSmall", ~device.line6
                 PROVE  \E i \in DOMAIN Alts : \E ep \in ToSet(Alts[i].eps) :
                          /\ ep.address = Alts[format.alt].eps[format.ep].address
                          /\ PacketSize(ep) < PacketSize(Alts[format.alt].eps[format.ep])
      BY <1>0, Steady DEF PumpCarriesSelected, PacketSize, StartIsoPump
    <2>1. ~pumpCarries(format, want.rate)
      BY DEF StartIsoPump
    <2>2. Chosen(format) /\ want \in Wanted
      BY DEF NegotiationInv, FormatInv, Rating, Starting, StartIsoPump
    <2> QED
      BY <1>0, <2>1, <2>2, RefusedShares
  <1>7. ListedFound'
    BY <1>0, Steady DEF NegotiationInv, ListedFound, StartIsoPump
  <1> QED
    BY <1>1, <1>2, <1>3, <1>4, <1>5, <1>6, <1>7 DEF NegotiationInv

(* The Line6 profile asks for no clock and lists no rates.                 *)
LEMMA StartLine6Step ==
  ASSUME NegotiationInv, NEW wish \in Wanted, StartLine6(wish)
  PROVE  NegotiationInv'
  <1>0. device' = device /\ device \in Devices
    BY DEF NegotiationInv, ShapeInv, StartLine6
  <1>1. ShapeInv'
    <2>1. Shaped(format)'
      BY DEF NegotiationInv, ShapeInv, Shaped, StartLine6, line6SelectFormat, noFormat
    <2> QED
      BY <1>0, <2>1 DEF NegotiationInv, ShapeInv, Shaped, StartLine6
  <1>2. FormatInv'
    BY <1>0, Steady DEF NegotiationInv, FormatInv, Chosen, Rating, Starting, StartLine6
  <1>3. RatedInv'
    BY <1>0, Steady DEF NegotiationInv, RatedInv, Rating, Starting, StartLine6
  <1>4. InventoryInv'
    BY <1>0, Steady
       DEF NegotiationInv, InventoryInv, InventoryOfRequest, RangesOf, sameDepth, StartLine6
  <1>5. CaptureInv'
    BY <1>0, Steady DEF NegotiationInv, CaptureInv, captureClockAgrees, Starting, StartLine6
  <1>6. PumpCarriesSelected'
    BY <1>0, Steady DEF NegotiationInv, PumpCarriesSelected, StartLine6
  <1>7. ListedFound'
    BY <1>0, Steady DEF NegotiationInv, ListedFound, StartLine6
  <1> QED
    BY <1>1, <1>2, <1>3, <1>4, <1>5, <1>6, <1>7 DEF NegotiationInv

(* Polling the Line6 device.                                               *)
LEMMA Line6BusyStep ==
  ASSUME NegotiationInv, Line6Busy
  PROVE  NegotiationInv'
  <1>0. device' = device /\ device \in Devices /\ device.line6 /\ ~device.uac2
    BY DeviceIs DEF Conforms, NegotiationInv, ShapeInv, FormatInv, Line6Busy
  <1>1. ShapeInv'
    BY <1>0 DEF NegotiationInv, ShapeInv, Shaped, Line6Busy
  <1>2. FormatInv'
    BY <1>0, Steady DEF NegotiationInv, FormatInv, Chosen, Rating, Starting, Line6Busy
  <1>3. RatedInv'
    BY <1>0, Steady DEF NegotiationInv, RatedInv, Rating, Starting, Line6Busy
  <1>4. InventoryInv'
    BY <1>0, Steady
       DEF NegotiationInv, InventoryInv, InventoryOfRequest, RangesOf, sameDepth, Line6Busy
  <1>5. CaptureInv'
    BY <1>0, Steady DEF NegotiationInv, CaptureInv, captureClockAgrees, Starting, Line6Busy
  <1>6. PumpCarriesSelected'
    BY <1>0, Steady DEF NegotiationInv, PumpCarriesSelected, Line6Busy
  <1>7. ListedFound'
    BY <1>0, Steady DEF NegotiationInv, ListedFound, Line6Busy
  <1> QED
    BY <1>1, <1>2, <1>3, <1>4, <1>5, <1>6, <1>7 DEF NegotiationInv

(* The end of the Line6 setup.                                             *)
LEMMA Line6AnswerStep ==
  ASSUME NegotiationInv, NEW ok \in BOOLEAN, Line6Answer(ok)
  PROVE  NegotiationInv'
  <1>0. device' = device /\ device \in Devices /\ device.line6 /\ ~device.uac2
    BY DeviceIs DEF Conforms, NegotiationInv, ShapeInv, FormatInv, Line6Answer
  <1>1. ShapeInv'
    BY <1>0 DEF NegotiationInv, ShapeInv, Shaped, Line6Answer
  <1>2. FormatInv'
    BY <1>0, Steady DEF NegotiationInv, FormatInv, Chosen, Rating, Starting, Line6Answer
  <1>3. RatedInv'
    BY <1>0, Steady DEF NegotiationInv, RatedInv, Rating, Starting, Line6Answer
  <1>4. InventoryInv'
    BY <1>0, Steady
       DEF NegotiationInv, InventoryInv, InventoryOfRequest, RangesOf, sameDepth, Line6Answer
  <1>5. CaptureInv'
    BY <1>0, Steady DEF NegotiationInv, CaptureInv, captureClockAgrees, Starting, Line6Answer
  <1>6. PumpCarriesSelected'
    BY <1>0, Steady DEF NegotiationInv, PumpCarriesSelected, Line6Answer
  <1>7. ListedFound'
    BY <1>0, Steady DEF NegotiationInv, ListedFound, Line6Answer
  <1> QED
    BY <1>1, <1>2, <1>3, <1>4, <1>5, <1>6, <1>7 DEF NegotiationInv

--------------------------------------------------------------------------------
(* The theorems about negotiation.                                         *)

(* A driver that has a device and has not started.                         *)
LEMMA NegotiationInit == Init => NegotiationInv
  <1> SUFFICES ASSUME Init PROVE NegotiationInv
    OBVIOUS
  <1>1. device \in Devices /\ stage = "idle" /\ inventory = {} /\ listed = {}
    BY DEF Init
  <1>2. ShapeInv
    BY <1>1, DeviceIs DEF Conforms, Init, ShapeInv, Shaped, noFormat
  <1> QED
    BY <1>1, <1>2 DEF NegotiationInv, FormatInv, Rating, Starting, RatedInv, InventoryInv,
                      InventoryOfRequest, CaptureInv, PumpCarriesSelected, ListedFound

(* Every step keeps the invariant.                                         *)
LEMMA NegotiationStep == NegotiationInv /\ [Next]_vars => NegotiationInv'
  <1> SUFFICES ASSUME NegotiationInv, [Next]_vars PROVE NegotiationInv'
    OBVIOUS
  <1>1. CASE EnumerateFormats
    BY <1>1, EnumerateFormatsStep
  <1>2. CASE Begin
    BY <1>2, SelectStep, StartLine6Step DEF Begin
  <1>3. CASE Proceed
    BY <1>3, RefusedStep, AltSetStep, SetCurStep, SetCurFailsStep, GetCurStep, SetEndpointRateStep,
       Line6AnswerStep, SelectCaptureStep, StartCapturePumpStep, StartIsoPumpStep, Line6BusyStep
       DEF Proceed
  <1>4. CASE UNCHANGED vars
    <2>1. device' = device
      BY <1>4 DEF vars
    <2>2. ShapeInv' /\ RatedInv' /\ ListedFound'
      BY <1>4, <2>1, Steady DEF NegotiationInv, ShapeInv, Shaped, RatedInv, ListedFound, vars
    <2>3. FormatInv' /\ PumpCarriesSelected'
      BY <1>4, <2>1, Steady DEF NegotiationInv, FormatInv, Chosen, PumpCarriesSelected, vars
    <2>4. InventoryInv'
      BY <1>4, <2>1, Steady
         DEF NegotiationInv, InventoryInv, InventoryOfRequest, RangesOf, sameDepth, vars
    <2>5. CaptureInv'
      BY <1>4, <2>1, Steady DEF NegotiationInv, CaptureInv, captureClockAgrees, vars
    <2> QED
      BY <2>2, <2>3, <2>4, <2>5 DEF NegotiationInv
  <1> QED
    BY <1>1, <1>2, <1>3, <1>4 DEF Next

(* The invariant holds.                                                    *)
LEMMA NegotiationCorrect == Spec => []NegotiationInv
  BY NegotiationInit, NegotiationStep, PTL DEF Spec

(* Whatever the clock graph, a terminal that a source drives through at    *)
(* most four selectors and multipliers, every selector on its first pin,   *)
(* is resolved to that source.                                             *)
THEOREM SourceFound == Spec => []ResolvedIsSource
  <1>1. NegotiationInv => ResolvedIsSource
    <2> DEFINE source == SourceOf(Alts[format.alt].terminal, Straight)
    <2> SUFFICES ASSUME NegotiationInv, stage \in {"setting", "rated"}, source # 0
                 PROVE  format.resolved = source
      BY DEF ResolvedIsSource
    <2>1. device \in Devices /\ Chosen(format)
      BY DEF NegotiationInv, ShapeInv, FormatInv, Rating
    <2>2. playbackClock(Alts[format.alt].terminal) = source
      BY <2>1, SourceResolved, Straight \in SUBSET Straight
    <2> QED
      BY <2>1, <2>2 DEF Chosen
  <1> QED
    BY <1>1, NegotiationCorrect, PTL

(* A stream that a source drives through at most four entities, all on     *)
(* their first pin and with a ratio of one, runs at the rate asked for:    *)
(* capture always, playback unless another clock was promoted over it.     *)
(* Selectors on other pins and other ratios, which the driver does not     *)
(* read, are part of the model and not of the claim.                       *)
THEOREM RatesTruthful == Spec => []RateTruthful
  <1>1. NegotiationInv => RateTruthful
    <2> SUFFICES ASSUME NegotiationInv, stage = "streaming"
                 PROVE  PlaybackRateTruthful /\ CaptureRateTruthful
      BY DEF RateTruthful
    <2>1. device \in Devices /\ rate \in [DOMAIN device.clockRates -> Nat]
      BY DEF NegotiationInv, ShapeInv
    <2>2. ASSUME NEW terminal, Plain(terminal)
          PROVE  LET source == SourceOf(terminal, Straight \cap Unity)
                 IN  /\ source \in SourceIds /\ source # 0
                     /\ resolveClock(terminal) = source /\ playbackClock(terminal) = source
                     /\ StreamRate(terminal) = rate[source]
      <3> DEFINE via == Straight \cap Unity
                 source == SourceOf(terminal, via)
      <3>1. via \in SUBSET Straight /\ source # 0
        BY <2>2 DEF Plain
      <3>2. /\ source \in SourceIds /\ Drives(source, terminal, via)
            /\ resolveClock(terminal) = source /\ playbackClock(terminal) = source
        <4> HIDE DEF via
        <4> QED
          BY <2>1, <3>1, SourceResolved
      <3>3. StreamRate(terminal) = rate[source]
        <4> HIDE DEF source
        <4> QED
          BY <2>1, <3>2, PlainRate
      <3> QED
        BY <3>1, <3>2, <3>3
    <2>3. PlaybackRateTruthful
      <3> DEFINE terminal == Alts[format.alt].terminal
                 source == SourceOf(terminal, Straight \cap Unity)
      <3> SUFFICES ASSUME device.uac2, format.clock = format.resolved, Plain(terminal)
                   PROVE  StreamRate(terminal) = want.rate
        BY DEF PlaybackRateTruthful
      <3>1. ~device.line6
        BY <2>1, DeviceIs DEF Conforms
      <3>2. Chosen(format)
        BY <3>1 DEF NegotiationInv, FormatInv, Starting
      <3>3. /\ source \in SourceIds /\ playbackClock(terminal) = source
            /\ StreamRate(terminal) = rate[source]
        BY <2>2
      <3>4. format.clock = source
        BY <3>2, <3>3 DEF Chosen
      <3> HIDE DEF source
      <3> QED
        BY <3>3, <3>4 DEF NegotiationInv, RatedInv, Starting
    <2>4. CaptureRateTruthful
      <3> DEFINE terminal == Alts[capture.alt].terminal
                 source == SourceOf(terminal, Straight \cap Unity)
      <3> SUFFICES ASSUME device.uac2, duplex, Plain(terminal)
                   PROVE  StreamRate(terminal) = want.rate
        BY DEF CaptureRateTruthful
      <3>1. ~device.line6
        BY <2>1, DeviceIs DEF Conforms
      <3>2. /\ source \in SourceIds /\ source # 0 /\ resolveClock(terminal) = source
            /\ StreamRate(terminal) = rate[source]
        BY <2>2
      <3> HIDE DEF source
      <3>3. captureClockAgrees(source)
        BY <3>1, <3>2 DEF NegotiationInv, CaptureInv, Starting
      <3>4. format.clock = source
        BY <3>2, <3>3 DEF captureClockAgrees, NegotiationInv, RatedInv, Starting
      <3> QED
        BY <3>2, <3>4 DEF NegotiationInv, RatedInv, Starting
    <2> QED
      BY <2>3, <2>4
  <1> QED
    BY <1>1, NegotiationCorrect, PTL

(* startIsoPump() refuses a packet that selectAltSetting() found large     *)
(* enough only when a smaller endpoint has the same address.               *)
THEOREM PumpsCarry == Spec => []PumpCarriesSelected
  BY NegotiationCorrect, PTL DEF NegotiationInv

(* Listed formats are found by selectAltSetting(), given an AudioControl   *)
(* interface and a packet that carries them; the capture stream has no     *)
(* more channels than announced, and the inventory is that of the request. *)
THEOREM AnnouncementsTruthful == Spec => []AnnouncedTruthful
  <1>1. NegotiationInv => AnnouncedTruthful
    <2> SUFFICES ASSUME NegotiationInv PROVE AnnouncedTruthful
      OBVIOUS
    <2>1. ListedFound /\ InventoryOfRequest
      BY DEF NegotiationInv, InventoryInv
    <2>2. ASSUME stage = "streaming", duplex, ~device.line6
          PROVE  Alts[capture.alt].channels <= captureChannelCount
      BY <2>2, MostChannels DEF NegotiationInv, ShapeInv, CaptureInv, Starting
    <2> QED
      BY <2>1, <2>2 DEF AnnouncedTruthful
  <1> QED
    BY <1>1, NegotiationCorrect, PTL

--------------------------------------------------------------------------------
(* The packet clocks.                                                      *)

\* What the registers have to do with each other and with the packet limit:
\* the scheduler holds the quotient and the remainder of the rate, a running
\* clock fits a packet, and the rate falls back on nothing unless it is below
\* one frame a packet.
Registers ==
  /\ clockRate = whole * period + fraction
  /\ phase # "off" =>
       /\ (maxFrames + 1) * One <= Word
       /\ rateQ <= maxFrames * One
       /\ whole + (IF fraction > 0 THEN 1 ELSE 0) <= maxFrames
       /\ ~feedback /\ whole = 0 => rateQ < One

\* The inductive invariant.
ClockInv == TypeOK /\ Registers /\ NominalExact /\ FeedbackExact

-----------------------------------------------------------------------------
(* Arithmetic the solver needs spelled out.                                 *)

(* Division with a positive divisor.                                        *)
LEMMA DivMod ==
  ASSUME NEW a \in Nat, NEW p \in Nat, p > 0
  PROVE  /\ a = (a \div p) * p + (a % p)
         /\ a \div p \in Nat
         /\ a % p \in Nat /\ a % p < p
  <1>1. a = (a \div p) * p + (a % p)
    OBVIOUS
  <1>2. a \div p \in Nat
    OBVIOUS
  <1>3. a % p \in Nat /\ a % p < p
    OBVIOUS
  <1> QED BY <1>1, <1>2, <1>3

(* A value below the word is what the register holds.                       *)
LEMMA NoWrap ==
  ASSUME NEW a \in Nat, NEW w \in Nat, a < w
  PROVE  a % w = a
  OBVIOUS

(* Quotients are monotone in the numerator's bound.                         *)
LEMMA DivBound ==
  ASSUME NEW a \in Nat, NEW p \in Nat, p > 0, NEW q \in Nat, a < q * p
  PROVE  a \div p < q
  <1>1. SUFFICES ASSUME a \div p >= q PROVE FALSE
    BY DivMod
  <1>2. (a \div p) * p >= q * p
    BY <1>1, DivMod
  <1> QED BY <1>2, DivMod

(* Multiplication distributes.                                              *)
LEMMA Distributes ==
  ASSUME NEW a \in Int, NEW b \in Int, NEW c \in Int
  PROVE  (a + b) * c = a * c + b * c
  OBVIOUS

(* Products are ordered like their factors.                                 *)
LEMMA Ordered ==
  ASSUME NEW a \in Nat, NEW b \in Nat, NEW c \in Nat, a <= b
  PROVE  a * c <= b * c /\ a * c \in Nat /\ b * c \in Nat
  OBVIOUS

-----------------------------------------------------------------------------
(* RationalPacketScheduler::next() adds exactly one rate to what the        *)
(* planned frames and the remainder stand for, without wrapping.            *)
LEMMA NextExact ==
  ASSUME ClockAssumption, TypeOK, Registers
  PROVE  /\ NextFrames \in Nat
         /\ NextRemainder \in Nat /\ NextRemainder < period
         /\ NextFrames * period + NextRemainder = clockRate + remainder
         /\ phase # "off" => NextFrames <= maxFrames
         /\ NextFrames = 0 => whole = 0
  <1> USE DEF ClockAssumption
  <1>1. period - fraction \in Nat /\ period - fraction > 0
        /\ (period - fraction) % Word = period - fraction
    <2>1. CASE fraction = 0
      BY <2>1, NoWrap DEF TypeOK
    <2>2. CASE fraction > 0
      BY <2>2, NoWrap DEF TypeOK
    <2> QED BY <2>1, <2>2 DEF TypeOK
  <1>2. CASE Carries
    <2>1. remainder >= period - fraction
      BY <1>1, <1>2 DEF Carries
    <2>2. NextRemainder = remainder - (period - fraction)
      BY <1>1, <1>2, <2>1, NoWrap DEF NextRemainder, TypeOK
    <2>3. NextFrames = whole + 1 /\ fraction > 0
      BY <1>2, <2>1 DEF NextFrames, TypeOK
    <2>4. (whole + 1) * period = whole * period + period
      BY Distributes DEF TypeOK
    <2> QED BY <2>1, <2>2, <2>3, <2>4 DEF TypeOK, Registers
  <1>3. CASE ~Carries
    <2>1. remainder + fraction < period
      BY <1>1, <1>3 DEF Carries, TypeOK
    <2>2. NextRemainder = remainder + fraction
      BY <1>3, <2>1, NoWrap DEF NextRemainder, TypeOK
    <2>3. NextFrames = whole
      BY <1>3 DEF NextFrames
    <2> QED BY <2>1, <2>2, <2>3 DEF TypeOK, Registers
  <1> QED BY <1>2, <1>3

(* startIsoPump() establishes the registers: the seed fits a packet.        *)
LEMMA StartRegisters ==
  ASSUME ClockAssumption, ClockInv,
         NEW r \in Rates, NEW p \in PacketRates, NEW f \in Physical,
         NEW fb \in BOOLEAN, StartClocks(r, p, f, fb)
  PROVE  ClockInv'
  <1> USE DEF ClockAssumption
  <1> DEFINE w == r \div p
             q == r % p
             s == (q * One) \div p
             up == IF q > 0 THEN 1 ELSE 0
  <1>0. /\ One \in Nat /\ One > 0 /\ Word \in Nat
        /\ f \in Nat /\ (f + 1) * One <= Word
    OBVIOUS
  <1>1. r = w * p + q /\ w \in Nat /\ q \in Nat /\ q < p /\ p \in Nat /\ p > 0
    BY DivMod
  <1>2. s \in Nat /\ s <= up * One /\ s < One
    <2>1. q * One \in Nat /\ q * One < p * One
      BY <1>1
    <2>2. p * One = One * p
      BY <1>1
    <2>3. s \in Nat /\ s < One
      BY <1>1, <2>1, <2>2, DivMod, DivBound
    <2>4. CASE q > 0
      BY <2>3, <2>4
    <2>5. CASE q = 0
      <3>1. q * One = 0
        BY <2>5
      <3>2. s = 0
        BY <1>1, <3>1
      <3> QED BY <2>5, <3>2
    <2> QED BY <1>1, <2>3, <2>4, <2>5
  <1>3. rateQ' = (w * One + s) % Word
    BY DEF StartClocks
  <1>4. w * One \in Nat
    BY <1>1
  <1>5. rateQ' \in Nat
    BY <1>2, <1>3, <1>4, DivMod
  <1>6. TypeOK'
    BY <1>1, <1>5 DEF StartClocks, Reset, TypeOK, ClockInv
  <1>7. clockRate' = whole' * period' + fraction'
    BY <1>1 DEF StartClocks, Reset
  <1>8. ASSUME phase' # "off"
        PROVE  /\ (maxFrames' + 1) * One <= Word
               /\ rateQ' <= maxFrames' * One
               /\ whole' + (IF fraction' > 0 THEN 1 ELSE 0) <= maxFrames'
               /\ ~feedback' /\ whole' = 0 => rateQ' < One
    <2>1. w + up <= f /\ maxFrames' = IF f < w + up + 1 THEN f ELSE w + up + 1
      BY <1>1, <1>8 DEF StartClocks
    <2>2. PICK m \in Nat : m = maxFrames'
      BY <1>0, <1>1, <2>1
    <2>3. w + up <= m /\ m <= f /\ up \in Nat
      BY <1>0, <1>1, <2>1, <2>2
    <2>4. (m + 1) * One <= Word
      <3>1. (m + 1) * One <= (f + 1) * One
        BY <1>0, <2>3, Ordered
      <3>2. (m + 1) * One \in Nat /\ (f + 1) * One \in Nat
        BY <1>0
      <3> QED BY <1>0, <3>1, <3>2
    <2>5. (w + up) * One = w * One + up * One
      BY <1>0, <1>1, <2>3, Distributes
    <2>6. (w + up) * One <= m * One
      BY <1>0, <1>1, <2>3, Ordered
    <2>7. (m + 1) * One = m * One + One /\ m * One \in Nat
      BY <1>0, Distributes
    <2>8. w * One + s <= m * One /\ w * One + s < Word
      <3>1. up * One \in Nat
        BY <1>0, <2>3
      <3> HIDE DEF w, s, up
      <3> QED BY <1>0, <1>2, <1>4, <2>4, <2>5, <2>6, <2>7, <3>1
    <2>9. rateQ' = w * One + s
      <3> HIDE DEF w, s
      <3>1. w * One + s \in Nat
        BY <1>2, <1>4
      <3> QED BY <1>0, <1>3, <2>8, <3>1, NoWrap
    <2>10. whole' = w /\ fraction' = q
      BY DEF StartClocks, Reset
    <2>11. w = 0 => w * One + s < One
      BY <1>2
    <2> QED BY <2>2, <2>3, <2>4, <2>8, <2>9, <2>10, <2>11
  <1>9. Registers'
    BY <1>7, <1>8 DEF Registers
  <1>10. NominalExact'
    BY <1>1 DEF StartClocks, Reset, NominalExact
  <1>11. FeedbackExact'
    BY DEF StartClocks, FeedbackExact
  <1> QED BY <1>6, <1>9, <1>10, <1>11 DEF ClockInv

(* One nominal packet of NextFrames frames keeps the invariant.             *)
LEMMA NominalStep ==
  ASSUME ClockAssumption, ClockInv, PlanNominal(NextFrames),
         UNCHANGED <<phase, rateQ, acc, maxFrames>>
  PROVE  ClockInv'
  <1> USE DEF ClockInv
  <1>1. /\ NextFrames \in Nat
        /\ NextRemainder \in Nat /\ NextRemainder < period
        /\ NextFrames * period + NextRemainder = clockRate + remainder
    BY NextExact
  <1>2. TypeOK'
    BY <1>1 DEF TypeOK, PlanNominal
  <1>3. Registers'
    BY DEF Registers, PlanNominal
  <1>4. NominalExact'
    <2>1. (nomFrames + NextFrames) * period
            = nomFrames * period + NextFrames * period
      BY <1>1, Distributes DEF TypeOK
    <2>2. (nomPackets + 1) * clockRate = nomPackets * clockRate + clockRate
      BY Distributes DEF TypeOK
    <2>3. /\ nomFrames * period \in Int /\ NextFrames * period \in Int
          /\ nomPackets * clockRate \in Int
      BY <1>1 DEF TypeOK
    <2>4. nomFrames * period + remainder = nomPackets * clockRate
      BY DEF NominalExact
    <2>5. (nomFrames + NextFrames) * period + NextRemainder
            = (nomPackets + 1) * clockRate
      BY <1>1, <2>1, <2>2, <2>3, <2>4 DEF TypeOK
    <2> QED BY <2>5 DEF PlanNominal, NominalExact
  <1>5. FeedbackExact'
    BY DEF FeedbackExact, PlanNominal
  <1> QED BY <1>2, <1>3, <1>4, <1>5

(* onIso() neither falls back nor clamps in the nominal branch.             *)
LEMMA NominalUnclamped ==
  ASSUME ClockAssumption, ClockInv, phase = "running", ~feedback
  PROVE  Clamped(NextFrames) = NextFrames
  <1>1. NextFrames \in Nat /\ NextFrames <= maxFrames
        /\ (NextFrames = 0 => whole = 0)
    BY NextExact DEF ClockInv
  <1>2. NextFrames = 0 => rateQ \div One = 0
    <2>1. NextFrames = 0 => rateQ < 1 * One
      BY <1>1 DEF ClockInv, Registers, ClockAssumption
    <2> QED BY <2>1, DivBound, DivMod DEF ClockInv, TypeOK, ClockAssumption
  <1> QED BY <1>1, <1>2 DEF Clamped, ClockInv, TypeOK

(* The feedback accumulator: no wrap, no fallback, no clamp.                *)
LEMMA FeedbackStep ==
  ASSUME ClockAssumption, ClockInv, PlanFromFeedback
  PROVE  ClockInv'
  <1> USE DEF ClockInv, ClockAssumption
  <1> DEFINE sum == acc + rateQ
  <1>1. /\ sum \in Nat
        /\ (maxFrames + 1) * One = maxFrames * One + One
        /\ maxFrames * One \in Nat
    BY Distributes DEF TypeOK
  <1>2. sum < (maxFrames + 1) * One /\ sum < Word
    BY <1>1 DEF TypeOK, Registers, PlanFromFeedback
  <1>3. sum % Word = sum
    BY <1>1, <1>2, NoWrap
  <1>4. /\ sum = (sum \div One) * One + (sum % One)
        /\ sum \div One \in Nat /\ sum % One \in Nat /\ sum % One < One
    BY <1>1, DivMod
  <1>5. sum \div One < maxFrames + 1
    BY <1>1, <1>2, DivBound DEF TypeOK
  <1>6. sum \div One = 0 => rateQ \div One = 0
    <2>1. SUFFICES ASSUME sum \div One = 0 PROVE rateQ \div One = 0
      OBVIOUS
    <2>2. sum < 1 * One
      <3> HIDE DEF sum
      <3>1. (sum \div One) * One = 0
        BY <2>1
      <3> QED BY <1>4, <3>1
    <2>3. rateQ < 1 * One
      BY <2>2 DEF TypeOK
    <2> QED BY <2>3, DivBound, DivMod DEF TypeOK
  <1>7. Clamped(sum \div One) = sum \div One
    BY <1>4, <1>5, <1>6 DEF Clamped, TypeOK
  <1>8. acc' = sum % One /\ fbFrames' = fbFrames + sum \div One
    BY <1>3, <1>7 DEF PlanFromFeedback, Fraction
  <1>9. TypeOK'
    BY <1>4, <1>8 DEF TypeOK, PlanFromFeedback, scheduler
  <1>10. Registers'
    BY DEF Registers, PlanFromFeedback, scheduler
  <1>11. NominalExact'
    BY DEF NominalExact, PlanFromFeedback, scheduler
  <1>12. FeedbackExact'
    <2>1. (fbFrames + sum \div One) * One = fbFrames * One + (sum \div One) * One
      BY <1>4, Distributes DEF TypeOK
    <2>2. fbFrames * One \in Int /\ (sum \div One) * One \in Int
      BY <1>4 DEF TypeOK
    <2>3. fbAsked' = fbAsked + rateQ
      BY DEF PlanFromFeedback
    <2>4. (fbFrames + sum \div One) * One + (sum % One) = fbAsked + rateQ
      <3>1. fbFrames * One + acc = fbAsked
        BY DEF FeedbackExact
      <3>2. sum = acc + rateQ /\ acc \in Nat /\ rateQ \in Nat /\ fbAsked \in Nat
        BY DEF TypeOK
      <3> HIDE DEF sum
      <3> QED BY <1>4, <2>1, <2>2, <3>1, <3>2
    <2>5. fbFrames' * One + acc' = fbAsked'
      BY <1>8, <2>3, <2>4
    <2> QED BY <2>5 DEF FeedbackExact
  <1> QED BY <1>9, <1>10, <1>11, <1>12

(* onFeedback() only accepts what a packet can carry.                       *)
LEMMA AcceptStep ==
  ASSUME ClockAssumption, ClockInv,
         NEW bytes \in {0, 3, 4}, NEW raw \in Raws, OnFeedback(bytes, raw)
  PROVE  ClockInv'
  <1> USE DEF ClockInv, ClockAssumption
  <1> DEFINE packetRate == Decoded(bytes, raw) * Interval
  <1>1. Decoded(bytes, raw) \in Nat
    <2>1. Word > 0 /\ raw * 4 \in Nat /\ raw \in Nat
      OBVIOUS
    <2>2. (raw * 4) % Word \in Nat
      BY <2>1, DivMod
    <2> QED BY <2>1, <2>2 DEF Decoded
  <1>2. packetRate \in Nat
    BY <1>1
  <1>3. /\ (maxFrames + 1) * One = maxFrames * One + One
        /\ maxFrames * One \in Nat
    BY Distributes DEF TypeOK
  <1>4. CASE Accepts(packetRate)
    <2>1. packetRate <= maxFrames * One /\ packetRate < Word
      BY <1>2, <1>3, <1>4 DEF Accepts, Registers, OnFeedback
    <2>2. rateQ' = packetRate
      BY <1>2, <1>4, <2>1, NoWrap DEF OnFeedback
    <2> QED BY <1>2, <2>1, <2>2
          DEF OnFeedback, TypeOK, Registers, NominalExact, FeedbackExact,
              scheduler, history
  <1>5. CASE ~Accepts(packetRate)
    BY <1>5 DEF OnFeedback, TypeOK, Registers, NominalExact, FeedbackExact,
              scheduler, history
  <1> QED BY <1>4, <1>5

-----------------------------------------------------------------------------
(* Whatever the sample rate, the packet rate, the packet capacity and the   *)
(* feedback the device sends, both packet clocks of the driver are exact:   *)
(* the registers stay in range (TypeOK), the rational scheduler plans       *)
(* floor(packets * rate / period) frames (NominalExact) and the feedback    *)
(* accumulator plans the sum of the accepted rates (FeedbackExact).         *)
THEOREM ClocksExact == ClockSpec => [](TypeOK /\ NominalExact /\ FeedbackExact)
  <1>1. ClockInit => ClockInv
    <2> SUFFICES ASSUME ClockInit PROVE ClockInv
      OBVIOUS
    <2>1. feedback \in BOOLEAN
      BY Zenon DEF ClockInit
    <2> QED
      BY <2>1, ClockAssumption
         DEF ClockAssumption, ClockInit, ClockInv, TypeOK, Registers,
             NominalExact,
             FeedbackExact
  <1>2. ClockInv /\ [ClockNext]_clockVars => ClockInv'
    <2> SUFFICES ASSUME ClockInv, [ClockNext]_clockVars PROVE ClockInv'
      OBVIOUS
    <2>1. ASSUME NEW r \in Rates, NEW p \in PacketRates, NEW f \in Physical,
                 NEW fb \in BOOLEAN, StartClocks(r, p, f, fb)
          PROVE  ClockInv'
      BY <2>1, StartRegisters, ClockAssumption
    <2>2. CASE PrimePacket
      BY <2>2, NominalStep, ClockAssumption DEF PrimePacket
    <2>3. CASE StartPlayback
      BY <2>3 DEF StartPlayback, ClockInv, TypeOK, Registers, NominalExact,
                  FeedbackExact, scheduler, history
    <2>4. CASE PlanFromRate
      BY <2>4, NominalStep, NominalUnclamped, ClockAssumption DEF PlanFromRate
    <2>5. CASE PlanFromFeedback
      BY <2>5, FeedbackStep, ClockAssumption
    <2>6. ASSUME NEW bytes \in {0, 3, 4}, NEW raw \in Raws,
                 OnFeedback(bytes, raw)
          PROVE  ClockInv'
      BY <2>6, AcceptStep, ClockAssumption
    <2>7. CASE UNCHANGED clockVars
      BY <2>7 DEF clockVars, ClockInv, TypeOK, Registers, NominalExact,
                  FeedbackExact, scheduler, history
    <2> QED BY <2>1, <2>2, <2>3, <2>4, <2>5, <2>6, <2>7 DEF ClockNext
  <1> QED BY <1>1, <1>2, PTL DEF ClockSpec, ClockInv

(* The accumulator of explicit feedback alone: the frames onIso() plans and *)
(* the fraction it keeps are the sum of the rates onFeedback() accepted.    *)
THEOREM FeedbackCorrect == ClockSpec => []FeedbackExact
  BY ClocksExact, PTL

(* The comment of RationalPacketScheduler, "the long-run sum is exactly     *)
(* rate frames", for every rate and packet rate.                            *)
THEOREM SecondsExact == ClockSpec => []SecondExact
  <1>1. TypeOK /\ NominalExact => SecondExact
    <2>1. SUFFICES ASSUME TypeOK, NominalExact,
                          NEW k \in 0..nomPackets, nomPackets = k * period
                   PROVE  nomFrames = k * clockRate /\ remainder = 0
      BY DEF SecondExact
    <2>2. nomPackets * clockRate = (k * clockRate) * period
      <3>1. (k * period) * clockRate = (k * clockRate) * period
        BY <2>1 DEF TypeOK
      <3> QED BY <2>1, <3>1
    <2>3. (k * clockRate - nomFrames) * period = remainder
      <3>1. ((k * clockRate) + (-nomFrames)) * period
              = (k * clockRate) * period + (-nomFrames) * period
        BY <2>1, Distributes DEF TypeOK
      <3>2. (-nomFrames) * period = -(nomFrames * period)
        BY <2>1 DEF TypeOK
      <3> QED BY <2>1, <2>2, <3>1, <3>2 DEF NominalExact, TypeOK
    <2>4. k * clockRate - nomFrames = 0
      <3> DEFINE d == k * clockRate - nomFrames
      <3>1. d \in Int
        BY <2>1 DEF TypeOK
      <3>2. ~(d >= 1)
        BY <2>1, <2>3, <3>1 DEF TypeOK
      <3>3. ~(d <= -1)
        BY <2>1, <2>3, <3>1 DEF TypeOK
      <3> QED BY <3>1, <3>2, <3>3
    <2>5. k * clockRate \in Int
      BY <2>1 DEF TypeOK
    <2> QED BY <2>1, <2>3, <2>4, <2>5 DEF TypeOK
  <1> QED BY <1>1, ClocksExact, PTL

--------------------------------------------------------------------------------
(* The check of the pump and the clock that it starts.                     *)

\* The endpoint that plays, the packets per second of its interval, and the
\* frames that a packet of its address holds.
Played == Alts[format.alt].eps[format.ep]
PlayedRate == packetsPerSecondForInterval(Played.interval)
PlayedFrames == maxIsoPacketSize(Played.address) \div stride(Alts[format.alt])

\* Both succeed or neither, and then the limit of every plan fits the packet.
PumpAgrees(fb) ==
  StartIsoPump /\ ~device.line6 /\ StartClocks(want.rate, PlayedRate, PlayedFrames, fb) =>
    /\ phase' = "priming" <=> stage' = "streaming"
    /\ stage' = "streaming" =>
         maxFrames' * stride(Alts[format.alt]) <= maxIsoPacketSize(Played.address)

(* In one step, both checks compare the same packet with the same cadence. *)
LEMMA PumpStep ==
  ASSUME NegotiationInv, ~device.line6, NEW fb \in BOOLEAN,
         StartIsoPump, StartClocks(want.rate, PlayedRate, PlayedFrames, fb)
  PROVE  /\ phase' = "priming" <=> stage' = "streaming"
         /\ stage' = "streaming" =>
              maxFrames' * stride(Alts[format.alt]) <= maxIsoPacketSize(Played.address)
  <1> DEFINE s == stride(Alts[format.alt])
             found == maxIsoPacketSize(Played.address)
             most == want.rate \div PlayedRate + (IF want.rate % PlayedRate > 0 THEN 1 ELSE 0)
  <1>1. device \in Devices /\ want \in Wanted /\ Chosen(format)
    BY DEF NegotiationInv, ShapeInv, FormatInv, Rating, Starting, StartIsoPump
  <1>2. /\ want.rate \in Nat /\ s \in Nat \ {0} /\ PlayedRate \in Nat \ {0}
        /\ format.alt \in DOMAIN Alts /\ format.ep \in DOMAIN Alts[format.alt].eps
    BY <1>1, ChosenIs DEF PlayedRate, Played
  <1>3. found \in Nat
    BY <1>1, <1>2, MaxIsoIs, FieldsAre DEF Played
  <1>4. most \in Nat
    <2>1. want.rate \div PlayedRate \in Nat
      BY <1>2, DivMod, SMTT(30)
    <2> QED
      BY <2>1
  <1>5. stage' = IF PlayedFrames >= most THEN "streaming" ELSE "tooSmall"
    BY DEF StartIsoPump, pumpCarries, PlayedFrames, PlayedRate, Played
  <1>6. /\ PlayedFrames < most => phase' = "off"
        /\ ~(PlayedFrames < most) =>
             /\ phase' = "priming"
             /\ maxFrames' = IF PlayedFrames < most + 1 THEN PlayedFrames ELSE most + 1
    BY DEF StartClocks
  <1> HIDE DEF s, found, most
  <1>7. PlayedFrames = found \div s
    BY DEF PlayedFrames, s, found
  <1>8. PlayedFrames \in Nat /\ PlayedFrames * s <= found
    <2>1. found = (found \div s) * s + (found % s) /\ found \div s \in Nat /\ found % s \in Nat
      BY <1>2, <1>3, DivMod
    <2>2. PICK d \in Nat : d = found \div s
      BY <2>1
    <2> QED
      BY <1>2, <1>3, <1>7, <2>1, <2>2
  <1>9. ASSUME stage' = "streaming" PROVE maxFrames' * s <= found
    <2>1. maxFrames' \in Nat /\ maxFrames' <= PlayedFrames
      BY <1>4, <1>5, <1>6, <1>8, <1>9
    <2>2. /\ maxFrames' * s <= PlayedFrames * s
          /\ maxFrames' * s \in Nat /\ PlayedFrames * s \in Nat
      BY <1>2, <1>8, <2>1, Ordered
    <2> QED
      BY <1>3, <1>8, <2>2
  <1> QED
    BY <1>4, <1>5, <1>6, <1>8, <1>9 DEF s, found

(* startIsoPump() as Negotiation has it and as PacketClock has it are two  *)
(* views of one call: with the negotiated format both succeed or neither,  *)
(* and then no packet the clocks may plan, up to maxFramesPerPacket_, is   *)
(* larger than the endpoint's.                                             *)
THEOREM PumpsAgree == Spec => [][\A fb \in BOOLEAN : PumpAgrees(fb)]_vars
  <1>1. NegotiationInv => \A fb \in BOOLEAN : PumpAgrees(fb)
    BY PumpStep DEF PumpAgrees
  <1> QED
    BY <1>1, NegotiationCorrect, PTL

================================================================================
