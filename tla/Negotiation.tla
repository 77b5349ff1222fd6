------------------------------ MODULE Negotiation ------------------------------
(***************************************************************************)
(* What a session agrees on with the device before it streams: the formats *)
(* the driver lists, the alternate settings it selects for playback and    *)
(* capture, the clock entity it sets the rate of, and the checks of the    *)
(* two pumps that a packet carries the nominal number of frames.           *)
(*                                                                         *)
(* A device is its descriptors, already split into fields, and the way it  *)
(* answers clock requests.  Interface claims and transfers are the subject *)
(* of DriverLifecycle.                                                     *)
(***************************************************************************)
EXTENDS Integers, Sequences, FiniteSets, SequencesExt

CONSTANTS
  Devices,     \* devices that may be attached
  Wanted,      \* formats the application asks for
  MaxStarts,   \* bound: calls of start() and startDuplex()
  MaxPolls     \* status polls of line6VendorSetup() (100 in the code)

\* What a device's descriptors hold.  A format without a subslot size has the
\* one that its bits need, and a rate range is its two ends.  A clock source
\* has no pins, a selector has several and a multiplier one; a multiplier has a
\* ratio, which for the others is 1/1.
UpTo(n) == {i \in Nat : i <= n}
Bytes == UpTo(255)
Endpoints ==
  [address : Bytes, in : BOOLEAN, usage : {"data", "feedback", "implicit"},
   size : UpTo(2047), extra : UpTo(3), interval : Bytes, sync : Bytes]
Alternates ==
  [iface : Bytes, number : Bytes, terminal : Bytes, channels : Bytes, bits : Bytes,
   bytes : Bytes, continuous : BOOLEAN, rates : Seq(Nat), eps : Seq(Endpoints)]
Entities ==
  [id : Bytes, source : BOOLEAN, pins : Seq(Bytes),
   num : UpTo(65535), den : UpTo(65535) \ {0}]
Terminals == [id : Bytes, clock : Bytes]

\* What their standards ask of devices, and the code takes for granted: clock
\* entities are numbered apart and from 1, every source has a rate, the others
\* have a pin, a range is not upside down, and no high-speed packet is more than
\* a second apart.
Conforms(d) ==
  /\ d.clocks \in Seq(Entities) /\ d.terminals \in Seq(Terminals) /\ d.alts \in Seq(Alternates)
  /\ \A i \in DOMAIN d.clocks :
       /\ d.clocks[i].id # 0
       /\ d.clocks[i].source => d.clocks[i].id \in DOMAIN d.clockRates
       /\ d.clocks[i].source <=> d.clocks[i].pins = <<>>
       /\ \A j \in DOMAIN d.clocks : d.clocks[j].id = d.clocks[i].id => j = i
  /\ d.clockRates \in [DOMAIN d.clockRates -> Nat]
  /\ \A i \in DOMAIN d.alts :
       /\ d.alts[i].number # 0 => d.alts[i].bytes > 0
       /\ d.alts[i].continuous => /\ Len(d.alts[i].rates) = 2
                                  /\ d.alts[i].rates[1] <= d.alts[i].rates[2]
       /\ d.highSpeed => \A e \in DOMAIN d.alts[i].eps : d.alts[i].eps[e].interval <= 13
  /\ d.line6 => ~d.uac2

ASSUME NegotiationAssumption ==
  /\ \A d \in Devices : Conforms(d)
  /\ \A wish \in Wanted : wish.rate \in Nat /\ wish.channels \in Nat /\ wish.channels > 0

CommonRates == {44100, 48000, 88200, 96000, 176400, 192000}

VARIABLES
  device,     \* the device attached
  rate,       \* rate of each of its clock entities
  selected,   \* pin that each of its clock selectors has selected
  stage,      \* where in start() or startDuplex() the control thread is
  want,       \* the format asked for
  duplex,     \* startDuplex() was called
  starts,     \* calls so far
  fmt,        \* start()'s local: the alternate setting it selected
  format,     \* format_
  capture,    \* captureFormat_
  tryIds,     \* clock entities that have yet to be tried
  inventory,  \* supportedRates_
  polls,      \* status polls so far
  listed      \* what enumerateFormats() returned, until the next call

vars == <<device, rate, selected, stage, want, duplex, starts, fmt, format, capture, tryIds,
          inventory, polls, listed>>

noFormat == [alt |-> 0, ep |-> 0, clock |-> 0, resolved |-> 0]
noWish == [rate |-> 0, bits |-> 0, channels |-> 0, bytes |-> 0]

Init ==
  /\ device \in Devices
  /\ rate = device.clockRates
  /\ selected = device.selected
  /\ stage = "idle"
  /\ want = noWish
  /\ duplex = FALSE
  /\ starts = 0
  /\ fmt = noFormat /\ format = noFormat /\ capture = noFormat
  /\ tryIds = {}
  /\ inventory = {}
  /\ polls = 0
  /\ listed = {}

Alts == device.alts
AltIndices == {i \in DOMAIN Alts : Alts[i].number # 0}
Least(set) == CHOOSE n \in set : \A m \in set : n <= m

--------------------------------------------------------------------------------
(* Clock entities.                                                         *)

ClockIds == [i \in DOMAIN device.clocks |-> device.clocks[i].id]
SourceIds == {c.id : c \in {d \in ToSet(device.clocks) : d.source}}
\* Position of the entity with an identifier; 0 for none.
EntityAt(id) == SelectInSeq(device.clocks, LAMBDA c : c.id = id)

\* The entity behind a selector or multiplier: what its first pin is wired to,
\* whichever pin is selected and whatever its ratio; 0 for a source.
Base(c) == IF c.source THEN 0 ELSE c.pins[1]

\* Every identifier that the walk may come to.
NamedIds == ToSet(ClockIds) \cup {Base(c) : c \in ToSet(device.clocks)}
              \cup {t.clock : t \in ToSet(device.terminals)} \cup {0}

\* A selector or multiplier leads to its base; a source, or no base, stops.
Hop == [id \in NamedIds |->
  LET i == EntityAt(id)
  IN  IF i = 0 \/ Base(device.clocks[i]) = 0 THEN id ELSE Base(device.clocks[i])]

\* The clock a terminal names, before any hop; 0 for none.
TerminalClock(terminal) ==
  LET i == SelectInSeq(device.terminals, LAMBDA t : t.id = terminal)
  IN  IF i = 0 THEN 0 ELSE device.terminals[i].clock

\* Mutant: the entity a terminal names is taken for the source.
resolveClockUnwalked(terminal) == TerminalClock(terminal)

\* At most four hops.
resolveClock(terminal) == LET hop == Hop IN hop[hop[hop[hop[TerminalClock(terminal)]]]]

\* Failing that, the first source, then the first entity.
playbackClock(terminal) ==
  LET resolved == resolveClock(terminal)
      source == SelectInSeq(device.clocks, LAMBDA c : c.source)
  IN  IF resolved # 0 THEN resolved
      ELSE IF source # 0 THEN ClockIds[source]
      ELSE IF ClockIds # <<>> THEN Head(ClockIds) ELSE 0

\* Every entity, and the resolved clock if it is none of them.
clocksToTry(clock) == ({clock} \cup ToSet(ClockIds)) \ {0}

\* The resolved clock is tried first, then sources, then the others; a vector
\* of entities (candidateClockIds) is in descriptor order.
TriedBefore(a, b) ==
  \/ a = format.clock
  \/ /\ b # format.clock
     /\ \/ a \in SourceIds /\ b \notin SourceIds
        \/ (a \in SourceIds <=> b \in SourceIds) /\ EntityAt(a) <= EntityAt(b)

NextToTry(id) == id \in tryIds /\ \A other \in tryIds : TriedBefore(id, other)

--------------------------------------------------------------------------------
(* Packets.                                                                *)

HostPeriods == IF device.highSpeed THEN 8000 ELSE 1000

\* selectAltSetting()'s packet rate, undefined above a high-speed interval of
\* 13: there the code divides by zero.
altPacketsPerSecond(interval) ==
  IF device.highSpeed THEN HostPeriods \div 2^(IF interval > 0 THEN interval - 1 ELSE 0)
  ELSE IF interval > 0 THEN HostPeriods \div interval
  ELSE HostPeriods

\* The pumps' packet rate.
packetsPerSecondForInterval(interval) ==
  LET exponent == IF interval < 1 THEN 0 ELSE IF interval > 16 THEN 15 ELSE interval - 1
      periods == IF device.highSpeed THEN 2^exponent
                 ELSE IF interval < 1 THEN 1 ELSE interval
  IN  IF HostPeriods \div periods < 1 THEN 1 ELSE HostPeriods \div periods

stride(alt) == alt.bytes * alt.channels

PacketSize(ep) == ep.size * (ep.extra + 1)

\* Mutant: the nominal packet is rounded down.
altFitsOnAverage(alt, ep, hz) ==
  (hz \div altPacketsPerSecond(ep.interval)) * stride(alt) <= PacketSize(ep)

altFits(alt, ep, hz) ==
  ((hz + altPacketsPerSecond(ep.interval) - 1) \div altPacketsPerSecond(ep.interval))
    * stride(alt) <= PacketSize(ep)

\* libusb_get_max_iso_packet_size(): the first endpoint with that address.
maxIsoPacketSize(address) ==
  LET Has(i) == \E e \in DOMAIN Alts[i].eps : Alts[i].eps[e].address = address
      alt == Alts[Least({i \in DOMAIN Alts : Has(i)})]
  IN  PacketSize(alt.eps[SelectInSeq(alt.eps, LAMBDA ep : ep.address = address)])

\* The check of startIsoPump() and of startCapturePump().
pumpCarries(chosen, hz) ==
  LET alt == Alts[chosen.alt]
      ep == alt.eps[chosen.ep]
      perSecond == packetsPerSecondForInterval(ep.interval)
      nominal == hz \div perSecond + (IF hz % perSecond > 0 THEN 1 ELSE 0)
  IN  maxIsoPacketSize(ep.address) \div stride(alt) >= nominal

--------------------------------------------------------------------------------
(* Alternate settings.                                                     *)

\* Mutant: the upper end of a continuous range is left out.
rateAdvertisedBelow(alt, hz) ==
  IF alt.continuous THEN alt.rates[1] <= hz /\ hz < alt.rates[2]
  ELSE hz \in ToSet(alt.rates)

\* A UAC1 format descriptor lists its rates or gives a range.
rateAdvertised(alt, hz) ==
  IF alt.continuous THEN alt.rates[1] <= hz /\ hz <= alt.rates[2]
  ELSE hz \in ToSet(alt.rates)

sameDepth(alt, wish) == alt.channels = wish.channels /\ alt.bits = wish.bits

altMatches(alt, wish) ==
  /\ wish.bytes > 0 => alt.bytes = wish.bytes
  /\ sameDepth(alt, wish)
  /\ device.uac2 \/ rateAdvertised(alt, wish.rate)

outEndpoint(alt) == SelectInSeq(alt.eps, LAMBDA ep : ~ep.in /\ ep.usage = "data")
feedbackEndpoint(alt) == SelectInSeq(alt.eps, LAMBDA ep : ep.in /\ ep.usage = "feedback")

Selectable(alt, wish) ==
  /\ altMatches(alt, wish)
  /\ outEndpoint(alt) # 0
  /\ altFits(alt, alt.eps[outEndpoint(alt)], wish.rate)

\* The first that matches, on a device that has an AudioControl interface.
selectAltSetting(wish) ==
  LET first == SelectInSeq(Alts, LAMBDA alt : alt.number # 0 /\ Selectable(alt, wish))
  IN  IF ~device.control \/ first = 0 THEN noFormat
      ELSE [alt |-> first, ep |-> outEndpoint(Alts[first]),
            clock |-> playbackClock(Alts[first].terminal),
            resolved |-> playbackClock(Alts[first].terminal)]

\* The UAC1 rates the walk collects, up to the alternate it selects.
advertisedRates(wish) ==
  LET last == selectAltSetting(wish).alt
      walked == {i \in AltIndices : sameDepth(Alts[i], wish) /\ (last = 0 \/ i <= last)}
  IN  IF device.uac2 \/ ~device.control THEN {}
      ELSE UNION {IF Alts[i].continuous
                  THEN {[min |-> Alts[i].rates[1], max |-> Alts[i].rates[2], res |-> 0]}
                  ELSE {[min |-> hz, max |-> hz, res |-> 0] : hz \in ToSet(Alts[i].rates)}
                  : i \in walked}

captureClockAgrees(clock) == format.clock # 0 /\ clock # 0 => clock = format.clock

\* Endpoints that could carry the capture stream of the selected playback.
captureChoices ==
  LET play == Alts[format.alt]
      Carries(ep) ==
        /\ ep.in /\ ep.usage \in {"data", "implicit"}
        /\ (feedbackEndpoint(play) = 0 /\ play.eps[format.ep].sync # 0)
             => ep.address = play.eps[format.ep].sync
      Matches(alt) ==
        /\ play.terminal # 0 => alt.terminal # play.terminal
        /\ captureClockAgrees(resolveClock(alt.terminal))
        /\ alt.channels > 0
        /\ alt.bits = play.bits /\ alt.bytes = play.bytes
  IN  {c \in UNION {{i} \X DOMAIN Alts[i].eps : i \in AltIndices} :
         /\ Matches(Alts[c[1]]) /\ Carries(Alts[c[1]].eps[c[2]])}

\* An implicit-feedback endpoint before any other; else descriptor order.
Precedes(c, d) ==
  LET implicit(x) == Alts[x[1]].eps[x[2]].usage = "implicit"
  IN  \/ implicit(c) /\ ~implicit(d)
      \/ /\ implicit(c) = implicit(d)
         /\ c[1] < d[1] \/ (c[1] = d[1] /\ c[2] <= d[2])

\* At most one endpoint.
selectCaptureAltSetting == {c \in captureChoices : \A d \in captureChoices : Precedes(c, d)}

--------------------------------------------------------------------------------
(* Enumeration, which talks to the device before it is claimed.            *)

Listable(alt) ==
  /\ alt.channels >= 2 /\ alt.bits \in {16, 24, 32}
  /\ alt.bytes \in 2..4 /\ 8 * alt.bytes >= alt.bits
  /\ outEndpoint(alt) # 0

line6Format == [rate |-> 44100, bits |-> 16, channels |-> 2, bytes |-> 2]

listing(alt, hz) ==
  [rate |-> hz, bits |-> alt.bits, channels |-> alt.channels, bytes |-> alt.bytes]

\* A clock range: its lower end, and up to 256 steps from there.
rangeRates(range) ==
  IF range.min > range.max THEN {}
  ELSE IF range.res = 0 THEN {range.min}
  ELSE {hz \in {range.min + k * range.res : k \in 0..256} : hz <= range.max}

enumerateFormats(answering) ==
  LET listable == {Alts[i] : i \in {j \in AltIndices : Listable(Alts[j])}}
      clockRates == UNION {UNION {rangeRates(r) : r \in device.ranges[id]} : id \in answering}
      uac2Rates == IF device.control /\ clockRates # {} THEN clockRates ELSE CommonRates
      rates(alt) == IF device.uac2 THEN uac2Rates ELSE ToSet(alt.rates)
  IN  IF device.line6 THEN {line6Format}
      ELSE UNION {{listing(alt, hz) : hz \in rates(alt)} : alt \in listable}

\* Any isochronous IN endpoint counts as a capture.
captureChannelCount ==
  LET inputs == {0} \cup {Alts[i].channels : i \in
                   {j \in AltIndices : \E ep \in ToSet(Alts[j].eps) : ep.in}}
  IN  IF device.line6 THEN 2
      ELSE CHOOSE n \in inputs : \A m \in inputs : m <= n

\* Only identifiers of sources are asked, and each may fail to answer.
EnumerateFormats ==
  /\ stage = "idle"
  /\ listed = {}
  /\ \E answering \in SUBSET SourceIds : listed' = enumerateFormats(answering)
  /\ UNCHANGED <<device, rate, selected, stage, want, duplex, starts, fmt, format, capture,
                 tryIds, inventory, polls>>

--------------------------------------------------------------------------------
(* start() and startDuplex(), by the control thread.                       *)

Failures == {"noMatch", "refused", "noRate", "noCapture", "captureTooSmall", "tooSmall"}
Ended == {"streaming"} \cup Failures

Select(wish, both) ==
  /\ stage \in {"idle"} \cup Ended
  /\ ~device.line6
  /\ starts < MaxStarts
  /\ starts' = starts + 1
  /\ want' = wish /\ duplex' = both
  /\ inventory' = advertisedRates(wish)
  /\ fmt' = selectAltSetting(wish)
  /\ stage' = IF fmt' = noFormat THEN "noMatch" ELSE "selected"
  /\ listed' = {}
  /\ UNCHANGED <<device, rate, selected, format, capture, tryIds, polls>>

\* The claim is refused, which leaves format_, or the alternate setting is.
Refused ==
  /\ stage = "selected"
  /\ stage' = "refused"
  /\ format' \in {format, fmt}
  /\ UNCHANGED <<device, rate, selected, want, duplex, starts, fmt, capture, tryIds,
                 inventory, polls, listed>>

\* setSampleRate(): no clock entity at all means a fixed rate.
AltSet ==
  /\ stage = "selected"
  /\ format' = fmt
  /\ tryIds' = IF device.uac2 THEN clocksToTry(fmt.clock) ELSE {}
  /\ stage' = IF ~device.uac2 THEN "endpoint"
              ELSE IF tryIds' = {} THEN "rated" ELSE "setting"
  /\ UNCHANGED <<device, rate, selected, want, duplex, starts, fmt, capture, inventory,
                 polls, listed>>

\* GET_RANGE: what the entity reports, if it answers, joins the inventory, once.
captureRangeForClock(id) == inventory \cup device.ranges[id]

\* A selector has no rate: it may take the request for the number of a pin.
Switched(id) ==
  LET i == EntityAt(id)
      pins == IF i = 0 THEN {} ELSE DOMAIN device.clocks[i].pins
  IN  {selected} \cup {[selected EXCEPT ![i] = pin] : pin \in pins}

\* SET_CUR on an entity that takes it; the clock of the format follows.
SetCur(id) ==
  /\ stage = "setting" /\ NextToTry(id)
  /\ id \in device.settable
  /\ rate' = IF id \in SourceIds THEN [rate EXCEPT ![id] = want.rate] ELSE rate
  /\ selected' \in Switched(id)
  /\ format' = [format EXCEPT !.clock = id]
  /\ inventory' = captureRangeForClock(id)
  /\ tryIds' = {}
  /\ stage' = "rated"
  /\ UNCHANGED <<device, want, duplex, starts, fmt, capture, polls, listed>>

\* A stall, or a request the kernel or the bus fails.
SetCurFails(id) ==
  /\ stage = "setting" /\ NextToTry(id)
  /\ tryIds' = IF tryIds = {id} THEN clocksToTry(format.clock) ELSE tryIds \ {id}
  /\ stage' = IF tryIds = {id} THEN "reading" ELSE "setting"
  /\ UNCHANGED <<device, rate, selected, want, duplex, starts, fmt, format, capture,
                 inventory, polls, listed>>

\* Mutant: a clock at another rate is accepted too.
GetCurAnyRate(id, answered) ==
  /\ stage = "reading" /\ NextToTry(id)
  /\ inventory' = captureRangeForClock(id)
  /\ format' = [format EXCEPT !.clock = id]
  /\ tryIds' = {}
  /\ stage' = "rated"
  /\ UNCHANGED <<device, rate, selected, want, duplex, starts, fmt, capture, polls, listed>>

\* GET_CUR and GET_RANGE: an entity already at the rate is accepted.
GetCur(id, answered) ==
  LET fixed == answered /\ rate[id] = want.rate
  IN  /\ stage = "reading" /\ NextToTry(id)
      /\ inventory' = captureRangeForClock(id)
      /\ format' = IF fixed THEN [format EXCEPT !.clock = id] ELSE format
      /\ tryIds' = IF fixed THEN {} ELSE tryIds \ {id}
      /\ stage' = IF fixed THEN "rated" ELSE IF tryIds' = {} THEN "noRate" ELSE "reading"
      /\ UNCHANGED <<device, rate, selected, want, duplex, starts, fmt, capture, polls, listed>>

\* UAC1: the request goes to the endpoint, in three bytes and then in four.
SetEndpointRate(accepted) ==
  /\ stage \in {"endpoint", "endpoint4"}
  /\ stage' = IF accepted THEN "rated" ELSE IF stage = "endpoint" THEN "endpoint4" ELSE "noRate"
  /\ UNCHANGED <<device, rate, selected, want, duplex, starts, fmt, format, capture, tryIds,
                 inventory, polls, listed>>

\* startDuplex(): capture on an interface of its own.  captureFormat_ changes
\* once the interface is claimed; its alternate setting may be refused then.
SelectCapture ==
  /\ stage = "rated" /\ duplex
  /\ \/ stage' = "noCapture" /\ UNCHANGED capture
     \/ \E c \in selectCaptureAltSetting :
          /\ Alts[c[1]].iface # Alts[format.alt].iface
          /\ capture' = [noFormat EXCEPT !.alt = c[1], !.ep = c[2],
                                         !.clock = resolveClock(Alts[c[1]].terminal)]
          /\ stage' \in {"capturePump", "noCapture"}
  /\ UNCHANGED <<device, rate, selected, want, duplex, starts, fmt, format, tryIds,
                 inventory, polls, listed>>

StartCapturePump ==
  /\ stage = "capturePump"
  /\ stage' = IF pumpCarries(capture, want.rate) THEN "pump" ELSE "captureTooSmall"
  /\ UNCHANGED <<device, rate, selected, want, duplex, starts, fmt, format, capture, tryIds,
                 inventory, polls, listed>>

StartIsoPump ==
  /\ stage = "pump" \/ (stage = "rated" /\ ~duplex)
  /\ stage' = IF pumpCarries(format, want.rate) THEN "streaming" ELSE "tooSmall"
  /\ UNCHANGED <<device, rate, selected, want, duplex, starts, fmt, format, capture, tryIds,
                 inventory, polls, listed>>

--------------------------------------------------------------------------------
(* The Line6 profile.                                                      *)

\* The alternates numbered 2 that have both fixed endpoints.
line6Alts ==
  {i \in DOMAIN Alts : /\ Alts[i].number = 2
                       /\ {1, 130} \subseteq {ep.address : ep \in ToSet(Alts[i].eps)}}

\* The last such alternate of the first interface that has one.
line6SelectFormat ==
  LET iface == Least({Alts[i].iface : i \in line6Alts})
      mine == {i \in line6Alts : Alts[i].iface = iface}
      alt == CHOOSE i \in mine : \A j \in mine : j <= i
      At(address) == SelectInSeq(Alts[alt].eps, LAMBDA ep : ep.address = address)
  IN  [play |-> [noFormat EXCEPT !.alt = alt, !.ep = At(1)],
       capture |-> [noFormat EXCEPT !.alt = alt, !.ep = At(130)]]

\* While a session runs a second start is refused: one was stopped before.
StartLine6(wish) ==
  LET found == wish \in {line6Format, [line6Format EXCEPT !.bytes = 0]} /\ line6Alts # {}
  IN  /\ stage \in {"idle"} \cup Ended
      /\ device.line6
      /\ starts < MaxStarts
      /\ starts' = starts + 1
      /\ want' = wish /\ duplex' = TRUE
      /\ polls' = 0
      /\ \/ /\ stage' = IF found THEN "refused" ELSE "noMatch"
            /\ UNCHANGED <<format, capture>>
         \/ /\ found
            /\ format' = line6SelectFormat.play
            /\ capture' = line6SelectFormat.capture
            /\ stage' \in {"vendor", "refused"}
      /\ inventory' = {} /\ listed' = {}
      /\ UNCHANGED <<device, rate, selected, fmt, tryIds>>

\* line6VendorSetup(): the status stays busy, for so many polls.
Line6Busy ==
  /\ stage = "vendor"
  /\ polls' = polls + 1
  /\ stage' = IF polls' = MaxPolls THEN "noRate" ELSE "vendor"
  /\ UNCHANGED <<device, rate, selected, want, duplex, starts, fmt, format, capture, tryIds,
                 inventory, listed>>

\* It becomes zero and the commands that follow pass, or one of them fails.
Line6Answer(ok) ==
  /\ stage = "vendor"
  /\ stage' = IF ok THEN "capturePump" ELSE "noRate"
  /\ UNCHANGED <<device, rate, selected, want, duplex, starts, fmt, format, capture, tryIds,
                 inventory, polls, listed>>

--------------------------------------------------------------------------------

Begin ==
  \E wish \in Wanted :
    \/ \E both \in BOOLEAN : Select(wish, both)
    \/ StartLine6(wish)

Proceed ==
  \/ Refused \/ AltSet
  \/ \E id \in tryIds : \/ SetCur(id) \/ SetCurFails(id)
                         \/ \E ok \in BOOLEAN : GetCur(id, ok)
  \/ \E ok \in BOOLEAN : SetEndpointRate(ok) \/ Line6Answer(ok)
  \/ SelectCapture \/ StartCapturePump \/ StartIsoPump
  \/ Line6Busy

Next == EnumerateFormats \/ Begin \/ Proceed

Spec == Init /\ [][Next]_vars

--------------------------------------------------------------------------------
(* Properties.                                                             *)

\* The clock graph as the device has it: a selector passes on the clock of the
\* pin that it has selected.
Chains(n) == [0..n -> ToSet(ClockIds)]
Linked(a, b) == \E i \in DOMAIN device.clocks :
  LET c == device.clocks[i] IN ~c.source /\ c.id = a /\ c.pins[selected[i]] = b

\* The entities whose first pin is the one selected, and those that pass on the
\* rate they are given.
Straight == {ClockIds[i] : i \in {j \in DOMAIN device.clocks : selected[j] = 1}}
Unity == {c.id : c \in {d \in ToSet(device.clocks) : d.num = 1 /\ d.den = 1}}

\* A source drives a terminal through at most four of some entities.
Drives(s, terminal, via) == \E n \in 0..4 : \E chain \in Chains(n) :
  /\ chain[0] = TerminalClock(terminal)
  /\ chain[n] = s
  /\ \A k \in 1..n : chain[k - 1] \in via /\ Linked(chain[k - 1], chain[k])

\* The source that does; 0 if there is none.
SourceOf(terminal, via) ==
  LET sources == {s \in SourceIds : Drives(s, terminal, via)}
  IN  IF sources = {} THEN 0 ELSE CHOOSE s \in sources : TRUE

(* A terminal that a source drives, directly or through at most four       *)
(* selectors and multipliers, is resolved to that source: the rate is      *)
(* requested where it is settable, never on a selector.  The walk takes    *)
(* the first pin of every selector, so this is said only of selectors that *)
(* have that pin selected.                                                 *)
ResolvedIsSource ==
  LET source == SourceOf(Alts[format.alt].terminal, Straight)
  IN  stage \in {"setting", "rated"} /\ source # 0 => format.resolved = source

\* What each entity passes on, given what the entities passed on to it: a source
\* its rate, the others that of the pin selected, times their ratio.
Passed(out) == [i \in DOMAIN device.clocks |->
  LET c == device.clocks[i]
      from == EntityAt(c.pins[selected[i]])
  IN  IF c.source THEN rate[c.id]
      ELSE IF from = 0 THEN 0 ELSE (out[from] * c.num) \div c.den]

\* The rate a terminal is clocked at through at most four entities; 0 for none.
StreamRate(terminal) ==
  LET at == EntityAt(TerminalClock(terminal))
      silent == [i \in DOMAIN device.clocks |-> 0]
  IN  IF at = 0 THEN 0 ELSE Passed(Passed(Passed(Passed(Passed(silent)))))[at]

\* A stream is clocked the way the driver takes for granted: by a source,
\* through first pins and ratios of one.
Plain(terminal) == SourceOf(terminal, Straight \cap Unity) # 0

\* Playback runs at the rate asked for, unless the driver promoted another
\* clock entity over the one the topology names.
PlaybackRateTruthful ==
  LET terminal == Alts[format.alt].terminal
  IN  (device.uac2 /\ format.clock = format.resolved /\ Plain(terminal)) =>
        StreamRate(terminal) = want.rate

\* So does capture, promotion or not.
CaptureRateTruthful ==
  LET terminal == Alts[capture.alt].terminal
  IN  (device.uac2 /\ duplex /\ Plain(terminal)) => StreamRate(terminal) = want.rate

(* A stream that a source drives through at most four entities, all on     *)
(* their first pin and with a ratio of one, never runs at another rate     *)
(* than the one asked for, whichever requests failed on the way and        *)
(* whatever an earlier start left in the device: playback, unless another  *)
(* clock was promoted over it, because setSampleRate() accepts only a      *)
(* clock that took the rate or has it; capture because it is selected      *)
(* afterwards, by the clock accepted.  The driver reads neither the pin    *)
(* that a selector has selected nor the ratio of a multiplier: behind      *)
(* another pin or another ratio a stream may run at another rate.          *)
RateTruthful == stage = "streaming" => PlaybackRateTruthful /\ CaptureRateTruthful

(* The packet arithmetic of selectAltSetting() and that of startIsoPump(), *)
(* written separately, agree: an alternate that was selected is refused    *)
(* later only when another endpoint has its address, which is where        *)
(* libusb's lookup by address may find a smaller packet.                   *)
PumpCarriesSelected ==
  (stage = "tooSmall" /\ ~device.line6) =>
    \E i \in DOMAIN Alts : \E ep \in ToSet(Alts[i].eps) :
      /\ ep.address = Alts[format.alt].eps[format.ep].address
      /\ PacketSize(ep) < PacketSize(Alts[format.alt].eps[format.ep])

\* An alternate setting is what a format was listed for.
Offers(alt, f) ==
  /\ Listable(alt) /\ f = listing(alt, f.rate)
  /\ device.uac2 \/ f.rate \in ToSet(alt.rates)
Carried(alt, hz) == altFits(alt, alt.eps[outEndpoint(alt)], hz)

\* Every listed format is one that an alternate offers, and one for which
\* selectAltSetting() finds an alternate, unless the device has no AudioControl
\* interface or no alternate that offers it carries it in a packet.
Findable(f) ==
  LET offering == {i \in AltIndices : Offers(Alts[i], f)}
  IN  /\ offering # {}
      /\ (device.control /\ \E i \in offering : Carried(Alts[i], f.rate)) =>
           selectAltSetting(f) # noFormat
ListedFound == \A f \in listed : device.line6 \/ Findable(f)

\* The rate inventory is this start's: a UAC1 device's holds only rates of
\* alternates with the depth and channels asked for, and when every clock of a
\* UAC2 device refused the rate it holds every range they report.
InventoryOfRequest ==
  /\ ~device.uac2 => \A r \in inventory : \E i \in AltIndices :
        /\ sameDepth(Alts[i], want)
        /\ {r.min, r.max} \subseteq ToSet(Alts[i].rates)
        /\ Alts[i].continuous \/ r.min = r.max
  /\ stage = "noRate" /\ device.uac2 =>
        inventory = UNION {device.ranges[id] : id \in clocksToTry(format.clock)}

(* What the driver tells the application is true of the device: a format   *)
(* it lists is one that selectAltSetting() finds, given an AudioControl    *)
(* interface and a packet that carries it, neither of which the listing    *)
(* tests; the capture stream it negotiates has no more channels than it    *)
(* announces (the Line6 profile fixes both at two); and the rate inventory *)
(* is that of the request, whatever an earlier start of another format     *)
(* left.                                                                   *)
AnnouncedTruthful ==
  /\ ListedFound
  /\ (stage = "streaming" /\ duplex /\ ~device.line6) =>
       Alts[capture.alt].channels <= captureChannelCount
  /\ InventoryOfRequest

================================================================================
