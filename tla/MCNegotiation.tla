----------------------------- MODULE MCNegotiation -----------------------------
(* Devices for Negotiation: every clock topology of two entities, chains   *)
(* of up to six, selectors of two pins and multipliers under a fixed set   *)
(* of alternates; UAC1 and full-speed devices that differ in their         *)
(* alternates; and Line6 devices.                                          *)
EXTENDS Negotiation

Out(address, size, interval, sync) ==
  [address |-> address, in |-> FALSE, usage |-> "data", size |-> size, extra |-> 0,
   interval |-> interval, sync |-> sync]
In(address, usage, size) ==
  [address |-> address, in |-> TRUE, usage |-> usage, size |-> size, extra |-> 0,
   interval |-> 1, sync |-> 0]

Alt(iface, number, terminal, bits, eps) ==
  [iface |-> iface, number |-> number, terminal |-> terminal, channels |-> 2, bits |-> bits,
   bytes |-> bits \div 8, continuous |-> FALSE, rates |-> <<>>, eps |-> eps]

Idle(iface) == [Alt(iface, 0, 0, 0, <<>>) EXCEPT !.channels = 0]

Generic ==
  [line6 |-> FALSE, uac2 |-> TRUE, highSpeed |-> TRUE, control |-> TRUE,
   clocks |-> <<>>, terminals |-> <<>>, alts |-> <<>>, settable |-> {},
   selected |-> <<>>, clockRates |-> <<>>, ranges |-> <<>>]

\* Entities are numbered 1, 2, ...; a pin wired to 0 leads nowhere.
Source == [source |-> TRUE, pins |-> <<>>, num |-> 1, den |-> 1]
Pins(pins) == [Source EXCEPT !.source = FALSE, !.pins = pins]
Numbered(shapes) == [i \in DOMAIN shapes |-> [id |-> i] @@ shapes[i]]

Shapes == {Source} \cup {Pins(<<base>>) : base \in 0..2}
Topologies == {Numbered(<<a, b>>) : a \in Shapes, b \in Shapes}

\* Entity 1 is a source and every other one leads to the one before.
Chain(length) == Numbered([i \in 1..length |-> IF i = 1 THEN Source ELSE Pins(<<i - 1>>)])

\* Two sources under a selector of both, or under a multiplier of the first.
Selectors == {Numbered(<<Source, Source, Pins(pins)>>) : pins \in {<<1, 2>>, <<2, 1>>}}
Multipliers ==
  {Numbered(<<Source, Source, [Pins(<<1>>) EXCEPT !.num = ratio[1], !.den = ratio[2]]>>) :
     ratio \in {<<1, 1>>, <<2, 1>>, <<1, 2>>}}

SubRange(low, high, step) == [min |-> low, max |-> high, res |-> step]
Ranges == <<{SubRange(44100, 48000, 3900)}, {SubRange(48000, 48000, 0)}, {}, {}, {}, {}>>

\* A small alternate, one that fits, and two captures of which the second is
\* the packet clock.
DuplexAlts ==
  <<Idle(1),
    Alt(1, 1, 11, 16, <<Out(1, 20, 1, 0)>>),
    Alt(1, 2, 11, 16, <<Out(2, 24, 1, 0)>>),
    Alt(2, 1, 12, 16, <<In(129, "data", 28)>>),
    Alt(2, 2, 12, 16, <<In(130, "implicit", 28)>>)>>

Uac2(clocks, out, in, settable, first) ==
  [Generic EXCEPT
     !.clocks = clocks,
     !.terminals = <<[id |-> 11, clock |-> out], [id |-> 12, clock |-> in]>>,
     !.alts = DuplexAlts,
     !.settable = settable,
     !.selected = [i \in DOMAIN clocks |-> 1],
     !.clockRates = [i \in DOMAIN clocks |-> IF i = 1 THEN first ELSE 44100],
     !.ranges = [i \in DOMAIN clocks |-> Ranges[i]]]

Uac2Devices ==
  {Uac2(clocks, out, in, settable, first) :
     clocks \in Topologies, out \in 0..2, in \in 0..2, settable \in SUBSET {1, 2},
     first \in {44100, 48000}}
  \cup {Uac2(Chain(3), out, in, settable, 44100) :
          out \in 2..3, in \in 2..3, settable \in SUBSET {1, 3}}
  \cup {Uac2(Chain(length), length, in, settable, 44100) :
          length \in {5, 6}, in \in {1, 5}, settable \in SUBSET {1, 2}}
  \cup {[Uac2(clocks, out, in, settable, 44100) EXCEPT !.selected = <<1, 1, pin>>] :
          clocks \in Selectors, out \in {1, 3}, in \in {1, 3},
          settable \in SUBSET {1, 2, 3}, pin \in 1..2}
  \cup {Uac2(clocks, out, in, settable, 44100) :
          clocks \in Multipliers, out \in {1, 3}, in \in {1, 3}, settable \in SUBSET {1, 2, 3}}
  \cup {Uac2(<<>>, 0, 0, {}, 44100)}

Uac1(alts) == [Generic EXCEPT !.uac2 = FALSE, !.highSpeed = FALSE, !.alts = alts]

\* Discrete 16-bit rates that an exact packet just carries, or does not; a
\* continuous 24-bit range; captures with explicit feedback or a named partner.
Uac1Devices ==
  {Uac1(<<[Alt(1, 1, 0, 16, <<Out(1, size, interval, sync)>> \o extra)
             EXCEPT !.rates = <<44100, 48000>>],
          [Alt(1, 2, 0, 24, <<Out(shared, 588, 2, 0)>>)
             EXCEPT !.continuous = TRUE, !.rates = <<44100, 48000>>],
          [Alt(2, 1, 0, 16, <<In(130, "data", 192)>>) EXCEPT !.channels = 1]>>) :
     size \in {176, 180, 192}, interval \in {0, 1}, sync \in {0, 130, 131},
     extra \in {<<>>, <<In(129, "feedback", 4)>>}, shared \in {1, 2}}

Line6Devices ==
  {[Uac1(<<Alt(1, 1, 0, 16, <<Out(1, 192, 1, 0)>>),
           Alt(1, number, 0, 16, <<Out(1, 192, 1, 0), In(130, "data", 192)>>)>>)
      EXCEPT !.line6 = TRUE] : number \in {2, 3}}

\* No AudioControl interface; and a capture on the interface of playback.
OddDevices ==
  {[Generic EXCEPT !.alts = DuplexAlts, !.control = FALSE],
   [Generic EXCEPT !.alts =
      <<Alt(1, 1, 11, 16, <<Out(1, 24, 1, 0)>>), Alt(1, 2, 12, 16, <<In(129, "data", 28)>>)>>],
   [Generic EXCEPT !.alts =
      <<Alt(1, 1, 11, 16, <<Out(1, 24, 1, 0)>>), Alt(2, 1, 12, 16, <<In(129, "data", 20)>>)>>]}

MCDevices == Uac2Devices \cup Uac1Devices \cup Line6Devices \cup OddDevices

MCWanted ==
  {[rate |-> hz, bits |-> 16, channels |-> 2, bytes |-> 2] : hz \in {44100, 48000}}
  \cup {[rate |-> 48000, bits |-> 24, channels |-> 2, bytes |-> 0]}

================================================================================
