------------------------- MODULE DriverLifecycleProofs -------------------------
(***************************************************************************)
(* Proofs about the control side of the driver, for every set of           *)
(* descriptors and interfaces and every transfer count, with the one       *)
(* control thread the documentation asks for (~SharedClose).               *)
(***************************************************************************)
EXTENDS DriverLifecycle, SequenceTheorems, TLAPS

\* The parts of the control calls.
Parts ==
  {"stop", "drainOut", "drainIn", "release", "open", "close", "check", "await",
   "exit", "reset", "prepare", "claim", "capture", "prime", "metadata", "output",
   "direct", "line6", "fail", "line6Release"}

(* The shape of `todo': which part of a control call follows which, and     *)
(* which a call may return from.                                            *)
MayFollow(p, q) ==
  \/ p \in {"stop", "release"} /\ q \in {"open", "stop", "close"}
  \/ p = "drainOut" /\ q \in {"drainIn", "stop", "fail"}
  \/ p = "drainIn" /\ q \in {"release", "reset", "line6Release", "stop", "fail"}
  \/ p = "close" /\ q \in {"check", "exit"}
  \/ p = "await" /\ q = "stop"
  \/ p = "reset" /\ q = "prepare"
  \/ p = "prepare" /\ q \in {"claim", "direct"}
  \/ p \in {"claim", "line6"} /\ q = "capture"
  \/ p = "capture" /\ q \in {"prime", "metadata"}
  \/ p \in {"prime", "metadata"} /\ q = "output"

MayEnd(p) ==
  p \in {"stop", "release", "drainOut", "open", "check", "exit", "direct",
         "output", "fail", "line6Release"}

\* The parts only one profile has, and those that claim an interface.
GenericParts == {"reset", "prepare", "claim", "direct", "prime"}
Line6Only == {"line6", "fail", "line6Release"}
ClaimingParts == {"prepare", "claim", "line6"}

\* A part still to come fits the profile l and the device d.
PartOK(p, l, d) ==
  /\ p \in GenericParts => ~l
  /\ p \in Line6Only => l
  /\ p \in ClaimingParts => d # NoIface

PlanOK(s, l, d) ==
  /\ s \in Seq(Parts)
  /\ \A k \in 1..Len(s) :
       /\ PartOK(s[k], l, d)
       /\ IF k = Len(s) THEN MayEnd(s[k]) ELSE MayFollow(s[k], s[k + 1])

\* The plan of a close() that has begun: nothing but its stop().
CloseInv ==
  closing => todo \in {<<>>, <<"stop">>, <<"drainOut", "drainIn", "release">>,
                       <<"drainIn", "release">>, <<"release">>}

Types ==
  /\ line6 \in BOOLEAN
  /\ outClaim \in BOOLEAN /\ inClaim \in BOOLEAN /\ ctlClaim \in BOOLEAN
  /\ outXfers \in BOOLEAN /\ inXfers \in BOOLEAN
  /\ closing \in BOOLEAN
  /\ inflight \in Nat /\ captureInflight \in Nat
  /\ evt \in {"none", "running", "exited"}

NoClaims == ~outClaim /\ ~inClaim /\ ~ctlClaim

\* What a claim names, and who can have one.
ClaimInv ==
  /\ outClaim => outIface \in StreamIfaces
  /\ inClaim => inIface \in StreamIfaces
  /\ ctlClaim => ctlIface \in CtlIfaces
  /\ device = NoIface => NoClaims
  /\ line6 => ~inClaim /\ ~ctlClaim

\* A live transfer belongs to a pool, and a capture pool to an interface.
PoolInv ==
  /\ inflight > 0 => outXfers
  /\ captureInflight > 0 => inXfers
  /\ inXfers /\ ~line6 => inClaim

\* What each part of a start finds.
StartInv ==
  /\ At("claim") \/ At("capture") \/ At("prime") \/ At("metadata") \/ At("output")
       \/ At("direct") => outClaim /\ ~outXfers /\ inflight = 0
  /\ At("claim") \/ At("capture") => ~inXfers /\ captureInflight = 0
  /\ At("claim") \/ At("direct") \/ At("prime") \/ (At("capture") /\ ~line6) =>
       evt = "none"
  /\ At("claim") => ~inClaim
  /\ At("capture") /\ ~line6 => inClaim

\* Who joins the event thread: the pool it serves, or a part still to come.
EventInv ==
  evt # "none" =>
    \/ outXfers
    \/ At("metadata") \/ At("output") \/ At("fail") \/ At("drainOut")
    \/ At("stop") /\ ~line6
    \/ At("capture") /\ line6
    \/ At("drainIn") /\ Tail(todo) # <<>> /\ Head(Tail(todo)) = "fail"

\* A stop() that emptied both pools has given every interface back.
StopInv ==
  At("open") \/ At("close") \/ (closing /\ todo = <<>>) => (Stopped => NoClaims)

\* The invariant of the resources, and that of the call under way.
ResourceInv == Types /\ ClaimInv /\ ClaimsTracked /\ PoolInv /\ ReleasedQuiescent
PlanInv == PlanOK(todo, line6, device) /\ CloseInv
CallInv == StartInv /\ EventInv /\ StopInv

IInv == ResourceInv /\ PlanInv /\ CallInv

-----------------------------------------------------------------------------
(* Plans.                                                                   *)

(* The rest of a plan is a plan, and its head may follow the part done.     *)
LEMMA PlanTail ==
  ASSUME NEW s, NEW l, NEW d, PlanOK(s, l, d), s # <<>>
  PROVE  /\ PlanOK(Tail(s), l, d)
         /\ PartOK(Head(s), l, d)
         /\ IF Tail(s) = <<>> THEN MayEnd(Head(s))
                              ELSE MayFollow(Head(s), Head(Tail(s)))
  <1> DEFINE t == Tail(s)
  <1>1. s \in Seq(Parts) /\ Len(s) \in Nat \ {0} /\ Head(s) = s[1]
    BY DEF PlanOK
  <1>2. t \in Seq(Parts) /\ Len(t) \in Nat /\ Len(t) = Len(s) - 1
    BY <1>1, HeadTailProperties, LenProperties
  <1>3. \A k \in 1..Len(t) : t[k] = s[k + 1]
    BY <1>1, HeadTailProperties
  <1>4. /\ PartOK(s[1], l, d)
        /\ IF 1 = Len(s) THEN MayEnd(s[1]) ELSE MayFollow(s[1], s[1 + 1])
    BY <1>1, 1 \in 1..Len(s) DEF PlanOK
  <1>5. t # <<>> => Len(t) # 0 /\ Head(t) = t[1]
    BY <1>2, EmptySeq
  <1>6. t = <<>> => Len(t) = 0
    BY EmptySeq
  <1> HIDE DEF t
  <1>7. PlanOK(t, l, d)
    <2> SUFFICES ASSUME NEW k \in 1..Len(t)
                 PROVE  /\ PartOK(t[k], l, d)
                        /\ IF k = Len(t) THEN MayEnd(t[k]) ELSE MayFollow(t[k], t[k + 1])
      BY <1>2 DEF PlanOK
    <2>1. k + 1 \in 1..Len(s) /\ (k = Len(t) <=> k + 1 = Len(s))
      BY <1>1, <1>2
    <2>2. k # Len(t) => k + 1 \in 1..Len(t)
      BY <1>2
    <2> QED
      BY <1>3, <2>1, <2>2 DEF PlanOK
  <1>8. t # <<>> => Head(t) = s[1 + 1]
    BY <1>2, <1>3, <1>5, 1 \in 1..Len(t) \/ Len(t) = 0
  <1>9. (t = <<>>) <=> (Len(s) = 1)
    BY <1>1, <1>2, <1>5, <1>6
  <1> QED
    BY <1>1, <1>4, <1>7, <1>8, <1>9 DEF t

(* A sequence with one element in front.                                    *)
LEMMA Singleton ==
  ASSUME NEW S, NEW p \in S
  PROVE  <<p>> \in Seq(S) /\ Len(<<p>>) = 1 /\ <<p>>[1] = p
  OBVIOUS

LEMMA Prepended ==
  ASSUME NEW S, NEW p \in S, NEW s \in Seq(S)
  PROVE  <<p>> \o s # <<>> /\ Head(<<p>> \o s) = p /\ Tail(<<p>> \o s) = s
  <1>1. <<p>> \o s # <<>> /\ Head(<<p>> \o s) = p
    OBVIOUS
  <1>2. Tail(<<p>> \o s) = s
    OBVIOUS
  <1> QED
    BY <1>1, <1>2

(* A part may be put in front of a plan it leads to.                        *)
LEMMA PlanPrepend ==
  ASSUME NEW s, NEW l, NEW d, NEW p \in Parts, PlanOK(s, l, d), PartOK(p, l, d),
         IF s = <<>> THEN MayEnd(p) ELSE MayFollow(p, Head(s))
  PROVE  /\ PlanOK(<<p>> \o s, l, d)
         /\ <<p>> \o s # <<>> /\ Head(<<p>> \o s) = p /\ Tail(<<p>> \o s) = s
  <1> DEFINE r == <<p>> \o s
  <1>1. s \in Seq(Parts) /\ Len(s) \in Nat
    BY LenProperties DEF PlanOK
  <1>2. r \in Seq(Parts) /\ Len(r) = Len(s) + 1
    <2>1. <<p>> \in Seq(Parts) /\ Len(<<p>>) = 1
      BY Singleton
    <2>2. r \in Seq(Parts)
      BY <1>1, <2>1, ConcatProperties
    <2>3. Len(r) = Len(s) + 1
      BY <1>1, <2>1, ConcatProperties
    <2> QED
      BY <2>2, <2>3
  <1>3. \A k \in 1..Len(s) + 1 : r[k] = IF k = 1 THEN p ELSE s[k - 1]
    <2>1. <<p>> \in Seq(Parts) /\ Len(<<p>>) = 1 /\ <<p>>[1] = p
      BY Singleton
    <2> QED
      BY <1>1, <2>1, ConcatProperties
  <1>4. r # <<>> /\ Head(r) = p /\ Tail(r) = s
    BY <1>1, Prepended
  <1>5. s # <<>> => Head(s) = s[1] /\ Len(s) # 0
    BY <1>1
  <1>6. s = <<>> => Len(s) = 0
    BY EmptySeq
  <1> HIDE DEF r
  <1>7. ASSUME NEW k \in 1..Len(r)
        PROVE  /\ PartOK(r[k], l, d)
               /\ IF k = Len(r) THEN MayEnd(r[k]) ELSE MayFollow(r[k], r[k + 1])
    <2>1. CASE k = 1
      <3>1. (k = Len(r)) <=> (s = <<>>)
        BY <1>1, <1>2, <1>5, <1>6, <2>1
      <3>2. s # <<>> => r[k + 1] = s[1]
        <4>1. s # <<>> => k + 1 \in 1..Len(s) + 1 /\ k + 1 # 1 /\ (k + 1) - 1 = 1
          BY <1>1, <1>5, <2>1
        <4> QED
          BY <1>3, <4>1
      <3>3. r[k] = p
        BY <1>1, <1>2, <1>3, <2>1
      <3> QED
        BY <1>5, <3>1, <3>2, <3>3
    <2>2. CASE k # 1
      <3> DEFINE j == k - 1
      <3>1. j \in 1..Len(s) /\ k = j + 1 /\ k \in 1..Len(s) + 1
        BY <1>1, <1>2, <2>2
      <3>2. (k = Len(r)) <=> (j = Len(s))
        BY <1>1, <1>2, <3>1
      <3>3. r[k] = s[j]
        BY <1>3, <2>2, <3>1
      <3>4. j # Len(s) => r[k + 1] = s[j + 1]
        <4>1. j # Len(s) => k + 1 \in 1..Len(s) + 1 /\ k + 1 # 1 /\ (k + 1) - 1 = j + 1
          BY <1>1, <3>1
        <4> QED
          BY <1>3, <4>1
      <3> HIDE DEF j
      <3> QED
        BY <3>1, <3>2, <3>3, <3>4 DEF PlanOK
    <2> QED
      BY <2>1, <2>2
  <1>8. PlanOK(r, l, d)
    BY <1>2, <1>7 DEF PlanOK
  <1> QED
    BY <1>4, <1>8 DEF r

(* The empty plan, and the plan of one part a call may return from.         *)
LEMMA PlanEmpty ==
  ASSUME NEW l, NEW d
  PROVE  PlanOK(<<>>, l, d)
  BY DEF PlanOK

LEMMA PlanOne ==
  ASSUME NEW l, NEW d, NEW p \in Parts, MayEnd(p), PartOK(p, l, d)
  PROVE  PlanOK(<<p>>, l, d)
  <1>1. <<p>> \in Seq(Parts) /\ Len(<<p>>) = 1 /\ <<p>>[1] = p
    BY Singleton
  <1>2. \A k \in 1..Len(<<p>>) : k = 1
    BY <1>1
  <1> QED
    BY <1>1, <1>2 DEF PlanOK

-----------------------------------------------------------------------------
(* The steps that leave the control call where it is.                       *)

(* A step that changes neither the plan nor what the resource invariant is  *)
(* about.                                                                   *)
LEMMA Untouched ==
  ASSUME IInv, UNCHANGED <<device, line6, owned, claims, pools, evt, todo, closing>>
  PROVE  IInv'
  BY DEF IInv, ResourceInv, PlanInv, CallInv, Types, ClaimInv, NoClaims, ClaimsTracked,
         Tracked, Held, PoolInv, ReleasedQuiescent, Stopped, CloseInv, StartInv,
         EventInv, StopInv, At, claims, pools

(* A completion retires, or fails the transport: the pools shrink.          *)
LEMMA RetireStep ==
  ASSUME IInv,
         \/ OnIsoStopped \/ OnIsoFails \/ OnCaptureStopped \/ OnCaptureFails
  PROVE  IInv'
  <1>1. /\ UNCHANGED <<device, line6, owned, claims, outXfers, inXfers, evt, todo,
                       closing>>
        /\ inflight' \in Nat /\ captureInflight' \in Nat
        /\ inflight' <= inflight /\ captureInflight' <= captureInflight
    BY DEF OnIsoStopped, OnIsoFails, OnCaptureStopped, OnCaptureFails, IInv,
           ResourceInv, Types
  <1>2. ResourceInv'
    BY <1>1 DEF IInv, ResourceInv, Types, ClaimInv, NoClaims, ClaimsTracked, Tracked,
                Held, PoolInv, ReleasedQuiescent, Stopped, claims
  <1>3. PlanInv'
    BY <1>1 DEF IInv, PlanInv, CloseInv
  <1>4. CallInv'
    BY <1>1 DEF IInv, ResourceInv, Types, CallInv, StartInv, EventInv, StopInv, At,
                Stopped, NoClaims, claims
  <1> QED
    BY <1>2, <1>3, <1>4 DEF IInv

(* The event loop ends.                                                     *)
LEMMA EventLoopStep ==
  ASSUME IInv, EventLoopExit
  PROVE  IInv'
  <1>1. /\ UNCHANGED <<device, line6, owned, claims, pools, todo, closing>>
        /\ evt # "none" /\ evt' = "exited"
    BY DEF EventLoopExit
  <1>2. ResourceInv'
    BY <1>1 DEF IInv, ResourceInv, Types, ClaimInv, NoClaims, ClaimsTracked, Tracked,
                Held, PoolInv, ReleasedQuiescent, Stopped, claims, pools
  <1>3. PlanInv'
    BY <1>1 DEF IInv, PlanInv, CloseInv
  <1>4. CallInv'
    BY <1>1 DEF IInv, CallInv, StartInv, EventInv, StopInv, At, Stopped, NoClaims,
                claims, pools
  <1> QED
    BY <1>2, <1>3, <1>4 DEF IInv

-----------------------------------------------------------------------------
(* The steps of a call.                                                     *)

(* Going on with the next part.                                             *)
LEMMA NextPart ==
  ASSUME PlanInv, todo # <<>>, Done, UNCHANGED <<line6, device>>
  PROVE  /\ PlanOK(todo, line6, device)'
         /\ PartOK(Head(todo), line6, device)
         /\ IF todo' = <<>> THEN MayEnd(Head(todo))
                            ELSE MayFollow(Head(todo), Head(todo'))
  BY PlanTail DEF PlanInv, Done

(* A close() under way is in its stop().                                    *)
LEMMA CloseHead ==
  ASSUME CloseInv, closing, todo # <<>>
  PROVE  /\ Head(todo) \in {"stop", "drainOut", "drainIn", "release"}
         /\ Head(todo) \in {"drainOut", "drainIn"} => Tail(todo) # <<>>
         /\ Head(todo) \in {"stop", "release"} => Tail(todo) = <<>>
         /\ Tail(todo) \in {<<>>, <<"drainIn", "release">>, <<"release">>}
  <1>1. CASE todo = <<"stop">>
    BY <1>1
  <1>2. CASE todo = <<"drainOut", "drainIn", "release">>
    BY <1>2
  <1>3. CASE todo = <<"drainIn", "release">>
    BY <1>3
  <1>4. CASE todo = <<"release">>
    BY <1>4
  <1> QED
    BY <1>1, <1>2, <1>3, <1>4 DEF CloseInv

(* What the resources say does not depend on the plan.                      *)
LEMMA ResourcesKept ==
  ASSUME ResourceInv, UNCHANGED <<device, line6, owned, claims, pools, evt, closing>>
  PROVE  ResourceInv'
  BY DEF ResourceInv, Types, ClaimInv, NoClaims, ClaimsTracked, Tracked, Held, PoolInv,
         ReleasedQuiescent, Stopped, claims, pools

(* What the claims say depends on nothing else.                             *)
LEMMA ClaimsKept ==
  ASSUME ResourceInv, UNCHANGED <<device, line6, owned, claims>>
  PROVE  ClaimInv' /\ ClaimsTracked'
  BY DEF ResourceInv, ClaimInv, NoClaims, ClaimsTracked, Tracked, Held, claims

(* The plans the calls begin with, and those of the destructor and of the   *)
(* Line6 cleanup.                                                           *)
LEMMA FixedPlans ==
  ASSUME NEW l \in BOOLEAN, NEW d
  PROVE  /\ PlanOK(<<"stop", "open">>, l, d)
         /\ PlanOK(<<"stop", "stop", "close", "check">>, l, d)
         /\ PlanOK(<<"await", "stop", "stop", "close", "exit">>, l, d)
         /\ l => PlanOK(TearDown("line6Release"), l, d)
         /\ l /\ d # NoIface => PlanOK(Line6Parts, l, d)
         /\ ~l /\ d # NoIface =>
              /\ PlanOK(<<"prepare", "direct">>, l, d)
              /\ PlanOK(<<"prepare", "claim", "capture", "prime", "output">>, l, d)
  <1> USE DEF PlanOK, PartOK, MayEnd, MayFollow, Parts, GenericParts, Line6Only,
              ClaimingParts
  <1>1. PlanOK(<<"stop", "open">>, l, d)
    OBVIOUS
  <1>2. PlanOK(<<"stop", "stop", "close", "check">>, l, d)
    OBVIOUS
  <1>3. PlanOK(<<"await", "stop", "stop", "close", "exit">>, l, d)
    OBVIOUS
  <1>4. ASSUME l PROVE PlanOK(TearDown("line6Release"), l, d)
    BY <1>4 DEF TearDown
  <1>5. ASSUME l, d # NoIface PROVE PlanOK(Line6Parts, l, d)
    BY <1>5 DEF Line6Parts
  <1>6. ASSUME ~l, d # NoIface PROVE PlanOK(<<"prepare", "direct">>, l, d)
    BY <1>6
  <1>7. ASSUME ~l, d # NoIface
        PROVE  PlanOK(<<"prepare", "claim", "capture", "prime", "output">>, l, d)
    BY <1>7
  <1> HIDE DEF PlanOK
  <1> QED
    BY <1>1, <1>2, <1>3, <1>4, <1>5, <1>6, <1>7

(* A call begins.                                                           *)
LEMMA CallBegins ==
  ASSUME IInv, todo = <<>>, todo' # <<>>, Head(todo') \in {"stop", "prepare", "line6"},
         UNCHANGED <<device, line6, owned, claims, pools, evt>>,
         closing' \in BOOLEAN, closing' => todo' = <<"stop">>,
         PlanOK(todo, line6, device)'
  PROVE  IInv'
  <1>1. ResourceInv'
    BY DEF IInv, ResourceInv, Types, ClaimInv, NoClaims, ClaimsTracked, Tracked, Held,
           PoolInv, ReleasedQuiescent, Stopped, claims, pools
  <1>2. PlanInv'
    BY DEF PlanInv, CloseInv
  <1>3. CallInv'
    BY DEF IInv, CallInv, StartInv, EventInv, StopInv, At, pools
  <1> QED
    BY <1>1, <1>2, <1>3 DEF IInv

(* The owner's calls.                                                       *)
LEMMA OwnerStep ==
  ASSUME ~SharedClose, IInv, Owner
  PROVE  IInv'
  <1>0. line6 \in BOOLEAN /\ closing \in BOOLEAN
    BY DEF IInv, ResourceInv, Types
  <1>1. CASE Open
    BY <1>0, <1>1, CallBegins, FixedPlans DEF Open, Call, Free
  <1>2. CASE Start
    <2>1. PlanOK(todo, line6, device)'
      BY <1>0, <1>2, FixedPlans DEF Start, Call
    <2> QED
      BY <1>0, <1>2, <2>1, CallBegins DEF Start, Call, Free, Line6Parts
  <1>3. CASE StartDuplex
    <2>1. PlanOK(todo, line6, device)'
      BY <1>0, <1>3, FixedPlans DEF StartDuplex, Call
    <2> QED
      BY <1>0, <1>3, <2>1, CallBegins DEF StartDuplex, Call, Free, Line6Parts
  <1>4. PlanOK(<<"stop">>, line6, device)
    BY PlanOne DEF Parts, MayEnd, PartOK, GenericParts, Line6Only, ClaimingParts
  <1>5. CASE Stop
    BY <1>0, <1>4, <1>5, CallBegins DEF Stop, Call, Free
  <1>6. CASE Close
    BY <1>0, <1>4, <1>6, CallBegins DEF Close, Free
  <1>7. CASE Destroy
    BY <1>0, <1>7, CallBegins, FixedPlans DEF Destroy, Call, Free
  <1>8. ASSUME NEW n \in 0..Transfers, StartPlayback(n)
        PROVE  IInv'
    <2>1. /\ todo = <<>> /\ ~closing /\ outXfers
          /\ n \in Nat /\ inflight' = n
          /\ todo' = <<>> \/ todo' = <<"drainOut">>
          /\ UNCHANGED <<device, line6, owned, claims, outXfers, inXfers,
                         captureInflight, evt, closing>>
      BY <1>0, <1>8, LifecycleAssumption DEF StartPlayback, Free, LifecycleAssumption
    <2>2. ResourceInv'
      BY <2>1 DEF IInv, ResourceInv, Types, ClaimInv, NoClaims, ClaimsTracked, Tracked,
                  Held, PoolInv, ReleasedQuiescent, Stopped, claims
    <2>3. PlanOK(<<"drainOut">>, line6, device)
      BY PlanOne DEF Parts, MayEnd, PartOK, GenericParts, Line6Only, ClaimingParts
    <2>4. PlanInv'
      BY <2>1, <2>3, PlanEmpty DEF PlanInv, CloseInv
    <2>5. CallInv'
      BY <2>1 DEF CallInv, StartInv, EventInv, StopInv, At
    <2> QED
      BY <2>2, <2>4, <2>5 DEF IInv
  <1> QED
    BY <1>1, <1>2, <1>3, <1>5, <1>6, <1>7, <1>8 DEF Owner

(* The teardown of both pumps may be put in front of what follows it.       *)
LEMMA PlanTearDown ==
  ASSUME NEW s, NEW l, NEW d, PlanOK(s, l, d), NEW last \in {"release", "reset"},
         PartOK(last, l, d), IF s = <<>> THEN MayEnd(last) ELSE MayFollow(last, Head(s))
  PROVE  /\ PlanOK(TearDown(last) \o s, l, d)
         /\ TearDown(last) \o s # <<>> /\ Head(TearDown(last) \o s) = "drainOut"
  <1> DEFINE r == <<last>> \o s
             q == <<"drainIn">> \o r
  <1>1. last \in Parts /\ "drainIn" \in Parts /\ "drainOut" \in Parts
    BY DEF Parts
  <1>2. PlanOK(r, l, d) /\ r # <<>> /\ Head(r) = last
    BY <1>1, PlanPrepend
  <1>3. /\ PartOK("drainIn", l, d) /\ PartOK("drainOut", l, d)
        /\ MayFollow("drainIn", last) /\ MayFollow("drainOut", "drainIn")
    BY DEF PartOK, MayFollow, GenericParts, Line6Only, ClaimingParts
  <1> HIDE DEF r
  <1>4. PlanOK(q, l, d) /\ q # <<>> /\ Head(q) = "drainIn"
    BY <1>1, <1>2, <1>3, PlanPrepend
  <1>5. PlanOK(<<"drainOut">> \o q, l, d)
    <2> HIDE DEF q
    <2> QED
      BY <1>1, <1>3, <1>4, PlanPrepend
  <1>6. s \in Seq(Parts)
    BY DEF PlanOK
  <1>7. TearDown(last) \o s = <<"drainOut">> \o q
    BY <1>1, <1>6 DEF TearDown, q, r
  <1>8. TearDown(last) \o s # <<>> /\ Head(TearDown(last) \o s) = "drainOut"
    BY <1>1, <1>6 DEF TearDown
  <1> QED
    BY <1>5, <1>7, <1>8

(* stop() begins: it takes both pumps down, or has nothing to do.           *)
LEMMA StopStep ==
  ASSUME IInv, StopBegins
  PROVE  IInv'
  <1>1. /\ todo # <<>> /\ Head(todo) = "stop"
        /\ UNCHANGED <<device, line6, owned, claims, pools, evt, closing>>
    BY DEF StopBegins, At
  <1>2. /\ PlanOK(Tail(todo), line6, device)
        /\ Tail(todo) # <<>> => Head(Tail(todo)) \in {"open", "stop", "close"}
    BY <1>1, PlanTail DEF IInv, PlanInv, MayFollow
  <1>3. Tail(todo) \in Seq(Parts)
    BY <1>2 DEF PlanOK
  <1>4. ResourceInv'
    BY <1>1, ResourcesKept DEF IInv
  <1>5. CASE NothingToStop
    <2>1. todo' = Tail(todo)
      BY <1>3, <1>5 DEF StopBegins
    <2>2. ~outClaim /\ ~inClaim /\ ~ctlClaim /\ ~outXfers /\ ~inXfers
      BY <1>5 DEF NothingToStop
    <2>3. PlanInv'
      BY <1>1, <1>2, <2>1, CloseHead DEF IInv, PlanInv, CloseInv
    <2>4. evt = "none"
      BY <1>1, <2>2 DEF IInv, ResourceInv, ReleasedQuiescent, CallInv, EventInv, At
    <2>5. CallInv'
      BY <1>1, <1>2, <2>1, <2>2, <2>4
         DEF CallInv, StartInv, EventInv, StopInv, At, NoClaims, claims, pools
    <2> QED
      BY <1>4, <2>3, <2>5 DEF IInv
  <1>6. CASE ~NothingToStop
    <2>1. todo' = TearDown("release") \o Tail(todo)
      BY <1>6 DEF StopBegins
    <2>2. /\ PlanOK(todo', line6, device)
          /\ todo' # <<>> /\ Head(todo') = "drainOut"
      BY <1>2, <2>1, PlanTearDown
         DEF PartOK, MayEnd, MayFollow, GenericParts, Line6Only, ClaimingParts
    <2>3. CloseInv'
      <3>1. closing => Tail(todo) = <<>>
        BY <1>1, CloseHead DEF IInv, PlanInv
      <3>2. TearDown("release") \o <<>> = <<"drainOut", "drainIn", "release">>
        BY DEF TearDown
      <3> QED
        BY <1>1, <2>1, <3>1, <3>2 DEF CloseInv
    <2>4. CallInv'
      BY <1>1, <2>2 DEF CallInv, StartInv, EventInv, StopInv, At
    <2> QED
      BY <1>1, <1>4, <2>2, <2>3, <2>4 DEF IInv, PlanInv
  <1> QED
    BY <1>5, <1>6

(* The pumps are drained, or their deadlines pass.                          *)
LEMMA DrainStep ==
  ASSUME IInv, DrainOut \/ DrainOutExpires \/ DrainIn \/ DrainInExpires
  PROVE  IInv'
  <1> USE DEF At
  <1>1. /\ todo # <<>> /\ Done /\ Head(todo) \in {"drainOut", "drainIn"}
        /\ UNCHANGED <<device, line6, owned, claims, inflight, captureInflight, closing>>
    BY DEF DrainOut, DrainOutExpires, DrainIn, DrainInExpires, pools
  <1>2. /\ PlanOK(todo, line6, device)'
        /\ IF todo' = <<>> THEN Head(todo) = "drainOut"
                           ELSE MayFollow(Head(todo), Head(todo'))
    BY <1>1, NextPart DEF IInv, PlanInv, MayEnd
  <1>3. closing => todo' # <<>>
    BY <1>1, CloseHead DEF IInv, PlanInv, Done
  <1>4. PlanInv'
    BY <1>1, <1>2, CloseHead DEF IInv, PlanInv, CloseInv, Done
  <1>5. CASE DrainOut
    <2>1. Head(todo) = "drainOut" /\ inflight = 0 /\ evt' = "none" /\ outXfers' = FALSE
          /\ UNCHANGED inXfers
      BY <1>5 DEF DrainOut, IInv, ResourceInv, Types
    <2>2. ResourceInv'
      <3>1. ClaimInv' /\ ClaimsTracked'
        BY <1>1, ClaimsKept DEF IInv
      <3>2. Types'
        BY <1>1, <2>1 DEF IInv, ResourceInv, Types, claims
      <3>3. PoolInv' /\ ReleasedQuiescent'
        BY <1>1, <2>1 DEF IInv, ResourceInv, Types, PoolInv, ReleasedQuiescent, Stopped,
                          claims
      <3> QED
        BY <3>1, <3>2, <3>3 DEF ResourceInv
    <2>3. CallInv'
      BY <1>1, <1>2, <1>3, <2>1
         DEF CallInv, StartInv, EventInv, StopInv, MayFollow
    <2> QED
      BY <1>4, <2>2, <2>3 DEF IInv
  <1>6. CASE DrainIn
    <2>1. Head(todo) = "drainIn" /\ captureInflight = 0 /\ inXfers' = FALSE
          /\ UNCHANGED <<outXfers, evt>>
      BY <1>6 DEF DrainIn
    <2>2. ResourceInv'
      <3>1. ClaimInv' /\ ClaimsTracked'
        BY <1>1, ClaimsKept DEF IInv
      <3>2. Types'
        BY <1>1, <2>1 DEF IInv, ResourceInv, Types, claims
      <3>3. PoolInv' /\ ReleasedQuiescent'
        BY <1>1, <2>1 DEF IInv, ResourceInv, Types, PoolInv, ReleasedQuiescent, Stopped,
                          claims
      <3> QED
        BY <3>1, <3>2, <3>3 DEF ResourceInv
    <2>3. CallInv'
      BY <1>1, <1>2, <1>3, <2>1
         DEF IInv, CallInv, StartInv, EventInv, StopInv, MayFollow, Done
    <2> QED
      BY <1>4, <2>2, <2>3 DEF IInv
  <1>7. CASE DrainOutExpires
    <2>1. Head(todo) = "drainOut" /\ inflight > 0 /\ UNCHANGED <<outXfers, inXfers, evt>>
      BY <1>7 DEF DrainOutExpires, pools
    <2>2. outXfers
      BY <2>1 DEF IInv, ResourceInv, PoolInv
    <2>3. ResourceInv'
      BY <1>1, <2>1, ResourcesKept DEF IInv, pools
    <2>4. CallInv'
      BY <1>1, <1>2, <1>3, <2>1, <2>2
         DEF CallInv, StartInv, EventInv, StopInv, MayFollow
    <2> QED
      BY <1>4, <2>3, <2>4 DEF IInv
  <1>8. CASE DrainInExpires
    <2>1. Head(todo) = "drainIn" /\ UNCHANGED <<outXfers, inXfers, evt>>
      BY <1>8 DEF DrainInExpires, pools
    <2>2. ResourceInv'
      BY <1>1, <2>1, ResourcesKept DEF IInv, pools
    <2>3. CallInv'
      BY <1>1, <1>2, <1>3, <2>1
         DEF IInv, CallInv, StartInv, EventInv, StopInv, MayFollow, Done
    <2> QED
      BY <1>4, <2>2, <2>3 DEF IInv
  <1> QED
    BY <1>5, <1>6, <1>7, <1>8

(* The rest of stop(): both pools empty, every interface goes back.         *)
LEMMA ReleaseStep ==
  ASSUME IInv, Release
  PROVE  IInv'
  <1> USE DEF At
  <1>1. /\ todo # <<>> /\ Done /\ Head(todo) = "release"
        /\ UNCHANGED <<device, line6, outIface, ctlIface, pools, evt, closing>>
    BY DEF Release
  <1>2. /\ PlanOK(todo, line6, device)'
        /\ todo' # <<>> => Head(todo') \in {"open", "stop", "close"}
    BY <1>1, NextPart DEF IInv, PlanInv, MayFollow
  <1>3. PlanInv'
    BY <1>1, <1>2, CloseHead DEF IInv, PlanInv, CloseInv, Done
  <1>4. Stopped => NoClaims'
    BY DEF Release, NoClaims, IInv, ResourceInv, ClaimInv
  <1>5. evt # "none" => outXfers
    BY <1>1 DEF IInv, CallInv, EventInv
  <1>6. ClaimsTracked'
    BY <1>1 DEF Release, IInv, ResourceInv, Types, ClaimInv, ClaimsTracked, Tracked,
                Held, NoClaims
  <1>7. ResourceInv'
    <2>1. Types'
      BY <1>1 DEF Release, IInv, ResourceInv, Types, pools
    <2>2. ClaimInv'
      BY <1>1 DEF Release, IInv, ResourceInv, ClaimInv, NoClaims
    <2>3. PoolInv' /\ ReleasedQuiescent'
      BY <1>1, <1>5 DEF Release, IInv, ResourceInv, Types, PoolInv, ReleasedQuiescent,
                        Stopped, pools
    <2> QED
      BY <1>6, <2>1, <2>2, <2>3 DEF ResourceInv
  <1>8. CallInv'
    BY <1>1, <1>2, <1>4, <1>5
       DEF CallInv, StartInv, EventInv, StopInv, Stopped, pools
  <1> QED
    BY <1>3, <1>7, <1>8 DEF IInv

(* A step that leaves the resources and closing alone and goes to a plan    *)
(* whose head needs nothing that is not there.                              *)
LEMMA PlanChanges ==
  ASSUME IInv, PlanOK(todo, line6, device)', ~closing, CallInv',
         UNCHANGED <<device, line6, owned, claims, pools, evt, closing>>
  PROVE  IInv'
  BY ResourcesKept DEF IInv, PlanInv, CloseInv

(* The handle is closed: nothing is live, so nothing is claimed.            *)
LEMMA CloseKeeps ==
  ASSUME IInv, Stopped => NoClaims, CloseDevice,
         UNCHANGED <<line6, outClaim, ctlClaim, ctlIface, inClaim, inIface, pools, evt>>,
         closing' \in BOOLEAN
  PROVE  ResourceInv'
  <1>1. Types'
    BY DEF IInv, ResourceInv, Types, pools
  <1>2. PoolInv' /\ ReleasedQuiescent'
    BY DEF IInv, ResourceInv, PoolInv, ReleasedQuiescent, Stopped, pools
  <1>3. CASE TransfersLive \/ device = NoIface
    BY <1>1, <1>2, <1>3, ClaimsKept DEF CloseDevice, IInv, ResourceInv, claims
  <1>4. CASE ~(TransfersLive \/ device = NoIface)
    <2>1. NoClaims /\ owned' = {}
      BY <1>4 DEF CloseDevice, TransfersLive, Stopped
    <2>2. ClaimInv'
      BY <2>1 DEF ClaimInv, NoClaims
    <2>3. ClaimsTracked'
      BY <2>1 DEF ClaimsTracked, Tracked, Held, NoClaims
    <2> QED
      BY <1>1, <1>2, <2>2, <2>3 DEF ResourceInv
  <1> QED
    BY <1>3, <1>4

(* close() and the destructor.                                              *)
LEMMA CloseStep ==
  ASSUME IInv, CloseEnds \/ DestroyCloses \/ DestroyChecks \/ DestroyAwaits \/ Exit
  PROVE  IInv'
  <1> USE DEF At
  <1>1. CASE CloseEnds
    <2>1. closing /\ todo = <<>> /\ todo' = <<>> /\ closing' = FALSE /\ UNCHANGED <<pools, evt>>
      BY <1>1 DEF CloseEnds
    <2>2. Stopped => NoClaims
      BY <2>1 DEF IInv, CallInv, StopInv
    <2>3. ResourceInv'
      BY <1>1, <2>2, CloseKeeps DEF CloseEnds
    <2>4. PlanInv'
      BY <2>1, PlanEmpty DEF PlanInv, CloseInv
    <2>5. CallInv'
      BY <2>1 DEF IInv, CallInv, StartInv, EventInv, StopInv, pools
    <2> QED
      BY <2>3, <2>4, <2>5 DEF IInv
  <1>2. CASE DestroyCloses
    <2>1. /\ todo # <<>> /\ Head(todo) = "close" /\ todo' = Tail(todo)
          /\ UNCHANGED <<line6, pools, evt, closing>>
      BY <1>2 DEF DestroyCloses, Done
    <2>2. Stopped => NoClaims
      BY <2>1 DEF IInv, CallInv, StopInv
    <2>3. ResourceInv'
      BY <1>2, <2>1, <2>2, CloseKeeps DEF DestroyCloses, IInv, ResourceInv, Types
    <2>4. /\ PlanOK(todo', line6, device)
          /\ todo' # <<>> /\ Head(todo') \in {"check", "exit"}
      BY <2>1, PlanTail DEF IInv, PlanInv, MayEnd, MayFollow
    <2>5. PlanOK(todo', line6', device')
      <3>1. \A k \in 1..Len(todo') : todo'[k] \notin ClaimingParts
        <4>1. todo' \in Seq(Parts) /\ todo'[1] \in {"check", "exit"} /\ Len(todo') \in Nat
          BY <2>4 DEF PlanOK
        <4>2. 1 \in 1..Len(todo') => (1 # Len(todo') => MayFollow(todo'[1], todo'[1 + 1]))
          BY <2>4 DEF PlanOK
        <4>3. Len(todo') <= 1
          BY <4>1, <4>2 DEF MayFollow
        <4> QED
          BY <4>1, <4>3 DEF ClaimingParts
      <3> QED
        BY <2>1, <2>4, <3>1 DEF PlanOK, PartOK
    <2>6. ~closing
      BY <2>1, CloseHead DEF IInv, PlanInv
    <2>7. CallInv'
      BY <2>1, <2>4, <2>6 DEF IInv, CallInv, StartInv, EventInv, StopInv, pools
    <2> QED
      BY <2>1, <2>3, <2>5, <2>6, <2>7 DEF IInv, PlanInv, CloseInv
  <1>3. CASE DestroyChecks
    <2>1. /\ todo # <<>> /\ Head(todo) = "check"
          /\ \/ todo' = <<"await", "stop", "stop", "close", "exit">>
             \/ todo' = <<"exit">>
          /\ UNCHANGED <<device, line6, owned, claims, pools, evt, closing>>
      BY <1>3 DEF DestroyChecks
    <2>2. PlanOK(<<"exit">>, line6, device)
      BY PlanOne DEF Parts, MayEnd, PartOK, GenericParts, Line6Only, ClaimingParts
    <2>3. PlanOK(todo, line6, device)'
      BY <2>1, <2>2, FixedPlans DEF IInv, ResourceInv, Types
    <2>4. todo' # <<>> /\ Head(todo') \in {"await", "exit"}
      BY <2>1
    <2>5. CallInv'
      BY <2>1, <2>4 DEF IInv, CallInv, StartInv, EventInv, StopInv, pools
    <2>6. ~closing
      BY <2>1, CloseHead DEF IInv, PlanInv
    <2> QED
      BY <2>1, <2>3, <2>5, <2>6, PlanChanges
  <1>4. CASE DestroyAwaits
    <2>1. /\ todo # <<>> /\ Head(todo) = "await" /\ Done
          /\ UNCHANGED <<device, line6, owned, claims, pools, evt, closing>>
      BY <1>4 DEF DestroyAwaits
    <2>2. /\ PlanOK(todo, line6, device)'
          /\ todo' # <<>> /\ Head(todo') = "stop"
      BY <2>1, NextPart DEF IInv, PlanInv, MayEnd, MayFollow
    <2>3. CallInv'
      BY <2>1, <2>2 DEF IInv, CallInv, StartInv, EventInv, StopInv, pools
    <2>4. ~closing
      BY <2>1, CloseHead DEF IInv, PlanInv
    <2> QED
      BY <2>1, <2>2, <2>3, <2>4, PlanChanges
  <1>5. CASE Exit
    <2>1. /\ todo # <<>> /\ Head(todo) = "exit" /\ Done
          /\ UNCHANGED <<device, line6, owned, claims, pools, evt, closing>>
      BY <1>5 DEF Exit
    <2>2. PlanOK(todo, line6, device)' /\ todo' = <<>>
      BY <2>1, NextPart DEF IInv, PlanInv, MayFollow
    <2>3. ~closing
      BY <2>1, CloseHead DEF IInv, PlanInv
    <2>4. CallInv'
      BY <2>1, <2>2, <2>3 DEF IInv, CallInv, StartInv, EventInv, StopInv, pools
    <2> QED
      BY <2>1, <2>2, <2>3, <2>4, PlanChanges
  <1> QED
    BY <1>1, <1>2, <1>3, <1>4, <1>5

-----------------------------------------------------------------------------
(* open() and the starts.                                                   *)

(* A call returns with the resources as they are.                           *)
LEMMA CallReturns ==
  ASSUME IInv, todo # <<>>, todo' = <<>>, evt # "none" => outXfers,
         Head(todo) \in {"open", "prepare", "direct", "line6"},
         UNCHANGED <<device, line6, owned, claims, pools, evt, closing>>
  PROVE  IInv'
  <1>1. ~closing
    BY CloseHead DEF IInv, PlanInv
  <1>2. CallInv'
    BY <1>1 DEF CallInv, StartInv, EventInv, StopInv, At, pools
  <1> QED
    BY <1>1, <1>2, PlanChanges, PlanEmpty

(* What a start that failed has still to do.                                *)
LEMMA UnwindPlan ==
  ASSUME IInv
  PROVE  /\ PlanOK(Unwind, line6, device)
         /\ Unwind # <<>> /\ Head(Unwind) = IF line6 THEN "fail" ELSE "stop"
  <1>1. ASSUME line6 PROVE PlanOK(<<"fail">>, line6, device)
    BY <1>1, PlanOne DEF Parts, MayEnd, PartOK, GenericParts, Line6Only, ClaimingParts
  <1>2. PlanOK(<<"stop">>, line6, device)
    BY PlanOne DEF Parts, MayEnd, PartOK, GenericParts, Line6Only, ClaimingParts
  <1> QED
    BY <1>1, <1>2 DEF Unwind

(* A start fails before it has touched a pool.                              *)
LEMMA UnwindStep ==
  ASSUME IInv, todo # <<>>, todo' = Unwind,
         Head(todo) \in {"claim", "capture", "metadata", "output", "line6"},
         UNCHANGED <<device, line6, owned, claims, pools, evt, closing>>
  PROVE  IInv'
  <1>1. ~closing
    BY CloseHead DEF IInv, PlanInv
  <1>2. CallInv'
    BY <1>1, UnwindPlan DEF CallInv, StartInv, EventInv, StopInv, At
  <1> QED
    BY <1>1, <1>2, PlanChanges, UnwindPlan

(* open() after its stop().                                                 *)
LEMMA OpenStep ==
  ASSUME IInv,
         \/ OpenRefused
         \/ \E fd \in Fds, profile \in BOOLEAN, ok \in BOOLEAN :
              OpenDevice(fd, profile, ok)
  PROVE  IInv'
  <1> USE DEF At
  <1>1. CASE OpenRefused
    <2>1. /\ todo # <<>> /\ Head(todo) = "open" /\ todo' = <<>>
          /\ UNCHANGED <<device, line6, owned, claims, pools, evt, closing>>
      BY <1>1 DEF OpenRefused, ReturnFalse
    <2>2. evt # "none" => outXfers
      BY <2>1 DEF IInv, CallInv, EventInv
    <2> QED
      BY <2>1, <2>2, CallReturns
  <1>2. ASSUME NEW fd \in Fds, NEW profile \in BOOLEAN, NEW ok \in BOOLEAN,
               OpenDevice(fd, profile, ok)
        PROVE  IInv'
    <2>1. /\ todo # <<>> /\ Head(todo) = "open" /\ todo' = Tail(todo) /\ ~TransfersLive
          /\ UNCHANGED <<claims, pools, evt, closing>>
      BY <1>2 DEF OpenDevice, Done
    <2>2. todo' = <<>>
      BY <2>1, PlanTail DEF IInv, PlanInv, MayFollow
    <2>3. /\ ~outXfers /\ ~inXfers /\ inflight = 0 /\ captureInflight = 0
          /\ NoClaims /\ owned = {} /\ evt = "none" /\ ~closing
      <3>1. ~outXfers /\ ~inXfers /\ inflight = 0 /\ captureInflight = 0
        BY <2>1 DEF TransfersLive
      <3>2. NoClaims
        BY <2>1, <3>1 DEF IInv, CallInv, StopInv, Stopped
      <3>3. owned = {}
        BY <3>2 DEF NoClaims, IInv, ResourceInv, ClaimsTracked, Tracked, Held
      <3>4. evt = "none"
        BY <2>1, <3>1 DEF IInv, CallInv, EventInv
      <3>5. ~closing
        BY <2>1, CloseHead DEF IInv, PlanInv
      <3> QED
        BY <3>1, <3>2, <3>3, <3>4, <3>5
    <2>4. line6' \in BOOLEAN /\ owned' = {}
      BY <1>2, <2>3 DEF OpenDevice, IInv, ResourceInv, Types
    <2>5. ResourceInv'
      BY <2>1, <2>3, <2>4 DEF IInv, ResourceInv, Types, ClaimInv, NoClaims, ClaimsTracked,
                              Tracked, Held, PoolInv, ReleasedQuiescent, Stopped, claims,
                              pools
    <2>6. PlanInv'
      BY <2>1, <2>2, <2>3, PlanEmpty DEF PlanInv, CloseInv
    <2>7. CallInv'
      BY <2>1, <2>2, <2>3 DEF CallInv, StartInv, EventInv, StopInv
    <2> QED
      BY <2>5, <2>6, <2>7 DEF IInv
  <1> QED
    BY <1>1, <1>2

(* A start that finds an earlier session takes it down first.               *)
LEMMA ResetStep ==
  ASSUME IInv, Reconfigure \/ Reset
  PROVE  IInv'
  <1> USE DEF At
  <1>1. CASE Reconfigure
    <2>1. /\ todo # <<>> /\ Head(todo) = "prepare" /\ todo' = TearDown("reset") \o todo
          /\ UNCHANGED <<device, line6, owned, claims, pools, evt, closing>>
      BY <1>1 DEF Reconfigure
    <2>2. PartOK("prepare", line6, device)
      BY <2>1, PlanTail DEF IInv, PlanInv
    <2>3. PartOK("reset", line6, device) /\ MayFollow("reset", "prepare")
      BY <2>2 DEF PartOK, GenericParts, Line6Only, ClaimingParts, MayFollow
    <2>4. /\ PlanOK(todo, line6, device)'
          /\ todo' # <<>> /\ Head(todo') = "drainOut"
      BY <2>1, <2>3, PlanTearDown DEF IInv, PlanInv
    <2>5. ~closing
      BY <2>1, CloseHead DEF IInv, PlanInv
    <2>6. CallInv'
      BY <2>4, <2>5, <2>1 DEF CallInv, StartInv, EventInv, StopInv
    <2> QED
      BY <2>1, <2>4, <2>5, <2>6, PlanChanges
  <1>2. CASE Reset
    <2>1. /\ todo # <<>> /\ Head(todo) = "reset"
          /\ UNCHANGED <<device, line6, outClaim, outIface, ctlClaim, ctlIface, pools,
                         evt, closing>>
      BY <1>2 DEF Reset
    <2>2. ~closing
      BY <2>1, CloseHead DEF IInv, PlanInv
    <2>3. evt # "none" => outXfers
      BY <2>1 DEF IInv, CallInv, EventInv
    <2>4. CASE Stopped
      <3>1. /\ Done /\ owned' = owned \ Held(inClaim, inIface) /\ inClaim' = FALSE
        BY <1>2, <2>4 DEF Reset
      <3>2. /\ PlanOK(todo, line6, device)'
            /\ todo' # <<>> /\ Head(todo') = "prepare"
        BY <2>1, <3>1, NextPart DEF IInv, PlanInv, MayEnd, MayFollow
      <3>3. ClaimsTracked'
        BY <2>1, <3>1, LifecycleAssumption
           DEF IInv, ResourceInv, Types, ClaimInv, ClaimsTracked, Tracked, Held,
               LifecycleAssumption
      <3>4. Types' /\ ClaimInv'
        BY <2>1, <3>1 DEF IInv, ResourceInv, Types, ClaimInv, NoClaims, pools
      <3>5. PoolInv' /\ ReleasedQuiescent'
        BY <2>1, <2>4, <3>1 DEF IInv, ResourceInv, PoolInv, ReleasedQuiescent, Stopped,
                                pools
      <3>6. CallInv'
        BY <2>1, <2>2, <2>3, <3>2 DEF CallInv, StartInv, EventInv, StopInv, pools
      <3> QED
        BY <2>1, <2>2, <3>2, <3>3, <3>4, <3>5, <3>6
           DEF IInv, ResourceInv, PlanInv, CloseInv
    <2>5. CASE ~Stopped
      <3>1. todo' = <<>> /\ UNCHANGED <<owned, inClaim, inIface>>
        BY <1>2, <2>5 DEF Reset, ReturnFalse
      <3>2. CallInv'
        BY <2>1, <2>2, <2>3, <3>1 DEF CallInv, StartInv, EventInv, StopInv, pools
      <3> QED
        BY <2>1, <2>2, <3>1, <3>2, PlanChanges, PlanEmpty DEF claims
    <2> QED
      BY <2>4, <2>5
  <1> QED
    BY <1>1, <1>2

(* start() up to its claims.                                                *)
LEMMA PrepareStep ==
  ASSUME IInv,
         \/ PrepareRefused
         \/ \E i \in StreamIfaces : PrepareClaimFails(i)
         \/ \E i \in StreamIfaces, c \in CtlIfaces \cup {NoIface},
              granted \in BOOLEAN, ready \in BOOLEAN : Prepare(i, c, granted, ready)
  PROVE  IInv'
  <1> USE DEF At
  <1>1. /\ todo # <<>> /\ Head(todo) = "prepare" /\ ~NeedsReset
        /\ UNCHANGED <<device, line6, inClaim, inIface, pools, evt, closing>>
    BY DEF PrepareRefused, PrepareClaimFails, Prepare, claims
  <1>2. /\ ~outXfers /\ ~inXfers /\ evt = "none" /\ inflight = 0
        /\ captureInflight = 0 /\ ~inClaim
    BY <1>1 DEF NeedsReset
  <1>3. ~closing
    BY <1>1, CloseHead DEF IInv, PlanInv
  <1>4. ~line6 /\ device # NoIface
    BY <1>1, PlanTail DEF IInv, PlanInv, PartOK, GenericParts, ClaimingParts
  <1>5. CASE PrepareRefused
    BY <1>1, <1>2, <1>5, CallReturns DEF PrepareRefused, ReturnFalse
  <1>6. ASSUME NEW i \in StreamIfaces, PrepareClaimFails(i)
        PROVE  IInv'
    <2>1. /\ owned' = owned \ Held(outClaim, outIface) /\ outClaim' = FALSE /\ todo' = <<>>
          /\ UNCHANGED <<ctlClaim, ctlIface>>
      BY <1>6 DEF PrepareClaimFails, ReturnFalse
    <2>2. ClaimsTracked'
      BY <1>1, <2>1, LifecycleAssumption
         DEF IInv, ResourceInv, Types, ClaimInv, ClaimsTracked, Tracked, Held,
             LifecycleAssumption
    <2>3. Types' /\ ClaimInv'
      BY <1>1, <2>1 DEF IInv, ResourceInv, Types, ClaimInv, NoClaims, pools
    <2>4. PoolInv' /\ ReleasedQuiescent'
      BY <1>1, <1>2 DEF PoolInv, ReleasedQuiescent, Stopped, pools
    <2>5. CallInv'
      BY <1>1, <1>2, <1>3, <2>1 DEF CallInv, StartInv, EventInv, StopInv
    <2> QED
      BY <1>1, <1>3, <2>1, <2>2, <2>3, <2>4, <2>5, PlanEmpty
         DEF IInv, ResourceInv, PlanInv, CloseInv
  <1>7. ASSUME NEW i \in StreamIfaces, NEW c \in CtlIfaces \cup {NoIface},
               NEW granted \in BOOLEAN, NEW ready \in BOOLEAN,
               Prepare(i, c, granted, ready)
        PROVE  IInv'
    <2> DEFINE claimCtl == c # NoIface /\ (~ctlClaim \/ ctlIface # c)
    <2>1. /\ outClaim' = TRUE /\ outIface' = i
          /\ ctlClaim' = IF claimCtl THEN granted ELSE ctlClaim
          /\ ctlIface' = IF claimCtl /\ granted THEN c ELSE ctlIface
          /\ todo' = IF ready THEN Tail(todo) ELSE <<>>
      BY <1>7 DEF Prepare, Done, ReturnFalse
    <2>2. c # NoIface => c \in CtlIfaces
      OBVIOUS
    <2>3. ClaimsTracked'
      <3> DEFINE out == IF NeedClaim(i) THEN Held(outClaim, outIface) ELSE {}
                 ctl == IF claimCtl THEN Held(ctlClaim, ctlIface) ELSE {}
                 got == IF claimCtl /\ granted THEN {c} ELSE {}
      <3>1. owned' = (owned \ (out \cup ctl)) \cup ({i} \cup got)
        BY <1>7 DEF Prepare
      <3>2. owned = Held(outClaim, outIface) \cup Held(ctlClaim, ctlIface)
        BY <1>2 DEF IInv, ResourceInv, ClaimsTracked, Tracked, Held
      <3>3. Held(outClaim, outIface) \subseteq StreamIfaces
            /\ Held(ctlClaim, ctlIface) \subseteq CtlIfaces
            /\ got \subseteq CtlIfaces
        BY <2>2 DEF IInv, ResourceInv, ClaimInv, Held
      <3>4. Held(outClaim, outIface) \ out \subseteq {i}
        BY DEF NeedClaim, Held
      <3>5. Held(ctlClaim', ctlIface') = (Held(ctlClaim, ctlIface) \ ctl) \cup got
        BY <2>1 DEF Held, IInv, ResourceInv, Types
      <3>6. Tracked' = {i} \cup Held(ctlClaim', ctlIface')
        BY <1>1, <1>2, <2>1 DEF Tracked, Held
      <3>7. out \subseteq Held(outClaim, outIface) /\ ctl \subseteq Held(ctlClaim, ctlIface)
        OBVIOUS
      <3> HIDE DEF out, ctl, got
      <3>8. owned' = Tracked'
        BY <3>1, <3>2, <3>3, <3>4, <3>5, <3>6, <3>7, LifecycleAssumption
           DEF LifecycleAssumption
      <3> QED
        BY <1>1, <1>2, <3>8 DEF ClaimsTracked
    <2>4. Types'
      BY <1>1, <2>1 DEF IInv, ResourceInv, Types, pools
    <2>5. ClaimInv'
      BY <1>1, <1>2, <1>4, <2>1, <2>2 DEF IInv, ResourceInv, ClaimInv
    <2>6. PoolInv' /\ ReleasedQuiescent'
      BY <1>1, <1>2, <2>1 DEF PoolInv, ReleasedQuiescent, Stopped, pools
    <2>7. /\ PlanOK(todo, line6, device)'
          /\ todo' # <<>> => Head(todo') \in {"claim", "direct"}
      BY <1>1, <2>1, PlanTail, PlanEmpty DEF IInv, PlanInv, MayFollow
    <2>8. CallInv'
      BY <1>1, <1>2, <1>3, <2>1, <2>7
         DEF CallInv, StartInv, EventInv, StopInv, Stopped, pools
    <2> QED
      BY <1>1, <1>3, <2>3, <2>4, <2>5, <2>6, <2>7, <2>8
         DEF IInv, ResourceInv, PlanInv, CloseInv
  <1> QED
    BY <1>5, <1>6, <1>7

(* A pump is drained before what follows it.                                *)
LEMMA DrainPlans ==
  ASSUME IInv
  PROVE  /\ PlanOK(<<"drainOut">>, line6, device)
         /\ \A p \in {"drainOut", "drainIn"} :
              /\ PlanOK(<<p>> \o Unwind, line6, device)
              /\ <<p>> \o Unwind # <<>> /\ Head(<<p>> \o Unwind) = p
              /\ Tail(<<p>> \o Unwind) = Unwind
  <1>1. PlanOK(<<"drainOut">>, line6, device)
    BY PlanOne DEF Parts, MayEnd, PartOK, GenericParts, Line6Only, ClaimingParts
  <1>2. ASSUME NEW p \in {"drainOut", "drainIn"}
        PROVE  /\ PlanOK(<<p>> \o Unwind, line6, device)
               /\ <<p>> \o Unwind # <<>> /\ Head(<<p>> \o Unwind) = p
               /\ Tail(<<p>> \o Unwind) = Unwind
    <2>1. p \in Parts /\ PartOK(p, line6, device)
      BY DEF Parts, PartOK, GenericParts, Line6Only, ClaimingParts
    <2>2. MayFollow(p, Head(Unwind)) /\ Unwind # <<>> /\ PlanOK(Unwind, line6, device)
      BY UnwindPlan DEF MayFollow
    <2> QED
      BY <2>1, <2>2, PlanPrepend
  <1> QED
    BY <1>1, <1>2

(* The OUT pump is prepared, or is not.                                     *)
LEMMA OutputStep ==
  ASSUME IInv,
         \/ DirectRejected \/ StartOutput
         \/ \E allocating \in BOOLEAN : DirectFails(allocating) \/ OutputFails(allocating)
  PROVE  IInv'
  <1> USE DEF At
  <1>1. /\ todo # <<>> /\ Head(todo) \in {"direct", "output"}
        /\ UNCHANGED <<device, line6, owned, claims, inflight, inXfers,
                       captureInflight, closing>>
    BY DEF DirectRejected, StartOutput, DirectFails, OutputFails, PumpFails, pools
  <1>2. outClaim /\ ~outXfers /\ inflight = 0
    BY <1>1 DEF IInv, CallInv, StartInv
  <1>3. ~closing
    BY <1>1, CloseHead DEF IInv, PlanInv
  <1>4. CASE DirectRejected \/ StartOutput
    <2>1. /\ outXfers' = TRUE /\ evt' = IF evt = "none" THEN "running" ELSE evt
      BY <1>4 DEF DirectRejected, StartOutput
    <2>2. PlanOK(todo, line6, device)' /\ todo' = <<>>
      BY <1>1, <1>4, PlanTail, PlanEmpty
         DEF DirectRejected, StartOutput, ReturnFalse, Done, IInv, PlanInv, MayFollow
    <2>3. ClaimInv' /\ ClaimsTracked'
      BY <1>1, ClaimsKept DEF IInv
    <2>4. Types'
      BY <1>1, <2>1 DEF IInv, ResourceInv, Types, claims
    <2>5. PoolInv' /\ ReleasedQuiescent'
      BY <1>1, <1>2, <2>1 DEF IInv, ResourceInv, PoolInv, ReleasedQuiescent, Stopped,
                              claims
    <2>6. CallInv'
      BY <1>1, <1>3, <2>1, <2>2 DEF CallInv, StartInv, EventInv, StopInv
    <2> QED
      BY <1>1, <1>3, <2>2, <2>3, <2>4, <2>5, <2>6
         DEF IInv, ResourceInv, PlanInv, CloseInv
  <1>5. ASSUME NEW allocating \in BOOLEAN, DirectFails(allocating)
        PROVE  IInv'
    <2>1. /\ Head(todo) = "direct"
          /\ todo' = <<>> \/ todo' = <<"drainOut">>
          /\ UNCHANGED <<device, line6, owned, claims, pools, evt, closing>>
      BY <1>5 DEF DirectFails, PumpFails
    <2>2. evt = "none"
      BY <1>1, <2>1 DEF IInv, CallInv, StartInv
    <2>3. CallInv'
      BY <1>3, <2>1, <2>2 DEF CallInv, StartInv, EventInv, StopInv
    <2> QED
      BY <1>3, <2>1, <2>3, PlanChanges, DrainPlans, PlanEmpty
  <1>6. ASSUME NEW allocating \in BOOLEAN, OutputFails(allocating)
        PROVE  IInv'
    <2>1. /\ Head(todo) = "output"
          /\ todo' = (IF allocating THEN <<"drainOut">> ELSE <<>>) \o Unwind
          /\ UNCHANGED <<device, line6, owned, claims, pools, evt, closing>>
      BY <1>6 DEF OutputFails, PumpFails
    <2>2. CASE allocating
      <3>1. /\ PlanOK(todo, line6, device)'
            /\ todo' # <<>> /\ Head(todo') = "drainOut"
        BY <2>1, <2>2, DrainPlans
      <3>2. CallInv'
        BY <1>3, <2>1, <3>1 DEF CallInv, StartInv, EventInv, StopInv
      <3> QED
        BY <1>3, <2>1, <3>1, <3>2, PlanChanges
    <2>3. CASE ~allocating
      <3>1. Unwind \in Seq(Parts)
        BY UnwindPlan DEF PlanOK
      <3>2. todo' = Unwind
        BY <2>1, <2>3, <3>1
      <3> QED
        BY <1>1, <2>1, <3>2, UnwindStep
    <2> QED
      BY <2>2, <2>3
  <1> QED
    BY <1>4, <1>5, <1>6

(* The capture interface and its pump.                                      *)
LEMMA CaptureStep ==
  ASSUME IInv,
         \/ ClaimRefused \/ CaptureRefused
         \/ \E i \in StreamIfaces, ready \in BOOLEAN : ClaimCapture(i, ready)
         \/ \E n \in 0..Transfers : StartCapture(n)
  PROVE  IInv'
  <1> USE DEF At
  <1>1. /\ todo # <<>> /\ Head(todo) \in {"claim", "capture"}
        /\ UNCHANGED <<device, line6, outClaim, outIface, ctlClaim, ctlIface, outXfers,
                       inflight, evt, closing>>
    BY DEF ClaimRefused, CaptureRefused, ClaimCapture, StartCapture, claims, pools
  <1>2. /\ outClaim /\ ~outXfers /\ inflight = 0
        /\ ~inXfers /\ captureInflight = 0 /\ (~line6 => evt = "none")
    BY <1>1 DEF IInv, CallInv, StartInv
  <1>3. ~closing
    BY <1>1, CloseHead DEF IInv, PlanInv
  <1>4. CASE ClaimRefused \/ CaptureRefused
    BY <1>4, UnwindStep DEF ClaimRefused, CaptureRefused
  <1>5. ASSUME NEW i \in StreamIfaces, NEW ready \in BOOLEAN, ClaimCapture(i, ready)
        PROVE  IInv'
    <2>1. /\ Head(todo) = "claim" /\ i # outIface
          /\ owned' = owned \cup {i} /\ inClaim' = TRUE /\ inIface' = i
          /\ todo' = IF ready THEN Tail(todo) ELSE Unwind
          /\ UNCHANGED pools
      BY <1>5 DEF ClaimCapture, Done
    <2>2. ~line6 /\ device # NoIface
      BY <1>1, <2>1, PlanTail DEF IInv, PlanInv, PartOK, GenericParts, ClaimingParts
    <2>3. ~inClaim
      BY <1>1, <2>1 DEF IInv, CallInv, StartInv
    <2>4. ClaimsTracked'
      BY <1>1, <2>1, <2>3 DEF IInv, ResourceInv, ClaimsTracked, Tracked, Held
    <2>5. Types' /\ ClaimInv'
      BY <1>1, <2>1, <2>2 DEF IInv, ResourceInv, Types, ClaimInv, pools
    <2>6. PoolInv' /\ ReleasedQuiescent'
      BY <1>1, <1>2, <2>1 DEF PoolInv, ReleasedQuiescent, pools
    <2>7. /\ PlanOK(todo, line6, device)'
          /\ todo' # <<>> /\ Head(todo') \in {"capture", "stop"}
      BY <1>1, <2>1, <2>2, PlanTail, UnwindPlan DEF IInv, PlanInv, MayFollow, MayEnd
    <2>8. CallInv'
      BY <1>1, <1>2, <1>3, <2>1, <2>2, <2>7
         DEF CallInv, StartInv, EventInv, StopInv, pools
    <2> QED
      BY <1>1, <1>3, <2>4, <2>5, <2>6, <2>7, <2>8
         DEF IInv, ResourceInv, PlanInv, CloseInv
  <1>6. ASSUME NEW n \in 0..Transfers, StartCapture(n)
        PROVE  IInv'
    <2>1. /\ Head(todo) = "capture" /\ inXfers' = TRUE /\ captureInflight' = n
          /\ todo' = IF n = Transfers THEN Tail(todo) ELSE <<"drainIn">> \o Unwind
          /\ UNCHANGED <<owned, claims>>
      BY <1>6 DEF StartCapture, Done
    <2>2. ~line6 => inClaim
      BY <1>1, <2>1 DEF IInv, CallInv, StartInv
    <2>3. ClaimInv' /\ ClaimsTracked'
      BY <1>1, <2>1, ClaimsKept DEF IInv
    <2>4. Types'
      BY <1>1, <2>1, LifecycleAssumption
         DEF IInv, ResourceInv, Types, claims, LifecycleAssumption
    <2>5. PoolInv' /\ ReleasedQuiescent'
      BY <1>1, <1>2, <2>1, <2>2 DEF PoolInv, ReleasedQuiescent, claims
    <2>6. /\ PlanOK(todo, line6, device)' /\ todo' # <<>>
          /\ \/ Head(todo') = "metadata" \/ (Head(todo') = "prime" /\ ~line6)
             \/ Head(todo') = "drainIn" /\ Tail(todo') = Unwind
      <3>1. CASE n = Transfers
        BY <1>1, <2>1, <3>1, PlanTail
           DEF IInv, PlanInv, MayFollow, MayEnd, PartOK, GenericParts
      <3>2. CASE n # Transfers
        BY <1>1, <2>1, <3>2, DrainPlans
      <3> QED
        BY <3>1, <3>2
    <2>7. CallInv'
      BY <1>1, <1>2, <1>3, <2>1, <2>6, UnwindPlan
         DEF CallInv, StartInv, EventInv, StopInv
    <2> QED
      BY <1>1, <1>3, <2>3, <2>4, <2>5, <2>6, <2>7
         DEF IInv, ResourceInv, PlanInv, CloseInv
  <1> QED
    BY <1>4, <1>5, <1>6

(* The event thread may be created ahead of the OUT pump; the metadata is   *)
(* awaited.                                                                 *)
LEMMA PrimeStep ==
  ASSUME IInv,
         \/ \E implicit \in BOOLEAN : Prime(implicit)
         \/ \E primed \in BOOLEAN : Metadata(primed)
  PROVE  IInv'
  <1> USE DEF At
  <1>1. ASSUME NEW implicit \in BOOLEAN, Prime(implicit)
        PROVE  IInv'
    <2>1. /\ todo # <<>> /\ Head(todo) = "prime"
          /\ UNCHANGED <<device, line6, owned, claims, pools, closing>>
      BY <1>1 DEF Prime
    <2>2. outClaim /\ ~outXfers /\ inflight = 0 /\ evt = "none"
      BY <2>1 DEF IInv, CallInv, StartInv
    <2>3. ~closing
      BY <2>1, CloseHead DEF IInv, PlanInv
    <2>4. \/ evt' = "running" /\ todo' = <<"metadata">> \o Tail(todo)
          \/ evt' = "none" /\ todo' = Tail(todo)
      BY <1>1, <2>2 DEF Prime, Done
    <2>5. PlanOK(Tail(todo), line6, device) /\ Tail(todo) # <<>> /\ Head(Tail(todo)) = "output"
      BY <2>1, PlanTail DEF IInv, PlanInv, MayEnd, MayFollow
    <2>6. /\ PlanOK(<<"metadata">> \o Tail(todo), line6, device)
          /\ <<"metadata">> \o Tail(todo) # <<>>
          /\ Head(<<"metadata">> \o Tail(todo)) = "metadata"
      <3>1. /\ "metadata" \in Parts /\ PartOK("metadata", line6, device)
            /\ MayFollow("metadata", "output")
        BY DEF Parts, PartOK, MayFollow, GenericParts, Line6Only, ClaimingParts
      <3> QED
        BY <2>5, <3>1, PlanPrepend
    <2>7. /\ PlanOK(todo, line6, device)' /\ todo' # <<>>
          /\ Head(todo') \in {"metadata", "output"}
      BY <2>1, <2>4, <2>5, <2>6
    <2>8. ClaimInv' /\ ClaimsTracked'
      BY <2>1, ClaimsKept DEF IInv
    <2>9. Types' /\ PoolInv' /\ ReleasedQuiescent'
      BY <2>1, <2>2, <2>4
         DEF IInv, ResourceInv, Types, PoolInv, ReleasedQuiescent, claims, pools
    <2>10. CallInv'
      BY <2>1, <2>2, <2>7 DEF CallInv, StartInv, EventInv, StopInv, claims, pools
    <2> QED
      BY <2>1, <2>3, <2>7, <2>8, <2>9, <2>10 DEF IInv, ResourceInv, PlanInv, CloseInv
  <1>2. ASSUME NEW primed \in BOOLEAN, Metadata(primed)
        PROVE  IInv'
    <2>1. /\ todo # <<>> /\ Head(todo) = "metadata"
          /\ todo' = IF primed THEN Tail(todo) ELSE Unwind
          /\ UNCHANGED <<device, line6, owned, claims, pools, evt, closing>>
      BY <1>2 DEF Metadata, Done
    <2>2. CASE primed
      <3>1. /\ PlanOK(todo, line6, device)'
            /\ todo' # <<>> /\ Head(todo') = "output"
        BY <2>1, <2>2, PlanTail DEF IInv, PlanInv, MayEnd, MayFollow
      <3>2. ~closing
        BY <2>1, CloseHead DEF IInv, PlanInv
      <3>3. CallInv'
        BY <2>1, <3>1, <3>2 DEF IInv, CallInv, StartInv, EventInv, StopInv, claims, pools
      <3> QED
        BY <2>1, <3>1, <3>2, <3>3, PlanChanges
    <2>3. CASE ~primed
      BY <2>1, <2>3, UnwindStep
    <2> QED
      BY <2>2, <2>3
  <1> QED
    BY <1>1, <1>2

(* line6StartDuplex() and its cleanup.                                      *)
LEMMA Line6Step ==
  ASSUME IInv,
         \/ Line6Refused \/ Line6ClaimFails \/ Line6Fails \/ Line6Release
         \/ \E i \in StreamIfaces, ready \in BOOLEAN : Line6Prepare(i, ready)
  PROVE  IInv'
  <1> USE DEF At
  <1>1. /\ todo # <<>> /\ Head(todo) \in {"line6", "fail", "line6Release"}
        /\ UNCHANGED <<device, line6, ctlClaim, ctlIface, inClaim, inIface, pools, closing>>
    BY DEF Line6Refused, Line6ClaimFails, Line6Fails, Line6Release, Line6Prepare, claims
  <1>2. line6
    <2>1. PartOK(Head(todo), line6, device)
      BY <1>1, PlanTail DEF IInv, PlanInv
    <2> QED
      BY <1>1, <2>1 DEF PartOK, Line6Only
  <1>3. ~closing
    BY <1>1, CloseHead DEF IInv, PlanInv
  <1>4. CASE Line6Refused
    <2>1. Head(todo) = "line6"
      BY <1>4 DEF Line6Refused
    <2>2. evt # "none" => outXfers
      BY <1>1, <2>1 DEF IInv, CallInv, EventInv
    <2> QED
      BY <1>4, <2>2, CallReturns DEF Line6Refused, ReturnFalse
  <1>5. CASE Line6ClaimFails
    BY <1>5, UnwindStep DEF Line6ClaimFails
  <1>6. CASE Line6Fails
    <2>1. /\ todo' = TearDown("line6Release")
          /\ UNCHANGED <<device, line6, owned, claims, pools, evt, closing>>
      BY <1>6 DEF Line6Fails
    <2>2. PlanOK(todo, line6, device)'
      BY <1>2, <2>1, FixedPlans
    <2>3. todo' # <<>> /\ Head(todo') = "drainOut"
      BY <2>1 DEF TearDown
    <2>4. CallInv'
      BY <1>3, <2>1, <2>3 DEF CallInv, StartInv, EventInv, StopInv
    <2> QED
      BY <1>3, <2>1, <2>2, <2>4, PlanChanges
  <1>7. CASE Line6Release
    <2>1. /\ Head(todo) = "line6Release" /\ Done
          /\ owned' = owned \ Held(outClaim, outIface) /\ outClaim' = FALSE
          /\ UNCHANGED <<outIface, evt>>
      BY <1>7 DEF Line6Release
    <2>2. PlanOK(todo, line6, device)' /\ todo' = <<>>
      BY <1>1, <2>1, NextPart DEF IInv, PlanInv, MayFollow
    <2>3. ~inClaim /\ ~ctlClaim
      BY <1>2 DEF IInv, ResourceInv, ClaimInv
    <2>4. ClaimsTracked'
      BY <1>1, <2>1, <2>3 DEF IInv, ResourceInv, ClaimsTracked, Tracked, Held
    <2>5. Types' /\ ClaimInv'
      BY <1>1, <2>1 DEF IInv, ResourceInv, Types, ClaimInv, NoClaims, pools
    <2>6. PoolInv' /\ ReleasedQuiescent'
      BY <1>1, <1>2 DEF IInv, ResourceInv, PoolInv, ReleasedQuiescent, pools
    <2>7. CallInv'
      BY <1>1, <1>3, <2>1, <2>2 DEF IInv, CallInv, StartInv, EventInv, StopInv, pools
    <2> QED
      BY <1>1, <1>3, <2>2, <2>4, <2>5, <2>6, <2>7
         DEF IInv, ResourceInv, PlanInv, CloseInv
  <1>8. ASSUME NEW i \in StreamIfaces, NEW ready \in BOOLEAN, Line6Prepare(i, ready)
        PROVE  IInv'
    <2>1. /\ Head(todo) = "line6" /\ ~Line6Busy
          /\ outClaim => i = outIface
          /\ owned' = owned \cup {i} /\ outClaim' = TRUE /\ outIface' = i
          /\ IF ready THEN todo' = Tail(todo) /\ evt' = "running"
                      ELSE todo' = Unwind /\ UNCHANGED evt
      BY <1>8 DEF Line6Prepare, Done
    <2>2. ~outXfers /\ ~inXfers /\ inflight = 0 /\ captureInflight = 0
      BY <2>1 DEF Line6Busy
    <2>3. ~inClaim /\ ~ctlClaim
      BY <1>2 DEF IInv, ResourceInv, ClaimInv
    <2>4. device # NoIface
      BY <1>1, <2>1, PlanTail DEF IInv, PlanInv, PartOK, ClaimingParts
    <2>5. ClaimsTracked'
      BY <1>1, <2>1, <2>3 DEF IInv, ResourceInv, ClaimsTracked, Tracked, Held
    <2>6. Types' /\ ClaimInv'
      BY <1>1, <2>1, <2>3, <2>4 DEF IInv, ResourceInv, Types, ClaimInv, pools
    <2>7. PoolInv' /\ ReleasedQuiescent'
      BY <1>1, <1>2 DEF IInv, ResourceInv, PoolInv, ReleasedQuiescent, pools
    <2>8. /\ PlanOK(todo, line6, device)' /\ todo' # <<>>
          /\ Head(todo') \in {"capture", "fail"}
      BY <1>1, <1>2, <2>1, PlanTail, UnwindPlan DEF IInv, PlanInv, MayFollow, MayEnd
    <2>9. CallInv'
      BY <1>1, <1>2, <2>1, <2>2, <2>8 DEF CallInv, StartInv, EventInv, StopInv, pools
    <2> QED
      BY <1>1, <1>3, <2>5, <2>6, <2>7, <2>8, <2>9 DEF IInv, ResourceInv, PlanInv, CloseInv
  <1> QED
    BY <1>4, <1>5, <1>6, <1>7, <1>8

-----------------------------------------------------------------------------
(* The results.                                                             *)

(* The invariant is inductive: every step of the USB side, of requestStop() *)
(* and of the control calls keeps it.                                       *)
LEMMA Inductive ==
  ASSUME ~SharedClose
  PROVE  Spec => []IInv
  <1>1. Init => IInv
    <2> SUFFICES ASSUME Init PROVE IInv
      OBVIOUS
    <2>1. ResourceInv
      <3>1. Types
        BY DEF Init, Types
      <3>2. ClaimInv /\ ClaimsTracked
        BY DEF Init, ClaimInv, NoClaims, ClaimsTracked, Tracked, Held
      <3>3. PoolInv /\ ReleasedQuiescent
        BY DEF Init, PoolInv, ReleasedQuiescent, Stopped
      <3> QED
        BY <3>1, <3>2, <3>3 DEF ResourceInv
    <2>2. PlanInv /\ CallInv
      BY PlanEmpty DEF Init, PlanInv, CloseInv, CallInv, StartInv, EventInv, StopInv, At
    <2> QED
      BY <2>1, <2>2 DEF IInv
  <1>2. IInv /\ [Next]_vars => IInv'
    <2> SUFFICES ASSUME IInv, [Next]_vars PROVE IInv'
      OBVIOUS
    <2>1. CASE Usb
      BY <2>1, RetireStep, EventLoopStep DEF Usb
    <2>2. CASE RequestStop
      BY <2>2, Untouched DEF RequestStop
    <2>3. CASE Owner
      BY <2>3, OwnerStep
    <2>4. CASE Teardown
      BY <2>4, StopStep, DrainStep, ReleaseStep, CloseStep DEF Teardown
    <2>5. CASE Startup
      BY <2>5, OpenStep, ResetStep, PrepareStep, OutputStep, CaptureStep, PrimeStep,
         Line6Step DEF Startup
    <2>6. CASE UNCHANGED vars
      BY <2>6, Untouched DEF vars
    <2> QED
      BY <2>1, <2>2, <2>3, <2>4, <2>5, <2>6 DEF Next
  <1> QED
    BY <1>1, <1>2, PTL DEF Spec

(* The interfaces the kernel gave to the handle are exactly those the three *)
(* claim flags name, and the two directions never name the same one, on     *)
(* every path through open, start, failure, stop, close and destruction.    *)
THEOREM ClaimsCorrect ==
  ASSUME ~SharedClose
  PROVE  Spec => []ClaimsTracked
  <1>1. IInv => ClaimsTracked
    BY DEF IInv, ResourceInv
  <1> QED
    BY <1>1, Inductive, PTL

(* A transfer of the generic profile that USB still owns has its interface. *)
THEOREM LiveTransfersHeld ==
  ASSUME ~SharedClose
  PROVE  Spec => []GenericLiveHeld
  <1>1. IInv => GenericLiveHeld
    <2> SUFFICES ASSUME IInv, ~line6 PROVE LiveHeld
      BY DEF GenericLiveHeld
    <2>1. inflight > 0 => outClaim
      BY DEF IInv, ResourceInv, PoolInv, ReleasedQuiescent, Stopped
    <2>2. captureInflight > 0 => inClaim
      BY DEF IInv, ResourceInv, PoolInv
    <2> QED
      BY <2>1, <2>2 DEF LiveHeld, IInv, ResourceInv, ClaimsTracked, Tracked, Held
  <1> QED
    BY <1>1, Inductive, PTL

(* The generic profile gives its playback interface back only with both     *)
(* pools freed, nothing in flight and the event thread joined.              *)
THEOREM ReleaseQuiescent ==
  ASSUME ~SharedClose
  PROVE  Spec => []ReleasedQuiescent
  <1>1. IInv => ReleasedQuiescent
    BY DEF IInv, ResourceInv
  <1> QED
    BY <1>1, Inductive, PTL

(* No start assigns eventThread_ while it is joinable, or appends to the    *)
(* transfer pool of an earlier session.                                     *)
THEOREM StartsFresh ==
  ASSUME ~SharedClose
  PROVE  Spec => []FreshStart
  <1>1. IInv => FreshStart
    BY DEF IInv, ResourceInv, Types, CallInv, StartInv, FreshStart
  <1> QED
    BY <1>1, Inductive, PTL
=============================================================================
