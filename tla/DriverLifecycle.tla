---------------------------- MODULE DriverLifecycle ----------------------------
(***************************************************************************)
(* The control side of LibusbUacDriver: open, start, startDuplex,          *)
(* startPlayback, requestStop, stop, close and destruction, on the         *)
(* resources they acquire and give back: the device handle, the interfaces *)
(* the kernel lets the handle own, the pools of OUT and capture transfers  *)
(* and the libusb event thread.                                            *)
(*                                                                         *)
(* sessionMutex_ lets one control call run at a time.  `todo' is what that *)
(* call has still to do, one entry for each part of it that the USB side,  *)
(* the event thread or requestStop() can interleave with; a failure        *)
(* replaces the rest by the code's own cleanup.  What a libusb call        *)
(* answers is a choice.  A pool is its number of live transfers; how they  *)
(* are resubmitted and deferred is the subject of module IsoTransport.     *)
(***************************************************************************)
EXTENDS Integers, Sequences, FiniteSets

CONSTANTS
  Fds,           \* descriptors open() may be given
  StreamIfaces,  \* AudioStreaming interfaces
  CtlIfaces,     \* AudioControl interfaces
  NoIface,       \* 0xFF, or no device
  Transfers,     \* transferCount_
  SharedClose    \* another control thread may enter between the two halves
                 \* of close(), which takes sessionMutex_ twice

ASSUME LifecycleAssumption ==
  /\ StreamIfaces \cap CtlIfaces = {}
  /\ NoIface \notin StreamIfaces \cup CtlIfaces
  /\ NoIface \notin Fds
  /\ Transfers \in Nat \ {0}
  /\ SharedClose \in BOOLEAN

VARIABLES
  device,           \* fd_ of device_, NoIface when there is none
  line6,            \* line6Profile_
  owned,            \* interfaces the kernel has given to the handle
  outClaim, outIface,   \* interfaceClaimed_, format_.interfaceNumber
  ctlClaim, ctlIface,   \* controlInterfaceClaimed_, claimedControlIface_
  inClaim, inIface,     \* captureInterfaceClaimed_, claimedCaptureIface_
  outXfers,         \* transfers_ is not empty
  inflight,         \* inflight_
  inXfers,          \* captureTransfers_ is not empty
  captureInflight,  \* captureInflight_
  evt,              \* eventThread_; "terminated": assigned while joinable
  stopRequested, captureActive, streaming, playbackStarted,
  todo,             \* what the control call under way has still to do
  closing,          \* a close() that has stopped the stream and not closed yet
  gone              \* the driver is destroyed

claims == <<outClaim, outIface, ctlClaim, ctlIface, inClaim, inIface>>
pools == <<outXfers, inflight, inXfers, captureInflight>>
flags == <<stopRequested, captureActive, streaming>>
vars == <<device, line6, owned, claims, pools, evt, flags, playbackStarted, todo,
          closing, gone>>

Init ==
  /\ device = NoIface /\ line6 = FALSE /\ owned = {}
  /\ outClaim = FALSE /\ outIface = NoIface
  /\ ctlClaim = FALSE /\ ctlIface = NoIface
  /\ inClaim = FALSE /\ inIface = NoIface
  /\ outXfers = FALSE /\ inflight = 0
  /\ inXfers = FALSE /\ captureInflight = 0
  /\ evt = "none"
  /\ stopRequested = FALSE /\ captureActive = FALSE /\ streaming = FALSE
  /\ playbackStarted = FALSE
  /\ todo = <<>> /\ closing = FALSE /\ gone = FALSE

-----------------------------------------------------------------------------
At(part) == todo # <<>> /\ Head(todo) = part

\* The part is done; the call goes on with the next, or returns.
Done == todo' = Tail(todo)

ReturnFalse == todo' = <<>>

\* A stream that failed to start is unwound by stop(), the Line6 one by the
\* `fail' of line6StartDuplex().
Unwind == IF line6 THEN <<"fail">> ELSE <<"stop">>

\* stopIsoPump() and stopCapturePump(), then what the caller does with the
\* results.
TearDown(last) == <<"drainOut", "drainIn", last>>

AskStop ==
  /\ stopRequested' = TRUE
  /\ captureActive' = FALSE
  /\ streaming' = FALSE

-----------------------------------------------------------------------------
(* The USB side.                                                            *)

\* Some thread handles libusb events.
Handling ==
  \/ evt = "running"
  \/ At("drainOut") /\ inflight > 0
  \/ At("drainIn") /\ captureInflight > 0
  \/ At("await")

\* onIso(), onFeedback(): once a stop is requested a completion retires.
OnIsoStopped ==
  /\ Handling /\ inflight > 0 /\ stopRequested
  /\ inflight' = inflight - 1
  /\ UNCHANGED <<device, line6, owned, claims, outXfers, inXfers, captureInflight,
                 evt, flags, playbackStarted, todo, closing, gone>>

\* The device is gone or the resubmission failed: markTransportFailed().
OnIsoFails ==
  /\ Handling /\ inflight > 0 /\ ~stopRequested
  /\ inflight' = inflight - 1
  /\ AskStop
  /\ UNCHANGED <<device, line6, owned, claims, outXfers, inXfers, captureInflight,
                 evt, playbackStarted, todo, closing, gone>>

OnCaptureStopped ==
  /\ Handling /\ captureInflight > 0 /\ (stopRequested \/ ~captureActive)
  /\ captureInflight' = captureInflight - 1
  /\ UNCHANGED <<device, line6, owned, claims, outXfers, inflight, inXfers, evt,
                 flags, playbackStarted, todo, closing, gone>>

OnCaptureFails ==
  /\ Handling /\ captureInflight > 0 /\ ~stopRequested /\ captureActive
  /\ captureInflight' = captureInflight - 1
  /\ AskStop
  /\ UNCHANGED <<device, line6, owned, claims, outXfers, inflight, inXfers, evt,
                 playbackStarted, todo, closing, gone>>

\* runEventLoop() ends once it sees the stop request.
EventLoopExit ==
  /\ evt = "running" /\ stopRequested
  /\ evt' = "exited"
  /\ UNCHANGED <<device, line6, owned, claims, pools, flags, playbackStarted, todo,
                 closing, gone>>

\* requestStop(), from any thread and without a lock.
RequestStop ==
  /\ ~gone
  /\ AskStop
  /\ UNCHANGED <<device, line6, owned, claims, pools, evt, playbackStarted, todo,
                 closing, gone>>

-----------------------------------------------------------------------------
(* The control calls.                                                       *)

\* sessionMutex_ is free.
Free == todo = <<>> /\ ~gone /\ (SharedClose \/ ~closing)

Call(parts) ==
  /\ Free
  /\ todo' = parts
  /\ UNCHANGED <<device, line6, owned, claims, pools, evt, flags, playbackStarted,
                 closing, gone>>

Open == Call(<<"stop", "open">>)

Line6Parts == <<"line6", "capture", "metadata", "output">>

Start ==
  /\ device # NoIface
  /\ Call(IF line6 THEN Line6Parts ELSE <<"prepare", "direct">>)

StartDuplex ==
  /\ device # NoIface
  /\ Call(IF line6 THEN Line6Parts
                   ELSE <<"prepare", "claim", "capture", "prime", "output">>)

Stop == Call(<<"stop">>)

\* close() calls stop() before it takes sessionMutex_ for itself.
Close ==
  /\ Free /\ ~closing
  /\ todo' = <<"stop">>
  /\ closing' = TRUE
  /\ UNCHANGED <<device, line6, owned, claims, pools, evt, flags, playbackStarted,
                 gone>>

\* Nobody may call a driver that is being destroyed.
Destroy == ~closing /\ Call(<<"stop", "stop", "close", "check">>)

\* startPlayback() submits the prepared OUT transfers; n of them are accepted.
\* A submission that fails ends in stopIsoPump().  It refuses a second start and
\* a stopped stream without any effect.
StartPlayback(n) ==
  /\ Free /\ outXfers /\ ~playbackStarted /\ ~stopRequested
  /\ inflight' = n
  /\ IF n = Transfers
       THEN /\ playbackStarted' = TRUE
            /\ streaming' = TRUE
            /\ UNCHANGED <<stopRequested, todo>>
       ELSE /\ stopRequested' = TRUE
            /\ todo' = <<"drainOut">>
            /\ UNCHANGED <<playbackStarted, streaming>>
  /\ UNCHANGED <<device, line6, owned, claims, outXfers, inXfers, captureInflight,
                 evt, captureActive, closing, gone>>

-----------------------------------------------------------------------------
(* stop() and the teardown of the pumps.                                    *)

NothingToStop == ~(outXfers \/ inXfers \/ outClaim \/ ctlClaim \/ inClaim)

StopBegins ==
  /\ At("stop")
  /\ AskStop
  /\ todo' = (IF NothingToStop THEN <<>> ELSE TearDown("release")) \o Tail(todo)
  /\ UNCHANGED <<device, line6, owned, claims, pools, evt, playbackStarted, closing,
                 gone>>

\* Mutant: the event thread is not joined.
DrainOutUnjoined ==
  /\ At("drainOut") /\ inflight = 0
  /\ outXfers' = FALSE
  /\ playbackStarted' = FALSE
  /\ Done
  /\ UNCHANGED <<device, line6, owned, claims, inflight, inXfers, captureInflight,
                 evt, flags, closing, gone>>

\* stopIsoPump(): nothing is in flight, the event thread is joined and the
\* transfers are freed.
DrainOut ==
  /\ At("drainOut") /\ inflight = 0 /\ evt # "running"
  /\ evt' = IF evt = "exited" THEN "none" ELSE evt
  /\ outXfers' = FALSE
  /\ playbackStarted' = FALSE
  /\ Done
  /\ UNCHANGED <<device, line6, owned, claims, inflight, inXfers, captureInflight,
                 flags, closing, gone>>

\* The 500 ms pass with transfers live.  The event thread, which polls for at
\* most 100 ms, has seen the stop request by then.
DrainOutExpires ==
  /\ At("drainOut") /\ inflight > 0 /\ evt # "running"
  /\ Done
  /\ UNCHANGED <<device, line6, owned, claims, pools, evt, flags, playbackStarted,
                 closing, gone>>

\* stopCapturePump()
DrainIn ==
  /\ At("drainIn") /\ captureInflight = 0
  /\ inXfers' = FALSE
  /\ Done
  /\ UNCHANGED <<device, line6, owned, claims, outXfers, inflight, captureInflight,
                 evt, flags, playbackStarted, closing, gone>>

DrainInExpires ==
  /\ At("drainIn") /\ captureInflight > 0 /\ evt # "running"
  /\ Done
  /\ UNCHANGED <<device, line6, owned, claims, pools, evt, flags, playbackStarted,
                 closing, gone>>

\* Both pumps reported success, which is when they emptied their pools.
Stopped == ~outXfers /\ ~inXfers

\* What the flags say the driver holds.
Held(claim, iface) == IF claim THEN {iface} ELSE {}

Tracked ==
  Held(outClaim, outIface) \cup Held(ctlClaim, ctlIface) \cup Held(inClaim, inIface)

\* Mutant: only the playback half decides.
ReleaseAfterPlayback ==
  /\ At("release")
  /\ Done
  /\ IF ~outXfers /\ device # NoIface
       THEN /\ owned' = owned \ Tracked
            /\ outClaim' = FALSE /\ ctlClaim' = FALSE /\ inClaim' = FALSE
            /\ inIface' = IF inClaim THEN NoIface ELSE inIface
       ELSE UNCHANGED <<owned, outClaim, ctlClaim, inClaim, inIface>>
  /\ UNCHANGED <<device, line6, outIface, ctlIface, pools, evt, flags,
                 playbackStarted, closing, gone>>

\* The rest of stop(): interfaces are released once both pumps have stopped.
Release ==
  /\ At("release")
  /\ Done
  /\ IF Stopped /\ device # NoIface
       THEN /\ owned' = owned \ Tracked
            /\ outClaim' = FALSE /\ ctlClaim' = FALSE /\ inClaim' = FALSE
            /\ inIface' = IF inClaim THEN NoIface ELSE inIface
       ELSE UNCHANGED <<owned, outClaim, ctlClaim, inClaim, inIface>>
  /\ UNCHANGED <<device, line6, outIface, ctlIface, pools, evt, flags,
                 playbackStarted, closing, gone>>

-----------------------------------------------------------------------------
(* open(), close() and destruction.                                         *)

TransfersLive == outXfers \/ inXfers \/ inflight # 0 \/ captureInflight # 0

\* open() refuses while transfers live, and keeps a handle it already has.
OpenRefused ==
  /\ At("open")
  /\ TransfersLive
  /\ ReturnFalse
  /\ UNCHANGED <<device, line6, owned, claims, pools, evt, flags, playbackStarted,
                 closing, gone>>

\* Otherwise the old handle is closed and the descriptor wrapped; ok is FALSE
\* when libusb, the driver code or the Line6 identity check refuses it, the
\* last of these with the profile already stored.
OpenDevice(fd, profile, ok) ==
  /\ At("open")
  /\ ~TransfersLive
  /\ Done
  /\ IF device = fd /\ line6 = profile
       THEN UNCHANGED <<device, line6, owned>>
       ELSE /\ owned' = {}
            /\ device' = IF ok THEN fd ELSE NoIface
            /\ line6' \in IF ok THEN {profile} ELSE {line6, line6 \/ profile}
  /\ UNCHANGED <<claims, pools, evt, flags, playbackStarted, closing, gone>>

\* The body of close(), after its stop().
CloseDevice ==
  IF TransfersLive \/ device = NoIface
    THEN UNCHANGED <<device, owned, outIface>>
    ELSE device' = NoIface /\ owned' = {} /\ outIface' = NoIface

CloseEnds ==
  /\ closing /\ todo = <<>>
  /\ closing' = FALSE
  /\ CloseDevice
  /\ UNCHANGED <<line6, outClaim, ctlClaim, ctlIface, inClaim, inIface, pools, evt,
                 flags, playbackStarted, todo, gone>>

DestroyCloses ==
  /\ At("close")
  /\ Done
  /\ CloseDevice
  /\ UNCHANGED <<line6, outClaim, ctlClaim, ctlIface, inClaim, inIface, pools, evt,
                 flags, playbackStarted, closing, gone>>

\* The destructor: transfers that outlived both deadlines are waited for
\* without one.
DestroyChecks ==
  /\ At("check")
  /\ IF inflight # 0 \/ captureInflight # 0
       THEN /\ stopRequested' = TRUE
            /\ todo' = <<"await", "stop", "stop", "close", "exit">>
       ELSE /\ todo' = <<"exit">>
            /\ UNCHANGED stopRequested
  /\ UNCHANGED <<device, line6, owned, claims, pools, evt, captureActive, streaming,
                 playbackStarted, closing, gone>>

DestroyAwaits ==
  /\ At("await")
  /\ inflight = 0 /\ captureInflight = 0
  /\ Done
  /\ UNCHANGED <<device, line6, owned, claims, pools, evt, flags, playbackStarted,
                 closing, gone>>

\* libusb_exit(); the members are destroyed.
Exit ==
  /\ At("exit")
  /\ Done
  /\ gone' = TRUE
  /\ UNCHANGED <<device, line6, owned, claims, pools, evt, flags, playbackStarted,
                 closing>>

-----------------------------------------------------------------------------
(* start() and startDuplex() of the generic profile.                        *)

\* Mutant: only a stream that is up is taken down first.
NeedsResetWhenStreaming == streaming \/ inClaim

\* Something of an earlier session is left.
NeedsReset ==
  streaming \/ outXfers \/ inXfers \/ evt # "none" \/ inflight # 0
    \/ captureInflight # 0 \/ inClaim

\* Mutant: stopIsoPump() does not raise the stop flag the event loop tests.
ReconfigureSilent ==
  /\ At("prepare") /\ NeedsReset
  /\ captureActive' = FALSE
  /\ todo' = TearDown("reset") \o todo
  /\ UNCHANGED <<device, line6, owned, claims, pools, evt, stopRequested, streaming,
                 playbackStarted, closing, gone>>

Reconfigure ==
  /\ At("prepare") /\ NeedsReset
  /\ stopRequested' = TRUE
  /\ captureActive' = FALSE
  /\ todo' = TearDown("reset") \o todo
  /\ UNCHANGED <<device, line6, owned, claims, pools, evt, streaming,
                 playbackStarted, closing, gone>>

\* The old transfers are gone, or start() gives up.
Reset ==
  /\ At("reset")
  /\ IF Stopped
       THEN /\ Done
            /\ owned' = owned \ Held(inClaim, inIface)
            /\ inClaim' = FALSE
            /\ inIface' = IF inClaim THEN NoIface ELSE inIface
            /\ streaming' = FALSE
       ELSE /\ ReturnFalse
            /\ UNCHANGED <<owned, inClaim, inIface, streaming>>
  /\ UNCHANGED <<device, line6, outClaim, outIface, ctlClaim, ctlIface, pools, evt,
                 stopRequested, captureActive, playbackStarted, closing, gone>>

\* No alternate setting matches.
PrepareRefused ==
  /\ At("prepare") /\ ~NeedsReset
  /\ ReturnFalse
  /\ UNCHANGED <<device, line6, owned, claims, pools, evt, flags, playbackStarted,
                 closing, gone>>

NeedClaim(i) == ~outClaim \/ outIface # i

\* Mutant: interfaceClaimed_ is not cleared with the release.
PrepareClaimFailsKept(i) ==
  /\ At("prepare") /\ ~NeedsReset /\ NeedClaim(i)
  /\ owned' = owned \ Held(outClaim, outIface)
  /\ ReturnFalse
  /\ UNCHANGED <<device, line6, claims, pools, evt, flags, playbackStarted, closing,
                 gone>>

\* The streaming interface cannot be claimed; the old one is already released.
PrepareClaimFails(i) ==
  /\ At("prepare") /\ ~NeedsReset /\ NeedClaim(i)
  /\ owned' = owned \ Held(outClaim, outIface)
  /\ outClaim' = FALSE
  /\ ReturnFalse
  /\ UNCHANGED <<device, line6, outIface, ctlClaim, ctlIface, inClaim, inIface,
                 pools, evt, flags, playbackStarted, closing, gone>>

\* start() on interface i with control interface c (NoIface: there is none).
\* The claim of c may fail without consequence.  ready is FALSE when the
\* alternate setting or the sample rate is refused: the claims are kept.
Prepare(i, c, granted, ready) ==
  LET claimCtl == c # NoIface /\ (~ctlClaim \/ ctlIface # c)
      released == (IF NeedClaim(i) THEN Held(outClaim, outIface) ELSE {})
                    \cup (IF claimCtl THEN Held(ctlClaim, ctlIface) ELSE {})
      claimed == {i} \cup (IF claimCtl /\ granted THEN {c} ELSE {})
  IN  /\ At("prepare") /\ ~NeedsReset
      /\ owned' = (owned \ released) \cup claimed
      /\ outClaim' = TRUE /\ outIface' = i
      /\ ctlClaim' = IF claimCtl THEN granted ELSE ctlClaim
      /\ ctlIface' = IF claimCtl /\ granted THEN c ELSE ctlIface
      /\ IF ready
           THEN Done /\ stopRequested' = FALSE /\ playbackStarted' = FALSE
           ELSE ReturnFalse /\ UNCHANGED <<stopRequested, playbackStarted>>
      /\ UNCHANGED <<device, line6, inClaim, inIface, pools, evt, captureActive,
                     streaming, closing, gone>>

\* start() without capture: startIsoPump() prepares the transfers and the event
\* thread, and submitIsoPump() then finds the ring, just emptied, without the
\* prime: start() returns false with everything in place.
DirectRejected ==
  /\ At("direct")
  /\ outXfers' = TRUE
  /\ evt' = IF evt = "none" THEN "running" ELSE evt
  /\ ReturnFalse
  /\ UNCHANGED <<device, line6, owned, claims, inflight, inXfers, captureInflight,
                 flags, playbackStarted, closing, gone>>

\* The endpoint is unusable, or an allocation fails (allocating), which ends in
\* stopIsoPump().
PumpFails(part, allocating, cleanup) ==
  /\ At(part)
  /\ todo' = (IF allocating THEN <<"drainOut">> ELSE <<>>) \o cleanup
  /\ stopRequested' = (allocating \/ stopRequested)
  /\ UNCHANGED <<device, line6, owned, claims, pools, evt, captureActive, streaming,
                 playbackStarted, closing, gone>>

DirectFails(allocating) == PumpFails("direct", allocating, <<>>)

\* startDuplex(): no capture setting, one that shares the playback interface,
\* or a claim that fails.
ClaimRefused ==
  /\ At("claim")
  /\ todo' = Unwind
  /\ UNCHANGED <<device, line6, owned, claims, pools, evt, flags, playbackStarted,
                 closing, gone>>

\* The capture interface is claimed; ready is FALSE when its alternate setting
\* is refused.
ClaimCapture(i, ready) ==
  /\ At("claim") /\ i # outIface
  /\ owned' = owned \cup {i}
  /\ inClaim' = TRUE /\ inIface' = i
  /\ IF ready THEN Done ELSE todo' = Unwind
  /\ UNCHANGED <<device, line6, outClaim, outIface, ctlClaim, ctlIface, pools, evt,
                 flags, playbackStarted, closing, gone>>

\* startCapturePump(): the endpoint is unusable or an allocation fails.
CaptureRefused ==
  /\ At("capture")
  /\ todo' = Unwind
  /\ UNCHANGED <<device, line6, owned, claims, pools, evt, flags, playbackStarted,
                 closing, gone>>

\* n capture transfers are accepted; one refused stops the others again.
StartCapture(n) ==
  /\ At("capture")
  /\ inXfers' = TRUE
  /\ captureInflight' = n
  /\ IF n = Transfers
       THEN Done /\ captureActive' = TRUE /\ UNCHANGED stopRequested
       ELSE /\ todo' = <<"drainIn">> \o Unwind
            /\ captureActive' = FALSE
            /\ stopRequested' = TRUE
  /\ UNCHANGED <<device, line6, owned, claims, outXfers, inflight, evt, streaming,
                 playbackStarted, closing, gone>>

\* With implicit feedback the event thread is created before any OUT transfer,
\* by assignment to eventThread_, and metadata is awaited.
Prime(implicit) ==
  /\ At("prime")
  /\ IF implicit /\ captureActive
       THEN /\ evt' = IF evt = "none" THEN "running" ELSE "terminated"
            /\ todo' = <<"metadata">> \o Tail(todo)
       ELSE Done /\ UNCHANGED evt
  /\ UNCHANGED <<device, line6, owned, claims, pools, flags, playbackStarted,
                 closing, gone>>

\* The wait of at most 50 ms ends with enough metadata, or without.
Metadata(primed) ==
  /\ At("metadata")
  /\ IF primed THEN Done ELSE todo' = Unwind
  /\ UNCHANGED <<device, line6, owned, claims, pools, evt, flags, playbackStarted,
                 closing, gone>>

\* startIsoPump(false) fails.
OutputFails(allocating) == PumpFails("output", allocating, Unwind)

\* startIsoPump(false) succeeds and the stream is up.
StartOutput ==
  /\ At("output")
  /\ outXfers' = TRUE
  /\ evt' = IF evt = "none" THEN "running" ELSE evt
  /\ streaming' = TRUE
  /\ Done
  /\ UNCHANGED <<device, line6, owned, claims, inflight, inXfers, captureInflight,
                 stopRequested, captureActive, playbackStarted, closing, gone>>

-----------------------------------------------------------------------------
(* line6StartDuplex().                                                      *)

Line6Busy ==
  streaming \/ captureActive \/ outXfers \/ inXfers \/ evt # "none"
    \/ inflight # 0 \/ captureInflight # 0

Line6Refused ==
  /\ At("line6") /\ Line6Busy
  /\ ReturnFalse
  /\ UNCHANGED <<device, line6, owned, claims, pools, evt, flags, playbackStarted,
                 closing, gone>>

\* No such alternate setting, or the claim fails.
Line6ClaimFails ==
  /\ At("line6") /\ ~Line6Busy
  /\ todo' = Unwind
  /\ UNCHANGED <<device, line6, owned, claims, pools, evt, flags, playbackStarted,
                 closing, gone>>

\* One interface carries both directions.  ready is FALSE when the alternate
\* setting or the vendor setup is refused.
Line6Prepare(i, ready) ==
  /\ At("line6") /\ ~Line6Busy
  /\ outClaim => i = outIface
  /\ owned' = owned \cup {i}
  /\ outClaim' = TRUE /\ outIface' = i
  /\ stopRequested' = FALSE /\ streaming' = FALSE
  /\ playbackStarted' = FALSE
  /\ IF ready THEN Done /\ evt' = "running"
              ELSE todo' = Unwind /\ UNCHANGED evt
  /\ UNCHANGED <<device, line6, ctlClaim, ctlIface, inClaim, inIface, pools,
                 captureActive, closing, gone>>

Line6Fails ==
  /\ At("fail")
  /\ captureActive' = FALSE
  /\ stopRequested' = TRUE
  /\ todo' = TearDown("line6Release")
  /\ UNCHANGED <<device, line6, owned, claims, pools, evt, streaming,
                 playbackStarted, closing, gone>>

\* The interface is released whatever the two pumps reported.
Line6Release ==
  /\ At("line6Release")
  /\ owned' = owned \ Held(outClaim, outIface)
  /\ outClaim' = FALSE
  /\ streaming' = FALSE
  /\ Done
  /\ UNCHANGED <<device, line6, outIface, ctlClaim, ctlIface, inClaim, inIface,
                 pools, evt, stopRequested, captureActive, playbackStarted, closing,
                 gone>>

-----------------------------------------------------------------------------
Usb ==
  \/ OnIsoStopped \/ OnIsoFails
  \/ OnCaptureStopped \/ OnCaptureFails
  \/ EventLoopExit

Owner ==
  \/ Open \/ Start \/ StartDuplex \/ Stop \/ Close \/ Destroy
  \/ \E n \in 0..Transfers : StartPlayback(n)

Teardown ==
  \/ StopBegins \/ DrainOut \/ DrainOutExpires \/ DrainIn \/ DrainInExpires
  \/ Release \/ CloseEnds
  \/ DestroyCloses \/ DestroyChecks \/ DestroyAwaits \/ Exit

Startup ==
  \/ OpenRefused
  \/ \E fd \in Fds, profile \in BOOLEAN, ok \in BOOLEAN :
       OpenDevice(fd, profile, ok)
  \/ Reconfigure \/ Reset \/ PrepareRefused
  \/ \E i \in StreamIfaces : PrepareClaimFails(i)
  \/ \E i \in StreamIfaces, c \in CtlIfaces \cup {NoIface},
        granted \in BOOLEAN, ready \in BOOLEAN : Prepare(i, c, granted, ready)
  \/ DirectRejected \/ ClaimRefused \/ CaptureRefused \/ StartOutput
  \/ \E allocating \in BOOLEAN : DirectFails(allocating) \/ OutputFails(allocating)
  \/ \E i \in StreamIfaces, ready \in BOOLEAN : ClaimCapture(i, ready)
  \/ \E n \in 0..Transfers : StartCapture(n)
  \/ \E implicit \in BOOLEAN : Prime(implicit)
  \/ \E primed \in BOOLEAN : Metadata(primed)
  \/ Line6Refused \/ Line6ClaimFails \/ Line6Fails \/ Line6Release
  \/ \E i \in StreamIfaces, ready \in BOOLEAN : Line6Prepare(i, ready)

Next == Usb \/ RequestStop \/ Owner \/ Teardown \/ Startup

Spec == Init /\ [][Next]_vars

(* A control call that has begun runs on, USB completes a cancelled         *)
(* transfer as long as some thread handles events, and the event thread     *)
(* sees the stop request.  Nothing makes the owner call anything.           *)
Fairness ==
  /\ WF_vars(Teardown)
  /\ WF_vars(Startup)
  /\ WF_vars(OnIsoStopped)
  /\ WF_vars(OnCaptureStopped)
  /\ WF_vars(EventLoopExit)

FairSpec == Spec /\ Fairness

-----------------------------------------------------------------------------
(* Properties.                                                              *)

(* The kernel's view and the driver's agree: the interfaces the handle owns *)
(* are exactly those the three claim flags name, and playback and capture   *)
(* never name the same one.  An interface owned and not tracked is lost to  *)
(* Android until the process ends; one tracked and not owned makes the next *)
(* start() skip its claim.                                                  *)
ClaimsTracked ==
  /\ owned = Tracked
  /\ outClaim /\ inClaim => outIface # inIface

(* "Apply the same order for ... failed startup cleanup": a live transfer   *)
(* always has its interface, on every path through start, failure, retry    *)
(* and stop.                                                                *)
LiveHeld ==
  /\ inflight > 0 => outIface \in owned
  /\ captureInflight > 0 => (IF line6 THEN outIface ELSE inIface) \in owned

(* The same for the generic profile, whose cleanup is stop().               *)
GenericLiveHeld == ~line6 => LiveHeld

(* "Reconnect only after all old transfers and threads are quiescent": the  *)
(* generic profile gives its streaming interfaces back only with both pools *)
(* freed and the event thread joined.                                       *)
ReleasedQuiescent ==
  ~line6 /\ ~outClaim =>
    Stopped /\ inflight = 0 /\ captureInflight = 0 /\ evt = "none"

(* eventThread_ is never assigned while it is joinable (std::terminate),    *)
(* and no start appends to the transfer pool of an earlier session: "A      *)
(* restart must not reuse a stale FD or transfer pool".                     *)
FreshStart ==
  /\ evt # "terminated"
  /\ At("capture") => ~inXfers /\ captureInflight = 0
  /\ At("output") \/ At("direct") => ~outXfers /\ inflight = 0

(* Every control call returns and every destruction ends: no drain, join or *)
(* wait of theirs can hang on a thread or a transfer nobody serves.         *)
CallsReturn == todo # <<>> ~> todo = <<>>
=============================================================================
