-------------------------- MODULE MCPlaybackAdmission --------------------------
(* Requests for PlaybackAdmission: all automatic, exact terms that play,   *)
(* and terms that do not fit.                                              *)
EXTENDS PlaybackAdmission

Exactly(target, prime, headroom) ==
  [automaticRequest EXCEPT !.target = target, !.prime = prime, !.headroom = headroom]

MCRequests ==
  {[Exactly(1, 3, 7) EXCEPT !.captureTarget = ExplicitZero],
   Exactly(9, 0, 9),
   [automaticRequest EXCEPT !.target = -1]}

\* 3 frames in 2 packets: the scheduler plans 1, then 2.
MCFirstPlans == {<<1, 2>>}

================================================================================
