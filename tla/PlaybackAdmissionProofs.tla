------------------------- MODULE PlaybackAdmissionProofs -------------------------
(***************************************************************************)
(* The credit ledger for any number of transfers, any packet plans, quanta *)
(* and buffering policy.                                                   *)
(*                                                                         *)
(* The properties are about sums over sets of transfers, so the module     *)
(* first shows what SumOf computes: set induction over the naturals gives  *)
(* the running sums, and from them what a sum gains when a transfer joins  *)
(* the set and what filling the transfers in order takes from the ring.    *)
(*                                                                         *)
(* AdmissionInv is inductive.  The ledger needs PlaceInv (a transfer is in *)
(* one place, or a completion would credit its frames twice) and PaidInv   *)
(* (who has paid for the block in the render thread's hands).  The bounds  *)
(* of a session that plays need their values before it does: while         *)
(* startPlayback() still submits, the lead may be as large as the          *)
(* transfers submitted so far can carry, and the error of queuedOutFrames_ *)
(* as large as the transfers counted so far.                               *)
(***************************************************************************)
EXTENDS PlaybackAdmission, FiniteSetTheorems, WellFoundedInduction, SequenceTheorems,
        TLAPS

(* Induction over the naturals, with a set in the place of a predicate.    *)

LEMMA LeastNat ==
  ASSUME NEW T, T \subseteq Nat, T # {}
  PROVE  \E x \in T : \A y \in T : x <= y
  <1> DEFINE Below == {0..n : n \in T}
             R == StrictSubsetOrdering(Nat)
             F == FiniteSubsetsOf(Nat)
  <1>1. Below \subseteq F
    <2>1. SUFFICES ASSUME NEW n \in T PROVE 0..n \in F
      OBVIOUS
    <2>2. IsFiniteSet(0..n)
      BY FS_Interval, n \in Int, 0 \in Int
    <2>3. 0..n \subseteq Nat
      OBVIOUS
    <2> QED
      BY <2>2, <2>3 DEF FiniteSubsetsOf
  <1>2. Below # {}
    OBVIOUS
  <1>3. IsWellFoundedOn(R, F)
    BY FS_StrictSubsetOrderingWellFounded
  <1>4. \E x \in Below : \A y \in Below : ~(<<y, x>> \in R)
    <2> HIDE DEF Below, R, F
    <2> QED
      BY <1>1, <1>2, <1>3, WFMin
  <1>5. PICK n \in T : \A m \in T : ~(<<0..m, 0..n>> \in R)
    BY <1>4
  <1>6. ASSUME NEW m \in T, m < n PROVE FALSE
    <2>1. n \in 0..n /\ n \notin 0..m
      BY <1>6
    <2>2. 0..m \subseteq 0..n /\ 0..m # 0..n /\ 0..m \subseteq Nat /\ 0..n \subseteq Nat
      BY <1>6, <2>1
    <2>3. <<0..m, 0..n>> \in R
      BY <2>2 DEF StrictSubsetOrdering
    <2> QED
      BY <1>5, <2>3
  <1> QED
    BY <1>6

LEMMA Induction ==
  ASSUME NEW S, 0 \in S, \A n \in Nat : n \in S => n + 1 \in S
  PROVE  Nat \subseteq S
  <1> SUFFICES ASSUME Nat \ S # {} PROVE FALSE
    OBVIOUS
  <1>1. PICK x \in Nat \ S : \A y \in Nat \ S : x <= y
    BY LeastNat, Nat \ S \subseteq Nat
  <1>2. x - 1 \in Nat
    BY <1>1
  <1>3. x - 1 \in S
    BY <1>1, <1>2
  <1>4. (x - 1) + 1 \in S
    BY <1>2, <1>3
  <1> QED
    BY <1>1, <1>4

--------------------------------------------------------------------------------
(* Sums.                                                                   *)

\* The running sums of a function on 1..n.
Sums(f, e, n) ==
  /\ f \in [0..n -> Int]
  /\ f[0] = 0
  /\ \A t \in 1..n : f[t] = f[t - 1] + e[t]

(* Running sums exist.                                                     *)
LEMMA SumsExist ==
  ASSUME NEW n \in Nat, NEW e \in [1..n -> Int]
  PROVE  \E f : Sums(f, e, n)
  <1> DEFINE S == {k \in Nat : k <= n => \E f : Sums(f, e, k)}
  <1>1. 0 \in S
    <2>1. Sums([t \in 0..0 |-> 0], e, 0)
      BY DEF Sums
    <2> QED
      BY <2>1
  <1>2. ASSUME NEW k \in Nat, k \in S PROVE k + 1 \in S
    <2> SUFFICES ASSUME k + 1 <= n PROVE \E f : Sums(f, e, k + 1)
      OBVIOUS
    <2>1. PICK f : Sums(f, e, k)
      BY <1>2
    <2> DEFINE g == [t \in 0..(k + 1) |-> IF t <= k THEN f[t] ELSE f[k] + e[k + 1]]
    <2>2. k \in 0..k /\ k + 1 \in 1..n /\ f[k] + e[k + 1] \in Int
      BY <2>1 DEF Sums
    <2>3. g \in [0..(k + 1) -> Int]
      <3>1. ASSUME NEW t \in 0..(k + 1), t <= k PROVE f[t] \in Int
        <4>1. t \in 0..k
          BY <3>1
        <4> QED
          BY <2>1, <4>1 DEF Sums
      <3> QED
        BY <2>2, <3>1
    <2>4. g[0] = 0
      <3>1. 0 \in 0..(k + 1) /\ 0 <= k
        OBVIOUS
      <3> QED
        BY <2>1, <3>1 DEF Sums
    <2>5. ASSUME NEW t \in 1..(k + 1) PROVE g[t] = g[t - 1] + e[t]
      <3>1. t \in 0..(k + 1) /\ t - 1 \in 0..(k + 1) /\ t - 1 <= k
        OBVIOUS
      <3>2. g[t - 1] = f[t - 1]
        BY <3>1
      <3>3. CASE t <= k
        <4>1. t \in 1..k
          BY <3>3
        <4>2. f[t] = f[t - 1] + e[t]
          BY <2>1, <4>1 DEF Sums
        <4>3. g[t] = f[t]
          BY <3>1, <3>3
        <4> QED
          BY <3>2, <4>2, <4>3
      <3>4. CASE ~(t <= k)
        <4>1. t = k + 1 /\ t - 1 = k
          BY <3>4
        <4>2. g[t] = f[k] + e[k + 1]
          BY <3>1, <3>4
        <4> QED
          BY <3>2, <4>1, <4>2
      <3> QED
        BY <3>3, <3>4
    <2> QED
      BY <2>3, <2>4, <2>5 DEF Sums
  <1>3. n \in S
    <2> HIDE DEF S
    <2> QED
      BY <1>1, <1>2, Induction
  <1> QED
    BY <1>3

\* What each transfer adds to a sum over a set of transfers.
Share(plan, set) == [t \in Pool |-> IF t \in set THEN plan[t] ELSE 0]

\* Functions on the transfers.
Layouts == [Pool -> Int]

(* The sum over a set of transfers is the last of the running sums.        *)
LEMMA SumIs ==
  ASSUME NEW plan \in Layouts, NEW set
  PROVE  \E f : Sums(f, Share(plan, set), Transfers) /\ SumOf(plan, set) = f[Transfers]
  <1> DEFINE e == Share(plan, set)
             Body(f) == [t \in 0..Transfers |->
                           IF t = 0 THEN 0
                           ELSE f[t - 1] + (IF t \in set THEN plan[t] ELSE 0)]
  <1>0. Transfers \in Nat
    BY AdmissionAssumption DEF AdmissionAssumption
  <1>1. e \in [1..Transfers -> Int]
    BY DEF Share, Layouts, Pool
  <1>2. ASSUME NEW f, f = Body(f), NEW g, Sums(g, e, Transfers)
        PROVE  f = g
    <2> DEFINE S == {k \in Nat : k <= Transfers => f[k] = g[k]}
    <2>1. 0 \in S
      BY <1>0, <1>2 DEF Sums
    <2>2. ASSUME NEW k \in Nat, k \in S PROVE k + 1 \in S
      <3> SUFFICES ASSUME k + 1 <= Transfers PROVE f[k + 1] = g[k + 1]
        OBVIOUS
      <3>1. k + 1 \in 0..Transfers /\ k + 1 \in 1..Transfers /\ (k + 1) - 1 = k /\ k + 1 # 0
        BY <1>0
      <3>2. f[k + 1] = f[k] + (IF k + 1 \in set THEN plan[k + 1] ELSE 0)
        BY <1>2, <3>1
      <3>3. g[k + 1] = g[k] + e[k + 1]
        BY <1>2, <3>1 DEF Sums
      <3>4. e[k + 1] = IF k + 1 \in set THEN plan[k + 1] ELSE 0
        BY <3>1 DEF Share, Pool
      <3>5. f[k] = g[k]
        BY <1>0, <2>2
      <3> QED
        BY <3>2, <3>3, <3>4, <3>5
    <2>3. Nat \subseteq S
      <3> HIDE DEF S
      <3> QED
        BY <2>1, <2>2, Induction
    <2>4. \A t \in 0..Transfers : f[t] = g[t]
      BY <1>0, <2>3
    <2>5. f = [t \in 0..Transfers |-> f[t]] /\ g = [t \in 0..Transfers |-> g[t]]
      BY <1>2 DEF Sums
    <2> QED
      BY <2>4, <2>5
  <1>3. PICK g : Sums(g, e, Transfers)
    BY <1>0, <1>1, SumsExist
  <1>4. g = Body(g)
    <2>1. ASSUME NEW t \in 0..Transfers PROVE g[t] = Body(g)[t]
      <3>1. CASE t = 0
        BY <1>3, <3>1 DEF Sums
      <3>2. CASE t # 0
        <4>1. t \in 1..Transfers
          BY <1>0, <3>2
        <4>2. g[t] = g[t - 1] + e[t]
          BY <1>3, <4>1 DEF Sums
        <4>3. e[t] = IF t \in set THEN plan[t] ELSE 0
          BY <4>1 DEF Share, Pool
        <4> QED
          BY <3>2, <4>2, <4>3
      <3> QED
        BY <3>1, <3>2
    <2>2. g = [t \in 0..Transfers |-> g[t]]
      BY <1>3 DEF Sums
    <2> QED
      BY <2>1, <2>2
  <1> DEFINE sum == CHOOSE f : f = Body(f)
  <1>5. SumOf(plan, set) = sum[Transfers]
    BY DEF SumOf
  <1>6. sum = Body(sum)
    <2> HIDE DEF Body
    <2> QED
      BY <1>4
  <1>7. sum = g
    <2> HIDE DEF sum, Body
    <2> QED
      BY <1>2, <1>3, <1>6
  <1> QED
    BY <1>3, <1>5, <1>7

\* Functions on 1..n that differ at u, if at all.
SameBut(e, d, u, n) ==
  /\ e \in [1..n -> Int] /\ d \in [1..n -> Int] /\ u \in 1..n
  /\ \A t \in 1..n : t # u => d[t] = e[t]

(* Their sums.                                                             *)
LEMMA SumsChange ==
  ASSUME NEW n \in Nat, NEW e, NEW d, NEW u, SameBut(e, d, u, n),
         NEW f, NEW g, Sums(f, e, n), Sums(g, d, n)
  PROVE  g[n] = f[n] + (d[u] - e[u])
  <1> DEFINE x == d[u] - e[u]
             S == {k \in Nat : k <= n => g[k] = f[k] + (IF k < u THEN 0 ELSE x)}
  <1> USE DEF SameBut
  <1>0. x \in Int /\ u \in Nat /\ u >= 1
    OBVIOUS
  <1> HIDE DEF x
  <1>1. 0 \in S
    BY <1>0 DEF Sums
  <1>2. ASSUME NEW k \in Nat, k \in S PROVE k + 1 \in S
    <2> SUFFICES ASSUME k + 1 <= n
                 PROVE  g[k + 1] = f[k + 1] + (IF k + 1 < u THEN 0 ELSE x)
      OBVIOUS
    <2>1. k + 1 \in 1..n /\ (k + 1) - 1 = k /\ k <= n /\ k \in 0..n
      OBVIOUS
    <2>2. f[k + 1] = f[k] + e[k + 1] /\ g[k + 1] = g[k] + d[k + 1]
      BY <2>1 DEF Sums
    <2>3. f[k] \in Int /\ g[k] \in Int /\ e[k + 1] \in Int /\ d[k + 1] \in Int
      BY <2>1 DEF Sums
    <2>4. g[k] = f[k] + (IF k < u THEN 0 ELSE x)
      BY <1>2, <2>1
    <2>5. CASE k + 1 = u
      <3>1. d[k + 1] = e[k + 1] + x
        BY <2>3, <2>5, SMTT(30) DEF x
      <3> QED
        BY <1>0, <2>2, <2>3, <2>4, <2>5, <3>1
    <2>6. CASE k + 1 # u
      <3>1. d[k + 1] = e[k + 1]
        BY <2>1, <2>6
      <3>2. (k + 1 < u) <=> (k < u)
        BY <1>0, <2>6
      <3> QED
        BY <1>0, <2>2, <2>3, <2>4, <3>1, <3>2
    <2> QED
      BY <2>5, <2>6
  <1>3. n \in S
    <2> HIDE DEF S
    <2> QED
      BY <1>1, <1>2, Induction
  <1>4. ~(n < u)
    OBVIOUS
  <1> QED
    BY <1>3, <1>4 DEF x

(* Sums of bounded numbers.                                                *)
LEMMA SumsBound ==
  ASSUME NEW n \in Nat, NEW f, NEW e, Sums(f, e, n), e \in [1..n -> Int],
         NEW s \in 0..n, NEW m \in Nat, \A t \in 1..n : e[t] <= IF t <= s THEN m ELSE 0
  PROVE  f[n] <= s * m
  <1> DEFINE S == {k \in Nat : k <= n => f[k] <= (IF k <= s THEN k ELSE s) * m}
  <1>0. s \in Nat /\ s * m \in Nat
    OBVIOUS
  <1>1. 0 \in S
    BY <1>0 DEF Sums
  <1>2. ASSUME NEW k \in Nat, k \in S PROVE k + 1 \in S
    <2> SUFFICES ASSUME k + 1 <= n
                 PROVE  f[k + 1] <= (IF k + 1 <= s THEN k + 1 ELSE s) * m
      OBVIOUS
    <2>1. k + 1 \in 1..n /\ (k + 1) - 1 = k /\ k <= n /\ k \in 0..n
      OBVIOUS
    <2>2. f[k + 1] = f[k] + e[k + 1]
      BY <2>1 DEF Sums
    <2>3. f[k] \in Int /\ e[k + 1] \in Int
      BY <2>1 DEF Sums
    <2>4. f[k] <= (IF k <= s THEN k ELSE s) * m
      BY <1>2, <2>1
    <2>5. e[k + 1] <= IF k + 1 <= s THEN m ELSE 0
      BY <2>1
    <2>6. CASE k + 1 <= s
      <3>1. f[k] <= k * m /\ e[k + 1] <= m
        BY <1>0, <2>4, <2>5, <2>6
      <3>2. (k + 1) * m = k * m + m /\ k * m \in Int
        OBVIOUS
      <3> QED
        BY <2>2, <2>3, <2>6, <3>1, <3>2
    <2>7. CASE ~(k + 1 <= s)
      <3>1. f[k] <= s * m
        <4>1. CASE k <= s
          <5>1. k = s
            BY <1>0, <2>7, <4>1
          <5> QED
            BY <2>4, <5>1
        <4>2. CASE ~(k <= s)
          BY <2>4, <4>2
        <4> QED
          BY <4>1, <4>2
      <3>2. e[k + 1] <= 0
        BY <2>5, <2>7
      <3> QED
        BY <1>0, <2>2, <2>3, <2>7, <3>1, <3>2
    <2> QED
      BY <2>6, <2>7
  <1>3. n \in S
    <2> HIDE DEF S
    <2> QED
      BY <1>1, <1>2, Induction
  <1>4. CASE n <= s
    <2>1. n = s
      BY <1>4
    <2> QED
      BY <1>3, <2>1
  <1>5. CASE ~(n <= s)
    BY <1>3, <1>5
  <1> QED
    BY <1>4, <1>5

LEMMA SumsLeast ==
  ASSUME NEW n \in Nat, NEW f, NEW e, Sums(f, e, n), e \in [1..n -> Int],
         NEW m \in {0, 1}, \A t \in 1..n : e[t] >= m
  PROVE  f[n] >= IF m = 1 THEN n ELSE 0
  <1> DEFINE S == {k \in Nat : k <= n => f[k] >= IF m = 1 THEN k ELSE 0}
  <1>1. 0 \in S
    BY DEF Sums
  <1>2. ASSUME NEW k \in Nat, k \in S PROVE k + 1 \in S
    <2> SUFFICES ASSUME k + 1 <= n PROVE f[k + 1] >= IF m = 1 THEN k + 1 ELSE 0
      OBVIOUS
    <2>1. k + 1 \in 1..n /\ (k + 1) - 1 = k /\ k <= n /\ k \in 0..n
      OBVIOUS
    <2>2. f[k + 1] = f[k] + e[k + 1]
      BY <2>1 DEF Sums
    <2>3. f[k] \in Int /\ e[k + 1] \in Int /\ e[k + 1] >= m
      BY <2>1 DEF Sums
    <2>4. f[k] >= IF m = 1 THEN k ELSE 0
      BY <1>2, <2>1
    <2> QED
      BY <2>2, <2>3, <2>4
  <1>3. n \in S
    <2> HIDE DEF S
    <2> QED
      BY <1>1, <1>2, Induction
  <1> QED
    BY <1>3

LEMMA Shares ==
  ASSUME NEW plan \in Layouts, NEW set
  PROVE  /\ Share(plan, set) \in [1..Transfers -> Int]
         /\ \A t \in 1..Transfers : Share(plan, set)[t] = IF t \in set THEN plan[t] ELSE 0
         /\ Transfers \in Nat /\ Transfers >= 1
  BY AdmissionAssumption DEF AdmissionAssumption, Share, Layouts, Pool

(* What a sum over a set of transfers is and does not exceed.              *)
LEMMA SumNumber ==
  ASSUME NEW plan \in Layouts, NEW set
  PROVE  /\ SumOf(plan, set) \in Int
         /\ (\A t \in Pool : plan[t] >= 0) => SumOf(plan, set) >= 0
  <1> DEFINE e == Share(plan, set)
  <1>1. PICK f : Sums(f, e, Transfers) /\ SumOf(plan, set) = f[Transfers]
    BY SumIs
  <1>2. e \in [1..Transfers -> Int] /\ Transfers \in Nat
    BY Shares
  <1>3. SumOf(plan, set) \in Int
    BY <1>1, <1>2, Transfers \in 0..Transfers DEF Sums
  <1>4. ASSUME \A t \in Pool : plan[t] >= 0 PROVE SumOf(plan, set) >= 0
    <2>1. \A t \in 1..Transfers : e[t] >= 0
      BY <1>4, Shares DEF Pool
    <2> HIDE DEF e
    <2>2. f[Transfers] >= IF 0 = 1 THEN Transfers ELSE 0
      BY <1>1, <1>2, <2>1, SumsLeast
    <2> QED
      BY <1>1, <2>2
  <1> QED
    BY <1>3, <1>4

LEMMA SumMost ==
  ASSUME NEW plan \in Layouts, NEW s \in 0..Transfers, NEW set, set \subseteq 1..s,
         NEW m \in Nat, \A t \in set : plan[t] <= m
  PROVE  SumOf(plan, set) <= s * m
  <1> DEFINE e == Share(plan, set)
  <1>1. PICK f : Sums(f, e, Transfers) /\ SumOf(plan, set) = f[Transfers]
    BY SumIs
  <1>2. e \in [1..Transfers -> Int] /\ Transfers \in Nat
    BY Shares
  <1>3. ASSUME NEW t \in 1..Transfers PROVE e[t] <= IF t <= s THEN m ELSE 0
    <2>1. e[t] = IF t \in set THEN plan[t] ELSE 0
      BY Shares
    <2>2. t \in set => t <= s /\ plan[t] <= m
      OBVIOUS
    <2> QED
      BY <2>1, <2>2
  <1> HIDE DEF e
  <1> QED
    BY <1>1, <1>2, <1>3, SumsBound

LEMMA SumLeast ==
  ASSUME NEW plan \in Layouts, \A t \in Pool : plan[t] >= 1
  PROVE  SumOf(plan, Pool) >= Transfers
  <1> DEFINE e == Share(plan, Pool)
  <1>1. PICK f : Sums(f, e, Transfers) /\ SumOf(plan, Pool) = f[Transfers]
    BY SumIs
  <1>2. e \in [1..Transfers -> Int] /\ Transfers \in Nat
    BY Shares
  <1>3. \A t \in 1..Transfers : e[t] >= 1
    BY Shares DEF Pool
  <1> HIDE DEF e
  <1>4. f[Transfers] >= IF 1 = 1 THEN Transfers ELSE 0
    BY <1>1, <1>2, <1>3, SumsLeast
  <1> QED
    BY <1>1, <1>4

(* The sum over no transfers.                                              *)
LEMMA SumNone ==
  ASSUME NEW plan \in Layouts
  PROVE  SumOf(plan, {}) = 0
  <1> DEFINE e == Share(plan, {})
  <1>1. PICK f : Sums(f, e, Transfers) /\ SumOf(plan, {}) = f[Transfers]
    BY SumIs
  <1>2. e \in [1..Transfers -> Int] /\ Transfers \in Nat
    BY Shares
  <1>3. \A t \in 1..Transfers : e[t] = 0
    BY Shares
  <1> HIDE DEF e
  <1>4. f[Transfers] >= IF 0 = 1 THEN Transfers ELSE 0
    BY <1>1, <1>2, <1>3, SumsLeast
  <1>5. f[Transfers] <= 0 * 0
    BY <1>1, <1>2, <1>3, SumsBound
  <1>6. f[Transfers] \in Int
    BY <1>1, <1>2, Transfers \in 0..Transfers DEF Sums
  <1> QED
    BY <1>1, <1>4, <1>5, <1>6

(* Sums of layouts that agree on the set.                                  *)
LEMMA SumSame ==
  ASSUME NEW plan \in Layouts, NEW other \in Layouts, NEW set,
         \A t \in Pool : t \in set => other[t] = plan[t]
  PROVE  SumOf(other, set) = SumOf(plan, set)
  <1>1. Share(other, set) = Share(plan, set)
    BY DEF Share
  <1> DEFINE e == Share(plan, set)
  <1>2. PICK f : Sums(f, e, Transfers) /\ SumOf(plan, set) = f[Transfers]
    BY SumIs
  <1>3. PICK g : Sums(g, e, Transfers) /\ SumOf(other, set) = g[Transfers]
    BY <1>1, SumIs
  <1>4. e \in [1..Transfers -> Int] /\ Transfers \in Nat /\ 1 \in 1..Transfers
    BY Shares
  <1> HIDE DEF e
  <1>5. g[Transfers] = f[Transfers] + (e[1] - e[1])
    <2>1. SameBut(e, e, 1, Transfers)
      BY <1>4 DEF SameBut
    <2> QED
      BY <1>2, <1>3, <1>4, <2>1, SumsChange
  <1>6. f[Transfers] \in Int /\ e[1] \in Int
    BY <1>2, <1>4, Transfers \in 0..Transfers DEF Sums
  <1> QED
    BY <1>2, <1>3, <1>5, <1>6

(* A transfer joins the set.                                               *)
LEMMA SumJoin ==
  ASSUME NEW plan \in Layouts, NEW set, NEW t \in Pool, t \notin set
  PROVE  SumOf(plan, set \cup {t}) = SumOf(plan, set) + plan[t]
  <1> DEFINE e == Share(plan, set)
             d == Share(plan, set \cup {t})
  <1>1. PICK f : Sums(f, e, Transfers) /\ SumOf(plan, set) = f[Transfers]
    BY SumIs
  <1>2. PICK g : Sums(g, d, Transfers) /\ SumOf(plan, set \cup {t}) = g[Transfers]
    BY SumIs
  <1>3. /\ e \in [1..Transfers -> Int] /\ d \in [1..Transfers -> Int] /\ Transfers \in Nat
        /\ t \in 1..Transfers
    BY Shares DEF Pool
  <1>4. e[t] = 0 /\ d[t] = plan[t] /\ SameBut(e, d, t, Transfers)
    BY <1>3 DEF Share, Pool, SameBut
  <1> HIDE DEF e, d
  <1>5. g[Transfers] = f[Transfers] + (d[t] - e[t])
    BY <1>1, <1>2, <1>3, <1>4, SumsChange
  <1>6. plan[t] \in Int /\ f[Transfers] \in Int
    BY <1>1, <1>3, Transfers \in 0..Transfers DEF Sums, Layouts
  <1> QED
    BY <1>1, <1>2, <1>4, <1>5, <1>6

(* The sum over the first transfers is a running sum.                      *)
LEMMA SumPrefix ==
  ASSUME NEW plan \in Layouts, NEW f, Sums(f, Share(plan, Pool), Transfers),
         NEW k \in 0..Transfers
  PROVE  SumOf(plan, 1..k) = f[k]
  <1> DEFINE e == Share(plan, Pool)
             d == Share(plan, 1..k)
  <1>0. Transfers \in Nat /\ k \in Nat /\ k <= Transfers
    BY Shares
  <1>1. PICK g : Sums(g, d, Transfers) /\ SumOf(plan, 1..k) = g[Transfers]
    BY SumIs
  <1>2. ASSUME NEW t \in 1..Transfers
        PROVE  d[t] = (IF t <= k THEN e[t] ELSE 0) /\ e[t] \in Int
    BY <1>0 DEF Share, Pool, Layouts
  <1> HIDE DEF e, d
  <1> DEFINE S == {j \in Nat : j <= Transfers => g[j] = IF j <= k THEN f[j] ELSE f[k]}
  <1>3. 0 \in S
    BY <1>0, <1>1 DEF Sums
  <1>4. ASSUME NEW j \in Nat, j \in S PROVE j + 1 \in S
    <2> SUFFICES ASSUME j + 1 <= Transfers
                 PROVE  g[j + 1] = IF j + 1 <= k THEN f[j + 1] ELSE f[k]
      OBVIOUS
    <2>1. j + 1 \in 1..Transfers /\ (j + 1) - 1 = j /\ j <= Transfers /\ j \in 0..Transfers
      BY <1>0
    <2>2. g[j + 1] = g[j] + d[j + 1]
      BY <1>1, <2>1 DEF Sums
    <2>3. f[j + 1] = f[j] + e[j + 1]
      BY <2>1 DEF Sums, e
    <2>4. g[j] = IF j <= k THEN f[j] ELSE f[k]
      BY <1>4, <2>1
    <2>5. f[k] \in Int
      BY <1>0 DEF Sums
    <2>6. CASE j + 1 <= k
      BY <1>0, <1>2, <2>1, <2>2, <2>3, <2>4, <2>6
    <2>7. CASE ~(j + 1 <= k)
      <3>1. g[j] = f[k]
        <4>1. j <= k => j = k
          BY <1>0, <2>7
        <4> QED
          BY <2>4, <4>1
      <3>2. d[j + 1] = 0
        BY <1>2, <2>1, <2>7
      <3> QED
        BY <2>2, <2>5, <2>7, <3>1, <3>2
    <2> QED
      BY <2>6, <2>7
  <1>5. Transfers \in S
    <2> HIDE DEF S
    <2> QED
      BY <1>0, <1>3, <1>4, Induction
  <1>6. Transfers <= k => Transfers = k
    BY <1>0
  <1> QED
    BY <1>1, <1>5, <1>6

\* The transfers filled in order from so many frames.
FilledFrom(have, plan) ==
  [t \in Pool |-> Lesser(plan[t], Greater(0, have - SumOf(plan, 1..(t - 1))))]

(* Filling takes what there is, or what the transfers ask for.             *)
LEMMA SumFill ==
  ASSUME NEW plan \in [Pool -> Nat], NEW have \in Nat
  PROVE  /\ FilledFrom(have, plan) \in [Pool -> Nat]
         /\ \A t \in Pool : FilledFrom(have, plan)[t] <= plan[t]
         /\ SumOf(FilledFrom(have, plan), Pool) = Lesser(have, SumOf(plan, Pool))
  <1> DEFINE filled == FilledFrom(have, plan)
             e == Share(plan, Pool)
             d == Share(filled, Pool)
  <1>0. Transfers \in Nat /\ plan \in Layouts /\ Pool = 1..Transfers
    BY AdmissionAssumption DEF AdmissionAssumption, Layouts, Pool
  <1>1. PICK f : Sums(f, e, Transfers) /\ SumOf(plan, Pool) = f[Transfers]
    BY <1>0, SumIs
  <1>2. ASSUME NEW t \in Pool
        PROVE  /\ t \in 1..Transfers /\ t - 1 \in 0..Transfers
               /\ f[t - 1] \in Int /\ plan[t] \in Nat
               /\ filled[t] = Lesser(plan[t], Greater(0, have - f[t - 1]))
               /\ f[t] = f[t - 1] + plan[t]
    <2>1. t \in 1..Transfers /\ t - 1 \in 0..Transfers /\ plan[t] \in Nat
      BY <1>0
    <2>2. SumOf(plan, 1..(t - 1)) = f[t - 1]
      BY <1>0, <1>1, <2>1, SumPrefix
    <2>3. filled[t] = Lesser(plan[t], Greater(0, have - SumOf(plan, 1..(t - 1))))
      BY DEF FilledFrom
    <2>4. f[t - 1] \in Int /\ f[t] = f[t - 1] + e[t]
      BY <1>1, <2>1 DEF Sums
    <2>5. e[t] = plan[t]
      BY DEF Share
    <2> QED
      BY <2>1, <2>2, <2>3, <2>4, <2>5
  <1>3. ASSUME NEW t \in Pool PROVE filled[t] \in Nat /\ filled[t] <= plan[t]
    <2> HIDE DEF filled
    <2> QED
      BY <1>2 DEF Lesser, Greater
  <1>4. filled \in [Pool -> Nat] /\ filled \in Layouts
    BY <1>3 DEF FilledFrom, Layouts
  <1>5. PICK g : Sums(g, d, Transfers) /\ SumOf(filled, Pool) = g[Transfers]
    BY <1>4, SumIs
  <1> DEFINE S == {k \in Nat : k <= Transfers => g[k] = Lesser(have, f[k]) /\ f[k] >= 0}
  <1>6. 0 \in S
    BY <1>0, <1>1, <1>5 DEF Sums, Lesser
  <1>7. ASSUME NEW k \in Nat, k \in S PROVE k + 1 \in S
    <2> SUFFICES ASSUME k + 1 <= Transfers
                 PROVE  g[k + 1] = Lesser(have, f[k + 1]) /\ f[k + 1] >= 0
      OBVIOUS
    <2>1. k + 1 \in 1..Transfers /\ (k + 1) - 1 = k /\ k <= Transfers /\ k + 1 \in Pool
      BY <1>0
    <2>2. g[k + 1] = g[k] + d[k + 1]
      BY <1>5, <2>1 DEF Sums
    <2>3. d[k + 1] = filled[k + 1]
      BY <2>1 DEF Share
    <2>4. /\ f[k] \in Int /\ plan[k + 1] \in Nat /\ f[k + 1] = f[k] + plan[k + 1]
          /\ filled[k + 1] = Lesser(plan[k + 1], Greater(0, have - f[k]))
      BY <1>2, <2>1
    <2>5. g[k] = Lesser(have, f[k]) /\ f[k] >= 0
      BY <1>7, <2>1
    <2> HIDE DEF filled, d
    <2> QED
      BY <2>2, <2>3, <2>4, <2>5 DEF Lesser, Greater
  <1>8. Transfers \in S
    <2> HIDE DEF S
    <2> QED
      BY <1>0, <1>6, <1>7, Induction
  <1>9. SumOf(filled, Pool) = Lesser(have, SumOf(plan, Pool))
    BY <1>0, <1>1, <1>5, <1>8
  <1> QED
    BY <1>3, <1>4, <1>9

--------------------------------------------------------------------------------
(* Sequences of transfers without repetition.                              *)

Elements(seq) == {seq[i] : i \in DOMAIN seq}
Distinct(seq) == \A i, j \in DOMAIN seq : seq[i] = seq[j] => i = j

LEMMA HeadLeaves ==
  ASSUME NEW S, NEW seq \in Seq(S), seq # <<>>, Distinct(seq)
  PROVE  /\ Head(seq) \in S /\ Tail(seq) \in Seq(S) /\ Distinct(Tail(seq))
         /\ Head(seq) \notin Elements(Tail(seq))
         /\ Elements(seq) = Elements(Tail(seq)) \cup {Head(seq)}
  <1> DEFINE rest == Tail(seq)
  <1>1. Head(seq) = seq[1] /\ seq[1] \in S /\ Len(seq) \in Nat /\ Len(seq) >= 1
    BY EmptySeq
  <1>2. /\ rest \in Seq(S) /\ Len(rest) = Len(seq) - 1
        /\ \A i \in 1..Len(rest) : rest[i] = seq[i + 1]
    BY HeadTailProperties
  <1>3. DOMAIN seq = 1..Len(seq) /\ DOMAIN rest = 1..Len(rest)
    BY <1>2
  <1> HIDE DEF rest
  <1>4. Distinct(rest)
    <2> SUFFICES ASSUME NEW i \in DOMAIN rest, NEW j \in DOMAIN rest, rest[i] = rest[j]
                 PROVE  i = j
      BY DEF Distinct
    <2>1. i + 1 \in DOMAIN seq /\ j + 1 \in DOMAIN seq /\ seq[i + 1] = seq[j + 1]
      BY <1>1, <1>2, <1>3
    <2>2. i + 1 = j + 1
      BY <2>1 DEF Distinct
    <2> QED
      BY <1>2, <1>3, <2>2
  <1>5. seq[1] \notin Elements(rest)
    <2> SUFFICES ASSUME NEW i \in DOMAIN rest, rest[i] = seq[1] PROVE FALSE
      BY DEF Elements
    <2>1. i + 1 \in DOMAIN seq /\ 1 \in DOMAIN seq /\ seq[i + 1] = seq[1] /\ i >= 1 /\ i \in Int
      BY <1>1, <1>2, <1>3
    <2>2. i + 1 = 1
      BY <2>1 DEF Distinct
    <2> QED
      BY <2>1, <2>2
  <1>6. ASSUME NEW i \in DOMAIN seq PROVE seq[i] \in Elements(rest) \cup {seq[1]}
    <2>1. CASE i = 1
      BY <2>1
    <2>2. CASE i # 1
      <3>1. i - 1 \in DOMAIN rest /\ (i - 1) + 1 = i
        BY <1>1, <1>2, <1>3, <2>2
      <3>2. rest[i - 1] = seq[i]
        BY <1>2, <1>3, <3>1
      <3> QED
        BY <3>1, <3>2 DEF Elements
    <2> QED
      BY <2>1, <2>2
  <1>7. ASSUME NEW i \in DOMAIN rest PROVE rest[i] \in Elements(seq)
    <2>1. i + 1 \in DOMAIN seq /\ rest[i] = seq[i + 1]
      BY <1>1, <1>2, <1>3
    <2> QED
      BY <2>1 DEF Elements
  <1>8. seq[1] \in Elements(seq)
    <2>1. 1 \in DOMAIN seq
      BY <1>1, <1>3
    <2> QED
      BY <2>1 DEF Elements
  <1>9. Elements(seq) = Elements(rest) \cup {seq[1]}
    BY <1>6, <1>7, <1>8 DEF Elements
  <1> QED
    BY <1>1, <1>2, <1>4, <1>5, <1>9 DEF rest

LEMMA LastJoins ==
  ASSUME NEW S, NEW seq \in Seq(S), NEW x \in S, x \notin Elements(seq), Distinct(seq)
  PROVE  /\ Append(seq, x) \in Seq(S) /\ Distinct(Append(seq, x))
         /\ Elements(Append(seq, x)) = Elements(seq) \cup {x}
  <1> DEFINE all == Append(seq, x)
             n == Len(seq)
  <1>1. /\ all \in Seq(S) /\ Len(all) = n + 1 /\ n \in Nat
        /\ \A i \in 1..n : all[i] = seq[i]
        /\ all[n + 1] = x
    BY AppendProperties
  <1>2. DOMAIN seq = 1..n /\ DOMAIN all = 1..(n + 1)
    BY <1>1
  <1> HIDE DEF all, n
  <1>3. ASSUME NEW i \in DOMAIN all
        PROVE  \/ i \in DOMAIN seq /\ all[i] = seq[i]
               \/ i = n + 1 /\ all[i] = x
    BY <1>1, <1>2
  <1>4. Distinct(all)
    <2>1. \A i \in DOMAIN seq : seq[i] # x
      BY DEF Elements
    <2> QED
      BY <1>3, <2>1 DEF Distinct
  <1>5. Elements(all) = Elements(seq) \cup {x}
    <2>1. \A i \in DOMAIN seq : i \in DOMAIN all /\ all[i] = seq[i]
      BY <1>1, <1>2
    <2>2. n + 1 \in DOMAIN all /\ all[n + 1] = x
      BY <1>1, <1>2
    <2> QED
      BY <1>3, <2>1, <2>2 DEF Elements
  <1> QED
    BY <1>1, <1>4, <1>5 DEF all

LEMMA NoElements == Elements(<<>>) = {} /\ Distinct(<<>>)
  BY DEF Elements, Distinct

--------------------------------------------------------------------------------
(* The inductive invariant.                                                *)

\* Playback has been armed.
Armed == {"submit", "account", "playing"}

\* The transfers, by whose hands they are in, and how many startPlayback() has
\* submitted and counted.
Deferred == Elements(pending)
InHand == IF step = "submit" THEN {done} ELSE {}
Submitted ==
  IF phase = "submit" THEN toSubmit - 1
  ELSE IF phase = "account" THEN toSubmit
  ELSE IF phase = "playing" THEN Transfers ELSE 0
Accounted == IF phase = "account" THEN toSubmit - 1 ELSE Submitted

\* Frames in the transfers, and in the render thread's hands.
Carried == Frames(OnBus) + Frames(Filled) + (IF step = "submit" THEN length[done] ELSE 0)
Rendered == held + (IF render = "paid" THEN terms.quantum ELSE 0)

AdmissionTypes ==
  /\ phase \in {"closed", "ready", "open", "arming"} \cup Armed
  /\ phase \in {"submit", "account"} => toSubmit \in Pool
  /\ ringFrames \in Nat /\ exactInitial \in Nat
  /\ holding \in BOOLEAN /\ started \in BOOLEAN
  /\ user \in UserspaceBufferConfig
  /\ {"quantum", "target", "headroom"} \subseteq DOMAIN terms
  /\ terms.quantum \in Nat \ {0} /\ terms.target \in Nat
  /\ length \in [Pool -> 0..MaxPlan]
  /\ bus \in Seq(Pool) /\ pending \in Seq(Pool)
  /\ layout \in Plans \cup {0}
  /\ step \in {"idle", "submit"} /\ (step = "submit" => done \in Pool)
  /\ occ \in Nat /\ queuedOut \in Nat /\ credit \in Int /\ free \in Int
  /\ render \in {"out", "credit", "unpaid", "paid"}
  /\ floor \in Int /\ held \in Nat

\* A transfer that was submitted is on the bus, deferred or in the hands of
\* onIso(), in one place only; the others are in none.
PlaceInv ==
  /\ Distinct(bus) /\ Distinct(pending)
  /\ OnBus \cup Deferred \cup InHand \subseteq 1..Submitted
  /\ OnBus \cap Deferred = {} /\ OnBus \cap InHand = {} /\ Deferred \cap InHand = {}

\* Until the policy is applied there is no render thread, and until playback is
\* armed the plans are the first ones.
StartInv ==
  /\ phase \in {"closed", "ready"} =>
       /\ ~started /\ render = "out" /\ occ = 0 /\ held = 0 /\ free = 0 /\ credit = 0
  /\ phase \in {"ready", "open", "arming"} => exactInitial = Frames(Pool)
  /\ phase # "closed" => exactInitial >= Transfers

\* Who pays for the block in the render thread's hands.
PaidInv ==
  /\ held \in {0, terms.quantum}
  /\ render \in {"credit", "paid"} => held = 0 /\ Policy = 1

LedgerInv == Policy = 1 => credit + occ + Carried + Rendered = free

\* A completion that overtakes its accounting adds at most its own frames to
\* the error, and one that finds too little counted leaves the count at zero.
DriftInv == Drift <= Accounted * MaxPlan

\* What the lead may be: it grows with every transfer submitted, by more than
\* the submission can take from the error.
LeadLimit == terms.target + Reserve + Submitted * MaxPlan + Greater(0, Drift)

LeadInv ==
  /\ render = "credit" => -floor <= LeadLimit
  /\ Policy = 1 /\ ~holding => -credit <= LeadLimit

\* The terms in force are none, or fit the ring.
TermsInv ==
  (phase \notin {"closed", "ready"} /\ terms.target > 0 /\ user.headroom = 0) =>
    /\ terms.headroom = automaticWriteHeadroomFrames(terms.quantum, DrainChunk)
    /\ terms.target + terms.headroom <= ringFrames

AdmissionInv ==
  /\ AdmissionTypes /\ PlaceInv /\ StartInv /\ PaidInv
  /\ LedgerInv /\ DriftInv /\ LeadInv /\ TermsInv

(* The constants.                                                          *)
LEMMA Bounds ==
  /\ Transfers \in Nat \ {0} /\ Pool = 1..Transfers /\ Reserve \in Nat
  /\ MaxPlan \in Nat /\ Plans \subseteq Nat \ {0} /\ Plans \subseteq 0..MaxPlan
  <1>1. PICK most \in Plans : \A plan \in Plans : plan <= most
    BY AdmissionAssumption DEF AdmissionAssumption
  <1>2. Plans \subseteq Nat \ {0} /\ Transfers \in Nat \ {0} /\ Reserve \in Nat
    BY AdmissionAssumption DEF AdmissionAssumption
  <1>3. \A y \in Plans : most >= y
    BY <1>1, <1>2
  <1>4. MaxPlan \in Plans /\ \A y \in Plans : MaxPlan >= y
    BY <1>3 DEF MaxPlan, Max
  <1> QED
    BY <1>2, <1>4 DEF Pool

LEMMA Sizes ==
  ASSUME AdmissionTypes
  PROVE  /\ length \in Layouts /\ length \in [Pool -> Nat]
         /\ \A set : Frames(set) \in Nat
         /\ Submitted \in 0..Transfers /\ Accounted \in Nat /\ Accounted <= Submitted
         /\ Submitted * MaxPlan \in Nat /\ Accounted * MaxPlan \in Nat
         /\ Drift \in Int /\ Carried \in Nat /\ Rendered \in Nat /\ LeadLimit \in Int
         /\ (step = "submit" => length[done] \in Nat)
  <1>1. length \in Layouts /\ length \in [Pool -> Nat]
    BY Bounds DEF AdmissionTypes, Layouts
  <1>2. ASSUME NEW set PROVE Frames(set) \in Nat
    <2>1. \A t \in Pool : length[t] >= 0
      BY <1>1
    <2>2. SumOf(length, set) \in Int /\ SumOf(length, set) >= 0
      BY <1>1, <2>1, SumNumber
    <2> QED
      BY <2>2 DEF Frames
  <1>3. Submitted \in 0..Transfers /\ Accounted \in Nat /\ Accounted <= Submitted
    BY Bounds DEF AdmissionTypes, Submitted, Accounted, Armed
  <1>4. Submitted * MaxPlan \in Nat /\ Accounted * MaxPlan \in Nat
    <2> HIDE DEF Submitted, Accounted
    <2> QED
      BY <1>3, Bounds
  <1>5. Drift \in Int /\ Rendered \in Nat
    BY <1>2 DEF Drift, Rendered, AdmissionTypes
  <1>6. step = "submit" => length[done] \in Nat
    BY <1>1 DEF AdmissionTypes
  <1>7. Carried \in Nat
    BY <1>2, <1>6 DEF Carried
  <1>8. LeadLimit \in Int
    BY <1>4, <1>5, Bounds, SMTT(30) DEF LeadLimit, Greater, AdmissionTypes
  <1> QED
    BY <1>1, <1>2, <1>3, <1>4, <1>5, <1>6, <1>7, <1>8

(* What is on the bus was submitted.                                       *)
LEMMA BusBound ==
  ASSUME AdmissionTypes, PlaceInv
  PROVE  Frames(OnBus) <= Submitted * MaxPlan
  <1>1. /\ length \in Layouts /\ Submitted \in 0..Transfers /\ MaxPlan \in Nat
    BY Sizes, Bounds
  <1>2. OnBus \subseteq 1..Submitted
    BY DEF PlaceInv
  <1>3. \A t \in OnBus : length[t] <= MaxPlan
    <2>1. OnBus \subseteq Pool
      BY <1>1, <1>2, Bounds
    <2> QED
      BY <2>1, Bounds DEF AdmissionTypes
  <1> QED
    BY <1>1, <1>2, <1>3, SumMost DEF Frames

LEMMA AdmissionInit == Init => AdmissionInv
  <1> SUFFICES ASSUME Init PROVE AdmissionInv
    OBVIOUS
  <1>0. /\ phase = "closed" /\ ringFrames = DefaultRing /\ exactInitial = 0
        /\ user = automaticRequest /\ toSubmit = 0 /\ length = [t \in Pool |-> 0]
        /\ bus = <<>> /\ pending = <<>> /\ layout = 0 /\ done = 0 /\ step = "idle"
        /\ occ = 0 /\ queuedOut = 0 /\ credit = 0 /\ render = "out" /\ floor = 0
        /\ held = 0 /\ free = 0
    BY DEF Init
  <1>1. holding \in BOOLEAN /\ ~started /\ started \in BOOLEAN
    BY Zenon DEF Init
  <1>2. DefaultRing \in Nat /\ DefaultQuantum \in Nat \ {0}
    BY AdmissionAssumption DEF AdmissionAssumption
  <1>3. terms.quantum = DefaultQuantum /\ terms.target = 2 * DefaultQuantum
    BY DEF Init, noTerms
  <1>4. AdmissionTypes
    <2>1. user \in UserspaceBufferConfig
      BY <1>0 DEF automaticRequest, UserspaceBufferConfig
    <2>2. length \in [Pool -> 0..MaxPlan]
      BY <1>0, Bounds
    <2>3. bus \in Seq(Pool) /\ pending \in Seq(Pool)
      BY <1>0
    <2>4. terms.target \in Nat
      BY <1>2, <1>3
    <2>5. {"quantum", "target", "headroom"} \subseteq DOMAIN terms
      BY DEF Init, noTerms
    <2> QED
      BY <1>0, <1>1, <1>2, <1>3, <2>1, <2>2, <2>3, <2>4, <2>5 DEF AdmissionTypes
  <1>5. OnBus = {} /\ Deferred = {} /\ InHand = {} /\ Filled = {} /\ Submitted = 0
    BY <1>0, NoElements DEF OnBus, Elements, Deferred, InHand, Filled, Submitted
  <1>6. PlaceInv
    BY <1>0, <1>5, NoElements DEF PlaceInv
  <1>7. StartInv /\ PaidInv
    BY <1>0, <1>1 DEF StartInv, PaidInv
  <1>8. Frames({}) = 0
    BY <1>4, Sizes, SumNone DEF Frames
  <1>9. LedgerInv
    BY <1>0, <1>5, <1>8 DEF LedgerInv, Carried, Rendered
  <1>10. Accounted = 0 /\ Drift = 0
    BY <1>0, <1>5, <1>8 DEF Accounted, Drift
  <1>11. DriftInv
    BY <1>10, Bounds DEF DriftInv
  <1>12. LeadLimit >= 0
    <2>1. terms.target \in Nat
      BY <1>4 DEF AdmissionTypes
    <2>2. Submitted * MaxPlan = 0
      BY <1>5, Bounds
    <2> QED
      BY <1>10, <2>1, <2>2, Bounds DEF LeadLimit, Greater
  <1>13. LeadInv
    BY <1>0, <1>4, <1>12, Sizes DEF LeadInv
  <1>14. TermsInv
    BY <1>0 DEF TermsInv
  <1> QED
    BY <1>4, <1>6, <1>7, <1>9, <1>11, <1>13, <1>14 DEF AdmissionInv

--------------------------------------------------------------------------------
(* The render thread.                                                      *)

(* What a step that leaves the transfers and the policy alone does not     *)
(* change.                                                                 *)
LEMMA PumpSame ==
  ASSUME UNCHANGED <<length, bus, pending, done, step, phase, toSubmit>>
  PROVE  /\ OnBus' = OnBus /\ Deferred' = Deferred /\ InHand' = InHand
         /\ Submitted' = Submitted /\ Accounted' = Accounted /\ Carried' = Carried
         /\ Frames(OnBus)' = Frames(OnBus) /\ Frames(Pool)' = Frames(Pool)
         /\ (PlaceInv => PlaceInv')
  <1>1. /\ OnBus' = OnBus /\ Deferred' = Deferred /\ InHand' = InHand /\ Filled' = Filled
        /\ Submitted' = Submitted /\ Accounted' = Accounted
    BY DEF OnBus, Deferred, InHand, Submitted, Accounted, Filled, Elements
  <1>2. \A set : Frames(set)' = SumOf(length, set')
    BY DEF Frames
  <1>3. Frames(OnBus)' = Frames(OnBus) /\ Frames(Filled)' = Frames(Filled)
    BY <1>1 DEF Frames
  <1>4. Frames(Pool)' = Frames(Pool)
    BY DEF Frames, Pool
  <1>5. Carried' = Carried
    BY <1>3 DEF Carried
  <1>6. PlaceInv => PlaceInv'
    BY <1>1 DEF PlaceInv, Distinct
  <1> QED
    BY <1>1, <1>3, <1>4, <1>5, <1>6

LEMMA RenderKeeps ==
  ASSUME AdmissionInv, phase \notin {"closed", "ready"},
         UNCHANGED <<policyVars, control, pump, event, queuedOut>>,
         occ' \in Nat, credit' \in Int, free' \in Int, floor' \in Int, held' \in Nat,
         render' \in {"out", "credit", "unpaid", "paid"}, PaidInv',
         Policy = 1 => credit' + occ' + Rendered' - free' = credit + occ + Rendered - free,
         render' = "credit" => -floor' <= LeadLimit,
         Policy = 1 /\ ~holding => -credit' <= LeadLimit
  PROVE  AdmissionInv'
  <1>1. /\ UNCHANGED <<ringFrames, implicit, holding, exactInitial, user, terms>>
        /\ UNCHANGED <<phase, early, started, toSubmit>>
        /\ UNCHANGED <<length, bus, pending, layout, done, step, queuedOut>>
    BY DEF policyVars, control, pump, event
  <1>2. AdmissionTypes'
    BY <1>1 DEF AdmissionInv, AdmissionTypes
  <1>3. /\ Submitted' = Submitted /\ Accounted' = Accounted /\ Carried' = Carried
        /\ Frames(OnBus)' = Frames(OnBus) /\ Frames(Pool)' = Frames(Pool) /\ PlaceInv'
    BY <1>1, PumpSame DEF AdmissionInv
  <1>4. Drift' = Drift
    BY <1>1, <1>3 DEF Drift
  <1>5. LeadLimit' = LeadLimit
    BY <1>1, <1>3, <1>4 DEF LeadLimit, Greater
  <1>6. DriftInv' /\ LeadInv'
    BY <1>1, <1>3, <1>4, <1>5 DEF AdmissionInv, DriftInv, LeadInv
  <1>7. LedgerInv'
    <2> SUFFICES ASSUME Policy = 1 PROVE credit' + occ' + Carried + Rendered' = free'
      BY <1>3 DEF LedgerInv
    <2>1. credit + occ + Carried + Rendered = free
      BY DEF AdmissionInv, LedgerInv
    <2>2. Carried \in Nat /\ Rendered \in Nat /\ terms.quantum \in Nat
      BY Sizes DEF AdmissionInv, AdmissionTypes
    <2>3. credit \in Int /\ occ \in Nat /\ free \in Int
      BY DEF AdmissionInv, AdmissionTypes
    <2>4. PICK h \in Nat, o \in Nat, c \in Int, f \in Int :
            h = held' /\ o = occ' /\ c = credit' /\ f = free'
      OBVIOUS
    <2>5. PICK x \in Nat : x = h + (IF render' = "paid" THEN terms.quantum ELSE 0)
      BY <2>2
    <2>6. Rendered' = x
      BY <1>1, <2>4, <2>5 DEF Rendered
    <2>7. c + o + x - f = credit + occ + Rendered - free
      BY <2>4, <2>6
    <2>8. c + o + Carried + x = f
      BY <2>1, <2>2, <2>3, <2>7
    <2> QED
      BY <2>4, <2>6, <2>8
  <1>8. StartInv' /\ TermsInv'
    BY <1>1, <1>3 DEF AdmissionInv, StartInv, TermsInv, DrainChunk
  <1> QED
    BY <1>2, <1>3, <1>6, <1>7, <1>8 DEF AdmissionInv

(* What the render thread's steps use of the invariant.                    *)
LEMMA RenderFacts ==
  ASSUME AdmissionInv
  PROVE  /\ occ \in Nat /\ credit \in Int /\ free \in Int /\ floor \in Int /\ held \in Nat
         /\ terms.quantum \in Nat \ {0} /\ terms.target \in Nat /\ queuedOut \in Nat
         /\ held \in {0, terms.quantum} /\ LeadLimit \in Int
         /\ (render \in {"credit", "paid"} => held = 0 /\ Policy = 1)
         /\ (render # "out" => phase \notin {"closed", "ready"})
         /\ (Policy = 1 /\ ~holding => -credit <= LeadLimit)
         /\ (render = "credit" => -floor <= LeadLimit)
  <1>1. LeadLimit \in Int
    BY Sizes DEF AdmissionInv
  <1>2. render # "out" => phase \notin {"closed", "ready"}
    BY DEF AdmissionInv, StartInv
  <1> QED
    BY <1>1, <1>2 DEF AdmissionInv, AdmissionTypes, PaidInv, LeadInv

(* A block is refused: dropped, or held and charged.                       *)
LEMMA RefuseStep ==
  ASSUME AdmissionInv, phase \notin {"closed", "ready"}, render \in {"out", "credit"}, Refuse
  PROVE  AdmissionInv'
  <1> DEFINE q == terms.quantum
  <1>0. /\ occ \in Nat /\ credit \in Int /\ free \in Int /\ floor \in Int /\ held \in Nat
        /\ q \in Nat \ {0} /\ held \in {0, q} /\ Rendered = held
        /\ (Policy = 1 /\ ~holding => -credit <= LeadLimit)
    BY RenderFacts DEF Rendered
  <1>1. /\ UNCHANGED <<policyVars, control, pump, event, queuedOut>>
        /\ UNCHANGED occ /\ render' = "out" /\ floor' = 0 /\ Rendered' = held' + 0
    BY DEF Refuse, Rendered
  <1>2. PaidInv' <=> held' \in {0, q}
    BY <1>1 DEF PaidInv, policyVars
  <1>3. CASE held > 0 \/ ~holding
    <2>1. UNCHANGED <<credit, free, held>>
      BY <1>3 DEF Refuse
    <2>2. Rendered' = Rendered
      BY <1>0, <1>1, <2>1
    <2> QED
      BY <1>0, <1>1, <1>2, <2>1, <2>2, RenderKeeps
  <1>4. CASE ~(held > 0 \/ ~holding)
    <2>1. /\ held' = q /\ held = 0 /\ holding
          /\ credit' = IF started THEN credit - q ELSE credit
          /\ free' = IF started THEN free ELSE free + q
      BY <1>0, <1>4 DEF Refuse, chargePlaybackCredit
    <2>2. PICK c \in Int, f \in Int : /\ c = credit' /\ f = free'
                                      /\ c + occ + q - f = credit + occ + 0 - free
      <3>1. CASE started
        BY <1>0, <2>1, <3>1
      <3>2. CASE ~started
        BY <1>0, <2>1, <3>2
      <3> QED
        BY <3>1, <3>2
    <2>3. Rendered' = q /\ Rendered = 0
      BY <1>0, <1>1, <2>1
    <2>4. credit' + occ' + Rendered' - free' = credit + occ + Rendered - free
      BY <1>1, <2>2, <2>3
    <2> QED
      BY <1>0, <1>1, <1>2, <2>1, <2>2, <2>4, RenderKeeps
  <1> QED
    BY <1>3, <1>4

(* A block is offered; the credit policy reads the floor for a new one.    *)
LEMMA OfferStep ==
  ASSUME AdmissionInv, Offer
  PROVE  AdmissionInv'
  <1>0. /\ occ \in Nat /\ credit \in Int /\ free \in Int /\ floor \in Int /\ held \in Nat
        /\ terms.target \in Nat /\ queuedOut \in Nat /\ held \in {0, terms.quantum}
        /\ (Policy = 1 /\ ~holding => -credit <= LeadLimit)
        /\ phase \notin {"closed", "ready"} /\ render = "out" /\ LeadLimit \in Int
    BY RenderFacts DEF Offer, CanOffer
  <1>1. /\ UNCHANGED <<policyVars, control, pump, event, queuedOut>>
        /\ UNCHANGED <<occ, credit, free, held, terms>> /\ render' \in {"credit", "unpaid"}
    BY DEF Offer, ledger, policyVars
  <1>2. Rendered' = held /\ Rendered = held
    BY <1>0, <1>1 DEF Rendered
  <1>3. render' = "credit" =>
          held = 0 /\ Policy = 1 /\ floor' = -terms.target - queuedOut - Reserve
    BY DEF Offer, Charged
  <1>4. render' # "credit" => floor' = floor
    BY DEF Offer
  <1>5. terms.target + queuedOut + Reserve <= LeadLimit
    <2>1. /\ Frames(OnBus) <= Submitted * MaxPlan /\ Frames(OnBus) \in Nat
          /\ Submitted * MaxPlan \in Nat /\ Drift \in Int
      BY BusBound, Sizes DEF AdmissionInv
    <2>2. queuedOut = Drift + Frames(OnBus)
      BY <1>0, <2>1 DEF Drift
    <2>3. Drift <= Greater(0, Drift) /\ Greater(0, Drift) \in Int
      BY <2>1 DEF Greater
    <2>4. PICK a \in Nat, g \in Int, b \in Nat :
            a = Submitted * MaxPlan /\ g = Greater(0, Drift) /\ b = Frames(OnBus)
      BY <2>1, <2>3
    <2>5. LeadLimit = terms.target + Reserve + a + g
      BY <2>4 DEF LeadLimit
    <2>6. b <= a /\ queuedOut <= g + b
      BY <1>0, <2>1, <2>2, <2>3, <2>4
    <2> QED
      BY <1>0, <2>5, <2>6, Bounds, SMTT(30)
  <1>6. floor' \in Int /\ (render' = "credit" => -floor' <= LeadLimit)
    <2>1. CASE render' = "credit"
      <3>1. PICK g \in Int : g = -terms.target - queuedOut - Reserve
        BY <1>0, Bounds
      <3>2. -g = terms.target + queuedOut + Reserve
        BY <1>0, <3>1, Bounds, SMTT(30)
      <3> QED
        BY <1>3, <1>5, <2>1, <3>1, <3>2
    <2>2. CASE render' # "credit"
      BY <1>0, <1>4, <2>2
    <2> QED
      BY <2>1, <2>2
  <1>7. PaidInv'
    BY <1>0, <1>1, <1>3 DEF PaidInv
  <1> QED
    BY <1>0, <1>1, <1>2, <1>6, <1>7, RenderKeeps

(* The block is charged, against the floor read before.                    *)
LEMMA TakeStep ==
  ASSUME AdmissionInv, TakePlaybackCredit
  PROVE  AdmissionInv'
  <1> DEFINE q == terms.quantum
  <1>0. /\ occ \in Nat /\ credit \in Int /\ free \in Int /\ floor \in Int /\ held = 0
        /\ q \in Nat \ {0} /\ -floor <= LeadLimit /\ LeadLimit \in Int /\ Policy = 1
        /\ phase \notin {"closed", "ready"} /\ render = "credit" /\ credit - q >= floor
    BY RenderFacts DEF TakePlaybackCredit
  <1>1. /\ UNCHANGED <<policyVars, control, pump, event, queuedOut>>
        /\ UNCHANGED <<occ, free, held, terms>> /\ render' = "paid" /\ floor' = 0
        /\ credit' = credit - q
    BY DEF TakePlaybackCredit, policyVars
  <1>2. Rendered' = 0 + q /\ Rendered = 0 + 0
    BY <1>0, <1>1 DEF Rendered
  <1>3. PICK c \in Int : c = credit' /\ c = credit - q
    BY <1>0, <1>1
  <1>4. -c <= LeadLimit
    BY <1>0, <1>3
  <1>5. c + occ + (0 + q) - free = credit + occ + (0 + 0) - free
    BY <1>0, <1>3
  <1>6. PaidInv'
    BY <1>0, <1>1 DEF PaidInv
  <1> QED
    BY <1>0, <1>1, <1>2, <1>3, <1>4, <1>5, <1>6, RenderKeeps

(* The block is published.                                                 *)
LEMMA PublishStep ==
  ASSUME AdmissionInv, Publish
  PROVE  AdmissionInv'
  <1> DEFINE q == terms.quantum
             paid == IF render = "paid" THEN q ELSE 0
             new == IF render = "unpaid" /\ held = 0 THEN free + q ELSE free
  <1>0. /\ occ \in Nat /\ credit \in Int /\ free \in Int /\ floor \in Int /\ held \in Nat
        /\ q \in Nat \ {0} /\ LeadLimit \in Int /\ held \in {0, q}
        /\ (render = "paid" => held = 0)
        /\ (Policy = 1 /\ ~holding => -credit <= LeadLimit)
        /\ phase \notin {"closed", "ready"} /\ render \in {"unpaid", "paid"}
    BY RenderFacts DEF Publish
  <1>1. /\ UNCHANGED <<policyVars, control, pump, event, queuedOut>>
        /\ UNCHANGED <<credit, floor, terms>> /\ render' = "out" /\ held' = 0
        /\ occ' = occ + q /\ free' = new
    BY DEF Publish, policyVars, ledger
  <1>2. Rendered' = 0 + 0 /\ Rendered = held + paid
    BY <1>1 DEF Rendered
  <1>3. occ + q \in Nat /\ new \in Int
    BY <1>0
  <1>4. credit + (occ + q) + (0 + 0) - new = credit + occ + (held + paid) - free
    <2>1. CASE render = "paid"
      BY <1>0, <2>1
    <2>2. CASE render = "unpaid" /\ held = 0
      BY <1>0, <2>2
    <2>3. CASE render = "unpaid" /\ held # 0
      BY <1>0, <2>3
    <2> QED
      BY <1>0, <2>1, <2>2, <2>3
  <1>5. PaidInv'
    BY <1>1 DEF PaidInv
  <1> HIDE DEF paid, new
  <1>6. credit' + occ' + Rendered' - free' = credit + occ + Rendered - free
    BY <1>1, <1>2, <1>4
  <1> QED
    BY <1>0, <1>1, <1>3, <1>5, <1>6, RenderKeeps

LEMMA RenderStep ==
  ASSUME AdmissionInv, Render
  PROVE  AdmissionInv'
  <1>1. CASE OfferRefused
    BY <1>1, RefuseStep DEF OfferRefused, CanOffer
  <1>2. CASE CreditRefused
    BY <1>2, RefuseStep, RenderFacts DEF CreditRefused
  <1> QED
    BY <1>1, <1>2, OfferStep, TakeStep, PublishStep DEF Render

--------------------------------------------------------------------------------
(* The event thread.                                                       *)

(* What startPlayback() has filled it has not submitted.                   *)
LEMMA FilledApart ==
  ASSUME AdmissionTypes
  PROVE  Filled \subseteq Pool /\ Filled \cap (1..Submitted) = {}
  BY Bounds, SMTT(30) DEF AdmissionTypes, Filled, Submitted, Armed

(* A limit on the lead grows with the error.                               *)
LEMMA LimitGrows ==
  ASSUME NEW base \in Int, NEW d \in Int, NEW e \in Int, d <= e
  PROVE  /\ base + Greater(0, d) \in Int /\ base + Greater(0, e) \in Int
         /\ base + Greater(0, d) <= base + Greater(0, e)
  BY DEF Greater

LEMMA EventKeeps ==
  ASSUME AdmissionInv, phase \in Armed, UNCHANGED <<policyVars, control, rendering, free>>,
         length' \in [Pool -> 0..MaxPlan], bus' \in Seq(Pool), pending' \in Seq(Pool),
         layout' \in Plans \cup {0}, step' \in {"idle", "submit"},
         step' = "submit" => done' \in Pool, PlaceInv',
         NEW o \in Nat, occ' = o, NEW k \in Nat, queuedOut' = k, NEW c \in Int, credit' = c,
         NEW b \in Int, Frames(OnBus)' = b, NEW x \in Int, Carried' = x,
         c + o + x = credit + occ + Carried, c >= credit,
         k - b >= Drift, k - b <= Drift \/ k - b <= 0
  PROVE  AdmissionInv'
  <1>1. /\ UNCHANGED <<ringFrames, implicit, holding, exactInitial, user, terms>>
        /\ UNCHANGED <<phase, early, started, toSubmit, render, floor, held, free>>
    BY DEF policyVars, control, rendering
  <1>2. AdmissionTypes'
    BY <1>1 DEF AdmissionInv, AdmissionTypes
  <1>3. /\ Submitted' = Submitted /\ Accounted' = Accounted /\ Rendered' = Rendered
        /\ Drift' = k - b
    BY <1>1 DEF Submitted, Accounted, Rendered, Drift
  <1>4. /\ Carried \in Nat /\ Rendered \in Nat /\ Drift \in Int /\ LeadLimit \in Int
        /\ Accounted * MaxPlan \in Nat /\ Submitted * MaxPlan \in Nat
        /\ credit \in Int /\ occ \in Nat /\ free \in Int /\ terms.target \in Nat
        /\ floor \in Int
    BY Sizes DEF AdmissionInv, AdmissionTypes
  <1>5. LedgerInv'
    <2> SUFFICES ASSUME Policy = 1 PROVE c + o + x + Rendered = free
      BY <1>1, <1>3 DEF LedgerInv
    <2>1. credit + occ + Carried + Rendered = free
      BY DEF AdmissionInv, LedgerInv
    <2> QED
      BY <1>4, <2>1
  <1>6. DriftInv'
    <2>1. Drift <= Accounted * MaxPlan
      BY DEF AdmissionInv, DriftInv
    <2>2. PICK a \in Nat : a = Accounted * MaxPlan
      BY <1>4
    <2>3. k - b <= a
      BY <1>4, <2>1, <2>2
    <2> QED
      BY <1>3, <2>2, <2>3 DEF DriftInv
  <1>7. LeadInv'
    <2>1. PICK a \in Nat : a = Submitted * MaxPlan
      BY <1>4
    <2>2. LeadLimit = terms.target + Reserve + a + Greater(0, Drift)
      BY <2>1 DEF LeadLimit
    <2>3. LeadLimit' = terms.target + Reserve + a + Greater(0, k - b)
      BY <1>1, <1>3, <2>1 DEF LeadLimit, Greater
    <2>4. PICK limit \in Int : limit = LeadLimit' /\ LeadLimit <= limit
      <3>1. PICK e \in Int : e = k - b /\ Drift <= e
        BY <1>4
      <3>2. PICK base \in Int : base = terms.target + Reserve + a
        BY <1>4, Bounds, SMTT(30)
      <3>3. /\ base + Greater(0, e) \in Int
            /\ base + Greater(0, Drift) <= base + Greater(0, e)
        BY <1>4, <3>1, LimitGrows
      <3> QED
        BY <2>2, <2>3, <3>1, <3>2, <3>3
    <2>5. render = "credit" => -floor <= limit
      BY <1>4, <2>4 DEF AdmissionInv, LeadInv
    <2>6. Policy = 1 /\ ~holding => -c <= limit
      BY <1>4, <2>4 DEF AdmissionInv, LeadInv
    <2> QED
      BY <1>1, <2>4, <2>5, <2>6 DEF LeadInv
  <1>8. StartInv' /\ PaidInv' /\ TermsInv'
    <2>1. phase \notin {"closed", "ready", "open", "arming"}
      BY DEF Armed
    <2> QED
      BY <1>1, <2>1 DEF AdmissionInv, StartInv, PaidInv, TermsInv, DrainChunk
  <1> QED
    BY <1>2, <1>5, <1>6, <1>7, <1>8 DEF AdmissionInv

(* The oldest transfer on the bus completes.                               *)
LEMMA Completes ==
  ASSUME AdmissionInv, NEW t \in Pool, Played(t)
  PROVE  /\ phase \in Armed /\ step = "idle"
         /\ bus' \in Seq(Pool) /\ Distinct(bus') /\ OnBus' = Elements(bus')
         /\ t \notin OnBus' /\ t \in 1..Submitted /\ OnBus = OnBus' \cup {t}
         /\ Frames(OnBus) = SumOf(length, OnBus') + length[t]
  <1>1. step = "idle" /\ bus # <<>> /\ t = Head(bus) /\ bus' = Tail(bus)
    BY DEF Played
  <1>2. bus \in Seq(Pool) /\ Distinct(bus)
    BY DEF AdmissionInv, AdmissionTypes, PlaceInv
  <1>3. OnBus = Elements(bus) /\ OnBus' = Elements(bus')
    BY DEF OnBus, Elements
  <1>4. /\ bus' \in Seq(Pool) /\ Distinct(bus') /\ t \notin Elements(bus')
        /\ Elements(bus) = Elements(bus') \cup {t}
    BY <1>1, <1>2, HeadLeaves
  <1>5. t \in 1..Submitted
    BY <1>3, <1>4 DEF AdmissionInv, PlaceInv
  <1>6. phase \in Armed
    BY <1>5 DEF AdmissionInv, AdmissionTypes, Submitted, Armed
  <1>7. Frames(OnBus) = SumOf(length, OnBus') + length[t]
    <2> DEFINE rest == Elements(bus')
    <2>1. length \in Layouts
      BY Sizes DEF AdmissionInv
    <2>2. t \notin rest /\ OnBus = rest \cup {t} /\ OnBus' = rest
      BY <1>3, <1>4
    <2> HIDE DEF rest
    <2>3. SumOf(length, rest \cup {t}) = SumOf(length, rest) + length[t]
      BY <2>1, <2>2, SumJoin
    <2> QED
      BY <2>2, <2>3 DEF Frames
  <1> QED
    BY <1>1, <1>3, <1>4, <1>5, <1>6, <1>7

(* What the completion of so many frames does to the error: nothing, or it *)
(* leaves the count at zero.                                               *)
LEMMA PlayedError ==
  ASSUME NEW q \in Nat, NEW l \in Nat, NEW b \in Nat
  PROVE  /\ Greater(0, q - l) \in Nat
         /\ Greater(0, q - l) - b >= q - (b + l)
         /\ \/ Greater(0, q - l) - b <= q - (b + l)
            \/ Greater(0, q - l) - b <= 0
  BY DEF Greater

(* Names for what the steps of the event thread count.                     *)
LEMMA EventFacts ==
  ASSUME AdmissionInv
  PROVE  /\ length \in Layouts /\ length \in [Pool -> Nat] /\ AdmissionTypes /\ PlaceInv
         /\ occ \in Nat /\ queuedOut \in Nat /\ credit \in Int
         /\ bus \in Seq(Pool) /\ pending \in Seq(Pool) /\ layout \in Plans \cup {0}
         /\ length \in [Pool -> 0..MaxPlan]
         /\ OnBus = Elements(bus) /\ Submitted \in 0..Transfers
         /\ \A set : SumOf(length, set) \in Nat
  <1>1. \A set : Frames(set) \in Nat
    BY Sizes DEF AdmissionInv
  <1>2. \A set : SumOf(length, set) \in Nat
    BY <1>1 DEF Frames
  <1> QED
    BY <1>2, Sizes DEF AdmissionInv, AdmissionTypes, OnBus, Elements

(* A completed transfer is filled again and is in the hands of onIso().    *)
LEMMA Refills ==
  ASSUME AdmissionInv, NEW t \in Pool, Played(t),
         NEW n \in Nat, n <= MaxPlan, n <= occ, occ' = occ - n,
         length' = [length EXCEPT ![t] = n], done' = t, step' = "submit",
         layout' \in Plans \cup {0}, UNCHANGED <<policyVars, control, pending, rendering, free>>
  PROVE  AdmissionInv'
  <1>1. /\ phase \in Armed /\ step = "idle"
        /\ bus' \in Seq(Pool) /\ Distinct(bus') /\ OnBus' = Elements(bus')
        /\ t \notin OnBus' /\ t \in 1..Submitted /\ OnBus = OnBus' \cup {t}
        /\ Frames(OnBus) = SumOf(length, OnBus') + length[t]
    BY Completes
  <1>2. /\ UNCHANGED <<phase, toSubmit, pending>>
        /\ queuedOut' = Greater(0, queuedOut - length[t]) /\ credit' = credit + length[t]
    BY DEF control, Played, subtractQueued
  <1>3. Submitted' = Submitted /\ Filled' = Filled /\ Deferred' = Deferred /\ InHand' = {t}
    BY <1>2 DEF Submitted, Filled, Deferred, InHand, Elements
  <1>4. PlaceInv'
    <2>1. t \notin Deferred
      BY <1>1, EventFacts DEF PlaceInv
    <2>2. Distinct(pending')
      BY <1>2, EventFacts DEF PlaceInv, Distinct
    <2> QED
      BY <1>1, <1>3, <2>1, <2>2, EventFacts DEF PlaceInv
  <1>5. length' \in [Pool -> 0..MaxPlan] /\ length'[t] = n
    <2>1. n \in 0..MaxPlan
      BY Bounds
    <2>2. length \in [Pool -> 0..MaxPlan]
      BY EventFacts
    <2> QED
      BY <2>1, <2>2
  <1> DEFINE rest == Elements(bus')
             more == [length EXCEPT ![t] = n]
  <1>6. t \notin rest /\ t \notin Filled
    BY <1>1, EventFacts, FilledApart
  <1>7. PICK B \in Nat, F \in Nat, l \in Nat, D \in Int :
          /\ B = SumOf(length, rest) /\ F = SumOf(length, Filled) /\ l = length[t] /\ D = Drift
          /\ Frames(OnBus) = B + l
    BY <1>1, EventFacts, Sizes
  <1>8. SumOf(more, rest) = B /\ SumOf(more, Filled) = F
    <2>1. length \in Layouts /\ more \in Layouts
      BY EventFacts DEF Layouts
    <2>2. \A u \in Pool : u # t => more[u] = length[u]
      BY EventFacts
    <2> HIDE DEF more
    <2>3. SumOf(more, rest) = SumOf(length, rest)
      <3>1. \A u \in Pool : u \in rest => more[u] = length[u]
        BY <1>6, <2>2
      <3> QED
        BY <2>1, <3>1, SumSame
    <2>4. SumOf(more, Filled) = SumOf(length, Filled)
      <3>1. \A u \in Pool : u \in Filled => more[u] = length[u]
        BY <1>6, <2>2
      <3> QED
        BY <2>1, <3>1, SumSame
    <2> QED
      BY <1>7, <2>3, <2>4
  <1>9. Frames(OnBus)' = B /\ Frames(Filled)' = F
    BY <1>1, <1>3, <1>8 DEF Frames
  <1> HIDE DEF rest, more
  <1>10. PICK x \in Int : Carried' = x /\ x = B + F + n
    <2>1. Carried' = B + F + n
      BY <1>5, <1>9 DEF Carried
    <2> QED
      BY <2>1
  <1>11. Carried = B + l + F + 0
    BY <1>1, <1>7 DEF Carried, Frames
  <1>12. PICK q \in Nat, w \in Nat, v \in Int : q = queuedOut /\ w = occ /\ v = credit
    BY EventFacts
  <1>13. D = q - (B + l)
    BY <1>7, <1>12 DEF Drift
  <1>14. PICK k \in Nat : queuedOut' = k /\ k = Greater(0, q - l)
    <2>1. Greater(0, q - l) \in Nat
      BY PlayedError, 0 \in Nat
    <2> QED
      BY <1>2, <1>7, <1>12, <2>1
  <1>15. k - B >= D /\ (k - B <= D \/ k - B <= 0)
    BY <1>13, <1>14, PlayedError
  <1>16. PICK o \in Nat : occ' = o /\ o = w - n
    <2>1. w - n \in Nat
      BY <1>12
    <2> QED
      BY <1>12, <2>1
  <1>17. PICK c \in Int : credit' = c /\ c = v + l
    <2>1. v + l \in Int
      OBVIOUS
    <2> QED
      BY <1>2, <1>7, <1>12, <2>1
  <1>18. c + o + x = v + w + (B + l + F + 0) /\ c >= v
    BY <1>10, <1>16, <1>17
  <1>19. c + o + x = credit + occ + Carried /\ c >= credit
    BY <1>11, <1>12, <1>18
  <1>20. k - B >= Drift /\ (k - B <= Drift \/ k - B <= 0)
    BY <1>7, <1>15
  <1>21. step' \in {"idle", "submit"} /\ done' \in Pool
    OBVIOUS
  <1>22. UNCHANGED <<policyVars, control, rendering, free>> /\ pending' \in Seq(Pool)
    BY EventFacts
  <1>23. phase \in Armed /\ bus' \in Seq(Pool) /\ Frames(OnBus)' = B /\ B \in Int
    BY <1>1, <1>9
  <1> QED
    BY <1>4, <1>5, <1>10, <1>14, <1>16, <1>17, <1>19, <1>20, <1>21, <1>22, <1>23, EventKeeps

LEMMA CompleteStep ==
  ASSUME AdmissionInv, NEW t \in Pool,
         CompleteImplicit(t) \/ \E plan \in Plans : CompleteExplicit(t, plan)
  PROVE  AdmissionInv'
  <1>1. CASE CompleteImplicit(t)
    <2>1. layout > 0 /\ occ >= layout
      BY <1>1 DEF CompleteImplicit, Preparable
    <2>2. layout \in 0..MaxPlan /\ occ \in Nat /\ MaxPlan \in Nat
      <3>1. layout \in Plans \/ layout = 0
        BY EventFacts
      <3>2. 0 \in 0..MaxPlan
        BY Bounds
      <3> QED
        BY <3>1, <3>2, EventFacts, Bounds
    <2>3. layout \in Nat /\ layout <= MaxPlan /\ layout <= occ
      BY <2>1, <2>2
    <2>4. /\ Played(t) /\ occ' = occ - layout /\ length' = [length EXCEPT ![t] = layout]
          /\ done' = t /\ step' = "submit" /\ layout' \in Plans \cup {0}
          /\ UNCHANGED <<policyVars, control, pending, rendering, free>>
      BY <1>1 DEF CompleteImplicit
    <2> QED
      BY <2>3, <2>4, Refills
  <1>2. ASSUME NEW plan \in Plans, CompleteExplicit(t, plan) PROVE AdmissionInv'
    <2>1. PICK n \in Nat : n = Lesser(plan, occ) /\ n <= MaxPlan /\ n <= occ
      BY EventFacts, Bounds DEF Lesser
    <2>2. /\ Played(t) /\ occ' = occ - n /\ length' = [length EXCEPT ![t] = n]
          /\ done' = t /\ step' = "submit"
          /\ UNCHANGED <<policyVars, control, pending, layout, rendering, free>>
      BY <1>2, <2>1 DEF CompleteExplicit
    <2>3. layout' \in Plans \cup {0}
      BY <2>2, EventFacts
    <2> QED
      BY <2>1, <2>2, <2>3, Refills
  <1> QED
    BY <1>1, <1>2

(* Its layout or its PCM is missing, or an older one is deferred.          *)
LEMMA DeferStep ==
  ASSUME AdmissionInv, NEW t \in Pool, CompleteDeferred(t)
  PROVE  AdmissionInv'
  <1>1. /\ phase \in Armed /\ step = "idle"
        /\ bus' \in Seq(Pool) /\ Distinct(bus') /\ OnBus' = Elements(bus')
        /\ t \notin OnBus' /\ t \in 1..Submitted /\ OnBus = OnBus' \cup {t}
        /\ Frames(OnBus) = SumOf(length, OnBus') + length[t]
    BY Completes DEF CompleteDeferred
  <1>2. /\ UNCHANGED <<phase, toSubmit, length, layout, done, step, occ>>
        /\ UNCHANGED <<policyVars, control, rendering, free>>
        /\ queuedOut' = Greater(0, queuedOut - length[t]) /\ credit' = credit + length[t]
        /\ pending' = Append(pending, t)
    BY DEF CompleteDeferred, control, event, Played, subtractQueued
  <1>3. Submitted' = Submitted /\ Filled' = Filled /\ InHand' = {} /\ InHand = {}
    BY <1>1, <1>2 DEF Submitted, Filled, InHand
  <1>4. /\ pending' \in Seq(Pool) /\ Distinct(pending') /\ Deferred' = Deferred \cup {t}
    <2>1. t \notin Elements(pending) /\ Distinct(pending)
      BY <1>1, EventFacts DEF PlaceInv, Deferred
    <2>2. /\ Append(pending, t) \in Seq(Pool) /\ Distinct(Append(pending, t))
          /\ Elements(Append(pending, t)) = Elements(pending) \cup {t}
      BY <2>1, LastJoins, EventFacts
    <2> QED
      BY <1>2, <2>2 DEF Deferred
  <1>5. PlaceInv'
    BY <1>1, <1>3, <1>4, EventFacts DEF PlaceInv
  <1> DEFINE rest == Elements(bus')
  <1>6. PICK B \in Nat, F \in Nat, l \in Nat, D \in Int :
          /\ B = SumOf(length, rest) /\ F = SumOf(length, Filled) /\ l = length[t] /\ D = Drift
          /\ Frames(OnBus) = B + l
    BY <1>1, EventFacts, Sizes
  <1>7. Frames(OnBus)' = B /\ Frames(Filled)' = F
    BY <1>1, <1>2, <1>3, <1>6 DEF Frames
  <1> HIDE DEF rest
  <1>8. PICK x \in Int : Carried' = x /\ x = B + F
    <2>1. Carried' = B + F + 0
      BY <1>1, <1>2, <1>7 DEF Carried
    <2> QED
      BY <2>1
  <1>9. Carried = B + l + F + 0
    BY <1>1, <1>6 DEF Carried, Frames
  <1>10. PICK q \in Nat, w \in Nat, v \in Int : q = queuedOut /\ w = occ /\ v = credit
    BY EventFacts
  <1>11. D = q - (B + l)
    BY <1>6, <1>10 DEF Drift
  <1>12. PICK k \in Nat : queuedOut' = k /\ k = Greater(0, q - l)
    <2>1. Greater(0, q - l) \in Nat
      BY PlayedError, 0 \in Nat
    <2> QED
      BY <1>2, <1>6, <1>10, <2>1
  <1>13. k - B >= D /\ (k - B <= D \/ k - B <= 0)
    BY <1>11, <1>12, PlayedError
  <1>14. PICK c \in Int : credit' = c /\ c = v + l
    <2>1. v + l \in Int
      OBVIOUS
    <2> QED
      BY <1>2, <1>6, <1>10, <2>1
  <1>15. c + w + x = v + w + (B + l + F + 0) /\ c >= v
    BY <1>8, <1>14
  <1>16. c + w + x = credit + occ + Carried /\ c >= credit /\ occ' = w
    BY <1>2, <1>9, <1>10, <1>15
  <1>17. k - B >= Drift /\ (k - B <= Drift \/ k - B <= 0)
    BY <1>6, <1>13
  <1>18. /\ step' \in {"idle", "submit"} /\ (step' = "submit" => done' \in Pool)
         /\ length' \in [Pool -> 0..MaxPlan] /\ layout' \in Plans \cup {0}
    BY <1>1, <1>2, EventFacts
  <1>19. phase \in Armed /\ bus' \in Seq(Pool) /\ Frames(OnBus)' = B /\ B \in Int
    BY <1>1, <1>7
  <1> QED
    BY <1>2, <1>4, <1>5, <1>8, <1>12, <1>14, <1>16, <1>17, <1>18, <1>19, EventKeeps

(* A transfer that was submitted once is submitted again, with so many     *)
(* frames of the ring.                                                     *)
LEMMA Resubmits ==
  ASSUME AdmissionInv, NEW t \in 1..Submitted, t \notin OnBus, bus' = Append(bus, t),
         PlaceInv', UNCHANGED <<policyVars, control, rendering, free, credit>>,
         NEW plan \in [Pool -> 0..MaxPlan], length' = plan,
         \A u \in Pool : u # t => plan[u] = length[u],
         NEW n \in Nat, plan[t] = n, queuedOut' = queuedOut + n,
         NEW o \in Nat, occ' = o,
         o + n = occ + (IF step = "submit" THEN length[done] ELSE 0),
         pending' \in Seq(Pool), layout' \in Plans \cup {0}, step' = "idle"
  PROVE  AdmissionInv'
  <1>1. t \in Pool /\ phase \in Armed
    <2>1. t \in Pool
      BY Bounds, EventFacts
    <2>2. phase \in Armed
      BY DEF AdmissionInv, AdmissionTypes, Submitted, Armed
    <2> QED
      BY <2>1, <2>2
  <1>2. UNCHANGED <<phase, toSubmit>>
    BY DEF control
  <1>3. Filled' = Filled
    BY <1>2 DEF Filled
  <1>4. Distinct(bus)
    BY EventFacts DEF PlaceInv
  <1>5. bus' \in Seq(Pool) /\ OnBus' = OnBus \cup {t}
    <2>1. /\ Append(bus, t) \in Seq(Pool)
          /\ Elements(Append(bus, t)) = Elements(bus) \cup {t}
      <3>1. bus \in Seq(Pool) /\ t \notin Elements(bus)
        BY EventFacts
      <3> QED
        BY <1>1, <1>4, <3>1, LastJoins
    <2>2. OnBus' = Elements(bus')
      BY DEF OnBus, Elements
    <2> QED
      BY <2>1, <2>2, EventFacts
  <1>6. t \notin Filled
    BY FilledApart, EventFacts
  <1>7. plan \in Layouts /\ length \in Layouts
    <2>1. 0..MaxPlan \subseteq Int
      BY Bounds
    <2> QED
      BY <2>1, EventFacts DEF Layouts
  <1>8. PICK B \in Nat, F \in Nat, D \in Int, h \in Nat :
          /\ B = Frames(OnBus) /\ F = Frames(Filled) /\ D = Drift
          /\ h = (IF step = "submit" THEN length[done] ELSE 0)
    BY Sizes, EventFacts
  <1>9. SumOf(plan, OnBus) = B /\ SumOf(plan, Filled) = F
    <2>1. SumOf(plan, OnBus) = SumOf(length, OnBus)
      <3>1. \A u \in Pool : u \in OnBus => plan[u] = length[u]
        OBVIOUS
      <3> QED
        BY <1>7, <3>1, SumSame
    <2>2. SumOf(plan, Filled) = SumOf(length, Filled)
      <3>1. \A u \in Pool : u \in Filled => plan[u] = length[u]
        BY <1>6
      <3> QED
        BY <1>7, <3>1, SumSame
    <2> QED
      BY <1>8, <2>1, <2>2 DEF Frames
  <1>10. SumOf(plan, OnBus \cup {t}) = B + n
    BY <1>1, <1>7, <1>9, SumJoin
  <1>11. PICK b \in Int : Frames(OnBus)' = b /\ b = B + n
    <2>1. Frames(OnBus)' = B + n
      BY <1>5, <1>10 DEF Frames
    <2> QED
      BY <2>1
  <1>12. Frames(Filled)' = F
    BY <1>3, <1>9 DEF Frames
  <1>13. PICK x \in Int : Carried' = x /\ x = b + F
    <2>1. Carried' = b + F + 0
      BY <1>11, <1>12 DEF Carried
    <2> QED
      BY <2>1
  <1>14. Carried = B + F + h
    BY <1>8 DEF Carried
  <1>15. PICK q \in Nat, w \in Nat, v \in Int : q = queuedOut /\ w = occ /\ v = credit
    BY EventFacts
  <1>16. PICK k \in Nat : queuedOut' = k /\ k = q + n
    <2>1. q + n \in Nat
      OBVIOUS
    <2> QED
      BY <1>15, <2>1
  <1>17. D = q - B
    BY <1>8, <1>15 DEF Drift
  <1>18. k - b = D /\ v + o + x = v + w + (B + F + h) /\ v >= v
    <2>1. o + n = w + h
      BY <1>8, <1>15
    <2> QED
      BY <1>11, <1>13, <1>16, <1>17, <2>1
  <1>19. /\ k - b >= Drift /\ (k - b <= Drift \/ k - b <= 0)
         /\ v + o + x = credit + occ + Carried /\ v >= credit /\ credit' = v
    BY <1>8, <1>14, <1>15, <1>18
  <1>20. /\ step' \in {"idle", "submit"} /\ (step' = "submit" => done' \in Pool)
         /\ length' \in [Pool -> 0..MaxPlan]
    OBVIOUS
  <1> QED
    BY <1>1, <1>5, <1>11, <1>13, <1>16, <1>19, <1>20, EventKeeps

LEMMA ResubmitStep ==
  ASSUME AdmissionInv, Resubmit
  PROVE  AdmissionInv'
  <1>1. /\ step = "submit" /\ bus' = Append(bus, done) /\ step' = "idle"
        /\ queuedOut' = queuedOut + length[done]
        /\ UNCHANGED <<length, pending, layout, occ>>
        /\ UNCHANGED <<policyVars, control, rendering, free, credit>>
    BY DEF Resubmit
  <1>2. done \in Pool /\ InHand = {done}
    BY <1>1 DEF AdmissionInv, AdmissionTypes, InHand
  <1>3. done \in 1..Submitted /\ done \notin OnBus /\ done \notin Deferred
    BY <1>2, EventFacts DEF PlaceInv
  <1>4. PlaceInv'
    <2>1. Distinct(bus)
      BY EventFacts DEF PlaceInv
    <2>2. /\ Distinct(Append(bus, done))
          /\ Elements(Append(bus, done)) = Elements(bus) \cup {done}
      BY <1>2, <1>3, <2>1, LastJoins, EventFacts
    <2>3. Distinct(bus') /\ OnBus' = OnBus \cup {done}
      BY <1>1, <2>2, EventFacts DEF OnBus, Elements
    <2>4. Deferred' = Deferred /\ InHand' = {} /\ (Distinct(pending) => Distinct(pending'))
      BY <1>1 DEF Deferred, InHand, Elements, Distinct
    <2>5. Submitted' = Submitted
      BY <1>1 DEF Submitted, control
    <2> QED
      BY <1>3, <2>3, <2>4, <2>5, EventFacts DEF PlaceInv
  <1>5. PICK plan \in [Pool -> 0..MaxPlan], n \in Nat, o \in Nat :
          plan = length /\ n = length[done] /\ o = occ
    BY <1>2, EventFacts
  <1>6. /\ length' = plan /\ plan[done] = n /\ queuedOut' = queuedOut + n /\ occ' = o
        /\ o + n = occ + (IF step = "submit" THEN length[done] ELSE 0)
        /\ \A u \in Pool : u # done => plan[u] = length[u]
    BY <1>1, <1>5
  <1>7. pending' \in Seq(Pool) /\ layout' \in Plans \cup {0}
    BY <1>1, EventFacts
  <1> QED
    BY <1>1, <1>3, <1>4, <1>6, <1>7, Resubmits

(* Metadata for one more layout, or the oldest deferred transfer goes.     *)
LEMMA CaptureStep ==
  ASSUME AdmissionInv, NEW plan \in Plans, OnCapture(plan)
  PROVE  AdmissionInv'
  <1> DEFINE next == IF layout = 0 THEN plan ELSE layout
  <1>1. next \in Plans
    BY EventFacts
  <1>2. /\ step = "idle" /\ phase \in Armed /\ UNCHANGED <<done, step>>
        /\ UNCHANGED <<policyVars, control, rendering, free, credit>>
    BY DEF OnCapture, Armed, event
  <1>3. next \in Nat /\ next \in 0..MaxPlan
    BY <1>1, Bounds
  <1>4. CASE pending # <<>> /\ Preparable(next)
    <2> DEFINE t == Head(pending)
    <2>1. /\ occ' = occ - next /\ length' = [length EXCEPT ![t] = next]
          /\ bus' = Append(bus, t) /\ pending' = Tail(pending)
          /\ queuedOut' = queuedOut + next /\ layout' = 0
      BY <1>4 DEF OnCapture
    <2>2. next <= occ
      BY <1>3, <1>4, EventFacts DEF Preparable
    <2> HIDE DEF next
    <2>3. Distinct(pending)
      BY EventFacts DEF PlaceInv
    <2>4. /\ t \in Pool /\ Tail(pending) \in Seq(Pool) /\ Distinct(Tail(pending))
          /\ t \notin Elements(Tail(pending))
          /\ Elements(pending) = Elements(Tail(pending)) \cup {t}
      BY <1>4, <2>3, HeadLeaves, EventFacts
    <2> HIDE DEF t
    <2>5. t \in 1..Submitted /\ t \notin OnBus
      BY <2>4, EventFacts DEF PlaceInv, Deferred
    <2>6. PlaceInv'
      <3>1. Distinct(bus)
        BY EventFacts DEF PlaceInv
      <3>2. /\ Distinct(Append(bus, t))
            /\ Elements(Append(bus, t)) = Elements(bus) \cup {t}
        BY <2>4, <2>5, <3>1, LastJoins, EventFacts
      <3>3. Distinct(bus') /\ OnBus' = OnBus \cup {t}
        BY <2>1, <3>2, EventFacts DEF OnBus, Elements
      <3>4. /\ Deferred = Deferred' \cup {t} /\ t \notin Deferred' /\ Distinct(pending')
            /\ InHand' = {}
        BY <1>2, <2>1, <2>4 DEF Deferred, InHand
      <3>5. Submitted' = Submitted
        BY <1>2 DEF Submitted, control
      <3> QED
        BY <2>5, <3>3, <3>4, <3>5, EventFacts DEF PlaceInv
    <2>7. PICK more \in [Pool -> 0..MaxPlan] :
            /\ length' = more /\ more[t] = next
            /\ \A u \in Pool : u # t => more[u] = length[u]
      <3>1. /\ [length EXCEPT ![t] = next] \in [Pool -> 0..MaxPlan]
            /\ [length EXCEPT ![t] = next][t] = next
            /\ \A u \in Pool : u # t => [length EXCEPT ![t] = next][u] = length[u]
        BY <1>3, <2>4, EventFacts
      <3> QED
        BY <2>1, <3>1
    <2>8. PICK o \in Nat, n \in Nat : /\ occ' = o /\ n = next
                                      /\ o + n = occ + 0
      <3>1. occ - next \in Nat /\ occ - next + next = occ + 0
        BY <1>3, <2>2, EventFacts
      <3> QED
        BY <1>3, <2>1, <3>1
    <2>9. /\ more[t] = n /\ queuedOut' = queuedOut + n
          /\ o + n = occ + (IF step = "submit" THEN length[done] ELSE 0)
      BY <1>2, <2>1, <2>7, <2>8
    <2>10. pending' \in Seq(Pool) /\ layout' \in Plans \cup {0} /\ step' = "idle"
      BY <1>2, <2>1, <2>4
    <2> QED
      BY <1>2, <2>1, <2>5, <2>6, <2>7, <2>8, <2>9, <2>10, Resubmits
  <1>5. CASE ~(pending # <<>> /\ Preparable(next))
    <2>1. layout' = next /\ UNCHANGED <<length, bus, pending, queuedOut, occ>>
      BY <1>5 DEF OnCapture
    <2>2. /\ Carried' = Carried /\ Frames(OnBus)' = Frames(OnBus) /\ PlaceInv'
      BY <1>2, <2>1, PumpSame, EventFacts DEF control
    <2>3. PICK B \in Int, x \in Int, k \in Nat, o \in Nat, c \in Int :
            /\ B = Frames(OnBus) /\ x = Carried /\ k = queuedOut /\ o = occ /\ c = credit
      <3>1. Frames(OnBus) \in Int /\ Carried \in Int
        BY Sizes, EventFacts
      <3>2. queuedOut \in Nat /\ occ \in Nat /\ credit \in Int
        BY EventFacts
      <3> QED
        BY <3>1, <3>2
    <2>4. /\ Frames(OnBus)' = B /\ Carried' = x /\ queuedOut' = k /\ occ' = o /\ credit' = c
      BY <1>2, <2>1, <2>2, <2>3
    <2>5. k - B = Drift /\ Drift \in Int
      BY <2>3 DEF Drift
    <2>6. /\ k - B >= Drift /\ (k - B <= Drift \/ k - B <= 0) /\ c >= credit
          /\ c + o + x = credit + occ + Carried
      BY <2>3, <2>5
    <2>7. /\ length' \in [Pool -> 0..MaxPlan] /\ bus' \in Seq(Pool) /\ pending' \in Seq(Pool)
          /\ layout' \in Plans \cup {0} /\ step' \in {"idle", "submit"}
          /\ (step' = "submit" => done' \in Pool)
      BY <1>1, <1>2, <2>1, EventFacts
    <2> QED
      BY <1>2, <2>2, <2>4, <2>6, <2>7, EventKeeps
  <1> QED
    BY <1>4, <1>5

LEMMA EventStep ==
  ASSUME AdmissionInv, OnIso \/ Capture
  PROVE  AdmissionInv'
  BY CompleteStep, DeferStep, ResubmitStep, CaptureStep DEF OnIso, Capture

--------------------------------------------------------------------------------
(* The control thread.                                                     *)

\* The phases before the transfers are filled.
Idle == {"closed", "ready", "open", "arming"}

(* Until then no transfer carries anything and nothing is counted.         *)
LEMMA Nothing ==
  ASSUME AdmissionTypes, phase \in Idle, OnBus = {}, step = "idle"
  PROVE  /\ Submitted = 0 /\ Accounted = 0 /\ Filled = {}
         /\ Carried = 0 /\ Frames(OnBus) = 0 /\ Drift = queuedOut
  <1>1. Submitted = 0 /\ Accounted = 0 /\ Filled = {}
    BY DEF Submitted, Accounted, Filled, Idle
  <1>2. Frames({}) = 0
    BY Sizes, SumNone DEF Frames
  <1>3. Carried = 0 + 0 + 0 /\ Frames(OnBus) = 0
    BY <1>1, <1>2 DEF Carried
  <1>4. Drift = queuedOut
    BY <1>3 DEF Drift, AdmissionTypes
  <1> QED
    BY <1>1, <1>3, <1>4

LEMMA IdleFacts ==
  ASSUME AdmissionInv, phase \in Idle
  PROVE  /\ OnBus = {} /\ Deferred = {} /\ InHand = {} /\ step = "idle" /\ queuedOut = 0
         /\ Submitted = 0 /\ Accounted = 0 /\ Filled = {}
         /\ Carried = 0 /\ Frames(OnBus) = 0 /\ Drift = 0
  <1>1. Submitted = 0 /\ Accounted = 0
    BY DEF Submitted, Accounted, Idle
  <1>2. 1..0 = {}
    OBVIOUS
  <1>3. OnBus = {} /\ Deferred = {} /\ InHand = {}
    BY <1>1, <1>2 DEF AdmissionInv, PlaceInv
  <1>4. step = "idle"
    BY <1>3 DEF AdmissionInv, AdmissionTypes, InHand
  <1>5. AdmissionTypes /\ queuedOut \in Nat /\ Drift <= 0 * MaxPlan /\ 0 * MaxPlan = 0
    BY <1>1, Bounds DEF AdmissionInv, AdmissionTypes, DriftInv
  <1>6. Carried = 0 /\ Frames(OnBus) = 0 /\ Drift = queuedOut /\ Filled = {}
    BY <1>3, <1>4, <1>5, Nothing
  <1>7. queuedOut = 0
    BY <1>5, <1>6
  <1> QED
    BY <1>1, <1>3, <1>4, <1>6, <1>7

(* A step of the control thread before that.                               *)
LEMMA IdleKeeps ==
  ASSUME AdmissionInv, phase \in Idle, phase' \in Idle,
         UNCHANGED <<holding, bus, pending, done, step, queuedOut, credit, occ,
                     render, floor, held, free>>,
         AdmissionTypes', StartInv', PaidInv', TermsInv',
         \/ UNCHANGED terms
         \/ render = "out" /\ credit = 0
  PROVE  AdmissionInv'
  <1>1. /\ OnBus = {} /\ Deferred = {} /\ InHand = {} /\ step = "idle" /\ queuedOut = 0
        /\ Carried = 0 /\ Drift = 0 /\ Submitted = 0
    BY IdleFacts
  <1>2. OnBus' = {} /\ Deferred' = {} /\ InHand' = {} /\ step' = "idle"
    BY <1>1 DEF OnBus, Deferred, InHand, Elements
  <1>3. /\ Submitted' = 0 /\ Accounted' = 0 /\ Carried' = 0 /\ Drift' = 0
    <2>1. /\ Submitted' = 0 /\ Accounted' = 0 /\ Filled' = {}
      BY DEF Submitted, Accounted, Filled, Idle
    <2>2. Frames({})' = 0
      <3>1. length' \in [Pool -> 0..MaxPlan] /\ 0..MaxPlan \subseteq Int
        BY Bounds DEF AdmissionTypes
      <3>2. PICK plan \in Layouts : plan = length'
        BY <3>1 DEF Layouts
      <3>3. SumOf(plan, {}) = 0
        BY SumNone
      <3> QED
        BY <3>2, <3>3 DEF Frames
    <2>3. Frames(OnBus)' = 0 /\ Frames(Filled)' = 0
      BY <1>2, <2>1, <2>2 DEF Frames
    <2>4. Carried' = 0 + 0 + 0
      BY <1>2, <2>3 DEF Carried
    <2>5. Drift' = 0 - 0
      BY <1>1, <2>3 DEF Drift
    <2> QED
      BY <2>1, <2>4, <2>5
  <1>4. PlaceInv'
    BY <1>2, <1>3 DEF AdmissionInv, PlaceInv, Distinct
  <1>5. LedgerInv'
    <2> SUFFICES ASSUME Policy = 1 PROVE credit + occ + 0 + Rendered' = free
      BY <1>3 DEF LedgerInv
    <2>1. credit + occ + 0 + Rendered = free
      BY <1>1 DEF AdmissionInv, LedgerInv
    <2>2. Rendered' = Rendered
      <3>1. CASE UNCHANGED terms
        BY <3>1 DEF Rendered
      <3>2. CASE render = "out"
        BY <3>2 DEF Rendered
      <3> QED
        BY <3>1, <3>2
    <2> QED
      BY <2>1, <2>2
  <1>6. DriftInv'
    BY <1>3, Bounds DEF DriftInv
  <1>7. LeadInv'
    <2>1. 0 * MaxPlan = 0 /\ Greater(0, 0) = 0
      BY Bounds DEF Greater
    <2>2. LeadLimit' = terms'.target + Reserve + 0 + 0
      BY <1>3, <2>1 DEF LeadLimit
    <2>3. LeadLimit = terms.target + Reserve + 0 + 0
      BY <1>1, <2>1 DEF LeadLimit
    <2>4. CASE UNCHANGED terms
      BY <2>2, <2>3, <2>4 DEF AdmissionInv, LeadInv
    <2>5. CASE render = "out" /\ credit = 0
      <3>1. PICK g \in Nat : g = terms'.target
        BY DEF AdmissionTypes
      <3>2. -0 <= g + Reserve + 0 + 0
        BY Bounds
      <3> QED
        BY <2>2, <2>5, <3>1, <3>2 DEF LeadInv
    <2> QED
      BY <2>4, <2>5
  <1> QED
    BY <1>4, <1>5, <1>6, <1>7 DEF AdmissionInv

LEMMA ConfigureStep ==
  ASSUME AdmissionInv, NEW request \in Requests, NEW size \in RingSizes,
         ConfigureUserspaceBuffers(request, size)
  PROVE  AdmissionInv'
  <1>1. /\ phase = "closed" /\ user' = request /\ ringFrames' = size
        /\ UNCHANGED <<exactInitial, terms, holding, started, toSubmit, phase>>
        /\ UNCHANGED <<length, bus, pending, layout, done, step, queuedOut, credit, occ>>
        /\ UNCHANGED <<render, floor, held, free>>
    BY DEF ConfigureUserspaceBuffers, control, pump, event, ledger, rendering
  <1>2. request \in UserspaceBufferConfig /\ size \in Nat
    BY AdmissionAssumption DEF AdmissionAssumption
  <1>3. AdmissionTypes'
    BY <1>1, <1>2 DEF AdmissionInv, AdmissionTypes
  <1>4. StartInv' /\ PaidInv' /\ TermsInv'
    BY <1>1 DEF AdmissionInv, StartInv, PaidInv, TermsInv
  <1> QED
    BY <1>1, <1>3, <1>4, IdleKeeps DEF Idle

LEMMA PumpStep ==
  ASSUME AdmissionInv, NEW plan \in FirstPlans, StartIsoPump(plan)
  PROVE  AdmissionInv'
  <1>1. /\ phase = "closed" /\ phase' = "ready" /\ length' = plan
        /\ exactInitial' = SumOf(plan, Pool)
        /\ UNCHANGED <<ringFrames, user, holding, started, toSubmit>>
        /\ UNCHANGED <<bus, pending, layout, done, step, queuedOut, credit, occ>>
        /\ UNCHANGED <<render, floor, held, free>>
    BY DEF StartIsoPump, event, ledger, rendering
  <1>2. /\ {"quantum", "target", "headroom"} \subseteq DOMAIN terms'
        /\ terms'.quantum = terms.quantum /\ terms'.target = terms.target
    <2>1. {"quantum", "target", "headroom"} \subseteq DOMAIN terms
      BY DEF AdmissionInv, AdmissionTypes
    <2>2. PICK prime : terms' = [terms EXCEPT !.prime = prime]
      BY DEF StartIsoPump
    <2> QED
      BY <2>1, <2>2
  <1>3. plan \in [Pool -> Plans]
    BY AdmissionAssumption DEF AdmissionAssumption, Pool
  <1>4. plan \in [Pool -> 0..MaxPlan] /\ plan \in Layouts /\ \A t \in Pool : plan[t] >= 1
    <2>1. Plans \subseteq 0..MaxPlan /\ Plans \subseteq Nat \ {0}
      BY Bounds
    <2>2. ASSUME NEW t \in Pool PROVE plan[t] \in 0..MaxPlan /\ plan[t] \in Int /\ plan[t] >= 1
      <3>1. plan[t] \in Plans
        BY <1>3
      <3>2. plan[t] \in Nat \ {0} /\ plan[t] \in 0..MaxPlan
        BY <2>1, <3>1
      <3> QED
        BY <3>2
    <2> QED
      BY <1>3, <2>2 DEF Layouts
  <1>5. PICK n \in Nat : n = SumOf(plan, Pool) /\ n >= Transfers
    <2>1. SumOf(plan, Pool) \in Int
      BY <1>4, SumNumber
    <2>2. SumOf(plan, Pool) >= Transfers
      BY <1>4, SumLeast
    <2> QED
      BY <2>1, <2>2, Bounds
  <1>6. AdmissionTypes'
    BY <1>1, <1>2, <1>4, <1>5 DEF AdmissionInv, AdmissionTypes
  <1>7. StartInv'
    <2>1. Frames(Pool)' = n
      BY <1>1, <1>5 DEF Frames, Pool
    <2> QED
      BY <1>1, <1>5, <2>1 DEF AdmissionInv, StartInv
  <1>8. PaidInv' /\ TermsInv'
    BY <1>1, <1>2 DEF AdmissionInv, PaidInv, TermsInv
  <1>9. render = "out" /\ credit = 0
    BY <1>1 DEF AdmissionInv, StartInv
  <1> QED
    BY <1>1, <1>6, <1>7, <1>8, <1>9, IdleKeeps DEF Idle

\* Terms that the request and the drain granularity explain.
SoundTerms(wanted, request, exact) ==
  /\ {"quantum", "target", "headroom"} \subseteq DOMAIN wanted
  /\ wanted.quantum \in Nat \ {0} /\ wanted.target \in Int
  /\ request.headroom = 0 =>
       wanted.headroom = automaticWriteHeadroomFrames(wanted.quantum, exact \div Transfers)

(* What setUserspaceBufferConfig() asks for.                               *)
LEMMA Wanted ==
  ASSUME NEW frames \in Quanta, NEW multiplier \in Multipliers,
         NEW request \in UserspaceBufferConfig, NEW ring, NEW exact
  PROVE  SoundTerms(requestedTerms(frames, multiplier, request, ring, exact, Transfers),
                    request, exact)
  <1> DEFINE wanted == requestedTerms(frames, multiplier, request, ring, exact, Transfers)
  <1>1. /\ frames \in Nat \ {0} /\ multiplier \in Int
        /\ MinGraphQuantum \in Nat \ {0} /\ MaxGraphQuantum \in Nat \ {0}
        /\ MaxPeriodMultiplier \in Nat \ {0} /\ SampleRate \in Nat \ {0}
        /\ PacketsPerTransfer \in Nat \ {0} /\ PacketsPerSecond \in Nat \ {0}
    BY AdmissionAssumption, PolicyAssumption DEF AdmissionAssumption, PolicyAssumption
  <1> DEFINE quantum == graphQuantumFor(frames)
             period == playbackWatermarkTarget(frames, multiplier)
             automatic == automaticPlaybackTargetFrames(quantum, nominalTransferFrames, period)
  <1>2. quantum \in Nat \ {0}
    BY <1>1 DEF graphQuantumFor, Clamp, Lesser, Greater
  <1>3. period \in Int
    <2>1. PICK m \in Int : m = Clamp(multiplier, 1, MaxPeriodMultiplier)
      BY <1>1 DEF Clamp, Lesser, Greater
    <2>2. PICK q \in Int : q = quantum
      BY <1>2
    <2>3. q * m \in Int
      OBVIOUS
    <2>4. period = Lesser(MaxGraphQuantum, q * m)
      BY <2>1, <2>2 DEF playbackWatermarkTarget
    <2> QED
      BY <1>1, <2>3, <2>4 DEF Lesser
  <1>4. nominalTransferFrames \in Int
    <2>1. PICK p \in Int : p = SampleRate * PacketsPerTransfer
      BY <1>1
    <2>2. (p + PacketsPerSecond - 1) \div PacketsPerSecond \in Int
      BY <1>1
    <2> QED
      BY <2>1, <2>2 DEF nominalTransferFrames, CeilDiv
  <1> HIDE DEF quantum, period
  <1>5. automatic \in Int
    BY <1>1, <1>2, <1>3, <1>4 DEF automaticPlaybackTargetFrames
  <1>6. /\ wanted.quantum = quantum /\ wanted.target = OrAutomatic(request.target, automatic)
        /\ wanted.headroom = OrAutomatic(request.headroom,
                               automaticWriteHeadroomFrames(quantum, exact \div Transfers))
        /\ {"quantum", "target", "headroom"} \subseteq DOMAIN wanted
    BY DEF requestedTerms, quantum, period
  <1> HIDE DEF automatic, wanted
  <1>7. request.target \in Int /\ request.headroom \in Int
    BY DEF UserspaceBufferConfig
  <1>8. wanted.target \in Int
    BY <1>5, <1>6, <1>7 DEF OrAutomatic
  <1>9. SoundTerms(wanted, request, exact)
    BY <1>2, <1>6, <1>8 DEF OrAutomatic, SoundTerms
  <1> QED
    BY <1>9 DEF wanted

(* They are put in force if they fit the ring; otherwise there are none.   *)
LEMMA ApplyStep ==
  ASSUME AdmissionInv, NEW frames \in Quanta, NEW multiplier \in Multipliers,
         NEW request \in UserspaceBufferConfig, request.headroom = user.headroom,
         ApplyPolicy(frames, multiplier, request)
  PROVE  AdmissionInv'
  <1>1. /\ phase = "ready" /\ phase' = "open"
        /\ UNCHANGED <<ringFrames, exactInitial, user, holding, started, toSubmit>>
        /\ UNCHANGED <<length, bus, pending, layout, done, step, queuedOut, credit, occ>>
        /\ UNCHANGED <<render, floor, held, free>>
    BY DEF ApplyPolicy, pump, event, ledger, rendering
  <1>2. /\ terms.quantum \in Nat \ {0} /\ ringFrames \in Nat /\ exactInitial \in Nat
        /\ render = "out" /\ credit = 0 /\ held = 0
    BY <1>1 DEF AdmissionInv, AdmissionTypes, StartInv
  <1>3. PICK wanted :
          /\ wanted = requestedTerms(frames, multiplier, request, ringFrames, exactInitial,
                                     Transfers)
          /\ terms' = IF termsFit(wanted, ringFrames, exactInitial) THEN wanted
                      ELSE noTerms(terms.quantum)
    BY DEF ApplyPolicy
  <1>4. /\ {"quantum", "target", "headroom"} \subseteq DOMAIN terms'
        /\ terms'.quantum \in Nat \ {0} /\ terms'.target \in Nat
        /\ (terms'.target > 0 /\ user.headroom = 0) =>
             /\ terms'.headroom = automaticWriteHeadroomFrames(terms'.quantum, DrainChunk)
             /\ terms'.target + terms'.headroom <= ringFrames
    <2>1. CASE termsFit(wanted, ringFrames, exactInitial)
      <3>1. terms' = wanted
        BY <1>3, <2>1
      <3>2. /\ {"quantum", "target", "headroom"} \subseteq DOMAIN wanted
            /\ wanted.quantum \in Nat \ {0} /\ wanted.target \in Int
            /\ (request.headroom = 0 =>
                  wanted.headroom = automaticWriteHeadroomFrames(wanted.quantum, DrainChunk))
        <4>1. SoundTerms(wanted, request, exactInitial)
          BY <1>3, Wanted
        <4> QED
          BY <4>1 DEF SoundTerms, DrainChunk
      <3>3. wanted.target >= 0 /\ wanted.target + wanted.headroom + 0 <= ringFrames
        BY <2>1 DEF termsFit, checkedFrameBudgetFits
      <3>4. request.headroom = 0 => wanted.headroom \in Int
        <4>1. DrainChunk \in Int
          BY <1>2, Bounds DEF DrainChunk
        <4> QED
          BY <3>2, <4>1 DEF automaticWriteHeadroomFrames
      <3> QED
        BY <1>2, <3>1, <3>2, <3>3, <3>4
    <2>2. CASE ~termsFit(wanted, ringFrames, exactInitial)
      BY <1>2, <1>3, <2>2 DEF noTerms
    <2> QED
      BY <2>1, <2>2
  <1>5. AdmissionTypes'
    BY <1>1, <1>4 DEF AdmissionInv, AdmissionTypes
  <1>6. StartInv'
    <2>1. Frames(Pool)' = Frames(Pool)
      BY <1>1 DEF Frames, Pool
    <2> QED
      BY <1>1, <2>1 DEF AdmissionInv, StartInv
  <1>7. PaidInv'
    BY <1>1, <1>2 DEF PaidInv
  <1>8. DrainChunk' = DrainChunk
    BY <1>1 DEF DrainChunk
  <1>9. TermsInv'
    BY <1>1, <1>4, <1>8 DEF TermsInv
  <1> QED
    BY <1>1, <1>2, <1>5, <1>6, <1>7, <1>9, IdleKeeps DEF Idle

LEMMA PolicyStep ==
  ASSUME AdmissionInv, Configure
  PROVE  AdmissionInv'
  <1>0. user \in UserspaceBufferConfig
    BY DEF AdmissionInv, AdmissionTypes
  <1>1. ASSUME NEW frames \in Quanta, NEW multiplier \in Multipliers,
               SetUserspaceBufferConfig(frames, multiplier)
        PROVE  AdmissionInv'
    BY <1>0, <1>1, ApplyStep DEF SetUserspaceBufferConfig
  <1>2. ASSUME NEW frames \in Quanta, NEW multiplier \in Multipliers,
               NEW watermark \in Watermarks,
               SetGraphQuantum(frames, multiplier, watermark)
        PROVE  AdmissionInv'
    <2>1. watermark \in Int
      BY AdmissionAssumption DEF AdmissionAssumption
    <2>2. PICK request \in UserspaceBufferConfig :
            /\ request.headroom = user.headroom
            /\ ApplyPolicy(frames, multiplier, request)
      <3>1. [user EXCEPT !.target = watermark] \in UserspaceBufferConfig
        BY <1>0, <2>1 DEF UserspaceBufferConfig
      <3>2. [user EXCEPT !.target = watermark].headroom = user.headroom
        BY <1>0 DEF UserspaceBufferConfig
      <3> QED
        BY <1>2, <3>1, <3>2 DEF SetGraphQuantum
    <2> QED
      BY <2>2, ApplyStep
  <1> QED
    BY <1>1, <1>2, ConfigureStep, PumpStep DEF Configure

(* startPlayback() begins, or takes playbackStarted_ back.                 *)
LEMMA AskStep ==
  ASSUME AdmissionInv, StartPlayback \/ PrimeMissing
  PROVE  AdmissionInv'
  <1>1. /\ phase \in {"open", "arming"} /\ phase' \in {"open", "arming"}
        /\ started' \in BOOLEAN
        /\ UNCHANGED <<ringFrames, exactInitial, user, terms, holding, toSubmit>>
        /\ UNCHANGED <<length, bus, pending, layout, done, step, queuedOut, credit, occ>>
        /\ UNCHANGED <<render, floor, held, free>>
    <2>1. CASE StartPlayback
      BY <2>1 DEF StartPlayback, policyVars, pump, event, ledger, rendering
    <2>2. CASE PrimeMissing
      BY <2>2 DEF PrimeMissing, policyVars, pump, event, ledger, rendering
    <2> QED
      BY <2>1, <2>2
  <1>2. AdmissionTypes'
    BY <1>1 DEF AdmissionInv, AdmissionTypes
  <1>3. StartInv' /\ PaidInv' /\ TermsInv'
    <2>1. Frames(Pool)' = Frames(Pool) /\ DrainChunk' = DrainChunk
      BY <1>1 DEF Frames, Pool, DrainChunk
    <2> QED
      BY <1>1, <2>1 DEF AdmissionInv, StartInv, PaidInv, TermsInv
  <1> QED
    BY <1>1, <1>2, <1>3, IdleKeeps DEF Idle

(* A step that moves transfers without touching the ring or the credit.    *)
LEMMA ArmKeeps ==
  ASSUME AdmissionInv, phase \in {"arming"} \cup Armed, phase' \in Armed,
         UNCHANGED <<policyVars, started, credit, rendering, free>>,
         AdmissionTypes', PlaceInv', DriftInv',
         NEW o \in Nat, occ' = o, NEW x \in Nat, Carried' = x, o + x = occ + Carried,
         NEW limit \in Int, LeadLimit' = limit, LeadLimit <= limit
  PROVE  AdmissionInv'
  <1>1. /\ UNCHANGED <<ringFrames, implicit, holding, exactInitial, user, terms>>
        /\ UNCHANGED <<started, render, floor, held, free, credit>>
    BY DEF policyVars, rendering
  <1>2. /\ Carried \in Nat /\ Rendered \in Nat /\ LeadLimit \in Int
        /\ credit \in Int /\ occ \in Nat /\ free \in Int /\ floor \in Int
    BY Sizes DEF AdmissionInv, AdmissionTypes
  <1>3. LedgerInv'
    <2>1. Rendered' = Rendered
      BY <1>1 DEF Rendered
    <2> SUFFICES ASSUME Policy = 1 PROVE credit + o + x + Rendered = free
      BY <1>1, <2>1 DEF LedgerInv
    <2>2. credit + occ + Carried + Rendered = free
      BY DEF AdmissionInv, LedgerInv
    <2> QED
      BY <1>2, <2>2
  <1>4. LeadInv'
    <2>1. render = "credit" => -floor <= limit
      BY <1>2 DEF AdmissionInv, LeadInv
    <2>2. Policy = 1 /\ ~holding => -credit <= limit
      BY <1>2 DEF AdmissionInv, LeadInv
    <2> QED
      BY <1>1, <2>1, <2>2 DEF LeadInv
  <1>5. phase \notin {"closed", "ready"} /\ phase' \notin {"closed", "ready", "open", "arming"}
    BY DEF Armed
  <1>6. StartInv' /\ PaidInv' /\ TermsInv'
    <2>1. DrainChunk' = DrainChunk
      BY <1>1 DEF DrainChunk
    <2> QED
      BY <1>1, <1>5, <2>1 DEF AdmissionInv, StartInv, PaidInv, TermsInv
  <1> QED
    BY <1>3, <1>4, <1>6 DEF AdmissionInv

(* The transfers are filled from the ring.                                 *)
LEMMA FillStep ==
  ASSUME AdmissionInv, FillTransfers
  PROVE  AdmissionInv'
  <1>1. /\ phase = "arming" /\ phase' = "submit" /\ toSubmit' = 1
        /\ length' = FilledFrom(occ, length) /\ occ' = Greater(0, occ - exactInitial)
        /\ UNCHANGED <<policyVars, started, credit, rendering, free>>
        /\ UNCHANGED <<bus, pending, layout, done, step, queuedOut>>
        /\ UNCHANGED <<ringFrames, holding, exactInitial, user, terms, render, floor, held>>
    BY DEF FillTransfers, FilledFrom, FirstFill, Frames, event, ledger, policyVars, rendering
  <1>2. /\ OnBus = {} /\ Deferred = {} /\ InHand = {} /\ step = "idle" /\ queuedOut = 0
        /\ Submitted = 0 /\ Carried = 0 /\ Drift = 0
    BY <1>1, IdleFacts DEF Idle
  <1>3. PICK have \in Nat, plan \in [Pool -> Nat], exact \in Nat :
          /\ have = occ /\ plan = length /\ exact = exactInitial
          /\ exact = SumOf(plan, Pool)
    BY <1>1, EventFacts DEF AdmissionInv, AdmissionTypes, StartInv, Frames
  <1>4. \A t \in Pool : plan[t] <= MaxPlan
    BY <1>3, EventFacts, Bounds
  <1> DEFINE filled == FilledFrom(have, plan)
  <1>5. /\ filled \in [Pool -> Nat] /\ \A t \in Pool : filled[t] <= plan[t]
        /\ SumOf(filled, Pool) = Lesser(have, exact)
    BY <1>3, SumFill
  <1>6. length' = filled
    BY <1>1, <1>3
  <1> HIDE DEF filled
  <1>7. filled \in [Pool -> 0..MaxPlan]
    <2>1. ASSUME NEW t \in Pool PROVE filled[t] \in 0..MaxPlan
      <3>1. filled[t] \in Nat /\ plan[t] \in Nat /\ filled[t] <= plan[t] /\ plan[t] <= MaxPlan
        BY <1>4, <1>5
      <3> QED
        BY <3>1, Bounds
    <2> QED
      BY <1>5, <2>1
  <1>8. PICK o \in Nat, x \in Nat :
          o = Greater(0, have - exact) /\ x = Lesser(have, exact) /\ o + x = have + 0
    BY DEF Greater, Lesser
  <1>9. occ' = o
    BY <1>1, <1>3, <1>8
  <1>10. AdmissionTypes'
    <2>1. 1 \in Pool
      BY Bounds
    <2> QED
      BY <1>1, <1>2, <1>6, <1>7, <1>9, <2>1 DEF AdmissionInv, AdmissionTypes, Armed
  <1>11. OnBus' = {} /\ Deferred' = {} /\ InHand' = {} /\ step' = "idle"
    BY <1>1, <1>2 DEF OnBus, Deferred, InHand, Elements
  <1>12. Submitted' = 0 /\ Accounted' = 0 /\ Filled' = Pool
    BY <1>1 DEF Submitted, Accounted, Filled, Pool
  <1>13. PlaceInv'
    BY <1>1, <1>11, <1>12 DEF AdmissionInv, PlaceInv, Distinct
  <1>14. Frames(OnBus)' = 0 /\ Frames(Filled)' = x
    <2>1. 0..MaxPlan \subseteq Int
      BY Bounds
    <2>2. filled \in Layouts
      BY <1>7, <2>1 DEF Layouts
    <2>3. SumOf(filled, {}) = 0
      BY <2>2, SumNone
    <2> QED
      BY <1>5, <1>6, <1>8, <1>11, <1>12, <2>3 DEF Frames
  <1>15. Carried' = x
    <2>1. Carried' = 0 + x + 0
      BY <1>11, <1>14 DEF Carried
    <2> QED
      BY <2>1
  <1>16. Drift' = 0
    <2>1. Drift' = 0 - 0
      BY <1>1, <1>2, <1>14 DEF Drift
    <2> QED
      BY <2>1
  <1>17. DriftInv'
    BY <1>12, <1>16, Bounds DEF DriftInv
  <1>18. PICK limit \in Int : limit = LeadLimit
    BY Sizes DEF AdmissionInv
  <1>19. LeadLimit' = limit /\ LeadLimit <= limit
    BY <1>1, <1>2, <1>12, <1>16, <1>18 DEF LeadLimit
  <1>20. o + x = occ + Carried /\ phase' \in Armed
    BY <1>1, <1>2, <1>3, <1>8 DEF Armed
  <1> QED
    BY <1>1, <1>9, <1>10, <1>13, <1>15, <1>17, <1>19, <1>20, ArmKeeps

(* One more transfer may carry one more plan.                              *)
LEMMA OneMore ==
  ASSUME NEW t \in Nat \ {0}, NEW most \in Nat
  PROVE  (t - 1) * most \in Nat /\ t * most \in Nat /\ t * most = (t - 1) * most + most
  <1>1. PICK s \in Nat : s = t - 1 /\ t = s + 1
    OBVIOUS
  <1>2. (s + 1) * most = s * most + most /\ s * most \in Nat
    OBVIOUS
  <1> QED
    BY <1>1, <1>2

(* A filled transfer is submitted, but not counted yet.                    *)
LEMMA SubmitStep ==
  ASSUME AdmissionInv, SubmitTransfer
  PROVE  AdmissionInv'
  <1>1. /\ phase = "submit" /\ phase' = "account" /\ bus' = Append(bus, toSubmit)
        /\ UNCHANGED <<policyVars, started, credit, rendering, free>>
        /\ UNCHANGED <<toSubmit, length, pending, layout, done, step, queuedOut, occ>>
        /\ UNCHANGED <<ringFrames, holding, exactInitial, user, terms, render, floor, held>>
    BY DEF SubmitTransfer, event, ledger, policyVars, rendering
  <1>2. toSubmit \in Pool
    BY <1>1 DEF AdmissionInv, AdmissionTypes
  <1>3. PICK t \in Pool : t = toSubmit
    BY <1>2
  <1>4. t \in Nat \ {0} /\ t <= Transfers /\ Transfers \in Nat
    BY Bounds
  <1>5. /\ Submitted = t - 1 /\ Accounted = t - 1 /\ Submitted' = t /\ Accounted' = t - 1
        /\ Filled = t..Transfers /\ Filled' = (t + 1)..Transfers
    BY <1>1, <1>3 DEF Submitted, Accounted, Filled
  <1>6. t \notin OnBus /\ t \notin Deferred /\ t \notin InHand
    <2>1. t \notin 1..(t - 1)
      BY <1>4
    <2> QED
      BY <1>5, <2>1, EventFacts DEF PlaceInv
  <1>7. /\ bus' \in Seq(Pool) /\ Distinct(bus') /\ OnBus' = OnBus \cup {t}
    <2>1. Distinct(bus) /\ t \notin Elements(bus)
      BY <1>6, EventFacts DEF PlaceInv
    <2>2. /\ Append(bus, t) \in Seq(Pool) /\ Distinct(Append(bus, t))
          /\ Elements(Append(bus, t)) = Elements(bus) \cup {t}
      BY <2>1, LastJoins, EventFacts
    <2>3. bus' = Append(bus, t) /\ OnBus' = Elements(bus') /\ OnBus = Elements(bus)
      BY <1>1, <1>3 DEF OnBus, Elements
    <2> QED
      BY <2>2, <2>3
  <1>8. AdmissionTypes'
    BY <1>1, <1>2, <1>7 DEF AdmissionInv, AdmissionTypes, Armed
  <1>9. PlaceInv'
    <2>1. Deferred' = Deferred /\ InHand' = InHand /\ (Distinct(pending) => Distinct(pending'))
      BY <1>1 DEF Deferred, InHand, Elements, Distinct
    <2>2. 1..(t - 1) \subseteq 1..t /\ t \in 1..t
      BY <1>4
    <2> QED
      BY <1>5, <1>6, <1>7, <2>1, <2>2, EventFacts DEF PlaceInv
  <1>10. PICK B \in Nat, G \in Nat, l \in Nat, D \in Int, h \in Nat :
           /\ B = SumOf(length, OnBus) /\ G = SumOf(length, (t + 1)..Transfers)
           /\ l = length[t] /\ D = Drift
           /\ h = (IF step = "submit" THEN length[done] ELSE 0)
    BY EventFacts, Sizes
  <1>11. SumOf(length, OnBus \cup {t}) = B + l
    BY <1>6, <1>10, SumJoin, EventFacts
  <1>12. SumOf(length, t..Transfers) = G + l
    <2>1. t..Transfers = ((t + 1)..Transfers) \cup {t} /\ t \notin (t + 1)..Transfers
      BY <1>4
    <2>2. SumOf(length, ((t + 1)..Transfers) \cup {t}) = G + l
      BY <1>10, <2>1, SumJoin, EventFacts
    <2> QED
      BY <2>1, <2>2
  <1>13. Carried = B + (G + l) + h
    BY <1>5, <1>10, <1>12 DEF Carried, Frames
  <1>14. Frames(OnBus)' = B + l /\ Frames(Filled)' = G
    BY <1>1, <1>5, <1>7, <1>10, <1>11 DEF Frames
  <1>15. PICK x \in Nat : Carried' = x /\ x = B + l + G + h
    <2>1. Carried' = B + l + G + h
      BY <1>1, <1>10, <1>14 DEF Carried
    <2> QED
      BY <2>1
  <1>16. PICK q \in Nat, o \in Nat : q = queuedOut /\ o = occ
    BY EventFacts
  <1>17. D = q - B
    BY <1>10, <1>16 DEF Drift, Frames
  <1>18. PICK e \in Int : Drift' = e /\ e = D - l
    <2>1. Drift' = q - (B + l)
      BY <1>1, <1>14, <1>16 DEF Drift
    <2> QED
      BY <1>17, <2>1
  <1>19. DriftInv'
    <2>1. D <= (t - 1) * MaxPlan
      BY <1>5, <1>10 DEF AdmissionInv, DriftInv
    <2>2. PICK a \in Nat : a = (t - 1) * MaxPlan
      BY <1>4, OneMore, Bounds
    <2>3. e <= a
      BY <1>18, <2>1, <2>2
    <2> QED
      BY <1>5, <1>18, <2>2, <2>3 DEF DriftInv
  <1>20. PICK base \in Int, a \in Nat, m \in Nat :
           base = terms.target + Reserve /\ a = (t - 1) * MaxPlan /\ m = MaxPlan
    <2>1. terms.target \in Nat
      BY DEF AdmissionInv, AdmissionTypes
    <2> QED
      BY <1>4, <2>1, OneMore, Bounds
  <1>21. t * MaxPlan = a + m
    BY <1>4, <1>20, OneMore, Bounds
  <1>22. l <= m
    BY <1>10, <1>20, EventFacts
  <1>23. LeadLimit = base + a + Greater(0, D)
    BY <1>5, <1>10, <1>20 DEF LeadLimit
  <1>24. LeadLimit' = base + (a + m) + Greater(0, e)
    BY <1>1, <1>5, <1>18, <1>20, <1>21 DEF LeadLimit
  <1>25. PICK limit \in Int : LeadLimit' = limit /\ LeadLimit <= limit
    <2>1. /\ base + (a + m) + Greater(0, e) \in Int
          /\ base + a + Greater(0, D) <= base + (a + m) + Greater(0, e)
      BY <1>18, <1>22 DEF Greater
    <2> QED
      BY <1>23, <1>24, <2>1
  <1>26. occ' = o /\ o + x = occ + Carried
    BY <1>1, <1>13, <1>15, <1>16
  <1>27. phase \in {"arming"} \cup Armed /\ phase' \in Armed
    BY <1>1 DEF Armed
  <1> QED
    BY <1>1, <1>8, <1>9, <1>15, <1>19, <1>25, <1>26, <1>27, ArmKeeps

(* Its frames are counted.                                                 *)
LEMMA AccountStep ==
  ASSUME AdmissionInv, AccountTransfer
  PROVE  AdmissionInv'
  <1>1. /\ phase = "account" /\ toSubmit' = toSubmit + 1
        /\ phase' = (IF toSubmit = Transfers THEN "playing" ELSE "submit")
        /\ queuedOut' = queuedOut + length[toSubmit]
        /\ UNCHANGED <<policyVars, started, credit, rendering, free>>
        /\ UNCHANGED <<length, bus, pending, layout, done, step, occ>>
        /\ UNCHANGED <<ringFrames, holding, exactInitial, user, terms, render, floor, held>>
    BY DEF AccountTransfer, event, pump, policyVars, rendering
  <1>2. PICK t \in Pool : t = toSubmit
    BY <1>1 DEF AdmissionInv, AdmissionTypes
  <1>3. t \in Nat \ {0} /\ t <= Transfers /\ Transfers \in Nat
    BY Bounds
  <1>4. Submitted = t /\ Accounted = t - 1 /\ Filled = (t + 1)..Transfers
    BY <1>1, <1>2 DEF Submitted, Accounted, Filled
  <1>5. Submitted' = t /\ Accounted' = t /\ Filled' = (t + 1)..Transfers
    <2>1. CASE t = Transfers
      <3>1. phase' = "playing" /\ (t + 1)..Transfers = {}
        BY <1>1, <1>2, <1>3, <2>1
      <3> QED
        BY <2>1, <3>1 DEF Submitted, Accounted, Filled
    <2>2. CASE t # Transfers
      <3>1. phase' = "submit" /\ toSubmit' = t + 1 /\ (t + 1) - 1 = t
        BY <1>1, <1>2, <1>3, <2>2
      <3> QED
        BY <3>1 DEF Submitted, Accounted, Filled
    <2> QED
      BY <2>1, <2>2
  <1>6. PICK q \in Nat, l \in Nat, B \in Nat, D \in Int, o \in Nat, x \in Nat :
          /\ q = queuedOut /\ l = length[t] /\ B = Frames(OnBus) /\ D = Drift /\ o = occ
          /\ x = Carried
    BY EventFacts, Sizes
  <1>7. AdmissionTypes'
    <2>1. PICK k \in Nat : queuedOut' = k
      <3>1. q + l \in Nat
        OBVIOUS
      <3> QED
        BY <1>1, <1>2, <1>6, <3>1
    <2>2. phase' \in Armed /\ (phase' \in {"submit", "account"} => toSubmit' \in Pool)
      <3>1. t # Transfers => t + 1 \in Pool
        BY <1>3, Bounds
      <3> QED
        BY <1>1, <1>2, <3>1 DEF Armed
    <2> QED
      BY <1>1, <2>1, <2>2 DEF AdmissionInv, AdmissionTypes
  <1>8. OnBus' = OnBus /\ Deferred' = Deferred /\ InHand' = InHand
    BY <1>1 DEF OnBus, Deferred, InHand, Elements
  <1>9. PlaceInv'
    BY <1>1, <1>4, <1>5, <1>8 DEF AdmissionInv, PlaceInv, Distinct
  <1>10. Frames(OnBus)' = B /\ Frames(Filled)' = Frames(Filled)
    BY <1>1, <1>4, <1>5, <1>6, <1>8 DEF Frames
  <1>11. Carried' = x
    BY <1>1, <1>6, <1>8, <1>10 DEF Carried
  <1>12. D = q - B
    BY <1>6 DEF Drift
  <1>13. PICK e \in Int : Drift' = e /\ e = D + l
    <2>1. Drift' = (q + l) - B
      BY <1>1, <1>2, <1>6, <1>10 DEF Drift
    <2> QED
      BY <1>12, <2>1
  <1>14. PICK a \in Nat, m \in Nat :
           a = (t - 1) * MaxPlan /\ m = MaxPlan /\ t * MaxPlan = a + m
    BY <1>3, OneMore, Bounds
  <1>15. DriftInv'
    <2>1. D <= a
      BY <1>4, <1>6, <1>14 DEF AdmissionInv, DriftInv
    <2>2. l <= m
      BY <1>6, <1>14, EventFacts
    <2>3. e <= a + m
      BY <1>13, <2>1, <2>2
    <2> QED
      BY <1>5, <1>13, <1>14, <2>3 DEF DriftInv
  <1>16. PICK base \in Int : base = terms.target + Reserve + (a + m)
    <2>1. terms.target \in Nat
      BY DEF AdmissionInv, AdmissionTypes
    <2> QED
      BY <2>1, Bounds
  <1>17. LeadLimit = base + Greater(0, D) /\ LeadLimit' = base + Greater(0, e)
    BY <1>1, <1>4, <1>5, <1>6, <1>13, <1>14, <1>16 DEF LeadLimit
  <1>18. PICK limit \in Int : LeadLimit' = limit /\ LeadLimit <= limit
    <2>1. D <= e
      BY <1>13
    <2>2. base + Greater(0, e) \in Int /\ base + Greater(0, D) <= base + Greater(0, e)
      BY <2>1, LimitGrows
    <2> QED
      BY <1>17, <2>2
  <1>19. occ' = o /\ o + x = occ + Carried
    BY <1>1, <1>6
  <1>20. phase \in {"arming"} \cup Armed /\ phase' \in Armed
    BY <1>1 DEF Armed
  <1> QED
    BY <1>1, <1>7, <1>9, <1>11, <1>15, <1>18, <1>19, <1>20, ArmKeeps

--------------------------------------------------------------------------------

(* The invariant is inductive.                                             *)
LEMMA AdmissionStep == AdmissionInv /\ [Next]_vars => AdmissionInv'
  <1> SUFFICES ASSUME AdmissionInv, [Next]_vars PROVE AdmissionInv'
    OBVIOUS
  <1>1. CASE Configure
    BY <1>1, PolicyStep
  <1>2. CASE Starting
    BY <1>2, AskStep, FillStep, SubmitStep, AccountStep DEF Starting
  <1>3. CASE OnIso \/ Capture
    BY <1>3, EventStep
  <1>4. CASE Render
    BY <1>4, RenderStep
  <1>5. CASE UNCHANGED vars
    <2>1. /\ UNCHANGED <<policyVars, control, pump, event, queuedOut>>
          /\ UNCHANGED <<occ, credit, free, floor, held, render, terms, phase>>
          /\ UNCHANGED <<ringFrames, holding, exactInitial, user, early, started, toSubmit>>
          /\ UNCHANGED <<length, bus, pending, layout, done, step>>
      BY <1>5 DEF vars, policyVars, control, pump, event, ledger, rendering
    <2>2. AdmissionTypes' /\ PaidInv' /\ PlaceInv'
      BY <2>1, PumpSame DEF AdmissionInv, AdmissionTypes, PaidInv
    <2>3. /\ Submitted' = Submitted /\ Accounted' = Accounted /\ Carried' = Carried
          /\ Frames(OnBus)' = Frames(OnBus) /\ Frames(Pool)' = Frames(Pool)
      BY <2>1, PumpSame
    <2>4. Drift' = Drift /\ Rendered' = Rendered /\ DrainChunk' = DrainChunk
      BY <2>1, <2>3 DEF Drift, Rendered, DrainChunk
    <2>5. LeadLimit' = LeadLimit
      BY <2>1, <2>3, <2>4 DEF LeadLimit
    <2>6. StartInv' /\ LedgerInv' /\ DriftInv' /\ LeadInv' /\ TermsInv'
      BY <2>1, <2>3, <2>4, <2>5
      DEF AdmissionInv, StartInv, LedgerInv, DriftInv, LeadInv, TermsInv
    <2> QED
      BY <2>2, <2>6 DEF AdmissionInv
  <1> QED
    BY <1>1, <1>2, <1>3, <1>4, <1>5 DEF Next

LEMMA AdmissionCorrect == Spec => []AdmissionInv
  BY AdmissionInit, AdmissionStep, PTL DEF Spec

(* playbackCredit_ is never out by a frame: takePlaybackCredit(), the      *)
(* holding slot, onIso() and startPlayback() between them charge and       *)
(* credit every frame once, in any interleaving of the three threads.      *)
THEOREM LedgerCorrect == Spec => []LedgerExact
  <1>1. ASSUME AdmissionInv PROVE LedgerExact
    <2> SUFFICES ASSUME Policy = 1 PROVE credit + Pipeline = free
      BY DEF LedgerExact
    <2>1. credit + occ + Carried + Rendered = free
      BY <1>1 DEF AdmissionInv, LedgerInv
    <2>2. PICK c \in Int, o \in Nat, b \in Nat, f \in Nat, h \in Nat, l \in Nat, q \in Nat :
            /\ c = credit /\ o = occ /\ b = Frames(OnBus) /\ f = Frames(Filled) /\ h = held
            /\ l = (IF step = "submit" THEN length[done] ELSE 0)
            /\ q = (IF render = "paid" THEN terms.quantum ELSE 0)
      BY <1>1, Sizes DEF AdmissionInv, AdmissionTypes
    <2>3. c + o + (b + f + l) + (h + q) = free
      BY <2>1, <2>2 DEF Carried, Rendered
    <2>4. c + (o + b + f + h + l + q) = free
      BY <2>3
    <2> QED
      BY <2>2, <2>4 DEF Pipeline
  <1> QED
    BY <1>1, AdmissionCorrect, PTL

(* The lead the producer can run up against a stale floor, in              *)
(* takePlaybackCredit(), stays within what the policy allows.              *)
THEOREM LeadCorrect == Spec => []LeadBounded
  <1>1. ASSUME AdmissionInv PROVE LeadBounded
    <2> SUFFICES ASSUME Policy = 1, ~holding, phase = "playing"
                 PROVE  -credit <= terms.target + Reserve + Transfers * MaxPlan
                                     + Greater(0, Drift)
      BY DEF LeadBounded
    <2>1. Submitted = Transfers
      BY DEF Submitted
    <2>2. -credit <= LeadLimit
      BY <1>1 DEF AdmissionInv, LeadInv
    <2> QED
      BY <2>1, <2>2 DEF LeadLimit
  <1> QED
    BY <1>1, AdmissionCorrect, PTL

(* The error that a completion overtaking the accounting of its submission *)
(* leaves in queuedOutFrames_ is bounded by the first transfers.           *)
THEOREM DriftCorrect == Spec => []DriftBounded
  <1>1. ASSUME AdmissionInv PROVE DriftBounded
    <2> SUFFICES ASSUME phase = "playing"
                 PROVE  Drift \in (-Transfers * MaxPlan)..(Transfers * MaxPlan)
      BY DEF DriftBounded
    <2>1. Submitted = Transfers /\ Accounted = Transfers
      BY DEF Submitted, Accounted
    <2>2. PICK q \in Nat, b \in Nat, a \in Nat :
            q = queuedOut /\ b = Frames(OnBus) /\ a = Transfers * MaxPlan
      BY <1>1, <2>1, Sizes DEF AdmissionInv, AdmissionTypes
    <2>3. b <= a /\ Drift <= a /\ Drift = q - b
      BY <1>1, <2>1, <2>2, BusBound DEF AdmissionInv, DriftInv, Drift
    <2>4. -Transfers * MaxPlan = -a
      BY <2>2, Bounds
    <2>5. q - b \in (-a)..a
      BY <2>3
    <2> QED
      BY <2>2, <2>3, <2>4, <2>5
  <1> QED
    BY <1>1, AdmissionCorrect, PTL

(* A cycle whose drain comes late by one chunk.                            *)
LEMMA DrainAbsorbed ==
  ASSUME NEW quantum \in Nat \ {0}, NEW chunk \in Nat \ {0}, NEW target \in Nat,
         NEW before \in 0..target, NEW ring \in Nat,
         target + automaticWriteHeadroomFrames(quantum, chunk) <= ring
  PROVE  Greater(0, before + quantum - chunk) + quantum
           <= Lesser(ring, target + automaticWriteHeadroomFrames(quantum, chunk))
  BY DEF Greater, Lesser, automaticWriteHeadroomFrames

(* The automatic headroom of setUserspaceBufferConfig() absorbs a late     *)
(* drain, whatever quantum, ring and drain granularity it is given.        *)
THEOREM HeadroomCorrect == Spec => []LateDrainAbsorbed
  <1>1. ASSUME AdmissionInv PROVE LateDrainAbsorbed
    <2> SUFFICES ASSUME phase \notin {"closed", "ready"}, terms.target > 0,
                        user.headroom = 0, NEW before \in 0..terms.target
                 PROVE  Greater(0, before + terms.quantum - DrainChunk) + terms.quantum
                          <= Lesser(ringFrames, terms.target + terms.headroom)
      BY DEF LateDrainAbsorbed
    <2>1. /\ terms.headroom = automaticWriteHeadroomFrames(terms.quantum, DrainChunk)
          /\ terms.target + terms.headroom <= ringFrames
      BY <1>1 DEF AdmissionInv, TermsInv
    <2>2. exactInitial >= Transfers /\ exactInitial \in Nat
      BY <1>1 DEF AdmissionInv, AdmissionTypes, StartInv
    <2>3. DrainChunk \in Nat \ {0}
      <3>1. PICK n \in Nat, d \in Nat \ {0} : n = exactInitial /\ d = Transfers /\ n >= d
        BY <2>2, Bounds
      <3>2. n \div d \in Nat \ {0}
        BY <3>1
      <3> QED
        BY <3>1, <3>2 DEF DrainChunk
    <2>4. PICK quantum \in Nat \ {0}, chunk \in Nat \ {0}, target \in Nat, ring \in Nat :
            quantum = terms.quantum /\ chunk = DrainChunk /\ target = terms.target
              /\ ring = ringFrames
      BY <1>1, <2>3 DEF AdmissionInv, AdmissionTypes
    <2>5. Greater(0, before + quantum - chunk) + quantum
            <= Lesser(ring, target + automaticWriteHeadroomFrames(quantum, chunk))
      BY <2>1, <2>4, DrainAbsorbed
    <2> QED
      BY <2>1, <2>4, <2>5
  <1> QED
    BY <1>1, AdmissionCorrect, PTL

=================================================================================
