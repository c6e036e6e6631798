-------------------------- MODULE RateLimitProofs --------------------------
(***************************************************************************)
(* What RateLimit keeps for any number of overlapping requests, any limit  *)
(* and any bound on the counter.                                           *)
(***************************************************************************)
EXTENDS RateLimit, FiniteSetTheorems, TLAPS

(* The part of TypeOK that the argument needs.                             *)
Staged == /\ counter \in Nat
          /\ stage \in [Workers -> {"idle", "expire", "ttl", "decide"}]

IInv == Staged /\ LastsOnlyIfOrphaned

(* A counter that INCR has touched is at least one.                        *)
LEMMA CountedPositive ==
  ASSUME counter \in Nat
  PROVE  Counted \in Nat /\ Counted > 0 /\ (counter = 0 => Counted = 1)
  BY LimitAssumption DEF Counted

(* Every step of a request, and the end of a window, keeps IInv: only the  *)
(* request that found the key missing can stop being at "expire", and it   *)
(* leaves a time to live behind, or the auxiliary mark.                    *)
LEMMA Step == IInv /\ [Next]_vars => IInv'
  <1> SUFFICES ASSUME IInv, [Next]_vars PROVE IInv'
    OBVIOUS
  <1> USE DEF IInv, Staged, LastsOnlyIfOrphaned
  <1>1. ASSUME NEW w \in Workers, Incr(w) PROVE IInv'
    <2>1. counter' = Counted /\ counter' \in Nat /\ counter' > 0
      BY <1>1, CountedPositive DEF Incr
    <2>2. CASE counter = 0
      <3>1. stage'[w] = "expire"
        BY <1>1, <2>2, CountedPositive DEF Incr, First
      <3> QED
        BY <1>1, <2>1, <3>1 DEF Incr
    <2>3. CASE counter # 0
      BY <1>1, <2>1, <2>3 DEF Incr
    <2> QED
      BY <2>2, <2>3
  <1>2. ASSUME NEW w \in Workers, Expire(w) PROVE IInv'
    BY <1>2 DEF Expire
  <1>3. ASSUME NEW w \in Workers, TTL(w) \/ Decide(w) PROVE IInv'
    BY <1>3 DEF TTL, Decide
  <1>4. ASSUME NEW w \in Workers, Fail(w) PROVE IInv'
    BY <1>4 DEF Fail
  <1>5. CASE KeyExpires
    BY <1>5 DEF KeyExpires
  <1>6. CASE UNCHANGED vars
    BY <1>6 DEF vars
  <1> QED
    BY <1>1, <1>2, <1>3, <1>4, <1>5, <1>6 DEF Next, Allow

(* Overlapping requests never leave the key without a time to live: where  *)
(* there is none, its first request is about to set it or has failed       *)
(* (limiter.go:34-38).                                                     *)
THEOREM CountersDoNotOutliveTheirWindow == Spec => []LastsOnlyIfOrphaned
  <1>1. Init => IInv
    BY DEF Init, IInv, Staged, LastsOnlyIfOrphaned
  <1>2. IInv => LastsOnlyIfOrphaned
    BY DEF IInv
  <1> QED
    BY <1>1, <1>2, Step, PTL DEF Spec

-----------------------------------------------------------------------------
(* The requests of the current window that will be let through when they   *)
(* get to their decision, unless a command fails or the window ends.       *)
Admitting == {w \in Workers : window[w] /\ count[w] <= Limit}

(* What a window may still let through: it has counted them one by one.    *)
Quota == IF counter < Limit THEN counter ELSE Limit

WInv == /\ TypeOK
        /\ \A w \in Workers : window[w] => stage[w] # "idle"
        /\ IsFiniteSet(Admitting)
        /\ admitted + Cardinality(Admitting) <= Quota

(* INCR numbers the requests of a window, as long as they can pass.        *)
LEMMA CountedRange ==
  ASSUME counter \in 0..MaxCount
  PROVE  /\ Counted \in 0..MaxCount
         /\ counter < Limit => Counted = counter + 1
         /\ counter >= Limit => Counted > Limit
  BY LimitAssumption DEF Counted

(* A request that stops being in the window admits one less.               *)
LEMMA StopsAdmitting ==
  ASSUME WInv, NEW w \in Workers, count' = count,
         window' = [window EXCEPT ![w] = FALSE]
  PROVE  /\ Admitting' = Admitting \ {w} /\ IsFiniteSet(Admitting')
         /\ Cardinality(Admitting') = Cardinality(Admitting) - (IF w \in Admitting THEN 1 ELSE 0)
         /\ Cardinality(Admitting) \in Nat /\ Cardinality(Admitting') \in Nat
  <1>1. Admitting' = Admitting \ {w}
    BY DEF WInv, TypeOK, Admitting
  <1> QED
    BY <1>1, FS_RemoveElement, FS_CardinalityType DEF WInv

(* INCR: a request counted beyond the limit adds nothing to Admitting, one *)
(* counted within it adds itself and takes a number of its own.            *)
LEMMA IncrWindow == ASSUME WInv, NEW w \in Workers, Incr(w) PROVE WInv'
  <1>1. /\ counter \in 0..MaxCount /\ counter' = Counted /\ counter' \in 0..MaxCount
        /\ admitted' = admitted /\ w \notin Admitting
    BY CountedRange DEF WInv, TypeOK, Incr, Admitting
  <1>2. TypeOK' /\ \A v \in Workers : window'[v] => stage'[v] # "idle"
    BY <1>1 DEF WInv, TypeOK, Incr
  <1>3. CASE counter < Limit
    <2>0. window'[w] /\ count'[w] <= Limit
      BY <1>1, <1>3, CountedRange, LimitAssumption DEF WInv, TypeOK, Incr
    <2>1. Admitting' = Admitting \cup {w}
      <3>1. ASSUME NEW v \in Workers, v # w
            PROVE  window'[v] = window[v] /\ count'[v] = count[v]
        BY <3>1 DEF WInv, TypeOK, Incr
      <3> QED
        BY <2>0, <3>1 DEF Admitting
    <2>2. /\ IsFiniteSet(Admitting') /\ Cardinality(Admitting) \in Nat
          /\ Cardinality(Admitting') = Cardinality(Admitting) + 1
      BY <1>1, <2>1, FS_AddElement, FS_CardinalityType DEF WInv
    <2>3. counter' = counter + 1
      BY <1>1, <1>3, CountedRange
    <2> QED
      BY <1>1, <1>2, <1>3, <2>2, <2>3, LimitAssumption DEF WInv, TypeOK, Quota
  <1>4. CASE counter >= Limit
    <2>1. Admitting' = Admitting
      BY <1>1, <1>4, CountedRange, LimitAssumption DEF Admitting, WInv, TypeOK, Incr
    <2>2. Quota' = Quota
      BY <1>1, <1>4, CountedRange, LimitAssumption DEF Quota
    <2> QED
      BY <1>1, <1>2, <2>1, <2>2 DEF WInv
  <1> QED
    BY <1>1, <1>3, <1>4, LimitAssumption

(* The middleware's decision moves a request from Admitting to admitted.   *)
LEMMA DecideWindow == ASSUME WInv, NEW w \in Workers, Decide(w) PROVE WInv'
  <1>1. w \in Admitting <=> Allowed(count[w]) /\ window[w]
    BY DEF Admitting, Allowed
  <1>2. /\ admitted \in 0..MaxCount /\ Quota' = Quota /\ Quota \in Nat /\ Quota <= Limit
        /\ admitted' = IF w \in Admitting THEN admitted + 1 ELSE admitted
    BY <1>1, LimitAssumption DEF WInv, TypeOK, Decide, Quota
  <1>3. /\ IsFiniteSet(Admitting') /\ Cardinality(Admitting') \in Nat
        /\ Cardinality(Admitting) \in Nat
        /\ Cardinality(Admitting') = Cardinality(Admitting) - (IF w \in Admitting THEN 1 ELSE 0)
    BY StopsAdmitting DEF Decide
  <1>5. admitted' + Cardinality(Admitting') <= Quota'
    <2>1. admitted + Cardinality(Admitting) <= Quota
      BY DEF WInv
    <2> QED
      BY <1>2, <1>3, <2>1
  <1>4. admitted' \in 0..MaxCount
    BY <1>2, <1>3, <1>5, LimitAssumption
  <1>6. TypeOK' /\ \A v \in Workers : window'[v] => stage'[v] # "idle"
    BY <1>4 DEF WInv, TypeOK, Decide
  <1> QED
    BY <1>3, <1>5, <1>6 DEF WInv

(* A failure only takes a request away.                                    *)
LEMMA FailWindow == ASSUME WInv, NEW w \in Workers, Fail(w) PROVE WInv'
  <1>1. IsFiniteSet(Admitting') /\ admitted' + Cardinality(Admitting') <= Quota'
    <2>1. /\ IsFiniteSet(Admitting')
          /\ Cardinality(Admitting) \in Nat /\ Cardinality(Admitting') \in Nat
          /\ Cardinality(Admitting') <= Cardinality(Admitting)
      <3>1. count' = count /\ window' = [window EXCEPT ![w] = FALSE]
        BY DEF Fail
      <3>2. /\ IsFiniteSet(Admitting')
            /\ Cardinality(Admitting') = Cardinality(Admitting) - (IF w \in Admitting THEN 1 ELSE 0)
            /\ Cardinality(Admitting) \in Nat /\ Cardinality(Admitting') \in Nat
        BY <3>1, StopsAdmitting
      <3> QED
        BY <3>2
    <2>2. Quota' = Quota /\ Quota \in Nat /\ admitted' = admitted /\ admitted \in Nat
      BY LimitAssumption DEF WInv, TypeOK, Fail, Quota
    <2>3. admitted + Cardinality(Admitting) <= Quota
      BY DEF WInv
    <2> QED
      BY <2>1, <2>2, <2>3
  <1>2. TypeOK' /\ \A v \in Workers : window'[v] => stage'[v] # "idle"
    BY DEF WInv, TypeOK, Fail
  <1> QED
    BY <1>1, <1>2 DEF WInv

(* The end of the window takes all of them away.                           *)
LEMMA ExpiryWindow == ASSUME WInv, KeyExpires PROVE WInv'
  <1>1. Admitting' = {} /\ Quota' = 0
    BY LimitAssumption DEF KeyExpires, Admitting, Quota
  <1>2. IsFiniteSet(Admitting') /\ Cardinality(Admitting') = 0
    BY <1>1, FS_EmptySet
  <1>3. TypeOK' /\ \A v \in Workers : window'[v] => stage'[v] # "idle"
    <2> USE DEF WInv, TypeOK, KeyExpires
    <2>1. counter' \in 0..MaxCount /\ admitted' \in 0..MaxCount
      BY LimitAssumption
    <2> QED
      BY <2>1
  <1>4. admitted' = 0
    BY DEF KeyExpires
  <1> QED
    BY <1>1, <1>2, <1>3, <1>4 DEF WInv

LEMMA WindowNext == WInv /\ [Next]_vars => WInv'
  <1> SUFFICES ASSUME WInv, [Next]_vars PROVE WInv'
    OBVIOUS
  <1>1. ASSUME NEW w \in Workers, Expire(w) \/ TTL(w) PROVE WInv'
    <2>1. Admitting' = Admitting /\ Quota' = Quota /\ admitted' = admitted
      BY <1>1 DEF Expire, TTL, Admitting, Quota
    <2>2. CASE Expire(w)
      <3>1. expires' \in BOOLEAN
        BY <2>2 DEF Expire
      <3> QED
        BY <2>1, <2>2, <3>1 DEF WInv, TypeOK, Expire
    <2>3. CASE TTL(w)
      BY <2>1, <2>3 DEF WInv, TypeOK, TTL
    <2> QED
      BY <1>1, <2>2, <2>3
  <1>2. CASE UNCHANGED vars
    BY <1>2 DEF WInv, TypeOK, Admitting, Quota, vars
  <1> QED
    BY <1>1, <1>2, IncrWindow, DecideWindow, FailWindow, ExpiryWindow DEF Next, Allow

(* WInv holds from the start: nobody has been counted.                     *)
THEOREM WindowInvariance == Spec => []WInv
  <1>1. Init => WInv
    <2> SUFFICES ASSUME Init PROVE WInv
      OBVIOUS
    <2>1. Admitting = {} /\ Quota = 0
      BY LimitAssumption DEF Init, Admitting, Quota
    <2>2. IsFiniteSet(Admitting) /\ Cardinality(Admitting) = 0
      BY <2>1, FS_EmptySet
    <2>3. TypeOK /\ \A w \in Workers : window[w] => stage[w] # "idle"
      <3>1. counter \in 0..MaxCount /\ admitted \in 0..MaxCount /\ 0 \in 0..MaxCount
        BY LimitAssumption DEF Init
      <3> QED
        BY <3>1 DEF Init, TypeOK
    <2>4. admitted = 0
      BY DEF Init
    <2> QED
      BY <2>1, <2>2, <2>3, <2>4 DEF WInv
  <1> QED
    BY <1>1, WindowNext, PTL DEF Spec

(* However many requests are counted at once, wherever commands fail and   *)
(* wherever the window ends between INCR and the answer, no window lets    *)
(* more than Limit requests through (limiter.go:29, 55).                   *)
THEOREM WindowsAdmitTheLimit == Spec => []AtMostLimitPerWindow
  <1>1. WInv => AtMostLimitPerWindow
    BY FS_CardinalityType, LimitAssumption
       DEF WInv, TypeOK, Quota, AtMostLimitPerWindow
  <1> QED
    BY <1>1, WindowInvariance, PTL

(* The values the variables range over (limiter.go:26-59).                 *)
THEOREM TypeCorrect == Spec => []TypeOK
  <1>1. WInv => TypeOK
    BY DEF WInv
  <1> QED
    BY <1>1, WindowInvariance, PTL
=============================================================================
