-------------------------- MODULE TokenClockProofs --------------------------
(***************************************************************************)
(* Theorems about TokenClock, for seconds of any number of ticks, and any  *)
(* lifetimes, delay and skew.                                              *)
(***************************************************************************)
EXTENDS TokenClock, TLAPS

\* What rounding down means.
LEMMA Quotient ==
    ASSUME NEW a \in Int, NEW s \in Nat \ {0}
    PROVE  /\ a \div s \in Int
           /\ (a \div s) * s <= a
           /\ a < (a \div s) * s + s
BY Z3

LEMMA AtLeast ==
    ASSUME NEW a \in Int, NEW s \in Nat \ {0}, NEW n \in Int
    PROVE  n <= a \div s <=> n * s <= a
BY Quotient, Z3

-----------------------------------------------------------------------------
(* The inductive invariant: what the records are, and when they were made. *)

Begun ==
    pair = "begun" =>
        /\ begun <= now
        /\ expiresAt = Rounded(begun, RefreshTtl)

Recorded ==
    Signed =>
        /\ begun <= signed
        /\ accessExp = signed \div Second + AccessTtl
        /\ refreshExp = signed \div Second + RefreshTtl
        /\ expiresAt = Rounded(begun, RefreshTtl)

ClockInv == TypeOK /\ Begun /\ Recorded

LEMMA RoundedBounds ==
    ASSUME NEW time \in Nat, NEW ttl \in Nat
    PROVE  /\ Rounded(time, ttl) \in Nat
           /\ 2 * (Rounded(time, ttl) * Second) <= 2 * (time + ttl * Second) + Second
           /\ 2 * (Rounded(time, ttl) * Second) > 2 * (time + ttl * Second) - Second
<1> DEFINE a == 2 * (time + ttl * Second) + Second
           s == 2 * Second
<1>1. s \in Nat \ {0} /\ a \in Nat
  BY ClockAssumption
<1>2. /\ Rounded(time, ttl) \in Int
      /\ Rounded(time, ttl) * s <= a
      /\ a < Rounded(time, ttl) * s + s
  <2> HIDE DEF a, s
  <2>1. a \div s \in Int /\ (a \div s) * s <= a /\ a < (a \div s) * s + s
    BY <1>1, Quotient
  <2> QED
    BY <2>1 DEF Rounded, a, s
<1>3. 0 <= a \div s
  <2> HIDE DEF a, s
  <2> QED
    BY <1>1, AtLeast
<1> QED
  BY <1>1, <1>2, <1>3, ClockAssumption DEF Rounded

LEMMA InitInv == Init => ClockInv
BY ClockAssumption DEF Init, ClockInv, TypeOK, Begun, Recorded, Signed

LEMMA NextKeeps == ClockInv /\ [Next]_vars => ClockInv'
<1> SUFFICES ASSUME ClockInv, [Next]_vars PROVE ClockInv'
  OBVIOUS
<1> USE DEF ClockInv
<1>1. CASE Tick
  BY <1>1 DEF Tick, TypeOK, Begun, Recorded, Signed, Rounded
<1>2. CASE Begin
  <2>1. Rounded(now, RefreshTtl) \in Nat
    BY RoundedBounds, ClockAssumption DEF TypeOK
  <2> QED
    BY <1>2, <2>1 DEF Begin, TypeOK, Begun, Recorded, Signed, Rounded
<1>3. CASE Sign
  <2>1. now \div Second \in Nat
    BY AtLeast, Quotient, ClockAssumption DEF TypeOK
  <2>2. accessExp' \in Nat /\ refreshExp' \in Nat
    BY <1>3, <2>1, ClockAssumption DEF Sign
  <2> QED
    BY <1>3, <2>2 DEF Sign, TypeOK, Begun, Recorded, Signed, Rounded
<1>4. CASE UNCHANGED vars
  BY <1>4 DEF vars, TypeOK, Begun, Recorded, Signed, Rounded
<1> QED
  BY <1>1, <1>2, <1>3, <1>4 DEF Next

LEMMA ClockInvariant == Spec => []ClockInv
BY InitInv, NextKeeps, PTL DEF Spec

-----------------------------------------------------------------------------
(* What the records of a signed pair mean, in ticks. *)

LEMMA RecordsInTicks ==
    ASSUME ClockInv, Signed
    PROVE  /\ Asked \in Int /\ begun \in Nat /\ signed \in Nat /\ begun <= signed
           /\ Verified(accessExp) => Asked < signed + AccessTtl * Second
           /\ ~Verified(accessExp) => Asked > signed + AccessTtl * Second - Second
           /\ Verified(refreshExp) => Asked < signed + RefreshTtl * Second
           /\ ~Verified(refreshExp) => Asked > signed + RefreshTtl * Second - Second
           /\ Active => 2 * Asked < 2 * (begun + RefreshTtl * Second) + Second
           /\ ~Active => 2 * Asked > 2 * (begun + RefreshTtl * Second) - Second
<1>1. /\ Asked \in Int /\ begun \in Nat /\ signed \in Nat /\ begun <= signed
      /\ expiresAt \in Nat
  BY ClockAssumption DEF ClockInv, TypeOK, Recorded, Asked
<1> DEFINE q == signed \div Second
<1>2. q \in Int /\ q * Second <= signed /\ signed < q * Second + Second
  BY <1>1, Quotient, ClockAssumption
<1> HIDE DEF q
<1>3. ASSUME NEW ttl \in Nat
      PROVE  /\ Verified(q + ttl) => Asked < signed + ttl * Second
             /\ ~Verified(q + ttl) => Asked > signed + ttl * Second - Second
  <2>1. q + ttl <= Asked \div Second <=> (q + ttl) * Second <= Asked
    BY <1>1, <1>2, AtLeast, ClockAssumption
  <2>2. (q + ttl) * Second = q * Second + ttl * Second
    BY <1>2, ClockAssumption
  <2>3. Verified(q + ttl) <=> ~(q + ttl <= Asked \div Second)
    BY <1>1, <1>2, Quotient, ClockAssumption DEF Verified
  <2>4. ttl * Second \in Int /\ q * Second \in Int /\ Second \in Int
    BY <1>2, ClockAssumption
  <2> QED
    BY <1>1, <1>2, <2>1, <2>2, <2>3, <2>4
<1>4. accessExp = q + AccessTtl /\ refreshExp = q + RefreshTtl
  BY DEF ClockInv, Recorded, q
<1>5. expiresAt = Rounded(begun, RefreshTtl)
  BY DEF ClockInv, Recorded
<1>6. /\ 2 * (expiresAt * Second) <= 2 * (begun + RefreshTtl * Second) + Second
      /\ 2 * (expiresAt * Second) > 2 * (begun + RefreshTtl * Second) - Second
  BY <1>1, <1>5, RoundedBounds, ClockAssumption
<1>7. expiresAt * Second \in Int /\ RefreshTtl * Second \in Int /\ Second \in Int
  BY <1>1, ClockAssumption
<1>8. /\ Active => 2 * Asked < 2 * (begun + RefreshTtl * Second) + Second
      /\ ~Active => 2 * Asked > 2 * (begun + RefreshTtl * Second) - Second
  BY <1>1, <1>6, <1>7 DEF Active
<1> QED
  BY <1>1, <1>3, <1>4, <1>8, ClockAssumption

(* The clock and the records keep their types.                               *)
THEOREM TypeCorrect == Spec => []TypeOK
<1>1. ClockInv => TypeOK
  BY DEF ClockInv
<1> QED
  BY <1>1, ClockInvariant, PTL

(* No rounding takes more than the last second from the life of a token.     *)
THEOREM TokensLive == Spec => []LivesItsTime
<1>1. ClockInv => LivesItsTime
  <2> SUFFICES ASSUME ClockInv, Signed
               PROVE  /\ Asked <= signed + (AccessTtl - 1) * Second => Verified(accessExp)
                      /\ Asked <= begun + (RefreshTtl - 1) * Second =>
                           Verified(refreshExp) /\ Active
    BY DEF LivesItsTime
  <2>1. /\ (AccessTtl - 1) * Second = AccessTtl * Second - Second
        /\ (RefreshTtl - 1) * Second = RefreshTtl * Second - Second
        /\ AccessTtl * Second \in Int /\ RefreshTtl * Second \in Int
        /\ Second \in Int /\ Second > 0
    BY ClockAssumption
  <2> QED
    BY <2>1, RecordsInTicks
<1> QED
  BY <1>1, ClockInvariant, PTL

(* None is taken after its life.                                             *)
THEOREM TokensDie == Spec => []DiesInTime
<1>1. ClockInv => DiesInTime
  <2>1. AccessTtl * Second \in Int /\ RefreshTtl * Second \in Int
    BY ClockAssumption
  <2> QED
    BY <2>1, RecordsInTicks DEF DiesInTime
<1> QED
  BY <1>1, ClockInvariant, PTL

(* The JWT and the row of a session agree but at the very end.               *)
THEOREM RecordsOfASessionAgree == Spec => []RecordsAgree
<1>1. ClockInv => RecordsAgree
  <2> SUFFICES ASSUME ClockInv, Signed
               PROVE  /\ Active /\ ~Verified(refreshExp) =>
                           /\ 2 * Asked <= 2 * (begun + RefreshTtl * Second) + Second
                           /\ Asked > begun + (RefreshTtl - 1) * Second
                      /\ Verified(refreshExp) /\ ~Active =>
                           /\ Asked < signed + RefreshTtl * Second
                           /\ 2 * Asked >= 2 * (begun + RefreshTtl * Second) - Second
    BY DEF RecordsAgree
  <2>1. /\ (RefreshTtl - 1) * Second = RefreshTtl * Second - Second
        /\ RefreshTtl * Second \in Int /\ Second \in Int
    BY ClockAssumption
  <2> QED
    BY <2>1, RecordsInTicks
<1> QED
  BY <1>1, ClockInvariant, PTL
=============================================================================
