----------------------------- MODULE TokenClock -----------------------------
(***************************************************************************)
(* When the tokens of createTokenPair expire (auth.service.ts).  The life  *)
(* of a refresh token is told twice: exp of the JWT counts whole seconds   *)
(* from the second it was signed in, and expires_at of its row is a MySQL  *)
(* TIMESTAMP, rounded to a second, of a Date taken before the signing.     *)
(* Both are compared with the clock of the server that is asked, which     *)
(* need not be the one that signed.  Time is in ticks, milliseconds in the *)
(* code, by the clock of the server that signs.                            *)
(* An operator whose name has an underscore is a bug the code has not.     *)
(***************************************************************************)
EXTENDS Integers

CONSTANTS
    Second,      \* ticks of a second
    AccessTtl, RefreshTtl,  \* in seconds
    MaxDelay,    \* ticks between Date.now and jwt.sign
    MaxSkew,     \* ticks the clock of another server may be off
    MaxTime      \* bounds a run

ASSUME ClockAssumption ==
    /\ Second \in Nat \ {0}
    /\ AccessTtl \in Nat \ {0}
    /\ RefreshTtl \in Nat \ {0}
    /\ MaxDelay \in Nat
    /\ MaxSkew \in Nat
    /\ MaxTime \in Nat

VARIABLES
    now,     \* the time
    skew,    \* how far the asked server's clock is ahead
    pair,    \* "none", "begun" or "signed"
    begun,   \* when Date.now was called
    signed,  \* when the tokens were signed
    accessExp, refreshExp,  \* exp of the two tokens, in seconds
    expiresAt               \* expires_at of the row, in seconds

vars == <<now, skew, pair, begun, signed, accessExp, refreshExp, expiresAt>>

TypeOK ==
    /\ now \in Nat /\ begun \in Nat /\ signed \in Nat
    /\ skew \in -MaxSkew..MaxSkew
    /\ pair \in {"none", "begun", "signed"}
    /\ accessExp \in Nat /\ refreshExp \in Nat /\ expiresAt \in Nat

Init ==
    /\ now = 0
    /\ skew \in -MaxSkew..MaxSkew
    /\ pair = "none"
    /\ begun = 0 /\ signed = 0
    /\ accessExp = 0 /\ refreshExp = 0 /\ expiresAt = 0

\* Signing is soon done once it is begun.
Tick ==
    /\ now < MaxTime
    /\ pair = "begun" => now < begun + MaxDelay
    /\ now' = now + 1
    /\ UNCHANGED <<skew, pair, begun, signed, accessExp, refreshExp, expiresAt>>

\* The lifetime is taken for milliseconds.
Rounded_NotScaled(time, ttl) == (2 * (time + ttl) + Second) \div (2 * Second)

\* What a TIMESTAMP makes of a time some seconds after another.
Rounded(time, ttl) == (2 * (time + ttl * Second) + Second) \div (2 * Second)

Begin ==
    /\ pair = "none"
    /\ pair' = "begun"
    /\ begun' = now
    /\ expiresAt' = Rounded(now, RefreshTtl)
    /\ UNCHANGED <<now, skew, signed, accessExp, refreshExp>>

\* The access token gets the life of the refresh token.
Sign_OneLife ==
    /\ pair = "begun"
    /\ pair' = "signed"
    /\ signed' = now
    /\ accessExp' = now \div Second + RefreshTtl
    /\ refreshExp' = now \div Second + RefreshTtl
    /\ UNCHANGED <<now, skew, begun, expiresAt>>

Sign ==
    /\ pair = "begun"
    /\ pair' = "signed"
    /\ signed' = now
    /\ accessExp' = now \div Second + AccessTtl
    /\ refreshExp' = now \div Second + RefreshTtl
    /\ UNCHANGED <<now, skew, begun, expiresAt>>

Next == Tick \/ Begin \/ Sign

Spec == Init /\ [][Next]_vars

-----------------------------------------------------------------------------
Asked == now + skew

\* jwt.verify accepts a token to the end of its last second.
Verified_Inclusive(exp) == Asked \div Second <= exp

\* verifyAccessToken, verifyRefreshToken.
Verified(exp) == Asked \div Second < exp

\* findActiveRefreshTokenByHash.
Active == expiresAt * Second > Asked

Signed == pair = "signed"

(* A client has what he was promised, up to the second in which exp counts:  *)
(* expiresIn of the access token, and refreshTtlDays of the session, however *)
(* the two records of it are rounded.                                        *)
LivesItsTime ==
    Signed =>
        /\ Asked <= signed + (AccessTtl - 1) * Second => Verified(accessExp)
        /\ Asked <= begun + (RefreshTtl - 1) * Second =>
             Verified(refreshExp) /\ Active

(* And no more: no token is taken once its life is over by the clock that is *)
(* asked, so later by the skew of the clocks and no rounding adds to it.     *)
DiesInTime ==
    Signed =>
        /\ Asked >= signed + AccessTtl * Second => ~Verified(accessExp)
        /\ Asked >= signed + RefreshTtl * Second => ~Verified(refreshExp)

(* The two records of a session agree but in the last second and, by the     *)
(* time the signing took and the rounding, shortly after: a row outlives its *)
(* token by a second and a half at most, and a token its row by half a       *)
(* second and the delay.                                                     *)
RecordsAgree ==
    Signed =>
        /\ Active /\ ~Verified(refreshExp) =>
             /\ 2 * Asked <= 2 * (begun + RefreshTtl * Second) + Second
             /\ Asked > begun + (RefreshTtl - 1) * Second
        /\ Verified(refreshExp) /\ ~Active =>
             /\ Asked < signed + RefreshTtl * Second
             /\ 2 * Asked >= 2 * (begun + RefreshTtl * Second) - Second
=============================================================================
