-------------------------- MODULE OneTimeCredential --------------------------
(***************************************************************************)
(* What the refresh tokens and the login codes promise, whatever table     *)
(* they live in: a credential is issued once, dies once and never lives    *)
(* again.  Whoever presents it is admitted only while it lives and served  *)
(* only once it is dead, so no one who comes after a holder was served is  *)
(* admitted.  The promise is weaker than "used once": holders admitted     *)
(* together are all served.                                                *)
(***************************************************************************)
CONSTANTS Creds, Holders

VARIABLES state, admitted, granted

States == {"unissued", "live", "dead"}

CredTypeOK ==
    /\ state \in [Creds -> States]
    /\ admitted \in [Creds -> SUBSET Holders]
    /\ granted \in [Creds -> SUBSET Holders]

CredInit ==
    /\ state = [c \in Creds |-> "unissued"]
    /\ admitted = [c \in Creds |-> {}]
    /\ granted = [c \in Creds |-> {}]

Issue(c) ==
    /\ state[c] = "unissued"
    /\ state' = [state EXCEPT ![c] = "live"]
    /\ UNCHANGED <<admitted, granted>>

Admit(c, h) ==
    /\ state[c] = "live"
    /\ h \notin admitted[c]
    /\ admitted' = [admitted EXCEPT ![c] = @ \cup {h}]
    /\ UNCHANGED <<state, granted>>

\* By use, by logout, by time; or many at once, with the user they belong to.
Die(S) ==
    /\ \A c \in S : state[c] = "live"
    /\ state' = [c \in Creds |-> IF c \in S THEN "dead" ELSE state[c]]
    /\ UNCHANGED <<admitted, granted>>

Grant(c, h) ==
    /\ state[c] = "dead"
    /\ h \in admitted[c] \ granted[c]
    /\ granted' = [granted EXCEPT ![c] = @ \cup {h}]
    /\ UNCHANGED <<state, admitted>>

CredNext ==
    \/ \E c \in Creds : Issue(c)
    \/ \E c \in Creds, h \in Holders : Admit(c, h) \/ Grant(c, h)
    \/ \E S \in SUBSET Creds : Die(S)

credVars == <<state, admitted, granted>>

CredSpec == CredInit /\ [][CredNext]_credVars
=============================================================================
