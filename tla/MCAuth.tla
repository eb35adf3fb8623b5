------------------------------- MODULE MCAuth -------------------------------
(* Small instances of AuthProperties for TLC. *)
EXTENDS AuthProperties, TLC

CONSTANTS e1, e2, a1, a2

\* Requests differ only in name, so their permutations are symmetries; the
\* runs that check liveness do not use them.
Symmetry == Permutations(Reqs)

Profile(a, e, photo) == [acct |-> a, email |-> e, photo |-> photo]

NoProfiles == {}

\* One account whose e-mail is shown.
OneAccount == {Profile(a1, e1, FALSE)}

\* The e-mail of an account changes between two logins, and is hidden in a third;
\* another account has the e-mail it had.
MovingEmail ==
    {Profile(a1, e1, TRUE), Profile(a1, e2, FALSE), Profile(a1, None, FALSE),
     Profile(a2, e1, FALSE)}
=============================================================================
