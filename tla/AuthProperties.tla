--------------------------- MODULE AuthProperties ---------------------------
(***************************************************************************)
(* What the authentication core promises, and what its documentation       *)
(* promises beyond that.                                                   *)
(***************************************************************************)
EXTENDS AuthService

Did(r, kind) == req[r].kind = kind

Served(r, kind, t) ==
    Did(r, kind) /\ req[r].cred = t /\ Answered(r, "tokens")

\* The refreshes served with token t, and the exchanges served with code c.
RefreshedBy(t) == {r \in Reqs : Served(r, "refresh", t)}
ExchangedBy(c) == {r \in Reqs : Served(r, "exchange", c)}

TokenState(t) ==
    IF refreshTokens[t].status = "free" THEN "unissued"
    ELSE IF TokenActive(t) THEN "live" ELSE "dead"

CodeState(c) ==
    IF loginCodes[c].status = "free" THEN "unissued"
    ELSE IF CodeActive(c) THEN "live" ELSE "dead"

\* The requests of a kind that found credential c active and its owner.
AdmittedWith(kind, c) ==
    {r \in Reqs : Did(r, kind) /\ req[r].cred = c /\ req[r].usr # None}

-----------------------------------------------------------------------------
(* One-time credentials *)

(* A refresh or an exchange whose token or code was already revoked,        *)
(* consumed, expired or deleted when it arrived never obtains a pair, and   *)
(* neither the rotation nor the logout of others, nor the clock, brings the *)
(* credential back to life meanwhile (auth.service.ts 75-105, 172-193).     *)
SpentNeverGranted ==
    \A r \in Reqs : req[r].stale =>
        /\ ~Answered(r, "tokens")
        /\ ~(Did(r, "refresh") /\ TokenActive(req[r].cred))
        /\ ~(Did(r, "exchange") /\ CodeActive(req[r].cred))

(* One credential serves at most as many requests as run at the same time:  *)
(* the race between the find and the revocation is the only way to be       *)
(* served twice.                                                            *)
GrantsBounded ==
    \A c \in Reqs : /\ Cardinality(RefreshedBy(c)) <= MaxInFlight
                    /\ Cardinality(ExchangedBy(c)) <= MaxInFlight

(* A rotated or exchanged session exists only once the credential it was    *)
(* obtained with can no longer be used: refresh revokes and exchange        *)
(* consumes before createRefreshToken, so a failure between the two can     *)
(* lose a session but never leave two.                                      *)
SpentBeforeReplaced ==
    \A r \in Reqs : TokenStored(r) =>
        /\ Did(r, "refresh") => ~TokenActive(req[r].cred)
        /\ Did(r, "exchange") => ~CodeActive(req[r].cred)

(* Every stored session belongs to whom its request authenticated: the      *)
(* account just registered, the account with the e-mail and a password, the *)
(* owner of the token it rotated, or the user of the callback whose code it *)
(* exchanged.                                                               *)
SessionOwner ==
    \A r \in Reqs : TokenStored(r) =>
        LET owner == refreshTokens[r].user
        IN  /\ owner = req[r].usr
            /\ Did(r, "register") => owner = r
            /\ Did(r, "login") => /\ users[owner].email = req[r].email
                                  /\ users[owner].password
            /\ req[r].kind \in {"refresh", "exchange"} => req[r].cred # None
            /\ Did(r, "refresh") => owner = refreshTokens[req[r].cred].user
            /\ Did(r, "exchange") => owner = req[req[r].cred].usr

(* Logout sticks: once it is answered, its token is dead for good, also for *)
(* the rotations that were under way.                                       *)
LogoutSticks ==
    \A r \in Reqs : Answered(r, "loggedOut") /\ req[r].cred # None =>
        ~TokenActive(req[r].cred)

(* No session is revoked and no code consumed but by a request that         *)
(* presented it: the UPDATEs hit the one row of the hash, and not the other *)
(* sessions of the user.                                                    *)
NoUnaskedRevocation ==
    \A c \in Reqs :
        /\ refreshTokens[c].revoked =>
              \E r \in Reqs : /\ req[r].kind \in {"refresh", "logout"}
                              /\ req[r].cred = c
        /\ loginCodes[c].consumed =>
              \E r \in Reqs : Did(r, "exchange") /\ req[r].cred = c

(* A pair that reached a client is backed by a row until the user is        *)
(* deleted: no client holds a refresh token the database has never seen.    *)
GrantedIsStored ==
    \A t \in Issued : TokenStored(t) \/ users[req[t].usr].status = "gone"

(* The link from a rotated token to its replacement survives later          *)
(* revocations of the same token, by logout or a lost race.                 *)
LinkSurvives ==
    [][\A t \in Reqs : refreshTokens[t].replacedBy # None
                         => refreshTokens'[t].replacedBy # None]_vars

-----------------------------------------------------------------------------
(* The inductive invariant behind the one-time credentials. *)

\* A request mints its token and its code in one place.
RowsAreFresh(r) ==
    /\ req[r].ans # None => req[r].pc = "done"
    /\ refreshTokens[r].status # "free" =>
          req[r].pc \in {"loadRefreshToken", "done"}
    /\ loginCodes[r].status # "free" =>
          req[r].pc \in {"loadLoginCode", "done"}

\* What was sent to a client has had a row; rows have owners.
SentIsStored(r) ==
    /\ Answered(r, "tokens") => refreshTokens[r].status # "free"
    /\ Answered(r, "redirect") => loginCodes[r].status # "free"
    /\ refreshTokens[r].status # "free" => refreshTokens[r].user # None
    /\ loginCodes[r].status # "free" => loginCodes[r].user # None

\* How far a refresh has come says what it knows of its token.
RefreshProgress(r) ==
    LET t == req[r].cred
    IN  Did(r, "refresh") =>
          /\ t # None => refreshTokens[t].status # "free"
          /\ req[r].stale => t # None /\ ~TokenActive(t) /\ req[r].usr = None
          /\ req[r].usr # None => t # None
          /\ req[r].pc = "findRefreshToken" => t # None /\ req[r].usr = None
          /\ req[r].pc \in {"findUserById", "revokeRefreshToken"} =>
                req[r].usr # None
          /\ \/ req[r].pc \in {"createRefreshToken", "loadRefreshToken"}
             \/ TokenStored(r)
             \/ Answered(r, "tokens")
             => req[r].usr # None /\ ~TokenActive(t)

\* And an exchange of its code.
ExchangeProgress(r) ==
    LET c == req[r].cred
    IN  Did(r, "exchange") =>
          /\ c # None => loginCodes[c].status # "free"
          /\ req[r].stale => c # None /\ ~CodeActive(c) /\ req[r].usr = None
          /\ req[r].usr # None => c # None
          /\ req[r].pc = "findLoginCode" => req[r].usr = None
          /\ req[r].pc \in {"findUserById", "consumeLoginCode"} =>
                req[r].usr # None
          /\ \/ req[r].pc \in {"createRefreshToken", "loadRefreshToken"}
             \/ TokenStored(r)
             \/ Answered(r, "tokens")
             => req[r].usr # None /\ ~CodeActive(c)

StaleIsCredential(r) == req[r].stale => req[r].kind \in {"refresh", "exchange"}

RequestInv(r) ==
    /\ RowsAreFresh(r) /\ SentIsStored(r)
    /\ RefreshProgress(r) /\ ExchangeProgress(r) /\ StaleIsCredential(r)

(* Every credential and every request that presents one are in step: a row  *)
(* is inserted once, only by its request; a token or code is presented only *)
(* after it was stored; and a handler past its revocation or consumption    *)
(* holds a dead credential (auth.service.ts 75-105, 161-215).               *)
CredentialInv == \A r \in Reqs : RequestInv(r)

-----------------------------------------------------------------------------
(* Refinement: both tables are one-time credentials. *)

Tokens == INSTANCE OneTimeCredential WITH
    Creds <- Reqs, Holders <- Reqs,
    state <- [t \in Reqs |-> TokenState(t)],
    admitted <- [t \in Reqs |-> AdmittedWith("refresh", t)],
    granted <- [t \in Reqs |-> RefreshedBy(t)]

Codes == INSTANCE OneTimeCredential WITH
    Creds <- Reqs, Holders <- Reqs,
    state <- [c \in Reqs |-> CodeState(c)],
    admitted <- [c \in Reqs |-> AdmittedWith("exchange", c)],
    granted <- [c \in Reqs |-> ExchangedBy(c)]

\* Refresh tokens implement the one-time credential (auth.service.ts 75-110).
TokensAreOneTime == Tokens!CredSpec

\* Login codes implement it too (auth.service.ts 161-193).
CodesAreOneTime == Codes!CredSpec

-----------------------------------------------------------------------------
(* Accounts *)

(* A Google account is linked to a verified user who has one of the e-mails *)
(* Google gave for that account, whichever callbacks raced.                 *)
LinkedToOwner ==
    \A a \in Accounts : authAccounts[a].row # None =>
        LET u == authAccounts[a].user
        IN  /\ UserStored(u)
            /\ users[u].verified
            /\ \E p \in Profiles : p.acct = a /\ p.email = users[u].email

\* Google gives the account always the same e-mail.
EmailIsFixed(a) ==
    \A p, q \in Profiles : p.acct = a /\ q.acct = a => p.email = q.email

(* While a Google account keeps its e-mail it never moves to another user:  *)
(* upsertAuthAccount writes user_id each time, and each time the same one   *)
(* (auth.repository.ts 185-199).                                            *)
NoRelink ==
    [][\A a \in Accounts :
          EmailIsFixed(a) /\ authAccounts[a].row # None
          /\ authAccounts'[a].row # None
            => authAccounts'[a].user = authAccounts[a].user]_vars

-----------------------------------------------------------------------------
(* Progress *)

(* Every request is answered: no handler waits for another, and a failed    *)
(* statement ends it with an answer.                                        *)
EveryRequestAnswered ==
    \A r \in Reqs : r \in InFlight ~> req[r].pc = "done"

(* While no statement fails and no server dies, a rotation that revoked the *)
(* old token stores and answers the new one, whoever else rotates or logs   *)
(* out the same token, unless the user is deleted meanwhile.                *)
RotationCompletes ==
    \A r \in Reqs :
        At(r, "refresh", "createRefreshToken") ~>
            \/ r \in Issued /\ TokenStored(r)
            \/ ~UserStored(req[r].usr)

-----------------------------------------------------------------------------
(* What the documentation says; true while requests come one at a time only. *)

(* "Login code is single-use" (client-02-google-oauth.md).                  *)
SingleUseCode == \A c \in Reqs : Cardinality(ExchangedBy(c)) <= 1

(* "Duplicate email registration returns EMAIL_ALREADY_REGISTERED"          *)
(* (client-01-auth), and not the error of the database.                     *)
DuplicateAnswered409 ==
    \A r \in Reqs : Did(r, "register") /\ req[r].pc = "done" =>
        req[r].ans \in {"tokens", "EMAIL_ALREADY_REGISTERED"}
=============================================================================
