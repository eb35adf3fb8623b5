----------------------------- MODULE AuthService -----------------------------
(***************************************************************************)
(* The handlers of src/modules/auth/auth.routes.ts over AuthService and    *)
(* DrizzleAuthRepository.  A handler runs without interruption from one    *)
(* awaited statement to the next, so an action is one statement of         *)
(* AuthStore with the JavaScript that consumes its result; pc names the    *)
(* statement a request awaits.  Any number of handlers, of any number of   *)
(* server processes, interleave between their statements.                  *)
(*                                                                         *)
(* A request is used once.  What it did stays in req, so that the          *)
(* properties can speak of the past: who was granted what, and for which   *)
(* credential.                                                             *)
(***************************************************************************)
EXTENDS AuthStore, Integers

CONSTANTS
    Kinds,          \* the handlers clients call
    Profiles,       \* what Google says of an account: [acct, email, photo]
    MaxInFlight,    \* handlers running at one time
    Faults          \* what else may happen: see Environment

HandlerKinds ==
    {"register", "login", "refresh", "logout", "callback", "exchange", "me"}

FaultKinds == {"db", "crash", "delete", "tokenExpiry", "codeExpiry"}

ProfileType ==
    [acct : Accounts, email : Emails \cup {None}, photo : BOOLEAN]

ASSUME KindsAreHandlers == Kinds \subseteq HandlerKinds
ASSUME FaultsAreFaults == Faults \subseteq FaultKinds
ASSUME ProfilesAreProfiles == Profiles \subseteq ProfileType
ASSUME MaxInFlightIsNat == MaxInFlight \in Nat

VARIABLE req

vars == <<storeVars, req>>

(***************************************************************************)
(* A request: its handler, what it presents (email and acct, or cred, the  *)
(* refresh token or login code), and the locals of the handler: usr the    *)
(* user it read, row the auth_accounts row it read, avatar the             *)
(* profile.avatarUrl ?? user.avatarUrl it will write.  stale is no local:  *)
(* it records that cred was already dead when the request arrived.         *)
(***************************************************************************)
Statements ==
    {"findUserByEmail", "findUserById", "createUser", "loadUser",
     "findRefreshToken", "revokeRefreshToken", "createRefreshToken",
     "loadRefreshToken", "findAuthAccount", "updateProfile", "loadProfile",
     "findForUpsert", "updateAccount", "insertAccount", "loadAccount",
     "createLoginCode", "loadLoginCode", "findLoginCode", "consumeLoginCode"}

Grants == {"tokens", "redirect", "user", "loggedOut"}

Refusals ==
    {"EMAIL_ALREADY_REGISTERED", "INVALID_CREDENTIALS",
     "INVALID_REFRESH_TOKEN", "INVALID_LOGIN_CODE", "INVALID_ACCESS_TOKEN",
     "OAUTH_ACCOUNT_NOT_FOUND", "GOOGLE_EMAIL_REQUIRED"}

\* The 500 of the error handler, and a connection that died with its server.
Failures == {"INTERNAL", "DROPPED"}

Answers == Grants \cup Refusals \cup Failures

ASSUME NoneIsNoWord == None \notin HandlerKinds \cup Answers

Request ==
    [pc : Statements \cup {"new", "done"}, kind : HandlerKinds \cup {None},
     email : Emails \cup {None}, acct : Accounts \cup {None},
     cred : Ref, usr : Ref, row : Ref, avatar : BOOLEAN, stale : BOOLEAN,
     ans : Answers \cup {None}]

NewRequest ==
    [pc |-> "new", kind |-> None, email |-> None, acct |-> None,
     cred |-> None, usr |-> None, row |-> None, avatar |-> FALSE,
     stale |-> FALSE, ans |-> None]

ReqTypeOK ==
    /\ req \in [Reqs -> Request]
    /\ \A r \in Reqs : req[r].kind = "callback" => req[r].acct # None

(* The tables and the requests have the shapes given above, and every       *)
(* Google login knows its Google account.                                   *)
TypeOK == StoreTypeOK /\ ReqTypeOK

Init ==
    /\ StoreInit
    /\ req = [r \in Reqs |-> NewRequest]

-----------------------------------------------------------------------------
InFlight == {r \in Reqs : req[r].pc \notin {"new", "done"}}

Answered(r, a) == req[r].ans = a

\* The refresh tokens and login codes that reached a client.
Issued == {r \in Reqs : Answered(r, "tokens")}
SentCodes == {r \in Reqs : Answered(r, "redirect")}

At(r, kind, pc) == req[r].kind = kind /\ req[r].pc = pc

Goto(r, pc) == req' = [req EXCEPT ![r].pc = pc]

\* The handler ends: it answers, or throws what the error handler answers.
Reply(r, a) == req' = [req EXCEPT ![r] = [@ EXCEPT !.pc = "done", !.ans = a]]

\* findUserBy... gave user u; the handler goes on to pc.
GotoWithUser(r, u, pc) ==
    req' = [req EXCEPT ![r] = [@ EXCEPT !.usr = u, !.pc = pc]]

\* The same for handleOAuthLogin, which needs the avatar of the user as well.
GotoWithProfile(r, u) ==
    LET avatar == req[r].avatar \/ users[u].avatar
    IN  req' = [req EXCEPT ![r] = [@ EXCEPT !.usr = u, !.avatar = avatar,
                                            !.pc = "updateProfile"]]

\* upsertAuthAccount holds the id of a row.
GotoWithRow(r, row, pc) ==
    req' = [req EXCEPT ![r] = [@ EXCEPT !.row = row, !.pc = pc]]

Skip == UNCHANGED storeVars

-----------------------------------------------------------------------------
(* Arrivals.  What precedes the handler (rate limits, body validation,      *)
(* passport) is over; the body satisfies its schema.                        *)

MayArrive(r, kind) ==
    /\ req[r] = NewRequest
    /\ kind \in Kinds
    /\ Cardinality(InFlight) < MaxInFlight
    /\ Skip

ArriveRegister(r) ==
    /\ MayArrive(r, "register")
    /\ \E e \in Emails :
          req' = [req EXCEPT ![r] = [NewRequest EXCEPT
                    !.kind = "register", !.pc = "findUserByEmail",
                    !.email = e]]

ArriveLogin(r) ==
    /\ MayArrive(r, "login")
    /\ \E e \in Emails :
          req' = [req EXCEPT ![r] = [NewRequest EXCEPT
                    !.kind = "login", !.pc = "findUserByEmail", !.email = e]]

\* verifyRefreshToken comes before the first statement: an expired token, or
\* one this server never signed (None), is refused without the database.
ArriveRefresh(r) ==
    /\ MayArrive(r, "refresh")
    /\ \E t \in Issued \cup {None} :
          LET verified == t # None /\ ~refreshTokens[t].expired
          IN  req' = [req EXCEPT ![r] = [NewRequest EXCEPT
                    !.kind = "refresh", !.cred = t,
                    !.stale = t # None /\ ~TokenActive(t),
                    !.pc = IF verified THEN "findRefreshToken" ELSE "done",
                    !.ans = IF verified THEN None
                                        ELSE "INVALID_REFRESH_TOKEN"]]

\* logout verifies nothing.
ArriveLogout(r) ==
    /\ MayArrive(r, "logout")
    /\ \E t \in Issued \cup {None} :
          req' = [req EXCEPT ![r] = [NewRequest EXCEPT
                    !.kind = "logout", !.cred = t,
                    !.pc = "revokeRefreshToken"]]

\* normalizeGoogleProfile refuses a profile without e-mail.
ArriveCallback(r) ==
    /\ MayArrive(r, "callback")
    /\ \E p \in Profiles :
          req' = [req EXCEPT ![r] = [NewRequest EXCEPT
                    !.kind = "callback", !.acct = p.acct, !.email = p.email,
                    !.avatar = p.photo,
                    !.pc = IF p.email # None THEN "findAuthAccount"
                                             ELSE "done",
                    !.ans = IF p.email # None THEN None
                                              ELSE "GOOGLE_EMAIL_REQUIRED"]]

ArriveExchange(r) ==
    /\ MayArrive(r, "exchange")
    /\ \E c \in SentCodes \cup {None} :
          req' = [req EXCEPT ![r] = [NewRequest EXCEPT
                    !.kind = "exchange", !.cred = c,
                    !.stale = c # None /\ ~CodeActive(c),
                    !.pc = "findLoginCode"]]

\* authenticate: the access token of pair t, which may have expired or be
\* no token of this server at all.  It is never looked up: its sub is used.
ArriveMe(r) ==
    /\ MayArrive(r, "me")
    /\ \/ \E t \in Issued :
             req' = [req EXCEPT ![r] = [NewRequest EXCEPT
                        !.kind = "me", !.cred = t, !.usr = req[t].usr,
                        !.pc = "findUserById"]]
       \/ req' = [req EXCEPT ![r] = [NewRequest EXCEPT
                        !.kind = "me", !.pc = "done",
                        !.ans = "INVALID_ACCESS_TOKEN"]]

Arrive(r) ==
    \/ ArriveRegister(r) \/ ArriveLogin(r) \/ ArriveRefresh(r)
    \/ ArriveLogout(r) \/ ArriveCallback(r) \/ ArriveExchange(r) \/ ArriveMe(r)

-----------------------------------------------------------------------------
(* Users *)

\* A taken e-mail is waited for.
RegisterFindUser_Waits(r) ==
    /\ At(r, "register", "findUserByEmail")
    /\ Skip
    /\ Goto(r, IF UsersByEmail(req[r].email) = {} THEN "createUser"
                                                  ELSE "findUserByEmail")

RegisterFindUser(r) ==
    /\ At(r, "register", "findUserByEmail")
    /\ Skip
    /\ \/ /\ UsersByEmail(req[r].email) # {}
          /\ Reply(r, "EMAIL_ALREADY_REGISTERED")
       \/ /\ UsersByEmail(req[r].email) = {}
          /\ Goto(r, "createUser")

\* !user.passwordHash is not tested.
LoginFindUser_NoPassword(r) ==
    /\ At(r, "login", "findUserByEmail")
    /\ Skip
    /\ \/ \E u \in UsersByEmail(req[r].email) :
             GotoWithUser(r, u, "createRefreshToken")
       \/ Reply(r, "INVALID_CREDENTIALS")

\* argon2.verify, on the row just read, may say yes or no.
LoginFindUser(r) ==
    /\ At(r, "login", "findUserByEmail")
    /\ Skip
    /\ \/ \E u \in UsersByEmail(req[r].email) :
             /\ users[u].password
             /\ GotoWithUser(r, u, "createRefreshToken")
       \/ Reply(r, "INVALID_CREDENTIALS")

\* createUser, the INSERT.  A duplicate key is the driver's error, which the
\* error handler does not know.
CreateUser(r) ==
    LET password == req[r].kind = "register"
    IN  /\ req[r].pc = "createUser"
        /\ \/ /\ InsertUser(r, req[r].email, password, ~password,
                            req[r].avatar)
              /\ Goto(r, "loadUser")
           \/ /\ UsersByEmail(req[r].email) # {}
              /\ Reply(r, "INTERNAL")
              /\ Skip

\* The e-mail is taken for the id.
LoadUser_ByEmail(r) ==
    /\ req[r].pc = "loadUser"
    /\ Skip
    /\ UserStored(r)
    /\ GotoWithUser(r, users[r].email, "createRefreshToken")

\* createUser, the SELECT.
LoadUser(r) ==
    /\ req[r].pc = "loadUser"
    /\ Skip
    /\ \/ /\ UserStored(r)
          /\ req[r].kind = "register"
          /\ GotoWithUser(r, r, "createRefreshToken")
       \/ /\ UserStored(r)
          /\ req[r].kind = "callback"
          /\ GotoWithProfile(r, r)
       \/ ~UserStored(r) /\ Reply(r, "INTERNAL")

-----------------------------------------------------------------------------
(* Refresh tokens *)

\* Without isNull(revokedAt).
RefreshFindToken_Revoked(r) ==
    LET t == req[r].cred
    IN  /\ At(r, "refresh", "findRefreshToken")
        /\ Skip
        /\ \/ /\ TokenStored(t) /\ ~refreshTokens[t].expired
              /\ GotoWithUser(r, refreshTokens[t].user, "findUserById")
           \/ ~TokenStored(t) /\ Reply(r, "INVALID_REFRESH_TOKEN")

\* Without gt(expiresAt, now), verifyRefreshToken having looked at exp.
RefreshFindToken_Expired(r) ==
    LET t == req[r].cred
    IN  /\ At(r, "refresh", "findRefreshToken")
        /\ Skip
        /\ \/ /\ TokenStored(t) /\ ~refreshTokens[t].revoked
              /\ GotoWithUser(r, refreshTokens[t].user, "findUserById")
           \/ ~TokenStored(t) /\ Reply(r, "INVALID_REFRESH_TOKEN")

RefreshFindToken(r) ==
    LET t == req[r].cred
    IN  /\ At(r, "refresh", "findRefreshToken")
        /\ Skip
        /\ \/ /\ TokenActive(t)
              /\ refreshTokens[t].user = req[t].usr
              /\ GotoWithUser(r, refreshTokens[t].user, "findUserById")
           \/ /\ ~(TokenActive(t) /\ refreshTokens[t].user = req[t].usr)
              /\ Reply(r, "INVALID_REFRESH_TOKEN")

\* The replacement is created before the old token is revoked.
RefreshFindUser_CreateFirst(r) ==
    /\ At(r, "refresh", "findUserById")
    /\ Skip
    /\ \/ UserStored(req[r].usr) /\ Goto(r, "createRefreshToken")
       \/ ~UserStored(req[r].usr) /\ Reply(r, "INVALID_REFRESH_TOKEN")

RefreshFindUser(r) ==
    /\ At(r, "refresh", "findUserById")
    /\ Skip
    /\ \/ UserStored(req[r].usr) /\ Goto(r, "revokeRefreshToken")
       \/ ~UserStored(req[r].usr) /\ Reply(r, "INVALID_REFRESH_TOKEN")

\* The replacement is named after this request; it is not stored yet.
RefreshRevoke(r) ==
    /\ At(r, "refresh", "revokeRefreshToken")
    /\ RevokeRefreshToken(req[r].cred, r)
    /\ Goto(r, "createRefreshToken")

\* The token is looked up by another hash than the one stored.
LogoutRevoke_WrongHash(r) ==
    /\ At(r, "logout", "revokeRefreshToken")
    /\ RevokeRefreshToken(None, None)
    /\ Reply(r, "loggedOut")

LogoutRevoke(r) ==
    /\ At(r, "logout", "revokeRefreshToken")
    /\ RevokeRefreshToken(req[r].cred, None)
    /\ Reply(r, "loggedOut")

\* The pair is answered without being stored.
CreateRefreshToken_NotStored(r) ==
    /\ req[r].pc = "createRefreshToken"
    /\ Reply(r, "tokens")
    /\ Skip

\* One row per user: a UNIQUE index on user_id.
CreateRefreshToken_OnePerUser(r) ==
    /\ req[r].pc = "createRefreshToken"
    /\ \/ /\ \A t \in Reqs : refreshTokens[t].user # req[r].usr
          /\ InsertRefreshToken(r, req[r].usr)
          /\ Goto(r, "loadRefreshToken")
       \/ /\ \E t \in Reqs : refreshTokens[t].user = req[r].usr
          /\ Reply(r, "INTERNAL")
          /\ Skip

\* createRefreshToken, the INSERT; it fails when the user is gone.
CreateRefreshToken(r) ==
    /\ req[r].pc = "createRefreshToken"
    /\ \/ /\ InsertRefreshToken(r, req[r].usr)
          /\ Goto(r, "loadRefreshToken")
       \/ /\ ~UserStored(req[r].usr)
          /\ Reply(r, "INTERNAL")
          /\ Skip

\* createRefreshToken, the SELECT: the pair is answered after it.
LoadRefreshToken(r) ==
    /\ req[r].pc = "loadRefreshToken"
    /\ Skip
    /\ \/ TokenStored(r) /\ Reply(r, "tokens")
       \/ ~TokenStored(r) /\ Reply(r, "INTERNAL")

-----------------------------------------------------------------------------
(* Google: handleOAuthLogin, then createLoginCodeForUser *)

CallbackFindAccount(r) ==
    LET account == authAccounts[req[r].acct]
    IN  /\ At(r, "callback", "findAuthAccount")
        /\ Skip
        /\ \/ account.row # None /\ GotoWithUser(r, account.user, "findUserById")
           \/ account.row = None /\ Goto(r, "findUserByEmail")

CallbackFindLinkedUser(r) ==
    /\ At(r, "callback", "findUserById")
    /\ Skip
    /\ \/ UserStored(req[r].usr) /\ Goto(r, "findForUpsert")
       \/ ~UserStored(req[r].usr) /\ Reply(r, "OAUTH_ACCOUNT_NOT_FOUND")

CallbackFindUser(r) ==
    /\ At(r, "callback", "findUserByEmail")
    /\ Skip
    /\ \/ \E u \in UsersByEmail(req[r].email) :
             GotoWithProfile(r, u)
       \/ /\ UsersByEmail(req[r].email) = {}
          /\ Goto(r, "createUser")

\* updateUserOAuthProfile, the UPDATE and the SELECT.
UpdateProfile(r) ==
    /\ At(r, "callback", "updateProfile")
    /\ UpdateUserOAuthProfile(req[r].usr, req[r].avatar)
    /\ Goto(r, "loadProfile")

LoadProfile(r) ==
    /\ At(r, "callback", "loadProfile")
    /\ Skip
    /\ \/ UserStored(req[r].usr) /\ Goto(r, "findForUpsert")
       \/ ~UserStored(req[r].usr) /\ Reply(r, "INTERNAL")

\* upsertAuthAccount looks the account up again.
FindForUpsert(r) ==
    LET account == authAccounts[req[r].acct]
    IN  /\ At(r, "callback", "findForUpsert")
        /\ Skip
        /\ GotoWithRow(r, account.row, IF account.row # None
                                      THEN "updateAccount"
                                      ELSE "insertAccount")

UpdateAccount(r) ==
    /\ At(r, "callback", "updateAccount")
    /\ \/ /\ UpdateAuthAccount(req[r].acct, req[r].row, req[r].usr)
          /\ Goto(r, "loadAccount")
       \/ /\ authAccounts[req[r].acct].row = req[r].row
          /\ ~UserStored(req[r].usr)
          /\ Reply(r, "INTERNAL")
          /\ Skip

InsertAccount(r) ==
    /\ At(r, "callback", "insertAccount")
    /\ \/ /\ InsertAuthAccount(req[r].acct, r, req[r].usr)
          /\ GotoWithRow(r, r, "loadAccount")
       \/ /\ authAccounts[req[r].acct].row # None \/ ~UserStored(req[r].usr)
          /\ Reply(r, "INTERNAL")
          /\ Skip

\* Read back by id after the insert, by Google account after the update.
LoadAccount(r) ==
    LET found == authAccounts[req[r].acct].row
        loaded == IF req[r].row = r THEN found = r ELSE found # None
    IN  /\ At(r, "callback", "loadAccount")
        /\ Skip
        /\ \/ loaded /\ Goto(r, "createLoginCode")
           \/ ~loaded /\ Reply(r, "INTERNAL")

CreateLoginCode(r) ==
    /\ At(r, "callback", "createLoginCode")
    /\ \/ /\ InsertLoginCode(r, req[r].usr)
          /\ Goto(r, "loadLoginCode")
       \/ /\ ~UserStored(req[r].usr)
          /\ Reply(r, "INTERNAL")
          /\ Skip

\* The redirect carries the code to the browser.
LoadLoginCode(r) ==
    /\ At(r, "callback", "loadLoginCode")
    /\ Skip
    /\ \/ CodeStored(r) /\ Reply(r, "redirect")
       \/ ~CodeStored(r) /\ Reply(r, "INTERNAL")

\* Without gt(expiresAt, now).
ExchangeFindCode_Expired(r) ==
    LET c == req[r].cred
    IN  /\ At(r, "exchange", "findLoginCode")
        /\ Skip
        /\ \/ /\ CodeStored(c) /\ ~loginCodes[c].consumed
              /\ GotoWithUser(r, loginCodes[c].user, "findUserById")
           \/ ~CodeStored(c) /\ Reply(r, "INVALID_LOGIN_CODE")

ExchangeFindCode(r) ==
    LET c == req[r].cred
    IN  /\ At(r, "exchange", "findLoginCode")
        /\ Skip
        /\ \/ /\ CodeActive(c)
              /\ GotoWithUser(r, loginCodes[c].user, "findUserById")
           \/ ~CodeActive(c) /\ Reply(r, "INVALID_LOGIN_CODE")

ExchangeFindUser(r) ==
    /\ At(r, "exchange", "findUserById")
    /\ Skip
    /\ \/ UserStored(req[r].usr) /\ Goto(r, "consumeLoginCode")
       \/ ~UserStored(req[r].usr) /\ Reply(r, "INVALID_LOGIN_CODE")

ExchangeConsume(r) ==
    /\ At(r, "exchange", "consumeLoginCode")
    /\ ConsumeLoginCode(req[r].cred)
    /\ Goto(r, "createRefreshToken")

-----------------------------------------------------------------------------
(* The access token *)

MeFindUser(r) ==
    /\ At(r, "me", "findUserById")
    /\ Skip
    /\ \/ UserStored(req[r].usr) /\ Reply(r, "user")
       \/ ~UserStored(req[r].usr) /\ Reply(r, "INVALID_ACCESS_TOKEN")

-----------------------------------------------------------------------------
Step(r) ==
    \/ RegisterFindUser(r) \/ LoginFindUser(r) \/ CreateUser(r) \/ LoadUser(r)
    \/ RefreshFindToken(r) \/ RefreshFindUser(r) \/ RefreshRevoke(r)
    \/ LogoutRevoke(r) \/ CreateRefreshToken(r) \/ LoadRefreshToken(r)
    \/ CallbackFindAccount(r) \/ CallbackFindLinkedUser(r)
    \/ CallbackFindUser(r) \/ UpdateProfile(r) \/ LoadProfile(r)
    \/ FindForUpsert(r) \/ UpdateAccount(r) \/ InsertAccount(r)
    \/ LoadAccount(r) \/ CreateLoginCode(r) \/ LoadLoginCode(r)
    \/ ExchangeFindCode(r) \/ ExchangeFindUser(r) \/ ExchangeConsume(r)
    \/ MeFindUser(r)

(***************************************************************************)
(* The environment.  A statement may fail, for this handler only; that it  *)
(* may have taken effect first matters for the one of logout, the others   *)
(* being followed by another that may fail.  A server may die, and starts  *)
(* again with nothing in memory: the requests S it was serving are         *)
(* dropped.  A statement in flight that takes effect as the server dies is *)
(* its Step and then the Crash; that of logout, whose Step answers, is the *)
(* DbError that takes effect, in either case a client that does not learn  *)
(* of it.  The clock and an administrator may change the tables.           *)
(***************************************************************************)
DbError(r) ==
    /\ "db" \in Faults
    /\ r \in InFlight
    /\ Reply(r, "INTERNAL")
    /\ \/ Skip
       \/ /\ At(r, "logout", "revokeRefreshToken")
          /\ RevokeRefreshToken(req[r].cred, None)

Crash(S) ==
    /\ "crash" \in Faults
    /\ S # {}
    /\ req' = [r \in Reqs |-> IF r \in S
                  THEN [req[r] EXCEPT !.pc = "done", !.ans = "DROPPED"]
                  ELSE req[r]]
    /\ Skip

Delete(u) == "delete" \in Faults /\ DeleteUser(u) /\ UNCHANGED req

Expire(r) ==
    /\ \/ "tokenExpiry" \in Faults /\ ExpireToken(r)
       \/ "codeExpiry" \in Faults /\ ExpireCode(r)
    /\ UNCHANGED req

Environment ==
    \/ \E S \in SUBSET InFlight : Crash(S)
    \/ \E r \in Reqs : DbError(r) \/ Delete(r) \/ Expire(r)

\* Every request has been made and answered.
AllAnswered == (\A r \in Reqs : req[r].pc = "done") /\ UNCHANGED vars

Next ==
    \/ \E r \in Reqs : Arrive(r) \/ Step(r)
    \/ Environment
    \/ AllAnswered

Spec == Init /\ [][Next]_vars

\* Node resumes a handler once its statement is answered, and MySQL answers:
\* no handler waits for another request.  Nobody has to send a request.
FairSpec == Spec /\ \A r \in Reqs : WF_vars(Step(r))
=============================================================================
