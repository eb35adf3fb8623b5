------------------------- MODULE AuthAccountProofs -------------------------
(***************************************************************************)
(* Sessions, users and accounts, for any instance of AuthService:          *)
(*  - what any step may change: what the lemmas below rest on;             *)
(*  - logout, revocation and the load of the service: LogoutInv and        *)
(*    LoadBounded;                                                         *)
(*  - who a handler acts for: AccountInv, that each handler acts for the   *)
(*    user it authenticated and that each row names him, and what follows  *)
(*    from it for sessions and Google accounts.                            *)
(***************************************************************************)
EXTENDS AuthServiceProofs, FiniteSetTheorems

USE DEF Did, Answered

-----------------------------------------------------------------------------
(* What any step may change.  A request keeps what it presents from its     *)
(* arrival on, and only one statement of one handler gives each grant.      *)

Keeps(x) ==
    /\ req'[x].kind = req[x].kind /\ req'[x].email = req[x].email
    /\ req'[x].acct = req[x].acct /\ req'[x].cred = req[x].cred

LEMMA StepMoves ==
    ASSUME NEW r \in Reqs, Step(r)
    PROVE  /\ req[r].pc \in Statements
           /\ \/ \E pc \in Statements : Goto(r, pc)
              \/ \E u : \E pc \in Statements : GotoWithUser(r, u, pc)
              \/ \E u : GotoWithProfile(r, u)
              \/ \E row : \E pc \in Statements : GotoWithRow(r, row, pc)
              \/ \E a \in Refusals \cup Failures \cup {"user"} : Reply(r, a)
              \/ LogoutRevoke(r) /\ Reply(r, "loggedOut")
              \/ LoadRefreshToken(r) /\ Reply(r, "tokens")
              \/ LoadLoginCode(r) /\ Reply(r, "redirect")
<1> USE DEF At, Statements, Refusals, Failures
<1>1. CASE RegisterFindUser(r)
  BY <1>1 DEF RegisterFindUser
<1>2. CASE LoginFindUser(r)
  BY <1>2 DEF LoginFindUser
<1>3. CASE CreateUser(r)
  BY <1>3 DEF CreateUser
<1>4. CASE LoadUser(r)
  BY <1>4 DEF LoadUser
<1>5. CASE RefreshFindToken(r)
  BY <1>5 DEF RefreshFindToken
<1>6. CASE RefreshFindUser(r)
  BY <1>6 DEF RefreshFindUser
<1>7. CASE RefreshRevoke(r)
  BY <1>7 DEF RefreshRevoke
<1>8. CASE LogoutRevoke(r)
  BY <1>8 DEF LogoutRevoke
<1>9. CASE CreateRefreshToken(r)
  BY <1>9 DEF CreateRefreshToken
<1>10. CASE LoadRefreshToken(r)
  BY <1>10 DEF LoadRefreshToken
<1>11. CASE CallbackFindAccount(r)
  BY <1>11 DEF CallbackFindAccount
<1>12. CASE CallbackFindLinkedUser(r)
  BY <1>12 DEF CallbackFindLinkedUser
<1>13. CASE CallbackFindUser(r)
  BY <1>13 DEF CallbackFindUser
<1>14. CASE UpdateProfile(r)
  BY <1>14 DEF UpdateProfile
<1>15. CASE LoadProfile(r)
  BY <1>15 DEF LoadProfile
<1>16. CASE FindForUpsert(r)
  BY <1>16 DEF FindForUpsert
<1>17. CASE UpdateAccount(r)
  BY <1>17 DEF UpdateAccount
<1>18. CASE InsertAccount(r)
  BY <1>18 DEF InsertAccount
<1>19. CASE LoadAccount(r)
  BY <1>19 DEF LoadAccount
<1>20. CASE CreateLoginCode(r)
  BY <1>20 DEF CreateLoginCode
<1>21. CASE LoadLoginCode(r)
  BY <1>21 DEF LoadLoginCode
<1>22. CASE ExchangeFindCode(r)
  BY <1>22 DEF ExchangeFindCode
<1>23. CASE ExchangeFindUser(r)
  BY <1>23 DEF ExchangeFindUser
<1>24. CASE ExchangeConsume(r)
  BY <1>24 DEF ExchangeConsume
<1>25. CASE MeFindUser(r)
  BY <1>25 DEF MeFindUser
<1> QED
  BY <1>1, <1>2, <1>3, <1>4, <1>5, <1>6, <1>7, <1>8, <1>9, <1>10, <1>11,
     <1>12, <1>13, <1>14, <1>15, <1>16, <1>17, <1>18, <1>19, <1>20, <1>21,
     <1>22, <1>23, <1>24, <1>25 DEF Step

\* What a statement changes of the requests.
LEMMA StepKeeps ==
    ASSUME ReqTypeOK, NEW r \in Reqs, Step(r)
    PROVE  /\ \A x \in Reqs : Keeps(x)
           /\ \A x \in Reqs \ {r} : req'[x] = req[x]
           /\ req[r].pc \notin {"new", "done"} /\ req'[r].pc # "new"
           /\ \/ req'[r].ans = req[r].ans
              \/ req'[r].ans \in Refusals \cup Failures \cup {"user"}
              \/ LogoutRevoke(r) /\ req'[r].ans = "loggedOut"
              \/ LoadRefreshToken(r) /\ req'[r].ans = "tokens"
              \/ LoadLoginCode(r) /\ req'[r].ans = "redirect"
<1> USE DEF ReqTypeOK, Request, Keeps
<1>0. req[r].pc \notin {"new", "done"} /\ "new" \notin Statements
  BY StepMoves DEF Statements
<1>1. CASE \E pc \in Statements : Goto(r, pc)
  BY <1>0, <1>1 DEF Goto
<1>2. CASE \E u : \E pc \in Statements : GotoWithUser(r, u, pc)
  BY <1>0, <1>2 DEF GotoWithUser
<1>3. CASE \E u : GotoWithProfile(r, u)
  BY <1>0, <1>3 DEF GotoWithProfile
<1>4. CASE \E row : \E pc \in Statements : GotoWithRow(r, row, pc)
  BY <1>0, <1>4 DEF GotoWithRow
<1>5. ASSUME NEW a, Reply(r, a)
      PROVE  /\ \A x \in Reqs : Keeps(x)
             /\ \A x \in Reqs \ {r} : req'[x] = req[x]
             /\ req'[r].pc = "done" /\ req'[r].ans = a
  BY <1>5 DEF Reply
<1>6. CASE \E a \in Refusals \cup Failures \cup {"user"} : Reply(r, a)
  BY <1>0, <1>6, <1>5
<1>7. CASE \/ LogoutRevoke(r) /\ Reply(r, "loggedOut")
           \/ LoadRefreshToken(r) /\ Reply(r, "tokens")
           \/ LoadLoginCode(r) /\ Reply(r, "redirect")
  BY <1>0, <1>5, <1>7
<1> QED
  BY <1>1, <1>2, <1>3, <1>4, <1>6, <1>7, StepMoves

\* What everything else that may happen changes of a request.
LEMMA EnvironmentKeeps ==
    ASSUME ReqTypeOK, NEW x \in Reqs, Environment \/ UNCHANGED vars
    PROVE  /\ Keeps(x) /\ req'[x].usr = req[x].usr
           /\ \/ req'[x] = req[x]
              \/ /\ req[x].pc \notin {"new", "done"} /\ req'[x].pc = "done"
                 /\ req'[x].ans \in Failures
<1> USE DEF ReqTypeOK, Request, Keeps, Failures
<1>1. CASE UNCHANGED req
  BY <1>1
<1>2. ASSUME NEW r \in Reqs, DbError(r)
      PROVE  /\ Keeps(x) /\ req'[x].usr = req[x].usr
             /\ \/ req'[x] = req[x]
                \/ /\ req[x].pc \notin {"new", "done"} /\ req'[x].pc = "done"
                   /\ req'[x].ans \in Failures
  BY <1>2 DEF DbError, Reply, InFlight
<1>3. ASSUME NEW S \in SUBSET InFlight, Crash(S)
      PROVE  /\ Keeps(x) /\ req'[x].usr = req[x].usr
             /\ \/ req'[x] = req[x]
                \/ /\ req[x].pc \notin {"new", "done"} /\ req'[x].pc = "done"
                   /\ req'[x].ans \in Failures
  BY <1>3 DEF Crash, InFlight
<1> QED
  BY <1>1, <1>2, <1>3 DEF Environment, Delete, Expire, vars

LEMMA ArriveEffect ==
    ASSUME ReqTypeOK, NEW r \in Reqs, Arrive(r)
    PROVE  /\ req[r] = NewRequest /\ Skip
           /\ \A x \in Reqs \ {r} : req'[x] = req[x]
           /\ req'[r].pc # "new" /\ req'[r].ans \in Refusals \cup {None}
           /\ req'[r].kind = "logout" => req'[r].cred \in Issued \cup {None}
           /\ Cardinality(InFlight) < MaxInFlight
<1>1. req[r] = NewRequest /\ Skip
  BY ArriveSkips
<1>2. Cardinality(InFlight) < MaxInFlight
  BY DEF Arrive, ArriveRegister, ArriveLogin, ArriveRefresh, ArriveLogout,
         ArriveCallback, ArriveExchange, ArriveMe, MayArrive
<1>3. \A x \in Reqs \ {r} : req'[x] = req[x]
  BY DEF Arrive, ArriveRegister, ArriveLogin, ArriveRefresh, ArriveLogout,
         ArriveCallback, ArriveExchange, ArriveMe, ReqTypeOK
<1>4. /\ req'[r].pc # "new" /\ req'[r].ans \in Refusals \cup {None}
      /\ req'[r].kind = "logout" => req'[r].cred \in Issued \cup {None}
  <2> USE DEF ReqTypeOK, NewRequest, Refusals
  <2>1. CASE ArriveRegister(r)
    BY <2>1 DEF ArriveRegister
  <2>2. CASE ArriveLogin(r)
    BY <2>2 DEF ArriveLogin
  <2>3. CASE ArriveRefresh(r)
    BY <2>3 DEF ArriveRefresh
  <2>4. CASE ArriveLogout(r)
    BY <2>4 DEF ArriveLogout
  <2>5. CASE ArriveCallback(r)
    BY <2>5 DEF ArriveCallback
  <2>6. CASE ArriveExchange(r)
    BY <2>6 DEF ArriveExchange
  <2>7. CASE ArriveMe(r)
    BY <2>7 DEF ArriveMe
  <2> QED
    BY <2>1, <2>2, <2>3, <2>4, <2>5, <2>6, <2>7 DEF Arrive
<1> QED
  BY <1>1, <1>2, <1>3, <1>4

\* Rows age, but for the two that are inserted; and those are new.
LEMMA NextAges ==
    ASSUME TypeOK, CredentialInv, [Next]_vars
    PROVE  \A t \in Reqs :
             /\ refreshTokens[t].status # "free" => TokenAges(t)
             /\ loginCodes[t].status # "free" => CodeAges(t)
<1>1. CASE Environment \/ UNCHANGED vars
  BY <1>1, EnvironmentIsQuiet DEF TokensAge, CodesAge
<1>2. ASSUME NEW r \in Reqs, Arrive(r)
      PROVE  TokensAge /\ CodesAge
  BY <1>2, ArriveSkips, SkipAges
<1>3. ASSUME NEW r \in Reqs, Step(r), NEW t \in Reqs,
             refreshTokens[t].status # "free"
      PROVE  TokenAges(t)
  <2>1. CASE CreateRefreshToken(r) /\ ~Skip
    <3>1. PICK u \in Ref : u = req[r].usr
      BY DEF TypeOK, ReqTypeOK, Request
    <3>2. InsertRefreshToken(r, u) /\ req[r].pc = "createRefreshToken"
      BY <2>1, <3>1 DEF CreateRefreshToken
    <3>3. t # r
      BY <1>3, <3>2 DEF CredentialInv, RequestInv, RowsAreFresh
    <3> QED
      BY <3>2, <3>3, InsertTokenEffect DEF TypeOK
  <2>2. CASE Skip
    BY <2>2, SkipAges DEF TokensAge
  <2> QED
    BY <1>3, <2>1, <2>2, StepAges DEF TokensAge
<1>4. ASSUME NEW r \in Reqs, Step(r), NEW t \in Reqs,
             loginCodes[t].status # "free"
      PROVE  CodeAges(t)
  <2>1. CASE CreateLoginCode(r) /\ ~Skip
    <3>1. PICK u \in Ref : u = req[r].usr
      BY DEF TypeOK, ReqTypeOK, Request
    <3>2. InsertLoginCode(r, u) /\ req[r].pc = "createLoginCode"
      BY <2>1, <3>1 DEF CreateLoginCode, At
    <3>3. t # r
      BY <1>4, <3>2 DEF CredentialInv, RequestInv, RowsAreFresh
    <3> QED
      BY <3>2, <3>3, InsertCodeEffect DEF TypeOK
  <2>2. CASE Skip
    BY <2>2, SkipAges DEF CodesAge
  <2> QED
    BY <1>4, <2>1, <2>2, StepAges DEF CodesAge
<1> QED
  BY <1>1, <1>2, <1>3, <1>4 DEF Next, AllAnswered, TokensAge, CodesAge

-----------------------------------------------------------------------------
(* Logout *)

\* A logout presents a token that was stored, and answers over a dead one.
LogoutProgress(r) ==
    LET t == req[r].cred
    IN  /\ Answered(r, "loggedOut") => Did(r, "logout")
        /\ Did(r, "logout") /\ t # None =>
              /\ refreshTokens[t].status # "free"
              /\ Answered(r, "loggedOut") => ~TokenActive(t)

LogoutInv == \A r \in Reqs : LogoutProgress(r)

\* Its token having aged, a request that was not answered "loggedOut" by this
\* step is as it was.
LEMMA LogoutKept ==
    ASSUME TypeOK, CredentialInv, LogoutInv, [Next]_vars, NEW x \in Reqs,
           Keeps(x), req'[x].ans # "loggedOut" \/ req'[x].ans = req[x].ans
    PROVE  LogoutProgress(x)'
<1>1. LogoutProgress(x) /\ req[x].cred \in Reqs \cup {None}
  BY DEF LogoutInv, TypeOK, ReqTypeOK, Request, Ref
<1>2. Did(x, "logout") /\ req[x].cred # None => TokenAges(req[x].cred)
  BY <1>1, NextAges DEF LogoutProgress
<1> QED
  BY <1>1, <1>2 DEF LogoutProgress, Keeps, TokenAges

LEMMA LogoutInvStep ==
    ASSUME TypeOK, CredentialInv, LogoutInv, [Next]_vars
    PROVE  LogoutInv'
<1> SUFFICES ASSUME NEW x \in Reqs
             PROVE  LogoutProgress(x)'
  BY DEF LogoutInv
<1> USE NoneIsNoWord DEF Refusals, Failures, Answers, Grants
<1>0. req'[x] = req[x] => Keeps(x) /\ req'[x].ans = req[x].ans
  BY DEF Keeps
<1>1. CASE Environment \/ UNCHANGED vars
  BY <1>0, <1>1, EnvironmentKeeps, LogoutKept DEF TypeOK
<1>2. ASSUME NEW r \in Reqs, Arrive(r)
      PROVE  LogoutProgress(x)'
  <2>1. CASE x # r
    BY <1>0, <1>2, <2>1, ArriveEffect, LogoutKept DEF TypeOK
  <2>2. CASE x = r
    <3>1. /\ Skip /\ req'[x].ans # "loggedOut"
          /\ req'[x].kind = "logout" => req'[x].cred \in Issued \cup {None}
      BY <1>2, <2>2, ArriveEffect DEF TypeOK
    <3>2. \A t \in Issued : refreshTokens[t].status # "free"
      BY DEF Issued, CredentialInv, RequestInv, SentIsStored
    <3> QED
      BY <3>1, <3>2 DEF LogoutProgress, Skip, storeVars
  <2> QED
    BY <2>1, <2>2
<1>3. ASSUME NEW r \in Reqs, Step(r)
      PROVE  LogoutProgress(x)'
  <2>1. CASE x # r
    BY <1>0, <1>3, <2>1, StepKeeps, LogoutKept DEF TypeOK
  <2>2. CASE x = r /\ ~LogoutRevoke(r)
    BY <1>3, <2>2, StepKeeps, LogoutKept DEF TypeOK
  <2>3. CASE x = r /\ LogoutRevoke(r)
    <3>1. PICK t \in Ref : t = req[r].cred
      BY DEF TypeOK, ReqTypeOK, Request
    <3>2. RevokeRefreshToken(t, None) /\ None \in Ref /\ LogoutProgress(r)
          /\ Did(r, "logout")
      BY <2>3, <3>1 DEF LogoutRevoke, At, Ref, LogoutInv
    <3>3. ~TokenActive(t)' /\ TokensAge
      BY <3>2, RevokeAges DEF TypeOK
    <3>4. t # None => TokenAges(t) /\ refreshTokens'[t].status # "free"
      BY <3>1, <3>2, <3>3 DEF TokensAge, TokenAges, Ref, LogoutProgress
    <3>5. req'[r].cred = t /\ req'[r].kind = "logout"
      BY <1>3, <3>1, <3>2, StepKeeps DEF Keeps, TypeOK
    <3> QED
      BY <2>3, <3>3, <3>4, <3>5 DEF LogoutProgress, TokenActive, TokenStored
  <2> QED
    BY <2>1, <2>2, <2>3
<1> QED
  BY <1>1, <1>2, <1>3 DEF Next, AllAnswered

(* A token that was logged out stays dead, whatever rotations of it are      *)
(* under way.                                                               *)
THEOREM LogoutIsFinal == Spec => []LogoutSticks
<1>1. Init => LogoutInv
  BY NoneIsNoWord
     DEF Init, NewRequest, LogoutInv, LogoutProgress, HandlerKinds, Answers,
         Grants
<1>2. TypeOK /\ CredentialInv /\ LogoutInv /\ [Next]_vars => LogoutInv'
  BY LogoutInvStep
<1>3. LogoutInv => LogoutSticks
  BY DEF LogoutInv, LogoutProgress, LogoutSticks
<1> QED
  BY <1>1, <1>2, <1>3, TypeCorrect, CredentialInvariant, PTL DEF Spec

-----------------------------------------------------------------------------
(* Revocations and links *)

\* Which statements write to a row that is stored.
TokenWritten(t) ==
    \E r \in Reqs : /\ req[r].kind \in {"refresh", "logout"}
                    /\ req[r].cred = t

CodeWritten(c) == \E r \in Reqs : Did(r, "exchange") /\ req[r].cred = c

LEMMA RevokeWrites ==
    ASSUME StoreTypeOK, NEW t \in Ref, NEW next \in Ref,
           RevokeRefreshToken(t, next)
    PROVE  /\ \A x \in Reqs :
                /\ refreshTokens'[x].status = refreshTokens[x].status
                /\ x # t => refreshTokens'[x] = refreshTokens[x]
                /\ refreshTokens[x].replacedBy # None
                     => refreshTokens'[x].replacedBy # None
                /\ refreshTokens[x].status = "free"
                     => refreshTokens'[x] = refreshTokens[x]
           /\ loginCodes' = loginCodes
BY DEF RevokeRefreshToken, StoreTypeOK, TokenRow, TokenStored

\* What a step may write into the rows of tokens and codes.
LEMMA NextWrites ==
    ASSUME TypeOK, CredentialInv, [Next]_vars, NEW t \in Reqs
    PROVE  /\ refreshTokens'[t].revoked /\ ~refreshTokens[t].revoked
                => TokenWritten(t)
           /\ loginCodes'[t].consumed /\ ~loginCodes[t].consumed
                => CodeWritten(t)
           /\ refreshTokens[t].replacedBy # None
                => \/ refreshTokens'[t].replacedBy # None
                   \/ refreshTokens[t].status = "free"
           /\ refreshTokens'[t].status = "free"
                => refreshTokens'[t].replacedBy = refreshTokens[t].replacedBy
           /\ refreshTokens'[t].status = "gone"
                => \/ refreshTokens[t].status = "gone"
                   \/ users'[refreshTokens[t].user].status = "gone"
<1> DEFINE Written ==
      /\ refreshTokens'[t].revoked /\ ~refreshTokens[t].revoked
           => TokenWritten(t)
      /\ loginCodes'[t].consumed /\ ~loginCodes[t].consumed
           => CodeWritten(t)
      /\ refreshTokens[t].replacedBy # None
           => \/ refreshTokens'[t].replacedBy # None
              \/ refreshTokens[t].status = "free"
      /\ refreshTokens'[t].status = "free"
           => refreshTokens'[t].replacedBy = refreshTokens[t].replacedBy
      /\ refreshTokens'[t].status = "gone"
           => \/ refreshTokens[t].status = "gone"
              \/ users'[refreshTokens[t].user].status = "gone"
<1>1. CASE UNCHANGED <<refreshTokens, loginCodes>>
  BY <1>1
<1>2. CASE Skip
  BY <1>1, <1>2 DEF Skip, storeVars
<1>3. ASSUME NEW r \in Reqs, req[r].kind \in {"refresh", "logout"},
             RevokeRefreshToken(req[r].cred, None)
             \/ RevokeRefreshToken(req[r].cred, r)
      PROVE  Written
  <2>1. req[r].cred \in Ref /\ r \in Ref /\ None \in Ref
    BY DEF TypeOK, ReqTypeOK, Request, Ref
  <2>2. /\ refreshTokens'[t].status = refreshTokens[t].status
        /\ t # req[r].cred => refreshTokens'[t] = refreshTokens[t]
        /\ refreshTokens[t].replacedBy # None
             => refreshTokens'[t].replacedBy # None
        /\ refreshTokens[t].status = "free"
             => refreshTokens'[t] = refreshTokens[t]
        /\ loginCodes' = loginCodes
        /\ TokensAge
    BY <1>3, <2>1, RevokeWrites, RevokeAges DEF TypeOK
  <2> QED
    BY <1>3, <2>2 DEF TokenWritten, TokensAge, TokenAges
<1>4. ASSUME NEW r \in Reqs, ExchangeConsume(r)
      PROVE  Written
  BY <1>4 DEF ExchangeConsume, At, ConsumeLoginCode, CodeWritten, TypeOK,
              StoreTypeOK, CodeRow
<1>5. ASSUME NEW r \in Reqs, CreateRefreshToken(r), ~Skip
      PROVE  Written
  <2>1. InsertRefreshToken(r, req[r].usr) /\ req[r].pc = "createRefreshToken"
    BY <1>5 DEF CreateRefreshToken
  <2>2. refreshTokens[r].status = "free"
    BY <2>1 DEF CredentialInv, RequestInv, RowsAreFresh
  <2> QED
    BY <2>1, <2>2 DEF InsertRefreshToken, TypeOK, StoreTypeOK, TokenRow
<1>6. ASSUME NEW r \in Reqs, CreateLoginCode(r), ~Skip
      PROVE  Written
  <2>1. InsertLoginCode(r, req[r].usr)
    BY <1>6 DEF CreateLoginCode
  <2> QED
    BY <2>1 DEF InsertLoginCode, TypeOK, StoreTypeOK, CodeRow
<1>7. ASSUME NEW r \in Reqs, ExpireToken(r) \/ ExpireCode(r) \/ DeleteUser(r)
      PROVE  Written
  <2> USE DEF TypeOK, StoreTypeOK, TokenRow, CodeRow
  <2>1. CASE ExpireToken(r)
    BY <2>1 DEF ExpireToken
  <2>2. CASE ExpireCode(r)
    BY <2>2 DEF ExpireCode
  <2>3. CASE DeleteUser(r)
    <3>1. /\ refreshTokens'[t].revoked = refreshTokens[t].revoked
          /\ refreshTokens'[t].replacedBy = refreshTokens[t].replacedBy
      BY <2>3 DEF DeleteUser
    <3>2. loginCodes'[t].consumed = loginCodes[t].consumed
      BY <2>3 DEF DeleteUser
    <3>3. refreshTokens'[t].status = "gone"
            => \/ refreshTokens[t].status = "gone"
               \/ users'[refreshTokens[t].user].status = "gone"
      BY <2>3 DEF DeleteUser, UserRow
    <3> QED
      BY <3>1, <3>2, <3>3
  <2> QED
    BY <1>7, <2>1, <2>2, <2>3
<1>8. ASSUME NEW r \in Reqs, Step(r)
      PROVE  Written
  <2>1. CASE CreateUser(r) \/ UpdateProfile(r) \/ UpdateAccount(r)
               \/ InsertAccount(r)
    <3>1. Skip \/ UNCHANGED <<refreshTokens, loginCodes>>
      BY <2>1 DEF CreateUser, InsertUser, UpdateProfile,
                  UpdateUserOAuthProfile, UpdateAccount, UpdateAuthAccount,
                  InsertAccount, InsertAuthAccount
    <3> QED
      BY <1>1, <1>2, <3>1
  <2>2. CASE \/ RegisterFindUser(r) \/ LoginFindUser(r) \/ LoadUser(r)
             \/ RefreshFindToken(r) \/ RefreshFindUser(r)
             \/ LoadRefreshToken(r) \/ CallbackFindAccount(r)
             \/ CallbackFindLinkedUser(r) \/ CallbackFindUser(r)
             \/ LoadProfile(r) \/ FindForUpsert(r) \/ LoadAccount(r)
             \/ LoadLoginCode(r) \/ ExchangeFindCode(r)
             \/ ExchangeFindUser(r) \/ MeFindUser(r)
    <3>1. Skip
      BY <2>2 DEF RegisterFindUser, LoginFindUser, LoadUser, RefreshFindToken,
                  RefreshFindUser, LoadRefreshToken, CallbackFindAccount,
                  CallbackFindLinkedUser, CallbackFindUser, LoadProfile,
                  FindForUpsert, LoadAccount, LoadLoginCode, ExchangeFindCode,
                  ExchangeFindUser, MeFindUser
    <3> QED
      BY <1>2, <3>1
  <2>3. CASE RefreshRevoke(r) \/ LogoutRevoke(r)
    BY <1>3, <2>3 DEF RefreshRevoke, LogoutRevoke, At
  <2> QED
    BY <1>2, <1>4, <1>5, <1>6, <1>8, <2>1, <2>2, <2>3 DEF Step
<1>9. ASSUME NEW r \in Reqs, DbError(r)
      PROVE  Written
  BY <1>2, <1>3, <1>9 DEF DbError, At
<1> QED
  <2>1. Written
    BY <1>1, <1>2, <1>7, <1>8, <1>9, ArriveSkips
       DEF Next, Environment, Crash, Delete, Expire, AllAnswered, vars,
           storeVars
  <2> QED
    BY <2>1

(* A token is revoked and a code consumed only for a request that presented *)
(* it.                                                                      *)
THEOREM RevokedOnRequest == Spec => []NoUnaskedRevocation
<1>1. Init => NoUnaskedRevocation
  BY DEF Init, StoreInit, NoUnaskedRevocation
<1>2. ASSUME TypeOK, CredentialInv, NoUnaskedRevocation, [Next]_vars
      PROVE  NoUnaskedRevocation'
  <2>1. ASSUME NEW r \in Reqs, req[r].kind # None
        PROVE  Keeps(r)
    <3>1. req[r] # NewRequest
      BY <2>1 DEF NewRequest
    <3>2. req'[r] = req[r] => Keeps(r)
      BY DEF Keeps
    <3> QED
      BY <1>2, <3>1, <3>2, ArriveEffect, StepKeeps, EnvironmentKeeps
         DEF Next, AllAnswered, TypeOK
  <2>2. None \notin {"refresh", "logout", "exchange"}
    BY NoneIsNoWord DEF HandlerKinds
  <2>3. ASSUME NEW c \in Reqs
        PROVE  /\ refreshTokens'[c].revoked => TokenWritten(c)
               /\ loginCodes'[c].consumed => CodeWritten(c)
    BY <1>2, NextWrites DEF NoUnaskedRevocation, TokenWritten, CodeWritten
  <2>4. ASSUME NEW c \in Reqs
        PROVE  /\ TokenWritten(c) => TokenWritten(c)'
               /\ CodeWritten(c) => CodeWritten(c)'
    BY <2>1, <2>2 DEF TokenWritten, CodeWritten, Keeps
  <2> QED
    BY <2>3, <2>4 DEF NoUnaskedRevocation, TokenWritten, CodeWritten
<1> QED
  BY <1>1, <1>2, TypeCorrect, CredentialInvariant, PTL DEF Spec

\* A row that is not stored yet has no link to lose.
FreeIsUnlinked ==
    \A t \in Reqs : refreshTokens[t].status = "free"
                       => refreshTokens[t].replacedBy = None

(* The link from a rotated token to its replacement is never removed.       *)
THEOREM LinksAreKept == Spec => LinkSurvives
<1>1. Init => FreeIsUnlinked
  BY DEF Init, StoreInit, FreeIsUnlinked
<1>2. ASSUME TypeOK, CredentialInv, FreeIsUnlinked, [Next]_vars
      PROVE  FreeIsUnlinked'
  <2>1. \A t \in Reqs : refreshTokens'[t].status = "free"
                             => refreshTokens[t].status = "free"
    BY <1>2, NextAges DEF TokenAges
  <2> QED
    BY <1>2, <2>1, NextWrites DEF FreeIsUnlinked
<1>3. ASSUME TypeOK, CredentialInv, FreeIsUnlinked, [Next]_vars
      PROVE  [\A t \in Reqs : refreshTokens[t].replacedBy # None
                 => refreshTokens'[t].replacedBy # None]_vars
  BY <1>3, NextWrites DEF FreeIsUnlinked
<1> QED
  BY <1>1, <1>2, <1>3, TypeCorrect, CredentialInvariant, PTL
     DEF Spec, LinkSurvives

-----------------------------------------------------------------------------
(* How many requests one credential serves *)

LEMMA InFlightGrows ==
    ASSUME ReqTypeOK, [Next]_vars
    PROVE  \/ InFlight' \subseteq InFlight
           \/ \E r \in Reqs : /\ req[r] = NewRequest
                              /\ InFlight' \subseteq InFlight \cup {r}
                              /\ Cardinality(InFlight) < MaxInFlight
<1> USE DEF InFlight
<1>1. ASSUME NEW r \in Reqs, Arrive(r)
      PROVE  /\ req[r] = NewRequest
             /\ InFlight' \subseteq InFlight \cup {r}
             /\ Cardinality(InFlight) < MaxInFlight
  BY <1>1, ArriveEffect
<1>2. ASSUME NEW r \in Reqs, Step(r)
      PROVE  InFlight' \subseteq InFlight
  BY <1>2, StepKeeps
<1>3. CASE Environment \/ UNCHANGED vars
  BY <1>3, EnvironmentKeeps
<1> QED
  BY <1>1, <1>2, <1>3 DEF Next, AllAnswered

\* The server runs a finite number of handlers, and no more than it may.
Bounded(S) == IsFiniteSet(S) /\ Cardinality(S) <= MaxInFlight

LEMMA SubsetBounded ==
    ASSUME NEW S, NEW T, Bounded(T), S \subseteq T
    PROVE  Bounded(S)
BY FS_Subset, FS_CardinalityType, MaxInFlightIsNat DEF Bounded

\* The requests a credential still has to serve or has served.
ServedOrServing(kind, c) ==
    {r \in AdmittedWith(kind, c) : r \in InFlight \/ Answered(r, "tokens")}

LoadBounded ==
    /\ Bounded(InFlight)
    /\ \A c \in Reqs : /\ Bounded(ServedOrServing("refresh", c))
                       /\ Bounded(ServedOrServing("exchange", c))

\* A step that does not admit anyone with a credential adds nobody to those it
\* serves.
LEMMA NobodyJoins ==
    ASSUME TypeOK, CredentialInv, [Next]_vars, NEW c \in Reqs,
           NEW kind \in {"refresh", "exchange"},
           AdmittedWith(kind, c)' = AdmittedWith(kind, c)
    PROVE  ServedOrServing(kind, c)' \subseteq ServedOrServing(kind, c)
<1> SUFFICES ASSUME NEW x \in AdmittedWith(kind, c),
                    (x \in InFlight \/ Answered(x, "tokens"))'
             PROVE  x \in InFlight \/ Answered(x, "tokens")
  BY DEF ServedOrServing
<1>0. x \in Reqs /\ req[x].kind = kind
  BY DEF AdmittedWith
<1>1. req[x] # NewRequest
  BY <1>0, NoneIsNoWord DEF NewRequest, HandlerKinds
<1> USE DEF InFlight
<1>2. req'[x] = req[x] => x \in InFlight \/ Answered(x, "tokens")
  OBVIOUS
<1>3. ASSUME NEW r \in Reqs, Arrive(r)
      PROVE  x \in InFlight \/ Answered(x, "tokens")
  BY <1>0, <1>1, <1>2, <1>3, ArriveEffect DEF TypeOK
<1>4. ASSUME NEW r \in Reqs, Step(r)
      PROVE  x \in InFlight \/ Answered(x, "tokens")
  BY <1>0, <1>2, <1>4, StepKeeps DEF TypeOK
<1>5. CASE Environment \/ UNCHANGED vars
  BY <1>0, <1>2, <1>5, EnvironmentKeeps DEF TypeOK, Failures
<1> QED
  BY <1>3, <1>4, <1>5 DEF Next, AllAnswered

LEMMA LoadStep ==
    ASSUME TypeOK, CredentialInv, LoadBounded, [Next]_vars
    PROVE  LoadBounded'
<1>1. Bounded(InFlight)'
  <2>1. CASE InFlight' \subseteq InFlight
    BY <2>1, SubsetBounded DEF LoadBounded, Bounded
  <2>2. ASSUME NEW r \in Reqs, InFlight' \subseteq InFlight \cup {r},
               Cardinality(InFlight) < MaxInFlight
        PROVE  Bounded(InFlight)'
    <3>1. IsFiniteSet(InFlight)
      BY DEF LoadBounded, Bounded
    <3>2. /\ IsFiniteSet(InFlight \cup {r})
          /\ Cardinality(InFlight \cup {r}) <= Cardinality(InFlight) + 1
      BY <3>1, FS_AddElement, FS_CardinalityType
    <3>3. Bounded(InFlight \cup {r})
      BY <2>2, <3>1, <3>2, FS_CardinalityType, MaxInFlightIsNat DEF Bounded
    <3> QED
      BY <2>2, <3>3, SubsetBounded DEF Bounded
  <2> QED
    BY <2>1, <2>2, InFlightGrows DEF TypeOK
<1>2. CredentialInv'
  BY CredentialStep
\* While a credential is live nobody has been served with it yet.
<1>3. ASSUME NEW c \in Reqs, NEW kind \in {"refresh", "exchange"},
             Bounded(ServedOrServing(kind, c)),
             \/ AdmittedWith(kind, c)' = AdmittedWith(kind, c)
             \/ ServedOrServing(kind, c)' \subseteq InFlight'
      PROVE  Bounded(ServedOrServing(kind, c))'
  <2>1. \/ ServedOrServing(kind, c)' \subseteq ServedOrServing(kind, c)
        \/ ServedOrServing(kind, c)' \subseteq InFlight'
    BY <1>3, NobodyJoins
  <2> QED
    BY <1>1, <1>3, <2>1, SubsetBounded DEF Bounded
<1>4. ASSUME NEW c \in Reqs
      PROVE  Bounded(ServedOrServing("refresh", c))'
  <2>1. \/ AdmittedWith("refresh", c)' = AdmittedWith("refresh", c)
        \/ TokenActive(c)'
    <3>1. Tokens!CredNext
      BY TokensStep
    <3>2. TokenState(c)' = "live" => TokenActive(c)'
      BY DEF TokenState
    <3> QED
      BY <3>1, <3>2
         DEF Tokens!CredNext, Tokens!Issue, Tokens!Admit, Tokens!Grant,
             Tokens!Die
  <2>2. TokenActive(c)' => ServedOrServing("refresh", c)' \subseteq InFlight'
    BY <1>2 DEF CredentialInv, RequestInv, RefreshProgress, ServedOrServing,
                AdmittedWith
  <2> QED
    BY <1>3, <2>1, <2>2 DEF LoadBounded
<1>5. ASSUME NEW c \in Reqs
      PROVE  Bounded(ServedOrServing("exchange", c))'
  <2>1. \/ AdmittedWith("exchange", c)' = AdmittedWith("exchange", c)
        \/ CodeActive(c)'
    <3>1. Codes!CredNext
      BY CodesStep
    <3>2. CodeState(c)' = "live" => CodeActive(c)'
      BY DEF CodeState
    <3> QED
      BY <3>1, <3>2
         DEF Codes!CredNext, Codes!Issue, Codes!Admit, Codes!Grant, Codes!Die
  <2>2. CodeActive(c)' => ServedOrServing("exchange", c)' \subseteq InFlight'
    BY <1>2 DEF CredentialInv, RequestInv, ExchangeProgress, ServedOrServing,
                AdmittedWith
  <2> QED
    BY <1>3, <2>1, <2>2 DEF LoadBounded
<1> QED
  BY <1>1, <1>4, <1>5 DEF LoadBounded

(* One credential serves at most as many requests as run at the same time.  *)
THEOREM ServiceIsBounded == Spec => []GrantsBounded
<1>1. Init => LoadBounded
  <2> SUFFICES ASSUME Init PROVE LoadBounded
    OBVIOUS
  <2>1. InFlight = {}
    BY DEF Init, NewRequest, InFlight
  <2>2. \A c \in Reqs : /\ ServedOrServing("refresh", c) = {}
                       /\ ServedOrServing("exchange", c) = {}
    BY NoneIsNoWord
       DEF Init, NewRequest, ServedOrServing, AdmittedWith, HandlerKinds
  <2>3. Bounded({})
    BY FS_EmptySet, MaxInFlightIsNat DEF Bounded
  <2> QED
    BY <2>1, <2>2, <2>3 DEF LoadBounded
<1>2. TypeOK /\ CredentialInv /\ LoadBounded /\ [Next]_vars => LoadBounded'
  BY LoadStep
<1>3. ASSUME CredentialInv, LoadBounded
      PROVE  GrantsBounded
  <2>1. ASSUME NEW c \in Reqs
        PROVE  /\ RefreshedBy(c) \subseteq ServedOrServing("refresh", c)
               /\ ExchangedBy(c) \subseteq ServedOrServing("exchange", c)
    BY <1>3 DEF CredentialInv, RequestInv, RefreshProgress, ExchangeProgress,
                RefreshedBy, ExchangedBy, Served, ServedOrServing, AdmittedWith
  <2>2. ASSUME NEW c \in Reqs
        PROVE  Bounded(RefreshedBy(c)) /\ Bounded(ExchangedBy(c))
    BY <1>3, <2>1, SubsetBounded DEF LoadBounded
  <2> QED
    BY <2>2 DEF GrantsBounded, Bounded
<1> QED
  BY <1>1, <1>2, <1>3, TypeCorrect, CredentialInvariant, PTL DEF Spec

-----------------------------------------------------------------------------
(* Whom a handler acts for: the invariant. *)

\* The statements before a request may have stored a user.
Early == {"new", "findAuthAccount", "findUserByEmail", "createUser"}

\* A request stores at most one user, and what it stores names its user.
RowsNameOwner(r) ==
    /\ users[r].status # "free" => req[r].pc \notin Early
    /\ refreshTokens[r].status # "free" => refreshTokens[r].user = req[r].usr
    /\ loginCodes[r].status # "free" => loginCodes[r].user = req[r].usr
    /\ refreshTokens[r].status = "gone" =>
          req[r].usr # None /\ users[req[r].usr].status = "gone"

\* Where each handler has its user from.
RegisterKnows(r) == Did(r, "register") /\ req[r].usr # None => req[r].usr = r

LoginKnows(r) ==
    LET u == req[r].usr
    IN  Did(r, "login") /\ u # None =>
          /\ users[u].status # "free"
          /\ users[u].email = req[r].email /\ users[u].password

CredentialKnows(r) ==
    LET c == req[r].cred
    IN  req[r].usr # None =>
          /\ Did(r, "refresh") => req[r].usr = refreshTokens[c].user
          /\ Did(r, "exchange") => req[r].usr = loginCodes[c].user

\* Google said of account a that it has e-mail e.
Attested(a, e) == \E p \in Profiles : p.acct = a /\ p.email = e

CallbackKnows(r) ==
    LET u == req[r].usr
    IN  Did(r, "callback") =>
          /\ Attested(req[r].acct, req[r].email)
          /\ u # None => /\ users[u].status # "free"
                         /\ Attested(req[r].acct, users[u].email)
          /\ req[r].pc = "loadUser" =>
                users[r].status # "free" /\ users[r].email = req[r].email
          /\ req[r].pc \in {"updateProfile", "loadProfile"} => u # None
          /\ req[r].pc = "loadProfile" /\ UserStored(u) => users[u].verified
          /\ req[r].pc \in {"findUserById", "findForUpsert", "updateAccount",
                            "insertAccount"} => u # None /\ users[u].verified

Knows(r) ==
    /\ RowsNameOwner(r) /\ RegisterKnows(r) /\ LoginKnows(r)
    /\ CredentialKnows(r) /\ CallbackKnows(r)

\* users_email_unique.
EmailsUnique ==
    \A u, v \in Reqs :
        UserStored(u) /\ UserStored(v) /\ users[u].email = users[v].email
          => u = v

AccountInv == (\A r \in Reqs : Knows(r)) /\ EmailsUnique /\ LinkedToOwner

-----------------------------------------------------------------------------
(* Users age as tokens and codes do: a user is inserted once, keeps the      *)
(* e-mail and the password, is never unverified and never comes back.       *)

UserAges(u) ==
    /\ users'[u].status = "free" <=> users[u].status = "free"
    /\ users[u].status # "free" =>
          /\ users'[u].email = users[u].email
          /\ users'[u].password = users[u].password
          /\ users[u].verified => users'[u].verified
    /\ users[u].status = "gone" => users'[u].status = "gone"

UsersAge == \A u \in Reqs : UserAges(u)

LEMMA UsersSame ==
    ASSUME UNCHANGED users
    PROVE  UsersAge
BY DEF UsersAge, UserAges

LEMMA UpdateUserAges ==
    ASSUME StoreTypeOK, NEW u \in Ref, NEW a, UpdateUserOAuthProfile(u, a)
    PROVE  UsersAge /\ (UserStored(u)' => users'[u].verified)
BY DEF UpdateUserOAuthProfile, UserStored, StoreTypeOK, UserRow, UsersAge,
       UserAges

LEMMA DeleteUserAges ==
    ASSUME StoreTypeOK, NEW u \in Reqs, DeleteUser(u)
    PROVE  UsersAge
BY DEF DeleteUser, UserStored, StoreTypeOK, UserRow, UsersAge, UserAges

LEMMA InsertUserEffect ==
    ASSUME StoreTypeOK, NEW r \in Reqs, NEW e, NEW p, NEW v, NEW a,
           InsertUser(r, e, p, v, a)
    PROVE  /\ users'[r].status = "stored" /\ users'[r].email = e
           /\ \A u \in Reqs \ {r} : UserAges(u)
           /\ UNCHANGED <<refreshTokens, authAccounts, loginCodes>>
BY DEF InsertUser, StoreTypeOK, UserRow, UserAges

\* The rows that bear the name of x.
RowsAge(x) == UserAges(x) /\ TokenAges(x) /\ CodeAges(x)

LEMMA SkipRows ==
    ASSUME Skip
    PROVE  \A x \in Reqs : RowsAge(x)
BY SkipAges, UsersSame
   DEF RowsAge, UsersAge, TokensAge, CodesAge, Skip, storeVars

LEMMA EnvironmentRows ==
    ASSUME TypeOK, CredentialInv, Environment \/ UNCHANGED vars
    PROVE  \A x \in Reqs : RowsAge(x)
<1>1. TokensAge /\ CodesAge
  BY EnvironmentIsQuiet
<1>2. UsersAge
  <2>1. CASE UNCHANGED users
    BY <2>1, UsersSame
  <2>2. ASSUME NEW r \in Reqs, DbError(r)
        PROVE  UNCHANGED users
    BY <2>2 DEF DbError, Skip, storeVars, RevokeRefreshToken
  <2>3. ASSUME NEW r \in Reqs, Delete(r)
        PROVE  UsersAge
    BY <2>3, DeleteUserAges DEF Delete, TypeOK
  <2>4. ASSUME NEW r \in Reqs, Expire(r)
        PROVE  UNCHANGED users
    BY <2>4 DEF Expire, ExpireToken, ExpireCode
  <2> QED
    BY <2>1, <2>2, <2>3, <2>4
       DEF Environment, Crash, Skip, vars, storeVars
<1> QED
  BY <1>1, <1>2 DEF RowsAge, UsersAge, TokensAge, CodesAge

\* A statement inserts only rows with the name of its request.
LEMMA StepRows ==
    ASSUME TypeOK, NEW r \in Reqs, Step(r)
    PROVE  /\ \A x \in Reqs \ {r} : RowsAge(x)
           /\ CreateUser(r) \/ UserAges(r)
           /\ CreateRefreshToken(r) \/ TokenAges(r)
           /\ CreateLoginCode(r) \/ CodeAges(r)
<1>0. /\ req[r].usr \in Ref
      /\ CreateRefreshToken(r) \/ TokensAge
      /\ CreateLoginCode(r) \/ CodesAge
  BY StepAges DEF TypeOK, ReqTypeOK, Request
<1>1. \A x \in Reqs \ {r} : TokenAges(x) /\ CodeAges(x)
  <2>1. CASE Skip
    BY <2>1, SkipAges DEF TokensAge, CodesAge
  <2>2. CASE CreateRefreshToken(r) /\ ~Skip
    BY <1>0, <2>2, InsertTokenEffect DEF CreateRefreshToken, CodesAge, TypeOK
  <2>3. CASE CreateLoginCode(r) /\ ~Skip
    BY <1>0, <2>3, InsertCodeEffect DEF CreateLoginCode, TokensAge, TypeOK
  <2> QED
    BY <1>0, <2>1, <2>2, <2>3 DEF TokensAge, CodesAge
<1>2. \A x \in Reqs : UserAges(x) \/ (x = r /\ CreateUser(r))
  <2>1. CASE UNCHANGED users
    BY <2>1, UsersSame DEF UsersAge
  <2>2. CASE Skip
    BY <2>1, <2>2 DEF Skip, storeVars
  <2>3. CASE CreateUser(r)
    BY <2>2, <2>3, InsertUserEffect DEF CreateUser, TypeOK
  <2>4. CASE UpdateProfile(r)
    BY <1>0, <2>4, UpdateUserAges DEF UpdateProfile, UsersAge, TypeOK
  <2>5. CASE \/ RefreshRevoke(r) \/ LogoutRevoke(r) \/ CreateRefreshToken(r)
             \/ UpdateAccount(r) \/ InsertAccount(r) \/ CreateLoginCode(r)
             \/ ExchangeConsume(r)
    <3>1. Skip \/ UNCHANGED users
      BY <2>5 DEF RefreshRevoke, LogoutRevoke, RevokeRefreshToken,
                  CreateRefreshToken, InsertRefreshToken, UpdateAccount,
                  UpdateAuthAccount, InsertAccount, InsertAuthAccount,
                  CreateLoginCode, InsertLoginCode, ExchangeConsume,
                  ConsumeLoginCode
    <3> QED
      BY <2>1, <2>2, <3>1
  <2>6. CASE \/ RegisterFindUser(r) \/ LoginFindUser(r) \/ LoadUser(r)
             \/ RefreshFindToken(r) \/ RefreshFindUser(r)
             \/ LoadRefreshToken(r) \/ CallbackFindAccount(r)
             \/ CallbackFindLinkedUser(r) \/ CallbackFindUser(r)
             \/ LoadProfile(r) \/ FindForUpsert(r) \/ LoadAccount(r)
             \/ LoadLoginCode(r) \/ ExchangeFindCode(r)
             \/ ExchangeFindUser(r) \/ MeFindUser(r)
    <3>1. Skip
      BY <2>6 DEF RegisterFindUser, LoginFindUser, LoadUser, RefreshFindToken,
                  RefreshFindUser, LoadRefreshToken, CallbackFindAccount,
                  CallbackFindLinkedUser, CallbackFindUser, LoadProfile,
                  FindForUpsert, LoadAccount, LoadLoginCode, ExchangeFindCode,
                  ExchangeFindUser, MeFindUser
    <3> QED
      BY <2>2, <3>1
  <2> QED
    BY <2>3, <2>4, <2>5, <2>6 DEF Step
<1> QED
  BY <1>0, <1>1, <1>2 DEF RowsAge, TokensAge, CodesAge

\* So a row that exists ages, whatever happens.
LEMMA StoredRowsAge ==
    ASSUME TypeOK, CredentialInv, AccountInv, [Next]_vars, NEW x \in Reqs
    PROVE  /\ users[x].status # "free" => UserAges(x)
           /\ refreshTokens[x].status # "free" => TokenAges(x)
           /\ loginCodes[x].status # "free" => CodeAges(x)
<1>1. ASSUME users[x].status # "free"
      PROVE  UserAges(x)
  <2>1. ASSUME NEW r \in Reqs, Arrive(r)
        PROVE  UserAges(x)
    BY <2>1, ArriveSkips, SkipRows DEF RowsAge
  <2>2. ASSUME NEW r \in Reqs, Step(r)
        PROVE  UserAges(x)
    <3>1. CASE CreateUser(r) /\ x = r
      <4>1. req[r].pc # "createUser"
        BY <1>1, <3>1 DEF AccountInv, Knows, RowsNameOwner, Early
      <4> QED
        BY <3>1, <4>1 DEF CreateUser
    <3> QED
      BY <2>2, <3>1, StepRows DEF RowsAge
  <2> QED
    BY <2>1, <2>2, EnvironmentRows DEF Next, AllAnswered, RowsAge
<1> QED
  BY <1>1, NextAges

-----------------------------------------------------------------------------
(* What a request knows stays true while the rows age. *)

ExistingAge ==
    \A x \in Reqs :
        /\ users[x].status # "free" => UserAges(x)
        /\ refreshTokens[x].status # "free" => TokenAges(x)
        /\ loginCodes[x].status # "free" => CodeAges(x)
        /\ refreshTokens'[x].status = "gone" =>
              \/ refreshTokens[x].status = "gone"
              \/ users'[refreshTokens[x].user].status = "gone"

LEMMA NextExistingAge ==
    ASSUME TypeOK, CredentialInv, AccountInv, [Next]_vars
    PROVE  ExistingAge
BY StoredRowsAge, NextWrites DEF ExistingAge

\* A request that stays the same, or goes on with the same user.
LEMMA KnowsKept ==
    ASSUME TypeOK, CredentialInv, AccountInv, ExistingAge, NEW x \in Reqs,
           RowsAge(x), Keeps(x), req'[x].usr = req[x].usr,
           req'[x].pc \in Early => req[x].pc \in Early,
           CallbackKnows(x)'
    PROVE  Knows(x)'
<1>0. /\ Knows(x) /\ RequestInv(x)
      /\ req[x].usr \in Reqs \cup {None} /\ req[x].cred \in Reqs \cup {None}
  BY DEF AccountInv, CredentialInv, TypeOK, ReqTypeOK, Request, Ref
<1> USE DEF Keeps
<1>1. RowsNameOwner(x)'
  <2>1. users'[x].status # "free" => req'[x].pc \notin Early
    BY <1>0 DEF Knows, RowsNameOwner, RowsAge, UserAges
  <2>2. /\ refreshTokens'[x].status # "free"
              => refreshTokens'[x].user = req'[x].usr
        /\ loginCodes'[x].status # "free" => loginCodes'[x].user = req'[x].usr
    BY <1>0 DEF Knows, RowsNameOwner, RowsAge, TokenAges, CodeAges
  <2>3. ASSUME refreshTokens'[x].status = "gone"
        PROVE  req'[x].usr # None /\ users'[req'[x].usr].status = "gone"
    <3>1. refreshTokens[x].status # "free"
      BY <2>3 DEF RowsAge, TokenAges
    <3>2. refreshTokens[x].user = req[x].usr /\ req[x].usr \in Reqs
      BY <1>0, <3>1 DEF Knows, RowsNameOwner, RequestInv, SentIsStored
    <3>3. CASE refreshTokens[x].status = "gone"
      BY <1>0, <3>2, <3>3
         DEF Knows, RowsNameOwner, ExistingAge, UserAges
    <3>4. CASE users'[refreshTokens[x].user].status = "gone"
      BY <3>2, <3>4, NoneIsNoName
    <3> QED
      BY <2>3, <3>3, <3>4 DEF ExistingAge
  <2> QED
    BY <2>1, <2>2, <2>3 DEF RowsNameOwner
<1>2. RegisterKnows(x)'
  BY <1>0 DEF Knows, RegisterKnows
<1>3. LoginKnows(x)'
  BY <1>0 DEF Knows, LoginKnows, ExistingAge, UserAges
<1>4. CredentialKnows(x)'
  BY <1>0 DEF Knows, CredentialKnows, ExistingAge, TokenAges, CodeAges,
              RequestInv, RefreshProgress, ExchangeProgress
<1> QED
  BY <1>1, <1>2, <1>3, <1>4 DEF Knows

LEMMA CallbackKept ==
    ASSUME TypeOK, AccountInv, ExistingAge, NEW x \in Reqs, Keeps(x),
           req'[x].usr = req[x].usr, RowsAge(x),
           req'[x].pc = req[x].pc \/ req'[x].pc = "done"
    PROVE  CallbackKnows(x)'
<1>1. /\ CallbackKnows(x) /\ req[x].usr \in Reqs \cup {None}
      /\ users[x] \in UserRow
      /\ req[x].usr # None => users[req[x].usr] \in UserRow
  BY DEF AccountInv, Knows, TypeOK, StoreTypeOK, ReqTypeOK, Request, Ref
<1>2. /\ UserStored(req[x].usr)' /\ users[req[x].usr].status # "free"
            => UserStored(req[x].usr)
      /\ req[x].usr # None /\ users[req[x].usr].status # "free"
           => UserAges(req[x].usr)
  BY <1>1, NoneIsNoName
     DEF ExistingAge, UserAges, UserStored, UserRow, RowStatus
<1> QED
  BY <1>1, <1>2, NoneIsNoName
     DEF CallbackKnows, Keeps, RowsAge, UserAges, Attested, UserStored

-----------------------------------------------------------------------------
(* The statements, one by one. *)

MovesTo(r, pc, u) == Keeps(r) /\ req'[r].pc = pc /\ req'[r].usr = u

LEMMA MoveEffects ==
    ASSUME ReqTypeOK, NEW r \in Reqs
    PROVE  /\ \A pc : Goto(r, pc) => MovesTo(r, pc, req[r].usr)
           /\ \A a : Reply(r, a) => MovesTo(r, "done", req[r].usr)
           /\ \A u, pc : GotoWithUser(r, u, pc) => MovesTo(r, pc, u)
           /\ \A u : GotoWithProfile(r, u) => MovesTo(r, "updateProfile", u)
           /\ \A row, pc : GotoWithRow(r, row, pc) => MovesTo(r, pc, req[r].usr)
<1> USE DEF ReqTypeOK, Request, MovesTo, Keeps
<1>1. \A pc : Goto(r, pc) => MovesTo(r, pc, req[r].usr)
  BY DEF Goto
<1>2. \A a : Reply(r, a) => MovesTo(r, "done", req[r].usr)
  BY DEF Reply
<1>3. \A u, pc : GotoWithUser(r, u, pc) => MovesTo(r, pc, u)
  BY DEF GotoWithUser
<1>4. \A u : GotoWithProfile(r, u) => MovesTo(r, "updateProfile", u)
  BY DEF GotoWithProfile
<1>5. \A row, pc : GotoWithRow(r, row, pc) => MovesTo(r, pc, req[r].usr)
  BY DEF GotoWithRow
<1> QED
  BY <1>1, <1>2, <1>3, <1>4, <1>5

\* The handler ends, or goes on without a callback's duties.
LEMMA PlainKnows ==
    ASSUME TypeOK, CredentialInv, AccountInv, ExistingAge, NEW r \in Reqs,
           RowsAge(r), NEW pc, MovesTo(r, pc, req[r].usr),
           pc \in Early => req[r].pc \in Early,
           pc = "done" \/ req[r].kind # "callback"
    PROVE  Knows(r)'
<1>1. CallbackKnows(r)'
  BY CallbackKept DEF MovesTo, Keeps, CallbackKnows
<1> QED
  BY <1>1, KnowsKept DEF MovesTo

\* The handler learns its user, before it has stored anything of its own.
LEMMA UserKnows ==
    ASSUME CredentialInv, AccountInv, NEW r \in Reqs, RowsAge(r),
           NEW pc, NEW u, MovesTo(r, pc, u), req[r].pc \notin Late,
           pc \in Early => req[r].pc \in Early,
           (RegisterKnows(r) /\ LoginKnows(r) /\ CredentialKnows(r))',
           CallbackKnows(r)'
    PROVE  Knows(r)'
<1>1. Knows(r) /\ RequestInv(r)
  BY DEF AccountInv, CredentialInv
<1>2. refreshTokens[r].status = "free" /\ loginCodes[r].status = "free"
  BY <1>1 DEF RequestInv, RowsAreFresh, Late
<1>3. RowsNameOwner(r)'
  BY <1>1, <1>2 DEF Knows, RowsNameOwner, RowsAge, UserAges, TokenAges,
                    CodeAges, MovesTo
<1> QED
  BY <1>3 DEF Knows

LEMMA PlainKnowsSteps ==
    ASSUME TypeOK, CredentialInv, AccountInv, ExistingAge, NEW r \in Reqs,
           Step(r),
           \/ RegisterFindUser(r) \/ RefreshFindUser(r) \/ RefreshRevoke(r)
           \/ LogoutRevoke(r) \/ LoadRefreshToken(r) \/ LoadLoginCode(r)
           \/ ExchangeFindUser(r) \/ ExchangeConsume(r) \/ MeFindUser(r)
           \/ \E a : Reply(r, a) /\ Skip
    PROVE  Knows(r)'
<1> USE MoveEffects, PlainKnows DEF TypeOK, At, Early
<1>0. ASSUME ~CreateUser(r), ~CreateRefreshToken(r), ~CreateLoginCode(r)
      PROVE  RowsAge(r)
  BY <1>0, StepRows DEF RowsAge
<1>1. CASE RegisterFindUser(r)
  BY <1>1, SkipRows DEF RegisterFindUser
<1>2. CASE RefreshFindUser(r)
  BY <1>2, SkipRows DEF RefreshFindUser
<1>3. CASE RefreshRevoke(r)
  BY <1>0, <1>3 DEF RefreshRevoke, CreateUser, CreateRefreshToken,
                    CreateLoginCode
<1>4. CASE LogoutRevoke(r)
  BY <1>0, <1>4 DEF LogoutRevoke, CreateUser, CreateRefreshToken,
                    CreateLoginCode
<1>5. CASE LoadRefreshToken(r)
  BY <1>5, SkipRows DEF LoadRefreshToken
<1>6. CASE LoadLoginCode(r)
  BY <1>6, SkipRows DEF LoadLoginCode
<1>7. CASE ExchangeFindUser(r)
  BY <1>7, SkipRows DEF ExchangeFindUser
<1>8. CASE ExchangeConsume(r)
  BY <1>0, <1>8 DEF ExchangeConsume, CreateUser, CreateRefreshToken,
                    CreateLoginCode
<1>9. CASE MeFindUser(r)
  BY <1>9, SkipRows DEF MeFindUser
<1>10. CASE \E a : Reply(r, a) /\ Skip
  BY <1>10, SkipRows
<1> QED
  BY <1>1, <1>2, <1>3, <1>4, <1>5, <1>6, <1>7, <1>8, <1>9, <1>10

\* Register and login: the user is the new one, or has e-mail and password.
LEMMA UserStepsKnow ==
    ASSUME TypeOK, CredentialInv, AccountInv, ExistingAge, NEW r \in Reqs,
           \/ LoginFindUser(r)
           \/ LoadUser(r)
           \/ CreateUser(r)
    PROVE  Knows(r)'
<1> USE DEF TypeOK
<1>r. CASE \E a : Reply(r, a) /\ Skip
  BY <1>r, SkipRows, MoveEffects, PlainKnows DEF Early
<1>1. CASE LoginFindUser(r) /\ ~ \E a : Reply(r, a) /\ Skip
  <2>1. PICK u \in Reqs :
           /\ UserStored(u) /\ users[u].email = req[r].email
           /\ users[u].password
           /\ GotoWithUser(r, u, "createRefreshToken")
    BY <1>1 DEF LoginFindUser, UsersByEmail
  <2>2. /\ RowsAge(r) /\ users' = users /\ req[r].kind = "login"
        /\ req[r].pc = "findUserByEmail"
    BY <1>1, SkipRows DEF LoginFindUser, At, Skip, storeVars
  <2>3. MovesTo(r, "createRefreshToken", u)
    BY <2>1, MoveEffects
  <2>4. LoginKnows(r)'
    BY <2>1, <2>2, <2>3 DEF LoginKnows, MovesTo, Keeps, UserStored
  <2>5. RegisterKnows(r)' /\ CredentialKnows(r)' /\ CallbackKnows(r)'
    BY <2>2, <2>3
       DEF RegisterKnows, CredentialKnows, CallbackKnows, MovesTo, Keeps
  <2> QED
    BY <2>2, <2>3, <2>4, <2>5, UserKnows DEF Late, Early
<1>2. CASE LoadUser(r) /\ ~ \E a : Reply(r, a) /\ Skip
  <2>1. /\ RowsAge(r) /\ users' = users /\ UserStored(r)
        /\ req[r].pc = "loadUser" /\ CallbackKnows(r)
    BY <1>2, SkipRows
       DEF LoadUser, Skip, storeVars, AccountInv, Knows
  <2>2. CASE req[r].kind = "register" /\ MovesTo(r, "createRefreshToken", r)
    <3>1. /\ RegisterKnows(r)' /\ LoginKnows(r)'
          /\ CredentialKnows(r)' /\ CallbackKnows(r)'
      BY <2>2 DEF RegisterKnows, LoginKnows, CredentialKnows, CallbackKnows,
                  MovesTo, Keeps
    <3> QED
      BY <2>1, <2>2, <3>1, UserKnows DEF Late, Early
  <2>3. CASE req[r].kind = "callback" /\ MovesTo(r, "updateProfile", r)
    <3>1. CallbackKnows(r)'
      BY <2>1, <2>3, NoneIsNoName
         DEF CallbackKnows, Attested, MovesTo, Keeps, UserStored
    <3>2. RegisterKnows(r)' /\ LoginKnows(r)' /\ CredentialKnows(r)'
      BY <2>3 DEF RegisterKnows, LoginKnows, CredentialKnows, MovesTo, Keeps
    <3> QED
      BY <2>1, <2>3, <3>1, <3>2, UserKnows DEF Late, Early
  <2> QED
    BY <1>2, <2>2, <2>3, MoveEffects DEF LoadUser
<1>3. CASE CreateUser(r) /\ ~ \E a : Reply(r, a) /\ Skip
  <2> DEFINE p == req[r].kind = "register"
  <2>1. /\ InsertUser(r, req[r].email, p, ~p, req[r].avatar)
        /\ MovesTo(r, "loadUser", req[r].usr) /\ req[r].pc = "createUser"
    BY <1>3, MoveEffects DEF CreateUser
  <2>2. /\ users'[r].status = "stored" /\ users'[r].email = req[r].email
        /\ UNCHANGED <<refreshTokens, authAccounts, loginCodes>>
    BY <2>1, InsertUserEffect
  <2>3. /\ refreshTokens[r].status = "free" /\ loginCodes[r].status = "free"
        /\ users[r].status = "free"
    BY <2>1 DEF CredentialInv, RequestInv, RowsAreFresh, AccountInv, Knows,
                RowsNameOwner, Early
  <2>4. Knows(r) /\ req[r].usr \in Reqs \cup {None}
    BY DEF AccountInv, ReqTypeOK, Request, Ref
  <2>5. RowsNameOwner(r)'
    BY <2>1, <2>2, <2>3 DEF RowsNameOwner, MovesTo, Early
  <2>6. RegisterKnows(r)' /\ CredentialKnows(r)'
    BY <2>1, <2>2, <2>4
       DEF Knows, RegisterKnows, CredentialKnows, MovesTo, Keeps
  <2>7. LoginKnows(r)'
    BY <2>1, <2>4 DEF Knows, LoginKnows, ExistingAge, UserAges, MovesTo, Keeps
  <2>8. CallbackKnows(r)'
    BY <2>1, <2>2, <2>4 DEF Knows, CallbackKnows, ExistingAge, UserAges,
                            Attested, MovesTo, Keeps
  <2> QED
    BY <2>5, <2>6, <2>7, <2>8 DEF Knows
<1> QED
  BY <1>r, <1>1, <1>2, <1>3

\* Refresh and exchange: the user is the owner of the credential.
LEMMA CredentialStepsKnow ==
    ASSUME TypeOK, CredentialInv, AccountInv, ExistingAge, NEW r \in Reqs,
           RefreshFindToken(r) \/ ExchangeFindCode(r)
    PROVE  Knows(r)'
<1> USE DEF TypeOK
<1>r. CASE \E a : Reply(r, a) /\ Skip
  BY <1>r, SkipRows, MoveEffects, PlainKnows DEF Early
<1>1. CASE RefreshFindToken(r) /\ ~ \E a : Reply(r, a) /\ Skip
  <2>1. /\ Skip /\ req[r].kind = "refresh" /\ req[r].pc = "findRefreshToken"
        /\ MovesTo(r, "findUserById", refreshTokens[req[r].cred].user)
    BY <1>1, MoveEffects DEF RefreshFindToken, At
  <2>2. RowsAge(r) /\ refreshTokens' = refreshTokens
    BY <2>1, SkipRows DEF Skip, storeVars
  <2>3. /\ RegisterKnows(r)' /\ LoginKnows(r)' /\ CredentialKnows(r)'
        /\ CallbackKnows(r)'
    BY <2>1, <2>2 DEF RegisterKnows, LoginKnows, CredentialKnows,
                      CallbackKnows, MovesTo, Keeps
  <2> QED
    BY <2>1, <2>2, <2>3, UserKnows DEF Late, Early
<1>2. CASE ExchangeFindCode(r) /\ ~ \E a : Reply(r, a) /\ Skip
  <2>1. /\ Skip /\ req[r].kind = "exchange" /\ req[r].pc = "findLoginCode"
        /\ MovesTo(r, "findUserById", loginCodes[req[r].cred].user)
    BY <1>2, MoveEffects DEF ExchangeFindCode, At
  <2>2. RowsAge(r) /\ loginCodes' = loginCodes
    BY <2>1, SkipRows DEF Skip, storeVars
  <2>3. /\ RegisterKnows(r)' /\ LoginKnows(r)' /\ CredentialKnows(r)'
        /\ CallbackKnows(r)'
    BY <2>1, <2>2 DEF RegisterKnows, LoginKnows, CredentialKnows,
                      CallbackKnows, MovesTo, Keeps
  <2> QED
    BY <2>1, <2>2, <2>3, UserKnows DEF Late, Early
<1> QED
  BY <1>r, <1>1, <1>2

\* A token or a code is stored with the user of its request.
LEMMA InsertsKnow ==
    ASSUME TypeOK, CredentialInv, AccountInv, ExistingAge, NEW r \in Reqs,
           CreateRefreshToken(r) \/ CreateLoginCode(r)
    PROVE  Knows(r)'
<1> USE DEF TypeOK
<1>r. CASE \E a : Reply(r, a) /\ Skip
  BY <1>r, SkipRows, MoveEffects, PlainKnows DEF Early
<1>0. PICK u \in Ref : u = req[r].usr
  BY DEF ReqTypeOK, Request
<1>k. Knows(r) /\ RequestInv(r) /\ req[r].cred \in Reqs \cup {None}
  BY DEF AccountInv, CredentialInv, ReqTypeOK, Request, Ref
<1>1. ASSUME NEW pc, MovesTo(r, pc, u), UserAges(r),
             pc \in {"loadRefreshToken", "loadLoginCode"},
             RowsNameOwner(r)'
      PROVE  Knows(r)'
  <2>1. RegisterKnows(r)'
    BY <1>0, <1>k, <1>1 DEF Knows, RegisterKnows, MovesTo, Keeps
  <2>2. LoginKnows(r)'
    BY <1>0, <1>k, <1>1, NoneIsNoName
       DEF Knows, LoginKnows, MovesTo, Keeps, ExistingAge, UserAges, Ref
  <2>3. CredentialKnows(r)'
    BY <1>0, <1>k, <1>1
       DEF Knows, CredentialKnows, MovesTo, Keeps, ExistingAge, TokenAges,
           CodeAges, RequestInv, RefreshProgress, ExchangeProgress
  <2>4. CallbackKnows(r)'
    BY <1>0, <1>k, <1>1, NoneIsNoName
       DEF Knows, CallbackKnows, MovesTo, Keeps, ExistingAge, UserAges,
           Attested, Ref
  <2> QED
    BY <1>1, <2>1, <2>2, <2>3, <2>4 DEF Knows
<1>2. CASE CreateRefreshToken(r) /\ ~ \E a : Reply(r, a) /\ Skip
  <2>1. /\ InsertRefreshToken(r, u) /\ MovesTo(r, "loadRefreshToken", u)
        /\ users' = users /\ req[r].pc = "createRefreshToken"
    BY <1>0, <1>2, MoveEffects DEF CreateRefreshToken, InsertRefreshToken
  <2>2. /\ refreshTokens'[r].status = "stored" /\ refreshTokens'[r].user = u
        /\ CodeAges(r)
    BY <2>1, InsertTokenEffect DEF CodesAge
  <2>3. loginCodes[r].status = "free"
    BY <1>k, <2>1 DEF RequestInv, RowsAreFresh
  <2>4. RowsNameOwner(r)'
    BY <2>1, <2>2, <2>3 DEF RowsNameOwner, MovesTo, Early, CodeAges
  <2> QED
    BY <1>1, <2>1, <2>4, UsersSame DEF UsersAge
<1>3. CASE CreateLoginCode(r) /\ ~ \E a : Reply(r, a) /\ Skip
  <2>1. /\ InsertLoginCode(r, u) /\ MovesTo(r, "loadLoginCode", u)
        /\ users' = users /\ req[r].pc = "createLoginCode"
    BY <1>0, <1>3, MoveEffects DEF CreateLoginCode, InsertLoginCode, At
  <2>2. /\ loginCodes'[r].status = "stored" /\ loginCodes'[r].user = u
        /\ TokenAges(r)
    BY <2>1, InsertCodeEffect DEF TokensAge
  <2>3. refreshTokens[r].status = "free"
    BY <1>k, <2>1 DEF RequestInv, RowsAreFresh
  <2>4. RowsNameOwner(r)'
    BY <2>1, <2>2, <2>3 DEF RowsNameOwner, MovesTo, Early, TokenAges
  <2> QED
    BY <1>1, <2>1, <2>4, UsersSame DEF UsersAge
<1> QED
  BY <1>r, <1>2, <1>3

\* A callback: its user has an e-mail of its Google account, and is verified
\* before the account is linked.
LEMMA CallbackStepsKnow ==
    ASSUME TypeOK, CredentialInv, AccountInv, ExistingAge, NEW r \in Reqs,
           Step(r),
           \/ CallbackFindAccount(r) \/ CallbackFindLinkedUser(r)
           \/ CallbackFindUser(r) \/ UpdateProfile(r) \/ LoadProfile(r)
           \/ FindForUpsert(r) \/ UpdateAccount(r) \/ InsertAccount(r)
           \/ LoadAccount(r)
    PROVE  Knows(r)'
<1> USE DEF TypeOK
<1>r. CASE \E a : Reply(r, a) /\ Skip
  BY <1>r, SkipRows, MoveEffects, PlainKnows DEF Early
<1>0. RowsAge(r) /\ req[r].kind = "callback"
  BY StepRows
     DEF RowsAge, At, CallbackFindAccount, CallbackFindLinkedUser,
         CallbackFindUser, UpdateProfile, LoadProfile, FindForUpsert,
         UpdateAccount, InsertAccount, LoadAccount, CreateUser,
         CreateRefreshToken, CreateLoginCode
<1>k. CallbackKnows(r) /\ req[r].usr \in Ref /\ req[r].acct \in Accounts
  BY <1>0 DEF AccountInv, Knows, ReqTypeOK, Request
\* The same user, who has aged.
<1>s. ASSUME NEW pc \in Statements \ {"loadUser"},
             MovesTo(r, pc, req[r].usr),
             pc \in Early => req[r].pc \in Early,
             pc \in {"updateProfile", "loadProfile"} => req[r].usr # None,
             pc = "loadProfile" /\ UserStored(req[r].usr)'
                => users'[req[r].usr].verified,
             pc \in {"findUserById", "findForUpsert", "updateAccount",
                     "insertAccount"}
                => req[r].usr # None /\ users[req[r].usr].verified
      PROVE  Knows(r)'
  <2>1. CallbackKnows(r)'
    BY <1>0, <1>k, <1>s, NoneIsNoName
       DEF CallbackKnows, MovesTo, Keeps, ExistingAge, UserAges, Attested,
           Ref, UserStored
  <2> QED
    BY <1>0, <1>s, <2>1, KnowsKept DEF MovesTo
\* A user it has just found.
<1>u. ASSUME NEW pc \in {"findUserById", "updateProfile"}, NEW u \in Reqs,
             MovesTo(r, pc, u), req[r].pc \notin Late, Skip,
             users[u].status # "free", Attested(req[r].acct, users[u].email),
             pc = "findUserById" => users[u].verified
      PROVE  Knows(r)'
  <2>1. users' = users
    BY <1>u DEF Skip, storeVars
  <2>2. CallbackKnows(r)'
    BY <1>k, <1>u, <2>1, NoneIsNoName DEF CallbackKnows, MovesTo, Keeps, Attested
  <2>3. RegisterKnows(r)' /\ LoginKnows(r)' /\ CredentialKnows(r)'
    BY <1>0, <1>u DEF RegisterKnows, LoginKnows, CredentialKnows, MovesTo, Keeps
  <2> QED
    BY <1>0, <1>u, <2>2, <2>3, UserKnows DEF Early
<1> USE MoveEffects DEF At, Statements, Early
<1>1. CASE CallbackFindAccount(r)
  <2> DEFINE account == authAccounts[req[r].acct]
  <2>1. CASE account.row # None
    <3>1. /\ UserStored(account.user) /\ users[account.user].verified
          /\ Attested(req[r].acct, users[account.user].email)
      BY <1>k, <2>1 DEF AccountInv, LinkedToOwner, Attested
    <3>2. MovesTo(r, "findUserById", account.user)
          /\ req[r].pc = "findAuthAccount" /\ Skip
      BY <1>1, <2>1 DEF CallbackFindAccount
    <3> QED
      BY <1>u, <3>1, <3>2 DEF UserStored, Late
  <2>2. CASE account.row = None
    BY <1>1, <1>s, <2>2 DEF CallbackFindAccount
  <2> QED
    BY <2>1, <2>2
<1>2. CASE CallbackFindLinkedUser(r)
  BY <1>k, <1>r, <1>s, <1>2 DEF CallbackFindLinkedUser, CallbackKnows
<1>3. CASE CallbackFindUser(r)
  <2>1. CASE Goto(r, "createUser")
    BY <1>3, <1>s, <2>1 DEF CallbackFindUser
  <2>2. ASSUME NEW u \in UsersByEmail(req[r].email), GotoWithProfile(r, u)
        PROVE  Knows(r)'
    <3>1. /\ u \in Reqs /\ users[u].status # "free"
          /\ users[u].email = req[r].email
      BY <2>2 DEF UsersByEmail, UserStored
    <3>2. MovesTo(r, "updateProfile", u) /\ req[r].pc = "findUserByEmail"
          /\ Skip
      BY <1>3, <2>2 DEF CallbackFindUser
    <3> QED
      BY <1>0, <1>k, <1>u, <3>1, <3>2 DEF CallbackKnows, Late
  <2> QED
    BY <1>3, <2>1, <2>2 DEF CallbackFindUser
<1>4. CASE UpdateProfile(r)
  <2>1. PICK u \in Ref : u = req[r].usr
    BY <1>k
  <2>2. UserStored(u)' => users'[u].verified
    BY <1>4, <2>1, UpdateUserAges DEF UpdateProfile
  <2>3. UserStored(req[r].usr)' => users'[req[r].usr].verified
    BY <1>4, <2>1, <2>2 DEF UpdateProfile, UserStored, MovesTo
  <2> QED
    BY <1>0, <1>4, <1>k, <1>s, <2>3 DEF UpdateProfile, CallbackKnows
<1>5. CASE LoadProfile(r)
  BY <1>k, <1>r, <1>s, <1>5 DEF LoadProfile, CallbackKnows
<1>6. CASE FindForUpsert(r)
  BY <1>k, <1>s, <1>6 DEF FindForUpsert, CallbackKnows
<1>7. CASE UpdateAccount(r)
  BY <1>r, <1>s, <1>7 DEF UpdateAccount
<1>8. CASE InsertAccount(r)
  BY <1>r, <1>s, <1>8 DEF InsertAccount
<1>9. CASE LoadAccount(r)
  BY <1>r, <1>s, <1>9 DEF LoadAccount
<1> QED
  BY <1>1, <1>2, <1>3, <1>4, <1>5, <1>6, <1>7, <1>8, <1>9

\* Whoever arrives knows nobody yet; the access token of "me" names a user,
\* but "me" stores nothing.
LEMMA ArriveKnows ==
    ASSUME TypeOK, CredentialInv, AccountInv, NEW r \in Reqs, Arrive(r)
    PROVE  Knows(r)'
<1>0. /\ Skip /\ req[r].pc = "new"
      /\ RequestInv(r) /\ Knows(r)
  BY ArriveSkips DEF NewRequest, CredentialInv, AccountInv
<1>1. /\ users[r].status = "free" /\ refreshTokens[r].status = "free"
      /\ loginCodes[r].status = "free"
  BY <1>0 DEF RequestInv, RowsAreFresh, Knows, RowsNameOwner, Early
<1>2. /\ req'[r].kind = "me" \/ req'[r].usr = None
      /\ req'[r].kind = "callback" =>
            /\ req'[r].pc \in {"findAuthAccount", "done"}
            /\ Attested(req'[r].acct, req'[r].email)
  <2> USE DEF TypeOK, ReqTypeOK, NewRequest
  <2>1. CASE ArriveRegister(r)
    BY <2>1 DEF ArriveRegister
  <2>2. CASE ArriveLogin(r)
    BY <2>2 DEF ArriveLogin
  <2>3. CASE ArriveRefresh(r)
    BY <2>3 DEF ArriveRefresh
  <2>4. CASE ArriveLogout(r)
    BY <2>4 DEF ArriveLogout
  <2>5. CASE ArriveCallback(r)
    BY <2>5 DEF ArriveCallback, Attested
  <2>6. CASE ArriveExchange(r)
    BY <2>6 DEF ArriveExchange
  <2>7. CASE ArriveMe(r)
    BY <2>7 DEF ArriveMe
  <2> QED
    BY <2>1, <2>2, <2>3, <2>4, <2>5, <2>6, <2>7 DEF Arrive
<1>3. RowsNameOwner(r)'
  BY <1>0, <1>1 DEF RowsNameOwner, Skip, storeVars
<1>4. RegisterKnows(r)' /\ LoginKnows(r)' /\ CredentialKnows(r)'
  BY <1>2 DEF RegisterKnows, LoginKnows, CredentialKnows
<1>5. CallbackKnows(r)'
  BY <1>2 DEF CallbackKnows, Attested
<1> QED
  BY <1>3, <1>4, <1>5 DEF Knows

LEMMA KnowsStep ==
    ASSUME TypeOK, CredentialInv, AccountInv, [Next]_vars
    PROVE  \A x \in Reqs : Knows(x)'
<1> SUFFICES ASSUME NEW x \in Reqs
             PROVE  Knows(x)'
  OBVIOUS
<1>0. ExistingAge
  BY NextExistingAge
\* A request that does not move, or ends.
<1>1. ASSUME RowsAge(x),
             \/ req'[x] = req[x]
             \/ /\ Keeps(x) /\ req'[x].usr = req[x].usr
                /\ req'[x].pc = "done"
      PROVE  Knows(x)'
  <2>1. /\ Keeps(x) /\ req'[x].usr = req[x].usr
        /\ req'[x].pc = req[x].pc \/ req'[x].pc = "done"
    BY <1>1 DEF Keeps
  <2> QED
    BY <1>0, <1>1, <2>1, CallbackKept, KnowsKept DEF Early
<1>2. ASSUME NEW r \in Reqs, Arrive(r)
      PROVE  Knows(x)'
  <2>1. RowsAge(x)
    BY <1>2, ArriveSkips, SkipRows
  <2> QED
    BY <1>1, <1>2, <2>1, ArriveKnows, ArriveEffect DEF TypeOK
<1>3. ASSUME NEW r \in Reqs, Step(r)
      PROVE  Knows(x)'
  <2>1. CASE x # r
    BY <1>1, <1>3, <2>1, StepKeeps, StepRows DEF TypeOK
  <2>2. CASE x = r
    <3>1. CASE \/ RegisterFindUser(r) \/ RefreshFindUser(r)
               \/ RefreshRevoke(r) \/ LogoutRevoke(r) \/ LoadRefreshToken(r)
               \/ LoadLoginCode(r) \/ ExchangeFindUser(r)
               \/ ExchangeConsume(r) \/ MeFindUser(r)
      BY <1>0, <1>3, <2>2, <3>1, PlainKnowsSteps
    <3>2. CASE LoginFindUser(r) \/ LoadUser(r) \/ CreateUser(r)
      BY <1>0, <2>2, <3>2, UserStepsKnow
    <3>3. CASE RefreshFindToken(r) \/ ExchangeFindCode(r)
      BY <1>0, <2>2, <3>3, CredentialStepsKnow
    <3>4. CASE CreateRefreshToken(r) \/ CreateLoginCode(r)
      BY <1>0, <2>2, <3>4, InsertsKnow
    <3>5. CASE \/ CallbackFindAccount(r) \/ CallbackFindLinkedUser(r)
               \/ CallbackFindUser(r) \/ UpdateProfile(r) \/ LoadProfile(r)
               \/ FindForUpsert(r) \/ UpdateAccount(r) \/ InsertAccount(r)
               \/ LoadAccount(r)
      BY <1>0, <1>3, <2>2, <3>5, CallbackStepsKnow
    <3> QED
      BY <1>3, <3>1, <3>2, <3>3, <3>4, <3>5 DEF Step
  <2> QED
    BY <2>1, <2>2
<1>4. CASE Environment \/ UNCHANGED vars
  BY <1>1, <1>4, EnvironmentKeeps, EnvironmentRows DEF TypeOK
<1> QED
  BY <1>2, <1>3, <1>4 DEF Next, AllAnswered

-----------------------------------------------------------------------------
(* The tables. *)

\* A user is new, or was there with the same e-mail.
LEMMA NextUsers ==
    ASSUME TypeOK, CredentialInv, AccountInv, [Next]_vars
    PROVE  \/ UsersAge
           \/ \E r \in Reqs : /\ UsersByEmail(users'[r].email) = {}
                              /\ \A u \in Reqs \ {r} : UserAges(u)
                              /\ authAccounts' = authAccounts
                              /\ users[r].status = "free"
<1>1. ASSUME NEW r \in Reqs, Step(r), ~UserAges(r)
      PROVE  /\ UsersByEmail(users'[r].email) = {}
             /\ \A u \in Reqs \ {r} : UserAges(u)
             /\ authAccounts' = authAccounts
             /\ users[r].status = "free"
  <2>1. CreateUser(r) /\ ~Skip
    BY <1>1, StepRows, SkipRows DEF RowsAge
  <2>2. PICK p \in BOOLEAN :
            InsertUser(r, req[r].email, p, ~p, req[r].avatar)
            /\ req[r].pc = "createUser"
    BY <2>1 DEF CreateUser
  <2>3. users'[r].email = req[r].email /\ authAccounts' = authAccounts
    BY <2>2, InsertUserEffect DEF TypeOK
  <2>4. users[r].status = "free"
    BY <2>2 DEF AccountInv, Knows, RowsNameOwner, Early
  <2> QED
    BY <1>1, <2>2, <2>3, <2>4, StepRows DEF RowsAge, InsertUser
<1>2. ASSUME NEW r \in Reqs, Arrive(r)
      PROVE  UsersAge
  BY <1>2, ArriveSkips, SkipRows DEF UsersAge, RowsAge
<1>3. CASE Environment \/ UNCHANGED vars
  BY <1>3, EnvironmentRows DEF UsersAge, RowsAge
<1>4. ASSUME NEW r \in Reqs, Step(r), UserAges(r)
      PROVE  UsersAge
  BY <1>4, StepRows DEF UsersAge, RowsAge
<1> QED
  BY <1>1, <1>2, <1>3, <1>4 DEF Next, AllAnswered

LEMMA EmailsStep ==
    ASSUME TypeOK, CredentialInv, AccountInv, [Next]_vars
    PROVE  EmailsUnique'
<1>0. \A u \in Reqs : users[u] \in UserRow
  BY DEF TypeOK, StoreTypeOK
<1>1. \A u \in Reqs : UserAges(u) /\ UserStored(u)'
          => UserStored(u) /\ users'[u].email = users[u].email
  BY <1>0 DEF UserAges, UserStored, UserRow, RowStatus
<1>2. CASE UsersAge
  BY <1>1, <1>2 DEF UsersAge, EmailsUnique, AccountInv, UserStored
<1>3. ASSUME NEW r \in Reqs, UsersByEmail(users'[r].email) = {},
             \A u \in Reqs \ {r} : UserAges(u)
      PROVE  EmailsUnique'
  <2> SUFFICES ASSUME NEW u \in Reqs, NEW v \in Reqs,
                      UserStored(u)', UserStored(v)',
                      users'[u].email = users'[v].email
               PROVE  u = v
    BY DEF EmailsUnique
  <2>1. ASSUME NEW w \in Reqs \ {r}, UserStored(w)'
        PROVE  users'[w].email # users'[r].email
    BY <1>1, <1>3, <2>1 DEF UsersByEmail
  <2> QED
    BY <1>1, <1>3, <2>1 DEF EmailsUnique, AccountInv
<1> QED
  BY <1>2, <1>3, NextUsers

\* Only upsertAuthAccount links a Google account, and to the user it holds.
Links(r, a) ==
    LET u == req[r].usr
    IN  /\ Did(r, "callback") /\ req[r].acct = a
        /\ UserStored(u) /\ users' = users /\ authAccounts'[a].user = u
        /\ req[r].pc \in {"updateAccount", "insertAccount"}
        /\ req[r].pc = "insertAccount" => authAccounts[a].row = None

\* Otherwise its link is as it was, and goes with the user.
LinkStays(a) ==
    /\ authAccounts'[a] = authAccounts[a]
    /\ UserStored(authAccounts[a].user) => UserStored(authAccounts[a].user)'

LEMMA NextLinks ==
    ASSUME TypeOK, CredentialInv, AccountInv, [Next]_vars, NEW a \in Accounts,
           authAccounts'[a].row # None
    PROVE  LinkStays(a) \/ \E r \in Reqs : Links(r, a)
<1>0. authAccounts[a] \in AccountRow
  BY DEF TypeOK, StoreTypeOK
<1>1. ASSUME UNCHANGED <<users, authAccounts>>
      PROVE  LinkStays(a)
  BY <1>1 DEF LinkStays, UserStored
<1>2. ASSUME Skip
      PROVE  LinkStays(a)
  BY <1>1, <1>2 DEF Skip, storeVars
<1>3. ASSUME NEW r \in Reqs, Step(r)
      PROVE  LinkStays(a) \/ Links(r, a)
  <2>1. CASE CreateUser(r) /\ ~Skip
    <3>1. PICK p \in BOOLEAN :
              InsertUser(r, req[r].email, p, ~p, req[r].avatar)
      BY <2>1 DEF CreateUser
    <3>2. authAccounts' = authAccounts /\ users'[r].status = "stored"
          /\ \A u \in Reqs \ {r} : users'[u] = users[u]
      BY <3>1 DEF InsertUser, TypeOK, StoreTypeOK, UserRow
    <3> QED
      BY <3>2 DEF LinkStays, UserStored
  <2>2. CASE UpdateProfile(r)
    <3>1. authAccounts' = authAccounts
          /\ \A u \in Reqs : users'[u].status = users[u].status
      BY <2>2 DEF UpdateProfile, UpdateUserOAuthProfile, UserStored, TypeOK,
                  StoreTypeOK, UserRow
    <3> QED
      BY <3>1 DEF LinkStays, UserStored
  <2>3. CASE UpdateAccount(r) /\ ~Skip
    BY <2>3 DEF UpdateAccount, UpdateAuthAccount, At, Links, LinkStays,
                UserStored, TypeOK, StoreTypeOK, AccountRow
  <2>4. CASE InsertAccount(r) /\ ~Skip
    BY <2>4 DEF InsertAccount, InsertAuthAccount, At, Links, LinkStays,
                UserStored, TypeOK, StoreTypeOK, AccountRow
  <2>5. CASE \/ RefreshRevoke(r) \/ LogoutRevoke(r) \/ CreateRefreshToken(r)
             \/ CreateLoginCode(r) \/ ExchangeConsume(r)
    <3>1. Skip \/ UNCHANGED <<users, authAccounts>>
      BY <2>5 DEF RefreshRevoke, LogoutRevoke, RevokeRefreshToken,
                  CreateRefreshToken, InsertRefreshToken, CreateLoginCode,
                  InsertLoginCode, ExchangeConsume, ConsumeLoginCode
    <3> QED
      BY <1>1, <1>2, <3>1
  <2>6. CASE \/ RegisterFindUser(r) \/ LoginFindUser(r) \/ LoadUser(r)
             \/ RefreshFindToken(r) \/ RefreshFindUser(r)
             \/ LoadRefreshToken(r) \/ CallbackFindAccount(r)
             \/ CallbackFindLinkedUser(r) \/ CallbackFindUser(r)
             \/ LoadProfile(r) \/ FindForUpsert(r) \/ LoadAccount(r)
             \/ LoadLoginCode(r) \/ ExchangeFindCode(r)
             \/ ExchangeFindUser(r) \/ MeFindUser(r)
    <3>1. Skip
      BY <2>6 DEF RegisterFindUser, LoginFindUser, LoadUser, RefreshFindToken,
                  RefreshFindUser, LoadRefreshToken, CallbackFindAccount,
                  CallbackFindLinkedUser, CallbackFindUser, LoadProfile,
                  FindForUpsert, LoadAccount, LoadLoginCode, ExchangeFindCode,
                  ExchangeFindUser, MeFindUser
    <3> QED
      BY <1>2, <3>1
  <2> QED
    BY <1>2, <1>3, <2>1, <2>2, <2>3, <2>4, <2>5, <2>6 DEF Step
<1>4. ASSUME NEW r \in Reqs, DbError(r) \/ Expire(r)
      PROVE  LinkStays(a)
  <2>1. Skip \/ UNCHANGED <<users, authAccounts>>
    BY <1>4 DEF DbError, RevokeRefreshToken, Expire, ExpireToken, ExpireCode
  <2> QED
    BY <1>1, <1>2, <2>1
<1>5. ASSUME NEW u \in Reqs, Delete(u)
      PROVE  LinkStays(a)
  BY <1>5 DEF Delete, DeleteUser, NoAccount, LinkStays, UserStored, TypeOK,
              StoreTypeOK
<1> QED
  BY <1>1, <1>2, <1>3, <1>4, <1>5, ArriveSkips
     DEF Next, Environment, AllAnswered, Crash, vars, storeVars

LEMMA LinkedStep ==
    ASSUME TypeOK, CredentialInv, AccountInv, [Next]_vars
    PROVE  LinkedToOwner'
<1> SUFFICES ASSUME NEW a \in Accounts, authAccounts'[a].row # None
             PROVE  /\ UserStored(authAccounts[a].user)'
                    /\ users'[authAccounts'[a].user].verified
                    /\ Attested(a, users'[authAccounts'[a].user].email)
  BY DEF LinkedToOwner, Attested
<1>1. CASE LinkStays(a)
  <2>1. PICK u \in Reqs : u = authAccounts[a].user
    BY <1>1 DEF LinkStays, AccountInv, LinkedToOwner, UserStored
  <2>2. /\ UserStored(u) /\ users[u].verified
        /\ Attested(a, users[u].email)
    BY <1>1, <2>1 DEF LinkStays, AccountInv, LinkedToOwner, Attested
  <2>3. UserAges(u)
    BY <2>2, NextExistingAge DEF ExistingAge, UserStored
  <2> QED
    BY <1>1, <2>1, <2>2, <2>3 DEF LinkStays, UserAges, UserStored, Attested
<1>2. ASSUME NEW r \in Reqs, Links(r, a)
      PROVE  /\ UserStored(authAccounts[a].user)'
             /\ users'[authAccounts'[a].user].verified
             /\ Attested(a, users'[authAccounts'[a].user].email)
  <2>1. CallbackKnows(r)
    BY DEF AccountInv, Knows
  <2> QED
    BY <1>2, <2>1 DEF Links, CallbackKnows, UserStored, Attested
<1> QED
  BY <1>1, <1>2, NextLinks

LEMMA AccountInit == Init => AccountInv
<1> SUFFICES ASSUME Init PROVE AccountInv
  OBVIOUS
<1>1. \A r \in Reqs : Knows(r)
  BY NoneIsNoWord
     DEF Init, StoreInit, NewRequest, Knows, RowsNameOwner, RegisterKnows,
         LoginKnows, CredentialKnows, CallbackKnows, HandlerKinds
<1>2. EmailsUnique /\ LinkedToOwner
  BY DEF Init, StoreInit, EmailsUnique, LinkedToOwner, UserStored, NoAccount
<1> QED
  BY <1>1, <1>2 DEF AccountInv

LEMMA AccountStep ==
    ASSUME TypeOK, CredentialInv, AccountInv, [Next]_vars
    PROVE  AccountInv'
BY KnowsStep, EmailsStep, LinkedStep DEF AccountInv

-----------------------------------------------------------------------------
(* What follows. *)

(* Each handler acts for the user it authenticated, the rows it stores name *)
(* that user, and e-mails and Google accounts lead to one user each.        *)
THEOREM AccountInvariant == Spec => []AccountInv
<1>1. TypeOK /\ CredentialInv /\ AccountInv /\ [Next]_vars => AccountInv'
  BY AccountStep
<1> QED
  BY AccountInit, <1>1, TypeCorrect, CredentialInvariant, PTL DEF Spec

(* A Google account is linked to a verified user with an e-mail Google gave *)
(* for it.                                                                  *)
THEOREM LinksAreVerified == Spec => []LinkedToOwner
<1>1. AccountInv => LinkedToOwner
  BY DEF AccountInv
<1> QED
  BY AccountInvariant, <1>1, PTL

(* Every session belongs to whom its request authenticated.                 *)
THEOREM SessionsAreOwned == Spec => []SessionOwner
<1>1. ASSUME TypeOK, CredentialInv, AccountInv
      PROVE  SessionOwner
  <2> SUFFICES ASSUME NEW r \in Reqs, TokenStored(r)
               PROVE  LET owner == refreshTokens[r].user
                      IN  /\ owner = req[r].usr
                          /\ Did(r, "register") => owner = r
                          /\ Did(r, "login") =>
                                /\ users[owner].email = req[r].email
                                /\ users[owner].password
                          /\ req[r].kind \in {"refresh", "exchange"}
                                => req[r].cred # None
                          /\ Did(r, "refresh")
                                => owner = refreshTokens[req[r].cred].user
                          /\ Did(r, "exchange")
                                => owner = req[req[r].cred].usr
    BY DEF SessionOwner
  <2>1. /\ Knows(r) /\ RequestInv(r) /\ req[r].cred \in Reqs \cup {None}
        /\ refreshTokens[r].status # "free"
    BY <1>1 DEF AccountInv, CredentialInv, TypeOK, ReqTypeOK, Request, Ref,
                TokenStored
  <2>2. refreshTokens[r].user = req[r].usr /\ req[r].usr # None
    BY <2>1 DEF Knows, RowsNameOwner, RequestInv, SentIsStored
  <2>3. Did(r, "exchange") =>
          /\ req[r].cred \in Reqs
          /\ loginCodes[req[r].cred].user = req[req[r].cred].usr
    BY <1>1, <2>1, <2>2 DEF RequestInv, ExchangeProgress, AccountInv, Knows,
                            RowsNameOwner
  <2> QED
    BY <2>1, <2>2, <2>3
       DEF Knows, RegisterKnows, LoginKnows, CredentialKnows, RequestInv,
           RefreshProgress, ExchangeProgress
<1> QED
  BY <1>1, TypeCorrect, CredentialInvariant, AccountInvariant, PTL

(* A pair that reached a client has its row until the user is deleted.      *)
THEOREM PairsAreBacked == Spec => []GrantedIsStored
<1>1. ASSUME TypeOK, CredentialInv, AccountInv
      PROVE  GrantedIsStored
  BY <1>1 DEF GrantedIsStored, Issued, TypeOK, StoreTypeOK, TokenRow,
              RowStatus, TokenStored, CredentialInv, RequestInv, SentIsStored,
              AccountInv, Knows, RowsNameOwner
<1> QED
  BY <1>1, TypeCorrect, CredentialInvariant, AccountInvariant, PTL

(* A Google account whose e-mail does not change is never moved to another  *)
(* user.                                                                    *)
THEOREM AccountsAreNotMoved == Spec => NoRelink
<1>1. ASSUME TypeOK, CredentialInv, AccountInv, [Next]_vars,
             NEW a \in Accounts, EmailIsFixed(a),
             authAccounts[a].row # None, authAccounts'[a].row # None
      PROVE  authAccounts'[a].user = authAccounts[a].user
  <2>1. ASSUME NEW r \in Reqs, Links(r, a)
        PROVE  authAccounts'[a].user = authAccounts[a].user
    <3> DEFINE u == req[r].usr
               v == authAccounts[a].user
    <3>1. UserStored(u) /\ Attested(a, users[u].email)
      BY <1>1, <2>1 DEF Links, AccountInv, Knows, CallbackKnows, UserStored
    <3>2. UserStored(v) /\ Attested(a, users[v].email)
      BY <1>1 DEF AccountInv, LinkedToOwner, Attested
    <3>3. users[u].email = users[v].email
      BY <1>1, <3>1, <3>2 DEF EmailIsFixed, Attested
    <3>4. u = v
      BY <1>1, <3>1, <3>2, <3>3 DEF AccountInv, EmailsUnique, UserStored
    <3> QED
      BY <2>1, <3>4 DEF Links
  <2> QED
    BY <1>1, <2>1, NextLinks DEF LinkStays
<1>2. TypeOK /\ CredentialInv /\ AccountInv /\ [Next]_vars
        => [\A a \in Accounts :
              EmailIsFixed(a) /\ authAccounts[a].row # None
              /\ authAccounts'[a].row # None
                => authAccounts'[a].user = authAccounts[a].user]_vars
  BY <1>1
<1> QED
  BY <1>2, TypeCorrect, CredentialInvariant, AccountInvariant, PTL
     DEF Spec, NoRelink
=============================================================================
