-------------------------- MODULE AuthServiceProofs --------------------------
(***************************************************************************)
(* Theorems about AuthService for any sets of requests, e-mails, accounts  *)
(* and profiles, any number of handlers in flight and any faults:          *)
(*  - types;                                                               *)
(*  - refresh tokens and login codes: the inductive invariant              *)
(*    CredentialInv and what follows from it;                              *)
(*  - the refinement of OneTimeCredential by either of them: initial       *)
(*    states map to initial states and each step to a step.  Nearly every  *)
(*    step maps to Die(S), where S is the set of credentials that stop     *)
(*    being active, most often none.                                       *)
(***************************************************************************)
EXTENDS AuthProperties, TLAPS

-----------------------------------------------------------------------------
(* Types.  First what the three ways to move a request keep. *)

LEMMA GotoType ==
    ASSUME ReqTypeOK, NEW r \in Reqs,
           NEW pc \in Statements, Goto(r, pc)
    PROVE  ReqTypeOK'
BY DEF Goto, Request, ReqTypeOK

LEMMA ReplyType ==
    ASSUME ReqTypeOK, NEW r \in Reqs, NEW a \in Answers, Reply(r, a)
    PROVE  ReqTypeOK'
BY ZenonT(30) DEF Reply, Request, ReqTypeOK

LEMMA GotoWithUserType ==
    ASSUME ReqTypeOK, NEW r \in Reqs, NEW u \in Ref,
           NEW pc \in Statements, GotoWithUser(r, u, pc)
    PROVE  ReqTypeOK'
BY ZenonT(30) DEF GotoWithUser, Request, ReqTypeOK

LEMMA GotoWithProfileType ==
    ASSUME ReqTypeOK, StoreTypeOK, NEW r \in Reqs, NEW u \in Reqs,
           GotoWithProfile(r, u)
    PROVE  ReqTypeOK'
<1>1. users[u].avatar \in BOOLEAN /\ req[r].avatar \in BOOLEAN
  BY DEF StoreTypeOK, UserRow, Request, ReqTypeOK
<1>2. PICK b \in BOOLEAN : b = (req[r].avatar \/ users[u].avatar)
  OBVIOUS
<1>3. req' = [req EXCEPT ![r] = [req[r] EXCEPT
                 !.usr = u, !.avatar = b, !.pc = "updateProfile"]]
  BY <1>2 DEF GotoWithProfile
<1> HIDE <1>2
<1>4. req[r] \in Request
  BY DEF ReqTypeOK
<1>5. [req[r] EXCEPT !.usr = u, !.avatar = b, !.pc = "updateProfile"]
        \in Request
  BY <1>4 DEF Request, Ref, Statements
<1>6. [req[r] EXCEPT !.usr = u, !.avatar = b, !.pc = "updateProfile"].acct
        = req[r].acct
      /\ [req[r] EXCEPT !.usr = u, !.avatar = b, !.pc = "updateProfile"].kind
        = req[r].kind
  BY <1>4 DEF Request
<1> QED
  BY <1>3, <1>5, <1>6 DEF ReqTypeOK

LEMMA GotoWithRowType ==
    ASSUME ReqTypeOK, NEW r \in Reqs, NEW row \in Ref,
           NEW pc \in Statements, GotoWithRow(r, row, pc)
    PROVE  ReqTypeOK'
BY ZenonT(30) DEF GotoWithRow, Request, ReqTypeOK

LEMMA NewRequestType == NewRequest \in Request
BY DEF NewRequest, Request, Ref

LEMMA ReplyAnswers ==
    /\ Grants \subseteq Answers /\ Refusals \subseteq Answers
    /\ Failures \subseteq Answers
BY DEF Answers

\* The writes of the store, whatever constraint guards them.
LEMMA InsertUserType ==
    ASSUME StoreTypeOK, NEW u \in Reqs, NEW e \in Emails \cup {None},
           NEW p \in BOOLEAN, NEW v \in BOOLEAN, NEW a \in BOOLEAN,
           InsertUser(u, e, p, v, a)
    PROVE  StoreTypeOK'
BY DEF InsertUser, StoreTypeOK, UserRow, RowStatus

LEMMA UpdateUserType ==
    ASSUME StoreTypeOK, NEW u \in Ref, NEW a \in BOOLEAN,
           UpdateUserOAuthProfile(u, a)
    PROVE  StoreTypeOK'
BY DEF UpdateUserOAuthProfile, StoreTypeOK, UserRow, UserStored

LEMMA InsertTokenType ==
    ASSUME StoreTypeOK, NEW t \in Reqs, NEW u \in Ref,
           InsertRefreshToken(t, u)
    PROVE  StoreTypeOK'
BY DEF InsertRefreshToken, StoreTypeOK, TokenRow, RowStatus, Ref

LEMMA RevokeTokenType ==
    ASSUME StoreTypeOK, NEW t \in Ref, NEW next \in Ref,
           RevokeRefreshToken(t, next)
    PROVE  StoreTypeOK'
BY DEF RevokeRefreshToken, StoreTypeOK, TokenRow, TokenStored

LEMMA InsertAccountType ==
    ASSUME StoreTypeOK, NEW a \in Accounts, NEW row \in Ref, NEW u \in Ref,
           InsertAuthAccount(a, row, u)
    PROVE  StoreTypeOK'
BY DEF InsertAuthAccount, StoreTypeOK, AccountRow

LEMMA UpdateAccountType ==
    ASSUME StoreTypeOK, NEW a \in Accounts \cup {None}, NEW row \in Ref,
           NEW u \in Ref, UpdateAuthAccount(a, row, u)
    PROVE  StoreTypeOK'
BY DEF UpdateAuthAccount, StoreTypeOK, AccountRow

LEMMA InsertCodeType ==
    ASSUME StoreTypeOK, NEW c \in Reqs, NEW u \in Ref, InsertLoginCode(c, u)
    PROVE  StoreTypeOK'
BY DEF InsertLoginCode, StoreTypeOK, CodeRow, RowStatus

LEMMA ConsumeCodeType ==
    ASSUME StoreTypeOK, NEW c \in Ref, ConsumeLoginCode(c)
    PROVE  StoreTypeOK'
BY DEF ConsumeLoginCode, StoreTypeOK, CodeRow, CodeStored

LEMMA EnvironmentType ==
    ASSUME StoreTypeOK, NEW r \in Reqs,
           ExpireToken(r) \/ ExpireCode(r) \/ DeleteUser(r)
    PROVE  StoreTypeOK'
<1>1. CASE ExpireToken(r)
  BY <1>1 DEF ExpireToken, StoreTypeOK, TokenRow
<1>2. CASE ExpireCode(r)
  BY <1>2 DEF ExpireCode, StoreTypeOK, CodeRow
<1>3. CASE DeleteUser(r)
  <2>1. users' \in [Reqs -> UserRow]
    BY <1>3 DEF DeleteUser, StoreTypeOK, UserRow, RowStatus
  <2>2. refreshTokens' \in [Reqs -> TokenRow]
    BY <1>3 DEF DeleteUser, StoreTypeOK, TokenRow, RowStatus
  <2>3. authAccounts' \in [Accounts -> AccountRow]
    BY <1>3 DEF DeleteUser, StoreTypeOK, AccountRow, NoAccount, Ref
  <2>4. loginCodes' \in [Reqs -> CodeRow]
    BY <1>3 DEF DeleteUser, StoreTypeOK, CodeRow, RowStatus
  <2> QED
    BY <2>1, <2>2, <2>3, <2>4 DEF StoreTypeOK
<1> QED
  BY <1>1, <1>2, <1>3

LEMMA SkipType ==
    ASSUME StoreTypeOK, Skip
    PROVE  StoreTypeOK'
BY DEF Skip, storeVars, StoreTypeOK

LEMMA EnterType ==
    ASSUME TypeOK, NEW r \in Reqs, NEW q \in Request,
           q.kind = "callback" => q.acct # None,
           Skip, req' = [req EXCEPT ![r] = q]
    PROVE  TypeOK'
BY SkipType DEF TypeOK, ReqTypeOK

LEMMA ArriveType ==
    ASSUME TypeOK, NEW r \in Reqs, Arrive(r)
    PROVE  TypeOK'
<1> USE DEF NewRequest, Request, HandlerKinds, Statements, Ref, Answers,
            Refusals, Grants
<1>0. Arrive(r) => Skip
  BY DEF Arrive, ArriveRegister, ArriveLogin, ArriveRefresh, ArriveLogout,
         ArriveCallback, ArriveExchange, ArriveMe, MayArrive
<1>1. CASE ArriveRegister(r)
  <2>1. PICK e \in Emails :
            req' = [req EXCEPT ![r] = [NewRequest EXCEPT
             !.kind = "register", !.pc = "findUserByEmail",
             !.email = e]]
    BY <1>1 DEF ArriveRegister
  <2>2. [NewRequest EXCEPT
             !.kind = "register", !.pc = "findUserByEmail",
             !.email = e] \in Request
    OBVIOUS
  <2> QED
    BY <1>0, <2>1, <2>2, EnterType
<1>2. CASE ArriveLogin(r)
  <2>1. PICK e \in Emails :
            req' = [req EXCEPT ![r] = [NewRequest EXCEPT
             !.kind = "login", !.pc = "findUserByEmail", !.email = e]]
    BY <1>2 DEF ArriveLogin
  <2>2. [NewRequest EXCEPT
             !.kind = "login", !.pc = "findUserByEmail", !.email = e] \in Request
    OBVIOUS
  <2> QED
    BY <1>0, <2>1, <2>2, EnterType
<1>3. CASE ArriveRefresh(r)
  <2> DEFINE q(t, v, w) ==
          [NewRequest EXCEPT
             !.kind = "refresh", !.cred = t, !.stale = w,
             !.pc = IF v THEN "findRefreshToken" ELSE "done",
             !.ans = IF v THEN None ELSE "INVALID_REFRESH_TOKEN"]
  <2>1. PICK t \in Ref :
            req' = [req EXCEPT ![r] =
                      q(t, t # None /\ ~refreshTokens[t].expired,
                        t # None /\ ~TokenActive(t))]
    BY <1>3 DEF ArriveRefresh, Issued
  <2>2. ASSUME NEW v \in BOOLEAN, NEW w \in BOOLEAN
        PROVE  q(t, v, w) \in Request /\ q(t, v, w).kind = "refresh"
    OBVIOUS
  <2>3. /\ (t # None /\ ~refreshTokens[t].expired) \in BOOLEAN
        /\ (t # None /\ ~TokenActive(t)) \in BOOLEAN
    OBVIOUS
  <2> HIDE DEF q
  <2> QED
    BY <1>0, <2>1, <2>2, <2>3, EnterType
<1>4. CASE ArriveLogout(r)
  <2>1. PICK t \in Ref :
            req' = [req EXCEPT ![r] = [NewRequest EXCEPT
             !.kind = "logout", !.cred = t,
             !.pc = "revokeRefreshToken"]]
    BY <1>4 DEF ArriveLogout, Issued
  <2>2. [NewRequest EXCEPT
             !.kind = "logout", !.cred = t,
             !.pc = "revokeRefreshToken"] \in Request
    OBVIOUS
  <2> QED
    BY <1>0, <2>1, <2>2, EnterType
<1>5. CASE ArriveCallback(r)
  <2> DEFINE q(p) ==
          [NewRequest EXCEPT
             !.kind = "callback", !.acct = p.acct, !.email = p.email,
             !.avatar = p.photo,
             !.pc = IF p.email # None THEN "findAuthAccount" ELSE "done",
             !.ans = IF p.email # None THEN None ELSE "GOOGLE_EMAIL_REQUIRED"]
  <2>1. PICK p \in ProfileType : req' = [req EXCEPT ![r] = q(p)]
    BY <1>5, ProfilesAreProfiles DEF ArriveCallback
  <2>2. q(p) \in Request /\ q(p).acct # None
    BY NoneIsNoName DEF ProfileType
  <2> HIDE DEF q
  <2> QED
    BY <1>0, <2>1, <2>2, EnterType
<1>6. CASE ArriveExchange(r)
  <2> DEFINE q(c, w) ==
          [NewRequest EXCEPT
             !.kind = "exchange", !.cred = c, !.stale = w,
             !.pc = "findLoginCode"]
  <2>1. PICK c \in Ref :
            req' = [req EXCEPT ![r] = q(c, c # None /\ ~CodeActive(c))]
    BY <1>6 DEF ArriveExchange, SentCodes
  <2>2. ASSUME NEW w \in BOOLEAN
        PROVE  q(c, w) \in Request /\ q(c, w).kind = "exchange"
    OBVIOUS
  <2>3. (c # None /\ ~CodeActive(c)) \in BOOLEAN
    OBVIOUS
  <2> HIDE DEF q
  <2> QED
    BY <1>0, <2>1, <2>2, <2>3, EnterType
<1>7. CASE ArriveMe(r)
  <2>1. CASE \E t \in Issued :
               req' = [req EXCEPT ![r] = [NewRequest EXCEPT
                          !.kind = "me", !.cred = t, !.usr = req[t].usr,
                          !.pc = "findUserById"]]
    <3>1. PICK t \in Reqs :
               req' = [req EXCEPT ![r] = [NewRequest EXCEPT
                          !.kind = "me", !.cred = t, !.usr = req[t].usr,
                          !.pc = "findUserById"]]
      BY <2>1 DEF Issued
    <3>2. req[t].usr \in Ref
      BY DEF TypeOK, ReqTypeOK
    <3>3. [NewRequest EXCEPT !.kind = "me", !.cred = t, !.usr = req[t].usr,
                             !.pc = "findUserById"] \in Request
      BY <3>2
    <3> QED
      BY <1>0, <3>1, <3>3, EnterType
  <2>2. CASE req' = [req EXCEPT ![r] = [NewRequest EXCEPT
                        !.kind = "me", !.pc = "done",
                        !.ans = "INVALID_ACCESS_TOKEN"]]
    <3>1. [NewRequest EXCEPT !.kind = "me", !.pc = "done",
                             !.ans = "INVALID_ACCESS_TOKEN"] \in Request
      OBVIOUS
    <3> QED
      BY <1>0, <2>2, <3>1, EnterType
  <2> QED
    BY <1>7, <2>1, <2>2 DEF ArriveMe
<1> QED
  BY <1>1, <1>2, <1>3, <1>4, <1>5, <1>6, <1>7 DEF Arrive

LEMMA StepType ==
    ASSUME TypeOK, NEW r \in Reqs, Step(r)
    PROVE  TypeOK'
<1> USE GotoType, ReplyType, GotoWithUserType, GotoWithProfileType,
        GotoWithRowType, SkipType
    DEF TypeOK, At, Statements, Answers, Grants, Refusals, Failures, Ref
<1>0. /\ req[r].email \in Emails \cup {None}
      /\ req[r].cred \in Ref /\ req[r].usr \in Ref /\ req[r].row \in Ref
      /\ req[r].avatar \in BOOLEAN
      /\ req[r].kind = "callback" => req[r].acct \in Accounts
  BY DEF ReqTypeOK, Request
<1>a. \A a \in Accounts : authAccounts[a].row \in Ref
                          /\ authAccounts[a].user \in Ref
  BY DEF StoreTypeOK, AccountRow
<1>1. CASE RegisterFindUser(r)
  BY <1>1, <1>0 DEF RegisterFindUser
<1>2. CASE LoginFindUser(r)
  BY <1>2, <1>0 DEF LoginFindUser, UsersByEmail
<1>3. CASE CreateUser(r)
  BY <1>3, <1>0, InsertUserType DEF CreateUser
<1>4. CASE LoadUser(r)
  BY <1>4, <1>0 DEF LoadUser
<1>5. CASE RefreshFindToken(r)
  BY <1>5, <1>0 DEF RefreshFindToken, StoreTypeOK, TokenRow, TokenActive, TokenStored
<1>6. CASE RefreshFindUser(r)
  BY <1>6, <1>0 DEF RefreshFindUser
<1>7. CASE RefreshRevoke(r)
  BY <1>7, <1>0, RevokeTokenType DEF RefreshRevoke
<1>8. CASE LogoutRevoke(r)
  BY <1>8, <1>0, RevokeTokenType DEF LogoutRevoke
<1>9. CASE CreateRefreshToken(r)
  BY <1>9, <1>0, InsertTokenType DEF CreateRefreshToken
<1>10. CASE LoadRefreshToken(r)
  BY <1>10, <1>0 DEF LoadRefreshToken
<1>11. CASE CallbackFindAccount(r)
  BY <1>11, <1>0, <1>a DEF CallbackFindAccount
<1>12. CASE CallbackFindLinkedUser(r)
  BY <1>12, <1>0 DEF CallbackFindLinkedUser
<1>13. CASE CallbackFindUser(r)
  BY <1>13, <1>0 DEF CallbackFindUser, UsersByEmail
<1>14. CASE UpdateProfile(r)
  BY <1>14, <1>0, UpdateUserType DEF UpdateProfile
<1>15. CASE LoadProfile(r)
  BY <1>15, <1>0 DEF LoadProfile
<1>16. CASE FindForUpsert(r)
  BY <1>16, <1>0, <1>a DEF FindForUpsert
<1>17. CASE UpdateAccount(r)
  BY <1>17, <1>0, UpdateAccountType DEF UpdateAccount
<1>18. CASE InsertAccount(r)
  BY <1>18, <1>0, InsertAccountType DEF InsertAccount
<1>19. CASE LoadAccount(r)
  BY <1>19, <1>0 DEF LoadAccount
<1>20. CASE CreateLoginCode(r)
  BY <1>20, <1>0, InsertCodeType DEF CreateLoginCode
<1>21. CASE LoadLoginCode(r)
  BY <1>21, <1>0 DEF LoadLoginCode
<1>22. CASE ExchangeFindCode(r)
  BY <1>22, <1>0 DEF ExchangeFindCode, StoreTypeOK, CodeRow, CodeActive, CodeStored
<1>23. CASE ExchangeFindUser(r)
  BY <1>23, <1>0 DEF ExchangeFindUser
<1>24. CASE ExchangeConsume(r)
  BY <1>24, <1>0, ConsumeCodeType DEF ExchangeConsume
<1>25. CASE MeFindUser(r)
  BY <1>25, <1>0 DEF MeFindUser
<1> QED
  BY <1>1, <1>2, <1>3, <1>4, <1>5, <1>6, <1>7, <1>8, <1>9,
     <1>10, <1>11, <1>12, <1>13, <1>14, <1>15, <1>16, <1>17, <1>18,
     <1>19, <1>20, <1>21, <1>22, <1>23, <1>24, <1>25
     DEF Step

LEMMA InitType == Init => TypeOK
<1> SUFFICES ASSUME Init PROVE TypeOK
  OBVIOUS
<1> USE DEF Init, StoreInit, RowStatus, Ref
<1>1. users \in [Reqs -> UserRow]
  BY DEF UserRow
<1>2. refreshTokens \in [Reqs -> TokenRow]
  BY DEF TokenRow
<1>3. authAccounts \in [Accounts -> AccountRow]
  BY DEF AccountRow, NoAccount
<1>4. loginCodes \in [Reqs -> CodeRow]
  BY DEF CodeRow
<1>5. ReqTypeOK
  BY NewRequestType, NoneIsNoWord DEF ReqTypeOK, NewRequest, HandlerKinds
<1> QED
  BY <1>1, <1>2, <1>3, <1>4, <1>5 DEF TypeOK, StoreTypeOK

LEMMA CrashType ==
    ASSUME TypeOK, NEW S \in SUBSET InFlight, Crash(S)
    PROVE  TypeOK'
<1>1. StoreTypeOK'
  BY SkipType DEF Crash, TypeOK
<1>2. ReqTypeOK'
  BY ZenonT(30) DEF Crash, TypeOK, ReqTypeOK, Request, Answers, Failures
<1> QED
  BY <1>1, <1>2 DEF TypeOK

LEMMA NextType ==
    ASSUME TypeOK, [Next]_vars
    PROVE  TypeOK'
<1>1. ASSUME NEW r \in Reqs, Arrive(r) \/ Step(r)
      PROVE  TypeOK'
  BY <1>1, ArriveType, StepType
<1>2. ASSUME NEW r \in Reqs, DbError(r)
      PROVE  TypeOK'
  <2>1. req[r].cred \in Ref /\ None \in Ref
    BY DEF TypeOK, ReqTypeOK, Request, Ref
  <2>2. StoreTypeOK'
    BY <1>2, <2>1, SkipType, RevokeTokenType DEF DbError, TypeOK
  <2> QED
    BY <1>2, <2>2, ReplyType DEF DbError, TypeOK, Answers, Failures
<1>3. ASSUME NEW r \in Reqs, Delete(r) \/ Expire(r)
      PROVE  TypeOK'
  BY <1>3, EnvironmentType DEF Delete, Expire, TypeOK, ReqTypeOK
<1>4. CASE UNCHANGED vars
  BY <1>4 DEF vars, storeVars, TypeOK, StoreTypeOK, ReqTypeOK
<1> QED
  BY <1>1, <1>2, <1>3, <1>4, CrashType DEF Next, Environment, AllAnswered

(* The tables and the requests keep their shapes, whatever handlers run,    *)
(* fail or die.                                                             *)
THEOREM TypeCorrect == Spec => []TypeOK
<1>1. TypeOK /\ [Next]_vars => TypeOK'
  BY NextType
<1> QED
  BY InitType, <1>1, PTL DEF Spec

-----------------------------------------------------------------------------
(* A row ages: it is never inserted again, never changes its owner and      *)
(* never becomes active again.                                              *)

TokenAges(t) ==
    /\ refreshTokens'[t].status = "free" <=> refreshTokens[t].status = "free"
    /\ refreshTokens'[t].user = refreshTokens[t].user
    /\ TokenStored(t)' => TokenStored(t)
    /\ TokenActive(t)' => TokenActive(t)

CodeAges(c) ==
    /\ loginCodes'[c].status = "free" <=> loginCodes[c].status = "free"
    /\ loginCodes'[c].user = loginCodes[c].user
    /\ CodeActive(c)' => CodeActive(c)

TokensAge == \A t \in Reqs : TokenAges(t)
CodesAge == \A c \in Reqs : CodeAges(c)

LEMMA TokensSame ==
    ASSUME UNCHANGED refreshTokens
    PROVE  TokensAge
BY DEF TokensAge, TokenAges, TokenStored, TokenActive

LEMMA CodesSame ==
    ASSUME UNCHANGED loginCodes
    PROVE  CodesAge
BY DEF CodesAge, CodeAges, CodeStored, CodeActive

LEMMA RevokeAges ==
    ASSUME StoreTypeOK, NEW t \in Ref, NEW next \in Ref,
           RevokeRefreshToken(t, next)
    PROVE  TokensAge /\ CodesAge /\ ~TokenActive(t)'
<1> USE NoneIsNoName
    DEF RevokeRefreshToken, StoreTypeOK, TokenRow, TokenStored, TokenActive
<1>1. TokensAge
  BY DEF TokensAge, TokenAges
<1>2. ~TokenActive(t)'
  BY DEF Ref
<1> QED
  BY <1>1, <1>2, CodesSame

LEMMA ConsumeAges ==
    ASSUME StoreTypeOK, NEW c \in Ref, ConsumeLoginCode(c)
    PROVE  TokensAge /\ CodesAge /\ ~CodeActive(c)'
<1> USE NoneIsNoName
    DEF ConsumeLoginCode, StoreTypeOK, CodeRow, CodeStored, CodeActive
<1>1. CodesAge
  BY DEF CodesAge, CodeAges
<1>2. ~CodeActive(c)'
  BY DEF Ref
<1> QED
  BY <1>1, <1>2, TokensSame

LEMMA EnvironmentAges ==
    ASSUME StoreTypeOK, NEW r \in Reqs,
           ExpireToken(r) \/ ExpireCode(r) \/ DeleteUser(r)
    PROVE  TokensAge /\ CodesAge
<1>1. CASE ExpireToken(r)
  BY <1>1, CodesSame
     DEF ExpireToken, TokensAge, TokenAges, TokenStored, TokenActive,
         StoreTypeOK, TokenRow
<1>2. CASE ExpireCode(r)
  BY <1>2, TokensSame
     DEF ExpireCode, CodesAge, CodeAges, CodeStored, CodeActive,
         StoreTypeOK, CodeRow
<1>3. CASE DeleteUser(r)
  <2>1. TokensAge
    BY <1>3 DEF DeleteUser, TokensAge, TokenAges, TokenStored, TokenActive,
                StoreTypeOK, TokenRow
  <2>2. CodesAge
    BY <1>3 DEF DeleteUser, CodesAge, CodeAges, CodeStored, CodeActive,
                StoreTypeOK, CodeRow
  <2> QED
    BY <2>1, <2>2
<1> QED
  BY <1>1, <1>2, <1>3

\* An insert makes one active row, in a place that was free, and leaves the
\* others alone.
LEMMA InsertTokenEffect ==
    ASSUME StoreTypeOK, NEW r \in Reqs, NEW u \in Ref,
           InsertRefreshToken(r, u)
    PROVE  /\ refreshTokens'[r].status = "stored"
           /\ refreshTokens'[r].user = u /\ u # None
           /\ \A t \in Reqs \ {r} : TokenAges(t)
           /\ CodesAge
<1>1. refreshTokens'[r].status = "stored" /\ refreshTokens'[r].user = u
  BY DEF InsertRefreshToken, StoreTypeOK, TokenRow
<1>2. u # None
  BY NoneIsNoName DEF InsertRefreshToken, UserStored
<1>3. \A t \in Reqs \ {r} : TokenAges(t)
  BY DEF InsertRefreshToken, StoreTypeOK, TokenRow, TokenAges, TokenStored,
         TokenActive
<1> QED
  BY <1>1, <1>2, <1>3, CodesSame DEF InsertRefreshToken

LEMMA InsertCodeEffect ==
    ASSUME StoreTypeOK, NEW r \in Reqs, NEW u \in Ref, InsertLoginCode(r, u)
    PROVE  /\ loginCodes'[r].status = "stored"
           /\ loginCodes'[r].user = u /\ u # None
           /\ \A c \in Reqs \ {r} : CodeAges(c)
           /\ TokensAge
<1>1. loginCodes'[r].status = "stored" /\ loginCodes'[r].user = u
  BY DEF InsertLoginCode, StoreTypeOK, CodeRow
<1>2. u # None
  BY NoneIsNoName DEF InsertLoginCode, UserStored
<1>3. \A c \in Reqs \ {r} : CodeAges(c)
  BY DEF InsertLoginCode, StoreTypeOK, CodeRow, CodeAges, CodeStored,
         CodeActive
<1> QED
  BY <1>1, <1>2, <1>3, TokensSame DEF InsertLoginCode

-----------------------------------------------------------------------------
(* What a move changes of a request. *)

\* All that the invariant says of a request.
SameView(x) ==
    /\ req'[x].kind = req[x].kind /\ req'[x].cred = req[x].cred
    /\ req'[x].stale = req[x].stale /\ req'[x].usr = req[x].usr
    /\ req'[x].pc = req[x].pc /\ req'[x].ans = req[x].ans

Moves(r, pc, usr, ans) ==
    /\ \A x \in Reqs \ {r} : SameView(x)
    /\ req'[r].kind = req[r].kind /\ req'[r].cred = req[r].cred
    /\ req'[r].stale = req[r].stale
    /\ req'[r].pc = pc /\ req'[r].usr = usr /\ req'[r].ans = ans

LEMMA GotoMoves ==
    ASSUME ReqTypeOK, NEW r \in Reqs, NEW pc, Goto(r, pc)
    PROVE  Moves(r, pc, req[r].usr, req[r].ans)
BY DEF Goto, Moves, SameView, ReqTypeOK, Request

LEMMA ReplyMoves ==
    ASSUME ReqTypeOK, NEW r \in Reqs, NEW a, Reply(r, a)
    PROVE  Moves(r, "done", req[r].usr, a)
BY DEF Reply, Moves, SameView, ReqTypeOK, Request

LEMMA GotoWithUserMoves ==
    ASSUME ReqTypeOK, NEW r \in Reqs, NEW u, NEW pc, GotoWithUser(r, u, pc)
    PROVE  Moves(r, pc, u, req[r].ans)
BY DEF GotoWithUser, Moves, SameView, ReqTypeOK, Request

LEMMA GotoWithProfileMoves ==
    ASSUME ReqTypeOK, NEW r \in Reqs, NEW u, GotoWithProfile(r, u)
    PROVE  Moves(r, "updateProfile", u, req[r].ans)
BY DEF GotoWithProfile, Moves, SameView, ReqTypeOK, Request

LEMMA GotoWithRowMoves ==
    ASSUME ReqTypeOK, NEW r \in Reqs, NEW row, NEW pc, GotoWithRow(r, row, pc)
    PROVE  Moves(r, pc, req[r].usr, req[r].ans)
BY DEF GotoWithRow, Moves, SameView, ReqTypeOK, Request

-----------------------------------------------------------------------------
(* CredentialInv is inductive. *)

USE DEF Did, Answered

LEMMA OthersKeep ==
    ASSUME CredentialInv, NEW x \in Reqs, ReqTypeOK, SameView(x),
           TokenAges(x), CodeAges(x),
           Did(x, "refresh") /\ req[x].cred # None => TokenAges(req[x].cred),
           Did(x, "exchange") /\ req[x].cred # None => CodeAges(req[x].cred)
    PROVE  RequestInv(x)'
<1>0. RequestInv(x)
  BY DEF CredentialInv
<1> USE DEF SameView, TokenAges, CodeAges
<1>1. RowsAreFresh(x)'
  BY <1>0 DEF RequestInv, RowsAreFresh
<1>2. SentIsStored(x)'
  BY <1>0 DEF RequestInv, SentIsStored
<1>3. RefreshProgress(x)'
  BY <1>0 DEF RequestInv, RefreshProgress
<1>4. ExchangeProgress(x)'
  BY <1>0 DEF RequestInv, ExchangeProgress
<1>5. StaleIsCredential(x)'
  BY <1>0 DEF RequestInv, StaleIsCredential
<1> QED
  BY <1>1, <1>2, <1>3, <1>4, <1>5 DEF RequestInv

\* While rows age, only the request that moves needs to be looked at.
LEMMA MoverSuffices ==
    ASSUME CredentialInv, ReqTypeOK, TokensAge, CodesAge, NEW r \in Reqs,
           \A x \in Reqs \ {r} : SameView(x), RequestInv(r)'
    PROVE  CredentialInv'
<1>1. ASSUME NEW x \in Reqs, x # r
      PROVE  RequestInv(x)'
  <2>1. req[x].cred \in Reqs \cup {None}
    BY DEF ReqTypeOK, Request, Ref
  <2> QED
    BY <1>1, <2>1, OthersKeep DEF TokensAge, CodesAge
<1> QED
  BY <1>1 DEF CredentialInv

\* Refusals and failures are always safe.
LEMMA ReplyKeeps ==
    ASSUME CredentialInv, ReqTypeOK, TokensAge, CodesAge, NEW r \in Reqs,
           NEW a \in Answers \ {"tokens", "redirect"}, Reply(r, a)
    PROVE  CredentialInv'
<1>0. Moves(r, "done", req[r].usr, a)
  BY ReplyMoves
<1>1. RequestInv(r) /\ TokenAges(r) /\ CodeAges(r)
  BY DEF CredentialInv, TokensAge, CodesAge
<1>2. /\ req[r].cred # None => TokenAges(req[r].cred)
      /\ req[r].cred # None => CodeAges(req[r].cred)
  BY DEF ReqTypeOK, Request, Ref, TokensAge, CodesAge
<1> USE DEF Moves, TokenAges, CodeAges
<1>3. RowsAreFresh(r)'
  BY <1>0, <1>1 DEF RequestInv, RowsAreFresh
<1>4. SentIsStored(r)'
  BY <1>0, <1>1 DEF RequestInv, SentIsStored
<1>5. RefreshProgress(r)'
  BY <1>0, <1>1, <1>2 DEF RequestInv, RefreshProgress
<1>6. ExchangeProgress(r)'
  BY <1>0, <1>1, <1>2 DEF RequestInv, ExchangeProgress
<1>7. StaleIsCredential(r)'
  BY <1>0, <1>1 DEF RequestInv, StaleIsCredential
<1> QED
  BY <1>0, <1>3, <1>4, <1>5, <1>6, <1>7, MoverSuffices DEF RequestInv

\* The statements that say something of the credential of a request.
Critical ==
    {"findRefreshToken", "findUserById", "revokeRefreshToken",
     "createRefreshToken", "loadRefreshToken", "findLoginCode",
     "consumeLoginCode"}

Late == {"loadRefreshToken", "loadLoginCode", "done"}

\* Going on is safe before the inserts, if the progress of refreshes and
\* exchanges is as the invariant says.
LEMMA GoOnKeeps ==
    ASSUME CredentialInv, ReqTypeOK, TokensAge, CodesAge, NEW r \in Reqs,
           NEW pc, NEW usr, Moves(r, pc, usr, req[r].ans),
           req[r].pc \notin Late, RefreshProgress(r)', ExchangeProgress(r)'
    PROVE  CredentialInv'
<1>1. RequestInv(r) /\ TokenAges(r) /\ CodeAges(r)
  BY DEF CredentialInv, TokensAge, CodesAge
<1> USE DEF Moves, TokenAges, CodeAges, Late
<1>3. RowsAreFresh(r)'
  BY <1>1 DEF RequestInv, RowsAreFresh
<1>4. SentIsStored(r)'
  BY <1>1 DEF RequestInv, SentIsStored
<1>7. StaleIsCredential(r)'
  BY <1>1 DEF RequestInv, StaleIsCredential
<1> QED
  BY <1>3, <1>4, <1>7, MoverSuffices DEF RequestInv

\* That is so for the other handlers, and away from the critical statements.
LEMMA PlainKeeps ==
    ASSUME CredentialInv, ReqTypeOK, TokensAge, CodesAge, NEW r \in Reqs,
           NEW pc, NEW usr, Moves(r, pc, usr, req[r].ans),
           req[r].pc \notin Late,
           \/ req[r].kind \notin {"refresh", "exchange"}
           \/ pc \notin Critical /\ usr = req[r].usr
    PROVE  CredentialInv'
<1>1. RequestInv(r) /\ TokenAges(r) /\ CodeAges(r)
  BY DEF CredentialInv, TokensAge, CodesAge
<1>2. /\ req[r].cred # None => TokenAges(req[r].cred)
      /\ req[r].cred # None => CodeAges(req[r].cred)
  BY DEF ReqTypeOK, Request, Ref, TokensAge, CodesAge
<1> USE DEF Moves, TokenAges, CodeAges, Critical
<1>3. RefreshProgress(r)'
  BY <1>1, <1>2 DEF RequestInv, RefreshProgress
<1>4. ExchangeProgress(r)'
  BY <1>1, <1>2 DEF RequestInv, ExchangeProgress
<1> QED
  BY <1>3, <1>4, GoOnKeeps

-----------------------------------------------------------------------------
(* The actions, one by one. *)

LEMMA SkipAges ==
    ASSUME Skip
    PROVE  TokensAge /\ CodesAge
BY TokensSame, CodesSame DEF Skip, storeVars

LEMMA DbErrorAges ==
    ASSUME TypeOK, NEW r \in Reqs, DbError(r)
    PROVE  TokensAge /\ CodesAge
<1>1. req[r].cred \in Ref /\ None \in Ref
  BY DEF TypeOK, ReqTypeOK, Request, Ref
<1> QED
  BY <1>1, SkipAges, RevokeAges DEF DbError, TypeOK

LEMMA SafeAnswers ==
    (Refusals \cup Failures \cup {"user", "loggedOut"})
        \subseteq Answers \ {"tokens", "redirect"}
BY DEF Answers, Grants, Refusals, Failures

\* Handlers and branches that touch no token and no code.
LEMMA PlainSteps ==
    ASSUME TypeOK, CredentialInv, NEW r \in Reqs,
           \/ RegisterFindUser(r) \/ LoginFindUser(r) \/ CreateUser(r)
           \/ LoadUser(r) \/ CallbackFindAccount(r)
           \/ CallbackFindLinkedUser(r) \/ CallbackFindUser(r)
           \/ UpdateProfile(r) \/ LoadProfile(r) \/ FindForUpsert(r)
           \/ UpdateAccount(r) \/ InsertAccount(r) \/ LoadAccount(r)
           \/ MeFindUser(r)
    PROVE  CredentialInv'
<1> USE SafeAnswers, SkipAges, ReplyKeeps, PlainKeeps,
        GotoMoves, GotoWithUserMoves, GotoWithProfileMoves, GotoWithRowMoves
    DEF TypeOK, At, Late, Critical, Refusals, Failures
<1>1. CASE RegisterFindUser(r)
  BY <1>1 DEF RegisterFindUser
<1>2. CASE LoginFindUser(r)
  BY <1>2 DEF LoginFindUser
<1>3. CASE CreateUser(r)
  <2>1. CASE Goto(r, "loadUser")
    <3>1. TokensAge /\ CodesAge
      BY <1>3, TokensSame, CodesSame DEF CreateUser, InsertUser, Skip, storeVars
    <3>2. req[r].pc = "createUser"
      BY <1>3 DEF CreateUser
    <3>3. Moves(r, "loadUser", req[r].usr, req[r].ans)
      BY <2>1, GotoMoves
    <3> QED
      BY <3>1, <3>2, <3>3, PlainKeeps
  <2>2. CASE Reply(r, "INTERNAL") /\ Skip
    BY <2>2
  <2> QED
    BY <1>3, <2>1, <2>2 DEF CreateUser
<1>4. CASE LoadUser(r)
  BY <1>4 DEF LoadUser
<1>5. CASE CallbackFindAccount(r)
  BY <1>5 DEF CallbackFindAccount
<1>6. CASE CallbackFindLinkedUser(r)
  BY <1>6 DEF CallbackFindLinkedUser
<1>7. CASE CallbackFindUser(r)
  BY <1>7 DEF CallbackFindUser
<1>8. CASE UpdateProfile(r)
  BY <1>8, TokensSame, CodesSame, ZenonT(30) DEF UpdateProfile, UpdateUserOAuthProfile
<1>9. CASE LoadProfile(r)
  BY <1>9 DEF LoadProfile
<1>10. CASE FindForUpsert(r)
  BY <1>10, ZenonT(30) DEF FindForUpsert
<1>11. CASE UpdateAccount(r)
  BY <1>11, TokensSame, CodesSame DEF UpdateAccount, UpdateAuthAccount
<1>12. CASE InsertAccount(r)
  BY <1>12, TokensSame, CodesSame DEF InsertAccount, InsertAuthAccount
<1>13. CASE LoadAccount(r)
  BY <1>13 DEF LoadAccount
<1>14. CASE MeFindUser(r)
  BY <1>14 DEF MeFindUser
<1> QED
  BY <1>1, <1>2, <1>3, <1>4, <1>5, <1>6, <1>7, <1>8, <1>9, <1>10, <1>11,
     <1>12, <1>13, <1>14

LEMMA RefreshSteps ==
    ASSUME TypeOK, CredentialInv, NEW r \in Reqs,
           \/ RefreshFindToken(r) \/ RefreshFindUser(r) \/ RefreshRevoke(r)
    PROVE  CredentialInv'
<1> USE DEF TypeOK, At, Late
<1>0. RequestInv(r)
  BY DEF CredentialInv
<1>1. CASE RefreshFindToken(r)
  <2>1. CASE Reply(r, "INVALID_REFRESH_TOKEN")
    BY <1>1, <2>1, SafeAnswers, SkipAges, ReplyKeeps
       DEF RefreshFindToken, Refusals
  <2>2. CASE /\ TokenActive(req[r].cred)
             /\ GotoWithUser(r, refreshTokens[req[r].cred].user, "findUserById")
    <3> DEFINE t == req[r].cred
               u == refreshTokens[t].user
    <3>1. Moves(r, "findUserById", u, req[r].ans)
      BY <2>2, GotoWithUserMoves
    <3>2. TokensAge /\ CodesAge /\ refreshTokens' = refreshTokens
      BY <1>1, SkipAges DEF RefreshFindToken, Skip, storeVars
    <3>3. t \in Reqs /\ refreshTokens[t].status = "stored"
      BY <2>2 DEF TokenActive, TokenStored
    <3>4. u # None
      BY <3>3 DEF CredentialInv, RequestInv, SentIsStored
    <3>5. RefreshProgress(r)'
      BY <1>0, <1>1, <2>2, <3>1, <3>2, <3>3, <3>4, NoneIsNoName, NoneIsNoWord
         DEF RefreshFindToken, Moves, RequestInv, RefreshProgress,
             RowsAreFresh, TokenActive, TokenStored, Answers, Grants
    <3>6. ExchangeProgress(r)'
      BY <1>1, <3>1 DEF RefreshFindToken, Moves, ExchangeProgress
    <3> QED
      BY <1>1, <3>1, <3>2, <3>5, <3>6, GoOnKeeps DEF RefreshFindToken
  <2> QED
    BY <1>1, <2>1, <2>2 DEF RefreshFindToken
<1>2. CASE RefreshFindUser(r)
  <2>1. CASE Reply(r, "INVALID_REFRESH_TOKEN")
    BY <1>2, <2>1, SafeAnswers, SkipAges, ReplyKeeps
       DEF RefreshFindUser, Refusals
  <2>2. CASE Goto(r, "revokeRefreshToken")
    <3>1. Moves(r, "revokeRefreshToken", req[r].usr, req[r].ans)
      BY <2>2, GotoMoves
    <3>2. TokensAge /\ CodesAge /\ refreshTokens' = refreshTokens
      BY <1>2, SkipAges DEF RefreshFindUser, Skip, storeVars
    <3>3. RefreshProgress(r)'
      BY <1>0, <1>2, <3>1, <3>2
         DEF RefreshFindUser, Moves, RequestInv, RefreshProgress,
             TokenActive, TokenStored
    <3>4. ExchangeProgress(r)'
      BY <1>2, <3>1 DEF RefreshFindUser, Moves, ExchangeProgress
    <3> QED
      BY <1>2, <3>1, <3>2, <3>3, <3>4, GoOnKeeps DEF RefreshFindUser
  <2> QED
    BY <1>2, <2>1, <2>2 DEF RefreshFindUser
<1>3. CASE RefreshRevoke(r)
  <2>0. PICK t \in Ref : t = req[r].cred
    BY DEF ReqTypeOK, Request
  <2>1. Moves(r, "createRefreshToken", req[r].usr, req[r].ans)
    BY <1>3, GotoMoves DEF RefreshRevoke
  <2>2. r \in Ref
    BY DEF Ref
  <2>3. TokensAge /\ CodesAge /\ ~TokenActive(t)'
    BY <1>3, <2>0, <2>2, RevokeAges DEF RefreshRevoke
  <2>4. req[r].usr # None /\ t # None
    BY <1>0, <1>3, <2>0 DEF RefreshRevoke, RequestInv, RefreshProgress
  <2>5. req'[r].cred = t
    BY <2>0, <2>1 DEF Moves
  <2>6. ~TokenActive(req[r].cred)'
    BY <2>3, <2>5 DEF TokenActive, TokenStored
  <2>7. TokenAges(t)
    BY <2>3, <2>4 DEF TokensAge, Ref
  <2>8. RefreshProgress(r)'
    BY <1>0, <1>3, <2>0, <2>1, <2>4, <2>6, <2>7
       DEF Moves, RequestInv, RefreshProgress, TokenAges, RefreshRevoke
  <2>9. ExchangeProgress(r)'
    BY <1>3, <2>1 DEF RefreshRevoke, Moves, ExchangeProgress
  <2> QED
    BY <1>3, <2>1, <2>3, <2>8, <2>9, GoOnKeeps DEF RefreshRevoke
<1> QED
  BY <1>1, <1>2, <1>3

LEMMA LogoutStep ==
    ASSUME TypeOK, CredentialInv, NEW r \in Reqs, LogoutRevoke(r)
    PROVE  CredentialInv'
<1>1. req[r].cred \in Ref /\ None \in Ref
  BY DEF TypeOK, ReqTypeOK, Request, Ref
<1>2. TokensAge /\ CodesAge
  BY <1>1, RevokeAges DEF LogoutRevoke, TypeOK
<1> QED
  BY <1>2, ReplyKeeps, SafeAnswers DEF LogoutRevoke, TypeOK

LEMMA ExchangeSteps ==
    ASSUME TypeOK, CredentialInv, NEW r \in Reqs,
           \/ ExchangeFindCode(r) \/ ExchangeFindUser(r) \/ ExchangeConsume(r)
    PROVE  CredentialInv'
<1> USE DEF TypeOK, At, Late
<1>0. RequestInv(r)
  BY DEF CredentialInv
<1>1. CASE ExchangeFindCode(r)
  <2>1. CASE Reply(r, "INVALID_LOGIN_CODE")
    BY <1>1, <2>1, SafeAnswers, SkipAges, ReplyKeeps
       DEF ExchangeFindCode, Refusals
  <2>2. CASE /\ CodeActive(req[r].cred)
             /\ GotoWithUser(r, loginCodes[req[r].cred].user, "findUserById")
    <3> DEFINE c == req[r].cred
               u == loginCodes[c].user
    <3>1. Moves(r, "findUserById", u, req[r].ans)
      BY <2>2, GotoWithUserMoves
    <3>2. TokensAge /\ CodesAge /\ UNCHANGED <<refreshTokens, loginCodes>>
      BY <1>1, SkipAges DEF ExchangeFindCode, Skip, storeVars
    <3>3. c \in Reqs /\ loginCodes[c].status = "stored"
      BY <2>2 DEF CodeActive, CodeStored
    <3>4. u # None
      BY <3>3 DEF CredentialInv, RequestInv, SentIsStored
    <3>5. ExchangeProgress(r)'
      BY <1>0, <1>1, <2>2, <3>1, <3>2, <3>3, <3>4, NoneIsNoName, NoneIsNoWord
         DEF ExchangeFindCode, Moves, RequestInv, ExchangeProgress,
             RowsAreFresh, CodeActive, CodeStored, TokenStored, Answers, Grants
    <3>6. RefreshProgress(r)'
      BY <1>1, <3>1 DEF ExchangeFindCode, Moves, RefreshProgress
    <3> QED
      BY <1>1, <3>1, <3>2, <3>5, <3>6, GoOnKeeps DEF ExchangeFindCode
  <2> QED
    BY <1>1, <2>1, <2>2 DEF ExchangeFindCode
<1>2. CASE ExchangeFindUser(r)
  <2>1. CASE Reply(r, "INVALID_LOGIN_CODE")
    BY <1>2, <2>1, SafeAnswers, SkipAges, ReplyKeeps
       DEF ExchangeFindUser, Refusals
  <2>2. CASE Goto(r, "consumeLoginCode")
    <3>1. Moves(r, "consumeLoginCode", req[r].usr, req[r].ans)
      BY <2>2, GotoMoves
    <3>2. TokensAge /\ CodesAge /\ UNCHANGED <<refreshTokens, loginCodes>>
      BY <1>2, SkipAges DEF ExchangeFindUser, Skip, storeVars
    <3>3. ExchangeProgress(r)'
      BY <1>0, <1>2, <3>1, <3>2
         DEF ExchangeFindUser, Moves, RequestInv, ExchangeProgress,
             CodeActive, CodeStored, TokenStored
    <3>4. RefreshProgress(r)'
      BY <1>2, <3>1 DEF ExchangeFindUser, Moves, RefreshProgress
    <3> QED
      BY <1>2, <3>1, <3>2, <3>3, <3>4, GoOnKeeps DEF ExchangeFindUser
  <2> QED
    BY <1>2, <2>1, <2>2 DEF ExchangeFindUser
<1>3. CASE ExchangeConsume(r)
  <2>0. PICK c \in Ref : c = req[r].cred
    BY DEF ReqTypeOK, Request
  <2>1. Moves(r, "createRefreshToken", req[r].usr, req[r].ans)
    BY <1>3, GotoMoves DEF ExchangeConsume
  <2>3. TokensAge /\ CodesAge /\ ~CodeActive(c)'
    BY <1>3, <2>0, ConsumeAges DEF ExchangeConsume
  <2>4. req[r].usr # None /\ c # None
    BY <1>0, <1>3, <2>0 DEF ExchangeConsume, RequestInv, ExchangeProgress
  <2>5. req'[r].cred = c
    BY <2>0, <2>1 DEF Moves
  <2>6. ~CodeActive(req[r].cred)'
    BY <2>3, <2>5 DEF CodeActive, CodeStored
  <2>7. CodeAges(c)
    BY <2>3, <2>4 DEF CodesAge, Ref
  <2>8. ExchangeProgress(r)'
    BY <1>0, <1>3, <2>0, <2>1, <2>4, <2>6, <2>7
       DEF Moves, RequestInv, ExchangeProgress, CodeAges, ExchangeConsume
  <2>9. RefreshProgress(r)'
    BY <1>3, <2>1 DEF ExchangeConsume, Moves, RefreshProgress
  <2> QED
    BY <1>3, <2>1, <2>3, <2>8, <2>9, GoOnKeeps DEF ExchangeConsume
<1> QED
  BY <1>1, <1>2, <1>3

\* The pair is stored; a request that presented another token, or no token,
\* is not concerned: nobody can present the one that is only now stored.
LEMMA CreateTokenStep ==
    ASSUME TypeOK, CredentialInv, NEW r \in Reqs, CreateRefreshToken(r)
    PROVE  CredentialInv'
<1> USE DEF TypeOK
<1>1. CASE Reply(r, "INTERNAL") /\ Skip
  BY <1>1, SafeAnswers, SkipAges, ReplyKeeps DEF Failures
<1>2. CASE InsertRefreshToken(r, req[r].usr) /\ Goto(r, "loadRefreshToken")
  <2>0. PICK u \in Ref : u = req[r].usr
    BY DEF ReqTypeOK, Request
  <2>1. Moves(r, "loadRefreshToken", u, req[r].ans)
    BY <1>2, <2>0, GotoMoves
  <2>2. /\ refreshTokens'[r].status = "stored"
        /\ refreshTokens'[r].user = u /\ u # None
        /\ \A t \in Reqs \ {r} : TokenAges(t)
        /\ CodesAge
    BY <1>2, <2>0, InsertTokenEffect
  <2>3. RequestInv(r) /\ req[r].pc = "createRefreshToken"
    BY DEF CredentialInv, CreateRefreshToken
  <2>4. refreshTokens[r].status = "free"
    BY <2>3 DEF RequestInv, RowsAreFresh
  <2>5. \A x \in Reqs : Did(x, "refresh") => req[x].cred # r
    BY <2>4, NoneIsNoName DEF CredentialInv, RequestInv, RefreshProgress
  <2>6. \A x \in Reqs : req[x].cred \in Reqs \cup {None}
    BY DEF ReqTypeOK, Request, Ref
  <2>7. ASSUME NEW x \in Reqs, x # r
        PROVE  RequestInv(x)'
    BY <2>1, <2>2, <2>5, <2>6, <2>7, OthersKeep DEF Moves, CodesAge
  <2>8. RequestInv(r)'
    <3>1. /\ Did(r, "refresh") /\ req[r].cred # None => TokenAges(req[r].cred)
          /\ req[r].cred # None => CodeAges(req[r].cred)
          /\ CodeAges(r)
      BY <2>2, <2>5, <2>6 DEF CodesAge
    <3>2. req[r].ans = None
      BY <2>3 DEF RequestInv, RowsAreFresh
    <3> USE DEF Moves, CodeAges, TokenAges
    <3>3. RowsAreFresh(r)'
      BY <2>1, <2>2, <2>3, <3>1, <3>2 DEF RequestInv, RowsAreFresh
    <3>4. SentIsStored(r)'
      BY <2>1, <2>2, <2>3, <3>1, <3>2, NoneIsNoWord
         DEF RequestInv, SentIsStored, Answers, Grants
    <3>5. RefreshProgress(r)'
      BY <2>0, <2>1, <2>2, <2>3, <3>1 DEF RequestInv, RefreshProgress
    <3>6. ExchangeProgress(r)'
      BY <2>0, <2>1, <2>2, <2>3, <3>1 DEF RequestInv, ExchangeProgress
    <3>7. StaleIsCredential(r)'
      BY <2>1, <2>3 DEF RequestInv, StaleIsCredential
    <3> QED
      BY <3>3, <3>4, <3>5, <3>6, <3>7 DEF RequestInv
  <2> QED
    BY <2>7, <2>8 DEF CredentialInv
<1> QED
  BY <1>1, <1>2 DEF CreateRefreshToken

LEMMA LoadTokenStep ==
    ASSUME TypeOK, CredentialInv, NEW r \in Reqs, LoadRefreshToken(r)
    PROVE  CredentialInv'
<1> USE DEF TypeOK
<1>0. TokensAge /\ CodesAge
  BY SkipAges DEF LoadRefreshToken
<1>1. CASE Reply(r, "INTERNAL")
  BY <1>0, <1>1, SafeAnswers, ReplyKeeps DEF Failures
<1>2. CASE TokenStored(r) /\ Reply(r, "tokens")
  <2>1. Moves(r, "done", req[r].usr, "tokens")
    BY <1>2, ReplyMoves
  <2>2. /\ RequestInv(r) /\ req[r].pc = "loadRefreshToken"
        /\ refreshTokens' = refreshTokens /\ loginCodes' = loginCodes
    BY DEF CredentialInv, LoadRefreshToken, Skip, storeVars
  <2> USE DEF Moves
  <2>3. RowsAreFresh(r)'
    BY <2>1, <2>2 DEF RequestInv, RowsAreFresh
  <2>4. SentIsStored(r)'
    BY <1>2, <2>1, <2>2 DEF RequestInv, SentIsStored, TokenStored
  <2>5. RefreshProgress(r)'
    BY <2>1, <2>2 DEF RequestInv, RefreshProgress, TokenActive, TokenStored
  <2>6. ExchangeProgress(r)'
    BY <2>1, <2>2
       DEF RequestInv, ExchangeProgress, CodeActive, CodeStored, TokenStored
  <2>7. StaleIsCredential(r)'
    BY <2>1, <2>2 DEF RequestInv, StaleIsCredential
  <2> QED
    BY <1>0, <2>1, <2>3, <2>4, <2>5, <2>6, <2>7, MoverSuffices DEF RequestInv
<1> QED
  BY <1>1, <1>2 DEF LoadRefreshToken

LEMMA CreateCodeStep ==
    ASSUME TypeOK, CredentialInv, NEW r \in Reqs, CreateLoginCode(r)
    PROVE  CredentialInv'
<1> USE DEF TypeOK
<1>1. CASE Reply(r, "INTERNAL") /\ Skip
  BY <1>1, SafeAnswers, SkipAges, ReplyKeeps DEF Failures
<1>2. CASE InsertLoginCode(r, req[r].usr) /\ Goto(r, "loadLoginCode")
  <2>0. PICK u \in Ref : u = req[r].usr
    BY DEF ReqTypeOK, Request
  <2>1. Moves(r, "loadLoginCode", u, req[r].ans)
    BY <1>2, <2>0, GotoMoves
  <2>2. /\ loginCodes'[r].status = "stored"
        /\ loginCodes'[r].user = u /\ u # None
        /\ \A c \in Reqs \ {r} : CodeAges(c)
        /\ TokensAge
    BY <1>2, <2>0, InsertCodeEffect
  <2>3. /\ RequestInv(r) /\ req[r].pc = "createLoginCode"
        /\ req[r].kind = "callback"
    BY DEF CredentialInv, CreateLoginCode, At
  <2>4. loginCodes[r].status = "free"
    BY <2>3 DEF RequestInv, RowsAreFresh
  <2>5. \A x \in Reqs : Did(x, "exchange") => req[x].cred # r
    BY <2>4, NoneIsNoName DEF CredentialInv, RequestInv, ExchangeProgress
  <2>6. \A x \in Reqs : req[x].cred \in Reqs \cup {None}
    BY DEF ReqTypeOK, Request, Ref
  <2>7. ASSUME NEW x \in Reqs, x # r
        PROVE  RequestInv(x)'
    BY <2>1, <2>2, <2>5, <2>6, <2>7, OthersKeep DEF Moves, TokensAge
  <2>8. RequestInv(r)'
    <3>1. TokenAges(r)
      BY <2>2 DEF TokensAge
    <3>2. req[r].ans = None
      BY <2>3 DEF RequestInv, RowsAreFresh
    <3> USE DEF Moves, TokenAges
    <3>3. RowsAreFresh(r)'
      BY <2>1, <2>2, <2>3, <3>1, <3>2 DEF RequestInv, RowsAreFresh
    <3>4. SentIsStored(r)'
      BY <2>1, <2>2, <2>3, <3>1, <3>2, NoneIsNoWord
         DEF RequestInv, SentIsStored, Answers, Grants
    <3>5. RefreshProgress(r)' /\ ExchangeProgress(r)' /\ StaleIsCredential(r)'
      BY <2>1, <2>3
         DEF RequestInv, RefreshProgress, ExchangeProgress, StaleIsCredential
    <3> QED
      BY <3>3, <3>4, <3>5 DEF RequestInv
  <2> QED
    BY <2>7, <2>8 DEF CredentialInv
<1> QED
  BY <1>1, <1>2 DEF CreateLoginCode

LEMMA LoadCodeStep ==
    ASSUME TypeOK, CredentialInv, NEW r \in Reqs, LoadLoginCode(r)
    PROVE  CredentialInv'
<1> USE DEF TypeOK
<1>0. TokensAge /\ CodesAge
  BY SkipAges DEF LoadLoginCode
<1>1. CASE Reply(r, "INTERNAL")
  BY <1>0, <1>1, SafeAnswers, ReplyKeeps DEF Failures
<1>2. CASE CodeStored(r) /\ Reply(r, "redirect")
  <2>1. Moves(r, "done", req[r].usr, "redirect")
    BY <1>2, ReplyMoves
  <2>2. /\ RequestInv(r) /\ req[r].pc = "loadLoginCode"
        /\ req[r].kind = "callback"
        /\ refreshTokens' = refreshTokens /\ loginCodes' = loginCodes
    BY DEF CredentialInv, LoadLoginCode, Skip, storeVars, At
  <2> USE DEF Moves
  <2>3. RowsAreFresh(r)'
    BY <2>1, <2>2 DEF RequestInv, RowsAreFresh
  <2>4. SentIsStored(r)'
    BY <1>2, <2>1, <2>2 DEF RequestInv, SentIsStored, CodeStored
  <2>5. RefreshProgress(r)' /\ ExchangeProgress(r)' /\ StaleIsCredential(r)'
    BY <2>1, <2>2
       DEF RequestInv, RefreshProgress, ExchangeProgress, StaleIsCredential
  <2> QED
    BY <1>0, <2>1, <2>3, <2>4, <2>5, MoverSuffices DEF RequestInv
<1> QED
  BY <1>1, <1>2 DEF LoadLoginCode

\* A request arrives with a credential that was sent to a client, and is
\* marked stale exactly when that is dead.
LEMMA ArriveKeeps ==
    ASSUME TypeOK, CredentialInv, NEW r \in Reqs, Arrive(r)
    PROVE  CredentialInv'
<1> USE DEF TypeOK, MayArrive
<1>a. Skip /\ req[r] = NewRequest
  BY DEF Arrive, ArriveRegister, ArriveLogin, ArriveRefresh, ArriveLogout,
         ArriveCallback, ArriveExchange, ArriveMe
<1>0. /\ Skip /\ RequestInv(r) /\ req[r].pc = "new"
      /\ refreshTokens' = refreshTokens /\ loginCodes' = loginCodes
  BY <1>a DEF CredentialInv, Skip, storeVars, NewRequest
<1>1. TokensAge /\ CodesAge
  BY <1>0, SkipAges
<1>2. refreshTokens[r].status = "free" /\ loginCodes[r].status = "free"
  BY <1>0 DEF RequestInv, RowsAreFresh
<1>3. \A x \in Reqs \ {r} : SameView(x)
  BY DEF Arrive, ArriveRegister, ArriveLogin, ArriveRefresh, ArriveLogout,
         ArriveCallback, ArriveExchange, ArriveMe, SameView, ReqTypeOK
<1> USE DEF NewRequest
<1>4. CASE ArriveRegister(r) \/ ArriveLogin(r) \/ ArriveLogout(r)
             \/ ArriveCallback(r) \/ ArriveMe(r)
  <2>1. /\ req'[r].kind \notin {"refresh", "exchange"}
        /\ req'[r].stale = FALSE
        /\ req'[r].ans # None => req'[r].pc = "done"
        /\ req'[r].ans \notin {"tokens", "redirect"}
    <3> USE NoneIsNoWord DEF ReqTypeOK, Answers, Grants
    <3>1. CASE ArriveRegister(r)
      BY <3>1 DEF ArriveRegister
    <3>2. CASE ArriveLogin(r)
      BY <3>2 DEF ArriveLogin
    <3>3. CASE ArriveLogout(r)
      BY <3>3 DEF ArriveLogout
    <3>4. CASE ArriveCallback(r)
      BY <3>4 DEF ArriveCallback
    <3>5. CASE ArriveMe(r)
      BY <3>5, ZenonT(30) DEF ArriveMe
    <3> QED
      BY <1>4, <3>1, <3>2, <3>3, <3>4, <3>5
  <2>2. RequestInv(r)'
    BY <1>0, <1>2, <2>1
       DEF RequestInv, RowsAreFresh, SentIsStored, RefreshProgress,
           ExchangeProgress, StaleIsCredential
  <2> QED
    BY <1>1, <1>3, <2>2, MoverSuffices
<1>5. CASE ArriveRefresh(r)
  <2>1. PICK t \in Issued \cup {None} :
           /\ req'[r].kind = "refresh" /\ req'[r].cred = t
           /\ req'[r].stale = (t # None /\ ~TokenActive(t))
           /\ req'[r].usr = None
           /\ \/ /\ req'[r].pc = "findRefreshToken" /\ req'[r].ans = None
                 /\ t # None
              \/ /\ req'[r].pc = "done"
                 /\ req'[r].ans = "INVALID_REFRESH_TOKEN"
    BY <1>5 DEF ArriveRefresh, ReqTypeOK
  <2>2. t # None => refreshTokens[t].status # "free"
    BY DEF Issued, CredentialInv, RequestInv, SentIsStored
  <2>3. RowsAreFresh(r)' /\ SentIsStored(r)'
    BY <1>0, <1>2, <2>1, NoneIsNoWord
       DEF RowsAreFresh, SentIsStored, Answers, Grants
  <2>4. RefreshProgress(r)'
    BY <1>0, <1>2, <2>1, <2>2, NoneIsNoWord
       DEF RefreshProgress, TokenActive, TokenStored, Answers, Grants
  <2>5. ExchangeProgress(r)' /\ StaleIsCredential(r)'
    BY <2>1 DEF ExchangeProgress, StaleIsCredential
  <2> QED
    BY <1>1, <1>3, <2>3, <2>4, <2>5, MoverSuffices DEF RequestInv
<1>6. CASE ArriveExchange(r)
  <2>1. PICK c \in SentCodes \cup {None} :
           /\ req'[r].kind = "exchange" /\ req'[r].cred = c
           /\ req'[r].stale = (c # None /\ ~CodeActive(c))
           /\ req'[r].usr = None /\ req'[r].ans = None
           /\ req'[r].pc = "findLoginCode"
    BY <1>6 DEF ArriveExchange, ReqTypeOK
  <2>2. c # None => loginCodes[c].status # "free"
    BY DEF SentCodes, CredentialInv, RequestInv, SentIsStored
  <2>3. RowsAreFresh(r)' /\ SentIsStored(r)'
    BY <1>0, <1>2, <2>1, NoneIsNoWord
       DEF RowsAreFresh, SentIsStored, Answers, Grants
  <2>4. ExchangeProgress(r)'
    BY <1>0, <1>2, <2>1, <2>2, NoneIsNoWord
       DEF ExchangeProgress, CodeActive, CodeStored, TokenStored, Answers,
           Grants
  <2>5. RefreshProgress(r)' /\ StaleIsCredential(r)'
    BY <2>1 DEF RefreshProgress, StaleIsCredential
  <2> QED
    BY <1>1, <1>3, <2>3, <2>4, <2>5, MoverSuffices DEF RequestInv
<1> QED
  BY <1>4, <1>5, <1>6 DEF Arrive

LEMMA CrashKeeps ==
    ASSUME TypeOK, CredentialInv, NEW S \in SUBSET InFlight, Crash(S)
    PROVE  CredentialInv'
<1> SUFFICES ASSUME NEW r \in Reqs
             PROVE  RequestInv(r)'
  BY DEF CredentialInv
<1>1. /\ RequestInv(r)
      /\ refreshTokens' = refreshTokens /\ loginCodes' = loginCodes
  BY DEF CredentialInv, Crash, Skip, storeVars
<1>2. /\ req'[r].kind = req[r].kind /\ req'[r].cred = req[r].cred
      /\ req'[r].stale = req[r].stale /\ req'[r].usr = req[r].usr
      /\ \/ req'[r].pc = "done" /\ req'[r].ans = "DROPPED"
         \/ req'[r].pc = req[r].pc /\ req'[r].ans = req[r].ans
  BY DEF Crash, TypeOK, ReqTypeOK, Request
<1>3. RowsAreFresh(r)'
  BY <1>1, <1>2 DEF RequestInv, RowsAreFresh
<1>4. SentIsStored(r)'
  BY <1>1, <1>2 DEF RequestInv, SentIsStored
<1>5. RefreshProgress(r)'
  BY <1>1, <1>2 DEF RequestInv, RefreshProgress, TokenActive, TokenStored
<1>6. ExchangeProgress(r)'
  BY <1>1, <1>2
     DEF RequestInv, ExchangeProgress, CodeActive, CodeStored, TokenStored
<1>7. StaleIsCredential(r)'
  BY <1>1, <1>2 DEF RequestInv, StaleIsCredential
<1> QED
  BY <1>3, <1>4, <1>5, <1>6, <1>7 DEF RequestInv

\* The clock and the administrator only age rows.
LEMMA AgingKeeps ==
    ASSUME TypeOK, CredentialInv, TokensAge, CodesAge, UNCHANGED req
    PROVE  CredentialInv'
<1> SUFFICES ASSUME NEW x \in Reqs
             PROVE  RequestInv(x)'
  BY DEF CredentialInv
<1>1. SameView(x) /\ req[x].cred \in Reqs \cup {None}
  BY DEF SameView, TypeOK, ReqTypeOK, Request, Ref
<1> QED
  BY <1>1, OthersKeep DEF TypeOK, TokensAge, CodesAge

LEMMA CredentialInit == Init => CredentialInv
BY NoneIsNoWord
   DEF Init, StoreInit, NewRequest, CredentialInv, RequestInv, RowsAreFresh,
       SentIsStored, RefreshProgress, ExchangeProgress, StaleIsCredential,
       HandlerKinds, Answers, Grants

LEMMA CredentialStep ==
    ASSUME TypeOK, CredentialInv, [Next]_vars
    PROVE  CredentialInv'
<1>1. ASSUME NEW r \in Reqs, Arrive(r)
      PROVE  CredentialInv'
  BY <1>1, ArriveKeeps
<1>2. ASSUME NEW r \in Reqs, Step(r)
      PROVE  CredentialInv'
  BY <1>2, PlainSteps, RefreshSteps, LogoutStep, ExchangeSteps,
     CreateTokenStep, LoadTokenStep, CreateCodeStep, LoadCodeStep
     DEF Step
<1>3. ASSUME NEW r \in Reqs, DbError(r)
      PROVE  CredentialInv'
  BY <1>3, DbErrorAges, SafeAnswers, ReplyKeeps DEF DbError, TypeOK, Failures
<1>4. ASSUME NEW r \in Reqs, Delete(r) \/ Expire(r)
      PROVE  CredentialInv'
  BY <1>4, EnvironmentAges, AgingKeeps DEF Delete, Expire, TypeOK
<1>5. CASE UNCHANGED vars
  BY <1>5, TokensSame, CodesSame, AgingKeeps DEF vars, storeVars
<1> QED
  BY <1>1, <1>2, <1>3, <1>4, <1>5, CrashKeeps
     DEF Next, Environment, AllAnswered

(* Credentials and the requests that present them stay in step.             *)
THEOREM CredentialInvariant == Spec => []CredentialInv
<1>1. TypeOK /\ CredentialInv /\ [Next]_vars => CredentialInv'
  BY CredentialStep
<1> QED
  BY CredentialInit, TypeCorrect, <1>1, PTL DEF Spec

(* A credential that is dead on arrival is never granted a pair.            *)
THEOREM SpentCredentialsAreRefused == Spec => []SpentNeverGranted
<1>1. CredentialInv => SpentNeverGranted
  BY DEF CredentialInv, RequestInv, RefreshProgress, ExchangeProgress,
         StaleIsCredential, SpentNeverGranted
<1> QED
  BY CredentialInvariant, <1>1, PTL

(* A session obtained with a credential exists only once that is dead.      *)
THEOREM SpentFirst == Spec => []SpentBeforeReplaced
<1>1. CredentialInv => SpentBeforeReplaced
  BY DEF CredentialInv, RequestInv, RefreshProgress, ExchangeProgress,
         SpentBeforeReplaced
<1> QED
  BY CredentialInvariant, <1>1, PTL

-----------------------------------------------------------------------------
(* Holders.  A step is quiet for a request and a kind of credential when it *)
(* neither admits the request nor grants it anything for that kind.         *)

Quiet(kind, x) ==
    /\ (Did(x, kind) /\ req[x].usr # None)'
         <=> Did(x, kind) /\ req[x].usr # None
    /\ (Did(x, kind) /\ Answered(x, "tokens"))'
         <=> Did(x, kind) /\ Answered(x, "tokens")
    /\ Did(x, kind) /\ (req[x].usr # None \/ Answered(x, "tokens"))
         => req'[x].cred = req[x].cred

AllQuiet(kind) == \A x \in Reqs : Quiet(kind, x)

LEMMA QuietHolders ==
    ASSUME NEW kind, AllQuiet(kind)
    PROVE  \A c \in Reqs :
             /\ AdmittedWith(kind, c)' = AdmittedWith(kind, c)
             /\ {r \in Reqs : Served(r, kind, c)}'
                  = {r \in Reqs : Served(r, kind, c)}
BY DEF AllQuiet, Quiet, AdmittedWith, Served

\* Unless a refresh or an exchange is admitted or granted, steps are quiet.
LEMMA MoveIsQuiet ==
    ASSUME NEW kind, NEW r \in Reqs, NEW pc, NEW usr, NEW a,
           Moves(r, pc, usr, a),
           \/ req[r].kind # kind
           \/ /\ usr # None <=> req[r].usr # None
              /\ a = "tokens" <=> req[r].ans = "tokens"
    PROVE  AllQuiet(kind)
BY DEF Moves, SameView, AllQuiet, Quiet

LEMMA ReplyIsQuiet ==
    ASSUME CredentialInv, ReqTypeOK, NEW kind, NEW r \in Reqs,
           req[r].pc # "done", NEW a, Reply(r, a),
           a # "tokens" \/ req[r].kind # kind
    PROVE  AllQuiet(kind)
<1>1. Moves(r, "done", req[r].usr, a)
  BY ReplyMoves
<1>2. req[r].ans # "tokens"
  BY NoneIsNoWord DEF CredentialInv, RequestInv, RowsAreFresh, Answers, Grants
<1> QED
  BY <1>1, <1>2, MoveIsQuiet

LEMMA GotoIsQuiet ==
    ASSUME ReqTypeOK, NEW kind, NEW r \in Reqs, NEW pc, Goto(r, pc)
    PROVE  AllQuiet(kind)
<1>1. Moves(r, pc, req[r].usr, req[r].ans)
  BY GotoMoves
<1> QED
  BY <1>1, MoveIsQuiet

LEMMA GotoWithRowIsQuiet ==
    ASSUME ReqTypeOK, NEW kind, NEW r \in Reqs, NEW row, NEW pc,
           GotoWithRow(r, row, pc)
    PROVE  AllQuiet(kind)
<1>1. Moves(r, pc, req[r].usr, req[r].ans)
  BY GotoWithRowMoves
<1> QED
  BY <1>1, MoveIsQuiet

LEMMA GotoWithUserIsQuiet ==
    ASSUME ReqTypeOK, NEW kind, NEW r \in Reqs, req[r].kind # kind,
           NEW u, NEW pc, GotoWithUser(r, u, pc)
    PROVE  AllQuiet(kind)
<1>1. Moves(r, pc, u, req[r].ans)
  BY GotoWithUserMoves
<1> QED
  BY <1>1, MoveIsQuiet

LEMMA GotoWithProfileIsQuiet ==
    ASSUME ReqTypeOK, NEW kind, NEW r \in Reqs, req[r].kind # kind,
           NEW u, GotoWithProfile(r, u)
    PROVE  AllQuiet(kind)
<1>1. Moves(r, "updateProfile", u, req[r].ans)
  BY GotoWithProfileMoves
<1> QED
  BY <1>1, MoveIsQuiet

LEMMA ArriveSkips ==
    ASSUME NEW r \in Reqs, Arrive(r)
    PROVE  Skip /\ req[r] = NewRequest
BY DEF Arrive, ArriveRegister, ArriveLogin, ArriveRefresh, ArriveLogout,
       ArriveCallback, ArriveExchange, ArriveMe, MayArrive

\* A request that arrives has been admitted to nothing.
LEMMA ArriveIsQuiet ==
    ASSUME ReqTypeOK, NEW kind \in {"refresh", "exchange"}, NEW r \in Reqs,
           Arrive(r)
    PROVE  AllQuiet(kind)
<1>1. req[r] = NewRequest
  BY ArriveSkips
<1>2. ~Did(r, kind)
  BY <1>1, NoneIsNoWord DEF NewRequest, HandlerKinds
<1>3. \A x \in Reqs \ {r} : req'[x] = req[x]
  BY DEF Arrive, ArriveRegister, ArriveLogin, ArriveRefresh, ArriveLogout,
         ArriveCallback, ArriveExchange, ArriveMe, ReqTypeOK
<1>4. ~Did(r, kind)' \/ (req'[r].usr = None /\ req'[r].ans # "tokens")
  <2> USE NoneIsNoWord DEF ReqTypeOK, NewRequest, Answers, Grants
  <2>1. CASE ArriveRegister(r)
    BY <2>1 DEF ArriveRegister
  <2>2. CASE ArriveLogin(r)
    BY <2>2 DEF ArriveLogin
  <2>3. CASE ArriveRefresh(r)
    BY <2>3 DEF ArriveRefresh
  <2>4. CASE ArriveLogout(r)
    BY <2>4 DEF ArriveLogout
  <2>5. CASE ArriveCallback(r)
    BY <2>5 DEF ArriveCallback
  <2>6. CASE ArriveExchange(r)
    BY <2>6 DEF ArriveExchange
  <2>7. CASE ArriveMe(r)
    BY <2>7, ZenonT(30) DEF ArriveMe
  <2> QED
    BY <2>1, <2>2, <2>3, <2>4, <2>5, <2>6, <2>7 DEF Arrive
<1> QED
  BY <1>2, <1>3, <1>4 DEF AllQuiet, Quiet

LEMMA CrashIsQuiet ==
    ASSUME CredentialInv, ReqTypeOK, NEW kind, NEW S \in SUBSET InFlight, Crash(S)
    PROVE  AllQuiet(kind)
<1> SUFFICES ASSUME NEW x \in Reqs
             PROVE  Quiet(kind, x)
  BY DEF AllQuiet
<1>1. /\ req'[x].kind = req[x].kind /\ req'[x].cred = req[x].cred
      /\ req'[x].usr = req[x].usr
      /\ \/ req[x].pc # "done" /\ req'[x].ans = "DROPPED"
         \/ req'[x].ans = req[x].ans
  BY DEF Crash, InFlight, ReqTypeOK, Request
<1>2. req[x].pc # "done" => req[x].ans # "tokens"
  BY NoneIsNoWord DEF CredentialInv, RequestInv, RowsAreFresh, Answers, Grants
<1> QED
  BY <1>1, <1>2 DEF Quiet

\* The steps that admit or grant: the two reads of a credential, and the last
\* step of a pair.
LEMMA StepIsQuiet ==
    ASSUME TypeOK, CredentialInv, NEW kind \in {"refresh", "exchange"},
           NEW r \in Reqs, Step(r),
           ~(RefreshFindToken(r) /\ kind = "refresh"),
           ~(ExchangeFindCode(r) /\ kind = "exchange"),
           ~(LoadRefreshToken(r) /\ req[r].kind = kind)
    PROVE  AllQuiet(kind)
<1> USE GotoIsQuiet, ReplyIsQuiet, GotoWithRowIsQuiet, GotoWithUserIsQuiet,
        GotoWithProfileIsQuiet
    DEF TypeOK, At
<1>1. CASE RegisterFindUser(r)
  BY <1>1 DEF RegisterFindUser
<1>2. CASE LoginFindUser(r)
  BY <1>2 DEF LoginFindUser
<1>3. CASE CreateUser(r)
  BY <1>3 DEF CreateUser
<1>4. CASE LoadUser(r)
  BY <1>4 DEF LoadUser
<1>5. CASE RefreshFindToken(r)
  BY <1>5 DEF RefreshFindToken
<1>6. CASE RefreshFindUser(r)
  BY <1>6 DEF RefreshFindUser
<1>7. CASE RefreshRevoke(r)
  BY <1>7 DEF RefreshRevoke
<1>8. CASE LogoutRevoke(r)
  BY <1>8 DEF LogoutRevoke
<1>9. CASE CreateRefreshToken(r)
  BY <1>9 DEF CreateRefreshToken
<1>10. CASE LoadRefreshToken(r)
  BY <1>10 DEF LoadRefreshToken
<1>11. CASE CallbackFindAccount(r)
  BY <1>11 DEF CallbackFindAccount
<1>12. CASE CallbackFindLinkedUser(r)
  BY <1>12 DEF CallbackFindLinkedUser
<1>13. CASE CallbackFindUser(r)
  BY <1>13 DEF CallbackFindUser
<1>14. CASE UpdateProfile(r)
  BY <1>14 DEF UpdateProfile
<1>15. CASE LoadProfile(r)
  BY <1>15 DEF LoadProfile
<1>16. CASE FindForUpsert(r)
  BY <1>16 DEF FindForUpsert
<1>17. CASE UpdateAccount(r)
  BY <1>17 DEF UpdateAccount
<1>18. CASE InsertAccount(r)
  BY <1>18 DEF InsertAccount
<1>19. CASE LoadAccount(r)
  BY <1>19 DEF LoadAccount
<1>20. CASE CreateLoginCode(r)
  BY <1>20 DEF CreateLoginCode
<1>21. CASE LoadLoginCode(r)
  BY <1>21 DEF LoadLoginCode
<1>22. CASE ExchangeFindCode(r)
  BY <1>22 DEF ExchangeFindCode
<1>23. CASE ExchangeFindUser(r)
  BY <1>23 DEF ExchangeFindUser
<1>24. CASE ExchangeConsume(r)
  BY <1>24 DEF ExchangeConsume
<1>25. CASE MeFindUser(r)
  BY <1>25 DEF MeFindUser
<1> QED
  BY <1>1, <1>2, <1>3, <1>4, <1>5, <1>6, <1>7, <1>8, <1>9, <1>10, <1>11,
     <1>12, <1>13, <1>14, <1>15, <1>16, <1>17, <1>18, <1>19, <1>20, <1>21,
     <1>22, <1>23, <1>24, <1>25 DEF Step

\* Every statement but the two inserts lets rows only age.
LEMMA StepAges ==
    ASSUME TypeOK, NEW r \in Reqs, Step(r)
    PROVE  /\ CreateRefreshToken(r) \/ TokensAge
           /\ CreateLoginCode(r) \/ CodesAge
<1>0. req[r].cred \in Ref /\ r \in Ref /\ None \in Ref /\ req[r].usr \in Ref
  BY DEF TypeOK, ReqTypeOK, Request, Ref
<1>1. CASE Skip
  BY <1>1, SkipAges
<1>2. CASE UNCHANGED <<refreshTokens, loginCodes>>
  BY <1>2, TokensSame, CodesSame
<1>3. CASE RefreshRevoke(r) \/ LogoutRevoke(r)
  BY <1>0, <1>3, RevokeAges DEF RefreshRevoke, LogoutRevoke, TypeOK
<1>4. CASE ExchangeConsume(r)
  BY <1>0, <1>4, ConsumeAges DEF ExchangeConsume, TypeOK
<1>5. CASE CreateRefreshToken(r)
  BY <1>0, <1>1, <1>5, InsertTokenEffect DEF CreateRefreshToken, TypeOK
<1>6. CASE CreateLoginCode(r)
  BY <1>0, <1>1, <1>6, InsertCodeEffect DEF CreateLoginCode, TypeOK
<1>7. CASE CreateUser(r) \/ UpdateProfile(r) \/ UpdateAccount(r)
             \/ InsertAccount(r)
  <2>1. Skip \/ UNCHANGED <<refreshTokens, loginCodes>>
    BY <1>7 DEF CreateUser, InsertUser, UpdateProfile,
                UpdateUserOAuthProfile, UpdateAccount, UpdateAuthAccount,
                InsertAccount, InsertAuthAccount
  <2> QED
    BY <1>1, <1>2, <2>1
<1>8. CASE \/ RegisterFindUser(r) \/ LoginFindUser(r) \/ LoadUser(r)
           \/ RefreshFindToken(r) \/ RefreshFindUser(r) \/ LoadRefreshToken(r)
           \/ CallbackFindAccount(r) \/ CallbackFindLinkedUser(r)
           \/ CallbackFindUser(r) \/ LoadProfile(r) \/ FindForUpsert(r)
           \/ LoadAccount(r) \/ LoadLoginCode(r) \/ ExchangeFindCode(r)
           \/ ExchangeFindUser(r) \/ MeFindUser(r)
  <2>1. Skip
    BY <1>8 DEF RegisterFindUser, LoginFindUser, LoadUser, RefreshFindToken,
                RefreshFindUser, LoadRefreshToken, CallbackFindAccount,
                CallbackFindLinkedUser, CallbackFindUser, LoadProfile,
                FindForUpsert, LoadAccount, LoadLoginCode, ExchangeFindCode,
                ExchangeFindUser, MeFindUser
  <2> QED
    BY <1>1, <2>1
<1> QED
  BY <1>3, <1>4, <1>5, <1>6, <1>7, <1>8 DEF Step

\* A request that finds its credential active is admitted with it.
LEMMA AdmitHolders ==
    ASSUME NEW r \in Reqs, NEW kind, NEW pc, NEW u,
           Moves(r, pc, u, req[r].ans),
           req[r].kind = kind, req[r].usr = None, u # None,
           req[r].ans # "tokens"
    PROVE  /\ r \notin AdmittedWith(kind, req[r].cred)
           /\ \A c \in Reqs :
                /\ AdmittedWith(kind, c)' =
                     IF c = req[r].cred THEN AdmittedWith(kind, c) \cup {r}
                                        ELSE AdmittedWith(kind, c)
                /\ {x \in Reqs : Served(x, kind, c)}'
                     = {x \in Reqs : Served(x, kind, c)}
BY DEF Moves, SameView, AdmittedWith, Served

\* A request that is answered its pair is granted it.
LEMMA GrantHolders ==
    ASSUME NEW r \in Reqs, NEW kind,
           Moves(r, "done", req[r].usr, "tokens"),
           req[r].kind = kind, req[r].usr # None, req[r].ans # "tokens"
    PROVE  /\ r \in AdmittedWith(kind, req[r].cred)
           /\ ~Served(r, kind, req[r].cred)
           /\ \A c \in Reqs :
                /\ AdmittedWith(kind, c)' = AdmittedWith(kind, c)
                /\ {x \in Reqs : Served(x, kind, c)}' =
                     IF c = req[r].cred
                     THEN {x \in Reqs : Served(x, kind, c)} \cup {r}
                     ELSE {x \in Reqs : Served(x, kind, c)}
BY DEF Moves, SameView, AdmittedWith, Served

LEMMA Unanswered ==
    ASSUME CredentialInv, NEW r \in Reqs, req[r].pc # "done"
    PROVE  req[r].ans = None /\ req[r].ans # "tokens"
BY NoneIsNoWord DEF CredentialInv, RequestInv, RowsAreFresh, Answers, Grants

LEMMA EnvironmentIsQuiet ==
    ASSUME TypeOK, CredentialInv, NEW kind \in {"refresh", "exchange"},
           Environment \/ UNCHANGED vars
    PROVE  AllQuiet(kind) /\ TokensAge /\ CodesAge
<1>1. UNCHANGED req => AllQuiet(kind)
  BY DEF AllQuiet, Quiet
<1>2. ASSUME NEW r \in Reqs, DbError(r)
      PROVE  AllQuiet(kind) /\ TokensAge /\ CodesAge
  BY <1>2, ReplyIsQuiet, DbErrorAges DEF DbError, InFlight, TypeOK
<1>3. ASSUME NEW r \in Reqs, Delete(r) \/ Expire(r)
      PROVE  AllQuiet(kind) /\ TokensAge /\ CodesAge
  BY <1>1, <1>3, EnvironmentAges DEF Delete, Expire, TypeOK
<1>4. ASSUME NEW S \in SUBSET InFlight, Crash(S)
      PROVE  AllQuiet(kind) /\ TokensAge /\ CodesAge
  BY <1>4, CrashIsQuiet, SkipAges DEF Crash, TypeOK
<1>5. CASE UNCHANGED vars
  BY <1>1, <1>5, TokensSame, CodesSame DEF vars, storeVars
<1> QED
  BY <1>2, <1>3, <1>4, <1>5 DEF Environment

-----------------------------------------------------------------------------
(* Refresh tokens *)

\* A quiet step in which tokens age kills those that stop being active.
LEMMA TokensDie ==
    ASSUME TokensAge, AllQuiet("refresh")
    PROVE  Tokens!CredNext
<1> DEFINE S == {t \in Reqs : TokenActive(t) /\ ~(TokenActive(t)')}
<1>1. \A t \in S : [x \in Reqs |-> TokenState(x)][t] = "live"
  BY DEF TokenState, TokenActive, TokenStored
<1>2. \A t \in Reqs : TokenState(t)'
                        = IF t \in S THEN "dead" ELSE TokenState(t)
  BY DEF TokensAge, TokenAges, TokenState, TokenActive, TokenStored
<1>3. /\ \A t \in Reqs : AdmittedWith("refresh", t)'
                          = AdmittedWith("refresh", t)
      /\ \A t \in Reqs : RefreshedBy(t)' = RefreshedBy(t)
  BY QuietHolders DEF RefreshedBy
<1>4. Tokens!Die(S)
  BY <1>1, <1>2, <1>3 DEF Tokens!Die
<1> QED
  BY <1>4 DEF Tokens!CredNext

LEMMA TokenAdmitted ==
    ASSUME TypeOK, CredentialInv, NEW r \in Reqs, RefreshFindToken(r),
           ~Reply(r, "INVALID_REFRESH_TOKEN")
    PROVE  Tokens!CredNext
<1> DEFINE t == req[r].cred
           u == refreshTokens[t].user
<1>1. /\ TokenActive(t) /\ GotoWithUser(r, u, "findUserById") /\ Skip
      /\ req[r].kind = "refresh" /\ req[r].pc = "findRefreshToken"
  BY DEF RefreshFindToken, At
<1>2. t \in Reqs /\ refreshTokens[t].status = "stored"
  BY <1>1 DEF TokenActive, TokenStored
<1>3. u # None
  BY <1>2 DEF CredentialInv, RequestInv, SentIsStored
<1>4. req[r].usr = None
  BY <1>1 DEF CredentialInv, RequestInv, RefreshProgress
<1>5. Moves(r, "findUserById", u, req[r].ans)
  BY <1>1, GotoWithUserMoves DEF TypeOK
<1>6. req[r].ans # "tokens"
  BY <1>1, Unanswered
<1>7. /\ r \notin AdmittedWith("refresh", t)
      /\ \A c \in Reqs :
           /\ AdmittedWith("refresh", c)' =
                IF c = t THEN AdmittedWith("refresh", c) \cup {r}
                         ELSE AdmittedWith("refresh", c)
           /\ RefreshedBy(c)' = RefreshedBy(c)
  BY <1>1, <1>3, <1>4, <1>5, <1>6, AdmitHolders DEF RefreshedBy
<1>8. \A c \in Reqs : TokenState(c)' = TokenState(c)
  BY <1>1 DEF Skip, storeVars, TokenState, TokenActive, TokenStored
<1>9. TokenState(t) = "live"
  BY <1>1, <1>2 DEF TokenState
<1>10. Tokens!Admit(t, r)
  BY <1>2, <1>7, <1>8, <1>9 DEF Tokens!Admit
<1> QED
  BY <1>2, <1>10 DEF Tokens!CredNext

LEMMA TokenGranted ==
    ASSUME TypeOK, CredentialInv, NEW r \in Reqs, LoadRefreshToken(r),
           req[r].kind = "refresh", Reply(r, "tokens")
    PROVE  Tokens!CredNext
<1> DEFINE t == req[r].cred
<1>1. Skip /\ req[r].pc = "loadRefreshToken"
  BY DEF LoadRefreshToken
<1>2. req[r].usr # None /\ t # None /\ ~TokenActive(t)
  BY <1>1 DEF CredentialInv, RequestInv, RefreshProgress
<1>3. t \in Reqs /\ refreshTokens[t].status # "free"
  BY <1>2 DEF CredentialInv, RequestInv, RefreshProgress, TypeOK, ReqTypeOK,
              Request, Ref
<1>4. Moves(r, "done", req[r].usr, "tokens")
  BY ReplyMoves DEF TypeOK
<1>5. req[r].ans # "tokens"
  BY <1>1, Unanswered
<1>6. /\ r \in AdmittedWith("refresh", t) /\ ~Served(r, "refresh", t)
      /\ \A c \in Reqs :
           /\ AdmittedWith("refresh", c)' = AdmittedWith("refresh", c)
           /\ RefreshedBy(c)' = IF c = t THEN RefreshedBy(c) \cup {r}
                                         ELSE RefreshedBy(c)
  BY <1>2, <1>4, <1>5, GrantHolders DEF RefreshedBy
<1>7. r \notin RefreshedBy(t)
  BY <1>6 DEF RefreshedBy
<1>8. \A c \in Reqs : TokenState(c)' = TokenState(c)
  BY <1>1 DEF Skip, storeVars, TokenState, TokenActive, TokenStored
<1>9. TokenState(t) = "dead"
  BY <1>2, <1>3 DEF TokenState
<1>10. Tokens!Grant(t, r)
  BY <1>3, <1>6, <1>7, <1>8, <1>9 DEF Tokens!Grant
<1> QED
  BY <1>3, <1>10 DEF Tokens!CredNext

LEMMA TokenIssued ==
    ASSUME TypeOK, CredentialInv, NEW r \in Reqs, CreateRefreshToken(r),
           ~Skip
    PROVE  Tokens!CredNext
<1>0. PICK u \in Ref : u = req[r].usr
  BY DEF TypeOK, ReqTypeOK, Request
<1>1. /\ InsertRefreshToken(r, u) /\ Goto(r, "loadRefreshToken")
      /\ req[r].pc = "createRefreshToken"
  BY <1>0 DEF CreateRefreshToken
<1>2. refreshTokens[r].status = "free"
  BY <1>1 DEF CredentialInv, RequestInv, RowsAreFresh
<1>3. TokenState(r) = "unissued" /\ TokenState(r)' = "live"
  BY <1>1, <1>2 DEF InsertRefreshToken, TypeOK, StoreTypeOK, TokenRow,
                    TokenState, TokenActive, TokenStored
<1>4. \A c \in Reqs \ {r} : TokenState(c)' = TokenState(c)
  BY <1>1 DEF InsertRefreshToken, TypeOK, StoreTypeOK, TokenRow,
              TokenState, TokenActive, TokenStored
<1>5. AllQuiet("refresh")
  BY <1>1, GotoIsQuiet DEF TypeOK
<1>6. \A c \in Reqs : /\ AdmittedWith("refresh", c)' = AdmittedWith("refresh", c)
                      /\ RefreshedBy(c)' = RefreshedBy(c)
  BY <1>5, QuietHolders DEF RefreshedBy
<1>7. Tokens!Issue(r)
  BY <1>3, <1>4, <1>6 DEF Tokens!Issue
<1> QED
  BY <1>7 DEF Tokens!CredNext

LEMMA TokensStep ==
    ASSUME TypeOK, CredentialInv, [Next]_vars
    PROVE  Tokens!CredNext
<1>1. ASSUME NEW r \in Reqs, Arrive(r)
      PROVE  Tokens!CredNext
  BY <1>1, ArriveIsQuiet, ArriveSkips, SkipAges, TokensDie DEF TypeOK
<1>2. ASSUME NEW r \in Reqs, Step(r)
      PROVE  Tokens!CredNext
  <2>1. CASE RefreshFindToken(r)
    <3>1. CASE Reply(r, "INVALID_REFRESH_TOKEN")
      <4>1. AllQuiet("refresh") /\ Skip
        BY <2>1, <3>1, ReplyIsQuiet DEF RefreshFindToken, At, TypeOK
      <4> QED
        BY <4>1, SkipAges, TokensDie
    <3> QED
      BY <2>1, <3>1, TokenAdmitted
  <2>2. CASE LoadRefreshToken(r) /\ req[r].kind = "refresh"
    <3>1. CASE Reply(r, "INTERNAL")
      <4>1. AllQuiet("refresh") /\ Skip
        BY <2>2, <3>1, ReplyIsQuiet DEF LoadRefreshToken, TypeOK
      <4> QED
        BY <4>1, SkipAges, TokensDie
    <3>2. CASE Reply(r, "tokens")
      BY <2>2, <3>2, TokenGranted
    <3> QED
      BY <2>2, <3>1, <3>2 DEF LoadRefreshToken
  <2>3. CASE CreateRefreshToken(r)
    <3>1. CASE Skip
      <4>1. AllQuiet("refresh")
        BY <2>3, GotoIsQuiet, ReplyIsQuiet DEF CreateRefreshToken, TypeOK
      <4> QED
        BY <3>1, <4>1, SkipAges, TokensDie
    <3> QED
      BY <2>3, <3>1, TokenIssued
  <2>4. CASE /\ ~RefreshFindToken(r) /\ ~CreateRefreshToken(r)
             /\ ~(LoadRefreshToken(r) /\ req[r].kind = "refresh")
    BY <1>2, <2>4, StepIsQuiet, StepAges, TokensDie
  <2> QED
    BY <2>1, <2>2, <2>3, <2>4
<1>3. CASE Environment \/ UNCHANGED vars
  BY <1>3, EnvironmentIsQuiet, TokensDie
<1> QED
  BY <1>1, <1>2, <1>3 DEF Next, AllAnswered

(* Refresh tokens are one-time credentials, for any number of requests and  *)
(* whatever fails.                                                          *)
THEOREM TokensRefine == Spec => TokensAreOneTime
<1>1. Init => Tokens!CredInit
  BY NoneIsNoWord
     DEF Init, StoreInit, NewRequest, Tokens!CredInit, TokenState,
         AdmittedWith, RefreshedBy, Served, HandlerKinds
<1>2. TypeOK /\ CredentialInv /\ [Next]_vars => [Tokens!CredNext]_Tokens!credVars
  BY TokensStep
<1> QED
  BY <1>1, <1>2, TypeCorrect, CredentialInvariant, PTL
     DEF Spec, TokensAreOneTime, Tokens!CredSpec

-----------------------------------------------------------------------------
(* Login codes *)

LEMMA CodesDie ==
    ASSUME CodesAge, AllQuiet("exchange")
    PROVE  Codes!CredNext
<1> DEFINE S == {c \in Reqs : CodeActive(c) /\ ~(CodeActive(c)')}
<1>1. \A c \in S : [x \in Reqs |-> CodeState(x)][c] = "live"
  BY DEF CodeState, CodeActive, CodeStored
<1>2. \A c \in Reqs : CodeState(c)' = IF c \in S THEN "dead" ELSE CodeState(c)
  BY DEF CodesAge, CodeAges, CodeState, CodeActive, CodeStored
<1>3. /\ \A c \in Reqs : AdmittedWith("exchange", c)'
                          = AdmittedWith("exchange", c)
      /\ \A c \in Reqs : ExchangedBy(c)' = ExchangedBy(c)
  BY QuietHolders DEF ExchangedBy
<1>4. Codes!Die(S)
  BY <1>1, <1>2, <1>3 DEF Codes!Die
<1> QED
  BY <1>4 DEF Codes!CredNext

LEMMA CodeAdmitted ==
    ASSUME TypeOK, CredentialInv, NEW r \in Reqs, ExchangeFindCode(r),
           ~Reply(r, "INVALID_LOGIN_CODE")
    PROVE  Codes!CredNext
<1> DEFINE k == req[r].cred
           u == loginCodes[k].user
<1>1. /\ CodeActive(k) /\ GotoWithUser(r, u, "findUserById") /\ Skip
      /\ req[r].kind = "exchange" /\ req[r].pc = "findLoginCode"
  BY DEF ExchangeFindCode, At
<1>2. k \in Reqs /\ loginCodes[k].status = "stored"
  BY <1>1 DEF CodeActive, CodeStored
<1>3. u # None
  BY <1>2 DEF CredentialInv, RequestInv, SentIsStored
<1>4. req[r].usr = None
  BY <1>1 DEF CredentialInv, RequestInv, ExchangeProgress
<1>5. Moves(r, "findUserById", u, req[r].ans)
  BY <1>1, GotoWithUserMoves DEF TypeOK
<1>6. req[r].ans # "tokens"
  BY <1>1, Unanswered
<1>7. /\ r \notin AdmittedWith("exchange", k)
      /\ \A c \in Reqs :
           /\ AdmittedWith("exchange", c)' =
                IF c = k THEN AdmittedWith("exchange", c) \cup {r}
                         ELSE AdmittedWith("exchange", c)
           /\ ExchangedBy(c)' = ExchangedBy(c)
  BY <1>1, <1>3, <1>4, <1>5, <1>6, AdmitHolders DEF ExchangedBy
<1>8. \A c \in Reqs : CodeState(c)' = CodeState(c)
  BY <1>1 DEF Skip, storeVars, CodeState, CodeActive, CodeStored
<1>9. CodeState(k) = "live"
  BY <1>1, <1>2 DEF CodeState
<1>10. Codes!Admit(k, r)
  BY <1>2, <1>7, <1>8, <1>9 DEF Codes!Admit
<1> QED
  BY <1>2, <1>10 DEF Codes!CredNext

LEMMA CodeGranted ==
    ASSUME TypeOK, CredentialInv, NEW r \in Reqs, LoadRefreshToken(r),
           req[r].kind = "exchange", Reply(r, "tokens")
    PROVE  Codes!CredNext
<1> DEFINE k == req[r].cred
<1>1. Skip /\ req[r].pc = "loadRefreshToken"
  BY DEF LoadRefreshToken
<1>2. req[r].usr # None /\ k # None /\ ~CodeActive(k)
  BY <1>1 DEF CredentialInv, RequestInv, ExchangeProgress
<1>3. k \in Reqs /\ loginCodes[k].status # "free"
  BY <1>2 DEF CredentialInv, RequestInv, ExchangeProgress, TypeOK, ReqTypeOK,
              Request, Ref
<1>4. Moves(r, "done", req[r].usr, "tokens")
  BY ReplyMoves DEF TypeOK
<1>5. req[r].ans # "tokens"
  BY <1>1, Unanswered
<1>6. /\ r \in AdmittedWith("exchange", k) /\ ~Served(r, "exchange", k)
      /\ \A c \in Reqs :
           /\ AdmittedWith("exchange", c)' = AdmittedWith("exchange", c)
           /\ ExchangedBy(c)' = IF c = k THEN ExchangedBy(c) \cup {r}
                                         ELSE ExchangedBy(c)
  BY <1>2, <1>4, <1>5, GrantHolders DEF ExchangedBy
<1>7. r \notin ExchangedBy(k)
  BY <1>6 DEF ExchangedBy
<1>8. \A c \in Reqs : CodeState(c)' = CodeState(c)
  BY <1>1 DEF Skip, storeVars, CodeState, CodeActive, CodeStored
<1>9. CodeState(k) = "dead"
  BY <1>2, <1>3 DEF CodeState
<1>10. Codes!Grant(k, r)
  BY <1>3, <1>6, <1>7, <1>8, <1>9 DEF Codes!Grant
<1> QED
  BY <1>3, <1>10 DEF Codes!CredNext

LEMMA CodeIssued ==
    ASSUME TypeOK, CredentialInv, NEW r \in Reqs, CreateLoginCode(r), ~Skip
    PROVE  Codes!CredNext
<1>0. PICK u \in Ref : u = req[r].usr
  BY DEF TypeOK, ReqTypeOK, Request
<1>1. /\ InsertLoginCode(r, u) /\ Goto(r, "loadLoginCode")
      /\ req[r].pc = "createLoginCode"
  BY <1>0 DEF CreateLoginCode, At
<1>2. loginCodes[r].status = "free"
  BY <1>1 DEF CredentialInv, RequestInv, RowsAreFresh
<1>3. CodeState(r) = "unissued" /\ CodeState(r)' = "live"
  BY <1>1, <1>2 DEF InsertLoginCode, TypeOK, StoreTypeOK, CodeRow,
                    CodeState, CodeActive, CodeStored
<1>4. \A c \in Reqs \ {r} : CodeState(c)' = CodeState(c)
  BY <1>1 DEF InsertLoginCode, TypeOK, StoreTypeOK, CodeRow,
              CodeState, CodeActive, CodeStored
<1>5. AllQuiet("exchange")
  BY <1>1, GotoIsQuiet DEF TypeOK
<1>6. \A c \in Reqs : /\ AdmittedWith("exchange", c)'
                            = AdmittedWith("exchange", c)
                      /\ ExchangedBy(c)' = ExchangedBy(c)
  BY <1>5, QuietHolders DEF ExchangedBy
<1>7. Codes!Issue(r)
  BY <1>3, <1>4, <1>6 DEF Codes!Issue
<1> QED
  BY <1>7 DEF Codes!CredNext

LEMMA CodesStep ==
    ASSUME TypeOK, CredentialInv, [Next]_vars
    PROVE  Codes!CredNext
<1>1. ASSUME NEW r \in Reqs, Arrive(r)
      PROVE  Codes!CredNext
  BY <1>1, ArriveIsQuiet, ArriveSkips, SkipAges, CodesDie DEF TypeOK
<1>2. ASSUME NEW r \in Reqs, Step(r)
      PROVE  Codes!CredNext
  <2>1. CASE ExchangeFindCode(r)
    <3>1. CASE Reply(r, "INVALID_LOGIN_CODE")
      <4>1. AllQuiet("exchange") /\ Skip
        BY <2>1, <3>1, ReplyIsQuiet DEF ExchangeFindCode, At, TypeOK
      <4> QED
        BY <4>1, SkipAges, CodesDie
    <3> QED
      BY <2>1, <3>1, CodeAdmitted
  <2>2. CASE LoadRefreshToken(r) /\ req[r].kind = "exchange"
    <3>1. CASE Reply(r, "INTERNAL")
      <4>1. AllQuiet("exchange") /\ Skip
        BY <2>2, <3>1, ReplyIsQuiet DEF LoadRefreshToken, TypeOK
      <4> QED
        BY <4>1, SkipAges, CodesDie
    <3>2. CASE Reply(r, "tokens")
      BY <2>2, <3>2, CodeGranted
    <3> QED
      BY <2>2, <3>1, <3>2 DEF LoadRefreshToken
  <2>3. CASE CreateLoginCode(r)
    <3>1. CASE Skip
      <4>1. AllQuiet("exchange")
        BY <2>3, GotoIsQuiet, ReplyIsQuiet DEF CreateLoginCode, At, TypeOK
      <4> QED
        BY <3>1, <4>1, SkipAges, CodesDie
    <3> QED
      BY <2>3, <3>1, CodeIssued
  <2>4. CASE /\ ~ExchangeFindCode(r) /\ ~CreateLoginCode(r)
             /\ ~(LoadRefreshToken(r) /\ req[r].kind = "exchange")
    BY <1>2, <2>4, StepIsQuiet, StepAges, CodesDie
  <2> QED
    BY <2>1, <2>2, <2>3, <2>4
<1>3. CASE Environment \/ UNCHANGED vars
  BY <1>3, EnvironmentIsQuiet, CodesDie
<1> QED
  BY <1>1, <1>2, <1>3 DEF Next, AllAnswered

(* Login codes are one-time credentials too.                                *)
THEOREM CodesRefine == Spec => CodesAreOneTime
<1>1. Init => Codes!CredInit
  BY NoneIsNoWord
     DEF Init, StoreInit, NewRequest, Codes!CredInit, CodeState,
         AdmittedWith, ExchangedBy, Served, HandlerKinds
<1>2. TypeOK /\ CredentialInv /\ [Next]_vars => [Codes!CredNext]_Codes!credVars
  BY CodesStep
<1> QED
  BY <1>1, <1>2, TypeCorrect, CredentialInvariant, PTL
     DEF Spec, CodesAreOneTime, Codes!CredSpec
=============================================================================
