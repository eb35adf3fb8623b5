------------------------------ MODULE AuthStore ------------------------------
(***************************************************************************)
(* The four MySQL tables of src/db/schema and the statements that          *)
(* DrizzleAuthRepository (src/modules/auth/auth.repository.ts) runs on     *)
(* them.  The repository opens no transaction, so every statement commits  *)
(* on its own: one operator here is one statement, and the handlers of     *)
(* AuthService interleave between any two of them.                         *)
(*                                                                         *)
(* A request inserts at most one row in each table, and mints at most one  *)
(* refresh token and one login code (both random, so always new).  A row,  *)
(* a token and a code are therefore named after the request that makes     *)
(* them; AUTO_INCREMENT ids and SHA-256 hashes serve only as such names.   *)
(*                                                                         *)
(* An operator whose name has an underscore is a bug the code does not     *)
(* have: put in the place of the operator it is named after, it breaks a   *)
(* property (README.md, Mutants).                                          *)
(***************************************************************************)
EXTENDS FiniteSets

CONSTANTS
    Reqs,       \* HTTP requests, and with them the names of rows and tokens
    Emails,     \* e-mail addresses, trimmed and lower-cased by the schemas
    Accounts,   \* Google account ids
    None        \* SQL NULL, JavaScript null and undefined

ASSUME NoneIsNoName == None \notin Reqs \cup Emails \cup Accounts

VARIABLES
    users,          \* table users
    refreshTokens,  \* table refresh_tokens, by token
    authAccounts,   \* table auth_accounts, by Google account id
    loginCodes      \* table auth_login_codes, by code

storeVars == <<users, refreshTokens, authAccounts, loginCodes>>

(***************************************************************************)
(* Rows.  A name whose row was never inserted is "free"; a row removed by  *)
(* ON DELETE CASCADE is "gone" and its name is never used again.           *)
(***************************************************************************)
RowStatus == {"free", "stored", "gone"}

Ref == Reqs \cup {None}

\* password, verified, avatar: is password_hash, email_verified_at,
\* avatar_url set?  No code reads more of these columns than that.
UserRow == [status : RowStatus, email : Emails \cup {None},
            password : BOOLEAN, verified : BOOLEAN, avatar : BOOLEAN]

\* expired: expires_at has passed, and with it the exp claim of the token,
\* which createTokenPair computes from the same instant and the same TTL.
TokenRow == [status : RowStatus, user : Ref, replacedBy : Ref,
             revoked : BOOLEAN, expired : BOOLEAN]

CodeRow == [status : RowStatus, user : Ref,
            consumed : BOOLEAN, expired : BOOLEAN]

\* row: the id of the row, None when the account has no row.
AccountRow == [row : Ref, user : Ref]

StoreTypeOK ==
    /\ users \in [Reqs -> UserRow]
    /\ refreshTokens \in [Reqs -> TokenRow]
    /\ authAccounts \in [Accounts -> AccountRow]
    /\ loginCodes \in [Reqs -> CodeRow]

NoAccount == [row |-> None, user |-> None]

StoreInit ==
    /\ users = [u \in Reqs |-> [status |-> "free", email |-> None,
                    password |-> FALSE, verified |-> FALSE, avatar |-> FALSE]]
    /\ refreshTokens = [t \in Reqs |-> [status |-> "free", user |-> None,
                    replacedBy |-> None, revoked |-> FALSE, expired |-> FALSE]]
    /\ authAccounts = [a \in Accounts |-> NoAccount]
    /\ loginCodes = [c \in Reqs |-> [status |-> "free", user |-> None,
                    consumed |-> FALSE, expired |-> FALSE]]

-----------------------------------------------------------------------------
(* Reads *)

UserStored(u) == u \in Reqs /\ users[u].status = "stored"

TokenStored(t) == t \in Reqs /\ refreshTokens[t].status = "stored"

CodeStored(c) == c \in Reqs /\ loginCodes[c].status = "stored"

\* findUserByEmail: the rows the query can return.
UsersByEmail(e) == {u \in Reqs : UserStored(u) /\ users[u].email = e}

\* findActiveRefreshTokenByHash: not revoked and not expired.
TokenActive(t) ==
    /\ TokenStored(t)
    /\ ~refreshTokens[t].revoked
    /\ ~refreshTokens[t].expired

\* findActiveLoginCodeByHash: not consumed and not expired.
CodeActive(c) ==
    /\ CodeStored(c)
    /\ ~loginCodes[c].consumed
    /\ ~loginCodes[c].expired

-----------------------------------------------------------------------------
(* Writes.  The guard of an insert is the constraint MySQL enforces:        *)
(* users_email_unique, auth_accounts_provider_account_unique, and the       *)
(* foreign keys to users.                                                   *)

InsertUser(u, e, password, verified, avatar) ==
    /\ UsersByEmail(e) = {}
    /\ users' = [users EXCEPT ![u] =
            [status |-> "stored", email |-> e, password |-> password,
             verified |-> verified, avatar |-> avatar]]
    /\ UNCHANGED <<refreshTokens, authAccounts, loginCodes>>

\* emailVerifiedAt is written back as it was read.
UpdateUserOAuthProfile_Unverified(u, avatar) ==
    /\ users' = IF UserStored(u) THEN [users EXCEPT ![u].avatar = avatar]
                                 ELSE users
    /\ UNCHANGED <<refreshTokens, authAccounts, loginCodes>>

\* An UPDATE whose WHERE matches no row changes nothing and is no error.
\* emailVerifiedAt is never written back to null: passport.ts sets
\* emailVerified to true in every profile.
UpdateUserOAuthProfile(u, avatar) ==
    /\ users' = IF UserStored(u)
                THEN [users EXCEPT ![u].verified = TRUE, ![u].avatar = avatar]
                ELSE users
    /\ UNCHANGED <<refreshTokens, authAccounts, loginCodes>>

InsertRefreshToken(t, u) ==
    /\ UserStored(u)
    /\ refreshTokens' = [refreshTokens EXCEPT ![t] =
            [status |-> "stored", user |-> u, replacedBy |-> None,
             revoked |-> FALSE, expired |-> FALSE]]
    /\ UNCHANGED <<users, authAccounts, loginCodes>>

\* revoked_at is not set.
RevokeRefreshToken_LinkOnly(t, next) ==
    /\ refreshTokens' =
            IF TokenStored(t) /\ next # None
            THEN [refreshTokens EXCEPT ![t].replacedBy = next]
            ELSE refreshTokens
    /\ UNCHANGED <<users, authAccounts, loginCodes>>

\* undefined is written as NULL, as the repository of the tests does.
RevokeRefreshToken_ResetsLink(t, next) ==
    /\ refreshTokens' =
            IF TokenStored(t)
            THEN [refreshTokens EXCEPT ![t].revoked = TRUE,
                                       ![t].replacedBy = next]
            ELSE refreshTokens
    /\ UNCHANGED <<users, authAccounts, loginCodes>>

\* WHERE user_id = ..., every session of the user.
RevokeRefreshToken_WholeUser(t, next) ==
    /\ refreshTokens' =
            IF TokenStored(t)
            THEN [x \in Reqs |->
                    IF refreshTokens[x].user = refreshTokens[t].user
                    THEN [refreshTokens[x] EXCEPT !.revoked = TRUE]
                    ELSE refreshTokens[x]]
            ELSE refreshTokens
    /\ UNCHANGED <<users, authAccounts, loginCodes>>

\* Drizzle leaves a column out of SET when its value is undefined, so a
\* revocation without replacement keeps the link of an earlier rotation.
RevokeRefreshToken(t, next) ==
    /\ refreshTokens' =
            IF TokenStored(t)
            THEN [refreshTokens EXCEPT
                    ![t].revoked = TRUE,
                    ![t].replacedBy = IF next = None THEN @ ELSE next]
            ELSE refreshTokens
    /\ UNCHANGED <<users, authAccounts, loginCodes>>

InsertAuthAccount(a, row, u) ==
    /\ authAccounts[a].row = None
    /\ UserStored(u)
    /\ authAccounts' = [authAccounts EXCEPT ![a] = [row |-> row, user |-> u]]
    /\ UNCHANGED <<users, refreshTokens, loginCodes>>

\* Without the foreign key.
UpdateAuthAccount_NoForeignKey(a, row, u) ==
    /\ authAccounts' = IF authAccounts[a].row = row
                       THEN [authAccounts EXCEPT ![a].user = u]
                       ELSE authAccounts
    /\ UNCHANGED <<users, refreshTokens, loginCodes>>

\* UPDATE ... WHERE id = row, the id read before.
UpdateAuthAccount(a, row, u) ==
    /\ authAccounts[a].row = row => UserStored(u)
    /\ authAccounts' = IF authAccounts[a].row = row
                       THEN [authAccounts EXCEPT ![a].user = u]
                       ELSE authAccounts
    /\ UNCHANGED <<users, refreshTokens, loginCodes>>

InsertLoginCode(c, u) ==
    /\ UserStored(u)
    /\ loginCodes' = [loginCodes EXCEPT ![c] =
            [status |-> "stored", user |-> u, consumed |-> FALSE,
             expired |-> FALSE]]
    /\ UNCHANGED <<users, refreshTokens, authAccounts>>

ConsumeLoginCode(c) ==
    /\ loginCodes' = IF CodeStored(c)
                     THEN [loginCodes EXCEPT ![c].consumed = TRUE]
                     ELSE loginCodes
    /\ UNCHANGED <<users, refreshTokens, authAccounts>>

-----------------------------------------------------------------------------
(* What changes the tables besides the handlers: the clock, and whoever     *)
(* deletes a user with the database tools (no handler does; the schema      *)
(* declares ON DELETE CASCADE and the handlers check for missing users).    *)

ExpireToken(t) ==
    /\ TokenStored(t)
    /\ ~refreshTokens[t].expired
    /\ refreshTokens' = [refreshTokens EXCEPT ![t].expired = TRUE]
    /\ UNCHANGED <<users, authAccounts, loginCodes>>

ExpireCode(c) ==
    /\ CodeStored(c)
    /\ ~loginCodes[c].expired
    /\ loginCodes' = [loginCodes EXCEPT ![c].expired = TRUE]
    /\ UNCHANGED <<users, refreshTokens, authAccounts>>

DeleteUser(u) ==
    /\ UserStored(u)
    /\ users' = [users EXCEPT ![u].status = "gone"]
    /\ refreshTokens' = [t \in Reqs |->
            IF TokenStored(t) /\ refreshTokens[t].user = u
            THEN [refreshTokens[t] EXCEPT !.status = "gone"]
            ELSE refreshTokens[t]]
    /\ authAccounts' = [a \in Accounts |->
            IF authAccounts[a].user = u THEN NoAccount ELSE authAccounts[a]]
    /\ loginCodes' = [c \in Reqs |->
            IF CodeStored(c) /\ loginCodes[c].user = u
            THEN [loginCodes[c] EXCEPT !.status = "gone"]
            ELSE loginCodes[c]]
=============================================================================
