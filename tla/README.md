# Verification of express-backend-boilerplate-api

TLA+ models of the Express backend in `src/`, model-checked with TLC on small
instances and, where it matters most, proved with TLAPS for every instance.
Paths below are those of the repository (`src/modules/...`).

## 1. The system

| Component | State | Operations | Properties that make it correct |
| --- | --- | --- | --- |
| Authentication service (`src/modules/auth/auth.service.ts`) | none of its own; locals of running handlers | `register`, `login`, `refresh`, `logout`, `handleOAuthLogin`, `createLoginCodeForUser`, `exchangeLoginCode`, `getUserFromAccessToken` | one-time credentials, revocation before replacement, sessions and links belong to their owners, every request is answered |
| Authentication repository (`auth.repository.ts`) | four MySQL tables | one or two statements per method, no transaction | as above: it is where interleaving happens |
| Schema (`src/db/schema`, `drizzle/`) | `users`, `refresh_tokens`, `auth_accounts`, `auth_login_codes` | UNIQUE e-mail, UNIQUE (provider, account), foreign keys with ON DELETE CASCADE | one user per e-mail, one link per Google account |
| Routes, `authenticate`, Google strategy (`auth.routes.ts`, `auth.middleware.ts`, `passport.ts`) | none | one handler per route | refusals happen before the database is asked |
| Request pipeline (`src/app.ts`, `src/routes.ts`, `src/middleware`, `src/lib`) | none | request id, logging, CORS, JSON, validation, error handler | every error becomes one answer, `AppError` keeps its code, everything else is a 500 |
| Rate limiters (`rate-limiters.ts`) | a counter per client and policy, in memory or Redis | count, reset, refuse | a client gets at most `max` requests per window through each limiter, and pays for no other client, policy or window |
| Uploads (`upload.routes.ts`) | files in `UPLOAD_DIR` | multer stores, the handler checks the signature, unlinks or answers | a file that was accepted stays; a file that was refused is gone unless something failed; the status tells why |
| Email queue and worker (`email.queue.ts`, `worker.ts`, `mail.service.ts`) | BullMQ jobs in Redis | add, process, retry (3 attempts, exponential backoff), retain 100/500, close | a mail is settled in the end, given up only for a reason, tried a bounded number of times; at least one copy, not exactly one |
| Server lifecycle (`server.ts`, `composition-root.ts`) | HTTP server, pool, Redis clients | start, shutdown on SIGTERM and SIGINT | resources close after the last request; the process exits |
| Health (`health.routes.ts`, `db/client.ts`, `lib/redis.ts`) | a pool, a probe client | `live`, `ready` | readiness is a request like others; the pool refuses statements once it ends |
| Token lifetimes (`auth.service.ts`, `createTokenPair`) | `exp` of two tokens, `expires_at` of a row | sign, store, verify, find | tokens live their time and no longer; the two records of a session agree |
| Configuration (`config/env.ts`, `config/index.ts`) | cached configuration | parse, production guards | production never runs with placeholders or the memory store |

**Interaction.** The routes call the service, the service awaits the repository,
the repository awaits MySQL. Nothing is shared in memory between two requests,
so the tables are the only place where handlers meet: every `await` of a
statement is a point where any other handler, of this or another server
process, may run. In front of the handlers requests meet in the counters of the
rate limiters, which several processes may share in Redis. Uploads use `authenticate` of the auth module, and meet only in
the process they share. The queue and the worker share Redis and no state with
the API; no route enqueues mail yet.

**What is hard.** The repository opens no transaction, and each method of the
service is a find followed by writes that do not test again what was found.
What can go wrong is therefore a matter of interleaving (two refreshes, two
exchanges, a logout and a refresh, two registrations, two callbacks), of a
failure or the death of a server between two writes, and of rows that expire or
are deleted under a handler. Elsewhere it is a matter of partial failure (an upload
whose file cannot be read or removed, a worker that dies after it sent a mail,
a Redis that counts and does not answer), of the order of middleware, and of
values at a boundary (blank variables, whole seconds). The integration tests run
one request after the other on an in-memory repository without constraints, and
reach almost none of this. `PROJECT.json` lists the hazards at their lines.

## 2. Modules

| Module | Models |
| --- | --- |
| `AuthStore` | the four tables and the statements of `DrizzleAuthRepository`; the clock and the deletion of users |
| `AuthService` | the handlers as sequences of statements, interleaved; failures of statements and servers; fairness |
| `OneTimeCredential` | abstract: what a refresh token and a login code promise |
| `AuthProperties` | the properties of the authentication core, the inductive invariant, the two refinement mappings |
| `MCAuth` | small instances for TLC: symmetry and the sets of Google profiles |
| `AuthServiceProofs` | theorems: types, the one-time credentials, the two refinements |
| `AuthAccountProofs` | theorems: logout, revocation, the load of the service; sessions, users and Google accounts |
| `TokenClock`, `TokenClockProofs` | when the tokens of one pair expire, in numbers; its properties; theorems |
| `RateLimiters` | the counters: where they are kept, what counts together, hits and windows |
| `RequestPipeline` | requests on their way through the middleware of their route, with the limiters; the error handler |
| `PipelineProperties`, `MCPipeline`, `RequestPipelineProofs` | properties of both; limits and symmetry for TLC; theorems |
| `Uploads`, `UploadsProperties`, `UploadsProofs` | uploads from `authenticate` to the answer, with the file on the disk |
| `MailDelivery` | abstract: what the queue promises to who queues a mail |
| `EmailQueue`, `EmailQueueProperties`, `EmailQueueProofs` | jobs, the runs of the processor, the workers and their shutdown; the refinement of `MailDelivery`; theorems |
| `ServerLifecycle`, `ServerLifecycleProofs` | one server process: listening, connections, handlers by what they await, shutdown, exit code; its properties; theorems |
| `Configuration`, `ConfigurationProperties`, `MCConfiguration`, `ConfigurationProofs` | from the variables of a process to its configuration or refusal; properties; environments for TLC; theorems |

How they fit together:

* `RequestPipeline` extends `RateLimiters` and stands in front of the handlers.
  What a handler does is `AuthService` and `Uploads`, which start where their
  route's chain has let a request through (`Uploads` repeats `authenticate`,
  whose order with multer its properties are about). To the pipeline a handler
  is one step that succeeds, refuses or fails.
* `AuthService` and `ServerLifecycle` describe the same handlers from two sides:
  the first what their statements do, the second when they may still run. They
  meet in the faults of `AuthService`: a handler that `ServerLifecycle` calls
  `cut` is a `DbError` there, and a process that exits a `Crash`.
* `TokenClock` opens what `AuthStore` takes for one moment: there a token expires
  once, with its row; here `exp` and `expires_at` are computed, rounded and
  compared apart, and `RecordsAgree` bounds the time in which they differ.
* `Configuration` justifies what the others assume of their constants: its
  property `AssumptionsHold` says that limits, lifetimes, concurrency and so on
  are positive, and whole where they must be, in every process that is configured.
  `CountsInRedis` is `Shared` of `RateLimiters`.
* `OneTimeCredential` and `MailDelivery` are the abstract specifications, each
  instantiated with a refinement mapping in the `...Properties` module.

### State and actions against the code

*Tables.* `users`, `refreshTokens` and `loginCodes` are functions from names to
rows, `authAccounts` from Google account ids to rows. A request inserts at most
one row in each table and mints at most one token and one code, always a random
new one; rows, tokens and codes are named after the request that makes them.
That stands for AUTO_INCREMENT ids and for SHA-256 hashes, of which the code
only uses that they are equal or not. `status` says whether the row was never
inserted (`free`), is there (`stored`) or was removed by the cascade (`gone`).
Of the columns those are kept that some handler reads, or whose value a
property is about: `password_hash`, `email_verified_at` and `avatar_url` as
set or not set, `replaced_by_token_hash` as the name of a token, `revoked_at`
and `consumed_at` as set or not, `expires_at` as passed or not. The token's
`exp` claim is computed from the same TTL and is taken to pass with the row
(`TokenClock` has the difference).

*Requests.* `req[r]` is the handler of request `r`: `pc` names the statement it
awaits, `usr`, `row` and `avatar` are its locals, `cred`, `email` and `acct`
what the client presented, `ans` its answer. One action is one statement and
the JavaScript that consumes its result, up to the next `await` of a statement.
`argon2.hash` and `argon2.verify` are awaited too, but touch nothing shared:
they prolong the gap between two statements, which may be of any length anyway.
A method that inserts and reads back (`createUser`, `createRefreshToken`,
`updateUserOAuthProfile`, `upsertAuthAccount`, `createLoginCode`) is two
actions or more. `stale` is the one variable part that is not in the code: it
records that the credential was dead when the request arrived.

*Inputs.* A refresh or a logout presents any token that reached a client, or
one this server never issued (`None`); an exchange any code that was sent, or
none; `GET /me` the access token of any pair, or an invalid one; a login any
known e-mail with a right or a wrong password; a callback any of the profiles
of the instance.

*Errors.* A refusal is the `AppError` code. Everything else the handlers can
throw (a duplicate key, a missing parent row, "Failed to load ...", a failed
statement) is `INTERNAL`, the 500 of `src/middleware/error-handler.ts`.

*Environment.* `Faults` selects what else happens: a statement fails (`db`), a
server dies with the requests it was serving (`crash`), a user is deleted with
the database tools (`delete`; no handler deletes, but the schema cascades and
the handlers check for missing users), a token or a code expires.

### The server process

`server` is the HTTP server of `server.ts`, `conn[c]` a connection (`new` until
its first request), `handler[c]` what the handler of its last request awaits: a
rate `limiter`, a `statement` of the pool, other `work`, nothing (`idle`), or it
was refused a resource that shutdown had closed (`cut`). `limiters` and `pool`
are what `app.close` closes. `exited` is the exit code.

`Shutdown` is the signal handler, `Drained` the callbacks of `server.close` with
`app.close` inside, `PoolEnds` and `PoolFails` the `then` and the `catch`. What
the code relies on is external and stated at the head of the module:
`server.close` of Node 24 (the version of the Dockerfile) closes connections
between two requests, not those that have sent nothing yet, and calls back with
an error when the server did not listen; Express 5 calls the listen callback
with a listen error too; `pool.end` of mysql2 lets statements in flight finish
and refuses new ones.

### Limits and pipeline

`hits[k]` and `window[k]` are the counter `k`: a policy and a client address, in
a process or in Redis (`Places`, by `RATE_LIMIT_STORE` and `NODE_ENV`). Windows
are numbered, so that a property can speak of one. The window of a counter opens
with its first hit and may end at any later moment (`WindowEnds`); the counters
of a process die with it, those in Redis do not (`Crash`).

`req[r]` is a request: `rest` the middleware it still has in front of it, which
`Chain` puts together as `createApp`, `createRouter` and the two routers do;
`flaws` what is wrong with it, named after the middleware that should object,
chosen as it arrives among what may be wrong with a request of that route;
`status` the answer. What may be wrong (`Concerned`: a body that a schema
describes, a request that asks for a user, one that comes from Google, a file) does
not depend on `Chain`, so that a check that a route forgot shows. `counted` and `over` are not in the code: they
record the policies and windows that let the request pass or turned it away.
`Pass`, `Object`, `Count` and `Handle` are one middleware each; `Errors` is what
each of them hands to `next` and `ErrorStatus` is `errorHandler`. `passport`
stands on `/google`, too: it sends a browser to Google (`AskConsent`), or, where the
request brings an answer of Google's, deals with that as on the callback; as no
handler follows it there, what it lets pass ends in `notFound`. External:
express-rate-limit counts every request, also those it refuses, and its Redis
script counts in one step; a command that Redis did not answer is sent once more
by ioredis (`maxRetriesPerRequest`), and a command that failed once more by the
store, so one request may hit up to four times (`Resend`, at most `MaxResends`
times), and an error of the store is an error of the request; passport redirects
from the callback when Google or the user refuses, and hands everything the
strategy throws to `next`.

### Uploads

`form[u]` is what the client sends, fixed from the start: a valid token or not,
the part it is in, the declared type, the type whose signature the bytes have,
whether it exceeds the limit. `pc[u]` is what the request awaits, `file[u]` what
is on the disk, `status[u]` the answer. `hurt[u]`, not in the code, records the
fault that the upload met. Multer is external: it refuses a part of another name
before it stores anything (a body that breaks off before its part has shown name
and type is an error instead, `Filter`), removes the files of a form it refuses later
(`Discard`) without saying so when it cannot, and may or may not remove what it
was writing when the body breaks off (`Write`) or the client leaves (`Leave`).

### Mail

`job[j]` is a job as Redis has it: its state, the failed attempts, the stalls,
and the lock, which is a run of the processor. `run[j]` is the sequence of those
runs with their workers, what each awaits or came to (`phase`), and whether the
SMTP server has taken the mail (`sent`, which only an observer knows after an
error). `worker[w]` is a process of `worker.ts`; `downs` counts signals and
deaths. External: BullMQ gives a job to a worker that has room, ignores what a
run reports that lost its lock, retries a failed job after a delay while
`attempts` are left, and lets a stalled job wait again unless it stalled more
than `maxStalledCount` times, default 1; `Worker.close` waits for the jobs in
progress; nodemailer's `sendMail` ends, by an answer or by a timeout after which
the server may have taken the mail all the same.

### Token clock

Time is in ticks, `Second` of them in a second. `Begin` is the `Date.now()` of
`createTokenPair` with the `expires_at` it leads to, `Sign` the signing of both
tokens at most `MaxDelay` ticks later, in whole seconds as jsonwebtoken does. The
database rounds `expires_at` to a second (MySQL `TIMESTAMP` without fraction).
`skew` is how far the clock of the process that is asked differs.

### Configuration

`source[v]` is the raw value of a variable as a class of strings: absent, blank,
a placeholder with or without spaces around it, a short secret, a list of blanks,
numbers at each boundary of the schema. `Load` is `loadEnv` and `getConfig`:
every variable is parsed (`Parse`: trimming, `z.coerce`, which makes 0 of a
blank, defaults), then the credentials must be paired and the guards of
production hold; `config` is the outcome, and `process` says whether there is one.

## 3. Runs

| Run | Question | Bounds |
| --- | --- | --- |
| `AuthSessions` | Are refresh tokens one-time credentials, does logout stick, do failures of a rotation or an exchange never leave two sessions? | 4 requests of every kind but `me`, 2 at a time, 1 e-mail, 1 account, `db`, `crash`, `tokenExpiry` |
| `AuthAccounts` | Who owns users, links and sessions when registrations, password logins and Google logins race, also when the e-mail of the Google account moves? Are login codes one-time credentials? | 3 requests, all at a time, 2 e-mails, 2 accounts, `db`, `delete`, `codeExpiry` |
| `AuthLiveness` | Is every request answered, and with a pair that is stored, does a rotation that revoked complete? | 3 requests of the same kinds, 2 at a time, 1 e-mail, 1 account, `delete` |
| `TokenTimes` | Do tokens live their time, and do the records of a session agree? | seconds of 8 ticks, lifetimes 1 and 2, delay up to 9, skew up to 10 either way |
| `LimitsShared` | Do the limits hold across processes, and is nobody refused for others? | 3 requests, 2 clients, 2 processes, Redis, general limit 2, auth limit 1, 2 windows, crashes |
| `PipelineRoutes` | Is every attempt counted, does nothing pass that was objected to, is every request answered? | 2 requests, all 14 routes, all flaws, limits of 1, 1 resend, `db`, `redis`, `crash` |
| `UploadFaults` | What do accepted, refused and broken uploads leave, and what is their client told? | 2 uploads, 4 types in every relation to the two lists, all faults |
| `EmailFaults` | How often is a mail sent and tried, when is it given up, what do signals cut? | 1 job, 2 workers, 3 attempts, 1 stall allowed, 1 worker going down, all faults |
| `ServerShutdown` | Who is served, what does the exit code say, and does the process stop, whenever one or two signals arrive? | 3 connections, 3 awaits each, 2 signals |
| `Configured` | Can a process run in production unguarded, or with a number it cannot work with? | good environments changed in one variable, or in two that the guards look at |
| `SingleUseCodeRace` | (violation) a login code is single-use | 3 requests, 2 at a time |
| `DuplicateRegisterRace` | (violation) a duplicate registration is answered `EMAIL_ALREADY_REGISTERED` | 2 requests |

**Why the bounds are enough for the cases named.** Requests are used once, so
`Reqs` bounds how many requests a history has, and `MaxInFlight` how many of
them overlap. A race over one token takes a registration and two overlapping
refreshes; a fourth request lets a token that was already rotated be presented
again, a logout join, or the replacement be rotated in turn, and is what it takes for
one token or code to be presented three times, once more than requests overlap.
Codes take a callback and two exchanges, which may follow each other. Deletions
are in the two runs of three requests: with four they leave no room in TLC for the
rest, and what they do to a rotation's one-time promise rests on `TokensRefine`. Races over an e-mail or
a Google account involve at most three writers, the third finding what the first
two left. The properties speak of one credential, one e-mail or one account at
a time, so more of them add independent copies.

Of three requests of one client the third meets a spent limit of two, and two
processes and two clients suffice to mix up their counters; with three requests
the window may also end between them. In `PipelineRoutes` the routes and flaws
matter and not the windows (`MaxWindows` 0); two requests with a limit of one
meet the limit, and one hit that is sent again counts twice, which is all that
its properties could tell from four times; `PipelineInv` is proved for any number.
Two uploads meet when the process dies with both or with one. The
four types are on both lists, on one of them, or on none. One job is enough for
the mail: jobs share nothing but the room of a worker, and its two workers can
hold a run each, one that lost its lock and one that has it. `MaxDowns` 1 leaves
one worker up, as the liveness asks. A second of 8 ticks has every phase of
rounding; delay and skew exceed it. For the server, two signals give each case of
`shutdown`: one that closes, and one that finds the server closing, closed or not
listening. Of three connections one can wait while another leaves in the middle
of a request and a third is idle or new; three awaits are a limiter and two
statements, so that a shutdown falls between the two. In `Configured` two changes
reach a guard with the condition that turns it on; variables that no guard reads
are parsed each by itself.

The theorems of section 5 have none of these bounds.

Counting in memory (`Store` memory, or `NODE_ENV` test) has no run of its own:
the theorem `LimitsHold` covers it, as `WithinLimits` asks the limit of each
process then. `SYMMETRY` permutes requests, and in `LimitsShared` clients and
processes, which differ in name only; runs with a liveness property use none.

**Fairness.** In each `FairSpec` clients need not send anything and no fault has
to happen.

* `AuthService`, `RequestPipeline` and `Uploads`: weak fairness of `Step` of each
  request. A handler waits only for its own statement (`waitForConnections` with
  mysql2's unbounded queue, and no connection is held between two statements);
  MySQL answers a statement or fails it; a command to Redis is answered or fails
  after its retries; the file system answers; a client that sends a body goes on,
  leaves, or is cut off by Node's `requestTimeout`. Node's event loop resumes a
  resolved promise and Express calls the next middleware. `Step(r)` stays enabled
  until it is taken, so strong fairness is not needed.
* `ServerLifecycle`: what a handler awaits (as above), the close callback and the
  end of the pool, Node's keep-alive timer, and one thing about clients: who has
  connected and sent nothing sends a request or leaves, for Node stops its timer
  for such connections when the server closes. That clients do not send requests
  for ever is the bound `MaxAwaits`: Node serves a kept-alive connection while the
  server closes, so an endless stream of requests would keep the process running.
* `EmailQueue`: a waiting job is taken by some worker that has room, a delay ends,
  SMTP answers or times out, an abandoned job is found by the stalled check, a
  closing worker closes. Nothing starts a worker again (`docker-compose.yml` has
  no restart policy), so the liveness of the mail is for fewer downs than there
  are workers.

**Deadlock** is checked in every run of `AuthService`: `AllAnswered` is the only
way to stop. The other systems may stop: a process that has exited, a worker
that is down, a pipeline whose requests are all answered.

### What the runs show

*Sessions and codes.*

* A token or code that is dead on arrival never gives a session, and dead
  credentials stay dead (`SpentNeverGranted`). At most as many requests are
  served with one credential as overlap (`GrantsBounded`): the gap between the
  find and the revocation is the only way to be served twice.
* Revocation comes before replacement, so a failure may lose a session but not
  leave two, for rotations and for exchanges (`SpentBeforeReplaced`); without
  failures a rotation completes unless its user is deleted (`RotationCompletes`).
  A pair that reached a client has its row as long as its user
  (`GrantedIsStored`).
* After a logout is answered the token is dead even if a refresh of it was under
  way (`LogoutSticks`) and the link that refresh wrote is kept (`LinkSurvives`),
  which rests on Drizzle leaving out `undefined` columns; the in-memory
  repository of the tests would erase the link. Only that token is revoked
  (`NoUnaskedRevocation`). The session the refresh obtained survives the logout:
  no property says otherwise.
* Sessions, links and users belong to whom they should under every interleaving
  (`SessionOwner`, `LinkedToOwner`, `NoRelink`), thanks to the UNIQUE indexes and
  foreign keys and not to the finds before them. A link may move only when the
  e-mail that Google gives for the account does.
* Tokens are accepted up to their last second and not after their life, however
  `exp` and `expires_at` are rounded (`LivesItsTime`, `DiesInTime`). A row
  outlives its token by a second and a half at most, a token its row by half a
  second and the time the signing took (`RecordsAgree`); as a refresh asks for
  both, the session ends with the first.

*In front of the handlers.*

* No client passes a limiter more often in a window than its limit, whichever
  processes it asks and whatever dies (`WithinLimits`), and who is refused has
  spent that very limit (`RefusedRightly`, which a failing Redis may break: a hit
  that is sent twice counts twice). A Redis that fails lets nobody pass uncounted.
* Whatever a client learns from an API route has been counted first
  (`AttemptsCounted`): the limiters stand before the validation on every route
  that has one. A route does what it is for only to requests with which nothing is
  wrong that a check could tell: none is missing in a chain, and none is passed by
  (`SuccessUnobjected`). Each request is answered (`EveryRequestAnswered`).
* An accepted upload stays, whole, and obeys every rule (`AcceptedIsKept`). A
  refused one leaves a whole file only if it could not be read or removed or the
  process died, and part of a file only if the write, the body or the process
  broke off (`OrphansExplained`): `readFile` is outside the `catch` that guards
  `unlink`, and nothing ever sweeps the directory. The client is told which rule
  it broke even when `unlink` fails (`StatusTells`).

*Around them.*

* A mail is tried at most `attempts` + `maxStalledCount` times (`RunsBounded`),
  so that is how many copies may leave; one that is completed was sent
  (`CompletedWasSent`), one that was given up may have been delivered all the
  same, but never without a reason (`GivenUpForAReason`). A second copy has a
  failure or a stall to blame (`DuplicatesExplained`). A signal cuts no mail short
  and the worker stops (`SignalCutsNothing`, `WorkersStop`). Seen from outside
  this is `MailDelivery` (`QueueDelivers`).
* The shutdown of the server closes nothing under a client that waits
  (`WaitingClientsServed`): handlers that lose the limiters or the pool between
  two statements are those whose client has left, for `server.close` waits for
  connections, not handlers. Such a rotation may stop between its two statements,
  as after a `DbError`. A clean exit lets every statement in flight finish; a
  second signal turns any shutdown into exit code 1, and does not wait for the
  pool (`ExitCodeTells`). A server that does not get its port calls the listen
  callback all the same: the process lives on, or exits with 0 if the limiters
  count in memory and nothing keeps it.
* No process runs in production with a placeholder, padded, defaulted or plain,
  without an origin or with limits in memory (`ProductionIsGuarded`); a mail
  password that was given is used (`CredentialsAreUsed`); a blank that became a 0
  is refused wherever 0 makes no sense (`AssumptionsHold`).

### Where the documentation says more than the code does

Two violation runs show what happens when requests overlap: a login code serves
two exchanges that both find it before either consumes it, and a second
registration that passes the find is answered 500 by the UNIQUE index.

Without a run of their own, met while modelling (paths under
`docs/superpowers/modules/`):

* Two refreshes of one token may both be served, as `GrantsBounded` allows, and
  the second overwrites the link to the replacement that the first stored;
  `client-01-password-auth-jwt` (line 38) promises rotation with a link to the
  replacement.
* Two callbacks of one Google account, one with and one without a photo, may
  write back an avatar that was read before the other one set it.
* Logout has no auth limiter (`auth.routes.ts:56`), while
  `architecture-06-security-hardening` (line 40) lists "Login/register/refresh/logout
  protection". It is counted by the general policy, which `AttemptsCounted` has.
* A callback that fails in the strategy or in the handler is answered with JSON,
  422 or 500; only a refusal of Google is redirected (`passport.ts:33`,
  `auth.routes.ts:77`, against `client-02-google-oauth`, line 60).

### Mutants

Operators with an underscore in their name (`RevokeRefreshToken_LinkOnly`) are
bugs the code does not have: a missing condition, a swapped order, a forgotten
column. Each stands before the operator it alters, and `PROJECT.json` pairs each
property of each run with one that makes TLC find a violation. They take no
part in the specification.

## 4. Assumptions on the constants

`NoneIsNoName`, `NoneIsNoWord`: the null value is no request, e-mail, account,
handler or answer. `KindsAreHandlers`, `FaultsAreFaults`, `ProfilesAreProfiles`:
the parameters that select handlers, faults and profiles select existing ones.
`LifecycleAssumption`: the bounds are natural numbers and `None` is none, so that
it is no exit code. `QueueAssumption`: concurrency and attempts are positive (the
first by `env.ts`, the second by `defaultJobOptions`). `UploadsAssumption`: the
two lists of types are lists of types, and unknown content is none of them.
`RateLimitersAssumption`: the limits are positive (`env.ts`), store and
environment are those of the schema, and Redis is no process.
`PipelineAssumption`: routes, flaws and faults are existing ones.
`ClockAssumption`: a second and the two lifetimes are positive; delay and skew
are natural numbers. `MaxInFlightIsNat`: the bound on the handlers that run at
the same time is a natural number, whichever. `SourcesAssumption`: an environment
gives each variable one of the classes of values. Nothing is assumed finite.

## 5. Proofs

`PROJECT.json` lists the theorems with the properties they state. All are proved
for any value of the constants: any number of requests, jobs, uploads, clients
and processes, with every fault. Every invariant and every action property of the
passing runs is among them; the runs keep the bugs of the mutants out of them, and
the liveness properties to themselves.

**Authentication.** `TypeCorrect`: `Spec => []TypeOK`, by one lemma per kind of
step.

`CredentialInvariant`: `Spec => []CredentialInv`. The properties of section 3
are not inductive. That a stale request is never served needs that it never
learns a user; that a session exists only when its credential is dead needs that
the handler that stores it has been through the revocation, that nothing makes a
dead token active, and that the row of a presented token was inserted before,
so that it cannot be inserted, active, later. `CredentialInv` is the conjunction
of just that, by request: a row is inserted only by its request and late in
it (`RowsAreFresh`); what was sent has had a row (`SentIsStored`); how far a
refresh or exchange has come says what it knows (`RefreshProgress`,
`ExchangeProgress`). The proof first shows that every statement but the two
inserts lets rows only age (`TokensAge`, `CodesAge`: never inserted again,
never active again); then that while rows age only the moving request needs to
be looked at (`MoverSuffices`); then goes through the actions.

`SpentCredentialsAreRefused` and `SpentFirst` are its consequences.

`TokensRefine` and `CodesRefine`: `Spec => TokensAreOneTime` and
`Spec => CodesAreOneTime`, the refinement of `OneTimeCredential`. A token is
`unissued` while its row is free, `live` while active, `dead` after; a request
is admitted when it has found the row and its owner, granted when it is
answered. `RefreshFindToken`, `CreateRefreshToken` and `LoadRefreshToken` map to
`Admit`, `Issue` and `Grant`. Any other step is quiet (no holder is admitted or
granted) and maps to `Die(S)` for the set `S` of tokens that stop being active,
which is empty for most.

**Sessions and accounts** (`AuthAccountProofs`). What a step may change at all
comes first. A request keeps what it presents (`StepKeeps`), rows age under every
step, deletions and expiries included (`NextAges`), a token is revoked and a code
consumed only by the handler of a request that presented it, and a link that was
set stays set (`NextWrites`). Three things follow.

* `RevokedOnRequest` and `LinksAreKept` are `NextWrites`, read once for
  revocation and once for the link.
* `LogoutIsFinal`, from `LogoutInv`: a logout works on a token whose row has been
  inserted and has left it dead when it is answered; inserted tokens that are dead
  stay so.
* `ServiceIsBounded`, from `LoadBounded`. The requests that a credential serves,
  or may still serve, are the admitted ones that run or were answered with tokens.
  While the credential is live nobody has been served yet, so all of them are in
  flight, and at most `MaxInFlight` requests are. Once it is dead nobody joins them
  (`NobodyJoins`, with the refinement, which admits only with a live credential).
  `Reqs` may be infinite.

The properties about users need to know whom each handler acts for, at each of
its statements; `AccountInv` says it. A request knows where its user is from
(`RegisterKnows`, `LoginKnows`, `CredentialKnows`, `CallbackKnows`), and the rows it
stored name that user (`RowsNameOwner`). A callback acts for a user whose e-mail
Google has given for its account (`Attested`) and links only one that is verified.
A stored e-mail belongs to one user (`EmailsUnique`), and each link is to a verified
and attested user (`LinkedToOwner`, which is inductive only with the rest).
That a user keeps his e-mail and password, is never unverified and never comes
back (`UserAges`) makes what a handler learned stay true under the statements of
all others. `LinksAreVerified`, `SessionsAreOwned` and `PairsAreBacked` follow from
the state alone; `AccountsAreNotMoved` from the state and the step: where all
profiles of an account have one e-mail, the user linked before and the one linked
now have that e-mail, and are one user.

**Token clock.** `TokensLive`, `TokensDie` and `RecordsOfASessionAgree` from
`ClockInv`: the signing is at most `MaxDelay` after its beginning (`Begun`), and
the three numbers are what the code computes from those two times (`Recorded`).
The rest is arithmetic of division: `RoundedBounds` puts `expires_at` within half
a second of the exact time, `RecordsInTicks` brings both records to ticks.

**Pipeline.** `LimitsHold`, `AttemptsAreCounted` and `SuccessIsUnobjected` from
`PipelineInv`. Per request (`RequestInv`): what is left of its way is a tail of
the chain of its route, the policies before that tail have counted it, and
nothing before it objects to it; and whatever may be wrong with a request of a route
has its check in that route's chain (`ChecksAreMounted`), so that who got to the
end has nothing wrong with it. Per counter (`KeyInv`): the requests that passed
in a window are finitely many and at most the limit, in the present window no more
than there are hits, in a future one none. The second is what makes the first
inductive: hits may exceed the requests that passed, by refusals and by a Redis
that counted twice, but never fall behind. That `Requests` is finite is not
assumed.

`RefusalsAreRight` is the other half: that a refused client has spent its limit
needs that hits do not run ahead either. `RefusalInv` says, while Redis does not
fail, that a counter has at most as many hits as requests have passed, or its limit
is spent (`SpentByPassing`). A request that passes adds one to both only if it is
not among the passed already: `CountedOnce`, that no limiter a request still has
in front of it has let it pass. That rests on `ChainDistinct`: on no route does a
request meet the same limiter twice.

**Uploads.** `AcceptedFilesAreKept`, `OrphansHaveAReason` and `StatusesTell` from
`UploadsInv`: for each upload by itself, what its place (`UnderWay`) says of its
form and its file. Every step but `Crash` writes the entries of one upload
(`Frame`), so the others stay as they are.

**Mail.** `RunsAreBounded`, `CompletedMailsLeft` and `SignalsCutNothing` from
`QueueInv`. The runs of a job are its failures, its stalls, and one more if it is
active or completed (`RunsCounted`); that bounds them because the queue bounds
failures and stalls, even though a run that lost its lock goes on. What the phase
of a run says of its mail and of its worker is `RunsTell`.

`GivenUpWithReason` and `DuplicatesHaveCauses` also need `RunsAccounted`: each
failure that a job has counted is of another run that threw, a failed job has used
up its attempts or its stalls, and a job that never stalled has no run in progress
but the one with the lock. So a second copy without an error would have to come
from a run that lost its lock, and with it from a stall.

`QueueImplementsDelivery`: `Spec => Delivery!SafeSpec`, the safety of the
refinement of `MailDelivery` (its next-state relation without its fairness).
`Add` maps to `Accept`, a run that sends to `Send`, what settles a job (a report of
the run that has the lock, or a stall too many) to `Settle`, everything else to
a stutter. A mail can leave after it was settled, by a run that lost its lock;
`MailDelivery` allows that, and what bounds it is `RunsBounded`.

**Server.** `WaitingClientsAreServed` and `ExitCodesTell` from `ShutdownInv`. That
no waiting client loses a resource needs that the resources are there until the
server is `closed` (`Serving`) and that a closed server has no connection
(`Unconnected`); that exit code 0 means one signal needs how many signals each
state of the server has seen (`Counted`).

**Configuration.** `ConfigInv`: a process that is configured has in `config` what
the rules make of its variables, no rule refused, and neither guard of
`superRefine` objected. The rest is one lemma per kind of variable that says
what its rule lets through (`SecretRule`, `GoogleRule`, `CredentialRule`,
`NumberRule`). `ProductionGuarded`, `CredentialsUsed` and `AssumptionsAreMet`
hold for every combination of classes, where `Configured` tries those that differ
from a good environment in two variables.

**Only model-checked.** Liveness: it rests on fairness and so on ENABLED, which is
out of the prover's reach. That is `EveryRequestAnswered` (of `AuthService` and of
the pipeline), `RotationCompletes`, `ShutdownEnds`, `EveryUploadEnds`,
`WorkersStop`, and of `QueueDelivers` the part that a mail is settled in the end.
The two violation runs are counterexamples, and need no proof.

## 6. Not modelled

* Signatures, hashes, passwords and random numbers: a token verifies or does
  not, a password matches or does not, a new token is new.
* Names, roles, the e-mail and avatar of `auth_accounts`: written, never read
  by a decision (`requireRole` is not used by any route).
* What exactly the zod rules of the routes demand: `validate` objects or not.
* Request ids, headers, the bodies of answers (that of a 429 too), logging.
* That BullMQ forgets all but 100 completed and 500 failed jobs; a second signal
  to a worker, which waits for the same close; a `close` that rejects.
* A `RedisStore` made before its client is connected; `createRedisConnectionOptions`.
* Readiness as the conjunction of two probes, and the options of the pool.
* The in-memory repository of the tests, and what `PROJECT.json` lists as
  `not_modelled` with its reason.

## 7. Plan

Every part with state or decisions of its own is modelled, and every safety
property of the runs is proved. What could be added, in this order:

1. What was linked when a callback came, as a record in `req`: with it a property
   can say that a Google account whose e-mail moved reaches the user it was linked
   to, which `LinkedToOwner` and `NoRelink` leave open.
2. The safe half of the liveness arguments, which is within the prover's reach:
   that an answer is final, and that each step of a request shortens the way it
   still has to go (the rest of its chain, the statements of its handler), so
   that weak fairness of `Step` is all that `EveryRequestAnswered` needs.
3. A refinement between the two views of a handler: `ServerLifecycle`, where it is
   what it awaits, and `AuthService`, where it is its statements.
