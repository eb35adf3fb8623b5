-------------------------- MODULE RequestPipeline ---------------------------
(***************************************************************************)
(* A request on its way through app.ts, routes.ts and the routers: the     *)
(* middleware it still has in front of it, what each of them objects to,   *)
(* and the answer, from the middleware or from the error handler.  What    *)
(* cannot object (request id, log, helmet, compression) is left out; what  *)
(* the handlers do is AuthService and Uploads.                             *)
(* An operator whose name has an underscore is a bug the code has not.     *)
(***************************************************************************)
EXTENDS RateLimiters, Sequences, FiniteSets

CONSTANTS
    Requests,
    Routes,    \* the routes that are called
    Flawed,    \* what may be wrong with a request: the middleware objecting
    Faults,    \* "db": statements fail; "redis": so does Redis;
               \* "crash": processes die
    MaxResends \* how often one hit may be sent to Redis again

VARIABLE req

vars == <<counters, req>>

AuthRoutes == {"register", "login", "refresh", "logout", "google", "callback",
               "exchange", "me"}
ApiRoutes == AuthRoutes \cup {"api", "uploads", "unknown"}
AllRoutes == ApiRoutes \cup {"live", "ready", "preflight"}

\* Handlers that refuse a request, and those that await something.
Refusing == {"register", "login", "refresh", "logout", "callback", "exchange",
             "uploads"}
Awaiting == Refusing \cup {"ready"}

Middleware == Policies \cup {"cors", "json", "validate", "authenticate", "passport",
                             "multer", "handler"}

ASSUME PipelineAssumption ==
    /\ Routes \subseteq AllRoutes
    /\ Flawed \subseteq Middleware \ Policies
    /\ Faults \subseteq {"db", "redis", "crash"}
    /\ MaxResends \in Nat

\* As it is in the code, but the input is checked before it is counted.
AuthChain_ValidatesFirst(route) ==
    CASE route \in {"register", "login", "refresh"} -> <<"validate", "auth">>
      [] route = "logout"                           -> <<"validate">>
      [] route \in {"google", "callback"}           -> <<"oauth", "passport">>
      [] route = "exchange"                         -> <<"validate", "oauth">>
      [] route = "me"                               -> <<"authenticate">>

\* Nothing checks the body of a logout.
AuthChain_LogoutUnchecked(route) ==
    CASE route \in {"register", "login", "refresh"} -> <<"auth", "validate">>
      [] route = "logout"                           -> <<>>
      [] route \in {"google", "callback"}           -> <<"oauth", "passport">>
      [] route = "exchange"                         -> <<"oauth", "validate">>
      [] route = "me"                               -> <<"authenticate">>

\* createAuthRouter.  /google has no handler: what passport lets pass there is
\* for notFound.
AuthChain(route) ==
    CASE route \in {"register", "login", "refresh"} -> <<"auth", "validate">>
      [] route = "logout"                           -> <<"validate">>
      [] route \in {"google", "callback"}           -> <<"oauth", "passport">>
      [] route = "exchange"                         -> <<"oauth", "validate">>
      [] route = "me"                               -> <<"authenticate">>

\* createUploadRouter.
UploadChain == <<"upload", "authenticate", "multer">>

\* createRouter; what no route takes is for notFound.
RouteChain(route) ==
    CASE route \in AuthRoutes -> AuthChain(route)
      [] route = "uploads"    -> UploadChain
      [] OTHER                -> <<>>

\* createApp; cors answers a preflight itself.
Chain(route) ==
    <<"cors">> \o
    (IF route = "preflight" THEN <<>> ELSE <<"json">>) \o
    (IF route \in ApiRoutes THEN <<"general">> ELSE <<>>) \o
    RouteChain(route) \o <<"handler">>

\* The requests a middleware may find wrong, whether or not it is mounted for
\* them: a schema describes their body, they ask for a user, they come from
\* Google, they bring a file, or the handler has a reason of its own to refuse.
Concerned(m) ==
    CASE m = "cors"         -> AllRoutes
      [] m = "json"         -> AllRoutes \ {"preflight"}
      [] m = "validate"     -> {"register", "login", "refresh", "logout", "exchange"}
      [] m = "authenticate" -> {"me", "uploads"}
      [] m = "passport"     -> {"google", "callback"}
      [] m = "multer"       -> {"uploads"}
      [] m = "handler"      -> Refusing

MayObject(route) == {m \in Middleware \ Policies : route \in Concerned(m)}

\* What a middleware that objects passes to next.
AppErrors(statuses) == {<<"AppError", status>> : status \in statuses}

PassportErrors == AppErrors({"422"}) \cup {<<"Error">>}

MulterErrors ==
    AppErrors({"422"}) \cup
    {<<"Error">>, <<"MulterError", "LIMIT_FILE_SIZE">>,
     <<"MulterError", "LIMIT_UNEXPECTED_FILE">>}

HandlerErrors == AppErrors({"401", "409", "422"})

Errors(m) ==
    CASE m \in {"cors", "json"}  -> {<<"Error">>}
      [] m = "validate"          -> {<<"ZodError">>}
      [] m = "authenticate"      -> AppErrors({"401"})
      [] m = "passport"          -> PassportErrors
      [] m = "multer"            -> MulterErrors
      [] m = "handler"           -> HandlerErrors

\* errorHandler.
ErrorStatus(e) ==
    CASE e[1] = "ZodError"    -> "422"
      [] e[1] = "AppError"    -> e[2]
      [] e[1] = "MulterError" -> IF e[2] = "LIMIT_FILE_SIZE" THEN "413" ELSE "422"
      [] OTHER                -> "500"

\* The answer of a handler that has nothing to object, and of notFound.
Success(route) ==
    CASE route \in {"unknown", "google"} -> "404"
      [] route = "callback"             -> "302 success"
      [] OTHER                          -> "2xx"

Statuses == {"none", "dropped", "2xx", "302 consent", "302 success",
             "302 error", "401", "404", "409", "413", "422", "429", "500"}

None == [route |-> "none"]

\* rest: the middleware to come; counted: the policies and windows that let the
\* request pass; over: those that did not; resent: how often the hit under way
\* was sent again.
Request == [route : Routes, client : Clients, process : Processes,
            flaws : SUBSET Flawed, rest : Seq(Middleware), status : Statuses,
            counted : SUBSET (Policies \X (0..MaxWindows)),
            over : SUBSET (Policies \X (0..MaxWindows)), resent : 0..MaxResends]

Waiting(r) == req[r] # None /\ req[r].status = "none"

TypeOK ==
    /\ CountersType
    /\ req \in [Requests -> Request \cup {None}]

Init ==
    /\ CountersInit
    /\ req = [r \in Requests |-> None]

-----------------------------------------------------------------------------
Arrive(r) ==
    /\ req[r] = None
    /\ \E route \in Routes, c \in Clients, p \in Processes :
         \E flaws \in SUBSET (Flawed \cap MayObject(route)) :
           req' = [req EXCEPT ![r] =
                   [route |-> route, client |-> c, process |-> p, flaws |-> flaws,
                    rest |-> Chain(route), status |-> "none",
                    counted |-> {}, over |-> {}, resent |-> 0]]
    /\ UNCHANGED counters

At(r, m) == Waiting(r) /\ Head(req[r].rest) = m

Answer(r, status) == req' = [req EXCEPT ![r].status = status]

Pass(r) ==
    /\ Waiting(r)
    /\ Head(req[r].rest) \notin Policies \cup req[r].flaws \cup {"handler"}
    /\ req' = [req EXCEPT ![r].rest = Tail(@)]
    /\ UNCHANGED counters

\* passport fails a request that Google's user denied: failureRedirect, which
\* /google has not.
Denied(r) ==
    /\ At(r, "passport")
    /\ Answer(r, IF req[r].route = "callback" THEN "302 error" ELSE "401")

\* Nobody catches what a handler rejects with.
Object_NotCaught(r) ==
    /\ Waiting(r)
    /\ \E m \in req[r].flaws \ {"handler"} :
         /\ At(r, m)
         /\ Denied(r) \/ \E e \in Errors(m) : Answer(r, ErrorStatus(e))
    /\ UNCHANGED counters

Object(r) ==
    /\ Waiting(r)
    /\ \E m \in req[r].flaws :
         /\ At(r, m)
         /\ Denied(r) \/ \E e \in Errors(m) : Answer(r, ErrorStatus(e))
    /\ UNCHANGED counters

\* passport sends a browser that brings no answer of Google's to Google.
AskConsent(r) ==
    /\ At(r, "passport")
    /\ "passport" \notin req[r].flaws
    /\ Answer(r, "302 consent")
    /\ UNCHANGED counters

\* A statement, or another thing a middleware awaits, fails.
DbFails(r) ==
    /\ "db" \in Faults
    /\ \/ At(r, "authenticate")
       \/ /\ At(r, "handler")
          /\ req[r].route \in Awaiting
    /\ Answer(r, ErrorStatus(<<"Error">>))
    /\ UNCHANGED counters

Handle(r) ==
    /\ At(r, "handler")
    /\ "handler" \notin req[r].flaws
    /\ Answer(r, Success(req[r].route))
    /\ UNCHANGED counters

RedisFails == "redis" \in Faults /\ Shared

\* A request that hit a counter in window w: up to the limit it passes.
LetPass(r, policy, w) ==
    [req[r] EXCEPT !.rest = Tail(@), !.counted = @ \cup {<<policy, w>>}, !.resent = 0]

TurnAway(r, policy, w) == [req[r] EXCEPT !.status = "429", !.over = {<<policy, w>>}]

\* One request more than the limit passes.
Count_OneMore(r) ==
    \E policy \in Policies :
      LET k == Key(req[r].process, policy, req[r].client)
      IN  /\ At(r, policy)
          /\ Hit(k, 1)
          /\ req' = [req EXCEPT ![r] = IF hits[k] <= Limit[policy]
                                      THEN LetPass(r, policy, window[k])
                                      ELSE TurnAway(r, policy, window[k])]

\* A limiter.  With a Redis that fails it may end in an error, counted or not.
Count(r) ==
    \E policy \in Policies :
      LET k == Key(req[r].process, policy, req[r].client)
      IN  /\ At(r, policy)
          /\ \/ /\ Hit(k, 1)
                /\ req' = [req EXCEPT ![r] = IF hits[k] < Limit[policy]
                                            THEN LetPass(r, policy, window[k])
                                            ELSE TurnAway(r, policy, window[k])]
             \/ /\ RedisFails
                /\ Hit(k, 1) \/ UNCHANGED counters
                /\ Answer(r, ErrorStatus(<<"Error">>))

\* A hit counts, its reply is lost, and it is sent again.
Resend(r) ==
    \E policy \in Policies :
      /\ RedisFails
      /\ At(r, policy)
      /\ req[r].resent < MaxResends
      /\ Hit(Key(req[r].process, policy, req[r].client), 1)
      /\ req' = [req EXCEPT ![r].resent = @ + 1]

WindowEnds(k) == hits[k] > 0 /\ Reopened({k}) /\ UNCHANGED req

\* A process dies with its requests and its memory, and is started again.
Crash(p) ==
    /\ "crash" \in Faults
    /\ \E r \in Requests : Waiting(r) /\ req[r].process = p
    /\ req' = [r \in Requests |->
                 IF Waiting(r) /\ req[r].process = p
                 THEN [req[r] EXCEPT !.status = "dropped"] ELSE req[r]]
    /\ IF Shared THEN UNCHANGED counters
       ELSE Reopened({k \in Keys : k[1] = p /\ hits[k] > 0})

-----------------------------------------------------------------------------
Step(r) == Pass(r) \/ Object(r) \/ AskConsent(r) \/ Handle(r) \/ Count(r)

Next ==
    \/ \E r \in Requests : Arrive(r) \/ DbFails(r) \/ Resend(r) \/ Step(r)
    \/ \E k \in Keys : WindowEnds(k)
    \/ \E p \in Processes : Crash(p)

Spec == Init /\ [][Next]_vars

\* Express calls the next middleware, and what a middleware awaits answers.
FairSpec == Spec /\ \A r \in Requests : WF_vars(Step(r))
=============================================================================
