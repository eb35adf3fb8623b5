------------------------- MODULE PipelineProperties -------------------------
(* What the limits, the routes and the error handler promise.               *)
EXTENDS RequestPipeline

\* The processes that count together, by the configuration.
Together ==
    IF Store = "redis" /\ Env # "test" THEN {Processes} ELSE {{p} : p \in Processes}

Called(r) == req[r] # None

Passed(ps, c, policy, w) ==
    {r \in Requests : Called(r) /\ req[r].process \in ps /\ req[r].client = c
                      /\ <<policy, w>> \in req[r].counted}

(* No more requests of a client pass a limiter in one window than its limit, *)
(* whichever processes they went to and whatever died in between; without    *)
(* Redis the limit is one of each process (rate-limiters.ts 19-59).          *)
WithinLimits ==
    \A ps \in Together, c \in Clients, policy \in Policies, w \in 0..MaxWindows :
        Cardinality(Passed(ps, c, policy, w)) <= Limit[policy]

(* Who is answered 429 had spent the limit of that very policy in that       *)
(* window with requests that passed: no other client, no other policy, no    *)
(* earlier window costs him an attempt.  A Redis that fails may.             *)
RefusedRightly ==
    ~RedisFails =>
      \A r \in Requests, policy \in Policies, w \in 0..MaxWindows :
        Called(r) /\ <<policy, w>> \in req[r].over =>
          \E ps \in Together :
            /\ req[r].process \in ps
            /\ Cardinality(Passed(ps, req[r].client, policy, w)) >= Limit[policy]

\* The policies that the routers give to a route, besides the general one.
PolicyOf(route) ==
    CASE route \in {"register", "login", "refresh"}   -> {"auth"}
      [] route \in {"google", "callback", "exchange"} -> {"oauth"}
      [] route = "uploads"                            -> {"upload"}
      [] OTHER                                        -> {}

PassedBy(r) == {a[1] : a \in req[r].counted}

\* The request got an answer of which a client can learn something.
Informed(r) == Called(r) /\ req[r].status \notin {"none", "dropped", "429", "500"}

(* No attempt is free: whatever an API route tells of a body, a credential   *)
(* or a file, a mistake included, has been counted by the general policy and *)
(* by that of the route (app.ts 75, auth.routes.ts, upload.routes.ts 50).    *)
AttemptsCounted ==
    \A r \in Requests : Informed(r) /\ req[r].route \in ApiRoutes =>
        {"general"} \cup PolicyOf(req[r].route) \subseteq PassedBy(r)

(* A route does what it is for only to a request with which nothing is       *)
(* wrong of what may be wrong with a request of that route: each check is in *)
(* front of each route that needs it, and none is passed by (app.ts 60-75,   *)
(* auth.routes.ts 26-105, upload.routes.ts 48-82).  Google is asked for      *)
(* consent before the handler has seen anything.                             *)
SuccessUnobjected ==
    \A r \in Requests : Called(r) =>
        /\ req[r].status \in {"2xx", "302 success", "404"} => req[r].flaws = {}
        /\ req[r].status = "302 consent" => req[r].flaws \subseteq {"handler"}

(* Every request is answered, once, unless its process dies: also when Redis *)
(* does not count or a handler rejects.                                      *)
EveryRequestAnswered ==
    \A r \in Requests : Called(r) ~> Called(r) /\ ~Waiting(r)
=============================================================================
