------------------------ MODULE RequestPipelineProofs ------------------------
(***************************************************************************)
(* Theorems about RequestPipeline, for any clients, processes, limits and  *)
(* windows, any flaws, all faults, any number of resent hits, and requests *)
(* without end.                                                            *)
(***************************************************************************)
EXTENDS PipelineProperties, FiniteSetTheorems, TLAPS

-----------------------------------------------------------------------------
(* The chains of middleware. *)

InFront == Policies \cup {"cors", "json", "validate", "authenticate", "passport",
                          "multer"}

LEMMA Tuples ==
    ASSUME NEW S, NEW a \in S, NEW b \in S, NEW c \in S
    PROVE  /\ <<>> \in Seq(S)
           /\ <<a>> \in Seq(S) /\ Len(<<a>>) = 1 /\ <<a>>[1] = a
           /\ <<a, b>> \in Seq(S) /\ Len(<<a, b>>) = 2 /\ <<a, b>>[1] = a
           /\ <<a, b, c>> \in Seq(S) /\ Len(<<a, b, c>>) = 3 /\ <<a, b, c>>[1] = a
OBVIOUS

\* What a router puts in front of a handler; its policy comes first.
LEMMA RouteChainShape ==
    ASSUME NEW route \in AllRoutes
    PROVE  /\ RouteChain(route) \in Seq(InFront)
           /\ \A p \in PolicyOf(route) : Len(RouteChain(route)) > 0
                                         /\ RouteChain(route)[1] = p
<1>0. {"auth", "oauth", "upload", "validate", "authenticate", "passport", "multer"}
        \subseteq InFront
  BY DEF InFront, Policies
<1>1. CASE route \in {"register", "login", "refresh"}
  <2>1. RouteChain(route) = <<"auth", "validate">> /\ PolicyOf(route) = {"auth"}
    BY <1>1 DEF RouteChain, PolicyOf, AuthRoutes, AuthChain
  <2> QED
    BY <1>0, <2>1, Tuples
<1>2. CASE route = "logout"
  <2>1. RouteChain(route) = <<"validate">> /\ PolicyOf(route) = {}
    BY <1>2 DEF RouteChain, PolicyOf, AuthRoutes, AuthChain
  <2> QED
    BY <1>0, <2>1, Tuples
<1>4. CASE route \in {"google", "callback"}
  <2>1. RouteChain(route) = <<"oauth", "passport">> /\ PolicyOf(route) = {"oauth"}
    BY <1>4 DEF RouteChain, PolicyOf, AuthRoutes, AuthChain
  <2> QED
    BY <1>0, <2>1, Tuples
<1>5. CASE route = "exchange"
  <2>1. RouteChain(route) = <<"oauth", "validate">> /\ PolicyOf(route) = {"oauth"}
    BY <1>5 DEF RouteChain, PolicyOf, AuthRoutes, AuthChain
  <2> QED
    BY <1>0, <2>1, Tuples
<1>6. CASE route = "me"
  <2>1. RouteChain(route) = <<"authenticate">> /\ PolicyOf(route) = {}
    BY <1>6 DEF RouteChain, PolicyOf, AuthRoutes, AuthChain
  <2> QED
    BY <1>0, <2>1, Tuples
<1>7. CASE route = "uploads"
  <2>1. RouteChain(route) = <<"upload", "authenticate", "multer">>
        /\ PolicyOf(route) = {"upload"}
    BY <1>7 DEF RouteChain, PolicyOf, AuthRoutes, UploadChain
  <2> QED
    BY <1>0, <2>1, Tuples
<1>8. CASE route \in {"api", "unknown", "live", "ready", "preflight"}
  <2>1. RouteChain(route) = <<>> /\ PolicyOf(route) = {}
    BY <1>8 DEF RouteChain, PolicyOf, AuthRoutes
  <2> QED
    BY <1>0, <2>1, Tuples
<1> QED
  BY <1>1, <1>2, <1>4, <1>5, <1>6, <1>7, <1>8
     DEF AllRoutes, ApiRoutes, AuthRoutes

LEMMA ApiChain ==
    ASSUME NEW route \in ApiRoutes
    PROVE  LET C == Chain(route)  RC == RouteChain(route)
           IN  /\ C \in Seq(Middleware) /\ Len(C) = Len(RC) + 4 /\ Len(RC) \in Nat
               /\ C[1] = "cors" /\ C[2] = "json" /\ C[3] = "general"
               /\ \A i \in 1..Len(RC) : C[i + 3] = RC[i] /\ RC[i] \in InFront
               /\ C[Len(RC) + 4] = "handler"
<1> DEFINE RC == RouteChain(route)
           C == Chain(route)
<1>1. RC \in Seq(InFront)
  BY RouteChainShape DEF AllRoutes
<1>2. /\ <<"cors">> \in Seq(InFront) /\ <<"json">> \in Seq(InFront)
      /\ <<"general">> \in Seq(InFront) /\ <<>> \in Seq(InFront)
      /\ <<"handler">> \in Seq(Middleware) /\ InFront \subseteq Middleware
  BY Tuples DEF InFront, Policies, Middleware
<1>3. C = <<"cors">> \o <<"json">> \o <<"general">> \o RC \o <<"handler">>
  BY DEF Chain, ApiRoutes, AuthRoutes
<1> HIDE DEF RC, C
<1>4. /\ C \in Seq(Middleware) /\ Len(C) = Len(RC) + 4 /\ Len(RC) \in Nat
      /\ C[1] = "cors" /\ C[2] = "json" /\ C[3] = "general"
      /\ \A i \in 1..Len(RC) : C[i + 3] = RC[i] /\ RC[i] \in InFront
      /\ C[Len(RC) + 4] = "handler"
  BY <1>1, <1>2, <1>3
<1> QED
  BY <1>4 DEF RC, C

LEMMA OtherChain ==
    ASSUME NEW route \in AllRoutes \ ApiRoutes
    PROVE  LET C == Chain(route)
           IN  /\ C \in Seq(Middleware) /\ C[1] = "cors" /\ C[Len(C)] = "handler"
               /\ Len(C) = 2 \/ (Len(C) = 3 /\ C[2] = "json")
               /\ route # "preflight" => Len(C) = 3
<1> DEFINE RC == RouteChain(route)
           C == Chain(route)
<1>1. /\ <<"cors">> \in Seq(Middleware) /\ <<"json">> \in Seq(Middleware)
      /\ <<"handler">> \in Seq(Middleware)
  BY Tuples DEF Middleware
<1>2. \/ C = <<"cors">> \o <<"json">> \o <<"handler">>
      \/ C = <<"cors">> \o <<"handler">> /\ route = "preflight"
  <2>1. \A q \in Seq(Middleware) : q \o <<>> = q
    OBVIOUS
  <2>2. <<"cors">> \o <<"json">> \in Seq(Middleware)
    BY <1>1
  <2>3. RC = <<>>
    BY DEF RouteChain, ApiRoutes, AuthRoutes
  <2>4. C = <<"cors">> \o (IF route = "preflight" THEN <<>> ELSE <<"json">>) \o <<>>
            \o RC \o <<"handler">>
    BY DEF Chain
  <2> HIDE DEF C, RC
  <2> QED
    BY <1>1, <2>1, <2>2, <2>3, <2>4
<1> HIDE DEF C, RC
<1>3. /\ C \in Seq(Middleware) /\ C[1] = "cors" /\ C[Len(C)] = "handler"
      /\ Len(C) = 2 \/ (Len(C) = 3 /\ C[2] = "json")
      /\ route # "preflight" => Len(C) = 3
  <2>1. CASE C = <<"cors">> \o <<"json">> \o <<"handler">>
    <3>1. C \in Seq(Middleware) /\ Len(C) = 3
          /\ C[1] = "cors" /\ C[2] = "json" /\ C[3] = "handler"
      BY <1>1, <2>1
    <3> QED
      BY <3>1
  <2>2. CASE C = <<"cors">> \o <<"handler">> /\ route = "preflight"
    <3>1. C \in Seq(Middleware) /\ Len(C) = 2 /\ C[1] = "cors" /\ C[2] = "handler"
      BY <1>1, <2>2
    <3> QED
      BY <2>2, <3>1
  <2> QED
    BY <1>2, <2>1, <2>2
<1> QED
  BY <1>3 DEF C

\* The handler is the last; what can inform a client comes after the policies.
LEMMA ChainShape ==
    ASSUME NEW route \in AllRoutes
    PROVE  /\ Chain(route) \in Seq(Middleware)
           /\ Len(Chain(route)) > 0
           /\ \A i \in 1..Len(Chain(route)) :
                Chain(route)[i] = "handler" <=> i = Len(Chain(route))
           /\ route \in ApiRoutes =>
                \A i \in 1..Len(Chain(route)) :
                  Chain(route)[i] \notin Policies \cup {"cors", "json"} =>
                    \A p \in {"general"} \cup PolicyOf(route) :
                      \E j \in 1..(i - 1) : Chain(route)[j] = p
<1> DEFINE RC == RouteChain(route)
           C == Chain(route)
<1>1. /\ RC \in Seq(InFront)
      /\ \A p \in PolicyOf(route) : Len(RC) > 0 /\ RC[1] = p
  BY RouteChainShape
<1>2. CASE route \in ApiRoutes
  <2>1. /\ C \in Seq(Middleware) /\ Len(C) = Len(RC) + 4 /\ Len(RC) \in Nat
        /\ C[1] = "cors" /\ C[2] = "json" /\ C[3] = "general"
        /\ \A i \in 1..Len(RC) : C[i + 3] = RC[i] /\ RC[i] \in InFront
        /\ C[Len(RC) + 4] = "handler"
    BY <1>2, ApiChain
  <2>2. \A i \in 1..Len(C) : C[i] = "handler" <=> i = Len(C)
    <3> SUFFICES ASSUME NEW i \in 1..Len(C), i # Len(C) PROVE C[i] # "handler"
      BY <2>1
    <3>1. CASE i \in 1..3
      BY <2>1, <3>1
    <3>2. CASE i \notin 1..3
      <4>1. i - 3 \in 1..Len(RC) /\ (i - 3) + 3 = i
        BY <2>1, <3>2
      <4>2. C[i] = RC[i - 3] /\ RC[i - 3] \in InFront
        BY <2>1, <4>1
      <4> QED
        BY <4>2 DEF InFront, Policies
    <3> QED
      BY <3>1, <3>2
  <2>3. ASSUME NEW i \in 1..Len(C), C[i] \notin Policies \cup {"cors", "json"},
               NEW p \in {"general"} \cup PolicyOf(route)
        PROVE  \E j \in 1..(i - 1) : C[j] = p
    <3>1. i > 3
      BY <2>1, <2>3 DEF Policies
    <3>2. CASE p = "general"
      BY <2>1, <3>1, <3>2
    <3>3. CASE p \in PolicyOf(route)
      <4>1. Len(RC) > 0 /\ RC[1] = p /\ p \in Policies
        BY <1>1, <3>3 DEF PolicyOf, Policies
      <4>2. C[4] = p
        BY <2>1, <4>1
      <4> QED
        BY <2>3, <3>1, <4>1, <4>2
    <3> QED
      BY <3>2, <3>3
  <2> QED
    BY <2>1, <2>2, <2>3
<1>3. CASE route \notin ApiRoutes
  <2>1. /\ C \in Seq(Middleware) /\ C[1] = "cors" /\ C[Len(C)] = "handler"
        /\ Len(C) = 2 \/ (Len(C) = 3 /\ C[2] = "json")
    BY <1>3, OtherChain
  <2> QED
    BY <1>3, <2>1
<1> QED
  BY <1>2, <1>3

LEMMA RouteChainDistinct ==
    ASSUME NEW route \in AllRoutes
    PROVE  /\ \A i, j \in 1..Len(RouteChain(route)) :
                RouteChain(route)[i] = RouteChain(route)[j] => i = j
           /\ \A i \in 1..Len(RouteChain(route)) :
                /\ RouteChain(route)[i] \notin {"cors", "json", "general", "handler"}
                /\ RouteChain(route)[i] = "passport" => i = Len(RouteChain(route))
<1> DEFINE RC == RouteChain(route)
<1>1. RC \in {<<>>, <<"auth", "validate">>, <<"validate">>, <<"oauth", "passport">>,
              <<"oauth", "validate">>, <<"authenticate">>,
              <<"upload", "authenticate", "multer">>}
  BY DEF RouteChain, AuthRoutes, AuthChain, UploadChain, AllRoutes, ApiRoutes
<1> HIDE DEF RC
<1>2. /\ \A i, j \in 1..Len(RC) : RC[i] = RC[j] => i = j
      /\ \A i \in 1..Len(RC) : RC[i] \notin {"cors", "json", "general", "handler"}
  BY <1>1
<1>3. ASSUME NEW i \in 1..Len(RC), RC[i] = "passport" PROVE i = Len(RC)
  <2>1. CASE RC = <<"oauth", "passport">>
    BY <1>3, <2>1
  <2>2. CASE RC # <<"oauth", "passport">>
    BY <1>1, <1>3, <2>2
  <2> QED
    BY <2>1, <2>2
<1> QED
  BY <1>2, <1>3 DEF RC

\* No middleware is in a chain twice.
LEMMA ChainDistinct ==
    ASSUME NEW route \in AllRoutes,
           NEW i \in 1..Len(Chain(route)), NEW j \in 1..Len(Chain(route)),
           Chain(route)[i] = Chain(route)[j]
    PROVE  i = j
<1> DEFINE RC == RouteChain(route)
           C == Chain(route)
<1>1. CASE route \in ApiRoutes
  <2>1. /\ Len(C) = Len(RC) + 4 /\ Len(RC) \in Nat
        /\ C[1] = "cors" /\ C[2] = "json" /\ C[3] = "general"
        /\ \A n \in 1..Len(RC) : C[n + 3] = RC[n]
        /\ C[Len(RC) + 4] = "handler"
    BY <1>1, ApiChain
  <2>2. \A n \in 1..Len(C) : \/ n \in 1..3 \/ n = Len(RC) + 4
                             \/ n - 3 \in 1..Len(RC) /\ C[n] = RC[n - 3]
    <3> SUFFICES ASSUME NEW n \in 1..Len(C), n \notin 1..3, n # Len(RC) + 4
                 PROVE  n - 3 \in 1..Len(RC) /\ C[n] = RC[n - 3]
      OBVIOUS
    <3>1. n - 3 \in 1..Len(RC) /\ (n - 3) + 3 = n
      BY <2>1
    <3> QED
      BY <2>1, <3>1
  <2> HIDE DEF C, RC
  <2>3. /\ \A m, n \in 1..Len(RC) : RC[m] = RC[n] => m = n
        /\ \A n \in 1..Len(RC) : RC[n] \notin {"cors", "json", "general", "handler"}
    BY RouteChainDistinct DEF RC
  <2>4. i \in 1..Len(C) /\ j \in 1..Len(C) /\ C[i] = C[j]
    BY DEF C
  <2>5. CASE i - 3 \in 1..Len(RC) /\ C[i] = RC[i - 3]
    <3>0. C[j] \notin {"cors", "json", "general", "handler"}
      BY <2>3, <2>4, <2>5
    <3>1. j - 3 \in 1..Len(RC) /\ C[j] = RC[j - 3]
      <4>1. j # 1 /\ j # 2 /\ j # 3 /\ j # Len(RC) + 4
        BY <2>1, <3>0
      <4> QED
        BY <2>2, <2>4, <4>1
    <3>2. i - 3 = j - 3
      BY <2>3, <2>4, <2>5, <3>1
    <3> QED
      BY <3>2
  <2>6. CASE i \in 1..3 \/ i = Len(RC) + 4
    <3>1. j \in 1..3 \/ j = Len(RC) + 4
      BY <2>1, <2>2, <2>3, <2>4, <2>6
    <3> QED
      BY <2>1, <2>4, <2>6, <3>1
  <2> QED
    BY <2>2, <2>4, <2>5, <2>6
<1>2. CASE route \notin ApiRoutes
  <2>1. /\ C[1] = "cors" /\ C[Len(C)] = "handler"
        /\ Len(C) = 2 \/ (Len(C) = 3 /\ C[2] = "json")
    BY <1>2, OtherChain
  <2> QED
    BY <2>1
<1> QED
  BY <1>1, <1>2

\* A check that a router owes its route is in the chain of the route.
LEMMA RouteChecks ==
    ASSUME NEW route \in AllRoutes,
           NEW m \in MayObject(route) \ {"cors", "json", "handler"}
    PROVE  /\ route \in ApiRoutes
           /\ \E i \in 1..Len(RouteChain(route)) : RouteChain(route)[i] = m
<1>1. /\ m \in {"validate", "authenticate", "passport", "multer"}
      /\ route \in Concerned(m)
  BY DEF MayObject, Middleware
<1>2. route \in AuthRoutes \cup {"uploads"}
  BY <1>1 DEF Concerned, AuthRoutes
<1> DEFINE RC == RouteChain(route)
<1>3. \/ m = "validate" /\ RC \in {<<"auth", "validate">>, <<"oauth", "validate">>,
                                  <<"validate">>}
      \/ m = "authenticate" /\ RC \in {<<"authenticate">>,
                                      <<"upload", "authenticate", "multer">>}
      \/ m = "passport" /\ RC = <<"oauth", "passport">>
      \/ m = "multer" /\ RC = <<"upload", "authenticate", "multer">>
  BY <1>1 DEF Concerned, RouteChain, AuthRoutes, AuthChain, UploadChain
<1> HIDE DEF RC
<1>4. \E i \in 1..Len(RC) : RC[i] = m
  <2>1. CASE RC[1] = m /\ 1 \in 1..Len(RC)
    BY <2>1
  <2>2. CASE RC[2] = m /\ 2 \in 1..Len(RC)
    BY <2>2
  <2>3. CASE RC[3] = m /\ 3 \in 1..Len(RC)
    BY <2>3
  <2> QED
    BY <1>3, <2>1, <2>2, <2>3
<1> QED
  BY <1>2, <1>4 DEF RC, ApiRoutes

\* Whatever may be wrong with a request, its chain has the check for it.
LEMMA ChecksAreMounted ==
    ASSUME NEW route \in AllRoutes, NEW m \in MayObject(route)
    PROVE  \E i \in 1..Len(Chain(route)) : Chain(route)[i] = m
<1> DEFINE RC == RouteChain(route)
           C == Chain(route)
<1>1. CASE m \notin {"cors", "json", "handler"}
  <2>1. PICK i \in 1..Len(RC) : RC[i] = m
    BY <1>1, RouteChecks
  <2>2. /\ Len(C) = Len(RC) + 4 /\ Len(RC) \in Nat
        /\ \A n \in 1..Len(RC) : C[n + 3] = RC[n]
    BY <1>1, RouteChecks, ApiChain
  <2>3. i + 3 \in 1..Len(C) /\ C[i + 3] = m
    BY <2>1, <2>2
  <2> QED
    BY <2>3
<1>2. CASE m \in {"cors", "json", "handler"} /\ route \in ApiRoutes
  <2>1. /\ Len(C) = Len(RC) + 4 /\ Len(RC) \in Nat
        /\ C[1] = "cors" /\ C[2] = "json" /\ C[Len(RC) + 4] = "handler"
    BY <1>2, ApiChain
  <2>2. 1 \in 1..Len(C) /\ 2 \in 1..Len(C) /\ Len(RC) + 4 \in 1..Len(C)
    BY <2>1
  <2> QED
    BY <1>2, <2>1, <2>2
<1>3. CASE m \in {"cors", "json", "handler"} /\ route \notin ApiRoutes
  <2>1. /\ C[1] = "cors" /\ C[Len(C)] = "handler"
        /\ Len(C) = 2 \/ (Len(C) = 3 /\ C[2] = "json")
        /\ route # "preflight" => Len(C) = 3
    BY <1>3, OtherChain
  <2>2. m = "json" => route # "preflight"
    BY DEF MayObject, Concerned
  <2>3. /\ 1 \in 1..Len(C) /\ Len(C) \in 1..Len(C)
        /\ m = "json" => 2 \in 1..Len(C) /\ C[2] = "json"
    BY <2>1, <2>2
  <2> QED
    BY <1>3, <2>1, <2>3
<1> QED
  BY <1>1, <1>2, <1>3

\* passport is the last before the handler.
LEMMA PassportIsLast ==
    ASSUME NEW route \in AllRoutes, NEW i \in 1..Len(Chain(route)),
           Chain(route)[i] = "passport"
    PROVE  i = Len(Chain(route)) - 1
<1> DEFINE RC == RouteChain(route)
           C == Chain(route)
<1>1. route \in ApiRoutes
  BY OtherChain
<1>2. /\ Len(C) = Len(RC) + 4 /\ Len(RC) \in Nat
      /\ C[1] = "cors" /\ C[2] = "json" /\ C[3] = "general"
      /\ \A n \in 1..Len(RC) : C[n + 3] = RC[n]
      /\ C[Len(RC) + 4] = "handler"
  BY <1>1, ApiChain
<1>3. \A n \in 1..Len(RC) : RC[n] = "passport" => n = Len(RC)
  BY RouteChainDistinct
<1>4. i \in 1..Len(C) /\ C[i] = "passport"
  OBVIOUS
<1> HIDE DEF RC, C
<1>5. i # 1 /\ i # 2 /\ i # 3 /\ i # Len(RC) + 4
  BY <1>2, <1>4
<1>6. i - 3 \in 1..Len(RC) /\ (i - 3) + 3 = i
  BY <1>2, <1>4, <1>5
<1>7. RC[i - 3] = "passport"
  BY <1>2, <1>4, <1>6
<1> QED
  BY <1>2, <1>3, <1>6, <1>7 DEF C

-----------------------------------------------------------------------------
(* The inductive invariant. *)

Succeeded(r) == req[r].status \in {"2xx", "302 success", "404"}

Asked(r) == req[r].status = "302 consent"

\* Where a request is in its chain: nothing before objected, all policies
\* before let it pass.
Behind(r, m) == m \notin req[r].flaws /\ (m \in Policies => m \in PassedBy(r))

Reached(r, i) ==
    /\ Len(req[r].rest) = Len(Chain(req[r].route)) - i + 1
    /\ \A n \in 1..Len(req[r].rest) :
         req[r].rest[n] = Chain(req[r].route)[i + n - 1]
    /\ \A j \in 1..(i - 1) : Behind(r, Chain(req[r].route)[j])

RequestInv(r) ==
    Called(r) =>
        /\ \A m \in req[r].flaws :
             \E i \in 1..Len(Chain(req[r].route)) : Chain(req[r].route)[i] = m
        /\ Waiting(r) => \E i \in 1..Len(Chain(req[r].route)) : Reached(r, i)
        /\ Succeeded(r) => req[r].flaws = {}
        /\ Asked(r) => req[r].flaws \subseteq {"handler"}
        /\ Informed(r) /\ req[r].route \in ApiRoutes =>
             {"general"} \cup PolicyOf(req[r].route) \subseteq PassedBy(r)

\* The requests that counter k has let pass in its window w.
In(r, k, w) ==
    /\ Called(r)
    /\ <<k[2], w>> \in req[r].counted
    /\ Key(req[r].process, k[2], req[r].client) = k

PassedAt(k, w) == {r \in Requests : In(r, k, w)}

KeyInv(k) ==
    \A w \in 0..MaxWindows :
        /\ IsFiniteSet(PassedAt(k, w))
        /\ Cardinality(PassedAt(k, w)) <= Limit[k[2]]
        /\ w = window[k] => Cardinality(PassedAt(k, w)) <= hits[k]
        /\ w > window[k] => PassedAt(k, w) = {}

PipelineInv ==
    /\ TypeOK
    /\ \A r \in Requests : RequestInv(r)
    /\ \A k \in Keys : KeyInv(k)

LEMMA NoneIsNoRequest == \A q \in Request : q # None
BY PipelineAssumption DEF Request, None, AllRoutes, ApiRoutes, AuthRoutes

LEMMA InitInv == Init => PipelineInv
<1> SUFFICES ASSUME Init PROVE PipelineInv
  OBVIOUS
<1>1. \A r \in Requests : req[r] = None
  BY DEF Init
<1>2. TypeOK
  BY RateLimitersAssumption DEF Init, CountersInit, TypeOK, CountersType
<1>3. \A k \in Keys, w \in 0..MaxWindows : PassedAt(k, w) = {}
  BY <1>1 DEF PassedAt, In, Called
<1>4. \A k \in Keys : window[k] = 0 /\ hits[k] = 0 /\ Limit[k[2]] \in Nat
  BY RateLimitersAssumption DEF Init, CountersInit, Keys
<1>5. ASSUME NEW k \in Keys PROVE KeyInv(k)
  <2>1. IsFiniteSet({}) /\ Cardinality({}) = 0
    BY FS_EmptySet
  <2>2. \A w \in 0..MaxWindows :
          IsFiniteSet(PassedAt(k, w)) /\ Cardinality(PassedAt(k, w)) = 0
    BY <1>3, <2>1
  <2> QED
    BY <1>3, <1>4, <2>2 DEF KeyInv
<1> QED
  BY <1>1, <1>2, <1>5 DEF PipelineInv, RequestInv, Called

-----------------------------------------------------------------------------
(* What the steps have in common. *)

\* A request that does not move stays as it is.
LEMMA OthersKeep ==
    ASSUME NEW r \in Requests, RequestInv(r), req'[r] = req[r]
    PROVE  RequestInv(r)'
<1>1. /\ Called(r)' <=> Called(r)
      /\ Waiting(r)' <=> Waiting(r)
      /\ Succeeded(r)' <=> Succeeded(r)
      /\ Asked(r)' <=> Asked(r)
      /\ Informed(r)' <=> Informed(r)
      /\ PassedBy(r)' = PassedBy(r)
  BY DEF Called, Waiting, Succeeded, Asked, Informed, PassedBy
<1>2. \A i \in 1..Len(Chain(req[r].route)) : Reached(r, i) => Reached(r, i)'
  BY <1>1 DEF Reached, Behind
<1> QED
  BY <1>1, <1>2 DEF RequestInv

\* As long as the requests that passed are the same, so are the sets of them.
LEMMA CountersKeep ==
    ASSUME NEW k \in Keys, KeyInv(k), hits'[k] = hits[k], window'[k] = window[k],
           \A r \in Requests, w \in 0..MaxWindows : In(r, k, w)' <=> In(r, k, w)
    PROVE  KeyInv(k)'
<1>1. \A w \in 0..MaxWindows : PassedAt(k, w)' = PassedAt(k, w)
  BY DEF PassedAt
<1> QED
  BY <1>1 DEF KeyInv

\* The answer to a request that waits.
LEMMA AnswerKeeps ==
    ASSUME PipelineInv, NEW r \in Requests, Waiting(r),
           NEW st \in Statuses \ {"none"}, Answer(r, st),
           st \in {"2xx", "302 success", "404"} => req[r].flaws = {},
           st = "302 consent" => req[r].flaws \subseteq {"handler"},
           st \notin {"dropped", "429", "500"} /\ req[r].route \in ApiRoutes =>
             {"general"} \cup PolicyOf(req[r].route) \subseteq PassedBy(r)
    PROVE  /\ req' \in [Requests -> Request \cup {None}]
           /\ \A s \in Requests : RequestInv(s)'
           /\ \A s \in Requests, k \in Keys, w \in 0..MaxWindows :
                In(s, k, w)' <=> In(s, k, w)
<1> DEFINE q == [req[r] EXCEPT !.status = st]
<1>1. req[r] \in Request /\ req \in [Requests -> Request \cup {None}]
  BY DEF PipelineInv, TypeOK, Waiting
<1>2. /\ q \in Request /\ q.status = st /\ q.route = req[r].route
      /\ q.flaws = req[r].flaws /\ q.counted = req[r].counted
      /\ q.process = req[r].process /\ q.client = req[r].client
  BY <1>1 DEF Request
<1>3. req' = [req EXCEPT ![r] = q]
  BY DEF Answer
<1> HIDE DEF q
<1>4. req'[r] = q /\ \A s \in Requests : s # r => req'[s] = req[s]
  BY <1>1, <1>3
<1>5. Called(r) /\ Called(r)'
  BY <1>2, <1>4, NoneIsNoRequest DEF Called, Waiting
<1>6. RequestInv(r)'
  <2>1. ~Waiting(r)' /\ PassedBy(r)' = PassedBy(r)
    BY <1>2, <1>4 DEF Waiting, PassedBy
  <2>2. /\ Succeeded(r)' => st \in {"2xx", "302 success", "404"}
        /\ Asked(r)' => st = "302 consent"
    BY <1>2, <1>4 DEF Succeeded, Asked
  <2>3. Informed(r)' => st \notin {"dropped", "429", "500"}
    BY <1>2, <1>4 DEF Informed
  <2>4. \A m \in req'[r].flaws :
          \E i \in 1..Len(Chain(req'[r].route)) : Chain(req'[r].route)[i] = m
    <3>1. \A m \in req[r].flaws :
            \E i \in 1..Len(Chain(req[r].route)) : Chain(req[r].route)[i] = m
      BY <1>5 DEF PipelineInv, RequestInv
    <3> QED
      BY <1>2, <1>4, <3>1, ZenonT(30)
  <2> QED
    BY <1>2, <1>4, <2>1, <2>2, <2>3, <2>4 DEF RequestInv
<1>7. ASSUME NEW s \in Requests, NEW k \in Keys, NEW w \in 0..MaxWindows
      PROVE  In(s, k, w)' <=> In(s, k, w)
  <2>1. CASE s = r
    BY <1>2, <1>4, <1>5, <2>1 DEF In
  <2>2. CASE s # r
    BY <1>4, <2>2 DEF In, Called
  <2> QED
    BY <2>1, <2>2
<1> QED
  BY <1>1, <1>2, <1>3, <1>4, <1>6, <1>7, OthersKeep DEF PipelineInv

\* Where a request is when it waits.
LEMMA Position ==
    ASSUME PipelineInv, NEW r \in Requests, Waiting(r)
    PROVE  /\ Called(r) /\ req[r] \in Request /\ req[r].route \in AllRoutes
           /\ \E i \in 1..Len(Chain(req[r].route)) :
                /\ Reached(r, i)
                /\ req[r].rest # <<>>
                /\ Head(req[r].rest) = Chain(req[r].route)[i]
                /\ i < Len(Chain(req[r].route)) <=> Head(req[r].rest) # "handler"
<1>1. Called(r) /\ req[r] \in Request
  BY DEF PipelineInv, TypeOK, Waiting, Called
<1>2. req[r].route \in AllRoutes /\ req[r].rest \in Seq(Middleware)
  BY <1>1, PipelineAssumption DEF Request
<1>3. PICK i \in 1..Len(Chain(req[r].route)) : Reached(r, i)
  BY <1>1 DEF PipelineInv, RequestInv
<1>4. Len(Chain(req[r].route)) \in Nat
  BY <1>2, ChainShape
<1>5. Len(req[r].rest) > 0 /\ req[r].rest[1] = Chain(req[r].route)[i]
  <2>1. i \in Nat /\ i >= 1 /\ i <= Len(Chain(req[r].route)) /\ i + 1 - 1 = i
    BY <1>4
  <2>2. Len(req[r].rest) = Len(Chain(req[r].route)) - i + 1
    BY <1>3 DEF Reached
  <2>3. Len(req[r].rest) > 0 /\ 1 \in 1..Len(req[r].rest)
    BY <1>4, <2>1, <2>2
  <2> QED
    BY <1>3, <2>1, <2>3 DEF Reached
<1>6. Head(req[r].rest) = Chain(req[r].route)[i] /\ req[r].rest # <<>>
  BY <1>2, <1>5
<1>7. i < Len(Chain(req[r].route)) <=> Head(req[r].rest) # "handler"
  BY <1>2, <1>4, <1>6, ChainShape
<1> QED
  BY <1>1, <1>2, <1>3, <1>6, <1>7

\* Past its policies a request has been counted by all of them.
LEMMA PoliciesPassed ==
    ASSUME PipelineInv, NEW r \in Requests, Waiting(r),
           Head(req[r].rest) \notin Policies \cup {"cors", "json"},
           req[r].route \in ApiRoutes
    PROVE  {"general"} \cup PolicyOf(req[r].route) \subseteq PassedBy(r)
<1>1. PICK i \in 1..Len(Chain(req[r].route)) :
        Reached(r, i) /\ Head(req[r].rest) = Chain(req[r].route)[i]
  BY Position
<1>2. ASSUME NEW p \in {"general"} \cup PolicyOf(req[r].route) PROVE p \in PassedBy(r)
  <2>1. PICK j \in 1..(i - 1) : Chain(req[r].route)[j] = p
    <3>1. Chain(req[r].route)[i] \notin Policies \cup {"cors", "json"}
      BY <1>1
    <3>2. req[r].route \in AllRoutes
      BY Position
    <3> QED
      BY <3>1, <3>2, ChainShape
  <2>2. p \in Policies
    BY DEF Policies, PolicyOf
  <2>3. Behind(r, Chain(req[r].route)[j])
    BY <1>1 DEF Reached
  <2> QED
    BY <2>1, <2>2, <2>3 DEF Behind
<1> QED
  BY <1>2

\* Where a sequence repeats C from i on, its tail does so from i + 1 on.
LEMMA TailFollows ==
    ASSUME NEW S, NEW s \in Seq(S), s # <<>>, NEW C, NEW i \in Nat,
           \A n \in 1..Len(s) : s[n] = C[i + n - 1]
    PROVE  \A n \in 1..Len(Tail(s)) : Tail(s)[n] = C[(i + 1) + n - 1]
<1>1. Len(s) \in Nat /\ Len(s) = Len(Tail(s)) + 1 /\ Len(Tail(s)) \in Nat
  OBVIOUS
<1>2. ASSUME NEW n \in 1..Len(Tail(s))
      PROVE  Tail(s)[n] = C[(i + 1) + n - 1]
  <2>1. n + 1 \in 1..Len(s) /\ i + (n + 1) - 1 = (i + 1) + n - 1
    BY <1>1
  <2>2. Tail(s)[n] = s[n + 1]
    BY <1>1
  <2> QED
    BY <2>1, <2>2
<1> QED
  BY <1>2

\* A request goes on to what is next in its chain.
LEMMA Advances ==
    ASSUME PipelineInv, NEW r \in Requests, Waiting(r),
           Head(req[r].rest) \notin req[r].flaws \cup {"handler"},
           NEW new \in SUBSET (Policies \X (0..MaxWindows)),
           NEW sent \in 0..MaxResends, NEW q,
           q = [req[r] EXCEPT !.rest = Tail(@), !.counted = @ \cup new,
                              !.resent = sent],
           req' = [req EXCEPT ![r] = q],
           Head(req[r].rest) \in Policies =>
             \E a \in new : a[1] = Head(req[r].rest)
    PROVE  /\ req' \in [Requests -> Request \cup {None}]
           /\ \A s \in Requests : RequestInv(s)'
           /\ req'[r] \in Request
           /\ req'[r].counted = req[r].counted \cup new
           /\ req'[r].process = req[r].process /\ req'[r].client = req[r].client
           /\ \A s \in Requests : s # r => req'[s] = req[s]
<1>1. req[r] \in Request /\ req \in [Requests -> Request \cup {None}] /\ Called(r)
  BY DEF PipelineInv, TypeOK, Waiting, Called
<1>2. PICK i \in 1..Len(Chain(req[r].route)) :
        /\ Reached(r, i)
        /\ req[r].rest # <<>>
        /\ Head(req[r].rest) = Chain(req[r].route)[i]
        /\ i < Len(Chain(req[r].route))
  BY Position
<1>3. req[r].rest \in Seq(Middleware) /\ Tail(req[r].rest) \in Seq(Middleware)
  BY <1>1, <1>2 DEF Request
<1>4. /\ q \in Request /\ q.status = req[r].status /\ q.route = req[r].route
      /\ q.flaws = req[r].flaws /\ q.counted = req[r].counted \cup new
      /\ q.process = req[r].process /\ q.client = req[r].client
      /\ q.rest = Tail(req[r].rest)
  BY <1>1, <1>3 DEF Request
<1>6. req'[r] = q /\ \A s \in Requests : s # r => req'[s] = req[s]
  BY <1>1
<1>7. Called(r)' /\ PassedBy(r) \subseteq PassedBy(r)'
  BY <1>4, <1>6, NoneIsNoRequest DEF Called, PassedBy
<1>8. Reached(r, i + 1)'
  <2> DEFINE C == Chain(req[r].route)
  <2>0. Len(C) \in Nat /\ i \in Nat
    BY Position, ChainShape
  <2>1. Len(q.rest) = Len(C) - (i + 1) + 1
    <3>1. Len(req[r].rest) = Len(C) - i + 1
      BY <1>2 DEF Reached
    <3>2. Len(q.rest) = Len(req[r].rest) - 1
      BY <1>2, <1>3, <1>4
    <3> QED
      BY <2>0, <3>1, <3>2
  <2>2. \A n \in 1..Len(q.rest) : q.rest[n] = C[(i + 1) + n - 1]
    <3>1. \A n \in 1..Len(req[r].rest) : req[r].rest[n] = C[i + n - 1]
      BY <1>2 DEF Reached
    <3>2. req[r].rest \in Seq(Middleware) /\ req[r].rest # <<>> /\ q.rest = Tail(req[r].rest)
      BY <1>2, <1>3, <1>4
    <3>3. \A n \in 1..Len(Tail(req[r].rest)) :
            Tail(req[r].rest)[n] = C[(i + 1) + n - 1]
      <4> HIDE DEF C
      <4> DEFINE s == req[r].rest
      <4>1. s \in Seq(Middleware) /\ s # <<>> /\ i \in Nat
        BY <2>0, <3>2
      <4>2. \A n \in 1..Len(s) : s[n] = C[i + n - 1]
        BY <3>1
      <4> HIDE DEF s
      <4>3. \A n \in 1..Len(Tail(s)) : Tail(s)[n] = C[(i + 1) + n - 1]
        BY <4>1, <4>2, TailFollows
      <4> QED
        BY <4>3 DEF s
    <3> QED
      BY <3>2, <3>3
  <2>3. ASSUME NEW j \in 1..i
        PROVE  Behind(r, C[j])'
    <3>1. CASE j = i
      <4>1. C[i] \in Policies => C[i] \in PassedBy(r)'
        <5> SUFFICES ASSUME C[i] \in Policies PROVE C[i] \in PassedBy(r)'
          OBVIOUS
        <5>1. PICK a \in new : a[1] = C[i]
          BY <1>2
        <5>2. a \in req'[r].counted
          BY <1>4, <1>6, <5>1
        <5> QED
          BY <5>1, <5>2 DEF PassedBy
      <4>2. C[i] \notin q.flaws
        BY <1>2, <1>4
      <4> QED
        BY <1>6, <3>1, <4>1, <4>2 DEF Behind
    <3>2. CASE j # i
      <4>1. j \in 1..(i - 1)
        BY <3>2
      <4>2. Behind(r, C[j])
        BY <1>2, <4>1 DEF Reached
      <4> QED
        BY <1>4, <1>6, <1>7, <4>2 DEF Behind
    <3> QED
      BY <3>1, <3>2
  <2>4. (i + 1) - 1 = i
    OBVIOUS
  <2>5. req'[r].route = req[r].route /\ req'[r].rest = q.rest
    BY <1>4, <1>6
  <2> QED
    BY <2>1, <2>2, <2>3, <2>4, <2>5 DEF Reached
<1>9. RequestInv(r)'
  <2>1. i + 1 \in 1..Len(Chain(req[r].route))
    BY <1>2
  <2>2. ~Succeeded(r)' /\ ~Asked(r)' /\ ~Informed(r)'
    BY <1>4, <1>6 DEF Waiting, Succeeded, Asked, Informed
  <2> QED
    BY <1>1, <1>4, <1>6, <1>8, <2>1, <2>2 DEF PipelineInv, RequestInv
<1> QED
  BY <1>1, <1>4, <1>6, <1>9, OthersKeep DEF PipelineInv

-----------------------------------------------------------------------------
(* The steps of a request. *)

\* A step that counts nothing: the counters have let pass whom they had.
LEMMA Uncounted ==
    ASSUME PipelineInv, UNCHANGED counters,
           req' \in [Requests -> Request \cup {None}],
           \A s \in Requests : RequestInv(s)',
           \A s \in Requests, k \in Keys, w \in 0..MaxWindows :
             In(s, k, w)' <=> In(s, k, w)
    PROVE  PipelineInv'
<1>1. TypeOK'
  BY DEF counters, PipelineInv, TypeOK, CountersType
<1>2. \A k \in Keys : KeyInv(k)'
  BY CountersKeep DEF counters, PipelineInv
<1> QED
  BY <1>1, <1>2 DEF PipelineInv

LEMMA ArriveKeeps == ASSUME PipelineInv, NEW r \in Requests, Arrive(r) PROVE PipelineInv'
<1>1. PICK route \in Routes, c \in Clients, p \in Processes, flaws \in SUBSET Flawed :
        /\ flaws \subseteq MayObject(route)
        /\ req' = [req EXCEPT ![r] =
                 [route |-> route, client |-> c, process |-> p, flaws |-> flaws,
                  rest |-> Chain(route), status |-> "none",
                  counted |-> {}, over |-> {}, resent |-> 0]]
  BY DEF Arrive
<1> DEFINE q == [route |-> route, client |-> c, process |-> p, flaws |-> flaws,
                 rest |-> Chain(route), status |-> "none",
                 counted |-> {}, over |-> {}, resent |-> 0]
<1>2. req \in [Requests -> Request \cup {None}] /\ req[r] = None
  BY DEF PipelineInv, TypeOK, Arrive
<1>3. /\ route \in AllRoutes /\ Chain(route) \in Seq(Middleware)
      /\ Len(Chain(route)) \in Nat /\ Len(Chain(route)) > 0
  <2>1. route \in AllRoutes
    BY PipelineAssumption
  <2> QED
    BY <2>1, ChainShape
<1>4. /\ q \in Request /\ q.route = route /\ q.flaws = flaws
      /\ q.rest = Chain(route) /\ q.status = "none" /\ q.counted = {}
  <2>1. 0 \in 0..MaxResends
    BY PipelineAssumption
  <2> QED
    BY <1>3, <2>1 DEF Request, Statuses
<1>5. req' = [req EXCEPT ![r] = q]
  BY <1>1
<1> HIDE DEF q
<1>6. req'[r] = q /\ \A s \in Requests : s # r => req'[s] = req[s]
  BY <1>2, <1>5
<1>7. Reached(r, 1)'
  BY <1>3, <1>4, <1>6 DEF Reached
<1>8. RequestInv(r)'
  <2>1. \A m \in flaws : \E i \in 1..Len(Chain(route)) : Chain(route)[i] = m
    BY <1>1, <1>3, ChecksAreMounted
  <2>2. ~Succeeded(r)' /\ ~Asked(r)' /\ ~Informed(r)'
    BY <1>4, <1>6 DEF Succeeded, Asked, Informed
  <2>3. 1 \in 1..Len(Chain(route))
    BY <1>3
  <2> QED
    BY <1>4, <1>6, <1>7, <2>1, <2>2, <2>3 DEF RequestInv
<1>9. ASSUME NEW s \in Requests, NEW k \in Keys, NEW w \in 0..MaxWindows
      PROVE  In(s, k, w)' <=> In(s, k, w)
  <2>1. CASE s = r
    BY <1>2, <1>4, <1>6, <2>1 DEF In, Called
  <2>2. CASE s # r
    BY <1>6, <2>2 DEF In, Called
  <2> QED
    BY <2>1, <2>2
<1>10. UNCHANGED counters
  BY DEF Arrive
<1> QED
  BY <1>2, <1>4, <1>5, <1>6, <1>8, <1>9, <1>10, OthersKeep, Uncounted DEF PipelineInv

\* The middleware that may object are no limiters.
LEMMA FlawsAreNoPolicies ==
    ASSUME PipelineInv, NEW r \in Requests, Waiting(r), NEW m \in req[r].flaws
    PROVE  m \in Middleware \ Policies
BY Position, PipelineAssumption DEF Request

LEMMA PassKeeps == ASSUME PipelineInv, NEW r \in Requests, Pass(r) PROVE PipelineInv'
<1>1. Waiting(r) /\ Head(req[r].rest) \notin Policies \cup req[r].flaws \cup {"handler"}
  BY DEF Pass
<1> DEFINE q == [req[r] EXCEPT !.rest = Tail(@), !.counted = @ \cup {},
                               !.resent = req[r].resent]
<1>2. req[r] \in Request /\ req[r].resent \in 0..MaxResends
  BY <1>1, Position DEF Request
<1>3. req' = [req EXCEPT ![r] = q]
  BY <1>2 DEF Pass, Request
<1> HIDE DEF q
<1>4. /\ req' \in [Requests -> Request \cup {None}]
      /\ \A s \in Requests : RequestInv(s)'
      /\ req'[r] \in Request /\ req'[r].counted = req[r].counted \cup {}
      /\ req'[r].process = req[r].process /\ req'[r].client = req[r].client
      /\ \A s \in Requests : s # r => req'[s] = req[s]
  BY <1>1, <1>2, <1>3, Advances DEF q
<1>5. ASSUME NEW s \in Requests, NEW k \in Keys, NEW w \in 0..MaxWindows
      PROVE  In(s, k, w)' <=> In(s, k, w)
  <2>1. CASE s = r
    BY <1>1, <1>4, <2>1, NoneIsNoRequest DEF In, Called, Waiting
  <2>2. CASE s # r
    BY <1>4, <2>2 DEF In, Called
  <2> QED
    BY <2>1, <2>2
<1>6. UNCHANGED counters
  BY DEF Pass
<1> QED
  BY <1>4, <1>5, <1>6, Uncounted

LEMMA ErrorStatuses ==
    ASSUME NEW m \in Middleware \ Policies, NEW e \in Errors(m)
    PROVE  /\ ErrorStatus(e) \in {"401", "409", "413", "422", "500"}
           /\ m \in {"cors", "json"} => ErrorStatus(e) = "500"
BY DEF Middleware, Errors, AppErrors, PassportErrors, MulterErrors, HandlerErrors,
       ErrorStatus

\* What an objection is answered with.
LEMMA ObjectionAnswer ==
    ASSUME NEW r \in Requests, NEW m \in Middleware \ Policies, At(r, m),
           Denied(r) \/ \E e \in Errors(m) : Answer(r, ErrorStatus(e))
    PROVE  \E st \in Statuses \ {"none"} :
             /\ Answer(r, st)
             /\ st \in {"401", "409", "413", "422", "500", "302 error"}
             /\ m \in {"cors", "json"} => st = "500"
<1>1. CASE Denied(r)
  <2>1. m = "passport"
    BY <1>1 DEF Denied, At
  <2>2. PICK st \in {"302 error", "401"} : Answer(r, st)
    BY <1>1 DEF Denied
  <2> QED
    BY <2>1, <2>2 DEF Statuses
<1>2. CASE \E e \in Errors(m) : Answer(r, ErrorStatus(e))
  BY <1>2, ErrorStatuses DEF Statuses
<1> QED
  BY <1>1, <1>2

LEMMA ObjectKeeps == ASSUME PipelineInv, NEW r \in Requests, Object(r) PROVE PipelineInv'
<1>1. PICK m \in req[r].flaws :
        At(r, m) /\ (Denied(r) \/ \E e \in Errors(m) : Answer(r, ErrorStatus(e)))
  BY DEF Object
<1>2. Waiting(r) /\ Head(req[r].rest) = m /\ UNCHANGED counters
  BY <1>1 DEF At, Object
<1>3. m \in Middleware \ Policies
  BY <1>2, FlawsAreNoPolicies
<1>4. PICK st \in Statuses \ {"none"} :
        /\ Answer(r, st)
        /\ st \in {"401", "409", "413", "422", "500", "302 error"}
        /\ m \in {"cors", "json"} => st = "500"
  BY <1>1, <1>3, ObjectionAnswer
<1>5. st # "500" /\ req[r].route \in ApiRoutes =>
        {"general"} \cup PolicyOf(req[r].route) \subseteq PassedBy(r)
  BY <1>2, <1>3, <1>4, PoliciesPassed
<1> QED
  BY <1>2, <1>4, <1>5, AnswerKeeps, Uncounted

LEMMA DbFailsKeeps ==
    ASSUME PipelineInv, NEW r \in Requests, DbFails(r)
    PROVE  PipelineInv'
<1>1. Waiting(r) /\ UNCHANGED counters /\ Answer(r, "500")
  BY DEF DbFails, At, ErrorStatus
<1> QED
  BY <1>1, AnswerKeeps, Uncounted DEF Statuses

LEMMA AskConsentKeeps ==
    ASSUME PipelineInv, NEW r \in Requests, AskConsent(r)
    PROVE  PipelineInv'
<1>1. /\ Waiting(r) /\ Head(req[r].rest) = "passport" /\ "passport" \notin req[r].flaws
      /\ UNCHANGED counters /\ Answer(r, "302 consent")
  BY DEF AskConsent, At
<1>2. req[r].flaws \subseteq {"handler"}
  <2> SUFFICES ASSUME NEW m \in req[r].flaws, m # "handler" PROVE FALSE
    OBVIOUS
  <2> DEFINE C == Chain(req[r].route)
  <2>1. PICK i \in 1..Len(C) : Reached(r, i) /\ C[i] = "passport"
    BY <1>1, Position
  <2>2. PICK j \in 1..Len(C) : C[j] = m
    BY <1>1, Position DEF PipelineInv, RequestInv
  <2>3. Len(C) \in Nat /\ (C[j] = "handler" <=> j = Len(C)) /\ i = Len(C) - 1
    <3>1. req[r].route \in AllRoutes
      BY <1>1, Position
    <3>2. C \in Seq(Middleware) /\ (C[j] = "handler" <=> j = Len(C))
      BY <3>1, ChainShape
    <3>3. i = Len(C) - 1
      BY <2>1, <3>1, PassportIsLast
    <3> QED
      BY <3>2, <3>3
  <2>4. j # i
    BY <1>1, <2>1, <2>2
  <2>5. j \in 1..(i - 1)
    BY <2>2, <2>3, <2>4
  <2> QED
    BY <2>1, <2>2, <2>5 DEF Reached, Behind
<1>3. req[r].route \in ApiRoutes =>
        {"general"} \cup PolicyOf(req[r].route) \subseteq PassedBy(r)
  BY <1>1, PoliciesPassed DEF Policies
<1> QED
  BY <1>1, <1>2, <1>3, AnswerKeeps, Uncounted DEF Statuses

LEMMA HandleKeeps == ASSUME PipelineInv, NEW r \in Requests, Handle(r) PROVE PipelineInv'
<1>1. /\ Waiting(r) /\ Head(req[r].rest) = "handler" /\ "handler" \notin req[r].flaws
      /\ UNCHANGED counters /\ Answer(r, Success(req[r].route))
  BY DEF Handle, At
<1>2. Success(req[r].route) \in {"404", "302 success", "2xx"}
  BY DEF Success
<1>3. req[r].flaws = {}
  <2> SUFFICES ASSUME NEW m \in req[r].flaws PROVE FALSE
    OBVIOUS
  <2>1. PICK i \in 1..Len(Chain(req[r].route)) :
          Reached(r, i) /\ ~(i < Len(Chain(req[r].route)))
    BY <1>1, Position
  <2>2. PICK j \in 1..Len(Chain(req[r].route)) : Chain(req[r].route)[j] = m
    BY <1>1, Position DEF PipelineInv, RequestInv
  <2>3. Len(Chain(req[r].route)) \in Nat
        /\ (Chain(req[r].route)[j] = "handler" <=> j = Len(Chain(req[r].route)))
    BY <1>1, Position, ChainShape
  <2>4. j \in 1..(i - 1)
    BY <1>1, <2>1, <2>2, <2>3
  <2> QED
    BY <2>1, <2>2, <2>4 DEF Reached, Behind
<1>4. req[r].route \in ApiRoutes =>
        {"general"} \cup PolicyOf(req[r].route) \subseteq PassedBy(r)
  BY <1>1, PoliciesPassed DEF Policies
<1> QED
  BY <1>1, <1>2, <1>3, <1>4, AnswerKeeps, Uncounted DEF Statuses

-----------------------------------------------------------------------------
(* The counters. *)

\* A hit that lets nobody pass.
LEMMA HitKeeps ==
    ASSUME PipelineInv, NEW k \in Keys, NEW n \in Nat, Hit(k, n),
           \A s \in Requests, l \in Keys, w \in 0..MaxWindows :
             In(s, l, w)' <=> In(s, l, w)
    PROVE  CountersType' /\ \A l \in Keys : KeyInv(l)'
<1>1. hits \in [Keys -> Nat] /\ window \in [Keys -> 0..MaxWindows]
  BY DEF PipelineInv, TypeOK, CountersType
<1>2. /\ window' = window /\ hits' = [hits EXCEPT ![k] = @ + n]
  BY DEF Hit
<1>3. ASSUME NEW l \in Keys PROVE KeyInv(l)'
  <2>1. hits[l] \in Nat /\ hits'[l] \in Nat /\ hits'[l] >= hits[l]
    BY <1>1, <1>2
  <2>2. \A w \in 0..MaxWindows : PassedAt(l, w)' = PassedAt(l, w)
    BY DEF PassedAt
  <2>3. \A w \in 0..MaxWindows : Cardinality(PassedAt(l, w)) \in Nat
    BY FS_CardinalityType DEF PipelineInv, KeyInv
  <2> QED
    BY <1>2, <2>1, <2>2, <2>3 DEF PipelineInv, KeyInv
<1> QED
  BY <1>1, <1>2, <1>3 DEF CountersType

\* The windows of some counters end.
LEMMA ReopenedKeeps ==
    ASSUME PipelineInv, NEW ks \in SUBSET Keys, Reopened(ks),
           \A s \in Requests, l \in Keys, w \in 0..MaxWindows :
             In(s, l, w)' <=> In(s, l, w)
    PROVE  CountersType' /\ \A l \in Keys : KeyInv(l)'
<1>1. hits \in [Keys -> Nat] /\ window \in [Keys -> 0..MaxWindows]
  BY DEF PipelineInv, TypeOK, CountersType
<1>2. ASSUME NEW l \in Keys
      PROVE  /\ window'[l] = IF l \in ks THEN window[l] + 1 ELSE window[l]
             /\ hits'[l] = IF l \in ks THEN 0 ELSE hits[l]
             /\ window'[l] \in 0..MaxWindows /\ hits'[l] \in Nat
  BY <1>1, RateLimitersAssumption DEF Reopened
<1>3. CountersType'
  BY <1>2 DEF Reopened, CountersType
<1>4. ASSUME NEW l \in ks PROVE KeyInv(l)'
  <2>1. /\ window'[l] = window[l] + 1 /\ hits'[l] = 0 /\ window[l] \in Nat
    BY <1>1, <1>2
  <2>2. \A w \in 0..MaxWindows : PassedAt(l, w)' = PassedAt(l, w)
    BY DEF PassedAt
  <2>3. Cardinality({}) = 0
    BY FS_EmptySet
  <2>4. KeyInv(l)
    BY DEF PipelineInv
  <2> SUFFICES ASSUME NEW w \in 0..MaxWindows
               PROVE  /\ IsFiniteSet(PassedAt(l, w))
                      /\ Cardinality(PassedAt(l, w)) <= Limit[l[2]]
                      /\ w = window'[l] => Cardinality(PassedAt(l, w)) <= hits'[l]
                      /\ w > window'[l] => PassedAt(l, w) = {}
    BY <2>2 DEF KeyInv
  <2>5. w >= window'[l] => PassedAt(l, w) = {}
    BY <2>1, <2>4 DEF KeyInv
  <2> QED
    BY <2>1, <2>3, <2>4, <2>5 DEF KeyInv
<1>5. ASSUME NEW l \in Keys, l \notin ks PROVE KeyInv(l)'
  BY <1>2, <1>5, CountersKeep DEF PipelineInv
<1> QED
  BY <1>3, <1>4, <1>5

LEMMA CountKeeps == ASSUME PipelineInv, NEW r \in Requests, Count(r) PROVE PipelineInv'
<1>1. PICK policy \in Policies :
        LET k == Key(req[r].process, policy, req[r].client)
        IN  /\ At(r, policy)
            /\ \/ /\ Hit(k, 1)
                  /\ req' = [req EXCEPT ![r] = IF hits[k] < Limit[policy]
                                              THEN LetPass(r, policy, window[k])
                                              ELSE TurnAway(r, policy, window[k])]
               \/ /\ RedisFails
                  /\ Hit(k, 1) \/ UNCHANGED counters
                  /\ Answer(r, ErrorStatus(<<"Error">>))
  BY DEF Count
<1>2. Waiting(r) /\ Head(req[r].rest) = policy
  BY <1>1 DEF At
<1>3. req[r] \in Request /\ req \in [Requests -> Request \cup {None}] /\ Called(r)
  BY <1>2, Position DEF PipelineInv, TypeOK
<1>4. PICK k \in Keys : k = Key(req[r].process, policy, req[r].client) /\ k[2] = policy
  <2>1. /\ Key(req[r].process, policy, req[r].client) \in Keys
        /\ Key(req[r].process, policy, req[r].client)[2] = policy
    BY <1>3 DEF Request, Key, Keys, Places
  <2> QED
    BY <2>1
<1>5. hits[k] \in Nat /\ window[k] \in 0..MaxWindows /\ Limit[policy] \in Nat
  BY <1>4, RateLimitersAssumption DEF PipelineInv, TypeOK, CountersType
<1>6. CASE /\ Hit(k, 1) /\ hits[k] < Limit[policy]
           /\ req' = [req EXCEPT ![r] = LetPass(r, policy, window[k])]
  <2> DEFINE new == {<<policy, window[k]>>}
             q == LetPass(r, policy, window[k])
  <2>1. /\ req' = [req EXCEPT ![r] = q]
        /\ q = [req[r] EXCEPT !.rest = Tail(@), !.counted = @ \cup new, !.resent = 0]
        /\ 0 \in 0..MaxResends
    BY <1>6, PipelineAssumption DEF LetPass
  <2>2. policy \notin req[r].flaws \cup {"handler"}
    BY <1>2, FlawsAreNoPolicies DEF Policies
  <2>3. new \in SUBSET (Policies \X (0..MaxWindows))
    BY <1>5
  <2>4. \E a \in new : a[1] = policy
    OBVIOUS
  <2> HIDE DEF q
  <2>5. /\ req' \in [Requests -> Request \cup {None}]
        /\ \A s \in Requests : RequestInv(s)'
        /\ req'[r] \in Request /\ req'[r].counted = req[r].counted \cup new
        /\ req'[r].process = req[r].process /\ req'[r].client = req[r].client
        /\ \A s \in Requests : s # r => req'[s] = req[s]
    <3> HIDE DEF new
    <3> QED
      BY <1>2, <2>1, <2>2, <2>3, <2>4, Advances
  <2>6. ASSUME NEW l \in Keys, NEW w \in 0..MaxWindows
        PROVE  In(r, l, w)' <=> In(r, l, w) \/ (l = k /\ w = window[k])
    BY <1>3, <1>4, <2>5, NoneIsNoRequest DEF In, Called
  <2>7. \A s \in Requests, l \in Keys, w \in 0..MaxWindows :
          s # r => (In(s, l, w)' <=> In(s, l, w))
    BY <2>5 DEF In, Called
  <2>8. /\ window' = window /\ hits' = [hits EXCEPT ![k] = @ + 1]
        /\ hits \in [Keys -> Nat] /\ window \in [Keys -> 0..MaxWindows]
    BY <1>6 DEF Hit, PipelineInv, TypeOK, CountersType
  <2>9. ASSUME NEW l \in Keys, l # k PROVE KeyInv(l)'
    BY <2>6, <2>7, <2>8, <2>9, CountersKeep DEF PipelineInv
  <2>10. KeyInv(k)'
    <3>1. KeyInv(k)
      BY <1>4 DEF PipelineInv
    <3> SUFFICES ASSUME NEW w \in 0..MaxWindows
                 PROVE  /\ IsFiniteSet(PassedAt(k, w)')
                        /\ Cardinality(PassedAt(k, w)') <= Limit[k[2]]
                        /\ w = window'[k] => Cardinality(PassedAt(k, w)') <= hits'[k]
                        /\ w > window'[k] => PassedAt(k, w)' = {}
      BY DEF KeyInv
    <3>2. CASE w # window[k]
      <4>1. PassedAt(k, w)' = PassedAt(k, w)
        BY <1>4, <2>6, <2>7, <3>2 DEF PassedAt
      <4> QED
        BY <2>8, <3>1, <3>2, <4>1 DEF KeyInv
    <3>3. CASE w = window[k]
      <4>1. PassedAt(k, w)' = PassedAt(k, w) \cup {r}
        BY <1>4, <2>6, <2>7, <3>3 DEF PassedAt
      <4>2. /\ IsFiniteSet(PassedAt(k, w)) /\ Cardinality(PassedAt(k, w)) <= hits[k]
            /\ Cardinality(PassedAt(k, w)) \in Nat
        BY <3>1, <3>3, FS_CardinalityType DEF KeyInv
      <4>3. /\ IsFiniteSet(PassedAt(k, w)')
            /\ Cardinality(PassedAt(k, w)') <= Cardinality(PassedAt(k, w)) + 1
            /\ Cardinality(PassedAt(k, w)') \in Nat
        <5> DEFINE S == PassedAt(k, w)
        <5>1. /\ IsFiniteSet(S \cup {r})
              /\ Cardinality(S \cup {r}) = IF r \in S THEN Cardinality(S)
                                            ELSE Cardinality(S) + 1
          <6> HIDE DEF S
          <6> QED
            BY <4>2, FS_AddElement DEF S
        <5> QED
          BY <4>1, <4>2, <5>1
      <4>4. hits'[k] = hits[k] + 1 /\ hits[k] < Limit[k[2]]
        BY <1>4, <1>6, <2>8
      <4>5. window'[k] = w
        BY <2>8, <3>3
      <4> QED
        BY <1>4, <1>5, <4>2, <4>3, <4>4, <4>5
    <3> QED
      BY <3>2, <3>3
  <2>11. TypeOK'
    BY <1>4, <2>5, <2>8 DEF TypeOK, CountersType
  <2> QED
    BY <2>5, <2>9, <2>10, <2>11 DEF PipelineInv
<1>7. CASE /\ Hit(k, 1)
           /\ req' = [req EXCEPT ![r] = TurnAway(r, policy, window[k])]
  <2> DEFINE q == TurnAway(r, policy, window[k])
  <2>1. /\ q \in Request /\ q.status = "429" /\ q.counted = req[r].counted
        /\ q.process = req[r].process /\ q.client = req[r].client
        /\ q.route = req[r].route /\ q.flaws = req[r].flaws
    <3>1. {<<policy, window[k]>>} \in SUBSET (Policies \X (0..MaxWindows))
      BY <1>5
    <3> QED
      BY <1>3, <3>1 DEF TurnAway, Request, Statuses
  <2>2. req'[r] = q /\ \A s \in Requests : s # r => req'[s] = req[s]
    BY <1>3, <1>7
  <2>3. req' \in [Requests -> Request \cup {None}]
    BY <1>3, <1>7, <2>1
  <2> HIDE DEF q
  <2>4. RequestInv(r)'
    <3>1. \A m \in req[r].flaws :
            \E i \in 1..Len(Chain(req[r].route)) : Chain(req[r].route)[i] = m
      BY <1>3 DEF PipelineInv, RequestInv
    <3>2. ~Waiting(r)' /\ ~Succeeded(r)' /\ ~Asked(r)' /\ ~Informed(r)'
      BY <2>1, <2>2 DEF Waiting, Succeeded, Asked, Informed
    <3> QED
      BY <2>1, <2>2, <3>1, <3>2 DEF RequestInv
  <2>5. ASSUME NEW s \in Requests, NEW l \in Keys, NEW w \in 0..MaxWindows
        PROVE  In(s, l, w)' <=> In(s, l, w)
    <3>1. CASE s = r
      BY <1>3, <2>1, <2>2, <3>1, NoneIsNoRequest DEF In, Called
    <3>2. CASE s # r
      BY <2>2, <3>2 DEF In, Called
    <3> QED
      BY <3>1, <3>2
  <2>6. CountersType' /\ \A l \in Keys : KeyInv(l)'
    <3> QED
      BY <1>4, <1>7, <2>5, HitKeeps
  <2> QED
    BY <2>2, <2>3, <2>4, <2>6, OthersKeep DEF PipelineInv, TypeOK
<1>8. CASE (Hit(k, 1) \/ UNCHANGED counters) /\ Answer(r, ErrorStatus(<<"Error">>))
  <2>1. Answer(r, "500") /\ "500" \in Statuses \ {"none"}
    BY <1>8 DEF ErrorStatus, Statuses
  <2>2. /\ req' \in [Requests -> Request \cup {None}]
        /\ \A s \in Requests : RequestInv(s)'
        /\ \A s \in Requests, l \in Keys, w \in 0..MaxWindows :
             In(s, l, w)' <=> In(s, l, w)
    BY <1>2, <2>1, AnswerKeeps
  <2>3. CASE Hit(k, 1)
    <3>1. CountersType' /\ \A l \in Keys : KeyInv(l)'
      BY <1>4, <2>2, <2>3, HitKeeps
    <3> QED
      BY <2>2, <3>1 DEF PipelineInv, TypeOK
  <2>4. CASE UNCHANGED counters
    BY <2>2, <2>4, Uncounted
  <2> QED
    BY <1>8, <2>3, <2>4
<1> QED
  BY <1>1, <1>4, <1>6, <1>7, <1>8

\* A hit that is sent again lets nobody pass.
LEMMA ResendKeeps ==
    ASSUME PipelineInv, NEW r \in Requests, Resend(r)
    PROVE  /\ PipelineInv'
           /\ RedisFails /\ Waiting(r)
           /\ req'[r].rest = req[r].rest /\ req'[r].counted = req[r].counted
           /\ \A s \in Requests : s # r => req'[s] = req[s]
<1>1. PICK policy \in Policies :
        /\ RedisFails /\ At(r, policy) /\ req[r].resent < MaxResends
        /\ Hit(Key(req[r].process, policy, req[r].client), 1)
        /\ req' = [req EXCEPT ![r].resent = @ + 1]
  BY DEF Resend
<1>2. /\ Waiting(r) /\ Called(r) /\ req[r] \in Request
      /\ req \in [Requests -> Request \cup {None}]
  BY <1>1, Position DEF At, PipelineInv, TypeOK
<1> DEFINE k == Key(req[r].process, policy, req[r].client)
<1>3. k \in Keys
  BY <1>2 DEF Request, Key, Keys, Places
<1> DEFINE q == [req[r] EXCEPT !.resent = @ + 1]
<1>4. /\ q \in Request /\ q.status = req[r].status /\ q.route = req[r].route
      /\ q.flaws = req[r].flaws /\ q.counted = req[r].counted
      /\ q.rest = req[r].rest /\ q.process = req[r].process
      /\ q.client = req[r].client
  <2>1. req[r].resent + 1 \in 0..MaxResends
    BY <1>1, <1>2, PipelineAssumption DEF Request
  <2> QED
    BY <1>2, <2>1 DEF Request
<1>5. req' = [req EXCEPT ![r] = q]
  BY <1>1, <1>2
<1> HIDE DEF q
<1>6. req'[r] = q /\ \A s \in Requests : s # r => req'[s] = req[s]
  BY <1>2, <1>5
<1>7. Called(r)' /\ PassedBy(r)' = PassedBy(r)
  BY <1>4, <1>6, NoneIsNoRequest DEF Called, PassedBy
<1>8. RequestInv(r)'
  <2>1. RequestInv(r)
    BY DEF PipelineInv
  <2>2. /\ Waiting(r)' <=> Waiting(r)
        /\ Succeeded(r)' <=> Succeeded(r)
        /\ Asked(r)' <=> Asked(r)
        /\ Informed(r)' <=> Informed(r)
    BY <1>2, <1>4, <1>6, <1>7 DEF Waiting, Called, Succeeded, Asked, Informed
  <2>3. \A i \in 1..Len(Chain(req[r].route)) : Reached(r, i) => Reached(r, i)'
    BY <1>4, <1>6, <1>7 DEF Reached, Behind
  <2>4. req'[r].route = req[r].route /\ req'[r].flaws = req[r].flaws
    BY <1>4, <1>6
  <2> QED
    BY <1>2, <1>7, <2>1, <2>2, <2>3, <2>4 DEF RequestInv
<1>9. \A s \in Requests, l \in Keys, w \in 0..MaxWindows : In(s, l, w)' <=> In(s, l, w)
  <2> SUFFICES ASSUME NEW s \in Requests, NEW l \in Keys, NEW w \in 0..MaxWindows
               PROVE  In(s, l, w)' <=> In(s, l, w)
    OBVIOUS
  <2>1. CASE s = r
    BY <1>2, <1>4, <1>6, <1>7, <2>1 DEF In
  <2>2. CASE s # r
    BY <1>6, <2>2 DEF In, Called
  <2> QED
    BY <2>1, <2>2
<1>10. CountersType' /\ \A l \in Keys : KeyInv(l)'
  BY <1>1, <1>3, <1>9, HitKeeps
<1>11. req' \in [Requests -> Request \cup {None}]
  BY <1>2, <1>4, <1>5
<1>12. PipelineInv'
  BY <1>6, <1>8, <1>10, <1>11, OthersKeep DEF PipelineInv, TypeOK
<1> QED
  BY <1>1, <1>2, <1>4, <1>6, <1>12

LEMMA WindowEndsKeeps ==
    ASSUME PipelineInv, NEW k \in Keys, WindowEnds(k)
    PROVE  PipelineInv'
<1>1. Reopened({k}) /\ UNCHANGED req
  BY DEF WindowEnds
<1>2. \A s \in Requests, l \in Keys, w \in 0..MaxWindows : In(s, l, w)' <=> In(s, l, w)
  BY <1>1 DEF In, Called
<1> QED
  BY <1>1, <1>2, ReopenedKeeps, OthersKeep DEF PipelineInv, TypeOK

LEMMA CrashKeeps == ASSUME PipelineInv, NEW p \in Processes, Crash(p) PROVE PipelineInv'
<1>1. req \in [Requests -> Request \cup {None}]
  BY DEF PipelineInv, TypeOK
<1>2. ASSUME NEW r \in Requests
      PROVE  \/ req'[r] = req[r]
             \/ /\ Called(r) /\ req'[r] \in Request /\ req'[r].status = "dropped"
                /\ req'[r].counted = req[r].counted /\ req'[r].client = req[r].client
                /\ req'[r].process = req[r].process
                /\ req'[r].route = req[r].route /\ req'[r].flaws = req[r].flaws
  <2>1. CASE Waiting(r) /\ req[r].process = p
    <3>1. req'[r] = [req[r] EXCEPT !.status = "dropped"]
      BY <2>1 DEF Crash
    <3>2. req[r] \in Request /\ Called(r)
      BY <1>1, <2>1 DEF Waiting, Called
    <3> QED
      BY <3>1, <3>2 DEF Request, Statuses
  <2>2. CASE ~(Waiting(r) /\ req[r].process = p)
    BY <2>2 DEF Crash
  <2> QED
    BY <2>1, <2>2
<1>3. req' \in [Requests -> Request \cup {None}]
  <2>1. req' = [r \in Requests |-> req'[r]]
    BY DEF Crash
  <2> QED
    BY <1>1, <1>2, <2>1
<1>4. ASSUME NEW r \in Requests PROVE RequestInv(r)'
  <2>1. CASE req'[r] = req[r]
    BY <2>1, OthersKeep DEF PipelineInv
  <2>2. CASE Called(r) /\ req'[r].status = "dropped"
             /\ req'[r].route = req[r].route /\ req'[r].flaws = req[r].flaws
    <3>1. \A m \in req[r].flaws :
            \E i \in 1..Len(Chain(req[r].route)) : Chain(req[r].route)[i] = m
      BY <2>2 DEF PipelineInv, RequestInv
    <3>2. ~Waiting(r)' /\ ~Succeeded(r)' /\ ~Asked(r)' /\ ~Informed(r)'
      BY <2>2 DEF Waiting, Succeeded, Asked, Informed
    <3> QED
      BY <2>2, <3>1, <3>2 DEF RequestInv
  <2> QED
    BY <1>2, <2>1, <2>2
<1>5. ASSUME NEW r \in Requests, NEW l \in Keys, NEW w \in 0..MaxWindows
      PROVE  In(r, l, w)' <=> In(r, l, w)
  <2>1. CASE req'[r] = req[r]
    BY <2>1 DEF In, Called
  <2>2. CASE Called(r) /\ req'[r] \in Request /\ req'[r].counted = req[r].counted
             /\ req'[r].client = req[r].client /\ req'[r].process = req[r].process
    BY <2>2, NoneIsNoRequest DEF In, Called
  <2> QED
    BY <1>2, <2>1, <2>2
<1>6. CASE UNCHANGED counters
  BY <1>3, <1>4, <1>5, <1>6, Uncounted
<1>7. CASE Reopened({k \in Keys : k[1] = p /\ hits[k] > 0})
  <2> DEFINE ks == {k \in Keys : k[1] = p /\ hits[k] > 0}
  <2>1. ks \in SUBSET Keys
    OBVIOUS
  <2> HIDE DEF ks
  <2>2. CountersType' /\ \A l \in Keys : KeyInv(l)'
    BY <1>5, <1>7, <2>1, ReopenedKeeps DEF ks
  <2> QED
    BY <1>3, <1>4, <2>2 DEF PipelineInv, TypeOK
<1> QED
  BY <1>6, <1>7 DEF Crash

LEMMA NextKeeps == PipelineInv /\ [Next]_vars => PipelineInv'
<1> SUFFICES ASSUME PipelineInv, [Next]_vars PROVE PipelineInv'
  OBVIOUS
<1>1. ASSUME NEW r \in Requests, Arrive(r) \/ DbFails(r) \/ Resend(r) \/ Step(r)
      PROVE  PipelineInv'
  BY <1>1, ArriveKeeps, DbFailsKeeps, ResendKeeps, PassKeeps, ObjectKeeps,
     AskConsentKeeps, HandleKeeps, CountKeeps
     DEF Step
<1>2. CASE UNCHANGED vars
  <2>1. UNCHANGED counters /\ req' = req
    BY <1>2 DEF vars
  <2>2. \A s \in Requests, l \in Keys, w \in 0..MaxWindows :
          In(s, l, w)' <=> In(s, l, w)
    BY <2>1 DEF In, Called
  <2> QED
    BY <2>1, <2>2, OthersKeep, Uncounted DEF PipelineInv, TypeOK
<1> QED
  BY <1>1, <1>2, WindowEndsKeeps, CrashKeeps DEF Next

LEMMA PipelineInvariant == Spec => []PipelineInv
BY InitInv, NextKeeps, PTL DEF Spec

-----------------------------------------------------------------------------
(* Whom a limiter turns away.  As long as Redis works, every hit of the      *)
(* present window up to the limit is a request that passed: so a limit is    *)
(* never spent by anything else.  It needs that a request meets a limiter    *)
(* once, which is a fact about the chains.                                   *)

\* What a request still has in front of it has not let it pass yet.
CountedOnce(r) ==
    \A n \in 1..Len(req[r].rest) : req[r].rest[n] \notin PassedBy(r)

\* Counter k turned the request away in its window w.
Refused(r, k, w) ==
    /\ Called(r)
    /\ <<k[2], w>> \in req[r].over
    /\ Key(req[r].process, k[2], req[r].client) = k

Spent(k, w) == Cardinality(PassedAt(k, w)) >= Limit[k[2]]

SpentByPassing(k) ==
    /\ hits[k] <= Cardinality(PassedAt(k, window[k])) \/ Spent(k, window[k])
    /\ \A r \in Requests, w \in 0..MaxWindows : Refused(r, k, w) => Spent(k, w)

RefusalInv ==
    /\ \A r \in Requests : Waiting(r) => CountedOnce(r)
    /\ ~RedisFails => \A k \in Keys : SpentByPassing(k)

LEMMA InitRefusal == Init => RefusalInv
<1> SUFFICES ASSUME Init PROVE RefusalInv
  OBVIOUS
<1>1. /\ \A r \in Requests : req[r] = None /\ ~Called(r) /\ ~Waiting(r)
      /\ \A k \in Keys : hits[k] = 0 /\ window[k] = 0
  BY DEF Init, CountersInit, Called, Waiting
<1>2. \A k \in Keys, w \in 0..MaxWindows : PassedAt(k, w) = {}
  BY <1>1 DEF PassedAt, In
<1>3. 0 \in 0..MaxWindows /\ Cardinality({}) = 0
  BY FS_EmptySet, RateLimitersAssumption
<1>4. ASSUME NEW k \in Keys PROVE SpentByPassing(k)
  <2>1. hits[k] <= Cardinality(PassedAt(k, window[k]))
    BY <1>1, <1>2, <1>3
  <2>2. \A r \in Requests, w \in 0..MaxWindows : ~Refused(r, k, w)
    BY <1>1 DEF Refused
  <2> QED
    BY <2>1, <2>2 DEF SpentByPassing
<1> QED
  BY <1>1, <1>4 DEF RefusalInv

LEMMA KeyTypes ==
    ASSUME PipelineInv, NEW k \in Keys, NEW w \in 0..MaxWindows
    PROVE  /\ IsFiniteSet(PassedAt(k, w)) /\ Cardinality(PassedAt(k, w)) \in Nat
           /\ hits[k] \in Nat /\ window[k] \in 0..MaxWindows
           /\ Limit[k[2]] \in Nat \ {0}
<1>1. IsFiniteSet(PassedAt(k, w)) /\ Cardinality(PassedAt(k, w)) \in Nat
  BY FS_CardinalityType DEF PipelineInv, KeyInv
<1>2. k[2] \in Policies
  BY DEF Keys
<1> QED
  BY <1>1, <1>2, RateLimitersAssumption DEF PipelineInv, TypeOK, CountersType

\* What a request does in a step that counts nothing: it stays, arrives, goes
\* on, or is answered.
Moves(r) ==
    \/ req'[r] = req[r]
    \/ ~Called(r) /\ req'[r].counted = {} /\ req'[r].over = {}
    \/ /\ Called(r) /\ Called(r)'
       /\ req'[r].counted = req[r].counted /\ req'[r].over = req[r].over
       /\ req'[r].process = req[r].process /\ req'[r].client = req[r].client
       /\ ~Waiting(r)' \/ (Waiting(r) /\ req'[r].rest = Tail(req[r].rest))

LEMMA MovesKeep ==
    ASSUME PipelineInv, NEW r \in Requests, Moves(r), Waiting(r) => CountedOnce(r)
    PROVE  /\ \A k \in Keys, w \in 0..MaxWindows :
                /\ In(r, k, w)' <=> In(r, k, w)
                /\ Refused(r, k, w)' <=> Refused(r, k, w)
           /\ Waiting(r)' => CountedOnce(r)'
<1>1. CASE req'[r] = req[r]
  BY <1>1 DEF In, Refused, Called, Waiting, CountedOnce, PassedBy
<1>2. CASE ~Called(r) /\ req'[r].counted = {} /\ req'[r].over = {}
  BY <1>2 DEF In, Refused, Called, Waiting, CountedOnce, PassedBy
<1>3. CASE /\ Called(r) /\ Called(r)'
           /\ req'[r].counted = req[r].counted /\ req'[r].over = req[r].over
           /\ req'[r].process = req[r].process /\ req'[r].client = req[r].client
           /\ ~Waiting(r)' \/ (Waiting(r) /\ req'[r].rest = Tail(req[r].rest))
  <2>1. \A k \in Keys, w \in 0..MaxWindows :
          /\ In(r, k, w)' <=> In(r, k, w)
          /\ Refused(r, k, w)' <=> Refused(r, k, w)
    BY <1>3 DEF In, Refused
  <2>2. ASSUME Waiting(r)' PROVE CountedOnce(r)'
    <3>1. Waiting(r) /\ req'[r].rest = Tail(req[r].rest) /\ PassedBy(r)' = PassedBy(r)
      BY <1>3, <2>2 DEF PassedBy
    <3>2. req[r].rest \in Seq(Middleware) /\ req[r].rest # <<>>
      BY <3>1, Position DEF Request
    <3>3. \A n \in 1..Len(Tail(req[r].rest)) :
            n + 1 \in 1..Len(req[r].rest) /\ Tail(req[r].rest)[n] = req[r].rest[n + 1]
      BY <3>2
    <3> QED
      BY <3>1, <3>3 DEF CountedOnce
  <2> QED
    BY <2>1, <2>2
<1> QED
  BY <1>1, <1>2, <1>3 DEF Moves

\* A step that counts nothing, in which windows may end.
LEMMA MovesRefusal ==
    ASSUME PipelineInv, RefusalInv, PipelineInv', \A r \in Requests : Moves(r),
           \A k \in Keys : \/ hits'[k] = hits[k] /\ window'[k] = window[k]
                           \/ hits'[k] = 0
    PROVE  RefusalInv'
<1>1. \A r \in Requests :
        /\ \A k \in Keys, w \in 0..MaxWindows :
             /\ In(r, k, w)' <=> In(r, k, w)
             /\ Refused(r, k, w)' <=> Refused(r, k, w)
        /\ Waiting(r)' => CountedOnce(r)'
  BY MovesKeep DEF RefusalInv
<1>2. \A k \in Keys, w \in 0..MaxWindows : PassedAt(k, w)' = PassedAt(k, w)
  BY <1>1 DEF PassedAt
<1>3. ASSUME ~RedisFails, NEW k \in Keys PROVE SpentByPassing(k)'
  <2>1. window[k] \in 0..MaxWindows /\ window'[k] \in 0..MaxWindows
    BY DEF PipelineInv, TypeOK, CountersType
  <2>2. Cardinality(PassedAt(k, window'[k])) \in Nat
    BY <2>1, KeyTypes
  <2>3. SpentByPassing(k)
    BY <1>3 DEF RefusalInv
  <2>4. \A w \in 0..MaxWindows : Spent(k, w)' <=> Spent(k, w)
    BY <1>2 DEF Spent
  <2>5. hits'[k] <= Cardinality(PassedAt(k, window'[k])) \/ Spent(k, window'[k])
    BY <2>1, <2>2, <2>3 DEF SpentByPassing
  <2>6. (PassedAt(k, window[k]))' = PassedAt(k, window'[k])
    BY <1>2, <2>1 DEF PassedAt, In
  <2>7. (Spent(k, window[k]))' <=> Spent(k, window'[k])
    BY <2>6 DEF Spent
  <2> QED
    BY <1>1, <2>3, <2>4, <2>5, <2>6, <2>7 DEF SpentByPassing
<1> QED
  BY <1>1, <1>3 DEF RefusalInv, RedisFails

LEMMA AnswerMoves ==
    ASSUME PipelineInv, NEW r \in Requests, Waiting(r),
           NEW st \in Statuses \ {"none"}, Answer(r, st), NEW s \in Requests
    PROVE  Moves(s)
<1>1. req[r] \in Request /\ req \in [Requests -> Request \cup {None}] /\ Called(r)
  BY DEF PipelineInv, TypeOK, Waiting, Called
<1> DEFINE q == [req[r] EXCEPT !.status = st]
<1>2. /\ q \in Request /\ q.status = st /\ q.counted = req[r].counted
      /\ q.over = req[r].over /\ q.process = req[r].process
      /\ q.client = req[r].client
  BY <1>1 DEF Request
<1>3. req'[r] = q /\ (s # r => req'[s] = req[s])
  BY <1>1 DEF Answer
<1> HIDE DEF q
<1>4. Called(r)' /\ ~Waiting(r)'
  BY <1>2, <1>3, NoneIsNoRequest DEF Called, Waiting
<1> QED
  BY <1>1, <1>2, <1>3, <1>4 DEF Moves

LEMMA StepMoves ==
    ASSUME PipelineInv, NEW r \in Requests, NEW s \in Requests,
           \/ Arrive(r) \/ Pass(r) \/ Object(r) \/ AskConsent(r)
           \/ DbFails(r) \/ Handle(r)
    PROVE  Moves(s) /\ UNCHANGED counters
<1>1. req \in [Requests -> Request \cup {None}]
  BY DEF PipelineInv, TypeOK
<1>2. CASE Arrive(r)
  <2>1. /\ ~Called(r) /\ req'[r].counted = {} /\ req'[r].over = {}
        /\ s # r => req'[s] = req[s]
    BY <1>1, <1>2 DEF Arrive, Called
  <2> QED
    BY <1>2, <2>1 DEF Arrive, Moves
<1>3. CASE Pass(r)
  <2>1. Waiting(r) /\ Called(r) /\ req[r] \in Request /\ req[r].rest # <<>>
    BY <1>3, Position DEF Pass
  <2> DEFINE q == [req[r] EXCEPT !.rest = Tail(@)]
  <2>2. req'[r] = q /\ (s # r => req'[s] = req[s])
    BY <1>1, <1>3 DEF Pass
  <2>3. Tail(req[r].rest) \in Seq(Middleware)
    BY <2>1 DEF Request
  <2>4. /\ q \in Request /\ q.counted = req[r].counted /\ q.over = req[r].over
        /\ q.process = req[r].process /\ q.client = req[r].client
        /\ q.rest = Tail(req[r].rest)
    BY <2>1, <2>3 DEF Request
  <2> HIDE DEF q
  <2>5. Called(r)'
    BY <2>2, <2>4, NoneIsNoRequest DEF Called
  <2> QED
    BY <1>3, <2>1, <2>2, <2>4, <2>5 DEF Moves, Pass
<1>4. CASE Object(r)
  <2>1. PICK m \in req[r].flaws :
          At(r, m) /\ (Denied(r) \/ \E e \in Errors(m) : Answer(r, ErrorStatus(e)))
    BY <1>4 DEF Object
  <2>2. Waiting(r) /\ m \in Middleware \ Policies
    BY <2>1, FlawsAreNoPolicies DEF At
  <2>3. PICK st \in Statuses \ {"none"} : Answer(r, st)
    BY <2>1, <2>2, ObjectionAnswer
  <2> QED
    BY <1>4, <2>2, <2>3, AnswerMoves DEF Object
<1>5. CASE DbFails(r)
  <2>1. Waiting(r) /\ Answer(r, "500") /\ "500" \in Statuses \ {"none"}
    BY <1>5 DEF DbFails, At, ErrorStatus, Statuses
  <2> QED
    BY <1>5, <2>1, AnswerMoves DEF DbFails
<1>6. CASE Handle(r)
  <2>1. Waiting(r) /\ Answer(r, Success(req[r].route))
        /\ Success(req[r].route) \in Statuses \ {"none"}
    BY <1>6 DEF Handle, At, Success, Statuses
  <2> QED
    BY <1>6, <2>1, AnswerMoves DEF Handle
<1>7. CASE AskConsent(r)
  <2>1. Waiting(r) /\ Answer(r, "302 consent") /\ "302 consent" \in Statuses \ {"none"}
    BY <1>7 DEF AskConsent, At, Statuses
  <2> QED
    BY <1>7, <2>1, AnswerMoves DEF AskConsent
<1> QED
  BY <1>2, <1>3, <1>4, <1>5, <1>6, <1>7

LEMMA ReopenedHits ==
    ASSUME PipelineInv, NEW ks \in SUBSET Keys, Reopened(ks), NEW k \in Keys
    PROVE  \/ hits'[k] = hits[k] /\ window'[k] = window[k]
           \/ hits'[k] = 0
BY DEF Reopened

LEMMA EnvironmentRefusal ==
    ASSUME PipelineInv, RefusalInv,
           \/ \E k \in Keys : WindowEnds(k)
           \/ \E p \in Processes : Crash(p)
    PROVE  RefusalInv'
<1>1. PipelineInv'
  BY WindowEndsKeeps, CrashKeeps
<1>2. ASSUME NEW k \in Keys, WindowEnds(k) PROVE RefusalInv'
  <2>1. \A s \in Requests : Moves(s)
    BY <1>2 DEF WindowEnds, Moves
  <2> QED
    BY <1>1, <1>2, <2>1, ReopenedHits, MovesRefusal DEF WindowEnds
<1>3. ASSUME NEW p \in Processes, Crash(p) PROVE RefusalInv'
  <2>1. ASSUME NEW r \in Requests PROVE Moves(r)
    <3>1. CASE Waiting(r) /\ req[r].process = p
      <4>1. req[r] \in Request /\ Called(r)
        BY <3>1, Position
      <4> DEFINE q == [req[r] EXCEPT !.status = "dropped"]
      <4>2. req'[r] = q
        BY <1>3, <3>1 DEF Crash
      <4>3. /\ q \in Request /\ q.status = "dropped" /\ q.counted = req[r].counted
            /\ q.over = req[r].over /\ q.process = req[r].process
            /\ q.client = req[r].client
        BY <4>1 DEF Request, Statuses
      <4> HIDE DEF q
      <4>4. Called(r)' /\ ~Waiting(r)'
        BY <4>2, <4>3, NoneIsNoRequest DEF Called, Waiting
      <4> QED
        BY <4>1, <4>2, <4>3, <4>4 DEF Moves
    <3>2. CASE ~(Waiting(r) /\ req[r].process = p)
      BY <1>3, <3>2 DEF Crash, Moves
    <3> QED
      BY <3>1, <3>2
  <2>2. ASSUME NEW k \in Keys
        PROVE  \/ hits'[k] = hits[k] /\ window'[k] = window[k]
               \/ hits'[k] = 0
    <3>1. CASE UNCHANGED counters
      BY <3>1 DEF counters
    <3>2. CASE Reopened({l \in Keys : l[1] = p /\ hits[l] > 0})
      <4> DEFINE ks == {l \in Keys : l[1] = p /\ hits[l] > 0}
      <4>1. ks \in SUBSET Keys
        OBVIOUS
      <4> HIDE DEF ks
      <4> QED
        BY <3>2, <4>1, ReopenedHits DEF ks
    <3> QED
      BY <1>3, <3>1, <3>2 DEF Crash
  <2> QED
    BY <1>1, <2>1, <2>2, MovesRefusal
<1> QED
  BY <1>2, <1>3

-----------------------------------------------------------------------------
(* The limiters. *)

\* Who has passed still has.
LEMMA StillSpent ==
    ASSUME PipelineInv, PipelineInv', NEW k \in Keys, NEW w \in 0..MaxWindows,
           \A r \in Requests : In(r, k, w) => In(r, k, w)'
    PROVE  /\ Cardinality(PassedAt(k, w)) <= Cardinality(PassedAt(k, w)')
           /\ Spent(k, w) => Spent(k, w)'
<1>1. PassedAt(k, w) \in SUBSET PassedAt(k, w)'
  BY DEF PassedAt
<1>2. IsFiniteSet(PassedAt(k, w)') /\ Cardinality(PassedAt(k, w)') \in Nat
  BY FS_CardinalityType DEF PipelineInv, KeyInv
<1>3. Cardinality(PassedAt(k, w)) <= Cardinality(PassedAt(k, w)')
  BY <1>1, <1>2, FS_Subset
<1> QED
  BY <1>2, <1>3, KeyTypes DEF Spent

LEMMA CountRefusal ==
    ASSUME PipelineInv, RefusalInv, NEW r \in Requests, Count(r)
    PROVE  RefusalInv'
<1>1. PipelineInv'
  BY CountKeeps
<1>2. PICK policy \in Policies :
        LET k == Key(req[r].process, policy, req[r].client)
        IN  /\ At(r, policy)
            /\ \/ /\ Hit(k, 1)
                  /\ req' = [req EXCEPT ![r] = IF hits[k] < Limit[policy]
                                              THEN LetPass(r, policy, window[k])
                                              ELSE TurnAway(r, policy, window[k])]
               \/ RedisFails /\ Answer(r, ErrorStatus(<<"Error">>))
  BY DEF Count
<1>3. Waiting(r) /\ Head(req[r].rest) = policy
  BY <1>2 DEF At
<1>4. /\ req[r] \in Request /\ req \in [Requests -> Request \cup {None}] /\ Called(r)
      /\ req[r].rest \in Seq(Middleware) /\ req[r].rest # <<>> /\ CountedOnce(r)
  BY <1>3, Position DEF PipelineInv, TypeOK, Request, RefusalInv
<1>5. PICK k \in Keys : k = Key(req[r].process, policy, req[r].client) /\ k[2] = policy
  <2>1. /\ Key(req[r].process, policy, req[r].client) \in Keys
        /\ Key(req[r].process, policy, req[r].client)[2] = policy
    BY <1>4 DEF Request, Key, Keys, Places
  <2> QED
    BY <2>1
<1>6. /\ hits[k] \in Nat /\ window[k] \in 0..MaxWindows /\ Limit[policy] \in Nat
      /\ Cardinality(PassedAt(k, window[k])) \in Nat
      /\ IsFiniteSet(PassedAt(k, window[k]))
  <2>1. window[k] \in 0..MaxWindows
    BY DEF PipelineInv, TypeOK, CountersType
  <2> QED
    BY <1>5, <2>1, KeyTypes
<1>7. r \notin PassedAt(k, window[k])
  <2>1. policy \notin PassedBy(r)
    BY <1>3, <1>4 DEF CountedOnce
  <2>2. \A a \in req[r].counted : a[1] # policy
    BY <2>1 DEF PassedBy
  <2>3. <<policy, window[k]>> \notin req[r].counted
    BY <2>2
  <2> QED
    BY <1>5, <2>3 DEF PassedAt, In
<1>8. CASE /\ Hit(k, 1) /\ hits[k] < Limit[policy]
           /\ req' = [req EXCEPT ![r] = LetPass(r, policy, window[k])]
  <2> DEFINE new == {<<policy, window[k]>>}
             q == LetPass(r, policy, window[k])
  <2>1. /\ q \in Request /\ q.counted = req[r].counted \cup new /\ q.over = req[r].over
        /\ q.process = req[r].process /\ q.client = req[r].client
        /\ q.rest = Tail(req[r].rest)
    <3>1. Tail(req[r].rest) \in Seq(Middleware)
      BY <1>4
    <3>2. new \in SUBSET (Policies \X (0..MaxWindows)) /\ 0 \in 0..MaxResends
      BY <1>6, PipelineAssumption
    <3> QED
      BY <1>4, <3>1, <3>2 DEF LetPass, Request
  <2>2. req'[r] = q /\ \A s \in Requests : s # r => req'[s] = req[s]
    BY <1>4, <1>8
  <2> HIDE DEF q
  <2>3. Called(r)'
    BY <2>1, <2>2, NoneIsNoRequest DEF Called
  <2>4. CountedOnce(r)'
    <3>1. \A m \in PassedBy(r)' : m \in PassedBy(r) \/ m = policy
      BY <2>1, <2>2 DEF PassedBy
    <3>2. PICK i \in 1..Len(Chain(req[r].route)) : Reached(r, i)
      BY <1>3, Position
    <3> DEFINE C == Chain(req[r].route)
    <3>3. \A m, n_ \in 1..Len(req[r].rest) : req[r].rest[m] = req[r].rest[n_] => m = n_
      <4>1. Len(C) \in Nat /\ i \in 1..Len(C) /\ Len(req[r].rest) = Len(C) - i + 1
        BY <1>3, <3>2, Position, ChainShape DEF Reached
      <4> SUFFICES ASSUME NEW m \in 1..Len(req[r].rest), NEW n_ \in 1..Len(req[r].rest),
                          req[r].rest[m] = req[r].rest[n_]
                   PROVE  m = n_
        OBVIOUS
      <4>2. i + m - 1 \in 1..Len(C) /\ i + n_ - 1 \in 1..Len(C)
        BY <4>1
      <4>3. C[i + m - 1] = C[i + n_ - 1]
        BY <3>2 DEF Reached
      <4>4. i + m - 1 = i + n_ - 1
        BY <1>3, <4>2, <4>3, Position, ChainDistinct
      <4> QED
        BY <4>1, <4>4
    <3>4. \A m \in 1..Len(Tail(req[r].rest)) :
            /\ m + 1 \in 1..Len(req[r].rest) /\ m + 1 # 1 /\ 1 \in 1..Len(req[r].rest)
            /\ Tail(req[r].rest)[m] = req[r].rest[m + 1]
      BY <1>4
    <3>5. req[r].rest[1] = policy
      BY <1>3, <1>4
    <3>6. \A m \in 1..Len(Tail(req[r].rest)) :
            Tail(req[r].rest)[m] \notin PassedBy(r) \cup {policy}
      BY <1>4, <3>3, <3>4, <3>5 DEF CountedOnce
    <3> QED
      BY <2>1, <2>2, <3>1, <3>6 DEF CountedOnce
  <2>5. \A s \in Requests : Waiting(s)' => CountedOnce(s)'
    BY <2>2, <2>4 DEF RefusalInv, Waiting, CountedOnce, PassedBy
  <2>6. ASSUME NEW s \in Requests, NEW l \in Keys, NEW w \in 0..MaxWindows
        PROVE  /\ In(s, l, w)' <=> In(s, l, w) \/ (s = r /\ l = k /\ w = window[k])
               /\ Refused(s, l, w)' <=> Refused(s, l, w)
    <3>1. CASE s = r
      BY <1>4, <1>5, <2>1, <2>2, <2>3, <3>1 DEF In, Refused, Called
    <3>2. CASE s # r
      BY <2>2, <3>2 DEF In, Refused, Called
    <3> QED
      BY <3>1, <3>2
  <2>7. window' = window /\ hits' = [hits EXCEPT ![k] = @ + 1] /\ hits \in [Keys -> Nat]
    BY <1>8 DEF Hit, PipelineInv, TypeOK, CountersType
  <2>8. ASSUME ~RedisFails, NEW l \in Keys PROVE SpentByPassing(l)'
    <3>1. SpentByPassing(l)
      BY <2>8 DEF RefusalInv
    <3>2. \A w \in 0..MaxWindows :
            /\ Cardinality(PassedAt(l, w)) <= Cardinality(PassedAt(l, w)')
            /\ Spent(l, w) => Spent(l, w)'
      BY <1>1, <2>6, StillSpent
    <3>3. \A s \in Requests, w \in 0..MaxWindows : Refused(s, l, w)' => Spent(l, w)'
      BY <2>6, <3>1, <3>2 DEF SpentByPassing
    <3>4. window[l] \in 0..MaxWindows /\ window'[l] = window[l]
      BY <2>7 DEF PipelineInv, TypeOK, CountersType
    <3>5. /\ (PassedAt(l, window[l]))' = {s \in Requests : In(s, l, window[l])'}
          /\ (Spent(l, window[l]))' <=> Cardinality((PassedAt(l, window[l]))') >= Limit[l[2]]
      BY <2>7 DEF PassedAt, In, Spent
    <3>6. hits'[l] <= Cardinality((PassedAt(l, window[l]))') \/ (Spent(l, window[l]))'
      <4>1. CASE l # k
        <5>1. (PassedAt(l, window[l]))' = PassedAt(l, window[l])
          BY <2>6, <3>4, <3>5, <4>1 DEF PassedAt
        <5> QED
          BY <2>7, <3>1, <3>5, <4>1, <5>1 DEF SpentByPassing, Spent
      <4>2. CASE l = k
        <5>1. (PassedAt(k, window[k]))' = PassedAt(k, window[k]) \cup {r}
          BY <2>6, <3>4, <3>5, <4>2 DEF PassedAt
        <5>2. Cardinality((PassedAt(k, window[k]))') = Cardinality(PassedAt(k, window[k])) + 1
          BY <1>6, <1>7, <5>1, FS_AddElement
        <5>3. hits'[k] = hits[k] + 1
          BY <2>7, <2>8
        <5>4. Limit[k[2]] \in Nat
          BY <1>5, <1>6
        <5>5. \/ hits[k] <= Cardinality(PassedAt(k, window[k]))
              \/ Cardinality(PassedAt(k, window[k])) >= Limit[k[2]]
          BY <3>1, <4>2 DEF SpentByPassing, Spent
        <5>6. \/ hits'[k] <= Cardinality((PassedAt(k, window[k]))')
              \/ Cardinality((PassedAt(k, window[k]))') >= Limit[k[2]]
          BY <1>6, <5>2, <5>3, <5>4, <5>5
        <5> QED
          BY <3>5, <4>2, <5>6
      <4> QED
        BY <4>1, <4>2
    <3> QED
      BY <3>3, <3>6 DEF SpentByPassing
  <2> QED
    BY <2>5, <2>8 DEF RefusalInv, RedisFails
<1>9. CASE /\ Hit(k, 1) /\ ~(hits[k] < Limit[policy])
           /\ req' = [req EXCEPT ![r] = TurnAway(r, policy, window[k])]
  <2> DEFINE q == TurnAway(r, policy, window[k])
  <2>1. /\ q \in Request /\ q.status = "429" /\ q.counted = req[r].counted
        /\ q.over = {<<policy, window[k]>>}
        /\ q.process = req[r].process /\ q.client = req[r].client
    <3>1. {<<policy, window[k]>>} \in SUBSET (Policies \X (0..MaxWindows))
      BY <1>6
    <3> QED
      BY <1>4, <3>1 DEF TurnAway, Request, Statuses
  <2>2. req'[r] = q /\ \A s \in Requests : s # r => req'[s] = req[s]
    BY <1>4, <1>9
  <2> HIDE DEF q
  <2>3. Called(r)' /\ ~Waiting(r)'
    BY <2>1, <2>2, NoneIsNoRequest DEF Called, Waiting
  <2>4. \A s \in Requests : Waiting(s)' => CountedOnce(s)'
    BY <2>2, <2>3 DEF RefusalInv, Waiting, CountedOnce, PassedBy
  <2>5. ASSUME NEW s \in Requests, NEW l \in Keys, NEW w \in 0..MaxWindows
        PROVE  /\ In(s, l, w)' <=> In(s, l, w)
               /\ Refused(s, l, w)' => Refused(s, l, w) \/ (l = k /\ w = window[k])
    <3>1. CASE s = r
      BY <1>4, <1>5, <2>1, <2>2, <2>3, <3>1 DEF In, Refused, Called
    <3>2. CASE s # r
      BY <2>2, <3>2 DEF In, Refused, Called
    <3> QED
      BY <3>1, <3>2
  <2>6. window' = window /\ hits' = [hits EXCEPT ![k] = @ + 1] /\ hits \in [Keys -> Nat]
    BY <1>9 DEF Hit, PipelineInv, TypeOK, CountersType
  <2>7. ASSUME ~RedisFails PROVE Spent(k, window[k])
    <3>1. SpentByPassing(k)
      BY <2>7 DEF RefusalInv
    <3>2. hits[k] >= Limit[k[2]] /\ Limit[k[2]] \in Nat
      BY <1>5, <1>6, <1>9
    <3> QED
      BY <1>6, <3>1, <3>2 DEF SpentByPassing, Spent
  <2>8. ASSUME ~RedisFails, NEW l \in Keys PROVE SpentByPassing(l)'
    <3>1. SpentByPassing(l) /\ window[l] \in 0..MaxWindows /\ window'[l] = window[l]
      BY <2>6, <2>8 DEF RefusalInv, PipelineInv, TypeOK, CountersType
    <3>2. \A w \in 0..MaxWindows : PassedAt(l, w)' = PassedAt(l, w)
      BY <2>5 DEF PassedAt
    <3>3. \A w \in 0..MaxWindows : Spent(l, w)' <=> Spent(l, w)
      BY <3>2 DEF Spent
    <3>4. \A s \in Requests, w \in 0..MaxWindows : Refused(s, l, w)' => Spent(l, w)'
      BY <2>5, <2>7, <2>8, <3>1, <3>3 DEF SpentByPassing
    <3>5. /\ (PassedAt(l, window[l]))' = PassedAt(l, window[l])
          /\ (Spent(l, window[l]))' <=> Spent(l, window[l])
      <4>1. (PassedAt(l, window[l]))' = {s \in Requests : In(s, l, window[l])'}
        BY <2>6 DEF PassedAt, In
      <4>2. (PassedAt(l, window[l]))' = PassedAt(l, window[l])
        BY <2>5, <3>1, <4>1 DEF PassedAt
      <4> QED
        BY <4>2 DEF Spent
    <3>6. hits'[l] <= Cardinality(PassedAt(l, window[l])) \/ Spent(l, window[l])
      <4>1. CASE l = k
        BY <2>7, <2>8, <4>1
      <4>2. CASE l # k
        BY <2>6, <3>1, <4>2 DEF SpentByPassing
      <4> QED
        BY <4>1, <4>2
    <3> QED
      BY <3>4, <3>5, <3>6 DEF SpentByPassing
  <2> QED
    BY <2>4, <2>8 DEF RefusalInv, RedisFails
<1>10. CASE RedisFails /\ Answer(r, ErrorStatus(<<"Error">>))
  <2>1. Answer(r, "500") /\ "500" \in Statuses \ {"none"}
    BY <1>10 DEF ErrorStatus, Statuses
  <2>2. \A s \in Requests : Moves(s)
    BY <1>3, <2>1, AnswerMoves
  <2>3. \A s \in Requests : Waiting(s)' => CountedOnce(s)'
    BY <2>2, MovesKeep DEF RefusalInv
  <2> QED
    BY <1>10, <2>3 DEF RefusalInv, RedisFails
<1> QED
  BY <1>2, <1>5, <1>8, <1>9, <1>10

LEMMA ResendRefusal ==
    ASSUME PipelineInv, RefusalInv, NEW r \in Requests, Resend(r)
    PROVE  RefusalInv'
<1>1. /\ RedisFails /\ Waiting(r)
      /\ req'[r].rest = req[r].rest /\ req'[r].counted = req[r].counted
      /\ \A s \in Requests : s # r => req'[s] = req[s]
  BY ResendKeeps
<1>2. CountedOnce(r)'
  BY <1>1 DEF RefusalInv, CountedOnce, PassedBy
<1>3. \A s \in Requests : Waiting(s)' => CountedOnce(s)'
  BY <1>1, <1>2 DEF RefusalInv, Waiting, CountedOnce, PassedBy
<1> QED
  BY <1>1, <1>3 DEF RefusalInv, RedisFails

LEMMA NextRefusal == PipelineInv /\ RefusalInv /\ [Next]_vars => RefusalInv'
<1> SUFFICES ASSUME PipelineInv, RefusalInv, [Next]_vars PROVE RefusalInv'
  OBVIOUS
<1>1. PipelineInv'
  BY NextKeeps
<1>2. ASSUME NEW r \in Requests,
             \/ Arrive(r) \/ Pass(r) \/ Object(r) \/ AskConsent(r)
             \/ DbFails(r) \/ Handle(r)
      PROVE  RefusalInv'
  BY <1>1, <1>2, StepMoves, MovesRefusal DEF counters
<1>3. ASSUME NEW r \in Requests, Count(r) \/ Resend(r) PROVE RefusalInv'
  BY <1>3, CountRefusal, ResendRefusal
<1>4. CASE UNCHANGED vars
  <2>1. \A s \in Requests : Moves(s)
    BY <1>4 DEF vars, Moves
  <2>2. hits' = hits /\ window' = window
    BY <1>4 DEF vars, counters
  <2> QED
    BY <1>1, <2>1, <2>2, MovesRefusal
<1> QED
  BY <1>2, <1>3, <1>4, EnvironmentRefusal DEF Next, Step

LEMMA RefusalInvariant == Spec => [](PipelineInv /\ RefusalInv)
<1>1. PipelineInv /\ RefusalInv /\ [Next]_vars => (PipelineInv /\ RefusalInv)'
  BY NextKeeps, NextRefusal
<1> QED
  BY <1>1, InitInv, InitRefusal, PTL DEF Spec

-----------------------------------------------------------------------------
(* Requests and counters keep their types.                                   *)
THEOREM TypeCorrect == Spec => []TypeOK
<1>1. PipelineInv => TypeOK
  BY DEF PipelineInv
<1> QED
  BY <1>1, PipelineInvariant, PTL

\* Processes that count together use one counter for a client and a policy.
LEMMA CounterOfGroup ==
    ASSUME PipelineInv, NEW ps \in Together, NEW c \in Clients,
           NEW policy \in Policies, NEW w \in 0..MaxWindows
    PROVE  \E k \in Keys :
             /\ k[2] = policy /\ Passed(ps, c, policy, w) = PassedAt(k, w)
             /\ \A p \in ps : Key(p, policy, c) = k
<1>1. \A r \in Requests : Called(r) => req[r].process \in Processes
  BY DEF PipelineInv, TypeOK, Called, Request
<1>2. CASE Shared
  <2> DEFINE k == <<"redis", policy, c>>
  <2>1. ps = Processes
    BY <1>2 DEF Together, Shared
  <2>2. k \in Keys /\ k[2] = policy /\ \A p \in ps : Key(p, policy, c) = k
    BY <1>2 DEF Keys, Places, Key
  <2>3. \A r \in Requests : Key(req[r].process, policy, req[r].client) = k
                           <=> req[r].client = c
    BY <1>2 DEF Key
  <2>4. Passed(ps, c, policy, w) = PassedAt(k, w)
    BY <1>1, <2>1, <2>3 DEF Passed, PassedAt, In
  <2> QED
    BY <2>2, <2>4
<1>3. CASE ~Shared
  <2>1. PICK p \in Processes : ps = {p}
    BY <1>3 DEF Together, Shared
  <2> DEFINE k == <<p, policy, c>>
  <2>2. k \in Keys /\ k[2] = policy /\ \A o \in ps : Key(o, policy, c) = k
    BY <1>3, <2>1 DEF Keys, Places, Key
  <2>3. \A r \in Requests : Key(req[r].process, policy, req[r].client) = k
                           <=> req[r].process = p /\ req[r].client = c
    BY <1>3 DEF Key
  <2>4. Passed(ps, c, policy, w) = PassedAt(k, w)
    BY <2>1, <2>3 DEF Passed, PassedAt, In
  <2> QED
    BY <2>2, <2>4
<1> QED
  BY <1>2, <1>3

(* No more requests of a client pass a limiter in a window than its limit,   *)
(* by the processes together with Redis and by each of them without.         *)
THEOREM LimitsHold == Spec => []WithinLimits
<1>1. PipelineInv => WithinLimits
  BY CounterOfGroup DEF WithinLimits, PipelineInv, KeyInv
<1> QED
  BY <1>1, PipelineInvariant, PTL

(* With a Redis that works, who is turned away had spent the limit of that   *)
(* policy in that window with requests that passed.                          *)
THEOREM RefusalsAreRight == Spec => []RefusedRightly
<1>1. PipelineInv /\ RefusalInv => RefusedRightly
  <2> SUFFICES ASSUME PipelineInv, RefusalInv, ~RedisFails,
                      NEW r \in Requests, NEW policy \in Policies,
                      NEW w \in 0..MaxWindows,
                      Called(r), <<policy, w>> \in req[r].over
               PROVE  \E ps \in Together :
                        /\ req[r].process \in ps
                        /\ Cardinality(Passed(ps, req[r].client, policy, w))
                             >= Limit[policy]
    BY DEF RefusedRightly
  <2>1. req[r].process \in Processes /\ req[r].client \in Clients
    BY DEF PipelineInv, TypeOK, Called, Request
  <2>2. PICK ps \in Together : req[r].process \in ps
    BY <2>1 DEF Together
  <2>3. PICK k \in Keys :
          /\ k[2] = policy /\ Passed(ps, req[r].client, policy, w) = PassedAt(k, w)
          /\ \A p \in ps : Key(p, policy, req[r].client) = k
    BY <2>1, CounterOfGroup
  <2>4. Refused(r, k, w)
    BY <2>2, <2>3 DEF Refused
  <2>5. Spent(k, w)
    BY <2>4 DEF RefusalInv, SpentByPassing
  <2> QED
    BY <2>2, <2>3, <2>5 DEF Spent
<1> QED
  BY <1>1, RefusalInvariant, PTL

(* An API route tells nothing that its policies have not counted.            *)
THEOREM AttemptsAreCounted == Spec => []AttemptsCounted
<1>1. PipelineInv => AttemptsCounted
  BY DEF PipelineInv, RequestInv, AttemptsCounted, Informed
<1> QED
  BY <1>1, PipelineInvariant, PTL

(* A route does what it is for only to a request with which nothing is wrong *)
(* of what may be wrong with a request of that route: the checks are mounted *)
(* on every route that needs them, and none is passed by.                    *)
THEOREM SuccessIsUnobjected == Spec => []SuccessUnobjected
<1>1. PipelineInv => SuccessUnobjected
  BY DEF PipelineInv, RequestInv, SuccessUnobjected, Succeeded, Asked
<1> QED
  BY <1>1, PipelineInvariant, PTL
=============================================================================
