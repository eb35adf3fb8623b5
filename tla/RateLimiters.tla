---------------------------- MODULE RateLimiters ----------------------------
(***************************************************************************)
(* The counters of createRateLimiters (rate-limiters.ts): one per policy   *)
(* and client address, in the memory of each process or in the Redis that  *)
(* the processes share.  express-rate-limit and its Redis store are        *)
(* external: the window of a counter opens with its first hit, every       *)
(* request hits, those refused too, and the script that counts is atomic.  *)
(* An operator whose name has an underscore is a bug the code has not.     *)
(***************************************************************************)
EXTENDS Naturals

CONSTANTS
    Clients,     \* the addresses requests come from
    Processes,   \* the server processes
    Store, Env,  \* RATE_LIMIT_STORE and NODE_ENV
    Limit,       \* Limit[p]: the max of policy p
    MaxWindows   \* windows of a counter: bounds a run

Policies == {"general", "auth", "oauth", "upload"}

ASSUME RateLimitersAssumption ==
    /\ Store \in {"memory", "redis"}
    /\ Env \in {"development", "test", "production"}
    /\ Limit \in [Policies -> Nat \ {0}]
    /\ MaxWindows \in Nat
    /\ "redis" \notin Processes

VARIABLES
    hits,    \* hits[k]: the hits in the window of a counter
    window   \* window[k]: which window that is

counters == <<hits, window>>

\* Redis is for production alone.
Shared_InProduction == Store = "redis" /\ Env = "production"

Shared == Store = "redis" /\ Env # "test"

Places == IF Shared THEN {"redis"} ELSE Processes

Keys == Places \X Policies \X Clients

\* One prefix for all policies.
Key_OnePrefix(p, policy, c) ==
    <<IF Shared THEN "redis" ELSE p, "general", c>>

\* The counter that a process uses for a client.
Key(p, policy, c) == <<IF Shared THEN "redis" ELSE p, policy, c>>

CountersType ==
    /\ hits \in [Keys -> Nat]
    /\ window \in [Keys -> 0..MaxWindows]

CountersInit ==
    /\ hits = [k \in Keys |-> 0]
    /\ window = [k \in Keys |-> 0]

Hit(k, n) ==
    /\ hits' = [hits EXCEPT ![k] = @ + n]
    /\ UNCHANGED window

Reopened(ks) ==
    /\ \A k \in ks : window[k] < MaxWindows
    /\ hits' = [k \in Keys |-> IF k \in ks THEN 0 ELSE hits[k]]
    /\ window' = [k \in Keys |-> IF k \in ks THEN window[k] + 1 ELSE window[k]]
=============================================================================
