---------------------- MODULE ConfigurationProperties -----------------------
(* What holds of every process that gets past loadEnv.                      *)
EXTENDS Configuration

\* Configured and on the way to serve production.
InProduction == process = "configured" /\ config["NODE_ENV"] = "production"

(* In production no process runs with a secret that everybody knows, however *)
(* it was spelled and whether it was set at all, without an origin, or with  *)
(* limits that each process counts alone; and nowhere with a secret that was *)
(* not given (env.ts 95-131, rate-limiters.ts 23).                           *)
ProductionIsGuarded ==
    /\ InProduction =>
        /\ \A v \in Secrets \cup Google :
             /\ config[v] \notin {"placeholder", "padded placeholder"}
             /\ source[v] # "absent"
        /\ config["CORS_ORIGINS"] # "empty"
        /\ CountsInRedis
    /\ process = "configured" =>
        \A v \in Secrets : source[v] \notin {"absent", "blank", "short"}

(* Credentials for the mail server, once one of them has something in it,    *)
(* are used: no mail is sent without a login that the operator meant, and    *)
(* spaces alone mean none (env.ts 91-97, mail.service.ts 21-26).             *)
CredentialsAreUsed ==
    process = "configured" =>
        ((\E v \in Credentials : source[v] \notin {"absent", "blank"}) <=> LogsIn)

(* What the other modules assume of their constants holds for every process  *)
(* that is configured: limits, windows, concurrency, pool and lifetimes are  *)
(* positive, also where a blank became a zero, and a whole number everywhere *)
(* but in UPLOAD_MAX_MB.                                                     *)
AssumptionsHold ==
    process = "configured" =>
        \A v \in Numbers \ {"TRUST_PROXY"} :
            /\ config[v] \notin {"-1", "0", "blank"}
            /\ config[v] = "0.5" => v = "UPLOAD_MAX_MB"
            /\ config[v] = "more" => v \notin Bounded
=============================================================================
