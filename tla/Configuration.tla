--------------------------- MODULE Configuration ----------------------------
(***************************************************************************)
(* loadEnv and getConfig (env.ts, index.ts): from the variables a process  *)
(* is started with to its configuration, or to the error that ends it.     *)
(* A raw value is a class of strings: "blank" is empty or spaces, "padded  *)
(* placeholder" a placeholder with spaces around it, "commas" a list of    *)
(* blanks, "most" the largest number a bounded variable may have and       *)
(* "more" a larger one; every other class is named by its word.            *)
(* An operator whose name has an underscore is a bug the code has not.     *)
(***************************************************************************)
EXTENDS Naturals

CONSTANT Sources  \* the environments that processes are started with

VARIABLES
    process,  \* the process: "starting", "configured" or "refused"
    source,   \* source[v]: the raw value of a variable
    config    \* config[v]: the value it has in the configuration

vars == <<process, source, config>>

Secrets == {"JWT_ACCESS_SECRET", "JWT_REFRESH_SECRET"}
Google == {"GOOGLE_CLIENT_ID", "GOOGLE_CLIENT_SECRET"}
Texts == Google \cup {"APP_NAME", "HOST", "JWT_ISSUER", "JWT_AUDIENCE",
                      "MAIL_HOST", "MAIL_FROM", "UPLOAD_DIR"}
Urls == {"DATABASE_URL", "REDIS_URL", "GOOGLE_CALLBACK_URL",
         "FRONTEND_AUTH_SUCCESS_URL", "FRONTEND_AUTH_ERROR_URL"}
Lists == {"CORS_ORIGINS", "UPLOAD_ALLOWED_MIME_TYPES"}
Credentials == {"MAIL_USER", "MAIL_PASSWORD"}
RateLimits ==
    {"RATE_LIMIT_GENERAL_MAX", "RATE_LIMIT_AUTH_MAX", "RATE_LIMIT_OAUTH_MAX",
     "RATE_LIMIT_UPLOAD_MAX", "RATE_LIMIT_GENERAL_WINDOW_MS",
     "RATE_LIMIT_AUTH_WINDOW_MS", "RATE_LIMIT_OAUTH_WINDOW_MS",
     "RATE_LIMIT_UPLOAD_WINDOW_MS"}
Bounded == {"TRUST_PROXY", "DB_POOL_CONNECTION_LIMIT", "DB_POOL_MAX_IDLE",
            "JWT_ACCESS_TTL_SECONDS", "JWT_REFRESH_TTL_DAYS",
            "AUTH_CODE_TTL_SECONDS", "MAIL_PORT", "WORKER_CONCURRENCY",
            "UPLOAD_MAX_MB"}
Numbers == RateLimits \cup Bounded \cup {"PORT", "DB_POOL_IDLE_TIMEOUT_MS"}
Choices == [NODE_ENV |-> {"development", "test", "production"},
            LOG_LEVEL |-> {"debug", "info"},
            RATE_LIMIT_STORE |-> {"memory", "redis"},
            MAIL_SECURE |-> {"true", "false"}]
Variables == Secrets \cup Texts \cup Urls \cup Lists \cup Credentials
             \cup Numbers \cup DOMAIN Choices

Raw == {"absent", "blank", "padded placeholder", "placeholder", "short",
        "value", "url", "commas", "one", "-1", "0", "0.5", "1", "most", "more",
        "true", "false", "development", "test", "production", "debug", "info",
        "memory", "redis"}

ASSUME SourcesAssumption == Sources \subseteq [Variables -> Raw]

\* Only blanks are trimmed.
Trimmed_Blanks(raw) == IF raw = "blank" THEN "" ELSE raw

Trimmed(raw) ==
    CASE raw = "blank"              -> ""
      [] raw = "padded placeholder" -> "placeholder"
      [] OTHER                      -> raw

\* What the schema of MAIL_SECURE makes a boolean.
Boolean(raw) ==
    CASE raw = "1" -> "true"
      [] raw = "0" -> "false"
      [] OTHER     -> raw

Default(v) ==
    CASE v \in Google           -> "placeholder"
      [] v = "NODE_ENV"         -> "development"
      [] v = "RATE_LIMIT_STORE" -> "memory"
      [] v = "MAIL_SECURE"      -> "false"
      [] OTHER                  -> "default"

\* nonnegative instead of positive.
AllowedNumbers_Nonnegative(v) ==
    {"0", "1", "most"} \cup (IF v = "UPLOAD_MAX_MB" THEN {"0.5"} ELSE {})
    \cup (IF v \notin Bounded THEN {"more"} ELSE {})

\* What a number may be, once z.coerce has made a 0 of a blank.
AllowedNumbers(v) ==
    {"1", "most"} \cup (IF v = "TRUST_PROXY" THEN {"0"} ELSE {})
    \cup (IF v = "UPLOAD_MAX_MB" THEN {"0.5"} ELSE {})
    \cup (IF v \notin Bounded THEN {"more"} ELSE {})

Refused == "refused"

Among(value, allowed) == IF value \in allowed THEN value ELSE Refused

\* The rule of the schema for a variable that is set.
ParsePresent(v, raw) ==
    CASE v \in Texts          -> Among(Trimmed(raw), Raw)
      [] v \in Secrets        -> Among(Trimmed(raw), Raw \ {"short"})
      [] v \in Urls           -> Among(Trimmed(raw), {"url"})
      [] v \in Credentials    -> Trimmed(raw)
      [] v \in Lists          -> IF raw \in {"blank", "commas"} THEN "empty" ELSE raw
      [] v \in Numbers        -> Among(IF raw = "blank" THEN "0" ELSE raw,
                                       AllowedNumbers(v))
      [] v \in DOMAIN Choices -> Among(IF v = "MAIL_SECURE" THEN Boolean(raw) ELSE raw,
                                       Choices[v])

\* What is made of a variable that is not set.
ParseAbsent(v) ==
    CASE v \in Secrets \cup {"DATABASE_URL"} -> Refused
      [] v = "CORS_ORIGINS"                -> "empty"
      [] v \in Credentials                 -> ""
      [] OTHER                             -> Default(v)

Parse(v, raw) == IF raw = "absent" THEN ParseAbsent(v) ELSE ParsePresent(v, raw)

TypeOK ==
    /\ process \in {"starting", "configured", "refused"}
    /\ source \in [Variables -> Raw]
    /\ config \in [Variables -> Raw \cup {"", "default", "empty"}]

Init ==
    /\ process = "starting"
    /\ source \in Sources
    /\ config = [v \in Variables |-> ""]

-----------------------------------------------------------------------------
(* superRefine *)

\* A user needs a password, but not a password a user.
MailPaired_UserOnly(env) == env["MAIL_USER"] # "" => env["MAIL_PASSWORD"] # ""

MailPaired(env) == env["MAIL_USER"] = "" <=> env["MAIL_PASSWORD"] = ""

Guarded(env) ==
    env["NODE_ENV"] = "production" =>
        /\ \A v \in Secrets \cup Google : env[v] # "placeholder"
        /\ env["CORS_ORIGINS"] # "empty"
        /\ env["RATE_LIMIT_STORE"] = "redis"

Env == [v \in Variables |-> Parse(v, source[v])]

\* getConfig, of server.ts and worker.ts; what loadEnv throws ends the process.
Load ==
    /\ process = "starting"
    /\ IF (\A v \in Variables : Env[v] # Refused) /\ MailPaired(Env) /\ Guarded(Env)
       THEN process' = "configured" /\ config' = Env
       ELSE process' = "refused" /\ UNCHANGED config
    /\ UNCHANGED source

Spec == Init /\ [][Load]_vars

-----------------------------------------------------------------------------
(* What the process makes of it *)

\* createRateLimiters: the store of the limiters.
CountsInRedis ==
    config["RATE_LIMIT_STORE"] = "redis" /\ config["NODE_ENV"] # "test"

\* new MailService: whether the transport logs in.
LogsIn == config["MAIL_USER"] # "" /\ config["MAIL_PASSWORD"] # ""
=============================================================================
