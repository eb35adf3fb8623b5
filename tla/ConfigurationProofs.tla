------------------------- MODULE ConfigurationProofs ------------------------
(***************************************************************************)
(* Theorems about Configuration, for every set of environments: TLC checks *)
(* those that differ in two variables from a good one, these are about     *)
(* every combination of the classes of values.                             *)
(***************************************************************************)
EXTENDS ConfigurationProperties, TLAPS

(* A process that is configured has what the schema made of its variables,   *)
(* and the schema and superRefine had nothing to object.                     *)
Accepted ==
    /\ config = Env
    /\ \A v \in Variables : Env[v] # Refused
    /\ MailPaired(Env) /\ Guarded(Env)

ConfigInv ==
    /\ TypeOK
    /\ process = "configured" => Accepted

LEMMA Kinds ==
    /\ DOMAIN Choices = {"NODE_ENV", "LOG_LEVEL", "RATE_LIMIT_STORE", "MAIL_SECURE"}
    /\ \A v \in Texts : v \notin Secrets \cup Urls \cup Credentials \cup Lists
                                 \cup Numbers \cup DOMAIN Choices
    /\ \A v \in Secrets : v \notin Urls \cup Credentials \cup Lists
                                   \cup Numbers \cup DOMAIN Choices
    /\ \A v \in Urls : v \notin Credentials \cup Lists \cup Numbers \cup DOMAIN Choices
    /\ \A v \in Credentials : v \notin Lists \cup Numbers \cup DOMAIN Choices
    /\ \A v \in Lists : v \notin Numbers \cup DOMAIN Choices
    /\ \A v \in Numbers : v \notin DOMAIN Choices
<1>1. DOMAIN Choices = {"NODE_ENV", "LOG_LEVEL", "RATE_LIMIT_STORE", "MAIL_SECURE"}
  BY DEF Choices
<1> QED
  BY <1>1
     DEF Texts, Secrets, Urls, Credentials, Google, Lists, Numbers, Bounded, RateLimits

\* The rule of a variable that is set.
LEMMA Rules ==
    ASSUME NEW v \in Variables, NEW raw
    PROVE  /\ v \in Texts => ParsePresent(v, raw) = Among(Trimmed(raw), Raw)
           /\ v \in Secrets =>
                ParsePresent(v, raw) = Among(Trimmed(raw), Raw \ {"short"})
           /\ v \in Urls => ParsePresent(v, raw) = Among(Trimmed(raw), {"url"})
           /\ v \in Credentials => ParsePresent(v, raw) = Trimmed(raw)
           /\ v \in Lists =>
                ParsePresent(v, raw) = IF raw \in {"blank", "commas"} THEN "empty" ELSE raw
           /\ v \in Numbers =>
                ParsePresent(v, raw) = Among(IF raw = "blank" THEN "0" ELSE raw,
                                             AllowedNumbers(v))
           /\ v \in DOMAIN Choices =>
                ParsePresent(v, raw) =
                  Among(IF v = "MAIL_SECURE" THEN Boolean(raw) ELSE raw, Choices[v])
BY Kinds DEF ParsePresent

LEMMA AmongType ==
    ASSUME NEW value \in Raw \cup {""}, NEW allowed
    PROVE  Among(value, allowed) \in Raw \cup {"", Refused}
BY DEF Among

LEMMA ParseType ==
    ASSUME NEW v \in Variables, NEW raw \in Raw
    PROVE  Parse(v, raw) \in Raw \cup {"", "default", "empty", Refused}
<1>1. Trimmed(raw) \in Raw \cup {""} /\ "0" \in Raw /\ Boolean(raw) \in Raw
  BY DEF Trimmed, Boolean, Raw
<1>2. CASE raw = "absent"
  BY <1>2 DEF Parse, ParseAbsent, Default, Raw
<1>3. CASE raw # "absent"
  <2>1. Parse(v, raw) = ParsePresent(v, raw)
    BY <1>3 DEF Parse
  <2>2. CASE v \in Texts
    <3>1. Parse(v, raw) = Among(Trimmed(raw), Raw)
      BY <2>1, <2>2, Rules
    <3> QED
      BY <1>1, <3>1, AmongType
  <2>3. CASE v \in Secrets
    <3>1. Parse(v, raw) = Among(Trimmed(raw), Raw \ {"short"})
      BY <2>1, <2>3, Rules
    <3> QED
      BY <1>1, <3>1, AmongType
  <2>4. CASE v \in Urls
    <3>1. Parse(v, raw) = Among(Trimmed(raw), {"url"})
      BY <2>1, <2>4, Rules
    <3> QED
      BY <1>1, <3>1, AmongType
  <2>5. CASE v \in Credentials
    <3>1. Parse(v, raw) = Trimmed(raw)
      BY <2>1, <2>5, Rules
    <3> QED
      BY <1>1, <3>1
  <2>6. CASE v \in Lists
    <3>1. Parse(v, raw) = IF raw \in {"blank", "commas"} THEN "empty" ELSE raw
      BY <2>1, <2>6, Rules
    <3> QED
      BY <3>1
  <2>7. CASE v \in Numbers
    <3>1. Parse(v, raw) = Among(IF raw = "blank" THEN "0" ELSE raw,
                               AllowedNumbers(v))
      BY <2>1, <2>7, Rules
    <3> QED
      BY <1>1, <3>1, AmongType
  <2>8. CASE v \in DOMAIN Choices
    <3>1. Parse(v, raw) = Among(IF v = "MAIL_SECURE" THEN Boolean(raw) ELSE raw,
                               Choices[v])
      BY <2>1, <2>8, Rules
    <3> QED
      BY <1>1, <3>1, AmongType
  <2> QED
    BY <2>2, <2>3, <2>4, <2>5, <2>6, <2>7, <2>8 DEF Variables
<1> QED
  BY <1>2, <1>3

LEMMA ConfigInvariant == Spec => []ConfigInv
<1>1. Init => ConfigInv
  BY SourcesAssumption DEF Init, ConfigInv, TypeOK
<1>2. ConfigInv /\ [Load]_vars => ConfigInv'
  <2> SUFFICES ASSUME ConfigInv, [Load]_vars PROVE ConfigInv'
    OBVIOUS
  <2>1. CASE UNCHANGED vars
    BY <2>1 DEF vars, ConfigInv, TypeOK, Accepted, Env
  <2>2. CASE Load
    <3>1. source' = source /\ source \in [Variables -> Raw]
      BY <2>2 DEF Load, ConfigInv, TypeOK
    <3>2. Env' = Env
      BY <3>1 DEF Env
    <3>3. CASE process' = "configured"
      <4>1. config' = Env /\ Accepted'
        BY <2>2, <3>2, <3>3 DEF Load, Accepted
      <4>2. \A v \in Variables : Env[v] \in Raw \cup {"", "default", "empty"}
        BY <3>1, <3>2, <4>1, ParseType DEF Env, Accepted
      <4>3. config' \in [Variables -> Raw \cup {"", "default", "empty"}]
        BY <4>1, <4>2 DEF Env
      <4> QED
        BY <3>1, <3>3, <4>1, <4>3 DEF ConfigInv, TypeOK
    <3>4. CASE process' # "configured"
      BY <2>2, <3>1, <3>4 DEF Load, ConfigInv, TypeOK
    <3> QED
      BY <3>3, <3>4
  <2> QED
    BY <2>1, <2>2
<1> QED
  BY <1>1, <1>2, PTL DEF Spec

\* What the configuration says of a variable is what its rule made of it.
LEMMA Configured ==
    ASSUME ConfigInv, process = "configured", NEW v \in Variables
    PROVE  /\ source[v] \in Raw
           /\ config[v] = Parse(v, source[v])
           /\ config[v] # Refused
BY DEF ConfigInv, TypeOK, Accepted, Env

-----------------------------------------------------------------------------
(* The variables that the properties are about. *)

LEMMA SecretRule ==
    ASSUME NEW v \in Secrets, NEW raw \in Raw, Parse(v, raw) # Refused
    PROVE  /\ raw \notin {"absent", "blank", "short"}
           /\ Parse(v, raw) # "padded placeholder"
<1>1. raw # "absent"
  BY DEF Parse, ParseAbsent, Secrets, Credentials
<1>2. Parse(v, raw) = Among(Trimmed(raw), Raw \ {"short"})
  BY <1>1, Rules DEF Parse, Variables
<1> QED
  BY <1>1, <1>2 DEF Among, Trimmed, Raw

LEMMA GoogleRule ==
    ASSUME NEW v \in Google, NEW raw \in Raw, Parse(v, raw) # Refused
    PROVE  /\ Parse(v, raw) # "padded placeholder"
           /\ raw = "absent" => Parse(v, raw) = "placeholder"
<1>1. CASE raw = "absent"
  BY <1>1 DEF Parse, ParseAbsent, Default, Google, Secrets, Credentials
<1>2. CASE raw # "absent"
  <2>1. Parse(v, raw) = Among(Trimmed(raw), Raw)
    BY <1>2, Rules DEF Parse, Variables, Texts
  <2> QED
    BY <1>2, <2>1 DEF Among, Trimmed
<1> QED
  BY <1>1, <1>2

LEMMA CredentialRule ==
    ASSUME NEW v \in Credentials, NEW raw \in Raw
    PROVE  Parse(v, raw) = "" <=> raw \in {"absent", "blank"}
<1>1. CASE raw = "absent"
  BY <1>1 DEF Parse, ParseAbsent, Credentials, Secrets
<1>2. CASE raw # "absent"
  <2>1. Parse(v, raw) = Trimmed(raw)
    BY <1>2, Rules DEF Parse, Variables
  <2> QED
    BY <1>2, <2>1 DEF Trimmed, Raw
<1> QED
  BY <1>1, <1>2

LEMMA NumberRule ==
    ASSUME NEW v \in Numbers, NEW raw \in Raw, Parse(v, raw) # Refused
    PROVE  Parse(v, raw) \in {"default"} \cup AllowedNumbers(v)
<1>1. CASE raw = "absent"
  BY <1>1 DEF Parse, ParseAbsent, Default, Numbers, RateLimits, Bounded, Secrets, Credentials, Google
<1>2. CASE raw # "absent"
  BY <1>2, Rules DEF Parse, Among, Variables
<1> QED
  BY <1>1, <1>2

-----------------------------------------------------------------------------
(* Variables and configuration keep their types.                             *)
THEOREM TypeCorrect == Spec => []TypeOK
<1>1. ConfigInv => TypeOK
  BY DEF ConfigInv
<1> QED
  BY <1>1, ConfigInvariant, PTL

(* In production no process runs with a secret that everybody knows, without *)
(* an origin, or with limits that each process counts alone; and nowhere     *)
(* with a secret that was not given.                                         *)
THEOREM ProductionGuarded == Spec => []ProductionIsGuarded
<1>1. ConfigInv => ProductionIsGuarded
  <2> SUFFICES ASSUME ConfigInv, process = "configured"
               PROVE  ProductionIsGuarded
    BY DEF ProductionIsGuarded, InProduction
  <2>1. /\ \A v \in Secrets \cup Google \cup {"NODE_ENV", "CORS_ORIGINS", "RATE_LIMIT_STORE"} :
             v \in Variables
        /\ Guarded(config)
    BY DEF Variables, Secrets, Google, Texts, Lists, Choices, ConfigInv, Accepted
  <2>2. \A v \in Secrets : /\ source[v] \notin {"absent", "blank", "short"}
                           /\ config[v] # "padded placeholder"
    BY <2>1, Configured, SecretRule
  <2>3. \A v \in Google : /\ config[v] # "padded placeholder"
                          /\ source[v] = "absent" => config[v] = "placeholder"
    BY <2>1, Configured, GoogleRule
  <2>4. InProduction => /\ \A v \in Secrets \cup Google : config[v] # "placeholder"
                        /\ config["CORS_ORIGINS"] # "empty"
                        /\ CountsInRedis
    BY <2>1 DEF Guarded, InProduction, CountsInRedis
  <2> QED
    BY <2>2, <2>3, <2>4 DEF ProductionIsGuarded
<1> QED
  BY <1>1, ConfigInvariant, PTL

(* Credentials for the mail server are used as soon as one of them has       *)
(* something in it.                                                          *)
THEOREM CredentialsUsed == Spec => []CredentialsAreUsed
<1>1. ConfigInv => CredentialsAreUsed
  <2> SUFFICES ASSUME ConfigInv, process = "configured"
               PROVE  (\E v \in Credentials : source[v] \notin {"absent", "blank"})
                        <=> LogsIn
    BY DEF CredentialsAreUsed
  <2>1. \A v \in Credentials : v \in Variables
    BY DEF Variables
  <2>2. \A v \in Credentials : config[v] = "" <=> source[v] \in {"absent", "blank"}
    BY <2>1, Configured, CredentialRule
  <2>3. MailPaired(config)
    BY DEF ConfigInv, Accepted
  <2> QED
    BY <2>2, <2>3 DEF MailPaired, LogsIn, Credentials
<1> QED
  BY <1>1, ConfigInvariant, PTL

(* What the other modules assume of their constants holds for every process  *)
(* that is configured.                                                       *)
THEOREM AssumptionsAreMet == Spec => []AssumptionsHold
<1>1. ConfigInv => AssumptionsHold
  <2> SUFFICES ASSUME ConfigInv, process = "configured",
                      NEW v \in Numbers, v # "TRUST_PROXY"
               PROVE  /\ config[v] \notin {"-1", "0", "blank"}
                      /\ config[v] = "0.5" => v = "UPLOAD_MAX_MB"
                      /\ config[v] = "more" => v \notin Bounded
    BY DEF AssumptionsHold
  <2>1. v \in Variables
    BY DEF Variables
  <2>2. config[v] \in {"default"} \cup AllowedNumbers(v)
    BY <2>1, Configured, NumberRule
  <2> QED
    BY <2>2 DEF AllowedNumbers
<1> QED
  BY <1>1, ConfigInvariant, PTL
=============================================================================
