-------------------------- MODULE MCConfiguration ---------------------------
(* Environments for TLC.                                                    *)
EXTENDS ConfigurationProperties

\* What somebody may set a variable to.
Plausible(v) ==
    {"absent", "blank"} \cup
    (CASE v \in Secrets        -> {"padded placeholder", "placeholder", "short", "value"}
       [] v \in Texts          -> {"padded placeholder", "placeholder", "value"}
       [] v \in Urls           -> {"value", "url"}
       [] v \in Lists          -> {"commas", "one"}
       [] v \in Credentials    -> {"value"}
       [] v \in Numbers        -> {"-1", "0", "0.5", "1", "most", "more", "value"}
       [] v \in DOMAIN Choices -> Choices[v] \cup {"0", "1", "value"})

\* An environment that is accepted.
Good(environment) ==
    [v \in Variables |->
        CASE v \in Secrets \cup Google -> "value"
          [] v = "DATABASE_URL"        -> "url"
          [] v = "CORS_ORIGINS"        -> "one"
          [] v = "NODE_ENV"            -> environment
          [] v = "RATE_LIMIT_STORE"    -> "redis"
          [] OTHER                     -> "absent"]

\* Good ones, with one variable set to something else, or two that the guards
\* look at.
Changed(source0, v) == {[source0 EXCEPT ![v] = x] : x \in Plausible(v)}

Looked == Secrets \cup Google \cup Credentials
          \cup {"NODE_ENV", "CORS_ORIGINS", "RATE_LIMIT_STORE"}

GoodButTwo ==
    LET good == {Good(e) : e \in Choices.NODE_ENV}
        twice(v) == UNION {Changed(s, v) : s \in UNION {Changed(g, w) :
                                            g \in good, w \in Looked}}
    IN  UNION {twice(v) : v \in Looked}
        \cup UNION {Changed(g, v) : g \in good, v \in Variables}
=============================================================================
