--------------------------- MODULE ServerLifecycle ---------------------------
(***************************************************************************)
(* The life of one server process (server.ts): listening, the connections  *)
(* and their handlers, the shutdown on SIGTERM or SIGINT, and the closing  *)
(* of the Redis clients of the rate limiters and of the MySQL pool.        *)
(*                                                                         *)
(* A handler is seen only in what it awaits: a rate limiter, a statement   *)
(* of the pool, or other work (bcrypt, a file).  The HTTP server of Node   *)
(* 24, Express 5 and the pool of mysql2 are external, modelled from how    *)
(* server.ts, app.ts and client.ts use them:                               *)
(*  - server.close stops listening and ends the connections between two    *)
(*    requests; its callback runs once no connection is left, and is       *)
(*    handed an error if the server was not listening when it was called;  *)
(*  - a handler whose client has left runs on;                             *)
(*  - pool.end refuses new statements and waits for those in flight.       *)
(*                                                                         *)
(* An operator whose name has an underscore is a bug the code does not     *)
(* have, as in AuthStore.                                                  *)
(***************************************************************************)
EXTENDS Naturals

CONSTANTS
    Conns,      \* connections a client may open, each used once
    MaxAwaits,  \* awaits of all the handlers of a connection: bounds a run
    MaxSignals, \* signals the process is sent
    None

ASSUME LifecycleAssumption ==
    /\ MaxAwaits \in Nat
    /\ MaxSignals \in Nat
    /\ None \notin Nat

VARIABLES
    server,     \* the HTTP server
    conn,       \* conn[c]: the connection; "new" before its first request
    handler,    \* handler[c]: what the handler of c's last request awaits
    awaits,     \* awaits[c]: the awaits so far
    limiters,   \* where the rate limiters count: "memory", or Redis clients
    pool,       \* the MySQL pool
    signals,    \* the signals received
    exited      \* the exit code, None while the process runs

vars == <<server, conn, handler, awaits, limiters, pool, signals, exited>>

Running == {"limiter", "work", "statement"}

TypeOK ==
    /\ server \in {"starting", "listening", "failed", "closing", "closed"}
    /\ conn \in [Conns -> {"none", "new", "open", "closed"}]
    /\ handler \in [Conns -> {"idle", "cut"} \cup Running]
    /\ awaits \in [Conns -> 0..MaxAwaits]
    /\ limiters \in {"memory", "open", "disconnected"}
    /\ pool \in {"open", "ending", "ended", "failed"}
    /\ signals \in 0..MaxSignals
    /\ exited \in {None, 0, 1}

Init ==
    /\ server = "starting"
    /\ conn = [c \in Conns |-> "none"]
    /\ handler = [c \in Conns |-> "idle"]
    /\ awaits = [c \in Conns |-> 0]
    /\ limiters \in {"memory", "open"}
    /\ pool = "open"
    /\ signals = 0
    /\ exited = None

IsOpen(c) == conn[c] \in {"new", "open"}

-----------------------------------------------------------------------------
(* Clients and handlers *)

\* app.listen calls back when it listens, and in Express 5 when it fails too:
\* both are logged as a start.
Listen ==
    /\ server = "starting"
    /\ server' \in {"listening", "failed"}
    /\ UNCHANGED <<conn, handler, awaits, limiters, pool, signals, exited>>

Connect(c) ==
    /\ server = "listening"
    /\ conn[c] = "none"
    /\ conn' = [conn EXCEPT ![c] = "new"]
    /\ UNCHANGED <<server, handler, awaits, limiters, pool, signals, exited>>

\* handler[c] goes on to await what, or ends if that is "idle" or "cut".
Await(c, what) ==
    /\ handler' = [handler EXCEPT ![c] = what]
    /\ IF what \in Running
       THEN /\ awaits[c] < MaxAwaits
            /\ awaits' = [awaits EXCEPT ![c] = @ + 1]
       ELSE UNCHANGED awaits

\* A new statement is refused once the pool has been told to end.
Query(c) == Await(c, IF pool = "open" THEN "statement" ELSE "cut")

\* A request on a new or kept-alive connection.  The limiters guard /api; the
\* readiness probe goes straight to the pool, the liveness probe answers.
Request(c) ==
    /\ IsOpen(c)
    /\ handler[c] = "idle"
    /\ awaits[c] < MaxAwaits
    /\ conn' = [conn EXCEPT ![c] = "open"]
    /\ Await(c, "limiter") \/ Query(c)
    /\ UNCHANGED <<server, limiters, pool, signals, exited>>

\* A rate limiter passes the request on, refuses it, or fails with its client.
LimiterAnswers(c) ==
    /\ handler[c] = "limiter"
    /\ IF limiters = "disconnected"
       THEN Await(c, "cut")
       ELSE Await(c, "idle") \/ Await(c, "limiter") \/ Await(c, "work") \/ Query(c)
    /\ UNCHANGED <<server, conn, limiters, pool, signals, exited>>

\* A statement or other work returns: the handler answers or goes on.
Resume(c) ==
    /\ handler[c] \in {"work", "statement"}
    /\ Await(c, "idle") \/ Await(c, "work") \/ Query(c)
    /\ UNCHANGED <<server, conn, limiters, pool, signals, exited>>

Leave(c) ==
    /\ conn' = [conn EXCEPT ![c] = "closed"]
    /\ UNCHANGED <<server, handler, awaits, limiters, pool, signals, exited>>

\* The client closes the connection, in the middle of a request or not.
Disconnect(c) == IsOpen(c) /\ Leave(c)

\* The server closes a connection that is silent after a response.
KeepAliveTimeout(c) ==
    /\ conn[c] = "open"
    /\ handler[c] \in {"idle", "cut"}
    /\ Leave(c)

-----------------------------------------------------------------------------
(* Shutdown *)

Exit(code) == exited' = code

\* shutdown(signal): server.close.  A server that does not listen hands its
\* callback an error, at once if no connection is left, and the process exits;
\* one that is closing does so after the callback of the first signal.
Shutdown ==
    /\ signals < MaxSignals
    /\ signals' = signals + 1
    /\ \/ /\ server = "listening"
          /\ server' = "closing"
          /\ conn' = [c \in Conns |->
                        IF conn[c] = "open" /\ handler[c] \in {"idle", "cut"}
                        THEN "closed" ELSE conn[c]]
          /\ UNCHANGED exited
       \/ /\ server = "closing"
          /\ UNCHANGED <<server, conn, exited>>
       \/ /\ server \in {"starting", "failed", "closed"}
          /\ Exit(1)
          /\ UNCHANGED <<server, conn>>
    /\ UNCHANGED <<handler, awaits, limiters, pool>>

\* rateLimiters.close: the Redis clients, if there are any.
CloseLimiters ==
    limiters' = IF limiters = "open" THEN "disconnected" ELSE limiters

\* app.close: the limiters at once, then pool.end, which is awaited.
CloseApp == CloseLimiters /\ pool' = "ending"

\* Closes the application while connections are still being served.
Drained_AtOnce ==
    /\ server = "closing"
    /\ server' = "closed"
    /\ CloseApp
    /\ IF signals > 1 THEN Exit(1) ELSE UNCHANGED exited
    /\ UNCHANGED <<conn, handler, awaits, signals>>

\* The last connection is gone, and the callbacks of server.close run in
\* order: the first closes the application; that of a second signal is handed
\* an error and exits before the pool has ended.
Drained ==
    /\ server = "closing"
    /\ \A c \in Conns : ~IsOpen(c)
    /\ server' = "closed"
    /\ CloseApp
    /\ IF signals > 1 THEN Exit(1) ELSE UNCHANGED exited
    /\ UNCHANGED <<conn, handler, awaits, signals>>

\* Forgets to await pool.end before it exits.
PoolEnds_NotAwaited ==
    /\ pool = "ending"
    /\ pool' = "ended"
    /\ Exit(0)
    /\ UNCHANGED <<server, conn, handler, awaits, limiters, signals>>

PoolEnds ==
    /\ pool = "ending"
    /\ \A c \in Conns : handler[c] # "statement"
    /\ pool' = "ended"
    /\ Exit(0)
    /\ UNCHANGED <<server, conn, handler, awaits, limiters, signals>>

\* Logs that the pool failed to end, and does not exit.
PoolFails_Logged ==
    /\ pool = "ending"
    /\ pool' = "failed"
    /\ UNCHANGED <<server, conn, handler, awaits, limiters, signals, exited>>

PoolFails ==
    /\ pool = "ending"
    /\ pool' = "failed"
    /\ Exit(1)
    /\ UNCHANGED <<server, conn, handler, awaits, limiters, signals>>

\* With no port and no Redis client nothing keeps the process: Node ends it.
NothingLeft ==
    /\ server = "failed"
    /\ limiters = "memory"
    /\ Exit(0)
    /\ UNCHANGED <<server, conn, handler, awaits, limiters, pool, signals>>

-----------------------------------------------------------------------------
Handle(c) == LimiterAnswers(c) \/ Resume(c)

Client(c) == Connect(c) \/ Request(c) \/ Disconnect(c) \/ KeepAliveTimeout(c)

Runs == exited = None

Next ==
    /\ Runs
    /\ \/ Listen \/ Shutdown \/ Drained \/ PoolEnds \/ PoolFails \/ NothingLeft
       \/ \E c \in Conns : Client(c) \/ Handle(c)

Spec == Init /\ [][Next]_vars

\* What a handler awaits returns; the pool ends or fails; Node runs the close
\* callback and its keep-alive timer.  A client that has connected sends its
\* request or leaves: once the server is closing Node no longer times it out.
FairSpec ==
    /\ Spec
    /\ WF_vars(Runs /\ (Drained \/ PoolEnds \/ PoolFails))
    /\ \A c \in Conns :
        /\ WF_vars(Runs /\ Handle(c))
        /\ WF_vars(Runs /\ KeepAliveTimeout(c))
        /\ WF_vars(Runs /\ conn[c] = "new" /\ (Request(c) \/ Disconnect(c)))

-----------------------------------------------------------------------------
(* A client that waits for an answer gets it, whatever signals arrive: no   *)
(* handler of an open connection loses the limiters or the pool, and the    *)
(* process does not exit under it.  Only who has left is cut off (server.ts *)
(* 22-31, app.ts 90-93).                                                    *)
WaitingClientsServed ==
    \A c \in Conns : IsOpen(c) =>
        /\ handler[c] # "cut"
        /\ limiters # "disconnected" /\ pool = "open"
        /\ Runs

(* What the exit code tells the supervisor (server.ts 22-36).  0: one       *)
(* signal, answered in full, no statement in flight and every client of     *)
(* Redis and MySQL closed, or a server that never got its port.  1: the     *)
(* pool failed to close, the server did not listen when it was told to      *)
(* stop, or a second signal came before the first was done.                 *)
ExitCodeTells ==
    /\ exited = 0 =>
        \/ server = "failed"
        \/ /\ signals = 1
           /\ server = "closed" /\ limiters # "open" /\ pool = "ended"
           /\ \A c \in Conns : ~IsOpen(c) /\ handler[c] # "statement"
    /\ exited = 1 =>
        \/ pool = "failed"
        \/ server \in {"starting", "failed"}
        \/ signals > 1

(* A process that is told to stop does, with clients that keep their        *)
(* connections alive, send no request (or an endless stream of them is left *)
(* out: MaxAwaits), or leave in the middle of one.                          *)
ShutdownEnds == signals > 0 ~> ~Runs

=============================================================================
