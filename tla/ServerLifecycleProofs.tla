------------------------ MODULE ServerLifecycleProofs ------------------------
(***************************************************************************)
(* Theorems about ServerLifecycle, for any number of connections, awaits   *)
(* and signals.                                                            *)
(***************************************************************************)
EXTENDS ServerLifecycle, TLAPS

\* The code 0 or 1 is never mistaken for a process that runs.
LEMMA NoneIsNoCode == None # 0 /\ None # 1
BY LifecycleAssumption

-----------------------------------------------------------------------------
(* The inductive invariant of the shutdown. *)

\* Until the last connection is gone the application's resources are there,
\* and no handler has missed one.
Serving ==
    server # "closed" =>
        /\ pool = "open"
        /\ limiters # "disconnected"
        /\ \A c \in Conns : handler[c] # "cut"

\* Only a server that listens, or listened, has connections.
Unconnected ==
    server \in {"starting", "failed", "closed"} => \A c \in Conns : ~IsOpen(c)

\* The signals a process that still runs has received.
Counted ==
    Runs =>
        /\ server \in {"starting", "listening", "failed"} => signals = 0
        /\ server = "closing" => signals > 0
        /\ server = "closed" =>
             signals = 1 /\ limiters # "open" /\ pool = "ending"

\* The process exits with no connection to serve.
ExitedIdle == ~Runs => server \in {"starting", "failed", "closed"}

ShutdownInv ==
    TypeOK /\ Serving /\ Unconnected /\ Counted /\ ExitedIdle /\ ExitCodeTells

LEMMA InitInv == Init => ShutdownInv
BY LifecycleAssumption, NoneIsNoCode
   DEF Init, ShutdownInv, TypeOK, Serving, Unconnected, Counted, ExitedIdle,
       ExitCodeTells, IsOpen, Runs

\* Clients and handlers touch neither the server nor its resources.
LEMMA ClientKeeps ==
    ASSUME ShutdownInv, Runs, NEW c \in Conns, Client(c)
    PROVE  ShutdownInv'
<1> USE DEF ShutdownInv
<1>1. UNCHANGED <<server, limiters, pool, signals, exited>>
  BY DEF Client, Connect, Request, Disconnect, KeepAliveTimeout, Leave
<1>2. server \in {"listening", "closing"}
  BY DEF Client, Connect, Request, Disconnect, KeepAliveTimeout, IsOpen,
         Unconnected, TypeOK
<1>3. TypeOK'
  BY LifecycleAssumption DEF Client, Connect, Request, Disconnect,
     KeepAliveTimeout, Leave, Await, Query, IsOpen, TypeOK, Running
<1>4. handler' = handler \/ handler' = [handler EXCEPT ![c] = "limiter"]
        \/ handler' = [handler EXCEPT ![c] = "statement"]
  BY <1>2 DEF Client, Connect, Request, Disconnect, KeepAliveTimeout, Leave,
     Await, Query, Serving
<1>5. Serving'
  BY <1>1, <1>2, <1>4 DEF Serving, TypeOK
<1>6. Unconnected' /\ Counted' /\ ExitedIdle' /\ ExitCodeTells'
  BY <1>1, <1>2, NoneIsNoCode
     DEF Unconnected, Counted, ExitedIdle, ExitCodeTells, Runs
<1> QED
  BY <1>3, <1>5, <1>6

LEMMA HandleKeeps ==
    ASSUME ShutdownInv, Runs, NEW c \in Conns, Handle(c)
    PROVE  ShutdownInv'
<1> USE DEF ShutdownInv
<1>1. UNCHANGED <<server, conn, limiters, pool, signals, exited>>
  BY DEF Handle, LimiterAnswers, Resume
<1>2. TypeOK'
  BY LifecycleAssumption DEF Handle, LimiterAnswers, Resume, Await, Query,
     TypeOK, Running
<1>3. server # "closed" =>
        \E h \in {"idle"} \cup Running : handler' = [handler EXCEPT ![c] = h]
  BY DEF Handle, LimiterAnswers, Resume, Await, Query, Serving, Running
<1>4. Serving'
  BY <1>1, <1>3 DEF Serving, TypeOK, Running
<1>5. Unconnected' /\ Counted' /\ ExitedIdle' /\ ExitCodeTells'
  BY <1>1, NoneIsNoCode
     DEF Unconnected, Counted, ExitedIdle, ExitCodeTells, Runs, IsOpen
<1> QED
  BY <1>2, <1>4, <1>5

LEMMA ShutdownKeeps ==
    ASSUME ShutdownInv, Runs, Shutdown
    PROVE  ShutdownInv'
<1> USE DEF ShutdownInv, Shutdown
<1>1. signals \in Nat /\ signals' = signals + 1
  BY LifecycleAssumption DEF TypeOK
<1>2. TypeOK'
  BY LifecycleAssumption DEF TypeOK, Exit
<1>3. CASE server = "listening"
  <2>1. server' = "closing" /\ Runs'
    BY <1>3 DEF Runs
  <2>2. Serving'
    BY <1>3, <2>1 DEF Serving
  <2> QED
    BY <1>1, <1>2, <2>1, <2>2, NoneIsNoCode
       DEF Unconnected, Counted, ExitedIdle, ExitCodeTells, Runs
<1>4. CASE server = "closing"
  BY <1>1, <1>2, <1>4, NoneIsNoCode
     DEF Serving, Unconnected, Counted, ExitedIdle, ExitCodeTells, Runs
<1>5. CASE server \in {"starting", "failed", "closed"}
  <2>1. exited' = 1 /\ UNCHANGED <<server, conn, handler, limiters, pool>>
    BY <1>5 DEF Exit
  <2>2. Serving' /\ Unconnected' /\ ExitedIdle' /\ Counted'
    BY <1>5, <2>1, NoneIsNoCode
       DEF Serving, Unconnected, ExitedIdle, Counted, Runs, IsOpen
  <2>3. server = "closed" => signals' > 1
    BY <1>1 DEF Counted
  <2> QED
    BY <1>2, <1>5, <2>1, <2>2, <2>3 DEF ExitCodeTells
<1> QED
  BY <1>3, <1>4, <1>5 DEF TypeOK

LEMMA DrainedKeeps ==
    ASSUME ShutdownInv, Runs, Drained
    PROVE  ShutdownInv'
<1> USE DEF ShutdownInv, Drained, CloseApp, CloseLimiters
<1>1. TypeOK'
  BY DEF TypeOK, Exit
<1>2. Serving' /\ Unconnected' /\ ExitedIdle'
  BY DEF Serving, Unconnected, ExitedIdle, IsOpen
<1>3. CASE signals > 1
  BY <1>1, <1>2, <1>3, NoneIsNoCode
     DEF Counted, ExitCodeTells, Exit, Runs, TypeOK
<1>4. CASE ~(signals > 1)
  <2>1. signals' = 1
    BY <1>4, LifecycleAssumption DEF Counted, TypeOK
  <2> QED
    BY <1>1, <1>2, <1>4, <2>1, NoneIsNoCode
       DEF Counted, ExitCodeTells, Runs, TypeOK
<1> QED
  BY <1>3, <1>4

LEMMA PoolKeeps ==
    ASSUME ShutdownInv, Runs, PoolEnds \/ PoolFails
    PROVE  ShutdownInv'
<1> USE DEF ShutdownInv
<1>1. server = "closed"
  BY DEF PoolEnds, PoolFails, Serving
<1>2. TypeOK'
  BY DEF PoolEnds, PoolFails, TypeOK, Exit
<1>3. Serving' /\ Unconnected' /\ ExitedIdle' /\ Counted'
  BY <1>1, NoneIsNoCode DEF PoolEnds, PoolFails, Serving, Unconnected,
     ExitedIdle, Counted, Exit, Runs, IsOpen
<1>4. ExitCodeTells'
  BY <1>1 DEF PoolEnds, PoolFails, ExitCodeTells, Exit, Counted, Unconnected,
     IsOpen
<1> QED
  BY <1>2, <1>3, <1>4

LEMMA NextKeeps == ShutdownInv /\ [Next]_vars => ShutdownInv'
<1> SUFFICES ASSUME ShutdownInv, [Next]_vars PROVE ShutdownInv'
  OBVIOUS
<1>1. CASE Runs /\ Listen
  BY <1>1, NoneIsNoCode DEF ShutdownInv, Listen, TypeOK, Serving, Unconnected,
     Counted, ExitedIdle, ExitCodeTells, Runs, IsOpen
<1>2. CASE Runs /\ NothingLeft
  BY <1>2, NoneIsNoCode DEF ShutdownInv, NothingLeft, Exit, TypeOK, Serving,
     Unconnected, Counted, ExitedIdle, ExitCodeTells, Runs, IsOpen
<1>3. CASE UNCHANGED vars
  BY <1>3 DEF vars, ShutdownInv, TypeOK, Serving, Unconnected, Counted,
     ExitedIdle, ExitCodeTells, Runs, IsOpen
<1> QED
  BY <1>1, <1>2, <1>3, ClientKeeps, HandleKeeps, ShutdownKeeps, DrainedKeeps,
     PoolKeeps DEF Next

(* The server, its connections and its resources keep the states they are   *)
(* meant to have, and the shutdown its order.                               *)
THEOREM ShutdownInvariant == Spec => []ShutdownInv
BY InitInv, NextKeeps, PTL DEF Spec

(* The server, its connections and its exit code keep their types.          *)
THEOREM TypeCorrect == Spec => []TypeOK
<1>1. ShutdownInv => TypeOK
  BY DEF ShutdownInv
<1> QED
  BY <1>1, ShutdownInvariant, PTL

(* server.close waits for every connection before app.close takes the       *)
(* limiters and the pool away, and nothing else closes them or ends the     *)
(* process under a client (server.ts 22-31).                                *)
THEOREM WaitingClientsAreServed == Spec => []WaitingClientsServed
<1>1. ShutdownInv => WaitingClientsServed
  BY DEF ShutdownInv, Serving, Unconnected, ExitedIdle, WaitingClientsServed
<1> QED
  BY <1>1, ShutdownInvariant, PTL

(* The exit code tells a clean shutdown from the others (server.ts 22-36).  *)
THEOREM ExitCodesTell == Spec => []ExitCodeTells
<1>1. ShutdownInv => ExitCodeTells
  BY DEF ShutdownInv
<1> QED
  BY <1>1, ShutdownInvariant, PTL
=============================================================================
