----------------------------- MODULE EmailQueue -----------------------------
(***************************************************************************)
(* The email queue and its workers (email.queue.ts, worker.ts,             *)
(* mail.service.ts).  BullMQ 5, Redis and the SMTP server are external,    *)
(* modelled from how the code uses them:                                   *)
(*  - a worker takes a waiting job and holds its lock while it processes   *)
(*    it; what it reports afterwards counts only if it still has the lock; *)
(*  - a lock that is not renewed is found by any worker's stalled check:   *)
(*    the job waits again, or has failed if it stalled too often;          *)
(*  - sendMail is over when the server has answered or failed to, and a    *)
(*    server that did not answer may have taken the mail.                  *)
(* One time a job is taken is one run of the processor.  An operator whose *)
(* name has an underscore is a bug the code does not have.                 *)
(***************************************************************************)
EXTENDS Naturals, Sequences, FiniteSets

CONSTANTS
    Jobs, Workers,
    Concurrency,  \* jobs a worker processes at a time: WORKER_CONCURRENCY
    Attempts,     \* attempts of defaultJobOptions
    MaxStalls,    \* how often a job may stall: maxStalledCount of BullMQ
    Faults,       \* "crash": workers die; "slow": live workers lose locks;
                  \* "smtp": the SMTP server refuses or does not answer
    MaxDowns      \* how often workers go down: bounds a run

ASSUME QueueAssumption ==
    /\ Concurrency \in Nat \ {0}
    /\ Attempts \in Nat \ {0}
    /\ MaxStalls \in Nat
    /\ MaxDowns \in Nat
    /\ Faults \subseteq {"crash", "slow", "smtp"}

VARIABLES
    job,     \* job[j]: the job as Redis has it; lock is a run, or 0
    run,     \* run[j]: the runs of the job so far
    worker,  \* worker[w]: the worker process
    downs    \* how often a worker was signalled or died

vars == <<job, run, worker, downs>>

Job == [state : {"none", "waiting", "active", "delayed", "completed", "failed"},
        fails : 0..Attempts, stalls : 0..(MaxStalls + 1), lock : Nat]

\* sent: the SMTP server has taken the mail.
Run == [by : Workers, sent : BOOLEAN,
        phase : {"sending", "ok", "error", "succeeded", "threw", "cut"}]

TypeOK ==
    /\ job \in [Jobs -> Job]
    /\ run \in [Jobs -> Seq(Run)]
    /\ worker \in [Workers -> {"up", "closing", "down"}]
    /\ downs \in 0..MaxDowns

Init ==
    /\ job = [j \in Jobs |->
                [state |-> "none", fails |-> 0, stalls |-> 0, lock |-> 0]]
    /\ run = [j \in Jobs |-> <<>>]
    /\ worker = [w \in Workers |-> "up"]
    /\ downs = 0

InProgress(j, n) == run[j][n].phase \in {"sending", "ok", "error"}

Processing(w) ==
    UNION {{<<j, n>> : n \in {m \in DOMAIN run[j] :
                                InProgress(j, m) /\ run[j][m].by = w}} : j \in Jobs}

-----------------------------------------------------------------------------
\* queueEmail.
Add(j) ==
    /\ job[j].state = "none"
    /\ job' = [job EXCEPT ![j].state = "waiting"]
    /\ UNCHANGED <<run, worker, downs>>

\* Leaves the job waiting while it is processed.
Take_LeftWaiting(w, j) ==
    /\ worker[w] = "up"
    /\ job[j].state = "waiting"
    /\ Cardinality(Processing(w)) < Concurrency
    /\ job' = [job EXCEPT ![j].lock = Len(run[j]) + 1]
    /\ run' = [run EXCEPT
                 ![j] = Append(@, [by |-> w, phase |-> "sending", sent |-> FALSE])]
    /\ UNCHANGED <<worker, downs>>

\* A worker that has room for a job takes one: createEmailWorker.
Take(w, j) ==
    /\ worker[w] = "up"
    /\ job[j].state = "waiting"
    /\ Cardinality(Processing(w)) < Concurrency
    /\ job' = [job EXCEPT ![j].state = "active", ![j].lock = Len(run[j]) + 1]
    /\ run' = [run EXCEPT
                 ![j] = Append(@, [by |-> w, phase |-> "sending", sent |-> FALSE])]
    /\ UNCHANGED <<worker, downs>>

\* mailService.send is not awaited: the processor succeeds at once.
SendMail_NotAwaited(j, n) ==
    /\ run[j][n].phase = "sending"
    /\ \E sent \in {TRUE} \cup (IF "smtp" \in Faults THEN {FALSE} ELSE {}) :
         run' = [run EXCEPT ![j][n] = [@ EXCEPT !.phase = "ok", !.sent = sent]]
    /\ UNCHANGED <<job, worker, downs>>

\* mailService.send: the server takes the mail, or sendMail throws.
SendMail(j, n) ==
    /\ run[j][n].phase = "sending"
    /\ \E phase \in {"ok", "error"}, sent \in BOOLEAN :
         /\ IF phase = "ok" THEN sent ELSE "smtp" \in Faults
         /\ run' = [run EXCEPT ![j][n] = [@ EXCEPT !.phase = phase, !.sent = sent]]
    /\ UNCHANGED <<job, worker, downs>>

Over(j, n) ==
    run' = [run EXCEPT ![j][n].phase = IF @ = "ok" THEN "succeeded" ELSE "threw"]

\* Gives up at the first error.
Settled_FirstError(j, phase) ==
    [job[j] EXCEPT !.lock = 0, !.state = IF phase = "ok" THEN "completed" ELSE "failed"]

\* One attempt more than the options say.
Settled_OneMore(j, phase) ==
    IF phase = "ok"
    THEN [job[j] EXCEPT !.state = "completed", !.lock = 0]
    ELSE [job[j] EXCEPT !.fails = @ + 1, !.lock = 0,
            !.state = IF job[j].fails < Attempts THEN "delayed" ELSE "failed"]

\* What a run that has the lock reports: ok, or a failure that is retried after
\* a delay as long as attempts are left.
Settled(j, phase) ==
    IF phase = "ok"
    THEN [job[j] EXCEPT !.state = "completed", !.lock = 0]
    ELSE [job[j] EXCEPT !.fails = @ + 1, !.lock = 0,
            !.state = IF job[j].fails + 1 < Attempts THEN "delayed" ELSE "failed"]

\* Reports without having the lock.
Report_NoLock(j, n) ==
    /\ run[j][n].phase \in {"ok", "error"}
    /\ Over(j, n)
    /\ job' = [job EXCEPT ![j] = Settled(j, run[j][n].phase)]
    /\ UNCHANGED <<worker, downs>>

\* The connection to Redis is closed before the jobs are over.
Report_Disconnected(j, n) ==
    /\ run[j][n].phase \in {"ok", "error"}
    /\ worker[run[j][n].by] = "up"
    /\ Over(j, n)
    /\ IF job[j].lock = n
       THEN job' = [job EXCEPT ![j] = Settled(j, run[j][n].phase)]
       ELSE UNCHANGED job
    /\ UNCHANGED <<worker, downs>>

\* The processor returns or throws; without the lock nothing comes of it.
Report(j, n) ==
    /\ run[j][n].phase \in {"ok", "error"}
    /\ Over(j, n)
    /\ IF job[j].lock = n
       THEN job' = [job EXCEPT ![j] = Settled(j, run[j][n].phase)]
       ELSE UNCHANGED job
    /\ UNCHANGED <<worker, downs>>

\* The backoff is over.
Retry(j) ==
    /\ job[j].state = "delayed"
    /\ job' = [job EXCEPT ![j].state = "waiting"]
    /\ UNCHANGED <<run, worker, downs>>

Abandoned(j) == job[j].state = "active" /\ ~InProgress(j, job[j].lock)

\* The stalled check of a worker that is up.
Stall(j) ==
    /\ \E w \in Workers : worker[w] = "up"
    /\ job[j].state = "active"
    /\ Abandoned(j) \/ "slow" \in Faults
    /\ job' = [job EXCEPT ![j].stalls = @ + 1, ![j].lock = 0,
                 ![j].state = IF job[j].stalls < MaxStalls
                              THEN "waiting" ELSE "failed"]
    /\ UNCHANGED <<run, worker, downs>>

-----------------------------------------------------------------------------
(* worker.ts *)

\* SIGTERM or SIGINT; another signal waits for the same close.
Shutdown(w) ==
    /\ worker[w] = "up"
    /\ downs < MaxDowns
    /\ downs' = downs + 1
    /\ worker' = [worker EXCEPT ![w] = "closing"]
    /\ UNCHANGED <<job, run>>

\* The process exits without awaiting emailWorker.close.
Closed_NotAwaited(w) ==
    /\ worker[w] = "closing"
    /\ worker' = [worker EXCEPT ![w] = "down"]
    /\ UNCHANGED <<job, run, downs>>

\* emailWorker.close waits for the jobs in progress, then the process exits.
Closed(w) ==
    /\ worker[w] = "closing"
    /\ Processing(w) = {}
    /\ worker' = [worker EXCEPT ![w] = "down"]
    /\ UNCHANGED <<job, run, downs>>

Crash(w) ==
    /\ "crash" \in Faults
    /\ worker[w] # "down"
    /\ downs < MaxDowns
    /\ downs' = downs + 1
    /\ worker' = [worker EXCEPT ![w] = "down"]
    /\ run' = [j \in Jobs |-> [n \in DOMAIN run[j] |->
                 IF <<j, n>> \in Processing(w)
                 THEN [run[j][n] EXCEPT !.phase = "cut"] ELSE run[j][n]]]
    /\ UNCHANGED job

Start(w) ==
    /\ worker[w] = "down"
    /\ worker' = [worker EXCEPT ![w] = "up"]
    /\ UNCHANGED <<job, run, downs>>

-----------------------------------------------------------------------------
Step(j, n) == n \in DOMAIN run[j] /\ (SendMail(j, n) \/ Report(j, n))

Next ==
    \/ \E j \in Jobs : \/ Add(j) \/ Retry(j) \/ Stall(j)
                       \/ \E w \in Workers : Take(w, j)
                       \/ \E n \in DOMAIN run[j] : Step(j, n)
    \/ \E w \in Workers : Shutdown(w) \/ Closed(w) \/ Crash(w) \/ Start(w)

Spec == Init /\ [][Next]_vars

MaxRuns == Attempts + MaxStalls

\* Workers take jobs, delays end, SMTP times out, the stalled check runs.  Nobody
\* has to queue a mail, nor to start a worker again (docker-compose.yml has no
\* restart policy): liveness is for fewer downs than there are workers.
FairSpec ==
    /\ Spec
    /\ \A j \in Jobs :
        /\ WF_vars(\E w \in Workers : Take(w, j))
        /\ WF_vars(Retry(j))
        /\ WF_vars(Abandoned(j) /\ Stall(j))
        /\ \A n \in 1..MaxRuns : WF_vars(Step(j, n))
    /\ \A w \in Workers : WF_vars(Closed(w))
=============================================================================
