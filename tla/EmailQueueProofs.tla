-------------------------- MODULE EmailQueueProofs --------------------------
(***************************************************************************)
(* Theorems about EmailQueue, for any jobs and workers, any number of      *)
(* attempts, stalls and downs, and all faults.                             *)
(***************************************************************************)
EXTENDS EmailQueueProperties, FiniteSetTheorems, TLAPS

(* Every run ended its job's attempt, in a failure or a stall, but the one   *)
(* that is active and the one that completed the job; so what bounds fails   *)
(* and stalls bounds the runs.                                               *)
JobCounted(j) ==
    /\ job[j].lock # 0 <=> job[j].state = "active"
    /\ Len(run[j]) = job[j].fails + job[j].stalls
                     + IF job[j].state \in {"active", "completed"} THEN 1 ELSE 0
    /\ IF job[j].state = "failed"
       THEN job[j].fails + job[j].stalls <= MaxRuns
       ELSE job[j].fails < Attempts /\ job[j].stalls <= MaxStalls

RunsCounted == \A j \in Jobs : JobCounted(j)

(* What the phase of a run says of its mail, and of its worker.              *)
RunsTell ==
    \A j \in Jobs : \A n \in DOMAIN run[j] :
        /\ run[j][n].phase \in {"ok", "succeeded"} => run[j][n].sent
        /\ run[j][n].phase = "sending" => ~run[j][n].sent
        /\ InProgress(j, n) => worker[run[j][n].by] # "down"

QueueInv == TypeOK /\ RunsCounted /\ RunsTell /\ CompletedWasSent

LEMMA InitInv == Init => QueueInv
BY QueueAssumption
   DEF Init, QueueInv, TypeOK, RunsCounted, JobCounted, RunsTell, CompletedWasSent, Job, Run

-----------------------------------------------------------------------------
(* How runs change: all the actions do to them. *)

LEMMA SameRuns ==
    ASSUME QueueInv, UNCHANGED run, \A w \in Workers : worker'[w] = "down" =>
             (worker[w] = "down" \/ Processing(w) = {})
    PROVE  RunsTell' /\ \A j \in Jobs : SentBy(j)' = SentBy(j)
<1>1. ASSUME NEW j \in Jobs, NEW n \in DOMAIN run[j], InProgress(j, n)
      PROVE  worker'[run[j][n].by] # "down"
  <2> DEFINE w == run[j][n].by
  <2>1. run[j][n] \in Run
    BY DEF QueueInv, TypeOK
  <2> w \in Workers
    BY <2>1 DEF Run
  <2>2. <<j, n>> \in Processing(w)
    BY <1>1 DEF Processing
  <2>3. worker[w] # "down"
    BY <1>1 DEF QueueInv, RunsTell
  <2> QED
    BY <2>1, <2>2, <2>3
<1>2. RunsTell'
  BY <1>1 DEF QueueInv, RunsTell, InProgress
<1> QED
  BY <1>2 DEF SentBy

LEMMA AddKeeps == ASSUME QueueInv, NEW j \in Jobs, Add(j) PROVE QueueInv'
<1> USE DEF QueueInv
<1>1. RunsTell' /\ \A i \in Jobs : SentBy(i)' = SentBy(i)
  BY SameRuns DEF Add
<1>2. TypeOK' /\ RunsCounted'
  BY QueueAssumption DEF Add, TypeOK, Job, RunsCounted, JobCounted, MaxRuns
<1>3. CompletedWasSent'
  BY <1>1 DEF Add, TypeOK, Job, CompletedWasSent
<1> QED
  BY <1>1, <1>2, <1>3

LEMMA RetryKeeps == ASSUME QueueInv, NEW j \in Jobs, Retry(j) PROVE QueueInv'
<1> USE DEF QueueInv
<1>1. RunsTell' /\ \A i \in Jobs : SentBy(i)' = SentBy(i)
  BY SameRuns DEF Retry
<1>2. TypeOK' /\ RunsCounted'
  BY QueueAssumption DEF Retry, TypeOK, Job, RunsCounted, JobCounted, MaxRuns
<1>3. CompletedWasSent'
  BY <1>1 DEF Retry, TypeOK, Job, CompletedWasSent
<1> QED
  BY <1>1, <1>2, <1>3

LEMMA StallKeeps == ASSUME QueueInv, NEW j \in Jobs, Stall(j) PROVE QueueInv'
<1> USE DEF QueueInv
<1>1. RunsTell' /\ \A i \in Jobs : SentBy(i)' = SentBy(i)
  BY SameRuns DEF Stall
<1>2. job[j].state = "active" /\ job[j].fails < Attempts /\ job[j].stalls <= MaxStalls
  BY DEF Stall, RunsCounted, JobCounted
<1>3. TypeOK'
  BY <1>2, QueueAssumption DEF Stall, TypeOK, Job
<1>4. RunsCounted'
  <2>1. ASSUME NEW i \in Jobs, i # j PROVE JobCounted(i)'
    BY <2>1 DEF Stall, TypeOK, RunsCounted, JobCounted
  <2>2. JobCounted(j)'
    BY <1>2, QueueAssumption DEF Stall, TypeOK, Job, RunsCounted, JobCounted, MaxRuns
  <2> QED
    BY <2>1, <2>2 DEF RunsCounted
<1>5. CompletedWasSent'
  BY <1>1 DEF Stall, TypeOK, Job, CompletedWasSent
<1> QED
  BY <1>1, <1>3, <1>4, <1>5

\* The run that begins when worker w takes a job.
NewRun(w) == [by |-> w, phase |-> "sending", sent |-> FALSE]

LEMMA TakeEffect ==
    ASSUME QueueInv, NEW w \in Workers, NEW j \in Jobs, Take(w, j)
    PROVE  /\ run[j] \in Seq(Run) /\ NewRun(w) \in Run
           /\ run'[j] = Append(run[j], NewRun(w))
           /\ \A i \in Jobs : i # j => run'[i] = run[i]
           /\ Len(run'[j]) = Len(run[j]) + 1
           /\ DOMAIN run'[j] = DOMAIN run[j] \cup {Len(run[j]) + 1}
           /\ \A n \in DOMAIN run[j] : run'[j][n] = run[j][n]
           /\ run'[j][Len(run[j]) + 1] = NewRun(w)
<1> USE DEF QueueInv
<1>1. run[j] \in Seq(Run) /\ NewRun(w) \in Run
  BY DEF TypeOK, Run, NewRun
<1>2. /\ run'[j] = Append(run[j], NewRun(w))
      /\ \A i \in Jobs : i # j => run'[i] = run[i]
  BY DEF Take, TypeOK, NewRun
<1> QED
  BY <1>1, <1>2

LEMMA TakeKeeps ==
    ASSUME QueueInv, NEW w \in Workers, NEW j \in Jobs, Take(w, j)
    PROVE  QueueInv'
<1> USE DEF QueueInv
<1> DEFINE new == NewRun(w)
<1>1. run[j] \in Seq(Run) /\ new \in Run
  BY TakeEffect
<1>2. /\ run'[j] = Append(run[j], new)
      /\ \A i \in Jobs : i # j => run'[i] = run[i]
  BY TakeEffect
<1>3. /\ Len(run'[j]) = Len(run[j]) + 1
      /\ DOMAIN run'[j] = DOMAIN run[j] \cup {Len(run[j]) + 1}
      /\ \A n \in DOMAIN run[j] : run'[j][n] = run[j][n]
      /\ run'[j][Len(run[j]) + 1] = new
  BY TakeEffect
<1>4. TypeOK'
  <2>1. Append(run[j], new) \in Seq(Run) /\ Len(run[j]) + 1 \in Nat
    BY <1>1
  <2>2. run' \in [Jobs -> Seq(Run)]
    BY <2>1 DEF Take, TypeOK, NewRun
  <2>3. job' \in [Jobs -> Job]
    BY <2>1 DEF Take, TypeOK, Job
  <2> QED
    BY <2>2, <2>3 DEF Take, TypeOK
<1>5. RunsCounted'
  <2> SUFFICES ASSUME NEW i \in Jobs PROVE JobCounted(i)'
    BY DEF RunsCounted
  <2>1. JobCounted(i) /\ job[i] \in Job /\ Len(run[i]) \in Nat
    BY DEF TypeOK, RunsCounted
  <2>2. CASE i = j
    <3>1. job[j].state = "waiting"
      BY DEF Take
    <3>2. job'[j].state = "active" /\ job'[j].lock # 0
          /\ job'[j].fails = job[j].fails /\ job'[j].stalls = job[j].stalls
      BY <1>1, <2>1, <2>2 DEF Take, TypeOK, Job
    <3> QED
      BY <1>3, <2>1, <2>2, <3>1, <3>2 DEF JobCounted, Job
  <2>3. CASE i # j
    <3>1. job'[i] = job[i] /\ run'[i] = run[i]
      BY <1>2, <2>3 DEF Take, TypeOK
    <3> QED
      BY <2>1, <3>1 DEF JobCounted
  <2> QED
    BY <2>2, <2>3
<1>6. RunsTell'
  <2> SUFFICES ASSUME NEW i \in Jobs, NEW n \in DOMAIN run'[i]
               PROVE  /\ run'[i][n].phase \in {"ok", "succeeded"} => run'[i][n].sent
                      /\ run'[i][n].phase = "sending" => ~run'[i][n].sent
                      /\ InProgress(i, n)' => worker'[run'[i][n].by] # "down"
    BY DEF RunsTell
  <2>1. worker' = worker /\ worker[w] = "up"
    BY DEF Take
  <2>2. CASE n \in DOMAIN run[i] /\ run'[i][n] = run[i][n]
    BY <2>1, <2>2 DEF RunsTell, InProgress
  <2>3. CASE run'[i][n] = new
    BY <2>1, <2>3 DEF InProgress, NewRun
  <2> QED
    BY <1>2, <1>3, <2>2, <2>3
<1>7. CompletedWasSent'
  BY <1>2, <1>3 DEF Take, TypeOK, Job, CompletedWasSent, SentBy
<1> QED
  BY <1>4, <1>5, <1>6, <1>7

\* One run of one job goes on.
LEMMA OneRun ==
    ASSUME QueueInv, NEW j \in Jobs, NEW n \in DOMAIN run[j], NEW r \in Run,
           run' = [run EXCEPT ![j][n] = r]
    PROVE  /\ run' \in [Jobs -> Seq(Run)]
           /\ run'[j][n] = r
           /\ \A i \in Jobs : /\ Len(run'[i]) = Len(run[i])
                              /\ DOMAIN run'[i] = DOMAIN run[i]
                              /\ \A m \in DOMAIN run[i] :
                                   <<i, m>> # <<j, n>> => run'[i][m] = run[i][m]
<1>1. run \in [Jobs -> Seq(Run)] /\ run[j] \in Seq(Run)
  BY DEF QueueInv, TypeOK
<1>2. run'[j] = [run[j] EXCEPT ![n] = r] /\ \A i \in Jobs : i # j => run'[i] = run[i]
  BY <1>1
<1>3. [run[j] EXCEPT ![n] = r] \in Seq(Run)
      /\ Len([run[j] EXCEPT ![n] = r]) = Len(run[j])
  BY <1>1
<1> QED
  BY <1>1, <1>2, <1>3

\* The other runs of all jobs stay as they are.
OthersSame(j, n) ==
    /\ run' \in [Jobs -> Seq(Run)]
    /\ \A i \in Jobs : /\ Len(run'[i]) = Len(run[i])
                       /\ DOMAIN run'[i] = DOMAIN run[i]
                       /\ \A m \in DOMAIN run[i] :
                            <<i, m>> # <<j, n>> => run'[i][m] = run[i][m]

LEMMA SendMailEffect ==
    ASSUME QueueInv, NEW j \in Jobs, NEW n \in DOMAIN run[j], SendMail(j, n)
    PROVE  /\ OthersSame(j, n)
           /\ run[j][n].phase = "sending" /\ run'[j][n].phase \in {"ok", "error"}
           /\ run'[j][n].sent \in BOOLEAN
           /\ run'[j][n].phase = "ok" => run'[j][n].sent
           /\ run'[j][n].by = run[j][n].by
           /\ UNCHANGED <<job, worker, downs>>
<1>1. run[j][n] \in Run
  BY DEF QueueInv, TypeOK
<1>2. PICK phase \in {"ok", "error"}, sent \in BOOLEAN :
        /\ phase = "ok" => sent
        /\ run' = [run EXCEPT ![j][n] = [@ EXCEPT !.phase = phase, !.sent = sent]]
  BY DEF SendMail
<1> DEFINE r == [run[j][n] EXCEPT !.phase = phase, !.sent = sent]
<1>3. r \in Run /\ r.phase = phase /\ r.sent = sent /\ r.by = run[j][n].by
      /\ run' = [run EXCEPT ![j][n] = r]
  BY <1>1, <1>2 DEF Run, QueueInv, TypeOK
<1> HIDE DEF r
<1>4. OthersSame(j, n) /\ run'[j][n] = r
  BY <1>3, OneRun DEF OthersSame
<1> QED
  BY <1>2, <1>3, <1>4 DEF SendMail

LEMMA SendMailKeeps ==
    ASSUME QueueInv, NEW j \in Jobs, NEW n \in DOMAIN run[j], SendMail(j, n)
    PROVE  QueueInv'
<1> USE SendMailEffect DEF QueueInv, OthersSame
<1>1. TypeOK' /\ RunsCounted'
  BY DEF TypeOK, RunsCounted, JobCounted
<1>2. RunsTell'
  BY DEF RunsTell, InProgress
<1>3. CompletedWasSent'
  <2> SUFFICES ASSUME NEW i \in Jobs, job'[i].state = "completed"
               PROVE  SentBy(i)' # {}
    BY DEF CompletedWasSent
  <2>1. PICK m \in DOMAIN run[i] : run[i][m].sent
    BY DEF CompletedWasSent, SentBy
  <2>2. <<i, m>> # <<j, n>>
    BY <2>1 DEF RunsTell
  <2> QED
    BY <2>1, <2>2 DEF SentBy
<1> QED
  BY <1>1, <1>2, <1>3

LEMMA ReportEffect ==
    ASSUME QueueInv, NEW j \in Jobs, NEW n \in DOMAIN run[j], Report(j, n)
    PROVE  /\ n \in Nat \ {0} /\ OthersSame(j, n)
           /\ run[j][n].phase \in {"ok", "error"}
           /\ run[j][n].phase = "ok" => run'[j][n].phase = "succeeded"
           /\ run[j][n].phase = "error" => run'[j][n].phase = "threw"
           /\ run'[j][n].sent = run[j][n].sent /\ run'[j][n].by = run[j][n].by
           /\ UNCHANGED <<worker, downs>>
<1>1. run[j] \in Seq(Run) /\ run[j][n] \in Run /\ n \in Nat \ {0}
  BY DEF QueueInv, TypeOK
<1> DEFINE r == [run[j][n] EXCEPT
                  !.phase = IF @ = "ok" THEN "succeeded" ELSE "threw"]
<1>2. /\ r \in Run /\ r.sent = run[j][n].sent /\ r.by = run[j][n].by
      /\ run[j][n].phase = "ok" => r.phase = "succeeded"
      /\ run[j][n].phase = "error" => r.phase = "threw"
      /\ run' = [run EXCEPT ![j][n] = r]
  BY <1>1 DEF Report, Over, Run, QueueInv, TypeOK
<1> HIDE DEF r
<1>3. OthersSame(j, n) /\ run'[j][n] = r
  BY <1>2, OneRun DEF OthersSame
<1> QED
  BY <1>1, <1>2, <1>3 DEF Report

LEMMA ReportKeeps ==
    ASSUME QueueInv, NEW j \in Jobs, NEW n \in DOMAIN run[j], Report(j, n)
    PROVE  QueueInv'
<1> USE DEF QueueInv
<1>1. run[j] \in Seq(Run) /\ run[j][n] \in Run /\ n \in Nat \ {0}
  BY ReportEffect DEF TypeOK
<1>2. /\ run'[j][n].sent = run[j][n].sent /\ run'[j][n].by = run[j][n].by
      /\ run[j][n].phase = "ok" => run'[j][n].phase = "succeeded"
      /\ run[j][n].phase = "error" => run'[j][n].phase = "threw"
  BY ReportEffect
<1>3. /\ run' \in [Jobs -> Seq(Run)]
      /\ \A i \in Jobs : /\ Len(run'[i]) = Len(run[i])
                         /\ DOMAIN run'[i] = DOMAIN run[i]
                         /\ \A m \in DOMAIN run[i] :
                              <<i, m>> # <<j, n>> => run'[i][m] = run[i][m]
  BY ReportEffect DEF OthersSame
<1>4. UNCHANGED <<worker, downs>> /\ run[j][n].phase \in {"ok", "error"}
  BY DEF Report
<1>5. RunsTell'
  BY <1>2, <1>3, <1>4 DEF RunsTell, InProgress
<1>6. \A i \in Jobs : SentBy(i)' = SentBy(i)
  BY <1>2, <1>3 DEF SentBy
<1>7. CASE job[j].lock = n
  <2>1. job[j].state = "active" /\ job[j].fails < Attempts /\ job[j].stalls <= MaxStalls
    BY <1>1, <1>7 DEF RunsCounted, JobCounted
  <2>2. job' = [job EXCEPT ![j] = Settled(j, run[j][n].phase)]
    BY <1>7 DEF Report
  <2>3. job' \in [Jobs -> Job]
    <3>1. job \in [Jobs -> Job] /\ job[j] \in Job
      BY DEF TypeOK
    <3>2. job[j].fails + 1 \in 0..Attempts
      BY <2>1, <3>1, QueueAssumption DEF Job
    <3>3. Settled(j, run[j][n].phase) \in Job
      BY <3>1, <3>2 DEF Settled, Job
    <3> QED
      BY <2>2, <3>1, <3>3
  <2>4. ASSUME NEW i \in Jobs, i # j PROVE JobCounted(i)'
    BY <1>3, <2>2, <2>4 DEF TypeOK, RunsCounted, JobCounted
  <2>5. JobCounted(j)'
    BY <1>3, <2>1, <2>2, QueueAssumption
       DEF Settled, TypeOK, Job, RunsCounted, JobCounted, MaxRuns
  <2>6. job'[j].state = "completed" => run[j][n].sent
    BY <1>4, <2>1, <2>2 DEF Settled, TypeOK, Job, RunsTell
  <2>7. CompletedWasSent'
    BY <1>6, <2>2, <2>6 DEF TypeOK, CompletedWasSent, SentBy
  <2> QED
    BY <1>3, <1>4, <1>5, <2>3, <2>4, <2>5, <2>7 DEF TypeOK, RunsCounted
<1>8. CASE job[j].lock # n
  <2>1. job' = job
    BY <1>8 DEF Report
  <2> QED
    BY <1>3, <1>4, <1>5, <1>6, <2>1
       DEF TypeOK, RunsCounted, JobCounted, CompletedWasSent
<1> QED
  BY <1>7, <1>8

-----------------------------------------------------------------------------
(* The workers. *)

LEMMA WorkerKeeps ==
    ASSUME QueueInv, NEW w \in Workers, Shutdown(w) \/ Closed(w) \/ Start(w)
    PROVE  QueueInv'
<1> USE DEF QueueInv
<1>1. UNCHANGED <<job, run>>
  BY DEF Shutdown, Closed, Start
<1>2. RunsTell' /\ \A j \in Jobs : SentBy(j)' = SentBy(j)
  BY <1>1, SameRuns DEF Shutdown, Closed, Start, TypeOK
<1>3. TypeOK'
  BY <1>1, QueueAssumption DEF Shutdown, Closed, Start, TypeOK
<1>4. RunsCounted'
  BY <1>1 DEF RunsCounted, JobCounted
<1> QED
  BY <1>1, <1>2, <1>3, <1>4 DEF CompletedWasSent

LEMMA CrashEffect ==
    ASSUME QueueInv, NEW w \in Workers, Crash(w)
    PROVE  /\ \A j \in Jobs : /\ run'[j] \in Seq(Run)
                             /\ Len(run'[j]) = Len(run[j])
                             /\ DOMAIN run'[j] = DOMAIN run[j]
           /\ \A j \in Jobs : \A n \in DOMAIN run[j] :
                /\ run[j][n] \in Run /\ run'[j][n].sent = run[j][n].sent
                /\ run'[j][n].by = run[j][n].by
                /\ run'[j][n].phase = IF <<j, n>> \in Processing(w)
                                      THEN "cut" ELSE run[j][n].phase
<1> USE DEF QueueInv
<1>1. ASSUME NEW j \in Jobs
      PROVE  /\ run'[j] \in Seq(Run) /\ Len(run'[j]) = Len(run[j])
             /\ DOMAIN run'[j] = DOMAIN run[j]
             /\ \A n \in DOMAIN run[j] :
                  run'[j][n] = IF <<j, n>> \in Processing(w)
                               THEN [run[j][n] EXCEPT !.phase = "cut"]
                               ELSE run[j][n]
  <2>1. run[j] \in Seq(Run) /\ \A n \in DOMAIN run[j] : run[j][n] \in Run
    BY DEF TypeOK
  <2> DEFINE s == [n \in DOMAIN run[j] |->
                    IF <<j, n>> \in Processing(w)
                    THEN [run[j][n] EXCEPT !.phase = "cut"] ELSE run[j][n]]
  <2>2. run'[j] = s
    BY DEF Crash
  <2>3. \A n \in DOMAIN run[j] : s[n] \in Run
    BY <2>1 DEF Run
  <2>4. DOMAIN s = 1..Len(run[j]) /\ Len(run[j]) \in Nat
    BY <2>1
  <2>5. s \in Seq(Run)
    <3>1. s \in [1..Len(run[j]) -> Run]
      BY <2>3, <2>4
    <3> HIDE DEF s
    <3> QED
      BY <2>4, <3>1
  <2>6. Len(s) = Len(run[j])
    BY <2>4, <2>5
  <2> QED
    BY <2>2, <2>5, <2>6
<1>2. \A j \in Jobs : \A n \in DOMAIN run[j] :
        /\ run[j][n] \in Run /\ run'[j][n].sent = run[j][n].sent
        /\ run'[j][n].by = run[j][n].by
        /\ run'[j][n].phase = IF <<j, n>> \in Processing(w)
                              THEN "cut" ELSE run[j][n].phase
  <2>1. \A j \in Jobs : \A n \in DOMAIN run[j] : run[j][n] \in Run
    BY DEF TypeOK
  <2>2. \A r \in Run : /\ [r EXCEPT !.phase = "cut"].sent = r.sent
                       /\ [r EXCEPT !.phase = "cut"].by = r.by
                       /\ [r EXCEPT !.phase = "cut"].phase = "cut"
    BY DEF Run
  <2> SUFFICES ASSUME NEW j \in Jobs, NEW n \in DOMAIN run[j]
               PROVE  /\ run[j][n] \in Run /\ run'[j][n].sent = run[j][n].sent
                      /\ run'[j][n].by = run[j][n].by
                      /\ run'[j][n].phase = IF <<j, n>> \in Processing(w)
                                            THEN "cut" ELSE run[j][n].phase
    OBVIOUS
  <2>3. CASE <<j, n>> \in Processing(w)
    <3>1. run'[j][n] = [run[j][n] EXCEPT !.phase = "cut"]
      BY <1>1, <2>3
    <3>2. run[j][n] \in Run
      BY <2>1
    <3> QED
      BY <2>2, <2>3, <3>1, <3>2
  <2>4. CASE <<j, n>> \notin Processing(w)
    BY <1>1, <2>1, <2>4
  <2> QED
    BY <2>3, <2>4
<1> QED
  BY <1>1, <1>2

LEMMA CrashKeeps == ASSUME QueueInv, NEW w \in Workers, Crash(w) PROVE QueueInv'
<1> USE DEF QueueInv
<1>1. \A j \in Jobs : /\ run'[j] \in Seq(Run) /\ Len(run'[j]) = Len(run[j])
                      /\ DOMAIN run'[j] = DOMAIN run[j]
  BY CrashEffect
<1>2. \A j \in Jobs : \A n \in DOMAIN run[j] :
        /\ run[j][n] \in Run /\ run'[j][n].sent = run[j][n].sent
        /\ run'[j][n].by = run[j][n].by
        /\ run'[j][n].phase = IF <<j, n>> \in Processing(w)
                              THEN "cut" ELSE run[j][n].phase
  BY CrashEffect
<1>3. run' \in [Jobs -> Seq(Run)]
  BY <1>1 DEF Crash
<1>4. TypeOK' /\ RunsCounted'
  <2>1. TypeOK'
    <3>1. job' = job /\ worker' = [worker EXCEPT ![w] = "down"]
          /\ downs' = downs + 1 /\ downs < MaxDowns
      BY DEF Crash
    <3> QED
      BY <1>3, <3>1, QueueAssumption DEF TypeOK
  <2>2. RunsCounted'
    BY <1>1 DEF Crash, RunsCounted, JobCounted
  <2> QED
    BY <2>1, <2>2
<1>5. \A j \in Jobs : \A n \in DOMAIN run[j] :
        InProgress(j, n) /\ run[j][n].by = w => <<j, n>> \in Processing(w)
  BY DEF Processing
<1>6. RunsTell'
  <2> SUFFICES ASSUME NEW j \in Jobs, NEW n \in DOMAIN run[j]
               PROVE  /\ run'[j][n].phase \in {"ok", "succeeded"} => run'[j][n].sent
                      /\ run'[j][n].phase = "sending" => ~run'[j][n].sent
                      /\ InProgress(j, n)' => worker'[run'[j][n].by] # "down"
    BY <1>1 DEF RunsTell
  <2>1. CASE <<j, n>> \in Processing(w)
    BY <1>2, <2>1 DEF InProgress
  <2>2. CASE <<j, n>> \notin Processing(w)
    <3>1. run'[j][n].phase = run[j][n].phase /\ run[j][n].by \in Workers
      BY <1>2, <2>2 DEF Run
    <3>2. InProgress(j, n)' => worker'[run'[j][n].by] = worker[run[j][n].by]
      BY <1>2, <1>5, <2>2, <3>1 DEF Crash, TypeOK, InProgress
    <3> QED
      BY <1>2, <3>1, <3>2 DEF RunsTell, InProgress
  <2> QED
    BY <2>1, <2>2
<1>7. CompletedWasSent'
  BY <1>1, <1>2 DEF Crash, CompletedWasSent, SentBy
<1> QED
  BY <1>4, <1>6, <1>7

LEMMA NextKeeps == QueueInv /\ [Next]_vars => QueueInv'
<1> SUFFICES ASSUME QueueInv, [Next]_vars PROVE QueueInv'
  OBVIOUS
<1>1. ASSUME NEW j \in Jobs, Add(j) \/ Retry(j) \/ Stall(j) PROVE QueueInv'
  BY <1>1, AddKeeps, RetryKeeps, StallKeeps
<1>2. ASSUME NEW w \in Workers, NEW j \in Jobs, Take(w, j) PROVE QueueInv'
  BY <1>2, TakeKeeps
<1>3. ASSUME NEW j \in Jobs, NEW n \in DOMAIN run[j], Step(j, n) PROVE QueueInv'
  BY <1>3, SendMailKeeps, ReportKeeps DEF Step
<1>4. ASSUME NEW w \in Workers, Shutdown(w) \/ Closed(w) \/ Crash(w) \/ Start(w)
      PROVE  QueueInv'
  BY <1>4, WorkerKeeps, CrashKeeps
<1>5. CASE UNCHANGED vars
  BY <1>5 DEF vars, QueueInv, TypeOK, RunsCounted, JobCounted, RunsTell, InProgress,
              CompletedWasSent, SentBy
<1> QED
  BY <1>1, <1>2, <1>3, <1>4, <1>5 DEF Next

LEMMA QueueInvariant == Spec => []QueueInv
BY InitInv, NextKeeps, PTL DEF Spec

-----------------------------------------------------------------------------
(* Why a job ended and where its runs are: each failure it has counted is of *)
(* another run that threw, and until it stalls the run in progress has the   *)
(* lock.                                                                     *)
Threw(j) == {n \in DOMAIN run[j] : run[j][n].phase = "threw"}

JobAccounted(j) ==
    /\ job[j].state = "none" => Len(run[j]) = 0
    /\ job[j].fails <= Cardinality(Threw(j))
    /\ job[j].state = "failed" => job[j].fails >= Attempts \/ job[j].stalls > MaxStalls
    /\ job[j].stalls = 0 =>
         \A n \in DOMAIN run[j] : InProgress(j, n) => job[j].lock = n

RunsAccounted == \A j \in Jobs : JobAccounted(j)

LEMMA JobTypes ==
    ASSUME QueueInv, NEW j \in Jobs
    PROVE  /\ job[j] \in Job /\ job[j].fails \in Nat /\ job[j].stalls \in Nat
           /\ run[j] \in Seq(Run) /\ Len(run[j]) \in Nat
           /\ DOMAIN run[j] = 1..Len(run[j])
           /\ job[j].lock # 0 <=> job[j].state = "active"
BY QueueAssumption DEF QueueInv, TypeOK, Job, RunsCounted, JobCounted

LEMMA RunsFinite ==
    ASSUME QueueInv, NEW j \in Jobs, NEW S \in SUBSET DOMAIN run[j]
    PROVE  /\ IsFiniteSet(S) /\ Cardinality(S) \in Nat
           /\ Cardinality(S) <= Len(run[j])
<1>1. DOMAIN run[j] = 1..Len(run[j]) /\ Len(run[j]) \in Nat
  BY JobTypes
<1>2. IsFiniteSet(1..Len(run[j])) /\ Cardinality(1..Len(run[j])) = Len(run[j])
  BY <1>1, FS_Interval
<1> QED
  BY <1>1, <1>2, FS_Subset, FS_CardinalityType

LEMMA InitAccounted == Init => RunsAccounted
<1> SUFFICES ASSUME Init, NEW j \in Jobs PROVE JobAccounted(j)
  BY DEF RunsAccounted
<1>1. run[j] = <<>> /\ job[j] = [state |-> "none", fails |-> 0, stalls |-> 0, lock |-> 0]
  BY DEF Init
<1>2. Threw(j) = {}
  BY <1>1 DEF Threw
<1>3. Cardinality(Threw(j)) = 0
  BY <1>2, FS_EmptySet
<1> QED
  BY <1>1, <1>3 DEF JobAccounted

\* A job whose runs stay as they are, and whose counters do not move back.
LEMMA StillAccounted ==
    ASSUME QueueInv, RunsAccounted, NEW j \in Jobs, run'[j] = run[j],
           job'[j].fails = job[j].fails,
           \/ job'[j].stalls = job[j].stalls /\ job'[j].lock = job[j].lock
           \/ job'[j].stalls = job[j].stalls + 1,
           job'[j].state # "none" \/ job'[j].state = job[j].state,
           job'[j].state = "failed" =>
             job[j].state = "failed" \/ job'[j].stalls > MaxStalls
    PROVE  JobAccounted(j)'
<1>1. Threw(j)' = Threw(j)
  BY DEF Threw
<1>2. job[j].stalls \in Nat /\ JobAccounted(j)
  BY JobTypes DEF RunsAccounted
<1>3. job'[j].stalls = 0 => job[j].stalls = 0 /\ job'[j].lock = job[j].lock
  BY <1>2
<1>4. job'[j].state = "failed" => job'[j].fails >= Attempts \/ job'[j].stalls > MaxStalls
  BY <1>2, QueueAssumption DEF JobAccounted
<1> QED
  BY <1>1, <1>2, <1>3, <1>4 DEF JobAccounted, InProgress

LEMMA JobStepAccounted ==
    ASSUME QueueInv, RunsAccounted, NEW j \in Jobs, Add(j) \/ Retry(j) \/ Stall(j)
    PROVE  RunsAccounted'
<1>1. run' = run /\ job \in [Jobs -> Job]
  BY DEF Add, Retry, Stall, QueueInv, TypeOK
<1>2. ASSUME NEW i \in Jobs, i # j PROVE job'[i] = job[i]
  BY <1>1, <1>2 DEF Add, Retry, Stall
<1>3. job[j].stalls \in Nat
  BY JobTypes
<1>4. /\ job'[j].fails = job[j].fails
      /\ \/ job'[j].stalls = job[j].stalls /\ job'[j].lock = job[j].lock
         \/ job'[j].stalls = job[j].stalls + 1
      /\ job'[j].state # "none"
      /\ job'[j].state = "failed" => job'[j].stalls > MaxStalls
  BY <1>1, <1>3, QueueAssumption DEF Add, Retry, Stall, Job
<1>5. JobAccounted(j)'
  BY <1>1, <1>4, StillAccounted
<1>6. ASSUME NEW i \in Jobs, i # j PROVE JobAccounted(i)'
  BY <1>1, <1>2, <1>6, StillAccounted
<1> QED
  BY <1>5, <1>6 DEF RunsAccounted

LEMMA TakeAccounted ==
    ASSUME QueueInv, RunsAccounted, NEW w \in Workers, NEW j \in Jobs, Take(w, j)
    PROVE  RunsAccounted'
<1>1. /\ DOMAIN run'[j] = DOMAIN run[j] \cup {Len(run[j]) + 1}
      /\ \A n \in DOMAIN run[j] : run'[j][n] = run[j][n]
      /\ run'[j][Len(run[j]) + 1] = NewRun(w)
      /\ \A i \in Jobs : i # j => run'[i] = run[i]
  BY TakeEffect
<1>2. /\ job'[j].fails = job[j].fails /\ job'[j].stalls = job[j].stalls
      /\ job'[j].state = "active" /\ job'[j].lock = Len(run[j]) + 1
      /\ \A i \in Jobs : i # j => job'[i] = job[i]
  BY DEF Take, QueueInv, TypeOK, Job
<1>3. Threw(j)' = Threw(j)
  BY <1>1 DEF Threw, NewRun
<1>4. job[j].lock = 0 /\ DOMAIN run[j] = 1..Len(run[j]) /\ Len(run[j]) \in Nat
  BY JobTypes DEF Take
<1>5. ASSUME job[j].stalls = 0, NEW n \in DOMAIN run'[j], InProgress(j, n)'
      PROVE  job'[j].lock = n
  <2>1. CASE n = Len(run[j]) + 1
    BY <1>2, <2>1
  <2>2. CASE n \in DOMAIN run[j]
    <3>1. InProgress(j, n)
      BY <1>1, <1>5, <2>2 DEF InProgress
    <3>2. job[j].lock = n
      BY <1>5, <2>2, <3>1 DEF RunsAccounted, JobAccounted
    <3> QED
      BY <1>4, <2>2, <3>2
  <2> QED
    BY <1>1, <2>1, <2>2
<1>6. JobAccounted(j)'
  BY <1>2, <1>3, <1>5 DEF RunsAccounted, JobAccounted
<1>7. ASSUME NEW i \in Jobs, i # j PROVE JobAccounted(i)'
  BY <1>1, <1>2, <1>7, StillAccounted
<1> QED
  BY <1>6, <1>7 DEF RunsAccounted

LEMMA SendMailAccounted ==
    ASSUME QueueInv, RunsAccounted, NEW j \in Jobs, NEW n \in DOMAIN run[j], SendMail(j, n)
    PROVE  RunsAccounted'
<1> SUFFICES ASSUME NEW i \in Jobs PROVE JobAccounted(i)'
  BY DEF RunsAccounted
<1>1. DOMAIN run'[i] = DOMAIN run[i] /\ Len(run'[i]) = Len(run[i]) /\ job' = job
  BY SendMailEffect DEF OthersSame
<1>2. \A m \in DOMAIN run[i] :
        /\ run'[i][m].phase = "threw" <=> run[i][m].phase = "threw"
        /\ InProgress(i, m)' => InProgress(i, m)
  BY SendMailEffect DEF OthersSame, InProgress
<1>3. Threw(i)' = Threw(i)
  BY <1>1, <1>2 DEF Threw
<1> QED
  BY <1>1, <1>2, <1>3 DEF RunsAccounted, JobAccounted

LEMMA ReportAccounted ==
    ASSUME QueueInv, RunsAccounted, NEW j \in Jobs, NEW n \in DOMAIN run[j], Report(j, n)
    PROVE  RunsAccounted'
<1>1. /\ n \in Nat \ {0} /\ OthersSame(j, n)
      /\ run[j][n].phase \in {"ok", "error"}
      /\ run[j][n].phase = "ok" => run'[j][n].phase = "succeeded"
      /\ run[j][n].phase = "error" => run'[j][n].phase = "threw"
  BY ReportEffect
<1>2. ASSUME NEW i \in Jobs, i # j PROVE JobAccounted(i)'
  <2>1. job'[i] = job[i]
    BY <1>2 DEF Report, QueueInv, TypeOK
  <2>2. DOMAIN run'[i] = DOMAIN run[i] /\ Len(run'[i]) = Len(run[i])
        /\ \A m \in DOMAIN run[i] : run'[i][m] = run[i][m]
    BY <1>1, <1>2 DEF OthersSame
  <2>3. Threw(i)' = Threw(i)
    BY <2>2 DEF Threw
  <2> QED
    BY <2>1, <2>2, <2>3 DEF RunsAccounted, JobAccounted, InProgress
<1>3. /\ DOMAIN run'[j] = DOMAIN run[j] /\ Len(run'[j]) = Len(run[j])
      /\ \A m \in DOMAIN run[j] : m # n => run'[j][m] = run[j][m]
  BY <1>1 DEF OthersSame
<1>4. IsFiniteSet(Threw(j)) /\ Cardinality(Threw(j)) \in Nat
  BY RunsFinite DEF Threw
<1>5. run[j][n].phase = "ok" => Threw(j)' = Threw(j)
  BY <1>1, <1>3 DEF Threw
<1>6. run[j][n].phase = "error" => Cardinality(Threw(j)') = Cardinality(Threw(j)) + 1
  <2>1. run[j][n].phase = "error" =>
          Threw(j)' = Threw(j) \cup {n} /\ n \notin Threw(j)
    BY <1>1, <1>3 DEF Threw
  <2> QED
    BY <1>4, <2>1, FS_AddElement
<1>7. ~InProgress(j, n)' /\ \A m \in DOMAIN run[j] : InProgress(j, m)' => InProgress(j, m)
  BY <1>1, <1>3 DEF InProgress
<1>8. JobAccounted(j)'
  <2>1. JobAccounted(j) /\ job[j] \in Job /\ job[j].fails \in Nat /\ job[j].stalls \in Nat
    BY JobTypes DEF RunsAccounted
  <2>2. CASE job[j].lock # n
    <3>1. job' = job
      BY <2>2 DEF Report
    <3>2. Cardinality(Threw(j)') >= Cardinality(Threw(j))
      BY <1>1, <1>4, <1>5, <1>6
    <3>3. job[j].fails <= Cardinality(Threw(j)')
      BY <1>1, <1>4, <1>5, <1>6, <2>1 DEF JobAccounted
    <3> QED
      BY <1>3, <1>7, <2>1, <3>1, <3>3 DEF JobAccounted
  <2>3. CASE job[j].lock = n
    <3>1. job'[j] = Settled(j, run[j][n].phase)
      BY <2>3 DEF Report, QueueInv, TypeOK
    <3>2. job[j].stalls = 0 => \A m \in DOMAIN run[j] : ~InProgress(j, m)'
      BY <1>7, <2>1, <2>3 DEF JobAccounted
    <3>3. CASE run[j][n].phase = "ok"
      <4>1. job'[j].state = "completed" /\ job'[j].fails = job[j].fails
            /\ job'[j].stalls = job[j].stalls
        BY <2>1, <3>1, <3>3 DEF Settled, Job
      <4> QED
        BY <1>3, <1>5, <2>1, <3>2, <3>3, <4>1 DEF JobAccounted
    <3>4. CASE run[j][n].phase = "error"
      <4>1. /\ job'[j].state \in {"delayed", "failed"}
            /\ job'[j].fails = job[j].fails + 1 /\ job'[j].stalls = job[j].stalls
            /\ job'[j].state = "failed" => job'[j].fails >= Attempts
        BY <2>1, <3>1, <3>4, QueueAssumption DEF Settled, Job
      <4>2. job'[j].fails <= Cardinality(Threw(j)')
        BY <1>4, <1>6, <2>1, <3>4, <4>1 DEF JobAccounted
      <4> QED
        BY <1>3, <3>2, <4>1, <4>2 DEF JobAccounted
    <3> QED
      BY <1>1, <3>3, <3>4
  <2> QED
    BY <2>2, <2>3
<1> QED
  BY <1>2, <1>8 DEF RunsAccounted

LEMMA WorkerAccounted ==
    ASSUME QueueInv, RunsAccounted, NEW w \in Workers,
           Shutdown(w) \/ Closed(w) \/ Crash(w) \/ Start(w)
    PROVE  RunsAccounted'
<1> SUFFICES ASSUME NEW j \in Jobs PROVE JobAccounted(j)'
  BY DEF RunsAccounted
<1>1. job' = job
  BY DEF Shutdown, Closed, Crash, Start
<1>2. /\ DOMAIN run'[j] = DOMAIN run[j] /\ Len(run'[j]) = Len(run[j])
      /\ \A n \in DOMAIN run[j] :
           /\ run'[j][n].phase = "threw" <=> run[j][n].phase = "threw"
           /\ InProgress(j, n)' => InProgress(j, n)
  <2>1. CASE Crash(w)
    <3>1. \A n \in DOMAIN run[j] :
            <<j, n>> \in Processing(w) => run[j][n].phase # "threw"
      BY DEF Processing, InProgress
    <3> QED
      BY <2>1, <3>1, CrashEffect DEF InProgress
  <2>2. CASE Shutdown(w) \/ Closed(w) \/ Start(w)
    BY <2>2 DEF Shutdown, Closed, Start, InProgress
  <2> QED
    BY <2>1, <2>2
<1>3. Threw(j)' = Threw(j)
  BY <1>2 DEF Threw
<1> QED
  BY <1>1, <1>2, <1>3 DEF RunsAccounted, JobAccounted

LEMMA NextAccounted == QueueInv /\ RunsAccounted /\ [Next]_vars => RunsAccounted'
<1> SUFFICES ASSUME QueueInv, RunsAccounted, [Next]_vars PROVE RunsAccounted'
  OBVIOUS
<1>1. ASSUME NEW j \in Jobs, Add(j) \/ Retry(j) \/ Stall(j) PROVE RunsAccounted'
  BY <1>1, JobStepAccounted
<1>2. ASSUME NEW w \in Workers, NEW j \in Jobs, Take(w, j) PROVE RunsAccounted'
  BY <1>2, TakeAccounted
<1>3. ASSUME NEW j \in Jobs, NEW n \in DOMAIN run[j], Step(j, n) PROVE RunsAccounted'
  BY <1>3, SendMailAccounted, ReportAccounted DEF Step
<1>4. ASSUME NEW w \in Workers, Shutdown(w) \/ Closed(w) \/ Crash(w) \/ Start(w)
      PROVE  RunsAccounted'
  BY <1>4, WorkerAccounted
<1>5. CASE UNCHANGED vars
  BY <1>5 DEF vars, RunsAccounted, JobAccounted, Threw, InProgress
<1> QED
  BY <1>1, <1>2, <1>3, <1>4, <1>5 DEF Next

LEMMA AccountedInvariant == Spec => [](QueueInv /\ RunsAccounted)
<1>1. Init => QueueInv /\ RunsAccounted
  BY InitInv, InitAccounted
<1>2. QueueInv /\ RunsAccounted /\ [Next]_vars => (QueueInv /\ RunsAccounted)'
  BY NextKeeps, NextAccounted
<1> QED
  BY <1>1, <1>2, PTL DEF Spec

-----------------------------------------------------------------------------
(* The queue, its runs and its workers keep their shapes.                    *)
THEOREM TypeCorrect == Spec => []TypeOK
<1>1. QueueInv => TypeOK
  BY DEF QueueInv
<1> QED
  BY <1>1, QueueInvariant, PTL

(* However attempts fail, workers die and locks are lost, a mail is tried at *)
(* most attempts + maxStalledCount times.                                    *)
THEOREM RunsAreBounded == Spec => []RunsBounded
<1>1. QueueInv => RunsBounded
  <2> SUFFICES ASSUME QueueInv, NEW j \in Jobs PROVE Len(run[j]) <= MaxRuns
    BY DEF RunsBounded
  <2>1. job[j].fails \in Nat /\ job[j].stalls \in Nat
    BY QueueAssumption DEF QueueInv, TypeOK, Job
  <2>2. CASE job[j].state = "failed"
    BY <2>1, <2>2, QueueAssumption DEF QueueInv, RunsCounted, JobCounted, MaxRuns
  <2>3. CASE job[j].state # "failed"
    BY <2>1, <2>3, QueueAssumption DEF QueueInv, RunsCounted, JobCounted, MaxRuns
  <2> QED
    BY <2>2, <2>3
<1> QED
  BY <1>1, QueueInvariant, PTL

(* A job is completed only when a copy of its mail has left.                 *)
THEOREM CompletedMailsLeft == Spec => []CompletedWasSent
<1>1. QueueInv => CompletedWasSent
  BY DEF QueueInv
<1> QED
  BY <1>1, QueueInvariant, PTL

(* No worker that is told to stop leaves a mail in the middle.               *)
THEOREM SignalsCutNothing == Spec => []SignalCutsNothing
<1>1. QueueInv => SignalCutsNothing
  BY DEF QueueInv, RunsTell, SignalCutsNothing, Processing
<1> QED
  BY <1>1, QueueInvariant, PTL

(* A mail is given up only after all its attempts failed, or its workers     *)
(* died or lost their lock once too often.                                   *)
THEOREM GivenUpWithReason == Spec => []GivenUpForAReason
<1>1. QueueInv /\ RunsAccounted => GivenUpForAReason
  <2> SUFFICES ASSUME QueueInv, RunsAccounted, NEW j \in Jobs, job[j].state = "failed"
               PROVE  Cardinality(Threw(j)) >= Attempts \/ job[j].stalls > MaxStalls
    BY DEF GivenUpForAReason, Threw
  <2>1. job[j].fails \in Nat /\ Cardinality(Threw(j)) \in Nat
    BY JobTypes, RunsFinite DEF Threw
  <2> QED
    BY <2>1, QueueAssumption DEF RunsAccounted, JobAccounted
<1> QED
  BY <1>1, AccountedInvariant, PTL

(* A second copy leaves only after a failure or a stall, and until a job has *)
(* stalled at most one of its runs is in progress.                           *)
THEOREM DuplicatesHaveCauses == Spec => []DuplicatesExplained
<1> SUFFICES QueueInv /\ RunsAccounted => DuplicatesExplained
  BY AccountedInvariant, PTL
<1> SUFFICES ASSUME QueueInv, RunsAccounted, NEW j \in Jobs
             PROVE  /\ Cardinality(SentBy(j)) > 1 => job[j].fails + job[j].stalls > 0
                    /\ job[j].stalls = 0 =>
                         Cardinality({n \in DOMAIN run[j] : InProgress(j, n)}) <= 1
  BY DEF DuplicatesExplained
<1>1. /\ job[j].fails \in Nat /\ job[j].stalls \in Nat /\ Len(run[j]) \in Nat
      /\ Cardinality(SentBy(j)) \in Nat /\ Cardinality(SentBy(j)) <= Len(run[j])
  BY JobTypes, RunsFinite DEF SentBy
<1>2. Len(run[j]) <= job[j].fails + job[j].stalls + 1
  BY <1>1 DEF QueueInv, RunsCounted, JobCounted
<1>3. ASSUME job[j].stalls = 0
      PROVE  Cardinality({n \in DOMAIN run[j] : InProgress(j, n)}) <= 1
  <2> DEFINE P == {n \in DOMAIN run[j] : InProgress(j, n)}
  <2>1. P \in SUBSET {job[j].lock}
    BY <1>3 DEF RunsAccounted, JobAccounted
  <2>2. IsFiniteSet({job[j].lock}) /\ Cardinality({job[j].lock}) = 1
    BY FS_Singleton
  <2> HIDE DEF P
  <2>3. Cardinality(P) <= 1
    BY <2>1, <2>2, FS_Subset
  <2> QED
    BY <2>3 DEF P
<1> QED
  BY <1>1, <1>2, <1>3

-----------------------------------------------------------------------------
(* The queue implements MailDelivery, but for what must happen in the end.   *)

LEMMA RunsAreFew ==
    ASSUME QueueInv, NEW j \in Jobs
    PROVE  Len(run[j]) <= MaxRuns
<1>1. job[j].fails \in Nat /\ job[j].stalls \in Nat
  BY JobTypes
<1> QED
  BY <1>1, QueueAssumption, SMTT(30) DEF QueueInv, RunsCounted, JobCounted, MaxRuns

LEMMA QuietStep ==
    ASSUME \A j \in Jobs : SentBy(j)' = SentBy(j) /\ Status(j)' = Status(j)
    PROVE  UNCHANGED Delivery!vars
BY DEF Delivery!vars

LEMMA AcceptStep ==
    ASSUME NEW j \in Jobs, Status(j) = "unknown", Status(j)' = "accepted",
           \A i \in Jobs : SentBy(i)' = SentBy(i),
           \A i \in Jobs : i # j => Status(i)' = Status(i)
    PROVE  Delivery!Next
BY DEF Delivery!Next, Delivery!Accept

LEMMA SettleStep ==
    ASSUME NEW j \in Jobs, Status(j) = "accepted",
           \/ Status(j)' = "givenUp"
           \/ Status(j)' = "delivered" /\ Cardinality(SentBy(j)) > 0,
           \A i \in Jobs : SentBy(i)' = SentBy(i),
           \A i \in Jobs : i # j => Status(i)' = Status(i)
    PROVE  Delivery!Next
BY DEF Delivery!Next, Delivery!Settle

LEMMA SendStep ==
    ASSUME NEW j \in Jobs, Status(j) # "unknown", Cardinality(SentBy(j)) < MaxRuns,
           Cardinality(SentBy(j)') = Cardinality(SentBy(j)) + 1,
           \A i \in Jobs : Status(i)' = Status(i),
           \A i \in Jobs : i # j => SentBy(i)' = SentBy(i)
    PROVE  Delivery!Next
BY DEF Delivery!Next, Delivery!Send

LEMMA JobStepDelivers ==
    ASSUME QueueInv, NEW j \in Jobs, Add(j) \/ Retry(j) \/ Stall(j)
    PROVE  [Delivery!Next]_(Delivery!vars)
<1>1. run' = run /\ job \in [Jobs -> Job]
  BY DEF Add, Retry, Stall, QueueInv, TypeOK
<1>2. \A i \in Jobs : SentBy(i)' = SentBy(i)
  BY <1>1 DEF SentBy
<1>3. \A i \in Jobs : i # j => Status(i)' = Status(i)
  BY <1>1 DEF Add, Retry, Stall, Status
<1>4. CASE Add(j)
  <2>1. Status(j) = "unknown" /\ Status(j)' = "accepted"
    BY <1>1, <1>4 DEF Add, Status
  <2> QED
    BY <1>2, <1>3, <2>1, AcceptStep
<1>5. CASE Retry(j)
  <2>1. Status(j)' = Status(j)
    BY <1>1, <1>5 DEF Retry, Status
  <2> QED
    BY <1>2, <1>3, <2>1, QuietStep
<1>6. CASE Stall(j)
  <2>1. Status(j) = "accepted"
    BY <1>6 DEF Stall, Status
  <2>2. job'[j].state \in {"waiting", "failed"}
    BY <1>1, <1>6 DEF Stall, Job
  <2>3. Status(j)' \in {"accepted", "givenUp"}
    BY <2>2 DEF Status
  <2> QED
    BY <1>2, <1>3, <2>1, <2>3, QuietStep, SettleStep
<1> QED
  BY <1>4, <1>5, <1>6

LEMMA TakeDelivers ==
    ASSUME QueueInv, NEW w \in Workers, NEW j \in Jobs, Take(w, j)
    PROVE  [Delivery!Next]_(Delivery!vars)
<1>1. ASSUME NEW i \in Jobs PROVE SentBy(i)' = SentBy(i)
  <2>1. CASE i # j
    BY <2>1, TakeEffect DEF SentBy
  <2>2. /\ DOMAIN run'[j] = DOMAIN run[j] \cup {Len(run[j]) + 1}
        /\ \A n \in DOMAIN run[j] : run'[j][n] = run[j][n]
        /\ run'[j][Len(run[j]) + 1] = NewRun(w)
    BY TakeEffect
  <2>3. SentBy(j)' = SentBy(j)
    BY <2>2 DEF SentBy, NewRun
  <2> QED
    BY <2>1, <2>3
<1>2. ASSUME NEW i \in Jobs PROVE Status(i)' = Status(i)
  BY DEF Take, Status, QueueInv, TypeOK, Job
<1> QED
  BY <1>1, <1>2, QuietStep

LEMMA SendMailDelivers ==
    ASSUME QueueInv, RunsAccounted, NEW j \in Jobs, NEW n \in DOMAIN run[j], SendMail(j, n)
    PROVE  [Delivery!Next]_(Delivery!vars)
<1>1. /\ OthersSame(j, n) /\ run[j][n].phase = "sending"
      /\ run'[j][n].sent \in BOOLEAN /\ job' = job
  BY SendMailEffect
<1>2. \A i \in Jobs : Status(i)' = Status(i)
  BY <1>1 DEF Status
<1>3. \A i \in Jobs : i # j => SentBy(i)' = SentBy(i)
  BY <1>1 DEF OthersSame, SentBy
<1>4. n \notin SentBy(j)
  BY <1>1 DEF QueueInv, RunsTell, SentBy
<1>5. CASE run'[j][n].sent
  <2>1. SentBy(j)' = SentBy(j) \cup {n}
    BY <1>1, <1>5 DEF OthersSame, SentBy
  <2>2. IsFiniteSet(SentBy(j)) /\ Cardinality(SentBy(j)) \in Nat
    BY RunsFinite DEF SentBy
  <2>3. Cardinality(SentBy(j) \cup {n}) = Cardinality(SentBy(j)) + 1
    BY <1>4, <2>2, FS_AddElement
  <2>4. Cardinality(SentBy(j) \cup {n}) <= Len(run[j])
    BY RunsFinite DEF SentBy
  <2>5. Len(run[j]) <= MaxRuns /\ Len(run[j]) \in Nat /\ MaxRuns \in Nat
    BY RunsAreFew, JobTypes, QueueAssumption DEF MaxRuns
  <2>6. Len(run[j]) # 0
    BY JobTypes
  <2>7. Status(j) # "unknown"
    BY <2>6 DEF RunsAccounted, JobAccounted, Status
  <2>8. Cardinality(SentBy(j)) < MaxRuns
    BY <2>2, <2>3, <2>4, <2>5
  <2> QED
    BY <1>2, <1>3, <2>1, <2>3, <2>7, <2>8, SendStep
<1>6. CASE ~run'[j][n].sent
  <2>1. SentBy(j)' = SentBy(j)
    BY <1>1, <1>4, <1>6 DEF OthersSame, SentBy
  <2> QED
    BY <1>2, <1>3, <2>1, QuietStep
<1> QED
  BY <1>1, <1>5, <1>6

LEMMA ReportDelivers ==
    ASSUME QueueInv, NEW j \in Jobs, NEW n \in DOMAIN run[j], Report(j, n)
    PROVE  [Delivery!Next]_(Delivery!vars)
<1>1. /\ n \in Nat \ {0} /\ OthersSame(j, n) /\ run[j][n].phase \in {"ok", "error"}
      /\ run'[j][n].sent = run[j][n].sent
  BY ReportEffect
<1>2. \A i \in Jobs : SentBy(i)' = SentBy(i)
  BY <1>1 DEF OthersSame, SentBy
<1>3. CASE job[j].lock # n
  <2>1. \A i \in Jobs : Status(i)' = Status(i)
    BY <1>3 DEF Report, Status
  <2> QED
    BY <1>2, <2>1, QuietStep
<1>4. CASE job[j].lock = n
  <2>1. job[j] \in Job /\ job[j].state = "active"
    BY <1>1, <1>4, JobTypes
  <2>2. /\ job'[j] = Settled(j, run[j][n].phase)
        /\ \A i \in Jobs : i # j => job'[i] = job[i]
    BY <1>4 DEF Report, QueueInv, TypeOK
  <2>3. Status(j) = "accepted" /\ \A i \in Jobs : i # j => Status(i)' = Status(i)
    BY <2>1, <2>2 DEF Status
  <2>4. IF run[j][n].phase = "ok" THEN job'[j].state = "completed"
        ELSE job'[j].state \in {"delayed", "failed"}
    BY <2>1, <2>2 DEF Settled, Job
  <2>5. run[j][n].phase = "ok" => Cardinality(SentBy(j)) > 0
    <3>1. run[j][n].phase = "ok" => n \in SentBy(j)
      BY DEF QueueInv, RunsTell, SentBy
    <3>2. IsFiniteSet(SentBy(j)) /\ Cardinality(SentBy(j)) \in Nat
      BY RunsFinite DEF SentBy
    <3>3. Cardinality(SentBy(j)) = 0 => SentBy(j) = {}
      BY <3>2, FS_EmptySet
    <3> QED
      BY <3>1, <3>2, <3>3
  <2>6. \/ Status(j)' = "delivered" /\ run[j][n].phase = "ok"
        \/ Status(j)' \in {"accepted", "givenUp"}
    BY <2>4 DEF Status
  <2>7. CASE Status(j)' = "accepted"
    BY <1>2, <2>3, <2>7, QuietStep
  <2>8. CASE Status(j)' \in {"delivered", "givenUp"}
    BY <1>2, <2>3, <2>5, <2>6, <2>8, SettleStep
  <2> QED
    BY <2>6, <2>7, <2>8
<1> QED
  BY <1>3, <1>4

LEMMA WorkerDelivers ==
    ASSUME QueueInv, NEW w \in Workers,
           Shutdown(w) \/ Closed(w) \/ Crash(w) \/ Start(w)
    PROVE  [Delivery!Next]_(Delivery!vars)
<1>1. \A j \in Jobs : Status(j)' = Status(j)
  BY DEF Shutdown, Closed, Crash, Start, Status
<1>2. \A j \in Jobs : SentBy(j)' = SentBy(j)
  <2>1. CASE Crash(w)
    BY <2>1, CrashEffect DEF SentBy
  <2>2. CASE Shutdown(w) \/ Closed(w) \/ Start(w)
    BY <2>2 DEF Shutdown, Closed, Start, SentBy
  <2> QED
    BY <2>1, <2>2
<1> QED
  BY <1>1, <1>2, QuietStep

LEMMA NextDelivers ==
    QueueInv /\ RunsAccounted /\ [Next]_vars => [Delivery!Next]_(Delivery!vars)
<1> SUFFICES ASSUME QueueInv, RunsAccounted, [Next]_vars
             PROVE  [Delivery!Next]_(Delivery!vars)
  OBVIOUS
<1>1. CASE \E j \in Jobs : \/ Add(j) \/ Retry(j) \/ Stall(j)
                           \/ \E w \in Workers : Take(w, j)
                           \/ \E n \in DOMAIN run[j] : Step(j, n)
  BY <1>1, JobStepDelivers, TakeDelivers, SendMailDelivers, ReportDelivers DEF Step
<1>2. CASE \E w \in Workers : Shutdown(w) \/ Closed(w) \/ Crash(w) \/ Start(w)
  BY <1>2, WorkerDelivers
<1>3. CASE UNCHANGED vars
  <2>1. \A j \in Jobs : SentBy(j)' = SentBy(j) /\ Status(j)' = Status(j)
    BY <1>3 DEF vars, SentBy, Status
  <2> QED
    BY <2>1, QuietStep
<1> QED
  BY <1>1, <1>2, <1>3 DEF Next

(* Every mail is settled at most once, as delivered only when a copy has     *)
(* left, and no more than MaxRuns copies leave: the queue does what who      *)
(* queues a mail may count on.                                               *)
THEOREM QueueImplementsDelivery == Spec => Delivery!SafeSpec
<1>1. Init => Delivery!Init
  <2> SUFFICES ASSUME Init, NEW j \in Jobs
               PROVE  Status(j) = "unknown" /\ Cardinality(SentBy(j)) = 0
    BY DEF Delivery!Init
  <2>1. job[j].state = "none" /\ run[j] = <<>>
    BY DEF Init
  <2>2. SentBy(j) = {}
    BY <2>1 DEF SentBy
  <2> QED
    BY <2>1, <2>2, FS_EmptySet DEF Status
<1> QED
  BY <1>1, NextDelivers, AccountedInvariant, PTL DEF Spec, Delivery!SafeSpec
=============================================================================
