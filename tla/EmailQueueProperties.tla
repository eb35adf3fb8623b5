------------------------ MODULE EmailQueueProperties ------------------------
(* What the email queue promises, to who queues a mail and to who operates  *)
(* the workers.                                                             *)
EXTENDS EmailQueue

SentBy(j) == {n \in DOMAIN run[j] : run[j][n].sent}

(* However attempts fail, workers die and locks are lost, a mail is tried    *)
(* at most attempts + maxStalledCount times, so no more copies of it leave   *)
(* (defaultJobOptions, email.queue.ts 12-20).                                *)
RunsBounded == \A j \in Jobs : Len(run[j]) <= MaxRuns

(* A job is completed only when a copy of its mail has left: the processor   *)
(* awaits mailService.send (email.queue.ts 44-46).                           *)
CompletedWasSent == \A j \in Jobs : job[j].state = "completed" => SentBy(j) # {}

(* A mail is given up only after all its attempts failed, or its workers     *)
(* died or lost their lock once too often; never by a worker that shuts      *)
(* down, nor by a late report of a run that lost its lock.                   *)
GivenUpForAReason ==
    \A j \in Jobs : job[j].state = "failed" =>
        \/ Cardinality({n \in DOMAIN run[j] : run[j][n].phase = "threw"}) >= Attempts
        \/ job[j].stalls > MaxStalls

(* A second copy leaves only after a run that did not report its success:    *)
(* it failed as far as the worker could tell, died, or lost its lock.  With  *)
(* no stall at all one run ends before the next begins.                      *)
DuplicatesExplained ==
    \A j \in Jobs :
        /\ Cardinality(SentBy(j)) > 1 => job[j].fails + job[j].stalls > 0
        /\ job[j].stalls = 0 =>
             Cardinality({n \in DOMAIN run[j] : InProgress(j, n)}) <= 1

(* A signal cuts no mail short: the process is there until the runs it began *)
(* are over (worker.ts 20-24).                                               *)
SignalCutsNothing == \A w \in Workers : worker[w] = "down" => Processing(w) = {}

Status(j) ==
    CASE job[j].state = "none"      -> "unknown"
      [] job[j].state = "completed" -> "delivered"
      [] job[j].state = "failed"    -> "givenUp"
      [] OTHER                      -> "accepted"

Delivery == INSTANCE MailDelivery WITH
    Mails <- Jobs, MaxCopies <- MaxRuns,
    status <- [j \in Jobs |-> Status(j)],
    copies <- [j \in Jobs |-> Cardinality(SentBy(j))]

(* The queue implements MailDelivery: settled once, delivered only after a   *)
(* copy left, at most MaxRuns copies, and every mail settled in the end as    *)
(* long as one worker remains.                                               *)
QueueDelivers == Delivery!Spec

(* A worker that is told to stop does: its runs end and it takes no other.   *)
WorkersStop == \A w \in Workers : worker[w] = "closing" ~> worker[w] # "closing"
=============================================================================
