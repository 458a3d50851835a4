--------------------------- MODULE DispatchQueue ---------------------------
(***************************************************************************)
(* The dispatch queue of packages/dispatch and packages/persistence and    *)
(* the workers that poll it (packages/sdk, apps/worker).                   *)
(*                                                                         *)
(* A worker claims a job in two statements of one READ COMMITTED           *)
(* transaction, which other workers may interleave: it selects the oldest  *)
(* available job and then updates it if it is still queued.  (The          *)
(* in-memory and SQLite queues do both at once: a special case.)  Then it  *)
(* works on the job and completes it or, when anything threw, fails it.    *)
(*                                                                         *)
(* A job's stamp is the clock its caller read before it was inserted, and  *)
(* a worker claims by its own clock: stamps need not follow the order of   *)
(* the inserts, and one worker may not see what another one can.           *)
(***************************************************************************)
EXTENDS Naturals, Sequences

CONSTANTS Workers,    \* worker processes
          MaxJobs,    \* bound on the number of jobs enqueued
          MaxStamp,   \* bound on the clocks
          MaxStops    \* bound on worker crashes and queue operations that throw

ASSUME QueueAssumption == MaxJobs \in Nat /\ MaxStamp \in Nat /\ MaxStops \in Nat

VARIABLES jobs,       \* the rows of runroot_dispatch_jobs, in insertion order
          worker,     \* worker[w] : where its polling loop is, and its job
          stops       \* crashes and operations that threw so far

vars == <<jobs, worker, stops>>

Stamps    == 1 .. MaxStamp
JobKind   == {"start_run", "resume_run"}
JobStatus == {"queued", "claimed", "completed", "failed"}
Settled   == {"completed", "failed"}

\* attempts counts the claims of the job.
JobType == [kind : JobKind, stamp : Stamps, status : JobStatus,
            attempts : 0 .. 1]

\* The places where a worker holds a job it claimed.
HoldingPc == {"working", "completing", "failing"}

At(pc, job) == [pc |-> pc, job |-> job]
Polling     == At("polling", 0)
Stopped     == At("stopped", 0)

-----------------------------------------------------------------------------
Init == /\ jobs = <<>>
        /\ worker = [w \in Workers |-> Polling]
        /\ stops = 0

enqueue(kind, stamp) ==
  /\ Len(jobs) < MaxJobs
  /\ jobs' = Append(jobs, [kind |-> kind, stamp |-> stamp,
                           status |-> "queued", attempts |-> 0])
  /\ UNCHANGED <<worker, stops>>

\* Mutant: the SELECT returns claimed jobs too: an abandoned job, which no
\* UPDATE can claim, is tried for ever and blocks the queue.
Available_Unsettled(j, now) ==
  jobs[j].status \notin Settled /\ jobs[j].stamp <= now

\* WHERE status = 'queued' AND available_at <= claimedAt
Available(j, now) == jobs[j].status = "queued" /\ jobs[j].stamp <= now

\* The SELECT of claimNext: the oldest available job, ties broken by the
\* random id.  Without one claimNext returns undefined and the loop waits.
SelectCandidate(w) ==
  /\ worker[w].pc = "polling"
  /\ \E now \in Stamps, j \in DOMAIN jobs :
       /\ Available(j, now)
       /\ \A k \in DOMAIN jobs :
            Available(k, now) => jobs[j].stamp <= jobs[k].stamp
       /\ worker' = [worker EXCEPT ![w] = At("claiming", j)]
  /\ UNCHANGED <<jobs, stops>>

\* Mutant: the UPDATE does not ask whether the job is still queued.
StillQueued_Unchecked(j) == TRUE

StillQueued(j) == jobs[j].status = "queued"

\* The conditional UPDATE of claimNext.
StoreClaim(w) ==
  LET j == worker[w].job IN
  /\ worker[w].pc = "claiming"
  /\ StillQueued(j)
  /\ jobs' = [jobs EXCEPT ![j].status = "claimed", ![j].attempts = @ + 1]

\* No row affected means no job.
ClaimCandidate(w) ==
  /\ \/ /\ StoreClaim(w)
        /\ worker' = [worker EXCEPT ![w].pc = "working"]
     \/ /\ worker[w].pc = "claiming"
        /\ ~StillQueued(worker[w].job)
        /\ worker' = [worker EXCEPT ![w] = Polling]
        /\ UNCHANGED jobs
  /\ UNCHANGED stops

\* The job's work returned, or threw.
WorkEnds(w, pc) ==
  /\ worker[w].pc = "working"
  /\ pc \in {"completing", "failing"}
  /\ worker' = [worker EXCEPT ![w].pc = pc]
  /\ UNCHANGED <<jobs, stops>>

\* updateJobStatus: complete and fail write whatever status the row has.
updateJobStatus(j, status) == jobs' = [jobs EXCEPT ![j].status = status]

StoreCompleted(w) == /\ worker[w].pc = "completing"
                     /\ updateJobStatus(worker[w].job, "completed")

StoreFailed(w) == /\ worker[w].pc = "failing"
                  /\ updateJobStatus(worker[w].job, "failed")

complete(w) == /\ StoreCompleted(w)
               /\ worker' = [worker EXCEPT ![w] = Polling]
               /\ UNCHANGED stops

fail(w) == /\ StoreFailed(w)
           /\ worker' = [worker EXCEPT ![w] = Polling]
           /\ UNCHANGED stops

\* A complete that throws is caught and fails the job; a claim or a fail that
\* throws leaves processNextJob and ends the worker's loop.
Throws(w) ==
  /\ worker[w].pc \in {"polling", "claiming", "completing", "failing"}
  /\ stops < MaxStops
  /\ stops' = stops + 1
  /\ worker' = [worker EXCEPT ![w] = IF @.pc = "completing"
                                     THEN At("failing", @.job) ELSE Stopped]

\* The transaction was rolled back.
QueueRejects(w) == Throws(w) /\ UNCHANGED jobs

\* The COMMIT was done and its answer lost: withPostgresTransaction throws as
\* well.  (An enqueue that throws after its COMMIT leaves the row of one that
\* returns.)
QueueAnswerLost(w) ==
  /\ Throws(w)
  /\ StoreClaim(w) \/ StoreCompleted(w) \/ StoreFailed(w)

\* The process dies, or leaves its loop on a signal; its job stays claimed.
Stop(w) ==
  /\ worker[w].pc # "stopped"
  /\ stops < MaxStops
  /\ stops' = stops + 1
  /\ worker' = [worker EXCEPT ![w] = Stopped]
  /\ UNCHANGED jobs

\* A new process polls for queued jobs only.
Start(w) ==
  /\ worker[w].pc = "stopped"
  /\ worker' = [worker EXCEPT ![w] = Polling]
  /\ UNCHANGED <<jobs, stops>>

-----------------------------------------------------------------------------
Work(w) ==
  \/ SelectCandidate(w) \/ ClaimCandidate(w)
  \/ WorkEnds(w, "completing") \/ WorkEnds(w, "failing")
  \/ complete(w) \/ fail(w)

Throw(w) == QueueRejects(w) \/ QueueAnswerLost(w)

Next ==
  \/ \E kind \in JobKind, stamp \in Stamps : enqueue(kind, stamp)
  \/ \E w \in Workers : Work(w) \/ Throw(w) \/ Stop(w) \/ Start(w)

Spec == Init /\ [][Next]_vars

-----------------------------------------------------------------------------
(* Properties *)

\* Every variable has its type; no job is ever claimed twice.
TypeOK ==
  /\ jobs \in Seq(JobType)
  /\ worker \in [Workers -> [pc : {"polling", "claiming", "stopped"} \cup HoldingPc,
                             job : Nat]]
  /\ \A w \in Workers :
       worker[w].pc \in HoldingPc \cup {"claiming"} => worker[w].job \in DOMAIN jobs
  /\ stops \in Nat

\* A job is held by one worker at most: no interleaving of the two statements
\* of claimNext hands a job out twice.  The row of a held job is claimed, or it
\* is completed and its holder, to whom complete threw, is about to fail it.
Holds(w, j) == worker[w].pc \in HoldingPc /\ worker[w].job = j

HeldRow(w, j) == \/ jobs[j].status = "claimed"
                 \/ jobs[j].status = "completed" /\ worker[w].pc = "failing"

ClaimsExclusive ==
  \A w \in Workers, j \in DOMAIN jobs : Holds(w, j) =>
    /\ HeldRow(w, j)
    /\ \A v \in Workers : Holds(v, j) => v = w

\* Complete and fail do not look at the status they overwrite, and yet a
\* settled job changes in one case only: its own holder, to whom a stored
\* complete has thrown, fails it.  A failed job is never touched again.
Refailed(j) == /\ jobs[j].status = "completed"
               /\ \E w \in Workers : worker[w] = At("failing", j)
               /\ jobs' = [jobs EXCEPT ![j].status = "failed"]

SettledIsFinal ==
  [][\A j \in DOMAIN jobs :
       jobs[j].status \in Settled => jobs'[j] = jobs[j] \/ Refailed(j)]_jobs

\* A job is over when it is settled, or claimed by a worker that stopped before
\* it settled it.
Abandoned(j) == /\ jobs[j].status = "claimed"
                /\ \A w \in Workers : ~Holds(w, j)

Over(j) == /\ j \in DOMAIN jobs
           /\ jobs[j].status \in Settled \/ Abandoned(j)
=============================================================================
