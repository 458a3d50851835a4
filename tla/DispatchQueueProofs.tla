------------------------ MODULE DispatchQueueProofs ------------------------
(***************************************************************************)
(* Proofs about DispatchQueue for every number of workers and jobs.        *)
(***************************************************************************)
EXTENDS DispatchQueue, SequenceTheorems, TLAPS

\* Exclusive claims rest on one more fact: a job that is queued was never
\* claimed, so whoever moves it out of "queued" is the first to hold it.
QueuedIsUnclaimed ==
  \A j \in DOMAIN jobs : jobs[j].status = "queued" => jobs[j].attempts = 0

IInv == TypeOK /\ ClaimsExclusive /\ QueuedIsUnclaimed

-----------------------------------------------------------------------------
\* What the types say of a worker and the job it holds.
LEMMA WorkerFacts ==
  ASSUME IInv, NEW w \in Workers
  PROVE  /\ worker[w].pc \in {"polling", "claiming", "stopped"} \cup HoldingPc
         /\ worker[w].job \in Nat
         /\ worker[w] = At(worker[w].pc, worker[w].job)
         /\ worker[w].pc \in HoldingPc \cup {"claiming"} =>
              worker[w].job \in DOMAIN jobs
BY DEF IInv, TypeOK, At

\* Updating one job and one worker: the invariant is kept when the job is
\* then held by that worker alone, its row allowing that, or by nobody.
LEMMA UpdatePreserves ==
  ASSUME IInv, NEW w \in Workers, NEW j \in DOMAIN jobs, NEW job \in JobType,
         NEW pc \in {"polling", "stopped", "working", "failing"},
         jobs' = [jobs EXCEPT ![j] = job],
         worker' = [worker EXCEPT ![w] = At(pc, IF pc \in HoldingPc THEN j ELSE 0)],
         stops' \in Nat,
         \A v \in Workers \ {w} : ~Holds(v, j),
         pc \in HoldingPc =>
           job.status = "claimed" \/ (job.status = "completed" /\ pc = "failing"),
         job.status # "queued"
  PROVE  IInv'
<1>1. /\ jobs' \in Seq(JobType)
      /\ DOMAIN jobs' = DOMAIN jobs
      /\ jobs'[j] = job
      /\ \A k \in DOMAIN jobs : k # j => jobs'[k] = jobs[k]
  BY DEF IInv, TypeOK
<1>2. j \in Nat
  BY DEF IInv, TypeOK
<1>3. /\ worker'[w] = At(pc, IF pc \in HoldingPc THEN j ELSE 0)
      /\ \A v \in Workers \ {w} : worker'[v] = worker[v]
      /\ worker' \in [Workers -> [pc : {"polling", "claiming", "stopped"}
                                         \cup HoldingPc, job : Nat]]
  BY <1>2 DEF IInv, TypeOK, At, HoldingPc
<1>4. TypeOK'
  BY <1>1, <1>3 DEF IInv, TypeOK, At, HoldingPc
<1>5. ASSUME NEW v \in Workers, NEW k \in DOMAIN jobs', Holds(v, k)'
      PROVE  HeldRow(v, k)' /\ \A u \in Workers : Holds(u, k)' => u = v
  <2>1. CASE k = j
    <3>1. \A u \in Workers : Holds(u, j)' => u = w
      BY <1>3 DEF Holds
    <3>2. v = w
      BY <1>5, <2>1, <3>1
    <3>3. pc \in HoldingPc /\ worker'[w].pc = pc
      BY <1>3, <1>5, <3>2 DEF Holds, At
    <3>4. HeldRow(v, k)'
      BY <1>1, <2>1, <3>2, <3>3 DEF HeldRow
    <3> QED BY <2>1, <3>1, <3>2, <3>4
  <2>2. CASE k # j
    <3>1. \A u \in Workers : Holds(u, k)' => u # w /\ Holds(u, k)
      <4> SUFFICES ASSUME NEW u \in Workers, Holds(u, k)'
                   PROVE  u # w /\ Holds(u, k)
        OBVIOUS
      <4>1. u # w
        BY <1>3, <2>2 DEF Holds, At, HoldingPc
      <4> QED BY <1>3, <4>1 DEF Holds
    <3>2. v # w /\ Holds(v, k) /\ k \in DOMAIN jobs
      BY <1>1, <1>5, <3>1
    <3>3. HeldRow(v, k) /\ \A u \in Workers : Holds(u, k) => u = v
      BY <3>2 DEF IInv, ClaimsExclusive
    <3>4. HeldRow(v, k)'
      BY <1>1, <1>3, <2>2, <3>2, <3>3 DEF HeldRow
    <3> QED BY <3>1, <3>3, <3>4
  <2> QED BY <2>1, <2>2
<1>6. ClaimsExclusive'
  BY <1>5 DEF ClaimsExclusive
<1>7. QueuedIsUnclaimed'
  BY <1>1 DEF IInv, QueuedIsUnclaimed
<1> QED BY <1>4, <1>6, <1>7 DEF IInv

\* A worker that moves without touching a job: it holds what it held, or
\* nothing.
LEMMA MovePreserves ==
  ASSUME IInv, NEW w \in Workers,
         NEW pc \in {"polling", "claiming", "stopped"} \cup HoldingPc,
         NEW j \in Nat,
         UNCHANGED jobs,
         worker' = [worker EXCEPT ![w] = At(pc, j)],
         stops' \in Nat,
         pc \in HoldingPc =>
           Holds(w, j) /\ (worker[w].pc = "failing" => pc = "failing"),
         pc \in HoldingPc \cup {"claiming"} => j \in DOMAIN jobs
  PROVE  IInv'
<1>1. /\ worker'[w] = At(pc, j)
      /\ \A v \in Workers \ {w} : worker'[v] = worker[v]
      /\ worker' \in [Workers -> [pc : {"polling", "claiming", "stopped"}
                                         \cup HoldingPc, job : Nat]]
  BY DEF IInv, TypeOK, At
<1>2. TypeOK'
  BY <1>1 DEF IInv, TypeOK, At
<1>3. \A v \in Workers, k \in DOMAIN jobs : Holds(v, k)' =>
        Holds(v, k) /\ (worker[v].pc = "failing" => worker'[v].pc = "failing")
  <2> SUFFICES ASSUME NEW v \in Workers, NEW k \in DOMAIN jobs, Holds(v, k)'
               PROVE  /\ Holds(v, k)
                      /\ worker[v].pc = "failing" => worker'[v].pc = "failing"
    OBVIOUS
  <2>1. CASE v = w
    BY <1>1, <2>1 DEF Holds, At
  <2>2. CASE v # w
    BY <1>1, <2>2 DEF Holds
  <2> QED BY <2>1, <2>2
<1>4. ClaimsExclusive'
  <2> SUFFICES ASSUME NEW v \in Workers, NEW k \in DOMAIN jobs, Holds(v, k)'
               PROVE  HeldRow(v, k)' /\ \A u \in Workers : Holds(u, k)' => u = v
    BY DEF ClaimsExclusive
  <2>1. HeldRow(v, k) /\ \A u \in Workers : Holds(u, k) => u = v
    BY <1>3 DEF IInv, ClaimsExclusive
  <2> QED BY <1>3, <2>1 DEF HeldRow
<1>5. QueuedIsUnclaimed'
  BY DEF IInv, QueuedIsUnclaimed
<1> QED BY <1>2, <1>4, <1>5 DEF IInv

-----------------------------------------------------------------------------
(* Every action preserves the invariant *)

LEMMA EnqueuePreserves ==
  ASSUME IInv, NEW kind \in JobKind, NEW stamp \in Stamps, enqueue(kind, stamp)
  PROVE  IInv'
<1> DEFINE job == [kind |-> kind, stamp |-> stamp, status |-> "queued",
                   attempts |-> 0]
<1>1. job \in JobType
  BY DEF JobType, JobStatus
<1>2. jobs' = Append(jobs, job) /\ UNCHANGED <<worker, stops>>
  BY DEF enqueue
<1>3. jobs \in Seq(JobType)
  BY DEF IInv, TypeOK
<1>4. job.status = "queued" /\ job.attempts = 0
  OBVIOUS
<1> HIDE DEF job
<1>5. /\ jobs' \in Seq(JobType)
      /\ DOMAIN jobs' = 1 .. Len(jobs) + 1
      /\ \A k \in DOMAIN jobs : k \in DOMAIN jobs' /\ jobs'[k] = jobs[k]
      /\ \A k \in DOMAIN jobs' : k \in DOMAIN jobs \/ jobs'[k] = job
  BY <1>1, <1>2, <1>3
<1>6. TypeOK'
  BY <1>2, <1>5 DEF IInv, TypeOK
<1>7. \A v \in Workers, k \in DOMAIN jobs' :
        Holds(v, k)' => Holds(v, k) /\ k \in DOMAIN jobs
  <2> SUFFICES ASSUME NEW v \in Workers, NEW k \in DOMAIN jobs', Holds(v, k)'
               PROVE  Holds(v, k) /\ k \in DOMAIN jobs
    OBVIOUS
  <2>1. Holds(v, k)
    BY <1>2 DEF Holds
  <2> QED BY <2>1, WorkerFacts DEF Holds
<1>8. ClaimsExclusive'
  BY <1>2, <1>5, <1>7 DEF IInv, ClaimsExclusive, HeldRow, Holds
<1>9. QueuedIsUnclaimed'
  BY <1>4, <1>5 DEF IInv, QueuedIsUnclaimed
<1> QED BY <1>6, <1>8, <1>9 DEF IInv

\* A stored claim, answered or not.
LEMMA ClaimPreserves ==
  ASSUME IInv, NEW w \in Workers, StoreClaim(w), stops' \in Nat,
         NEW pc \in {"working", "stopped"},
         worker' = [worker EXCEPT ![w] = At(pc, IF pc = "working"
                                                THEN worker[w].job ELSE 0)]
  PROVE  IInv'
<1> DEFINE j == worker[w].job
           job == [jobs[j] EXCEPT !.status = "claimed", !.attempts = @ + 1]
<1>1. j \in DOMAIN jobs /\ jobs[j] \in JobType
  BY WorkerFacts DEF StoreClaim, IInv, TypeOK
<1>2. jobs[j].status = "queued" /\ jobs[j].attempts = 0
  BY <1>1 DEF StoreClaim, StillQueued, IInv, QueuedIsUnclaimed
<1>3. job \in JobType /\ job.status = "claimed"
  <2>1. job = [jobs[j] EXCEPT !.status = "claimed", !.attempts = 1]
    BY <1>2
  <2> HIDE DEF job
  <2>2. 1 \in 0 .. 1
    OBVIOUS
  <2> QED BY <1>1, <2>1, <2>2 DEF JobType, JobStatus
<1>4. \A v \in Workers : ~Holds(v, j)
  BY <1>1, <1>2 DEF IInv, ClaimsExclusive, HeldRow
<1>5. jobs' = [jobs EXCEPT ![j] = job]
  BY <1>1 DEF StoreClaim, IInv, TypeOK
<1>6. worker' = [worker EXCEPT ![w] = At(pc, IF pc \in HoldingPc THEN j ELSE 0)]
  BY DEF HoldingPc
<1> HIDE DEF job
<1> QED BY <1>1, <1>3, <1>4, <1>5, <1>6, UpdatePreserves DEF HoldingPc

\* A stored complete or fail: the worker polls again, or stops, or fails the
\* job it has completed.
LEMMA SettlePreserves ==
  ASSUME IInv, NEW w \in Workers, StoreCompleted(w) \/ StoreFailed(w),
         stops' \in Nat,
         NEW pc \in {"polling", "stopped", "failing"},
         pc = "failing" => StoreCompleted(w),
         worker' = [worker EXCEPT ![w] = At(pc, IF pc = "failing"
                                                THEN worker[w].job ELSE 0)]
  PROVE  IInv'
<1> DEFINE j == worker[w].job
<1>1. PICK status \in Settled :
        /\ jobs' = [jobs EXCEPT ![j].status = status]
        /\ worker[w].pc \in HoldingPc
        /\ pc = "failing" => status = "completed"
  BY DEF StoreCompleted, StoreFailed, updateJobStatus, Settled, HoldingPc
<1> DEFINE job == [jobs[j] EXCEPT !.status = status]
<1>2. j \in DOMAIN jobs /\ jobs[j] \in JobType /\ Holds(w, j)
  BY <1>1, WorkerFacts DEF IInv, TypeOK, Holds
<1>3. job \in JobType /\ job.status = status /\ job.status # "queued"
  BY <1>1, <1>2 DEF JobType, JobStatus, Settled
<1>4. \A v \in Workers \ {w} : ~Holds(v, j)
  BY <1>2 DEF IInv, ClaimsExclusive
<1>5. jobs' = [jobs EXCEPT ![j] = job]
  BY <1>1
<1>6. worker' = [worker EXCEPT ![w] = At(pc, IF pc \in HoldingPc THEN j ELSE 0)]
  BY DEF HoldingPc
<1> HIDE DEF job
<1> QED BY <1>1, <1>2, <1>3, <1>4, <1>5, <1>6, UpdatePreserves DEF HoldingPc

\* An operation that throws, rolled back or stored.
LEMMA ThrowPreserves ==
  ASSUME IInv, NEW w \in Workers, Throw(w)
  PROVE  IInv'
<1> DEFINE j == worker[w].job
<1>1. Throws(w) /\ stops' \in Nat
  BY DEF Throw, QueueRejects, QueueAnswerLost, Throws, IInv, TypeOK
<1>2. CASE QueueRejects(w)
  <2>1. UNCHANGED jobs
    BY <1>2 DEF QueueRejects
  <2>2. CASE worker[w].pc = "completing"
    <3>1. Holds(w, j) /\ j \in DOMAIN jobs /\ j \in Nat
      BY <2>2, WorkerFacts DEF Holds, HoldingPc
    <3>2. worker' = [worker EXCEPT ![w] = At("failing", j)]
      BY <1>1, <2>2 DEF Throws
    <3> QED BY <1>1, <2>1, <2>2, <3>1, <3>2, MovePreserves DEF HoldingPc
  <2>3. CASE worker[w].pc # "completing"
    BY <1>1, <2>1, <2>3, MovePreserves DEF Throws, Stopped, HoldingPc
  <2> QED BY <2>2, <2>3
<1>3. CASE StoreClaim(w)
  <2>1. worker' = [worker EXCEPT ![w] = At("stopped", 0)]
    BY <1>1, <1>3 DEF Throws, StoreClaim, Stopped
  <2> QED BY <1>1, <1>3, <2>1, ClaimPreserves
<1>4. CASE StoreCompleted(w)
  <2>1. worker' = [worker EXCEPT ![w] = At("failing", j)]
    BY <1>1, <1>4 DEF Throws, StoreCompleted
  <2> QED BY <1>1, <1>4, <2>1, SettlePreserves
<1>5. CASE StoreFailed(w)
  <2>1. worker' = [worker EXCEPT ![w] = At("stopped", 0)]
    BY <1>1, <1>5 DEF Throws, StoreFailed, Stopped
  <2> QED BY <1>1, <1>5, <2>1, SettlePreserves
<1> QED BY <1>2, <1>3, <1>4, <1>5 DEF Throw, QueueAnswerLost

LEMMA WorkerStepPreserves ==
  ASSUME IInv, NEW w \in Workers,
         Work(w) \/ Throw(w) \/ Stop(w) \/ Start(w)
  PROVE  IInv'
<1>1. CASE SelectCandidate(w)
  <2>1. PICK j \in DOMAIN jobs : worker' = [worker EXCEPT ![w] = At("claiming", j)]
    BY <1>1 DEF SelectCandidate
  <2>2. j \in Nat /\ UNCHANGED jobs /\ stops' \in Nat
    BY <1>1 DEF SelectCandidate, IInv, TypeOK
  <2> QED BY <2>1, <2>2, MovePreserves DEF HoldingPc
<1>2. CASE ClaimCandidate(w)
  <2>1. stops' \in Nat
    BY <1>2 DEF ClaimCandidate, IInv, TypeOK
  <2>2. CASE StoreClaim(w) /\ worker' = [worker EXCEPT ![w].pc = "working"]
    <3>1. worker[w] = At("claiming", worker[w].job)
      BY <2>2, WorkerFacts DEF StoreClaim
    <3>2. [worker[w] EXCEPT !.pc = "working"] = At("working", worker[w].job)
      BY <3>1 DEF At
    <3>3. worker' = [worker EXCEPT ![w] = At("working", worker[w].job)]
      BY <2>2, <3>2
    <3> QED BY <2>1, <2>2, <3>3, ClaimPreserves
  <2>3. CASE UNCHANGED jobs /\ worker' = [worker EXCEPT ![w] = Polling]
    BY <2>1, <2>3, MovePreserves DEF Polling, HoldingPc
  <2> QED BY <1>2, <2>2, <2>3 DEF ClaimCandidate
<1>3. ASSUME NEW pc \in {"completing", "failing"}, WorkEnds(w, pc)
      PROVE  IInv'
  <2> DEFINE j == worker[w].job
  <2>1. /\ worker[w] = At("working", j) /\ j \in Nat /\ j \in DOMAIN jobs
        /\ Holds(w, j)
    BY <1>3, WorkerFacts DEF WorkEnds, HoldingPc, Holds
  <2>2. [worker[w] EXCEPT !.pc = pc] = At(pc, j)
    BY <2>1 DEF At
  <2>3. /\ worker' = [worker EXCEPT ![w] = At(pc, j)]
        /\ UNCHANGED jobs /\ stops' \in Nat
    BY <1>3, <2>2 DEF WorkEnds, IInv, TypeOK
  <2>4. worker[w].pc # "failing"
    BY <2>1 DEF At
  <2> QED BY <2>1, <2>3, <2>4, MovePreserves DEF HoldingPc
<1>4. CASE complete(w) \/ fail(w)
  <2>1. /\ worker' = [worker EXCEPT ![w] = At("polling", 0)]
        /\ stops' \in Nat
        /\ StoreCompleted(w) \/ StoreFailed(w)
    BY <1>4 DEF complete, fail, Polling, IInv, TypeOK
  <2> QED BY <2>1, SettlePreserves
<1>5. CASE Throw(w)
  BY <1>5, ThrowPreserves
<1>6. CASE Stop(w)
  <2>1. UNCHANGED jobs /\ stops' \in Nat
        /\ worker' = [worker EXCEPT ![w] = At("stopped", 0)]
    BY <1>6 DEF Stop, Stopped, IInv, TypeOK
  <2> QED BY <2>1, MovePreserves DEF HoldingPc
<1>7. CASE Start(w)
  <2>1. UNCHANGED jobs /\ stops' \in Nat
        /\ worker' = [worker EXCEPT ![w] = At("polling", 0)]
    BY <1>7 DEF Start, Polling, IInv, TypeOK
  <2> QED BY <2>1, MovePreserves DEF HoldingPc
<1> QED BY <1>1, <1>2, <1>3, <1>4, <1>5, <1>6, <1>7 DEF Work

-----------------------------------------------------------------------------
(* The theorems *)

LEMMA InitInvariant == Init => IInv
BY DEF Init, IInv, TypeOK, ClaimsExclusive, QueuedIsUnclaimed, Polling, At,
       HoldingPc

LEMMA StepInvariant == IInv /\ [Next]_vars => IInv'
<1> SUFFICES ASSUME IInv, [Next]_vars PROVE IInv'
  OBVIOUS
<1>1. CASE Next
  BY <1>1, EnqueuePreserves, WorkerStepPreserves DEF Next
<1>2. CASE UNCHANGED vars
  BY <1>2 DEF vars, IInv, TypeOK, ClaimsExclusive, HeldRow, QueuedIsUnclaimed,
              Holds
<1> QED BY <1>1, <1>2

LEMMA Invariance == Spec => []IInv
BY InitInvariant, StepInvariant, PTL DEF Spec

\* Every variable keeps its type, which bounds the claims of a job by one.
THEOREM TypeCorrect == Spec => []TypeOK
<1>1. IInv => TypeOK
  BY DEF IInv
<1> QED BY <1>1, Invariance, PTL

\* However many workers race for a job, one of them at most gets it, and no
\* job is held whose row says that it is over, but for one whose complete threw.
THEOREM ClaimsAreExclusive == Spec => []ClaimsExclusive
<1>1. IInv => ClaimsExclusive
  BY DEF IInv
<1> QED BY <1>1, Invariance, PTL

\* Only the worker about to fail it holds a settled job, and only a holder
\* writes a row.
LEMMA SettledKept ==
  ASSUME IInv, [Next]_vars, NEW j \in DOMAIN jobs, jobs[j].status \in Settled
  PROVE  jobs'[j] = jobs[j] \/ Refailed(j)
<1>1. \A w \in Workers :
        Holds(w, j) => jobs[j].status = "completed" /\ worker[w].pc = "failing"
  BY DEF IInv, ClaimsExclusive, HeldRow, Settled
<1>2. ASSUME NEW kind \in JobKind, NEW stamp \in Stamps, enqueue(kind, stamp)
      PROVE  jobs'[j] = jobs[j]
  BY <1>2 DEF enqueue, IInv, TypeOK
<1>3. ASSUME NEW w \in Workers, StoreClaim(w)
      PROVE  jobs'[j] = jobs[j]
  BY <1>3 DEF StoreClaim, StillQueued, Settled, IInv, TypeOK
<1>4. ASSUME NEW w \in Workers, StoreCompleted(w)
      PROVE  jobs'[j] = jobs[j]
  <2>1. worker[w].job # j
    BY <1>1, <1>4 DEF StoreCompleted, Holds, HoldingPc
  <2> QED BY <1>4, <2>1 DEF StoreCompleted, updateJobStatus, IInv, TypeOK
<1>5. ASSUME NEW w \in Workers, StoreFailed(w)
      PROVE  jobs'[j] = jobs[j] \/ Refailed(j)
  <2>1. CASE worker[w].job = j
    <3>1. Holds(w, j)
      BY <1>5, <2>1 DEF StoreFailed, Holds, HoldingPc
    <3>2. jobs[j].status = "completed" /\ worker[w].pc = "failing"
      BY <1>1, <3>1
    <3>3. worker[w] = At("failing", j)
      BY <2>1, <3>2, WorkerFacts
    <3>4. jobs' = [jobs EXCEPT ![j].status = "failed"]
      BY <1>5, <2>1 DEF StoreFailed, updateJobStatus
    <3> QED BY <3>2, <3>3, <3>4 DEF Refailed
  <2>2. CASE worker[w].job # j
    BY <1>5, <2>2 DEF StoreFailed, updateJobStatus, IInv, TypeOK
  <2> QED BY <2>1, <2>2
<1> QED BY <1>2, <1>3, <1>4, <1>5
        DEF Next, Work, Throw, SelectCandidate, ClaimCandidate, WorkEnds,
            complete, fail, QueueRejects, QueueAnswerLost, Stop, Start, vars

\* Settled jobs stay as they are, unless their own holder fails a completed one.
THEOREM SettledJobsStay == Spec => SettledIsFinal
<1>1. IInv /\ [Next]_vars =>
        [\A j \in DOMAIN jobs : jobs[j].status \in Settled
                                  => jobs'[j] = jobs[j] \/ Refailed(j)]_jobs
  BY SettledKept
<1> QED BY <1>1, Invariance, PTL DEF Spec, SettledIsFinal
=============================================================================
