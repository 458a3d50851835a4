-------------------------- MODULE QueuedExecution --------------------------
(***************************************************************************)
(* Queued execution of one run: the operator service of packages/sdk       *)
(* (behind the API and the CLI) enqueues jobs, the worker service claims   *)
(* them, and both drive the run through the runtime engine.  The module    *)
(* composes RuntimeEngine, whose drivers are the operators and the         *)
(* workers, with DispatchQueue, and adds what the two services do between  *)
(* the calls: the requests of an operator and the task of a worker.        *)
(***************************************************************************)
EXTENDS Naturals, Sequences, FiniteSets

CONSTANTS Operators,    \* request handlers that may be in flight together
          Workers,      \* worker processes
          MaxRequests,  \* bound on the number of requests
          MaxFaults,    \* bound on the faults of all kinds together
          NumSteps, MaxAttempts, Gates, MaxCalls, MaxCrashes, MaxFailures,
          MaxJobs, MaxStamp, MaxStops

ASSUME ServiceAssumption ==
  /\ NumSteps \in Nat /\ MaxAttempts \in Nat \ {0}
  /\ Gates \subseteq 1 .. NumSteps
  /\ {MaxRequests, MaxFaults, MaxCalls, MaxCrashes, MaxFailures, MaxJobs, MaxStamp, MaxStops}
       \subseteq Nat
  /\ Operators \cap Workers = {}

VARIABLES run, log, checkpoint, approvals, call, made, crashes, failures, lost,
          jobs, worker, stops,
          request,   \* request[o] : where the request handled by o is
          task,      \* task[w] : what worker w knows of its job's run
          requests   \* requests made so far

Drivers == Operators \cup Workers
Ops     == {"execute", "queue", "resume", "queueResume", "decide"}

Engine == INSTANCE RuntimeEngine
Queue  == INSTANCE DispatchQueue

engineVars  == <<run, log, checkpoint, approvals, call, made, crashes, failures,
                 lost>>
queueVars   == <<jobs, worker, stops>>
serviceVars == <<request, task, requests>>
vars        == <<engineVars, queueVars, serviceVars>>

\* "getRun": the claimed job's run is not read yet; "called": the engine was
\* called; otherwise the status getRun returned.
TaskType == {"getRun", "called"} \cup Engine!RunStatus \cup {Engine!Absent}

RequestPc == {"idle", "enqueueStart", "queueRun", "readPending",
              "enqueueResume", "queueResumeRun"}

InCall(d) == call[d].pc \notin Engine!Waiting

\* Something may go wrong once more.
Faulty == crashes + failures + stops < MaxFaults

-----------------------------------------------------------------------------
Init == /\ Engine!Init
        /\ Queue!Init
        /\ request = [o \in Operators |-> "idle"]
        /\ task = [w \in Workers |-> "getRun"]
        /\ requests = 0

(* The operator service *)

NewRequest(o) == /\ request[o] = "idle" /\ ~InCall(o)
                 /\ requests < MaxRequests
                 /\ requests' = requests + 1

RequestAt(o, pc) == request' = [request EXCEPT ![o] = pc]

\* startRun: createRun, then the job, then queueRun.
StartRun(o) ==
  /\ NewRequest(o)
  /\ Engine!CreateRun(o)
  /\ RequestAt(o, "enqueueStart")
  /\ UNCHANGED <<queueVars, task>>

Enqueue(o, pc, kind, nextPc) ==
  /\ request[o] = pc
  /\ \E stamp \in Queue!Stamps : Queue!enqueue(kind, stamp)
  /\ RequestAt(o, nextPc)
  /\ UNCHANGED <<engineVars, task, requests>>

EnqueueStart(o) == Enqueue(o, "enqueueStart", "start_run", "queueRun")

QueueRun(o) ==
  /\ request[o] = "queueRun"
  /\ Engine!queueRun(o)
  /\ RequestAt(o, "idle")
  /\ UNCHANGED <<queueVars, task, requests>>

\* Mutant: resumeRun enqueues a job whatever the status of the run.
MayResume_Any == run.status # Engine!Absent

\* resumeRun returns a run that is not paused as it is.
MayResume == run.status = "paused"

ResumeRun(o) ==
  /\ NewRequest(o)
  /\ MayResume
  /\ RequestAt(o, "readPending")
  /\ UNCHANGED <<engineVars, queueVars, task>>

ReadPending(o) ==
  /\ request[o] = "readPending"
  /\ RequestAt(o, IF Engine!PendingApproval = 0 THEN "enqueueResume" ELSE "idle")
  /\ UNCHANGED <<engineVars, queueVars, task, requests>>

EnqueueResume(o) ==
  Enqueue(o, "enqueueResume", "resume_run", "queueResumeRun")

QueueResumeRun(o) ==
  /\ request[o] = "queueResumeRun"
  /\ Engine!queueResumeRun(o)
  /\ RequestAt(o, "idle")
  /\ UNCHANGED <<queueVars, task, requests>>

DecideApproval(o) ==
  /\ NewRequest(o)
  /\ \E a \in DOMAIN approvals, decision \in Engine!Decisions :
       Engine!decideApproval(o, a, decision)
  /\ UNCHANGED <<queueVars, request, task>>

Request(o) == StartRun(o) \/ ResumeRun(o) \/ DecideApproval(o)

Handle(o) ==
  EnqueueStart(o) \/ QueueRun(o) \/ ReadPending(o) \/ EnqueueResume(o)
    \/ QueueResumeRun(o)

\* The process that handles a request dies between two of its steps, or the
\* enqueue throws and the request ends with an error: before the job is stored,
\* or after it, when the answer to the COMMIT is lost.
RequestDies(o) ==
  /\ Faulty
  /\ request[o] # "idle"
  /\ stops < MaxStops
  /\ stops' = stops + 1
  /\ RequestAt(o, "idle")
  /\ UNCHANGED <<engineVars, jobs, worker, task, requests>>

-----------------------------------------------------------------------------
(* The worker service *)

TaskAt(w, t) == task' = [task EXCEPT ![w] = t]

Claim(w) ==
  /\ Queue!SelectCandidate(w) \/ Queue!ClaimCandidate(w)
  /\ TaskAt(w, "getRun")
  /\ UNCHANGED <<engineVars, request, requests>>

\* runtime.getRun: the read executeClaimedJob decides by.
GetRun(w) ==
  /\ worker[w].pc = "working" /\ task[w] = "getRun"
  /\ TaskAt(w, run.status)
  /\ UNCHANGED <<engineVars, queueVars, request, requests>>

\* executeClaimedJob: which engine call the status read calls for, if any.
ShouldExecute(kind, status) ==
  \/ kind = "start_run" /\ status \in {"pending", "queued"}
  \/ kind = "resume_run" /\ status = "queued"

ShouldResume(kind, status) == kind = "resume_run" /\ status = "paused"

executeClaimedJob(w) ==
  LET kind == jobs[worker[w].job].kind IN
  /\ worker[w].pc = "working"
  /\ \/ ShouldExecute(kind, task[w]) /\ Engine!executeRun(w)
     \/ ShouldResume(kind, task[w]) /\ Engine!resumeRun(w)
  /\ TaskAt(w, "called")
  /\ UNCHANGED <<queueVars, request, requests>>

\* Mutant: an error the engine raised does not fail the job.
JobOutcome_Swallowed(w) ==
  IF task[w] = Engine!Absent THEN "failing" ELSE "completing"

\* Where processNextJob goes: a missing run and an engine call that threw
\* fail the job, anything else completes it.
JobOutcome(w) ==
  CASE task[w] = Engine!Absent                          -> "failing"
    [] task[w] = "called" /\ call[w].pc = "threw" -> "failing"
    [] OTHER                                      -> "completing"

JobDone(w) ==
  LET kind == jobs[worker[w].job].kind IN
  \/ task[w] = "called" /\ ~InCall(w)
  \/ /\ task[w] \in Engine!RunStatus \cup {Engine!Absent}
     /\ ~ShouldExecute(kind, task[w]) /\ ~ShouldResume(kind, task[w])

WorkEnds(w) ==
  /\ worker[w].pc = "working"
  /\ JobDone(w)
  /\ Queue!WorkEnds(w, JobOutcome(w))
  /\ TaskAt(w, "getRun")
  /\ UNCHANGED <<engineVars, request, requests>>

Settle(w) ==
  /\ Queue!complete(w) \/ Queue!fail(w)
  /\ UNCHANGED <<engineVars, serviceVars>>

\* An operation of the worker on the queue throws, rolled back or stored.
QueueThrows(w) ==
  /\ Faulty
  /\ Queue!Throw(w)
  /\ UNCHANGED <<engineVars, serviceVars>>

\* The worker's process dies, in the middle of an engine call or outside one.
WorkerDies(w) ==
  /\ Faulty
  /\ Queue!Stop(w)
  /\ IF InCall(w) THEN Engine!Crash(w) ELSE UNCHANGED engineVars
  /\ TaskAt(w, "getRun")
  /\ UNCHANGED <<request, requests>>

WorkerStarts(w) ==
  /\ Queue!Start(w)
  /\ UNCHANGED <<engineVars, serviceVars>>

Work(w) == Claim(w) \/ GetRun(w) \/ executeClaimedJob(w) \/ WorkEnds(w) \/ Settle(w)

-----------------------------------------------------------------------------
\* The engine calls of both services, and their faults.
Advance(d) ==
  /\ Engine!Advance(d)
  /\ UNCHANGED <<queueVars, serviceVars>>

CallFaults(d) ==
  /\ Faulty
  /\ \/ Engine!CommitRejected(d) \/ Engine!AnswerLost(d)
     \/ d \in Operators /\ Engine!Crash(d)
  /\ UNCHANGED <<queueVars, serviceVars>>

Next ==
  \/ \E o \in Operators : Request(o) \/ Handle(o) \/ RequestDies(o)
  \/ \E w \in Workers : \/ Work(w) \/ QueueThrows(w)
                        \/ WorkerDies(w) \/ WorkerStarts(w)
  \/ \E d \in Drivers : Advance(d) \/ CallFaults(d)

Spec == Init /\ [][Next]_vars

\* Requests are handled and calls go on; a worker that runs polls again after
\* pollIntervalMs and never gives up.
FairSpec == /\ Spec
            /\ \A o \in Operators : WF_vars(Handle(o))
            /\ \A w \in Workers : WF_vars(Work(w))
            /\ \A d \in Drivers : WF_vars(Advance(d))

-----------------------------------------------------------------------------
(* Properties *)

\* Every variable of the composition has its type, and a worker is inside an
\* engine call only while it works on a job.
TypeOK ==
  /\ request \in [Operators -> RequestPc]
  /\ task \in [Workers -> TaskType]
  /\ \A w \in Workers : InCall(w) => worker[w].pc = "working" /\ task[w] = "called"

\* As long as one operator at a time acts, its requests run to their end and no
\* answer of a stored commit is lost, no two workers execute the run at the same
\* time.  (A worker whose stored approval request throws works on, while the
\* decision and the resume put another one to work.)
Executes(d) ==
  call[d].pc \in Engine!LoopPc \cup {"commitRunning"}

OneWorkerPerRun ==
  lost = 0 => \A v, w \in Workers : Executes(v) /\ Executes(w) => v = w

\* A rejected or cancelled approval cancels the run for good, in queued mode
\* too: no job that was enqueued before it brings the run back, as long as no
\* answer of a stored commit is lost.
RejectionCancelsRun == lost = 0 => Engine!RejectionCancelsRun

\* The invariant of the engine holds of the composition.
RunWellFormed == Engine!RunWellFormed

\* A run that waits in the queue is known to somebody: a job that is not
\* settled yet, or a request or an engine call that is not over.
QueuedRunHasJob ==
  run.status = "queued" =>
    \/ \E j \in DOMAIN jobs : jobs[j].status \in {"queued", "claimed"}
    \/ \E o \in Operators : request[o] # "idle"
    \/ \E d \in Drivers : InCall(d)

\* A run is never left "running" behind the back of its jobs: when no call is
\* executing it, one of its jobs failed or is still claimed.
StalledRunHasJob ==
  run.status = "running" /\ (\A d \in Drivers : ~InCall(d)) =>
    \E j \in DOMAIN jobs : jobs[j].status \in {"claimed", "failed"}

\* Every job is settled in the end, the execution of its run included, unless
\* its worker dies.
JobsSettle ==
  \A j \in 1 .. MaxJobs : j \in DOMAIN jobs ~> Queue!Over(j)
=============================================================================
