----------------------- MODULE QueuedExecutionProofs -----------------------
(***************************************************************************)
(* Proofs about QueuedExecution for any operators, workers, steps, jobs    *)
(* and requests.                                                           *)
(*                                                                         *)
(* What is proved of the engine and of the queue on their own is used here *)
(* through instances of their proof modules.  An instance has definitions  *)
(* of its own, so the first lemmas say that those of EP and QP are the     *)
(* ones QueuedExecution takes from Engine and Queue.                       *)
(***************************************************************************)
EXTENDS QueuedExecution, FiniteSetTheorems, SequenceTheorems, TLAPS

EP == INSTANCE RuntimeEngineProofs
QP == INSTANCE DispatchQueueProofs

-----------------------------------------------------------------------------
(* The instances *)

\* What engine and queue assume of their constants.
LEMMA Assumptions ==
  EP!DomainAssumption /\ EP!EngineAssumption /\ QP!QueueAssumption
BY ServiceAssumption
   DEF EP!DomainAssumption, EP!EngineAssumption, EP!Steps, Ops, QP!QueueAssumption

\* The actions of the two instances of the engine are the same.
LEMMA SameActions ==
  /\ EP!Init <=> Engine!Init
  /\ EP!Next <=> Engine!Next
  /\ EP!vars = Engine!vars
  /\ \A d :
       /\ EP!CreateRun(d) <=> Engine!CreateRun(d)
       /\ EP!executeRun(d) <=> Engine!executeRun(d)
       /\ EP!queueRun(d) <=> Engine!queueRun(d)
       /\ EP!resumeRun(d) <=> Engine!resumeRun(d)
       /\ EP!queueResumeRun(d) <=> Engine!queueResumeRun(d)
       /\ EP!Advance(d) <=> Engine!Advance(d)
       /\ EP!CommitRejected(d) <=> Engine!CommitRejected(d)
       /\ EP!AnswerLost(d) <=> Engine!AnswerLost(d)
       /\ EP!Crash(d) <=> Engine!Crash(d)
       /\ \A a, decision : EP!decideApproval(d, a, decision)
                             <=> Engine!decideApproval(d, a, decision)
<1> USE DEF
  EP!Steps, Engine!Steps, EP!RunStatus, Engine!RunStatus, EP!StepStatus,
  Engine!StepStatus, EP!TerminalRunStatus, Engine!TerminalRunStatus,
  EP!Absent, Engine!Absent, EP!RunSnapshot, Engine!RunSnapshot,
  EP!runTransitions, Engine!runTransitions, EP!stepTransitions,
  Engine!stepTransitions, EP!RunMayBecome, Engine!RunMayBecome,
  EP!StepMayBecome, Engine!StepMayBecome, EP!transitionRunStatus,
  Engine!transitionRunStatus, EP!transitionStepStatus,
  Engine!transitionStepStatus, EP!advanceRunCursor, Engine!advanceRunCursor,
  EP!createWorkflowStepSnapshot, Engine!createWorkflowStepSnapshot,
  EP!createWorkflowRunSnapshot, Engine!createWorkflowRunSnapshot, EP!store,
  Engine!store, EP!faults, Engine!faults, EP!vars, Engine!vars,
  EP!ApprovalStatus, Engine!ApprovalStatus, EP!Decisions, Engine!Decisions,
  EP!Event, Engine!Event, EP!Checkpoint, Engine!Checkpoint, EP!EventName,
  Engine!EventName, EP!EventType, Engine!EventType, EP!CheckpointType,
  Engine!CheckpointType, EP!ApprovalType, Engine!ApprovalType, EP!Waiting,
  Engine!Waiting, EP!LoopPc, Engine!LoopPc, EP!ReadyPc, Engine!ReadyPc,
  EP!CommitPc, Engine!CommitPc, EP!CallOps, Engine!CallOps, EP!CallType,
  Engine!CallType, EP!NoRun, Engine!NoRun, EP!Ended, Engine!Ended,
  EP!CheckpointSaved, Engine!CheckpointSaved, EP!Commit, Engine!Commit,
  EP!CommitWithCheckpoint, Engine!CommitWithCheckpoint, EP!PendingApproval,
  Engine!PendingApproval, EP!Goto, Engine!Goto, EP!End, Engine!End, EP!Init,
  Engine!Init, EP!CreateRun, Engine!CreateRun, EP!Enter, Engine!Enter,
  EP!ExecuteEntry, Engine!ExecuteEntry, EP!executeRun, Engine!executeRun,
  EP!queueRun, Engine!queueRun, EP!resumeRun, Engine!resumeRun,
  EP!queueResumeRun, Engine!queueResumeRun, EP!pauseRun, Engine!pauseRun,
  EP!decideApproval, Engine!decideApproval, EP!MayCancel, Engine!MayCancel,
  EP!ReadPending, Engine!ReadPending, EP!CommitQueued, Engine!CommitQueued,
  EP!CommitRunning, Engine!CommitRunning, EP!CommitPause, Engine!CommitPause,
  EP!cancelRunFromApproval, Engine!cancelRunFromApproval,
  EP!approvalDecisionToEventName, Engine!approvalDecisionToEventName,
  EP!DecisionRefused, Engine!DecisionRefused, EP!CommitDecision,
  Engine!CommitDecision, EP!LoopHead, Engine!LoopHead, EP!RestoreCheckpoint,
  Engine!RestoreCheckpoint, EP!CommitReady, Engine!CommitReady,
  EP!CommitStepStarted, Engine!CommitStepStarted, EP!StepReturns,
  Engine!StepReturns, EP!Paused, Engine!Paused, EP!PauseEvents,
  Engine!PauseEvents, EP!PauseCheckpoint, Engine!PauseCheckpoint,
  EP!awaitApprovalFromStep, Engine!awaitApprovalFromStep, EP!pauseFromStep,
  Engine!pauseFromStep, EP!Completed, Engine!Completed,
  EP!CompletionCheckpoint, Engine!CompletionCheckpoint, EP!CommitComplete,
  Engine!CommitComplete, EP!CommitReadyNext, Engine!CommitReadyNext,
  EP!Retryable, Engine!Retryable, EP!handleStepFailure,
  Engine!handleStepFailure, EP!succeedRun, Engine!succeedRun,
  EP!CommitRejected, Engine!CommitRejected, EP!Crash, Engine!Crash,
  EP!StoreQueued, Engine!StoreQueued, EP!StoreRunning, Engine!StoreRunning,
  EP!StorePause, Engine!StorePause, EP!StoreDecision, Engine!StoreDecision,
  EP!StoreReady, Engine!StoreReady, EP!StoreStepStarted,
  Engine!StoreStepStarted, EP!StoreAwait, Engine!StoreAwait,
  EP!StorePauseStep, Engine!StorePauseStep, EP!StoreComplete,
  Engine!StoreComplete, EP!StoreReadyNext, Engine!StoreReadyNext,
  EP!StoreStepFailure, Engine!StoreStepFailure, EP!StoreSucceeded,
  Engine!StoreSucceeded, EP!NextReady, Engine!NextReady, EP!Rescheduled,
  Engine!Rescheduled, EP!Failed, Engine!Failed, EP!Raises, Engine!Raises,
  EP!Stores, Engine!Stores, EP!AnswerLost, Engine!AnswerLost,
  EP!Advance, Engine!Advance, EP!Invoke, Engine!Invoke, EP!Next, Engine!Next
<1>1. EP!Init <=> Engine!Init
  BY Zenon
<1>2. EP!Next <=> Engine!Next
  BY Zenon
<1>3. EP!vars = Engine!vars
  BY Zenon
<1>4. ASSUME NEW d
      PROVE  /\ EP!CreateRun(d) <=> Engine!CreateRun(d)
             /\ EP!executeRun(d) <=> Engine!executeRun(d)
             /\ EP!queueRun(d) <=> Engine!queueRun(d)
             /\ EP!resumeRun(d) <=> Engine!resumeRun(d)
             /\ EP!queueResumeRun(d) <=> Engine!queueResumeRun(d)
             /\ EP!Advance(d) <=> Engine!Advance(d)
             /\ EP!CommitRejected(d) <=> Engine!CommitRejected(d)
             /\ EP!AnswerLost(d) <=> Engine!AnswerLost(d)
             /\ EP!Crash(d) <=> Engine!Crash(d)
             /\ \A a, decision : EP!decideApproval(d, a, decision)
                                   <=> Engine!decideApproval(d, a, decision)
  <2>1. EP!CreateRun(d) <=> Engine!CreateRun(d)
    BY Zenon
  <2>2. EP!executeRun(d) <=> Engine!executeRun(d)
    BY Zenon
  <2>3. EP!queueRun(d) <=> Engine!queueRun(d)
    BY Zenon
  <2>4. EP!resumeRun(d) <=> Engine!resumeRun(d)
    BY Zenon
  <2>5. EP!queueResumeRun(d) <=> Engine!queueResumeRun(d)
    BY Zenon
  <2>6. EP!Advance(d) <=> Engine!Advance(d)
    BY Zenon
  <2>7. EP!CommitRejected(d) <=> Engine!CommitRejected(d)
    BY Zenon
  <2>8. EP!Crash(d) <=> Engine!Crash(d)
    BY Zenon
  <2>9. \A a, decision : EP!decideApproval(d, a, decision)
                            <=> Engine!decideApproval(d, a, decision)
    BY Zenon
  <2>10. EP!AnswerLost(d) <=> Engine!AnswerLost(d)
    BY Zenon
  <2> QED BY ONLY <2>1, <2>2, <2>3, <2>4, <2>5, <2>6, <2>7, <2>8, <2>9, <2>10, Zenon
<1> QED BY ONLY <1>1, <1>2, <1>3, <1>4, Zenon

\* So are the properties.
LEMMA SameProperties ==
  /\ EP!TransitionsAllowed <=> Engine!TransitionsAllowed
  /\ EP!DecidedOnce <=> Engine!DecidedOnce
  /\ EP!RunWellFormed <=> Engine!RunWellFormed
<1> USE DEF
  EP!Steps, Engine!Steps, EP!RunMayBecome, Engine!RunMayBecome,
  EP!StepMayBecome, Engine!StepMayBecome, EP!runTransitions,
  Engine!runTransitions, EP!stepTransitions, Engine!stepTransitions,
  EP!ApprovalStatus, Engine!ApprovalStatus, EP!Decisions, Engine!Decisions,
  EP!Event, Engine!Event, EP!approvalDecisionToEventName,
  Engine!approvalDecisionToEventName, EP!BehindCursor, Engine!BehindCursor,
  EP!AheadOfCursor, Engine!AheadOfCursor, EP!AtCursor, Engine!AtCursor,
  EP!EndedConsistently, Engine!EndedConsistently, EP!WellFormed,
  Engine!WellFormed, EP!RunWellFormed, Engine!RunWellFormed,
  EP!TransitionAllowed, Engine!TransitionAllowed, EP!TransitionsAllowed,
  Engine!TransitionsAllowed, EP!DecisionEvents, Engine!DecisionEvents,
  EP!DecidedOnce, Engine!DecidedOnce, EP!Cardinality, Engine!Cardinality
<1>1. EP!TransitionsAllowed <=> Engine!TransitionsAllowed
  BY Zenon
<1>2. EP!DecidedOnce <=> Engine!DecidedOnce
  BY Zenon
<1>3. EP!RunWellFormed <=> Engine!RunWellFormed
  BY Zenon
<1> QED BY ONLY <1>1, <1>2, <1>3

\* And the actions of the two instances of the queue.
LEMMA SameQueue ==
  /\ QP!Init <=> Queue!Init
  /\ QP!Next <=> Queue!Next
  /\ QP!vars = Queue!vars
<1> USE DEF
  QP!Stamps, Queue!Stamps, QP!JobKind, Queue!JobKind, QP!JobStatus,
  Queue!JobStatus, QP!Settled, Queue!Settled, QP!JobType, Queue!JobType,
  QP!HoldingPc, Queue!HoldingPc, QP!At, Queue!At, QP!Polling, Queue!Polling,
  QP!Stopped, Queue!Stopped, QP!Init, Queue!Init, QP!enqueue, Queue!enqueue,
  QP!Available, Queue!Available, QP!SelectCandidate, Queue!SelectCandidate,
  QP!StillQueued, Queue!StillQueued, QP!StoreClaim, Queue!StoreClaim,
  QP!StoreCompleted, Queue!StoreCompleted, QP!StoreFailed, Queue!StoreFailed,
  QP!Throws, Queue!Throws, QP!QueueAnswerLost, Queue!QueueAnswerLost,
  QP!Throw, Queue!Throw, QP!ClaimCandidate, Queue!ClaimCandidate, QP!WorkEnds,
  Queue!WorkEnds, QP!updateJobStatus, Queue!updateJobStatus, QP!complete, Queue!complete, QP!fail, Queue!fail,
  QP!QueueRejects, Queue!QueueRejects, QP!Stop, Queue!Stop, QP!Start,
  Queue!Start, QP!Work, Queue!Work, QP!Next, Queue!Next, QP!vars, Queue!vars
<1>1. QP!Init <=> Queue!Init
  BY Zenon
<1>2. QP!Next <=> Queue!Next
  BY Zenon
<1>3. QP!vars = Queue!vars
  BY Zenon
<1> QED BY ONLY <1>1, <1>2, <1>3

\* Words of the engine that both instances have.
LEMMA SameWords ==
  /\ EP!Waiting = Engine!Waiting /\ EP!LoopPc = Engine!LoopPc
  /\ EP!Absent = Engine!Absent /\ EP!Decisions = Engine!Decisions
  /\ EP!PendingApproval = Engine!PendingApproval
BY Zenon DEF EP!Waiting, Engine!Waiting, EP!LoopPc, Engine!LoopPc, EP!Absent,
   Engine!Absent, EP!Decisions, Engine!Decisions, EP!ApprovalStatus,
   Engine!ApprovalStatus, EP!PendingApproval, Engine!PendingApproval

-----------------------------------------------------------------------------
(* What a step does to the call of its driver, in the words of this module *)

WorkerOps   == {"execute", "resume"}
OperatorOps == {"queue", "queueResume", "decide"}

\* Who makes which calls, and where these calls may be.
CallFits(d) ==
  InCall(d) =>
    /\ d \in Workers => call[d].op \in WorkerOps
    /\ d \in Operators => call[d].op \in OperatorOps
    /\ call[d].pc \in Engine!LoopPc \cup {"commitRunning"} => call[d].op \in WorkerOps
    /\ call[d].pc = "commitQueued" => call[d].op # "decide"
    /\ call[d].pc = "commitDecision" => call[d].op = "decide"
    /\ call[d].pc # "commitPause"

Others(d) == \A e \in Drivers : e # d => call'[e] = call[e]

RowKept == run' = run /\ log' = log /\ approvals' = approvals

\* A call that is over left nothing but how it ended.
Ends(d, outcome) ==
  call'[d].pc = outcome /\ call'[d].snap.status = Engine!Absent

GoesOn(d, status) ==
  /\ InCall(d)' /\ call'[d].op = call[d].op
  /\ call'[d].snap.status = status

Reads(d) ==
  /\ RowKept
  /\ \/ Ends(d, "threw") /\ (call[d].op = "queueResume" => Engine!PendingApproval # 0)
     \/ /\ Ends(d, "returned")
        /\ call[d].op = "queueResume" /\ call[d].snap.status # "paused"
     \/ GoesOn(d, call[d].snap.status)

Queues(d) ==
  /\ run'.status = "queued" /\ approvals' = approvals
  /\ call[d].op # "decide"
  /\ IF call[d].op \in WorkerOps THEN GoesOn(d, "queued") ELSE Ends(d, "returned")

Executing(d) ==
  /\ call[d].op \in WorkerOps
  /\ run'.status = "running" /\ approvals' = approvals
  /\ GoesOn(d, "running")

Finishes(d) ==
  /\ call[d].op \in WorkerOps
  /\ run'.status \in {"paused", "succeeded", "failed"}
  /\ Ends(d, "returned")
  /\ \/ approvals' = approvals
     \/ \E i : approvals' = Append(approvals, [step |-> i, status |-> "pending"])

Decides(d) ==
  /\ call[d].op = "decide" /\ call[d].snap.status = "paused"
  /\ Ends(d, "returned")
  /\ \E a \in DOMAIN approvals, decision \in Engine!Decisions :
       /\ approvals' = [approvals EXCEPT ![a].status = decision]
       /\ run'.status = IF decision = "approved" THEN "paused" ELSE "cancelled"

\* A call that is over fits.
LEMMA EndsFits ==
  ASSUME NEW d \in Drivers, NEW outcome \in {"idle", "returned", "threw"},
         EP!EndsAs(d, outcome)
  PROVE  Ends(d, outcome) /\ ~InCall(d)' /\ CallFits(d)'
<1>1. call'[d].pc = outcome /\ call'[d].snap.status = Engine!Absent
  BY EP!EndedFields, Assumptions, SameWords DEF EP!EndsAs
<1>2. ~InCall(d)'
  BY <1>1 DEF InCall, Engine!Waiting
<1> QED BY <1>1, <1>2 DEF Ends, CallFits

\* A call that goes on to another await still fits its driver.
LEMMA GoesToFits ==
  ASSUME NEW d \in Drivers, CallFits(d), InCall(d), NEW status,
         NEW pc \in EP!LoopPc \cup {"commitQueued", "commitRunning", "commitDecision"},
         EP!GoesTo(d, pc, status),
         pc \in EP!LoopPc \cup {"commitRunning"} => call[d].op \in WorkerOps,
         pc = "commitQueued" => call[d].op # "decide",
         pc = "commitDecision" => call[d].op = "decide"
  PROVE  GoesOn(d, status) /\ CallFits(d)'
<1>1. /\ call'[d].pc = pc /\ call'[d].op = call[d].op
      /\ call'[d].snap.status = status
  BY DEF EP!GoesTo
<1>2. InCall(d)'
  BY <1>1 DEF InCall, Engine!Waiting, EP!LoopPc
<1>3. pc # "commitPause"
  BY DEF EP!LoopPc
<1> QED BY <1>1, <1>2, <1>3, SameWords DEF GoesOn, CallFits

\* One step of an engine call, by what it does.
LEMMA AdvanceStep ==
  ASSUME EP!IInv, NEW d \in Drivers, CallFits(d), Engine!Advance(d)
  PROVE  /\ InCall(d) /\ Others(d) /\ CallFits(d)'
         /\ Reads(d) \/ Queues(d) \/ Executing(d) \/ Finishes(d) \/ Decides(d)
<1> DEFINE c == call[d]
<1>1. EP!Advance(d)
  BY SameActions
<1>2. EP!Others(d) => Others(d)
  BY DEF EP!Others, Others
<1>3. EP!StoreKept => RowKept
  BY DEF EP!StoreKept, RowKept
<1>4. c.pc \notin {"idle", "returned", "threw"} => InCall(d)
  BY DEF InCall, Engine!Waiting
<1>5. CASE EP!ReadPending(d)
  <2>1. /\ c.pc = "readPending" /\ Others(d) /\ RowKept /\ InCall(d)
    BY <1>2, <1>3, <1>4, <1>5, EP!ReadPendingStep, Assumptions
  <2>2. \/ EP!EndsAs(d, "threw") /\ (c.op = "queueResume" => EP!PendingApproval # 0)
        \/ /\ EP!EndsAs(d, "returned")
           /\ c.op = "queueResume" /\ c.snap.status # "paused"
        \/ EP!GoesTo(d, "commitQueued", c.snap.status) /\ c.op # "decide"
        \/ EP!GoesTo(d, "commitDecision", c.snap.status) /\ c.op = "decide"
    BY <1>5, EP!ReadPendingStep, Assumptions
  <2>3. {"commitQueued", "commitDecision"} \cap EP!LoopPc = {}
    BY DEF EP!LoopPc
  <2> HIDE DEF c
  <2>4. CASE EP!GoesTo(d, "commitQueued", c.snap.status) /\ c.op # "decide"
    BY <2>1, <2>3, <2>4, GoesToFits DEF Reads, c
  <2>5. CASE EP!GoesTo(d, "commitDecision", c.snap.status) /\ c.op = "decide"
    BY <2>1, <2>3, <2>5, GoesToFits DEF Reads, c
  <2> QED BY <2>1, <2>2, <2>4, <2>5, EndsFits, SameWords DEF Reads, c
<1>6. CASE EP!CommitQueued(d)
  <2>1. /\ c.pc = "commitQueued" /\ Others(d) /\ InCall(d)
        /\ run'.status = "queued" /\ approvals' = approvals
        /\ IF c.op \in {"queue", "queueResume"}
           THEN EP!EndsAs(d, "returned")
           ELSE EP!GoesTo(d, "commitRunning", "queued")
    BY <1>2, <1>4, <1>6, EP!CommitQueuedStep, Assumptions
  <2>2. /\ c.op \in WorkerOps \cup {"queue", "queueResume"}
        /\ c.op \in WorkerOps <=> c.op \notin {"queue", "queueResume"}
        /\ c.op # "decide"
    BY <2>1 DEF CallFits, Drivers, WorkerOps, OperatorOps
  <2>3. "commitRunning" \notin EP!LoopPc
    BY DEF EP!LoopPc
  <2> HIDE DEF c
  <2>4. CASE c.op \in WorkerOps
    BY <2>1, <2>2, <2>3, <2>4, GoesToFits DEF Queues, c
  <2>5. CASE c.op \notin WorkerOps
    BY <2>1, <2>2, <2>5, EndsFits DEF Queues, c
  <2> QED BY <2>4, <2>5
<1>7. CASE EP!CommitRunning(d)
  <2>1. /\ c.pc = "commitRunning" /\ Others(d) /\ InCall(d)
        /\ run'.status = "running" /\ approvals' = approvals
        /\ EP!GoesTo(d, "restore", "running")
    BY <1>2, <1>4, <1>7, EP!CommitRunningStep, Assumptions
  <2>2. c.op \in WorkerOps
    BY <2>1 DEF CallFits
  <2>3. "restore" \in EP!LoopPc
    BY DEF EP!LoopPc
  <2> QED BY <2>1, <2>2, <2>3, GoesToFits DEF Executing, EP!LoopPc
<1>8. CASE EP!CommitPause(d)
  <2>1. c.pc = "commitPause" /\ InCall(d)
    BY <1>4, <1>8, EP!CommitPauseStep, Assumptions
  <2> QED BY <2>1 DEF CallFits
<1>9. CASE EP!CommitDecision(d)
  <2>1. /\ c.pc = "commitDecision" /\ Others(d) /\ InCall(d)
        /\ c.snap.status = "paused"
        /\ \/ EP!EndsAs(d, "threw") /\ RowKept
           \/ /\ EP!EndsAs(d, "returned")
              /\ c.approval \in DOMAIN approvals /\ c.decision \in EP!Decisions
              /\ approvals' = [approvals EXCEPT ![c.approval].status = c.decision]
              /\ c.decision = "approved" => run'.status = "paused"
              /\ c.decision # "approved" => run'.status = "cancelled"
    BY <1>2, <1>3, <1>4, <1>9, EP!CommitDecisionStep, Assumptions
  <2>2. c.op = "decide"
    BY <2>1 DEF CallFits
  <2> HIDE DEF c
  <2>3. CASE EP!EndsAs(d, "threw") /\ RowKept
    BY <2>1, <2>2, <2>3, EndsFits DEF Reads, c
  <2>4. CASE ~(EP!EndsAs(d, "threw") /\ RowKept)
    <3>1. Ends(d, "returned") /\ CallFits(d)'
      BY <2>1, <2>4, EndsFits
    <3>2. Decides(d)
      BY <2>1, <2>2, <2>4, <3>1, SameWords DEF Decides, c
    <3> QED BY <2>1, <3>1, <3>2
  <2> QED BY <2>3, <2>4
<1>10. CASE EP!RestoreCheckpoint(d) \/ EP!StepReturns(d)
  <2>1. /\ c.pc \in {"restore", "executing"} /\ Others(d) /\ RowKept /\ InCall(d)
        /\ \/ EP!EndsAs(d, "threw")
           \/ \E pc \in EP!LoopPc : EP!GoesTo(d, pc, c.snap.status)
    BY <1>2, <1>3, <1>4, <1>10, EP!LoopReadStep, Assumptions
  <2>2. c.op \in WorkerOps
    BY <2>1, SameWords DEF CallFits, EP!LoopPc
  <2>3. c.op # "queueResume"
    BY <2>2 DEF WorkerOps
  <2> HIDE DEF c
  <2>4. CASE EP!EndsAs(d, "threw")
    BY <2>1, <2>3, <2>4, EndsFits DEF Reads, c
  <2>5. ASSUME NEW pc \in EP!LoopPc, EP!GoesTo(d, pc, c.snap.status)
        PROVE  GoesOn(d, c.snap.status) /\ CallFits(d)'
    <3>1. pc \notin {"commitQueued", "commitDecision"}
      BY DEF EP!LoopPc
    <3> QED BY <2>1, <2>2, <2>5, <3>1, GoesToFits DEF c
  <2> QED BY <2>1, <2>4, <2>5 DEF Reads, c
<1>11. CASE EP!LoopCommits(d)
  <2>1. /\ c.pc \in EP!LoopPc /\ Others(d) /\ InCall(d)
        /\ EP!LoopGoesOn(d) \/ EP!LoopEnds(d)
    BY <1>2, <1>4, <1>11, EP!LoopCommitStep, Assumptions DEF EP!LoopPc
  <2>2. c.op \in WorkerOps
    BY <2>1, SameWords DEF CallFits
  <2>3. CASE EP!LoopGoesOn(d)
    <3>1. PICK pc \in EP!LoopPc : EP!GoesTo(d, pc, "running")
      BY <2>3 DEF EP!LoopGoesOn
    <3>2. pc \notin {"commitQueued", "commitDecision"}
      BY <3>1 DEF EP!LoopPc
    <3>3. GoesOn(d, "running") /\ CallFits(d)'
      BY <2>1, <2>2, <3>1, <3>2, GoesToFits
    <3> QED BY <2>1, <2>2, <2>3, <3>3 DEF EP!LoopGoesOn, EP!KeepsRunning, Executing
  <2>4. CASE EP!LoopEnds(d)
    <3>1. Ends(d, "returned") /\ CallFits(d)'
      BY <2>4, EndsFits DEF EP!LoopEnds
    <3> QED BY <2>1, <2>2, <2>4, <3>1 DEF EP!LoopEnds, EP!StopsRun, Finishes
  <2> QED BY <2>1, <2>3, <2>4
<1> QED BY <1>1, <1>5, <1>6, <1>7, <1>8, <1>9, <1>10, <1>11
        DEF EP!Advance, EP!LoopCommits

-----------------------------------------------------------------------------
(* Calls that begin, fail or die *)

\* createRun is over in one step.
LEMMA CreateStep ==
  ASSUME EP!IInv, NEW d \in Drivers, Engine!CreateRun(d)
  PROVE  /\ ~InCall(d) /\ Others(d) /\ ~InCall(d)' /\ CallFits(d)'
         /\ Ends(d, "returned")
         /\ run.status = Engine!Absent /\ run'.status = "pending"
         /\ approvals' = approvals
<1>1. EP!CreateRun(d)
  BY SameActions
<1>2. /\ call[d].pc \in EP!Waiting /\ EP!Others(d) /\ EP!EndsAs(d, "returned")
      /\ run.status = EP!Absent /\ run'.status = "pending"
      /\ approvals' = approvals
  BY <1>1, EP!CreateRunStep, Assumptions
<1>3. Others(d) /\ ~InCall(d)
  BY <1>2, SameWords DEF EP!Others, Others, InCall
<1> QED BY <1>2, <1>3, EndsFits, SameWords

\* A call that begins has read the run.
LEMMA EnterFacts ==
  ASSUME EP!IInv, NEW d \in Drivers, NEW op, NEW pc, NEW a, NEW decision,
         EP!Enter(d, op, pc, a, decision), pc # "idle"
  PROVE  /\ ~InCall(d) /\ Others(d) /\ RowKept
         /\ run.status # Engine!Absent
         /\ pc \in Engine!Waiting => Ends(d, pc) /\ ~InCall(d)' /\ CallFits(d)'
         /\ pc \notin Engine!Waiting =>
              /\ InCall(d)' /\ call'[d].pc = pc
              /\ call'[d].op = op /\ call'[d].snap = run
<1>1. /\ call[d].pc \in EP!Waiting /\ EP!Others(d) /\ EP!StoreKept
      /\ run.status # EP!Absent
      /\ pc \in EP!Waiting => EP!EndsAs(d, pc)
      /\ pc \notin EP!Waiting =>
           call'[d].pc = pc /\ call'[d].op = op /\ call'[d].snap = run
  BY EP!EnterStep, Assumptions
<1>2. Others(d) /\ ~InCall(d) /\ RowKept
  BY <1>1, SameWords DEF EP!Others, Others, InCall, EP!StoreKept, RowKept
<1>3. pc \in Engine!Waiting => Ends(d, pc) /\ ~InCall(d)' /\ CallFits(d)'
  BY <1>1, EndsFits, SameWords DEF Engine!Waiting
<1>4. pc \notin Engine!Waiting =>
        /\ InCall(d)' /\ call'[d].pc = pc
        /\ call'[d].op = op /\ call'[d].snap = run
  BY <1>1, SameWords DEF InCall
<1> QED BY <1>1, <1>2, <1>3, <1>4, SameWords

\* The calls of a worker.
LEMMA WorkerCallStep ==
  ASSUME EP!IInv, NEW w \in Workers, Engine!executeRun(w) \/ Engine!resumeRun(w)
  PROVE  /\ ~InCall(w) /\ Others(w) /\ RowKept /\ CallFits(w)'
         /\ run.status # Engine!Absent
         /\ \/ InCall(w)' /\ call'[w].snap = run
            \/ ~InCall(w)' /\ call'[w].snap.status = Engine!Absent
<1>1. w \in Drivers /\ w \notin Operators
  BY ServiceAssumption DEF Drivers
<1>2. EP!executeRun(w) \/ EP!resumeRun(w)
  BY SameActions
<1>3. PICK op \in WorkerOps,
           pc \in {"threw", "returned", "commitQueued", "commitRunning",
                   "restore", "readPending"} :
        EP!Enter(w, op, pc, 0, "pending")
  <2>1. EP!ExecuteEntry(run.status)
          \in {"threw", "returned", "commitQueued", "commitRunning", "restore"}
    BY DEF EP!ExecuteEntry
  <2>2. (IF run.status = "paused" THEN "readPending" ELSE "threw")
          \in {"readPending", "threw"}
    OBVIOUS
  <2>3. CASE EP!executeRun(w)
    BY <2>1, <2>3 DEF EP!executeRun, WorkerOps
  <2>4. CASE EP!resumeRun(w)
    BY <2>2, <2>4 DEF EP!resumeRun, WorkerOps
  <2> QED BY <1>2, <2>3, <2>4
<1>4. /\ ~InCall(w) /\ Others(w) /\ RowKept
      /\ run.status # Engine!Absent
      /\ pc \in Engine!Waiting => Ends(w, pc) /\ ~InCall(w)' /\ CallFits(w)'
      /\ pc \notin Engine!Waiting =>
           /\ InCall(w)' /\ call'[w].pc = pc
           /\ call'[w].op = op /\ call'[w].snap = run
  BY <1>1, <1>3, EnterFacts
<1>5. CASE pc \in Engine!Waiting
  BY <1>4, <1>5 DEF Ends
<1>6. CASE pc \notin Engine!Waiting
  <2>1. CallFits(w)'
    BY <1>1, <1>3, <1>4, <1>6 DEF CallFits, WorkerOps
  <2> QED BY <1>4, <1>6, <2>1
<1> QED BY <1>5, <1>6

\* The calls of an operator.
LEMMA OperatorCallStep ==
  ASSUME EP!IInv, NEW o \in Operators, NEW op \in OperatorOps,
         \/ op = "queue" /\ Engine!queueRun(o)
         \/ op = "queueResume" /\ Engine!queueResumeRun(o)
         \/ /\ op = "decide"
            /\ \E a \in DOMAIN approvals, decision \in Engine!Decisions :
                 Engine!decideApproval(o, a, decision)
  PROVE  /\ ~InCall(o) /\ Others(o) /\ RowKept /\ CallFits(o)'
         /\ run.status # Engine!Absent
         /\ op = "decide" => approvals # <<>>
         /\ \/ /\ InCall(o)' /\ call'[o].op = op /\ call'[o].snap = run
               /\ op = "decide" => run.status = "paused"
               /\ op = "queue" => run.status = "pending"
            \/ /\ ~InCall(o)' /\ call'[o].snap.status = Engine!Absent
               /\ op # "queueResume"
<1>1. o \in Drivers /\ o \notin Workers
  BY ServiceAssumption DEF Drivers
<1>2. PICK pc, a, decision :
        /\ pc \in {"threw", "returned", "commitQueued", "readPending"}
        /\ EP!Enter(o, op, pc, a, decision)
        /\ op = "queue" => pc \in {"returned", "commitQueued"}
        /\ op = "queue" /\ pc = "commitQueued" => run.status = "pending"
        /\ op = "queueResume" => pc = "readPending"
        /\ op = "decide" => pc \in {"threw", "readPending"} /\ a \in DOMAIN approvals
        /\ op = "decide" /\ pc = "readPending" => run.status = "paused"
  <2>1. CASE op = "queue" /\ Engine!queueRun(o)
    <3> DEFINE pc == IF run.status = "pending" THEN "commitQueued" ELSE "returned"
    <3>1. EP!Enter(o, "queue", pc, 0, "pending")
      BY <2>1, SameActions DEF EP!queueRun
    <3>2. /\ pc \in {"returned", "commitQueued"}
          /\ pc = "commitQueued" => run.status = "pending"
      OBVIOUS
    <3> HIDE DEF pc
    <3> QED BY <2>1, <3>1, <3>2
  <2>2. CASE op = "queueResume" /\ Engine!queueResumeRun(o)
    <3>1. EP!Enter(o, "queueResume", "readPending", 0, "pending")
      BY <2>2, SameActions DEF EP!queueResumeRun
    <3> QED BY <2>2, <3>1
  <2>3. ASSUME op = "decide", NEW a \in DOMAIN approvals,
               NEW decision \in Engine!Decisions,
               Engine!decideApproval(o, a, decision)
        PROVE  \E pc \in {"threw", "readPending"} :
                 /\ EP!Enter(o, op, pc, a, decision)
                 /\ pc = "readPending" => run.status = "paused"
    <3> DEFINE pc == IF run.status = "paused" THEN "readPending" ELSE "threw"
    <3>1. EP!Enter(o, op, pc, a, decision)
      BY <2>3, SameActions DEF EP!decideApproval
    <3>2. /\ pc \in {"threw", "readPending"}
          /\ pc = "readPending" => run.status = "paused"
      OBVIOUS
    <3> HIDE DEF pc
    <3> QED BY <3>1, <3>2
  <2>4. op = "decide" => op # "queue" /\ op # "queueResume"
    OBVIOUS
  <2> QED BY <2>1, <2>2, <2>3, <2>4
<1>3. /\ ~InCall(o) /\ Others(o) /\ RowKept
      /\ run.status # Engine!Absent
      /\ pc \in Engine!Waiting => Ends(o, pc) /\ ~InCall(o)' /\ CallFits(o)'
      /\ pc \notin Engine!Waiting =>
           /\ InCall(o)' /\ call'[o].pc = pc
           /\ call'[o].op = op /\ call'[o].snap = run
  BY <1>1, <1>2, EnterFacts
<1>4. op = "decide" => approvals # <<>>
  BY <1>2
<1>5. CASE pc \in Engine!Waiting
  BY <1>2, <1>3, <1>4, <1>5 DEF Ends, Engine!Waiting
<1>6. CASE pc \notin Engine!Waiting
  <2>1. pc \in {"commitQueued", "readPending"}
    BY <1>2, <1>6 DEF Engine!Waiting
  <2>2. pc = "commitQueued" => op = "queue"
    BY <1>2 DEF OperatorOps
  <2>3. pc \notin Engine!LoopPc
    BY <2>1 DEF Engine!LoopPc
  <2>4. CallFits(o)'
    BY <1>1, <1>3, <1>6, <2>1, <2>2, <2>3 DEF CallFits
  <2>5. /\ op = "decide" => run.status = "paused"
        /\ op = "queue" => run.status = "pending"
    BY <1>2, <2>1
  <2> QED BY <1>3, <1>4, <1>6, <2>4, <2>5
<1> QED BY <1>5, <1>6

\* A rejected commit and the death of a driver.
LEMMA FaultFacts ==
  ASSUME EP!IInv, NEW d \in Drivers, CallFits(d),
         Engine!CommitRejected(d) \/ Engine!Crash(d)
  PROVE  /\ InCall(d) /\ Others(d) /\ RowKept /\ CallFits(d)'
         /\ \/ Ends(d, "threw") /\ ~Engine!Crash(d) /\ ~InCall(d)'
            \/ Ends(d, "idle") /\ Engine!Crash(d) /\ ~InCall(d)'
            \/ GoesOn(d, call[d].snap.status)
<1>1. EP!CommitRejected(d) \/ EP!Crash(d)
  BY SameActions
<1>2. /\ call[d].pc \notin EP!Waiting /\ EP!Others(d) /\ EP!StoreKept
      /\ \/ EP!EndsAs(d, "threw") /\ ~EP!Crash(d)
         \/ EP!EndsAs(d, "idle") /\ EP!Crash(d)
         \/ /\ call[d].pc \in EP!LoopPc
            /\ EP!GoesTo(d, "commitStepFailure", call[d].snap.status)
  BY <1>1, EP!FaultStep, Assumptions
<1>3. Others(d) /\ InCall(d) /\ RowKept
  BY <1>2, SameWords DEF EP!Others, Others, InCall, EP!StoreKept, RowKept
<1>4. CASE EP!EndsAs(d, "threw") /\ ~EP!Crash(d)
  BY <1>3, <1>4, EndsFits, SameActions
<1>5. CASE EP!EndsAs(d, "idle") /\ EP!Crash(d)
  BY <1>3, <1>5, EndsFits, SameActions
<1>6. CASE /\ call[d].pc \in EP!LoopPc
           /\ EP!GoesTo(d, "commitStepFailure", call[d].snap.status)
  <2>1. "commitStepFailure" \in EP!LoopPc
    BY DEF EP!LoopPc
  <2>2. call[d].op \in WorkerOps
    BY <1>3, <1>6, SameWords DEF CallFits
  <2> QED BY <1>3, <1>6, <2>1, <2>2, GoesToFits
<1> QED BY <1>2, <1>4, <1>5, <1>6

\* A commit that is stored although its call does not learn it.
Loses(d) ==
  /\ lost' # 0
  /\ Ends(d, "threw") \/ GoesOn(d, call[d].snap.status)
  /\ \/ call[d].op \in WorkerOps
     \/ run'.status = "queued"
     \/ run'.status # "running" /\ call[d].snap.status = "paused"

LEMMA LosesStep ==
  ASSUME EP!IInv, NEW d \in Drivers, CallFits(d), Engine!AnswerLost(d)
  PROVE  InCall(d) /\ Others(d) /\ CallFits(d)' /\ Loses(d)
<1>1. EP!AnswerLost(d)
  BY SameActions
<1>2. /\ call[d].pc \notin EP!Waiting /\ EP!Others(d) /\ lost' # 0
      /\ \/ EP!EndsAs(d, "threw")
         \/ /\ call[d].pc \in EP!LoopPc
            /\ EP!GoesTo(d, "commitStepFailure", call[d].snap.status)
      /\ \/ call[d].pc \in EP!LoopPc \cup {"commitRunning"}
         \/ run'.status # "running" /\ call[d].pc = "commitPause"
         \/ run'.status = "queued"
         \/ run'.status # "running" /\ call[d].snap.status = "paused"
  BY <1>1, EP!AnswerLostStep, Assumptions
<1>3. Others(d) /\ InCall(d)
  BY <1>2, SameWords DEF EP!Others, Others, InCall
<1>4. /\ call[d].pc \in EP!LoopPc \cup {"commitRunning"} => call[d].op \in WorkerOps
      /\ call[d].pc # "commitPause"
  BY <1>3, SameWords DEF CallFits
<1>5. CASE EP!EndsAs(d, "threw")
  BY <1>2, <1>3, <1>4, <1>5, EndsFits DEF Loses
<1>6. CASE /\ call[d].pc \in EP!LoopPc
           /\ EP!GoesTo(d, "commitStepFailure", call[d].snap.status)
  <2>1. "commitStepFailure" \in EP!LoopPc
    BY DEF EP!LoopPc
  <2> QED BY <1>2, <1>3, <1>4, <1>6, <2>1, GoesToFits DEF Loses
<1> QED BY <1>2, <1>5, <1>6

-----------------------------------------------------------------------------
(* The composition takes steps of the engine and of the queue *)

\* What the services leave alone of the engine.
LEMMA EngineVars ==
  /\ engineVars = EP!vars
  /\ UNCHANGED engineVars => RowKept /\ call' = call
BY DEF engineVars, EP!vars, RowKept

\* Whatever the services do is a step of the engine or leaves it alone.
LEMMA EngineStep == ASSUME [Next]_vars PROVE [EP!Next]_(EP!vars)
<1>1. ASSUME NEW d \in Drivers,
             \/ Engine!CreateRun(d) \/ Engine!executeRun(d) \/ Engine!queueRun(d)
             \/ Engine!resumeRun(d) \/ Engine!queueResumeRun(d)
             \/ \E a \in DOMAIN approvals, decision \in Engine!Decisions :
                  Engine!decideApproval(d, a, decision)
             \/ Engine!Advance(d) \/ Engine!CommitRejected(d)
             \/ Engine!AnswerLost(d) \/ Engine!Crash(d)
      PROVE  EP!Next
  BY <1>1, SameActions DEF Engine!Next, Engine!Invoke
<1>2. UNCHANGED engineVars => UNCHANGED EP!vars
  BY DEF engineVars, EP!vars
<1>3. CASE UNCHANGED vars
  BY <1>2, <1>3 DEF vars
<1>4. ASSUME NEW o \in Operators, Request(o) \/ Handle(o) \/ RequestDies(o)
      PROVE  [EP!Next]_(EP!vars)
  BY <1>1, <1>2, <1>4 DEF Request, StartRun, ResumeRun, DecideApproval, Handle,
     EnqueueStart, QueueRun, ReadPending, EnqueueResume, QueueResumeRun, Enqueue,
     RequestDies, Drivers
<1>5. ASSUME NEW w \in Workers,
             Work(w) \/ QueueThrows(w) \/ WorkerDies(w) \/ WorkerStarts(w)
      PROVE  [EP!Next]_(EP!vars)
  BY <1>1, <1>2, <1>5 DEF Work, Claim, GetRun, executeClaimedJob, WorkEnds, Settle,
     QueueThrows, WorkerDies, WorkerStarts, Drivers
<1>6. ASSUME NEW d \in Drivers, Advance(d) \/ CallFaults(d)
      PROVE  [EP!Next]_(EP!vars)
  BY <1>1, <1>6 DEF Advance, CallFaults
<1> QED BY <1>3, <1>4, <1>5, <1>6 DEF Next

-----------------------------------------------------------------------------
(* What a step does to the requests, the jobs and the workers *)

\* A worker is inside an engine call only while it works on a job.
Attached(w) == InCall(w) => worker[w].pc = "working" /\ task[w] = "called"

BInv == /\ EP!IInv /\ QP!IInv /\ TypeOK
        /\ \A d \in Drivers : CallFits(d)

EngineKept == RowKept /\ call' = call

OtherWorkers(w) ==
  \A v \in Workers \ {w} : worker'[v] = worker[v] /\ task'[v] = task[v]

OtherRequests(o) == \A p \in Operators \ {o} : request'[p] = request[p]

Holding(w) == worker[w].pc \in Queue!HoldingPc

\* The engine call of worker w threw, or is not over yet.
Concerned(w) ==
  \/ worker[w].pc = "failing"
  \/ /\ worker[w].pc = "working" /\ task[w] = "called"
     /\ InCall(w) \/ call[w].pc = "threw"

\* The steps of a worker.
Idles(w) ==
  EngineKept /\ jobs' = jobs /\ ~Holding(w) /\ ~Holding(w)' /\ ~InCall(w)

Claims(w) ==
  LET j == worker[w].job IN
  /\ EngineKept /\ ~Holding(w) /\ ~InCall(w) /\ worker[w].pc = "claiming"
  /\ worker'[w].pc = "working" /\ worker'[w].job = j /\ task'[w] = "getRun"
  /\ j \in DOMAIN jobs /\ jobs[j].status = "queued"
  /\ DOMAIN jobs' = DOMAIN jobs /\ jobs'[j].status = "claimed"
  /\ \A k \in DOMAIN jobs \ {j} : jobs'[k] = jobs[k]

Looks(w) ==
  /\ EngineKept /\ jobs' = jobs /\ worker' = worker /\ ~InCall(w)
  /\ worker[w].pc = "working"
  /\ task[w] = "getRun" /\ task'[w] = run.status

Calls(w) ==
  /\ RowKept /\ Others(w) /\ jobs' = jobs /\ worker' = worker
  /\ worker[w].pc = "working" /\ ~InCall(w)
  /\ task[w] # "called" /\ task'[w] = "called" /\ CallFits(w)'
  /\ \/ InCall(w)' /\ call'[w].snap = run
     \/ ~InCall(w)' /\ call'[w].snap.status = Engine!Absent

Leaves(w) ==
  /\ EngineKept /\ jobs' = jobs
  /\ worker[w].pc \in {"working", "completing"} /\ ~InCall(w)
  /\ worker'[w].pc \in {"completing", "failing"}
  /\ worker'[w].job = worker[w].job
  /\ Concerned(w) => worker'[w].pc = "failing"

Settles(w) ==
  LET j == worker[w].job IN
  /\ EngineKept /\ worker[w].pc \in {"completing", "failing"}
  /\ ~Holding(w)' /\ ~InCall(w)
  /\ j \in DOMAIN jobs /\ DOMAIN jobs' = DOMAIN jobs
  /\ jobs'[j].status \in Queue!Settled
  /\ worker[w].pc = "failing" => jobs'[j].status = "failed"
  /\ \A k \in DOMAIN jobs \ {j} : jobs'[k] = jobs[k]

Dies(w) ==
  /\ RowKept /\ Others(w) /\ jobs' = jobs
  /\ Holding(w) /\ ~Holding(w)' /\ ~InCall(w)'
  /\ call'[w] = call[w] \/ Ends(w, "idle")

\* A stored claim or completion whose answer is lost.
LosesClaim(w) ==
  LET j == worker[w].job IN
  /\ EngineKept /\ ~Holding(w) /\ ~Holding(w)' /\ ~InCall(w)
  /\ worker[w].pc = "claiming" /\ worker'[w].pc = "stopped"
  /\ j \in DOMAIN jobs /\ jobs[j].status = "queued"
  /\ DOMAIN jobs' = DOMAIN jobs /\ jobs'[j].status = "claimed"
  /\ \A k \in DOMAIN jobs \ {j} : jobs'[k] = jobs[k]

LosesCompletion(w) ==
  LET j == worker[w].job IN
  /\ EngineKept /\ ~InCall(w)
  /\ worker[w].pc = "completing" /\ worker'[w].pc = "failing"
  /\ worker'[w].job = j
  /\ j \in DOMAIN jobs /\ DOMAIN jobs' = DOMAIN jobs
  /\ jobs'[j].status = "completed"
  /\ \A k \in DOMAIN jobs \ {j} : jobs'[k] = jobs[k]

\* What the types say of a worker and its job.
LEMMA WorkerHas ==
  ASSUME BInv, NEW w \in Workers
  PROVE  /\ worker[w].pc \in {"polling", "claiming", "stopped"} \cup Queue!HoldingPc
         /\ worker[w].pc \in Queue!HoldingPc \cup {"claiming"} =>
              worker[w].job \in DOMAIN jobs
         /\ worker[w] = [pc |-> worker[w].pc, job |-> worker[w].job]
         /\ Holding(w) =>
              \/ jobs[worker[w].job].status = "claimed"
              \/ jobs[worker[w].job].status = "completed" /\ worker[w].pc = "failing"
         /\ Attached(w) /\ w \in Drivers /\ w \notin Operators /\ CallFits(w)
         /\ task[w] \in TaskType
<1>1. QP!IInv
  BY DEF BInv
<1>2. /\ worker[w].pc \in {"polling", "claiming", "stopped"} \cup QP!HoldingPc
      /\ worker[w] = QP!At(worker[w].pc, worker[w].job)
      /\ worker[w].pc \in QP!HoldingPc \cup {"claiming"} =>
              worker[w].job \in DOMAIN jobs
  BY <1>1, QP!WorkerFacts, Assumptions
<1>3. QP!HoldingPc = Queue!HoldingPc
  BY DEF QP!HoldingPc, Queue!HoldingPc
<1>4. Holding(w) =>
        \/ jobs[worker[w].job].status = "claimed"
        \/ jobs[worker[w].job].status = "completed" /\ worker[w].pc = "failing"
  BY <1>1, <1>2, <1>3
     DEF QP!IInv, QP!ClaimsExclusive, QP!HeldRow, QP!Holds, Holding
<1> QED BY <1>2, <1>3, <1>4, ServiceAssumption
        DEF QP!At, BInv, TypeOK, Attached, Drivers

\* Two workers do not hold one job.
LEMMA HeldByOne ==
  ASSUME BInv, NEW v \in Workers, NEW w \in Workers, Holding(v), Holding(w),
         worker[v].job = worker[w].job
  PROVE  v = w
<1>1. worker[w].job \in DOMAIN jobs
  BY WorkerHas DEF Holding
<1>2. QP!HoldingPc = Queue!HoldingPc
  BY DEF QP!HoldingPc, Queue!HoldingPc
<1> QED BY <1>1, <1>2 DEF BInv, QP!IInv, QP!ClaimsExclusive, QP!Holds, Holding

\* The types of job rows and workers.
LEMMA QueueTypes ==
  ASSUME BInv
  PROVE  /\ jobs \in Seq(QP!JobType)
         /\ worker \in [Workers -> [pc : {"polling", "claiming", "stopped",
                                          "working", "completing", "failing"},
                                    job : Nat]]
         /\ request \in [Operators -> RequestPc] /\ task \in [Workers -> TaskType]
BY DEF BInv, QP!IInv, QP!TypeOK, QP!HoldingPc, TypeOK

\* A worker that polls finds a job, claims it, or comes too late.
LEMMA ClaimStep ==
  ASSUME BInv, NEW w \in Workers, Claim(w)
  PROVE  request' = request /\ OtherWorkers(w) /\ (Idles(w) \/ Claims(w))
<1> DEFINE j == worker[w].job
<1>1. /\ EngineKept /\ request' = request
      /\ task' = [task EXCEPT ![w] = "getRun"]
  BY EngineVars DEF Claim, TaskAt, EngineKept
<1>2. CASE Queue!SelectCandidate(w)
  <2>1. PICK k \in DOMAIN jobs :
          /\ worker[w].pc = "polling" /\ jobs' = jobs
          /\ worker' = [worker EXCEPT ![w] = Queue!At("claiming", k)]
    BY <1>2 DEF Queue!SelectCandidate
  <2>2. worker'[w].pc = "claiming" /\ OtherWorkers(w)
    BY <1>1, <2>1, QueueTypes DEF OtherWorkers, Queue!At
  <2>3. ~Holding(w) /\ ~Holding(w)'
    BY <2>1, <2>2 DEF Holding, Queue!HoldingPc
  <2> QED BY <1>1, <2>1, <2>2, <2>3, WorkerHas DEF Attached, Idles
<1>3. CASE Queue!ClaimCandidate(w)
  <2>1. /\ worker[w].pc = "claiming"
        /\ IF jobs[j].status = "queued"
           THEN /\ jobs' = [jobs EXCEPT ![j].status = "claimed",
                                        ![j].attempts = @ + 1]
                /\ worker' = [worker EXCEPT ![w].pc = "working"]
           ELSE jobs' = jobs /\ worker' = [worker EXCEPT ![w] = Queue!Polling]
    BY <1>3 DEF Queue!ClaimCandidate, Queue!StoreClaim, Queue!StillQueued
  <2>2. ~Holding(w) /\ ~InCall(w) /\ j \in DOMAIN jobs
    BY <2>1, WorkerHas DEF Attached, Holding, Queue!HoldingPc
  <2>3. OtherWorkers(w)
    BY <1>1, <2>1, QueueTypes DEF OtherWorkers
  <2>4. CASE jobs[j].status = "queued"
    <3>1. /\ DOMAIN jobs' = DOMAIN jobs
          /\ \A k \in DOMAIN jobs \ {j} : jobs'[k] = jobs[k]
      BY <2>1, <2>4, QueueTypes
    <3>2. jobs'[j].status = "claimed"
      <4>1. jobs[j] \in QP!JobType
        BY <2>2, QueueTypes
      <4>2. jobs'[j] = [jobs[j] EXCEPT !.status = "claimed", !.attempts = @ + 1]
        BY <2>1, <2>2, <2>4, QueueTypes
      <4> QED BY <4>1, <4>2 DEF QP!JobType
    <3>3. worker'[w].pc = "working" /\ worker'[w].job = j /\ task'[w] = "getRun"
      BY <1>1, <2>1, <2>4, QueueTypes
    <3> QED BY <1>1, <2>1, <2>2, <2>3, <2>4, <3>1, <3>2, <3>3 DEF Claims
  <2>5. CASE jobs[j].status # "queued"
    <3>1. jobs' = jobs /\ worker'[w].pc = "polling"
      BY <2>1, <2>5, QueueTypes DEF Queue!Polling, Queue!At
    <3>2. ~Holding(w)'
      BY <3>1 DEF Holding, Queue!HoldingPc
    <3> QED BY <1>1, <2>2, <2>3, <3>1, <3>2 DEF Idles
  <2> QED BY <2>4, <2>5
<1> QED BY <1>2, <1>3 DEF Claim

\* A worker on a job reads the run, calls the engine, or is done.
LEMMA TaskSteps ==
  ASSUME BInv, NEW w \in Workers, GetRun(w) \/ executeClaimedJob(w) \/ WorkEnds(w)
  PROVE  request' = request /\ OtherWorkers(w) /\ (Looks(w) \/ Calls(w) \/ Leaves(w))
<1>1. CASE GetRun(w)
  <2>1. /\ worker[w].pc = "working" /\ task[w] = "getRun" /\ EngineKept
        /\ task' = [task EXCEPT ![w] = run.status]
        /\ jobs' = jobs /\ worker' = worker /\ request' = request
    BY <1>1, EngineVars DEF GetRun, TaskAt, EngineKept, queueVars
  <2>2. task'[w] = run.status /\ OtherWorkers(w)
    BY <2>1, QueueTypes DEF OtherWorkers
  <2> QED BY <2>1, <2>2, WorkerHas DEF Looks, Attached
<1>2. CASE executeClaimedJob(w)
  <2>1. /\ worker[w].pc = "working"
        /\ \/ ShouldExecute(jobs[worker[w].job].kind, task[w]) /\ Engine!executeRun(w)
           \/ ShouldResume(jobs[worker[w].job].kind, task[w]) /\ Engine!resumeRun(w)
        /\ task' = [task EXCEPT ![w] = "called"]
        /\ jobs' = jobs /\ worker' = worker /\ request' = request
    BY <1>2 DEF executeClaimedJob, TaskAt, queueVars
  <2>2. task[w] # "called"
    BY <2>1 DEF ShouldExecute, ShouldResume
  <2>3. task'[w] = "called" /\ OtherWorkers(w)
    BY <2>1, QueueTypes DEF OtherWorkers
  <2> QED BY <2>1, <2>2, <2>3, WorkerCallStep DEF BInv, Calls
<1>3. CASE WorkEnds(w)
  <2>1. /\ worker[w].pc = "working" /\ JobDone(w) /\ EngineKept
        /\ JobOutcome(w) \in {"completing", "failing"}
        /\ worker' = [worker EXCEPT ![w].pc = JobOutcome(w)]
        /\ task' = [task EXCEPT ![w] = "getRun"]
        /\ jobs' = jobs /\ request' = request
    BY <1>3, EngineVars DEF WorkEnds, Queue!WorkEnds, TaskAt, EngineKept
  <2>2. task[w] # "called" \/ ~InCall(w)
    BY <2>1 DEF JobDone, Engine!RunStatus, Engine!Absent
  <2>3. ~InCall(w)
    BY <2>2, WorkerHas DEF Attached
  <2>4. /\ worker'[w].pc = JobOutcome(w) /\ worker'[w].job = worker[w].job
        /\ OtherWorkers(w)
    BY <2>1, QueueTypes DEF OtherWorkers
  <2>5. Concerned(w) => JobOutcome(w) = "failing"
    BY <2>1, <2>3 DEF Concerned, JobOutcome, Engine!Absent
  <2> QED BY <2>1, <2>3, <2>4, <2>5 DEF Leaves
<1> QED BY <1>1, <1>2, <1>3

\* The row of the job a worker is done with gets its outcome.
LEMMA SettleStep ==
  ASSUME BInv, NEW w \in Workers, Settle(w)
  PROVE  request' = request /\ OtherWorkers(w) /\ Settles(w)
<1> DEFINE j == worker[w].job
<1>1. PICK status \in Queue!Settled :
        /\ worker[w].pc \in {"completing", "failing"}
        /\ worker[w].pc = "failing" => status = "failed"
        /\ jobs' = [jobs EXCEPT ![j].status = status]
        /\ worker' = [worker EXCEPT ![w] = Queue!Polling]
  <2>1. "completed" \in Queue!Settled /\ "failed" \in Queue!Settled
    BY DEF Queue!Settled
  <2> QED BY <2>1 DEF Settle, Queue!complete, Queue!fail, Queue!StoreCompleted,
             Queue!StoreFailed, Queue!updateJobStatus
<1>2. EngineKept /\ request' = request /\ task' = task
  BY EngineVars DEF Settle, EngineKept, serviceVars
<1>3. worker'[w].pc = "polling" /\ OtherWorkers(w)
  BY <1>1, <1>2, QueueTypes DEF OtherWorkers, Queue!Polling, Queue!At
<1>4. ~Holding(w)' /\ ~InCall(w) /\ j \in DOMAIN jobs
  BY <1>1, <1>3, WorkerHas DEF Attached, Holding, Queue!HoldingPc
<1>5. /\ DOMAIN jobs' = DOMAIN jobs
      /\ \A k \in DOMAIN jobs \ {j} : jobs'[k] = jobs[k]
  BY <1>1, QueueTypes
<1>6. jobs'[j].status = status
  <2>1. jobs[j] \in QP!JobType
    BY <1>4, QueueTypes
  <2>2. jobs'[j] = [jobs[j] EXCEPT !.status = status]
    BY <1>1, <1>4, QueueTypes
  <2> QED BY <2>1, <2>2 DEF QP!JobType
<1> QED BY <1>1, <1>2, <1>3, <1>4, <1>5, <1>6 DEF Settles

\* A worker whose queue operation is rolled back, that dies or starts.
LEMMA WorkerFaultSteps ==
  ASSUME BInv, NEW w \in Workers,
         \/ QueueThrows(w) /\ Queue!QueueRejects(w)
         \/ WorkerDies(w) \/ WorkerStarts(w)
  PROVE  request' = request /\ OtherWorkers(w) /\ (Idles(w) \/ Leaves(w) \/ Dies(w))
<1>1. jobs' = jobs /\ request' = request
  BY DEF QueueThrows, WorkerDies, WorkerStarts, Queue!QueueRejects, Queue!Stop,
         Queue!Start, serviceVars
<1>2. OtherWorkers(w)
  BY QueueTypes DEF QueueThrows, WorkerDies, WorkerStarts, Queue!QueueRejects,
     Queue!Throws, Queue!Stop, Queue!Start, serviceVars, TaskAt, OtherWorkers
<1>3. ASSUME worker'[w].pc \in {"polling", "stopped"}, ~InCall(w), EngineKept
      PROVE  Idles(w) \/ Dies(w)
  <2>1. ~Holding(w)'
    BY <1>3 DEF Holding, Queue!HoldingPc
  <2>2. /\ RowKept /\ Others(w) /\ ~InCall(w)' /\ call'[w] = call[w]
    BY <1>3 DEF EngineKept, Others, InCall
  <2> QED BY <1>1, <1>3, <2>1, <2>2 DEF Idles, Dies
<1>4. CASE QueueThrows(w) /\ Queue!QueueRejects(w)
  <2>1. /\ worker[w].pc \in {"polling", "claiming", "completing", "failing"}
        /\ EngineKept
        /\ worker' = [worker EXCEPT ![w] = IF @.pc = "completing"
                        THEN Queue!At("failing", @.job) ELSE Queue!Stopped]
    BY <1>4, EngineVars
       DEF QueueThrows, Queue!QueueRejects, Queue!Throws, EngineKept
  <2>2. ~InCall(w)
    BY <2>1, WorkerHas DEF Attached
  <2>3. CASE worker[w].pc = "completing"
    <3>1. worker'[w].pc = "failing" /\ worker'[w].job = worker[w].job
      BY <2>1, <2>3, QueueTypes DEF Queue!At
    <3> QED BY <1>1, <1>2, <2>1, <2>2, <2>3, <3>1 DEF Leaves
  <2>4. CASE worker[w].pc # "completing"
    <3>1. worker'[w].pc = "stopped"
      BY <2>1, <2>4, QueueTypes DEF Queue!Stopped, Queue!At
    <3> QED BY <1>1, <1>2, <1>3, <2>1, <2>2, <3>1
  <2> QED BY <2>3, <2>4
<1>5. CASE WorkerDies(w)
  <2>1. /\ worker' = [worker EXCEPT ![w] = Queue!Stopped]
        /\ IF InCall(w) THEN Engine!Crash(w) ELSE EngineKept
    BY <1>5, EngineVars DEF WorkerDies, Queue!Stop, EngineKept
  <2>2. worker'[w].pc = "stopped"
    BY <2>1, QueueTypes DEF Queue!Stopped, Queue!At
  <2>3. CASE ~InCall(w)
    BY <1>1, <1>2, <1>3, <2>1, <2>2, <2>3
  <2>4. CASE InCall(w)
    <3>1. /\ Others(w) /\ RowKept
          /\ \/ Ends(w, "idle") /\ ~InCall(w)'
             \/ GoesOn(w, call[w].snap.status)
      BY <2>1, <2>4, FaultFacts, WorkerHas DEF BInv
    <3>2. Ends(w, "idle") /\ ~InCall(w)'
      <4>1. call'[w].pc = "idle"
        <5>1. w \in Drivers /\ DOMAIN call = Drivers
          BY WorkerHas DEF BInv, EP!IInv, EP!TypeOK
        <5>2. call' = [call EXCEPT ![w] = Engine!Ended("idle")]
          BY <2>1, <2>4 DEF Engine!Crash, Engine!End
        <5>3. call'[w] = Engine!Ended("idle")
          BY <5>1, <5>2
        <5> QED BY <5>3 DEF Engine!Ended
      <4> QED BY <3>1, <4>1 DEF GoesOn, InCall, Engine!Waiting
    <3>3. Holding(w) /\ ~Holding(w)'
      BY <2>2, <2>4, WorkerHas DEF Attached, Holding, Queue!HoldingPc
    <3> QED BY <1>1, <1>2, <3>1, <3>2, <3>3 DEF Dies
  <2> QED BY <2>3, <2>4
<1>6. CASE WorkerStarts(w)
  <2>1. /\ worker[w].pc = "stopped" /\ EngineKept
        /\ worker' = [worker EXCEPT ![w] = Queue!Polling]
    BY <1>6, EngineVars DEF WorkerStarts, Queue!Start, EngineKept
  <2>2. worker'[w].pc = "polling"
    BY <2>1, QueueTypes DEF Queue!Polling, Queue!At
  <2> QED BY <1>1, <1>2, <1>3, <2>1, <2>2, WorkerHas DEF Attached
<1> QED BY <1>4, <1>5, <1>6

\* A worker whose queue operation is stored and throws.
LEMMA LostAnswerSteps ==
  ASSUME BInv, NEW w \in Workers, QueueThrows(w), Queue!QueueAnswerLost(w)
  PROVE  /\ request' = request /\ OtherWorkers(w)
         /\ LosesClaim(w) \/ LosesCompletion(w) \/ Settles(w)
<1> DEFINE j == worker[w].job
<1>1. EngineKept /\ request' = request /\ task' = task
  BY EngineVars DEF QueueThrows, EngineKept, serviceVars
<1>2. /\ worker[w].pc \in {"claiming", "completing", "failing"}
      /\ Queue!StoreClaim(w) \/ Queue!StoreCompleted(w) \/ Queue!StoreFailed(w)
      /\ worker' = [worker EXCEPT ![w] = IF @.pc = "completing"
                      THEN Queue!At("failing", @.job) ELSE Queue!Stopped]
  BY DEF Queue!QueueAnswerLost, Queue!Throws, Queue!StoreClaim,
         Queue!StoreCompleted, Queue!StoreFailed
<1>3. OtherWorkers(w) /\ ~InCall(w) /\ j \in DOMAIN jobs
  BY <1>1, <1>2, QueueTypes, WorkerHas
     DEF OtherWorkers, Attached, Queue!HoldingPc
<1>4. PICK row \in QP!JobType :
        /\ jobs' = [jobs EXCEPT ![j] = row]
        /\ CASE worker[w].pc = "claiming" ->
                  jobs[j].status = "queued" /\ row.status = "claimed"
             [] worker[w].pc = "completing" -> row.status = "completed"
             [] OTHER -> row.status = "failed"
  <2>1. jobs[j] \in QP!JobType
    BY <1>3, QueueTypes
  <2>2. CASE Queue!StoreClaim(w)
    <3>1. worker[w].pc = "claiming" /\ jobs[j].status = "queued"
      BY <2>2 DEF Queue!StoreClaim, Queue!StillQueued
    <3>2. jobs[j].attempts = 0
      BY <1>3, <3>1 DEF BInv, QP!IInv, QP!QueuedIsUnclaimed
    <3>3. [jobs[j] EXCEPT !.status = "claimed", !.attempts = @ + 1]
            = [jobs[j] EXCEPT !.status = "claimed", !.attempts = 1]
      BY <3>2
    <3>4. jobs' = [jobs EXCEPT ![j] = [jobs[j] EXCEPT !.status = "claimed",
                                                      !.attempts = 1]]
      BY <1>3, <2>2, <3>3, QueueTypes DEF Queue!StoreClaim
    <3>5. /\ [jobs[j] EXCEPT !.status = "claimed", !.attempts = 1] \in QP!JobType
          /\ [jobs[j] EXCEPT !.status = "claimed", !.attempts = 1].status = "claimed"
      <4>1. 1 \in 0 .. 1
        OBVIOUS
      <4> QED BY <2>1, <4>1 DEF QP!JobType, QP!JobStatus
    <3> QED BY <3>1, <3>4, <3>5
  <2>3. ASSUME NEW status \in {"completed", "failed"},
               jobs' = [jobs EXCEPT ![j].status = status]
        PROVE  \E row \in QP!JobType :
                 jobs' = [jobs EXCEPT ![j] = row] /\ row.status = status
    <3>1. /\ [jobs[j] EXCEPT !.status = status] \in QP!JobType
          /\ [jobs[j] EXCEPT !.status = status].status = status
      BY <2>1 DEF QP!JobType, QP!JobStatus
    <3> QED BY <2>3, <3>1
  <2>4. CASE Queue!StoreCompleted(w)
    <3>1. worker[w].pc = "completing" /\ jobs' = [jobs EXCEPT ![j].status = "completed"]
      BY <2>4 DEF Queue!StoreCompleted, Queue!updateJobStatus
    <3> QED BY <2>3, <3>1
  <2>5. CASE Queue!StoreFailed(w)
    <3>1. worker[w].pc = "failing" /\ jobs' = [jobs EXCEPT ![j].status = "failed"]
      BY <2>5 DEF Queue!StoreFailed, Queue!updateJobStatus
    <3> QED BY <2>3, <3>1
  <2> QED BY <1>2, <2>2, <2>4, <2>5
<1>5. /\ DOMAIN jobs' = DOMAIN jobs /\ jobs'[j] = row
      /\ \A k \in DOMAIN jobs \ {j} : jobs'[k] = jobs[k]
  BY <1>3, <1>4, QueueTypes
<1>6. CASE worker[w].pc = "claiming"
  <2>1. worker'[w].pc = "stopped"
    BY <1>2, <1>6, QueueTypes DEF Queue!Stopped, Queue!At
  <2>2. ~Holding(w) /\ ~Holding(w)'
    BY <1>6, <2>1 DEF Holding, Queue!HoldingPc
  <2> QED BY <1>1, <1>3, <1>4, <1>5, <1>6, <2>1, <2>2 DEF LosesClaim
<1>7. CASE worker[w].pc = "completing"
  <2>1. worker'[w].pc = "failing" /\ worker'[w].job = j
    BY <1>2, <1>7, QueueTypes DEF Queue!At
  <2> QED BY <1>1, <1>3, <1>4, <1>5, <1>7, <2>1 DEF LosesCompletion
<1>8. CASE worker[w].pc = "failing"
  <2>1. worker'[w].pc = "stopped"
    BY <1>2, <1>8, QueueTypes DEF Queue!Stopped, Queue!At
  <2>2. ~Holding(w)'
    BY <2>1 DEF Holding, Queue!HoldingPc
  <2> QED BY <1>1, <1>3, <1>4, <1>5, <1>8, <2>2 DEF Settles, Queue!Settled
<1> QED BY <1>1, <1>2, <1>3, <1>6, <1>7, <1>8

\* Whatever worker w does is one of these.
WorkerDoes(w) ==
  \/ Idles(w) \/ Claims(w) \/ Looks(w) \/ Calls(w) \/ Leaves(w) \/ Settles(w)
  \/ Dies(w) \/ LosesClaim(w) \/ LosesCompletion(w)

\* All that a worker does outside of the engine.
LEMMA WorkerStep ==
  ASSUME BInv, NEW w \in Workers,
         Work(w) \/ QueueThrows(w) \/ WorkerDies(w) \/ WorkerStarts(w)
  PROVE  request' = request /\ OtherWorkers(w) /\ WorkerDoes(w)
<1>1. QueueThrows(w) => Queue!QueueRejects(w) \/ Queue!QueueAnswerLost(w)
  BY DEF QueueThrows, Queue!Throw
<1> QED BY <1>1, ClaimStep, TaskSteps, SettleStep, WorkerFaultSteps,
           LostAnswerSteps DEF Work, WorkerDoes

\* The steps of an operator.
Starts(o) ==
  /\ Others(o) /\ ~InCall(o) /\ ~InCall(o)' /\ Ends(o, "returned") /\ CallFits(o)'
  /\ run.status = Engine!Absent /\ run'.status = "pending"
  /\ approvals' = approvals /\ jobs' = jobs
  /\ request[o] = "idle" /\ request'[o] = "enqueueStart"

Asks(o) ==
  /\ EngineKept /\ jobs' = jobs
  /\ \/ /\ request[o] = "idle" /\ ~InCall(o) /\ run.status = "paused"
        /\ request'[o] = "readPending"
     \/ /\ request[o] = "readPending" /\ Engine!PendingApproval = 0
        /\ request'[o] = "enqueueResume"
     \/ request[o] = "readPending" /\ request'[o] = "idle"

Enqueues(o) ==
  /\ EngineKept
  /\ \/ request[o] = "enqueueStart" /\ request'[o] = "queueRun"
     \/ request[o] = "enqueueResume" /\ request'[o] = "queueResumeRun"
  /\ \E n : /\ n \notin DOMAIN jobs /\ DOMAIN jobs' = DOMAIN jobs \cup {n}
            /\ jobs'[n].status = "queued"
            /\ \A k \in DOMAIN jobs : jobs'[k] = jobs[k]

Invokes(o) ==
  /\ RowKept /\ Others(o) /\ jobs' = jobs
  /\ ~InCall(o) /\ CallFits(o)' /\ run.status # Engine!Absent
  /\ request'[o] = "idle"
  /\ \E op \in OperatorOps :
       /\ op = "queue" => request[o] = "queueRun"
       /\ op = "queueResume" => request[o] = "queueResumeRun"
       /\ op = "decide" => request[o] = "idle" /\ approvals # <<>>
       /\ \/ /\ InCall(o)' /\ call'[o].op = op /\ call'[o].snap = run
             /\ op = "decide" => run.status = "paused"
             /\ op = "queue" => run.status = "pending"
          \/ /\ ~InCall(o)' /\ call'[o].snap.status = Engine!Absent
             /\ op # "queueResume"

GivesUp(o) == EngineKept /\ jobs' = jobs /\ request'[o] = "idle"

OperatorDoes(o) == Starts(o) \/ Asks(o) \/ Enqueues(o) \/ Invokes(o)

\* A request adds one job to the queue.
LEMMA EnqueueStep ==
  ASSUME BInv, NEW o \in Operators, EnqueueStart(o) \/ EnqueueResume(o)
  PROVE  Enqueues(o)
<1>1. PICK kind, stamp :
        /\ jobs' = Append(jobs, [kind |-> kind, stamp |-> stamp,
                                 status |-> "queued", attempts |-> 0])
  BY DEF EnqueueStart, EnqueueResume, Enqueue, Queue!enqueue
<1>2. EngineKept
  BY EngineVars DEF EnqueueStart, EnqueueResume, Enqueue, EngineKept
<1>3. \/ request[o] = "enqueueStart" /\ request'[o] = "queueRun"
      \/ request[o] = "enqueueResume" /\ request'[o] = "queueResumeRun"
  BY QueueTypes DEF EnqueueStart, EnqueueResume, Enqueue, RequestAt
<1> DEFINE n == Len(jobs) + 1
<1>4. /\ n \notin DOMAIN jobs /\ DOMAIN jobs' = DOMAIN jobs \cup {n}
      /\ jobs'[n].status = "queued"
      /\ \A k \in DOMAIN jobs : jobs'[k] = jobs[k]
  BY <1>1, QueueTypes
<1> HIDE DEF n
<1> QED BY <1>2, <1>3, <1>4 DEF Enqueues

\* All that a request of an operator does outside of the engine.
LEMMA OperatorStep ==
  ASSUME BInv, NEW o \in Operators, Request(o) \/ Handle(o)
  PROVE  /\ worker' = worker /\ task' = task
         /\ OtherRequests(o) /\ OperatorDoes(o)
<1>1. o \in Drivers
  BY DEF Drivers
<1>2. worker' = worker /\ task' = task
  BY DEF Request, Handle, StartRun, ResumeRun, DecideApproval, EnqueueStart,
     QueueRun, ReadPending, EnqueueResume, QueueResumeRun, Enqueue,
     Queue!enqueue, queueVars
<1>3. OtherRequests(o)
  BY QueueTypes DEF Request, Handle, StartRun, ResumeRun, DecideApproval,
     EnqueueStart, QueueRun, ReadPending, EnqueueResume, QueueResumeRun,
     Enqueue, RequestAt, OtherRequests
<1>4. CASE StartRun(o)
  <2>1. /\ request[o] = "idle" /\ request'[o] = "enqueueStart" /\ jobs' = jobs
        /\ Engine!CreateRun(o)
    BY <1>4, QueueTypes DEF StartRun, NewRequest, RequestAt, queueVars
  <2>2. Starts(o)
    BY <1>1, <2>1, CreateStep DEF BInv, Starts
  <2> QED BY <1>2, <1>3, <2>2 DEF OperatorDoes
<1>5. CASE ResumeRun(o) \/ ReadPending(o)
  <2>1. EngineKept /\ jobs' = jobs
    BY <1>5, EngineVars DEF ResumeRun, ReadPending, EngineKept, queueVars
  <2>2. Asks(o)
    BY <1>5, <2>1, QueueTypes
       DEF ResumeRun, ReadPending, NewRequest, MayResume, RequestAt, Asks
  <2> QED BY <1>2, <1>3, <2>2 DEF OperatorDoes
<1>6. CASE EnqueueStart(o) \/ EnqueueResume(o)
  BY <1>2, <1>3, <1>6, EnqueueStep DEF OperatorDoes
<1>7. CASE QueueRun(o) \/ QueueResumeRun(o) \/ DecideApproval(o)
  <2>1. jobs' = jobs /\ request'[o] = "idle"
    BY <1>7, QueueTypes DEF QueueRun, QueueResumeRun, DecideApproval, NewRequest,
       RequestAt, queueVars
  <2>2. PICK op \in OperatorOps :
          /\ \/ op = "queue" /\ Engine!queueRun(o)
             \/ op = "queueResume" /\ Engine!queueResumeRun(o)
             \/ /\ op = "decide"
                /\ \E a \in DOMAIN approvals, decision \in Engine!Decisions :
                     Engine!decideApproval(o, a, decision)
          /\ op = "queue" => request[o] = "queueRun"
          /\ op = "queueResume" => request[o] = "queueResumeRun"
          /\ op = "decide" => request[o] = "idle"
    BY <1>7 DEF QueueRun, QueueResumeRun, DecideApproval, NewRequest, OperatorOps
  <2>3. /\ ~InCall(o) /\ Others(o) /\ RowKept /\ CallFits(o)'
        /\ run.status # Engine!Absent
        /\ op = "decide" => approvals # <<>>
        /\ \/ /\ InCall(o)' /\ call'[o].op = op /\ call'[o].snap = run
              /\ op = "decide" => run.status = "paused"
              /\ op = "queue" => run.status = "pending"
           \/ /\ ~InCall(o)' /\ call'[o].snap.status = Engine!Absent
              /\ op # "queueResume"
    BY <2>2, OperatorCallStep DEF BInv
  <2>4. Invokes(o)
    BY <2>1, <2>2, <2>3 DEF Invokes
  <2> QED BY <1>2, <1>3, <2>4 DEF OperatorDoes
<1> QED BY <1>4, <1>5, <1>6, <1>7 DEF Request, Handle

\* A request that dies leaves everything as it is.
LEMMA RequestDiesStep ==
  ASSUME BInv, NEW o \in Operators, RequestDies(o)
  PROVE  worker' = worker /\ task' = task /\ OtherRequests(o) /\ GivesUp(o)
<1>1. EngineKept
  BY EngineVars DEF RequestDies, EngineKept
<1> QED BY <1>1, QueueTypes DEF RequestDies, RequestAt, OtherRequests, GivesUp

\* The steps of the engine calls and their faults.
Fails(d) ==
  /\ RowKept
  /\ \/ Ends(d, "threw")
     \/ Ends(d, "idle") /\ d \in Operators
     \/ GoesOn(d, call[d].snap.status)

Proceeds(d) ==
  Reads(d) \/ Queues(d) \/ Executing(d) \/ Finishes(d) \/ Decides(d)

CallDoes(d) == Proceeds(d) \/ Fails(d) \/ Loses(d)

\* All that an engine call does, for whichever driver.
LEMMA CallStep ==
  ASSUME BInv, NEW d \in Drivers, Advance(d) \/ CallFaults(d)
  PROVE  /\ jobs' = jobs /\ worker' = worker /\ task' = task /\ request' = request
         /\ InCall(d) /\ Others(d) /\ CallFits(d)' /\ CallDoes(d)
         /\ Advance(d) => Proceeds(d)
<1>1. jobs' = jobs /\ worker' = worker /\ task' = task /\ request' = request
  BY DEF Advance, CallFaults, queueVars, serviceVars
<1>2. EP!IInv /\ CallFits(d)
  BY DEF BInv
<1>3. CASE Advance(d)
  BY <1>1, <1>2, <1>3, AdvanceStep DEF Advance, CallDoes, Proceeds
<1>4. CASE CallFaults(d)
  <2>1. \/ Engine!CommitRejected(d) \/ Engine!AnswerLost(d)
        \/ d \in Operators /\ Engine!Crash(d)
    BY <1>4 DEF CallFaults
  <2>2. Advance(d) => Proceeds(d)
    BY <1>2, AdvanceStep DEF Advance, Proceeds
  <2>3. CASE Engine!AnswerLost(d)
    BY <1>1, <1>2, <2>2, <2>3, LosesStep DEF CallDoes
  <2>4. CASE Engine!CommitRejected(d) \/ (d \in Operators /\ Engine!Crash(d))
    <3>1. Engine!CommitRejected(d) => ~Engine!Crash(d)
      BY <1>2 DEF Engine!CommitRejected, Engine!Raises, Engine!Crash, EP!IInv,
         EP!TypeOK
    <3>2. /\ InCall(d) /\ Others(d) /\ RowKept /\ CallFits(d)'
          /\ \/ Ends(d, "threw")
             \/ Ends(d, "idle") /\ d \in Operators
             \/ GoesOn(d, call[d].snap.status)
      BY <1>2, <2>4, <3>1, FaultFacts
    <3>3. Fails(d)
      BY <3>2 DEF Fails
    <3> QED BY <1>1, <2>2, <3>2, <3>3 DEF CallDoes
  <2> QED BY <2>1, <2>3, <2>4
<1> QED BY <1>3, <1>4

\* Somebody acts, or nothing happens.
LEMMA StepCases ==
  ASSUME [Next]_vars
  PROVE  \/ UNCHANGED vars
         \/ \E o \in Operators : Request(o) \/ Handle(o) \/ RequestDies(o)
         \/ \E w \in Workers : Work(w) \/ QueueThrows(w) \/ WorkerDies(w)
                                 \/ WorkerStarts(w)
         \/ \E d \in Drivers : Advance(d) \/ CallFaults(d)
BY DEF Next

-----------------------------------------------------------------------------
(* The invariant every other proof starts from *)

\* A step of one call that leaves it fitting leaves all calls fitting.
LEMMA CallsFit ==
  ASSUME NEW d \in Drivers, Others(d), CallFits(d)',
         \A e \in Drivers : CallFits(e)
  PROVE  \A e \in Drivers : CallFits(e)'
BY DEF Others, CallFits, InCall

\* So does a step outside of the calls.
LEMMA CallsKept ==
  ASSUME call' = call, \A e \in Drivers : CallFits(e)
  PROVE  \A e \in Drivers : CallFits(e)'
BY DEF CallFits, InCall

\* What the services do to the queue is a step of it, except that a request
\* that dies is counted with the workers that do.
LEMMA QueueMoves ==
  ASSUME [Next]_vars
  PROVE  \/ [QP!Next]_(QP!vars)
         \/ jobs' = jobs /\ worker' = worker /\ stops' = stops + 1
<1>1. QP!Next <=> Queue!Next
  BY SameQueue
<1>2. QP!vars = Queue!vars /\ (UNCHANGED QP!vars <=> UNCHANGED Queue!vars)
  BY DEF QP!vars, Queue!vars
<1>3. UNCHANGED queueVars => UNCHANGED Queue!vars
  BY DEF queueVars, Queue!vars
<1>4. UNCHANGED vars => UNCHANGED Queue!vars
  BY <1>3 DEF vars
<1>5. ASSUME NEW o \in Operators, Request(o) \/ Handle(o)
      PROVE  [Queue!Next]_(Queue!vars)
  <2>1. "start_run" \in Queue!JobKind /\ "resume_run" \in Queue!JobKind
    BY DEF Queue!JobKind
  <2> QED BY <1>3, <1>5, <2>1
          DEF Request, StartRun, ResumeRun, DecideApproval, Handle, EnqueueStart,
              QueueRun, ReadPending, EnqueueResume, QueueResumeRun, Enqueue,
              Queue!Next
<1>6. ASSUME NEW o \in Operators, RequestDies(o)
      PROVE  jobs' = jobs /\ worker' = worker /\ stops' = stops + 1
  BY <1>6 DEF RequestDies
<1>7. ASSUME NEW w \in Workers,
             Work(w) \/ QueueThrows(w) \/ WorkerDies(w) \/ WorkerStarts(w)
      PROVE  [Queue!Next]_(Queue!vars)
  <2>1. WorkEnds(w) => Queue!WorkEnds(w, "completing") \/ Queue!WorkEnds(w, "failing")
    BY DEF WorkEnds, JobOutcome
  <2> QED BY <1>3, <1>7, <2>1
          DEF Work, Claim, GetRun, executeClaimedJob, Settle, QueueThrows,
              WorkerDies, WorkerStarts, Queue!Next, Queue!Work
<1>8. ASSUME NEW d \in Drivers, Advance(d) \/ CallFaults(d)
      PROVE  [Queue!Next]_(Queue!vars)
  BY <1>3, <1>8 DEF Advance, CallFaults
<1> QED BY <1>1, <1>2, <1>4, <1>5, <1>6, <1>7, <1>8, StepCases

\* So the invariant of the queue holds of the composition.
LEMMA QueueStep == ASSUME QP!IInv, [Next]_vars PROVE QP!IInv'
<1>1. CASE [QP!Next]_(QP!vars)
  BY <1>1, QP!StepInvariant, Assumptions
<1>2. CASE jobs' = jobs /\ worker' = worker /\ stops' = stops + 1
  BY <1>2 DEF QP!IInv, QP!TypeOK, QP!ClaimsExclusive, QP!HeldRow, QP!Holds,
              QP!QueuedIsUnclaimed
<1> QED BY <1>1, <1>2, QueueMoves

\* The statuses of a run.
LEMMA RunStatusType ==
  ASSUME BInv PROVE run.status \in Engine!RunStatus \cup {Engine!Absent}
BY DEF BInv, EP!IInv, EP!TypeOK, EP!RunSnapshot, EP!RunStatus, EP!Absent,
       Engine!RunStatus, Engine!Absent

\* A step of one worker that leaves it attached to its job keeps the types.
LEMMA AttachedKept ==
  ASSUME BInv, NEW w \in Workers, OtherWorkers(w), Others(w) \/ call' = call,
         request' = request, task' \in [Workers -> TaskType], Attached(w)'
  PROVE  TypeOK'
<1>1. \A v \in Workers \ {w} : Attached(v)'
  BY WorkerHas DEF OtherWorkers, Others, Attached, InCall
<1>2. \A v \in Workers : Attached(v)'
  BY <1>1
<1> QED BY <1>2, QueueTypes DEF TypeOK, Attached

\* Changing one worker keeps the types.
LEMMA TaskTyped ==
  ASSUME BInv, NEW w \in Workers,
         Work(w) \/ QueueThrows(w) \/ WorkerDies(w) \/ WorkerStarts(w)
  PROVE  task' \in [Workers -> TaskType]
<1>1. task' = task \/ \E t \in TaskType : task' = [task EXCEPT ![w] = t]
  <2>1. {"getRun", "called", run.status} \subseteq TaskType
    BY RunStatusType DEF TaskType
  <2> QED BY <2>1 DEF Work, Claim, GetRun, executeClaimedJob, WorkEnds, Settle,
             QueueThrows, WorkerDies, WorkerStarts, TaskAt, serviceVars
<1> QED BY <1>1, QueueTypes

\* Changing one request keeps the types.
LEMMA RequestTyped ==
  ASSUME BInv, NEW o \in Operators, Request(o) \/ Handle(o) \/ RequestDies(o)
  PROVE  request' \in [Operators -> RequestPc]
<1>1. request' = request
        \/ \E pc \in RequestPc : request' = [request EXCEPT ![o] = pc]
  BY DEF Request, Handle, StartRun, ResumeRun, DecideApproval, EnqueueStart,
     QueueRun, ReadPending, EnqueueResume, QueueResumeRun, Enqueue, RequestDies,
     RequestAt, RequestPc
<1> QED BY <1>1, QueueTypes

\* Every step keeps the types of the composition.
LEMMA TypesStep ==
  ASSUME BInv, [Next]_vars
  PROVE  TypeOK' /\ \A d \in Drivers : CallFits(d)'
<1>1. \A d \in Drivers : CallFits(d)
  BY DEF BInv
<1>2. CASE UNCHANGED vars
  <2>1. call' = call /\ request' = request /\ task' = task /\ worker' = worker
    BY <1>2 DEF vars, engineVars, queueVars, serviceVars
  <2> QED BY <1>1, <2>1, CallsKept DEF BInv, TypeOK, InCall
<1>3. ASSUME NEW o \in Operators, Request(o) \/ Handle(o) \/ RequestDies(o)
      PROVE  TypeOK' /\ \A d \in Drivers : CallFits(d)'
  <2>1. /\ worker' = worker /\ task' = task
        /\ call' = call \/ (Others(o) /\ CallFits(o)')
    BY <1>3, OperatorStep, RequestDiesStep
       DEF OperatorDoes, Starts, Asks, Enqueues, Invokes, GivesUp, EngineKept
  <2>2. o \in Drivers
    BY DEF Drivers
  <2>3. \A w \in Workers : Attached(w)'
    BY <2>1, WorkerHas DEF Others, Attached, InCall
  <2>4. TypeOK'
    BY <1>3, <2>1, <2>3, RequestTyped, QueueTypes DEF TypeOK, Attached
  <2> QED BY <1>1, <2>1, <2>2, <2>4, CallsFit, CallsKept
<1>4. ASSUME NEW w \in Workers,
             Work(w) \/ QueueThrows(w) \/ WorkerDies(w) \/ WorkerStarts(w)
      PROVE  TypeOK' /\ \A d \in Drivers : CallFits(d)'
  <2>1. request' = request /\ OtherWorkers(w) /\ WorkerDoes(w) /\ w \in Drivers
    BY <1>4, WorkerStep, WorkerHas
  <2>2. call' = call \/ (Others(w) /\ CallFits(w)')
    BY <2>1, WorkerHas DEF WorkerDoes, Idles, Claims, Looks, Calls, Leaves, Settles,
                           Dies, LosesClaim, LosesCompletion,
       EngineKept, CallFits
  <2>3. Attached(w)'
    BY <2>1, WorkerHas DEF WorkerDoes, Idles, Claims, Looks, Calls, Leaves, Settles,
       Dies, LosesClaim, LosesCompletion, EngineKept, Attached, InCall
  <2>4. TypeOK'
    BY <1>4, <2>1, <2>2, <2>3, AttachedKept, TaskTyped
  <2> QED BY <1>1, <2>1, <2>2, <2>4, CallsFit, CallsKept
<1>5. ASSUME NEW d \in Drivers, Advance(d) \/ CallFaults(d)
      PROVE  TypeOK' /\ \A e \in Drivers : CallFits(e)'
  <2>1. /\ worker' = worker /\ task' = task /\ request' = request
        /\ InCall(d) /\ Others(d) /\ CallFits(d)'
    BY <1>5, CallStep
  <2>2. \A w \in Workers : Attached(w)'
    BY <2>1, WorkerHas DEF Others, Attached, InCall
  <2>3. TypeOK'
    BY <2>1, <2>2, QueueTypes DEF TypeOK, Attached
  <2> QED BY <1>1, <2>1, <2>3, CallsFit
<1> QED BY <1>2, <1>3, <1>4, <1>5, StepCases

\* The invariants of engine, queue and composition hold at first ...
LEMMA InitBase == Init => BInv
<1> SUFFICES ASSUME Init PROVE BInv
  OBVIOUS
<1>1. EP!IInv
  BY EP!InitInvariant, Assumptions, SameActions DEF Init
<1>2. QP!IInv
  BY QP!InitInvariant, Assumptions, SameQueue DEF Init
<1>3. \A d \in Drivers : ~InCall(d)
  BY DEF Init, Engine!Init, Engine!Ended, InCall, Engine!Waiting
<1>4. \A d \in Drivers : CallFits(d)
  BY <1>3 DEF CallFits
<1>5. TypeOK
  BY <1>3 DEF Init, TypeOK, RequestPc, TaskType, Drivers
<1> QED BY <1>1, <1>2, <1>4, <1>5 DEF BInv

\* ... and are kept by every step ...
LEMMA StepBase == BInv /\ [Next]_vars => BInv'
<1> SUFFICES ASSUME BInv, [Next]_vars PROVE BInv'
  OBVIOUS
<1>1. EP!IInv'
  BY EngineStep, EP!StepInvariant, Assumptions DEF BInv
<1> QED BY <1>1, QueueStep, TypesStep DEF BInv

\* ... so they hold always.
LEMMA Base == Spec => []BInv
BY InitBase, StepBase, PTL DEF Spec

\* Whatever the operators, the workers and their faults do, every variable of
\* the composition has its type, and a worker is inside an engine call only
\* while it works on a job (executeClaimedJob).
THEOREM TypeCorrect == Spec => []TypeOK
<1>1. BInv => TypeOK
  BY DEF BInv
<1> QED BY <1>1, Base, PTL

\* The run a queue of workers and any number of operators drive together is
\* as well formed as one that a single process drives: the invariant of the
\* engine (completeStep, handleStepFailure, cancelRunFromApproval) holds of
\* the composition, whoever's snapshot is written last.
THEOREM RunStaysWellFormed == Spec => []RunWellFormed
<1>1. BInv => RunWellFormed
  BY SameProperties DEF BInv, EP!IInv, RunWellFormed
<1> QED BY <1>1, Base, PTL

\* While operators enqueue, their requests die and workers execute the run, a
\* job has one holder at most, and one that is settled changes only when its
\* own holder, to whom a stored complete threw, fails it (claimNext, complete
\* and fail, which write whatever status the row has).
THEOREM JobsAreHeldOnce == Spec => []Queue!ClaimsExclusive /\ Queue!SettledIsFinal
<1>1. BInv => Queue!ClaimsExclusive
  BY DEF BInv, QP!IInv, QP!ClaimsExclusive, QP!HeldRow, QP!Holds, QP!HoldingPc,
         Queue!ClaimsExclusive, Queue!HeldRow, Queue!Holds, Queue!HoldingPc
<1>2. BInv /\ [Next]_vars =>
        [\A j \in DOMAIN jobs : jobs[j].status \in Queue!Settled
                => jobs'[j] = jobs[j] \/ Queue!Refailed(j)]_jobs
  <2>1. \A j : QP!Refailed(j) <=> Queue!Refailed(j)
    BY DEF QP!Refailed, Queue!Refailed, QP!At, Queue!At
  <2> QED BY <2>1, QueueMoves, QP!SettledKept, Assumptions
          DEF BInv, QP!Settled, Queue!Settled
<1> QED BY <1>1, <1>2, Base, PTL DEF Spec, Queue!SettledIsFinal

-----------------------------------------------------------------------------
(* A run that is running is accounted for *)

\* A job that failed, or a claimed one whose worker died, or is in the engine,
\* or will fail it.
Accounts(j) ==
  \/ jobs[j].status = "failed"
  \/ /\ jobs[j].status = "claimed"
     /\ \A w \in Workers : Holding(w) /\ worker[w].job = j => Concerned(w)

RunningIsKnown ==
  run.status = "running" => \E j \in DOMAIN jobs : Accounts(j)

\* A worker that does something else leaves every job accounted for as it was.
LEMMA StaysConcerned ==
  ASSUME NEW w \in Workers, Concerned(w),
         worker'[w] = worker[w], task'[w] = task[w], call'[w] = call[w]
  PROVE  Concerned(w)'
BY DEF Concerned, InCall

\* A job that accounts for a run keeps doing so while its row does.
LEMMA AccountKept ==
  ASSUME BInv, worker' = worker, task' = task,
         call' = call \/ (\E d \in Drivers \ Workers : Others(d)),
         NEW j \in DOMAIN jobs, Accounts(j), jobs'[j] = jobs[j]
  PROVE  Accounts(j)'
<1>1. \A w \in Workers : call'[w] = call[w]
  BY WorkerHas DEF Others
<1>2. \A w \in Workers : Holding(w)' <=> Holding(w)
  BY DEF Holding
<1>3. \A w \in Workers : Concerned(w) => Concerned(w)'
  BY <1>1, StaysConcerned
<1> QED BY <1>2, <1>3 DEF Accounts

\* No step of a worker loses the account of a running run.
LEMMA WorkerKeepsAccount ==
  ASSUME BInv, NEW w \in Workers, OtherWorkers(w), WorkerDoes(w),
         NEW j \in DOMAIN jobs, Accounts(j)
  PROVE  j \in DOMAIN jobs' /\ Accounts(j)'
<1> DEFINE k == worker[w].job
<1>1. ASSUME NEW v \in Workers, v # w
      PROVE  /\ worker'[v] = worker[v]
             /\ Holding(v)' <=> Holding(v)
             /\ Concerned(v) => Concerned(v)'
  <2>1. worker'[v] = worker[v] /\ task'[v] = task[v]
    BY <1>1 DEF OtherWorkers
  <2>2. call'[v] = call[v]
    BY <1>1, WorkerHas DEF WorkerDoes, Idles, Claims, Looks, Calls, Leaves, Settles,
       Dies, LosesClaim, LosesCompletion, EngineKept, Others
  <2> QED BY <2>1, <2>2, StaysConcerned DEF Holding
<1>2. DOMAIN jobs' = DOMAIN jobs
  BY DEF WorkerDoes, Idles, Claims, Looks, Calls, Leaves, Settles, Dies, LosesClaim,
         LosesCompletion
<1>3. jobs[j].status = "failed" => ~(Holding(w) /\ k = j)
  BY WorkerHas
<1>4. CASE Holding(w) /\ k = j
  <2>1. jobs[j].status = "claimed" /\ Concerned(w)
    BY <1>3, <1>4 DEF Accounts
  <2>2. /\ worker[w].pc = "working" => task[w] = "called"
        /\ worker[w].pc \in {"working", "failing"}
    BY <2>1 DEF Concerned
  <2>3. ASSUME jobs' = jobs, Holding(w)' => Concerned(w)' PROVE Accounts(j)'
    <3>1. ASSUME NEW v \in Workers, Holding(v)', worker'[v].job = j
          PROVE  Concerned(v)'
      BY <1>1, <2>1, <2>3, <3>1 DEF Accounts
    <3> QED BY <2>1, <2>3, <3>1 DEF Accounts
  <2>4. CASE Leaves(w)
    <3>1. worker'[w].pc = "failing" /\ jobs' = jobs
      BY <2>1, <2>4 DEF Leaves
    <3> QED BY <1>2, <2>3, <3>1 DEF Concerned
  <2>5. CASE Settles(w)
    <3>1. worker[w].pc = "failing"
      BY <2>2, <2>5 DEF Settles
    <3> QED BY <1>2, <1>4, <2>5, <3>1 DEF Settles, Accounts
  <2>6. CASE Dies(w)
    BY <1>2, <2>3, <2>6 DEF Dies
  <2>7. ~Idles(w) /\ ~Claims(w) /\ ~Looks(w) /\ ~Calls(w)
    BY <1>4, <2>2 DEF Idles, Claims, Looks, Calls
  <2>8. ~LosesClaim(w) /\ ~LosesCompletion(w)
    BY <1>4, <2>2 DEF LosesClaim, LosesCompletion
  <2> QED BY <1>2, <2>4, <2>5, <2>6, <2>7, <2>8 DEF WorkerDoes
<1>5. CASE ~(Holding(w) /\ k = j)
  <2>1. jobs[j].status # "queued"
    BY DEF Accounts
  <2>2. jobs'[j] = jobs[j]
    BY <1>5, <2>1 DEF WorkerDoes, Idles, Claims, Looks, Calls, Leaves, Settles, Dies,
       LosesClaim, LosesCompletion, Holding, Queue!HoldingPc
  <2>3. ~(Holding(w)' /\ worker'[w].job = j)
    <3>1. CASE Claims(w)
      BY <2>1, <3>1 DEF Claims
    <3>2. CASE ~Claims(w)
      <4>1. worker'[w].job = worker[w].job \/ ~Holding(w)'
        BY <3>2 DEF WorkerDoes, Idles, Looks, Calls, Leaves, Settles, Dies,
           LosesClaim, LosesCompletion
      <4>2. Holding(w) \/ ~Holding(w)'
        BY <3>2 DEF WorkerDoes, Idles, Looks, Calls, Leaves, Settles, Dies,
           LosesClaim, LosesCompletion, Holding, Queue!HoldingPc
      <4> QED BY <1>5, <4>1, <4>2
    <3> QED BY <3>1, <3>2
  <2>4. ASSUME NEW v \in Workers, Holding(v)', worker'[v].job = j,
               jobs[j].status = "claimed"
        PROVE  Concerned(v)'
    <3>1. v # w
      BY <2>3, <2>4
    <3> QED BY <1>1, <2>4, <3>1 DEF Accounts
  <2> QED BY <1>2, <2>2, <2>4 DEF Accounts
<1> QED BY <1>4, <1>5

\* A call that goes on, or fails, leaves the jobs accounted for.
LEMMA CallKeepsAccount ==
  ASSUME BInv, NEW d \in Drivers, InCall(d), Others(d), CallDoes(d), CallFits(d),
         jobs' = jobs, worker' = worker, task' = task,
         run'.status = "running", NEW j \in DOMAIN jobs, Accounts(j)
  PROVE  Accounts(j)'
<1>1. CASE d \notin Workers
  BY <1>1, AccountKept
<1>2. CASE d \in Workers
  <2>1. d \notin Operators /\ call[d].op \in WorkerOps
    BY <1>2, WorkerHas DEF CallFits
  <2>2. call[d].op # "queueResume" /\ call[d].op # "decide"
    BY <2>1 DEF WorkerOps
  <2>3. InCall(d)' \/ call'[d].pc = "threw"
    <3>1. CASE Reads(d)
      BY <2>2, <3>1 DEF Reads, Ends, GoesOn
    <3>2. CASE Queues(d)
      BY <3>2 DEF Queues
    <3>3. CASE Executing(d)
      BY <3>3 DEF Executing, GoesOn
    <3>4. CASE Finishes(d)
      BY <3>4 DEF Finishes
    <3>5. CASE Decides(d)
      BY <2>2, <3>5 DEF Decides
    <3>6. CASE Fails(d)
      BY <2>1, <3>6 DEF Fails, Ends, GoesOn
    <3>7. CASE Loses(d)
      BY <3>7 DEF Loses, Ends, GoesOn
    <3> QED BY <3>1, <3>2, <3>3, <3>4, <3>5, <3>6, <3>7 DEF CallDoes, Proceeds
  <2>4. worker[d].pc = "working" /\ task[d] = "called"
    BY <1>2, WorkerHas DEF Attached
  <2>5. Concerned(d)'
    BY <2>3, <2>4 DEF Concerned
  <2>6. ASSUME NEW w \in Workers, Concerned(w) PROVE Concerned(w)'
    <3>1. CASE w # d
      <4>1. call'[w] = call[w]
        BY <3>1, WorkerHas DEF Others
      <4> QED BY <2>6, <4>1, StaysConcerned
    <3> QED BY <2>5, <3>1
  <2>7. \A w \in Workers : Holding(w)' <=> Holding(w)
    BY DEF Holding
  <2> QED BY <2>6, <2>7 DEF Accounts
<1> QED BY <1>1, <1>2

\* A job whose worker is concerned accounts for the run.
LEMMA OwnJobAccounts ==
  ASSUME BInv, NEW w \in Workers, InCall(w), jobs' = jobs, worker' = worker,
         Concerned(w)'
  PROVE  worker[w].job \in DOMAIN jobs /\ Accounts(worker[w].job)'
<1>1. worker[w].pc = "working"
  BY WorkerHas DEF Attached
<1>2. Holding(w)
  BY <1>1 DEF Holding, Queue!HoldingPc
<1>3. worker[w].job \in DOMAIN jobs /\ jobs[worker[w].job].status = "claimed"
  BY <1>1, <1>2, WorkerHas DEF Holding
<1>4. ASSUME NEW v \in Workers, Holding(v)', worker'[v].job = worker[w].job
      PROVE  v = w
  BY <1>2, <1>4, HeldByOne DEF Holding
<1> QED BY <1>3, <1>4 DEF Accounts

\* Every step keeps a running run accounted for.
LEMMA KnownStep == BInv /\ RunningIsKnown /\ [Next]_vars => RunningIsKnown'
<1> SUFFICES ASSUME BInv, RunningIsKnown, [Next]_vars, run'.status = "running"
             PROVE  \E j \in DOMAIN jobs' : Accounts(j)'
  BY DEF RunningIsKnown
<1>1. ASSUME run' = run PROVE \E j \in DOMAIN jobs : Accounts(j)
  BY <1>1 DEF RunningIsKnown
<1>2. ASSUME NEW o \in Operators, worker' = worker, task' = task, run' = run,
             call' = call \/ Others(o),
             \A j \in DOMAIN jobs : j \in DOMAIN jobs' /\ jobs'[j] = jobs[j]
      PROVE  \E j \in DOMAIN jobs' : Accounts(j)'
  <2>1. o \in Drivers \ Workers
    BY ServiceAssumption DEF Drivers
  <2>2. PICK j \in DOMAIN jobs : Accounts(j)
    BY <1>1, <1>2
  <2> QED BY <1>2, <2>1, <2>2, AccountKept
<1>3. CASE UNCHANGED vars
  <2>1. /\ run' = run /\ call' = call /\ jobs' = jobs
        /\ worker' = worker /\ task' = task
    BY <1>3 DEF vars, engineVars, queueVars, serviceVars
  <2> QED BY <1>1, <2>1, AccountKept
<1>4. ASSUME NEW o \in Operators, Request(o) \/ Handle(o)
      PROVE  \E j \in DOMAIN jobs' : Accounts(j)'
  <2>1. worker' = worker /\ task' = task /\ OperatorDoes(o)
    BY <1>4, OperatorStep
  <2>2. run' = run
    BY <2>1 DEF OperatorDoes, Starts, Asks, Enqueues, Invokes, EngineKept, RowKept
  <2>3. /\ call' = call \/ Others(o)
        /\ \A j \in DOMAIN jobs : j \in DOMAIN jobs' /\ jobs'[j] = jobs[j]
    BY <2>1 DEF OperatorDoes, Starts, Asks, Enqueues, Invokes, EngineKept
  <2> QED BY <1>2, <2>1, <2>2, <2>3
<1>5. ASSUME NEW o \in Operators, RequestDies(o)
      PROVE  \E j \in DOMAIN jobs' : Accounts(j)'
  BY <1>2, <1>5, RequestDiesStep DEF GivesUp, EngineKept, RowKept
<1>6. ASSUME NEW w \in Workers,
             Work(w) \/ QueueThrows(w) \/ WorkerDies(w) \/ WorkerStarts(w)
      PROVE  \E j \in DOMAIN jobs' : Accounts(j)'
  <2>1. OtherWorkers(w) /\ WorkerDoes(w)
    BY <1>6, WorkerStep
  <2>2. run' = run
    BY <2>1 DEF WorkerDoes, Idles, Claims, Looks, Calls, Leaves, Settles, Dies,
                LosesClaim, LosesCompletion,
                EngineKept, RowKept
  <2> QED BY <1>1, <2>1, <2>2, WorkerKeepsAccount
<1>7. ASSUME NEW d \in Drivers, Advance(d) \/ CallFaults(d)
      PROVE  \E j \in DOMAIN jobs' : Accounts(j)'
  <2>1. /\ jobs' = jobs /\ worker' = worker /\ task' = task
        /\ InCall(d) /\ Others(d) /\ CallDoes(d) /\ CallFits(d)
    BY <1>7, CallStep DEF BInv
  <2>2. CASE run.status = "running"
    BY <2>1, <2>2, CallKeepsAccount DEF RunningIsKnown
  <2>3. CASE run.status # "running"
    <3>1. Executing(d) \/ Loses(d)
      BY <2>1, <2>3 DEF CallDoes, Proceeds, Reads, Queues, Finishes, Decides, Fails,
                        RowKept
    <3>2. call[d].op \in WorkerOps /\ (InCall(d)' \/ call'[d].pc = "threw")
      BY <3>1 DEF Executing, Loses, Ends, GoesOn
    <3>3. d \in Workers
      BY <2>1, <3>2 DEF CallFits, Drivers, WorkerOps, OperatorOps
    <3>4. worker[d].pc = "working" /\ task[d] = "called"
      BY <2>1, <3>3, WorkerHas DEF Attached
    <3>5. Concerned(d)'
      BY <2>1, <3>2, <3>4 DEF Concerned
    <3> QED BY <2>1, <3>3, <3>5, OwnJobAccounts
  <2> QED BY <2>2, <2>3
<1> QED BY <1>3, <1>4, <1>5, <1>6, <1>7, StepCases

\* Whatever dies, is rejected or stored without an answer, a run is never left
\* "running" behind the back of its jobs: while no call executes it one of its
\* jobs failed or is still claimed (processNextJob, completeJob, failJob).
THEOREM StalledRunsHaveJobs == Spec => []StalledRunHasJob
<1>1. Init => RunningIsKnown
  BY DEF Init, Engine!Init, Engine!NoRun, Engine!createWorkflowRunSnapshot,
         Engine!Absent, RunningIsKnown
<1>2. Spec => []RunningIsKnown
  BY <1>1, KnownStep, Base, PTL DEF Spec
<1>3. BInv /\ RunningIsKnown => StalledRunHasJob
  BY WorkerHas DEF StalledRunHasJob, RunningIsKnown, Accounts
<1> QED BY <1>2, <1>3, Base, PTL

-----------------------------------------------------------------------------
(* One operator whose requests run to their end: one job at a time         *)

OneOperator == \A o, p \in Operators : o = p

RequestsRun == \A o \in Operators : ~RequestDies(o) /\ ~CallFaults(o)

\* A worker that may still call the engine, or is inside its call.
Active(w) == worker[w].pc = "working" /\ (task[w] # "called" \/ InCall(w))

\* A job that may still drive the run.
Live(j) ==
  \/ jobs[j].status = "queued"
  \/ \E w \in Workers : Active(w) /\ worker[w].job = j

NoneLive    == \A j \in DOMAIN jobs : ~Live(j)
NonePending == Engine!PendingApproval = 0
NoneRefused ==
  \A a \in DOMAIN approvals : approvals[a].status \notin {"rejected", "cancelled"}

\* The operator has enqueued the job of a paused run and has not yet written
\* that the run is queued.
Resuming(o) ==
  \/ request[o] = "queueResumeRun"
  \/ InCall(o) /\ call[o].op = "queueResume" /\ call[o].snap.status = "paused"

\* Before there is a job there is nothing but a run that was created.
FirstJob ==
  /\ run.status = Engine!Absent =>
       DOMAIN jobs = {} /\ \A o \in Operators : request[o] = "idle"
  /\ DOMAIN jobs = {} =>
       /\ run.status \in {Engine!Absent, "pending"} /\ approvals = <<>>
       /\ \A o \in Operators : ~InCall(o) /\ request[o] \in {"idle", "enqueueStart"}

\* What the operator does next shows what the jobs may do.
RequestKnows(o) ==
  /\ InCall(o) => request[o] = "idle"
  /\ request[o] = "enqueueStart" => DOMAIN jobs = {}
  /\ request[o] \in {"readPending", "enqueueResume"} => NoneLive
  /\ request[o] = "enqueueResume" => NonePending
  /\ InCall(o) /\ call[o].op = "decide" => NoneLive

\* The run belongs to one job at most, and to none while it waits for an
\* approval or is paused, unless the operator is just resuming it.  A refused
\* approval leaves nobody who could write the run.
OneJob ==
  /\ \A j, k \in DOMAIN jobs : Live(j) /\ Live(k) => j = k
  /\ NoneLive \/ NonePending
  /\ NoneLive \/ run.status # "paused" \/ \E o \in Operators : Resuming(o)
  /\ \/ NoneRefused
     \/ /\ run.status = "cancelled" /\ NoneLive
        /\ \A o \in Operators : ~InCall(o) /\ request[o] = "idle"

TokenInv == FirstJob /\ (\A o \in Operators : RequestKnows(o)) /\ OneJob

LiveShrinks ==
  DOMAIN jobs' = DOMAIN jobs /\ \A j \in DOMAIN jobs : Live(j)' => Live(j)

\* Which approvals are pending shows in the approvals alone.
LEMMA PendingKept == approvals' = approvals => (NonePending' <=> NonePending)
BY DEF NonePending, Engine!PendingApproval

\* Without approvals none is pending.
LEMMA PendingEmpty == approvals = <<>> => NonePending
BY DEF NonePending, Engine!PendingApproval

\* A worker in an engine call drives the run with a job of its own.
LEMMA CallIsLive ==
  ASSUME BInv, NEW w \in Workers, InCall(w)
  PROVE  /\ worker[w].job \in DOMAIN jobs /\ Live(worker[w].job)
         /\ Holding(w) /\ ~NoneLive
<1>1. worker[w].pc = "working"
  BY WorkerHas DEF Attached
<1>2. Holding(w) /\ worker[w].job \in DOMAIN jobs
  BY <1>1, WorkerHas DEF Holding, Queue!HoldingPc
<1> QED BY <1>1, <1>2 DEF Live, Active, NoneLive

\* What a worker does outside of a call makes no job live again.
LEMMA WorkerShrinks ==
  ASSUME BInv, NEW w \in Workers, OtherWorkers(w), WorkerDoes(w)
  PROVE  LiveShrinks
<1>1. ASSUME NEW v \in Workers, v # w, Active(v)'
      PROVE  Active(v) /\ worker'[v].job = worker[v].job
  <2>1. worker'[v] = worker[v] /\ task'[v] = task[v]
    BY <1>1 DEF OtherWorkers
  <2>2. call'[v] = call[v]
    BY <1>1, WorkerHas DEF WorkerDoes, Idles, Claims, Looks, Calls, Leaves, Settles,
       Dies, LosesClaim, LosesCompletion, EngineKept, Others
  <2> QED BY <1>1, <2>1, <2>2 DEF Active, InCall
<1>2. ASSUME Active(w)'
      PROVE  Live(worker'[w].job)
  <2>1. worker'[w].pc = "working"
    BY <1>2 DEF Active
  <2>2. CASE Claims(w)
    BY <2>2 DEF Claims, Live
  <2>3. CASE Looks(w) \/ Calls(w)
    <3>1. worker'[w] = worker[w] /\ worker[w].pc = "working" /\ task[w] # "called"
      BY <2>3 DEF Looks, Calls
    <3> QED BY <3>1 DEF Live, Active
  <2>4. /\ ~Idles(w) /\ ~Leaves(w) /\ ~Settles(w) /\ ~Dies(w)
        /\ ~LosesClaim(w) /\ ~LosesCompletion(w)
    BY <2>1 DEF Idles, Leaves, Settles, Dies, LosesClaim, LosesCompletion, Holding,
       Queue!HoldingPc
  <2> QED BY <2>2, <2>3, <2>4 DEF WorkerDoes
<1>3. DOMAIN jobs' = DOMAIN jobs
  BY DEF WorkerDoes, Idles, Claims, Looks, Calls, Leaves, Settles, Dies, LosesClaim,
         LosesCompletion
<1>4. ASSUME NEW j \in DOMAIN jobs, jobs'[j].status = "queued"
      PROVE  jobs[j].status = "queued"
  BY <1>4 DEF WorkerDoes, Idles, Claims, Looks, Calls, Leaves, Settles, Dies,
              LosesClaim, LosesCompletion, Queue!Settled
<1>5. ASSUME NEW j \in DOMAIN jobs, Live(j)' PROVE Live(j)
  <2>1. CASE jobs'[j].status = "queued"
    BY <1>4, <2>1 DEF Live
  <2>2. ASSUME NEW v \in Workers, Active(v)', worker'[v].job = j PROVE Live(j)
    BY <1>1, <1>2, <2>2 DEF Live
  <2> QED BY <1>5, <2>1, <2>2 DEF Live
<1> QED BY <1>3, <1>5 DEF LiveShrinks

\* Nor does a step of an engine call.
LEMMA CallShrinks ==
  ASSUME BInv, NEW d \in Drivers, d \in Workers => InCall(d), Others(d) \/ call' = call,
         jobs' = jobs, worker' = worker, task' = task
  PROVE  LiveShrinks
<1>1. ASSUME NEW v \in Workers, Active(v)' PROVE Active(v)
  BY <1>1 DEF Active, Others, InCall, Drivers
<1> QED BY <1>1 DEF LiveShrinks, Live

\* A worker step, or a read of a worker's call, cannot disturb anything.
LEMMA TokenQuiet ==
  ASSUME TokenInv, LiveShrinks, run' = run, approvals' = approvals,
         request' = request, \A o \in Operators : call'[o] = call[o]
  PROVE  TokenInv'
<1>1. NoneLive => NoneLive'
  BY DEF LiveShrinks, NoneLive
<1>2. \A o \in Operators : InCall(o)' <=> InCall(o)
  BY DEF InCall
<1>3. FirstJob'
  BY <1>2 DEF TokenInv, FirstJob, LiveShrinks
<1>4. ASSUME NEW o \in Operators PROVE RequestKnows(o)'
  BY <1>1, <1>2, PendingKept DEF TokenInv, RequestKnows, LiveShrinks
<1>5. \A o \in Operators : Resuming(o) => Resuming(o)'
  BY <1>2 DEF Resuming
<1>6. OneJob'
  BY <1>1, <1>2, <1>5, PendingKept DEF TokenInv, OneJob, LiveShrinks, NoneRefused
<1> QED BY <1>3, <1>4, <1>6 DEF TokenInv

\* The engine call of a worker: it owns the run.
LEMMA TokenWorkerCall ==
  ASSUME BInv, TokenInv, NEW w \in Workers, InCall(w), Others(w), CallDoes(w),
         lost' = 0,
         jobs' = jobs, worker' = worker, task' = task, request' = request
  PROVE  TokenInv'
<1>1. /\ w \in Drivers /\ w \notin Operators /\ call[w].op \in WorkerOps
      /\ \A o \in Operators : call'[o] = call[o] /\ o \in Drivers
  BY WorkerHas DEF CallFits, Others, Drivers
<1>2. LiveShrinks
  BY <1>1, CallShrinks
<1>3. ~NoneLive /\ worker[w].job \in DOMAIN jobs /\ Live(worker[w].job) /\ Holding(w)
  BY CallIsLive
<1>4. \A o \in Operators : InCall(o)' <=> InCall(o)
  BY <1>1 DEF InCall
<1>5. CASE RowKept
  BY <1>1, <1>2, <1>5, TokenQuiet DEF RowKept
<1>6. CASE ~RowKept
  <2>1. /\ NonePending /\ NoneRefused /\ DOMAIN jobs # {}
        /\ \A o \in Operators :
             /\ request[o] \notin {"readPending", "enqueueResume", "enqueueStart"}
             /\ ~(InCall(o) /\ call[o].op = "decide")
    BY <1>3 DEF TokenInv, OneJob, RequestKnows, NoneLive
  <2>2. Queues(w) \/ Executing(w) \/ Finishes(w)
    BY <1>1, <1>6 DEF CallDoes, Proceeds, Reads, Fails, Loses, Decides, WorkerOps
  <2>3. run'.status \in {"queued", "running", "paused", "succeeded", "failed"}
    BY <2>2 DEF Queues, Executing, Finishes
  <2>4. FirstJob'
    BY <2>1, <2>3 DEF FirstJob, Engine!Absent
  <2>5. NonePending' \/ Finishes(w)
    BY <2>1, <2>2, PendingKept DEF Queues, Executing
  <2>6. NoneRefused'
    <3>1. approvals \in Seq(EP!ApprovalType)
      BY DEF BInv, EP!IInv, EP!TypeOK
    <3>2. CASE approvals' = approvals
      BY <2>1, <3>2 DEF NoneRefused
    <3>3. ASSUME NEW i, approvals' = Append(approvals, [step |-> i, status |-> "pending"])
          PROVE  NoneRefused'
      <4>1. \A a \in DOMAIN approvals' :
              \/ a \in DOMAIN approvals /\ approvals'[a] = approvals[a]
              \/ approvals'[a].status = "pending"
        BY <3>1, <3>3
      <4> QED BY <2>1, <4>1 DEF NoneRefused
    <3> QED BY <2>2, <3>2, <3>3 DEF Queues, Executing, Finishes
  <2>7. ASSUME NEW o \in Operators PROVE RequestKnows(o)'
    BY <1>1, <1>4, <2>1 DEF TokenInv, RequestKnows
  <2>8. CASE Finishes(w)
    <3>1. ~Active(w)'
      BY <2>8, WorkerHas DEF Finishes, Ends, Active, InCall, Engine!Waiting, Attached
    <3>2. NoneLive'
      <4> SUFFICES ASSUME NEW j \in DOMAIN jobs, Live(j)' PROVE FALSE
        BY DEF NoneLive
      <4>1. Live(j) /\ j = worker[w].job
        BY <1>2, <1>3 DEF TokenInv, OneJob, LiveShrinks
      <4>2. jobs'[j].status # "queued"
        BY <1>3, <4>1, WorkerHas
      <4>3. PICK v \in Workers : Active(v)' /\ worker'[v].job = j
        BY <4>2 DEF Live
      <4>4. Holding(v) /\ worker[v].job = worker[w].job
        BY <4>1, <4>3 DEF Active, Holding, Queue!HoldingPc
      <4> QED BY <1>3, <3>1, <4>3, <4>4, HeldByOne
    <3>3. OneJob'
      BY <2>6, <3>2 DEF OneJob, NoneLive
    <3> QED BY <2>4, <2>7, <3>3 DEF TokenInv
  <2>9. CASE Queues(w) \/ Executing(w)
    <3>1. run'.status # "paused" /\ NonePending'
      BY <2>1, <2>9, PendingKept DEF Queues, Executing
    <3>2. OneJob'
      BY <1>2, <2>6, <3>1 DEF TokenInv, OneJob, LiveShrinks
    <3> QED BY <2>4, <2>7, <3>2 DEF TokenInv
  <2> QED BY <2>2, <2>8, <2>9
<1> QED BY <1>5, <1>6

\* The engine call of the operator.
LEMMA TokenOperatorCall ==
  ASSUME BInv, TokenInv, OneOperator, NEW o \in Operators, InCall(o), Others(o),
         Proceeds(o), jobs' = jobs, worker' = worker, task' = task,
         request' = request
  PROVE  TokenInv'
<1>1. /\ o \in Drivers /\ o \notin Workers /\ call[o].op \in OperatorOps
      /\ call[o].op \notin WorkerOps
  BY ServiceAssumption DEF BInv, CallFits, Drivers, OperatorOps, WorkerOps
<1>2. LiveShrinks
  BY <1>1, CallShrinks
<1>3. /\ request[o] = "idle" /\ DOMAIN jobs # {} /\ NoneRefused
      /\ call[o].op = "decide" => NoneLive
  BY DEF TokenInv, FirstJob, RequestKnows, OneJob
<1>4. \A p \in Operators : p = o
  BY DEF OneOperator
<1>5. NoneLive => NoneLive'
  BY <1>2 DEF LiveShrinks, NoneLive
<1>6. ASSUME run'.status # Engine!Absent PROVE FirstJob'
  BY <1>3, <1>6 DEF FirstJob
<1>7. ASSUME InCall(o)' /\ call'[o].op = "decide" => NoneLive'
      PROVE  \A p \in Operators : RequestKnows(p)'
  BY <1>3, <1>4, <1>7 DEF RequestKnows
<1>8. ASSUME NEW j \in DOMAIN jobs, NEW k \in DOMAIN jobs, Live(j)', Live(k)'
      PROVE  j = k
  BY <1>2, <1>8 DEF TokenInv, OneJob, LiveShrinks
<1>9. CASE Reads(o)
  <2>1. run' = run /\ approvals' = approvals
    BY <1>9 DEF Reads, RowKept
  <2>2. run'.status # Engine!Absent
    BY <1>3, <2>1 DEF TokenInv, FirstJob
  <2>3. InCall(o)' /\ call'[o].op = "decide" => NoneLive'
    BY <1>3, <1>5, <1>9 DEF Reads, Ends, GoesOn, InCall, Engine!Waiting
  <2>4. NoneLive' \/ run'.status # "paused" \/ \E p \in Operators : Resuming(p)'
    <3>1. NoneLive \/ run.status # "paused" \/ Resuming(o)
      BY <1>4 DEF TokenInv, OneJob
    <3>2. ASSUME Resuming(o) PROVE NoneLive \/ Resuming(o)'
      <4>1. call[o].op = "queueResume" /\ call[o].snap.status = "paused"
        BY <1>3, <3>2 DEF Resuming
      <4>2. CASE GoesOn(o, call[o].snap.status)
        BY <4>1, <4>2 DEF GoesOn, Resuming
      <4>3. CASE ~GoesOn(o, call[o].snap.status)
        BY <1>9, <4>1, <4>3 DEF Reads, TokenInv, OneJob, NonePending
      <4> QED BY <4>2, <4>3
    <3> QED BY <1>5, <2>1, <3>1, <3>2
  <2>5. (NoneLive \/ NonePending)'
    BY <1>5, <2>1, PendingKept DEF TokenInv, OneJob
  <2>6. NoneRefused'
    BY <1>3, <2>1 DEF NoneRefused
  <2>7. OneJob'
    BY <1>8, <2>4, <2>5, <2>6 DEF OneJob
  <2> QED BY <1>6, <1>7, <2>2, <2>3, <2>7 DEF TokenInv
<1>10. CASE Queues(o)
  <2>1. /\ run'.status = "queued" /\ approvals' = approvals /\ ~InCall(o)'
    BY <1>1, <1>10 DEF Queues, Ends, InCall, Engine!Waiting
  <2>2. (NoneLive \/ NonePending)' /\ NoneRefused'
    BY <1>3, <1>5, <2>1, PendingKept DEF TokenInv, OneJob, NoneRefused
  <2>3. OneJob'
    BY <1>8, <2>1, <2>2 DEF OneJob
  <2> QED BY <1>6, <1>7, <2>1, <2>3 DEF TokenInv, Engine!Absent
<1>11. CASE Decides(o)
  <2>1. NoneLive' /\ ~InCall(o)'
    BY <1>3, <1>5, <1>11 DEF Decides, Ends, InCall, Engine!Waiting
  <2>2. PICK a \in DOMAIN approvals, decision \in Engine!Decisions :
          /\ approvals' = [approvals EXCEPT ![a].status = decision]
          /\ run'.status = IF decision = "approved" THEN "paused" ELSE "cancelled"
    BY <1>11 DEF Decides
  <2>3. run'.status # Engine!Absent
    BY <2>2 DEF Engine!Absent
  <2>4. NoneRefused' \/ run'.status = "cancelled"
    <3> SUFFICES ASSUME decision = "approved" PROVE NoneRefused'
      BY <2>2
    <3>1. approvals \in Seq(EP!ApprovalType)
      BY DEF BInv, EP!IInv, EP!TypeOK
    <3>2. \A b \in DOMAIN approvals' :
            /\ b \in DOMAIN approvals
            /\ b # a => approvals'[b] = approvals[b]
      BY <2>2, <3>1
    <3>3. approvals'[a].status = "approved"
      <4>1. approvals[a] \in EP!ApprovalType
        BY <2>2, <3>1
      <4>2. approvals'[a] = [approvals[a] EXCEPT !.status = decision]
        BY <2>2, <3>1
      <4> QED BY <4>1, <4>2 DEF EP!ApprovalType
    <3> QED BY <1>3, <3>2, <3>3 DEF NoneRefused
  <2>5. \A p \in Operators : ~InCall(p)' /\ request'[p] = "idle"
    BY <1>3, <1>4, <2>1
  <2>6. OneJob'
    BY <1>8, <2>1, <2>4, <2>5 DEF OneJob
  <2> QED BY <1>6, <1>7, <2>1, <2>3, <2>6 DEF TokenInv
<1>12. ~Executing(o) /\ ~Finishes(o)
  BY <1>1 DEF Executing, Finishes
<1> QED BY <1>9, <1>10, <1>11, <1>12 DEF Proceeds

\* The requests of the operator.
LEMMA TokenRequest ==
  ASSUME BInv, TokenInv, OneOperator, NEW o \in Operators,
         OperatorDoes(o), worker' = worker, task' = task
  PROVE  TokenInv'
<1>1. o \in Drivers /\ o \notin Workers
  BY ServiceAssumption DEF Drivers
<1>2. \A p \in Operators : p = o
  BY DEF OneOperator
<1>3. Others(o) \/ call' = call
  BY DEF OperatorDoes, Starts, Asks, Enqueues, Invokes, EngineKept
<1>4. \A w \in Workers : Active(w)' <=> Active(w)
  BY <1>1, <1>3 DEF Others, Active, InCall, Drivers
<1>5. ASSUME NEW j \in DOMAIN jobs, jobs'[j] = jobs[j] PROVE Live(j)' <=> Live(j)
  BY <1>4, <1>5 DEF Live
<1>6. ASSUME jobs' = jobs
      PROVE  /\ NoneLive' <=> NoneLive
             /\ \A j, k \in DOMAIN jobs' : Live(j)' /\ Live(k)' => j = k
  BY <1>5, <1>6 DEF NoneLive, TokenInv, OneJob
<1>7. RequestKnows(o)
  BY DEF TokenInv
<1>8. FirstJob /\ OneJob
  BY DEF TokenInv
<1>9. NoneLive \/ run.status # "paused" \/ Resuming(o)
  BY <1>2, <1>8 DEF OneJob
<1>10. \/ NoneRefused
       \/ run.status = "cancelled" /\ NoneLive /\ ~InCall(o) /\ request[o] = "idle"
  BY <1>8 DEF OneJob
<1>11. CASE Starts(o)
  <2>1. DOMAIN jobs = {} /\ approvals = <<>> /\ jobs' = jobs /\ approvals' = approvals
    BY <1>8, <1>11 DEF Starts, FirstJob
  <2>2. NoneLive' /\ NoneRefused'
    BY <2>1 DEF NoneLive, NoneRefused
  <2>3. ~InCall(o)' /\ request'[o] = "enqueueStart" /\ run'.status = "pending"
    BY <1>11 DEF Starts
  <2>4. FirstJob'
    BY <1>2, <2>1, <2>3 DEF FirstJob, Engine!Absent
  <2>5. RequestKnows(o)'
    BY <2>1, <2>3 DEF RequestKnows
  <2>6. OneJob'
    BY <1>6, <2>1, <2>2 DEF OneJob
  <2> QED BY <1>2, <2>4, <2>5, <2>6 DEF TokenInv
<1>12. CASE Asks(o)
  <2>1. /\ run' = run /\ approvals' = approvals /\ call' = call /\ jobs' = jobs
        /\ InCall(o)' <=> InCall(o)
    BY <1>12 DEF Asks, EngineKept, RowKept, InCall
  <2>2. /\ ~InCall(o) /\ NoneLive /\ NoneRefused
        /\ run.status # Engine!Absent /\ DOMAIN jobs # {}
        /\ request'[o] \in {"readPending", "enqueueResume", "idle"}
        /\ request'[o] = "enqueueResume" => NonePending
    <3>1. CASE request[o] = "idle"
      <4>1. /\ ~InCall(o) /\ run.status = "paused" /\ request'[o] = "readPending"
        BY <1>12, <3>1 DEF Asks
      <4>2. ~Resuming(o)
        BY <3>1, <4>1 DEF Resuming
      <4> QED BY <1>8, <1>9, <1>10, <4>1, <4>2 DEF FirstJob, Engine!Absent
    <3>2. CASE request[o] # "idle"
      <4>1. /\ request[o] = "readPending"
            /\ request'[o] \in {"enqueueResume", "idle"}
            /\ request'[o] = "enqueueResume" => NonePending
        BY <1>12, <3>2 DEF Asks, NonePending
      <4> QED BY <1>7, <1>8, <1>10, <4>1 DEF RequestKnows, FirstJob
    <3> QED BY <3>1, <3>2
  <2>3. NoneLive' /\ NoneRefused' /\ (NonePending => NonePending')
    BY <1>6, <2>1, <2>2, PendingKept DEF NoneRefused
  <2>4. FirstJob'
    BY <2>1, <2>2 DEF FirstJob
  <2>5. RequestKnows(o)'
    BY <2>1, <2>2, <2>3 DEF RequestKnows
  <2>6. OneJob'
    BY <1>6, <2>1, <2>3 DEF OneJob
  <2> QED BY <1>2, <2>4, <2>5, <2>6 DEF TokenInv
<1>13. CASE Enqueues(o)
  <2>1. /\ run' = run /\ approvals' = approvals /\ call' = call
        /\ InCall(o)' <=> InCall(o)
    BY <1>13 DEF Enqueues, EngineKept, RowKept, InCall
  <2>2. /\ request[o] \in {"enqueueStart", "enqueueResume"}
        /\ request[o] = "enqueueStart" => request'[o] = "queueRun"
        /\ request[o] = "enqueueResume" => request'[o] = "queueResumeRun"
    BY <1>13 DEF Enqueues
  <2>3. PICK n : /\ n \notin DOMAIN jobs /\ DOMAIN jobs' = DOMAIN jobs \cup {n}
                 /\ \A k \in DOMAIN jobs : jobs'[k] = jobs[k]
    BY <1>13 DEF Enqueues
  <2>4. /\ ~InCall(o) /\ NoneLive /\ NonePending /\ NoneRefused
        /\ run.status # Engine!Absent
    BY <1>7, <1>8, <1>10, <2>2, PendingEmpty DEF RequestKnows, FirstJob, NoneLive
  <2>5. \A j \in DOMAIN jobs' : Live(j)' => j = n
    BY <1>5, <2>3, <2>4 DEF NoneLive
  <2>6. NonePending' /\ NoneRefused'
    BY <2>1, <2>4, PendingKept DEF NoneRefused
  <2>7. run'.status # "paused" \/ Resuming(o)'
    <3>1. CASE request[o] = "enqueueStart"
      BY <1>7, <1>8, <2>1, <3>1 DEF RequestKnows, FirstJob, Engine!Absent
    <3>2. CASE request[o] = "enqueueResume"
      BY <2>2, <3>2 DEF Resuming
    <3> QED BY <2>2, <3>1, <3>2
  <2>8. FirstJob'
    BY <2>1, <2>3, <2>4 DEF FirstJob
  <2>9. RequestKnows(o)'
    BY <2>1, <2>2, <2>4 DEF RequestKnows
  <2>10. OneJob'
    BY <2>5, <2>6, <2>7 DEF OneJob
  <2> QED BY <1>2, <2>8, <2>9, <2>10 DEF TokenInv
<1>14. CASE Invokes(o)
  <2>1. /\ run' = run /\ approvals' = approvals /\ jobs' = jobs
        /\ ~InCall(o) /\ run.status # Engine!Absent /\ request'[o] = "idle"
    BY <1>14 DEF Invokes, RowKept
  <2>2. PICK op \in OperatorOps :
         /\ op = "queue" => request[o] = "queueRun"
         /\ op = "queueResume" => request[o] = "queueResumeRun"
         /\ op = "decide" => request[o] = "idle" /\ approvals # <<>>
         /\ \/ /\ InCall(o)' /\ call'[o].op = op /\ call'[o].snap = run
               /\ op = "decide" => run.status = "paused"
               /\ op = "queue" => run.status = "pending"
            \/ /\ ~InCall(o)' /\ call'[o].snap.status = Engine!Absent
               /\ op # "queueResume"
    BY <1>14 DEF Invokes
  <2>3. op = "queue" \/ op = "queueResume" \/ op = "decide"
    BY DEF OperatorOps
  <2>4. DOMAIN jobs # {}
    BY <1>8, <2>2, <2>3 DEF FirstJob
  <2>5. (NoneLive \/ NonePending)'
    BY <1>6, <1>8, <2>1, PendingKept DEF OneJob
  <2>6. NoneLive' \/ run'.status # "paused" \/ Resuming(o)'
    <3>1. CASE op = "queueResume"
      BY <2>1, <2>2, <3>1 DEF Resuming
    <3>2. CASE op # "queueResume"
      <4>1. ~Resuming(o)
        BY <2>1, <2>2, <2>3, <3>2 DEF Resuming
      <4> QED BY <1>6, <1>9, <2>1, <4>1
    <3> QED BY <3>1, <3>2
  <2>7. InCall(o)' /\ call'[o].op = "decide" => NoneLive'
    <3> SUFFICES ASSUME InCall(o)', call'[o].op = "decide" PROVE NoneLive
      BY <1>6, <2>1
    <3>1. op = "decide" /\ run.status = "paused"
      BY <2>2
    <3>2. ~Resuming(o)
      BY <2>1, <2>2, <3>1 DEF Resuming
    <3> QED BY <1>9, <3>1, <3>2
  <2>8. \/ NoneRefused'
        \/ run'.status = "cancelled" /\ NoneLive' /\ ~InCall(o)'
    <3>1. CASE NoneRefused
      BY <2>1, <3>1 DEF NoneRefused
    <3>2. CASE ~NoneRefused
      <4>1. run.status = "cancelled" /\ NoneLive /\ request[o] = "idle"
        BY <1>10, <3>2
      <4>2. op = "decide"
        BY <2>2, <2>3, <4>1
      <4> QED BY <1>6, <2>1, <2>2, <4>1, <4>2
    <3> QED BY <3>1, <3>2
  <2>9. FirstJob'
    BY <2>1, <2>4 DEF FirstJob
  <2>10. RequestKnows(o)'
    BY <2>1, <2>7 DEF RequestKnows
  <2>11. OneJob'
    BY <1>2, <1>6, <2>1, <2>5, <2>6, <2>8 DEF OneJob
  <2> QED BY <1>2, <2>9, <2>10, <2>11 DEF TokenInv
<1> QED BY <1>11, <1>12, <1>13, <1>14 DEF OperatorDoes

\* Every step keeps the token, until the answer of a stored commit is lost.
LEMMA TokenStep ==
  ASSUME OneOperator
  PROVE  BInv /\ TokenInv /\ [Next]_vars /\ [RequestsRun]_vars /\ lost' = 0
           => TokenInv'
<1> SUFFICES ASSUME BInv, TokenInv, [Next]_vars, [RequestsRun]_vars, lost' = 0
             PROVE  TokenInv'
  OBVIOUS
<1>1. CASE UNCHANGED vars
  <2>1. /\ run' = run /\ approvals' = approvals /\ call' = call /\ jobs' = jobs
        /\ worker' = worker /\ task' = task /\ request' = request
    BY <1>1 DEF vars, engineVars, queueVars, serviceVars
  <2>2. LiveShrinks
    BY <2>1 DEF LiveShrinks, Live, Active, InCall
  <2> QED BY <2>1, <2>2, TokenQuiet
<1>2. CASE ~UNCHANGED vars
  <2>1. RequestsRun
    BY <1>2
  <2>2. ASSUME NEW o \in Operators, Request(o) \/ Handle(o) \/ RequestDies(o)
        PROVE  TokenInv'
    BY <2>1, <2>2, OperatorStep, TokenRequest DEF RequestsRun
  <2>3. ASSUME NEW w \in Workers,
               Work(w) \/ QueueThrows(w) \/ WorkerDies(w) \/ WorkerStarts(w)
        PROVE  TokenInv'
    <3>1. request' = request /\ OtherWorkers(w) /\ WorkerDoes(w)
      BY <2>3, WorkerStep
    <3>2. RowKept /\ (Others(w) \/ call' = call)
      BY <3>1 DEF WorkerDoes, Idles, Claims, Looks, Calls, Leaves, Settles, Dies,
                  LosesClaim, LosesCompletion,
                  EngineKept
    <3>3. \A o \in Operators : call'[o] = call[o]
      BY <3>2, WorkerHas DEF Others, Drivers
    <3> QED BY <3>1, <3>2, <3>3, WorkerShrinks, TokenQuiet DEF RowKept
  <2>4. ASSUME NEW d \in Drivers, Advance(d) \/ CallFaults(d)
        PROVE  TokenInv'
    <3>1. /\ jobs' = jobs /\ worker' = worker /\ task' = task /\ request' = request
          /\ InCall(d) /\ Others(d) /\ CallDoes(d)
          /\ Advance(d) => Proceeds(d)
      BY <2>4, CallStep
    <3>2. CASE d \in Workers
      BY <3>1, <3>2, TokenWorkerCall
    <3>3. CASE d \in Operators
      BY <2>1, <2>4, <3>1, <3>3, TokenOperatorCall DEF RequestsRun
    <3> QED BY <3>2, <3>3 DEF Drivers
  <2> QED BY <1>2, <2>2, <2>3, <2>4, StepCases
<1> QED BY <1>1, <1>2

\* At first there is no job.
LEMMA TokenInit == Init => TokenInv
<1> SUFFICES ASSUME Init PROVE TokenInv
  OBVIOUS
<1>1. /\ run.status = Engine!Absent /\ approvals = <<>> /\ jobs = <<>>
      /\ \A o \in Operators : request[o] = "idle"
  BY DEF Init, Engine!Init, Engine!NoRun, Engine!createWorkflowRunSnapshot, Queue!Init
<1>2. \A d \in Drivers : ~InCall(d)
  BY DEF Init, Engine!Init, Engine!Ended, InCall, Engine!Waiting
<1>3. DOMAIN jobs = {} /\ DOMAIN approvals = {}
  BY <1>1
<1>4. FirstJob
  BY <1>1, <1>2, <1>3 DEF FirstJob, Drivers
<1>5. \A o \in Operators : RequestKnows(o)
  BY <1>1, <1>2 DEF RequestKnows, Drivers
<1>6. OneJob
  BY <1>3 DEF OneJob, NoneLive, NoneRefused
<1> QED BY <1>4, <1>5, <1>6 DEF TokenInv

\* Lost answers are counted, and there is one token at most while there is none.
OneToken == EP!LostCounted /\ (lost = 0 => TokenInv)

LEMMA Token == OneOperator /\ Spec /\ [][RequestsRun]_vars => []OneToken
<1> SUFFICES ASSUME OneOperator PROVE Spec /\ [][RequestsRun]_vars => []OneToken
  OBVIOUS
<1>1. Init => OneToken
  <2>1. Init => EP!LostCounted
    BY DEF Init, Engine!Init, EP!LostCounted
  <2> QED BY <2>1, TokenInit DEF OneToken
<1>2. BInv /\ OneToken /\ [Next]_vars /\ [RequestsRun]_vars => OneToken'
  <2> SUFFICES ASSUME BInv, OneToken, [Next]_vars, [RequestsRun]_vars
               PROVE  OneToken'
    OBVIOUS
  <2>1. EP!LostCounted' /\ (lost' = 0 => lost = 0)
    BY EngineStep, EP!StepCountsLost, Assumptions DEF OneToken
  <2>2. lost' = 0 => TokenInv'
    BY <2>1, TokenStep DEF OneToken
  <2> QED BY <2>1, <2>2 DEF OneToken
<1> QED BY <1>1, <1>2, Base, PTL DEF Spec

\* While one operator acts at a time, its requests run to their end and no
\* answer of a stored commit is lost, no two workers execute the run at the same
\* time, however many there are, whichever of them die or have commits rejected,
\* and whatever queue operations throw, stored or not (resumeRun of the service,
\* claimNext, executeClaimedJob).
THEOREM OneWorkerExecutes ==
  OneOperator /\ Spec /\ [][RequestsRun]_vars => []OneWorkerPerRun
<1>1. ASSUME BInv, OneToken PROVE OneWorkerPerRun
  <2> SUFFICES ASSUME lost = 0, NEW v \in Workers, NEW w \in Workers,
                      Executes(v), Executes(w)
               PROVE  v = w
    BY DEF OneWorkerPerRun
  <2>1. InCall(v) /\ InCall(w)
    BY DEF Executes, InCall, Engine!LoopPc, Engine!Waiting
  <2>2. worker[v].job = worker[w].job /\ Holding(v) /\ Holding(w)
    BY <1>1, <2>1, CallIsLive DEF OneToken, TokenInv, OneJob
  <2> QED BY <1>1, <2>2, HeldByOne
<1> QED BY <1>1, Token, Base, PTL

\* And a rejected or cancelled approval cancels the run for good, as long as no
\* answer is lost: no job that was enqueued before, and no worker, brings it
\* back (decideApproval).
THEOREM RefusalIsFinal ==
  OneOperator /\ Spec /\ [][RequestsRun]_vars => []RejectionCancelsRun
<1>1. OneToken => RejectionCancelsRun
  BY DEF OneToken, TokenInv, OneJob, NoneRefused, RejectionCancelsRun,
         Engine!RejectionCancelsRun
<1> QED BY <1>1, Token, PTL

-----------------------------------------------------------------------------
(* The composition implements the engine *)

\* Whatever the services do between the calls, what they do to the run, its
\* log, its checkpoint and its approvals are steps of the runtime engine with
\* operators and workers as drivers: what is proved of the engine with any
\* number of calls in flight holds of queued execution.
THEOREM ImplementsEngine == Spec => Engine!Spec
<1>1. Init => Engine!Init
  BY DEF Init
<1>2. [Next]_vars => [Engine!Next]_(Engine!vars)
  BY EngineStep, SameActions DEF EP!vars, Engine!vars
<1> QED BY <1>1, <1>2, PTL DEF Spec, Engine!Spec

\* The same in the words of the instance the proofs about the engine are of.
LEMMA EngineRuns == Spec => EP!Spec
<1>1. Init => EP!Init
  BY SameActions DEF Init
<1>2. [Next]_vars => [EP!Next]_(EP!vars)
  BY EngineStep
<1> QED BY <1>1, <1>2, PTL DEF Spec, EP!Spec

\* So an approval is decided at most once, and the log says how, although
\* operators decide while workers run (decideApproval).
THEOREM DecisionsAreMadeOnce == Spec => []Engine!DecidedOnce
<1>1. EP!Spec => []EP!DecidedOnce
  BY EP!ApprovalsDecidedOnce, Assumptions
<1>2. EP!DecidedOnce => Engine!DecidedOnce
  BY SameProperties
<1> QED BY <1>1, <1>2, EngineRuns, PTL
=============================================================================
