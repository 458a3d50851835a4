--------------------------- MODULE RuntimeEngine ---------------------------
(***************************************************************************)
(* The runtime engine of packages/core-runtime driving ONE run.            *)
(*                                                                         *)
(* The store holds the run row, its event log, its latest checkpoint and   *)
(* its approvals; commitTransition writes all of them in one atomic step.  *)
(* A driver is one engine call in flight: an API request, a CLI command or *)
(* a worker.  Every call reads the run, keeps the snapshot in a local      *)
(* variable across its awaits and writes the whole snapshot back: between  *)
(* two awaits of one driver any other driver may act, and no commit checks *)
(* that the row is still the one that was read.                            *)
(*                                                                         *)
(* A driver may crash between any two steps.  A commit may raise an error: *)
(* rejected by the store, or stored although its answer was lost, which    *)
(* the caller cannot tell apart.                                           *)
(***************************************************************************)
EXTENDS Domain, FiniteSets

CONSTANTS Drivers,     \* engine calls that may be in flight together
          Gates,       \* steps that ask for an approval before they go on
          Ops,         \* the engine operations the callers use
          MaxCalls,    \* bound on the number of engine calls
          MaxCrashes,  \* bound on the number of crashed drivers
          MaxFailures  \* bound on the number of commits that raise an error

ASSUME EngineAssumption ==
  /\ Gates \subseteq Steps
  /\ Ops \subseteq {"execute", "queue", "resume", "queueResume", "pause",
                    "decide"}
  /\ MaxCalls \in Nat /\ MaxCrashes \in Nat /\ MaxFailures \in Nat

VARIABLES run,         \* the persisted run snapshot
          log,         \* the persisted runtime events, in sequence order
          checkpoint,  \* the latest persisted checkpoint
          approvals,   \* the persisted approvals, in the order requested
          call,        \* call[d] : where driver d is, and its local snapshot
          made,        \* engine calls made so far
          crashes,     \* crashes so far
          failures,    \* commits that raised an error so far
          lost         \* those of them that had been stored

store  == <<run, log, checkpoint, approvals>>
faults == <<crashes, failures, lost>>
vars   == <<run, log, checkpoint, approvals, call, made, crashes, failures,
            lost>>

-----------------------------------------------------------------------------
(* Types *)

ApprovalStatus == {"pending", "approved", "rejected", "cancelled"}
Decisions      == ApprovalStatus \ {"pending"}

\* An event is reduced to its name, the step it is about (0: the run itself)
\* and the status its payload carries.
Event(name, step, status) == [name |-> name, step |-> step, status |-> status]

\* next is the resumable cursor, step the step the checkpoint belongs to and
\* payload whether it carries checkpoint data.
Checkpoint(next, step, payload) ==
  [next |-> next, step |-> step, payload |-> payload]

EventName ==
  {"run.created", "run.queued", "run.resumed", "run.started", "run.paused",
   "run.succeeded", "run.failed", "run.cancelled",
   "step.ready", "step.started", "step.completed", "step.paused",
   "step.failed", "step.retry_scheduled", "step.cancelled",
   "approval.requested", "approval.approved", "approval.rejected",
   "approval.cancelled", "checkpoint.saved"}

EventType == [name : EventName, step : 0 .. NumSteps,
              status : RunStatus \cup StepStatus \cup ApprovalStatus
                         \cup {"saved"}]
CheckpointType ==
  [next : 1 .. NumSteps + 1, step : 0 .. NumSteps, payload : BOOLEAN]
ApprovalType == [step : Steps, status : ApprovalStatus]

Waiting  == {"idle", "returned", "threw"}
LoopPc   == {"restore", "commitReady", "commitStepStarted", "executing",
             "commitAwait", "commitPauseStep", "commitComplete",
             "commitReadyNext", "commitStepFailure", "commitSucceeded"}
ReadyPc  == {"readPending", "commitQueued", "commitRunning", "commitPause",
             "commitDecision"}
CommitPc == (LoopPc \cup ReadyPc) \ {"restore", "executing", "readPending"}
CallOps  == {"none", "execute", "queue", "resume", "queueResume", "pause",
             "decide"}

\* loaded is the step whose payload runLoop still holds from the checkpoint
\* it read (0: none); approval and decision are arguments of decideApproval.
CallType == [op : CallOps, pc : Waiting \cup LoopPc \cup ReadyPc,
             snap : RunSnapshot, loaded : 0 .. NumSteps,
             approval : Nat, decision : ApprovalStatus]

NoRun == [createWorkflowRunSnapshot EXCEPT !.status = Absent]

\* A call that is over: nothing of it is left but how it ended.
Ended(outcome) == [op |-> "none", pc |-> outcome, snap |-> NoRun,
                   loaded |-> 0, approval |-> 0, decision |-> "pending"]

-----------------------------------------------------------------------------
(* The store *)

CheckpointSaved == Event("checkpoint.saved", 0, "saved")

\* commitTransition without a checkpoint, and with one: the events get the
\* next sequence numbers and a checkpoint adds its own event after them.
Commit(r, events) ==
  /\ run' = r
  /\ log' = log \o events
  /\ UNCHANGED checkpoint

CommitWithCheckpoint(r, events, ckpt) ==
  /\ run' = r
  /\ log' = log \o Append(events, CheckpointSaved)
  /\ checkpoint' = ckpt

\* Mutant: pending approvals are not looked up.
PendingApproval_None == 0

\* approvals.getPendingByRunId: the first pending approval, 0 when none is.
PendingApproval ==
  IF \E a \in DOMAIN approvals : approvals[a].status = "pending"
  THEN CHOOSE a \in DOMAIN approvals :
         /\ approvals[a].status = "pending"
         /\ \A b \in DOMAIN approvals :
              approvals[b].status = "pending" => a <= b
  ELSE 0

Goto(d, pc, snap) ==
  call' = [call EXCEPT ![d].pc = pc, ![d].snap = snap]

End(d, outcome) == call' = [call EXCEPT ![d] = Ended(outcome)]

-----------------------------------------------------------------------------
Init ==
  /\ run = NoRun
  /\ log = <<>>
  /\ checkpoint = Checkpoint(1, 0, FALSE)
  /\ approvals = <<>>
  /\ call = [d \in Drivers |-> Ended("idle")]
  /\ made = 0 /\ crashes = 0 /\ failures = 0 /\ lost = 0

(* createRun: the pending run, its first events and checkpoint.  Nothing is *)
(* left of the call whether its answer arrives or not.                     *)
CreateRun(d) ==
  /\ call[d].pc \in Waiting
  /\ run.status = Absent
  /\ CommitWithCheckpoint(createWorkflowRunSnapshot,
       <<Event("run.created", 0, "pending")>>
         \o (IF NumSteps > 0 THEN <<Event("step.ready", 1, "ready")>>
                             ELSE <<>>),
       Checkpoint(1, 0, FALSE))
  /\ End(d, "returned")
  /\ UNCHANGED <<approvals, made, faults>>

\* A call begins with requireRun; pc is where its checks on the row lead.
Enter(d, op, pc, a, decision) ==
  /\ op \in Ops
  /\ call[d].pc \in Waiting
  /\ run.status # Absent
  /\ made < MaxCalls
  /\ made' = made + 1
  /\ call' = [call EXCEPT ![d] =
       IF pc \in Waiting THEN Ended(pc)
       ELSE [op |-> op, pc |-> pc, snap |-> run, loaded |-> 0,
             approval |-> a, decision |-> decision]]
  /\ UNCHANGED <<store, faults>>

\* Mutant: executeRun without the early return for runs that have ended.
ExecuteEntry_Ended(status) ==
  CASE status = "paused"  -> "threw"
    [] status = "pending" -> "commitQueued"
    [] status = "queued"  -> "commitRunning"
    [] OTHER              -> "restore"

\* Where executeRun and prepareRunForExecution lead for the status read.
ExecuteEntry(status) ==
  CASE status = "paused"            -> "threw"
    [] status \in TerminalRunStatus -> "returned"
    [] status = "pending"           -> "commitQueued"
    [] status = "queued"            -> "commitRunning"
    [] OTHER                        -> "restore"

executeRun(d) ==
  Enter(d, "execute", ExecuteEntry(run.status), 0, "pending")

queueRun(d) ==
  Enter(d, "queue",
        IF run.status = "pending" THEN "commitQueued" ELSE "returned",
        0, "pending")

resumeRun(d) ==
  Enter(d, "resume",
        IF run.status = "paused" THEN "readPending" ELSE "threw",
        0, "pending")

queueResumeRun(d) == Enter(d, "queueResume", "readPending", 0, "pending")

pauseRun(d) ==
  Enter(d, "pause",
        CASE run.status \in TerminalRunStatus \cup {"paused"} -> "returned"
          [] run.status = "pending"                           -> "threw"
          [] OTHER                                            -> "commitPause",
        0, "pending")

decideApproval(d, a, decision) ==
  /\ a \in DOMAIN approvals
  /\ Enter(d, "decide",
           IF run.status = "paused" THEN "readPending" ELSE "threw",
           a, decision)

-----------------------------------------------------------------------------
(* Between the first read and the run loop.  A commit is what it stores     *)
(* (Store...) and how its call goes on when the answer arrives.            *)

\* rejecting or cancelling a request cancels the step under the cursor too.
MayCancel(r) == /\ RunMayBecome(r, "cancelled")
                /\ r.cursor \in Steps => StepMayBecome(r, r.cursor, "cancelled")

\* The second read of a call: the pending approval of the run.
ReadPending(d) ==
  LET c == call[d] IN
  /\ c.pc = "readPending"
  /\ CASE c.op = "resume" ->
            IF PendingApproval = 0 THEN Goto(d, "commitQueued", c.snap)
                                   ELSE End(d, "threw")
       [] c.op = "queueResume" ->
            IF PendingApproval # 0 THEN End(d, "threw")
            ELSE IF c.snap.status = "paused"
                 THEN Goto(d, "commitQueued", c.snap)
                 ELSE End(d, "returned")
       [] c.op = "decide" ->
            IF /\ PendingApproval = c.approval
               /\ c.decision = "approved" \/ MayCancel(c.snap)
            THEN Goto(d, "commitDecision", c.snap)
            ELSE End(d, "threw")
       [] OTHER -> FALSE
  /\ UNCHANGED <<store, made, faults>>

\* queueRun, queueResumeRun and the first commit of prepareRunForExecution.
StoreQueued(d) ==
  LET c == call[d]
      name == IF c.op \in {"resume", "queueResume"} THEN "run.resumed"
                                                    ELSE "run.queued"
  IN /\ c.pc = "commitQueued"
     /\ Commit(transitionRunStatus(c.snap, "queued"),
               <<Event(name, 0, "queued")>>)
     /\ UNCHANGED approvals

CommitQueued(d) ==
  /\ StoreQueued(d)
  /\ IF call[d].op \in {"queue", "queueResume"}
     THEN End(d, "returned")
     ELSE Goto(d, "commitRunning", transitionRunStatus(call[d].snap, "queued"))
  /\ UNCHANGED <<made, faults>>

StoreRunning(d) ==
  /\ call[d].pc = "commitRunning"
  /\ Commit(transitionRunStatus(call[d].snap, "running"),
            <<Event("run.started", 0, "running")>>)
  /\ UNCHANGED approvals

CommitRunning(d) ==
  /\ StoreRunning(d)
  /\ Goto(d, "restore", transitionRunStatus(call[d].snap, "running"))
  /\ UNCHANGED <<made, faults>>

\* pauseRun leaves the steps as they are, a running one too.
StorePause(d) ==
  LET r == transitionRunStatus(call[d].snap, "paused") IN
  /\ call[d].pc = "commitPause"
  /\ CommitWithCheckpoint(r, <<Event("run.paused", 0, "paused")>>,
       Checkpoint(r.cursor, IF r.cursor \in Steps THEN r.cursor ELSE 0, FALSE))
  /\ UNCHANGED approvals

CommitPause(d) ==
  StorePause(d) /\ End(d, "returned") /\ UNCHANGED <<made, faults>>

\* Mutant: the step is cancelled, the run is left paused.
cancelRunFromApproval_StepOnly(r) ==
  IF r.cursor \in Steps THEN transitionStepStatus(r, r.cursor, "cancelled")
                        ELSE r

cancelRunFromApproval(r) ==
  transitionRunStatus(IF r.cursor \in Steps
                      THEN transitionStepStatus(r, r.cursor, "cancelled")
                      ELSE r, "cancelled")

\* approvalDecisionToEventName
approvalDecisionToEventName(decision) ==
  CASE decision = "approved" -> "approval.approved"
    [] decision = "rejected" -> "approval.rejected"
    [] OTHER                 -> "approval.cancelled"

\* Mutant: the store overwrites a decision that was already made.
DecisionRefused_Never(a) == FALSE

\* The store refuses a decision on an approval that is no longer pending.
DecisionRefused(a) == approvals[a].status # "pending"

StoreDecision(d) ==
  LET c == call[d]
      i == c.snap.cursor
      decided == <<Event(approvalDecisionToEventName(c.decision),
                         approvals[c.approval].step, c.decision)>>
  IN /\ c.pc = "commitDecision"
     /\ ~DecisionRefused(c.approval)
     /\ approvals' = [approvals EXCEPT ![c.approval].status = c.decision]
     /\ IF c.decision = "approved"
        THEN Commit(c.snap, decided)
        ELSE Commit(cancelRunFromApproval(c.snap),
               decided
                 \o (IF i \in Steps
                     THEN <<Event("step.cancelled", i, "cancelled")>>
                     ELSE <<>>)
                 \o <<Event("run.cancelled", 0, "cancelled")>>)

CommitDecision(d) ==
  /\ call[d].pc = "commitDecision"
  /\ \/ StoreDecision(d) /\ End(d, "returned")
     \/ /\ DecisionRefused(call[d].approval)
        /\ End(d, "threw")
        /\ UNCHANGED store
  /\ UNCHANGED <<made, faults>>

-----------------------------------------------------------------------------
(* runLoop *)

\* Mutant: a rescheduled step is started without being made ready first.
LoopHead_RetryStarts(r) ==
  IF r.cursor \notin Steps THEN "commitSucceeded"
  ELSE CASE r.steps[r.cursor].status \in {"idle", "paused"} -> "commitReady"
         [] r.steps[r.cursor].status \in {"ready", "retry_scheduled"}
              -> "commitStepStarted"
         [] OTHER -> "threw"

\* The head of the loop: what the local snapshot calls for next.  A step that
\* is not waiting to start cannot become "running", and the transition throws.
LoopHead(r) ==
  IF r.cursor \notin Steps THEN "commitSucceeded"
  ELSE CASE r.steps[r.cursor].status \in {"idle", "paused", "retry_scheduled"}
              -> "commitReady"
         [] r.steps[r.cursor].status = "ready" -> "commitStepStarted"
         [] OTHER -> "threw"

\* The loop reads the latest checkpoint once, before its first step.
RestoreCheckpoint(d) ==
  LET c == call[d] IN
  /\ c.pc = "restore"
  /\ call' = [call EXCEPT ![d] =
       IF LoopHead(c.snap) = "threw" THEN Ended("threw")
       ELSE [c EXCEPT !.pc = LoopHead(c.snap),
                      !.loaded = IF checkpoint.payload THEN checkpoint.step
                                                       ELSE 0]]
  /\ UNCHANGED <<store, made, faults>>

StoreReady(d) ==
  LET r == transitionStepStatus(call[d].snap, call[d].snap.cursor, "ready") IN
  /\ call[d].pc = "commitReady"
  /\ Commit(r, <<Event("step.ready", r.cursor, "ready")>>)
  /\ UNCHANGED approvals

CommitReady(d) ==
  /\ StoreReady(d)
  /\ Goto(d, "commitStepStarted",
          transitionStepStatus(call[d].snap, call[d].snap.cursor, "ready"))
  /\ UNCHANGED <<made, faults>>

StoreStepStarted(d) ==
  LET r == transitionStepStatus(call[d].snap, call[d].snap.cursor, "running") IN
  /\ call[d].pc = "commitStepStarted"
  /\ Commit(r, <<Event("step.started", r.cursor, "running")>>)
  /\ UNCHANGED approvals

\* The loaded checkpoint is offered to the first step the loop starts only.
CommitStepStarted(d) ==
  LET c == call[d]
      r == transitionStepStatus(c.snap, c.snap.cursor, "running")
  IN /\ StoreStepStarted(d)
     /\ call' = [call EXCEPT ![d] =
          [c EXCEPT !.pc = "executing", !.snap = r,
                    !.loaded = IF @ = r.cursor THEN @ ELSE 0]]
     /\ UNCHANGED <<made, faults>>

\* stepDefinition.execute: a gate asks for an approval unless it was given
\* the payload of its checkpoint; any step may throw.
StepReturns(d) ==
  LET c == call[d]
      asks == c.snap.cursor \in Gates /\ c.loaded = 0
  IN /\ c.pc = "executing"
     /\ \E pc \in (IF asks THEN {"commitAwait"}
                           ELSE {"commitComplete", "commitPauseStep"})
                  \cup {"commitStepFailure"} :
          call' = [call EXCEPT ![d].pc = pc, ![d].loaded = 0]
     /\ UNCHANGED <<store, made, faults>>

\* Mutant: only the step is paused, the run goes on as "running".
Paused_StepOnly(r) == transitionStepStatus(r, r.cursor, "paused")

Paused(r) ==
  transitionRunStatus(transitionStepStatus(r, r.cursor, "paused"), "paused")

\* Mutant: the pause of the step is not logged.
PauseEvents_NoStep(r) == <<Event("run.paused", 0, "paused")>>

PauseEvents(r) == <<Event("step.paused", r.cursor, "paused"),
                    Event("run.paused", 0, "paused")>>

\* Mutant: the checkpoint of a paused step is saved without its data.
PauseCheckpoint_NoData(r) == Checkpoint(r.cursor, r.cursor, FALSE)

\* The checkpoint of a paused step, with the data the step returned.
PauseCheckpoint(r) == Checkpoint(r.cursor, r.cursor, TRUE)

StoreAwait(d) ==
  LET r == call[d].snap IN
  /\ call[d].pc = "commitAwait"
  /\ CommitWithCheckpoint(Paused(r),
       Append(PauseEvents(r), Event("approval.requested", r.cursor, "pending")),
       PauseCheckpoint(r))
  /\ approvals' = Append(approvals, [step |-> r.cursor, status |-> "pending"])

awaitApprovalFromStep(d) ==
  StoreAwait(d) /\ End(d, "returned") /\ UNCHANGED <<made, faults>>

StorePauseStep(d) ==
  LET r == call[d].snap IN
  /\ call[d].pc = "commitPauseStep"
  /\ CommitWithCheckpoint(Paused(r), PauseEvents(r), PauseCheckpoint(r))
  /\ UNCHANGED approvals

pauseFromStep(d) ==
  StorePauseStep(d) /\ End(d, "returned") /\ UNCHANGED <<made, faults>>

\* Mutant: the cursor moves on from a step that is not marked completed.
Completed_CursorOnly(r) == advanceRunCursor(r, r.cursor + 1)

\* completeStep commits twice: the completion with the advanced cursor, then
\* the next step's readiness.  The loop's own snapshot is replaced only when
\* both are done, so until then it is the one from before the completion.
Completed(r) ==
  advanceRunCursor(transitionStepStatus(r, r.cursor, "completed"), r.cursor + 1)

\* Mutant: the checkpoint still points at the completed step.
CompletionCheckpoint_Behind(r) == Checkpoint(r.cursor, r.cursor, FALSE)

CompletionCheckpoint(r) == Checkpoint(r.cursor + 1, r.cursor, FALSE)

StoreComplete(d) ==
  LET r == call[d].snap IN
  /\ call[d].pc = "commitComplete"
  /\ CommitWithCheckpoint(Completed(r),
       <<Event("step.completed", r.cursor, "completed")>>,
       CompletionCheckpoint(r))
  /\ UNCHANGED approvals

\* Mutant: the run succeeds from the snapshot before its last completion.
CommitComplete_StaleSnapshot(d) ==
  /\ StoreComplete(d)
  /\ Goto(d, IF Completed(call[d].snap).cursor \in Steps
             THEN "commitReadyNext" ELSE "commitSucceeded", call[d].snap)
  /\ UNCHANGED <<made, faults>>

CommitComplete(d) ==
  LET r == Completed(call[d].snap) IN
  /\ StoreComplete(d)
  /\ IF r.cursor \in Steps THEN Goto(d, "commitReadyNext", call[d].snap)
                           ELSE Goto(d, "commitSucceeded", r)
  /\ UNCHANGED <<made, faults>>

\* The snapshot with the next step ready, from the one before the completion.
NextReady(r) == transitionStepStatus(Completed(r), r.cursor + 1, "ready")

StoreReadyNext(d) ==
  LET r == NextReady(call[d].snap) IN
  /\ call[d].pc = "commitReadyNext"
  /\ Commit(r, <<Event("step.ready", r.cursor, "ready")>>)
  /\ UNCHANGED approvals

CommitReadyNext(d) ==
  /\ StoreReadyNext(d)
  /\ Goto(d, "commitStepStarted", NextReady(call[d].snap))
  /\ UNCHANGED <<made, faults>>

\* Mutant: one attempt too many.
Retryable_OneMore(r) == r.steps[r.cursor].attempts <= MaxAttempts

Retryable(r) == r.steps[r.cursor].attempts < MaxAttempts

\* handleStepFailure works on the snapshot from before the step returned.
Rescheduled(r) == transitionStepStatus(r, r.cursor, "retry_scheduled")

Failed(r) ==
  transitionRunStatus(transitionStepStatus(r, r.cursor, "failed"), "failed")

StoreStepFailure(d) ==
  LET r == call[d].snap
      i == r.cursor
  IN /\ call[d].pc = "commitStepFailure"
     /\ IF Retryable(r)
        THEN CommitWithCheckpoint(Rescheduled(r),
               <<Event("step.failed", i, "retry_scheduled"),
                 Event("step.retry_scheduled", i, "retry_scheduled")>>,
               Checkpoint(i, i, FALSE))
        ELSE CommitWithCheckpoint(Failed(r),
               <<Event("step.failed", i, "failed"),
                 Event("run.failed", 0, "failed")>>,
               Checkpoint(i, i, FALSE))
     /\ UNCHANGED approvals

handleStepFailure(d) ==
  LET r == call[d].snap IN
  /\ StoreStepFailure(d)
  /\ IF Retryable(r) THEN Goto(d, LoopHead(Rescheduled(r)), Rescheduled(r))
                     ELSE End(d, "returned")
  /\ UNCHANGED <<made, faults>>

StoreSucceeded(d) ==
  LET r == transitionRunStatus(call[d].snap, "succeeded") IN
  /\ call[d].pc = "commitSucceeded"
  /\ CommitWithCheckpoint(r, <<Event("run.succeeded", 0, "succeeded")>>,
                          Checkpoint(r.cursor, NumSteps, FALSE))
  /\ UNCHANGED approvals

succeedRun(d) ==
  StoreSucceeded(d) /\ End(d, "returned") /\ UNCHANGED <<made, faults>>

-----------------------------------------------------------------------------
(* Faults *)

\* A commit that raises: inside the loop's try block the error is taken for a
\* failure of the step, anywhere else it ends the call.
Raises(d) ==
  /\ call[d].pc \in CommitPc
  /\ failures < MaxFailures
  /\ failures' = failures + 1
  /\ IF call[d].pc \in {"commitAwait", "commitPauseStep", "commitComplete",
                        "commitReadyNext"}
     THEN Goto(d, "commitStepFailure", call[d].snap)
     ELSE End(d, "threw")
  /\ UNCHANGED <<made, crashes>>

\* The store rejects the commit and rolls it back.
CommitRejected(d) == Raises(d) /\ UNCHANGED <<store, lost>>

\* What the commit that call d is at puts into the store.
Stores(d) ==
  \/ StoreQueued(d) \/ StoreRunning(d) \/ StorePause(d) \/ StoreDecision(d)
  \/ StoreReady(d) \/ StoreStepStarted(d) \/ StoreAwait(d) \/ StorePauseStep(d)
  \/ StoreComplete(d) \/ StoreReadyNext(d) \/ StoreStepFailure(d)
  \/ StoreSucceeded(d)

\* The commit is stored, but the connection is lost before the answer to the
\* COMMIT arrives: withPostgresTransaction throws all the same.
AnswerLost(d) == Raises(d) /\ Stores(d) /\ lost' = lost + 1

\* The process of a driver dies: the local snapshot is gone, the store stays.
Crash(d) ==
  /\ call[d].pc \notin Waiting
  /\ crashes < MaxCrashes
  /\ crashes' = crashes + 1
  /\ End(d, "idle")
  /\ UNCHANGED <<store, made, failures, lost>>

-----------------------------------------------------------------------------
\* The next step of a call that is under way.
Advance(d) ==
  \/ ReadPending(d) \/ CommitQueued(d) \/ CommitRunning(d) \/ CommitPause(d)
  \/ CommitDecision(d) \/ RestoreCheckpoint(d) \/ CommitReady(d)
  \/ CommitStepStarted(d) \/ StepReturns(d) \/ awaitApprovalFromStep(d)
  \/ pauseFromStep(d) \/ CommitComplete(d) \/ CommitReadyNext(d)
  \/ handleStepFailure(d) \/ succeedRun(d)

Invoke(d) ==
  \/ CreateRun(d) \/ executeRun(d) \/ queueRun(d) \/ resumeRun(d)
  \/ queueResumeRun(d) \/ pauseRun(d)
  \/ \E a \in DOMAIN approvals, decision \in Decisions :
       decideApproval(d, a, decision)

Next == \E d \in Drivers :
          \/ Invoke(d) \/ Advance(d)
          \/ CommitRejected(d) \/ AnswerLost(d) \/ Crash(d)

Spec == Init /\ [][Next]_vars

\* A call in flight goes on: its promises are settled by the event loop.
Fairness == \A d \in Drivers : WF_vars(Advance(d))
FairSpec == Spec /\ Fairness

-----------------------------------------------------------------------------
(* Properties *)

\* Every variable has its type; a call under way holds a row that was written.
TypeOK ==
  /\ run \in RunSnapshot
  /\ log \in Seq(EventType)
  /\ checkpoint \in CheckpointType
  /\ approvals \in Seq(ApprovalType)
  /\ call \in [Drivers -> CallType]
  /\ made \in Nat /\ crashes \in Nat /\ failures \in Nat /\ lost \in Nat

\* What every snapshot of a run looks like: the cursor is the boundary between
\* completed and untouched steps, and how a run ended shows in its steps.
BehindCursor(r) == \A i \in Steps : i < r.cursor => r.steps[i].status = "completed"

AheadOfCursor(r) ==
  \A i \in Steps : i > r.cursor => r.steps[i] = [status |-> "idle", attempts |-> 0]

AtCursor(r) ==
  r.cursor \in Steps =>
    /\ r.steps[r.cursor].status # "completed"
    /\ r.steps[r.cursor].status = "failed" <=> r.status = "failed"
    /\ r.steps[r.cursor].status = "cancelled" <=> r.status = "cancelled"

EndedConsistently(r) ==
  /\ r.status = "succeeded" => r.cursor = NumSteps + 1
  /\ r.status = "failed" => r.cursor \in Steps

WellFormed(r) ==
  BehindCursor(r) /\ AheadOfCursor(r) /\ AtCursor(r) /\ EndedConsistently(r)

\* However many drivers overwrite each other's snapshots, crash or have
\* commits raise errors, the persisted run is always a well-formed snapshot:
\* completed steps up to the cursor, untouched ones after it, "succeeded"
\* only past the last step, "failed" and "cancelled" shown by the step the
\* run stopped at (createRun, runLoop, completeStep, handleStepFailure,
\* cancelRunFromApproval).
RunWellFormed == WellFormed(run)

\* The assertion in transitionRunStatus and transitionStepStatus never fires
\* at a commit: what a driver is about to write is a transition its own
\* snapshot allows.  (It does fire at the head of the loop, where a step that
\* a crash left "running" is met: LoopHead ends such a call as "threw".)
TransitionAllowed(c) ==
  LET i == c.snap.cursor IN
  CASE c.pc = "commitQueued"      -> RunMayBecome(c.snap, "queued")
    [] c.pc = "commitRunning"     -> RunMayBecome(c.snap, "running")
    [] c.pc = "commitPause"       -> RunMayBecome(c.snap, "paused")
    [] c.pc = "commitReady"       -> StepMayBecome(c.snap, i, "ready")
    [] c.pc = "commitStepStarted" -> StepMayBecome(c.snap, i, "running")
    [] c.pc \in {"commitAwait", "commitPauseStep"} ->
         /\ StepMayBecome(c.snap, i, "paused")
         /\ RunMayBecome(c.snap, "paused")
    [] c.pc = "commitComplete"    -> StepMayBecome(c.snap, i, "completed")
    [] c.pc = "commitReadyNext"   ->
         /\ StepMayBecome(c.snap, i, "completed")
         /\ StepMayBecome(c.snap, i + 1, "ready")
    [] c.pc = "commitStepFailure" ->
         /\ StepMayBecome(c.snap, i, "failed")
         /\ StepMayBecome(c.snap, i, "retry_scheduled")
         /\ RunMayBecome(c.snap, "failed")
    [] c.pc = "commitSucceeded"   -> RunMayBecome(c.snap, "succeeded")
    [] OTHER -> TRUE

TransitionsAllowed == \A d \in Drivers : TransitionAllowed(call[d])

\* An approval is decided at most once, and the log says how: for every
\* approval that is no longer pending there is exactly one decision event of
\* its step, and never more decision events than decisions.
DecisionEvents == {"approval.approved", "approval.rejected",
                   "approval.cancelled"}

DecidedOnce ==
  \A i \in Steps, decision \in Decisions :
    Cardinality({n \in DOMAIN log : log[n] =
                   Event(approvalDecisionToEventName(decision), i, decision)})
      = Cardinality({a \in DOMAIN approvals :
                       approvals[a] = [step |-> i, status |-> decision]})

-----------------------------------------------------------------------------
(* Properties of a run that is driven by one call at a time *)

\* The last status a payload reports for a step (0: the run) in the log.
StatusEvents(i) ==
  {n \in DOMAIN log : /\ log[n].step = i
                      /\ log[n].status \in IF i = 0
                                            THEN RunStatus ELSE StepStatus
                      /\ log[n].name \notin DecisionEvents
                                             \cup {"approval.requested"}}

LastStatus(i, default) ==
  IF StatusEvents(i) = {} THEN default
  ELSE log[CHOOSE n \in StatusEvents(i) : \A m \in StatusEvents(i) : m <= n].status

\* The event log is the source of truth (ADR-0004): replaying it gives the
\* status of the run and of every step that the snapshot row holds.  When the
\* answer of a stored commit is lost, the failure that is written over it
\* (handleStepFailure) goes back to the snapshot from before, and the events
\* of the commit stay in the log.
LogTellsSnapshot ==
  lost = 0 =>
    /\ LastStatus(0, Absent) = run.status
    /\ run.status # Absent =>
         \A i \in Steps : LastStatus(i, "idle") = run.steps[i].status

\* Every attempt a step is charged with was started in the log, and a step is
\* rescheduled fewer times than its policy allows attempts, however often it
\* was paused, resumed or approved in between.
EventsOf(name, i) == {n \in DOMAIN log : log[n].name = name /\ log[n].step = i}

AttemptsAccounted ==
  \A i \in Steps :
    /\ run.steps[i].attempts = Cardinality(EventsOf("step.started", i))
    /\ Cardinality(EventsOf("step.retry_scheduled", i)) < MaxAttempts

\* The latest checkpoint points where the run row points, so that resuming
\* from the one or from the other restarts the same step.
CheckpointAtCursor == checkpoint.next = run.cursor

\* While an approval is pending the run stays paused at the step that asked,
\* and it is the only pending one: pending approvals block resume.  That is
\* so until the answer of a stored commit is lost: a stored request whose
\* answer is lost counts as a failure of the step (awaitApprovalFromStep
\* inside the try block of runLoop), and the run goes on while it is pending.
BlocksRun(a) ==
  /\ run.status = "paused"
  /\ run.cursor = approvals[a].step
  /\ run.steps[run.cursor].status = "paused"
  /\ \A b \in DOMAIN approvals : approvals[b].status = "pending" => a = b

PendingBlocksRun ==
  lost = 0 => \A a \in DOMAIN approvals :
                approvals[a].status = "pending" => BlocksRun(a)

\* A rejected or cancelled approval drives the run into the terminal
\* cancelled state, for good.
RejectionCancelsRun ==
  \A a \in DOMAIN approvals :
    approvals[a].status \in {"rejected", "cancelled"} => run.status = "cancelled"

\* A gate is asked again only after an attempt of its step failed: an approval
\* given survives the resume, the crash of the driver and the next resume.
AskedAgainOnlyAfterFailure ==
  \A i \in Steps :
    Cardinality({a \in DOMAIN approvals : approvals[a].step = i})
      <= 1 + Cardinality(EventsOf("step.failed", i))

\* A step that was completed is never started again, as long as no commit
\* raised an error: completeStep commits twice, and when the second commit
\* raises the failure is written over the completion.
CompletedStaysCompleted ==
  [][failures = 0 =>
       \A i \in Steps : run.steps[i].status = "completed"
                           => run'.steps[i] = run.steps[i]]_run

\* A call that entered the run loop brings the run to a pause or to its end,
\* unless it dies or one of its commits raises an error.
Executing(d) == call[d].pc \in LoopPc

LoopSettlesRun ==
  \A d \in Drivers :
    Executing(d) ~> \/ call[d].pc \in {"threw", "idle"}
                    \/ /\ call[d].pc = "returned"
                       /\ run.status \in TerminalRunStatus \cup {"paused"}

\* Every write of the row is one transition of the lifecycle the domain
\* package promises (RunStateMachine): with one call at a time and no commit
\* that raises the engine implements it, whatever is paused, resumed or crashes.
Lifecycle == INSTANCE RunStateMachine

ImplementsLifecycle == Lifecycle!Spec
=============================================================================
