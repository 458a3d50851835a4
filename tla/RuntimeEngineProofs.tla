------------------------ MODULE RuntimeEngineProofs ------------------------
(***************************************************************************)
(* Proofs about RuntimeEngine for every number of drivers, steps and       *)
(* attempts, for any crashes and for commits that raise an error, rejected *)
(* or stored with their answer lost.                                       *)
(*                                                                         *)
(* The first part is about the row and the calls.  The second one relates  *)
(* the log, the approvals and the checkpoint to the row: that an approval  *)
(* is decided once holds for any number of drivers, the rest is about a    *)
(* run driven by one call at a time (OneAtATime).  The last part says what *)
(* one step of a call may do, for the modules that compose the engine.     *)
(***************************************************************************)
EXTENDS RuntimeEngine, FiniteSetTheorems, SequenceTheorems, TLAPS

LiveStepStatus == {"idle", "ready", "running", "paused", "retry_scheduled"}

-----------------------------------------------------------------------------
(* Snapshots *)

\* The snapshot createRun writes is well formed, and so is its absence.
LEMMA CreatedWellFormed ==
  /\ createWorkflowRunSnapshot \in RunSnapshot
  /\ WellFormed(createWorkflowRunSnapshot)
  /\ NoRun \in RunSnapshot
  /\ WellFormed(NoRun)
<1> DEFINE r == createWorkflowRunSnapshot
<1>1. /\ r.status = "pending" /\ r.cursor = 1
      /\ r.steps = [i \in Steps |-> createWorkflowStepSnapshot(i)]
  BY DEF createWorkflowRunSnapshot
<1>2. \A i \in Steps : r.steps[i] = [status |-> IF i = 1 THEN "ready" ELSE "idle",
                                     attempts |-> 0]
  BY <1>1 DEF createWorkflowStepSnapshot
<1>3. r.steps \in [Steps -> [status : StepStatus, attempts : Nat]]
  BY <1>1 DEF createWorkflowStepSnapshot, StepStatus
<1>4. r \in RunSnapshot
  BY <1>1, <1>3, DomainAssumption
     DEF createWorkflowRunSnapshot, RunSnapshot, RunStatus
<1>5. WellFormed(r)
  BY <1>1, <1>2, DomainAssumption
     DEF Steps, WellFormed, BehindCursor, AheadOfCursor, AtCursor,
         EndedConsistently
<1>6. /\ NoRun.status = Absent /\ NoRun.cursor = r.cursor
      /\ NoRun.steps = r.steps
      /\ NoRun \in RunSnapshot
  BY <1>4 DEF NoRun, RunSnapshot
<1>7. WellFormed(NoRun)
  BY <1>1, <1>2, <1>6, DomainAssumption
     DEF Steps, Absent, WellFormed, BehindCursor, AheadOfCursor, AtCursor,
         EndedConsistently
<1> QED BY <1>4, <1>5, <1>6, <1>7

\* Moving the run between statuses that do not end it keeps it well formed.
LEMMA RunTransitionWellFormed ==
  ASSUME NEW r \in RunSnapshot, WellFormed(r),
         r.status \notin {"failed", "cancelled"},
         NEW status \in RunStatus \ TerminalRunStatus
  PROVE  /\ transitionRunStatus(r, status) \in RunSnapshot
         /\ WellFormed(transitionRunStatus(r, status))
BY DomainAssumption
   DEF transitionRunStatus, RunSnapshot, RunStatus, TerminalRunStatus, Absent,
       WellFormed, BehindCursor, AheadOfCursor, AtCursor, EndedConsistently

\* What replacing the step under the cursor leaves alone.
LEMMA StepReplaced ==
  ASSUME NEW r \in RunSnapshot, r.cursor \in Steps, NEW status \in StepStatus
  PROVE  LET t == transitionStepStatus(r, r.cursor, status) IN
         /\ t \in RunSnapshot
         /\ t.status = r.status
         /\ t.cursor = r.cursor
         /\ t.steps[r.cursor].status = status
         /\ \A i \in Steps : i # r.cursor => t.steps[i] = r.steps[i]
<1> DEFINE t == transitionStepStatus(r, r.cursor, status)
           next == [status |-> status,
                    attempts |-> IF status = "running"
                                 THEN r.steps[r.cursor].attempts + 1
                                 ELSE r.steps[r.cursor].attempts]
<1>1. /\ r.steps \in [Steps -> [status : StepStatus, attempts : Nat]]
      /\ r.cursor \in 1 .. NumSteps + 1
      /\ r.status \in RunStatus \cup {Absent}
  BY DEF RunSnapshot
<1>2. next \in [status : StepStatus, attempts : Nat]
  BY <1>1
<1>3. t = [r EXCEPT !.steps = [r.steps EXCEPT ![r.cursor] = next]]
  BY DEF transitionStepStatus
<1>4. /\ t.status = r.status /\ t.cursor = r.cursor
      /\ t.steps = [r.steps EXCEPT ![r.cursor] = next]
      /\ t \in RunSnapshot
  BY <1>1, <1>2, <1>3 DEF RunSnapshot
<1>5. /\ t.steps[r.cursor].status = status
      /\ \A i \in Steps : i # r.cursor => t.steps[i] = r.steps[i]
  BY <1>1, <1>4
<1> QED BY <1>4, <1>5

\* Moving the step under the cursor between live statuses does, too.
LEMMA StepTransitionWellFormed ==
  ASSUME NEW r \in RunSnapshot, WellFormed(r), r.cursor \in Steps,
         r.status \notin {"failed", "cancelled"},
         NEW status \in LiveStepStatus
  PROVE  WellFormed(transitionStepStatus(r, r.cursor, status))
<1> DEFINE t == transitionStepStatus(r, r.cursor, status)
<1>1. /\ t.status = r.status
      /\ t.cursor = r.cursor
      /\ t.steps[r.cursor].status = status
      /\ \A i \in Steps : i # r.cursor => t.steps[i] = r.steps[i]
  BY StepReplaced DEF LiveStepStatus, StepStatus
<1>2. r.cursor \in 1 .. NumSteps + 1
  BY DEF RunSnapshot
<1> HIDE DEF t
<1>3. WellFormed(t)
  BY <1>1, <1>2, DomainAssumption
     DEF Steps, LiveStepStatus, WellFormed, BehindCursor, AheadOfCursor,
         AtCursor, EndedConsistently
<1> QED BY <1>3 DEF t

\* A completed step falls behind the cursor.
LEMMA CompletedWellFormed ==
  ASSUME NEW r \in RunSnapshot, WellFormed(r), r.cursor \in Steps,
         r.status = "running"
  PROVE  LET t == Completed(r) IN
         /\ t \in RunSnapshot
         /\ WellFormed(t)
         /\ t.status = r.status
         /\ t.cursor = r.cursor + 1
         /\ t.cursor \in Steps => t.steps[t.cursor].status = "idle"
<1> DEFINE u == transitionStepStatus(r, r.cursor, "completed")
           t == Completed(r)
<1>1. /\ u \in RunSnapshot
      /\ u.status = r.status
      /\ u.cursor = r.cursor
      /\ u.steps[r.cursor].status = "completed"
      /\ \A i \in Steps : i # r.cursor => u.steps[i] = r.steps[i]
  BY StepReplaced DEF StepStatus
<1>2. /\ r.cursor \in 1 .. NumSteps + 1
      /\ r.cursor + 1 \in 1 .. NumSteps + 1
  BY DomainAssumption DEF RunSnapshot, Steps
<1>3. t = [u EXCEPT !.cursor = r.cursor + 1]
  BY <1>1 DEF Completed, advanceRunCursor
<1> HIDE DEF u, t
<1>4. /\ t \in RunSnapshot
      /\ t.status = r.status
      /\ t.cursor = r.cursor + 1
      /\ t.steps = u.steps
  BY <1>1, <1>2, <1>3 DEF RunSnapshot
<1>5. WellFormed(t)
  BY <1>1, <1>2, <1>4, DomainAssumption
     DEF Steps, WellFormed, BehindCursor, AheadOfCursor, AtCursor,
         EndedConsistently
<1>6. t.cursor \in Steps => t.steps[t.cursor].status = "idle"
  BY <1>1, <1>2, <1>4, DomainAssumption DEF Steps, WellFormed, AheadOfCursor
<1> QED BY <1>4, <1>5, <1>6 DEF t

\* A run fails, and is cancelled, together with the step under its cursor.
LEMMA EndAtStepWellFormed ==
  ASSUME NEW r \in RunSnapshot, WellFormed(r), r.cursor \in Steps,
         r.status # "succeeded",
         NEW status \in {"failed", "cancelled"}
  PROVE  LET t == transitionRunStatus(
                    transitionStepStatus(r, r.cursor, status), status) IN
         t \in RunSnapshot /\ WellFormed(t)
<1> DEFINE u == transitionStepStatus(r, r.cursor, status)
           t == transitionRunStatus(u, status)
<1>1. /\ u \in RunSnapshot
      /\ u.cursor = r.cursor
      /\ u.steps[r.cursor].status = status
      /\ \A i \in Steps : i # r.cursor => u.steps[i] = r.steps[i]
  BY StepReplaced DEF StepStatus
<1>2. r.cursor \in 1 .. NumSteps + 1
  BY DEF RunSnapshot
<1>3. t = [u EXCEPT !.status = status]
  BY DEF transitionRunStatus
<1> HIDE DEF u
<1>4. /\ t \in RunSnapshot
      /\ t.status = status /\ t.cursor = r.cursor /\ t.steps = u.steps
  BY <1>1, <1>3 DEF RunSnapshot, RunStatus
<1> HIDE DEF t
<1>5. WellFormed(t)
  BY <1>1, <1>2, <1>4, DomainAssumption
     DEF Steps, WellFormed, BehindCursor, AheadOfCursor, AtCursor,
         EndedConsistently
<1> QED BY <1>4, <1>5 DEF t, u

\* A run past its last step succeeds, or is cancelled, as a whole.
LEMMA EndPastStepsWellFormed ==
  ASSUME NEW r \in RunSnapshot, WellFormed(r), r.cursor \notin Steps,
         NEW status \in {"succeeded", "cancelled"}
  PROVE  /\ transitionRunStatus(r, status) \in RunSnapshot
         /\ WellFormed(transitionRunStatus(r, status))
<1> DEFINE t == transitionRunStatus(r, status)
<1>1. t = [r EXCEPT !.status = status]
  BY DEF transitionRunStatus
<1>2. /\ t \in RunSnapshot
      /\ t.status = status /\ t.cursor = r.cursor /\ t.steps = r.steps
  BY <1>1 DEF RunSnapshot, RunStatus
<1>3. r.cursor = NumSteps + 1
  BY DomainAssumption DEF RunSnapshot, Steps
<1> HIDE DEF t
<1>4. WellFormed(t)
  BY <1>2, <1>3, DomainAssumption
     DEF Steps, WellFormed, BehindCursor, AheadOfCursor, AtCursor,
         EndedConsistently
<1> QED BY <1>2, <1>4 DEF t

-----------------------------------------------------------------------------
(* The inductive invariant *)

\* What a call knows about its own snapshot at each of its awaits, with n
\* approvals on record: the facts that its checks established when it read,
\* and that no other driver can take away because the snapshot is local.
InStepPc == {"executing", "commitAwait", "commitPauseStep", "commitComplete",
             "commitReadyNext", "commitStepFailure"}
AtStepPc == InStepPc \cup {"commitReady", "commitStepStarted"}

CursorStatus(r) == r.steps[r.cursor].status

LoopKnows(c) ==
  /\ c.pc \in LoopPc => c.snap.status = "running"
  /\ c.pc \in AtStepPc => c.snap.cursor \in Steps
  /\ c.pc \in InStepPc => CursorStatus(c.snap) = "running"
  /\ c.pc = "commitReady" =>
       CursorStatus(c.snap) \in {"idle", "paused", "retry_scheduled"}
  /\ c.pc = "commitStepStarted" => CursorStatus(c.snap) = "ready"
  /\ c.pc = "commitReadyNext" => c.snap.cursor + 1 \in Steps
  /\ c.pc = "commitSucceeded" => c.snap.cursor \notin Steps

EntryKnows(c, n) ==
  /\ c.pc = "commitQueued" => c.snap.status \in {"pending", "paused"}
  /\ c.pc = "commitRunning" => c.snap.status = "queued"
  /\ c.pc = "commitPause" => c.snap.status \in {"queued", "running"}
  /\ c.pc = "readPending" /\ c.op = "resume" => c.snap.status = "paused"
  /\ (c.pc = "readPending" /\ c.op = "decide") \/ c.pc = "commitDecision" =>
       /\ c.snap.status = "paused"
       /\ c.approval \in 1 .. n
       /\ c.decision \in Decisions
  /\ c.pc = "commitDecision" =>
       c.decision = "approved" \/ MayCancel(c.snap)

CallInv(c, n) == WellFormed(c.snap) /\ LoopKnows(c) /\ EntryKnows(c, n)

IInv == /\ TypeOK
        /\ RunWellFormed
        /\ \A d \in Drivers : CallInv(call[d], Len(approvals))

\* The counters keep their type.
Counted ==
  made' \in Nat /\ crashes' \in Nat /\ failures' \in Nat /\ lost' \in Nat

\* A call that is over knows nothing and needs nothing.
LEMMA EndedCallInv ==
  ASSUME NEW outcome \in Waiting, NEW n
  PROVE  Ended(outcome) \in CallType /\ CallInv(Ended(outcome), n)
BY CreatedWellFormed, DomainAssumption
   DEF Ended, CallType, CallInv, LoopKnows, EntryKnows, Waiting, LoopPc,
       AtStepPc, InStepPc, ReadyPc, CallOps, ApprovalStatus

\* A step of one driver preserves the invariant when what it writes is typed
\* and well formed and when it knows, afterwards, what its new place requires.
LEMMA StepPreserves ==
  ASSUME IInv, NEW d \in Drivers, NEW c \in CallType,
         call' = [call EXCEPT ![d] = c],
         run' \in RunSnapshot, WellFormed(run'),
         log' \in Seq(EventType), checkpoint' \in CheckpointType,
         approvals' \in Seq(ApprovalType), Len(approvals) <= Len(approvals'),
         Counted,
         CallInv(c, Len(approvals'))
  PROVE  IInv'
<1>1. TypeOK'
  BY DEF IInv, TypeOK, Counted
<1>2. ASSUME NEW e \in Drivers
      PROVE  CallInv(call'[e], Len(approvals'))
  <2>1. CASE e = d
    BY <2>1 DEF IInv, TypeOK
  <2>2. CASE e # d
    <3>1. call'[e] = call[e] /\ CallInv(call[e], Len(approvals))
      BY <2>2 DEF IInv, TypeOK
    <3>2. Len(approvals) \in Nat /\ Len(approvals') \in Nat
      BY DEF IInv, TypeOK
    <3>3. \A k \in 1 .. Len(approvals) : k \in 1 .. Len(approvals')
      BY <3>2
    <3> QED BY <3>1, <3>3 DEF CallInv, EntryKnows
  <2> QED BY <2>1, <2>2
<1> QED BY <1>1, <1>2 DEF IInv, RunWellFormed

\* The same for a step that ends its call.
LEMMA EndPreserves ==
  ASSUME IInv, NEW d \in Drivers, NEW outcome \in Waiting,
         End(d, outcome),
         run' \in RunSnapshot, WellFormed(run'),
         log' \in Seq(EventType), checkpoint' \in CheckpointType,
         approvals' \in Seq(ApprovalType), Len(approvals) <= Len(approvals'),
         Counted
  PROVE  IInv'
<1> DEFINE c == Ended(outcome)
<1>1. c \in CallType /\ CallInv(c, Len(approvals'))
  BY EndedCallInv
<1>2. call' = [call EXCEPT ![d] = c]
  BY DEF End
<1> HIDE DEF c
<1> QED BY <1>1, <1>2, StepPreserves

\* What a step that leaves the store alone keeps.
StoreKept == /\ run' = run /\ log' = log /\ checkpoint' = checkpoint
             /\ approvals' = approvals

LEMMA KeptStoreTyped ==
  ASSUME IInv, StoreKept
  PROVE  /\ run' \in RunSnapshot /\ WellFormed(run')
         /\ log' \in Seq(EventType) /\ checkpoint' \in CheckpointType
         /\ approvals' \in Seq(ApprovalType)
         /\ Len(approvals') = Len(approvals)
         /\ Len(approvals) <= Len(approvals')
<1>1. Len(approvals) \in Nat
  BY DEF IInv, TypeOK
<1> QED BY <1>1 DEF StoreKept, IInv, TypeOK, RunWellFormed

-----------------------------------------------------------------------------
(* Every action preserves the invariant *)

\* An event names a step or the run (0) and carries a status.
LEMMA EventTyped ==
  ASSUME NEW name \in EventName, NEW i \in Steps \cup {0},
         NEW status \in RunStatus \cup StepStatus \cup ApprovalStatus
                          \cup {"saved"}
  PROVE  Event(name, i, status) \in EventType
BY DomainAssumption DEF Event, EventType, Steps

\* Both commits append typed events to the log.
LEMMA LogGrows ==
  ASSUME log \in Seq(EventType), NEW events \in Seq(EventType)
  PROVE  /\ log \o events \in Seq(EventType)
         /\ log \o Append(events, CheckpointSaved) \in Seq(EventType)
<1>1. CheckpointSaved \in EventType
  BY EventTyped DEF CheckpointSaved, EventName
<1>2. Append(events, CheckpointSaved) \in Seq(EventType)
  BY <1>1
<1> QED BY <1>2, ConcatProperties

\* What the types and the invariant say of a call that is under way.
LEMMA CallFacts ==
  ASSUME IInv, NEW d \in Drivers
  PROVE  /\ call[d] \in CallType
         /\ call[d].snap \in RunSnapshot
         /\ CallInv(call[d], Len(approvals))
BY DEF IInv, TypeOK, CallType

\* createRun writes the first snapshot.
LEMMA CreateRunPreserves ==
  ASSUME IInv, NEW d \in Drivers, CreateRun(d)
  PROVE  IInv'
<1>1. /\ Event("run.created", 0, "pending") \in EventType
      /\ NumSteps > 0 => Event("step.ready", 1, "ready") \in EventType
  BY EventTyped, DomainAssumption DEF EventName, RunStatus, StepStatus, Steps
<1> DEFINE events == <<Event("run.created", 0, "pending")>>
                       \o (IF NumSteps > 0 THEN <<Event("step.ready", 1, "ready")>>
                                           ELSE <<>>)
<1>2. events \in Seq(EventType)
  BY <1>1, ConcatProperties
<1>3. log' \in Seq(EventType)
  BY <1>2, LogGrows DEF CreateRun, CommitWithCheckpoint, IInv, TypeOK
<1>4. /\ run' \in RunSnapshot /\ WellFormed(run')
      /\ checkpoint' \in CheckpointType
      /\ approvals' = approvals
      /\ Counted
      /\ End(d, "returned")
  BY CreatedWellFormed, DomainAssumption
     DEF CreateRun, CommitWithCheckpoint, Checkpoint, CheckpointType, Counted,
         faults, IInv, TypeOK
<1>5. Len(approvals) \in Nat
  BY DEF IInv, TypeOK
<1> QED BY <1>3, <1>4, <1>5, EndPreserves DEF IInv, TypeOK, Waiting

\* An operation that only reads the row and moves on to pc.
LEMMA EnterPreserves ==
  ASSUME IInv, NEW d \in Drivers, NEW op \in CallOps, NEW pc,
         NEW a \in Nat, NEW decision \in ApprovalStatus,
         Enter(d, op, pc, a, decision),
         pc \in Waiting \/ pc \in ReadyPc \/ pc = "restore",
         pc = "restore" => run.status = "running",
         pc = "commitQueued" => run.status \in {"pending", "paused"},
         pc = "commitRunning" => run.status = "queued",
         pc = "commitPause" => run.status \in {"queued", "running"},
         pc = "readPending" /\ op = "resume" => run.status = "paused",
         pc = "readPending" /\ op = "decide" =>
           run.status = "paused" /\ a \in 1 .. Len(approvals)
                                 /\ decision \in Decisions,
         pc # "commitDecision"
  PROVE  IInv'
<1> DEFINE c == [op |-> op, pc |-> pc, snap |-> run, loaded |-> 0,
                 approval |-> a, decision |-> decision]
<1>1. /\ run' = run /\ log' = log /\ checkpoint' = checkpoint
      /\ approvals' = approvals /\ Counted
      /\ call' = [call EXCEPT ![d] = IF pc \in Waiting THEN Ended(pc) ELSE c]
  BY DEF Enter, Counted, store, faults, IInv, TypeOK
<1>2. StoreKept /\ Len(approvals) = Len(approvals')
  BY <1>1 DEF StoreKept
<1>3. CASE pc \in Waiting
  <2>1. End(d, pc)
    BY <1>1, <1>3 DEF End
  <2> QED BY <1>1, <1>2, <1>3, <2>1, KeptStoreTyped, EndPreserves
<1>4. CASE pc \notin Waiting
  <2>1. c \in CallType
    BY <1>4, DomainAssumption DEF CallType, IInv, TypeOK, LoopPc
  <2>2. CallInv(c, Len(approvals))
    BY <1>4 DEF CallInv, LoopKnows, EntryKnows, IInv, RunWellFormed, LoopPc,
                AtStepPc, InStepPc, ReadyPc
  <2>3. call' = [call EXCEPT ![d] = c]
    BY <1>1, <1>4
  <2> HIDE DEF c
  <2> QED BY <1>1, <1>2, <2>1, <2>2, <2>3, KeptStoreTyped, StepPreserves
<1> QED BY <1>3, <1>4

\* The engine's entry points check the row they read before they go on.
LEMMA InvokePreserves ==
  ASSUME IInv, NEW d \in Drivers, Invoke(d)
  PROVE  IInv'
<1>1. run.status \in RunStatus \cup {Absent}
  BY DEF IInv, TypeOK, RunSnapshot
<1>2. 0 \in Nat /\ "pending" \in ApprovalStatus
  BY DEF ApprovalStatus
<1>3. CASE CreateRun(d)
  BY <1>3, CreateRunPreserves
<1>4. CASE executeRun(d)
  <2> DEFINE pc == ExecuteEntry(run.status)
  <2>1. Enter(d, "execute", pc, 0, "pending")
    BY <1>4 DEF executeRun
  <2>2. run.status # Absent
    BY <2>1 DEF Enter
  <2>3. /\ pc \in {"threw", "returned", "commitQueued", "commitRunning", "restore"}
        /\ pc = "commitQueued" => run.status = "pending"
        /\ pc = "commitRunning" => run.status = "queued"
        /\ pc = "restore" => run.status = "running"
    BY <1>1, <2>2 DEF ExecuteEntry, RunStatus, TerminalRunStatus
  <2> HIDE DEF pc
  <2> QED BY <1>2, <2>1, <2>3, EnterPreserves DEF Waiting, ReadyPc, CallOps
<1>5. CASE queueRun(d)
  BY <1>2, <1>5, EnterPreserves DEF queueRun, Waiting, ReadyPc, CallOps
<1>6. CASE resumeRun(d)
  BY <1>2, <1>6, EnterPreserves DEF resumeRun, Waiting, ReadyPc, CallOps
<1>7. CASE queueResumeRun(d)
  BY <1>2, <1>7, EnterPreserves DEF queueResumeRun, Waiting, ReadyPc, CallOps
<1>8. CASE pauseRun(d)
  <2> DEFINE pc == CASE run.status \in TerminalRunStatus \cup {"paused"} -> "returned"
                     [] run.status = "pending"                           -> "threw"
                     [] OTHER                                     -> "commitPause"
  <2>1. Enter(d, "pause", pc, 0, "pending")
    BY <1>8 DEF pauseRun
  <2>2. run.status # Absent
    BY <2>1 DEF Enter
  <2>3. /\ pc \in {"returned", "threw", "commitPause"}
        /\ pc = "commitPause" => run.status \in {"queued", "running"}
    BY <1>1, <2>2 DEF RunStatus, TerminalRunStatus
  <2> HIDE DEF pc
  <2> QED BY <1>2, <2>1, <2>3, EnterPreserves DEF Waiting, ReadyPc, CallOps
<1>9. ASSUME NEW a \in DOMAIN approvals, NEW decision \in Decisions,
             decideApproval(d, a, decision)
      PROVE  IInv'
  <2>1. a \in 1 .. Len(approvals) /\ a \in Nat
    BY DEF IInv, TypeOK
  <2> QED BY <1>9, <2>1, EnterPreserves
          DEF decideApproval, Waiting, ReadyPc, CallOps, Decisions
<1> QED BY <1>3, <1>4, <1>5, <1>6, <1>7, <1>8, <1>9 DEF Invoke

\* The second read ends the call or establishes what its commit relies on.
LEMMA ReadPendingPreserves ==
  ASSUME IInv, NEW d \in Drivers, ReadPending(d)
  PROVE  IInv'
<1> DEFINE c == call[d]
<1>1. /\ c \in CallType /\ c.snap \in RunSnapshot
      /\ CallInv(c, Len(approvals)) /\ c.pc = "readPending"
  BY CallFacts DEF ReadPending
<1>2. StoreKept /\ Counted
  BY DEF ReadPending, StoreKept, Counted, store, faults, IInv, TypeOK
<1>3. \/ End(d, "threw")
      \/ End(d, "returned")
      \/ Goto(d, "commitQueued", c.snap) /\ c.snap.status = "paused"
      \/ /\ Goto(d, "commitDecision", c.snap)
         /\ c.op = "decide"
         /\ c.decision = "approved" \/ MayCancel(c.snap)
  BY <1>1 DEF ReadPending, CallInv, EntryKnows
<1>4. CASE End(d, "threw") \/ End(d, "returned")
  BY <1>2, <1>4, KeptStoreTyped, EndPreserves DEF Waiting
<1>5. ASSUME NEW pc \in {"commitQueued", "commitDecision"},
             Goto(d, pc, c.snap),
             pc = "commitQueued" => c.snap.status = "paused",
             pc = "commitDecision" =>
               /\ c.op = "decide"
               /\ c.decision = "approved" \/ MayCancel(c.snap)
      PROVE  IInv'
  <2> DEFINE e == [c EXCEPT !.pc = pc, !.snap = c.snap]
  <2>1. call' = [call EXCEPT ![d] = e]
    BY <1>5 DEF Goto, IInv, TypeOK
  <2>2. e \in CallType
    BY <1>1 DEF CallType, ReadyPc
  <2>3. CallInv(e, Len(approvals))
    BY <1>1, <1>5 DEF CallType, CallInv, LoopKnows, EntryKnows, LoopPc,
                      AtStepPc, InStepPc
  <2> HIDE DEF e
  <2> QED BY <1>2, <2>1, <2>2, <2>3, KeptStoreTyped, StepPreserves
<1> QED BY <1>3, <1>4, <1>5

\* What a commit puts into the store keeps its type and its form.
StoredTyped ==
  /\ run' \in RunSnapshot /\ WellFormed(run')
  /\ log' \in Seq(EventType) /\ checkpoint' \in CheckpointType
  /\ approvals' \in Seq(ApprovalType) /\ Len(approvals) <= Len(approvals')

LEMMA CommitTyped ==
  ASSUME IInv, NEW r \in RunSnapshot, WellFormed(r),
         NEW events \in Seq(EventType), NEW ckpt \in CheckpointType,
         Commit(r, events) \/ CommitWithCheckpoint(r, events, ckpt),
         UNCHANGED approvals \/ \E a \in ApprovalType : approvals' = Append(approvals, a)
  PROVE  StoredTyped
<1>1. log' \in Seq(EventType)
  BY LogGrows DEF Commit, CommitWithCheckpoint, IInv, TypeOK
<1>2. /\ run' = r
      /\ checkpoint' \in CheckpointType
  BY DEF Commit, CommitWithCheckpoint, IInv, TypeOK
<1>3. approvals \in Seq(ApprovalType) /\ Len(approvals) \in Nat
  BY DEF IInv, TypeOK
<1>4. CASE UNCHANGED approvals
  BY <1>1, <1>2, <1>3, <1>4 DEF StoredTyped
<1>5. ASSUME NEW a \in ApprovalType, approvals' = Append(approvals, a)
      PROVE  StoredTyped
  <2>1. approvals' \in Seq(ApprovalType) /\ Len(approvals') = Len(approvals) + 1
    BY <1>3, <1>5
  <2> QED BY <1>1, <1>2, <1>3, <2>1 DEF StoredTyped
<1> QED BY <1>4, <1>5

\* A call that ends after its commit, and one that goes on at pc knowing of
\* its new local snapshot what pc requires.
LEMMA StoredThenEnd ==
  ASSUME IInv, NEW d \in Drivers, StoredTyped, Counted,
         NEW outcome \in Waiting, End(d, outcome)
  PROVE  IInv'
BY EndPreserves DEF StoredTyped

LEMMA StoredThenGoto ==
  ASSUME IInv, NEW d \in Drivers, StoredTyped, Counted,
         NEW pc \in LoopPc \cup {"commitRunning"},
         NEW snap \in RunSnapshot, WellFormed(snap), Goto(d, pc, snap),
         pc = "commitRunning" => snap.status = "queued",
         LoopKnows([pc |-> pc, snap |-> snap])
  PROVE  IInv'
<1> DEFINE c == call[d]
           e == [c EXCEPT !.pc = pc, !.snap = snap]
<1>1. call' = [call EXCEPT ![d] = e]
  BY DEF Goto, IInv, TypeOK
<1>2. c \in CallType
  BY CallFacts
<1>3. e \in CallType /\ e.pc = pc /\ e.snap = snap
  BY <1>2 DEF CallType, ReadyPc
<1> HIDE DEF e
<1>4. LoopKnows(e)
  BY <1>3 DEF LoopKnows
<1>5. EntryKnows(e, Len(approvals'))
  BY <1>3 DEF EntryKnows, LoopPc
<1>6. CallInv(e, Len(approvals'))
  BY <1>3, <1>4, <1>5 DEF CallInv
<1> QED BY <1>1, <1>3, <1>6, StepPreserves DEF StoredTyped

\* The checkpoints the loop saves point at the cursor or just past it.
LEMMA CheckpointTyped ==
  ASSUME NEW r \in RunSnapshot
  PROVE  /\ Checkpoint(r.cursor, NumSteps, FALSE) \in CheckpointType
         /\ Checkpoint(r.cursor, IF r.cursor \in Steps THEN r.cursor ELSE 0, FALSE)
              \in CheckpointType
         /\ r.cursor \in Steps =>
              /\ PauseCheckpoint(r) \in CheckpointType
              /\ CompletionCheckpoint(r) \in CheckpointType
              /\ Checkpoint(r.cursor, r.cursor, FALSE) \in CheckpointType
BY DomainAssumption
   DEF RunSnapshot, Steps, Checkpoint, CheckpointType, PauseCheckpoint,
       CompletionCheckpoint

\* The commits that move the run: each writes a row its snapshot allows.
LEMMA StoreQueuedTyped ==
  ASSUME IInv, NEW d \in Drivers, StoreQueued(d)
  PROVE  LET r == transitionRunStatus(call[d].snap, "queued") IN
         /\ StoredTyped
         /\ r \in RunSnapshot /\ WellFormed(r) /\ r.status = "queued"
<1> DEFINE c == call[d]
           r == transitionRunStatus(c.snap, "queued")
<1>1. /\ c.snap \in RunSnapshot /\ WellFormed(c.snap)
      /\ c.snap.status \in {"pending", "paused"}
  BY CallFacts DEF StoreQueued, CallInv, EntryKnows
<1>2. /\ r \in RunSnapshot /\ WellFormed(r)
  BY <1>1, RunTransitionWellFormed DEF RunStatus, TerminalRunStatus
<1>3. r.status = "queued"
  BY <1>1 DEF transitionRunStatus, RunSnapshot
<1>4. PICK name \in {"run.resumed", "run.queued"} :
        Commit(r, <<Event(name, 0, "queued")>>) /\ UNCHANGED approvals
  BY DEF StoreQueued
<1>5. <<Event(name, 0, "queued")>> \in Seq(EventType)
  BY EventTyped DEF EventName, RunStatus
<1>6. checkpoint \in CheckpointType
  BY DEF IInv, TypeOK
<1> HIDE DEF r
<1>7. StoredTyped
  BY <1>2, <1>4, <1>5, <1>6, CommitTyped
<1> QED BY <1>2, <1>3, <1>7 DEF r

LEMMA StoreRunningTyped ==
  ASSUME IInv, NEW d \in Drivers, StoreRunning(d)
  PROVE  LET r == transitionRunStatus(call[d].snap, "running") IN
         /\ StoredTyped
         /\ r \in RunSnapshot /\ WellFormed(r) /\ r.status = "running"
<1> DEFINE c == call[d]
           r == transitionRunStatus(c.snap, "running")
<1>1. /\ c.snap \in RunSnapshot /\ WellFormed(c.snap)
      /\ c.snap.status = "queued"
  BY CallFacts DEF StoreRunning, CallInv, EntryKnows
<1>2. /\ r \in RunSnapshot /\ WellFormed(r)
  BY <1>1, RunTransitionWellFormed DEF RunStatus, TerminalRunStatus
<1>3. r.status = "running"
  BY <1>1 DEF transitionRunStatus, RunSnapshot
<1>4. <<Event("run.started", 0, "running")>> \in Seq(EventType)
  BY EventTyped DEF EventName, RunStatus
<1>5. /\ Commit(r, <<Event("run.started", 0, "running")>>)
      /\ UNCHANGED approvals
      /\ checkpoint \in CheckpointType
  BY DEF StoreRunning, IInv, TypeOK
<1> HIDE DEF r
<1>6. StoredTyped
  BY <1>2, <1>4, <1>5, CommitTyped
<1> QED BY <1>2, <1>3, <1>6 DEF r

LEMMA StorePauseTyped ==
  ASSUME IInv, NEW d \in Drivers, StorePause(d)
  PROVE  StoredTyped
<1> DEFINE c == call[d]
           r == transitionRunStatus(c.snap, "paused")
           ckpt == Checkpoint(r.cursor, IF r.cursor \in Steps THEN r.cursor
                                                              ELSE 0, FALSE)
<1>1. /\ c.snap \in RunSnapshot /\ WellFormed(c.snap)
      /\ c.snap.status \in {"queued", "running"}
  BY CallFacts DEF StorePause, CallInv, EntryKnows
<1>2. /\ r \in RunSnapshot /\ WellFormed(r)
  BY <1>1, RunTransitionWellFormed DEF RunStatus, TerminalRunStatus
<1>3. <<Event("run.paused", 0, "paused")>> \in Seq(EventType)
  BY EventTyped DEF EventName, RunStatus
<1>4. ckpt \in CheckpointType
  BY <1>2, CheckpointTyped
<1>5. /\ CommitWithCheckpoint(r, <<Event("run.paused", 0, "paused")>>, ckpt)
      /\ UNCHANGED approvals
  BY DEF StorePause
<1> HIDE DEF r, ckpt
<1> QED BY <1>2, <1>3, <1>4, <1>5, CommitTyped

\* A decision replaces one approval and leaves the row or cancels it.
LEMMA StoreDecisionTyped ==
  ASSUME IInv, NEW d \in Drivers, StoreDecision(d)
  PROVE  StoredTyped
<1> DEFINE c == call[d]
           r == cancelRunFromApproval(c.snap)
           a == c.approval
           decided == <<Event(approvalDecisionToEventName(c.decision),
                              approvals[a].step, c.decision)>>
           ended == decided
                      \o (IF c.snap.cursor \in Steps
                          THEN <<Event("step.cancelled", c.snap.cursor,
                                       "cancelled")>>
                          ELSE <<>>)
                      \o <<Event("run.cancelled", 0, "cancelled")>>
<1>1. /\ c.snap \in RunSnapshot /\ WellFormed(c.snap)
      /\ c.snap.status = "paused"
      /\ a \in 1 .. Len(approvals)
      /\ c.decision \in Decisions
      /\ approvals \in Seq(ApprovalType) /\ Len(approvals) \in Nat
      /\ log \in Seq(EventType) /\ checkpoint \in CheckpointType
  BY CallFacts DEF StoreDecision, CallInv, EntryKnows, IInv, TypeOK
<1>2. r \in RunSnapshot /\ WellFormed(r)
  BY <1>1, EndAtStepWellFormed, EndPastStepsWellFormed
     DEF cancelRunFromApproval
<1>3. approvals[a] \in ApprovalType
  BY <1>1
<1>4. decided \in Seq(EventType)
  <2>1. approvals[a].step \in Steps \cup {0}
    BY <1>3 DEF ApprovalType
  <2>2. approvalDecisionToEventName(c.decision) \in EventName
    BY <1>1 DEF approvalDecisionToEventName, EventName
  <2>3. c.decision \in RunStatus \cup StepStatus \cup ApprovalStatus
                                 \cup {"saved"}
    BY <1>1 DEF Decisions
  <2> QED BY <2>1, <2>2, <2>3, EventTyped
<1>5. /\ c.snap.cursor \in Steps =>
           Event("step.cancelled", c.snap.cursor, "cancelled") \in EventType
      /\ Event("run.cancelled", 0, "cancelled") \in EventType
  BY EventTyped DEF EventName, RunStatus
<1>6. /\ approvals' = [approvals EXCEPT ![a].status = c.decision]
      /\ Commit(c.snap, decided) \/ Commit(r, ended)
  BY DEF StoreDecision
<1>7. [approvals[a] EXCEPT !.status = c.decision] \in ApprovalType
  BY <1>1, <1>3 DEF ApprovalType, Decisions
<1>8. approvals' = [approvals EXCEPT
                      ![a] = [approvals[a] EXCEPT !.status = c.decision]]
  BY <1>6
<1>9. approvals' \in Seq(ApprovalType) /\ Len(approvals) <= Len(approvals')
  BY <1>1, <1>7, <1>8
<1>10. (IF c.snap.cursor \in Steps
        THEN <<Event("step.cancelled", c.snap.cursor, "cancelled")>>
        ELSE <<>>) \in Seq(EventType)
  BY <1>5
<1>11. ended \in Seq(EventType)
  BY <1>4, <1>5, <1>10, ConcatProperties
<1> HIDE DEF decided, r, ended
<1>12. run' \in RunSnapshot /\ WellFormed(run')
  BY <1>1, <1>2, <1>6 DEF Commit
<1>13. log' \in Seq(EventType) /\ checkpoint' \in CheckpointType
  BY <1>1, <1>4, <1>6, <1>11, LogGrows DEF Commit
<1> QED BY <1>9, <1>12, <1>13 DEF StoredTyped

\* The commits that move a step.
LEMMA StoreReadyTyped ==
  ASSUME IInv, NEW d \in Drivers, StoreReady(d)
  PROVE  LET r == transitionStepStatus(call[d].snap, call[d].snap.cursor, "ready") IN
         /\ StoredTyped
         /\ r \in RunSnapshot /\ WellFormed(r) /\ r.status = "running"
         /\ r.cursor \in Steps /\ CursorStatus(r) = "ready"
<1> DEFINE c == call[d]
           r == transitionStepStatus(c.snap, c.snap.cursor, "ready")
<1>1. /\ c.snap \in RunSnapshot /\ WellFormed(c.snap)
      /\ c.snap.status = "running" /\ c.snap.cursor \in Steps
  BY CallFacts DEF StoreReady, CallInv, LoopKnows, LoopPc, AtStepPc
<1>2. /\ r \in RunSnapshot /\ r.status = "running" /\ r.cursor = c.snap.cursor
      /\ CursorStatus(r) = "ready"
  BY <1>1, StepReplaced DEF StepStatus, CursorStatus
<1>3. WellFormed(r)
  BY <1>1, StepTransitionWellFormed DEF LiveStepStatus
<1>4. /\ Commit(r, <<Event("step.ready", r.cursor, "ready")>>)
      /\ UNCHANGED approvals
      /\ checkpoint \in CheckpointType
  BY DEF StoreReady, IInv, TypeOK
<1> HIDE DEF r
<1>5. <<Event("step.ready", r.cursor, "ready")>> \in Seq(EventType)
  BY <1>1, <1>2, EventTyped DEF EventName, StepStatus
<1>6. StoredTyped
  BY <1>2, <1>3, <1>4, <1>5, CommitTyped
<1> QED BY <1>1, <1>2, <1>3, <1>6 DEF r

LEMMA StoreStepStartedTyped ==
  ASSUME IInv, NEW d \in Drivers, StoreStepStarted(d)
  PROVE  LET r == transitionStepStatus(call[d].snap, call[d].snap.cursor, "running") IN
         /\ StoredTyped
         /\ r \in RunSnapshot /\ WellFormed(r) /\ r.status = "running"
         /\ r.cursor \in Steps /\ CursorStatus(r) = "running"
<1> DEFINE c == call[d]
           r == transitionStepStatus(c.snap, c.snap.cursor, "running")
<1>1. /\ c.snap \in RunSnapshot /\ WellFormed(c.snap)
      /\ c.snap.status = "running" /\ c.snap.cursor \in Steps
  BY CallFacts DEF StoreStepStarted, CallInv, LoopKnows, LoopPc, AtStepPc
<1>2. /\ r \in RunSnapshot /\ r.status = "running" /\ r.cursor = c.snap.cursor
      /\ CursorStatus(r) = "running"
  BY <1>1, StepReplaced DEF StepStatus, CursorStatus
<1>3. WellFormed(r)
  BY <1>1, StepTransitionWellFormed DEF LiveStepStatus
<1>4. /\ Commit(r, <<Event("step.started", r.cursor, "running")>>)
      /\ UNCHANGED approvals
      /\ checkpoint \in CheckpointType
  BY DEF StoreStepStarted, IInv, TypeOK
<1> HIDE DEF r
<1>5. <<Event("step.started", r.cursor, "running")>> \in Seq(EventType)
  BY <1>1, <1>2, EventTyped DEF EventName, StepStatus
<1>6. StoredTyped
  BY <1>2, <1>3, <1>4, <1>5, CommitTyped
<1> QED BY <1>1, <1>2, <1>3, <1>6 DEF r

\* What the loop knows while a step's answer is being committed.
LEMMA InStepFacts ==
  ASSUME IInv, NEW d \in Drivers, call[d].pc \in InStepPc
  PROVE  /\ call[d].snap \in RunSnapshot /\ WellFormed(call[d].snap)
         /\ call[d].snap.status = "running"
         /\ call[d].snap.cursor \in Steps
         /\ CursorStatus(call[d].snap) = "running"
BY CallFacts DEF CallInv, LoopKnows, InStepPc, AtStepPc, LoopPc

\* A step and its run pause together.
LEMMA PausedWellFormed ==
  ASSUME NEW r \in RunSnapshot, WellFormed(r), r.cursor \in Steps,
         r.status = "running"
  PROVE  Paused(r) \in RunSnapshot /\ WellFormed(Paused(r))
<1> DEFINE u == transitionStepStatus(r, r.cursor, "paused")
<1>1. u \in RunSnapshot /\ u.status = "running"
  BY StepReplaced DEF StepStatus
<1>2. WellFormed(u)
  BY StepTransitionWellFormed DEF LiveStepStatus
<1> HIDE DEF u
<1>3. /\ transitionRunStatus(u, "paused") \in RunSnapshot
      /\ WellFormed(transitionRunStatus(u, "paused"))
  BY <1>1, <1>2, RunTransitionWellFormed DEF RunStatus, TerminalRunStatus
<1> QED BY <1>3 DEF Paused, u

LEMMA PauseEventsTyped ==
  ASSUME NEW r, r.cursor \in Steps
  PROVE  /\ PauseEvents(r) \in Seq(EventType)
         /\ Append(PauseEvents(r),
                   Event("approval.requested", r.cursor, "pending"))
              \in Seq(EventType)
<1>1. /\ Event("step.paused", r.cursor, "paused") \in EventType
      /\ Event("run.paused", 0, "paused") \in EventType
      /\ Event("approval.requested", r.cursor, "pending") \in EventType
  BY EventTyped DEF EventName, RunStatus, StepStatus
<1>2. PauseEvents(r) \in Seq(EventType)
  BY <1>1 DEF PauseEvents
<1> QED BY <1>1, <1>2

LEMMA StorePausedTyped ==
  ASSUME IInv, NEW d \in Drivers, StoreAwait(d) \/ StorePauseStep(d)
  PROVE  StoredTyped
<1> DEFINE r == call[d].snap
           asked == [step |-> r.cursor, status |-> "pending"]
           events == Append(PauseEvents(r),
                            Event("approval.requested", r.cursor, "pending"))
<1>1. /\ r \in RunSnapshot /\ WellFormed(r)
      /\ r.status = "running" /\ r.cursor \in Steps
  BY InStepFacts DEF StoreAwait, StorePauseStep, InStepPc
<1>2. \/ /\ CommitWithCheckpoint(Paused(r), PauseEvents(r), PauseCheckpoint(r))
         /\ UNCHANGED approvals
      \/ /\ CommitWithCheckpoint(Paused(r), events, PauseCheckpoint(r))
         /\ approvals' = Append(approvals, asked)
  BY DEF StoreAwait, StorePauseStep
<1>3. /\ PauseEvents(r) \in Seq(EventType) /\ events \in Seq(EventType)
      /\ Paused(r) \in RunSnapshot /\ WellFormed(Paused(r))
      /\ PauseCheckpoint(r) \in CheckpointType
  BY <1>1, PauseEventsTyped, PausedWellFormed, CheckpointTyped
<1>4. asked \in ApprovalType
  BY <1>1 DEF ApprovalType, ApprovalStatus
<1> HIDE DEF events, asked
<1> QED BY <1>2, <1>3, <1>4, CommitTyped

LEMMA StoreCompleteTyped ==
  ASSUME IInv, NEW d \in Drivers, StoreComplete(d)
  PROVE  LET r == Completed(call[d].snap) IN
         /\ StoredTyped
         /\ r \in RunSnapshot /\ WellFormed(r) /\ r.status = "running"
         /\ r.cursor = call[d].snap.cursor + 1
<1> DEFINE s == call[d].snap
           r == Completed(s)
           events == <<Event("step.completed", s.cursor, "completed")>>
<1>1. /\ CommitWithCheckpoint(r, events, CompletionCheckpoint(s))
      /\ UNCHANGED approvals
  BY DEF StoreComplete
<1>2. /\ s \in RunSnapshot /\ WellFormed(s)
      /\ s.status = "running" /\ s.cursor \in Steps
      /\ CursorStatus(s) = "running"
  BY InStepFacts DEF StoreComplete, InStepPc
<1>3. /\ r \in RunSnapshot /\ WellFormed(r)
      /\ r.status = "running" /\ r.cursor = s.cursor + 1
  BY <1>2, CompletedWellFormed
<1>4. CompletionCheckpoint(s) \in CheckpointType
  BY <1>2, CheckpointTyped
<1>5. Event("step.completed", s.cursor, "completed") \in EventType
  BY <1>2, EventTyped DEF EventName, StepStatus
<1>6. events \in Seq(EventType)
  BY <1>5
<1> HIDE DEF events, r
<1>7. StoredTyped
  BY <1>1, <1>3, <1>4, <1>6, CommitTyped
<1> QED BY <1>3, <1>7 DEF r

LEMMA StoreReadyNextTyped ==
  ASSUME IInv, NEW d \in Drivers, StoreReadyNext(d)
  PROVE  LET r == NextReady(call[d].snap) IN
         /\ StoredTyped
         /\ r \in RunSnapshot /\ WellFormed(r) /\ r.status = "running"
         /\ r.cursor \in Steps /\ CursorStatus(r) = "ready"
<1> DEFINE s == call[d].snap
           t == Completed(s)
           r == NextReady(s)
           events == <<Event("step.ready", r.cursor, "ready")>>
<1>1. /\ Commit(r, events)
      /\ UNCHANGED approvals
  BY DEF StoreReadyNext
<1>2. /\ s \in RunSnapshot /\ WellFormed(s)
      /\ s.status = "running" /\ s.cursor \in Steps
  BY InStepFacts DEF StoreReadyNext, InStepPc
<1>3. s.cursor + 1 \in Steps
  BY CallFacts DEF StoreReadyNext, CallInv, LoopKnows
<1>4. /\ t \in RunSnapshot /\ WellFormed(t)
      /\ t.status = "running" /\ t.cursor = s.cursor + 1
  BY <1>2, CompletedWellFormed
<1>5. r = transitionStepStatus(t, t.cursor, "ready")
  BY <1>4 DEF NextReady
<1> HIDE DEF t, r
<1>6. /\ r \in RunSnapshot /\ r.status = "running" /\ r.cursor = t.cursor
      /\ CursorStatus(r) = "ready"
  BY <1>3, <1>4, <1>5, StepReplaced DEF StepStatus, CursorStatus
<1>7. WellFormed(r)
  BY <1>3, <1>4, <1>5, StepTransitionWellFormed DEF LiveStepStatus
<1>8. events \in Seq(EventType) /\ checkpoint \in CheckpointType
  BY <1>3, <1>4, <1>6, EventTyped DEF EventName, StepStatus, IInv, TypeOK
<1> HIDE DEF events
<1>9. StoredTyped
  BY <1>1, <1>6, <1>7, <1>8, CommitTyped
<1> QED BY <1>3, <1>4, <1>6, <1>7, <1>9 DEF r

\* A failed attempt is rescheduled or ends the run with its step.
LEMMA StoreStepFailureTyped ==
  ASSUME IInv, NEW d \in Drivers, StoreStepFailure(d)
  PROVE  LET r == Rescheduled(call[d].snap) IN
         /\ StoredTyped
         /\ r \in RunSnapshot /\ WellFormed(r) /\ r.status = "running"
         /\ r.cursor \in Steps /\ CursorStatus(r) = "retry_scheduled"
<1> DEFINE s == call[d].snap
           i == s.cursor
           r == Rescheduled(s)
           ckpt == Checkpoint(i, i, FALSE)
           retried == <<Event("step.failed", i, "retry_scheduled"),
                        Event("step.retry_scheduled", i, "retry_scheduled")>>
           ended == <<Event("step.failed", i, "failed"),
                      Event("run.failed", 0, "failed")>>
<1>1. /\ s \in RunSnapshot /\ WellFormed(s)
      /\ s.status = "running" /\ i \in Steps
  BY InStepFacts DEF StoreStepFailure, InStepPc
<1>2. ckpt \in CheckpointType
  BY <1>1, CheckpointTyped
<1>3. /\ r \in RunSnapshot /\ r.status = "running" /\ r.cursor = i
      /\ CursorStatus(r) = "retry_scheduled"
  BY <1>1, StepReplaced DEF StepStatus, Rescheduled, CursorStatus
<1>4. WellFormed(r)
  BY <1>1, StepTransitionWellFormed DEF LiveStepStatus, Rescheduled
<1>5. Failed(s) \in RunSnapshot /\ WellFormed(Failed(s))
  BY <1>1, EndAtStepWellFormed DEF Failed
<1>6. /\ Event("step.failed", i, "retry_scheduled") \in EventType
      /\ Event("step.retry_scheduled", i, "retry_scheduled") \in EventType
      /\ Event("step.failed", i, "failed") \in EventType
      /\ Event("run.failed", 0, "failed") \in EventType
  BY <1>1, EventTyped DEF EventName, StepStatus, RunStatus
<1>7. retried \in Seq(EventType) /\ ended \in Seq(EventType)
  BY <1>6
<1>8. /\ \/ CommitWithCheckpoint(r, retried, ckpt)
         \/ CommitWithCheckpoint(Failed(s), ended, ckpt)
      /\ UNCHANGED approvals
  BY DEF StoreStepFailure
<1> HIDE DEF r, retried, ended, ckpt
<1>9. StoredTyped
  BY <1>2, <1>3, <1>4, <1>5, <1>7, <1>8, CommitTyped
<1> QED BY <1>1, <1>3, <1>4, <1>9 DEF r

LEMMA StoreSucceededTyped ==
  ASSUME IInv, NEW d \in Drivers, StoreSucceeded(d)
  PROVE  StoredTyped
<1> DEFINE s == call[d].snap
           r == transitionRunStatus(s, "succeeded")
           events == <<Event("run.succeeded", 0, "succeeded")>>
           ckpt == Checkpoint(r.cursor, NumSteps, FALSE)
<1>1. CommitWithCheckpoint(r, events, ckpt) /\ UNCHANGED approvals
  BY DEF StoreSucceeded
<1>2. s \in RunSnapshot /\ WellFormed(s) /\ s.cursor \notin Steps
  BY CallFacts DEF StoreSucceeded, CallInv, LoopKnows
<1>3. r \in RunSnapshot /\ WellFormed(r)
  BY <1>2, EndPastStepsWellFormed
<1>4. events \in Seq(EventType)
  BY EventTyped DEF EventName, RunStatus
<1>5. ckpt \in CheckpointType
  BY <1>3, CheckpointTyped
<1> HIDE DEF r, events, ckpt
<1> QED BY <1>1, <1>3, <1>4, <1>5, CommitTyped

LEMMA StoresTyped ==
  ASSUME IInv, NEW d \in Drivers, Stores(d)
  PROVE  StoredTyped
BY StoreQueuedTyped, StoreRunningTyped, StorePauseTyped, StoreDecisionTyped,
   StoreReadyTyped, StoreStepStartedTyped, StorePausedTyped,
   StoreCompleteTyped, StoreReadyNextTyped, StoreStepFailureTyped,
   StoreSucceededTyped
   DEF Stores

-----------------------------------------------------------------------------
(* The commits preserve the invariant, however their calls go on *)

LEMMA EntryCommitPreserves ==
  ASSUME IInv, NEW d \in Drivers,
         \/ CommitQueued(d) \/ CommitRunning(d) \/ CommitPause(d)
         \/ CommitDecision(d) \/ succeedRun(d)
  PROVE  IInv'
<1>1. Counted
  BY DEF CommitQueued, CommitRunning, CommitPause, CommitDecision, succeedRun,
         Counted, faults, IInv, TypeOK
<1>2. CASE CommitQueued(d)
  <2> DEFINE r == transitionRunStatus(call[d].snap, "queued")
  <2>1. /\ StoreQueued(d)
        /\ End(d, "returned") \/ Goto(d, "commitRunning", r)
    BY <1>2 DEF CommitQueued
  <2>2. StoredTyped /\ r \in RunSnapshot /\ WellFormed(r) /\ r.status = "queued"
    BY <2>1, StoreQueuedTyped
  <2> HIDE DEF r
  <2>3. LoopKnows([pc |-> "commitRunning", snap |-> r])
    BY DEF LoopKnows, LoopPc, AtStepPc, InStepPc
  <2> QED BY <1>1, <2>1, <2>2, <2>3, StoredThenEnd, StoredThenGoto DEF Waiting
<1>3. CASE CommitRunning(d)
  <2> DEFINE r == transitionRunStatus(call[d].snap, "running")
  <2>1. StoreRunning(d) /\ Goto(d, "restore", r)
    BY <1>3 DEF CommitRunning
  <2>2. StoredTyped /\ r \in RunSnapshot /\ WellFormed(r) /\ r.status = "running"
    BY <2>1, StoreRunningTyped
  <2> HIDE DEF r
  <2>3. LoopKnows([pc |-> "restore", snap |-> r])
    BY <2>2 DEF LoopKnows, LoopPc, AtStepPc, InStepPc
  <2> QED BY <1>1, <2>1, <2>2, <2>3, StoredThenGoto DEF LoopPc
<1>4. CASE CommitPause(d)
  BY <1>1, <1>4, StorePauseTyped, StoredThenEnd DEF CommitPause, Waiting
<1>5. CASE CommitDecision(d)
  <2>1. CASE StoreDecision(d) /\ End(d, "returned")
    BY <1>1, <2>1, StoreDecisionTyped, StoredThenEnd DEF Waiting
  <2>2. CASE UNCHANGED store /\ End(d, "threw")
    <3>1. StoreKept
      BY <2>2 DEF StoreKept, store
    <3> QED BY <1>1, <2>2, <3>1, KeptStoreTyped, EndPreserves DEF Waiting
  <2> QED BY <1>5, <2>1, <2>2 DEF CommitDecision
<1>6. CASE succeedRun(d)
  BY <1>1, <1>6, StoreSucceededTyped, StoredThenEnd DEF succeedRun, Waiting
<1> QED BY <1>2, <1>3, <1>4, <1>5, <1>6

-----------------------------------------------------------------------------
(* The run loop preserves the invariant *)

\* Where the head of the loop leads, and what the snapshot then looks like.
LEMMA LoopHeadKnows ==
  ASSUME NEW r \in RunSnapshot, r.status = "running"
  PROVE  /\ LoopHead(r) \in {"commitSucceeded", "commitReady",
                             "commitStepStarted", "threw"}
         /\ LoopHead(r) # "threw" => LoopKnows([pc |-> LoopHead(r), snap |-> r])
<1> DEFINE pc == LoopHead(r)
<1>1. /\ pc \in {"commitSucceeded", "commitReady", "commitStepStarted", "threw"}
      /\ pc = "commitSucceeded" => r.cursor \notin Steps
      /\ pc \in {"commitReady", "commitStepStarted"} => r.cursor \in Steps
      /\ pc = "commitReady" =>
           CursorStatus(r) \in {"idle", "paused", "retry_scheduled"}
      /\ pc = "commitStepStarted" => CursorStatus(r) = "ready"
  BY DEF LoopHead, CursorStatus
<1> HIDE DEF pc
<1>2. pc # "threw" => LoopKnows([pc |-> pc, snap |-> r])
  BY <1>1 DEF LoopKnows, AtStepPc, InStepPc
<1> QED BY <1>1, <1>2 DEF pc

LEMMA RestoreCheckpointPreserves ==
  ASSUME IInv, NEW d \in Drivers, RestoreCheckpoint(d)
  PROVE  IInv'
<1> DEFINE c == call[d]
           pc == LoopHead(c.snap)
           loaded == IF checkpoint.payload THEN checkpoint.step ELSE 0
           e == [c EXCEPT !.pc = pc, !.loaded = loaded]
<1>1. /\ c \in CallType /\ c.snap \in RunSnapshot /\ WellFormed(c.snap)
      /\ c.snap.status = "running"
  BY CallFacts DEF RestoreCheckpoint, CallInv, LoopKnows, LoopPc
<1>2. StoreKept /\ Counted
  BY DEF RestoreCheckpoint, StoreKept, Counted, store, faults, IInv, TypeOK
<1>3. call' = [call EXCEPT ![d] = IF pc = "threw" THEN Ended("threw") ELSE e]
  BY DEF RestoreCheckpoint
<1>4. /\ pc \in {"commitSucceeded", "commitReady", "commitStepStarted", "threw"}
      /\ pc # "threw" => LoopKnows([pc |-> pc, snap |-> c.snap])
  BY <1>1, LoopHeadKnows
<1>5. loaded \in 0 .. NumSteps
  BY DomainAssumption DEF IInv, TypeOK, CheckpointType
<1> HIDE DEF pc, loaded
<1>6. CASE pc = "threw"
  BY <1>2, <1>3, <1>6, EndPreserves, KeptStoreTyped DEF Waiting, End
<1>7. CASE pc # "threw"
  <2>1. e \in CallType /\ e.pc = pc /\ e.snap = c.snap
    BY <1>1, <1>4, <1>5, <1>7 DEF CallType, LoopPc
  <2> HIDE DEF e
  <2>2. CallInv(e, Len(approvals'))
    BY <1>1, <1>4, <1>7, <2>1 DEF CallInv, LoopKnows, EntryKnows
  <2> QED BY <1>2, <1>3, <1>7, <2>1, <2>2, StepPreserves, KeptStoreTyped
<1> QED BY <1>6, <1>7

LEMMA StepCommitPreserves ==
  ASSUME IInv, NEW d \in Drivers,
         \/ CommitReady(d) \/ awaitApprovalFromStep(d) \/ pauseFromStep(d)
         \/ CommitComplete(d) \/ CommitReadyNext(d) \/ handleStepFailure(d)
  PROVE  IInv'
<1> DEFINE s == call[d].snap
<1>1. Counted
  BY DEF CommitReady, awaitApprovalFromStep, pauseFromStep, CommitComplete,
         CommitReadyNext, handleStepFailure, Counted, faults, IInv, TypeOK
<1>2. ASSUME NEW r \in RunSnapshot, WellFormed(r), r.status = "running",
             r.cursor \in Steps, CursorStatus(r) = "ready", StoredTyped,
             Goto(d, "commitStepStarted", r)
      PROVE  IInv'
  <2>1. LoopKnows([pc |-> "commitStepStarted", snap |-> r])
    BY <1>2 DEF LoopKnows, LoopPc, AtStepPc, InStepPc
  <2> QED BY <1>1, <1>2, <2>1, StoredThenGoto DEF LoopPc
<1>3. CASE CommitReady(d)
  BY <1>2, <1>3, StoreReadyTyped DEF CommitReady
<1>4. CASE awaitApprovalFromStep(d) \/ pauseFromStep(d)
  BY <1>1, <1>4, StorePausedTyped, StoredThenEnd
     DEF awaitApprovalFromStep, pauseFromStep, Waiting
<1>5. CASE CommitComplete(d)
  <2> DEFINE r == Completed(s)
  <2>1. /\ StoreComplete(d)
        /\ r.cursor \in Steps => Goto(d, "commitReadyNext", s)
        /\ r.cursor \notin Steps => Goto(d, "commitSucceeded", r)
    BY <1>5 DEF CommitComplete
  <2>2. /\ StoredTyped /\ r \in RunSnapshot /\ WellFormed(r)
        /\ r.status = "running" /\ r.cursor = s.cursor + 1
    BY <2>1, StoreCompleteTyped
  <2>3. /\ s \in RunSnapshot /\ WellFormed(s)
        /\ s.status = "running" /\ s.cursor \in Steps
        /\ CursorStatus(s) = "running"
    BY <2>1, InStepFacts DEF StoreComplete, InStepPc
  <2> HIDE DEF r
  <2>4. CASE r.cursor \in Steps
    <3>1. LoopKnows([pc |-> "commitReadyNext", snap |-> s])
      BY <2>2, <2>3, <2>4 DEF LoopKnows, LoopPc, AtStepPc, InStepPc
    <3> QED BY <1>1, <2>1, <2>2, <2>3, <2>4, <3>1, StoredThenGoto DEF LoopPc
  <2>5. CASE r.cursor \notin Steps
    <3>1. LoopKnows([pc |-> "commitSucceeded", snap |-> r])
      BY <2>2, <2>5 DEF LoopKnows, LoopPc, AtStepPc, InStepPc
    <3> QED BY <1>1, <2>1, <2>2, <2>5, <3>1, StoredThenGoto DEF LoopPc
  <2> QED BY <2>4, <2>5
<1>6. CASE CommitReadyNext(d)
  BY <1>2, <1>6, StoreReadyNextTyped DEF CommitReadyNext
<1>7. CASE handleStepFailure(d)
  <2> DEFINE r == Rescheduled(s)
  <2>1. /\ StoreStepFailure(d)
        /\ Goto(d, LoopHead(r), r) \/ End(d, "returned")
    BY <1>7 DEF handleStepFailure
  <2>2. /\ StoredTyped /\ r \in RunSnapshot /\ WellFormed(r)
        /\ r.status = "running" /\ r.cursor \in Steps
        /\ CursorStatus(r) = "retry_scheduled"
    BY <2>1, StoreStepFailureTyped
  <2> HIDE DEF r
  <2>3. LoopHead(r) = "commitReady"
    BY <2>2 DEF LoopHead, CursorStatus
  <2>4. LoopKnows([pc |-> "commitReady", snap |-> r])
    BY <2>2, <2>3, LoopHeadKnows
  <2> QED BY <1>1, <2>1, <2>2, <2>3, <2>4, StoredThenEnd, StoredThenGoto
          DEF Waiting, LoopPc
<1> QED BY <1>3, <1>4, <1>5, <1>6, <1>7

LEMMA CommitStepStartedPreserves ==
  ASSUME IInv, NEW d \in Drivers, CommitStepStarted(d)
  PROVE  IInv'
<1> DEFINE c == call[d]
           r == transitionStepStatus(c.snap, c.snap.cursor, "running")
           loaded == IF c.loaded = r.cursor THEN c.loaded ELSE 0
           e == [c EXCEPT !.pc = "executing", !.snap = r, !.loaded = loaded]
<1>1. /\ c \in CallType /\ Counted /\ StoreStepStarted(d)
      /\ call' = [call EXCEPT ![d] = e]
  BY CallFacts DEF CommitStepStarted, Counted, faults, IInv, TypeOK
<1>2. /\ StoredTyped /\ r \in RunSnapshot /\ WellFormed(r)
      /\ r.status = "running" /\ r.cursor \in Steps
      /\ CursorStatus(r) = "running"
  BY <1>1, StoreStepStartedTyped
<1>3. loaded \in 0 .. NumSteps
  BY <1>1, DomainAssumption DEF CallType
<1> HIDE DEF r, loaded
<1>4. e \in CallType /\ e.pc = "executing" /\ e.snap = r
  BY <1>1, <1>2, <1>3 DEF CallType, LoopPc
<1> HIDE DEF e
<1>5. CallInv(e, Len(approvals'))
  BY <1>2, <1>4 DEF CallInv, LoopKnows, EntryKnows, LoopPc, AtStepPc, InStepPc
<1> QED BY <1>1, <1>2, <1>4, <1>5, StepPreserves DEF StoredTyped

\* Whatever the step answers, the loop still holds the running step.
LEMMA StepReturnsPreserves ==
  ASSUME IInv, NEW d \in Drivers, StepReturns(d)
  PROVE  IInv'
<1> DEFINE c == call[d]
<1>1. /\ c \in CallType /\ CallInv(c, Len(approvals)) /\ c.pc = "executing"
  BY CallFacts DEF StepReturns
<1>2. StoreKept /\ Counted
  BY DEF StepReturns, StoreKept, Counted, store, faults, IInv, TypeOK
<1>3. PICK pc \in {"commitAwait", "commitComplete", "commitPauseStep",
                   "commitStepFailure"} :
        call' = [call EXCEPT ![d].pc = pc, ![d].loaded = 0]
  BY DEF StepReturns
<1> DEFINE e == [c EXCEPT !.pc = pc, !.loaded = 0]
<1>4. call' = [call EXCEPT ![d] = e]
  BY <1>3 DEF IInv, TypeOK
<1>5. e \in CallType /\ e.pc = pc /\ e.snap = c.snap
  <2>1. pc \in LoopPc /\ 0 \in 0 .. NumSteps
    BY DomainAssumption DEF LoopPc
  <2> QED BY <1>1, <2>1 DEF CallType
<1> HIDE DEF e
<1>6. CallInv(e, Len(approvals))
  BY <1>1, <1>3, <1>5 DEF CallInv, LoopKnows, EntryKnows, LoopPc, AtStepPc,
                          InStepPc
<1> QED BY <1>2, <1>4, <1>5, <1>6, KeptStoreTyped, StepPreserves

-----------------------------------------------------------------------------
(* Faults preserve the invariant *)

\* Where a commit that raises leads does not depend on what was stored.
LEMMA RaisingPreserves ==
  ASSUME IInv, NEW d \in Drivers, Raises(d), StoredTyped, lost' \in Nat
  PROVE  IInv'
<1> DEFINE c == call[d]
           e == [c EXCEPT !.pc = "commitStepFailure", !.snap = c.snap]
<1>1. c \in CallType /\ CallInv(c, Len(approvals))
  BY CallFacts
<1>2. Counted
  BY DEF Raises, Counted, IInv, TypeOK
<1>3. CASE c.pc \in {"commitAwait", "commitPauseStep", "commitComplete",
                     "commitReadyNext"}
  <2>1. call' = [call EXCEPT ![d] = e]
    BY <1>3 DEF Raises, Goto, IInv, TypeOK
  <2>2. e \in CallType /\ e.pc = "commitStepFailure" /\ e.snap = c.snap
    BY <1>1 DEF CallType, LoopPc
  <2> HIDE DEF e
  <2>3. CallInv(e, Len(approvals'))
    BY <1>1, <1>3, <2>2 DEF CallInv, LoopKnows, EntryKnows, LoopPc, AtStepPc,
                            InStepPc
  <2> QED BY <1>2, <2>1, <2>2, <2>3, StepPreserves DEF StoredTyped
<1>4. CASE c.pc \notin {"commitAwait", "commitPauseStep", "commitComplete",
                        "commitReadyNext"}
  <2>1. End(d, "threw")
    BY <1>4 DEF Raises
  <2> QED BY <1>2, <2>1, StoredThenEnd DEF Waiting
<1> QED BY <1>3, <1>4

LEMMA CommitRejectedPreserves ==
  ASSUME IInv, NEW d \in Drivers, CommitRejected(d)
  PROVE  IInv'
<1>1. StoreKept /\ Raises(d) /\ lost' \in Nat
  BY DEF CommitRejected, StoreKept, store, IInv, TypeOK
<1>2. StoredTyped
  BY <1>1, KeptStoreTyped DEF StoredTyped
<1> QED BY <1>1, <1>2, RaisingPreserves

LEMMA AnswerLostPreserves ==
  ASSUME IInv, NEW d \in Drivers, AnswerLost(d)
  PROVE  IInv'
<1>1. Stores(d) /\ Raises(d) /\ lost' \in Nat
  BY DEF AnswerLost, IInv, TypeOK
<1> QED BY <1>1, StoresTyped, RaisingPreserves

LEMMA CrashPreserves ==
  ASSUME IInv, NEW d \in Drivers, Crash(d)
  PROVE  IInv'
<1>1. /\ StoreKept /\ Counted
      /\ End(d, "idle")
  BY DEF Crash, StoreKept, Counted, store, IInv, TypeOK
<1> QED BY <1>1, KeptStoreTyped, EndPreserves DEF Waiting

-----------------------------------------------------------------------------
(* The theorems *)

LEMMA InitInvariant == Init => IInv
<1> SUFFICES ASSUME Init PROVE IInv
  OBVIOUS
<1>1. run \in RunSnapshot /\ WellFormed(run)
  BY CreatedWellFormed DEF Init
<1>2. /\ log \in Seq(EventType) /\ approvals \in Seq(ApprovalType)
      /\ made \in Nat /\ crashes \in Nat /\ failures \in Nat /\ lost \in Nat
  BY DEF Init
<1>3. checkpoint \in CheckpointType
  BY DomainAssumption DEF Init, Checkpoint, CheckpointType
<1>4. /\ call = [d \in Drivers |-> Ended("idle")]
      /\ Ended("idle") \in CallType
      /\ CallInv(Ended("idle"), Len(approvals))
  BY EndedCallInv DEF Init, Waiting
<1> QED BY <1>1, <1>2, <1>3, <1>4 DEF IInv, TypeOK, RunWellFormed

LEMMA StepInvariant == IInv /\ [Next]_vars => IInv'
<1> SUFFICES ASSUME IInv, [Next]_vars PROVE IInv'
  OBVIOUS
<1>1. ASSUME NEW d \in Drivers, Advance(d)
      PROVE  IInv'
  BY <1>1, ReadPendingPreserves, EntryCommitPreserves,
     RestoreCheckpointPreserves, StepCommitPreserves,
     CommitStepStartedPreserves, StepReturnsPreserves
     DEF Advance
<1>2. CASE Next
  BY <1>1, <1>2, InvokePreserves, CommitRejectedPreserves,
     AnswerLostPreserves, CrashPreserves
     DEF Next
<1>3. CASE UNCHANGED vars
  BY <1>3 DEF vars, IInv, TypeOK, RunWellFormed
<1> QED BY <1>2, <1>3

LEMMA Invariance == Spec => []IInv
BY InitInvariant, StepInvariant, PTL DEF Spec

\* Every variable keeps its type, and a call under way its snapshot.
THEOREM TypeCorrect == Spec => []TypeOK
<1>1. IInv => TypeOK
  BY DEF IInv
<1> QED BY <1>1, Invariance, PTL

\* Whatever the drivers, their crashes and the commits that raise, the persisted
\* run is a well-formed snapshot.
THEOREM RunAlwaysWellFormed == Spec => []RunWellFormed
<1>1. IInv => RunWellFormed
  BY DEF IInv
<1> QED BY <1>1, Invariance, PTL

\* No commit of the engine is refused by the assertions in the transitions.
THEOREM AssertionsNeverFire == Spec => []TransitionsAllowed
<1>1. ASSUME IInv, NEW d \in Drivers
      PROVE  TransitionAllowed(call[d])
  <2> DEFINE c == call[d]
             r == c.snap
  <2>1. /\ r \in RunSnapshot /\ WellFormed(r)
        /\ LoopKnows(c) /\ EntryKnows(c, Len(approvals))
    BY <1>1, CallFacts DEF CallInv
  <2>2. /\ c.pc \in LoopPc => r.status = "running"
        /\ c.pc \in InStepPc => r.steps[r.cursor].status = "running"
        /\ c.pc = "commitReady" =>
             r.steps[r.cursor].status \in {"idle", "paused", "retry_scheduled"}
        /\ c.pc = "commitStepStarted" => r.steps[r.cursor].status = "ready"
        /\ c.pc = "commitQueued" => r.status \in {"pending", "paused"}
        /\ c.pc = "commitRunning" => r.status = "queued"
        /\ c.pc = "commitPause" => r.status \in {"queued", "running"}
    BY <2>1 DEF LoopKnows, EntryKnows, CursorStatus
  <2>3. c.pc = "commitReadyNext" => r.steps[r.cursor + 1].status = "idle"
    <3> SUFFICES ASSUME c.pc = "commitReadyNext"
                 PROVE  r.steps[r.cursor + 1].status = "idle"
      OBVIOUS
    <3>1. r.cursor + 1 \in Steps /\ r.cursor + 1 > r.cursor
      BY <2>1 DEF LoopKnows, RunSnapshot, AtStepPc, InStepPc, Steps
    <3> QED BY <2>1, <3>1 DEF WellFormed, AheadOfCursor
  <2> HIDE DEF c
  <2>4. TransitionAllowed(c)
    BY <2>2, <2>3 DEF TransitionAllowed, RunMayBecome, StepMayBecome,
                      runTransitions, stepTransitions, LoopPc, InStepPc
  <2> QED BY <2>4 DEF c
<1>2. IInv => TransitionsAllowed
  BY <1>1 DEF TransitionsAllowed
<1> QED BY <1>2, Invariance, PTL

-----------------------------------------------------------------------------
(* The log, the approvals and the checkpoint *)

\* Every step creates the run, leaves the store alone or is one of the commits
\* of a call, whether its answer arrives or not.
LEMMA AdvanceStores ==
  ASSUME NEW d \in Drivers, Advance(d)
  PROVE  StoreKept \/ Stores(d)
<1>1. CASE ReadPending(d) \/ RestoreCheckpoint(d) \/ StepReturns(d)
  BY <1>1 DEF ReadPending, RestoreCheckpoint, StepReturns, store, StoreKept
<1>2. CASE CommitDecision(d)
  BY <1>2 DEF CommitDecision, Stores, store, StoreKept
<1>3. CASE \/ CommitQueued(d) \/ CommitRunning(d) \/ CommitPause(d)
           \/ succeedRun(d) \/ CommitReady(d) \/ CommitStepStarted(d)
  BY <1>3 DEF CommitQueued, CommitRunning, CommitPause, succeedRun, CommitReady,
              CommitStepStarted, Stores
<1>4. CASE \/ awaitApprovalFromStep(d) \/ pauseFromStep(d)
           \/ CommitComplete(d) \/ CommitReadyNext(d) \/ handleStepFailure(d)
  BY <1>4 DEF awaitApprovalFromStep, pauseFromStep, CommitComplete,
              CommitReadyNext, handleStepFailure, Stores
<1> QED BY <1>1, <1>2, <1>3, <1>4 DEF Advance

LEMMA StepStores ==
  ASSUME [Next]_vars
  PROVE  StoreKept \/ \E d \in Drivers : CreateRun(d) \/ Stores(d)
<1>1. CASE UNCHANGED vars
  BY <1>1 DEF vars, StoreKept
<1>2. ASSUME NEW d \in Drivers, Invoke(d), ~CreateRun(d)
      PROVE  StoreKept
  BY <1>2 DEF Invoke, Enter, executeRun, queueRun, resumeRun, queueResumeRun,
              pauseRun, decideApproval, store, StoreKept
<1>3. ASSUME NEW d \in Drivers, CommitRejected(d) \/ Crash(d)
      PROVE  StoreKept
  BY <1>3 DEF CommitRejected, Crash, store, StoreKept
<1>4. ASSUME NEW d \in Drivers, AnswerLost(d)
      PROVE  Stores(d)
  BY <1>4 DEF AnswerLost
<1> QED BY <1>1, <1>2, <1>3, <1>4, AdvanceStores DEF Next

\* Engine calls do not overlap: whoever acts is the only driver there is.
OneAtATime == \A d, e \in Drivers : d = e

-----------------------------------------------------------------------------
(* Counting in a sequence *)

Places(sq, some) == {n \in DOMAIN sq : sq[n] \in some}
Occurs(sq, some) == Cardinality(Places(sq, some))

LEMMA PlacesFinite ==
  ASSUME NEW T, NEW sq \in Seq(T), NEW some
  PROVE  /\ IsFiniteSet(Places(sq, some))
         /\ Occurs(sq, some) \in Nat
<1>1. DOMAIN sq = 1 .. Len(sq) /\ Len(sq) \in Nat
  OBVIOUS
<1>2. IsFiniteSet(DOMAIN sq)
  BY <1>1, FS_Interval
<1>3. Places(sq, some) \subseteq DOMAIN sq
  BY DEF Places
<1>4. IsFiniteSet(Places(sq, some))
  BY <1>2, <1>3, FS_Subset
<1> QED BY <1>4, FS_CardinalityType DEF Occurs

LEMMA OccursAppend ==
  ASSUME NEW T, NEW sq \in Seq(T), NEW x \in T, NEW some
  PROVE  Occurs(Append(sq, x), some)
           = IF x \in some THEN Occurs(sq, some) + 1 ELSE Occurs(sq, some)
<1> DEFINE ap == Append(sq, x)
           n == Len(sq) + 1
<1>1. /\ Len(sq) \in Nat /\ DOMAIN sq = 1 .. Len(sq)
      /\ DOMAIN ap = 1 .. n /\ ap[n] = x
      /\ \A i \in 1 .. Len(sq) : ap[i] = sq[i]
  BY AppendProperties
<1>2. 1 .. n = (1 .. Len(sq)) \cup {n} /\ n \notin 1 .. Len(sq)
  BY <1>1
<1> HIDE DEF ap, n
<1>3. Places(ap, some) = IF x \in some THEN Places(sq, some) \cup {n}
                                       ELSE Places(sq, some)
  BY <1>1, <1>2 DEF Places
<1>4. n \notin Places(sq, some)
  BY <1>1, <1>2 DEF Places
<1>5. IsFiniteSet(Places(sq, some))
  BY PlacesFinite
<1>6. x \in some => Occurs(ap, some) = Occurs(sq, some) + 1
  <2> DEFINE P == Places(sq, some)
  <2>1. IsFiniteSet(P) /\ n \notin P
    BY <1>4, <1>5
  <2> HIDE DEF P
  <2>2. Cardinality(P \cup {n}) = Cardinality(P) + 1
    BY <2>1, FS_AddElement
  <2> QED BY <1>3, <2>2 DEF Occurs, P
<1>7. x \notin some => Occurs(ap, some) = Occurs(sq, some)
  BY <1>3 DEF Occurs
<1> QED BY <1>6, <1>7 DEF ap

\* Elements that are not counted may be appended in any number.
LEMMA OccursConcat ==
  ASSUME NEW T, NEW sq \in Seq(T), NEW tail \in Seq(T), NEW some,
         \A n \in DOMAIN tail : tail[n] \notin some
  PROVE  Occurs(sq \o tail, some) = Occurs(sq, some)
<1> DEFINE all == sq \o tail
<1>1. /\ all \in Seq(T) /\ Len(all) = Len(sq) + Len(tail)
      /\ Len(sq) \in Nat /\ Len(tail) \in Nat
      /\ \A i \in 1 .. Len(sq) + Len(tail) :
           all[i] = IF i <= Len(sq) THEN sq[i] ELSE tail[i - Len(sq)]
  BY ConcatProperties
<1>2. DOMAIN all = 1 .. Len(sq) + Len(tail)
  BY <1>1
<1> HIDE DEF all
<1>3. ASSUME NEW i \in DOMAIN all
      PROVE  all[i] \in some <=> i \in DOMAIN sq /\ sq[i] \in some
  <2>1. CASE i <= Len(sq)
    BY <1>1, <1>2, <2>1
  <2>2. CASE ~(i <= Len(sq))
    <3>1. i - Len(sq) \in DOMAIN tail /\ all[i] = tail[i - Len(sq)]
      BY <1>1, <1>2, <2>2
    <3>2. i \notin DOMAIN sq
      BY <2>2
    <3> QED BY <3>1, <3>2
  <2> QED BY <2>1, <2>2
<1>4. DOMAIN sq \subseteq DOMAIN all
  BY <1>1, <1>2
<1>5. Places(all, some) = Places(sq, some)
  BY <1>3, <1>4 DEF Places
<1> QED BY <1>5 DEF Occurs, all

\* One element replaced by one that is counted, or by another that is not.
LEMMA OccursReplace ==
  ASSUME NEW T, NEW sq \in Seq(T), NEW re \in Seq(T), NEW k, NEW some,
         k \in DOMAIN sq, DOMAIN re = DOMAIN sq, sq[k] \notin some,
         \A i \in DOMAIN sq : i # k => re[i] = sq[i]
  PROVE  Occurs(re, some) = IF re[k] \in some THEN Occurs(sq, some) + 1
                                              ELSE Occurs(sq, some)
<1>1. Places(re, some) = IF re[k] \in some THEN Places(sq, some) \cup {k}
                                           ELSE Places(sq, some)
  BY DEF Places
<1>2. k \notin Places(sq, some)
  BY DEF Places
<1>3. IsFiniteSet(Places(sq, some))
  BY PlacesFinite
<1>4. re[k] \in some => Occurs(re, some) = Occurs(sq, some) + 1
  BY <1>1, <1>2, <1>3, FS_AddElement DEF Occurs
<1>5. re[k] \notin some => Occurs(re, some) = Occurs(sq, some)
  BY <1>1 DEF Occurs
<1> QED BY <1>4, <1>5

-----------------------------------------------------------------------------
(* An approval is decided once, by any number of drivers *)

QuietEvent == {e \in EventType : e.name \notin DecisionEvents}

\* What every step does to the log and the approvals that decides nothing.
Quiet == /\ \E events \in Seq(QuietEvent) : log' = log \o events
         /\ \/ approvals' = approvals
            \/ \E i \in Steps :
                 approvals' = Append(approvals, [step |-> i, status |-> "pending"])

\* What the step that decides approval a does to them.
Decides(a, decision) ==
  /\ a \in DOMAIN approvals /\ approvals[a].status = "pending"
  /\ decision \in Decisions
  /\ approvals' = [approvals EXCEPT ![a].status = decision]
  /\ \E events \in Seq(QuietEvent) :
       log' = log \o (<<Event(approvalDecisionToEventName(decision),
                              approvals[a].step, decision)>> \o events)

LEMMA QuietTyped ==
  /\ \A name \in EventName \ DecisionEvents, i \in Steps \cup {0},
        status \in RunStatus \cup StepStatus \cup ApprovalStatus \cup {"saved"} :
          Event(name, i, status) \in QuietEvent
  /\ CheckpointSaved \in QuietEvent
<1>1. \A name \in EventName \ DecisionEvents, i \in Steps \cup {0},
         status \in RunStatus \cup StepStatus \cup ApprovalStatus \cup {"saved"} :
           Event(name, i, status) \in QuietEvent
  <2> SUFFICES ASSUME NEW name \in EventName \ DecisionEvents,
                      NEW i \in Steps \cup {0},
                      NEW status \in RunStatus \cup StepStatus
                                        \cup ApprovalStatus \cup {"saved"}
               PROVE  Event(name, i, status) \in QuietEvent
    OBVIOUS
  <2>1. Event(name, i, status) \in EventType
    BY EventTyped
  <2>2. Event(name, i, status).name = name
    BY DEF Event
  <2> QED BY <2>1, <2>2 DEF QuietEvent
<1> QED BY <1>1 DEF CheckpointSaved, EventName, DecisionEvents

\* Both commits append quiet events when they are given quiet events.
LEMMA QuietCommit ==
  ASSUME NEW r, NEW ckpt, NEW events \in Seq(QuietEvent),
         Commit(r, events) \/ CommitWithCheckpoint(r, events, ckpt)
  PROVE  \E all \in Seq(QuietEvent) : log' = log \o all
<1>1. Append(events, CheckpointSaved) \in Seq(QuietEvent)
  BY QuietTyped
<1> QED BY <1>1 DEF Commit, CommitWithCheckpoint

LEMMA KeptIsQuiet ==
  ASSUME IInv, log' = log, approvals' = approvals
  PROVE  Quiet
<1>1. log \in Seq(EventType) /\ <<>> \in Seq(QuietEvent) /\ log = log \o <<>>
  BY ConcatEmptySeq DEF IInv, TypeOK
<1> QED BY <1>1 DEF Quiet

LEMMA DecisionDecides ==
  ASSUME IInv, NEW d \in Drivers, StoreDecision(d)
  PROVE  Decides(call[d].approval, call[d].decision)
<1> DEFINE c == call[d]
           a == c.approval
           r == cancelRunFromApproval(c.snap)
           first == Event(approvalDecisionToEventName(c.decision),
                          approvals[a].step, c.decision)
           step == IF c.snap.cursor \in Steps
                   THEN <<Event("step.cancelled", c.snap.cursor, "cancelled")>>
                   ELSE <<>>
           last == <<Event("run.cancelled", 0, "cancelled")>>
<1>1. /\ a \in 1 .. Len(approvals) /\ c.decision \in Decisions
      /\ approvals \in Seq(ApprovalType)
  BY CallFacts DEF StoreDecision, CallInv, EntryKnows, IInv, TypeOK
<1>2. /\ approvals[a].status = "pending" /\ a \in DOMAIN approvals
      /\ approvals' = [approvals EXCEPT ![a].status = c.decision]
  BY <1>1 DEF DecisionRefused, StoreDecision
<1>3. \/ log' = log \o <<first>>
      \/ log' = log \o (<<first>> \o step \o last)
  BY DEF StoreDecision, Commit
<1>4. step \in Seq(QuietEvent) /\ last \in Seq(QuietEvent)
  <2>1. /\ c.snap.cursor \in Steps =>
             Event("step.cancelled", c.snap.cursor, "cancelled") \in QuietEvent
        /\ Event("run.cancelled", 0, "cancelled") \in QuietEvent
    BY QuietTyped DEF EventName, DecisionEvents, StepStatus, RunStatus
  <2> QED BY <2>1
<1>5. approvals[a] \in ApprovalType
  BY <1>1, <1>2
<1>6. first \in EventType
  <2>1. approvalDecisionToEventName(c.decision) \in EventName
    BY <1>1 DEF approvalDecisionToEventName, EventName
  <2> QED BY <1>1, <1>5, <2>1, EventTyped DEF ApprovalType, Decisions
<1> HIDE DEF first, step, last
<1>7. step \o last \in Seq(QuietEvent) /\ <<>> \in Seq(QuietEvent)
  BY <1>4, ConcatProperties
<1>8. <<first>> \in Seq(EventType) /\ Seq(QuietEvent) \subseteq Seq(EventType)
  BY <1>6 DEF QuietEvent
<1>9. /\ <<first>> \o step \o last = <<first>> \o (step \o last)
      /\ <<first>> = <<first>> \o <<>>
  BY <1>4, <1>8, ConcatAssociative, ConcatEmptySeq
<1>10. \E events \in Seq(QuietEvent) : log' = log \o (<<first>> \o events)
  BY <1>3, <1>7, <1>9
<1> QED BY <1>1, <1>2, <1>10 DEF Decides, first

\* No other commit decides.
LEMMA OtherStoresAreQuiet ==
  ASSUME IInv, NEW d \in Drivers, Stores(d), ~StoreDecision(d)
  PROVE  Quiet
<1> DEFINE c == call[d]
           i == c.snap.cursor
<1>1. /\ c.snap \in RunSnapshot /\ CallInv(c, Len(approvals))
      /\ c.pc \in AtStepPc => i \in Steps
      /\ c.pc = "commitReadyNext" => i + 1 \in Steps
  BY CallFacts DEF CallInv, LoopKnows
<1>2. \A name \in EventName \ DecisionEvents, k \in Steps \cup {0},
         status \in RunStatus \cup StepStatus \cup ApprovalStatus \cup {"saved"} :
           Event(name, k, status) \in QuietEvent
  BY QuietTyped
<1>3. ASSUME NEW events \in Seq(QuietEvent),
             \/ log' = log \o events
             \/ log' = log \o Append(events, CheckpointSaved),
             \/ approvals' = approvals
             \/ \E k \in Steps :
                  approvals' = Append(approvals, [step |-> k, status |-> "pending"])
      PROVE  Quiet
  <2>1. Append(events, CheckpointSaved) \in Seq(QuietEvent)
    BY QuietTyped
  <2> QED BY <1>3, <2>1 DEF Quiet
<1> HIDE DEF c, i
<1>5. CASE StoreQueued(d)
  <2>1. PICK name \in {"run.resumed", "run.queued"} :
          log' = log \o <<Event(name, 0, "queued")>> /\ approvals' = approvals
    BY <1>5 DEF StoreQueued, Commit
  <2>2. Event(name, 0, "queued") \in QuietEvent
    BY <1>2 DEF EventName, DecisionEvents, RunStatus
  <2>3. <<Event(name, 0, "queued")>> \in Seq(QuietEvent)
    BY <2>2
  <2> QED BY <1>3, <2>1, <2>3
<1>6. CASE StoreRunning(d)
  <2>1. <<Event("run.started", 0, "running")>> \in Seq(QuietEvent)
    <3>1. Event("run.started", 0, "running") \in QuietEvent
      BY <1>2 DEF EventName, DecisionEvents, RunStatus
    <3> QED BY <3>1
  <2> QED BY <1>3, <1>6, <2>1 DEF StoreRunning, Commit
<1>7. CASE StorePause(d)
  <2>1. <<Event("run.paused", 0, "paused")>> \in Seq(QuietEvent)
    <3>1. Event("run.paused", 0, "paused") \in QuietEvent
      BY <1>2 DEF EventName, DecisionEvents, RunStatus
    <3> QED BY <3>1
  <2> QED BY <1>3, <1>7, <2>1 DEF StorePause, CommitWithCheckpoint
<1>8. CASE StoreReady(d)
  <2>1. i \in Steps /\ transitionStepStatus(c.snap, i, "ready").cursor = i
    BY <1>1, <1>8, StepReplaced DEF StoreReady, AtStepPc, StepStatus, c, i
  <2>2. Event("step.ready", i, "ready") \in QuietEvent
    BY <1>2, <2>1 DEF EventName, DecisionEvents, StepStatus
  <2>3. <<Event("step.ready", i, "ready")>> \in Seq(QuietEvent)
    BY <2>2
  <2> QED BY <1>3, <1>8, <2>1, <2>3 DEF StoreReady, Commit, c, i
<1>9. CASE StoreStepStarted(d)
  <2>1. i \in Steps /\ transitionStepStatus(c.snap, i, "running").cursor = i
    BY <1>1, <1>9, StepReplaced DEF StoreStepStarted, AtStepPc, StepStatus, c, i
  <2>2. Event("step.started", i, "running") \in QuietEvent
    BY <1>2, <2>1 DEF EventName, DecisionEvents, StepStatus
  <2>3. <<Event("step.started", i, "running")>> \in Seq(QuietEvent)
    BY <2>2
  <2> QED BY <1>3, <1>9, <2>1, <2>3 DEF StoreStepStarted, Commit, c, i
<1>10. CASE StoreAwait(d) \/ StorePauseStep(d)
  <2>1. i \in Steps
    BY <1>1, <1>10 DEF StoreAwait, StorePauseStep, AtStepPc, InStepPc, c
  <2>2. /\ Event("step.paused", i, "paused") \in QuietEvent
        /\ Event("run.paused", 0, "paused") \in QuietEvent
        /\ Event("approval.requested", i, "pending") \in QuietEvent
    BY <1>2, <2>1 DEF EventName, DecisionEvents, StepStatus, RunStatus,
                      ApprovalStatus
  <2>3. /\ PauseEvents(c.snap) \in Seq(QuietEvent)
        /\ Append(PauseEvents(c.snap), Event("approval.requested", i, "pending"))
             \in Seq(QuietEvent)
    BY <2>2 DEF PauseEvents, i
  <2> QED BY <1>3, <1>10, <2>1, <2>3
          DEF StoreAwait, StorePauseStep, CommitWithCheckpoint, c, i
<1>11. CASE StoreComplete(d)
  <2>1. i \in Steps
    BY <1>1, <1>11 DEF StoreComplete, AtStepPc, InStepPc, c
  <2>2. Event("step.completed", i, "completed") \in QuietEvent
    BY <1>2, <2>1 DEF EventName, DecisionEvents, StepStatus
  <2>3. <<Event("step.completed", i, "completed")>> \in Seq(QuietEvent)
    BY <2>2
  <2> QED BY <1>3, <1>11, <2>3 DEF StoreComplete, CommitWithCheckpoint, c, i
<1>12. CASE StoreReadyNext(d)
  <2> DEFINE r == transitionStepStatus(Completed(c.snap), i + 1, "ready")
  <2>1. /\ i \in Steps /\ i + 1 \in Steps /\ c.snap.status = "running"
        /\ WellFormed(c.snap)
    BY <1>1, <1>12
       DEF StoreReadyNext, NextReady, CallInv, LoopKnows, LoopPc, AtStepPc,
                       InStepPc, c
  <2>2. Completed(c.snap) \in RunSnapshot /\ Completed(c.snap).cursor = i + 1
    BY <1>1, <2>1, CompletedWellFormed DEF i
  <2>3. r.cursor = i + 1
    BY <2>1, <2>2, StepReplaced DEF StepStatus
  <2>4. Event("step.ready", i + 1, "ready") \in QuietEvent
    BY <1>2, <2>1 DEF EventName, DecisionEvents, StepStatus
  <2>5. Commit(r, <<Event("step.ready", r.cursor, "ready")>>)
          /\ approvals' = approvals
    BY <1>12 DEF StoreReadyNext, NextReady, c, i
  <2> HIDE DEF r
  <2>6. <<Event("step.ready", i + 1, "ready")>> \in Seq(QuietEvent)
    BY <2>4
  <2> QED BY <1>3, <2>3, <2>5, <2>6 DEF Commit
<1>13. CASE StoreStepFailure(d)
  <2>1. i \in Steps
    BY <1>1, <1>13
       DEF StoreStepFailure, Rescheduled, Failed, AtStepPc, InStepPc, c
  <2>2. /\ Event("step.failed", i, "retry_scheduled") \in QuietEvent
        /\ Event("step.retry_scheduled", i, "retry_scheduled") \in QuietEvent
        /\ Event("step.failed", i, "failed") \in QuietEvent
        /\ Event("run.failed", 0, "failed") \in QuietEvent
    BY <1>2, <2>1 DEF EventName, DecisionEvents, StepStatus, RunStatus
  <2>3. \E r, ckpt :
          \/ CommitWithCheckpoint(r, <<Event("step.failed", i, "retry_scheduled"),
               Event("step.retry_scheduled", i, "retry_scheduled")>>, ckpt)
          \/ CommitWithCheckpoint(r, <<Event("step.failed", i, "failed"),
               Event("run.failed", 0, "failed")>>, ckpt)
    BY <1>13 DEF StoreStepFailure, Rescheduled, Failed, c, i
  <2>4. approvals' = approvals
    BY <1>13 DEF StoreStepFailure, Rescheduled, Failed
  <2>5. /\ <<Event("step.failed", i, "retry_scheduled"),
            Event("step.retry_scheduled", i, "retry_scheduled")>>
             \in Seq(QuietEvent)
        /\ <<Event("step.failed", i, "failed"),
            Event("run.failed", 0, "failed")>> \in Seq(QuietEvent)
    BY <2>2
  <2> QED BY <1>3, <2>3, <2>4, <2>5 DEF CommitWithCheckpoint
<1>14. CASE StoreSucceeded(d)
  <2>1. <<Event("run.succeeded", 0, "succeeded")>> \in Seq(QuietEvent)
    <3>1. Event("run.succeeded", 0, "succeeded") \in QuietEvent
      BY <1>2 DEF EventName, DecisionEvents, RunStatus
    <3> QED BY <3>1
  <2> QED BY <1>3, <1>14, <2>1 DEF StoreSucceeded, CommitWithCheckpoint
<1> QED BY <1>5, <1>6, <1>7, <1>8, <1>9, <1>10, <1>11, <1>12, <1>13, <1>14
        DEF Stores

\* Every step of the engine is quiet or decides a pending approval.
LEMMA QuietOrDecides ==
  ASSUME IInv, [Next]_vars
  PROVE  Quiet \/ \E a, decision : Decides(a, decision)
<1>1. ASSUME NEW d \in Drivers, CreateRun(d)
      PROVE  Quiet
  <2> DEFINE first == Event("run.created", 0, "pending")
             ready == Event("step.ready", 1, "ready")
             tail == IF NumSteps > 0 THEN <<ready>> ELSE <<>>
  <2>1. first \in QuietEvent /\ (NumSteps > 0 => ready \in QuietEvent)
    BY QuietTyped, DomainAssumption
       DEF EventName, DecisionEvents, RunStatus, StepStatus, Steps
  <2>2. \E r, ckpt : CommitWithCheckpoint(r, <<first>> \o tail, ckpt)
    BY <1>1 DEF CreateRun
  <2> HIDE DEF first, ready
  <2>3. <<first>> \o tail \in Seq(QuietEvent)
    BY <2>1, ConcatProperties
  <2> HIDE DEF tail
  <2> QED BY <1>1, <2>2, <2>3, QuietCommit DEF Quiet, CreateRun
<1>2. CASE StoreKept
  BY <1>2, KeptIsQuiet DEF StoreKept
<1> QED BY <1>1, <1>2, StepStores, OtherStoresAreQuiet, DecisionDecides

DecisionEvent(i, decision) ==
  Event(approvalDecisionToEventName(decision), i, decision)

LEMMA DecidedOnceCounts ==
  DecidedOnce <=>
    \A i \in Steps, decision \in Decisions :
      Occurs(log, {DecisionEvent(i, decision)})
        = Occurs(approvals, {[step |-> i, status |-> decision]})
BY DEF DecidedOnce, Occurs, Places, DecisionEvent

\* A decision event tells which decision it was, and of which step.
LEMMA DecisionEventsDiffer ==
  ASSUME NEW i, NEW decision \in Decisions, NEW k, NEW other \in Decisions
  PROVE  /\ DecisionEvent(i, decision).name \in DecisionEvents
         /\ DecisionEvent(i, decision) = DecisionEvent(k, other)
              <=> i = k /\ decision = other
BY DEF DecisionEvent, Event, approvalDecisionToEventName, DecisionEvents,
       Decisions, ApprovalStatus

LEMMA QuietKeepsDecidedOnce ==
  ASSUME IInv, DecidedOnce, Quiet
  PROVE  DecidedOnce'
<1> SUFFICES ASSUME NEW i \in Steps, NEW decision \in Decisions
             PROVE  Occurs(log', {DecisionEvent(i, decision)})
                      = Occurs(approvals', {[step |-> i, status |-> decision]})
  BY DEF DecidedOnce, Occurs, Places, DecisionEvent
<1> DEFINE e == DecisionEvent(i, decision)
           a == [step |-> i, status |-> decision]
<1>1. log \in Seq(EventType) /\ approvals \in Seq(ApprovalType)
  BY DEF IInv, TypeOK
<1>2. PICK events \in Seq(QuietEvent) : log' = log \o events
  BY DEF Quiet
<1>3. events \in Seq(EventType) /\ \A n \in DOMAIN events : events[n] \notin {e}
  BY <1>2, DecisionEventsDiffer DEF QuietEvent
<1>4. Occurs(log', {e}) = Occurs(log, {e})
  BY <1>1, <1>2, <1>3, OccursConcat
<1>5. Occurs(approvals', {a}) = Occurs(approvals, {a})
  <2>1. CASE approvals' = approvals
    BY <2>1
  <2>2. ASSUME NEW k \in Steps,
               approvals' = Append(approvals, [step |-> k, status |-> "pending"])
        PROVE  Occurs(approvals', {a}) = Occurs(approvals, {a})
    <3> DEFINE new == [step |-> k, status |-> "pending"]
    <3>1. new \in ApprovalType /\ new \notin {a}
      BY DEF ApprovalType, ApprovalStatus, Decisions
    <3> HIDE DEF new, a
    <3> QED BY <1>1, <2>2, <3>1, OccursAppend DEF new
  <2> QED BY <2>1, <2>2 DEF Quiet
<1>6. Occurs(log, {e}) = Occurs(approvals, {a})
  BY DecidedOnceCounts
<1> QED BY <1>4, <1>5, <1>6

LEMMA DecidingKeepsDecidedOnce ==
  ASSUME IInv, DecidedOnce, NEW k, NEW made1, Decides(k, made1)
  PROVE  DecidedOnce'
<1> SUFFICES ASSUME NEW i \in Steps, NEW decision \in Decisions
             PROVE  Occurs(log', {DecisionEvent(i, decision)})
                      = Occurs(approvals', {[step |-> i, status |-> decision]})
  BY DEF DecidedOnce, Occurs, Places, DecisionEvent
<1> DEFINE e == DecisionEvent(i, decision)
           a == [step |-> i, status |-> decision]
           s == approvals[k].step
           first == DecisionEvent(s, made1)
           new == [step |-> s, status |-> made1]
<1>1. log \in Seq(EventType) /\ approvals \in Seq(ApprovalType)
  BY DEF IInv, TypeOK
<1>2. /\ k \in DOMAIN approvals /\ approvals[k].status = "pending"
      /\ made1 \in Decisions
      /\ approvals[k] \in ApprovalType /\ s \in Steps
  <2>1. k \in 1 .. Len(approvals) /\ approvals[k] \in ApprovalType
    BY <1>1 DEF Decides
  <2> QED BY <2>1 DEF Decides, ApprovalType
<1>3. PICK events \in Seq(QuietEvent) : log' = log \o (<<first>> \o events)
  BY DEF Decides, DecisionEvent
<1>4. /\ approvals' = [approvals EXCEPT ![k] = new]
      /\ new \in ApprovalType
  <2>1. [approvals[k] EXCEPT !.status = made1] = new
    BY <1>2 DEF ApprovalType
  <2>2. approvals' = [approvals EXCEPT
                        ![k] = [approvals[k] EXCEPT !.status = made1]]
    BY DEF Decides
  <2> QED BY <1>2, <2>1, <2>2 DEF ApprovalType, Decisions
<1>5. first \in EventType
  <2>1. approvalDecisionToEventName(made1) \in EventName
    BY <1>2 DEF approvalDecisionToEventName, EventName
  <2> QED BY <1>2, <2>1, EventTyped DEF DecisionEvent, Decisions
<1>6. first \in {e} <=> new \in {a}
  BY <1>2, DecisionEventsDiffer
<1>7. events \in Seq(EventType) /\ \A n \in DOMAIN events : events[n] \notin {e}
  <2>1. e.name \in DecisionEvents
    BY DecisionEventsDiffer
  <2> HIDE DEF e
  <2> QED BY <1>3, <2>1 DEF QuietEvent
<1>8. approvals[k] \notin {a}
  BY <1>2 DEF Decisions
<1> HIDE DEF e, a, first, new
<1>9. log' = Append(log, first) \o events
  <2>1. log' = (log \o <<first>>) \o events
    BY <1>1, <1>3, <1>5, <1>7, ConcatAssociative
  <2> QED BY <1>1, <1>5, <2>1, AppendIsConcat
<1>10. Occurs(log', {e})
         = IF first \in {e} THEN Occurs(log, {e}) + 1 ELSE Occurs(log, {e})
  <2>1. Append(log, first) \in Seq(EventType)
    BY <1>1, <1>5
  <2>2. Occurs(log', {e}) = Occurs(Append(log, first), {e})
    BY <1>7, <1>9, <2>1, OccursConcat
  <2> QED BY <1>1, <1>5, <2>2, OccursAppend
<1>11. Occurs(approvals', {a})
         = IF new \in {a} THEN Occurs(approvals, {a}) + 1
                          ELSE Occurs(approvals, {a})
  <2>1. /\ approvals' \in Seq(ApprovalType) /\ approvals'[k] = new
        /\ DOMAIN approvals' = DOMAIN approvals
        /\ \A n \in DOMAIN approvals : n # k => approvals'[n] = approvals[n]
    BY <1>1, <1>2, <1>4
  <2> DEFINE some == {a}
  <2>2. approvals[k] \notin some
    BY <1>8
  <2> HIDE DEF some
  <2>3. Occurs(approvals', some)
          = IF approvals'[k] \in some THEN Occurs(approvals, some) + 1
                                      ELSE Occurs(approvals, some)
    BY <1>1, <1>2, <2>1, <2>2, OccursReplace
  <2> QED BY <2>1, <2>3 DEF some
<1>12. Occurs(log, {e}) = Occurs(approvals, {a})
  BY DecidedOnceCounts DEF e, a
<1> QED BY <1>6, <1>10, <1>11, <1>12 DEF e, a

\* An approval is decided at most once and the log tells how, however many
\* drivers decide, crash, or write over each other's rows.
THEOREM ApprovalsDecidedOnce == Spec => []DecidedOnce
<1>1. Init => DecidedOnce
  <2> SUFFICES ASSUME Init, NEW i \in Steps, NEW decision \in Decisions
               PROVE  Occurs(log, {DecisionEvent(i, decision)})
                        = Occurs(approvals, {[step |-> i, status |-> decision]})
    BY DecidedOnceCounts
  <2>1. log = <<>> /\ approvals = <<>>
    BY DEF Init
  <2> QED BY <2>1 DEF Occurs, Places
<1>2. IInv /\ DecidedOnce /\ [Next]_vars => DecidedOnce'
  BY QuietOrDecides, QuietKeepsDecidedOnce, DecidingKeepsDecidedOnce
<1> QED BY <1>1, <1>2, Invariance, PTL DEF Spec

-----------------------------------------------------------------------------
(* What a log tells of a row *)

\* The events whose status LastStatus takes for that of step i (0: the run).
Says(e, i) == /\ e.step = i
              /\ e.status \in IF i = 0 THEN RunStatus ELSE StepStatus
              /\ e.name \notin DecisionEvents \cup {"approval.requested"}

Saying(lg, i) == {n \in DOMAIN lg : Says(lg[n], i)}

HasLast(lg, i) ==
  Saying(lg, i) # {} =>
    \E n \in Saying(lg, i) : \A m \in Saying(lg, i) : m <= n

StatusIn(lg, i, default) ==
  IF Saying(lg, i) = {} THEN default
  ELSE lg[CHOOSE n \in Saying(lg, i) : \A m \in Saying(lg, i) : m <= n].status

Times(lg, name, i) ==
  Cardinality({n \in DOMAIN lg : lg[n].name = name /\ lg[n].step = i})

Is(e, name, i) == e.name = name /\ e.step = i

Worked == {"running", "completed", "paused"}

\* Every attempt was started, every retry was of an attempt that had started,
\* and none came too often.  Until an answer is lost, replaying the log gives
\* the statuses of the row.
Account(lg, r) ==
  /\ \A i \in Steps \cup {0} : HasLast(lg, i)
  /\ lost = 0 => StatusIn(lg, 0, Absent) = r.status
  /\ \A i \in Steps :
       /\ lost = 0 => StatusIn(lg, i, "idle") = r.steps[i].status
       /\ r.steps[i].attempts = Times(lg, "step.started", i)
       /\ Times(lg, "step.retry_scheduled", i) <= r.steps[i].attempts
       /\ Times(lg, "step.retry_scheduled", i) < MaxAttempts
       /\ r.steps[i].status \in Worked =>
            Times(lg, "step.retry_scheduled", i) < r.steps[i].attempts

LEMMA StatusAppend ==
  ASSUME NEW lg \in Seq(EventType), NEW e \in EventType, NEW i, NEW default,
         HasLast(lg, i)
  PROVE  /\ HasLast(Append(lg, e), i)
         /\ StatusIn(Append(lg, e), i, default)
              = IF Says(e, i) THEN e.status ELSE StatusIn(lg, i, default)
<1> DEFINE ap == Append(lg, e)
           n == Len(lg) + 1
<1>1. /\ Len(lg) \in Nat /\ DOMAIN lg = 1 .. Len(lg)
      /\ DOMAIN ap = 1 .. n /\ ap[n] = e
      /\ \A k \in 1 .. Len(lg) : ap[k] = lg[k]
  BY AppendProperties
<1>2. 1 .. n = (1 .. Len(lg)) \cup {n} /\ n \notin 1 .. Len(lg)
  BY <1>1
<1> HIDE DEF ap
<1>3. CASE Says(e, i)
  <2>1. Saying(ap, i) \subseteq 1 .. n /\ n \in Saying(ap, i)
    BY <1>1, <1>2, <1>3 DEF Saying
  <2>2. \A m \in Saying(ap, i) : m <= n
    BY <1>1, <2>1
  <2>3. \A k \in Saying(ap, i) :
          (\A m \in Saying(ap, i) : m <= k) => k = n
    BY <1>1, <2>1
  <2>4. (CHOOSE k \in Saying(ap, i) : \A m \in Saying(ap, i) : m <= k) = n
    BY <2>1, <2>2, <2>3
  <2>5. StatusIn(ap, i, default) = ap[n].status
    BY <2>1, <2>4 DEF StatusIn
  <2> QED BY <1>1, <1>3, <2>1, <2>2, <2>5 DEF ap, HasLast
<1>4. CASE ~Says(e, i)
  <2>1. Saying(ap, i) = Saying(lg, i)
    BY <1>1, <1>2, <1>4 DEF Saying
  <2>2. CASE Saying(lg, i) = {}
    BY <1>4, <2>1, <2>2 DEF StatusIn, HasLast, ap
  <2>3. CASE Saying(lg, i) # {}
    <3> DEFINE k == CHOOSE k \in Saying(lg, i) : \A m \in Saying(lg, i) : m <= k
    <3>1. k \in Saying(lg, i)
      BY <2>3 DEF HasLast
    <3> HIDE DEF k
    <3>2. ap[k] = lg[k]
      BY <1>1, <3>1 DEF Saying
    <3>3. /\ StatusIn(ap, i, default) = ap[k].status
          /\ StatusIn(lg, i, default) = lg[k].status
      BY <2>1, <2>3 DEF StatusIn, k
    <3> QED BY <1>4, <2>1, <3>2, <3>3 DEF ap, HasLast
  <2> QED BY <2>2, <2>3
<1> QED BY <1>3, <1>4

LEMMA TimesAppend ==
  ASSUME NEW lg \in Seq(EventType), NEW e \in EventType, NEW name, NEW i
  PROVE  /\ Times(lg, name, i) \in Nat
         /\ Times(Append(lg, e), name, i)
              = IF Is(e, name, i) THEN Times(lg, name, i) + 1
                                  ELSE Times(lg, name, i)
<1> DEFINE some == {x \in EventType : Is(x, name, i)}
           ap == Append(lg, e)
<1>1. ap \in Seq(EventType)
  BY AppendProperties
<1>2. ASSUME NEW sq \in Seq(EventType)
      PROVE  Times(sq, name, i) = Occurs(sq, some)
  <2>1. \A n \in DOMAIN sq : sq[n] \in EventType
    OBVIOUS
  <2>2. {n \in DOMAIN sq : sq[n].name = name /\ sq[n].step = i}
          = {n \in DOMAIN sq : sq[n] \in some}
    BY <2>1 DEF Is
  <2> QED BY <2>2 DEF Times, Occurs, Places
<1>3. e \in some <=> Is(e, name, i)
  OBVIOUS
<1> HIDE DEF some
<1>4. Occurs(ap, some) = IF e \in some THEN Occurs(lg, some) + 1
                                       ELSE Occurs(lg, some)
  BY OccursAppend
<1>5. Occurs(lg, some) \in Nat
  BY PlacesFinite
<1>6. Times(lg, name, i) = Occurs(lg, some) /\ Times(ap, name, i) = Occurs(ap, some)
  BY <1>1, <1>2
<1> HIDE DEF ap
<1> QED BY <1>3, <1>4, <1>5, <1>6 DEF ap

\* One event more, and a row that moved as the event says, still agree.
LEMMA AccountAppend ==
  ASSUME NEW lg \in Seq(EventType), NEW e \in EventType,
         NEW r \in RunSnapshot, NEW t \in RunSnapshot, Account(lg, r),
         lost = 0 => t.status = IF Says(e, 0) THEN e.status ELSE r.status,
         \A i \in Steps :
           /\ lost = 0 =>
                t.steps[i].status
                  = IF Says(e, i) THEN e.status ELSE r.steps[i].status
           /\ t.steps[i].attempts
                = IF Is(e, "step.started", i) THEN r.steps[i].attempts + 1
                                              ELSE r.steps[i].attempts
           /\ Is(e, "step.retry_scheduled", i) =>
                /\ Times(lg, "step.retry_scheduled", i) < r.steps[i].attempts
                /\ r.steps[i].attempts < MaxAttempts
                /\ t.steps[i].status \notin Worked
           /\ t.steps[i].status \in Worked =>
                Is(e, "step.started", i) \/ r.steps[i].status \in Worked
  PROVE  Account(Append(lg, e), t)
<1> DEFINE ap == Append(lg, e)
<1>1. \A i \in Steps \cup {0} : HasLast(ap, i)
  BY StatusAppend DEF Account
<1>2. lost = 0 => StatusIn(ap, 0, Absent) = t.status
  BY StatusAppend DEF Account
<1>3. ASSUME NEW i \in Steps
      PROVE  /\ lost = 0 => StatusIn(ap, i, "idle") = t.steps[i].status
             /\ t.steps[i].attempts = Times(ap, "step.started", i)
             /\ Times(ap, "step.retry_scheduled", i) <= t.steps[i].attempts
             /\ Times(ap, "step.retry_scheduled", i) < MaxAttempts
             /\ t.steps[i].status \in Worked =>
                  Times(ap, "step.retry_scheduled", i) < t.steps[i].attempts
  <2> DEFINE retries == Times(lg, "step.retry_scheduled", i)
             starts  == Times(lg, "step.started", i)
  <2>1. lost = 0 => StatusIn(ap, i, "idle") = t.steps[i].status
    BY StatusAppend DEF Account
  <2>2. /\ retries \in Nat /\ starts \in Nat
        /\ Times(ap, "step.retry_scheduled", i)
             = IF Is(e, "step.retry_scheduled", i) THEN retries + 1 ELSE retries
        /\ Times(ap, "step.started", i)
             = IF Is(e, "step.started", i) THEN starts + 1 ELSE starts
    BY TimesAppend
  <2>3. /\ r.steps[i].attempts = starts
        /\ retries <= r.steps[i].attempts /\ retries < MaxAttempts
        /\ r.steps[i].status \in Worked => retries < r.steps[i].attempts
    BY DEF Account
  <2>4. ~(Is(e, "step.started", i) /\ Is(e, "step.retry_scheduled", i))
    BY DEF Is
  <2> HIDE DEF ap, retries, starts
  <2>5. t.steps[i].attempts = Times(ap, "step.started", i)
    BY <2>2, <2>3
  <2>6. CASE Is(e, "step.retry_scheduled", i)
    BY <2>1, <2>2, <2>3, <2>4, <2>5, <2>6, DomainAssumption DEF retries
  <2>7. CASE ~Is(e, "step.retry_scheduled", i)
    BY <2>1, <2>2, <2>3, <2>4, <2>5, <2>7, DomainAssumption
  <2> QED BY <2>6, <2>7
<1> QED BY <1>1, <1>2, <1>3 DEF Account

LEMMA AccountSilent ==
  ASSUME NEW lg \in Seq(EventType), NEW r \in RunSnapshot, Account(lg, r),
         NEW e \in EventType,
         e.name \in DecisionEvents \cup {"approval.requested", "checkpoint.saved"},
         e.name = "checkpoint.saved" => e = CheckpointSaved
  PROVE  Account(Append(lg, e), r)
<1>1. \A i \in Steps \cup {0} :
        ~Says(e, i) /\ ~Is(e, "step.started", i) /\ ~Is(e, "step.retry_scheduled", i)
  BY DomainAssumption
     DEF Says, Is, DecisionEvents, CheckpointSaved, Event, RunStatus, Steps
<1> QED BY <1>1, AccountAppend

RunEvents == {"run.created", "run.queued", "run.resumed", "run.started",
              "run.paused", "run.succeeded", "run.failed", "run.cancelled"}

LEMMA AccountRunEvent ==
  ASSUME NEW lg \in Seq(EventType), NEW r \in RunSnapshot, NEW t \in RunSnapshot,
         Account(lg, r), NEW name \in RunEvents, NEW status \in RunStatus,
         t.status = status, t.steps = r.steps
  PROVE  /\ Event(name, 0, status) \in EventType
         /\ Account(Append(lg, Event(name, 0, status)), t)
<1> DEFINE e == Event(name, 0, status)
<1>1. /\ e \in EventType /\ e.status = status
  BY EventTyped DEF RunEvents, EventName, Event
<1>2. /\ Says(e, 0)
      /\ \A i \in Steps : ~Says(e, i)
      /\ \A i \in Steps : /\ ~Is(e, "step.started", i)
                          /\ ~Is(e, "step.retry_scheduled", i)
  BY DomainAssumption DEF Says, Is, Event, Steps, RunEvents, DecisionEvents
<1> HIDE DEF e
<1> QED BY <1>1, <1>2, AccountAppend DEF e

\* t is r with step i moved to status: an attempt more when that is "running".
Moved(r, t, i, status) ==
  /\ t \in RunSnapshot
  /\ t.status = r.status
  /\ t.cursor = r.cursor
  /\ t.steps[i].status = status
  /\ status = "running" => t.steps[i].attempts = r.steps[i].attempts + 1
  /\ status # "running" => t.steps[i].attempts = r.steps[i].attempts
  /\ \A k \in Steps : k # i => t.steps[k] = r.steps[k]

LEMMA StepMoved ==
  ASSUME NEW r \in RunSnapshot, NEW i \in Steps, NEW status \in StepStatus
  PROVE  Moved(r, transitionStepStatus(r, i, status), i, status)
<1> DEFINE t == transitionStepStatus(r, i, status)
           next == [status |-> status,
                    attempts |-> IF status = "running"
                                 THEN r.steps[i].attempts + 1
                                 ELSE r.steps[i].attempts]
<1>1. /\ r.steps \in [Steps -> [status : StepStatus, attempts : Nat]]
      /\ r.cursor \in 1 .. NumSteps + 1
      /\ r.status \in RunStatus \cup {Absent}
  BY DEF RunSnapshot
<1>2. next \in [status : StepStatus, attempts : Nat]
  BY <1>1
<1>3. t = [r EXCEPT !.steps = [r.steps EXCEPT ![i] = next]]
  BY DEF transitionStepStatus
<1>4. /\ t.status = r.status /\ t.cursor = r.cursor
      /\ t.steps = [r.steps EXCEPT ![i] = next]
      /\ t \in RunSnapshot
  BY <1>1, <1>2, <1>3 DEF RunSnapshot
<1>5. /\ t.steps[i] = next
      /\ \A k \in Steps : k # i => t.steps[k] = r.steps[k]
  BY <1>1, <1>4
<1> QED BY <1>4, <1>5 DEF Moved

StepEvents == {"step.ready", "step.started", "step.completed", "step.paused",
               "step.failed", "step.cancelled"}

LEMMA AccountStepEvent ==
  ASSUME NEW lg \in Seq(EventType), NEW r \in RunSnapshot, NEW t \in RunSnapshot,
         Account(lg, r), NEW i \in Steps, NEW status \in StepStatus,
         NEW name \in StepEvents, name = "step.started" <=> status = "running",
         t.status = r.status, t.steps = transitionStepStatus(r, i, status).steps,
         status \in {"completed", "paused"} => r.steps[i].status \in Worked
  PROVE  /\ Event(name, i, status) \in EventType
         /\ Account(Append(lg, Event(name, i, status)), t)
<1> DEFINE e == Event(name, i, status)
<1>1. e \in EventType /\ e.status = status
  BY EventTyped DEF StepEvents, EventName, Event
<1>2. /\ \A k \in Steps : Says(e, k) <=> k = i
      /\ ~Says(e, 0)
      /\ \A k \in Steps : /\ Is(e, "step.started", k) <=> k = i /\ status = "running"
                          /\ ~Is(e, "step.retry_scheduled", k)
  BY DomainAssumption DEF Says, Is, Event, Steps, StepEvents, DecisionEvents
<1>3. /\ t.steps[i].status = status
      /\ t.steps[i].attempts = IF status = "running" THEN r.steps[i].attempts + 1
                                                     ELSE r.steps[i].attempts
      /\ \A k \in Steps : k # i => t.steps[k] = r.steps[k]
  BY StepMoved DEF Moved
<1> HIDE DEF e
<1>4. \A k \in Steps :
        /\ t.steps[k].status = IF Says(e, k) THEN e.status ELSE r.steps[k].status
        /\ t.steps[k].attempts
             = IF Is(e, "step.started", k) THEN r.steps[k].attempts + 1
                                           ELSE r.steps[k].attempts
        /\ t.steps[k].status \in Worked =>
             Is(e, "step.started", k) \/ r.steps[k].status \in Worked
  BY <1>1, <1>2, <1>3 DEF Worked
<1> QED BY <1>1, <1>2, <1>4, AccountAppend DEF e

-----------------------------------------------------------------------------
(* One call at a time: what a call knows of the row *)

NothingPending == \A a \in DOMAIN approvals : approvals[a].status # "pending"

\* What a row may be that a failure of its step is written over: the call's
\* own snapshot, the completion whose second commit raised, or what was stored
\* by a commit whose answer was lost.
WrittenOver(s) ==
  \/ run = s
  \/ failures > 0 /\ run = Completed(s) /\ (s.cursor + 1 \in Steps \/ lost > 0)
  \/ lost > 0 /\ run = Paused(s)
  \/ lost > 0 /\ s.cursor + 1 \in Steps /\ run = NextReady(s)

\* With no other call under way the row is the call's own snapshot, except
\* between the two commits of completeStep and after a commit that raised.
Follows(c) ==
  /\ c.pc \notin Waiting \cup {"commitReadyNext", "commitStepFailure"} =>
       c.snap = run
  /\ c.pc = "commitReadyNext" => run = Completed(c.snap)
  /\ c.pc = "commitStepFailure" => WrittenOver(c.snap)
  /\ c.pc = "commitQueued" => (lost = 0 => NothingPending)

Untouched == run.status = Absent => log = <<>> /\ run = NoRun /\ approvals = <<>>

\* A lost answer is one of the commits that raised an error.
LostCounted == lost \in Nat /\ failures \in Nat /\ lost <= failures

SeqInv == /\ Untouched
          /\ PendingBlocksRun
          /\ CheckpointAtCursor
          /\ run.status # Absent => Account(log, run)
          /\ LostCounted
          /\ \A d \in Drivers : Follows(call[d])

(* What the steps of the engine do to the store, told without the call. *)

RowCreated == /\ run.status = Absent
              /\ \E d \in Drivers : CreateRun(d)

RunMoved ==
  \E status \in {"queued", "running", "paused", "succeeded"}, name \in RunEvents :
    LET e == Event(name, 0, status) IN
    /\ RunMayBecome(run, status)
    /\ status = "succeeded" => run.cursor \notin Steps
    /\ run' = transitionRunStatus(run, status)
    /\ (lost = 0 => NothingPending) /\ approvals' = approvals
    /\ \/ log' = Append(log, e) /\ checkpoint' = checkpoint
       \/ /\ log' = Append(Append(log, e), CheckpointSaved)
          /\ checkpoint'.next = run.cursor
          /\ status \in {"paused", "succeeded"}

AtWork(status) == /\ run.status = "running" /\ run.cursor \in Steps
                  /\ StepMayBecome(run, run.cursor, status)

StepBegun ==
  \E status \in {"ready", "running"}, name \in {"step.ready", "step.started"} :
    /\ name = "step.started" <=> status = "running"
    /\ AtWork(status)
    /\ run' = transitionStepStatus(run, run.cursor, status)
    /\ log' = Append(log, Event(name, run.cursor, status))
    /\ checkpoint' = checkpoint /\ approvals' = approvals

StepPaused ==
  LET lg == Append(Append(log, Event("step.paused", run.cursor, "paused")),
                   Event("run.paused", 0, "paused"))
  IN /\ AtWork("paused")
     /\ run' = Paused(run)
     /\ checkpoint' = PauseCheckpoint(run)
     /\ \/ /\ log' = Append(lg, CheckpointSaved)
           /\ approvals' = approvals
        \/ /\ log' = Append(Append(lg,
                       Event("approval.requested", run.cursor, "pending")),
                       CheckpointSaved)
           /\ approvals' = Append(approvals,
                             [step |-> run.cursor, status |-> "pending"])

StepCompleted ==
  /\ AtWork("completed")
  /\ run' = Completed(run)
  /\ log' = Append(Append(log, Event("step.completed", run.cursor, "completed")),
                   CheckpointSaved)
  /\ checkpoint' = CompletionCheckpoint(run)
  /\ approvals' = approvals

\* s is the row, or the snapshot from before the commit that raised.
FailedFrom(s) ==
  /\ s \in RunSnapshot /\ WellFormed(s)
  /\ s.status = "running" /\ s.cursor \in Steps /\ CursorStatus(s) = "running"
  /\ WrittenOver(s)
  /\ checkpoint' = Checkpoint(s.cursor, s.cursor, FALSE)
  /\ approvals' = approvals
  /\ \/ /\ Retryable(s)
        /\ run' = transitionStepStatus(s, s.cursor, "retry_scheduled")
        /\ log' = Append(Append(Append(log,
                    Event("step.failed", s.cursor, "retry_scheduled")),
                    Event("step.retry_scheduled", s.cursor, "retry_scheduled")),
                    CheckpointSaved)
     \/ /\ ~Retryable(s)
        /\ run' = transitionRunStatus(
                    transitionStepStatus(s, s.cursor, "failed"), "failed")
        /\ log' = Append(Append(Append(log,
                    Event("step.failed", s.cursor, "failed")),
                    Event("run.failed", 0, "failed")), CheckpointSaved)

StepFailed == \E s : FailedFrom(s)

ApprovalDecided ==
  \E a \in DOMAIN approvals, decision \in Decisions :
    LET lg == Append(log, DecisionEvent(approvals[a].step, decision)) IN
    /\ approvals[a].status = "pending" /\ run.status = "paused"
    /\ approvals' = [approvals EXCEPT ![a].status = decision]
    /\ checkpoint' = checkpoint
    /\ \/ decision = "approved" /\ run' = run /\ log' = lg
       \/ /\ decision # "approved" /\ MayCancel(run)
          /\ run' = cancelRunFromApproval(run)
          /\ run.cursor \in Steps
          /\ log' = Append(Append(lg,
                      Event("step.cancelled", run.cursor, "cancelled")),
                      Event("run.cancelled", 0, "cancelled"))
       \/ /\ run' = cancelRunFromApproval(run)
          /\ run.cursor \notin Steps
          /\ log' = Append(lg, Event("run.cancelled", 0, "cancelled"))

Effect == \/ StoreKept \/ RowCreated \/ RunMoved \/ StepBegun \/ StepPaused
          \/ StepCompleted \/ StepFailed \/ ApprovalDecided

\* Nothing is pending while the run is not paused, until an answer is lost.
LEMMA PendingWhilePaused ==
  ASSUME PendingBlocksRun, run.status # "paused"
  PROVE  lost = 0 => NothingPending
BY DEF PendingBlocksRun, BlocksRun, NothingPending

\* The logs the commits write, one event after the other.
LEMMA Unrolled ==
  ASSUME NEW a, NEW b, NEW c, NEW z, log \in Seq(EventType)
  PROVE  /\ log \o <<a>> = Append(log, a)
         /\ log \o Append(<<a>>, z) = Append(Append(log, a), z)
         /\ log \o Append(<<a, b>>, z) = Append(Append(Append(log, a), b), z)
         /\ log \o Append(Append(<<a, b>>, c), z)
              = Append(Append(Append(Append(log, a), b), c), z)
<1>1. log \o <<a>> = Append(log, a)
  OBVIOUS
<1>2. log \o Append(<<a>>, z) = Append(Append(log, a), z)
  OBVIOUS
<1>3. log \o Append(<<a, b>>, z) = Append(Append(Append(log, a), b), z)
  OBVIOUS
<1>4. log \o Append(Append(<<a, b>>, c), z)
        = Append(Append(Append(Append(log, a), b), c), z)
  OBVIOUS
<1> QED BY <1>1, <1>2, <1>3, <1>4

\* Each step of a call has one of these effects.
LEMMA EntryEffect ==
  ASSUME IInv, SeqInv, NEW d \in Drivers,
         StoreQueued(d) \/ StoreRunning(d) \/ StorePause(d) \/ StoreSucceeded(d)
  PROVE  RunMoved
<1> DEFINE c == call[d]
<1>1. /\ c.snap \in RunSnapshot /\ CallInv(c, Len(approvals)) /\ Follows(c)
      /\ log \in Seq(EventType)
  BY CallFacts DEF SeqInv, IInv, TypeOK
<1> HIDE DEF c
<1>2. ASSUME NEW status \in RunStatus, NEW name, c.snap = run
      PROVE  transitionRunStatus(c.snap, status).cursor = run.cursor
  BY <1>1, <1>2 DEF transitionRunStatus, RunSnapshot
<1>3. CASE StoreQueued(d)
  <2>1. /\ c.snap = run /\ (lost = 0 => NothingPending)
        /\ c.snap.status \in {"pending", "paused"}
    BY <1>1, <1>3 DEF StoreQueued, Follows, CallInv, EntryKnows, Waiting, c
  <2>2. RunMayBecome(run, "queued")
    BY <2>1 DEF RunMayBecome, runTransitions
  <2>3. PICK name \in {"run.resumed", "run.queued"} :
          /\ run' = transitionRunStatus(run, "queued")
          /\ log' = log \o <<Event(name, 0, "queued")>>
          /\ checkpoint' = checkpoint /\ approvals' = approvals
    BY <1>3, <2>1 DEF StoreQueued, Commit, c
  <2>4. log' = Append(log, Event(name, 0, "queued"))
    BY <1>1, <2>3, Unrolled
  <2> QED BY <2>1, <2>2, <2>3, <2>4 DEF RunMoved, RunEvents
<1>4. CASE StoreRunning(d)
  <2>1. c.snap = run /\ c.snap.status = "queued"
    BY <1>1, <1>4 DEF StoreRunning, Follows, CallInv, EntryKnows, Waiting, c
  <2>2. RunMayBecome(run, "running")
    BY <2>1 DEF RunMayBecome, runTransitions
  <2>3. lost = 0 => NothingPending
    BY <2>1, PendingWhilePaused DEF SeqInv
  <2>4. /\ run' = transitionRunStatus(run, "running")
        /\ log' = log \o <<Event("run.started", 0, "running")>>
        /\ checkpoint' = checkpoint /\ approvals' = approvals
    BY <1>4, <2>1 DEF StoreRunning, Commit, c
  <2>5. log' = Append(log, Event("run.started", 0, "running"))
    BY <1>1, <2>4, Unrolled
  <2> QED BY <2>2, <2>3, <2>4, <2>5 DEF RunMoved, RunEvents
<1>5. CASE StorePause(d)
  <2>1. c.snap = run /\ c.snap.status \in {"queued", "running"}
    BY <1>1, <1>5 DEF StorePause, Follows, CallInv, EntryKnows, Waiting, c
  <2>2. RunMayBecome(run, "paused")
    BY <2>1 DEF RunMayBecome, runTransitions
  <2>3. lost = 0 => NothingPending
    BY <2>1, PendingWhilePaused DEF SeqInv
  <2>4. transitionRunStatus(c.snap, "paused").cursor = run.cursor
    BY <1>2, <2>1 DEF RunStatus
  <2>5. /\ run' = transitionRunStatus(run, "paused")
        /\ log' = log \o Append(<<Event("run.paused", 0, "paused")>>,
                                CheckpointSaved)
        /\ checkpoint'.next = run.cursor /\ approvals' = approvals
    BY <1>5, <2>1, <2>4 DEF StorePause, CommitWithCheckpoint, Checkpoint, c
  <2>6. log' = Append(Append(log, Event("run.paused", 0, "paused")),
                      CheckpointSaved)
    BY <1>1, <2>5, Unrolled
  <2> QED BY <2>2, <2>3, <2>5, <2>6 DEF RunMoved, RunEvents
<1>6. CASE StoreSucceeded(d)
  <2>1. c.snap = run /\ c.snap.status = "running" /\ run.cursor \notin Steps
    BY <1>1, <1>6
       DEF StoreSucceeded, Follows, CallInv, LoopKnows, LoopPc, Waiting, c
  <2>2. RunMayBecome(run, "succeeded")
    BY <2>1 DEF RunMayBecome, runTransitions
  <2>3. lost = 0 => NothingPending
    BY <2>1, PendingWhilePaused DEF SeqInv
  <2>4. transitionRunStatus(c.snap, "succeeded").cursor = run.cursor
    BY <1>2, <2>1 DEF RunStatus
  <2>5. /\ run' = transitionRunStatus(run, "succeeded")
        /\ log' = log \o Append(<<Event("run.succeeded", 0, "succeeded")>>,
                                CheckpointSaved)
        /\ checkpoint'.next = run.cursor /\ approvals' = approvals
    BY <1>6, <2>1, <2>4 DEF StoreSucceeded, CommitWithCheckpoint, Checkpoint, c
  <2>6. log' = Append(Append(log, Event("run.succeeded", 0, "succeeded")),
                      CheckpointSaved)
    BY <1>1, <2>5, Unrolled
  <2> QED BY <2>1, <2>2, <2>3, <2>5, <2>6 DEF RunMoved, RunEvents
<1> QED BY <1>3, <1>4, <1>5, <1>6

LEMMA DecisionEffect ==
  ASSUME IInv, SeqInv, NEW d \in Drivers, StoreDecision(d)
  PROVE  ApprovalDecided
<1> DEFINE c == call[d]
           a == c.approval
           first == DecisionEvent(approvals[a].step, c.decision)
           second == Event("step.cancelled", run.cursor, "cancelled")
           third == Event("run.cancelled", 0, "cancelled")
<1>1. /\ c.snap = run /\ run.status = "paused"
      /\ a \in 1 .. Len(approvals) /\ c.decision \in Decisions
      /\ c.decision = "approved" \/ MayCancel(run)
      /\ log \in Seq(EventType) /\ approvals \in Seq(ApprovalType)
  BY CallFacts DEF StoreDecision, CallInv, EntryKnows, SeqInv, Follows, Waiting,
                   IInv, TypeOK
<1>2. /\ approvals[a].status = "pending" /\ a \in DOMAIN approvals
      /\ approvals' = [approvals EXCEPT ![a].status = c.decision]
  BY <1>1 DEF DecisionRefused, StoreDecision
<1>3. /\ checkpoint' = checkpoint
      /\ \/ /\ c.decision = "approved"
            /\ run' = run /\ log' = log \o <<first>>
         \/ /\ c.decision # "approved" /\ run.cursor \in Steps
            /\ run' = cancelRunFromApproval(run)
            /\ log' = log \o (<<first>> \o <<second>> \o <<third>>)
         \/ /\ c.decision # "approved" /\ run.cursor \notin Steps
            /\ run' = cancelRunFromApproval(run)
            /\ log' = log \o (<<first>> \o <<>> \o <<third>>)
  BY <1>1 DEF StoreDecision, Commit, DecisionEvent
<1> HIDE DEF first, second, third
<1>4. /\ log \o <<first>> = Append(log, first)
      /\ log \o (<<first>> \o <<second>> \o <<third>>)
           = Append(Append(Append(log, first), second), third)
      /\ log \o (<<first>> \o <<>> \o <<third>>)
           = Append(Append(log, first), third)
  <2>1. log \o <<first>> = Append(log, first)
    BY <1>1
  <2>2. log \o (<<first>> \o <<second>> \o <<third>>)
          = Append(Append(Append(log, first), second), third)
    BY <1>1
  <2>3. log \o (<<first>> \o <<>> \o <<third>>)
          = Append(Append(log, first), third)
    BY <1>1
  <2> QED BY <2>1, <2>2, <2>3
<1> QED BY <1>1, <1>2, <1>3, <1>4 DEF ApprovalDecided, first, second, third

\* A failure is written over what the call's last commit left.
LEMMA FailedCall ==
  ASSUME IInv, SeqInv, NEW d \in Drivers, StoreStepFailure(d)
  PROVE  FailedFrom(call[d].snap)
<1> DEFINE c == call[d]
           s == c.snap
           i == s.cursor
<1>1. /\ s \in RunSnapshot /\ CallInv(c, Len(approvals)) /\ Follows(c)
      /\ WellFormed(s) /\ s.status = "running" /\ i \in Steps
      /\ log \in Seq(EventType)
  <2>1. c.pc \in AtStepPc /\ c.pc \in LoopPc
    BY DEF StoreStepFailure, Rescheduled, Failed, AtStepPc, InStepPc, LoopPc
  <2> QED BY <2>1, CallFacts DEF SeqInv, IInv, TypeOK, CallInv, LoopKnows
<1> HIDE DEF c
<1>2. /\ CursorStatus(s) = "running"
      /\ WrittenOver(s)
  <2>1. c.pc = "commitStepFailure"
    BY DEF StoreStepFailure, Rescheduled, Failed, c
  <2>2. CursorStatus(s) = "running"
    BY <1>1, <2>1 DEF CallInv, LoopKnows, InStepPc
  <2>3. WrittenOver(s)
    BY <1>1, <2>1 DEF Follows
  <2> QED BY <2>2, <2>3
<1> DEFINE e1 == Event("step.failed", i, "retry_scheduled")
           e2 == Event("step.retry_scheduled", i, "retry_scheduled")
           f1 == Event("step.failed", i, "failed")
           f2 == Event("run.failed", 0, "failed")
<1>3. /\ checkpoint' = Checkpoint(i, i, FALSE) /\ approvals' = approvals
      /\ \/ /\ Retryable(s)
            /\ run' = transitionStepStatus(s, i, "retry_scheduled")
            /\ log' = log \o Append(<<e1, e2>>, CheckpointSaved)
         \/ /\ ~Retryable(s)
            /\ run' = transitionRunStatus(
                        transitionStepStatus(s, i, "failed"), "failed")
            /\ log' = log \o Append(<<f1, f2>>, CheckpointSaved)
  BY DEF StoreStepFailure, Rescheduled, Failed, CommitWithCheckpoint, c
<1> HIDE DEF e1, e2, f1, f2, i
<1>4. /\ log \o Append(<<e1, e2>>, CheckpointSaved)
           = Append(Append(Append(log, e1), e2), CheckpointSaved)
      /\ log \o Append(<<f1, f2>>, CheckpointSaved)
           = Append(Append(Append(log, f1), f2), CheckpointSaved)
  BY <1>1, Unrolled
<1> QED BY <1>1, <1>2, <1>3, <1>4 DEF FailedFrom, e1, e2, f1, f2, i, c

LEMMA LoopEffect ==
  ASSUME IInv, SeqInv, NEW d \in Drivers,
         \/ StoreReady(d) \/ StoreStepStarted(d) \/ StoreReadyNext(d)
         \/ StoreAwait(d) \/ StorePauseStep(d)
         \/ StoreComplete(d) \/ StoreStepFailure(d)
  PROVE  StepBegun \/ StepPaused \/ StepCompleted \/ StepFailed
<1> DEFINE c == call[d]
           s == c.snap
           i == s.cursor
<1>1. /\ s \in RunSnapshot /\ CallInv(c, Len(approvals)) /\ Follows(c)
      /\ WellFormed(s) /\ s.status = "running" /\ i \in Steps
      /\ log \in Seq(EventType)
  <2>1. c.pc \in AtStepPc /\ c.pc \in LoopPc
    BY DEF StoreReady, StoreStepStarted, StoreReadyNext, NextReady,
           StoreAwait, StorePauseStep, StoreComplete,
           StoreStepFailure, Rescheduled, Failed, AtStepPc, InStepPc, LoopPc
  <2> QED BY <2>1, CallFacts DEF SeqInv, IInv, TypeOK, CallInv, LoopKnows
<1>2. ASSUME NEW status \in StepStatus
      PROVE  transitionStepStatus(s, i, status).cursor = i
  BY <1>1, StepMoved DEF Moved
<1> HIDE DEF c
<1>3. CASE StoreReady(d)
  <2>1. s = run /\ CursorStatus(s) \in {"idle", "paused", "retry_scheduled"}
    BY <1>1, <1>3 DEF StoreReady, Follows, CallInv, LoopKnows, Waiting, c
  <2>2. AtWork("ready")
    BY <1>1, <2>1 DEF AtWork, StepMayBecome, stepTransitions, CursorStatus
  <2>3. transitionStepStatus(s, i, "ready").cursor = i
    BY <1>2 DEF StepStatus
  <2>4. /\ run' = transitionStepStatus(run, run.cursor, "ready")
        /\ log' = log \o <<Event("step.ready", run.cursor, "ready")>>
        /\ checkpoint' = checkpoint /\ approvals' = approvals
    BY <1>3, <2>1, <2>3 DEF StoreReady, Commit, c
  <2>5. log' = Append(log, Event("step.ready", run.cursor, "ready"))
    BY <1>1, <2>4, Unrolled
  <2> QED BY <2>2, <2>4, <2>5 DEF StepBegun
<1>4. CASE StoreStepStarted(d)
  <2>1. s = run /\ CursorStatus(s) = "ready"
    BY <1>1, <1>4 DEF StoreStepStarted, Follows, CallInv, LoopKnows, Waiting, c
  <2>2. AtWork("running")
    BY <1>1, <2>1 DEF AtWork, StepMayBecome, stepTransitions, CursorStatus
  <2>3. transitionStepStatus(s, i, "running").cursor = i
    BY <1>2 DEF StepStatus
  <2>4. /\ run' = transitionStepStatus(run, run.cursor, "running")
        /\ log' = log \o <<Event("step.started", run.cursor, "running")>>
        /\ checkpoint' = checkpoint /\ approvals' = approvals
    BY <1>4, <2>1, <2>3 DEF StoreStepStarted, Commit, c
  <2>5. log' = Append(log, Event("step.started", run.cursor, "running"))
    BY <1>1, <2>4, Unrolled
  <2> QED BY <2>2, <2>4, <2>5 DEF StepBegun
<1>5. CASE StoreReadyNext(d)
  <2>1. run = Completed(s) /\ i + 1 \in Steps
    BY <1>1, <1>5 DEF StoreReadyNext, NextReady, Follows, CallInv, LoopKnows, c
  <2>2. /\ run \in RunSnapshot /\ run.status = "running" /\ run.cursor = i + 1
        /\ CursorStatus(run) = "idle"
    BY <1>1, <2>1, CompletedWellFormed DEF CursorStatus
  <2>3. AtWork("ready")
    BY <2>1, <2>2 DEF AtWork, StepMayBecome, stepTransitions, CursorStatus
  <2>4. transitionStepStatus(run, run.cursor, "ready").cursor = run.cursor
    <3>1. run.cursor \in Steps /\ "ready" \in StepStatus
      BY <2>1, <2>2 DEF StepStatus
    <3> QED BY <2>2, <3>1, StepMoved DEF Moved
  <2>5. /\ run' = transitionStepStatus(run, run.cursor, "ready")
        /\ log' = log \o <<Event("step.ready", run'.cursor, "ready")>>
        /\ checkpoint' = checkpoint /\ approvals' = approvals
    BY <1>5, <2>1, <2>2 DEF StoreReadyNext, NextReady, Commit, c
  <2>6. log' = Append(log, Event("step.ready", run.cursor, "ready"))
    BY <1>1, <2>4, <2>5, Unrolled
  <2> QED BY <2>3, <2>5, <2>6 DEF StepBegun
<1>6. CASE StoreAwait(d) \/ StorePauseStep(d)
  <2>1. s = run /\ CursorStatus(s) = "running"
    BY <1>1, <1>6 DEF StoreAwait, StorePauseStep, Follows, CallInv,
                      LoopKnows, InStepPc, Waiting, c
  <2>2. AtWork("paused")
    BY <1>1, <2>1 DEF AtWork, StepMayBecome, stepTransitions, CursorStatus
  <2> DEFINE e1 == Event("step.paused", run.cursor, "paused")
             e2 == Event("run.paused", 0, "paused")
             e3 == Event("approval.requested", run.cursor, "pending")
  <2>3. /\ run' = Paused(run) /\ checkpoint' = PauseCheckpoint(run)
        /\ \/ /\ log' = log \o Append(<<e1, e2>>, CheckpointSaved)
              /\ approvals' = approvals
           \/ /\ log' = log \o Append(Append(<<e1, e2>>, e3), CheckpointSaved)
              /\ approvals' = Append(approvals,
                                [step |-> run.cursor, status |-> "pending"])
    BY <1>6, <2>1 DEF StoreAwait, StorePauseStep, CommitWithCheckpoint,
                      PauseEvents, c
  <2> HIDE DEF e1, e2, e3
  <2>4. /\ log \o Append(<<e1, e2>>, CheckpointSaved)
             = Append(Append(Append(log, e1), e2), CheckpointSaved)
        /\ log \o Append(Append(<<e1, e2>>, e3), CheckpointSaved)
             = Append(Append(Append(Append(log, e1), e2), e3), CheckpointSaved)
    BY <1>1, Unrolled
  <2> QED BY <2>2, <2>3, <2>4 DEF StepPaused, e1, e2, e3
<1>7. CASE StoreComplete(d)
  <2>1. s = run /\ CursorStatus(s) = "running"
    BY <1>1, <1>7 DEF StoreComplete, Follows, CallInv, LoopKnows, InStepPc,
                      Waiting, c
  <2>2. AtWork("completed")
    BY <1>1, <2>1 DEF AtWork, StepMayBecome, stepTransitions, CursorStatus
  <2> DEFINE e == Event("step.completed", run.cursor, "completed")
  <2>3. /\ run' = Completed(run) /\ checkpoint' = CompletionCheckpoint(run)
        /\ log' = log \o Append(<<e>>, CheckpointSaved)
        /\ approvals' = approvals
    BY <1>7, <2>1 DEF StoreComplete, CommitWithCheckpoint, c
  <2> HIDE DEF e
  <2>4. log' = Append(Append(log, e), CheckpointSaved)
    BY <1>1, <2>3, Unrolled
  <2> QED BY <2>2, <2>3, <2>4 DEF StepCompleted, e
<1>8. CASE StoreStepFailure(d)
  BY <1>8, FailedCall DEF StepFailed
<1> QED BY <1>3, <1>4, <1>5, <1>6, <1>7, <1>8

LEMMA EveryStepHasEffect ==
  ASSUME IInv, SeqInv, [Next]_vars
  PROVE  Effect
<1>1. ASSUME NEW d \in Drivers, CreateRun(d)
      PROVE  RowCreated
  BY <1>1 DEF RowCreated, CreateRun
<1>2. ASSUME NEW d \in Drivers, Stores(d)
      PROVE  Effect
  BY <1>2, EntryEffect, DecisionEffect, LoopEffect DEF Stores, Effect
<1> QED BY <1>1, <1>2, StepStores DEF Effect

-----------------------------------------------------------------------------
(* What the effects preserve *)

LEMMA RowFacts ==
  ASSUME IInv
  PROVE  /\ run \in RunSnapshot /\ WellFormed(run) /\ log \in Seq(EventType)
         /\ approvals \in Seq(ApprovalType) /\ checkpoint \in CheckpointType
BY DEF IInv, TypeOK, RunWellFormed

\* The rows the engine writes, field by field.
LEMMA RunMoveFields ==
  ASSUME NEW r \in RunSnapshot, NEW status \in RunStatus
  PROVE  LET t == transitionRunStatus(r, status) IN
         /\ t \in RunSnapshot /\ t.status = status
         /\ t.cursor = r.cursor /\ t.steps = r.steps
BY DEF transitionRunStatus, RunSnapshot

LEMMA PausedFields ==
  ASSUME NEW r \in RunSnapshot, r.cursor \in Steps
  PROVE  /\ Paused(r) \in RunSnapshot
         /\ Paused(r).status = "paused" /\ Paused(r).cursor = r.cursor
         /\ Paused(r).steps = transitionStepStatus(r, r.cursor, "paused").steps
         /\ Paused(r).steps[r.cursor].status = "paused"
<1>1. "paused" \in StepStatus /\ "paused" \in RunStatus
  BY DEF StepStatus, RunStatus
<1> QED BY <1>1, StepMoved, RunMoveFields DEF Moved, Paused

LEMMA CompletedFields ==
  ASSUME NEW r \in RunSnapshot, r.cursor \in Steps
  PROVE  /\ Completed(r) \in RunSnapshot
         /\ Completed(r).status = r.status /\ Completed(r).cursor = r.cursor + 1
         /\ Completed(r).steps
              = transitionStepStatus(r, r.cursor, "completed").steps
<1> DEFINE u == transitionStepStatus(r, r.cursor, "completed")
<1>1. u \in RunSnapshot /\ u.status = r.status
  BY StepMoved DEF Moved, StepStatus
<1>2. r.cursor + 1 \in 1 .. NumSteps + 1
  BY DomainAssumption DEF Steps
<1>3. Completed(r) = [u EXCEPT !.cursor = r.cursor + 1]
  BY DEF Completed, advanceRunCursor
<1> HIDE DEF u
<1> QED BY <1>1, <1>2, <1>3 DEF RunSnapshot, u

LEMMA NextReadyFields ==
  ASSUME NEW r \in RunSnapshot, r.cursor \in Steps, r.cursor + 1 \in Steps
  PROVE  /\ NextReady(r) \in RunSnapshot
         /\ NextReady(r).status = r.status
         /\ NextReady(r).cursor = r.cursor + 1
         /\ Moved(Completed(r), NextReady(r), r.cursor + 1, "ready")
<1>1. /\ Completed(r) \in RunSnapshot /\ Completed(r).status = r.status
      /\ Completed(r).cursor = r.cursor + 1
  BY CompletedFields
<1>2. Moved(Completed(r), NextReady(r), r.cursor + 1, "ready")
  BY <1>1, StepMoved DEF NextReady, StepStatus
<1> QED BY <1>1, <1>2 DEF Moved

LEMMA CancelledPastSteps ==
  ASSUME NEW r \in RunSnapshot, r.cursor \notin Steps
  PROVE  LET t == cancelRunFromApproval(r) IN
         /\ t \in RunSnapshot /\ t.status = "cancelled" /\ t.cursor = r.cursor
         /\ t.steps = r.steps
BY RunMoveFields DEF cancelRunFromApproval, RunStatus

LEMMA CancelledFields ==
  ASSUME NEW r \in RunSnapshot, r.cursor \in Steps
  PROVE  LET t == cancelRunFromApproval(r) IN
         /\ t \in RunSnapshot /\ t.status = "cancelled" /\ t.cursor = r.cursor
         /\ t.steps = transitionStepStatus(r, r.cursor, "cancelled").steps
<1> DEFINE u == transitionStepStatus(r, r.cursor, "cancelled")
<1>1. "cancelled" \in StepStatus /\ "cancelled" \in RunStatus
  BY DEF StepStatus, RunStatus
<1>2. u \in RunSnapshot /\ u.cursor = r.cursor
  BY <1>1, StepMoved DEF Moved
<1>3. cancelRunFromApproval(r) = transitionRunStatus(u, "cancelled")
  BY DEF cancelRunFromApproval
<1> HIDE DEF u
<1>4. cancelRunFromApproval(r).steps = u.steps
  BY <1>1, <1>2, <1>3, RunMoveFields
<1> QED BY <1>1, <1>2, <1>3, <1>4, RunMoveFields DEF u

\* Decisions are taken while the run is paused at a step, until an answer is
\* lost.
LEMMA DecidedAtStep ==
  ASSUME IInv, SeqInv, ApprovalDecided, lost = 0
  PROVE  run.cursor \in Steps
<1>1. PICK a \in DOMAIN approvals : approvals[a].status = "pending"
  BY DEF ApprovalDecided
<1>2. approvals[a] \in ApprovalType
  BY RowFacts
<1>3. run.cursor = approvals[a].step
  BY <1>1 DEF SeqInv, PendingBlocksRun, BlocksRun
<1> QED BY <1>2, <1>3 DEF ApprovalType

\* A row that a failure is written over is running, or an answer was lost.
LEMMA FailedFromStatus ==
  ASSUME NEW s, FailedFrom(s)
  PROVE  /\ run.status \in {"running", "paused"}
         /\ lost = 0 => run.status = "running"
<1>1. s \in RunSnapshot /\ s.cursor \in Steps /\ s.status = "running"
  BY DEF FailedFrom
<1>2. Completed(s).status = "running" /\ Paused(s).status = "paused"
  BY <1>1, CompletedFields, PausedFields
<1>3. s.cursor + 1 \in Steps => NextReady(s).status = "running"
  BY <1>1, NextReadyFields
<1> QED BY <1>1, <1>2, <1>3 DEF FailedFrom, WrittenOver

LEMMA EffectKeepsPending ==
  ASSUME IInv, SeqInv, Effect, lost' = 0 => lost = 0
  PROVE  PendingBlocksRun'
<1> SUFFICES ASSUME lost = 0
             PROVE  PendingBlocksRun'
  BY DEF PendingBlocksRun
<1>1. ASSUME NothingPending, approvals' = approvals
      PROVE  PendingBlocksRun'
  BY <1>1 DEF NothingPending, PendingBlocksRun, BlocksRun
<1>2. run.status = "running" => NothingPending
  BY PendingWhilePaused DEF SeqInv
<1>3. CASE StoreKept
  BY <1>3 DEF StoreKept, SeqInv, PendingBlocksRun, BlocksRun
<1>4. CASE RowCreated
  <2>1. approvals = <<>> /\ approvals' = approvals
    BY <1>4 DEF RowCreated, CreateRun, SeqInv, Untouched
  <2> QED BY <2>1 DEF PendingBlocksRun, BlocksRun
<1>5. CASE RunMoved
  BY <1>1, <1>5 DEF RunMoved
<1>6. CASE StepBegun \/ StepCompleted \/ StepFailed
  <2>1. run.status = "running" /\ approvals' = approvals
    BY <1>6, FailedFromStatus
       DEF StepBegun, StepCompleted, StepFailed, AtWork, FailedFrom
  <2> QED BY <1>1, <1>2, <2>1
<1>7. CASE StepPaused
  <2>1. /\ NothingPending /\ run.cursor \in Steps /\ run' = Paused(run)
        /\ \/ approvals' = approvals
           \/ approvals' = Append(approvals,
                             [step |-> run.cursor, status |-> "pending"])
    BY <1>2, <1>7 DEF StepPaused, AtWork
  <2>2. CASE approvals' = Append(approvals,
                             [step |-> run.cursor, status |-> "pending"])
    <3> DEFINE new == [step |-> run.cursor, status |-> "pending"]
               n == Len(approvals) + 1
    <3>1. /\ run'.status = "paused" /\ run'.cursor = run.cursor
          /\ run'.steps[run.cursor].status = "paused"
      BY <2>1, RowFacts, PausedFields
    <3>2. new \in ApprovalType
      BY <2>1 DEF ApprovalType, ApprovalStatus
    <3>3. /\ DOMAIN approvals' = 1 .. n /\ approvals'[n] = new
          /\ Len(approvals) \in Nat /\ DOMAIN approvals = 1 .. Len(approvals)
          /\ \A a \in 1 .. Len(approvals) : approvals'[a] = approvals[a]
      BY <2>2, <3>2, RowFacts, AppendProperties
    <3>4. \A a \in DOMAIN approvals' : approvals'[a].status = "pending" => a = n
      BY <2>1, <3>3 DEF NothingPending
    <3> QED BY <3>1, <3>3, <3>4 DEF PendingBlocksRun, BlocksRun
  <2> QED BY <1>1, <2>1, <2>2
<1>8. CASE ApprovalDecided
  <2>1. PICK a \in DOMAIN approvals, decision \in Decisions :
          /\ approvals[a].status = "pending"
          /\ approvals' = [approvals EXCEPT ![a].status = decision]
    BY <1>8 DEF ApprovalDecided
  <2>2. \A b \in DOMAIN approvals : approvals[b].status = "pending" => b = a
    BY <2>1 DEF SeqInv, PendingBlocksRun, BlocksRun
  <2>3. /\ DOMAIN approvals' = DOMAIN approvals
        /\ approvals'[a].status = decision
        /\ \A b \in DOMAIN approvals : b # a => approvals'[b] = approvals[b]
    <3>1. approvals[a] \in ApprovalType
      BY <2>1, RowFacts
    <3> QED BY <2>1, <3>1 DEF ApprovalType
  <2>4. \A b \in DOMAIN approvals' : approvals'[b].status # "pending"
    BY <2>2, <2>3 DEF Decisions
  <2> QED BY <2>4 DEF PendingBlocksRun, BlocksRun
<1> QED BY <1>3, <1>4, <1>5, <1>6, <1>7, <1>8 DEF Effect

LEMMA EffectKeepsCheckpoint ==
  ASSUME IInv, SeqInv, Effect
  PROVE  CheckpointAtCursor'
<1>1. run \in RunSnapshot /\ checkpoint.next = run.cursor
  BY RowFacts DEF SeqInv, CheckpointAtCursor
<1>2. CASE StoreKept
  BY <1>1, <1>2 DEF StoreKept, CheckpointAtCursor
<1>3. CASE RowCreated
  BY <1>3 DEF RowCreated, CreateRun, CommitWithCheckpoint, Checkpoint,
              createWorkflowRunSnapshot, CheckpointAtCursor
<1>4. CASE RunMoved
  BY <1>1, <1>4, RunMoveFields DEF RunMoved, CheckpointAtCursor, RunStatus
<1>5. CASE StepBegun
  <2>1. PICK status \in {"ready", "running"} :
          /\ run.cursor \in Steps /\ checkpoint' = checkpoint
          /\ run' = transitionStepStatus(run, run.cursor, status)
    BY <1>5 DEF StepBegun, AtWork
  <2>2. status \in StepStatus
    BY DEF StepStatus
  <2>3. run'.cursor = run.cursor
    BY <1>1, <2>1, <2>2, StepMoved DEF Moved
  <2> QED BY <1>1, <2>1, <2>3 DEF CheckpointAtCursor
<1>6. CASE StepPaused
  BY <1>1, <1>6, PausedFields
     DEF StepPaused, AtWork, CheckpointAtCursor, PauseCheckpoint, Checkpoint
<1>7. CASE StepCompleted
  BY <1>1, <1>7, CompletedFields
     DEF StepCompleted, AtWork, CheckpointAtCursor, CompletionCheckpoint, Checkpoint
<1>8. CASE StepFailed
  <2>1. PICK s : FailedFrom(s)
    BY <1>8 DEF StepFailed
  <2>2. /\ s \in RunSnapshot /\ s.cursor \in Steps
        /\ checkpoint'.next = s.cursor
    BY <2>1 DEF FailedFrom, Checkpoint
  <2>3. \A status \in {"retry_scheduled", "failed"} :
          /\ transitionStepStatus(s, s.cursor, status) \in RunSnapshot
          /\ transitionStepStatus(s, s.cursor, status).cursor = s.cursor
    <3>1. {"retry_scheduled", "failed"} \subseteq StepStatus
      BY DEF StepStatus
    <3>2. \A status \in StepStatus :
            Moved(s, transitionStepStatus(s, s.cursor, status), s.cursor, status)
      BY <2>2, StepMoved
    <3> QED BY <3>1, <3>2 DEF Moved
  <2>4. run'.cursor = s.cursor
    BY <2>1, <2>3, RunMoveFields DEF FailedFrom, RunStatus
  <2> QED BY <2>2, <2>4 DEF CheckpointAtCursor
<1>9. CASE ApprovalDecided
  <2>1. run' = run \/ run' = cancelRunFromApproval(run)
    BY <1>9 DEF ApprovalDecided
  <2>2. cancelRunFromApproval(run).cursor = run.cursor
    BY <1>1, CancelledFields, CancelledPastSteps
  <2> QED BY <1>1, <1>9, <2>1, <2>2 DEF ApprovalDecided, CheckpointAtCursor
<1> QED BY <1>2, <1>3, <1>4, <1>5, <1>6, <1>7, <1>8, <1>9 DEF Effect

\* The first events tell the first row.
LEMMA CreatedAccount ==
  ASSUME IInv, SeqInv, RowCreated
  PROVE  run'.status # Absent /\ Account(log', run')
<1> DEFINE r == createWorkflowRunSnapshot
           idle == [i \in Steps |-> [status |-> "idle", attempts |-> 0]]
           none == [r EXCEPT !.status = Absent, !.steps = idle]
           only == [r EXCEPT !.steps = idle]
           e1 == Event("run.created", 0, "pending")
           e2 == Event("step.ready", 1, "ready")
           lg == Append(<<>>, e1)
<1>1. /\ run' = r /\ log = <<>>
      /\ log' = log \o Append(<<e1>> \o (IF NumSteps > 0 THEN <<e2>> ELSE <<>>),
                              CheckpointSaved)
  BY DEF RowCreated, CreateRun, CommitWithCheckpoint, SeqInv, Untouched
<1>2. /\ r \in RunSnapshot /\ r.status = "pending"
      /\ r.steps = [i \in Steps |-> [status |-> IF i = 1 THEN "ready" ELSE "idle",
                                     attempts |-> 0]]
  BY CreatedWellFormed DEF createWorkflowRunSnapshot, createWorkflowStepSnapshot
<1>3. idle \in [Steps -> [status : StepStatus, attempts : Nat]]
  BY DEF StepStatus
<1>4. /\ none \in RunSnapshot /\ none.status = Absent /\ none.steps = idle
      /\ only \in RunSnapshot /\ only.status = "pending" /\ only.steps = idle
  BY <1>2, <1>3 DEF RunSnapshot
<1>5. <<>> \in Seq(EventType) /\ e1 \in EventType /\ CheckpointSaved \in EventType
      /\ (NumSteps > 0 => 1 \in Steps /\ e2 \in EventType)
  BY EventTyped, DomainAssumption
     DEF EventName, RunStatus, StepStatus, CheckpointSaved, Steps
<1> HIDE DEF r, none, only, e1, e2
<1>6. Account(<<>>, none)
  <2>1. \A i : Saying(<<>>, i) = {}
    BY DEF Saying
  <2>2. \A name, i : Times(<<>>, name, i) = 0
    BY FS_EmptySet DEF Times
  <2>3. \A i \in Steps : none.steps[i] = [status |-> "idle", attempts |-> 0]
    BY <1>4
  <2> QED BY <1>4, <2>1, <2>2, <2>3, DomainAssumption
          DEF Account, HasLast, StatusIn, Worked
<1>7. Account(lg, only)
  BY <1>4, <1>5, <1>6, AccountRunEvent DEF RunEvents, RunStatus, e1
<1>8. lg \in Seq(EventType)
  BY <1>5
<1> HIDE DEF lg
<1>9. CASE NumSteps > 0
  <2> DEFINE t == transitionStepStatus(only, 1, "ready")
  <2>1. 1 \in Steps /\ "ready" \in StepStatus
    BY <1>5, <1>9 DEF StepStatus
  <2>2. r.steps = t.steps
    <3>1. /\ t \in RunSnapshot /\ t.steps[1].status = "ready"
          /\ t.steps[1].attempts = only.steps[1].attempts
          /\ \A k \in Steps : k # 1 => t.steps[k] = only.steps[k]
      BY <1>4, <2>1, StepMoved DEF Moved
    <3>2. t.steps \in [Steps -> [status : StepStatus, attempts : Nat]]
      BY <3>1 DEF RunSnapshot
    <3> HIDE DEF t
    <3>3. t.steps[1] = [status |-> "ready", attempts |-> 0]
      <4>1. t.steps[1] \in [status : StepStatus, attempts : Nat]
        BY <2>1, <3>2
      <4> QED BY <1>4, <2>1, <3>1, <4>1
    <3>4. \A k \in Steps : t.steps[k] = r.steps[k]
      BY <1>2, <1>4, <3>1, <3>3
    <3> QED BY <1>2, <3>2, <3>4 DEF RunSnapshot
  <2>3. Account(Append(lg, e2), r)
    BY <1>2, <1>4, <1>7, <1>8, <2>1, <2>2, AccountStepEvent DEF StepEvents, e2
  <2>4. Append(lg, e2) \in Seq(EventType)
    BY <1>5, <1>8, <1>9
  <2>5. Account(Append(Append(lg, e2), CheckpointSaved), r)
    BY <1>2, <1>5, <2>3, <2>4, AccountSilent DEF CheckpointSaved, Event
  <2>6. log' = Append(Append(lg, e2), CheckpointSaved)
    BY <1>1, <1>9 DEF lg
  <2> QED BY <1>1, <1>2, <2>5, <2>6 DEF Absent
<1>10. CASE ~(NumSteps > 0)
  <2>1. Steps = {}
    BY <1>10, DomainAssumption DEF Steps
  <2>2. Account(lg, r)
    BY <1>2, <1>4, <1>7, <2>1 DEF Account
  <2>3. Account(Append(lg, CheckpointSaved), r)
    BY <1>2, <1>5, <1>8, <2>2, AccountSilent DEF CheckpointSaved, Event
  <2>4. log' = Append(lg, CheckpointSaved)
    BY <1>1, <1>10 DEF lg
  <2> QED BY <1>1, <1>2, <2>3, <2>4 DEF Absent
<1> QED BY <1>9, <1>10

LEMMA CheckpointEvent == CheckpointSaved \in EventType
BY EventTyped DEF CheckpointSaved, EventName

\* A checkpoint's own event changes nothing.
LEMMA AccountSaved ==
  ASSUME NEW lg \in Seq(EventType), NEW r \in RunSnapshot, Account(lg, r)
  PROVE  Account(Append(lg, CheckpointSaved), r)
BY CheckpointEvent, AccountSilent DEF CheckpointSaved, Event

\* A row that a failure is written over: the attempts are the snapshot's, and
\* the step was at work.
LEMMA WrittenOverFields ==
  ASSUME NEW s \in RunSnapshot, WellFormed(s), s.status = "running",
         s.cursor \in Steps, CursorStatus(s) = "running", WrittenOver(s)
  PROVE  /\ run.steps[s.cursor].status \in Worked
         /\ \A k \in Steps :
              /\ run.steps[k].attempts = s.steps[k].attempts
              /\ k # s.cursor => \/ run.steps[k].status = s.steps[k].status
                                 \/ lost > 0 /\ s.steps[k].status \notin Worked
         /\ lost = 0 => run.status = s.status
<1> DEFINE i == s.cursor
           done == transitionStepStatus(s, i, "completed")
           halt == transitionStepStatus(s, i, "paused")
<1>1. Moved(s, done, i, "completed") /\ Moved(s, halt, i, "paused")
  BY StepMoved DEF StepStatus
<1> HIDE DEF done, halt
<1>2. /\ Completed(s).status = s.status /\ Completed(s).steps = done.steps
      /\ Paused(s).steps = halt.steps
  BY CompletedFields, PausedFields DEF done, halt
<1>3. CASE run = s
  BY <1>3 DEF CursorStatus, Worked
<1>4. CASE run = Completed(s)
  BY <1>1, <1>2, <1>4 DEF Moved, Worked
<1>5. CASE lost > 0 /\ run = Paused(s)
  BY <1>1, <1>2, <1>5 DEF Moved, Worked
<1>6. CASE lost > 0 /\ i + 1 \in Steps /\ run = NextReady(s)
  <2>1. /\ Moved(Completed(s), run, i + 1, "ready")
        /\ i + 1 # i
    BY <1>6, NextReadyFields DEF Steps
  <2>2. \A k \in Steps : k # i + 1 => run.steps[k] = done.steps[k]
    BY <1>2, <2>1 DEF Moved
  <2>3. run.steps[i + 1].attempts = done.steps[i + 1].attempts
    BY <1>2, <2>1 DEF Moved
  <2>4. s.steps[i + 1].status \notin Worked
    <3>1. i + 1 \in Steps /\ i + 1 > i
      BY <1>6, <2>1 DEF Steps
    <3> QED BY <3>1 DEF WellFormed, AheadOfCursor, Worked
  <2> QED BY <1>1, <1>6, <2>1, <2>2, <2>3, <2>4 DEF Moved, Worked
<1> QED BY <1>3, <1>4, <1>5, <1>6 DEF WrittenOver

LEMMA FailureAccount ==
  ASSUME IInv, SeqInv, Account(log, run), NEW s, FailedFrom(s)
  PROVE  Account(log', run')
<1> DEFINE i == s.cursor
           e1 == Event("step.failed", i, "retry_scheduled")
           e2 == Event("step.retry_scheduled", i, "retry_scheduled")
           f1 == Event("step.failed", i, "failed")
           f2 == Event("run.failed", 0, "failed")
           retry == transitionStepStatus(s, i, "retry_scheduled")
           fail == transitionStepStatus(s, i, "failed")
           last == transitionRunStatus(fail, "failed")
<1>1. /\ s \in RunSnapshot /\ s.status = "running" /\ i \in Steps
      /\ WellFormed(s) /\ CursorStatus(s) = "running" /\ WrittenOver(s)
      /\ log \in Seq(EventType) /\ run \in RunSnapshot
  BY RowFacts DEF FailedFrom
<1>2. /\ run.steps[i].status \in Worked
      /\ \A k \in Steps :
           /\ run.steps[k].attempts = s.steps[k].attempts
           /\ k # i => \/ run.steps[k].status = s.steps[k].status
                       \/ lost > 0 /\ s.steps[k].status \notin Worked
      /\ lost = 0 => run.status = s.status
  BY <1>1, WrittenOverFields
<1>3. Moved(s, retry, i, "retry_scheduled") /\ Moved(s, fail, i, "failed")
  BY <1>1, StepMoved DEF StepStatus
<1>4. /\ retry \in RunSnapshot /\ retry.steps[i].status = "retry_scheduled"
      /\ retry.steps[i].attempts = s.steps[i].attempts
      /\ fail \in RunSnapshot
  BY <1>3 DEF Moved
<1>5. Times(log, "step.retry_scheduled", i) < run.steps[i].attempts
  BY <1>1, <1>2 DEF Account
\* The first event of a failure, and the step with the status it tells.
<1>6. ASSUME NEW status \in {"retry_scheduled", "failed"}, NEW t,
             Moved(s, t, i, status)
      PROVE  LET e == Event("step.failed", i, status) IN
             e \in EventType /\ Account(Append(log, e), t)
  <2> DEFINE e == Event("step.failed", i, status)
  <2>1. e \in EventType /\ e.status = status
    BY <1>1, EventTyped DEF EventName, StepStatus, Event
  <2>2. /\ ~Says(e, 0)
        /\ \A k \in Steps : /\ Says(e, k) <=> k = i
                            /\ ~Is(e, "step.retry_scheduled", k)
                            /\ ~Is(e, "step.started", k)
    BY <1>1, DomainAssumption
       DEF Says, Is, Event, Steps, DecisionEvents, StepStatus
  <2> HIDE DEF e
  <2>3. ASSUME NEW k \in Steps
        PROVE  /\ lost = 0 => t.steps[k].status = IF Says(e, k) THEN e.status
                                             ELSE run.steps[k].status
               /\ t.steps[k].attempts = run.steps[k].attempts
               /\ t.steps[k].status \in Worked => run.steps[k].status \in Worked
    BY <1>2, <1>6, <2>1, <2>2 DEF Moved, Worked
  <2>4. lost = 0 => t.status = run.status
    BY <1>2, <1>6 DEF Moved
  <2>5. t \in RunSnapshot
    BY <1>6 DEF Moved
  <2>6. Account(Append(log, e), t)
    BY <1>1, <2>1, <2>2, <2>3, <2>4, <2>5, AccountAppend
  <2> QED BY <2>1, <2>6 DEF e
<1> HIDE DEF retry, fail, i
<1>7. CASE /\ Retryable(s) /\ run' = retry
           /\ log' = Append(Append(Append(log, e1), e2), CheckpointSaved)
  <2>1. e1 \in EventType /\ Account(Append(log, e1), retry)
    BY <1>3, <1>6
  <2>2. Times(Append(log, e1), "step.retry_scheduled", i) < retry.steps[i].attempts
    <3>1. ~Is(e1, "step.retry_scheduled", i)
      BY DEF Is, Event
    <3> QED BY <1>1, <1>2, <1>4, <1>5, <2>1, <3>1, TimesAppend
  <2>3. e2 \in EventType /\ e2.status = "retry_scheduled"
    BY <1>1, EventTyped DEF EventName, StepStatus, Event
  <2>4. /\ ~Says(e2, 0)
        /\ \A k \in Steps : /\ Says(e2, k) <=> k = i
                            /\ Is(e2, "step.retry_scheduled", k) <=> k = i
                            /\ ~Is(e2, "step.started", k)
    BY <1>1, DomainAssumption
       DEF Says, Is, Event, Steps, DecisionEvents, StepStatus
  <2>5. retry.steps[i].attempts < MaxAttempts
    BY <1>4, <1>7 DEF Retryable, i
  <2>6. Append(log, e1) \in Seq(EventType)
    BY <1>1, <2>1
  <2> HIDE DEF e1, e2
  <2>7. Account(Append(Append(log, e1), e2), retry)
    <3>1. retry.status = IF Says(e2, 0) THEN e2.status ELSE retry.status
      BY <2>4
    <3>2. ASSUME NEW k \in Steps
          PROVE  /\ retry.steps[k].status
                      = IF Says(e2, k) THEN e2.status ELSE retry.steps[k].status
                 /\ ~Is(e2, "step.started", k)
                 /\ Is(e2, "step.retry_scheduled", k) =>
                      /\ Times(Append(log, e1), "step.retry_scheduled", k)
                           < retry.steps[k].attempts
                      /\ retry.steps[k].attempts < MaxAttempts
                      /\ retry.steps[k].status \notin Worked
      BY <1>4, <2>2, <2>3, <2>4, <2>5 DEF Worked
    <3> QED BY <1>4, <2>1, <2>3, <2>6, <3>1, <3>2, AccountAppend
  <2>8. Append(Append(log, e1), e2) \in Seq(EventType)
    BY <2>3, <2>6
  <2> QED BY <1>4, <1>7, <2>7, <2>8, AccountSaved
<1>8. CASE /\ run' = last
           /\ log' = Append(Append(Append(log, f1), f2), CheckpointSaved)
  <2>1. f1 \in EventType /\ Account(Append(log, f1), fail)
    BY <1>3, <1>6
  <2>2. Append(log, f1) \in Seq(EventType)
    BY <1>1, <2>1
  <2>3. last \in RunSnapshot /\ last.status = "failed" /\ last.steps = fail.steps
    BY <1>4, RunMoveFields DEF RunStatus
  <2> HIDE DEF f1, last
  <2>4. f2 \in EventType /\ Account(Append(Append(log, f1), f2), last)
    BY <1>4, <2>1, <2>2, <2>3, AccountRunEvent DEF RunEvents, RunStatus
  <2>5. Append(Append(log, f1), f2) \in Seq(EventType)
    BY <2>2, <2>4
  <2> QED BY <1>8, <2>3, <2>4, <2>5, AccountSaved
<1> QED BY <1>7, <1>8 DEF FailedFrom, retry, fail, i

LEMMA PauseAccount ==
  ASSUME IInv, SeqInv, Account(log, run), StepPaused
  PROVE  Account(log', run')
<1> DEFINE i == run.cursor
           e1 == Event("step.paused", i, "paused")
           e2 == Event("run.paused", 0, "paused")
           e3 == Event("approval.requested", i, "pending")
           u == transitionStepStatus(run, i, "paused")
<1>1. /\ run \in RunSnapshot /\ i \in Steps /\ log \in Seq(EventType)
      /\ run.steps[i].status \in Worked
      /\ run' = Paused(run)
      /\ \/ log' = Append(Append(Append(log, e1), e2), CheckpointSaved)
         \/ log' = Append(Append(Append(Append(log, e1), e2), e3), CheckpointSaved)
  BY RowFacts DEF StepPaused, AtWork, StepMayBecome, stepTransitions, Worked
<1>2. /\ u \in RunSnapshot /\ u.status = run.status
      /\ Paused(run) \in RunSnapshot /\ Paused(run).status = "paused"
      /\ Paused(run).steps = u.steps
  <2>1. "paused" \in StepStatus
    BY DEF StepStatus
  <2>2. Moved(run, u, i, "paused")
    BY <1>1, <2>1, StepMoved
  <2> QED BY <1>1, <2>2, PausedFields DEF Moved
<1> HIDE DEF u
<1>3. e1 \in EventType /\ Account(Append(log, e1), u)
  BY <1>1, <1>2, AccountStepEvent DEF StepEvents, StepStatus, u
<1>4. Append(log, e1) \in Seq(EventType)
  BY <1>1, <1>3
<1> HIDE DEF e1
<1>5. e2 \in EventType /\ Account(Append(Append(log, e1), e2), run')
  BY <1>1, <1>2, <1>3, <1>4, AccountRunEvent DEF RunEvents, RunStatus
<1>6. Append(Append(log, e1), e2) \in Seq(EventType)
  BY <1>4, <1>5
<1>7. e3 \in EventType /\ e3.name = "approval.requested"
  BY <1>1, EventTyped DEF EventName, ApprovalStatus, Event
<1> HIDE DEF e2, e3
<1>8. Account(Append(Append(Append(log, e1), e2), e3), run')
  BY <1>1, <1>2, <1>5, <1>6, <1>7, AccountSilent
<1>9. Append(Append(Append(log, e1), e2), e3) \in Seq(EventType)
  BY <1>6, <1>7
<1> QED BY <1>1, <1>2, <1>5, <1>6, <1>8, <1>9, AccountSaved

LEMMA DecisionAccount ==
  ASSUME IInv, SeqInv, Account(log, run), ApprovalDecided
  PROVE  Account(log', run')
<1> DEFINE i == run.cursor
           e2 == Event("step.cancelled", i, "cancelled")
           e3 == Event("run.cancelled", 0, "cancelled")
           u == transitionStepStatus(run, i, "cancelled")
<1>1. PICK a \in DOMAIN approvals, decision \in Decisions :
        LET lg == Append(log, DecisionEvent(approvals[a].step, decision)) IN
        \/ run' = run /\ log' = lg
        \/ /\ run' = cancelRunFromApproval(run) /\ i \in Steps
           /\ log' = Append(Append(lg, e2), e3)
        \/ /\ run' = cancelRunFromApproval(run) /\ i \notin Steps
           /\ log' = Append(lg, e3)
  BY DEF ApprovalDecided
<1> DEFINE e1 == DecisionEvent(approvals[a].step, decision)
           lg == Append(log, e1)
<1>2. /\ run \in RunSnapshot /\ log \in Seq(EventType)
      /\ approvals[a] \in ApprovalType
  BY RowFacts
<1>3. e1 \in EventType /\ e1.name \in DecisionEvents
  <2>1. approvalDecisionToEventName(decision) \in EventName
    BY DEF approvalDecisionToEventName, EventName, Decisions, ApprovalStatus
  <2> QED BY <1>2, <2>1, EventTyped, DecisionEventsDiffer
          DEF DecisionEvent, ApprovalType, Decisions
<1>4. lg \in Seq(EventType)
  BY <1>2, <1>3
<1> HIDE DEF e1
<1>5. Account(lg, run)
  BY <1>2, <1>3, AccountSilent DEF DecisionEvents
<1> HIDE DEF lg
<1>6. CASE /\ run' = cancelRunFromApproval(run) /\ i \in Steps
           /\ log' = Append(Append(lg, e2), e3)
  <2>1. /\ u \in RunSnapshot /\ u.status = run.status
        /\ run' \in RunSnapshot /\ run'.status = "cancelled"
        /\ run'.steps = u.steps
    <3>1. "cancelled" \in StepStatus
      BY DEF StepStatus
    <3>2. Moved(run, u, i, "cancelled")
      BY <1>2, <1>6, <3>1, StepMoved
    <3> QED BY <1>2, <1>6, <3>2, CancelledFields DEF Moved
  <2> HIDE DEF u
  <2>2. e2 \in EventType /\ Account(Append(lg, e2), u)
    BY <1>2, <1>4, <1>5, <1>6, <2>1, AccountStepEvent
       DEF StepEvents, StepStatus, u
  <2>3. Append(lg, e2) \in Seq(EventType)
    BY <1>4, <2>2
  <2> HIDE DEF e2
  <2> QED BY <1>6, <2>1, <2>2, <2>3, AccountRunEvent DEF RunEvents, RunStatus
<1>7. CASE /\ run' = cancelRunFromApproval(run) /\ i \notin Steps
           /\ log' = Append(lg, e3)
  <2>1. /\ run' \in RunSnapshot /\ run'.status = "cancelled"
        /\ run'.steps = run.steps
    BY <1>2, <1>7, CancelledPastSteps
  <2> QED BY <1>2, <1>4, <1>5, <1>7, <2>1, AccountRunEvent
        DEF RunEvents, RunStatus
<1> QED BY <1>1, <1>5, <1>6, <1>7 DEF lg, e1

\* Whatever is done to the row is logged.
LEMMA EffectKeepsAccount ==
  ASSUME IInv, SeqInv, Effect
  PROVE  /\ Untouched'
         /\ run'.status # Absent => Account(log', run')
<1>1. /\ run \in RunSnapshot /\ log \in Seq(EventType)
      /\ run.status # Absent => Account(log, run)
  BY RowFacts DEF SeqInv
<1>2. CASE StoreKept
  BY <1>2 DEF StoreKept, SeqInv, Untouched
<1>3. CASE RowCreated
  BY <1>3, CreatedAccount DEF Untouched
<1>4. CASE RunMoved
  <2>1. PICK status \in {"queued", "running", "paused", "succeeded"},
             name \in RunEvents :
          LET e == Event(name, 0, status) IN
          /\ RunMayBecome(run, status)
          /\ run' = transitionRunStatus(run, status)
          /\ log' = Append(log, e) \/ log' = Append(Append(log, e), CheckpointSaved)
    BY <1>4 DEF RunMoved
  <2> DEFINE e == Event(name, 0, status)
  <2>2. status \in RunStatus /\ run.status # Absent
    BY <2>1 DEF RunStatus, RunMayBecome, runTransitions, Absent
  <2>3. /\ run' \in RunSnapshot /\ run'.status = status /\ run'.steps = run.steps
        /\ run'.status # Absent
    BY <1>1, <2>1, <2>2, RunMoveFields DEF RunStatus, Absent
  <2>4. e \in EventType /\ Account(Append(log, e), run')
    BY <1>1, <2>2, <2>3, AccountRunEvent
  <2>5. Append(log, e) \in Seq(EventType)
    BY <1>1, <2>4
  <2> HIDE DEF e
  <2>6. Account(Append(Append(log, e), CheckpointSaved), run')
    BY <2>3, <2>4, <2>5, AccountSaved
  <2> QED BY <2>1, <2>3, <2>4, <2>6 DEF Untouched, e
<1>5. CASE StepBegun
  <2>1. PICK status \in {"ready", "running"}, name \in {"step.ready", "step.started"} :
          /\ name = "step.started" <=> status = "running"
          /\ run.status = "running" /\ run.cursor \in Steps
          /\ run' = transitionStepStatus(run, run.cursor, status)
          /\ log' = Append(log, Event(name, run.cursor, status))
    BY <1>5 DEF StepBegun, AtWork
  <2>2. status \in StepStatus /\ name \in StepEvents /\ run.status # Absent
    BY <2>1 DEF StepStatus, StepEvents, Absent
  <2>3. run' \in RunSnapshot /\ run'.status = run.status
    BY <1>1, <2>1, <2>2, StepMoved DEF Moved
  <2>4. Account(log', run')
    BY <1>1, <2>1, <2>2, <2>3, AccountStepEvent
  <2> QED BY <2>2, <2>3, <2>4 DEF Untouched
<1>6. CASE StepPaused
  <2>1. run.status # Absent /\ run'.status = "paused"
    BY <1>1, <1>6, PausedFields DEF StepPaused, AtWork, Absent
  <2> QED BY <1>1, <1>6, <2>1, PauseAccount DEF Untouched, Absent
<1>7. CASE StepCompleted
  <2> DEFINE i == run.cursor
             e == Event("step.completed", i, "completed")
  <2>1. /\ run.status = "running" /\ i \in Steps
        /\ run.steps[i].status = "running"
        /\ run' = Completed(run)
        /\ log' = Append(Append(log, e), CheckpointSaved)
    BY <1>7 DEF StepCompleted, AtWork, StepMayBecome, stepTransitions
  <2>2. /\ run' \in RunSnapshot /\ run'.status = run.status
        /\ run'.steps = transitionStepStatus(run, i, "completed").steps
    BY <1>1, <2>1, CompletedFields
  <2>3. /\ "completed" \in StepStatus /\ "step.completed" \in StepEvents
        /\ run.status # Absent /\ run.steps[i].status \in Worked
    BY <2>1 DEF StepStatus, StepEvents, Absent, Worked
  <2>4. e \in EventType /\ Account(Append(log, e), run')
    BY <1>1, <2>1, <2>2, <2>3, AccountStepEvent
  <2>5. Append(log, e) \in Seq(EventType)
    BY <1>1, <2>4
  <2> HIDE DEF e
  <2>6. Account(log', run')
    BY <2>1, <2>2, <2>4, <2>5, AccountSaved
  <2> QED BY <2>2, <2>3, <2>6 DEF Untouched
<1>8. CASE StepFailed
  <2>1. PICK s : FailedFrom(s)
    BY <1>8 DEF StepFailed
  <2>2. run.status # Absent
    BY <2>1, FailedFromStatus DEF Absent
  <2>3. run'.status # Absent
    <3>1. s \in RunSnapshot /\ s.cursor \in Steps /\ s.status = "running"
      BY <2>1 DEF FailedFrom
    <3>2. \A status \in StepStatus :
            Moved(s, transitionStepStatus(s, s.cursor, status), s.cursor, status)
      BY <3>1, StepMoved
    <3>3. {"retry_scheduled", "failed"} \subseteq StepStatus /\ "failed" \in RunStatus
      BY DEF StepStatus, RunStatus
    <3> QED BY <2>1, <3>1, <3>2, <3>3, RunMoveFields DEF FailedFrom, Moved, Absent
  <2> QED BY <1>1, <2>1, <2>2, <2>3, FailureAccount DEF Untouched
<1>9. CASE ApprovalDecided
  <2>1. /\ run.status = "paused"
        /\ run' = run \/ run' = cancelRunFromApproval(run)
    BY <1>9 DEF ApprovalDecided
  <2>2. run'.status # Absent
    BY <1>1, <2>1, CancelledFields, CancelledPastSteps DEF Absent
  <2> QED BY <1>1, <1>9, <2>1, <2>2, DecisionAccount DEF Untouched, Absent
<1> QED BY <1>2, <1>3, <1>4, <1>5, <1>6, <1>7, <1>8, <1>9 DEF Effect

\* A call that is over follows any row.
LEMMA EndedFollows ==
  ASSUME NEW d \in Drivers, NEW outcome \in Waiting, IInv, End(d, outcome)
  PROVE  Follows(call[d])'
<1>1. call'[d].pc = outcome
  BY DEF End, Ended, IInv, TypeOK
<1> QED BY <1>1 DEF Follows, Waiting

\* A call that goes on with the row it wrote, or kept, follows it.
LEMMA GoingFollows ==
  ASSUME NEW d \in Drivers, IInv,
         call'[d].pc \notin {"commitReadyNext", "commitStepFailure"},
         call'[d].snap = run',
         call'[d].pc = "commitQueued" => (lost' = 0 => NothingPending')
  PROVE  Follows(call[d])'
BY DEF Follows

LEMMA GotoFields ==
  ASSUME NEW d \in Drivers, IInv, NEW pc, NEW snap, Goto(d, pc, snap)
  PROVE  call'[d].pc = pc /\ call'[d].snap = snap
BY DEF Goto, IInv, TypeOK, CallType

\* The approval a call looks up is the pending one, when there is one: only
\* one is pending at a time.
LEMMA PendingApprovalNone ==
  ASSUME PendingApproval = 0, lost = 0, PendingBlocksRun,
         approvals \in Seq(ApprovalType)
  PROVE  NothingPending
<1> SUFFICES ASSUME NEW a \in DOMAIN approvals, approvals[a].status = "pending"
             PROVE  FALSE
  BY DEF NothingPending
<1> DEFINE First(k) == /\ approvals[k].status = "pending"
                       /\ \A b \in DOMAIN approvals :
                            approvals[b].status = "pending" => k <= b
<1>1. a \in Nat /\ 0 \notin DOMAIN approvals
  OBVIOUS
<1>2. \A b \in DOMAIN approvals : approvals[b].status = "pending" => a = b
  BY DEF PendingBlocksRun, BlocksRun
<1>3. First(a)
  BY <1>1, <1>2
<1>4. PendingApproval = CHOOSE k \in DOMAIN approvals : First(k)
  BY DEF PendingApproval
<1> HIDE DEF First
<1>5. (CHOOSE k \in DOMAIN approvals : First(k)) \in DOMAIN approvals
  BY <1>3
<1> QED BY <1>1, <1>4, <1>5

\* Whoever enters reads the row as it is.
LEMMA InvokeFollows ==
  ASSUME IInv, SeqInv, NEW d \in Drivers, Invoke(d)
  PROVE  Follows(call[d])'
<1>1. CASE CreateRun(d)
  BY <1>1, EndedFollows DEF CreateRun, Waiting
<1>2. ASSUME NEW op, NEW pc, NEW a, NEW decision, Enter(d, op, pc, a, decision),
             pc \in Waiting \/ pc \in {"restore", "commitRunning", "commitPause",
                                       "commitQueued", "readPending"},
             pc = "commitQueued" => run.status = "pending"
      PROVE  Follows(call[d])'
  <2>1. CASE pc \in Waiting
    <3>1. End(d, pc)
      BY <1>2, <2>1 DEF Enter, End
    <3> QED BY <2>1, <3>1, EndedFollows
  <2>2. CASE pc \notin Waiting
    <3>1. /\ call'[d].pc = pc /\ call'[d].snap = run
          /\ run' = run /\ approvals' = approvals /\ lost' = lost
      BY <1>2, <2>2 DEF Enter, store, faults, IInv, TypeOK
    <3>2. pc = "commitQueued" => (lost = 0 => NothingPending)
      BY <1>2, PendingWhilePaused DEF SeqInv
    <3>3. NothingPending => NothingPending'
      BY <3>1 DEF NothingPending
    <3> QED BY <1>2, <2>2, <3>1, <3>2, <3>3, GoingFollows
  <2> QED BY <2>1, <2>2
<1>3. CASE executeRun(d)
  <2> DEFINE pc == ExecuteEntry(run.status)
  <2>1. /\ pc \in Waiting \/ pc \in {"restore", "commitRunning", "commitQueued"}
        /\ pc = "commitQueued" => run.status = "pending"
    BY DEF ExecuteEntry, Waiting
  <2> QED BY <1>2, <1>3, <2>1 DEF executeRun
<1>4. CASE queueRun(d)
  BY <1>2, <1>4 DEF queueRun, Waiting
<1>5. CASE resumeRun(d)
  BY <1>2, <1>5 DEF resumeRun, Waiting
<1>6. CASE queueResumeRun(d)
  BY <1>2, <1>6 DEF queueResumeRun, Waiting
<1>7. CASE pauseRun(d)
  <2> DEFINE pc == CASE run.status \in TerminalRunStatus \cup {"paused"} -> "returned"
                     [] run.status = "pending" -> "threw"
                     [] OTHER -> "commitPause"
  <2>1. pc \in Waiting \/ pc = "commitPause"
    BY DEF Waiting, TerminalRunStatus
  <2>2. pc # "commitQueued"
    BY DEF TerminalRunStatus
  <2>3. Enter(d, "pause", pc, 0, "pending")
    BY <1>7 DEF pauseRun
  <2> HIDE DEF pc
  <2> QED BY <1>2, <2>1, <2>2, <2>3
<1>8. ASSUME NEW a, NEW decision, decideApproval(d, a, decision)
      PROVE  Follows(call[d])'
  BY <1>2, <1>8 DEF decideApproval, Waiting
<1> QED BY <1>1, <1>3, <1>4, <1>5, <1>6, <1>7, <1>8 DEF Invoke

\* What the call that takes a step knows about the row it goes on with.
LEMMA EntryFollows ==
  ASSUME IInv, SeqInv, NEW d \in Drivers,
         \/ ReadPending(d) \/ CommitQueued(d) \/ CommitRunning(d)
         \/ CommitPause(d) \/ CommitDecision(d) \/ succeedRun(d)
  PROVE  Follows(call[d])'
<1> DEFINE c == call[d]
<1>1. /\ Follows(c) /\ approvals \in Seq(ApprovalType)
      /\ PendingBlocksRun
  BY DEF SeqInv, IInv, TypeOK
<1>2. CASE ReadPending(d)
  <2>1. /\ c.snap = run /\ run' = run /\ approvals' = approvals
        /\ lost' = lost
    BY <1>1, <1>2 DEF ReadPending, Follows, Waiting, store, faults
  <2>2. \/ \E outcome \in Waiting : End(d, outcome)
        \/ PendingApproval = 0 /\ Goto(d, "commitQueued", c.snap)
        \/ Goto(d, "commitDecision", c.snap)
    BY <1>2 DEF ReadPending, Waiting
  <2>3. CASE \E outcome \in Waiting : End(d, outcome)
    BY <2>3, EndedFollows
  <2>4. CASE PendingApproval = 0 /\ Goto(d, "commitQueued", c.snap)
    <3>1. lost' = 0 => NothingPending'
      BY <1>1, <2>1, <2>4, PendingApprovalNone DEF NothingPending
    <3>2. call'[d].pc = "commitQueued" /\ call'[d].snap = run'
      BY <2>1, <2>4, GotoFields
    <3> QED BY <3>1, <3>2, GoingFollows
  <2>5. CASE Goto(d, "commitDecision", c.snap)
    <3>1. call'[d].pc = "commitDecision" /\ call'[d].snap = run'
      BY <2>1, <2>5, GotoFields
    <3> QED BY <3>1, GoingFollows
  <2> QED BY <2>2, <2>3, <2>4, <2>5
<1>3. CASE CommitQueued(d)
  <2> DEFINE r == transitionRunStatus(c.snap, "queued")
  <2>1. /\ run' = r
        /\ End(d, "returned") \/ Goto(d, "commitRunning", r)
    BY <1>3 DEF CommitQueued, StoreQueued, Commit
  <2> HIDE DEF r
  <2>2. CASE Goto(d, "commitRunning", r)
    <3>1. call'[d].pc = "commitRunning" /\ call'[d].snap = run'
      BY <2>1, <2>2, GotoFields
    <3> QED BY <3>1, GoingFollows
  <2> QED BY <2>1, <2>2, EndedFollows DEF Waiting
<1>4. CASE CommitRunning(d)
  <2> DEFINE r == transitionRunStatus(c.snap, "running")
  <2>1. run' = r /\ Goto(d, "restore", r)
    BY <1>4 DEF CommitRunning, StoreRunning, Commit
  <2> HIDE DEF r
  <2>2. call'[d].pc = "restore" /\ call'[d].snap = run'
    BY <2>1, GotoFields
  <2> QED BY <2>2, GoingFollows
<1>5. CASE CommitPause(d) \/ CommitDecision(d) \/ succeedRun(d)
  BY <1>5, EndedFollows
     DEF CommitPause, StorePause, CommitDecision, StoreDecision, succeedRun,
         StoreSucceeded, Waiting
<1> QED BY <1>2, <1>3, <1>4, <1>5

LEMMA LoopFollows ==
  ASSUME IInv, SeqInv, NEW d \in Drivers,
         \/ RestoreCheckpoint(d) \/ CommitReady(d) \/ CommitStepStarted(d)
         \/ StepReturns(d) \/ awaitApprovalFromStep(d) \/ pauseFromStep(d)
         \/ CommitComplete(d) \/ CommitReadyNext(d) \/ handleStepFailure(d)
  PROVE  Follows(call[d])'
<1> DEFINE c == call[d]
<1>1. /\ Follows(c) /\ c \in CallType /\ call \in [Drivers -> CallType]
      /\ CallInv(c, Len(approvals)) /\ c.snap \in RunSnapshot
  BY CallFacts DEF SeqInv, IInv, TypeOK
<1>2. CASE RestoreCheckpoint(d)
  <2>1. c.snap = run /\ run' = run /\ c.snap.status = "running"
    BY <1>1, <1>2 DEF RestoreCheckpoint, Follows, Waiting, store, CallInv,
                      LoopKnows, LoopPc
  <2>2. \/ End(d, "threw")
        \/ call'[d].pc = LoopHead(c.snap) /\ call'[d].snap = c.snap
    BY <1>1, <1>2 DEF RestoreCheckpoint, End, CallType
  <2>3. LoopHead(c.snap) \in {"commitSucceeded", "commitReady",
                              "commitStepStarted", "threw"}
    BY <1>1, <2>1, LoopHeadKnows
  <2> QED BY <2>1, <2>2, <2>3, GoingFollows, EndedFollows DEF Waiting
<1>3. CASE CommitReady(d)
  <2> DEFINE r == transitionStepStatus(c.snap, c.snap.cursor, "ready")
  <2>1. run' = r /\ Goto(d, "commitStepStarted", r)
    BY <1>3 DEF CommitReady, StoreReady, Commit
  <2> HIDE DEF r
  <2>2. call'[d].pc = "commitStepStarted" /\ call'[d].snap = run'
    BY <2>1, GotoFields
  <2> QED BY <2>2, GoingFollows
<1>4. CASE CommitStepStarted(d)
  <2> DEFINE r == transitionStepStatus(c.snap, c.snap.cursor, "running")
  <2>1. /\ run' = r
        /\ call' = [call EXCEPT ![d] =
             [c EXCEPT !.pc = "executing", !.snap = r,
                       !.loaded = IF @ = r.cursor THEN @ ELSE 0]]
    BY <1>4 DEF CommitStepStarted, StoreStepStarted, Commit
  <2> HIDE DEF r
  <2>2. call'[d].pc = "executing" /\ call'[d].snap = run'
    BY <1>1, <2>1 DEF CallType
  <2> QED BY <2>2, GoingFollows
<1>5. CASE StepReturns(d)
  <2>1. c.pc = "executing" /\ run' = run
    BY <1>5 DEF StepReturns, store
  <2>2. PICK pc \in {"commitAwait", "commitComplete", "commitPauseStep",
                     "commitStepFailure"} :
          call' = [call EXCEPT ![d].pc = pc, ![d].loaded = 0]
    BY <1>5 DEF StepReturns
  <2>3. c.snap = run'
    BY <1>1, <2>1 DEF Follows, Waiting
  <2>4. call'[d].pc = pc /\ call'[d].snap = run'
    BY <1>1, <2>2, <2>3 DEF CallType
  <2> QED BY <2>2, <2>4 DEF Follows, WrittenOver, Waiting
<1>6. CASE awaitApprovalFromStep(d) \/ pauseFromStep(d)
  BY <1>6, EndedFollows
     DEF awaitApprovalFromStep, StoreAwait, pauseFromStep, StorePauseStep,
         Waiting
<1>7. CASE CommitComplete(d)
  <2> DEFINE r == Completed(c.snap)
  <2>1. /\ run' = r
        /\ \/ Goto(d, "commitReadyNext", c.snap)
           \/ Goto(d, "commitSucceeded", r)
    BY <1>7 DEF CommitComplete, StoreComplete, CommitWithCheckpoint
  <2>2. CASE Goto(d, "commitReadyNext", c.snap)
    <3>1. call'[d].pc = "commitReadyNext" /\ call'[d].snap = c.snap
      BY <2>2, GotoFields
    <3> QED BY <2>1, <3>1 DEF Follows
  <2> HIDE DEF r
  <2>3. CASE Goto(d, "commitSucceeded", r)
    <3>1. call'[d].pc = "commitSucceeded" /\ call'[d].snap = run'
      BY <2>1, <2>3, GotoFields
    <3> QED BY <3>1, GoingFollows
  <2> QED BY <2>1, <2>2, <2>3
<1>8. CASE CommitReadyNext(d)
  <2> DEFINE r == transitionStepStatus(Completed(c.snap), c.snap.cursor + 1,
                                       "ready")
  <2>1. run' = r /\ Goto(d, "commitStepStarted", r)
    BY <1>8 DEF CommitReadyNext, StoreReadyNext, NextReady, Commit
  <2> HIDE DEF r
  <2>2. call'[d].pc = "commitStepStarted" /\ call'[d].snap = run'
    BY <2>1, GotoFields
  <2> QED BY <2>2, GoingFollows
<1>9. CASE handleStepFailure(d)
  <2> DEFINE r == transitionStepStatus(c.snap, c.snap.cursor, "retry_scheduled")
  <2>1. CASE ~Retryable(c.snap)
    BY <1>9, <2>1, EndedFollows
       DEF handleStepFailure, StoreStepFailure, Rescheduled, Failed, Waiting
  <2>2. CASE Retryable(c.snap)
    <3>1. run' = r /\ Goto(d, LoopHead(r), r)
      BY <1>9, <2>2
         DEF handleStepFailure, StoreStepFailure, Rescheduled, Failed,
             CommitWithCheckpoint
    <3>2. c.snap.cursor \in Steps /\ c.snap.status = "running"
      BY <1>1, <1>9
         DEF handleStepFailure, StoreStepFailure, Rescheduled, Failed, CallInv,
             LoopKnows, LoopPc, AtStepPc,
                        InStepPc
    <3>3. r \in RunSnapshot /\ r.status = "running"
      BY <1>1, <3>2, StepReplaced DEF StepStatus
    <3> HIDE DEF r
    <3>4. LoopHead(r) \in {"commitSucceeded", "commitReady",
                           "commitStepStarted", "threw"}
      BY <3>3, LoopHeadKnows
    <3>5. call'[d].pc = LoopHead(r) /\ call'[d].snap = run'
      BY <3>1, GotoFields
    <3> QED BY <3>4, <3>5, GoingFollows
  <2> QED BY <2>1, <2>2
<1> QED BY <1>2, <1>3, <1>4, <1>5, <1>6, <1>7, <1>8, <1>9

\* A commit that raises: the call takes it for a failed step, over whatever
\* the commit left of the row.
LEMMA RaisingFollows ==
  ASSUME IInv, SeqInv, NEW d \in Drivers, CommitRejected(d) \/ AnswerLost(d)
  PROVE  Follows(call[d])'
<1> DEFINE c == call[d]
<1>0. PICK s : s = call[d].snap
  OBVIOUS
<1>1. /\ Follows(c) /\ CallInv(c, Len(approvals))
      /\ failures \in Nat /\ lost \in Nat /\ failures' = failures + 1
      /\ \/ run' = run
         \/ Stores(d) /\ lost' = lost + 1
  BY CallFacts DEF SeqInv, IInv, TypeOK, CommitRejected, AnswerLost, Raises,
                   store
<1>2. \/ End(d, "threw")
      \/ /\ Goto(d, "commitStepFailure", s)
         /\ c.pc \in {"commitAwait", "commitPauseStep", "commitComplete",
                      "commitReadyNext"}
  BY <1>0 DEF CommitRejected, AnswerLost, Raises
<1>3. CASE End(d, "threw")
  BY <1>3, EndedFollows DEF Waiting
<1>4. ASSUME Goto(d, "commitStepFailure", s), WrittenOver(s)'
      PROVE  Follows(call[d])'
  <2>1. call'[d].pc = "commitStepFailure" /\ call'[d].snap = s
    BY <1>4, GotoFields
  <2> QED BY <1>4, <2>1 DEF Follows, WrittenOver
<1>5. ASSUME c.pc \in {"commitAwait", "commitPauseStep", "commitComplete",
                       "commitReadyNext"},
             run' = run
      PROVE  WrittenOver(s)'
  <2>1. CASE c.pc = "commitReadyNext"
    BY <1>0, <1>1, <1>5, <2>1 DEF Follows, CallInv, LoopKnows, WrittenOver
  <2>2. CASE c.pc # "commitReadyNext"
    BY <1>0, <1>1, <1>5, <2>2 DEF Follows, Waiting, WrittenOver
  <2> QED BY <2>1, <2>2
<1>6. ASSUME c.pc \in {"commitAwait", "commitPauseStep", "commitComplete",
                       "commitReadyNext"},
             Stores(d), lost' = lost + 1
      PROVE  WrittenOver(s)'
  <2>1. \/ run' = Paused(s)
        \/ run' = Completed(s)
        \/ run' = NextReady(s) /\ c.pc = "commitReadyNext"
    <3>1. \/ StoreAwait(d) \/ StorePauseStep(d) \/ StoreComplete(d)
          \/ StoreReadyNext(d)
      BY <1>6 DEF Stores, StoreQueued, StoreRunning, StorePause,
                  StoreDecision, StoreReady, StoreStepStarted,
                  StoreStepFailure, StoreSucceeded
    <3>2. CASE StoreAwait(d) \/ StorePauseStep(d)
      BY <1>0, <3>2 DEF StoreAwait, StorePauseStep, CommitWithCheckpoint
    <3>3. CASE StoreComplete(d) \/ StoreReadyNext(d)
      BY <1>0, <3>3
         DEF StoreComplete, StoreReadyNext, Commit, CommitWithCheckpoint
    <3> QED BY <3>1, <3>2, <3>3
  <2>2. c.pc = "commitReadyNext" => s.cursor + 1 \in Steps
    BY <1>0, <1>1 DEF CallInv, LoopKnows
  <2>3. lost' > 0 /\ failures' > 0
    BY <1>1, <1>6
  <2> QED BY <2>1, <2>2, <2>3 DEF WrittenOver
<1> QED BY <1>1, <1>2, <1>3, <1>4, <1>5, <1>6

LEMMA FollowsPreserved ==
  ASSUME OneAtATime, IInv, SeqInv, [Next]_vars, NEW e \in Drivers
  PROVE  Follows(call[e])'
<1>1. CASE UNCHANGED vars
  BY <1>1 DEF vars, SeqInv, Follows, WrittenOver, NothingPending
<1>2. ASSUME NEW d \in Drivers,
             \/ Invoke(d) \/ Advance(d) \/ CommitRejected(d)
             \/ AnswerLost(d) \/ Crash(d)
      PROVE  Follows(call[e])'
  <2>1. d = e
    BY DEF OneAtATime
  <2>2. CASE Invoke(d)
    BY <2>1, <2>2, InvokeFollows
  <2>3. CASE Advance(d)
    BY <2>1, <2>3, EntryFollows, LoopFollows DEF Advance
  <2>4. CASE CommitRejected(d) \/ AnswerLost(d)
    BY <2>1, <2>4, RaisingFollows
  <2>5. CASE Crash(d)
    BY <2>1, <2>5, EndedFollows DEF Crash, Waiting
  <2> QED BY <1>2, <2>2, <2>3, <2>4, <2>5
<1> QED BY <1>1, <1>2 DEF Next

-----------------------------------------------------------------------------
(* The log, the approvals and the checkpoint agree with the row *)

LEMMA InitSequential == Init => SeqInv
<1> SUFFICES ASSUME Init
             PROVE  SeqInv
  OBVIOUS
<1>1. /\ run.status = Absent /\ run = NoRun /\ log = <<>> /\ approvals = <<>>
      /\ run.cursor = 1 /\ checkpoint.next = 1
  BY DEF Init, NoRun, createWorkflowRunSnapshot, Checkpoint
<1>2. \A d \in Drivers : call[d].pc = "idle"
  BY DEF Init, Ended
<1>3. DOMAIN approvals = {}
  BY <1>1
<1>4. /\ Untouched /\ CheckpointAtCursor /\ LostCounted
  <2>1. lost = 0 /\ failures = 0
    BY DEF Init
  <2> QED BY <1>1, <2>1 DEF Untouched, CheckpointAtCursor, LostCounted
<1>5. PendingBlocksRun
  BY <1>3 DEF PendingBlocksRun
<1>6. \A d \in Drivers : Follows(call[d])
  BY <1>2 DEF Follows, Waiting
<1> QED BY <1>1, <1>4, <1>5, <1>6 DEF SeqInv

LEMMA StepCountsLost ==
  ASSUME LostCounted, [Next]_vars
  PROVE  LostCounted' /\ (lost' = 0 => lost = 0)
<1>1. ASSUME NEW d \in Drivers, Invoke(d) \/ Advance(d) \/ Crash(d)
      PROVE  lost' = lost /\ failures' = failures
  BY <1>1
     DEF Invoke, CreateRun, Enter, executeRun, queueRun, resumeRun,
         queueResumeRun, pauseRun, decideApproval, Advance, ReadPending,
         CommitQueued, CommitRunning, CommitPause, CommitDecision,
         RestoreCheckpoint, CommitReady, CommitStepStarted, StepReturns,
         awaitApprovalFromStep, pauseFromStep, CommitComplete,
         CommitReadyNext, handleStepFailure, succeedRun, Crash, faults
<1>2. ASSUME NEW d \in Drivers, CommitRejected(d) \/ AnswerLost(d)
      PROVE  failures' = failures + 1 /\ lost' \in {lost, lost + 1}
  BY <1>2 DEF CommitRejected, AnswerLost, Raises
<1>3. CASE UNCHANGED vars
  BY <1>3 DEF vars, LostCounted
<1> QED BY <1>1, <1>2, <1>3 DEF Next, LostCounted

LEMMA StepSequential ==
  ASSUME OneAtATime
  PROVE  IInv /\ SeqInv /\ [Next]_vars => SeqInv'
<1> SUFFICES ASSUME IInv, SeqInv, [Next]_vars
             PROVE  SeqInv'
  OBVIOUS
<1>1. Effect /\ LostCounted' /\ (lost' = 0 => lost = 0)
  BY EveryStepHasEffect, StepCountsLost DEF SeqInv
<1>2. PendingBlocksRun' /\ CheckpointAtCursor'
  BY <1>1, EffectKeepsPending, EffectKeepsCheckpoint
<1>3. Untouched' /\ (run'.status # Absent => Account(log', run'))
  BY <1>1, EffectKeepsAccount
<1>4. run'.status # Absent => Account(log, run)'
  BY <1>1, <1>3 DEF Account
<1>5. \A d \in Drivers : Follows(call[d])'
  BY FollowsPreserved
<1> QED BY <1>1, <1>2, <1>3, <1>4, <1>5 DEF SeqInv

LEMMA SequentialInvariance ==
  ASSUME OneAtATime
  PROVE  Spec => [](IInv /\ SeqInv)
<1>1. Init => IInv /\ SeqInv
  BY InitInvariant, InitSequential
<1>2. (IInv /\ SeqInv) /\ [Next]_vars => (IInv /\ SeqInv)'
  BY StepInvariant, StepSequential
<1> QED BY <1>1, <1>2, PTL DEF Spec

\* Pending approvals block resume: however often the run is queued, resumed
\* or cancelled around it, while an approval is pending the run is paused at
\* the step that asked, and no second one is pending (resumeRun,
\* queueResumeRun, awaitApprovalFromStep, decideApproval).  It is so for any
\* crashes and rejected commits, until the answer of a stored commit is lost.
THEOREM PendingApprovalBlocksRun ==
  ASSUME OneAtATime
  PROVE  Spec => []PendingBlocksRun
<1>1. IInv /\ SeqInv => PendingBlocksRun
  BY DEF SeqInv
<1> QED BY <1>1, SequentialInvariance, PTL

\* The latest checkpoint always points at the row's cursor, whatever crashes
\* or raises an error in between, and also when a failure is written over a
\* commit whose answer was lost (commitTransition with and without a
\* checkpoint).
THEOREM CheckpointPointsAtCursor ==
  ASSUME OneAtATime
  PROVE  Spec => []CheckpointAtCursor
<1>1. IInv /\ SeqInv => CheckpointAtCursor
  BY DEF SeqInv
<1> QED BY <1>1, SequentialInvariance, PTL

\* The event log is the source of truth (ADR-0004): replaying it gives the
\* status of the run and of every step, for any number of steps, calls,
\* crashes and rejected commits, until the answer of a stored commit is lost.
THEOREM LogIsSourceOfTruth ==
  ASSUME OneAtATime
  PROVE  Spec => []LogTellsSnapshot
<1>1. IInv /\ SeqInv => LogTellsSnapshot
  <2> SUFFICES ASSUME IInv, SeqInv, lost = 0
               PROVE  LogTellsSnapshot
    BY DEF LogTellsSnapshot
  <2>1. \A i : StatusEvents(i) = Saying(log, i)
    BY DEF StatusEvents, Saying, Says
  <2>2. ASSUME NEW i, NEW default
        PROVE  LastStatus(i, default) = StatusIn(log, i, default)
    <3> DEFINE Latest(S) == CHOOSE n \in S : \A m \in S : m <= n
               Told(S) == IF S = {} THEN default ELSE log[Latest(S)].status
    <3>1. LastStatus(i, default) = Told(StatusEvents(i))
      BY DEF LastStatus
    <3>2. StatusIn(log, i, default) = Told(Saying(log, i))
      BY DEF StatusIn
    <3> HIDE DEF Told
    <3> QED BY <2>1, <3>1, <3>2
  <2>3. CASE run.status = Absent
    <3>1. DOMAIN log = {}
      BY <2>3 DEF SeqInv, Untouched
    <3>2. Saying(log, 0) = {}
      BY <3>1 DEF Saying
    <3>3. StatusIn(log, 0, Absent) = Absent
      BY <3>2 DEF StatusIn
    <3> QED BY <2>2, <2>3, <3>3 DEF LogTellsSnapshot
  <2>4. CASE run.status # Absent
    BY <2>2, <2>4 DEF SeqInv, Account, LogTellsSnapshot
  <2> QED BY <2>3, <2>4
<1> QED BY <1>1, SequentialInvariance, PTL

\* Every attempt a step is charged with was started in the log, and it is
\* rescheduled fewer times than its policy allows attempts (runLoop,
\* handleStepFailure), however often it was paused and resumed in between.
THEOREM AttemptsAreAccounted ==
  ASSUME OneAtATime
  PROVE  Spec => []AttemptsAccounted
<1>1. IInv /\ SeqInv => AttemptsAccounted
  <2> SUFFICES ASSUME IInv, SeqInv, NEW i \in Steps
               PROVE  /\ run.steps[i].attempts
                           = Cardinality(EventsOf("step.started", i))
                      /\ Cardinality(EventsOf("step.retry_scheduled", i))
                           < MaxAttempts
    BY DEF AttemptsAccounted
  <2>1. \A name : Cardinality(EventsOf(name, i)) = Times(log, name, i)
    BY DEF EventsOf, Times
  <2>2. CASE run.status = Absent
    <3>1. run = NoRun /\ DOMAIN log = {}
      BY <2>2 DEF SeqInv, Untouched
    <3>2. run.steps[i].attempts = 0
      BY <3>1 DEF NoRun, createWorkflowRunSnapshot, createWorkflowStepSnapshot
    <3>3. \A name : EventsOf(name, i) = {}
      BY <3>1 DEF EventsOf
    <3>4. \A name : Cardinality(EventsOf(name, i)) = 0
      BY <3>3, FS_EmptySet
    <3> QED BY <3>2, <3>4, DomainAssumption
  <2>3. CASE run.status # Absent
    BY <2>1, <2>3 DEF SeqInv, Account
  <2> QED BY <2>2, <2>3
<1> QED BY <1>1, SequentialInvariance, PTL

-----------------------------------------------------------------------------
(* The engine implements the lifecycle *)

\* One transition of the lifecycle, in the terms of the engine.
Transition ==
  \/ run.status = Absent /\ run' = createWorkflowRunSnapshot
  \/ \E status \in {"queued", "running", "paused", "succeeded"} :
       /\ RunMayBecome(run, status)
       /\ status = "succeeded" => run.cursor \notin Steps
       /\ run' = transitionRunStatus(run, status)
  \/ \E status \in {"ready", "running", "retry_scheduled"} :
       /\ AtWork(status)
       /\ status = "retry_scheduled" => Retryable(run)
       /\ run' = transitionStepStatus(run, run.cursor, status)
  \/ AtWork("completed") /\ run' = Completed(run)
  \/ AtWork("paused") /\ run' = Paused(run)
  \/ /\ AtWork("failed")
     /\ run.steps[run.cursor].attempts >= MaxAttempts
     /\ run' = transitionRunStatus(
                 transitionStepStatus(run, run.cursor, "failed"), "failed")
  \/ /\ run.status = "paused" /\ run.cursor \in Steps
     /\ StepMayBecome(run, run.cursor, "cancelled")
     /\ run' = cancelRunFromApproval(run)

\* The lifecycle has the tables and the functions of the engine's Domain.
LEMMA SameDomain ==
  /\ Lifecycle!Steps = Steps /\ Lifecycle!Absent = Absent
  /\ Lifecycle!createWorkflowRunSnapshot = createWorkflowRunSnapshot
  /\ \A r, status :
       /\ Lifecycle!RunMayBecome(r, status) <=> RunMayBecome(r, status)
       /\ Lifecycle!transitionRunStatus(r, status)
            = transitionRunStatus(r, status)
  /\ \A r, i, status :
       /\ Lifecycle!StepMayBecome(r, i, status) <=> StepMayBecome(r, i, status)
       /\ Lifecycle!transitionStepStatus(r, i, status)
            = transitionStepStatus(r, i, status)
  /\ \A r, next : Lifecycle!advanceRunCursor(r, next) = advanceRunCursor(r, next)
<1>1. Lifecycle!Steps = Steps /\ Lifecycle!Absent = Absent
  BY DEF Lifecycle!Steps, Lifecycle!Absent, Steps, Absent
<1>2. \A i : Lifecycle!createWorkflowStepSnapshot(i) = createWorkflowStepSnapshot(i)
  BY DEF Lifecycle!createWorkflowStepSnapshot, createWorkflowStepSnapshot
<1>3. Lifecycle!createWorkflowRunSnapshot = createWorkflowRunSnapshot
  BY <1>1, <1>2
     DEF Lifecycle!createWorkflowRunSnapshot, createWorkflowRunSnapshot
<1>4. ASSUME NEW r, NEW status
      PROVE  /\ Lifecycle!RunMayBecome(r, status) <=> RunMayBecome(r, status)
             /\ Lifecycle!transitionRunStatus(r, status)
                  = transitionRunStatus(r, status)
  BY DEF Lifecycle!RunMayBecome, Lifecycle!runTransitions, RunMayBecome,
         runTransitions, Lifecycle!transitionRunStatus, transitionRunStatus
<1>5. ASSUME NEW r, NEW i, NEW status
      PROVE  /\ Lifecycle!StepMayBecome(r, i, status)
                  <=> StepMayBecome(r, i, status)
             /\ Lifecycle!transitionStepStatus(r, i, status)
                  = transitionStepStatus(r, i, status)
  BY DEF Lifecycle!StepMayBecome, Lifecycle!stepTransitions, StepMayBecome,
         stepTransitions, Lifecycle!transitionStepStatus, transitionStepStatus
<1>6. ASSUME NEW r, NEW next
      PROVE  Lifecycle!advanceRunCursor(r, next) = advanceRunCursor(r, next)
  BY DEF Lifecycle!advanceRunCursor, advanceRunCursor
<1> QED BY <1>1, <1>3, <1>4, <1>5, <1>6

LEMMA TransitionIsNext ==
  ASSUME Transition
  PROVE  Lifecycle!Next
<1>1. ASSUME NEW status, AtWork(status)
      PROVE  Lifecycle!WorkOnStep(status)
  BY <1>1, SameDomain DEF AtWork, Lifecycle!WorkOnStep, Lifecycle!AtStep
<1>2. CASE run.status = Absent /\ run' = createWorkflowRunSnapshot
  BY <1>2, SameDomain DEF Lifecycle!Next, Lifecycle!Create
<1>3. CASE \E status \in {"queued", "running", "paused", "succeeded"} :
             /\ RunMayBecome(run, status)
             /\ status = "succeeded" => run.cursor \notin Steps
             /\ run' = transitionRunStatus(run, status)
  <2>1. PICK status \in {"queued", "running", "paused", "succeeded"} :
          Lifecycle!MoveRun(status)
    BY <1>3, SameDomain DEF Lifecycle!MoveRun, Lifecycle!AtStep
  <2> QED BY <2>1 DEF Lifecycle!Next, Lifecycle!Queue, Lifecycle!Start,
                      Lifecycle!Pause, Lifecycle!Succeed
<1>4. CASE \E status \in {"ready", "running", "retry_scheduled"} :
             /\ AtWork(status)
             /\ status = "retry_scheduled" => Retryable(run)
             /\ run' = transitionStepStatus(run, run.cursor, status)
  BY <1>1, <1>4, SameDomain
     DEF Retryable, Lifecycle!Next, Lifecycle!MakeReady, Lifecycle!StartStep,
         Lifecycle!Reschedule
<1>5. CASE AtWork("completed") /\ run' = Completed(run)
  BY <1>1, <1>5, SameDomain DEF Completed, Lifecycle!Next, Lifecycle!PassStep
<1>6. CASE AtWork("paused") /\ run' = Paused(run)
  BY <1>1, <1>6, SameDomain DEF Paused, Lifecycle!Next, Lifecycle!PauseAtStep
<1>7. CASE /\ AtWork("failed")
           /\ run.steps[run.cursor].attempts >= MaxAttempts
           /\ run' = transitionRunStatus(
                transitionStepStatus(run, run.cursor, "failed"), "failed")
  BY <1>1, <1>7, SameDomain DEF Lifecycle!Next, Lifecycle!FailAtStep
<1>8. CASE /\ run.status = "paused" /\ run.cursor \in Steps
           /\ StepMayBecome(run, run.cursor, "cancelled")
           /\ run' = cancelRunFromApproval(run)
  BY <1>8, SameDomain DEF cancelRunFromApproval, Lifecycle!Next,
                          Lifecycle!CancelAtStep, Lifecycle!AtStep
<1> QED BY <1>2, <1>3, <1>4, <1>5, <1>6, <1>7, <1>8 DEF Transition

\* Only a commit that raises makes the engine leave the lifecycle: every other
\* write of the row is one transition of it.
LEMMA EffectIsTransition ==
  ASSUME IInv, SeqInv, failures = 0, Effect
  PROVE  Transition \/ run' = run
<1>1. CASE StoreKept
  BY <1>1 DEF StoreKept
<1>2. CASE RowCreated
  BY <1>2 DEF RowCreated, CreateRun, CommitWithCheckpoint, Transition
<1>3. CASE RunMoved
  BY <1>3 DEF RunMoved, Transition
<1>4. CASE StepBegun
  <2>1. PICK status \in {"ready", "running"} :
          AtWork(status) /\ run' = transitionStepStatus(run, run.cursor, status)
    BY <1>4 DEF StepBegun
  <2> QED BY <2>1 DEF Transition
<1>5. CASE StepPaused
  BY <1>5 DEF StepPaused, Transition
<1>6. CASE StepCompleted
  BY <1>6 DEF StepCompleted, Transition
<1>7. CASE StepFailed
  <2>1. PICK s : FailedFrom(s)
    BY <1>7 DEF StepFailed
  <2>2. /\ run = s /\ run \in RunSnapshot
        /\ run.status = "running" /\ run.cursor \in Steps
        /\ run.steps[run.cursor].status = "running"
    BY <2>1 DEF FailedFrom, WrittenOver, CursorStatus, SeqInv, LostCounted
  <2>3. AtWork("retry_scheduled") /\ AtWork("failed")
    BY <2>2 DEF AtWork, StepMayBecome, stepTransitions
  <2>4. run.steps[run.cursor].attempts \in Nat /\ MaxAttempts \in Nat
    BY <2>2, DomainAssumption DEF RunSnapshot
  <2>5. ~Retryable(run) => run.steps[run.cursor].attempts >= MaxAttempts
    BY <2>4 DEF Retryable
  <2>6. \/ /\ Retryable(run)
           /\ run' = transitionStepStatus(run, run.cursor, "retry_scheduled")
        \/ /\ ~Retryable(run)
           /\ run' = transitionRunStatus(
                       transitionStepStatus(run, run.cursor, "failed"), "failed")
    BY <2>1, <2>2 DEF FailedFrom
  <2> QED BY <2>3, <2>5, <2>6 DEF Transition
<1>8. CASE ApprovalDecided
  <2>1. run.cursor \in Steps
    BY <1>8, DecidedAtStep DEF SeqInv, LostCounted
  <2>2. /\ run.status = "paused"
        /\ run' = run \/ (MayCancel(run) /\ run' = cancelRunFromApproval(run))
    BY <1>8, <2>1 DEF ApprovalDecided
  <2> QED BY <2>1, <2>2 DEF MayCancel, Transition
<1> QED BY <1>1, <1>2, <1>3, <1>4, <1>5, <1>6, <1>7, <1>8 DEF Effect

\* However it is paused, resumed, approved or crashes, a run whose commits are
\* accepted goes through the lifecycle of packages/domain one transition at a
\* time (RunStateMachine: runTransitions, stepTransitions).
THEOREM EngineImplementsLifecycle ==
  ASSUME OneAtATime
  PROVE  Spec /\ [](failures = 0) => ImplementsLifecycle
<1>1. Init => Lifecycle!Init
  BY SameDomain DEF Init, NoRun, Lifecycle!Init, Lifecycle!NoRunYet
<1>2. (IInv /\ SeqInv) /\ failures = 0 /\ [Next]_vars => [Lifecycle!Next]_run
  BY EveryStepHasEffect, EffectIsTransition, TransitionIsNext
<1> QED BY <1>1, <1>2, SequentialInvariance, PTL
        DEF Spec, ImplementsLifecycle, Lifecycle!Spec

\* Apart from a failure that takes a completion back, an effect changes no
\* step but the one under the cursor.
LEMMA EffectKeepsCompleted ==
  ASSUME IInv, SeqInv, failures = 0, Effect,
         NEW i \in Steps, run.steps[i].status = "completed"
  PROVE  run'.steps[i] = run.steps[i]
<1>1. run \in RunSnapshot /\ i # run.cursor
  BY DEF IInv, TypeOK, RunWellFormed, WellFormed, AtCursor
<1>2. CASE run.status = Absent
  <2>1. run = NoRun
    BY <1>2 DEF SeqInv, Untouched
  <2>2. run.steps[i] = createWorkflowStepSnapshot(i)
    BY <2>1 DEF NoRun, createWorkflowRunSnapshot
  <2> QED BY <2>2 DEF createWorkflowStepSnapshot
<1>3. ASSUME NEW status \in StepStatus, run.cursor \in Steps,
             run'.steps = transitionStepStatus(run, run.cursor, status).steps
      PROVE  run'.steps[i] = run.steps[i]
  BY <1>1, <1>3, StepReplaced
<1>4. {"ready", "running", "paused", "completed", "retry_scheduled", "failed",
       "cancelled"} \subseteq StepStatus
  BY DEF StepStatus
<1>5. CASE run.status # Absent /\ Transition
  <2>1. CASE \E status \in RunStatus : run' = transitionRunStatus(run, status)
    BY <1>1, <2>1, RunMoveFields
  <2>2. CASE \E status \in StepStatus :
               run.cursor \in Steps
               /\ run' = transitionStepStatus(run, run.cursor, status)
    BY <1>3, <2>2
  <2>3. CASE run.cursor \in Steps
             /\ (run' = Paused(run) \/ run' = Completed(run))
    BY <1>1, <1>3, <1>4, <2>3, PausedFields, CompletedFields
  <2>4. CASE \E status \in {"failed", "cancelled"} : run.cursor \in Steps
             /\ run' = transitionRunStatus(
                         transitionStepStatus(run, run.cursor, status), status)
    <3>1. PICK status \in {"failed", "cancelled"} : run.cursor \in Steps
             /\ run' = transitionRunStatus(
                         transitionStepStatus(run, run.cursor, status), status)
      BY <2>4
    <3> DEFINE t == transitionStepStatus(run, run.cursor, status)
    <3>2. status \in StepStatus /\ status \in RunStatus
      BY DEF StepStatus, RunStatus
    <3>3. t \in RunSnapshot
      BY <1>1, <3>1, <3>2, StepReplaced
    <3> HIDE DEF t
    <3>4. run'.steps = t.steps
      BY <3>1, <3>2, <3>3, RunMoveFields DEF t
    <3> QED BY <1>3, <3>1, <3>2, <3>4 DEF t
  <2> QED BY <1>5, <2>1, <2>2, <2>3, <2>4
          DEF Transition, AtWork, cancelRunFromApproval, RunStatus, StepStatus
<1> QED BY <1>2, <1>5, EffectIsTransition

\* A step that was completed is never started again nor failed, as long as no
\* commit raised an error (completeStep, handleStepFailure).
THEOREM CompletedStepsStay ==
  ASSUME OneAtATime
  PROVE  Spec => CompletedStaysCompleted
<1>1. (IInv /\ SeqInv) /\ [Next]_vars
        => [failures = 0 =>
              \A i \in Steps : run.steps[i].status = "completed"
                                 => run'.steps[i] = run.steps[i]]_run
  BY EveryStepHasEffect, EffectKeepsCompleted
<1> QED BY <1>1, SequentialInvariance, PTL DEF Spec, CompletedStaysCompleted

-----------------------------------------------------------------------------
(* How often a gate asks *)

AskedAt(i) == {x \in ApprovalType : x.step = i}

Asks(i)     == Occurs(approvals, AskedAt(i))
Failures(i) == Times(log, "step.failed", i)

\* A step may be asked for once more: no request of it stands unanswered by a
\* failed attempt.
Fresh(i) == Asks(i) <= Failures(i)

\* Where the cursor stands there is room for one request, or the checkpoint
\* carries what was asked for.  Nothing was asked for beyond it.
AskedUpToCursor ==
  \A i \in Steps :
    /\ Asks(i) <= 1 + Failures(i)
    /\ i > run.cursor => Asks(i) = 0
    /\ i = run.cursor => \/ Fresh(i)
                         \/ checkpoint.payload /\ checkpoint.step = i

\* What a call still knows of it when it is about to run its step.
Remembers(c) ==
  /\ c.pc # "commitPause"
  /\ c.pc \in {"commitReady", "commitStepStarted", "executing"} =>
       Fresh(c.snap.cursor) \/ c.loaded = c.snap.cursor
  /\ c.pc = "commitAwait" => Fresh(c.snap.cursor)
  /\ c.pc \in {"commitReadyNext", "commitStepFailure"} =>
       \A j \in Steps : j > c.snap.cursor => Asks(j) = 0

AskInv == AskedUpToCursor /\ \A d \in Drivers : Remembers(call[d])

LEMMA OccursGrows ==
  ASSUME NEW T, NEW sq \in Seq(T), NEW tail \in Seq(T), NEW some
  PROVE  Occurs(sq, some) <= Occurs(sq \o tail, some)
<1> DEFINE all == sq \o tail
<1>1. /\ all \in Seq(T) /\ DOMAIN sq \subseteq DOMAIN all
      /\ \A n \in DOMAIN sq : all[n] = sq[n]
  BY ConcatProperties
<1> HIDE DEF all
<1>2. Places(sq, some) \subseteq Places(all, some)
  BY <1>1 DEF Places
<1>3. IsFiniteSet(Places(all, some))
  BY <1>1, PlacesFinite
<1> QED BY <1>2, <1>3, FS_Subset DEF Occurs, all

\* Failures are counted on an occurrence basis, too.
LEMMA FailuresOccur ==
  ASSUME NEW lg \in Seq(EventType), NEW name, NEW i
  PROVE  Times(lg, name, i) = Occurs(lg, {x \in EventType : Is(x, name, i)})
<1>1. \A n \in DOMAIN lg : lg[n] \in EventType
  OBVIOUS
<1>2. {n \in DOMAIN lg : lg[n].name = name /\ lg[n].step = i}
        = {n \in DOMAIN lg : lg[n] \in {x \in EventType : Is(x, name, i)}}
  BY <1>1 DEF Is
<1> QED BY <1>2 DEF Times, Occurs, Places

\* The log only grows.
LEMMA LogOnlyGrows ==
  ASSUME IInv, [Next]_vars
  PROVE  \E tail \in Seq(EventType) : log' = log \o tail
<1>1. Quiet \/ \E a, decision : Decides(a, decision)
  BY QuietOrDecides
<1>2. Seq(QuietEvent) \subseteq Seq(EventType)
  BY DEF QuietEvent
<1>3. CASE Quiet
  BY <1>2, <1>3 DEF Quiet
<1>4. ASSUME NEW a, NEW decision, Decides(a, decision)
      PROVE  \E tail \in Seq(EventType) : log' = log \o tail
  <2> DEFINE e == Event(approvalDecisionToEventName(decision),
                        approvals[a].step, decision)
  <2>1. PICK events \in Seq(QuietEvent) : log' = log \o (<<e>> \o events)
    BY <1>4 DEF Decides
  <2>2. e \in EventType
    <3>1. decision \in Decisions /\ approvals[a] \in ApprovalType
      BY <1>4 DEF Decides, IInv, TypeOK
    <3>2. approvalDecisionToEventName(decision) \in EventName
      BY <3>1 DEF approvalDecisionToEventName, EventName
    <3> QED BY <3>1, <3>2, EventTyped DEF ApprovalType, Decisions
  <2> HIDE DEF e
  <2>3. <<e>> \o events \in Seq(EventType)
    BY <1>2, <2>2, ConcatProperties
  <2> QED BY <2>1, <2>3
<1> QED BY <1>1, <1>3, <1>4

LEMMA CountsTyped ==
  ASSUME IInv, NEW i
  PROVE  Asks(i) \in Nat /\ Failures(i) \in Nat
<1>1. approvals \in Seq(ApprovalType) /\ log \in Seq(EventType)
  BY DEF IInv, TypeOK
<1>2. Asks(i) \in Nat
  BY <1>1, PlacesFinite DEF Asks
<1> DEFINE some == {x \in EventType : Is(x, "step.failed", i)}
<1>3. Failures(i) = Occurs(log, some)
  BY <1>1, FailuresOccur DEF Failures
<1> HIDE DEF some
<1>4. Occurs(log, some) \in Nat
  BY <1>1, PlacesFinite
<1> QED BY <1>2, <1>3, <1>4

LEMMA FailuresOnlyGrow ==
  ASSUME IInv, [Next]_vars, NEW i
  PROVE  /\ Asks(i) \in Nat /\ Failures(i) \in Nat
         /\ Asks(i)' \in Nat /\ Failures(i)' \in Nat
         /\ Failures(i) <= Failures(i)'
<1>1. IInv'
  BY StepInvariant
<1>2. Asks(i) \in Nat /\ Failures(i) \in Nat
  BY CountsTyped
<1>3. Asks(i)' \in Nat /\ Failures(i)' \in Nat
  <2>1. approvals' \in Seq(ApprovalType) /\ log' \in Seq(EventType)
    BY <1>1 DEF IInv, TypeOK
  <2>2. Occurs(approvals', AskedAt(i)) \in Nat
    BY <2>1, PlacesFinite
  <2> DEFINE some == {x \in EventType : Is(x, "step.failed", i)}
  <2>3. Times(log', "step.failed", i) = Occurs(log', some)
    BY <2>1, FailuresOccur
  <2> HIDE DEF some
  <2>4. Occurs(log', some) \in Nat
    BY <2>1, PlacesFinite
  <2> QED BY <2>2, <2>3, <2>4 DEF Asks, Failures
<1>4. Failures(i) <= Failures(i)'
  <2>1. PICK tail \in Seq(EventType) : log' = log \o tail
    BY LogOnlyGrows
  <2>2. log \in Seq(EventType) /\ log' \in Seq(EventType)
    BY <1>1 DEF IInv, TypeOK
  <2> DEFINE some == {x \in EventType : Is(x, "step.failed", i)}
  <2>3. /\ Times(log, "step.failed", i) = Occurs(log, some)
        /\ Times(log', "step.failed", i) = Occurs(log', some)
    BY <2>2, FailuresOccur
  <2> HIDE DEF some
  <2>4. Occurs(log, some) <= Occurs(log', some)
    BY <2>1, <2>2, OccursGrows
  <2> QED BY <2>3, <2>4 DEF Failures
<1> QED BY <1>2, <1>3, <1>4

\* Deciding an approval leaves the step that asked.
LEMMA DecidingKeepsAsks ==
  ASSUME IInv, NEW a \in DOMAIN approvals, NEW decision, NEW i,
         decision \in ApprovalStatus,
         approvals' = [approvals EXCEPT ![a].status = decision]
  PROVE  Asks(i)' = Asks(i)
<1> DEFINE x == [approvals[a] EXCEPT !.status = decision]
<1>1. /\ approvals \in Seq(ApprovalType)
      /\ \A b \in DOMAIN approvals : approvals[b] \in ApprovalType
  BY DEF IInv, TypeOK
<1>2. x \in ApprovalType /\ x.step = approvals[a].step
  BY <1>1 DEF ApprovalType
<1>3. approvals' = [approvals EXCEPT ![a] = x]
  OBVIOUS
<1> HIDE DEF x
<1>4. /\ DOMAIN approvals' = DOMAIN approvals
      /\ \A b \in DOMAIN approvals : approvals'[b] = IF b = a THEN x
                                                              ELSE approvals[b]
  BY <1>1, <1>3
<1>5. Places(approvals', AskedAt(i)) = Places(approvals, AskedAt(i))
  BY <1>1, <1>2, <1>4 DEF Places, AskedAt
<1> QED BY <1>5 DEF Asks, Occurs

LEMMA AskingCounts ==
  ASSUME IInv, NEW k \in Steps, NEW i,
         approvals' = Append(approvals, [step |-> k, status |-> "pending"])
  PROVE  Asks(i)' = IF i = k THEN Asks(i) + 1 ELSE Asks(i)
<1> DEFINE x == [step |-> k, status |-> "pending"]
           some == AskedAt(i)
<1>1. x \in ApprovalType /\ approvals \in Seq(ApprovalType)
  BY DEF ApprovalType, ApprovalStatus, IInv, TypeOK
<1>2. x \in some <=> i = k
  BY <1>1 DEF AskedAt
<1> HIDE DEF x, some
<1>3. Occurs(Append(approvals, x), some)
        = IF x \in some THEN Occurs(approvals, some) + 1
                        ELSE Occurs(approvals, some)
  BY <1>1, OccursAppend
<1> QED BY <1>2, <1>3 DEF Asks, x, some

\* What a step keeps of it that asks for nothing and stays at the cursor.
LEMMA AskedKept ==
  ASSUME IInv, AskedUpToCursor, [Next]_vars,
         \A i \in Steps : Asks(i)' = Asks(i),
         run'.cursor = run.cursor,
         \/ checkpoint' = checkpoint
         \/ run.cursor \notin Steps
         \/ checkpoint'.payload /\ checkpoint'.step = run.cursor
  PROVE  AskedUpToCursor'
<1> SUFFICES ASSUME NEW i \in Steps
             PROVE  /\ Asks(i)' <= 1 + Failures(i)'
                    /\ i > run'.cursor => Asks(i)' = 0
                    /\ i = run'.cursor =>
                         \/ Fresh(i)'
                         \/ checkpoint'.payload /\ checkpoint'.step = i
  BY DEF AskedUpToCursor
<1>1. /\ Asks(i) \in Nat /\ Failures(i) \in Nat
      /\ Failures(i)' \in Nat /\ Failures(i) <= Failures(i)'
      /\ Asks(i)' = Asks(i)
  BY FailuresOnlyGrow
<1>2. /\ Asks(i) <= 1 + Failures(i)
      /\ i > run.cursor => Asks(i) = 0
      /\ i = run.cursor => \/ Fresh(i)
                           \/ checkpoint.payload /\ checkpoint.step = i
  BY DEF AskedUpToCursor
<1>3. Fresh(i) => Fresh(i)'
  BY <1>1 DEF Fresh
<1> QED BY <1>1, <1>2, <1>3

\* Asking is remembered the same way: what a call knew stays true.
LEMMA FreshStays ==
  ASSUME IInv, [Next]_vars, NEW i, Asks(i)' = Asks(i), Fresh(i)
  PROVE  Fresh(i)'
BY FailuresOnlyGrow DEF Fresh

\* The effects that neither ask nor create ask for nothing.
LEMMA EffectAsks ==
  ASSUME IInv, SeqInv, Effect
  PROVE  \/ \A i \in Steps : Asks(i)' = Asks(i)
         \/ /\ StepPaused
            /\ approvals' = Append(approvals,
                                   [step |-> run.cursor, status |-> "pending"])
<1>1. CASE approvals' = approvals
  BY <1>1 DEF Asks
<1>2. CASE ApprovalDecided
  <2>1. PICK a \in DOMAIN approvals, decision \in Decisions :
          approvals' = [approvals EXCEPT ![a].status = decision]
    BY <1>2 DEF ApprovalDecided
  <2> QED BY <2>1, DecidingKeepsAsks DEF Decisions
<1>3. CASE StepPaused
  BY <1>1, <1>3 DEF StepPaused
<1> QED BY <1>1, <1>2, <1>3
        DEF Effect, StoreKept, RowCreated, CreateRun, RunMoved, StepBegun,
            StepCompleted, StepFailed, FailedFrom

\* A call that is over remembers nothing, and neither does one on its way.
LEMMA ElsewhereRemembers ==
  ASSUME NEW d \in Drivers,
         call'[d].pc \notin {"commitPause", "commitReady", "commitStepStarted",
                             "executing", "commitAwait", "commitReadyNext",
                             "commitStepFailure"}
  PROVE  Remembers(call[d])'
BY DEF Remembers

LEMMA EndedRemembers ==
  ASSUME NEW d \in Drivers, NEW outcome \in Waiting, IInv, End(d, outcome)
  PROVE  Remembers(call[d])'
<1>1. call'[d].pc = outcome
  BY DEF End, Ended, IInv, TypeOK
<1> QED BY <1>1, ElsewhereRemembers DEF Waiting

\* Steps that leave the store alone.
LEMMA StoreKeptAsks ==
  ASSUME IInv, SeqInv, AskInv, [Next]_vars, StoreKept
  PROVE  /\ AskedUpToCursor'
         /\ \A i : Fresh(i)' <=> Fresh(i)
         /\ \A i : Asks(i)' = Asks(i)
<1>1. \A i : Asks(i)' = Asks(i) /\ Failures(i)' = Failures(i)
  BY DEF StoreKept, Asks, Failures
<1>2. \A i : Fresh(i)' <=> Fresh(i)
  BY <1>1 DEF Fresh
<1>3. run'.cursor = run.cursor /\ checkpoint' = checkpoint
  BY DEF StoreKept
<1> QED BY <1>1, <1>2, <1>3, AskedKept DEF AskInv

LEMMA InvokeRemembers ==
  ASSUME IInv, "pause" \notin Ops, NEW d \in Drivers, Invoke(d)
  PROVE  Remembers(call[d])'
<1>1. CASE CreateRun(d)
  BY <1>1, EndedRemembers DEF CreateRun, Waiting
<1>2. ASSUME NEW op, NEW pc, NEW a, NEW decision, Enter(d, op, pc, a, decision),
             pc \in Waiting \/ pc \in {"restore", "commitRunning",
                                       "commitQueued", "readPending"}
      PROVE  Remembers(call[d])'
  <2>1. call'[d].pc = pc
    BY <1>2 DEF Enter, Ended, IInv, TypeOK
  <2> QED BY <1>2, <2>1, ElsewhereRemembers DEF Waiting
<1>3. CASE executeRun(d)
  <2> DEFINE pc == ExecuteEntry(run.status)
  <2>1. pc \in Waiting \/ pc \in {"restore", "commitRunning", "commitQueued"}
    BY DEF ExecuteEntry, Waiting
  <2> QED BY <1>2, <1>3, <2>1 DEF executeRun
<1>4. CASE queueRun(d)
  BY <1>2, <1>4 DEF queueRun, Waiting
<1>5. CASE resumeRun(d)
  BY <1>2, <1>5 DEF resumeRun, Waiting
<1>6. CASE queueResumeRun(d)
  BY <1>2, <1>6 DEF queueResumeRun, Waiting
<1>7. ~pauseRun(d)
  BY DEF pauseRun, Enter
<1>8. ASSUME NEW a, NEW decision, decideApproval(d, a, decision)
      PROVE  Remembers(call[d])'
  BY <1>2, <1>8 DEF decideApproval, Waiting
<1> QED BY <1>1, <1>3, <1>4, <1>5, <1>6, <1>7, <1>8 DEF Invoke

\* The call that restored the checkpoint of a gate knows it was asked for.
LEMMA KeptRemembers ==
  ASSUME IInv, SeqInv, AskInv, [Next]_vars, NEW d \in Drivers,
         \/ ReadPending(d) \/ RestoreCheckpoint(d) \/ StepReturns(d)
         \/ Crash(d)
  PROVE  AskedUpToCursor' /\ Remembers(call[d])'
<1> DEFINE c == call[d]
           s == c.snap
<1>1. StoreKept
  BY DEF ReadPending, RestoreCheckpoint, StepReturns, Crash,
         store, StoreKept
<1>2. /\ AskedUpToCursor'
      /\ \A i : Fresh(i)' <=> Fresh(i)
      /\ \A i : Asks(i)' = Asks(i)
  BY <1>1, StoreKeptAsks
<1>3. /\ Follows(c) /\ Remembers(c) /\ AskedUpToCursor
      /\ c \in CallType /\ call \in [Drivers -> CallType]
      /\ CallInv(c, Len(approvals)) /\ s \in RunSnapshot
  BY CallFacts DEF SeqInv, AskInv, IInv, TypeOK
<1>4. CASE ReadPending(d)
  <2>1. \/ \E outcome \in Waiting : End(d, outcome)
        \/ \E pc \in {"commitQueued", "commitDecision"} : Goto(d, pc, s)
    BY <1>4 DEF ReadPending, Waiting
  <2>2. ASSUME NEW pc \in {"commitQueued", "commitDecision"}, Goto(d, pc, s)
        PROVE  Remembers(call[d])'
    BY <2>2, GotoFields, ElsewhereRemembers
  <2> QED BY <1>2, <2>1, <2>2, EndedRemembers
<1>5. CASE RestoreCheckpoint(d)
  <2>1. s = run /\ s.status = "running"
    BY <1>3, <1>5 DEF RestoreCheckpoint, Follows, Waiting, CallInv, LoopKnows,
                      LoopPc
  <2>2. /\ LoopHead(s) \in {"commitSucceeded", "commitReady",
                            "commitStepStarted", "threw"}
        /\ LoopHead(s) # "threw" => LoopKnows([pc |-> LoopHead(s), snap |-> s])
    BY <1>3, <2>1, LoopHeadKnows
  <2>3. CASE LoopHead(s) = "threw"
    <3>1. End(d, "threw")
      BY <1>5, <2>3 DEF RestoreCheckpoint, End
    <3> QED BY <1>2, <3>1, EndedRemembers DEF Waiting
  <2>4. CASE LoopHead(s) # "threw"
    <3>1. /\ call'[d].pc = LoopHead(s) /\ call'[d].snap = s
          /\ call'[d].loaded = IF checkpoint.payload THEN checkpoint.step ELSE 0
      BY <1>3, <1>5, <2>4 DEF RestoreCheckpoint, CallType
    <3>2. LoopHead(s) \in {"commitReady", "commitStepStarted"} => s.cursor \in Steps
      BY <2>2, <2>4 DEF LoopKnows, AtStepPc
    <3>3. s.cursor \in Steps => Fresh(s.cursor) \/ call'[d].loaded = s.cursor
      BY <1>3, <2>1, <3>1 DEF AskedUpToCursor
    <3> QED BY <1>2, <2>2, <2>4, <3>1, <3>2, <3>3 DEF Remembers
  <2> QED BY <2>3, <2>4
<1>6. CASE StepReturns(d)
  <2>0. c.pc = "executing"
    BY <1>6 DEF StepReturns
  <2>1. s = run /\ s.cursor \in Steps /\ c.pc = "executing"
    BY <1>3, <2>0 DEF Follows, Waiting, CallInv, LoopKnows, AtStepPc, InStepPc
  <2>2. /\ call'[d].pc \in {"commitAwait", "commitComplete", "commitPauseStep",
                            "commitStepFailure"}
        /\ call'[d].pc = "commitAwait" => c.loaded = 0
        /\ call'[d].snap = s
    <3> DEFINE asks == s.cursor \in Gates /\ c.loaded = 0
    <3>1. PICK pc \in (IF asks THEN {"commitAwait"}
                               ELSE {"commitComplete", "commitPauseStep"})
                      \cup {"commitStepFailure"} :
            call' = [call EXCEPT ![d].pc = pc, ![d].loaded = 0]
      BY <1>6 DEF StepReturns
    <3>2. call'[d].pc = pc /\ call'[d].snap = s
      BY <1>3, <3>1 DEF CallType
    <3> QED BY <3>1, <3>2
  <2>3. s.cursor # 0
    BY <2>1, DomainAssumption DEF Steps
  <2>4. call'[d].pc = "commitAwait" => Fresh(s.cursor)
    BY <1>3, <2>1, <2>2, <2>3 DEF Remembers
  <2>5. \A j \in Steps : j > s.cursor => Asks(j) = 0
    BY <1>3, <2>1 DEF AskedUpToCursor
  <2> QED BY <1>2, <2>2, <2>4, <2>5 DEF Remembers
<1>7. CASE Crash(d)
  BY <1>2, <1>7, EndedRemembers DEF Crash, Waiting
<1> QED BY <1>4, <1>5, <1>6, <1>7

\* What is asked for when a commit is stored: the steps that write the row
\* and stay at its cursor.
LEMMA StayingAsked ==
  ASSUME IInv, SeqInv, AskInv, [Next]_vars, NEW d \in Drivers,
         \/ StoreQueued(d) \/ StoreRunning(d) \/ StoreDecision(d)
         \/ StoreSucceeded(d) \/ StoreReady(d) \/ StoreStepStarted(d)
         \/ StoreReadyNext(d) \/ StorePauseStep(d)
  PROVE  AskedUpToCursor' /\ \A i : Asks(i)' = Asks(i)
<1> DEFINE c == call[d]
           s == c.snap
<1>1. /\ Follows(c) /\ AskedUpToCursor
      /\ CallInv(c, Len(approvals)) /\ s \in RunSnapshot
      /\ run \in RunSnapshot /\ WellFormed(run)
  BY CallFacts, RowFacts DEF SeqInv, AskInv, IInv, TypeOK
<1>2. \A i : Asks(i)' = Asks(i)
  <2>1. CASE StoreDecision(d)
    <3>1. PICK a \in DOMAIN approvals, decision \in Decisions :
            approvals' = [approvals EXCEPT ![a].status = decision]
      BY <2>1, DecisionEffect DEF ApprovalDecided
    <3> QED BY <3>1, DecidingKeepsAsks DEF Decisions
  <2>2. CASE ~StoreDecision(d)
    <3>1. approvals' = approvals
      BY <2>2 DEF StoreQueued, StoreRunning, StoreSucceeded, StoreReady,
                  StoreStepStarted, StoreReadyNext, StorePauseStep
    <3> QED BY <3>1 DEF Asks
  <2> QED BY <2>1, <2>2
<1>3. ASSUME run'.cursor = run.cursor,
             \/ checkpoint' = checkpoint
             \/ run.cursor \notin Steps
             \/ checkpoint'.payload /\ checkpoint'.step = run.cursor
      PROVE  AskedUpToCursor'
  BY <1>1, <1>2, <1>3, AskedKept
<1>4. CASE StoreQueued(d) \/ StoreRunning(d)
  <2>1. s = run
    BY <1>1, <1>4 DEF StoreQueued, StoreRunning, Follows, Waiting
  <2>2. PICK status \in RunStatus : /\ run' = transitionRunStatus(run, status)
                                    /\ checkpoint' = checkpoint
    BY <1>4, <2>1 DEF StoreQueued, StoreRunning, Commit, RunStatus
  <2>3. run'.cursor = run.cursor
    BY <1>1, <2>2, RunMoveFields
  <2> QED BY <1>2, <1>3, <2>2, <2>3
<1>5. CASE StoreDecision(d)
  <2>1. ApprovalDecided
    BY <1>5, DecisionEffect
  <2>2. checkpoint' = checkpoint /\ run'.cursor = run.cursor
    BY <1>1, <2>1, CancelledFields, CancelledPastSteps DEF ApprovalDecided
  <2> QED BY <1>2, <1>3, <2>2
<1>6. CASE StoreSucceeded(d)
  <2>1. s = run /\ run.cursor \notin Steps
    BY <1>1, <1>6 DEF StoreSucceeded, Follows, Waiting, CallInv, LoopKnows
  <2>2. run' = transitionRunStatus(run, "succeeded")
    BY <1>6, <2>1 DEF StoreSucceeded, CommitWithCheckpoint
  <2>3. run'.cursor = run.cursor
    BY <1>1, <2>2, RunMoveFields DEF RunStatus
  <2> QED BY <1>2, <1>3, <2>1, <2>3
<1>7. CASE StoreReady(d) \/ StoreStepStarted(d)
  <2>1. s = run /\ s.cursor \in Steps
    BY <1>1, <1>7 DEF StoreReady, StoreStepStarted, Follows, Waiting, CallInv,
                      LoopKnows, AtStepPc
  <2>2. PICK status \in StepStatus :
          /\ run' = transitionStepStatus(run, run.cursor, status)
          /\ checkpoint' = checkpoint
    BY <1>7, <2>1 DEF StoreReady, StoreStepStarted, Commit, StepStatus
  <2>3. run'.cursor = run.cursor
    BY <1>1, <2>1, <2>2, StepReplaced
  <2> QED BY <1>2, <1>3, <2>2, <2>3
<1>8. CASE StoreReadyNext(d)
  <2>1. /\ run = Completed(s) /\ s.cursor + 1 \in Steps /\ s.cursor \in Steps
    BY <1>1, <1>8 DEF StoreReadyNext, Follows, CallInv, LoopKnows, AtStepPc,
                      InStepPc
  <2>2. run.cursor = s.cursor + 1
    BY <1>1, <2>1, CompletedFields
  <2>3. /\ run' = transitionStepStatus(run, run.cursor, "ready")
        /\ checkpoint' = checkpoint
    BY <1>8, <2>1, <2>2 DEF StoreReadyNext, NextReady, Commit
  <2>4. run'.cursor = run.cursor
    BY <1>1, <2>1, <2>2, <2>3, StepReplaced DEF StepStatus
  <2> QED BY <1>2, <1>3, <2>3, <2>4
<1>9. CASE StorePauseStep(d)
  <2>1. s = run /\ s.cursor \in Steps
    BY <1>1, <1>9 DEF StorePauseStep, Follows, Waiting, CallInv, LoopKnows,
                      AtStepPc, InStepPc
  <2>2. run' = Paused(run) /\ checkpoint' = PauseCheckpoint(run)
    BY <1>9, <2>1 DEF StorePauseStep, CommitWithCheckpoint
  <2>3. run'.cursor = run.cursor
    BY <1>1, <2>1, <2>2, PausedFields
  <2>4. checkpoint'.payload /\ checkpoint'.step = run.cursor
    BY <2>2 DEF PauseCheckpoint, Checkpoint
  <2> QED BY <1>2, <1>3, <2>3, <2>4
<1> QED BY <1>4, <1>5, <1>6, <1>7, <1>8, <1>9

\* The gate that asks had room for the request, and its checkpoint carries it.
LEMMA AwaitAsked ==
  ASSUME IInv, SeqInv, AskInv, [Next]_vars, NEW d \in Drivers,
         StoreAwait(d)
  PROVE  AskedUpToCursor'
<1> DEFINE c == call[d]
           s == c.snap
<1>1. /\ Follows(c) /\ Remembers(c) /\ AskedUpToCursor
      /\ CallInv(c, Len(approvals)) /\ s \in RunSnapshot
      /\ c.pc = "commitAwait" /\ s = run /\ s.cursor \in Steps
  BY CallFacts DEF SeqInv, AskInv, StoreAwait, Follows, Waiting,
                   CallInv, LoopKnows, AtStepPc, InStepPc
<1>2. /\ run' = Paused(run) /\ checkpoint' = PauseCheckpoint(run)
      /\ approvals' = Append(approvals, [step |-> run.cursor, status |-> "pending"])
  BY <1>1 DEF StoreAwait, CommitWithCheckpoint
<1>3. /\ run'.cursor = run.cursor
      /\ checkpoint'.payload /\ checkpoint'.step = run.cursor
  BY <1>1, <1>2, PausedFields DEF PauseCheckpoint, Checkpoint
<1>4. \A i \in Steps : Asks(i)' = IF i = run.cursor THEN Asks(i) + 1 ELSE Asks(i)
  BY <1>1, <1>2, AskingCounts
<1>5. Fresh(run.cursor)
  BY <1>1 DEF Remembers
<1>6. ASSUME NEW i \in Steps
      PROVE  /\ Asks(i)' <= 1 + Failures(i)'
             /\ i > run'.cursor => Asks(i)' = 0
             /\ i = run'.cursor => checkpoint'.payload /\ checkpoint'.step = i
  <2>1. /\ Asks(i) \in Nat /\ Failures(i) \in Nat
        /\ Failures(i)' \in Nat /\ Failures(i) <= Failures(i)'
    BY FailuresOnlyGrow
  <2>2. Asks(i) <= 1 + Failures(i) /\ (i > run.cursor => Asks(i) = 0)
    BY <1>1 DEF AskedUpToCursor
  <2>3. i = run.cursor => Asks(i) <= Failures(i)
    BY <1>5 DEF Fresh
  <2>4. run.cursor \in Nat /\ i \in Nat
    BY <1>1 DEF Steps
  <2> QED BY <1>3, <1>4, <2>1, <2>2, <2>3, <2>4
<1> QED BY <1>6 DEF AskedUpToCursor

\* Behind a completed step lies one that was never asked for.
LEMMA CompleteAsked ==
  ASSUME IInv, SeqInv, AskInv, [Next]_vars, NEW d \in Drivers,
         StoreComplete(d)
  PROVE  /\ AskedUpToCursor'
         /\ \A i \in Steps : i > call[d].snap.cursor => Asks(i)' = 0
<1> DEFINE c == call[d]
           s == c.snap
<1>1. /\ Follows(c) /\ AskedUpToCursor
      /\ CallInv(c, Len(approvals)) /\ s \in RunSnapshot
      /\ s = run /\ s.cursor \in Steps
  BY CallFacts DEF SeqInv, AskInv, StoreComplete, Follows, Waiting,
                   CallInv, LoopKnows, AtStepPc, InStepPc
<1> DEFINE r == Completed(s)
<1>2. /\ run' = r /\ approvals' = approvals
  BY <1>1 DEF StoreComplete, CommitWithCheckpoint
<1>3. run'.cursor = run.cursor + 1 /\ run.cursor \in Nat
  BY <1>1, <1>2, CompletedFields DEF Steps
<1>4. \A i : Asks(i)' = Asks(i)
  BY <1>2 DEF Asks
<1>5. ASSUME NEW i \in Steps
      PROVE  /\ Asks(i)' <= 1 + Failures(i)'
             /\ i > run'.cursor => Asks(i)' = 0
             /\ i = run'.cursor => Fresh(i)'
             /\ i > run.cursor => Asks(i)' = 0
  <2>1. /\ Asks(i) \in Nat /\ Failures(i) \in Nat
        /\ Failures(i)' \in Nat /\ Failures(i) <= Failures(i)'
    BY FailuresOnlyGrow
  <2>2. Asks(i) <= 1 + Failures(i) /\ (i > run.cursor => Asks(i) = 0)
    BY <1>1 DEF AskedUpToCursor
  <2>3. i \in Nat
    BY DEF Steps
  <2>4. i > run.cursor => Asks(i)' = 0
    BY <1>4, <2>2
  <2>5. i = run'.cursor => i > run.cursor
    BY <1>3, <2>3
  <2>6. i > run'.cursor => i > run.cursor
    BY <1>3, <2>3
  <2>7. Asks(i)' <= 1 + Failures(i)'
    BY <1>4, <2>1, <2>2
  <2>8. Asks(i)' = 0 => Fresh(i)'
    BY <2>1 DEF Fresh
  <2> QED BY <2>4, <2>5, <2>6, <2>7, <2>8
<1> QED BY <1>1, <1>5 DEF AskedUpToCursor

\* A failed attempt makes room for one more request.
LEMMA FailureCounts ==
  ASSUME IInv, NEW s, FailedFrom(s)
  PROVE  Times(log', "step.failed", s.cursor) = Failures(s.cursor) + 1
<1> DEFINE i == s.cursor
<1>1. log \in Seq(EventType) /\ i \in Steps
  BY DEF IInv, TypeOK, FailedFrom
<1>2. PICK first \in EventType, second \in EventType :
        /\ Is(first, "step.failed", i)
        /\ ~Is(second, "step.failed", i)
        /\ log' = Append(Append(Append(log, first), second), CheckpointSaved)
  <2>1. /\ Event("step.failed", i, "retry_scheduled") \in EventType
        /\ Event("step.retry_scheduled", i, "retry_scheduled") \in EventType
        /\ Event("step.failed", i, "failed") \in EventType
        /\ Event("run.failed", 0, "failed") \in EventType
    BY <1>1, EventTyped DEF EventName, StepStatus, RunStatus
  <2>2. /\ Is(Event("step.failed", i, "retry_scheduled"), "step.failed", i)
        /\ Is(Event("step.failed", i, "failed"), "step.failed", i)
        /\ ~Is(Event("step.retry_scheduled", i, "retry_scheduled"),
               "step.failed", i)
        /\ ~Is(Event("run.failed", 0, "failed"), "step.failed", i)
    BY DEF Event, Is
  <2> QED BY <2>1, <2>2 DEF FailedFrom
<1>3. CheckpointSaved \in EventType /\ ~Is(CheckpointSaved, "step.failed", i)
  BY CheckpointEvent DEF CheckpointSaved, Event, Is
<1> DEFINE l1 == Append(log, first)
           l2 == Append(l1, second)
           l3 == Append(l2, CheckpointSaved)
<1>4. l1 \in Seq(EventType) /\ l2 \in Seq(EventType)
  BY <1>1
<1>5. Times(l1, "step.failed", i) = Times(log, "step.failed", i) + 1
  BY <1>1, <1>2, TimesAppend
<1> HIDE DEF l1
<1>6. Times(l2, "step.failed", i) = Times(l1, "step.failed", i)
  BY <1>2, <1>4, TimesAppend
<1> HIDE DEF l2
<1>7. Times(l3, "step.failed", i) = Times(l2, "step.failed", i)
  BY <1>3, <1>4, TimesAppend
<1>8. log' = l3
  BY <1>2 DEF l1, l2
<1> QED BY <1>5, <1>6, <1>7, <1>8 DEF Failures

LEMMA FailureAsked ==
  ASSUME IInv, SeqInv, AskInv, [Next]_vars, NEW d \in Drivers,
         StoreStepFailure(d)
  PROVE  /\ AskedUpToCursor' /\ run'.cursor = call[d].snap.cursor
         /\ \A k \in Steps : k = call[d].snap.cursor => Fresh(k)'
<1> DEFINE c == call[d]
           s == c.snap
           i == s.cursor
<1>1. /\ Remembers(c) /\ AskedUpToCursor /\ s \in RunSnapshot
      /\ c.pc = "commitStepFailure" /\ CallInv(c, Len(approvals))
      /\ i \in Steps /\ s.status = "running"
  BY CallFacts
     DEF AskInv, StoreStepFailure, Rescheduled, Failed, CallInv, LoopKnows,
         AtStepPc,
                   InStepPc, LoopPc
<1>2. approvals' = approvals /\ \A k : Asks(k)' = Asks(k)
  BY DEF StoreStepFailure, Rescheduled, Failed, Asks
<1>3. Times(log', "step.failed", i) = Failures(i) + 1
  BY FailedCall, FailureCounts
<1>4. run'.cursor = i
  <2>1. /\ transitionStepStatus(s, i, "retry_scheduled") \in RunSnapshot
        /\ transitionStepStatus(s, i, "retry_scheduled").cursor = i
        /\ transitionStepStatus(s, i, "failed") \in RunSnapshot
        /\ transitionStepStatus(s, i, "failed").cursor = i
    BY <1>1, StepReplaced DEF StepStatus
  <2>2. transitionRunStatus(transitionStepStatus(s, i, "failed"), "failed").cursor
          = i
    BY <2>1, RunMoveFields DEF RunStatus
  <2> QED BY <2>1, <2>2
        DEF StoreStepFailure, Rescheduled, Failed, CommitWithCheckpoint
<1>5. ASSUME NEW k \in Steps
      PROVE  /\ Asks(k)' <= 1 + Failures(k)'
             /\ k > run'.cursor => Asks(k)' = 0
             /\ k = run'.cursor => Fresh(k)'
  <2>1. /\ Asks(k) \in Nat /\ Failures(k) \in Nat
        /\ Failures(k)' \in Nat /\ Failures(k) <= Failures(k)'
    BY FailuresOnlyGrow
  <2>2. Asks(k) <= 1 + Failures(k)
    BY <1>1 DEF AskedUpToCursor
  <2>3. k > i => Asks(k) = 0
    BY <1>1 DEF Remembers
  <2>4. k = i => Asks(k)' <= Failures(k)'
    BY <1>2, <1>3, <2>1, <2>2 DEF Failures
  <2> QED BY <1>2, <1>4, <2>1, <2>2, <2>3, <2>4 DEF Fresh
<1>6. AskedUpToCursor'
  BY <1>5 DEF AskedUpToCursor
<1> QED BY <1>4, <1>5, <1>6

\* A commit that is stored, heard of or not, asks for nothing too much.
LEMMA StoresAsked ==
  ASSUME IInv, SeqInv, AskInv, [Next]_vars, NEW d \in Drivers, Stores(d)
  PROVE  AskedUpToCursor'
<1>1. ~StorePause(d)
  BY DEF StorePause, AskInv, Remembers
<1> QED BY <1>1, StayingAsked, AwaitAsked, CompleteAsked, FailureAsked
        DEF Stores

\* What the call knows when it goes on after such a commit.
LEMMA CommitRemembers ==
  ASSUME IInv, SeqInv, AskInv, [Next]_vars, NEW d \in Drivers,
         \/ CommitQueued(d) \/ CommitRunning(d) \/ CommitDecision(d)
         \/ succeedRun(d) \/ CommitReady(d) \/ CommitStepStarted(d)
         \/ CommitReadyNext(d) \/ pauseFromStep(d)
  PROVE  Remembers(call[d])'
<1> DEFINE c == call[d]
           s == c.snap
<1>1. /\ Follows(c) /\ Remembers(c) /\ AskedUpToCursor
      /\ c \in CallType /\ call \in [Drivers -> CallType]
      /\ CallInv(c, Len(approvals)) /\ s \in RunSnapshot
      /\ run \in RunSnapshot /\ WellFormed(run)
  BY CallFacts, RowFacts DEF SeqInv, AskInv, IInv, TypeOK
<1>2. \A i : Asks(i)' = Asks(i)
  <2>1. CASE StoreKept
    BY <2>1 DEF StoreKept, Asks
  <2>2. CASE ~StoreKept
    BY <2>2, StayingAsked
       DEF CommitQueued, CommitRunning, CommitDecision, succeedRun, CommitReady,
           CommitStepStarted, CommitReadyNext, pauseFromStep, StoreKept, store
  <2> QED BY <2>1, <2>2
<1>3. CASE CommitDecision(d) \/ succeedRun(d) \/ pauseFromStep(d)
  <2>1. \E outcome \in Waiting : End(d, outcome)
    BY <1>3 DEF CommitDecision, succeedRun, pauseFromStep, Waiting
  <2> QED BY <2>1, EndedRemembers
<1>4. CASE CommitQueued(d) \/ CommitRunning(d)
  <2>1. \/ End(d, "returned")
        \/ \E r : Goto(d, "commitRunning", r) \/ Goto(d, "restore", r)
    BY <1>4 DEF CommitQueued, CommitRunning
  <2> QED BY <2>1, EndedRemembers, GotoFields, ElsewhereRemembers DEF Waiting
<1>9. CASE CommitReady(d)
  <2>1. s = run /\ s.cursor \in Steps /\ c.pc = "commitReady"
    BY <1>1, <1>9
       DEF CommitReady, StoreReady, Follows, Waiting, CallInv, LoopKnows,
           AtStepPc
  <2> DEFINE r == transitionStepStatus(s, s.cursor, "ready")
  <2>2. /\ run' = r /\ checkpoint' = checkpoint
        /\ Goto(d, "commitStepStarted", r)
    BY <1>9 DEF CommitReady, StoreReady, Commit
  <2>3. r.cursor = s.cursor
    BY <1>1, <2>1, StepReplaced DEF StepStatus
  <2> HIDE DEF r
  <2>4. /\ call'[d].pc = "commitStepStarted" /\ call'[d].snap = r
        /\ call'[d].loaded = c.loaded
    BY <1>1, <2>2 DEF Goto, CallType
  <2>5. Fresh(s.cursor) \/ c.loaded = s.cursor
    BY <1>1, <2>1 DEF Remembers
  <2>6. Remembers(call[d])'
    BY <1>2, <2>3, <2>4, <2>5, FreshStays DEF Remembers
  <2> QED BY <2>6
<1>10. CASE CommitStepStarted(d)
  <2>1. s = run /\ s.cursor \in Steps /\ c.pc = "commitStepStarted"
    BY <1>1, <1>10
       DEF CommitStepStarted, StoreStepStarted, Follows, Waiting, CallInv,
           LoopKnows,
                       AtStepPc
  <2> DEFINE r == transitionStepStatus(s, s.cursor, "running")
  <2>2. /\ run' = r /\ checkpoint' = checkpoint
        /\ call' = [call EXCEPT ![d] =
             [c EXCEPT !.pc = "executing", !.snap = r,
                       !.loaded = IF @ = r.cursor THEN @ ELSE 0]]
    BY <1>10 DEF CommitStepStarted, StoreStepStarted, Commit
  <2>3. r.cursor = s.cursor
    BY <1>1, <2>1, StepReplaced DEF StepStatus
  <2> HIDE DEF r
  <2>4. /\ call'[d].pc = "executing" /\ call'[d].snap = r
        /\ c.loaded = s.cursor => call'[d].loaded = s.cursor
    BY <1>1, <2>2, <2>3 DEF CallType
  <2>5. Fresh(s.cursor) \/ c.loaded = s.cursor
    BY <1>1, <2>1 DEF Remembers
  <2>6. Remembers(call[d])'
    BY <1>2, <2>3, <2>4, <2>5, FreshStays DEF Remembers
  <2> QED BY <2>6
<1>11. CASE CommitReadyNext(d)
  <2>1. /\ run = Completed(s) /\ s.cursor + 1 \in Steps /\ s.cursor \in Steps
        /\ s.status = "running" /\ WellFormed(s) /\ c.pc = "commitReadyNext"
    BY <1>1, <1>11
       DEF CommitReadyNext, StoreReadyNext, NextReady, Follows, CallInv,
           LoopKnows, AtStepPc,
                       InStepPc, LoopPc
  <2>2. run.cursor = s.cursor + 1
    BY <1>1, <2>1, CompletedFields
  <2> DEFINE r == transitionStepStatus(run, run.cursor, "ready")
  <2>3. /\ run' = r /\ checkpoint' = checkpoint
        /\ Goto(d, "commitStepStarted", r)
    BY <1>11, <2>1, <2>2 DEF CommitReadyNext, StoreReadyNext, NextReady, Commit
  <2>4. r.cursor = run.cursor
    BY <1>1, <2>1, <2>2, StepReplaced DEF StepStatus
  <2> HIDE DEF r
  <2>5. call'[d].pc = "commitStepStarted" /\ call'[d].snap = r
    BY <2>3, GotoFields
  <2>6. Asks(run.cursor) = 0
    <3>1. run.cursor > s.cursor
      BY <2>1, <2>2, DomainAssumption DEF Steps
    <3> QED BY <1>1, <2>1, <2>2, <3>1 DEF Remembers
  <2>7. Fresh(run.cursor)
    BY <2>6, FailuresOnlyGrow DEF Fresh
  <2>8. Remembers(call[d])'
    BY <1>2, <2>4, <2>5, <2>7, FreshStays DEF Remembers
  <2> QED BY <2>8
<1> QED BY <1>3, <1>4, <1>9, <1>10, <1>11

LEMMA CompleteRemembers ==
  ASSUME IInv, SeqInv, AskInv, [Next]_vars, NEW d \in Drivers,
         CommitComplete(d)
  PROVE  Remembers(call[d])'
<1> DEFINE s == call[d].snap
           r == Completed(s)
<1>1. \A i \in Steps : i > s.cursor => Asks(i)' = 0
  BY CompleteAsked DEF CommitComplete
<1>2. CASE Goto(d, "commitReadyNext", s)
  <2>1. call'[d].pc = "commitReadyNext" /\ call'[d].snap = s
    BY <1>2, GotoFields
  <2> QED BY <1>1, <2>1 DEF Remembers
<1>3. CASE Goto(d, "commitSucceeded", r)
  <2> HIDE DEF r
  <2> QED BY <1>3, GotoFields, ElsewhereRemembers
<1> QED BY <1>2, <1>3 DEF CommitComplete

LEMMA FailureRemembers ==
  ASSUME IInv, SeqInv, AskInv, [Next]_vars, NEW d \in Drivers,
         handleStepFailure(d)
  PROVE  Remembers(call[d])'
<1> DEFINE s == call[d].snap
           r == Rescheduled(s)
<1>1. /\ run'.cursor = s.cursor
      /\ \A k \in Steps : k = s.cursor => Fresh(k)'
  BY FailureAsked DEF handleStepFailure
<1>2. /\ s \in RunSnapshot /\ s.cursor \in Steps /\ s.status = "running"
  BY CallFacts DEF handleStepFailure, StoreStepFailure, CallInv, LoopKnows,
                   AtStepPc, InStepPc, LoopPc
<1>3. End(d, "returned") \/ Goto(d, LoopHead(r), r)
  BY DEF handleStepFailure
<1>4. r \in RunSnapshot /\ r.status = "running" /\ r.cursor = s.cursor
  BY <1>2, StepReplaced DEF StepStatus, Rescheduled
<1> HIDE DEF r
<1>5. CASE Goto(d, LoopHead(r), r)
  <2>1. LoopHead(r) \in {"commitSucceeded", "commitReady",
                         "commitStepStarted", "threw"}
    BY <1>4, LoopHeadKnows
  <2>2. call'[d].pc = LoopHead(r) /\ call'[d].snap = r
    BY <1>5, GotoFields
  <2> QED BY <1>1, <1>2, <1>4, <2>1, <2>2 DEF Remembers
<1> QED BY <1>3, <1>5, EndedRemembers DEF Waiting

\* A commit that raised: the call knows that nothing was asked for beyond the
\* step it takes for failed, whether the commit was stored or not.
LEMMA RaisingRemembers ==
  ASSUME IInv, SeqInv, AskInv, [Next]_vars, NEW d \in Drivers,
         CommitRejected(d) \/ AnswerLost(d)
  PROVE  AskedUpToCursor' /\ Remembers(call[d])'
<1> DEFINE c == call[d]
           s == c.snap
<1>1. /\ Follows(c) /\ Remembers(c) /\ AskedUpToCursor
      /\ CallInv(c, Len(approvals)) /\ run \in RunSnapshot
  BY CallFacts, RowFacts DEF SeqInv, AskInv
<1>2. AskedUpToCursor'
  <2>1. CASE CommitRejected(d)
    <3>1. StoreKept
      BY <2>1 DEF CommitRejected, store, StoreKept
    <3> QED BY <3>1, StoreKeptAsks
  <2>2. CASE AnswerLost(d)
    BY <2>2, StoresAsked DEF AnswerLost
  <2> QED BY <2>1, <2>2
<1>3. \/ End(d, "threw")
      \/ /\ c.pc \in {"commitAwait", "commitPauseStep", "commitComplete",
                      "commitReadyNext"}
         /\ Goto(d, "commitStepFailure", s)
  BY DEF CommitRejected, AnswerLost, Raises
<1>4. CASE End(d, "threw")
  BY <1>2, <1>4, EndedRemembers DEF Waiting
<1>5. CASE /\ c.pc \in {"commitAwait", "commitPauseStep", "commitComplete",
                        "commitReadyNext"}
           /\ Goto(d, "commitStepFailure", s)
  <2>1. s.cursor \in Steps
    BY <1>1, <1>5 DEF CallInv, LoopKnows, AtStepPc, InStepPc
  <2>2. \A j \in Steps : j > s.cursor => Asks(j) = 0
    <3>1. CASE c.pc = "commitReadyNext"
      BY <1>1, <3>1 DEF Remembers
    <3>2. CASE c.pc # "commitReadyNext"
      <4>1. s = run
        BY <1>1, <1>5, <3>2 DEF Follows, Waiting
      <4> QED BY <1>1, <4>1 DEF AskedUpToCursor
    <3> QED BY <3>1, <3>2
  <2>3. \A j \in Steps : j > s.cursor => Asks(j)' = 0
    <3>1. CASE CommitRejected(d)
      <4>1. StoreKept
        BY <3>1 DEF CommitRejected, store, StoreKept
      <4> QED BY <2>2, <4>1, StoreKeptAsks
    <3>2. CASE AnswerLost(d)
      <4>1. \/ StoreAwait(d) \/ StorePauseStep(d) \/ StoreComplete(d)
            \/ StoreReadyNext(d)
        BY <1>5, <3>2
           DEF AnswerLost, Stores, StoreQueued, StoreRunning, StorePause,
               StoreDecision, StoreReady, StoreStepStarted, StoreStepFailure,
               StoreSucceeded
      <4>2. CASE StoreAwait(d)
        <5>1. approvals' = Append(approvals,
                                  [step |-> s.cursor, status |-> "pending"])
          BY <4>2 DEF StoreAwait
        <5> QED BY <2>1, <2>2, <5>1, AskingCounts DEF Steps
      <4>3. CASE StoreComplete(d)
        BY <4>3, CompleteAsked
      <4>4. CASE StorePauseStep(d) \/ StoreReadyNext(d)
        BY <2>2, <4>4, StayingAsked
      <4> QED BY <4>1, <4>2, <4>3, <4>4
    <3> QED BY <3>1, <3>2
  <2>4. call'[d].pc = "commitStepFailure" /\ call'[d].snap = s
    BY <1>5, GotoFields
  <2> QED BY <1>2, <2>3, <2>4 DEF Remembers
<1> QED BY <1>3, <1>4, <1>5

LEMMA CreateAsked ==
  ASSUME IInv, SeqInv, [Next]_vars, NEW d \in Drivers, CreateRun(d)
  PROVE  AskedUpToCursor'
<1>1. approvals = <<>> /\ approvals' = approvals
  BY DEF CreateRun, SeqInv, Untouched
<1>2. ASSUME NEW i \in Steps
      PROVE  Asks(i)' = 0
  <2>1. Places(approvals', AskedAt(i)) = {}
    BY <1>1 DEF Places
  <2> QED BY <2>1, FS_EmptySet DEF Asks, Occurs
<1>3. ASSUME NEW i \in Steps
      PROVE  Asks(i)' <= 1 + Failures(i)' /\ Fresh(i)'
  BY <1>2, FailuresOnlyGrow DEF Fresh
<1> QED BY <1>2, <1>3 DEF AskedUpToCursor

LEMMA InitAsked == Init => AskInv
<1> SUFFICES ASSUME Init
             PROVE  AskInv
  OBVIOUS
<1>1. approvals = <<>> /\ IInv
  BY InitInvariant DEF Init
<1>2. ASSUME NEW i \in Steps
      PROVE  Asks(i) = 0
  <2>1. Places(approvals, AskedAt(i)) = {}
    BY <1>1 DEF Places
  <2> QED BY <2>1, FS_EmptySet DEF Asks, Occurs
<1>3. ASSUME NEW i \in Steps
      PROVE  Asks(i) <= 1 + Failures(i) /\ Fresh(i)
  <2>1. Asks(i) \in Nat /\ Failures(i) \in Nat
    BY <1>1, CountsTyped
  <2> QED BY <1>2, <2>1 DEF Fresh
<1>4. \A d \in Drivers : call[d].pc = "idle"
  BY DEF Init, Ended
<1>5. \A d \in Drivers : Remembers(call[d])
  BY <1>4 DEF Remembers
<1> QED BY <1>2, <1>3, <1>5 DEF AskInv, AskedUpToCursor

LEMMA StepAsked ==
  ASSUME OneAtATime, "pause" \notin Ops
  PROVE  IInv /\ SeqInv /\ AskInv /\ [Next]_vars => AskInv'
<1> SUFFICES ASSUME IInv, SeqInv, AskInv, [Next]_vars
             PROVE  AskInv'
  OBVIOUS
<1>1. CASE UNCHANGED vars
  <2>1. StoreKept /\ call' = call
    BY <1>1 DEF vars, StoreKept
  <2>2. AskedUpToCursor' /\ (\A i : Fresh(i)' <=> Fresh(i))
        /\ \A i : Asks(i)' = Asks(i)
    BY <2>1, StoreKeptAsks
  <2>3. ASSUME NEW d \in Drivers
        PROVE  Remembers(call[d])'
    <3>1. Remembers(call[d])
      BY DEF AskInv
    <3> QED BY <2>1, <2>2, <3>1 DEF Remembers
  <2> QED BY <2>2, <2>3 DEF AskInv
<1>2. ASSUME NEW d \in Drivers,
             \/ Invoke(d) \/ Advance(d) \/ CommitRejected(d)
             \/ AnswerLost(d) \/ Crash(d)
      PROVE  AskInv'
  <2>1. \A e \in Drivers : e = d
    BY DEF OneAtATime
  <2>2. CASE CreateRun(d)
    <3>1. Invoke(d)
      BY <2>2 DEF Invoke
    <3> QED BY <2>1, <2>2, <3>1, CreateAsked, InvokeRemembers DEF AskInv
  <2>3. CASE Invoke(d) /\ ~CreateRun(d)
    <3>1. StoreKept
      BY <2>3 DEF Invoke, Enter, executeRun, queueRun, resumeRun,
                  queueResumeRun, pauseRun, decideApproval, store, StoreKept
    <3>2. AskedUpToCursor'
      BY <3>1, StoreKeptAsks
    <3> QED BY <2>1, <2>3, <3>2, InvokeRemembers DEF AskInv
  <2>4. CASE CommitRejected(d) \/ AnswerLost(d) \/ Crash(d)
    <3>1. AskedUpToCursor' /\ Remembers(call[d])'
      BY <2>4, KeptRemembers, RaisingRemembers
    <3> QED BY <2>1, <3>1 DEF AskInv
  <2>5. CASE Advance(d)
    <3>1. CASE ReadPending(d) \/ RestoreCheckpoint(d) \/ StepReturns(d)
      <4>1. AskedUpToCursor' /\ Remembers(call[d])'
        BY <3>1, KeptRemembers
      <4> QED BY <2>1, <4>1 DEF AskInv
    <3>2. CASE StoreKept \/ Stores(d)
      <4>1. AskedUpToCursor'
        BY <3>2, StoreKeptAsks, StoresAsked
      <4>2. Remembers(call[d])'
        <5>1. ~CommitPause(d)
          BY DEF CommitPause, StorePause, AskInv, Remembers
        <5>2. awaitApprovalFromStep(d) => Remembers(call[d])'
          BY EndedRemembers DEF awaitApprovalFromStep, Waiting
        <5> QED BY <2>5, <5>1, <5>2, KeptRemembers, CommitRemembers,
                   CompleteRemembers, FailureRemembers DEF Advance
      <4> QED BY <2>1, <4>1, <4>2 DEF AskInv
    <3> QED BY <2>5, <3>1, <3>2, AdvanceStores
  <2> QED BY <1>2, <2>2, <2>3, <2>4, <2>5
<1> QED BY <1>1, <1>2 DEF Next

\* A gate is asked again only after an attempt of its step failed, as long as
\* nobody pauses the run from outside (which overwrites the checkpoint that
\* carries the answer): an approval given survives the resume, the crash of
\* the driver, a commit that raises and the next resume (awaitApprovalFromStep,
\* runLoop reading the checkpoint, handleStepFailure).
THEOREM NeverAskedTwice ==
  ASSUME OneAtATime, "pause" \notin Ops
  PROVE  Spec => []AskedAgainOnlyAfterFailure
<1>1. Init => (IInv /\ SeqInv) /\ AskInv
  BY InitInvariant, InitSequential, InitAsked
<1>2. ((IInv /\ SeqInv) /\ AskInv) /\ [Next]_vars
        => ((IInv /\ SeqInv) /\ AskInv)'
  BY StepInvariant, StepSequential, StepAsked
<1>3. (IInv /\ SeqInv) /\ AskInv => AskedAgainOnlyAfterFailure
  <2> SUFFICES ASSUME IInv, AskInv, NEW i \in Steps
               PROVE  Cardinality({a \in DOMAIN approvals : approvals[a].step = i})
                        <= 1 + Cardinality(EventsOf("step.failed", i))
    BY DEF AskedAgainOnlyAfterFailure
  <2>1. \A a \in DOMAIN approvals : approvals[a] \in ApprovalType
    BY DEF IInv, TypeOK
  <2>2. {a \in DOMAIN approvals : approvals[a].step = i}
          = Places(approvals, AskedAt(i))
    BY <2>1 DEF Places, AskedAt
  <2>3. Cardinality(EventsOf("step.failed", i)) = Failures(i)
    BY DEF EventsOf, Failures, Times
  <2>4. Asks(i) <= 1 + Failures(i)
    BY DEF AskInv, AskedUpToCursor
  <2> QED BY <2>2, <2>3, <2>4 DEF Asks, Occurs
<1> QED BY <1>1, <1>2, <1>3, PTL DEF Spec

-----------------------------------------------------------------------------
(* What one step of a call does to the row, the approvals, the log and the *)
(* call itself: all that a composition of the engine has to know of it.    *)

Others(d) == \A e \in Drivers \ {d} : call'[e] = call[e]

EndsAs(d, outcome) == call'[d] = Ended(outcome)

GoesTo(d, pc, status) ==
  /\ call'[d].pc = pc /\ call'[d].op = call[d].op
  /\ call'[d].snap.status = status

\* The log lg tells that the run had this status.
Tells(lg, status) ==
  status = Absent \/ \E n \in DOMAIN lg : lg[n].step = 0 /\ lg[n].status = status

LEMMA EndedFields ==
  ASSUME NEW outcome
  PROVE  /\ Ended(outcome).pc = outcome /\ Ended(outcome).op = "none"
         /\ Ended(outcome).snap.status = Absent
BY DEF Ended, NoRun, createWorkflowRunSnapshot

LEMMA EndFacts ==
  ASSUME IInv, NEW d \in Drivers, NEW outcome, End(d, outcome)
  PROVE  Others(d) /\ EndsAs(d, outcome)
BY DEF IInv, TypeOK, End, Others, EndsAs

LEMMA GotoFacts ==
  ASSUME IInv, NEW d \in Drivers, NEW pc, NEW snap, Goto(d, pc, snap)
  PROVE  /\ Others(d) /\ GoesTo(d, pc, snap.status)
BY DEF IInv, TypeOK, CallType, Goto, Others, GoesTo

\* An event that was logged stays in the log, and a commit adds its own.
LEMMA StillTold ==
  ASSUME IInv, [Next]_vars, NEW status, Tells(log, status)
  PROVE  Tells(log', status)
<1>1. PICK tail \in Seq(EventType) : log' = log \o tail
  BY LogOnlyGrows
<1>2. log \in Seq(EventType)
  BY DEF IInv, TypeOK
<1>3. DOMAIN log \subseteq DOMAIN log' /\ \A n \in DOMAIN log : log'[n] = log[n]
  BY <1>1, <1>2, ConcatProperties
<1> QED BY <1>3 DEF Tells

LEMMA NowTold ==
  ASSUME IInv, NEW events \in Seq(EventType), NEW k \in DOMAIN events,
         events[k].step = 0,
         \/ log' = log \o events
         \/ log' = log \o Append(events, CheckpointSaved)
  PROVE  Tells(log', events[k].status)
<1>1. /\ log \in Seq(EventType) /\ Append(events, CheckpointSaved) \in Seq(EventType)
      /\ k \in 1 .. Len(events) /\ Len(events) \in Nat /\ Len(log) \in Nat
  <2>1. CheckpointSaved \in EventType
    BY EventTyped DEF CheckpointSaved, EventName
  <2>2. log \in Seq(EventType)
    BY DEF IInv, TypeOK
  <2> QED BY <2>1, <2>2
<1>2. PICK all \in Seq(EventType) :
        log' = log \o all /\ k \in 1 .. Len(all) /\ all[k] = events[k]
  <2>1. /\ k \in 1 .. Len(Append(events, CheckpointSaved))
        /\ Append(events, CheckpointSaved)[k] = events[k]
    BY <1>1
  <2> QED BY <1>1, <2>1
<1>3. /\ Len(log) + k \in DOMAIN log' /\ log'[Len(log) + k] = events[k]
  BY <1>1, <1>2, ConcatProperties
<1> QED BY <1>3 DEF Tells

-----------------------------------------------------------------------------
LEMMA ReadPendingStep ==
  ASSUME IInv, NEW d \in Drivers, ReadPending(d)
  PROVE  LET c == call[d] IN
         /\ c.pc = "readPending" /\ Others(d) /\ StoreKept
         /\ \/ EndsAs(d, "threw") /\ (c.op = "queueResume" => PendingApproval # 0)
            \/ /\ EndsAs(d, "returned")
               /\ c.op = "queueResume" /\ c.snap.status # "paused"
            \/ /\ GoesTo(d, "commitQueued", c.snap.status)
               /\ PendingApproval = 0
               /\ c.op \in {"resume", "queueResume"} /\ c.snap.status = "paused"
            \/ GoesTo(d, "commitDecision", c.snap.status) /\ c.op = "decide"
<1> DEFINE c == call[d]
<1>1. /\ c.pc = "readPending" /\ StoreKept
      /\ c.op \in {"resume", "queueResume", "decide"}
  BY DEF ReadPending, StoreKept, store
<1>2. c.op = "resume" => c.snap.status = "paused"
  BY <1>1, CallFacts DEF CallInv, EntryKnows
<1>3. \/ End(d, "threw") /\ (c.op = "queueResume" => PendingApproval # 0)
      \/ End(d, "returned") /\ c.op = "queueResume" /\ c.snap.status # "paused"
      \/ /\ Goto(d, "commitQueued", c.snap)
         /\ PendingApproval = 0
         /\ c.op \in {"resume", "queueResume"} /\ c.snap.status = "paused"
      \/ Goto(d, "commitDecision", c.snap) /\ c.op = "decide"
  BY <1>1, <1>2 DEF ReadPending
<1> HIDE DEF c
<1> QED BY <1>1, <1>3, EndFacts, GotoFacts DEF c

\* What each commit puts into the store, and then how its call goes on.
LEMMA QueuedStored ==
  ASSUME IInv, NEW d \in Drivers, StoreQueued(d)
  PROVE  LET c == call[d] IN
         /\ c.pc = "commitQueued" /\ c.snap.status \in {"pending", "paused"}
         /\ run'.status = "queued" /\ approvals' = approvals
         /\ Tells(log', "queued")
<1> DEFINE c == call[d]
           r == transitionRunStatus(c.snap, "queued")
<1>1. /\ c.pc = "commitQueued" /\ c.snap \in RunSnapshot
      /\ c.snap.status \in {"pending", "paused"}
  BY CallFacts DEF StoreQueued, CallInv, EntryKnows
<1>2. r.status = "queued"
  BY <1>1 DEF transitionRunStatus, RunSnapshot
<1>3. PICK name \in {"run.resumed", "run.queued"} :
        Commit(r, <<Event(name, 0, "queued")>>) /\ approvals' = approvals
  BY DEF StoreQueued
<1> DEFINE e == Event(name, 0, "queued")
<1>4. e \in EventType /\ e.step = 0 /\ e.status = "queued"
  BY EventTyped DEF EventName, RunStatus, Event
<1> HIDE DEF r, e
<1>5. Tells(log', "queued")
  <2>1. <<e>> \in Seq(EventType) /\ 1 \in DOMAIN <<e>> /\ <<e>>[1] = e
    BY <1>4
  <2> QED BY <1>3, <1>4, <2>1, NowTold DEF Commit, e
<1> QED BY <1>1, <1>2, <1>3, <1>5 DEF Commit

LEMMA CommitQueuedStep ==
  ASSUME IInv, NEW d \in Drivers, CommitQueued(d)
  PROVE  LET c == call[d] IN
         /\ c.pc = "commitQueued" /\ Others(d)
         /\ c.snap.status \in {"pending", "paused"}
         /\ run'.status = "queued" /\ approvals' = approvals
         /\ Tells(log', "queued")
         /\ IF c.op \in {"queue", "queueResume"}
            THEN EndsAs(d, "returned")
            ELSE GoesTo(d, "commitRunning", "queued")
<1> DEFINE c == call[d]
           r == transitionRunStatus(c.snap, "queued")
<1>1. c.snap \in RunSnapshot
  BY CallFacts
<1>2. r.status = "queued"
  BY <1>1 DEF transitionRunStatus, RunSnapshot
<1>3. /\ StoreQueued(d)
      /\ IF c.op \in {"queue", "queueResume"} THEN End(d, "returned")
                                               ELSE Goto(d, "commitRunning", r)
  BY DEF CommitQueued
<1> HIDE DEF r
<1> QED BY <1>2, <1>3, QueuedStored, EndFacts, GotoFacts

LEMMA RunningStored ==
  ASSUME IInv, NEW d \in Drivers, StoreRunning(d)
  PROVE  /\ call[d].pc = "commitRunning"
         /\ run'.status = "running" /\ approvals' = approvals
         /\ Tells(log', "running")
<1> DEFINE r == transitionRunStatus(call[d].snap, "running")
           e == Event("run.started", 0, "running")
<1>1. call[d].pc = "commitRunning" /\ call[d].snap \in RunSnapshot
  BY CallFacts DEF StoreRunning
<1>2. r.status = "running"
  BY <1>1 DEF transitionRunStatus, RunSnapshot
<1>3. Commit(r, <<e>>) /\ approvals' = approvals
  BY DEF StoreRunning
<1>4. e \in EventType /\ e.step = 0 /\ e.status = "running"
  BY EventTyped DEF EventName, RunStatus, Event
<1> HIDE DEF r, e
<1>5. Tells(log', "running")
  <2>1. <<e>> \in Seq(EventType) /\ 1 \in DOMAIN <<e>> /\ <<e>>[1] = e
    BY <1>4
  <2> QED BY <1>3, <1>4, <2>1, NowTold DEF Commit
<1> QED BY <1>1, <1>2, <1>3, <1>5 DEF Commit

LEMMA CommitRunningStep ==
  ASSUME IInv, NEW d \in Drivers, CommitRunning(d)
  PROVE  /\ call[d].pc = "commitRunning" /\ Others(d)
         /\ run'.status = "running" /\ approvals' = approvals
         /\ Tells(log', "running")
         /\ GoesTo(d, "restore", "running")
<1> DEFINE r == transitionRunStatus(call[d].snap, "running")
<1>1. call[d].snap \in RunSnapshot
  BY CallFacts
<1>2. r.status = "running"
  BY <1>1 DEF transitionRunStatus, RunSnapshot
<1>3. StoreRunning(d) /\ Goto(d, "restore", r)
  BY DEF CommitRunning
<1> HIDE DEF r
<1> QED BY <1>2, <1>3, RunningStored, GotoFacts

LEMMA PauseStored ==
  ASSUME IInv, NEW d \in Drivers, StorePause(d)
  PROVE  /\ call[d].pc = "commitPause"
         /\ run'.status = "paused" /\ approvals' = approvals
         /\ Tells(log', "paused")
<1> DEFINE r == transitionRunStatus(call[d].snap, "paused")
           e == Event("run.paused", 0, "paused")
<1>1. call[d].pc = "commitPause" /\ call[d].snap \in RunSnapshot
  BY CallFacts DEF StorePause
<1>2. r.status = "paused"
  BY <1>1 DEF transitionRunStatus, RunSnapshot
<1>3. /\ run' = r /\ log' = log \o Append(<<e>>, CheckpointSaved)
      /\ approvals' = approvals
  BY DEF StorePause, CommitWithCheckpoint
<1>4. e \in EventType /\ e.step = 0 /\ e.status = "paused"
  BY EventTyped DEF EventName, RunStatus, Event
<1> HIDE DEF r, e
<1>5. Tells(log', "paused")
  <2>1. <<e>> \in Seq(EventType) /\ 1 \in DOMAIN <<e>> /\ <<e>>[1] = e
    BY <1>4
  <2> QED BY <1>3, <1>4, <2>1, NowTold
<1> QED BY <1>1, <1>2, <1>3, <1>5

LEMMA CommitPauseStep ==
  ASSUME IInv, NEW d \in Drivers, CommitPause(d)
  PROVE  /\ call[d].pc = "commitPause" /\ Others(d)
         /\ run'.status = "paused" /\ approvals' = approvals
         /\ Tells(log', "paused")
         /\ EndsAs(d, "returned")
BY PauseStored, EndFacts DEF CommitPause

\* A decision that is not refused either leaves the row as the call read it or
\* cancels the run.
LEMMA DecisionStored ==
  ASSUME IInv, NEW d \in Drivers, StoreDecision(d)
  PROVE  LET c == call[d] IN
         /\ c.pc = "commitDecision" /\ c.snap.status = "paused"
         /\ c.approval \in DOMAIN approvals /\ c.decision \in Decisions
         /\ approvals' = [approvals EXCEPT ![c.approval].status = c.decision]
         /\ c.decision = "approved" => run'.status = "paused"
         /\ c.decision # "approved" =>
              run'.status = "cancelled" /\ Tells(log', "cancelled")
<1> DEFINE c == call[d]
           a == c.approval
           r == cancelRunFromApproval(c.snap)
           first == Event(approvalDecisionToEventName(c.decision),
                          approvals[a].step, c.decision)
           step == IF c.snap.cursor \in Steps
                   THEN <<Event("step.cancelled", c.snap.cursor, "cancelled")>>
                   ELSE <<>>
           e == Event("run.cancelled", 0, "cancelled")
<1>1. /\ c.pc = "commitDecision" /\ c.snap \in RunSnapshot
      /\ c.snap.status = "paused"
      /\ a \in DOMAIN approvals /\ c.decision \in Decisions
      /\ approvals \in Seq(ApprovalType)
  <2>1. /\ a \in 1 .. Len(approvals) /\ approvals \in Seq(ApprovalType)
        /\ c.pc = "commitDecision" /\ c.snap \in RunSnapshot
        /\ c.snap.status = "paused" /\ c.decision \in Decisions
    BY CallFacts DEF StoreDecision, CallInv, EntryKnows, IInv, TypeOK
  <2> QED BY <2>1
<1>2. /\ approvals' = [approvals EXCEPT ![a].status = c.decision]
      /\ IF c.decision = "approved" THEN run' = c.snap
         ELSE run' = r /\ log' = log \o (<<first>> \o step \o <<e>>)
  BY DEF StoreDecision, Commit
<1>3. r.status = "cancelled"
  BY <1>1, StepReplaced
     DEF cancelRunFromApproval, transitionRunStatus, RunSnapshot, StepStatus
<1>4. step \in Seq(EventType) /\ e \in EventType
      /\ e.step = 0 /\ e.status = "cancelled"
  <2>1. /\ c.snap.cursor \in Steps =>
             Event("step.cancelled", c.snap.cursor, "cancelled") \in EventType
        /\ Event("run.cancelled", 0, "cancelled") \in EventType
    BY EventTyped DEF EventName, StepStatus, RunStatus
  <2> QED BY <2>1 DEF Event
<1>5. first \in EventType
  <2>1. approvalDecisionToEventName(c.decision) \in EventName
    BY <1>1 DEF approvalDecisionToEventName, EventName
  <2>2. approvals[a] \in ApprovalType
    BY <1>1
  <2> QED BY <1>1, <2>1, <2>2, EventTyped DEF ApprovalType, Decisions
<1> HIDE DEF first, step, e, r
<1> DEFINE all == <<first>> \o step \o <<e>>
<1>6. /\ all \in Seq(EventType) /\ Len(all) \in DOMAIN all
      /\ all[Len(all)] = e
  <2>1. <<first>> \o step \in Seq(EventType) /\ <<e>> \in Seq(EventType)
        /\ Len(<<e>>) = 1 /\ <<e>>[1] = e
    BY <1>4, <1>5, ConcatProperties
  <2> DEFINE head == <<first>> \o step
  <2>2. Len(head) \in Nat
    BY <2>1
  <2> HIDE DEF head
  <2>3. all = head \o <<e>>
    BY DEF head
  <2>4. head \in Seq(EventType)
    BY <2>1 DEF head
  <2> HIDE DEF all
  <2>5. /\ all \in Seq(EventType) /\ Len(all) = Len(head) + 1
        /\ all[Len(head) + 1] = e
    BY <2>1, <2>2, <2>3, <2>4, ConcatProperties
  <2> QED BY <2>2, <2>5
<1>7. c.decision # "approved" => Tells(log', "cancelled")
  <2> HIDE DEF all
  <2>1. c.decision # "approved" => log' = log \o all
    BY <1>2 DEF all
  <2> QED BY <1>4, <1>6, <2>1, NowTold
<1> HIDE DEF all
<1> QED BY <1>1, <1>2, <1>3, <1>7

LEMMA CommitDecisionStep ==
  ASSUME IInv, NEW d \in Drivers, CommitDecision(d)
  PROVE  LET c == call[d] IN
         /\ c.pc = "commitDecision" /\ Others(d) /\ c.snap.status = "paused"
         /\ \/ EndsAs(d, "threw") /\ StoreKept
            \/ /\ EndsAs(d, "returned")
               /\ c.approval \in DOMAIN approvals /\ c.decision \in Decisions
               /\ approvals' = [approvals EXCEPT ![c.approval].status = c.decision]
               /\ c.decision = "approved" => run'.status = "paused"
               /\ c.decision # "approved" =>
                    run'.status = "cancelled" /\ Tells(log', "cancelled")
<1>1. call[d].pc = "commitDecision" /\ call[d].snap.status = "paused"
  BY CallFacts DEF CommitDecision, CallInv, EntryKnows
<1>2. CASE StoreDecision(d) /\ End(d, "returned")
  BY <1>2, DecisionStored, EndFacts
<1>3. CASE End(d, "threw") /\ StoreKept
  BY <1>1, <1>3, EndFacts
<1> QED BY <1>2, <1>3 DEF CommitDecision, StoreKept, store

-----------------------------------------------------------------------------
\* The same for the steps of the run loop that leave the store alone...
LEMMA LoopReadStep ==
  ASSUME IInv, NEW d \in Drivers, RestoreCheckpoint(d) \/ StepReturns(d)
  PROVE  /\ call[d].pc \in {"restore", "executing"} /\ Others(d) /\ StoreKept
         /\ \/ EndsAs(d, "threw")
            \/ \E pc \in LoopPc : GoesTo(d, pc, call[d].snap.status)
<1> DEFINE c == call[d]
<1>1. c \in CallType /\ c.snap \in RunSnapshot /\ CallInv(c, Len(approvals))
  BY CallFacts
<1>2. CASE RestoreCheckpoint(d)
  <2> DEFINE pc == LoopHead(c.snap)
             loaded == IF checkpoint.payload THEN checkpoint.step ELSE 0
             e == [c EXCEPT !.pc = pc, !.loaded = loaded]
  <2>1. c.pc = "restore" /\ StoreKept
        /\ call' = [call EXCEPT ![d] = IF pc = "threw" THEN Ended("threw") ELSE e]
    BY <1>2 DEF RestoreCheckpoint, StoreKept, store
  <2>2. c.snap.status = "running"
    BY <1>1, <2>1 DEF CallInv, LoopKnows, LoopPc
  <2>3. pc \in LoopPc \cup {"threw"}
    BY <1>1, <2>2, LoopHeadKnows DEF LoopPc
  <2>4. e.pc = pc /\ e.op = c.op /\ e.snap = c.snap
    BY <1>1 DEF CallType
  <2> HIDE DEF pc, e
  <2>5. Others(d) /\ call'[d] = IF pc = "threw" THEN Ended("threw") ELSE e
    BY <2>1 DEF IInv, TypeOK, Others
  <2> QED BY <2>1, <2>3, <2>4, <2>5 DEF EndsAs, GoesTo
<1>3. CASE StepReturns(d)
  <2>1. PICK pc \in {"commitAwait", "commitComplete", "commitPauseStep",
                     "commitStepFailure"} :
          call' = [call EXCEPT ![d].pc = pc, ![d].loaded = 0]
    BY <1>3 DEF StepReturns
  <2>2. c.pc = "executing" /\ StoreKept
    BY <1>3 DEF StepReturns, StoreKept, store
  <2>3. Others(d) /\ GoesTo(d, pc, c.snap.status)
    BY <1>1, <2>1 DEF IInv, TypeOK, CallType, Others, GoesTo
  <2>4. pc \in LoopPc
    BY DEF LoopPc
  <2> QED BY <2>2, <2>3, <2>4
<1> QED BY <1>2, <1>3

\* ... and for those that commit: the loop goes on with a running run, or it
\* ends its call and the run is no longer running.
KeepsRunning == run'.status = "running" /\ approvals' = approvals

StopsRun ==
  /\ run'.status \in {"paused", "succeeded", "failed"}
  /\ Tells(log', run'.status)
  /\ \/ approvals' = approvals
     \/ /\ run'.status = "paused"
        /\ \E i \in Steps :
             approvals' = Append(approvals, [step |-> i, status |-> "pending"])

LoopGoesOn(d) == KeepsRunning /\ \E pc \in LoopPc : GoesTo(d, pc, "running")

LoopEnds(d) == StopsRun /\ EndsAs(d, "returned")

LoopCommits(d) ==
  \/ CommitReady(d) \/ CommitStepStarted(d) \/ CommitComplete(d)
  \/ CommitReadyNext(d) \/ handleStepFailure(d) \/ awaitApprovalFromStep(d)
  \/ pauseFromStep(d) \/ succeedRun(d)

LoopStores(d) ==
  \/ StoreReady(d) \/ StoreStepStarted(d) \/ StoreComplete(d)
  \/ StoreReadyNext(d) \/ StoreStepFailure(d) \/ StoreAwait(d)
  \/ StorePauseStep(d) \/ StoreSucceeded(d)

LEMMA StartStored ==
  ASSUME IInv, NEW d \in Drivers, StoreReady(d) \/ StoreStepStarted(d)
  PROVE  call[d].pc \in LoopPc /\ KeepsRunning
<1> DEFINE c == call[d]
<1>1. /\ c.snap \in RunSnapshot
      /\ c.pc \in {"commitReady", "commitStepStarted"}
      /\ c.snap.status = "running" /\ c.snap.cursor \in Steps
  BY CallFacts DEF StoreReady, StoreStepStarted, CallInv, LoopKnows, LoopPc,
                   AtStepPc
<1>2. PICK status \in {"ready", "running"} :
        /\ run' = transitionStepStatus(c.snap, c.snap.cursor, status)
        /\ approvals' = approvals
  BY DEF StoreReady, StoreStepStarted, Commit
<1>3. run'.status = "running"
  BY <1>1, <1>2, StepReplaced DEF StepStatus
<1> QED BY <1>1, <1>2, <1>3 DEF KeepsRunning, LoopPc

LEMMA CompletionStored ==
  ASSUME IInv, NEW d \in Drivers, StoreComplete(d) \/ StoreReadyNext(d)
  PROVE  call[d].pc \in LoopPc /\ KeepsRunning
<1> DEFINE s == call[d].snap
           t == Completed(s)
<1>1. /\ call[d].pc \in {"commitComplete", "commitReadyNext"}
      /\ s \in RunSnapshot /\ WellFormed(s)
      /\ s.status = "running" /\ s.cursor \in Steps
  BY InStepFacts DEF StoreComplete, StoreReadyNext, InStepPc
<1>2. t \in RunSnapshot /\ t.status = "running" /\ t.cursor = s.cursor + 1
  BY <1>1, CompletedWellFormed
<1>3. CASE StoreComplete(d)
  BY <1>1, <1>2, <1>3
     DEF StoreComplete, CommitWithCheckpoint, KeepsRunning, LoopPc
<1>4. CASE StoreReadyNext(d)
  <2>1. s.cursor + 1 \in Steps
    BY <1>4, CallFacts DEF StoreReadyNext, CallInv, LoopKnows
  <2>2. run' = transitionStepStatus(t, s.cursor + 1, "ready")
        /\ approvals' = approvals
    BY <1>4 DEF StoreReadyNext, NextReady, Commit
  <2> HIDE DEF t
  <2>3. run'.status = "running"
    BY <1>2, <2>1, <2>2, StepReplaced DEF StepStatus
  <2> QED BY <1>1, <2>2, <2>3 DEF KeepsRunning, LoopPc
<1> QED BY <1>3, <1>4

LEMMA FailureStored ==
  ASSUME IInv, NEW d \in Drivers, StoreStepFailure(d)
  PROVE  /\ call[d].pc \in LoopPc
         /\ IF Retryable(call[d].snap) THEN KeepsRunning ELSE StopsRun
<1> DEFINE s == call[d].snap
           i == s.cursor
<1>1. /\ s \in RunSnapshot /\ s.status = "running" /\ i \in Steps
      /\ call[d].pc = "commitStepFailure"
      /\ approvals' = approvals
  BY InStepFacts DEF StoreStepFailure, InStepPc
<1>2. CASE Retryable(s)
  <2>1. run' = transitionStepStatus(s, i, "retry_scheduled")
    BY <1>2 DEF StoreStepFailure, Rescheduled, CommitWithCheckpoint
  <2>2. run'.status = "running"
    BY <1>1, <2>1, StepReplaced DEF StepStatus
  <2> QED BY <1>1, <1>2, <2>2 DEF KeepsRunning, LoopPc
<1>3. CASE ~Retryable(s)
  <2> DEFINE u == transitionStepStatus(s, i, "failed")
             r == transitionRunStatus(u, "failed")
             events == <<Event("step.failed", i, "failed"),
                         Event("run.failed", 0, "failed")>>
  <2>1. run' = r /\ log' = log \o Append(events, CheckpointSaved)
    BY <1>3 DEF StoreStepFailure, Failed, CommitWithCheckpoint
  <2>2. u \in RunSnapshot
    BY <1>1, StepReplaced DEF StepStatus
  <2> HIDE DEF u
  <2>3. r.status = "failed"
    BY <2>2 DEF transitionRunStatus, RunSnapshot
  <2>4. /\ Event("step.failed", i, "failed") \in EventType
        /\ Event("run.failed", 0, "failed") \in EventType
    BY <1>1, EventTyped DEF EventName, StepStatus, RunStatus
  <2>5. /\ events \in Seq(EventType) /\ 2 \in DOMAIN events
        /\ events[2].step = 0 /\ events[2].status = "failed"
    BY <2>4 DEF Event
  <2> HIDE DEF r, events
  <2>6. Tells(log', "failed")
    BY <2>1, <2>5, NowTold
  <2> QED BY <1>1, <1>3, <2>1, <2>3, <2>6 DEF StopsRun, LoopPc
<1> QED BY <1>2, <1>3

LEMMA PausedStored ==
  ASSUME IInv, NEW d \in Drivers, StoreAwait(d) \/ StorePauseStep(d)
  PROVE  call[d].pc \in LoopPc /\ StopsRun
<1> DEFINE r == call[d].snap
           asking == Append(PauseEvents(r),
                            Event("approval.requested", r.cursor, "pending"))
<1>1. /\ r \in RunSnapshot /\ r.status = "running" /\ r.cursor \in Steps
      /\ call[d].pc \in LoopPc
  BY InStepFacts DEF StoreAwait, StorePauseStep, InStepPc, LoopPc
<1>2. Paused(r).status = "paused"
  BY <1>1, StepReplaced DEF Paused, transitionRunStatus, RunSnapshot, StepStatus
<1>3. PICK events \in {PauseEvents(r), asking} :
        run' = Paused(r) /\ log' = log \o Append(events, CheckpointSaved)
  BY DEF StoreAwait, StorePauseStep, CommitWithCheckpoint
<1>4. \/ approvals' = approvals
      \/ approvals' = Append(approvals, [step |-> r.cursor, status |-> "pending"])
  BY DEF StoreAwait, StorePauseStep
<1>5. /\ events \in Seq(EventType) /\ 2 \in DOMAIN events
      /\ events[2].step = 0 /\ events[2].status = "paused"
  <2>1. PauseEvents(r) \in Seq(EventType) /\ asking \in Seq(EventType)
    BY <1>1, PauseEventsTyped
  <2>2. /\ Len(PauseEvents(r)) = 2 /\ PauseEvents(r)[2].step = 0
        /\ PauseEvents(r)[2].status = "paused"
    BY DEF PauseEvents, Event
  <2>3. Len(asking) = 3 /\ asking[2] = PauseEvents(r)[2]
    BY DEF PauseEvents
  <2> HIDE DEF asking
  <2> QED BY <2>1, <2>2, <2>3
<1> HIDE DEF asking
<1>6. Tells(log', "paused")
  BY <1>3, <1>5, NowTold
<1> QED BY <1>1, <1>2, <1>3, <1>4, <1>6 DEF StopsRun

LEMMA SuccessStored ==
  ASSUME IInv, NEW d \in Drivers, StoreSucceeded(d)
  PROVE  call[d].pc \in LoopPc /\ StopsRun
<1> DEFINE r == transitionRunStatus(call[d].snap, "succeeded")
           e == Event("run.succeeded", 0, "succeeded")
<1>1. call[d].pc = "commitSucceeded" /\ call[d].snap \in RunSnapshot
  BY CallFacts DEF StoreSucceeded
<1>2. r.status = "succeeded"
  BY <1>1 DEF transitionRunStatus, RunSnapshot
<1>3. /\ run' = r /\ log' = log \o Append(<<e>>, CheckpointSaved)
      /\ approvals' = approvals
  BY DEF StoreSucceeded, CommitWithCheckpoint
<1>4. e \in EventType /\ e.step = 0 /\ e.status = "succeeded"
  BY EventTyped DEF EventName, RunStatus, Event
<1> HIDE DEF r, e
<1>5. Tells(log', "succeeded")
  <2>1. <<e>> \in Seq(EventType) /\ 1 \in DOMAIN <<e>> /\ <<e>>[1] = e
    BY <1>4
  <2> QED BY <1>3, <1>4, <2>1, NowTold
<1> QED BY <1>1, <1>2, <1>3, <1>5 DEF StopsRun, LoopPc

LEMMA LoopStored ==
  ASSUME IInv, NEW d \in Drivers, LoopStores(d)
  PROVE  call[d].pc \in LoopPc /\ (KeepsRunning \/ StopsRun)
BY StartStored, CompletionStored, FailureStored, PausedStored, SuccessStored
   DEF LoopStores

LEMMA LoopStartsStep ==
  ASSUME IInv, NEW d \in Drivers, CommitReady(d) \/ CommitStepStarted(d)
  PROVE  call[d].pc \in LoopPc /\ Others(d) /\ LoopGoesOn(d)
<1> DEFINE c == call[d]
<1>1. call[d].pc \in LoopPc /\ KeepsRunning
  BY StartStored DEF CommitReady, CommitStepStarted
<1>2. /\ c \in CallType /\ c.snap \in RunSnapshot
      /\ c.snap.status = "running" /\ c.snap.cursor \in Steps
  BY CallFacts DEF CommitReady, StoreReady, CommitStepStarted, StoreStepStarted,
                   CallInv, LoopKnows, LoopPc, AtStepPc
<1>3. CASE CommitReady(d)
  <2> DEFINE r == transitionStepStatus(c.snap, c.snap.cursor, "ready")
  <2>1. r.status = "running"
    BY <1>2, StepReplaced DEF StepStatus
  <2>2. Goto(d, "commitStepStarted", r)
    BY <1>3 DEF CommitReady
  <2> HIDE DEF r
  <2> QED BY <1>1, <2>1, <2>2, GotoFacts DEF LoopGoesOn, LoopPc
<1>4. CASE CommitStepStarted(d)
  <2> DEFINE r == transitionStepStatus(c.snap, c.snap.cursor, "running")
             loaded == IF c.loaded = r.cursor THEN c.loaded ELSE 0
             e == [c EXCEPT !.pc = "executing", !.snap = r, !.loaded = loaded]
  <2>1. r.status = "running"
    BY <1>2, StepReplaced DEF StepStatus
  <2>2. call' = [call EXCEPT ![d] = e]
    BY <1>4 DEF CommitStepStarted
  <2> HIDE DEF r, loaded
  <2>3. e.pc = "executing" /\ e.snap = r /\ e.op = c.op
    BY <1>2 DEF CallType
  <2> HIDE DEF e
  <2>4. Others(d) /\ GoesTo(d, "executing", "running")
    BY <2>1, <2>2, <2>3 DEF IInv, TypeOK, Others, GoesTo
  <2> QED BY <1>1, <2>4 DEF LoopGoesOn, LoopPc
<1> QED BY <1>3, <1>4

LEMMA LoopCompletesStep ==
  ASSUME IInv, NEW d \in Drivers, CommitComplete(d) \/ CommitReadyNext(d)
  PROVE  call[d].pc \in LoopPc /\ Others(d) /\ LoopGoesOn(d)
<1> DEFINE s == call[d].snap
           t == Completed(s)
           r == NextReady(s)
<1>1. call[d].pc \in LoopPc /\ KeepsRunning
  BY CompletionStored DEF CommitComplete, CommitReadyNext
<1>2. s.status = "running" /\ t.status = "running"
  <2>1. /\ s \in RunSnapshot /\ WellFormed(s)
        /\ s.status = "running" /\ s.cursor \in Steps
    BY InStepFacts DEF CommitComplete, StoreComplete, CommitReadyNext,
                       StoreReadyNext, InStepPc
  <2> QED BY <2>1, CompletedWellFormed
<1>3. CASE CommitComplete(d)
  <2>1. Goto(d, "commitReadyNext", s) \/ Goto(d, "commitSucceeded", t)
    BY <1>3 DEF CommitComplete
  <2> HIDE DEF t
  <2> QED BY <1>1, <1>2, <2>1, GotoFacts DEF LoopGoesOn, LoopPc
<1>4. CASE CommitReadyNext(d)
  <2>1. run' = r /\ Goto(d, "commitStepStarted", r)
    BY <1>4 DEF CommitReadyNext, StoreReadyNext, Commit
  <2> HIDE DEF r
  <2>2. r.status = "running"
    BY <1>1, <2>1 DEF KeepsRunning
  <2> QED BY <1>1, <2>1, <2>2, GotoFacts DEF LoopGoesOn, LoopPc
<1> QED BY <1>3, <1>4

LEMMA LoopFailsStep ==
  ASSUME IInv, NEW d \in Drivers, handleStepFailure(d)
  PROVE  call[d].pc \in LoopPc /\ Others(d) /\ (LoopGoesOn(d) \/ LoopEnds(d))
<1> DEFINE s == call[d].snap
           r == Rescheduled(s)
<1>1. /\ call[d].pc \in LoopPc
      /\ IF Retryable(s) THEN KeepsRunning ELSE StopsRun
  BY FailureStored DEF handleStepFailure
<1>2. IF Retryable(s) THEN Goto(d, LoopHead(r), r) ELSE End(d, "returned")
  BY DEF handleStepFailure
<1>3. /\ r.status = "running" /\ r.cursor \in Steps
      /\ r.steps[r.cursor].status = "retry_scheduled"
  <2>1. s \in RunSnapshot /\ s.status = "running" /\ s.cursor \in Steps
    BY InStepFacts DEF handleStepFailure, StoreStepFailure, InStepPc
  <2> QED BY <2>1, StepReplaced DEF StepStatus, Rescheduled
<1> HIDE DEF r
<1>4. LoopHead(r) = "commitReady"
  BY <1>3 DEF LoopHead
<1> QED BY <1>1, <1>2, <1>3, <1>4, GotoFacts, EndFacts
        DEF LoopGoesOn, LoopEnds, LoopPc

LEMMA LoopStops ==
  ASSUME IInv, NEW d \in Drivers,
         awaitApprovalFromStep(d) \/ pauseFromStep(d) \/ succeedRun(d)
  PROVE  call[d].pc \in LoopPc /\ Others(d) /\ LoopEnds(d)
BY PausedStored, SuccessStored, EndFacts
   DEF awaitApprovalFromStep, pauseFromStep, succeedRun, LoopEnds

LEMMA LoopCommitStep ==
  ASSUME IInv, NEW d \in Drivers, LoopCommits(d)
  PROVE  call[d].pc \in LoopPc /\ Others(d) /\ (LoopGoesOn(d) \/ LoopEnds(d))
BY LoopStartsStep, LoopCompletesStep, LoopFailsStep, LoopStops
   DEF LoopCommits

-----------------------------------------------------------------------------
(* Calls that begin, fail or die *)

LEMMA CreateRunStep ==
  ASSUME IInv, NEW d \in Drivers, CreateRun(d)
  PROVE  /\ call[d].pc \in Waiting /\ Others(d) /\ EndsAs(d, "returned")
         /\ run.status = Absent /\ run'.status = "pending"
         /\ approvals' = approvals
         /\ Tells(log', "pending")
<1> DEFINE e == Event("run.created", 0, "pending")
           rest == IF NumSteps > 0 THEN <<Event("step.ready", 1, "ready")>> ELSE <<>>
<1>1. /\ run' = createWorkflowRunSnapshot /\ approvals' = approvals
      /\ log' = log \o Append(<<e>> \o rest, CheckpointSaved)
      /\ End(d, "returned") /\ call[d].pc \in Waiting /\ run.status = Absent
  BY DEF CreateRun, CommitWithCheckpoint
<1>2. createWorkflowRunSnapshot.status = "pending"
  BY DEF createWorkflowRunSnapshot
<1>3. /\ e \in EventType /\ e.step = 0 /\ e.status = "pending"
      /\ rest \in Seq(EventType)
  <2>1. /\ e \in EventType
        /\ NumSteps > 0 => Event("step.ready", 1, "ready") \in EventType
    BY EventTyped, DomainAssumption DEF EventName, RunStatus, StepStatus, Steps
  <2> QED BY <2>1 DEF Event
<1> HIDE DEF e, rest
<1> DEFINE events == <<e>> \o rest
<1>4. events \in Seq(EventType) /\ 1 \in DOMAIN events /\ events[1] = e
  <2>1. <<e>> \in Seq(EventType) /\ Len(<<e>>) = 1 /\ <<e>>[1] = e
    BY <1>3
  <2>2. /\ events \in Seq(EventType) /\ Len(events) = 1 + Len(rest)
        /\ events[1] = e
    BY <1>3, <2>1, ConcatProperties
  <2>3. Len(rest) \in Nat
    BY <1>3
  <2> HIDE DEF events
  <2> QED BY <2>2, <2>3
<1> HIDE DEF events
<1>5. Tells(log', "pending")
  BY <1>1, <1>3, <1>4, NowTold DEF events
<1> QED BY <1>1, <1>2, <1>5, EndFacts

LEMMA EnterStep ==
  ASSUME IInv, NEW d \in Drivers, NEW op, NEW pc, NEW a, NEW decision,
         Enter(d, op, pc, a, decision)
  PROVE  /\ call[d].pc \in Waiting /\ Others(d) /\ StoreKept
         /\ run.status # Absent
         /\ pc \in Waiting => EndsAs(d, pc)
         /\ pc \notin Waiting => /\ call'[d].pc = pc /\ call'[d].op = op
                                 /\ call'[d].snap = run
BY DEF Enter, IInv, TypeOK, Others, StoreKept, store, EndsAs

\* A commit that raises, stored or not.
LEMMA RaisingStep ==
  ASSUME IInv, NEW d \in Drivers, Raises(d)
  PROVE  /\ call[d].pc \notin Waiting /\ Others(d)
         /\ \/ EndsAs(d, "threw")
            \/ /\ call[d].pc \in LoopPc
               /\ GoesTo(d, "commitStepFailure", call[d].snap.status)
<1>1. call[d].pc \notin Waiting
  BY DEF Raises, CommitPc, LoopPc, ReadyPc, Waiting
<1>2. \/ End(d, "threw")
      \/ /\ call[d].pc \in LoopPc
         /\ Goto(d, "commitStepFailure", call[d].snap)
  BY DEF Raises, LoopPc
<1> QED BY <1>1, <1>2, EndFacts, GotoFacts

LEMMA FaultStep ==
  ASSUME IInv, NEW d \in Drivers, CommitRejected(d) \/ Crash(d)
  PROVE  /\ call[d].pc \notin Waiting /\ Others(d) /\ StoreKept
         /\ \/ EndsAs(d, "threw") /\ ~Crash(d)
            \/ EndsAs(d, "idle") /\ Crash(d)
            \/ /\ call[d].pc \in LoopPc
               /\ GoesTo(d, "commitStepFailure", call[d].snap.status)
<1>1. StoreKept
  BY DEF CommitRejected, Crash, StoreKept, store
<1>2. CASE CommitRejected(d)
  <2>1. EndsAs(d, "threw") => ~Crash(d)
    <3>1. EndsAs(d, "threw") => call'[d].pc = "threw"
      BY EndedFields DEF EndsAs
    <3>2. Crash(d) => call'[d].pc = "idle"
      BY EndFacts, EndedFields DEF EndsAs, Crash
    <3> QED BY <3>1, <3>2
  <2> QED BY <1>1, <1>2, <2>1, RaisingStep DEF CommitRejected
<1>3. CASE Crash(d)
  BY <1>1, <1>3, EndFacts DEF Crash
<1> QED BY <1>2, <1>3

LEMMA StoresCases ==
  ASSUME NEW d \in Drivers, Stores(d)
  PROVE  \/ StoreQueued(d) \/ StoreRunning(d) \/ StorePause(d)
         \/ StoreDecision(d) \/ LoopStores(d)
BY DEF Stores, LoopStores

\* A stored commit that raises leaves the run running only out of the loop.
LEMMA AnswerLostStep ==
  ASSUME IInv, NEW d \in Drivers, AnswerLost(d)
  PROVE  /\ call[d].pc \notin Waiting /\ Others(d) /\ lost' # 0
         /\ \/ EndsAs(d, "threw")
            \/ /\ call[d].pc \in LoopPc
               /\ GoesTo(d, "commitStepFailure", call[d].snap.status)
         /\ \/ call[d].pc \in LoopPc \cup {"commitRunning"}
            \/ run'.status # "running" /\ call[d].pc = "commitPause"
            \/ run'.status = "queued"
            \/ run'.status # "running" /\ call[d].snap.status = "paused"
<1>1. Raises(d) /\ Stores(d) /\ lost' # 0
  BY DEF AnswerLost, IInv, TypeOK
<1>2. CASE StoreDecision(d)
  <2>1. run'.status \in {"paused", "cancelled"} /\ call[d].snap.status = "paused"
    BY <1>2, DecisionStored
  <2> QED BY <1>1, <2>1, RaisingStep
<1>3. CASE ~StoreDecision(d)
  <2>1. \/ call[d].pc \in LoopPc \cup {"commitRunning"}
        \/ run'.status # "running" /\ call[d].pc = "commitPause"
        \/ run'.status = "queued"
    BY <1>1, <1>3, StoresCases, QueuedStored, RunningStored, PauseStored, LoopStored
  <2> QED BY <1>1, <2>1, RaisingStep
<1> QED BY <1>2, <1>3

-----------------------------------------------------------------------------
(* The log tells every status the row has had *)

StatusTold ==
  /\ Tells(log, run.status)
  /\ \A d \in Drivers : Tells(log, call[d].snap.status)

LEMMA StepTells ==
  ASSUME IInv, StatusTold, [Next]_vars
  PROVE  StatusTold'
<1> SUFFICES ASSUME Next PROVE StatusTold'
  BY DEF StatusTold, Tells, vars
<1>1. Tells(log', Absent) /\ Tells(log', run.status)
      /\ \A e \in Drivers : Tells(log', call[e].snap.status)
  BY StillTold DEF StatusTold, Tells
<1>2. ASSUME NEW d \in Drivers, Others(d), Tells(log', run'.status),
             Tells(log', call'[d].snap.status)
      PROVE  StatusTold'
  BY <1>1, <1>2 DEF StatusTold, Others
<1>3. PICK d \in Drivers : \/ Invoke(d) \/ Advance(d) \/ CommitRejected(d)
                          \/ AnswerLost(d) \/ Crash(d)
  BY DEF Next
<1>4. ASSUME NEW outcome, EndsAs(d, outcome)
      PROVE  Tells(log', call'[d].snap.status)
  BY <1>1, <1>4, EndedFields DEF EndsAs
<1>5. CASE CreateRun(d)
  BY <1>2, <1>4, <1>5, CreateRunStep
<1>6. ASSUME NEW op, NEW pc, NEW a, NEW decision, Enter(d, op, pc, a, decision)
      PROVE  StatusTold'
  BY <1>1, <1>2, <1>4, <1>6, EnterStep DEF StoreKept
<1>7. CASE Invoke(d)
  BY <1>5, <1>6, <1>7
     DEF Invoke, executeRun, queueRun, resumeRun, queueResumeRun, pauseRun,
         decideApproval
<1>8. CASE ReadPending(d) \/ RestoreCheckpoint(d) \/ StepReturns(d)
           \/ CommitRejected(d) \/ Crash(d)
  BY <1>1, <1>2, <1>4, <1>8, ReadPendingStep, LoopReadStep, FaultStep
     DEF StoreKept, GoesTo
<1>9. CASE CommitQueued(d) \/ CommitRunning(d) \/ CommitPause(d)
  BY <1>1, <1>2, <1>4, <1>9, CommitQueuedStep, CommitRunningStep, CommitPauseStep
     DEF GoesTo
<1>10. CASE CommitDecision(d)
  <2>1. Tells(log', run'.status)
    <3>1. Tells(log', call[d].snap.status)
      BY <1>1
    <3> QED BY <1>1, <1>10, <3>1, CommitDecisionStep DEF StoreKept
  <2> QED BY <1>2, <1>4, <1>10, <2>1, CommitDecisionStep
<1>11. CASE LoopCommits(d)
  <2>1. Tells(log', "running")
    <3>1. call[d].pc \in LoopPc /\ call[d].snap.status = "running"
      BY <1>11, LoopCommitStep, CallFacts DEF CallInv, LoopKnows
    <3> QED BY <1>1, <3>1
  <2> QED BY <1>2, <1>4, <1>11, <2>1, LoopCommitStep
        DEF LoopGoesOn, LoopEnds, KeepsRunning, StopsRun, GoesTo
<1>12. CASE AnswerLost(d)
  <2>1. /\ Others(d) /\ Stores(d)
        /\ \/ EndsAs(d, "threw")
           \/ GoesTo(d, "commitStepFailure", call[d].snap.status)
    BY <1>12, RaisingStep DEF AnswerLost
  <2>2. Tells(log', call'[d].snap.status)
    BY <1>1, <1>4, <2>1 DEF GoesTo
  <2>3. Tells(log', run'.status)
    <3>1. CASE StoreQueued(d) \/ StoreRunning(d) \/ StorePause(d)
      BY <3>1, QueuedStored, RunningStored, PauseStored
    <3>2. CASE StoreDecision(d)
      <4>1. Tells(log', "paused")
        BY <1>1, <3>2, DecisionStored
      <4> QED BY <3>2, <4>1, DecisionStored
    <3>3. CASE LoopStores(d)
      <4>1. call[d].snap.status = "running"
        BY <3>3, LoopStored, CallFacts DEF CallInv, LoopKnows
      <4>2. Tells(log', "running")
        BY <1>1, <4>1
      <4> QED BY <3>3, <4>2, LoopStored DEF KeepsRunning, StopsRun
    <3> QED BY <2>1, <3>1, <3>2, <3>3, StoresCases
  <2> QED BY <1>2, <2>1, <2>2, <2>3
<1> QED BY <1>3, <1>7, <1>8, <1>9, <1>10, <1>11, <1>12 DEF Advance, LoopCommits

\* Every status the row has, and every one a call still holds in its snapshot,
\* was told by an event of the run: a call that writes an old snapshot back
\* writes no status that the log does not know.
THEOREM EveryStatusWasLogged == Spec => []StatusTold
<1>1. Init => IInv /\ StatusTold
  <2>1. Init => StatusTold
    BY DEF Init, StatusTold, Tells, NoRun, Ended, createWorkflowRunSnapshot
  <2> QED BY <2>1, InitInvariant
<1>2. IInv /\ StatusTold /\ [Next]_vars => (IInv /\ StatusTold)'
  BY StepInvariant, StepTells
<1> QED BY <1>1, <1>2, PTL DEF Spec

=============================================================================
