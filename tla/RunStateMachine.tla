-------------------------- MODULE RunStateMachine --------------------------
(***************************************************************************)
(* What a run promises to whoever reads its row: the lifecycle of          *)
(* packages/domain, one transition of the tables at a time.  The run moves *)
(* through the run table and the step under the cursor through the step    *)
(* table; a step is worked on only while the run is running, the cursor    *)
(* moves only over a step that completes, and nothing follows an ended run.*)
(***************************************************************************)
EXTENDS Domain

VARIABLE run

NoRunYet == [createWorkflowRunSnapshot EXCEPT !.status = Absent]

AtStep(r) == r.cursor \in Steps

Init == run = NoRunYet

Create == run.status = Absent /\ run' = createWorkflowRunSnapshot

\* A run is queued from pending or paused, started from queued, and succeeds
\* when every step was passed.
MoveRun(status) ==
  /\ RunMayBecome(run, status)
  /\ status = "succeeded" => ~AtStep(run)
  /\ run' = transitionRunStatus(run, status)

Queue   == MoveRun("queued")
Start   == MoveRun("running")
Pause   == MoveRun("paused")
Succeed == MoveRun("succeeded")

WorkOnStep(status) ==
  /\ run.status = "running" /\ AtStep(run)
  /\ StepMayBecome(run, run.cursor, status)

MakeReady == /\ WorkOnStep("ready")
             /\ run' = transitionStepStatus(run, run.cursor, "ready")

StartStep == /\ WorkOnStep("running")
             /\ run' = transitionStepStatus(run, run.cursor, "running")

Reschedule ==
  /\ WorkOnStep("retry_scheduled")
  /\ run.steps[run.cursor].attempts < MaxAttempts
  /\ run' = transitionStepStatus(run, run.cursor, "retry_scheduled")

PassStep ==
  /\ WorkOnStep("completed")
  /\ run' = advanceRunCursor(transitionStepStatus(run, run.cursor, "completed"),
                             run.cursor + 1)

\* The step and the run pause, fail or are cancelled in one write.
PauseAtStep ==
  /\ WorkOnStep("paused")
  /\ run' = transitionRunStatus(
              transitionStepStatus(run, run.cursor, "paused"), "paused")

FailAtStep ==
  /\ WorkOnStep("failed")
  /\ run.steps[run.cursor].attempts >= MaxAttempts
  /\ run' = transitionRunStatus(
              transitionStepStatus(run, run.cursor, "failed"), "failed")

CancelAtStep ==
  /\ run.status = "paused" /\ AtStep(run)
  /\ StepMayBecome(run, run.cursor, "cancelled")
  /\ run' = transitionRunStatus(
              transitionStepStatus(run, run.cursor, "cancelled"), "cancelled")

Next == \/ Create \/ Queue \/ Start \/ Pause \/ Succeed
        \/ MakeReady \/ StartStep \/ Reschedule \/ PassStep
        \/ PauseAtStep \/ FailAtStep \/ CancelAtStep

Spec == Init /\ [][Next]_run
=============================================================================
