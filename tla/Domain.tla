------------------------------- MODULE Domain -------------------------------
(***************************************************************************)
(* The run and step model of packages/domain: the status tables that guard *)
(* every transition, the snapshot of a run with its ordered steps, and the *)
(* pure functions the runtime builds its next snapshots with.              *)
(*                                                                         *)
(* A snapshot keeps what decides control: the run's status, its cursor and *)
(* each step's status and attempt count.  Steps are numbered from 1, so    *)
(* cursor is the code's currentStepIndex + 1 and NumSteps + 1 means that   *)
(* every step was passed.  Outputs, failures and timestamps are left out.  *)
(***************************************************************************)
EXTENDS Naturals, Sequences

CONSTANTS NumSteps,     \* steps of the workflow definition
          MaxAttempts   \* maxAttempts of the resolved retry policy of a step

ASSUME DomainAssumption == /\ NumSteps \in Nat
                           /\ MaxAttempts \in Nat \ {0}

Steps == 1 .. NumSteps

RunStatus == {"pending", "queued", "running", "paused",
              "succeeded", "failed", "cancelled"}

StepStatus == {"idle", "ready", "running", "paused", "retry_scheduled",
               "completed", "failed", "cancelled"}

TerminalRunStatus == {"succeeded", "failed", "cancelled"}

\* The status of a run whose row was never written.
Absent == "absent"

RunSnapshot == [status : RunStatus \cup {Absent},
                cursor : 1 .. NumSteps + 1,
                steps  : [Steps -> [status : StepStatus, attempts : Nat]]]

-----------------------------------------------------------------------------
runTransitions ==
  {<<"paused", "queued">>, <<"paused", "cancelled">>,
   <<"pending", "queued">>, <<"pending", "cancelled">>,
   <<"queued", "running">>, <<"queued", "paused">>, <<"queued", "cancelled">>,
   <<"running", "paused">>, <<"running", "succeeded">>,
   <<"running", "failed">>, <<"running", "cancelled">>}

stepTransitions ==
  {<<"idle", "ready">>, <<"idle", "cancelled">>,
   <<"paused", "ready">>, <<"paused", "cancelled">>,
   <<"ready", "running">>, <<"ready", "cancelled">>,
   <<"retry_scheduled", "ready">>, <<"retry_scheduled", "failed">>,
   <<"retry_scheduled", "cancelled">>,
   <<"running", "completed">>, <<"running", "failed">>,
   <<"running", "paused">>, <<"running", "retry_scheduled">>}

\* transitionRunStatus and transitionStepStatus throw when these are false.
RunMayBecome(r, status) == <<r.status, status>> \in runTransitions
StepMayBecome(r, i, status) ==
  <<r.steps[i].status, status>> \in stepTransitions

transitionRunStatus(r, status) == [r EXCEPT !.status = status]

\* transitionStepStatus and replaceStepInRun: only entering "running" counts
\* as an attempt.
transitionStepStatus(r, i, status) ==
  [r EXCEPT !.steps[i] =
     [status   |-> status,
      attempts |-> IF status = "running" THEN @.attempts + 1 ELSE @.attempts]]

advanceRunCursor(r, next) == [r EXCEPT !.cursor = next]

-----------------------------------------------------------------------------
createWorkflowStepSnapshot(i) ==
  [status |-> IF i = 1 THEN "ready" ELSE "idle", attempts |-> 0]

createWorkflowRunSnapshot ==
  [status |-> "pending",
   cursor |-> 1,
   steps  |-> [i \in Steps |-> createWorkflowStepSnapshot(i)]]
=============================================================================
