--------------------------- MODULE ToolInvocation ---------------------------
(***************************************************************************)
(* Tool calls and their history (packages/tools, the telemetry observer of *)
(* packages/sdk), over the stores of module CatalogStores.  A caller runs  *)
(* a step of a workflow, which invokes a tool and is retried while it      *)
(* fails; or it is an operator's request on a catalog store.  What a call  *)
(* did is saved under its callId, a new one for every attempt.             *)
(***************************************************************************)
EXTENDS CatalogStores

CONSTANT MaxAttempts   \* bound on the attempts of a step

ASSUME ToolInvocationAssumption == MaxAttempts \in Nat

VARIABLES begun,       \* tool calls and requests begun, at most setup.tasks
          invocation,  \* invocation[c] : the stage of the tool call of c
          attempts,    \* attempts[c] : the calls the step of c has made
          ran,         \* the calls whose tool did its work
          told         \* told[o] : the calls the step was told "o" about

toolVars == <<begun, invocation, attempts, ran, told>>
vars == <<storeVars, toolVars>>

Outcomes == {"blocked", "failed", "succeeded"}

\* callIdGenerator: a new id for every invocation.
CallIds   == Callers \X (1..MaxAttempts)
callId(c) == <<c, attempts[c]>>

Stage(c, s) == invocation' = [invocation EXCEPT ![c] = s]

Tells(c, what) == told' = [told EXCEPT ![what] = @ \cup {callId(c)}]

-----------------------------------------------------------------------------
(* The history entries *)

\* create...HistoryEntry: the outcome is what tells the entries apart.
createBlockedToolHistoryEntry   == "blocked"
createFailedToolHistoryEntry    == "failed"
createSucceededToolHistoryEntry == "succeeded"

\* createToolTelemetryObserver: every notification but the first saves an
\* entry and is awaited.
onInvocation(c, entry) ==
  /\ Stage(c, entry)
  /\ Asks(c, ToolHistory, "save", callId(c), entry)

-----------------------------------------------------------------------------
(* RegistryToolInvoker.invoke *)

Free(c) == call[c].pc = "idle" /\ invocation[c] = "none"

\* A task is one of those the setup allows.
TakesOn == begun < setup.tasks /\ begun' = begun + 1

\* The step of c invokes its tool, again after an error.
Begins(c) == /\ Free(c) /\ TakesOn
             /\ attempts[c] < MaxAttempts
             /\ \A n \in 1..attempts[c] : <<c, n>> \notin told["success"]

\* registry.require and the check of the input throw before any observer
\* hears of the call.
refuseRequest(c) ==
  /\ Begins(c)
  /\ attempts' = [attempts EXCEPT ![c] = @ + 1]
  /\ told' = [told EXCEPT !["error"] = @ \cup {<<c, attempts[c] + 1>>}]
  /\ UNCHANGED <<storeVars, invocation, ran>>

\* The request names a tool and fits its input schema; the gate is asked.
invoke(c) ==
  /\ Begins(c)
  /\ attempts' = [attempts EXCEPT ![c] = @ + 1]
  /\ Stage(c, "gate")
  /\ UNCHANGED <<storeVars, ran, told>>

notifyBlocked(c) ==
  /\ invocation[c] = "gate" /\ call[c].pc = "idle"
  /\ onInvocation(c, createBlockedToolHistoryEntry)
  /\ UNCHANGED <<begun, attempts, ran, told>>

\* The gate allows the call; being told of the start only logs.
notifyStarted(c) ==
  /\ invocation[c] = "gate"
  /\ Stage(c, "started")
  /\ UNCHANGED <<storeVars, begun, attempts, ran, told>>

\* tool.invoke returns, after its work, what fits the output schema.
toolReturns(c) ==
  /\ invocation[c] = "started"
  /\ ran' = ran \cup {callId(c)}
  /\ onInvocation(c, createSucceededToolHistoryEntry)
  /\ UNCHANGED <<begun, attempts, told>>

\* It throws, before its work or after it, or its output does not fit.
toolThrows(c) ==
  /\ invocation[c] = "started"
  /\ ran' \in {ran, ran \cup {callId(c)}}
  /\ onInvocation(c, createFailedToolHistoryEntry)
  /\ UNCHANGED <<begun, attempts, told>>

\* The entry is saved: invoke returns the result or throws the error.
notified(c) ==
  /\ call[c].pc = "returned" /\ invocation[c] \in Outcomes
  /\ Takes(c) /\ Stage(c, "none")
  /\ Tells(c, IF invocation[c] = "succeeded" THEN "success" ELSE "error")
  /\ UNCHANGED <<begun, attempts, ran>>

\* Mutant: an entry that could not be saved is left at that.
saveFails_Ignored(c) ==
  /\ call[c].pc = "threw" /\ invocation[c] \in Outcomes
  /\ Takes(c) /\ Stage(c, "none")
  /\ Tells(c, IF invocation[c] = "succeeded" THEN "success" ELSE "error")
  /\ UNCHANGED <<begun, attempts, ran>>

\* The entry could not be saved.  For a call that succeeded this happens
\* inside the try of invoke, so the call is saved again, as failed; the error
\* of the store takes the place of any other.
saveFails(c) ==
  /\ call[c].pc = "threw" /\ invocation[c] \in Outcomes
  /\ IF invocation[c] = "succeeded"
     THEN onInvocation(c, createFailedToolHistoryEntry) /\ UNCHANGED told
     ELSE Takes(c) /\ Stage(c, "none") /\ Tells(c, "error")
  /\ UNCHANGED <<begun, attempts, ran>>

-----------------------------------------------------------------------------
(* The other callers: requests on the catalog, and lists of the history *)

requestCatalog(c) ==
  /\ Free(c) /\ TakesOn
  /\ \E op \in Operations(setup.store), e \in Entries :
       Asks(c, setup.store, op, e, home[c])
  /\ UNCHANGED <<invocation, attempts, ran, told>>

listByRunId(c) == /\ Free(c) /\ TakesOn
                  /\ Asks(c, ToolHistory, "list", NoKey, NoKey)
                  /\ UNCHANGED <<invocation, attempts, ran, told>>

requestEnds(c) == invocation[c] = "none" /\ Takes(c) /\ UNCHANGED toolVars

processDies(p) ==
  /\ \E c \in Callers : me(c) = p
  /\ Dies(p)
  /\ invocation' = [c \in Callers |-> IF me(c) = p THEN "none" ELSE invocation[c]]
  /\ UNCHANGED <<begun, attempts, ran, told>>

-----------------------------------------------------------------------------
Init == /\ StoresInit
        /\ begun = 0
        /\ invocation = [c \in Callers |-> "none"]
        /\ attempts = [c \in Callers |-> 0]
        /\ ran = {}
        /\ told = [what \in {"success", "error"} |-> {}]

Works(c) == \/ StoreStep(c) /\ UNCHANGED toolVars
            \/ notifyBlocked(c) \/ notifyStarted(c)
            \/ toolReturns(c) \/ toolThrows(c)
            \/ notified(c) \/ saveFails(c) \/ requestEnds(c)

Next == \/ \E c \in Callers :
             \/ invoke(c) \/ refuseRequest(c)
             \/ requestCatalog(c) \/ listByRunId(c)
             \/ Works(c)
        \/ \E p \in Processes : processDies(p)

\* Promises settle: file operations and the server answer, tools return, and
\* a call that waits for a lock file gives up after its timeout.
Spec == Init /\ [][Next]_vars /\ \A c \in Callers : WF_vars(Works(c))

-----------------------------------------------------------------------------
(* Properties *)

History == disk.rows[ToolHistory]

Drained == \A c \in Callers : Free(c)

\* Every variable has its type; a lock file that nobody holds was left by a
\* process that died.
TypeOK ==
  /\ setup \in Setups /\ home \in Homes
  /\ disk.applied \subseteq AllVersions
  /\ DOMAIN History \subseteq CallIds
  /\ \A k \in DOMAIN History : History[k] \in Outcomes
  /\ DOMAIN disk.rows[setup.store] \subseteq Entries
  /\ \A p \in Processes, s \in InUse :
       /\ ready[p][s] \in {"none", "pending", "ready", "rejected"}
       /\ queue[p][s] \in Seq({c \in Callers : home[c] = p})
  /\ invocation \in [Callers -> {"none", "gate", "started"} \cup Outcomes]
  /\ attempts \in [Callers -> 0..MaxAttempts]
  /\ ran \subseteq CallIds /\ begun \in 0..setup.tasks
  /\ told \in [{"success", "error"} -> SUBSET CallIds]
  /\ faults \in 0..MaxFaults
  /\ Drained /\ faults = 0 => lock = {}

\* A blocked call did not run its tool, a call told as succeeded ran it, and
\* where the history says failed nobody was handed a result, although the
\* entry of a success whose COMMIT was not answered is written over.
EntriesAreTrue ==
  \A k \in DOMAIN History :
    CASE History[k] = "blocked"   -> k \notin ran
      [] History[k] = "succeeded" -> k \in ran
      [] OTHER                    -> k \notin told["success"]

\* A result is handed out only for a call whose tool ran and whose entry is
\* in the history, and that stays so when processes die.
SuccessIsRecorded ==
  driver # "memory" =>
    \A k \in told["success"] :
      k \in ran /\ k \in DOMAIN History /\ History[k] = "succeeded"

\* The work of a tool leaves no trace only where a save could fail: over
\* Postgres, as long as nothing failed and the handle is not poisoned, every
\* call that ran and has ended has its entry.
WorkIsRecorded ==
  driver = "postgres" /\ faults = 0 =>
    \A k \in ran : \/ k \in DOMAIN History
                   \/ ready[home[k[1]]][ToolHistory] = "rejected"
                   \/ k \notin told["success"] \cup told["error"]

\* The history never tells of a call what did not happen (invoke saves its
\* entry after the work and inside the same try), and leaves nothing out that
\* a result was handed out for or that nothing kept it from recording.
HistoryTellsTruth == EntriesAreTrue /\ SuccessIsRecorded /\ WorkIsRecorded

\* Every call ends, whatever fails, and although a process that dies inside
\* the lock leaves its lock file behind for good.
EveryCallEnds == \A c \in Callers : ~Free(c) ~> Free(c)
=============================================================================
