----------------------------- MODULE AuditViews -----------------------------
(***************************************************************************)
(* The timeline and audit views of packages/replay over queued execution:  *)
(* an operator looks at the run while the services of QueuedExecution      *)
(* drive it.  A view is not one read: listRuns (or requireRun) gives the   *)
(* run row first; then the event log, the dispatch jobs and the tool       *)
(* history are read, each on its own, and the view is projected from what  *)
(* the four reads returned.                                                *)
(*                                                                         *)
(* What the projections join by and order by is added to the state: the    *)
(* clock that stamped each event, the worker named in each job row, and    *)
(* the tool history of the run.                                            *)
(***************************************************************************)
EXTENDS QueuedExecution

CONSTANTS Tools,    \* tools the steps call
          MaxSkew,  \* bound on how far the workers' clocks are ahead
          MaxDelay  \* bound on the steps of the services between two reads

\* Who claimed a job that nobody claimed yet.
Nobody == "nobody"

ASSUME ViewsAssumption ==
  MaxSkew \in Nat /\ MaxDelay \in Nat /\ Nobody \notin Workers

VARIABLES stamps,    \* stamps[n] : when and by whose clock event n was stamped
          claimedBy, \* claimedBy[j] : who claimed job j
          history,   \* the rows of the tool history of the run
          view       \* what the view in the making has read

recorded == <<stamps, claimedBy, history>>
viewVars == <<vars, recorded, view>>

TheRun  == "run"
Sources == {"events", "jobs"}

JobRow(j) == [kind |-> jobs[j].kind, status |-> jobs[j].status,
              claimedBy |-> claimedBy[j]]
JobRows   == [j \in DOMAIN jobs |-> JobRow(j)]

\* read names the sources read so far; events is the length of the log read.
\* The tool history counts as read with the jobs: no property relates the two.
NoView == [row |-> Engine!Absent, read |-> {}, events |-> 0, jobs |-> <<>>,
           history |-> <<>>, delay |-> 0]

\* A view whose reads all happen at once.
Now == [row |-> run.status, read |-> Sources, events |-> Len(log),
        jobs |-> JobRows, history |-> history, delay |-> 0]

Complete(v) == v.row # Engine!Absent /\ v.read = Sources

-----------------------------------------------------------------------------
(* The timeline: the log in sequence order, one entry per event *)

eventNameToTimelineKind(name) ==
  IF name = "approval.requested" THEN "waiting-for-approval" ELSE name

createRunTimelineEntry(n) ==
  [sequence |-> n, kind |-> eventNameToTimelineKind(log[n].name),
   stepId |-> log[n].step, status |-> log[n].status]

projectRunTimeline(v) == [n \in 1 .. v.events |-> createRunTimelineEntry(n)]

-----------------------------------------------------------------------------
(* The audit view: a correlation is the set of the ids an entry names *)

Correlates(name, id, none) == IF id = none THEN {} ELSE {<<name, id>>}

\* The events whose payload holds an approval id: the request, the decision,
\* and the cancellation of the run, which only a decision brings about.
WithApprovalId ==
  Engine!DecisionEvents \cup {"approval.requested", "run.cancelled"}

\* readApprovalId.  One approval at a time is pending, so a decision is about
\* the last one requested.
readApprovalId(n) ==
  IF log[n].name \in WithApprovalId
  THEN Cardinality({m \in 1 .. n : log[m].name = "approval.requested"})
  ELSE 0

createReplayEntry(n) ==
  [kind |-> "replay-event",
   correlation |-> {<<"runId", TheRun>>}
                     \cup Correlates("stepId", log[n].step, 0)
                     \cup Correlates("approvalId", readApprovalId(n), 0),
   fact |-> [sequence |-> n, status |-> log[n].status]]

\* Mutant: the worker is named in the entry of the claim only.
DispatchCorrelation_NoWorker(j, row) ==
  {<<"runId", TheRun>>, <<"dispatchJobId", j>>}

DispatchCorrelation(j, row) ==
  {<<"runId", TheRun>>, <<"dispatchJobId", j>>}
    \cup Correlates("workerId", row.claimedBy, Nobody)

\* One entry per stage the job went through, each with the job as it is now.
createDispatchEntries(j, row) ==
  {[kind |-> kind, correlation |-> DispatchCorrelation(j, row),
    fact |-> [dispatchJobId |-> j, row |-> row]] :
     kind \in {"dispatch-enqueued"}
       \cup (IF row.status = "queued" THEN {} ELSE {"dispatch-claimed"})
       \cup (IF row.status = "completed" THEN {"dispatch-completed"} ELSE {})
       \cup (IF row.status = "failed" THEN {"dispatch-failed"} ELSE {})}

createToolEntry(k, entry) ==
  [kind |-> "tool-outcome",
   correlation |-> {<<"runId", TheRun>>, <<"toolCallId", k>>,
                    <<"toolId", entry.toolId>>, <<"stepId", entry.stepId>>,
                    <<"dispatchJobId", entry.dispatchJobId>>,
                    <<"workerId", entry.workerId>>},
   fact |-> [callId |-> k, call |-> entry]]

ReplayEntries(v)   == {createReplayEntry(n) : n \in 1 .. v.events}
DispatchEntries(v) ==
  UNION {createDispatchEntries(j, v.jobs[j]) : j \in DOMAIN v.jobs}
ToolEntries(v)     == {createToolEntry(k, v.history[k]) : k \in DOMAIN v.history}

projectRunAuditView(v) ==
  ReplayEntries(v) \cup DispatchEntries(v) \cup ToolEntries(v)

-----------------------------------------------------------------------------
(* The order of the entries, and what the cross-run summary makes of it *)

\* occurredAt of event n when the workers' clocks are ahead of the service's.
occurredAt(n, ahead) ==
  stamps[n].tick + (IF stamps[n].clock = "worker" THEN ahead ELSE 0)

\* Mutant: the earliest entry wins.
LaterThan_Reversed(m, n, ahead) == occurredAt(m, ahead) < occurredAt(n, ahead)

\* compareAuditEntries for two events: by clock; what is left to their random
\* ids may come either way.
LaterThan(m, n, ahead) == occurredAt(m, ahead) > occurredAt(n, ahead)

Ids(entries, name) ==
  {c[2] : c \in {c \in UNION {e.correlation : e \in entries} : c[1] = name}}

\* The last entry of an approval in the order of the view gives its status: the
\* statuses summarizeApprovals may show.
summarizeApproval(entries, a, ahead) ==
  LET facts == {e.fact : e \in {e \in entries :
                                  <<"approvalId", a>> \in e.correlation}}
  IN {f.status : f \in {f \in facts :
        \A g \in facts : ~LaterThan(g.sequence, f.sequence, ahead)}}

summarizeDispatchJobs(entries) ==
  {e.fact : e \in {e \in entries : e.kind \notin {"replay-event", "tool-outcome"}}}

summarizeToolCalls(entries) ==
  {e.fact : e \in {e \in entries : e.kind = "tool-outcome"}}

summarizeWorkers(entries) ==
  ({f.row.claimedBy : f \in summarizeDispatchJobs(entries)}
     \cup {f.call.workerId : f \in summarizeToolCalls(entries)}) \ {Nobody}

projectCrossRunAuditResult(v) ==
  LET entries == projectRunAuditView(v) IN
  [runStatus    |-> v.row,
   approvals    |-> Ids(entries, "approvalId"),
   dispatchJobs |-> summarizeDispatchJobs(entries),
   stepIds      |-> Ids(entries, "stepId"),
   toolCalls    |-> summarizeToolCalls(entries),
   workerIds    |-> summarizeWorkers(entries)]

-----------------------------------------------------------------------------
(* Drilldowns, and the navigation links that lead to them *)

\* filters is a set of ids too; a drilldown without filters finds nothing.
hasCrossRunAuditDrilldownFilters(filters) == filters # {}

matchesCrossRunAuditDrilldownFilters(entry, filters) ==
  /\ hasCrossRunAuditDrilldownFilters(filters)
  /\ filters \subseteq entry.correlation

projectCrossRunAuditDrilldownResult(v, filters) ==
  {e \in projectRunAuditView(v) : matchesCrossRunAuditDrilldownFilters(e, filters)}

createDrilldownLink(name, id) == {<<name, id>>}

createDrilldownLinks(result) ==
  {createDrilldownLink("runId", TheRun)}
    \cup {createDrilldownLink("approvalId", a) : a \in result.approvals}
    \cup {createDrilldownLink("dispatchJobId", f.dispatchJobId) :
            f \in result.dispatchJobs}
    \cup {createDrilldownLink("stepId", i) : i \in result.stepIds}
    \cup {createDrilldownLink("toolCallId", f.callId) : f \in result.toolCalls}
    \cup {createDrilldownLink("toolId", f.call.toolId) : f \in result.toolCalls}
    \cup {createDrilldownLink("workerId", w) : w \in result.workerIds}

-----------------------------------------------------------------------------
ViewInit ==
  /\ Init
  /\ stamps = <<>> /\ claimedBy = <<>> /\ history = <<>>
  /\ view = NoView

\* A commit stamps its events with one reading of its driver's clock, and no
\* two commits happen at the same time: a tick is a place in the log.
StampEvents ==
  LET clock == IF \E w \in Workers : call'[w] # call[w] THEN "worker" ELSE "service"
  IN stamps' = stamps \o [n \in 1 .. Len(log') - Len(log) |->
                            [tick |-> Len(log), clock |-> clock]]

\* Mutant: settling a job clears the claim.
KeepsClaim_UntilSettled(j) == jobs'[j].status = "claimed"

\* complete and fail leave claimed_by as it is.
KeepsClaim(j) == j \in DOMAIN jobs /\ jobs[j].status # "queued"

\* The conditional UPDATE of worker w, whether its answer arrives or not.
ClaimsJob(w, j) == worker[w] = Queue!At("claiming", j) /\ worker'[w] # worker[w]

NameClaims ==
  claimedBy' = [j \in DOMAIN jobs' |->
    IF jobs'[j].status = "queued" THEN Nobody
    ELSE IF KeepsClaim(j) /\ claimedBy[j] # Nobody THEN claimedBy[j]
    ELSE IF \E w \in Workers : ClaimsJob(w, j)
         THEN CHOOSE w \in Workers : ClaimsJob(w, j)
    ELSE Nobody]

\* Every attempt of a step calls one tool and its outcome is saved before the
\* step returns, with the job and the worker of the invocation metadata.
SaveToolCalls ==
  LET returned == {w \in Workers : /\ call[w].pc = "executing"
                                   /\ call'[w].pc # "executing"}
  IN IF returned = {} THEN UNCHANGED history
     ELSE \E w \in returned, tool \in Tools :
            history' = Append(history,
              [toolId |-> tool, stepId |-> call[w].snap.cursor,
               dispatchJobId |-> worker[w].job, workerId |-> w])

\* A view is projected and shown in the turn its last read arrives.
Drive == /\ ~Complete(view)
         /\ Next
         /\ StampEvents /\ NameClaims /\ SaveToolCalls
         /\ IF view = NoView THEN UNCHANGED view
            ELSE /\ view.delay < MaxDelay
                 /\ view' = [view EXCEPT !.delay = @ + 1]

\* listRuns, and requireRun of a view of one run.
ReadRow ==
  /\ view.row = Engine!Absent /\ run.status # Engine!Absent
  /\ view' = [view EXCEPT !.row = run.status]
  /\ UNCHANGED <<vars, recorded>>

\* Mutant: the rows are listed together with the facts, not before them.
RowIsRead_Together == run.status # Engine!Absent

RowIsRead == view.row # Engine!Absent

\* The reads of getAuditView are under way together, in no order.
ReadEvents ==
  /\ RowIsRead /\ "events" \notin view.read
  /\ view' = [view EXCEPT !.read = @ \cup {"events"}, !.events = Len(log),
                          !.delay = 0]
  /\ UNCHANGED <<vars, recorded>>

ReadJobs ==
  /\ RowIsRead /\ "jobs" \notin view.read
  /\ view' = [view EXCEPT !.read = @ \cup {"jobs"}, !.jobs = JobRows,
                          !.history = history, !.delay = 0]
  /\ UNCHANGED <<vars, recorded>>

ShowView ==
  /\ Complete(view)
  /\ view' = NoView
  /\ UNCHANGED <<vars, recorded>>

ViewNext == \/ Drive
            \/ ReadRow
            \/ ReadEvents
            \/ ReadJobs
            \/ ShowView

ViewSpec == ViewInit /\ [][ViewNext]_viewVars

-----------------------------------------------------------------------------
(* Properties *)

\* Every variable has its type, and every event and job its stamp and claim.
ViewTypeOK ==
  /\ TypeOK
  /\ DOMAIN stamps = DOMAIN log /\ DOMAIN claimedBy = DOMAIN jobs
  /\ \A j \in DOMAIN jobs :
       claimedBy[j] \in (IF jobs[j].status = "queued" THEN {Nobody} ELSE Workers)
  /\ view.row \in Engine!RunStatus \cup {Engine!Absent}
  /\ view.read \subseteq Sources /\ view.events \in 0 .. Len(log)

\* The facts of a view are never behind its run row, although nothing ties the
\* reads together (listAuditResults, getAuditView, getTimeline): the timeline
\* tells the status shown.
ViewCoversRow ==
  Complete(view) =>
    LET timeline == projectRunTimeline(view) IN
    \E n \in DOMAIN timeline : /\ timeline[n].stepId = 0
                               /\ timeline[n].status = view.row

\* The summary of a run that was ever started names a worker that worked on it
\* (workerIds of projectCrossRunAuditResult), whatever happens between the
\* reads.
ViewNamesWorker ==
  Complete(view) /\ view.row \notin {"pending", "queued"} =>
    summarizeWorkers(DispatchEntries(view) \cup ToolEntries(view)) # {}

\* A view agrees with itself, whatever happens between its reads: none of its
\* later reads is behind the row that was read first.
ViewAgrees == ViewCoversRow /\ ViewNamesWorker

\* A summary shows every approval as the last commit about it left it, although
\* entries are ordered by clock and not by sequence (compareAuditEntries), as
\* long as more time lies between a request and its decision than the workers'
\* clocks are ahead of the service's.  The events of one commit carry one time,
\* and random ids decide between them: a rejection may be shown as rejected or,
\* by the run.cancelled stored with it, as cancelled, and as nothing else.
EventsOfApproval(a) == {n \in 1 .. view.events : readApprovalId(n) = a}

Apart(events, ahead) ==
  \A m, n \in events :
    stamps[m].tick < stamps[n].tick => stamps[n].tick - stamps[m].tick > ahead

LastCommitted(events) ==
  {n \in events : \A m \in events : stamps[m].tick <= stamps[n].tick}

ApprovalsShownInOrder ==
  Complete(view) =>
    LET entries == ReplayEntries(view) IN
    \A a \in Ids(entries, "approvalId"), ahead \in 0 .. MaxSkew :
      Apart(EventsOfApproval(a), ahead) =>
        summarizeApproval(entries, a, ahead)
          = {log[n].status : n \in LastCommitted(EventsOfApproval(a))}

\* A drilldown link of a summary finds facts whenever it is followed: nothing
\* that happens to the run, its jobs or its workers makes it dangle
\* (createDrilldownLinks, listAuditDrilldowns).
Finds(link) == projectCrossRunAuditDrilldownResult(Now, link) # {}

LinksStayAlive ==
  [][view = NoView /\ run.status # Engine!Absent =>
       \A link \in createDrilldownLinks(projectCrossRunAuditResult(Now)) :
         Finds(link) /\ Finds(link)']_<<log, jobs, recorded>>
=============================================================================
