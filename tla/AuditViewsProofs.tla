-------------------------- MODULE AuditViewsProofs --------------------------
(***************************************************************************)
(* Proofs about AuditViews for any tools, clocks, operators and workers:   *)
(* whatever happens between the reads of a view, its facts are not behind  *)
(* its run row, and its links lead somewhere.                              *)
(***************************************************************************)
EXTENDS AuditViews, QueuedExecutionProofs

-----------------------------------------------------------------------------
(* A view only looks: the services run as they do without it *)

\* What a view does is a step of the services or leaves them alone.
LEMMA ViewStep == [ViewNext]_viewVars => [Next]_vars
<1>1. UNCHANGED viewVars => UNCHANGED vars
  BY DEF viewVars
<1> QED BY <1>1 DEF ViewNext, Drive, ReadRow, ReadEvents, ReadJobs, ShowView

\* So what is proved of the services holds here.
LEMMA ServicesRun == ViewSpec => Spec
BY ViewStep, PTL DEF ViewSpec, ViewInit, Spec

\* Every status a run has had is in its log.
LEMMA Told == Spec => []EP!StatusTold
<1>1. EP!Spec => []EP!StatusTold
  BY EP!EveryStatusWasLogged, Assumptions
<1> QED BY <1>1, EngineRuns, PTL

\* The log of a run only grows.
LEMMA LogGrows ==
  ASSUME BInv, [Next]_vars
  PROVE  /\ log \in Seq(EP!EventType) /\ log' \in Seq(EP!EventType)
         /\ Len(log) <= Len(log')
         /\ \A n \in DOMAIN log : log'[n] = log[n]
<1>1. EP!IInv /\ EP!IInv'
  BY StepBase DEF BInv
<1>2. log \in Seq(EP!EventType) /\ log' \in Seq(EP!EventType)
  BY <1>1 DEF EP!IInv, EP!TypeOK
<1>3. \E tail \in Seq(EP!EventType) : log' = log \o tail
  BY <1>1, EngineStep, EP!LogOnlyGrows, Assumptions
<1>4. PICK tail \in Seq(EP!EventType) : log' = log \o tail
  BY <1>3
<1>5. Len(log') = Len(log) + Len(tail) /\ \A n \in DOMAIN log : log'[n] = log[n]
  BY <1>2, <1>4, ConcatProperties
<1> QED BY <1>2, <1>5

\* A job that left the queue does not come back, and whoever takes it out of
\* the queue is working on it then.
LEMMA JobMoves ==
  ASSUME BInv, [Next]_vars
  PROVE  /\ \A j \in DOMAIN jobs :
              /\ j \in DOMAIN jobs'
              /\ jobs[j].status # "queued" => jobs'[j].status # "queued"
         /\ \A j \in DOMAIN jobs' : jobs'[j].status # "queued" =>
              /\ j \in DOMAIN jobs
              /\ \/ jobs[j].status # "queued"
                 \/ \E w \in Workers : ClaimsJob(w, j)
<1>1. CASE UNCHANGED vars
  BY <1>1 DEF vars, queueVars
<1>2. ASSUME NEW o \in Operators, Request(o) \/ Handle(o) \/ RequestDies(o)
      PROVE  jobs' = jobs \/ Enqueues(o)
  BY <1>2, OperatorStep, RequestDiesStep
     DEF OperatorDoes, Starts, Asks, Invokes, GivesUp
<1>3. ASSUME NEW o \in Operators, Enqueues(o)
      PROVE  /\ \A j \in DOMAIN jobs : j \in DOMAIN jobs' /\ jobs'[j] = jobs[j]
             /\ \A j \in DOMAIN jobs' : jobs'[j].status # "queued" => j \in DOMAIN jobs
  BY <1>3 DEF Enqueues
<1>4. ASSUME NEW w \in Workers,
             Work(w) \/ QueueThrows(w) \/ WorkerDies(w) \/ WorkerStarts(w)
      PROVE  /\ DOMAIN jobs' = DOMAIN jobs
             /\ \A j \in DOMAIN jobs :
                  /\ jobs[j].status # "queued" => jobs'[j].status # "queued"
                  /\ \/ jobs'[j].status = jobs[j].status
                     \/ jobs[j].status # "queued"
                     \/ ClaimsJob(w, j)
  <2>1. WorkerDoes(w)
    BY <1>4, WorkerStep
  <2>2. CASE Claims(w) \/ LosesClaim(w)
    <3>1. /\ worker[w].pc = "claiming" /\ worker'[w].pc # "claiming"
          /\ DOMAIN jobs' = DOMAIN jobs /\ jobs'[worker[w].job].status = "claimed"
          /\ \A k \in DOMAIN jobs \ {worker[w].job} : jobs'[k] = jobs[k]
      BY <2>2 DEF Claims, LosesClaim
    <3>2. ClaimsJob(w, worker[w].job)
      BY <3>1, WorkerHas DEF ClaimsJob, Queue!At
    <3> QED BY <3>1, <3>2
  <2>3. CASE Settles(w) \/ LosesCompletion(w)
    <3>1. Holding(w)
      BY <2>3 DEF Settles, LosesCompletion, Holding, Queue!HoldingPc
    <3>2. jobs[worker[w].job].status # "queued"
      BY <3>1, WorkerHas
    <3>3. /\ DOMAIN jobs' = DOMAIN jobs /\ jobs'[worker[w].job].status # "queued"
          /\ \A k \in DOMAIN jobs \ {worker[w].job} : jobs'[k] = jobs[k]
      BY <2>3 DEF Settles, LosesCompletion, Queue!Settled
    <3> QED BY <3>2, <3>3
  <2>4. CASE Idles(w) \/ Looks(w) \/ Calls(w) \/ Leaves(w) \/ Dies(w)
    BY <2>4 DEF Idles, Looks, Calls, Leaves, Dies
  <2> QED BY <2>1, <2>2, <2>3, <2>4 DEF WorkerDoes
<1>5. ASSUME NEW d \in Drivers, Advance(d) \/ CallFaults(d)
      PROVE  jobs' = jobs
  BY <1>5, CallStep
<1>6. CASE jobs' = jobs
  BY <1>6
<1>7. CASE \E w \in Workers : Work(w) \/ QueueThrows(w) \/ WorkerDies(w)
                                \/ WorkerStarts(w)
  BY <1>4, <1>7
<1>8. CASE \E o \in Operators : Enqueues(o)
  BY <1>3, <1>8
<1> QED BY <1>1, <1>2, <1>5, <1>6, <1>7, <1>8, StepCases

-----------------------------------------------------------------------------
(* What is recorded *)

StampType == [tick : Nat, clock : {"worker", "service"}]
HistoryType ==
  [toolId : Tools, stepId : Nat, dispatchJobId : Nat, workerId : Workers]

ClaimsNamed ==
  /\ DOMAIN claimedBy = DOMAIN jobs
  /\ \A j \in DOMAIN jobs :
       claimedBy[j] \in (IF jobs[j].status = "queued" THEN {Nobody} ELSE Workers)

ViewTyped ==
  /\ view = [row |-> view.row, read |-> view.read, events |-> view.events,
             jobs |-> view.jobs, history |-> view.history, delay |-> view.delay]
  /\ view.row \in Engine!RunStatus \cup {Engine!Absent}
  /\ view.read \subseteq Sources
  /\ view.events \in 0 .. Len(log)

\* Events of one tick are events of one commit, and come from one clock.
StampsOfCommits ==
  /\ \A n \in DOMAIN stamps : stamps[n].tick < Len(log)
  /\ \A m, n \in DOMAIN stamps :
       stamps[m].tick = stamps[n].tick => stamps[m].clock = stamps[n].clock

Recorded ==
  /\ stamps \in Seq(StampType) /\ Len(stamps) = Len(log)
  /\ StampsOfCommits
  /\ history \in Seq(HistoryType)
  /\ ClaimsNamed
  /\ ViewTyped

\* Every event that is logged gets its stamp.
LEMMA StampsKept ==
  ASSUME BInv, BInv', [Next]_vars, Recorded, StampEvents
  PROVE  /\ stamps' \in Seq(StampType) /\ Len(stamps') = Len(log')
         /\ StampsOfCommits'
<1> DEFINE more == Len(log') - Len(log)
           clock == IF \E w \in Workers : call'[w] # call[w]
                    THEN "worker" ELSE "service"
           new == [n \in 1 .. more |-> [tick |-> Len(log), clock |-> clock]]
<1>1. Len(log) \in Nat /\ Len(log') \in Nat /\ more \in Nat
  BY LogGrows
<1>2. [tick |-> Len(log), clock |-> clock] \in StampType
  BY <1>1 DEF StampType
<1>3. new \in Seq(StampType) /\ Len(new) = more
  <2> HIDE DEF clock, more
  <2> QED BY <1>1, <1>2
<1>4. stamps' = stamps \o new
  BY DEF StampEvents
<1>5. \A n \in 1 .. more : new[n].tick = Len(log) /\ new[n].clock = clock
  OBVIOUS
<1> HIDE DEF new, clock
<1>6. stamps \in Seq(StampType) /\ Len(stamps) = Len(log)
  BY DEF Recorded
<1>7. /\ stamps' \in Seq(StampType) /\ Len(stamps') = Len(stamps) + Len(new)
      /\ \A n \in 1 .. Len(stamps) : stamps'[n] = stamps[n]
      /\ \A n \in 1 .. Len(new) : stamps'[Len(stamps) + n] = new[n]
  BY <1>3, <1>4, <1>6, ConcatProperties
<1>8. ASSUME NEW n \in DOMAIN stamps'
      PROVE  \/ n \in DOMAIN stamps /\ stamps'[n] = stamps[n]
             \/ /\ stamps'[n].tick = Len(log) /\ stamps'[n].clock = clock
                /\ more > 0
  <2>1. n \in 1 .. Len(log) + more
    BY <1>3, <1>6, <1>7
  <2>2. CASE n <= Len(log)
    BY <1>1, <1>6, <1>7, <2>1, <2>2
  <2>3. CASE n > Len(log)
    <3>1. n - Len(log) \in 1 .. more /\ n = Len(stamps) + (n - Len(log))
      BY <1>1, <1>6, <2>1, <2>3
    <3>2. n - Len(log) \in 1 .. Len(new) /\ more > 0
      BY <1>1, <1>3, <3>1
    <3>3. stamps'[n] = new[n - Len(log)]
      BY <1>7, <3>1, <3>2
    <3> QED BY <1>5, <3>1, <3>2, <3>3
  <2> QED BY <1>1, <2>1, <2>2, <2>3
<1>9. \A n \in DOMAIN stamps : stamps[n].tick \in Nat
  <2>1. \A n \in DOMAIN stamps : stamps[n] \in StampType
    BY <1>6
  <2> QED BY <2>1 DEF StampType
<1>10. StampsOfCommits'
  <2>1. \A n \in DOMAIN stamps' : stamps'[n].tick < Len(log')
    BY <1>1, <1>8, <1>9 DEF Recorded, StampsOfCommits
  <2>2. ASSUME NEW m \in DOMAIN stamps', NEW n \in DOMAIN stamps',
               stamps'[m].tick = stamps'[n].tick
        PROVE  stamps'[m].clock = stamps'[n].clock
    BY <1>1, <1>8, <1>9, <2>2 DEF Recorded, StampsOfCommits
  <2> QED BY <2>1, <2>2 DEF StampsOfCommits
<1> QED BY <1>1, <1>3, <1>6, <1>7, <1>10

\* The worker named in a job is the one that took it, and stays named.
LEMMA ClaimsKept ==
  ASSUME BInv, [Next]_vars, ClaimsNamed, NameClaims
  PROVE  /\ ClaimsNamed'
         /\ \A j \in DOMAIN jobs : claimedBy[j] # Nobody => claimedBy'[j] = claimedBy[j]
<1>1. DOMAIN claimedBy' = DOMAIN jobs'
  BY DEF NameClaims
<1>2. ASSUME NEW j \in DOMAIN jobs, claimedBy[j] # Nobody
      PROVE  j \in DOMAIN jobs' /\ claimedBy'[j] = claimedBy[j] /\ claimedBy[j] \in Workers
  <2>1. jobs[j].status # "queued" /\ claimedBy[j] \in Workers
    BY <1>2 DEF ClaimsNamed
  <2>2. j \in DOMAIN jobs' /\ jobs'[j].status # "queued"
    BY <2>1, JobMoves
  <2> QED BY <1>2, <2>1, <2>2 DEF NameClaims, KeepsClaim
<1>3. ASSUME NEW j \in DOMAIN jobs', jobs'[j].status = "queued"
      PROVE  claimedBy'[j] = Nobody
  BY <1>3 DEF NameClaims
<1>4. ASSUME NEW j \in DOMAIN jobs', jobs'[j].status # "queued"
      PROVE  claimedBy'[j] \in Workers
  <2>1. /\ j \in DOMAIN jobs
        /\ \/ jobs[j].status # "queued"
           \/ \E w \in Workers : ClaimsJob(w, j)
    BY <1>4, JobMoves
  <2>2. CASE jobs[j].status # "queued"
    <3>1. claimedBy[j] \in Workers /\ claimedBy[j] # Nobody
      BY <2>1, <2>2, ViewsAssumption DEF ClaimsNamed
    <3> QED BY <1>2, <2>1, <3>1
  <2>3. CASE jobs[j].status = "queued"
    <3>1. ~KeepsClaim(j)
      BY <2>3 DEF KeepsClaim
    <3>2. \E w \in Workers : ClaimsJob(w, j)
      BY <2>1, <2>3
    <3>3. claimedBy'[j] = CHOOSE w \in Workers : ClaimsJob(w, j)
      BY <1>4, <3>1, <3>2 DEF NameClaims
    <3> QED BY <3>2, <3>3
  <2> QED BY <2>2, <2>3
<1> QED BY <1>1, <1>2, <1>3, <1>4 DEF ClaimsNamed

\* Rows are only added to the tool history.
LEMMA HistoryKept ==
  ASSUME BInv, history \in Seq(HistoryType), SaveToolCalls
  PROVE  /\ history' \in Seq(HistoryType)
         /\ \A k \in DOMAIN history : k \in DOMAIN history' /\ history'[k] = history[k]
<1>1. CASE history' = history
  BY <1>1
<1>2. ASSUME NEW w \in Workers, NEW tool \in Tools,
             history' = Append(history,
               [toolId |-> tool, stepId |-> call[w].snap.cursor,
                dispatchJobId |-> worker[w].job, workerId |-> w])
      PROVE  /\ history' \in Seq(HistoryType)
             /\ \A k \in DOMAIN history :
                  k \in DOMAIN history' /\ history'[k] = history[k]
  <2>1. call[w].snap.cursor \in Nat
    <3>1. w \in Drivers
      BY DEF Drivers
    <3>2. call[w].snap \in EP!RunSnapshot
      BY <3>1 DEF BInv, EP!IInv, EP!TypeOK, EP!CallType
    <3> QED BY <3>2, ServiceAssumption DEF EP!RunSnapshot
  <2>2. worker[w].job \in Nat
    BY QueueTypes
  <2>3. [toolId |-> tool, stepId |-> call[w].snap.cursor,
         dispatchJobId |-> worker[w].job, workerId |-> w] \in HistoryType
    BY <2>1, <2>2 DEF HistoryType
  <2> QED BY <1>2, <2>3
<1>3. \/ history' = history
      \/ \E w \in Workers, tool \in Tools :
            history' = Append(history,
               [toolId |-> tool, stepId |-> call[w].snap.cursor,
                dispatchJobId |-> worker[w].job, workerId |-> w])
  BY DEF SaveToolCalls
<1> QED BY <1>1, <1>2, <1>3

\* The fields of a view after each of its reads.
LEMMA ViewFields ==
  ASSUME ViewTyped
  PROVE  /\ ReadRow => /\ view' = [row |-> run.status, read |-> view.read,
                                   events |-> view.events, jobs |-> view.jobs,
                                   history |-> view.history, delay |-> view.delay]
                       /\ view.row = Engine!Absent /\ run.status # Engine!Absent
         /\ ReadEvents => /\ view' = [row |-> view.row,
                                      read |-> view.read \cup {"events"},
                                      events |-> Len(log), jobs |-> view.jobs,
                                      history |-> view.history, delay |-> 0]
                          /\ view.row # Engine!Absent
         /\ ReadJobs => /\ view' = [row |-> view.row,
                                    read |-> view.read \cup {"jobs"},
                                    events |-> view.events, jobs |-> JobRows,
                                    history |-> history, delay |-> 0]
                        /\ view.row # Engine!Absent
         /\ Drive => /\ view'.row = view.row /\ view'.read = view.read
                     /\ view'.events = view.events /\ view'.jobs = view.jobs
                     /\ view' = [row |-> view.row, read |-> view.read,
                                 events |-> view.events, jobs |-> view.jobs,
                                 history |-> view.history, delay |-> view'.delay]
<1> USE DEF ViewTyped
<1>1. ReadRow => /\ view' = [row |-> run.status, read |-> view.read,
                             events |-> view.events, jobs |-> view.jobs,
                             history |-> view.history, delay |-> view.delay]
                 /\ view.row = Engine!Absent /\ run.status # Engine!Absent
  BY DEF ReadRow
<1>2. ReadEvents => /\ view' = [row |-> view.row,
                                read |-> view.read \cup {"events"},
                                events |-> Len(log), jobs |-> view.jobs,
                                history |-> view.history, delay |-> 0]
                    /\ view.row # Engine!Absent
  BY DEF ReadEvents, RowIsRead
<1>3. ReadJobs => /\ view' = [row |-> view.row,
                              read |-> view.read \cup {"jobs"},
                              events |-> view.events, jobs |-> JobRows,
                              history |-> history, delay |-> 0]
                  /\ view.row # Engine!Absent
  BY DEF ReadJobs, RowIsRead
<1>4. Drive => /\ view'.row = view.row /\ view'.read = view.read
               /\ view'.events = view.events /\ view'.jobs = view.jobs
               /\ view' = [row |-> view.row, read |-> view.read,
                           events |-> view.events, jobs |-> view.jobs,
                           history |-> view.history, delay |-> view'.delay]
  <2>1. CASE UNCHANGED view
    BY <2>1
  <2>2. CASE view' = [view EXCEPT !.delay = view.delay + 1]
    BY <2>2
  <2> QED BY <2>1, <2>2 DEF Drive
<1> QED BY <1>1, <1>2, <1>3, <1>4

\* The services take a step, or something is read.
LEMMA ViewCases ==
  ASSUME [ViewNext]_viewVars
  PROVE  \/ Drive
         \/ /\ UNCHANGED <<vars, recorded>>
            /\ ReadRow \/ ReadEvents \/ ReadJobs \/ ShowView \/ view' = view
BY DEF ViewNext, ReadRow, ReadEvents, ReadJobs, ShowView, viewVars

\* What a read leaves alone.
LEMMA Unread ==
  ASSUME UNCHANGED <<vars, recorded>>
  PROVE  /\ run' = run /\ log' = log /\ jobs' = jobs /\ call' = call
         /\ stamps' = stamps /\ claimedBy' = claimedBy /\ history' = history
BY DEF vars, engineVars, queueVars, recorded

\* Every step keeps the records in order ...
LEMMA RecordedStep ==
  ASSUME BInv, BInv', Recorded, [ViewNext]_viewVars
  PROVE  Recorded'
<1>1. ViewTyped
  BY DEF Recorded
<1>2. CASE Drive
  <2>1. Next /\ StampEvents /\ NameClaims /\ SaveToolCalls
    BY <1>2 DEF Drive
  <2>2. stamps' \in Seq(StampType) /\ Len(stamps') = Len(log') /\ StampsOfCommits'
    BY <2>1, StampsKept
  <2>3. ClaimsNamed'
    BY <2>1, ClaimsKept DEF Recorded
  <2>4. history' \in Seq(HistoryType)
    BY <2>1, HistoryKept DEF Recorded
  <2>5. /\ view'.row = view.row /\ view'.read = view.read
        /\ view'.events = view.events
        /\ view' = [row |-> view.row, read |-> view.read,
                    events |-> view.events, jobs |-> view.jobs,
                    history |-> view.history, delay |-> view'.delay]
        /\ view'.jobs = view.jobs
    BY <1>1, <1>2, ViewFields
  <2>6. view'.history = view.history
    BY <2>5
  <2>7. view.events \in 0 .. Len(log')
    BY <1>1, <2>1, LogGrows DEF ViewTyped
  <2>8. ViewTyped'
    BY <1>1, <2>5, <2>6, <2>7 DEF ViewTyped
  <2> QED BY <2>2, <2>3, <2>4, <2>8 DEF Recorded
<1>3. CASE /\ UNCHANGED <<vars, recorded>>
           /\ ReadRow \/ ReadEvents \/ ReadJobs \/ ShowView \/ view' = view
  <2>1. /\ run' = run /\ log' = log /\ jobs' = jobs
        /\ stamps' = stamps /\ claimedBy' = claimedBy /\ history' = history
    BY <1>3, Unread
  <2>2. Len(log) \in Nat
    BY DEF BInv, EP!IInv, EP!TypeOK
  <2>3. ViewTyped'
    <3>1. CASE ReadRow
      BY <1>1, <2>1, <3>1, ViewFields, RunStatusType DEF ViewTyped
    <3>2. CASE ReadEvents
      BY <1>1, <2>1, <2>2, <3>2, ViewFields DEF ViewTyped, Sources
    <3>3. CASE ReadJobs
      BY <1>1, <2>1, <2>2, <3>3, ViewFields DEF ViewTyped, Sources
    <3>4. CASE ShowView
      BY <2>1, <2>2, <3>4 DEF ShowView, NoView, ViewTyped
    <3>5. CASE view' = view
      BY <1>1, <2>1, <3>5 DEF ViewTyped
    <3> QED BY <1>3, <3>1, <3>2, <3>3, <3>4, <3>5
  <2> QED BY <2>1, <2>3 DEF Recorded, ClaimsNamed, StampsOfCommits
<1> QED BY <1>2, <1>3, ViewCases

\* ... so they are always.
LEMMA Recording == ViewSpec => []Recorded
<1>1. ViewInit => Recorded
  <2> SUFFICES ASSUME ViewInit PROVE Recorded
    OBVIOUS
  <2>1. log = <<>> /\ jobs = <<>> /\ stamps = <<>> /\ claimedBy = <<>> /\ history = <<>>
    BY DEF ViewInit, Init, Engine!Init, Queue!Init
  <2>2. ViewTyped
    BY <2>1 DEF ViewInit, NoView, ViewTyped
  <2> QED BY <2>1, <2>2 DEF Recorded, ClaimsNamed, StampsOfCommits
<1>2. BInv /\ BInv' /\ Recorded /\ [ViewNext]_viewVars => Recorded'
  BY RecordedStep
<1> QED BY <1>1, <1>2, Base, ServicesRun, PTL DEF ViewSpec

\* Every variable of the views has its type: every event its stamp, every job
\* that left the queue the worker that took it, whatever the services do while
\* a view is read.
THEOREM ViewTypeCorrect == ViewSpec => []ViewTypeOK
<1>1. BInv /\ Recorded => ViewTypeOK
  BY DEF BInv, EP!IInv, EP!TypeOK, Recorded, ClaimsNamed, ViewTyped, ViewTypeOK
<1> QED BY <1>1, Recording, Base, ServicesRun, PTL

-----------------------------------------------------------------------------
(* The facts of a view are not behind its row *)

Unstarted == {Engine!Absent, "pending", "queued"}

\* While every job waits in the queue nobody has read or written more than
\* that the run is there.
Started ==
  (\A j \in DOMAIN jobs : jobs[j].status = "queued") =>
    /\ run.status \in Unstarted
    /\ \A d \in Drivers : call[d].snap.status \in Unstarted

\* Every step keeps it: who starts a run has taken a job.
LEMMA StartedStep ==
  ASSUME BInv, Started, [Next]_vars
  PROVE  Started'
<1> SUFFICES ASSUME \A j \in DOMAIN jobs' : jobs'[j].status = "queued"
             PROVE  /\ run'.status \in Unstarted
                    /\ \A d \in Drivers : call'[d].snap.status \in Unstarted
  BY DEF Started
<1>1. \A j \in DOMAIN jobs : jobs[j].status = "queued"
  BY JobMoves
<1>2. /\ run.status \in Unstarted
      /\ \A d \in Drivers : call[d].snap.status \in Unstarted
  BY <1>1 DEF Started
<1>3. \A w \in Workers : ~Holding(w)
  BY <1>1, WorkerHas DEF Holding
<1>4. ASSUME NEW d \in Drivers, Others(d), run'.status \in Unstarted,
             call'[d].snap.status \in Unstarted
      PROVE  /\ run'.status \in Unstarted
             /\ \A e \in Drivers : call'[e].snap.status \in Unstarted
  BY <1>2, <1>4 DEF Others
<1>5. CASE UNCHANGED vars
  BY <1>2, <1>5 DEF vars, engineVars
<1>6. CASE EngineKept
  BY <1>2, <1>6 DEF EngineKept, RowKept
<1>7. ASSUME NEW o \in Operators, Request(o) \/ Handle(o) \/ RequestDies(o)
      PROVE  /\ run'.status \in Unstarted
             /\ \A e \in Drivers : call'[e].snap.status \in Unstarted
  <2>1. EngineKept \/ Starts(o) \/ Invokes(o)
    BY <1>7, OperatorStep, RequestDiesStep
       DEF OperatorDoes, Asks, Enqueues, GivesUp
  <2>2. o \in Drivers
    BY DEF Drivers
  <2>3. CASE Starts(o)
    BY <1>4, <2>2, <2>3 DEF Starts, Ends, Unstarted
  <2>4. CASE Invokes(o)
    BY <1>2, <1>4, <2>2, <2>4 DEF Invokes, RowKept, Unstarted
  <2> QED BY <1>6, <2>1, <2>3, <2>4
<1>8. ASSUME NEW w \in Workers,
             Work(w) \/ QueueThrows(w) \/ WorkerDies(w) \/ WorkerStarts(w)
      PROVE  EngineKept
  <2>1. WorkerDoes(w) /\ ~Holding(w) /\ worker[w].pc # "working"
    BY <1>3, <1>8, WorkerStep DEF Holding, Queue!HoldingPc
  <2> QED BY <2>1 DEF WorkerDoes, Idles, Claims, Looks, Calls, Leaves, Settles,
                           Dies, LosesClaim, LosesCompletion
<1>9. ASSUME NEW d \in Drivers, Advance(d) \/ CallFaults(d)
      PROVE  /\ run'.status \in Unstarted
             /\ \A e \in Drivers : call'[e].snap.status \in Unstarted
  <2>1. InCall(d) /\ Others(d) /\ CallDoes(d) /\ CallFits(d)
    BY <1>9, CallStep DEF BInv
  <2>2. d \notin Workers
    BY <1>3, <2>1, CallIsLive
  <2>3. call[d].op \notin WorkerOps
    BY <2>1, <2>2 DEF CallFits, Drivers, OperatorOps, WorkerOps
  <2>4. call[d].snap.status # "paused"
    BY <1>2 DEF Unstarted, Engine!Absent
  <2>5. CASE Reads(d) \/ Fails(d)
    BY <1>2, <1>4, <2>1, <2>5 DEF Reads, Fails, RowKept, Ends, GoesOn, Unstarted
  <2>7. CASE Loses(d)
    BY <1>2, <1>4, <2>1, <2>3, <2>4, <2>7 DEF Loses, Ends, GoesOn, Unstarted
  <2>6. CASE Queues(d)
    BY <1>4, <2>1, <2>3, <2>6 DEF Queues, Ends, Unstarted
  <2> QED BY <2>1, <2>3, <2>4, <2>5, <2>6, <2>7
          DEF CallDoes, Proceeds, Executing, Finishes, Decides
<1> QED BY <1>5, <1>6, <1>7, <1>8, <1>9, StepCases

\* What is read of the run and its log, and then of its jobs.
Tells(n, status) == log[n].step = 0 /\ log[n].status = status

ViewKnows ==
  /\ view.row # Engine!Absent => \E n \in 1 .. Len(log) : Tells(n, view.row)
  /\ view.read # {} => view.row # Engine!Absent
  /\ "events" \in view.read => \E n \in 1 .. view.events : Tells(n, view.row)
  /\ view.row \notin Unstarted => \E j \in DOMAIN jobs : jobs[j].status # "queued"
  /\ view.row \notin Unstarted /\ "jobs" \in view.read =>
       \E j \in DOMAIN view.jobs : view.jobs[j].claimedBy \in Workers

\* Every read adds what is not behind what was read before.
LEMMA KnowsStep ==
  ASSUME BInv, EP!StatusTold, Started, Recorded, ViewKnows, [ViewNext]_viewVars
  PROVE  ViewKnows'
<1>1. ViewTyped /\ ClaimsNamed
  BY DEF Recorded
<1>2. [Next]_vars
  BY ViewStep
<1>3. CASE Drive
  <2>1. /\ view'.row = view.row /\ view'.read = view.read
        /\ view'.events = view.events /\ view'.jobs = view.jobs
    BY <1>1, <1>3, ViewFields
  <2>2. /\ Len(log) \in Nat /\ Len(log') \in Nat /\ Len(log) <= Len(log')
        /\ \A n \in 1 .. Len(log) : log'[n] = log[n]
    BY <1>2, LogGrows
  <2>3. \A n \in 1 .. Len(log) : Tells(n, view.row) => Tells(n, view.row)'
    BY <2>1, <2>2 DEF Tells
  <2>4. view.events \in 0 .. Len(log)
    BY <1>1 DEF ViewTyped
  <2>5. view.row # Engine!Absent => \E n \in 1 .. Len(log') : Tells(n, view.row)'
    BY <2>2, <2>3 DEF ViewKnows
  <2>6. "events" \in view.read => \E n \in 1 .. view.events : Tells(n, view.row)'
    BY <2>2, <2>3, <2>4 DEF ViewKnows
  <2>7. view.row \notin Unstarted => \E j \in DOMAIN jobs' : jobs'[j].status # "queued"
    BY <1>2, JobMoves DEF ViewKnows
  <2> QED BY <2>1, <2>5, <2>6, <2>7 DEF ViewKnows, Tells
<1>4. CASE /\ UNCHANGED <<vars, recorded>>
           /\ ReadRow \/ ReadEvents \/ ReadJobs \/ ShowView \/ view' = view
  <2>1. /\ run' = run /\ log' = log /\ jobs' = jobs /\ claimedBy' = claimedBy
    BY <1>4, Unread
  <2>2. CASE ReadRow
    <3>1. /\ view'.row = run.status /\ view'.read = view.read
          /\ view.row = Engine!Absent
      BY <1>1, <2>2, ViewFields
    <3>2. view'.read = {}
      BY <3>1 DEF ViewKnows
    <3>3. run.status # Engine!Absent => \E n \in 1 .. Len(log) : Tells(n, run.status)
      <4>1. EP!Tells(log, run.status) /\ EP!Absent = Engine!Absent
        BY SameWords DEF EP!StatusTold
      <4>2. DOMAIN log = 1 .. Len(log)
        BY DEF BInv, EP!IInv, EP!TypeOK
      <4> QED BY <4>1, <4>2 DEF EP!Tells, Tells
    <3>4. run.status \notin Unstarted => \E j \in DOMAIN jobs : jobs[j].status # "queued"
      BY DEF Started
    <3> QED BY <2>1, <3>1, <3>2, <3>3, <3>4 DEF ViewKnows, Tells
  <2>3. CASE ReadEvents
    <3>1. /\ view'.row = view.row /\ view'.read = view.read \cup {"events"}
          /\ view'.events = Len(log) /\ view'.jobs = view.jobs
          /\ view.row # Engine!Absent
      BY <1>1, <2>3, ViewFields
    <3> QED BY <2>1, <3>1 DEF ViewKnows, Tells
  <2>4. CASE ReadJobs
    <3>1. /\ view'.row = view.row /\ view'.read = view.read \cup {"jobs"}
          /\ view'.events = view.events /\ view'.jobs = JobRows
          /\ view.row # Engine!Absent
      BY <1>1, <2>4, ViewFields
    <3>2. view.row \notin Unstarted =>
            \E j \in DOMAIN JobRows : JobRows[j].claimedBy \in Workers
      BY <1>1 DEF ViewKnows, JobRows, JobRow, ClaimsNamed
    <3> QED BY <2>1, <3>1, <3>2 DEF ViewKnows, Tells
  <2>5. CASE ShowView
    <3>1. view'.row = Engine!Absent /\ view'.read = {}
      BY <2>5 DEF ShowView, NoView
    <3> QED BY <3>1 DEF ViewKnows, Unstarted
  <2>6. CASE view' = view
    BY <2>1, <2>6 DEF ViewKnows, Tells
  <2> QED BY <1>4, <2>2, <2>3, <2>4, <2>5, <2>6
<1> QED BY <1>3, <1>4, ViewCases

\* So every view knows what its row tells.
LEMMA ViewsKnow == ViewSpec => [](Started /\ ViewKnows)
<1>1. ViewInit => Started /\ ViewKnows
  <2> SUFFICES ASSUME ViewInit PROVE Started /\ ViewKnows
    OBVIOUS
  <2>1. /\ run.status = Engine!Absent
        /\ \A d \in Drivers : call[d].snap.status = Engine!Absent
    BY DEF ViewInit, Init, Engine!Init, Engine!NoRun, Engine!Ended,
           Engine!createWorkflowRunSnapshot
  <2>2. view.row = Engine!Absent /\ view.read = {}
    BY DEF ViewInit, NoView
  <2> QED BY <2>1, <2>2 DEF Started, ViewKnows, Unstarted
<1>2. /\ BInv /\ EP!StatusTold /\ Recorded /\ Started /\ ViewKnows
      /\ [ViewNext]_viewVars
      => (Started /\ ViewKnows)'
  BY KnowsStep, StartedStep, ViewStep
<1> QED BY <1>1, <1>2, Base, Told, Recording, ServicesRun, PTL DEF ViewSpec

\* Whatever happens between its reads, a view agrees with itself: its timeline
\* tells the status of its row, and when the run was ever started its summary
\* names a worker (getTimeline, getAuditView, listAuditResults).
THEOREM ViewsAgree == ViewSpec => []ViewAgrees
<1>1. ASSUME Recorded, ViewKnows PROVE ViewAgrees
  <2>1. ViewCoversRow
    <3> SUFFICES ASSUME Complete(view)
                 PROVE  LET timeline == projectRunTimeline(view) IN
                        \E n \in DOMAIN timeline :
                          /\ timeline[n].stepId = 0
                          /\ timeline[n].status = view.row
      BY DEF ViewCoversRow
    <3>1. PICK n \in 1 .. view.events : Tells(n, view.row)
      BY <1>1 DEF Complete, Sources, ViewKnows
    <3> QED BY <3>1 DEF projectRunTimeline, createRunTimelineEntry, Tells
  <2>2. ViewNamesWorker
    <3> SUFFICES ASSUME Complete(view), view.row \notin {"pending", "queued"}
                 PROVE  summarizeWorkers(DispatchEntries(view)
                                           \cup ToolEntries(view)) # {}
      BY DEF ViewNamesWorker
    <3> DEFINE entries == DispatchEntries(view) \cup ToolEntries(view)
    <3>1. PICK j \in DOMAIN view.jobs : view.jobs[j].claimedBy \in Workers
      BY <1>1 DEF Complete, Sources, ViewKnows, Unstarted
    <3> DEFINE row == view.jobs[j]
               entry == [kind |-> "dispatch-enqueued",
                         correlation |-> DispatchCorrelation(j, row),
                         fact |-> [dispatchJobId |-> j, row |-> row]]
    <3>2. entry \in createDispatchEntries(j, row)
      BY DEF createDispatchEntries
    <3>3. entry \in entries
      BY <3>1, <3>2 DEF DispatchEntries
    <3>4. entry.kind = "dispatch-enqueued" /\ entry.fact.row = row
      OBVIOUS
    <3>5. row.claimedBy # Nobody
      BY <3>1, ViewsAssumption
    <3> HIDE DEF entry, entries, row
    <3>6. entry.fact \in summarizeDispatchJobs(entries)
      BY <3>3, <3>4 DEF summarizeDispatchJobs
    <3>7. row.claimedBy \in summarizeWorkers(entries)
      BY <3>4, <3>5, <3>6 DEF summarizeWorkers
    <3> QED BY <3>7 DEF entries
  <2> QED BY <2>1, <2>2 DEF ViewAgrees
<1> QED BY <1>1, Recording, ViewsKnow, PTL

-----------------------------------------------------------------------------
(* The order of an approval's events *)

ReplayFact(n) == [sequence |-> n, status |-> log[n].status]

\* The ids of approvals that a view names are ids, and the entries of one of
\* them are those of its events.
LEMMA ApprovalIds ==
  ASSUME NEW a \in Ids(ReplayEntries(view), "approvalId")
  PROVE  a # 0
<1>1. PICK n \in 1 .. view.events :
        \E c \in createReplayEntry(n).correlation : c[1] = "approvalId" /\ a = c[2]
  BY DEF Ids, ReplayEntries
<1> PICK c \in createReplayEntry(n).correlation : c[1] = "approvalId" /\ a = c[2]
  BY <1>1
<1>2. c \notin {<<"runId", TheRun>>} \cup Correlates("stepId", log[n].step, 0)
  BY DEF Correlates
<1>3. c \in Correlates("approvalId", readApprovalId(n), 0)
  BY <1>2 DEF createReplayEntry
<1> QED BY <1>3 DEF Correlates

\* The entry of an event names the approval the event is about.
LEMMA ApprovalNamed ==
  ASSUME NEW n, NEW a, a # 0
  PROVE  <<"approvalId", a>> \in createReplayEntry(n).correlation
           <=> readApprovalId(n) = a
BY DEF createReplayEntry, Correlates

\* The facts of an approval are those of its events.
LEMMA ApprovalFacts ==
  ASSUME NEW a, a # 0
  PROVE  {e.fact : e \in {e \in ReplayEntries(view) :
                            <<"approvalId", a>> \in e.correlation}}
           = {ReplayFact(n) : n \in EventsOfApproval(a)}
<1>1. \A n : createReplayEntry(n).fact = ReplayFact(n)
  BY DEF createReplayEntry, ReplayFact
<1>2. {e \in ReplayEntries(view) : <<"approvalId", a>> \in e.correlation}
        = {createReplayEntry(n) : n \in EventsOfApproval(a)}
  BY ApprovalNamed DEF ReplayEntries, EventsOfApproval
<1> QED BY <1>1, <1>2

\* Commits that are further apart than the clocks come in the order of the log,
\* and the events of one commit in no order.
LEMMA ApartInOrder ==
  ASSUME Recorded, NEW ahead \in Nat, NEW events \in SUBSET (1 .. view.events),
         Apart(events, ahead), NEW m \in events, NEW n \in events
  PROVE  LaterThan(m, n, ahead) <=> ~(stamps[m].tick <= stamps[n].tick)
<1>1. /\ m \in DOMAIN stamps /\ n \in DOMAIN stamps
      /\ stamps[m] \in StampType /\ stamps[n] \in StampType
  BY DEF Recorded, ViewTyped
<1>2. stamps[m].tick \in Nat /\ stamps[n].tick \in Nat
  BY <1>1 DEF StampType
<1>3. /\ stamps[m].tick < stamps[n].tick => stamps[n].tick - stamps[m].tick > ahead
      /\ stamps[n].tick < stamps[m].tick => stamps[m].tick - stamps[n].tick > ahead
  BY DEF Apart
<1>4. stamps[m].tick = stamps[n].tick => stamps[m].clock = stamps[n].clock
  BY <1>1 DEF Recorded, StampsOfCommits
<1> QED BY <1>2, <1>3, <1>4 DEF LaterThan, occurredAt

\* As long as the workers' clocks are ahead by less than what lies between the
\* request of an approval and its decision, the summary shows the approval as
\* the last commit about it left it, although the entries of a view are ordered
\* by clock (compareAuditEntries); random ids order the events of one commit,
\* so a rejection may be shown by the run.cancelled stored with it.
THEOREM ApprovalsInOrder == ViewSpec => []ApprovalsShownInOrder
<1>1. ASSUME Recorded PROVE ApprovalsShownInOrder
  <2> SUFFICES ASSUME NEW a \in Ids(ReplayEntries(view), "approvalId"),
                      NEW ahead \in 0 .. MaxSkew,
                      Apart(EventsOfApproval(a), ahead)
               PROVE  summarizeApproval(ReplayEntries(view), a, ahead)
                        = {log[n].status : n \in LastCommitted(EventsOfApproval(a))}
    BY DEF ApprovalsShownInOrder
  <2> DEFINE E == EventsOfApproval(a)
             facts == {ReplayFact(n) : n \in E}
             last(f) == \A g \in facts : ~LaterThan(g.sequence, f.sequence, ahead)
  <2>1. ahead \in Nat
    BY ViewsAssumption
  <2>2. E \in SUBSET (1 .. view.events)
    BY DEF EventsOfApproval
  <2>3. \A m, n \in E :
          LaterThan(m, n, ahead) <=> ~(stamps[m].tick <= stamps[n].tick)
    BY <1>1, <2>1, <2>2, ApartInOrder
  <2>4. summarizeApproval(ReplayEntries(view), a, ahead)
          = {f.status : f \in {f \in facts : last(f)}}
    BY ApprovalIds, ApprovalFacts DEF summarizeApproval
  <2>5. \A n : /\ ReplayFact(n).sequence = n
               /\ ReplayFact(n).status = log[n].status
    BY DEF ReplayFact
  <2> HIDE DEF E
  <2>6. ASSUME NEW n \in E
        PROVE  last(ReplayFact(n)) <=> n \in LastCommitted(E)
    <3>1. last(ReplayFact(n)) <=> \A m \in E : ~LaterThan(m, n, ahead)
      BY <2>5
    <3> QED BY <2>3, <3>1 DEF LastCommitted
  <2> HIDE DEF last
  <2>7. {f \in facts : last(f)} = {ReplayFact(n) : n \in LastCommitted(E)}
    BY <2>6 DEF LastCommitted
  <2> QED BY <2>4, <2>5, <2>7 DEF E
<1> QED BY <1>1, Recording, PTL

-----------------------------------------------------------------------------
(* Links stay alive *)

\* What the facts that are stored name: an event, a job, a tool call.
EventNames(id) == \E n \in 1 .. Len(log) : id \in createReplayEntry(n).correlation
JobNames(id)   == \E j \in DOMAIN jobs : id \in DispatchCorrelation(j, JobRow(j))
CallNames(id)  ==
  \E k \in DOMAIN history : id \in createToolEntry(k, history[k]).correlation
Named(id) == EventNames(id) \/ JobNames(id) \/ CallNames(id)

\* A drilldown by an id that a stored fact names finds that fact.
NamedAreFound == \A id : Named(id) => Finds({id})

\* For the entries of a view are made of what is stored.
LEMMA NamedIsFound == NamedAreFound
<1> SUFFICES ASSUME NEW id, Named(id)
             PROVE  Finds({id})
  BY DEF NamedAreFound
<1>1. SUFFICES \E e \in projectRunAuditView(Now) : id \in e.correlation
  BY DEF Finds, projectCrossRunAuditDrilldownResult,
         matchesCrossRunAuditDrilldownFilters, hasCrossRunAuditDrilldownFilters
<1>2. CASE EventNames(id)
  BY <1>2 DEF EventNames, projectRunAuditView, ReplayEntries, Now
<1>3. CASE JobNames(id)
  <2>1. PICK j \in DOMAIN jobs : id \in DispatchCorrelation(j, JobRow(j))
    BY <1>3 DEF JobNames
  <2> DEFINE entry == [kind |-> "dispatch-enqueued",
                       correlation |-> DispatchCorrelation(j, JobRow(j)),
                       fact |-> [dispatchJobId |-> j, row |-> JobRow(j)]]
  <2>2. entry \in createDispatchEntries(j, JobRow(j))
    BY DEF createDispatchEntries
  <2>3. Now.jobs = JobRows /\ j \in DOMAIN JobRows /\ JobRows[j] = JobRow(j)
    BY DEF Now, JobRows
  <2>4. entry \in projectRunAuditView(Now)
    <3> HIDE DEF entry
    <3> QED BY <2>2, <2>3 DEF projectRunAuditView, DispatchEntries
  <2> QED BY <2>1, <2>4
<1>4. CASE CallNames(id)
  BY <1>4 DEF CallNames, projectRunAuditView, ToolEntries, Now
<1> QED BY <1>2, <1>3, <1>4 DEF Named

\* An entry about job j.
IsJobEntry(e, j) ==
  /\ e.correlation = DispatchCorrelation(j, JobRow(j))
  /\ e.fact = [dispatchJobId |-> j, row |-> JobRow(j)]
  /\ e.kind \notin {"replay-event", "tool-outcome"}

\* The entries of a view of what is stored now, one by one.
LEMMA EntriesNow ==
  ASSUME NEW e \in projectRunAuditView(Now)
  PROVE  \/ \E n \in 1 .. Len(log) : e = createReplayEntry(n)
         \/ \E j \in DOMAIN jobs : IsJobEntry(e, j)
         \/ \E k \in DOMAIN history : e = createToolEntry(k, history[k])
<1>1. CASE e \in ReplayEntries(Now)
  BY <1>1 DEF ReplayEntries, Now
<1>2. CASE e \in DispatchEntries(Now)
  <2>1. Now.jobs = JobRows /\ DOMAIN JobRows = DOMAIN jobs
    BY DEF Now, JobRows
  <2>2. PICK j \in DOMAIN jobs : e \in createDispatchEntries(j, JobRow(j))
    BY <1>2, <2>1 DEF DispatchEntries, JobRows
  <2>3. IsJobEntry(e, j)
    BY <2>2 DEF createDispatchEntries, IsJobEntry
  <2> QED BY <2>3
<1>3. CASE e \in ToolEntries(Now)
  <2>1. Now.history = history
    BY DEF Now
  <2> QED BY <1>3, <2>1 DEF ToolEntries
<1> QED BY <1>1, <1>2, <1>3 DEF projectRunAuditView

\* What an entry names, a stored fact names.
LEMMA EntriesName ==
  ASSUME NEW e \in projectRunAuditView(Now), NEW id \in e.correlation
  PROVE  Named(id) /\ id = <<id[1], id[2]>>
<1>1. CASE \E n \in 1 .. Len(log) : e = createReplayEntry(n)
  BY <1>1 DEF createReplayEntry, Correlates, EventNames, Named
<1>2. CASE \E j \in DOMAIN jobs : IsJobEntry(e, j)
  BY <1>2 DEF IsJobEntry, DispatchCorrelation, Correlates, JobNames, Named
<1>3. CASE \E k \in DOMAIN history : e = createToolEntry(k, history[k])
  BY <1>3 DEF createToolEntry, CallNames, Named
<1> QED BY <1>1, <1>2, <1>3, EntriesNow

\* Every link of a summary is an id that a stored fact names.
LEMMA LinksName ==
  ASSUME log # <<>>, Len(log) \in Nat, DOMAIN log = 1 .. Len(log),
         NEW link \in createDrilldownLinks(projectCrossRunAuditResult(Now))
  PROVE  \E id : link = {id} /\ Named(id)
<1> DEFINE entries == projectRunAuditView(Now)
           result  == projectCrossRunAuditResult(Now)
<1>1. ASSUME NEW name, NEW a \in Ids(entries, name)
      PROVE  Named(<<name, a>>)
  <2>1. PICK e \in entries : \E c \in e.correlation : c[1] = name /\ a = c[2]
    BY DEF Ids
  <2>2. PICK c \in e.correlation : c[1] = name /\ a = c[2]
    BY <2>1
  <2> QED BY <2>2, EntriesName
<1>2. ASSUME NEW f \in summarizeDispatchJobs(entries)
      PROVE  /\ Named(<<"dispatchJobId", f.dispatchJobId>>)
             /\ f.row.claimedBy # Nobody => Named(<<"workerId", f.row.claimedBy>>)
  <2>1. PICK e \in entries : /\ e.kind \notin {"replay-event", "tool-outcome"}
                             /\ f = e.fact
    BY DEF summarizeDispatchJobs
  <2>2. PICK j \in DOMAIN jobs : IsJobEntry(e, j)
    BY <2>1, EntriesNow DEF createReplayEntry, createToolEntry
  <2>3. f.dispatchJobId = j /\ f.row = JobRow(j)
    BY <2>1, <2>2 DEF IsJobEntry
  <2>4. /\ <<"dispatchJobId", j>> \in e.correlation
        /\ JobRow(j).claimedBy # Nobody =>
             <<"workerId", JobRow(j).claimedBy>> \in e.correlation
    BY <2>2 DEF IsJobEntry, DispatchCorrelation, Correlates
  <2> QED BY <2>3, <2>4, EntriesName
<1>3. ASSUME NEW f \in summarizeToolCalls(entries)
      PROVE  /\ Named(<<"toolCallId", f.callId>>)
             /\ Named(<<"toolId", f.call.toolId>>)
             /\ Named(<<"workerId", f.call.workerId>>)
  <2>1. PICK e \in entries : e.kind = "tool-outcome" /\ f = e.fact
    BY DEF summarizeToolCalls
  <2>2. PICK k \in DOMAIN history : e = createToolEntry(k, history[k])
    <3>1. \A n : createReplayEntry(n).kind = "replay-event"
      BY DEF createReplayEntry
    <3>2. \A j : IsJobEntry(e, j) => e.kind # "tool-outcome"
      BY DEF IsJobEntry
    <3> QED BY <2>1, <3>1, <3>2, EntriesNow
  <2>3. /\ <<"toolCallId", f.callId>> \in e.correlation
        /\ <<"toolId", f.call.toolId>> \in e.correlation
        /\ <<"workerId", f.call.workerId>> \in e.correlation
    BY <2>1, <2>2 DEF createToolEntry
  <2> QED BY <2>3, EntriesName
<1>4. ASSUME NEW w \in summarizeWorkers(entries)
      PROVE  Named(<<"workerId", w>>)
  BY <1>2, <1>3 DEF summarizeWorkers
<1>5. Named(<<"runId", TheRun>>)
  <2>1. 1 \in 1 .. Len(log)
    OBVIOUS
  <2> QED BY <2>1 DEF createReplayEntry, EventNames, Named
<1>6. /\ result.approvals = Ids(entries, "approvalId")
      /\ result.dispatchJobs = summarizeDispatchJobs(entries)
      /\ result.stepIds = Ids(entries, "stepId")
      /\ result.toolCalls = summarizeToolCalls(entries)
      /\ result.workerIds = summarizeWorkers(entries)
  BY DEF projectCrossRunAuditResult
<1> HIDE DEF entries, result
<1> QED BY <1>1, <1>2, <1>3, <1>4, <1>5, <1>6
    DEF createDrilldownLinks, createDrilldownLink, result

\* A fact that is stored is there for good, with the ids it names.
LEMMA NamesStay ==
  ASSUME BInv, Recorded, [ViewNext]_viewVars, NEW id, Named(id)
  PROVE  Named(id)'
<1>1. CASE Drive
  <2>1. [Next]_vars /\ NameClaims /\ SaveToolCalls
    BY <1>1 DEF Drive
  <2>2. CASE EventNames(id)
    <3>1. PICK n \in 1 .. Len(log) : id \in createReplayEntry(n).correlation
      BY <2>2 DEF EventNames
    <3>2. /\ Len(log) \in Nat /\ Len(log') \in Nat /\ Len(log) <= Len(log')
          /\ \A m \in 1 .. Len(log) : log'[m] = log[m]
      BY <2>1, LogGrows
    <3>3. n \in 1 .. Len(log') /\ log'[n] = log[n]
      BY <3>2
    <3>4. {m \in 1 .. n : log[m].name = "approval.requested"}
            = {m \in 1 .. n : log'[m].name = "approval.requested"}
      BY <3>2
    <3>5. readApprovalId(n)' = readApprovalId(n)
      BY <3>3, <3>4 DEF readApprovalId
    <3>6. createReplayEntry(n)'.correlation = createReplayEntry(n).correlation
      BY <3>3, <3>5 DEF createReplayEntry
    <3> QED BY <3>1, <3>3, <3>6 DEF EventNames, Named
  <2>3. CASE JobNames(id)
    <3>1. PICK j \in DOMAIN jobs : id \in DispatchCorrelation(j, JobRow(j))
      BY <2>3 DEF JobNames
    <3>2. j \in DOMAIN jobs' /\ (claimedBy[j] # Nobody => claimedBy'[j] = claimedBy[j])
      BY <2>1, JobMoves, ClaimsKept DEF Recorded
    <3>3. /\ JobRow(j).claimedBy = claimedBy[j]
          /\ JobRow(j)'.claimedBy = claimedBy'[j]
      BY DEF JobRow
    <3>4. id \in DispatchCorrelation(j, JobRow(j)')
      BY <3>1, <3>2, <3>3 DEF DispatchCorrelation, Correlates
    <3> QED BY <3>2, <3>4 DEF JobNames, Named
  <2>4. CASE CallNames(id)
    BY <2>1, <2>4, HistoryKept DEF Recorded, CallNames, createToolEntry, Named
  <2> QED BY <2>2, <2>3, <2>4 DEF Named
<1>2. CASE UNCHANGED <<vars, recorded>>
  BY <1>2, Unread DEF Named, EventNames, JobNames, CallNames, createReplayEntry,
                      createToolEntry, readApprovalId, JobRow
<1> QED BY <1>1, <1>2, ViewCases

\* A link of a summary finds something when it is made, and whatever is done
\* next to the run, its jobs and its workers.
THEOREM LinksNeverDangle == ViewSpec => LinksStayAlive
<1>1. ASSUME BInv, EP!StatusTold, Recorded, NamedAreFound, NamedAreFound',
             [ViewNext]_viewVars, run.status # Engine!Absent,
             NEW link \in createDrilldownLinks(projectCrossRunAuditResult(Now))
      PROVE  Finds(link) /\ Finds(link)'
  <2>1. log \in Seq(EP!EventType)
    BY <1>1 DEF BInv, EP!IInv, EP!TypeOK
  <2>2. EP!Tells(log, run.status) /\ EP!Absent = Engine!Absent
    BY <1>1, SameWords DEF EP!StatusTold
  <2>3. log # <<>>
    BY <1>1, <2>2 DEF EP!Tells
  <2>4. PICK id : link = {id} /\ Named(id)
    BY <2>1, <2>3, LinksName
  <2>5. Named(id)'
    BY <1>1, <2>4, NamesStay
  <2> QED BY <1>1, <2>4, <2>5 DEF NamedAreFound
<1>2. /\ BInv /\ EP!StatusTold /\ Recorded /\ NamedAreFound /\ NamedAreFound'
      /\ [ViewNext]_viewVars
      => [view = NoView /\ run.status # Engine!Absent =>
            \A link \in createDrilldownLinks(projectCrossRunAuditResult(Now)) :
              Finds(link) /\ Finds(link)']_<<log, jobs, recorded>>
  BY <1>1
<1> QED BY <1>2, NamedIsFound, Recording, Told, Base, ServicesRun, PTL
        DEF ViewSpec, LinksStayAlive
=============================================================================
