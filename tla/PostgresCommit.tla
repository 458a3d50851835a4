--------------------------- MODULE PostgresCommit ---------------------------
(***************************************************************************)
(* commitTransition on Postgres (packages/persistence/src/database-store): *)
(* a READ COMMITTED transaction that selects all rows of the run, applies  *)
(* the transition to them in memory, deletes the rows and inserts the      *)
(* result.  Every statement has a snapshot of its own; rows that another   *)
(* transaction has deleted or inserted make a statement wait for its end.  *)
(*                                                                         *)
(* One run, created already.  A transition is known by its name: it adds   *)
(* one event to the log and writes the run row; one that asks adds an      *)
(* approval and a checkpoint too, one that decides settles an approval.    *)
(***************************************************************************)
EXTENDS Naturals, Sequences, FiniteSets

CONSTANTS Commits,      \* transitions, each committed by one call
          Asking,       \* those that request an approval
          Deciding,     \* those that decide one
          Created,      \* the transition that created the run
          MaxFailures   \* bound on the number of failing statements

ASSUME PostgresAssumption ==
  /\ Asking \subseteq Commits /\ Deciding \subseteq Commits \ Asking
  /\ Created \notin Commits
  /\ MaxFailures \in Nat

VARIABLES rows,     \* the committed rows of the run
          tx,       \* tx[x] : the transaction of x
          ended,    \* ended[x] : the calls that were over when x began
          failures  \* failing statements so far

vars == <<rows, tx, ended, failures>>

-----------------------------------------------------------------------------
(* Rows *)

\* The order of the SELECTs and of the INSERTs, and that of the DELETEs.
Tables  == <<"runs", "approvals", "checkpoints", "events">>
Deletes == <<"events", "checkpoints", "approvals", "runs">>

Names == Commits \cup {Created}

\* A version of a row: its primary key, its sequence number (0: none), what it
\* says and the transaction that inserted it.
Row(table, id, sequence, data, by) ==
  [table |-> table, id |-> id, sequence |-> sequence, data |-> data, by |-> by]

RowType == [table : {"runs", "approvals", "checkpoints", "events"}, id : Names,
            sequence : 0 .. Cardinality(Names),
            data : {"saved", "pending", "decided"}, by : Names]

Of(table, some) == {r \in some : r.table = table}

\* Two rows that the primary key or the index on (run_id, sequence) keep apart.
Conflict(r, s) ==
  /\ r.table = s.table
  /\ r.id = s.id \/ (r.sequence > 0 /\ r.sequence = s.sequence)

-----------------------------------------------------------------------------
(* The transition applied in memory *)

\* Mutant: numbers start two above the rows there are.
NextSequence_Skips(table, read) == Cardinality(Of(table, read)) + 2

NextSequence(table, read) == Cardinality(Of(table, read)) + 1

\* Mutant: the approvals of the run are not written back.
Carried_NoApprovals(read, x) ==
  {[r EXCEPT !.by = x] : r \in Of("events", read) \cup Of("checkpoints", read)}

Carried(read, x) ==
  {[r EXCEPT !.by = x] :
     r \in Of("events", read) \cup Of("checkpoints", read) \cup Of("approvals", read)}

Added(read, x) ==
  {Row("runs", Created, 0, "saved", x),
   Row("events", x, NextSequence("events", read), "saved", x)}
  \cup (IF x \in Asking
        THEN {Row("approvals", x, 0, "pending", x),
              Row("checkpoints", x, NextSequence("checkpoints", read), "saved", x)}
        ELSE {})

\* decideExistingApproval: the approval has to be there and to be pending.
Pending(read) == {r \in Of("approvals", read) : r.data = "pending"}

Decided(some, a) ==
  {IF r.table = "approvals" /\ r.id = a THEN [r EXCEPT !.data = "decided"] ELSE r :
     r \in some}

-----------------------------------------------------------------------------
(* Transactions *)

Pc == {"idle", "select", "apply", "delete", "deleting", "insert", "commit",
       "done", "failed"}

\* The n-th statement of its kind is next; read is what the SELECTs found,
\* write what the INSERTs are to write, target what the DELETE under way saw.
TxType == [pc : Pc, n : 1 .. 4, read : SUBSET RowType, write : SUBSET RowType,
           target : SUBSET RowType, deleted : SUBSET RowType,
           inserted : SUBSET RowType]

At(pc) == [pc |-> pc, n |-> 1, read |-> {}, write |-> {}, target |-> {},
           deleted |-> {}, inserted |-> {}]

Over(x) == tx[x].pc \in {"done", "failed"}

Init == /\ rows = {Row("runs", Created, 0, "saved", Created),
                   Row("events", Created, 1, "saved", Created)}
        /\ tx = [x \in Commits |-> At("idle")]
        /\ ended = [x \in Commits |-> {}]
        /\ failures = 0

Becomes(x, t) == tx' = [tx EXCEPT ![x] = t]

\* The n-th statement is done: the next one, or the next kind.
NextStatement(t, pc, nextPc) ==
  IF t.n < 4 THEN [t EXCEPT !.pc = pc, !.n = @ + 1]
             ELSE [t EXCEPT !.pc = nextPc, !.n = 1]

Batch(x) == Of(Tables[tx[x].n], tx[x].write)

\* The transactions whose row locks the statement of x has to wait for.
WaitsFor(x) ==
  {y \in Commits \ {x} :
     \/ /\ tx[x].pc = "deleting"
        /\ tx[y].deleted \cap tx[x].target # {}
     \/ /\ tx[x].pc = "insert"
        /\ \E r \in Batch(x), s \in tx[y].deleted \cup tx[y].inserted : Conflict(r, s)}

Begin(x) ==
  /\ tx[x].pc = "idle"
  /\ Becomes(x, At("select"))
  /\ ended' = [ended EXCEPT ![x] = {y \in Commits : Over(y)}]
  /\ UNCHANGED <<rows, failures>>

\* readRunSnapshot: four SELECTs on one connection, one after the other.
Select(x) ==
  /\ tx[x].pc = "select"
  /\ Becomes(x, NextStatement([tx[x] EXCEPT !.read = @ \cup Of(Tables[tx[x].n], rows)],
                              "select", "apply"))
  /\ UNCHANGED <<rows, ended, failures>>

\* commitTransition of the in-memory store over what was read.
Apply(x) ==
  /\ tx[x].pc = "apply"
  /\ LET read   == tx[x].read
         result == Carried(read, x) \cup Added(read, x)
     IN IF x \in Deciding
        THEN \E a \in Pending(read) :
               Becomes(x, [At("delete") EXCEPT !.write = Decided(result, a.id)])
        ELSE Becomes(x, [At("delete") EXCEPT !.write = result])
  /\ UNCHANGED <<rows, ended, failures>>

\* writeRunSnapshot: a DELETE per table.  It sees the rows committed when it
\* starts; those that are gone when their locks are free it leaves out.
StartDelete(x) ==
  /\ tx[x].pc = "delete"
  /\ Becomes(x, [tx[x] EXCEPT !.pc = "deleting",
                              !.target = Of(Deletes[tx[x].n], rows)])
  /\ UNCHANGED <<rows, ended, failures>>

EndDelete(x) ==
  /\ tx[x].pc = "deleting"
  /\ WaitsFor(x) = {}
  /\ Becomes(x, NextStatement([tx[x] EXCEPT !.deleted = @ \cup (tx[x].target \cap rows),
                                            !.target = {}],
                              "delete", "insert"))
  /\ UNCHANGED <<rows, ended, failures>>

\* The rows an INSERT would collide with.
Collisions(x) ==
  {s \in rows \ tx[x].deleted : \E r \in Batch(x) : Conflict(r, s)}

\* upsertRun replaces the row it collides with (only a transaction that will
\* violate a key later finds one); the other tables insert.
Insert(x) ==
  /\ tx[x].pc = "insert"
  /\ WaitsFor(x) = {}
  /\ Tables[tx[x].n] = "runs" \/ Collisions(x) = {}
  /\ Becomes(x, NextStatement([tx[x] EXCEPT !.inserted = @ \cup Batch(x),
                                            !.deleted = @ \cup Collisions(x)],
                              "insert", "commit"))
  /\ UNCHANGED <<rows, ended, failures>>

Commit(x) ==
  /\ tx[x].pc = "commit"
  /\ rows' = (rows \ tx[x].deleted) \cup tx[x].inserted
  /\ Becomes(x, At("done"))
  /\ UNCHANGED <<ended, failures>>

-----------------------------------------------------------------------------
(* Errors *)

\* Mutant: the connection is released without a ROLLBACK.
Rollback_Skipped(x) == Becomes(x, [tx[x] EXCEPT !.pc = "failed"])

\* The catch of withPostgresTransaction.
Rollback(x) == Becomes(x, At("failed"))

\* The in-memory store throws: there is no pending approval to decide.
Refused(x) == tx[x].pc = "apply" /\ x \in Deciding /\ Pending(tx[x].read) = {}

UniqueViolation(x) ==
  /\ tx[x].pc = "insert"
  /\ Tables[tx[x].n] # "runs"
  /\ \E s \in Collisions(x) : \A y \in Commits \ {x} : s \notin tx[y].deleted

\* The server aborts a transaction on a cycle of waits.
Stuck(some) == some # {} /\ \A y \in some : WaitsFor(y) \cap some # {}

Deadlocked(x) ==
  \E some \in SUBSET Commits :
    /\ x \in some /\ Stuck(some)
    /\ \A fewer \in SUBSET some : Stuck(fewer) => fewer = some

Throws(x) ==
  /\ Refused(x) \/ UniqueViolation(x) \/ Deadlocked(x)
  /\ Rollback(x)
  /\ UNCHANGED <<rows, ended, failures>>

\* A statement fails, or the connection is lost: the server rolls back, unless
\* it was the answer to COMMIT that was lost.
Fails(x) ==
  /\ tx[x].pc \notin {"idle", "done", "failed"}
  /\ failures < MaxFailures
  /\ failures' = failures + 1
  /\ \/ UNCHANGED rows
     \/ tx[x].pc = "commit" /\ rows' = (rows \ tx[x].deleted) \cup tx[x].inserted
  /\ Becomes(x, At("failed"))
  /\ UNCHANGED ended

Step(x) ==
  Select(x) \/ Apply(x) \/ StartDelete(x) \/ EndDelete(x) \/ Insert(x)
    \/ Commit(x) \/ Throws(x)

Next == \E x \in Commits : Begin(x) \/ Step(x) \/ Fails(x)

Spec == Init /\ [][Next]_vars

\* Statements return, and the server detects deadlocks.
FairSpec == Spec /\ \A x \in Commits : WF_vars(Step(x))

-----------------------------------------------------------------------------
(* Properties *)

TypeOK ==
  /\ rows \subseteq RowType
  /\ tx \in [Commits -> TxType]
  /\ ended \in [Commits -> SUBSET Commits]
  /\ failures \in Nat

Numbered(table) ==
  {r.sequence : r \in Of(table, rows)} = 1 .. Cardinality(Of(table, rows))

\* However transactions overlap, wait for each other's rows, collide or are
\* aborted, the committed rows of the run are those of one transaction as a
\* whole: a run row, and events and checkpoints numbered without a gap.
RunIsWhole ==
  /\ \E x \in Names : Of("runs", rows) = {Row("runs", Created, 0, "saved", x)}
  /\ \A r, s \in rows : r.by = s.by
  /\ Numbered("events") /\ Numbered("checkpoints")

\* All that a transition added is there.
Kept(x) ==
  /\ \E r \in Of("events", rows) : r.id = x
  /\ x \in Asking => /\ \E r \in Of("approvals", rows) : r.id = x
                     /\ \E r \in Of("checkpoints", rows) : r.id = x

\* A commit that was acknowledged is in the log for good, with the approval
\* and the checkpoint it came with.
AcknowledgedIsKept == \A x \in Commits : tx[x].pc = "done" => Kept(x)

Overlap(x, y) == /\ tx[x].pc # "idle" /\ tx[y].pc # "idle"
                 /\ x \notin ended[y] /\ y \notin ended[x]

\* That much is true of a commit that no other commit of the run overlapped,
\* whatever the others did to each other before or after it.
KeptUnlessOverlapped ==
  \A x \in Commits :
    tx[x].pc = "done" /\ (\A y \in Commits \ {x} : ~Overlap(x, y)) => Kept(x)

\* Every call returns or throws: waits end, deadlocks and collisions too.
CommitsEnd == \A x \in Commits : tx[x].pc # "idle" ~> Over(x)
=============================================================================
