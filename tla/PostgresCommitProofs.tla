------------------------ MODULE PostgresCommitProofs ------------------------
(***************************************************************************)
(* Proofs about PostgresCommit for any number of transitions and of        *)
(* failing statements: what READ COMMITTED, row locks and unique keys      *)
(* guarantee to a transaction that rewrites all rows of a run.             *)
(***************************************************************************)
EXTENDS PostgresCommit, FiniteSetTheorems, FunctionTheorems, TLAPS

-----------------------------------------------------------------------------
(* The rows of a run *)

TableNames == {"runs", "approvals", "checkpoints", "events"}

ARow == [table : TableNames, id : Names, sequence : Nat,
         data : {"saved", "pending", "decided"}, by : Names]

\* The rows of a table are numbered without a gap.
Counted(some) ==
  /\ IsFiniteSet(some)
  /\ {r.sequence : r \in some} = 1 .. Cardinality(some)

IsLogStart(r) == r.table = "events" /\ r.id = Created

\* The rows of a run as transaction x left them.
WholeBy(x, some) ==
  /\ some \subseteq ARow
  /\ Of("runs", some) = {Row("runs", Created, 0, "saved", x)}
  /\ \A r \in some : r.by = x
  /\ Counted(Of("events", some)) /\ Counted(Of("checkpoints", some))
  /\ \E r \in some : IsLogStart(r)

Signed(some, x) == {[r EXCEPT !.by = x] : r \in some}

LEMMA SignedRow ==
  ASSUME NEW r \in ARow, NEW x \in Names
  PROVE  LET s == [r EXCEPT !.by = x] IN
         /\ s \in ARow /\ s.by = x /\ s.table = r.table /\ s.id = r.id
         /\ s.sequence = r.sequence /\ s.data = r.data
BY DEF ARow

\* Writing rows of one transaction again under another name keeps how many
\* there are and their numbers.
LEMMA SignedCounted ==
  ASSUME NEW E \in SUBSET ARow, NEW z, \A r \in E : r.by = z, Counted(E),
         NEW x \in Names
  PROVE  /\ Counted(Signed(E, x))
         /\ Cardinality(Signed(E, x)) = Cardinality(E)
<1> DEFINE F == Signed(E, x)
           f == [r \in E |-> [r EXCEPT !.by = x]]
<1>1. \A r \in E : /\ f[r] \in F /\ f[r].sequence = r.sequence
                   /\ f[r].table = r.table /\ f[r].id = r.id
                   /\ f[r].data = r.data
  BY SignedRow DEF Signed
<1>2. \A r, s \in E : f[r] = f[s] => r = s
  <2> SUFFICES ASSUME NEW r \in E, NEW s \in E, f[r] = f[s]
               PROVE  r = s
    OBVIOUS
  <2>1. /\ r.table = s.table /\ r.id = s.id /\ r.sequence = s.sequence
        /\ r.data = s.data
    <3> HIDE DEF f
    <3> QED BY <1>1
  <2>2. r.by = s.by
    <3> HIDE DEF f
    <3> QED OBVIOUS
  <2>3. r \in ARow /\ s \in ARow
    OBVIOUS
  <2> HIDE DEF f
  <2> QED BY <2>1, <2>2, <2>3 DEF ARow
<1>3. \A s \in F : \E r \in E : f[r] = s
  BY DEF Signed
<1>4. f \in [E -> F]
  BY <1>1
<1> HIDE DEF f, F
<1>5. f \in Bijection(E, F)
  BY <1>2, <1>3, <1>4, Fun_IsBij
<1>6. IsFiniteSet(F) /\ Cardinality(F) = Cardinality(E)
  BY <1>5, FS_Bijection, Fun_ExistsBij DEF Counted
<1>7. {s.sequence : s \in F} = {r.sequence : r \in E}
  BY <1>1, <1>3
<1> QED BY <1>6, <1>7 DEF Counted, F

\* A row with the next number keeps the numbering without a gap.
LEMMA NextCounted ==
  ASSUME NEW E, Counted(E), NEW new, new.sequence = Cardinality(E) + 1
  PROVE  Counted(E \cup {new})
<1> DEFINE k == Cardinality(E)
<1>1. k \in Nat /\ IsFiniteSet(E)
  BY FS_CardinalityType DEF Counted
<1>2. new \notin E
  <2>1. k + 1 \notin 1 .. k
    BY <1>1
  <2> QED BY <2>1 DEF Counted
<1>3. IsFiniteSet(E \cup {new}) /\ Cardinality(E \cup {new}) = k + 1
  BY <1>1, <1>2, FS_AddElement
<1>4. 1 .. (k + 1) = (1 .. k) \cup {k + 1}
  BY <1>1
<1>5. {r.sequence : r \in E \cup {new}} = {r.sequence : r \in E} \cup {k + 1}
  OBVIOUS
<1> QED BY <1>3, <1>4, <1>5 DEF Counted

-----------------------------------------------------------------------------
(* The transition applied to what was read *)

\* Each table read comes from one committed transaction.
OneHand(some) == \E z : \A r \in some : r.by = z

\* What is applied once all four tables were read.
GoodRead(read) ==
  /\ read \subseteq ARow
  /\ OneHand(Of("events", read)) /\ Counted(Of("events", read))
  /\ OneHand(Of("checkpoints", read)) /\ Counted(Of("checkpoints", read))
  /\ \E r \in read : IsLogStart(r)

Applied(read, x) == Carried(read, x) \cup Added(read, x)

LEMMA NamesHaveCommits ==
  /\ Created \in Names
  /\ \A x \in Commits : x \in Names /\ x # Created
BY PostgresAssumption DEF Names

LEMMA AddedRows ==
  ASSUME NEW x \in Commits, NEW read \in SUBSET ARow, GoodRead(read)
  PROVE  Added(read, x) \subseteq ARow
<1>1. \A table \in {"events", "checkpoints"} : NextSequence(table, read) \in Nat
  BY FS_CardinalityType DEF GoodRead, Counted, NextSequence
<1> QED BY <1>1, NamesHaveCommits DEF Added, Row, ARow, TableNames

\* The tables of what is written, one by one.
LEMMA AppliedTables ==
  ASSUME NEW x \in Commits, NEW read \in SUBSET ARow, GoodRead(read)
  PROVE  /\ Of("runs", Applied(read, x)) = {Row("runs", Created, 0, "saved", x)}
         /\ Of("events", Applied(read, x))
              = Signed(Of("events", read), x)
                  \cup {Row("events", x, NextSequence("events", read), "saved", x)}
         /\ Of("checkpoints", Applied(read, x))
              = Signed(Of("checkpoints", read), x)
                  \cup (IF x \in Asking
                        THEN {Row("checkpoints", x,
                                  NextSequence("checkpoints", read), "saved", x)}
                        ELSE {})
         /\ Applied(read, x) \subseteq ARow
         /\ \A r \in Applied(read, x) : r.by = x
<1> DEFINE old == Of("events", read) \cup Of("checkpoints", read)
                    \cup Of("approvals", read)
<1>1. \A r \in old : /\ [r EXCEPT !.by = x] \in ARow
                     /\ [r EXCEPT !.by = x].by = x
                     /\ [r EXCEPT !.by = x].table = r.table
  BY SignedRow, NamesHaveCommits DEF Of
<1>2. Carried(read, x) = {[r EXCEPT !.by = x] : r \in old}
  BY DEF Carried
<1>3. Carried(read, x) \subseteq ARow /\ \A r \in Carried(read, x) : r.by = x
  BY <1>1, <1>2
<1>4. \A r \in Added(read, x) : r.by = x
  BY DEF Added, Row
<1>5. /\ Of("runs", Carried(read, x)) = {}
      /\ Of("events", Carried(read, x)) = Signed(Of("events", read), x)
      /\ Of("checkpoints", Carried(read, x)) = Signed(Of("checkpoints", read), x)
  <2>1. \A r \in old : r.table \in {"events", "checkpoints", "approvals"}
    BY DEF Of
  <2>2. Of("runs", Carried(read, x)) = {}
    BY <1>1, <1>2, <2>1 DEF Of
  <2>3. \A table \in {"events", "checkpoints"} :
          Of(table, Carried(read, x)) = Signed(Of(table, read), x)
    <3> SUFFICES ASSUME NEW table \in {"events", "checkpoints"}
                 PROVE  Of(table, Carried(read, x)) = Signed(Of(table, read), x)
      OBVIOUS
    <3>1. Of(table, read) = {r \in old : r.table = table}
      BY DEF Of
    <3>2. ASSUME NEW r \in Signed(Of(table, read), x)
          PROVE  r \in Of(table, Carried(read, x))
      <4>1. PICK s \in Of(table, read) : r = [s EXCEPT !.by = x]
        BY DEF Signed
      <4>2. s \in old /\ s.table = table
        BY <3>1
      <4>3. r.table = table /\ r \in Carried(read, x)
        BY <1>1, <1>2, <4>1, <4>2
      <4> QED BY <4>3 DEF Of
    <3>3. ASSUME NEW r \in Of(table, Carried(read, x))
          PROVE  r \in Signed(Of(table, read), x)
      <4>1. PICK s \in old : r = [s EXCEPT !.by = x]
        BY <1>2 DEF Of
      <4>2. s.table = table
        BY <1>1, <4>1 DEF Of
      <4>3. s \in Of(table, read)
        BY <3>1, <4>2
      <4> QED BY <4>1, <4>3 DEF Signed
    <3> QED BY <3>2, <3>3
  <2> QED BY <2>2, <2>3
<1>6. /\ Of("runs", Added(read, x)) = {Row("runs", Created, 0, "saved", x)}
      /\ Of("events", Added(read, x))
           = {Row("events", x, NextSequence("events", read), "saved", x)}
      /\ Of("checkpoints", Added(read, x))
           = IF x \in Asking
             THEN {Row("checkpoints", x, NextSequence("checkpoints", read),
                       "saved", x)}
             ELSE {}
  BY DEF Of, Added, Row
<1>7. \A table : Of(table, Applied(read, x))
                   = Of(table, Carried(read, x)) \cup Of(table, Added(read, x))
  BY DEF Of, Applied
<1> QED BY <1>3, <1>4, <1>5, <1>6, <1>7, AddedRows DEF Applied

LEMMA AppliedWhole ==
  ASSUME NEW x \in Commits, NEW read \in SUBSET ARow, GoodRead(read)
  PROVE  WholeBy(x, Applied(read, x))
<1>0. x \in Names
  BY NamesHaveCommits
<1>1. Counted(Of("events", Applied(read, x)))
  <2> DEFINE E == Of("events", read)
             new == Row("events", x, NextSequence("events", read), "saved", x)
  <2>1. PICK z : \A r \in E : r.by = z
    BY DEF GoodRead, OneHand
  <2>2. E \in SUBSET ARow /\ Counted(E)
    BY DEF GoodRead, Of
  <2>3. Counted(Signed(E, x)) /\ Cardinality(Signed(E, x)) = Cardinality(E)
    BY <1>0, <2>1, <2>2, SignedCounted
  <2>4. new.sequence = Cardinality(E) + 1
    BY DEF Row, NextSequence
  <2> HIDE DEF new
  <2>5. Counted(Signed(E, x) \cup {new})
    BY <2>3, <2>4, NextCounted
  <2> QED BY <2>5, AppliedTables DEF new
<1>2. Counted(Of("checkpoints", Applied(read, x)))
  <2> DEFINE E == Of("checkpoints", read)
             new == Row("checkpoints", x, NextSequence("checkpoints", read),
                        "saved", x)
  <2>1. PICK z : \A r \in E : r.by = z
    BY DEF GoodRead, OneHand
  <2>2. E \in SUBSET ARow /\ Counted(E)
    BY DEF GoodRead, Of
  <2>3. Counted(Signed(E, x)) /\ Cardinality(Signed(E, x)) = Cardinality(E)
    BY <1>0, <2>1, <2>2, SignedCounted
  <2>4. new.sequence = Cardinality(E) + 1
    BY DEF Row, NextSequence
  <2> HIDE DEF new
  <2>5. Counted(Signed(E, x) \cup {new})
    BY <2>3, <2>4, NextCounted
  <2>6. Counted(Signed(E, x) \cup {})
    BY <2>3
  <2> QED BY <2>5, <2>6, AppliedTables DEF new
<1>3. \E r \in Applied(read, x) : IsLogStart(r)
  <2>1. PICK r \in read : IsLogStart(r)
    BY DEF GoodRead
  <2>2. [r EXCEPT !.by = x] \in Signed(Of("events", read), x)
    BY <2>1 DEF Signed, Of, IsLogStart
  <2>3. [r EXCEPT !.by = x] \in Of("events", Applied(read, x))
    BY <2>2, AppliedTables
  <2>4. IsLogStart([r EXCEPT !.by = x])
    BY <1>0, <2>1, SignedRow DEF IsLogStart
  <2> QED BY <2>3, <2>4 DEF Of
<1> QED BY <1>1, <1>2, <1>3, AppliedTables DEF WholeBy

\* Deciding an approval changes nothing but that approval.
LEMMA DecidedWhole ==
  ASSUME NEW x, NEW some, NEW a, WholeBy(x, some)
  PROVE  WholeBy(x, Decided(some, a))
<1> DEFINE now(r) == IF r.table = "approvals" /\ r.id = a
                     THEN [r EXCEPT !.data = "decided"] ELSE r
<1>1. Decided(some, a) = {now(r) : r \in some}
  BY DEF Decided
<1>2. \A r \in some : /\ now(r) \in ARow /\ now(r).by = r.by
                      /\ now(r).table = r.table /\ now(r).id = r.id
                      /\ r.table # "approvals" => now(r) = r
  BY DEF WholeBy, ARow
<1> HIDE DEF now
<1>3. \A table \in {"runs", "events", "checkpoints"} :
        Of(table, Decided(some, a)) = Of(table, some)
  BY <1>1, <1>2 DEF Of
<1>4. \E r \in Decided(some, a) : IsLogStart(r)
  BY <1>1, <1>2 DEF WholeBy, IsLogStart
<1>5. /\ Decided(some, a) \subseteq ARow
      /\ \A r \in Decided(some, a) : r.by = x
  BY <1>1, <1>2 DEF WholeBy
<1> QED BY <1>3, <1>4, <1>5 DEF WholeBy

-----------------------------------------------------------------------------
(* The inductive invariant *)

TxRows == [pc : Pc, n : 1 .. 4, read : SUBSET ARow, write : SUBSET ARow,
           target : SUBSET ARow, deleted : SUBSET ARow, inserted : SUBSET ARow]

Types == /\ tx \in [Commits -> TxRows]
         /\ ended \in [Commits -> SUBSET Commits]

Writing == {"delete", "deleting", "insert", "commit"}

\* Who is over stays over, and what it has done is not done again.
EndedIsOver == \A x \in Commits : \A y \in ended[x] : Over(y)

\* The committed rows are those of one transaction, as a whole.
RowsInv == \E z \in Names : WholeBy(z, rows) /\ (z = Created \/ Over(z))

\* The m-th SELECT has returned.
HasRead(t, m) == t.pc = "apply" \/ (t.pc = "select" /\ m < t.n)

\* What one SELECT finds is the work of one transaction.
ReadTable(m, some) ==
  /\ OneHand(some)
  /\ m \in {3, 4} => Counted(some)
  /\ m = 4 => \E r \in some : IsLogStart(r)

ReadInv(t) ==
  /\ t.pc = "select" => \A m \in t.n .. 4 : Of(Tables[m], t.read) = {}
  /\ \A m \in 1 .. 4 : HasRead(t, m) => ReadTable(m, Of(Tables[m], t.read))

\* What a transaction is to write is a whole run of its own.
WriteInv(x) ==
  tx[x].pc \in Writing => WholeBy(x, tx[x].write)

\* A row of a transaction that is over.
Past(r) == r.by = Created \/ (r.by \in Commits /\ Over(r.by))

\* The transaction has deleted the start of the log as it is committed now: it
\* began to delete after the last commit.
HoldsLog(t) == \E e \in t.deleted \cap rows : IsLogStart(e)

\* What such a transaction has deleted is all there is.
DeleteInv(t) ==
  /\ t.pc \notin Writing => t.deleted = {}
  /\ t.pc = "delete" /\ t.n = 1 => t.deleted = {}
  /\ t.pc = "deleting" /\ t.n = 1 => t.deleted = {}
  /\ t.pc \in {"delete", "deleting"} /\ HoldsLog(t) =>
       \A m \in 1 .. t.n - 1 : Of(Deletes[m], rows) \subseteq t.deleted
  /\ t.pc = "deleting" /\ (HoldsLog(t) \/ t.target \cap rows # {}) =>
       t.target = Of(Deletes[t.n], rows)
  /\ t.pc = "insert" /\ HoldsLog(t) => rows \subseteq t.deleted
  /\ t.pc = "commit" => rows \subseteq t.deleted
  /\ \A r \in t.deleted : Past(r)
  /\ t.pc = "deleting" => \A r \in t.target : Past(r)

Written(t, n) == {r \in t.write : \E m \in 1 .. n : r.table = Tables[m]}

InsertInv(t) ==
  /\ t.pc \in {"delete", "deleting"} => t.inserted = {}
  /\ t.pc = "insert" => t.inserted = Written(t, t.n - 1)
  /\ t.pc = "commit" => t.inserted = t.write

\* A row is locked by one transaction.
Exclusive ==
  \A x, y \in Commits : x # y => tx[x].deleted \cap tx[y].deleted = {}

TxInv(x) == /\ ReadInv(tx[x]) /\ WriteInv(x)
            /\ DeleteInv(tx[x]) /\ InsertInv(tx[x])

Inv == /\ Types /\ EndedIsOver /\ RowsInv /\ Exclusive
       /\ \A x \in Commits : TxInv(x)

-----------------------------------------------------------------------------
(* A step of one transaction, seen by the others *)

LEMMA AtRow ==
  ASSUME NEW pc \in Pc
  PROVE  /\ At(pc) \in TxRows
         /\ At(pc).pc = pc /\ At(pc).n = 1
         /\ At(pc).read = {} /\ At(pc).write = {} /\ At(pc).target = {}
         /\ At(pc).deleted = {} /\ At(pc).inserted = {}
BY DEF At, TxRows

LEMMA NextStatementRow ==
  ASSUME NEW t \in TxRows, NEW pc \in Pc, NEW nextPc \in Pc
  PROVE  LET s == NextStatement(t, pc, nextPc) IN
         /\ s \in TxRows
         /\ s.read = t.read /\ s.write = t.write /\ s.target = t.target
         /\ s.deleted = t.deleted /\ s.inserted = t.inserted
         /\ t.n < 4 => s.pc = pc /\ s.n = t.n + 1
         /\ t.n = 4 => s.pc = nextPc /\ s.n = 1
<1>1. t.n \in 1 .. 4
  BY DEF TxRows
<1>2. CASE t.n < 4
  <2>1. NextStatement(t, pc, nextPc) = [t EXCEPT !.pc = pc, !.n = t.n + 1]
    BY <1>2 DEF NextStatement
  <2>2. t.n + 1 \in 1 .. 4 /\ t.n # 4
    BY <1>1, <1>2
  <2>3. [t EXCEPT !.pc = pc, !.n = t.n + 1] \in TxRows
    BY <2>2 DEF TxRows
  <2> QED BY <2>1, <2>2, <2>3 DEF TxRows
<1>3. CASE t.n = 4
  <2>1. NextStatement(t, pc, nextPc) = [t EXCEPT !.pc = nextPc, !.n = 1]
    BY <1>3 DEF NextStatement
  <2>2. 1 \in 1 .. 4
    OBVIOUS
  <2>3. [t EXCEPT !.pc = nextPc, !.n = 1] \in TxRows
    BY <2>2 DEF TxRows
  <2> QED BY <2>1, <2>3, <1>3 DEF TxRows
<1> QED BY <1>1, <1>2, <1>3

\* Only the record of x changes, and it stays what it is when it is over.
LEMMA OneMoves ==
  ASSUME Types, NEW x \in Commits, ~Over(x), NEW t \in TxRows, Becomes(x, t)
  PROVE  /\ tx' \in [Commits -> TxRows]
         /\ tx'[x] = t
         /\ \A y \in Commits \ {x} : tx'[y] = tx[y]
         /\ \A y \in Commits : Over(y) => Over(y)'
         /\ \A r : Past(r) => Past(r)'
<1>1. /\ tx' \in [Commits -> TxRows] /\ tx'[x] = t
      /\ \A y \in Commits \ {x} : tx'[y] = tx[y]
  BY DEF Types, Becomes
<1>2. \A y \in Commits : Over(y) => Over(y)'
  BY <1>1 DEF Over
<1>3. \A r : Past(r) => Past(r)'
  BY <1>2 DEF Past
<1> QED BY <1>1, <1>2, <1>3

\* While the committed rows stay, nothing changes for the others.
LEMMA OthersStay ==
  ASSUME Inv, NEW x \in Commits, ~Over(x), NEW t \in TxRows, Becomes(x, t),
         UNCHANGED rows
  PROVE  /\ RowsInv'
         /\ \A y \in Commits \ {x} : TxInv(y)'
<1> USE DEF Inv
<1>1. /\ \A y \in Commits \ {x} : tx'[y] = tx[y]
      /\ \A y \in Commits : Over(y) => Over(y)'
      /\ \A r : Past(r) => Past(r)'
  BY OneMoves
<1>2. RowsInv'
  <2>1. PICK z \in Names : WholeBy(z, rows) /\ (z = Created \/ Over(z))
    BY DEF RowsInv
  <2>2. z = Created \/ Over(z)'
    BY <1>1, <2>1 DEF Names
  <2> QED BY <2>1, <2>2 DEF RowsInv
<1>3. ASSUME NEW y \in Commits \ {x}
      PROVE  TxInv(y)'
  <2>1. tx'[y] = tx[y] /\ TxInv(y)
    BY <1>1, <1>3
  <2>2. ReadInv(tx[y])' /\ InsertInv(tx[y])'
    BY <2>1 DEF TxInv, ReadInv, HasRead, ReadTable, InsertInv, Written
  <2>3. WriteInv(y)'
    BY <2>1 DEF TxInv, WriteInv
  <2>4. DeleteInv(tx[y])'
    BY <2>1, <1>1 DEF TxInv, DeleteInv, Writing, HoldsLog
  <2> QED BY <2>2, <2>3, <2>4 DEF TxInv
<1> QED BY <1>2, <1>3

\* A row is locked once, if what x locks now nobody else has locked.
LEMMA StillExclusive ==
  ASSUME Inv, NEW x \in Commits, ~Over(x), NEW t \in TxRows, Becomes(x, t),
         \A y \in Commits \ {x} :
           (t.deleted \ tx[x].deleted) \cap tx[y].deleted = {}
  PROVE  Exclusive'
<1>1. tx'[x] = t /\ \A y \in Commits \ {x} : tx'[y] = tx[y]
  BY OneMoves DEF Inv
<1>2. \A y \in Commits \ {x} : t.deleted \cap tx[y].deleted = {}
  BY DEF Inv, Exclusive
<1> QED BY <1>1, <1>2 DEF Exclusive, Inv

\* What is left to show of a step of x that leaves the committed rows alone.
LEMMA StepOfOne ==
  ASSUME Inv, NEW x \in Commits, ~Over(x), NEW t \in TxRows, Becomes(x, t),
         UNCHANGED <<rows, ended>>,
         \A y \in Commits \ {x} :
           (t.deleted \ tx[x].deleted) \cap tx[y].deleted = {},
         TxInv(x)'
  PROVE  Inv'
<1>1. RowsInv' /\ \A y \in Commits \ {x} : TxInv(y)'
  BY OthersStay
<1>2. Exclusive'
  BY StillExclusive
<1>3. Types'
  BY OneMoves DEF Inv, Types
<1>4. EndedIsOver'
  BY OneMoves DEF Inv, EndedIsOver, Types
<1> QED BY <1>1, <1>2, <1>3, <1>4 DEF Inv

\* A transaction that neither holds locks nor is to write.
LEMMA IdleHands ==
  ASSUME NEW x \in Commits, tx[x].pc \notin Writing, tx[x].deleted = {}
  PROVE  WriteInv(x) /\ DeleteInv(tx[x]) /\ InsertInv(tx[x])
BY DEF Writing, WriteInv, DeleteInv, InsertInv, HoldsLog

\* The same after a step.
LEMMA IdleHandsNext ==
  ASSUME NEW x \in Commits, tx'[x].pc \notin Writing, tx'[x].deleted = {}
  PROVE  WriteInv(x)' /\ DeleteInv(tx[x])' /\ InsertInv(tx[x])'
BY DEF Writing, WriteInv, DeleteInv, InsertInv, HoldsLog

-----------------------------------------------------------------------------
(* Commit: the rows of one transaction take the place of all others *)

LEMMA SameTables ==
  \A m \in 1 .. 4 : Tables[m] \in TableNames /\ Deletes[m] \in TableNames
BY DEF Tables, Deletes, TableNames

LEMMA TablesAre ==
  /\ Tables[1] = "runs" /\ Tables[2] = "approvals"
  /\ Tables[3] = "checkpoints" /\ Tables[4] = "events"
  /\ Deletes[1] = "events" /\ Deletes[2] = "checkpoints"
  /\ Deletes[3] = "approvals" /\ Deletes[4] = "runs"
BY DEF Tables, Deletes

LEMMA CommitStep ==
  ASSUME Inv, NEW x \in Commits, tx[x].pc = "commit", NEW pc \in {"done", "failed"},
         rows' = (rows \ tx[x].deleted) \cup tx[x].inserted,
         Becomes(x, At(pc)), UNCHANGED ended
  PROVE  Inv' /\ rows' = tx[x].write
<1> USE DEF Inv
<1>0. ~Over(x) /\ At(pc) \in TxRows /\ TxInv(x)
  BY AtRow DEF Over, Pc
<1>1. /\ tx' \in [Commits -> TxRows] /\ tx'[x] = At(pc)
      /\ \A y \in Commits \ {x} : tx'[y] = tx[y]
      /\ \A y \in Commits : Over(y) => Over(y)'
      /\ \A r : Past(r) => Past(r)'
  BY <1>0, OneMoves
<1>2. rows' = tx[x].write /\ WholeBy(x, tx[x].write)
  BY <1>0 DEF TxInv, DeleteInv, Writing, InsertInv, WriteInv
<1>3. Over(x)'
  BY <1>1, AtRow DEF Over, Pc
<1>4. RowsInv'
  BY <1>2, <1>3, NamesHaveCommits DEF RowsInv
<1>5. Exclusive'
  BY <1>0, AtRow, StillExclusive DEF Pc
<1>6. TxInv(x)'
  <2>1. tx'[x].pc \notin Writing /\ tx'[x].deleted = {} /\ tx'[x].pc \notin {"select", "apply"}
    BY <1>1, AtRow DEF Pc, Writing
  <2>2. ReadInv(tx[x])'
    BY <2>1 DEF ReadInv, HasRead
  <2> QED BY <2>1, <2>2, IdleHandsNext DEF TxInv
<1>7. ASSUME NEW y \in Commits \ {x}
      PROVE  TxInv(y)'
  <2>1. tx'[y] = tx[y] /\ TxInv(y)
    BY <1>1, <1>7
  <2>2. ReadInv(tx[y])' /\ InsertInv(tx[y])'
    BY <2>1 DEF TxInv, ReadInv, HasRead, ReadTable, InsertInv, Written
  <2>3. WriteInv(y)'
    BY <2>1 DEF TxInv, WriteInv
  <2>4. \A r \in rows' : ~Past(r)
    <3>1. \A r \in rows' : r.by = x
      BY <1>2 DEF WholeBy
    <3> QED BY <3>1, <1>0, NamesHaveCommits DEF Past
  <2>5. tx[y].deleted \cap rows' = {}
    BY <2>1, <2>4 DEF TxInv, DeleteInv, Writing
  <2>6. tx[y].pc = "deleting" => tx[y].target \cap rows' = {}
    BY <2>1, <2>4 DEF TxInv, DeleteInv, Writing
  <2>7. tx[y].pc # "commit"
    <3>1. rows # {}
      BY DEF RowsInv, WholeBy
    <3>2. rows \subseteq tx[x].deleted
      BY <1>0 DEF TxInv, DeleteInv, Writing
    <3>3. tx[y].pc = "commit" => rows \subseteq tx[y].deleted
      BY <2>1 DEF TxInv, DeleteInv, Writing
    <3> QED BY <3>1, <3>2, <3>3 DEF Exclusive
  <2>8. ~HoldsLog(tx[y])'
    BY <2>1, <2>5 DEF HoldsLog
  <2>9. DeleteInv(tx[y])'
    BY <2>1, <2>6, <2>7, <2>8, <1>1 DEF TxInv, DeleteInv, Writing
  <2> QED BY <2>2, <2>3, <2>9 DEF TxInv
<1>8. Types' /\ EndedIsOver'
  BY <1>1 DEF Types, EndedIsOver
<1> QED BY <1>2, <1>4, <1>5, <1>6, <1>7, <1>8

-----------------------------------------------------------------------------
(* One statement after the other *)

LEMMA BeginStep ==
  ASSUME Inv, NEW x \in Commits, Begin(x)
  PROVE  Inv'
<1> USE DEF Inv
<1>0. ~Over(x) /\ At("select") \in TxRows /\ Becomes(x, At("select"))
  BY AtRow DEF Over, Pc, Begin
<1>1. /\ tx' \in [Commits -> TxRows] /\ tx'[x] = At("select")
      /\ \A y \in Commits : Over(y) => Over(y)'
  BY <1>0, OneMoves
<1>2. RowsInv' /\ \A y \in Commits \ {x} : TxInv(y)'
  BY <1>0, OthersStay DEF Begin
<1>3. Exclusive'
  BY <1>0, AtRow, StillExclusive DEF Pc
<1>4. Types' /\ EndedIsOver'
  BY <1>1 DEF Begin, Types, EndedIsOver
<1>5. /\ tx'[x].pc = "select" /\ tx'[x].n = 1 /\ tx'[x].read = {}
      /\ tx'[x].deleted = {}
  BY <1>1, AtRow DEF Pc
<1>6. ReadInv(tx[x])'
  BY <1>5 DEF ReadInv, HasRead, Of
<1>7. TxInv(x)'
  BY <1>5, <1>6, IdleHandsNext DEF TxInv, Writing
<1> QED BY <1>2, <1>3, <1>4, <1>7

\* The SELECT of a table finds what one transaction left there.
LEMMA SelectedTable ==
  ASSUME RowsInv, NEW m \in 1 .. 4
  PROVE  ReadTable(m, Of(Tables[m], rows)) /\ Of(Tables[m], rows) \subseteq ARow
<1>1. PICK z \in Names : WholeBy(z, rows)
  BY DEF RowsInv
<1>2. OneHand(Of(Tables[m], rows)) /\ Of(Tables[m], rows) \subseteq ARow
  BY <1>1 DEF OneHand, WholeBy, Of
<1>3. m \in {3, 4} => Counted(Of(Tables[m], rows))
  BY <1>1, TablesAre DEF WholeBy
<1>4. m = 4 => \E r \in Of(Tables[m], rows) : IsLogStart(r)
  BY <1>1, TablesAre DEF WholeBy, Of, IsLogStart
<1> QED BY <1>2, <1>3, <1>4 DEF ReadTable

LEMMA SelectStep ==
  ASSUME Inv, NEW x \in Commits, Select(x)
  PROVE  /\ Inv'
         /\ tx'[x].read = tx[x].read \cup Of(Tables[tx[x].n], rows)
         /\ \A m \in 1 .. 4 :
              HasRead(tx'[x], m) => HasRead(tx[x], m) \/ m = tx[x].n
         /\ tx'[x].pc \in {"select", "apply"}
<1> USE DEF Inv
<1> DEFINE n == tx[x].n
           found == Of(Tables[n], rows)
           s == [tx[x] EXCEPT !.read = tx[x].read \cup found]
           t == NextStatement(s, "select", "apply")
<1>1. tx[x] \in TxRows /\ tx[x].pc = "select" /\ ~Over(x) /\ TxInv(x)
  BY DEF Types, Select, Over
<1>2. n \in 1 .. 4
  BY <1>1 DEF TxRows
<1>3. ReadTable(n, found) /\ found \subseteq ARow
  BY <1>2, SelectedTable
<1> HIDE DEF found
<1>4. s \in TxRows /\ s.n = n /\ s.read = tx[x].read \cup found /\ s.deleted = tx[x].deleted
  BY <1>1, <1>3 DEF TxRows
<1>5. Becomes(x, t)
  BY DEF Select, found
<1> HIDE DEF s
<1>6. /\ t \in TxRows /\ t.read = tx[x].read \cup found
      /\ t.deleted = tx[x].deleted
      /\ n < 4 => t.pc = "select" /\ t.n = n + 1
      /\ n = 4 => t.pc = "apply" /\ t.n = 1
  BY <1>4, NextStatementRow DEF Pc
<1> HIDE DEF t
<1>7. tx'[x] = t
  BY <1>1, <1>5, <1>6, OneMoves
<1>8. t.deleted = {} /\ t.pc \in {"select", "apply"}
  BY <1>1, <1>2, <1>6 DEF TxInv, DeleteInv, Writing
<1>9. \A m \in 1 .. 4 : HasRead(t, m) => HasRead(tx[x], m) \/ m = n
  <2> SUFFICES ASSUME NEW m \in 1 .. 4, HasRead(t, m)
               PROVE  HasRead(tx[x], m) \/ m = n
    OBVIOUS
  <2>1. CASE n < 4
    <3>1. t.pc = "select" /\ t.n = n + 1
      BY <1>6, <2>1
    <3>2. m < n + 1
      BY <3>1 DEF HasRead
    <3>3. m < n \/ m = n
      BY <1>2, <3>2
    <3> QED BY <3>3, <1>1 DEF HasRead
  <2>2. CASE n = 4
    <3>1. m < n \/ m = n
      BY <2>2
    <3> QED BY <3>1, <1>1 DEF HasRead
  <2> QED BY <1>2, <2>1, <2>2
<1>10. \A m, k \in 1 .. 4 : m # k => Tables[m] # Tables[k]
  BY TablesAre
<1>11. \A m \in 1 .. 4 : Of(Tables[m], found) = IF m = n THEN found ELSE {}
  BY <1>2, <1>10 DEF Of, found
<1>12. \A m \in 1 .. 4 : Of(Tables[m], t.read)
                           = Of(Tables[m], tx[x].read) \cup Of(Tables[m], found)
  BY <1>6 DEF Of
<1>13. ReadInv(tx[x])
  BY <1>1 DEF TxInv
<1>14. ReadInv(t)
  <2>1. ASSUME t.pc = "select", NEW m \in t.n .. 4
        PROVE  Of(Tables[m], t.read) = {}
    <3>1. n < 4 /\ t.n = n + 1
      BY <1>2, <1>6, <2>1
    <3>2. m \in n .. 4 /\ m # n /\ m \in 1 .. 4
      BY <1>2, <3>1
    <3> QED BY <1>1, <1>11, <1>12, <1>13, <3>2 DEF ReadInv
  <2>2. ASSUME NEW m \in 1 .. 4, HasRead(t, m)
        PROVE  ReadTable(m, Of(Tables[m], t.read))
    <3>1. CASE m = n
      <4>1. m \in n .. 4
        BY <3>1
      <4>2. Of(Tables[m], tx[x].read) = {}
        BY <1>1, <1>13, <4>1 DEF ReadInv
      <4>3. Of(Tables[m], t.read) = found
        BY <1>11, <1>12, <3>1, <4>2
      <4> QED BY <1>3, <3>1, <4>3
    <3>2. CASE m # n
      <4>1. HasRead(tx[x], m)
        BY <1>9, <2>2, <3>2
      <4>2. Of(Tables[m], t.read) = Of(Tables[m], tx[x].read)
        BY <1>11, <1>12, <3>2
      <4> QED BY <1>13, <4>1, <4>2 DEF ReadInv
    <3> QED BY <3>1, <3>2
  <2> QED BY <2>1, <2>2 DEF ReadInv
<1>15. ReadInv(tx[x])'
  BY <1>7, <1>14 DEF ReadInv, HasRead, ReadTable
<1>16. TxInv(x)'
  BY <1>7, <1>8, <1>15, IdleHandsNext DEF TxInv, Writing
<1>17. Inv'
  BY <1>1, <1>5, <1>6, <1>16, StepOfOne DEF Select
<1> QED BY <1>6, <1>7, <1>8, <1>9, <1>17 DEF found

\* All four tables were read.
LEMMA ReadIsGood ==
  ASSUME Inv, NEW x \in Commits, tx[x].pc = "apply"
  PROVE  GoodRead(tx[x].read) /\ tx[x].read \in SUBSET ARow
<1>1. tx[x] \in TxRows /\ ReadInv(tx[x])
  BY DEF Inv, Types, TxInv
<1>2. \A m \in 1 .. 4 : ReadTable(m, Of(Tables[m], tx[x].read))
  BY <1>1 DEF ReadInv, HasRead
<1>3. /\ ReadTable(3, Of("checkpoints", tx[x].read))
      /\ ReadTable(4, Of("events", tx[x].read))
  BY <1>2, TablesAre
<1>4. \E r \in tx[x].read : IsLogStart(r)
  BY <1>3 DEF ReadTable, Of
<1>5. tx[x].read \in SUBSET ARow
  BY <1>1 DEF TxRows
<1> QED BY <1>3, <1>4, <1>5 DEF ReadTable, GoodRead

LEMMA ApplyStep ==
  ASSUME Inv, NEW x \in Commits, Apply(x)
  PROVE  /\ Inv'
         /\ tx'[x].pc = "delete"
         /\ \/ tx'[x].write = Applied(tx[x].read, x)
            \/ \E a : tx'[x].write = Decided(Applied(tx[x].read, x), a)
<1> DEFINE result == Applied(tx[x].read, x)
<1>1. tx[x] \in TxRows /\ tx[x].pc = "apply" /\ ~Over(x) /\ TxInv(x)
  BY DEF Types, Apply, Over, Inv
<1>2. WholeBy(x, result)
  BY <1>1, ReadIsGood, AppliedWhole
<1>3. PICK w : /\ Becomes(x, [At("delete") EXCEPT !.write = w])
               /\ w = result \/ \E a : w = Decided(result, a)
  BY DEF Apply, Applied
<1> HIDE DEF result
<1>4. WholeBy(x, w)
  BY <1>2, <1>3, DecidedWhole
<1> DEFINE t == [At("delete") EXCEPT !.write = w]
<1>5. At("delete") \in TxRows
  BY AtRow DEF Pc
<1>6. w \in SUBSET ARow
  BY <1>4 DEF WholeBy
<1>7. /\ t \in TxRows /\ t.pc = "delete" /\ t.n = 1 /\ t.write = w
      /\ t.deleted = {} /\ t.inserted = {}
  BY <1>5, <1>6, AtRow DEF Pc, TxRows
<1>8. Becomes(x, t)
  BY <1>3
<1> HIDE DEF t
<1>9. tx'[x] = t
  BY <1>1, <1>7, <1>8, OneMoves DEF Inv
<1>10. TxInv(x)'
  <2>1. ReadInv(tx[x])'
    BY <1>7, <1>9 DEF ReadInv, HasRead
  <2>2. WriteInv(x)'
    BY <1>4, <1>7, <1>9 DEF WriteInv
  <2>3. DeleteInv(tx[x])'
    BY <1>7, <1>9 DEF DeleteInv, HoldsLog, Writing
  <2>4. InsertInv(tx[x])'
    BY <1>7, <1>9 DEF InsertInv
  <2> QED BY <2>1, <2>2, <2>3, <2>4 DEF TxInv
<1>11. Inv'
  BY <1>1, <1>7, <1>8, <1>10, StepOfOne DEF Apply
<1> QED BY <1>3, <1>7, <1>9, <1>11 DEF result

LEMMA StartDeleteStep ==
  ASSUME Inv, NEW x \in Commits, StartDelete(x)
  PROVE  Inv' /\ tx'[x].pc = "deleting" /\ tx'[x].write = tx[x].write
<1> DEFINE n == tx[x].n
           found == Of(Deletes[n], rows)
           t == [tx[x] EXCEPT !.pc = "deleting", !.target = found]
<1>1. tx[x] \in TxRows /\ tx[x].pc = "delete" /\ ~Over(x) /\ TxInv(x)
  BY DEF Types, StartDelete, Over, Inv
<1>2. PICK z \in Names : WholeBy(z, rows) /\ (z = Created \/ Over(z))
  BY DEF Inv, RowsInv
<1>3. found \in SUBSET ARow
  BY <1>2 DEF WholeBy, Of
<1>4. \A r \in found : Past(r)
  BY <1>2 DEF WholeBy, Of, Past, Names
<1>5. Becomes(x, t) /\ UNCHANGED <<rows, ended, failures>>
  BY DEF StartDelete
<1>6. found = Of(Deletes[n], rows)
  OBVIOUS
<1> HIDE DEF found
<1>7. /\ t \in TxRows /\ t.pc = "deleting" /\ t.n = n /\ t.write = tx[x].write
      /\ t.deleted = tx[x].deleted /\ t.inserted = tx[x].inserted
      /\ t.target = found
  BY <1>1, <1>3 DEF TxRows, Pc
<1> HIDE DEF t
<1>8. tx'[x] = t /\ \A r : Past(r) => Past(r)'
  BY <1>1, <1>5, <1>7, OneMoves DEF Inv
<1>9. TxInv(x)'
  <2>1. ReadInv(tx[x])'
    BY <1>7, <1>8 DEF ReadInv, HasRead
  <2>2. WriteInv(x)'
    BY <1>1, <1>7, <1>8 DEF TxInv, WriteInv, Writing
  <2>3. DeleteInv(tx[x])'
    BY <1>1, <1>4, <1>5, <1>6, <1>7, <1>8 DEF TxInv, DeleteInv, HoldsLog, Writing
  <2>4. InsertInv(tx[x])'
    BY <1>1, <1>7, <1>8 DEF TxInv, InsertInv
  <2> QED BY <2>1, <2>2, <2>3, <2>4 DEF TxInv
<1>10. Inv'
  BY <1>1, <1>5, <1>7, <1>9, StepOfOne
<1> QED BY <1>7, <1>8, <1>10

\* The rows of the run are those of its four tables.
LEMMA FourTables ==
  ASSUME NEW some \in SUBSET ARow, NEW of,
         \A m \in 1 .. 4 : Of(Deletes[m], some) \subseteq of
  PROVE  some \subseteq of
<1> SUFFICES ASSUME NEW r \in some PROVE r \in of
  OBVIOUS
<1>1. r.table \in TableNames
  BY DEF ARow
<1>2. PICK m \in 1 .. 4 : r.table = Deletes[m]
  BY <1>1, TablesAre DEF TableNames
<1> QED BY <1>2 DEF Of

LEMMA EndDeleteStep ==
  ASSUME Inv, NEW x \in Commits, EndDelete(x)
  PROVE  /\ Inv' /\ tx'[x].write = tx[x].write
         /\ tx'[x].pc \in {"delete", "insert"} /\ tx[x].pc = "deleting"
<1> DEFINE n == tx[x].n
           gone == tx[x].target \cap rows
           s == [tx[x] EXCEPT !.deleted = tx[x].deleted \cup gone, !.target = {}]
           t == NextStatement(s, "delete", "insert")
<1>1. tx[x] \in TxRows /\ tx[x].pc = "deleting" /\ ~Over(x) /\ TxInv(x)
  BY DEF Types, EndDelete, Over, Inv
<1>2. n \in 1 .. 4 /\ gone \in SUBSET ARow
  BY <1>1 DEF TxRows
<1>3. Becomes(x, t) /\ UNCHANGED <<rows, ended, failures>>
  BY DEF EndDelete
<1>4. gone = tx[x].target \cap rows
  OBVIOUS
<1> HIDE DEF gone
<1>5. /\ s \in TxRows /\ s.n = n /\ s.write = tx[x].write
      /\ s.deleted = tx[x].deleted \cup gone /\ s.inserted = tx[x].inserted
  BY <1>1, <1>2 DEF TxRows
<1> HIDE DEF s
<1>6. /\ t \in TxRows /\ t.write = tx[x].write
      /\ t.deleted = tx[x].deleted \cup gone /\ t.inserted = tx[x].inserted
      /\ n < 4 => t.pc = "delete" /\ t.n = n + 1
      /\ n = 4 => t.pc = "insert" /\ t.n = 1
  <2>1. /\ t \in TxRows /\ t.write = s.write /\ t.deleted = s.deleted
        /\ t.inserted = s.inserted
        /\ s.n < 4 => t.pc = "delete" /\ t.n = s.n + 1
        /\ s.n = 4 => t.pc = "insert" /\ t.n = 1
    <3>1. "delete" \in Pc /\ "insert" \in Pc
      BY DEF Pc
    <3>2. s \in TxRows
      BY <1>5
    <3> QED BY <3>1, <3>2, NextStatementRow
  <2> HIDE DEF t
  <2> QED BY <1>5, <2>1
<1> HIDE DEF t
<1>7. tx'[x] = t /\ \A r : Past(r) => Past(r)'
  BY <1>1, <1>3, <1>6, OneMoves DEF Inv
<1>8. t.pc \in {"delete", "insert"} /\ (n < 4 \/ n = 4)
  BY <1>2, <1>6
\* Nobody else holds a row that this DELETE waited for.
<1>9. \A y \in Commits \ {x} : gone \cap tx[y].deleted = {}
  BY <1>1, <1>4 DEF EndDelete, WaitsFor
\* A transaction that holds the start of the log has the tables so far.
<1>10. HoldsLog(t) => HoldsLog(tx[x]) \/ tx[x].target \cap rows # {}
  BY <1>4, <1>6 DEF HoldsLog
<1>11. HoldsLog(t) => Of(Deletes[n], rows) \subseteq t.deleted
  <2>1. HoldsLog(t) => tx[x].target = Of(Deletes[n], rows)
    BY <1>1, <1>10 DEF TxInv, DeleteInv
  <2> QED BY <2>1, <1>4, <1>6 DEF Of
<1>12. HoldsLog(t) => \A m \in 1 .. n - 1 : Of(Deletes[m], rows) \subseteq t.deleted
  <2>1. CASE HoldsLog(tx[x])
    BY <2>1, <1>1, <1>6 DEF TxInv, DeleteInv
  <2>2. CASE HoldsLog(t) /\ ~HoldsLog(tx[x])
    <3>1. PICK e \in gone : IsLogStart(e)
      BY <2>2, <1>6 DEF HoldsLog
    <3>2. tx[x].target = Of(Deletes[n], rows)
      BY <1>1, <1>4, <3>1 DEF TxInv, DeleteInv
    <3>3. Deletes[n] = "events"
      BY <1>4, <3>1, <3>2 DEF Of, IsLogStart
    <3>4. n = 1
      BY <1>2, <3>3, TablesAre
    <3> QED BY <3>4
  <2> QED BY <2>1, <2>2
<1>13. HoldsLog(t) => \A m \in 1 .. n : Of(Deletes[m], rows) \subseteq t.deleted
  <2>1. \A m \in 1 .. n : m = n \/ m \in 1 .. n - 1
    BY <1>2
  <2> QED BY <1>11, <1>12, <2>1
<1>14. rows \in SUBSET ARow
  BY DEF Inv, RowsInv, WholeBy
<1>15. DeleteInv(t)
  <2>1. CASE n < 4
    <3>1. t.pc = "delete" /\ t.n = n + 1 /\ t.n - 1 = n /\ t.n # 1
      BY <1>2, <1>6, <2>1
    <3>2. \A r \in t.deleted : Past(r)
      BY <1>1, <1>4, <1>6 DEF TxInv, DeleteInv
    <3> QED BY <3>1, <3>2, <1>13 DEF DeleteInv, Writing
  <2>2. CASE n = 4
    <3>1. t.pc = "insert" /\ t.n = 1
      BY <1>6, <2>2
    <3>2. \A r \in t.deleted : Past(r)
      BY <1>1, <1>4, <1>6 DEF TxInv, DeleteInv
    <3>3. HoldsLog(t) => rows \subseteq t.deleted
      BY <1>13, <1>14, <2>2, FourTables
    <3> QED BY <3>1, <3>2, <3>3 DEF DeleteInv, Writing
  <2> QED BY <1>8, <2>1, <2>2
<1>16. TxInv(x)'
  <2>1. ReadInv(tx[x])'
    BY <1>7, <1>8 DEF ReadInv, HasRead
  <2>2. WriteInv(x)'
    BY <1>1, <1>6, <1>7 DEF TxInv, WriteInv, Writing
  <2>3. DeleteInv(tx[x])'
    BY <1>3, <1>7, <1>15 DEF DeleteInv, HoldsLog
  <2>4. InsertInv(tx[x])'
    <3>1. t.inserted = {}
      BY <1>1, <1>6 DEF TxInv, InsertInv
    <3>2. t.pc = "insert" => t.n - 1 = 0
      BY <1>6, <1>8
    <3>3. Written(t, 0) = {}
      BY DEF Written
    <3> QED BY <1>7, <1>8, <3>1, <3>2, <3>3 DEF InsertInv, Written
  <2> QED BY <2>1, <2>2, <2>3, <2>4 DEF TxInv
<1>17. \A y \in Commits \ {x} :
         (t.deleted \ tx[x].deleted) \cap tx[y].deleted = {}
  BY <1>6, <1>9
<1>18. Inv'
  BY <1>1, <1>3, <1>6, <1>16, <1>17, StepOfOne
<1> QED BY <1>1, <1>6, <1>7, <1>8, <1>18

\* The committed rows are those of transactions that are over.
LEMMA RowsArePast ==
  ASSUME RowsInv
  PROVE  /\ \A r \in rows : Past(r)
         /\ rows \in SUBSET ARow
         /\ \E e \in rows : IsLogStart(e)
BY DEF RowsInv, WholeBy, Past, Names

LEMMA InsertStep ==
  ASSUME Inv, NEW x \in Commits, Insert(x)
  PROVE  /\ Inv' /\ tx'[x].write = tx[x].write
         /\ tx'[x].pc \in {"insert", "commit"} /\ tx[x].pc = "insert"
<1> DEFINE n == tx[x].n
           more == Collisions(x)
           batch == Batch(x)
           s == [tx[x] EXCEPT !.inserted = tx[x].inserted \cup batch,
                              !.deleted = tx[x].deleted \cup more]
           t == NextStatement(s, "insert", "commit")
<1>1. tx[x] \in TxRows /\ tx[x].pc = "insert" /\ ~Over(x) /\ TxInv(x)
  BY DEF Types, Insert, Over, Inv
<1>2. /\ \A r \in rows : Past(r)
      /\ rows \in SUBSET ARow
      /\ \E e \in rows : IsLogStart(e)
  BY RowsArePast DEF Inv
<1>3. n \in 1 .. 4 /\ more \in SUBSET ARow /\ batch \in SUBSET ARow
  BY <1>1, <1>2 DEF TxRows, Collisions, Batch, Of
<1>4. Becomes(x, t) /\ UNCHANGED <<rows, ended, failures>>
  BY DEF Insert
<1>5. more \subseteq rows
  BY DEF Collisions
<1>6. n # 1 => more = {}
  BY <1>3, TablesAre DEF Insert
\* What the run row collides with is a run row.
<1>7. \A e \in more : ~IsLogStart(e)
  <2>1. CASE n = 1
    <3>1. \A r \in batch : r.table = "runs"
      BY <2>1, TablesAre DEF Batch, Of
    <3>2. \A e \in more : e.table = "runs"
      BY <3>1 DEF Collisions, Conflict
    <3> QED BY <3>2 DEF IsLogStart
  <2> QED BY <1>6, <2>1
\* The log starts with the same row, so that row has to be deleted first.
<1>8. n = 4 => HoldsLog(tx[x])
  <2> SUFFICES ASSUME n = 4 PROVE HoldsLog(tx[x])
    OBVIOUS
  <2>1. PICK e \in rows : IsLogStart(e)
    BY <1>2
  <2>2. WholeBy(x, tx[x].write)
    BY <1>1 DEF TxInv, WriteInv, Writing
  <2>3. PICK r \in tx[x].write : IsLogStart(r)
    BY <2>2 DEF WholeBy
  <2>4. r \in batch
    BY <2>3, TablesAre DEF Batch, Of, IsLogStart
  <2>5. Conflict(r, e)
    BY <2>1, <2>3 DEF Conflict, IsLogStart
  <2>6. e \in tx[x].deleted
    BY <1>6, <2>1, <2>4, <2>5 DEF Collisions
  <2> QED BY <2>1, <2>6 DEF HoldsLog
<1>9. \A y \in Commits \ {x} : more \cap tx[y].deleted = {}
  BY <1>1 DEF Insert, WaitsFor, Collisions
<1> HIDE DEF more, batch
<1>10. /\ s \in TxRows /\ s.n = n /\ s.write = tx[x].write
       /\ s.deleted = tx[x].deleted \cup more
       /\ s.inserted = tx[x].inserted \cup batch
  BY <1>1, <1>3 DEF TxRows
<1> HIDE DEF s
<1>11. /\ t \in TxRows /\ t.write = s.write /\ t.deleted = s.deleted
       /\ t.inserted = s.inserted
       /\ s.n < 4 => t.pc = "insert" /\ t.n = s.n + 1
       /\ s.n = 4 => t.pc = "commit" /\ t.n = 1
  <2>1. "insert" \in Pc /\ "commit" \in Pc
    BY DEF Pc
  <2>2. s \in TxRows
    BY <1>10
  <2> QED BY <2>1, <2>2, NextStatementRow
<1> HIDE DEF t
<1>12. tx'[x] = t /\ \A r : Past(r) => Past(r)'
  BY <1>1, <1>4, <1>11, OneMoves DEF Inv
<1>13. t.pc \in {"insert", "commit"} /\ (n < 4 \/ n = 4)
  BY <1>3, <1>10, <1>11
<1>14. HoldsLog(t) => HoldsLog(tx[x])
  BY <1>7, <1>10, <1>11 DEF HoldsLog
<1>15. HoldsLog(tx[x]) => rows \subseteq t.deleted
  BY <1>1, <1>10, <1>11 DEF TxInv, DeleteInv
<1>16. \A r \in t.deleted : Past(r)
  BY <1>1, <1>2, <1>5, <1>10, <1>11 DEF TxInv, DeleteInv
<1>17. DeleteInv(t)
  <2>1. CASE n < 4
    <3>1. t.pc = "insert"
      BY <2>1, <1>10, <1>11
    <3> QED BY <3>1, <1>14, <1>15, <1>16 DEF DeleteInv, Writing
  <2>2. CASE n = 4
    <3>1. t.pc = "commit" /\ rows \subseteq t.deleted
      BY <2>2, <1>8, <1>10, <1>11, <1>15
    <3> QED BY <3>1, <1>16 DEF DeleteInv, Writing
  <2> QED BY <1>13, <2>1, <2>2
<1>18. t.inserted = Written(tx[x], n)
  <2>1. tx[x].inserted = Written(tx[x], n - 1)
    BY <1>1 DEF TxInv, InsertInv
  <2>2. batch = {r \in tx[x].write : r.table = Tables[n]}
    BY DEF batch, Batch, Of
  <2>3. \A m : m \in 1 .. n <=> (m = n \/ m \in 1 .. n - 1)
    BY <1>3
  <2>4. Written(tx[x], n) = Written(tx[x], n - 1) \cup batch
    BY <2>2, <2>3 DEF Written
  <2> QED BY <1>10, <1>11, <2>1, <2>4
<1>19. InsertInv(t)
  <2>1. CASE n < 4
    <3>1. t.pc = "insert" /\ t.n - 1 = n
      BY <2>1, <1>3, <1>10, <1>11
    <3>2. Written(t, n) = Written(tx[x], n)
      BY <1>10, <1>11 DEF Written
    <3> QED BY <3>1, <3>2, <1>18 DEF InsertInv
  <2>2. CASE n = 4
    <3>1. t.pc = "commit"
      BY <2>2, <1>10, <1>11
    <3>2. tx[x].write \in SUBSET ARow
      BY <1>1 DEF TxRows
    <3>3. \A r \in tx[x].write : \E m \in 1 .. 4 : r.table = Tables[m]
      BY <3>2, TablesAre DEF ARow, TableNames
    <3>4. Written(tx[x], 4) = tx[x].write
      BY <3>3 DEF Written
    <3> QED BY <2>2, <3>1, <3>4, <1>10, <1>11, <1>18 DEF InsertInv
  <2> QED BY <1>13, <2>1, <2>2
<1>20. TxInv(x)'
  <2>1. ReadInv(tx[x])'
    BY <1>12, <1>13 DEF ReadInv, HasRead
  <2>2. WriteInv(x)'
    BY <1>1, <1>10, <1>11, <1>12 DEF TxInv, WriteInv, Writing
  <2>3. DeleteInv(tx[x])'
    BY <1>4, <1>12, <1>17 DEF DeleteInv, HoldsLog
  <2>4. InsertInv(tx[x])'
    BY <1>12, <1>19 DEF InsertInv, Written
  <2> QED BY <2>1, <2>2, <2>3, <2>4 DEF TxInv
<1>21. \A y \in Commits \ {x} :
         (t.deleted \ tx[x].deleted) \cap tx[y].deleted = {}
  BY <1>9, <1>10, <1>11
<1>22. Inv'
  BY <1>1, <1>4, <1>11, <1>20, <1>21, StepOfOne
<1> QED BY <1>1, <1>10, <1>11, <1>12, <1>13, <1>22

\* A transaction that is rolled back leaves the committed rows alone.
LEMMA RollbackStep ==
  ASSUME Inv, NEW x \in Commits, ~Over(x), Rollback(x), UNCHANGED <<rows, ended>>
  PROVE  Inv'
<1>1. /\ At("failed") \in TxRows /\ At("failed").deleted = {}
      /\ At("failed").pc = "failed"
  BY AtRow DEF Pc
<1>2. Becomes(x, At("failed"))
  BY DEF Rollback
<1>3. tx'[x] = At("failed")
  BY <1>1, <1>2, OneMoves DEF Inv
<1>4. TxInv(x)'
  <2>1. ReadInv(tx[x])'
    BY <1>1, <1>3 DEF ReadInv, HasRead
  <2> QED BY <2>1, <1>1, <1>3, IdleHandsNext DEF TxInv, Writing
<1> QED BY <1>1, <1>2, <1>4, StepOfOne

LEMMA ThrowsNotOver ==
  ASSUME NEW x \in Commits, Throws(x)
  PROVE  ~Over(x)
<1>1. CASE Refused(x) \/ UniqueViolation(x)
  BY <1>1 DEF Refused, UniqueViolation, Over
<1>2. CASE Deadlocked(x)
  <2>1. WaitsFor(x) # {}
    BY <1>2 DEF Deadlocked, Stuck
  <2> QED BY <2>1 DEF WaitsFor, Over
<1> QED BY <1>1, <1>2 DEF Throws

-----------------------------------------------------------------------------
(* The invariant *)

LEMMA InitInv == Init => Inv
<1> SUFFICES ASSUME Init PROVE Inv
  OBVIOUS
<1>1. /\ At("idle") \in TxRows /\ At("idle").pc = "idle"
      /\ At("idle").deleted = {}
  BY AtRow DEF Pc
<1>2. Types /\ EndedIsOver
  BY <1>1 DEF Init, Types, EndedIsOver
<1>3. RowsInv
  <2> DEFINE run == Row("runs", Created, 0, "saved", Created)
             start == Row("events", Created, 1, "saved", Created)
  <2>1. run \in ARow /\ start \in ARow
    BY NamesHaveCommits DEF Row, ARow, TableNames
  <2>2. /\ run.table = "runs" /\ start.table = "events" /\ start.id = Created
        /\ run.by = Created /\ start.by = Created /\ start.sequence = 1
    BY DEF Row
  <2>3. rows = {run, start} /\ run = Row("runs", Created, 0, "saved", Created)
    BY DEF Init
  <2> HIDE DEF run, start
  <2>4. /\ Of("runs", rows) = {run} /\ Of("events", rows) = {start}
        /\ Of("checkpoints", rows) = {}
    BY <2>2, <2>3 DEF Of
  <2>5. Counted({start})
    <3>1. IsFiniteSet({start}) /\ Cardinality({start}) = 1
      BY FS_Singleton
    <3>2. {r.sequence : r \in {start}} = 1 .. 1
      BY <2>2
    <3> QED BY <3>1, <3>2 DEF Counted
  <2>6. Counted({})
    <3>1. IsFiniteSet({}) /\ Cardinality({}) = 0
      BY FS_EmptySet
    <3>2. 1 .. 0 = {}
      OBVIOUS
    <3> QED BY <3>1, <3>2 DEF Counted
  <2>7. IsLogStart(start)
    BY <2>2 DEF IsLogStart
  <2>8. WholeBy(Created, rows)
    BY <2>1, <2>2, <2>3, <2>4, <2>5, <2>6, <2>7 DEF WholeBy
  <2> QED BY <2>8, NamesHaveCommits DEF RowsInv
<1>4. Exclusive
  BY <1>1 DEF Init, Exclusive
<1>5. ASSUME NEW x \in Commits PROVE TxInv(x)
  <2>1. tx[x].pc = "idle" /\ tx[x].deleted = {}
    BY <1>1 DEF Init
  <2>2. ReadInv(tx[x])
    BY <2>1 DEF ReadInv, HasRead
  <2> QED BY <2>1, <2>2, IdleHands DEF TxInv, Writing
<1> QED BY <1>2, <1>3, <1>4, <1>5 DEF Inv

\* A failing statement rolls back, or it was the answer to COMMIT that was lost.
LEMMA FailsStep ==
  ASSUME Inv, NEW x \in Commits, Fails(x)
  PROVE  Inv'
<1>1. ~Over(x) /\ Becomes(x, At("failed")) /\ UNCHANGED ended
  BY DEF Fails, Over
<1>2. CASE UNCHANGED rows
  BY <1>1, <1>2, RollbackStep DEF Rollback
<1>3. CASE /\ tx[x].pc = "commit"
           /\ rows' = (rows \ tx[x].deleted) \cup tx[x].inserted
  BY <1>1, <1>3, CommitStep
<1> QED BY <1>2, <1>3 DEF Fails

LEMMA NextInv == Inv /\ [Next]_vars => Inv'
<1> SUFFICES ASSUME Inv, [Next]_vars PROVE Inv'
  OBVIOUS
<1>1. CASE UNCHANGED vars
  <2>1. rows' = rows /\ tx' = tx /\ ended' = ended
    BY <1>1 DEF vars
  <2>2. Types' /\ EndedIsOver' /\ RowsInv' /\ Exclusive'
    BY <2>1 DEF Inv, Types, EndedIsOver, Over, RowsInv, Exclusive
  <2>3. ASSUME NEW x \in Commits PROVE TxInv(x)'
    <3>1. TxInv(x)
      BY DEF Inv
    <3>2. ReadInv(tx[x])' /\ WriteInv(x)' /\ InsertInv(tx[x])'
      BY <2>1, <3>1 DEF TxInv, ReadInv, HasRead, ReadTable, WriteInv, InsertInv,
           Written
    <3>3. DeleteInv(tx[x])'
      BY <2>1, <3>1 DEF TxInv, DeleteInv, HoldsLog, Past, Over
    <3> QED BY <3>2, <3>3 DEF TxInv
  <2> QED BY <2>2, <2>3 DEF Inv
<1>2. ASSUME NEW x \in Commits, Begin(x) \/ Step(x) \/ Fails(x)
      PROVE  Inv'
  <2>1. CASE Begin(x)
    BY <2>1, BeginStep
  <2>2. CASE Select(x)
    BY <2>2, SelectStep
  <2>3. CASE Apply(x)
    BY <2>3, ApplyStep
  <2>4. CASE StartDelete(x)
    BY <2>4, StartDeleteStep
  <2>5. CASE EndDelete(x)
    BY <2>5, EndDeleteStep
  <2>6. CASE Insert(x)
    BY <2>6, InsertStep
  <2>7. CASE Commit(x)
    <3>1. Becomes(x, At("done")) /\ UNCHANGED ended
      BY <2>7 DEF Commit
    <3> QED BY <2>7, <3>1, CommitStep DEF Commit
  <2>8. CASE Throws(x)
    BY <2>8, ThrowsNotOver, RollbackStep DEF Throws
  <2>9. CASE Fails(x)
    BY <2>9, FailsStep
  <2> QED BY <1>2, <2>1, <2>2, <2>3, <2>4, <2>5, <2>6, <2>7, <2>8, <2>9 DEF Step
<1> QED BY <1>1, <1>2 DEF Next

LEMMA AlwaysInv == Spec => []Inv
BY InitInv, NextInv, PTL DEF Spec

\* Whatever the number of transactions of a run, and however their statements
\* interleave, wait, collide, fail and are rolled back, the committed rows of the
\* run are those of one transaction as a whole: commitTransition replaces all of
\* them or none, although READ COMMITTED gives every statement its own snapshot.
THEOREM RunRowsAreOneTransaction == Spec => []RunIsWhole
<1>1. Inv => RunIsWhole
  <2> SUFFICES ASSUME Inv PROVE RunIsWhole
    OBVIOUS
  <2>1. PICK z \in Names : WholeBy(z, rows)
    BY DEF Inv, RowsInv
  <2>2. Numbered("events") /\ Numbered("checkpoints")
    BY <2>1 DEF WholeBy, Counted, Numbered
  <2> QED BY <2>1, <2>2 DEF RunIsWhole, WholeBy
<1> QED BY <1>1, AlwaysInv, PTL

-----------------------------------------------------------------------------
(* What a commit that nobody overlapped has left *)

\* The tables that keep the name of a transition.
Marks(x) == {"events"} \cup (IF x \in Asking THEN {"approvals", "checkpoints"} ELSE {})

Marked(x, table, some) == \E r \in Of(table, some) : r.id = x

\* Transaction t has found what x added, and is to write it again.
Carries(x, t) ==
  /\ \A m \in 1 .. 4 :
       HasRead(t, m) /\ Tables[m] \in Marks(x) => Marked(x, Tables[m], t.read)
  /\ t.pc \in Writing => \A table \in Marks(x) : Marked(x, table, t.write)

\* No commit has overlapped that of x so far.
Alone(x) == tx[x].pc = "done" /\ \A y \in Commits \ {x} : ~Overlap(x, y)

\* Nothing is lost, and those that began later have it.
Preserved(x) ==
  Alone(x) => /\ \A table \in Marks(x) : Marked(x, table, rows)
              /\ \A y \in Commits : x \in ended[y] => Carries(x, tx[y])

WritesOwn(x, t) == t.pc \in Writing => \A table \in Marks(x) : Marked(x, table, t.write)

KeepInv == \A x \in Commits : WritesOwn(x, tx[x]) /\ Preserved(x)

LEMMA KeptIsMarked ==
  ASSUME NEW x \in Commits
  PROVE  Kept(x) <=> \A table \in Marks(x) : Marked(x, table, rows)
<1>1. CASE x \in Asking
  <2>1. Marks(x) = {"events", "approvals", "checkpoints"}
    BY <1>1 DEF Marks
  <2> QED BY <1>1, <2>1 DEF Kept, Marked
<1>2. CASE x \notin Asking
  <2>1. Marks(x) = {"events"}
    BY <1>2 DEF Marks
  <2> QED BY <1>2, <2>1 DEF Kept, Marked
<1> QED BY <1>1, <1>2

\* A commit that overlaps with none after a step of another did not before.
LEMMA AloneBefore ==
  ASSUME Types, NEW x \in Commits, ~Over(x), NEW t \in TxRows, Becomes(x, t),
         t.pc # "idle", tx[x].pc = "idle" \/ UNCHANGED ended,
         \A z \in Commits \ {x} : ended'[z] = ended[z],
         NEW y \in Commits \ {x}, Alone(y)'
  PROVE  Alone(y)
<1>1. tx'[x] = t /\ \A z \in Commits \ {x} : tx'[z] = tx[z]
  BY OneMoves
<1>2. tx[y].pc = "done"
  BY <1>1 DEF Alone
<1>3. ASSUME NEW z \in Commits \ {y} PROVE ~Overlap(y, z)
  <2>1. ~Overlap(y, z)'
    BY <1>3 DEF Alone
  <2>2. CASE z # x
    <3>1. tx'[y] = tx[y] /\ tx'[z] = tx[z] /\ ended'[y] = ended[y] /\ ended'[z] = ended[z]
      BY <1>1, <2>2
    <3> QED BY <2>1, <3>1 DEF Overlap
  <2>3. CASE z = x /\ tx[x].pc = "idle"
    BY <2>3 DEF Overlap
  <2>4. CASE z = x /\ UNCHANGED ended
    BY <1>1, <2>1, <2>4 DEF Overlap
  <2> QED BY <2>2, <2>3, <2>4
<1> QED BY <1>2, <1>3 DEF Alone

\* What is left to show of a step of x that leaves the committed rows alone.
LEMMA KeepOfOne ==
  ASSUME Inv, KeepInv, NEW x \in Commits, ~Over(x), NEW t \in TxRows,
         Becomes(x, t), UNCHANGED rows, t.pc \notin {"idle", "done"},
         tx[x].pc = "idle" \/ UNCHANGED ended,
         \A z \in Commits \ {x} : ended'[z] = ended[z],
         WritesOwn(x, t),
         \A y \in Commits \ {x} : Alone(y) /\ y \in ended'[x] => Carries(y, t)
  PROVE  KeepInv'
<1>1. tx'[x] = t /\ \A z \in Commits \ {x} : tx'[z] = tx[z]
  BY OneMoves DEF Inv
<1>2. WritesOwn(x, tx[x])' /\ Preserved(x)'
  <2>1. ~Alone(x)'
    BY <1>1 DEF Alone
  <2>2. WritesOwn(x, tx[x])'
    BY <1>1 DEF WritesOwn
  <2> QED BY <2>1, <2>2 DEF Preserved
<1>3. ASSUME NEW y \in Commits \ {x}
      PROVE  WritesOwn(y, tx[y])' /\ Preserved(y)'
  <2>1. WritesOwn(y, tx[y])'
    <3>1. tx'[y] = tx[y]
      BY <1>1
    <3> QED BY <3>1 DEF WritesOwn, KeepInv
  <2>2. ASSUME Alone(y)'
        PROVE  /\ \A table \in Marks(y) : Marked(y, table, rows)
               /\ \A z \in Commits : y \in ended'[z] => Carries(y, tx'[z])
    <3>1. Alone(y)
      BY <2>2, AloneBefore DEF Inv
    <3>2. /\ \A table \in Marks(y) : Marked(y, table, rows)
          /\ \A z \in Commits : y \in ended[z] => Carries(y, tx[z])
      BY <3>1 DEF KeepInv, Preserved
    <3> QED BY <1>1, <3>1, <3>2
  <2>3. Preserved(y)'
    <3>1. UNCHANGED rows
      OBVIOUS
    <3> QED BY <2>2, <3>1 DEF Preserved, Marked, Carries, HasRead
  <2> QED BY <2>1, <2>3
<1> QED BY <1>2, <1>3 DEF KeepInv

\* A commit of x keeps what it has carried over.
LEMMA KeepCommitted ==
  ASSUME Inv, KeepInv, NEW x \in Commits, tx[x].pc = "commit",
         NEW pc \in {"done", "failed"},
         rows' = (rows \ tx[x].deleted) \cup tx[x].inserted,
         Becomes(x, At(pc)), UNCHANGED ended
  PROVE  KeepInv'
<1>0. ~Over(x) /\ At(pc) \in TxRows /\ At(pc).pc = pc
  BY AtRow DEF Over, Pc
<1>1. tx'[x] = At(pc) /\ \A z \in Commits \ {x} : tx'[z] = tx[z]
  BY <1>0, OneMoves DEF Inv
<1>2. rows' = tx[x].write
  BY CommitStep
<1>3. \A z \in Commits : x \notin ended[z]
  BY <1>0 DEF Inv, EndedIsOver
<1>4. WritesOwn(x, tx[x])' /\ Preserved(x)'
  <2>1. WritesOwn(x, tx[x])'
    BY <1>0, <1>1 DEF WritesOwn, Writing
  <2>2. \A table \in Marks(x) : Marked(x, table, tx[x].write)
    BY DEF KeepInv, WritesOwn, Writing
  <2>3. \A table \in Marks(x) : Marked(x, table, rows)'
    BY <1>2, <2>2 DEF Marked
  <2>4. Preserved(x)'
    BY <1>3, <2>3 DEF Preserved
  <2> QED BY <2>1, <2>4
<1>5. ASSUME NEW y \in Commits \ {x}
      PROVE  WritesOwn(y, tx[y])' /\ Preserved(y)'
  <2>1. WritesOwn(y, tx[y])'
    <3>1. tx'[y] = tx[y]
      BY <1>1
    <3> QED BY <3>1 DEF WritesOwn, KeepInv
  <2>2. ASSUME Alone(y)'
        PROVE  /\ \A table \in Marks(y) : Marked(y, table, rows')
               /\ \A z \in Commits : y \in ended'[z] => Carries(y, tx'[z])
    <3>1. Alone(y)
      <4>1. At(pc).pc # "idle"
        BY <1>0
      <4> QED BY <4>1, <1>0, <2>2, AloneBefore DEF Inv
    <3>2. \A z \in Commits : y \in ended[z] => Carries(y, tx[z])
      BY <3>1 DEF KeepInv, Preserved
    <3>3. y \in ended[x]
      BY <1>3, <3>1 DEF Alone, Overlap
    <3>4. \A table \in Marks(y) : Marked(y, table, rows')
      BY <1>2, <3>2, <3>3 DEF Carries, Writing
    <3>5. Carries(y, At(pc))
      BY <1>0 DEF Carries, HasRead, Writing
    <3> QED BY <1>1, <3>2, <3>4, <3>5
  <2>3. Preserved(y)'
    BY <2>2 DEF Preserved, Marked, Carries, HasRead
  <2> QED BY <2>1, <2>3
<1> QED BY <1>4, <1>5 DEF KeepInv

LEMMA BecomesNext ==
  ASSUME Inv, NEW x \in Commits, Inv', NEW t, Becomes(x, t)
  PROVE  Becomes(x, tx'[x]) /\ tx'[x] \in TxRows
BY DEF Inv, Types, Becomes

LEMMA AppliedMarks ==
  ASSUME NEW x \in Commits, NEW read \in SUBSET ARow, GoodRead(read)
  PROVE  /\ \A table \in Marks(x) : Marked(x, table, Applied(read, x))
         /\ \A y \in Commits : \A table \in Marks(y) :
              Marked(y, table, read) => Marked(y, table, Applied(read, x))
<1>1. \A table \in Marks(x) : Marked(x, table, Applied(read, x))
  <2>1. ASSUME NEW table \in Marks(x)
        PROVE  \E r \in Added(read, x) : r.table = table /\ r.id = x
    <3>1. CASE table = "events"
      <4>1. Row("events", x, NextSequence("events", read), "saved", x)
              \in Added(read, x)
        BY DEF Added
      <4> QED BY <3>1, <4>1 DEF Row
    <3>2. CASE x \in Asking /\ table = "approvals"
      <4>1. Row("approvals", x, 0, "pending", x) \in Added(read, x)
        BY <3>2 DEF Added
      <4> QED BY <3>2, <4>1 DEF Row
    <3>3. CASE x \in Asking /\ table = "checkpoints"
      <4>1. Row("checkpoints", x, NextSequence("checkpoints", read), "saved", x)
              \in Added(read, x)
        BY <3>3 DEF Added
      <4> QED BY <3>3, <4>1 DEF Row
    <3> QED BY <3>1, <3>2, <3>3 DEF Marks
  <2> QED BY <2>1 DEF Marked, Of, Applied
<1>2. ASSUME NEW y \in Commits, NEW table \in Marks(y), Marked(y, table, read)
      PROVE  Marked(y, table, Applied(read, x))
  <2>1. PICK r \in read : r.table = table /\ r.id = y
    BY <1>2 DEF Marked, Of
  <2>2. table \in {"events", "approvals", "checkpoints"}
    BY DEF Marks
  <2>3. [r EXCEPT !.by = x] \in Carried(read, x)
    BY <2>1, <2>2 DEF Carried, Of
  <2>4. [r EXCEPT !.by = x].table = table /\ [r EXCEPT !.by = x].id = y
    BY <2>1, SignedRow, NamesHaveCommits
  <2> QED BY <2>3, <2>4 DEF Marked, Of, Applied
<1> QED BY <1>1, <1>2

LEMMA DecidedMarks ==
  ASSUME NEW some \in SUBSET ARow, NEW a, NEW y, NEW table, Marked(y, table, some)
  PROVE  Marked(y, table, Decided(some, a))
<1>1. PICK r \in some : r.table = table /\ r.id = y
  BY DEF Marked, Of
<1> DEFINE s == IF r.table = "approvals" /\ r.id = a
                THEN [r EXCEPT !.data = "decided"] ELSE r
<1>2. s \in Decided(some, a)
  BY DEF Decided
<1>3. s.table = table /\ s.id = y
  BY <1>1 DEF ARow
<1> QED BY <1>2, <1>3 DEF Marked, Of

LEMMA KeepBegin ==
  ASSUME Inv, KeepInv, NEW x \in Commits, Begin(x)
  PROVE  KeepInv'
<1>1. /\ At("select") \in TxRows /\ At("select").pc = "select"
      /\ At("select").n = 1
  BY AtRow DEF Pc
<1>2. /\ tx[x].pc = "idle" /\ ~Over(x) /\ Becomes(x, At("select"))
      /\ UNCHANGED rows
      /\ \A z \in Commits \ {x} : ended'[z] = ended[z]
  BY DEF Begin, Over, Inv, Types
<1>3. WritesOwn(x, At("select"))
  BY <1>1 DEF WritesOwn, Writing
<1>4. \A y : Carries(y, At("select"))
  BY <1>1 DEF Carries, HasRead, Writing
<1> QED BY <1>1, <1>2, <1>3, <1>4, KeepOfOne

LEMMA KeepSelect ==
  ASSUME Inv, KeepInv, NEW x \in Commits, Select(x)
  PROVE  KeepInv'
<1> DEFINE t == tx'[x]
<1>1. /\ Inv'
      /\ t.read = tx[x].read \cup Of(Tables[tx[x].n], rows)
      /\ \A m \in 1 .. 4 : HasRead(t, m) => HasRead(tx[x], m) \/ m = tx[x].n
      /\ t.pc \in {"select", "apply"}
  BY SelectStep
<1>2. /\ tx[x].pc = "select" /\ ~Over(x) /\ UNCHANGED <<rows, ended>>
  BY DEF Select, Over
<1>3. Becomes(x, t) /\ t \in TxRows
  BY <1>1, BecomesNext DEF Select
<1> HIDE DEF t
<1>4. WritesOwn(x, t)
  BY <1>1 DEF WritesOwn, Writing
<1>5. ASSUME NEW y \in Commits \ {x}, Alone(y), y \in ended'[x]
      PROVE  Carries(y, t)
  <2>1. /\ \A table \in Marks(y) : Marked(y, table, rows)
        /\ Carries(y, tx[x])
    BY <1>2, <1>5 DEF KeepInv, Preserved
  <2>2. ASSUME NEW m \in 1 .. 4, HasRead(t, m), Tables[m] \in Marks(y)
        PROVE  Marked(y, Tables[m], t.read)
    <3>1. CASE HasRead(tx[x], m)
      <4>1. Marked(y, Tables[m], tx[x].read)
        BY <2>1, <2>2, <3>1 DEF Carries
      <4> QED BY <1>1, <4>1 DEF Marked, Of
    <3>2. CASE m = tx[x].n
      <4>1. Marked(y, Tables[m], rows)
        BY <2>1, <2>2
      <4> QED BY <1>1, <3>2, <4>1 DEF Marked, Of
    <3> QED BY <1>1, <2>2, <3>1, <3>2
  <2> QED BY <1>1, <2>2 DEF Carries, Writing
<1> QED BY <1>1, <1>2, <1>3, <1>4, <1>5, KeepOfOne

LEMMA KeepApply ==
  ASSUME Inv, KeepInv, NEW x \in Commits, Apply(x)
  PROVE  KeepInv'
<1> DEFINE t == tx'[x]
           read == tx[x].read
<1>1. /\ Inv' /\ t.pc = "delete"
      /\ \/ t.write = Applied(read, x)
         \/ \E a : t.write = Decided(Applied(read, x), a)
  BY ApplyStep
<1>2. /\ tx[x].pc = "apply" /\ ~Over(x) /\ UNCHANGED <<rows, ended>>
  BY DEF Apply, Over
<1>3. Becomes(x, t) /\ t \in TxRows
  <2>1. \E u : Becomes(x, u)
    BY DEF Apply
  <2> QED BY <1>1, <2>1, BecomesNext
<1>4. GoodRead(read) /\ read \in SUBSET ARow
  BY <1>2, ReadIsGood
<1>5. Applied(read, x) \in SUBSET ARow
  BY <1>4, AppliedTables
<1> HIDE DEF t, read
<1>6. \A y, table : Marked(y, table, Applied(read, x)) => Marked(y, table, t.write)
  <2>1. \A a, y, table : Marked(y, table, Applied(read, x))
                           => Marked(y, table, Decided(Applied(read, x), a))
    BY <1>5, DecidedMarks
  <2> QED BY <1>1, <2>1
<1>7. WritesOwn(x, t)
  BY <1>4, <1>6, AppliedMarks DEF WritesOwn
<1>8. ASSUME NEW y \in Commits \ {x}, Alone(y), y \in ended'[x]
      PROVE  Carries(y, t)
  <2>1. Carries(y, tx[x])
    BY <1>2, <1>8 DEF KeepInv, Preserved
  <2>2. \A m \in 1 .. 4 : Tables[m] \in Marks(y) => Marked(y, Tables[m], read)
    BY <1>2, <2>1 DEF Carries, HasRead, read
  <2>3. \A table \in Marks(y) : \E m \in 1 .. 4 : Tables[m] = table
    <3>1. Tables[2] = "approvals" /\ Tables[3] = "checkpoints" /\ Tables[4] = "events"
      BY TablesAre
    <3>2. \A table \in Marks(y) : table \in {"events", "approvals", "checkpoints"}
      BY DEF Marks
    <3> QED BY <3>1, <3>2
  <2>4. \A table \in Marks(y) : Marked(y, table, t.write)
    BY <1>4, <1>6, <2>2, <2>3, AppliedMarks
  <2> QED BY <1>1, <2>4 DEF Carries, HasRead
<1> QED BY <1>1, <1>2, <1>3, <1>7, <1>8, KeepOfOne

\* A step between the DELETEs and COMMIT does not touch what is to be written.
LEMMA KeepWrite ==
  ASSUME Inv, Inv', KeepInv, NEW x \in Commits, tx[x].pc \in Writing,
         NEW u, Becomes(x, u), UNCHANGED <<rows, ended>>,
         tx'[x].pc \in Writing, tx'[x].write = tx[x].write
  PROVE  KeepInv'
<1> DEFINE t == tx'[x]
<1>1. Becomes(x, t) /\ t \in TxRows
  BY BecomesNext
<1>2. ~Over(x) /\ t.pc \in Writing /\ t.write = tx[x].write
  BY DEF Over, Writing
<1> HIDE DEF t
<1>3. WritesOwn(x, t)
  BY <1>2 DEF KeepInv, WritesOwn
<1>4. ASSUME NEW y \in Commits \ {x}, Alone(y), y \in ended'[x]
      PROVE  Carries(y, t)
  <2>1. Carries(y, tx[x])
    BY <1>4 DEF KeepInv, Preserved
  <2> QED BY <1>2, <2>1 DEF Carries, HasRead, Writing
<1> QED BY <1>1, <1>2, <1>3, <1>4, KeepOfOne DEF Writing

LEMMA KeepRollback ==
  ASSUME Inv, KeepInv, NEW x \in Commits, ~Over(x), Rollback(x),
         UNCHANGED <<rows, ended>>
  PROVE  KeepInv'
<1>1. At("failed") \in TxRows /\ At("failed").pc = "failed"
  BY AtRow DEF Pc
<1>2. WritesOwn(x, At("failed"))
  BY <1>1 DEF WritesOwn, Writing
<1>3. \A y : Carries(y, At("failed"))
  BY <1>1 DEF Carries, HasRead, Writing
<1> QED BY <1>1, <1>2, <1>3, KeepOfOne DEF Rollback

LEMMA KeepNext == Inv /\ KeepInv /\ [Next]_vars => KeepInv'
<1> SUFFICES ASSUME Inv, KeepInv, [Next]_vars PROVE KeepInv'
  OBVIOUS
<1>0. Inv'
  BY NextInv
<1>1. CASE UNCHANGED vars
  <2>1. rows' = rows /\ tx' = tx /\ ended' = ended
    BY <1>1 DEF vars
  <2> QED BY <2>1 DEF KeepInv, WritesOwn, Preserved, Alone, Overlap, Marked,
           Carries, HasRead
<1>2. ASSUME NEW x \in Commits, Begin(x) \/ Step(x) \/ Fails(x)
      PROVE  KeepInv'
  <2>1. CASE Begin(x)
    BY <2>1, KeepBegin
  <2>2. CASE Select(x)
    BY <2>2, KeepSelect
  <2>3. CASE Apply(x)
    BY <2>3, KeepApply
  <2>4. CASE StartDelete(x)
    <3>1. /\ tx[x].pc = "delete" /\ tx'[x].pc = "deleting"
          /\ tx'[x].write = tx[x].write /\ UNCHANGED <<rows, ended>>
          /\ \E u : Becomes(x, u)
      BY <2>4, StartDeleteStep DEF StartDelete
    <3> QED BY <1>0, <3>1, KeepWrite DEF Writing
  <2>5. CASE EndDelete(x)
    <3>1. /\ tx[x].pc = "deleting" /\ tx'[x].pc \in {"delete", "insert"}
          /\ tx'[x].write = tx[x].write /\ UNCHANGED <<rows, ended>>
          /\ \E u : Becomes(x, u)
      BY <2>5, EndDeleteStep DEF EndDelete
    <3> QED BY <1>0, <3>1, KeepWrite DEF Writing
  <2>6. CASE Insert(x)
    <3>1. /\ tx[x].pc = "insert" /\ tx'[x].pc \in {"insert", "commit"}
          /\ tx'[x].write = tx[x].write /\ UNCHANGED <<rows, ended>>
          /\ \E u : Becomes(x, u)
      BY <2>6, InsertStep DEF Insert
    <3> QED BY <1>0, <3>1, KeepWrite DEF Writing
  <2>7. CASE Commit(x)
    <3>1. Becomes(x, At("done")) /\ UNCHANGED ended
      BY <2>7 DEF Commit
    <3> QED BY <2>7, <3>1, KeepCommitted DEF Commit
  <2>8. CASE Throws(x)
    BY <2>8, ThrowsNotOver, KeepRollback DEF Throws
  <2>9. CASE Fails(x)
    <3>1. ~Over(x) /\ Becomes(x, At("failed")) /\ UNCHANGED ended
      BY <2>9 DEF Fails, Over
    <3>2. CASE UNCHANGED rows
      BY <3>1, <3>2, KeepRollback DEF Rollback
    <3>3. CASE /\ tx[x].pc = "commit"
               /\ rows' = (rows \ tx[x].deleted) \cup tx[x].inserted
      BY <3>1, <3>3, KeepCommitted
    <3> QED BY <2>9, <3>2, <3>3 DEF Fails
  <2> QED BY <1>2, <2>1, <2>2, <2>3, <2>4, <2>5, <2>6, <2>7, <2>8, <2>9 DEF Step
<1> QED BY <1>1, <1>2 DEF Next

LEMMA KeepInit == Init => KeepInv
<1> SUFFICES ASSUME Init PROVE KeepInv
  OBVIOUS
<1>1. \A x \in Commits : tx[x].pc = "idle"
  BY AtRow DEF Init, Pc
<1> QED BY <1>1 DEF KeepInv, WritesOwn, Writing, Preserved, Alone

\* A commit of a run that no other commit of it overlapped is never lost: its
\* event, and the approval and checkpoint it came with, are in every later
\* version of the run, whatever the other transactions do to each other.
THEOREM CommitAloneIsKept == Spec => []KeptUnlessOverlapped
<1>1. KeepInv => KeptUnlessOverlapped
  <2> SUFFICES ASSUME KeepInv, NEW x \in Commits, tx[x].pc = "done",
                      \A y \in Commits \ {x} : ~Overlap(x, y)
               PROVE  Kept(x)
    BY DEF KeptUnlessOverlapped
  <2>1. \A table \in Marks(x) : Marked(x, table, rows)
    BY DEF KeepInv, Preserved, Alone
  <2> QED BY <2>1, KeptIsMarked
<1>2. Spec => []KeepInv
  BY AlwaysInv, KeepInit, KeepNext, PTL DEF Spec
<1> QED BY <1>1, <1>2, PTL

=============================================================================
