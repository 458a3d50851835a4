----------------------------- MODULE FileStore -----------------------------
(***************************************************************************)
(* The file-backed stores of packages/persistence: the JSON file of        *)
(* createFileRuntimePersistence and the exported database of the SQLite    *)
(* stores.  Both read the whole file, change it in memory and write all of *)
(* it back, under a lock file that is created with the flag "wx".          *)
(*                                                                         *)
(* A client is one store object: its access queue lets one call at a time  *)
(* through.  Clients of one process or of several share the files.  The    *)
(* file is reduced to the sequence of transitions it holds.                *)
(***************************************************************************)
EXTENDS Naturals, Sequences, FiniteSets

CONSTANTS Clients,      \* store objects over the same path
          Commits,      \* transitions, each committed at most once
          MaxCrashes,   \* bound on the number of crashes
          MaxFailures   \* bound on the number of failing file operations

ASSUME FileStoreAssumption == MaxCrashes \in Nat /\ MaxFailures \in Nat

VARIABLES file, temp, backup,  \* <path>, <path>.tmp and <path>.bak
          lock,                \* <path>.lock exists
          client,              \* client[p] : its call and what it has read
          called,              \* the transitions somebody tried to commit
          acked,               \* those whose commitTransition returned
          crashes, failures    \* faults so far

files  == <<file, temp, backup>>
calls  == <<client, called, acked>>
faults == <<crashes, failures>>
vars   == <<file, temp, backup, lock, client, called, acked, crashes, failures>>

-----------------------------------------------------------------------------
File(state, data) == [state |-> state, data |-> data]
Missing     == File("missing", <<>>)
Partial     == File("partial", <<>>)
Whole(data) == File("whole", data)
FileType    == [state : {"missing", "partial", "whole"}, data : Seq(Commits)]

\* The places where a client holds the lock file.
HoldingPc == {"read", "write", "writing", "replace", "dropBackup", "setAside",
              "moveIn", "cleanBackup", "unlock"}

\* commit is the transition of the call (a set of one, or empty), data the
\* content to be written, ok how the call ends.
ClientType == [pc : {"idle", "open"} \cup HoldingPc, commit : SUBSET Commits,
               data : Seq(Commits), ok : BOOLEAN]

Call(pc, commit) == [pc |-> pc, commit |-> commit, data |-> <<>>, ok |-> FALSE]
Idle == Call("idle", {})

Goto(p, pc) == client' = [client EXCEPT ![p].pc = pc]

-----------------------------------------------------------------------------
Init == /\ file = Missing /\ temp = Missing /\ backup = Missing
        /\ lock = FALSE
        /\ client = [p \in Clients |-> Idle]
        /\ called = {} /\ acked = {}
        /\ crashes = 0 /\ failures = 0

commitTransition(p, c) ==
  /\ client[p].pc = "idle"
  /\ c \notin called
  /\ called' = called \cup {c}
  /\ client' = [client EXCEPT ![p] = Call("open", {c})]
  /\ UNCHANGED <<files, lock, acked, faults>>

\* Mutant: the lock file is opened without the flag "wx".
LockIsFree_Always == TRUE

LockIsFree == ~lock

\* withFileLock: open(lockPath, "wx") creates the lock file or fails.
OpenLock(p) ==
  /\ client[p].pc = "open"
  /\ LockIsFree
  /\ lock' = TRUE
  /\ Goto(p, "read")
  /\ UNCHANGED <<files, called, acked, faults>>

\* The call gives up when the lock file was there for lockTimeoutMs.
TimeOut(p) ==
  /\ client[p].pc = "open"
  /\ ~LockIsFree
  /\ client' = [client EXCEPT ![p] = Idle]
  /\ UNCHANGED <<files, lock, called, acked, faults>>

\* The whole file is read (a missing one is an empty store) and the
\* transition applied in memory, which may refuse it.
ReadAndApply(p) ==
  /\ client[p].pc = "read"
  /\ \/ /\ file.state # "partial"
        /\ \E c \in client[p].commit :
             client' = [client EXCEPT ![p].pc = "write",
                                      ![p].data = Append(file.data, c)]
     \/ Goto(p, "unlock")
  /\ UNCHANGED <<files, lock, called, acked, faults>>

\* writeFile(tempPath): not one step, a crash may leave half of it.
BeginWrite(p) ==
  /\ client[p].pc = "write"
  /\ temp' = Partial
  /\ Goto(p, "writing")
  /\ UNCHANGED <<file, backup, lock, called, acked, faults>>

EndWrite(p) ==
  /\ client[p].pc = "writing"
  /\ temp' = Whole(client[p].data)
  /\ Goto(p, "replace")
  /\ UNCHANGED <<file, backup, lock, called, acked, faults>>

Done(p, pc) == client' = [client EXCEPT ![p].pc = pc, ![p].ok = TRUE]

\* rename(tempPath, filePath) replaces the file, or where the platform does
\* not do that fails with EEXIST: then the file is set aside first.
Replace(p) ==
  /\ client[p].pc = "replace"
  /\ \/ file' = temp /\ temp' = Missing /\ Done(p, "unlock")
     \/ /\ file.state # "missing"
        /\ UNCHANGED <<file, temp>> /\ Goto(p, "dropBackup")
  /\ UNCHANGED <<backup, lock, called, acked, faults>>

DropBackup(p) ==
  /\ client[p].pc = "dropBackup"
  /\ backup' = Missing
  /\ Goto(p, "setAside")
  /\ UNCHANGED <<file, temp, lock, called, acked, faults>>

SetAside(p) ==
  /\ client[p].pc = "setAside"
  /\ backup' = file /\ file' = Missing
  /\ Goto(p, "moveIn")
  /\ UNCHANGED <<temp, lock, called, acked, faults>>

MoveIn(p) ==
  /\ client[p].pc = "moveIn"
  /\ file' = temp /\ temp' = Missing
  /\ Goto(p, "cleanBackup")
  /\ UNCHANGED <<backup, lock, called, acked, faults>>

CleanBackup(p) ==
  /\ client[p].pc = "cleanBackup"
  /\ backup' = Missing
  /\ Done(p, "unlock")
  /\ UNCHANGED <<file, temp, lock, called, acked, faults>>

\* Mutant: a call that throws does not remove the lock file.
Unlock_WhenDone(p) ==
  /\ client[p].pc = "unlock"
  /\ lock' = ~client[p].ok
  /\ acked' = IF client[p].ok THEN acked \cup client[p].commit ELSE acked
  /\ client' = [client EXCEPT ![p] = Idle]
  /\ UNCHANGED <<files, called, faults>>

\* The finally block of withFileLock; the call returns or throws.
Unlock(p) ==
  /\ client[p].pc = "unlock"
  /\ lock' = FALSE
  /\ acked' = IF client[p].ok THEN acked \cup client[p].commit ELSE acked
  /\ client' = [client EXCEPT ![p] = Idle]
  /\ UNCHANGED <<files, called, faults>>

-----------------------------------------------------------------------------
(* Faults *)

\* Mutant: a failing rename leaves the backup where it is.
RestoreBackup_Never == UNCHANGED <<file, backup>>

\* The catch of the fallback puts the backup back, if there is one.
RestoreBackup == /\ file' = IF backup.state = "missing" THEN file ELSE backup
                 /\ backup' = Missing

\* A file operation fails: the call throws once the lock is released.
OperationFails(p) ==
  /\ client[p].pc \in HoldingPc \ {"unlock"}
  /\ failures < MaxFailures
  /\ failures' = failures + 1
  /\ Goto(p, "unlock")
  /\ IF client[p].pc \in {"setAside", "moveIn"}
     THEN temp' = Missing /\ RestoreBackup
     ELSE UNCHANGED files
  /\ UNCHANGED <<lock, called, acked, crashes>>

\* A process dies: what it did to the files stays, its lock file too.
Crash(p) ==
  /\ client[p].pc # "idle"
  /\ crashes < MaxCrashes
  /\ crashes' = crashes + 1
  /\ client' = [client EXCEPT ![p] = Idle]
  /\ UNCHANGED <<files, lock, called, acked, failures>>

-----------------------------------------------------------------------------
Step(p) ==
  \/ OpenLock(p) \/ ReadAndApply(p) \/ BeginWrite(p) \/ EndWrite(p)
  \/ Replace(p) \/ DropBackup(p) \/ SetAside(p) \/ MoveIn(p) \/ CleanBackup(p)
  \/ Unlock(p)

Next ==
  \/ \E p \in Clients, c \in Commits : commitTransition(p, c)
  \/ \E p \in Clients : Step(p) \/ TimeOut(p) \/ OperationFails(p) \/ Crash(p)

Spec == Init /\ [][Next]_vars

\* File operations return.
FairSpec == Spec /\ \A p \in Clients : WF_vars(Step(p))

-----------------------------------------------------------------------------
(* Properties *)

\* Every variable has its type, and no reader ever finds half a file.
TypeOK ==
  /\ file \in FileType /\ temp \in FileType /\ backup \in FileType
  /\ file.state # "partial"
  /\ lock \in BOOLEAN
  /\ client \in [Clients -> ClientType]
  /\ called \subseteq Commits /\ acked \subseteq called
  /\ crashes \in Nat /\ failures \in Nat

\* Only one client is inside the lock, whatever times out, fails or crashes.
OneHolder ==
  /\ \A p \in Clients : client[p].pc \in HoldingPc => lock
  /\ \A p, q \in Clients :
       client[p].pc \in HoldingPc /\ client[q].pc \in HoldingPc => p = q

\* What the files hold: the backup counts while the file is set aside.
Stored == IF file.state = "whole" THEN file.data
          ELSE IF backup.state = "whole" THEN backup.data ELSE <<>>

\* The store applies one transition at a time to all that was stored before,
\* reports only what is stored and loses nothing, however many clients
\* compete, whatever fails and wherever one of them dies.
Abstract == INSTANCE AtomicStore WITH stored <- Stored

ImplementsAtomicStore == Abstract!Spec

\* Reads take no lock: they find what is stored except while a client is, or
\* died, inside the lock.  A failed fallback leaves nothing set aside.
ReadersSeeStored == ~lock /\ file.state = "missing" => Stored = <<>>

\* As long as nobody dies holding it the lock is released again and again,
\* also by calls that throw.
LockIsReleased == lock ~> ~lock \/ crashes > 0
=============================================================================
