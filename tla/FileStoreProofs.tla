-------------------------- MODULE FileStoreProofs --------------------------
(***************************************************************************)
(* Proofs about FileStore for any number of clients, transitions, crashes  *)
(* and failing operations.                                                 *)
(***************************************************************************)
EXTENDS FileStore, TLAPS

-----------------------------------------------------------------------------
(* The invariant *)

\* Only a whole file has content, and only temp is ever partial.
Shaped(f) == f \in FileType /\ (f.state # "whole" => f.data = <<>>)

Shapes == /\ Shaped(file) /\ Shaped(temp) /\ Shaped(backup)
          /\ file.state # "partial" /\ backup.state # "partial"

\* Nothing is set aside: what is missing was never written.
Settled == file.state = "missing" => backup.state = "missing"

WritingPc == {"write", "writing", "replace", "dropBackup", "setAside", "moveIn"}

\* What a client in the lock knows of the files: its content is what is stored
\* with its transition appended, and the temporary file is that content.
Knows(c) ==
  /\ c.commit \subseteq called
  /\ c.pc # "idle" => \E x \in Commits : c.commit = {x}
  /\ c.pc \in WritingPc =>
       \E x \in Commits : c.commit = {x} /\ c.data = Append(Stored, x)
  /\ c.pc \in {"replace", "dropBackup", "setAside", "moveIn"} => temp = Whole(c.data)
  /\ c.pc \in {"dropBackup", "setAside", "cleanBackup"} => file.state = "whole"
  /\ c.pc = "setAside" => backup.state = "missing"
  /\ c.pc = "moveIn" => file.state = "missing" /\ backup.state = "whole"
  /\ c.pc \in HoldingPc \ {"moveIn"} => Settled
  /\ c.pc = "cleanBackup" \/ (c.pc = "unlock" /\ c.ok) =>
       \A x \in c.commit : \E n \in DOMAIN Stored : Stored[n] = x
  /\ c.ok => c.pc = "unlock"

IInv == /\ TypeOK
        /\ OneHolder
        /\ Shapes
        /\ ~lock => Settled
        /\ \A p \in Clients : Knows(client[p])

-----------------------------------------------------------------------------
LEMMA StoredType == ASSUME Shapes PROVE Stored \in Seq(Commits)
  BY DEF Shapes, Shaped, FileType, Stored

LEMMA InitIInv == Init => IInv
<1> SUFFICES ASSUME Init PROVE IInv
  OBVIOUS
<1>1. Idle \in ClientType /\ Idle.pc = "idle" /\ Idle.commit = {} /\ ~Idle.ok
  BY DEF Idle, Call, ClientType
<1>a. Missing \in FileType /\ Missing.state = "missing" /\ Missing.data = <<>>
  BY DEF FileType, Missing, File
<1>2. TypeOK
  <2>1. client \in [Clients -> ClientType]
    BY <1>1 DEF Init
  <2>2. lock \in BOOLEAN /\ crashes \in Nat /\ failures \in Nat
    BY DEF Init
  <2> QED
    BY <1>a, <2>1, <2>2 DEF Init, TypeOK
<1>3. OneHolder
  BY <1>1 DEF Init, OneHolder, HoldingPc
<1>4. Shapes /\ Settled
  BY <1>a DEF Init, Shapes, Shaped, Settled
<1>5. ASSUME NEW p \in Clients PROVE Knows(client[p])
  BY <1>1, <1>4 DEF Init, Knows, WritingPc, HoldingPc
<1> QED
  BY <1>2, <1>3, <1>4, <1>5 DEF IInv

\* The step changed the call of p and of nobody else.
OnlyClient(p) == /\ client' \in [Clients -> ClientType]
                 /\ \A q \in Clients \ {p} : client'[q] = client[q]

\* What the other clients know after a step of p: either p was in the lock and
\* they are outside of it, or the files were left alone.
LEMMA OthersKnow ==
  ASSUME IInv, NEW p \in Clients, OnlyClient(p), called \subseteq called',
         client[p].pc \in HoldingPc \/ UNCHANGED files
  PROVE  \A q \in Clients \ {p} : Knows(client[q])'
<1> SUFFICES ASSUME NEW q \in Clients, q # p
             PROVE  Knows(client[q])'
  OBVIOUS
<1>1. client'[q] = client[q] /\ client[q] \in ClientType
  BY DEF IInv, TypeOK, OnlyClient
<1>2. CASE client[p].pc \in HoldingPc
  <2>1. client[q].pc \in {"idle", "open"}
    BY <1>1, <1>2 DEF IInv, OneHolder, ClientType
  <2>2. client[q].commit \subseteq called' /\ ~client[q].ok /\ (client[q].pc # "idle" => \E x \in Commits : client[q].commit = {x})
    BY <2>1, <1>1 DEF IInv, Knows, ClientType
  <2> QED
    BY <1>1, <2>1, <2>2 DEF Knows, WritingPc, HoldingPc
<1>3. CASE UNCHANGED files
  BY <1>1, <1>3 DEF IInv, Knows, files, Stored, Settled
<1> QED
  BY <1>2, <1>3

\* The invariant after a step of p, from what the step did.
LEMMA StepKeepsIInv ==
  ASSUME IInv, NEW p \in Clients, OnlyClient(p), called \subseteq called',
         client[p].pc \in HoldingPc \/ UNCHANGED files,
         client'[p].pc \in HoldingPc => lock' /\ (client[p].pc \in HoldingPc \/ ~lock),
         client[p].pc \in HoldingPc \/ (lock => lock'),
         lock' \in BOOLEAN, Shapes', (~lock => Settled)',
         called' \subseteq Commits, acked' \subseteq called',
         crashes' \in Nat, failures' \in Nat,
         Knows(client[p])'
  PROVE  IInv'
<1>1. client' \in [Clients -> ClientType]
  BY DEF OnlyClient
<1>2. TypeOK'
  BY <1>1 DEF TypeOK, Shapes, Shaped
<1>3. \A q \in Clients \ {p} : client'[q] = client[q] /\ Knows(client[q])'
  BY OthersKnow DEF OnlyClient
<1>4. OneHolder'
  BY <1>3 DEF IInv, OneHolder
<1>5. \A q \in Clients : Knows(client[q])'
  BY <1>3
<1> QED
  BY <1>2, <1>4, <1>5 DEF IInv

\* What a change of the program counter alone does.
LEMMA GotoFacts ==
  ASSUME IInv, NEW p \in Clients, NEW pc \in {"idle", "open"} \cup HoldingPc, Goto(p, pc)
  PROVE  /\ OnlyClient(p)
         /\ client'[p].pc = pc /\ client'[p].commit = client[p].commit
         /\ client'[p].data = client[p].data /\ client'[p].ok = client[p].ok
<1>1. client \in [Clients -> ClientType]
  BY DEF IInv, TypeOK
<1> QED
  BY <1>1 DEF Goto, OnlyClient, ClientType

\* A client that fails releases the lock next.
LEMMA DoneFacts ==
  ASSUME IInv, NEW p \in Clients, Done(p, "unlock")
  PROVE  /\ OnlyClient(p)
         /\ client'[p].pc = "unlock" /\ client'[p].ok
         /\ client'[p].commit = client[p].commit
<1>1. client \in [Clients -> ClientType] /\ "unlock" \in HoldingPc
  BY DEF IInv, TypeOK, HoldingPc
<1> QED
  BY <1>1 DEF Done, OnlyClient, ClientType

LEMMA IdleFacts ==
  ASSUME IInv, NEW p \in Clients, client' = [client EXCEPT ![p] = Idle]
  PROVE  /\ OnlyClient(p)
         /\ client'[p].pc = "idle" /\ client'[p].commit = {} /\ ~client'[p].ok
<1>1. client \in [Clients -> ClientType]
  BY DEF IInv, TypeOK
<1>2. Idle \in ClientType /\ Idle.pc = "idle" /\ Idle.commit = {} /\ ~Idle.ok
  BY DEF Idle, Call, ClientType
<1> QED
  BY <1>1, <1>2 DEF OnlyClient

-----------------------------------------------------------------------------
(* One lemma per action: it keeps the invariant, and it is a step of the      *)
(* abstract store or leaves it as it is.                                      *)

Stutter == UNCHANGED <<Stored, acked>>

\* The variables that only calls and faults change keep their types.
Counted == /\ called' \subseteq Commits /\ acked' \subseteq called'
           /\ crashes' \in Nat /\ failures' \in Nat

LEMMA CallKeeps ==
  ASSUME IInv, NEW p \in Clients, NEW x \in Commits, commitTransition(p, x)
  PROVE  IInv' /\ Stutter
<1> DEFINE c == Call("open", {x})
<1>2. c \in ClientType
  BY DEF Call, ClientType
<1>3. c.pc = "open" /\ c.commit = {x} /\ ~c.ok
  BY DEF Call
<1>4. client' = [client EXCEPT ![p] = c] /\ client[p].pc = "idle"
  BY DEF commitTransition
<1> HIDE DEF c
<1>5. OnlyClient(p) /\ client'[p] = c
  BY <1>2, <1>4 DEF IInv, TypeOK, OnlyClient
<1>6. UNCHANGED <<files, lock, acked, faults>> /\ called' = called \cup {x}
  BY DEF commitTransition
<1>7. Knows(client[p])'
  BY <1>3, <1>5, <1>6 DEF Knows, WritingPc, HoldingPc
<1>8. Shapes' /\ (~lock => Settled)' /\ Stutter
  BY <1>6 DEF IInv, Shapes, Shaped, Settled, Stutter, Stored, files
<1>9. lock' \in BOOLEAN /\ Counted
  BY <1>6 DEF IInv, TypeOK, faults, Counted
<1>10. client'[p].pc \notin HoldingPc
  BY <1>3, <1>5 DEF HoldingPc
<1> QED
  BY <1>5, <1>6, <1>7, <1>8, <1>9, <1>10, StepKeepsIInv DEF Counted

\* A client that gives up, or whose process dies, forgets its call.
LEMMA ForgetKeeps ==
  ASSUME IInv, NEW p \in Clients,
         client' = [client EXCEPT ![p] = Idle],
         UNCHANGED <<files, lock, called, acked>>,
         crashes' \in Nat, failures' \in Nat
  PROVE  IInv' /\ Stutter
<1>1. OnlyClient(p) /\ client'[p].pc = "idle" /\ client'[p].commit = {} /\ ~client'[p].ok
  BY IdleFacts
<1>2. Knows(client[p])'
  BY <1>1 DEF Knows, WritingPc, HoldingPc
<1>3. Shapes' /\ (~lock => Settled)' /\ Stutter
  BY DEF IInv, Shapes, Shaped, Settled, Stutter, Stored, files
<1>4. lock' \in BOOLEAN /\ Counted
  BY DEF IInv, TypeOK, Counted
<1>5. client'[p].pc \notin HoldingPc
  BY <1>1 DEF HoldingPc
<1> QED
  BY <1>1, <1>2, <1>3, <1>4, <1>5, StepKeepsIInv DEF Counted

LEMMA OpenLockKeeps ==
  ASSUME IInv, NEW p \in Clients, OpenLock(p)
  PROVE  IInv' /\ Stutter
<1>1. /\ OnlyClient(p)
      /\ client'[p].pc = "read" /\ client'[p].commit = client[p].commit
      /\ client'[p].ok = client[p].ok
  BY GotoFacts DEF OpenLock, HoldingPc
<1>2. UNCHANGED <<files, called, acked, faults>> /\ lock' = TRUE /\ ~lock
  BY DEF OpenLock, LockIsFree
<1>3. client[p].pc = "open" /\ Knows(client[p])
  BY DEF OpenLock, IInv
<1>4. Shapes' /\ (~lock => Settled)' /\ Settled' /\ Stutter
  BY <1>2 DEF IInv, Shapes, Shaped, Settled, Stutter, Stored, files
<1>5. Knows(client[p])'
  BY <1>1, <1>2, <1>3, <1>4 DEF Knows, WritingPc
<1>6. lock' \in BOOLEAN /\ Counted
  BY <1>2 DEF IInv, TypeOK, faults, Counted
<1> QED
  BY <1>1, <1>2, <1>4, <1>5, <1>6, StepKeepsIInv DEF Counted

\* A holder of the lock that stays in it leaves lock, calls and counters alone.
LEMMA InsideKeeps ==
  ASSUME IInv, NEW p \in Clients, OnlyClient(p),
         client[p].pc \in HoldingPc,
         UNCHANGED <<lock, called, acked, faults>>,
         Shapes', Knows(client[p])'
  PROVE  IInv'
<1>1. lock /\ lock' /\ lock' \in BOOLEAN
  BY DEF IInv, OneHolder, TypeOK
<1>2. Counted
  BY DEF IInv, TypeOK, faults, Counted
<1> QED
  BY <1>1, <1>2, StepKeepsIInv DEF Counted

\* The transition of a call that is past its opening, and the content it has
\* prepared.
LEMMA CallFacts ==
  ASSUME IInv, NEW p \in Clients
  PROVE  /\ client[p] \in ClientType /\ Knows(client[p])
         /\ Shapes
         /\ Stored \in Seq(Commits)
  BY StoredType DEF IInv, TypeOK

LEMMA ReadAndApplyKeeps ==
  ASSUME IInv, NEW p \in Clients, ReadAndApply(p)
  PROVE  IInv' /\ Stutter
<1>1. client[p].pc = "read" /\ client[p].pc \in HoldingPc
  BY DEF ReadAndApply, HoldingPc
<1>2. UNCHANGED <<files, lock, called, acked, faults>>
  BY DEF ReadAndApply
<1>3. /\ client[p] \in ClientType /\ Shapes /\ Settled
      /\ ~client[p].ok /\ \E x \in Commits : client[p].commit = {x}
      /\ client[p].commit \subseteq called'
  BY <1>1, <1>2, CallFacts DEF Knows
<1>4. Shapes' /\ Settled' /\ Stutter
  BY <1>2, <1>3 DEF Shapes, Shaped, Settled, Stutter, Stored, files
<1>5. CASE /\ file.state # "partial"
           /\ \E c \in client[p].commit :
                client' = [client EXCEPT ![p].pc = "write",
                                         ![p].data = Append(file.data, c)]
  <2>1. PICK x \in Commits :
          /\ client[p].commit = {x}
          /\ client' = [client EXCEPT ![p].pc = "write",
                                      ![p].data = Append(file.data, x)]
    BY <1>3, <1>5
  <2>2. file.data = Stored /\ Stored \in Seq(Commits)
    BY <1>3, <1>5, StoredType DEF Stored, Settled, Shapes, Shaped, FileType
  <2>3. Append(file.data, x) \in Seq(Commits)
    BY <2>2
  <2>4. /\ OnlyClient(p)
        /\ client'[p].pc = "write" /\ client'[p].commit = client[p].commit
        /\ client'[p].data = Append(file.data, x) /\ client'[p].ok = client[p].ok
    BY <2>1, <2>3 DEF IInv, TypeOK, ClientType, HoldingPc, OnlyClient
  <2>5. Stored' = Stored
    BY <1>4 DEF Stutter
  <2>6. Knows(client[p])'
    BY <1>3, <1>4, <2>1, <2>2, <2>4, <2>5 DEF Knows
  <2> QED
    BY <1>1, <1>2, <1>4, <2>4, <2>6, InsideKeeps
<1>6. CASE Goto(p, "unlock")
  <2>1. /\ OnlyClient(p)
        /\ client'[p].pc = "unlock" /\ client'[p].commit = client[p].commit
        /\ client'[p].ok = client[p].ok
    BY <1>6, GotoFacts DEF HoldingPc
  <2>2. Knows(client[p])'
    BY <1>2, <1>3, <1>4, <2>1 DEF Knows, WritingPc
  <2> QED
    BY <1>1, <1>2, <1>4, <2>1, <2>2, InsideKeeps
<1> QED
  BY <1>5, <1>6 DEF ReadAndApply

LEMMA BeginWriteKeeps ==
  ASSUME IInv, NEW p \in Clients, BeginWrite(p)
  PROVE  IInv' /\ Stutter
<1>1. /\ client[p].pc = "write" /\ client[p].pc \in HoldingPc
      /\ UNCHANGED <<file, backup, lock, called, acked, faults>> /\ temp' = Partial
  BY DEF BeginWrite, HoldingPc
<1>2. /\ OnlyClient(p)
      /\ client'[p].pc = "writing" /\ client'[p].commit = client[p].commit
      /\ client'[p].data = client[p].data /\ client'[p].ok = client[p].ok
  BY GotoFacts DEF BeginWrite, HoldingPc
<1>3. Shaped(Partial)
  BY DEF Shaped, Partial, File, FileType
<1>4. Shapes' /\ Stutter /\ UNCHANGED Settled
  BY <1>1, <1>3, CallFacts DEF Shapes, Shaped, Settled, Stutter, Stored
<1>5. Knows(client[p])'
  BY <1>1, <1>2, <1>4, CallFacts DEF Knows, WritingPc, Stutter, HoldingPc
<1> QED
  BY <1>1, <1>2, <1>4, <1>5, InsideKeeps

LEMMA EndWriteKeeps ==
  ASSUME IInv, NEW p \in Clients, EndWrite(p)
  PROVE  IInv' /\ Stutter
<1>1. /\ client[p].pc = "writing" /\ client[p].pc \in HoldingPc
      /\ UNCHANGED <<file, backup, lock, called, acked, faults>>
      /\ temp' = Whole(client[p].data)
  BY DEF EndWrite, HoldingPc
<1>2. /\ OnlyClient(p)
      /\ client'[p].pc = "replace" /\ client'[p].commit = client[p].commit
      /\ client'[p].data = client[p].data /\ client'[p].ok = client[p].ok
  BY GotoFacts DEF EndWrite, HoldingPc
<1>3. Shaped(temp')
  BY <1>1, CallFacts DEF Shaped, Whole, File, FileType, ClientType
<1>4. Shapes' /\ Stutter /\ UNCHANGED Settled
  BY <1>1, <1>3, CallFacts DEF Shapes, Shaped, Settled, Stutter, Stored
<1>5. Knows(client[p])'
  BY <1>1, <1>2, <1>4, CallFacts DEF Knows, WritingPc, Stutter, HoldingPc
<1> QED
  BY <1>1, <1>2, <1>4, <1>5, InsideKeeps

\* The prepared content becomes what the file holds.
StoresIt(p) == \E x \in Commits : /\ client[p].commit = {x}
                                  /\ Stored' = Append(Stored, x)
                                  /\ \E n \in DOMAIN Stored' : Stored'[n] = x
                                  /\ UNCHANGED acked

LEMMA MovedIn ==
  ASSUME IInv, NEW p \in Clients, client[p].pc \in {"replace", "moveIn"},
         file' = temp, temp' = Missing, UNCHANGED <<backup, acked>>
  PROVE  Shapes' /\ file'.state = "whole" /\ Settled' /\ StoresIt(p)
<1>1. /\ client[p] \in ClientType /\ Knows(client[p]) /\ Shapes
      /\ Stored \in Seq(Commits)
  BY CallFacts
<1>2. temp = Whole(client[p].data)
  BY <1>1 DEF Knows
<1>3. temp.state = "whole" /\ temp.data = client[p].data
  BY <1>2 DEF Whole, File
<1>4. PICK x \in Commits : client[p].commit = {x} /\ client[p].data = Append(Stored, x)
  BY <1>1 DEF Knows, WritingPc
<1>5. Stored' = Append(Stored, x)
  BY <1>3, <1>4 DEF Stored
<1>6. \E n \in DOMAIN Stored' : Stored'[n] = x
  <2>1. Len(Stored) + 1 \in DOMAIN Append(Stored, x)
    BY <1>1
  <2> QED
    BY <1>1, <1>5, <2>1
<1>7. Shaped(Missing) /\ Missing.state = "missing"
  BY DEF Shaped, Missing, File, FileType
<1>8. Shapes' /\ Settled'
  BY <1>1, <1>3, <1>7 DEF Shapes, Shaped, Settled
<1> QED
  BY <1>3, <1>4, <1>5, <1>6, <1>8 DEF StoresIt

LEMMA ReplaceKeeps ==
  ASSUME IInv, NEW p \in Clients, Replace(p)
  PROVE  IInv' /\ (Stutter \/ StoresIt(p))
<1>1. /\ client[p].pc = "replace" /\ client[p].pc \in HoldingPc
      /\ UNCHANGED <<backup, lock, called, acked, faults>>
  BY DEF Replace, HoldingPc
<1>2. CASE file' = temp /\ temp' = Missing /\ Done(p, "unlock")
  <2>1. /\ file' = temp /\ temp' = Missing /\ Done(p, "unlock")
    BY <1>2
  <2>2. /\ OnlyClient(p)
        /\ client'[p].pc = "unlock" /\ client'[p].ok
        /\ client'[p].commit = client[p].commit
    BY <2>1, DoneFacts
  <2>3. Shapes' /\ Settled' /\ StoresIt(p)
    BY <1>1, <2>1, MovedIn
  <2>4. Knows(client[p])'
    BY <1>1, <2>2, <2>3, CallFacts DEF Knows, WritingPc, StoresIt
  <2> QED
    BY <1>1, <2>2, <2>3, <2>4, InsideKeeps
<1>3. CASE /\ file.state # "missing"
           /\ UNCHANGED <<file, temp>> /\ Goto(p, "dropBackup")
  <2>1. UNCHANGED files /\ Goto(p, "dropBackup")
    BY <1>1, <1>3 DEF files
  <2>2. /\ OnlyClient(p)
        /\ client'[p].pc = "dropBackup" /\ client'[p].commit = client[p].commit
        /\ client'[p].data = client[p].data /\ client'[p].ok = client[p].ok
    BY <2>1, GotoFacts DEF HoldingPc
  <2>3. Shapes' /\ Stutter /\ UNCHANGED <<file, temp, backup>>
    BY <1>1, <2>1, CallFacts DEF Shapes, Shaped, Stutter, Stored, files
  <2>4. file.state = "whole"
    BY <1>3, CallFacts DEF Shapes, Shaped, FileType
  <2>5. Knows(client[p])'
    BY <1>1, <2>2, <2>3, <2>4, CallFacts DEF Knows, WritingPc, Stutter, Settled, HoldingPc
  <2> QED
    BY <1>1, <2>2, <2>3, <2>5, InsideKeeps
<1> QED
  BY <1>2, <1>3 DEF Replace

LEMMA DropBackupKeeps ==
  ASSUME IInv, NEW p \in Clients, DropBackup(p)
  PROVE  IInv' /\ Stutter
<1>1. /\ client[p].pc = "dropBackup" /\ client[p].pc \in HoldingPc
      /\ UNCHANGED <<file, temp, lock, called, acked, faults>> /\ backup' = Missing
  BY DEF DropBackup, HoldingPc
<1>2. /\ OnlyClient(p)
      /\ client'[p].pc = "setAside" /\ client'[p].commit = client[p].commit
      /\ client'[p].data = client[p].data /\ client'[p].ok = client[p].ok
  BY GotoFacts DEF DropBackup, HoldingPc
<1>3. Shaped(Missing) /\ Missing.state = "missing"
  BY DEF Shaped, Missing, File, FileType
<1>4. file.state = "whole"
  BY <1>1, CallFacts DEF Knows
<1>5. Shapes' /\ Stutter /\ Settled'
  BY <1>1, <1>3, <1>4, CallFacts DEF Shapes, Shaped, Settled, Stutter, Stored
<1>6. Knows(client[p])'
  BY <1>1, <1>2, <1>3, <1>4, <1>5, CallFacts DEF Knows, WritingPc, Stutter
<1> QED
  BY <1>1, <1>2, <1>5, <1>6, InsideKeeps

LEMMA SetAsideKeeps ==
  ASSUME IInv, NEW p \in Clients, SetAside(p)
  PROVE  IInv' /\ Stutter
<1>1. /\ client[p].pc = "setAside" /\ client[p].pc \in HoldingPc
      /\ UNCHANGED <<temp, lock, called, acked, faults>>
      /\ backup' = file /\ file' = Missing
  BY DEF SetAside, HoldingPc
<1>2. /\ OnlyClient(p)
      /\ client'[p].pc = "moveIn" /\ client'[p].commit = client[p].commit
      /\ client'[p].data = client[p].data /\ client'[p].ok = client[p].ok
  BY GotoFacts DEF SetAside, HoldingPc
<1>3. Shaped(Missing) /\ Missing.state = "missing"
  BY DEF Shaped, Missing, File, FileType
<1>4. file.state = "whole"
  BY <1>1, CallFacts DEF Knows
<1>5. Shapes' /\ Stutter
  BY <1>1, <1>3, <1>4, CallFacts DEF Shapes, Shaped, Stutter, Stored
<1>6. Knows(client[p])'
  BY <1>1, <1>2, <1>3, <1>4, <1>5, CallFacts DEF Knows, WritingPc, Stutter
<1> QED
  BY <1>1, <1>2, <1>5, <1>6, InsideKeeps

LEMMA MoveInKeeps ==
  ASSUME IInv, NEW p \in Clients, MoveIn(p)
  PROVE  IInv' /\ StoresIt(p)
<1>1. /\ client[p].pc = "moveIn" /\ client[p].pc \in HoldingPc
      /\ UNCHANGED <<backup, lock, called, acked, faults>>
      /\ file' = temp /\ temp' = Missing
  BY DEF MoveIn, HoldingPc
<1>2. /\ OnlyClient(p)
      /\ client'[p].pc = "cleanBackup" /\ client'[p].commit = client[p].commit
      /\ client'[p].ok = client[p].ok
  BY GotoFacts DEF MoveIn, HoldingPc
<1>3. Shapes' /\ file'.state = "whole" /\ Settled' /\ StoresIt(p)
  BY <1>1, MovedIn
<1>4. ~client[p].ok /\ client[p].commit \subseteq called'
  BY <1>1, CallFacts DEF Knows, ClientType
<1>5. Knows(client[p])'
  BY <1>2, <1>3, <1>4 DEF Knows, WritingPc, StoresIt
<1> QED
  BY <1>1, <1>2, <1>3, <1>5, InsideKeeps

LEMMA CleanBackupKeeps ==
  ASSUME IInv, NEW p \in Clients, CleanBackup(p)
  PROVE  IInv' /\ Stutter
<1>1. /\ client[p].pc = "cleanBackup" /\ client[p].pc \in HoldingPc
      /\ UNCHANGED <<file, temp, lock, called, acked, faults>> /\ backup' = Missing
  BY DEF CleanBackup, HoldingPc
<1>2. /\ OnlyClient(p)
      /\ client'[p].pc = "unlock" /\ client'[p].ok
      /\ client'[p].commit = client[p].commit
  BY DoneFacts DEF CleanBackup
<1>3. Shaped(Missing) /\ Missing.state = "missing"
  BY DEF Shaped, Missing, File, FileType
<1>4. file.state = "whole"
  BY <1>1, CallFacts DEF Knows
<1>5. Shapes' /\ Stutter /\ Settled'
  BY <1>1, <1>3, <1>4, CallFacts DEF Shapes, Shaped, Settled, Stutter, Stored
<1>6. Knows(client[p])'
  BY <1>1, <1>2, <1>5, CallFacts DEF Knows, WritingPc, Stutter
<1> QED
  BY <1>1, <1>2, <1>5, <1>6, InsideKeeps

LEMMA UnlockKeeps ==
  ASSUME IInv, NEW p \in Clients, Unlock(p)
  PROVE  IInv' /\ (Stutter \/ \E x \in Commits : Abstract!Ack(x))
<1>1. /\ client[p].pc = "unlock" /\ client[p].pc \in HoldingPc
      /\ UNCHANGED <<files, called, faults>> /\ lock' = FALSE
      /\ acked' = IF client[p].ok THEN acked \cup client[p].commit ELSE acked
      /\ client' = [client EXCEPT ![p] = Idle]
  BY DEF Unlock, HoldingPc
<1>2. OnlyClient(p) /\ client'[p].pc = "idle" /\ client'[p].commit = {} /\ ~client'[p].ok
  BY <1>1, IdleFacts
<1>3. /\ Settled /\ Shapes /\ client[p].commit \subseteq called
      /\ \E x \in Commits : client[p].commit = {x}
      /\ client[p].ok => \A x \in client[p].commit : \E n \in DOMAIN Stored : Stored[n] = x
  BY <1>1, CallFacts DEF Knows
<1>4. Shapes' /\ Settled' /\ Stored' = Stored
  BY <1>1, <1>3 DEF Shapes, Shaped, Settled, Stored, files
<1>5. Knows(client[p])'
  BY <1>2 DEF Knows, WritingPc, HoldingPc
<1>6. Counted /\ lock' \in BOOLEAN
  BY <1>1, <1>3 DEF IInv, TypeOK, faults, Counted
<1>7. client'[p].pc \notin HoldingPc
  BY <1>2 DEF HoldingPc
<1>8. IInv'
  BY <1>1, <1>2, <1>4, <1>5, <1>6, <1>7, StepKeepsIInv DEF Counted
<1>9. Stutter \/ \E x \in Commits : Abstract!Ack(x)
  BY <1>1, <1>3, <1>4 DEF Stutter, Abstract!Ack
<1> QED
  BY <1>8, <1>9

LEMMA OperationFailsKeeps ==
  ASSUME IInv, NEW p \in Clients, OperationFails(p)
  PROVE  IInv' /\ Stutter
<1>1. /\ client[p].pc \in HoldingPc \ {"unlock"}
      /\ UNCHANGED <<lock, called, acked, crashes>>
      /\ failures' = failures + 1
  BY DEF OperationFails
<1>2. /\ OnlyClient(p)
      /\ client'[p].pc = "unlock" /\ client'[p].commit = client[p].commit
      /\ client'[p].ok = client[p].ok
  BY GotoFacts DEF OperationFails, HoldingPc
<1>3. /\ Shapes /\ ~client[p].ok /\ client[p].commit \subseteq called'
      /\ \E x \in Commits : client[p].commit = {x}
  BY <1>1, CallFacts DEF Knows, HoldingPc
<1>4. Shaped(Missing) /\ Missing.state = "missing"
  BY DEF Shaped, Missing, File, FileType
<1>5. Shapes' /\ Settled' /\ Stored' = Stored
  <2>1. CASE client[p].pc \in {"setAside", "moveIn"}
    <3>1. /\ temp' = Missing /\ backup' = Missing
          /\ file' = IF backup.state = "missing" THEN file ELSE backup
      BY <2>1 DEF OperationFails, RestoreBackup
    <3>2. /\ client[p].pc = "setAside" => file.state = "whole" /\ backup.state = "missing"
          /\ client[p].pc = "moveIn" => file.state = "missing" /\ backup.state = "whole"
      BY CallFacts DEF Knows
    <3> QED
      BY <1>3, <1>4, <2>1, <3>1, <3>2 DEF Shapes, Shaped, Settled, Stored
  <2>2. CASE client[p].pc \notin {"setAside", "moveIn"}
    <3>1. UNCHANGED files
      BY <2>2 DEF OperationFails
    <3>2. Settled
      BY <1>1, <2>2, CallFacts DEF Knows
    <3> QED
      BY <1>3, <3>1, <3>2 DEF Shapes, Shaped, Settled, Stored, files
  <2> QED
    BY <2>1, <2>2
<1>6. Knows(client[p])'
  BY <1>2, <1>3, <1>5 DEF Knows, WritingPc
<1>7. lock' \in BOOLEAN /\ Counted /\ lock /\ lock'
  BY <1>1 DEF IInv, TypeOK, OneHolder, Counted
<1>8. Stutter
  BY <1>1, <1>5 DEF Stutter
<1> QED
  BY <1>1, <1>2, <1>5, <1>6, <1>7, <1>8, StepKeepsIInv DEF Counted

-----------------------------------------------------------------------------
(* The theorems *)

\* Every step keeps the invariant and is a step of the abstract store.
LEMMA NextKeeps ==
  ASSUME IInv, [Next]_vars
  PROVE  IInv' /\ [Abstract!Next]_<<Stored, acked>>
<1>1. CASE UNCHANGED vars
  <2>1. UNCHANGED <<file, temp, backup, lock, client, called, acked, crashes, failures>>
    BY <1>1 DEF vars
  <2> QED
    BY <2>1 DEF IInv, TypeOK, OneHolder, Shapes, Shaped, Settled, Stored, Knows
<1>2. ASSUME NEW p \in Clients, NEW c \in Commits, commitTransition(p, c)
      PROVE  IInv' /\ Stutter
  BY <1>2, CallKeeps
<1>3. ASSUME NEW p \in Clients, TimeOut(p) \/ Crash(p)
      PROVE  IInv' /\ Stutter
  <2>1. /\ client' = [client EXCEPT ![p] = Idle]
        /\ UNCHANGED <<files, lock, called, acked>>
        /\ crashes' \in Nat /\ failures' \in Nat
    BY <1>3 DEF TimeOut, Crash, IInv, TypeOK, faults
  <2> QED
    BY <2>1, ForgetKeeps
<1>4. ASSUME NEW p \in Clients, OperationFails(p)
      PROVE  IInv' /\ Stutter
  BY <1>4, OperationFailsKeeps
<1>5. ASSUME NEW p \in Clients, StoresIt(p)
      PROVE  Abstract!Next
  BY <1>5 DEF StoresIt, Abstract!Next, Abstract!Store
<1>6. ASSUME NEW p \in Clients, Step(p)
      PROVE  IInv' /\ [Abstract!Next]_<<Stored, acked>>
  <2>1. CASE OpenLock(p)
    BY <2>1, OpenLockKeeps DEF Stutter
  <2>2. CASE ReadAndApply(p)
    BY <2>2, ReadAndApplyKeeps DEF Stutter
  <2>3. CASE BeginWrite(p)
    BY <2>3, BeginWriteKeeps DEF Stutter
  <2>4. CASE EndWrite(p)
    BY <2>4, EndWriteKeeps DEF Stutter
  <2>5. CASE Replace(p)
    BY <2>5, <1>5, ReplaceKeeps DEF Stutter
  <2>6. CASE DropBackup(p)
    BY <2>6, DropBackupKeeps DEF Stutter
  <2>7. CASE SetAside(p)
    BY <2>7, SetAsideKeeps DEF Stutter
  <2>8. CASE MoveIn(p)
    BY <2>8, <1>5, MoveInKeeps
  <2>9. CASE CleanBackup(p)
    BY <2>9, CleanBackupKeeps DEF Stutter
  <2>10. CASE Unlock(p)
    BY <2>10, UnlockKeeps DEF Stutter, Abstract!Next
  <2> QED
    BY <1>6, <2>1, <2>2, <2>3, <2>4, <2>5, <2>6, <2>7, <2>8, <2>9, <2>10 DEF Step
<1> QED
  BY <1>1, <1>2, <1>3, <1>4, <1>6 DEF Next, Stutter

\* The invariant holds in every reachable state.
LEMMA Invariant == Spec => []IInv
<1>1. IInv /\ [Next]_vars => IInv'
  BY NextKeeps
<1> QED
  BY <1>1, InitIInv, PTL DEF Spec

\* Every variable keeps its type, and no reader ever finds half a file
\* (temp file and rename in withMutablePersistence).
THEOREM TypeCorrect == Spec => []TypeOK
<1>1. IInv => TypeOK
  BY DEF IInv
<1> QED
  BY <1>1, Invariant, PTL

\* withFileLock lets one client in at a time.
THEOREM LockIsExclusive == Spec => []OneHolder
<1>1. IInv => OneHolder
  BY DEF IInv
<1> QED
  BY <1>1, Invariant, PTL

\* Outside of a write a reader that takes no lock finds what is stored: no
\* write that failed leaves the file set aside.
THEOREM StoredIsReadable == Spec => []ReadersSeeStored
<1>1. IInv => ReadersSeeStored
  BY DEF IInv, Settled, Shapes, ReadersSeeStored, Stored
<1> QED
  BY <1>1, Invariant, PTL

\* The file store implements the abstract one: transitions are stored one
\* after the other, none is lost, and what was reported as done is stored,
\* for any number of clients, crashes and failing operations.
THEOREM FileStoreIsAtomic == Spec => ImplementsAtomicStore
<1>1. Init => Abstract!Init
  BY DEF Init, Abstract!Init, Stored, Missing, File
<1>2. IInv /\ [Next]_vars => [Abstract!Next]_<<Stored, acked>>
  BY NextKeeps
<1> QED
  BY <1>1, <1>2, Invariant, PTL DEF Spec, ImplementsAtomicStore, Abstract!Spec

=============================================================================
