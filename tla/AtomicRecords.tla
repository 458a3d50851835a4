--------------------------- MODULE AtomicRecords ---------------------------
(***************************************************************************)
(* What a record store of the audit catalog promises its callers: a call   *)
(* takes effect at most once and at one moment between its start and its   *)
(* end, it changes its own record and no other, and a call that returned   *)
(* has taken effect.  A call that throws may or may not have.              *)
(***************************************************************************)
CONSTANT Callers

VARIABLES records,   \* records[s][k] : what store s holds under key k
          asked,     \* asked[c] : the call of c, [state, store, op, key, val]
          volatile   \* the stores live in the memory of the process

Holding(r, k, v) == [x \in DOMAIN r \cup {k} |-> IF x = k THEN v ELSE r[x]]
Without(r, k)    == [x \in DOMAIN r \ {k} |-> r[x]]

Goes(c, from, to) == /\ asked[c].state = from
                     /\ asked' = [asked EXCEPT ![c].state = to]

Begins(c) == /\ asked[c].state = "idle"
             /\ asked'[c].state = "pending"
             /\ \A d \in Callers \ {c} : asked'[d] = asked[d]
             /\ UNCHANGED records

Effect(a) ==
  LET r == records[a.store] IN
  CASE a.op = "save"   -> records' = [records EXCEPT ![a.store] = Holding(r, a.key, a.val)]
    [] a.op = "delete" -> records' = [records EXCEPT ![a.store] = Without(r, a.key)]
    [] OTHER           -> UNCHANGED records

Applies(c) == \E to \in {"applied", "returned", "threw"} :
                 Goes(c, "pending", to) /\ Effect(asked[c])

Answers(c) == /\ \/ Goes(c, "applied", "returned")
                 \/ Goes(c, "applied", "threw")
                 \/ Goes(c, "pending", "threw")
              /\ UNCHANGED records

\* The answer is taken; the caller may go on to its next call.
Ends(c) == /\ asked[c].state \in {"returned", "threw"}
           /\ asked'[c].state \in {"idle", "pending"}
           /\ \A d \in Callers \ {c} : asked'[d] = asked[d]
           /\ UNCHANGED records

\* A process dies: its calls are gone, and what it kept in memory.
Dies == /\ \A c \in Callers : asked'[c] = asked[c] \/ asked'[c].state = "idle"
        /\ \/ UNCHANGED records
           \/ volatile /\ records' = [s \in DOMAIN records |-> <<>>]

Init == \A c \in Callers : asked[c].state = "idle"

Next == /\ UNCHANGED volatile
        /\ \/ \E c \in Callers : Begins(c) \/ Applies(c) \/ Answers(c) \/ Ends(c)
           \/ Dies

Spec == Init /\ [][Next]_<<records, asked, volatile>>
=============================================================================
