---------------------------- MODULE AtomicStore ----------------------------
(***************************************************************************)
(* What a runtime store promises its callers: the transitions committed    *)
(* are applied one after the other to all that was stored before them, a   *)
(* commit that was reported as done is stored, and nothing is ever lost.   *)
(***************************************************************************)
EXTENDS Sequences

CONSTANT Commits   \* the transitions that may be committed

VARIABLES stored,  \* the transitions the store holds, in order
          acked    \* those whose commitTransition returned

Init == stored = <<>> /\ acked = {}

Store(c) == stored' = Append(stored, c) /\ UNCHANGED acked

Ack(c) == /\ \E n \in DOMAIN stored : stored[n] = c
          /\ acked' = acked \cup {c}
          /\ UNCHANGED stored

Next == \E c \in Commits : Store(c) \/ Ack(c)

Spec == Init /\ [][Next]_<<stored, acked>>
=============================================================================
