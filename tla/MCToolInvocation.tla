-------------------------- MODULE MCToolInvocation --------------------------
EXTENDS ToolInvocation

CONSTANTS c1, c2, p1, p2

\* The migrations of earlier releases: 0016 was there before 0017, which comes
\* before it in the list.
AppliedBefore(s) == CASE s = "blockers"        -> {}
                      [] s = "acknowledgments" -> 1 .. 15
                      [] s = "signoffs"        -> 1 .. 16
                      [] OTHER                 -> 1 .. 3

\* One store is explored with two tasks at a time, from a new database; the
\* others, which repeat it, with one, from the database of an earlier release.
MCSetups ==
  {[driver |-> d, store |-> s, tasks |-> IF s = "blockers" THEN 2 ELSE 1,
    applied |-> AppliedBefore(s)] :
     d \in Drivers, s \in CatalogStores}

\* Both callers in one process (inline), or in two (an operator, a worker).
MCHomes == {[c \in {c1, c2} |-> p1], [c \in {c1, c2} |-> IF c = c1 THEN p1 ELSE p2]}
=============================================================================
