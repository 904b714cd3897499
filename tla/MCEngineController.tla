------------------------- MODULE MCEngineController -------------------------
(***************************************************************************)
(* Scenarios for the Engine controller.  Each starts with part of the      *)
(* bounds used up, so that their state spaces add instead of multiplying.  *)
(***************************************************************************)
EXTENDS EngineController

CONSTANTS c1, big

\* One Engine that has the Gateway to itself; another was deleted before.
Single(obj) == [e \in Engines |-> IF e = 1 THEN obj ELSE [Absent EXCEPT !.born = 1]]

Start(objs, c, used, failed) == [eng |-> objs, content |-> c, changes |-> used, faults |-> failed]

Scenarios ==
  \* a new fail-open Engine and one change
  {Start(Single(Created(0, "allow", FALSE)), c1, 1, 1)}
  \* a new observed Engine and one failed call or restart
  \cup {Start(Single(Created(0, "allow", TRUE)), c, 2, 0) : c \in Contents}
  \* a provisioned Engine and two changes
  \cup {Start(Single(Provision(c1, "fail", FALSE)), c1, 0, 1)}
  \* a provisioned and observed Engine, one change and one fault
  \cup {Start(Single(Provision(c1, p, TRUE)), c1, 1, 0) : p \in Policies}
  \* a younger Engine appears beside a provisioned one, and one change
  \cup {Start([e \in Engines |-> IF e = 1 THEN Provision(c1, "allow", FALSE)
                                 ELSE Created(1, "fail", FALSE)], c1, 1, 1)}
=============================================================================
