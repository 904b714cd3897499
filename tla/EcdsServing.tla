---------------------------- MODULE EcdsServing ----------------------------
(***************************************************************************)
(* What the publication side of the operator promises, without how it does *)
(* it.  The leader decides, Engine by Engine, which configuration is       *)
(* accepted; every decision is appended to that Engine's log.  A replica   *)
(* serves, for each Engine, one of those decisions.  It may skip decisions *)
(* and it may lag, but it only moves forward, and it never serves what was *)
(* never accepted.  A replica that restarts has lost what it served and    *)
(* starts again from nothing.                                              *)
(***************************************************************************)
EXTENDS Naturals, Sequences

CONSTANTS Engines,   \* the Engines
          Replicas,  \* the replicas of the operator
          Versions,  \* the versions of a rendered configuration
          None       \* "no configuration"

VARIABLES log,     \* log[e]: the decisions of the leader on Engine e, oldest first
          pos,     \* pos[r][e]: the decision replica r has adopted
          served   \* served[r][e]: the version replica r serves for Engine e

vars == <<log, pos, served>>

\* Before the first decision an Engine has no configuration, which is
\* decision 1 of its log.  Replicas start after any number of decisions.
Init == /\ \A e \in Engines : log[e] # <<>> /\ log[e][1] = None
        /\ pos = [r \in Replicas |-> [e \in Engines |-> 1]]
        /\ served = [r \in Replicas |-> [e \in Engines |-> None]]

\* The leader accepts version v for Engine e, or withdraws its configuration.
Accept(e, v) == /\ log' = [log EXCEPT ![e] = Append(@, v)]
                /\ UNCHANGED <<pos, served>>

\* Replica r adopts a later decision on Engine e.
Adopt(r, e, i) == /\ i > pos[r][e]
                  /\ pos' = [pos EXCEPT ![r][e] = i]
                  /\ served' = [served EXCEPT ![r][e] = log[e][i]]
                  /\ UNCHANGED log

Restart(r) == /\ pos' = [pos EXCEPT ![r] = [e \in Engines |-> 1]]
              /\ served' = [served EXCEPT ![r] = [e \in Engines |-> None]]
              /\ UNCHANGED log

Next == \/ \E e \in Engines, v \in Versions \cup {None} : Accept(e, v)
        \/ \E r \in Replicas, e \in Engines : \E i \in 1..Len(log[e]) : Adopt(r, e, i)
        \/ \E r \in Replicas : Restart(r)

Spec == Init /\ [][Next]_vars

=============================================================================
