---------------------------- MODULE MCEcdsStreams ----------------------------
(***************************************************************************)
(* EcdsStreams for TLC.                                                     *)
(***************************************************************************)
EXTENDS EcdsStreams, TLC

MCProxies == Engines \X Nodes

Symmetry == UNION {Permutations(S) : S \in {Engines, UIDs, Nodes, Streams, Versions}}

Bound(publish, withdraw, lose, reject) ==
    [engines |-> Engines, versions |-> Versions, withdraws |-> withdraw > 0, publish |-> publish,
     withdraw |-> withdraw, lose |-> lose, reject |-> reject]

\* One Engine that is published twice and withdrawn, and two Engines between
\* which a stream switches.
WithdrawnOrSwitched ==
    LET one(S) == {CHOOSE x \in S : TRUE}
    IN  {[Bound(2, 1, 1, 1) EXCEPT !.engines = one(@)], [Bound(2, 0, 1, 1) EXCEPT !.versions = one(@)]}

PublishedTwice == {Bound(2, 0, 1, 1)}
Rejected == {Bound(1, 0, 1, 2)}
Withdrawn == {Bound(2, 1, 1, 1)}
RejectedTwice == {Bound(2, 0, 0, 2)}
=============================================================================
