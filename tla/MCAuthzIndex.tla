----------------------------- MODULE MCAuthzIndex -----------------------------
(***************************************************************************)
(* AuthzIndex for TLC.                                                      *)
(***************************************************************************)
EXTENDS AuthzIndex, TLC

Symmetry == Permutations(Identities) \cup Permutations(Sessions)

=============================================================================
