----------------------------- MODULE MCSessions -----------------------------
(***************************************************************************)
(* Instances of Sessions for TLC.                                          *)
(***************************************************************************)
EXTENDS Sessions, TLC

\* A tenant without projects.
NoProjects == << >>

\* Token hashes and request slots are interchangeable.
Symmetry == Permutations(Tokens) \cup Permutations(Requests)

=============================================================================
