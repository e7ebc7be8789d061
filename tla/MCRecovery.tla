----------------------------- MODULE MCRecovery -----------------------------
(***************************************************************************)
(* Instances of Recovery for TLC.                                          *)
(***************************************************************************)
EXTENDS Recovery, TLC

\* Nobody prefers one password, mail or request slot to another.
Symmetry == Permutations(Passwords) \cup Permutations(Mails) \cup Permutations(Requests)

=============================================================================
