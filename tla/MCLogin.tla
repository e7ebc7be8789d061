------------------------------ MODULE MCLogin ------------------------------
(***************************************************************************)
(* Instances of Login for TLC.                                             *)
(***************************************************************************)
EXTENDS Login, TLC

\* No step reads mfa_misses: a run that does not check MfaTriesBounded need not
\* tell states apart by it.
View == <<user, codes, req, mfa_until, secrets, now, misses, uncounted, proven, uses, faults,
          slips>>

\* Request slots are interchangeable, and so are secrets.
Symmetry == Permutations(Requests) \cup Permutations(Secrets)

=============================================================================
