----------------------------- MODULE MCGotchaOps -----------------------------
(* GotchaOps on small sets of gotchas and files.                           *)
EXTENDS GotchaOps, TLC

\* Gotchas and files are interchangeable: op.key is chosen arbitrarily in Init
\* but is not read before a command sets it.
Symmetry == Permutations(Files)
=============================================================================
