-------------------------- MODULE MCEnforcementLog --------------------------
(* EnforcementLog on small sets of processes and request tasks.            *)
EXTENDS EnforcementLog, TLC

\* Processes and tasks are interchangeable (used by safety runs only).
Symmetry == Permutations(Procs) \cup Permutations(Tasks)
=============================================================================
