----------------------------- MODULE MCDispatch -----------------------------
(* Two connections, every command that touches the store, one read of each  *)
(* kind that does not.                                                      *)
EXTENDS Dispatch, TLC

MCCmds == SideEffectingReads \cup SessionSide \cup KnowledgeMutations \cup Compound
          \cup {"get", "config_set"}
Symmetry == Permutations(Conns)
=============================================================================
