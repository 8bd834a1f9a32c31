----------------------------- MODULE MCStoreSync -----------------------------
(* StoreSync on two searchable keys of two namespaces and one file without a *)
(* grammar; the tokens of k1 contain those of k2.                            *)
EXTENDS StoreSync, TLC
CONSTANTS k1, k2, k3
MCKeys == {k1, k2, k3}
MCTouched == (k1 :> {k1}) @@ (k2 :> {k1, k2}) @@ (k3 :> {k3})
MCNamespaces == <<{k1}, {k2, k3}>>
Symmetry == Permutations(Writers)
=============================================================================
