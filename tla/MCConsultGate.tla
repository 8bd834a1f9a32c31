---------------------------- MODULE MCConsultGate ----------------------------
(* ConsultGate for a main thread "m" and a subagent "s", a file "f" that   *)
(* the gotchas are about, and a symbolic link "l" to it that a mandate     *)
(* asks to consult.                                                        *)
EXTENDS ConsultGate, TLC

MCScopeOf == [t \in Agents |-> IF t = "s" THEN "s" ELSE Main]
MCAffects == [g \in Gotchas |-> {"f"}]
MCTarget  == [f \in Files |-> "f"]
MCSymmetry == Permutations(Gotchas)

\* Two calls against one change, or one call, with what it is denied and tries
\* again, against two.
MCBudget == calls + changes <= 3

\* All that a step or the gate depends on: what a receipt covers is history.
MCView ==
    <<gotcha, tier, flushed, pc, owed, bounds,
      [s \in Scopes |-> [f \in Files |-> <<receipt[s][f].held, receipt[s][f].recent>>]],
      [t \in DOMAIN op |-> [op[t] EXCEPT !.covers = {}]]>>
=============================================================================
