---------------------------- MODULE MCAgentConfig ----------------------------
(* What mati gives the agent hosts: the files it installs, the sandbox's protection *)
(* rules, the context it answers their requests with and the scan of the source that *)
(* context starts from. They read nothing of each other, so a behaviour takes the    *)
(* steps of one of them (part) while the others stay in one state.                   *)
EXTENDS Scaffold, SandboxFloor, AgentContext, ScanWorlds
CONSTANT Parts
VARIABLE part
MCEvents == [claude |-> [pre_read |-> "PreToolUse", stop |-> "Stop"],
             codex  |-> [pre_bash |-> "PreToolUse"]]
MCFileSets == {{"a", "out"}, {"a", "b"}}

Good == [verb |-> TRUE, cause |-> TRUE, vague |-> FALSE, len |-> 60, hits |-> 2, cost |-> 2]
Poor == [verb |-> FALSE, cause |-> FALSE, vague |-> FALSE, len |-> 100, hits |-> 4, cost |-> 3]
Bare == [verb |-> TRUE, cause |-> FALSE, vague |-> TRUE, len |-> 25, hits |-> 0, cost |-> 1]
MCTexts == {Good, Poor, Bare}
Rule(text, conf, auto, files) ==
  LET r == [life |-> "active", stale |-> "fresh", text |-> text, prio |-> 2, ref |-> FALSE, source |-> IF conf THEN "dev" ELSE "static",
            confirmed |-> conf, auto |-> auto, files |-> files, quality |-> 0] IN [r EXCEPT !.quality = IF auto THEN 50000 ELSE Quality(r)]
Source(life, keys, purpose, blast, reads) == [life |-> life, stale |-> "fresh", keys |-> keys, purpose |-> purpose, blast |-> blast, reads |-> reads]
MCCtxBases == {[lore |-> [k \in Lore |-> CASE k = "g1" -> Rule(Good, TRUE, FALSE, {"f1"}) [] k = "g2" -> Rule(Poor, FALSE, FALSE, {"f2"})
                                   [] k = "c" -> Rule(Bare, FALSE, TRUE, {"f1"})],
             tree |-> [f \in CtxFiles |-> IF f = "f1" THEN Source("active", {"g1", "c"}, 2, 3, 0) ELSE Source("active", {"g2"}, 0, 0, 3)],
             plan |-> [d \in CtxDecisions |-> [life |-> IF d = "d2" THEN "dead" ELSE "active", conf |-> IF d = "d1" THEN 80 ELSE 60, cost |-> 1]],
             web |-> {<<"f1", "imports", "f2">>, <<"f2", "affected_by", "d2">>, <<"f1", "has_gotcha", "g1">>, <<"f2", "has_gotcha", "g2">>}]}
Flags == {<<>>, <<FALSE, TRUE>>, <<TRUE, TRUE, TRUE>>}
MCHoods == [1 .. 5 -> Flags]
Hit == [active : BOOLEAN, match : BOOLEAN, told : BOOLEAN]
MCScans == {<<a, b, c>> : a, b, c \in Hit}
MCCaps == <<3, 2, 2, 1, 1>>

MCInit == /\ part \in Parts
          /\ ScInit /\ (part # "installer" => dirs = {})
          /\ SbInit /\ (part # "sandbox" =>
                 gotchas = [g \in Gotchas |-> CHOOSE r \in GotchaSel : r.live /\ r.confirmed /\ r.tags = {}] /\ ~daemon)
          /\ AcInit
          /\ SsInit /\ (part # "scan" => world = "nothing")
MCNext == /\ UNCHANGED part
          /\ \/ part = "installer" /\ ScNext /\ UNCHANGED <<sbVars, acVars, ssVars>>
             \/ part = "sandbox" /\ SbNext /\ UNCHANGED <<scVars, acVars, ssVars>>
             \/ part \in {"context", "query"} /\ AcNext(part = "query") /\ UNCHANGED <<scVars, sbVars, ssVars>>
             \/ part = "scan" /\ SsNext /\ UNCHANGED <<scVars, sbVars, acVars>>
=============================================================================
