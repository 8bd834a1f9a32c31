----------------------------- MODULE MCKnowledge -----------------------------
(* The machines that build and age the knowledge base, each alone in its store's *)
(* process: init, the schema migration of an open, the derived graph values,     *)
(* record staleness, the evidence of enforcement, the reports and their caches,   *)
(* and the commands that edit it by either route. A                               *)
(* behaviour runs one of them, of Parts; the others keep one state.               *)
EXTENDS ProjectInit, SchemaMigration, DerivedGraph, RecordHealth, Evidence, Reports,
        ClientRoutes

CONSTANT Parts    \* the machines of a run

VARIABLE part

MCLinesOf == <<10, 12>>
MCImportsOf == <<{}, {2}>>
MCManualFiles == [m \in Manual |-> {1}]
MCCommits == {[files |-> {1, 2}, revert |-> FALSE, author |-> "x"],
              [files |-> {1}, revert |-> TRUE, author |-> "y"]}
\* A chain; the edges to come close a cycle and a shortcut.
MCFirstEdges == {<<2, 1>>, <<3, 2>>, <<4, 3>>}
MCMoreEdges == {<<1, 4>>, <<4, 2>>}
MCPairs == {<<1, 2>>, <<3, 4>>, <<2, 3>>, <<1, 4>>, <<1, 3>>}
MCNotes == [n \in {11} |-> {1}]
MCDiffs == {[signals |-> 1, weight |-> 500], [signals |-> 3, weight |-> 5500]}

FileRec(purpose, hot, keys, tier, inherited) ==
    [st |-> "active", purpose |-> purpose, hot |-> hot, keys |-> keys, tier |-> tier, prop |-> inherited,
     reads |-> 0, entries |-> FALSE, freq |-> 4]
MCBases ==
    {[file |-> 1 :> FileRec(FALSE, FALSE, {}, 0, 2) @@ 2 :> FileRec(FALSE, TRUE, {11}, 1, 0),
      gotcha |-> 11 :> [st |-> "active", tier |-> 1, confirmed |-> "none", files |-> {2}],
      decision |-> 21 :> [st |-> "absent", tier |-> 0, linked |-> FALSE, born |-> 0]],
     [file |-> 1 :> FileRec(TRUE, TRUE, {}, 0, 0) @@ 2 :> FileRec(FALSE, TRUE, {}, 0, 0),
      gotcha |-> 11 :> [st |-> "active", tier |-> 0, confirmed |-> "no", files |-> {}],
      decision |-> 21 :> [st |-> "active", tier |-> 1, linked |-> FALSE, born |-> 0]]}
MCFanIn == 1 :> 5
Asked == {"status", "stats", "stale", "gaps", "ls"}

MCSlugOf == "a1" :> "a" @@ "s1" :> "s" @@ "s2" :> "s"
MCKindOf == [k \in GKeys |-> IF k[1] = "a" THEN "ownership" ELSE "other"]
MCDirOf == "p" :> "d" @@ "q" :> "d"
\* A candidate of init and a gotcha an agent extracted, both for one file.
MCStart ==
    LET Draft(rule, source) == [Absent EXCEPT !.st = "active", !.rule = rule, !.files = {"p"}, !.source = source]
        auto == <<"a", 1>> found == <<"s", 1>> IN
    [gotcha |-> [k \in GKeys |-> IF k = auto THEN Draft("a1", "auto")
                                 ELSE IF k = found THEN [Draft("s1", "enrich") EXCEPT !.enriched = TRUE]
                                 ELSE Absent],
     links |-> "p" :> {auto, found} @@ "q" :> {}, known |-> {"p"}, bumps |-> [p \in Paths |-> 0],
     edges |-> {<<"p", auto>>, <<"p", found>>}, exemplars |-> {}, receipts |-> {},
     outcome |-> [k \in GKeys |-> IF k = found THEN "pending" ELSE "none"]]
MCStarts == {MCStart}

MCInit ==
    /\ part \in Parts
    /\ PiInit /\ SmInit /\ GraphInit /\ ClusterInit /\ RhInit /\ EvInit /\ ReportsInit /\ CrInit
    /\ commands = IF part = "routes" THEN 0 ELSE MaxCommands - 1
    /\ part \notin Asked => gotcha[11].st = "active" /\ gotcha[11].tier = 1
    /\ part # "migration" => db.version = Current /\ StoreIsEmpty
    /\ imports = IF part = "graph" THEN FirstEdges ELSE {}
    /\ part # "evidence" => stored = {}
    /\ edgeKey \in IF part = "keys" THEN {{e} : e \in Edges} ELSE {{}}

MCNext ==
    /\ UNCHANGED <<part, edgeKey>>
    /\ \/ /\ part = "init" /\ PiNext
          /\ UNCHANGED <<smVars, graphVars, clusterVars, rhVars, evVars, reportVars, crVars>>
       \/ /\ part = "migration" /\ SmNext
          /\ UNCHANGED <<initVars, graphVars, clusterVars, rhVars, evVars, reportVars, crVars>>
       \/ /\ part = "graph" /\ GraphNext
          /\ UNCHANGED <<initVars, smVars, clusterVars, rhVars, evVars, reportVars, crVars>>
       \/ /\ part = "clusters" /\ ClusterNext
          /\ UNCHANGED <<initVars, smVars, graphVars, rhVars, evVars, reportVars, crVars>>
       \/ /\ part = "health" /\ RhNext
          /\ UNCHANGED <<initVars, smVars, graphVars, clusterVars, evVars, reportVars, crVars>>
       \/ /\ part = "evidence" /\ EvNext
          /\ UNCHANGED <<initVars, smVars, graphVars, clusterVars, rhVars, reportVars, crVars>>
       \/ /\ part \in Asked /\ ReportsNext({part})
          /\ UNCHANGED <<initVars, smVars, graphVars, clusterVars, rhVars, evVars, crVars>>
       \/ /\ part \in {"routes", "review"} /\ CrNext(part = "review")
          /\ UNCHANGED <<initVars, smVars, graphVars, clusterVars, rhVars, evVars, reportVars>>
=============================================================================
