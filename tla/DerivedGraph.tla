---------------------------- MODULE DerivedGraph -----------------------------
(* What is computed from the graph and the co-change pairs and stored on file    *)
(* records: blast radius (analysis/blast_radius.rs), inherited staleness         *)
(* (analysis/propagation.rs), clusters (analysis/clusters.rs), by init, repair   *)
(* and the edit hook; and the store keys of edges (graph/edges.rs).              *)
(* Scores are integers in hundredths; the order of f32 products is theirs.       *)
EXTENDS Naturals, Sequences, FiniteSets, FiniteSetsExt

CONSTANTS Units,        \* files, naturals in path order
          FirstEdges,   \* import edges init may have found
          MoreEdges,    \* import edges that may be added later
          Levels,       \* staleness values that occur
          Pairs,        \* strong co-change pairs <<a, b>>, a < b
          TransitiveDepth, StaleThreshold, TombstoneThreshold,
          Namespaces, EdgeKinds, Slugs,
          MaxChanged,   \* bound on changed
          MaxFailed     \* bound on failed

VARIABLES imports,    \* Imports edges <<importer, imported>>
          level,      \* staleness.value
          blast,      \* blast_radius of each record
          prop,       \* propagated_staleness of each record
          exact,      \* history: nothing changed since all propagated values were written
          by,         \* history: who computed blast since the edges last changed, on
                      \* which graph; "none" when nobody did
          changed,    \* number of changes to levels, edges and files
          failed,     \* number of scans, gets and puts that failed
          parent, rank, joined,     \* ClusterIndex::compute
          edgeKey                   \* an edge key to read back

graphVars == <<imports, level, blast, prop, exact, by, changed, failed>>
clusterVars == <<parent, rank, joined>>
dgVars == <<imports, level, blast, prop, exact, by, changed, failed, parent, rank, joined,
            edgeKey>>

-----------------------------------------------------------------------------
(* Traversal and blast radius.                                                  *)

NeighborsIncoming(g, f) == {x \in Units : <<x, f>> \in g} \ {f}
Neighbors(g, f) == {x \in Units : <<f, x>> \in g} \ {f}

\* Mutant: stops one level early.
TraverseIncomingNear(g, seed, depth) ==
    LET bfs[d \in 0..depth] ==
            IF d = 0 THEN [seen |-> {seed}, ring |-> {seed}]
            ELSE LET next == (UNION {NeighborsIncoming(g, x) : x \in bfs[d - 1].ring}) \ bfs[d - 1].seen
                 IN [seen |-> bfs[d - 1].seen \cup next, ring |-> next]
    IN bfs[depth - 1].seen \ {seed}
\* Breadth first from the seed, which is visited from the start.
TraverseIncoming(g, seed, depth) ==
    LET bfs[d \in 0..depth] ==
            IF d = 0 THEN [seen |-> {seed}, ring |-> {seed}]
            ELSE LET next == (UNION {NeighborsIncoming(g, x) : x \in bfs[d - 1].ring}) \ bfs[d - 1].seen
                 IN [seen |-> bfs[d - 1].seen \cup next, ring |-> next]
    IN bfs[depth].seen \ {seed}

Radius(direct, all) == [direct |-> Cardinality(direct), transitive |-> Cardinality(all \ direct)]
Compute(g, f) == Radius(NeighborsIncoming(g, f), TraverseIncoming(g, f, TransitiveDepth))

\* compute_all walks the reverse adjacency and does not mark the file itself.
ReverseAdjacency(g, f) == {x \in Units : <<x, f>> \in g}
ComputeAll(g, f) ==
    LET seen[d \in 0..(TransitiveDepth - 1)] ==
            IF d = 0 THEN ReverseAdjacency(g, f)
            ELSE seen[d - 1] \cup UNION {ReverseAdjacency(g, x) : x \in seen[d - 1]}
    IN Radius(ReverseAdjacency(g, f), seen[TransitiveDepth - 1])

-----------------------------------------------------------------------------
(* Propagation over the graph g. lev are the staleness values, recs the files    *)
(* whose records were read.                                                      *)

NoProp == [value |-> 0, sources |-> 0]
Sources(lev, recs) == {f \in recs : lev[f] >= StaleThreshold /\ lev[f] < TombstoneThreshold}

\* The calls of apply_propagation on f for the source s, named by who led there:
\* a file two imports away is reached once for each file in between.
Calls(g, s, f) ==
    IF f \in NeighborsIncoming(g, s) THEN {<<s, s>>}
    ELSE {<<s, y>> : y \in {x \in NeighborsIncoming(g, s) : f # s /\ f \in NeighborsIncoming(g, x)}}
Bump(g, lev, s, f) == lev[s] * (IF f \in NeighborsIncoming(g, s) THEN 15 ELSE 5)

ApplyPropagation(g, lev, recs, f) ==
    LET hit == {s \in Sources(lev, recs) : Calls(g, s, f) # {}} IN
    [value |-> Max({Bump(g, lev, s, f) : s \in hit}),
     sources |-> Cardinality(UNION {Calls(g, s, f) : s \in hit})]
Reached(g, lev, recs) == {f \in Units : \E s \in Sources(lev, recs) : Calls(g, s, f) # {}}

\* Records that no source reaches keep the value they had, and so do the records
\* whose get or put failed.
WriteProps(g, lev, recs, old, lost) ==
    LET written == Reached(g, lev, recs) \ lost IN
    [f \in Units |-> IF f \in written THEN ApplyPropagation(g, lev, recs, f) ELSE old[f]]

-----------------------------------------------------------------------------
(* The writers. None of them fails when a scan, a get or a put of its own does:  *)
(* what could not be read or written stays as it was.                            *)

Fail(n) == failed + n <= MaxFailed /\ failed' = failed + n

NoRadius == [direct |-> 0, transitive |-> 0]

\* mati init from step 9 on. Every file of `parsed` gets a new stub: no staleness
\* and none of the derived values. The edges found join two parsed files. A run
\* that parsed only some files and wrote no edge of any kind does not load the
\* graph: it computes on an empty one, and writes "no importer" into the files it
\* parsed. Files that were not parsed keep their blast radius, though new edges
\* change what it should be. blastOk, propOk: the scan and the batch put of the
\* step worked; both FALSE is also a run killed before it came to them.
InitRun(parsed, new, loaded, blastOk, propOk) ==
    LET g == IF loaded THEN imports \cup new ELSE {}
        fresh == [f \in Units |-> IF f \in parsed THEN 0 ELSE level[f]]
        blank == [f \in Units |-> IF f \in parsed THEN NoProp ELSE prop[f]] IN
    /\ new \cap imports = {} /\ new \subseteq parsed \X parsed
    /\ changed' = changed + Cardinality(new) + (IF parsed = Units THEN 0 ELSE 1)
    /\ changed' <= MaxChanged
    /\ Fail(IF blastOk /\ propOk THEN 0 ELSE 1)
    /\ loaded \/ (new = {} /\ parsed # Units)
    /\ imports' = imports \cup new
    /\ level' = fresh
    /\ blast' = [f \in Units |-> IF f \notin parsed THEN blast[f]
                                 ELSE IF blastOk THEN ComputeAll(g, f) ELSE NoRadius]
    /\ by' = [f \in Units |-> IF f \notin parsed THEN (IF new = {} THEN by[f] ELSE "none")
                              ELSE IF ~blastOk THEN "none"
                              ELSE IF loaded THEN "compute_all" ELSE "empty"]
    /\ prop' = IF propOk THEN WriteProps(g, fresh, Units, blank, {}) ELSE blank
    /\ exact' = (loaded /\ propOk)

\* mati repair in full mode, which a repair that found no drift and no marker never
\* reaches. It loads the graph and takes every record; the blast radii go in one
\* batch, the propagated values record by record.
RepairRun(blastOk, scanned, lost) ==
    /\ Fail((IF blastOk /\ scanned THEN 0 ELSE 1) + Cardinality(lost))
    /\ blast' = IF blastOk THEN [f \in Units |-> ComputeAll(imports, f)] ELSE blast
    /\ by' = IF blastOk THEN [f \in Units |-> "compute_all"] ELSE by
    /\ prop' = IF scanned THEN WriteProps(imports, level, Units, prop, lost) ELSE prop
    /\ exact' = (exact \/ (scanned /\ lost = {}))
    /\ UNCHANGED <<imports, level, changed>>

\* The edit hook of the first protocol: the edited file and its neighbours, with
\* the sources of the neighbourhood only. Reparsing adds no edges. unpatched are
\* the records of the first loop whose get or put failed, unread those the second
\* could not get as sources, unwritten those of its own gets and puts.
Around(f) == {f} \cup NeighborsIncoming(imports, f) \cup Neighbors(imports, f)
Upward(f) == {f} \cup NeighborsIncoming(imports, f)
             \cup UNION {NeighborsIncoming(imports, x) : x \in NeighborsIncoming(imports, f)}
EditHook(f, unpatched, unread, unwritten) ==
    LET patched == Around(f) \ unpatched IN
    /\ Fail(Cardinality(unpatched) + Cardinality(unread) + Cardinality(unwritten))
    /\ blast' = [x \in Units |-> IF x \in patched THEN Compute(imports, x) ELSE blast[x]]
    /\ by' = [x \in Units |-> IF x \in patched THEN "compute" ELSE by[x]]
    /\ prop' = WriteProps(imports, level, Upward(f) \ unread, prop, unwritten)
    /\ exact' = FALSE
    /\ UNCHANGED <<imports, level, changed>>

Stale(f, v) ==
    /\ level[f] # v /\ changed < MaxChanged
    /\ level' = [level EXCEPT ![f] = v] /\ exact' = FALSE
    /\ changed' = changed + 1
    /\ UNCHANGED <<imports, blast, prop, by, failed>>

-----------------------------------------------------------------------------
(* Clusters: union by rank over the strong pairs, in the order of a hash map.   *)

Walk(p, x) ==
    LET up[n \in 0..Cardinality(Units)] == IF n = 0 THEN x ELSE p[up[n - 1]] IN up
Find(p, x) == Walk(p, x)[Cardinality(Units)]
\* What find does on its way: the nodes it walked hang below the root.
Compress(p, x) ==
    LET walked == {Walk(p, x)[n] : n \in 0..Cardinality(Units)}  root == Find(p, x)
    IN [y \in Units |-> IF y \in walked THEN root ELSE p[y]]
Union(a, b) ==
    LET ra == Find(parent, a)  rb == Find(parent, b)
        found == Compress(Compress(parent, a), b) IN
    IF ra = rb THEN parent' = found /\ UNCHANGED rank
    ELSE IF rank[ra] < rank[rb]
         THEN parent' = [found EXCEPT ![ra] = rb] /\ UNCHANGED rank
         ELSE /\ parent' = [found EXCEPT ![rb] = ra]
              /\ rank' = IF rank[ra] = rank[rb] THEN [rank EXCEPT ![ra] = @ + 1] ELSE rank
UnionPair(p) == /\ p \in Pairs \ joined
                /\ Union(p[1], p[2])
                /\ joined' = joined \cup {p}

\* The index: components of two files and more, their densities and centroids.
Nodes(pairs) == UNION {{p[1], p[2]} : p \in pairs}
Components == {{y \in Nodes(joined) : Find(parent, y) = Find(parent, x)} : x \in Nodes(joined)}
Degree(m, x) == Cardinality({p \in joined : {p[1], p[2]} \subseteq m /\ x \in {p[1], p[2]}})
IntraEdges(m) == Cardinality({p \in joined : {p[1], p[2]} \subseteq m})
Centroid(m) == CHOOSE x \in m : \A y \in m : \/ Degree(m, y) < Degree(m, x)
                                             \/ Degree(m, y) = Degree(m, x) /\ y <= x
Large == {c \in Components : Cardinality(c) >= 2}
\* clustered_files sums the sizes, so it counts a file once for each cluster.
ClusterIndex ==
    [clusters |-> {[members |-> m, centroid |-> Centroid(m), intra |-> IntraEdges(m)] : m \in Large},
     clustered |-> Cardinality(UNION {{<<m, y>> : y \in m} : m \in Large})]

-----------------------------------------------------------------------------
(* Edge keys: segments joined by colons; a node key may hold colons itself.     *)

ToKey(e) == e.from \o <<e.kind>> \o e.to
IsValidNodeKey(k) == Len(k) >= 2 /\ k[1] \in Namespaces
Splits(key) == {i \in 2..(Len(key) - 1) : /\ key[i] \in EdgeKinds
                                          /\ IsValidNodeKey(SubSeq(key, 1, i - 1))
                                          /\ IsValidNodeKey(SubSeq(key, i + 1, Len(key)))}
\* The first split that leaves a node key on both sides.
FromKey(key) ==
    IF Splits(key) = {} THEN {}
    ELSE LET i == Min(Splits(key)) IN
         {[from |-> SubSeq(key, 1, i - 1), kind |-> key[i], to |-> SubSeq(key, i + 1, Len(key))]}
\* Node keys in use: a namespace, then one slug or a slug of two parts.
NodeKeys == {<<n, s>> : n \in Namespaces, s \in Slugs} \cup
            {<<n, s, t>> : n \in Namespaces, s, t \in Slugs}
Edges == [from : NodeKeys, kind : EdgeKinds, to : NodeKeys]

-----------------------------------------------------------------------------
(* The specification.                                                           *)

\* Import edges join two different files (edges.rs); a pair is in path order.
ASSUME DerivedAssumption ==
    /\ Units \subseteq Nat /\ IsFiniteSet(Units)
    /\ \A e \in FirstEdges \cup MoreEdges : e \in Units \X Units /\ e[1] # e[2]
    /\ \A p \in Pairs : p \in Units \X Units /\ p[1] < p[2]
    /\ Levels \subseteq Nat /\ TombstoneThreshold \in Nat
    /\ TransitiveDepth \in Nat \ {0}
    /\ EdgeKinds \cap Namespaces = {}

GraphInit == /\ imports \in SUBSET FirstEdges
             /\ level = [f \in Units |-> 0]
             /\ blast = [f \in Units |-> NoRadius] /\ prop = [f \in Units |-> NoProp]
             /\ exact = FALSE /\ by = [f \in Units |-> "none"] /\ changed = 0 /\ failed = 0
ClusterInit == parent = [x \in Units |-> x] /\ rank = [x \in Units |-> 0] /\ joined = {}

Losses == UNION {kSubset(n, Units) : n \in 0..(MaxFailed - failed)}
GraphNext ==
    \/ \E parsed \in SUBSET Units, new \in SUBSET MoreEdges, loaded, blastOk, propOk \in BOOLEAN :
          InitRun(parsed, new, loaded, blastOk, propOk)
    \/ \E blastOk, scanned \in BOOLEAN, lost \in Losses : RepairRun(blastOk, scanned, lost)
    \/ \E f \in Units, unpatched, unread, unwritten \in Losses :
          EditHook(f, unpatched, unread, unwritten)
    \/ \E f \in Units, v \in Levels : Stale(f, v)
ClusterNext == \E p \in Pairs : UnionPair(p)
DgInit == GraphInit /\ ClusterInit /\ edgeKey \in SUBSET Edges
DgNext == /\ UNCHANGED edgeKey
          /\ \/ GraphNext /\ UNCHANGED clusterVars
             \/ ClusterNext /\ UNCHANGED graphVars
DgSpec == DgInit /\ [][DgNext]_dgVars

-----------------------------------------------------------------------------
(* Properties.                                                                  *)

\* Reference: what has an import path of 1..n edges to f.
ImportPaths(g, f, n) == UNION {{p \in [0..k -> Units] : p[k] = f /\ \A i \in 1..k : <<p[i - 1], p[i]>> \in g} :
                           k \in 1..n}
Within(g, f, n) == {p[0] : p \in ImportPaths(g, f, n)}

\* A stored blast radius is that of the import paths of at most TRANSITIVE_DEPTH
\* edges, whichever of compute and compute_all wrote it last; the two differ in
\* one thing, a file on an import cycle, which compute_all counts as its own
\* transitive importer. The exceptions: a file nobody has computed since the edges
\* changed, because the run that added them did not parse it or could not write;
\* and a file an incremental init parsed while it wrote no edge, whose radius is
\* zero, "Safe to modify in isolation", whoever imports it.
BlastAgree ==
    \A f \in Units : by[f] # "none" =>
        LET all == Within(imports, f, TransitiveDepth) IN
        blast[f] = IF by[f] = "empty" THEN NoRadius
                   ELSE Radius(Within(imports, f, 1) \ {f}, IF by[f] = "compute" THEN all \ {f} ELSE all)

\* After an init that loaded the graph or a full repair, if neither failed to read
\* or write a record, every file a stale source reaches within two imports has the
\* largest single bump of its sources ("Max, not sum"), at most 15% of a staleness
\* below the tombstone threshold, a source never feeds itself, and source_count is
\* at least the number of sources.
InheritedExact ==
    exact => \A f \in Units :
        LET near == {s \in Sources(level, Units) : s # f /\ f \in Within(imports, s, 1)}
            far  == {s \in Sources(level, Units) : s # f /\ f \in Within(imports, s, 2)} \ near
        IN near \cup far # {} =>
           /\ prop[f].value = Max({15 * level[s] : s \in near} \cup {5 * level[s] : s \in far})
           /\ prop[f].value < 15 * TombstoneThreshold
           /\ prop[f].sources >= Cardinality(near \cup far)

\* Reference: connected through the pairs, in every set that no pair leaves.
Closed(pairs, m) == \A p \in pairs : p[1] \in m <=> p[2] \in m
Connected(pairs, x) == {y \in Units : \A m \in SUBSET Units : x \in m /\ Closed(pairs, m) => y \in m}

\* In whatever order the pairs come, the trees are the connected components of
\* the pairs so far, every file is in one cluster at most, and the clustered
\* files are the files of the pairs, so the isolated ones are the rest.
ClustersAreComponents ==
    /\ \A x \in Nodes(joined) :
          {y \in Nodes(joined) : Find(parent, y) = Find(parent, x)} = Connected(joined, x)
    /\ \A x \in Units : parent[x] # x => rank[parent[x]] > rank[x]
    /\ ClusterIndex.clustered = Cardinality(Nodes(joined))
    /\ \A c \in ClusterIndex.clusters :
          \A y \in c.members : Degree(c.members, y) <= Degree(c.members, c.centroid)

\* An edge key reads back as the edge it was written for, though node keys hold
\* the separator and a slug may be the name of an edge kind (Edge::from_key).
EdgeRoundTrip == \A e \in edgeKey : FromKey(ToKey(e)) = {e}

\* What the graph passes store is what their reference definitions give.
\* Clusters are exactly the components, and an edge key reads back as its edge.
DerivedExact == BlastAgree /\ InheritedExact /\ ClustersAreComponents /\ EdgeRoundTrip
=============================================================================
