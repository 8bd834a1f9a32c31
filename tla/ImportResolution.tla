-------------------------- MODULE ImportResolution --------------------------
(* From the imports a source file states to the file each of them means: the     *)
(* resolvers of the twelve languages (analysis/resolvers), the roots they search *)
(* (analysis/edges.rs) and the imports the parsers extract (analysis/parser).    *)
(*                                                                               *)
(* A path is a sequence of segments and a file a path with an extension; a       *)
(* segment is a sequence of symbols (lower-case runs, capitals, digits, marks),  *)
(* so that what the code does to a name can be said of its symbols.              *)
EXTENDS Integers, FiniteSets, SequencesExt, FiniteSetsExt

CONSTANTS
    Capitals, LowerOf,  \* capital symbols, and the lower-case symbol of each
    Digits,
    Alphabet,           \* all symbols in the order of a sort
    Outside3p           \* language -> name prefixes of libraries: is_*_stdlib, RUBY_BUILTINS

Seg(name) == <<name>>
At(path, ext) == [path |-> path, ext |-> ext]
Dir(f) == Front(f.path)
Under(d, f) == IsStrictPrefix(d, f.path)

\* An import statement: segments, leading dots (Python), explicit extension (C, JS).
Import(segs, dots, ext, kind) == [segs |-> segs, dots |-> dots, ext |-> ext, kind |-> kind]

Library(lang, segs) == \E p \in Outside3p[lang] : IsPrefix(p, segs)

-----------------------------------------------------------------------------
(* The parsers: what each makes of an import it captures. *)

\* classify_rust_import: only paths inside the crate are its own.
ClassifyRust(segs) ==
    IF Len(segs) < 2 \/ segs[1] \notin {Seg("crate"), Seg("self"), Seg("super")} THEN "external"
    ELSE IF Last(segs) = Seg("*") THEN "wildcard" ELSE "normal"

\* decompose_use_tree: a use tree becomes one import per leaf, the prefixes of the
\* lists above it put before the leaf. A leaf `self` is the list's own path. The lists of
\* a tree are followed UseDepth deep.
UseDepth == 4
DecomposeUse(tree) ==
    LET Full(n) == n.prefix \o n.tree.path
        level[d \in 0 .. UseDepth] ==
            IF d = 0 THEN {[tree |-> tree, prefix |-> <<>>]}
            ELSE UNION {{[tree |-> t, prefix |-> Full(n)] : t \in n.tree.kids} : n \in level[d - 1]}
        Says(n) == CASE n.tree.kind = "list" -> <<>> [] n.tree.path = <<Seg("self")>> -> n.prefix [] OTHER -> Full(n)
        said == {Says(n) : n \in UNION {level[d] : d \in 0 .. UseDepth}} \ {<<>>}
    IN  {Import(segs, 0, "", ClassifyRust(segs)) : segs \in said}

Stmt(c, kind) == {Import(c.segs, c.dots, c.ext, kind)}

ImportsRust(c) == DecomposeUse(c.tree)
ImportsPython(c) ==
    Stmt(c, IF c.dots > 0 THEN "relative" ELSE IF Library("python", c.segs) THEN "external" ELSE "normal")
ImportsEcma(c) == Stmt(c, IF c.segs[1] \in {Seg("."), Seg("..")} THEN "relative" ELSE "external")
\* A Go import is external when its first segment names no host.
ImportsGo(c) == Stmt(c, IF "." \in ToSet(c.segs[1]) THEN "normal" ELSE "external")
ImportsC(c) == Stmt(c, IF c.form = "angle" THEN "external" ELSE "relative")
ImportsRuby(c) ==
    CASE c.form \in {"require", "require_dependency"} -> Stmt(c, "normal")
      [] c.form = "require_relative" -> Stmt(c, "relative")
      [] c.form = "superclass" /\ ~Library("ruby", c.segs) -> Stmt(c, "inherits")
      [] c.form \in {"include", "extend", "prepend"} /\ ~Library("ruby", c.segs) -> Stmt(c, "includes")
      [] OTHER -> {}
ImportsPlain(c) == Stmt(c, "normal")

-----------------------------------------------------------------------------
(* The file index of a run and its roots. *)

\* camel_to_snake on one name.
CamelToSnake(seg) ==
    LET Low(s) == s \notin Capitals /\ s \notin Digits /\ s # "_"
        Cut(i) == /\ i > 1 /\ seg[i] \in Capitals
                  /\ \/ Low(seg[i - 1]) \/ seg[i - 1] \in Digits
                     \/ seg[i - 1] \in Capitals /\ i < Len(seg) /\ Low(seg[i + 1])
        One(i) == LET s == IF seg[i] \in Capitals THEN LowerOf[seg[i]] ELSE seg[i]
                  IN  IF Cut(i) THEN <<"_", s>> ELSE <<s>>
    IN  FlattenSeq([i \in DOMAIN seg |-> One(i)])

Snake(segs) == [i \in DOMAIN segs |-> CamelToSnake(segs[i])]

\* The order of a sort of path strings.
Spelled(path) == FlattenSeq([i \in DOMAIN path |-> path[i] \o <<"/">>])
RelPath(f) == Spelled(f.path) \o <<".", f.ext>>
At1(s) == CHOOSE n \in DOMAIN Alphabet : Alphabet[n] = s
TextBefore(a, b) ==
    \E k \in DOMAIN b : /\ k <= Len(a) + 1 /\ SubSeq(a, 1, k - 1) = SubSeq(b, 1, k - 1)
                        /\ k > Len(a) \/ At1(a[k]) < At1(b[k])
Sorted(paths) == SetToSortSeq(paths, LAMBDA p, q : TextBefore(Spelled(p), Spelled(q)))

\* The directories a workspace pattern stands for: a pattern with a star is cut there
\* and every directory below it taken.
MemberDirs(disk, m) ==
    IF m.star THEN {SubSeq(f.path, 1, Len(m.dir) + 1) : f \in {g \in disk : Len(g.path) > Len(m.dir) + 1 /\ Under(m.dir, g)}}
    ELSE {m.dir} \cap UNION {{SubSeq(f.path, 1, n) : n \in 0 .. Len(f.path) - 1} : f \in disk}

Src == <<Seg("src")>>
RootEntry(files) == At(Src \o <<Seg("lib")>>, "rs") \in files \/ At(Src \o <<Seg("main")>>, "rs") \in files

\* detect_rust_crate_roots
CrateRoots(cargo, disk, files) ==
    LET members == {d \o Src : d \in UNION {MemberDirs(disk, m) : m \in cargo.members}}
        roots == {r \in members : \E f \in disk : Under(r, f)}
    IN  roots \cup IF (roots # {} \/ cargo.package) /\ RootEntry(files) THEN {Src} ELSE {}

\* detect_workspace_members: the name of each member's package, its dashes made
\* underscores, and where its sources are.
Members(cargo, disk) ==
    LET dirs == (UNION {MemberDirs(disk, m) : m \in cargo.members}) \cup IF cargo.package THEN {<<>>} ELSE {} IN
    IF cargo.members = {} THEN {}
    ELSE {[name |-> [i \in DOMAIN cargo.names[d] |-> IF cargo.names[d][i] = "-" THEN "_" ELSE cargo.names[d][i]],
           root |-> d \o Src] : d \in dirs \cap DOMAIN cargo.names}

\* Where pattern occurs first in path, as a set of at most one place.
FirstAt(path, pattern) ==
    LET hits == {i \in 0 .. Len(path) - Len(pattern) : SubSeq(path, i + 1, i + Len(pattern)) = pattern}
    IN  IF hits = {} THEN {} ELSE {Min(hits)}

ScalaPatterns == {Src \o <<Seg(k), Seg("scala")>> : k \in {"main", "test"}}

\* detect_scala_source_roots
ScalaRoots(files) ==
    UNION {{SubSeq(f.path, 1, i + 3) : i \in UNION {FirstAt(Dir(f), p) : p \in ScalaPatterns}}
           : f \in {g \in files : g.ext = "scala"}}

\* detect_ruby_roots: app/<subdir>/ with its concerns/, and lib/.
AutoloadRoots(files) ==
    UNION {LET hit == FirstAt(Dir(f), <<Seg("app")>>) IN
           UNION {IF Len(Dir(f)) < i + 2 THEN {}
                  ELSE {SubSeq(f.path, 1, i + 2)}
                         \cup IF Len(Dir(f)) >= i + 3 /\ f.path[i + 3] = Seg("concerns") THEN {SubSeq(f.path, 1, i + 3)} ELSE {}
                  : i \in hit} : f \in {g \in files : g.ext = "rb"}}
LibRoots(files) ==
    UNION {{SubSeq(f.path, 1, i + 1) : i \in FirstAt(Dir(f), <<Seg("lib")>>)} : f \in {g \in files : g.ext = "rb"}}

\* What build_edges prepares for the resolvers: the files analysed in this run, and
\* what the manifests on disk declare.
FileIndex(files, disk, cargo, goMods) ==
    [files |-> files, crates |-> CrateRoots(cargo, disk, files), members |-> Members(cargo, disk),
     scala |-> Sorted(ScalaRoots(files)), autoload |-> Sorted(AutoloadRoots(files)),
     lib |-> Sorted(LibRoots(files)), goMods |-> goMods]

-----------------------------------------------------------------------------
(* The resolvers: the file an import means, as a set of at most one file (any of *)
(* several for Go, where a hash set decides).                                    *)

\* Candidates tried from the least specific one.
FirstInLastWins(ix, candidates) ==
    LET hits == SelectSeq(candidates, LAMBDA c : c \in ix.files)
    IN  IF hits = <<>> THEN {} ELSE {Last(hits)}

\* The first candidate the index holds.
FirstIn(ix, candidates) ==
    LET hits == SelectSeq(candidates, LAMBDA c : c \in ix.files)
    IN  IF hits = <<>> THEN {} ELSE {Head(hits)}

Each(roots, Make(_)) == FlattenSeq([i \in DOMAIN roots |-> Make(roots[i])])

\* crate_root_for: the longest root the file is under.
CrateRoot(ix, f) ==
    LET roots == {r \in ix.crates : Under(r, f)}
    IN  IF roots = {} THEN Src ELSE CHOOSE r \in roots : \A s \in roots : Len(s) <= Len(r)

\* rust_module_segments
ModuleOf(f, root) ==
    LET rel == SubSeq(f.path, Len(root) + 1, Len(f.path)) IN
    IF rel \in {<<Seg("lib")>>, <<Seg("main")>>} THEN <<>>
    ELSE IF Len(rel) > 1 /\ Last(rel) = Seg("mod") THEN Front(rel) ELSE rel

\* The prefix of a module path that is tried first: the whole of it.
Depths(n) == [i \in 1 .. n |-> n + 1 - i]

ResolveRust(imp, f, ix) ==
    LET root == CrateRoot(ix, f)
        segs == IF Len(imp.segs) > 1 /\ Last(imp.segs) = Seg("*") THEN Front(imp.segs) ELSE imp.segs
        cur == ModuleOf(f, root)
        \* leading `super`s that something follows
        ups == IF segs = <<Seg("super")>> THEN 1
               ELSE Max({n \in 0 .. Len(segs) - 1 : \A i \in 1 .. n : segs[i] = Seg("super")})
        rest == SelectSeq(SubSeq(segs, IF segs[1] = Seg("super") THEN ups + 1 ELSE 2, Len(segs)), LAMBDA s : s # Seg("self"))
        abs == CASE segs[1] = Seg("crate") -> rest
                 [] segs[1] = Seg("self") -> cur \o rest
                 [] segs[1] = Seg("super") /\ ups <= Len(cur) -> SubSeq(cur, 1, Len(cur) - ups) \o rest
                 [] OTHER -> <<>>
    IN  IF ~Under(root, f) THEN {}
        ELSE FirstIn(ix, Each(Depths(Len(abs)), LAMBDA n :
               LET p == root \o SubSeq(abs, 1, n) IN <<At(p, "rs"), At(p \o <<Seg("mod")>>, "rs")>>))

\* resolve_cross_crate: another member of the workspace, by its entry file.
ResolveCrossCrate(imp, ix) ==
    UNION {FirstIn(ix, <<At(m.root \o <<Seg("lib")>>, "rs"), At(m.root \o <<Seg("mod")>>, "rs")>>)
           : m \in {x \in ix.members : x.name = imp.segs[1]}}

\* One or two leading dots are taken off; a third stays in the name, which no file has.
ResolvePython(imp, f, ix) ==
    LET base == CASE imp.dots = 0 -> <<>> [] imp.dots = 1 -> Dir(f)
                  [] OTHER -> SubSeq(Dir(f), 1, Len(Dir(f)) - 1)
        p == base \o imp.segs
    IN  IF imp.dots > 2 \/ imp.segs = <<>> THEN {}
        ELSE FirstIn(ix, <<At(p, "py"), At(p \o <<Seg("__init__")>>, "py")>>)

\* normalize_path; a `..` at the top is dropped.
Normalize(path) ==
    FoldLeft(LAMBDA acc, s : IF s = Seg("..") THEN SubSeq(acc, 1, Len(acc) - 1)
                             ELSE IF s = Seg(".") THEN acc ELSE Append(acc, s), <<>>, path)

\* Beside the root nothing is normalised.
ResolveEcma(imp, f, ix) ==
    LET stripped == IF imp.segs[1] = Seg(".") THEN Tail(imp.segs) ELSE imp.segs
        p == IF Dir(f) = <<>> THEN stripped ELSE Normalize(Dir(f) \o stripped)
        exts == <<"ts", "tsx", "js", "jsx">>
    IN  FirstIn(ix, <<At(p, imp.ext)>>
                      \o (IF imp.ext # "" THEN <<>>
                          ELSE Each(exts, LAMBDA e : <<At(p, e)>>) \o Each(exts, LAMBDA e : <<At(p \o <<Seg("index")>>, e)>>)))

\* The module declared by the nearest go.mod is taken off the import as a string; the
\* rest is looked for from the repository's root.
ResolveGo(imp, f, ix) ==
    LET mods == {n \in 0 .. Len(Dir(f)) : At(SubSeq(f.path, 1, n) \o <<Seg("go")>>, "mod") \in ix.files}
        mod == IF mods = {} THEN <<>> ELSE ix.goMods[SubSeq(f.path, 1, Max(mods))]
        text == Front(Spelled(imp.segs)) name == Front(Spelled(mod))
        rest == SubSeq(text, Len(name) + 1, Len(text))
        prefix == IF rest = <<>> THEN <<>> ELSE (IF rest[1] = "/" THEN Tail(rest) ELSE rest) \o <<"/">>
    IN  IF Len(imp.segs) < 2 \/ mod = <<>> \/ ~IsPrefix(name, text) THEN {}
        ELSE {g \in ix.files : g.ext = "go" /\ Last(Last(g.path)) # "_test" /\ IsPrefix(prefix, Spelled(g.path))}

\* Beside the includer, at the root, then in include/ and src/; nothing is normalised.
IncludePlaces(imp, f) ==
    <<At(Dir(f) \o imp.segs, imp.ext), At(imp.segs, imp.ext),
      At(<<Seg("include")>> \o imp.segs, imp.ext), At(Src \o imp.segs, imp.ext)>>
ResolveC(imp, f, ix) == FirstIn(ix, IncludePlaces(imp, f))
ResolveCpp(imp, f, ix) ==
    FirstIn(ix, IncludePlaces(imp, f)
                  \o IF imp.ext # "" THEN <<>>
                     ELSE Each(<<"hpp", "hxx", "hh", "h">>, LAMBDA e : <<At(Dir(f) \o imp.segs, e), At(imp.segs, e)>>))

JavaRoots == <<<<>>, Src \o <<Seg("main"), Seg("java")>>, Src \o <<Seg("test"), Seg("java")>>>>

\* The class, else an outer class of at least two segments.
ResolveJava(imp, ix) ==
    LET segs == IF Last(imp.segs) = Seg("*") THEN Front(imp.segs) ELSE imp.segs
        shorter == [i \in 1 .. Max({0, Len(segs) - 2}) |-> Len(segs) - i]
    IN  IF Library("java", segs) THEN {}
        ELSE FirstIn(ix, Each(<<Len(segs)>> \o shorter, LAMBDA n :
                           Each(JavaRoots, LAMBDA r : <<At(r \o SubSeq(segs, 1, n), "java")>>)))

ResolveScala(imp, ix) ==
    IF Library("scala", imp.segs) THEN {}
    ELSE FirstIn(ix, Each(<<<<>>, Src \o <<Seg("main"), Seg("scala")>>>> \o ix.scala,
                          LAMBDA r : <<At(r \o imp.segs, "scala")>>))

ResolveElixir(imp, ix) ==
    LET p == Snake(imp.segs) lib == <<Seg("lib")>> \o p IN
    IF Library("elixir", imp.segs) THEN {}
    ELSE FirstIn(ix, <<At(lib, "ex"), At(lib, "exs"), At(p, "ex")>>)

ResolveHaskell(imp, ix) ==
    LET p == imp.segs IN
    IF Library("haskell", p) THEN {}
    ELSE FirstIn(ix, <<At(p, "hs"), At(Src \o p, "hs"), At(<<Seg("app")>> \o p, "hs"), At(p, "lhs"), At(Src \o p, "lhs")>>)

\* require_relative, and the first thing a require tries.
BesideRuby(imp, f) == LET p == Dir(f) \o imp.segs IN <<At(p, "rb"), At(p, imp.ext)>>

ResolveRequire(imp, f, ix) ==
    FirstIn(ix, BesideRuby(imp, f)
                  \o Each(ix.lib, LAMBDA r : <<At(r \o imp.segs, "rb"), At(r \o imp.segs, imp.ext)>>)
                  \o (IF <<Seg("lib")>> \in ToSet(ix.lib) THEN <<>> ELSE <<At(<<Seg("lib")>> \o imp.segs, "rb")>>)
                  \o Each(ix.autoload, LAMBDA r : <<At(r \o imp.segs, "rb")>>))

\* A constant by the conventions of Zeitwerk: its own file, or one in a directory of
\* its name; a single name also at the root.
ResolveZeitwerk(imp, ix) ==
    LET p == Snake(imp.segs) IN
    FirstIn(ix, Each(ix.autoload \o ix.lib, LAMBDA r : <<At(r \o p, "rb"), At(r \o p \o <<Last(p)>>, "rb")>>)
                  \o IF Len(p) = 1 THEN <<At(p, "rb")>> ELSE <<>>)

ResolveRuby(imp, f, ix) ==
    CASE imp.kind \in {"inherits", "includes"} -> ResolveZeitwerk(imp, ix)
      [] imp.kind = "relative" -> FirstIn(ix, BesideRuby(imp, f))
      [] OTHER -> ResolveRequire(imp, f, ix)

\* ResolverRegistry::resolve
Resolve(lang, imp, f, ix) ==
    CASE imp.kind = "external" -> {}
      [] lang = "rust" -> ResolveRust(imp, f, ix)
      [] lang = "python" -> ResolvePython(imp, f, ix)
      [] lang \in {"typescript", "javascript"} -> ResolveEcma(imp, f, ix)
      [] lang = "go" -> ResolveGo(imp, f, ix)
      [] lang = "c" -> ResolveC(imp, f, ix)
      [] lang = "cpp" -> ResolveCpp(imp, f, ix)
      [] lang = "java" -> ResolveJava(imp, ix)
      [] lang = "scala" -> ResolveScala(imp, ix)
      [] lang = "elixir" -> ResolveElixir(imp, ix)
      [] lang = "haskell" -> ResolveHaskell(imp, ix)
      [] lang = "ruby" -> ResolveRuby(imp, f, ix)
      [] OTHER -> {}

\* The files an import of f may be linked to: an external one is looked for in the
\* other crates of a workspace, an angle-bracket include like a quoted one.
Targets(lang, imp, f, ix) ==
    IF imp.kind # "external" THEN Resolve(lang, imp, f, ix)
    ELSE CASE lang = "rust" /\ ix.members # {} -> ResolveCrossCrate(imp, ix)
           [] lang = "c" -> ResolveC(imp, f, ix)
           [] lang = "cpp" -> ResolveCpp(imp, f, ix)
           [] OTHER -> {}
=============================================================================
