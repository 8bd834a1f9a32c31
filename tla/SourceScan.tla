----------------------------- MODULE SourceScan -----------------------------
(* The static scan of a repository: the parallel walk (analysis/walker.rs), what the *)
(* parsers report of each file (analysis/parser), the dependencies its manifests     *)
(* declare (analysis/deps.rs) and the edges of the graph (analysis/edges.rs).        *)
(*                                                                                   *)
(* A repository (world) is its directory entries, the syntax nodes of each file as a *)
(* sequence of records and the lines of its manifests. A visitor buffers what it     *)
(* accepts; one file of a world may vanish while it is read.                         *)
EXTENDS ImportResolution

CONSTANTS
    Worlds,             \* the repositories by name
    Visitors,           \* the threads of the walk
    FlushThreshold      \* FLUSH_THRESHOLD

\* A directory entry has a path of its own, and that path is a text.
ASSUME ScanAssumption ==
    /\ Visitors # {}
    /\ Alphabet \in Seq(ToSet(Alphabet))
    /\ \A w \in DOMAIN Worlds :
         /\ IsFiniteSet(Worlds[w].entries)
         /\ \A e \in Worlds[w].entries : RelPath(e.file) \in Seq(ToSet(Alphabet))
         /\ \A d, e \in Worlds[w].entries : RelPath(d.file) = RelPath(e.file) => d = e

VARIABLES
    world, phase,
    ahead,              \* entries no visitor has got
    buffers,              \* visitor -> its buffer
    sent,               \* file -> how often the channel got it
    walked,             \* the collected walk, in order
    parsed,             \* the files analysed in this run, in order
    analyses,           \* their analyses, in the same order
    scanned             \* edges, unresolved imports and dependencies
ssVars == <<world, phase, ahead, buffers, sent, walked, parsed, analyses, scanned>>

repo == Worlds[world]

-----------------------------------------------------------------------------
(* The walk. *)

\* detect_language
DetectLanguage(ext) ==
    CASE ext = "rs" -> "rust" [] ext \in {"ts", "tsx"} -> "typescript"
      [] ext \in {"js", "jsx", "mjs", "cjs"} -> "javascript" [] ext \in {"py", "pyi"} -> "python"
      [] ext = "go" -> "go" [] ext = "java" -> "java" [] ext \in {"c", "h"} -> "c"
      [] ext \in {"cpp", "cc", "cxx", "hpp", "hxx", "hh"} -> "cpp" [] ext = "rb" -> "ruby"
      [] ext \in {"scala", "sc"} -> "scala" [] ext \in {"ex", "exs"} -> "elixir"
      [] ext \in {"hs", "lhs"} -> "haskell" [] OTHER -> "unknown"

IsBinaryExtension(ext) == ext \in {"png", "o", "jar", "zip", "lock", "snap", "db", "pdf"}

\* What the walk keeps of its entries: regular files outside .git that are neither
\* binary nor too large.
Accepted(e) == e.kind = "file" /\ Seg(".git") \notin ToSet(e.file.path) /\ ~IsBinaryExtension(e.file.ext) /\ ~e.large

Send(files) == [f \in DOMAIN sent |-> sent[f] + Cardinality({i \in DOMAIN files : files[i] = f})]

\* A visitor gets an entry; the metadata of a vanished file is an error.
Visit(v, e) ==
    /\ phase = "walk" /\ v \in DOMAIN buffers /\ e \in ahead
    /\ ahead' = ahead \ {e}
    /\ \E kept \in {Accepted(e)} \cup IF e.file \in repo.fragile THEN {FALSE} ELSE {} :
         LET buffer == IF kept THEN Append(buffers[v], e.file) ELSE buffers[v]
             full == kept /\ Len(buffer) >= FlushThreshold IN
         /\ buffers' = [buffers EXCEPT ![v] = IF full THEN <<>> ELSE buffer]
         /\ sent' = IF full THEN Send(buffer) ELSE sent
    /\ UNCHANGED <<world, phase, walked, parsed, analyses, scanned>>

\* A visitor that is dropped as it is, without the flush of its tail.
DropLosesTail(v) ==
    /\ phase = "walk" /\ v \in DOMAIN buffers /\ ahead = {}
    /\ buffers' = Restrict(buffers, DOMAIN buffers \ {v})
    /\ UNCHANGED <<world, phase, ahead, sent, walked, parsed, analyses, scanned>>

\* A visitor is dropped: the rest of its buffer is sent.
DropVisitor(v) ==
    /\ phase = "walk" /\ v \in DOMAIN buffers /\ ahead = {}
    /\ sent' = Send(buffers[v])
    /\ buffers' = Restrict(buffers, DOMAIN buffers \ {v})
    /\ UNCHANGED <<world, phase, ahead, walked, parsed, analyses, scanned>>

\* The sort: a file's place is the number of files before it.
ByRelPath(files) ==
    LET rank == [f \in files |-> Cardinality({g \in files : TextBefore(RelPath(g), RelPath(f))})]
    IN  [i \in 1 .. Cardinality(files) |-> CHOOSE f \in files : rank[f] = i - 1]

\* The channel closes with the last visitor; the walk is sorted by path.
CollectWalk ==
    /\ phase = "walk" /\ DOMAIN buffers = {}
    /\ walked' = ByRelPath({f \in DOMAIN sent : sent[f] > 0})
    /\ phase' = "walked"
    /\ UNCHANGED <<world, ahead, buffers, sent, parsed, analyses, scanned>>

-----------------------------------------------------------------------------
(* The parsers. A node has a tag; declarations carry name, pub (visible by the rules  *)
(* of the language) and top (not nested), comments form, row and text.                *)

\* extract_todo: the slashes, stars and hashes before the text are taken off, the `!`
\* of an inner doc comment is not, so only a marker inside the text is seen there.
TodoKinds == {"todo", "fixme", "hack", "note", "deprecated"}
ExtractTodo(n) ==
    LET kind == IF n.mark \in {"@ts-", "type: ignore"} THEN "note" ELSE n.mark IN
    IF kind \notin TodoKinds \/ (n.form \in {"//!", "/*!"} /\ n.mark # "type: ignore") THEN {}
    ELSE {[kind |-> kind, row |-> n.row]}

\* The comments of the first rows that count as documentation, and the block of them
\* that starts with the first one and has no gap.
AnyForm == {"//", "//!", "/*", "/**", "/*!", "#", "--", "-- |"}
DocLines(content, rows, forms) ==
    SelectSeq(content, LAMBDA n : n.tag = "comment" /\ n.row < rows /\ n.form \in forms /\ n.text # "")
Contiguous(lines) ==
    SubSeq(lines, 1, Max({k \in 0 .. Len(lines) : \A i \in 1 .. k : lines[i].row = lines[1].row + i - 1}))
NotDirective(lines) == SelectSeq(lines, LAMBDA n : n.text # "directive")

\* What a parser reports, from the tags of its query (nodes), the rules for what is
\* exported, what an import node says and the comments that document the file.
Analysis(content, nodes, Shown(_), Type(_), Imports(_), doc) ==
    LET Pick(tags) == SelectSeq(content, LAMBDA n : n.tag \in tags)
        Names(decls) == [i \in DOMAIN decls |-> decls[i].name] IN
    [entries |-> Names(SelectSeq(Pick(nodes.entry), Shown)), types |-> Names(SelectSeq(Pick(nodes.type), Type)),
     imports |-> UNION {Imports(n) : n \in ToSet(Pick({"import"}))},
     branches |-> Len(Pick(nodes.branch)),
     todos |-> UNION {ExtractTodo(n) : n \in ToSet(Pick({"comment"}))},
     doc |-> [i \in DOMAIN doc |-> doc[i].text]]
All(n) == TRUE

RustNodes == [entry |-> {"fn", "mod"}, type |-> {"struct", "enum", "trait", "alias"}, branch |-> {"if", "match", "loop", "while"}]
ParseRust(content) ==
    LET Pub(n) == n.pub IN
    Analysis(content, RustNodes, Pub, Pub, ImportsRust, Contiguous(DocLines(content, 5, {"//!", "/*!"})))

\* What starts with an underscore or is nested is not exported. The docstring is the
\* first expression of the module.
PythonNodes == [entry |-> {"fn"}, type |-> {"class"}, branch |-> {"if", "for", "while", "try"}]
ParsePython(content) ==
    LET Public(n) == n.pub /\ n.top
        docs == SelectSeq(content, LAMBDA n : n.tag = "docstring" /\ n.text # "") IN
    Analysis(content, PythonNodes, Public, Public, ImportsPython, SubSeq(docs, 1, Min({1, Len(docs)})))

EcmaNodes == [entry |-> {"fn", "generator", "lexical", "re_export"}, type |-> {"class", "interface", "alias", "enum"},
              branch |-> {"if", "switch", "ternary", "for", "for_in", "while", "do"}]
ParseEcma(content) ==
    LET Exported(n) == n.pub IN
    Analysis(content, EcmaNodes, Exported, Exported, ImportsEcma, Contiguous(DocLines(content, 5, {"/**", "//"})))

\* A capital exports; methods count as functions. Build tags are no documentation.
GoNodes == [entry |-> {"fn", "method"}, type |-> {"type"}, branch |-> {"if", "for", "switch", "select", "type_switch"}]
ParseGo(content) ==
    LET Exported(n) == n.pub IN
    Analysis(content, GoNodes, Exported, Exported, ImportsGo, Contiguous(NotDirective(DocLines(content, 10, AnyForm))))

\* Every Javadoc of the first rows counts, gaps or not.
JavaNodes == [entry |-> {"method"}, type |-> {"class", "interface", "enum", "record", "annotation"},
              branch |-> {"if", "for", "for_each", "while", "do", "switch", "try", "try_with", "ternary"}]
ParseJava(content) == Analysis(content, JavaNodes, All, All, ImportsPlain, DocLines(content, 10, {"/**"}))

\* A struct, union or enum counts where it has a body.
CNodes == [entry |-> {"fn"}, type |-> {"struct", "union", "enum"}, branch |-> {"if", "for", "while", "switch", "do", "ternary"}]
ParseC(content) ==
    LET Body(n) == n.pub IN
    Analysis(content, CNodes, All, Body, ImportsC, Contiguous(DocLines(content, 10, {"/*", "/**", "/*!", "//", "//!"})))

\* A class counts without a body too.
CppNodes == [CNodes EXCEPT !.entry = {"fn", "method", "qualified"}, !.type = @ \cup {"class"}, !.branch = @ \cup {"try"}]
ParseCpp(content) ==
    LET Defined(n) == n.pub \/ n.tag = "class" IN
    Analysis(content, CppNodes, All, Defined, ImportsC, Contiguous(DocLines(content, 10, {"/*", "/**", "/*!", "//", "//!"})))

RubyNodes == [entry |-> {"method", "singleton_method"}, type |-> {"class", "module"},
              branch |-> {"if", "unless", "while", "until", "for", "case", "begin", "rescue"}]
ParseRuby(content) ==
    LET Public(n) == n.pub IN
    Analysis(content, RubyNodes, Public, All, ImportsRuby, Contiguous(NotDirective(DocLines(content, 10, {"#"}))))

ScalaNodes == [entry |-> {"fn"}, type |-> {"class", "object", "trait", "enum", "alias"}, branch |-> {"if", "match", "for", "while", "try"}]
ParseScala(content) ==
    Analysis(content, ScalaNodes, All, All, ImportsPlain, Contiguous(DocLines(content, 10, {"/**", "//", "//!"})))

\* Declarations are calls; one whose name cannot be read is left out. The first
\* @moduledoc string is the documentation.
ElixirNodes == [entry |-> {"def", "defmacro"}, type |-> {"defmodule", "defprotocol"},
                branch |-> {"if", "unless", "cond", "case", "with", "try", "receive"}]
ParseElixir(content) ==
    LET Named(n) == n.name # ""
        docs == SelectSeq(content, LAMBDA n : n.tag = "docstring" /\ n.text # "") IN
    Analysis(content, ElixirNodes, Named, Named, ImportsPlain, SubSeq(docs, 1, Min({1, Len(docs)})))

HaskellNodes == [entry |-> {"fn", "bind"}, type |-> {"data", "newtype", "class"}, branch |-> {"case", "if", "multi_way_if", "lambda_case"}]
ParseHaskell(content) == Analysis(content, HaskellNodes, All, All, ImportsPlain, DocLines(content, 10, {"-- |"}))

\* parse_file_from_source; a file no parser knows has an empty analysis.
NoAnalysis == [entries |-> <<>>, types |-> <<>>, imports |-> {}, branches |-> 0, todos |-> {}, doc |-> <<>>]
Parse(lang, content) ==
    CASE lang = "rust" -> ParseRust(content) [] lang \in {"typescript", "javascript"} -> ParseEcma(content)
      [] lang = "python" -> ParsePython(content) [] lang = "go" -> ParseGo(content)
      [] lang = "java" -> ParseJava(content) [] lang = "c" -> ParseC(content) [] lang = "cpp" -> ParseCpp(content)
      [] lang = "ruby" -> ParseRuby(content) [] lang = "scala" -> ParseScala(content)
      [] lang = "elixir" -> ParseElixir(content) [] lang = "haskell" -> ParseHaskell(content)
      [] OTHER -> NoAnalysis

\* The parse of a run, one slot per walked file: a file with its old mtime is skipped,
\* one that cannot be read is left out, so files and analyses stay side by side.
Parseable(f) == DetectLanguage(f.ext) # "unknown"
Content(f) == IF f \in DOMAIN repo.content THEN repo.content[f] ELSE <<>>
HashAndParse ==
    /\ phase = "walked"
    /\ \E same \in repo.same, lost \in SUBSET repo.fragile :
         LET fresh == SelectSeq(walked, LAMBDA f : f \notin same /\ (Parseable(f) => f \notin lost)) IN
         /\ parsed' = fresh
         /\ analyses' = [i \in DOMAIN fresh |-> Parse(DetectLanguage(fresh[i].ext), Content(fresh[i]))]
    /\ phase' = "parsed"
    /\ UNCHANGED <<world, ahead, buffers, sent, walked, scanned>>

-----------------------------------------------------------------------------
(* Dependencies. *)

ManifestKind(f) == CASE Last(f.path) = Seg("Cargo") /\ f.ext = "toml" -> "cargo"
                     [] Last(f.path) = Seg("package") /\ f.ext = "json" -> "npm"
                     [] Last(f.path) = Seg("go") /\ f.ext = "mod" -> "go"
                     [] OTHER -> "none"
Dep(eco, name, version, dev) == [eco |-> eco, name |-> name, version |-> version, dev |-> dev]

\* One line of a Cargo.toml, read in state st: the section, the dependency whose table
\* is open ("" for none) and what was found. A header closes an open table; a table's
\* version or workspace key closes it too, what follows counts as the section's own.
DepSections == {"dependencies", "dev-dependencies", "build-dependencies"}
CargoLine(st, line) ==
    LET dev == st.section # "dependencies"
        closed == IF st.table = "" THEN st.deps ELSE Append(st.deps, Dep("cargo", st.table, "", dev))
        Found(name, version) == Append(st.deps, Dep("cargo", name, version, dev)) IN
    CASE line.form = "header" ->
           [section |-> IF line.section \in DepSections THEN line.section ELSE "none",
            table |-> IF line.section \in DepSections THEN line.name ELSE "", deps |-> closed]
      [] st.section = "none" -> st
      [] st.table # "" ->
           IF line.name = "version" /\ line.form = "string" THEN [st EXCEPT !.deps = Found(st.table, line.version), !.table = ""]
           ELSE IF line.name = "workspace" /\ line.form = "true" THEN [st EXCEPT !.deps = Found(st.table, "workspace"), !.table = ""]
           ELSE st
      [] OTHER ->
           CASE line.form = "dotted" -> IF line.version = "workspace" THEN [st EXCEPT !.deps = Found(line.name, "workspace")] ELSE st
             [] line.form \in {"string", "inline"} -> [st EXCEPT !.deps = Found(line.name, line.version)]
             [] OTHER -> st
ParseCargoToml(lines) ==
    LET end == FoldLeft(CargoLine, [section |-> "none", table |-> "", deps |-> <<>>], lines)
    IN  IF end.table = "" THEN end.deps ELSE Append(end.deps, Dep("cargo", end.table, "", end.section # "dependencies"))

\* The dependencies first, the devDependencies after them; a version that is no string
\* is "*". A file that is no JSON declares nothing.
ParsePackageJson(lines) ==
    LET Of(section, dev) == LET found == SelectSeq(lines, LAMBDA l : l.section = section) IN
            [i \in DOMAIN found |-> Dep("npm", found[i].name, IF found[i].form = "string" THEN found[i].version ELSE "*", dev)]
    IN  IF \E i \in DOMAIN lines : lines[i].form = "broken" THEN <<>>
        ELSE Of("dependencies", FALSE) \o Of("devDependencies", TRUE)

\* The lines of a require block and the require lines outside of one.
ParseGoMod(lines) ==
    LET required == SelectSeq(lines, LAMBDA l : l.section = "require" /\ l.form # "comment")
    IN  [i \in DOMAIN required |-> Dep("go", required[i].name, required[i].version, FALSE)]

\* parse_dependencies: manifests by depth, equally deep ones in the order of the walk;
\* the first declaration of a dependency counts.
ParseDependencies(files, lost) ==
    LET found == SelectSeq(files, LAMBDA f : ManifestKind(f) # "none")
        byDepth == FlattenSeq([n \in 1 .. 5 |-> SelectSeq(found, LAMBDA f : Len(f.path) = n)])
        read == SelectSeq(byDepth, LAMBDA f : f \notin lost)
        Declared(f) == CASE ManifestKind(f) = "cargo" -> ParseCargoToml(repo.manifests[f])
                         [] ManifestKind(f) = "npm" -> ParsePackageJson(repo.manifests[f])
                         [] OTHER -> ParseGoMod(repo.manifests[f])
        all == FlattenSeq([i \in DOMAIN read |-> Declared(read[i])])
    IN  {all[i] : i \in {j \in DOMAIN all : \A k \in 1 .. j - 1 : all[k].eco # all[j].eco \/ all[k].name # all[j].name}}

-----------------------------------------------------------------------------
(* The edges of a run: imports among the files analysed, co-changes of walked pairs. *)

IndexOf(files, disk) == FileIndex(files, disk, repo.cargo, repo.goMods)

\* The import statements of the run, each with the place of its file.
Stated == {s \in (DOMAIN parsed) \X UNION {analyses[i].imports : i \in DOMAIN parsed} : s[2] \in analyses[s[1]].imports}
Leads(s, ix) == Targets(DetectLanguage(parsed[s[1]].ext), s[2], parsed[s[1]], ix)
ImportEdges(ix) ==
    UNION {{<<parsed[s[1]], "imports", t>> : t \in Leads(s, ix) \ {parsed[s[1]]}} : s \in Stated}
CoChangeEdges(files) ==
    UNION {{<<p[1], "co_changes", p[2]>>, <<p[2], "co_changes", p[1]>>} : p \in {q \in repo.pairs : {q[1], q[2]} \subseteq files}}
Unresolved(ix) == Cardinality({s \in Stated : s[2].kind # "external" /\ Leads(s, ix) = {}})

\* build_edges on the files of this run; the manifests are those of the whole walk.
BuildEdges ==
    /\ phase = "parsed"
    /\ \E lost \in SUBSET repo.fragile :
         LET ix == IndexOf(ToSet(parsed), ToSet(walked) \ lost) IN
         scanned' = [edges |-> ImportEdges(ix) \cup CoChangeEdges(ToSet(parsed)),
                     unresolved |-> Unresolved(ix),
                     deps |-> ParseDependencies(walked, lost), lost |-> lost]
    /\ phase' = "done"
    /\ UNCHANGED <<world, ahead, buffers, sent, walked, parsed, analyses>>

NotScanned == [edges |-> {}, unresolved |-> 0, deps |-> {}, lost |-> {}]
SsInit ==
    /\ world \in DOMAIN Worlds /\ phase = "walk" /\ ahead = repo.entries
    /\ buffers = [v \in Visitors |-> <<>>] /\ sent = [f \in {e.file : e \in repo.entries} |-> 0]
    /\ walked = <<>> /\ parsed = <<>> /\ analyses = <<>> /\ scanned = NotScanned
SsNext ==
    \/ \E v \in Visitors : DropVisitor(v) \/ \E e \in ahead : Visit(v, e)
    \/ CollectWalk \/ HashAndParse \/ BuildEdges

SsSpec == SsInit /\ [][SsNext]_ssVars

-----------------------------------------------------------------------------
(* What the scan owes its readers. *)

\* Every entry the walk accepts is in its result, once and in order, and nothing else is.
WalkComplete ==
    /\ LET accepted == {e.file : e \in {x \in repo.entries : Accepted(x)}} IN
       accepted \ repo.fragile \subseteq ToSet(walked) /\ ToSet(walked) \subseteq accepted
    /\ \A i, j \in DOMAIN walked : i < j => walked[i] # walked[j] /\ TextBefore(RelPath(walked[i]), RelPath(walked[j]))
    /\ \A f \in DOMAIN sent : sent[f] <= 1

\* Each file has the analysis of its own content.
OwnAnalysis ==
    /\ DOMAIN analyses = DOMAIN parsed
    /\ \A i \in DOMAIN parsed : analyses[i] = Parse(DetectLanguage(parsed[i].ext), Content(parsed[i]))

\* The module a Rust path means: each segment moves in the tree of modules.
MeantModule(segs, from) ==
    FoldLeft(LAMBDA at, s : CASE s = Seg("crate") -> <<>> [] s = Seg("super") -> Front(at)
                              [] s \in {Seg("self"), Seg("*")} -> at [] OTHER -> Append(at, s), from, segs)
\* The resolver drops a closing `*` first and then strips only those `super`s that
\* something follows: a path that ends with one stays below the module it means.
EndsInSuper(segs) == LET path == IF Last(segs) = Seg("*") THEN Front(segs) ELSE segs IN Len(path) > 1 /\ Last(path) = Seg("super")
RustMeant(imp, f) ==
    LET root == CHOOSE r \in {f2 \in {SubSeq(f.path, 1, n) : n \in 0 .. Len(f.path)} : f2 # <<>> /\ Last(f2) = Seg("src")} : TRUE
        meant == MeantModule(imp.segs, ModuleOf(f, root))
        below == {g \in ToSet(parsed) : g.ext = "rs" /\ Under(root, g) /\ ModuleOf(g, root) # <<>> /\ IsPrefix(ModuleOf(g, root), meant)}
    IN  {g \in below : \A h \in below : Len(ModuleOf(h, root)) <= Len(ModuleOf(g, root))}

\* The names of an import that a file can carry: as written, or in snake case. An import
\* of dots alone names the directory of the file or one above it.
Spoken(imp) == LET named == SelectSeq(imp.segs, LAMBDA s : s \notin {Seg("."), Seg(".."), Seg("*")}) IN
    (UNION {{SubSeq(x, i, j) : i, j \in 1 .. Len(x)} : x \in {named, Snake(named)}}) \ {<<>>}
Carries(f, names, depth) ==
    \E n \in 0 .. Min({depth, Len(f.path)}), p \in names : IsSuffix(p, SubSeq(f.path, 1, Len(f.path) - n))

ImportsOf(i) == analyses[i].imports
\* An import of a file leads to a file of the run that carries its name, in Rust to the
\* innermost module the path goes through. A Go import leads into or below the directory
\* of the package, that of a whole module anywhere.
EdgesMeant ==
    \A i \in DOMAIN parsed : \A imp \in ImportsOf(i) :
        LET f == parsed[i] lang == DetectLanguage(f.ext)
            to == Targets(lang, imp, f, IndexOf(ToSet(parsed), ToSet(walked) \ scanned.lost)) IN
        /\ to \subseteq ToSet(parsed)
        /\ \A t \in to : <<f, "imports", t>> \in scanned.edges \/ t = f
        /\ lang = "rust" /\ imp.kind # "external" /\ ~EndsInSuper(imp.segs) => to = RustMeant(imp, f)
        /\ lang \notin {"rust", "go"} => \A t \in to : Carries(t, Spoken(imp), 1) \/ (Spoken(imp) = {} /\ IsPrefix(Dir(t), Dir(f)))
        /\ lang = "go" /\ imp.segs \notin Range(repo.goMods) => \A t \in to : Carries(t, Spoken(imp), 9)

\* The repository does not need another file for an edge: without a file g that is
\* neither end, the import still leads where it led.
EdgesStand ==
    \A i \in DOMAIN parsed, g \in {x \in ToSet(parsed) : ManifestKind(x) = "none"} : \A imp \in ImportsOf(i) :
        LET f == parsed[i] lang == DetectLanguage(f.ext) disk == ToSet(walked) \ scanned.lost
            To(gone) == Targets(lang, imp, f, IndexOf(ToSet(parsed) \ gone, disk \ gone)) IN
        g # f => To({}) \subseteq To({g}) \cup {g}

\* Of a dependency several manifests declare, one that lies nearest to the root counts.
NearestManifest ==
    LET read == {f \in ToSet(walked) \ scanned.lost : ManifestKind(f) # "none"}
        Declares(f, d) == \E i \in DOMAIN repo.manifests[f] :
                             repo.manifests[f][i].name = d.name /\ ManifestKind(f) = d.eco
        Near(d) == {f \in read : Declares(f, d) /\ \A g \in read : Declares(g, d) => Len(f.path) <= Len(g.path)}
    IN  /\ \A d, e \in scanned.deps : d.eco = e.eco /\ d.name = e.name => d = e
        /\ \A d \in scanned.deps : d.version \notin {"", "*", "workspace"} =>
               \E f \in Near(d) : \E i \in DOMAIN repo.manifests[f] : repo.manifests[f][i].version = d.version

\* However the visitors share the entries and whenever they flush and end: no accepted
\* file is lost between their buffers and the list, none is in it twice, and the list has
\* the order of the paths, so that it does not tell who visited what; the file that
\* vanishes may be missing. Each analysis belongs to its file.
FilesCollected ==
    /\ phase # "walk" => WalkComplete
    /\ phase \in {"parsed", "done"} => OwnAnalysis

\* What the scan tells of a repository is what is there: an import leads to the file it
\* names and does not owe that to a third one, and a dependency has the version of the
\* manifest nearest to the root.
SourceMapped == phase = "done" => EdgesMeant /\ EdgesStand /\ NearestManifest
=============================================================================
