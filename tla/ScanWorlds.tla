----------------------------- MODULE ScanWorlds -----------------------------
(* Small repositories for the scan, one or two per language, and their alphabet. *)
EXTENDS SourceScan

P(names) == [i \in DOMAIN names |-> Seg(names[i])]
F(names, ext) == At(P(names), ext)
FileEntry(f) == [file |-> f, kind |-> "file", large |-> FALSE]

Leaf(path) == [kind |-> "leaf", path |-> P(path), kids |-> {}]
List(path, kids) == [kind |-> "list", path |-> P(path), kids |-> kids]
Use(tree) == [tag |-> "import", tree |-> tree]
Imp(segs, dots, ext, form) == [tag |-> "import", segs |-> segs, dots |-> dots, ext |-> ext, form |-> form]
Decl(tag, name, pub, top) == [tag |-> tag, name |-> name, pub |-> pub, top |-> top]
Note(form, row, text, mark) == [tag |-> "comment", form |-> form, row |-> row, text |-> text, mark |-> mark]

World(content, others, fragile) ==
    [entries |-> {FileEntry(f) : f \in DOMAIN content} \cup others, content |-> content, fragile |-> fragile,
     same |-> {{}} \cup {{f} : f \in DOMAIN content}, pairs |-> {},
     cargo |-> [members |-> {}, package |-> FALSE, names |-> <<>>], goMods |-> <<>>, manifests |-> <<>>]

Cargo == F(<<"Cargo">>, "toml")
Line(form, section, name, version) == [form |-> form, section |-> section, name |-> name, version |-> version]
Header(section, name) == Line("header", section, name, "")
Str(name, version) == Line("string", "", name, version)

Lib == F(<<"src", "lib">>, "rs")
A == F(<<"src", "a">>, "rs")
AB == F(<<"src", "a", "b">>, "rs")
ABC == F(<<"src", "a", "b", "c">>, "rs")
Crate ==
    LET w == World((Lib :> <<Note("//!", 0, "doc", "todo"), Note("//!", 1, "more", ""), Decl("fn", "run", TRUE, TRUE), Decl("fn", "aux", FALSE, TRUE),
                            Use(List(<<"crate">>, {List(<<"a", "b">>, {Leaf(<<"self">>), Leaf(<<"T">>)}), Leaf(<<"a", "*">>)})), Decl("match", "", FALSE, FALSE)>>
                   @@ A :> <<Note("//", 3, "x", "fixme"), Use(Leaf(<<"self", "b", "T">>)), Use(Leaf(<<"super", "a", "b", "c">>)), Use(Leaf(<<"std", "fmt">>))>>
                   @@ AB :> <<Use(Leaf(<<"super", "T">>)), Use(Leaf(<<"super", "super", "*">>)), Use(Leaf(<<"super", "super", "a", "b", "c", "d">>))>>
                   @@ ABC :> <<Use(Leaf(<<"super", "super", "T">>)), Use(Leaf(<<"crate", "T">>))>>), {}, {AB})
    IN [w EXCEPT !.pairs = {<<A, ABC>>}]

Main == F(<<"src", "main">>, "rs")
Core == F(<<"crates", "core", "src", "lib">>, "rs")
CoreX == F(<<"crates", "core", "src", "x", "mod">>, "rs")
Workspace ==
    LET w == World((Main :> <<Use([Leaf(<<"my_core", "x">>) EXCEPT !.path[1] = <<"my", "_", "core">>]), Use(Leaf(<<"serde", "Value">>))>>
                    @@ Core :> <<Use(Leaf(<<"crate", "x", "Y">>))>> @@ CoreX :> <<Use(Leaf(<<"super", "x", "Z">>)), Use(Leaf(<<"crate", "*">>))>>
                    @@ Cargo :> <<>>), {}, {})
        core == P(<<"crates", "core">>)
    IN [w EXCEPT !.cargo = [members |-> {[dir |-> P(<<"crates">>), star |-> TRUE]}, package |-> TRUE,
                            names |-> (core :> <<"my", "-", "core">> @@ <<>> :> Seg("mati"))],
                 !.manifests = (Cargo :> <<Header("dependencies", ""), Str("serde", "1")>>)]

Py(segs, dots) == Imp(P(segs), dots, "", "")
Python ==
    World((F(<<"pkg", "__init__">>, "py") :> <<[tag |-> "docstring", text |-> "doc"], Py(<<"pkg", "m">>, 0)>>
        @@ F(<<"pkg", "m">>, "py") :> <<Py(<<"os">>, 0), Py(<<"pkg">>, 0), Py(<<>>, 1), Py(<<"sub", "n">>, 1), Decl("fn", "_f", FALSE, TRUE), Decl("fn", "g", TRUE, FALSE)>>
        @@ F(<<"pkg", "sub", "n">>, "py") :> <<Py(<<"m">>, 2), Py(<<"m">>, 3), Decl("class", "C", TRUE, TRUE), Note("#", 2, "", "hack")>>), {}, {F(<<"pkg", "m">>, "py")})

Ts(segs, ext) == Imp(P(segs), 0, ext, "")
Ecma ==
    World((F(<<"src", "a">>, "ts") :> <<Note("/**", 0, "doc", ""), Note("//", 2, "apart", "@ts-"), Ts(<<".", "b">>, ""), Ts(<<".", "b", "c">>, ""), Ts(<<"react">>, ""), Decl("re_export", "b", TRUE, TRUE)>>
        @@ F(<<"src", "b", "index">>, "ts") :> <<Ts(<<"..", "a">>, ""), Ts(<<".", "c">>, "tsx")>>
        @@ F(<<"src", "b", "c">>, "tsx") :> <<Ts(<<".">>, ""), Ts(<<"..", "..", "x">>, "js")>>
        @@ F(<<"x">>, "js") :> <<Ts(<<".", "src", "a">>, ""), Ts(<<".", "src", ".", "b">>, "")>>), {}, {})

GoMod == F(<<"go">>, "mod")
Host == <<"ex", ".", "com">>
Go ==
    LET w == World((F(<<"main">>, "go") :> <<Imp(<<Host, Seg("m"), Seg("pkg")>>, 0, "", ""), Imp(<<Host, Seg("m")>>, 0, "", ""), Imp(<<Seg("fmt")>>, 0, "", ""), Imp(<<Host, Seg("n"), Seg("pkg")>>, 0, "", "")>>
                   @@ F(<<"pkg", "a">>, "go") :> <<Imp(<<Host, Seg("m"), Seg("pkg"), Seg("sub")>>, 0, "", ""), Note("//", 0, "directive", ""), Note("//", 2, "doc", ""), Decl("method", "Run", TRUE, TRUE), Decl("fn", "aux", FALSE, TRUE)>>
                   @@ At(<<Seg("pkg"), <<"a", "_test">>>>, "go") :> <<>> @@ F(<<"pkg", "sub", "b">>, "go") :> <<Decl("select", "", FALSE, FALSE)>> @@ GoMod :> <<>>), {}, {F(<<"pkg", "a">>, "go")})
    IN [w EXCEPT !.goMods = (<<>> :> <<Host, Seg("m")>>), !.manifests = (GoMod :> <<Line("string", "require", "x", "1"), Line("comment", "require", "y", "1")>>)]

C ==
    World((F(<<"src", "a">>, "c") :> <<Imp(P(<<"a">>), 0, "h", "quote"), Imp(P(<<"lib">>), 0, "h", "angle"), Imp(P(<<"stdio">>), 0, "h", "angle"), Imp(P(<<"..", "lib", "u">>), 0, "h", "quote"), Decl("struct", "S", FALSE, TRUE)>>
        @@ F(<<"src", "a">>, "h") :> <<Imp(P(<<"lib">>), 0, "h", "quote"), Note("/*", 0, "doc", "deprecated"), Note("//", 1, "more", "")>>
        @@ F(<<"include", "lib">>, "h") :> <<>> @@ F(<<"lib", "u">>, "h") :> <<Imp(P(<<"src", "a">>), 0, "h", "quote")>>), {}, {F(<<"include", "lib">>, "h")})
Cpp ==
    World((F(<<"m">>, "cpp") :> <<Imp(P(<<"m">>), 0, "hpp", "quote"), Imp(P(<<"v", "w">>), 0, "", "angle"), Imp(P(<<"vector">>), 0, "", "angle"), Decl("class", "K", FALSE, TRUE), Decl("try", "", FALSE, FALSE)>>
        @@ F(<<"m">>, "hpp") :> <<Imp(P(<<"v", "w">>), 0, "hpp", "quote")>> @@ F(<<"v", "w">>, "hpp") :> <<>>), {}, {})

Jp(names) == F(<<"src", "main", "java", "p">> \o names, "java")
Java ==
    World((Jp(<<"A">>) :> <<Imp(P(<<"p", "B">>), 0, "", ""), Imp(P(<<"p", "q", "C">>), 0, "", ""), Imp(P(<<"p", "*">>), 0, "", ""), Imp(P(<<"java", "util">>), 0, "", ""), Note("/**", 0, "doc", ""), Note("/**", 4, "more", "")>>
        @@ Jp(<<"B">>) :> <<Imp(P(<<"p", "A", "Inner">>), 0, "", ""), Decl("record", "B", TRUE, TRUE)>>
        @@ Jp(<<"q", "C">>) :> <<Decl("method", "f", TRUE, TRUE), Decl("ternary", "", FALSE, FALSE)>>), {}, {Jp(<<"B">>)})

Sc(names) == F(<<"core", "src", "main", "scala">> \o names, "scala")
Scala ==
    World((Sc(<<"p", "C">>) :> <<Imp(P(<<"p", "E">>), 0, "", ""), Imp(P(<<"scala", "util">>), 0, "", ""), Decl("object", "C", TRUE, TRUE)>>
        @@ F(<<"src", "test", "scala", "p", "E">>, "scala") :> <<Imp(P(<<"p", "C">>), 0, "", ""), Note("//", 0, "doc", "note")>>), {}, {})

MyApp == <<"M", "y", "A", "pp">>
Elixir ==
    World((At(<<Seg("lib"), <<"m", "y", "_", "a", "pp">>, <<"u", "ser">>>>, "ex") :> <<Imp(<<MyApp, <<"R", "epo">>>>, 0, "", ""), Imp(<<<<"E", "cto">>>>, 0, "", ""), Decl("defmodule", "MyApp.User", TRUE, TRUE), Decl("def", "", TRUE, TRUE), [tag |-> "docstring", text |-> "doc"]>>
        @@ At(<<Seg("lib"), <<"m", "y", "_", "a", "pp">>, <<"r", "epo">>>>, "ex") :> <<Imp(<<MyApp, <<"U", "ser">>>>, 0, "", ""), Decl("cond", "", FALSE, FALSE)>>), {}, {})

Haskell ==
    World((F(<<"app", "Main">>, "hs") :> <<Imp(P(<<"Lib", "Foo">>), 0, "", ""), Imp(P(<<"Control", "Monad", "X">>), 0, "", ""), Note("-- |", 0, "doc", "")>>
        @@ F(<<"src", "Lib", "Foo">>, "hs") :> <<Imp(P(<<"Main">>), 0, "", ""), Decl("bind", "foo", TRUE, TRUE), Decl("newtype", "N", TRUE, TRUE)>>
        @@ F(<<"src", "Control", "Monad", "X">>, "hs") :> <<>>), {}, {})

UserClass == <<"U", "ser">>
TagClass == <<"T", "ag">>
Ruby ==
    World((At(<<Seg("app"), Seg("models"), <<"u", "ser">>>>, "rb") :> <<Imp(<<TagClass>>, 0, "", "include"), Imp(<<Seg("Object")>>, 0, "", "superclass"), Imp(P(<<"pay">>), 0, "", "require"), Note("#", 0, "directive", ""), Note("#", 1, "doc", "")>>
        @@ At(<<Seg("app"), Seg("models"), Seg("concerns"), <<"t", "ag">>>>, "rb") :> <<Imp(P(<<"..", "user">>), 0, "", "require_relative"), Decl("method", "tag", TRUE, TRUE)>>
        @@ F(<<"lib", "pay">>, "rb") :> <<Imp(<<UserClass>>, 0, "", "superclass"), Imp(P(<<"puts">>), 0, "", "puts"), Imp(P(<<"run">>), 0, "", "require_relative"), Decl("rescue", "", FALSE, FALSE)>>
        @@ F(<<"lib", "run">>, "rb") :> <<Imp(P(<<"pay">>), 0, "", "require_dependency")>>), {}, {F(<<"lib", "run">>, "rb")})

\* Manifests at three depths and entries the walk refuses.
Sub(names) == F(names \o <<"Cargo">>, "toml")
Npm == F(<<"package">>, "json")
NpmSub == F(<<"web", "package">>, "json")
Manifests ==
    LET files == {Cargo, Sub(<<"x">>), Sub(<<"x", "y">>), Npm, NpmSub}
        w == World([f \in files |-> <<>>], {[file |-> F(<<".git", "HEAD">>, "toml"), kind |-> "file", large |-> FALSE],
                   [file |-> F(<<"link">>, "rs"), kind |-> "symlink", large |-> FALSE], [file |-> F(<<"big">>, "rs"), kind |-> "file", large |-> TRUE],
                   FileEntry(F(<<"logo">>, "png"))}, {Cargo})
    IN [w EXCEPT !.same = {{}}, !.manifests =
          (Cargo :> <<Header("package", ""), Str("name", "mati"), Header("dependencies", ""), Str("a", "1"), Line("dotted", "", "b", "workspace"),
                      Line("inline", "", "c", "2"), Line("inline-none", "", "d", ""), Header("dev-dependencies", "t"), Str("version", "3"), Header("array", "")>>
           @@ Sub(<<"x">>) :> <<Header("dependencies", ""), Str("a", "2"), Header("build-dependencies", "e"), Line("true", "", "workspace", ""), Header("dependencies", "f")>>
           @@ Sub(<<"x", "y">>) :> <<Header("dependencies", ""), Str("a", "3"), Str("z", "1")>>
           @@ Npm :> <<Line("string", "dependencies", "a", "9"), Line("object", "devDependencies", "l", "")>>
           @@ NpmSub :> <<Line("string", "devDependencies", "l", "8"), Line("string", "devDependencies", "m", "7")>>)]

MCWorlds == [nothing |-> World(<<>>, {}, {}), crate |-> Crate, workspace |-> Workspace, python |-> Python, ecma |-> Ecma, go |-> Go, c |-> C, cpp |-> Cpp,
             java |-> Java, scala |-> Scala, elixir |-> Elixir, haskell |-> Haskell, ruby |-> Ruby, manifests |-> Manifests]
MCLowerOf == ("U" :> "u" @@ "T" :> "t" @@ "M" :> "m" @@ "A" :> "a" @@ "R" :> "r" @@ "E" :> "e" @@ "C" :> "c" @@ "L" :> "l")
MCCapitals == DOMAIN MCLowerOf
MCOutside == [python |-> {P(<<"os">>)}, ruby |-> {P(<<"Object">>)}, java |-> {P(<<"java">>)}, scala |-> {P(<<"scala">>)},
              elixir |-> {<<<<"E", "cto">>>>}, haskell |-> {P(<<"Control", "Monad">>)}]
MCAlphabet == <<"-", ".", "..", ".git", "/", "A", "B", "C", "Cargo", "Control", "E", "Foo", "HEAD", "Lib", "M", "Main", "Monad", "X", "_", "__init__",
    "_test", "a", "ag", "app", "b", "big", "c", "com", "concerns", "core", "cpp", "crates", "epo", "ex", "go", "h", "hpp", "hs", "include", "index",
    "java", "js", "json", "lib", "link", "logo", "m", "main", "mod", "models", "my", "n", "p", "package", "pay", "pkg", "png", "pp", "py", "q", "r",
    "rb", "rs", "run", "scala", "ser", "src", "sub", "t", "test", "toml", "ts", "tsx", "u", "v", "w", "web", "x", "y">>
=============================================================================
