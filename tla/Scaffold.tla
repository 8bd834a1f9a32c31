------------------------------- MODULE Scaffold -------------------------------
(* What `mati init` and `mati hooks` leave in a repository for the two agent    *)
(* hosts, and what `mati check` later says of it (scaffold/, cli/init.rs,       *)
(* cli/check.rs). The installer merges into files the user owns as well, reads  *)
(* each of them before it writes it, writes in place, and may be killed or fail *)
(* anywhere in between; the user edits the same files at any time.              *)
EXTENDS Naturals, Sequences, FiniteSets

CONSTANTS Events,     \* [host -> [script -> event it is registered for]]
          MaxEdits,   \* user edits
          MaxMishaps, \* failed writes and kills
          MaxInstalls, \* installer runs
          MaxActs     \* all of these together

Hosts == {"claude", "codex"}

\* Host names, script names and file names are different things.
ASSUME ScaffoldAssumption ==
    /\ DOMAIN Events = Hosts
    /\ \A h \in Hosts :
          /\ IsFiniteSet(DOMAIN Events[h])
          /\ DOMAIN Events[h] \cap {"notes", "settings", "mcp", "hooks", "config", "user"} = {}
    /\ MaxEdits \in Nat /\ MaxMishaps \in Nat /\ MaxInstalls \in Nat /\ MaxActs \in Nat

VARIABLES dirs,     \* hosts whose directory (.claude, .codex) exists
          cfg,      \* the configuration files mati shares with the user
          bak,      \* their backups
          scripts,  \* hook scripts
          notes,    \* .claude/CLAUDE.md
          inst,     \* the installer
          done,     \* hosts whose last installation succeeded, untouched since
          mine,     \* history: what the user has put into the files
          excused,  \* history: what of it was lost where the code cannot keep it
          edits, mishaps, installs

scVars == <<dirs, cfg, bak, scripts, notes, inst, done, mine, excused, edits, mishaps, installs>>

Scripts(h) == DOMAIN Events[h]
\* settings.json and hooks.json register hooks; settings.json, .mcp.json and
\* config.toml the MCP server.
CfgFiles(h) == IF h = "claude" THEN {"settings", "mcp"} ELSE {"hooks", "config"}
AllCfg == CfgFiles("claude") \cup CfgFiles("codex")
HostOf(f) == CHOOSE h \in Hosts : f \in CfgFiles(h)
HasHooks(f) == f \in {"settings", "hooks"}
HasServers(f) == f \in {"settings", "mcp", "config"}

-----------------------------------------------------------------------------
(* Configuration files. form: absent, an object, another JSON value ("other"),  *)
(* or text that does not parse ("broken"). odd: sections whose shape is not the *)
(* expected one (a hooks value that is no object, an inline mcp_servers table;  *)
(* "rest" for the features and skills of config.toml).                          *)

Empty == [form |-> "object", entries |-> {}, servers |-> {}, rest |-> FALSE, odd |-> {}]
Missing == [Empty EXCEPT !.form = "absent"]

Entry(e, cmds) == [event |-> e, cmds |-> cmds]
MatiEntries(h) == {Entry(Events[h][s], {s}) : s \in Scripts(h)}
\* mati_hook_commands: the commands mati registers for one event.
OwnedAt(h, e) == {s \in Scripts(h) : Events[h][s] = e}

\* Mutant: an event mati writes is taken over whole.
MergeHooksTakesOver(h, c) ==
    [c EXCEPT !.entries = MatiEntries(h) \cup
                          {e \in c.entries : OwnedAt(h, e.event) = {}},
              !.odd = @ \ {"hooks"}]

\* merge_hooks: per event mati uses, entries with one of its commands go, its
\* own are appended; a section of another shape is replaced.
MergeHooks(h, c) ==
    [c EXCEPT !.entries = MatiEntries(h) \cup
                  IF "hooks" \in c.odd THEN {}
                  ELSE {e \in c.entries : e.cmds \cap OwnedAt(h, e.event) = {}},
              !.odd = @ \ {"hooks"}]

MergeServer(c) == [c EXCEPT !.servers = (IF "servers" \in c.odd THEN {} ELSE @) \cup {"mati"},
                            !.odd = @ \ {"servers"}]

\* merge_hooks_into_settings: broken text counts as an empty object, another
\* JSON value is written back as it is.
MergeSettings(c) ==
    IF c.form = "other" THEN c
    ELSE MergeServer(MergeHooks("claude", IF c.form = "object" THEN c ELSE Empty))

\* write_mcp_json: anything that is no object is replaced.
WriteMcpJson(c) == MergeServer(IF c.form = "object" THEN c ELSE Empty)

\* merge_hooks_json: broken text is backed up first; another value is an error.
MergeHooksJson(c) == MergeHooks("codex", IF c.form = "object" THEN c ELSE Empty)

\* merge_config_toml: a table of another shape is replaced by an empty one, the
\* features and the skills as well as the servers.
MergeConfigToml(c) ==
    LET d == IF c.form = "object" THEN c ELSE Empty IN
    MergeServer([d EXCEPT !.rest = @ /\ "rest" \notin d.odd, !.odd = @ \ {"rest"}])

Merged(f, c) == CASE f = "settings" -> MergeSettings(c)
                  [] f = "mcp"      -> WriteMcpJson(c)
                  [] f = "hooks"    -> MergeHooksJson(c)
                  [] f = "config"   -> MergeConfigToml(c)

MergeRefuses(f, c) == f = "hooks" /\ c.form = "other"
BacksUp(f, c) == f \in {"hooks", "config"} /\ c.form = "broken"

-----------------------------------------------------------------------------
(* CLAUDE.md: the user's text before and after mati's marked block. Text of a   *)
(* file without a block counts as before it.                                    *)

NoNotes == [there |-> FALSE, before |-> FALSE, block |-> "none", after |-> FALSE]

\* write_claude_md_stub: create, append, or replace between the markers; without
\* the end marker everything after the first one goes.
WriteClaudeMdStub(n) ==
    IF ~n.there THEN [NoNotes EXCEPT !.there = TRUE, !.block = "current"]
    ELSE [n EXCEPT !.block = "current", !.after = n.after /\ n.block # "open"]

-----------------------------------------------------------------------------
(* Checks (cli/check.rs). They look for names in the text, not for entries.     *)

FreshScript == [text |-> "current", exec |-> TRUE]
NoScript == [text |-> "absent", exec |-> FALSE]

CheckHooks(h) == h \in dirs =>
    \A s \in Scripts(h) : scripts[h][s].text # "absent" /\ scripts[h][s].exec

Mentions(c, s) == \E e \in c.entries : s \in e.cmds

CheckClaudeConfig == "claude" \in dirs =>
    LET c == cfg["settings"] IN
    /\ c.form \notin {"absent", "broken"}
    /\ \A s \in Scripts("claude") : Mentions(c, s)
    /\ "mati" \in c.servers /\ "servers" \notin c.odd

CheckCodexConfig == "codex" \in dirs =>
    /\ cfg["hooks"].form \notin {"absent", "broken"}
    /\ \A s \in Scripts("codex") : Mentions(cfg["hooks"], s)
    /\ cfg["config"].form # "absent"
    /\ "mati" \in cfg["config"].servers /\ "servers" \notin cfg["config"].odd

CheckAgentHost == dirs # {}
\* enforcement_results: the checks of one host, with the command that fixes them.
CheckHost(h) == CheckHooks(h) /\ (IF h = "claude" THEN CheckClaudeConfig ELSE CheckCodexConfig)

-----------------------------------------------------------------------------
(* The installer: the steps of install_scaffold, one file at a time.            *)

\* Scripts are written in the order of HOOK_SCRIPTS.
Order(h) == CHOOSE q \in [1..Cardinality(Scripts(h)) -> Scripts(h)] :
                \A i, j \in DOMAIN q : q[i] = q[j] => i = j

Steps(h) == (IF h = "claude" THEN <<"notes", "settings", "mcp">> ELSE <<"hooks", "config">>)
            \o Order(h)

\* copy, seen: what the step read of a configuration file or of CLAUDE.md; saved:
\* the copy is in the backup.
NoInst == [pc |-> "none", queue |-> <<>>, host |-> "none", left |-> <<>>, copy |-> Missing,
           seen |-> NoNotes, saved |-> FALSE, touched |-> FALSE]

ActsLeft == edits + mishaps + installs < MaxActs

\* Platform selection: flags ask for hosts, otherwise the directories decide.
\* --claude and --codex create a missing directory.
InstallStart(flags) ==
    /\ inst.pc = "none" /\ installs < MaxInstalls /\ ActsLeft
    /\ LET want == IF flags # {} THEN flags ELSE dirs
           q    == (IF "claude" \in want THEN <<"claude">> ELSE <<>>)
                   \o (IF "codex" \in want THEN <<"codex">> ELSE <<>>)
       IN inst' = [NoInst EXCEPT !.pc = "next", !.queue = q]
    /\ installs' = installs + 1
    /\ UNCHANGED <<dirs, cfg, bak, scripts, notes, done, mine, excused, edits, mishaps>>

\* The files of this host are done with, one way or the other.
HostOver == [NoInst EXCEPT !.pc = "next", !.queue = inst.queue]

InstallHost ==
    /\ inst.pc = "next"
    /\ IF inst.queue = <<>> THEN inst' = NoInst /\ UNCHANGED <<dirs, done>>
       ELSE LET h == Head(inst.queue) IN
            /\ inst' = [NoInst EXCEPT !.pc = "read", !.queue = Tail(inst.queue), !.host = h,
                                      !.left = Steps(h)]
            /\ dirs' = dirs \cup {h}
            /\ done' = done \ {h}
    /\ UNCHANGED <<cfg, bak, scripts, notes, mine, excused, edits, mishaps, installs>>

\* What of the user's contributions a configuration file or its backup holds.
\* A "mixed" command sits in an entry of mati's.
Holds(f, c) ==
    IF c.form = "absent" THEN {} ELSE
    {<<f, "entry">>  : e \in {x \in c.entries : x.cmds = {"user"}}} \cup
    {<<f, "mixed">>  : e \in {x \in c.entries : "user" \in x.cmds /\ x.cmds # {"user"}}} \cup
    (IF "user" \in c.servers THEN {<<f, "server">>} ELSE {}) \cup
    (IF c.rest THEN {<<f, "rest">>} ELSE {})
HoldsNotes(n) == (IF n.before THEN {<<"notes", "before">>} ELSE {}) \cup
                 (IF n.after THEN {<<"notes", "after">>} ELSE {})

Kept(m) == \/ \E f \in AllCfg : m \in Holds(f, cfg[f]) \cup Holds(f, bak[f])
           \/ m \in HoldsNotes(notes)

\* The step may lose the contributions S; those it does lose are excused.
MayLose(S) == excused' = excused \cup {m \in mine \cap S : ~Kept(m)'}

AtHand == Head(inst.left)

\* The step the installer is at reads its file.
InstallRead ==
    /\ inst.pc = "read" /\ inst.left # <<>>
    /\ inst' = IF AtHand \in AllCfg
               THEN IF MergeRefuses(AtHand, cfg[AtHand]) THEN HostOver
                    ELSE [inst EXCEPT !.copy = cfg[AtHand],
                              !.pc = IF BacksUp(AtHand, cfg[AtHand]) THEN "backup" ELSE "write"]
               ELSE [inst EXCEPT !.pc = "write", !.seen = IF AtHand = "notes" THEN notes ELSE @]
    /\ UNCHANGED <<dirs, cfg, bak, scripts, notes, done, mine, excused, edits, mishaps,
                   installs>>

\* std::fs::write truncates before it writes: what a write cut short leaves does
\* not parse, except that an empty config.toml does, and has the user's part cut off.
CutCfg(f) == {[Empty EXCEPT !.form = "broken"]} \cup (IF f = "config" THEN {Empty} ELSE {})

\* The codex merges copy text that does not parse to a backup first, and go on
\* with a warning when that fails. An older backup is overwritten.
InstallBackup ==
    /\ inst.pc = "backup"
    /\ \/ /\ bak' = [bak EXCEPT ![AtHand] = inst.copy]
          /\ inst' = [inst EXCEPT !.pc = "write", !.saved = TRUE]
          /\ UNCHANGED mishaps
       \/ /\ mishaps < MaxMishaps /\ ActsLeft
          /\ \E c \in CutCfg(AtHand) \cup {bak[AtHand]} : bak' = [bak EXCEPT ![AtHand] = c]
          /\ inst' = [inst EXCEPT !.pc = "write"]
          /\ mishaps' = mishaps + 1
    /\ UNCHANGED <<cfg, notes>> /\ MayLose(Holds(AtHand, bak[AtHand]))
    /\ UNCHANGED <<dirs, scripts, done, mine, edits, installs>>

Advance == [inst EXCEPT !.pc = "read", !.left = Tail(@), !.copy = Missing,
                        !.seen = NoNotes, !.saved = FALSE]

\* What a write of file f may lose, by the shape of what it read: settings.json
\* and .mcp.json that did not parse, a codex file that did not parse and could not
\* be backed up, a section of another shape, a command in an entry of mati's, and
\* an edit made since the read.
Lossy(f, c) ==
    (IF c.form \in {"broken", "other"} /\ ~inst.saved /\ ~(f = "settings" /\ c.form = "other")
     THEN Holds(f, c) ELSE {}) \cup
    (IF "hooks" \in c.odd THEN {<<f, "entry">>, <<f, "mixed">>} ELSE {}) \cup
    (IF "servers" \in c.odd THEN {<<f, "server">>} ELSE {}) \cup
    (IF "rest" \in c.odd /\ f = "config" THEN {<<f, "rest">>} ELSE {}) \cup
    {<<f, "mixed">>} \cup
    (IF c # cfg[f] THEN Holds(f, cfg[f]) ELSE {})

InstallWriteCfg ==
    /\ inst.pc = "write" /\ AtHand \in AllCfg
    /\ cfg' = [cfg EXCEPT ![AtHand] = Merged(AtHand, inst.copy)]
    /\ inst' = Advance
    /\ UNCHANGED <<bak, notes>> /\ MayLose(Lossy(AtHand, inst.copy))
    /\ UNCHANGED <<dirs, scripts, done, mine, edits, mishaps, installs>>

\* CLAUDE.md is left alone when the text it read has the block already.
\* Otherwise an edit made since goes, and what follows a block without an end.
InstallWriteNotes ==
    /\ inst.pc = "write" /\ AtHand = "notes"
    /\ notes' = IF WriteClaudeMdStub(inst.seen) = inst.seen THEN notes
                ELSE WriteClaudeMdStub(inst.seen)
    /\ inst' = Advance
    /\ UNCHANGED <<cfg, bak>>
    /\ MayLose((IF inst.seen # notes THEN HoldsNotes(notes) ELSE {}) \cup
               (IF inst.seen.block = "open" THEN {<<"notes", "after">>} ELSE {}))
    /\ UNCHANGED <<dirs, scripts, done, mine, edits, mishaps, installs>>

\* write_if_changed and make_executable.
InstallWriteScript ==
    /\ inst.pc = "write" /\ Head(inst.left) \in Scripts(inst.host)
    /\ scripts' = [scripts EXCEPT ![inst.host][Head(inst.left)] = FreshScript]
    /\ inst' = Advance
    /\ UNCHANGED <<dirs, cfg, bak, notes, done, mine, excused, edits, mishaps, installs>>

\* Mutant: reported as installed before the files are written.
InstallDoneEarly ==
    /\ inst.pc = "read" /\ Len(inst.left) <= 1
    /\ done' = IF inst.touched THEN done ELSE done \cup {inst.host}
    /\ inst' = HostOver
    /\ UNCHANGED <<dirs, cfg, bak, scripts, notes, mine, excused, edits, mishaps, installs>>

InstallDone ==
    /\ inst.pc = "read" /\ inst.left = <<>>
    /\ done' = IF inst.touched THEN done ELSE done \cup {inst.host}
    /\ inst' = HostOver
    /\ UNCHANGED <<dirs, cfg, bak, scripts, notes, mine, excused, edits, mishaps, installs>>

\* The file at hand is to be rewritten, and its write is cut short.
CutNotes(n) == {[NoNotes EXCEPT !.there = TRUE], [n EXCEPT !.block = "none", !.after = FALSE],
                [n EXCEPT !.block = "open", !.after = FALSE]}
CutShort ==
    /\ inst.pc = "write"
    /\ \/ /\ AtHand \in AllCfg /\ Merged(AtHand, inst.copy) # cfg[AtHand]
          /\ \E c \in CutCfg(AtHand) : cfg' = [cfg EXCEPT ![AtHand] = c]
          /\ UNCHANGED <<bak, notes, scripts>>
          /\ MayLose(Holds(AtHand, cfg[AtHand]))
       \/ /\ AtHand = "notes" /\ WriteClaudeMdStub(inst.seen) # inst.seen
          /\ \E n \in CutNotes(WriteClaudeMdStub(inst.seen)) : notes' = n
          /\ UNCHANGED <<cfg, bak, scripts>>
          /\ MayLose(HoldsNotes(notes))
       \/ /\ AtHand \in Scripts(inst.host) /\ scripts[inst.host][AtHand].text # "current"
          /\ scripts' = [scripts EXCEPT ![inst.host][AtHand].text = "other"]
          /\ UNCHANGED <<cfg, bak, notes, excused>>

\* A failed read or write: CLAUDE.md is only warned about, any other file ends
\* the host.
InstallFails ==
    /\ inst.pc = "write" /\ mishaps < MaxMishaps /\ ActsLeft
    /\ CutShort \/ UNCHANGED <<cfg, bak, notes, scripts, excused>>
    /\ inst' = IF AtHand = "notes" THEN Advance ELSE HostOver
    /\ mishaps' = mishaps + 1
    /\ UNCHANGED <<dirs, done, mine, edits, installs>>

\* Killed, maybe within a write or a backup.
InstallKilled ==
    /\ inst.pc # "none" /\ mishaps < MaxMishaps /\ ActsLeft
    /\ \/ UNCHANGED <<cfg, bak, notes, scripts, excused>>
       \/ CutShort
       \/ /\ inst.pc = "backup"
          /\ \E c \in CutCfg(AtHand) : bak' = [bak EXCEPT ![AtHand] = c]
          /\ UNCHANGED <<cfg, notes, scripts>> /\ MayLose(Holds(AtHand, bak[AtHand]))
    /\ inst' = NoInst
    /\ mishaps' = mishaps + 1
    /\ UNCHANGED <<dirs, done, mine, edits, installs>>

-----------------------------------------------------------------------------
(* The user.                                                                    *)

UserEdit(h) == /\ edits < MaxEdits /\ ActsLeft
               /\ edits' = edits + 1
               /\ done' = done \ {h}
               /\ inst' = [inst EXCEPT !.touched = @ \/ inst.host = h]
               /\ UNCHANGED <<dirs, bak, mishaps, installs>>

EditCfg(f, c) ==
    /\ c # cfg[f]
    /\ UserEdit(HostOf(f)) /\ HostOf(f) \in dirs
    /\ cfg' = [cfg EXCEPT ![f] = c]
    /\ mine' = (mine \ Holds(f, cfg[f])) \cup Holds(f, c)
    /\ excused' = excused \ Holds(f, c)
    /\ UNCHANGED <<scripts, notes>>

There(c) == IF c.form = "absent" THEN Empty ELSE c

UserAddsHook(f, e) == /\ HasHooks(f) /\ cfg[f].form # "other"
                      /\ EditCfg(f, [There(cfg[f]) EXCEPT !.entries = @ \cup {Entry(e, {"user"})}])
UserSharesEntry(f) ==
    /\ HasHooks(f)
    /\ \E e \in cfg[f].entries : EditCfg(f, [cfg[f] EXCEPT !.entries =
            (@ \ {e}) \cup {[e EXCEPT !.cmds = @ \cup {"user"}]}])
UserDropsHooks(f) == EditCfg(f, [cfg[f] EXCEPT !.entries = {e \in @ : "user" \in e.cmds}])
UserAddsServer(f) == /\ HasServers(f) /\ cfg[f].form # "other"
                     /\ EditCfg(f, [There(cfg[f]) EXCEPT !.servers = @ \cup {"user"}])
UserAddsRest(f) == cfg[f].form # "other" /\ EditCfg(f, [There(cfg[f]) EXCEPT !.rest = TRUE])
UserBreaks(f) == cfg[f].form = "object" /\ EditCfg(f, [cfg[f] EXCEPT !.form = "broken"])
UserRepairs(f) == cfg[f].form = "broken" /\ EditCfg(f, [cfg[f] EXCEPT !.form = "object"])
UserReplaces(f) == cfg[f].form = "object" /\ EditCfg(f, [Empty EXCEPT !.form = "other"])
UserReshapes(f, sect) ==
    /\ cfg[f].form = "object"
    /\ sect = "hooks" => HasHooks(f) /\ \A e \in cfg[f].entries : e.cmds = {"user"}
    /\ sect = "servers" => HasServers(f) /\ "mati" \notin cfg[f].servers
    /\ sect = "rest" => f = "config"
    /\ EditCfg(f, [cfg[f] EXCEPT !.odd = @ \cup {sect}])

UserEditsScript(h, s) ==
    /\ UserEdit(h) /\ scripts[h][s].text # "absent"
    /\ \E r \in {NoScript, [scripts[h][s] EXCEPT !.exec = FALSE],
                 [scripts[h][s] EXCEPT !.text = "other"]} :
          scripts' = [scripts EXCEPT ![h][s] = r]
    /\ UNCHANGED <<cfg, notes, mine, excused>>

UserEditsNotes ==
    /\ UserEdit("claude") /\ "claude" \in dirs
    /\ \E n \in {[notes EXCEPT !.there = TRUE, !.before = TRUE],
                 [notes EXCEPT !.there = TRUE, !.after = @ \/ notes.block # "none"],
                 [notes EXCEPT !.before = @ \/ notes.after, !.block = "none", !.after = FALSE],
                 [notes EXCEPT !.block = IF @ = "current" THEN "open" ELSE @],
                 [notes EXCEPT !.block = IF @ = "current" THEN "old" ELSE @]} :
          /\ n # notes
          /\ notes' = n
          /\ mine' = (mine \ HoldsNotes(notes)) \cup HoldsNotes(n)
          /\ excused' = excused \ HoldsNotes(n)
    /\ UNCHANGED <<cfg, scripts>>

-----------------------------------------------------------------------------

ScInit ==
    /\ dirs \in SUBSET Hosts
    /\ cfg = [f \in AllCfg |-> Missing]
    /\ bak = [f \in AllCfg |-> Missing]
    /\ scripts = [h \in Hosts |-> [s \in Scripts(h) |-> NoScript]]
    /\ notes = NoNotes
    /\ inst = NoInst
    /\ done = {} /\ mine = {} /\ excused = {}
    /\ edits = 0 /\ mishaps = 0 /\ installs = 0

User == \/ \E f \in AllCfg :
              \/ \E e \in {Events["claude"][s] : s \in Scripts("claude")} : UserAddsHook(f, e)
              \/ UserSharesEntry(f) \/ UserDropsHooks(f) \/ UserAddsServer(f) \/ UserAddsRest(f)
              \/ UserBreaks(f) \/ UserRepairs(f) \/ UserReplaces(f)
              \/ \E s \in {"hooks", "servers", "rest"} : UserReshapes(f, s)
        \/ \E h \in Hosts : \E s \in Scripts(h) : UserEditsScript(h, s)
        \/ UserEditsNotes

Installer == \/ \E flags \in SUBSET Hosts : InstallStart(flags)
             \/ InstallHost \/ InstallRead \/ InstallBackup \/ InstallWriteCfg \/ InstallWriteNotes
             \/ InstallWriteScript \/ InstallDone \/ InstallFails \/ InstallKilled

ScNext == User \/ Installer

ScSpec == ScInit /\ [][ScNext]_scVars

-----------------------------------------------------------------------------
(* Properties.                                                                  *)

\* An installation that reported success leaves nothing for `mati check` to
\* fail on, whatever was there before and as long as nobody touches the files.
\* The exception is a settings.json holding a JSON value that is no object,
\* which the merge writes back unchanged.
InstalledChecks ==
    \A h \in done : CheckHost(h) \/ (h = "claude" /\ cfg["settings"].form = "other")

\* What the user has put into a shared file is in it, or in its backup, after
\* any number of installations, failures and kills, except for what the write of
\* a step lost in one of the ways Lossy and InstallWriteNotes list (what did not
\* parse and has no backup, a section of another shape, an edit since the read),
\* what a write cut short took, and an older backup under a newer one.
UserKept == \A m \in mine : m \in excused \/ Kept(m)
=============================================================================
