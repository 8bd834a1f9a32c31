--------------------------- MODULE SchemaMigration ---------------------------
(* The schema migrations every Store::open runs (store/migrations.rs): snapshot  *)
(* of the knowledge tree, sentinel, one transaction per version. The process may *)
(* die between any two writes and inside the copy; the next open resumes. The    *)
(* store's lock keeps every other process out until migrate has returned.        *)
EXTENDS Naturals, FiniteSets

CONSTANTS AutoGotchas,     \* keys under cochange:, revert:, ownership:
          OwnGotchas,      \* every other gotcha
          TreeFiles,       \* files of knowledge.db/
          MaxChanges       \* bound on commands between opens

Current == 2
Versions == 0..(Current + 1)     \* the last one a newer binary wrote
ASSUME MigrationAssumption == IsFiniteSet(TreeFiles) /\ MaxChanges \in Nat

VARIABLES db,        \* [version, data, history, sentinel]: the knowledge tree
          backup,    \* [there, files, of]: backups/pre-v2/knowledge.db
          mig,       \* the open: "closed", a step of migrate, or "open"
          since,     \* history: auto gotchas confirmed at the current version
          origin,    \* history: the tree the first migrating open found
          tornCopy,  \* history: an open died inside the copy
          changes

smVars == <<db, backup, mig, since, origin, tornCopy, changes>>

GotchaKeys == AutoGotchas \cup OwnGotchas
States == {"none", "candidate", "confirmed", "deleted"}
Confirmed(d) == {g \in AutoGotchas : d[g] = "confirmed"}
Tree == [version |-> db.version, data |-> db.data]
Trees == [version : Versions, data : [GotchaKeys -> States]]
Dbs == [version : Versions, data : [GotchaKeys -> States], history : SUBSET Versions,
        sentinel : BOOLEAN]
Backups == [there : BOOLEAN, files : SUBSET TreeFiles, of : SUBSET Trees]
NoBackup == [there |-> FALSE, files |-> {}, of |-> {}]

-----------------------------------------------------------------------------

\* A probe of the knowledge prefixes; deleted records are records.
StoreIsEmpty == \A g \in GotchaKeys : db.data[g] = "none"

\* A newer store is refused, a current one is done; a sentinel left by a dead
\* process is cleared, if that works.
SmOpen ==
    /\ mig = "closed" /\ db.version <= Current
    /\ IF db.version = Current
       THEN mig' = "open" /\ UNCHANGED <<db, origin>>
       ELSE /\ \E s \in {FALSE, db.sentinel} : db' = [db EXCEPT !.sentinel = s]
            /\ IF db.version = 0 /\ StoreIsEmpty
               THEN mig' = "bootstrap" /\ UNCHANGED origin
               ELSE mig' = "snapshot" /\ origin' = IF origin = {} THEN {Tree} ELSE origin
    /\ UNCHANGED <<backup, since, tornCopy, changes>>

CommitBootstrap ==
    /\ mig = "bootstrap"
    /\ db' = [db EXCEPT !.version = Current, !.history = @ \cup {Current}]
    /\ mig' = "open"
    /\ UNCHANGED <<backup, since, origin, tornCopy, changes>>

\* Mutant: a resumed migration takes no snapshot.
SnapshotTreeOnlyFirst ==
    /\ mig = "snapshot"
    /\ IF backup.there \/ db.version > 0
       THEN mig' = "sentinel" /\ UNCHANGED backup
       ELSE mig' = "copy" /\ backup' = [there |-> TRUE, files |-> {}, of |-> {Tree}]
    /\ UNCHANGED <<db, since, origin, tornCopy, changes>>
\* A backup directory that exists is reused as it is.
SnapshotTree ==
    /\ mig = "snapshot"
    /\ IF backup.there
       THEN mig' = "sentinel" /\ UNCHANGED backup
       ELSE mig' = "copy" /\ backup' = [there |-> TRUE, files |-> {}, of |-> {Tree}]
    /\ UNCHANGED <<db, since, origin, tornCopy, changes>>

CopyDirRecursive ==
    /\ mig = "copy"
    /\ \/ \E f \in TreeFiles \ backup.files :
            backup' = [backup EXCEPT !.files = @ \cup {f}] /\ mig' = mig
       \/ backup.files = TreeFiles /\ mig' = "sentinel" /\ UNCHANGED backup
    /\ UNCHANGED <<db, since, origin, tornCopy, changes>>

WriteSentinel ==
    /\ mig = "sentinel"
    /\ db' = [db EXCEPT !.sentinel = TRUE]
    /\ mig' = "apply"
    /\ UNCHANGED <<backup, since, origin, tornCopy, changes>>

\* apply_v1_baseline writes nothing; apply_v2 takes back the confirmations that
\* older versions gave their own candidates.
Applied(v, d) == IF v = 2 THEN [g \in GotchaKeys |-> IF g \in Confirmed(d) THEN "candidate" ELSE d[g]]
                 ELSE d

\* Mutant: the version is stamped in a transaction before the data's.
CommitStampFirst ==
    /\ mig = "apply" /\ db.version < Current
    /\ db' = [db EXCEPT !.version = @ + 1, !.history = @ \cup {db.version + 1}]
    /\ since' = IF db.version + 1 = Current THEN {} ELSE since
    /\ UNCHANGED <<backup, mig, origin, tornCopy, changes>>
CommitMigration ==
    /\ mig = "apply" /\ db.version < Current
    /\ db' = [db EXCEPT !.version = @ + 1, !.data = Applied(db.version + 1, @),
                        !.history = @ \cup {db.version + 1}]
    /\ since' = IF db.version + 1 = Current THEN {} ELSE since
    /\ UNCHANGED <<backup, mig, origin, tornCopy, changes>>

ClearSentinel ==
    /\ mig = "apply" /\ db.version = Current
    /\ db' = [db EXCEPT !.sentinel = FALSE]
    /\ mig' = "open"
    /\ UNCHANGED <<backup, since, origin, tornCopy, changes>>

\* The process dies, or a step returns an error and the open fails; a command
\* that has the store open ends.
SmDies ==
    /\ mig # "closed"
    /\ tornCopy' = (tornCopy \/ mig = "copy")
    /\ mig' = "closed"
    /\ UNCHANGED <<db, backup, since, origin, changes>>

\* The commands of an open store: a candidate appears, is confirmed, is deleted.
SmCommand(g, s) ==
    /\ mig = "open" /\ changes < MaxChanges /\ db.data[g] # s
    /\ db' = [db EXCEPT !.data[g] = s]
    /\ since' = IF g \in AutoGotchas /\ s = "confirmed" THEN since \cup {g} ELSE since \ {g}
    /\ changes' = changes + 1
    /\ UNCHANGED <<backup, mig, origin, tornCopy>>

\* "restore by stopping the daemon and renaming this directory back": by hand.
Restore ==
    /\ mig = "closed" /\ backup.files = TreeFiles /\ changes < MaxChanges
    /\ \E t \in backup.of :
          db' = [version |-> t.version, data |-> t.data, history |-> {t.version} \ {0}, sentinel |-> FALSE]
    /\ backup' = NoBackup /\ origin' = {} /\ since' = {} /\ tornCopy' = FALSE
    /\ changes' = changes + 1
    /\ UNCHANGED mig

-----------------------------------------------------------------------------

\* Stores of every age: one from before the framework has no version.
SmInit ==
    /\ \E v \in Versions, d \in [GotchaKeys -> States] :
          /\ db = [version |-> v, data |-> d, history |-> {v} \ {0}, sentinel |-> FALSE]
          /\ since = IF v >= Current THEN Confirmed(d) ELSE {}
    /\ backup = NoBackup /\ mig = "closed" /\ origin = {} /\ tornCopy = FALSE /\ changes = 0

SmNext == \/ SmOpen \/ CommitBootstrap \/ SnapshotTree \/ CopyDirRecursive \/ WriteSentinel
          \/ CommitMigration \/ ClearSentinel \/ SmDies \/ Restore
          \/ \E g \in GotchaKeys, s \in States \ {"none"} : SmCommand(g, s)

SmSpec == SmInit /\ [][SmNext]_smVars

-----------------------------------------------------------------------------

SmTypeOK ==
    /\ db \in Dbs
    /\ backup \in Backups
    /\ mig \in {"closed", "bootstrap", "snapshot", "copy", "sentinel", "apply", "open"}
    /\ since \subseteq AutoGotchas /\ origin \subseteq Trees
    /\ tornCopy \in BOOLEAN /\ changes \in 0..MaxChanges

\* Once the store is at the current version, the confirmed candidates are exactly
\* those a person confirmed since: no crash or resume leaves one that version 2
\* should have taken back, and no later open takes back a decision.
MigratedExactly == db.version = Current => Confirmed(db.data) = since

\* A store whose data a migration has touched has a backup of the tree the first
\* attempt found ("the knowledge tree is copied to backups/pre-v<TARGET>/ before
\* any data write"), whole unless an attempt died inside the copy.
BackupFirst ==
    origin # {} /\ db.version = Current =>
        backup.there /\ backup.of = origin /\ (tornCopy \/ backup.files = TreeFiles)

\* Opens that die and resume anywhere change the data exactly once and with a way back.
MigrationSafe == MigratedExactly /\ BackupFirst
=============================================================================
