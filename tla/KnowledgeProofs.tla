--------------------------- MODULE KnowledgeProofs ---------------------------
(* Proofs about six machines that build, age, edit and report what the agents    *)
(* are given: SchemaMigration, RecordHealth, ProjectInit, ClientRoutes, Reports  *)
(* and DerivedGraph, each by itself and for any values of its constants.        *)
EXTENDS SchemaMigration, RecordHealth, ProjectInit, ClientRoutes, Reports,
        DerivedGraph, FiniteSetTheorems, SequenceTheorems, WellFoundedInduction, TLAPS

-----------------------------------------------------------------------------
(* SchemaMigration: what the steps of an open keep between them.                *)

\* Only a store at the current version is ever handed to a command, and a
\* bootstrap is only reached by a store that never needed a migration.
OpenIsCurrent ==
    /\ mig = "open" => db.version = Current
    /\ mig = "bootstrap" => origin = {} /\ db.version = 0 /\ StoreIsEmpty
    /\ mig \in {"snapshot", "copy", "sentinel", "apply"} => origin # {}
    /\ mig \in {"snapshot", "copy", "sentinel"} => db.version < Current
    /\ mig = "apply" => db.version <= Current
    /\ db.version < Current => since = {}
    /\ \A t \in origin : t.version < Current

\* Until there is a backup the tree is the one the first attempt found, so the
\* backup, when it is made, is of that tree; a later open finds it there.
BackupOfOrigin ==
    /\ IF backup.there THEN origin # {} /\ backup.of = origin ELSE backup.of = {}
    /\ backup.there /\ mig # "copy" => tornCopy \/ backup.files = TreeFiles
    /\ mig \in {"copy", "sentinel", "apply"} => backup.there
    /\ origin # {} /\ ~backup.there => db.version < Current /\ origin = {Tree}
    /\ origin # {} /\ db.version = 0 => ~StoreIsEmpty

\* The inductive invariant.
SmInv == SmTypeOK /\ MigratedExactly /\ OpenIsCurrent /\ BackupOfOrigin
-----------------------------------------------------------------------------

LEMMA BackupTypes ==
    ASSUME NEW b \in BOOLEAN, NEW f \in SUBSET TreeFiles, NEW o \in SUBSET Trees
    PROVE  [there |-> b, files |-> f, of |-> o] \in Backups
  BY DEF Backups

LEMMA DbTypes ==
    ASSUME NEW v \in Versions, NEW d \in [GotchaKeys -> States], NEW h \in SUBSET Versions,
           NEW s \in BOOLEAN
    PROVE  [version |-> v, data |-> d, history |-> h, sentinel |-> s] \in Dbs
  BY DEF Dbs

LEMMA NoBackupType == NoBackup \in Backups
  BY BackupTypes DEF NoBackup

LEMMA SmInitInv == SmInit => SmInv
<1> SUFFICES ASSUME SmInit PROVE SmInv
    OBVIOUS
<1> USE MigrationAssumption DEF SmInit, Current
<1> PICK v \in Versions, d \in [GotchaKeys -> States] :
        /\ db = [version |-> v, data |-> d, history |-> {v} \ {0}, sentinel |-> FALSE]
        /\ since = IF v >= 2 THEN Confirmed(d) ELSE {}
    OBVIOUS
<1>1. /\ {v} \ {0} \in SUBSET Versions /\ Confirmed(d) \subseteq AutoGotchas
      /\ v \in 0..3
  BY DEF Confirmed, Versions
<1>2. SmTypeOK
  <2>1. backup \in Backups
    BY NoBackupType
  <2>2. db \in Dbs
    BY <1>1, DbTypes
  <2>3. since \subseteq AutoGotchas /\ origin \subseteq Trees /\ changes \in 0..MaxChanges
    BY <1>1
  <2>4. tornCopy \in BOOLEAN /\ mig \in {"closed", "bootstrap", "snapshot", "copy", "sentinel",
                                         "apply", "open"}
    OBVIOUS
  <2> QED BY <2>1, <2>2, <2>3, <2>4 DEF SmTypeOK
<1>3. MigratedExactly /\ OpenIsCurrent /\ BackupOfOrigin
  BY <1>1 DEF MigratedExactly, OpenIsCurrent, BackupOfOrigin, NoBackup
<1> QED BY <1>2, <1>3 DEF SmInv

\* What version 2 does to the data leaves no confirmed auto gotcha.
LEMMA AppliedUnconfirms ==
    ASSUME NEW v \in Nat, NEW d \in [GotchaKeys -> States]
    PROVE  /\ Applied(v, d) \in [GotchaKeys -> States]
           /\ v = 2 => Confirmed(Applied(v, d)) = {}
  BY DEF Applied, Confirmed, GotchaKeys, States

LEMMA SmNextInv == SmInv /\ [SmNext]_smVars => SmInv'
<1> SUFFICES ASSUME SmInv, [SmNext]_smVars PROVE SmInv'
    OBVIOUS
<1> USE MigrationAssumption DEF Current
<1>v. 0..2 \subseteq Versions /\ Versions = 0..3
  BY DEF Versions
<1>t. /\ db.version \in Versions /\ db.version \in 0..3 /\ db.data \in [GotchaKeys -> States] /\ Tree \in Trees
      /\ db = [version |-> db.version, data |-> db.data, history |-> db.history,
               sentinel |-> db.sentinel]
  BY <1>v DEF SmInv, SmTypeOK, Dbs, Tree, Trees
<1>1. CASE SmOpen
  <2>1. /\ db'.version = db.version /\ db'.data = db.data /\ db.version <= 2
        /\ StoreIsEmpty' = StoreIsEmpty /\ Tree' = Tree
    BY <1>1, <1>t DEF SmOpen, SmInv, SmTypeOK, Dbs, StoreIsEmpty, Tree
  <2>2. SmTypeOK'
    BY <1>1, <1>t DEF SmOpen, SmInv, SmTypeOK, Dbs
  <2>3. MigratedExactly'
    BY <1>1, <2>1 DEF SmOpen, SmInv, MigratedExactly, Confirmed
  <2>4. OpenIsCurrent'
    <3>1. db.version # 2 => Tree.version < 2
      BY <1>t, <2>1 DEF Tree
    <3>2. \A t \in origin' : t.version < 2
      BY <1>1, <3>1 DEF SmOpen, SmInv, OpenIsCurrent
    <3> QED BY <1>1, <1>t, <2>1, <3>2 DEF SmOpen, SmInv, OpenIsCurrent, BackupOfOrigin
  <2>5. BackupOfOrigin'
    BY <1>1, <1>t, <2>1 DEF SmOpen, SmInv, OpenIsCurrent, BackupOfOrigin
  <2> QED BY <2>2, <2>3, <2>4, <2>5 DEF SmInv
<1>2. CASE CommitBootstrap
  <2>1. db'.version = 2 /\ db'.data = db.data /\ origin = {} /\ db.version = 0
    BY <1>2, <1>t DEF CommitBootstrap, SmInv, OpenIsCurrent
  <2>2. SmTypeOK'
    <3>1. db.history \cup {2} \in SUBSET Versions /\ 2 \in Versions
      BY <1>v DEF SmInv, SmTypeOK, Dbs
    <3> QED BY <1>2, <1>t, <3>1 DEF CommitBootstrap, SmInv, SmTypeOK, Dbs
  <2>3. Confirmed(db.data) = {}
    BY <1>2 DEF CommitBootstrap, SmInv, OpenIsCurrent, StoreIsEmpty, Confirmed, GotchaKeys
  <2>4. since = {}
    BY <2>1 DEF SmInv, OpenIsCurrent
  <2>5. MigratedExactly'
    BY <1>2, <2>1, <2>3, <2>4 DEF CommitBootstrap, MigratedExactly
  <2>6. OpenIsCurrent' /\ BackupOfOrigin'
    BY <1>2, <2>1 DEF CommitBootstrap, SmInv, OpenIsCurrent, BackupOfOrigin
  <2> QED BY <2>2, <2>5, <2>6 DEF SmInv
<1>3. CASE SnapshotTree
  <2>1. UNCHANGED <<db, Tree, StoreIsEmpty>>
    BY <1>3 DEF SnapshotTree, Tree, StoreIsEmpty
  <2>2. SmTypeOK'
    <3>1. {Tree} \in SUBSET Trees /\ {} \in SUBSET TreeFiles
      BY <1>t
    <3>2. [there |-> TRUE, files |-> {}, of |-> {Tree}] \in Backups
      BY <3>1, BackupTypes
    <3> QED BY <1>3, <3>2 DEF SnapshotTree, SmInv, SmTypeOK, Dbs
  <2>3. MigratedExactly' /\ OpenIsCurrent'
    BY <1>3, <2>1 DEF SnapshotTree, SmInv, OpenIsCurrent, MigratedExactly
  <2>4. BackupOfOrigin'
    BY <1>3, <2>1 DEF SnapshotTree, SmInv, OpenIsCurrent, BackupOfOrigin
  <2> QED BY <2>2, <2>3, <2>4 DEF SmInv
<1>4. CASE CopyDirRecursive
  <2>1. UNCHANGED <<db, Tree, StoreIsEmpty>>
    BY <1>4 DEF CopyDirRecursive, Tree, StoreIsEmpty
  <2>2. SmTypeOK' /\ backup'.there = backup.there /\ backup'.of = backup.of
    BY <1>4 DEF CopyDirRecursive, SmInv, SmTypeOK, Dbs, Backups
  <2>3. MigratedExactly' /\ OpenIsCurrent'
    BY <1>4, <2>1 DEF CopyDirRecursive, SmInv, OpenIsCurrent, MigratedExactly
  <2>4. BackupOfOrigin'
    BY <1>4, <2>1, <2>2 DEF CopyDirRecursive, SmInv, OpenIsCurrent, BackupOfOrigin
  <2> QED BY <2>2, <2>3, <2>4 DEF SmInv
<1>5. CASE WriteSentinel
  <2>1. db'.version = db.version /\ db'.data = db.data /\ UNCHANGED <<Tree, StoreIsEmpty>>
    BY <1>5, <1>t DEF WriteSentinel, Tree, StoreIsEmpty
  <2>2. SmTypeOK'
    BY <1>5, <1>t DEF WriteSentinel, SmInv, SmTypeOK, Dbs
  <2>3. MigratedExactly' /\ OpenIsCurrent'
    BY <1>5, <2>1, <1>t DEF WriteSentinel, SmInv, OpenIsCurrent, MigratedExactly
  <2>4. BackupOfOrigin'
    BY <1>5, <2>1 DEF WriteSentinel, SmInv, OpenIsCurrent, BackupOfOrigin
  <2> QED BY <2>2, <2>3, <2>4 DEF SmInv
<1>6. CASE CommitMigration
  <2>1. /\ db'.version = db.version + 1 /\ db'.data = Applied(db.version + 1, db.data)
        /\ db.version < 2
    BY <1>6, <1>t DEF CommitMigration
  <2>2. SmTypeOK'
    <3>1. /\ db.history \cup {db.version + 1} \in SUBSET Versions
          /\ Applied(db.version + 1, db.data) \in [GotchaKeys -> States]
          /\ db.version + 1 \in Versions
      BY <1>t, <1>v, <2>1, AppliedUnconfirms DEF SmInv, SmTypeOK, Dbs
    <3> QED BY <1>6, <1>t, <3>1 DEF CommitMigration, SmInv, SmTypeOK, Dbs
  <2>3. MigratedExactly'
    BY <1>6, <1>t, <2>1, AppliedUnconfirms DEF CommitMigration, MigratedExactly
  <2>4. OpenIsCurrent' /\ BackupOfOrigin'
    BY <1>6, <1>t, <2>1 DEF CommitMigration, SmInv, OpenIsCurrent, BackupOfOrigin
  <2> QED BY <2>2, <2>3, <2>4 DEF SmInv
<1>7. CASE ClearSentinel
  <2>1. db'.version = db.version /\ db'.data = db.data /\ UNCHANGED <<Tree, StoreIsEmpty>>
    BY <1>7, <1>t DEF ClearSentinel, Tree, StoreIsEmpty
  <2>2. SmTypeOK'
    BY <1>7, <1>t DEF ClearSentinel, SmInv, SmTypeOK, Dbs
  <2>3. MigratedExactly' /\ OpenIsCurrent'
    BY <1>7, <2>1, <1>t DEF ClearSentinel, SmInv, OpenIsCurrent, MigratedExactly
  <2>4. BackupOfOrigin'
    BY <1>7, <2>1 DEF ClearSentinel, SmInv, OpenIsCurrent, BackupOfOrigin
  <2> QED BY <2>2, <2>3, <2>4 DEF SmInv
<1>8. CASE SmDies
  <2>1. UNCHANGED <<db, Tree, StoreIsEmpty>>
    BY <1>8 DEF SmDies, Tree, StoreIsEmpty
  <2>2. SmTypeOK'
    BY <1>8 DEF SmDies, SmInv, SmTypeOK, Dbs
  <2>3. MigratedExactly' /\ OpenIsCurrent'
    BY <1>8, <2>1 DEF SmDies, SmInv, OpenIsCurrent, MigratedExactly
  <2>4. BackupOfOrigin'
    BY <1>8, <2>1 DEF SmDies, SmInv, BackupOfOrigin
  <2> QED BY <2>2, <2>3, <2>4 DEF SmInv
<1>9. CASE Restore
  <2> PICK t \in backup.of :
         db' = [version |-> t.version, data |-> t.data, history |-> {t.version} \ {0},
                sentinel |-> FALSE]
    BY <1>9 DEF Restore
  <2>1. t.version \in 0..1 /\ t.version \in Versions /\ t.data \in [GotchaKeys -> States]
    BY <1>v DEF SmInv, SmTypeOK, Dbs, Trees, OpenIsCurrent, BackupOfOrigin
  <2>2. SmTypeOK'
    <3>1. {t.version} \ {0} \in SUBSET Versions
      BY <2>1
    <3>2. db' \in Dbs
      BY <2>1, <3>1, DbTypes
    <3>3. since' \subseteq AutoGotchas /\ origin' \subseteq Trees /\ changes' \in 0..MaxChanges
      BY <1>9 DEF Restore, SmInv, SmTypeOK
    <3>4. tornCopy' \in BOOLEAN /\ backup' \in Backups /\ mig' = mig
      BY <1>9, NoBackupType DEF Restore
    <3> QED BY <3>2, <3>3, <3>4 DEF SmInv, SmTypeOK
  <2>3. OpenIsCurrent' /\ BackupOfOrigin'
    BY <1>9 DEF Restore, OpenIsCurrent, BackupOfOrigin, NoBackup
  <2>4. MigratedExactly'
    BY <1>9, <2>1 DEF Restore, MigratedExactly
  <2> QED BY <2>2, <2>3, <2>4 DEF SmInv
<1>10. ASSUME NEW g \in GotchaKeys, NEW s \in States \ {"none"}, SmCommand(g, s) PROVE SmInv'
  <2>1. /\ db'.version = db.version /\ db.version = 2 /\ db'.data = [db.data EXCEPT ![g] = s]
    BY <1>10, <1>t DEF SmCommand, SmInv, OpenIsCurrent
  <2>2. SmTypeOK'
    BY <1>10, <1>t, <2>1 DEF SmCommand, SmInv, SmTypeOK, Dbs
  <2>3. Confirmed(db'.data) = IF g \in AutoGotchas /\ s = "confirmed"
                              THEN Confirmed(db.data) \cup {g} ELSE Confirmed(db.data) \ {g}
    BY <1>t, <2>1 DEF Confirmed, GotchaKeys
  <2>4. MigratedExactly'
    BY <1>10, <2>1, <2>3 DEF SmCommand, SmInv, MigratedExactly
  <2>5. OpenIsCurrent' /\ BackupOfOrigin'
    BY <1>10, <2>1 DEF SmCommand, SmInv, OpenIsCurrent, BackupOfOrigin
  <2> QED BY <2>2, <2>4, <2>5 DEF SmInv
<1>11. CASE UNCHANGED smVars
  BY <1>11 DEF smVars, SmInv, SmTypeOK, Dbs, MigratedExactly, OpenIsCurrent, BackupOfOrigin, Tree,
               StoreIsEmpty
<1> QED BY <1>1, <1>2, <1>3, <1>4, <1>5, <1>6, <1>7, <1>8, <1>9, <1>10, <1>11 DEF SmNext

LEMMA SmAlways == SmSpec => []SmInv
  BY SmInitInv, SmNextInv, PTL DEF SmSpec

\* Every open, crash, resume, command and restore keeps the migration state of
\* the type the code gives it.
THEOREM MigrationTypes == SmSpec => []SmTypeOK
  BY SmAlways, PTL DEF SmInv

\* migrate: the auto-derived gotchas that are confirmed at the current version
\* are those confirmed since, whatever attempts died and where.
THEOREM MigrationIsExact == SmSpec => []MigratedExactly
  BY SmAlways, PTL DEF SmInv

\* snapshot_knowledge_tree before commit_migration: data that was migrated has a
\* backup of the tree as the first attempt found it.
THEOREM MigrationIsBackedUp == SmSpec => []BackupFirst
<1>1. SmInv => BackupFirst
  <2> SUFFICES ASSUME SmInv, origin # {}, db.version = Current
               PROVE  backup.there /\ backup.of = origin /\ (tornCopy \/ backup.files = TreeFiles)
    BY DEF BackupFirst
  <2>1. backup.there
    BY DEF SmInv, BackupOfOrigin, Current
  <2>2. mig # "copy"
    BY DEF SmInv, OpenIsCurrent, Current
  <2> QED BY <2>1, <2>2 DEF SmInv, BackupOfOrigin
<1> QED BY <1>1, SmAlways, PTL

\* migrate in Store::open, for any commands, kills and restarts in between: the
\* data is migrated once, and there is a backup of what it was.
THEOREM MigrationCorrect == SmSpec => []MigrationSafe
  BY MigrationIsExact, MigrationIsBackedUp, PTL DEF MigrationSafe
-----------------------------------------------------------------------------
(* RecordHealth: what scores and signals say of each other.                     *)

HealthRec == [value : Nat, reparse : Nat, deleted : Nat, other : Nat, computed : Nat,
              updated : Nat, accessed : Nat, sha : Nat, parsed : Nat, modified : Nat]
RhTypeOK ==
    /\ clock \in Nat
    /\ exists \in [SrcFiles -> BOOLEAN] /\ shape \in [SrcFiles -> {1, 2}]
    /\ log \in Seq(SUBSET SrcFiles)
    /\ rec \in [Records -> HealthRec]

\* A record with a FileDeleted signal has the score of a deleted file, and
\* nothing but such a signal or a reparse gives a score no analysis gives.
ScoreOK(r) == /\ r.value <= 10000
              /\ r.deleted > 0 => r.value = 10000
              /\ r.value > 7500 => r.deleted > 0 \/ r.reparse > 0
ScoreInv == \A f \in SrcFiles : ScoreOK(rec[f])

RhInv == RhTypeOK /\ ScoreInv /\ DeletedIsTombstone
-----------------------------------------------------------------------------

LEMMA HealthFields ==
  ASSUME NEW r \in HealthRec
  PROVE  /\ r.value \in Nat /\ r.reparse \in Nat /\ r.deleted \in Nat /\ r.other \in Nat
         /\ r.computed \in Nat /\ r.updated \in Nat /\ r.accessed \in Nat /\ r.sha \in Nat
         /\ r.parsed \in Nat /\ r.modified \in Nat
BY DEF HealthRec

\* The share of a number in its whole, in units of 1000.
LEMMA Share ==
  ASSUME NEW c \in Nat, NEW n \in Nat \ {0}, c <= n
  PROVE  (c * 1000) \div n \in Nat /\ (c * 1000) \div n <= 1000
<1>1. c * 1000 <= n * 1000
  BY SMT
<1>2. (n * 1000) \div n = 1000
  BY SMT
<1> QED BY <1>1, <1>2, SMT

\* The five factors of compute_staleness are bounded by their weights.
LEMMA RawBound ==
  ASSUME RhTypeOK, NEW r \in Records
  PROVE  RawValue(r) \in Nat /\ RawValue(r) <= 7500 /\ GitPart(r) \in Nat
<1>0. rec[r] \in HealthRec /\ clock \in Nat
  BY DEF RhTypeOK
<1>1. TimePart(r) \in Nat /\ TimePart(r) <= 2000
  <2>1. LastTouch(r) \in Nat
    BY <1>0, HealthFields DEF LastTouch
  <2>2. LastTouch(r) < clock => (clock - LastTouch(r)) * 2000 \in Nat
    BY <1>0, <2>1
  <2>3. LastTouch(r) < clock => ((clock - LastTouch(r)) * 2000) \div Ramp \in Nat
    <3>1. ASSUME NEW a \in Nat PROVE a \div Ramp \in Nat
      BY HealthAssumption
    <3> QED BY <2>2, <3>1
  <2> QED BY <1>0, <2>1, <2>3 DEF TimePart, Capped
<1>2. GitPart(r) \in Nat /\ GitPart(r) <= 3500
  <2>1. CASE r \notin SrcFiles \/ HeadCommit = 0 \/ rec[r].sha \in {0, HeadCommit}
    BY <2>1 DEF GitPart
  <2>2. CASE ~(r \notin SrcFiles \/ HeadCommit = 0 \/ rec[r].sha \in {0, HeadCommit})
    <3>1. rec[r].sha \in Nat /\ HeadCommit \in Nat
      BY <1>0, HealthFields DEF RhTypeOK, HeadCommit
    <3> DEFINE touching == {i \in (rec[r].sha + 1)..HeadCommit : r \in log[i]}
    <3>2. IsFiniteSet((rec[r].sha + 1)..HeadCommit)
      BY <3>1, FS_Interval
    <3>3. touching \in SUBSET ((rec[r].sha + 1)..HeadCommit)
      OBVIOUS
    <3>4. IsFiniteSet(touching)
      BY <3>2, <3>3, FS_Subset
    <3>5. Cardinality(touching) \in Nat
      BY <3>4, FS_CardinalityType
    <3>6. CountCommitsSince(r, rec[r].sha) \in Nat
      BY <3>5 DEF CountCommitsSince
    <3>7. Capped(CountCommitsSince(r, rec[r].sha), 5) + 1 \in 1..6
      BY <3>6 DEF Capped
    <3>8. \A i \in 1..6 : CommitsToFactor[i] \in Nat /\ CommitsToFactor[i] <= 3500
      BY DEF CommitsToFactor
    <3> QED BY <2>2, <3>7, <3>8 DEF GitPart
  <2> QED BY <2>1, <2>2
<1>3. DepPart(r) \in Nat /\ DepPart(r) <= 1000
  BY DEF DepPart
<1>4. CascadePart(r) \in Nat /\ CascadePart(r) <= 1000
  <2> DEFINE linked == IF r \in SrcFiles THEN Linked(r)
                       ELSE IF r \in NoteKeys THEN Notes[r] ELSE {}
             stale == {x \in linked : IsStale(x)}
  <2>1. IsFiniteSet(linked)
    <3>1. Linked(r) \in SUBSET NoteKeys
      BY DEF Linked
    <3>2. IsFiniteSet(Linked(r))
      BY <3>1, FS_Subset, HealthAssumption DEF NoteKeys
    <3>3. r \in NoteKeys => IsFiniteSet(Notes[r])
      BY FS_Subset, HealthAssumption DEF NoteKeys
    <3> QED BY <3>2, <3>3, FS_EmptySet
  <2>2. stale \in SUBSET linked
    OBVIOUS
  <2>3. /\ Cardinality(linked) \in Nat /\ Cardinality(stale) \in Nat
        /\ Cardinality(stale) <= Cardinality(linked)
        /\ Cardinality(linked) = 0 <=> linked = {}
    <3> HIDE DEF linked, stale
    <3>1. IsFiniteSet(stale) /\ Cardinality(stale) <= Cardinality(linked)
      BY <2>1, <2>2, FS_Subset
    <3> QED BY <2>1, <3>1, FS_CardinalityType, FS_EmptySet
  <2>4. linked # {} => (Cardinality(stale) * 1000) \div Cardinality(linked) \in Nat
                      /\ (Cardinality(stale) * 1000) \div Cardinality(linked) <= 1000
    <3> HIDE DEF linked, stale
    <3> QED BY <2>3, Share
  <2> QED BY <2>4 DEF CascadePart
<1> QED BY <1>1, <1>2, <1>3, <1>4 DEF RawValue

\* compute_staleness of a record whose file is gone: the hard override.
LEMMA ComputedGone ==
  ASSUME RhTypeOK, NEW r \in SrcFiles, ~exists[r]
  PROVE  LET c == ComputeStaleness(r) IN
         /\ c \in HealthRec /\ c.value = 10000 /\ c.deleted > 0
         /\ c.reparse = rec[r].reparse /\ c.other = rec[r].other
         /\ rec[r].deleted > 0 => c.deleted = rec[r].deleted
<1>1. rec[r] \in HealthRec /\ clock \in Nat
  BY DEF RhTypeOK, Records
<1>2. ComputeStaleness(r) = [rec[r] EXCEPT !.value = 10000, !.computed = clock,
                                          !.deleted = IF @ > 0 THEN @ ELSE 1]
  BY DEF ComputeStaleness
<1> DEFINE d == IF rec[r].deleted > 0 THEN rec[r].deleted ELSE 1
<1>3. d \in Nat /\ d > 0
  BY <1>1, HealthFields
<1>4. ComputeStaleness(r) = [rec[r] EXCEPT !.value = 10000, !.computed = clock, !.deleted = d]
  BY <1>2
<1> DEFINE c == ComputeStaleness(r)
           old == rec[r]
<1>5. /\ c \in HealthRec /\ c.value = 10000 /\ c.deleted = d
      /\ c.reparse = old.reparse /\ c.other = old.other
  <2>1. d \in Nat /\ old \in HealthRec /\ clock \in Nat
    BY <1>1, <1>3
  <2>2. c = [old EXCEPT !.value = 10000, !.computed = clock, !.deleted = d]
    BY <1>4
  <2> HIDE DEF d, c, old
  <2>3. c \in HealthRec
    <3> DEFINE top == 10000
    <3>1. c = [old EXCEPT !.value = top, !.computed = clock, !.deleted = d] /\ top \in Nat
      BY <2>2
    <3> HIDE DEF top
    <3> QED BY <2>1, <3>1 DEF HealthRec
  <2>4. c.value = 10000 /\ c.deleted = d
    BY <2>1, <2>2 DEF HealthRec
  <2>5. c.reparse = old.reparse /\ c.other = old.other
    BY <2>1, <2>2 DEF HealthRec
  <2> QED BY <2>3, <2>4, <2>5
<1> QED BY <1>3, <1>5

\* compute_staleness of any other record: the five factors, and what a recent
\* reparse keeps.
LEMMA ComputedFactors ==
  ASSUME RhTypeOK, NEW r \in Records, ~(r \in SrcFiles /\ ~exists[r])
  PROVE  LET c == ComputeStaleness(r) IN
         /\ c \in HealthRec /\ c.deleted = 0
         /\ c.value <= 7500 \/ (c.value = rec[r].value /\ c.reparse > 0)
         /\ c.reparse <= rec[r].reparse
         /\ c.other > 0 => c.sha # rec[r].sha
         /\ HadRecentReparse(r) => c.value >= rec[r].value
<1> DEFINE keep == HadRecentReparse(r)
           v == IF keep /\ RawValue(r) < rec[r].value THEN rec[r].value ELSE RawValue(r)
           n == IF keep THEN Capped(rec[r].reparse, 10) ELSE 0
           o == IF GitPart(r) > 0 THEN 1 ELSE 0
           c == ComputeStaleness(r)
<1>1. rec[r] \in HealthRec /\ clock \in Nat
  BY DEF RhTypeOK
<1>2. c = [rec[r] EXCEPT !.value = v, !.reparse = n, !.deleted = 0, !.other = o,
                         !.computed = clock, !.sha = NewSha(r)]
  BY DEF ComputeStaleness
<1>3. RawValue(r) \in Nat /\ RawValue(r) <= 7500 /\ GitPart(r) \in Nat
  BY RawBound
<1>4. keep \in BOOLEAN /\ (keep => rec[r].reparse > 0)
  BY DEF HadRecentReparse
<1>5. v \in Nat /\ (v <= 7500 \/ (v = rec[r].value /\ keep)) /\ (keep => v >= rec[r].value)
  BY <1>1, <1>3, <1>4, HealthFields
<1>6. n \in Nat /\ n <= rec[r].reparse /\ (keep => n > 0)
  BY <1>1, <1>4, HealthFields DEF Capped
<1>7. NewSha(r) \in Nat /\ HeadCommit \in Nat /\ o \in Nat
  BY <1>1, HealthFields DEF NewSha, HeadCommit, RhTypeOK
<1>8. o > 0 => NewSha(r) # rec[r].sha
  BY DEF GitPart, NewSha
<1>9. c \in HealthRec /\ c.value = v /\ c.reparse = n /\ c.deleted = 0 /\ c.other = o /\ c.sha = NewSha(r)
  <2> DEFINE s == NewSha(r)
  <2>1. v \in Nat /\ n \in Nat /\ o \in Nat /\ s \in Nat
    BY <1>5, <1>6, <1>7
  <2>2. c = [rec[r] EXCEPT !.value = v, !.reparse = n, !.deleted = 0, !.other = o,
                           !.computed = clock, !.sha = s]
    BY <1>2
  <2> HIDE DEF v, n, o, c, s
  <2>3. /\ c \in HealthRec /\ c.value = v /\ c.reparse = n /\ c.deleted = 0 /\ c.other = o
        /\ c.sha = s
    BY <1>1, <2>1, <2>2 DEF HealthRec
  <2> QED BY <2>3 DEF s
<1> QED BY <1>5, <1>6, <1>8, <1>9

\* What an analysis leaves of a file's record, changed or not worth a write.
LEMMA Analyzed ==
  ASSUME RhInv, NEW w \in SUBSET Records, NEW f \in SrcFiles
  PROVE  LET a == AnalyzeAll(w)[f] IN
         /\ ScoreOK(a)
         /\ f \in w /\ ~exists[f] => a.value = 10000 /\ a.deleted > 0
         /\ f \in w /\ exists[f] => a.deleted = 0
<1> DEFINE a == AnalyzeAll(w)[f]
           c == ComputeStaleness(f)
<1>1. rec[f] \in HealthRec /\ clock \in Nat /\ f \in Records /\ ScoreOK(rec[f])
  BY DEF RhInv, RhTypeOK, Records, ScoreInv
<1>2. a = IF f \in w /\ StalenessChanged(rec[f], c) THEN [c EXCEPT !.updated = clock] ELSE rec[f]
  BY <1>1 DEF AnalyzeAll
<1>3. CASE f \notin w
  BY <1>1, <1>2, <1>3
<1>4. CASE f \in w /\ ~exists[f]
  <2>1. /\ c \in HealthRec /\ c.value = 10000 /\ c.deleted > 0
        /\ c.reparse = rec[f].reparse /\ c.other = rec[f].other
        /\ rec[f].deleted > 0 => c.deleted = rec[f].deleted
    BY <1>4, ComputedGone DEF RhInv
  <2> HIDE DEF c
  <2>2. CASE StalenessChanged(rec[f], c)
    <3>1. a.value = 10000 /\ a.deleted = c.deleted /\ a.reparse = c.reparse
      BY <1>2, <1>4, <2>1, <2>2 DEF HealthRec
    <3> QED BY <1>4, <2>1, <3>1 DEF ScoreOK
  <2>3. CASE ~StalenessChanged(rec[f], c)
    <3>1. Signals(rec[f]) = Signals(c)
      BY <2>3 DEF StalenessChanged
    <3>2. rec[f].deleted = c.deleted
      BY <1>1, <2>1, <3>1, HealthFields DEF Signals
    <3> QED BY <1>1, <1>2, <1>4, <2>1, <2>3, <3>2 DEF ScoreOK
  <2> QED BY <2>2, <2>3
<1>5. CASE f \in w /\ exists[f]
  <2>1. /\ c \in HealthRec /\ c.deleted = 0
        /\ c.value <= 7500 \/ (c.value = rec[f].value /\ c.reparse > 0)
        /\ c.reparse <= rec[f].reparse
        /\ c.other > 0 => c.sha # rec[f].sha
    BY <1>1, <1>5, ComputedFactors DEF RhInv
  <2> HIDE DEF c
  <2>2. CASE StalenessChanged(rec[f], c)
    <3>1. a.value = c.value /\ a.deleted = 0 /\ a.reparse = c.reparse
      BY <1>2, <1>5, <2>1, <2>2 DEF HealthRec
    <3> QED BY <1>1, <1>5, <2>1, <3>1, HealthFields DEF ScoreOK
  <2>3. CASE ~StalenessChanged(rec[f], c)
    <3>1. Signals(rec[f]) = Signals(c) /\ rec[f].sha = c.sha
      BY <2>3 DEF StalenessChanged
    <3>2. /\ c.reparse \in Nat /\ c.other \in Nat
          /\ rec[f].reparse \in Nat /\ rec[f].deleted \in Nat /\ rec[f].other \in Nat
      BY <1>1, <2>1, HealthFields
    <3>3. c.other = 0
      BY <2>1, <3>1, <3>2
    <3>4. rec[f].reparse + rec[f].deleted + rec[f].other = c.reparse
      BY <2>1, <3>1, <3>2, <3>3 DEF Signals
    <3>5. rec[f].deleted = 0
      BY <2>1, <3>2, <3>4
    <3> QED BY <1>1, <1>2, <1>5, <2>3, <3>5
  <2> QED BY <2>2, <2>3
<1> QED BY <1>3, <1>4, <1>5

LEMMA AnalyzedType ==
  ASSUME RhTypeOK, NEW w \in SUBSET Records
  PROVE  AnalyzeAll(w) \in [Records -> HealthRec]
<1>1. ASSUME NEW r \in Records PROVE AnalyzeAll(w)[r] \in HealthRec
  <2>1. ComputeStaleness(r) \in HealthRec
    <3>1. CASE r \in SrcFiles /\ ~exists[r]
      BY <3>1, ComputedGone
    <3>2. CASE ~(r \in SrcFiles /\ ~exists[r])
      BY <3>2, ComputedFactors
    <3> QED BY <3>1, <3>2
  <2>2. [ComputeStaleness(r) EXCEPT !.updated = clock] \in HealthRec /\ rec[r] \in HealthRec
    <3> HIDE DEF ComputeStaleness
    <3> QED BY <2>1 DEF RhTypeOK, HealthRec
  <2> QED BY <2>2 DEF AnalyzeAll
<1> QED BY <1>1 DEF AnalyzeAll

LEMMA RhInitInv == RhInit => RhInv
<1> SUFFICES ASSUME RhInit PROVE RhInv
    OBVIOUS
<1>1. Fresh \in HealthRec /\ ScoreOK(Fresh)
  BY DEF Fresh, HealthRec, ScoreOK
<1>2. RhTypeOK
  BY <1>1 DEF RhInit, RhTypeOK
<1>3. ScoreInv
  BY <1>1 DEF RhInit, ScoreInv, Records
<1>4. DeletedIsTombstone
  BY DEF RhInit, DeletedIsTombstone
<1> QED BY <1>2, <1>3, <1>4 DEF RhInv

\* The steps that leave records and the score alone, or the time of one record.
LEMMA RhQuietStep ==
  ASSUME RhInv, swept' = {},
         clock' \in Nat, exists' \in [SrcFiles -> BOOLEAN], shape' \in [SrcFiles -> {1, 2}],
         log' \in Seq(SUBSET SrcFiles), rec' \in [Records -> HealthRec],
         \A f \in SrcFiles : /\ rec'[f].value = rec[f].value /\ rec'[f].deleted = rec[f].deleted
                             /\ rec'[f].reparse = rec[f].reparse
  PROVE  RhInv'
<1>1. RhTypeOK'
  BY DEF RhTypeOK
<1>2. ScoreInv'
  BY DEF RhInv, ScoreInv, ScoreOK
<1>3. DeletedIsTombstone'
  BY DEF DeletedIsTombstone
<1> QED BY <1>1, <1>2, <1>3 DEF RhInv

LEMMA CascadeType ==
  ASSUME clock \in Nat, NEW r \in HealthRec
  PROVE  Cascade(r) \in HealthRec
<1> DEFINE cv == Capped(r.value + 1000, 10000)
           co == Capped(r.other + 1, MaxSignals)
<1>1. cv \in Nat /\ co \in Nat
  BY HealthFields, HealthAssumption DEF Capped
<1>2. Cascade(r) = [r EXCEPT !.value = cv, !.other = co, !.computed = clock, !.updated = clock]
  BY DEF Cascade
<1> HIDE DEF cv, co
<1> QED BY <1>1, <1>2 DEF HealthRec

LEMMA RhReparseStep ==
  ASSUME RhInv, NEW f \in SrcFiles, Reparse(f)
  PROVE  RhInv'
<1>1. rec \in [Records -> HealthRec] /\ clock \in Nat /\ f \in Records /\ shape[f] \in Nat
  BY DEF RhInv, RhTypeOK, Records
<1>2. rec[f] \in HealthRec /\ ScoreOK(rec[f])
  BY <1>1 DEF RhInv, ScoreInv
<1>3. CASE ~exists[f]
  <2> DEFINE top == 10000
             old == rec[f]
             up == old.deleted + 1
             new == [old EXCEPT !.value = top, !.deleted = up, !.computed = clock, !.updated = clock]
  <2>1. rec' = [rec EXCEPT ![f] = new]
    BY <1>3 DEF Reparse
  <2>2. new \in HealthRec /\ new.value = top /\ new.deleted = old.deleted + 1
    <3> HIDE DEF top
    <3>1. top \in Nat
      BY DEF top
    <3>2. old \in HealthRec /\ up \in Nat
      BY <1>2, HealthFields
    <3> HIDE DEF old, up
    <3>3. new \in HealthRec /\ new.value = top /\ new.deleted = up
      BY <1>1, <3>1, <3>2 DEF HealthRec
    <3> QED BY <3>3 DEF up
  <2>3. ScoreOK(new)
    BY <1>2, <2>2, HealthFields DEF ScoreOK
  <2> HIDE DEF new
  <2>4. rec' \in [Records -> HealthRec] /\ \A g \in SrcFiles : ScoreOK(rec'[g])
    BY <1>1, <2>1, <2>2, <2>3 DEF RhInv, ScoreInv, Records
  <2> QED BY <2>4 DEF Reparse, RhInv, RhTypeOK, ScoreInv, DeletedIsTombstone
<1>4. CASE exists[f]
  <2> PICK d \in Diffs : \E kept \in KeptSignals(rec[f], d.signals) :
         rec' = [r \in Records |->
                   IF r = f THEN [ApplyReparse(rec[f], d, kept) EXCEPT !.parsed = shape[f]]
                   ELSE IF r \in Linked(f) THEN Cascade(rec[r]) ELSE rec[r]]
    BY <1>4 DEF Reparse
  <2> PICK kept \in KeptSignals(rec[f], d.signals) :
         rec' = [r \in Records |->
                   IF r = f THEN [ApplyReparse(rec[f], d, kept) EXCEPT !.parsed = shape[f]]
                   ELSE IF r \in Linked(f) THEN Cascade(rec[r]) ELSE rec[r]]
    OBVIOUS
  <2> DEFINE old == rec[f]
             v == Capped(old.value + Capped(d.weight, 4000), 10000)
             n == kept.reparse + d.signals
             new == [ApplyReparse(old, d, kept) EXCEPT !.parsed = shape[f]]
  <2>1. d.signals \in Nat /\ d.signals > 0 /\ d.weight \in Nat
    BY HealthAssumption
  <2>2. kept.reparse \in Nat /\ kept.deleted \in Nat /\ kept.other \in Nat /\ kept.deleted <= old.deleted
    BY <1>2, HealthFields DEF KeptSignals
  <2>3. v \in Nat /\ v <= 10000 /\ old.value <= v
    BY <1>2, <2>1, HealthFields DEF Capped, ScoreOK
  <2>4. n \in Nat /\ n > 0
    BY <2>1, <2>2
  <2>5. new \in HealthRec /\ new.value = v /\ new.reparse = n /\ new.deleted = kept.deleted
    <3> DEFINE dl == kept.deleted
               ot == kept.other
               sh == shape[f]
    <3>1. new = [old EXCEPT !.value = v, !.reparse = n, !.deleted = dl, !.other = ot, !.computed = clock,
                            !.updated = clock, !.modified = clock, !.parsed = sh]
      BY <1>2 DEF ApplyReparse, HealthRec
    <3>2. v \in Nat /\ n \in Nat /\ dl \in Nat /\ ot \in Nat /\ sh \in Nat /\ old \in HealthRec
      BY <1>1, <1>2, <2>2, <2>3, <2>4
    <3> HIDE DEF new, v, n, old, dl, ot, sh
    <3>3. new \in HealthRec /\ new.value = v /\ new.reparse = n /\ new.deleted = dl
      BY <1>1, <3>1, <3>2 DEF HealthRec
    <3> QED BY <3>3 DEF dl
  <2>6. ScoreOK(new)
    <3> HIDE DEF new, v, n
    <3> QED BY <1>2, <2>2, <2>3, <2>4, <2>5, HealthFields DEF ScoreOK
  <2>7. \A r \in Records : Cascade(rec[r]) \in HealthRec
    BY <1>1, CascadeType
  <2> HIDE DEF new
  <2>8. rec' = [r \in Records |-> IF r = f THEN new
                                  ELSE IF r \in Linked(f) THEN Cascade(rec[r]) ELSE rec[r]]
    BY DEF new
  <2>9. rec' \in [Records -> HealthRec]
    BY <1>1, <2>5, <2>7, <2>8
  <2>10. ASSUME NEW g \in SrcFiles PROVE ScoreOK(rec'[g])
    <3>1. g \notin Linked(f) /\ g \in Records
      BY HealthAssumption DEF Linked, NoteKeys, Records
    <3>2. rec'[g] = IF g = f THEN new ELSE rec[g]
      BY <2>8, <3>1
    <3>3. ScoreOK(rec[g])
      BY DEF RhInv, ScoreInv
    <3> QED BY <2>6, <3>2, <3>3
  <2>11. ScoreInv'
    BY <2>10 DEF ScoreInv
  <2>12. RhTypeOK' /\ DeletedIsTombstone'
    <3> HIDE DEF ScoreInv
    <3> QED BY <2>9 DEF Reparse, RhInv, RhTypeOK, DeletedIsTombstone
  <2> QED BY <2>11, <2>12 DEF RhInv
<1> QED BY <1>3, <1>4

LEMMA RhHarvestStep ==
  ASSUME RhInv, NEW w \in KeyPrefixes, Harvest(w)
  PROVE  RhInv'
<1>1. w \in SUBSET Records /\ rec' = AnalyzeAll(w) /\ swept' = w
      /\ UNCHANGED <<clock, exists, shape, log>>
  BY DEF KeyPrefixes, Harvest
<1>2. RhTypeOK'
  BY <1>1, AnalyzedType DEF RhInv, RhTypeOK
<1>3. \A f \in SrcFiles : /\ ScoreOK(rec'[f])
                          /\ f \in w /\ ~exists[f] => rec'[f].value = 10000 /\ rec'[f].deleted > 0
                          /\ f \in w /\ exists[f] => rec'[f].deleted = 0
  BY <1>1, Analyzed
<1>4. ScoreInv'
  BY <1>3 DEF ScoreInv
<1>5. DeletedIsTombstone'
  <2> SUFFICES ASSUME NEW f \in w \cap SrcFiles
               PROVE  /\ ~exists[f] => rec'[f].value = 10000 /\ rec'[f].deleted > 0
                      /\ exists[f] => rec'[f].deleted = 0
                      /\ exists[f] => rec'[f].reparse > 0 \/ rec'[f].value <= 7500
    BY <1>1 DEF DeletedIsTombstone
  <2>1. rec'[f] \in HealthRec
    BY <1>2 DEF RhTypeOK, Records
  <2> QED BY <1>3, <2>1, HealthFields DEF ScoreOK
<1> QED BY <1>2, <1>4, <1>5 DEF RhInv

LEMMA RhNextInv == RhInv /\ [RhNext]_rhVars => RhInv'
<1> SUFFICES ASSUME RhInv, [RhNext]_rhVars PROVE RhInv'
    OBVIOUS
<1>t. /\ clock \in Nat /\ exists \in [SrcFiles -> BOOLEAN] /\ shape \in [SrcFiles -> {1, 2}]
      /\ log \in Seq(SUBSET SrcFiles) /\ rec \in [Records -> HealthRec]
  BY DEF RhInv, RhTypeOK
<1>1. CASE RhTick
  BY <1>1, <1>t, RhQuietStep DEF RhTick
<1>2. ASSUME NEW r \in Records, NEW new \in HealthRec, rec' = [rec EXCEPT ![r] = new],
             new.value = rec[r].value, new.deleted = rec[r].deleted, new.reparse = rec[r].reparse,
             swept' = {}, UNCHANGED <<clock, exists, shape, log>>
      PROVE  RhInv'
  <2>1. rec' \in [Records -> HealthRec]
    BY <1>2, <1>t
  <2>2. \A f \in SrcFiles : /\ rec'[f].value = rec[f].value /\ rec'[f].deleted = rec[f].deleted
                            /\ rec'[f].reparse = rec[f].reparse
    BY <1>2, <1>t DEF Records
  <2> QED BY <1>2, <1>t, <2>1, <2>2, RhQuietStep
<1>3. CASE BumpDep
  <2> DEFINE new == [rec[Dep] EXCEPT !.updated = clock]
  <2>1. Dep \in Records /\ rec[Dep] \in HealthRec
    BY <1>t DEF Records
  <2>2. new \in HealthRec /\ new.value = rec[Dep].value /\ new.deleted = rec[Dep].deleted
        /\ new.reparse = rec[Dep].reparse
    BY <1>t, <2>1 DEF HealthRec
  <2>3. rec' = [rec EXCEPT ![Dep] = new] /\ swept' = {} /\ UNCHANGED <<clock, exists, shape, log>>
    BY <1>3 DEF BumpDep, Step
  <2> HIDE DEF new
  <2> QED BY <1>2, <2>1, <2>2, <2>3
<1>4. ASSUME NEW r \in SrcFiles \cup NoteKeys, LogHit(r) PROVE RhInv'
  <2> DEFINE new == [rec[r] EXCEPT !.accessed = clock]
  <2>1. r \in Records /\ rec[r] \in HealthRec
    BY <1>t DEF Records
  <2>2. new \in HealthRec /\ new.value = rec[r].value /\ new.deleted = rec[r].deleted
        /\ new.reparse = rec[r].reparse
    BY <1>t, <2>1 DEF HealthRec
  <2>3. rec' = [rec EXCEPT ![r] = new] /\ swept' = {} /\ UNCHANGED <<clock, exists, shape, log>>
    BY <1>4 DEF LogHit, Step
  <2> HIDE DEF new
  <2> QED BY <1>2, <2>1, <2>2, <2>3
<1>5. ASSUME NEW f \in SrcFiles, EditFile(f) \/ MoveFile(f) PROVE RhInv'
  <2>1. exists' \in [SrcFiles -> BOOLEAN] /\ shape' \in [SrcFiles -> {1, 2}]
    <3>1. shape[f] \in {1, 2} /\ exists[f] \in BOOLEAN
      BY <1>t
    <3>2. 3 - shape[f] \in {1, 2} /\ (~exists[f]) \in BOOLEAN
      BY <3>1
    <3> QED BY <1>5, <1>t, <3>2 DEF EditFile, MoveFile
  <2>2. swept' = {} /\ UNCHANGED <<clock, log, rec>>
    BY <1>5 DEF EditFile, MoveFile, Step
  <2> QED BY <1>t, <2>1, <2>2, RhQuietStep
<1>6. ASSUME NEW fs \in (SUBSET SrcFiles) \ {{}}, CommitFiles(fs) PROVE RhInv'
  <2>1. log' \in Seq(SUBSET SrcFiles)
    BY <1>6, <1>t DEF CommitFiles
  <2>2. swept' = {} /\ UNCHANGED <<clock, exists, shape, rec>>
    BY <1>6 DEF CommitFiles, Step
  <2> QED BY <1>t, <2>1, <2>2, RhQuietStep
<1>7. CASE UNCHANGED rhVars
  BY <1>7 DEF rhVars, RhInv, RhTypeOK, ScoreInv, DeletedIsTombstone
<1> QED BY <1>1, <1>3, <1>4, <1>5, <1>6, <1>7, RhReparseStep, RhHarvestStep DEF RhNext

\* What staleness analysis says of a file's existence is so for every record it
\* covered, also for those it did not think worth a write (compute_staleness and
\* staleness_changed of health/staleness.rs).
THEOREM TombstonesCorrect == RhSpec => []DeletedIsTombstone
  BY RhInitInv, RhNextInv, PTL DEF RhSpec, RhInv

\* No analysis takes back what a reparse of the last day charged a file with, and
\* none touches a record its time budget kept it from (had_recent_reparse).
THEOREM ReparseCorrect == RhSpec => ReparseOutlastsAnalysis
<1>1. ASSUME RhInv, NEW w \in KeyPrefixes, Harvest(w), NEW r \in Records
      PROVE  /\ r \notin w => rec'[r] = rec[r]
             /\ r \in SrcFiles /\ exists[r] /\ rec[r].reparse > 0 /\ rec[r].computed > 0
                /\ clock < rec[r].computed + Window => rec'[r].value >= rec[r].value
  <2>1. rec'[r] = IF r \in w /\ StalenessChanged(rec[r], ComputeStaleness(r))
                  THEN [ComputeStaleness(r) EXCEPT !.updated = clock] ELSE rec[r]
    BY <1>1 DEF Harvest, AnalyzeAll
  <2>2. rec[r] \in HealthRec /\ clock \in Nat
    BY <1>1 DEF RhInv, RhTypeOK
  <2>3. ASSUME r \in SrcFiles, exists[r], rec[r].reparse > 0, rec[r].computed > 0,
               clock < rec[r].computed + Window
        PROVE  rec'[r].value >= rec[r].value
    <3>1. HadRecentReparse(r)
      BY <2>2, <2>3, HealthFields, HealthAssumption DEF HadRecentReparse
    <3>2. ComputeStaleness(r) \in HealthRec /\ ComputeStaleness(r).value >= rec[r].value
      BY <1>1, <2>3, <3>1, ComputedFactors DEF RhInv
    <3>3. [ComputeStaleness(r) EXCEPT !.updated = clock].value = ComputeStaleness(r).value
      BY <3>2 DEF HealthRec
    <3> QED BY <2>1, <2>2, <3>2, <3>3, HealthFields
  <2> QED BY <2>1, <2>3
<1>2. RhInv /\ [RhNext]_rhVars =>
        [\A w \in KeyPrefixes : Harvest(w) =>
          \A r \in Records : /\ r \notin w => rec'[r] = rec[r]
                             /\ r \in SrcFiles /\ exists[r] /\ rec[r].reparse > 0 /\ rec[r].computed > 0
                                /\ clock < rec[r].computed + Window => rec'[r].value >= rec[r].value]_rhVars
  BY <1>1
<1> QED BY <1>2, RhInitInv, RhNextInv, PTL DEF RhSpec, ReparseOutlastsAnalysis
-----------------------------------------------------------------------------
(* ProjectInit: what a run has read, and what it has yet to write.              *)

AnyBody == Bodies \cup {0, CHOOSE b \in Bodies : \A c \in Bodies : b <= c}
Partial(S) == UNION {[D -> S] : D \in SUBSET Files}
Lives == {"none", "candidate", "confirmed", "tombstoned"}
DiskRec == [here : BOOLEAN, body : AnyBody, mtime : Nat]
FileRecs == [there : BOOLEAN, body : AnyBody, keys : SUBSET Keys, enriched : BOOLEAN,
             flags : SUBSET Files]
Runs == [pc : {"idle", "parse", "mine", "index", "prune", "patch", "flag", "edges", "close"},
         walked : Partial(Nat), index : {<<>>} \cup [Files -> Nat], parsed : Partial(AnyBody),
         skipped : SUBSET Files, mined : SUBSET AutoKeys, pairs : SUBSET (Files \X Files),
         extra : SUBSET (SectionKeys \cup DepKeys), linked : BOOLEAN, big : SUBSET Files,
         todo : SUBSET (AutoKeys \cup DepKeys), kept : SUBSET (AutoKeys \cup DepKeys),
         unscanned : BOOLEAN, missed : SUBSET Files]
Settleds == [on : BOOLEAN, mined : SUBSET AutoKeys, cold : BOOLEAN, parsed : SUBSET Files,
             kept : SUBSET (AutoKeys \cup DepKeys), missed : SUBSET Files]
PiTypeOK ==
    /\ now \in Nat /\ disk \in [Files -> DiskRec] /\ mtimes \in [Files -> Nat]
    /\ recs \in [Files -> FileRecs] /\ got \in [Keys -> Lives]
    /\ run \in Runs /\ settled \in Settleds

\* Modification times only grow; the index lags behind the walk, the walk behind
\* the disk, and what a run read of the index behind the index.
TimeInv ==
    /\ \A f \in Files : 1 <= disk[f].mtime /\ disk[f].mtime <= now /\ mtimes[f] <= disk[f].mtime
    /\ Parsed \subseteq DOMAIN run.walked
    /\ \A f \in DOMAIN run.walked :
          /\ 1 <= run.walked[f] /\ run.walked[f] <= disk[f].mtime
          /\ run.pc \in {"parse", "mine", "index", "prune"} => mtimes[f] <= run.walked[f]
    /\ run.pc \in {"parse", "mine", "index"} => run.index \in {mtimes, NoIndex}

\* A body that was parsed is the one on disk as long as the modification time is
\* the walked one, and a record the index calls unchanged has the body on disk.
BodyInv ==
    /\ run.pc \in {"mine", "index", "prune"} =>
          \A f \in Parsed : disk[f].mtime = run.walked[f] /\ f \notin blind
                               => run.parsed[f] = disk[f].body
    /\ \A f \in Files : /\ mtimes[f] = disk[f].mtime /\ f \notin torn \cup blind
                        /\ ~(run.pc = "prune" /\ f \in Parsed)
                        => recs[f].there /\ recs[f].body = disk[f].body

\* Developer gotchas are linked but where the scan for them failed, the mined ones
\* from the put (files that were parsed) or the patch (the others it reached) on.
LinkedTo(f, ks) == \A k \in ks : f \in AffectedFiles(k) => k \in recs[f].keys
LinkInv ==
    /\ \A f \in Files : recs[f].there /\ f \notin unlinked => LinkedTo(f, {k \in ManualKeys : Active(k)})
    /\ run.pc = "patch" => \A f \in Parsed : LinkedTo(f, run.mined)
    /\ run.pc \in {"flag", "edges", "close"} =>
          \A f \in Files : recs[f].there /\ (f \in Parsed \/ (~Cold /\ f \notin run.missed))
                              => LinkedTo(f, run.mined)

\* What was mined is written, and on a cold run no other automatic gotcha lives
\* but those still to be pruned and those whose pruning failed.
MinedInv ==
    /\ run.pc = "prune" =>
          /\ run.todo \cap run.kept = {} /\ \A k \in run.todo \cup run.kept : got[k] # "none"
          /\ Cold => \A k \in AutoKeys \ run.mined : got[k] = "none" \/ k \in run.todo \cup run.kept
    /\ run.pc \in {"patch", "flag", "edges", "close"} =>
          /\ \A k \in run.mined : got[k] = "candidate"
          /\ \A k \in run.kept : got[k] # "none"
          /\ Cold => \A k \in AutoKeys \ run.mined : got[k] = "none" \/ k \in run.kept
    /\ run.pc = "close" =>
          \A k \in run.mined : \A f \in AffectedFiles(k) : <<f, "has_gotcha", k>> \in edges

SettledInv == (run.pc # "idle" => ~settled.on) /\ InitLinks

PiInv == PiTypeOK /\ TimeInv /\ BodyInv /\ LinkInv /\ MinedInv /\ SettledInv
-----------------------------------------------------------------------------

\* Records of different kinds have different keys.
LEMMA KeyKinds ==
  /\ \A k \in AutoKeys : IsAuto(k) /\ k \in Keys
  /\ \A k \in ManualKeys : ~IsAuto(k) /\ k[1] = "manual" /\ k \in Keys
  /\ \A k \in OwnerKeys : ~IsAuto(k) /\ k[1] = "codeowners" /\ k \in Keys
  /\ \A k \in SectionKeys : ~IsAuto(k) /\ k[1] = "section" /\ k \in Keys
  /\ \A k \in DepKeys : ~IsAuto(k) /\ k[1] = "dep" /\ k \in Keys
BY DEF AutoKeys, ManualKeys, OwnerKeys, SectionKeys, DepKeys, Keys, IsAuto

LEMMA PartialFacts ==
  ASSUME NEW S
  PROVE  /\ \A p \in Partial(S) : DOMAIN p \subseteq Files /\ \A x \in DOMAIN p : p[x] \in S
         /\ <<>> \in Partial(S) /\ DOMAIN <<>> = {}
<1>1. \A p \in Partial(S) : DOMAIN p \subseteq Files /\ \A x \in DOMAIN p : p[x] \in S
  BY DEF Partial
<1>2. DOMAIN <<>> = {}
  OBVIOUS
<1>3. <<>> \in [{} -> S]
  BY <1>2
<1> QED BY <1>1, <1>2, <1>3 DEF Partial

LEMMA IntoPartial == ASSUME NEW S, NEW D \in SUBSET Files, NEW p \in [D -> S]
                     PROVE  p \in Partial(S) /\ DOMAIN p = D
BY DEF Partial

LEMMA MinedKeys == \A h : Mined(h) \in SUBSET AutoKeys /\ CoChangePairs(h) \in SUBSET (Files \X Files)
<1> SUFFICES ASSUME NEW h
             PROVE  Mined(h) \in SUBSET AutoKeys /\ CoChangePairs(h) \in SUBSET (Files \X Files)
    OBVIOUS
<1>1. BuildCochange(h) \subseteq AutoKeys
  <2> SUFFICES ASSUME NEW p \in Files \X Files PROVE <<"cochange", p[1], p[2]>> \in AutoKeys
      BY DEF BuildCochange
  <2>1. p[1] \in Files /\ p[2] \in Files
    OBVIOUS
  <2> QED BY <2>1 DEF AutoKeys
<1>2. BuildRevert(h) \subseteq AutoKeys
  BY DEF BuildRevert, Changed, AutoKeys
<1>3. BuildOwnership(h) \subseteq AutoKeys
  <2>1. Hotspots(h) \subseteq Files
    BY DEF Hotspots, Changed
  <2> SUFFICES ASSUME NEW f \in Hotspots(h) PROVE <<"ownership", f>> \in AutoKeys
      BY DEF BuildOwnership
  <2> QED BY <2>1 DEF AutoKeys
<1>4. CoChangePairs(h) \in SUBSET (Files \X Files)
  BY DEF CoChangePairs
<1> QED BY <1>1, <1>2, <1>3, <1>4 DEF Mined

LEMMA QuietTypes == Quiet \in Runs /\ Quiet.pc = "idle" /\ DOMAIN Quiet.walked = {} /\ DOMAIN Quiet.parsed = {}
BY PartialFacts DEF Quiet, Runs

\* Every step that leaves the records, the clock and the disk alone, and what the
\* run has read and mined, keeps the bodies and the links.
LEMMA PiWalkStep == PiInv /\ InitWalk => PiInv'
<1> SUFFICES ASSUME PiInv, InitWalk PROVE PiInv'
    OBVIOUS
<1> DEFINE w == [f \in {x \in Files : disk[x].here} |-> disk[f].mtime]
<1>t. PiTypeOK /\ TimeInv /\ mtimes \in [Files -> Nat] /\ NoIndex \in [Files -> Nat]
  BY DEF PiInv, PiTypeOK, NoIndex
<1>1. w \in Partial(Nat) /\ DOMAIN w \subseteq Files /\ \A f \in DOMAIN w : w[f] = disk[f].mtime
  <2>1. \A f \in Files : disk[f].mtime \in Nat
    BY <1>t DEF PiTypeOK, DiskRec
  <2> DEFINE D == {x \in Files : disk[x].here}
  <2>2. w \in [D -> Nat] /\ D \in SUBSET Files /\ \A f \in D : w[f] = disk[f].mtime
    BY <2>1
  <2> HIDE DEF w, D
  <2> QED BY <2>2, IntoPartial
<1> HIDE DEF w
<1>2. PICK index \in {mtimes, NoIndex} :
        run' = [Quiet EXCEPT !.pc = "parse", !.index = index, !.walked = w]
  BY DEF InitWalk, w
<1>3. run' \in Runs /\ run'.pc = "parse" /\ run'.walked = w /\ run'.index = index /\ Parsed' = {}
  BY <1>t, <1>1, <1>2, QuietTypes DEF Quiet, Runs, Parsed
<1>4. PiTypeOK'
  BY <1>t, <1>3 DEF PiTypeOK, InitWalk, NotSettled, Settleds
<1>5. TimeInv'
  <2>1. UNCHANGED <<disk, now, mtimes>> /\ NoIndex' = NoIndex
    BY DEF InitWalk, NoIndex
  <2>2. \A f \in DOMAIN w : 1 <= w[f] /\ w[f] <= disk[f].mtime /\ mtimes[f] <= w[f]
    <3> SUFFICES ASSUME NEW f \in DOMAIN w
                 PROVE  1 <= w[f] /\ w[f] <= disk[f].mtime /\ mtimes[f] <= w[f]
        OBVIOUS
    <3>1. f \in Files /\ w[f] = disk[f].mtime /\ disk[f].mtime \in Nat
      BY <1>t, <1>1 DEF PiTypeOK, DiskRec
    <3> QED BY <1>t, <3>1 DEF TimeInv
  <2> QED BY <1>t, <1>2, <1>3, <2>1, <2>2 DEF TimeInv
<1>6. BodyInv'
  BY <1>3 DEF PiInv, BodyInv, InitWalk
<1>7. LinkInv' /\ MinedInv'
  BY <1>3 DEF PiInv, LinkInv, MinedInv, LinkedTo, InitWalk, Active, AffectedFiles
<1>8. SettledInv'
  BY DEF SettledInv, InitLinks, InitWalk, NotSettled
<1> QED BY <1>4, <1>5, <1>6, <1>7, <1>8 DEF PiInv

LEMMA PiParseStep == PiInv /\ InitParse => PiInv'
<1> SUFFICES ASSUME PiInv, InitParse PROVE PiInv'
    OBVIOUS
<1> DEFINE walked == DOMAIN run.walked
           here == {f \in walked : ~Skips(f) /\ disk[f].here}
           skipped == {f \in walked : Skips(f)}
<1>t. PiTypeOK /\ TimeInv /\ BodyInv /\ run \in Runs /\ walked \subseteq Files
  BY PartialFacts DEF PiInv, PiTypeOK, Runs
<1>0. PICK unread \in SUBSET here :
        run' = [run EXCEPT !.pc = "mine", !.skipped = skipped,
                           !.parsed = [f \in here \ unread |-> disk[f].body]]
  BY DEF InitParse
<1> DEFINE read == here \ unread
           parsed == [f \in read |-> disk[f].body]
<1>1. parsed \in Partial(AnyBody) /\ DOMAIN parsed = read /\ \A f \in read : parsed[f] = disk[f].body
  <2>1. \A f \in Files : disk[f].body \in AnyBody
    BY <1>t DEF PiTypeOK, DiskRec
  <2>2. parsed \in [read -> AnyBody] /\ read \in SUBSET Files /\ \A f \in read : parsed[f] = disk[f].body
    BY <1>t, <2>1
  <2> HIDE DEF parsed, read
  <2> QED BY <2>2, IntoPartial
<1>2. skipped \in SUBSET Files /\ read \subseteq walked
  BY <1>t
<1>4. run' = [run EXCEPT !.pc = "mine", !.skipped = skipped, !.parsed = parsed]
  BY <1>0
<1> HIDE DEF parsed, skipped, read, here
<1>5. run' \in Runs /\ run'.pc = "mine" /\ run'.walked = run.walked /\ run'.parsed = parsed
      /\ run'.index = run.index /\ Parsed' = read
  BY <1>t, <1>1, <1>2, <1>4 DEF Runs, Parsed
<1>6. PiTypeOK'
  BY <1>t, <1>5 DEF PiTypeOK, InitParse
<1>7. TimeInv'
  BY <1>t, <1>2, <1>5 DEF TimeInv, InitParse, NoIndex
<1>8. BodyInv'
  <2>1. \A f \in read : run'.parsed[f] = disk'[f].body
    BY <1>1, <1>5 DEF InitParse
  <2>2. run.pc = "parse" /\ UNCHANGED <<disk, mtimes, torn, recs, blind>>
    BY DEF InitParse
  <2> QED BY <1>t, <1>5, <2>1, <2>2 DEF BodyInv
<1>9. LinkInv' /\ MinedInv' /\ SettledInv'
  BY <1>5 DEF PiInv, LinkInv, MinedInv, LinkedTo, SettledInv, InitLinks, InitParse, Active, AffectedFiles
<1> QED BY <1>6, <1>7, <1>8, <1>9 DEF PiInv

LEMMA PiMineStep == PiInv /\ InitMine => PiInv'
<1> SUFFICES ASSUME PiInv, InitMine PROVE PiInv'
    OBVIOUS
<1>t. PiTypeOK /\ run \in Runs /\ Parsed \subseteq Files
  BY PartialFacts DEF PiInv, PiTypeOK, Runs, Parsed
<1>1. PICK missing \in SUBSET {"git", "deps", "sections", "links"},
           unread \in SUBSET {f \in Parsed : Significant(f)} :
        run' = [run EXCEPT !.pc = "index",
                  !.mined = Mined(IF "git" \in missing THEN <<>> ELSE WalkedOnly(history)),
                  !.pairs = CoChangePairs(IF "git" \in missing THEN <<>> ELSE WalkedOnly(history)),
                  !.extra = (IF "sections" \in missing THEN {} ELSE SectionKeys) \cup
                            {k \in DepKeys : "deps" \notin missing /\ k[2] \in manifest},
                  !.linked = "links" \notin missing,
                  !.big = {f \in Parsed : Significant(f)} \ unread]
  BY DEF InitMine
<1> DEFINE h == IF "git" \in missing THEN <<>> ELSE WalkedOnly(history)
           big == {f \in Parsed : Significant(f)} \ unread
           extra == (IF "sections" \in missing THEN {} ELSE SectionKeys) \cup
                    {k \in DepKeys : "deps" \notin missing /\ k[2] \in manifest}
           linked == "links" \notin missing
<1>2. /\ Mined(h) \in SUBSET AutoKeys /\ CoChangePairs(h) \in SUBSET (Files \X Files)
      /\ big \in SUBSET Files /\ extra \in SUBSET (SectionKeys \cup DepKeys) /\ linked \in BOOLEAN
  BY <1>t, MinedKeys
<1>3. run' = [run EXCEPT !.pc = "index", !.mined = Mined(h), !.pairs = CoChangePairs(h),
                         !.extra = extra, !.linked = linked, !.big = big]
  BY <1>1
<1> HIDE DEF h, big, extra, linked
<1>4. run' \in Runs /\ run'.pc = "index" /\ run'.walked = run.walked /\ run'.parsed = run.parsed
      /\ run'.index = run.index /\ Parsed' = Parsed
  BY <1>t, <1>2, <1>3 DEF Runs, Parsed
<1>5. PiTypeOK'
  BY <1>t, <1>4 DEF PiTypeOK, InitMine
<1>6. TimeInv' /\ BodyInv'
  BY <1>4 DEF PiInv, TimeInv, BodyInv, InitMine, NoIndex
<1>7. LinkInv' /\ MinedInv' /\ SettledInv'
  BY <1>4 DEF PiInv, LinkInv, MinedInv, LinkedTo, SettledInv, InitLinks, InitMine, Active, AffectedFiles
<1> QED BY <1>5, <1>6, <1>7 DEF PiInv

LEMMA PiIndexStep == PiInv /\ InitIndex => PiInv'
<1> SUFFICES ASSUME PiInv, InitIndex PROVE PiInv'
    OBVIOUS
<1> DEFINE saved == [f \in Files |-> IF f \in Parsed THEN run.walked[f] ELSE run.index[f]]
<1>t. PiTypeOK /\ TimeInv /\ BodyInv /\ run \in Runs /\ Parsed \subseteq Files /\ run.pc = "index"
      /\ run.walked \in Partial(Nat) /\ DOMAIN run.walked \subseteq Files
      /\ mtimes \in [Files -> Nat] /\ NoIndex \in [Files -> Nat]
  BY PartialFacts DEF PiInv, PiTypeOK, Runs, Parsed, InitIndex, Index, NoIndex
<1>0. PICK kinds \in SUBSET {k[1] : k \in Unwritten} :
        /\ mtimes' \in {saved, mtimes, NoIndex}
        /\ run' = [run EXCEPT !.pc = "prune", !.todo = {k \in Unwritten : k[1] \notin kinds},
                              !.kept = {k \in Unwritten : k[1] \in kinds}]
  BY DEF InitIndex, Index
<1> DEFINE todo == {k \in Unwritten : k[1] \notin kinds}
           kept == {k \in Unwritten : k[1] \in kinds}
<1>1. /\ todo \in SUBSET (AutoKeys \cup DepKeys) /\ kept \in SUBSET (AutoKeys \cup DepKeys)
      /\ todo \cap kept = {} /\ \A k \in todo \cup kept : got[k] # "none"
      /\ Cold => \A k \in AutoKeys \ run.mined : got[k] = "none" \/ k \in todo \cup kept
  BY DEF Unwritten
<1>2. run' = [run EXCEPT !.pc = "prune", !.todo = todo, !.kept = kept]
  BY <1>0
<1> HIDE DEF todo, kept, saved
<1>3. run' \in Runs /\ run'.pc = "prune" /\ run'.walked = run.walked /\ run'.parsed = run.parsed
      /\ run'.mined = run.mined /\ run'.todo = todo /\ run'.kept = kept
      /\ Parsed' = Parsed /\ Cold' = Cold
  BY <1>t, <1>1, <1>2 DEF Runs, Parsed, Cold
<1>4. /\ saved \in [Files -> Nat]
      /\ \A f \in Files : saved[f] = IF f \in Parsed THEN run.walked[f] ELSE run.index[f]
  <2>1. \A f \in Parsed : run.walked[f] \in Nat
    BY <1>t, PartialFacts DEF TimeInv
  <2>2. run.index \in [Files -> Nat]
    BY <1>t DEF TimeInv
  <2> QED BY <2>1, <2>2 DEF saved
<1>5. \A f \in Files : NoIndex[f] = 0
  BY DEF NoIndex
<1>6. PiTypeOK'
  BY <1>t, <1>0, <1>3, <1>4 DEF PiTypeOK, InitIndex, Index
<1>7. \A f \in Files : mtimes'[f] \in {mtimes[f], 0} \/ (f \in Parsed /\ mtimes'[f] = run.walked[f])
  BY <1>t, <1>0, <1>4, <1>5 DEF TimeInv
<1>8. UNCHANGED <<now, disk, recs, got, edges, settled, torn, blind, unlinked>>
  BY DEF InitIndex, Index
<1>9. TimeInv'
  <2>1. \A f \in DOMAIN run.walked : /\ f \in Files /\ run.walked[f] \in Nat /\ 1 <= run.walked[f]
                                     /\ mtimes[f] \in Nat /\ mtimes[f] <= run.walked[f]
    BY <1>t, PartialFacts DEF TimeInv
  <2>2. \A f \in Files : mtimes'[f] <= disk[f].mtime
    <3> SUFFICES ASSUME NEW f \in Files PROVE mtimes'[f] <= disk[f].mtime
        OBVIOUS
    <3>1. disk[f].mtime \in Nat /\ mtimes[f] <= disk[f].mtime
          /\ (f \in Parsed => run.walked[f] <= disk[f].mtime)
      BY <1>t DEF PiTypeOK, DiskRec, TimeInv
    <3> QED BY <1>7, <3>1
  <2>3. \A f \in DOMAIN run.walked : mtimes'[f] <= run.walked[f]
    BY <1>7, <2>1
  <2> QED BY <1>t, <1>3, <1>8, <2>2, <2>3 DEF TimeInv
<1>10. BodyInv'
  <2>1. \A f \in Files : f \notin Parsed /\ mtimes'[f] = disk[f].mtime => mtimes[f] = disk[f].mtime
    BY <1>t, <1>7 DEF TimeInv, PiTypeOK, DiskRec
  <2> QED BY <1>t, <1>3, <1>8, <2>1 DEF BodyInv
<1>11. LinkInv' /\ SettledInv'
  BY <1>3, <1>8, <1>t DEF PiInv, LinkInv, LinkedTo, SettledInv, InitLinks, Active, AffectedFiles
<1>12. MinedInv'
  BY <1>1, <1>3, <1>8 DEF MinedInv
<1> QED BY <1>6, <1>9, <1>10, <1>11, <1>12 DEF PiInv

LEMMA ManualApart == \A k \in ManualKeys : k \notin AutoKeys \cup DepKeys \cup SectionKeys \cup OwnerKeys
BY KeyKinds

LEMMA OwnedApart == \A k \in OwnerKeys : k \notin AutoKeys \cup DepKeys \cup SectionKeys \cup ManualKeys
BY KeyKinds

LEMMA AutoApart == \A k \in AutoKeys : k \notin DepKeys \cup SectionKeys \cup OwnerKeys \cup ManualKeys
BY KeyKinds

LEMMA PiPruneStep == PiInv /\ InitPrune => PiInv'
<1> SUFFICES ASSUME PiInv, InitPrune PROVE PiInv'
    OBVIOUS
<1>t. PiTypeOK /\ TimeInv /\ BodyInv /\ run \in Runs /\ run.pc = "prune"
  BY DEF PiInv, PiTypeOK, InitPrune
<1>m. /\ run.todo \cap run.kept = {} /\ \A x \in run.todo \cup run.kept : got[x] # "none"
      /\ Cold => \A x \in AutoKeys \ run.mined : got[x] = "none" \/ x \in run.todo \cup run.kept
  BY <1>t DEF PiInv, MinedInv
<1>1. PICK k \in run.todo :
        \/ got' = [got EXCEPT ![k] = "none"] /\ run' = [run EXCEPT !.todo = run.todo \ {k}]
        \/ got' = got /\ run' = [run EXCEPT !.todo = run.todo \ {k}, !.kept = run.kept \cup {k}]
  BY DEF InitPrune
<1>2. k \in AutoKeys \cup DepKeys /\ k \in Keys
  BY <1>t, KeyKinds DEF Runs
<1>3. run' \in Runs /\ run'.pc = "prune" /\ run'.walked = run.walked /\ run'.parsed = run.parsed
      /\ run'.mined = run.mined /\ run'.todo = run.todo \ {k} /\ Parsed' = Parsed /\ Cold' = Cold
  <2>1. run.kept \cup {k} \in SUBSET (AutoKeys \cup DepKeys)
    BY <1>t, <1>2 DEF Runs
  <2>2. CASE run' = [run EXCEPT !.todo = run.todo \ {k}]
    BY <1>t, <2>2 DEF Runs, Parsed, Cold
  <2>3. CASE run' = [run EXCEPT !.todo = run.todo \ {k}, !.kept = run.kept \cup {k}]
    BY <1>t, <2>1, <2>3 DEF Runs, Parsed, Cold
  <2> QED BY <1>1, <2>2, <2>3
<1>4. /\ got' \in [Keys -> Lives]
      /\ \/ run'.kept = run.kept /\ \A x \in Keys : got'[x] = IF x = k THEN "none" ELSE got[x]
         \/ run'.kept = run.kept \cup {k} /\ got' = got
  BY <1>t, <1>1 DEF PiTypeOK, Lives, Runs
<1>5. \A x \in ManualKeys : got'[x] = got[x]
  BY <1>2, <1>4, ManualApart, KeyKinds
<1>6. UNCHANGED <<now, disk, mtimes, recs, edges, settled, torn, blind, unlinked>>
  BY DEF InitPrune
<1>7. PiTypeOK'
  BY <1>t, <1>3, <1>4, <1>6 DEF PiTypeOK
<1>8. TimeInv' /\ BodyInv'
  BY <1>t, <1>3, <1>6 DEF TimeInv, BodyInv
<1>9. LinkInv'
  BY <1>3, <1>5, <1>6 DEF PiInv, LinkInv, LinkedTo, Active, AffectedFiles
<1>10. MinedInv'
  <2>1. \A x \in run.todo \cup run.kept : x \in Keys
    BY <1>t, KeyKinds DEF Runs
  <2>2. run'.todo \cap run'.kept = {} /\ \A x \in run'.todo \cup run'.kept : got'[x] # "none"
    BY <1>m, <1>3, <1>4, <2>1
  <2>3. Cold => \A x \in AutoKeys \ run.mined : got'[x] = "none" \/ x \in run'.todo \cup run'.kept
    BY <1>m, <1>3, <1>4, KeyKinds
  <2> QED BY <1>3, <2>2, <2>3 DEF MinedInv
<1>11. SettledInv'
  BY <1>t, <1>6 DEF PiInv, SettledInv, InitLinks
<1> QED BY <1>7, <1>8, <1>9, <1>10, <1>11 DEF PiInv

\* A stub carries the body that was parsed, what was mined for the file and, when
\* the scan for them worked, the developer gotchas of the store.
LEMMA StubFacts ==
  ASSUME NEW f \in Files, NEW b \in AnyBody, NEW mined \in SUBSET AutoKeys
  PROVE  /\ Stub(f, b, mined, run.linked) \in FileRecs
         /\ Stub(f, b, mined, run.linked).there /\ Stub(f, b, mined, run.linked).body = b
         /\ \A k \in mined : f \in AffectedFiles(k) => k \in Stub(f, b, mined, run.linked).keys
         /\ \A k \in ManualKeys : run.linked /\ Active(k) /\ f \in AffectedFiles(k)
                                     => k \in Stub(f, b, mined, run.linked).keys
<1> DEFINE keys == {k \in mined : f \in AffectedFiles(k)} \cup
                   {k \in Keys : run.linked /\ ~IsAuto(k) /\ Active(k) /\ f \in AffectedFiles(k)}
<1>1. keys \in SUBSET Keys
  BY KeyKinds
<1>2. /\ \A k \in mined : f \in AffectedFiles(k) => k \in keys
      /\ \A k \in ManualKeys : run.linked /\ Active(k) /\ f \in AffectedFiles(k) => k \in keys
  BY KeyKinds
<1>3. Stub(f, b, mined, run.linked) = [NoRec EXCEPT !.there = TRUE, !.body = b, !.keys = keys]
  BY DEF Stub
<1>4. NoRec \in FileRecs
  BY DEF NoRec, FileRecs, AnyBody
<1> HIDE DEF keys
<1> QED BY <1>1, <1>2, <1>3, <1>4 DEF FileRecs

LEMMA PiPutStep == PiInv /\ InitPut => PiInv'
<1> SUFFICES ASSUME PiInv, InitPut PROVE PiInv'
    OBVIOUS
<1>t. PiTypeOK /\ TimeInv /\ BodyInv /\ run \in Runs /\ run.pc = "prune" /\ run.mined \in SUBSET AutoKeys
      /\ Parsed \subseteq Files /\ (\A f \in Parsed : run.parsed[f] \in AnyBody) /\ run.linked \in BOOLEAN
      /\ run.todo = {} /\ run.kept \in SUBSET (AutoKeys \cup DepKeys)
  BY PartialFacts DEF PiInv, PiTypeOK, InitPut, Runs, Parsed
<1>0. PICK owners \in SUBSET OwnerKeys, unscanned \in BOOLEAN :
        /\ got' = [k \in Keys |-> IF k \in run.mined \cup run.extra \cup owners THEN "candidate"
                                  ELSE got[k]]
        /\ run' = [run EXCEPT !.pc = "patch", !.unscanned = unscanned]
  BY DEF InitPut
<1>1. /\ torn' = torn \ Parsed
      /\ blind' = blind \ {f \in Parsed : run.parsed[f] = disk[f].body}
      /\ unlinked' = IF run.linked THEN unlinked \ Parsed ELSE unlinked \cup Parsed
      /\ UNCHANGED <<now, disk, mtimes, edges, settled>>
  BY DEF InitPut
<1>2. run' \in Runs /\ run'.pc = "patch" /\ run'.walked = run.walked /\ run'.parsed = run.parsed
      /\ run'.mined = run.mined /\ run'.kept = run.kept /\ Parsed' = Parsed /\ Cold' = Cold
  BY <1>t, <1>0 DEF Runs, Parsed, Cold
<1>3. /\ \A k \in ManualKeys : k \notin run.mined \cup run.extra \cup owners
      /\ \A k \in AutoKeys : k \in run.mined \cup run.extra \cup owners <=> k \in run.mined
  BY <1>t, ManualApart, AutoApart DEF Runs
<1>4. /\ got' \in [Keys -> Lives]
      /\ \A k \in ManualKeys : got'[k] = got[k]
      /\ \A k \in AutoKeys : got'[k] = IF k \in run.mined THEN "candidate" ELSE got[k]
      /\ \A k \in Keys : got'[k] \in {"candidate", got[k]}
  BY <1>t, <1>0, <1>3, KeyKinds DEF PiTypeOK, Lives
<1>5. recs' \in [Files -> FileRecs]
      /\ \A f \in Files : recs'[f] = IF f \in Parsed THEN Stub(f, run.parsed[f], run.mined, run.linked)
                                     ELSE recs[f]
  <2>1. \A f \in Parsed : Stub(f, run.parsed[f], run.mined, run.linked) \in FileRecs
    BY <1>t, StubFacts
  <2> QED BY <1>t, <2>1 DEF InitPut, PiTypeOK
<1>s. ASSUME NEW f \in Parsed
      PROVE  /\ recs'[f].there /\ recs'[f].body = run.parsed[f]
             /\ \A k \in run.mined : f \in AffectedFiles(k) => k \in recs'[f].keys
             /\ \A k \in ManualKeys : run.linked /\ Active(k) /\ f \in AffectedFiles(k)
                                         => k \in recs'[f].keys
  <2>1. f \in Files /\ run.parsed[f] \in AnyBody /\ recs'[f] = Stub(f, run.parsed[f], run.mined, run.linked)
    BY <1>t, <1>5
  <2> QED BY <1>t, <2>1, StubFacts
<1>6. PiTypeOK'
  BY <1>t, <1>1, <1>2, <1>4, <1>5 DEF PiTypeOK
<1>7. TimeInv'
  BY <1>t, <1>1, <1>2 DEF TimeInv
<1>8. BodyInv'
  <2> SUFFICES ASSUME NEW f \in Files, mtimes[f] = disk[f].mtime, f \notin torn' \cup blind'
               PROVE  recs'[f].there /\ recs'[f].body = disk[f].body
      BY <1>1, <1>2 DEF BodyInv
  <2>1. CASE f \in Parsed
    <3>1. f \in DOMAIN run.walked /\ run.walked[f] \in Nat /\ disk[f].mtime \in Nat
          /\ mtimes[f] <= run.walked[f] /\ run.walked[f] <= disk[f].mtime
      BY <1>t, <2>1, PartialFacts DEF TimeInv, PiTypeOK, DiskRec, Runs
    <3>2. run.parsed[f] = disk[f].body
      BY <1>t, <1>1, <2>1, <3>1 DEF BodyInv
    <3> QED BY <1>s, <2>1, <3>2
  <2>2. CASE f \notin Parsed
    BY <1>t, <1>1, <1>5, <2>2 DEF BodyInv
  <2> QED BY <2>1, <2>2
<1>9. LinkInv'
  <2>1. ASSUME NEW f \in Files, NEW k \in ManualKeys, recs'[f].there, f \notin unlinked', Active(k)',
               f \in AffectedFiles(k)
        PROVE  k \in recs'[f].keys
    <3>1. Active(k)
      BY <1>4, <2>1 DEF Active
    <3>2. CASE f \in Parsed
      <4>1. run.linked
        BY <1>1, <2>1, <3>2
      <4> QED BY <1>s, <2>1, <3>1, <3>2, <4>1
    <3>3. CASE f \notin Parsed
      <4>1. f \notin unlinked
        BY <1>1, <2>1, <3>3
      <4> QED BY <1>5, <2>1, <3>1, <3>3, <4>1 DEF PiInv, LinkInv, LinkedTo
    <3> QED BY <3>2, <3>3
  <2>2. ASSUME NEW f \in Parsed, NEW k \in run.mined, f \in AffectedFiles(k) PROVE k \in recs'[f].keys
    BY <1>s, <2>2
  <2>3. \A k : AffectedFiles(k)' = AffectedFiles(k)
    BY DEF AffectedFiles
  <2> QED BY <1>2, <2>1, <2>2, <2>3 DEF LinkInv, LinkedTo
<1>10. MinedInv'
  <2>1. /\ \A k \in run.kept : got[k] # "none"
        /\ Cold => \A k \in AutoKeys \ run.mined : got[k] = "none" \/ k \in run.kept
    BY <1>t DEF PiInv, MinedInv
  <2>2. \A k \in run.kept : got'[k] # "none"
    BY <1>t, <1>4, <2>1, KeyKinds
  <2> QED BY <1>t, <1>2, <1>4, <2>1, <2>2 DEF MinedInv
<1>11. SettledInv'
  BY <1>t, <1>1 DEF PiInv, SettledInv, InitLinks
<1> QED BY <1>6, <1>7, <1>8, <1>9, <1>10, <1>11 DEF PiInv

\* The steps after the put only change which gotchas and flags the records show.
LEMMA PiLateStep ==
  ASSUME PiInv, recs' \in [Files -> FileRecs],
         \A f \in Files : recs'[f].there = recs[f].there /\ recs'[f].body = recs[f].body,
         run' \in Runs, run'.walked = run.walked, run'.parsed = run.parsed, run'.mined = run.mined,
         run'.skipped = run.skipped,
         run.pc \in {"patch", "flag", "edges"}, run'.pc \in {"flag", "edges", "close"},
         UNCHANGED <<now, disk, mtimes, got, settled, torn, blind>>
  PROVE  /\ PiTypeOK' /\ TimeInv' /\ BodyInv' /\ SettledInv'
         /\ Parsed' = Parsed /\ Cold' = Cold
         /\ \A k : AffectedFiles(k)' = AffectedFiles(k) /\ Active(k)' = Active(k)
<1>1. Parsed' = Parsed /\ Cold' = Cold
  BY DEF Parsed, Cold
<1>2. \A k : AffectedFiles(k)' = AffectedFiles(k) /\ Active(k)' = Active(k)
  BY DEF AffectedFiles, Active
<1>3. PiTypeOK'
  BY DEF PiInv, PiTypeOK
<1>4. TimeInv' /\ BodyInv'
  BY <1>1 DEF PiInv, TimeInv, BodyInv
<1>5. SettledInv'
  BY DEF PiInv, SettledInv, InitLinks
<1> QED BY <1>1, <1>2, <1>3, <1>4, <1>5

LEMMA PatchFacts ==
  ASSUME PiInv, NEW f \in Files, NEW kinds
  PROVE  /\ PatchKeys(f, kinds) \in SUBSET Keys
         /\ \A k \in run.mined : f \in AffectedFiles(k) => k \in PatchKeys(f, kinds)
         /\ \A k \in ManualKeys : k \in recs[f].keys => k \in PatchKeys(f, kinds)
<1> DEFINE auto == {k \in run.mined \cup {a \in AutoKeys : Active(a) /\ a[1] \notin kinds} :
                       f \in AffectedFiles(k)}
<1>1. recs[f].keys \in SUBSET Keys /\ run.mined \in SUBSET AutoKeys
  BY DEF PiInv, PiTypeOK, FileRecs, Runs
<1>2. PatchKeys(f, kinds) = IF auto = {} THEN recs[f].keys
                            ELSE {k \in recs[f].keys : ~IsAuto(k)} \cup auto
  BY DEF PatchKeys
<1>3. \A k \in run.mined : f \in AffectedFiles(k) => k \in auto
  OBVIOUS
<1>4. auto \subseteq Keys
  BY <1>1, KeyKinds
<1> HIDE DEF auto
<1> QED BY <1>1, <1>2, <1>3, <1>4, KeyKinds

LEMMA PiPatchStep == PiInv /\ InitPatch => PiInv'
<1> SUFFICES ASSUME PiInv, InitPatch PROVE PiInv'
    OBVIOUS
<1>t. PiTypeOK /\ run \in Runs /\ run.pc = "patch"
      /\ UNCHANGED <<now, disk, mtimes, got, edges, settled, torn, blind, unlinked>>
  BY DEF PiInv, PiTypeOK, InitPatch
<1> DEFINE Patched(kinds, missed) ==
             [f \in Files |-> IF ~Cold /\ f \in Patchable \ missed
                              THEN [recs[f] EXCEPT !.keys = PatchKeys(f, kinds)] ELSE recs[f]]
           To(missed) == [run EXCEPT !.pc = "flag", !.missed = missed]
<1>0. \E kinds \in SUBSET {"cochange", "revert", "ownership"}, missed \in SUBSET Files :
        run' = To(missed) /\ recs' = Patched(kinds, missed)
  <2>1. CASE Cold
    <3>1. recs' = recs /\ run' = To(run.missed)
      BY <1>t, <2>1 DEF InitPatch, Runs
    <3>2. recs' = Patched({}, run.missed) /\ run.missed \in SUBSET Files
      BY <1>t, <2>1, <3>1 DEF PiTypeOK, Runs
    <3> HIDE DEF Patched, To
    <3> QED BY <3>1, <3>2
  <2>2. CASE ~Cold
    <3>1. PICK kinds \in SUBSET {"cochange", "revert", "ownership"}, missed \in SUBSET Patchable :
            /\ recs' = [f \in Files |-> IF f \in Patchable \ missed
                                        THEN [recs[f] EXCEPT !.keys = PatchKeys(f, kinds)] ELSE recs[f]]
            /\ run' = [run EXCEPT !.pc = "flag", !.missed = missed]
      BY <2>2 DEF InitPatch
    <3>2. missed \in SUBSET Files
      BY DEF Patchable
    <3>3. recs' = Patched(kinds, missed) /\ run' = To(missed)
      BY <2>2, <3>1
    <3> HIDE DEF Patched, To
    <3> QED BY <3>2, <3>3
  <2> QED BY <2>1, <2>2
<1>p. PICK kinds \in SUBSET {"cochange", "revert", "ownership"}, missed \in SUBSET Files :
        run' = To(missed) /\ recs' = Patched(kinds, missed)
  <2> HIDE DEF Patched, To
  <2> QED BY <1>0
<1> DEFINE patched(f) == ~Cold /\ recs[f].there /\ f \notin Parsed /\ f \notin missed
<1>1. run' \in Runs /\ run'.pc = "flag" /\ run'.walked = run.walked /\ run'.parsed = run.parsed
      /\ run'.mined = run.mined /\ run'.skipped = run.skipped /\ run'.kept = run.kept
      /\ run'.missed = missed
  BY <1>t, <1>p DEF Runs
<1>2. \A f \in Files : recs'[f] = IF patched(f) THEN [recs[f] EXCEPT !.keys = PatchKeys(f, kinds)]
                                  ELSE recs[f]
  BY <1>p DEF Patchable
<1>3. \A f \in Files : [recs[f] EXCEPT !.keys = PatchKeys(f, kinds)] \in FileRecs
  <2> SUFFICES ASSUME NEW f \in Files PROVE [recs[f] EXCEPT !.keys = PatchKeys(f, kinds)] \in FileRecs
      OBVIOUS
  <2>1. recs[f] \in FileRecs /\ PatchKeys(f, kinds) \in SUBSET Keys
    BY <1>t, PatchFacts DEF PiTypeOK
  <2> QED BY <2>1 DEF FileRecs
<1>4. recs' \in [Files -> FileRecs]
  BY <1>t, <1>p, <1>3 DEF PiTypeOK
<1>5. \A f \in Files : /\ recs'[f].there = recs[f].there /\ recs'[f].body = recs[f].body
                       /\ recs'[f].keys = IF patched(f) THEN PatchKeys(f, kinds) ELSE recs[f].keys
  BY <1>t, <1>2 DEF PiTypeOK, FileRecs
<1>6. /\ PiTypeOK' /\ TimeInv' /\ BodyInv' /\ SettledInv'
      /\ Parsed' = Parsed /\ Cold' = Cold
      /\ \A k : AffectedFiles(k)' = AffectedFiles(k) /\ Active(k)' = Active(k)
  BY <1>t, <1>1, <1>4, <1>5, PiLateStep
<1>7. MinedInv'
  BY <1>t, <1>1, <1>6 DEF PiInv, MinedInv
<1>8. LinkInv'
  <2>1. \A f \in Files : \A k \in ManualKeys : k \in recs[f].keys => k \in recs'[f].keys
    BY <1>t, <1>5, PatchFacts
  <2>2. \A f \in Files : patched(f) => LinkedTo(f, run.mined)'
    BY <1>t, <1>1, <1>5, <1>6, PatchFacts DEF LinkedTo
  <2>3. \A f \in Parsed : f \in Files => LinkedTo(f, run.mined)'
    BY <1>t, <1>1, <1>5, <1>6 DEF LinkedTo, PiInv, LinkInv
  <2>4. \A f \in Files : recs'[f].there /\ (f \in Parsed \/ (~Cold /\ f \notin missed))
                            => LinkedTo(f, run.mined)'
    BY <1>5, <2>2, <2>3
  <2>5. \A f \in Files : recs'[f].there /\ f \notin unlinked => LinkedTo(f, {k \in ManualKeys : Active(k)})'
    BY <1>5, <1>6, <2>1 DEF LinkedTo, LinkInv, PiInv
  <2> QED BY <1>t, <1>1, <1>6, <2>4, <2>5 DEF LinkInv, LinkedTo
<1> QED BY <1>6, <1>7, <1>8 DEF PiInv

LEMMA PiFlagStep == PiInv /\ InitFlag => PiInv'
<1> SUFFICES ASSUME PiInv, InitFlag PROVE PiInv'
    OBVIOUS
<1>t. PiTypeOK /\ run \in Runs /\ run.pc = "flag" /\ run' = [run EXCEPT !.pc = "edges"]
      /\ UNCHANGED <<now, disk, mtimes, got, edges, settled, torn, blind, unlinked>>
  BY DEF PiInv, PiTypeOK, InitFlag
<1>0. PICK lost \in SUBSET Files :
        recs' = [f \in Files |-> IF recs[f].there /\ f \notin lost
                                 THEN [recs[f] EXCEPT !.flags = recs[f].flags \cup Flags(f)] ELSE recs[f]]
  BY DEF InitFlag
<1>1. run' \in Runs /\ run'.pc = "edges" /\ run'.walked = run.walked /\ run'.parsed = run.parsed
      /\ run'.mined = run.mined /\ run'.skipped = run.skipped /\ run'.kept = run.kept
      /\ run'.missed = run.missed
  BY <1>t DEF Runs
<1>2. \A f \in Files : [recs[f] EXCEPT !.flags = recs[f].flags \cup Flags(f)] \in FileRecs
  <2> SUFFICES ASSUME NEW f \in Files
               PROVE  [recs[f] EXCEPT !.flags = recs[f].flags \cup Flags(f)] \in FileRecs
      OBVIOUS
  <2>1. recs[f] \in FileRecs /\ Flags(f) \in SUBSET Files
    BY <1>t DEF PiTypeOK, Flags, Runs
  <2> QED BY <2>1 DEF FileRecs
<1>3. recs' \in [Files -> FileRecs]
  BY <1>t, <1>0, <1>2 DEF PiTypeOK
<1>4. \A f \in Files : /\ recs'[f].there = recs[f].there /\ recs'[f].body = recs[f].body
                       /\ recs'[f].keys = recs[f].keys
  BY <1>t, <1>0 DEF PiTypeOK, FileRecs
<1>5. /\ PiTypeOK' /\ TimeInv' /\ BodyInv' /\ SettledInv'
      /\ Parsed' = Parsed /\ Cold' = Cold
      /\ \A k : AffectedFiles(k)' = AffectedFiles(k) /\ Active(k)' = Active(k)
  BY <1>t, <1>1, <1>3, <1>4, PiLateStep
<1>6. MinedInv' /\ LinkInv'
  BY <1>t, <1>1, <1>4, <1>5 DEF PiInv, MinedInv, LinkInv, LinkedTo
<1> QED BY <1>5, <1>6 DEF PiInv

LEMMA PiEdgesStep == PiInv /\ InitEdges => PiInv'
<1> SUFFICES ASSUME PiInv, InitEdges PROVE PiInv'
    OBVIOUS
<1>t. PiTypeOK /\ run \in Runs /\ run.pc = "edges" /\ run' = [run EXCEPT !.pc = "close"]
      /\ UNCHANGED <<now, disk, mtimes, recs, got, settled, torn, blind, unlinked>>
  BY DEF PiInv, PiTypeOK, InitEdges
<1>1. run' \in Runs /\ run'.pc = "close" /\ run'.walked = run.walked /\ run'.parsed = run.parsed
      /\ run'.mined = run.mined /\ run'.skipped = run.skipped /\ run'.kept = run.kept
      /\ run'.missed = run.missed
  BY <1>t DEF Runs
<1>2. /\ PiTypeOK' /\ TimeInv' /\ BodyInv' /\ SettledInv'
      /\ Parsed' = Parsed /\ Cold' = Cold
      /\ \A k : AffectedFiles(k)' = AffectedFiles(k) /\ Active(k)' = Active(k)
  BY <1>t, <1>1, PiLateStep DEF PiTypeOK
<1>3. \A k \in run.mined : \A f \in AffectedFiles(k) : <<f, "has_gotcha", k>> \in edges'
  BY DEF InitEdges, NewEdges, GotchaEdges
<1>4. MinedInv' /\ LinkInv'
  BY <1>t, <1>1, <1>2, <1>3 DEF PiInv, MinedInv, LinkInv, LinkedTo
<1> QED BY <1>2, <1>4 DEF PiInv

LEMMA PiCloseStep == PiInv /\ InitClose => PiInv'
<1> SUFFICES ASSUME PiInv, InitClose PROVE PiInv'
    OBVIOUS
<1>t. PiTypeOK /\ run \in Runs /\ run.pc = "close" /\ run' = Quiet
      /\ settled' = [on |-> TRUE, mined |-> run.mined, cold |-> Cold, parsed |-> Parsed,
                     kept |-> run.kept, missed |-> run.missed]
      /\ UNCHANGED <<now, disk, mtimes, recs, got, edges, torn, blind, unlinked>>
  BY DEF PiInv, PiTypeOK, InitClose
<1>1. run' \in Runs /\ run'.pc = "idle" /\ DOMAIN run'.walked = {} /\ Parsed' = {}
  BY <1>t, QuietTypes DEF Parsed
<1>2. run.mined \in SUBSET AutoKeys /\ Parsed \subseteq Files /\ Cold \in BOOLEAN
      /\ run.kept \in SUBSET (AutoKeys \cup DepKeys) /\ run.missed \in SUBSET Files
  BY <1>t, PartialFacts DEF Runs, Parsed, Cold
<1>3. settled' \in Settleds /\ settled'.on /\ settled'.mined = run.mined /\ settled'.cold = Cold
      /\ settled'.parsed = Parsed /\ settled'.kept = run.kept /\ settled'.missed = run.missed
  BY <1>t, <1>2 DEF Settleds
<1>4. PiTypeOK'
  BY <1>t, <1>1, <1>3 DEF PiTypeOK
<1>5. TimeInv'
  BY <1>t, <1>1 DEF PiInv, TimeInv
<1>6. BodyInv'
  BY <1>t, <1>1 DEF PiInv, BodyInv
<1>7. \A k : AffectedFiles(k)' = AffectedFiles(k) /\ Active(k)' = Active(k)
  BY <1>t DEF AffectedFiles, Active
<1>8. LinkInv' /\ MinedInv'
  BY <1>t, <1>1, <1>7 DEF PiInv, LinkInv, LinkedTo, MinedInv
<1>9. SettledInv'
  <2>1. ASSUME NEW f \in Files, recs[f].there
        PROVE  /\ f \notin unlinked =>
                     {k \in ManualKeys : Active(k) /\ f \in AffectedFiles(k)} \subseteq recs[f].keys
               /\ f \in Parsed \/ (~Cold /\ f \notin run.missed) =>
                     {k \in run.mined : f \in AffectedFiles(k)} \subseteq recs[f].keys
    BY <1>t, <2>1 DEF PiInv, LinkInv, LinkedTo
  <2>2. \A k \in run.mined : \A f \in AffectedFiles(k) : <<f, "has_gotcha", k>> \in edges
    BY <1>t DEF PiInv, MinedInv
  <2>3. Cold => {k \in AutoKeys : got[k] # "none"} = run.mined \cup (run.kept \cap AutoKeys)
    BY <1>t, <1>2 DEF PiInv, MinedInv
  <2> QED BY <1>t, <1>1, <1>3, <1>7, <2>1, <2>2, <2>3 DEF SettledInv, InitLinks
<1> QED BY <1>4, <1>5, <1>6, <1>8, <1>9 DEF PiInv

LEMMA PiDiesStep == PiInv /\ InitDies => PiInv'
<1> SUFFICES ASSUME PiInv, InitDies PROVE PiInv'
    OBVIOUS
<1>t. PiTypeOK /\ run.pc # "idle" /\ run' = Quiet
      /\ torn' = (IF run.pc = "prune" THEN torn \cup Parsed ELSE torn)
      /\ mtimes' \in {mtimes, NoIndex} /\ NoIndex \in [Files -> Nat] /\ (\A f \in Files : NoIndex[f] = 0)
      /\ UNCHANGED <<now, disk, recs, got, edges, settled, blind, unlinked>>
  BY DEF PiInv, InitDies, NoIndex
<1>1. run' \in Runs /\ run'.pc = "idle" /\ DOMAIN run'.walked = {} /\ Parsed' = {}
  BY <1>t, QuietTypes DEF Parsed
<1>2. PiTypeOK'
  BY <1>t, <1>1 DEF PiTypeOK
<1>3. TimeInv'
  BY <1>t, <1>1 DEF PiInv, TimeInv, PiTypeOK, DiskRec
<1>4. BodyInv'
  BY <1>t, <1>1 DEF PiInv, BodyInv, TimeInv
<1>5. \A k : AffectedFiles(k)' = AffectedFiles(k) /\ Active(k)' = Active(k)
  BY <1>t DEF AffectedFiles, Active
<1>6. LinkInv' /\ MinedInv' /\ SettledInv'
  BY <1>t, <1>1, <1>5 DEF PiInv, LinkInv, LinkedTo, MinedInv, SettledInv, InitLinks
<1> QED BY <1>2, <1>3, <1>4, <1>6 DEF PiInv

\* A body that changes gets a later modification time, or is blind.
LEMMA PiEditStep == ASSUME PiInv, NEW f \in Files, NEW b \in Bodies, Edit(f, b) PROVE PiInv'
<1>t. PiTypeOK /\ run' = run
      /\ disk' = [disk EXCEPT ![f] = [here |-> TRUE, body |-> b, mtime |-> now]]
      /\ blind' = (IF disk[f].mtime = now THEN blind \cup {f} ELSE blind \ {f})
      /\ UNCHANGED <<now, mtimes, recs, got, edges, settled, torn, unlinked>>
  BY DEF PiInv, Edit
<1>1. \A g \in Files : disk'[g] = IF g = f THEN [here |-> TRUE, body |-> b, mtime |-> now] ELSE disk[g]
  BY <1>t DEF PiTypeOK
<1>2. PiTypeOK'
  <2>1. [here |-> TRUE, body |-> b, mtime |-> now] \in DiskRec
    BY <1>t DEF PiTypeOK, DiskRec, AnyBody
  <2> QED BY <1>t, <2>1 DEF PiTypeOK
<1>3. Parsed' = Parsed /\ Parsed \subseteq Files /\ DOMAIN run.walked \subseteq Files
      /\ \A g \in Parsed : g \in DOMAIN run.walked
  BY <1>t, PartialFacts DEF Parsed, PiInv, PiTypeOK, Runs, TimeInv
<1>4. \A g \in Files : disk[g].mtime \in Nat /\ now \in Nat /\ mtimes[g] \in Nat /\ disk[g].mtime <= now
                       /\ disk'[g].mtime = (IF g = f THEN now ELSE disk[g].mtime)
                       /\ disk'[g].body = (IF g = f THEN b ELSE disk[g].body)
  BY <1>t, <1>1 DEF PiTypeOK, DiskRec, PiInv, TimeInv
<1>5. \A g \in DOMAIN run.walked : run.walked[g] \in Nat
  BY <1>t, PartialFacts DEF PiTypeOK, Runs
<1>6. TimeInv'
  <2>1. \A g \in Files : 1 <= disk'[g].mtime /\ disk'[g].mtime <= now /\ mtimes[g] <= disk'[g].mtime
    BY <1>4 DEF PiInv, TimeInv
  <2>2. \A g \in DOMAIN run.walked : run.walked[g] <= disk'[g].mtime
    BY <1>3, <1>4, <1>5 DEF PiInv, TimeInv
  <2> QED BY <1>t, <1>3, <2>1, <2>2 DEF PiInv, TimeInv
<1>7. BodyInv'
  <2>1. ASSUME NEW g \in Parsed, run.pc \in {"mine", "index", "prune"}, disk'[g].mtime = run.walked[g],
               g \notin blind'
        PROVE  run.parsed[g] = disk'[g].body
    <3>1. run.walked[g] <= disk[g].mtime /\ g \in Files /\ g \in DOMAIN run.walked
      BY <1>3, <2>1 DEF PiInv, TimeInv
    <3>2. g # f
      BY <1>t, <1>4, <1>5, <2>1, <3>1
    <3> QED BY <1>t, <1>4, <2>1, <3>1, <3>2 DEF PiInv, BodyInv
  <2>2. ASSUME NEW g \in Files, mtimes[g] = disk'[g].mtime, g \notin torn \cup blind',
               ~(run.pc = "prune" /\ g \in Parsed)
        PROVE  recs[g].there /\ recs[g].body = disk'[g].body
    <3>1. g # f
      BY <1>t, <1>4, <2>2 DEF PiInv, TimeInv
    <3> QED BY <1>t, <1>4, <2>2, <3>1 DEF PiInv, BodyInv
  <2> QED BY <1>t, <1>3, <2>1, <2>2 DEF BodyInv
<1>8. \A k : AffectedFiles(k)' = AffectedFiles(k) /\ Active(k)' = Active(k)
  BY <1>t DEF AffectedFiles, Active
<1>9. Cold' = Cold
  BY <1>t DEF Cold
<1>10. LinkInv' /\ MinedInv' /\ SettledInv'
  BY <1>t, <1>3, <1>8, <1>9 DEF PiInv, LinkInv, LinkedTo, MinedInv, SettledInv, InitLinks
<1> QED BY <1>2, <1>6, <1>7, <1>10 DEF PiInv

\* A gotcha command links and unlinks its own gotcha only.
LEMMA PiGotchaStep ==
  ASSUME PiInv, NEW k \in ManualKeys \cup OwnerKeys \cup AutoKeys,
         NEW s \in {"candidate", "confirmed", "tombstoned"}, GotchaCommand(k, s)
  PROVE  PiInv'
<1> DEFINE keys(f) == IF s = "tombstoned" THEN recs[f].keys \ {k} ELSE recs[f].keys \cup {k}
<1>t. PiTypeOK /\ run' = run /\ run.pc = "idle"
      /\ got' = [got EXCEPT ![k] = s] /\ settled' = [settled EXCEPT !.on = FALSE]
      /\ UNCHANGED <<now, disk, mtimes, edges, torn, blind, unlinked>>
  BY DEF PiInv, GotchaCommand
<1>1. k \in Keys /\ \A x : AffectedFiles(x)' = AffectedFiles(x)
  BY KeyKinds DEF AffectedFiles
<1>2. got' \in [Keys -> Lives] /\ \A x \in Keys : got'[x] = IF x = k THEN s ELSE got[x]
  BY <1>t, <1>1 DEF PiTypeOK, Lives
<1>3. \A f \in Files : recs'[f] = IF ~recs[f].there \/ f \notin AffectedFiles(k) THEN recs[f]
                                  ELSE [recs[f] EXCEPT !.keys = keys(f)]
  BY DEF GotchaCommand
<1>4. \A f \in Files : recs[f] \in FileRecs /\ [recs[f] EXCEPT !.keys = keys(f)] \in FileRecs
  <2> SUFFICES ASSUME NEW f \in Files
               PROVE  recs[f] \in FileRecs /\ [recs[f] EXCEPT !.keys = keys(f)] \in FileRecs
      OBVIOUS
  <2>1. recs[f] \in FileRecs
    BY <1>t DEF PiTypeOK
  <2>2. keys(f) \in SUBSET Keys
    BY <1>1, <2>1 DEF FileRecs
  <2> HIDE DEF keys
  <2> QED BY <2>1, <2>2 DEF FileRecs
<1>5. recs' \in [Files -> FileRecs]
  BY <1>4 DEF GotchaCommand
<1>6. \A f \in Files : /\ recs'[f].there = recs[f].there /\ recs'[f].body = recs[f].body
                       /\ recs'[f].keys = IF ~recs[f].there \/ f \notin AffectedFiles(k)
                                          THEN recs[f].keys ELSE keys(f)
  <2> HIDE DEF keys
  <2> QED BY <1>3, <1>4 DEF FileRecs
<1>7. settled' \in Settleds /\ ~settled'.on
  BY <1>t DEF PiTypeOK, Settleds
<1>8. PiTypeOK'
  BY <1>t, <1>2, <1>5, <1>7 DEF PiTypeOK
<1>9. TimeInv'
  BY <1>t DEF PiInv, TimeInv, Parsed
<1>10. BodyInv'
  BY <1>t, <1>6 DEF PiInv, BodyInv, Parsed
<1>11. LinkInv'
  <2> SUFFICES ASSUME NEW f \in Files, NEW x \in ManualKeys, recs'[f].there, f \notin unlinked,
                      Active(x)', f \in AffectedFiles(x)
               PROVE  x \in recs'[f].keys
      BY <1>t, <1>1 DEF LinkInv, LinkedTo
  <2>1. CASE x = k
    BY <1>1, <1>2, <1>6, <2>1 DEF Active
  <2>2. CASE x # k
    <3>1. x \in Keys /\ Active(x)
      BY <1>2, <2>2, KeyKinds DEF Active
    <3>2. x \in recs[f].keys
      BY <1>6, <3>1 DEF PiInv, LinkInv, LinkedTo
    <3> QED BY <1>6, <2>2, <3>2
  <2> QED BY <2>1, <2>2
<1>12. MinedInv' /\ SettledInv'
  BY <1>t, <1>7 DEF MinedInv, SettledInv, InitLinks
<1> QED BY <1>8, <1>9, <1>10, <1>11, <1>12 DEF PiInv

\* The other steps: the clock, deletions, commits, the manifest and enrichment.
LEMMA PiOtherStep ==
  ASSUME PiInv,
         \/ Tick \/ (\E f \in Files : Delete(f) \/ Enrich(f)) \/ (\E c \in Commits : Commit(c))
         \/ (\E d \in Deps : Manifest(d)) \/ UNCHANGED initVars
  PROVE  PiInv'
<1>t. PiTypeOK
  BY DEF PiInv
<1>1. run' = run /\ UNCHANGED <<mtimes, got, edges, settled, torn, blind, unlinked>> /\ NoIndex' = NoIndex
  BY DEF Tick, Delete, Enrich, Commit, Manifest, initVars, NoIndex
<1>2. now' \in Nat /\ now <= now'
  <2>1. now' = now \/ now' = now + 1
    BY DEF Tick, Delete, Enrich, Commit, Manifest, initVars
  <2> QED BY <1>t, <2>1 DEF PiTypeOK
<1>3. disk' \in [Files -> DiskRec]
      /\ \A f \in Files : disk'[f].body = disk[f].body /\ disk'[f].mtime = disk[f].mtime
  <2>1. disk' = disk \/ \E f \in Files : disk' = [disk EXCEPT ![f].here = FALSE]
    BY DEF Tick, Delete, Enrich, Commit, Manifest, initVars
  <2>2. \A f \in Files : /\ disk[f] \in DiskRec /\ [disk[f] EXCEPT !.here = FALSE] \in DiskRec
                         /\ [disk[f] EXCEPT !.here = FALSE].body = disk[f].body
                         /\ [disk[f] EXCEPT !.here = FALSE].mtime = disk[f].mtime
    BY <1>t DEF PiTypeOK, DiskRec
  <2> QED BY <1>t, <2>1, <2>2 DEF PiTypeOK
<1>4. recs' \in [Files -> FileRecs]
      /\ \A f \in Files : recs'[f].there = recs[f].there /\ recs'[f].body = recs[f].body
                          /\ recs'[f].keys = recs[f].keys
  <2>1. recs' = recs \/ \E f \in Files : recs' = [recs EXCEPT ![f].enriched = TRUE]
    BY DEF Tick, Delete, Enrich, Commit, Manifest, initVars
  <2>2. \A f \in Files : /\ recs[f] \in FileRecs /\ [recs[f] EXCEPT !.enriched = TRUE] \in FileRecs
                         /\ [recs[f] EXCEPT !.enriched = TRUE].there = recs[f].there
                         /\ [recs[f] EXCEPT !.enriched = TRUE].body = recs[f].body
                         /\ [recs[f] EXCEPT !.enriched = TRUE].keys = recs[f].keys
    <3>1. ASSUME NEW r \in FileRecs
          PROVE  /\ [r EXCEPT !.enriched = TRUE] \in FileRecs
                 /\ [r EXCEPT !.enriched = TRUE].there = r.there
                 /\ [r EXCEPT !.enriched = TRUE].body = r.body
                 /\ [r EXCEPT !.enriched = TRUE].keys = r.keys
      BY DEF FileRecs
    <3> QED BY <1>t, <3>1 DEF PiTypeOK
  <2> QED BY <1>t, <2>1, <2>2 DEF PiTypeOK
<1>5. Parsed' = Parsed /\ Cold' = Cold /\ DOMAIN run.walked \subseteq Files /\ Parsed \subseteq Files
  BY <1>1, <1>t, PartialFacts DEF Parsed, Cold, PiTypeOK, Runs
<1>6. \A k : AffectedFiles(k)' = AffectedFiles(k) /\ Active(k)' = Active(k)
  BY <1>1 DEF AffectedFiles, Active
<1>7. PiTypeOK'
  BY <1>t, <1>1, <1>2, <1>3, <1>4 DEF PiTypeOK
<1>8. TimeInv'
  <2>1. \A f \in Files : disk[f].mtime \in Nat /\ disk[f].mtime <= now' /\ now \in Nat
    BY <1>t, <1>2 DEF PiInv, TimeInv, PiTypeOK, DiskRec
  <2> QED BY <1>1, <1>3, <1>5, <2>1 DEF PiInv, TimeInv
<1>9. BodyInv'
  BY <1>1, <1>3, <1>4, <1>5 DEF PiInv, BodyInv
<1>10. LinkInv' /\ MinedInv' /\ SettledInv'
  BY <1>1, <1>4, <1>5, <1>6 DEF PiInv, LinkInv, LinkedTo, MinedInv, SettledInv, InitLinks
<1> QED BY <1>7, <1>8, <1>9, <1>10 DEF PiInv

LEMMA PiNextInv == PiInv /\ [PiNext]_initVars => PiInv'
<1>1. PiInv /\ InitStep => PiInv'
  BY PiWalkStep, PiParseStep, PiMineStep, PiIndexStep, PiPruneStep, PiPutStep, PiPatchStep, PiFlagStep,
     PiEdgesStep, PiCloseStep, PiDiesStep DEF InitStep
<1>2. PiInv /\ PiNext => PiInv'
  BY <1>1, PiEditStep, PiGotchaStep, PiOtherStep DEF PiNext
<1> QED BY <1>2, PiOtherStep

LEMMA PiInitInv == PiInit => PiInv
<1> SUFFICES ASSUME PiInit PROVE PiInv
    OBVIOUS
<1> DEFINE b == CHOOSE b \in Bodies : \A c \in Bodies : b <= c
<1>1. /\ now = 1 /\ disk = [f \in Files |-> [here |-> TRUE, body |-> b, mtime |-> 1]]
      /\ mtimes = [f \in Files |-> 0] /\ recs = [f \in Files |-> NoRec]
      /\ got = [k \in Keys |-> "none"] /\ run = Quiet /\ settled = NotSettled
  BY DEF PiInit
<1>2. b \in AnyBody
  BY DEF AnyBody
<1>3. NoRec \in FileRecs /\ ~NoRec.there
  BY DEF NoRec, FileRecs, AnyBody
<1> HIDE DEF b
<1>4. PiTypeOK
  BY <1>1, <1>2, <1>3, QuietTypes DEF PiTypeOK, DiskRec, Lives, NotSettled, Settleds
<1>5. TimeInv /\ BodyInv
  BY <1>1, QuietTypes DEF TimeInv, BodyInv, Parsed
<1>6. LinkInv /\ MinedInv /\ SettledInv
  BY <1>1, <1>3, QuietTypes DEF LinkInv, MinedInv, SettledInv, InitLinks, NotSettled
<1> QED BY <1>4, <1>5, <1>6 DEF PiInv

\* A run that ended has left nothing behind but what failed under its warnings:
\* what the next one will skip is recorded with the content it has, and what was
\* mined is linked and has its edges (cli/init.rs, hash_and_parse_parallel, the
\* writes of phases 8 and 9), for any number of failures.
THEOREM InitCorrect == PiSpec => []InitComplete
<1>1. PiInv => InitComplete
  BY DEF PiInv, BodyInv, SettledInv, InitComplete, SkippedIsRecorded
<1> QED BY <1>1, PiInitInv, PiNextInv, PTL DEF PiSpec

\* No step of a run touches a developer's gotcha, nor a CODEOWNERS candidate the
\* store has, unless the scan for those failed (build_codeowners_candidates, the
\* cold prune of candidates).
THEOREM DecisionsCorrect == PiSpec => DecisionsKept
<1>1. ASSUME PiInv, InitStep, NEW k \in ManualKeys \cup OwnerKeys, got[k] # "none"
      PROVE  got'[k] = got[k] \/ (k \in OwnerKeys /\ run.pc = "prune" /\ run'.unscanned)
  <2>1. k \in Keys /\ got \in [Keys -> Lives] /\ run \in Runs
    BY <1>1, KeyKinds DEF PiInv, PiTypeOK
  <2>2. CASE InitPrune
    <3>1. PICK x \in run.todo : got' = [got EXCEPT ![x] = "none"] \/ got' = got
      BY <2>2 DEF InitPrune
    <3>2. x \in AutoKeys \cup DepKeys
      BY <2>1, <3>1 DEF Runs
    <3>3. x # k
      BY <3>2, ManualApart, OwnedApart
    <3> QED BY <2>1, <3>1, <3>3
  <2>3. CASE InitPut
    <3>1. run.mined \in SUBSET AutoKeys /\ run.extra \in SUBSET (SectionKeys \cup DepKeys)
          /\ run.pc = "prune"
      BY <2>1, <2>3 DEF Runs, InitPut
    <3>2. PICK owners \in SUBSET OwnerKeys, unscanned \in BOOLEAN :
            /\ OwnersToWrite(owners, unscanned)
            /\ got' = [x \in Keys |-> IF x \in run.mined \cup run.extra \cup owners THEN "candidate"
                                      ELSE got[x]]
            /\ run' = [run EXCEPT !.pc = "patch", !.unscanned = unscanned]
      BY <2>3 DEF InitPut
    <3>3. k \notin run.mined \cup run.extra
      BY <3>1, ManualApart, OwnedApart
    <3>4. CASE k \in owners
      <4>1. k \in OwnerKeys /\ unscanned
        BY <1>1, <3>2, <3>4 DEF OwnersToWrite, NewOwnerKeys
      <4>2. run'.unscanned
        BY <2>1, <3>2, <4>1 DEF Runs
      <4> QED BY <3>1, <4>1, <4>2
    <3>5. CASE k \notin owners
      BY <2>1, <3>2, <3>3, <3>5
    <3> QED BY <3>4, <3>5
  <2>4. CASE UNCHANGED got
    BY <2>4
  <2> QED BY <1>1, <2>2, <2>3, <2>4 DEF InitStep, InitWalk, InitParse, InitMine, InitIndex, Index,
             InitPatch, InitFlag, InitEdges, InitClose, InitDies
<1>2. PiInv /\ [PiNext]_initVars =>
        [InitStep => \A k \in ManualKeys \cup OwnerKeys : got[k] # "none" =>
                        \/ got'[k] = got[k]
                        \/ k \in OwnerKeys /\ run.pc = "prune" /\ run'.unscanned]_initVars
  BY <1>1
<1> QED BY <1>2, PiInitInv, PiNextInv, PTL DEF PiSpec, DecisionsKept

-----------------------------------------------------------------------------
(* ClientRoutes: two implementations of the same commands, side by side.         *)

\* What the two stores agree on. The daemon's gotcha is at most less confirmed.
AlikeGotcha(x, y) ==
    /\ x.st = y.st /\ x.rule = y.rule /\ x.files = y.files /\ x.enriched = y.enriched
    /\ (y.confirmed => x.confirmed) /\ y.count <= x.count
AlikeLinks(a, b) ==
    /\ \A k \in GKeys : AlikeGotcha(a.gotcha[k], b.gotcha[k])
    /\ a.links = b.links /\ a.known = b.known
Alike(a, b) ==
    /\ AlikeLinks(a, b)
    /\ a.edges = b.edges /\ a.exemplars = b.exemplars /\ a.outcome = b.outcome
    /\ b.receipts \subseteq a.receipts
Dumps == [gotcha : [GKeys -> Recs], links : [Paths -> SUBSET GKeys], known : SUBSET Paths,
          bumps : [Paths -> Nat]]

\* Before a review starts: the stores agree, and so do the dumps, and the links of
\* the direct one are exact. Without the last a confirmation would repair a link
\* in one world only.
WorldsInv ==
    /\ world \in [Routes -> Stores] /\ dump \subseteq [Routes -> Dumps]
    /\ ~apart => /\ Alike(world["direct"], world["daemon"]) /\ LinksExact(world["direct"])
                 /\ \A d \in dump : AlikeLinks(d["direct"], d["daemon"])
CrInv ==
    /\ DOMAIN review = DOMAIN NoReview /\ apart \in BOOLEAN
    /\ review.total = 0 => review.at = "off" /\ WorldsInv

LinksTo(w, k, old, new) ==
    [p \in Paths |-> IF p \in new \ old THEN w.links[p] \cup {k}
                     ELSE IF p \in old \ new THEN w.links[p] \ {k} ELSE w.links[p]]
EdgesTo(w, k, old, new) == (w.edges \cup {<<p, k>> : p \in new \ old}) \ {<<p, k>> : p \in old \ new}

\* The pieces every command is made of, field by field.
HasLinked(v, w, k, old, new) ==
    /\ v \in Stores
    /\ v.links = LinksTo(w, k, old, new) /\ v.known = w.known \cup (new \ old)
    /\ v.gotcha = w.gotcha /\ v.edges = w.edges /\ v.bumps = w.bumps
    /\ v.receipts = w.receipts /\ v.exemplars = w.exemplars /\ v.outcome = w.outcome
HasJoined(v, w, k, old, new) ==
    /\ v \in Stores
    /\ v.edges = EdgesTo(w, k, old, new)
    /\ v.gotcha = w.gotcha /\ v.links = w.links /\ v.known = w.known /\ v.bumps = w.bumps
    /\ v.receipts = w.receipts /\ v.exemplars = w.exemplars /\ v.outcome = w.outcome
HasSynced(v, w, k, old, new) ==
    /\ v \in Stores
    /\ v.links = LinksTo(w, k, old, new) /\ v.known = w.known \cup (new \ old)
    /\ v.edges = EdgesTo(w, k, old, new)
    /\ v.gotcha = w.gotcha /\ v.bumps = w.bumps /\ v.receipts = w.receipts
    /\ v.exemplars = w.exemplars /\ v.outcome = w.outcome
Put(v, w, k, card) ==
    /\ v \in Stores
    /\ v.gotcha = [w.gotcha EXCEPT ![k] = card]
    /\ v.links = w.links /\ v.known = w.known /\ v.edges = w.edges /\ v.bumps = w.bumps
    /\ v.receipts = w.receipts /\ v.exemplars = w.exemplars /\ v.outcome = w.outcome
Extracted(v, w, k, b) ==
    /\ v \in Stores
    /\ v.outcome = IF b THEN [w.outcome EXCEPT ![k] = "pending"] ELSE w.outcome
    /\ v.gotcha = w.gotcha /\ v.links = w.links /\ v.known = w.known /\ v.edges = w.edges
    /\ v.bumps = w.bumps /\ v.receipts = w.receipts /\ v.exemplars = w.exemplars
Marked(v, w, k, o) ==
    /\ v \in Stores
    /\ v.outcome = IF w.outcome[k] = "none" THEN w.outcome ELSE [w.outcome EXCEPT ![k] = o]
    /\ v.gotcha = w.gotcha /\ v.links = w.links /\ v.known = w.known /\ v.edges = w.edges
    /\ v.bumps = w.bumps /\ v.receipts = w.receipts /\ v.exemplars = w.exemplars
Archived(v, w, k, files) ==
    /\ v \in Stores
    /\ v.exemplars = w.exemplars \cup {<<DirOf[p], k>> : p \in files}
    /\ v.gotcha = w.gotcha /\ v.links = w.links /\ v.known = w.known /\ v.edges = w.edges
    /\ v.bumps = w.bumps /\ v.receipts = w.receipts /\ v.outcome = w.outcome
Bumped(v, w) ==
    /\ v \in Stores
    /\ v.gotcha = w.gotcha /\ v.links = w.links /\ v.known = w.known /\ v.edges = w.edges
    /\ v.receipts = w.receipts /\ v.exemplars = w.exemplars /\ v.outcome = w.outcome

LEMMA LinksIs ==
  ASSUME NEW w \in Stores, NEW k \in GKeys, NEW old \in SUBSET Paths, NEW new \in SUBSET Paths
  PROVE  HasLinked(SyncLinks(w, k, old, new), w, k, old, new)
<1>1. LinksTo(w, k, old, new) \in [Paths -> SUBSET GKeys]
  BY DEF LinksTo, Stores
<1> QED BY <1>1 DEF SyncLinks, Stores, LinksTo, HasLinked

LEMMA EdgesIs ==
  ASSUME NEW w \in Stores, NEW k \in GKeys, NEW old \in SUBSET Paths, NEW new \in SUBSET Paths
  PROVE  HasJoined(SyncEdges(w, k, old, new), w, k, old, new)
<1>1. EdgesTo(w, k, old, new) \in SUBSET (Paths \X GKeys)
  BY DEF EdgesTo, Stores
<1> QED BY <1>1 DEF SyncEdges, Stores, EdgesTo, HasJoined

LEMMA SyncIs ==
  ASSUME NEW w \in Stores, NEW k \in GKeys, NEW old \in SUBSET Paths, NEW new \in SUBSET Paths
  PROVE  HasSynced(SyncBoth(w, k, old, new), w, k, old, new)
<1>1. PICK x : x = SyncLinks(w, k, old, new)
  OBVIOUS
<1>2. HasLinked(x, w, k, old, new)
  BY <1>1, LinksIs
<1>3. HasJoined(SyncEdges(x, k, old, new), x, k, old, new)
  BY <1>2, EdgesIs DEF HasLinked
<1>4. EdgesTo(x, k, old, new) = EdgesTo(w, k, old, new)
  BY <1>2 DEF HasLinked, EdgesTo
<1>5. PICK v : v = SyncEdges(x, k, old, new)
  OBVIOUS
<1>6. HasSynced(v, w, k, old, new)
  BY <1>2, <1>3, <1>4, <1>5 DEF HasLinked, HasJoined, HasSynced
<1> QED BY <1>1, <1>5, <1>6 DEF SyncBoth

LEMMA PutIs ==
  ASSUME NEW w \in Stores, NEW k \in GKeys, NEW card \in Recs
  PROVE  Put(PutGotcha(w, k, card), w, k, card)
<1>1. [w.gotcha EXCEPT ![k] = card] \in [GKeys -> Recs]
  BY DEF Stores
<1> QED BY <1>1 DEF PutGotcha, Stores, Put

LEMMA ExtractIs ==
  ASSUME NEW w \in Stores, NEW k \in GKeys, NEW b \in BOOLEAN
  PROVE  Extracted(WriteOnExtraction(w, k, b), w, k, b)
BY DEF WriteOnExtraction, Stores, Extracted

LEMMA MarkIs ==
  ASSUME NEW w \in Stores, NEW k \in GKeys, NEW o \in {"confirmed", "tombstoned"}
  PROVE  Marked(MarkOutcome(w, k, o), w, k, o)
BY DEF MarkOutcome, Stores, Marked

LEMMA ArchiveIs ==
  ASSUME NEW w \in Stores, NEW k \in GKeys, NEW files \in SUBSET Paths
  PROVE  Archived(Archive(w, k, files), w, k, files)
<1>1. {<<DirOf[p], k>> : p \in files} \subseteq {DirOf[p] : p \in Paths} \X GKeys
  OBVIOUS
<1> QED BY <1>1 DEF Archive, Stores, Archived

LEMMA CountedIs ==
  ASSUME NEW w \in Stores, NEW files \in SUBSET Paths
  PROVE  Bumped(Counted(w, files), w)
<1>1. [p \in Paths |-> IF p \in files THEN w.bumps[p] + 1 ELSE w.bumps[p]] \in [Paths -> Nat]
  BY DEF Stores
<1> QED BY <1>1 DEF Counted, Stores, Bumped

-----------------------------------------------------------------------------
(* Writing a gotcha.                                                            *)

\* The record k becomes card, its links go from the files old to the files new; with
\* b an extraction is pending.
HasWritten(v, w, k, card, old, new, b) ==
    /\ v \in Stores
    /\ v.gotcha = [w.gotcha EXCEPT ![k] = card]
    /\ v.links = LinksTo(w, k, old, new) /\ v.known = w.known \cup (new \ old)
    /\ v.edges = EdgesTo(w, k, old, new)
    /\ v.outcome = IF b THEN [w.outcome EXCEPT ![k] = "pending"] ELSE w.outcome
    /\ v.receipts = w.receipts /\ v.exemplars = w.exemplars

LEMMA DirectWriteIs ==
  ASSUME NEW w \in Stores, NEW k \in GKeys, NEW card \in Recs, NEW old \in SUBSET Paths,
         NEW new \in SUBSET Paths, NEW isNew, NEW b \in BOOLEAN, b = (isNew /\ card.enriched)
  PROVE  HasWritten(DirectWrite(w, k, card, old, new, isNew), w, k, card, old, new, b)
<1>1. PICK x : x = PutGotcha(w, k, card)
  OBVIOUS
<1>2. PICK y : y = WriteOnExtraction(x, k, b)
  OBVIOUS
<1>3. PICK v : v = SyncBoth(y, k, old, new)
  OBVIOUS
<1>4. Put(x, w, k, card)
  BY <1>1, PutIs
<1>5. Extracted(y, x, k, b)
  BY <1>2, <1>4, ExtractIs DEF Put
<1>6. HasSynced(v, y, k, old, new)
  BY <1>3, <1>5, SyncIs DEF Extracted
<1>7. /\ LinksTo(y, k, old, new) = LinksTo(w, k, old, new)
      /\ EdgesTo(y, k, old, new) = EdgesTo(w, k, old, new)
  BY <1>4, <1>5 DEF Put, Extracted, LinksTo, EdgesTo
<1>8. HasWritten(v, w, k, card, old, new, b)
  BY <1>4, <1>5, <1>6, <1>7 DEF Put, Extracted, HasSynced, HasWritten
<1> QED BY <1>1, <1>2, <1>3, <1>8 DEF DirectWrite

\* What the daemon makes of a gotcha record: a draft.
Drafted(card) == [st |-> "active", rule |-> card.rule, files |-> card.files, confirmed |-> FALSE,
                 source |-> UpsertSource(card.source), count |-> 0, enriched |-> card.enriched]

LEMMA DraftedIs ==
  ASSUME NEW card \in Recs
  PROVE  Drafted(card) \in Recs
BY DEF Recs, Drafted, UpsertSource

LEMMA DraftedAlike ==
  ASSUME NEW card \in Recs, NEW draft \in Recs, card.st = "active", draft.rule = card.rule,
         draft.files = card.files, draft.enriched = card.enriched
  PROVE  AlikeGotcha(card, Drafted(draft))
<1>1. Drafted(draft).count = 0 /\ ~Drafted(draft).confirmed
  BY DEF Drafted
<1>2. card.count \in Nat
  BY DEF Recs
<1>3. 0 <= card.count
  BY <1>2
<1>4. /\ Drafted(draft).st = "active" /\ Drafted(draft).rule = card.rule
      /\ Drafted(draft).files = card.files /\ Drafted(draft).enriched = card.enriched
  BY DEF Drafted
<1> QED BY <1>1, <1>3, <1>4 DEF AlikeGotcha

\* The files a gotcha is linked from.
OldFiles(w, k) == IF IsActive(w, k) THEN w.gotcha[k].files ELSE {}

LEMMA DaemonUpsertIs ==
  ASSUME NEW w \in Stores, NEW k \in GKeys, NEW card \in Recs, NEW new \in SUBSET Paths, new = card.files,
         NEW old \in SUBSET Paths, old = OldFiles(w, k),
         NEW b \in BOOLEAN, b = (~IsActive(w, k) /\ card.enriched)
  PROVE  HasWritten(DaemonUpsert(w, k, card.rule, new, card.source, card.enriched), w, k, Drafted(card), old, new, b)
<1>1. PICK x : x = PutGotcha(w, k, Drafted(card))
  OBVIOUS
<1>2. PICK y : y = SyncBoth(x, k, old, new)
  OBVIOUS
<1>3. PICK v : v = WriteOnExtraction(y, k, b)
  OBVIOUS
<1>4. Put(x, w, k, Drafted(card))
  BY <1>1, PutIs, DraftedIs
<1>5. HasSynced(y, x, k, old, new)
  BY <1>2, <1>4, SyncIs DEF Put
<1>6. Extracted(v, y, k, b)
  BY <1>3, <1>5, ExtractIs DEF HasSynced
<1>7. /\ LinksTo(x, k, old, new) = LinksTo(w, k, old, new)
      /\ EdgesTo(x, k, old, new) = EdgesTo(w, k, old, new)
  BY <1>4 DEF Put, LinksTo, EdgesTo
<1>8. HasWritten(v, w, k, Drafted(card), old, new, b)
  BY <1>4, <1>5, <1>6, <1>7 DEF Put, Extracted, HasSynced, HasWritten
<1>9. v = DaemonUpsert(w, k, card.rule, new, card.source, card.enriched)
  <2>1. (IF ~IsActive(w, k) THEN {} ELSE w.gotcha[k].files) = old
    BY DEF OldFiles
  <2> QED BY <2>1, <1>1, <1>2, <1>3 DEF DaemonUpsert, Drafted
<1> QED BY <1>8, <1>9

\* A written gotcha: its links go from the files it had to the files it has.
LEMMA ExactAfterWrite ==
  ASSUME NEW w \in Stores, NEW v, NEW k \in GKeys, NEW card \in Recs, NEW old, NEW new, NEW b,
         LinksExact(w), HasWritten(v, w, k, card, old, new, b),
         old = OldFiles(w, k), new = card.files, card.st = "active"
  PROVE  LinksExact(v)
<1> SUFFICES ASSUME NEW h \in GKeys, NEW p \in Paths
             PROVE  (h \in v.links[p]) = (IsActive(v, h) /\ p \in v.gotcha[h].files)
  BY DEF LinksExact
<1>1. (h \in w.links[p]) = (IsActive(w, h) /\ p \in w.gotcha[h].files)
  BY DEF LinksExact
<1>2. v.links[p] = IF p \in new \ old THEN w.links[p] \cup {k}
                   ELSE IF p \in old \ new THEN w.links[p] \ {k} ELSE w.links[p]
  BY DEF LinksTo, HasWritten
<1>3. v.gotcha[h] = IF h = k THEN card ELSE w.gotcha[h]
  BY DEF Stores, HasWritten
<1>4. CASE h = k
  <2>1. h \in w.links[p] <=> p \in old
    BY <1>1, <1>4 DEF OldFiles
  <2>2. h \in v.links[p] <=> p \in new
    BY <2>1, <1>2, <1>4
  <2>3. IsActive(v, h) /\ v.gotcha[h].files = new
    BY <1>3, <1>4 DEF IsActive
  <2> QED BY <2>2, <2>3
<1>5. CASE h # k
  BY <1>1, <1>2, <1>3, <1>5 DEF IsActive
<1> QED BY <1>4, <1>5

LEMMA SameActive ==
  ASSUME NEW a, NEW b, AlikeLinks(a, b), NEW k \in GKeys
  PROVE  /\ (IsActive(a, k) <=> IsActive(b, k)) /\ (Exists(a, k) <=> Exists(b, k))
         /\ a.gotcha[k].files = b.gotcha[k].files /\ a.gotcha[k].rule = b.gotcha[k].rule
BY DEF AlikeLinks, AlikeGotcha, IsActive, Exists

\* The same links, joined or written in two alike stores, leave them alike.
LEMMA SameLinks ==
  ASSUME NEW a, NEW b, Alike(a, b), NEW k, NEW old, NEW new
  PROVE  LinksTo(b, k, old, new) = LinksTo(a, k, old, new)
         /\ EdgesTo(b, k, old, new) = EdgesTo(a, k, old, new)
BY DEF LinksTo, EdgesTo, Alike, AlikeLinks

LEMMA AlikeAfterWrite ==
  ASSUME NEW a \in Stores, NEW b \in Stores, Alike(a, b), NEW k \in GKeys, NEW x, NEW y, NEW e,
         NEW card, NEW draft, NEW old, NEW new, AlikeGotcha(card, draft),
         HasWritten(x, a, k, card, old, new, e), HasWritten(y, b, k, draft, old, new, e)
  PROVE  Alike(x, y)
<1>1. ASSUME NEW h \in GKeys PROVE AlikeGotcha(x.gotcha[h], y.gotcha[h])
  <2>1. /\ x.gotcha[h] = IF h = k THEN card ELSE a.gotcha[h]
        /\ y.gotcha[h] = IF h = k THEN draft ELSE b.gotcha[h]
    BY DEF Stores, HasWritten
  <2> QED BY <2>1 DEF Alike, AlikeLinks
<1>2. x.links = y.links /\ x.edges = y.edges /\ x.known = y.known
  BY SameLinks DEF HasWritten, Alike, AlikeLinks
<1>3. x.outcome = y.outcome /\ x.exemplars = y.exemplars /\ y.receipts \subseteq x.receipts
  BY DEF HasWritten, Alike
<1> QED BY <1>1, <1>2, <1>3 DEF Alike, AlikeLinks

\* A gotcha written by each route, the daemon's from a record with the same content.
LEMMA WrittenAlike ==
  ASSUME NEW a \in Stores, NEW b \in Stores, NEW k \in GKeys, NEW card \in Recs, NEW old \in SUBSET Paths,
         NEW draft \in Recs, NEW isNew \in BOOLEAN, NEW any
  PROVE  /\ GotchaWrite("direct", a, k, card, old, isNew) \in Stores
         /\ GotchaWrite("daemon", b, k, draft, any, isNew) \in Stores
         /\ (/\ Alike(a, b) /\ LinksExact(a) /\ isNew = ~IsActive(a, k)
             /\ old = OldFiles(a, k) /\ card.st = "active"
             /\ draft.rule = card.rule /\ draft.files = card.files /\ draft.enriched = card.enriched)
            => /\ Alike(GotchaWrite("direct", a, k, card, old, isNew),
                        GotchaWrite("daemon", b, k, draft, any, isNew))
               /\ LinksExact(GotchaWrite("direct", a, k, card, old, isNew))
<1>1. PICK x : x = GotchaWrite("direct", a, k, card, old, isNew)
  OBVIOUS
<1>2. PICK y : y = GotchaWrite("daemon", b, k, draft, any, isNew)
  OBVIOUS
<1>3. PICK new \in SUBSET Paths : new = card.files
  BY DEF Recs
<1>4. PICK newb \in SUBSET Paths : newb = draft.files
  BY DEF Recs
<1>5. PICK oldb \in SUBSET Paths : oldb = OldFiles(b, k)
  BY DEF OldFiles, Stores, Recs
<1>6. PICK e \in BOOLEAN : e = (isNew /\ card.enriched)
  BY DEF Recs
<1>7. PICK f \in BOOLEAN : f = (~IsActive(b, k) /\ draft.enriched)
  BY DEF Recs
<1>8. HasWritten(x, a, k, card, old, new, e)
  BY <1>1, <1>3, <1>6, DirectWriteIs DEF GotchaWrite
<1>9. HasWritten(y, b, k, Drafted(draft), oldb, newb, f)
  BY <1>2, <1>4, <1>5, <1>7, DaemonUpsertIs DEF GotchaWrite
<1>10. ASSUME Alike(a, b), LinksExact(a), isNew = ~IsActive(a, k), card.st = "active", old = OldFiles(a, k),
              draft.rule = card.rule, draft.files = card.files, draft.enriched = card.enriched
       PROVE  Alike(x, y) /\ LinksExact(x)
  <2>1. oldb = old /\ (IsActive(b, k) <=> IsActive(a, k)) /\ newb = new
    BY <1>3, <1>4, <1>5, <1>10, SameActive DEF Alike, OldFiles
  <2>2. e = f
    BY <2>1, <1>6, <1>7, <1>10
  <2>3. AlikeGotcha(card, Drafted(draft))
    BY <1>10, DraftedAlike
  <2>4. Alike(x, y)
    BY <2>1, <2>2, <2>3, <1>8, <1>9, <1>10, AlikeAfterWrite
  <2>5. LinksExact(x)
    BY <1>3, <1>8, <1>10, ExactAfterWrite
  <2> QED BY <2>4, <2>5
<1>11. x \in Stores /\ y \in Stores
  BY <1>8, <1>9 DEF HasWritten
<1> QED BY <1>1, <1>2, <1>10, <1>11

-----------------------------------------------------------------------------
(* Confirming and deleting a gotcha.                                            *)

LEMMA AsConfirmedFields ==
  ASSUME NEW x \in Recs
  PROVE  /\ AsConfirmed(x) \in Recs /\ AsConfirmed(x).count = x.count + 1 /\ x.count \in Nat
         /\ AsConfirmed(x).st = x.st /\ AsConfirmed(x).rule = x.rule /\ AsConfirmed(x).files = x.files
         /\ AsConfirmed(x).enriched = x.enriched /\ AsConfirmed(x).confirmed
<1>6. x.count \in Nat
  BY DEF Recs
<1>1. x.count \in Nat /\ x.count + 1 \in Nat
  BY <1>6
<1>2. AsConfirmed(x) \in Recs
  BY <1>1 DEF AsConfirmed, Recs
<1>3. AsConfirmed(x).count = x.count + 1
  BY DEF AsConfirmed, Recs
<1>4. /\ AsConfirmed(x).st = x.st /\ AsConfirmed(x).rule = x.rule /\ AsConfirmed(x).files = x.files
      /\ AsConfirmed(x).enriched = x.enriched
  BY DEF AsConfirmed, Recs
<1>5. AsConfirmed(x).confirmed
  BY DEF AsConfirmed, Recs
<1> QED BY <1>1, <1>2, <1>3, <1>4, <1>5

LEMMA AsConfirmedIs ==
  ASSUME NEW x \in Recs, NEW y \in Recs
  PROVE  /\ AsConfirmed(x) \in Recs /\ AsConfirmed(x).st = x.st /\ AsConfirmed(x).files = x.files
         /\ AlikeGotcha(x, y) => AlikeGotcha(AsConfirmed(x), AsConfirmed(y))
<1>1. y.count <= x.count => AsConfirmed(y).count <= AsConfirmed(x).count
  BY AsConfirmedFields
<1> QED BY <1>1, AsConfirmedFields DEF AlikeGotcha

\* The gotcha k is confirmed and linked from the files linked; rest are the receipts left.
HasConfirmed(v, w, k, linked, rest) ==
    /\ v \in Stores
    /\ v.gotcha = [w.gotcha EXCEPT ![k] = AsConfirmed(w.gotcha[k])]
    /\ v.links = LinksTo(w, k, {}, linked) /\ v.known = w.known \cup w.gotcha[k].files
    /\ v.edges = EdgesTo(w, k, {}, w.gotcha[k].files)
    /\ v.outcome = IF w.outcome[k] = "none" THEN w.outcome ELSE [w.outcome EXCEPT ![k] = "confirmed"]
    /\ v.receipts = rest /\ v.exemplars = w.exemplars

LEMMA DirectConfirmIs ==
  ASSUME NEW w \in Stores, NEW k \in GKeys
  PROVE  HasConfirmed(DirectConfirm(w, k), w, k, w.gotcha[k].files, w.receipts)
<1>1. PICK files \in SUBSET Paths : files = w.gotcha[k].files
  BY DEF Stores, Recs
<1>2. PICK card \in Recs : card = AsConfirmed(w.gotcha[k])
  BY AsConfirmedIs DEF Stores
<1>3. PICK x : x = PutGotcha(w, k, card)
  OBVIOUS
<1>4. PICK y : y = MarkOutcome(x, k, "confirmed")
  OBVIOUS
<1>5. PICK z : z = SyncBoth(y, k, {}, files)
  OBVIOUS
<1>6. PICK v : v = Counted(z, files)
  OBVIOUS
<1>7. Put(x, w, k, card)
  BY <1>3, PutIs
<1>8. Marked(y, x, k, "confirmed")
  BY <1>4, <1>7, MarkIs DEF Put
<1>9. HasSynced(z, y, k, {}, files)
  BY <1>5, <1>8, SyncIs DEF Marked
<1>10. Bumped(v, z)
  BY <1>6, <1>9, CountedIs DEF HasSynced
<1>11. /\ LinksTo(y, k, {}, files) = LinksTo(w, k, {}, files)
       /\ EdgesTo(y, k, {}, files) = EdgesTo(w, k, {}, files)
  BY <1>7, <1>8 DEF Put, Marked, LinksTo, EdgesTo
<1>12. HasConfirmed(v, w, k, files, w.receipts)
  BY <1>1, <1>2, <1>7, <1>8, <1>9, <1>10, <1>11 DEF Put, Marked, HasSynced, Bumped, HasConfirmed
<1>13. v = DirectConfirm(w, k)
  BY <1>1, <1>2, <1>3, <1>4, <1>5, <1>6 DEF DirectConfirm
<1> QED BY <1>1, <1>12, <1>13

LEMMA DaemonConfirmIs ==
  ASSUME NEW w \in Stores, NEW k \in GKeys
  PROVE  HasConfirmed(DaemonConfirm(w, k), w, k, w.gotcha[k].files \ w.known,
                      w.receipts \ w.gotcha[k].files)
<1>1. PICK files \in SUBSET Paths : files = w.gotcha[k].files
  BY DEF Stores, Recs
<1>2. PICK card \in Recs : card = AsConfirmed(w.gotcha[k])
  BY AsConfirmedIs DEF Stores
<1>3. PICK x : x = PutGotcha(w, k, card)
  OBVIOUS
<1>4. PICK missing \in SUBSET Paths : missing = files \ w.known
  OBVIOUS
<1>5. PICK y : y = SyncLinks(x, k, {}, missing)
  OBVIOUS
<1>6. PICK z : z = Counted(y, files \cap w.known)
  OBVIOUS
<1>7. PICK u : u = SyncEdges(z, k, {}, files)
  OBVIOUS
<1>8. PICK t : t = MarkOutcome(u, k, "confirmed")
  OBVIOUS
<1>9. PICK v : v = [t EXCEPT !.receipts = t.receipts \ files]
  OBVIOUS
<1>10. Put(x, w, k, card)
  BY <1>3, PutIs
<1>11. HasLinked(y, x, k, {}, missing)
  BY <1>5, <1>10, LinksIs DEF Put
<1>12. Bumped(z, y)
  BY <1>6, <1>11, CountedIs DEF HasLinked
<1>13. HasJoined(u, z, k, {}, files)
  BY <1>7, <1>12, EdgesIs DEF Bumped
<1>14. Marked(t, u, k, "confirmed")
  BY <1>8, <1>13, MarkIs DEF HasJoined
<1>15. /\ LinksTo(x, k, {}, missing) = LinksTo(w, k, {}, missing)
       /\ EdgesTo(z, k, {}, files) = EdgesTo(w, k, {}, files)
  BY <1>10, <1>11, <1>12 DEF Put, HasLinked, Bumped, LinksTo, EdgesTo
<1>16. t \in Stores
  BY <1>14 DEF Marked
<1>17. /\ v \in Stores /\ v.receipts = t.receipts \ files
       /\ v.gotcha = t.gotcha /\ v.links = t.links /\ v.known = t.known /\ v.edges = t.edges
       /\ v.outcome = t.outcome /\ v.exemplars = t.exemplars
  BY <1>9, <1>16 DEF Stores
<1>18. /\ t.receipts = w.receipts /\ t.gotcha = [w.gotcha EXCEPT ![k] = card]
       /\ t.links = LinksTo(w, k, {}, missing) /\ t.known = w.known \cup missing
       /\ t.edges = EdgesTo(w, k, {}, files) /\ t.exemplars = w.exemplars
       /\ t.outcome = IF w.outcome[k] = "none" THEN w.outcome ELSE [w.outcome EXCEPT ![k] = "confirmed"]
  BY <1>10, <1>11, <1>12, <1>13, <1>14, <1>15 DEF Put, HasLinked, Bumped, HasJoined, Marked
<1>19. w.known \cup missing = w.known \cup files
  BY <1>4
<1>20. HasConfirmed(v, w, k, missing, w.receipts \ files)
  BY <1>1, <1>2, <1>17, <1>18, <1>19 DEF HasConfirmed
<1>21. v = DaemonConfirm(w, k)
  BY <1>1, <1>2, <1>3, <1>4, <1>5, <1>6, <1>7, <1>8, <1>9 DEF DaemonConfirm
<1> QED BY <1>1, <1>4, <1>20, <1>21

\* While the links are exact there is none to add for a gotcha that is active.
LEMMA NoNewLinks ==
  ASSUME NEW w \in Stores, NEW k \in GKeys, LinksExact(w), IsActive(w, k),
         NEW more \in SUBSET w.gotcha[k].files
  PROVE  LinksTo(w, k, {}, more) = w.links
<1>1. ASSUME NEW p \in Paths, p \in more PROVE k \in w.links[p]
  BY <1>1 DEF LinksExact
<1>2. ASSUME NEW p \in Paths
      PROVE (IF p \in more \ {} THEN w.links[p] \cup {k}
             ELSE IF p \in {} \ more THEN w.links[p] \ {k} ELSE w.links[p]) = w.links[p]
  BY <1>1
<1>3. w.links = [p \in Paths |-> w.links[p]]
  BY DEF Stores
<1> QED BY <1>2, <1>3 DEF LinksTo

LEMMA ExactAfterConfirm ==
  ASSUME NEW w \in Stores, NEW v, NEW k \in GKeys, NEW linked \in SUBSET w.gotcha[k].files, NEW rest,
         LinksExact(w), IsActive(w, k), HasConfirmed(v, w, k, linked, rest)
  PROVE  v.links = w.links /\ LinksExact(v)
<1>1. v.links = w.links
  BY NoNewLinks DEF HasConfirmed
<1>2. ASSUME NEW h \in GKeys
      PROVE v.gotcha[h].st = w.gotcha[h].st /\ v.gotcha[h].files = w.gotcha[h].files
  <2>1. v.gotcha[h] = IF h = k THEN AsConfirmed(w.gotcha[k]) ELSE w.gotcha[h]
    BY DEF HasConfirmed, Stores
  <2> QED BY <2>1, AsConfirmedIs DEF Stores
<1> QED BY <1>1, <1>2 DEF LinksExact, IsActive

LEMMA ConfirmedAlike ==
  ASSUME NEW a \in Stores, NEW b \in Stores, NEW k \in GKeys
  PROVE  /\ ConfirmRoute("direct", a, k) \in Stores /\ ConfirmRoute("daemon", b, k) \in Stores
         /\ Alike(a, b) /\ LinksExact(a) /\ IsActive(a, k)
            => /\ Alike(ConfirmRoute("direct", a, k), ConfirmRoute("daemon", b, k))
               /\ LinksExact(ConfirmRoute("direct", a, k))
<1>1. PICK x : x = ConfirmRoute("direct", a, k)
  OBVIOUS
<1>2. PICK y : y = ConfirmRoute("daemon", b, k)
  OBVIOUS
<1>3. HasConfirmed(x, a, k, a.gotcha[k].files, a.receipts)
  BY <1>1, DirectConfirmIs DEF ConfirmRoute
<1>4. HasConfirmed(y, b, k, b.gotcha[k].files \ b.known, b.receipts \ b.gotcha[k].files)
  BY <1>2, DaemonConfirmIs DEF ConfirmRoute
<1>5. ASSUME Alike(a, b), LinksExact(a), IsActive(a, k)
      PROVE  Alike(x, y) /\ LinksExact(x)
  <2>1. IsActive(b, k) /\ a.gotcha[k].files = b.gotcha[k].files /\ a.gotcha[k] \in Recs /\ b.gotcha[k] \in Recs
    BY <1>5, SameActive DEF Alike, Stores
  <2>2. LinksExact(b)
    BY <1>5, SameActive DEF LinksExact, Alike, AlikeLinks
  <2>3. x.links = a.links /\ LinksExact(x)
    BY <1>3, <1>5, ExactAfterConfirm
  <2>4. y.links = b.links
    <3>1. b.gotcha[k].files \ b.known \in SUBSET b.gotcha[k].files
      OBVIOUS
    <3> QED BY <3>1, <1>4, <2>1, <2>2, ExactAfterConfirm
  <2>5. ASSUME NEW h \in GKeys PROVE AlikeGotcha(x.gotcha[h], y.gotcha[h])
    <3>1. /\ x.gotcha[h] = IF h = k THEN AsConfirmed(a.gotcha[k]) ELSE a.gotcha[h]
          /\ y.gotcha[h] = IF h = k THEN AsConfirmed(b.gotcha[k]) ELSE b.gotcha[h]
      BY <1>3, <1>4 DEF Stores, HasConfirmed
    <3>2. AlikeGotcha(a.gotcha[k], b.gotcha[k]) /\ AlikeGotcha(a.gotcha[h], b.gotcha[h])
      BY <1>5 DEF Alike, AlikeLinks
    <3> QED BY <3>1, <3>2, <2>1, AsConfirmedIs
  <2>6. x.edges = y.edges /\ x.known = y.known
    <3>1. EdgesTo(b, k, {}, b.gotcha[k].files) = EdgesTo(a, k, {}, a.gotcha[k].files)
      BY <1>5, <2>1, SameLinks
    <3> QED BY <3>1, <1>3, <1>4, <1>5, <2>1 DEF HasConfirmed, Alike, AlikeLinks
  <2>7. x.outcome = y.outcome /\ x.exemplars = y.exemplars /\ y.receipts \subseteq x.receipts
    BY <1>3, <1>4, <1>5 DEF HasConfirmed, Alike
  <2> QED BY <1>5, <2>3, <2>4, <2>5, <2>6, <2>7 DEF Alike, AlikeLinks
<1>6. x \in Stores /\ y \in Stores
  BY <1>3, <1>4 DEF HasConfirmed
<1> QED BY <1>1, <1>2, <1>5, <1>6

\* The gotcha k is deleted, archived and unlinked.
Buried(v, w, k) ==
    /\ v \in Stores
    /\ v.gotcha = [w.gotcha EXCEPT ![k] = [w.gotcha[k] EXCEPT !.st = "tombstone"]]
    /\ v.links = LinksTo(w, k, w.gotcha[k].files, {}) /\ v.known = w.known
    /\ v.edges = EdgesTo(w, k, w.gotcha[k].files, {})
    /\ v.outcome = IF w.outcome[k] = "none" THEN w.outcome ELSE [w.outcome EXCEPT ![k] = "tombstoned"]
    /\ v.receipts = w.receipts
    /\ v.exemplars = w.exemplars \cup {<<DirOf[p], k>> : p \in w.gotcha[k].files}

LEMMA TombstoneIs ==
  ASSUME NEW w \in Stores, NEW k \in GKeys
  PROVE  Buried(DirectTombstone(w, k, w.gotcha[k].files), w, k)
<1>1. PICK files \in SUBSET Paths : files = w.gotcha[k].files
  BY DEF Stores, Recs
<1>2. PICK card \in Recs : card = [w.gotcha[k] EXCEPT !.st = "tombstone"]
  <2>1. w.gotcha[k] \in Recs
    BY DEF Stores
  <2>2. [w.gotcha[k] EXCEPT !.st = "tombstone"] \in Recs
    BY <2>1 DEF Recs
  <2> QED BY <2>2
<1>3. PICK x : x = PutGotcha(w, k, card)
  OBVIOUS
<1>4. PICK y : y = Archive(x, k, files)
  OBVIOUS
<1>5. PICK z : z = MarkOutcome(y, k, "tombstoned")
  OBVIOUS
<1>6. PICK v : v = SyncBoth(z, k, files, {})
  OBVIOUS
<1>7. Put(x, w, k, card)
  BY <1>3, PutIs
<1>8. Archived(y, x, k, files)
  BY <1>4, <1>7, ArchiveIs DEF Put
<1>9. Marked(z, y, k, "tombstoned")
  BY <1>5, <1>8, MarkIs DEF Archived
<1>10. HasSynced(v, z, k, files, {})
  BY <1>6, <1>9, SyncIs DEF Marked
<1>11. /\ LinksTo(z, k, files, {}) = LinksTo(w, k, files, {})
       /\ EdgesTo(z, k, files, {}) = EdgesTo(w, k, files, {})
  BY <1>7, <1>8, <1>9 DEF Put, Archived, Marked, LinksTo, EdgesTo
<1>12. Buried(v, w, k)
  BY <1>1, <1>2, <1>7, <1>8, <1>9, <1>10, <1>11 DEF Put, Archived, Marked, HasSynced, Buried
<1>13. v = DirectTombstone(w, k, w.gotcha[k].files)
  BY <1>1, <1>2, <1>3, <1>4, <1>5, <1>6 DEF DirectTombstone
<1> QED BY <1>12, <1>13

LEMMA ExactAfterTombstone ==
  ASSUME NEW w \in Stores, NEW v, NEW k \in GKeys, LinksExact(w), Buried(v, w, k)
  PROVE  LinksExact(v)
<1> SUFFICES ASSUME NEW h \in GKeys, NEW p \in Paths
             PROVE  (h \in v.links[p]) = (IsActive(v, h) /\ p \in v.gotcha[h].files)
  BY DEF LinksExact
<1>1. (h \in w.links[p]) = (IsActive(w, h) /\ p \in w.gotcha[h].files)
  BY DEF LinksExact
<1>2. v.links[p] = IF p \in w.gotcha[k].files THEN w.links[p] \ {k} ELSE w.links[p]
  BY DEF LinksTo, Buried
<1>3. v.gotcha[h] = IF h = k THEN [w.gotcha[k] EXCEPT !.st = "tombstone"] ELSE w.gotcha[h]
  BY DEF Stores, Buried
<1>4. CASE h = k
  <2>1. v.gotcha[h].st = "tombstone"
    BY <1>3, <1>4 DEF Stores, Recs
  <2>2. ~IsActive(v, h)
    BY <2>1 DEF IsActive
  <2>3. h \notin v.links[p]
    BY <1>1, <1>2, <1>4
  <2> QED BY <2>2, <2>3
<1>5. CASE h # k
  BY <1>1, <1>2, <1>3, <1>5 DEF IsActive
<1> QED BY <1>4, <1>5

LEMMA TombstonedAlike ==
  ASSUME NEW a \in Stores, NEW b \in Stores, NEW k \in GKeys
  PROVE  /\ TombstoneRoute("direct", a, k, a.gotcha[k].files) \in Stores
         /\ TombstoneRoute("daemon", b, k, b.gotcha[k].files) \in Stores
         /\ Alike(a, b) /\ LinksExact(a)
            => /\ Alike(TombstoneRoute("direct", a, k, a.gotcha[k].files),
                        TombstoneRoute("daemon", b, k, b.gotcha[k].files))
               /\ LinksExact(TombstoneRoute("direct", a, k, a.gotcha[k].files))
<1>1. PICK x : x = TombstoneRoute("direct", a, k, a.gotcha[k].files)
  OBVIOUS
<1>2. PICK y : y = TombstoneRoute("daemon", b, k, b.gotcha[k].files)
  OBVIOUS
<1>3. Buried(x, a, k) /\ Buried(y, b, k)
  BY <1>1, <1>2, TombstoneIs DEF TombstoneRoute, DaemonTombstone
<1>4. ASSUME Alike(a, b), LinksExact(a)
      PROVE  Alike(x, y) /\ LinksExact(x)
  <2>1. a.gotcha[k].files = b.gotcha[k].files
    BY <1>4, SameActive DEF Alike
  <2>2. ASSUME NEW h \in GKeys PROVE AlikeGotcha(x.gotcha[h], y.gotcha[h])
    <3>1. /\ x.gotcha[h] = IF h = k THEN [a.gotcha[k] EXCEPT !.st = "tombstone"] ELSE a.gotcha[h]
          /\ y.gotcha[h] = IF h = k THEN [b.gotcha[k] EXCEPT !.st = "tombstone"] ELSE b.gotcha[h]
      BY <1>3 DEF Stores, Buried
    <3>2. AlikeGotcha(a.gotcha[k], b.gotcha[k]) /\ AlikeGotcha(a.gotcha[h], b.gotcha[h])
      BY <1>4 DEF Alike, AlikeLinks
    <3>3. a.gotcha[k] \in Recs /\ b.gotcha[k] \in Recs
      BY DEF Stores
    <3>4. AlikeGotcha([a.gotcha[k] EXCEPT !.st = "tombstone"], [b.gotcha[k] EXCEPT !.st = "tombstone"])
      BY <3>2, <3>3 DEF AlikeGotcha, Recs
    <3> QED BY <3>1, <3>2, <3>4
  <2>3. x.links = y.links /\ x.edges = y.edges
    <3>1. /\ LinksTo(b, k, a.gotcha[k].files, {}) = LinksTo(a, k, a.gotcha[k].files, {})
          /\ EdgesTo(b, k, a.gotcha[k].files, {}) = EdgesTo(a, k, a.gotcha[k].files, {})
      BY <1>4, SameLinks
    <3> QED BY <3>1, <1>3, <2>1 DEF Buried
  <2>4. x.known = y.known /\ x.outcome = y.outcome /\ y.receipts \subseteq x.receipts
    BY <1>3, <1>4 DEF Buried, Alike, AlikeLinks
  <2>5. x.exemplars = y.exemplars
    BY <1>3, <1>4, <2>1 DEF Buried, Alike
  <2>6. LinksExact(x)
    BY <1>3, <1>4, ExactAfterTombstone
  <2> QED BY <2>2, <2>3, <2>4, <2>5, <2>6 DEF Alike, AlikeLinks
<1>5. x \in Stores /\ y \in Stores
  BY <1>3 DEF Buried
<1> QED BY <1>1, <1>2, <1>4, <1>5

-----------------------------------------------------------------------------
(* The commands, given to both worlds.                                          *)

LEMMA MinIs ==
  ASSUME NEW T \in SUBSET Nat, T # {}
  PROVE  Min(T) \in T
<1>1. PICK R : R = {ss \in Nat \X Nat : ss[1] < ss[2]}
  OBVIOUS
<1>2. IsWellFoundedOn(R, Nat)
  BY <1>1, NatLessThanWellFounded DEF OpToRel
<1>3. PICK m \in T : \A n \in T : ~(<<n, m>> \in R)
  BY <1>2, WFMin
<1>4. ASSUME NEW n \in T PROVE m <= n
  <2>1. <<n, m>> \in Nat \X Nat /\ <<n, m>>[1] = n /\ <<n, m>>[2] = m /\ <<n, m>> \notin R
    BY <1>3
  <2>2. ~(n < m)
    BY <2>1, <1>1
  <2> QED BY <2>2
<1> QED BY <1>4 DEF Min

LEMMA GKeysFinite == IsFiniteSet(GKeys)
<1>1. PICK S : S = Rules \X (1..MaxSuffix)
  OBVIOUS
<1>2. IsFiniteSet(S)
  <2>1. IsFiniteSet(Rules) /\ MaxSuffix \in Nat
    BY RoutesAssumption
  <2>2. IsFiniteSet(1..MaxSuffix)
    BY <2>1, FS_Interval
  <2>3. IsFiniteSet(Rules \X (1..MaxSuffix))
    BY <2>1, <2>2, FS_Product
  <2> QED BY <2>3, <1>1
<1>3. PICK f : f = [x \in S |-> <<SlugOf[x[1]], x[2]>>]
  OBVIOUS
<1>4. f \in [S -> GKeys]
  <2>1. ASSUME NEW x \in S PROVE <<SlugOf[x[1]], x[2]>> \in GKeys
    BY <1>1 DEF GKeys
  <2> QED BY <2>1, <1>3
<1>5. ASSUME NEW k \in GKeys PROVE \E x \in S : f[x] = k
  <2>1. PICK rule \in Rules, n \in 1..MaxSuffix : k = <<SlugOf[rule], n>>
    BY DEF GKeys
  <2>2. <<rule, n>> \in S /\ f[<<rule, n>>] = k
    BY <1>1, <1>3, <2>1
  <2> QED BY <2>2
<1>6. f \in Surjection(S, GKeys)
  BY <1>4, <1>5 DEF Surjection
<1> QED BY <1>2, <1>6, FS_Surjection

\* What a command has to show: the new stores, alike while no exception is noted.
LEMMA WorldsStep ==
  ASSUME NEW x \in Stores, NEW y \in Stores, WorldsInv, world' = [r \in Routes |-> world'[r]],
         world'["direct"] = x, world'["daemon"] = y, dump' = dump,
         apart' = FALSE => apart = FALSE /\ Alike(x, y) /\ LinksExact(x), apart' \in BOOLEAN, apart \in BOOLEAN
  PROVE  WorldsInv'
<1>1. world' \in [Routes -> Stores]
  BY DEF Routes
<1>2. dump' \subseteq [Routes -> Dumps]
  BY DEF WorldsInv
<1>3. ~apart' => /\ Alike(world'["direct"], world'["daemon"]) /\ LinksExact(world'["direct"])
                 /\ \A d \in dump' : AlikeLinks(d["direct"], d["daemon"])
  BY DEF WorldsInv
<1> QED BY <1>1, <1>2, <1>3 DEF WorldsInv

\* The stores of the two worlds.
LEMMA WorldsAre ==
  ASSUME WorldsInv
  PROVE  world["direct"] \in Stores /\ world["daemon"] \in Stores
BY DEF WorldsInv, Routes

LEMMA AddedIs ==
  ASSUME NEW rule \in Rules, NEW files \in SUBSET Paths
  PROVE  Added(rule, files) \in Recs /\ Added(rule, files).st = "active"
<1>1. Added(rule, files) \in Recs
  BY DEF Added, Recs
<1>2. Added(rule, files).st = "active"
  BY DEF Added
<1> QED BY <1>1, <1>2

LEMMA SameFree ==
  ASSUME NEW a, NEW b, AlikeLinks(a, b), NEW rule \in Rules, NEW files
  PROVE  /\ FreeSuffixes(a, rule) = FreeSuffixes(b, rule)
         /\ HasTwin(a, rule, files) <=> HasTwin(b, rule, files)
<1>1. ASSUME NEW n \in 1..MaxSuffix PROVE <<SlugOf[rule], n>> \in GKeys
  BY DEF GKeys
<1>2. FreeSuffixes(a, rule) = FreeSuffixes(b, rule)
  BY <1>1, SameActive DEF FreeSuffixes
<1>3. ASSUME NEW n \in 1..MaxSuffix
      PROVE  /\ IsActive(a, <<SlugOf[rule], n>>) <=> IsActive(b, <<SlugOf[rule], n>>)
             /\ a.gotcha[<<SlugOf[rule], n>>].files = b.gotcha[<<SlugOf[rule], n>>].files
             /\ a.gotcha[<<SlugOf[rule], n>>].rule = b.gotcha[<<SlugOf[rule], n>>].rule
  BY <1>1, SameActive
<1>4. HasTwin(a, rule, files) <=> HasTwin(b, rule, files)
  BY <1>2, <1>3 DEF HasTwin
<1> QED BY <1>2, <1>4

LEMMA FirstFree ==
  ASSUME NEW w, NEW rule \in Rules, FreeSuffixes(w, rule) # {}
  PROVE  /\ <<SlugOf[rule], Min(FreeSuffixes(w, rule))>> \in GKeys
         /\ ~IsActive(w, <<SlugOf[rule], Min(FreeSuffixes(w, rule))>>)
<1>1. FreeSuffixes(w, rule) \in SUBSET Nat
  BY RoutesAssumption DEF FreeSuffixes
<1>2. Min(FreeSuffixes(w, rule)) \in FreeSuffixes(w, rule)
  BY <1>1, MinIs
<1>3. PICK n \in 1..MaxSuffix : n = Min(FreeSuffixes(w, rule)) /\ ~Exists(w, <<SlugOf[rule], n>>)
  BY <1>2 DEF FreeSuffixes
<1>4. <<SlugOf[rule], n>> \in GKeys /\ ~IsActive(w, <<SlugOf[rule], n>>)
  BY <1>3 DEF GKeys, Exists, IsActive
<1> QED BY <1>3, <1>4

LEMMA AddStep ==
  ASSUME WorldsInv, apart \in BOOLEAN, NEW rule \in Rules, NEW files \in SUBSET Paths, GotchaAdd(rule, files)
  PROVE  WorldsInv'
<1>1. PICK a \in Stores : a = world["direct"]
  BY WorldsAre
<1>2. PICK b \in Stores : b = world["daemon"]
  BY WorldsAre
<1>3. PICK ka : ka = <<SlugOf[rule], Min(FreeSuffixes(a, rule))>>
  OBVIOUS
<1>4. PICK kb : kb = <<SlugOf[rule], Min(FreeSuffixes(b, rule))>>
  OBVIOUS
<1>5. FreeSuffixes(a, rule) # {} /\ FreeSuffixes(b, rule) # {}
  BY <1>1, <1>2 DEF GotchaAdd, Routes
<1>6. ka \in GKeys /\ ~IsActive(a, ka) /\ kb \in GKeys /\ ~IsActive(b, kb)
  BY <1>3, <1>4, <1>5, FirstFree
<1>7. PICK card \in Recs : card = Added(rule, files)
  BY AddedIs
<1>8. PICK x : x = IF HasTwin(a, rule, files) THEN a ELSE GotchaWrite("direct", a, ka, card, {}, TRUE)
  OBVIOUS
<1>9. PICK y : y = IF HasTwin(b, rule, files) THEN b ELSE GotchaWrite("daemon", b, kb, card, {}, TRUE)
  OBVIOUS
<1>10. /\ world' = [r \in Routes |-> world'[r]] /\ world'["direct"] = x /\ world'["daemon"] = y
       /\ dump' = dump /\ apart' = apart
  BY <1>1, <1>2, <1>3, <1>4, <1>7, <1>8, <1>9 DEF GotchaAdd, Both, Routes
<1>11. x \in Stores /\ y \in Stores
  BY <1>6, <1>8, <1>9, WrittenAlike
<1>12. ASSUME apart = FALSE PROVE Alike(x, y) /\ LinksExact(x)
  <2>1. Alike(a, b) /\ LinksExact(a)
    BY <1>1, <1>2, <1>12 DEF WorldsInv
  <2>2. ka = kb /\ (HasTwin(a, rule, files) <=> HasTwin(b, rule, files))
    BY <2>1, <1>3, <1>4, SameFree DEF Alike
  <2>3. CASE HasTwin(a, rule, files)
    BY <2>1, <2>2, <2>3, <1>8, <1>9
  <2>4. CASE ~HasTwin(a, rule, files)
    <3>1. x = GotchaWrite("direct", a, ka, card, {}, TRUE) /\ y = GotchaWrite("daemon", b, ka, card, {}, TRUE)
      BY <2>2, <2>4, <1>8, <1>9
    <3>2. OldFiles(a, ka) = {} /\ TRUE = ~IsActive(a, ka) /\ card.st = "active"
      BY <1>6, <1>7, AddedIs DEF OldFiles
    <3> QED BY <3>1, <3>2, <2>1, <1>6, WrittenAlike
  <2> QED BY <2>3, <2>4
<1> QED BY <1>10, <1>11, <1>12, WorldsStep

\* The record of an edited gotcha.
EditedRec(x, rule, files) == [x EXCEPT !.rule = rule, !.files = files]

LEMMA EditedIs ==
  ASSUME NEW x \in Recs, NEW rule \in Rules, NEW files \in SUBSET Paths
  PROVE  /\ EditedRec(x, rule, files) \in Recs /\ EditedRec(x, rule, files).st = x.st
         /\ EditedRec(x, rule, files).rule = rule /\ EditedRec(x, rule, files).files = files
         /\ EditedRec(x, rule, files).enriched = x.enriched /\ x.files \in SUBSET Paths
<1>1. x.files \in SUBSET Paths
  BY DEF Recs
<1>2. EditedRec(x, rule, files) \in Recs
  BY DEF Recs, EditedRec
<1>3. /\ EditedRec(x, rule, files).st = x.st /\ EditedRec(x, rule, files).rule = rule
      /\ EditedRec(x, rule, files).files = files
  BY DEF Recs, EditedRec
<1>4. EditedRec(x, rule, files).enriched = x.enriched
  BY DEF Recs, EditedRec
<1> QED BY <1>1, <1>2, <1>3, <1>4

LEMMA EditStep ==
  ASSUME WorldsInv, apart \in BOOLEAN, NEW k \in GKeys, NEW rule \in Rules, NEW files \in SUBSET Paths,
         GotchaEdit(k, rule, files)
  PROVE  WorldsInv'
<1>1. PICK a \in Stores : a = world["direct"]
  BY WorldsAre
<1>2. PICK b \in Stores : b = world["daemon"]
  BY WorldsAre
<1>9. a.gotcha[k] \in Recs /\ b.gotcha[k] \in Recs
  BY DEF Stores
<1>3. PICK card \in Recs : card = EditedRec(a.gotcha[k], rule, files)
  BY <1>9, EditedIs
<1>4. PICK draft \in Recs : draft = EditedRec(b.gotcha[k], rule, files)
  BY <1>9, EditedIs
<1>5. PICK old \in SUBSET Paths : old = a.gotcha[k].files
  BY <1>9, EditedIs
<1>6. PICK oldb : oldb = b.gotcha[k].files
  OBVIOUS
<1>7. PICK x : x = GotchaWrite("direct", a, k, card, old, FALSE)
  OBVIOUS
<1>8. PICK y : y = GotchaWrite("daemon", b, k, draft, oldb, FALSE)
  OBVIOUS
<1>10. /\ world' = [r \in Routes |-> world'[r]] /\ world'["direct"] = x /\ world'["daemon"] = y
       /\ dump' = dump
  BY <1>1, <1>2, <1>3, <1>4, <1>5, <1>6, <1>7, <1>8 DEF GotchaEdit, Both, Routes, EditedRec
<1>11. x \in Stores /\ y \in Stores
  BY <1>7, <1>8, WrittenAlike
<1>12. apart' \in BOOLEAN /\ (apart' = FALSE => apart = FALSE /\ IsActive(a, k))
  BY <1>1 DEF GotchaEdit
<1>13. ASSUME apart = FALSE, IsActive(a, k) PROVE Alike(x, y) /\ LinksExact(x)
  <2>1. Alike(a, b) /\ LinksExact(a)
    BY <1>1, <1>2, <1>13 DEF WorldsInv
  <2>2. card.st = "active" /\ draft.rule = card.rule /\ draft.files = card.files
    BY <1>3, <1>4, <1>9, <1>13, EditedIs DEF IsActive
  <2>3. draft.enriched = card.enriched
    <3>1. a.gotcha[k].enriched = b.gotcha[k].enriched
      BY <2>1 DEF Alike, AlikeLinks, AlikeGotcha
    <3> QED BY <3>1, <1>3, <1>4, <1>9, EditedIs
  <2>4. old = OldFiles(a, k) /\ FALSE = ~IsActive(a, k)
    BY <1>5, <1>13 DEF OldFiles
  <2> QED BY <2>1, <2>2, <2>3, <2>4, <1>7, <1>8, WrittenAlike
<1> QED BY <1>10, <1>11, <1>12, <1>13, WorldsStep

LEMMA DeleteStep ==
  ASSUME WorldsInv, apart \in BOOLEAN, NEW k \in GKeys, GotchaDelete(k)
  PROVE  WorldsInv'
<1>1. PICK a \in Stores : a = world["direct"]
  BY WorldsAre
<1>2. PICK b \in Stores : b = world["daemon"]
  BY WorldsAre
<1>3. PICK x : x = TombstoneRoute("direct", a, k, a.gotcha[k].files)
  OBVIOUS
<1>4. PICK y : y = TombstoneRoute("daemon", b, k, b.gotcha[k].files)
  OBVIOUS
<1>5. /\ world' = [r \in Routes |-> world'[r]] /\ world'["direct"] = x /\ world'["daemon"] = y
      /\ dump' = dump /\ apart' = apart
  BY <1>1, <1>2, <1>3, <1>4 DEF GotchaDelete, Both, Routes
<1>6. x \in Stores /\ y \in Stores
  BY <1>3, <1>4, TombstonedAlike
<1>7. ASSUME apart = FALSE PROVE Alike(x, y) /\ LinksExact(x)
  <2>1. Alike(a, b) /\ LinksExact(a)
    BY <1>1, <1>2, <1>7 DEF WorldsInv
  <2> QED BY <2>1, <1>3, <1>4, TombstonedAlike
<1> QED BY <1>5, <1>6, <1>7, WorldsStep

LEMMA ConfirmStep ==
  ASSUME WorldsInv, apart \in BOOLEAN, NEW k \in GKeys, GotchaConfirm(k)
  PROVE  WorldsInv'
<1>1. PICK a \in Stores : a = world["direct"]
  BY WorldsAre
<1>2. PICK b \in Stores : b = world["daemon"]
  BY WorldsAre
<1>3. PICK x : x = IF IsActive(a, k) THEN ConfirmRoute("direct", a, k) ELSE a
  OBVIOUS
<1>4. PICK y : y = IF IsActive(b, k) THEN ConfirmRoute("daemon", b, k) ELSE b
  OBVIOUS
<1>5. /\ world' = [r \in Routes |-> world'[r]] /\ world'["direct"] = x /\ world'["daemon"] = y
      /\ dump' = dump /\ apart' = apart
  BY <1>1, <1>2, <1>3, <1>4 DEF GotchaConfirm, Both, Routes, CanConfirm
<1>6. x \in Stores /\ y \in Stores
  BY <1>3, <1>4, ConfirmedAlike
<1>7. ASSUME apart = FALSE PROVE Alike(x, y) /\ LinksExact(x)
  <2>1. Alike(a, b) /\ LinksExact(a)
    BY <1>1, <1>2, <1>7 DEF WorldsInv
  <2>2. IsActive(a, k) <=> IsActive(b, k)
    BY <2>1, SameActive DEF Alike
  <2>3. CASE IsActive(a, k)
    BY <2>1, <2>2, <2>3, <1>3, <1>4, ConfirmedAlike
  <2>4. CASE ~IsActive(a, k)
    BY <2>1, <2>2, <2>4, <1>3, <1>4
  <2> QED BY <2>3, <2>4
<1> QED BY <1>5, <1>6, <1>7, WorldsStep

LEMMA ConsultStep ==
  ASSUME WorldsInv, apart \in BOOLEAN, NEW p \in Paths, Consult(p)
  PROVE  WorldsInv'
<1>1. PICK a \in Stores : a = world["direct"]
  BY WorldsAre
<1>2. PICK b \in Stores : b = world["daemon"]
  BY WorldsAre
<1>3. PICK x : x = [a EXCEPT !.receipts = a.receipts \cup {p}]
  OBVIOUS
<1>4. PICK y : y = [b EXCEPT !.receipts = b.receipts \cup {p}]
  OBVIOUS
<1>5. /\ world' = [r \in Routes |-> world'[r]] /\ world'["direct"] = x /\ world'["daemon"] = y
      /\ dump' = dump /\ apart' = apart
  BY <1>1, <1>2, <1>3, <1>4 DEF Consult, Routes
<1>6. /\ x \in Stores /\ x.receipts = a.receipts \cup {p}
      /\ x.gotcha = a.gotcha /\ x.links = a.links /\ x.known = a.known /\ x.edges = a.edges
      /\ x.exemplars = a.exemplars /\ x.outcome = a.outcome
  BY <1>3 DEF Stores
<1>7. /\ y \in Stores /\ y.receipts = b.receipts \cup {p}
      /\ y.gotcha = b.gotcha /\ y.links = b.links /\ y.known = b.known /\ y.edges = b.edges
      /\ y.exemplars = b.exemplars /\ y.outcome = b.outcome
  BY <1>4 DEF Stores
<1>8. ASSUME apart = FALSE PROVE Alike(x, y) /\ LinksExact(x)
  <2>1. Alike(a, b) /\ LinksExact(a)
    BY <1>1, <1>2, <1>8 DEF WorldsInv
  <2>2. Alike(x, y)
    BY <2>1, <1>6, <1>7 DEF Alike, AlikeLinks
  <2>3. LinksExact(x)
    BY <2>1, <1>6 DEF LinksExact, IsActive
  <2> QED BY <2>2, <2>3
<1> QED BY <1>5, <1>6, <1>7, <1>8, WorldsStep

LEMMA ExportStep ==
  ASSUME WorldsInv, Export
  PROVE  WorldsInv'
<1>1. PICK a \in Stores : a = world["direct"]
  BY WorldsAre
<1>2. PICK b \in Stores : b = world["daemon"]
  BY WorldsAre
<1>3. PICK d : d = [r \in Routes |-> Exported(world[r])]
  OBVIOUS
<1>4. d["direct"] = Exported(a) /\ d["daemon"] = Exported(b) /\ d = [r \in Routes |-> d[r]]
  BY <1>1, <1>2, <1>3 DEF Routes
<1>5. ASSUME NEW w \in Stores PROVE Exported(w) \in Dumps
  BY DEF Stores, Dumps, Exported
<1>6. d \in [Routes -> Dumps]
  BY <1>4, <1>5 DEF Routes
<1>7. AlikeLinks(a, b) => AlikeLinks(d["direct"], d["daemon"])
  BY <1>4 DEF AlikeLinks, Exported
<1>8. dump' = {d} /\ world' = world /\ apart' = apart
  BY <1>3 DEF Export
<1>9. ~apart => Alike(a, b) /\ LinksExact(a)
  BY <1>1, <1>2 DEF WorldsInv
<1>10. world \in [Routes -> Stores] /\ world["direct"] = a /\ world["daemon"] = b
  BY <1>1, <1>2 DEF WorldsInv
<1> QED BY <1>6, <1>7, <1>8, <1>9, <1>10 DEF WorldsInv, Alike

HasImported(v, w, d) ==
    /\ v \in Stores
    /\ \A k \in GKeys : v.gotcha[k] = IF d.gotcha[k].st = "none" THEN w.gotcha[k] ELSE d.gotcha[k]
    /\ v.links = [p \in Paths |-> IF p \in d.known THEN d.links[p] ELSE w.links[p]]
    /\ v.known = w.known \cup d.known /\ v.edges = w.edges
    /\ v.exemplars = w.exemplars /\ v.outcome = w.outcome /\ v.receipts = w.receipts

LEMMA ImportedIs ==
  ASSUME NEW w \in Stores, NEW d \in Dumps
  PROVE  HasImported(Imported(w, d), w, d)
<1>1. [k \in GKeys |-> IF d.gotcha[k].st = "none" THEN w.gotcha[k] ELSE d.gotcha[k]] \in [GKeys -> Recs]
  BY DEF Stores, Dumps
<1>2. [p \in Paths |-> IF p \in d.known THEN d.links[p] ELSE w.links[p]] \in [Paths -> SUBSET GKeys]
  BY DEF Stores, Dumps
<1>3. [p \in Paths |-> IF p \in d.known THEN d.bumps[p] ELSE w.bumps[p]] \in [Paths -> Nat]
  BY DEF Stores, Dumps
<1>4. w.known \cup d.known \in SUBSET Paths
  BY DEF Stores, Dumps
<1>5. PICK g, l, b, n :
         /\ g = [k \in GKeys |-> IF d.gotcha[k].st = "none" THEN w.gotcha[k] ELSE d.gotcha[k]]
         /\ l = [p \in Paths |-> IF p \in d.known THEN d.links[p] ELSE w.links[p]]
         /\ b = [p \in Paths |-> IF p \in d.known THEN d.bumps[p] ELSE w.bumps[p]]
         /\ n = w.known \cup d.known
  OBVIOUS
<1>6. PICK v : v = [[[[w EXCEPT !.gotcha = g] EXCEPT !.links = l] EXCEPT !.bumps = b] EXCEPT !.known = n]
  OBVIOUS
<1>7. v = Imported(w, d)
  BY <1>5, <1>6 DEF Imported
<1>8. PICK v1 : v1 = [w EXCEPT !.gotcha = g]
  OBVIOUS
<1>9. PICK v2 : v2 = [v1 EXCEPT !.links = l]
  OBVIOUS
<1>10. PICK v3 : v3 = [v2 EXCEPT !.bumps = b]
  OBVIOUS
<1>11. v = [v3 EXCEPT !.known = n]
  BY <1>6, <1>8, <1>9, <1>10
<1>12. /\ v1 \in Stores /\ v1.gotcha = g /\ v1.links = w.links /\ v1.bumps = w.bumps /\ v1.known = w.known
       /\ v1.edges = w.edges /\ v1.exemplars = w.exemplars /\ v1.outcome = w.outcome
       /\ v1.receipts = w.receipts
  BY <1>1, <1>5, <1>8 DEF Stores
<1>13. /\ v2 \in Stores /\ v2.gotcha = g /\ v2.links = l /\ v2.bumps = w.bumps /\ v2.known = w.known
       /\ v2.edges = w.edges /\ v2.exemplars = w.exemplars /\ v2.outcome = w.outcome
       /\ v2.receipts = w.receipts
  BY <1>2, <1>5, <1>9, <1>12 DEF Stores
<1>14. /\ v3 \in Stores /\ v3.gotcha = g /\ v3.links = l /\ v3.known = w.known
       /\ v3.edges = w.edges /\ v3.exemplars = w.exemplars /\ v3.outcome = w.outcome
       /\ v3.receipts = w.receipts
  BY <1>3, <1>5, <1>10, <1>13 DEF Stores
<1>15. /\ v \in Stores /\ v.gotcha = g /\ v.links = l /\ v.known = n
       /\ v.edges = w.edges /\ v.exemplars = w.exemplars /\ v.outcome = w.outcome
       /\ v.receipts = w.receipts
  BY <1>4, <1>5, <1>11, <1>14 DEF Stores
<1>16. \A k \in GKeys : v.gotcha[k] = IF d.gotcha[k].st = "none" THEN w.gotcha[k] ELSE d.gotcha[k]
  BY <1>5, <1>15
<1> QED BY <1>5, <1>7, <1>15, <1>16 DEF HasImported

LEMMA ImportStep ==
  ASSUME WorldsInv, apart \in BOOLEAN, Import
  PROVE  WorldsInv'
<1>1. PICK a \in Stores : a = world["direct"]
  BY WorldsAre
<1>2. PICK b \in Stores : b = world["daemon"]
  BY WorldsAre
<1>3. PICK d \in dump : world' = [r \in Routes |-> Imported(world[r], d[r])]
  BY DEF Import
<1>4. PICK dumpA \in Dumps : dumpA = d["direct"]
  BY <1>3 DEF WorldsInv, Routes
<1>5. PICK dumpB \in Dumps : dumpB = d["daemon"]
  BY <1>3 DEF WorldsInv, Routes
<1>6. PICK x : x = Imported(a, dumpA)
  OBVIOUS
<1>7. PICK y : y = Imported(b, dumpB)
  OBVIOUS
<1>8. world' = [r \in Routes |-> world'[r]] /\ world'["direct"] = x /\ world'["daemon"] = y
  BY <1>1, <1>2, <1>3, <1>4, <1>5, <1>6, <1>7 DEF Routes
<1>9. dump' = dump /\ apart' \in BOOLEAN /\ (apart' = FALSE => apart = FALSE /\ LinksExact(x))
  BY <1>8 DEF Import
<1>12. HasImported(x, a, dumpA) /\ HasImported(y, b, dumpB)
  BY <1>6, <1>7, ImportedIs
<1>10. x \in Stores /\ y \in Stores
  BY <1>12 DEF HasImported
<1>11. ASSUME apart = FALSE PROVE Alike(x, y)
  <2>1. Alike(a, b) /\ AlikeLinks(dumpA, dumpB)
    BY <1>1, <1>2, <1>4, <1>5, <1>11 DEF WorldsInv
  <2>2. ASSUME NEW k \in GKeys PROVE AlikeGotcha(x.gotcha[k], y.gotcha[k])
    <3>1. /\ x.gotcha[k] = IF dumpA.gotcha[k].st = "none" THEN a.gotcha[k] ELSE dumpA.gotcha[k]
          /\ y.gotcha[k] = IF dumpB.gotcha[k].st = "none" THEN b.gotcha[k] ELSE dumpB.gotcha[k]
      BY <1>12 DEF HasImported
    <3>2. AlikeGotcha(a.gotcha[k], b.gotcha[k]) /\ AlikeGotcha(dumpA.gotcha[k], dumpB.gotcha[k])
      BY <2>1 DEF Alike, AlikeLinks
    <3>3. dumpA.gotcha[k].st = dumpB.gotcha[k].st
      BY <3>2 DEF AlikeGotcha
    <3> QED BY <3>1, <3>2, <3>3
  <2>3. x.links = y.links /\ x.known = y.known
    BY <2>1, <1>12 DEF Alike, AlikeLinks, HasImported
  <2>4. x.edges = y.edges /\ x.exemplars = y.exemplars /\ x.outcome = y.outcome /\ y.receipts \subseteq x.receipts
    BY <2>1, <1>12 DEF Alike, HasImported
  <2> QED BY <2>2, <2>3, <2>4 DEF Alike, AlikeLinks
<1> QED BY <1>8, <1>9, <1>10, <1>11, WorldsStep

-----------------------------------------------------------------------------
(* A review and its summary: what the figures and the stores say of each         *)
(* candidate's fate.                                                            *)

Reviewed == DOMAIN review.fate
OfFate(fates) == {k \in Reviewed : review.fate[k] \in fates}
ReviewTypes ==
    /\ review.at \in {"off", "list", "ask", "groups", "all", "aborted"}
    /\ review.route \in Routes /\ Reviewed \in SUBSET GKeys /\ review.total = Cardinality(Reviewed)
    /\ review.fate \in [Reviewed -> Fates] /\ DOMAIN review.snap = Reviewed /\ review.again \in BOOLEAN
    /\ review.confirmed \in Nat /\ review.deleted \in Nat /\ review.skipped \in Nat
    /\ review.left \in SUBSET Reviewed /\ review.key \in SUBSET Reviewed
    /\ review.todo \in SUBSET Reviewed /\ review.batch \in SUBSET Reviewed /\ review.rest \in SUBSET Reviewed
\* What lies on the table was not dealt with, but for the part of a batch that is
\* confirmed or refused. A group that was not picked is untouched.
Table ==
    /\ \A k \in review.left \cup review.todo \cup review.rest : review.fate[k] = "open"
    /\ \A k \in review.batch \ review.todo : review.fate[k] \in {"confirmed", "failed"}
    /\ review.todo \subseteq review.batch /\ review.rest \cap review.batch = {}
    /\ review.key \subseteq review.left /\ (review.at = "list" => review.key = {})
    /\ review.at \notin {"list", "ask", "aborted"} => review.left = {}
    /\ review.at # "all" => review.batch = {} /\ review.rest = {}
Groups ==
    /\ review.at \in {"groups", "all"} => review.triage
    /\ review.triage =>
         /\ \A k \in Reviewed : KindOf[k] \notin review.picked => review.fate[k] = "open"
         /\ \A k \in review.left \cup review.batch \cup review.rest : KindOf[k] \in review.picked
\* The figures; an accepted batch is counted when it is done.
Figures ==
    /\ review.confirmed + Cardinality(review.batch \ review.todo) = Cardinality(OfFate({"confirmed", "failed"}))
    /\ review.deleted = Cardinality(OfFate({"deleted"}))
    /\ review.skipped = Cardinality(OfFate({"skipped"}))
\* What a store says of the candidate k with the fate f.
Told(w, k, f, sound) ==
    CASE f = "confirmed" ->
           /\ IsConfirmed(w, k)
           /\ sound => \A p \in w.gotcha[k].files : k \in w.links[p] /\ <<p, k>> \in w.edges
      [] f = "deleted" ->
           /\ ~IsActive(w, k)
           /\ sound => \A p \in Paths : k \notin w.links[p] /\ <<p, k>> \notin w.edges
      [] f = "failed" -> FALSE
      [] OTHER -> k \in Candidates(w)
Waits(f) == f \in {"open", "skipped", "edited"}
TrueOf(w, k, f, sound, files) ==
    /\ Told(w, k, f, sound)
    /\ Waits(f) => w.gotcha[k].files = files /\ (sound => InPlace(w, k))
\* While nobody else writes.
Alone ==
    /\ review.at # "aborted" /\ DOMAIN world = Routes /\ Mine \in Stores
    /\ \A k \in Reviewed : TrueOf(Mine, k, review.fate[k], review.sound, review.snap[k].files)
ReviewInv ==
    review.total # 0 =>
    /\ ReviewTypes
    /\ ~review.again => Table /\ Groups /\ Figures /\ (~others => Alone)

\* A review's fields, but for some, are as they were.
Keeps(fields) == \A f \in DOMAIN NoReview \ fields : review'[f] = review[f]

\* What an action on the gotcha k leaves alone.
SameFor(v, w, j) ==
    /\ v.gotcha[j] = w.gotcha[j]
    /\ \A p \in Paths : /\ (j \in v.links[p]) = (j \in w.links[p])
                        /\ (<<p, j>> \in v.edges) = (<<p, j>> \in w.edges)
OthersSame(v, w, k) == \A j \in GKeys \ {k} : SameFor(v, w, j)

LEMMA LinksOfOthers ==
  ASSUME NEW w \in Stores, NEW k \in GKeys, NEW j \in GKeys \ {k}, NEW old \in SUBSET Paths,
         NEW new \in SUBSET Paths, NEW p \in Paths
  PROVE  /\ (j \in LinksTo(w, k, old, new)[p]) = (j \in w.links[p])
         /\ (<<p, j>> \in EdgesTo(w, k, old, new)) = (<<p, j>> \in w.edges)
<1>1. (j \in LinksTo(w, k, old, new)[p]) = (j \in w.links[p])
  BY DEF LinksTo
<1>2. (<<p, j>> \in EdgesTo(w, k, old, new)) = (<<p, j>> \in w.edges)
  BY DEF EdgesTo
<1> QED BY <1>1, <1>2

LEMMA OwnLinks ==
  ASSUME NEW w \in Stores, NEW k \in GKeys, NEW old \in SUBSET Paths,
         NEW new \in SUBSET Paths, NEW p \in Paths
  PROVE  /\ k \in LinksTo(w, k, old, new)[p] <=> p \in new \ old \/ (k \in w.links[p] /\ p \notin old \ new)
         /\ <<p, k>> \in EdgesTo(w, k, old, new)
            <=> p \in new \ old \/ (<<p, k>> \in w.edges /\ p \notin old \ new)
<1>1. k \in LinksTo(w, k, old, new)[p] <=> p \in new \ old \/ (k \in w.links[p] /\ p \notin old \ new)
  BY DEF LinksTo
<1>2. <<p, k>> \in EdgesTo(w, k, old, new)
      <=> p \in new \ old \/ (<<p, k>> \in w.edges /\ p \notin old \ new)
  BY DEF EdgesTo
<1> QED BY <1>1, <1>2

LEMMA SameStillTrue ==
  ASSUME NEW w, NEW v, NEW j \in GKeys, SameFor(v, w, j), NEW f, NEW sound, NEW files,
         w.gotcha[j].files \in SUBSET Paths, TrueOf(w, j, f, sound, files)
  PROVE  TrueOf(v, j, f, sound, files)
<1>1. Told(v, j, f, sound)
  BY DEF SameFor, TrueOf, Told, IsConfirmed, IsActive, Candidates
<1>2. Waits(f) => v.gotcha[j].files = files /\ (sound => InPlace(v, j))
  BY DEF SameFor, TrueOf, InPlace
<1> QED BY <1>1, <1>2 DEF TrueOf

LEMMA ConfirmDoes ==
  ASSUME NEW w \in Stores, NEW k \in GKeys, NEW route \in Routes, IsActive(w, k),
         NEW v, v = ConfirmRoute(route, w, k), NEW sound, sound => InPlace(w, k), NEW files
  PROVE  v \in Stores /\ OthersSame(v, w, k) /\ TrueOf(v, k, "confirmed", sound, files)
<1>1. PICK had \in SUBSET Paths : had = w.gotcha[k].files
  BY DEF Stores, Recs
<1>2. PICK linked \in SUBSET Paths, rest \in SUBSET Paths :
         linked \subseteq had /\ HasConfirmed(v, w, k, linked, rest)
  <2>3. w.receipts \in SUBSET Paths /\ w.receipts \ had \in SUBSET Paths
    BY DEF Stores
  <2>1. CASE route = "direct"
    BY <2>1, <2>3, <1>1, DirectConfirmIs DEF ConfirmRoute
  <2>2. CASE route = "daemon"
    <3>1. had \ w.known \in SUBSET Paths /\ had \ w.known \subseteq had
      OBVIOUS
    <3>2. HasConfirmed(v, w, k, had \ w.known, w.receipts \ had)
      BY <2>2, <1>1, DaemonConfirmIs DEF ConfirmRoute
    <3> QED BY <3>1, <3>2, <2>3
  <2> QED BY <2>1, <2>2 DEF Routes
<1>3. PICK card \in Recs : card = AsConfirmed(w.gotcha[k]) /\ card.st = "active" /\ card.confirmed /\ card.files = had
  <2>1. w.gotcha[k] \in Recs
    BY DEF Stores
  <2> QED BY <2>1, <1>1, AsConfirmedFields DEF IsActive
<1>4. v \in Stores
  BY <1>2 DEF HasConfirmed
<1>5. ASSUME NEW j \in GKeys PROVE v.gotcha[j] = IF j = k THEN card ELSE w.gotcha[j]
  BY <1>2, <1>3 DEF HasConfirmed, Stores
<1>6. v.links = LinksTo(w, k, {}, linked) /\ v.edges = EdgesTo(w, k, {}, had)
  BY <1>1, <1>2 DEF HasConfirmed
<1>7. OthersSame(v, w, k)
  BY <1>5, <1>6, LinksOfOthers DEF OthersSame, SameFor
<1>8. v.gotcha[k] = card
  BY <1>5
<1>9. ASSUME sound, NEW p \in had PROVE k \in v.links[p] /\ <<p, k>> \in v.edges
  <2>1. p \in Paths /\ k \in w.links[p] /\ <<p, k>> \in w.edges
    BY <1>1, <1>9 DEF InPlace
  <2> QED BY <2>1, <1>6, <1>9, OwnLinks
<1>10. Told(v, k, "confirmed", sound)
  BY <1>3, <1>8, <1>9 DEF Told, IsConfirmed, IsActive
<1> QED BY <1>4, <1>7, <1>10 DEF TrueOf, Waits

LEMMA TombstoneDoes ==
  ASSUME NEW w \in Stores, NEW k \in GKeys, NEW route \in Routes,
         NEW v, v = TombstoneRoute(route, w, k, w.gotcha[k].files), NEW sound, sound => InPlace(w, k), NEW files
  PROVE  v \in Stores /\ OthersSame(v, w, k) /\ TrueOf(v, k, "deleted", sound, files)
<1>1. PICK had \in SUBSET Paths : had = w.gotcha[k].files
  BY DEF Stores, Recs
<1>2. Buried(v, w, k)
  BY TombstoneIs DEF TombstoneRoute, DaemonTombstone
<1>3. PICK card : card = [w.gotcha[k] EXCEPT !.st = "tombstone"] /\ card.st = "tombstone"
  <2>1. w.gotcha[k] \in Recs
    BY DEF Stores
  <2>2. [w.gotcha[k] EXCEPT !.st = "tombstone"].st = "tombstone"
    BY <2>1 DEF Recs
  <2> QED BY <2>2
<1>4. v \in Stores
  BY <1>2 DEF Buried
<1>5. ASSUME NEW j \in GKeys PROVE v.gotcha[j] = IF j = k THEN card ELSE w.gotcha[j]
  BY <1>2, <1>3 DEF Buried, Stores
<1>6. v.links = LinksTo(w, k, had, {}) /\ v.edges = EdgesTo(w, k, had, {})
  BY <1>1, <1>2 DEF Buried
<1>7. OthersSame(v, w, k)
  BY <1>5, <1>6, LinksOfOthers DEF OthersSame, SameFor
<1>8. ASSUME sound, NEW p \in Paths PROVE k \notin v.links[p] /\ <<p, k>> \notin v.edges
  <2>1. (k \in w.links[p]) = (p \in had) /\ (<<p, k>> \in w.edges) = (p \in had)
    BY <1>1, <1>8 DEF InPlace
  <2> QED BY <2>1, <1>6, OwnLinks
<1>9. ~IsActive(v, k)
  BY <1>3, <1>5 DEF IsActive
<1>10. Told(v, k, "deleted", sound)
  BY <1>8, <1>9 DEF Told
<1> QED BY <1>4, <1>7, <1>10 DEF TrueOf, Waits

\* The record that an edit of a card saves.
CardOf(w, k, rule, files) == [w.gotcha[k] EXCEPT !.rule = rule, !.files = files, !.confirmed = FALSE]
\* An edited card keeps its files, so no link moves.
LEMMA EditDoes ==
  ASSUME NEW w \in Stores, NEW k \in GKeys, NEW route \in Routes, NEW card \in Recs, NEW rule, NEW files, NEW sound,
         card = CardOf(w, k, rule, files),
         NEW v, v = PutRoute(route, w, k, card), TrueOf(w, k, "open", sound, files)
  PROVE  v \in Stores /\ OthersSame(v, w, k) /\ TrueOf(v, k, "open", sound, files)
<1>1. w.gotcha[k].st = "active" /\ w.gotcha[k].files = files /\ (sound => InPlace(w, k))
  BY DEF TrueOf, Told, Waits, Candidates, IsActive
<1>2. files \in SUBSET Paths /\ w.gotcha[k] \in Recs
  <2>1. w.gotcha[k] \in Recs
    BY DEF Stores
  <2> QED BY <2>1, <1>1 DEF Recs
<1>3. card.st = "active" /\ ~card.confirmed /\ card.files = files
  BY <1>1, <1>2 DEF Recs, CardOf
<1>4. PICK put \in Recs : /\ put.st = "active" /\ ~put.confirmed /\ put.files = files
                          /\ v \in Stores /\ v.gotcha = [w.gotcha EXCEPT ![k] = put]
                          /\ v.links = LinksTo(w, k, files, files) /\ v.edges = EdgesTo(w, k, files, files)
  <2>1. CASE route = "direct"
    <3>1. Put(v, w, k, card)
      BY <2>1, PutIs DEF PutRoute
    <3>2. LinksTo(w, k, files, files) = w.links
      BY DEF LinksTo, Stores
    <3>3. EdgesTo(w, k, files, files) = w.edges
      BY DEF EdgesTo
    <3> QED BY <3>1, <3>2, <3>3, <1>3 DEF Put
  <2>2. CASE route = "daemon"
    <3>1. PICK b \in BOOLEAN : b = (~IsActive(w, k) /\ card.enriched)
      BY DEF Recs
    <3>2. v = DaemonUpsert(w, k, card.rule, files, card.source, card.enriched)
      BY <2>2, <1>3 DEF PutRoute
    <3>3. files = OldFiles(w, k)
      BY <1>1 DEF OldFiles, IsActive
    <3>4. HasWritten(v, w, k, Drafted(card), files, files, b)
      <4>1. card \in Recs /\ w \in Stores /\ k \in GKeys /\ b \in BOOLEAN /\ files = card.files
        BY <1>3
      <4>2. HasWritten(DaemonUpsert(w, k, card.rule, files, card.source, card.enriched), w, k, Drafted(card), files, files, b)
        BY ONLY <4>1, <3>1, <3>3, <1>2, DaemonUpsertIs
      <4> QED BY ONLY <4>2, <3>2
    <3>5. PICK put \in Recs : put = Drafted(card)
      BY DraftedIs
    <3>6. put.st = "active" /\ ~put.confirmed /\ put.files = files
      BY <3>5, <1>3 DEF Drafted
    <3> QED BY <3>4, <3>5, <3>6 DEF HasWritten
  <2> QED BY <2>1, <2>2 DEF Routes
<1>5. ASSUME NEW j \in GKeys PROVE v.gotcha[j] = IF j = k THEN put ELSE w.gotcha[j]
  BY <1>4 DEF Stores
<1>6. OthersSame(v, w, k)
  BY <1>2, <1>4, <1>5, LinksOfOthers DEF OthersSame, SameFor
<1>7. k \in Candidates(v)
  BY <1>4, <1>5 DEF Candidates, IsActive
<1>8. v.gotcha[k].files = files
  BY <1>4, <1>5
<1>9. sound => InPlace(v, k)
  <2>1. ASSUME NEW p \in Paths
        PROVE  /\ k \in v.links[p] <=> k \in w.links[p]
               /\ <<p, k>> \in v.edges <=> <<p, k>> \in w.edges
    BY <1>2, <1>4, OwnLinks
  <2> QED BY <2>1, <1>1, <1>8 DEF InPlace
<1>10. Told(v, k, "open", sound)
  BY <1>7 DEF Told
<1> QED BY <1>4, <1>6, <1>8, <1>9, <1>10 DEF TrueOf

-----------------------------------------------------------------------------
(* The steps of a review.                                                       *)

\* The candidates of S, all open until now, get the fate f.
LEMMA FateStep ==
  ASSUME ReviewTypes, NEW S \in SUBSET Reviewed, NEW f \in Fates \ {"open"}, review'.fate = Fated(S, f)
  PROVE  /\ Reviewed' = Reviewed /\ review'.fate \in [Reviewed -> Fates]
         /\ \A k \in Reviewed : review'.fate[k] = IF k \in S THEN f ELSE review.fate[k]
         /\ IsFiniteSet(Reviewed) /\ IsFiniteSet(S)
<1>1. review'.fate = [k \in Reviewed |-> IF k \in S THEN f ELSE review.fate[k]]
  BY DEF Fated, Reviewed
<1>2. IsFiniteSet(Reviewed)
  BY GKeysFinite, FS_Subset DEF ReviewTypes
<1>3. IsFiniteSet(S)
  BY <1>2, FS_Subset
<1>4. Reviewed' = Reviewed
  BY <1>1 DEF Reviewed
<1>5. \A k \in Reviewed : review.fate[k] \in Fates
  BY DEF ReviewTypes
<1>6. review'.fate \in [Reviewed -> Fates]
  BY <1>1, <1>5
<1> QED BY <1>1, <1>2, <1>3, <1>4, <1>6

LEMMA TallyStep ==
  ASSUME ReviewTypes, NEW S \in SUBSET Reviewed, NEW f \in Fates \ {"open"}, review'.fate = Fated(S, f),
         \A k \in S : review.fate[k] = "open", NEW g, "open" \notin g
  PROVE  /\ Cardinality(OfFate(g)') = Cardinality(OfFate(g)) + (IF f \in g THEN Cardinality(S) ELSE 0)
         /\ Cardinality(OfFate(g)) \in Nat /\ Cardinality(S) \in Nat
<1>1. /\ Reviewed' = Reviewed /\ IsFiniteSet(Reviewed) /\ IsFiniteSet(S)
      /\ \A k \in Reviewed : review'.fate[k] = IF k \in S THEN f ELSE review.fate[k]
  BY FateStep
<1>2. PICK T \in SUBSET Reviewed : T = OfFate(g)
  BY DEF OfFate
<1>3. IsFiniteSet(T) /\ Cardinality(T) \in Nat /\ Cardinality(S) \in Nat
  BY <1>1, FS_Subset, FS_CardinalityType
<1>4. T \cap S = {}
  BY <1>2 DEF OfFate
<1>5. OfFate(g)' = IF f \in g THEN T \cup S ELSE T
  BY <1>1, <1>2 DEF OfFate
<1>6. Cardinality(T \cup S) = Cardinality(T) + Cardinality(S)
  <2>1. Cardinality(T \cup S) = Cardinality(T) + Cardinality(S) - Cardinality(T \cap S)
    BY <1>1, <1>3, FS_Union
  <2>2. Cardinality(T \cap S) = 0
    BY <1>4, FS_EmptySet
  <2> QED BY <2>1, <2>2, <1>3
<1> QED BY <1>2, <1>3, <1>5, <1>6

\* One candidate that was open gets the fate f.
LEMMA TallyOne ==
  ASSUME ReviewTypes, NEW k \in Reviewed, NEW f \in Fates \ {"open"}, review'.fate = Fated({k}, f),
         review.fate[k] = "open", NEW g, "open" \notin g
  PROVE  Cardinality(OfFate(g)') = Cardinality(OfFate(g)) + (IF f \in g THEN 1 ELSE 0)
<1>1. {k} \in SUBSET Reviewed
  OBVIOUS
<1>2. /\ Reviewed' = Reviewed /\ IsFiniteSet(Reviewed)
      /\ \A h \in Reviewed : review'.fate[h] = IF h \in {k} THEN f ELSE review.fate[h]
  BY <1>1, FateStep
<1>3. PICK T \in SUBSET Reviewed : T = OfFate(g)
  BY DEF OfFate
<1>4. IsFiniteSet(T) /\ k \notin T
  BY <1>2, <1>3, FS_Subset DEF OfFate
<1>5. OfFate(g)' = IF f \in g THEN T \cup {k} ELSE T
  BY <1>2, <1>3 DEF OfFate
<1>6. Cardinality(T) \in Nat /\ Cardinality(T \cup {k}) = Cardinality(T) + 1
  BY <1>4, FS_AddElement, FS_CardinalityType
<1> QED BY ONLY <1>3, <1>5, <1>6

\* What the session sees of its store when one candidate, or none, was acted on.
LEMMA AloneStep ==
  ASSUME ReviewTypes, Alone, NEW S \in SUBSET Reviewed, NEW f \in Fates, DOMAIN world' = Routes,
         Keeps(DOMAIN NoReview \ {"route", "snap", "sound"}), review'.at # "aborted",
         Reviewed' = Reviewed, \A k \in Reviewed : review'.fate[k] = IF k \in S THEN f ELSE review.fate[k],
         NEW v \in Stores, v = world'[review.route],
         \A k \in S : TrueOf(v, k, f, review.sound, review.snap[k].files),
         \A k \in Reviewed \ S : SameFor(v, Mine, k)
  PROVE  Alone'
<1>1. review'.route = review.route /\ review'.snap = review.snap /\ review'.sound = review.sound
  BY DEF Keeps, NoReview
<1>2. Mine' = v
  BY <1>1 DEF Mine
<1>3. ASSUME NEW k \in Reviewed
      PROVE  TrueOf(v, k, review'.fate[k], review.sound, review.snap[k].files)
  <2>1. CASE k \in S
    BY <2>1
  <2>2. CASE k \notin S
    <3>1. TrueOf(Mine, k, review.fate[k], review.sound, review.snap[k].files)
      BY DEF Alone
    <3>2. k \in GKeys /\ Mine.gotcha[k].files \in SUBSET Paths
      BY DEF Alone, ReviewTypes, Stores, Recs
    <3>3. review'.fate[k] = review.fate[k] /\ SameFor(v, Mine, k)
      BY <2>2
    <3> QED BY ONLY <3>1, <3>2, <3>3, SameStillTrue
  <2> QED BY <2>1, <2>2
<1> QED BY <1>1, <1>2, <1>3 DEF Alone

\* A world that does not change, and candidates that wait on.
LEMMA WaitOn ==
  ASSUME ReviewTypes, Alone, NEW S \in SUBSET Reviewed, NEW f \in {"skipped", "edited"}, world' = world,
         Keeps(DOMAIN NoReview \ {"route", "snap", "sound"}), review'.at # "aborted",
         \A k \in S : review.fate[k] = "open",
         Reviewed' = Reviewed, \A k \in Reviewed : review'.fate[k] = IF k \in S THEN f ELSE review.fate[k]
  PROVE  Alone'
<1>1. Mine \in Stores /\ DOMAIN world' = Routes
  BY DEF Alone
<1>2. ASSUME NEW k \in Reviewed PROVE SameFor(Mine, Mine, k)
  BY DEF SameFor
<1>3. ASSUME NEW k \in S PROVE TrueOf(Mine, k, f, review.sound, review.snap[k].files)
  <2>1. TrueOf(Mine, k, "open", review.sound, review.snap[k].files)
    BY DEF Alone
  <2> QED BY <2>1 DEF TrueOf, Told, Waits
<1>4. Mine = world'[review.route] /\ f \in Fates
  BY DEF Mine, Fates
<1>5. PICK v \in Stores : v = Mine
  BY <1>1
<1>6. \A k \in S : TrueOf(v, k, f, review.sound, review.snap[k].files)
  BY <1>3, <1>5
<1>7. \A k \in Reviewed \ S : SameFor(v, Mine, k)
  BY <1>2, <1>5
<1> QED BY <1>1, <1>4, <1>5, <1>6, <1>7, AloneStep

\* A card is dealt with: its candidate gets the fate f.
LEMMA CardStep ==
  ASSUME DOMAIN review = DOMAIN NoReview, review.total # 0, ReviewInv, others' = others,
         NEW k \in Reviewed, NEW f \in Fates \ {"open", "failed"}, review.at \in {"list", "ask"},
         ~review.again => k \in review.left,
         Keeps({"at", "left", "key", "fate", "confirmed", "deleted", "skipped"}),
         review'.at = "list", review'.left = review.left \ {k}, review'.key = {},
         review'.fate = Fated({k}, f),
         review'.confirmed = review.confirmed + (IF f = "confirmed" THEN 1 ELSE 0),
         review'.deleted = review.deleted + (IF f = "deleted" THEN 1 ELSE 0),
         review'.skipped = review.skipped + (IF f = "skipped" THEN 1 ELSE 0),
         (~review.again /\ ~others /\ Alone /\ review.fate[k] = "open") => Alone'
  PROVE  ReviewInv'
<1>1. ReviewTypes /\ k \in Reviewed
  BY DEF ReviewInv, ReviewTypes
<1>2. {k} \in SUBSET Reviewed
  BY <1>1
<1>3. /\ Reviewed' = Reviewed /\ review'.fate \in [Reviewed -> Fates]
      /\ \A h \in Reviewed : review'.fate[h] = IF h \in {k} THEN f ELSE review.fate[h]
  BY <1>1, <1>2, FateStep
<1>4. /\ review'.triage = review.triage /\ review'.route = review.route /\ review'.total = review.total
      /\ review'.snap = review.snap /\ review'.todo = review.todo /\ review'.batch = review.batch
      /\ review'.rest = review.rest /\ review'.again = review.again /\ review'.picked = review.picked
  BY DEF Keeps, NoReview
<1>5. ReviewTypes'
  <2>1. /\ review'.confirmed \in Nat /\ review'.deleted \in Nat /\ review'.skipped \in Nat
    BY <1>1 DEF ReviewTypes
  <2> QED BY <1>1, <1>3, <1>4, <2>1 DEF ReviewTypes
<1>6. ASSUME ~review.again PROVE Table' /\ Groups' /\ Figures' /\ (~others' => Alone')
  <2>1. Table /\ Groups /\ Figures /\ (~others => Alone) /\ review.fate[k] = "open"
    BY <1>6 DEF ReviewInv, Table
  <2>2. review.batch = {} /\ review.rest = {} /\ review.todo = {}
    BY <2>1 DEF Table
  <2>3. Table'
    BY <1>1, <1>3, <1>4, <2>1, <2>2 DEF Table, ReviewTypes
  <2>4. Groups'
    <3>1. review.at = "list" \/ review.at = "ask"
      OBVIOUS
    <3>2. k \in review.left
      BY <1>6
    <3>3. review'.at \in {"groups", "all"} => review'.triage
      OBVIOUS
    <3>4. ASSUME review.triage
          PROVE  /\ \A h \in Reviewed : KindOf[h] \notin review.picked => review.fate[h] = "open"
                 /\ \A h \in review.left \cup review.batch \cup review.rest : KindOf[h] \in review.picked
      BY ONLY <2>1, <3>4 DEF Groups
    <3>5. ASSUME review.triage, NEW h \in Reviewed, KindOf[h] \notin review.picked PROVE review'.fate[h] = "open"
      <4>1. h # k
        BY ONLY <3>2, <3>4, <3>5
      <4> QED BY ONLY <4>1, <1>3, <3>4, <3>5
    <3>6. ASSUME review.triage, NEW h \in review'.left \cup review'.batch \cup review'.rest
          PROVE  KindOf[h] \in review.picked
      <4>1. h \in review.left \cup review.batch \cup review.rest
        BY <3>6, <1>4
      <4> QED BY ONLY <4>1, <3>4, <3>6
    <3> QED BY ONLY <1>3, <1>4, <3>3, <3>5, <3>6 DEF Groups
  <2>5. Figures'
    <3>1. review.fate[k] = "open"
      BY <2>1
    <3>3. ASSUME NEW g, "open" \notin g
          PROVE  Cardinality(OfFate(g)') = Cardinality(OfFate(g)) + (IF f \in g THEN 1 ELSE 0)
      <4>1. f \in Fates \ {"open"} /\ review'.fate = Fated({k}, f)
        OBVIOUS
      <4> QED BY ONLY <1>1, <3>1, <3>3, <4>1, TallyOne
    <3>4. Cardinality(OfFate({"confirmed", "failed"})') = Cardinality(OfFate({"confirmed", "failed"})) + (IF f = "confirmed" THEN 1 ELSE 0)
      <4>1. f \in {"confirmed", "failed"} <=> f = "confirmed"
        OBVIOUS
      <4> QED BY <4>1, <3>3
    <3>5. Cardinality(OfFate({"deleted"})') = Cardinality(OfFate({"deleted"})) + (IF f = "deleted" THEN 1 ELSE 0)
      BY <3>3
    <3>6. Cardinality(OfFate({"skipped"})') = Cardinality(OfFate({"skipped"})) + (IF f = "skipped" THEN 1 ELSE 0)
      BY <3>3
    <3>7. Cardinality(review.batch \ review.todo) = 0 /\ Cardinality(review'.batch \ review'.todo) = 0
      BY <1>4, <2>2, FS_EmptySet
    <3>8. /\ review.confirmed \in Nat /\ review.deleted \in Nat /\ review.skipped \in Nat
      BY <1>1 DEF ReviewTypes
    <3>9. /\ review.confirmed + 0 = Cardinality(OfFate({"confirmed", "failed"}))
          /\ review.deleted = Cardinality(OfFate({"deleted"}))
          /\ review.skipped = Cardinality(OfFate({"skipped"}))
      BY <2>1, <3>7 DEF Figures
    <3>10. /\ review'.confirmed + Cardinality(review'.batch \ review'.todo) = Cardinality(OfFate({"confirmed", "failed"})')
           /\ review'.deleted = Cardinality(OfFate({"deleted"})')
           /\ review'.skipped = Cardinality(OfFate({"skipped"})')
      BY <3>4, <3>5, <3>6, <3>7, <3>8, <3>9
    <3> QED BY <3>10 DEF Figures
  <2> QED BY <2>1, <2>3, <2>4, <2>5, <1>6
<1> QED BY <1>4, <1>5, <1>6 DEF ReviewInv

\* While nobody else writes, an open candidate can be acted on, and what is done to
\* it in the store of the session shows there.
LEMMA ActAlone ==
  ASSUME DOMAIN review = DOMAIN NoReview, ReviewTypes, Alone, NEW k \in Reviewed, review.fate[k] = "open",
         NEW v \in Stores, Change(v), OthersSame(v, Mine, k), NEW f \in Fates,
         TrueOf(v, k, f, review.sound, review.snap[k].files),
         Keeps(DOMAIN NoReview \ {"route", "snap", "sound"}), review'.at # "aborted", Reviewed' = Reviewed,
         \A h \in Reviewed : review'.fate[h] = IF h \in {k} THEN f ELSE review.fate[h]
  PROVE  Alone'
<1>1. DOMAIN world' = Routes /\ v = world'[review.route]
  BY DEF Change, Alone, ReviewTypes
<1>2. {k} \in SUBSET Reviewed
  OBVIOUS
<1>3. \A h \in {k} : TrueOf(v, h, f, review.sound, review.snap[h].files)
  OBVIOUS
<1>4. \A h \in Reviewed \ {k} : SameFor(v, Mine, h)
  BY DEF OthersSame, ReviewTypes
<1> QED BY <1>1, <1>2, <1>3, <1>4, AloneStep

LEMMA OpenActive ==
  ASSUME ReviewTypes, Alone, NEW k \in Reviewed, review.fate[k] = "open"
  PROVE  /\ k \in GKeys /\ Mine \in Stores /\ IsActive(Mine, k) /\ CanConfirm(Mine, k)
         /\ TrueOf(Mine, k, "open", review.sound, review.snap[k].files)
         /\ Mine.gotcha[k].files = review.snap[k].files /\ (review.sound => InPlace(Mine, k))
<1>1. TrueOf(Mine, k, "open", review.sound, review.snap[k].files) /\ k \in GKeys /\ Mine \in Stores
  BY DEF Alone, ReviewTypes
<1> QED BY <1>1 DEF TrueOf, Told, Waits, Candidates, CanConfirm

LEMMA AbortStep ==
  ASSUME DOMAIN review = DOMAIN NoReview, review.total # 0, ReviewInv, Abort, others' = others, review.at \in {"list", "ask"},
         ~review.again => others
  PROVE  ReviewInv' /\ Keeps({"at"})
<1>1. review'.at = "aborted" /\ Keeps({"at"})
  BY DEF Abort, Keeps
<1>2. /\ review'.triage = review.triage /\ review'.route = review.route /\ review'.total = review.total
      /\ review'.snap = review.snap /\ review'.todo = review.todo /\ review'.batch = review.batch
      /\ review'.rest = review.rest /\ review'.again = review.again /\ review'.picked = review.picked
  BY <1>1 DEF Keeps, NoReview
<1>3. /\ review'.left = review.left /\ review'.key = review.key /\ review'.fate = review.fate
      /\ review'.confirmed = review.confirmed /\ review'.deleted = review.deleted /\ review'.skipped = review.skipped
  BY <1>1 DEF Keeps, NoReview
<1>4. ReviewTypes' /\ Reviewed' = Reviewed
  BY <1>1, <1>2, <1>3 DEF ReviewInv, ReviewTypes, Reviewed
<1>5. ASSUME ~review.again PROVE Table' /\ Groups' /\ Figures'
  <2>1. Table /\ Groups /\ Figures
    BY <1>5 DEF ReviewInv
  <2>2. Table'
    BY <2>1, <1>1, <1>2, <1>3 DEF Table
  <2>3. Groups'
    BY <2>1, <1>1, <1>2, <1>3, <1>4 DEF Groups
  <2>4. Figures'
    BY <2>1, <1>2, <1>3, <1>4 DEF Figures, OfFate
  <2> QED BY <2>2, <2>3, <2>4
<1> QED BY <1>1, <1>2, <1>4, <1>5 DEF ReviewInv

\* What every action of a card shows of the review's fields.
ActedOn(r, k, f) ==
    /\ DOMAIN r = DOMAIN NoReview
    /\ \A x \in DOMAIN NoReview \ {"at", "left", "key", "fate"} : r[x] = review[x]
    /\ r.at = "list" /\ r.left = review.left \ {k} /\ r.key = {} /\ r.fate = Fated({k}, f)
LEMMA ActedIs ==
  ASSUME DOMAIN review = DOMAIN NoReview, NEW k, NEW f
  PROVE  ActedOn(Acted(k, f), k, f)
<1>1. {"at", "left", "key", "fate"} \subseteq DOMAIN NoReview
  BY DEF NoReview
<1> QED BY <1>1 DEF Acted, ActedOn

\* The preconditions of CardStep, from the record that an action of a card leaves.
ActedWith(k, f) ==
    /\ DOMAIN review' = DOMAIN NoReview
    /\ Keeps({"at", "left", "key", "fate", "confirmed", "deleted", "skipped"})
    /\ review'.at = "list" /\ review'.left = review.left \ {k} /\ review'.key = {}
    /\ review'.fate = Fated({k}, f)
    /\ review'.confirmed = review.confirmed + (IF f = "confirmed" THEN 1 ELSE 0)
    /\ review'.deleted = review.deleted + (IF f = "deleted" THEN 1 ELSE 0)
    /\ review'.skipped = review.skipped + (IF f = "skipped" THEN 1 ELSE 0)

LEMMA CountedUp ==
  ASSUME NEW r, DOMAIN r = DOMAIN NoReview, NEW x \in DOMAIN NoReview, NEW q, q = [r EXCEPT ![x] = r[x] + 1]
  PROVE  DOMAIN q = DOMAIN NoReview /\ q[x] = r[x] + 1 /\ \A y \in DOMAIN NoReview \ {x} : q[y] = r[y]
BY DEF NoReview

LEMMA ActedFields ==
  ASSUME DOMAIN review = DOMAIN NoReview, ReviewTypes, NEW k
  PROVE  /\ review' = [Acted(k, "confirmed") EXCEPT !.confirmed = @ + 1] => ActedWith(k, "confirmed")
         /\ review' = [Acted(k, "skipped") EXCEPT !.skipped = @ + 1] => ActedWith(k, "skipped")
         /\ review' = [Acted(k, "deleted") EXCEPT !.deleted = @ + 1] => ActedWith(k, "deleted")
         /\ review' = Acted(k, "edited") => ActedWith(k, "edited")
<1>0. DOMAIN review = DOMAIN NoReview
  OBVIOUS
<1>1. /\ {"confirmed", "deleted", "skipped", "at", "left", "key", "fate"} \subseteq DOMAIN NoReview
      /\ review.confirmed \in Nat /\ review.deleted \in Nat /\ review.skipped \in Nat
  BY DEF NoReview, ReviewTypes
<1>2. ASSUME NEW x \in {"confirmed", "deleted", "skipped"}, NEW r, r = Acted(k, x),
             review' = [r EXCEPT ![x] = r[x] + 1]
      PROVE  ActedWith(k, x)
  <2>1. /\ DOMAIN r = DOMAIN NoReview
        /\ \A y \in DOMAIN NoReview \ {"at", "left", "key", "fate"} : r[y] = review[y]
        /\ r.at = "list" /\ r.left = review.left \ {k} /\ r.key = {} /\ r.fate = Fated({k}, x)
    <3>1. ActedOn(r, k, x)
      BY ONLY <1>0, <1>2, ActedIs
    <3> QED BY ONLY <3>1 DEF ActedOn
  <2>2. /\ DOMAIN review' = DOMAIN NoReview /\ review'[x] = r[x] + 1
        /\ \A y \in DOMAIN NoReview \ {x} : review'[y] = r[y]
    BY <1>1, <1>2, <2>1, CountedUp
  <2>3. Keeps({"at", "left", "key", "fate", "confirmed", "deleted", "skipped"})
    BY ONLY <2>1, <2>2, <1>2 DEF Keeps
  <2>4. review'.at = "list" /\ review'.left = review.left \ {k} /\ review'.key = {} /\ review'.fate = Fated({k}, x)
    BY ONLY <1>1, <1>2, <2>1, <2>2
  <2>5. /\ r.confirmed = review.confirmed /\ r.deleted = review.deleted /\ r.skipped = review.skipped
    BY ONLY <1>1, <2>1
  <2>6. /\ review'.confirmed = review.confirmed + (IF x = "confirmed" THEN 1 ELSE 0)
        /\ review'.deleted = review.deleted + (IF x = "deleted" THEN 1 ELSE 0)
        /\ review'.skipped = review.skipped + (IF x = "skipped" THEN 1 ELSE 0)
    <3>1. CASE x = "confirmed"
      BY ONLY <3>1, <1>1, <2>2, <2>5
    <3>2. CASE x = "deleted"
      BY ONLY <3>2, <1>1, <2>2, <2>5
    <3>3. CASE x = "skipped"
      BY ONLY <3>3, <1>1, <2>2, <2>5
    <3> QED BY <3>1, <3>2, <3>3, <1>2
  <2> QED BY <2>2, <2>3, <2>4, <2>6 DEF ActedWith
<1>3. ASSUME review' = Acted(k, "edited") PROVE ActedWith(k, "edited")
  <2>1. /\ DOMAIN review' = DOMAIN NoReview
        /\ \A y \in DOMAIN NoReview \ {"at", "left", "key", "fate"} : review'[y] = review[y]
        /\ review'.at = "list" /\ review'.left = review.left \ {k} /\ review'.key = {}
        /\ review'.fate = Fated({k}, "edited")
    <3>1. ActedOn(review', k, "edited")
      BY ONLY <1>0, <1>3, ActedIs
    <3> QED BY ONLY <3>1 DEF ActedOn
  <2>2. Keeps({"at", "left", "key", "fate", "confirmed", "deleted", "skipped"})
    BY ONLY <2>1 DEF Keeps
  <2>3. /\ review'.confirmed = review.confirmed /\ review'.deleted = review.deleted
        /\ review'.skipped = review.skipped
    BY ONLY <1>1, <2>1
  <2> QED BY <1>1, <2>1, <2>2, <2>3 DEF ActedWith
<1> QED BY <1>2, <1>3

LEMMA ActedWithFate ==
  ASSUME ReviewTypes, NEW k \in Reviewed, NEW f \in Fates \ {"open"}, ActedWith(k, f)
  PROVE  /\ Reviewed' = Reviewed /\ review'.at # "aborted"
         /\ Keeps(DOMAIN NoReview \ {"route", "snap", "sound"})
         /\ \A h \in Reviewed : review'.fate[h] = IF h \in {k} THEN f ELSE review.fate[h]
<1>1. {k} \in SUBSET Reviewed
  OBVIOUS
<1>2. Keeps(DOMAIN NoReview \ {"route", "snap", "sound"})
  BY DEF ActedWith, Keeps, NoReview
<1> QED BY <1>1, <1>2, FateStep DEF ActedWith

\* What a step of a review keeps of the other proofs' variables.
StaysPut == DOMAIN review' = DOMAIN NoReview /\ review'.total = review.total /\ apart' = apart

LEMMA ConfirmCard ==
  ASSUME DOMAIN review = DOMAIN NoReview, review.total # 0, ReviewInv, NEW k \in Reviewed,
         review.at \in {"list", "ask"}, ~review.again => k \in review.left, CanConfirm(Mine, k),
         Change(ConfirmRoute(review.route, Mine, k)),
         review' = [Acted(k, "confirmed") EXCEPT !.confirmed = @ + 1]
  PROVE  ReviewInv' /\ StaysPut
<1>1. ReviewTypes /\ k \in GKeys /\ review.route \in Routes
  BY DEF ReviewInv, ReviewTypes
<1>2. ActedWith(k, "confirmed") /\ "confirmed" \in Fates \ {"open", "failed"} /\ others' = others /\ apart' = apart
  BY <1>1, ActedFields DEF Fates, Change
<1>3. ASSUME Alone, review.fate[k] = "open" PROVE Alone'
  <2>1. PICK v : v = ConfirmRoute(review.route, Mine, k)
    OBVIOUS
  <2>2. v \in Stores /\ OthersSame(v, Mine, k) /\ TrueOf(v, k, "confirmed", review.sound, review.snap[k].files)
    BY <2>1, <1>1, <1>3, OpenActive, ConfirmDoes
  <2> QED BY <2>1, <2>2, <1>1, <1>2, <1>3, ActedWithFate, ActAlone
<1>4. ReviewInv'
  BY <1>2, <1>3, CardStep DEF ActedWith
<1>5. review'.total = review.total
  BY <1>2 DEF ActedWith, Keeps, NoReview
<1> QED BY <1>2, <1>4, <1>5 DEF ActedWith, StaysPut

LEMMA CardConfirmStep ==
  ASSUME DOMAIN review = DOMAIN NoReview, review.total # 0, ReviewInv, NEW k \in GKeys, CardConfirm(k)
  PROVE  ReviewInv' /\ StaysPut
<1>1. CASE CanConfirm(Mine, k)
  <2>1. k \in Reviewed
    BY DEF CardConfirm, ReviewInv, ReviewTypes
  <2> QED BY <2>1, <1>1, ConfirmCard DEF CardConfirm
<1>2. CASE ~CanConfirm(Mine, k)
  <2>1. Abort /\ others' = others /\ apart' = apart /\ review.at = "list" /\ k \in review.left
    BY <1>2 DEF CardConfirm, NoChange
  <2>2. ~review.again => others
    <3>1. SUFFICES ASSUME ~review.again, ~others PROVE FALSE
      OBVIOUS
    <3>2. ReviewTypes /\ Alone /\ k \in Reviewed /\ review.fate[k] = "open"
      BY <3>1, <2>1 DEF ReviewInv, ReviewTypes, Table
    <3> QED BY <3>2, <1>2, OpenActive
  <2>3. ReviewInv' /\ Keeps({"at"})
    BY <2>1, <2>2, AbortStep
  <2>4. review'.total = review.total /\ DOMAIN review' = DOMAIN NoReview
    BY <2>1, <2>3 DEF Abort, Keeps, NoReview
  <2> QED BY <2>1, <2>3, <2>4 DEF StaysPut
<1> QED BY <1>1, <1>2

LEMMA CardSkipStep ==
  ASSUME DOMAIN review = DOMAIN NoReview, review.total # 0, ReviewInv, NEW k \in GKeys, CardSkip(k)
  PROVE  ReviewInv' /\ StaysPut
<1>1. ReviewTypes /\ k \in Reviewed /\ k \in review.left /\ review.at = "list"
  BY DEF ReviewInv, ReviewTypes, CardSkip
<1>2. /\ ActedWith(k, "skipped") /\ "skipped" \in Fates \ {"open", "failed"}
      /\ world' = world /\ others' = others /\ apart' = apart
  BY <1>1, ActedFields DEF Fates, CardSkip, NoChange
<1>3. ASSUME Alone, review.fate[k] = "open" PROVE Alone'
  <2>1. {k} \in SUBSET Reviewed /\ \A h \in {k} : review.fate[h] = "open"
    BY <1>1, <1>3
  <2> QED BY <2>1, <1>1, <1>2, <1>3, ActedWithFate, WaitOn
<1>4. ReviewInv'
  BY <1>1, <1>2, <1>3, CardStep DEF ActedWith
<1>5. review'.total = review.total
  BY <1>2 DEF ActedWith, Keeps, NoReview
<1> QED BY <1>2, <1>4, <1>5 DEF ActedWith, StaysPut

LEMMA CardDeleteStep ==
  ASSUME DOMAIN review = DOMAIN NoReview, review.total # 0, ReviewInv, NEW k \in GKeys, CardDelete(k)
  PROVE  ReviewInv' /\ StaysPut
<1>1. ReviewTypes /\ k \in Reviewed /\ k \in review.left /\ review.at = "list" /\ review.route \in Routes
  BY DEF ReviewInv, ReviewTypes, CardDelete
<1>2. PICK v : v = TombstoneRoute(review.route, Mine, k, Mine.gotcha[k].files)
  OBVIOUS
<1>3. /\ ActedWith(k, "deleted") /\ "deleted" \in Fates \ {"open", "failed"}
      /\ Change(v) /\ others' = others /\ apart' = apart
  BY <1>1, <1>2, ActedFields DEF Fates, CardDelete, Change
<1>4. ASSUME Alone, review.fate[k] = "open" PROVE Alone'
  <2>1. v \in Stores /\ OthersSame(v, Mine, k) /\ TrueOf(v, k, "deleted", review.sound, review.snap[k].files)
    BY <1>1, <1>2, <1>4, OpenActive, TombstoneDoes
  <2> QED BY <2>1, <1>1, <1>3, <1>4, ActedWithFate, ActAlone
<1>5. ReviewInv'
  BY <1>1, <1>3, <1>4, CardStep DEF ActedWith
<1>6. review'.total = review.total
  BY <1>3 DEF ActedWith, Keeps, NoReview
<1> QED BY <1>3, <1>5, <1>6 DEF ActedWith, StaysPut

LEMMA EditedCardIs ==
  ASSUME NEW x \in Recs, NEW rule \in Rules, NEW files, x.files = files, NEW card,
         card = [x EXCEPT !.rule = rule, !.files = files, !.confirmed = FALSE]
  PROVE  card \in Recs
<1>1. files \in SUBSET Paths
  BY DEF Recs
<1>2. [x EXCEPT !.rule = rule] \in Recs
  BY DEF Recs
<1>3. PICK r1 \in Recs : r1 = [x EXCEPT !.rule = rule]
  BY <1>2
<1>4. [r1 EXCEPT !.files = files] \in Recs
  BY <1>1 DEF Recs
<1>5. PICK r2 \in Recs : r2 = [r1 EXCEPT !.files = files]
  BY <1>4
<1>6. [r2 EXCEPT !.confirmed = FALSE] \in Recs
  BY DEF Recs
<1> QED BY <1>3, <1>5, <1>6

\* While a card is edited its candidate stays open, with another text.
LEMMA CardEditStep ==
  ASSUME DOMAIN review = DOMAIN NoReview, review.total # 0, ReviewInv, NEW k \in GKeys, NEW rule \in Rules,
         CardEdit(k, rule)
  PROVE  ReviewInv' /\ StaysPut
<1>1. ReviewTypes /\ k \in Reviewed /\ k \in review.left /\ review.at = "list" /\ review.route \in Routes
  BY DEF ReviewInv, ReviewTypes, CardEdit
<1>2. PICK card : card = EditedCard(k, rule)
  OBVIOUS
<1>3. PICK v : v = PutRoute(review.route, Mine, k, card)
  OBVIOUS
<1>4. Change(v) /\ others' = others /\ apart' = apart
  BY <1>2, <1>3 DEF CardEdit, Change
<1>5. review'.at = "ask" /\ review'.key = {k} /\ Keeps({"at", "key"}) /\ DOMAIN review' = DOMAIN NoReview
  <2>1. review' = [review EXCEPT !.at = "ask", !.key = {k}] /\ {"at", "key"} \subseteq DOMAIN NoReview
    BY DEF CardEdit, NoReview
  <2> QED BY <2>1 DEF Keeps
<1>6. /\ review'.triage = review.triage /\ review'.route = review.route /\ review'.total = review.total
      /\ review'.snap = review.snap /\ review'.todo = review.todo /\ review'.batch = review.batch
      /\ review'.rest = review.rest /\ review'.again = review.again /\ review'.picked = review.picked
  BY <1>5 DEF Keeps, NoReview
<1>7. /\ review'.left = review.left /\ review'.fate = review.fate
      /\ review'.confirmed = review.confirmed /\ review'.deleted = review.deleted /\ review'.skipped = review.skipped
  BY <1>5 DEF Keeps, NoReview
<1>8. ReviewTypes' /\ Reviewed' = Reviewed
  BY <1>1, <1>5, <1>6, <1>7 DEF ReviewTypes, Reviewed
<1>9. ASSUME ~review.again PROVE Table' /\ Groups' /\ Figures' /\ (~others' => Alone')
  <2>1. Table /\ Groups /\ Figures /\ (~others => Alone) /\ review.fate[k] = "open"
    BY <1>1, <1>9 DEF ReviewInv, Table
  <2>2. Table'
    BY <2>1, <1>1, <1>5, <1>6, <1>7 DEF Table
  <2>3. Groups'
    BY <2>1, <1>1, <1>5, <1>6, <1>7, <1>8 DEF Groups
  <2>4. Figures'
    BY <2>1, <1>6, <1>7, <1>8 DEF Figures, OfFate
  <2>5. ASSUME Alone PROVE Alone'
    <3>1. /\ Mine \in Stores /\ TrueOf(Mine, k, "open", review.sound, review.snap[k].files)
          /\ Mine.gotcha[k].files = review.snap[k].files
      BY <2>1, <2>5, <1>1, OpenActive
    <3>2. PICK w \in Stores : w = Mine
      BY <3>1
    <3>3. PICK files : files = review.snap[k].files
      OBVIOUS
    <3>4. card = CardOf(w, k, rule, files)
      BY <1>2, <3>2, <3>3 DEF EditedCard, CardOf
    <3>5. card \in Recs
      <4>1. PICK x : x = w.gotcha[k]
        OBVIOUS
      <4>2. x \in Recs /\ x.files = files
        BY <3>1, <3>2, <3>3, <4>1 DEF Stores
      <4> QED BY ONLY <4>1, <4>2, <3>4, rule \in Rules, EditedCardIs DEF CardOf
    <3>6. v \in Stores /\ OthersSame(v, w, k) /\ TrueOf(v, k, "open", review.sound, review.snap[k].files)
      <4>1. TrueOf(w, k, "open", review.sound, files) /\ v = PutRoute(review.route, w, k, card)
        BY <1>3, <3>1, <3>2, <3>3
      <4>2. k \in GKeys /\ review.route \in Routes
        BY <1>1
      <4>3. v \in Stores /\ OthersSame(v, w, k) /\ TrueOf(v, k, "open", review.sound, files)
        BY ONLY <4>1, <4>2, <3>2, <3>4, <3>5, EditDoes
      <4> QED BY <4>3, <3>3
    <3>7. /\ Keeps(DOMAIN NoReview \ {"route", "snap", "sound"}) /\ review'.at # "aborted" /\ "open" \in Fates
          /\ \A h \in Reviewed : review'.fate[h] = IF h \in {k} THEN "open" ELSE review.fate[h]
      BY <1>5, <1>7, <2>1 DEF Keeps, Fates, NoReview
    <3> QED BY <1>1, <1>4, <1>8, <2>1, <2>5, <3>2, <3>6, <3>7, ActAlone
  <2> QED BY <2>1, <2>2, <2>3, <2>4, <2>5, <1>4
<1>10. ReviewInv'
  BY <1>6, <1>8, <1>9 DEF ReviewInv
<1> QED BY <1>4, <1>5, <1>6, <1>10 DEF StaysPut

LEMMA EditAnswerStep ==
  ASSUME DOMAIN review = DOMAIN NoReview, review.total # 0, ReviewInv, NEW k \in GKeys, NEW yes, EditAnswer(k, yes)
  PROVE  ReviewInv' /\ StaysPut
<1>1. ReviewTypes /\ k \in Reviewed /\ k \in review.key /\ review.at = "ask"
  BY DEF ReviewInv, ReviewTypes, EditAnswer
<1>2. ~review.again => k \in review.left /\ review.fate[k] = "open" /\ (~others => Alone)
  BY <1>1 DEF ReviewInv, Table
<1>3. CASE yes /\ CanConfirm(Mine, k)
  <2>1. Change(ConfirmRoute(review.route, Mine, k)) /\ review' = [Acted(k, "confirmed") EXCEPT !.confirmed = @ + 1]
    BY <1>3 DEF EditAnswer
  <2> QED BY <2>1, <1>1, <1>2, <1>3, ConfirmCard
<1>4. CASE yes /\ ~CanConfirm(Mine, k)
  <2>1. Abort /\ others' = others /\ apart' = apart
    BY <1>4 DEF EditAnswer, NoChange
  <2>2. ~review.again => others
    BY <1>1, <1>2, <1>4, OpenActive
  <2>3. ReviewInv' /\ Keeps({"at"})
    BY <2>1, <2>2, <1>1, AbortStep
  <2>4. review'.total = review.total /\ DOMAIN review' = DOMAIN NoReview
    BY <2>1, <2>3 DEF Abort, Keeps, NoReview
  <2> QED BY <2>1, <2>3, <2>4 DEF StaysPut
<1>5. CASE ~yes
  <2>1. /\ ActedWith(k, "edited") /\ "edited" \in Fates \ {"open", "failed"}
        /\ world' = world /\ others' = others /\ apart' = apart
    BY <1>1, <1>5, ActedFields DEF Fates, EditAnswer, NoChange
  <2>2. ASSUME Alone, review.fate[k] = "open" PROVE Alone'
    <3>1. {k} \in SUBSET Reviewed /\ \A h \in {k} : review.fate[h] = "open"
      BY <1>1, <2>2
    <3> QED BY <3>1, <1>1, <2>1, <2>2, ActedWithFate, WaitOn
  <2>3. ReviewInv'
    BY <1>1, <1>2, <2>1, <2>2, CardStep DEF ActedWith
  <2>4. review'.total = review.total
    BY <2>1 DEF ActedWith, Keeps, NoReview
  <2> QED BY <2>1, <2>3, <2>4 DEF ActedWith, StaysPut
<1> QED BY <1>3, <1>4, <1>5

\* A step that leaves several candidates to another session.
LEMMA SkipAll ==
  ASSUME ReviewTypes, NEW S \in SUBSET Reviewed, \A k \in S : review.fate[k] = "open",
         review'.fate = Fated(S, "skipped")
  PROVE  /\ Cardinality(OfFate({"confirmed", "failed"})') = Cardinality(OfFate({"confirmed", "failed"}))
         /\ Cardinality(OfFate({"deleted"})') = Cardinality(OfFate({"deleted"}))
         /\ Cardinality(OfFate({"skipped"})') = Cardinality(OfFate({"skipped"})) + Cardinality(S)
         /\ Cardinality(OfFate({"confirmed", "failed"})) \in Nat /\ Cardinality(S) \in Nat
<1>1. "skipped" \in Fates \ {"open"}
  BY DEF Fates
<1>2. ASSUME NEW g, "open" \notin g
      PROVE  /\ Cardinality(OfFate(g)') = Cardinality(OfFate(g)) + (IF "skipped" \in g THEN Cardinality(S) ELSE 0)
             /\ Cardinality(OfFate(g)) \in Nat /\ Cardinality(S) \in Nat
  BY <1>1, <1>2, TallyStep
<1>3. /\ Cardinality(OfFate({"confirmed", "failed"})') = Cardinality(OfFate({"confirmed", "failed"})) + 0
      /\ Cardinality(OfFate({"confirmed", "failed"})) \in Nat /\ Cardinality(S) \in Nat
  BY <1>1, <1>2
<1>4. /\ Cardinality(OfFate({"deleted"})') = Cardinality(OfFate({"deleted"})) + 0
      /\ Cardinality(OfFate({"deleted"})) \in Nat
  BY <1>1, <1>2
<1>5. Cardinality(OfFate({"skipped"})') = Cardinality(OfFate({"skipped"})) + Cardinality(S)
  BY <1>1, <1>2
<1> QED BY <1>3, <1>4, <1>5

LEMMA SkippedFate ==
  ASSUME ReviewTypes, NEW S \in SUBSET Reviewed, review'.fate = Fated(S, "skipped")
  PROVE  /\ Reviewed' = Reviewed /\ review'.fate \in [Reviewed -> Fates]
         /\ \A k \in Reviewed : review'.fate[k] = IF k \in S THEN "skipped" ELSE review.fate[k]
         /\ IsFiniteSet(S) /\ Cardinality(S) \in Nat
<1>1. "skipped" \in Fates \ {"open"}
  BY DEF Fates
<1> QED BY <1>1, FateStep, FS_CardinalityType

LEMMA CardQuitStep ==
  ASSUME DOMAIN review = DOMAIN NoReview, review.total # 0, ReviewInv, CardQuit
  PROVE  ReviewInv' /\ StaysPut
<1>1. ReviewTypes /\ review.at = "list" /\ review.left \in SUBSET Reviewed
  BY DEF ReviewInv, ReviewTypes, CardQuit
<1>2. /\ DOMAIN review' = DOMAIN NoReview /\ Keeps({"at", "left", "skipped", "fate"})
      /\ review'.at = (IF review.triage THEN "groups" ELSE "off") /\ review'.left = {}
      /\ review'.skipped = review.skipped + Cardinality(review.left)
      /\ review'.fate = Fated(review.left, "skipped")
  <2>1. {"at", "left", "skipped", "fate"} \subseteq DOMAIN NoReview
    BY DEF NoReview
  <2> QED BY <2>1 DEF CardQuit, Keeps
<1>3. world' = world /\ others' = others /\ apart' = apart
  BY DEF CardQuit, NoChange
<1>4. /\ review'.triage = review.triage /\ review'.route = review.route /\ review'.total = review.total
      /\ review'.snap = review.snap /\ review'.todo = review.todo /\ review'.batch = review.batch
      /\ review'.rest = review.rest /\ review'.again = review.again /\ review'.picked = review.picked
      /\ review'.key = review.key /\ review'.confirmed = review.confirmed /\ review'.deleted = review.deleted
  BY <1>2 DEF Keeps, NoReview
<1>5. /\ Reviewed' = Reviewed /\ review'.fate \in [Reviewed -> Fates] /\ Cardinality(review.left) \in Nat
      /\ \A k \in Reviewed : review'.fate[k] = IF k \in review.left THEN "skipped" ELSE review.fate[k]
  BY <1>1, <1>2, SkippedFate
<1>6. ReviewTypes'
  <2>1. review'.skipped \in Nat
    BY <1>1, <1>2, <1>5 DEF ReviewTypes
  <2> QED BY <1>1, <1>2, <1>4, <1>5, <2>1 DEF ReviewTypes
<1>7. ASSUME ~review.again PROVE Table' /\ Groups' /\ Figures' /\ (~others' => Alone')
  <2>1. Table /\ Groups /\ Figures /\ (~others => Alone) /\ \A k \in review.left : review.fate[k] = "open"
    BY <1>7 DEF ReviewInv, Table
  <2>2. review.batch = {} /\ review.rest = {} /\ review.todo = {} /\ review.key = {}
    BY <2>1, <1>1 DEF Table
  <2>3. Table'
    BY ONLY <1>1, <1>2, <1>4, <1>5, <2>2 DEF Table
  <2>4. Groups'
    BY ONLY <1>2, <1>4, <1>5, <2>1, <2>2 DEF Groups
  <2>5. Figures'
    <3>1. review'.batch \ review'.todo = review.batch \ review.todo
      BY <1>4
    <3> QED BY ONLY <3>1, <1>1, <1>2, <1>4, <2>1, SkipAll DEF Figures
  <2>6. ASSUME Alone PROVE Alone'
    <3>1. review'.at # "aborted" /\ Keeps(DOMAIN NoReview \ {"route", "snap", "sound"})
      BY <1>2 DEF Keeps, NoReview
    <3> QED BY <3>1, <1>1, <1>3, <1>5, <2>1, <2>6, WaitOn
  <2> QED BY <2>1, <2>3, <2>4, <2>5, <2>6, <1>3
<1> QED BY <1>2, <1>3, <1>4, <1>6, <1>7 DEF ReviewInv, StaysPut

\* The group picked: its candidates wait, if it was not picked before.
LEMMA GroupIs ==
  ASSUME ReviewTypes, NEW kind
  PROVE  /\ Group(kind) \in SUBSET Reviewed /\ \A k \in Group(kind) : KindOf[k] = kind
         /\ Groups /\ review.triage /\ kind \notin review.picked => \A k \in Group(kind) : review.fate[k] = "open"
<1>1. Group(kind) \in SUBSET Reviewed /\ \A k \in Group(kind) : KindOf[k] = kind
  BY DEF Group, ReviewTypes
<1> QED BY <1>1 DEF Groups

PickedOn(r, kind) ==
    /\ DOMAIN r = DOMAIN NoReview /\ \A x \in DOMAIN NoReview \ {"picks", "picked", "again"} : r[x] = review[x]
    /\ r.picked = review.picked \cup {kind} /\ r.again = (review.again \/ kind \in review.picked)
LEMMA PickedIs ==
  ASSUME DOMAIN review = DOMAIN NoReview, NEW kind
  PROVE  PickedOn(Picked(kind), kind)
<1>1. {"picks", "picked", "again"} \subseteq DOMAIN NoReview
  BY DEF NoReview
<1> QED BY <1>1 DEF Picked, PickedOn

\* What is open once a group that was not picked before is picked.
LEMMA FirstPick ==
  ASSUME ReviewInv, review.total # 0, review.at = "groups", NEW kind, NEW again,
         again = (review.again \/ kind \in review.picked), ~again
  PROVE  /\ ~review.again /\ Table /\ Groups /\ Figures /\ (~others => Alone) /\ review.triage
         /\ \A k \in Group(kind) : review.fate[k] = "open"
         /\ review.left = {} /\ review.key = {} /\ review.batch = {} /\ review.rest = {} /\ review.todo = {}
<1>1. ReviewTypes /\ ~review.again /\ kind \notin review.picked
  BY DEF ReviewInv
<1>2. Table /\ Groups /\ Figures /\ (~others => Alone) /\ review.triage
  BY <1>1 DEF ReviewInv, Groups
<1>3. \A k \in Group(kind) : review.fate[k] = "open"
  BY <1>1, <1>2, GroupIs
<1>4. review.left = {} /\ review.key = {} /\ review.batch = {} /\ review.rest = {} /\ review.todo = {}
  BY <1>2 DEF Table
<1> QED BY <1>1, <1>2, <1>3, <1>4

LEMMA GroupEachStep ==
  ASSUME DOMAIN review = DOMAIN NoReview, review.total # 0, ReviewInv, NEW kind, GroupEach(kind)
  PROVE  ReviewInv' /\ StaysPut
<1>1. ReviewTypes /\ review.at = "groups" /\ world' = world /\ others' = others /\ apart' = apart
  BY DEF ReviewInv, GroupEach, Pick, NoChange
<1>2. PICK S \in SUBSET Reviewed : S = Group(kind) /\ \A k \in S : KindOf[k] = kind
  BY <1>1, GroupIs
<1>3. /\ DOMAIN review' = DOMAIN NoReview /\ Keeps({"picks", "picked", "again", "at", "left"})
      /\ review'.picked = review.picked \cup {kind} /\ review'.again = (review.again \/ kind \in review.picked)
      /\ review'.at = "list" /\ review'.left = S
  <2>1. PICK r : r = Picked(kind)
    OBVIOUS
  <2>2. PickedOn(r, kind)
    BY <2>1, PickedIs
  <2>3. review' = [r EXCEPT !.at = "list", !.left = S] /\ {"picks", "picked", "again", "at", "left"} \subseteq DOMAIN NoReview
    BY <2>1, <1>2 DEF GroupEach, NoReview
  <2> QED BY ONLY <2>2, <2>3 DEF PickedOn, Keeps
<1>4. /\ review'.triage = review.triage /\ review'.route = review.route /\ review'.total = review.total
      /\ review'.snap = review.snap /\ review'.todo = review.todo /\ review'.batch = review.batch
      /\ review'.rest = review.rest /\ review'.key = review.key /\ review'.confirmed = review.confirmed
      /\ review'.deleted = review.deleted /\ review'.skipped = review.skipped /\ review'.fate = review.fate
      /\ review'.sound = review.sound
  BY <1>3 DEF Keeps, NoReview
<1>5. ReviewTypes' /\ Reviewed' = Reviewed
  BY <1>1, <1>3, <1>4 DEF ReviewTypes, Reviewed
<1>6. ASSUME ~review'.again PROVE Table' /\ Groups' /\ Figures' /\ (~others' => Alone')
  <2>1. /\ ~review.again /\ Table /\ Groups /\ Figures /\ (~others => Alone) /\ review.triage
        /\ \A k \in S : review.fate[k] = "open"
        /\ review.left = {} /\ review.key = {} /\ review.batch = {} /\ review.rest = {} /\ review.todo = {}
    BY <1>1, <1>2, <1>3, <1>6, FirstPick
  <2>2. Table'
    BY ONLY <1>3, <1>4, <2>1 DEF Table
  <2>3. Groups'
    BY ONLY <1>2, <1>3, <1>4, <1>5, <2>1 DEF Groups
  <2>4. Figures'
    BY ONLY <1>4, <1>5, <2>1 DEF Figures, OfFate
  <2>5. ASSUME Alone PROVE Alone'
    BY ONLY <1>1, <1>3, <1>4, <1>5, <2>5 DEF Alone, Mine
  <2> QED BY <2>1, <2>2, <2>3, <2>4, <2>5, <1>1
<1> QED BY <1>1, <1>3, <1>4, <1>5, <1>6 DEF ReviewInv, StaysPut

LEMMA GroupSkipStep ==
  ASSUME DOMAIN review = DOMAIN NoReview, review.total # 0, ReviewInv, NEW kind, GroupSkip(kind)
  PROVE  ReviewInv' /\ StaysPut
<1>1. ReviewTypes /\ review.at = "groups" /\ world' = world /\ others' = others /\ apart' = apart
  BY DEF ReviewInv, GroupSkip, Pick, NoChange
<1>2. PICK S \in SUBSET Reviewed : S = Group(kind) /\ \A k \in S : KindOf[k] = kind
  BY <1>1, GroupIs
<1>3. /\ DOMAIN review' = DOMAIN NoReview /\ Keeps({"picks", "picked", "again", "skipped", "fate"})
      /\ review'.picked = review.picked \cup {kind} /\ review'.again = (review.again \/ kind \in review.picked)
      /\ review'.skipped = review.skipped + Cardinality(S) /\ review'.fate = Fated(S, "skipped")
  <2>1. PICK r : r = Picked(kind)
    OBVIOUS
  <2>2. PickedOn(r, kind)
    BY <2>1, PickedIs
  <2>3. PICK fate : fate = Fated(S, "skipped")
    OBVIOUS
  <2>4. PICK n : n = r.skipped + Cardinality(S)
    OBVIOUS
  <2>5. review' = [r EXCEPT !.skipped = n, !.fate = fate] /\ {"picks", "picked", "again", "skipped", "fate"} \subseteq DOMAIN NoReview
    BY <2>1, <2>3, <2>4, <1>2 DEF GroupSkip, NoReview
  <2>6. r.skipped = review.skipped
    BY <2>2, <2>5 DEF PickedOn, NoReview
  <2>7. /\ DOMAIN review' = DOMAIN NoReview /\ Keeps({"picks", "picked", "again", "skipped", "fate"})
        /\ review'.picked = review.picked \cup {kind} /\ review'.again = (review.again \/ kind \in review.picked)
        /\ review'.skipped = n /\ review'.fate = fate
    BY ONLY <2>2, <2>5 DEF PickedOn, Keeps
  <2> QED BY <2>3, <2>4, <2>6, <2>7
<1>4. /\ review'.triage = review.triage /\ review'.route = review.route /\ review'.total = review.total
      /\ review'.snap = review.snap /\ review'.todo = review.todo /\ review'.batch = review.batch
      /\ review'.rest = review.rest /\ review'.key = review.key /\ review'.confirmed = review.confirmed
      /\ review'.deleted = review.deleted /\ review'.left = review.left /\ review'.at = review.at
  BY <1>3 DEF Keeps, NoReview
<1>5. /\ Reviewed' = Reviewed /\ review'.fate \in [Reviewed -> Fates] /\ Cardinality(S) \in Nat
      /\ \A k \in Reviewed : review'.fate[k] = IF k \in S THEN "skipped" ELSE review.fate[k]
  BY <1>1, <1>3, SkippedFate
<1>6. ReviewTypes'
  <2>1. review'.skipped \in Nat /\ review'.again \in BOOLEAN
    BY <1>1, <1>3, <1>5 DEF ReviewTypes
  <2> QED BY <1>1, <1>4, <1>5, <2>1 DEF ReviewTypes
<1>7. ASSUME ~review'.again PROVE Table' /\ Groups' /\ Figures' /\ (~others' => Alone')
  <2>1. /\ ~review.again /\ Table /\ Groups /\ Figures /\ (~others => Alone) /\ review.triage
        /\ \A k \in S : review.fate[k] = "open"
        /\ review.left = {} /\ review.key = {} /\ review.batch = {} /\ review.rest = {} /\ review.todo = {}
    BY <1>1, <1>2, <1>3, <1>7, FirstPick
  <2>2. Table'
    BY ONLY <1>1, <1>4, <2>1 DEF Table
  <2>3. Groups'
    BY ONLY <1>2, <1>3, <1>4, <1>5, <2>1 DEF Groups
  <2>4. Figures'
    <3>1. review'.batch \ review'.todo = review.batch \ review.todo
      BY <1>4
    <3> QED BY ONLY <3>1, <1>1, <1>3, <1>4, <2>1, SkipAll DEF Figures
  <2>5. ASSUME Alone PROVE Alone'
    <3>1. review'.at # "aborted" /\ Keeps(DOMAIN NoReview \ {"route", "snap", "sound"})
      BY <1>1, <1>3, <1>4 DEF Keeps, NoReview
    <3> QED BY <3>1, <1>1, <1>5, <2>1, <2>5, WaitOn
  <2> QED BY <2>1, <2>2, <2>3, <2>4, <2>5, <1>1
<1> QED BY <1>1, <1>3, <1>4, <1>6, <1>7 DEF ReviewInv, StaysPut

LEMMA GroupAcceptStep ==
  ASSUME DOMAIN review = DOMAIN NoReview, review.total # 0, ReviewInv, NEW kind, NEW chosen, GroupAccept(kind, chosen)
  PROVE  ReviewInv' /\ StaysPut
<1>1. ReviewTypes /\ review.at = "groups" /\ world' = world /\ others' = others /\ apart' = apart
  BY DEF ReviewInv, GroupAccept, Pick, NoChange
<1>2. PICK S \in SUBSET Reviewed : S = Group(kind) /\ (\A k \in S : KindOf[k] = kind) /\ chosen \in SUBSET S
  BY <1>1, GroupIs DEF GroupAccept
<1>3. /\ DOMAIN review' = DOMAIN NoReview /\ Keeps({"picks", "picked", "again", "at", "todo", "batch", "rest"})
      /\ review'.picked = review.picked \cup {kind} /\ review'.again = (review.again \/ kind \in review.picked)
      /\ review'.at = "all" /\ review'.todo = chosen /\ review'.batch = chosen /\ review'.rest = S \ chosen
  <2>1. PICK r : r = Picked(kind)
    OBVIOUS
  <2>2. PickedOn(r, kind)
    BY <2>1, PickedIs
  <2>3. /\ review' = [r EXCEPT !.at = "all", !.todo = chosen, !.batch = chosen, !.rest = S \ chosen]
        /\ {"picks", "picked", "again", "at", "todo", "batch", "rest"} \subseteq DOMAIN NoReview
    BY <2>1, <1>2 DEF GroupAccept, NoReview
  <2> QED BY ONLY <2>2, <2>3 DEF PickedOn, Keeps
<1>4. /\ review'.triage = review.triage /\ review'.route = review.route /\ review'.total = review.total
      /\ review'.snap = review.snap /\ review'.left = review.left /\ review'.key = review.key
      /\ review'.confirmed = review.confirmed /\ review'.deleted = review.deleted
      /\ review'.skipped = review.skipped /\ review'.fate = review.fate /\ review'.sound = review.sound
  BY <1>3 DEF Keeps, NoReview
<1>5. ReviewTypes' /\ Reviewed' = Reviewed
  BY <1>1, <1>2, <1>3, <1>4 DEF ReviewTypes, Reviewed
<1>6. ASSUME ~review'.again PROVE Table' /\ Groups' /\ Figures' /\ (~others' => Alone')
  <2>1. /\ ~review.again /\ Table /\ Groups /\ Figures /\ (~others => Alone) /\ review.triage
        /\ \A k \in S : review.fate[k] = "open"
        /\ review.left = {} /\ review.key = {} /\ review.batch = {} /\ review.rest = {} /\ review.todo = {}
    BY <1>1, <1>2, <1>3, <1>6, FirstPick
  <2>2. Table'
    BY ONLY <1>2, <1>3, <1>4, <2>1 DEF Table
  <2>3. Groups'
    BY ONLY <1>2, <1>3, <1>4, <1>5, <2>1 DEF Groups
  <2>4. Figures'
    <3>1. review'.batch \ review'.todo = review.batch \ review.todo
      BY <1>3, <2>1
    <3> QED BY ONLY <3>1, <1>4, <1>5, <2>1 DEF Figures, OfFate
  <2>5. ASSUME Alone PROVE Alone'
    BY ONLY <1>1, <1>3, <1>4, <1>5, <2>5 DEF Alone, Mine
  <2> QED BY <2>1, <2>2, <2>3, <2>4, <2>5, <1>1
<1> QED BY <1>1, <1>3, <1>4, <1>5, <1>6 DEF ReviewInv, StaysPut

\* One gotcha of a batch. It is still there if nobody else writes.
LEMMA AcceptOneStep ==
  ASSUME DOMAIN review = DOMAIN NoReview, review.total # 0, ReviewInv, NEW k \in GKeys, AcceptOne(k)
  PROVE  ReviewInv' /\ StaysPut
<1>1. ReviewTypes /\ review.at = "all" /\ k \in review.todo /\ k \in Reviewed /\ review.route \in Routes
  BY DEF ReviewInv, ReviewTypes, AcceptOne
<1>0. PICK f \in {"confirmed", "failed"} : f = IF CanConfirm(Mine, k) THEN "confirmed" ELSE "failed"
  OBVIOUS
<1>2. /\ DOMAIN review' = DOMAIN NoReview /\ Keeps({"todo", "fate"})
      /\ review'.todo = review.todo \ {k} /\ review'.fate = Fated({k}, f)
  <2>1. {"todo", "fate"} \subseteq DOMAIN NoReview
    BY DEF NoReview
  <2>2. review' = [review EXCEPT !.todo = @ \ {k}, !.fate = Fated({k}, f)]
    BY <1>0 DEF AcceptOne
  <2> QED BY <2>1, <2>2 DEF Keeps
<1>3. others' = others /\ apart' = apart
  BY DEF AcceptOne, Change, NoChange
<1>4. /\ review'.triage = review.triage /\ review'.route = review.route /\ review'.total = review.total
      /\ review'.snap = review.snap /\ review'.left = review.left /\ review'.batch = review.batch
      /\ review'.rest = review.rest /\ review'.again = review.again /\ review'.picked = review.picked
      /\ review'.key = review.key /\ review'.confirmed = review.confirmed /\ review'.deleted = review.deleted
      /\ review'.skipped = review.skipped /\ review'.at = review.at
  BY <1>2 DEF Keeps, NoReview
<1>5. {k} \in SUBSET Reviewed /\ f \in Fates \ {"open"}
  BY <1>1 DEF Fates
<1>6. /\ Reviewed' = Reviewed /\ review'.fate \in [Reviewed -> Fates] /\ IsFiniteSet(Reviewed)
      /\ \A h \in Reviewed : review'.fate[h] = IF h \in {k} THEN f ELSE review.fate[h]
  BY <1>1, <1>2, <1>5, FateStep
<1>7. ReviewTypes'
  BY <1>1, <1>2, <1>4, <1>6 DEF ReviewTypes
<1>8. ASSUME ~review.again PROVE Table' /\ Groups' /\ Figures' /\ (~others' => Alone')
  <2>1. Table /\ Groups /\ Figures /\ (~others => Alone) /\ review.fate[k] = "open"
    BY <1>1, <1>8 DEF ReviewInv, Table
  <2>2. review.left = {} /\ review.key = {} /\ k \in review.batch /\ k \notin review.rest
    BY <2>1, <1>1 DEF Table
  <2>3. Table'
    <3>1. \A h \in review'.left \cup review'.todo \cup review'.rest : review'.fate[h] = "open"
      BY <1>1, <1>2, <1>4, <1>6, <2>1, <2>2 DEF Table, ReviewTypes
    <3>2. ASSUME NEW h \in review'.batch \ review'.todo PROVE review'.fate[h] \in {"confirmed", "failed"}
      <4>1. h \in review.batch /\ (h = k \/ h \notin review.todo)
        BY <3>2, <1>2, <1>4
      <4>2. h \in Reviewed /\ (h = k \/ review.fate[h] \in {"confirmed", "failed"})
        BY <4>1, <2>1, <1>1 DEF Table, ReviewTypes
      <4> QED BY <4>2, <1>6
    <3> QED BY ONLY <3>1, <3>2, <1>1, <1>2, <1>4, <2>1, <2>2 DEF Table
  <2>4. Groups'
    <3>1. review.triage /\ KindOf[k] \in review.picked
      BY <2>1, <2>2, <1>1 DEF Groups
    <3> QED BY ONLY <3>1, <1>4, <1>6, <2>1 DEF Groups
  <2>5. Figures'
    <3>1. review.fate[k] = "open"
      BY <2>1
    <3>3. ASSUME NEW g, "open" \notin g
          PROVE  Cardinality(OfFate(g)') = Cardinality(OfFate(g)) + (IF f \in g THEN 1 ELSE 0)
      BY ONLY <1>1, <1>2, <1>5, <3>1, <3>3, TallyOne
    <3>4. /\ Cardinality(OfFate({"confirmed", "failed"})') = Cardinality(OfFate({"confirmed", "failed"})) + 1
          /\ Cardinality(OfFate({"deleted"})') = Cardinality(OfFate({"deleted"})) + 0
          /\ Cardinality(OfFate({"skipped"})') = Cardinality(OfFate({"skipped"})) + 0
      <4>1. f \in {"confirmed", "failed"} /\ f \notin {"deleted"} /\ f \notin {"skipped"}
        BY ONLY <1>0
      <4> QED BY ONLY <3>3, <4>1
    <3>5. Cardinality(review'.batch \ review'.todo) = Cardinality(review.batch \ review.todo) + 1
          /\ Cardinality(review.batch \ review.todo) \in Nat
      <4>1. review'.batch \ review'.todo = (review.batch \ review.todo) \cup {k}
        BY <1>1, <1>2, <1>4, <2>2
      <4>2. IsFiniteSet(review.batch \ review.todo) /\ k \notin review.batch \ review.todo
        BY <1>1, <1>6, FS_Subset DEF ReviewTypes
      <4> QED BY <4>1, <4>2, FS_AddElement, FS_CardinalityType
    <3>6. /\ review.confirmed \in Nat /\ review.deleted \in Nat /\ review.skipped \in Nat
      BY <1>1 DEF ReviewTypes
    <3> QED BY ONLY <3>4, <3>5, <3>6, <1>4, <2>1 DEF Figures
  <2>6. ASSUME Alone PROVE Alone'
    <3>1. PICK v : v = ConfirmRoute(review.route, Mine, k)
      OBVIOUS
    <3>2. k \in GKeys /\ Mine \in Stores /\ IsActive(Mine, k) /\ CanConfirm(Mine, k) /\ (review.sound => InPlace(Mine, k))
      BY <1>1, <2>1, <2>6, OpenActive
    <3>3. v \in Stores /\ OthersSame(v, Mine, k) /\ TrueOf(v, k, "confirmed", review.sound, review.snap[k].files)
      BY <1>1, <3>1, <3>2, ConfirmDoes
    <3>4. Change(v) /\ f = "confirmed"
      BY <1>0, <3>1, <3>2 DEF AcceptOne
    <3>5. review'.at # "aborted" /\ Keeps(DOMAIN NoReview \ {"route", "snap", "sound"})
      BY <1>1, <1>2, <1>4 DEF Keeps, NoReview
    <3> QED BY <1>1, <1>5, <1>6, <2>1, <2>6, <3>3, <3>4, <3>5, ActAlone
  <2> QED BY <2>1, <2>3, <2>4, <2>5, <2>6, <1>3
<1> QED BY <1>2, <1>3, <1>4, <1>7, <1>8 DEF ReviewInv, StaysPut

LEMMA AcceptDoneStep ==
  ASSUME DOMAIN review = DOMAIN NoReview, review.total # 0, ReviewInv, AcceptDone
  PROVE  ReviewInv' /\ StaysPut
<1>1. /\ ReviewTypes /\ review.at = "all" /\ review.todo = {}
      /\ world' = world /\ others' = others /\ apart' = apart
      /\ review.rest \in SUBSET Reviewed /\ review.batch \in SUBSET Reviewed
  BY DEF ReviewInv, ReviewTypes, AcceptDone, NoChange
<1>2. /\ DOMAIN review' = DOMAIN NoReview /\ Keeps({"at", "batch", "rest", "confirmed", "skipped", "fate"})
      /\ review'.at = "groups" /\ review'.batch = {} /\ review'.rest = {}
      /\ review'.confirmed = review.confirmed + Cardinality(review.batch)
      /\ review'.skipped = review.skipped + Cardinality(review.rest)
      /\ review'.fate = Fated(review.rest, "skipped")
  <2>1. {"at", "batch", "rest", "confirmed", "skipped", "fate"} \subseteq DOMAIN NoReview
    BY DEF NoReview
  <2> QED BY <2>1 DEF AcceptDone, Keeps
<1>3. /\ review'.triage = review.triage /\ review'.route = review.route /\ review'.total = review.total
      /\ review'.snap = review.snap /\ review'.left = review.left /\ review'.todo = review.todo
      /\ review'.again = review.again /\ review'.picked = review.picked
      /\ review'.key = review.key /\ review'.deleted = review.deleted
  BY <1>2 DEF Keeps, NoReview
<1>4. /\ Reviewed' = Reviewed /\ review'.fate \in [Reviewed -> Fates] /\ Cardinality(review.rest) \in Nat
      /\ \A k \in Reviewed : review'.fate[k] = IF k \in review.rest THEN "skipped" ELSE review.fate[k]
  BY <1>1, <1>2, SkippedFate
<1>5. IsFiniteSet(review.batch) /\ Cardinality(review.batch) \in Nat
  <2>1. IsFiniteSet(Reviewed)
    BY <1>1, GKeysFinite, FS_Subset DEF ReviewTypes
  <2> QED BY <2>1, <1>1, FS_Subset, FS_CardinalityType
<1>6. ReviewTypes'
  <2>1. review'.confirmed \in Nat /\ review'.skipped \in Nat
    BY <1>1, <1>2, <1>4, <1>5 DEF ReviewTypes
  <2> QED BY <1>1, <1>2, <1>3, <1>4, <2>1 DEF ReviewTypes
<1>7. ASSUME ~review.again PROVE Table' /\ Groups' /\ Figures' /\ (~others' => Alone')
  <2>1. Table /\ Groups /\ Figures /\ (~others => Alone) /\ \A k \in review.rest : review.fate[k] = "open"
    BY <1>7 DEF ReviewInv, Table
  <2>2. review.left = {} /\ review.key = {}
    BY <2>1, <1>1 DEF Table
  <2>3. Table'
    BY ONLY <1>1, <1>2, <1>3, <2>2 DEF Table
  <2>4. Groups'
    BY ONLY <1>1, <1>2, <1>3, <1>4, <2>1, <2>2 DEF Groups
  <2>5. Figures'
    <3>1. Cardinality(review'.batch \ review'.todo) = 0 /\ review.batch \ review.todo = review.batch
      BY <1>1, <1>2, FS_EmptySet
    <3>2. review.confirmed \in Nat
      BY <1>1 DEF ReviewTypes
    <3>3. review.confirmed + Cardinality(review.batch) = Cardinality(OfFate({"confirmed", "failed"}))
      BY ONLY <2>1, <3>1 DEF Figures
    <3>4. /\ Cardinality(OfFate({"confirmed", "failed"})') = Cardinality(OfFate({"confirmed", "failed"}))
          /\ Cardinality(OfFate({"deleted"})') = Cardinality(OfFate({"deleted"}))
          /\ Cardinality(OfFate({"skipped"})') = Cardinality(OfFate({"skipped"})) + Cardinality(review.rest)
      BY ONLY <1>1, <1>2, <2>1, SkipAll
    <3>5. review'.confirmed + 0 = Cardinality(OfFate({"confirmed", "failed"})')
      BY ONLY <1>2, <1>5, <3>2, <3>3, <3>4
    <3> QED BY ONLY <3>1, <3>4, <3>5, <1>2, <1>3, <2>1 DEF Figures
  <2>6. ASSUME Alone PROVE Alone'
    <3>1. review'.at # "aborted" /\ Keeps(DOMAIN NoReview \ {"route", "snap", "sound"})
      BY <1>2 DEF Keeps, NoReview
    <3> QED BY <3>1, <1>1, <1>4, <2>1, <2>6, WaitOn
  <2> QED BY <2>1, <2>3, <2>4, <2>5, <2>6, <1>1
<1> QED BY <1>1, <1>2, <1>3, <1>6, <1>7 DEF ReviewInv, StaysPut

LEMMA TriageQuitStep ==
  ASSUME DOMAIN review = DOMAIN NoReview, review.total # 0, ReviewInv, TriageQuit
  PROVE  ReviewInv' /\ StaysPut
<1>1. /\ ReviewTypes /\ review.at = "groups" /\ world' = world /\ others' = others /\ apart' = apart
  BY DEF ReviewInv, TriageQuit, NoChange
<1>2. DOMAIN review' = DOMAIN NoReview /\ Keeps({"at"}) /\ review'.at = "off"
  <2>1. "at" \in DOMAIN NoReview
    BY DEF NoReview
  <2> QED BY <2>1 DEF TriageQuit, Keeps
<1>3. /\ review'.triage = review.triage /\ review'.route = review.route /\ review'.total = review.total
      /\ review'.snap = review.snap /\ review'.left = review.left /\ review'.todo = review.todo
      /\ review'.batch = review.batch /\ review'.rest = review.rest /\ review'.fate = review.fate
      /\ review'.again = review.again /\ review'.picked = review.picked /\ review'.sound = review.sound
      /\ review'.key = review.key /\ review'.confirmed = review.confirmed /\ review'.deleted = review.deleted
      /\ review'.skipped = review.skipped
  BY <1>2 DEF Keeps, NoReview
<1>4. ReviewTypes' /\ Reviewed' = Reviewed
  BY <1>1, <1>2, <1>3 DEF ReviewTypes, Reviewed
<1>5. ASSUME ~review.again PROVE Table' /\ Groups' /\ Figures' /\ (~others' => Alone')
  <2>1. Table /\ Groups /\ Figures /\ (~others => Alone)
    BY <1>5 DEF ReviewInv
  <2>2. Table'
    BY ONLY <1>1, <1>2, <1>3, <2>1 DEF Table
  <2>3. Groups'
    BY ONLY <1>2, <1>3, <1>4, <2>1 DEF Groups
  <2>4. Figures'
    BY ONLY <1>3, <1>4, <2>1 DEF Figures, OfFate
  <2>5. ASSUME Alone PROVE Alone'
    BY ONLY <1>1, <1>2, <1>3, <1>4, <2>5 DEF Alone, Mine
  <2> QED BY <2>1, <2>2, <2>3, <2>4, <2>5, <1>1
<1> QED BY <1>1, <1>2, <1>3, <1>4, <1>5 DEF ReviewInv, StaysPut

\* A review begins: every candidate waits, on one of the two stores.
LEMMA ReviewStartStep ==
  ASSUME WorldsInv, NEW route \in Routes, NEW triage, ReviewStart(route, triage)
  PROVE  ReviewInv' /\ DOMAIN review' = DOMAIN NoReview /\ review'.total # 0 /\ apart' = apart
<1>1. PICK w \in Stores : w = world[route]
  BY DEF WorldsInv
<1>2. PICK shown \in (SUBSET Candidates(world[route])) \ {{}} :
         review' = [NoReview EXCEPT !.at = IF triage THEN "groups" ELSE "list", !.triage = triage, !.route = route,
                                    !.left = IF triage THEN {} ELSE shown,
                                    !.snap = [k \in shown |-> world[route].gotcha[k]],
                                    !.fate = [k \in shown |-> "open"],
                                    !.sound = \A k \in shown : InPlace(world[route], k),
                                    !.total = Cardinality(shown)]
  BY DEF ReviewStart
<1>3. PICK at, left, snap, fate, sound, total :
        /\ at = (IF triage THEN "groups" ELSE "list") /\ left = (IF triage THEN {} ELSE shown)
        /\ snap = [k \in shown |-> world[route].gotcha[k]] /\ fate = [k \in shown |-> "open"]
        /\ sound = (\A k \in shown : InPlace(world[route], k)) /\ total = Cardinality(shown)
  OBVIOUS
<1>4. review' = [NoReview EXCEPT !.at = at, !.triage = triage, !.route = route, !.left = left, !.snap = snap,
                                 !.fate = fate, !.sound = sound, !.total = total]
  BY ONLY <1>2, <1>3
<1>5. /\ DOMAIN review' = DOMAIN NoReview
      /\ review'.at = at /\ review'.triage = triage /\ review'.route = route /\ review'.left = left
      /\ review'.snap = snap /\ review'.fate = fate /\ review'.sound = sound /\ review'.total = total
      /\ review'.key = {} /\ review'.todo = {} /\ review'.batch = {} /\ review'.rest = {}
      /\ review'.confirmed = 0 /\ review'.deleted = 0 /\ review'.skipped = 0
      /\ review'.picked = {} /\ review'.again = FALSE
  BY ONLY <1>4 DEF NoReview
<1>6. world' = world /\ apart' = apart /\ others' = others
  BY DEF ReviewStart, NoChange
<1>7. /\ Reviewed' = shown /\ \A k \in shown : review'.fate[k] = "open" /\ review'.snap[k] = w.gotcha[k]
      /\ DOMAIN review'.snap = shown /\ review'.fate \in [shown -> Fates]
  BY <1>1, <1>3, <1>5 DEF Reviewed, Fates
<1>8. shown \in SUBSET GKeys /\ IsFiniteSet(shown) /\ shown # {}
  <2>1. shown \in SUBSET GKeys /\ shown # {}
    BY <1>1, <1>2 DEF Candidates
  <2> QED BY <2>1, GKeysFinite, FS_Subset
<1>9. total # 0
  BY <1>3, <1>8, FS_EmptySet
<1>10. ReviewTypes'
  <2>1. review'.at \in {"list", "groups"} /\ review'.left \in SUBSET shown /\ review'.total = Cardinality(shown)
    BY ONLY <1>3, <1>5
  <2>2. route \in Routes
    OBVIOUS
  <2>3. /\ review'.confirmed \in Nat /\ review'.deleted \in Nat /\ review'.skipped \in Nat
        /\ review'.again \in BOOLEAN /\ review'.key \in SUBSET shown /\ review'.todo \in SUBSET shown
        /\ review'.batch \in SUBSET shown /\ review'.rest \in SUBSET shown /\ review'.route \in Routes
    <3>1. 0 \in Nat /\ {} \in SUBSET shown /\ FALSE \in BOOLEAN
      OBVIOUS
    <3>2. /\ review'.key = {} /\ review'.todo = {} /\ review'.batch = {} /\ review'.rest = {}
          /\ review'.confirmed = 0 /\ review'.deleted = 0 /\ review'.skipped = 0
          /\ review'.again = FALSE /\ review'.route = route
      BY ONLY <1>5
    <3> QED BY ONLY <3>1, <3>2, <2>2
  <2>4. /\ Reviewed' = shown /\ DOMAIN review'.snap = shown /\ review'.fate \in [shown -> Fates]
        /\ shown \in SUBSET GKeys
    BY ONLY <1>7, <1>8
  <2> QED BY ONLY <2>1, <2>3, <2>4 DEF ReviewTypes
<1>11. Table'
  BY <1>3, <1>5, <1>7 DEF Table
<1>12. Groups'
  BY <1>3, <1>5, <1>7 DEF Groups
<1>13. Figures'
  <2>1. ASSUME NEW g, "open" \notin g PROVE Cardinality(OfFate(g)') = 0
    <3>1. OfFate(g)' = {}
      BY <1>7, <2>1 DEF OfFate
    <3> QED BY <3>1, FS_EmptySet
  <2>2. /\ Cardinality(OfFate({"confirmed", "failed"})') = 0 /\ Cardinality(OfFate({"deleted"})') = 0
        /\ Cardinality(OfFate({"skipped"})') = 0
    BY <2>1
  <2>3. Cardinality(review'.batch \ review'.todo) = 0
    BY <1>5, FS_EmptySet
  <2> QED BY ONLY <2>2, <2>3, <1>5 DEF Figures
<1>14. Alone'
  <2>1. Mine' = w /\ DOMAIN world' = Routes /\ review'.at # "aborted"
    BY <1>1, <1>3, <1>5, <1>6 DEF Mine, WorldsInv
  <2>2. ASSUME NEW k \in shown PROVE TrueOf(w, k, "open", sound, w.gotcha[k].files)
    <3>1. k \in Candidates(w) /\ (sound => InPlace(w, k))
      BY <1>1, <1>2, <1>3
    <3> QED BY <3>1 DEF TrueOf, Told
  <2>3. \A k \in shown : TrueOf(w, k, review'.fate[k], review'.sound, review'.snap[k].files)
    BY <2>2, <1>5, <1>7
  <2> QED BY <2>1, <2>3, <1>7 DEF Alone
<1> QED BY <1>5, <1>6, <1>9, <1>10, <1>11, <1>12, <1>13, <1>14 DEF ReviewInv

LEMMA CliStep ==
  ASSUME WorldsInv, apart \in BOOLEAN, CliCommand
  PROVE  WorldsInv'
BY AddStep, EditStep, DeleteStep, ConfirmStep, ConsultStep, ExportStep, ImportStep DEF CliCommand

LEMMA CliKeeps ==
  ASSUME apart \in BOOLEAN, CliCommand
  PROVE  review' = review /\ apart' \in BOOLEAN
BY DEF CliCommand, GotchaAdd, GotchaEdit, GotchaDelete, GotchaConfirm, Consult, Export, Import, Command

LEMMA OnReview ==
  ASSUME DOMAIN review = DOMAIN NoReview, review.total # 0, ReviewInv, ReviewSteps
  PROVE  ReviewInv' /\ StaysPut
<1>1. ASSUME NEW r \in Routes, NEW triage \in BOOLEAN, ReviewStart(r, triage) PROVE FALSE
  BY <1>1 DEF ReviewStart
<1> QED BY <1>1, CardConfirmStep, CardSkipStep, CardDeleteStep, AcceptOneStep, CardEditStep, EditAnswerStep,
           GroupEachStep, GroupSkipStep, GroupAcceptStep, CardQuitStep, AcceptDoneStep, TriageQuitStep
        DEF ReviewSteps

LEMMA OffReview ==
  ASSUME review.total = 0, review.at = "off", ReviewSteps
  PROVE  \E r \in Routes, triage \in BOOLEAN : ReviewStart(r, triage)
BY DEF ReviewSteps, CardConfirm, CardSkip, CardDelete, AcceptOne, CardEdit, EditAnswer, GroupEach, GroupSkip,
       GroupAccept, Pick, CardQuit, AcceptDone, TriageQuit

\* The other terminals leave the session's notes alone; what they write is noted.
LEMMA CliReview ==
  ASSUME ReviewInv, CliCommand
  PROVE  ReviewInv'
<1>1. review' = review /\ others' = (others \/ review.total # 0)
  BY DEF CliCommand, GotchaAdd, GotchaEdit, GotchaDelete, GotchaConfirm, Consult, Export, Import, Command
<1>2. ReviewTypes' <=> ReviewTypes
  BY <1>1 DEF ReviewTypes, Reviewed
<1>3. (Table' <=> Table) /\ (Groups' <=> Groups) /\ (Figures' <=> Figures)
  BY <1>1 DEF Table, Groups, Figures, OfFate, Reviewed
<1> QED BY <1>1, <1>2, <1>3 DEF ReviewInv

LEMMA CrInitInv == CrInit => CrInv /\ ReviewInv
<1> SUFFICES ASSUME CrInit PROVE CrInv /\ ReviewInv
  OBVIOUS
<1>1. PICK w \in CrStarts : world = [r \in Routes |-> w]
  BY DEF CrInit
<1>2. w \in Stores /\ LinksExact(w)
  BY RoutesAssumption
<1>3. world \in [Routes -> Stores] /\ world["direct"] = w /\ world["daemon"] = w
  BY <1>1, <1>2 DEF Routes
<1>4. ASSUME NEW k \in GKeys PROVE w.gotcha[k].count <= w.gotcha[k].count
  <2>1. w.gotcha[k].count \in Nat
    BY <1>2 DEF Stores, Recs
  <2> QED BY <2>1
<1>5. Alike(w, w)
  BY <1>4 DEF Alike, AlikeLinks, AlikeGotcha
<1>6. WorldsInv
  BY <1>2, <1>3, <1>5 DEF CrInit, WorldsInv
<1>7. DOMAIN review = DOMAIN NoReview /\ apart \in BOOLEAN /\ review.at = "off" /\ review.total = 0
  BY DEF CrInit, NoReview
<1> QED BY <1>6, <1>7 DEF CrInv, ReviewInv

LEMMA CrNextInv == CrInv /\ ReviewInv /\ [CrNext(TRUE)]_crVars => CrInv' /\ ReviewInv'
<1> SUFFICES ASSUME CrInv, ReviewInv, [CrNext(TRUE)]_crVars PROVE CrInv' /\ ReviewInv'
  OBVIOUS
<1>1. CASE CliCommand
  <2>1. review' = review /\ apart' \in BOOLEAN
    BY <1>1, CliKeeps DEF CrInv
  <2>2. review.total = 0 => WorldsInv'
    BY <1>1, CliStep DEF CrInv
  <2> QED BY <1>1, <2>1, <2>2, CliReview DEF CrInv
<1>2. CASE ReviewSteps
  <2>1. CASE review.total = 0
    <3>1. PICK r \in Routes, triage \in BOOLEAN : ReviewStart(r, triage)
      BY <1>2, <2>1, OffReview DEF CrInv
    <3>2. ReviewInv' /\ DOMAIN review' = DOMAIN NoReview /\ review'.total # 0 /\ apart' = apart
      BY <3>1, <2>1, ReviewStartStep DEF CrInv
    <3> QED BY <3>2 DEF CrInv
  <2>2. CASE review.total # 0
    <3>1. ReviewInv' /\ DOMAIN review' = DOMAIN NoReview /\ review'.total = review.total /\ apart' = apart
      BY <1>2, <2>2, OnReview DEF CrInv, StaysPut
    <3> QED BY <3>1, <2>2 DEF CrInv
  <2> QED BY <2>1, <2>2
<1>3. CASE UNCHANGED crVars
  <2>1. (WorldsInv => WorldsInv') /\ review' = review /\ others' = others /\ world' = world /\ apart' = apart
    BY <1>3 DEF crVars, WorldsInv
  <2>2. (ReviewTypes' <=> ReviewTypes) /\ (Alone' <=> Alone)
    BY <2>1 DEF ReviewTypes, Reviewed, Alone, Mine
  <2>3. (Table' <=> Table) /\ (Groups' <=> Groups) /\ (Figures' <=> Figures)
    BY <2>1 DEF Table, Groups, Figures, OfFate, Reviewed
  <2>4. ReviewInv'
    BY ONLY <2>1, <2>2, <2>3, ReviewInv DEF ReviewInv
  <2> QED BY <2>1, <2>4 DEF CrInv
<1> QED BY <1>1, <1>2, <1>3 DEF CrNext

LEMMA CrInvAgree == CrInv => RoutesAgree
<1> SUFFICES ASSUME CrInv, review.total = 0, ~apart PROVE RoutesAgree
  BY DEF RoutesAgree
<1>1. PICK a, b : a = world["direct"] /\ b = world["daemon"]
  OBVIOUS
<1>2. Alike(a, b)
  BY <1>1 DEF CrInv, WorldsInv
<1>3. ASSUME NEW k \in GKeys
      PROVE  /\ Shape(a, k) = Shape(b, k) /\ (b.gotcha[k].confirmed => a.gotcha[k].confirmed)
             /\ b.gotcha[k].count <= a.gotcha[k].count
  BY <1>2 DEF Alike, AlikeLinks, AlikeGotcha, Shape
<1> QED BY <1>1, <1>2, <1>3 DEF RoutesAgree, Alike, AlikeLinks

\* After any sequence of commands of the command line, each carried out directly
\* in one world and through the daemon in the other, the two stores agree.
THEOREM RoutesCorrect == CrSpec => []RoutesAgree
BY CrInitInv, CrNextInv, CrInvAgree, PTL DEF CrSpec

\* The candidates by fate add up.
LEMMA FatesAddUp ==
  ASSUME ReviewTypes
  PROVE  /\ review.total = Cardinality(OfFate({"confirmed", "failed"})) + Cardinality(OfFate({"deleted"}))
                           + Cardinality(OfFate({"skipped"})) + Cardinality(OfFate({"open", "edited"}))
         /\ \A fates : Cardinality(OfFate(fates)) \in Nat
<1>1. IsFiniteSet(Reviewed)
  BY GKeysFinite, FS_Subset DEF ReviewTypes
<1>2. ASSUME NEW fates PROVE IsFiniteSet(OfFate(fates)) /\ Cardinality(OfFate(fates)) \in Nat
  <2>1. OfFate(fates) \in SUBSET Reviewed
    BY DEF OfFate
  <2> QED BY <2>1, <1>1, FS_Subset, FS_CardinalityType
<1>3. ASSUME NEW f, NEW g, f \cap g = {}
      PROVE  Cardinality(OfFate(f \cup g)) = Cardinality(OfFate(f)) + Cardinality(OfFate(g))
  <2>1. OfFate(f \cup g) = OfFate(f) \cup OfFate(g) /\ OfFate(f) \cap OfFate(g) = {}
    BY <1>3 DEF OfFate
  <2>2. /\ IsFiniteSet(OfFate(f)) /\ IsFiniteSet(OfFate(g))
        /\ Cardinality(OfFate(f)) \in Nat /\ Cardinality(OfFate(g)) \in Nat
    BY <1>2
  <2>3. Cardinality(OfFate(f) \cup OfFate(g))
        = Cardinality(OfFate(f)) + Cardinality(OfFate(g)) - Cardinality(OfFate(f) \cap OfFate(g))
    BY <2>2, FS_Union
  <2>4. Cardinality(OfFate(f) \cap OfFate(g)) = 0
    BY <2>1, FS_EmptySet
  <2>5. Cardinality(OfFate(f) \cup OfFate(g)) = Cardinality(OfFate(f)) + Cardinality(OfFate(g))
    BY ONLY <2>2, <2>3, <2>4
  <2> QED BY ONLY <2>1, <2>5
<1>4. PICK c, d, s, o : c = {"confirmed", "failed"} /\ d = {"deleted"} /\ s = {"skipped"} /\ o = {"open", "edited"}
  OBVIOUS
<1>5. Cardinality(OfFate(s \cup o)) = Cardinality(OfFate(s)) + Cardinality(OfFate(o))
  <2>1. s \cap o = {}
    BY <1>4
  <2> QED BY <2>1, <1>3
<1>6. Cardinality(OfFate(d \cup (s \cup o))) = Cardinality(OfFate(d)) + Cardinality(OfFate(s \cup o))
  <2>1. d \cap (s \cup o) = {}
    BY <1>4
  <2> QED BY <2>1, <1>3
<1>7. Cardinality(OfFate(c \cup (d \cup (s \cup o)))) = Cardinality(OfFate(c)) + Cardinality(OfFate(d \cup (s \cup o)))
  <2>1. c \cap (d \cup (s \cup o)) = {}
    BY <1>4
  <2> QED BY <2>1, <1>3
<1>8. OfFate(c \cup (d \cup (s \cup o))) = Reviewed
  <2>1. c \cup (d \cup (s \cup o)) = Fates
    BY <1>4 DEF Fates
  <2>2. OfFate(Fates) = Reviewed
    BY DEF OfFate, ReviewTypes
  <2> QED BY <2>1, <2>2
<1>9. review.total = Cardinality(Reviewed)
  BY DEF ReviewTypes
<1>10. /\ Cardinality(OfFate(c)) \in Nat /\ Cardinality(OfFate(d)) \in Nat
       /\ Cardinality(OfFate(s)) \in Nat /\ Cardinality(OfFate(o)) \in Nat
  BY <1>2
<1>11. review.total = Cardinality(OfFate(c)) + Cardinality(OfFate(d)) + Cardinality(OfFate(s)) + Cardinality(OfFate(o))
  BY ONLY <1>5, <1>6, <1>7, <1>8, <1>9, <1>10
<1> QED BY <1>2, <1>4, <1>11

LEMMA ReviewInvHonest == ReviewInv => ReviewHonest
<1> SUFFICES ASSUME ReviewInv, review.total # 0, ~review.again
             PROVE  /\ review.at \notin {"all", "aborted"} => FiguresRight
                    /\ ~others => review.at # "aborted" /\ \A k \in DOMAIN review.fate : AsTold(Mine, k)
  BY DEF ReviewHonest
<1>1. ReviewTypes /\ Table /\ Figures /\ (~others => Alone)
  BY DEF ReviewInv
<1>2. ASSUME NEW fates PROVE Tally(fates) = Cardinality(OfFate(fates))
  BY DEF Tally, OfFate, Reviewed
<1>3. ASSUME review.at \notin {"all", "aborted"} PROVE FiguresRight
  <2>1. Cardinality(review.batch \ review.todo) = 0
    <3>1. review.batch \ review.todo = {}
      BY <1>1, <1>3 DEF Table
    <3> QED BY <3>1, FS_EmptySet
  <2>2. review.confirmed \in Nat /\ review.deleted \in Nat /\ review.skipped \in Nat
    BY <1>1 DEF ReviewTypes
  <2>3. /\ review.confirmed = Cardinality(OfFate({"confirmed", "failed"}))
        /\ review.deleted = Cardinality(OfFate({"deleted"}))
        /\ review.skipped = Cardinality(OfFate({"skipped"}))
    BY ONLY <1>1, <2>1, <2>2 DEF Figures
  <2>4. /\ review.total = Cardinality(OfFate({"confirmed", "failed"})) + Cardinality(OfFate({"deleted"}))
                          + Cardinality(OfFate({"skipped"})) + Cardinality(OfFate({"open", "edited"}))
        /\ Cardinality(OfFate({"open", "edited"})) \in Nat
    BY <1>1, FatesAddUp
  <2>5. Remaining = Cardinality(OfFate({"open", "edited"}))
    BY ONLY <2>2, <2>3, <2>4 DEF Remaining
  <2> QED BY <1>2, <2>3, <2>5 DEF FiguresRight
<1>4. ASSUME ~others, NEW k \in DOMAIN review.fate PROVE AsTold(Mine, k)
  <2>1. Told(Mine, k, review.fate[k], review.sound)
    BY <1>1, <1>4 DEF Alone, Reviewed, TrueOf
  <2> QED BY ONLY <2>1 DEF Told, AsTold
<1> QED BY <1>1, <1>3, <1>4 DEF Alone

\* The summary that a review prints is true (SessionStats, run_card_session,
\* run_triage_mode and bulk_confirm_candidates of cli/review.rs): its figures count
\* what became of the candidates, and if nobody else writes the store agrees.
THEOREM ReviewCorrect == CrSpec => []ReviewHonest
BY CrInitInv, CrNextInv, ReviewInvHonest, PTL DEF CrSpec

-----------------------------------------------------------------------------
(* Reports: a cached answer is a computed one while the base stands still.       *)

AllGaps(today) == GapsDue(TRUE, today)

BaseTypes ==
    /\ file \in [FileKeys -> FileRecords] /\ gotcha \in [GotchaNos -> GotchaRecords]
    /\ decision \in [DecisionNos -> DecisionRecords]
    /\ wseq \in Nat /\ day \in Nat

HasSnapshot(v) == "snapshot" \in DOMAIN v /\ v.snapshot = LiveSnapshot

\* An entry that is served holds what the base says, since the base has not been
\* written from its tag on; a run of `mati gaps` carries the tag of its scan.
CacheInv ==
    /\ DOMAIN cache = ReportNames /\ cache = [r \in ReportNames |-> cache[r]]
    /\ \A r \in ReportNames : /\ cache[r].seq \in Int /\ cache[r].seq <= wseq
                              /\ cache[r].seeded /\ Hit(r) => initRun \/ cut
    /\ Hit("status") => Cached("status") = StatusSnapshot
    /\ Hit("stats") /\ ~cache["stats"].seeded => HasSnapshot(Cached("stats"))
    /\ Hit("stale") /\ ~cache["stale"].seeded => Cached("stale") = StaleList
    /\ Hit("ls") => Cached("ls") = LsFiles(HotspotsFirst, cache["ls"].limit)
    /\ Hit("gaps") => Cached("gaps") = AllGaps(cache["gaps"].at)

GapsRunInv ==
    /\ gapsRun.seq \in Nat /\ gapsRun.seq <= wseq
    /\ gapsRun.on /\ gapsRun.seq = wseq => gapsRun.val = AllGaps(gapsRun.at)

RpInv == BaseTypes /\ CacheInv /\ GapsRunInv

LEMMA Counting ==
    ASSUME NEW S, IsFiniteSet(S), NEW g
    PROVE  /\ IsFiniteSet({g[x] : x \in S})
           /\ (\A x, y \in S : g[x] = g[y] => x = y) => Cardinality({g[x] : x \in S}) = Cardinality(S)
<1> DEFINE f == [x \in S |-> g[x]]
           T == {g[x] : x \in S}
<1>1. f \in Surjection(S, T)
  BY DEF Surjection
<1>2. IsFiniteSet(T)
  BY <1>1, FS_Surjection
<1>3. ASSUME \A x, y \in S : g[x] = g[y] => x = y PROVE Cardinality(T) = Cardinality(S)
  <2>1. f \in Bijection(S, T)
    BY <1>1, <1>3 DEF Bijection, Injection, Surjection, IsInjective
  <2>q. QED BY <2>1, FS_Bijection DEF ExistsBijection
<1>q. QED BY <1>2, <1>3

LEMMA GapsFinite ==
    ASSUME NEW S, IsFiniteSet(S), NEW G, \A g \in G : g.key \in S,
           \A g, h \in G : g.key = h.key => g = h
    PROVE  IsFiniteSet(G)
<1> DEFINE f == [g \in G |-> g.key]
<1>1. f \in Injection(G, S)
  BY DEF Injection, IsInjective
<1>q. QED BY <1>1, FS_Injection

\* The risk of an orphaned decision grows by the day, the number of gaps does not.
LEMMA GapsTimeless ==
    ASSUME NEW fs, NEW ds, IsFiniteSet(fs), IsFiniteSet(ds), NEW fanIn, NEW d1, NEW d2
    PROVE  LET a == Analyze(fs, ds, fanIn, d1) b == Analyze(fs, ds, fanIn, d2) IN
           /\ Cardinality(a) = Cardinality(b)
           /\ Cardinality({g \in a : g.type = "OrphanedDecision"}) = Cardinality({g \in b : g.type = "OrphanedDecision"})
<1> DEFINE U == {d \in ds : ~decision[d].linked}
           O(t) == DetectOrphanedDecisions(ds, t)
           R == DetectHotFileNoRecord(fs) \cup DetectHotFileNoPurpose(fs) \cup DetectHotFileNoGotchas(fs) \cup
                DetectFrequentlyReadNoEnrich(fs) \cup DetectStaleHotspots(fs) \cup DetectHotFileNoTests(fs)
                \cup DetectHighFanIn(fs, fanIn)
<1>1. ASSUME NEW t PROVE /\ Analyze(fs, ds, fanIn, t) = R \cup O(t)
                         /\ \A g \in O(t) : g.type = "OrphanedDecision"
                         /\ IsFiniteSet(O(t)) /\ Cardinality(O(t)) = Cardinality(U)
  <2>1. Analyze(fs, ds, fanIn, t) = R \cup O(t)
    BY DEF Analyze
  <2> DEFINE g == [d \in U |-> Gap(d, "OrphanedDecision", (10 * (t - decision[d].born)) \div 30)]
  <2>2. O(t) = {g[d] : d \in U}
    BY DEF DetectOrphanedDecisions
  <2>3. \A x, y \in U : g[x] = g[y] => x = y
    BY DEF Gap
  <2>4. \A x \in U : g[x].type = "OrphanedDecision"
    BY DEF Gap
  <2>5. IsFiniteSet(U)
    BY FS_Subset
  <2>6. IsFiniteSet({g[d] : d \in U}) /\ Cardinality({g[d] : d \in U}) = Cardinality(U)
    <3> HIDE DEF U, g
    <3> QED BY <2>3, <2>5, Counting
  <2>q. QED BY <2>1, <2>2, <2>4, <2>6
<1>2. \A g \in R : g.type # "OrphanedDecision"
  BY DEF DetectHotFileNoRecord, DetectHotFileNoPurpose, DetectHotFileNoGotchas, DetectFrequentlyReadNoEnrich,
         DetectStaleHotspots, DetectHotFileNoTests, DetectHighFanIn, Gap
<1>3. IsFiniteSet(R)
  <2>1. IsFiniteSet(DetectHotFileNoRecord(fs))
    BY GapsFinite DEF DetectHotFileNoRecord, Gap
  <2>2. IsFiniteSet(DetectHotFileNoPurpose(fs))
    BY GapsFinite DEF DetectHotFileNoPurpose, Gap
  <2>3. IsFiniteSet(DetectHotFileNoGotchas(fs))
    BY GapsFinite DEF DetectHotFileNoGotchas, Gap
  <2>4. IsFiniteSet(DetectFrequentlyReadNoEnrich(fs))
    BY GapsFinite DEF DetectFrequentlyReadNoEnrich, Gap
  <2>5. IsFiniteSet(DetectStaleHotspots(fs))
    BY GapsFinite DEF DetectStaleHotspots, Gap
  <2>6. IsFiniteSet(DetectHotFileNoTests(fs))
    BY GapsFinite DEF DetectHotFileNoTests, Gap
  <2>7. IsFiniteSet(DetectHighFanIn(fs, fanIn))
    BY GapsFinite DEF DetectHighFanIn, Gap
  <2>q. QED BY <2>1, <2>2, <2>3, <2>4, <2>5, <2>6, <2>7, FS_Union
<1>4. ASSUME NEW t PROVE Cardinality(R \cup O(t)) = Cardinality(R) + Cardinality(U)
  <2>1. R \cap O(t) = {}
    BY <1>1, <1>2
  <2> HIDE DEF R, O, U
  <2>2. Cardinality(R \cap O(t)) = 0
    BY <2>1, FS_EmptySet
  <2>3. Cardinality(R) \in Nat /\ Cardinality(O(t)) \in Nat
    BY <1>1, <1>3, FS_CardinalityType
  <2>4. /\ IsFiniteSet(O(t)) /\ Cardinality(O(t)) = Cardinality(U)
        /\ Cardinality(R \cup O(t)) = Cardinality(R) + Cardinality(O(t)) - Cardinality(R \cap O(t))
    BY <1>1, <1>3, FS_Union
  <2>q. QED BY <2>2, <2>3, <2>4
<1>5. ASSUME NEW t PROVE {g \in R \cup O(t) : g.type = "OrphanedDecision"} = O(t)
  BY <1>1, <1>2
<1> HIDE DEF R, O, U
<1>q. QED BY <1>1, <1>4, <1>5

-----------------------------------------------------------------------------
\* What each answer is computed from.
LEMMA ViewsKeep ==
    ASSUME BaseTypes, UNCHANGED base
    PROVE  /\ StatusSnapshot' = StatusSnapshot /\ StaleList' = StaleList /\ LiveSnapshot' = LiveSnapshot
           /\ \A n : LsFiles(HotspotsFirst, n)' = LsFiles(HotspotsFirst, n)
           /\ \A d : AllGaps(d)' = AllGaps(d)
<1> USE DEF base
<1>1. Live(file)' = Live(file) /\ Live(gotcha)' = Live(gotcha) /\ Live(decision)' = Live(decision)
  OBVIOUS
<1>2. Known(file)' = Known(file) /\ Known(gotcha)' = Known(gotcha) /\ Known(decision)' = Known(decision)
  OBVIOUS
<1>3. StatusSnapshot' = StatusSnapshot
  BY <1>1 DEF StatusSnapshot, StatusConfirmed
<1>4. StaleList' = StaleList
  <2>1. StaleRecords' = StaleRecords
    BY <1>2 DEF StaleRecords, Flagged
  <2>2. Tiers(StaleRecords)' = Tiers(StaleRecords)
    BY <2>1 DEF Tiers, EffectiveStaleness
  <2>q. QED BY <2>1, <2>2 DEF StaleList
<1>5. ASSUME NEW n PROVE LsFiles(HotspotsFirst, n)' = LsFiles(HotspotsFirst, n)
  BY <1>1 DEF LsFiles, HotspotsFirst, HotFiles
<1>6. ASSUME NEW fs, NEW ds, NEW fanIn, NEW d
      PROVE  Analyze(fs, ds, fanIn, d)' = Analyze(fs, ds, fanIn, d)
  BY DEF Analyze, DetectHotFileNoRecord, DetectHotFileNoPurpose, DetectHotFileNoGotchas, DetectHighFanIn,
         DetectFrequentlyReadNoEnrich, DetectOrphanedDecisions, DetectStaleHotspots, DetectHotFileNoTests
<1>7. ASSUME NEW d PROVE AllGaps(d)' = AllGaps(d)
  BY <1>2, <1>6 DEF AllGaps, GapsDue
<1>8. LiveSnapshot' = LiveSnapshot
  <2> PICK fs, ds : fs = Live(file) /\ ds = Live(decision)
    OBVIOUS
  <2>1. IsFiniteSet(fs) /\ IsFiniteSet(ds)
    <3>1. fs \in SUBSET FileKeys /\ ds \in SUBSET DecisionNos
      BY DEF BaseTypes, Live
    <3>q. QED BY <3>1, ReportsAssumption, FS_Subset
  <2>2. PICK a, b : a = Analyze(fs, ds, NoFanIn, day) /\ b = Analyze(fs, ds, NoFanIn, day')
    OBVIOUS
  <2>3. Analyze(fs, ds, NoFanIn, day)' = b
    BY <1>6, <2>2
  <2>4. /\ Cardinality(a) = Cardinality(b)
        /\ Cardinality({g \in a : g.type = "OrphanedDecision"}) = Cardinality({g \in b : g.type = "OrphanedDecision"})
    BY <2>1, <2>2, GapsTimeless
  <2>5. StatsSnapshot(fs, ds, b)' = StatsSnapshot(fs, ds, b)
    BY DEF StatsSnapshot, Onboarding
  <2>6. StatsSnapshot(fs, ds, a) = StatsSnapshot(fs, ds, b)
    BY <2>4 DEF StatsSnapshot
  <2>7. LiveSnapshot = StatsSnapshot(fs, ds, a) /\ LiveSnapshot' = StatsSnapshot(fs, ds, b)'
    BY <1>1, <2>2, <2>3 DEF LiveSnapshot
  <2>q. QED BY <2>5, <2>6, <2>7
<1>q. QED BY <1>3, <1>4, <1>5, <1>7, <1>8

\* A step that writes nothing of the base, and one that bumps the sequence.
LEMMA CacheInvBumped ==
    ASSUME BaseTypes, CacheInv, wseq' = wseq + 1, UNCHANGED cache
    PROVE  CacheInv'
<1>1. \A r \in ReportNames : cache'[r].seq \in Int /\ cache'[r].seq <= wseq' /\ cache'[r].seq # wseq'
  BY DEF CacheInv, BaseTypes
<1>q. QED BY <1>1 DEF CacheInv, Hit, ReportNames

LEMMA CacheInvKept ==
    ASSUME BaseTypes, CacheInv, UNCHANGED <<base, wseq, cache>>, initRun \/ cut => initRun' \/ cut'
    PROVE  CacheInv'
<1>1. /\ StatusSnapshot' = StatusSnapshot /\ StaleList' = StaleList /\ LiveSnapshot' = LiveSnapshot
      /\ \A n : LsFiles(HotspotsFirst, n)' = LsFiles(HotspotsFirst, n)
      /\ \A d : AllGaps(d)' = AllGaps(d)
  BY ViewsKeep
<1>q. QED BY <1>1 DEF CacheInv, BaseTypes, Hit, Cached, HasSnapshot

\* A fresh entry under a name.
LEMMA CacheInvStored ==
    ASSUME BaseTypes, CacheInv, NEW r \in ReportNames, NEW e, cache' = [cache EXCEPT ![r] = e],
           UNCHANGED <<base, wseq, initRun, cut>>,
           e.seq \in Int, e.seq <= wseq, ~e.seeded,
           e.seq = wseq =>
               CASE r = "status" -> e.val = StatusSnapshot
                 [] r = "stats" -> HasSnapshot(e.val)
                 [] r = "stale" -> e.val = StaleList
                 [] r = "ls" -> e.val = LsFiles(HotspotsFirst, e.limit)
                 [] r = "gaps" -> e.val = AllGaps(e.at)
    PROVE  CacheInv'
<1>1. /\ StatusSnapshot' = StatusSnapshot /\ StaleList' = StaleList /\ LiveSnapshot' = LiveSnapshot
      /\ \A n : LsFiles(HotspotsFirst, n)' = LsFiles(HotspotsFirst, n)
      /\ \A d : AllGaps(d)' = AllGaps(d)
  BY ViewsKeep
<1>2. DOMAIN cache' = ReportNames /\ cache'[r] = e /\ \A x \in ReportNames \ {r} : cache'[x] = cache[x]
  BY DEF CacheInv
<1>3. cache' = [x \in ReportNames |-> cache'[x]]
  BY DEF CacheInv
<1>4. \A x \in ReportNames : /\ cache'[x].seq \in Int /\ cache'[x].seq <= wseq'
                             /\ cache'[x].seeded /\ Hit(x)' => initRun' \/ cut'
  BY <1>2 DEF CacheInv, Hit
<1>5. \A x \in ReportNames \ {r} : Hit(x)' = Hit(x) /\ Cached(x)' = Cached(x)
  BY <1>2 DEF Hit, Cached
<1>6. Hit(r)' = (e.seq = wseq) /\ Cached(r)' = e.val
  BY <1>2 DEF Hit, Cached
<1>8. {"status", "stats", "stale", "gaps", "ls"} = ReportNames
  BY DEF ReportNames
<1>9. (Hit("status") => Cached("status") = StatusSnapshot)'
  BY <1>1, <1>5, <1>6, <1>8 DEF CacheInv
<1>10. (Hit("stats") /\ ~cache["stats"].seeded => HasSnapshot(Cached("stats")))'
  BY <1>1, <1>2, <1>5, <1>6, <1>8 DEF CacheInv, HasSnapshot
<1>11. (Hit("stale") /\ ~cache["stale"].seeded => Cached("stale") = StaleList)'
  BY <1>1, <1>2, <1>5, <1>6, <1>8 DEF CacheInv
<1>12. (Hit("ls") => Cached("ls") = LsFiles(HotspotsFirst, cache["ls"].limit))'
  BY <1>1, <1>2, <1>5, <1>6, <1>8 DEF CacheInv
<1>13. (Hit("gaps") => Cached("gaps") = AllGaps(cache["gaps"].at))'
  BY <1>1, <1>2, <1>5, <1>6, <1>8 DEF CacheInv
<1>q. QED BY <1>2, <1>3, <1>4, <1>9, <1>10, <1>11, <1>12, <1>13 DEF CacheInv

LEMMA RpStart == ReportsInit => RpInv
<1> SUFFICES ASSUME ReportsInit PROVE RpInv
    OBVIOUS
<1>1. BaseTypes
  BY ReportsAssumption DEF ReportsInit, BaseTypes
<1>2. CacheInv
  <2>1. NoEntry.seq = -1 /\ ~NoEntry.seeded
    BY DEF NoEntry
  <2>2. cache = [r \in ReportNames |-> NoEntry] /\ wseq = 0
    BY DEF ReportsInit
  <2>3. \A r \in ReportNames : cache[r] = NoEntry
    BY <2>2
  <2>q. QED BY <2>1, <2>2, <2>3 DEF CacheInv, Hit, ReportNames
<1>3. GapsRunInv
  BY DEF ReportsInit, GapsRunInv, NoGapsRun
<1>q. QED BY <1>1, <1>2, <1>3 DEF RpInv

LEMMA RpTypesStep == BaseTypes /\ [ReportsNext(ReportNames)]_reportVars => BaseTypes'
<1> SUFFICES ASSUME BaseTypes, [ReportsNext(ReportNames)]_reportVars PROVE BaseTypes'
    OBVIOUS
<1>1. CASE UNCHANGED base /\ wseq' \in {wseq, wseq + 1} /\ day' \in {day, day + 1}
  BY <1>1 DEF BaseTypes, base
<1>2. ASSUME NEW f \in FileKeys, EnrichFile(f) \/ AgeFile(f) \/ ReadFile(f) PROVE BaseTypes'
  <2> PICK r : r = file[f]
    OBVIOUS
  <2>1. r \in FileRecords
    BY DEF BaseTypes
  <2>2. /\ [r EXCEPT !.purpose = TRUE] \in FileRecords
        /\ [r EXCEPT !.tier = 1] \in FileRecords
        /\ [r EXCEPT !.reads = 1] \in FileRecords
    BY <2>1 DEF FileRecords
  <2>3. \E e \in FileRecords : file' = [file EXCEPT ![f] = e]
    BY <1>2, <2>2 DEF EnrichFile, AgeFile, ReadFile
  <2>q. QED BY <1>2, <2>3 DEF BaseTypes, EnrichFile, AgeFile, ReadFile, Wrote
<1>3. ASSUME NEW g \in GotchaNos, RemoveGotcha(g) PROVE BaseTypes'
  <2>1. \A f \in FileKeys : [file[f] EXCEPT !.keys = @ \ {g}] \in FileRecords
    BY DEF BaseTypes, FileRecords
  <2>2. [gotcha[g] EXCEPT !.st = "tombstone"] \in GotchaRecords
    BY DEF BaseTypes, GotchaRecords
  <2>q. QED BY <1>3, <2>1, <2>2 DEF BaseTypes, RemoveGotcha, Wrote
<1>4. ASSUME NEW g \in GotchaNos, ConfirmGotcha(g) PROVE BaseTypes'
  <2>1. [gotcha[g] EXCEPT !.confirmed = "yes"] \in GotchaRecords
    BY DEF BaseTypes, GotchaRecords
  <2>q. QED BY <1>4, <2>1 DEF BaseTypes, ConfirmGotcha, Wrote
<1>5. ASSUME NEW d \in DecisionNos, RecordDecision(d) PROVE BaseTypes'
  <2> PICK r : r = [decision[d] EXCEPT !.st = "active", !.born = day]
    OBVIOUS
  <2>1. r \in DecisionRecords
    BY DEF BaseTypes, DecisionRecords
  <2>2. decision' = [decision EXCEPT ![d] = r]
    BY <1>5 DEF BaseTypes, RecordDecision
  <2>q. QED BY <1>5, <2>1, <2>2 DEF BaseTypes, RecordDecision, Wrote
<1>q. QED
  BY <1>1, <1>2, <1>3, <1>4, <1>5 DEF ReportsNext, reportVars, base, RunStatus, RunStats, RunStale, RunLs, Computed,
     Gaps, GapsCaches, GapsDies, InitSeeds, InitEnds, InitIsCut, Tomorrow, Unbumped,
     MarkDrift, ClearDrift, HookRuns

LEMMA RpCacheStep == RpInv /\ [ReportsNext(ReportNames)]_reportVars => CacheInv'
<1> SUFFICES ASSUME BaseTypes, CacheInv, GapsRunInv, [ReportsNext(ReportNames)]_reportVars PROVE CacheInv'
    BY DEF RpInv
<1> USE DEF base
<1> DEFINE Tagged(v) == /\ CacheEntry(v).seq = wseq /\ CacheEntry(v).val = v /\ CacheEntry(v).at = day
                       /\ ~CacheEntry(v).seeded
<1>1. ASSUME NEW v PROVE Tagged(v)
  BY DEF CacheEntry, NoEntry
<1>2. ASSUME NEW direct \in BOOLEAN, NEW r \in ReportNames, NEW e, Computed, Store(direct, r, e),
             e.seq = wseq, ~e.seeded,
             CASE r = "status" -> e.val = StatusSnapshot
               [] r = "stats" -> HasSnapshot(e.val)
               [] r = "stale" -> e.val = StaleList
               [] r = "ls" -> e.val = LsFiles(HotspotsFirst, e.limit)
               [] r = "gaps" -> e.val = AllGaps(e.at)
      PROVE  CacheInv'
  <2>1. CASE direct
    <3>1. e.seq \in Int /\ e.seq <= wseq
      BY <1>2 DEF BaseTypes
    <3>q. QED BY <1>2, <2>1, <3>1, CacheInvStored DEF Computed, Store
  <2>2. CASE ~direct
    BY <1>2, <2>2, CacheInvKept DEF Computed, Store
  <2>q. QED BY <2>1, <2>2
<1>3. ASSUME NEW direct \in BOOLEAN, RunStatus(direct) PROVE CacheInv'
  BY <1>1, <1>2, <1>3 DEF RunStatus, ReportNames
<1>4. ASSUME NEW direct \in BOOLEAN, RunStats(direct) PROVE CacheInv'
  <2>1. HasSnapshot(StatsRecord)
    BY DEF HasSnapshot, StatsRecord
  <2> PICK e : e = CacheEntry(StatsRecord)
    OBVIOUS
  <2>2. e.seq = wseq /\ ~e.seeded /\ HasSnapshot(e.val)
    BY <1>1, <2>1
  <2>3. Computed /\ Store(direct, "stats", e)
    BY <1>4 DEF RunStats
  <2>q. QED BY <1>2, <2>2, <2>3 DEF ReportNames
<1>5. ASSUME NEW direct \in BOOLEAN, RunStale(direct) PROVE CacheInv'
  BY <1>1, <1>2, <1>5 DEF RunStale, ReportNames
<1>6. ASSUME NEW direct \in BOOLEAN, NEW n \in Limits, RunLs(direct, n) PROVE CacheInv'
  <2> PICK v : v = LsFiles(HotspotsFirst, n)
    OBVIOUS
  <2> PICK e : e = [CacheEntry(v) EXCEPT !.limit = n]
    OBVIOUS
  <2>1. e.seq = wseq /\ ~e.seeded /\ e.val = v /\ e.limit = n
    BY DEF CacheEntry, NoEntry
  <2>2. Computed /\ Store(direct, "ls", e)
    BY <1>6 DEF RunLs
  <2>q. QED BY <1>2, <2>1, <2>2 DEF ReportNames
<1>7. CASE Gaps \/ GapsDies
  <2>1. UNCHANGED <<base, wseq, cache, initRun, cut>>
    BY <1>7, Zenon DEF Gaps, GapsDies
  <2>q. QED BY <2>1, CacheInvKept
<1>8. CASE GapsCaches
  <2> PICK e : e = GapsEntry
    OBVIOUS
  <2>1. e.seq = gapsRun.seq /\ e.at = gapsRun.at /\ e.val = gapsRun.val /\ ~e.seeded
    BY DEF GapsEntry, CacheEntry, NoEntry
  <2>2. e.seq \in Int /\ e.seq <= wseq /\ (e.seq = wseq => e.val = AllGaps(e.at))
    BY <1>8, <2>1 DEF GapsRunInv, GapsCaches
  <2>3. cache' = [cache EXCEPT !["gaps"] = e]
    BY <1>8 DEF GapsCaches
  <2>q. QED BY <1>8, <2>1, <2>2, <2>3, CacheInvStored DEF GapsCaches, ReportNames
<1>10. CASE InitSeeds
  <2>0. \E d, e : /\ cache' = [cache EXCEPT !["stats"] = d, !["stale"] = e]
                  /\ d.seq = wseq' /\ d.seeded /\ e.seq = wseq' /\ e.seeded
    <3> PICK d : d = [NoEntry EXCEPT !.seq = wseq', !.at = day, !.val = SeededStats, !.seeded = TRUE]
      OBVIOUS
    <3> PICK e : e = [NoEntry EXCEPT !.seq = wseq', !.at = day, !.val = SeededStale, !.seeded = TRUE]
      OBVIOUS
    <3>1. d.seq = wseq' /\ d.seeded /\ e.seq = wseq' /\ e.seeded
      BY DEF NoEntry
    <3>2. cache' = [cache EXCEPT !["stats"] = d, !["stale"] = e]
      BY <1>10, Zenon DEF InitSeeds
    <3>q. QED BY <3>1, <3>2, Zenon
  <2>5. PICK d, e : /\ cache' = [cache EXCEPT !["stats"] = d, !["stale"] = e]
                    /\ d.seq = wseq' /\ d.seeded /\ e.seq = wseq' /\ e.seeded
    BY <2>0, Zenon
  <2>1. DOMAIN cache' = ReportNames /\ cache' = [x \in ReportNames |-> cache'[x]]
    BY <2>5 DEF CacheInv
  <2>2. /\ cache'["stats"] = d /\ cache'["stale"] = e
        /\ \A x \in ReportNames \ {"stats", "stale"} : cache'[x] = cache[x]
    BY <2>5 DEF CacheInv, ReportNames
  <2>3. wseq \in Nat /\ wseq' = wseq + 1 /\ initRun'
    BY <1>10 DEF BaseTypes, InitSeeds
  <2>4. \A x \in ReportNames : /\ cache'[x].seq \in Int /\ cache'[x].seq <= wseq'
                               /\ cache'[x].seq = wseq' => x \in {"stats", "stale"}
    <3> TAKE x \in ReportNames
    <3>1. CASE x \in {"stats", "stale"}
      BY <2>2, <2>3, <2>5, <3>1
    <3>2. CASE x \notin {"stats", "stale"}
      BY <2>2, <2>3, <3>2 DEF CacheInv
    <3>q. QED BY <3>1, <3>2
  <2>6. "stats" \in ReportNames /\ "stale" \in ReportNames /\ "status" \in ReportNames
        /\ "ls" \in ReportNames /\ "gaps" \in ReportNames
    BY DEF ReportNames
  <2>q. QED BY <2>1, <2>2, <2>3, <2>4, <2>5, <2>6 DEF CacheInv, Hit
<1>11. CASE wseq' = wseq + 1 /\ UNCHANGED cache
  BY <1>11, CacheInvBumped
<1>12. CASE InitIsCut \/ Tomorrow \/ MarkDrift \/ ClearDrift \/ HookRuns \/ UNCHANGED reportVars
  BY <1>12, CacheInvKept DEF InitIsCut, Tomorrow, Unbumped, MarkDrift, ClearDrift, HookRuns, reportVars
<1>q. QED
  BY <1>3, <1>4, <1>5, <1>6, <1>7, <1>8, <1>10, <1>11, <1>12 DEF ReportsNext, InitEnds, Wrote, EnrichFile,
     AgeFile, ReadFile, RemoveGotcha, ConfirmGotcha, RecordDecision

LEMMA RpGapsStep == RpInv /\ [ReportsNext(ReportNames)]_reportVars => GapsRunInv'
<1> SUFFICES ASSUME BaseTypes, GapsRunInv, [ReportsNext(ReportNames)]_reportVars PROVE GapsRunInv'
    BY DEF RpInv
<1> DEFINE Due == \A d : AllGaps(d)' = AllGaps(d)
<1>1. UNCHANGED base => Due
  BY ViewsKeep
<1>2. CASE Gaps
  <2>1. Due
    BY <1>1, <1>2, Zenon DEF Gaps
  <2> PICK v : v = AllGaps(day)
    OBVIOUS
  <2>3. gapsRun' = [on |-> TRUE, seq |-> wseq, val |-> v, at |-> day] /\ wseq' = wseq /\ day' = day
    BY <1>2, Zenon DEF Gaps, AllGaps
  <2>2. AllGaps(day)' = v
    BY <2>1, <2>3
  <2>q. QED BY <2>2, <2>3 DEF GapsRunInv, BaseTypes
<1>3. CASE GapsCaches \/ GapsDies
  BY <1>3 DEF GapsCaches, GapsDies, NoGapsRun, GapsRunInv, BaseTypes
<1>4. CASE wseq' = wseq + 1 /\ UNCHANGED gapsRun
  BY <1>4 DEF GapsRunInv, BaseTypes
<1>5. CASE UNCHANGED <<base, wseq, gapsRun>>
  BY <1>1, <1>5 DEF GapsRunInv
<1>q. QED
  BY <1>2, <1>3, <1>4, <1>5 DEF ReportsNext, reportVars, base, RunStatus, RunStats, RunStale, RunLs, Computed,
     InitSeeds, InitEnds, InitIsCut, Tomorrow, Unbumped, MarkDrift, ClearDrift, HookRuns, Wrote, EnrichFile, AgeFile,
     ReadFile, RemoveGotcha, ConfirmGotcha, RecordDecision

\* The cached answers are the computed ones in every state of the invariant.
LEMMA RpTransparent == RpInv => CacheTransparent
<1> SUFFICES ASSUME BaseTypes, CacheInv, Free PROVE CacheTransparent
    BY DEF RpInv, CacheTransparent
<1>1. \A r \in DOMAIN cache : cache[r].seeded /\ Hit(r) => cut
  BY DEF CacheInv, Free
<1>2. YoungHit("status") => SameBut(StatusAnswer, StatusView, {"drift", "trust"})
  BY DEF CacheInv, YoungHit, StatusAnswer, SameBut, StatusView, CachedStatusView
<1>3. YoungHit("stats") /\ ~(cache["stats"].seeded /\ Hit("stats"))
         => SameBut(StatsAnswer, StatsView, {"stale", "chains", "enforcement", "backlog", "compliance"})
  <2> SUFFICES ASSUME YoungHit("stats"), ~cache["stats"].seeded
               PROVE  SameBut(StatsAnswer, StatsView, {"stale", "chains", "enforcement", "backlog", "compliance"})
    BY DEF YoungHit
  <2>1. HasSnapshot(StatsAnswer)
    BY DEF CacheInv, YoungHit, StatsAnswer
  <2>2. /\ DOMAIN StatsView = {"snapshot", "compliance", "stale", "chains", "enforcement", "backlog"}
        /\ StatsView.snapshot = LiveSnapshot
    BY DEF StatsView
  <2>q. QED BY <2>1, <2>2 DEF HasSnapshot, SameBut
<1>4. Hit("stale") /\ ~(cache["stale"].seeded /\ Hit("stale")) =>
          /\ \A n \in Limits : StaleAnswer(n) = Shorten(StaleList, n)
          /\ DoctorAnswer = {Len(StaleList)}
  BY DEF CacheInv, StaleAnswer, DoctorAnswer
<1>5. ASSUME Hit("ls"), NEW n \in Limits
      PROVE  LsAnswer(n) = LsFiles(IF LsKeyed(n) THEN HotspotsFirst ELSE InKeyOrder(Live(file)), n)
  BY <1>5 DEF CacheInv, LsAnswer, LsKeyed
<1>6. ASSUME GapsHit, NEW n \in Limits, NEW r \in MinRisks
      PROVE  GapsAnswer(TRUE, r, n) = ShownGaps(GapsDue(TRUE, cache["gaps"].at), r, n)
  <2>1. Cached("gaps") = AllGaps(cache["gaps"].at)
    BY <1>6 DEF CacheInv, GapsHit
  <2>2. Cached("gaps") = GapsDue(TRUE, cache["gaps"].at)
    BY <2>1, Zenon DEF AllGaps
  <2>3. GapsAnswer(TRUE, r, n) = ShownGaps(Cached("gaps"), r, n)
    BY <1>6, Zenon DEF GapsAnswer
  <2>q. QED BY <2>2, <2>3, Zenon
<1>q. QED BY <1>1, <1>2, <1>3, <1>4, <1>5, <1>6, Zenon DEF CacheTransparent

\* The invariant of the caches, for any knowledge base, writes, hooks, days,
\* limits and fan-in.
LEMMA RpSound == ReportsSpec => []RpInv
<1>1. RpInv /\ [ReportsNext(ReportNames)]_reportVars => RpInv'
  BY RpTypesStep, RpCacheStep, RpGapsStep DEF RpInv
<1>q. QED BY RpStart, <1>1, PTL DEF ReportsSpec

-----------------------------------------------------------------------------
LEMMA RpAgree == BaseTypes => ReportsAgree
<1> SUFFICES ASSUME BaseTypes PROVE ReportsAgree
    OBVIOUS
<1> DEFINE gaps == Analyze(Live(file), Live(decision), NoFanIn, day)
           Three == {"HotFileNoRecord", "HotFileNoPurpose", "HotFileNoGotchas"}
           Of(f) == {g \in gaps : g.key = f /\ g.type \in Three}
           Bare == {"HotFileNoRecord", "HotFileNoPurpose"}
           Lacking == {f \in Live(file) : file[f].hot /\ ~file[f].purpose}
\* The three gaps, file by file.
<1>1. ASSUME NEW g \in gaps, g.type \in Three
      PROVE  /\ g.key \in Live(file) /\ file[g.key].hot
             /\ \/ /\ g = Gap(g.key, "HotFileNoRecord", 10 * file[g.key].freq)
                   /\ Testable(g.key) /\ ~file[g.key].purpose /\ file[g.key].keys = {} /\ ~file[g.key].entries
                \/ /\ g = Gap(g.key, "HotFileNoPurpose", 7 * file[g.key].freq)
                   /\ Testable(g.key) /\ ~file[g.key].purpose /\ (file[g.key].keys # {} \/ file[g.key].entries)
                \/ /\ g = Gap(g.key, "HotFileNoGotchas", 5 * file[g.key].freq)
                   /\ file[g.key].purpose /\ file[g.key].keys = {}
  <2>1. g \in DetectHotFileNoRecord(Live(file)) \cup DetectHotFileNoPurpose(Live(file)) \cup DetectHotFileNoGotchas(Live(file))
    BY <1>1 DEF Analyze, DetectHighFanIn, DetectFrequentlyReadNoEnrich, DetectOrphanedDecisions, DetectStaleHotspots,
                DetectHotFileNoTests, Gap
  <2>q. QED BY <2>1 DEF DetectHotFileNoRecord, DetectHotFileNoPurpose, DetectHotFileNoGotchas, Gap
<1>2. ASSUME NEW f \in Live(file), file[f].hot, Testable(f)
      PROVE  /\ ~file[f].purpose /\ file[f].keys = {} /\ ~file[f].entries
                   => Gap(f, "HotFileNoRecord", 10 * file[f].freq) \in gaps
             /\ ~file[f].purpose /\ (file[f].keys # {} \/ file[f].entries)
                   => Gap(f, "HotFileNoPurpose", 7 * file[f].freq) \in gaps
             /\ file[f].purpose /\ file[f].keys = {}
                   => Gap(f, "HotFileNoGotchas", 5 * file[f].freq) \in gaps
  BY <1>2 DEF Analyze, DetectHotFileNoRecord, DetectHotFileNoPurpose, DetectHotFileNoGotchas
<1> HIDE DEF gaps
<1>3. ASSUME NEW f \in Live(file), file[f].hot, Testable(f)
      PROVE  Cardinality(Of(f)) = IF file[f].purpose /\ file[f].keys # {} THEN 0 ELSE 1
  <2>1. CASE file[f].purpose /\ file[f].keys # {}
    <3>1. Of(f) = {}
      BY <1>1, <2>1
    <3>q. QED BY <2>1, <3>1, FS_EmptySet
  <2>2. CASE ~(file[f].purpose /\ file[f].keys # {})
    <3>1. \E g : Of(f) = {g}
      <4>1. CASE file[f].purpose
        <5> PICK h : h = Gap(f, "HotFileNoGotchas", 5 * file[f].freq)
          OBVIOUS
        <5>1. h \in gaps
          BY <1>2, <1>3, <2>2, <4>1
        <5>2. h.key = f /\ h.type \in Three
          BY DEF Gap
        <5>3. \A g \in Of(f) : g = h
          BY <1>1, <4>1
        <5>q. QED BY <5>1, <5>2, <5>3
      <4>2. CASE ~file[f].purpose /\ file[f].keys = {} /\ ~file[f].entries
        <5> PICK h : h = Gap(f, "HotFileNoRecord", 10 * file[f].freq)
          OBVIOUS
        <5>1. h \in gaps
          BY <1>2, <1>3, <4>2
        <5>2. h.key = f /\ h.type \in Three
          BY DEF Gap
        <5>3. \A g \in Of(f) : g = h
          BY <1>1, <4>2
        <5>q. QED BY <5>1, <5>2, <5>3
      <4>3. CASE ~file[f].purpose /\ (file[f].keys # {} \/ file[f].entries)
        <5> PICK h : h = Gap(f, "HotFileNoPurpose", 7 * file[f].freq)
          OBVIOUS
        <5>1. h \in gaps
          BY <1>2, <1>3, <4>3
        <5>2. h.key = f /\ h.type \in Three
          BY DEF Gap
        <5>3. \A g \in Of(f) : g = h
          BY <1>1, <4>3
        <5>q. QED BY <5>1, <5>2, <5>3
      <4>q. QED BY <2>2, <4>1, <4>2, <4>3
    <3>q. QED BY <2>2, <3>1, FS_Singleton
  <2>q. QED BY <2>1, <2>2
<1>4. IsFiniteSet(Live(file)) /\ IsFiniteSet(Live(gotcha))
  <2>1. Live(file) \in SUBSET FileKeys /\ Live(gotcha) \in SUBSET GotchaNos
    BY DEF BaseTypes, Live
  <2>q. QED BY <2>1, FS_Subset, ReportsAssumption
<1>5. Cardinality(Lacking) = Cardinality({g \in gaps : g.type \in Bare}) + Cardinality(Lacking \cap NonSource)
  <2> DEFINE T == Lacking \ NonSource
             r == [f \in T |-> IF file[f].keys = {} /\ ~file[f].entries
                               THEN Gap(f, "HotFileNoRecord", 10 * file[f].freq)
                               ELSE Gap(f, "HotFileNoPurpose", 7 * file[f].freq)]
  <2>1. {g \in gaps : g.type \in Bare} = {r[f] : f \in T}
    <3>1. ASSUME NEW g \in gaps, g.type \in Bare PROVE g.key \in T /\ g = r[g.key]
      <4>1. g.type = "HotFileNoGotchas" \/ g.key \in T
        BY <1>1, <3>1 DEF Gap, Testable
      <4>2. g.key \in T
        BY <3>1, <4>1
      <4>3. \/ file[g.key].keys = {} /\ ~file[g.key].entries /\ g = Gap(g.key, "HotFileNoRecord", 10 * file[g.key].freq)
            \/ /\ file[g.key].keys # {} \/ file[g.key].entries
               /\ g = Gap(g.key, "HotFileNoPurpose", 7 * file[g.key].freq)
        BY <1>1, <3>1, <4>2
      <4>q. QED BY <4>2, <4>3
    <3>2. ASSUME NEW f \in T PROVE r[f] \in gaps /\ r[f].type \in Bare
      BY <1>2 DEF Gap, Testable
    <3> HIDE DEF T, r, Bare
    <3>q. QED BY <3>1, <3>2
  <2>2. \A x, y \in T : r[x] = r[y] => x = y
    BY DEF Gap
  <2>3. IsFiniteSet(Lacking) /\ IsFiniteSet(T) /\ IsFiniteSet(Lacking \cap NonSource)
    BY <1>4, FS_Subset
  <2>4. Cardinality({r[f] : f \in T}) = Cardinality(T)
    <3> HIDE DEF T, r
    <3>q. QED BY <2>2, <2>3, Counting
  <2>5. Lacking = T \cup (Lacking \cap NonSource) /\ T \cap (Lacking \cap NonSource) = {}
    OBVIOUS
  <2> HIDE DEF T, r, Lacking
  <2>6. Cardinality(T \cap (Lacking \cap NonSource)) = 0
    BY <2>5, FS_EmptySet
  <2>7. Cardinality(T) \in Nat /\ Cardinality(Lacking \cap NonSource) \in Nat
    BY <2>3, FS_CardinalityType
  <2>8. Cardinality(T \cup (Lacking \cap NonSource)) =
            Cardinality(T) + Cardinality(Lacking \cap NonSource) - Cardinality(T \cap (Lacking \cap NonSource))
    BY <2>3, FS_Union
  <2>9. Cardinality(Lacking) = Cardinality(T) + Cardinality(Lacking \cap NonSource)
    BY <2>5, <2>6, <2>7, <2>8
  <2>q. QED BY <2>1, <2>4, <2>9
<1>6. LiveSnapshot.uncovered = Cardinality(Lacking)
  BY DEF LiveSnapshot, StatsSnapshot
<1>7. Lacking \cap NonSource = {f \in Live(file) \cap NonSource : file[f].hot /\ ~file[f].purpose}
  OBVIOUS
<1>8. ASSUME NEW f \in Live(file)
      PROVE  LET named == {g \in Live(gotcha) : f \in gotcha[g].files} IN
             file[f].keys = named => Explain(f) = named
  BY DEF Explain, Live
<1>9. Cardinality(StatsConfirmed(Live(gotcha))) - StatusSnapshot.confirmed
          = Cardinality({g \in Live(gotcha) : gotcha[g].confirmed = "none"})
  <2> DEFINE Y == StatusConfirmed(Live(gotcha))
             N == {g \in Live(gotcha) : gotcha[g].confirmed = "none"}
  <2>1. StatsConfirmed(Live(gotcha)) = Y \cup N /\ Y \cap N = {}
    BY DEF StatsConfirmed, StatusConfirmed, BaseTypes, GotchaRecords, Live
  <2>2. IsFiniteSet(Y) /\ IsFiniteSet(N)
    BY <1>4, FS_Subset DEF StatusConfirmed
  <2>3. StatusSnapshot.confirmed = Cardinality(Y)
    BY DEF StatusSnapshot
  <2> HIDE DEF Y, N
  <2>4. Cardinality(Y \cap N) = 0
    BY <2>1, FS_EmptySet
  <2>5. Cardinality(Y) \in Nat /\ Cardinality(N) \in Nat
    BY <2>2, FS_CardinalityType
  <2>6. Cardinality(Y \cup N) = Cardinality(Y) + Cardinality(N) - Cardinality(Y \cap N)
    BY <2>2, FS_Union
  <2>7. Cardinality(StatsConfirmed(Live(gotcha))) - StatusSnapshot.confirmed = Cardinality(N)
    BY <2>1, <2>3, <2>4, <2>5, <2>6
  <2>q. QED BY <2>7 DEF N
<1>q. QED BY <1>3, <1>5, <1>6, <1>7, <1>8, <1>9 DEF ReportsAgree, gaps

\* Every answer a report gives is true of the store, out of a cache or not: what a
\* cached answer shows is what the command would compute, but for the sections
\* and counts that CacheTransparent names.
THEOREM AnswersCorrect == ReportsSpec => []ReportsTrue
<1>1. RpInv => ReportsTrue
  BY RpTransparent, RpAgree DEF RpInv, ReportsTrue
<1>q. QED BY RpSound, <1>1, PTL

-----------------------------------------------------------------------------
(* DerivedGraph: numbers, walks along a function, and largest elements.         *)

LEMMA FirstOf ==
  ASSUME NEW T \in SUBSET Nat, T # {}
  PROVE  \E m \in T : \A n \in T : m <= n
<1>1. PICK R : R = {ss \in Nat \X Nat : ss[1] < ss[2]}
  OBVIOUS
<1>2. IsWellFoundedOn(R, Nat)
  BY <1>1, NatLessThanWellFounded DEF OpToRel
<1>3. PICK m \in T : \A n \in T : ~(<<n, m>> \in R)
  BY <1>2, WFMin
<1>4. ASSUME NEW n \in T PROVE m <= n
  <2>1. <<n, m>> \in Nat \X Nat /\ <<n, m>>[1] = n /\ <<n, m>>[2] = m /\ <<n, m>> \notin R
    BY <1>3
  <2>2. ~(n < m)
    BY <2>1, <1>1
  <2> QED BY <2>2
<1> QED BY <1>4

\* Induction along a walk, for a property that is a set of places.
LEMMA AlongWalk ==
  ASSUME NEW i \in Nat, NEW L \in Nat, NEW T, i <= L, i \in T,
         \A n \in i..L : n # L /\ n \in T => n + 1 \in T
  PROVE  \A n \in i..L : n \in T
<1> PICK Bad : Bad = {n \in i..L : n \notin T}
  OBVIOUS
<1>1. ASSUME Bad # {} PROVE FALSE
  <2>1. Bad \in SUBSET Nat
    OBVIOUS
  <2>2. PICK m \in Bad : \A n \in Bad : m <= n
    BY ONLY <1>1, <2>1, FirstOf
  <2>3. m \in i..L /\ m \notin T /\ m # i
    OBVIOUS
  <2>4. m - 1 \in i..L /\ m - 1 # L /\ (m - 1) + 1 = m /\ ~(m <= m - 1)
    BY <2>3
  <2>5. m - 1 \in T
    BY <2>2, <2>4
  <2> QED BY <2>3, <2>4, <2>5
<1> QED BY <1>1

\* A function can be followed for any number of steps.
Follows(S, F, a, L, u) == u \in [0..L -> S] /\ u[0] = a /\ \A n \in 1..L : u[n] = F[u[n - 1]]
LEMMA Followed ==
  ASSUME NEW S, NEW F, NEW a, NEW L \in Nat, F \in [S -> S], a \in S
  PROVE  \E u : Follows(S, F, a, L, u)
<1> DEFINE Upto(m) == \E u \in [0..m -> S] : u[0] = a /\ \A n \in 1..m : u[n] = F[u[n - 1]]
<1>1. Upto(0)
  <2>1. [x \in 0..0 |-> a] \in [0..0 -> S] /\ [x \in 0..0 |-> a][0] = a
    OBVIOUS
  <2>2. PICK f \in [0..0 -> S] : f[0] = a
    BY <2>1
  <2>3. \A n \in 1..0 : f[n] = F[f[n - 1]]
    OBVIOUS
  <2> QED BY <2>2, <2>3
<1>2. ASSUME NEW m \in 0..L, m # L, Upto(m) PROVE Upto(m + 1)
  <2>1. PICK f \in [0..m -> S] : f[0] = a /\ \A n \in 1..m : f[n] = F[f[n - 1]]
    BY <1>2
  <2>2. f[m] \in S
    OBVIOUS
  <2>3. PICK v \in S : v = F[f[m]]
    BY <2>2
  <2>4. PICK g : g = [n \in 0..(m + 1) |-> IF n = m + 1 THEN v ELSE f[n]]
    OBVIOUS
  <2>5. g \in [0..(m + 1) -> S]
    <3>1. ASSUME NEW n \in 0..(m + 1) PROVE (IF n = m + 1 THEN v ELSE f[n]) \in S
      <4>1. n # m + 1 => n \in 0..m
        OBVIOUS
      <4> QED BY <4>1
    <3> QED BY <3>1, <2>4
  <2>6. g[0] = a
    BY <2>1, <2>4
  <2>7. ASSUME NEW n \in 1..(m + 1) PROVE g[n] = F[g[n - 1]]
    <3>1. n - 1 \in 0..(m + 1) /\ n \in 0..(m + 1) /\ n - 1 # m + 1
      OBVIOUS
    <3>2. g[n - 1] = f[n - 1] /\ g[n] = IF n = m + 1 THEN v ELSE f[n]
      BY <2>4, <3>1
    <3>3. n # m + 1 => n \in 1..m
      OBVIOUS
    <3>4. n = m + 1 => n - 1 = m
      OBVIOUS
    <3> QED BY <2>1, <2>3, <3>2, <3>3, <3>4
  <2> QED BY <2>5, <2>6, <2>7
<1> HIDE DEF Upto
<1>3. PICK T : T = {m \in 0..L : Upto(m)}
  OBVIOUS
<1>4. 0 \in T
  BY <1>1, <1>3
<1>5. \A n \in 0..L : n # L /\ n \in T => n + 1 \in T
  <2>1. ASSUME NEW n \in 0..L, n # L, n \in T PROVE n + 1 \in T
    <3>1. n + 1 \in 0..L
      BY <2>1
    <3> QED BY <2>1, <3>1, <1>2, <1>3
  <2> QED BY <2>1
<1>6. L \in T
  BY <1>4, <1>5, AlongWalk
<1>7. PICK u \in [0..L -> S] : u[0] = a /\ \A n \in 1..L : u[n] = F[u[n - 1]]
  BY <1>3, <1>6 DEF Upto
<1>8. Follows(S, F, a, L, u)
  BY <1>7 DEF Follows
<1> QED BY <1>8

\* The form in which the searches use it.
LEMMA ToLast ==
  ASSUME NEW T \in Nat, NEW D, 0 \in D,
         \A n \in 0..T : n # T /\ n \in D => n + 1 \in D
  PROVE  T \in D
<1>1. 0 \in Nat /\ 0 <= T /\ T \in 0..T
  OBVIOUS
<1>2. \A n \in 0..T : n \in D
  BY ONLY <1>1, 0 \in D, \A n \in 0..T : n # T /\ n \in D => n + 1 \in D, T \in Nat, AlongWalk
<1> QED BY <1>1, <1>2

\* A finite set of numbers has a largest one.
LEMMA LargestOf ==
  ASSUME NEW S \in SUBSET Nat, IsFiniteSet(S), S # {}
  PROVE  \E m \in S : \A n \in S : n <= m
<1> DEFINE Tops(U) == \E m \in U : \A n \in U : n <= m
<1> DEFINE Bad == {Cardinality(U) : U \in {V \in SUBSET S : V # {} /\ ~Tops(V)}}
<1>1. ASSUME NEW U \in SUBSET S PROVE IsFiniteSet(U) /\ Cardinality(U) \in Nat
  BY FS_Subset, FS_CardinalityType
<1>2. Bad \in SUBSET Nat
  BY <1>1
<1>3. ASSUME NEW k \in Bad, \A n \in Bad : k <= n PROVE FALSE
  <2>1. PICK U \in SUBSET S : U # {} /\ ~Tops(U) /\ k = Cardinality(U)
    OBVIOUS
  <2> HIDE DEF Bad
  <2>2. PICK x \in U : TRUE
    BY <2>1
  <2>3. PICK V \in SUBSET S : V = U \ {x}
    OBVIOUS
  <2>4. Cardinality(V) = k - 1 /\ k \in Nat
    BY <1>1, <2>1, <2>2, <2>3, FS_RemoveElement
  <2>5. ~(k <= Cardinality(V))
    BY <2>4
  <2>6. V = {} \/ Tops(V)
    <3>1. Cardinality(V) \notin Bad
      BY <1>3, <2>5
    <3> QED BY <3>1 DEF Bad
  <2>7. CASE V = {}
    <3>1. \A n \in U : n <= x
      BY <2>3, <2>7
    <3> QED BY <2>1, <2>2, <3>1
  <2>8. CASE Tops(V)
    <3>1. PICK m \in V : \A n \in V : n <= m
      BY <2>8
    <3>2. x \in Nat /\ m \in Nat /\ m \in U /\ \A n \in U : n \in Nat
      BY <2>3
    <3>3. CASE x <= m
      <4>1. \A n \in U : n <= m
        BY <2>3, <3>1, <3>2, <3>3
      <4> QED BY <2>1, <3>2, <4>1
    <3>4. CASE ~(x <= m)
      <4>1. \A n \in U : n <= x
        BY <2>3, <3>1, <3>2, <3>4
      <4> QED BY <2>1, <3>2, <4>1
    <3> QED BY <3>3, <3>4
  <2> QED BY <2>6, <2>7, <2>8
<1>4. Bad = {}
  BY ONLY <1>2, <1>3, FirstOf
<1> QED BY <1>4

\* Max of the community modules.
LEMMA MaxIs ==
  ASSUME NEW S \in SUBSET Nat, IsFiniteSet(S), S # {}
  PROVE  Max(S) \in S /\ \A n \in S : n <= Max(S)
<1>1. PICK m \in S : \A n \in S : n <= m
  BY LargestOf
<1>2. m \in S /\ \A n \in S : m >= n
  BY <1>1
<1>3. PICK x : x = CHOOSE k \in S : \A n \in S : k >= n
  OBVIOUS
<1>4. x \in S /\ \A n \in S : x >= n
  BY <1>2, <1>3
<1>5. x = Max(S)
  BY <1>3 DEF Max
<1>6. \A n \in S : n <= x
  BY <1>4
<1> QED BY <1>4, <1>5, <1>6

-----------------------------------------------------------------------------
(* DerivedGraph: the two searches find the import paths.                        *)

\* Whatever imports a member of S.
ImportersOf(g, S) == {x \in Units : \E y \in S : <<x, y>> \in g}
IsPath(g, x, f, k, p) == /\ p \in [0..k -> Units] /\ p[0] = x /\ p[k] = f
                         /\ \A i \in 1..k : <<p[i - 1], p[i]>> \in g

LEMMA WithinIs ==
  ASSUME NEW g, NEW f, NEW n
  PROVE  Within(g, f, n) = {x \in Units : \E k \in 1..n : \E p : IsPath(g, x, f, k, p)}
<1>1. ASSUME NEW x \in Within(g, f, n)
      PROVE  x \in Units /\ \E k \in 1..n : \E p : IsPath(g, x, f, k, p)
  <2>1. PICK p \in ImportPaths(g, f, n) : x = p[0]
    BY DEF Within
  <2>2. PICK k \in 1..n : /\ p \in [0..k -> Units] /\ p[k] = f
                          /\ \A i \in 1..k : <<p[i - 1], p[i]>> \in g
    BY DEF ImportPaths
  <2>3. 0 \in 0..k
    BY ONLY k \in 1..n
  <2>4. x \in Units
    BY <2>1, <2>2, <2>3
  <2>5. IsPath(g, x, f, k, p)
    BY <2>1, <2>2 DEF IsPath
  <2> QED BY <2>4, <2>5
<1>2. ASSUME NEW k \in 1..n, NEW x, NEW p, IsPath(g, x, f, k, p)
      PROVE  x \in Within(g, f, n)
  <2>1. p \in ImportPaths(g, f, n) /\ p[0] = x
    BY <1>2 DEF IsPath, ImportPaths
  <2> QED BY <2>1 DEF Within
<1> QED BY <1>1, <1>2

LEMMA PathTail ==
  ASSUME NEW g, NEW x, NEW f, NEW k \in Nat \ {0}, NEW p, IsPath(g, x, f, k, p)
  PROVE  /\ p[1] \in Units /\ <<x, p[1]>> \in g
         /\ (k = 1 => p[1] = f) /\ (k # 1 => \E q : IsPath(g, p[1], f, k - 1, q))
<1>1. 1 \in 0..k /\ 1 \in 1..k
  OBVIOUS
<1>2. p[1] \in Units /\ <<x, p[1]>> \in g
  BY <1>1 DEF IsPath
<1>3. k = 1 => p[1] = f
  BY DEF IsPath
<1>4. ASSUME k # 1 PROVE \E q : IsPath(g, p[1], f, k - 1, q)
  <2>1. PICK q : q = [i \in 0..(k - 1) |-> p[i + 1]]
    OBVIOUS
  <2>2. \A i \in 0..(k - 1) : i + 1 \in 0..k
    OBVIOUS
  <2>3. q \in [0..(k - 1) -> Units]
    BY <2>1, <2>2 DEF IsPath
  <2>4. q[0] = p[1] /\ q[k - 1] = f
    <3>1. 0 \in 0..(k - 1) /\ k - 1 \in 0..(k - 1) /\ (k - 1) + 1 = k
      OBVIOUS
    <3> QED BY <3>1, <2>1 DEF IsPath
  <2>5. ASSUME NEW i \in 1..(k - 1) PROVE <<q[i - 1], q[i]>> \in g
    <3>1. i - 1 \in 0..(k - 1) /\ i \in 0..(k - 1) /\ i + 1 \in 1..k /\ (i - 1) + 1 = i /\ (i + 1) - 1 = i
      OBVIOUS
    <3>2. q[i - 1] = p[i] /\ q[i] = p[i + 1]
      BY <3>1, <2>1
    <3>3. <<p[(i + 1) - 1], p[i + 1]>> \in g
      BY <3>1 DEF IsPath
    <3> QED BY <3>1, <3>2, <3>3
  <2> QED BY <2>3, <2>4, <2>5 DEF IsPath
<1> QED BY <1>2, <1>3, <1>4

LEMMA PathLonger ==
  ASSUME NEW g, NEW x \in Units, NEW y \in Units, NEW f, NEW k \in Nat, NEW q,
         <<x, y>> \in g, IsPath(g, y, f, k, q)
  PROVE  \E p : IsPath(g, x, f, k + 1, p)
<1>1. PICK p : p = [i \in 0..(k + 1) |-> IF i = 0 THEN x ELSE q[i - 1]]
  OBVIOUS
<1>2. p \in [0..(k + 1) -> Units]
  <2>1. ASSUME NEW i \in 0..(k + 1) PROVE (IF i = 0 THEN x ELSE q[i - 1]) \in Units
    <3>1. i # 0 => i - 1 \in 0..k
      OBVIOUS
    <3> QED BY <3>1 DEF IsPath
  <2> QED BY <2>1, <1>1
<1>3. p[0] = x /\ p[k + 1] = f
  <2>1. 0 \in 0..(k + 1) /\ k + 1 \in 0..(k + 1) /\ k + 1 # 0 /\ (k + 1) - 1 = k
    OBVIOUS
  <2> QED BY <2>1, <1>1 DEF IsPath
<1>4. ASSUME NEW i \in 1..(k + 1) PROVE <<p[i - 1], p[i]>> \in g
  <2>1. i - 1 \in 0..(k + 1) /\ i \in 0..(k + 1) /\ i # 0
    OBVIOUS
  <2>2. p[i] = q[i - 1] /\ p[i - 1] = IF i - 1 = 0 THEN x ELSE q[(i - 1) - 1]
    BY <2>1, <1>1
  <2>3. CASE i = 1
    BY <2>2, <2>3 DEF IsPath
  <2>4. CASE i # 1
    <3>1. i - 1 \in 1..k /\ i - 1 # 0
      BY <2>4
    <3> QED BY <3>1, <2>2 DEF IsPath
  <2> QED BY <2>3, <2>4
<1> QED BY <1>2, <1>3, <1>4 DEF IsPath

\* One edge more leads to whatever imports what was reached so far.
LEMMA WithinNext ==
  ASSUME NEW g, NEW f \in Units, NEW n \in Nat
  PROVE  /\ Within(g, f, 0) = {}
         /\ Within(g, f, n) \subseteq Within(g, f, n + 1)
         /\ Within(g, f, n + 1) = ImportersOf(g, {f} \cup Within(g, f, n))
<1>1. Within(g, f, 0) = {}
  BY DEF Within, ImportPaths
<1>2. Within(g, f, n) \subseteq Within(g, f, n + 1)
  <2>1. 1..n \subseteq 1..(n + 1)
    OBVIOUS
  <2> QED BY <2>1, WithinIs
<1>3. ASSUME NEW x \in Within(g, f, n + 1) PROVE x \in ImportersOf(g, {f} \cup Within(g, f, n))
  <2>8. x \in {z \in Units : \E k \in 1..(n + 1) : \E p : IsPath(g, z, f, k, p)}
    BY WithinIs
  <2>0. PICK k \in 1..(n + 1) : x \in Units /\ \E p : IsPath(g, x, f, k, p)
    BY <2>8
  <2>1. PICK p : x \in Units /\ IsPath(g, x, f, k, p)
    BY <2>0
  <2>9. k \in Nat \ {0}
    OBVIOUS
  <2>2. /\ p[1] \in Units /\ <<x, p[1]>> \in g
        /\ (k = 1 => p[1] = f) /\ (k # 1 => \E q : IsPath(g, p[1], f, k - 1, q))
    BY ONLY <2>1, <2>9, PathTail
  <2>3. k # 1 => k - 1 \in 1..n
    OBVIOUS
  <2>4. p[1] \in {f} \cup Within(g, f, n)
    BY <2>2, <2>3, WithinIs
  <2> QED BY <2>1, <2>2, <2>4 DEF ImportersOf
<1>4. ASSUME NEW x \in ImportersOf(g, {f} \cup Within(g, f, n)) PROVE x \in Within(g, f, n + 1)
  <2>1. PICK y \in {f} \cup Within(g, f, n) : x \in Units /\ <<x, y>> \in g
    BY DEF ImportersOf
  <2>2. \E k \in 0..n : \E q : IsPath(g, y, f, k, q)
    <3>1. CASE y = f
      <4>1. PICK q : q = [i \in 0..0 |-> f]
        OBVIOUS
      <4>2. q \in [0..0 -> Units] /\ q[0] = f
        BY <4>1
      <4>3. IsPath(g, y, f, 0, q)
        BY <3>1, <4>2 DEF IsPath
      <4> QED BY <4>3
    <3>2. CASE y \in Within(g, f, n)
      <4>1. \A k \in 1..n : k \in 0..n
        OBVIOUS
      <4> QED BY <4>1, <3>2, WithinIs
    <3> QED BY <3>1, <3>2
  <2>7. PICK k \in 0..n : \E q : IsPath(g, y, f, k, q)
    BY <2>2
  <2>3. PICK q : IsPath(g, y, f, k, q)
    BY <2>7
  <2>4. y \in Units
    BY <2>1, WithinIs
  <2>5. \E p : IsPath(g, x, f, k + 1, p)
    BY <2>1, <2>3, <2>4, PathLonger
  <2>6. k + 1 \in 1..(n + 1)
    OBVIOUS
  <2> QED BY <2>1, <2>5, <2>6, WithinIs
<1> QED BY <1>1, <1>2, <1>3, <1>4

\* The first two rings.
LEMMA WithinTwo ==
  ASSUME NEW g, NEW f \in Units
  PROVE  /\ Within(g, f, 1) = ImportersOf(g, {f})
         /\ Within(g, f, 2) = ImportersOf(g, {f} \cup ImportersOf(g, {f}))
<1>1. Within(g, f, 0 + 1) = ImportersOf(g, {f} \cup Within(g, f, 0)) /\ Within(g, f, 0) = {}
  BY WithinNext
<1>2. Within(g, f, 1 + 1) = ImportersOf(g, {f} \cup Within(g, f, 1))
  BY WithinNext
<1>3. 0 + 1 = 1 /\ 1 + 1 = 2
  OBVIOUS
<1>4. {f} \cup {} = {f}
  OBVIOUS
<1> QED BY <1>1, <1>2, <1>3, <1>4

LEMMA ImportersOfFacts ==
  ASSUME NEW g, NEW S, NEW V
  PROVE  /\ ImportersOf(g, S) \subseteq Units
         /\ ImportersOf(g, S \cup V) = ImportersOf(g, S) \cup ImportersOf(g, V)
         /\ UNION {ReverseAdjacency(g, x) : x \in S} = ImportersOf(g, S)
         /\ UNION {NeighborsIncoming(g, x) : x \in S} \subseteq ImportersOf(g, S)
         /\ ImportersOf(g, S) \subseteq S \cup UNION {NeighborsIncoming(g, x) : x \in S}
<1>1. ImportersOf(g, S) \subseteq Units /\ ImportersOf(g, S \cup V) = ImportersOf(g, S) \cup ImportersOf(g, V)
  BY DEF ImportersOf
<1>2. UNION {ReverseAdjacency(g, x) : x \in S} = ImportersOf(g, S)
  <2>1. ASSUME NEW z PROVE z \in UNION {ReverseAdjacency(g, x) : x \in S} <=> z \in ImportersOf(g, S)
    <3>1. z \in UNION {ReverseAdjacency(g, x) : x \in S} <=> \E x \in S : z \in ReverseAdjacency(g, x)
      OBVIOUS
    <3>2. \A x \in S : z \in ReverseAdjacency(g, x) <=> z \in Units /\ <<z, x>> \in g
      BY DEF ReverseAdjacency
    <3>3. z \in ImportersOf(g, S) <=> z \in Units /\ \E x \in S : <<z, x>> \in g
      BY DEF ImportersOf
    <3> QED BY <3>1, <3>2, <3>3
  <2> QED BY <2>1
<1>3. UNION {NeighborsIncoming(g, x) : x \in S} \subseteq ImportersOf(g, S)
  BY DEF ImportersOf, NeighborsIncoming
<1>4. ImportersOf(g, S) \subseteq S \cup UNION {NeighborsIncoming(g, x) : x \in S}
  BY DEF ImportersOf, NeighborsIncoming
<1> QED BY <1>1, <1>2, <1>3, <1>4

\* compute_all, depth by depth.
LEMMA AllSeen ==
  ASSUME NEW g, NEW f \in Units, NEW u, NEW T \in Nat,
         u[0] = ImportersOf(g, {f}),
         \A d \in 1..T : u[d] = u[d - 1] \cup ImportersOf(g, u[d - 1])
  PROVE  u[T] = Within(g, f, T + 1)
<1> PICK D : D = {d \in 0..T : u[d] = Within(g, f, d + 1)}
  OBVIOUS
<1>1. 0 \in D
  <2>1. 0 + 1 = 1 /\ 0 \in 0..T
    OBVIOUS
  <2>2. u[0] = Within(g, f, 1)
    BY WithinTwo
  <2> QED BY <2>1, <2>2
<1>2. ASSUME NEW d \in 0..T, d # T, d \in D PROVE d + 1 \in D
  <2>1. d + 1 \in 1..T /\ d + 1 \in 0..T /\ (d + 1) - 1 = d /\ d + 1 \in Nat /\ d \in Nat
    BY <1>2
  <2>0. PICK W : W = Within(g, f, d + 1)
    OBVIOUS
  <2>2. u[d] = W
    BY <1>2, <2>0
  <2>3. u[d + 1] = W \cup ImportersOf(g, W)
    BY <2>1, <2>2
  <2>4. ImportersOf(g, {f}) \subseteq W
    <3>1. Within(g, f, d + 1) = ImportersOf(g, {f} \cup Within(g, f, d))
      BY ONLY <2>1, f \in Units, WithinNext
    <3>2. ImportersOf(g, {f} \cup Within(g, f, d)) = ImportersOf(g, {f}) \cup ImportersOf(g, Within(g, f, d))
      BY ONLY ImportersOfFacts
    <3> QED BY ONLY <3>1, <3>2, <2>0
  <2>5. Within(g, f, (d + 1) + 1) = ImportersOf(g, {f} \cup W) /\ W \subseteq Within(g, f, (d + 1) + 1)
    <3>1. PICK e \in Nat : e = d + 1
      BY <2>1
    <3>2. Within(g, f, e + 1) = ImportersOf(g, {f} \cup Within(g, f, e)) /\ Within(g, f, e) \subseteq Within(g, f, e + 1)
      <4>1. \A h \in Units : \A m \in Nat :
              Within(g, h, m + 1) = ImportersOf(g, {h} \cup Within(g, h, m)) /\ Within(g, h, m) \subseteq Within(g, h, m + 1)
        BY ONLY WithinNext
      <4> QED BY ONLY f \in Units, e \in Nat, <4>1
    <3> QED BY ONLY <3>1, <3>2, <2>0
  <2>6. ImportersOf(g, {f} \cup W) = ImportersOf(g, {f}) \cup ImportersOf(g, W)
    BY ImportersOfFacts
  <2>7. u[d + 1] = Within(g, f, (d + 1) + 1)
    BY ONLY <2>3, <2>4, <2>5, <2>6
  <2> QED BY <2>1, <2>7
<1>3. \A n \in 0..T : n # T /\ n \in D => n + 1 \in D
  BY <1>2
<1>4. T \in D
  BY ONLY <1>1, <1>3, T \in Nat, ToLast
<1> QED BY <1>4

LEMMA ComputeAllIs ==
  ASSUME NEW g, NEW f \in Units
  PROVE  ComputeAll(g, f) = Radius(ImportersOf(g, {f}), Within(g, f, TransitiveDepth))
<1> PICK T \in Nat : T = TransitiveDepth - 1 /\ T + 1 = TransitiveDepth
  BY DerivedAssumption
<1> PICK F : F = [S \in SUBSET Units |-> S \cup ImportersOf(g, S)]
  OBVIOUS
<1>1. F \in [SUBSET Units -> SUBSET Units]
  BY ImportersOfFacts
<1>2. ReverseAdjacency(g, f) \in SUBSET Units /\ ReverseAdjacency(g, f) = ImportersOf(g, {f})
  BY DEF ReverseAdjacency, ImportersOf
<1>3. PICK u \in [0..T -> SUBSET Units] : u[0] = ReverseAdjacency(g, f) /\ \A d \in 1..T : u[d] = F[u[d - 1]]
  <2>1. PICK S : S = SUBSET Units
    OBVIOUS
  <2>2. PICK a : a = ReverseAdjacency(g, f)
    OBVIOUS
  <2>3. F \in [S -> S] /\ a \in S
    BY ONLY <1>1, <1>2, <2>1, <2>2
  <2>4. \E u : Follows(S, F, a, T, u)
    BY ONLY <2>3, T \in Nat, Followed
  <2>5. PICK u : Follows(S, F, a, T, u)
    BY ONLY <2>4
  <2>6. u \in [0..T -> SUBSET Units]
    BY ONLY <2>1, <2>5 DEF Follows
  <2>7. u[0] = ReverseAdjacency(g, f) /\ \A d \in 1..T : u[d] = F[u[d - 1]]
    BY ONLY <2>2, <2>5 DEF Follows
  <2> QED BY ONLY <2>6, <2>7
<1>4. ASSUME NEW d \in 1..T
      PROVE  F[u[d - 1]] = u[d - 1] \cup UNION {ReverseAdjacency(g, x) : x \in u[d - 1]}
  <2>1. d - 1 \in 0..T
    OBVIOUS
  <2>2. u[d - 1] \in SUBSET Units
    BY <2>1
  <2> PICK S : S = u[d - 1]
    OBVIOUS
  <2>3. F[S] = S \cup ImportersOf(g, S)
    BY <2>2
  <2>4. UNION {ReverseAdjacency(g, x) : x \in S} = ImportersOf(g, S)
    BY ImportersOfFacts
  <2> QED BY <2>3, <2>4
<1>5. \A d \in 0..T : d # 0 => d \in 1..T
  OBVIOUS
<1>6. u = [d \in 0..T |-> IF d = 0 THEN ReverseAdjacency(g, f)
                          ELSE u[d - 1] \cup UNION {ReverseAdjacency(g, x) : x \in u[d - 1]}]
  BY <1>3, <1>4, <1>5
<1> DEFINE E(s) == [d \in 0..T |-> IF d = 0 THEN ReverseAdjacency(g, f)
                                   ELSE s[d - 1] \cup UNION {ReverseAdjacency(g, x) : x \in s[d - 1]}]
<1>7. PICK s : s = CHOOSE t : t = E(t)
  OBVIOUS
<1>8. s = E(s)
  BY <1>6, <1>7
<1>9. ComputeAll(g, f) = Radius(ReverseAdjacency(g, f), s[T])
  BY <1>7 DEF ComputeAll
<1>10. s[0] = ImportersOf(g, {f}) /\ \A d \in 1..T : s[d] = s[d - 1] \cup ImportersOf(g, s[d - 1])
  <2>1. 0 \in 0..T /\ \A d \in 1..T : d \in 0..T /\ d # 0
    OBVIOUS
  <2>2. ASSUME NEW d \in 0..T
        PROVE  s[d] = IF d = 0 THEN ReverseAdjacency(g, f)
                      ELSE s[d - 1] \cup UNION {ReverseAdjacency(g, x) : x \in s[d - 1]}
    BY <1>8
  <2>3. \A d \in 1..T : UNION {ReverseAdjacency(g, x) : x \in s[d - 1]} = ImportersOf(g, s[d - 1])
    BY ImportersOfFacts
  <2> QED BY <2>1, <2>2, <2>3, <1>2
<1>11. s[T] = Within(g, f, T + 1)
  BY <1>10, AllSeen
<1> QED BY <1>2, <1>9, <1>11

\* One step of the search from f; what it has seen, and who was seen last.
Incoming(g, S) == UNION {NeighborsIncoming(g, x) : x \in S}
Fringe(g, s) == Incoming(g, s.ring) \ s.seen
Grown(g, s) == [seen |-> s.seen \cup Fringe(g, s), ring |-> Fringe(g, s)]
Searched(g, f, d, s) == /\ s.seen = {f} \cup Within(g, f, d)
                        /\ s.ring \subseteq s.seen
                        /\ ImportersOf(g, s.seen \ s.ring) \subseteq s.seen

LEMMA SearchStep ==
  ASSUME NEW g, NEW f \in Units, NEW d \in Nat, NEW s, Searched(g, f, d, s)
  PROVE  Searched(g, f, d + 1, Grown(g, s))
<1>1. PICK S, R, A, N : /\ S = s.seen /\ R = s.ring /\ N = Fringe(g, s)
                        /\ A = Incoming(g, s.ring)
  OBVIOUS
<1>2. PICK W, X : W = Within(g, f, d) /\ X = Within(g, f, d + 1)
  OBVIOUS
<1>3. S = {f} \cup W /\ R \subseteq S /\ ImportersOf(g, S \ R) \subseteq S /\ N = A \ S
  <2>1. N = A \ S
    BY ONLY <1>1 DEF Fringe
  <2>2. S = {f} \cup W /\ R \subseteq S /\ ImportersOf(g, S \ R) \subseteq S
    BY ONLY <1>1, <1>2, Searched(g, f, d, s) DEF Searched
  <2> QED BY ONLY <2>1, <2>2
<1>4. W \subseteq X /\ X = ImportersOf(g, S)
  <2>1. Within(g, f, d) \subseteq Within(g, f, d + 1) /\ Within(g, f, d + 1) = ImportersOf(g, {f} \cup Within(g, f, d))
    BY ONLY f \in Units, d \in Nat, WithinNext
  <2> QED BY ONLY <2>1, <1>2, <1>3
<1>5. A \subseteq ImportersOf(g, R) /\ ImportersOf(g, R) \subseteq R \cup A
  BY <1>1, ImportersOfFacts DEF Incoming
<1>6. ImportersOf(g, S) = ImportersOf(g, S \ R) \cup ImportersOf(g, R)
  <2>1. S = (S \ R) \cup R
    BY <1>3
  <2>2. ImportersOf(g, (S \ R) \cup R) = ImportersOf(g, S \ R) \cup ImportersOf(g, R)
    BY ONLY ImportersOfFacts
  <2> QED BY ONLY <2>1, <2>2
<1>7. S \cup N = {f} \cup X
  BY ONLY <1>3, <1>4, <1>5, <1>6
<1>8. N \subseteq S \cup N
  OBVIOUS
<1>9. (S \cup N) \ N = S
  BY <1>3
<1>10. ImportersOf(g, (S \cup N) \ N) \subseteq S \cup N
  BY ONLY <1>4, <1>7, <1>9
<1>11. Grown(g, s).seen = S \cup N /\ Grown(g, s).ring = N
  BY <1>1 DEF Grown
<1> QED BY <1>2, <1>7, <1>8, <1>10, <1>11 DEF Searched

LEMMA TraverseIs ==
  ASSUME NEW g, NEW f \in Units, NEW T \in Nat
  PROVE  TraverseIncoming(g, f, T) = Within(g, f, T) \ {f}
<1>1. PICK S : S = [seen : SUBSET Units, ring : SUBSET Units]
  OBVIOUS
<1>2. PICK a : a = [seen |-> {f}, ring |-> {f}]
  OBVIOUS
<1>3. a \in S
  BY <1>1, <1>2
<1>4. ASSUME NEW s \in S PROVE Grown(g, s) \in S
  <2>1. s.seen \in SUBSET Units /\ s.ring \in SUBSET Units
    BY <1>1
  <2>2. Fringe(g, s) \in SUBSET Units
    BY DEF Fringe, Incoming, NeighborsIncoming
  <2>3. s.seen \cup Fringe(g, s) \in SUBSET Units
    BY <2>1, <2>2
  <2> QED BY <1>1, <2>2, <2>3 DEF Grown
<1>5. PICK F : F = [s \in S |-> Grown(g, s)]
  OBVIOUS
<1>6. F \in [S -> S]
  BY <1>4, <1>5
<1>0. PICK u : Follows(S, F, a, T, u)
  BY ONLY <1>3, <1>6, T \in Nat, Followed
<1>7. u \in [0..T -> S] /\ u[0] = a /\ \A d \in 1..T : u[d] = F[u[d - 1]]
  BY ONLY <1>0 DEF Follows
<1>8. u = [d \in 0..T |-> IF d = 0 THEN a ELSE Grown(g, u[d - 1])]
  <2>1. \A d \in 0..T : d # 0 => d \in 1..T /\ d - 1 \in 0..T
    OBVIOUS
  <2>2. ASSUME NEW d \in 0..T PROVE u[d] = IF d = 0 THEN a ELSE Grown(g, u[d - 1])
    <3>1. d # 0 => u[d - 1] \in S
      BY <2>1, <1>7
    <3> QED BY <3>1, <2>1, <1>7, <1>5
  <2> QED BY <2>2, <1>7
<1> DEFINE E(t) == [d \in 0..T |-> IF d = 0 THEN [seen |-> {f}, ring |-> {f}] ELSE Grown(g, t[d - 1])]
<1>9. PICK t : t = CHOOSE v : v = E(v)
  OBVIOUS
<1>10. t = E(t)
  BY <1>2, <1>8, <1>9
<1>11. TraverseIncoming(g, f, T) = t[T].seen \ {f}
  BY ONLY <1>9 DEF TraverseIncoming, Grown, Fringe, Incoming
<1>12. ASSUME NEW d \in 0..T PROVE t[d] = IF d = 0 THEN a ELSE Grown(g, t[d - 1])
  BY <1>2, <1>10
<1> HIDE DEF E
<1>13. PICK D : D = {d \in 0..T : Searched(g, f, d, t[d])}
  OBVIOUS
<1>14. 0 \in D
  <2>1. t[0] = a /\ 0 \in 0..T
    BY <1>12
  <2>2. Within(g, f, 0) = {}
    BY WithinNext
  <2>3. ImportersOf(g, {}) = {}
    BY DEF ImportersOf
  <2>4. a.seen = {f} /\ a.ring = {f} /\ {f} \ {f} = {} /\ {f} \cup {} = {f}
    BY <1>2
  <2>5. Searched(g, f, 0, a)
    BY ONLY <2>2, <2>3, <2>4 DEF Searched
  <2> QED BY <1>13, <2>1, <2>5
<1>15. ASSUME NEW d \in 0..T, d # T, d \in D PROVE d + 1 \in D
  <2>1. d + 1 \in 0..T /\ (d + 1) - 1 = d /\ d \in Nat /\ d + 1 # 0
    BY <1>15
  <2>2. t[d + 1] = Grown(g, t[d])
    BY <2>1, <1>12
  <2>3. Searched(g, f, d, t[d])
    BY <1>13, <1>15
  <2>4. Searched(g, f, d + 1, Grown(g, t[d]))
    BY ONLY <2>1, <2>3, f \in Units, SearchStep
  <2> QED BY <1>13, <2>1, <2>2, <2>4
<1>16. T \in D
  BY ONLY <1>14, <1>15, T \in Nat, ToLast
<1>17. t[T].seen = {f} \cup Within(g, f, T)
  BY <1>13, <1>16 DEF Searched
<1> QED BY <1>11, <1>17

LEMMA ComputeIs ==
  ASSUME NEW g, NEW f \in Units
  PROVE  Compute(g, f) = Radius(ImportersOf(g, {f}) \ {f}, Within(g, f, TransitiveDepth) \ {f})
<1>1. NeighborsIncoming(g, f) = ImportersOf(g, {f}) \ {f}
  BY DEF NeighborsIncoming, ImportersOf
<1>2. TransitiveDepth \in Nat
  BY DerivedAssumption
<1> QED BY <1>1, <1>2, TraverseIs DEF Compute


-----------------------------------------------------------------------------
(* DerivedGraph: what the writers of blast radius and propagation store.        *)

GraphTypes == /\ imports \subseteq FirstEdges \cup MoreEdges
              /\ level \in [Units -> Nat]

\* For one file, with what computed it.
Agrees(g, f, who, b) ==
    who # "none" =>
        b = IF who = "empty" THEN NoRadius
            ELSE Radius(Within(g, f, 1) \ {f}, IF who = "compute" THEN Within(g, f, TransitiveDepth) \ {f}
                                               ELSE Within(g, f, TransitiveDepth))
LEMMA BlastAgreeIs == BlastAgree <=> \A f \in Units : Agrees(imports, f, by[f], blast[f])
BY DEF BlastAgree, Agrees

LEMMA ComputeAgrees ==
  ASSUME NEW g, NEW f \in Units
  PROVE  Agrees(g, f, "compute", Compute(g, f))
<1>1. Compute(g, f) = Radius(ImportersOf(g, {f}) \ {f}, Within(g, f, TransitiveDepth) \ {f})
  BY ComputeIs
<1>2. Within(g, f, 1) = ImportersOf(g, {f})
  BY WithinTwo
<1>3. Compute(g, f) = Radius(Within(g, f, 1) \ {f}, Within(g, f, TransitiveDepth) \ {f})
  BY ONLY <1>1, <1>2
<1> QED BY ONLY <1>3 DEF Agrees

LEMMA ComputeAllAgrees ==
  ASSUME NEW g \in SUBSET (FirstEdges \cup MoreEdges), NEW f \in Units
  PROVE  Agrees(g, f, "compute_all", ComputeAll(g, f))
<1>1. ComputeAll(g, f) = Radius(ImportersOf(g, {f}), Within(g, f, TransitiveDepth))
  BY ComputeAllIs
<1>2. Within(g, f, 1) = ImportersOf(g, {f})
  BY WithinTwo
<1>3. f \notin ImportersOf(g, {f})
  <2>1. <<f, f>> \notin g
    BY DerivedAssumption
  <2> QED BY <2>1 DEF ImportersOf
<1>4. Within(g, f, 1) \ {f} = ImportersOf(g, {f})
  BY ONLY <1>2, <1>3
<1>5. ComputeAll(g, f) = Radius(Within(g, f, 1) \ {f}, Within(g, f, TransitiveDepth))
  BY ONLY <1>1, <1>4
<1> QED BY ONLY <1>5 DEF Agrees

\* On no edges there is nobody to count.
LEMMA EmptyAgrees ==
  ASSUME NEW f \in Units
  PROVE  ComputeAll({}, f) = NoRadius
<1>1. ComputeAll({}, f) = Radius(ImportersOf({}, {f}), Within({}, f, TransitiveDepth))
  BY ComputeAllIs
<1>2. ImportersOf({}, {f}) = {}
  BY DEF ImportersOf
<1>3. Within({}, f, TransitiveDepth) = {}
  <2>1. ASSUME NEW x \in Within({}, f, TransitiveDepth) PROVE FALSE
    <3>1. PICK k \in 1..TransitiveDepth :
              \E q \in [0..k -> Units] : \A i \in 1..k : <<q[i - 1], q[i]>> \in {}
      BY <2>1 DEF Within, ImportPaths
    <3>2. k \in Nat /\ k >= 1
      BY <3>1, DerivedAssumption
    <3>3. 1 \in 1..k
      BY <3>2
    <3> QED BY <3>1, <3>3
  <2> QED BY <2>1
<1>4. ComputeAll({}, f) = Radius({}, {})
  BY ONLY <1>1, <1>2, <1>3
<1>5. Cardinality({}) = 0 /\ Cardinality({} \ {}) = 0
  BY FS_EmptySet
<1> QED BY ONLY <1>4, <1>5 DEF Radius, NoRadius

\* An init: the files it parsed, on the graph it has; the others as they were,
\* unless it added edges.
LEMMA InitAgrees ==
  ASSUME GraphTypes, BlastAgree, NEW parsed \in SUBSET Units, NEW new \in SUBSET MoreEdges,
         NEW loaded, NEW blastOk, NEW propOk, InitRun(parsed, new, loaded, blastOk, propOk)
  PROVE  BlastAgree'
<1>1. PICK g : g = IF loaded THEN imports \cup new ELSE {}
  OBVIOUS
<1>2. ASSUME NEW f \in Units PROVE Agrees(imports', f, by'[f], blast'[f])
  <2>1. /\ imports' = imports \cup new
        /\ by'[f] = IF f \notin parsed THEN (IF new = {} THEN by[f] ELSE "none")
                   ELSE IF ~blastOk THEN "none"
                   ELSE IF loaded THEN "compute_all" ELSE "empty"
        /\ blast'[f] = IF f \notin parsed THEN blast[f]
                      ELSE IF blastOk THEN ComputeAll(g, f) ELSE NoRadius
    BY <1>1 DEF InitRun
  <2>2. CASE f \notin parsed /\ new = {}
    <3>1. imports' = imports /\ by'[f] = by[f] /\ blast'[f] = blast[f]
      BY <2>1, <2>2
    <3>2. Agrees(imports, f, by[f], blast[f])
      BY BlastAgreeIs
    <3> QED BY ONLY <3>1, <3>2
  <2>3. CASE (f \notin parsed /\ new # {}) \/ (f \in parsed /\ ~blastOk)
    <3>1. by'[f] = "none"
      BY <2>1, <2>3
    <3> QED BY ONLY <3>1 DEF Agrees
  <2>4. CASE f \in parsed /\ blastOk /\ loaded
    <3>1. imports' = g /\ by'[f] = "compute_all" /\ blast'[f] = ComputeAll(g, f)
      BY <1>1, <2>1, <2>4
    <3>2. g \in SUBSET (FirstEdges \cup MoreEdges)
      BY <1>1, <2>4 DEF GraphTypes
    <3>3. Agrees(g, f, "compute_all", ComputeAll(g, f))
      BY ONLY <3>2, f \in Units, ComputeAllAgrees
    <3> QED BY ONLY <3>1, <3>3
  <2>5. CASE f \in parsed /\ blastOk /\ ~loaded
    <3>1. by'[f] = "empty" /\ blast'[f] = ComputeAll({}, f)
      BY <1>1, <2>1, <2>5
    <3>2. ComputeAll({}, f) = NoRadius
      BY EmptyAgrees
    <3> QED BY ONLY <3>1, <3>2 DEF Agrees
  <2> QED BY ONLY <2>2, <2>3, <2>4, <2>5
<1> QED BY <1>2 DEF BlastAgree, Agrees

LEMMA RepairAgrees ==
  ASSUME GraphTypes, BlastAgree, NEW blastOk, NEW scanned, NEW lost, RepairRun(blastOk, scanned, lost)
  PROVE  BlastAgree'
<1>1. ASSUME NEW f \in Units PROVE Agrees(imports', f, by'[f], blast'[f])
  <2>1. /\ imports' = imports
        /\ blastOk => by'[f] = "compute_all" /\ blast'[f] = ComputeAll(imports, f)
        /\ ~blastOk => by'[f] = by[f] /\ blast'[f] = blast[f]
    BY DEF RepairRun
  <2>2. imports \in SUBSET (FirstEdges \cup MoreEdges)
    BY DEF GraphTypes
  <2>3. Agrees(imports, f, "compute_all", ComputeAll(imports, f))
    BY ONLY <2>2, f \in Units, ComputeAllAgrees
  <2>4. Agrees(imports, f, by[f], blast[f])
    BY BlastAgreeIs
  <2> QED BY ONLY <2>1, <2>3, <2>4
<1> QED BY <1>1 DEF BlastAgree, Agrees

LEMMA EditAgrees ==
  ASSUME BlastAgree, NEW e \in Units, NEW unpatched, NEW unread, NEW unwritten,
         EditHook(e, unpatched, unread, unwritten)
  PROVE  BlastAgree'
<1>1. ASSUME NEW f \in Units PROVE Agrees(imports', f, by'[f], blast'[f])
  <2>0. PICK patched : patched = Around(e) \ unpatched
    OBVIOUS
  <2>1. /\ imports' = imports
        /\ f \in patched => by'[f] = "compute" /\ blast'[f] = Compute(imports, f)
        /\ f \notin patched => by'[f] = by[f] /\ blast'[f] = blast[f]
    BY <2>0 DEF EditHook
  <2>2. Agrees(imports, f, "compute", Compute(imports, f))
    BY ComputeAgrees
  <2>3. Agrees(imports, f, by[f], blast[f])
    BY BlastAgreeIs
  <2> QED BY ONLY <2>1, <2>2, <2>3
<1> QED BY <1>1 DEF BlastAgree, Agrees

LEMMA QuietAgrees ==
  ASSUME BlastAgree, imports' = imports /\ by' = by /\ blast' = blast
  PROVE  BlastAgree'
BY DEF BlastAgree

\* Calls, read as import paths of one edge and of two.
LEMMA CallsAre ==
  ASSUME NEW g, NEW s \in Units, NEW f \in Units
  PROVE  /\ f \in NeighborsIncoming(g, s) <=> s # f /\ f \in Within(g, s, 1)
         /\ Calls(g, s, f) # {} <=> s # f /\ f \in Within(g, s, 2)
         /\ Within(g, s, 1) \subseteq Within(g, s, 2)
         /\ \A c \in Calls(g, s, f) : c \in Units \X Units /\ c[1] = s
<1>1. Within(g, s, 1) = ImportersOf(g, {s}) /\ Within(g, s, 2) = ImportersOf(g, {s} \cup ImportersOf(g, {s}))
  BY WithinTwo
<1>2. f \in Within(g, s, 1) <=> <<f, s>> \in g
  BY <1>1 DEF ImportersOf
<1>3. f \in Within(g, s, 2) <=> <<f, s>> \in g \/ \E y \in Units : <<y, s>> \in g /\ <<f, y>> \in g
  BY <1>1 DEF ImportersOf
<1>4. f \in NeighborsIncoming(g, s) <=> s # f /\ <<f, s>> \in g
  BY DEF NeighborsIncoming
<1>5. Within(g, s, 1) \subseteq Within(g, s, 2)
  BY <1>1 DEF ImportersOf
<1> PICK Y : Y = {x \in NeighborsIncoming(g, s) : f # s /\ f \in NeighborsIncoming(g, x)}
  OBVIOUS
<1>6. /\ f \in NeighborsIncoming(g, s) => Calls(g, s, f) = {<<s, s>>}
      /\ f \notin NeighborsIncoming(g, s) => Calls(g, s, f) = {<<s, y>> : y \in Y}
  BY DEF Calls
<1>7. \A y : y \in Y <=> y \in Units /\ y # s /\ <<y, s>> \in g /\ f # s /\ f # y /\ <<f, y>> \in g
  BY DEF NeighborsIncoming
<1>8. Calls(g, s, f) # {} <=> f \in NeighborsIncoming(g, s) \/ \E y : y \in Y
  <2>1. {<<s, y>> : y \in Y} # {} <=> \E y : y \in Y
    OBVIOUS
  <2>2. CASE f \in NeighborsIncoming(g, s)
    BY <1>6, <2>2
  <2>3. CASE f \notin NeighborsIncoming(g, s)
    <3>1. Calls(g, s, f) = {<<s, y>> : y \in Y}
      BY ONLY <1>6, <2>3
    <3> QED BY ONLY <3>1, <2>1, <2>3
  <2> QED BY ONLY <2>2, <2>3
<1>9. Calls(g, s, f) # {} <=> s # f /\ f \in Within(g, s, 2)
  <2>1. ASSUME s # f, f \in Within(g, s, 2), f \notin NeighborsIncoming(g, s) PROVE \E y : y \in Y
    <3>1. PICK y \in Units : <<y, s>> \in g /\ <<f, y>> \in g
      BY <2>1, <1>3, <1>4
    <3>2. y # s /\ y # f
      BY <3>1, <2>1, <1>4
    <3> QED BY <3>1, <3>2, <2>1, <1>7
  <2>2. ASSUME NEW y \in Y PROVE s # f /\ f \in Within(g, s, 2)
    BY <1>7, <1>3
  <2>3. f \in NeighborsIncoming(g, s) => s # f /\ f \in Within(g, s, 2)
    BY ONLY <1>3, <1>4
  <2>4. ASSUME Calls(g, s, f) # {} PROVE s # f /\ f \in Within(g, s, 2)
    BY ONLY <2>2, <2>3, <2>4, <1>8
  <2>5. ASSUME s # f /\ f \in Within(g, s, 2) PROVE Calls(g, s, f) # {}
    BY ONLY <2>1, <2>5, <1>8
  <2> QED BY ONLY <2>4, <2>5
<1>10. \A c \in Calls(g, s, f) : c \in Units \X Units /\ c[1] = s
  <2>1. ASSUME NEW c \in Calls(g, s, f) PROVE c \in Units \X Units /\ c[1] = s
    <3>1. c = <<s, s>> \/ \E y \in Y : c = <<s, y>>
      <4>1. CASE f \in NeighborsIncoming(g, s)
        BY ONLY <2>1, <1>6, <4>1
      <4>2. CASE f \notin NeighborsIncoming(g, s)
        BY ONLY <2>1, <1>6, <4>2
      <4> QED BY ONLY <4>1, <4>2
    <3>2. \A y \in Y : y \in Units
      BY ONLY <1>7
    <3> QED BY ONLY <3>1, <3>2, s \in Units
  <2> QED BY ONLY <2>1
<1> QED BY <1>2, <1>4, <1>5, <1>9, <1>10

\* What InheritedExact says of one file, for any graph and any values.
InheritedAt(g, lev, p, f) ==
    LET near == {s \in Sources(lev, Units) : s # f /\ f \in Within(g, s, 1)}
        far  == {s \in Sources(lev, Units) : s # f /\ f \in Within(g, s, 2)} \ near
    IN near \cup far # {} =>
       /\ p[f].value = Max({15 * lev[s] : s \in near} \cup {5 * lev[s] : s \in far})
       /\ p[f].value < 15 * TombstoneThreshold
       /\ p[f].sources >= Cardinality(near \cup far)

LEMMA InheritsAt ==
  ASSUME NEW g, NEW lev \in [Units -> Nat], NEW old, NEW f \in Units
  PROVE  InheritedAt(g, lev, WriteProps(g, lev, Units, old, {}), f)
<1>1. PICK near : near = {s \in Sources(lev, Units) : s # f /\ f \in Within(g, s, 1)}
  OBVIOUS
<1>2. PICK far : far = {s \in Sources(lev, Units) : s # f /\ f \in Within(g, s, 2)} \ near
  OBVIOUS
<1>3. PICK p : p = WriteProps(g, lev, Units, old, {})
  OBVIOUS
<1>4. ASSUME near \cup far # {}
      PROVE  /\ p[f].value = Max({15 * lev[s] : s \in near} \cup {5 * lev[s] : s \in far})
             /\ p[f].value < 15 * TombstoneThreshold
             /\ p[f].sources >= Cardinality(near \cup far)
  <2>1. PICK hit : hit = {s \in Sources(lev, Units) : Calls(g, s, f) # {}}
    OBVIOUS
  <2>2. \A s \in Sources(lev, Units) : s \in Units /\ lev[s] \in Nat /\ lev[s] < TombstoneThreshold
    BY DEF Sources
  <2>3. hit = near \cup far
    BY <1>1, <1>2, <2>1, <2>2, CallsAre
  <2>4. \A s \in hit : s \in near <=> f \in NeighborsIncoming(g, s)
    BY <1>1, <1>2, <2>1, <2>2, CallsAre
  <2>5. PICK P : P = ApplyPropagation(g, lev, Units, f)
    OBVIOUS
  <2>6. P.value = Max({Bump(g, lev, s, f) : s \in hit})
        /\ P.sources = Cardinality(UNION {Calls(g, s, f) : s \in hit})
    BY <2>1, <2>5 DEF ApplyPropagation
  <2>7. WriteProps(g, lev, Units, old, {})[f] = P
    <3>1. f \in Reached(g, lev, Units)
      BY <1>4, <2>1, <2>3 DEF Reached
    <3> QED BY <3>1, <2>5 DEF WriteProps
  <2>8. PICK B : B = {15 * lev[s] : s \in near} \cup {5 * lev[s] : s \in far}
    OBVIOUS
  <2>9. {Bump(g, lev, s, f) : s \in hit} = B
    <3>1. \A s \in near : s \in hit /\ Bump(g, lev, s, f) = 15 * lev[s]
      <4>1. ASSUME NEW s \in near PROVE s \in hit /\ Bump(g, lev, s, f) = 15 * lev[s]
        <5>1. s \in hit /\ lev[s] \in Nat /\ f \in NeighborsIncoming(g, s)
          BY <1>2, <2>1, <2>2, <2>3, <2>4
        <5> QED BY <5>1 DEF Bump
      <4> QED BY <4>1
    <3>2. \A s \in far : s \in hit /\ Bump(g, lev, s, f) = 5 * lev[s]
      <4>1. ASSUME NEW s \in far PROVE s \in hit /\ Bump(g, lev, s, f) = 5 * lev[s]
        <5>1. s \in hit /\ lev[s] \in Nat /\ f \notin NeighborsIncoming(g, s)
          BY <1>2, <2>1, <2>2, <2>3, <2>4
        <5> QED BY <5>1 DEF Bump
      <4> QED BY <4>1
    <3>3. ASSUME NEW z PROVE z \in {Bump(g, lev, s, f) : s \in hit} <=> z \in B
      <4>1. z \in B <=> (\E s \in near : z = 15 * lev[s]) \/ (\E s \in far : z = 5 * lev[s])
        BY ONLY <2>8
      <4>2. z \in {Bump(g, lev, s, f) : s \in hit} <=> \E s \in hit : z = Bump(g, lev, s, f)
        OBVIOUS
      <4> QED BY ONLY <4>1, <4>2, <3>1, <3>2, <2>3
    <3> QED BY ONLY <3>3
  <2>10. \A n \in B : n \in Nat /\ n < 15 * TombstoneThreshold
    <3>1. ASSUME NEW n \in B PROVE n \in Nat /\ n < 15 * TombstoneThreshold
      <4>1. PICK s \in Sources(lev, Units) : n = 15 * lev[s] \/ n = 5 * lev[s]
        BY <1>1, <1>2, <2>8
      <4>2. lev[s] \in Nat /\ lev[s] < TombstoneThreshold /\ TombstoneThreshold \in Nat
        BY <2>2, DerivedAssumption
      <4> QED BY ONLY <4>1, <4>2
    <3> QED BY <3>1
  <2>11. Max(B) \in B
    <3>0. PICK N \in Nat : N = 15 * TombstoneThreshold
      BY DerivedAssumption
    <3>1. B \in SUBSET Nat /\ \A n \in B : n <= N
      BY <2>10, <3>0
    <3>2. IsFiniteSet(B)
      BY ONLY N \in Nat, <3>1, FS_BoundedSetOfNaturals
    <3>3. B # {}
      <4>1. PICK s \in near \cup far : TRUE
        BY <1>4
      <4>2. 15 * lev[s] \in B \/ 5 * lev[s] \in B
        BY ONLY <2>8, s \in near \cup far
      <4> QED BY ONLY <4>2
    <3> QED BY ONLY <3>1, <3>2, <3>3, MaxIs
  <2>12. P.sources >= Cardinality(near \cup far)
    <3>1. PICK U : U = UNION {Calls(g, s, f) : s \in hit}
      OBVIOUS
    <3>2. \A c \in U : c \in Units \X Units /\ c[1] \in hit
      BY <1>1, <1>2, <2>1, <2>2, <3>1, CallsAre
    <3>3. \A s \in hit : \E c \in U : c[1] = s
      BY <1>1, <1>2, <2>1, <2>2, <3>1, CallsAre
    <3>4. IsFiniteSet(U)
      <4>1. IsFiniteSet(Units \X Units)
        BY DerivedAssumption, FS_Product
      <4>2. U \in SUBSET (Units \X Units)
        BY <3>2
      <4> QED BY ONLY <4>1, <4>2, FS_Subset
    <3>5. PICK h : h = [c \in U |-> c[1]]
      OBVIOUS
    <3>6. h \in Surjection(U, hit)
      BY ONLY <3>2, <3>3, <3>5 DEF Surjection
    <3>7. Cardinality(hit) <= Cardinality(U) /\ IsFiniteSet(hit)
      BY ONLY <3>4, <3>6, FS_Surjection
    <3>8. Cardinality(hit) \in Nat /\ Cardinality(U) \in Nat
      BY ONLY <3>4, <3>7, FS_CardinalityType
    <3> QED BY ONLY <3>1, <3>7, <3>8, <2>3, <2>6
  <2> QED BY ONLY <1>3, <2>6, <2>7, <2>8, <2>9, <2>10, <2>11, <2>12
<1>5. InheritedAt(g, lev, p, f)
  BY ONLY <1>1, <1>2, <1>4 DEF InheritedAt
<1> QED BY ONLY <1>3, <1>5

\* It is a matter of that file's value only.
LEMMA InheritedSame ==
  ASSUME NEW g, NEW lev, NEW p, NEW q, NEW f, p[f] = q[f], InheritedAt(g, lev, p, f)
  PROVE  InheritedAt(g, lev, q, f)
BY DEF InheritedAt

\* Records whose get or put failed keep a value that may have been right.
LEMMA InheritsSome ==
  ASSUME NEW g, NEW lev \in [Units -> Nat], NEW old, NEW lost, NEW f \in Units,
         f \in lost => InheritedAt(g, lev, old, f)
  PROVE  InheritedAt(g, lev, WriteProps(g, lev, Units, old, lost), f)
<1>1. PICK p : p = WriteProps(g, lev, Units, old, lost)
  OBVIOUS
<1>2. PICK q : q = WriteProps(g, lev, Units, old, {})
  OBVIOUS
<1>3. InheritedAt(g, lev, q, f)
  BY <1>2, InheritsAt
<1>4. CASE f \in lost
  <2>1. old[f] = p[f]
    BY <1>1, <1>4 DEF WriteProps
  <2>2. InheritedAt(g, lev, old, f)
    BY <1>4
  <2> QED BY <1>1, <2>1, <2>2, InheritedSame
<1>5. CASE f \notin lost
  <2>1. q[f] = p[f]
    BY <1>1, <1>2, <1>5 DEF WriteProps
  <2> QED BY <1>1, <1>3, <2>1, InheritedSame
<1> QED BY <1>4, <1>5

LEMMA InheritedIs ==
  (exact => \A f \in Units : InheritedAt(imports, level, prop, f)) <=> InheritedExact
BY DEF InheritedExact, InheritedAt
LEMMA InheritedNext ==
  ASSUME exact' => \A f \in Units : InheritedAt(imports', level', prop', f)
  PROVE  InheritedExact'
BY DEF InheritedExact, InheritedAt

-----------------------------------------------------------------------------
(* DerivedGraph: the trees of union-find.                                       *)

\* Ranks rise on the way to the root.
Forest(p, r) == /\ p \in [Units -> Units] /\ r \in [Units -> Nat]
                /\ \A x \in Units : p[x] # x => r[x] < r[p[x]]
Size == Cardinality(Units)

LEMMA SizeIs == Size \in Nat
BY DerivedAssumption, FS_CardinalityType DEF Size

LEMMA WalkIs ==
  ASSUME NEW p \in [Units -> Units], NEW x \in Units
  PROVE  /\ Walk(p, x) \in [0..Size -> Units] /\ Walk(p, x)[0] = x
         /\ \A n \in 1..Size : Walk(p, x)[n] = p[Walk(p, x)[n - 1]]
<1>1. PICK u : Follows(Units, p, x, Size, u)
  BY ONLY p \in [Units -> Units], x \in Units, SizeIs, Followed
<1>2. u \in [0..Size -> Units] /\ u[0] = x /\ \A n \in 1..Size : u[n] = p[u[n - 1]]
  BY ONLY <1>1 DEF Follows
<1>3. u = [n \in 0..Size |-> IF n = 0 THEN x ELSE p[u[n - 1]]]
  <2>1. \A n \in 0..Size : n # 0 => n \in 1..Size
    BY SizeIs
  <2>2. \A n \in 0..Size : u[n] = IF n = 0 THEN x ELSE p[u[n - 1]]
    BY ONLY <1>2, <2>1
  <2> QED BY ONLY <1>2, <2>2
<1> DEFINE E(t) == [n \in 0..Size |-> IF n = 0 THEN x ELSE p[t[n - 1]]]
<1>4. PICK t : t = CHOOSE v : v = E(v)
  OBVIOUS
<1>5. t = E(t)
  BY ONLY <1>3, <1>4
<1>6. Walk(p, x) = t
  BY ONLY <1>4 DEF Walk, Size
<1>7. ASSUME NEW n \in 0..Size PROVE t[n] = u[n]
  <2>1. PICK T : T = {m \in 0..Size : t[m] = u[m]}
    OBVIOUS
  <2>2. 0 \in T
    <3>1. 0 \in 0..Size
      BY SizeIs
    <3> QED BY ONLY <3>1, <2>1, <1>2, <1>5
  <2>3. \A m \in 0..Size : m # Size /\ m \in T => m + 1 \in T
    <3>1. ASSUME NEW m \in 0..Size, m # Size, t[m] = u[m] PROVE m + 1 \in 0..Size /\ t[m + 1] = u[m + 1]
      <4>1. m + 1 \in 1..Size /\ m + 1 \in 0..Size /\ m + 1 # 0 /\ (m + 1) - 1 = m
        BY ONLY <3>1, SizeIs
      <4>2. t[m + 1] = p[t[m]]
        BY ONLY <4>1, <1>5
      <4>3. u[m + 1] = p[u[m]]
        BY ONLY <4>1, <1>2
      <4> QED BY ONLY <4>1, <4>2, <4>3, <3>1
    <3> QED BY <3>1, <2>1
  <2>4. 0 \in Nat /\ 0 <= Size
    BY SizeIs
  <2>5. \A m \in 0..Size : m \in T
    BY ONLY <2>2, <2>3, <2>4, SizeIs, AlongWalk
  <2> QED BY ONLY <2>1, <2>5
<1>8. t = u
  BY ONLY <1>5, <1>7, <1>2
<1> QED BY ONLY <1>2, <1>6, <1>8

LEMMA FindType ==
  ASSUME NEW p \in [Units -> Units], NEW x \in Units
  PROVE  Find(p, x) \in Units /\ Find(p, x) = Walk(p, x)[Size]
<1>1. Find(p, x) = Walk(p, x)[Size]
  BY DEF Find, Size
<1>2. Size \in 0..Size
  BY SizeIs
<1>3. Walk(p, x) \in [0..Size -> Units]
  BY WalkIs
<1> QED BY ONLY <1>1, <1>2, <1>3

\* What holds of x and is handed to the parent holds of the root.
LEMMA AlongFind ==
  ASSUME NEW p \in [Units -> Units], NEW M, NEW x \in M, M \subseteq Units,
         \A y \in M : p[y] \in M
  PROVE  Find(p, x) \in M /\ \A n \in 0..Size : Walk(p, x)[n] \in M
<1>1. PICK u : u = Walk(p, x)
  OBVIOUS
<1>2. x \in Units
  OBVIOUS
<1>3. u \in [0..Size -> Units] /\ u[0] = x /\ \A n \in 1..Size : u[n] = p[u[n - 1]]
  BY ONLY <1>1, <1>2, p \in [Units -> Units], WalkIs
<1>4. PICK T : T = {m \in 0..Size : u[m] \in M}
  OBVIOUS
<1>5. 0 \in T
  BY <1>3, <1>4, SizeIs
<1>6. \A m \in 0..Size : m # Size /\ m \in T => m + 1 \in T
  <2>1. ASSUME NEW m \in 0..Size, m # Size, m \in T PROVE m + 1 \in T
    <3>1. m + 1 \in 1..Size /\ m + 1 \in 0..Size /\ (m + 1) - 1 = m
      BY ONLY <2>1, SizeIs
    <3>2. u[m + 1] = p[u[m]]
      BY ONLY <3>1, <1>3
    <3>3. u[m] \in M
      BY <2>1, <1>4
    <3> QED BY <3>1, <3>2, <3>3, <1>4
  <2> QED BY <2>1
<1>7. 0 \in Nat /\ 0 <= Size /\ Size \in 0..Size
  BY SizeIs
<1>8. \A m \in 0..Size : m \in T
  BY ONLY <1>5, <1>6, <1>7, SizeIs, AlongWalk
<1>9. Find(p, x) = u[Size]
  BY <1>1, <1>2, FindType
<1> QED BY ONLY <1>1, <1>4, <1>7, <1>8, <1>9

LEMMA FindRoot ==
  ASSUME NEW p \in [Units -> Units], NEW x \in Units, p[x] = x
  PROVE  Find(p, x) = x
<1>1. PICK M : M = {x}
  OBVIOUS
<1>2. x \in M /\ M \subseteq Units /\ \A y \in M : p[y] \in M
  BY <1>1
<1>3. Find(p, x) \in M
  BY ONLY <1>2, p \in [Units -> Units], AlongFind
<1> QED BY <1>1, <1>3

\* The root is a root: the walk is longer than any rising chain of ranks.
LEMMA RootIs ==
  ASSUME NEW p, NEW r, Forest(p, r), NEW x \in Units
  PROVE  p[Find(p, x)] = Find(p, x)
<1>1. SUFFICES ASSUME p[Find(p, x)] # Find(p, x) PROVE FALSE
  OBVIOUS
<1>2. PICK u : u = Walk(p, x)
  OBVIOUS
<1>3. p \in [Units -> Units] /\ r \in [Units -> Nat] /\ \A y \in Units : p[y] # y => r[y] < r[p[y]]
  BY DEF Forest
<1>4. u \in [0..Size -> Units] /\ u[0] = x /\ \A n \in 1..Size : u[n] = p[u[n - 1]]
  BY ONLY <1>2, <1>3, x \in Units, WalkIs
<1>5. p[u[Size]] # u[Size]
  BY <1>1, <1>2, <1>3, FindType
<1>6. ASSUME NEW n \in 0..Size PROVE p[u[n]] # u[n]
  <2>1. SUFFICES ASSUME p[u[n]] = u[n] PROVE FALSE
    OBVIOUS
  <2>2. PICK T : T = {m \in n..Size : p[u[m]] = u[m]}
    OBVIOUS
  <2>3. n \in Nat /\ n <= Size /\ n \in n..Size /\ Size \in n..Size
    BY SizeIs
  <2>4. n \in T
    BY ONLY <2>1, <2>2, <2>3
  <2>5. \A m \in n..Size : m # Size /\ m \in T => m + 1 \in T
    <3>1. ASSUME NEW m \in n..Size, m # Size, p[u[m]] = u[m] PROVE m + 1 \in n..Size /\ p[u[m + 1]] = u[m + 1]
      <4>1. m + 1 \in 1..Size /\ m + 1 \in n..Size /\ (m + 1) - 1 = m
        BY ONLY <3>1, <2>3, SizeIs
      <4>2. u[m + 1] = p[u[m]]
        BY ONLY <4>1, <1>4
      <4> QED BY ONLY <3>1, <4>1, <4>2
    <3> QED BY <3>1, <2>2
  <2>6. \A m \in n..Size : m \in T
    BY ONLY <2>3, <2>4, <2>5, SizeIs, AlongWalk
  <2> QED BY ONLY <2>2, <2>3, <2>6, <1>5
<1>7. ASSUME NEW m \in 0..Size, m # Size PROVE m + 1 \in 0..Size /\ r[u[m]] < r[u[m + 1]]
  <2>1. m + 1 \in 1..Size /\ m + 1 \in 0..Size /\ (m + 1) - 1 = m
    BY ONLY <1>7, SizeIs
  <2>2. u[m + 1] = p[u[m]] /\ u[m] \in Units
    BY ONLY <2>1, <1>4, m \in 0..Size
  <2>3. p[u[m]] # u[m]
    BY <1>6
  <2> QED BY ONLY <2>1, <2>2, <2>3, <1>3
<1>8. ASSUME NEW i \in 0..Size, NEW j \in 0..Size, i < j PROVE r[u[i]] < r[u[j]]
  <2>1. PICK k : k = i + 1
    OBVIOUS
  <2>2. k \in Nat /\ k <= Size /\ i # Size /\ j \in k..Size /\ k \in k..Size
    BY ONLY <1>8, <2>1, SizeIs
  <2>3. PICK T : T = {m \in k..Size : r[u[i]] < r[u[m]]}
    OBVIOUS
  <2>4. k \in T
    BY ONLY <1>7, <2>1, <2>2, <2>3, i \in 0..Size
  <2>5. \A m \in k..Size : m # Size /\ m \in T => m + 1 \in T
    <3>1. ASSUME NEW m \in k..Size, m # Size, r[u[i]] < r[u[m]] PROVE m + 1 \in k..Size /\ r[u[i]] < r[u[m + 1]]
      <4>1. m \in 0..Size /\ m + 1 \in k..Size
        BY ONLY <3>1, <2>2, SizeIs
      <4>2. r[u[m]] < r[u[m + 1]] /\ m + 1 \in 0..Size
        BY ONLY <1>7, <4>1, <3>1
      <4>3. r[u[i]] \in Nat /\ r[u[m]] \in Nat /\ r[u[m + 1]] \in Nat
        BY ONLY <1>3, <1>4, <4>1, <4>2, i \in 0..Size
      <4> QED BY ONLY <3>1, <4>1, <4>2, <4>3
    <3> QED BY <3>1, <2>3
  <2>6. \A m \in k..Size : m \in T
    BY ONLY <2>2, <2>4, <2>5, SizeIs, AlongWalk
  <2> QED BY ONLY <2>2, <2>3, <2>6
<1>9. PICK S : S = 0..Size
  OBVIOUS
<1>10. IsFiniteSet(S) /\ Cardinality(S) = Size + 1
  <2>1. 0 \in Int /\ Size \in Int /\ ~(0 > Size)
    BY SizeIs
  <2>2. IsFiniteSet(0..Size) /\ Cardinality(0..Size) = IF 0 > Size THEN 0 ELSE Size - 0 + 1
    BY ONLY <2>1, FS_Interval
  <2> QED BY ONLY <1>9, <2>1, <2>2
<1>11. IsFiniteSet(Units) /\ Cardinality(Units) < Cardinality(S) /\ u \in [S -> Units]
  BY <1>4, <1>9, <1>10, SizeIs, DerivedAssumption DEF Size
<1>12. \E i, j \in S : i # j /\ u[i] = u[j]
  BY ONLY <1>10, <1>11, FS_PigeonHole
<1>13. PICK i \in S, j \in S : i # j /\ u[i] = u[j]
  BY <1>12
<1>14. i \in 0..Size /\ j \in 0..Size /\ (i < j \/ j < i)
  BY ONLY <1>9, <1>13, SizeIs
<1>15. r[u[i]] \in Nat /\ r[u[i]] = r[u[j]]
  BY ONLY <1>3, <1>4, <1>13, <1>14
<1>16. r[u[i]] < r[u[j]] \/ r[u[j]] < r[u[i]]
  BY ONLY <1>8, <1>14
<1> QED BY ONLY <1>15, <1>16

\* Find is what is kept along the parents and names every root.
LEMMA FindUnique ==
  ASSUME NEW p, NEW r, Forest(p, r), NEW R,
         \A y \in Units : R[p[y]] = R[y],
         \A y \in Units : p[y] = y => R[y] = y
  PROVE  \A x \in Units : Find(p, x) = R[x]
<1> SUFFICES ASSUME NEW x \in Units PROVE Find(p, x) = R[x]
  OBVIOUS
<1>1. p \in [Units -> Units]
  BY DEF Forest
<1>2. PICK M : M = {y \in Units : R[y] = R[x]}
  OBVIOUS
<1>3. x \in M /\ M \subseteq Units /\ \A y \in M : p[y] \in M
  BY <1>1, <1>2
<1>4. Find(p, x) \in M
  BY ONLY <1>1, <1>3, AlongFind
<1>5. p[Find(p, x)] = Find(p, x)
  BY RootIs
<1> QED BY <1>2, <1>4, <1>5

LEMMA FindStep ==
  ASSUME NEW p, NEW r, Forest(p, r), NEW x \in Units
  PROVE  Find(p, p[x]) = Find(p, x)
<1>1. p \in [Units -> Units] /\ p[x] \in Units
  BY DEF Forest
<1>2. PICK u : u = Walk(p, x)
  OBVIOUS
<1>3. PICK v : v = Walk(p, p[x])
  OBVIOUS
<1>4. u \in [0..Size -> Units] /\ u[0] = x /\ \A n \in 1..Size : u[n] = p[u[n - 1]]
  BY ONLY <1>1, <1>2, x \in Units, WalkIs
<1>5. v \in [0..Size -> Units] /\ v[0] = p[x] /\ \A n \in 1..Size : v[n] = p[v[n - 1]]
  BY ONLY <1>1, <1>3, WalkIs
<1>6. PICK T : T = {n \in 0..Size : v[n] = p[u[n]]}
  OBVIOUS
<1>7. 0 \in T
  BY ONLY <1>4, <1>5, <1>6, SizeIs
<1>8. \A n \in 0..Size : n # Size /\ n \in T => n + 1 \in T
  <2>1. ASSUME NEW n \in 0..Size, n # Size, v[n] = p[u[n]] PROVE n + 1 \in 0..Size /\ v[n + 1] = p[u[n + 1]]
    <3>1. n + 1 \in 1..Size /\ n + 1 \in 0..Size /\ (n + 1) - 1 = n
      BY ONLY <2>1, SizeIs
    <3>2. v[n + 1] = p[v[n]] /\ u[n + 1] = p[u[n]]
      BY ONLY <3>1, <1>4, <1>5
    <3> QED BY ONLY <2>1, <3>1, <3>2
  <2> QED BY <2>1, <1>6
<1>9. Size \in T
  BY ONLY <1>7, <1>8, SizeIs, ToLast
<1>10. Find(p, x) = u[Size] /\ Find(p, p[x]) = v[Size]
  BY ONLY <1>1, <1>2, <1>3, x \in Units, FindType
<1>11. p[Find(p, x)] = Find(p, x)
  BY RootIs
<1> QED BY ONLY <1>6, <1>9, <1>10, <1>11

LEMMA RankRises ==
  ASSUME NEW p, NEW r, Forest(p, r), NEW x \in Units, Find(p, x) # x
  PROVE  r[x] < r[Find(p, x)]
<1>1. p \in [Units -> Units] /\ r \in [Units -> Nat] /\ \A y \in Units : p[y] # y => r[y] < r[p[y]]
  BY DEF Forest
<1>2. p[x] # x
  BY <1>1, FindRoot
<1>3. PICK M : M = {y \in Units : r[p[x]] <= r[y]}
  OBVIOUS
<1>4. p[x] \in M
  <2>1. p[x] \in Units /\ r[p[x]] \in Nat
    BY ONLY <1>1, x \in Units
  <2>2. r[p[x]] <= r[p[x]]
    BY ONLY <2>1
  <2> QED BY ONLY <2>1, <2>2, <1>3
<1>5. ASSUME NEW y \in M PROVE p[y] \in M
  <2>1. y \in Units /\ r[p[x]] <= r[y] /\ p[y] \in Units
    BY ONLY <1>1, <1>3, y \in M
  <2>2. r[y] \in Nat /\ r[p[y]] \in Nat /\ r[p[x]] \in Nat
    BY ONLY <1>1, <2>1, x \in Units
  <2>3. p[y] = y \/ r[y] < r[p[y]]
    BY ONLY <1>1, <2>1
  <2>4. r[p[x]] <= r[p[y]]
    BY ONLY <2>1, <2>2, <2>3
  <2> QED BY ONLY <2>1, <2>4, <1>3
<1>6. Find(p, p[x]) \in M
  <2>1. M \subseteq Units
    BY <1>3
  <2> QED BY ONLY <1>1, <1>4, <1>5, <2>1, AlongFind
<1>7. Find(p, p[x]) = Find(p, x)
  BY FindStep
<1>8. r[x] < r[p[x]] /\ r[p[x]] <= r[Find(p, x)] /\ Find(p, x) \in Units
  BY ONLY <1>1, <1>2, <1>3, <1>6, <1>7, x \in Units
<1>9. r[x] \in Nat /\ r[p[x]] \in Nat /\ r[Find(p, x)] \in Nat
  BY ONLY <1>1, <1>8, x \in Units
<1> QED BY ONLY <1>8, <1>9

\* Path compression hangs a node below its parent or below its root.
Shortens(p, q) == /\ q \in [Units -> Units]
                  /\ \A y \in Units : q[y] = p[y] \/ q[y] = Find(p, y)

LEMMA CompressShortens ==
  ASSUME NEW p, NEW r, Forest(p, r), NEW x \in Units
  PROVE  Shortens(p, Compress(p, x))
<1>1. p \in [Units -> Units]
  BY DEF Forest
<1>2. PICK q : q = Compress(p, x)
  OBVIOUS
<1>3. PICK walked : walked = {Walk(p, x)[n] : n \in 0..Size}
  OBVIOUS
<1>4. q = [y \in Units |-> IF y \in walked THEN Find(p, x) ELSE p[y]]
  BY ONLY <1>2, <1>3 DEF Compress, Size
<1>5. PICK M : M = {y \in Units : Find(p, y) = Find(p, x)}
  OBVIOUS
<1>6. x \in M /\ M \subseteq Units
  BY <1>5
<1>7. \A y \in M : p[y] \in M
  BY <1>1, <1>5, FindStep
<1>8. \A n \in 0..Size : Walk(p, x)[n] \in M
  BY ONLY <1>1, <1>6, <1>7, AlongFind
<1>9. walked \subseteq M
  BY ONLY <1>3, <1>8
<1>10. Find(p, x) \in Units
  BY <1>1, FindType
<1>11. q \in [Units -> Units]
  BY ONLY <1>1, <1>4, <1>10
<1>12. ASSUME NEW y \in Units PROVE q[y] = p[y] \/ q[y] = Find(p, y)
  BY ONLY <1>4, <1>5, <1>9, y \in Units
<1> QED BY ONLY <1>2, <1>11, <1>12 DEF Shortens

LEMMA ShortensKeeps ==
  ASSUME NEW p, NEW r, Forest(p, r), NEW q, Shortens(p, q)
  PROVE  Forest(q, r) /\ \A y \in Units : Find(q, y) = Find(p, y)
<1>1. /\ p \in [Units -> Units] /\ r \in [Units -> Nat] /\ q \in [Units -> Units]
      /\ \A y \in Units : p[y] # y => r[y] < r[p[y]]
      /\ \A y \in Units : q[y] = p[y] \/ q[y] = Find(p, y)
  BY DEF Forest, Shortens
<1>2. ASSUME NEW y \in Units, q[y] # y PROVE r[y] < r[q[y]]
  <2>1. CASE q[y] = p[y]
    BY ONLY <1>1, <1>2, <2>1
  <2>2. CASE q[y] = Find(p, y)
    <3>1. r[y] < r[Find(p, y)]
      BY <1>2, <2>2, RankRises
    <3> QED BY ONLY <2>2, <3>1
  <2> QED BY ONLY <1>1, <2>1, <2>2, y \in Units
<1>3. Forest(q, r)
  BY ONLY <1>1, <1>2 DEF Forest
<1>4. PICK R : R = [y \in Units |-> Find(p, y)]
  OBVIOUS
<1>5. ASSUME NEW y \in Units PROVE R[q[y]] = R[y]
  <2>1. q[y] \in Units
    BY <1>1
  <2>2. Find(p, q[y]) = Find(p, y)
    <3>1. CASE q[y] = p[y]
      BY <3>1, FindStep
    <3>2. CASE q[y] = Find(p, y)
      <4>1. p[Find(p, y)] = Find(p, y) /\ Find(p, y) \in Units
        BY RootIs, FindType, <1>1
      <4>2. Find(p, Find(p, y)) = Find(p, y)
        BY ONLY <4>1, <1>1, FindRoot
      <4> QED BY ONLY <3>2, <4>2
    <3> QED BY ONLY <1>1, <3>1, <3>2, y \in Units
  <2> QED BY ONLY <1>4, <2>1, <2>2, y \in Units
<1>6. ASSUME NEW y \in Units, q[y] = y PROVE R[y] = y
  <2>1. CASE q[y] = p[y]
    <3>1. Find(p, y) = y
      BY <1>1, <1>6, <2>1, FindRoot
    <3> QED BY <3>1, <1>4
  <2>2. CASE q[y] = Find(p, y)
    BY ONLY <1>4, <1>6, <2>2
  <2> QED BY ONLY <1>1, <2>1, <2>2, y \in Units
<1>7. \A y \in Units : Find(q, y) = R[y]
  BY ONLY <1>3, <1>5, <1>6, FindUnique
<1> QED BY ONLY <1>3, <1>4, <1>7

\* A root hung below another.
LEMMA Hang ==
  ASSUME NEW p, NEW r, Forest(p, r), NEW a \in Units, NEW b \in Units,
         p[a] = a, p[b] = b, a # b,
         NEW s, Forest([p EXCEPT ![a] = b], s)
  PROVE  \A y \in Units : Find([p EXCEPT ![a] = b], y) = IF Find(p, y) = a THEN b ELSE Find(p, y)
<1>1. p \in [Units -> Units]
  BY DEF Forest
<1>2. PICK q : q = [p EXCEPT ![a] = b]
  OBVIOUS
<1>3. Forest(q, s)
  BY ONLY <1>2, Forest([p EXCEPT ![a] = b], s)
<1>4. PICK R : R = [y \in Units |-> IF Find(p, y) = a THEN b ELSE Find(p, y)]
  OBVIOUS
<1>5. Find(p, a) = a /\ Find(p, b) = b
  BY <1>1, FindRoot
<1>6. \A y \in Units : (y = a => q[y] = b) /\ (y # a => q[y] = p[y])
  BY ONLY <1>1, <1>2, a \in Units
<1>7. ASSUME NEW y \in Units PROVE R[q[y]] = R[y]
  <2>1. CASE y = a
    BY ONLY <1>4, <1>5, <1>6, <2>1, a \in Units, b \in Units, a # b
  <2>2. CASE y # a
    <3>1. Find(p, p[y]) = Find(p, y) /\ p[y] \in Units
      BY <1>1, FindStep
    <3> QED BY ONLY <3>1, <1>4, <1>6, <2>2, y \in Units
  <2> QED BY ONLY <2>1, <2>2
<1>8. ASSUME NEW y \in Units, q[y] = y PROVE R[y] = y
  <2>1. y # a /\ p[y] = y
    BY ONLY <1>6, <1>8, a # b
  <2>2. Find(p, y) = y
    BY <1>1, <2>1, FindRoot
  <2> QED BY ONLY <2>1, <2>2, <1>4, y \in Units
<1>9. \A y \in Units : Find(q, y) = R[y]
  BY ONLY <1>3, <1>7, <1>8, FindUnique
<1> QED BY ONLY <1>2, <1>4, <1>9

\* What a union does to the ranks.
LEMMA HungRanks ==
  ASSUME NEW p, NEW r, Forest(p, r), NEW a \in Units, NEW b \in Units,
         p[a] = a, p[b] = b, a # b
  PROVE  /\ r[a] < r[b] => Forest([p EXCEPT ![a] = b], r)
         /\ r[a] = r[b] => Forest([p EXCEPT ![a] = b], [r EXCEPT ![b] = r[b] + 1])
<1>1. p \in [Units -> Units] /\ r \in [Units -> Nat] /\ \A x \in Units : p[x] # x => r[x] < r[p[x]]
  BY DEF Forest
<1>2. PICK q : q = [p EXCEPT ![a] = b]
  OBVIOUS
<1>3. q \in [Units -> Units] /\ \A y \in Units : (y = a => q[y] = b) /\ (y # a => q[y] = p[y])
  BY ONLY <1>1, <1>2, a \in Units, b \in Units
<1>4. r[a] < r[b] => Forest(q, r)
  BY ONLY <1>1, <1>3 DEF Forest
<1>5. ASSUME r[a] = r[b] PROVE Forest(q, [r EXCEPT ![b] = r[b] + 1])
  <2>1. PICK s : s = [r EXCEPT ![b] = r[b] + 1]
    OBVIOUS
  <2>2. r[b] \in Nat
    BY <1>1
  <2>3. s \in [Units -> Nat] /\ s[b] = r[b] + 1 /\ \A y \in Units : y # b => s[y] = r[y]
    BY ONLY <1>1, <2>1, <2>2, b \in Units
  <2>4. ASSUME NEW y \in Units, q[y] # y PROVE s[y] < s[q[y]]
    <3>1. CASE y = a
      <4>1. q[y] = b /\ s[y] = r[b]
        BY ONLY <1>3, <1>5, <2>3, <3>1, a \in Units, a # b
      <4> QED BY ONLY <4>1, <2>2, <2>3
    <3>2. CASE y # a
      <4>1. q[y] = p[y] /\ p[y] # y /\ p[y] \in Units /\ y # b
        BY ONLY <1>1, <1>3, <2>4, <3>2, p[b] = b
      <4>2. r[y] < r[p[y]] /\ s[y] = r[y] /\ r[y] \in Nat /\ r[p[y]] \in Nat
        BY ONLY <4>1, <1>1, <2>3, y \in Units
      <4>3. s[p[y]] = r[p[y]] \/ s[p[y]] = r[p[y]] + 1
        BY ONLY <4>1, <2>3
      <4> QED BY ONLY <4>1, <4>2, <4>3
    <3> QED BY ONLY <3>1, <3>2
  <2> QED BY ONLY <2>1, <2>3, <2>4, <1>3 DEF Forest
<1> QED BY ONLY <1>2, <1>4, <1>5

\* A union leaves one of the two roots standing for both.
LEMMA UnionIs ==
  ASSUME Forest(parent, rank), NEW a \in Units, NEW b \in Units, Union(a, b)
  PROVE  /\ Forest(parent', rank')
         /\ \E c, d \in Units :
              /\ {c, d} = {Find(parent, a), Find(parent, b)}
              /\ \A y \in Units : Find(parent', y) = IF Find(parent, y) = c THEN d ELSE Find(parent, y)
<1>1. PICK first : first = Compress(parent, a)
  OBVIOUS
<1>2. PICK found : found = Compress(first, b)
  OBVIOUS
<1>3. Forest(first, rank) /\ \A y \in Units : Find(first, y) = Find(parent, y)
  <2>1. Shortens(parent, first)
    BY <1>1, CompressShortens
  <2> QED BY ONLY <2>1, Forest(parent, rank), ShortensKeeps
<1>4. Forest(found, rank) /\ \A y \in Units : Find(found, y) = Find(parent, y)
  <2>1. Shortens(first, found)
    BY ONLY <1>2, <1>3, b \in Units, CompressShortens
  <2>2. Forest(found, rank) /\ \A y \in Units : Find(found, y) = Find(first, y)
    BY ONLY <1>3, <2>1, ShortensKeeps
  <2> QED BY ONLY <2>2, <1>3
<1>5. PICK ra : ra = Find(parent, a)
  OBVIOUS
<1>6. PICK rb : rb = Find(parent, b)
  OBVIOUS
<1>7. ra \in Units /\ rb \in Units /\ found[ra] = ra /\ found[rb] = rb
  <2>1. found \in [Units -> Units]
    BY <1>4 DEF Forest
  <2>2. Find(found, a) \in Units /\ Find(found, b) \in Units
    BY ONLY <2>1, a \in Units, b \in Units, FindType
  <2>3. found[Find(found, a)] = Find(found, a) /\ found[Find(found, b)] = Find(found, b)
    BY ONLY <1>4, a \in Units, b \in Units, RootIs
  <2> QED BY ONLY <2>2, <2>3, <1>4, <1>5, <1>6, a \in Units, b \in Units
<1>8. /\ ra = rb => parent' = found /\ rank' = rank
      /\ ra # rb /\ rank[ra] < rank[rb] => parent' = [found EXCEPT ![ra] = rb] /\ rank' = rank
      /\ ra # rb /\ ~(rank[ra] < rank[rb]) =>
           /\ parent' = [found EXCEPT ![rb] = ra]
           /\ rank[ra] = rank[rb] => rank' = [rank EXCEPT ![ra] = rank[ra] + 1]
           /\ rank[ra] # rank[rb] => rank' = rank
  BY <1>1, <1>2, <1>5, <1>6 DEF Union
<1>9. rank[ra] \in Nat /\ rank[rb] \in Nat
  <2>1. rank \in [Units -> Nat]
    BY DEF Forest
  <2> QED BY ONLY <2>1, <1>7
<1>10. CASE ra = rb
  <2>1. Forest(parent', rank')
    BY ONLY <1>10, <1>8, <1>4
  <2>2. \A y \in Units : Find(parent', y) = IF Find(parent, y) = ra THEN ra ELSE Find(parent, y)
    BY ONLY <1>10, <1>8, <1>4
  <2> QED BY ONLY <2>1, <2>2, <1>5, <1>6, <1>7, <1>10
<1>11. CASE ra # rb /\ rank[ra] < rank[rb]
  <2>1. parent' = [found EXCEPT ![ra] = rb] /\ rank' = rank
    BY ONLY <1>11, <1>8
  <2>2. Forest([found EXCEPT ![ra] = rb], rank)
    BY ONLY <1>4, <1>7, <1>11, HungRanks
  <2>3. \A y \in Units : Find([found EXCEPT ![ra] = rb], y) = IF Find(found, y) = ra THEN rb ELSE Find(found, y)
    BY ONLY <1>4, <1>7, <1>11, <2>2, Hang
  <2>4. \A y \in Units : Find(parent', y) = IF Find(parent, y) = ra THEN rb ELSE Find(parent, y)
    BY ONLY <2>1, <2>3, <1>4
  <2>5. Forest(parent', rank')
    BY ONLY <2>1, <2>2
  <2> QED BY ONLY <2>4, <2>5, <1>5, <1>6, <1>7
<1>12. CASE ra # rb /\ ~(rank[ra] < rank[rb])
  <2>1. parent' = [found EXCEPT ![rb] = ra]
    BY ONLY <1>12, <1>8
  <2>2. Forest([found EXCEPT ![rb] = ra], rank')
    <3>1. CASE rank[ra] = rank[rb]
      <4>1. rank' = [rank EXCEPT ![ra] = rank[ra] + 1]
        BY ONLY <3>1, <1>12, <1>8
      <4>2. Forest([found EXCEPT ![rb] = ra], [rank EXCEPT ![ra] = rank[ra] + 1])
        BY ONLY <3>1, <1>4, <1>7, <1>12, HungRanks
      <4> QED BY ONLY <4>1, <4>2
    <3>2. CASE rank[ra] # rank[rb]
      <4>1. rank' = rank /\ rank[rb] < rank[ra]
        BY ONLY <3>2, <1>8, <1>9, <1>12
      <4>2. Forest([found EXCEPT ![rb] = ra], rank)
        BY ONLY <4>1, <1>4, <1>7, <1>12, HungRanks
      <4> QED BY ONLY <4>1, <4>2
    <3> QED BY ONLY <3>1, <3>2
  <2>3. \A y \in Units : Find([found EXCEPT ![rb] = ra], y) = IF Find(found, y) = rb THEN ra ELSE Find(found, y)
    BY ONLY <1>4, <1>7, <1>12, <2>2, Hang
  <2>4. \A y \in Units : Find(parent', y) = IF Find(parent, y) = rb THEN ra ELSE Find(parent, y)
    BY ONLY <2>1, <2>3, <1>4
  <2>5. Forest(parent', rank')
    BY ONLY <2>1, <2>2
  <2>6. {rb, ra} = {Find(parent, a), Find(parent, b)}
    BY ONLY <1>5, <1>6
  <2> QED BY ONLY <2>4, <2>5, <2>6, <1>7
<1> QED BY ONLY <1>10, <1>11, <1>12

\* A pair has one root, and a set that no pair leaves holds whole trees.
PairsJoined ==
    /\ joined \subseteq Pairs
    /\ \A p \in joined : Find(parent, p[1]) = Find(parent, p[2])
    /\ \A m \in SUBSET Units : Closed(joined, m) =>
          \A x, y \in Units : Find(parent, x) = Find(parent, y) /\ x \in m => y \in m

LEMMA UnionJoins ==
  ASSUME Forest(parent, rank), PairsJoined, NEW p \in Pairs, UnionPair(p)
  PROVE  Forest(parent', rank') /\ PairsJoined'
<1>1. PICK a, b : a = p[1] /\ b = p[2]
  OBVIOUS
<1>2. a \in Units /\ b \in Units
  BY <1>1, DerivedAssumption
<1>3. Union(a, b) /\ joined' = joined \cup {p}
  BY <1>1 DEF UnionPair
<1>4. Forest(parent', rank')
  BY ONLY <1>2, <1>3, Forest(parent, rank), UnionIs
<1>5. PICK c \in Units, d \in Units :
         /\ {c, d} = {Find(parent, a), Find(parent, b)}
         /\ \A y \in Units : Find(parent', y) = IF Find(parent, y) = c THEN d ELSE Find(parent, y)
  BY ONLY <1>2, <1>3, Forest(parent, rank), UnionIs
<1>6. /\ joined \subseteq Pairs
      /\ \A q \in joined : Find(parent, q[1]) = Find(parent, q[2])
      /\ \A m \in SUBSET Units : Closed(joined, m) =>
            \A x, y \in Units : Find(parent, x) = Find(parent, y) /\ x \in m => y \in m
  BY DEF PairsJoined
<1>7. ASSUME NEW q \in joined' PROVE q \in Pairs /\ Find(parent', q[1]) = Find(parent', q[2])
  <2>1. q \in Pairs
    BY ONLY <1>3, <1>6, q \in joined', p \in Pairs
  <2>2. q[1] \in Units /\ q[2] \in Units
    BY <2>1, DerivedAssumption
  <2>3. CASE q = p
    BY ONLY <2>3, <1>1, <1>2, <1>5
  <2>4. CASE q \in joined
    BY ONLY <2>2, <2>4, <1>5, <1>6
  <2> QED BY ONLY <2>1, <2>3, <2>4, <1>3, q \in joined'
<1>8. ASSUME NEW m \in SUBSET Units, Closed(joined', m), NEW x \in Units, NEW y \in Units,
             Find(parent', x) = Find(parent', y), x \in m
      PROVE  y \in m
  <2>1. Closed(joined, m) /\ (a \in m <=> b \in m)
    BY <1>1, <1>3, <1>8 DEF Closed
  <2>2. ASSUME NEW z \in Units, NEW w \in Units, Find(parent, z) = Find(parent, w), z \in m PROVE w \in m
    BY ONLY <2>1, <2>2, <1>6, m \in SUBSET Units
  <2>3. CASE Find(parent, x) = Find(parent, y)
    BY ONLY <2>2, <2>3, <1>8, x \in Units, y \in Units
  <2>4. CASE Find(parent, x) # Find(parent, y)
    <3>1. /\ Find(parent, x) = Find(parent, a) \/ Find(parent, x) = Find(parent, b)
          /\ Find(parent, y) = Find(parent, a) \/ Find(parent, y) = Find(parent, b)
      BY ONLY <2>4, <1>5, <1>8, x \in Units, y \in Units
    <3>2. a \in m \/ b \in m
      BY ONLY <3>1, <2>2, <1>2, <1>8, x \in Units
    <3>3. a \in m /\ b \in m
      BY ONLY <3>2, <2>1
    <3> QED BY ONLY <3>1, <3>3, <2>2, <1>2, y \in Units
  <2> QED BY ONLY <2>3, <2>4
<1>9. PairsJoined'
  <2>1. joined' \subseteq Pairs /\ \A q \in joined' : Find(parent', q[1]) = Find(parent', q[2])
    BY ONLY <1>7
  <2>2. \A m \in SUBSET Units : Closed(joined', m) =>
            \A x, y \in Units : Find(parent', x) = Find(parent', y) /\ x \in m => y \in m
    BY ONLY <1>8
  <2> QED BY ONLY <2>1, <2>2 DEF PairsJoined, Find, Walk, Closed
<1> QED BY ONLY <1>4, <1>9

\* The trees are the components.
LEMMA TreesAre ==
  ASSUME PairsJoined, NEW x \in Units
  PROVE  {y \in Units : Find(parent, y) = Find(parent, x)} = Connected(joined, x)
<1>1. PICK M : M = {y \in Units : Find(parent, y) = Find(parent, x)}
  OBVIOUS
<1>2. M \in SUBSET Units /\ x \in M
  BY <1>1
<1>3. Closed(joined, M)
  <2>1. ASSUME NEW p \in joined PROVE p[1] \in M <=> p[2] \in M
    <3>1. p[1] \in Units /\ p[2] \in Units /\ Find(parent, p[1]) = Find(parent, p[2])
      BY DerivedAssumption DEF PairsJoined
    <3> QED BY ONLY <3>1, <1>1
  <2> QED BY ONLY <2>1 DEF Closed
<1>4. ASSUME NEW y \in M, NEW m \in SUBSET Units, x \in m, Closed(joined, m) PROVE y \in m
  <2>1. y \in Units /\ Find(parent, x) = Find(parent, y)
    BY ONLY <1>1, y \in M
  <2> QED BY <2>1, <1>4 DEF PairsJoined
<1>5. ASSUME NEW y \in Connected(joined, x) PROVE y \in M
  BY <1>2, <1>3 DEF Connected
<1>6. ASSUME NEW y \in M PROVE y \in Connected(joined, x)
  BY <1>2, <1>4 DEF Connected
<1> QED BY ONLY <1>1, <1>5, <1>6

\* The cluster index over trees that are the components.
LEMMA NodesAre ==
  ASSUME PairsJoined
  PROVE  /\ Nodes(joined) \subseteq Units /\ IsFiniteSet(Nodes(joined)) /\ IsFiniteSet(joined)
         /\ \A x \in Nodes(joined) : \E p \in joined : x = p[1] \/ x = p[2]
         /\ \A p \in joined : p[1] \in Nodes(joined) /\ p[2] \in Nodes(joined) /\ p[1] # p[2]
         /\ \A x \in Nodes(joined) : \A y \in Units : Find(parent, y) = Find(parent, x) => y \in Nodes(joined)
<1>1. \A p \in joined : p \in Units \X Units /\ p[1] \in Units /\ p[2] \in Units /\ p[1] < p[2]
  BY DerivedAssumption DEF PairsJoined
<1>2. \A p \in joined : p[1] # p[2]
  <2>1. ASSUME NEW p \in joined PROVE p[1] # p[2]
    <3>1. p[1] \in Nat /\ p[2] \in Nat /\ p[1] < p[2]
      BY <1>1, DerivedAssumption
    <3> QED BY ONLY <3>1
  <2> QED BY ONLY <2>1
<1>3. PICK N : N = Nodes(joined)
  OBVIOUS
<1>4. \A x : x \in N <=> \E p \in joined : x = p[1] \/ x = p[2]
  BY <1>3 DEF Nodes
<1>5. N \in SUBSET Units
  BY ONLY <1>1, <1>4
<1>6. IsFiniteSet(N)
  BY <1>5, DerivedAssumption, FS_Subset
<1>7. IsFiniteSet(joined)
  <2>1. IsFiniteSet(Units \X Units)
    BY DerivedAssumption, FS_Product
  <2>2. joined \in SUBSET (Units \X Units)
    BY ONLY <1>1
  <2> QED BY ONLY <2>1, <2>2, FS_Subset
<1>8. \A p \in joined : p[1] \in N /\ p[2] \in N
  BY ONLY <1>4
<1>9. Closed(joined, N)
  BY ONLY <1>8 DEF Closed
<1>10. \A x \in N : \A y \in Units : Find(parent, y) = Find(parent, x) => y \in N
  <2>1. ASSUME NEW x \in N, NEW y \in Units, Find(parent, y) = Find(parent, x) PROVE y \in N
    <3>1. x \in Units /\ Find(parent, x) = Find(parent, y)
      BY ONLY <1>5, <2>1
    <3> QED BY ONLY <3>1, <1>5, <1>9, x \in N, y \in Units, PairsJoined DEF PairsJoined
  <2> QED BY ONLY <2>1
<1> QED BY ONLY <1>2, <1>3, <1>4, <1>5, <1>6, <1>7, <1>8, <1>10

TreeOf(x) == {y \in Nodes(joined) : Find(parent, y) = Find(parent, x)}

LEMMA LargeIs ==
  ASSUME PairsJoined
  PROVE  Large = {TreeOf(x) : x \in Nodes(joined)}
<1>1. ASSUME NEW x \in Nodes(joined) PROVE Cardinality(TreeOf(x)) >= 2
  <2>1. PICK p \in joined : x = p[1] \/ x = p[2]
    BY NodesAre
  <2>2. PICK a, b : a = p[1] /\ b = p[2]
    OBVIOUS
  <2>3. a \in Nodes(joined) /\ b \in Nodes(joined) /\ a # b
    BY <2>2, NodesAre
  <2>4. Find(parent, a) = Find(parent, b)
    BY <2>2 DEF PairsJoined
  <2>5. PICK m : m = TreeOf(x)
    OBVIOUS
  <2>6. a \in m /\ b \in m
    BY <2>1, <2>2, <2>3, <2>4, <2>5 DEF TreeOf
  <2>7. IsFiniteSet(m)
    <3>1. m \in SUBSET Nodes(joined) /\ IsFiniteSet(Nodes(joined))
      BY <2>5, NodesAre DEF TreeOf
    <3> QED BY ONLY <3>1, FS_Subset
  <2>8. IsFiniteSet({a}) /\ Cardinality({a}) = 1
    BY FS_Singleton
  <2>9. PICK t : t = {a} \cup {b}
    OBVIOUS
  <2>10. IsFiniteSet(t) /\ Cardinality(t) = 2
    <3>1. IsFiniteSet({a} \cup {b}) /\ Cardinality({a} \cup {b}) = IF b \in {a} THEN Cardinality({a}) ELSE Cardinality({a}) + 1
      BY ONLY <2>8, FS_AddElement
    <3>2. b \notin {a}
      BY <2>3
    <3> QED BY ONLY <3>1, <3>2, <2>8, <2>9
  <2>11. t \in SUBSET m
    BY ONLY <2>6, <2>9
  <2>12. Cardinality(t) <= Cardinality(m) /\ Cardinality(m) \in Nat
    BY ONLY <2>7, <2>11, FS_Subset, FS_CardinalityType
  <2> QED BY ONLY <2>5, <2>10, <2>12
<1>2. Components = {TreeOf(x) : x \in Nodes(joined)}
  BY DEF Components, TreeOf
<1>3. PICK C : C = {TreeOf(x) : x \in Nodes(joined)}
  OBVIOUS
<1>4. \A c \in C : Cardinality(c) >= 2
  BY <1>1, <1>3
<1>5. Large = {c \in C : Cardinality(c) >= 2}
  BY ONLY <1>2, <1>3 DEF Large
<1> QED BY ONLY <1>3, <1>4, <1>5

\* Every file of a pair is in one cluster.
LEMMA ClusteredIs ==
  ASSUME PairsJoined
  PROVE  ClusterIndex.clustered = Cardinality(Nodes(joined))
<1>1. PICK S : S = UNION {{<<m, y>> : y \in m} : m \in Large}
  OBVIOUS
<1>2. ClusterIndex.clustered = Cardinality(S)
  BY <1>1 DEF ClusterIndex
<1>3. PICK N : N = Nodes(joined)
  OBVIOUS
<1>4. PICK g : g = [y \in N |-> <<TreeOf(y), y>>]
  OBVIOUS
<1>5. \A c : c \in S <=> \E m \in Large : \E y \in m : c = <<m, y>>
  <2>1. ASSUME NEW c PROVE c \in S <=> \E m \in Large : c \in {<<m, y>> : y \in m}
    BY ONLY <1>1
  <2>2. ASSUME NEW c, NEW m PROVE c \in {<<m, y>> : y \in m} <=> \E y \in m : c = <<m, y>>
    OBVIOUS
  <2> QED BY ONLY <2>1, <2>2
<1>6. \A m : m \in Large <=> \E x \in N : m = TreeOf(x)
  <2>1. Large = {TreeOf(x) : x \in N}
    BY <1>3, LargeIs
  <2> QED BY ONLY <2>1
<1>7. \A x, y : y \in TreeOf(x) <=> y \in N /\ Find(parent, y) = Find(parent, x)
  BY <1>3 DEF TreeOf
<1>8. ASSUME NEW y \in N PROVE <<TreeOf(y), y>> \in S
  <2>1. TreeOf(y) \in Large /\ y \in TreeOf(y)
    BY ONLY <1>6, <1>7, y \in N
  <2> QED BY ONLY <2>1, <1>5
<1>9. ASSUME NEW c \in S PROVE \E y \in N : g[y] = c
  <2>0. PICK m \in Large : \E y \in m : c = <<m, y>>
    BY ONLY <1>5, c \in S
  <2>1. PICK y \in m : c = <<m, y>>
    BY ONLY <2>0
  <2>2. PICK x \in N : m = TreeOf(x)
    BY ONLY <1>6, m \in Large
  <2>3. y \in N /\ Find(parent, y) = Find(parent, x)
    BY ONLY <1>7, <2>2, y \in m
  <2>4. TreeOf(y) = TreeOf(x)
    BY ONLY <1>3, <2>3 DEF TreeOf
  <2> QED BY ONLY <1>4, <2>1, <2>2, <2>3, <2>4
<1>10. g \in [N -> S]
  BY ONLY <1>4, <1>8
<1>11. \A x, y \in N : g[x] = g[y] => x = y
  <2>1. ASSUME NEW x \in N, NEW y \in N, g[x] = g[y] PROVE x = y
    <3>1. <<TreeOf(x), x>> = <<TreeOf(y), y>>
      BY ONLY <1>4, <2>1
    <3> QED BY ONLY <3>1
  <2> QED BY ONLY <2>1
<1>12. g \in Bijection(N, S)
  BY ONLY <1>9, <1>10, <1>11 DEF Bijection, Injection, Surjection, IsInjective
<1>13. ExistsBijection(N, S)
  BY ONLY <1>12 DEF ExistsBijection
<1>14. IsFiniteSet(N)
  BY <1>3, NodesAre
<1>15. Cardinality(S) = Cardinality(N)
  BY ONLY <1>13, <1>14, FS_Bijection
<1> QED BY ONLY <1>2, <1>3, <1>15

\* The centroid is a file of the largest degree.
LEMMA CentroidIs ==
  ASSUME PairsJoined, NEW m \in Large
  PROVE  Centroid(m) \in m /\ \A y \in m : Degree(m, y) <= Degree(m, Centroid(m))
<1>1. PICK z \in Nodes(joined) : m = TreeOf(z)
  BY LargeIs
<1>2. z \in m /\ m \subseteq Units /\ m \subseteq Nodes(joined)
  BY <1>1, NodesAre DEF TreeOf
<1>3. ASSUME NEW y \in m PROVE Degree(m, y) \in Nat /\ Degree(m, y) <= Cardinality(joined)
  <2>1. PICK E : E = {p \in joined : {p[1], p[2]} \subseteq m /\ y \in {p[1], p[2]}}
    OBVIOUS
  <2>2. E \in SUBSET joined /\ IsFiniteSet(joined)
    BY <2>1, NodesAre
  <2>3. Cardinality(E) \in Nat /\ Cardinality(E) <= Cardinality(joined)
    BY ONLY <2>2, FS_Subset, FS_CardinalityType
  <2> QED BY ONLY <2>1, <2>3 DEF Degree
<1>4. PICK B : B = {Degree(m, y) : y \in m}
  OBVIOUS
<1>5. B \in SUBSET Nat /\ B # {} /\ \A n \in B : n <= Cardinality(joined)
  BY ONLY <1>2, <1>3, <1>4
<1>6. IsFiniteSet(B)
  <2>1. Cardinality(joined) \in Nat
    BY NodesAre, FS_CardinalityType
  <2> QED BY ONLY <1>5, <2>1, FS_BoundedSetOfNaturals
<1>7. PICK D \in B : \A n \in B : n <= D
  BY ONLY <1>5, <1>6, LargestOf
<1>8. PICK T : T = {y \in m : Degree(m, y) = D}
  OBVIOUS
<1>9. T \in SUBSET Nat /\ T # {} /\ IsFiniteSet(T)
  <2>1. T # {}
    BY ONLY <1>4, <1>8, D \in B
  <2>2. T \in SUBSET Units /\ IsFiniteSet(Units) /\ Units \subseteq Nat
    BY <1>2, <1>8, DerivedAssumption
  <2>3. IsFiniteSet(T)
    BY ONLY <2>2, FS_Subset
  <2> QED BY ONLY <2>1, <2>2, <2>3
<1>10. PICK x \in T : \A n \in T : n <= x
  BY ONLY <1>9, LargestOf
<1>11. x \in m /\ Degree(m, x) = D
  BY ONLY <1>8, x \in T
<1>12. ASSUME NEW y \in m
       PROVE  Degree(m, y) < Degree(m, x) \/ (Degree(m, y) = Degree(m, x) /\ y <= x)
  <2>1. Degree(m, y) \in B /\ Degree(m, y) \in Nat /\ D \in Nat
    BY ONLY <1>3, <1>4, <1>5, y \in m, D \in B
  <2>2. Degree(m, y) <= D
    BY ONLY <1>7, <2>1
  <2>3. CASE Degree(m, y) = D
    BY ONLY <2>3, <1>8, <1>10, <1>11, y \in m
  <2> QED BY ONLY <2>1, <2>2, <2>3, <1>11
<1>13. PICK c : c = Centroid(m)
  OBVIOUS
<1>14. c \in m /\ \A y \in m : Degree(m, y) < Degree(m, c) \/ (Degree(m, y) = Degree(m, c) /\ y <= c)
  BY ONLY <1>11, <1>12, <1>13 DEF Centroid
<1>15. ASSUME NEW y \in m PROVE Degree(m, y) <= Degree(m, c)
  <2>1. Degree(m, y) \in Nat /\ Degree(m, c) \in Nat
    BY ONLY <1>3, <1>14, y \in m
  <2> QED BY ONLY <2>1, <1>14, y \in m
<1> QED BY ONLY <1>13, <1>14, <1>15

LEMMA ClustersHold ==
  ASSUME Forest(parent, rank), PairsJoined
  PROVE  ClustersAreComponents
<1>1. ASSUME NEW x \in Nodes(joined)
      PROVE  {y \in Nodes(joined) : Find(parent, y) = Find(parent, x)} = Connected(joined, x)
  <2>1. x \in Units /\ Nodes(joined) \subseteq Units
    BY NodesAre
  <2>2. {y \in Units : Find(parent, y) = Find(parent, x)} = Connected(joined, x)
    BY <2>1, TreesAre
  <2>3. \A y \in Units : Find(parent, y) = Find(parent, x) => y \in Nodes(joined)
    BY NodesAre
  <2> QED BY ONLY <2>1, <2>2, <2>3
<1>2. ASSUME NEW x \in Units, parent[x] # x PROVE rank[parent[x]] > rank[x]
  <2>1. parent \in [Units -> Units] /\ rank \in [Units -> Nat] /\ rank[x] < rank[parent[x]]
    BY <1>2 DEF Forest
  <2>2. rank[x] \in Nat /\ rank[parent[x]] \in Nat
    BY ONLY <2>1, x \in Units
  <2> QED BY ONLY <2>1, <2>2
<1>3. ClusterIndex.clustered = Cardinality(Nodes(joined))
  BY ClusteredIs
<1>4. ASSUME NEW c \in ClusterIndex.clusters
      PROVE  \A y \in c.members : Degree(c.members, y) <= Degree(c.members, c.centroid)
  <2>1. c \in {[members |-> m, centroid |-> Centroid(m), intra |-> IntraEdges(m)] : m \in Large}
    BY <1>4 DEF ClusterIndex
  <2>2. PICK m \in Large : c = [members |-> m, centroid |-> Centroid(m), intra |-> IntraEdges(m)]
    BY ONLY <2>1
  <2>3. c.members = m /\ c.centroid = Centroid(m)
    BY ONLY <2>2
  <2>4. \A y \in m : Degree(m, y) <= Degree(m, Centroid(m))
    BY CentroidIs
  <2> QED BY ONLY <2>3, <2>4
<1> QED BY ONLY <1>1, <1>2, <1>3, <1>4 DEF ClustersAreComponents

-----------------------------------------------------------------------------
(* DerivedGraph: edge keys read back.                                           *)

\* Node keys are sequences over slugs and namespaces.
LEMMA NodeKeyIs ==
  ASSUME NEW k \in NodeKeys
  PROVE  /\ k \in Seq(Namespaces \cup Slugs) /\ k[1] \in Namespaces
         /\ Len(k) = 2 \/ Len(k) = 3
<1>1. (\E n \in Namespaces, s \in Slugs : k = <<n, s>>) \/ (\E n \in Namespaces, s, t \in Slugs : k = <<n, s, t>>)
  BY DEF NodeKeys
<1>2. ASSUME NEW n \in Namespaces, NEW s \in Slugs, k = <<n, s>>
      PROVE  k \in Seq(Namespaces \cup Slugs) /\ k[1] \in Namespaces /\ Len(k) = 2
  BY <1>2
<1>3. ASSUME NEW n \in Namespaces, NEW s \in Slugs, NEW t \in Slugs, k = <<n, s, t>>
      PROVE  k \in Seq(Namespaces \cup Slugs) /\ k[1] \in Namespaces /\ Len(k) = 3
  BY <1>3
<1> QED BY <1>1, <1>2, <1>3

\* The only split that leaves a namespace on the right is the one that was
\* written: the kind of the edge is no namespace, and no slug stands at its place.
LEMMA RoundTripOne ==
  ASSUME NEW e \in Edges
  PROVE  FromKey(ToKey(e)) = {e}
<1>1. PICK a, k, b : a = e.from /\ k = e.kind /\ b = e.to
  OBVIOUS
<1>2. a \in NodeKeys /\ k \in EdgeKinds /\ b \in NodeKeys /\ e = [from |-> a, kind |-> k, to |-> b]
  BY <1>1 DEF Edges
<1>3. PICK V : V = Namespaces \cup Slugs \cup EdgeKinds
  OBVIOUS
<1>4. a \in Seq(V) /\ b \in Seq(V) /\ k \in V /\ (Len(a) = 2 \/ Len(a) = 3) /\ (Len(b) = 2 \/ Len(b) = 3)
      /\ a[1] \in Namespaces /\ b[1] \in Namespaces
  <2>1. Seq(Namespaces \cup Slugs) \subseteq Seq(V)
    BY <1>3
  <2> QED BY <1>2, <1>3, <2>1, NodeKeyIs
<1>5. PICK key : key = a \o <<k>> \o b
  OBVIOUS
<1>6. PICK la, lb : la = Len(a) /\ lb = Len(b)
  OBVIOUS
<1>7. key \in Seq(V) /\ Len(key) = la + 1 + lb
  BY <1>4, <1>5, <1>6
<1>8. \A i \in 1..la : key[i] = a[i]
  BY <1>4, <1>5, <1>6
<1>9. key[la + 1] = k
  BY <1>4, <1>5, <1>6
<1>10. \A i \in 1..lb : key[la + 1 + i] = b[i]
  BY <1>4, <1>5, <1>6
<1>11. ASSUME NEW i \in Splits(key) PROVE i = la + 1
  <2>1. i \in 2..(Len(key) - 1) /\ key[i] \in EdgeKinds
        /\ IsValidNodeKey(SubSeq(key, 1, i - 1)) /\ IsValidNodeKey(SubSeq(key, i + 1, Len(key)))
    BY DEF Splits
  <2>2. la \in {2, 3} /\ lb \in {2, 3}
    BY <1>4, <1>6
  <2>3. Len(key) = la + 1 + lb /\ key \in Seq(V)
    BY <1>7
  <2>4. i - 1 >= 2 /\ Len(key) - i >= 2
    <3>1. Len(SubSeq(key, 1, i - 1)) = i - 1 /\ Len(SubSeq(key, i + 1, Len(key))) = Len(key) - i
      BY ONLY <2>1, <2>2, <2>3
    <3> QED BY ONLY <2>1, <3>1 DEF IsValidNodeKey
  <2>5. key[i + 1] \in Namespaces
    <3>1. SubSeq(key, i + 1, Len(key))[1] = key[i + 1]
      BY ONLY <2>1, <2>2, <2>3, <2>4
    <3> QED BY ONLY <2>1, <3>1 DEF IsValidNodeKey
  <2>6. i = 3 \/ i = 4 \/ i = 5
    BY ONLY <2>1, <2>2, <2>3, <2>4
  <2>7. i # la
    <3>1. CASE i = la
      <4>1. key[i + 1] \in EdgeKinds
        BY ONLY <3>1, <1>2, <1>9
      <4> QED BY ONLY <4>1, <2>5, DerivedAssumption DEF DerivedAssumption
    <3> QED BY ONLY <3>1
  <2>8. i # la + 2
    <3>1. CASE i = la + 2
      <4>1. 1 \in 1..lb /\ la + 1 + 1 = i
        BY ONLY <3>1, <2>2
      <4>2. key[i] \in Namespaces
        BY ONLY <4>1, <1>4, <1>10
      <4> QED BY ONLY <4>2, <2>1, DerivedAssumption DEF DerivedAssumption
    <3> QED BY ONLY <3>1
  <2> QED BY ONLY <2>2, <2>3, <2>4, <2>6, <2>7, <2>8
<1>12. SubSeq(key, 1, la) = a
  <2>1. a \in Seq(V) /\ la = Len(a) /\ la \in Nat /\ lb \in Nat
    BY <1>4, <1>6
  <2>2. SubSeq(key, 1, la) \in Seq(V) /\ Len(SubSeq(key, 1, la)) = la
        /\ \A i \in 1..la : SubSeq(key, 1, la)[i] = key[i]
    BY ONLY <2>1, <1>7
  <2> QED BY ONLY <2>1, <2>2, <1>8
<1>13. SubSeq(key, la + 2, Len(key)) = b
  <2>1. b \in Seq(V) /\ lb = Len(b) /\ la \in Nat /\ lb \in Nat
    BY <1>4, <1>6
  <2>2. SubSeq(key, la + 2, Len(key)) \in Seq(V) /\ Len(SubSeq(key, la + 2, Len(key))) = lb
        /\ \A i \in 1..lb : SubSeq(key, la + 2, Len(key))[i] = key[la + 1 + i]
    BY ONLY <2>1, <1>7
  <2>3. PICK t : t = SubSeq(key, la + 2, Len(key))
    OBVIOUS
  <2>4. t \in Seq(V) /\ Len(t) = Len(b) /\ \A i \in 1..Len(t) : t[i] = b[i]
    BY ONLY <2>1, <2>2, <2>3, <1>10
  <2>5. t = b
    BY ONLY <2>1, <2>4, SeqEqual
  <2> QED BY ONLY <2>3, <2>5
<1>14. la + 1 \in Splits(key)
  <2>1. la \in {2, 3} /\ lb \in {2, 3}
    BY <1>4, <1>6
  <2>2. la + 1 \in 2..(Len(key) - 1) /\ (la + 1) - 1 = la /\ (la + 1) + 1 = la + 2
    BY ONLY <2>1, <1>7
  <2>3. IsValidNodeKey(a) /\ IsValidNodeKey(b)
    <3>1. Len(a) >= 2 /\ Len(b) >= 2
      BY ONLY <2>1, <1>6
    <3>2. a[1] \in Namespaces /\ b[1] \in Namespaces
      BY ONLY <1>4
    <3> QED BY ONLY <3>1, <3>2 DEF IsValidNodeKey
  <2> QED BY ONLY <2>2, <2>3, <1>2, <1>9, <1>12, <1>13 DEF Splits
<1>15. Splits(key) = {la + 1}
  BY ONLY <1>11, <1>14
<1>16. Min(Splits(key)) = la + 1
  <2>1. la + 1 \in Nat
    BY <1>4, <1>6
  <2>2. Splits(key) \in SUBSET Nat /\ Splits(key) # {}
    BY ONLY <2>1, <1>15
  <2>3. Min(Splits(key)) \in Splits(key)
    BY ONLY <2>2, MinIs
  <2> QED BY ONLY <2>3, <1>15
<1>17. FromKey(key) = {[from |-> a, kind |-> k, to |-> b]}
  <2>1. la \in Nat /\ (la + 1) - 1 = la /\ (la + 1) + 1 = la + 2
    BY <1>4, <1>6
  <2>2. Splits(key) # {}
    BY ONLY <1>14
  <2> QED BY ONLY <2>1, <2>2, <1>9, <1>12, <1>13, <1>16 DEF FromKey
<1>18. ToKey(e) = key
  BY <1>1, <1>5 DEF ToKey
<1> QED BY ONLY <1>2, <1>17, <1>18

-----------------------------------------------------------------------------
(* DerivedGraph: the theorem.                                                   *)

DgInv == /\ GraphTypes /\ BlastAgree /\ InheritedExact
         /\ Forest(parent, rank) /\ PairsJoined
         /\ edgeKey \subseteq Edges

LEMMA DgInvExact == ASSUME DgInv PROVE DerivedExact
<1>1. EdgeRoundTrip
  BY RoundTripOne DEF EdgeRoundTrip, DgInv
<1>2. ClustersAreComponents
  BY ClustersHold DEF DgInv
<1> QED BY <1>1, <1>2 DEF DgInv, DerivedExact

LEMMA DgInitInv == ASSUME DgInit PROVE DgInv
<1>1. GraphTypes
  BY DEF DgInit, GraphInit, GraphTypes
<1>2. BlastAgree /\ InheritedExact
  BY DEF DgInit, GraphInit, BlastAgree, InheritedExact
<1>3. parent = [x \in Units |-> x] /\ rank = [x \in Units |-> 0] /\ joined = {}
  BY DEF DgInit, ClusterInit
<1>4. Forest(parent, rank)
  BY ONLY <1>3 DEF Forest
<1>5. \A x \in Units : Find(parent, x) = x
  <2>1. parent \in [Units -> Units] /\ \A x \in Units : parent[x] = x
    BY ONLY <1>3
  <2> QED BY ONLY <2>1, FindRoot
<1>6. PairsJoined
  <2>1. ASSUME NEW m \in SUBSET Units, NEW x \in Units, NEW y \in Units,
               Find(parent, x) = Find(parent, y), x \in m
        PROVE  y \in m
    BY ONLY <1>5, <2>1
  <2> QED BY ONLY <1>3, <2>1 DEF PairsJoined
<1>7. edgeKey \subseteq Edges
  BY DEF DgInit
<1> QED BY <1>1, <1>2, <1>4, <1>6, <1>7 DEF DgInv

\* What the graph writers leave of the trees, and union of the graph.
LEMMA TreesStay ==
  ASSUME DgInv, clusterVars' = clusterVars
  PROVE  Forest(parent', rank') /\ PairsJoined'
<1>1. parent' = parent /\ rank' = rank /\ joined' = joined
  BY DEF clusterVars
<1>2. Forest(parent, rank) /\ PairsJoined
  BY DEF DgInv
<1>3. Forest(parent', rank')
  BY ONLY <1>1, <1>2
<1>4. joined \subseteq Pairs /\ \A p \in joined : Find(parent, p[1]) = Find(parent, p[2])
  BY <1>2 DEF PairsJoined
<1>5. \A m \in SUBSET Units : Closed(joined, m) =>
        \A x, y \in Units : Find(parent, x) = Find(parent, y) /\ x \in m => y \in m
  BY <1>2 DEF PairsJoined
<1>6. joined' \subseteq Pairs /\ \A p \in joined' : Find(parent', p[1]) = Find(parent', p[2])
  BY ONLY <1>1, <1>4
<1>7. \A m \in SUBSET Units : Closed(joined', m) =>
        \A x, y \in Units : Find(parent', x) = Find(parent', y) /\ x \in m => y \in m
  BY ONLY <1>1, <1>5
<1>8. PairsJoined'
  BY ONLY <1>6, <1>7 DEF PairsJoined, Find, Walk, Closed
<1> QED BY <1>3, <1>8

LEMMA GraphStays ==
  ASSUME DgInv, graphVars' = graphVars
  PROVE  GraphTypes' /\ BlastAgree' /\ InheritedExact'
<1>1. imports' = imports /\ level' = level /\ blast' = blast /\ prop' = prop /\ exact' = exact /\ by' = by
  BY DEF graphVars
<1>2. GraphTypes'
  BY <1>1 DEF DgInv, GraphTypes
<1>3. BlastAgree'
  BY <1>1, QuietAgrees DEF DgInv
<1>4. exact => \A f \in Units : InheritedAt(imports, level, prop, f)
  BY InheritedIs DEF DgInv
<1>5. InheritedExact'
  BY <1>1, <1>4, InheritedNext
<1> QED BY <1>2, <1>3, <1>5

LEMMA InitInherits ==
  ASSUME GraphTypes, NEW parsed \in SUBSET Units, NEW new \in SUBSET MoreEdges,
         NEW loaded, NEW blastOk, NEW propOk, InitRun(parsed, new, loaded, blastOk, propOk)
  PROVE  GraphTypes' /\ InheritedExact'
<1>1. /\ imports' = imports \cup new
      /\ level' = [f \in Units |-> IF f \in parsed THEN 0 ELSE level[f]]
      /\ exact' = (loaded /\ propOk)
  BY DEF InitRun
<1>2. GraphTypes'
  BY <1>1 DEF GraphTypes
<1>3. ASSUME exact' PROVE \A f \in Units : InheritedAt(imports', level', prop', f)
  <2>1. loaded /\ propOk
    BY <1>1, <1>3
  <2>2. PICK blank : blank = [f \in Units |-> IF f \in parsed THEN NoProp ELSE prop[f]]
    OBVIOUS
  <2>3. prop' = WriteProps(imports', level', Units, blank, {})
    BY <1>1, <2>1, <2>2 DEF InitRun
  <2>4. level' \in [Units -> Nat]
    BY <1>2 DEF GraphTypes
  <2> QED BY <2>3, <2>4, InheritsAt
<1> QED BY <1>2, <1>3, InheritedNext

LEMMA RepairInherits ==
  ASSUME DgInv, NEW blastOk, NEW scanned, NEW lost, RepairRun(blastOk, scanned, lost)
  PROVE  GraphTypes' /\ InheritedExact'
<1>1. imports' = imports /\ level' = level
  BY DEF RepairRun
<1>2. GraphTypes'
  BY <1>1 DEF DgInv, GraphTypes
<1>3. level \in [Units -> Nat]
  BY DEF DgInv, GraphTypes
<1>4. exact => \A f \in Units : InheritedAt(imports, level, prop, f)
  BY InheritedIs DEF DgInv
<1>5. ASSUME exact', NEW f \in Units PROVE InheritedAt(imports, level, prop', f)
  <2>1. exact \/ (scanned /\ lost = {})
    BY <1>5 DEF RepairRun
  <2>2. CASE scanned
    <3>1. prop' = WriteProps(imports, level, Units, prop, lost)
      BY <2>2 DEF RepairRun
    <3>2. f \in lost => InheritedAt(imports, level, prop, f)
      BY <1>4, <2>1
    <3> QED BY <1>3, <3>1, <3>2, InheritsSome
  <2>3. CASE ~scanned
    <3>1. prop' = prop
      BY <2>3 DEF RepairRun
    <3> QED BY <1>4, <2>1, <2>3, <3>1
  <2> QED BY <2>2, <2>3
<1>6. exact' => \A f \in Units : InheritedAt(imports', level', prop', f)
  BY <1>1, <1>5
<1> QED BY <1>2, <1>6, InheritedNext

LEMMA GraphKeeps ==
  ASSUME DgInv, GraphNext
  PROVE  GraphTypes' /\ BlastAgree' /\ InheritedExact'
<1>0. GraphTypes /\ BlastAgree
  BY DEF DgInv
<1>1. ASSUME NEW parsed \in SUBSET Units, NEW new \in SUBSET MoreEdges,
             NEW loaded \in BOOLEAN, NEW blastOk \in BOOLEAN, NEW propOk \in BOOLEAN,
             InitRun(parsed, new, loaded, blastOk, propOk)
      PROVE  GraphTypes' /\ BlastAgree' /\ InheritedExact'
  BY <1>0, <1>1, InitAgrees, InitInherits
<1>2. ASSUME NEW blastOk \in BOOLEAN, NEW scanned \in BOOLEAN, NEW lost \in Losses,
             RepairRun(blastOk, scanned, lost)
      PROVE  GraphTypes' /\ BlastAgree' /\ InheritedExact'
  BY <1>0, <1>2, RepairAgrees, RepairInherits
<1>3. ASSUME NEW f \in Units, NEW unpatched \in Losses, NEW unread \in Losses,
             NEW unwritten \in Losses, EditHook(f, unpatched, unread, unwritten)
      PROVE  GraphTypes' /\ BlastAgree' /\ InheritedExact'
  <2>1. GraphTypes'
    BY <1>0, <1>3 DEF EditHook, GraphTypes
  <2>2. BlastAgree'
    BY <1>0, <1>3, EditAgrees
  <2>3. exact' = FALSE
    BY <1>3 DEF EditHook
  <2>4. InheritedExact'
    BY ONLY <2>3 DEF InheritedExact
  <2> QED BY <2>1, <2>2, <2>4
<1>4. ASSUME NEW f \in Units, NEW v \in Levels, Stale(f, v) PROVE GraphTypes' /\ BlastAgree' /\ InheritedExact'
  <2>1. imports' = imports /\ by' = by /\ blast' = blast /\ exact' = FALSE /\ level' = [level EXCEPT ![f] = v]
    BY <1>4 DEF Stale
  <2>2. v \in Nat
    BY DerivedAssumption
  <2>3. GraphTypes'
    BY <1>0, <2>1, <2>2 DEF GraphTypes
  <2>4. BlastAgree'
    BY <1>0, <2>1, QuietAgrees
  <2>5. InheritedExact'
    BY ONLY <2>1 DEF InheritedExact
  <2> QED BY <2>3, <2>4, <2>5
<1> QED BY <1>1, <1>2, <1>3, <1>4 DEF GraphNext

LEMMA DgNextInv == ASSUME DgInv, [DgNext]_dgVars PROVE DgInv'
<1>1. CASE UNCHANGED dgVars
  <2>1. clusterVars' = clusterVars /\ graphVars' = graphVars /\ edgeKey' = edgeKey
    BY <1>1 DEF dgVars, clusterVars, graphVars
  <2> QED BY <2>1, TreesStay, GraphStays DEF DgInv
<1>2. CASE DgNext
  <2>1. edgeKey' = edgeKey
    BY <1>2 DEF DgNext
  <2>2. CASE GraphNext /\ UNCHANGED clusterVars
    BY <2>1, <2>2, TreesStay, GraphKeeps DEF DgInv
  <2>3. CASE ClusterNext /\ UNCHANGED graphVars
    <3>1. PICK p \in Pairs : UnionPair(p)
      BY <2>3 DEF ClusterNext
    <3>2. Forest(parent', rank') /\ PairsJoined'
      BY <3>1, UnionJoins DEF DgInv
    <3> QED BY <2>1, <2>3, <3>2, GraphStays DEF DgInv
  <2> QED BY <1>2, <2>2, <2>3 DEF DgNext
<1> QED BY <1>1, <1>2

\* Blast radius, inherited staleness, clusters and edge keys are what their
\* reference definitions give, for any finite set of files, any import edges
\* between different files, any strong pairs and any traversal depth.
THEOREM DerivedCorrect == DgSpec => []DerivedExact
<1>1. DgInit => DgInv
  BY DgInitInv
<1>2. DgInv /\ [DgNext]_dgVars => DgInv'
  BY DgNextInv
<1>3. DgInv => DerivedExact
  BY DgInvExact
<1> QED BY <1>1, <1>2, <1>3, PTL DEF DgSpec
=============================================================================
