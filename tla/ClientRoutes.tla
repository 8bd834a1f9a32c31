----------------------------- MODULE ClientRoutes -----------------------------
(* The gotcha commands of the command line (cli/gotcha.rs, cli/review.rs,        *)
(* `mati export` and `mati import`). Each has two routes: directly into the      *)
(* store, or as commands of the daemon, whose handlers are another               *)
(* implementation of the same thing (cli/proxy.rs picks one). Two worlds get the *)
(* same commands side by side, each by its own route. A review session works on  *)
(* one of them, opening it for one action at a time, while other terminals go on.*)
(* Every write succeeds here: GotchaOps and GotchaHandlers have the failures.    *)
EXTENDS Integers, FiniteSets, FiniteSetsExt

CONSTANTS Rules,        \* contents of a gotcha: rule, reason, severity and URL
          SlugOf,       \* the slug of a rule, cut at 40 characters
          Weak,         \* rules below the quality gate
          Paths, DirOf,
          MaxSuffix, CrStarts, MaxCommands,
          KindOf,       \* the type of a candidate, by its tags
          MaxPicks      \* bound on the groups picked in triage

Routes == {"direct", "daemon"}
GKeys == {<<SlugOf[rule], n>> : rule \in Rules, n \in 1..MaxSuffix}

VARIABLES world,     \* [Routes -> the store each route works on]
          dump,      \* what `mati export` wrote from each world
          review,    \* one review session
          apart,     \* history: a deleted gotcha was edited, or an import broke links
          others,    \* history: another terminal wrote during the session
          commands   \* bound
crVars == <<world, dump, review, apart, others, commands>>

Absent == [st |-> "none", rule |-> "", files |-> {}, confirmed |-> FALSE, source |-> "auto",
           count |-> 0, enriched |-> FALSE]
Exists(w, k) == w.gotcha[k].st # "none"
IsActive(w, k) == w.gotcha[k].st = "active"
\* Review's collect_candidates.
Candidates(w) == {k \in GKeys : IsActive(w, k) /\ ~w.gotcha[k].confirmed}

-----------------------------------------------------------------------------
(* What both routes share: store/gotcha_ops.rs and its twins in handlers.rs.    *)

\* Links of k move from the old files to the new ones; a file without a record
\* gets a stub.
SyncLinks(w, k, old, new) ==
    [w EXCEPT !.known = @ \cup (new \ old),
              !.links = [p \in Paths |-> IF p \in new \ old THEN w.links[p] \cup {k}
                                         ELSE IF p \in old \ new THEN w.links[p] \ {k} ELSE w.links[p]]]
SyncEdges(w, k, old, new) ==
    [w EXCEPT !.edges = (@ \cup {<<p, k>> : p \in new \ old}) \ {<<p, k>> : p \in old \ new}]
SyncBoth(w, k, old, new) == SyncEdges(SyncLinks(w, k, old, new), k, old, new)

PutGotcha(w, k, rec) == [w EXCEPT !.gotcha[k] = rec]
WriteOnExtraction(w, k, enriched) == IF enriched THEN [w EXCEPT !.outcome[k] = "pending"] ELSE w
MarkOutcome(w, k, outcome) == IF w.outcome[k] = "none" THEN w ELSE [w EXCEPT !.outcome[k] = outcome]
\* write_on_tombstone: one exemplar for every directory of the files.
Archive(w, k, files) == [w EXCEPT !.exemplars = @ \cup {<<DirOf[p], k>> : p \in files}]
AsConfirmed(rec) == [rec EXCEPT !.confirmed = TRUE, !.source = "dev", !.count = @ + 1]
Counted(w, files) == [w EXCEPT !.bumps = [p \in Paths |-> IF p \in files THEN w.bumps[p] + 1 ELSE w.bumps[p]]]

\* Direct mode. apply_gotcha_write, apply_gotcha_confirm with
\* propagate_confirmation_to_files, apply_gotcha_tombstone.
DirectWrite(w, k, rec, old, new, isNew) ==
    SyncBoth(WriteOnExtraction(PutGotcha(w, k, rec), k, isNew /\ rec.enriched), k, old, new)
DirectConfirm(w, k) ==
    LET files == w.gotcha[k].files
        linked == SyncBoth(MarkOutcome(PutGotcha(w, k, AsConfirmed(w.gotcha[k])), k, "confirmed"), k, {}, files)
    IN Counted(linked, files)
DirectTombstone(w, k, files) ==
    LET dead == PutGotcha(w, k, [w.gotcha[k] EXCEPT !.st = "tombstone"])
    IN SyncBoth(MarkOutcome(Archive(dead, k, files), k, "tombstoned"), k, files, {})

\* Through the daemon: the source a client may claim.
UpsertSource(source) == IF source \in {"dev", "import"} THEN source ELSE "enrich"
\* Mutant: the upsert forgets the files the gotcha had.
DaemonUpsertKeepsOld(w, k, rule, files, source, enriched) ==
    LET isNew == ~IsActive(w, k)
        rec == [st |-> "active", rule |-> rule, files |-> files, confirmed |-> FALSE,
                source |-> UpsertSource(source), count |-> 0, enriched |-> enriched]
    IN WriteOnExtraction(SyncBoth(PutGotcha(w, k, rec), k, {}, files), k, isNew /\ enriched)
\* handle_gotcha_upsert resets the confirmation and gives a tombstoned record a
\* new life.
DaemonUpsert(w, k, rule, files, source, enriched) ==
    LET isNew == ~IsActive(w, k)
        old == IF isNew THEN {} ELSE w.gotcha[k].files
        rec == [st |-> "active", rule |-> rule, files |-> files, confirmed |-> FALSE,
                source |-> UpsertSource(source), count |-> 0, enriched |-> enriched]
    IN WriteOnExtraction(SyncBoth(PutGotcha(w, k, rec), k, old, files), k, isNew /\ enriched)
\* The counted file records were read before the links were added and are
\* written after them, so a link that was missing stays missing.
DaemonConfirm(w, k) ==
    LET files == w.gotcha[k].files
        put == PutGotcha(w, k, AsConfirmed(w.gotcha[k]))
        stubs == SyncLinks(put, k, {}, files \ w.known)
        counted == Counted(stubs, files \cap w.known)
    IN [MarkOutcome(SyncEdges(counted, k, {}, files), k, "confirmed") EXCEPT !.receipts = @ \ files]
\* The files are the record's, whatever the client says.
DaemonTombstone(w, k) == DirectTombstone(w, k, w.gotcha[k].files)

-----------------------------------------------------------------------------
(* The proxy: one call, the route of the world.                                 *)

\* StoreProxy::gotcha_write.
GotchaWrite(route, w, k, rec, old, isNew) ==
    IF route = "direct" THEN DirectWrite(w, k, rec, old, rec.files, isNew)
    ELSE DaemonUpsert(w, k, rec.rule, rec.files, rec.source, rec.enriched)
\* StoreProxy::put with a gotcha key: no links in direct mode, an upsert otherwise.
PutRoute(route, w, k, rec) ==
    IF route = "direct" THEN PutGotcha(w, k, rec)
    ELSE DaemonUpsert(w, k, rec.rule, rec.files, rec.source, rec.enriched)
\* confirm_gotcha; it refuses a gotcha that is not active.
CanConfirm(w, k) == IsActive(w, k)
ConfirmRoute(route, w, k) == IF route = "direct" THEN DirectConfirm(w, k) ELSE DaemonConfirm(w, k)
TombstoneRoute(route, w, k, files) ==
    IF route = "direct" THEN DirectTombstone(w, k, files) ELSE DaemonTombstone(w, k)

-----------------------------------------------------------------------------
(* The commands, given to both worlds.                                          *)

Both(Do(_, _)) == world' = [r \in Routes |-> Do(r, world[r])]
\* A review that confirms one gotcha after the other keeps the store open: without
\* a daemon, other commands wait.
Command == /\ commands < MaxCommands /\ commands' = commands + 1
           /\ ~(review.at = "all" /\ review.route = "direct")
           /\ others' = (others \/ review.total # 0) /\ UNCHANGED review

\* choose_manual_gotcha_key: the first free suffix, and no twin of an active
\* gotcha before it.
FreeSuffixes(w, rule) == {n \in 1..MaxSuffix : ~Exists(w, <<SlugOf[rule], n>>)}
HasTwin(w, rule, files) ==
    \E n \in 1..MaxSuffix : LET k == <<SlugOf[rule], n>> IN
        /\ IsActive(w, k) /\ w.gotcha[k].rule = rule /\ w.gotcha[k].files = files
        /\ \A m \in FreeSuffixes(w, rule) : n < m
\* finish_gotcha_add. A developer's assertion counts as one confirmation.
Added(rule, files) == [st |-> "active", rule |-> rule, files |-> files, confirmed |-> TRUE,
                       source |-> "dev", count |-> 1, enriched |-> FALSE]
GotchaAdd(rule, files) ==
    /\ Command /\ rule \notin Weak /\ files # {}
    /\ \A r \in Routes : FreeSuffixes(world[r], rule) # {}
    /\ LET Do(r, w) == IF HasTwin(w, rule, files) THEN w
                       ELSE GotchaWrite(r, w, <<SlugOf[rule], Min(FreeSuffixes(w, rule))>>,
                                        Added(rule, files), {}, TRUE)
       IN Both(Do)
    /\ UNCHANGED <<dump, apart>>

\* run_gotcha_edit: the record keeps its lifecycle and its confirmation in direct mode.
GotchaEdit(k, rule, files) ==
    /\ Command /\ rule \notin Weak
    /\ \A r \in Routes : Exists(world[r], k)
    /\ LET Do(r, w) == GotchaWrite(r, w, k, [w.gotcha[k] EXCEPT !.rule = rule, !.files = files],
                                   w.gotcha[k].files, FALSE)
       IN Both(Do)
    /\ apart' = (apart \/ ~IsActive(world["direct"], k))
    /\ UNCHANGED dump

GotchaDelete(k) ==
    /\ Command /\ \A r \in Routes : Exists(world[r], k)
    /\ LET Do(r, w) == TombstoneRoute(r, w, k, w.gotcha[k].files) IN Both(Do)
    /\ UNCHANGED <<dump, apart>>

GotchaConfirm(k) ==
    /\ Command
    /\ LET Do(r, w) == IF CanConfirm(w, k) THEN ConfirmRoute(r, w, k) ELSE w IN Both(Do)
    /\ UNCHANGED <<dump, apart>>

\* An agent consults a file.
Consult(p) == /\ Command /\ world' = [r \in Routes |-> [world[r] EXCEPT !.receipts = @ \cup {p}]]
              /\ UNCHANGED <<dump, apart>>

\* export_json: gotchas and files with their links, but no edges.
Exported(w) == [gotcha |-> w.gotcha, links |-> w.links, known |-> w.known, bumps |-> w.bumps]
Export == Command /\ dump' = {[r \in Routes |-> Exported(world[r])]} /\ UNCHANGED <<world, apart>>
\* import_records: every record of the dump as it is, one batch or chunks. Old
\* file records forget the links that were added since.
LinksExact(w) == \A k \in GKeys, p \in Paths :
    (k \in w.links[p]) = (IsActive(w, k) /\ p \in w.gotcha[k].files)
Imported(w, d) ==
    [w EXCEPT !.gotcha = [k \in GKeys |-> IF d.gotcha[k].st = "none" THEN w.gotcha[k] ELSE d.gotcha[k]],
              !.links = [p \in Paths |-> IF p \in d.known THEN d.links[p] ELSE w.links[p]],
              !.bumps = [p \in Paths |-> IF p \in d.known THEN d.bumps[p] ELSE w.bumps[p]],
              !.known = @ \cup d.known]
Import == /\ Command
          /\ \E d \in dump : world' = [r \in Routes |-> Imported(world[r], d[r])]
          /\ apart' = (apart \/ ~LinksExact(world'["direct"]))
          /\ UNCHANGED dump

-----------------------------------------------------------------------------
(* A review session (cli/review.rs). The candidates are read once. Their cards    *)
(* come in one list, or in triage by group.                                       *)

Fates == {"open", "confirmed", "failed", "deleted", "skipped", "edited"}
NoReview == [at |-> "off", triage |-> FALSE, route |-> "direct", total |-> 0,
             snap |-> [k \in {} |-> Absent], left |-> {}, key |-> {}, todo |-> {}, batch |-> {}, rest |-> {},
             confirmed |-> 0, deleted |-> 0, skipped |-> 0,
             \* history: what became of each candidate ("failed": its confirmation in a batch
             \* was refused), the groups picked, whether one was picked again, and whether the
             \* links and edges were in order at the start
             fate |-> [k \in {} |-> "open"], picks |-> 0, picked |-> {}, again |-> FALSE, sound |-> FALSE]
Mine == world[review.route]
\* What an action does to the world of the session.
Change(w) == world' = [world EXCEPT ![review.route] = w] /\ UNCHANGED <<dump, apart, others, commands>>
NoChange == UNCHANGED <<world, dump, apart, others, commands>>
Fated(keys, fate) == [k \in DOMAIN review.fate |-> IF k \in keys THEN fate ELSE review.fate[k]]

InPlace(w, k) == \A p \in Paths : /\ (k \in w.links[p]) = (p \in w.gotcha[k].files)
                                  /\ (<<p, k>> \in w.edges) = (p \in w.gotcha[k].files)
\* Some filters may leave only part of the candidates.
ReviewStart(route, triage) ==
    /\ review.at = "off" /\ review.total = 0
    /\ \E shown \in (SUBSET Candidates(world[route])) \ {{}} :
          review' = [NoReview EXCEPT !.at = IF triage THEN "groups" ELSE "list", !.triage = triage, !.route = route,
                                     !.left = IF triage THEN {} ELSE shown,
                                     !.snap = [k \in shown |-> world[route].gotcha[k]],
                                     !.fate = [k \in shown |-> "open"],
                                     !.sound = \A k \in shown : InPlace(world[route], k),
                                     !.total = Cardinality(shown)]
    /\ NoChange
\* An error of an action ends the session without its summary.
Abort == review' = [review EXCEPT !.at = "aborted"]
Acted(k, fate) == [review EXCEPT !.at = "list", !.left = @ \ {k}, !.key = {}, !.fate = Fated({k}, fate)]

CardConfirm(k) ==
    /\ review.at = "list" /\ k \in review.left
    /\ IF CanConfirm(Mine, k)
       THEN /\ Change(ConfirmRoute(review.route, Mine, k))
            /\ review' = [Acted(k, "confirmed") EXCEPT !.confirmed = @ + 1]
       ELSE Abort /\ NoChange
CardSkip(k) ==
    /\ review.at = "list" /\ k \in review.left
    /\ review' = [Acted(k, "skipped") EXCEPT !.skipped = @ + 1] /\ NoChange
CardDelete(k) ==
    /\ review.at = "list" /\ k \in review.left
    /\ Change(TombstoneRoute(review.route, Mine, k, Mine.gotcha[k].files))
    /\ review' = [Acted(k, "deleted") EXCEPT !.deleted = @ + 1]
\* edit_candidate: the text is typed first; what is saved has the files of the
\* card. No quality gate. Then the user is asked whether to confirm.
EditedCard(k, rule) ==
    [Mine.gotcha[k] EXCEPT !.rule = rule, !.files = review.snap[k].files, !.confirmed = FALSE]
CardEdit(k, rule) ==
    /\ review.at = "list" /\ k \in review.left
    /\ Change(PutRoute(review.route, Mine, k, EditedCard(k, rule)))
    /\ review' = [review EXCEPT !.at = "ask", !.key = {k}]
\* Mutant: an edited card counts as confirmed whatever the answer.
EditAnswerCounts(k, yes) ==
    /\ review.at = "ask" /\ k \in review.key
    /\ IF yes /\ ~CanConfirm(Mine, k) THEN Abort /\ NoChange
       ELSE /\ review' = [Acted(k, IF yes THEN "confirmed" ELSE "edited") EXCEPT !.confirmed = @ + 1]
            /\ IF yes THEN Change(ConfirmRoute(review.route, Mine, k)) ELSE NoChange
EditAnswer(k, yes) ==
    /\ review.at = "ask" /\ k \in review.key
    /\ \/ /\ yes /\ CanConfirm(Mine, k)
          /\ Change(ConfirmRoute(review.route, Mine, k))
          /\ review' = [Acted(k, "confirmed") EXCEPT !.confirmed = @ + 1]
       \/ yes /\ ~CanConfirm(Mine, k) /\ Abort /\ NoChange
       \/ ~yes /\ review' = Acted(k, "edited") /\ NoChange
\* The list is left, or empty: the rest counts as skipped.
CardQuit == /\ review.at = "list" /\ NoChange
            /\ review' = [review EXCEPT !.at = IF review.triage THEN "groups" ELSE "off", !.left = {},
                                        !.skipped = @ + Cardinality(review.left),
                                        !.fate = Fated(review.left, "skipped")]

\* Triage. A group stays in the menu after it was dealt with.
Group(kind) == {k \in DOMAIN review.snap : KindOf[k] = kind}
Pick(kind) == /\ review.at = "groups" /\ Group(kind) # {}
              /\ review.picks < MaxPicks
Picked(kind) == [review EXCEPT !.picks = @ + 1, !.picked = @ \cup {kind}, !.again = @ \/ kind \in review.picked]
GroupEach(kind) == /\ Pick(kind) /\ NoChange
                   /\ review' = [Picked(kind) EXCEPT !.at = "list", !.left = Group(kind)]
GroupSkip(kind) == /\ Pick(kind) /\ NoChange
                   /\ review' = [Picked(kind) EXCEPT !.skipped = @ + Cardinality(Group(kind)),
                                                     !.fate = Fated(Group(kind), "skipped")]
\* Accept all: the chosen ones one after the other, in one opened store.
GroupAccept(kind, chosen) ==
    /\ Pick(kind) /\ chosen # {} /\ chosen \subseteq Group(kind) /\ NoChange
    /\ review' = [Picked(kind) EXCEPT !.at = "all", !.todo = chosen, !.batch = chosen,
                                      !.rest = Group(kind) \ chosen]
\* A candidate that is refused is logged, and the next one is confirmed.
AcceptOne(k) ==
    /\ review.at = "all" /\ k \in review.todo
    /\ IF CanConfirm(Mine, k) THEN Change(ConfirmRoute(review.route, Mine, k)) ELSE NoChange
    /\ review' = [review EXCEPT !.todo = @ \ {k},
                                !.fate = Fated({k}, IF CanConfirm(Mine, k) THEN "confirmed" ELSE "failed")]
\* All that were chosen are counted, whatever became of them.
AcceptDone ==
    /\ review.at = "all" /\ review.todo = {} /\ NoChange
    /\ review' = [review EXCEPT !.at = "groups", !.batch = {}, !.rest = {},
                                !.confirmed = @ + Cardinality(review.batch),
                                !.skipped = @ + Cardinality(review.rest),
                                !.fate = Fated(review.rest, "skipped")]
TriageQuit == review.at = "groups" /\ NoChange /\ review' = [review EXCEPT !.at = "off"]

Recs == [st : {"none", "active", "tombstone"}, rule : Rules \cup {""}, files : SUBSET Paths,
         confirmed : BOOLEAN, source : {"auto", "dev", "import", "enrich"}, count : Nat, enriched : BOOLEAN]
Stores == [gotcha : [GKeys -> Recs], links : [Paths -> SUBSET GKeys], known : SUBSET Paths,
           bumps : [Paths -> Nat], edges : SUBSET (Paths \X GKeys), receipts : SUBSET Paths,
           exemplars : SUBSET ({DirOf[p] : p \in Paths} \X GKeys),
           outcome : [GKeys -> {"none", "pending", "confirmed", "tombstoned"}]]

\* `mati init` leaves every link in place.
ASSUME RoutesAssumption ==
    /\ IsFiniteSet(Rules) /\ MaxSuffix \in Nat /\ MaxCommands \in Nat
    /\ \A w \in CrStarts : w \in Stores /\ LinksExact(w)

CrInit ==
    /\ \E w \in CrStarts : world = [r \in Routes |-> w]
    /\ dump = {} /\ review = NoReview /\ apart = FALSE /\ others = FALSE /\ commands \in 0..MaxCommands
CliCommand ==
    \/ \E rule \in Rules, files \in SUBSET Paths :
          GotchaAdd(rule, files) \/ \E k \in GKeys : GotchaEdit(k, rule, files)
    \/ \E k \in GKeys : GotchaDelete(k) \/ GotchaConfirm(k)
    \/ \E p \in Paths : Consult(p)
    \/ Export \/ Import
CandidateTypes == {KindOf[k] : k \in GKeys}
ReviewSteps ==
    \/ \E r \in Routes, triage \in BOOLEAN : ReviewStart(r, triage)
    \/ \E k \in GKeys :
          \/ CardConfirm(k) \/ CardSkip(k) \/ CardDelete(k) \/ AcceptOne(k)
          \/ \E rule \in Rules : CardEdit(k, rule)
          \/ \E yes \in BOOLEAN : EditAnswer(k, yes)
    \/ \E kind \in CandidateTypes :
          GroupEach(kind) \/ GroupSkip(kind) \/ \E chosen \in SUBSET GKeys : GroupAccept(kind, chosen)
    \/ CardQuit \/ AcceptDone \/ TriageQuit
CrNext(reviewing) == CliCommand \/ (reviewing /\ ReviewSteps)
CrSpec == CrInit /\ [][CrNext(TRUE)]_crVars

-----------------------------------------------------------------------------
(* Properties.                                                                  *)

Shape(w, k) == LET rec == w.gotcha[k] IN <<rec.st, rec.rule, rec.files, rec.enriched>>
\* The two routes of a command are two implementations; after any sequence of
\* commands the stores agree on every gotcha's life, content and files, on links,
\* stubs, edges, exemplars and extraction outcomes. The daemon's is at most
\* stricter: it has confirmed, and keeps a receipt for, nothing that direct mode
\* has not. The exceptions: a deleted gotcha that is edited lives again through
\* the daemon only; a link that an import lost is mended by a confirmation in
\* direct mode only.
RoutesAgree ==
    review.total = 0 /\ ~apart =>
        LET a == world["direct"] b == world["daemon"] IN
        /\ \A k \in GKeys : /\ Shape(a, k) = Shape(b, k)
                            /\ b.gotcha[k].confirmed => a.gotcha[k].confirmed
                            /\ b.gotcha[k].count <= a.gotcha[k].count
        /\ a.links = b.links /\ a.known = b.known /\ a.edges = b.edges
        /\ a.exemplars = b.exemplars /\ a.outcome = b.outcome
        /\ b.receipts \subseteq a.receipts

\* cli/proxy.rs calls the routing transparent, and tests/hook_decide_integration.rs
\* says that `gotcha add -r` creates a confirmed gotcha: true of one route.
RoutesTransparent ==
    review.total = 0 /\ ~apart =>
        \A k \in GKeys : world["direct"].gotcha[k].confirmed = world["daemon"].gotcha[k].confirmed

\* What the summary of a review says, if no group was picked twice. "deleted",
\* "skipped" and what remains are the numbers of the candidates that were. Its
\* "confirmed" is the number of those confirmed and of those of an accepted group
\* whose confirmation was refused (review.rs prints the chosen ones as "confirmed
\* - eligible for hook injection" and adds them up). That takes another terminal:
\* while none writes, nothing is refused and no action fails, the confirmed ones are
\* confirmed and the deleted ones gone, with their links and edges if these were
\* in order when the session began, and all others are still candidates.
Tally(fates) == Cardinality({k \in DOMAIN review.fate : review.fate[k] \in fates})
Remaining == LET done == review.confirmed + review.deleted + review.skipped
             IN  IF done <= review.total THEN review.total - done ELSE 0
FiguresRight ==
    /\ review.confirmed = Tally({"confirmed", "failed"})
    /\ review.deleted = Tally({"deleted"})
    /\ review.skipped = Tally({"skipped"})
    /\ Remaining = Tally({"open", "edited"})
IsConfirmed(w, k) == IsActive(w, k) /\ w.gotcha[k].confirmed
AsTold(w, k) ==
    CASE review.fate[k] = "confirmed" ->
           /\ IsConfirmed(w, k)
           /\ review.sound => \A p \in w.gotcha[k].files : k \in w.links[p] /\ <<p, k>> \in w.edges
      [] review.fate[k] = "deleted" ->
           /\ ~IsActive(w, k)
           /\ review.sound => \A p \in Paths : k \notin w.links[p] /\ <<p, k>> \notin w.edges
      [] review.fate[k] = "failed" -> FALSE
      [] OTHER -> k \in Candidates(w)
ReviewHonest ==
    review.total # 0 /\ ~review.again =>
    /\ review.at \notin {"all", "aborted"} => FiguresRight
    /\ ~others => review.at # "aborted" /\ \A k \in DOMAIN review.fate : AsTold(Mine, k)
=============================================================================
