------------------------------ MODULE Upkeep -------------------------------
(***************************************************************************)
(* The two maintenance commands over a catalog that goes on publishing:    *)
(* updates (src/src/cli/commands/updates.ts, src/src/core/updates/) and    *)
(* migrate (src/src/cli/commands/migrate.ts, src/src/core/migration/).     *)
(* Both resolve the mods they are given, look every resolved mod up again, *)
(* one at a time, and report.  Any lookup may fail; a project may publish  *)
(* between two lookups; the side of a mod is known only when the catalog   *)
(* answers for its project too.                                            *)
(*                                                                         *)
(* A project's releases stand in the order of their publication, so the    *)
(* newest is the last.                                                     *)
(***************************************************************************)
EXTENDS Preflight

CONSTANTS
    Targets,        \* loader and Minecraft version a release may support
    Home,           \* what the pack runs on
    Supported,      \* targets whose loader exists for the Minecraft version
    Minecraft,      \* per target: its Minecraft version, <<minor, patch>>
    SideOf,         \* per project: the side its catalog page states
    Commands,       \* what a user may ask for: which command, for which mods
                    \* and side, and where a migration goes
    Catalogs,       \* per project: its releases
    NoReport, NoPlan, NoPin

Dependency == [kind : {"required", "incompatible", "breaks"},
               on : Projects \cup {NoProject}, id : {ModId[p] : p \in Projects} \cup {NoModId},
               range : Ranges \cup {NoRange}]
Release == [number : Versions, targets : SUBSET Targets, hashed : BOOLEAN,
            deps : Seq(Dependency)]

ASSUME ConstantsAssumption ==
    /\ NoProject \notin Projects
    /\ Home \in Targets /\ Supported \subseteq Targets
    /\ Catalogs \subseteq [Projects -> Seq(Release) \ {<<>>}]
    /\ SideOf \in [Projects -> Sides]
    /\ Commands \subseteq [kind : {"updates", "migrate"}, include : Seq(Projects),
                           environment : Environments, to : Targets]

VARIABLES
    catalog, released,      \* per project: releases to come, how many are out
    command,                \* what the user asked for
    pc,
    todo, seen,             \* the refs to resolve, and those taken up
    mods,                   \* the resolved set
    rows,                   \* what was found about each of its mods
    moved,                  \* the releases for the target, in that order
    report,
    planned                 \* planUpdate's result

vars == <<catalog, released, command, pc, todo, seen, mods, rows, moved, report, planned>>

Statuses == {"update-available", "up-to-date", "unidentified",
             "migratable", "blocked", "provider-error"}

Entry(p, i, side) ==
    [project |-> p, release |-> i, number |-> catalog[p][i].number,
     side |-> side, deps |-> catalog[p][i].deps]
IsEntry(e) ==
    /\ e.project \in Projects /\ e.side \in Sides
    /\ e.release \in DOMAIN catalog[e.project]
    /\ e = Entry(e.project, e.release, e.side)

Row(p, status) == [project |-> p, status |-> status]
Found(p, status, entry) == [project |-> p, status |-> status, latest |-> entry]
HasLatest(row) == "latest" \in DOMAIN row

Init ==
    /\ catalog \in Catalogs
    /\ released \in [Projects -> {1}]
    /\ command \in Commands
    /\ pc = "resolve"
    /\ todo = command.include
    /\ seen = {}
    /\ mods = <<>>
    /\ rows = <<>>
    /\ moved = <<>>
    /\ report = NoReport
    /\ planned = NoPlan

\* Any project, at any time, while a command runs.
Publish(p) ==
    /\ pc \in {"resolve", "survey"}
    /\ released[p] < Len(catalog[p])
    /\ released' = [released EXCEPT ![p] = @ + 1]
    /\ UNCHANGED <<catalog, command, pc, todo, seen, mods, rows, moved, report, planned>>

-----------------------------------------------------------------------------
(* The catalog's answers.                                                  *)

\* listVersions(project, {loader, Minecraft version})
Listed(p, target) == {i \in 1..released[p] : target \in catalog[p][i].targets}
Newest(i, p, target) == \A j \in Listed(p, target) : j <= i
Hashed(p, target) == {i \in Listed(p, target) : catalog[p][i].hashed}

\* The side comes of a second request, which may fail by itself.
SidesSeen(p) == {SideOf[p], "unknown"}

-----------------------------------------------------------------------------
(* resolveModpack: one ref at a time.  What it has to say about a ref it   *)
(* could not resolve is in issues that neither command reads.              *)

ResolveRejected ==
    /\ pc = "resolve" /\ seen = {}
    /\ pc' = "rejected"
    /\ UNCHANGED <<catalog, released, command, todo, seen, mods, rows, moved, report, planned>>

SkipSeen ==
    /\ pc = "resolve" /\ todo # <<>> /\ Head(todo) \in seen
    /\ todo' = Tail(todo)
    /\ UNCHANGED <<catalog, released, command, pc, seen, mods, rows, moved, report, planned>>

TakesAgain(p) ==        \* mutant: a ref is taken up however often it stands there
    /\ pc = "resolve" /\ todo # <<>> /\ p = Head(todo)
    /\ seen' = seen \cup {p}

Takes(p) ==
    /\ pc = "resolve" /\ todo # <<>> /\ p = Head(todo)
    /\ p \notin seen
    /\ seen' = seen \cup {p}

\* The lookup failed, or nothing of the project fits and can be pinned.
Unresolved(p) ==
    /\ Takes(p)
    /\ todo' = Tail(todo)
    /\ UNCHANGED <<catalog, released, command, pc, mods, rows, moved, report, planned>>

\* The required projects of an entry that were not taken up, in order.  A
\* dependency that names no project is one more issue nobody reads.
Requires(entry) ==
    LET New(dep) == dep.kind = "required" /\ dep.on \in Projects \ seen
        among[i \in 0..Len(entry.deps)] ==      \* its first i dependencies
            IF i = 0 THEN <<>>
            ELSE IF New(entry.deps[i]) THEN Append(among[i - 1], entry.deps[i].on)
            ELSE among[i - 1]
    IN among[Len(entry.deps)]

Resolve(p) ==
    /\ Takes(p)
    /\ \E i \in Hashed(p, Home), side \in SidesSeen(p) :
        /\ \A j \in Hashed(p, Home) : j <= i
        /\ mods' = Append(mods, Entry(p, i, side))
        /\ todo' = Tail(todo) \o Requires(Entry(p, i, side))
    /\ UNCHANGED <<catalog, released, command, pc, rows, moved, report, planned>>

Resolved ==
    /\ pc = "resolve" /\ todo = <<>>
    /\ pc' = "survey"
    /\ UNCHANGED <<catalog, released, command, todo, seen, mods, rows, moved, report, planned>>

-----------------------------------------------------------------------------
(* checkOne and migrateOne: what the catalog has for one resolved mod.     *)
(* toPackState gives every entry its version id, so the lookup by content  *)
(* hash is never reached from the command.                                 *)

Surveying == pc = "survey" /\ Len(rows) < Len(mods)
Mod == mods[Len(rows) + 1]
Where == IF command.kind = "updates" THEN Home ELSE command.to

LookupFails ==
    /\ Surveying
    /\ rows' = Append(rows, Row(Mod.project, "provider-error"))
    /\ UNCHANGED <<catalog, released, command, pc, todo, seen, mods, moved, report, planned>>

NothingListed ==
    /\ Surveying
    /\ Listed(Mod.project, Where) = {}
    /\ rows' = Append(rows, Row(Mod.project,
            IF command.kind = "updates" THEN "unidentified" ELSE "blocked"))
    /\ UNCHANGED <<catalog, released, command, pc, todo, seen, mods, moved, report, planned>>

Status(i) ==
    IF command.kind = "migrate" THEN "migratable"
    ELSE IF i = Mod.release THEN "up-to-date" ELSE "update-available"

Survey ==
    /\ Surveying
    /\ \E i \in Listed(Mod.project, Where), side \in SidesSeen(Mod.project) :
        LET latest == Entry(Mod.project, i, side) IN
        /\ Newest(i, Mod.project, Where)
        /\ rows' = Append(rows, Found(Mod.project, Status(i), latest))
        /\ moved' = IF command.kind = "migrate" THEN Append(moved, latest) ELSE moved
    /\ UNCHANGED <<catalog, released, command, pc, todo, seen, mods, report, planned>>

Surveyed == pc = "survey" /\ Len(rows) = Len(mods)

-----------------------------------------------------------------------------
(* runUpdateCheck and planUpdate.                                          *)

CandidateAlone ==       \* mutant: only the first update is swapped in
    [i \in DOMAIN mods |->
        IF i = 1 /\ rows[i].status = "update-available" THEN rows[i].latest ELSE mods[i]]

\* candidateSet: every available update swapped in, the rest kept.
Candidate ==
    [i \in DOMAIN mods |->
        IF rows[i].status = "update-available" THEN rows[i].latest ELSE mods[i]]

ReportUpdates ==
    /\ Surveyed
    /\ command.kind = "updates"
    /\ report' = [kind |-> "updates",
                  regressions |-> Regressions(mods, Candidate, command.environment)]
    /\ pc' = "reported"
    /\ UNCHANGED <<catalog, released, command, todo, seen, mods, rows, moved, planned>>

\* A caller of the library accepts some of the rows; a release that cannot be
\* pinned by a hash makes the whole plan fail.
Pinnable(entry) == catalog[entry.project][entry.release].hashed

PlanUpdate(accepted) ==
    /\ pc = "reported" /\ report.kind = "updates" /\ planned = NoPlan
    /\ LET taken == {i \in accepted : HasLatest(rows[i])} IN
        IF \A i \in taken : Pinnable(rows[i].latest)
        THEN /\ planned' = [accepted |-> accepted,
                            mods |-> [i \in DOMAIN mods |->
                                IF i \in taken THEN rows[i].latest ELSE mods[i]]]
             /\ pc' = "planned"
        ELSE pc' = "rejected" /\ UNCHANGED planned
    /\ UNCHANGED <<catalog, released, command, todo, seen, mods, rows, moved, report>>

-----------------------------------------------------------------------------
(* planMigration.                                                          *)

UpTo(version, last) ==      \* compareMinecraftVersions, of 1.<minor>.<patch>
    version[1] < last[1] \/ (version[1] = last[1] /\ version[2] <= last[2])
JavaMajor(version) ==       \* requiredJavaMajor
    CASE UpTo(version, <<16, 5>>) -> 8
      [] UpTo(version, <<17, 1>>) -> 16
      [] UpTo(version, <<20, 4>>) -> 17
      [] OTHER -> 21

CanMigrateUnblocked(pin) ==     \* mutant: a failed lookup is no blocker
    /\ ~\E i \in DOMAIN rows : rows[i].status = "blocked"
    /\ command.to \in Supported
    /\ pin # NoPin

CanMigrate(pin) ==
    /\ \A i \in DOMAIN rows : rows[i].status = "migratable"
    /\ command.to \in Supported
    /\ pin # NoPin

\* resolveLoaderPin for the target: asked for only where the loader exists,
\* and a failure is an issue of the report.
LoaderPins == IF command.to \in Supported THEN {"pinned", NoPin} ELSE {NoPin}

ReportMigration ==
    /\ Surveyed
    /\ command.kind = "migrate"
    /\ \E pin \in LoaderPins :
        IF CanMigrate(pin) /\ \E i \in DOMAIN moved : ~Pinnable(moved[i])
        THEN pc' = "rejected" /\ UNCHANGED report
        ELSE /\ report' = [kind |-> "migrate", canMigrate |-> CanMigrate(pin),
                           pin |-> pin,
                           java |-> <<JavaMajor(Minecraft[Home]), JavaMajor(Minecraft[command.to])>>,
                           conflicts |-> Conflicts(moved, command.environment),
                           state |-> IF CanMigrate(pin) THEN moved ELSE <<>>]
             /\ pc' = "reported"
    /\ UNCHANGED <<catalog, released, command, todo, seen, mods, rows, moved, planned>>

-----------------------------------------------------------------------------

Next ==
    \/ \E p \in Projects : Publish(p)
    \/ ResolveRejected \/ SkipSeen \/ Resolved
    \/ \E p \in Projects : Unresolved(p) \/ Resolve(p)
    \/ LookupFails \/ NothingListed \/ Survey
    \/ ReportUpdates \/ \E accepted \in SUBSET (DOMAIN mods) : PlanUpdate(accepted)
    \/ ReportMigration

Spec == Init /\ [][Next]_vars

-----------------------------------------------------------------------------
(* Properties.                                                             *)

\* Type correctness: every found row and every plan is about an entry of the
\* resolved set, in its place.
TypeOK ==
    /\ command \in Commands
    /\ \A p \in Projects : released[p] \in DOMAIN catalog[p]
    /\ pc \in {"resolve", "survey", "reported", "planned", "rejected"}
    /\ \A i \in DOMAIN todo : todo[i] \in Projects
    /\ seen \subseteq Projects
    /\ \A i \in DOMAIN mods : IsEntry(mods[i]) /\ mods[i].project \in seen
    /\ \A i, j \in DOMAIN mods : i # j => mods[i].project # mods[j].project
    /\ Len(rows) <= Len(mods)
    /\ \A i \in DOMAIN rows :
        /\ rows[i].project = mods[i].project
        /\ rows[i].status \in Statuses
        /\ HasLatest(rows[i]) =>
            IsEntry(rows[i].latest) /\ rows[i].latest.project = mods[i].project
    /\ planned # NoPlan =>
        /\ DOMAIN planned.mods = DOMAIN mods
        /\ \A i \in DOMAIN mods : planned.mods[i].project = mods[i].project

\* A set as its mods declare it, said without the detectors: entry i excludes
\* entry k, requires another version of it, or is for the other side only.  A
\* declaration means the mod of its project or, where the set has none, the mods
\* with its id; what its range says of a version is known of numbers only.
Means(set, dep, k) ==
    IF \E h \in DOMAIN set : set[h].project = dep.on THEN dep.on = set[k].project
    ELSE dep.id # NoModId /\ dep.id = ModId[set[k].project]
Numeric(version, range) == NoNumber \notin {version, range.lower, range.upper}
Excludes(set, i, k) ==
    \E j \in DOMAIN set[i].deps : LET dep == set[i].deps[j] IN
        /\ dep.kind \in {"incompatible", "breaks"}
        /\ Means(set, dep, k)
        /\ IF dep.range = NoRange THEN TRUE
           ELSE /\ Readable(dep.range) /\ Numeric(set[k].number, dep.range)
                /\ Satisfies(set[k].number, dep.range)
NeedsAnother(set, i, k) ==
    \E j \in DOMAIN set[i].deps : LET dep == set[i].deps[j] IN
        /\ dep.kind = "required" /\ Means(set, dep, k)
        /\ dep.range # NoRange
        /\ Readable(dep.range) /\ Numeric(set[k].number, dep.range)
        /\ ~Satisfies(set[k].number, dep.range)
WrongSide(set, i) ==
    set[i].side \in Environments /\ set[i].side # command.environment
DeclaredOnce(set, i, k) ==
    LET between == {d \in Declarations(set, {"incompatible", "breaks"}) :
                        Between(set, d) = {set[i].project, set[k].project}}
    IN \A d, e \in between : d = e
OwnId(set, k) ==
    \A h \in DOMAIN set : h # k => ModId[set[h].project] \notin {ModId[set[k].project]} \ {NoModId}

\* Whoever takes all the available updates of a report meets nothing that neither the
\* report nor the pre-flight of the old set told: no exclusion, no version
\* out of range, no mod of the wrong side.  It is said of pairs with one
\* declaration between them, since only the first of several is looked at, and
\* of mods whose id no other mod of the set has, since an id finds one mod.
BreaksNothingUnseen ==
    planned # NoPlan =>
        (planned.accepted = {i \in DOMAIN mods : rows[i].status = "update-available"} =>
            LET told == Conflicts(mods, command.environment) \cup report.regressions
                Told(category, who, fixes) == \E c \in told :
                    c.category = category /\ c.mods = who /\ c.fix \in fixes
                set == planned.mods
            IN \A i, k \in DOMAIN set : LET who == {set[i].project, set[k].project} IN
                /\ Excludes(set, i, k) /\ DeclaredOnce(set, i, k) /\ OwnId(set, k)
                    => Told("declared-incompatibility", who, {"remove-mod"})
                /\ NeedsAnother(set, i, k) /\ OwnId(set, k)
                    => Told("version-mismatch", who, {"pin-version"})
                /\ WrongSide(set, i)
                    => Told("side-mismatch", {set[i].project}, {"change-side"}))

\* A migrated state is the whole of the resolved set, every mod at a release
\* for the target, on a loader pinned for it; otherwise there is none.
MigratesWhole ==
    report # NoReport =>
        (report.kind = "migrate" =>
            IF report.canMigrate
            THEN /\ command.to \in Supported /\ report.pin # NoPin
                 /\ DOMAIN report.state = DOMAIN mods
                 /\ \A i \in DOMAIN mods :
                    /\ report.state[i].project = mods[i].project
                    /\ command.to \in catalog[mods[i].project][report.state[i].release].targets
                    /\ Pinnable(report.state[i])
            ELSE report.state = <<>>)

\* A mod the user named is in the migrated state, or the report that says the
\* pack can move says what became of it.
NothingDropped ==
    report # NoReport =>
        (report.kind = "migrate" =>
            (report.canMigrate =>
                \A i \in DOMAIN command.include :
                    \E k \in DOMAIN rows : rows[k].project = command.include[i]))

=============================================================================
