--------------------------- MODULE UpkeepProofs ----------------------------
(***************************************************************************)
(* For any catalog, any commands and any failures of lookups: a migrated   *)
(* state is the whole of the resolved set on releases for the target;      *)
(* whoever takes every available update meets nothing that was not told;   *)
(* and every set, row and plan is of releases that are out, no project     *)
(* twice.                                                                  *)
(***************************************************************************)
EXTENDS Upkeep, WellFoundedInduction, TLAPS

(***************************************************************************)
(* The inductive invariant.                                                *)
(***************************************************************************)

Dependencies == Seq(Dependency)
EntrySet == [project : Projects, release : Nat, number : Versions, side : Sides,
             deps : Dependencies]
RowSet == [project : Projects, status : Statuses]
            \cup [project : Projects, status : Statuses, latest : EntrySet]

Typed ==
    /\ catalog \in Catalogs
    /\ released \in [Projects -> Nat]
    /\ \A p \in Projects : released[p] <= Len(catalog[p])
    /\ command \in Commands
    /\ mods \in Seq(EntrySet)
    /\ rows \in Seq(RowSet)
    /\ moved \in Seq(EntrySet)

\* The rows stand beside the resolved set, one for each of its first mods.
RowsBeside ==
    /\ Len(rows) <= Len(mods)
    /\ \A i \in 1..Len(rows) : rows[i].project = mods[i].project
    /\ pc = "resolve" => rows = <<>> /\ moved = <<>>

\* As long as every row says "migratable", what moved stands beside the rows;
\* and whatever moved is at a release for the target.
MovedBeside ==
    /\ command.kind = "migrate"
        /\ (\A i \in 1..Len(rows) : rows[i].status = "migratable")
            => /\ Len(moved) = Len(rows)
               /\ \A i \in 1..Len(rows) : moved[i].project = rows[i].project
    /\ \A i \in 1..Len(moved) :
        command.to \in catalog[moved[i].project][moved[i].release].targets

NotReported == pc \in {"resolve", "survey"} => report = NoReport

Inv == Typed /\ RowsBeside /\ MovedBeside /\ NotReported /\ MigratesWhole

(***************************************************************************)
(* Lemmas.                                                                 *)
(***************************************************************************)

\* What the catalog answers is an entry, at a release that was asked for.
LEMMA EntryTyped ==
    ASSUME catalog \in Catalogs, NEW p \in Projects, NEW i \in DOMAIN catalog[p],
           NEW side \in Sides
    PROVE  /\ Entry(p, i, side) \in EntrySet
           /\ Entry(p, i, side).project = p
           /\ Entry(p, i, side).release = i
<1>1. catalog[p] \in Seq(Release)
    BY ConstantsAssumption
<1>2. i \in Nat /\ catalog[p][i] \in Release
    BY <1>1
<1> QED
    BY <1>2 DEF Entry, EntrySet, Release, Dependencies

LEMMA SideTyped ==
    ASSUME NEW p \in Projects PROVE SidesSeen(p) \subseteq Sides
BY ConstantsAssumption DEF SidesSeen, Sides

\* A step that leaves the rows and the report alone keeps the invariant.
LEMMA RowsKept ==
    ASSUME Inv, catalog' = catalog,
           released' \in [Projects -> Nat],
           \A p \in Projects : released'[p] <= Len(catalog[p]),
           command' = command, mods' = mods,
           rows' = rows, moved' = moved, report' = report,
           pc' = pc \/ pc' \in {"planned", "rejected"} \/ (pc = "resolve" /\ pc' = "survey")
    PROVE  Inv'
<1>1. Typed' BY DEF Inv, Typed
<1>2. RowsBeside' BY DEF Inv, RowsBeside
<1>3. MovedBeside' BY DEF Inv, MovedBeside
<1>4. NotReported' BY DEF Inv, NotReported
<1>5. MigratesWhole' BY DEF Inv, MigratesWhole, Pinnable
<1> QED BY <1>1, <1>2, <1>3, <1>4, <1>5 DEF Inv

\* One more row, and at most one more release moved with it.
LEMMA RowAdded ==
    ASSUME Inv, Surveying, NEW row \in RowSet, row.project = Mod.project,
           rows' = Append(rows, row),
           \/ /\ moved' = moved
              /\ command.kind = "migrate" => row.status # "migratable"
           \/ \E latest \in EntrySet :
                /\ moved' = Append(moved, latest)
                /\ latest.project = row.project
                /\ command.to \in catalog[latest.project][latest.release].targets,
           catalog' = catalog, released' = released, command' = command,
           mods' = mods, report' = report, pc' = pc
    PROVE  Inv'
<1>1. rows \in Seq(RowSet) /\ moved \in Seq(EntrySet) /\ mods \in Seq(EntrySet)
    BY DEF Inv, Typed
<1>2. pc = "survey" /\ Len(rows) < Len(mods) /\ row.project = mods[Len(rows) + 1].project
    BY DEF Surveying, Mod
<1>3. /\ Len(rows') = Len(rows) + 1
      /\ rows'[Len(rows) + 1] = row
      /\ \A i \in 1..Len(rows) : rows'[i] = rows[i]
    BY <1>1
<1>4. Typed'
    <2>1. rows' \in Seq(RowSet) BY <1>1
    <2>2. moved' \in Seq(EntrySet)
        <3>1. CASE moved' = moved BY <1>1, <3>1
        <3>2. ASSUME NEW latest \in EntrySet, moved' = Append(moved, latest)
              PROVE  moved' \in Seq(EntrySet)
            BY <1>1, <3>2
        <3> QED BY <3>1, <3>2
    <2> QED BY <1>1, <2>1, <2>2 DEF Inv, Typed
<1>5. RowsBeside'
    BY <1>1, <1>2, <1>3 DEF Inv, RowsBeside
<1>6. MovedBeside'
    <2>1. CASE /\ moved' = moved
               /\ command.kind = "migrate" => row.status # "migratable"
        BY <1>1, <1>3, <2>1 DEF Inv, MovedBeside
    <2>2. CASE \E latest \in EntrySet :
                /\ moved' = Append(moved, latest)
                /\ latest.project = row.project
                /\ command.to \in catalog[latest.project][latest.release].targets
        <3>1. PICK latest \in EntrySet :
                /\ moved' = Append(moved, latest)
                /\ latest.project = row.project
                /\ command.to \in catalog[latest.project][latest.release].targets
            BY <2>2
        <3>2. /\ Len(moved') = Len(moved) + 1
              /\ moved'[Len(moved) + 1] = latest
              /\ \A i \in 1..Len(moved) : moved'[i] = moved[i]
            BY <1>1, <3>1
        <3>3. \A i \in 1..Len(moved') :
                command.to \in catalog[moved'[i].project][moved'[i].release].targets
            BY <1>1, <3>1, <3>2 DEF Inv, MovedBeside
        <3>4. ASSUME command.kind = "migrate",
                     \A i \in 1..Len(rows') : rows'[i].status = "migratable"
              PROVE  /\ Len(moved') = Len(rows')
                     /\ \A i \in 1..Len(rows') : moved'[i].project = rows'[i].project
            <4>1. \A i \in 1..Len(rows) : rows[i].status = "migratable"
                BY <1>1, <1>3, <3>4
            <4>2. /\ Len(moved) = Len(rows)
                  /\ \A i \in 1..Len(rows) : moved[i].project = rows[i].project
                BY <4>1, <3>4 DEF Inv, MovedBeside
            <4> QED BY <4>2, <1>1, <1>3, <3>1, <3>2
        <3> QED BY <3>3, <3>4 DEF MovedBeside
    <2> QED BY <2>1, <2>2
<1>7. NotReported' /\ MigratesWhole'
    BY <1>2 DEF Inv, NotReported, MigratesWhole
<1> QED BY <1>4, <1>5, <1>6, <1>7 DEF Inv

(***************************************************************************)
(* The steps.                                                              *)
(***************************************************************************)

\* One more mod of the resolved set, while nothing was surveyed.
LEMMA ResolveKeeps ==
    ASSUME Inv, NEW p \in Projects, Resolve(p)
    PROVE  Inv'
<1>1. PICK i \in Hashed(p, Home), side \in SidesSeen(p) :
        mods' = Append(mods, Entry(p, i, side))
    BY DEF Resolve
<1>2. i \in DOMAIN catalog[p]
    <2>1. catalog[p] \in Seq(Release) BY ConstantsAssumption DEF Inv, Typed
    <2>2. i \in 1..released[p] BY <1>1 DEF Hashed, Listed
    <2>3. released[p] \in Nat /\ released[p] <= Len(catalog[p]) BY DEF Inv, Typed
    <2> QED BY <2>1, <2>2, <2>3
<1>3. Entry(p, i, side) \in EntrySet
    BY <1>1, <1>2, EntryTyped, SideTyped DEF Inv, Typed
<1>4. pc = "resolve" /\ UNCHANGED <<catalog, released, command, pc, rows, moved, report>>
    BY DEF Resolve, Takes
<1>5. Typed' BY <1>1, <1>3, <1>4 DEF Inv, Typed
<1>6. RowsBeside' BY <1>4, <1>5 DEF Inv, RowsBeside, Typed
<1>7. MovedBeside' BY <1>4 DEF Inv, MovedBeside
<1>8. NotReported' /\ MigratesWhole' BY <1>4 DEF Inv, NotReported, MigratesWhole
<1> QED BY <1>5, <1>6, <1>7, <1>8 DEF Inv

\* A row that found nothing: it says so, and nothing moves with it.
LEMMA NothingFoundKeeps ==
    ASSUME Inv, LookupFails \/ NothingListed
    PROVE  Inv'
<1>1. Surveying /\ UNCHANGED <<catalog, released, command, pc, mods, moved, report>>
    BY DEF LookupFails, NothingListed
<1>2. PICK status \in Statuses : /\ status # "migratable"
                                /\ rows' = Append(rows, Row(Mod.project, status))
    BY DEF LookupFails, NothingListed, Statuses
<1>3. Mod \in EntrySet
    BY <1>1 DEF Surveying, Mod, Inv, Typed
<1>4. /\ Row(Mod.project, status) \in RowSet
      /\ Row(Mod.project, status).project = Mod.project
      /\ Row(Mod.project, status).status = status
    BY <1>2, <1>3 DEF Row, RowSet, EntrySet
<1> QED BY <1>1, <1>2, <1>4, RowAdded

\* A row that found a release, and in a migration that release with it.
LEMMA SurveyKeeps ==
    ASSUME Inv, Survey
    PROVE  Inv'
<1>1. Surveying /\ UNCHANGED <<catalog, released, command, pc, mods, report>>
    BY DEF Survey
<1>2. Mod \in EntrySet /\ Mod.project \in Projects
    <2>1. Mod \in EntrySet BY <1>1 DEF Surveying, Mod, Inv, Typed
    <2> QED BY <2>1 DEF EntrySet
<1> DEFINE p == Mod.project
<1>3. PICK i \in Listed(p, Where), side \in SidesSeen(p) :
        /\ rows' = Append(rows, Found(p, Status(i), Entry(p, i, side)))
        /\ moved' = IF command.kind = "migrate" THEN Append(moved, Entry(p, i, side))
                    ELSE moved
    BY DEF Survey
<1>4. i \in DOMAIN catalog[p] /\ Where \in catalog[p][i].targets
    <2>1. catalog[p] \in Seq(Release) BY <1>2, ConstantsAssumption DEF Inv, Typed
    <2>2. i \in 1..released[p] /\ Where \in catalog[p][i].targets
        BY <1>3 DEF Listed
    <2>3. released[p] \in Nat /\ released[p] <= Len(catalog[p])
        BY <1>2 DEF Inv, Typed
    <2> QED BY <2>1, <2>2, <2>3
<1> DEFINE latest == Entry(p, i, side)
           row == Found(p, Status(i), latest)
<1>5. latest \in EntrySet /\ latest.project = p /\ latest.release = i
    BY <1>2, <1>3, <1>4, EntryTyped, SideTyped DEF Inv, Typed
<1>6. Status(i) \in Statuses /\ (command.kind = "migrate" <=> Status(i) = "migratable")
    BY DEF Status, Statuses
<1>7. row \in RowSet /\ row.project = p /\ row.status = Status(i)
    BY <1>2, <1>5, <1>6 DEF Found, RowSet
<1>8. CASE command.kind = "migrate"
    <2>1. Where = command.to BY <1>8 DEF Where
    <2>2. moved' = Append(moved, latest) BY <1>3, <1>8
    <2> HIDE DEF latest, row
    <2> QED BY <1>1, <1>3, <1>4, <1>5, <1>7, <2>1, <2>2, RowAdded DEF latest, row
<1>9. CASE command.kind # "migrate"
    <2>1. moved' = moved BY <1>3, <1>9
    <2> QED BY <1>1, <1>3, <1>7, <1>9, <2>1, RowAdded
<1> QED BY <1>8, <1>9

\* The report of a migration: the one step that can make a state.
LEMMA ReportMigrationKeeps ==
    ASSUME Inv, ReportMigration
    PROVE  Inv'
<1>1. /\ pc = "survey" /\ Len(rows) = Len(mods)
      /\ command.kind = "migrate"
      /\ UNCHANGED <<catalog, released, command, mods, rows, moved>>
    BY DEF ReportMigration, Surveyed
<1>2. PICK pin \in LoaderPins :
        IF CanMigrate(pin) /\ \E i \in DOMAIN moved : ~Pinnable(moved[i])
        THEN pc' = "rejected" /\ UNCHANGED report
        ELSE /\ report'.kind = "migrate"
             /\ report'.canMigrate = CanMigrate(pin)
             /\ report'.pin = pin
             /\ report'.state = IF CanMigrate(pin) THEN moved ELSE <<>>
             /\ pc' = "reported"
    BY DEF ReportMigration
<1>3. CASE CanMigrate(pin) /\ \E i \in DOMAIN moved : ~Pinnable(moved[i])
    BY <1>1, <1>2, <1>3, RowsKept DEF Inv, Typed
<1>4. CASE ~(CanMigrate(pin) /\ \E i \in DOMAIN moved : ~Pinnable(moved[i]))
    <2>1. Typed' /\ RowsBeside' /\ MovedBeside' /\ NotReported'
        BY <1>1, <1>2, <1>4 DEF Inv, Typed, RowsBeside, MovedBeside, NotReported
    <2>2. MigratesWhole'
        <3>1. CASE ~CanMigrate(pin)
            BY <1>2, <1>4, <3>1 DEF MigratesWhole
        <3>2. CASE CanMigrate(pin)
            <4>1. /\ Len(moved) = Len(rows)
                  /\ \A i \in 1..Len(rows) : moved[i].project = rows[i].project
                  /\ \A i \in 1..Len(moved) :
                        command.to \in catalog[moved[i].project][moved[i].release].targets
                BY <1>1, <3>2 DEF CanMigrate, MovedBeside, Inv, Typed
            <4>2. DOMAIN moved = DOMAIN mods /\ DOMAIN mods = 1..Len(rows)
                BY <1>1, <4>1 DEF Inv, Typed
            <4>3. \A i \in 1..Len(rows) : rows[i].project = mods[i].project
                BY DEF Inv, RowsBeside
            <4>4. \A i \in DOMAIN moved : Pinnable(moved[i])
                BY <1>4, <3>2
            <4>5. command.to \in Supported /\ pin # NoPin
                BY <3>2 DEF CanMigrate
            <4>6. report'.state = moved /\ report'.canMigrate /\ report'.pin = pin
                BY <1>2, <1>4, <3>2
            <4>7. \A e : Pinnable(e)' = Pinnable(e)
                BY <1>1 DEF Pinnable
            <4> QED BY <1>1, <4>1, <4>2, <4>3, <4>4, <4>5, <4>6 DEF MigratesWhole, Pinnable
        <3> QED BY <3>1, <3>2
    <2> QED BY <2>1, <2>2 DEF Inv
<1> QED BY <1>3, <1>4

LEMMA InitInv == Init => Inv
<1> SUFFICES ASSUME Init PROVE Inv OBVIOUS
<1>1. \A p \in Projects : catalog[p] \in Seq(Release) /\ 1 <= Len(catalog[p])
    BY ConstantsAssumption DEF Init
<1>2. Typed BY <1>1 DEF Init, Typed
<1> QED BY <1>2 DEF Init, Inv, RowsBeside, MovedBeside, NotReported, MigratesWhole

LEMMA StepInv == Inv /\ [Next]_vars => Inv'
<1> SUFFICES ASSUME Inv, [Next]_vars PROVE Inv' OBVIOUS
<1>1. ASSUME NEW p \in Projects, Publish(p) PROVE Inv'
    BY <1>1, RowsKept DEF Publish, Inv, Typed
<1>2. CASE ResolveRejected \/ SkipSeen \/ Resolved
    BY <1>2, RowsKept DEF ResolveRejected, SkipSeen, Resolved, Inv, Typed
<1>3. ASSUME NEW p \in Projects, Unresolved(p) PROVE Inv'
    BY <1>3, RowsKept DEF Unresolved, Takes, Inv, Typed
<1>4. ASSUME NEW p \in Projects, Resolve(p) PROVE Inv'
    BY <1>4, ResolveKeeps
<1>5. CASE LookupFails \/ NothingListed
    BY <1>5, NothingFoundKeeps
<1>6. CASE Survey
    BY <1>6, SurveyKeeps
<1>7. CASE ReportUpdates
    BY <1>7 DEF ReportUpdates, Surveyed, Inv, Typed, RowsBeside, MovedBeside,
                NotReported, MigratesWhole
<1>8. ASSUME NEW accepted \in SUBSET (DOMAIN mods), PlanUpdate(accepted) PROVE Inv'
    BY <1>8, RowsKept DEF PlanUpdate, Inv, Typed
<1>9. CASE ReportMigration
    BY <1>9, ReportMigrationKeeps
<1>10. CASE UNCHANGED vars
    BY <1>10, RowsKept DEF vars, Inv, Typed
<1> QED BY <1>1, <1>2, <1>3, <1>4, <1>5, <1>6, <1>7, <1>8, <1>9, <1>10 DEF Next

-----------------------------------------------------------------------------
(* The theorem about migrations.                                           *)

\* A migrated state is the whole of the resolved set, each mod at a release for
\* the target (spec 0014 FR-6), for any catalog and any failing lookups.
THEOREM MigratesTheWholeSet == Spec => []MigratesWhole
<1>1. Inv => MigratesWhole
    BY DEF Inv
<1> QED BY <1>1, InitInv, StepInv, PTL DEF Spec

(***************************************************************************)
(* Lemmas about the pre-flight.                                            *)
(***************************************************************************)

\* What a finding proposes follows from its category, for all but the sides.
LEMMA FixOfCategory ==
    ASSUME NEW set, NEW environment, NEW c \in Conflicts(set, environment)
    PROVE  /\ c.category = "declared-incompatibility" => c.fix = "remove-mod"
           /\ c.category = "version-mismatch" => c.fix = "pin-version"
<1>1. CASE c \in DuplicateModIds(set)
    BY <1>1 DEF DuplicateModIds
<1>2. CASE c \in DeclaredIncompatibilities(set)
    BY <1>2 DEF DeclaredIncompatibilities
<1>3. CASE c \in VersionMismatches(set)
    BY <1>3 DEF VersionMismatches
<1>4. CASE c \in SideMismatches(set, environment)
    BY <1>4 DEF SideMismatches
<1>5. CASE c \in KnownBadCombinations(set)
    BY <1>5 DEF KnownBadCombinations
<1> QED BY <1>1, <1>2, <1>3, <1>4, <1>5 DEF Conflicts

\* A finding about the new set is told: as a regression, or about the old set.
LEMMA ToldEitherWay ==
    ASSUME NEW before, NEW after, NEW environment,
           NEW c \in Conflicts(after, environment)
    PROVE  \E d \in Conflicts(before, environment)
                        \cup Regressions(before, after, environment) :
                /\ d.category = c.category /\ d.mods = c.mods
                /\ c.category = "side-mismatch" => d.fix = c.fix
<1>1. CASE c \in Regressions(before, after, environment)
    BY <1>1
<1>2. CASE c \notin Regressions(before, after, environment)
    <2>1. PICK d \in Conflicts(before, environment) : Key(d) = Key(c)
        BY <1>2 DEF Regressions
    <2>2. /\ d.category = c.category /\ d.mods = c.mods
          /\ c.category = "side-mismatch" => d.fix = c.fix
        BY <2>1 DEF Key
    <2> QED BY <2>2
<1> QED BY <1>1, <1>2

\* The detectors find the mod a declaration means, if no other mod of the set has
\* its id; and what they find is meant.
LEMMA MeantIsFound ==
    ASSUME NEW set, DOMAIN set \subseteq Int, NEW k \in DOMAIN set, NEW dep,
           Means(set, dep, k), OwnId(set, k)
    PROVE  k \in FindTarget(set, dep)
<1>1. CASE \E h \in DOMAIN set : set[h].project = dep.on
    BY <1>1 DEF Means, FindTarget
<1>2. CASE ~\E h \in DOMAIN set : set[h].project = dep.on
    <2>1. dep.id # NoModId /\ dep.id = ModId[set[k].project]
        BY <1>2 DEF Means
    <2>2. Carrying(set, dep.id) = {k}
        BY <2>1 DEF Carrying, OwnId
    <2>3. k <= k
        OBVIOUS
    <2> QED BY <1>2, <2>2, <2>3 DEF FindTarget
<1> QED BY <1>1, <1>2

LEMMA FoundIsMeant ==
    ASSUME NEW set, NEW dep, NEW k \in FindTarget(set, dep)
    PROVE  k \in DOMAIN set /\ Means(set, dep, k)
<1>1. CASE \E h \in DOMAIN set : set[h].project = dep.on
    BY <1>1 DEF Means, FindTarget
<1>2. CASE ~\E h \in DOMAIN set : set[h].project = dep.on
    BY <1>2 DEF Means, FindTarget, Carrying
<1> QED BY <1>1, <1>2

\* One declaration of entry i about entry k.
LEMMA DeclarationOf ==
    ASSUME NEW set, NEW kinds, NEW i \in DOMAIN set, NEW k \in DOMAIN set,
           NEW j \in DOMAIN set[i].deps, set[i].deps[j].kind \in kinds,
           k \in FindTarget(set, set[i].deps[j])
    PROVE  /\ <<i, j, k>> \in Declarations(set, kinds)
           /\ Between(set, <<i, j, k>>) = {set[i].project, set[k].project}
           /\ Range(set, <<i, j, k>>) = set[i].deps[j].range
<1>1. <<i, j, k>> \in UNION {{h} \X (DOMAIN set[h].deps) \X (DOMAIN set) : h \in DOMAIN set}
    OBVIOUS
<1> QED BY <1>1 DEF Declarations, Between, Range

\* An exclusion that is the only declaration of its pair is found.
LEMMA ExclusionFound ==
    ASSUME NEW set, NEW i \in DOMAIN set, NEW k \in DOMAIN set,
           DOMAIN set \subseteq Int, \A h \in DOMAIN set : DOMAIN set[h].deps \subseteq Int,
           Excludes(set, i, k), DeclaredOnce(set, i, k), OwnId(set, k)
    PROVE  \E c \in Conflicts(set, command.environment) :
                /\ c.category = "declared-incompatibility"
                /\ c.mods = {set[i].project, set[k].project}
<1> DEFINE kinds == {"incompatible", "breaks"}
           all == Declarations(set, kinds)
<1>1. PICK j \in DOMAIN set[i].deps :
        /\ set[i].deps[j].kind \in kinds
        /\ Means(set, set[i].deps[j], k)
        /\ IF set[i].deps[j].range = NoRange THEN TRUE
           ELSE /\ Readable(set[i].deps[j].range)
                /\ Satisfies(set[k].number, set[i].deps[j].range)
    BY DEF Excludes
<1> DEFINE d == <<i, j, k>>
<1>2. /\ d \in all
      /\ Between(set, d) = {set[i].project, set[k].project}
      /\ Range(set, d) = set[i].deps[j].range
    BY <1>1, MeantIsFound, DeclarationOf
<1>3. ~\E e \in all : Between(set, e) = Between(set, d) /\ Earlier(e, d)
    <2> SUFFICES ASSUME NEW e \in all, Between(set, e) = Between(set, d), Earlier(e, d)
                 PROVE  FALSE
        OBVIOUS
    <2>1. e = d BY <1>2 DEF DeclaredOnce
    <2>2. ~Earlier(d, d) BY DEF Earlier
    <2> QED BY <2>1, <2>2
<1>4. \/ Range(set, d) = NoRange
      \/ ~Readable(Range(set, d))
      \/ Satisfies(set[d[3]].number, Range(set, d))
    BY <1>1, <1>2
<1> DEFINE Sure(e) == IF Range(set, e) = NoRange THEN TRUE ELSE Readable(Range(set, e))
           found == [category |-> "declared-incompatibility",
                     certainty |-> IF Sure(d) THEN "certain" ELSE "suspected",
                     mods |-> Between(set, d), fix |-> "remove-mod"]
<1>5. found \in DeclaredIncompatibilities(set)
    BY <1>2, <1>3, <1>4 DEF DeclaredIncompatibilities
<1>6. found \in Conflicts(set, command.environment)
    BY <1>5 DEF Conflicts
<1>7. found.category = "declared-incompatibility" /\ found.mods = Between(set, d)
    OBVIOUS
<1> HIDE DEF found
<1> QED BY <1>2, <1>6, <1>7

\* So is a required version that is not there.
LEMMA NeedFound ==
    ASSUME NEW set, NEW i \in DOMAIN set, NEW k \in DOMAIN set,
           DOMAIN set \subseteq Int, NeedsAnother(set, i, k), OwnId(set, k)
    PROVE  \E c \in Conflicts(set, command.environment) :
                /\ c.category = "version-mismatch"
                /\ c.mods = {set[i].project, set[k].project}
<1>1. PICK j \in DOMAIN set[i].deps :
        /\ set[i].deps[j].kind = "required"
        /\ Means(set, set[i].deps[j], k)
        /\ set[i].deps[j].range # NoRange
        /\ Readable(set[i].deps[j].range)
        /\ ~Satisfies(set[k].number, set[i].deps[j].range)
    BY DEF NeedsAnother
<1> DEFINE d == <<i, j, k>>
<1>2. /\ d \in Declarations(set, {"required"})
      /\ Between(set, d) = {set[i].project, set[k].project}
      /\ Range(set, d) = set[i].deps[j].range
    BY <1>1, MeantIsFound, DeclarationOf
<1> DEFINE found == [category |-> "version-mismatch", certainty |-> "certain",
                     mods |-> Between(set, d), fix |-> "pin-version"]
<1>3. found \in VersionMismatches(set)
    <2>1. /\ Range(set, d) # NoRange /\ Readable(Range(set, d))
          /\ ~Satisfies(set[d[3]].number, Range(set, d))
        BY <1>1, <1>2
    <2> QED BY <1>2, <2>1 DEF VersionMismatches
<1>4. found \in Conflicts(set, command.environment)
    BY <1>3 DEF Conflicts
<1>5. found.category = "version-mismatch" /\ found.mods = Between(set, d)
    OBVIOUS
<1> HIDE DEF found
<1> QED BY <1>2, <1>4, <1>5

\* And a mod of the wrong side, which is not taken for one of unknown side.
LEMMA WrongSideFound ==
    ASSUME NEW set, NEW i \in DOMAIN set, command.environment \in Environments,
           WrongSide(set, i)
    PROVE  \E c \in Conflicts(set, command.environment) :
                /\ c.category = "side-mismatch"
                /\ c.mods = {set[i].project}
                /\ c.fix = "change-side"
<1>1. set[i].side \notin {"both", command.environment} /\ set[i].side # "unknown"
    BY DEF WrongSide, Environments
<1> DEFINE found == [category |-> "side-mismatch", certainty |-> "suspected",
                     mods |-> {set[i].project}, fix |-> "change-side"]
<1>2. found \in SideMismatches(set, command.environment)
    BY <1>1 DEF SideMismatches
<1>3. found \in Conflicts(set, command.environment)
    BY <1>2 DEF Conflicts
<1>4. /\ found.category = "side-mismatch" /\ found.mods = {set[i].project}
      /\ found.fix = "change-side"
    OBVIOUS
<1> HIDE DEF found
<1> QED BY <1>3, <1>4

(***************************************************************************)
(* Taking every available update.                                          *)
(***************************************************************************)

\* Where a row says there is an update, it holds it.
LatestHeld ==
    \A i \in 1..Len(rows) : rows[i].status = "update-available" =>
        HasLatest(rows[i]) /\ rows[i].latest \in EntrySet

\* The report of a check is about the candidate of all its rows ...
ChecksCandidate ==
    /\ Len(rows) = Len(mods)
    /\ report.regressions = Regressions(mods, Candidate, command.environment)

Reported == pc = "reported" /\ report.kind = "updates" => ChecksCandidate

\* ... and a plan is the resolved set with the accepted rows swapped in.
PlannedFromRows ==
    planned # NoPlan =>
        /\ pc = "planned"
        /\ ChecksCandidate
        /\ planned.mods = [i \in DOMAIN mods |->
                IF i \in {k \in planned.accepted : HasLatest(rows[k])}
                THEN rows[i].latest ELSE mods[i]]

PlanInv == Inv /\ LatestHeld /\ Reported /\ PlannedFromRows

LEMMA AppendedRow ==
    ASSUME rows \in Seq(RowSet), NEW row, rows' = Append(rows, row), rows' \in Seq(RowSet)
    PROVE  /\ Len(rows') = Len(rows) + 1
           /\ rows'[Len(rows) + 1] = row
           /\ \A i \in 1..Len(rows) : rows'[i] = rows[i]
OBVIOUS

LEMMA RowsKeptPlan ==
    ASSUME PlanInv, UNCHANGED <<mods, rows, command, report, planned>>,
           pc' = pc \/ (pc # "planned" /\ pc' # "reported"), Inv'
    PROVE  PlanInv'
<1>1. Candidate' = Candidate BY DEF Candidate
<1>2. LatestHeld' BY DEF PlanInv, LatestHeld, HasLatest
<1>3. Reported' BY <1>1 DEF PlanInv, Reported, ChecksCandidate
<1>4. PlannedFromRows' BY <1>1 DEF PlanInv, PlannedFromRows, ChecksCandidate, HasLatest
<1> QED BY <1>2, <1>3, <1>4 DEF PlanInv

\* While the set is resolved and surveyed there is no plan yet.
LEMMA NoPlanYet ==
    ASSUME PlanInv, pc \in {"resolve", "survey"}, pc' = pc, planned' = planned, Inv',
           LatestHeld'
    PROVE  PlanInv'
<1>1. planned = NoPlan BY DEF PlanInv, PlannedFromRows
<1> QED BY <1>1 DEF PlanInv, Reported, PlannedFromRows

\* What is taken whole is the candidate the report was made of.
LEMMA PlanIsTold ==
    ASSUME PlanInv PROVE BreaksNothingUnseen
<1> SUFFICES ASSUME planned # NoPlan,
                    planned.accepted = {i \in DOMAIN mods : rows[i].status = "update-available"}
             PROVE  LET told == Conflicts(mods, command.environment) \cup report.regressions
                        Told(category, who, fixes) == \E c \in told :
                            c.category = category /\ c.mods = who /\ c.fix \in fixes
                        set == planned.mods
                    IN \A i, k \in DOMAIN set : LET who == {set[i].project, set[k].project} IN
                        /\ Excludes(set, i, k) /\ DeclaredOnce(set, i, k) /\ OwnId(set, k)
                            => Told("declared-incompatibility", who, {"remove-mod"})
                        /\ NeedsAnother(set, i, k) /\ OwnId(set, k)
                            => Told("version-mismatch", who, {"pin-version"})
                        /\ WrongSide(set, i)
                            => Told("side-mismatch", {set[i].project}, {"change-side"})
    BY DEF BreaksNothingUnseen
<1> DEFINE told == Conflicts(mods, command.environment) \cup report.regressions
           set == planned.mods
<1>1. /\ mods \in Seq(EntrySet) /\ rows \in Seq(RowSet) /\ Len(rows) = Len(mods)
      /\ DOMAIN mods = 1..Len(mods)
    BY DEF PlanInv, Inv, Typed, PlannedFromRows, ChecksCandidate
<1>2. set = Candidate
    <2>1. set = [i \in DOMAIN mods |->
                    IF i \in {k \in planned.accepted : HasLatest(rows[k])}
                    THEN rows[i].latest ELSE mods[i]]
        BY DEF PlanInv, PlannedFromRows
    <2>2. \A i \in DOMAIN mods :
            i \in {j \in planned.accepted : HasLatest(rows[j])}
                <=> rows[i].status = "update-available"
        BY <1>1 DEF PlanInv, LatestHeld
    <2> QED BY <2>1, <2>2 DEF Candidate
<1>3. told = Conflicts(mods, command.environment)
                \cup Regressions(mods, set, command.environment)
    BY <1>2 DEF PlanInv, PlannedFromRows, ChecksCandidate
<1>4. DOMAIN set = 1..Len(mods) /\ \A i \in DOMAIN set : set[i] \in EntrySet
    BY <1>1, <1>2 DEF Candidate, PlanInv, LatestHeld
<1>5. \A i \in DOMAIN set : DOMAIN set[i].deps \subseteq Int
    BY <1>4 DEF EntrySet, Dependencies
<1>51. DOMAIN set \subseteq Int
    BY <1>1, <1>4
<1>6. command.environment \in Environments
    BY ConstantsAssumption DEF PlanInv, Inv, Typed
<1>7. \A c \in Conflicts(set, command.environment) : \E d \in told :
        /\ d.category = c.category /\ d.mods = c.mods
        /\ c.category = "side-mismatch" => d.fix = c.fix
    BY <1>3, ToldEitherWay
<1>8. \A d \in told :
        /\ d.category = "declared-incompatibility" => d.fix = "remove-mod"
        /\ d.category = "version-mismatch" => d.fix = "pin-version"
    BY <1>3, FixOfCategory DEF Regressions
<1> HIDE DEF told
<1>9. ASSUME NEW i \in DOMAIN set, NEW k \in DOMAIN set,
             Excludes(set, i, k), DeclaredOnce(set, i, k), OwnId(set, k)
      PROVE  \E d \in told : /\ d.category = "declared-incompatibility"
                              /\ d.mods = {set[i].project, set[k].project}
                              /\ d.fix \in {"remove-mod"}
    <2>1. PICK c \in Conflicts(set, command.environment) :
            /\ c.category = "declared-incompatibility"
            /\ c.mods = {set[i].project, set[k].project}
        BY <1>5, <1>51, <1>9, ExclusionFound
    <2> QED BY <2>1, <1>7, <1>8
<1>10. ASSUME NEW i \in DOMAIN set, NEW k \in DOMAIN set, NeedsAnother(set, i, k),
              OwnId(set, k)
       PROVE  \E d \in told : /\ d.category = "version-mismatch"
                               /\ d.mods = {set[i].project, set[k].project}
                               /\ d.fix \in {"pin-version"}
    <2>1. NeedsAnother(set, i, k) /\ OwnId(set, k)
        BY <1>10
    <2>2. PICK c \in Conflicts(set, command.environment) :
            /\ c.category = "version-mismatch"
            /\ c.mods = {set[i].project, set[k].project}
        <3> HIDE DEF set
        <3>1. DOMAIN set \subseteq Int BY <1>51
        <3>2. i \in DOMAIN set /\ k \in DOMAIN set OBVIOUS
        <3>3. NeedsAnother(set, i, k) /\ OwnId(set, k) BY <2>1
        <3> QED BY <3>1, <3>2, <3>3, NeedFound, Z3
    <2> QED BY <2>2, <1>7, <1>8
<1>11. ASSUME NEW i \in DOMAIN set, WrongSide(set, i)
       PROVE  \E d \in told : /\ d.category = "side-mismatch"
                               /\ d.mods = {set[i].project}
                               /\ d.fix \in {"change-side"}
    <2>1. PICK c \in Conflicts(set, command.environment) :
            /\ c.category = "side-mismatch"
            /\ c.mods = {set[i].project}
            /\ c.fix = "change-side"
        BY <1>6, <1>11, WrongSideFound
    <2> QED BY <2>1, <1>7
<1> QED BY <1>9, <1>10, <1>11 DEF told

-----------------------------------------------------------------------------
(* The theorem about updates.                                              *)

LEMMA StepPlanInv == PlanInv /\ [Next]_vars => PlanInv'
<1> SUFFICES ASSUME PlanInv, [Next]_vars PROVE PlanInv' OBVIOUS
<1>0. Inv' BY StepInv DEF PlanInv
<1>1. CASE \/ \E p \in Projects : Publish(p) \/ Unresolved(p)
           \/ ResolveRejected \/ SkipSeen \/ Resolved
           \/ UNCHANGED vars
    BY <1>0, <1>1, RowsKeptPlan
       DEF Publish, Unresolved, Takes, ResolveRejected, SkipSeen, Resolved, vars
<1>2. ASSUME NEW p \in Projects, Resolve(p) PROVE PlanInv'
    <2>1. pc = "resolve" /\ UNCHANGED <<pc, rows, planned>>
        BY <1>2 DEF Resolve, Takes
    <2>2. LatestHeld' BY <2>1 DEF PlanInv, LatestHeld, HasLatest
    <2> QED BY <1>0, <2>1, <2>2, NoPlanYet
<1>3. CASE LookupFails \/ NothingListed
    <2>1. pc = "survey" /\ UNCHANGED <<pc, planned>>
        BY <1>3 DEF LookupFails, NothingListed, Surveying
    <2>2. PICK row : rows' = Append(rows, row) /\ row.status # "update-available"
        BY <1>3 DEF LookupFails, NothingListed, Row
    <2>3. rows' \in Seq(RowSet) BY <1>0 DEF Inv, Typed
    <2>4. LatestHeld'
        BY <1>0, <2>2, <2>3, AppendedRow DEF PlanInv, LatestHeld, HasLatest, Inv, Typed
    <2> QED BY <1>0, <2>1, <2>4, NoPlanYet
<1>4. CASE Survey
    <2>1. pc = "survey" /\ UNCHANGED <<pc, planned>>
        BY <1>4 DEF Survey, Surveying
    <2>2. PICK row : /\ rows' = Append(rows, row)
                     /\ HasLatest(row)
        BY <1>4 DEF Survey, Found, HasLatest
    <2>3. rows \in Seq(RowSet) /\ rows' \in Seq(RowSet)
        BY <1>0 DEF PlanInv, Inv, Typed
    <2>5. Len(rows') = Len(rows) + 1 /\ DOMAIN rows = 1..Len(rows)
          /\ DOMAIN rows' = 1..Len(rows') /\ Len(rows) \in Nat
          /\ HasLatest(rows'[Len(rows) + 1])
          /\ \A i \in 1..Len(rows) : rows'[i] = rows[i]
        BY <2>2, <2>3, AppendedRow
    <2>6. \A r \in RowSet : HasLatest(r) => r.latest \in EntrySet
        BY DEF RowSet, HasLatest
    <2>7. \A i \in 1..Len(rows) : rows'[i].status = "update-available" =>
            HasLatest(rows'[i]) /\ rows'[i].latest \in EntrySet
        BY <2>5 DEF PlanInv, LatestHeld
    <2>8. HasLatest(rows'[Len(rows) + 1]) /\ rows'[Len(rows) + 1].latest \in EntrySet
        BY <2>3, <2>5, <2>6
    <2>4. LatestHeld'
        <3> SUFFICES ASSUME NEW i \in 1..Len(rows'), (rows'[i]).status = "update-available"
                     PROVE  HasLatest(rows'[i]) /\ rows'[i].latest \in EntrySet
            BY DEF LatestHeld, HasLatest
        <3>1. CASE i \in 1..Len(rows) BY <2>7, <3>1
        <3>2. CASE i = Len(rows) + 1 BY <2>8, <3>2
        <3> QED BY <2>5, <3>1, <3>2
    <2> QED BY <1>0, <2>1, <2>4, NoPlanYet
<1>5. CASE ReportUpdates
    <2>1. /\ pc = "survey" /\ pc' = "reported" /\ Len(rows) = Len(mods)
          /\ UNCHANGED <<mods, rows, command, planned>>
          /\ report'.regressions = Regressions(mods, Candidate, command.environment)
        BY <1>5 DEF ReportUpdates, Surveyed
    <2>2. Candidate' = Candidate BY <2>1 DEF Candidate
    <2>3. planned' = NoPlan BY <2>1 DEF PlanInv, PlannedFromRows
    <2>4. LatestHeld' BY <2>1 DEF PlanInv, LatestHeld, HasLatest
    <2> QED BY <1>0, <2>1, <2>2, <2>3, <2>4
            DEF PlanInv, Reported, ChecksCandidate, PlannedFromRows
<1>6. ASSUME NEW accepted \in SUBSET (DOMAIN mods), PlanUpdate(accepted) PROVE PlanInv'
    <2> DEFINE taken == {i \in accepted : HasLatest(rows[i])}
    <2>1. CASE \A i \in taken : Pinnable(rows[i].latest)
        <3>1. /\ pc = "reported" /\ report.kind = "updates" /\ pc' = "planned"
              /\ UNCHANGED <<mods, rows, command, report>>
              /\ planned' = [accepted |-> accepted,
                             mods |-> [i \in DOMAIN mods |->
                                IF i \in taken THEN rows[i].latest ELSE mods[i]]]
            BY <1>6, <2>1 DEF PlanUpdate
        <3>2. Candidate' = Candidate BY <3>1 DEF Candidate
        <3>3. LatestHeld' BY <3>1 DEF PlanInv, LatestHeld, HasLatest
        <3>4. ChecksCandidate'
            BY <3>1, <3>2 DEF PlanInv, Reported, ChecksCandidate
        <3>5. PlannedFromRows'
            BY <3>1, <3>4 DEF PlannedFromRows, HasLatest
        <3> QED BY <1>0, <3>1, <3>3, <3>5 DEF PlanInv, Reported
    <2>2. CASE ~\A i \in taken : Pinnable(rows[i].latest)
        BY <1>0, <1>6, <2>2, RowsKeptPlan DEF PlanUpdate
    <2> QED BY <2>1, <2>2
<1>7. CASE ReportMigration
    <2>1. /\ pc = "survey" /\ UNCHANGED <<mods, rows, command, planned>>
          /\ pc' = "rejected" \/ report'.kind = "migrate"
        BY <1>7 DEF ReportMigration, Surveyed
    <2>2. planned' = NoPlan BY <2>1 DEF PlanInv, PlannedFromRows
    <2>3. LatestHeld' BY <2>1 DEF PlanInv, LatestHeld, HasLatest
    <2> QED BY <1>0, <2>1, <2>2, <2>3 DEF PlanInv, Reported, PlannedFromRows
<1> QED BY <1>1, <1>2, <1>3, <1>4, <1>5, <1>6, <1>7 DEF Next

LEMMA AlwaysPlanInv == Spec => []PlanInv
<1>1. Init => PlanInv
    BY InitInv DEF Init, PlanInv, LatestHeld, Reported, PlannedFromRows
<1> QED BY <1>1, StepPlanInv, PTL DEF Spec

\* Taking all the available updates brings no conflict that was not told (spec
\* 0013 FR-5), for any catalog, whatever it publishes meanwhile.
THEOREM UpdatesBreakNothingUnseen == Spec => []BreaksNothingUnseen
<1>1. PlanInv => BreaksNothingUnseen
    BY PlanIsTold
<1> QED BY <1>1, AlwaysPlanInv, PTL

\* What a set has in conflict, said without the detectors: two jars with one mod
\* id, an exclusion, a curated combination, a version out of range.
InConflict(set, c) ==
    \/ /\ c.category = "duplicate-mod-id"
       /\ \E i, k \in DOMAIN set :
            /\ i # k /\ {set[i].project, set[k].project} \subseteq c.mods
            /\ ModId[set[i].project] = ModId[set[k].project]
            /\ ModId[set[i].project] # NoModId
    \/ /\ c.category = "declared-incompatibility"
       /\ \/ \E i, k \in DOMAIN set :
                Excludes(set, i, k) /\ c.mods = {set[i].project, set[k].project}
          \/ \E bad \in KnownBad :
                /\ bad.certainty = "certain" /\ c.mods = bad.mods
                /\ bad.mods \subseteq {set[i].project : i \in DOMAIN set}
    \/ /\ c.category = "version-mismatch"
       /\ \E i, k \in DOMAIN set :
            NeedsAnother(set, i, k) /\ c.mods = {set[i].project, set[k].project}

\* What is compared although it is no number, as 0: the installed version of a
\* mod that another one declares a range of, or an end of that range.
Misread(set, c) ==
    /\ c.category \in {"declared-incompatibility", "version-mismatch"}
    /\ \E i, k \in DOMAIN set : \E j \in DOMAIN set[i].deps :
        LET dep == set[i].deps[j] IN
            /\ Means(set, dep, k) /\ dep.range # NoRange
            /\ ~Numeric(set[k].number, dep.range)
            /\ c.mods = {set[i].project, set[k].project}

LEMMA DeclarationMeans ==
    ASSUME NEW set, NEW kinds, NEW d \in Declarations(set, kinds)
    PROVE  /\ d[1] \in DOMAIN set /\ d[3] \in DOMAIN set
           /\ d[2] \in DOMAIN set[d[1]].deps
           /\ set[d[1]].deps[d[2]].kind \in kinds
           /\ Means(set, set[d[1]].deps[d[2]], d[3])
<1>1. /\ d[1] \in DOMAIN set /\ d[2] \in DOMAIN set[d[1]].deps
      /\ set[d[1]].deps[d[2]].kind \in kinds
      /\ d[3] \in FindTarget(set, set[d[1]].deps[d[2]])
    BY DEF Declarations
<1> QED BY <1>1, FoundIsMeant

\* Whatever the mods of a set declare, how often and how unreadably, a conflict
\* that is reported as certain is one, unless the version or the range it rests on
\* is no number: the range's form is looked at, but a text compares as 0
\* (the five detectors and version-range.ts; what rests on a range of no known
\* form or on an unknown side is only suspected).
THEOREM CertainIsReal ==
    ASSUME NEW set, NEW environment, NEW c \in Conflicts(set, environment),
           c.certainty = "certain"
    PROVE  InConflict(set, c) \/ Misread(set, c)
<1>1. CASE c \in DuplicateModIds(set)
    <2>1. PICK i \in DOMAIN set :
            /\ ModId[set[i].project] # NoModId
            /\ \E k \in DOMAIN set :
                k # i /\ ModId[set[k].project] = ModId[set[i].project]
            /\ c.category = "duplicate-mod-id"
            /\ c.mods = {p \in {set[h].project : h \in DOMAIN set} :
                            ModId[p] = ModId[set[i].project]}
        BY <1>1 DEF DuplicateModIds
    <2>2. PICK k \in DOMAIN set : k # i /\ ModId[set[k].project] = ModId[set[i].project]
        BY <2>1
    <2>3. {set[i].project, set[k].project} \subseteq c.mods
        BY <2>1, <2>2
    <2> QED BY <2>1, <2>2, <2>3 DEF InConflict
<1>2. CASE c \in DeclaredIncompatibilities(set)
    <2> DEFINE kinds == {"incompatible", "breaks"}
               Sure(d) == IF Range(set, d) = NoRange THEN TRUE ELSE Readable(Range(set, d))
    <2>1. PICK d \in Declarations(set, kinds) :
            /\ \/ Range(set, d) = NoRange
               \/ ~Readable(Range(set, d))
               \/ Satisfies(set[d[3]].number, Range(set, d))
            /\ c = [category |-> "declared-incompatibility",
                    certainty |-> IF Sure(d) THEN "certain" ELSE "suspected",
                    mods |-> Between(set, d), fix |-> "remove-mod"]
        BY <1>2 DEF DeclaredIncompatibilities
    <2>2. Sure(d) /\ c.category = "declared-incompatibility" /\ c.mods = Between(set, d)
        BY <2>1
    <2>3. /\ d[1] \in DOMAIN set /\ d[3] \in DOMAIN set
          /\ d[2] \in DOMAIN set[d[1]].deps
          /\ set[d[1]].deps[d[2]].kind \in kinds
          /\ Means(set, set[d[1]].deps[d[2]], d[3])
        BY <2>1, DeclarationMeans
    <2>4. CASE Range(set, d) = NoRange \/ Numeric(set[d[3]].number, Range(set, d))
        <3>1. Excludes(set, d[1], d[3])
            BY <2>1, <2>2, <2>3, <2>4 DEF Excludes, Range
        <3> QED BY <2>2, <2>3, <3>1 DEF InConflict, Between
    <2>5. CASE ~(Range(set, d) = NoRange \/ Numeric(set[d[3]].number, Range(set, d)))
        BY <2>2, <2>3, <2>5 DEF Misread, Between, Range
    <2> QED BY <2>4, <2>5
<1>3. CASE c \in VersionMismatches(set)
    <2>1. PICK d \in Declarations(set, {"required"}) :
            /\ Range(set, d) # NoRange /\ Readable(Range(set, d))
            /\ ~Satisfies(set[d[3]].number, Range(set, d))
            /\ c = [category |-> "version-mismatch", certainty |-> "certain",
                    mods |-> Between(set, d), fix |-> "pin-version"]
        BY <1>3 DEF VersionMismatches
    <2>2. /\ d[1] \in DOMAIN set /\ d[3] \in DOMAIN set
          /\ d[2] \in DOMAIN set[d[1]].deps
          /\ set[d[1]].deps[d[2]].kind = "required"
          /\ Means(set, set[d[1]].deps[d[2]], d[3])
        BY <2>1, DeclarationMeans
    <2>3. c.category = "version-mismatch" /\ c.mods = Between(set, d)
        BY <2>1
    <2>4. CASE Numeric(set[d[3]].number, Range(set, d))
        <3>1. NeedsAnother(set, d[1], d[3])
            BY <2>1, <2>2, <2>4 DEF NeedsAnother, Range
        <3> QED BY <2>2, <2>3, <3>1 DEF InConflict, Between
    <2>5. CASE ~Numeric(set[d[3]].number, Range(set, d))
        BY <2>1, <2>2, <2>3, <2>5 DEF Misread, Between, Range
    <2> QED BY <2>4, <2>5
<1>4. CASE c \in SideMismatches(set, environment)
    BY <1>4 DEF SideMismatches
<1>5. CASE c \in KnownBadCombinations(set)
    BY <1>5 DEF KnownBadCombinations, InConflict
<1> QED BY <1>1, <1>2, <1>3, <1>4, <1>5 DEF Conflicts

\* And the exception is real: a required mod whose installed version is no number
\* is reported as certainly out of any range that starts above 0, although
\* version-mismatch.ts says that the check is skipped when a version cannot be
\* parsed (compareVersions, trySatisfiesRange).
THEOREM UnparsedIsCertain ==
    ASSUME NEW set, NEW environment, NEW i \in DOMAIN set, NEW k \in DOMAIN set,
           NEW j \in DOMAIN set[i].deps, NEW n \in Nat \ {0},
           set[i].deps[j].kind = "required",
           k \in FindTarget(set, set[i].deps[j]),
           set[i].deps[j].range = AtLeast(n),
           AtLeast(n) # NoRange, {NoBound, NoNumber} \cap Nat = {},
           set[k].number = NoNumber
    PROVE  [category |-> "version-mismatch", certainty |-> "certain",
            mods |-> {set[i].project, set[k].project}, fix |-> "pin-version"]
                \in Conflicts(set, environment)
<1> DEFINE d == <<i, j, k>>
<1>1. /\ d \in Declarations(set, {"required"})
      /\ Between(set, d) = {set[i].project, set[k].project}
      /\ Range(set, d) = AtLeast(n)
    BY DeclarationOf
<1>2. Readable(AtLeast(n)) /\ ~Satisfies(NoNumber, AtLeast(n))
    BY DEF AtLeast, Readable, Satisfies, Segment
<1>3. [category |-> "version-mismatch", certainty |-> "certain",
       mods |-> Between(set, d), fix |-> "pin-version"] \in VersionMismatches(set)
    <2>1. /\ Range(set, d) # NoRange /\ Readable(Range(set, d))
          /\ ~Satisfies(set[d[3]].number, Range(set, d))
        BY <1>1, <1>2
    <2> QED BY <1>1, <2>1 DEF VersionMismatches
<1> QED BY <1>1, <1>3 DEF Conflicts

(***************************************************************************)
(* What is resolved, and the types.                                        *)
(***************************************************************************)

LEMMA LeastOf ==
    ASSUME NEW T \in SUBSET Nat, T # {}
    PROVE  \E i \in T : \A j \in T : i <= j
<1> DEFINE Less == OpToRel(<, Nat)
<1>1. IsWellFoundedOn(Less, Nat)
    BY NatLessThanWellFounded
<1>2. \A x, y \in Nat : y < x => <<y, x>> \in Less
    BY DEF OpToRel
<1> HIDE DEF Less
<1>3. PICK i \in T : \A j \in T : ~(<<j, i>> \in Less)
    BY <1>1, WFMin
<1>4. \A j \in T : ~(j < i)
    BY <1>2, <1>3
<1>5. \A j \in T : i <= j
    BY <1>4
<1> QED BY <1>5

\* Induction, of which the library's form cannot be instantiated here.
LEMMA SetInduction ==
    ASSUME NEW T, 0 \in T, \A n \in Nat : n \in T => n + 1 \in T
    PROVE  Nat \subseteq T
<1> DEFINE Rest == Nat \ T
<1> SUFFICES ASSUME Rest # {} PROVE FALSE
    OBVIOUS
<1>1. PICK i \in Rest : \A j \in Rest : i <= j
    BY LeastOf
<1>2. i \in Nat /\ i # 0
    OBVIOUS
<1>3. i - 1 \in Nat /\ (i - 1) + 1 = i /\ ~(i <= i - 1)
    BY <1>2
<1> QED BY <1>1, <1>3

Wanted(dep) == dep.kind = "required" /\ dep.on \in Projects \ seen

\* The projects wanted among the first i dependencies, for every i up to m.
Among(deps, m, f) ==
    f = [i \in 0..m |->
            IF i = 0 THEN <<>>
            ELSE IF Wanted(deps[i]) THEN Append(f[i - 1], deps[i].on) ELSE f[i - 1]]

LEMMA AmongExists ==
    ASSUME NEW deps, NEW m \in Nat
    PROVE  \E f : Among(deps, m, f)
<1> DEFINE T == {k \in Nat : \E f : Among(deps, k, f)}
           One(s, i) == IF Wanted(deps[i]) THEN Append(s, deps[i].on) ELSE s
<1>1. 0 \in T
    <2> DEFINE f == [i \in 0..0 |-> <<>>]
    <2>1. Among(deps, 0, f)
        BY DEF Among
    <2> QED BY <2>1
<1>2. ASSUME NEW k \in Nat, k \in T
      PROVE  k + 1 \in T
    <2>1. PICK f : Among(deps, k, f)
        BY <1>2
    <2>2. f = [i \in 0..k |-> IF i = 0 THEN <<>> ELSE One(f[i - 1], i)]
        BY <2>1 DEF Among
    <2> DEFINE g == [i \in 0..k + 1 |-> IF i = k + 1 THEN One(f[k], i) ELSE f[i]]
               h == [i \in 0..k + 1 |-> IF i = 0 THEN <<>> ELSE One(g[i - 1], i)]
    <2> HIDE DEF One
    <2>3. ASSUME NEW i \in 0..k + 1
          PROVE  g[i] = h[i]
        <3>1. CASE i = k + 1
            BY <3>1
        <3>2. CASE i # k + 1 /\ i = 0
            BY <2>2, <3>2
        <3>3. CASE i # k + 1 /\ i # 0
            <4>1. i \in 0..k /\ i - 1 \in 0..k /\ i - 1 \in 0..k + 1 /\ i - 1 # k + 1
                BY <3>3
            <4>2. g[i] = f[i] /\ g[i - 1] = f[i - 1]
                BY <3>3, <4>1
            <4>3. f[i] = One(f[i - 1], i)
                BY <2>2, <3>3, <4>1
            <4> QED BY <3>3, <4>2, <4>3
        <3> QED BY <3>1, <3>2, <3>3
    <2>4. g = h
        BY <2>3
    <2>5. Among(deps, k + 1, g)
        BY <2>4 DEF Among, One
    <2> QED BY <2>5
<1>3. Nat \subseteq T
    <2> HIDE DEF T
    <2> QED BY <1>1, <1>2, SetInduction
<1> QED BY <1>3

LEMMA RequiresAre ==
    ASSUME NEW entry, Len(entry.deps) \in Nat
    PROVE  \E f : /\ Among(entry.deps, Len(entry.deps), f)
                  /\ Requires(entry) = f[Len(entry.deps)]
<1> DEFINE deps == entry.deps
           m == Len(deps)
           f == CHOOSE g : g = [i \in 0..m |->
                    IF i = 0 THEN <<>>
                    ELSE IF Wanted(deps[i]) THEN Append(g[i - 1], deps[i].on) ELSE g[i - 1]]
<1>1. Among(deps, m, f)
    BY AmongExists DEF Among
<1>2. Requires(entry) = f[m]
    BY DEF Requires, Wanted
<1> QED BY <1>1, <1>2

LEMMA AmongTyped ==
    ASSUME NEW deps, NEW m \in Nat, NEW f, Among(deps, m, f)
    PROVE  f[m] \in Seq(Projects)
<1> DEFINE One(s, i) == IF Wanted(deps[i]) THEN Append(s, deps[i].on) ELSE s
<1>1. f = [i \in 0..m |-> IF i = 0 THEN <<>> ELSE One(f[i - 1], i)]
    BY DEF Among
<1>2. /\ f[0] = <<>>
      /\ \A i \in 0..m : i # 0 => f[i] = One(f[i - 1], i)
    <2> HIDE DEF One
    <2>1. 0 \in 0..m
        OBVIOUS
    <2> QED BY <1>1, <2>1
<1> DEFINE T == {n \in Nat : n <= m => f[n] \in Seq(Projects)}
<1>5. 0 \in T
    <2>1. <<>> \in Seq(Projects)
        OBVIOUS
    <2>2. f[0] \in Seq(Projects)
        BY <1>2, <2>1
    <2> QED BY <2>2
<1>3. ASSUME NEW n \in Nat, n \in T
      PROVE  n + 1 \in T
    <2> SUFFICES ASSUME n + 1 <= m PROVE f[n + 1] \in Seq(Projects)
        OBVIOUS
    <2>1. n + 1 \in 1..m /\ n + 1 \in 0..m /\ n + 1 # 0 /\ (n + 1) - 1 = n
        OBVIOUS
    <2>2. f[n] \in Seq(Projects) /\ (Wanted(deps[n + 1]) => deps[n + 1].on \in Projects)
        BY <1>3, <2>1 DEF Wanted
    <2>3. f[n + 1] = IF Wanted(deps[n + 1]) THEN Append(f[n], deps[n + 1].on) ELSE f[n]
        BY <1>2, <2>1
    <2> QED BY <2>2, <2>3
<1>4. Nat \subseteq T
    <2> HIDE DEF T
    <2> QED BY <1>5, <1>3, SetInduction
<1> QED BY <1>4

\* What an entry requires are projects.
LEMMA RequiresTyped ==
    ASSUME NEW entry, entry.deps \in Dependencies
    PROVE  Requires(entry) \in Seq(Projects)
<1>1. Len(entry.deps) \in Nat
    BY DEF Dependencies
<1>2. PICK f : Among(entry.deps, Len(entry.deps), f) /\ Requires(entry) = f[Len(entry.deps)]
    BY <1>1, RequiresAre
<1> QED BY <1>1, <1>2, AmongTyped

\* The queue is of projects, and something of each is out.
Queued ==
    /\ todo \in Seq(Projects)
    /\ seen \subseteq Projects
    /\ \A p \in Projects : 1 <= released[p]
    /\ pc \in {"resolve", "survey", "reported", "planned", "rejected"}

\* The resolved set is of entries, one of each project that was taken up.
ResolvedOnce ==
    /\ \A i \in 1..Len(mods) : IsEntry(mods[i]) /\ mods[i].project \in seen
    /\ \A i, j \in 1..Len(mods) : i # j => mods[i].project # mods[j].project

\* What a row found is an entry of its project.
RowEntries ==
    \A i \in 1..Len(rows) :
        HasLatest(rows[i]) =>
            IsEntry(rows[i].latest) /\ rows[i].latest.project = rows[i].project

TypeInv == Inv /\ Queued /\ ResolvedOnce /\ RowEntries

LEMMA InitTypeInv == Init => TypeInv
<1> SUFFICES ASSUME Init PROVE TypeInv
    OBVIOUS
<1>1. command.include \in Seq(Projects)
    BY ConstantsAssumption DEF Init
<1>2. Queued
    BY <1>1 DEF Init, Queued
<1> QED BY <1>2, InitInv DEF Init, TypeInv, ResolvedOnce, RowEntries

\* A step that resolves and surveys nothing.
LEMMA SetKept ==
    ASSUME TypeInv, Inv', UNCHANGED <<catalog, seen, mods, rows>>,
           todo' \in Seq(Projects), \A p \in Projects : 1 <= released'[p],
           pc' \in {"resolve", "survey", "reported", "planned", "rejected"}
    PROVE  TypeInv'
<1>1. Queued'
    BY DEF TypeInv, Queued
<1>2. ResolvedOnce'
    BY DEF TypeInv, ResolvedOnce, IsEntry, Entry
<1>3. RowEntries'
    BY DEF TypeInv, RowEntries, IsEntry, Entry, HasLatest
<1> QED BY <1>1, <1>2, <1>3 DEF TypeInv

LEMMA TailTyped ==
    ASSUME Queued, todo # <<>>
    PROVE  Tail(todo) \in Seq(Projects)
    BY DEF Queued

LEMMA UnresolvedKeepsTypes ==
    ASSUME TypeInv, Inv', NEW p \in Projects, Unresolved(p)
    PROVE  TypeInv'
<1>1. /\ todo # <<>> /\ todo' = Tail(todo) /\ seen' = seen \cup {p}
      /\ UNCHANGED <<catalog, released, pc, mods, rows>>
    BY DEF Unresolved, Takes
<1>2. Queued'
    BY <1>1, TailTyped DEF TypeInv, Queued
<1>3. ResolvedOnce'
    BY <1>1 DEF TypeInv, ResolvedOnce, IsEntry, Entry
<1>4. RowEntries'
    BY <1>1 DEF TypeInv, RowEntries, IsEntry, Entry, HasLatest
<1> QED BY <1>2, <1>3, <1>4 DEF TypeInv

\* A release of the catalog's answer is an entry.
LEMMA EntryIs ==
    ASSUME TypeInv, NEW p \in Projects, NEW i \in 1..released[p], NEW side \in SidesSeen(p)
    PROVE  IsEntry(Entry(p, i, side)) /\ Entry(p, i, side).project = p
           /\ Entry(p, i, side) \in EntrySet
<1>1. catalog \in Catalogs /\ released[p] \in Nat /\ released[p] <= Len(catalog[p])
    BY DEF TypeInv, Inv, Typed
<1>2. catalog[p] \in Seq(Release)
    BY <1>1, ConstantsAssumption
<1>3. i \in DOMAIN catalog[p]
    BY <1>1, <1>2
<1>4. side \in Sides
    BY SideTyped
<1>5. /\ Entry(p, i, side).project = p /\ Entry(p, i, side).release = i
      /\ Entry(p, i, side).side = side
    BY DEF Entry
<1> QED BY <1>1, <1>3, <1>4, <1>5, EntryTyped DEF IsEntry

LEMMA ResolveKeepsTypes ==
    ASSUME TypeInv, Inv', NEW p \in Projects, Resolve(p)
    PROVE  TypeInv'
<1>1. PICK i \in Hashed(p, Home), side \in SidesSeen(p) :
        /\ mods' = Append(mods, Entry(p, i, side))
        /\ todo' = Tail(todo) \o Requires(Entry(p, i, side))
    BY DEF Resolve
<1> DEFINE entry == Entry(p, i, side)
<1>2. /\ todo # <<>> /\ p \notin seen /\ seen' = seen \cup {p}
      /\ UNCHANGED <<catalog, released, pc, rows>>
    BY DEF Resolve, Takes
<1>3. IsEntry(entry) /\ entry.project = p /\ entry \in EntrySet
    BY <1>1, EntryIs DEF Hashed, Listed
<1> HIDE DEF entry
<1>4. Requires(entry) \in Seq(Projects)
    BY <1>3, RequiresTyped DEF EntrySet
<1>5. todo' \in Seq(Projects)
    <2>1. todo' = Tail(todo) \o Requires(entry) /\ Tail(todo) \in Seq(Projects)
        BY <1>1, <1>2, TailTyped DEF entry, TypeInv
    <2> QED BY <1>4, <2>1
<1>6. Queued'
    BY <1>2, <1>5 DEF TypeInv, Queued
<1>7. /\ Len(mods) \in Nat /\ Len(mods') = Len(mods) + 1 /\ mods'[Len(mods) + 1] = entry
      /\ \A k \in 1..Len(mods) : mods'[k] = mods[k]
    BY <1>1, <1>3 DEF entry, TypeInv, Inv, Typed
<1>8. ResolvedOnce'
    <2>1. \A e : IsEntry(e)' <=> IsEntry(e)
        BY <1>2 DEF IsEntry, Entry
    <2>2. \A k \in 1..Len(mods') : k \in 1..Len(mods) \/ k = Len(mods) + 1
        BY <1>7
    <2>3. \A k \in 1..Len(mods') : IsEntry(mods'[k]) /\ mods'[k].project \in seen'
        BY <1>2, <1>3, <1>7, <2>2 DEF TypeInv, ResolvedOnce
    <2>4. \A k \in 1..Len(mods) : mods[k].project # p
        BY <1>2 DEF TypeInv, ResolvedOnce
    <2>5. \A k, l \in 1..Len(mods') : k # l => mods'[k].project # mods'[l].project
        BY <1>3, <1>7, <2>2, <2>4 DEF TypeInv, ResolvedOnce
    <2> QED BY <1>2, <2>3, <2>5 DEF ResolvedOnce, IsEntry, Entry
<1>9. RowEntries'
    BY <1>2 DEF TypeInv, RowEntries, IsEntry, Entry, HasLatest
<1> QED BY <1>6, <1>8, <1>9 DEF TypeInv

\* One more row.
LEMMA RowKeepsTypes ==
    ASSUME TypeInv, Inv', NEW row, rows' = Append(rows, row),
           HasLatest(row) => IsEntry(row.latest) /\ row.latest.project = row.project,
           UNCHANGED <<catalog, released, pc, todo, seen, mods>>
    PROVE  TypeInv'
<1>1. rows \in Seq(RowSet) /\ rows' \in Seq(RowSet)
    BY DEF TypeInv, Inv, Typed
<1>2. /\ Len(rows) \in Nat /\ Len(rows') = Len(rows) + 1 /\ rows'[Len(rows) + 1] = row
      /\ \A i \in 1..Len(rows) : rows'[i] = rows[i]
    BY <1>1, AppendedRow
<1>3. Queued'
    BY DEF TypeInv, Queued
<1>4. ResolvedOnce'
    BY DEF TypeInv, ResolvedOnce, IsEntry, Entry
<1>5. RowEntries'
    <2>1. \A i \in 1..Len(rows') : i \in 1..Len(rows) \/ i = Len(rows) + 1
        BY <1>2
    <2>2. \A i \in 1..Len(rows') : HasLatest(rows'[i]) =>
            IsEntry(rows'[i].latest) /\ rows'[i].latest.project = rows'[i].project
        BY <1>2, <2>1 DEF TypeInv, RowEntries
    <2> QED BY <2>2 DEF RowEntries, IsEntry, Entry, HasLatest
<1> QED BY <1>3, <1>4, <1>5 DEF TypeInv

LEMMA SurveyKeepsTypes ==
    ASSUME TypeInv, Inv', LookupFails \/ NothingListed \/ Survey
    PROVE  TypeInv'
<1>1. UNCHANGED <<catalog, released, pc, todo, seen, mods>>
    BY DEF LookupFails, NothingListed, Survey
<1>2. CASE LookupFails \/ NothingListed
    <2>1. PICK status : rows' = Append(rows, Row(Mod.project, status))
        BY <1>2 DEF LookupFails, NothingListed
    <2>2. ~HasLatest(Row(Mod.project, status))
        BY DEF HasLatest, Row
    <2> QED BY <1>1, <2>1, <2>2, RowKeepsTypes
<1>3. CASE Survey
    <2>1. Mod.project \in Projects
        <3>1. Mod \in EntrySet
            BY <1>3 DEF Survey, Surveying, Mod, TypeInv, Inv, Typed
        <3> QED BY <3>1 DEF EntrySet
    <2> DEFINE p == Mod.project
    <2>2. PICK i \in Listed(p, Where), side \in SidesSeen(p) :
            rows' = Append(rows, Found(p, Status(i), Entry(p, i, side)))
        BY <1>3 DEF Survey
    <2> DEFINE row == Found(p, Status(i), Entry(p, i, side))
    <2>3. row.latest = Entry(p, i, side) /\ row.project = p
        BY DEF Found
    <2>4. IsEntry(Entry(p, i, side)) /\ Entry(p, i, side).project = p
        BY <2>1, <2>2, EntryIs DEF Listed
    <2> HIDE DEF row, p
    <2> QED BY <1>1, <2>2, <2>3, <2>4, RowKeepsTypes DEF row
<1> QED BY <1>2, <1>3

LEMMA StepTypeInv == TypeInv /\ [Next]_vars => TypeInv'
<1> SUFFICES ASSUME TypeInv, [Next]_vars PROVE TypeInv'
    OBVIOUS
<1>1. Inv'
    BY StepInv DEF TypeInv
<1>2. ASSUME NEW p \in Projects, Publish(p)
      PROVE  TypeInv'
    <2>1. \A q \in Projects : 1 <= released'[q]
        BY <1>2 DEF Publish, TypeInv, Queued, Inv, Typed
    <2> QED BY <1>1, <1>2, <2>1, SetKept DEF Publish, TypeInv, Queued
<1>3. CASE SkipSeen
    <2>1. todo' \in Seq(Projects)
        BY <1>3, TailTyped DEF SkipSeen, TypeInv
    <2> QED BY <1>1, <1>3, <2>1, SetKept DEF SkipSeen, TypeInv, Queued
<1>4. CASE ResolveRejected \/ Resolved \/ UNCHANGED vars
    BY <1>1, <1>4, SetKept DEF ResolveRejected, Resolved, vars, TypeInv, Queued
<1>5. ASSUME NEW p \in Projects, Unresolved(p) \/ Resolve(p)
      PROVE  TypeInv'
    BY <1>1, <1>5, UnresolvedKeepsTypes, ResolveKeepsTypes
<1>6. CASE LookupFails \/ NothingListed \/ Survey
    BY <1>1, <1>6, SurveyKeepsTypes
<1>7. CASE ReportUpdates
    BY <1>1, <1>7, SetKept DEF ReportUpdates, TypeInv, Queued
<1>8. ASSUME NEW accepted \in SUBSET (DOMAIN mods), PlanUpdate(accepted)
      PROVE  TypeInv'
    <2>1. /\ UNCHANGED <<catalog, released, todo, seen, mods, rows>>
          /\ pc' \in {"planned", "rejected"}
        BY <1>8 DEF PlanUpdate
    <2> QED BY <1>1, <2>1, SetKept DEF TypeInv, Queued
<1>9. CASE ReportMigration
    <2>1. /\ UNCHANGED <<catalog, released, todo, seen, mods, rows>>
          /\ pc' \in {"reported", "rejected"}
        BY <1>9 DEF ReportMigration
    <2> QED BY <1>1, <2>1, SetKept DEF TypeInv, Queued
<1> QED BY <1>2, <1>3, <1>4, <1>5, <1>6, <1>7, <1>8, <1>9 DEF Next

LEMMA TypesFollow == TypeInv /\ PlanInv => TypeOK
<1> SUFFICES ASSUME TypeInv, PlanInv PROVE TypeOK
    OBVIOUS
<1>1. /\ mods \in Seq(EntrySet) /\ rows \in Seq(RowSet) /\ command \in Commands
      /\ Len(rows) <= Len(mods)
      /\ \A i \in 1..Len(rows) : rows[i].project = mods[i].project
    BY DEF TypeInv, Inv, Typed, RowsBeside
<1>2. DOMAIN mods = 1..Len(mods) /\ DOMAIN rows = 1..Len(rows)
    BY <1>1
<1>3. \A p \in Projects : released[p] \in DOMAIN catalog[p]
    <2> SUFFICES ASSUME NEW p \in Projects PROVE released[p] \in DOMAIN catalog[p]
        OBVIOUS
    <2>1. catalog[p] \in Seq(Release)
        BY ConstantsAssumption DEF TypeInv, Inv, Typed
    <2>2. released[p] \in Nat /\ 1 <= released[p] /\ released[p] <= Len(catalog[p])
        BY DEF TypeInv, Inv, Typed, Queued
    <2> QED BY <2>1, <2>2
<1>4. \A i \in DOMAIN todo : todo[i] \in Projects
    BY DEF TypeInv, Queued
<1>5. \A i \in DOMAIN rows : rows[i].status \in Statuses
    <2>1. \A i \in DOMAIN rows : rows[i] \in RowSet
        BY <1>1, <1>2
    <2>2. \A r \in RowSet : r.status \in Statuses
        BY DEF RowSet
    <2> QED BY <2>1, <2>2
<1>6. \A i \in DOMAIN rows : HasLatest(rows[i]) =>
        IsEntry(rows[i].latest) /\ rows[i].latest.project = mods[i].project
    BY <1>1, <1>2 DEF TypeInv, RowEntries
<1>7. planned # NoPlan =>
        /\ DOMAIN planned.mods = DOMAIN mods
        /\ \A i \in DOMAIN mods : planned.mods[i].project = mods[i].project
    <2> SUFFICES ASSUME planned # NoPlan
                 PROVE  /\ DOMAIN planned.mods = DOMAIN mods
                        /\ \A i \in DOMAIN mods : planned.mods[i].project = mods[i].project
        OBVIOUS
    <2>1. /\ Len(rows) = Len(mods)
          /\ planned.mods = [i \in DOMAIN mods |->
                IF i \in {k \in planned.accepted : HasLatest(rows[k])}
                THEN rows[i].latest ELSE mods[i]]
        BY DEF PlanInv, PlannedFromRows, ChecksCandidate
    <2> QED BY <1>2, <1>6, <2>1
<1> QED BY <1>1, <1>2, <1>3, <1>4, <1>5, <1>6, <1>7
        DEF TypeOK, TypeInv, Queued, ResolvedOnce

\* For any catalog that publishes meanwhile: every mod of the set, every row and
\* every plan is an entry of a release that is there, in its place, and no
\* project is resolved twice, however its dependencies lead back to it
\* (resolveModpack, checkOne, planUpdate).
THEOREM TypeCorrect == Spec => []TypeOK
<1>1. Spec => []TypeInv
    BY InitTypeInv, StepTypeInv, PTL DEF Spec
<1> QED BY <1>1, AlwaysPlanInv, TypesFollow, PTL
=============================================================================
