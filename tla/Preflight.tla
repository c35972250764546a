----------------------------- MODULE Preflight -----------------------------
(***************************************************************************)
(* The static checks of a resolved set: version ranges                     *)
(* (src/src/core/domain/version-range.ts), the five conflict detectors     *)
(* (src/src/core/conflicts/detectors/) and the comparison of two sets      *)
(* (src/src/core/updates/regressions.ts).                                  *)
(*                                                                         *)
(* A set is a sequence of entries [project, number, side, deps].  A        *)
(* version is one segment, a natural or a text that is none; what a        *)
(* detector says in words is left out, so a report is the set of its       *)
(* findings.                                                               *)
(***************************************************************************)
EXTENDS Integers, Sequences, FiniteSets

CONSTANTS
    Projects,
    NoProject,      \* a dependency that names no project of the catalog
    NoModId,        \* the mod id inside the jar is not known
    ModId,          \* per project: the mod id inside its jar
    KnownBad,       \* the curated combinations: [mods, certainty]
    NoRange,        \* a dependency without a version range
    NoBound,        \* an open end of a range
    NoNumber        \* a version that is no number

Sides == {"client", "server", "both", "unknown"}
Environments == {"client", "server"}

-----------------------------------------------------------------------------

Exactly(n) == [form |-> "interval", lower |-> n, from |-> TRUE,
                                    upper |-> n, to |-> TRUE]
AtLeast(n) == [form |-> "interval", lower |-> n, from |-> TRUE,
                                    upper |-> NoBound, to |-> FALSE]
Below(n)   == [form |-> "interval", lower |-> NoBound, from |-> FALSE,
                                    upper |-> n, to |-> FALSE]
Unreadable == [form |-> "unreadable", lower |-> NoBound, from |-> FALSE,
                                      upper |-> NoBound, to |-> FALSE]

Versions == Nat \cup {NoNumber}
Ranges == [form : {"interval", "unreadable"}, lower : Versions \cup {NoBound},
           from : BOOLEAN, upper : Versions \cup {NoBound}, to : BOOLEAN]

\* compareVersions: a segment that does not start with a digit counts as 0.
Segment(version) == IF version = NoNumber THEN 0 ELSE version

\* trySatisfiesRange: only the form is looked at.  A range with no end at all is no range either.
Readable(range) ==
    range.form = "interval" /\ (range.lower # NoBound \/ range.upper # NoBound)

Satisfies(version, range) ==
    LET v == Segment(version) IN
    /\ \/ range.lower = NoBound
       \/ IF range.from THEN v >= Segment(range.lower) ELSE v > Segment(range.lower)
    /\ \/ range.upper = NoBound
       \/ IF range.to THEN v <= Segment(range.upper) ELSE v < Segment(range.upper)

-----------------------------------------------------------------------------

\* findTarget: by project, else by mod id, of which the last one stands for all.
Carrying(mods, id) ==
    {k \in DOMAIN mods : id # NoModId /\ ModId[mods[k].project] = id}
FindTarget(mods, dep) ==
    LET named == {k \in DOMAIN mods : mods[k].project = dep.on}
    IN  IF named # {} THEN named
        ELSE {k \in Carrying(mods, dep.id) : \A h \in Carrying(mods, dep.id) : h <= k}

\* One declaration of the set: entry i's j-th dependency is on entry k.
Declarations(mods, kinds) ==
    {d \in UNION {{i} \X (DOMAIN mods[i].deps) \X (DOMAIN mods) : i \in DOMAIN mods} :
        LET dep == mods[d[1]].deps[d[2]] IN
            dep.kind \in kinds /\ d[3] \in FindTarget(mods, dep)}

Range(mods, d)  == mods[d[1]].deps[d[2]].range
Between(mods, d) == {mods[d[1]].project, mods[d[3]].project}
Earlier(d, e) == d[1] < e[1] \/ (d[1] = e[1] /\ d[2] < e[2])

DuplicateModIds(mods) ==
    {[category |-> "duplicate-mod-id", certainty |-> "certain",
      mods |-> {p \in {mods[i].project : i \in DOMAIN mods} : ModId[p] = id},
      fix |-> "remove-mod"] :
        id \in {ModId[mods[i].project] : i \in
            {i \in DOMAIN mods :
                /\ ModId[mods[i].project] # NoModId
                /\ \E k \in DOMAIN mods :
                    k # i /\ ModId[mods[k].project] = ModId[mods[i].project]}}}

\* The first declaration of a pair decides for the pair, even when its range
\* leaves the installed version out.
DeclaredIncompatibilities(mods) ==
    LET all == Declarations(mods, {"incompatible", "breaks"})
        first == {d \in all : ~\E e \in all :
                    Between(mods, e) = Between(mods, d) /\ Earlier(e, d)}
        Bad(d) == \/ Range(mods, d) = NoRange
                  \/ ~Readable(Range(mods, d))
                  \/ Satisfies(mods[d[3]].number, Range(mods, d))
        Sure(d) == IF Range(mods, d) = NoRange THEN TRUE
                   ELSE Readable(Range(mods, d))
    IN {[category |-> "declared-incompatibility",
         certainty |-> IF Sure(d) THEN "certain" ELSE "suspected",
         mods |-> Between(mods, d), fix |-> "remove-mod"] :
            d \in {d \in first : Bad(d)}}

VersionMismatches(mods) ==
    {[category |-> "version-mismatch", certainty |-> "certain",
      mods |-> Between(mods, d), fix |-> "pin-version"] :
        d \in {d \in Declarations(mods, {"required"}) :
            /\ Range(mods, d) # NoRange
            /\ Readable(Range(mods, d))
            /\ ~Satisfies(mods[d[3]].number, Range(mods, d))}}

SideMismatches(mods, environment) ==
    {[category |-> "side-mismatch", certainty |-> "suspected",
      mods |-> {mods[i].project},
      fix |-> IF mods[i].side = "unknown" THEN "manual" ELSE "change-side"] :
        i \in {i \in DOMAIN mods : mods[i].side \notin {"both", environment}}}

KnownBadCombinations(mods) ==
    {[category |-> "declared-incompatibility", certainty |-> bad.certainty,
      mods |-> bad.mods, fix |-> "remove-mod"] :
        bad \in {b \in KnownBad :
            b.mods \subseteq {mods[i].project : i \in DOMAIN mods}}}

\* runPreflight: of two findings of one category about the same mods the one
\* found first stays, so what a mod declares stands before the curated list.
Conflicts(mods, environment) ==
    LET declared == DeclaredIncompatibilities(mods)
    IN DuplicateModIds(mods) \cup declared \cup VersionMismatches(mods)
        \cup SideMismatches(mods, environment)
        \cup {c \in KnownBadCombinations(mods) :
                ~\E e \in declared : e.mods = c.mods}

\* conflictKey: an unknown side must not hide a known mismatch.
Key(c) ==
    [category |-> c.category, mods |-> c.mods,
     kind |-> IF c.category = "side-mismatch" THEN c.fix ELSE "any"]

\* checkUpdateRegressions
Regressions(before, after, environment) ==
    LET known == {Key(c) : c \in Conflicts(before, environment)}
    IN {c \in Conflicts(after, environment) : Key(c) \notin known}

=============================================================================
