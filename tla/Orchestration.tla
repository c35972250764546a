--------------------------- MODULE Orchestration ---------------------------
(***************************************************************************)
(* resolveModpack (src/src/core/orchestration/resolve.ts): from the mods a *)
(* user names to a dependency-complete pinned set, or to issues that say   *)
(* why there is none.  Refs are resolved breadth first; a catalog lookup   *)
(* may fail at any ref.                                                    *)
(*                                                                         *)
(* A catalog gives each project the file that pickCompatibleFile picks of  *)
(* it for the brief's loader and Minecraft version, or NoFile.             *)
(***************************************************************************)
EXTENDS Integers, Sequences

CONSTANTS
    Projects,       \* projects of the catalog
    NoFile,         \* no compatible file with a hash
    NoId,           \* a dependency without a catalog project id
    Catalogs,       \* the catalogs a run may meet
    SeedLists       \* the refs a run may start from, recommended ones last

\* A project goes by its id, which dependencies use, or by its slug.
Id(p)   == [by |-> "id", project |-> p]
Refs    == [by : {"id", "slug"}, project : Projects]
File    == [required : Seq(Projects \cup {NoId}), incompatible : SUBSET Projects]

ASSUME ConstantsAssumption ==
    /\ NoId \notin Projects
    /\ NoFile \notin File
    /\ Catalogs \subseteq [Projects -> File \cup {NoFile}]
    /\ SeedLists \subseteq Seq(Refs)

VARIABLES
    catalog, seeds, \* what this run is given
    pc,
    queue,          \* refs to resolve, with the project that requires each
    seenRefs,
    resolved,       \* per project: not pinned, or pinned and for whom
    issues,
    cur, dep        \* the entry of which project's file the loop is at

vars == <<catalog, seeds, pc, queue, seenRefs, resolved, issues, cur, dep>>

\* Where an entry comes from: "requested", or the project that requires it.
Requested == [kind |-> "requested"]
RequiredBy(p) == [kind |-> "dependency", by |-> p]
Origins == {Requested} \cup {RequiredBy(p) : p \in Projects}
NotPinned == [kind |-> "none"]

ProviderError(ref)  == [code |-> "provider-error", ref |-> ref]
Unresolved(p)       == [code |-> "unresolved", project |-> p]
Unsatisfied(p)      == [code |-> "unsatisfied-dependency", project |-> p]
Incompatible(p, q)  == [code |-> "incompatible", pair |-> {p, q}]
Issue == {ProviderError(ref) : ref \in Refs}
            \cup {Unresolved(p) : p \in Projects}
            \cup {Unsatisfied(p) : p \in Projects}
            \cup {Incompatible(p, q) : p, q \in Projects}

Pinned(p) == resolved[p] # NotPinned
Item(ref, origin) == [ref |-> ref, origin |-> origin]

Init ==
    /\ catalog \in Catalogs
    /\ seeds \in SeedLists
    /\ pc = "start"
    /\ queue = <<>>
    /\ seenRefs = {}
    /\ resolved = [p \in Projects |-> NotPinned]
    /\ issues = {}
    /\ cur \in Projects
    /\ dep = 1

-----------------------------------------------------------------------------

\* The loader is pinned, the catalog searched for recommendations, and the
\* seeds are queued.  Either of the first two may reject the whole run.
Start ==
    /\ pc = "start"
    /\ \/ /\ pc' = "walk"
          /\ queue' = [i \in 1..Len(seeds) |-> Item(seeds[i], Requested)]
       \/ pc' = "rejected" /\ UNCHANGED queue
    /\ UNCHANGED <<catalog, seeds, seenRefs, resolved, issues, cur, dep>>

\* queue.shift(), and the ref was not seen before.
Takes(ref) ==
    /\ pc = "walk"
    /\ queue # <<>>
    /\ ref = Head(queue).ref
    /\ ref \notin seenRefs
    /\ queue' = Tail(queue)
    /\ seenRefs' = seenRefs \cup {ref}

SkipSeen ==
    /\ pc = "walk"
    /\ queue # <<>>
    /\ Head(queue).ref \in seenRefs
    /\ queue' = Tail(queue)
    /\ UNCHANGED <<catalog, seeds, pc, seenRefs, resolved, issues, cur, dep>>

LookupFailsRetried(ref) ==  \* mutant: a failed ref goes back into the queue
    /\ pc = "walk"
    /\ queue # <<>>
    /\ ref = Head(queue).ref
    /\ ref \notin seenRefs
    /\ queue' = Append(Tail(queue), Head(queue))
    /\ issues' = issues \cup {ProviderError(ref)}
    /\ UNCHANGED <<catalog, seeds, pc, seenRefs, resolved, cur, dep>>

LookupFails(ref) ==
    /\ Takes(ref)
    /\ issues' = issues \cup {ProviderError(ref)}
    /\ UNCHANGED <<catalog, seeds, pc, resolved, cur, dep>>

AlreadyPinned(ref) ==
    /\ Takes(ref)
    /\ Pinned(ref.project)
    /\ UNCHANGED <<catalog, seeds, pc, resolved, issues, cur, dep>>

NoCompatibleFile(ref) ==
    /\ Takes(ref)
    /\ ~Pinned(ref.project)
    /\ catalog[ref.project] = NoFile
    /\ issues' = issues \cup {Unresolved(ref.project)}
    /\ UNCHANGED <<catalog, seeds, pc, resolved, cur, dep>>

PinUnchecked(ref) ==    \* mutant: the first file, compatible or not
    /\ Takes(ref)
    /\ ~Pinned(ref.project)
    /\ resolved' = [resolved EXCEPT ![ref.project] = Head(queue).origin]
    /\ cur' = ref.project
    /\ dep' = 1
    /\ pc' = "dependencies"
    /\ UNCHANGED <<catalog, seeds, issues>>

Pin(ref) ==
    /\ Takes(ref)
    /\ ~Pinned(ref.project)
    /\ catalog[ref.project] # NoFile
    /\ resolved' = [resolved EXCEPT ![ref.project] = Head(queue).origin]
    /\ cur' = ref.project
    /\ dep' = 1
    /\ pc' = "dependencies"
    /\ UNCHANGED <<catalog, seeds, issues>>

\* One required dependency of the file just pinned.
Required == catalog[cur].required

DependencySilent ==      \* mutant: a dependency without an id is skipped
    /\ pc = "dependencies"
    /\ dep <= Len(Required)
    /\ dep' = dep + 1
    /\ LET d == Required[dep] IN
        \/ /\ d = NoId
           /\ UNCHANGED <<queue, issues>>
        \/ /\ d # NoId
           /\ queue' = IF Pinned(d) \/ Id(d) \in seenRefs THEN queue
                       ELSE Append(queue, Item(Id(d), RequiredBy(cur)))
           /\ UNCHANGED issues
    /\ UNCHANGED <<catalog, seeds, pc, seenRefs, resolved, cur>>

DependencyFirst ==       \* mutant: a dependency jumps the queue
    /\ pc = "dependencies"
    /\ dep <= Len(Required)
    /\ dep' = dep + 1
    /\ LET d == Required[dep] IN
        \/ /\ d = NoId
           /\ issues' = issues \cup {Unsatisfied(cur)}
           /\ UNCHANGED queue
        \/ /\ d # NoId
           /\ queue' = IF Pinned(d) \/ Id(d) \in seenRefs THEN queue
                       ELSE <<Item(Id(d), RequiredBy(cur))>> \o queue
           /\ UNCHANGED issues
    /\ UNCHANGED <<catalog, seeds, pc, seenRefs, resolved, cur>>

Dependency ==
    /\ pc = "dependencies"
    /\ dep <= Len(Required)
    /\ dep' = dep + 1
    /\ LET d == Required[dep] IN
        \/ /\ d = NoId
           /\ issues' = issues \cup {Unsatisfied(cur)}
           /\ UNCHANGED queue
        \/ /\ d # NoId
           /\ queue' = IF Pinned(d) \/ Id(d) \in seenRefs THEN queue
                       ELSE Append(queue, Item(Id(d), RequiredBy(cur)))
           /\ UNCHANGED issues
    /\ UNCHANGED <<catalog, seeds, pc, seenRefs, resolved, cur>>

DependenciesDone ==
    /\ pc = "dependencies"
    /\ dep > Len(Required)
    /\ pc' = "walk"
    /\ UNCHANGED <<catalog, seeds, queue, seenRefs, resolved, issues, cur, dep>>

FinishOneWay ==          \* mutant: only an exclusion declared both ways counts
    /\ pc = "walk"
    /\ queue = <<>>
    /\ issues' = issues \cup
        {i \in {Incompatible(p, q) : p, q \in Projects} :
            \E p, q \in Projects :
                /\ i = Incompatible(p, q)
                /\ Pinned(p) /\ Pinned(q)
                /\ q \in catalog[p].incompatible
                /\ p \in catalog[q].incompatible}
    /\ pc' = "done"
    /\ UNCHANGED <<catalog, seeds, queue, seenRefs, resolved, cur, dep>>

\* Incompatibilities one pinned file declares of another pinned project, one
\* issue per pair; then the result is returned.
Finish ==
    /\ pc = "walk"
    /\ queue = <<>>
    /\ issues' = issues \cup
        {i \in {Incompatible(p, q) : p, q \in Projects} :
            \E p, q \in Projects :
                /\ i = Incompatible(p, q)
                /\ Pinned(p) /\ Pinned(q)
                /\ q \in catalog[p].incompatible}
    /\ pc' = "done"
    /\ UNCHANGED <<catalog, seeds, queue, seenRefs, resolved, cur, dep>>

Over == pc \in {"done", "rejected"} /\ UNCHANGED vars

Step ==
    \/ Start
    \/ SkipSeen
    \/ \E ref \in Refs :
        LookupFails(ref) \/ AlreadyPinned(ref) \/ NoCompatibleFile(ref) \/ Pin(ref)
    \/ Dependency \/ DependenciesDone
    \/ Finish

Next == Step \/ Over

Spec == Init /\ [][Next]_vars

\* The provider answers or fails: no await hangs.
FairSpec == Spec /\ WF_vars(Step)

-----------------------------------------------------------------------------
(* Properties.                                                             *)

TypeOK ==
    /\ catalog \in Catalogs
    /\ seeds \in SeedLists
    /\ pc \in {"start", "walk", "dependencies", "done", "rejected"}
    /\ queue \in Seq([ref : Refs, origin : Origins])
    /\ seenRefs \subseteq Refs
    /\ resolved \in [Projects -> Origins \cup {NotPinned}]
    /\ issues \subseteq Issue
    /\ cur \in Projects
    /\ dep \in Nat \ {0}
    /\ \A p \in Projects : Pinned(p) => catalog[p] # NoFile
    /\ pc = "dependencies" => Pinned(cur)

\* The inductive strengthening: what is seen is pinned or reported, and what
\* the seeds and the pinned files require is seen, queued, or yet to be looked
\* at in the file the loop is at.
Queued(ref) == \E i \in 1..Len(queue) : queue[i].ref = ref
Reported(ref) == ProviderError(ref) \in issues \/ Unresolved(ref.project) \in issues
Settled(ref) == Pinned(ref.project) \/ Reported(ref)
Covered(p, j) ==
    LET d == catalog[p].required[j]
    IN  IF d = NoId THEN Unsatisfied(p) \in issues
        ELSE Pinned(d) \/ Id(d) \in seenRefs \/ Queued(Id(d))
NothingYet == pc = "start" => \A p \in Projects : ~Pinned(p)
SeenSettled == \A ref \in seenRefs : Settled(ref)
SeedsKept ==
    pc \notin {"start", "rejected"} =>
        \A i \in 1..Len(seeds) : seeds[i] \in seenRefs \/ Queued(seeds[i])
DependenciesKept ==
    \A p \in Projects : Pinned(p) =>
        \A j \in 1..Len(catalog[p].required) :
            Covered(p, j) \/ (pc = "dependencies" /\ p = cur /\ j >= dep)
ResultChecked ==
    pc = "done" =>
        /\ queue = <<>>
        /\ \A p, q \in Projects :
            Pinned(p) /\ Pinned(q) /\ q \in catalog[p].incompatible
                => Incompatible(p, q) \in issues
WalkInv ==
    NothingYet /\ SeenSettled /\ SeedsKept /\ DependenciesKept /\ ResultChecked

\* A set that comes back without an issue is complete: everything asked for is
\* pinned, everything a pinned file requires is pinned, and no pinned file
\* excludes another.
CleanSet == pc = "done" /\ issues = {}
CleanSetComplete ==
    CleanSet =>
        /\ \A i \in 1..Len(seeds) : Pinned(seeds[i].project)
        /\ \A p \in Projects : Pinned(p) =>
            /\ \A j \in 1..Len(catalog[p].required) :
                /\ catalog[p].required[j] # NoId
                /\ Pinned(catalog[p].required[j])
            /\ \A q \in catalog[p].incompatible : ~Pinned(q)

\* A required dependency that is missing from the set is reported, whatever
\* lookups failed and in whatever order the refs came.
GapsReported ==
    pc = "done" =>
        \A p \in Projects : Pinned(p) =>
            \A j \in 1..Len(catalog[p].required) :
                LET d == catalog[p].required[j]
                IN  IF d = NoId THEN Unsatisfied(p) \in issues
                    ELSE Pinned(d) \/ Reported(Id(d))

\* Nothing is pinned that the seeds do not need, and every entry says for whom
\* it was pinned: a seed that could be looked up is "requested" even where
\* another mod requires it, and any other entry names a pinned project that
\* requires it.
Needed(p) ==
    \A needs \in SUBSET Projects :
        (/\ \A i \in 1..Len(seeds) : seeds[i].project \in needs
         /\ \A q \in needs : catalog[q] # NoFile =>
                \A j \in 1..Len(catalog[q].required) :
                    catalog[q].required[j] \in needs \cup {NoId})
            => p \in needs
OriginsRight ==
    \A p \in Projects : Pinned(p) =>
        /\ Needed(p)
        /\ resolved[p] # Requested =>
            /\ \A i \in 1..Len(seeds) : seeds[i].project = p =>
                ProviderError(seeds[i]) \in issues
            /\ LET q == resolved[p].by IN
                /\ Pinned(q)
                /\ \E j \in 1..Len(catalog[q].required) : catalog[q].required[j] = p

\* Resolution ends, also where projects require each other in a circle.
ResolutionEnds == pc = "start" ~> pc \in {"done", "rejected"}

\* Why it ends: the phase advances, or refs that were never seen become fewer, or
\* with those the same the dependencies left of the file the loop is at, or
\* with both the same the queue.  A step that appends pays with one of the
\* first two, so circles, retold dependencies and failing lookups do not feed
\* the loop (seenRefs and the guard before enqueue).
Phase == CASE pc = "start" -> 0 [] pc \in {"walk", "dependencies"} -> 1 [] OTHER -> 2
DependenciesLeft == IF pc = "dependencies" THEN Len(Required) + 2 - dep ELSE 0
ResolutionShrinks ==
    [][ \/ Phase' > Phase
        \/ /\ Phase' = Phase
           /\ seenRefs \subseteq seenRefs'
           /\ \/ seenRefs' # seenRefs
              \/ DependenciesLeft' \in 0..(DependenciesLeft - 1)
              \/ /\ DependenciesLeft' = DependenciesLeft
                 /\ Len(queue') < Len(queue) ]_vars

=============================================================================
