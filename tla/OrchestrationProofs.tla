------------------------ MODULE OrchestrationProofs ------------------------
(***************************************************************************)
(* For every catalog and every list of seeds: a set that comes back without*)
(* an issue is dependency complete, a gap is always reported, and every    *)
(* entry says truly why it is there.                                       *)
(*                                                                         *)
(* WalkInv carries the argument.  What the seeds and the pinned files ask  *)
(* for is never forgotten: it is still queued, or it was seen, and what was*)
(* seen is pinned or reported.  When the queue is empty, nothing is left.  *)
(***************************************************************************)
EXTENDS Orchestration, TLAPS

Items == [ref : Refs, origin : Origins]

\* Taking the head of a queue forgets no other entry.
LEMMA TailKeeps ==
    ASSUME NEW S, NEW q \in Seq(S), q # <<>>,
           NEW i \in 1..Len(q), i # 1
    PROVE  i - 1 \in 1..Len(Tail(q)) /\ Tail(q)[i - 1] = q[i]
  OBVIOUS

\* Appending to a queue forgets no entry, and holds the new one.
LEMMA AppendKeeps ==
    ASSUME NEW S, NEW q \in Seq(S), NEW e \in S
    PROVE  /\ \A i \in 1..Len(q) : i \in 1..Len(Append(q, e)) /\ Append(q, e)[i] = q[i]
           /\ Len(q) + 1 \in 1..Len(Append(q, e))
           /\ Append(q, e)[Len(q) + 1] = e
  OBVIOUS

LEMMA ItemType ==
    ASSUME NEW ref \in Refs, NEW origin \in Origins
    PROVE  Item(ref, origin) \in Items
  BY DEF Item, Items

LEMMA IssueType ==
    /\ \A ref \in Refs : ProviderError(ref) \in Issue
    /\ \A p \in Projects : Unresolved(p) \in Issue /\ Unsatisfied(p) \in Issue
    /\ \A p, q \in Projects : Incompatible(p, q) \in Issue
  BY DEF Issue

LEMMA RefProject ==
    /\ \A ref \in Refs : ref.project \in Projects
    /\ \A p \in Projects : Id(p) \in Refs /\ Id(p).project = p
  BY DEF Refs, Id

LEMMA OriginPins == \A o \in Origins : o # NotPinned
  <1>1. \A o \in Origins : o.kind \in {"requested", "dependency"}
    BY DEF Origins, Requested, RequiredBy
  <1>2. NotPinned.kind = "none"
    BY DEF NotPinned
  <1> QED
    BY <1>1, <1>2

\* What the loop reads of the file it is at.
LEMMA RequiredType ==
    ASSUME TypeOK, NEW p \in Projects, catalog[p] # NoFile
    PROVE  /\ catalog[p].required \in Seq(Projects \cup {NoId})
           /\ catalog[p].incompatible \subseteq Projects
           /\ \A j \in 1..Len(catalog[p].required) :
                catalog[p].required[j] \in Projects \cup {NoId}
  <1>1. catalog[p] \in File
    BY ConstantsAssumption DEF TypeOK
  <1>2. catalog[p].required \in Seq(Projects \cup {NoId})
    BY <1>1 DEF File
  <1>3. catalog[p].incompatible \subseteq Projects
    BY <1>1 DEF File
  <1> QED
    BY <1>2, <1>3

LEMMA HeadType ==
    ASSUME TypeOK, queue # <<>>
    PROVE  /\ Head(queue) \in Items
           /\ Head(queue).ref \in Refs
           /\ Head(queue).origin \in Origins
           /\ Tail(queue) \in Seq(Items)
           /\ 1 \in 1..Len(queue) /\ queue[1] = Head(queue)
  <1>1. queue \in Seq(Items)
    BY DEF TypeOK, Items
  <1>2. Head(queue) \in Items /\ Tail(queue) \in Seq(Items)
    BY <1>1
  <1>3. 1 \in 1..Len(queue) /\ queue[1] = Head(queue)
    BY <1>1
  <1> QED
    BY <1>2, <1>3 DEF Items

-----------------------------------------------------------------------------
(* Types.                                                                  *)

LEMMA TypeInit == Init => TypeOK
  BY DEF Init, TypeOK, Pinned

LEMMA StartType == TypeOK /\ Start => TypeOK'
  <1> SUFFICES ASSUME TypeOK, Start PROVE TypeOK'
    OBVIOUS
  <1>1. seeds \in Seq(Refs)
    BY ConstantsAssumption DEF TypeOK
  <1>2. \A i \in 1..Len(seeds) : Item(seeds[i], Requested) \in Items
    BY <1>1, ItemType DEF Origins
  <1>3. [i \in 1..Len(seeds) |-> Item(seeds[i], Requested)] \in Seq(Items)
    BY <1>1, <1>2
  <1>4. queue' \in Seq([ref : Refs, origin : Origins])
    BY <1>3 DEF Start, TypeOK, Items
  <1> QED
    BY <1>4 DEF Start, TypeOK, Pinned

LEMMA WalkType ==
    ASSUME TypeOK, NEW ref \in Refs,
           LookupFails(ref) \/ AlreadyPinned(ref) \/ NoCompatibleFile(ref) \/ Pin(ref)
    PROVE  TypeOK'
  <1>1. queue # <<>> /\ queue' = Tail(queue) /\ seenRefs' = seenRefs \cup {ref}
    BY DEF LookupFails, AlreadyPinned, NoCompatibleFile, Pin, Takes
  <1>2. queue' \in Seq([ref : Refs, origin : Origins])
    BY <1>1, HeadType DEF Items
  <1>3. ref.project \in Projects
    BY RefProject
  <1>4. CASE LookupFails(ref)
    BY <1>1, <1>2, <1>4, IssueType DEF LookupFails, TypeOK, Pinned, Takes
  <1>5. CASE AlreadyPinned(ref)
    BY <1>1, <1>2, <1>5 DEF AlreadyPinned, TypeOK, Pinned, Takes
  <1>6. CASE NoCompatibleFile(ref)
    BY <1>1, <1>2, <1>3, <1>6, IssueType DEF NoCompatibleFile, TypeOK, Pinned, Takes
  <1>7. CASE Pin(ref)
    <2>1. Head(queue).origin \in Origins
      BY <1>1, HeadType
    <2>2. resolved' \in [Projects -> Origins \cup {NotPinned}]
      BY <1>7, <2>1 DEF Pin, TypeOK
    <2>3. \A p \in Projects : Pinned(p)' => catalog'[p] # NoFile
      BY <1>7, <1>3 DEF Pin, TypeOK, Pinned
    <2>4. Pinned(cur)'
      <3>1. Head(queue).origin # NotPinned
        BY <2>1, OriginPins
      <3> QED
        BY <1>7, <1>3, <3>1 DEF Pin, TypeOK, Pinned
    <2> QED
      BY <1>1, <1>2, <1>3, <1>7, <2>2, <2>3, <2>4 DEF Pin, TypeOK
  <1> QED
    BY <1>4, <1>5, <1>6, <1>7

LEMMA DependencyType == TypeOK /\ Dependency => TypeOK'
  <1> SUFFICES ASSUME TypeOK, Dependency PROVE TypeOK'
    OBVIOUS
  <1> DEFINE d == Required[dep]
  <1>1. catalog[cur] # NoFile /\ cur \in Projects
    BY DEF Dependency, TypeOK
  <1>2. dep \in 1..Len(Required) /\ d \in Projects \cup {NoId}
    BY <1>1, RequiredType DEF Dependency, TypeOK, Required
  <1>3. CASE d = NoId
    <2>1. issues' \subseteq Issue /\ queue' = queue
      BY <1>1, <1>2, <1>3, IssueType DEF Dependency, TypeOK
    <2> QED
      BY <2>1 DEF Dependency, TypeOK, Pinned
  <1>4. CASE d # NoId
    <2>1. Item(Id(d), RequiredBy(cur)) \in Items
      BY <1>1, <1>2, <1>4, RefProject, ItemType DEF Origins
    <2>2. Append(queue, Item(Id(d), RequiredBy(cur))) \in Seq(Items) /\ queue \in Seq(Items)
      BY <2>1 DEF TypeOK, Items
    <2>3. queue' \in Seq([ref : Refs, origin : Origins])
      BY <2>2, <1>4 DEF Dependency, Items
    <2>4. issues' = issues
      BY <1>4 DEF Dependency
    <2> QED
      BY <2>3, <2>4 DEF Dependency, TypeOK, Pinned
  <1> QED
    BY <1>3, <1>4

LEMMA FinishType == TypeOK /\ Finish => TypeOK'
  <1> SUFFICES ASSUME TypeOK, Finish PROVE TypeOK'
    OBVIOUS
  <1>1. issues' \subseteq Issue
    BY IssueType DEF Finish, TypeOK
  <1> QED
    BY <1>1 DEF Finish, TypeOK, Pinned

LEMMA TypeStep == TypeOK /\ [Next]_vars => TypeOK'
  <1> SUFFICES ASSUME TypeOK, [Next]_vars PROVE TypeOK'
    OBVIOUS
  <1>1. CASE Start
    BY <1>1, StartType
  <1>2. CASE SkipSeen
    <2>1. queue' \in Seq([ref : Refs, origin : Origins])
      BY <1>2, HeadType DEF SkipSeen, Items
    <2> QED
      BY <1>2, <2>1 DEF SkipSeen, TypeOK, Pinned
  <1>3. CASE \E ref \in Refs :
            LookupFails(ref) \/ AlreadyPinned(ref) \/ NoCompatibleFile(ref) \/ Pin(ref)
    BY <1>3, WalkType
  <1>4. CASE Dependency
    BY <1>4, DependencyType
  <1>5. CASE DependenciesDone
    BY <1>5 DEF DependenciesDone, TypeOK, Pinned
  <1>6. CASE Finish
    BY <1>6, FinishType
  <1>7. CASE UNCHANGED vars
    BY <1>7 DEF vars, TypeOK, Pinned
  <1> QED
    BY <1>1, <1>2, <1>3, <1>4, <1>5, <1>6, <1>7 DEF Next, Step, Over

\* Every state has its type; only projects with a compatible file are pinned
\* (pickCompatibleFile before resolved.set).
THEOREM TypeCorrect == Spec => []TypeOK
  BY TypeInit, TypeStep, PTL DEF Spec

-----------------------------------------------------------------------------
(* Nothing asked for is forgotten.                                         *)

Inv == TypeOK /\ WalkInv

\* What a step must not undo for WalkInv to survive it: entries leave the
\* queue only to be seen, and nothing seen, pinned or reported is lost.
Grows ==
    /\ seenRefs \subseteq seenRefs' /\ issues \subseteq issues'
    /\ \A p \in Projects : Pinned(p) => Pinned(p)'
    /\ \A ref \in Refs : Queued(ref) => Queued(ref)' \/ ref \in seenRefs'
    /\ catalog' = catalog /\ seeds' = seeds

LEMMA GrowsSettled ==
    ASSUME Grows, NEW ref \in Refs, Settled(ref)
    PROVE  Settled(ref)'
  BY RefProject DEF Grows, Settled, Reported

LEMMA GrowsCovered ==
    ASSUME TypeOK, Grows, NEW p \in Projects, catalog[p] # NoFile,
           NEW j \in 1..Len(catalog[p].required), Covered(p, j)
    PROVE  Covered(p, j)'
  <1> DEFINE d == catalog[p].required[j]
  <1>1. d \in Projects \cup {NoId}
    BY RequiredType
  <1>2. d' = d
    BY DEF Grows
  <1>3. CASE d = NoId
    BY <1>2, <1>3 DEF Covered, Grows, Unsatisfied
  <1>4. CASE d # NoId
    <2>1. Id(d) \in Refs /\ d \in Projects
      BY <1>1, <1>4, RefProject
    <2>2. Pinned(d)' \/ Id(d) \in seenRefs' \/ Queued(Id(d))'
      BY <1>4, <2>1 DEF Covered, Grows
    <2> QED
      BY <1>2, <1>4, <2>2 DEF Covered
  <1> QED
    BY <1>3, <1>4

LEMMA TakeGrows ==
    ASSUME TypeOK, queue # <<>>, queue' = Tail(queue), Head(queue).ref \in seenRefs'
    PROVE  \A ref \in Refs : Queued(ref) => Queued(ref)' \/ ref \in seenRefs'
  <1> SUFFICES ASSUME NEW ref \in Refs, Queued(ref), ref \notin seenRefs'
               PROVE  Queued(ref)'
    OBVIOUS
  <1>1. PICK i \in 1..Len(queue) : queue[i].ref = ref
    BY DEF Queued
  <1>2. queue \in Seq(Items)
    BY DEF TypeOK, Items
  <1>3. i # 1
    BY <1>1, HeadType
  <1>4. i - 1 \in 1..Len(Tail(queue)) /\ Tail(queue)[i - 1] = queue[i]
    BY <1>2, <1>3, TailKeeps
  <1> QED
    BY <1>1, <1>4 DEF Queued

LEMMA GrowsSeeds ==
    ASSUME TypeOK, Grows, SeedsKept, pc \notin {"start", "rejected"}
    PROVE  SeedsKept'
  <1> SUFFICES ASSUME NEW i \in 1..Len(seeds)
               PROVE  seeds'[i] \in seenRefs' \/ Queued(seeds[i])'
    BY DEF Grows, SeedsKept
  <1>1. seeds[i] \in Refs
    BY ConstantsAssumption DEF TypeOK
  <1>2. seeds[i] \in seenRefs \/ Queued(seeds[i])
    BY DEF SeedsKept
  <1>3. \A ref \in Refs : Queued(ref) => Queued(ref)' \/ ref \in seenRefs'
    BY DEF Grows
  <1>4. seeds[i] \in seenRefs' \/ \E k \in 1..Len(queue') : queue'[k].ref = seeds[i]
    BY <1>1, <1>2, <1>3 DEF Grows, Queued
  <1> QED
    BY <1>4 DEF Grows, Queued

LEMMA QueueGrows ==
    ASSUME TypeOK, NEW p \in Projects, NEW d \in Projects,
           queue' = Append(queue, Item(Id(d), RequiredBy(p)))
    PROVE  /\ \A i \in 1..Len(queue) : i \in 1..Len(queue') /\ queue'[i] = queue[i]
           /\ \E i \in 1..Len(queue') : queue'[i].ref = Id(d)
  <1> DEFINE e == Item(Id(d), RequiredBy(p))
  <1>1. e \in Items /\ queue \in Seq(Items)
    BY RefProject, ItemType DEF TypeOK, Items, Origins
  <1>2. e.ref = Id(d)
    BY DEF Item
  <1> HIDE DEF e
  <1>3. queue' = Append(queue, e)
    BY DEF e
  <1> QED
    BY <1>1, <1>2, <1>3, AppendKeeps

\* A step of the walk takes the head and settles it; the rest of WalkInv
\* follows from Grows.
LEMMA WalkKeeps ==
    ASSUME Inv, NEW ref \in Refs,
           LookupFails(ref) \/ AlreadyPinned(ref) \/ NoCompatibleFile(ref) \/ Pin(ref)
    PROVE  WalkInv'
  <1>1. /\ pc = "walk" /\ queue # <<>> /\ queue' = Tail(queue)
        /\ ref = Head(queue).ref /\ seenRefs' = seenRefs \cup {ref}
        /\ catalog' = catalog /\ seeds' = seeds
        /\ pc' \in {"walk", "dependencies"}
    BY DEF LookupFails, AlreadyPinned, NoCompatibleFile, Pin, Takes
  <1>2. TypeOK /\ TypeOK' /\ ref.project \in Projects
    BY WalkType, RefProject DEF Inv
  <1>3. Head(queue).origin # NotPinned
    BY <1>1, <1>2, HeadType, OriginPins
  <1>4. \A p \in Projects : Pinned(p) => Pinned(p)'
    <2>1. CASE Pin(ref)
      BY <1>2, <1>3, <2>1 DEF Pin, Pinned, TypeOK
    <2>2. CASE ~Pin(ref)
      BY <2>2 DEF LookupFails, AlreadyPinned, NoCompatibleFile, Pinned
    <2> QED
      BY <2>1, <2>2
  <1>5. Grows
    <2>1. issues \subseteq issues'
      BY DEF LookupFails, AlreadyPinned, NoCompatibleFile, Pin
    <2>2. \A r \in Refs : Queued(r) => Queued(r)' \/ r \in seenRefs'
      BY <1>1, <1>2, TakeGrows
    <2> QED
      BY <1>1, <1>4, <2>1, <2>2 DEF Grows
  <1>6. Settled(ref)'
    <2>1. CASE LookupFails(ref)
      BY <2>1 DEF LookupFails, Settled, Reported, ProviderError
    <2>2. CASE AlreadyPinned(ref)
      BY <1>2, <1>4, <2>2 DEF AlreadyPinned, Settled
    <2>3. CASE NoCompatibleFile(ref)
      BY <2>3 DEF NoCompatibleFile, Settled, Reported, Unresolved
    <2>4. CASE Pin(ref)
      BY <1>2, <1>3, <2>4 DEF Pin, Settled, Pinned, TypeOK
    <2> QED
      BY <2>1, <2>2, <2>3, <2>4
  <1>7. SeenSettled'
    <2>1. \A r \in seenRefs : Settled(r)'
      BY <1>2, <1>5, GrowsSettled DEF Inv, WalkInv, SeenSettled, TypeOK
    <2> QED
      BY <1>1, <1>6, <2>1 DEF SeenSettled
  <1>8. SeedsKept'
    BY <1>1, <1>2, <1>5, GrowsSeeds DEF Inv, WalkInv
  <1>9. DependenciesKept'
    <2> SUFFICES ASSUME NEW p \in Projects, Pinned(p)',
                        NEW j \in 1..Len(catalog[p].required)
                 PROVE  Covered(p, j)' \/ (pc' = "dependencies" /\ p = cur' /\ j >= dep')
      BY <1>1 DEF DependenciesKept
    <2>1. CASE Pinned(p)
      <3>1. Covered(p, j) /\ catalog[p] # NoFile
        BY <1>1, <1>2, <2>1 DEF Inv, WalkInv, DependenciesKept, TypeOK
      <3> QED
        BY <1>2, <1>5, <3>1, GrowsCovered
    <2>2. CASE ~Pinned(p)
      <3>1. Pin(ref) /\ p = ref.project
        BY <2>2, <1>2 DEF LookupFails, AlreadyPinned, NoCompatibleFile, Pin, Pinned, TypeOK
      <3>2. catalog[p].required \in Seq(Projects \cup {NoId})
        BY <1>2, <3>1, RequiredType DEF Pin
      <3>3. j >= 1
        BY <3>2
      <3> QED
        BY <3>1, <3>3 DEF Pin
    <2> QED
      BY <2>1, <2>2
  <1> QED
    BY <1>1, <1>7, <1>8, <1>9 DEF WalkInv, NothingYet, ResultChecked

LEMMA DependencyKeeps == Inv /\ Dependency => WalkInv'
  <1> SUFFICES ASSUME Inv, Dependency PROVE WalkInv'
    OBVIOUS
  <1> DEFINE d == Required[dep]
  <1>1. TypeOK /\ TypeOK' /\ catalog[cur] # NoFile /\ cur \in Projects /\ Pinned(cur)
    BY DependencyType DEF Inv, Dependency, TypeOK
  <1>2. dep \in 1..Len(catalog[cur].required) /\ d \in Projects \cup {NoId}
    BY <1>1, RequiredType DEF Dependency, TypeOK, Required
  <1>3. \A ref \in Refs : Queued(ref) => Queued(ref)'
    <2> SUFFICES ASSUME NEW ref \in Refs, Queued(ref) PROVE Queued(ref)'
      OBVIOUS
    <2>1. CASE queue' = queue
      BY <2>1 DEF Queued
    <2>2. CASE d # NoId /\ queue' = Append(queue, Item(Id(d), RequiredBy(cur)))
      BY <1>1, <1>2, <2>2, QueueGrows DEF Queued
    <2> QED
      BY <2>1, <2>2 DEF Dependency
  <1>4. Grows
    BY <1>3 DEF Dependency, Grows, Pinned
  <1>5. \A p \in Projects, j \in Nat : p = cur /\ j = dep => Covered(p, j)'
    <2> SUFFICES ASSUME NEW p \in Projects, NEW j \in Nat, p = cur, j = dep
                 PROVE  Covered(p, j)'
      OBVIOUS
    <2> DEFINE e == catalog[p].required[j]
    <2>0. e' = e /\ e = d
      BY DEF Dependency, Required
    <2>1. CASE e = NoId
      <3>1. issues' = issues \cup {Unsatisfied(p)}
        BY <2>0, <2>1 DEF Dependency
      <3> QED
        BY <2>0, <2>1, <3>1 DEF Covered, Unsatisfied
    <2>2. CASE e # NoId /\ (Pinned(e) \/ Id(e) \in seenRefs)
      BY <2>0, <2>2 DEF Dependency, Covered, Pinned
    <2>3. CASE e # NoId /\ ~(Pinned(e) \/ Id(e) \in seenRefs)
      <3>1. queue' = Append(queue, Item(Id(e), RequiredBy(cur)))
        BY <2>0, <2>3 DEF Dependency
      <3>2. \E i \in 1..Len(queue') : queue'[i].ref = Id(e)
        BY <1>1, <1>2, <2>0, <2>3, <3>1, QueueGrows
      <3> QED
        BY <2>0, <2>3, <3>2 DEF Covered, Queued, Id
    <2> QED
      BY <2>1, <2>2, <2>3
  <1>6. SeenSettled'
    BY <1>1, <1>4, GrowsSettled DEF Inv, WalkInv, SeenSettled, TypeOK, Dependency
  <1>7. SeedsKept'
    BY <1>1, <1>4, GrowsSeeds DEF Inv, WalkInv, Dependency
  <1>8. DependenciesKept'
    <2> SUFFICES ASSUME NEW p \in Projects, Pinned(p)',
                        NEW j \in 1..Len(catalog[p].required)
                 PROVE  Covered(p, j)' \/ (p = cur /\ j >= dep + 1)
      BY DEF DependenciesKept, Dependency
    <2>1. Pinned(p) /\ catalog[p] # NoFile
      BY <1>1 DEF Dependency, Pinned, TypeOK
    <2>2. CASE Covered(p, j)
      BY <1>1, <1>4, <2>1, <2>2, GrowsCovered
    <2>3. CASE ~Covered(p, j)
      <3>1. p = cur /\ j >= dep
        BY <2>1, <2>3 DEF Inv, WalkInv, DependenciesKept
      <3>2. j = dep \/ j >= dep + 1
        BY <1>1, <3>1, <2>1, RequiredType DEF TypeOK
      <3>3. j \in Nat
        BY <2>1, <1>1, RequiredType
      <3>4. CASE j = dep
        BY <1>5, <3>1, <3>3, <3>4
      <3> QED
        BY <3>1, <3>2, <3>4
    <2> QED
      BY <2>2, <2>3
  <1> QED
    BY <1>6, <1>7, <1>8 DEF WalkInv, NothingYet, ResultChecked, Dependency

LEMMA StartKeeps == Inv /\ Start => WalkInv'
  <1> SUFFICES ASSUME Inv, Start PROVE WalkInv'
    OBVIOUS
  <1>1. \A p \in Projects : ~Pinned(p) /\ ~Pinned(p)'
    BY DEF Inv, WalkInv, NothingYet, Start, Pinned
  <1>2. SeenSettled'
    BY DEF Inv, WalkInv, SeenSettled, Start, Settled, Reported, Pinned
  <1>3. SeedsKept'
    <2> SUFFICES ASSUME pc' = "walk", NEW i \in 1..Len(seeds)
                 PROVE  Queued(seeds[i])'
      BY DEF SeedsKept, Start
    <2>1. seeds \in Seq(Refs)
      BY ConstantsAssumption DEF Inv, TypeOK
    <2>2. queue' = [k \in 1..Len(seeds) |-> Item(seeds[k], Requested)]
      BY DEF Start
    <2>3. i \in 1..Len(queue') /\ queue'[i].ref = seeds[i]
      BY <2>1, <2>2 DEF Item
    <2> QED
      BY <2>3 DEF Queued, Start
  <1> QED
    BY <1>1, <1>2, <1>3 DEF WalkInv, NothingYet, DependenciesKept, ResultChecked, Start

LEMMA SkipKeeps == Inv /\ SkipSeen => WalkInv'
  <1> SUFFICES ASSUME Inv, SkipSeen PROVE WalkInv'
    OBVIOUS
  <1>1. TypeOK
    BY DEF Inv
  <1>2. Grows
    BY <1>1, TakeGrows DEF SkipSeen, Grows, Pinned
  <1>3. SeenSettled'
    BY <1>1, <1>2, GrowsSettled DEF Inv, WalkInv, SeenSettled, TypeOK, SkipSeen
  <1>4. SeedsKept'
    BY <1>1, <1>2, GrowsSeeds DEF Inv, WalkInv, SkipSeen
  <1>5. DependenciesKept'
    <2> SUFFICES ASSUME NEW p \in Projects, Pinned(p)',
                        NEW j \in 1..Len(catalog[p].required)
                 PROVE  Covered(p, j)'
      BY DEF DependenciesKept, SkipSeen
    <2>1. Pinned(p) /\ catalog[p] # NoFile
      BY <1>1 DEF SkipSeen, Pinned, TypeOK
    <2>2. Covered(p, j)
      BY <2>1 DEF Inv, WalkInv, DependenciesKept, SkipSeen
    <2> QED
      BY <1>1, <1>2, <2>1, <2>2, GrowsCovered
  <1> QED
    BY <1>3, <1>4, <1>5 DEF WalkInv, NothingYet, ResultChecked, SkipSeen

LEMMA DependenciesDoneKeeps == Inv /\ DependenciesDone => WalkInv'
  <1> SUFFICES ASSUME Inv, DependenciesDone PROVE WalkInv'
    OBVIOUS
  <1>1. TypeOK /\ catalog[cur] # NoFile /\ cur \in Projects
    BY DEF Inv, DependenciesDone, TypeOK
  <1>2. Grows
    BY DEF DependenciesDone, Grows, Pinned, Queued
  <1>3. SeenSettled'
    BY <1>1, <1>2, GrowsSettled DEF Inv, WalkInv, SeenSettled, TypeOK, DependenciesDone
  <1>4. SeedsKept'
    BY <1>1, <1>2, GrowsSeeds DEF Inv, WalkInv, DependenciesDone
  <1>5. DependenciesKept'
    <2> SUFFICES ASSUME NEW p \in Projects, Pinned(p)',
                        NEW j \in 1..Len(catalog[p].required)
                 PROVE  Covered(p, j)'
      BY DEF DependenciesKept, DependenciesDone
    <2>1. Pinned(p) /\ catalog[p] # NoFile
      BY <1>1 DEF DependenciesDone, Pinned, TypeOK
    <2>2. Len(catalog[cur].required) \in Nat
      BY <1>1, RequiredType
    <2>3. ~(p = cur /\ j >= dep)
      BY <1>1, <2>2 DEF DependenciesDone, Required, TypeOK
    <2>4. Covered(p, j)
      BY <2>1, <2>3 DEF Inv, WalkInv, DependenciesKept
    <2> QED
      BY <1>1, <1>2, <2>1, <2>4, GrowsCovered
  <1> QED
    BY <1>3, <1>4, <1>5 DEF WalkInv, NothingYet, ResultChecked, DependenciesDone

LEMMA FinishKeeps == Inv /\ Finish => WalkInv'
  <1> SUFFICES ASSUME Inv, Finish PROVE WalkInv'
    OBVIOUS
  <1>1. TypeOK
    BY DEF Inv
  <1>2. Grows
    BY DEF Finish, Grows, Pinned, Queued
  <1>3. SeenSettled'
    BY <1>1, <1>2, GrowsSettled DEF Inv, WalkInv, SeenSettled, TypeOK, Finish
  <1>4. SeedsKept'
    BY <1>1, <1>2, GrowsSeeds DEF Inv, WalkInv, Finish
  <1>5. DependenciesKept'
    <2> SUFFICES ASSUME NEW p \in Projects, Pinned(p)',
                        NEW j \in 1..Len(catalog[p].required)
                 PROVE  Covered(p, j)'
      BY DEF DependenciesKept, Finish
    <2>1. Pinned(p) /\ catalog[p] # NoFile
      BY <1>1 DEF Finish, Pinned, TypeOK
    <2>2. Covered(p, j)
      BY <2>1 DEF Inv, WalkInv, DependenciesKept, Finish
    <2> QED
      BY <1>1, <1>2, <2>1, <2>2, GrowsCovered
  <1>6. ResultChecked'
    <2>1. \A p, q \in Projects :
            Pinned(p) /\ Pinned(q) /\ q \in catalog[p].incompatible
                => Incompatible(p, q) \in issues'
      <3> SUFFICES ASSUME NEW p \in Projects, NEW q \in Projects,
                          Pinned(p), Pinned(q), q \in catalog[p].incompatible
                   PROVE  Incompatible(p, q) \in issues'
        OBVIOUS
      <3>1. Incompatible(p, q) \in {Incompatible(x, y) : x, y \in Projects}
        OBVIOUS
      <3> QED
        BY <3>1 DEF Finish
    <2> QED
      BY <2>1 DEF Finish, ResultChecked, Pinned, Incompatible
  <1> QED
    BY <1>3, <1>4, <1>5, <1>6 DEF WalkInv, NothingYet, Finish

LEMMA WalkStep == Inv /\ [Next]_vars => WalkInv'
  <1> SUFFICES ASSUME Inv, [Next]_vars PROVE WalkInv'
    OBVIOUS
  <1>1. CASE Start
    BY <1>1, StartKeeps
  <1>2. CASE SkipSeen
    BY <1>2, SkipKeeps
  <1>3. CASE \E ref \in Refs :
            LookupFails(ref) \/ AlreadyPinned(ref) \/ NoCompatibleFile(ref) \/ Pin(ref)
    BY <1>3, WalkKeeps
  <1>4. CASE Dependency
    BY <1>4, DependencyKeeps
  <1>5. CASE DependenciesDone
    BY <1>5, DependenciesDoneKeeps
  <1>6. CASE Finish
    BY <1>6, FinishKeeps
  <1>7. CASE UNCHANGED vars
    BY <1>7 DEF vars, Inv, WalkInv, NothingYet, SeenSettled, SeedsKept,
        DependenciesKept, ResultChecked, Settled, Reported, Covered, Queued, Pinned
  <1> QED
    BY <1>1, <1>2, <1>3, <1>4, <1>5, <1>6, <1>7 DEF Next, Step, Over

LEMMA WalkInvariant == Spec => []Inv
  <1>1. Init => Inv
    <2>1. Init => TypeOK
      BY TypeInit
    <2>2. Init => WalkInv
      BY DEF Init, WalkInv, NothingYet, SeenSettled, SeedsKept, DependenciesKept,
          ResultChecked, Pinned
    <2> QED
      BY <2>1, <2>2 DEF Inv
  <1>2. Inv /\ [Next]_vars => Inv'
    BY TypeStep, WalkStep DEF Inv
  <1> QED
    BY <1>1, <1>2, PTL DEF Spec

\* A required dependency missing from the set is reported (FR-4), whatever
\* lookups failed: the queue of resolveModpack forgets nothing.
THEOREM GapsAreReported == Spec => []GapsReported
  <1>1. Inv => GapsReported
    <2> SUFFICES ASSUME Inv, pc = "done", NEW p \in Projects, Pinned(p),
                        NEW j \in 1..Len(catalog[p].required)
                 PROVE  LET d == catalog[p].required[j]
                        IN  IF d = NoId THEN Unsatisfied(p) \in issues
                            ELSE Pinned(d) \/ Reported(Id(d))
      BY DEF GapsReported
    <2> DEFINE d == catalog[p].required[j]
    <2>1. Covered(p, j)
      BY DEF Inv, WalkInv, DependenciesKept
    <2>2. d \in Projects \cup {NoId}
      BY RequiredType DEF Inv, TypeOK
    <2>3. CASE d = NoId
      BY <2>1, <2>3 DEF Covered
    <2>4. CASE d # NoId
      <3>1. ~Queued(Id(d))
        BY DEF Inv, WalkInv, ResultChecked, Queued
      <3>2. Pinned(d) \/ Id(d) \in seenRefs
        BY <2>1, <2>4, <3>1 DEF Covered
      <3>3. Id(d).project = d
        BY <2>2, <2>4, RefProject
      <3> QED
        BY <2>4, <3>2, <3>3 DEF Inv, WalkInv, SeenSettled, Settled
    <2> QED
      BY <2>3, <2>4
  <1> QED
    BY <1>1, WalkInvariant, PTL

\* A set that comes back without an issue is dependency complete (FR-2).
THEOREM CleanSetIsComplete == Spec => []CleanSetComplete
  <1>1. Inv /\ GapsReported => CleanSetComplete
    <2> SUFFICES ASSUME Inv, GapsReported, pc = "done", issues = {}
                 PROVE  CleanSetComplete
      BY DEF CleanSetComplete, CleanSet
    <2>1. \A ref \in seenRefs : Pinned(ref.project)
      BY DEF Inv, WalkInv, SeenSettled, Settled, Reported
    <2>2. \A i \in 1..Len(seeds) : seeds[i] \in seenRefs
      BY DEF Inv, WalkInv, SeedsKept, ResultChecked, Queued
    <2>3. \A p \in Projects : Pinned(p) =>
            \A j \in 1..Len(catalog[p].required) :
                catalog[p].required[j] # NoId /\ Pinned(catalog[p].required[j])
      BY DEF GapsReported, Reported
    <2>4. \A p \in Projects : Pinned(p) =>
            \A q \in catalog[p].incompatible : ~Pinned(q)
      <3> SUFFICES ASSUME NEW p \in Projects, Pinned(p), NEW q \in catalog[p].incompatible
                   PROVE  ~Pinned(q)
        OBVIOUS
      <3>1. q \in Projects
        BY RequiredType DEF Inv, TypeOK
      <3> QED
        BY <3>1 DEF Inv, WalkInv, ResultChecked
    <2> QED
      BY <2>1, <2>2, <2>3, <2>4 DEF CleanSetComplete
  <1> QED
    BY <1>1, WalkInvariant, GapsAreReported, PTL

-----------------------------------------------------------------------------
(* For whom an entry was pinned.                                           *)

\* What is queued is needed; what another mod asked for says which, truly.
ItemFits(i) ==
    /\ Needed(queue[i].ref.project)
    /\ queue[i].origin # Requested =>
        \E q \in Projects :
            /\ queue[i].origin = RequiredBy(q)
            /\ Pinned(q)
            /\ \E j \in 1..Len(catalog[q].required) :
                catalog[q].required[j] = queue[i].ref.project
QueueFits == \A i \in 1..Len(queue) : ItemFits(i)

\* The queue is first in, first out, so the seeds come before all else ...
SeedsFirst ==
    \A i, k \in 1..Len(queue) :
        i < k /\ queue[k].origin = Requested => queue[i].origin = Requested

\* ... and a seed that was not seen is queued as what was asked for.
Awaited(ref) == \E k \in 1..Len(queue) : queue[k].ref = ref /\ queue[k].origin = Requested
SeedsWait ==
    pc \notin {"start", "rejected"} =>
        \A i \in 1..Len(seeds) : seeds[i] \in seenRefs \/ Awaited(seeds[i])

UnresolvedTrue == \A p \in Projects : Unresolved(p) \in issues => catalog[p] = NoFile

OriginRight(p) ==
    /\ Needed(p)
    /\ resolved[p] # Requested =>
        /\ \A i \in 1..Len(seeds) : seeds[i].project = p => ProviderError(seeds[i]) \in issues
        /\ LET q == resolved[p].by IN
            /\ Pinned(q)
            /\ \E j \in 1..Len(catalog[q].required) : catalog[q].required[j] = p

OriginInv == QueueFits /\ SeedsFirst /\ SeedsWait /\ UnresolvedTrue /\ OriginsRight

LEMMA NeededKept ==
    ASSUME catalog' = catalog, seeds' = seeds, NEW p
    PROVE  Needed(p)' <=> Needed(p)
  BY DEF Needed

LEMMA SeedNeeded ==
    ASSUME NEW i \in 1..Len(seeds) PROVE Needed(seeds[i].project)
  BY DEF Needed

LEMMA RequiredNeeded ==
    ASSUME NEW q \in Projects, Needed(q), catalog[q] # NoFile,
           NEW j \in 1..Len(catalog[q].required), catalog[q].required[j] # NoId
    PROVE  Needed(catalog[q].required[j])
  BY DEF Needed

\* Neither an entry that stays pinned nor the report about a seed is lost.
LEMMA OriginsStay ==
    ASSUME OriginsRight, TypeOK, catalog' = catalog, seeds' = seeds, issues \subseteq issues',
           NEW p \in Projects, Pinned(p), resolved'[p] = resolved[p],
           \A q \in Projects : Pinned(q) => Pinned(q)'
    PROVE  OriginRight(p)'
  <1>1. Needed(p)'
    BY NeededKept DEF OriginsRight
  <1>2. CASE resolved[p] = Requested
    BY <1>1, <1>2 DEF OriginRight, Requested
  <1>3. CASE resolved[p] # Requested
    <2>1. PICK r \in Projects : resolved[p] = RequiredBy(r)
      <3>1. resolved[p] \in Origins
        BY DEF TypeOK, Pinned
      <3> QED
        BY <1>3, <3>1 DEF Origins
    <2>2. resolved[p].by = r
      BY <2>1 DEF RequiredBy
    <2>3. /\ \A i \in 1..Len(seeds) : seeds[i].project = p => ProviderError(seeds[i]) \in issues
          /\ Pinned(r) /\ \E j \in 1..Len(catalog[r].required) : catalog[r].required[j] = p
      BY <1>3, <2>2 DEF OriginsRight
    <2>4. Pinned(r)'
      BY <2>3
    <2> QED
      BY <1>1, <2>2, <2>3, <2>4 DEF OriginRight, ProviderError, Requested, Pinned
  <1> QED
    BY <1>2, <1>3

\* Taking the head of the queue, which is then seen.
LEMMA TakeFits ==
    ASSUME TypeOK, OriginInv, pc = "walk", queue # <<>>, queue' = Tail(queue),
           catalog' = catalog, seeds' = seeds,
           Head(queue).ref \in seenRefs', seenRefs \subseteq seenRefs',
           \A q \in Projects : Pinned(q) => Pinned(q)'
    PROVE  QueueFits' /\ SeedsFirst' /\ SeedsWait'
  <1>1. queue \in Seq(Items)
    BY DEF TypeOK, Items
  <1>2. /\ Len(queue') \in Nat
        /\ \A i \in 1..Len(queue') : i + 1 \in 1..Len(queue) /\ queue'[i] = queue[i + 1]
    BY <1>1
  <1>3. QueueFits'
    <2> SUFFICES ASSUME NEW i \in 1..Len(queue')
                 PROVE  ItemFits(i)'
      BY DEF QueueFits, ItemFits
    <2>1. i + 1 \in 1..Len(queue) /\ queue'[i] = queue[i + 1]
      BY <1>2
    <2>2. ItemFits(i + 1)
      BY <2>1 DEF OriginInv, QueueFits
    <2> QED
      BY <2>1, <2>2 DEF ItemFits, Needed, Pinned, Requested, RequiredBy
  <1>4. SeedsFirst'
    <2> SUFFICES ASSUME NEW i \in 1..Len(queue'), NEW k \in 1..Len(queue'), i < k,
                        queue'[k].origin = Requested
                 PROVE  queue'[i].origin = Requested
      BY DEF SeedsFirst, Requested
    <2> QED
      BY <1>2 DEF OriginInv, SeedsFirst
  <1>5. SeedsWait'
    <2> SUFFICES ASSUME NEW i \in 1..Len(seeds), seeds[i] \notin seenRefs'
                 PROVE  \E k \in 1..Len(queue') :
                            queue'[k].ref = seeds[i] /\ queue'[k].origin = Requested
      BY DEF SeedsWait, Awaited, Requested
    <2>1. PICK k \in 1..Len(queue) : queue[k].ref = seeds[i] /\ queue[k].origin = Requested
      BY DEF OriginInv, SeedsWait, Awaited
    <2>2. k # 1
      BY <2>1, HeadType
    <2>3. k - 1 \in 1..Len(queue') /\ queue'[k - 1] = queue[k]
      BY <1>1, <2>2, TailKeeps
    <2> QED
      BY <2>1, <2>3
  <1> QED
    BY <1>3, <1>4, <1>5

\* What is pinned on its turn is needed, by whom the queue says; and if not by
\* the user, then every seed that names it was seen and could not be looked up.
LEMMA PinFits ==
    ASSUME Inv, OriginInv, NEW ref \in Refs, Pin(ref)
    PROVE  OriginsRight'
  <1> DEFINE p == ref.project  head == Head(queue)
  <1>1. /\ TypeOK /\ p \in Projects /\ pc = "walk" /\ queue # <<>> /\ ~Pinned(p)
        /\ catalog[p] # NoFile /\ catalog' = catalog /\ seeds' = seeds /\ issues' = issues
        /\ resolved' = [resolved EXCEPT ![p] = head.origin]
        /\ ref = head.ref
    BY RefProject DEF Inv, Pin, Takes
  <1>2. 1 \in 1..Len(queue) /\ queue[1] = head /\ head.origin \in Origins
    BY <1>1, HeadType
  <1>3. /\ resolved'[p] = head.origin
        /\ \A q \in Projects : q # p => resolved'[q] = resolved[q]
    BY <1>1 DEF TypeOK
  <1>4. \A q \in Projects : Pinned(q) => Pinned(q)'
    BY <1>1, <1>3 DEF Pinned
  <1> HIDE DEF head
  <1>5. ASSUME NEW q \in Projects, Pinned(q)'
        PROVE  OriginRight(q)'
    <2>1. CASE q # p
      BY <1>1, <1>3, <1>4, <1>5, <2>1, OriginsStay DEF OriginInv, Pinned
    <2>2. CASE q = p
      <3>1. Needed(p)
        BY <1>1, <1>2 DEF OriginInv, QueueFits, ItemFits
      <3>2. Needed(q)'
        BY <1>1, <2>2, <3>1, NeededKept
      <3>3. CASE head.origin = Requested
        BY <1>3, <2>2, <3>2, <3>3 DEF OriginRight, Requested
      <3>4. ASSUME head.origin # Requested, NEW i \in 1..Len(seeds), seeds[i].project = p
            PROVE  ProviderError(seeds[i]) \in issues
        <4>1. ~Awaited(seeds[i])
          <5> SUFFICES ASSUME NEW k \in 1..Len(queue), queue[k].origin = Requested
                       PROVE  FALSE
            BY DEF Awaited
          <5>1. CASE k = 1
            BY <1>2, <3>4, <5>1
          <5>2. CASE k # 1
            BY <1>2, <3>4, <5>2 DEF OriginInv, SeedsFirst
          <5> QED
            BY <5>1, <5>2
        <4>2. seeds[i] \in seenRefs
          BY <1>1, <4>1 DEF OriginInv, SeedsWait
        <4>3. Settled(seeds[i])
          BY <4>2 DEF Inv, WalkInv, SeenSettled
        <4>4. Unresolved(p) \notin issues
          BY <1>1 DEF OriginInv, UnresolvedTrue
        <4> QED
          BY <1>1, <3>4, <4>3, <4>4 DEF Settled, Reported
      <3>5. CASE head.origin # Requested
        <4>1. PICK r \in Projects : /\ head.origin = RequiredBy(r)
                                    /\ Pinned(r)
                                    /\ \E j \in 1..Len(catalog[r].required) :
                                        catalog[r].required[j] = p
          BY <1>1, <1>2, <3>5 DEF OriginInv, QueueFits, ItemFits
        <4>2. resolved'[q].by = r
          BY <1>3, <2>2, <4>1 DEF RequiredBy
        <4>3. Pinned(r)'
          BY <1>4, <4>1
        <4> QED
          BY <1>1, <2>2, <3>2, <3>4, <3>5, <4>1, <4>2, <4>3
             DEF OriginRight, ProviderError, Requested, Pinned
      <3> QED
        BY <3>3, <3>5
    <2> QED
      BY <2>1, <2>2
  <1> QED
    BY <1>5 DEF OriginsRight, OriginRight

\* A step that pins nothing and forgets no report.
LEMMA OriginsKept ==
    ASSUME OriginInv, TypeOK, UNCHANGED <<catalog, seeds, resolved>>, issues \subseteq issues'
    PROVE  OriginsRight'
  <1>1. ASSUME NEW p \in Projects, Pinned(p)'
        PROVE  OriginRight(p)'
    BY <1>1, OriginsStay DEF OriginInv, Pinned
  <1> QED
    BY <1>1 DEF OriginsRight, OriginRight

LEMMA TakeOrigins ==
    ASSUME Inv, OriginInv, NEW ref \in Refs,
           LookupFails(ref) \/ AlreadyPinned(ref) \/ NoCompatibleFile(ref) \/ Pin(ref)
    PROVE  OriginInv'
  <1>1. /\ TypeOK /\ pc = "walk" /\ queue # <<>> /\ queue' = Tail(queue)
        /\ catalog' = catalog /\ seeds' = seeds
        /\ Head(queue).ref \in seenRefs' /\ seenRefs \subseteq seenRefs'
        /\ issues \subseteq issues'
    BY DEF Inv, LookupFails, AlreadyPinned, NoCompatibleFile, Pin, Takes
  <1>2. \A q \in Projects : Pinned(q) => Pinned(q)'
    BY <1>1, HeadType, OriginPins
       DEF TypeOK, LookupFails, AlreadyPinned, NoCompatibleFile, Pin, Pinned
  <1>3. QueueFits' /\ SeedsFirst' /\ SeedsWait'
    BY <1>1, <1>2, TakeFits
  <1>4. UnresolvedTrue'
    <2>1. \A p \in Projects : \A r \in Refs : Unresolved(p) # ProviderError(r)
      BY DEF Unresolved, ProviderError
    <2>2. \A p \in Projects : Unresolved(p) \in issues' =>
            Unresolved(p) \in issues \/ catalog[p] = NoFile
      BY <2>1 DEF LookupFails, AlreadyPinned, NoCompatibleFile, Pin, Unresolved
    <2> QED
      BY <1>1, <2>2 DEF OriginInv, UnresolvedTrue, Unresolved
  <1>5. CASE Pin(ref)
    BY <1>3, <1>4, <1>5, PinFits DEF OriginInv
  <1>6. CASE ~Pin(ref)
    <2>1. resolved' = resolved
      BY <1>6 DEF LookupFails, AlreadyPinned, NoCompatibleFile
    <2> QED
      BY <1>1, <1>3, <1>4, <2>1, OriginsKept DEF OriginInv
  <1> QED
    BY <1>5, <1>6

LEMMA StartOrigins == Inv /\ OriginInv /\ Start => OriginInv'
  <1> SUFFICES ASSUME Inv, OriginInv, Start PROVE OriginInv'
    OBVIOUS
  <1>1. /\ TypeOK /\ UNCHANGED <<catalog, seeds, seenRefs, resolved, issues>>
        /\ seeds \in Seq(Refs)
    BY ConstantsAssumption DEF Inv, TypeOK, Start
  <1>2. OriginsRight' /\ UnresolvedTrue'
    BY <1>1, OriginsKept DEF OriginInv, UnresolvedTrue
  <1>3. CASE UNCHANGED queue /\ pc' = "rejected"
    BY <1>1, <1>2, <1>3
       DEF OriginInv, QueueFits, ItemFits, SeedsFirst, SeedsWait, Needed, Pinned
  <1>4. CASE pc' = "walk" /\ queue' = [i \in 1..Len(seeds) |-> Item(seeds[i], Requested)]
    <2>1. Len(queue') = Len(seeds) /\ \A i \in 1..Len(seeds) :
            queue'[i].ref = seeds[i] /\ queue'[i].origin = Requested
      BY <1>1, <1>4 DEF Item
    <2>2. \A i \in 1..Len(seeds) : Needed(seeds[i].project)
      BY SeedNeeded
    <2>3. QueueFits'
      BY <1>1, <2>1, <2>2 DEF QueueFits, ItemFits, Needed, Requested
    <2>4. SeedsFirst' /\ SeedsWait'
      BY <1>1, <2>1 DEF SeedsFirst, SeedsWait, Awaited, Requested
    <2> QED
      BY <1>2, <2>3, <2>4 DEF OriginInv
  <1> QED
    BY <1>3, <1>4 DEF Start

LEMMA DependencyOrigins == Inv /\ OriginInv /\ Dependency => OriginInv'
  <1> SUFFICES ASSUME Inv, OriginInv, Dependency PROVE OriginInv'
    OBVIOUS
  <1> DEFINE d == Required[dep]
  <1>1. /\ TypeOK /\ Pinned(cur) /\ cur \in Projects /\ catalog[cur] # NoFile
        /\ UNCHANGED <<catalog, seeds, seenRefs, resolved, pc>>
        /\ issues \subseteq issues'
    BY DEF Inv, TypeOK, Dependency
  <1>2. dep \in 1..Len(catalog[cur].required) /\ d = catalog[cur].required[dep]
        /\ d \in Projects \cup {NoId}
    BY <1>1, RequiredType DEF Dependency, TypeOK, Required
  <1>3. OriginsRight'
    BY <1>1, OriginsKept
  <1>4. UnresolvedTrue'
    <2>1. \A p \in Projects : Unresolved(p) # Unsatisfied(cur)
      BY DEF Unresolved, Unsatisfied
    <2>2. \A p \in Projects : Unresolved(p) \in issues' => Unresolved(p) \in issues
      BY <2>1 DEF Dependency, Unresolved
    <2> QED
      BY <1>1, <2>2 DEF OriginInv, UnresolvedTrue, Unresolved
  <1>5. CASE queue' = queue
    BY <1>1, <1>3, <1>4, <1>5
       DEF OriginInv, QueueFits, ItemFits, SeedsFirst, SeedsWait, Awaited, Needed, Pinned
  <1>6. CASE d # NoId /\ queue' = Append(queue, Item(Id(d), RequiredBy(cur)))
    <2> DEFINE e == Item(Id(d), RequiredBy(cur))
    <2>1. /\ queue \in Seq(Items) /\ e \in Items /\ d \in Projects
          /\ e.ref = Id(d) /\ e.ref.project = d
          /\ e.origin = RequiredBy(cur) /\ e.origin # Requested
      BY <1>1, <1>2, <1>6, RefProject, ItemType
         DEF TypeOK, Items, Origins, Item, RequiredBy, Requested
    <2> HIDE DEF e
    <2>2. queue' = Append(queue, e)
      BY <1>6 DEF e
    <2>3. /\ Len(queue') = Len(queue) + 1 /\ Len(queue) \in Nat
          /\ queue'[Len(queue) + 1] = e
          /\ \A i \in 1..Len(queue) : queue'[i] = queue[i]
      BY <2>1, <2>2
    <2>4. Needed(d)
      <3>1. Needed(cur)
        BY <1>1 DEF OriginInv, OriginsRight
      <3> QED
        BY <1>1, <1>2, <1>6, <3>1, RequiredNeeded
    <2>5. QueueFits'
      <3> SUFFICES ASSUME NEW i \in 1..Len(queue')
                   PROVE  ItemFits(i)'
        BY DEF QueueFits, ItemFits
      <3>1. CASE i \in 1..Len(queue)
        <4>1. ItemFits(i) /\ queue'[i] = queue[i]
          BY <2>3, <3>1 DEF OriginInv, QueueFits
        <4> QED
          BY <1>1, <4>1 DEF ItemFits, Needed, Pinned, Requested, RequiredBy
      <3>2. CASE i = Len(queue) + 1
        <4>1. queue'[i] = e
          BY <2>3, <3>2
        <4> QED
          BY <1>1, <1>2, <2>1, <2>4, <4>1 DEF ItemFits, Needed, Pinned, Requested, RequiredBy
      <3> QED
        BY <2>3, <3>1, <3>2
    <2>6. SeedsFirst'
      <3> SUFFICES ASSUME NEW i \in 1..Len(queue'), NEW k \in 1..Len(queue'), i < k,
                          queue'[k].origin = Requested
                   PROVE  queue'[i].origin = Requested
        BY DEF SeedsFirst, Requested
      <3>1. k \in 1..Len(queue) /\ i \in 1..Len(queue)
        BY <2>1, <2>3
      <3> QED
        BY <2>3, <3>1 DEF OriginInv, SeedsFirst
    <2>7. SeedsWait'
      <3> SUFFICES ASSUME NEW i \in 1..Len(seeds), seeds[i] \notin seenRefs
                   PROVE  \E k \in 1..Len(queue') :
                              queue'[k].ref = seeds[i] /\ queue'[k].origin = Requested
        BY <1>1 DEF SeedsWait, Awaited, Requested
      <3>1. PICK k \in 1..Len(queue) : queue[k].ref = seeds[i] /\ queue[k].origin = Requested
        BY DEF OriginInv, SeedsWait, Awaited, Dependency
      <3> QED
        BY <2>3, <3>1
    <2> QED
      BY <1>3, <1>4, <2>5, <2>6, <2>7 DEF OriginInv
  <1> QED
    BY <1>5, <1>6 DEF Dependency

\* Every entry of the set is needed, and says truly whether the user asked for
\* it or which pinned mod requires it, for any catalog, seeds and failures
\* (the origin resolveModpack keeps with each ref of its queue).
THEOREM OriginsAreRight == Spec => []OriginsRight
  <1>1. Init => OriginInv
    <2> SUFFICES ASSUME Init PROVE OriginInv
      OBVIOUS
    <2> QED
      BY DEF Init, OriginInv, QueueFits, SeedsFirst, SeedsWait, UnresolvedTrue, OriginsRight,
             Pinned
  <1>2. Inv /\ OriginInv /\ [Next]_vars => OriginInv'
    <2> SUFFICES ASSUME Inv, OriginInv, [Next]_vars PROVE OriginInv'
      OBVIOUS
    <2>1. CASE SkipSeen
      <3>1. /\ TypeOK /\ pc = "walk" /\ queue # <<>> /\ queue' = Tail(queue)
            /\ Head(queue).ref \in seenRefs
            /\ UNCHANGED <<catalog, seeds, pc, seenRefs, resolved, issues>>
        BY <2>1 DEF SkipSeen, Inv
      <3>2. QueueFits' /\ SeedsFirst' /\ SeedsWait'
        BY <3>1, TakeFits DEF Pinned
      <3>3. OriginsRight'
        BY <3>1, OriginsKept
      <3> QED
        BY <3>1, <3>2, <3>3 DEF OriginInv, UnresolvedTrue
    <2>2. CASE Finish
      <3>1. /\ TypeOK /\ UNCHANGED <<catalog, seeds, resolved, queue, seenRefs>>
            /\ issues \subseteq issues'
            /\ pc = "walk"
        BY <2>2 DEF Finish, Inv
      <3>2. OriginsRight'
        BY <3>1, OriginsKept
      <3>3. \A p, q, r \in Projects : Unresolved(p) # Incompatible(q, r)
        BY DEF Unresolved, Incompatible
      <3>4. \A p \in Projects : Unresolved(p) \in issues' => Unresolved(p) \in issues
        BY <2>2, <3>3 DEF Finish, Unresolved
      <3>5. UnresolvedTrue'
        BY <3>1, <3>4 DEF OriginInv, UnresolvedTrue, Unresolved
      <3> QED
        BY <3>1, <3>2, <3>5
           DEF OriginInv, QueueFits, ItemFits, SeedsFirst, SeedsWait, Awaited, Needed, Pinned
    <2>3. CASE DependenciesDone \/ UNCHANGED vars
      <3>1. /\ UNCHANGED <<catalog, seeds, resolved, queue, seenRefs, issues>>
            /\ pc' \notin {"start", "rejected"} => pc \notin {"start", "rejected"}
        BY <2>3 DEF DependenciesDone, vars
      <3>2. OriginsRight'
        BY <3>1, OriginsKept DEF Inv
      <3> QED
        BY <3>1, <3>2
           DEF OriginInv, QueueFits, ItemFits, SeedsFirst, SeedsWait, Awaited, UnresolvedTrue,
               Needed, Pinned
    <2> QED
      BY <2>1, <2>2, <2>3, StartOrigins, DependencyOrigins, TakeOrigins DEF Next, Step, Over
  <1>3. OriginInv => OriginsRight
    BY DEF OriginInv
  <1> QED
    BY <1>1, <1>2, <1>3, WalkInvariant, PTL DEF Spec

-----------------------------------------------------------------------------
(* Why it ends.                                                            *)

\* The loop over a file's dependencies stays within the file.
InFile == pc = "dependencies" => dep <= Len(Required) + 1
LoopInv == TypeOK /\ InFile

LEMMA RequiredHere ==
    ASSUME TypeOK, pc = "dependencies"
    PROVE  Len(Required) \in Nat /\ dep \in Nat /\ dep >= 1
  <1>1. cur \in Projects /\ catalog[cur] # NoFile
    BY DEF TypeOK
  <1> QED
    BY <1>1, RequiredType DEF Required, TypeOK

LEMMA InFileKept == LoopInv /\ [Next]_vars => InFile'
  <1> SUFFICES ASSUME LoopInv, [Next]_vars PROVE InFile'
    OBVIOUS
  <1>1. ASSUME NEW ref \in Refs, Pin(ref)
        PROVE  InFile'
    <2>1. Required' = catalog[ref.project].required /\ dep' = 1
      BY <1>1 DEF Pin, Required
    <2>2. Len(Required') \in Nat
      BY <1>1, <2>1, RefProject, RequiredType DEF LoopInv, Pin
    <2> QED
      BY <2>1, <2>2 DEF InFile
  <1>2. CASE \E ref \in Refs : LookupFails(ref) \/ AlreadyPinned(ref) \/ NoCompatibleFile(ref)
    BY <1>2 DEF LookupFails, AlreadyPinned, NoCompatibleFile, Takes, InFile
  <1>3. CASE Dependency
    <2>1. Required' = Required /\ dep' = dep + 1 /\ dep <= Len(Required) /\ pc = "dependencies"
      BY <1>3 DEF Dependency, Required
    <2>2. Len(Required) \in Nat /\ dep \in Nat
      BY <2>1, RequiredHere DEF LoopInv
    <2> QED
      BY <2>1, <2>2 DEF InFile
  <1>4. CASE Start \/ SkipSeen \/ DependenciesDone \/ Finish
    BY <1>4 DEF Start, SkipSeen, DependenciesDone, Finish, InFile
  <1>5. CASE UNCHANGED vars
    BY <1>5 DEF vars, LoopInv, InFile, Required
  <1> QED
    BY <1>1, <1>2, <1>3, <1>4, <1>5 DEF Next, Step, Over

\* Taking a ref that was not seen leaves fewer of them, and the walk goes on.
LEMMA TakingShrinks ==
    ASSUME NEW ref \in Refs, Takes(ref), pc' \in {"walk", "dependencies"}
    PROVE  Phase' = Phase /\ seenRefs \subseteq seenRefs' /\ seenRefs' # seenRefs
  BY DEF Takes, Phase

\* For any catalog, also one whose projects require each other in circles or
\* twice, and whatever lookups fail, each step of a resolution uses up
\* something finite (the loop of resolveModpack).
THEOREM WalkShrinks == Spec => ResolutionShrinks
  <1> DEFINE Shrinks ==
        \/ Phase' > Phase
        \/ /\ Phase' = Phase
           /\ seenRefs \subseteq seenRefs'
           /\ \/ seenRefs' # seenRefs
              \/ DependenciesLeft' \in 0..(DependenciesLeft - 1)
              \/ /\ DependenciesLeft' = DependenciesLeft
                 /\ Len(queue') < Len(queue)
  <1>1. ASSUME LoopInv, Next PROVE Shrinks \/ UNCHANGED vars
    <2>1. CASE Start \/ Finish
      BY <2>1 DEF Start, Finish, Phase
    <2>2. CASE SkipSeen
      <3>1. Phase' = Phase /\ DependenciesLeft' = DependenciesLeft /\ seenRefs' = seenRefs
        BY <2>2 DEF SkipSeen, Phase, DependenciesLeft
      <3>2. queue \in Seq(Items) /\ queue # <<>> /\ queue' = Tail(queue)
        BY <1>1, <2>2 DEF SkipSeen, LoopInv, TypeOK, Items
      <3>3. Len(queue') < Len(queue)
        BY <3>2
      <3> QED
        BY <3>1, <3>3
    <2>3. ASSUME NEW ref \in Refs,
                 LookupFails(ref) \/ AlreadyPinned(ref) \/ NoCompatibleFile(ref) \/ Pin(ref)
          PROVE  Shrinks
      <3>1. Takes(ref) /\ pc' \in {"walk", "dependencies"}
        BY <2>3 DEF LookupFails, AlreadyPinned, NoCompatibleFile, Pin, Takes
      <3> QED
        BY <3>1, TakingShrinks
    <2>4. CASE Dependency
      <3>1. /\ pc = "dependencies" /\ pc' = pc /\ seenRefs' = seenRefs
            /\ Required' = Required /\ dep' = dep + 1 /\ dep <= Len(Required)
        BY <2>4 DEF Dependency, Required
      <3>2. Len(Required) \in Nat /\ dep \in Nat
        BY <1>1, <3>1, RequiredHere DEF LoopInv
      <3>3. DependenciesLeft' \in 0..(DependenciesLeft - 1)
        BY <3>1, <3>2 DEF DependenciesLeft
      <3> QED
        BY <3>1, <3>3 DEF Phase
    <2>5. CASE DependenciesDone
      <3>1. pc = "dependencies" /\ pc' = "walk" /\ seenRefs' = seenRefs
        BY <2>5 DEF DependenciesDone
      <3>2. Len(Required) \in Nat /\ dep \in Nat /\ dep <= Len(Required) + 1
        BY <1>1, <3>1, RequiredHere DEF LoopInv, InFile
      <3>3. DependenciesLeft' = 0 /\ DependenciesLeft >= 1 /\ DependenciesLeft \in Int
        BY <3>1, <3>2 DEF DependenciesLeft
      <3>4. DependenciesLeft' \in 0..(DependenciesLeft - 1)
        BY <3>3
      <3> QED
        BY <3>1, <3>4 DEF Phase
    <2>6. CASE Over
      BY <2>6 DEF Over
    <2> QED
      BY <1>1, <2>1, <2>2, <2>3, <2>4, <2>5, <2>6 DEF Next, Step
  <1>2. LoopInv /\ [Next]_vars => [Shrinks]_vars
    BY <1>1
  <1>3. Init => LoopInv
    BY TypeInit DEF Init, LoopInv, InFile
  <1>4. LoopInv /\ [Next]_vars => LoopInv'
    BY TypeStep, InFileKept DEF LoopInv
  <1> QED
    BY <1>2, <1>3, <1>4, PTL DEF Spec, ResolutionShrinks
=============================================================================
