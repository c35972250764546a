---------------------- MODULE InstanceLifecycleProofs ----------------------
(***************************************************************************)
(* Theorems about InstanceLifecycle, for any mods, packs, pins, launchers  *)
(* and files the player edits: what a completed build and a completed      *)
(* install promise survives every later command, whether that one          *)
(* completes or dies, and a file a command saw is replaced only with       *)
(* --force.                                                                *)
(*                                                                         *)
(* PackInv is about the files a build writes and the plan of the command   *)
(* that runs; JarInv, which rests on it, about jars and about --force.     *)
(***************************************************************************)
EXTENDS InstanceLifecycle, TLAPS

IsJar(n) == \E j \in Jars : n = Jar(j)

\* What a whole file may hold.
Fits(n, v) ==
    /\ \A s \in Slugs : n = Meta(s) => v \in Pins
    /\ IsJar(n) => v \in Pins
    /\ n = Index => v \in Seq(Slugs)
    /\ n \in BuildNamed => v \in Builds
    /\ n = Prism => v = NoBuild

FileFits(n, v) == v \in {Absent, Torn, Foreign} \/ Fits(n, v)

AnyChange == [name : Names, data : Pins \cup Seq(Slugs) \cup Builds \cup {NoBuild}]

\* Changes of the kind of command that plans them.
PlanFits(kind, files) ==
    /\ files \in Seq(AnyChange)
    /\ \A k \in 1..Len(files) :
        /\ Fits(files[k].name, files[k].data)
        /\ kind = "install" <=> IsJar(files[k].name)
        /\ kind = "launchable" <=> files[k].name = Prism

-----------------------------------------------------------------------------
(* Sequences.                                                              *)

LEMMA SeqFacts ==
    ASSUME NEW S, NEW s \in Seq(S)
    PROVE  /\ Len(s) \in Nat /\ DOMAIN s = 1..Len(s)
           /\ \A k \in 1..Len(s) : s[k] \in S
    OBVIOUS

LEMMA EmptySequence ==
    ASSUME NEW S
    PROVE  <<>> \in Seq(S)
    OBVIOUS

-----------------------------------------------------------------------------
(* File names.                                                             *)

LEMMA NamesDiffer ==
    /\ \A s \in Slugs : /\ Meta(s) \in Names
                        /\ ~IsJar(Meta(s))
                        /\ Meta(s) \notin {Index, Pack, Profile, Marker, Prism}
                        /\ \A t \in Slugs : Meta(s) = Meta(t) => s = t
    /\ {Index, Pack, Profile, Marker, Prism} \subseteq Names
    /\ \A n \in {Index, Pack, Profile, Marker, Prism} : ~IsJar(n)
    /\ Index # Pack /\ Index # Profile /\ Index # Marker /\ Index # Prism
    /\ Pack # Profile /\ Pack # Marker /\ Pack # Prism
    /\ Profile # Marker /\ Profile # Prism /\ Marker # Prism
    /\ \A j \in Jars : Jar(j) \in Names /\ IsJar(Jar(j))
    /\ \A i, j \in Jars : Jar(i) = Jar(j) => i = j
    /\ \A p \in Pins : JarOf[p] \in Jars
    /\ BuildNamed = {Pack, Profile, Marker}
    BY ConstantsAssumption
    DEF ConstantsAssumption, Names, BuildNamed, Meta, Jar, IsJar, Index, Pack, Profile, Marker, Prism, Jars

-----------------------------------------------------------------------------
(* The plans.                                                              *)

\* The files of a build are the metafiles in order, the index, the pack file
\* and the profile, and the marker of a blocked one.
LEMMA BuildPlan ==
    ASSUME NEW b \in Builds
    PROVE  LET files == BuildFiles(b)
               mods == ModsOf[b]
           IN  /\ PlanFits("build", files)
               /\ mods \in Seq([slug : Slugs, pin : Pins])
               /\ Len(files) = Len(mods) + (IF b \in BlockedBuilds THEN 4 ELSE 3)
               /\ \A k \in 1..Len(mods) : files[k] = Change(Meta(mods[k].slug), mods[k].pin)
               /\ files[Len(mods) + 1] = Change(Index, [k \in 1..Len(mods) |-> mods[k].slug])
               /\ files[Len(mods) + 2] = Change(Pack, b)
               /\ files[Len(mods) + 3] = Change(Profile, b)
               /\ b \in BlockedBuilds => files[Len(mods) + 4] = Change(Marker, b)
               /\ \A k, l \in 1..Len(files) : k # l => files[k].name # files[l].name
               /\ \A k \in 1..Len(files) : ~IsJar(files[k].name) /\ files[k].name # Prism
<1> DEFINE files == BuildFiles(b)
           mods == ModsOf[b]
           M == Len(mods)
           metas == [k \in 1..M |-> Change(Meta(mods[k].slug), mods[k].pin)]
           slugs == [k \in 1..M |-> mods[k].slug]
           three == <<Change(Index, slugs), Change(Pack, b), Change(Profile, b)>>
           rest == IF b \in BlockedBuilds THEN <<Change(Marker, b)>> ELSE <<>>
<1>1. mods \in Seq([slug : Slugs, pin : Pins]) /\ M \in Nat
    <2>1. ModsOf[b] \in Seq([slug : Slugs, pin : Pins])
        BY ConstantsAssumption, Zenon DEF ConstantsAssumption
    <2> QED BY <2>1, SeqFacts
<1>2. \A k \in 1..M : mods[k] \in [slug : Slugs, pin : Pins]
    BY <1>1, SeqFacts, Zenon
<1>3. \A k \in 1..M : mods[k].slug \in Slugs /\ mods[k].pin \in Pins
    BY <1>2
<1>4. slugs \in Seq(Slugs)
    BY <1>1, <1>3
<1>5. \A n, v : Change(n, v).name = n /\ Change(n, v).data = v
    BY DEF Change
<1>7. \A k \in 1..M : Change(Meta(mods[k].slug), mods[k].pin) \in AnyChange
    BY <1>3, NamesDiffer DEF AnyChange, Change
<1>8. metas \in Seq(AnyChange) /\ Len(metas) = M
    BY <1>1, <1>7
<1>9. Change(Index, slugs) \in AnyChange
    BY <1>4, NamesDiffer DEF AnyChange, Change
<1>10. Change(Pack, b) \in AnyChange /\ Change(Profile, b) \in AnyChange /\ Change(Marker, b) \in AnyChange
    BY NamesDiffer DEF AnyChange, Change
<1>11. three \in Seq(AnyChange) /\ rest \in Seq(AnyChange)
    BY <1>9, <1>10
<1>12. Len(three) = 3 /\ Len(rest) = IF b \in BlockedBuilds THEN 1 ELSE 0
    OBVIOUS
<1>13. files = metas \o three \o rest
    BY DEF BuildFiles
<1> HIDE DEF files, metas, slugs, three, rest, mods, M
<1> DEFINE front == metas \o three
<1>a. /\ front \in Seq(AnyChange) /\ Len(front) = M + 3
      /\ \A k \in 1..M : front[k] = metas[k]
      /\ \A k \in 1..3 : front[M + k] = three[k]
    <2>1. /\ front \in Seq(AnyChange) /\ Len(front) = Len(metas) + Len(three)
          /\ \A k \in 1..Len(metas) : front[k] = metas[k]
          /\ \A k \in 1..Len(three) : front[Len(metas) + k] = three[k]
        BY <1>8, <1>11
    <2> HIDE DEF front
    <2> QED BY <1>8, <1>12, <2>1
<1> HIDE DEF front
<1>b. /\ files \in Seq(AnyChange) /\ Len(files) = Len(front) + Len(rest)
      /\ \A k \in 1..Len(front) : files[k] = front[k]
      /\ \A k \in 1..Len(rest) : files[Len(front) + k] = rest[k]
    <2>1. files = front \o rest
        BY <1>13, Zenon DEF front
    <2> QED BY <1>a, <1>11, <2>1
<1>14. files \in Seq(AnyChange) /\ Len(files) = M + 3 + Len(rest)
    BY <1>1, <1>a, <1>b
<1>15. \A k \in 1..M : files[k] = metas[k]
    BY <1>1, <1>a, <1>b
<1>16. files[M + 1] = three[1] /\ files[M + 2] = three[2] /\ files[M + 3] = three[3]
    BY <1>1, <1>a, <1>b
<1>17. b \in BlockedBuilds => files[M + 4] = rest[1]
    <2>1. M + 4 = (M + 3) + 1
        BY <1>1
    <2> QED BY <1>1, <1>12, <1>a, <1>b, <2>1
<1>18. \A k \in 1..M : files[k] = Change(Meta(mods[k].slug), mods[k].pin)
    BY <1>15 DEF metas
<1>19. /\ files[M + 1] = Change(Index, slugs)
       /\ files[M + 2] = Change(Pack, b) /\ files[M + 3] = Change(Profile, b)
    BY <1>16 DEF three
<1>20. b \in BlockedBuilds => files[M + 4] = Change(Marker, b)
    BY <1>17 DEF rest
<1>21. Len(files) = M + (IF b \in BlockedBuilds THEN 4 ELSE 3)
    BY <1>1, <1>12, <1>14
<1>22. \A k \in 1..Len(files) :
            \/ k \in 1..M
            \/ k = M + 1 \/ k = M + 2 \/ k = M + 3
            \/ k = M + 4 /\ b \in BlockedBuilds
    BY <1>1, <1>21
<1>23. \A k \in 1..Len(files) :
            /\ Fits(files[k].name, files[k].data)
            /\ ~IsJar(files[k].name) /\ files[k].name # Prism
    <2> SUFFICES ASSUME NEW k \in 1..Len(files)
                 PROVE  /\ Fits(files[k].name, files[k].data)
                        /\ ~IsJar(files[k].name) /\ files[k].name # Prism
        OBVIOUS
    <2>1. CASE k \in 1..M
        BY <1>3, <1>5, <1>18, <2>1, NamesDiffer DEF Fits
    <2>2. CASE k = M + 1
        BY <1>4, <1>5, <1>19, <2>2, NamesDiffer DEF Fits
    <2>3. CASE k = M + 2
        BY <1>5, <1>19, <2>3, NamesDiffer DEF Fits
    <2>4. CASE k = M + 3
        BY <1>5, <1>19, <2>4, NamesDiffer DEF Fits
    <2>5. CASE k = M + 4 /\ b \in BlockedBuilds
        BY <1>5, <1>20, <2>5, NamesDiffer DEF Fits
    <2> QED BY <1>22, <2>1, <2>2, <2>3, <2>4, <2>5
<1>24. \A k, l \in 1..M : k # l => mods[k].slug # mods[l].slug
    BY DistinctFiles DEF mods, M
<1>25. /\ \A k \in 1..M : files[k].name = Meta(mods[k].slug)
       /\ files[M + 1].name = Index /\ files[M + 2].name = Pack /\ files[M + 3].name = Profile
       /\ b \in BlockedBuilds => files[M + 4].name = Marker
    BY <1>5, <1>18, <1>19, <1>20
<1>26. \A k, l \in 1..Len(files) : k # l => files[k].name # files[l].name
    <2> SUFFICES ASSUME NEW k \in 1..Len(files), NEW l \in 1..Len(files), k # l
                 PROVE  files[k].name # files[l].name
        OBVIOUS
    <2>1. CASE k \in 1..M /\ l \in 1..M
        BY <1>3, <1>24, <1>25, <2>1, NamesDiffer
    <2>2. CASE k \in 1..M /\ l \notin 1..M
        <3>1. files[l].name \in {Index, Pack, Profile, Marker}
            BY <1>22, <1>25, <2>2
        <3> QED BY <1>3, <1>25, <2>2, <3>1, NamesDiffer
    <2>3. CASE k \notin 1..M /\ l \in 1..M
        <3>1. files[k].name \in {Index, Pack, Profile, Marker}
            BY <1>22, <1>25, <2>3
        <3> QED BY <1>3, <1>25, <2>3, <3>1, NamesDiffer
    <2>4. CASE k \notin 1..M /\ l \notin 1..M
        BY <1>22, <1>25, <2>4, NamesDiffer
    <2> QED BY <2>1, <2>2, <2>3, <2>4
<1>27. PlanFits("build", files)
    <2>1. "build" # "install" /\ "build" # "launchable"
        OBVIOUS
    <2> QED BY <1>14, <1>23, <2>1 DEF PlanFits
<1> QED BY <1>1, <1>18, <1>19, <1>20, <1>21, <1>23, <1>26, <1>27 DEF files, mods, M, slugs

-----------------------------------------------------------------------------
(* What holds of every instance.                                           *)

\* The files of a build are on disk.
AllWritten(b) ==
    \A k \in 1..Len(BuildFiles(b)) : disk[BuildFiles(b)[k].name] = BuildFiles(b)[k].data

\* So far: what is left to do is the end of the build, and the rest is done,
\* the files the player changed meanwhile aside.
WrittenSoFar(b) ==
    LET n == Len(BuildFiles(b)) - Len(todo)
    IN  /\ n \in Nat
        /\ \A k \in 1..n : \/ disk[BuildFiles(b)[k].name] = BuildFiles(b)[k].data
                           \/ BuildFiles(b)[k].name \in touched
        /\ \A k \in 1..Len(todo) : todo[k] = BuildFiles(b)[n + k]

DiskFits == DOMAIN disk = Names /\ \A n \in Names : FileFits(n, disk[n])

PlansFit == PlanFits(run.kind, todo) /\ PlanFits(run.kind, plan)

\* A build is followed to its end, and what it promises stays on disk.
BuildKept ==
    /\ run.kind = "build" /\ pc = "planning" =>
        \/ todo = BuildFiles(run.build) /\ plan = <<>>
        \/ todo = <<>> /\ plan = BuildFiles(run.build)
    /\ run.kind = "build" /\ pc = "applying" => settled = NoBuild /\ WrittenSoFar(run.build)
    /\ settled # NoBuild => AllWritten(settled)

\* A launch has no plan.
Writing == run.kind # "launch"

PackInv ==
    /\ TypeOK
    /\ Writing
    /\ DiskFits
    /\ PlansFit
    /\ BuildKept
    /\ HandedOverSupported

LEMMA RunKinds ==
    /\ NoCommand.kind = "none" /\ NoCommand \notin Commands
    /\ \A cmd \in Commands :
        /\ cmd.kind \in {"build", "install", "launchable", "launch"}
        /\ cmd.kind = "build" => cmd.build \in Builds
        /\ cmd.kind = "install" => cmd.from \in Trees \cup {NoBuild}
    BY DEF NoCommand, Commands

\* While no command runs there is no plan.
LEMMA Resting ==
    ASSUME TypeOK, pc \notin {"planning", "applying"}
    PROVE  /\ run = NoCommand /\ run.kind = "none" /\ todo = <<>> /\ plan = <<>>
           /\ over = FALSE /\ forced = FALSE /\ fails = FALSE /\ listed = <<>> /\ touched = {}
<1>1. run = NoCommand
    BY DEF TypeOK
<1>2. command = <<NoCommand, <<>>, <<>>, FALSE, FALSE, FALSE, <<>>, {}>>
    BY <1>1 DEF TypeOK
<1> QED BY <1>1, <1>2, RunKinds DEF command

-----------------------------------------------------------------------------
(* The shapes of a step.                                                   *)

\* Nothing is written, and no command is in progress or it goes on as it was.
Quiet ==
    /\ UNCHANGED <<disk, run, todo, plan, over, forced, fails, listed, touched, settled, installed>>
    /\ pc' = pc \/ {pc, pc'} \subseteq {"idle", "running", "closed"}
    /\ game' \in [clean : BOOLEAN, reported : BOOLEAN] /\ exit' \in Exits /\ reports' \in BOOLEAN

\* A command goes on to look at the files it means to write.
Starts(cmd, files, jars) ==
    /\ pc = "idle"
    /\ Plans(cmd, files, jars)
    /\ cmd.kind # "launch"
    /\ PlanFits(cmd.kind, files)
    /\ cmd.kind = "build" => files = BuildFiles(cmd.build)
    /\ jars = IF cmd.kind = "install" THEN files ELSE <<>>
    /\ \A k, l \in 1..Len(files) :
        k # l /\ files[k].name = files[l].name => cmd.kind = "install"
    /\ cmd.kind = "launchable" /\ ~cmd.allowUnsupported => ~Exists(Marker)

LEMMA EndsIsQuiet ==
    ASSUME PackInv, NEW code \in Exits, Ends(code)
    PROVE  Quiet
    BY DEF PackInv, TypeOK, Ends, Quiet, command, launched

\* A pack that can be read lists pins.
LEMMA PackRead ==
    ASSUME DiskFits, CanRead
    PROVE  ReadPack \in Seq([slug : Slugs, pin : Pins])
<1>1. disk[Index] \in Seq(Slugs)
    BY NamesDiffer DEF CanRead, DiskFits, FileFits, Fits
<1>2. /\ Len(disk[Index]) \in Nat /\ DOMAIN disk[Index] = 1..Len(disk[Index])
      /\ \A i \in 1..Len(disk[Index]) : disk[Index][i] \in Slugs
    BY <1>1, SeqFacts
<1>3. \A i \in 1..Len(disk[Index]) : disk[Meta(disk[Index][i])] \in Pins
    BY <1>2 DEF CanRead
<1> DEFINE entry(i) == [slug |-> disk[Index][i], pin |-> disk[Meta(disk[Index][i])]]
<1>4. \A i \in 1..Len(disk[Index]) : entry(i) \in [slug : Slugs, pin : Pins]
    BY <1>2, <1>3
<1>5. ReadPack = [i \in 1..Len(disk[Index]) |-> entry(i)]
    BY <1>2 DEF ReadPack
<1> HIDE DEF entry
<1> QED BY <1>2, <1>4, <1>5

\* The jars of a pack are changes of an install.
LEMMA JarPlan ==
    ASSUME NEW mods \in Seq([slug : Slugs, pin : Pins])
    PROVE  /\ PlanFits("install", JarFiles(mods))
           /\ DOMAIN JarFiles(mods) = 1..Len(JarFiles(mods))
<1>1. /\ Len(mods) \in Nat /\ DOMAIN mods = 1..Len(mods)
      /\ \A i \in 1..Len(mods) : mods[i] \in [slug : Slugs, pin : Pins]
    BY SeqFacts
<1>2. \A i \in 1..Len(mods) : mods[i].pin \in Pins
    BY <1>1
<1> DEFINE jar(i) == Change(Jar(JarOf[mods[i].pin]), mods[i].pin)
<1>3. \A i \in 1..Len(mods) : /\ jar(i) \in AnyChange
                              /\ IsJar(jar(i).name) /\ jar(i).name # Prism
                              /\ Fits(jar(i).name, jar(i).data)
    <2> SUFFICES ASSUME NEW i \in 1..Len(mods)
                 PROVE  /\ jar(i) \in AnyChange
                        /\ IsJar(jar(i).name) /\ jar(i).name # Prism
                        /\ Fits(jar(i).name, jar(i).data)
        OBVIOUS
    <2>1. jar(i).name = Jar(JarOf[mods[i].pin]) /\ jar(i).data = mods[i].pin
        BY DEF Change
    <2>2. JarOf[mods[i].pin] \in Jars
        BY <1>2, NamesDiffer
    <2>3. jar(i).name \in Names /\ IsJar(jar(i).name) /\ jar(i).name # Prism
        BY <2>1, <2>2, NamesDiffer
    <2>4. Fits(jar(i).name, jar(i).data)
        BY <1>2, <2>1, <2>2, <2>3, NamesDiffer DEF Fits
    <2>5. jar(i) \in AnyChange
        BY <1>2, <2>1, <2>3 DEF Change, AnyChange
    <2> QED BY <2>3, <2>4, <2>5
<1>4. JarFiles(mods) = [i \in 1..Len(mods) |-> jar(i)]
    BY <1>1 DEF JarFiles
<1> HIDE DEF jar
<1>5. /\ JarFiles(mods) \in Seq(AnyChange) /\ Len(JarFiles(mods)) = Len(mods)
      /\ \A i \in 1..Len(mods) : JarFiles(mods)[i] = jar(i)
    BY <1>1, <1>3, <1>4
<1>6. "install" # "launchable"
    OBVIOUS
<1> QED BY <1>3, <1>4, <1>5, <1>6, SeqFacts DEF PlanFits

LEMMA PrismPlan == PlanFits("launchable", PrismFiles)
<1>1. Change(Prism, NoBuild) \in AnyChange
    BY NamesDiffer DEF AnyChange, Change
<1>2. Fits(Prism, NoBuild) /\ ~IsJar(Prism) /\ "launchable" # "install"
    BY NamesDiffer DEF Fits
<1>3. /\ PrismFiles \in Seq(AnyChange) /\ Len(PrismFiles) = 1
      /\ PrismFiles[1].name = Prism /\ PrismFiles[1].data = NoBuild
    BY <1>1 DEF PrismFiles, Change
<1> HIDE DEF PrismFiles
<1>4. \A k \in 1..Len(PrismFiles) : k = 1
    BY <1>3
<1> QED BY <1>2, <1>3, <1>4 DEF PlanFits

LEMMA CommandShapes ==
    ASSUME PackInv, NEW cmd \in Commands,
           \/ BuildRejected(cmd) \/ (\E allow \in BOOLEAN : Build(cmd, allow))
           \/ InstallUnreadable(cmd) \/ Install(cmd)
           \/ LaunchableRefused(cmd) \/ Launchable(cmd)
           \/ LaunchRefused(cmd) \/ Launch(cmd)
    PROVE  Quiet \/ \E files, jars : Starts(cmd, files, jars)
<1>1. \A code \in {"ok", "error", "blocked"} : Ends(code) => Quiet
    BY EndsIsQuiet DEF Exits
<1>2. CASE BuildRejected(cmd) \/ InstallUnreadable(cmd) \/ LaunchableRefused(cmd) \/ LaunchRefused(cmd)
    BY <1>1, <1>2 DEF BuildRejected, InstallUnreadable, LaunchableRefused, LaunchRefused
<1>3. CASE \E allow \in BOOLEAN : Build(cmd, allow)
    <2>1. cmd.kind = "build" /\ pc = "idle" /\ cmd.build \in Builds
        BY <1>3, RunKinds DEF Build
    <2>2. CASE Plans(cmd, BuildFiles(cmd.build), <<>>)
        <3>1. PlanFits("build", BuildFiles(cmd.build))
            BY <2>1, BuildPlan
        <3>2. \A k, l \in 1..Len(BuildFiles(cmd.build)) :
                k # l => BuildFiles(cmd.build)[k].name # BuildFiles(cmd.build)[l].name
            BY <2>1, BuildPlan
        <3> QED BY <2>1, <2>2, <3>1, <3>2 DEF Starts
    <2> QED BY <1>1, <1>3, <2>2 DEF Build
<1>4. CASE Install(cmd)
    <2> DEFINE mods == IF cmd.from = NoBuild THEN ReadPack ELSE ModsOf[cmd.from]
               files == JarFiles(mods)
    <2>1. /\ cmd.kind = "install" /\ pc = "idle" /\ (cmd.from = NoBuild => CanRead)
          /\ Plans(cmd, files, files)
        BY <1>4 DEF Install
    <2>2. mods \in Seq([slug : Slugs, pin : Pins])
        <3>1. CASE cmd.from = NoBuild
            BY <2>1, <3>1, PackRead DEF PackInv
        <3>2. CASE cmd.from # NoBuild
            <4>1. cmd.from \in Builds
                BY <2>1, <3>2, RunKinds, ConstantsAssumption DEF ConstantsAssumption
            <4>2. ModsOf \in [Builds -> Seq([slug : Slugs, pin : Pins])]
                BY ConstantsAssumption, Zenon DEF ConstantsAssumption
            <4>3. ModsOf[cmd.from] \in Seq([slug : Slugs, pin : Pins])
                BY <4>1, <4>2, Zenon
            <4> QED BY <3>2, <4>3
        <3> QED BY <3>1, <3>2
    <2> HIDE DEF mods
    <2>3. PlanFits("install", files) /\ DOMAIN files = 1..Len(files)
        BY <2>2, JarPlan
    <2> HIDE DEF files
    <2>4. Starts(cmd, files, files)
        BY <2>1, <2>3 DEF Starts
    <2> QED BY <2>4
<1>5. CASE Launchable(cmd)
    <2>1. cmd.kind = "launchable" /\ pc = "idle" /\ (Exists(Marker) => cmd.allowUnsupported)
        BY <1>5 DEF Launchable
    <2>2. CASE Plans(cmd, PrismFiles, <<>>)
        <3>1. \A k, l \in 1..Len(PrismFiles) : k = l
            BY DEF PrismFiles
        <3> QED BY <2>1, <2>2, <3>1, PrismPlan DEF Starts
    <2> QED BY <1>1, <1>5, <2>2 DEF Launchable
<1>6. CASE Launch(cmd)
    BY <1>6 DEF PackInv, TypeOK, Launch, Quiet, command, launched, Exits
<1> QED BY <1>2, <1>3, <1>4, <1>5, <1>6

LEMMA GameIsQuiet ==
    ASSUME PackInv, GameCloses \/ LaunchEnds \/ UNCHANGED vars
    PROVE  Quiet
<1>1. /\ exit \in Exits /\ reports \in BOOLEAN
      /\ game \in [clean : BOOLEAN, reported : BOOLEAN]
    BY DEF PackInv, TypeOK
<1>2. CASE GameCloses
    <2>1. /\ pc = "running" /\ pc' = "closed"
          /\ game' \in [clean : BOOLEAN, reported : BOOLEAN] /\ reports' = (reports \/ game'.reported)
          /\ UNCHANGED <<disk, command, exit, settled, installed>>
        BY <1>2 DEF GameCloses
    <2>2. reports' \in BOOLEAN
        BY <1>1, <2>1
    <2> QED BY <1>1, <2>1, <2>2 DEF Quiet, command
<1>3. CASE LaunchEnds
    <2>1. /\ pc = "closed" /\ pc' = "idle" /\ game' = Open /\ exit' \in {"ok", "error"}
          /\ UNCHANGED <<disk, command, reports, settled, installed>>
        BY <1>3 DEF LaunchEnds
    <2>2. game' \in [clean : BOOLEAN, reported : BOOLEAN] /\ exit' \in Exits
        BY <2>1 DEF Open, Exits
    <2> QED BY <1>1, <2>1, <2>2 DEF Quiet, command
<1>4. CASE UNCHANGED vars
    BY <1>1, <1>4 DEF Quiet, command, vars, launched
<1> QED BY <1>2, <1>3, <1>4

\* Every step is one of these.
LEMMA StepShapes ==
    ASSUME PackInv, [Next]_vars
    PROVE  \/ Quiet
           \/ \E cmd \in Commands : \E files, jars : Starts(cmd, files, jars)
           \/ Look \/ Skip \/ Fetch \/ DecidesNot
           \/ \E force \in BOOLEAN : Decides(force)
           \/ WriteNext \/ Applied \/ Die
           \/ \E n \in PlayerFiles : PlayerEdits(n)
<1>1. CASE \E cmd \in Commands :
            \/ BuildRejected(cmd) \/ (\E allow \in BOOLEAN : Build(cmd, allow))
            \/ InstallUnreadable(cmd) \/ Install(cmd)
            \/ LaunchableRefused(cmd) \/ Launchable(cmd)
            \/ LaunchRefused(cmd) \/ Launch(cmd)
    BY <1>1, CommandShapes
<1>2. CASE GameCloses \/ LaunchEnds \/ UNCHANGED vars
    BY <1>2, GameIsQuiet
<1> QED BY <1>1, <1>2 DEF Next

-----------------------------------------------------------------------------
(* Files.                                                                  *)

\* The part of the type invariant about files follows from what they may hold.
LEMMA DiskTyped ==
    ASSUME NEW d, \A n \in Names : FileFits(n, d[n])
    PROVE  /\ \A s \in Slugs : d[Meta(s)] \in Pins \cup {Absent, Torn, Foreign}
           /\ \A j \in Jars : d[Jar(j)] \in Pins \cup {Absent, Torn, Foreign}
           /\ \A n \in BuildNamed : d[n] \in Builds \cup {Absent, Torn, Foreign}
           /\ d[Prism] \in {NoBuild, Absent, Torn, Foreign}
           /\ d[Index] \in {Absent, Torn, Foreign} \/ d[Index] \in Seq(Slugs)
<1>1. \A s \in Slugs : d[Meta(s)] \in Pins \cup {Absent, Torn, Foreign}
    BY NamesDiffer DEF FileFits, Fits
<1>2. \A j \in Jars : d[Jar(j)] \in Pins \cup {Absent, Torn, Foreign}
    BY NamesDiffer DEF FileFits, Fits
<1>3. \A n \in BuildNamed : d[n] \in Builds \cup {Absent, Torn, Foreign}
    <2> SUFFICES ASSUME NEW n \in BuildNamed PROVE d[n] \in Builds \cup {Absent, Torn, Foreign}
        OBVIOUS
    <2>1. n \in Names
        BY NamesDiffer
    <2> QED BY <2>1 DEF FileFits, Fits
<1>4. d[Index] \in {Absent, Torn, Foreign} \/ d[Index] \in Seq(Slugs)
    BY NamesDiffer DEF FileFits, Fits
<1>5. d[Prism] \in {NoBuild, Absent, Torn, Foreign}
    BY NamesDiffer DEF FileFits, Fits
<1> QED BY <1>1, <1>2, <1>3, <1>4, <1>5

\* A pack that is wholly on disk reads back.
LEMMA WrittenReadsBack ==
    ASSUME NEW b \in Builds, AllWritten(b)
    PROVE  /\ CanRead /\ ReadPack = ModsOf[b]
           /\ disk[Pack] = b /\ disk[Profile] = b
           /\ b \in BlockedBuilds => Exists(Marker)
<1> DEFINE files == BuildFiles(b)
           mods == ModsOf[b]
           slugs == [k \in 1..Len(mods) |-> mods[k].slug]
<1>1. /\ mods \in Seq([slug : Slugs, pin : Pins])
      /\ Len(files) = Len(mods) + (IF b \in BlockedBuilds THEN 4 ELSE 3)
      /\ \A k \in 1..Len(mods) : files[k] = Change(Meta(mods[k].slug), mods[k].pin)
      /\ files[Len(mods) + 1] = Change(Index, slugs)
      /\ files[Len(mods) + 2] = Change(Pack, b)
      /\ files[Len(mods) + 3] = Change(Profile, b)
      /\ b \in BlockedBuilds => files[Len(mods) + 4] = Change(Marker, b)
    BY BuildPlan
<1>2. /\ Len(mods) \in Nat /\ DOMAIN mods = 1..Len(mods)
      /\ \A k \in 1..Len(mods) : mods[k] \in [slug : Slugs, pin : Pins]
    BY <1>1, SeqFacts
<1>3. \A k \in 1..Len(files) : disk[files[k].name] = files[k].data
    BY DEF AllWritten
<1> HIDE DEF files, mods
<1>4. \A n, v : Change(n, v).name = n /\ Change(n, v).data = v
    BY DEF Change
<1>5. disk[Index] = slugs /\ disk[Pack] = b /\ disk[Profile] = b
    <2>1. Len(mods) + 1 \in 1..Len(files) /\ Len(mods) + 2 \in 1..Len(files) /\ Len(mods) + 3 \in 1..Len(files)
        BY <1>1, <1>2
    <2> QED BY <1>1, <1>3, <1>4, <2>1
<1>6. b \in BlockedBuilds => disk[Marker] = b
    <2>1. b \in BlockedBuilds => Len(mods) + 4 \in 1..Len(files)
        BY <1>1, <1>2
    <2> QED BY <1>1, <1>3, <1>4, <2>1
<1>7. \A k \in 1..Len(mods) : disk[Meta(mods[k].slug)] = mods[k].pin
    <2>1. \A k \in 1..Len(mods) : k \in 1..Len(files)
        BY <1>1, <1>2
    <2> QED BY <1>1, <1>3, <1>4, <2>1
<1>8. \A k \in 1..Len(mods) : mods[k].slug \in Slugs /\ mods[k].pin \in Pins
    BY <1>2
<1>9. slugs \in Seq(Slugs) /\ DOMAIN slugs = 1..Len(mods)
    BY <1>2, <1>8
<1>10. CanRead
    <2>1. disk[Index] \notin {Absent, Torn, Foreign}
        BY <1>5, <1>9, ConstantsAssumption DEF ConstantsAssumption
    <2>2. \A i \in DOMAIN disk[Index] : disk[Meta(disk[Index][i])] \in Pins
        BY <1>5, <1>7, <1>8, <1>9
    <2> QED BY <1>5, <2>1, <2>2 DEF CanRead
<1>11. ReadPack = mods
    <2>1. ReadPack = [i \in 1..Len(mods) |-> [slug |-> mods[i].slug, pin |-> mods[i].pin]]
        BY <1>5, <1>7, <1>9 DEF ReadPack
    <2>2. \A i \in 1..Len(mods) : mods[i] = [slug |-> mods[i].slug, pin |-> mods[i].pin]
        BY <1>2
    <2>3. mods = [i \in 1..Len(mods) |-> mods[i]]
        BY <1>1, <1>2
    <2> QED BY <2>1, <2>2, <2>3
<1>12. b \in BlockedBuilds => Exists(Marker)
    BY <1>6, ConstantsAssumption DEF ConstantsAssumption, Exists
<1> QED BY <1>5, <1>10, <1>11, <1>12 DEF mods

\* A change of other files leaves what was built.
LEMMA OthersLeaveBuild ==
    ASSUME NEW b \in Builds, AllWritten(b), NEW n, DOMAIN disk = Names,
           \A m \in Names : m # n => disk'[m] = disk[m], n \notin FilesOf(b)
    PROVE  AllWritten(b)'
<1> DEFINE files == BuildFiles(b)
<1>1. /\ DOMAIN files = 1..Len(files)
      /\ \A k \in 1..Len(files) : files[k].name \in Names /\ files[k].name # n
    <2>1. files \in Seq(AnyChange)
        BY BuildPlan DEF PlanFits
    <2> HIDE DEF files
    <2>2. DOMAIN files = 1..Len(files) /\ \A k \in 1..Len(files) : files[k] \in AnyChange
        BY <2>1, SeqFacts
    <2>3. \A k \in 1..Len(files) : files[k].name \in Names
        BY <2>2 DEF AnyChange
    <2> QED BY <2>2, <2>3 DEF FilesOf, files
<1>2. \A k \in 1..Len(files) : disk[files[k].name] = files[k].data
    BY DEF AllWritten
<1> HIDE DEF files
<1>3. \A k \in 1..Len(files) : disk'[files[k].name] = files[k].data
    BY <1>1, <1>2
<1> QED BY <1>3 DEF AllWritten, files

\* Jars and the launcher's files are no files of a build.
LEMMA NotOfBuild ==
    ASSUME NEW b \in Builds, NEW n, IsJar(n) \/ n = Prism
    PROVE  n \notin FilesOf(b)
<1>1. /\ \A k \in 1..Len(BuildFiles(b)) :
            ~IsJar(BuildFiles(b)[k].name) /\ BuildFiles(b)[k].name # Prism
      /\ DOMAIN BuildFiles(b) = 1..Len(BuildFiles(b))
    BY BuildPlan, SeqFacts DEF PlanFits
<1> QED BY <1>1 DEF FilesOf

LEMMA FileWritten ==
    ASSUME DiskFits, NEW n \in Names, NEW v, FileFits(n, v), disk' = [disk EXCEPT ![n] = v]
    PROVE  DiskFits'
<1>1. DOMAIN disk' = Names /\ \A m \in Names : disk'[m] = IF m = n THEN v ELSE disk[m]
    BY DEF DiskFits
<1>2. \A m \in Names : FileFits(m, disk'[m])
    BY <1>1 DEF DiskFits
<1> HIDE DEF DiskFits
<1> QED BY <1>1, <1>2 DEF DiskFits

\* The next change of a plan, and the rest of it.
LEMMA NextChange ==
    ASSUME NEW kind, NEW s, PlanFits(kind, s), s # <<>>
    PROVE  /\ Len(s) \in Nat /\ 1 \in 1..Len(s) /\ Head(s) = s[1]
           /\ s[1].name \in Names /\ Fits(s[1].name, s[1].data)
           /\ kind = "install" <=> IsJar(s[1].name)
           /\ kind = "launchable" <=> s[1].name = Prism
           /\ Len(Tail(s)) = Len(s) - 1
           /\ \A k \in 1..Len(Tail(s)) : k + 1 \in 1..Len(s) /\ Tail(s)[k] = s[k + 1]
           /\ PlanFits(kind, Tail(s))
<1>1. s \in Seq(AnyChange)
    BY DEF PlanFits
<1>2. /\ Len(s) \in Nat /\ 1 \in 1..Len(s) /\ Head(s) = s[1]
      /\ Tail(s) \in Seq(AnyChange) /\ Len(Tail(s)) = Len(s) - 1
      /\ \A k \in 1..Len(Tail(s)) : k + 1 \in 1..Len(s) /\ Tail(s)[k] = s[k + 1]
    BY <1>1
<1>3. s[1] \in AnyChange
    BY <1>1, <1>2, SeqFacts
<1>4. s[1].name \in Names
    BY <1>3 DEF AnyChange
<1> QED BY <1>2, <1>4 DEF PlanFits

LEMMA EmptyPlan ==
    ASSUME NEW kind
    PROVE  PlanFits(kind, <<>>)
    BY DEF PlanFits

\* A plan with one change more.
LEMMA LongerPlan ==
    ASSUME NEW kind, NEW s, PlanFits(kind, s), s # <<>>, NEW p, PlanFits(kind, p)
    PROVE  /\ PlanFits(kind, Append(p, Head(s)))
           /\ Len(Append(p, Head(s))) = Len(p) + 1 /\ Len(p) \in Nat
           /\ \A k \in 1..Len(p) : Append(p, Head(s))[k] = p[k]
           /\ Append(p, Head(s))[Len(p) + 1] = Head(s)
<1>1. /\ Head(s) = s[1] /\ 1 \in 1..Len(s) /\ s \in Seq(AnyChange) /\ p \in Seq(AnyChange)
      /\ kind = "install" <=> IsJar(s[1].name)
      /\ kind = "launchable" <=> s[1].name = Prism
      /\ Fits(s[1].name, s[1].data)
    BY NextChange DEF PlanFits
<1>2. s[1] \in AnyChange
    BY <1>1, SeqFacts
<1> DEFINE q == Append(p, s[1])
<1>3. /\ q \in Seq(AnyChange) /\ Len(q) = Len(p) + 1 /\ Len(p) \in Nat
      /\ \A k \in 1..Len(p) : q[k] = p[k]
      /\ q[Len(p) + 1] = s[1]
    BY <1>1, <1>2
<1> HIDE DEF q
<1>4. \A k \in 1..Len(q) : k \in 1..Len(p) \/ k = Len(p) + 1
    BY <1>3
<1>5. \A k \in 1..Len(q) :
        /\ Fits(q[k].name, q[k].data)
        /\ kind = "install" <=> IsJar(q[k].name)
        /\ kind = "launchable" <=> q[k].name = Prism
    BY <1>1, <1>3, <1>4 DEF PlanFits
<1>6. PlanFits(kind, q)
    BY <1>3, <1>5 DEF PlanFits
<1> QED BY <1>1, <1>3, <1>6 DEF q

\* A write cut short leaves what a file may hold.
LEMMA CutFits ==
    ASSUME NEW c, c.name \in Names, Fits(c.name, c.data), NEW v \in Cut(c)
    PROVE  FileFits(c.name, v)
<1>1. CASE v = Torn
    BY <1>1 DEF FileFits
<1>2. CASE c.name = Index /\ \E n \in 0..Len(c.data) : v = SubSeq(c.data, 1, n)
    <2>1. PICK n \in 0..Len(c.data) : v = SubSeq(c.data, 1, n)
        BY <1>2
    <2>2. c.data \in Seq(Slugs)
        BY <1>2 DEF Fits
    <2>3. Len(c.data) \in Nat /\ DOMAIN c.data = 1..Len(c.data)
        BY <2>2
    <2>4. v \in Seq(Slugs)
        BY <2>1, <2>2, <2>3
    <2> QED BY <1>2, <2>4, NamesDiffer DEF FileFits, Fits
<1> QED BY <1>1, <1>2 DEF Cut

-----------------------------------------------------------------------------
(* PackInv, step by step.                                                  *)

LEMMA QuietKeepsInv ==
    ASSUME PackInv, Quiet
    PROVE  PackInv'
<1>1. /\ UNCHANGED <<disk, run, todo, plan, over, forced, fails, listed, touched, settled, installed>>
      /\ game' \in [clean : BOOLEAN, reported : BOOLEAN] /\ exit' \in Exits /\ reports' \in BOOLEAN
    BY DEF Quiet
<1>2. /\ pc' \in {"idle", "planning", "applying", "running", "closed"}
      /\ pc' \in {"planning", "applying"} <=> run # NoCommand
      /\ plan # <<>> => pc' = "planning"
      /\ pc \in {"planning", "applying"} => pc' = pc
    BY DEF PackInv, TypeOK, Quiet
<1>3. TypeOK'
    BY <1>1, <1>2 DEF PackInv, TypeOK, command
<1>4. DiskFits' /\ PlansFit' /\ Writing' /\ HandedOverSupported'
    BY <1>1 DEF PackInv, DiskFits, PlansFit, Writing, HandedOverSupported
<1>5. BuildKept'
    <2>1. run.kind = "build" => pc' = pc
        BY <1>2, RunKinds DEF PackInv, TypeOK
    <2>2. settled # NoBuild => AllWritten(settled)'
        BY <1>1 DEF PackInv, BuildKept, AllWritten
    <2>3. run.kind = "build" /\ pc = "applying" => WrittenSoFar(run.build)'
        BY <1>1 DEF PackInv, BuildKept, WrittenSoFar
    <2> QED BY <1>1, <2>1, <2>2, <2>3 DEF PackInv, BuildKept
<1> QED BY <1>3, <1>4, <1>5 DEF PackInv

LEMMA ChangeOf ==
    ASSUME NEW c \in AnyChange, NEW A, NEW B, c.name \in A, c.data \in B
    PROVE  c \in [name : A, data : B]
    BY DEF AnyChange

LEMMA StartKeepsInv ==
    ASSUME PackInv, NEW cmd \in Commands, NEW files, NEW jars, Starts(cmd, files, jars)
    PROVE  PackInv'
<1>1. /\ pc' = "planning" /\ run' = cmd /\ todo' = files /\ listed' = jars /\ exit' = "none"
      /\ UNCHANGED <<disk, plan, over, forced, fails, touched, reports, game, settled, installed>>
    BY DEF Starts, Plans, launched
<1>2. plan = <<>>
    BY Resting DEF PackInv, Starts
<1>3. jars \in Seq(JarChanges)
    <2>1. CASE cmd.kind # "install"
        BY <2>1 DEF Starts
    <2>2. CASE cmd.kind = "install"
        <3>1. PlanFits("install", files) /\ jars = files
            BY <2>2 DEF Starts
        <3>2. \A k \in 1..Len(files) : files[k] \in AnyChange
            BY <3>1, SeqFacts DEF PlanFits
        <3>3. \A k \in 1..Len(files) : IsJar(files[k].name) /\ files[k].data \in Pins
            BY <3>1 DEF PlanFits, Fits
        <3>4. \A k \in 1..Len(files) : files[k].name \in {Jar(j) : j \in Jars}
            BY <3>3 DEF IsJar
        <3>5. \A k \in 1..Len(files) : files[k] \in JarChanges
            BY <3>2, <3>3, <3>4, ChangeOf, Zenon DEF JarChanges
        <3>6. files \in Seq(AnyChange)
            BY <3>1 DEF PlanFits
        <3> QED BY <3>1, <3>5, <3>6
    <2> QED BY <2>1, <2>2
<1>4. TypeOK'
    BY <1>1, <1>2, <1>3, RunKinds DEF PackInv, TypeOK, Exits
<1>5. DiskFits' /\ PlansFit' /\ Writing'
    BY <1>1, <1>2, EmptyPlan DEF PackInv, DiskFits, PlansFit, Writing, Starts
<1>6. BuildKept'
    <2>1. settled # NoBuild => AllWritten(settled)'
        BY <1>1 DEF PackInv, BuildKept, AllWritten
    <2> QED BY <1>1, <1>2, <2>1 DEF BuildKept, Starts
<1>7. HandedOverSupported'
    <2>1. settled \in BlockedBuilds => settled \in Builds /\ settled # NoBuild
        BY ConstantsAssumption DEF ConstantsAssumption
    <2>2. settled \in BlockedBuilds => Exists(Marker)
        BY <2>1, WrittenReadsBack DEF PackInv, BuildKept
    <2> QED BY <1>1, <2>2 DEF HandedOverSupported, Starts
<1> QED BY <1>4, <1>5, <1>6, <1>7 DEF PackInv

\* Every build has files.
LEMMA BuildNotEmpty ==
    ASSUME NEW b \in Builds
    PROVE  /\ BuildFiles(b) # <<>>
           /\ BuildFiles(b) \in Seq(AnyChange) /\ Len(BuildFiles(b)) \in Nat
<1> DEFINE files == BuildFiles(b)
           M == Len(ModsOf[b])
<1>1. files \in Seq(AnyChange) /\ ModsOf[b] \in Seq([slug : Slugs, pin : Pins])
    BY BuildPlan DEF PlanFits
<1>2. M \in Nat
    BY <1>1, SeqFacts
<1>3. Len(files) = M + 3 \/ Len(files) = M + 4
    BY BuildPlan
<1> HIDE DEF files, M
<1>4. Len(files) \in Nat /\ Len(files) # 0
    BY <1>2, <1>3
<1>5. files # <<>>
    BY <1>1, <1>4
<1> QED BY <1>1, <1>4, <1>5 DEF files

\* The build that runs has files to look at.
LEMMA BuildHasFiles ==
    ASSUME PackInv, run.kind = "build"
    PROVE  /\ run \in Commands /\ run.build \in Builds
           /\ BuildFiles(run.build) # <<>>
           /\ BuildFiles(run.build) \in Seq(AnyChange) /\ Len(BuildFiles(run.build)) \in Nat
<1>1. run \in Commands /\ run.build \in Builds
    BY RunKinds DEF PackInv, TypeOK
<1> QED BY <1>1, BuildNotEmpty

\* Looking at files changes the plan only.
LEMMA LookKeepsInv ==
    ASSUME PackInv, Look \/ Skip \/ Fetch
    PROVE  PackInv'
<1>1. /\ pc = "planning" /\ todo # <<>>
      /\ UNCHANGED <<disk, pc, run, forced, listed, touched, exit, reports, game, settled, installed>>
    BY DEF Look, Skip, Fetch, Looked, launched
<1>2. PlansFit /\ run # NoCommand /\ over \in BOOLEAN /\ fails \in BOOLEAN
    BY <1>1 DEF PackInv, TypeOK
<1>3. PlansFit' /\ over' \in BOOLEAN /\ fails' \in BOOLEAN
    <2>1. CASE Look
        <3>1. todo' = <<>> /\ plan' = todo /\ fails' = fails
              /\ over' = (\E i \in DOMAIN todo : Replaces(todo[i]))
            BY <2>1 DEF Look
        <3>2. over' \in BOOLEAN
            BY <3>1
        <3> QED BY <1>1, <1>2, <3>1, <3>2, EmptyPlan DEF PlansFit
    <2>2. CASE Skip \/ Fetch
        <3>1. /\ todo' = Tail(todo) /\ plan' \in {plan, Append(plan, Head(todo))}
              /\ fails' \in {fails, TRUE} /\ over' \in BOOLEAN
            BY <1>2, <2>2 DEF Skip, Fetch, Looked
        <3>2. PlanFits(run.kind, Tail(todo)) /\ PlanFits(run.kind, Append(plan, Head(todo)))
            BY <1>1, <1>2, NextChange, LongerPlan DEF PlansFit
        <3> QED BY <1>1, <1>2, <3>1, <3>2 DEF PlansFit
    <2> QED BY <2>1, <2>2
<1>4. TypeOK'
    BY <1>1, <1>2, <1>3 DEF PackInv, TypeOK, PlansFit
<1>5. DiskFits' /\ Writing' /\ HandedOverSupported'
    BY <1>1 DEF PackInv, DiskFits, Writing, HandedOverSupported
<1>6. BuildKept'
    <2>1. settled # NoBuild => AllWritten(settled)'
        BY <1>1 DEF PackInv, BuildKept, AllWritten
    <2>2. run.kind = "build" => todo' = <<>> /\ plan' = BuildFiles(run.build)
        <3> SUFFICES ASSUME run.kind = "build"
                     PROVE  todo' = <<>> /\ plan' = BuildFiles(run.build)
            OBVIOUS
        <3>1. Look
            BY DEF Skip, Fetch, Looked
        <3>2. todo = BuildFiles(run.build)
            BY <1>1 DEF PackInv, BuildKept
        <3> QED BY <3>1, <3>2 DEF Look
    <2> QED BY <1>1, <2>1, <2>2 DEF BuildKept
<1> QED BY <1>3, <1>4, <1>5, <1>6 DEF PackInv

\* A command that ends leaves nothing in progress.
LEMMA DoneKeepsInv ==
    ASSUME PackInv, Done, DiskFits', UNCHANGED <<reports, game>>, exit' \in Exits,
           settled' \in Builds \cup {NoBuild}, settled' # NoBuild => AllWritten(settled)',
           installed' \subseteq JarChanges
    PROVE  PackInv'
<1>1. /\ pc' = "idle" /\ run' = NoCommand /\ todo' = <<>> /\ plan' = <<>>
      /\ over' = FALSE /\ forced' = FALSE /\ fails' = FALSE /\ listed' = <<>> /\ touched' = {}
    BY DEF Done
<1>2. run'.kind = "none"
    BY <1>1, RunKinds
<1>3. command' = <<NoCommand, <<>>, <<>>, FALSE, FALSE, FALSE, <<>>, {}>>
    BY <1>1 DEF command
<1>4. TypeOK'
    BY <1>1, <1>3, DiskTyped, EmptySequence DEF PackInv, TypeOK, DiskFits
<1>5. PlansFit' /\ Writing' /\ HandedOverSupported' /\ BuildKept'
    BY <1>1, <1>2, EmptyPlan DEF PlansFit, Writing, HandedOverSupported, BuildKept
<1> QED BY <1>4, <1>5 DEF PackInv

LEMMA DecidesNotKeepsInv ==
    ASSUME PackInv, DecidesNot
    PROVE  PackInv'
<1>1. Done /\ UNCHANGED <<disk, reports, game, settled, installed>> /\ exit' \in {"ok", "error"}
    BY DEF DecidesNot, launched
<1>2. DiskFits' /\ (settled' # NoBuild => AllWritten(settled)')
    BY <1>1 DEF PackInv, DiskFits, BuildKept, AllWritten
<1> QED BY <1>1, <1>2, DoneKeepsInv DEF PackInv, TypeOK, Exits

LEMMA DecidesKeepsInv ==
    ASSUME PackInv, NEW force \in BOOLEAN, Decides(force)
    PROVE  PackInv'
<1>1. /\ pc = "planning" /\ todo = <<>>
      /\ pc' = "applying" /\ todo' = plan /\ plan' = <<>> /\ forced' = force
      /\ settled' = IF run.kind = "build" THEN NoBuild ELSE settled
      /\ installed' = IF run.kind = "install" THEN {} ELSE installed
      /\ UNCHANGED <<disk, run, over, fails, listed, touched, exit, reports, game>>
    BY DEF Decides, launched
<1>2. run # NoCommand
    BY <1>1 DEF PackInv, TypeOK
<1>3. TypeOK'
    BY <1>1, <1>2 DEF PackInv, TypeOK
<1>4. DiskFits' /\ PlansFit' /\ Writing'
    BY <1>1, EmptyPlan DEF PackInv, DiskFits, PlansFit, Writing
<1>5. HandedOverSupported'
    BY <1>1 DEF PackInv, HandedOverSupported
<1>6. BuildKept'
    <2>1. settled' # NoBuild => AllWritten(settled)'
        BY <1>1 DEF PackInv, BuildKept, AllWritten
    <2>2. run.kind = "build" => settled' = NoBuild /\ WrittenSoFar(run.build)'
        <3> SUFFICES ASSUME run.kind = "build"
                     PROVE  settled' = NoBuild /\ WrittenSoFar(run.build)'
            OBVIOUS
        <3> DEFINE files == BuildFiles(run.build)
        <3>1. todo' = files
            BY <1>1, BuildHasFiles DEF PackInv, BuildKept
        <3>2. Len(files) \in Nat
            BY BuildHasFiles
        <3> HIDE DEF files
        <3>3. Len(files) - Len(todo') = 0
            BY <3>1, <3>2
        <3>4. \A k \in 1..Len(todo') : todo'[k] = files[0 + k]
            BY <3>1, <3>2
        <3>5. WrittenSoFar(run.build)'
            BY <1>1, <3>3, <3>4 DEF WrittenSoFar, files
        <3> QED BY <1>1, <3>5
    <2> QED BY <1>1, <2>1, <2>2 DEF BuildKept
<1> QED BY <1>3, <1>4, <1>5, <1>6 DEF PackInv

LEMMA WriteKeepsInv ==
    ASSUME PackInv, WriteNext
    PROVE  PackInv'
<1>1. /\ pc = "applying" /\ todo # <<>>
      /\ disk' = [disk EXCEPT ![Head(todo).name] = Head(todo).data] /\ todo' = Tail(todo)
      /\ touched' = touched \ {Head(todo).name}
      /\ UNCHANGED <<pc, run, plan, over, forced, fails, listed, exit, reports, game, settled,
                     installed>>
    BY DEF WriteNext, launched
<1>2. /\ PlanFits(run.kind, todo) /\ PlanFits(run.kind, plan) /\ DiskFits /\ plan = <<>>
      /\ run \in Commands /\ run # NoCommand
    BY <1>1 DEF PackInv, PlansFit, TypeOK
<1>3. /\ Len(todo) \in Nat /\ 1 \in 1..Len(todo) /\ Head(todo) = todo[1]
      /\ todo[1].name \in Names /\ Fits(todo[1].name, todo[1].data)
      /\ run.kind = "install" <=> IsJar(todo[1].name)
      /\ run.kind = "launchable" <=> todo[1].name = Prism
      /\ Len(Tail(todo)) = Len(todo) - 1
      /\ \A k \in 1..Len(Tail(todo)) : k + 1 \in 1..Len(todo) /\ Tail(todo)[k] = todo[k + 1]
      /\ PlanFits(run.kind, Tail(todo))
    BY <1>1, <1>2, NextChange
<1>4. disk' = [disk EXCEPT ![todo[1].name] = todo[1].data]
    BY <1>1, <1>3
<1>5. DiskFits'
    <2>1. FileFits(todo[1].name, todo[1].data)
        BY <1>3 DEF FileFits
    <2> QED BY <1>2, <1>3, <1>4, <2>1, FileWritten
<1>6. /\ \A n \in Names : n # todo[1].name => disk'[n] = disk[n]
      /\ disk'[todo[1].name] = todo[1].data
    BY <1>2, <1>3, <1>4 DEF DiskFits
<1>7. TypeOK'
    BY <1>1, <1>2, <1>5, DiskTyped DEF PackInv, TypeOK, DiskFits
<1>8. PlansFit' /\ Writing' /\ HandedOverSupported'
    BY <1>1, <1>2, <1>3 DEF PackInv, PlansFit, Writing, HandedOverSupported
<1>9. CASE run.kind = "build"
    <2> DEFINE files == BuildFiles(run.build)
               n == Len(files) - Len(todo)
    <2>1. run.build \in Builds /\ Len(files) \in Nat
        BY <1>9, BuildHasFiles
    <2>2. /\ \A k, l \in 1..Len(files) : k # l => files[k].name # files[l].name
          /\ files \in Seq(AnyChange)
        BY <2>1, BuildPlan DEF PlanFits
    <2>3. \A k \in 1..Len(files) : files[k] \in AnyChange
        BY <2>2, SeqFacts, Zenon
    <2>4. \A k \in 1..Len(files) : files[k].name \in Names
        BY <2>3 DEF AnyChange
    <2>5. /\ n \in Nat
          /\ \A k \in 1..n : disk[files[k].name] = files[k].data \/ files[k].name \in touched
          /\ \A k \in 1..Len(todo) : todo[k] = files[n + k]
          /\ settled = NoBuild
        BY <1>1, <1>9 DEF PackInv, BuildKept, WrittenSoFar
    <2> HIDE DEF files
    <2>6. n + 1 \in 1..Len(files) /\ todo[1] = files[n + 1]
        BY <1>3, <2>1, <2>5
    <2>7. n + 1 <= Len(files)
        BY <2>1, <2>5, <2>6
    <2>8. Len(files) - Len(todo') = n + 1
        BY <1>1, <1>3, <2>1
    <2>9. \A k \in 1..Len(todo') : todo'[k] = files[(n + 1) + k]
        <3> SUFFICES ASSUME NEW k \in 1..Len(todo') PROVE todo'[k] = files[(n + 1) + k]
            OBVIOUS
        <3>1. k + 1 \in 1..Len(todo) /\ todo'[k] = todo[k + 1]
            BY <1>1, <1>3
        <3>2. todo[k + 1] = files[n + (k + 1)]
            BY <2>5, <3>1
        <3>3. n + (k + 1) = (n + 1) + k
            BY <2>5
        <3> QED BY <3>1, <3>2, <3>3
    <2> HIDE DEF n
    <2>10. \A k \in 1..(n + 1) : disk'[files[k].name] = files[k].data \/ files[k].name \in touched'
        <3> SUFFICES ASSUME NEW k \in 1..(n + 1)
                     PROVE  disk'[files[k].name] = files[k].data \/ files[k].name \in touched'
            OBVIOUS
        <3>1. CASE k = n + 1
            BY <1>6, <2>6, <3>1
        <3>2. CASE k # n + 1
            <4>1. k \in 1..n /\ k \in 1..Len(files)
                BY <2>1, <2>5, <2>7, <3>2
            <4>2. files[k].name # todo[1].name
                BY <2>2, <2>6, <3>2, <4>1
            <4> QED BY <1>1, <1>3, <1>6, <2>4, <2>5, <4>1, <4>2
        <3> QED BY <3>1, <3>2
    <2>11. n + 1 \in Nat
        BY <2>5
    <2>12. WrittenSoFar(run.build)'
        BY <1>1, <2>8, <2>9, <2>10, <2>11 DEF WrittenSoFar, files
    <2>13. BuildKept'
        BY <1>1, <2>5, <2>12 DEF BuildKept
    <2> QED BY <1>5, <1>7, <1>8, <2>13 DEF PackInv
<1>10. CASE run.kind # "build"
    <2>1. IsJar(todo[1].name) \/ todo[1].name = Prism
        BY <1>2, <1>3, <1>10, RunKinds DEF PackInv, Writing
    <2>2. settled # NoBuild => settled \in Builds /\ AllWritten(settled)
        BY DEF PackInv, TypeOK, BuildKept
    <2>3. settled # NoBuild => AllWritten(settled)'
        <3>1. \A b \in Builds : AllWritten(b) => AllWritten(b)'
            BY <1>2, <1>6, <2>1, NotOfBuild, OthersLeaveBuild DEF DiskFits
        <3> QED BY <1>1, <2>2, <3>1 DEF AllWritten
    <2>4. BuildKept'
        BY <1>1, <1>10, <2>3 DEF BuildKept
    <2> QED BY <1>5, <1>7, <1>8, <2>4 DEF PackInv
<1> QED BY <1>9, <1>10

\* At the end of its plan a build is on disk.
LEMMA AppliedKeepsInv ==
    ASSUME PackInv, Applied
    PROVE  PackInv'
<1>1. /\ pc = "applying" /\ todo = <<>> /\ Done
      /\ exit' = IF fails THEN "error" ELSE "ok"
      /\ settled' = IF Settles THEN run.build ELSE settled
      /\ installed' = IF run.kind = "install" /\ ~fails
                      THEN Provided ELSE installed
      /\ UNCHANGED <<disk, reports, game>>
    BY DEF Applied, launched
<1>2. DiskFits' /\ exit' \in Exits
    BY <1>1 DEF PackInv, DiskFits, Exits
<1>3. installed' \subseteq JarChanges
    <2>1. Range(listed) \subseteq JarChanges
        BY SeqFacts DEF PackInv, TypeOK, Range
    <2> QED BY <1>1, <2>1 DEF PackInv, TypeOK, Provided
<1>4. CASE Settles
    <2>1. run.kind = "build" /\ touched \cap FilesOf(run.build) = {}
        BY <1>4 DEF Settles
    <2> DEFINE files == BuildFiles(run.build)
    <2>2. run.build \in Builds /\ files \in Seq(AnyChange) /\ Len(files) \in Nat
        BY <2>1, BuildHasFiles
    <2>3. \A k \in 1..Len(files) : disk[files[k].name] = files[k].data \/ files[k].name \in touched
        BY <1>1, <2>1, <2>2 DEF PackInv, BuildKept, WrittenSoFar
    <2>4. \A k \in 1..Len(files) : files[k].name \in FilesOf(run.build)
        BY <2>2, SeqFacts DEF FilesOf
    <2>5. AllWritten(run.build)
        BY <2>1, <2>3, <2>4 DEF AllWritten
    <2>6. AllWritten(settled)'
        BY <1>1, <1>4, <2>5 DEF AllWritten
    <2> QED BY <1>1, <1>2, <1>3, <1>4, <2>2, <2>6, DoneKeepsInv
<1>5. CASE ~Settles
    <2>1. settled' # NoBuild => AllWritten(settled)'
        BY <1>1, <1>5 DEF PackInv, BuildKept, AllWritten
    <2> QED BY <1>1, <1>2, <1>3, <1>5, <2>1, DoneKeepsInv DEF PackInv, TypeOK
<1> QED BY <1>4, <1>5

\* What a command that dies leaves on disk.
LEMMA DeathFits ==
    ASSUME PackInv, Die
    PROVE  \/ UNCHANGED disk
           \/ /\ pc = "applying" /\ todo # <<>> /\ todo[1].name \in Names
              /\ run.kind = "install" <=> IsJar(todo[1].name)
              /\ run.kind = "launchable" <=> todo[1].name = Prism
              /\ \A n \in Names : n # todo[1].name => disk'[n] = disk[n]
              /\ DiskFits'
<1> SUFFICES ASSUME disk' # disk
             PROVE  /\ pc = "applying" /\ todo # <<>> /\ todo[1].name \in Names
                    /\ run.kind = "install" <=> IsJar(todo[1].name)
                    /\ run.kind = "launchable" <=> todo[1].name = Prism
                    /\ \A n \in Names : n # todo[1].name => disk'[n] = disk[n]
                    /\ DiskFits'
    OBVIOUS
<1>1. /\ pc = "applying" /\ todo # <<>>
      /\ \E v \in Cut(Head(todo)) : disk' = [disk EXCEPT ![Head(todo).name] = v]
    BY DEF Die
<1>2. PICK v \in Cut(Head(todo)) : disk' = [disk EXCEPT ![Head(todo).name] = v]
    BY <1>1
<1>3. PlanFits(run.kind, todo) /\ DiskFits
    BY DEF PackInv, PlansFit
<1>4. /\ Head(todo) = todo[1]
      /\ todo[1].name \in Names /\ Fits(todo[1].name, todo[1].data)
      /\ run.kind = "install" <=> IsJar(todo[1].name)
      /\ run.kind = "launchable" <=> todo[1].name = Prism
    BY <1>1, <1>3, NextChange
<1>5. FileFits(todo[1].name, v)
    BY <1>2, <1>4, CutFits
<1>6. disk' = [disk EXCEPT ![todo[1].name] = v]
    BY <1>2, <1>4
<1>7. DiskFits'
    BY <1>3, <1>4, <1>5, <1>6, FileWritten
<1>8. \A n \in Names : n # todo[1].name => disk'[n] = disk[n]
    BY <1>3, <1>4, <1>6 DEF DiskFits
<1> QED BY <1>1, <1>4, <1>7, <1>8

LEMMA DieKeepsInv ==
    ASSUME PackInv, Die
    PROVE  PackInv'
<1>1. Done /\ exit' = "none" /\ UNCHANGED <<reports, game, settled, installed>>
    BY DEF Die, launched
<1>2. /\ settled \in Builds \cup {NoBuild} /\ DiskFits /\ Writing
      /\ settled # NoBuild => AllWritten(settled)
      /\ pc = "applying" => run \in Commands
      /\ pc = "applying" /\ run.kind = "build" => settled = NoBuild
    BY DEF PackInv, TypeOK, BuildKept
<1>3. CASE UNCHANGED disk
    <2>1. DiskFits' /\ (settled' # NoBuild => AllWritten(settled)')
        BY <1>1, <1>2, <1>3 DEF DiskFits, AllWritten
    <2> QED BY <1>1, <2>1, DoneKeepsInv DEF PackInv, TypeOK, Exits
<1>4. CASE disk' # disk
    <2>1. /\ pc = "applying" /\ todo[1].name \in Names
          /\ run.kind = "install" <=> IsJar(todo[1].name)
          /\ run.kind = "launchable" <=> todo[1].name = Prism
          /\ \A n \in Names : n # todo[1].name => disk'[n] = disk[n]
          /\ DiskFits'
        BY <1>4, DeathFits
    <2>2. settled # NoBuild => IsJar(todo[1].name) \/ todo[1].name = Prism
        BY <1>2, <2>1, RunKinds DEF Writing
    <2>3. settled # NoBuild => AllWritten(settled)'
        <3>1. \A b \in Builds : settled # NoBuild /\ AllWritten(b) => AllWritten(b)'
            BY <1>2, <2>1, <2>2, NotOfBuild, OthersLeaveBuild DEF DiskFits
        <3> QED BY <1>1, <1>2, <3>1 DEF AllWritten
    <2> QED BY <1>1, <2>1, <2>3, DoneKeepsInv DEF PackInv, TypeOK, Exits
<1> QED BY <1>3, <1>4

LEMMA PlayerKeepsInv ==
    ASSUME PackInv, NEW n \in PlayerFiles, PlayerEdits(n)
    PROVE  PackInv'
<1>1. PICK v \in {Absent, Foreign} : disk' = [disk EXCEPT ![n] = v]
    BY DEF PlayerEdits
<1>2. /\ touched' = IF Seen(n) THEN touched \cup {n} ELSE touched
      /\ settled' = IF settled # NoBuild /\ n \in FilesOf(settled) THEN NoBuild ELSE settled
      /\ installed' = {c \in installed : c.name # n}
      /\ UNCHANGED <<pc, run, todo, plan, over, forced, fails, listed, exit, reports, game>>
    BY DEF PlayerEdits, launched
<1>3. DiskFits /\ n \in Names
    BY ConstantsAssumption DEF PackInv, ConstantsAssumption
<1>4. FileFits(n, v)
    BY DEF FileFits
<1>5. DiskFits' /\ \A m \in Names : m # n => disk'[m] = disk[m]
    BY <1>1, <1>3, <1>4, FileWritten DEF DiskFits
<1>6. run = NoCommand => touched' = touched
    BY <1>2 DEF PackInv, TypeOK, Seen
<1>7. TypeOK'
    BY <1>2, <1>5, <1>6, DiskTyped DEF PackInv, TypeOK, DiskFits, command
<1>8. PlansFit' /\ Writing'
    BY <1>2 DEF PackInv, PlansFit, Writing
<1>9. HandedOverSupported'
    BY <1>2, ConstantsAssumption DEF PackInv, HandedOverSupported, ConstantsAssumption
<1>10. settled' # NoBuild => AllWritten(settled)'
    <2>1. settled' # NoBuild =>
            settled' = settled /\ settled \in Builds /\ AllWritten(settled) /\ n \notin FilesOf(settled)
        BY <1>2 DEF PackInv, TypeOK, BuildKept
    <2>2. settled' # NoBuild => AllWritten(settled)'
        <3> SUFFICES ASSUME settled' # NoBuild PROVE AllWritten(settled)'
            OBVIOUS
        <3>1. \A b \in Builds : AllWritten(b) /\ n \notin FilesOf(b) => AllWritten(b)'
            BY <1>3, <1>5, OthersLeaveBuild DEF DiskFits
        <3> QED BY <2>1, <3>1 DEF AllWritten
    <2> QED BY <2>2
<1>11. run.kind = "build" /\ pc = "applying" => settled' = NoBuild /\ WrittenSoFar(run.build)'
    <2> SUFFICES ASSUME run.kind = "build", pc = "applying"
                 PROVE  settled' = NoBuild /\ WrittenSoFar(run.build)'
        OBVIOUS
    <2> DEFINE files == BuildFiles(run.build)
               m == Len(files) - Len(todo)
    <2>1. /\ m \in Nat /\ settled = NoBuild
          /\ \A k \in 1..m : disk[files[k].name] = files[k].data \/ files[k].name \in touched
          /\ \A k \in 1..Len(todo) : todo[k] = files[m + k]
        BY DEF PackInv, BuildKept, WrittenSoFar
    <2>2. Len(files) \in Nat /\ files \in Seq(AnyChange) /\ Len(todo) \in Nat
        BY BuildHasFiles DEF PackInv, PlansFit, PlanFits
    <2>3. \A k \in 1..Len(files) : files[k].name \in Names
        <3>1. \A k \in 1..Len(files) : files[k] \in AnyChange
            BY <2>2, SeqFacts, Zenon
        <3> QED BY <3>1 DEF AnyChange
    <2> HIDE DEF files
    <2>4. m <= Len(files)
        BY <2>1, <2>2
    <2>5. touched' = touched \cup {n}
        BY <1>2 DEF Seen
    <2> HIDE DEF m
    <2>6. \A k \in 1..m : disk'[files[k].name] = files[k].data \/ files[k].name \in touched'
        BY <1>5, <2>1, <2>2, <2>3, <2>4, <2>5
    <2>7. WrittenSoFar(run.build)'
        BY <1>2, <2>1, <2>6 DEF WrittenSoFar, files, m
    <2> QED BY <1>2, <2>1, <2>7
<1>12. BuildKept'
    BY <1>2, <1>10, <1>11 DEF PackInv, BuildKept
<1> QED BY <1>5, <1>7, <1>8, <1>9, <1>12 DEF PackInv

LEMMA InitPackInv == Init => PackInv
<1> SUFFICES ASSUME Init PROVE PackInv
    OBVIOUS
<1>1. DOMAIN disk = Names /\ \A n \in Names : disk[n] \in {Absent, Foreign}
    BY DEF Init
<1>2. DiskFits
    BY <1>1 DEF DiskFits, FileFits
<1>3. run.kind = "none" /\ run = NoCommand
    BY RunKinds DEF Init
<1>4. TypeOK
    BY <1>2, DiskTyped, EmptySequence DEF Init, TypeOK, DiskFits, Open, Exits, command
<1>5. PlansFit
    BY EmptyPlan DEF Init, PlansFit
<1>6. BuildKept /\ HandedOverSupported /\ Writing
    BY <1>3 DEF Init, BuildKept, HandedOverSupported, Writing
<1> QED BY <1>2, <1>4, <1>5, <1>6 DEF PackInv

LEMMA StepKeepsPackInv == PackInv /\ [Next]_vars => PackInv'
<1> SUFFICES ASSUME PackInv, [Next]_vars PROVE PackInv'
    OBVIOUS
<1>1. CASE Quiet
    BY <1>1, QuietKeepsInv
<1>2. CASE \E cmd \in Commands : \E files, jars : Starts(cmd, files, jars)
    BY <1>2, StartKeepsInv
<1>3. CASE Look \/ Skip \/ Fetch
    BY <1>3, LookKeepsInv
<1>4. CASE DecidesNot
    BY <1>4, DecidesNotKeepsInv
<1>5. CASE \E force \in BOOLEAN : Decides(force)
    BY <1>5, DecidesKeepsInv
<1>6. CASE WriteNext
    BY <1>6, WriteKeepsInv
<1>7. CASE Applied
    BY <1>7, AppliedKeepsInv
<1>8. CASE Die
    BY <1>8, DieKeepsInv
<1>9. CASE \E n \in PlayerFiles : PlayerEdits(n)
    BY <1>9, PlayerKeepsInv
<1> QED BY <1>1, <1>2, <1>3, <1>4, <1>5, <1>6, <1>7, <1>8, <1>9, StepShapes

LEMMA AlwaysPackInv == Spec => []PackInv
    BY InitPackInv, StepKeepsPackInv, PTL DEF Spec


\* Type correctness: files hold pins, packs or index lists, never a mix, and a
\* command has a plan only while it runs.
THEOREM TypeCorrect == Spec => []TypeOK
<1>1. PackInv => TypeOK
    BY DEF PackInv
<1> QED BY <1>1, AlwaysPackInv, PTL

\* Once a build has applied in full, the instance reads back as that pack,
\* with its launch profile, until the next build applies or the player changes
\* one of its files.
THEOREM BuildReadsBack == Spec => []BuildRoundTrip
<1>1. PackInv => BuildRoundTrip
    <2> SUFFICES ASSUME PackInv, settled # NoBuild
                 PROVE  /\ CanRead /\ ReadPack = ModsOf[settled]
                        /\ disk[Pack] = settled /\ disk[Profile] = settled
        BY DEF BuildRoundTrip
    <2>1. settled \in Builds /\ AllWritten(settled)
        BY DEF PackInv, TypeOK, BuildKept
    <2> QED BY <2>1, WrittenReadsBack
<1> QED BY <1>1, AlwaysPackInv, PTL

\* A pack that was built under the override is handed to a launcher only under
\* the override.
THEOREM HandsOverSupported == Spec => []HandedOverSupported
<1>1. PackInv => HandedOverSupported
    BY DEF PackInv
<1> QED BY <1>1, AlwaysPackInv, PTL

-----------------------------------------------------------------------------
(* What holds of jars, and of files the command did not see.               *)

\* No other jar the install is to provide has this one's name.
Lone(c) == \A d \in Range(listed) : d.name = c.name => d = c

\* The jar has its bytes, or the install that runs will still write them, or
\* the player changed it since the install looked.
OnCourse(c) ==
    \/ disk[c.name] = c.data
    \/ \E k \in 1..Len(todo) : todo[k] = c
    \/ \E k \in 1..Len(plan) : plan[k] = c
    \/ c.name \in touched

InstallKept ==
    /\ run.kind = "install" =>
        /\ \A k \in 1..Len(todo) : todo[k] \in Range(listed)
        /\ \A k \in 1..Len(plan) : plan[k] \in Range(listed)
        /\ fails \/ \A c \in Range(listed) : Lone(c) => OnCourse(c)
        /\ pc = "applying" => installed = {}
    /\ InstallMakesRunnable

\* A file is planned twice only where two mods share its name.
Once ==
    /\ \A k, l \in 1..Len(todo) : k # l /\ todo[k].name = todo[l].name => Shared(todo[k].name)
    /\ \A k, l \in 1..Len(plan) : k # l /\ plan[k].name = plan[l].name => Shared(plan[k].name)
    /\ \A k \in 1..Len(plan), l \in 1..Len(todo) :
            plan[k].name = todo[l].name => Shared(plan[k].name)

\* Without --force, no file in the plan existed when it was looked at.
OnlyNew ==
    /\ pc = "planning" /\ ~over =>
        \A k \in 1..Len(plan) : plan[k].name \in touched \/ ~Exists(plan[k].name)
    /\ pc = "applying" /\ ~forced =>
        \A k \in 1..Len(todo) : \/ todo[k].name \in touched
                                \/ ~Exists(todo[k].name)
                                \/ Shared(todo[k].name)

JarInv == InstallKept /\ Once /\ OnlyNew

\* InstallMakesRunnable holds of fewer jars, and of a disk that keeps them.
LEMMA JarsStay ==
    ASSUME InstallMakesRunnable, NEW n,
           installed' = {c \in installed : c.name # n} \/ installed' = installed \/ installed' = {},
           \A c \in installed' : disk'[c.name] = disk[c.name]
    PROVE  InstallMakesRunnable'
<1> SUFFICES ASSUME NEW c \in installed', \A d \in installed' : d.name = c.name => d = c
             PROVE  disk'[c.name] = c.data
    BY DEF InstallMakesRunnable
<1>1. c \in installed /\ \A d \in installed : d.name = c.name => d \in installed'
    OBVIOUS
<1>2. disk[c.name] = c.data
    BY <1>1 DEF InstallMakesRunnable
<1> QED BY <1>2

LEMMA InstalledAreJars ==
    ASSUME TypeOK, NEW c \in installed
    PROVE  c.name \in Names /\ IsJar(c.name)
<1>1. c \in JarChanges
    BY DEF TypeOK
<1> QED BY <1>1, NamesDiffer DEF JarChanges

\* Nothing of a plan is left when no command runs.
LEMMA NothingPlanned ==
    ASSUME run'.kind # "install", todo' = <<>>, plan' = <<>>, InstallMakesRunnable'
    PROVE  JarInv'
    BY DEF JarInv, InstallKept, Once, OnlyNew

LEMMA QuietKeepsJars ==
    ASSUME PackInv, JarInv, Quiet
    PROVE  JarInv'
<1>1. /\ UNCHANGED <<disk, run, todo, plan, over, forced, fails, listed, touched, settled, installed>>
      /\ pc' = pc \/ {pc, pc'} \subseteq {"idle", "running", "closed"}
    BY DEF Quiet
<1>2. /\ pc' = "planning" => pc = "planning"
      /\ pc' = "applying" => pc = "applying"
    BY <1>1
<1>3. InstallKept'
    BY <1>1, <1>2 DEF JarInv, InstallKept, InstallMakesRunnable, Lone, OnCourse
<1>4. Once' /\ OnlyNew'
    BY <1>1, <1>2 DEF JarInv, Once, OnlyNew, Exists, Shared
<1> QED BY <1>3, <1>4 DEF JarInv

LEMMA StartKeepsJars ==
    ASSUME PackInv, JarInv, NEW cmd \in Commands, NEW files, NEW jars, Starts(cmd, files, jars)
    PROVE  JarInv'
<1>1. /\ pc' = "planning" /\ run' = cmd /\ todo' = files /\ listed' = jars
      /\ UNCHANGED <<disk, plan, touched, installed>>
      /\ jars = IF cmd.kind = "install" THEN files ELSE <<>>
      /\ \A k, l \in 1..Len(files) : k # l /\ files[k].name = files[l].name => cmd.kind = "install"
    BY DEF Starts, Plans
<1>2. plan' = <<>>
    BY <1>1, Resting DEF PackInv, Starts
<1>3. DOMAIN files = 1..Len(files)
    BY SeqFacts DEF Starts, PlanFits
<1>4. InstallKept'
    <2>1. InstallMakesRunnable'
        BY <1>1 DEF JarInv, InstallKept, InstallMakesRunnable
    <2>2. cmd.kind = "install" => \A k \in 1..Len(todo') : todo'[k] \in Range(listed')
        BY <1>1, <1>3 DEF Range
    <2>3. cmd.kind = "install" =>
            \A c \in Range(listed') : \E k \in 1..Len(todo') : todo'[k] = c
        BY <1>1, <1>3 DEF Range
    <2> QED BY <1>1, <1>2, <2>1, <2>2, <2>3 DEF InstallKept, OnCourse
<1>5. Once' /\ OnlyNew'
    BY <1>1, <1>2, <1>3 DEF Once, OnlyNew, Shared
<1> QED BY <1>4, <1>5 DEF JarInv

\* Looking at a file puts it into the plan, or finds it needs none.
LEMMA LookKeepsJars ==
    ASSUME PackInv, JarInv, Look
    PROVE  JarInv'
<1>1. /\ pc = "planning" /\ pc' = pc /\ run.kind # "install" /\ todo' = <<>> /\ plan' = todo
      /\ over' = \E i \in DOMAIN todo : Replaces(todo[i])
      /\ UNCHANGED <<disk, run, listed, touched, installed>>
    BY DEF Look
<1>2. DOMAIN todo = 1..Len(todo)
    BY SeqFacts DEF PackInv, PlansFit, PlanFits
<1>3. InstallKept'
    BY <1>1 DEF JarInv, InstallKept, InstallMakesRunnable
<1>4. Once'
    BY <1>1 DEF JarInv, Once, Shared
<1>5. OnlyNew'
    BY <1>1, <1>2 DEF OnlyNew, Exists, Replaces
<1> QED BY <1>3, <1>4, <1>5 DEF JarInv

LEMMA FetchKeepsJars ==
    ASSUME PackInv, JarInv, Skip \/ Fetch
    PROVE  JarInv'
<1> DEFINE h == todo[1]
           longer == Append(plan, h)
<1>1. /\ pc = "planning" /\ pc' = pc /\ run.kind = "install" /\ todo # <<>> /\ todo' = Tail(todo)
      /\ UNCHANGED <<disk, run, listed, touched, installed>>
    BY DEF Skip, Fetch, Looked
<1>2. PlanFits("install", todo) /\ PlanFits("install", plan)
    BY <1>1 DEF PackInv, PlansFit
<1>3. /\ Head(todo) = h /\ 1 \in 1..Len(todo) /\ Len(todo) \in Nat /\ Len(Tail(todo)) = Len(todo) - 1
      /\ \A k \in 1..Len(Tail(todo)) : k + 1 \in 1..Len(todo) /\ Tail(todo)[k] = todo[k + 1]
    BY <1>1, <1>2, NextChange
<1>4. /\ Len(longer) = Len(plan) + 1 /\ Len(plan) \in Nat
      /\ \A k \in 1..Len(plan) : longer[k] = plan[k]
      /\ longer[Len(plan) + 1] = h
    BY <1>1, <1>2, <1>3, LongerPlan
<1>5. \/ plan' = longer /\ fails' = fails /\ (~over' => ~over /\ ~Exists(h.name))
      \/ plan' = plan /\ (~over' => ~over) /\ (fails' \/ (fails' = fails /\ ~Wanted(h)))
    <2>1. CASE Looked(TRUE)
        <3>1. plan' = longer /\ over' = (over \/ (TRUE /\ Replaces(h))) /\ fails' = fails
            BY <1>3, <2>1 DEF Skip, Fetch, Looked
        <3>2. ~over' => ~over /\ ~Exists(h.name)
            BY <3>1 DEF Replaces
        <3> QED BY <3>1, <3>2
    <2>2. CASE Looked(FALSE)
        <3>1. /\ plan' = plan /\ over' = (over \/ (FALSE /\ Replaces(h)))
              /\ fails' = TRUE \/ (fails' = fails /\ ~Wanted(h))
            BY <1>3, <2>2 DEF Skip, Fetch, Looked
        <3>2. ~over' => ~over
            BY <3>1
        <3> QED BY <3>1, <3>2
    <2> QED BY <2>1, <2>2 DEF Skip, Fetch
<1> HIDE DEF h, longer
<1>6. \A k \in 1..Len(plan') : 
            \/ k \in 1..Len(plan) /\ plan'[k] = plan[k]
            \/ k = Len(plan) + 1 /\ plan' = longer /\ plan'[k] = h
    <2>1. \A k \in 1..(Len(plan) + 1) : k \in 1..Len(plan) \/ k = Len(plan) + 1
        BY <1>4
    <2> QED BY <1>4, <1>5, <2>1
<1>7. \A k \in 1..Len(todo) : k = 1 \/ \E l \in 1..Len(Tail(todo)) : todo[k] = Tail(todo)[l]
    <2> SUFFICES ASSUME NEW k \in 1..Len(todo), k # 1
                 PROVE  \E l \in 1..Len(Tail(todo)) : todo[k] = Tail(todo)[l]
        OBVIOUS
    <2>1. k - 1 \in 1..Len(Tail(todo)) /\ (k - 1) + 1 = k
        BY <1>3
    <2> QED BY <1>3, <2>1
<1>8. InstallKept'
    <2>1. InstallMakesRunnable' /\ \A c : Lone(c)' = Lone(c)
        BY <1>1 DEF JarInv, InstallKept, InstallMakesRunnable, Lone
    <2>2. h \in Range(listed) /\ \A k \in 1..Len(todo') : todo'[k] \in Range(listed')
        BY <1>1, <1>3 DEF JarInv, InstallKept, h
    <2>3. \A k \in 1..Len(plan') : plan'[k] \in Range(listed')
        BY <1>1, <1>6, <2>2 DEF JarInv, InstallKept
    <2>4. fails' \/ \A c : OnCourse(c) => OnCourse(c)'
        <3> SUFFICES ASSUME ~fails', NEW c, OnCourse(c) PROVE OnCourse(c)'
            OBVIOUS
        <3>1. CASE disk[c.name] = c.data \/ c.name \in touched
            BY <1>1, <3>1 DEF OnCourse
        <3>2. CASE \E k \in 1..Len(plan) : plan[k] = c
            <4>1. \E k \in 1..Len(plan') : plan'[k] = c
                BY <1>4, <1>5, <3>2
            <4> QED BY <4>1 DEF OnCourse
        <3>3. CASE \E k \in 1..Len(todo) : k # 1 /\ todo[k] = c
            BY <1>1, <1>7, <3>3 DEF OnCourse
        <3>4. CASE c = h
            <4>1. CASE plan' = longer
                <5>1. Len(plan) + 1 \in 1..Len(plan') /\ plan'[Len(plan) + 1] = c
                    BY <1>4, <3>4, <4>1
                <5> QED BY <5>1 DEF OnCourse
            <4>2. CASE ~Wanted(h)
                BY <1>1, <3>4, <4>2 DEF Wanted, OnCourse
            <4> QED BY <1>5, <4>1, <4>2
        <3> QED BY <3>1, <3>2, <3>3, <3>4 DEF OnCourse, h
    <2>5. fails' \/ \A c \in Range(listed) : Lone(c) => OnCourse(c)'
        BY <1>1, <1>5, <2>4 DEF JarInv, InstallKept
    <2> QED BY <1>1, <2>1, <2>2, <2>3, <2>5 DEF InstallKept
<1>9. Once'
    <2>2. \A k \in 1..Len(todo') : k + 1 \in 1..Len(todo) /\ k + 1 # 1 /\ todo'[k] = todo[k + 1]
        BY <1>1, <1>3
    <2>3. \A k, l \in 1..Len(todo') : k # l => k + 1 # l + 1
        OBVIOUS
    <2>4. \A k, l \in 1..Len(todo') :
            k # l /\ todo'[k].name = todo'[l].name => Shared(todo'[k].name)
        BY <2>2, <2>3 DEF JarInv, Once
    <2>5. \A k, l \in 1..Len(plan') :
            k # l /\ plan'[k].name = plan'[l].name => Shared(plan'[k].name)
        BY <1>3, <1>6 DEF JarInv, Once, h
    <2>6. \A k \in 1..Len(plan'), l \in 1..Len(todo') :
            plan'[k].name = todo'[l].name => Shared(plan'[k].name)
        BY <1>3, <1>6, <2>2 DEF JarInv, Once, h
    <2> QED BY <1>1, <2>4, <2>5, <2>6 DEF Once, Shared
<1>10. OnlyNew'
    <2>1. CASE plan' = longer /\ (~over' => ~over /\ ~Exists(h.name))
        BY <1>1, <1>6, <2>1 DEF JarInv, OnlyNew, Exists
    <2>2. CASE plan' = plan /\ (~over' => ~over)
        BY <1>1, <2>2 DEF JarInv, OnlyNew, Exists
    <2> QED BY <1>5, <2>1, <2>2
<1> QED BY <1>8, <1>9, <1>10 DEF JarInv

\* A plan that is decided on is what there is to do.
LEMMA DecidesKeepsJars ==
    ASSUME PackInv, JarInv, NEW force \in BOOLEAN, Decides(force)
    PROVE  JarInv'
<1>1. /\ pc = "planning" /\ todo = <<>> /\ (over => force)
      /\ pc' = "applying" /\ todo' = plan /\ plan' = <<>> /\ forced' = force
      /\ installed' = IF run.kind = "install" THEN {} ELSE installed
      /\ UNCHANGED <<disk, run, fails, listed, touched>>
    BY DEF Decides
<1>2. InstallKept'
    <2>1. InstallMakesRunnable'
        BY <1>1, JarsStay DEF JarInv, InstallKept
    <2> QED BY <1>1, <2>1 DEF JarInv, InstallKept, Lone, OnCourse
<1>3. Once'
    BY <1>1 DEF JarInv, Once, Shared
<1>4. OnlyNew'
    BY <1>1 DEF JarInv, OnlyNew, Exists
<1> QED BY <1>2, <1>3, <1>4 DEF JarInv

\* A write puts a jar where it belongs, and leaves the others.
LEMMA WriteKeepsJars ==
    ASSUME PackInv, JarInv, WriteNext
    PROVE  JarInv'
<1> DEFINE h == todo[1]
<1>1. /\ pc = "applying" /\ todo # <<>>
      /\ disk' = [disk EXCEPT ![Head(todo).name] = Head(todo).data] /\ todo' = Tail(todo)
      /\ touched' = touched \ {Head(todo).name}
      /\ UNCHANGED <<pc, run, plan, forced, fails, listed, installed>>
    BY DEF WriteNext
<1>2. PlanFits(run.kind, todo) /\ DOMAIN disk = Names /\ plan = <<>>
    BY <1>1 DEF PackInv, PlansFit, TypeOK, DiskFits
<1>3. /\ Len(todo) \in Nat /\ 1 \in 1..Len(todo) /\ Head(todo) = h /\ h.name \in Names
      /\ run.kind = "install" <=> IsJar(h.name)
      /\ Len(Tail(todo)) = Len(todo) - 1
      /\ \A k \in 1..Len(Tail(todo)) : k + 1 \in 1..Len(todo) /\ Tail(todo)[k] = todo[k + 1]
    BY <1>1, <1>2, NextChange
<1>4. \A k \in 1..Len(todo) : todo[k].name \in Names
    <2>1. \A k \in 1..Len(todo) : todo[k] \in AnyChange
        BY <1>2, SeqFacts, Zenon DEF PlanFits
    <2> QED BY <2>1 DEF AnyChange
<1>5. /\ \A n \in Names : n # h.name => disk'[n] = disk[n]
      /\ disk'[h.name] = h.data
      /\ \A n : n # h.name => (n \in touched' <=> n \in touched)
    BY <1>1, <1>2, <1>3
<1>6. \A k \in 1..Len(todo') : k + 1 \in 1..Len(todo) /\ k + 1 # 1 /\ todo'[k] = todo[k + 1]
    BY <1>1, <1>3
<1>7. \A k \in 1..Len(todo) : k = 1 \/ \E l \in 1..Len(todo') : todo[k] = todo'[l]
    <2> SUFFICES ASSUME NEW k \in 1..Len(todo), k # 1
                 PROVE  \E l \in 1..Len(todo') : todo[k] = todo'[l]
        OBVIOUS
    <2>1. k - 1 \in 1..Len(todo') /\ (k - 1) + 1 = k
        BY <1>1, <1>3
    <2> QED BY <1>6, <2>1
<1>8. InstallKept'
    <2>1. InstallMakesRunnable'
        <3>1. \A c \in installed : disk'[c.name] = disk[c.name]
            <4>1. CASE run.kind = "install"
                BY <1>1, <4>1 DEF JarInv, InstallKept
            <4>2. CASE run.kind # "install"
                BY <1>3, <1>5, <4>2, InstalledAreJars DEF PackInv
            <4> QED BY <4>1, <4>2
        <3> QED BY <1>1, <3>1, JarsStay DEF JarInv, InstallKept
    <2>2. ASSUME run.kind = "install", ~fails, NEW c \in Range(listed), Lone(c)
          PROVE  OnCourse(c)'
        <3>1. OnCourse(c) /\ h \in Range(listed) /\ c.name \in Names
            <4>1. c \in JarChanges
                BY SeqFacts DEF PackInv, TypeOK, Range
            <4>2. c.name \in Names
                BY <4>1, NamesDiffer DEF JarChanges
            <4> QED BY <1>3, <2>2, <4>2 DEF JarInv, InstallKept
        <3>2. CASE c.name = h.name
            <4>1. c = h
                BY <2>2, <3>1, <3>2 DEF Lone
            <4> QED BY <1>5, <4>1 DEF OnCourse
        <3>3. CASE c.name # h.name
            <4>1. \/ disk[c.name] = c.data \/ c.name \in touched
                  \/ \E k \in 1..Len(todo) : todo[k] = c
                BY <1>2, <3>1 DEF OnCourse
            <4>2. CASE disk[c.name] = c.data \/ c.name \in touched
                BY <1>5, <3>1, <3>3, <4>2 DEF OnCourse
            <4>3. CASE \E k \in 1..Len(todo) : todo[k] = c
                <5>1. \E l \in 1..Len(todo') : todo'[l] = c
                    BY <1>7, <3>3, <4>3
                <5> QED BY <5>1 DEF OnCourse
            <4> QED BY <4>1, <4>2, <4>3
        <3> QED BY <3>2, <3>3
    <2>3. run.kind = "install" =>
            /\ fails \/ \A c \in Range(listed) : Lone(c) => OnCourse(c)'
            /\ \A k \in 1..Len(todo') : todo'[k] \in Range(listed)
        BY <1>6, <2>2 DEF JarInv, InstallKept
    <2>4. (run.kind = "install" =>
            /\ \A k \in 1..Len(todo) : todo[k] \in Range(listed)
            /\ \A k \in 1..Len(plan) : plan[k] \in Range(listed)
            /\ fails \/ \A c \in Range(listed) : Lone(c) => OnCourse(c)
            /\ pc = "applying" => installed = {})'
        BY <1>1, <1>2, <2>3 DEF JarInv, InstallKept, Lone
    <2> QED BY <2>1, <2>4 DEF InstallKept
<1>9. Once'
    <2>1. \A k, l \in 1..Len(todo') : k # l => k + 1 # l + 1
        OBVIOUS
    <2>2. \A k, l \in 1..Len(todo') :
            k # l /\ todo'[k].name = todo'[l].name => Shared(todo'[k].name)
        BY <1>6, <2>1 DEF JarInv, Once
    <2> QED BY <1>1, <1>2, <2>2 DEF Once, Shared
<1>10. OnlyNew'
    <2>1. \A k \in 1..Len(todo') : todo'[k].name = h.name => Shared(todo'[k].name)
        BY <1>3, <1>6 DEF JarInv, Once
    <2>2. \A k \in 1..Len(todo') : todo'[k].name # h.name =>
            /\ disk'[todo'[k].name] = disk[todo'[k].name]
            /\ todo'[k].name \in touched' <=> todo'[k].name \in touched
        BY <1>4, <1>5, <1>6
    <2>3. ~forced => \A k \in 1..Len(todo') :
            \/ todo'[k].name \in touched' \/ disk'[todo'[k].name] = Absent
            \/ Shared(todo'[k].name)
        BY <1>1, <1>6, <2>1, <2>2 DEF JarInv, OnlyNew, Exists
    <2> QED BY <1>1, <2>3 DEF OnlyNew, Exists, Shared
<1> QED BY <1>8, <1>9, <1>10 DEF JarInv

\* At the end of its plan an install has provided its jars.
LEMMA AppliedKeepsJars ==
    ASSUME PackInv, JarInv, Applied
    PROVE  JarInv'
<1>1. /\ pc = "applying" /\ todo = <<>> /\ Done
      /\ installed' = IF run.kind = "install" /\ ~fails THEN Provided ELSE installed
      /\ UNCHANGED disk
    BY DEF Applied
<1>2. run'.kind # "install" /\ todo' = <<>> /\ plan' = <<>>
    BY <1>1, RunKinds DEF Done
<1>3. CASE run.kind = "install" /\ ~fails
    <2>1. plan = <<>>
        BY <1>1 DEF PackInv, TypeOK
    <2> SUFFICES ASSUME NEW c \in installed', \A d \in installed' : d.name = c.name => d = c
                 PROVE  disk[c.name] = c.data
        BY <1>1, <1>2, NothingPlanned DEF InstallMakesRunnable
    <2>2. c \in Range(listed) /\ c.name \notin touched
        BY <1>1, <1>3 DEF Provided
    <2>3. Lone(c)
        BY <1>1, <1>3, <2>2 DEF Provided, Lone
    <2>4. OnCourse(c)
        BY <1>3, <2>2, <2>3 DEF JarInv, InstallKept
    <2> QED BY <1>1, <2>1, <2>2, <2>4 DEF OnCourse
<1>4. CASE ~(run.kind = "install" /\ ~fails)
    <2>1. InstallMakesRunnable'
        BY <1>1, <1>4, JarsStay DEF JarInv, InstallKept
    <2> QED BY <1>2, <2>1, NothingPlanned
<1> QED BY <1>3, <1>4

LEMMA DieKeepsJars ==
    ASSUME PackInv, JarInv, Die
    PROVE  JarInv'
<1>1. Done /\ UNCHANGED installed
    BY DEF Die
<1>2. run'.kind # "install" /\ todo' = <<>> /\ plan' = <<>>
    BY <1>1, RunKinds DEF Done
<1>3. \A c \in installed : disk'[c.name] = disk[c.name]
    <2>1. CASE UNCHANGED disk
        BY <2>1
    <2>2. CASE disk' # disk
        <3>1. /\ pc = "applying" /\ (run.kind = "install" <=> IsJar(todo[1].name))
              /\ \A n \in Names : n # todo[1].name => disk'[n] = disk[n]
            BY <2>2, DeathFits
        <3>2. run.kind = "install" => installed = {}
            BY <3>1 DEF JarInv, InstallKept
        <3> QED BY <3>1, <3>2, InstalledAreJars DEF PackInv
    <2> QED BY <2>1, <2>2
<1>4. InstallMakesRunnable'
    BY <1>1, <1>3, JarsStay DEF JarInv, InstallKept
<1> QED BY <1>2, <1>4, NothingPlanned

\* What the player changes was not looked at yet, or is known to have changed.
LEMMA PlayerKeepsJars ==
    ASSUME PackInv, JarInv, NEW n \in PlayerFiles, PlayerEdits(n)
    PROVE  JarInv'
<1>1. PICK v \in {Absent, Foreign} : disk' = [disk EXCEPT ![n] = v]
    BY DEF PlayerEdits
<1>2. /\ touched' = IF Seen(n) THEN touched \cup {n} ELSE touched
      /\ installed' = {c \in installed : c.name # n}
      /\ UNCHANGED <<pc, run, todo, plan, over, forced, fails, listed>>
    BY DEF PlayerEdits
<1>3. n \in Names /\ DOMAIN disk = Names
    BY ConstantsAssumption DEF PackInv, DiskFits, ConstantsAssumption
<1>4. \A m \in Names : m # n => disk'[m] = disk[m]
    BY <1>1, <1>3
<1>5. InstallKept'
    <2>1. InstallMakesRunnable'
        <3>1. \A c \in installed' : disk'[c.name] = disk[c.name]
            BY <1>2, <1>4, InstalledAreJars DEF PackInv
        <3> QED BY <1>2, <3>1, JarsStay DEF JarInv, InstallKept
    <2>2. ASSUME run.kind = "install", NEW c \in Range(listed), Lone(c), OnCourse(c)
          PROVE  OnCourse(c)'
        <3>1. c.name \in Names
            <4>1. c \in JarChanges
                BY SeqFacts DEF PackInv, TypeOK, Range
            <4> QED BY <4>1, NamesDiffer DEF JarChanges
        <3>2. CASE c.name # n
            BY <1>2, <1>4, <2>2, <3>1, <3>2 DEF OnCourse
        <3>3. CASE c.name = n /\ Seen(n)
            BY <1>2, <3>3 DEF OnCourse
        <3>4. CASE c.name = n /\ ~Seen(n)
            <4>1. pc \in {"planning", "applying"} /\ DOMAIN todo = 1..Len(todo)
                BY <2>2, RunKinds, SeqFacts DEF PackInv, TypeOK, PlansFit, PlanFits
            <4>2. PICK k \in 1..Len(todo) : todo[k].name = n
                BY <3>4, <4>1 DEF Seen
            <4>3. todo[k] = c
                BY <2>2, <3>4, <4>2 DEF JarInv, InstallKept, Lone
            <4> QED BY <1>2, <4>2, <4>3 DEF OnCourse
        <3> QED BY <3>2, <3>3, <3>4
    <2>3. run.kind = "install" =>
            fails \/ \A c \in Range(listed) : Lone(c) => OnCourse(c)'
        BY <2>2 DEF JarInv, InstallKept
    <2>4. run.kind = "install" /\ pc = "applying" => installed' = {}
        BY <1>2 DEF JarInv, InstallKept
    <2>5. (run.kind = "install" =>
            /\ \A k \in 1..Len(todo) : todo[k] \in Range(listed)
            /\ \A k \in 1..Len(plan) : plan[k] \in Range(listed)
            /\ fails \/ \A c \in Range(listed) : Lone(c) => OnCourse(c)
            /\ pc = "applying" => installed = {})'
        BY <1>2, <2>3, <2>4 DEF JarInv, InstallKept, Lone
    <2> QED BY <2>1, <2>5 DEF InstallKept
<1>6. Once'
    BY <1>2 DEF JarInv, Once, Shared
<1>7. OnlyNew'
    <2>1. /\ \A k \in 1..Len(todo) : todo[k].name \in Names
          /\ \A k \in 1..Len(plan) : plan[k].name \in Names
          /\ DOMAIN plan = 1..Len(plan)
        <3>1. /\ \A k \in 1..Len(todo) : todo[k] \in AnyChange
              /\ \A k \in 1..Len(plan) : plan[k] \in AnyChange
            BY SeqFacts, Zenon DEF PackInv, PlansFit, PlanFits
        <3> QED BY <3>1, SeqFacts DEF AnyChange, PackInv, PlansFit, PlanFits
    <2>2. /\ pc = "planning" => \A k \in 1..Len(plan) : plan[k].name = n => n \in touched'
          /\ pc = "applying" => n \in touched'
        BY <1>2, <2>1 DEF Seen
    <2>3. pc = "planning" /\ ~over => \A k \in 1..Len(plan) :
            plan[k].name \in touched' \/ disk'[plan[k].name] = Absent
        BY <1>2, <1>4, <2>1, <2>2 DEF JarInv, OnlyNew, Exists
    <2>4. pc = "applying" /\ ~forced => \A k \in 1..Len(todo) :
            \/ todo[k].name \in touched' \/ disk'[todo[k].name] = Absent
            \/ Shared(todo[k].name)
        BY <1>2, <1>4, <2>1, <2>2 DEF JarInv, OnlyNew, Exists
    <2> QED BY <1>2, <2>3, <2>4 DEF OnlyNew, Exists, Shared
<1> QED BY <1>5, <1>6, <1>7 DEF JarInv

LEMMA StepKeepsJarInv == PackInv /\ JarInv /\ [Next]_vars => JarInv'
<1> SUFFICES ASSUME PackInv, JarInv, [Next]_vars PROVE JarInv'
    OBVIOUS
<1>1. CASE Quiet
    BY <1>1, QuietKeepsJars
<1>2. CASE \E cmd \in Commands : \E files, jars : Starts(cmd, files, jars)
    BY <1>2, StartKeepsJars
<1>3. CASE Look \/ Skip \/ Fetch
    BY <1>3, LookKeepsJars, FetchKeepsJars
<1>4. CASE DecidesNot
    <2>1. Done /\ UNCHANGED <<disk, installed>>
        BY <1>4 DEF DecidesNot
    <2>2. InstallMakesRunnable'
        BY <2>1 DEF JarInv, InstallKept, InstallMakesRunnable
    <2> QED BY <2>1, <2>2, NothingPlanned, RunKinds DEF Done
<1>5. CASE \E force \in BOOLEAN : Decides(force)
    BY <1>5, DecidesKeepsJars
<1>6. CASE WriteNext
    BY <1>6, WriteKeepsJars
<1>7. CASE Applied
    BY <1>7, AppliedKeepsJars
<1>8. CASE Die
    BY <1>8, DieKeepsJars
<1>9. CASE \E n \in PlayerFiles : PlayerEdits(n)
    BY <1>9, PlayerKeepsJars
<1> QED BY <1>1, <1>2, <1>3, <1>4, <1>5, <1>6, <1>7, <1>8, <1>9, StepShapes

LEMMA AlwaysJarInv == Spec => []JarInv
<1>1. Init => JarInv
    BY RunKinds DEF Init, JarInv, InstallKept, InstallMakesRunnable, Once, OnlyNew
<1> QED BY <1>1, StepKeepsJarInv, AlwaysPackInv, PTL DEF Spec

\* Once an install has exited 0, each jar its pack pins has the pinned bytes
\* until the player changes it or another install applies; two mods that share
\* a jar name aside, of which one file cannot serve both.
THEOREM InstallIsRunnable == Spec => []InstallMakesRunnable
<1>1. JarInv => InstallMakesRunnable
    BY DEF JarInv, InstallKept
<1> QED BY <1>1, AlwaysJarInv, PTL

\* A step of a command that changes a file is one of --force, or the file was
\* not there when the command looked.
LEMMA StepIsForced ==
    ASSUME PackInv, JarInv, [Next]_vars, NEW n \in Names, Exists(n), disk'[n] # disk[n]
    PROVE  PlayerEdits(n) \/ forced \/ n \in touched \/ Shared(n)
<1>1. CASE UNCHANGED disk
    BY <1>1
<1>2. CASE \E m \in PlayerFiles : PlayerEdits(m)
    <2>1. PICK m \in PlayerFiles : PlayerEdits(m)
        BY <1>2
    <2>2. PICK v : disk' = [disk EXCEPT ![m] = v]
        BY <2>1 DEF PlayerEdits
    <2>3. n = m
        BY <2>2 DEF PackInv, DiskFits
    <2> QED BY <2>1, <2>3
<1>3. ASSUME pc = "applying", 1 \in 1..Len(todo), n = todo[1].name
      PROVE  forced \/ n \in touched \/ Shared(n)
    BY <1>3 DEF JarInv, OnlyNew
<1>4. todo # <<>> => Len(todo) \in Nat /\ 1 \in 1..Len(todo) /\ Head(todo) = todo[1]
    BY NextChange DEF PackInv, PlansFit
<1>5. CASE WriteNext
    <2>1. pc = "applying" /\ todo # <<>> /\ disk' = [disk EXCEPT ![Head(todo).name] = Head(todo).data]
        BY <1>5 DEF WriteNext
    <2>2. n = todo[1].name
        BY <1>4, <2>1 DEF PackInv, DiskFits
    <2> QED BY <1>3, <1>4, <2>1, <2>2
<1>6. CASE Die
    <2>1. pc = "applying" /\ todo # <<>> /\ n = todo[1].name
        BY <1>6, DeathFits
    <2> QED BY <1>3, <1>4, <2>1
<1>7. CASE Quiet \/ (\E cmd \in Commands : \E files, jars : Starts(cmd, files, jars))
    BY <1>1, <1>7 DEF Quiet, Starts, Plans
<1>8. CASE Look \/ Skip \/ Fetch \/ DecidesNot \/ Applied \/ (\E force \in BOOLEAN : Decides(force))
    BY <1>1, <1>8 DEF Look, Skip, Fetch, Looked, DecidesNot, Applied, Decides
<1> QED BY <1>2, <1>5, <1>6, <1>7, <1>8, StepShapes

\* A command replaces a file it saw only with --force: what else changes under
\* it came to be after it had looked, or is one of two jars of one name.  Its
\* looking, its downloads and its writes are steps of their own, between which
\* the player edits, and any of which may be its last.
THEOREM OverwritesOnlyForced == Spec => NoOverwriteWithoutForce
<1>1. PackInv /\ JarInv /\ [Next]_vars =>
        [\A n \in Names :
            Exists(n) /\ disk'[n] # disk[n] =>
                PlayerEdits(n) \/ forced \/ n \in touched \/ Shared(n)]_vars
    BY StepIsForced
<1> QED BY <1>1, AlwaysPackInv, AlwaysJarInv, PTL DEF Spec, NoOverwriteWithoutForce
=============================================================================
