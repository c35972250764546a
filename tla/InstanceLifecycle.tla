------------------------- MODULE InstanceLifecycle -------------------------
(***************************************************************************)
(* What one game instance goes through: `build` writes a pinned pack into  *)
(* it, `install` downloads the jars the pack pins, `launchable` hands it   *)
(* to a launcher, `launch` runs it.  The commands share nothing but the    *)
(* instance's files.                                                       *)
(*                                                                         *)
(* The user runs one command at a time, and edits the instance at any      *)
(* moment.  A command reads the pack, then looks at the files its plan may *)
(* touch one after the other, an install with a download in between, and   *)
(* decides by what it saw whether --force is needed.  Its writes are the   *)
(* change plan GuardedApply applies, one file at a time, in order; the     *)
(* process may end before any of them, or leave that one file torn.        *)
(***************************************************************************)
EXTENDS Naturals, Sequences, Functions

CONSTANTS
    Slugs,          \* mod slugs
    Pins,           \* pinned files: a pin stands for the bytes its hash names
    JarOf,          \* the file name of each pin
    Builds,         \* pinned packs the resolver may produce
    ModsOf,         \* the mods of each pack, in order: [slug, pin] records
    BlockedBuilds,  \* packs with a blocking issue
    Trees,          \* packs of other trees the user may install from
    Targets,        \* the launchers the user hands the instance to
    PlayerFiles,    \* the files the player edits
    NoBuild, Absent, Torn, Foreign,
    MayFail         \* a command may die while it writes

Jars == {JarOf[p] : p \in Pins}

\* The files of the instance that matter here.
Meta(s) == <<"meta", s>>
Jar(j)  == <<"jar", j>>
Index   == <<"file", "index.toml">>
Pack    == <<"file", "pack.toml">>
Profile == <<"file", "mpa-launch.json">>
Marker  == <<"file", "MPA-UNSUPPORTED.txt">>
\* mmc-pack.json and instance.cfg, taken as one: Torn if not both are whole.
Prism   == <<"file", "prism-instance">>
BuildNamed == {Pack, Profile, Marker}
Names == {Meta(s) : s \in Slugs} \cup {Jar(j) : j \in Jars}
            \cup {Index, Prism} \cup BuildNamed

ASSUME ConstantsAssumption ==
    /\ JarOf \in [Pins -> Jars]
    /\ ModsOf \in [Builds -> Seq([slug : Slugs, pin : Pins])]
    /\ BlockedBuilds \subseteq Builds
    /\ PlayerFiles \subseteq Names
    /\ Trees \subseteq Builds
    /\ Targets \subseteq {"prism", "modrinth-app"}
    /\ NoBuild \notin Builds
    /\ NoBuild \notin {Absent, Torn, Foreign}
    /\ Absent \notin Builds \cup Pins \cup {Torn, Foreign}
    /\ Torn \notin Builds \cup Pins \cup {Foreign}
    /\ Foreign \notin Builds \cup Pins
    /\ {Absent, Torn, Foreign} \cap Seq(Slugs) = {}
    /\ MayFail \in BOOLEAN

\* No pack lists one slug twice, so no build writes a file twice.
ASSUME DistinctFiles ==
    \A b \in Builds : \A i, j \in 1..Len(ModsOf[b]) :
        i # j => ModsOf[b][i].slug # ModsOf[b][j].slug

VARIABLES
    disk,       \* contents of each file
    pc,         \* "idle", a command "planning" or "applying" its plan, the
                \* game "running" or "closed"
    run,        \* the command that plans or applies
    todo,       \* the changes it has not looked at yet, then not applied yet
    plan,       \* of those it looked at, the ones it will write
    over,       \* one of these existed when it was looked at
    forced,     \* the command that applies was given --force
    fails,      \* the install plan has entries that could not be downloaded
    exit,       \* the exit code of the last command
    reports,    \* the instance has a crash report
    game,       \* how the game just closed
    listed,     \* history: the jars the install that runs is to provide
    touched,    \* history: files the player changed since the command that
                \* runs looked at them, or wrote them
    settled,    \* history: the pack of the last build that applied in full
    installed   \* history: the jars of the last install that exited 0, without
                \* those the player changed since

command == <<run, todo, plan, over, forced, fails, listed, touched>>
launched == <<reports, game>>
vars == <<disk, pc, command, exit, launched, settled, installed>>

Change(name, data) == [name |-> name, data |-> data]

JarChanges == [name : {Jar(j) : j \in Jars}, data : Pins]

\* The commands and what they read first; --apply and --force are looked at
\* when the plan is ready.
Commands ==
    [kind : {"build"}, build : Builds]
    \cup [kind : {"install"}, from : Trees \cup {NoBuild}]
    \cup [kind : {"launchable"}, target : Targets, allowUnsupported : BOOLEAN]
    \cup [kind : {"launch"}, apply : BOOLEAN]

NoCommand == [kind |-> "none"]

\* The exit codes 0, 1 and 3, and none of a command that runs or died.
Exits == {"ok", "error", "blocked", "none"}

Open == [clean |-> FALSE, reported |-> FALSE]

Init ==
    /\ disk \in {d \in [Names -> {Absent, Foreign}] :
                    \A n \in Names : d[n] # Absent => n \in PlayerFiles}
    /\ pc = "idle"
    /\ run = NoCommand
    /\ todo = <<>>
    /\ plan = <<>>
    /\ over = FALSE
    /\ forced = FALSE
    /\ fails = FALSE
    /\ listed = <<>>
    /\ touched = {}
    /\ exit = "none"
    /\ reports \in BOOLEAN
    /\ game = Open
    /\ settled = NoBuild
    /\ installed = {}

-----------------------------------------------------------------------------
(* Reading and planning.                                                   *)

Exists(n) == disk[n] # Absent

\* PackFormat.readPack, taken as one step: pack.toml, then the index, then each
\* metafile the index lists.  A file that is missing or does not parse throws.
\* Hashes are not compared.  What an index holds is the slugs it lists, in order.
CanRead ==
    /\ disk[Pack] \in Builds
    /\ disk[Index] \notin {Absent, Torn, Foreign}
    /\ \A i \in DOMAIN disk[Index] : disk[Meta(disk[Index][i])] \in Pins
ReadPack ==
    [i \in DOMAIN disk[Index] |->
        [slug |-> disk[Index][i], pin |-> disk[Meta(disk[Index][i])]]]

\* Mutant of BuildFiles: the index is not written.
BuildFilesNoIndex(b) ==
    [i \in 1..Len(ModsOf[b]) |-> Change(Meta(ModsOf[b][i].slug), ModsOf[b][i].pin)]
    \o << Change(Pack, b), Change(Profile, b) >>
    \o IF b \in BlockedBuilds THEN <<Change(Marker, b)>> ELSE <<>>

\* PackFormat.assemble and assembleBuild, in write order; an override build
\* carries the marker behind them.
BuildFiles(b) ==
    [i \in 1..Len(ModsOf[b]) |-> Change(Meta(ModsOf[b][i].slug), ModsOf[b][i].pin)]
    \o << Change(Index, [i \in 1..Len(ModsOf[b]) |-> ModsOf[b][i].slug]),
          Change(Pack, b),
          Change(Profile, b) >>
    \o IF b \in BlockedBuilds THEN <<Change(Marker, b)>> ELSE <<>>

\* planDownload: one jar per mod of the pack, in its order.
JarFiles(mods) ==
    [i \in DOMAIN mods |-> Change(Jar(JarOf[mods[i].pin]), mods[i].pin)]

\* prismFiles: a Prism instance, whichever pack it is of.
PrismFiles == <<Change(Prism, NoBuild)>>

-----------------------------------------------------------------------------
(* Commands.                                                               *)

\* A command that is refused, or that has nothing to write.
Ends(code) ==
    /\ exit' = code
    /\ UNCHANGED <<disk, pc, command, launched, settled, installed>>

\* A command that goes on to look at the files it may write.
Plans(cmd, files, jars) ==
    /\ pc' = "planning"
    /\ run' = cmd
    /\ todo' = files
    /\ listed' = jars
    /\ exit' = "none"
    /\ UNCHANGED <<disk, plan, over, forced, fails, touched, launched, settled, installed>>

\* The loader or the catalog does not answer, or a mod of unknown side has no
\* metafile: the process ends with an error before it plans anything.
BuildRejected(cmd) ==
    /\ pc = "idle"
    /\ cmd.kind = "build"
    /\ Ends("error")

Build(cmd, allowUnsupported) ==
    /\ pc = "idle"
    /\ cmd.kind = "build"
    /\ \/ /\ cmd.build \in BlockedBuilds /\ ~allowUnsupported
          /\ Ends("blocked")
       \/ /\ cmd.build \notin BlockedBuilds \/ allowUnsupported
          /\ Plans(cmd, BuildFiles(cmd.build), <<>>)

\* readPack throws: the process ends with an error.
InstallUnreadable(cmd) ==
    /\ pc = "idle"
    /\ cmd.kind = "install"
    /\ cmd.from = NoBuild
    /\ ~CanRead
    /\ Ends("error")

\* The pack is the instance's own or, with --from, that of another tree.
Install(cmd) ==
    /\ pc = "idle"
    /\ cmd.kind = "install"
    /\ cmd.from = NoBuild => CanRead
    /\ LET jars == JarFiles(IF cmd.from = NoBuild THEN ReadPack ELSE ModsOf[cmd.from])
       IN  Plans(cmd, jars, jars)

\* No usable profile, an unsupported instance, an unreadable pack, or a
\* component the launcher does not publish.
LaunchableRefused(cmd) ==
    /\ pc = "idle"
    /\ cmd.kind = "launchable"
    /\ \/ disk[Profile] \notin Builds /\ Ends("error")
       \/ /\ disk[Profile] \in Builds
          /\ Exists(Marker) /\ ~cmd.allowUnsupported
          /\ Ends("blocked")
       \/ /\ disk[Profile] \in Builds
          /\ Exists(Marker) => cmd.allowUnsupported
          /\ ~CanRead \/ cmd.target = "prism"
          /\ Ends("error")

\* Mutant of Launchable: the marker is not looked at.
LaunchableUnchecked(cmd) ==
    /\ pc = "idle"
    /\ cmd.kind = "launchable"
    /\ disk[Profile] \in Builds
    /\ CanRead
    /\ IF cmd.target = "prism"
       THEN Plans(cmd, PrismFiles, <<>>)
       ELSE Ends("ok")

\* Every component is published, or the launcher's metadata did not answer.
Launchable(cmd) ==
    /\ pc = "idle"
    /\ cmd.kind = "launchable"
    /\ disk[Profile] \in Builds
    /\ Exists(Marker) => cmd.allowUnsupported
    /\ CanRead
    /\ IF cmd.target = "prism"
       THEN Plans(cmd, PrismFiles, <<>>)
       ELSE Ends("ok")

\* A profile that is missing or malformed, or no JDK of its Java version:
\* there is no command to run.  A game that cannot be started ends the same
\* way.  A dry run shows the command it would run.
LaunchRefused(cmd) ==
    /\ pc = "idle"
    /\ cmd.kind = "launch"
    /\ \/ Ends("error")
       \/ disk[Profile] \in Builds /\ ~cmd.apply /\ Ends("ok")

Launch(cmd) ==
    /\ pc = "idle"
    /\ cmd.kind = "launch"
    /\ cmd.apply
    /\ disk[Profile] \in Builds
    /\ pc' = "running"
    /\ exit' = "none"
    /\ UNCHANGED <<disk, command, launched, settled, installed>>

\* The game closes, with a zero or another exit code, and it may have written
\* a crash report.
GameCloses ==
    /\ pc = "running"
    /\ game' \in [clean : BOOLEAN, reported : BOOLEAN]
    /\ reports' = (reports \/ game'.reported)
    /\ pc' = "closed"
    /\ UNCHANGED <<disk, command, exit, settled, installed>>

\* The launcher returns the newest crash report there is, whichever run wrote
\* it; a crash is sent to diagnosis, and the command exits 1.
LaunchCrashed == ~game.clean \/ reports
LaunchEnds ==
    /\ pc = "closed"
    /\ exit' = IF LaunchCrashed THEN "error" ELSE "ok"
    /\ game' = Open
    /\ pc' = "idle"
    /\ UNCHANGED <<disk, command, reports, settled, installed>>

-----------------------------------------------------------------------------
(* Looking at the files, and deciding.                                     *)

\* Mutant of Replaces: a torn file does not count.
ReplacesIfWhole(c) == disk[c.name] \notin {Absent, Torn}

\* Writing this change would replace a file.
Replaces(c) == Exists(c.name)

\* build's probes, or launchable's listing of the output directory.  The probes
\* are taken together: each reads one file, so that an edit between two of them
\* could as well come before or after them all.
Look ==
    /\ pc = "planning"
    /\ run.kind # "install"
    /\ todo # <<>>
    /\ todo' = <<>>
    /\ plan' = todo
    /\ over' = \E i \in DOMAIN todo : Replaces(todo[i])
    /\ UNCHANGED <<disk, pc, run, forced, fails, listed, touched, exit, launched,
                   settled, installed>>

\* The next jar is looked at, and its change joins the plan or not.
Looked(add) ==
    /\ pc = "planning"
    /\ run.kind = "install"
    /\ todo # <<>>
    /\ LET c == Head(todo)
       IN  /\ plan' = IF add THEN Append(plan, c) ELSE plan
           /\ over' = (over \/ (add /\ Replaces(c)))
    /\ todo' = Tail(todo)
    /\ UNCHANGED <<disk, pc, run, forced, listed, touched, exit, launched, settled,
                   installed>>

\* Mutant of Wanted: a jar that is there is not downloaded, whatever it holds.
WantedIfAbsent(c) == ~Exists(c.name)

\* The jar does not have the pinned bytes yet.
Wanted(c) == disk[c.name] # c.data

Skip ==
    /\ Looked(FALSE)
    /\ ~Wanted(Head(todo))
    /\ UNCHANGED fails

\* The download yields the pinned bytes, or it fails.
Fetch ==
    /\ \/ Looked(TRUE) /\ UNCHANGED fails
       \/ Looked(FALSE) /\ fails' = TRUE
    /\ Wanted(Head(todo))

\* What a command leaves behind, whichever way it ends.
Done ==
    /\ pc' = "idle"
    /\ run' = NoCommand
    /\ todo' = <<>>
    /\ plan' = <<>>
    /\ over' = FALSE
    /\ forced' = FALSE
    /\ fails' = FALSE
    /\ listed' = <<>>
    /\ touched' = {}

\* --apply was not given, or --force where a file would be replaced.
DecidesNot ==
    /\ pc = "planning"
    /\ todo = <<>>
    /\ \/ exit' = IF fails THEN "error" ELSE "ok"
       \/ over /\ exit' = "error"
    /\ Done
    /\ UNCHANGED <<disk, launched, settled, installed>>

\* With --apply, and with --force or without.
Decides(force) ==
    /\ pc = "planning"
    /\ todo = <<>>
    /\ over => force
    /\ pc' = "applying"
    /\ todo' = plan
    /\ plan' = <<>>
    /\ forced' = force
    /\ settled' = IF run.kind = "build" THEN NoBuild ELSE settled
    /\ installed' = IF run.kind = "install" THEN {} ELSE installed
    /\ UNCHANGED <<disk, run, over, fails, listed, touched, exit, launched>>

-----------------------------------------------------------------------------
(* Applying a plan, and what may disturb it.                               *)

WriteNext ==
    /\ pc = "applying"
    /\ todo # <<>>
    /\ disk' = [disk EXCEPT ![Head(todo).name] = Head(todo).data]
    /\ touched' = touched \ {Head(todo).name}
    /\ todo' = Tail(todo)
    /\ UNCHANGED <<pc, run, plan, over, forced, fails, listed, exit, launched, settled,
                   installed>>

\* A build that applied in full, with none of its files changed meanwhile.
FilesOf(b) == {BuildFiles(b)[i].name : i \in DOMAIN BuildFiles(b)}
Settles == run.kind = "build" /\ touched \cap FilesOf(run.build) = {}

\* The jars the install was to provide, without those the player changed.
Provided == {c \in Range(listed) : c.name \notin touched}

\* Mutant of Applied: the command ends with changes left.
AppliedEarly ==
    /\ pc = "applying"
    /\ exit' = IF fails THEN "error" ELSE "ok"
    /\ settled' = IF Settles THEN run.build ELSE settled
    /\ installed' = IF run.kind = "install" /\ ~fails
                    THEN Provided ELSE installed
    /\ pc' = "idle"
    /\ run' = NoCommand
    /\ UNCHANGED <<disk, todo, plan, over, forced, fails, listed, touched, launched>>

\* { applied: true }; install still exits 1 when a download failed.
Applied ==
    /\ pc = "applying"
    /\ todo = <<>>
    /\ exit' = IF fails THEN "error" ELSE "ok"
    /\ settled' = IF Settles THEN run.build ELSE settled
    /\ installed' = IF run.kind = "install" /\ ~fails
                    THEN Provided ELSE installed
    /\ Done
    /\ UNCHANGED <<disk, launched>>

\* What a write cut short leaves: nothing usable or, of an index, a shorter
\* one that still parses.
Cut(c) ==
    {Torn} \cup IF c.name = Index
                THEN {SubSeq(c.data, 1, n) : n \in 0..Len(c.data)} ELSE {}

\* The process dies, before or inside a write or before it has decided.
Die ==
    /\ MayFail
    /\ pc \in {"planning", "applying"}
    /\ \/ UNCHANGED disk
       \/ /\ pc = "applying" /\ todo # <<>>
          /\ \E v \in Cut(Head(todo)) : disk' = [disk EXCEPT ![Head(todo).name] = v]
    /\ exit' = "none"
    /\ Done
    /\ UNCHANGED <<launched, settled, installed>>

\* The command that runs has looked at this file, or does not mean to.
Seen(n) ==
    \/ pc = "planning" /\ \E i \in DOMAIN plan : plan[i].name = n
    \/ pc = "planning" /\ \A i \in DOMAIN todo : todo[i].name # n
    \/ pc = "applying"

\* The player puts a file of its own in the place of this one, or removes it,
\* whatever command runs.
PlayerEdits(n) ==
    /\ \E v \in {Absent, Foreign} : disk' = [disk EXCEPT ![n] = v]
    /\ touched' = IF Seen(n) THEN touched \cup {n} ELSE touched
    /\ settled' = IF settled # NoBuild /\ n \in FilesOf(settled) THEN NoBuild ELSE settled
    /\ installed' = {c \in installed : c.name # n}
    /\ UNCHANGED <<pc, run, todo, plan, over, forced, fails, listed, exit, launched>>

Next ==
    \/ \E cmd \in Commands :
        \/ BuildRejected(cmd) \/ \E allow \in BOOLEAN : Build(cmd, allow)
        \/ InstallUnreadable(cmd) \/ Install(cmd)
        \/ LaunchableRefused(cmd) \/ Launchable(cmd)
        \/ LaunchRefused(cmd) \/ Launch(cmd)
    \/ GameCloses \/ LaunchEnds
    \/ Look \/ Skip \/ Fetch \/ DecidesNot
    \/ \E force \in BOOLEAN : Decides(force)
    \/ WriteNext \/ Applied \/ Die
    \/ \E n \in PlayerFiles : PlayerEdits(n)

Spec == Init /\ [][Next]_vars

-----------------------------------------------------------------------------
(* Properties.                                                             *)

TypeOK ==
    /\ DOMAIN disk = Names
    /\ \A s \in Slugs : disk[Meta(s)] \in Pins \cup {Absent, Torn, Foreign}
    /\ \A j \in Jars : disk[Jar(j)] \in Pins \cup {Absent, Torn, Foreign}
    /\ \A n \in BuildNamed : disk[n] \in Builds \cup {Absent, Torn, Foreign}
    /\ disk[Prism] \in {NoBuild, Absent, Torn, Foreign}
    /\ disk[Index] \in {Absent, Torn, Foreign} \/ disk[Index] \in Seq(Slugs)
    /\ pc \in {"idle", "planning", "applying", "running", "closed"}
    /\ run \in Commands \cup {NoCommand}
    /\ pc \in {"planning", "applying"} <=> run # NoCommand
    /\ run = NoCommand => command = <<NoCommand, <<>>, <<>>, FALSE, FALSE, FALSE, <<>>, {}>>
    /\ plan # <<>> => pc = "planning"
    /\ touched \subseteq PlayerFiles
    /\ listed \in Seq(JarChanges) /\ installed \subseteq JarChanges
    /\ over \in BOOLEAN /\ forced \in BOOLEAN /\ fails \in BOOLEAN /\ reports \in BOOLEAN
    /\ exit \in Exits
    /\ game \in [clean : BOOLEAN, reported : BOOLEAN]
    /\ settled \in Builds \cup {NoBuild}

\* Once a build has applied in full, and the player changed none of its files
\* since the build wrote them, the instance reads back as exactly that pack,
\* with that pack's launch profile, until the next build applies: whatever
\* torn, older or foreign files the build found, and whatever install, launch
\* and launchable do meanwhile.
BuildRoundTrip ==
    settled # NoBuild =>
        /\ CanRead
        /\ ReadPack = ModsOf[settled]
        /\ disk[Pack] = settled
        /\ disk[Profile] = settled

\* Once an install has exited 0, every jar of the pack it read has the bytes
\* its pin names, until the player changes that jar or the next install
\* applies: also a jar an earlier install left torn or another pack put there,
\* and a jar the player put there while another was downloaded.  (Two mods of
\* one jar name with different bytes cannot both be there.)
InstallMakesRunnable ==
    \A c \in installed :
        (\A d \in installed : d.name = c.name => d = c) => disk[c.name] = c.data

\* Two mods of the pack that is installed have one jar name.
Shared(n) == \E i, j \in DOMAIN listed : i # j /\ listed[i].name = n /\ listed[j].name = n

\* A file that exists changes under a command only with --force, unless the
\* player put or changed it after the command had looked at it: a command
\* replaces what it saw, however long its downloads took, and the one thing
\* --force does not guard is what came to be there since.  A file an earlier
\* command left torn counts as existing.  (Of two jars of one name the second
\* replaces the first.)
NoOverwriteWithoutForce ==
    [][\A n \in Names :
        Exists(n) /\ disk'[n] # disk[n] =>
            PlayerEdits(n) \/ forced \/ n \in touched \/ Shared(n)]_vars

\* A pack that was built under the override is handed to a launcher only under
\* the override: the marker of the build, which no other command removes, stops
\* launchable whatever ran in between, until the player removes it.  (A build
\* that dies before its last file has no marker yet.)
HandedOverSupported ==
    run.kind = "launchable" /\ ~run.allowUnsupported
        => settled \notin BlockedBuilds
=============================================================================
