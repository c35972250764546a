# Verification of the Minecraft modpack assistant

TLA+ models of the program in `src/`, checked with TLC on small instances, and
theorems about them proved with TLAPS for every value of the constants. Paths
below are relative to `src/src/` unless they start with `specs/`.

Sections: [the system](#the-system) · [modules](#modules) · [runs](#runs) ·
[proofs](#proofs) · [disagreements](#disagreements-between-code-and-documents) ·
[what is not modelled](#what-is-not-modelled) · [plan](#plan).

## The system

A TypeScript program, used from a command line (`cli/`), a desktop application
(`desktop/`) and a language-model session (`core/assistant/`), that interviews a
user about a Minecraft modpack, resolves mods to a pinned set, writes a pack into
a game instance, installs and launches it, and diagnoses, updates and exports it.
`core/` holds the logic behind ports; `integration/` implements the ports over
the file system, HTTP and child processes. There is one thread; everything that
touches the world is awaited, so other calls, other processes, the game and the
player run between any two awaits. There is no lock and no journal.

| Component | State it keeps | Operations | Talks to | What is hard | What makes it correct |
|---|---|---|---|---|---|
| Guarded writes (`integration/instance-fs`) | the instance's files, backup directories | `plan`, `apply` | every writer | two passes without a lock, torn files, calls that overlap, the player saving | nothing of the player's is lost; nothing changes unasked |
| Build, install, handoff, launch (`core/build`, `install`, `launchable`, `launch`) | only files of the instance | one command each | guarded writes, packwiz format, distribution gate | commands that die halfway, files that outlive the command that wrote them | a completed command's promise survives what came before and comes after |
| Orchestration (`core/orchestration`) | queue, seen refs, resolved map, issues | `resolveModpack` | mod catalog, loader versions | cycles, two names of one project, lookups failing midway | a clean set is complete; gaps are reported |
| Assistant session (`core/assistant`) | brief, resolved set, requirements, plan, confirmation | tool calls, write gate, deterministic pass | chat model, user, all of the above | a model that calls anything in any order | only a confirmed plan is applied; the session answers |
| Discovery (`core/discovery`) | draft, asked slot, defaults, conflicts | `applyTurn`, `confirm` | extractor, user | revisions, conflicts, "not sure" | the brief is what the user said; the interview ends |
| Authoring (`core/authoring`, `core/quests`, `core/scripts`, `cli/commands/quests.ts`, `kubejs.ts`) | conversation, attempts, the last draft and its findings | draft, validate, repair, plan, write | chat model, validators, guarded writes | a model that never repairs, several calls in one turn, cycles across chapters | only sound definitions are written; requests are well formed; attempts are bounded |
| Updates, migration (`core/updates`, `core/migration`) | the resolved set, one row per mod | resolve, look up, report, plan | catalog, conflict preflight | a catalog that publishes while it is read; lookups that fail one by one | a taken update breaks nothing that was not told; a migrated state is whole |
| Conflicts, versions (`core/conflicts`, `core/domain`) | none | detectors, ranges | – | declarations that overlap, unreadable ranges, unknown sides | agreement with what the mods declare |
| Requirements (`core/requirements`) | none | a sum of weights | – | – | – |
| Crash diagnosis (`core/crash-diagnosis`) | none | ingest, detect, propose | crash logs, mclo.gs | text matching | – |
| Export, release (`core/export`, `core/release`, `integration/packaging`) | the archive file | collect, package | pack format, distribution gate | check, then write | what the gate refuses is not packaged |
| Desktop renderer (`desktop/renderer`) | the mounted screen, the steps done, the calls in flight | preview, confirm, apply, navigate | main process | answers that arrive after their screen is gone; boxes edited after the preview | what is marked done was done; a screen is busy only with its own call |
| Desktop main process (`desktop/main`, `desktop/services.ts`, `desktop/shared`) | pending questions | one service per channel behind a guard | the commands | two lists of keys in two processes | the guard refuses a screen's call only for a value in it |
| Catalog, chat models, metadata, downloads (`integration/*`) | none | requests with retries | HTTP | time limits, retries | retries end |
| Command line (`cli/`) | none | parses arguments, prints | core | – | – |

`PROJECT.json` lists every component with its files and status, and under
`hazards` what is hard to test in this code, each at its line with the properties
that would catch it.

## Modules

Every module is written from the code; `PROJECT.json` `map` gives the lines of
every definition. Payloads are model values, wording and layout are left out, and
an operation is one action from one await to the next where other actors can run
in between.

### GuardedApply, SnapshotApply, GuardedApplyRefinement

`GuardedInstanceFs.apply`. One call goes through `pc`: *called* (validation),
*backup / found / copying* (pass 1), *write / writing* (pass 2), and one of five
ends. Each await is a boundary: `Probe` and `CopyBegin` are two steps, so are the
truncation and the completion of a copy or a write. `Fail` lets any await reject
and stands also for the end of the process; it leaves a copy or a write torn.
`PlayerSave` is the game or the player. `mine` and `raced` are history variables:
what the player saved last at each path, and whether that was `InTheGap`, after
some call copied the path and before it wrote it, when the code cannot keep it.

`Overlap`, `Own` and `Hasty` choose the environment: do calls overlap, which paths
does the player save, and which also while a call is in flight. `dir` is the backup
directory a call gets, one of `DirsOf` (the code names it by the millisecond, or is
given one): two calls may share one, and the paths both name are then `Contested`.

`SnapshotApply` is the contract of `core/ports/instance-fs.ts` without the two
passes: decline, or archive everything at one instant and then put files.
`GuardedApplyRefinement` maps the first to the second (`ArchiveView` publishes
the backup directory when pass 2 starts).

### InstanceLifecycle

One instance and the commands `build`, `install`, `launchable`, `launch`, each
with its flags; `install` takes the instance's own pack or, with `--from`, that of
another tree. A command first reads the pack (`Build`, `Install`, `Launchable`), then
looks at the files its plan may touch: an install at one jar after the other, with a
download in between that may fail (`Skip`, `Fetch`), the others at all files
at once (`Look`: each probe reads one file, so an edit between two of them could as
well come before or after them all). What it saw decides whether `--force` is needed
(`over`, `Decides`, `DecidesNot`). It then applies its plan one file at a time
(`WriteNext`), in the order the code lists the files; it may `Die` before or
inside any of them, which leaves that file torn or, for an index, shorter than it
should be and still readable. `PlayerEdits` puts or removes a file at any moment, also
between a command's look and its write.

A pin stands for the bytes its hash names; two pins may share a jar name. What
`launchable` writes for a launcher is taken as one file. A launch waits for the game
(`game`, `GameCloses`, `LaunchEnds`); `reports` remembers whether a crash report
lies in the instance. `listed` and `touched` are history variables of the command that runs (the
jars it is to provide, the files the player changed after it had looked at them), `settled`
and `installed` of what completed last. The commands run one at a time: what
overlapping writers do to each other is GuardedApply's subject. Reading the pack is one
step.

### AssistantSession

The session loop, the tool handlers that change `SessionState`, the write gate
and the deterministic pass. The model is an adversary: after every answer it
calls any tool with any argument, makes up to `MaxBatch` calls in one
completion, or fails. `Rejected` stands for every call that executes nothing and
for the tools that only read. `yesTo` and `applied` are history variables. How
the deterministic pass gets its brief is Discovery's subject; here it is one step.

### Orchestration

`resolveModpack` as a walk over a queue of refs. A project has an id and a slug;
seeds are either, dependencies are always ids. A catalog gives every project the
file that `pickCompatibleFile` picks, with its required and incompatible
projects. A lookup may fail at any ref. Issues are a set: the code may report one
twice, and no property counts them.

### Discovery

`applyTurn` and `confirm` under two drivers: `runDiscover`, which shows the brief
and takes anything but yes or no as a revision, and the assistant's
`discoverBrief`, which takes the first complete brief. A message is a set of
keywords, a text and whether it says "not sure". `Heard`, `Extracted`, `Merged`,
`Deferred` and `After` are the stages of a turn in the code's order, `Missing`,
`Supported` and `ServerSide` the checks of `validateBrief`, `NextTarget` the choice of
the next question. `guard` is the counter the two loops of `runDiscover` share.
`said` is a history variable: what the user gave last by keyword, per slot.

### Definitions, Authoring

`Definitions` has the two validators and, of the emitters, whether they throw.
A definition is what JSON or a model gives: fields may be missing. An item is its
namespace, a key the sequence of its parts between slashes. `FindCycle` is the depth-first
search of `core/quests/validate.ts`: `Turn` is one turn of it over the code's state (the
grey quests are the stack, the black ones a set), in the code's order, and since a turn visits
a white quest or returns from a grey one, two turns per quest are enough.

`Authoring` is the `quests` and `kubejs` commands. `Describe` starts the loop of
`core/authoring/draft.ts`: a request (`asking`), which the provider answers with
anything (`Drafted`), refuses for being busy (`Busy`, then `Awake` after the
back-off), or fails; a reply with findings adds a `RepairTurn` to `messages` and
asks again. `Define` gives a definition instead. What is accepted is probed, and
shown, refused or written in order, any suffix of the files staying unwritten
when a write fails. `disk` holds files, each a chapter or a script (with the quests it was
checked against); the history variable `whole` names the files of the last write of each kind, if
it was not cut short, so that what is on disk can be read back. `attempt` and `tries` are the two counters of the code, of
completions and of requests within one.

### Desktop, DesktopIpc

`DesktopIpc` is the guard: for each channel the keys its schema knows and requires, and
the keys whose value it does not take (an empty string, one that is too long, a list with too many
members, a definition without the structure it wants).
`Desktop` has every screen of the window that calls the main process, and the
services that answer. One screen is mounted (`ui`). The boxes can be edited at any
moment, also behind an open dialog, and editing resets nothing, so what they hold is
chosen when a button is pressed (`Boxes`, with the value the guard would not take as `unfit`). Each screen is an operator that says when
its buttons are enabled and which keys its call has. `Preview`, `Ask`, `Confirm`,
`Cancel` and `GoTo` are the user; a call in flight is a record in `calls` that outlives its
screen (`live`); one `Serve` action per channel answers it and
writes; `Settle` delivers the answer, records the step it completes or takes
back and, if the screen is still there, shows it. The effect that diagnoses a crash on
arrival is part of `GoTo` and `Settle`. A folder is what it holds per kind of
content; what the commands do inside it is InstanceLifecycle's, Authoring's and
GuardedApply's subject.

### Preflight, Upkeep

`Preflight` has the version ranges, the five detectors over a resolved set and the
comparison of two sets. `Upkeep` is the `updates` and `migrate` commands: the set is
resolved one ref at a time, then looked up one mod at a time, while any project may
publish its next release between two lookups (`Publish`), any lookup may fail, and
the side of a mod, which comes of a second request, may stay unknown.
What is resolved adds what it `Requires`, in order, to the queue.
`ReportUpdates` compares the candidate set with the old one, `PlanUpdate` takes any
of the rows, `ReportMigration` pins the loader and gives the verdict. Releases stand
in the order of their publication. A version, and an end of a range, is one segment: a
natural, or `NoNumber`, a text that `compareVersions` reads as 0 (`Segment`). A declaration means
the mod of its project or, if that is not in the set or not given, the last one with
its mod id (`FindTarget`).

## Runs

TLC evaluates every `ASSUME` in each run. All state spaces below are exhausted.

| Run | Checks | Shows |
|---|---|---|
| `GuardedApply_overlap` | `TypeOK`, `NothingLost`, `OnlyLicensedChanges`, `CallsSettle` | two overlapping calls, failures anywhere, the player saving one file at any time: no content of the player is lost but what was saved in the gap between a call's copy and its write, or copied by two calls into one directory; nothing changes without a confirmed plan that lies inside the instance and names the path; every call settles, whatever vanishes under it |
| `GuardedApply_serial` | `ImplementsSnapshotApply` | an undisturbed call implements the abstract contract |
| `InstanceLifecycle_commands` | `TypeOK`, `BuildRoundTrip`, `InstallMakesRunnable`, `NoOverwriteWithoutForce`, `HandedOverSupported` | any sequence of commands, each of which may die inside a write, while the player edits at any moment, downloads included: what a completed build and install promise still holds, a file a command saw changes only under `--force`, a completed override build is not handed over without the override |
| `AssistantSession_tools` | `TypeOK`, `PlanCurrent`, `AppliesConfirmedPack`, `LineAnswered` | any tool calls in any order; the loop returns to the user |
| `Orchestration_walk` | `TypeOK`, `CleanSetComplete`, `GapsReported`, `OriginsRight`, `ResolutionEnds`, `ResolutionShrinks` | every small catalog, lookups failing anywhere; cycles and failures do not keep the walk going, because each step leaves fewer refs unseen, fewer dependencies of a file or a shorter queue |
| `Authoring_commands` | `TypeOK`, `TranscriptAnswered`, `OnlySoundOnDisk`, `ReportOfLastDraft`, `CommandEnds`, `CommandSpends` | a provider that is busy, fails or answers anything: every request answers the calls of the turns before it, the chapters of a whole write are on disk a quest line that can be completed, scripts on disk react to the quests they were checked against, a failed draft is reported with its own findings, every command ends, within the completions and repeated requests it may make |
| `Desktop_screens` | `TypeOK`, `StepsEarned`, `BusyMeansCalling`, `RefusedOnlyForValues`, `BadNeverWritten` | calls of any screens, served and settled in any order while the user edits and navigates: a step marked done was done, a screen is busy exactly with its own call, the guard refuses a call only for a value the user gave (empty, too long, or of no structure), never for its keys, what the gate refuses is never written |
| `Upkeep_commands` | `TypeOK`, `BreaksNothingUnseen`, `MigratesWhole` | a catalog that publishes and fails while it is read: taking every reported update meets no conflict that was not told, a migrated state is the whole resolved set on a pinned loader |
| `Discovery_interview` | `TypeOK`, `LastWordKept`, `BriefAccountedFor`, `TurnsBounded`, `ConflictsResolvable`, `ConversationEnds` | any answers to both drivers: no default or question overrides what the user said, a confirmed brief is complete and consistent, no conflict is a dead end, the interview ends |

Three more runs end in a counterexample; see
[disagreements](#disagreements-between-code-and-documents).

### Bounds, and why they are enough

* **GuardedApply**: two calls (interference is pairwise: a third writer meets the
  same half-done states), two paths the player may own and one that escapes,
  two contents of the program and two of the player (so that an older content of
  the player is told from the latest). The player saves one of the two paths at any
  moment (`Hasty`), the other between calls; the two are alike in the code, and a
  plan writes the hasty one twice, or after another file, or is rejected. The second
  call shares the first one's directory or has its own. The three plans of `MCPlans` cover two
  files, one file twice, a delete with a write, and an escaping path.
* **InstanceLifecycle**: two packs over two mods, three pins, two jar names. The
  second pack is blocked, repins the first mod to a file of the same name and
  adds a mod: the smallest case in which a mixture of two packs exists. The player edits the
  jar the packs share and the marker (`PlayerFiles`), a file `install` looks at one by one and
  one `build` and `launchable` look at; the rest are no different to the code. The other tree
  (`Trees`) holds the first pack. Commands are not bounded; the state space (5.5 million states) is
  finite because files are overwritten.
* **AssistantSession**: two briefs (a plan can be stale by its brief), up to three
  tool calls per line (`MaxToolCalls`) and per completion (`MaxBatch`), so the
  limit falls inside a completion. Lines are not bounded.
* **Orchestration**: three projects, all catalogs in which each file requires up
  to two others (itself included, and in one file an entry without an id) and
  may exclude one; seeds by slug, by id and by both names of one project. Cycles
  of length one, two and three, diamonds and missing files all occur.
* **Authoring**: two commands, so that the second meets files of the first; eight
  quest and five script definitions, one for each thing the validators tell apart (a
  cycle across two chapters, two quests of one key, two chapters of one file, a
  dangling dependency, a foreign and a known namespace, missing tasks); `--attempts`
  0, 3 and not a number; one repeated request (`MaxRetries`; the program has 3 and
  nothing but the bound depends on it).
* **Desktop**: two calls (`MaxCalls`), which is enough for a preview and its
  apply, for an answer that finds another screen busy, and for two writes of
  different content; one folder that may hold a pack from an earlier day, one pack
  the gate accepts and one it refuses.
* **Upkeep**: two projects of two releases and a library, all ways in which the
  releases exclude, require or ignore each other that the ranges tell apart
  (unreadable ones included) and by project or by a mod id that two mods share, one
  release whose version is no number, releases for one or for all targets, with and without a
  hash; a target without its loader; either environment.
* **Discovery**: three texts (plain, empty, one that hints at a light pack and names
  a client-only mod), one keyword in a message besides its text (`MaxMentions`),
  and `MaxTurns` 5 where the program has 50: enough to fill all eight slots, to meet
  either conflict, to revise a shown brief, and to run into the limit.

### Fairness

* `GuardedApply`: weak fairness of each call's progress. Node settles the
  promises it starts; `Fail` is never required, so nothing is shown by failing.
* `AssistantSession`: weak fairness of `Progress`: the adapter answers or fails
  (each request has a time limit), handlers return, a user that is asked answers.
  A user's new line or exit is not required. The assumption is on their
  disjunction: which tool the model calls stays its choice.
* `Orchestration`: weak fairness of the walk; a lookup answers or fails.
* `Authoring`: weak fairness of the running command: a request is answered or
  fails (each has a time limit), a back-off ends, files are written or an error is
  thrown. Which of these happens is not constrained. Starting a command is not required.
* `Desktop`, `Upkeep`, `InstanceLifecycle`: none; no liveness is claimed of them.
* `Discovery`: weak fairness of the conversation as a whole: a question is answered,
  at the end of piped input with the empty line (`cli/commands/discover.ts` 147-162).
  What the answers are is not constrained.

## Proofs

Of the properties the runs check, all are also theorems except the liveness ones (see
below). They follow from the constants' assumptions only, except where said. Each
inductive invariant was first checked by TLC as an invariant of a run with the
same constants (`PlanInv` over a third of the catalogs).

Liveness itself is out of the prover's reach; what can be proved of it is that
nothing goes round in a circle. `ResolutionShrinks`, `CommandSpends`,
`LineSpends`, `CallsAdvance` and Discovery's `TurnsBounded` say of the five loops that every step uses up
something of which there is finitely much (`LineSpends` and `CallsAdvance` are
defined beside their proofs; the others are checked by runs too). Together with
the fairness above, under which a step is taken while one is enabled, that is
why the loops end for any values of the constants, provided `Projects` is finite. That a step is
enabled until then is what TLC's liveness runs check.

* **GuardedApplyProofs** – `TypeCorrect`, `BackupBeforeWrite`, `ChangesAreLicensed`,
  `ImplementsContract`, `CallsGoForward`.
  * `NothingLost` is not inductive: it does not say why a backup that holds the
    player's content stays as it is while other calls go on copying. `BackupInv` adds
    that a content not at its path is `Secured`: held by the backup of a call that is
    past pass 1 (and so copies nothing any more); and that a call in pass 1 has, for
    every entry it passed, either the latest content in its own backup or a
    secured one. A path is written only in pass 2, when all paths of the plan are
    secured, and stays so for the entries still to be written. The player may save at
    any moment: contents saved in the gap between a call's copy of the path and its
    write are in no copy. Two calls of one millisecond share a directory, and the
    second may overwrite a copy of the first. The theorem, which assumes nothing of
    the environment, says that these two are the only ways to lose a content; TLC
    finds each of them when its disjunct is dropped.
  * `OnlyLicensedChanges` needs `Validated`: a call in either pass is confirmed and
    its whole plan lies inside the instance. It holds with any overlap.
  * The refinement assumes `~Overlap`, `Hasty = {}` (the player waits for a call
    to end) and `DistinctDirs` (a later call may not replace the archive).
    `SnapshotInv` says that one call is in flight; that in pass 1 its backup
    directory holds exactly the files of the entries it passed (`Copied`), so that what is
    published on entering pass 2 is one snapshot; and that in pass 2 the
    entries it passed are in place, each path as the last of them says
    (`Written`), so that a success has them all.
* **InstanceLifecycleProofs** – `TypeCorrect`, `BuildReadsBack`, `HandsOverSupported`,
  `InstallIsRunnable`, `OverwritesOnlyForced`. `PackInv` says that what is whole on disk
  is of its kind (`DiskFits`), that what a dying command has left to write fits its
  command (`PlanFits`), and that the files of the pack built last in full are all
  there until another build applies or the player changes one (`BuildKept`). The last two theorems are about jars and
  need `JarInv`: a jar the install is to provide has its pinned bytes, is still to be looked
  at or written, failed to download, shares its name, or was touched by the player
  (`InstallKept`, `Once`), and what a command without `--force` has left to write was
  absent when it looked (`OnlyNew`). Nothing is assumed of the packs but distinct
  slugs: two mods of one jar name cannot both have their bytes on disk, and the properties
  say so.
* **AssistantSessionProofs** – `TypeCorrect`, `PlanIsCurrent`,
  `WritesConfirmedPack`, `LineIsBounded`, from `SessionInv`. The action property needs
  `ConfirmationCurrent`: a standing confirmation is of the pack resolved last,
  since whatever replaces the set withdraws it, and the deterministic pass
  starts without one. `WithinLimit` says what a line may cost: the model is asked only
  below `MaxToolCalls`, but the calls of one completion are all made.
* **OrchestrationProofs** – `TypeCorrect`, `GapsAreReported`, `CleanSetIsComplete`,
  `OriginsAreRight`, `WalkShrinks`. `WalkInv`: a ref that was seen is pinned or reported; seeds are
  seen or queued; a required dependency of a pinned file is reported, pinned, seen,
  queued, or not yet looked at in the file the loop is at. With the queue empty
  these say what the first theorems say. `OriginInv` says that the queue is first
  in, first out: while a seed waits, everything before it is a seed too, and a
  project pinned for another was not asked for by a seed that is still to come.
  `Needed` is the intersection of all sets closed under dependencies, so that being
  needed is carried along the walk without an induction.
* **DiscoveryProofs** – `TypeCorrect`, `LastWordStands`, `BriefIsAccountedFor`,
  `QuestionsAreBounded`, `ConflictsAreResolvable`. `LastWordKept` alone is not
  inductive: a text answer would overwrite a keyword if a filled slot could be asked
  for, which `AsksOpenSlot` excludes. `TurnBudget` weighs turns against the counter
  at each point of the loops; in `runDiscover` a round is paid for before it asks,
  so a revision costs nothing more. A conflict asks for no slot
  (`ConflictAsksNothing`), which is why one keyword resolves it and changes nothing
  else; the theorem assumes that a message may have a keyword.
* **AuthoringProofs** – `TypeCorrect`, `RequestsAnswerCalls`, `ReportsItsDraft`,
  `OnlySoundReachesDisk`, `CommandsSpend`, from `AuthorInv`, and `FindCycleExact`, `ValidatorExact`.
  * `Conversation` says of the transcript as a whole that each tool call is
    answered within it, which a repair turn preserves by being closed in itself
    (`RepairTurn` answers its own calls); `Running` ties what was accepted to the kind
    of the command and leaves room for the retry a wait will count.
  * `FindCycleExact`: the search finds a cycle if and only if the quests have no order
    that respects their dependencies (`Ranked`). `Searching` is the invariant of its
    turns: the stack is a path of dependencies without repetition, what is black
    depends on black quests only and has a rank, and black and stack together
    count the turns, so that after two turns per quest all are black or a cycle was
    returned. If all are black, the order in which they turned black is the
    one sought; if a cycle was returned, no order exists (`TiedNotRanked`).
  * `ValidatorExact`: of the findings, those about the structure (`Structural`: twin keys,
    dangling dependencies, cycles) are empty if and only if every quest
    can be completed. The files of a whole write with distinct names make up, read back,
    the definition that was `Checked`, and each script on disk was checked against the
    quests kept with it; this gives `OnlySoundReachesDisk`, whoever wrote the definition.
    A write cut short leaves chapters that may wait for missing ones: the property says nothing
    of quests until the next whole write.
  * The definitions are assumed to be sequences of chapters with sequences of quests
    (`QuestShape`, `IsSequence` in `AuthoringAssumption`): what parses and has another shape
    is `Misshapen` and throws.
* **DesktopProofs** – `TypeCorrect`, `RefusedNeverWritten`, `DoneWasDone`, `BusyIsCalling`,
  `GuardRefusesOnlyValues`. Every service is summarised as one answer to one call and one
  write that is good (`Answered`, `WritesGood`), and `AppInv` is proved of the summary: an
  answer that says a step was done says so of a disk that shows it (`CallsKept`), which
  stays true because nothing is ever removed. `GuardRefusesOnlyValues` compares the
  keys each screen builds with the schema of its channel, whatever the boxes hold.
* **UpkeepProofs** – `TypeCorrect`, `MigratesTheWholeSet`, `UpdatesBreakNothingUnseen`,
  `CertainIsReal`, `UnparsedIsCertain`. `Inv` keeps the rows and the migrated entries beside the mods they
  are about. `PlanInv` adds that the regressions of a report are those of the
  candidate set, so that a plan that takes every update is that set; the
  rest is about the detectors: what a pair declared once excludes, requires
  or is on the wrong side for has a finding, and its key is that of a regression or
  of an old conflict. `CertainIsReal` is the other direction, for any number of
  declarations: a certain finding is a conflict the set has, said without
  the detectors (`InConflict`), or rests on a version or range end that is no number (`Misread`).
  `UnparsedIsCertain` shows that the exception is a false certainty, not an empty case. `TypeInv` says of the resolved set that each entry is one
  release of a project taken up once (`ResolvedOnce`) and that what a row found
  is an entry of its project (`RowEntries`).

Two modules need induction over the naturals. The library's induction rule takes an operator, which
the provers cannot instantiate; `SetInduction` says the same of a set and
follows from the library's well-foundedness of the naturals. A recursive function over `0..n`
(`turn` in `FindCycle`, `among` in `Requires`) is then shown to exist, to have its
recursion equation and the invariant of its values.

Only model-checked: liveness (`CallsSettle`, `LineAnswered`, `ResolutionEnds`,
`ConversationEnds`, `CommandEnds`) and anything about `ENABLED`, which the prover does not reach.

No module that is proved about declares a recursive operator.

## Disagreements between code and documents

Each is a run that TLC ends with a counterexample; `PROJECT.json` `findings`
quotes the line it contradicts.

| Run | Property | What happens |
|---|---|---|
| `AssistantSession_survives` | `FallbackSurvives` | a mod of unknown side crashes the deterministic pass |
| `Desktop_seen` | `WritesWhatWasSeen` | boxes edited after the preview, or a definition drafted anew, are written without having been shown |
| `Upkeep_dropped` | `NothingDropped` | a mod that could not be resolved is missing from a migration that says it can go |

Seen while modelling; no run is about them, and where a property had to be
stated around one its comment says so.

Guarded writes and the instance:

* A file saved between pass 1 and pass 2 is replaced without a copy
  (`guarded-instance-fs.ts` 226-244); `raced` in `NothingLost` is this case.
* `--force` is asked for what was there when a command looked. An install looks at each jar
  once and downloads before it writes, so a jar put there meanwhile is replaced without
  `--force` (`install.ts` 51, 62); a backup is still made of it. `NoOverwriteWithoutForce`
  names this window with `touched`.
* Of two mods with one jar name the second replaces the first in the same install, without `--force`.
* No build removes the marker of an earlier override build (spec 0023, AC-6).
* An override build that dies before its marker is handed over as supported.
* The crash report of an earlier run turns a clean exit into a crash
  (`core/launch/resolve.ts` 55).

Assistant and discovery:

* A confirmation stays after a new plan of the same set (`session.ts` 82, spec 0017 FR-4).
* The model, not the instance, tells which files exist.
* "Nothing was written" is said after an apply when the model then fails.
* A theme or must-have once given cannot be changed (spec 0001 FR-6), and a default
  stays marked as one after the user has changed it.

Authoring:

* A definition without tasks, or JSON `null`, throws instead of being repaired (spec
  0020 FR-2).
* `--attempts` that is not a number makes no request at all.
* Two chapters of one file name overwrite each other (`core/quests/validate.ts` 119; spec 0011
  FR-2 asks for one file per chapter, `specs/0011-ftbquests-generation/spec.md` 83-86), and then
  quests may wait for ones that are in no file; a renamed chapter leaves its old file; keys
  that differ only in slashes may give one id.
* A `Retry-After` is waited for however long it is; network errors are not retried.

Updates and migration:

* A declared incompatibility is marked as seen before its range is looked at (spec
  0007 FR-3).
* A version segment, or a range end, that does not start with a digit compares as 0
  (`core/domain/version-range.ts` 18-34), so an installed version that is no number gives a certain
  mismatch; `detectors/version-mismatch.ts` 6-7 and spec 0007 FR-9 say that the check is
  skipped. `UnparsedIsCertain` is this case; `BreaksNothingUnseen` leaves it out (`Numeric`).
* Of two mods with one mod id a declaration by id means the last only (`OwnId`).
* `updates` prints the regressions, not the pre-flight of the old set, which `BreaksNothingUnseen`
  counts as told; a user gets it from `orchestrate --preflight`.
* A dependency that only the new release requires and nobody installed is not reported
  (spec 0013, 160-163).
* `updates` resolves the newest set anew, so old pins are never reported (spec 0013
  AC-2), and it does not read the issues of the resolution either.
* Regressions are those of taking all updates; for a subset they may differ.
  `planUpdate` takes the latest release of rows that are up to date, too.
* A regression that was suspected and becomes certain has the same key and is not told.
* A release without a hash makes the plan or the migrated state throw.

Desktop:

* A preview that is rejected still offers the confirmation of the one before, an
  empty mod list can be confirmed, and the tick for `--force` stays
  (`BuildScreen.tsx` 98-100).
* Taking back a step leaves the later ones done (`workflow.ts` 36).
* No check of the doctor fails, so its exit code 1 is never seen.

## What is not modelled

* Requirements: a sum of weights with thresholds; nothing else reads it but the side of a
  plan, for which AssistantSession keeps two values apart.
* Crash diagnosis: pattern matching over log text. Desktop only asks whether a
  diagnosis was made.
* Text: TOML, SNBT, scripts, prompts, rendered reports, archive formats, and version strings
  beyond one segment, which is a number or not.
* Adapters over HTTP (catalog, loader versions, launcher metadata, mclo.gs) and for
  downloads, logs and syntax checks: an answer or a failure where a modelled
  component uses them. The chat adapters' retries are in Authoring.
* The interactive sessions of the main process (`desktop/main/interactive.ts`): no
  screen opens one.
* The window itself: navigation guard, layout, wording.
* Symbolic links inside an instance, beyond the fact that a path may escape.
* Argument parsing of the command line.

## Plan

1. Done, with proofs: guarded writes, the instance's life, the assistant session,
   orchestration, discovery, authoring, the desktop, updates and migration.
2. Export and release below the desktop: the no-clobber write of the archive.
3. Interactive sessions, once a screen opens one: two questions and one reply.
4. Requirements and version ranges as operators against a reference definition.
5. Proofs: the contract of `SnapshotApply` for calls that overlap on different paths.
