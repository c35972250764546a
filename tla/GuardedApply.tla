---------------------------- MODULE GuardedApply ----------------------------
(***************************************************************************)
(* The guarded write path to a game instance: GuardedInstanceFs.apply      *)
(* (src/src/integration/instance-fs/guarded-instance-fs.ts).  Every write  *)
(* of the program goes through it.                                         *)
(*                                                                         *)
(* A call validates its whole plan, copies every existing target into a    *)
(* backup directory (pass 1), then writes or deletes the targets (pass 2). *)
(* No lock is held, so between any two awaits other calls of this or of    *)
(* another process run, the player's game saves files, and the call may    *)
(* fail: an I/O error, a path that left the instance since it was          *)
(* validated, or the end of the process.  copyFile and writeFile truncate  *)
(* their destination first, so a failure there leaves a torn file.         *)
(***************************************************************************)
EXTENDS Naturals, Sequences

CONSTANTS
    Calls,          \* invocations of apply, each made once
    Paths,          \* instance-relative paths
    Data,           \* contents the program writes
    PlayerData,     \* contents the player or the game writes
    NoFile,         \* the path does not exist
    Torn,           \* a truncated or partly written file
    Escaping,       \* paths that resolve outside the instance
    Plans,          \* the plans a caller may pass: sequences of changes
    Dirs,           \* backup directories
    DirsOf,         \* those each call may compute, by the millisecond it is made
    Overlap,        \* calls may be in flight together
    Own,            \* paths at which the player keeps files
    Hasty           \* those the player saves also while a call is in flight

Content == Data \cup PlayerData \cup {NoFile, Torn}

\* A change of kind 'write' or 'write-bytes' carries data; 'delete' is NoFile.
Change == [path : Paths, data : Data \cup {NoFile}]

ASSUME ConstantsAssumption ==
    /\ NoFile \notin Data \cup PlayerData
    /\ Torn \notin Data \cup PlayerData \cup {NoFile}
    /\ Plans \subseteq Seq(Change)
    /\ DirsOf \in [Calls -> SUBSET Dirs]
    /\ Overlap \in BOOLEAN
    /\ Own \subseteq Paths
    /\ Hasty \subseteq Own

VARIABLES
    fs,         \* contents of the instance's files
    backup,     \* contents of the backup directories
    pc,         \* where each call is
    dir,        \* the backup directory each call gets, settled beforehand
    plan,       \* the plan of each call
    confirm,    \* the confirm option of each call
    idx,        \* the entry of the plan the current pass is at
    src,        \* what copyFile has read so far of the file it copies
    mine,       \* history: the player's latest own contents of each path
    raced       \* history: they came between a call's copy and its write

callVars == <<pc, dir, plan, confirm, idx, src>>
history == <<mine, raced>>
vars == <<fs, backup, callVars, history>>

BackingUp == {"backup", "found", "copying"}
Writing   == {"write", "writing"}
\* "failed" and "partial" are the same rejected promise, before and after the
\* first write; "refused" is { applied: false }.
Ended     == {"refused", "rejected", "failed", "partial", "applied"}
PCs       == {"idle", "called"} \cup BackingUp \cup Writing \cup Ended

InFlight(c) == pc[c] \notin {"idle"} \cup Ended
Entry(c)    == plan[c][idx[c]]
Target(c)   == Entry(c).path
Dest(c)     == dir[c]
MoreEntries(c) == idx[c] <= Len(plan[c])
PlanPaths(c)   == {plan[c][i].path : i \in 1..Len(plan[c])}

Init ==
    /\ fs \in [Paths -> PlayerData \cup {NoFile}]
    /\ \A p \in Paths \ Own : fs[p] = NoFile
    /\ mine = fs
    /\ raced = [p \in Paths |-> FALSE]
    /\ backup = [d \in Dirs |-> [p \in Paths |-> NoFile]]
    /\ pc = [c \in Calls |-> "idle"]
    /\ dir \in [Calls -> Dirs]
    /\ \A c \in Calls : dir[c] \in DirsOf[c]
    /\ plan = [c \in Calls |-> <<>>]
    /\ confirm = [c \in Calls |-> FALSE]
    /\ idx = [c \in Calls |-> 1]
    /\ src = [c \in Calls |-> NoFile]

-----------------------------------------------------------------------------
(* One call.                                                               *)

\* A caller invokes apply(plan, { confirm }).
Invoke(c) ==
    /\ pc[c] = "idle"
    /\ Overlap \/ \A o \in Calls : ~InFlight(o)
    /\ \E pl \in Plans, ok \in BOOLEAN :
        /\ plan' = [plan EXCEPT ![c] = pl]
        /\ confirm' = [confirm EXCEPT ![c] = ok]
    /\ pc' = [pc EXCEPT ![c] = "called"]
    /\ UNCHANGED <<fs, backup, idx, src, dir, history>>

\* Dry-run by default: without confirmation nothing is touched.
Refuse(c) ==
    /\ pc[c] = "called"
    /\ ~confirm[c]
    /\ pc' = [pc EXCEPT ![c] = "refused"]
    /\ UNCHANGED <<fs, backup, plan, confirm, idx, src, dir, history>>

\* Mutant of Validate: only the first path is checked.
ValidateFirst(c) ==
    /\ pc[c] = "called"
    /\ confirm[c]
    /\ pc' = [pc EXCEPT ![c] = IF Target(c) \notin Escaping
                               THEN "backup" ELSE "rejected"]
    /\ UNCHANGED <<fs, backup, plan, confirm, idx, src, dir, history>>

\* Every target and every backup destination is checked before anything is
\* created; one that escapes rejects the whole plan.
Validate(c) ==
    /\ pc[c] = "called"
    /\ confirm[c]
    /\ pc' = [pc EXCEPT ![c] = IF PlanPaths(c) \cap Escaping = {}
                               THEN "backup" ELSE "rejected"]
    /\ UNCHANGED <<fs, backup, plan, confirm, idx, src, dir, history>>

\* Mutants of Probe: a file to be deleted is not copied; an absent target is
\* not passed by.
ProbeWritesOnly(c) ==
    /\ pc[c] = "backup"
    /\ MoreEntries(c)
    /\ IF fs[Target(c)] = NoFile \/ Entry(c).data = NoFile
       THEN /\ idx' = [idx EXCEPT ![c] = @ + 1]
            /\ UNCHANGED pc
       ELSE /\ pc' = [pc EXCEPT ![c] = "found"]
            /\ UNCHANGED idx
    /\ UNCHANGED <<fs, backup, plan, confirm, src, dir, history>>
ProbeStays(c) ==
    /\ pc[c] = "backup"
    /\ MoreEntries(c)
    /\ fs[Target(c)] # NoFile
    /\ pc' = [pc EXCEPT ![c] = "found"]
    /\ UNCHANGED <<fs, backup, plan, confirm, idx, src, dir, history>>

\* Pass 1: does the target exist?
Probe(c) ==
    /\ pc[c] = "backup"
    /\ MoreEntries(c)
    /\ IF fs[Target(c)] = NoFile
       THEN /\ idx' = [idx EXCEPT ![c] = @ + 1]
            /\ UNCHANGED pc
       ELSE /\ pc' = [pc EXCEPT ![c] = "found"]
            /\ UNCHANGED idx
    /\ UNCHANGED <<fs, backup, plan, confirm, src, dir, history>>

\* Mutant of CopyBegin: the entry counts as copied once the copy has begun.
CopyBeginCounts(c) ==
    /\ pc[c] = "found"
    /\ fs[Target(c)] # NoFile
    /\ backup' = [backup EXCEPT ![Dest(c)][Target(c)] = Torn]
    /\ src' = [src EXCEPT ![c] = fs[Target(c)]]
    /\ pc' = [pc EXCEPT ![c] = "copying"]
    /\ idx' = [idx EXCEPT ![c] = @ + 1]
    /\ UNCHANGED <<fs, plan, confirm, dir, history>>

\* copyFile opens the target, which must still exist, and truncates the
\* destination.
CopyBegin(c) ==
    /\ pc[c] = "found"
    /\ fs[Target(c)] # NoFile
    /\ backup' = [backup EXCEPT ![Dest(c)][Target(c)] = Torn]
    /\ src' = [src EXCEPT ![c] = fs[Target(c)]]
    /\ pc' = [pc EXCEPT ![c] = "copying"]
    /\ UNCHANGED <<fs, plan, confirm, idx, dir, history>>

\* The target vanished since the probe: copyFile rejects, and so does apply.
Vanished(c) ==
    /\ pc[c] = "found"
    /\ fs[Target(c)] = NoFile
    /\ pc' = [pc EXCEPT ![c] = "failed"]
    /\ UNCHANGED <<fs, backup, plan, confirm, idx, src, dir, history>>

\* copyFile completes.  A target that changed under the copy leaves the old
\* contents, the new ones or a mixture.
CopyEnd(c) ==
    /\ pc[c] = "copying"
    /\ \E v \in IF fs[Target(c)] = src[c] THEN {src[c]}
                ELSE {src[c], fs[Target(c)], Torn} :
        backup' = [backup EXCEPT ![Dest(c)][Target(c)] = v]
    /\ src' = [src EXCEPT ![c] = NoFile]
    /\ idx' = [idx EXCEPT ![c] = @ + 1]
    /\ pc' = [pc EXCEPT ![c] = "backup"]
    /\ UNCHANGED <<fs, plan, confirm, dir, history>>

\* Pass 1 is over; pass 2 starts at the first entry.
EndBackup(c) ==
    /\ pc[c] = "backup"
    /\ ~MoreEntries(c)
    /\ idx' = [idx EXCEPT ![c] = 1]
    /\ pc' = [pc EXCEPT ![c] = "write"]
    /\ UNCHANGED <<fs, backup, plan, confirm, src, dir, history>>

\* Pass 2, a delete: rm with force, which does not mind a missing file.
Remove(c) ==
    /\ pc[c] = "write"
    /\ MoreEntries(c)
    /\ Entry(c).data = NoFile
    /\ fs' = [fs EXCEPT ![Target(c)] = NoFile]
    /\ idx' = [idx EXCEPT ![c] = @ + 1]
    /\ UNCHANGED <<backup, pc, plan, confirm, src, dir, history>>

\* Pass 2, a write: writeFile truncates the target...
WriteBegin(c) ==
    /\ pc[c] = "write"
    /\ MoreEntries(c)
    /\ Entry(c).data # NoFile
    /\ fs' = [fs EXCEPT ![Target(c)] = Torn]
    /\ pc' = [pc EXCEPT ![c] = "writing"]
    /\ UNCHANGED <<backup, plan, confirm, idx, src, dir, history>>

\* ...and fills it.  If another writer got in between, the two contents may
\* mix, or this one may land in a file that is no longer at the path.
WriteEnd(c) ==
    /\ pc[c] = "writing"
    /\ \E v \in IF fs[Target(c)] = Torn THEN {Entry(c).data}
                ELSE {Entry(c).data, fs[Target(c)], Torn} :
        fs' = [fs EXCEPT ![Target(c)] = v]
    /\ idx' = [idx EXCEPT ![c] = @ + 1]
    /\ pc' = [pc EXCEPT ![c] = "write"]
    /\ UNCHANGED <<backup, plan, confirm, src, dir, history>>

\* Mutant of Finish: the call resolves while entries are left.
FinishEarly(c) ==
    /\ pc[c] = "write"
    /\ pc' = [pc EXCEPT ![c] = "applied"]
    /\ UNCHANGED <<fs, backup, plan, confirm, idx, src, dir, history>>

\* { applied: true, backupPath, written }.
Finish(c) ==
    /\ pc[c] = "write"
    /\ ~MoreEntries(c)
    /\ pc' = [pc EXCEPT ![c] = "applied"]
    /\ UNCHANGED <<fs, backup, plan, confirm, idx, src, dir, history>>

\* An await rejects (an I/O error, the containment check repeated before each
\* step) or the process ends.  Nothing is rolled back.
Fail(c) ==
    /\ InFlight(c)
    /\ pc' = [pc EXCEPT ![c] = IF @ \in Writing THEN "partial" ELSE "failed"]
    /\ UNCHANGED <<fs, backup, plan, confirm, idx, src, dir, history>>

Progress(c) ==
    \/ Refuse(c) \/ Validate(c)
    \/ Probe(c) \/ CopyBegin(c) \/ Vanished(c) \/ CopyEnd(c) \/ EndBackup(c)
    \/ Remove(c) \/ WriteBegin(c) \/ WriteEnd(c) \/ Finish(c)

\* The call has copied p, or is at it, and has yet to write it: what is saved
\* at p now is in no copy and will be overwritten.
InTheGap(c, p) ==
    \E j \in 1..Len(plan[c]) :
        /\ plan[c][j].path = p
        /\ \/ pc[c] \in BackingUp /\ j < idx[c]
           \/ pc[c] = "copying" /\ j = idx[c]
           \/ pc[c] \in Writing /\ j >= idx[c]

\* The player, or the running game, saves or deletes a file of its own.
PlayerSave(p) ==
    /\ p \in Hasty \/ \A c \in Calls : ~InFlight(c)
    /\ \E v \in PlayerData \cup {NoFile} :
        /\ v # fs[p]
        /\ fs' = [fs EXCEPT ![p] = v]
        /\ mine' = [mine EXCEPT ![p] = v]
    /\ raced' = [raced EXCEPT ![p] = \E c \in Calls : InTheGap(c, p)]
    /\ UNCHANGED <<backup, callVars>>

Next ==
    \/ \E c \in Calls : Invoke(c) \/ Progress(c) \/ Fail(c)
    \/ \E p \in Own : PlayerSave(p)

Spec == Init /\ [][Next]_vars

\* Node settles every promise it started: a call in flight keeps moving,
\* and need not fail.
Fairness == \A c \in Calls : WF_vars(Progress(c))
FairSpec == Spec /\ Fairness

-----------------------------------------------------------------------------
(* Properties.                                                             *)

TypeOK ==
    /\ fs \in [Paths -> Content]
    /\ mine \in [Paths -> PlayerData \cup {NoFile}]
    /\ raced \in [Paths -> BOOLEAN]
    /\ backup \in [Dirs -> [Paths -> Content]]
    /\ pc \in [Calls -> PCs]
    /\ dir \in [Calls -> Dirs]
    /\ \A c \in Calls : dir[c] \in DirsOf[c]
    /\ plan \in [Calls -> Plans \cup {<<>>}]
    /\ confirm \in [Calls -> BOOLEAN]
    /\ idx \in [Calls -> Nat \ {0}]
    /\ src \in [Calls -> Content]
    \* The entry an open file belongs to exists.
    /\ \A c \in Calls :
        pc[c] \in {"found", "copying", "writing"} => MoreEntries(c)

\* Two calls that got past validation share a backup directory, made in one
\* millisecond or given the same one, and both name p: the later copy of pass 1
\* replaces the earlier.
Contested(p) ==
    \E c, o \in Calls :
        /\ c # o /\ Dest(c) = Dest(o)
        /\ \A x \in {c, o} :
            /\ pc[x] \notin {"idle", "called", "refused", "rejected"}
            /\ p \in PlanPaths(x)

\* Whatever calls overlap, fail or leave files torn, and whenever the player
\* saves, the player's latest own contents of every path are still at the path
\* or complete in some backup directory, with two exceptions: they were saved
\* just between a call's copy of the path and its write, or two calls that both
\* name the path share a backup directory.  This is what "backup before write"
\* (pass 1 before pass 2) buys.
NothingLost ==
    \A p \in Paths :
        \/ mine[p] = NoFile \/ raced[p] \/ Contested(p)
        \/ fs[p] = mine[p]
        \/ \E d \in Dirs : backup[d][p] = mine[p]

\* No two calls can share a backup directory.
DistinctDirs ==
    \A c, o \in Calls : DirsOf[c] \cap DirsOf[o] # {} => c = o

\* The inductive strengthening of NothingLost.  A call whose pass 1 is over
\* writes no backup file any more, so what it holds of the player's stays.
Kept(p) ==
    \E c \in Calls : /\ pc[c] \in Writing \cup {"failed", "partial", "applied"}
                    /\ p \in PlanPaths(c)
                    /\ backup[Dest(c)][p] = mine[p]
Secured(p) == mine[p] = NoFile \/ raced[p] \/ Contested(p) \/ Kept(p)
\* Pass 1 is done with entry j: its path is not being copied a second time.
PassedBy(c, j) ==
    /\ pc[c] \in BackingUp
    /\ j < idx[c]
    /\ pc[c] = "copying" => plan[c][j].path # Target(c)
FilesInv == \A p \in Paths : fs[p] = mine[p] \/ Secured(p)
CallInv(c) ==
    /\ pc[c] \in {"idle", "called"} => idx[c] = 1
    /\ \A j \in 1..Len(plan[c]) : PassedBy(c, j) =>
        \/ backup[Dest(c)][plan[c][j].path] = mine[plan[c][j].path]
        \/ Secured(plan[c][j].path)
    /\ pc[c] = "copying" =>
        src[c] = mine[Target(c)] \/ Secured(Target(c))
    /\ pc[c] \in Writing =>
        \A j \in 1..Len(plan[c]) : j >= idx[c] => Secured(plan[c][j].path)
BackupInv == FilesInv /\ \A c \in Calls : CallInv(c)

\* A path of the instance, or a file of a backup, changes only under a call
\* that was confirmed, whose plan lies inside the instance and names the path;
\* and the instance only once that call has probed its whole plan.
\* (The dry-run default and the validation of the whole plan up front.)
Licensed(c, p) ==
    confirm[c] /\ p \in PlanPaths(c) /\ PlanPaths(c) \cap Escaping = {}
OnlyLicensedChanges ==
    [][\/ \E p \in Own : PlayerSave(p)
       \/ /\ \A p \in Paths : fs'[p] # fs[p] =>
                \E c \in Calls : Licensed(c, p) /\ pc[c] \in Writing
          /\ \A d \in Dirs, p \in Paths : backup'[d][p] # backup[d][p] =>
                \E c \in Calls : /\ Licensed(c, p)
                                 /\ pc[c] \in BackingUp
                                 /\ Dest(c) = d]_vars

\* Every call that is made is answered: the promise of apply settles.
CallsSettle == \A c \in Calls : pc[c] = "called" ~> pc[c] \in Ended

=============================================================================
