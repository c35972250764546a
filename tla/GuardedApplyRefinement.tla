----------------------- MODULE GuardedApplyRefinement -----------------------
(***************************************************************************)
(* GuardedApply implements SnapshotApply when nothing overlaps a call: the *)
(* copies of pass 1, taken file by file, amount to one snapshot, which the *)
(* call publishes on entering pass 2.                                      *)
(***************************************************************************)
EXTENDS GuardedApply

CONSTANT NoArchive

PastBackup(c) == pc[c] \in Writing \cup {"partial", "applied"}

ArchiveView ==
    [c \in Calls |-> IF PastBackup(c) THEN backup[Dest(c)] ELSE NoArchive]

PhaseView ==
    [c \in Calls |->
        CASE pc[c] \in {"called"} \cup BackingUp -> "asked"
          [] pc[c] \in Writing -> "archived"
          [] pc[c] \in {"refused", "rejected", "failed"} -> "declined"
          [] OTHER -> pc[c]]

Snapshot == INSTANCE SnapshotApply
    WITH files <- fs, archive <- ArchiveView, phase <- PhaseView, order <- plan

\* A call made while nothing else writes behaves as one instantaneous archive
\* followed by writes to the archived files, and reports applied only with
\* every planned file in place (guarded-instance-fs.ts, apply).
ImplementsSnapshotApply == Snapshot!Spec

=============================================================================
