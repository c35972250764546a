------------------------- MODULE GuardedApplyProofs -------------------------
(***************************************************************************)
(* Theorems about GuardedApply, for every set of calls, paths, plans and   *)
(* contents: its type invariant; that a guarded apply never loses the      *)
(* player's own files, whatever calls overlap or fail half way; that       *)
(* nothing changes without a confirmed plan; and that a call nothing       *)
(* overlaps implements the contract of SnapshotApply.                      *)
(***************************************************************************)
EXTENDS GuardedApplyRefinement, TLAPS

-----------------------------------------------------------------------------
(* Types.                                                                  *)

\* The plan of a call is a sequence of changes, and the entry a pass is at,
\* while there is one, names a path and what to put there.
LEMMA EntryType ==
    ASSUME TypeOK, NEW c \in Calls
    PROVE  /\ plan[c] \in Seq(Change)
           /\ Len(plan[c]) \in Nat
           /\ \A j \in 1..Len(plan[c]) : plan[c][j].path \in Paths
           /\ MoreEntries(c) => /\ idx[c] \in 1..Len(plan[c])
                                /\ Entry(c) \in Change
                                /\ Target(c) \in Paths
                                /\ Target(c) \in PlanPaths(c)
                                /\ Entry(c).data \in Data \cup {NoFile}
           /\ Dest(c) \in Dirs
<1>1. plan[c] \in Plans \cup {<<>>}
  BY DEF TypeOK
<1>2. plan[c] \in Seq(Change)
  <2>1. <<>> \in Seq(Change)
    OBVIOUS
  <2> QED
    BY <1>1, <2>1, ConstantsAssumption DEF ConstantsAssumption
<1>3. Len(plan[c]) \in Nat
  BY <1>2
<1>4. \A j \in 1..Len(plan[c]) : plan[c][j] \in Change
  BY <1>2
<1>5. \A j \in 1..Len(plan[c]) : plan[c][j].path \in Paths
  BY <1>4 DEF Change
<1>6. ASSUME MoreEntries(c)
      PROVE  /\ idx[c] \in 1..Len(plan[c])
             /\ Entry(c) \in Change
             /\ Target(c) \in Paths
             /\ Target(c) \in PlanPaths(c)
             /\ Entry(c).data \in Data \cup {NoFile}
  <2>1. idx[c] \in Nat \ {0}
    BY DEF TypeOK
  <2>2. idx[c] \in 1..Len(plan[c])
    BY <1>3, <1>6, <2>1 DEF MoreEntries
  <2>3. Entry(c) \in Change
    BY <1>4, <2>2 DEF Entry
  <2> QED
    BY <2>2, <2>3 DEF Change, Target, PlanPaths, Entry
<1>7. Dest(c) \in Dirs
  BY DEF TypeOK, Dest
<1> QED
  BY <1>2, <1>3, <1>5, <1>6, <1>7

\* Every variable keeps its type, and an open file belongs to an entry of the
\* plan.
THEOREM TypeCorrect == Spec => []TypeOK
<1>1. Init => TypeOK
  BY ConstantsAssumption
  DEF ConstantsAssumption, Init, TypeOK, Content, PCs, BackingUp, Writing, Ended
<1>2. TypeOK /\ [Next]_vars => TypeOK'
  <2> SUFFICES ASSUME TypeOK, [Next]_vars
               PROVE  TypeOK'
    OBVIOUS
  <2> USE DEF TypeOK, PCs, BackingUp, Writing, Ended, history
  <2>1. ASSUME NEW c \in Calls, Invoke(c)
        PROVE  TypeOK'
    BY <2>1 DEF Invoke, MoreEntries
  <2>2. ASSUME NEW c \in Calls, Refuse(c)
        PROVE  TypeOK'
    BY <2>2 DEF Refuse, MoreEntries
  <2>3. ASSUME NEW c \in Calls, Validate(c)
        PROVE  TypeOK'
    BY <2>3 DEF Validate, MoreEntries
  <2>4. ASSUME NEW c \in Calls, Probe(c)
        PROVE  TypeOK'
    <3>1. CASE fs[Target(c)] = NoFile
      <4>1. idx' \in [Calls -> Nat \ {0}]
        BY <2>4, <3>1 DEF Probe
      <4>2. \A o \in Calls :
              pc[o] \in {"found", "copying", "writing"} => idx'[o] = idx[o]
        BY <2>4, <3>1 DEF Probe
      <4> QED
        BY <2>4, <3>1, <4>1, <4>2 DEF Probe, MoreEntries
    <3>2. CASE fs[Target(c)] # NoFile
      BY <2>4, <3>2 DEF Probe, MoreEntries
    <3> QED
      BY <3>1, <3>2
  <2>5. ASSUME NEW c \in Calls, CopyBegin(c)
        PROVE  TypeOK'
    <3>1. Target(c) \in Paths /\ Dest(c) \in Dirs
      BY <2>5, EntryType DEF CopyBegin
    <3> QED
      BY <2>5, <3>1 DEF CopyBegin, MoreEntries, Content
  <2>6. ASSUME NEW c \in Calls, Vanished(c)
        PROVE  TypeOK'
    BY <2>6 DEF Vanished, MoreEntries
  <2>7. ASSUME NEW c \in Calls, CopyEnd(c)
        PROVE  TypeOK'
    <3>1. Target(c) \in Paths /\ Dest(c) \in Dirs
      BY <2>7, EntryType DEF CopyEnd
    <3> QED
      BY <2>7, <3>1 DEF CopyEnd, MoreEntries, Content
  <2>8. ASSUME NEW c \in Calls, EndBackup(c)
        PROVE  TypeOK'
    BY <2>8 DEF EndBackup, MoreEntries
  <2>9. ASSUME NEW c \in Calls, Remove(c)
        PROVE  TypeOK'
    <3>1. Target(c) \in Paths
      BY <2>9, EntryType DEF Remove
    <3> QED
      BY <2>9, <3>1 DEF Remove, MoreEntries, Content
  <2>10. ASSUME NEW c \in Calls, WriteBegin(c)
         PROVE  TypeOK'
    <3>1. Target(c) \in Paths
      BY <2>10, EntryType DEF WriteBegin
    <3> QED
      BY <2>10, <3>1 DEF WriteBegin, MoreEntries, Content
  <2>11. ASSUME NEW c \in Calls, WriteEnd(c)
         PROVE  TypeOK'
    <3>1. Target(c) \in Paths /\ Entry(c).data \in Content
      BY <2>11, EntryType DEF WriteEnd, Content
    <3> QED
      BY <2>11, <3>1 DEF WriteEnd, MoreEntries, Content
  <2>12. ASSUME NEW c \in Calls, Finish(c)
         PROVE  TypeOK'
    BY <2>12 DEF Finish, MoreEntries
  <2>13. ASSUME NEW c \in Calls, Fail(c)
         PROVE  TypeOK'
    BY <2>13 DEF Fail, MoreEntries
  <2>14. ASSUME NEW p \in Own, PlayerSave(p)
         PROVE  TypeOK'
    BY <2>14 DEF PlayerSave, callVars, MoreEntries, Content
  <2>15. CASE UNCHANGED vars
    BY <2>15 DEF vars, callVars, MoreEntries
  <2> QED
    BY <2>1, <2>2, <2>3, <2>4, <2>5, <2>6, <2>7, <2>8, <2>9, <2>10, <2>11,
       <2>12, <2>13, <2>14, <2>15
    DEF Next, Progress
<1> QED
  BY <1>1, <1>2, PTL DEF Spec

-----------------------------------------------------------------------------
(* Backup before write.                                                    *)

\* No step of a call moves its backup directory or another one's.
LEMMA DirsFixed ==
    ASSUME NEW c \in Calls, Invoke(c) \/ Progress(c) \/ Fail(c)
    PROVE  dir' = dir
BY DEF Invoke, Progress, Refuse, Validate, Probe, CopyBegin, Vanished,
       CopyEnd, EndBackup, Remove, WriteBegin, WriteEnd, Finish, Fail

\* Two calls that contest a path go on contesting it.
LEMMA ContestedGrows ==
    ASSUME TypeOK, NEW c \in Calls, Invoke(c) \/ Progress(c) \/ Fail(c), NEW p \in Paths
    PROVE  Contested(p) => Contested(p)'
<1>1. dir' = dir
  BY DirsFixed
<1>2. ASSUME NEW o \in Calls, pc[o] \notin {"idle", "called", "refused", "rejected"}
      PROVE  /\ pc'[o] \notin {"idle", "called", "refused", "rejected"}
             /\ plan'[o] = plan[o]
  BY <1>2
  DEF TypeOK, Invoke, Progress, Refuse, Validate, Probe, CopyBegin, Vanished,
      CopyEnd, EndBackup, Remove, WriteBegin, WriteEnd, Finish, Fail
<1> QED
  BY <1>1, <1>2 DEF Contested, Dest, PlanPaths

\* A copy another call replaces is of a path the two calls contest.
LEMMA OnlyContestedReplaced ==
    ASSUME TypeOK, TypeOK', NEW c \in Calls, Invoke(c) \/ Progress(c) \/ Fail(c),
           NEW o \in Calls, o # c, NEW p \in PlanPaths(o),
           pc[o] \notin {"idle", "called", "refused", "rejected"},
           backup'[Dest(o)][p] # backup[Dest(o)][p]
    PROVE  Contested(p)'
<1>1. CopyBegin(c) \/ CopyEnd(c)
  BY DEF Invoke, Progress, Refuse, Validate, Probe, Vanished, EndBackup,
         Remove, WriteBegin, WriteEnd, Finish, Fail
<1>2. /\ pc[c] \in {"found", "copying"} /\ Target(c) \in PlanPaths(c)
      /\ Dest(c) \in Dirs /\ Target(c) \in Paths
  BY <1>1, EntryType DEF CopyBegin, CopyEnd, TypeOK
<1>3. Dest(o) = Dest(c) /\ p = Target(c)
  <2>1. p \in Paths /\ Dest(o) \in Dirs
    BY EntryType DEF PlanPaths
  <2> QED
    BY <1>1, <1>2, <2>1 DEF CopyBegin, CopyEnd, TypeOK
<1>4. Contested(p)
  BY <1>2, <1>3 DEF Contested
<1> QED
  BY <1>2, <1>3, <1>4, ContestedGrows

\* No step of a call takes away a copy that a call past its pass 1 holds, but
\* by contesting the path.
LEMMA SecuredGrows ==
    ASSUME TypeOK, TypeOK', NEW c \in Calls,
           Invoke(c) \/ Progress(c) \/ Fail(c), NEW p \in Paths
    PROVE  Secured(p) => Secured(p)'
<1>1. mine' = mine /\ raced' = raced /\ dir' = dir
  BY DEF Invoke, Progress, Refuse, Validate, Probe, CopyBegin, Vanished,
         CopyEnd, EndBackup, Remove, WriteBegin, WriteEnd, Finish, Fail, history
<1>2. ASSUME Kept(p)
      PROVE  Kept(p)' \/ Contested(p)'
  <2> DEFINE Past == Writing \cup {"failed", "partial", "applied"}
  <2>1. PICK o \in Calls : /\ pc[o] \in Past
                           /\ p \in PlanPaths(o)
                           /\ backup[Dest(o)][p] = mine[p]
    BY <1>2 DEF Kept
  <2>2. pc'[o] \in Past /\ plan'[o] = plan[o]
    BY <2>1
    DEF TypeOK, Invoke, Progress, Refuse, Validate, Probe, CopyBegin,
        Vanished, CopyEnd, EndBackup, Remove, WriteBegin, WriteEnd, Finish,
        Fail, InFlight, Writing, Ended
  <2>3. CASE backup'[Dest(o)][p] = backup[Dest(o)][p]
    BY <1>1, <2>1, <2>2, <2>3 DEF Kept, Dest, PlanPaths
  <2>4. CASE backup'[Dest(o)][p] # backup[Dest(o)][p]
    <3>1. o # c
      BY <2>1, <2>4
      DEF Invoke, Progress, Refuse, Validate, Probe, CopyBegin, Vanished, CopyEnd,
          EndBackup, Remove, WriteBegin, WriteEnd, Finish, Fail, Writing
    <3>2. pc[o] \notin {"idle", "called", "refused", "rejected"}
      BY <2>1 DEF Writing
    <3> QED
      BY <2>1, <2>4, <3>1, <3>2, OnlyContestedReplaced
  <2> QED
    BY <2>3, <2>4
<1> QED
  BY <1>1, <1>2, ContestedGrows DEF Secured

\* A call is not disturbed by the steps of another one.
LEMMA OthersUndisturbed ==
    ASSUME TypeOK, TypeOK', NEW c \in Calls,
           Invoke(c) \/ Progress(c) \/ Fail(c),
           NEW o \in Calls, o # c, CallInv(o)
    PROVE  CallInv(o)'
<1>1. /\ mine' = mine /\ raced' = raced /\ dir' = dir
      /\ plan'[o] = plan[o] /\ pc'[o] = pc[o]
      /\ idx'[o] = idx[o] /\ src'[o] = src[o]
      /\ Target(o)' = Target(o)
  BY DEF TypeOK, Invoke, Progress, Refuse, Validate, Probe, CopyBegin,
         Vanished, CopyEnd, EndBackup, Remove, WriteBegin, WriteEnd, Finish,
         Fail, Target, Entry, history
<1>2. \A p \in PlanPaths(o) : pc[o] \in BackingUp =>
        backup'[Dest(o)][p] = backup[Dest(o)][p] \/ Contested(p)'
  BY OnlyContestedReplaced DEF BackingUp
<1>3. \A p \in Paths : Secured(p) => Secured(p)'
  BY SecuredGrows
<1>4. \A j \in 1..Len(plan[o]) : plan[o][j].path \in Paths
  BY EntryType
<1>5. pc[o] = "copying" => Target(o) \in Paths
  BY EntryType DEF TypeOK
<1>6. ASSUME NEW j \in 1..Len(plan'[o]), PassedBy(o, j)'
      PROVE  backup'[Dest(o)'][plan'[o][j].path] = mine'[plan'[o][j].path]
                 \/ Secured(plan[o][j].path)'
  <2>1. PassedBy(o, j)
    BY <1>1, <1>6 DEF PassedBy
  <2>2. pc[o] \in BackingUp /\ plan[o][j].path \in PlanPaths(o)
    BY <1>1, <2>1 DEF PassedBy, PlanPaths
  <2>3. \/ backup'[Dest(o)][plan[o][j].path] = backup[Dest(o)][plan[o][j].path]
        \/ Secured(plan[o][j].path)'
    BY <1>1, <1>2, <2>2 DEF Secured
  <2> QED
    BY <1>1, <1>3, <1>4, <2>1, <2>3 DEF CallInv, Dest
<1>7. pc'[o] = "copying" => src'[o] = mine'[Target(o)'] \/ Secured(Target(o))'
  BY <1>1, <1>3, <1>5 DEF CallInv
<1>8. ASSUME pc'[o] \in Writing, NEW j \in 1..Len(plan'[o]), j >= idx'[o]
      PROVE  Secured(plan[o][j].path)'
  BY <1>1, <1>3, <1>4, <1>8 DEF CallInv
<1> QED
  BY <1>1, <1>6, <1>7, <1>8 DEF CallInv

\* A step of a call keeps the player's files: pass 2 writes only paths whose
\* contents the call, or another one, holds.
LEMMA FilesStaySecured ==
    ASSUME TypeOK, TypeOK', NEW c \in Calls,
           Invoke(c) \/ Progress(c) \/ Fail(c),
           FilesInv, CallInv(c)
    PROVE  FilesInv'
<1>1. mine' = mine /\ raced' = raced /\ dir' = dir
  BY DEF Invoke, Progress, Refuse, Validate, Probe, CopyBegin, Vanished,
         CopyEnd, EndBackup, Remove, WriteBegin, WriteEnd, Finish, Fail, history
<1>2. \A p \in Paths : Secured(p) => Secured(p)'
  BY SecuredGrows
<1>3. ASSUME NEW p \in Paths, fs'[p] # fs[p]
      PROVE  Secured(p)
  <2>1. \/ Remove(c) \/ WriteBegin(c) \/ WriteEnd(c)
    BY <1>3 DEF Invoke, Progress, Refuse, Validate, Probe, CopyBegin,
                Vanished, CopyEnd, EndBackup, Finish, Fail
  <2>2. pc[c] \in Writing /\ MoreEntries(c)
    BY <2>1 DEF Remove, WriteBegin, WriteEnd, Writing, TypeOK
  <2>3. p = Target(c)
    BY <1>3, <2>1 DEF Remove, WriteBegin, WriteEnd, TypeOK
  <2>4. idx[c] \in 1..Len(plan[c]) /\ idx[c] >= idx[c]
    BY <2>2, EntryType DEF TypeOK
  <2> QED
    BY <2>2, <2>3, <2>4 DEF CallInv, Target, Entry
<1>4. ASSUME NEW p \in Paths
      PROVE  (fs[p] = mine[p] \/ Secured(p))'
  <2>1. CASE fs'[p] = fs[p]
    BY <1>1, <1>2, <2>1 DEF FilesInv
  <2>2. CASE fs'[p] # fs[p]
    BY <1>2, <1>3, <2>2
  <2> QED
    BY <2>1, <2>2
<1> QED
  BY <1>4 DEF FilesInv

\* A step of a call keeps its own bookkeeping: an entry pass 1 is done with is
\* held in its backup directory, unless the player's contents were already
\* gone from the path and another call holds them.
LEMMA OwnStep ==
    ASSUME TypeOK, TypeOK', NEW c \in Calls,
           Invoke(c) \/ Progress(c) \/ Fail(c),
           FilesInv, CallInv(c)
    PROVE  CallInv(c)'
<1> USE DEF BackingUp, Writing
<1>1. mine' = mine /\ raced' = raced /\ dir' = dir
  BY DEF Invoke, Progress, Refuse, Validate, Probe, CopyBegin, Vanished,
         CopyEnd, EndBackup, Remove, WriteBegin, WriteEnd, Finish, Fail, history
<1>2. \A p \in Paths : Secured(p) => Secured(p)'
  BY SecuredGrows
<1>3. \A j \in 1..Len(plan[c]) : plan[c][j].path \in Paths
  BY EntryType
<1>4. CASE \/ Invoke(c) \/ Refuse(c) \/ Vanished(c) \/ Finish(c) \/ Fail(c)
  <2>1. pc'[c] \notin BackingUp \cup Writing
    BY <1>4 DEF TypeOK, Invoke, Refuse, Vanished, Finish, Fail
  <2>2. pc'[c] \in {"idle", "called"} => idx'[c] = 1
    BY <1>4 DEF TypeOK, Invoke, Refuse, Vanished, Finish, Fail, CallInv
  <2> QED
    BY <2>1, <2>2 DEF CallInv, PassedBy
<1>5. CASE Validate(c)
  <2>1. pc'[c] \in {"backup", "rejected"} /\ idx'[c] = 1 /\ plan'[c] = plan[c]
    BY <1>5 DEF Validate, TypeOK, CallInv
  <2> QED
    BY <2>1 DEF CallInv, PassedBy
<1>6. CASE Probe(c)
  <2>1. /\ pc[c] = "backup" /\ MoreEntries(c)
        /\ plan' = plan /\ backup' = backup
        /\ idx[c] \in 1..Len(plan[c]) /\ Target(c) \in Paths
    BY <1>6, EntryType DEF Probe
  <2>2. CASE fs[Target(c)] = NoFile
    <3>1. idx'[c] = idx[c] + 1 /\ pc'[c] = "backup"
      BY <1>6, <2>2 DEF Probe, TypeOK
    <3>2. Secured(Target(c))
      BY <2>1, <2>2 DEF FilesInv, Secured
    <3>3. ASSUME NEW j \in 1..Len(plan[c]), PassedBy(c, j)'
          PROVE  \/ backup[Dest(c)][plan[c][j].path] = mine[plan[c][j].path]
                 \/ Secured(plan[c][j].path)
      <4>1. CASE j = idx[c]
        BY <3>2, <4>1 DEF Target, Entry
      <4>2. CASE j # idx[c]
        <5>1. j < idx[c]
          BY <3>1, <3>3, <4>2, <2>1 DEF PassedBy
        <5> QED
          BY <2>1, <5>1 DEF CallInv, PassedBy
      <4> QED
        BY <4>1, <4>2
    <3> QED
      BY <1>1, <1>2, <1>3, <2>1, <3>1, <3>3 DEF CallInv, Dest
  <2>3. CASE fs[Target(c)] # NoFile
    <3>1. idx'[c] = idx[c] /\ pc'[c] = "found"
      BY <1>6, <2>3 DEF Probe, TypeOK
    <3> QED
      <4>1. \A j \in 1..Len(plan[c]) : PassedBy(c, j)' => PassedBy(c, j)
        BY <2>1, <3>1 DEF PassedBy
      <4> QED
        BY <1>1, <1>2, <1>3, <2>1, <3>1, <4>1 DEF CallInv, Dest
  <2> QED
    BY <2>2, <2>3
<1>7. CASE CopyBegin(c)
  <2>1. /\ pc[c] = "found" /\ pc'[c] = "copying"
        /\ plan' = plan /\ idx' = idx
        /\ Target(c) \in Paths /\ Dest(c) \in Dirs
        /\ Target(c)' = Target(c) /\ Dest(c)' = Dest(c)
        /\ src'[c] = fs[Target(c)]
    BY <1>7, EntryType DEF CopyBegin, TypeOK, Target, Entry, Dest
  <2>2. \A p \in Paths : p # Target(c) =>
            backup'[Dest(c)][p] = backup[Dest(c)][p]
    BY <1>7, <2>1 DEF CopyBegin, TypeOK
  <2>3. ASSUME NEW j \in 1..Len(plan[c]), PassedBy(c, j)'
        PROVE  \/ backup'[Dest(c)][plan[c][j].path] = mine[plan[c][j].path]
               \/ Secured(plan[c][j].path)
    <3>1. PassedBy(c, j) /\ plan[c][j].path # Target(c)
      BY <2>1, <2>3 DEF PassedBy
    <3> QED
      BY <1>3, <2>2, <3>1 DEF CallInv
  <2>4. src'[c] = mine[Target(c)] \/ Secured(Target(c))
    BY <2>1 DEF FilesInv
  <2> QED
    BY <1>1, <1>2, <1>3, <2>1, <2>3, <2>4 DEF CallInv
<1>8. CASE CopyEnd(c)
  <2>1. /\ pc[c] = "copying" /\ pc'[c] = "backup"
        /\ plan' = plan /\ idx'[c] = idx[c] + 1
        /\ idx[c] \in 1..Len(plan[c])
        /\ Target(c) \in Paths /\ Dest(c) \in Dirs /\ Dest(c)' = Dest(c)
    BY <1>8, EntryType DEF CopyEnd, TypeOK, Dest
  <2>2. \A p \in Paths : p # Target(c) =>
            backup'[Dest(c)][p] = backup[Dest(c)][p]
    BY <1>8, <2>1 DEF CopyEnd, TypeOK
  <2>3. backup'[Dest(c)][Target(c)] = mine[Target(c)] \/ Secured(Target(c))
    <3>1. src[c] = mine[Target(c)] \/ Secured(Target(c))
      BY <2>1 DEF CallInv
    <3>2. fs[Target(c)] = mine[Target(c)] \/ Secured(Target(c))
      BY <2>1 DEF FilesInv
    <3>3. CASE fs[Target(c)] = src[c]
      <4>1. backup'[Dest(c)][Target(c)] = src[c]
        BY <1>8, <2>1, <3>3 DEF CopyEnd, TypeOK
      <4> QED
        BY <3>1, <4>1
    <3>4. CASE fs[Target(c)] # src[c]
      BY <3>1, <3>2, <3>4
    <3> QED
      BY <3>3, <3>4
  <2>4. ASSUME NEW j \in 1..Len(plan[c]), PassedBy(c, j)'
        PROVE  \/ backup'[Dest(c)][plan[c][j].path] = mine[plan[c][j].path]
               \/ Secured(plan[c][j].path)
    <3>1. CASE plan[c][j].path = Target(c)
      BY <2>3, <3>1
    <3>2. CASE plan[c][j].path # Target(c)
      <4>1. j # idx[c]
        BY <3>2 DEF Target, Entry
      <4>2. PassedBy(c, j)
        BY <2>1, <2>4, <3>2, <4>1 DEF PassedBy
      <4> QED
        BY <1>3, <2>2, <3>2, <4>2 DEF CallInv
    <3> QED
      BY <3>1, <3>2
  <2> QED
    BY <1>1, <1>2, <1>3, <2>1, <2>4 DEF CallInv
<1>9. CASE EndBackup(c)
  <2>1. /\ pc[c] = "backup" /\ pc'[c] = "write"
        /\ plan' = plan /\ backup' = backup /\ Dest(c)' = Dest(c)
    BY <1>9 DEF EndBackup, TypeOK, Dest
  <2>2. ASSUME NEW j \in 1..Len(plan[c])
        PROVE  Secured(plan[c][j].path)'
    <3>1. PassedBy(c, j)
      <4>1. j < idx[c]
        BY <1>9, EntryType DEF EndBackup, MoreEntries, TypeOK
      <4> QED
        BY <2>1, <4>1 DEF PassedBy
    <3>2. \/ backup[Dest(c)][plan[c][j].path] = mine[plan[c][j].path]
          \/ Secured(plan[c][j].path)
      BY <3>1 DEF CallInv
    <3>3. backup[Dest(c)][plan[c][j].path] = mine[plan[c][j].path] => Kept(plan[c][j].path)'
      BY <1>1, <2>1 DEF Kept, PlanPaths, Dest
    <3> QED
      BY <1>1, <1>2, <1>3, <2>1, <3>2, <3>3 DEF Secured
  <2> QED
    BY <2>1, <2>2 DEF CallInv, PassedBy
<1>10. CASE Remove(c) \/ WriteBegin(c) \/ WriteEnd(c)
  <2>1. /\ pc[c] \in Writing /\ pc'[c] \in Writing /\ plan' = plan
        /\ idx[c] \in Nat /\ idx'[c] \in {idx[c], idx[c] + 1}
    BY <1>10 DEF Remove, WriteBegin, WriteEnd, TypeOK
  <2>2. ASSUME NEW j \in 1..Len(plan[c]), j >= idx'[c]
        PROVE  Secured(plan[c][j].path)'
    <3>1. j >= idx[c]
      BY <2>1, <2>2
    <3>2. Secured(plan[c][j].path)
      BY <2>1, <3>1 DEF CallInv
    <3> QED
      BY <1>2, <1>3, <2>1, <3>2
  <2> QED
    BY <2>1, <2>2 DEF CallInv, PassedBy
<1> QED
  BY <1>4, <1>5, <1>6, <1>7, <1>8, <1>9, <1>10 DEF Progress

\* What the player saves is at the path from then on.  A call that counts on
\* the path having been copied is in the gap between its copy and its write,
\* and that is what `raced' records.
LEMMA PlayerStep ==
    ASSUME TypeOK, NEW q \in Own, PlayerSave(q), BackupInv
    PROVE  BackupInv'
<1>1. /\ UNCHANGED <<pc, dir, idx, plan, backup, src>> /\ q \in Paths
      /\ fs'[q] = mine'[q] /\ raced'[q] = \E c \in Calls : InTheGap(c, q)
      /\ \A p \in Paths : p # q =>
            fs'[p] = fs[p] /\ mine'[p] = mine[p] /\ raced'[p] = raced[p]
  BY ConstantsAssumption DEF ConstantsAssumption, PlayerSave, callVars, TypeOK
<1>2. \A p \in Paths : p # q => (Secured(p) => Secured(p)')
  BY <1>1 DEF Secured, Kept, Contested, Dest, PlanPaths
<1>3. \A c \in Calls : InTheGap(c, q) => Secured(q)'
  BY <1>1 DEF Secured
<1>4. ASSUME NEW p \in Paths
      PROVE  (fs[p] = mine[p] \/ Secured(p))'
  BY <1>1, <1>2 DEF BackupInv, FilesInv
<1>5. ASSUME NEW c \in Calls
      PROVE  CallInv(c)'
  <2>1. /\ Target(c)' = Target(c) /\ Dest(c)' = Dest(c) /\ CallInv(c)
        /\ \A j \in 1..Len(plan[c]) : plan[c][j].path \in Paths
    BY <1>1, EntryType DEF Target, Entry, Dest, BackupInv
  <2>2. ASSUME NEW j \in 1..Len(plan[c]), PassedBy(c, j)
        PROVE  \/ backup[Dest(c)][plan[c][j].path] = mine'[plan[c][j].path]
               \/ Secured(plan[c][j].path)'
    <3>1. CASE plan[c][j].path = q
      BY <1>1, <1>3, <2>2, <3>1 DEF InTheGap, PassedBy
    <3>2. CASE plan[c][j].path # q
      BY <1>1, <1>2, <2>1, <2>2, <3>2 DEF CallInv
    <3> QED
      BY <3>1, <3>2
  <2>3. ASSUME pc[c] = "copying"
        PROVE  src[c] = mine'[Target(c)] \/ Secured(Target(c))'
    <3>1. idx[c] \in 1..Len(plan[c]) /\ Target(c) \in Paths
      BY <2>3, EntryType DEF TypeOK
    <3>2. CASE Target(c) = q
      BY <1>3, <2>1, <2>3, <3>1, <3>2 DEF InTheGap, Target, Entry
    <3>3. CASE Target(c) # q
      BY <1>1, <1>2, <2>1, <2>3, <3>1, <3>3 DEF CallInv
    <3> QED
      BY <3>2, <3>3
  <2>4. ASSUME pc[c] \in Writing, NEW j \in 1..Len(plan[c]), j >= idx[c]
        PROVE  Secured(plan[c][j].path)'
    <3>1. CASE plan[c][j].path = q
      BY <1>1, <1>3, <2>4, <3>1 DEF InTheGap
    <3>2. CASE plan[c][j].path # q
      BY <1>1, <1>2, <2>1, <2>4, <3>2 DEF CallInv
    <3> QED
      BY <3>1, <3>2
  <2>5. \A j \in 1..Len(plan[c]) : PassedBy(c, j)' = PassedBy(c, j)
    BY <1>1, <2>1 DEF PassedBy
  <2> QED
    BY <1>1, <2>1, <2>2, <2>3, <2>4, <2>5 DEF CallInv
<1> QED
  BY <1>4, <1>5 DEF BackupInv, FilesInv

\* No interleaving of calls, no failure and no save of the player loses the
\* player's contents of any file, but for those saved between a call's copy of
\* the file and its write, and those of a path two calls copy into one backup
\* directory (apply's "backup before write").
THEOREM BackupBeforeWrite == Spec => []NothingLost
<1>1. Init => BackupInv
  BY DEF Init, BackupInv, FilesInv, CallInv, PassedBy, BackingUp, Writing
<1>2. TypeOK /\ TypeOK' /\ BackupInv /\ [Next]_vars => BackupInv'
  <2> SUFFICES ASSUME TypeOK, TypeOK', BackupInv, [Next]_vars
               PROVE  BackupInv'
    OBVIOUS
  <2>1. ASSUME NEW c \in Calls, Invoke(c) \/ Progress(c) \/ Fail(c)
        PROVE  BackupInv'
    <3>1. FilesInv /\ CallInv(c)
      BY DEF BackupInv
    <3>2. FilesInv'
      BY <2>1, <3>1, FilesStaySecured
    <3>3. CallInv(c)'
      BY <2>1, <3>1, OwnStep
    <3>4. \A o \in Calls : o # c => CallInv(o)'
      BY <2>1, OthersUndisturbed DEF BackupInv
    <3> QED
      BY <3>2, <3>3, <3>4 DEF BackupInv
  <2>2. ASSUME NEW p \in Own, PlayerSave(p)
        PROVE  BackupInv'
    BY <2>2, PlayerStep
  <2>3. CASE UNCHANGED vars
    BY <2>3 DEF vars, callVars, history, BackupInv, FilesInv, CallInv, PassedBy,
                Secured, Kept, Contested, Dest, Target, Entry, PlanPaths
  <2> QED
    BY <2>1, <2>2, <2>3 DEF Next
<1>3. TypeOK /\ BackupInv => NothingLost
  BY DEF TypeOK, BackupInv, FilesInv, Secured, Kept, NothingLost, Dest
<1> QED
  BY <1>1, <1>2, <1>3, TypeCorrect, PTL DEF Spec

-----------------------------------------------------------------------------
(* Licences.                                                               *)

\* A call that copies or writes was confirmed and validated as a whole.
Validated ==
    \A c \in Calls : pc[c] \in BackingUp \cup Writing =>
        confirm[c] /\ PlanPaths(c) \cap Escaping = {}

\* A step of a call that is not idle leaves its plan and its confirmation, and
\* starts copying only when both allow it.
LEMMA StepKeepsValidated ==
    ASSUME TypeOK, Validated, NEW c \in Calls, Invoke(c) \/ Progress(c) \/ Fail(c)
    PROVE  Validated'
<1>1. \A o \in Calls : o # c =>
        pc'[o] = pc[o] /\ plan'[o] = plan[o] /\ confirm'[o] = confirm[o]
  BY DEF TypeOK, Invoke, Progress, Fail, Refuse, Validate, Probe, CopyBegin, Vanished,
         CopyEnd, EndBackup, Remove, WriteBegin, WriteEnd, Finish
<1>2. /\ pc'[c] \in BackingUp \cup Writing =>
            \/ pc[c] \in BackingUp \cup Writing
            \/ confirm[c] /\ PlanPaths(c) \cap Escaping = {}
      /\ pc'[c] \in BackingUp \cup Writing => plan'[c] = plan[c] /\ confirm'[c] = confirm[c]
  <2>1. CASE Invoke(c)
    BY <2>1 DEF TypeOK, Invoke, BackingUp, Writing
  <2>2. CASE Fail(c)
    BY <2>2 DEF TypeOK, Fail, BackingUp, Writing
  <2>3. CASE Progress(c)
    <3>1. CASE Refuse(c) \/ Vanished(c) \/ Finish(c)
      BY <3>1 DEF TypeOK, Refuse, Vanished, Finish, BackingUp, Writing
    <3>2. CASE Validate(c)
      BY <3>2 DEF TypeOK, Validate, BackingUp, Writing
    <3>3. CASE Probe(c) \/ CopyBegin(c) \/ CopyEnd(c) \/ EndBackup(c)
      BY <3>3 DEF TypeOK, Probe, CopyBegin, CopyEnd, EndBackup, BackingUp, Writing
    <3>4. CASE Remove(c) \/ WriteBegin(c) \/ WriteEnd(c)
      BY <3>4 DEF TypeOK, Remove, WriteBegin, WriteEnd, BackingUp, Writing
    <3> QED
      BY <2>3, <3>1, <3>2, <3>3, <3>4 DEF Progress
  <2> QED
    BY <2>1, <2>2, <2>3
<1>3. ASSUME NEW o \in Calls, pc'[o] \in BackingUp \cup Writing
      PROVE  confirm'[o] /\ PlanPaths(o)' \cap Escaping = {}
  <2>1. CASE o = c
    BY <1>2, <1>3, <2>1 DEF Validated, PlanPaths
  <2>2. CASE o # c
    BY <1>1, <1>3, <2>2 DEF Validated, PlanPaths
  <2> QED
    BY <2>1, <2>2
<1> QED
  BY <1>3 DEF Validated

\* What a step of a call changes is what its plan names.
LEMMA StepIsLicensed ==
    ASSUME TypeOK, Validated, NEW c \in Calls, Invoke(c) \/ Progress(c) \/ Fail(c)
    PROVE  /\ \A p \in Paths : fs'[p] # fs[p] => Licensed(c, p) /\ pc[c] \in Writing
           /\ \A d \in Dirs, p \in Paths : backup'[d][p] # backup[d][p] =>
                Licensed(c, p) /\ pc[c] \in BackingUp /\ Dest(c) = d
<1>1. CASE UNCHANGED <<fs, backup>>
  BY <1>1
<1>2. CASE CopyBegin(c) \/ CopyEnd(c)
  <2>1. pc[c] \in {"found", "copying"} /\ MoreEntries(c) /\ UNCHANGED fs
    BY <1>2 DEF TypeOK, CopyBegin, CopyEnd
  <2>2. \E v : backup' = [backup EXCEPT ![Dest(c)][Target(c)] = v]
    BY <1>2 DEF CopyBegin, CopyEnd
  <2>3. \A d \in Dirs, p \in Paths :
          backup'[d][p] # backup[d][p] => d = Dest(c) /\ p = Target(c)
    BY <2>2 DEF TypeOK
  <2>4. Licensed(c, Target(c)) /\ pc[c] \in BackingUp
    BY <2>1, EntryType DEF Validated, Licensed, BackingUp
  <2> QED
    BY <2>1, <2>3, <2>4 DEF Dest
<1>3. CASE Remove(c) \/ WriteBegin(c) \/ WriteEnd(c)
  <2>1. pc[c] \in {"write", "writing"} /\ MoreEntries(c) /\ UNCHANGED backup
    BY <1>3 DEF TypeOK, Remove, WriteBegin, WriteEnd
  <2>2. \E v : fs' = [fs EXCEPT ![Target(c)] = v]
    BY <1>3 DEF Remove, WriteBegin, WriteEnd
  <2>3. \A p \in Paths : fs'[p] # fs[p] => p = Target(c)
    BY <2>2 DEF TypeOK
  <2>4. Licensed(c, Target(c)) /\ pc[c] \in Writing
    BY <2>1, EntryType DEF Validated, Licensed, Writing
  <2> QED
    BY <2>1, <2>3, <2>4
<1> QED
  BY <1>1, <1>2, <1>3
  DEF Invoke, Progress, Fail, Refuse, Validate, Probe, Vanished, EndBackup, Finish

\* Nothing of the instance or of a backup changes but under a confirmed call
\* whose whole plan was validated and names the path, for any overlapping calls
\* and whatever the player saves (the dry-run default, the checks up front).
THEOREM ChangesAreLicensed == Spec => OnlyLicensedChanges
<1>1. Init => Validated
  BY DEF Init, Validated, BackingUp, Writing
<1>2. TypeOK /\ Validated /\ [Next]_vars => Validated'
  <2> SUFFICES ASSUME TypeOK, Validated, [Next]_vars
               PROVE  Validated'
    OBVIOUS
  <2>1. CASE (\E p \in Own : PlayerSave(p)) \/ UNCHANGED vars
    BY <2>1 DEF PlayerSave, vars, callVars, Validated, PlanPaths
  <2> QED
    BY <2>1, StepKeepsValidated DEF Next
<1>3. TypeOK /\ Validated /\ [Next]_vars =>
        [\/ \E p \in Own : PlayerSave(p)
         \/ /\ \A p \in Paths : fs'[p] # fs[p] =>
                  \E c \in Calls : Licensed(c, p) /\ pc[c] \in Writing
            /\ \A d \in Dirs, p \in Paths : backup'[d][p] # backup[d][p] =>
                  \E c \in Calls : /\ Licensed(c, p)
                                   /\ pc[c] \in BackingUp
                                   /\ Dest(c) = d]_vars
  <2> SUFFICES ASSUME TypeOK, Validated, NEW c \in Calls, Invoke(c) \/ Progress(c) \/ Fail(c)
               PROVE  /\ \A p \in Paths : fs'[p] # fs[p] =>
                          \E o \in Calls : Licensed(o, p) /\ pc[o] \in Writing
                      /\ \A d \in Dirs, p \in Paths : backup'[d][p] # backup[d][p] =>
                          \E o \in Calls : /\ Licensed(o, p)
                                           /\ pc[o] \in BackingUp
                                           /\ Dest(o) = d
    BY DEF Next
  <2> QED
    BY StepIsLicensed
<1> QED
  BY <1>1, <1>2, <1>3, TypeCorrect, PTL DEF Spec, OnlyLicensedChanges

-----------------------------------------------------------------------------
(* The refinement: one call at a time, and nobody else writes meanwhile.   *)

OneAtATime == \A c, o \in Calls : InFlight(c) /\ InFlight(o) => c = o

\* The pass the call is in is done with an entry for p.
Done(c, p) == \E j \in 1..Len(plan[c]) : j < idx[c] /\ plan[c][j].path = p

\* Before its pass 1 the backup directory of a call is empty; in pass 1 it
\* holds what the paths it passed hold, but for the copy in progress.
Copied(c) ==
    /\ pc[c] \in {"idle", "called"} =>
        idx[c] = 1 /\ \A p \in Paths : backup[Dest(c)][p] = NoFile
    /\ pc[c] \in BackingUp => \A p \in Paths :
        \/ pc[c] = "copying" /\ p = Target(c)
        \/ backup[Dest(c)][p] = IF Done(c, p) THEN fs[p] ELSE NoFile
    /\ pc[c] = "copying" => src[c] = fs[Target(c)]

\* In pass 2 a path it passed holds what the last entry it passed says.
LastWritten(c, p) ==
    \E i \in 1..Len(plan[c]) :
        /\ i < idx[c]
        /\ plan[c][i] = [path |-> p, data |-> fs[p]]
        /\ \A j \in (i + 1)..Len(plan[c]) : j < idx[c] => plan[c][j].path # p
Written(c) ==
    pc[c] \in Writing =>
        /\ \A p \in Paths :
            Done(c, p) /\ ~(pc[c] = "writing" /\ p = Target(c)) => LastWritten(c, p)
        /\ pc[c] = "writing" => fs[Target(c)] = Torn

SnapshotInv == OneAtATime /\ \A c \in Calls : Copied(c) /\ Written(c)

\* While a call moves the others stand still, and so do their directories.
LEMMA Alone ==
    ASSUME TypeOK, OneAtATime, ~Overlap, DistinctDirs,
           NEW c \in Calls, Invoke(c) \/ Progress(c) \/ Fail(c)
    PROVE  /\ \A o \in Calls : o # c =>
                /\ ~InFlight(o)
                /\ pc'[o] = pc[o] /\ idx'[o] = idx[o] /\ plan'[o] = plan[o]
                /\ backup'[Dest(o)] = backup[Dest(o)]
           /\ OneAtATime'
<1>1. ASSUME NEW o \in Calls, o # c
      PROVE  /\ ~InFlight(o)
             /\ pc'[o] = pc[o] /\ idx'[o] = idx[o] /\ plan'[o] = plan[o]
  <2>1. CASE Invoke(c)
    BY <1>1, <2>1 DEF Invoke, TypeOK
  <2>2. CASE Progress(c) \/ Fail(c)
    <3>1. InFlight(c)
      BY <2>2 DEF Progress, Fail, Refuse, Validate, Probe, CopyBegin, Vanished, CopyEnd,
                  EndBackup, Remove, WriteBegin, WriteEnd, Finish, InFlight, Ended
    <3> QED
      BY <1>1, <2>2, <3>1
      DEF OneAtATime, TypeOK, Progress, Fail, Refuse, Validate, Probe, CopyBegin, Vanished,
          CopyEnd, EndBackup, Remove, WriteBegin, WriteEnd, Finish
  <2> QED
    BY <2>1, <2>2
<1>2. ASSUME NEW o \in Calls, o # c
      PROVE  backup'[Dest(o)] = backup[Dest(o)]
  <2>1. Dest(o) # Dest(c) /\ Dest(o) \in Dirs
    BY <1>2, EntryType DEF DistinctDirs, Dest, TypeOK
  <2>2. CASE CopyBegin(c) \/ CopyEnd(c)
    BY <2>1, <2>2 DEF CopyBegin, CopyEnd, TypeOK
  <2>3. CASE ~(CopyBegin(c) \/ CopyEnd(c))
    BY <2>3 DEF Invoke, Progress, Fail, Refuse, Validate, Probe, Vanished, EndBackup,
                Remove, WriteBegin, WriteEnd, Finish
  <2> QED
    BY <2>2, <2>3
<1>3. OneAtATime'
  BY <1>1 DEF OneAtATime, InFlight
<1> QED
  BY <1>1, <1>2, <1>3

LEMMA OthersKeep ==
    ASSUME TypeOK, SnapshotInv, ~Overlap, DistinctDirs,
           NEW c \in Calls, Invoke(c) \/ Progress(c) \/ Fail(c),
           NEW o \in Calls, o # c
    PROVE  Copied(o)' /\ Written(o)'
<1>1. /\ ~InFlight(o)
      /\ pc'[o] = pc[o] /\ idx'[o] = idx[o]
      /\ backup'[Dest(o)] = backup[Dest(o)]
  BY Alone DEF SnapshotInv
<1>2. pc[o] = "idle" \/ pc[o] \in Ended
  BY <1>1 DEF InFlight
<1>3. Dest(o)' = Dest(o)
  BY DirsFixed DEF Dest
<1> QED
  BY <1>1, <1>2, <1>3 DEF SnapshotInv, Copied, Written, BackingUp, Writing, Ended

\* A call keeps its own account of what is copied and what is written.
LEMMA OwnKeeps ==
    ASSUME TypeOK, TypeOK', SnapshotInv, NEW c \in Calls,
           Invoke(c) \/ Progress(c) \/ Fail(c)
    PROVE  Copied(c)' /\ Written(c)'
<1> USE DEF BackingUp, Writing
<1>0. Copied(c) /\ Written(c) /\ Dest(c)' = Dest(c)
  BY DirsFixed DEF SnapshotInv, Dest
<1>1. CASE Invoke(c)
  BY <1>0, <1>1 DEF TypeOK, Invoke, Copied, Written
<1>2. CASE Refuse(c) \/ Vanished(c) \/ Finish(c) \/ Fail(c)
  <2>1. pc'[c] \in Ended
    BY <1>2 DEF TypeOK, Refuse, Vanished, Finish, Fail, Ended
  <2> QED
    BY <2>1 DEF Copied, Written, Ended
<1>3. CASE Validate(c)
  <2>1. /\ pc[c] = "called" /\ pc'[c] \in {"backup", "rejected"}
        /\ UNCHANGED <<fs, backup, idx, plan>>
    BY <1>3 DEF TypeOK, Validate
  <2>2. \A p \in Paths : ~Done(c, p)'
    BY <1>0, <2>1, EntryType DEF Copied, Done
  <2> QED
    BY <1>0, <2>1, <2>2 DEF Copied, Written
<1>4. CASE Probe(c)
  <2>1. /\ pc[c] = "backup" /\ idx[c] \in 1..Len(plan[c]) /\ Target(c) \in Paths
        /\ UNCHANGED <<fs, backup, plan>>
        /\ plan[c][idx[c]].path = Target(c)
    BY <1>4, EntryType DEF Probe, Target, Entry
  <2>2. CASE fs[Target(c)] = NoFile
    <3>1. pc'[c] = "backup" /\ idx'[c] = idx[c] + 1
      BY <1>4, <2>2 DEF Probe, TypeOK
    <3>2. \A p \in Paths : Done(c, p)' <=> Done(c, p) \/ p = Target(c)
      BY <2>1, <3>1 DEF Done
    <3> QED
      BY <1>0, <2>1, <2>2, <3>1, <3>2 DEF Copied, Written
  <2>3. CASE fs[Target(c)] # NoFile
    <3>1. pc'[c] = "found" /\ idx'[c] = idx[c]
      BY <1>4, <2>3 DEF Probe, TypeOK
    <3>2. \A p \in Paths : Done(c, p)' <=> Done(c, p)
      BY <2>1, <3>1 DEF Done
    <3> QED
      BY <1>0, <2>1, <3>1, <3>2 DEF Copied, Written
  <2> QED
    BY <2>2, <2>3
<1>5. CASE CopyBegin(c)
  <2>1. /\ pc[c] = "found" /\ pc'[c] = "copying"
        /\ UNCHANGED <<fs, plan, idx>>
        /\ Target(c)' = Target(c) /\ Dest(c) \in Dirs
        /\ src'[c] = fs[Target(c)]
        /\ \A p \in Paths : p # Target(c) => backup'[Dest(c)][p] = backup[Dest(c)][p]
    BY <1>5, EntryType DEF CopyBegin, TypeOK, Target, Entry
  <2>2. \A p \in Paths : Done(c, p)' <=> Done(c, p)
    BY <2>1 DEF Done
  <2> QED
    BY <1>0, <2>1, <2>2 DEF Copied, Written
<1>6. CASE CopyEnd(c)
  <2>1. /\ pc[c] = "copying" /\ pc'[c] = "backup" /\ idx'[c] = idx[c] + 1
        /\ UNCHANGED <<fs, plan>>
        /\ idx[c] \in 1..Len(plan[c]) /\ Target(c) \in Paths /\ Dest(c) \in Dirs
        /\ plan[c][idx[c]].path = Target(c)
    BY <1>6, EntryType DEF CopyEnd, TypeOK, Target, Entry
  <2>2. \A p \in Paths :
          backup'[Dest(c)][p] = IF p = Target(c) THEN fs[p] ELSE backup[Dest(c)][p]
    BY <1>0, <1>6, <2>1 DEF CopyEnd, Copied, TypeOK
  <2>3. \A p \in Paths : Done(c, p)' <=> Done(c, p) \/ p = Target(c)
    BY <2>1 DEF Done
  <2> QED
    BY <1>0, <2>1, <2>2, <2>3 DEF Copied, Written
<1>7. CASE EndBackup(c)
  <2>1. pc'[c] = "write" /\ idx'[c] = 1 /\ plan' = plan
    BY <1>7 DEF EndBackup, TypeOK
  <2>2. \A p \in Paths : ~Done(c, p)'
    BY <2>1, EntryType DEF Done
  <2> QED
    BY <2>1, <2>2 DEF Copied, Written
<1>8. CASE WriteBegin(c)
  <2>1. /\ pc[c] = "write" /\ pc'[c] = "writing" /\ UNCHANGED <<plan, idx>>
        /\ Target(c)' = Target(c) /\ Target(c) \in Paths
        /\ fs'[Target(c)] = Torn
        /\ \A p \in Paths : p # Target(c) => fs'[p] = fs[p]
    BY <1>8, EntryType DEF WriteBegin, TypeOK, Target, Entry
  <2>2. \A p \in Paths : Done(c, p)' <=> Done(c, p)
    BY <2>1 DEF Done
  <2>3. \A p \in Paths : p # Target(c) /\ LastWritten(c, p) => LastWritten(c, p)'
    BY <2>1 DEF LastWritten
  <2> QED
    BY <1>0, <2>1, <2>2, <2>3 DEF Copied, Written
<1>9. CASE Remove(c) \/ WriteEnd(c)
  <2>1. /\ pc[c] \in Writing /\ pc'[c] = "write" /\ idx'[c] = idx[c] + 1
        /\ UNCHANGED plan
        /\ idx[c] \in 1..Len(plan[c]) /\ Target(c) \in Paths
        /\ plan[c][idx[c]].path = Target(c)
        /\ plan[c][idx[c]] \in Change
        /\ \A j \in 1..Len(plan[c]) : plan[c][j].path \in Paths
        /\ Len(plan[c]) \in Nat
    BY <1>9, EntryType DEF Remove, WriteEnd, TypeOK, Target, Entry
  <2>2. /\ fs'[Target(c)] = Entry(c).data
        /\ \A p \in Paths : p # Target(c) => fs'[p] = fs[p]
    BY <1>0, <1>9, <2>1 DEF Remove, WriteEnd, TypeOK, Written
  <2>3. \A p \in Paths : Done(c, p)' <=> Done(c, p) \/ p = Target(c)
    BY <2>1 DEF Done
  <2>4. ASSUME NEW p \in Paths, p = Target(c)
        PROVE  LastWritten(c, p)'
    <3>1. plan'[c][idx[c]] = [path |-> p, data |-> fs'[p]]
      BY <2>1, <2>2, <2>4 DEF Change, Entry
    <3>2. idx[c] < idx'[c] /\ \A j \in (idx[c] + 1)..Len(plan'[c]) : ~(j < idx'[c])
      BY <2>1
    <3> QED
      BY <2>1, <3>1, <3>2 DEF LastWritten
  <2>5. ASSUME NEW p \in Paths, p # Target(c), LastWritten(c, p)
        PROVE  LastWritten(c, p)'
    <3>1. PICK i \in 1..Len(plan[c]) :
            /\ i < idx[c]
            /\ plan[c][i] = [path |-> p, data |-> fs[p]]
            /\ \A j \in (i + 1)..Len(plan[c]) : j < idx[c] => plan[c][j].path # p
      BY <2>5 DEF LastWritten
    <3>2. \A j \in (i + 1)..Len(plan[c]) : j < idx'[c] => plan[c][j].path # p
      BY <2>1, <2>5, <3>1
    <3> QED
      BY <2>1, <2>2, <2>5, <3>1, <3>2 DEF LastWritten
  <2>6. ASSUME NEW p \in Paths, Done(c, p)'
        PROVE  LastWritten(c, p)'
    <3>1. CASE p = Target(c)
      BY <2>4, <3>1
    <3>2. CASE p # Target(c)
      BY <1>0, <2>1, <2>3, <2>5, <2>6, <3>2 DEF Written
    <3> QED
      BY <3>1, <3>2
  <2> QED
    BY <2>1, <2>6 DEF Copied, Written
<1> QED
  BY <1>1, <1>2, <1>3, <1>4, <1>5, <1>6, <1>7, <1>8, <1>9 DEF Progress

LEMMA SnapshotInvHolds ==
    ASSUME TypeOK, TypeOK', SnapshotInv, [Next]_vars, ~Overlap, Hasty = {}, DistinctDirs
    PROVE  SnapshotInv'
<1>1. ASSUME NEW c \in Calls, Invoke(c) \/ Progress(c) \/ Fail(c)
      PROVE  SnapshotInv'
  BY <1>1, Alone, OthersKeep, OwnKeeps DEF SnapshotInv
<1>2. ASSUME NEW p \in Own, PlayerSave(p)
      PROVE  SnapshotInv'
  <2>1. UNCHANGED <<backup, pc, dir, plan, idx, src>> /\ \A c \in Calls : ~InFlight(c)
    BY <1>2 DEF PlayerSave, callVars
  <2>2. \A c \in Calls : pc[c] = "idle" \/ pc[c] \in Ended
    BY <2>1 DEF InFlight
  <2> QED
    BY <2>1, <2>2 DEF SnapshotInv, OneAtATime, InFlight, Copied, Written, Dest, BackingUp,
                      Writing, Ended
<1>3. CASE UNCHANGED vars
  BY <1>3 DEF vars, callVars, SnapshotInv, OneAtATime, InFlight, Copied, Written, Done,
              LastWritten, Dest, Target, Entry
<1> QED
  BY <1>1, <1>2, <1>3 DEF Next

\* What the contract sees of a call, by where the call is.
LEMMA Views ==
    ASSUME NEW c \in Calls
    PROVE  /\ PhaseView[c] = CASE pc[c] \in {"called"} \cup BackingUp -> "asked"
                               [] pc[c] \in Writing -> "archived"
                               [] pc[c] \in {"refused", "rejected", "failed"} -> "declined"
                               [] OTHER -> pc[c]
           /\ PhaseView'[c] = CASE pc'[c] \in {"called"} \cup BackingUp -> "asked"
                                [] pc'[c] \in Writing -> "archived"
                                [] pc'[c] \in {"refused", "rejected", "failed"} -> "declined"
                                [] OTHER -> pc'[c]
           /\ ArchiveView[c] = IF PastBackup(c) THEN backup[Dest(c)] ELSE NoArchive
           /\ dir' = dir =>
                ArchiveView'[c] = IF PastBackup(c)' THEN backup'[Dest(c)] ELSE NoArchive
BY DEF PhaseView, ArchiveView, Dest

\* A step of a call moves no other call's phase or archive.
LEMMA ViewsMove ==
    ASSUME TypeOK, SnapshotInv, ~Overlap, DistinctDirs,
           NEW c \in Calls, Invoke(c) \/ Progress(c) \/ Fail(c)
    PROVE  /\ PhaseView' = [PhaseView EXCEPT ![c] = PhaseView'[c]]
           /\ ArchiveView' = [ArchiveView EXCEPT ![c] = ArchiveView'[c]]
<1>1. ASSUME NEW o \in Calls, o # c
      PROVE  PhaseView'[o] = PhaseView[o] /\ ArchiveView'[o] = ArchiveView[o]
  <2>1. pc'[o] = pc[o] /\ backup'[Dest(o)] = backup[Dest(o)]
    BY <1>1, Alone DEF SnapshotInv
  <2> QED
    BY <2>1, Views, DirsFixed DEF PastBackup
<1>2. /\ PhaseView = [o \in Calls |-> PhaseView[o]]
      /\ PhaseView' = [o \in Calls |-> PhaseView'[o]]
      /\ ArchiveView = [o \in Calls |-> ArchiveView[o]]
      /\ ArchiveView' = [o \in Calls |-> ArchiveView'[o]]
  BY DEF PhaseView, ArchiveView
<1> QED
  BY <1>1, <1>2

\* The contract is busy exactly while a call is in flight.
LEMMA BusySeen ==
    ASSUME TypeOK
    PROVE  Snapshot!Busy <=> \E c \in Calls : InFlight(c)
<1>1. \A c \in Calls : PhaseView[c] \in {"asked", "archived"} <=> InFlight(c)
  BY Views DEF TypeOK, PCs, InFlight, Ended, BackingUp, Writing
<1> QED
  BY <1>1 DEF Snapshot!Busy

\* The copies of pass 1 amount to one snapshot, taken when pass 1 ends.
LEMMA ArchiveIsSnapshot ==
    ASSUME TypeOK, SnapshotInv, NEW c \in Calls, EndBackup(c)
    PROVE  backup[Dest(c)] = Snapshot!SnapshotOf(plan[c])
<1>1. pc[c] = "backup" /\ ~MoreEntries(c) /\ Copied(c) /\ Dest(c) \in Dirs
  BY EntryType DEF EndBackup, SnapshotInv
<1>2. \A p \in Paths : Done(c, p) <=> p \in Snapshot!Touched(plan[c])
  <2>1. idx[c] \in Nat /\ Len(plan[c]) \in Nat
    BY EntryType DEF TypeOK
  <2>2. \A j \in 1..Len(plan[c]) : j < idx[c]
    BY <1>1, <2>1 DEF MoreEntries
  <2> QED
    BY <2>2 DEF Done, Snapshot!Touched
<1>3. backup[Dest(c)] = [p \in Paths |-> backup[Dest(c)][p]]
  BY <1>1 DEF TypeOK
<1>4. \A p \in Paths : backup[Dest(c)][p] = IF Done(c, p) THEN fs[p] ELSE NoFile
  BY <1>1 DEF Copied, BackingUp
<1> QED
  BY <1>2, <1>3, <1>4 DEF Snapshot!SnapshotOf

\* Each step of a call is a step of the contract, or none.
LEMMA StepSeen ==
    ASSUME TypeOK, TypeOK', SnapshotInv, ~Overlap, DistinctDirs,
           NEW c \in Calls, Invoke(c) \/ Progress(c) \/ Fail(c)
    PROVE  [Snapshot!Next]_Snapshot!vars
<1> USE DEF BackingUp, Writing
<1>0. /\ PhaseView' = [PhaseView EXCEPT ![c] = PhaseView'[c]]
      /\ ArchiveView' = [ArchiveView EXCEPT ![c] = ArchiveView'[c]]
      /\ c \in DOMAIN PhaseView /\ c \in DOMAIN ArchiveView
      /\ PhaseView = [PhaseView EXCEPT ![c] = PhaseView[c]]
      /\ ArchiveView = [ArchiveView EXCEPT ![c] = ArchiveView[c]]
  <2>1. /\ PhaseView' = [PhaseView EXCEPT ![c] = PhaseView'[c]]
        /\ ArchiveView' = [ArchiveView EXCEPT ![c] = ArchiveView'[c]]
    BY ViewsMove
  <2>2. /\ PhaseView = [o \in Calls |-> PhaseView[o]]
        /\ ArchiveView = [o \in Calls |-> ArchiveView[o]]
    BY DEF PhaseView, ArchiveView
  <2> QED
    BY <2>1, <2>2
<1>1. CASE Invoke(c)
  <2>1. /\ pc[c] = "idle" /\ pc'[c] = "called" /\ UNCHANGED <<fs, backup>>
        /\ \A o \in Calls : ~InFlight(o)
        /\ \E pl \in Plans : plan' = [plan EXCEPT ![c] = pl]
    BY <1>1 DEF Invoke, TypeOK
  <2>2. PhaseView[c] = "idle" /\ PhaseView'[c] = "asked" /\ ArchiveView'[c] = ArchiveView[c]
    BY <2>1, Views, DirsFixed DEF PastBackup
  <2>3. Snapshot!Ask(c)
    BY <1>0, <2>1, <2>2, BusySeen DEF Snapshot!Ask
  <2> QED
    BY <2>3 DEF Snapshot!Next
<1>2. ASSUME \/ Refuse(c) \/ Vanished(c)
             \/ Validate(c) /\ pc'[c] = "rejected"
             \/ Fail(c) /\ pc[c] \notin Writing
      PROVE  Snapshot!Decline(c)
  <2>1. /\ pc[c] \in {"called", "backup", "found", "copying"}
        /\ pc'[c] \in {"refused", "rejected", "failed"}
        /\ UNCHANGED <<fs, backup, plan>>
    BY <1>2 DEF TypeOK, Refuse, Vanished, Validate, Fail, InFlight, PCs, Ended
  <2>2. PhaseView[c] = "asked" /\ PhaseView'[c] = "declined" /\ ArchiveView'[c] = ArchiveView[c]
    BY <2>1, Views, DirsFixed DEF PastBackup
  <2> QED
    BY <1>0, <2>1, <2>2 DEF Snapshot!Decline
<1>3. ASSUME \/ Probe(c) \/ CopyBegin(c) \/ CopyEnd(c)
             \/ Validate(c) /\ pc'[c] # "rejected"
      PROVE  UNCHANGED Snapshot!vars
  <2>1. /\ pc[c] \in {"called", "backup", "found", "copying"}
        /\ pc'[c] \in {"backup", "found", "copying"}
        /\ UNCHANGED <<fs, plan>>
    BY <1>3 DEF TypeOK, Probe, CopyBegin, CopyEnd, Validate
  <2>2. PhaseView'[c] = PhaseView[c] /\ ArchiveView'[c] = ArchiveView[c]
    BY <2>1, Views, DirsFixed DEF PastBackup
  <2> QED
    BY <1>0, <2>1, <2>2 DEF Snapshot!vars
<1>4. ASSUME EndBackup(c)
      PROVE  Snapshot!Archive(c)
  <2>1. pc[c] = "backup" /\ pc'[c] = "write" /\ UNCHANGED <<fs, backup, plan>>
    BY <1>4 DEF TypeOK, EndBackup
  <2>2. PhaseView[c] = "asked" /\ PhaseView'[c] = "archived" /\ ArchiveView'[c] = backup[Dest(c)]
    BY <2>1, Views, DirsFixed DEF PastBackup
  <2> QED
    BY <1>0, <1>4, <2>1, <2>2, ArchiveIsSnapshot DEF Snapshot!Archive
<1>5. ASSUME Remove(c) \/ WriteBegin(c) \/ WriteEnd(c)
      PROVE  Snapshot!Put(c, Target(c)) /\ Target(c) \in Paths
  <2>1. /\ pc[c] \in Writing /\ pc'[c] \in Writing /\ UNCHANGED <<backup, plan>>
        /\ idx[c] \in 1..Len(plan[c]) /\ Target(c) \in Paths
    BY <1>5, EntryType DEF TypeOK, Remove, WriteBegin, WriteEnd
  <2>2. PhaseView[c] = "archived" /\ PhaseView'[c] = PhaseView[c]
        /\ ArchiveView'[c] = ArchiveView[c]
    BY <2>1, Views, DirsFixed DEF PastBackup
  <2>3. Target(c) \in Snapshot!Touched(plan[c])
        /\ Entry(c).data \in Snapshot!DataFor(plan[c], Target(c))
    BY <2>1 DEF Snapshot!Touched, Snapshot!DataFor, Target, Entry
  <2>4. \E v \in {Entry(c).data, Torn} : fs' = [fs EXCEPT ![Target(c)] = v]
    BY <1>5 DEF Remove, WriteBegin, WriteEnd, SnapshotInv, Written
  <2> QED
    BY <1>0, <2>1, <2>2, <2>3, <2>4 DEF Snapshot!Put
<1>6. ASSUME Finish(c)
      PROVE  Snapshot!Complete(c)
  <2>1. /\ pc[c] = "write" /\ pc'[c] = "applied" /\ UNCHANGED <<fs, backup, plan>>
        /\ ~MoreEntries(c) /\ Written(c)
    BY <1>6 DEF TypeOK, Finish, SnapshotInv
  <2>2. PhaseView[c] = "archived" /\ PhaseView'[c] = "applied" /\ ArchiveView'[c] = ArchiveView[c]
    BY <2>1, Views, DirsFixed DEF PastBackup
  <2>3. ASSUME NEW p \in Snapshot!Touched(plan[c])
        PROVE  Snapshot!IsFinal(plan[c], p, fs[p])
    <3>1. /\ \A j \in 1..Len(plan[c]) : j < idx[c]
          /\ p \in Paths /\ Len(plan[c]) \in Nat
      BY <2>1, EntryType DEF MoreEntries, TypeOK, Snapshot!Touched
    <3>2. Done(c, p)
      BY <3>1 DEF Done, Snapshot!Touched
    <3>3. LastWritten(c, p)
      BY <2>1, <3>1, <3>2 DEF Written
    <3>4. PICK i \in 1..Len(plan[c]) :
            /\ plan[c][i] = [path |-> p, data |-> fs[p]]
            /\ \A j \in (i + 1)..Len(plan[c]) : j < idx[c] => plan[c][j].path # p
      BY <3>3 DEF LastWritten
    <3>5. \A j \in (i + 1)..Len(plan[c]) : plan[c][j].path # p
      BY <3>1, <3>4
    <3> QED
      BY <3>4, <3>5 DEF Snapshot!IsFinal
  <2> QED
    BY <1>0, <2>1, <2>2, <2>3 DEF Snapshot!Complete
<1>7. ASSUME Fail(c), pc[c] \in Writing
      PROVE  Snapshot!StopShort(c)
  <2>1. pc'[c] = "partial" /\ UNCHANGED <<fs, backup, plan>>
    BY <1>7 DEF TypeOK, Fail
  <2>2. PhaseView[c] = "archived" /\ PhaseView'[c] = "partial" /\ ArchiveView'[c] = ArchiveView[c]
    BY <1>7, <2>1, Views, DirsFixed DEF PastBackup
  <2> QED
    BY <1>0, <2>1, <2>2 DEF Snapshot!StopShort
<1>8. CASE Progress(c) \/ Fail(c)
  BY <1>2, <1>3, <1>4, <1>5, <1>6, <1>7, <1>8 DEF Progress, Snapshot!Next
<1> QED
  BY <1>1, <1>8

\* A call that nothing overlaps and during which the player saves nothing is
\* one archive at one instant followed by writes of what was archived, for any
\* plans and contents, and a success has every planned file in place (apply's
\* two passes).
THEOREM ImplementsContract ==
    ASSUME ~Overlap, Hasty = {}, DistinctDirs
    PROVE  Spec => ImplementsSnapshotApply
<1>1. Init => Snapshot!Init /\ SnapshotInv
  <2> SUFFICES ASSUME Init PROVE Snapshot!Init /\ SnapshotInv
    OBVIOUS
  <2>1. PhaseView = [c \in Calls |-> "idle"] /\ ArchiveView = [c \in Calls |-> NoArchive]
    BY DEF Init, PhaseView, ArchiveView, PastBackup, BackingUp, Writing
  <2>2. SnapshotInv
    BY ConstantsAssumption
    DEF ConstantsAssumption, Init, SnapshotInv, OneAtATime, InFlight, Copied, Written, Dest,
        BackingUp, Writing
  <2> QED
    BY <2>1, <2>2 DEF Init, Snapshot!Init
<1>2. TypeOK /\ TypeOK' /\ SnapshotInv /\ [Next]_vars => SnapshotInv'
  BY SnapshotInvHolds
<1>3. TypeOK /\ TypeOK' /\ SnapshotInv /\ [Next]_vars => [Snapshot!Next]_Snapshot!vars
  <2> SUFFICES ASSUME TypeOK, TypeOK', SnapshotInv, [Next]_vars
               PROVE  [Snapshot!Next]_Snapshot!vars
    OBVIOUS
  <2>1. ASSUME NEW c \in Calls, Invoke(c) \/ Progress(c) \/ Fail(c)
        PROVE  [Snapshot!Next]_Snapshot!vars
    BY <2>1, StepSeen
  <2>2. ASSUME NEW p \in Own, PlayerSave(p)
        PROVE  Snapshot!PlayerSave(p)
    <3>1. UNCHANGED <<backup, pc, dir, plan>> /\ \A c \in Calls : ~InFlight(c)
      BY <2>2 DEF PlayerSave, callVars
    <3>2. UNCHANGED <<PhaseView, ArchiveView>>
      BY <3>1 DEF PhaseView, ArchiveView, PastBackup, Dest
    <3>3. ~Snapshot!Busy
      BY <3>1, BusySeen
    <3> QED
      BY <2>2, <3>1, <3>2, <3>3 DEF PlayerSave, Snapshot!PlayerSave
  <2>3. CASE UNCHANGED vars
    BY <2>3 DEF vars, callVars, Snapshot!vars, PhaseView, ArchiveView, PastBackup, Dest
  <2> QED
    BY <2>1, <2>2, <2>3, ConstantsAssumption DEF ConstantsAssumption, Next, Snapshot!Next
<1> QED
  BY <1>1, <1>2, <1>3, TypeCorrect, PTL DEF Spec, ImplementsSnapshotApply, Snapshot!Spec

-----------------------------------------------------------------------------
(* Why a call settles.                                                     *)

\* How far a call is: the pass, and the step of an entry within the pass.
Pass(state) == CASE state = "called" -> 0 [] state \in BackingUp -> 1
                 [] state \in Writing -> 2 [] OTHER -> 3
Part(state) == CASE state \in {"found", "writing"} -> 1 [] state = "copying" -> 2 [] OTHER -> 0

\* Call c stays as it is, or goes on to the next pass, to the next entry of its
\* plan, of which there is one more than it has at most, or within an entry.
Advances(c) ==
    /\ plan'[c] = plan[c]
    /\ \/ pc'[c] = pc[c] /\ idx'[c] = idx[c]
       \/ Pass(pc'[c]) > Pass(pc[c])
       \/ Pass(pc'[c]) = Pass(pc[c]) /\ idx'[c] \in (idx[c] + 1)..(Len(plan[c]) + 1)
       \/ /\ Pass(pc'[c]) = Pass(pc[c]) /\ idx'[c] = idx[c]
          /\ Part(pc'[c]) > Part(pc[c])
CallsAdvance == [][\A c \in Calls : pc[c] # "idle" => Advances(c)]_vars

LEMMA OwnAdvance ==
    ASSUME TypeOK, NEW c \in Calls, Progress(c) \/ Fail(c)
    PROVE  Advances(c)
<1> USE DEF Pass, Part, BackingUp, Writing, Ended
<1>1. /\ pc[c] \in PCs /\ idx[c] \in Nat /\ Len(plan[c]) \in Nat /\ plan' = plan
      /\ MoreEntries(c) => idx[c] + 1 \in (idx[c] + 1)..(Len(plan[c]) + 1)
  BY EntryType DEF TypeOK, MoreEntries, Progress, Refuse, Validate, Probe, CopyBegin, Vanished,
     CopyEnd, EndBackup, Remove, WriteBegin, WriteEnd, Finish, Fail
<1>2. pc \in [Calls -> PCs] /\ idx \in [Calls -> Nat \ {0}]
  BY DEF TypeOK
<1>3. CASE Refuse(c) \/ Validate(c) \/ Vanished(c) \/ Finish(c)
  BY <1>1, <1>2, <1>3 DEF Refuse, Validate, Vanished, Finish, Advances
<1>4. CASE Fail(c)
  BY <1>1, <1>2, <1>4 DEF Fail, InFlight, Advances, PCs
<1>5. CASE Probe(c)
  BY <1>1, <1>2, <1>5 DEF Probe, Advances
<1>6. CASE CopyBegin(c) \/ WriteBegin(c)
  BY <1>1, <1>2, <1>6 DEF CopyBegin, WriteBegin, Advances
<1>7. CASE CopyEnd(c) \/ WriteEnd(c)
  <2>1. MoreEntries(c)
    BY <1>7 DEF CopyEnd, WriteEnd, TypeOK
  <2> QED
    BY <1>1, <1>2, <1>7, <2>1 DEF CopyEnd, WriteEnd, Advances
<1>8. CASE EndBackup(c)
  BY <1>1, <1>2, <1>8 DEF EndBackup, Advances
<1>9. CASE Remove(c)
  BY <1>1, <1>2, <1>9 DEF Remove, Advances
<1> QED
  BY <1>3, <1>4, <1>5, <1>6, <1>7, <1>8, <1>9 DEF Progress

\* However calls overlap and whatever the player does meanwhile, nothing sets a
\* call back: each of its steps leads further through its plan, and one that
\* ended stays as it ended (the two loops of apply).
THEOREM CallsGoForward == Spec => CallsAdvance
<1> DEFINE Forward == \A c \in Calls : pc[c] # "idle" => Advances(c)
<1>1. ASSUME TypeOK, [Next]_vars, NEW c \in Calls, pc[c] # "idle"
      PROVE  Advances(c)
  <2>1. pc \in [Calls -> PCs] /\ idx \in [Calls -> Nat \ {0}]
        /\ plan \in [Calls -> Plans \cup {<<>>}]
    BY <1>1 DEF TypeOK
  <2>2. CASE \/ \E p \in Own : PlayerSave(p)
             \/ UNCHANGED vars
    BY <2>2 DEF PlayerSave, vars, callVars, Advances
  <2>3. ASSUME NEW o \in Calls, o # c, Invoke(o) \/ Progress(o) \/ Fail(o)
        PROVE  Advances(c)
    <3>1. pc'[c] = pc[c] /\ idx'[c] = idx[c] /\ plan'[c] = plan[c]
      BY <2>1, <2>3 DEF Invoke, Progress, Refuse, Validate, Probe, CopyBegin, Vanished,
         CopyEnd, EndBackup, Remove, WriteBegin, WriteEnd, Finish, Fail
    <3> QED
      BY <3>1 DEF Advances
  <2>4. CASE Progress(c) \/ Fail(c)
    BY <1>1, <2>4, OwnAdvance
  <2>5. ~Invoke(c)
    BY <1>1 DEF Invoke
  <2> QED
    BY <1>1, <2>2, <2>3, <2>4, <2>5 DEF Next
<1>2. TypeOK /\ [Next]_vars => [Forward]_vars
  BY <1>1
<1> QED
  BY <1>2, TypeCorrect, PTL DEF Spec, CallsAdvance

=============================================================================
