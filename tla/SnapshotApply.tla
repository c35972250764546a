---------------------------- MODULE SnapshotApply ---------------------------
(***************************************************************************)
(* What a guarded apply promises when nothing else writes to the instance  *)
(* meanwhile, without saying how (core/ports/instance-fs.ts): a call either *)
(* declines and changes nothing, or archives, at one instant, everything   *)
(* its plan touches and only then changes those files.  It reports success *)
(* only when every file is as planned; when it stops short, the archive is *)
(* still the state before the call.                                        *)
(***************************************************************************)
EXTENDS Naturals, Sequences

CONSTANTS Calls, Paths, PlayerData, NoFile, Torn, Plans,
          NoArchive     \* the call has archived nothing

VARIABLES
    files,      \* contents of the instance's files
    archive,    \* what each call archived
    phase,      \* "idle", "asked", "archived" or how the call ended
    order       \* the plan each call was given

vars == <<files, archive, phase, order>>

Touched(pl)       == {pl[i].path : i \in 1..Len(pl)}
DataFor(pl, p)    == {pl[i].data : i \in {j \in 1..Len(pl) : pl[j].path = p}}
\* The last entry for a path wins.
IsFinal(pl, p, v) ==
    \E i \in 1..Len(pl) :
        /\ pl[i] = [path |-> p, data |-> v]
        /\ \A j \in (i + 1)..Len(pl) : pl[j].path # p
SnapshotOf(pl)    == [p \in Paths |-> IF p \in Touched(pl) THEN files[p]
                                      ELSE NoFile]

Init ==
    /\ files \in [Paths -> PlayerData \cup {NoFile}]
    /\ archive = [c \in Calls |-> NoArchive]
    /\ phase = [c \in Calls |-> "idle"]
    /\ order = [c \in Calls |-> <<>>]

Busy == \E c \in Calls : phase[c] \in {"asked", "archived"}

Ask(c) ==
    /\ phase[c] = "idle"
    /\ ~Busy
    /\ \E pl \in Plans : order' = [order EXCEPT ![c] = pl]
    /\ phase' = [phase EXCEPT ![c] = "asked"]
    /\ UNCHANGED <<files, archive>>

Decline(c) ==
    /\ phase[c] = "asked"
    /\ phase' = [phase EXCEPT ![c] = "declined"]
    /\ UNCHANGED <<files, archive, order>>

Archive(c) ==
    /\ phase[c] = "asked"
    /\ archive' = [archive EXCEPT ![c] = SnapshotOf(order[c])]
    /\ phase' = [phase EXCEPT ![c] = "archived"]
    /\ UNCHANGED <<files, order>>

Put(c, p) ==
    /\ phase[c] = "archived"
    /\ p \in Touched(order[c])
    /\ \E v \in DataFor(order[c], p) \cup {Torn} :
        files' = [files EXCEPT ![p] = v]
    /\ UNCHANGED <<archive, phase, order>>

Complete(c) ==
    /\ phase[c] = "archived"
    /\ \A p \in Touched(order[c]) : IsFinal(order[c], p, files[p])
    /\ phase' = [phase EXCEPT ![c] = "applied"]
    /\ UNCHANGED <<files, archive, order>>

StopShort(c) ==
    /\ phase[c] = "archived"
    /\ phase' = [phase EXCEPT ![c] = "partial"]
    /\ UNCHANGED <<files, archive, order>>

PlayerSave(p) ==
    /\ ~Busy
    /\ \E v \in PlayerData \cup {NoFile} : files' = [files EXCEPT ![p] = v]
    /\ UNCHANGED <<archive, phase, order>>

Next ==
    \/ \E c \in Calls :
        \/ Ask(c) \/ Decline(c) \/ Archive(c) \/ Complete(c) \/ StopShort(c)
        \/ \E p \in Paths : Put(c, p)
    \/ \E p \in Paths : PlayerSave(p)

Spec == Init /\ [][Next]_vars

=============================================================================
