--------------------------- MODULE DesktopProofs ---------------------------
(***************************************************************************)
(* Proofs about Desktop, for any folders, contents and number of calls:    *)
(* what the gate refuses is never written, a step marked done was done,    *)
(* and a screen is busy exactly while a call of its own is in flight.      *)
(*                                                                         *)
(* Every step of the main process is an answer to one call, and what it    *)
(* writes is good (Answered, WritesGood); the services differ in no more,  *)
(* so the invariant is proved of that summary once.                        *)
(***************************************************************************)
EXTENDS Desktop, TLAPS

Disks == [Folders -> [Kinds -> Contents \cup {Nothing}]]
Good == Contents \ BadPacks

\* Some folder has a file of this kind.
Holds(d, kind) == \E f \in Folders : d[f][kind] # Nothing

\* An answer that says that the step was done says so of a disk that shows it.
Earns(c, a, d) ==
    a.done =>
        /\ c.screen \in {"build", "launch"} => Holds(d, "build")
        /\ c.screen = "install" /\ a.code = "ok" => Holds(d, "install")

\* A call that the guard let through names its place, where it has one.
Placed(c) ==
    c.accepted /\ (c.screen \in {"build", "install", "launch", "quests", "kubejs"}
                   \/ (c.screen \in {"export", "release"} /\ c.apply))
        => c.place \in Folders

CallsKept ==
    \A i \in 1..MaxCalls : calls[i] # Nothing =>
        /\ Placed(calls[i])
        /\ calls[i].answer # Nothing => Earns(calls[i], calls[i].answer, disk)

AppInv ==
    /\ TypeOK
    /\ BadNeverWritten
    /\ StepsEarned
    /\ BusyMeansCalling
    /\ CallsKept

\* A step of the main process, seen from outside.
Answered(i) ==
    \E a \in Answer :
        /\ calls' = [calls EXCEPT ![i].answer = a]
        /\ Earns(calls[i], a, disk')
WritesGood ==
    /\ disk' \in Disks
    /\ \A f \in Folders, k \in Kinds :
        disk'[f][k] = disk[f][k] \/ disk'[f][k] \in Good

-----------------------------------------------------------------------------
(* What a call carries.                                                    *)

LEMMA AcceptsTyped ==
    ASSUME NEW ch, NEW keys, NEW untaken
    PROVE  Accepts(ch, keys, untaken) \in BOOLEAN
    BY DEF Accepts

LEMMA BoxTyped ==
    ASSUME NEW has, NEW values, values # {}
    PROVE  Box(has, values) \subseteq values \cup {Blank}
<1>1. CASE has
    BY <1>1 DEF Box
<1>2. CASE ~has
    <2>1. PICK v : v \in values
        OBVIOUS
    <2>2. (CHOOSE w \in values : TRUE) \in values
        BY <2>1
    <2> QED BY <1>2, <2>2 DEF Box
<1> QED BY <1>1, <1>2

LEMMA BoxesTyped ==
    ASSUME NEW s, NEW b \in Boxes(s)
    PROVE  /\ b.folder \in Folders \cup {Blank}
           /\ b.pack \in Contents /\ b.typed \in Contents
           /\ b.out \in Folders \cup {Blank}
           /\ b.paste \in BOOLEAN
<1>1. Folders # {} /\ Packs # {}
    BY DesktopAssumption
<1>2. \A has : Box(has, Folders) \subseteq Folders \cup {Blank}
                /\ Box(has, Packs) \subseteq Packs \cup {Blank}
    BY <1>1, BoxTyped
<1>3. /\ b.folder \in Box(s \notin {"export", "release", "updates", "migrate"}, Folders)
      /\ b.pack \in Box(s \notin {"install", "launch", "diagnose", "doctor"}, Packs)
      /\ b.typed \in Box(s \notin {"resolve", "install", "launch", "updates", "doctor"}, Packs)
      /\ b.out \in Box(s \in {"export", "release"}, Folders)
      /\ b.paste \in (IF s \in {"quests", "kubejs"} THEN BOOLEAN ELSE {FALSE})
    BY Zenon DEF Boxes
<1> QED BY <1>2, <1>3 DEF Contents

LEMMA CallTyped ==
    ASSUME ui \in Screen, NEW b \in Boxes(ui.at), NEW apply \in BOOLEAN
    PROVE  /\ NewCall(b, apply) \in Call
           /\ NewCall(b, apply).screen = ui.at
           /\ NewCall(b, apply).live
           /\ NewCall(b, apply).answer = Nothing
<1>1. /\ b.folder \in Folders \cup {Blank}
      /\ b.pack \in Contents /\ b.typed \in Contents
      /\ b.out \in Folders \cup {Blank}
      /\ b.paste \in BOOLEAN
    BY BoxesTyped
<1>2. /\ ui.at \in Channels /\ ui.force \in BOOLEAN /\ ui.plan \in Plan \cup {Nothing}
    BY DEF Screen
<1> DEFINE n == NewCall(b, apply)
<1>3. n.accepted \in BOOLEAN
    BY AcceptsTyped, Zenon DEF NewCall
<1>4. n.place \in Folders \cup {Blank}
    BY <1>1 DEF NewCall
<1>5. n.what \in Contents
    BY <1>1 DEF NewCall, Contents
<1>6. n.paste \in BOOLEAN /\ n.odd \in BOOLEAN /\ n.force \in BOOLEAN
    BY <1>1, <1>2 DEF NewCall
<1>7. /\ n.screen = ui.at /\ n.apply = apply /\ n.live = TRUE /\ n.answer = Nothing
      /\ n.seen \in Plan \cup {Nothing}
    BY <1>2 DEF NewCall
<1>8. n = [screen |-> n.screen, apply |-> n.apply, force |-> n.force,
           place |-> n.place, what |-> n.what, paste |-> n.paste, seen |-> n.seen,
           accepted |-> n.accepted, odd |-> n.odd, live |-> n.live, answer |-> n.answer]
    BY Zenon DEF NewCall
<1>9. n \in Call
    <2> HIDE DEF n
    <2> QED BY <1>2, <1>3, <1>4, <1>5, <1>6, <1>7, <1>8 DEF Call
<1> QED BY <1>7, <1>9

LEMMA CallPlaced ==
    ASSUME ui \in Screen, NEW b \in Boxes(ui.at), NEW apply \in BOOLEAN
    PROVE  Placed(NewCall(b, apply))
<1> DEFINE n == NewCall(b, apply)
           keys == Shown(b, apply).keys
<1>1. /\ b.folder \in Folders \cup {Blank} /\ b.out \in Folders \cup {Blank}
      /\ n.screen = ui.at /\ n.apply = apply
      /\ n.accepted = Accepts(ui.at, keys, Untaken(b))
    BY BoxesTyped, CallTyped DEF NewCall
<1>2. n.accepted => keys \cap Empty(b) = {}
    BY <1>1 DEF Accepts, Untaken
<1>3. ("instancePath" \in keys /\ n.accepted => b.folder \in Folders)
      /\ ("out" \in keys /\ n.accepted => b.out \in Folders)
    BY <1>1, <1>2 DEF Empty
<1>4. CASE ui.at = "build"
    <2>1. "instancePath" \in keys
        BY <1>4 DEF Shown, BuildScreen, Keys
    <2>2. n.place = b.folder
        BY <1>4 DEF NewCall
    <2> QED BY <1>1, <1>3, <1>4, <2>1, <2>2 DEF Placed
<1>5. CASE ui.at = "install"
    <2>1. "instancePath" \in keys
        BY <1>5 DEF Shown, InstallScreen, Keys
    <2>2. n.place = b.folder
        BY <1>5 DEF NewCall
    <2> QED BY <1>1, <1>3, <1>5, <2>1, <2>2 DEF Placed
<1>6. CASE ui.at = "launch"
    <2>1. "instancePath" \in keys
        BY <1>6 DEF Shown, LaunchScreen
    <2>2. n.place = b.folder
        BY <1>6 DEF NewCall
    <2> QED BY <1>1, <1>3, <1>6, <2>1, <2>2 DEF Placed
<1>7. CASE ui.at \in {"quests", "kubejs"}
    <2>1. "instancePath" \in keys
        BY <1>7 DEF Shown, QuestsScreen, KubeJsScreen, Keys
    <2>2. n.place = b.folder
        BY <1>7 DEF NewCall
    <2> QED BY <1>1, <1>3, <1>7, <2>1, <2>2 DEF Placed
<1>8. CASE ui.at \in {"export", "release"} /\ apply
    <2>1. "out" \in keys
        BY <1>8 DEF Shown, ExportScreen, ReleaseScreen
    <2>2. n.place = b.out
        BY <1>8 DEF NewCall
    <2> QED BY <1>1, <1>3, <1>8, <2>1, <2>2 DEF Placed
<1> QED BY <1>1, <1>4, <1>5, <1>6, <1>7, <1>8 DEF Placed

-----------------------------------------------------------------------------
(* The main process: each service is an answer and good writes.            *)

\* What the summary needs to be told of the disk.
LEMMA DiskGrows ==
    ASSUME disk \in Disks, WritesGood, NEW kind \in Kinds, Holds(disk, kind)
    PROVE  Holds(disk', kind)
<1>1. PICK f \in Folders : disk[f][kind] # Nothing
    BY DEF Holds
<1>2. Nothing \notin Good
    BY DesktopAssumption DEF Good, Contents
<1> QED BY <1>1, <1>2 DEF WritesGood, Holds

LEMMA PutGood ==
    ASSUME disk \in Disks, NEW place, NEW kind \in Kinds, NEW content \in Good,
           disk' = [disk EXCEPT ![place][kind] = content]
    PROVE  WritesGood /\ (place \in Folders => Holds(disk', kind))
<1>1. content \in Contents \cup {Nothing} /\ content # Nothing
    BY DesktopAssumption DEF Good, Contents
<1>2. disk' \in Disks
    BY <1>1 DEF Disks
<1>3. \A f \in Folders, k \in Kinds :
        disk'[f][k] = IF f = place /\ k = kind THEN content ELSE disk[f][k]
    BY DEF Disks
<1> QED BY <1>1, <1>2, <1>3 DEF WritesGood, Holds

LEMMA DiskKept ==
    ASSUME disk \in Disks, UNCHANGED disk
    PROVE  WritesGood
    BY DEF WritesGood, Disks

LEMMA AnswerTyped ==
    ASSUME NEW i \in 1..MaxCalls, NEW code \in Codes, NEW plan \in Plan \cup {Nothing},
           NEW done \in BOOLEAN, NEW crashed \in BOOLEAN,
           Answers(i, code, plan, done, crashed)
    PROVE  \E a \in Answer :
            /\ a.done = done /\ a.code = code
            /\ calls' = [calls EXCEPT ![i].answer = a]
            /\ UNCHANGED <<ui, wf, made>>
<1> DEFINE a == [code |-> code, plan |-> plan, done |-> done, crashed |-> crashed]
<1>1. a \in Answer /\ a.done = done /\ a.code = code
    BY DEF Answer
<1> QED BY <1>1 DEF Answers

\* A step of the main process leaves the window alone.
Serves(i) == Answered(i) /\ WritesGood /\ UNCHANGED <<ui, wf, made>>

LEMMA ReadsServe ==
    ASSUME disk \in Disks, NEW i \in 1..MaxCalls, NEW code \in Codes,
           NEW plan \in Plan \cup {Nothing}, ReadsOnly(i, code, plan)
    PROVE  Serves(i)
<1>1. Answers(i, code, plan, FALSE, FALSE) /\ UNCHANGED disk
    BY DEF ReadsOnly
<1>2. PICK a \in Answer :
        /\ a.done = FALSE /\ a.code = code
        /\ calls' = [calls EXCEPT ![i].answer = a]
        /\ UNCHANGED <<ui, wf, made>>
    BY <1>1, AnswerTyped
<1> QED BY <1>1, <1>2, DiskKept DEF Serves, Answered, Earns

\* A guarded write earns the step of its kind.
LEMMA GuardedServes ==
    ASSUME disk \in Disks, NEW i \in 1..MaxCalls, NEW place \in Folders \cup {Blank},
           NEW shown \in Folders \cup {Blank}, NEW kind \in Kinds,
           NEW content \in Good, NEW destructive \in BOOLEAN,
           Guarded(i, place, shown, kind, content, destructive),
           calls[i].screen \in {"build", "install"}
               => calls[i].screen = kind /\ place \in Folders,
           calls[i].screen # "launch"
    PROVE  Serves(i)
<1> DEFINE plan == [folder |-> shown, content |-> content, destructive |-> destructive]
<1>1. plan \in Plan
    BY DEF Plan, Good
<1>2. "ok" \in Codes /\ "error" \in Codes
    BY DEF Codes
<1>3. CASE ReadsOnly(i, "ok", plan) \/ ReadsOnly(i, "error", plan)
    BY <1>1, <1>2, <1>3, ReadsServe
<1>4. CASE /\ disk' = [disk EXCEPT ![place][kind] = content]
           /\ Answers(i, "ok", plan, TRUE, FALSE)
    <2>1. PICK a \in Answer :
            /\ a.done = TRUE /\ a.code = "ok"
            /\ calls' = [calls EXCEPT ![i].answer = a]
            /\ UNCHANGED <<ui, wf, made>>
        BY <1>1, <1>2, <1>4, AnswerTyped
    <2>2. WritesGood /\ (place \in Folders => Holds(disk', kind))
        BY <1>4, PutGood
    <2> QED BY <2>1, <2>2 DEF Serves, Answered, Earns
<1> QED BY <1>3, <1>4 DEF Guarded

\* Every service, the guard and a rejected promise.
LEMMA ServeServes ==
    ASSUME AppInv, NEW i \in 1..MaxCalls, Serve(i)
    PROVE  /\ calls[i] # Nothing /\ calls[i].answer = Nothing
           /\ Serves(i)
<1> DEFINE c == calls[i]
<1>1. disk \in Disks
    BY DEF AppInv, TypeOK, Disks
<1>2. c # Nothing /\ c.answer = Nothing
    BY DEF Serve, Refuse, Throw, ServeReport, ServeDoctor, ServeDiagnose, ServeBuild,
        ServeInstall, ServeLaunch, ServeExport, ServeRelease, ServeQuests, ServeKubeJs,
        Pending
<1> SUFFICES Serves(i)
    BY <1>2
<1>3. c \in Call
    BY <1>2 DEF AppInv, TypeOK
<1>4. /\ c.place \in Folders \cup {Blank} /\ c.what \in Contents
      /\ c.paste \in BOOLEAN /\ c.apply \in BOOLEAN
    BY <1>3 DEF Call
<1>5. Placed(c)
    BY <1>2 DEF AppInv, CallsKept
<1>6. /\ Nothing \in Plan \cup {Nothing} /\ Codes = {"ok", "error", "blocked", "refused", "thrown"}
      /\ Blank \notin BadPacks /\ BadPacks \subseteq Packs
    BY DesktopAssumption DEF Codes
<1>7. Kinds = {"build", "install", "quests", "kubejs", "archive"}
    BY DEF Kinds
<1>8. \A code \in Codes : ReadsOnly(i, code, Nothing) => Serves(i)
    BY <1>1, <1>6, ReadsServe
<1>9. c.what \notin BadPacks => c.what \in Good
    BY <1>4 DEF Good
<1>a. \A k \in Kinds, f \in Folders : disk[f][k] # Nothing => disk[f][k] \in Good
    BY <1>1 DEF AppInv, BadNeverWritten, Disks, Good
<1>b. CASE Refuse(i) \/ Throw(i)
    BY <1>b, <1>6, <1>8 DEF Refuse, Throw
<1>c. CASE ServeReport(i) \/ ServeDoctor(i) \/ ServeDiagnose(i)
    BY <1>c, <1>6, <1>8 DEF ServeReport, ServeDoctor, ServeDiagnose
<1>d. CASE ServeBuild(i)
    <2>1. c.screen = "build" /\ c.accepted
        BY <1>d DEF ServeBuild, Pending
    <2>2. c.place \in Folders
        BY <1>5, <2>1 DEF Placed
    <2>3. CASE ReadsOnly(i, "blocked", Nothing)
        BY <2>3, <1>6, <1>8
    <2>4. CASE /\ c.what \notin BadPacks
               /\ Guarded(i, c.place, c.place, "build", c.what,
                          disk[c.place]["build"] # Nothing)
        <3> DEFINE destructive == disk[c.place]["build"] # Nothing
        <3>1. destructive \in BOOLEAN
            OBVIOUS
        <3> HIDE DEF destructive
        <3>2. Guarded(i, c.place, c.place, "build", c.what, destructive)
            BY <2>4 DEF destructive
        <3> QED BY <1>1, <1>4, <1>7, <1>9, <2>1, <2>2, <2>4, <3>1, <3>2, GuardedServes
    <2> QED BY <1>d, <2>3, <2>4 DEF ServeBuild
<1>e. CASE ServeInstall(i)
    <2> DEFINE built == disk[c.place]["build"]
               there == disk[c.place]["install"]
               destructive == there \notin {Nothing, built}
               plan == [folder |-> c.place, content |-> built, destructive |-> destructive]
    <2>1. c.screen = "install" /\ c.accepted
        BY <1>e DEF ServeInstall, Pending
    <2>2. c.place \in Folders
        BY <1>5, <2>1 DEF Placed
    <2>3. destructive \in BOOLEAN
        OBVIOUS
    <2>4. built # Nothing => built \in Good
        BY <1>7, <1>a, <2>2
    <2>5. built # Nothing => plan \in Plan
        BY <2>2, <2>3, <2>4 DEF Plan, Good
    <2>6. CASE ReadsOnly(i, "thrown", Nothing)
        BY <2>6, <1>6, <1>8
    <2>7. CASE built # Nothing /\ Guarded(i, c.place, c.place, "install", built, destructive)
        <3> HIDE DEF destructive, built
        <3> QED BY <1>1, <1>7, <2>1, <2>2, <2>3, <2>4, <2>7, GuardedServes
    <2>8. CASE built # Nothing /\ ReadsOnly(i, "error", plan)
        <3> HIDE DEF plan, built
        <3> QED BY <1>1, <1>6, <2>5, <2>8, ReadsServe
    <2>9. CASE /\ built # Nothing
               /\ \E left \in {there, built} :
                    disk' = [disk EXCEPT ![c.place]["install"] = left]
               /\ Answers(i, "error", plan, TRUE, FALSE)
        <3>1. PICK left \in {there, built} :
                disk' = [disk EXCEPT ![c.place]["install"] = left]
            BY <2>9
        <3>2. PICK a \in Answer :
                /\ a.done = TRUE /\ a.code = "error"
                /\ calls' = [calls EXCEPT ![i].answer = a]
                /\ UNCHANGED <<ui, wf, made>>
            <4> HIDE DEF plan, built
            <4> QED BY <1>6, <2>5, <2>9, AnswerTyped
        <3>3. CASE left \in Good
            <4>1. WritesGood
                BY <1>1, <1>7, <3>1, <3>3, PutGood
            <4> QED BY <2>1, <3>2, <4>1 DEF Serves, Answered, Earns
        <3>4. CASE left \notin Good
            <4>1. left = there /\ there \in Contents \cup {Nothing}
                BY <1>1, <1>7, <2>2, <2>4, <2>9, <3>1, <3>4 DEF Disks
            <4>2. disk' \in Disks /\ \A f \in Folders, k \in Kinds : disk'[f][k] = disk[f][k]
                BY <1>1, <1>7, <2>2, <3>1, <4>1 DEF Disks
            <4>3. WritesGood
                BY <4>2 DEF WritesGood
            <4> QED BY <2>1, <3>2, <4>3 DEF Serves, Answered, Earns
        <3> QED BY <3>3, <3>4
    <2> QED BY <1>e, <2>6, <2>7, <2>8, <2>9 DEF ServeInstall
<1>f. CASE ServeLaunch(i)
    <2> DEFINE built == disk[c.place]["build"]
               plan == [folder |-> c.place, content |-> built, destructive |-> FALSE]
    <2>1. c.screen = "launch" /\ c.accepted
        BY <1>f DEF ServeLaunch, Pending
    <2>2. c.place \in Folders
        BY <1>5, <2>1 DEF Placed
    <2>3. built # Nothing => plan \in Plan /\ Holds(disk, "build")
        BY <1>7, <1>a, <2>2 DEF Plan, Good, Holds
    <2>4. CASE ReadsOnly(i, "error", Nothing)
        BY <2>4, <1>6, <1>8
    <2>5. CASE built # Nothing /\ ReadsOnly(i, "ok", plan)
        <3> HIDE DEF plan, built
        <3> QED BY <1>1, <1>6, <2>3, <2>5, ReadsServe
    <2>6. CASE /\ built # Nothing
               /\ \E crashed \in BOOLEAN :
                    Answers(i, IF crashed THEN "error" ELSE "ok", plan, TRUE, crashed)
               /\ UNCHANGED disk
        <3>1. PICK crashed \in BOOLEAN :
                Answers(i, IF crashed THEN "error" ELSE "ok", plan, TRUE, crashed)
            BY <2>6
        <3>2. PICK a \in Answer :
                /\ calls' = [calls EXCEPT ![i].answer = a]
                /\ UNCHANGED <<ui, wf, made>>
            <4> HIDE DEF plan, built
            <4>1. plan \in Plan \cup {Nothing} /\ "ok" \in Codes /\ "error" \in Codes
                BY <1>6, <2>3, <2>6
            <4>2. CASE crashed = TRUE
                <5>1. Answers(i, "error", plan, TRUE, TRUE)
                    BY <3>1, <4>2, Zenon
                <5> QED BY <4>1, <5>1, AnswerTyped
            <4>3. CASE crashed = FALSE
                <5>1. Answers(i, "ok", plan, TRUE, FALSE)
                    BY <3>1, <4>3, Zenon
                <5> QED BY <4>1, <5>1, AnswerTyped
            <4> QED BY <4>2, <4>3
        <3>3. WritesGood /\ Holds(disk', "build")
            BY <1>1, <2>3, <2>6, DiskKept DEF Holds
        <3> QED BY <2>1, <3>2, <3>3 DEF Serves, Answered, Earns
    <2> QED BY <1>f, <2>4, <2>5, <2>6 DEF ServeLaunch
<1>g. CASE ServeExport(i) \/ ServeRelease(i)
    <2> DEFINE destructive == c.apply /\ disk[c.place]["archive"] # Nothing
    <2>1. c.screen \in {"export", "release"}
        BY <1>g DEF ServeExport, ServeRelease, Pending
    <2>2. destructive \in BOOLEAN
        OBVIOUS
    <2>3. CASE ReadsOnly(i, "blocked", Nothing)
        BY <2>3, <1>6, <1>8
    <2>4. CASE /\ c.what \notin BadPacks
               /\ Guarded(i, c.place, Blank, "archive", c.what, destructive)
        <3> HIDE DEF destructive
        <3> QED BY <1>1, <1>4, <1>7, <1>9, <2>1, <2>2, <2>4, GuardedServes
    <2> QED BY <1>g, <2>3, <2>4 DEF ServeExport, ServeRelease
<1>h. CASE ServeQuests(i) \/ ServeKubeJs(i)
    <2>1. PICK kind \in {"quests", "kubejs"} :
            /\ c.screen = kind
            /\ \/ ReadsOnly(i, "error", Nothing)
               \/ \E d \in Drafts(c) :
                    /\ d \notin BadPacks
                    /\ Guarded(i, c.place, c.place, kind, d, disk[c.place][kind] # Nothing)
        BY <1>h DEF ServeQuests, ServeKubeJs, Pending
    <2>2. CASE ReadsOnly(i, "error", Nothing)
        BY <2>2, <1>6, <1>8
    <2>3. ASSUME NEW d \in Drafts(c), d \notin BadPacks,
                 Guarded(i, c.place, c.place, kind, d, disk[c.place][kind] # Nothing)
          PROVE  Serves(i)
        <3> DEFINE destructive == disk[c.place][kind] # Nothing
        <3>1. destructive \in BOOLEAN
            OBVIOUS
        <3>2. d \in Good
            BY <1>4, <2>3 DEF Drafts, Good, Contents
        <3> HIDE DEF destructive
        <3>3. Guarded(i, c.place, c.place, kind, d, destructive)
            BY <2>3 DEF destructive
        <3> QED BY <1>1, <1>4, <1>7, <2>1, <3>1, <3>2, <3>3, GuardedServes
    <2> QED BY <2>1, <2>2, <2>3
<1> QED BY <1>2, <1>b, <1>c, <1>d, <1>e, <1>f, <1>g, <1>h DEF Serve

\* What a step of the main process leaves.
LEMMA ServeKeepsInv ==
    ASSUME AppInv, NEW i \in 1..MaxCalls, Serve(i)
    PROVE  AppInv'
<1>1. /\ calls[i] # Nothing /\ calls[i].answer = Nothing
      /\ Serves(i)
    BY ServeServes
<1>2. PICK a \in Answer :
        /\ calls' = [calls EXCEPT ![i].answer = a]
        /\ Earns(calls[i], a, disk')
    BY <1>1 DEF Serves, Answered
<1>3. WritesGood /\ UNCHANGED <<ui, wf, made>>
    BY <1>1 DEF Serves
<1>4. disk \in Disks /\ disk' \in Disks
    BY <1>3 DEF AppInv, TypeOK, Disks, WritesGood
<1>5. \A j \in 1..MaxCalls : calls[j] \in Call \cup {Nothing}
    BY DEF AppInv, TypeOK
<1>6. calls[i] \in Call /\ calls'[i] = [calls[i] EXCEPT !.answer = a]
    BY <1>1, <1>2, <1>5 DEF AppInv, TypeOK
<1>7. /\ calls'[i] \in Call
      /\ calls'[i].screen = calls[i].screen /\ calls'[i].live = calls[i].live
      /\ calls'[i].accepted = calls[i].accepted /\ calls'[i].apply = calls[i].apply
      /\ calls'[i].place = calls[i].place /\ calls'[i].answer = a
    BY <1>6 DEF Call
<1>8. \A j \in 1..MaxCalls : j # i => calls'[j] = calls[j]
    BY <1>2 DEF AppInv, TypeOK
<1>9. calls' \in [1..MaxCalls -> Call \cup {Nothing}]
    <2>1. DOMAIN calls' = 1..MaxCalls /\ calls' = [j \in 1..MaxCalls |-> calls'[j]]
        BY <1>2 DEF AppInv, TypeOK
    <2> QED BY <1>5, <1>7, <1>8, <2>1
<1>a. calls'[i] # Nothing
    BY <1>7, NothingAssumption
<1>b. TypeOK'
    BY <1>3, <1>4, <1>9 DEF AppInv, TypeOK, Disks
<1>c. BadNeverWritten'
    BY <1>3 DEF AppInv, BadNeverWritten, WritesGood, Good
<1>d. \A kind \in Kinds : Holds(disk, kind) => Holds(disk', kind)
    BY <1>3, <1>4, DiskGrows
<1>e. StepsEarned'
    BY <1>3, <1>d DEF AppInv, StepsEarned, Holds, Kinds
<1>f. BusyMeansCalling'
    BY <1>1, <1>3, <1>7, <1>8, <1>a DEF AppInv, BusyMeansCalling
<1>g. CallsKept'
    <2>1. ASSUME NEW j \in 1..MaxCalls, calls'[j] # Nothing, j # i
          PROVE  /\ Placed(calls'[j])
                 /\ calls'[j].answer # Nothing => Earns(calls'[j], calls'[j].answer, disk')
        <3>1. calls'[j] = calls[j]
            BY <1>8, <2>1
        <3>2. /\ Placed(calls[j])
              /\ calls[j].answer # Nothing => Earns(calls[j], calls[j].answer, disk)
            BY <2>1, <3>1 DEF AppInv, CallsKept
        <3> QED BY <1>d, <3>1, <3>2 DEF Earns, Kinds
    <2>2. Placed(calls'[i])
        BY <1>1, <1>7 DEF AppInv, CallsKept, Placed
    <2>3. Earns(calls'[i], calls'[i].answer, disk')
        BY <1>2, <1>7 DEF Earns
    <2> QED BY <2>1, <2>2, <2>3 DEF CallsKept
<1> QED BY <1>b, <1>c, <1>e, <1>f, <1>g DEF AppInv

-----------------------------------------------------------------------------
(* The window.                                                             *)

\* A call leaves a screen that had none in flight.
LEMMA SendKeepsInv ==
    ASSUME AppInv, NEW b \in Boxes(ui.at), NEW apply \in BOOLEAN, ~ui.busy, Send(b, apply)
    PROVE  AppInv'
<1> DEFINE n == NewCall(b, apply)
<1>1. PICK i \in 1..MaxCalls : calls[i] = Nothing /\ calls' = [calls EXCEPT ![i] = n]
    BY DEF Send, Room
<1>2. ui \in Screen
    BY DEF AppInv, TypeOK
<1>3. n \in Call /\ n.screen = ui.at /\ n.live /\ n.answer = Nothing /\ Placed(n)
    BY <1>2, CallTyped, CallPlaced
<1> HIDE DEF n
<1>4. /\ ui' \in Screen /\ ui'.at = ui.at /\ ui'.busy = TRUE
    BY <1>2 DEF Send, Screen
<1>5. /\ calls'[i] = n /\ \A j \in 1..MaxCalls : j # i => calls'[j] = calls[j]
      /\ calls' \in [1..MaxCalls -> Call \cup {Nothing}]
    BY <1>1, <1>3 DEF AppInv, TypeOK
<1>6. n # Nothing
    BY <1>3, NothingAssumption
<1>7. made' \in 0..MaxCalls /\ UNCHANGED <<wf, disk>>
    BY DesktopAssumption DEF Send, AppInv, TypeOK
<1>8. TypeOK'
    BY <1>4, <1>5, <1>7 DEF AppInv, TypeOK
<1>9. BadNeverWritten' /\ StepsEarned'
    BY <1>7 DEF AppInv, BadNeverWritten, StepsEarned
<1>a. BusyMeansCalling'
    <2>1. \A j \in 1..MaxCalls : ~(calls[j] # Nothing /\ calls[j].live)
        BY DEF AppInv, BusyMeansCalling
    <2> QED BY <1>3, <1>4, <1>5, <1>6, <2>1 DEF BusyMeansCalling
<1>b. CallsKept'
    BY <1>3, <1>5, <1>7 DEF AppInv, CallsKept
<1> QED BY <1>8, <1>9, <1>a, <1>b DEF AppInv

\* The dialog and its box.
LEMMA DialogKeepsInv ==
    ASSUME AppInv, RunRejected \/ Ask \/ ToggleForce \/ Cancel
    PROVE  AppInv'
<1>1. /\ ui' \in Screen /\ ui'.at = ui.at /\ ui'.busy = ui.busy
      /\ UNCHANGED <<wf, calls, made, disk>>
    BY DEF AppInv, TypeOK, RunRejected, Ask, ToggleForce, Cancel, Screen
<1>2. TypeOK'
    BY <1>1 DEF AppInv, TypeOK
<1>3. BadNeverWritten' /\ StepsEarned' /\ CallsKept'
    BY <1>1 DEF AppInv, BadNeverWritten, StepsEarned, CallsKept
<1>4. BusyMeansCalling'
    BY <1>1 DEF AppInv, BusyMeansCalling
<1> QED BY <1>2, <1>3, <1>4 DEF AppInv

LEMMA DiagnosisTyped ==
    ASSUME NEW fits \in BOOLEAN
    PROVE  /\ AutoDiagnosis(fits) \in Call /\ AutoDiagnosis(fits) # Nothing
           /\ AutoDiagnosis(fits).screen = "diagnose" /\ AutoDiagnosis(fits).live
           /\ AutoDiagnosis(fits).answer = Nothing /\ Placed(AutoDiagnosis(fits))
<1> DEFINE ok == Accepts("diagnose", {"instancePath"}, IF fits THEN {} ELSE {"instancePath"})
           auto == AutoDiagnosis(fits)
           odd == ~fits
<1>1. ok \in BOOLEAN
    BY AcceptsTyped
<1>2. auto = [screen |-> "diagnose", apply |-> FALSE, force |-> FALSE,
        place |-> Blank, what |-> Blank, paste |-> FALSE, seen |-> Nothing,
        accepted |-> ok, odd |-> odd, live |-> TRUE, answer |-> Nothing]
    BY Zenon DEF AutoDiagnosis
<1>3. odd \in BOOLEAN
    OBVIOUS
<1> HIDE DEF ok, auto, odd
<1>4. auto \in Call
    BY <1>1, <1>2, <1>3 DEF Call, Channels, Contents
<1>5. auto # Nothing
    BY <1>4, NothingAssumption
<1>6. /\ auto.screen = "diagnose" /\ auto.live /\ auto.answer = Nothing /\ Placed(auto)
    BY <1>2 DEF Placed
<1> QED BY <1>4, <1>5, <1>6 DEF auto

\* No call belongs to the new screen but the diagnosis that starts at once.
LEMMA GoToKeepsInv ==
    ASSUME AppInv, NEW s \in Channels, NEW filled \in BOOLEAN, GoTo(s, filled)
    PROVE  AppInv'
<1>1. \A j \in 1..MaxCalls : calls[j] \in Call \cup {Nothing}
    BY DEF AppInv, TypeOK
<1>2. \A j \in 1..MaxCalls :
        /\ Unmounted[j] \in Call \cup {Nothing}
        /\ Unmounted[j] # Nothing =>
            /\ calls[j] # Nothing
            /\ ~Unmounted[j].live
            /\ Unmounted[j].answer = calls[j].answer
            /\ Unmounted[j].screen = calls[j].screen
            /\ Unmounted[j].accepted = calls[j].accepted
            /\ Unmounted[j].apply = calls[j].apply
            /\ Unmounted[j].place = calls[j].place
    <2> TAKE j \in 1..MaxCalls
    <2>1. CASE calls[j] = Nothing
        BY <2>1 DEF Unmounted
    <2>2. CASE calls[j] # Nothing
        <3>1. Unmounted[j] = [calls[j] EXCEPT !.live = FALSE] /\ calls[j] \in Call
            BY <1>1, <2>2 DEF Unmounted
        <3> QED BY <2>2, <3>1 DEF Call
    <2> QED BY <2>1, <2>2
<1>3. Unmounted \in [1..MaxCalls -> Call \cup {Nothing}]
    BY <1>2 DEF Unmounted
<1>4. Fresh(s) \in Screen /\ Fresh(s).at = s /\ Fresh(s).busy = FALSE
    BY DEF Fresh, Screen
<1>5. UNCHANGED <<wf, made, disk>>
    BY DEF GoTo
<1>6. BadNeverWritten' /\ StepsEarned'
    BY <1>5 DEF AppInv, BadNeverWritten, StepsEarned
<1>7. \A j \in 1..MaxCalls : Unmounted[j] # Nothing =>
        /\ Placed(Unmounted[j])
        /\ Unmounted[j].answer # Nothing => Earns(Unmounted[j], Unmounted[j].answer, disk)
    <2> TAKE j \in 1..MaxCalls
    <2> HAVE Unmounted[j] # Nothing
    <2>1. calls[j] # Nothing
        BY <1>2
    <2>2. /\ Placed(calls[j])
          /\ calls[j].answer # Nothing => Earns(calls[j], calls[j].answer, disk)
        BY <2>1 DEF AppInv, CallsKept
    <2> QED BY <1>2, <2>2 DEF Placed, Earns
<1>8. CASE ui' = Fresh(s) /\ calls' = Unmounted
    <2>1. TypeOK'
        BY <1>3, <1>4, <1>5, <1>8 DEF AppInv, TypeOK
    <2>2. BusyMeansCalling'
        BY <1>2, <1>4, <1>8 DEF BusyMeansCalling
    <2>3. CallsKept'
        BY <1>5, <1>7, <1>8 DEF CallsKept
    <2> QED BY <1>6, <2>1, <2>2, <2>3 DEF AppInv
<1>9. CASE /\ s = "diagnose"
           /\ ui' = [Fresh(s) EXCEPT !.busy = TRUE]
           /\ \E i \in Room, fits \in BOOLEAN :
                calls' = [Unmounted EXCEPT ![i] = AutoDiagnosis(fits)]
    <2>1. PICK i \in 1..MaxCalls, fits \in BOOLEAN :
            calls' = [Unmounted EXCEPT ![i] = AutoDiagnosis(fits)]
        BY <1>9 DEF Room
    <2>2. /\ calls'[i] = AutoDiagnosis(fits) /\ \A j \in 1..MaxCalls : j # i => calls'[j] = Unmounted[j]
          /\ calls' \in [1..MaxCalls -> Call \cup {Nothing}]
        BY <1>3, <2>1, DiagnosisTyped
    <2>3. ui' \in Screen /\ ui'.at = "diagnose" /\ ui'.busy = TRUE
        BY <1>4, <1>9 DEF Screen
    <2>4. TypeOK'
        BY <1>5, <2>2, <2>3 DEF AppInv, TypeOK
    <2>5. BusyMeansCalling'
        BY <1>2, <2>2, <2>3, DiagnosisTyped DEF BusyMeansCalling
    <2>6. CallsKept'
        BY <1>5, <1>7, <2>2, DiagnosisTyped DEF CallsKept
    <2> QED BY <1>6, <2>4, <2>5, <2>6 DEF AppInv
<1> QED BY <1>8, <1>9 DEF GoTo

\* What is recorded of an answer that earns it is earned.
LEMMA RecordedEarned ==
    ASSUME StepsEarned, wf \in Workflow, NEW c \in Call, NEW a \in Answer,
           Earns(c, a, disk), wf' = Recorded(c, a), disk' = disk
    PROVE  wf' \in Workflow /\ StepsEarned'
<1>1. /\ c.screen \in Channels /\ a.done \in BOOLEAN /\ a.crashed \in BOOLEAN
      /\ wf.completed \subseteq Steps /\ wf.lastCrash \in BOOLEAN
    BY DEF Call, Answer, Workflow
<1>2. wf' = [completed |-> IF Completes(c, a) THEN wf.completed \cup {c.screen}
                            ELSE IF Uncompletes(c, a) THEN wf.completed \ {c.screen}
                            ELSE wf.completed,
             lastCrash |-> IF c.screen = "launch" /\ a.done THEN a.crashed ELSE wf.lastCrash]
    BY Zenon DEF Recorded, Workflow
<1>3. wf'.lastCrash = IF c.screen = "launch" /\ a.done THEN a.crashed ELSE wf.lastCrash
    BY <1>2
<1>4. wf'.completed = IF Completes(c, a) THEN wf.completed \cup {c.screen}
                      ELSE IF Uncompletes(c, a) THEN wf.completed \ {c.screen}
                      ELSE wf.completed
    BY <1>2
<1>5. CASE Completes(c, a)
    <2>1. wf'.completed = wf.completed \cup {c.screen}
        BY <1>4, <1>5
    <2>2. c.screen \in Steps
        BY <1>5 DEF Completes, Steps
    <2>3. wf' \in Workflow
        BY <1>1, <1>2, <1>3, <2>1, <2>2 DEF Workflow
    <2>4. c.screen = "build" => Holds(disk, "build")
        BY <1>5 DEF Completes, Earns
    <2>5. c.screen = "install" => Holds(disk, "install")
        BY <1>5 DEF Completes, Earns
    <2>6. c.screen = "launch" => Holds(disk, "build") /\ wf'.lastCrash = FALSE
        BY <1>1, <1>3, <1>5 DEF Completes, Earns
    <2>7. c.screen # "launch" => wf'.lastCrash = wf.lastCrash
        BY <1>3
    <2> QED BY <2>1, <2>3, <2>4, <2>5, <2>6, <2>7 DEF StepsEarned, Holds
<1>6. CASE ~Completes(c, a)
    <2>1. wf'.completed \subseteq wf.completed
        BY <1>4, <1>6
    <2>2. wf' \in Workflow
        BY <1>1, <1>2, <1>3, <2>1 DEF Workflow
    <2>3. "launch" \in wf'.completed => wf'.lastCrash = wf.lastCrash
        <3>1. CASE c.screen = "launch" /\ a.done
            <4>1. Uncompletes(c, a)
                BY <1>1, <1>6, <3>1 DEF Completes, Uncompletes
            <4>2. wf'.completed = wf.completed \ {"launch"}
                BY <1>4, <1>6, <3>1, <4>1
            <4> QED BY <4>2
        <3>2. CASE ~(c.screen = "launch" /\ a.done)
            BY <1>3, <3>2
        <3> QED BY <3>1, <3>2
    <2> QED BY <2>1, <2>2, <2>3 DEF StepsEarned
<1> QED BY <1>5, <1>6

\* An answer frees the screen that asked, and no other.
LEMMA SettleKeepsInv ==
    ASSUME AppInv, NEW i \in 1..MaxCalls, NEW filled \in BOOLEAN, Settle(i, filled)
    PROVE  AppInv'
<1> DEFINE c == calls[i]
           a == calls[i].answer
<1>1. /\ c # Nothing /\ a # Nothing
      /\ wf' = Recorded(c, a)
      /\ UNCHANGED <<made, disk>>
    BY DEF Settle
<1>2. c \in Call /\ a \in Answer
    <2>1. c \in Call
        BY <1>1 DEF AppInv, TypeOK
    <2> QED BY <1>1, <2>1 DEF Call
<1>3. Earns(c, a, disk)
    BY <1>1 DEF AppInv, CallsKept
<1>4. wf' \in Workflow /\ StepsEarned'
    <2> HIDE DEF c, a
    <2> QED BY <1>1, <1>2, <1>3, RecordedEarned DEF AppInv, TypeOK
<1>5. BadNeverWritten'
    BY <1>1 DEF AppInv, BadNeverWritten
<1>6. CASE /\ ui.at = "diagnose" /\ ~ui.busy
           /\ ui' = [ui EXCEPT !.busy = TRUE]
           /\ \E fits \in BOOLEAN : calls' = [calls EXCEPT ![i] = AutoDiagnosis(fits)]
    <2>0. PICK fits \in BOOLEAN : calls' = [calls EXCEPT ![i] = AutoDiagnosis(fits)]
        BY <1>6
    <2>1. /\ calls'[i] = AutoDiagnosis(fits) /\ \A j \in 1..MaxCalls : j # i => calls'[j] = calls[j]
          /\ calls' \in [1..MaxCalls -> Call \cup {Nothing}]
        BY <2>0, DiagnosisTyped DEF AppInv, TypeOK
    <2>2. ui' \in Screen /\ ui'.at = "diagnose" /\ ui'.busy = TRUE
        BY <1>6 DEF AppInv, TypeOK, Screen
    <2>3. TypeOK'
        BY <1>1, <1>4, <2>1, <2>2 DEF AppInv, TypeOK
    <2>4. BusyMeansCalling'
        BY <1>6, <2>1, <2>2, DiagnosisTyped DEF AppInv, BusyMeansCalling
    <2>5. CallsKept'
        BY <1>1, <2>1, DiagnosisTyped DEF AppInv, CallsKept
    <2> QED BY <1>4, <1>5, <2>3, <2>4, <2>5 DEF AppInv
<1>7. CASE /\ ui' = IF c.live THEN Landed(c, a) ELSE ui
           /\ calls' = [calls EXCEPT ![i] = Nothing]
    <2>1. /\ calls'[i] = Nothing /\ \A j \in 1..MaxCalls : j # i => calls'[j] = calls[j]
          /\ calls' \in [1..MaxCalls -> Call \cup {Nothing}]
        BY <1>7 DEF AppInv, TypeOK
    <2>2. Landed(c, a) \in Screen /\ Landed(c, a).at = ui.at /\ Landed(c, a).busy = FALSE
        <3>1. ui \in Screen /\ c.apply \in BOOLEAN /\ a.code \in Codes
              /\ a.plan \in Plan \cup {Nothing}
            BY <1>2 DEF AppInv, TypeOK, Call, Answer
        <3> HIDE DEF c, a
        <3> QED BY <3>1 DEF Landed, Returned, Screen
    <2>3. c.live \in BOOLEAN
        BY <1>2 DEF Call
    <2>4. CASE c.live = TRUE
        <3>1. ui' = Landed(c, a)
            BY <1>7, <2>4
        <3>2. TypeOK'
            BY <1>1, <1>4, <2>1, <2>2, <3>1 DEF AppInv, TypeOK
        <3>3. BusyMeansCalling'
            BY <1>1, <2>1, <2>2, <2>4, <3>1 DEF AppInv, BusyMeansCalling
        <3>4. CallsKept'
            BY <1>1, <2>1 DEF AppInv, CallsKept
        <3> QED BY <1>4, <1>5, <3>2, <3>3, <3>4 DEF AppInv
    <2>5. CASE c.live = FALSE
        <3>1. ui' = ui
            BY <1>7, <2>5
        <3>2. TypeOK'
            BY <1>1, <1>4, <2>1, <3>1 DEF AppInv, TypeOK
        <3>3. BusyMeansCalling'
            BY <1>1, <2>1, <2>5, <3>1 DEF AppInv, BusyMeansCalling
        <3>4. CallsKept'
            BY <1>1, <2>1 DEF AppInv, CallsKept
        <3> QED BY <1>4, <1>5, <3>2, <3>3, <3>4 DEF AppInv
    <2> QED BY <2>3, <2>4, <2>5
<1> QED BY <1>6, <1>7 DEF Settle, CrashSeen

-----------------------------------------------------------------------------

LEMMA InitInv == Init => AppInv
<1> SUFFICES ASSUME Init PROVE AppInv
    OBVIOUS
<1>1. \A j \in 1..MaxCalls : calls[j] = Nothing
    BY DEF Init
<1>2. TypeOK
    <2>1. ui \in Screen /\ ui.busy = FALSE
        BY DEF Init, Fresh, Screen, Channels
    <2>2. wf \in Workflow
        BY DEF Init, Workflow
    <2>3. made \in 0..MaxCalls
        BY DesktopAssumption DEF Init
    <2>4. calls \in [1..MaxCalls -> Call \cup {Nothing}]
        BY DEF Init
    <2> QED BY <2>1, <2>2, <2>3, <2>4 DEF TypeOK, Init
<1>3. BadNeverWritten
    BY DesktopAssumption DEF BadNeverWritten, Init
<1>4. StepsEarned
    BY DEF StepsEarned, Init
<1>5. BusyMeansCalling
    BY <1>1 DEF BusyMeansCalling, Init, Fresh
<1>6. CallsKept
    BY <1>1 DEF CallsKept
<1> QED BY <1>2, <1>3, <1>4, <1>5, <1>6 DEF AppInv

LEMMA StepInv == AppInv /\ [Next]_vars => AppInv'
<1> SUFFICES ASSUME AppInv, [Next]_vars PROVE AppInv'
    OBVIOUS
<1>1. ASSUME NEW b \in Boxes(ui.at), Preview(b) \/ Confirm(b)
      PROVE  AppInv'
    <2>1. ~ui.busy /\ (Send(b, FALSE) \/ Send(b, TRUE))
        BY <1>1 DEF Preview, Confirm
    <2> QED BY <2>1, SendKeepsInv
<1>2. CASE RunRejected \/ Ask \/ ToggleForce \/ Cancel
    BY <1>2, DialogKeepsInv
<1>3. ASSUME NEW s \in Channels, NEW filled \in BOOLEAN, GoTo(s, filled)
      PROVE  AppInv'
    BY <1>3, GoToKeepsInv
<1>4. ASSUME NEW i \in 1..MaxCalls, Serve(i)
      PROVE  AppInv'
    BY <1>4, ServeKeepsInv
<1>5. ASSUME NEW i \in 1..MaxCalls, NEW filled \in BOOLEAN, Settle(i, filled)
      PROVE  AppInv'
    BY <1>5, SettleKeepsInv
<1>6. CASE UNCHANGED vars
    BY <1>6 DEF vars, AppInv, TypeOK, BadNeverWritten, StepsEarned, BusyMeansCalling,
        CallsKept
<1> QED BY <1>1, <1>2, <1>3, <1>4, <1>5, <1>6 DEF Next, User

LEMMA AlwaysAppInv == Spec => []AppInv
    BY InitInv, StepInv, PTL DEF Spec

-----------------------------------------------------------------------------
(* The window and the guard.                                               *)

\* Whatever the boxes hold, a screen builds the keys its channel knows, and all
\* it requires.
LEMMA ShapesAgree ==
    ASSUME ui \in Screen, NEW b, NEW apply \in BOOLEAN
    PROVE  /\ Shown(b, apply).keys \subseteq KnownKeys(ui.at)
           /\ RequiredKeys(ui.at) \subseteq Shown(b, apply).keys
<1>1. CASE ui.at = "build"
    <2>1. Shown(b, apply).keys = BuildScreen(b, apply).keys
        BY <1>1 DEF Shown
    <2>2. /\ BuildScreen(b, apply).keys \subseteq KnownKeys("build")
          /\ RequiredKeys("build") \subseteq BuildScreen(b, apply).keys
        BY DEF BuildScreen, Reads, Keys, PackKeys, KnownKeys, RequiredKeys,
            OrchestrateKeys, ExportKeys, AuthorKeys
    <2> QED BY <1>1, <2>1, <2>2
<1>2. CASE ui.at = "install"
    <2>1. Shown(b, apply).keys = InstallScreen(b, apply).keys
        BY <1>2 DEF Shown
    <2>2. /\ InstallScreen(b, apply).keys \subseteq KnownKeys("install")
          /\ RequiredKeys("install") \subseteq InstallScreen(b, apply).keys
        BY DEF InstallScreen, Reads, Keys, PackKeys, KnownKeys, RequiredKeys,
            OrchestrateKeys, ExportKeys, AuthorKeys
    <2> QED BY <1>2, <2>1, <2>2
<1>3. CASE ui.at = "export"
    <2>1. Shown(b, apply).keys = ExportScreen(b, apply).keys
        BY <1>3 DEF Shown
    <2>2. /\ ExportScreen(b, apply).keys \subseteq KnownKeys("export")
          /\ RequiredKeys("export") \subseteq ExportScreen(b, apply).keys
        BY DEF ExportScreen, Reads, Keys, PackKeys, KnownKeys, RequiredKeys,
            OrchestrateKeys, ExportKeys, AuthorKeys
    <2> QED BY <1>3, <2>1, <2>2
<1>4. CASE ui.at = "release"
    <2>1. Shown(b, apply).keys = ReleaseScreen(b, apply).keys
        BY <1>4 DEF Shown
    <2>2. /\ ReleaseScreen(b, apply).keys \subseteq KnownKeys("release")
          /\ RequiredKeys("release") \subseteq ReleaseScreen(b, apply).keys
        BY DEF ReleaseScreen, Reads, Keys, PackKeys, KnownKeys, RequiredKeys,
            OrchestrateKeys, ExportKeys, AuthorKeys
    <2> QED BY <1>4, <2>1, <2>2
<1>5. CASE ui.at = "quests"
    <2>1. Shown(b, apply).keys = QuestsScreen(b, apply).keys
        BY <1>5 DEF Shown
    <2>2. /\ QuestsScreen(b, apply).keys \subseteq KnownKeys("quests")
          /\ RequiredKeys("quests") \subseteq QuestsScreen(b, apply).keys
        BY DEF QuestsScreen, Reads, Keys, PackKeys, KnownKeys, RequiredKeys,
            OrchestrateKeys, ExportKeys, AuthorKeys
    <2> QED BY <1>5, <2>1, <2>2
<1>6. CASE ui.at = "kubejs"
    <2>1. Shown(b, apply).keys = KubeJsScreen(b, apply).keys
        BY <1>6 DEF Shown
    <2>2. /\ KubeJsScreen(b, apply).keys \subseteq KnownKeys("kubejs")
          /\ RequiredKeys("kubejs") \subseteq KubeJsScreen(b, apply).keys
        BY DEF KubeJsScreen, Reads, Keys, PackKeys, KnownKeys, RequiredKeys,
            OrchestrateKeys, ExportKeys, AuthorKeys
    <2> QED BY <1>6, <2>1, <2>2
<1>7. CASE ui.at = "launch"
    <2>1. Shown(b, apply).keys = LaunchScreen(b).keys
        BY <1>7 DEF Shown
    <2>2. /\ LaunchScreen(b).keys \subseteq KnownKeys("launch")
          /\ RequiredKeys("launch") \subseteq LaunchScreen(b).keys
        BY DEF LaunchScreen, Reads, Keys, PackKeys, KnownKeys, RequiredKeys,
            OrchestrateKeys, ExportKeys, AuthorKeys
    <2> QED BY <1>7, <2>1, <2>2
<1>8. CASE ui.at = "resolve"
    <2>1. Shown(b, apply).keys = ResolveScreen(b).keys
        BY <1>8 DEF Shown
    <2>2. /\ ResolveScreen(b).keys \subseteq KnownKeys("resolve")
          /\ RequiredKeys("resolve") \subseteq ResolveScreen(b).keys
        BY DEF ResolveScreen, Reads, Keys, PackKeys, KnownKeys, RequiredKeys,
            OrchestrateKeys, ExportKeys, AuthorKeys
    <2> QED BY <1>8, <2>1, <2>2
<1>9. CASE ui.at = "updates"
    <2>1. Shown(b, apply).keys = UpdatesScreen(b).keys
        BY <1>9 DEF Shown
    <2>2. /\ UpdatesScreen(b).keys \subseteq KnownKeys("updates")
          /\ RequiredKeys("updates") \subseteq UpdatesScreen(b).keys
        BY DEF UpdatesScreen, Reads, Keys, PackKeys, KnownKeys, RequiredKeys,
            OrchestrateKeys, ExportKeys, AuthorKeys
    <2> QED BY <1>9, <2>1, <2>2
<1>10. CASE ui.at = "migrate"
    <2>1. Shown(b, apply).keys = MigrateScreen(b).keys
        BY <1>10 DEF Shown
    <2>2. /\ MigrateScreen(b).keys \subseteq KnownKeys("migrate")
          /\ RequiredKeys("migrate") \subseteq MigrateScreen(b).keys
        BY DEF MigrateScreen, Reads, Keys, PackKeys, KnownKeys, RequiredKeys,
            OrchestrateKeys, ExportKeys, AuthorKeys
    <2> QED BY <1>10, <2>1, <2>2
<1>11. CASE ui.at = "diagnose"
    <2>1. Shown(b, apply).keys = DiagnoseScreen(b).keys
        BY <1>11 DEF Shown
    <2>2. /\ DiagnoseScreen(b).keys \subseteq KnownKeys("diagnose")
          /\ RequiredKeys("diagnose") \subseteq DiagnoseScreen(b).keys
        BY DEF DiagnoseScreen, Reads, Keys, PackKeys, KnownKeys, RequiredKeys,
            OrchestrateKeys, ExportKeys, AuthorKeys
    <2> QED BY <1>11, <2>1, <2>2
<1>12. CASE ui.at = "doctor"
    <2>1. Shown(b, apply).keys = DoctorScreen(b).keys
        BY <1>12 DEF Shown
    <2>2. /\ DoctorScreen(b).keys \subseteq KnownKeys("doctor")
          /\ RequiredKeys("doctor") \subseteq DoctorScreen(b).keys
        BY DEF DoctorScreen, Reads, Keys, PackKeys, KnownKeys, RequiredKeys,
            OrchestrateKeys, ExportKeys, AuthorKeys
    <2> QED BY <1>12, <2>1, <2>2
<1> QED BY <1>1, <1>2, <1>3, <1>4, <1>5, <1>6, <1>7, <1>8, <1>9, <1>10, <1>11, <1>12
       DEF Screen, Channels

\* So a call that is refused carries a value that no field takes.
LEMMA RefusedIsOdd ==
    ASSUME ui \in Screen, NEW b \in Boxes(ui.at), NEW apply \in BOOLEAN
    PROVE  ~NewCall(b, apply).accepted => NewCall(b, apply).odd
<1> DEFINE keys == Shown(b, apply).keys
<1>1. /\ NewCall(b, apply).accepted = Accepts(ui.at, keys, Untaken(b))
      /\ NewCall(b, apply).odd = (keys \cap Untaken(b) # {})
    BY Zenon DEF NewCall
<1>2. keys \cap Untaken(b) = {} => Accepts(ui.at, keys, Untaken(b))
    BY ShapesAgree DEF Accepts
<1> QED BY <1>1, <1>2

LEMMA StepKeepsShapes ==
    ASSUME AppInv, RefusedOnlyForValues, [Next]_vars
    PROVE  RefusedOnlyForValues'
<1>0. ui \in Screen /\ \A j \in 1..MaxCalls : calls[j] \in Call \cup {Nothing}
    BY DEF AppInv, TypeOK
<1>1. \A fits \in BOOLEAN : ~AutoDiagnosis(fits).accepted => AutoDiagnosis(fits).odd
    <2> TAKE fits \in BOOLEAN
    <2>1. /\ AutoDiagnosis(fits).accepted
                = Accepts("diagnose", {"instancePath"}, IF fits THEN {} ELSE {"instancePath"})
          /\ AutoDiagnosis(fits).odd = ~fits
        BY Zenon DEF AutoDiagnosis
    <2>2. fits => Accepts("diagnose", {"instancePath"}, IF fits THEN {} ELSE {"instancePath"})
        BY DEF Accepts, KnownKeys, RequiredKeys
    <2> QED BY <2>1, <2>2
<1>2. ASSUME NEW b \in Boxes(ui.at), Preview(b) \/ Confirm(b)
      PROVE  RefusedOnlyForValues'
    <2>1. PICK apply \in BOOLEAN, i \in 1..MaxCalls :
            calls' = [calls EXCEPT ![i] = NewCall(b, apply)]
        BY <1>2 DEF Preview, Confirm, Send, Room
    <2>2. /\ calls'[i] = NewCall(b, apply)
          /\ \A j \in 1..MaxCalls : j # i => calls'[j] = calls[j]
        BY <2>1 DEF AppInv, TypeOK
    <2>3. ~NewCall(b, apply).accepted => NewCall(b, apply).odd
        BY <1>0, RefusedIsOdd
    <2> QED BY <2>2, <2>3 DEF RefusedOnlyForValues
<1>3. ASSUME NEW s \in Channels, NEW filled \in BOOLEAN, GoTo(s, filled)
      PROVE  RefusedOnlyForValues'
    <2>1. \A j \in 1..MaxCalls : Unmounted[j] # Nothing /\ ~Unmounted[j].accepted => Unmounted[j].odd
        <3> TAKE j \in 1..MaxCalls
        <3>1. CASE calls[j] = Nothing
            BY <3>1 DEF Unmounted
        <3>2. CASE calls[j] # Nothing
            <4>1. Unmounted[j] = [calls[j] EXCEPT !.live = FALSE] /\ calls[j] \in Call
                BY <1>0, <3>2 DEF Unmounted
            <4>2. Unmounted[j].accepted = calls[j].accepted /\ Unmounted[j].odd = calls[j].odd
                BY <4>1 DEF Call
            <4> QED BY <3>2, <4>2 DEF RefusedOnlyForValues
        <3> QED BY <3>1, <3>2
    <2>2. DOMAIN Unmounted = 1..MaxCalls
        BY DEF Unmounted
    <2>3. CASE calls' = Unmounted
        BY <2>1, <2>3 DEF RefusedOnlyForValues
    <2>4. CASE \E i \in Room, fits \in BOOLEAN :
                calls' = [Unmounted EXCEPT ![i] = AutoDiagnosis(fits)]
        <3>1. PICK i \in 1..MaxCalls, fits \in BOOLEAN :
                calls' = [Unmounted EXCEPT ![i] = AutoDiagnosis(fits)]
            BY <2>4 DEF Room
        <3>2. calls'[i] = AutoDiagnosis(fits) /\ \A j \in 1..MaxCalls : j # i => calls'[j] = Unmounted[j]
            BY <2>2, <3>1
        <3> QED BY <1>1, <2>1, <3>2 DEF RefusedOnlyForValues
    <2> QED BY <1>3, <2>3, <2>4 DEF GoTo
<1>4. ASSUME NEW i \in 1..MaxCalls, Serve(i)
      PROVE  RefusedOnlyForValues'
    <2>1. calls[i] # Nothing /\ Serves(i)
        BY <1>4, ServeServes
    <2>2. PICK a \in Answer : calls' = [calls EXCEPT ![i].answer = a]
        BY <2>1 DEF Serves, Answered
    <2>3. calls[i] \in Call /\ calls'[i] = [calls[i] EXCEPT !.answer = a]
          /\ \A j \in 1..MaxCalls : j # i => calls'[j] = calls[j]
        BY <1>0, <2>1, <2>2 DEF AppInv, TypeOK
    <2>4. calls'[i].accepted = calls[i].accepted /\ calls'[i].odd = calls[i].odd
        BY <2>3 DEF Call
    <2> QED BY <2>1, <2>3, <2>4 DEF RefusedOnlyForValues
<1>5. ASSUME NEW i \in 1..MaxCalls, NEW filled \in BOOLEAN, Settle(i, filled)
      PROVE  RefusedOnlyForValues'
    <2>1. PICK v \in {AutoDiagnosis(fits) : fits \in BOOLEAN} \cup {Nothing} :
            calls' = [calls EXCEPT ![i] = v]
        BY <1>5 DEF Settle
    <2>2. calls'[i] = v /\ \A j \in 1..MaxCalls : j # i => calls'[j] = calls[j]
        BY <2>1 DEF AppInv, TypeOK
    <2> QED BY <1>1, <2>2 DEF RefusedOnlyForValues
<1>6. CASE RunRejected \/ Ask \/ ToggleForce \/ Cancel \/ UNCHANGED vars
    <2>1. calls' = calls
        BY <1>6 DEF RunRejected, Ask, ToggleForce, Cancel, vars
    <2> QED BY <2>1 DEF RefusedOnlyForValues
<1> QED BY <1>2, <1>3, <1>4, <1>5, <1>6 DEF Next, User

-----------------------------------------------------------------------------
(* The theorems.                                                           *)

\* The screens, the calls and the disk stay well typed, for any folders,
\* contents and number of calls (App.tsx, ipc.ts, services.ts).
THEOREM TypeCorrect == Spec => []TypeOK
<1>1. AppInv => TypeOK
    BY DEF AppInv
<1> QED BY <1>1, AlwaysAppInv, PTL

\* What the gate or the validation refuses is never on disk, whichever screen
\* asked for it and whatever was edited after the preview (services.ts).
THEOREM RefusedNeverWritten == Spec => []BadNeverWritten
<1>1. AppInv => BadNeverWritten
    BY DEF AppInv
<1> QED BY <1>1, AlwaysAppInv, PTL

\* A step the sidebar marks as done was done (workflow.ts, App.tsx).
THEOREM DoneWasDone == Spec => []StepsEarned
<1>1. AppInv => StepsEarned
    BY DEF AppInv
<1> QED BY <1>1, AlwaysAppInv, PTL

\* A screen is busy exactly while a call of its own is in flight, however many
\* calls of screens that are gone still are (the run function of the screens).
THEOREM BusyIsCalling == Spec => []BusyMeansCalling
<1>1. AppInv => BusyMeansCalling
    BY DEF AppInv
<1> QED BY <1>1, AlwaysAppInv, PTL

\* The window and the guard agree on the keys of a call: whatever the boxes of
\* any screen hold, a call is refused only for a value of the user's that is
\* empty, too long, or a definition without the guard's structure (ipc-guard.ts
\* and the screens).
THEOREM GuardRefusesOnlyValues == Spec => []RefusedOnlyForValues
<1>1. Init => RefusedOnlyForValues
    BY DEF Init, RefusedOnlyForValues
<1>2. AppInv /\ RefusedOnlyForValues /\ [Next]_vars => RefusedOnlyForValues'
    BY StepKeepsShapes
<1> QED BY <1>1, <1>2, AlwaysAppInv, PTL DEF Spec

=============================================================================
