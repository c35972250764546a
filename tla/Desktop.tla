------------------------------ MODULE Desktop ------------------------------
(***************************************************************************)
(* The desktop app: the screens of the window, the calls they make, and    *)
(* the services of the main process that answer them                       *)
(* (src/src/desktop: renderer/screens, renderer/App.tsx,                   *)
(* renderer/workflow.ts, main/ipc.ts, services.ts).                        *)
(*                                                                         *)
(* One screen is mounted at a time.  A screen previews a write, asks for   *)
(* confirmation and calls again to apply; between any two of these the     *)
(* user may edit a box or go to another screen, which drops the screen's   *)
(* own state but not the call it has in flight.  A call is served and      *)
(* later settled, in any order.  The boxes can be edited at any moment, a  *)
(* dialog open or a call in flight, and editing resets nothing: what they  *)
(* hold is chosen when a button is pressed.                                *)
(***************************************************************************)
EXTENDS Naturals, DesktopIpc

CONSTANTS
    Folders,    \* paths: instance folders, and archives to write
    Packs,      \* what can be typed: mod lists, descriptions, definitions
    BadPacks,   \* those the distribution gate or the validation refuses
    Blank,      \* an empty box
    Nothing,    \* no file, no plan, no call, no answer
    MaxCalls    \* bound: the calls the user makes, and those in flight

ASSUME DesktopAssumption ==
    /\ BadPacks \subseteq Packs
    /\ {Blank, Nothing} \cap (Folders \cup Packs) = {}
    /\ Folders # {} /\ Packs # {} /\ Blank # Nothing
    /\ MaxCalls \in Nat

VARIABLES
    ui,         \* the mounted screen
    wf,         \* the steps done and the last crash, which all screens share
    calls,      \* the calls in flight
    made,       \* how many the user made
    disk        \* what is written at each path

vars == <<ui, wf, calls, made, disk>>

Kinds == {"build", "install", "quests", "kubejs", "archive"}
Steps == {"resolve", "build", "install", "launch", "diagnose"}

\* What is written; an empty mod list makes a pack without mods.
Contents == Packs \cup {Blank}

\* What a preview shows: where, what, and whether it replaces files.
Plan == [folder : Folders \cup {Blank}, content : Contents, destructive : BOOLEAN]

\* A result: exit code 0, another, or 3; or the promise is rejected, by the
\* guard or by the service.
Codes == {"ok", "error", "blocked", "refused", "thrown"}
Answer == [code : Codes, plan : Plan \cup {Nothing}, done : BOOLEAN, crashed : BOOLEAN]

\* A call: where it writes and what, whether the guard lets it through, whether
\* it carries a value of the user's that no field takes, the plan on screen when
\* it was confirmed, and whether its screen is still there.
Call ==
    [screen : Channels, apply : BOOLEAN, force : BOOLEAN,
     place : Folders \cup {Blank}, what : Contents, paste : BOOLEAN,
     seen : Plan \cup {Nothing}, accepted : BOOLEAN, odd : BOOLEAN,
     live : BOOLEAN, answer : Answer \cup {Nothing}]

ASSUME NothingAssumption == Nothing \notin Plan \cup Answer \cup Call

Screen ==
    [at : Channels, busy : BOOLEAN, confirming : BOOLEAN, previewed : BOOLEAN,
     force : BOOLEAN, code : Codes \cup {Nothing},
     plan : Plan \cup {Nothing}]

Workflow == [completed : SUBSET Steps, lastCrash : BOOLEAN]

\* What the boxes may hold that screen s has or reads: those all screens share
\* (the mod list reaches quests and scripts as namespaces), and its own.
\* The last two are what else the guard sees: whether scripts come with a quest
\* definition, and the value, if any, that the screen lets by and the guard does
\* not: too long, or a pasted definition that looks like one to the screen
\* (a "chapters" or "files" list) and lacks the guard's structure.
Box(has, values) == IF has THEN values \cup {Blank} ELSE {CHOOSE v \in values : TRUE}
Boxes(s) ==
    [folder : Box(s \notin {"export", "release", "updates", "migrate"}, Folders),
     pack : Box(s \notin {"install", "launch", "diagnose", "doctor"}, Packs),
     version : IF s \in {"resolve", "build", "export", "release", "updates", "migrate"}
               THEN BOOLEAN ELSE {TRUE},
     typed : Box(s \notin {"resolve", "install", "launch", "updates", "doctor"}, Packs),
     out : Box(s \in {"export", "release"}, Folders),
     paste : IF s \in {"quests", "kubejs"} THEN BOOLEAN ELSE {FALSE},
     quests : IF s = "kubejs" THEN BOOLEAN ELSE {FALSE},
     unfit : {{}} \cup {{k} : k \in SizedKeys \cap KnownKeys(s)}]

Fresh(s) ==
    [at |-> s, busy |-> FALSE, confirming |-> FALSE, previewed |-> FALSE,
     force |-> FALSE, code |-> Nothing, plan |-> Nothing]

\* The folder may hold a pack from an earlier day.
Init ==
    /\ ui = Fresh("resolve")
    /\ wf = [completed |-> {}, lastCrash |-> FALSE]
    /\ calls = [i \in 1..MaxCalls |-> Nothing]
    /\ made = 0
    /\ disk \in {d \in [Folders -> [Kinds -> Contents \cup {Nothing}]] :
                    \A f \in Folders : \A k \in Kinds :
                        d[f][k] # Nothing => k = "build" /\ d[f][k] \notin BadPacks}

-----------------------------------------------------------------------------
(* The screens.  For each: when its first button is enabled, when the      *)
(* write button is, when the dialog shows, when the dialog's button is     *)
(* enabled, and the keys of its call (own boxes left empty are left out).  *)

Keys(always, filled, own, apply) ==
    always \cup (IF filled THEN own ELSE {})
           \cup (IF apply THEN {"apply", "force"} ELSE {})

PackKeys == {"minecraft", "loader", "include"}

Reads(ready, keys) ==
    [ready |-> ready, write |-> FALSE, dialog |-> FALSE, agreed |-> FALSE, keys |-> keys]

\* The plan was seen and, where it replaces files, force is ticked.
PlanAgreed == ui.plan # Nothing /\ (ui.plan.destructive => ui.force)

BuildScreen(b, apply) ==
    [ready  |-> b.folder # Blank /\ b.pack # Blank,
     write  |-> ui.previewed /\ ui.code # "blocked",
     dialog |-> ui.code # "blocked",
     agreed |-> ui.force,
     keys   |-> Keys(PackKeys \cup {"instancePath", "apply"}, b.typed # Blank, {"loaderVersion"}, apply)]

InstallScreen(b, apply) ==
    [ready  |-> b.folder # Blank,
     write  |-> ui.plan # Nothing,
     dialog |-> ui.plan # Nothing,
     agreed |-> PlanAgreed,
     keys   |-> Keys({"instancePath", "apply"}, FALSE, {}, apply)]

ExportScreen(b, apply) ==
    [ready  |-> b.pack # Blank,
     write  |-> ui.previewed /\ ui.code # "blocked",
     dialog |-> ui.code # "blocked",
     agreed |-> ui.force,
     keys   |-> Keys(PackKeys \cup {"format"}, b.typed # Blank, {"name", "packVersion"}, apply)
                \cup (IF apply THEN {"out"} ELSE {})]

ReleaseScreen(b, apply) ==
    [ready  |-> b.pack # Blank,
     write  |-> ui.previewed /\ ui.code # "blocked",
     dialog |-> ui.code # "blocked",
     agreed |-> ui.force,
     keys   |-> Keys(PackKeys \cup {"format"}, b.typed # Blank, {"packVersion", "releaseDate", "from"}, apply)
                \cup (IF apply THEN {"out"} ELSE {})]

QuestsScreen(b, apply) ==
    [ready  |-> b.folder # Blank /\ b.typed # Blank,
     write  |-> ui.previewed /\ ui.plan # Nothing,
     dialog |-> ui.plan # Nothing,
     agreed |-> PlanAgreed,
     keys   |-> Keys({"subject", "instancePath"}, FALSE, {}, apply)
                \cup (IF b.pack # Blank THEN {"namespaces"} ELSE {})]

KubeJsScreen(b, apply) ==
    [ready  |-> b.folder # Blank /\ b.typed # Blank,
     write  |-> ui.previewed /\ ui.plan # Nothing,
     dialog |-> ui.plan # Nothing,
     agreed |-> PlanAgreed,
     keys   |-> Keys({"subject", "instancePath"}, b.quests, {"questDefinition"}, apply)
                \cup (IF b.pack # Blank THEN {"namespaces"} ELSE {})]

LaunchScreen(b) ==
    [ready  |-> b.folder # Blank,
     write  |-> ui.plan # Nothing,
     dialog |-> ui.plan # Nothing,
     agreed |-> TRUE,
     keys   |-> {"instancePath", "apply"}]

ResolveScreen(b) ==
    Reads(b.pack # Blank,
          PackKeys \cup {"requirements", "preflight"}
          \cup (IF b.folder # Blank THEN {"instancePath"} ELSE {}))

UpdatesScreen(b) == Reads(b.pack # Blank, PackKeys)

MigrateScreen(b) ==
    Reads(b.pack # Blank /\ b.typed # Blank,
          {"loader", "fromMinecraft", "toMinecraft", "toLoader", "include"})

DiagnoseScreen(b) ==
    Reads(b.folder # Blank, Keys({"instancePath"}, b.typed # Blank, {"crashPath", "mclogs"}, FALSE))

DoctorScreen(b) == Reads(TRUE, IF b.folder # Blank THEN {"instancePath"} ELSE {})

Shown(b, apply) ==
    CASE ui.at = "build" -> BuildScreen(b, apply)
      [] ui.at = "install" -> InstallScreen(b, apply)
      [] ui.at = "export" -> ExportScreen(b, apply)
      [] ui.at = "release" -> ReleaseScreen(b, apply)
      [] ui.at = "quests" -> QuestsScreen(b, apply)
      [] ui.at = "kubejs" -> KubeJsScreen(b, apply)
      [] ui.at = "launch" -> LaunchScreen(b)
      [] ui.at = "resolve" -> ResolveScreen(b)
      [] ui.at = "updates" -> UpdatesScreen(b)
      [] ui.at = "migrate" -> MigrateScreen(b)
      [] ui.at = "diagnose" -> DiagnoseScreen(b)
      [] OTHER -> DoctorScreen(b)

\* The keys whose value is the empty string.
Empty(b) ==
    (IF b.version THEN {} ELSE {"minecraft", "fromMinecraft"})
    \cup (IF b.folder # Blank THEN {} ELSE {"instancePath"})
    \cup (IF b.typed = Blank /\ ui.at \in {"quests", "kubejs"} THEN {"subject"} ELSE {})
    \cup (IF b.out # Blank THEN {} ELSE {"out"})

-----------------------------------------------------------------------------
(* The user.                                                               *)

\* What a call made now carries.
Untaken(b) == Empty(b) \cup b.unfit
NewCall(b, apply) ==
    [screen |-> ui.at, apply |-> apply, force |-> apply /\ ui.force,
     place |-> CASE ui.at \in {"build", "install", "launch", "quests", "kubejs"} -> b.folder
                 [] ui.at \in {"export", "release"} /\ apply -> b.out
                 [] OTHER -> Blank,
     what |-> CASE ui.at \in {"build", "export", "release"} -> b.pack
                [] ui.at \in {"quests", "kubejs"} -> b.typed
                [] OTHER -> Blank,
     paste |-> ui.at \in {"quests", "kubejs"} /\ b.paste,
     seen |-> IF apply THEN ui.plan ELSE Nothing,
     accepted |-> Accepts(ui.at, Shown(b, apply).keys, Untaken(b)),
     odd |-> Shown(b, apply).keys \cap Untaken(b) # {},
     live |-> TRUE, answer |-> Nothing]

\* Where a call in flight is kept: which place it is makes no difference.
Room == {i \in 1..MaxCalls : calls[i] = Nothing /\ \A j \in 1..(i - 1) : calls[j] # Nothing}

\* Build and Resolve drop the last result at once, the others keep it.
Forgets(s) == s \in {"build", "resolve"}

Send(b, apply) ==
    /\ made < MaxCalls
    /\ made' = made + 1
    /\ \E i \in Room : calls' = [calls EXCEPT ![i] = NewCall(b, apply)]
    /\ ui' = [ui EXCEPT !.busy = TRUE,
                        !.code = IF Forgets(ui.at) THEN Nothing ELSE @,
                        !.plan = IF Forgets(ui.at) THEN Nothing ELSE @]
    /\ UNCHANGED <<wf, disk>>

\* A definition is pasted that does not parse or has not the shape of one: the
\* run ends before a call is made.
Authors == ui.at \in {"quests", "kubejs"}
Malformed(b) == Authors /\ b.paste /\ b.typed = Blank
RunRejected ==
    /\ Authors /\ ~ui.busy
    /\ ui' = [ui EXCEPT !.confirming = FALSE]
    /\ UNCHANGED <<wf, calls, made, disk>>

Preview(b) ==
    /\ Shown(b, FALSE).ready /\ ~ui.busy
    /\ ~Malformed(b)
    /\ Send(b, FALSE)

\* What the mounted screen lets the user do whatever its boxes hold (the box
\* of the archive's path can always be filled first).
Offers == Shown([folder |-> Blank, pack |-> Blank, version |-> TRUE,
                 typed |-> Blank, out |-> Blank, paste |-> FALSE,
                 quests |-> FALSE, unfit |-> {}], TRUE)

\* The write button opens the dialog.
Ask ==
    /\ Offers.write /\ ~ui.busy
    /\ ui' = [ui EXCEPT !.confirming = TRUE]
    /\ UNCHANGED <<wf, calls, made, disk>>

\* ConfirmWrite: a box to allow overwriting, a button to confirm, one to cancel.
Dialog == ui.confirming /\ Offers.dialog
Overwrites ==
    \/ ui.at \in {"build", "export", "release"}
    \/ ui.at \in {"install", "quests", "kubejs"} /\ ui.plan.destructive

ToggleForce ==
    /\ Dialog /\ Overwrites
    /\ ui' = [ui EXCEPT !.force = ~@]
    /\ UNCHANGED <<wf, calls, made, disk>>

Confirm(b) ==
    /\ Dialog /\ Offers.agreed /\ ~ui.busy
    /\ ~Malformed(b)
    /\ Send(b, TRUE)

Cancel ==
    /\ Dialog /\ ~ui.busy
    /\ ui' = [ui EXCEPT !.confirming = FALSE]
    /\ UNCHANGED <<wf, calls, made, disk>>

\* Arriving at Diagnose after a crash, or seeing one there, runs it at once, on
\* a folder the guard takes or not.
AutoDiagnosis(fits) ==
    [screen |-> "diagnose", apply |-> FALSE, force |-> FALSE, place |-> Blank,
     what |-> Blank, paste |-> FALSE, seen |-> Nothing,
     accepted |-> Accepts("diagnose", {"instancePath"}, IF fits THEN {} ELSE {"instancePath"}),
     odd |-> ~fits,
     live |-> TRUE, answer |-> Nothing]

Unmounted == [i \in 1..MaxCalls |->
                IF calls[i] = Nothing THEN Nothing ELSE [calls[i] EXCEPT !.live = FALSE]]

\* App.goTo: the screen goes, with its state; its calls go on.
GoTo(s, filled) ==
    /\ s # ui.at
    /\ IF s = "diagnose" /\ wf.lastCrash /\ filled
       THEN /\ ui' = [Fresh(s) EXCEPT !.busy = TRUE]
            /\ \E i \in Room, fits \in BOOLEAN :
                    calls' = [Unmounted EXCEPT ![i] = AutoDiagnosis(fits)]
       ELSE /\ ui' = Fresh(s)
            /\ calls' = Unmounted
    /\ UNCHANGED <<wf, made, disk>>

-----------------------------------------------------------------------------
(* The main process.                                                       *)

Pending(i, screens) ==
    /\ calls[i] # Nothing
    /\ calls[i].answer = Nothing
    /\ calls[i].screen \in screens

Answers(i, code, plan, done, crashed) ==
    /\ calls' = [calls EXCEPT ![i].answer =
                    [code |-> code, plan |-> plan, done |-> done, crashed |-> crashed]]
    /\ UNCHANGED <<ui, wf, made>>

ReadsOnly(i, code, plan) == Answers(i, code, plan, FALSE, FALSE) /\ UNCHANGED disk

\* guardInvocation refuses: no service runs.
Refuse(i) ==
    /\ Pending(i, Channels)
    /\ ~calls[i].accepted
    /\ ReadsOnly(i, "refused", Nothing)

\* The catalog does not answer, a file does not read, a write fails: the
\* service rejects.
Throw(i) ==
    /\ Pending(i, Channels)
    /\ calls[i].accepted
    /\ ReadsOnly(i, "thrown", Nothing)

\* orchestrate, updates, migrate: a report, and an exit code that says whether
\* it found something wrong.
ServeReport(i) ==
    /\ Pending(i, {"resolve", "updates", "migrate"})
    /\ calls[i].accepted
    /\ \E code \in {"ok", "error"} : ReadsOnly(i, code, Nothing)

\* Every check of doctor passes or warns, none fails.
ServeDoctor(i) ==
    /\ Pending(i, {"doctor"})
    /\ calls[i].accepted
    /\ ReadsOnly(i, "ok", Nothing)

\* Nothing to read is no failure either.
ServeDiagnose(i) ==
    /\ Pending(i, {"diagnose"})
    /\ calls[i].accepted
    /\ ReadsOnly(i, "ok", Nothing)

\* A plan, and with apply its write: --force where it replaces something.
Guarded(i, place, shown, kind, content, destructive) ==
    LET plan == [folder |-> shown, content |-> content, destructive |-> destructive]
    IN  \/ ~calls[i].apply /\ ReadsOnly(i, "ok", plan)
        \/ calls[i].apply /\ destructive /\ ~calls[i].force /\ ReadsOnly(i, "error", plan)
        \/ /\ calls[i].apply
           /\ destructive => calls[i].force
           /\ disk' = [disk EXCEPT ![place][kind] = content]
           /\ Answers(i, "ok", plan, TRUE, FALSE)

ServeBuild(i) ==
    /\ Pending(i, {"build"}) /\ calls[i].accepted
    /\ LET c == calls[i] IN
        \/ c.what \in BadPacks /\ ReadsOnly(i, "blocked", Nothing)
        \/ /\ c.what \notin BadPacks
           /\ Guarded(i, c.place, c.place, "build", c.what,
                      disk[c.place]["build"] # Nothing)

\* readPack throws where nothing was built.  A download that fails makes the
\* exit code 1 but stops nothing.
ServeInstall(i) ==
    /\ Pending(i, {"install"}) /\ calls[i].accepted
    /\ LET c == calls[i]
           built == disk[c.place]["build"]
           there == disk[c.place]["install"]
           plan == [folder |-> c.place, content |-> built,
                    destructive |-> there \notin {Nothing, built}]
       IN  \/ built = Nothing /\ ReadsOnly(i, "thrown", Nothing)
           \/ built # Nothing /\ Guarded(i, c.place, c.place, "install", built, plan.destructive)
           \/ /\ built # Nothing /\ ~c.apply
              /\ ReadsOnly(i, "error", plan)
           \/ /\ built # Nothing /\ c.apply
              /\ plan.destructive => c.force
              /\ \E left \in {there, built} :
                    disk' = [disk EXCEPT ![c.place]["install"] = left]
              /\ Answers(i, "error", plan, TRUE, FALSE)

\* No profile, or no JDK: there is no command.  A game that runs ends clean or
\* crashed.
ServeLaunch(i) ==
    /\ Pending(i, {"launch"}) /\ calls[i].accepted
    /\ LET c == calls[i]
           built == disk[c.place]["build"]
           plan == [folder |-> c.place, content |-> built, destructive |-> FALSE]
       IN  \/ ReadsOnly(i, "error", Nothing)
           \/ built # Nothing /\ ~c.apply /\ ReadsOnly(i, "ok", plan)
           \/ /\ built # Nothing /\ c.apply
              /\ \E crashed \in BOOLEAN :
                    Answers(i, IF crashed THEN "error" ELSE "ok", plan, TRUE, crashed)
              /\ UNCHANGED disk

\* runExport: the gate, the plan, then the archive at out, once.
ServeExport(i) ==
    /\ Pending(i, {"export"}) /\ calls[i].accepted
    /\ LET c == calls[i] IN
        \/ c.what \in BadPacks /\ ReadsOnly(i, "blocked", Nothing)
        \/ /\ c.what \notin BadPacks
           /\ Guarded(i, c.place, Blank, "archive", c.what,
                      c.apply /\ disk[c.place]["archive"] # Nothing)

\* Mutant of ServeRelease: a release is not gated.
ServeReleaseUngated(i) ==
    /\ Pending(i, {"release"}) /\ calls[i].accepted
    /\ LET c == calls[i] IN
           Guarded(i, c.place, Blank, "archive", c.what,
                   c.apply /\ disk[c.place]["archive"] # Nothing)

\* runRelease: the same with a changelog against the baseline.
ServeRelease(i) ==
    /\ Pending(i, {"release"}) /\ calls[i].accepted
    /\ LET c == calls[i] IN
        \/ c.what \in BadPacks /\ ReadsOnly(i, "blocked", Nothing)
        \/ /\ c.what \notin BadPacks
           /\ Guarded(i, c.place, Blank, "archive", c.what,
                      c.apply /\ disk[c.place]["archive"] # Nothing)

\* A definition is pasted, or drafted by the model anew for every call.
Drafts(c) == IF c.paste THEN {c.what} ELSE Packs

\* runQuests and runQuestsAuthoring: what does not validate has no plan, and
\* without a model nothing is drafted.
ServeQuests(i) ==
    /\ Pending(i, {"quests"}) /\ calls[i].accepted
    /\ LET c == calls[i] IN
        \/ ~c.paste /\ ReadsOnly(i, "error", Nothing)
        \/ \E d \in Drafts(c) :
            \/ d \in BadPacks /\ ReadsOnly(i, "error", Nothing)
            \/ /\ d \notin BadPacks
               /\ Guarded(i, c.place, c.place, "quests", d,
                          disk[c.place]["quests"] # Nothing)

\* runKubeJs and runKubeJsAuthoring.
ServeKubeJs(i) ==
    /\ Pending(i, {"kubejs"}) /\ calls[i].accepted
    /\ LET c == calls[i] IN
        \/ ~c.paste /\ ReadsOnly(i, "error", Nothing)
        \/ \E d \in Drafts(c) :
            \/ d \in BadPacks /\ ReadsOnly(i, "error", Nothing)
            \/ /\ d \notin BadPacks
               /\ Guarded(i, c.place, c.place, "kubejs", d,
                          disk[c.place]["kubejs"] # Nothing)

-----------------------------------------------------------------------------
(* The answer arrives in the window.                                       *)

Returned(a) == a.code \in {"ok", "error", "blocked"}

\* run, from its await on: the result is shown, a rejection keeps the last one.
Landed(c, a) ==
    [ui EXCEPT !.busy = FALSE, !.confirming = FALSE,
               !.previewed = @ \/ (Returned(a) /\ ~c.apply),
               !.code = IF Returned(a) THEN a.code ELSE @,
               !.plan = IF Returned(a) THEN a.plan ELSE @]

\* Mutant of Completes: a build that ran is a build that worked.
CompletesIfRan(c, a) ==
    CASE c.screen = "resolve" -> a.code = "ok"
      [] c.screen \in {"build", "install"} -> c.apply /\ Returned(a)
      [] c.screen = "launch" -> a.done /\ ~a.crashed
      [] c.screen = "diagnose" -> Returned(a)
      [] OTHER -> FALSE

\* The step a call completes, and the one it takes back.
Completes(c, a) ==
    CASE c.screen = "resolve" -> a.code = "ok"
      [] c.screen \in {"build", "install"} -> c.apply /\ a.code = "ok" /\ a.done
      [] c.screen = "launch" -> a.done /\ ~a.crashed
      [] c.screen = "diagnose" -> Returned(a)
      [] OTHER -> FALSE
Uncompletes(c, a) ==
    CASE c.screen = "resolve" -> a.code # "ok"
      [] c.screen \in {"build", "install"} -> c.apply /\ Returned(a) /\ ~Completes(c, a)
      [] c.screen = "launch" -> a.done /\ a.crashed
      [] OTHER -> FALSE

\* Mutant of Recorded: whatever came back is a step done.
RecordedAll(c, a) ==
    [wf EXCEPT !.completed = IF Returned(a) THEN @ \cup {c.screen} ELSE @]

\* workflow.complete, uncomplete and set: they work from any screen.
Recorded(c, a) ==
    [wf EXCEPT !.completed = IF Completes(c, a) THEN @ \cup {c.screen}
                             ELSE IF Uncompletes(c, a) THEN @ \ {c.screen}
                             ELSE @,
               !.lastCrash = IF c.screen = "launch" /\ a.done THEN a.crashed ELSE @]

\* The effect of Diagnose fires when a crash is recorded under it, if the
\* folder box is filled.
CrashSeen ==
    /\ wf'.lastCrash /\ ~wf.lastCrash
    /\ ui.at = "diagnose"
    /\ ui.code = Nothing /\ ~ui.busy

\* Mutant of Settle: an answer lands on whatever screen is there.
SettleAnywhere(i, filled) ==
    /\ calls[i] # Nothing
    /\ calls[i].answer # Nothing
    /\ wf' = Recorded(calls[i], calls[i].answer)
    /\ ui' = Landed(calls[i], calls[i].answer)
    /\ calls' = [calls EXCEPT ![i] = Nothing]
    /\ UNCHANGED <<made, disk>>

Settle(i, filled) ==
    /\ calls[i] # Nothing
    /\ calls[i].answer # Nothing
    /\ wf' = Recorded(calls[i], calls[i].answer)
    /\ IF CrashSeen /\ filled
       THEN /\ ui' = [ui EXCEPT !.busy = TRUE]
            /\ \E fits \in BOOLEAN : calls' = [calls EXCEPT ![i] = AutoDiagnosis(fits)]
       ELSE /\ ui' = IF calls[i].live THEN Landed(calls[i], calls[i].answer) ELSE ui
            /\ calls' = [calls EXCEPT ![i] = Nothing]
    /\ UNCHANGED <<made, disk>>

-----------------------------------------------------------------------------
User ==
    \/ \E b \in Boxes(ui.at) : Preview(b) \/ Confirm(b)
    \/ RunRejected
    \/ Ask
    \/ ToggleForce
    \/ Cancel
    \/ \E s \in Channels, filled \in BOOLEAN : GoTo(s, filled)

Serve(i) ==
    \/ Refuse(i)
    \/ Throw(i)
    \/ ServeReport(i)
    \/ ServeDoctor(i)
    \/ ServeDiagnose(i)
    \/ ServeBuild(i)
    \/ ServeInstall(i)
    \/ ServeLaunch(i)
    \/ ServeExport(i)
    \/ ServeRelease(i)
    \/ ServeQuests(i)
    \/ ServeKubeJs(i)

Next == User \/ \E i \in 1..MaxCalls : Serve(i) \/ \E filled \in BOOLEAN : Settle(i, filled)

Spec == Init /\ [][Next]_vars

-----------------------------------------------------------------------------
(* Properties.                                                             *)

TypeOK ==
    /\ ui \in Screen
    /\ wf \in Workflow
    /\ calls \in [1..MaxCalls -> Call \cup {Nothing}]
    /\ made \in 0..MaxCalls
    /\ disk \in [Folders -> [Kinds -> Contents \cup {Nothing}]]

\* A step the sidebar marks as done was done: a build wrote a pack, an
\* install wrote jars, a launch had a built pack and no later one crashed
\* (workflow.complete, whichever screen is open when the answer arrives).
StepsEarned ==
    /\ "build" \in wf.completed => \E f \in Folders : disk[f]["build"] # Nothing
    /\ "install" \in wf.completed => \E f \in Folders : disk[f]["install"] # Nothing
    /\ "launch" \in wf.completed =>
        ~wf.lastCrash /\ \E f \in Folders : disk[f]["build"] # Nothing

\* A screen is busy exactly while a call of its own is in flight, and it has
\* one at most: the answer of a screen that is gone frees no other, and no
\* path through run leaves the screen busy for good.
BusyMeansCalling ==
    /\ ui.busy <=> \E i \in 1..MaxCalls : calls[i] # Nothing /\ calls[i].live
    /\ \A i, j \in 1..MaxCalls :
        /\ calls[i] # Nothing /\ calls[i].live => calls[i].screen = ui.at
        /\ calls[i] # Nothing /\ calls[i].live /\ calls[j] # Nothing /\ calls[j].live
            => i = j

\* The window and the guard agree on which keys a call has: a call is refused
\* only for a value the user gave, one that is empty, too long, or a definition
\* without the guard's structure (ipc-guard.ts against the options each screen
\* builds).
RefusedOnlyForValues ==
    \A i \in 1..MaxCalls :
        calls[i] # Nothing /\ ~calls[i].accepted => calls[i].odd

\* What the gate or the validation refuses is never on disk, whatever screen
\* the write came from and whatever was edited after the preview.
BadNeverWritten == \A f \in Folders, k \in Kinds : disk[f][k] \notin BadPacks

\* Only a change set the user has seen is written: what a confirmed call
\* writes is what the screen showed when it was confirmed
\* (ConfirmWrite.tsx: "the user cannot confirm a change set they have not
\* seen").
WritesWhatWasSeen ==
    \A i \in 1..MaxCalls :
        calls[i] # Nothing /\ calls[i].answer # Nothing /\ calls[i].answer.done =>
            /\ calls[i].seen # Nothing
            /\ calls[i].answer.plan.content = calls[i].seen.content
            /\ calls[i].answer.plan.folder = calls[i].seen.folder
=============================================================================
