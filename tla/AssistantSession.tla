-------------------------- MODULE AssistantSession --------------------------
(***************************************************************************)
(* The guided assistant: the loop in which a language model picks tools    *)
(* and the program runs them (src/src/core/assistant/session.ts, the tool  *)
(* handlers of tools.ts, and the deterministic pass of fallback.ts).       *)
(*                                                                         *)
(* The model is an adversary: it may call any tool with any arguments in   *)
(* any order, or fail.  The user answers as it likes.  A session holds one *)
(* artifact of each kind, each derived from the one before: brief,         *)
(* resolved set, requirements, build plan.  apply_build is the only tool   *)
(* that writes.                                                            *)
(***************************************************************************)
EXTENDS Naturals

CONSTANTS
    Briefs,         \* briefs the user and the model may arrive at
    Packs,          \* pinned sets resolution may produce
    BlockedPacks,   \* those with a blocking issue
    Unwritable,     \* those with a mod of unknown side
    Sides,          \* targets of the requirements prediction
    Dirs,           \* instance directories
    Configured,     \* the instance path option, or None
    None,
    MaxToolCalls,   \* the maxToolCalls option
    MaxBatch        \* bound: tool calls in one completion of the model

ASSUME ConstantsAssumption ==
    /\ BlockedPacks \subseteq Packs
    /\ Unwritable \subseteq Packs
    /\ None \notin Briefs \cup Packs \cup Sides \cup Dirs
    /\ Configured \in Dirs \cup {None}
    /\ MaxToolCalls \in Nat \ {0}
    /\ MaxBatch \in Nat \ {0}

VARIABLES
    pc,             \* what the session waits for
    brief, resolved, requirements, buildPlan,   \* SessionState
    userConfirmedApply,
    used,           \* tool calls executed for the current line
    left,           \* calls of the current completion still to execute
    yesTo,          \* history: the plan the user last said yes to
    applied         \* history: the plan whose files were written last

artifacts == <<brief, resolved, requirements, buildPlan>>
loop == <<used, left>>
history == <<yesTo, applied>>
vars == <<pc, artifacts, userConfirmedApply, loop, history>>

NoPlan == [pack |-> None]
Resolved == [brief : Briefs, pack : Packs]
BuildPlan == [pack : Packs, side : Sides, dir : Dirs]

\* A tool call the model may make.  "other" is an unknown tool, a call whose
\* arguments do not validate, or a tool that only reads.
ToolCall ==
    [tool : {"build_brief"}, brief : Briefs]
    \cup [tool : {"resolve_mods"}]
    \cup [tool : {"predict_requirements"}, side : Sides]
    \cup [tool : {"plan_build"}, dir : Dirs \cup {None}]
    \cup [tool : {"apply_build"}]

Init ==
    /\ pc \in {"prompt", "discover"}     \* with a chat model, or without
    /\ brief = None /\ resolved = NoPlan /\ requirements = None
    /\ buildPlan = NoPlan
    /\ userConfirmedApply = FALSE
    /\ used = 0 /\ left = 0
    /\ yesTo = NoPlan /\ applied = NoPlan

-----------------------------------------------------------------------------
(* The loop.                                                               *)

UserLine ==
    /\ pc = "prompt"
    /\ pc' = "thinking"
    /\ used' = 0 /\ left' = 0
    /\ UNCHANGED <<artifacts, userConfirmedApply, history>>

UserQuits ==
    /\ pc = "prompt"
    /\ pc' = "ended"
    /\ UNCHANGED <<artifacts, userConfirmedApply, loop, history>>

ModelAnswers ==
    /\ pc = "thinking"
    /\ pc' = "prompt"
    /\ UNCHANGED <<artifacts, userConfirmedApply, loop, history>>

ModelCalls ==
    /\ pc = "thinking"
    /\ left' \in 1..MaxBatch
    /\ pc' = "calling"
    /\ UNCHANGED <<artifacts, userConfirmedApply, used, history>>

\* The provider fails: the deterministic pass takes over with a new state.
ModelFails ==
    /\ pc = "thinking"
    /\ pc' = "discover"
    /\ brief' = None /\ resolved' = NoPlan /\ requirements' = None
    /\ buildPlan' = NoPlan
    /\ userConfirmedApply' = FALSE
    /\ UNCHANGED <<loop, history>>

-----------------------------------------------------------------------------
(* One tool call.                                                          *)

\* Mutant of Answered: one call too many is taken from a completion.
AnsweredLate ==
    /\ used' = used + 1
    /\ left' = left - 1
    /\ pc' = CASE left > 0 -> "calling"
               [] left = 0 /\ used + 1 < MaxToolCalls -> "thinking"
               [] OTHER -> "prompt"

\* The call is answered: the next of its completion, the model again, or, at
\* the limit, the user.
Answered ==
    /\ used' = used + 1
    /\ left' = left - 1
    /\ pc' = CASE left > 1 -> "calling"
               [] left = 1 /\ used + 1 < MaxToolCalls -> "thinking"
               [] OTHER -> "prompt"

\* Mutant of Rejected: a call that is not executed does not count.
RejectedFree ==
    /\ pc = "calling"
    /\ left' = left - 1
    /\ pc' = IF left > 1 THEN "calling" ELSE "thinking"
    /\ UNCHANGED <<artifacts, userConfirmedApply, used, history>>

\* Nothing is executed: an unknown tool, invalid arguments, a duplicate.  A
\* duplicate is a call in the same words; the model may make the same call
\* again in other words, so no call is ever excluded.
Rejected ==
    /\ pc = "calling"
    /\ Answered
    /\ UNCHANGED <<artifacts, userConfirmedApply, history>>

\* The handler refuses: what it needs is missing, or the brief is incomplete.
Lacks(call) ==
    CASE call.tool = "build_brief" -> TRUE
      [] call.tool = "resolve_mods" -> brief = None
      [] call.tool = "predict_requirements" -> resolved = NoPlan
      [] call.tool = "plan_build" ->
            \/ resolved = NoPlan
            \/ requirements = None
            \/ resolved.pack \in BlockedPacks
            \/ call.dir = None /\ Configured = None
      [] call.tool = "apply_build" -> buildPlan = NoPlan
Refused(call) ==
    /\ pc = "calling"
    /\ Lacks(call)
    /\ Answered
    /\ UNCHANGED <<artifacts, userConfirmedApply, history>>

BuildBrief(call) ==
    /\ call.tool = "build_brief"
    /\ pc = "calling"
    /\ brief' = call.brief
    /\ resolved' = NoPlan /\ requirements' = None /\ buildPlan' = NoPlan
    /\ userConfirmedApply' = FALSE
    /\ Answered
    /\ UNCHANGED history

\* Mutants of ResolveMods: the plan stays; the confirmation stays.
ResolveModsKeepsPlan(call) ==
    /\ call.tool = "resolve_mods"
    /\ pc = "calling"
    /\ brief # None
    /\ resolved' \in {NoPlan} \cup [brief : {brief}, pack : Packs]
    /\ requirements' = None
    /\ userConfirmedApply' = FALSE
    /\ Answered
    /\ UNCHANGED <<brief, buildPlan, history>>
ResolveModsKeepsYes(call) ==
    /\ call.tool = "resolve_mods"
    /\ pc = "calling"
    /\ brief # None
    /\ resolved' \in {NoPlan} \cup [brief : {brief}, pack : Packs]
    /\ requirements' = None /\ buildPlan' = NoPlan
    /\ Answered
    /\ UNCHANGED <<brief, userConfirmedApply, history>>

\* The old artifacts go before the lookup, which may fail.
ResolveMods(call) ==
    /\ call.tool = "resolve_mods"
    /\ pc = "calling"
    /\ brief # None
    /\ resolved' \in {NoPlan} \cup [brief : {brief}, pack : Packs]
    /\ requirements' = None /\ buildPlan' = NoPlan
    /\ userConfirmedApply' = FALSE
    /\ Answered
    /\ UNCHANGED <<brief, history>>

PredictRequirements(call) ==
    /\ call.tool = "predict_requirements"
    /\ pc = "calling"
    /\ resolved # NoPlan
    /\ requirements' = call.side
    /\ Answered
    /\ UNCHANGED <<brief, resolved, buildPlan, userConfirmedApply, history>>

Plannable(call) ==
    /\ call.tool = "plan_build"
    /\ pc = "calling"
    /\ resolved # NoPlan /\ requirements # None
    /\ resolved.pack \notin BlockedPacks
    /\ call.dir # None \/ Configured # None

\* A new plan; a confirmation of an earlier one stands.  (What the plan says of
\* files that exist is what the model said of them.)
PlanBuild(call) ==
    /\ Plannable(call)
    /\ resolved.pack \notin Unwritable
    /\ buildPlan' = [pack |-> resolved.pack, side |-> requirements,
                     dir |-> IF call.dir # None THEN call.dir ELSE Configured]
    /\ Answered
    /\ UNCHANGED <<brief, resolved, requirements, userConfirmedApply, history>>

\* A metafile needs a known side: assembling the pack throws, nothing catches
\* it, and the session rejects.
PlanThrows(call) ==
    /\ Plannable(call)
    /\ resolved.pack \in Unwritable
    /\ pc' = "failed"
    /\ UNCHANGED <<artifacts, userConfirmedApply, loop, history>>

\* The write gate: the user is asked, unless it confirmed before.
ApplyGate(call) ==
    /\ call.tool = "apply_build"
    /\ pc = "calling"
    /\ buildPlan # NoPlan
    /\ pc' = IF userConfirmedApply THEN "applying" ELSE "asking"
    /\ UNCHANGED <<artifacts, userConfirmedApply, used, left, history>>

UserConfirms ==
    /\ pc = "asking"
    /\ userConfirmedApply' = TRUE
    /\ yesTo' = buildPlan
    /\ pc' = "applying"
    /\ UNCHANGED <<artifacts, loop, applied>>

UserDeclines ==
    /\ pc = "asking"
    /\ Answered
    /\ UNCHANGED <<artifacts, userConfirmedApply, history>>

ApplyBuild ==
    /\ pc = "applying"
    /\ applied' = buildPlan
    /\ Answered
    /\ UNCHANGED <<artifacts, userConfirmedApply, yesTo>>

\* The guarded write rejects, before or amid the files: so does the session.
ApplyFails ==
    /\ pc = "applying"
    /\ pc' = "failed"
    /\ applied' \in {applied, buildPlan}
    /\ UNCHANGED <<artifacts, userConfirmedApply, loop, yesTo>>

-----------------------------------------------------------------------------
(* The deterministic pass: questions, one resolution, a plan, no write.    *)

FallbackBrief ==
    /\ pc = "discover"
    /\ \/ pc' = "mods" /\ brief' \in Briefs
       \/ pc' = "ended" /\ UNCHANGED brief
    /\ UNCHANGED <<resolved, requirements, buildPlan, userConfirmedApply, loop,
                   history>>

FallbackFails ==
    /\ pc = "mods"
    /\ pc' = "ended"
    /\ UNCHANGED <<artifacts, userConfirmedApply, loop, history>>

\* The resolved set is not blocked and there is an instance to plan for.
Plans(pack) == Configured # None /\ pack \notin BlockedPacks

\* A plan is shown where there is an instance to plan for; nothing is written.
FallbackPlan ==
    /\ pc = "mods"
    /\ resolved' \in [brief : {brief}, pack : Packs]
    /\ requirements' \in Sides
    /\ Plans(resolved'.pack) => resolved'.pack \notin Unwritable
    /\ buildPlan' =
        IF Plans(resolved'.pack)
        THEN [pack |-> resolved'.pack, side |-> requirements',
              dir |-> Configured]
        ELSE NoPlan
    /\ pc' = "ended"
    /\ UNCHANGED <<brief, userConfirmedApply, loop, history>>

\* Its plan_build throws like any other.
FallbackThrows ==
    /\ pc = "mods"
    /\ resolved' \in [brief : {brief}, pack : Unwritable]
    /\ requirements' \in Sides
    /\ Plans(resolved'.pack)
    /\ pc' = "failed"
    /\ UNCHANGED <<brief, buildPlan, userConfirmedApply, loop, history>>

-----------------------------------------------------------------------------
\* The model and the tools settle, and the user answers a question it is asked.
Progress ==
    \/ ModelAnswers \/ ModelCalls
    \/ Rejected
    \/ \E call \in ToolCall :
        \/ Refused(call)
        \/ BuildBrief(call) \/ ResolveMods(call) \/ PredictRequirements(call)
        \/ PlanBuild(call) \/ PlanThrows(call) \/ ApplyGate(call)
    \/ UserConfirms \/ UserDeclines
    \/ ApplyBuild \/ ApplyFails
    \/ FallbackBrief \/ FallbackFails \/ FallbackPlan \/ FallbackThrows

Over == pc \in {"ended", "failed"} /\ UNCHANGED vars

Next == UserLine \/ UserQuits \/ ModelFails \/ Progress \/ Over

Spec == Init /\ [][Next]_vars
FairSpec == Spec /\ WF_vars(Progress)

-----------------------------------------------------------------------------
(* Properties.                                                             *)

TypeOK ==
    /\ pc \in {"prompt", "thinking", "calling", "asking", "applying",
               "discover", "mods", "ended", "failed"}
    /\ brief \in Briefs \cup {None}
    /\ resolved \in Resolved \cup {NoPlan}
    /\ requirements \in Sides \cup {None}
    /\ buildPlan \in BuildPlan \cup {NoPlan}
    /\ userConfirmedApply \in BOOLEAN
    /\ used \in Nat /\ left \in Nat
    /\ pc \in {"calling", "asking", "applying"} => left # 0
    /\ yesTo \in BuildPlan \cup {NoPlan}
    /\ applied \in BuildPlan \cup {NoPlan}

\* Whatever tools the model calls and whichever of them fail, a build plan is
\* one of the set resolved last, for the brief agreed last, and that set is
\* not blocked.
PlanCurrent ==
    /\ resolved # NoPlan => resolved.brief = brief
    /\ buildPlan # NoPlan =>
        /\ resolved # NoPlan
        /\ buildPlan.pack = resolved.pack
        /\ resolved.pack \notin BlockedPacks
        /\ requirements # None

\* The inductive strengthening of the two around it: a confirmation that still
\* stands is of the set resolved last, and the deterministic pass starts clean.
ConfirmationCurrent ==
    /\ userConfirmedApply =>
        /\ yesTo # NoPlan
        /\ resolved # NoPlan
        /\ yesTo.pack = resolved.pack
    /\ pc \in {"asking", "applying"} => buildPlan # NoPlan
    /\ pc = "applying" => userConfirmedApply
    /\ pc \in {"discover", "mods"} =>
        ~userConfirmedApply /\ resolved = NoPlan /\ buildPlan = NoPlan
    /\ pc = "mods" => brief # None

\* What is applied is a pack the user said yes to, and not one that replaced it
\* since.
Writes == applied' # applied
AppliesConfirmedPack ==
    [][Writes => /\ applied' # NoPlan
                 /\ yesTo # NoPlan
                 /\ applied'.pack = yesTo.pack]_vars

\* A line of the user is answered: the model cannot keep the session in its
\* tool loop for ever.
LineAnswered ==
    pc = "thinking" ~> pc \in {"prompt", "ended", "failed"}

\* The deterministic pass never crashes (specs/0017 FR-6).
FallbackSurvives ==
    [][pc' = "failed" => pc \notin {"discover", "mods"}]_vars

=============================================================================
