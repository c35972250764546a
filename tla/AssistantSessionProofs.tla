----------------------- MODULE AssistantSessionProofs -----------------------
(***************************************************************************)
(* What holds of every assistant session, for any sets of briefs, packs    *)
(* and directories and any tool-call limit.  TypeOK and PlanCurrent are    *)
(* inductive together with ConfirmationCurrent: a write needs a plan, and  *)
(* a new set needs the deterministic pass to have started clean.           *)
(***************************************************************************)
EXTENDS AssistantSession, TLAPS

SessionInv == TypeOK /\ PlanCurrent /\ ConfirmationCurrent

\* An artifact is told apart from the lack of one.
LEMMA Distinct ==
    /\ NoPlan \notin Resolved
    /\ NoPlan \notin BuildPlan
    /\ None \notin Briefs \cup Packs \cup Sides \cup Dirs
  <1>1. None \notin Briefs \cup Packs \cup Sides \cup Dirs
    BY ConstantsAssumption DEF ConstantsAssumption
  <1>2. /\ \A r \in Resolved : r.pack \in Packs
        /\ \A p \in BuildPlan : p.pack \in Packs
    BY DEF Resolved, BuildPlan
  <1>3. NoPlan.pack = None
    BY DEF NoPlan
  <1> QED BY <1>1, <1>2, <1>3

\* However a tool call ends, the session goes on calling, thinking or
\* prompting, and goes on calling only while calls are left.
LEMMA AnsweredType ==
    ASSUME TypeOK, Answered, pc \in {"calling", "asking", "applying"}
    PROVE  /\ used' \in Nat /\ left' \in Nat
           /\ pc' \in {"calling", "thinking", "prompt"}
           /\ pc' = "calling" => left' # 0
  BY DEF TypeOK, Answered

\* A tool call keeps the invariant.
LEMMA ToolStep ==
    ASSUME SessionInv, NEW call \in ToolCall,
           \/ Refused(call) \/ BuildBrief(call) \/ ResolveMods(call)
           \/ PredictRequirements(call) \/ PlanBuild(call) \/ PlanThrows(call)
           \/ ApplyGate(call)
    PROVE  SessionInv'
  <1> USE DEF SessionInv, artifacts, loop, history
  <1>0. pc = "calling"
    BY DEF Refused, BuildBrief, ResolveMods, PredictRequirements, Plannable,
           PlanBuild, PlanThrows, ApplyGate
  <1>1. CASE Refused(call)
    <2>1. Answered /\ UNCHANGED <<artifacts, userConfirmedApply, history>>
      BY <1>1 DEF Refused
    <2>2. TypeOK'
      BY <1>0, <2>1, AnsweredType DEF TypeOK
    <2>3. PlanCurrent' /\ ConfirmationCurrent'
      BY <1>0, <2>1, AnsweredType DEF PlanCurrent, ConfirmationCurrent
    <2> QED BY <2>2, <2>3
  <1>2. CASE BuildBrief(call)
    <2>1. call.brief \in Briefs
      BY <1>2 DEF BuildBrief, ToolCall
    <2>2. Answered
      BY <1>2 DEF BuildBrief
    <2>3. TypeOK'
      BY <1>0, <1>2, <2>1, <2>2, AnsweredType DEF BuildBrief, TypeOK
    <2>4. PlanCurrent' /\ ConfirmationCurrent'
      BY <1>0, <1>2, <2>2, AnsweredType
      DEF BuildBrief, PlanCurrent, ConfirmationCurrent
    <2> QED BY <2>3, <2>4
  <1>3. CASE ResolveMods(call)
    <2>1. Answered
      BY <1>3 DEF ResolveMods
    <2>2. /\ resolved' \in Resolved \cup {NoPlan}
          /\ resolved' # NoPlan => resolved'.brief = brief
      BY <1>3 DEF ResolveMods, Resolved, TypeOK
    <2>3. TypeOK'
      BY <1>0, <1>3, <2>1, <2>2, AnsweredType DEF ResolveMods, TypeOK
    <2>4. PlanCurrent' /\ ConfirmationCurrent'
      BY <1>0, <1>3, <2>1, <2>2, AnsweredType
      DEF ResolveMods, PlanCurrent, ConfirmationCurrent
    <2> QED BY <2>3, <2>4
  <1>4. CASE PredictRequirements(call)
    <2>1. call.side \in Sides /\ call.side # None
      BY <1>4, Distinct DEF PredictRequirements, ToolCall
    <2>2. Answered
      BY <1>4 DEF PredictRequirements
    <2>3. TypeOK'
      BY <1>0, <1>4, <2>1, <2>2, AnsweredType DEF PredictRequirements, TypeOK
    <2>4. PlanCurrent' /\ ConfirmationCurrent'
      BY <1>0, <1>4, <2>1, <2>2, AnsweredType
      DEF PredictRequirements, PlanCurrent, ConfirmationCurrent
    <2> QED BY <2>3, <2>4
  <1>5. CASE PlanBuild(call)
    <2>1. resolved \in Resolved /\ requirements \in Sides
      BY <1>5 DEF Plannable, PlanBuild, TypeOK
    <2>2. call.dir \in Dirs \cup {None}
      BY <1>5 DEF Plannable, PlanBuild, ToolCall
    <2>3. (IF call.dir # None THEN call.dir ELSE Configured) \in Dirs
      BY <1>5, <2>2, ConstantsAssumption DEF Plannable, PlanBuild, ConstantsAssumption
    <2>4. buildPlan' \in BuildPlan /\ buildPlan'.pack = resolved.pack
      BY <1>5, <2>1, <2>2, <2>3 DEF Plannable, PlanBuild, BuildPlan, Resolved
    <2>5. Answered
      BY <1>5 DEF PlanBuild
    <2>6. TypeOK'
      BY <1>0, <1>5, <2>4, <2>5, AnsweredType DEF Plannable, PlanBuild, TypeOK
    <2>7. PlanCurrent' /\ ConfirmationCurrent'
      BY <1>0, <1>5, <2>4, <2>5, AnsweredType
      DEF Plannable, PlanBuild, PlanCurrent, ConfirmationCurrent
    <2> QED BY <2>6, <2>7
  <1>6. CASE ApplyGate(call)
    <2>1. TypeOK'
      BY <1>0, <1>6 DEF ApplyGate, TypeOK
    <2>2. PlanCurrent' /\ ConfirmationCurrent'
      BY <1>0, <1>6 DEF ApplyGate, PlanCurrent, ConfirmationCurrent
    <2> QED BY <2>1, <2>2
  <1>7. CASE PlanThrows(call)
    <2>1. TypeOK'
      BY <1>7 DEF PlanThrows, TypeOK
    <2>2. PlanCurrent' /\ ConfirmationCurrent'
      BY <1>7 DEF PlanThrows, PlanCurrent, ConfirmationCurrent
    <2> QED BY <2>1, <2>2
  <1> QED BY <1>1, <1>2, <1>3, <1>4, <1>5, <1>6, <1>7

\* Every other step keeps it too.
LEMMA LoopStep ==
    ASSUME SessionInv,
           \/ UserLine \/ UserQuits \/ ModelAnswers \/ ModelCalls \/ ModelFails
           \/ Rejected \/ UserConfirms \/ UserDeclines \/ ApplyBuild \/ ApplyFails
           \/ UNCHANGED vars
    PROVE  SessionInv'
  <1> USE DEF SessionInv, artifacts, loop, history
  <1>1. CASE UserLine
    <2>1. TypeOK'
      BY <1>1 DEF UserLine, TypeOK
    <2>2. PlanCurrent' /\ ConfirmationCurrent'
      BY <1>1 DEF UserLine, PlanCurrent, ConfirmationCurrent
    <2> QED BY <2>1, <2>2
  <1>7. CASE UserQuits \/ ModelAnswers
    <2>1. TypeOK'
      BY <1>7 DEF UserQuits, ModelAnswers, TypeOK
    <2>2. PlanCurrent' /\ ConfirmationCurrent'
      BY <1>7 DEF UserQuits, ModelAnswers, PlanCurrent, ConfirmationCurrent
    <2> QED BY <2>1, <2>2
  <1>8. CASE ModelFails
    <2>1. TypeOK'
      BY <1>8 DEF ModelFails, TypeOK
    <2>2. PlanCurrent' /\ ConfirmationCurrent'
      BY <1>8 DEF ModelFails, PlanCurrent, ConfirmationCurrent
    <2> QED BY <2>1, <2>2
  <1>2. CASE ModelCalls
    <2>1. left' \in Nat /\ left' # 0
      BY <1>2, ConstantsAssumption DEF ModelCalls, ConstantsAssumption
    <2>2. TypeOK'
      BY <1>2, <2>1 DEF ModelCalls, TypeOK
    <2>3. PlanCurrent' /\ ConfirmationCurrent'
      BY <1>2 DEF ModelCalls, PlanCurrent, ConfirmationCurrent
    <2> QED BY <2>2, <2>3
  <1>3. CASE Rejected \/ UserDeclines
    <2>1. /\ pc \in {"calling", "asking"} /\ Answered
          /\ UNCHANGED <<artifacts, userConfirmedApply, history>>
      BY <1>3 DEF Rejected, UserDeclines
    <2>2. TypeOK'
      BY <2>1, AnsweredType DEF TypeOK
    <2>3. PlanCurrent' /\ ConfirmationCurrent'
      BY <2>1, AnsweredType DEF PlanCurrent, ConfirmationCurrent
    <2> QED BY <2>2, <2>3
  <1>4. CASE UserConfirms
    <2>1. TypeOK'
      BY <1>4 DEF UserConfirms, TypeOK
    <2>2. PlanCurrent' /\ ConfirmationCurrent'
      BY <1>4 DEF UserConfirms, PlanCurrent, ConfirmationCurrent
    <2> QED BY <2>1, <2>2
  <1>5. CASE ApplyBuild \/ ApplyFails
    <2>1. buildPlan \in BuildPlan /\ buildPlan.dir \in Dirs
      BY <1>5 DEF ApplyBuild, ApplyFails, ConfirmationCurrent, TypeOK, BuildPlan
    <2>2. CASE ApplyBuild
      <3>1. Answered /\ pc = "applying"
        BY <2>2 DEF ApplyBuild
      <3>2. TypeOK'
        BY <2>1, <2>2, <3>1, AnsweredType DEF ApplyBuild, TypeOK
      <3>3. PlanCurrent' /\ ConfirmationCurrent'
        BY <2>2, <3>1, AnsweredType DEF ApplyBuild, PlanCurrent, ConfirmationCurrent
      <3> QED BY <3>2, <3>3
    <2>3. CASE ApplyFails
      <3>1. TypeOK'
        BY <2>1, <2>3 DEF ApplyFails, TypeOK
      <3>2. PlanCurrent' /\ ConfirmationCurrent'
        BY <2>3 DEF ApplyFails, PlanCurrent, ConfirmationCurrent
      <3> QED BY <3>1, <3>2
    <2> QED BY <1>5, <2>2, <2>3
  <1>6. CASE UNCHANGED vars
    BY <1>6 DEF vars, TypeOK, PlanCurrent, ConfirmationCurrent
  <1> QED BY <1>1, <1>2, <1>3, <1>4, <1>5, <1>6, <1>7, <1>8

\* So does the deterministic pass.
LEMMA FallbackStep ==
    ASSUME SessionInv,
           FallbackBrief \/ FallbackFails \/ FallbackPlan \/ FallbackThrows
    PROVE  SessionInv'
  <1> USE DEF SessionInv, artifacts, loop, history
  <1>1. CASE FallbackBrief
    <2>1. TypeOK'
      BY <1>1 DEF FallbackBrief, TypeOK
    <2>2. pc' = "mods" => brief' # None
      BY <1>1, Distinct DEF FallbackBrief
    <2>3. PlanCurrent' /\ ConfirmationCurrent'
      BY <1>1, <2>2 DEF FallbackBrief, PlanCurrent, ConfirmationCurrent
    <2> QED BY <2>1, <2>3
  <1>3. CASE FallbackFails
    <2>1. TypeOK'
      BY <1>3 DEF FallbackFails, TypeOK
    <2>2. PlanCurrent' /\ ConfirmationCurrent'
      BY <1>3 DEF FallbackFails, PlanCurrent, ConfirmationCurrent
    <2> QED BY <2>1, <2>2
  <1>2. CASE FallbackPlan
    <2>1. brief \in Briefs
      BY <1>2 DEF FallbackPlan, TypeOK, ConfirmationCurrent
    <2>2. /\ resolved' \in Resolved
          /\ resolved'.brief = brief
          /\ resolved'.pack \in Packs
          /\ requirements' \in Sides
      BY <1>2, <2>1 DEF FallbackPlan, Resolved
    <2>3. CASE ~Plans(resolved'.pack)
      <3>1. buildPlan' = NoPlan
        BY <1>2, <2>3 DEF FallbackPlan
      <3>2. TypeOK'
        BY <1>2, <2>2, <3>1 DEF FallbackPlan, TypeOK
      <3>3. PlanCurrent' /\ ConfirmationCurrent'
        BY <1>2, <2>2, <3>1 DEF FallbackPlan, PlanCurrent, ConfirmationCurrent
      <3> QED BY <3>2, <3>3
    <2>4. CASE Plans(resolved'.pack)
      <3>1. buildPlan' = [pack |-> resolved'.pack, side |-> requirements',
                          dir |-> Configured]
        BY <1>2, <2>4 DEF FallbackPlan
      <3>2. Configured \in Dirs
        BY <2>4, ConstantsAssumption DEF ConstantsAssumption, Plans
      <3>3. buildPlan' \in BuildPlan /\ buildPlan'.pack = resolved'.pack
        BY <2>2, <3>1, <3>2 DEF BuildPlan
      <3>4. TypeOK'
        BY <1>2, <2>2, <3>3 DEF FallbackPlan, TypeOK
      <3>5. PlanCurrent' /\ ConfirmationCurrent'
        BY <1>2, <2>2, <2>4, <3>3, Distinct
        DEF FallbackPlan, Plans, PlanCurrent, ConfirmationCurrent
      <3> QED BY <3>4, <3>5
    <2> QED BY <2>3, <2>4
  <1>4. CASE FallbackThrows
    <2>1. brief \in Briefs /\ Unwritable \subseteq Packs
      BY <1>4, ConstantsAssumption
      DEF ConstantsAssumption, FallbackThrows, TypeOK, ConfirmationCurrent
    <2>2. /\ resolved' \in Resolved
          /\ resolved'.brief = brief
          /\ requirements' \in Sides
      BY <1>4, <2>1 DEF FallbackThrows, Resolved
    <2>3. TypeOK'
      BY <1>4, <2>2 DEF FallbackThrows, TypeOK
    <2>4. PlanCurrent' /\ ConfirmationCurrent'
      BY <1>4, <2>2 DEF FallbackThrows, PlanCurrent, ConfirmationCurrent
    <2> QED BY <2>3, <2>4
  <1> QED BY <1>1, <1>2, <1>3, <1>4

\* The invariant holds at the start and is kept by every step.
LEMMA SessionInvariant == Spec => []SessionInv
  <1>1. Init => SessionInv
    <2> SUFFICES ASSUME Init PROVE SessionInv
      OBVIOUS
    <2>1. TypeOK
      BY DEF Init, TypeOK
    <2>2. PlanCurrent /\ ConfirmationCurrent
      BY DEF Init, PlanCurrent, ConfirmationCurrent
    <2> QED BY <2>1, <2>2 DEF SessionInv
  <1>2. SessionInv /\ [Next]_vars => SessionInv'
    BY ToolStep, LoopStep, FallbackStep DEF Next, Progress, Over
  <1> QED BY <1>1, <1>2, PTL DEF Spec

\* Every variable of a session has its type.
THEOREM TypeCorrect == Spec => []TypeOK
  BY SessionInvariant, PTL DEF SessionInv

\* Whatever the model calls, a build plan is one of the set resolved last, for
\* the brief agreed last, and that set is not blocked: plan_build's gate and
\* the invalidation in build_brief and resolve_mods suffice.
THEOREM PlanIsCurrent == Spec => []PlanCurrent
  BY SessionInvariant, PTL DEF SessionInv

\* A write is of a pack the user said yes to: the write gate, with the
\* resets of userConfirmedApply, suffices for that.
THEOREM WritesConfirmedPack == Spec => AppliesConfirmedPack
  <1>1. ASSUME SessionInv, [Next]_vars, Writes
        PROVE  /\ applied' # NoPlan
               /\ yesTo # NoPlan
               /\ applied'.pack = yesTo.pack
    <2>1. pc = "applying" /\ applied' = buildPlan
      <3> USE <1>1 DEF Writes, artifacts, loop, history
      <3>1. CASE \E call \in ToolCall :
                  \/ Refused(call) \/ BuildBrief(call) \/ ResolveMods(call)
                  \/ PredictRequirements(call) \/ PlanBuild(call)
                  \/ PlanThrows(call) \/ ApplyGate(call)
        BY <3>1 DEF Refused, BuildBrief, ResolveMods, PredictRequirements,
                    PlanBuild, PlanThrows, ApplyGate
      <3>2. CASE \/ UserLine \/ UserQuits \/ ModelAnswers \/ ModelCalls
                 \/ ModelFails \/ Rejected \/ UserConfirms \/ UserDeclines
                 \/ FallbackBrief \/ FallbackFails \/ FallbackPlan
                 \/ FallbackThrows
        BY <3>2 DEF UserLine, UserQuits, ModelAnswers, ModelCalls, ModelFails,
                    Rejected, UserConfirms, UserDeclines, FallbackBrief,
                    FallbackFails, FallbackPlan, FallbackThrows
      <3>3. CASE ApplyBuild \/ ApplyFails
        BY <3>3 DEF ApplyBuild, ApplyFails
      <3>4. CASE UNCHANGED vars
        BY <3>4 DEF vars
      <3> QED BY <3>1, <3>2, <3>3, <3>4 DEF Next, Progress, Over
    <2>2. buildPlan # NoPlan /\ yesTo # NoPlan /\ yesTo.pack = resolved.pack
      BY <1>1, <2>1 DEF SessionInv, ConfirmationCurrent
    <2>3. buildPlan.pack = resolved.pack
      BY <1>1, <2>2 DEF SessionInv, PlanCurrent
    <2> QED BY <2>1, <2>2, <2>3
  <1>2. SessionInv /\ [Next]_vars =>
            [Writes => /\ applied' # NoPlan
                       /\ yesTo # NoPlan
                       /\ applied'.pack = yesTo.pack]_vars
    BY <1>1
  <1> QED BY <1>2, SessionInvariant, PTL DEF Spec, AppliesConfirmedPack

-----------------------------------------------------------------------------
(* Why a line is answered.                                                 *)

\* A line is being worked on, and where one turn of the loop is.
Working == pc \in {"thinking", "calling", "asking", "applying"}
Place == CASE pc = "thinking" -> 0 [] pc = "calling" -> 1 [] pc = "asking" -> 2 [] OTHER -> 3

\* Each step spends a tool call, of which a line has less than the limit and one
\* completion together, or goes on to the next place of the turn.
LineSpends ==
    [][Working /\ Working' =>
        \/ used' \in (used + 1)..(MaxToolCalls + MaxBatch - 1)
        \/ used' = used /\ Place' > Place]_vars

\* The model is asked only below the limit, and one completion goes past it.
WithinLimit ==
    /\ pc = "thinking" => used < MaxToolCalls
    /\ pc \in {"calling", "asking", "applying"} =>
        used + left <= MaxToolCalls + MaxBatch - 1
LimitInv == TypeOK /\ WithinLimit

LEMMA Limits == MaxToolCalls \in Nat \ {0} /\ MaxBatch \in Nat \ {0}
  BY ConstantsAssumption DEF ConstantsAssumption

LEMMA AnsweredWithin ==
    ASSUME LimitInv, Answered, pc \in {"calling", "asking", "applying"}
    PROVE  /\ WithinLimit'
           /\ used' \in (used + 1)..(MaxToolCalls + MaxBatch - 1)
  <1>1. used \in Nat /\ left \in Nat \ {0} /\ used + left <= MaxToolCalls + MaxBatch - 1
    BY DEF LimitInv, TypeOK, WithinLimit
  <1>2. used' = used + 1 /\ left' = left - 1
    BY DEF Answered
  <1>3. /\ pc' = "calling" \/ (pc' = "thinking" /\ used' < MaxToolCalls) \/ pc' = "prompt"
    BY DEF Answered
  <1> QED
    BY <1>1, <1>2, <1>3, Limits DEF WithinLimit

\* A step of the loop while a line is worked on.
LEMMA TurnSpends ==
    ASSUME LimitInv, Next, Working
    PROVE  \/ ~Working' /\ WithinLimit'
           \/ WithinLimit' /\ used' \in (used + 1)..(MaxToolCalls + MaxBatch - 1)
           \/ WithinLimit' /\ used' = used /\ Place' > Place
  <1> USE DEF loop
  <1>1. CASE Answered /\ pc \in {"calling", "asking", "applying"}
    BY <1>1, AnsweredWithin
  <1>2. CASE pc = "thinking" /\ pc' = "calling" /\ used' = used /\ left' \in 1..MaxBatch
    <2>1. used \in Nat /\ used < MaxToolCalls
      BY <1>2 DEF LimitInv, TypeOK, WithinLimit
    <2> QED
      BY <1>2, <2>1, Limits DEF WithinLimit, Place
  <1>3. CASE /\ pc \in {"calling", "asking"} /\ pc' \in {"asking", "applying"}
            /\ pc' # pc /\ used' = used /\ left' = left
    BY <1>3 DEF LimitInv, WithinLimit, Place
  <1>4. CASE pc' \in {"prompt", "discover", "failed"}
    BY <1>4 DEF Working, WithinLimit
  <1> QED
    BY <1>1, <1>2, <1>3, <1>4
       DEF Next, Progress, UserLine, UserQuits, ModelAnswers, ModelCalls, ModelFails,
           Rejected, Refused, BuildBrief, ResolveMods, PredictRequirements, PlanBuild,
           Plannable, PlanThrows, ApplyGate, UserConfirms, UserDeclines, ApplyBuild,
           ApplyFails, FallbackBrief, FallbackFails, FallbackPlan, FallbackThrows, Over,
           Working

LEMMA LimitStep == LimitInv /\ [Next]_vars => WithinLimit'
  <1> SUFFICES ASSUME LimitInv, [Next]_vars PROVE WithinLimit'
    OBVIOUS
  <1>1. CASE Working /\ Next
    BY <1>1, TurnSpends
  <1>2. CASE UNCHANGED vars
    BY <1>2 DEF vars, loop, LimitInv, WithinLimit
  <1>3. CASE UserLine
    BY <1>3, Limits DEF UserLine, WithinLimit
  <1>4. CASE ~Working /\ Next /\ ~UserLine
    <2>1. pc' \notin {"thinking", "calling", "asking", "applying"}
      BY <1>4
         DEF Next, Progress, UserQuits, ModelAnswers, ModelCalls, ModelFails,
             Rejected, Refused, BuildBrief, ResolveMods, PredictRequirements, PlanBuild,
             Plannable, PlanThrows, ApplyGate, UserConfirms, UserDeclines, ApplyBuild,
             ApplyFails, FallbackBrief, FallbackFails, FallbackPlan, FallbackThrows, Over,
             Working, vars
    <2> QED
      BY <2>1 DEF WithinLimit
  <1> QED
    BY <1>1, <1>2, <1>3, <1>4

\* Whatever the model calls, a line of the user has at most one completion more
\* than the limit of tool calls, and every step until it is answered uses up
\* one of them or the rest of a turn (the loop of session.ts).
THEOREM LineIsBounded == Spec => LineSpends
  <1>1. Init => WithinLimit
    BY DEF Init, WithinLimit
  <1>2. Spec => []LimitInv
    BY <1>1, LimitStep, TypeCorrect, PTL DEF LimitInv, Spec
  <1> DEFINE Spends ==
        Working /\ Working' =>
            \/ used' \in (used + 1)..(MaxToolCalls + MaxBatch - 1)
            \/ used' = used /\ Place' > Place
  <1>3. LimitInv /\ [Next]_vars => [Spends]_vars
    BY TurnSpends
  <1> QED
    BY <1>2, <1>3, PTL DEF Spec, LineSpends

=============================================================================
