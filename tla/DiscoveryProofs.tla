-------------------------- MODULE DiscoveryProofs --------------------------
(***************************************************************************)
(* Proofs about Discovery, for any texts, messages and limit: its types,   *)
(* that the user's last word stands, that a confirmed brief is complete,   *)
(* consistent and accounted for, that the questions are bounded, and that  *)
(* no conflict is a dead end.                                              *)
(***************************************************************************)
EXTENDS Discovery, FiniteSetTheorems, TLAPS

(***************************************************************************)
(* The inductive invariant.                                                *)
(***************************************************************************)

\* Only an open slot is asked for; so a text never replaces a keyword.
AsksOpenSlot == pendingTarget # None => draft[pendingTarget] = None

\* A slot that only keywords fill holds what the user said, or a marked default.
Accounted ==
    \A s \in KeywordSlots \ TextSlots :
        draft[s] = None \/ draft[s] = said[s] \/ s \in defaultsApplied

\* What is confirmed is the draft, and the draft was complete and consistent.
BriefIsDraft ==
    brief # None => pc = "confirmed" /\ brief = draft /\ Ok(draft)

\* The turns the driver has paid for: runDiscover counts a round before it asks.
Paid == IF driver = "discover" THEN guard ELSE guard + 1

TurnBudget ==
    /\ turns <= MaxTurns + 1
    /\ pc = "opening" => turns = 0 /\ guard = 0
    /\ pc = "outer" => driver = "discover" /\ guard <= MaxTurns /\ turns <= guard + 1
    /\ pc = "inner" => guard <= MaxTurns /\ turns <= Paid
    /\ pc = "asking" => guard <= MaxTurns /\ turns + 1 <= Paid
    /\ pc = "confirming" => driver = "discover" /\ guard <= MaxTurns /\ turns <= Paid

InterviewInv ==
    TypeOK /\ LastWordKept /\ AsksOpenSlot /\ Accounted /\ BriefIsDraft /\ TurnBudget

(***************************************************************************)
(* Lemmas about one turn.                                                  *)
(***************************************************************************)

LEMMA SlotFacts ==
    /\ Slots = {"theme", "minecraftVersion", "loader", "distribution",
                "serverPlayers", "performanceBudget", "difficulty",
                "mustHaveMechanics"}
    /\ KeywordSlots = {"minecraftVersion", "loader", "distribution",
                       "serverPlayers", "performanceBudget", "difficulty"}
    /\ KeywordSlots \subseteq Slots
    /\ \A s \in KeywordSlots : KeywordsOf[s] \subseteq Keywords
    /\ {"new", "fabric", "neoforge", "singleplayer", "server", "few", "tier"}
           \subseteq Keywords
    /\ None \notin Slots /\ None \notin Keywords /\ None \notin Texts
    /\ Empty \in Texts /\ MaxTurns \in Nat
BY ConstantsAssumption DEF Slots, Rank, KeywordSlots, KeywordsOf, Keywords

\* What is heard for a slot is a keyword or nothing.
LEMMA HeardType ==
    ASSUME NEW m \in Message, NEW s \in KeywordSlots
    PROVE  Heard(m, s) \in Keywords \cup {None}
<1> DEFINE given == {k \in m.says \cap KeywordsOf[s] : k = "tier" => pendingTarget = s}
<1>1. given \subseteq Keywords
  BY SlotFacts
<1>2. given # {} => (CHOOSE k \in given : TRUE) \in given
  OBVIOUS
<1>3. "server" \in Keywords
  BY SlotFacts
<1> QED
  BY <1>1, <1>2, <1>3 DEF Heard

LEMMA ExtractedType ==
    ASSUME NEW m \in Message, NEW s \in Slots
    PROVE  Extracted(m, s) \in Values
<1>1. m.text \in Texts
  BY DEF Message
<1>2. s \in KeywordSlots => Heard(m, s) \in Keywords \cup {None}
  BY HeardType
<1> QED
  BY <1>1, <1>2 DEF Extracted, Values

LEMMA MergedType ==
    ASSUME NEW m \in Message, draft \in [Slots -> Values]
    PROVE  Merged(m) \in [Slots -> Values]
BY ExtractedType DEF Merged

LEMMA DefaultType ==
    ASSUME NEW s \in Slots, NEW d
    PROVE  DefaultFor(s, d) \in Values
<1> USE SlotFacts DEF DefaultFor, Values
<1>1. CASE s = "loader"  BY <1>1
<1>2. CASE s # "loader"  BY <1>2
<1> QED  BY <1>1, <1>2

\* A turn keeps the draft well typed, and a default never goes to the theme.
LEMMA AfterType ==
    ASSUME NEW m \in Message, draft \in [Slots -> Values]
    PROVE  /\ After(m) \in [Slots -> Values]
           /\ Deferred(m, Merged(m)) \subseteq Slots \ {"theme"}
<1>1. Merged(m) \in [Slots -> Values]
  BY MergedType
<1>2. After(m) \in [Slots -> Values]
  BY <1>1, DefaultType DEF After
<1>3. DefaultFor("theme", Merged(m)) = None
  BY DEF DefaultFor
<1> QED
  BY <1>2, <1>3 DEF Deferred

\* What a turn does to a slot: heard is heard; otherwise it keeps its value, or
\* was open; and a slot that only keywords fill changes by default alone.
LEMMA TurnEffect ==
    ASSUME NEW m \in Message, NEW s \in KeywordSlots, draft \in [Slots -> Values],
           AsksOpenSlot
    PROVE  /\ Heard(m, s) # None => After(m)[s] = Heard(m, s)
           /\ Heard(m, s) = None /\ draft[s] # None => After(m)[s] = draft[s]
           /\ Heard(m, s) = None /\ s \notin TextSlots =>
                  After(m)[s] = draft[s] \/ s \in Deferred(m, Merged(m))
<1> DEFINE d == Merged(m)
<1>1. s \in Slots /\ s # "theme"
  BY SlotFacts
<1>2. d[s] = IF Extracted(m, s) # None THEN Extracted(m, s) ELSE draft[s]
  BY <1>1 DEF Merged
<1>3. After(m)[s] = IF s \in Deferred(m, d) THEN DefaultFor(s, d) ELSE d[s]
  BY <1>1 DEF After
<1>4. d[s] # None => s \notin Deferred(m, d)
  BY DEF Deferred
<1>5. ASSUME Heard(m, s) # None PROVE After(m)[s] = Heard(m, s)
  <2>1. Extracted(m, s) = Heard(m, s)
    BY <1>5, <1>1 DEF Extracted
  <2> QED
    BY <2>1, <1>2, <1>3, <1>4, <1>5
<1>6. ASSUME Heard(m, s) = None, draft[s] # None PROVE After(m)[s] = draft[s]
  <2>1. pendingTarget # s
    BY <1>6, <1>1, SlotFacts DEF AsksOpenSlot
  <2>2. Extracted(m, s) = None
    BY <1>6, <1>1, <2>1 DEF Extracted
  <2> QED
    BY <2>2, <1>2, <1>3, <1>4, <1>6
<1>7. ASSUME Heard(m, s) = None, s \notin TextSlots
      PROVE  After(m)[s] = draft[s] \/ s \in Deferred(m, d)
  <2>1. Extracted(m, s) = None
    BY <1>7, <1>1 DEF Extracted
  <2> QED
    BY <2>1, <1>2, <1>3
<1> HIDE DEF d
<1> QED
  BY <1>5, <1>6, <1>7 DEF d

\* What one turn keeps, whoever drives it.
LEMMA TurnKeeps ==
    ASSUME NEW m \in Message, InterviewInv, ApplyTurn(m)
    PROVE  /\ draft' \in [Slots -> Values]
           /\ defaultsApplied' \subseteq Slots \ {"theme"}
           /\ pendingTarget' \in Slots \cup {None}
           /\ turns' = turns + 1 /\ turns' \in Nat
           /\ said' \in [KeywordSlots -> Keywords \cup {None}]
           /\ LastWordKept' /\ AsksOpenSlot' /\ Accounted'
<1> USE DEF InterviewInv
<1>1. draft \in [Slots -> Values] /\ AsksOpenSlot
  BY DEF TypeOK
<1>2. draft' = After(m) /\ defaultsApplied' = defaultsApplied \cup Deferred(m, Merged(m))
  BY DEF ApplyTurn
<1>3. said' = [s \in KeywordSlots |-> IF Heard(m, s) # None THEN Heard(m, s) ELSE said[s]]
  BY DEF ApplyTurn
<1>4. draft' \in [Slots -> Values] /\ defaultsApplied' \subseteq Slots \ {"theme"}
  BY <1>1, <1>2, AfterType DEF TypeOK
<1>5. pendingTarget' \in NextTarget(draft')
  BY DEF ApplyTurn
<1>6. pendingTarget' \in Slots \cup {None} /\ AsksOpenSlot'
  BY <1>5 DEF NextTarget, Missing, AsksOpenSlot
<1>7. turns' = turns + 1 /\ turns' \in Nat
  BY DEF ApplyTurn, TypeOK
<1>8. said' \in [KeywordSlots -> Keywords \cup {None}]
  BY <1>3, HeardType DEF TypeOK
<1>9. LastWordKept'
  <2> SUFFICES ASSUME NEW s \in KeywordSlots, said'[s] # None
               PROVE  draft'[s] = said'[s]
    BY DEF LastWordKept
  <2>1. CASE Heard(m, s) # None
    BY <2>1, <1>1, <1>2, <1>3, TurnEffect
  <2>2. CASE Heard(m, s) = None
    <3>1. said'[s] = said[s] /\ draft[s] = said[s]
      BY <2>2, <1>3 DEF LastWordKept
    <3> QED
      BY <3>1, <2>2, <1>1, <1>2, TurnEffect
  <2> QED
    BY <2>1, <2>2
<1>10. Accounted'
  <2> SUFFICES ASSUME NEW s \in KeywordSlots \ TextSlots
               PROVE  draft'[s] = None \/ draft'[s] = said'[s] \/ s \in defaultsApplied'
    BY DEF Accounted
  <2>1. CASE Heard(m, s) # None
    BY <2>1, <1>1, <1>2, <1>3, TurnEffect
  <2>2. CASE Heard(m, s) = None
    <3>1. said'[s] = said[s]
      BY <2>2, <1>3
    <3>2. draft'[s] = draft[s] \/ s \in defaultsApplied'
      BY <2>2, <1>1, <1>2, TurnEffect
    <3> QED
      BY <3>1, <3>2, <1>2 DEF Accounted
  <2> QED
    BY <2>1, <2>2
<1> QED
  BY <1>4, <1>6, <1>7, <1>8, <1>9, <1>10

(***************************************************************************)
(* The invariant.                                                          *)
(***************************************************************************)

LEMMA InitInv == Init => InterviewInv
BY SlotFacts DEF Init, InterviewInv, TypeOK, LastWordKept, AsksOpenSlot, Accounted,
                 BriefIsDraft, TurnBudget, Paid, Values

\* Nothing that a step of the driver leaves alone is lost.
LEMMA DriverKeeps ==
    ASSUME InterviewInv, UNCHANGED session
    PROVE  LastWordKept' /\ AsksOpenSlot' /\ Accounted'
BY DEF InterviewInv, session, LastWordKept, AsksOpenSlot, Accounted

LEMMA NextInv == InterviewInv /\ [Next]_vars => InterviewInv'
<1> SUFFICES ASSUME InterviewInv, [Next]_vars PROVE InterviewInv'
  OBVIOUS
<1> USE DEF InterviewInv
<1> USE SlotFacts
<1>0. BriefIsDraft /\ TypeOK /\ TurnBudget
  OBVIOUS
<1>1. ASSUME NEW m \in Message, Opening(m) PROVE InterviewInv'
  <2>1. ApplyTurn(m) /\ pc = "opening" /\ brief = None /\ UNCHANGED <<driver, guard, brief>>
    BY <1>1, <1>0 DEF Opening, BriefIsDraft
  <2>2. TypeOK'
    BY <2>1, <1>1, TurnKeeps DEF TypeOK, Opening
  <2>3. TurnBudget'
    BY <2>1, <1>1, TurnKeeps DEF TypeOK, Opening, TurnBudget, Paid
  <2> QED
    BY <2>1, <2>2, <2>3, TurnKeeps DEF BriefIsDraft
<1>2. ASSUME NEW m \in Message, Answer(m) PROVE InterviewInv'
  <2>1. ApplyTurn(m) /\ pc = "asking" /\ brief = None /\ UNCHANGED <<driver, guard, brief>>
    BY <1>2, <1>0 DEF Answer, BriefIsDraft
  <2>2. TypeOK'
    BY <2>1, <1>2, TurnKeeps DEF TypeOK, Answer
  <2>3. TurnBudget'
    BY <2>1, <1>2, TurnKeeps DEF TypeOK, Answer, TurnBudget, Paid
  <2> QED
    BY <2>1, <2>2, <2>3, TurnKeeps DEF BriefIsDraft
<1>3. ASSUME NEW m \in Message, Revise(m) PROVE InterviewInv'
  <2>1. ApplyTurn(m) /\ pc = "confirming" /\ brief = None /\ UNCHANGED <<driver, guard, brief>>
    BY <1>3, <1>0 DEF Revise, BriefIsDraft
  <2>2. TypeOK'
    BY <2>1, <1>3, TurnKeeps DEF TypeOK, Revise
  <2>3. TurnBudget'
    BY <2>1, <1>3, TurnKeeps DEF TypeOK, Revise, TurnBudget, Paid
  <2> QED
    BY <2>1, <2>2, <2>3, TurnKeeps DEF BriefIsDraft
<1>4. ASSUME Outer PROVE InterviewInv'
  <2>1. TypeOK' /\ TurnBudget'
    BY <1>4, <1>0 DEF Outer, TypeOK, TurnBudget, Paid, session
  <2>2. BriefIsDraft'
    BY <1>4, <1>0 DEF Outer, BriefIsDraft, session
  <2> QED
    BY <2>1, <2>2, <1>4, DriverKeeps DEF Outer
<1>5. ASSUME Inner PROVE InterviewInv'
  <2>1. TypeOK' /\ TurnBudget'
    BY <1>5, <1>0 DEF Inner, TypeOK, TurnBudget, Paid, session
  <2>2. BriefIsDraft'
    BY <1>5, <1>0 DEF Inner, BriefIsDraft, session
  <2> QED
    BY <2>1, <2>2, <1>5, DriverKeeps DEF Inner
<1>6. ASSUME Done PROVE InterviewInv'
  <2>1. TypeOK' /\ TurnBudget'
    BY <1>6, <1>0 DEF Done, TypeOK, TurnBudget, Paid, session
  <2>2. BriefIsDraft'
    BY <1>6, <1>0 DEF Done, BriefIsDraft, session, Ok, Missing, Consistent, Supported,
                      ServerSide
  <2> QED
    BY <2>1, <2>2, <1>6, DriverKeeps DEF Done
<1>7. ASSUME UserConfirms PROVE InterviewInv'
  <2>1. TypeOK' /\ TurnBudget'
    BY <1>7, <1>0 DEF UserConfirms, TypeOK, TurnBudget, Paid, session
  <2>2. BriefIsDraft'
    BY <1>7, <1>0 DEF UserConfirms, BriefIsDraft, session, Ok, Missing, Consistent,
                      Supported, ServerSide
  <2> QED
    BY <2>1, <2>2, <1>7, DriverKeeps DEF UserConfirms
<1>8. ASSUME UserDeclines PROVE InterviewInv'
  <2>1. TypeOK' /\ TurnBudget'
    BY <1>8, <1>0 DEF UserDeclines, TypeOK, TurnBudget, Paid, session
  <2>2. BriefIsDraft'
    BY <1>8, <1>0 DEF UserDeclines, BriefIsDraft, session
  <2> QED
    BY <2>1, <2>2, <1>8, DriverKeeps DEF UserDeclines
<1>9. ASSUME UNCHANGED vars PROVE InterviewInv'
  <2>1. TypeOK' /\ TurnBudget'
    BY <1>9, <1>0 DEF vars, session, TypeOK, TurnBudget, Paid
  <2>2. BriefIsDraft'
    BY <1>9, <1>0 DEF vars, session, BriefIsDraft, Ok, Missing, Consistent, Supported,
                      ServerSide
  <2> QED
    BY <2>1, <2>2, <1>9, DriverKeeps DEF vars
<1> QED
  BY <1>1, <1>2, <1>3, <1>4, <1>5, <1>6, <1>7, <1>8, <1>9 DEF Next, Converse, Over

LEMMA InterviewInvariant == Spec => []InterviewInv
BY InitInv, NextInv, PTL DEF Spec

(***************************************************************************)
(* The theorems.                                                           *)
(***************************************************************************)

\* The interview's state stays well typed, and the theme is never a default.
THEOREM TypeCorrect == Spec => []TypeOK
<1>1. InterviewInv => TypeOK  BY DEF InterviewInv
<1> QED  BY <1>1, InterviewInvariant, PTL

\* What the user gave last by keyword stays in the draft, over any questions,
\* defaults, conflicts and revisions (applyTurn's merge and applyDefault).
THEOREM LastWordStands == Spec => []LastWordKept
<1>1. InterviewInv => LastWordKept  BY DEF InterviewInv
<1> QED  BY <1>1, InterviewInvariant, PTL

\* A confirmed brief is complete and consistent, and marks what the user did not
\* give (confirm, and defaultsApplied).
THEOREM BriefIsAccountedFor == Spec => []BriefAccountedFor
<1>1. InterviewInv => BriefAccountedFor
  BY DEF InterviewInv, BriefIsDraft, Accounted, BriefAccountedFor, Ok
<1> QED  BY <1>1, InterviewInvariant, PTL

\* However the user answers, there are at most MaxTurns + 1 turns (the guards of
\* runDiscover and discoverBrief).
THEOREM QuestionsAreBounded == Spec => []TurnsBounded
<1>1. InterviewInv => TurnsBounded  BY DEF InterviewInv, TurnBudget, TurnsBounded
<1> QED  BY <1>1, InterviewInvariant, PTL

-----------------------------------------------------------------------------
(* Conflicts.                                                              *)

\* While the draft has a conflict no slot is asked for, so a message is read
\* for keywords only and no text changes but the theme.
ConflictAsksNothing == ~Consistent(draft) => pendingTarget = None

LEMMA ConflictAsked == Spec => []ConflictAsksNothing
<1>1. Init => ConflictAsksNothing
  BY SlotFacts DEF Init, ConflictAsksNothing, Consistent, Supported, ServerSide
<1>2. ASSUME NEW m \in Message, ApplyTurn(m) PROVE ConflictAsksNothing'
  <2>1. Consistent(draft)' <=> Consistent(draft')
    BY DEF Consistent, Supported, ServerSide
  <2> QED
    BY <1>2, <2>1 DEF ApplyTurn, NextTarget, ConflictAsksNothing
<1>3. ASSUME ConflictAsksNothing, UNCHANGED session PROVE ConflictAsksNothing'
  BY <1>3 DEF session, ConflictAsksNothing, Consistent, Supported, ServerSide
<1>4. ASSUME ConflictAsksNothing, [Next]_vars PROVE ConflictAsksNothing'
  BY <1>2, <1>3, <1>4
  DEF Next, Converse, Over, vars, Opening, Answer, Revise, Outer, Inner, Done,
      UserConfirms, UserDeclines
<1> QED
  BY <1>1, <1>4, PTL DEF Spec

\* A message that is one keyword.
Just(k, t) == [says |-> {k}, text |-> t, unsure |-> FALSE]

\* What such a message does while nothing is asked for.
LEMMA OneKeyword ==
    ASSUME MaxMentions # 0, NEW t \in Texts, t # Empty,
           NEW k \in {"fabric", "singleplayer"}, pendingTarget = None
    PROVE  /\ Just(k, t) \in Message
           /\ \A s \in {"loader", "minecraftVersion", "distribution"} :
                After(Just(k, t))[s] = IF k \in KeywordsOf[s] THEN k ELSE draft[s]
           /\ After(Just(k, t))["mustHaveMechanics"] = draft["mustHaveMechanics"]
<1> DEFINE m == Just(k, t)
<1>1. m \in Message
  <2>1. {k} \in SUBSET Keywords
    BY DEF Keywords, KeywordSlots, KeywordsOf
  <2>2. IsFiniteSet({k}) /\ Cardinality({k}) = 1
    BY FS_Singleton
  <2>3. ASSUME NEW s \in KeywordSlots PROVE Cardinality({k} \cap KeywordsOf[s]) <= 1
    <3>1. {k} \cap KeywordsOf[s] = {k} \/ {k} \cap KeywordsOf[s] = {}
      OBVIOUS
    <3>2. Cardinality({}) = 0
      BY FS_EmptySet
    <3> QED
      BY <2>2, <3>1, <3>2
  <2>4. 1 <= MaxMentions
    BY ConstantsAssumption DEF ConstantsAssumption
  <2> QED
    BY <2>1, <2>2, <2>3, <2>4 DEF Message, Mentions, Just
<1>2. Deferred(m, Merged(m)) = {}
  BY SlotFacts DEF Deferred, Just
<1>3. ASSUME NEW s \in Slots
      PROVE  After(m)[s] = IF Extracted(m, s) # None THEN Extracted(m, s) ELSE draft[s]
  BY <1>2 DEF After, Merged
<1>4. Extracted(m, "mustHaveMechanics") = None
  BY SlotFacts DEF Extracted
<1>5. ASSUME NEW s \in {"loader", "minecraftVersion", "distribution"}
      PROVE  /\ s \in KeywordSlots /\ s \notin TextSlots /\ s # "theme"
             /\ Heard(m, s) = IF k \in KeywordsOf[s] THEN k ELSE None
  <2>1. s \in KeywordSlots /\ s \notin TextSlots /\ s # "theme"
    BY SlotFacts DEF TextSlots
  <2>2. "few" \notin m.says /\ m.says = {k} /\ k # "tier"
    BY DEF Just
  <2>3. {x \in m.says \cap KeywordsOf[s] : x = "tier" => pendingTarget = s}
          = IF k \in KeywordsOf[s] THEN {k} ELSE {}
    BY <2>2
  <2> QED
    BY <2>1, <2>2, <2>3 DEF Heard
<1>6. ASSUME NEW s \in {"loader", "minecraftVersion", "distribution"}
      PROVE  Extracted(m, s) = Heard(m, s)
  BY <1>5, SlotFacts DEF Extracted
<1>7. k # None
  BY SlotFacts
<1> QED
  BY <1>1, <1>3, <1>4, <1>5, <1>6, <1>7, SlotFacts

\* No conflict between what the user asked for is a dead end: if a message may
\* have a keyword at all, one keyword resolves it and leaves the other check as
\* it was (the keywords are read whatever was asked, and a conflict asks for no
\* slot, which keeps the texts).
THEOREM ConflictsAreResolvable ==
    ASSUME MaxMentions # 0, Texts # {Empty}
    PROVE  Spec => []ConflictsResolvable
<1>1. ASSUME ConflictAsksNothing PROVE ConflictsResolvable
  <2>1. PICK t \in Texts : t # Empty
    BY ConstantsAssumption DEF ConstantsAssumption
  <2>2. /\ "fabric" \in KeywordsOf["loader"]
        /\ "fabric" \notin KeywordsOf["minecraftVersion"]
        /\ "fabric" \notin KeywordsOf["distribution"]
        /\ "singleplayer" \in KeywordsOf["distribution"]
        /\ "singleplayer" \notin KeywordsOf["loader"]
        /\ "singleplayer" \notin KeywordsOf["minecraftVersion"]
    BY DEF KeywordsOf
  <2>3. ASSUME ~Supported(draft)
        PROVE  \E m \in Message : /\ Supported(After(m))
                                  /\ ServerSide(draft) => ServerSide(After(m))
    <3>1. pendingTarget = None
      BY <1>1, <2>3 DEF ConflictAsksNothing, Consistent
    <3>2. /\ Just("fabric", t) \in Message
          /\ After(Just("fabric", t))["loader"] = "fabric"
          /\ After(Just("fabric", t))["distribution"] = draft["distribution"]
          /\ After(Just("fabric", t))["mustHaveMechanics"] = draft["mustHaveMechanics"]
      BY <3>1, <2>1, <2>2, OneKeyword
    <3> QED
      BY <3>2 DEF Supported, ServerSide
  <2>4. ASSUME ~ServerSide(draft)
        PROVE  \E m \in Message : /\ ServerSide(After(m))
                                  /\ Supported(draft) => Supported(After(m))
    <3>1. pendingTarget = None
      BY <1>1, <2>4 DEF ConflictAsksNothing, Consistent
    <3>2. /\ Just("singleplayer", t) \in Message
          /\ After(Just("singleplayer", t))["distribution"] = "singleplayer"
          /\ After(Just("singleplayer", t))["loader"] = draft["loader"]
          /\ After(Just("singleplayer", t))["minecraftVersion"] = draft["minecraftVersion"]
      BY <3>1, <2>1, <2>2, OneKeyword
    <3> QED
      BY <3>2 DEF Supported, ServerSide
  <2> QED
    BY <2>3, <2>4 DEF ConflictsResolvable
<1> QED
  BY <1>1, ConflictAsked, PTL

=============================================================================
