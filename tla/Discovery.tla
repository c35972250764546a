----------------------------- MODULE Discovery -----------------------------
(***************************************************************************)
(* The interview that leads to a brief: applyTurn and confirm              *)
(* (src/src/core/discovery/session.ts) with the keyword extractor, the     *)
(* defaults, the validation and the choice of the next question, driven by *)
(* runDiscover (src/src/cli/commands/discover.ts) or by the assistant's    *)
(* deterministic pass (core/assistant/fallback.ts, discoverBrief).         *)
(*                                                                         *)
(* A slot holds a member of a small set: a version is older than the first *)
(* NeoForge or not, a loader is NeoForge or not, a text is told apart only *)
(* where the code does.  Difficulty stands for playstyle too: both take a  *)
(* keyword or a text, and no check reads them.  The hint of a light pack   *)
(* is read off the theme.                                                  *)
(***************************************************************************)
EXTENDS Naturals, FiniteSets

CONSTANTS
    Texts,          \* what a message may read like, apart from its keywords
    Empty,          \* the empty line, one of them
    LightTexts,     \* those that hint at a light pack
    ClientTexts,    \* those that name a client-only mod
    None,           \* a slot not filled, and no slot expected
    MaxMentions,    \* bound: keywords in one message
    MaxTurns        \* the maxTurns option

\* SLOT_PRIORITY: the order in which missing slots are asked for.
Rank == [theme |-> 1, minecraftVersion |-> 2, loader |-> 3, distribution |-> 4,
         serverPlayers |-> 5, performanceBudget |-> 6, difficulty |-> 7,
         mustHaveMechanics |-> 8]
Slots == DOMAIN Rank
TextSlots == {"theme", "difficulty", "mustHaveMechanics"}

\* The keywords of a slot, which fill it in any message; a tier only says how
\* much memory when that was the question.
KeywordsOf == [minecraftVersion  |-> {"old", "new"},
               loader            |-> {"neoforge", "fabric"},
               distribution      |-> {"singleplayer", "server"},
               serverPlayers     |-> {"few"},
               performanceBudget |-> {"ram", "tier"},
               difficulty        |-> {"hard"}]
KeywordSlots == DOMAIN KeywordsOf
Keywords == UNION {KeywordsOf[s] : s \in KeywordSlots}
Values == Keywords \cup Texts \cup {"normal", None}

ASSUME ConstantsAssumption ==
    /\ Empty \in Texts
    /\ None \notin Texts \cup Keywords \cup Slots \cup {"normal"}
    /\ MaxMentions \in Nat
    /\ MaxTurns \in Nat

VARIABLES
    pc,
    driver,         \* who asks: "discover" or "fallback"
    draft,          \* the value of each slot, or None
    defaultsApplied,
    pendingTarget,  \* the slot the last question asked for, or None
    turns,
    guard,          \* the driver's count
    brief,          \* what was confirmed, or None
    said            \* history: what the user gave last by keyword, per slot

session == <<draft, defaultsApplied, pendingTarget, turns, said>>
vars == <<pc, driver, session, guard, brief>>

\* A message: the keywords in it, what it reads like otherwise, and whether it
\* says "not sure".
Mentions ==
    {K \in SUBSET Keywords :
        /\ Cardinality(K) <= MaxMentions
        /\ \A s \in KeywordSlots : Cardinality(K \cap KeywordsOf[s]) <= 1}
Message ==
    {m \in [says : Mentions, text : Texts, unsure : BOOLEAN] :
        m.text = Empty => m.says = {} /\ ~m.unsure}

Init ==
    /\ pc = "opening"
    /\ driver \in {"discover", "fallback"}
    /\ draft = [s \in Slots |-> None]
    /\ defaultsApplied = {}
    /\ pendingTarget = None
    /\ turns = 0
    /\ guard = 0
    /\ brief = None
    /\ said = [s \in KeywordSlots |-> None]

-----------------------------------------------------------------------------
(* One turn.                                                               *)

\* Mutant of Heard: a keyword counts only as the answer to a question for it.
HeardIfAsked(m, s) ==
    IF pendingTarget = s /\ m.says \cap KeywordsOf[s] # {}
    THEN CHOOSE k \in m.says \cap KeywordsOf[s] : TRUE ELSE None

\* What a message gives for a slot by keyword, or None.  A count of players
\* speaks of a server.
Heard(m, s) ==
    LET given == {k \in m.says \cap KeywordsOf[s] : k = "tier" => pendingTarget = s}
    IN CASE s = "distribution" /\ "few" \in m.says -> "server"
         [] given # {} /\ ~(s = "distribution" /\ "few" \in m.says) ->
                CHOOSE k \in given : TRUE
         [] OTHER -> None

\* KeywordSlotExtractor.extract: what each slot becomes, or None.  The answer
\* to a question for a text is taken as it is, and so is the first message.
Extracted(m, s) ==
    CASE s \in KeywordSlots /\ Heard(m, s) # None -> Heard(m, s)
      [] /\ s \in TextSlots /\ (s \in KeywordSlots => Heard(m, s) = None)
         /\ pendingTarget = s /\ ~m.unsure -> m.text
      [] /\ s = "theme" /\ pendingTarget = None /\ draft["theme"] = None
         /\ m.text # Empty -> m.text
      [] OTHER -> None

Merged(m) ==
    [s \in Slots |-> IF Extracted(m, s) # None THEN Extracted(m, s) ELSE draft[s]]

\* defaultFor; the user alone can give a theme.
DefaultFor(s, d) ==
    CASE s = "theme"             -> None
      [] s = "minecraftVersion"  -> "new"
      [] s = "loader"            -> IF d["theme"] \in LightTexts
                                    THEN "fabric" ELSE "neoforge"
      [] s = "distribution"      -> "singleplayer"
      [] s = "serverPlayers"     -> "few"
      [] s = "performanceBudget" -> "tier"
      [] s = "difficulty"        -> "normal"
      [] s = "mustHaveMechanics" -> Empty

\* Mutants of Deferred: the default replaces what the same message gives; a
\* slot without a default is filled all the same.
DeferredOver(m, d) ==
    {s \in Slots : m.unsure /\ s = pendingTarget /\ DefaultFor(s, d) # None}
DeferredAny(m, d) == {s \in Slots : m.unsure /\ s = pendingTarget /\ d[s] = None}

\* The slots a default fills: the one asked for, if the user is not sure, it is
\* still open and there is a default.
Deferred(m, d) ==
    {s \in Slots : /\ m.unsure /\ s = pendingTarget
                   /\ d[s] = None
                   /\ DefaultFor(s, d) # None}

\* The draft once the message is merged and the default applied.
After(m) ==
    LET d == Merged(m)
        deferred == Deferred(m, d)
    IN [s \in Slots |-> IF s \in deferred THEN DefaultFor(s, d) ELSE d[s]]

\* validateBrief: what is missing, and what conflicts.
Missing(d) ==
    {s \in Slots : d[s] = None /\ (s = "serverPlayers" => d["distribution"] = "server")}
Supported(d) == ~(d["loader"] = "neoforge" /\ d["minecraftVersion"] = "old")
ServerSide(d) ==
    ~(d["distribution"] = "server" /\ d["mustHaveMechanics"] \in ClientTexts)
Consistent(d) == Supported(d) /\ ServerSide(d)
\* Mutant of Ok: what conflicts is shown, and passes.
OkIfComplete(d) == Missing(d) = {}
Ok(d) == Missing(d) = {} /\ Consistent(d)

\* selectNextTarget: a conflict is no slot, and comes first.
NextTarget(d) ==
    IF Missing(d) = {} \/ ~Consistent(d) THEN {None}
    ELSE {s \in Missing(d) : \A t \in Missing(d) : Rank[s] <= Rank[t]}

ApplyTurn(m) ==
    LET after == After(m) IN
    /\ draft' = after
    /\ defaultsApplied' = defaultsApplied \cup Deferred(m, Merged(m))
    /\ pendingTarget' \in NextTarget(after)
    /\ turns' = turns + 1
    /\ said' = [s \in KeywordSlots |-> IF Heard(m, s) # None THEN Heard(m, s)
                                       ELSE said[s]]

-----------------------------------------------------------------------------
(* The conversation.                                                       *)

Opening(m) ==
    /\ pc = "opening"
    /\ ApplyTurn(m)
    /\ pc' = IF driver = "discover" THEN "outer" ELSE "inner"
    /\ UNCHANGED <<driver, guard, brief>>

\* while (guard++ < maxTurns) around the confirmation.
Outer ==
    /\ pc = "outer"
    /\ guard' = guard + 1
    /\ pc' = IF guard < MaxTurns THEN "inner" ELSE "unfinished"
    /\ UNCHANGED <<driver, session, brief>>

\* Mutants of Inner: the questions are not counted; the limit is not acted on.
InnerUncounted ==
    /\ pc = "inner"
    /\ ~Ok(draft)
    /\ pc' = "asking"
    /\ UNCHANGED <<driver, session, guard, brief>>
InnerSpins ==
    /\ pc = "inner"
    /\ ~Ok(draft)
    /\ guard' = IF guard < MaxTurns THEN guard + 1 ELSE guard
    /\ pc' = IF guard < MaxTurns THEN "asking" ELSE "inner"
    /\ UNCHANGED <<driver, session, brief>>

\* while (target is not done && guard++ < maxTurns) around the questions.
Inner ==
    /\ pc = "inner"
    /\ ~Ok(draft)
    /\ guard' = guard + 1
    /\ pc' = IF guard < MaxTurns THEN "asking" ELSE "unfinished"
    /\ UNCHANGED <<driver, session, brief>>

Answer(m) ==
    /\ pc = "asking"
    /\ ApplyTurn(m)
    /\ pc' = "inner"
    /\ UNCHANGED <<driver, guard, brief>>

\* The brief is shown for confirmation; the deterministic pass just takes it.
Done ==
    /\ pc = "inner"
    /\ Ok(draft)
    /\ IF driver = "discover"
       THEN pc' = "confirming" /\ UNCHANGED brief
       ELSE pc' = "confirmed" /\ brief' = draft
    /\ UNCHANGED <<driver, session, guard>>

UserConfirms ==
    /\ pc = "confirming"
    /\ Ok(draft)
    /\ brief' = draft
    /\ pc' = "confirmed"
    /\ UNCHANGED <<driver, session, guard>>

UserDeclines ==
    /\ pc = "confirming"
    /\ pc' = "unfinished"
    /\ UNCHANGED <<driver, session, guard, brief>>

\* Any other answer is a revision.
Revise(m) ==
    /\ pc = "confirming"
    /\ ApplyTurn(m)
    /\ pc' = "outer"
    /\ UNCHANGED <<driver, guard, brief>>

Converse ==
    \/ /\ pc \in {"opening", "asking", "confirming"}
       /\ \E m \in Message : Opening(m) \/ Answer(m) \/ Revise(m)
    \/ Outer \/ Inner \/ Done
    \/ UserConfirms \/ UserDeclines

Over == pc \in {"confirmed", "unfinished"} /\ UNCHANGED vars

Next == Converse \/ Over

Spec == Init /\ [][Next]_vars

\* A user who is asked answers; at the end of piped input every answer is "".
FairSpec == Spec /\ WF_vars(Converse)

-----------------------------------------------------------------------------
(* Properties.                                                             *)

TypeOK ==
    /\ pc \in {"opening", "outer", "inner", "asking", "confirming", "confirmed",
               "unfinished"}
    /\ driver \in {"discover", "fallback"}
    /\ draft \in [Slots -> Values]
    /\ defaultsApplied \subseteq Slots \ {"theme"}
    /\ pendingTarget \in Slots \cup {None}
    /\ turns \in Nat /\ guard \in Nat
    /\ brief \in [Slots -> Values] \cup {None}
    /\ said \in [KeywordSlots -> Keywords \cup {None}]

\* What the user gave last by keyword is in the draft, whatever was asked,
\* deferred, defaulted or revised since.
LastWordKept ==
    \A s \in KeywordSlots : said[s] # None => draft[s] = said[s]

\* A confirmed brief is complete and consistent, and whatever the user did not
\* give is marked as a default.
BriefAccountedFor ==
    brief # None =>
        /\ Missing(brief) = {} /\ Consistent(brief)
        /\ \A s \in KeywordSlots \ TextSlots :
            brief[s] # None => brief[s] = said[s] \/ s \in defaultsApplied

\* The questions end: with the opening and the revisions there are at most
\* MaxTurns + 1 turns, however long the user goes on.
TurnsBounded == turns <= MaxTurns + 1

\* No conflict is a dead end: some message resolves it and leaves the other
\* check as it was.
ConflictsResolvable ==
    /\ ~Supported(draft) =>
        \E m \in Message : /\ Supported(After(m))
                           /\ ServerSide(draft) => ServerSide(After(m))
    /\ ~ServerSide(draft) =>
        \E m \in Message : /\ ServerSide(After(m))
                           /\ Supported(draft) => Supported(After(m))

\* The conversation ends.
ConversationEnds == pc = "opening" ~> pc \in {"confirmed", "unfinished"}
=============================================================================
