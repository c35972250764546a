----------------------------- MODULE Authoring -----------------------------
(***************************************************************************)
(* The quests and kubejs commands: a definition is given, or drafted by a  *)
(* language model from a description, in a bounded loop that feeds the     *)
(* validator's findings back; what is accepted is planned and written      *)
(* (src/src/core/authoring/draft.ts, src/src/cli/commands/quests.ts and    *)
(* kubejs.ts, src/src/integration/nvidia and google).                      *)
(*                                                                         *)
(* The provider may be busy, fail, or answer anything.  The checks of the  *)
(* definitions are those of Definitions.  Icons, counts and titles are     *)
(* left out, and so is the parse-back, which the emitters never fail.      *)
(***************************************************************************)
EXTENDS Definitions

CONSTANTS
    QuestDefs,      \* the quest definitions that are given or drafted
    ScriptDefs,     \* the script definitions
    Supplied,       \* the quest definitions that --quests may read
    Namespaces,     \* the namespaces of the pack's mods
    Attempts,       \* values of --attempts
    NotANumber,     \* the value of one that does not parse
    EmptyText,      \* a reply without text
    Prose,          \* one that is not JSON
    Names,          \* file names
    MaxRetries,     \* requests repeated for one completion
    MaxCommands     \* bound: commands run

ASSUME AuthoringAssumption ==
    /\ Attempts \subseteq Nat \cup {NotANumber}
    /\ MaxRetries \in Nat /\ MaxCommands \in Nat
    /\ \A def \in QuestDefs : QuestShape(def)
    /\ \A def \in ScriptDefs : IsSequence(def)
    /\ \A def \in QuestDefs \cup ScriptDefs : \A i \in DOMAIN def : def[i].filename \in Names

VARIABLES
    pc,         \* where the command is
    cmd,        \* its options
    ran,        \* how many have run
    attempt,    \* completions asked for
    tries,      \* requests made again for this one
    messages,   \* the conversation
    reply,      \* what the model answered last
    draft,      \* the last definition, its findings, or the error
    outcome,    \* how the last command ended
    disk,       \* the chapters and scripts of the instance
    whole       \* history: of each kind, the files of the last write if it was
                \* not cut short

loop == <<attempt, tries, messages>>
instance == <<disk, whole>>
vars == <<pc, cmd, ran, loop, reply, draft, outcome, instance>>

Kinds == {"quests", "kubejs"}
Defs(kind) == IF kind = "quests" THEN QuestDefs ELSE ScriptDefs
Unparsable == {EmptyText, Prose}

\* A completion: how many tool calls it has, and the first one's arguments,
\* or without a call its text.
Replies(kind) ==
    [calls : 0..2, payload : Defs(kind) \cup Unparsable \cup {Misshapen}]

Command ==
    [kind : Kinds, described : BOOLEAN, attempts : Attempts,
     quests : Supplied \cup {Missing}, apply : BOOLEAN, force : BOOLEAN]

ASSUME MissingAssumption == Missing \notin Command

NoDraft == [definition |-> Missing, findings |-> {}, error |-> FALSE]

Init ==
    /\ pc = "idle"
    /\ cmd = Missing
    /\ ran = 0
    /\ attempt = 0 /\ tries = 0 /\ messages = <<>>
    /\ reply = Missing
    /\ draft = NoDraft
    /\ outcome = "none"
    /\ disk = [p \in Kinds \X Names |-> Missing]
    /\ whole = [kind \in Kinds |-> <<>>]

Says(role) == [role |-> role, calls |-> 0]

-----------------------------------------------------------------------------
\* The locals of the loop go with the command.
Ends(how) ==
    /\ pc' = "idle" /\ outcome' = how
    /\ attempt' = 0 /\ tries' = 0 /\ messages' = <<>>

\* A promise is rejected: main prints the error.
Throws == Ends("thrown") /\ UNCHANGED <<cmd, ran, instance>>

Findings(def) ==
    IF cmd.kind = "quests" THEN QuestFindings(def, Namespaces)
    ELSE ScriptFindings(def, cmd.quests, Namespaces)

\* generateQuests, generateScripts: the files are returned only if nothing is
\* found, and a definition without the shape of one is not found but thrown at.
Crashes(def) ==
    IF def = Misshapen THEN TRUE
    ELSE cmd.kind = "quests" /\ Findings(def) = {} /\ ~QuestsSerialize(def)
Accepted(def) == ~Crashes(def) /\ Findings(def) = {}

\* Math.max(1, attempts); no loop turn is made for a NaN.
MaxAttempts(c) ==
    CASE c.attempts = NotANumber -> 0
      [] c.attempts = 0 -> 1
      [] OTHER -> c.attempts

Start(c) ==
    /\ pc = "idle" /\ ran < MaxCommands
    /\ c.kind = "quests" => c.quests = Missing
    /\ cmd' = c
    /\ ran' = ran + 1
    /\ reply' = Missing
    /\ draft' = NoDraft
    /\ UNCHANGED instance

\* --describe without a key of a provider.
NoModel(c) ==
    /\ c.described
    /\ Start(c)
    /\ Ends("no model")

Describe(c) ==
    /\ c.described
    /\ Start(c)
    /\ IF MaxAttempts(c) = 0 THEN Ends("invalid")
       ELSE /\ pc' = "asking"
            /\ attempt' = 1
            /\ messages' = <<Says("system"), Says("user")>>
            /\ outcome' = "none"
            /\ UNCHANGED tries

\* --def; the file was read, and --attempts is not.
Define(c) ==
    /\ ~c.described
    /\ c.attempts = NotANumber
    /\ Start(c)
    /\ pc' = "given" /\ outcome' = "none"
    /\ UNCHANGED loop

-----------------------------------------------------------------------------
(* One completion: the adapter's requests.                                 *)

\* Mutant of Busy: one retry too many.
BusyOneMore ==
    /\ pc = "asking"
    /\ IF tries <= MaxRetries
       THEN pc' = "waiting" /\ UNCHANGED <<cmd, ran, loop, outcome, instance>>
       ELSE Throws
    /\ UNCHANGED <<reply, draft>>

\* 429 or 5xx: wait and ask again, a bounded number of times.
Busy ==
    /\ pc = "asking"
    /\ IF tries < MaxRetries
       THEN pc' = "waiting" /\ UNCHANGED <<cmd, ran, loop, outcome, instance>>
       ELSE Throws
    /\ UNCHANGED <<reply, draft>>

\* Mutant of Awake: the wait does not count.
AwakeUncounted ==
    /\ pc = "waiting"
    /\ pc' = "asking"
    /\ UNCHANGED <<cmd, ran, loop, reply, draft, outcome, instance>>

Awake ==
    /\ pc = "waiting"
    /\ pc' = "asking"
    /\ tries' = tries + 1
    /\ UNCHANGED <<cmd, ran, attempt, messages, reply, draft, outcome, instance>>

\* Another status, no network, or a turn with neither text nor call.
Fails ==
    /\ pc = "asking"
    /\ Throws
    /\ UNCHANGED <<reply, draft>>

\* Mutant of RepairTurn: only the call that was read is answered.
RepairTurnFirst(r) ==
    IF r.calls > 0
    THEN <<[role |-> "assistant", calls |-> r.calls], [role |-> "tool", calls |-> 1]>>
    ELSE (IF r.payload = EmptyText THEN <<>> ELSE <<Says("assistant")>>) \o <<Says("user")>>

\* appendRepairTurn: every call is answered, or the user asks again.
RepairTurn(r) ==
    IF r.calls > 0
    THEN <<[role |-> "assistant", calls |-> r.calls]>>
         \o [i \in 1..r.calls |-> [role |-> "tool", calls |-> i]]
    ELSE (IF r.payload = EmptyText THEN <<>> ELSE <<Says("assistant")>>) \o <<Says("user")>>

\* Mutant of Rejected: the findings of an earlier draft stay.
RejectedStale(r) ==
    IF r.payload \in Unparsable
    THEN [draft EXCEPT !.error = TRUE]
    ELSE [definition |-> r.payload, findings |-> Findings(r.payload), error |-> FALSE]

\* What is remembered of a draft that is not accepted.
Rejected(r) ==
    IF r.payload \in Unparsable
    THEN [definition |-> Missing, findings |-> {}, error |-> TRUE]
    ELSE [definition |-> r.payload, findings |-> Findings(r.payload), error |-> FALSE]

\* Mutant of TryAgain: one draft too many.
TryAgainOneMore(r) ==
    /\ IF r.payload \in Unparsable THEN TRUE
       ELSE ~Crashes(r.payload) /\ ~Accepted(r.payload)
    /\ draft' = Rejected(r)
    /\ IF attempt <= MaxAttempts(cmd)
       THEN /\ attempt' = attempt + 1
            /\ tries' = 0
            /\ messages' = messages \o RepairTurn(r)
            /\ UNCHANGED <<pc, outcome>>
       ELSE Ends("invalid")
    /\ UNCHANGED <<cmd, ran, instance>>

\* The next turn of the loop, or the end of it.
TryAgain(r) ==
    /\ IF r.payload \in Unparsable THEN TRUE
       ELSE ~Crashes(r.payload) /\ ~Accepted(r.payload)
    /\ draft' = Rejected(r)
    /\ IF attempt < MaxAttempts(cmd)
       THEN /\ attempt' = attempt + 1
            /\ tries' = 0
            /\ messages' = messages \o RepairTurn(r)
            /\ UNCHANGED <<pc, outcome>>
       ELSE Ends("invalid")
    /\ UNCHANGED <<cmd, ran, instance>>

\* runQuests, runKubeJs: generate, and go on if nothing is found.
Generated(def) ==
    /\ Accepted(def)
    /\ draft' = [definition |-> def, findings |-> {}, error |-> FALSE]
    /\ pc' = "probing"
    /\ UNCHANGED <<cmd, ran, loop, outcome, instance>>

Drafted(r) ==
    /\ pc = "asking"
    /\ reply' = r
    /\ \/ TryAgain(r)
       \/ r.payload \notin Unparsable /\ Crashes(r.payload) /\ Throws /\ UNCHANGED draft
       \/ r.payload \notin Unparsable /\ Generated(r.payload)

GivenDef(def) ==
    /\ pc = "given"
    /\ \/ Crashes(def) /\ Throws /\ UNCHANGED draft
       \/ /\ ~Crashes(def) /\ ~Accepted(def)
          /\ draft' = [definition |-> def, findings |-> Findings(def), error |-> FALSE]
          /\ Ends("invalid")
          /\ UNCHANGED <<cmd, ran, instance>>
       \/ Generated(def)
    /\ UNCHANGED reply

-----------------------------------------------------------------------------
Path(def, i) == <<cmd.kind, def[i].filename>>
Destructive == \E i \in DOMAIN draft.definition : disk[Path(draft.definition, i)] # Missing

\* The files that exist are probed, and the plan is shown, refused or applied.
Probe ==
    /\ pc = "probing"
    /\ CASE ~cmd.apply -> Ends("shown")
         [] cmd.apply /\ Destructive /\ ~cmd.force -> Ends("refused")
         [] OTHER -> pc' = "writing" /\ UNCHANGED <<loop, outcome>>
    /\ UNCHANGED <<cmd, ran, reply, draft, instance>>

\* The files are written in order, one for each chapter or script; an error
\* leaves the rest unwritten, and a later file of a name replaces an earlier
\* one.  With a script goes what it was checked against.
Write ==
    /\ pc = "writing"
    /\ \E n \in 0..Len(draft.definition) :
        LET last(p) == {i \in 1..n : /\ Path(draft.definition, i) = p
                                    /\ \A j \in i + 1..n : Path(draft.definition, j) # p}
            all == n = Len(draft.definition)
        IN  /\ disk' = [p \in DOMAIN disk |->
                    IF last(p) = {} THEN disk[p]
                    ELSE [file |-> draft.definition[CHOOSE i \in last(p) : TRUE],
                          quests |-> cmd.quests]]
            /\ whole' = [whole EXCEPT ![cmd.kind] =
                    IF all THEN [i \in 1..n |-> draft.definition[i].filename] ELSE <<>>]
            /\ Ends(IF all THEN "written" ELSE "thrown")
    /\ UNCHANGED <<cmd, ran, reply, draft>>

Answers == Busy \/ Fails \/ \E r \in Replies(cmd.kind) : Drafted(r)
Works ==
    \/ Awake
    \/ \E def \in Defs(cmd.kind) \cup {Misshapen} : GivenDef(def)
    \/ Probe
    \/ Write

Next ==
    \/ \E c \in Command : NoModel(c) \/ Describe(c) \/ Define(c)
    \/ pc # "idle" /\ (Answers \/ Works)

\* A request is answered or fails, and the command goes on.
Spec == Init /\ [][Next]_vars /\ WF_vars(pc # "idle" /\ (Answers \/ Works))

-----------------------------------------------------------------------------
(* Properties.                                                             *)

Message == [role : {"system", "user", "assistant", "tool"}, calls : 0..2]

TypeOK ==
    /\ pc \in {"idle", "asking", "waiting", "given", "probing", "writing"}
    /\ cmd \in Command \cup {Missing}
    /\ ran \in 0..MaxCommands
    /\ attempt \in Nat
    /\ tries \in 0..MaxRetries
    /\ messages \in Seq(Message)
    /\ pc # "idle" => cmd # Missing
    /\ pc # "idle" /\ reply # Missing => reply \in Replies(cmd.kind)
    /\ outcome \in {"none", "no model", "invalid", "thrown", "shown", "refused", "written"}
    /\ \A p \in DOMAIN disk :
        disk[p] # Missing => \E def \in Defs(p[1]) : disk[p].file \in Elements(def)
    /\ whole \in [Kinds -> Seq(Names)]

\* A request carries a conversation a provider accepts: every tool call the
\* model made is answered, in order and at once, nothing else is, and the
\* model has the word (appendRepairTurn over all the turns of the loop).
TranscriptAnswered ==
    pc \in {"asking", "waiting"} =>
        /\ messages[1].role = "system"
        /\ messages[Len(messages)].role \in {"user", "tool"}
        /\ \A i \in DOMAIN messages :
            /\ messages[i].role = "assistant" =>
                \A k \in 1..messages[i].calls :
                    i + k \in DOMAIN messages /\ messages[i + k] = [role |-> "tool", calls |-> k]
            /\ messages[i].role = "tool" =>
                LET asked == messages[i - messages[i].calls]
                IN  asked.role = "assistant" /\ messages[i].calls <= asked.calls

\* Every quest can be completed: the quests have an order in which each comes
\* after those it depends on, all of them in the definition, and no two share
\* a key.
Completable(def) ==
    LET quests == QuestsOf(def)
    IN  /\ \A i, j \in DOMAIN quests : quests[i].key = quests[j].key => i = j
        /\ \E rank \in [KeysOf(quests) -> 1..Len(quests)] :
            \A q \in Elements(quests) : \A d \in Elements(Given(q.deps)) :
                d \in KeysOf(quests) /\ rank[d] < rank[q.key]

\* Every handler of a script reacts to one of these quests.
Reactive(script, quests) ==
    \A h \in Elements(Given(script.handlers)) :
        quests # Missing /\ h.quest \in KeysOf(QuestsOf(quests))

Distinct(names) == \A i, j \in DOMAIN names : names[i] = names[j] => i = j

\* The definition that the files of the last whole write make up.
OnDisk(kind) == [i \in DOMAIN whole[kind] |-> disk[<<kind, whole[kind][i]>>].file]

\* What the instance holds loads and works, whoever wrote the definition and
\* however many drafts it took.  The chapters a quests command wrote can be
\* completed as they are read back from the files, until the next one writes:
\* no quest waits for one that is not in them.  This is of a write that was not
\* cut short, and of chapters of different file names, on which nothing insists;
\* chapters of other names that an earlier command left there are no part of it.
\* A script only reacts to quests of the definition it was checked against,
\* whichever writes were cut short, and no script of a whole write replaced
\* another of it.
OnlySoundOnDisk ==
    /\ whole["quests"] # <<>> /\ Distinct(whole["quests"]) => Completable(OnDisk("quests"))
    /\ Distinct(whole["kubejs"])
    /\ \A n \in Names :
        disk[<<"kubejs", n>>] # Missing =>
            Reactive(disk[<<"kubejs", n>>].file, disk[<<"kubejs", n>>].quests)

\* The report of a failed draft is about the last reply: its findings are those
\* of the definition shown with them, and a reply that did not parse leaves
\* nothing of an earlier one.
ReportOfLastDraft ==
    outcome = "invalid" /\ reply # Missing =>
        IF reply.payload \in Unparsable
        THEN draft.error /\ draft.findings = {} /\ draft.definition = Missing
        ELSE /\ ~draft.error
             /\ draft.definition = reply.payload
             /\ draft.findings # {} /\ draft.findings = Findings(draft.definition)

\* A command ends, however long the provider is busy and whatever the model
\* answers.
CommandEnds == pc # "idle" ~> pc = "idle"

\* Why it ends, and what it may cost: until it does, a command asks for at most
\* --attempts completions, makes each request again at most MaxRetries
\* times, and never comes back from what it accepted to the model (draft.ts,
\* the retry loop of the adapters).
Stage == CASE pc = "probing" -> 1 [] pc = "writing" -> 2 [] OTHER -> 0
CommandSpends ==
    [][pc # "idle" /\ pc' # "idle" =>
        /\ cmd' = cmd
        /\ \/ Stage' > Stage
           \/ /\ Stage' = Stage /\ attempt' \in (attempt + 1)..MaxAttempts(cmd)
           \/ /\ Stage' = Stage /\ attempt' = attempt
              /\ tries' \in (tries + 1)..MaxRetries
           \/ /\ pc = "asking" /\ pc' = "waiting"
              /\ UNCHANGED <<attempt, tries>>]_vars
=============================================================================
