---------------------------- MODULE Definitions ----------------------------
(***************************************************************************)
(* Quest and script definitions: what the validators accept and which     *)
(* files are generated (src/src/core/quests, src/src/core/scripts).        *)
(*                                                                         *)
(* A definition is what JSON or the model gives: fields may be missing.    *)
(* An item id is its namespace, or "malformed".  A key is the sequence of  *)
(* its parts between slashes.                                              *)
(***************************************************************************)
EXTENDS Naturals, Sequences, SequencesExt, FiniteSets

CONSTANTS
    Missing,    \* a field that is not there
    Misshapen   \* JSON without the shape of a definition

Elements(seq) == {seq[i] : i \in DOMAIN seq}
Given(x) == IF x = Missing THEN <<>> ELSE x
IsSequence(s) == s \in Seq(Elements(s))

-----------------------------------------------------------------------------
(* Quests.  A definition is a sequence of chapters [filename, quests], a   *)
(* quest is [key, deps, tasks, rewards], a task or reward is               *)
(* [type, item].                                                           *)

Known(namespaces) == namespaces \cup {"minecraft"}

ItemFaults(item, known) ==
    IF item = "malformed" THEN {"malformed-item-id"}
    ELSE IF item \in known THEN {} ELSE {"unknown-namespace"}

TaskFaults(t, known) ==
    CASE t.type \notin {"item", "checkmark"} -> {"unsupported-type"}
      [] t.type = "checkmark" -> {}
      [] t.item = Missing -> {"unsupported-type"}
      [] OTHER -> ItemFaults(t.item, known)

\* The item of a command reward stands for its command.
RewardFaults(r, known) ==
    CASE r.type \notin {"item", "xp", "command"} -> {"unsupported-type"}
      [] r.type = "xp" -> {}
      [] r.item = Missing -> {"unsupported-type"}
      [] r.type = "command" -> {}
      [] OTHER -> ItemFaults(r.item, known)

QuestsOf(def) == FlattenSeq([c \in DOMAIN def |-> Given(def[c].quests)])
KeysOf(quests) == {q.key : q \in Elements(quests)}

QuestShape(def) ==
    /\ IsSequence(def)
    /\ \A c \in Elements(def) :
        /\ IsSequence(Given(c.quests))
        /\ \A q \in Elements(Given(c.quests)) : IsSequence(Given(q.deps))

\* A Map from key to dependencies: of two quests with one key the last counts.
Edges(quests) ==
    [k \in KeysOf(quests) |->
        Given(quests[CHOOSE i \in DOMAIN quests :
                        /\ quests[i].key = k
                        /\ \A j \in DOMAIN quests : quests[j].key = k => j <= i].deps)]

\* Mutant of FindCycle: only a quest that depends on itself is found.
FindCycleSelf(quests) ==
    {k \in KeysOf(quests) : k \in Elements(Edges(quests)[k])}

\* The first element of a sequence that is in a set.
FirstIn(seq, S) ==
    seq[CHOOSE i \in DOMAIN seq :
            seq[i] \in S /\ \A j \in DOMAIN seq : seq[j] \in S => i <= j]

\* The elements of a sequence from x on.
Since(seq, x) ==
    {seq[j] : j \in (CHOOSE i \in DOMAIN seq : seq[i] = x)..Len(seq)}

\* One turn of the depth-first search, in three colours: a quest is grey while
\* its visit is on the stack, and black after it.  The innermost visit takes
\* its first dependency that is a quest and not black - it closes a cycle, or
\* is visited - and returns if there is none; outside of all visits the first
\* white quest is visited.
Turn(keys, deps, s) ==
    LET grey == Elements(s.stack)
        white == (DOMAIN deps \ s.black) \ grey
        top == Last(s.stack)
        open == (Elements(deps[top]) \cap DOMAIN deps) \ s.black
        next == FirstIn(deps[top], open)
        Visit(k) == [s EXCEPT !.stack = Append(@, k)]
    IN  IF s.cycle # {} THEN s
        ELSE IF s.stack = <<>> THEN
            IF white = {} THEN s ELSE Visit(FirstIn(keys, white))
        ELSE IF open = {} THEN
            [s EXCEPT !.stack = Front(@), !.black = @ \cup {top}]
        ELSE IF next \in grey THEN
            [s EXCEPT !.cycle = Since(s.stack, next)]
        ELSE Visit(next)

\* findCycle: what it returns is the cycle, here the set of its quests.  Each
\* quest is visited once and returned from once.
FindCycle(quests) ==
    LET keys == [i \in DOMAIN quests |-> quests[i].key]
        turn[n \in 0..2 * Len(quests)] ==
            IF n = 0 THEN [stack |-> <<>>, black |-> {}, cycle |-> {}]
            ELSE Turn(keys, Edges(quests), turn[n - 1])
    IN  turn[2 * Len(quests)].cycle

\* validateDefinition: the codes of the findings.
QuestFindings(def, namespaces) ==
    LET quests == QuestsOf(def)
        known == Known(namespaces)
    IN  IF def = <<>> THEN {"empty-definition"}
        ELSE {f \in {"empty-definition"} : \E c \in Elements(def) : Given(c.quests) = <<>>}
             \cup {f \in {"duplicate-quest-id"} : Cardinality(KeysOf(quests)) < Len(quests)}
             \cup (UNION {TaskFaults(t, known) : t \in UNION {Elements(Given(q.tasks)) : q \in Elements(quests)}})
             \cup (UNION {RewardFaults(r, known) : r \in UNION {Elements(Given(q.rewards)) : q \in Elements(quests)}})
             \cup {f \in {"missing-dependency"} :
                    \E k \in KeysOf(quests) : ~(Elements(Edges(quests)[k]) \subseteq KeysOf(quests))}
             \cup {f \in {"dependency-cycle"} : FindCycle(quests) # {}}

\* chapterToSnbt reads the tasks whether they are there or not.
QuestsSerialize(def) == \A q \in Elements(QuestsOf(def)) : q.tasks # Missing

-----------------------------------------------------------------------------
(* Scripts.  A definition is a sequence of files [filename, handlers,      *)
(* recipes]; a handler is [on, quest, actions], an action [type, item], a  *)
(* recipe [type, items, fits], fits that rows, symbols and keys agree.     *)

ActionFaults(a, known) ==
    CASE a.type \notin {"command", "give", "log"} -> {"unsupported-action"}
      [] a.item = Missing -> {"unsupported-action"}
      [] a.type = "give" -> ItemFaults(a.item, known)
      [] OTHER -> {}

RecipeFaults(r, known) ==
    IF r.type \notin {"shaped", "shapeless"} THEN {"unsupported-recipe-type"}
    ELSE {f \in {"malformed-recipe"} : ~r.fits \/ Missing \in r.items}
         \cup (UNION {ItemFaults(i, known) : i \in r.items \ {Missing}})

\* quests is the quest definition that came with the request, or Missing:
\* then no handler can be verified.
HandlerFaults(h, quests, known) ==
    {f \in {"unsupported-event"} : h.on \notin {"completed", "started"}}
    \cup {f \in {"unknown-quest"} :
            quests = Missing \/ h.quest \notin KeysOf(QuestsOf(quests))}
    \cup (UNION {ActionFaults(a, known) : a \in Elements(Given(h.actions))})

\* validateScriptDefinition.
ScriptFindings(def, quests, namespaces) ==
    LET known == Known(namespaces)
    IN  IF def = <<>> THEN {"empty-definition"}
        ELSE {f \in {"duplicate-filename"} :
                \E i, j \in DOMAIN def : i # j /\ def[i].filename = def[j].filename}
             \cup {f \in {"empty-definition"} :
                \E s \in Elements(def) : Given(s.handlers) = <<>> /\ Given(s.recipes) = <<>>}
             \cup (UNION {HandlerFaults(h, quests, known) :
                            h \in UNION {Elements(Given(s.handlers)) : s \in Elements(def)}})
             \cup (UNION {RecipeFaults(r, known) :
                            r \in UNION {Elements(Given(s.recipes)) : s \in Elements(def)}})
=============================================================================
