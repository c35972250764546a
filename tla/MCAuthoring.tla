---------------------------- MODULE MCAuthoring ----------------------------
(* Constants for model-checking Authoring: definitions that differ in what  *)
(* the validators tell apart.                                               *)
EXTENDS Authoring

Quest(k, deps) == [key |-> <<k>>, deps |-> deps, tasks |-> <<>>, rewards |-> Missing]
Asks(k, type, item) ==
    [Quest(k, Missing) EXCEPT
        !.tasks = <<[type |-> type, item |-> item]>>]
Chapter(f, quests) == [filename |-> f, quests |-> quests]

Line == <<Chapter("f1", <<Quest("a", Missing), Quest("b", <<<<"a">>>>)>>)>>
Ring == <<Chapter("f1", <<Quest("a", <<<<"c">>>>), Quest("b", <<<<"a">>>>)>>),
          Chapter("f2", <<Quest("c", <<<<"b">>>>)>>)>>
Twins == <<Chapter("f1", <<Quest("a", Missing)>>), Chapter("f2", <<Quest("a", Missing)>>)>>
Shared == <<Chapter("f1", <<Quest("a", Missing)>>), Chapter("f1", <<Quest("b", Missing)>>)>>
Split == <<Chapter("f1", <<Quest("a", <<<<"b">>>>)>>), Chapter("f2", <<Quest("b", Missing)>>)>>
Dangling == <<Chapter("f1", <<Quest("a", <<<<"z">>>>)>>)>>
Foreign == <<Chapter("f1", <<Asks("a", "item", "other")>>)>>
Taskless == <<Chapter("f2", <<[Quest("a", Missing) EXCEPT !.tasks = Missing]>>)>>
Modded == <<Chapter("f2", <<Asks("a", "item", "mod")>>)>>

MCQuestDefs == {Line, Ring, Twins, Shared, Split, Dangling, Foreign, Taskless, Modded}

File(f, handlers, recipes) == [filename |-> f, handlers |-> handlers, recipes |-> recipes]
On(q) == [on |-> "completed", quest |-> <<q>>, actions |-> <<[type |-> "give", item |-> "mod"]>>]
Recipe(fits) == [type |-> "shaped", items |-> {"minecraft", "mod"}, fits |-> fits]

MCScriptDefs ==
    {<<>>,
     <<File("f1", <<On("a")>>, Missing), File("f2", Missing, <<Recipe(TRUE)>>)>>,
     <<File("f1", <<On("b")>>, Missing)>>,
     <<File("f1", Missing, <<Recipe(TRUE)>>), File("f1", Missing, <<Recipe(TRUE)>>)>>,
     <<File("f2", Missing, <<Recipe(FALSE)>>)>>}

MCSupplied == {Line, Dangling}
MCNamespaces == {"mod"}
MCNames == {"f1", "f2"}
=============================================================================
