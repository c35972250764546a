-------------------------- MODULE AuthoringProofs --------------------------
(***************************************************************************)
(* Theorems about Authoring, for any definitions, replies, retries and     *)
(* commands: types; that the validator finds a cycle exactly when there is *)
(* one, and with it that what reaches the instance can be completed; that  *)
(* every request carries a conversation in which each tool call is         *)
(* answered; and that a failed draft is reported with its own findings.    *)
(***************************************************************************)
EXTENDS Authoring, FiniteSetTheorems, WellFoundedInduction, TLAPS

-----------------------------------------------------------------------------
(* Induction and sequences.                                                *)

\* Induction, of which the library's form cannot be instantiated here.
LEMMA LeastOf ==
    ASSUME NEW T \in SUBSET Nat, T # {}
    PROVE  \E i \in T : \A j \in T : i <= j
<1> DEFINE Less == OpToRel(<, Nat)
<1>1. IsWellFoundedOn(Less, Nat)
    BY NatLessThanWellFounded
<1>2. \A x, y \in Nat : y < x => <<y, x>> \in Less
    BY DEF OpToRel
<1> HIDE DEF Less
<1>3. PICK i \in T : \A j \in T : ~(<<j, i>> \in Less)
    BY <1>1, WFMin
<1>4. \A j \in T : ~(j < i)
    BY <1>2, <1>3
<1>5. \A j \in T : i <= j
    BY <1>4
<1> QED BY <1>5

LEMMA SetInduction ==
    ASSUME NEW T, 0 \in T, \A n \in Nat : n \in T => n + 1 \in T
    PROVE  Nat \subseteq T
<1> DEFINE Rest == Nat \ T
<1> SUFFICES ASSUME Rest # {} PROVE FALSE
    OBVIOUS
<1>1. PICK i \in Rest : \A j \in Rest : i <= j
    BY LeastOf
<1>2. i \in Nat /\ i # 0
    OBVIOUS
<1>3. i - 1 \in Nat /\ (i - 1) + 1 = i /\ ~(i <= i - 1)
    BY <1>2
<1> QED BY <1>1, <1>3

LEMMA SequenceFacts ==
    ASSUME NEW s, IsSequence(s)
    PROVE  /\ Len(s) \in Nat /\ DOMAIN s = 1..Len(s)
           /\ Elements(s) = {s[i] : i \in 1..Len(s)}
           /\ \A i \in 1..Len(s) : s[i] \in Elements(s)
    BY DEF IsSequence, Elements

LEMMA FirstInIs ==
    ASSUME NEW seq, IsSequence(seq), NEW S, S \cap Elements(seq) # {}
    PROVE  FirstIn(seq, S) \in S \cap Elements(seq)
<1> DEFINE T == {i \in 1..Len(seq) : seq[i] \in S}
           P(i) == seq[i] \in S /\ \A j \in DOMAIN seq : seq[j] \in S => i <= j
<1>1. Len(seq) \in Nat /\ DOMAIN seq = 1..Len(seq) /\ Elements(seq) = {seq[i] : i \in 1..Len(seq)}
    BY SequenceFacts
<1>2. T \in SUBSET Nat /\ T # {}
    BY <1>1
<1>3. PICK i \in T : \A j \in T : i <= j
    BY <1>2, LeastOf
<1>4. i \in DOMAIN seq /\ P(i)
    BY <1>1, <1>3
<1>5. PICK k : k = CHOOSE i_1 \in DOMAIN seq : P(i_1)
    OBVIOUS
<1>6. k \in DOMAIN seq /\ P(k)
    BY <1>4, <1>5
<1>7. FirstIn(seq, S) = seq[k]
    BY <1>5 DEF FirstIn
<1> QED BY <1>1, <1>6, <1>7

LEMMA SeqFacts ==
    ASSUME NEW S, NEW s \in Seq(S)
    PROVE  /\ Len(s) \in Nat /\ DOMAIN s = 1..Len(s)
           /\ \A k \in 1..Len(s) : s[k] \in S
    OBVIOUS

LEMMA Pushed ==
    ASSUME NEW S, NEW s \in Seq(S), NEW x \in S
    PROVE  /\ Append(s, x) \in Seq(S) /\ Len(Append(s, x)) = Len(s) + 1
           /\ \A i \in 1..Len(s) : Append(s, x)[i] = s[i]
           /\ Append(s, x)[Len(s) + 1] = x
    OBVIOUS

LEMMA Popped ==
    ASSUME NEW S, NEW s \in Seq(S), s # <<>>
    PROVE  /\ Front(s) \in Seq(S) /\ Len(Front(s)) = Len(s) - 1
           /\ \A i \in 1..Len(s) - 1 : Front(s)[i] = s[i]
           /\ Last(s) = s[Len(s)] /\ Len(s) \in Nat \ {0}
<1>1. Len(s) \in Nat \ {0} /\ Len(s) - 1 \in Nat
    OBVIOUS
<1>2. \A i \in 1..Len(s) - 1 : s[i] \in S
    BY <1>1
<1>3. \A i \in 1..Len(s) - 1 : SubSeq(s, 1, Len(s) - 1)[i] = s[i]
    BY <1>1, SMT
<1>4. Len(SubSeq(s, 1, Len(s) - 1)) = Len(s) - 1
    BY <1>1
<1>5. SubSeq(s, 1, Len(s) - 1) \in Seq(S)
    BY <1>1, <1>2
<1> QED BY <1>1, <1>3, <1>4, <1>5 DEF Front, Last

-----------------------------------------------------------------------------
(* The search for a cycle.  deps gives each quest its dependencies, keys    *)
(* are the quests in the order of the definition.                           *)

Graph(keys, deps) ==
    /\ IsFiniteSet(DOMAIN deps)
    /\ IsSequence(keys) /\ Elements(keys) = DOMAIN deps
    /\ \A k \in DOMAIN deps : IsSequence(deps[k])

\* The quests of B can be completed before all others.
Ranked(deps, B) ==
    \E rank \in [B -> 1..Cardinality(B)] :
        \A k \in B : \A d \in Elements(deps[k]) \cap DOMAIN deps :
            d \in B /\ rank[d] < rank[k]

Searches(deps) ==
    [stack : Seq(DOMAIN deps), black : SUBSET DOMAIN deps, cycle : SUBSET DOMAIN deps]

\* The visits on the stack are of different quests that are not over yet, each
\* of them a dependency of the one before.
Branch(deps, s) ==
    /\ \A i, j \in 1..Len(s.stack) : s.stack[i] = s.stack[j] => i = j
    /\ \A i \in 1..Len(s.stack) : s.stack[i] \notin s.black
    /\ \A i \in 1..Len(s.stack) - 1 : s.stack[i + 1] \in Elements(deps[s.stack[i]])

\* No quest of C can be completed first.
Tied(deps, C) == \A k \in C : \E d \in C : d \in Elements(deps[k])

\* Each turn begins a visit or ends one.
Counted(deps, n, s) ==
    s.cycle = {} =>
        \/ Len(s.stack) + 2 * Cardinality(s.black) = n
        \/ s.stack = <<>> /\ s.black = DOMAIN deps

Searching(deps, n, s) ==
    /\ s \in Searches(deps)
    /\ Branch(deps, s)
    /\ Ranked(deps, s.black)
    /\ Tied(deps, s.cycle)
    /\ Counted(deps, n, s)

LEMMA VisitKeeps ==
    ASSUME NEW deps, NEW n \in Nat, NEW s, Searching(deps, n, s), s.cycle = {},
           IsFiniteSet(DOMAIN deps),
           NEW k \in DOMAIN deps, k \notin s.black, k \notin Elements(s.stack),
           s.stack # <<>> => k \in Elements(deps[Last(s.stack)])
    PROVE  Searching(deps, n + 1, [s EXCEPT !.stack = Append(@, k)])
<1> DEFINE t == [s EXCEPT !.stack = Append(@, k)]
<1>1. s \in Searches(deps) /\ s.stack \in Seq(DOMAIN deps)
    BY DEF Searching, Searches
<1>2. /\ t \in Searches(deps)
      /\ t.stack = Append(s.stack, k) /\ t.black = s.black /\ t.cycle = s.cycle
    BY <1>1, Pushed DEF Searches
<1> HIDE DEF t
<1>3. /\ Len(s.stack) \in Nat /\ Len(t.stack) = Len(s.stack) + 1
      /\ \A i \in 1..Len(s.stack) : t.stack[i] = s.stack[i] /\ s.stack[i] # k
      /\ t.stack[Len(s.stack) + 1] = k
    BY <1>1, <1>2, Pushed, SeqFacts DEF Elements
<1>4. Branch(deps, t)
    <2>1. Branch(deps, s)
        BY DEF Searching
    <2>2. \A i \in 1..Len(t.stack) : i \in 1..Len(s.stack) \/ i = Len(s.stack) + 1
        BY <1>3
    <2>3. \A i, j \in 1..Len(t.stack) : t.stack[i] = t.stack[j] => i = j
        BY <1>3, <2>1, <2>2 DEF Branch
    <2>4. \A i \in 1..Len(t.stack) : t.stack[i] \notin t.black
        BY <1>2, <1>3, <2>1, <2>2 DEF Branch
    <2>5. ASSUME NEW i \in 1..Len(t.stack) - 1
          PROVE  t.stack[i + 1] \in Elements(deps[t.stack[i]])
        <3>1. i \in 1..Len(s.stack)
            BY <1>3
        <3>2. CASE i = Len(s.stack)
            <4>1. s.stack # <<>>
                BY <3>1, <3>2
            <4>2. k \in Elements(deps[s.stack[i]])
                BY <3>2, <4>1 DEF Last
            <4> QED BY <1>3, <3>1, <3>2, <4>2
        <3>3. CASE i # Len(s.stack)
            <4>1. i \in 1..Len(s.stack) - 1 /\ i + 1 \in 1..Len(s.stack)
                BY <1>3, <3>1, <3>3
            <4>2. s.stack[i + 1] \in Elements(deps[s.stack[i]])
                BY <2>1, <4>1 DEF Branch
            <4> QED BY <1>3, <3>1, <4>1, <4>2
        <3> QED BY <3>2, <3>3
    <2> QED BY <2>3, <2>4, <2>5 DEF Branch
<1>5. Cardinality(s.black) \in Nat /\ s.black # DOMAIN deps
    <2>1. s.black \in SUBSET DOMAIN deps
        BY <1>1 DEF Searches
    <2> QED BY <2>1, FS_Subset, FS_CardinalityType
<1>6. Counted(deps, n + 1, t)
    <2>1. Len(s.stack) + 2 * Cardinality(s.black) = n
        BY <1>5 DEF Searching, Counted
    <2> QED BY <1>2, <1>3, <1>5, <2>1 DEF Counted
<1> QED BY <1>2, <1>4, <1>6 DEF Searching, t

LEMMA ReturnKeeps ==
    ASSUME NEW deps, NEW n \in Nat, NEW s, Searching(deps, n, s), s.cycle = {},
           IsFiniteSet(DOMAIN deps), s.stack # <<>>,
           Elements(deps[Last(s.stack)]) \cap DOMAIN deps \subseteq s.black
    PROVE  Searching(deps, n + 1,
                     [s EXCEPT !.stack = Front(@), !.black = @ \cup {Last(s.stack)}])
<1> DEFINE top == Last(s.stack)
           B == s.black
           t == [s EXCEPT !.stack = Front(@), !.black = @ \cup {top}]
<1>1. /\ s \in Searches(deps) /\ s.stack \in Seq(DOMAIN deps)
      /\ B \subseteq DOMAIN deps /\ Branch(deps, s)
    BY DEF Searching, Searches
<1>2. /\ Front(s.stack) \in Seq(DOMAIN deps) /\ Len(Front(s.stack)) = Len(s.stack) - 1
      /\ \A i \in 1..Len(s.stack) - 1 : Front(s.stack)[i] = s.stack[i]
      /\ top = s.stack[Len(s.stack)] /\ Len(s.stack) \in Nat \ {0}
    BY <1>1, Popped
<1>3. top \in DOMAIN deps /\ top \notin B /\ Len(s.stack) \in 1..Len(s.stack)
    <2>1. Len(s.stack) \in 1..Len(s.stack)
        BY <1>2
    <2> QED BY <1>1, <1>2, <2>1, SeqFacts DEF Branch
<1>4. /\ t \in Searches(deps) /\ t.stack = Front(s.stack)
      /\ t.black = B \cup {top} /\ t.cycle = s.cycle
    BY <1>1, <1>2, <1>3 DEF Searches
<1> HIDE DEF t, top, B
<1>5. /\ Len(t.stack) = Len(s.stack) - 1
      /\ \A i \in 1..Len(t.stack) : t.stack[i] = s.stack[i] /\ i \in 1..Len(s.stack)
                                        /\ i # Len(s.stack)
    BY <1>2, <1>4
<1>6. Len(s.stack) \in Nat \ {0} /\ Len(t.stack) = Len(s.stack) - 1
    BY <1>2, <1>5
<1>7. Branch(deps, t)
    <2>1. \A i, j \in 1..Len(t.stack) : t.stack[i] = t.stack[j] => i = j
        BY <1>1, <1>5 DEF Branch
    <2>2. \A i \in 1..Len(t.stack) : t.stack[i] \notin t.black
        <3>1. \A i \in 1..Len(t.stack) : s.stack[i] # top /\ s.stack[i] \notin B
            BY <1>1, <1>2, <1>3, <1>5 DEF Branch, B
        <3> QED BY <1>4, <1>5, <3>1
    <2>3. \A i \in 1..Len(t.stack) - 1 : t.stack[i + 1] \in Elements(deps[t.stack[i]])
        <3>1. \A i \in 1..Len(t.stack) - 1 :
                i \in 1..Len(s.stack) - 1 /\ i + 1 \in 1..Len(t.stack) /\ i \in 1..Len(t.stack)
            BY <1>6
        <3> QED BY <1>1, <1>5, <3>1 DEF Branch
    <2> QED BY <2>1, <2>2, <2>3 DEF Branch
<1>8. /\ IsFiniteSet(B) /\ Cardinality(B) \in Nat
      /\ Cardinality(t.black) = Cardinality(B) + 1
    <2>1. IsFiniteSet(B)
        BY <1>1, FS_Subset
    <2> QED BY <1>3, <1>4, <2>1, FS_CardinalityType, FS_AddElement
<1>9. Ranked(deps, t.black)
    <2> DEFINE c == Cardinality(B)
    <2>1. PICK rank \in [B -> 1..c] :
            \A k \in B : \A d \in Elements(deps[k]) \cap DOMAIN deps :
                d \in B /\ rank[d] < rank[k]
        BY DEF Searching, Ranked, B
    <2> DEFINE rank2 == [k \in t.black |-> IF k \in B THEN rank[k] ELSE c + 1]
    <2>2. rank2 \in [t.black -> 1..c + 1]
        BY <1>8, <2>1
    <2>3. ASSUME NEW k \in t.black, NEW d \in Elements(deps[k]) \cap DOMAIN deps
          PROVE  d \in t.black /\ rank2[d] < rank2[k]
        <3>1. CASE k \in B
            <4>1. d \in B /\ rank[d] < rank[k]
                BY <2>1, <3>1
            <4> QED BY <1>4, <3>1, <4>1
        <3>2. CASE k \notin B
            <4>1. k = top
                BY <1>4, <3>2
            <4>2. d \in B
                BY <4>1 DEF top, B
            <4>3. rank[d] \in 1..c /\ rank2[d] = rank[d] /\ rank2[k] = c + 1
                BY <1>4, <2>1, <3>2, <4>2
            <4> QED BY <1>4, <1>8, <4>2, <4>3
        <3> QED BY <3>1, <3>2
    <2> HIDE DEF rank2
    <2>4. rank2 \in [t.black -> 1..Cardinality(t.black)]
        BY <1>8, <2>2
    <2> QED BY <2>3, <2>4 DEF Ranked
<1>10. Counted(deps, n + 1, t)
    <2>1. Len(s.stack) + 2 * Cardinality(B) = n
        BY <1>8 DEF Searching, Counted, B
    <2>2. Len(t.stack) + 2 * Cardinality(t.black) = n + 1
        BY <1>6, <1>8, <2>1
    <2> QED BY <2>2 DEF Counted
<1>11. Searching(deps, n + 1, t)
    BY <1>4, <1>7, <1>9, <1>10 DEF Searching
<1> QED BY <1>11 DEF t, top

LEMMA FoundKeeps ==
    ASSUME NEW deps, NEW n \in Nat, NEW s, Searching(deps, n, s), s.stack # <<>>,
           NEW next \in Elements(s.stack), next \in Elements(deps[Last(s.stack)])
    PROVE  Searching(deps, n + 1, [s EXCEPT !.cycle = Since(s.stack, next)])
<1> DEFINE m == CHOOSE i \in DOMAIN s.stack : s.stack[i] = next
           C == Since(s.stack, next)
           t == [s EXCEPT !.cycle = C]
<1>1. /\ s \in Searches(deps) /\ s.stack \in Seq(DOMAIN deps) /\ Branch(deps, s)
    BY DEF Searching, Searches
<1>2. Len(s.stack) \in Nat \ {0} /\ DOMAIN s.stack = 1..Len(s.stack)
    BY <1>1, SeqFacts, Popped
<1>3. m \in 1..Len(s.stack) /\ s.stack[m] = next
    <2>1. \E i \in DOMAIN s.stack : s.stack[i] = next
        BY DEF Elements
    <2> QED BY <1>2, <2>1
<1>4. C = {s.stack[j] : j \in m..Len(s.stack)}
    BY DEF Since
<1> HIDE DEF m, C
<1>5. C \subseteq DOMAIN deps /\ C # {} /\ next \in C
    <2>1. \A j \in m..Len(s.stack) : j \in 1..Len(s.stack) /\ s.stack[j] \in DOMAIN deps
        BY <1>1, <1>2, <1>3, SeqFacts
    <2>2. m \in m..Len(s.stack)
        BY <1>2, <1>3
    <2>3. next \in C
        BY <1>3, <1>4, <2>2
    <2> QED BY <1>4, <2>1, <2>3
<1>6. Tied(deps, C)
    <2> SUFFICES ASSUME NEW j \in m..Len(s.stack)
                 PROVE  \E d \in C : d \in Elements(deps[s.stack[j]])
        BY <1>4 DEF Tied
    <2>1. CASE j = Len(s.stack)
        BY <1>5, <2>1 DEF Last
    <2>2. CASE j # Len(s.stack)
        <3>1. j + 1 \in m..Len(s.stack) /\ j \in 1..Len(s.stack) - 1
            BY <1>2, <1>3, <2>2
        <3>2. s.stack[j + 1] \in Elements(deps[s.stack[j]])
            BY <1>1, <3>1 DEF Branch
        <3> QED BY <1>4, <3>1, <3>2
    <2> QED BY <2>1, <2>2
<1>7. t \in Searches(deps) /\ t.stack = s.stack /\ t.black = s.black /\ t.cycle = C
    BY <1>1, <1>5 DEF Searches
<1> HIDE DEF t
<1>8. Searching(deps, n + 1, t)
    BY <1>5, <1>6, <1>7 DEF Searching, Branch, Counted
<1> QED BY <1>8 DEF t, C

LEMMA TurnKeeps ==
    ASSUME NEW keys, NEW deps, Graph(keys, deps), NEW n \in Nat, NEW s, Searching(deps, n, s)
    PROVE  Searching(deps, n + 1, Turn(keys, deps, s))
<1> DEFINE grey == Elements(s.stack)
           white == (DOMAIN deps \ s.black) \ grey
           top == Last(s.stack)
           open == (Elements(deps[top]) \cap DOMAIN deps) \ s.black
           next == FirstIn(deps[top], open)
           root == FirstIn(keys, white)
<1>1. s \in Searches(deps) /\ s.stack \in Seq(DOMAIN deps)
    BY DEF Searching, Searches
<1>2. IsFiniteSet(DOMAIN deps)
    BY DEF Graph
<1>3. CASE s.cycle # {}
    <2>1. Turn(keys, deps, s) = s
        BY <1>3 DEF Turn
    <2> QED BY <1>3, <2>1 DEF Searching, Counted
<1>4. CASE s.cycle = {} /\ s.stack = <<>> /\ white = {}
    <2>1. Turn(keys, deps, s) = s
        BY <1>4 DEF Turn
    <2>2. grey = {}
        BY <1>4 DEF Elements
    <2>3. s.black = DOMAIN deps
        BY <1>1, <1>4, <2>2 DEF Searches
    <2> QED BY <1>4, <2>1, <2>3 DEF Searching, Counted
<1>5. CASE s.cycle = {} /\ s.stack = <<>> /\ white # {}
    <2>1. Turn(keys, deps, s) = [s EXCEPT !.stack = Append(@, root)]
        BY <1>5 DEF Turn
    <2>2. IsSequence(keys) /\ white \cap Elements(keys) # {}
        BY <1>5 DEF Graph
    <2>3. root \in white
        BY <2>2, FirstInIs
    <2> HIDE DEF root
    <2>4. Searching(deps, n + 1, [s EXCEPT !.stack = Append(@, root)])
        BY <1>2, <1>5, <2>3, VisitKeeps
    <2> QED BY <2>1, <2>4
<1>6. CASE s.cycle = {} /\ s.stack # <<>> /\ open = {}
    <2>1. Turn(keys, deps, s) = [s EXCEPT !.stack = Front(@), !.black = @ \cup {top}]
        BY <1>6 DEF Turn
    <2>2. Elements(deps[top]) \cap DOMAIN deps \subseteq s.black
        BY <1>6
    <2>3. Searching(deps, n + 1, [s EXCEPT !.stack = Front(@), !.black = @ \cup {Last(s.stack)}])
        BY <1>2, <1>6, <2>2, ReturnKeeps, Zenon
    <2> QED BY <2>1, <2>3
<1>7. CASE s.cycle = {} /\ s.stack # <<>> /\ open # {}
    <2>1. top \in DOMAIN deps
        <3> HIDE DEF grey, white, open, next, root
        <3>1. Len(s.stack) \in Nat \ {0} /\ top = s.stack[Len(s.stack)]
            BY <1>1, <1>7, Popped
        <3>2. Len(s.stack) \in 1..Len(s.stack)
            BY <3>1
        <3> QED BY <1>1, <3>1, <3>2, SeqFacts
    <2>2. IsSequence(deps[top])
        BY <2>1 DEF Graph
    <2>3. next \in open /\ next \in Elements(deps[top])
        <3>1. open \cap Elements(deps[top]) # {}
            BY <1>7
        <3> QED BY <2>2, <3>1, FirstInIs
    <2>4. PICK k : k = next
        OBVIOUS
    <2>5. /\ k \in Elements(deps[Last(s.stack)]) /\ k \in DOMAIN deps /\ k \notin s.black
        BY <2>3, <2>4
    <2>6. CASE k \in grey
        <3> DEFINE t == [s EXCEPT !.cycle = Since(s.stack, k)]
        <3>1. Turn(keys, deps, s) = t
            BY <1>7, <2>4, <2>6, Zenon DEF Turn
        <3>2. k \in Elements(s.stack) /\ s.stack # <<>>
            BY <1>7, <2>6
        <3> HIDE DEF top, open, next, grey, white, root
        <3>3. Searching(deps, n + 1, t)
            BY <2>5, <3>2, FoundKeeps
        <3> QED BY <3>1, <3>3
    <2>7. CASE k \notin grey
        <3>1. Turn(keys, deps, s) = [s EXCEPT !.stack = Append(@, k)]
            BY <1>7, <2>4, <2>7, Zenon DEF Turn
        <3>2. k \notin Elements(s.stack)
            BY <2>7
        <3> HIDE DEF top, open, next, grey, white, root
        <3>3. Searching(deps, n + 1, [s EXCEPT !.stack = Append(@, k)])
            BY <1>2, <1>7, <2>5, <3>2, VisitKeeps
        <3> QED BY <3>1, <3>3
    <2> QED BY <2>6, <2>7
<1> QED BY <1>3, <1>4, <1>5, <1>6, <1>7

Untouched == [stack |-> <<>>, black |-> {}, cycle |-> {}]

LEMMA StartsSearching ==
    ASSUME NEW deps PROVE Searching(deps, 0, Untouched)
<1>1. Untouched \in Searches(deps) /\ Branch(deps, Untouched) /\ Tied(deps, Untouched.cycle)
    BY DEF Untouched, Searches, Branch, Tied
<1>2. Ranked(deps, Untouched.black)
    <2>1. [k \in {} |-> 0] \in [{} -> 1..Cardinality({})]
        OBVIOUS
    <2> QED BY <2>1 DEF Ranked, Untouched
<1>3. Counted(deps, 0, Untouched)
    BY FS_EmptySet DEF Counted, Untouched
<1> QED BY <1>1, <1>2, <1>3 DEF Searching

\* The turns of a search, one after the other.
Turns(keys, deps, m, f) ==
    f = [n \in 0..m |-> IF n = 0 THEN Untouched ELSE Turn(keys, deps, f[n - 1])]

LEMMA TurnsExist ==
    ASSUME NEW keys, NEW deps, NEW m \in Nat
    PROVE  \E f : Turns(keys, deps, m, f)
<1> DEFINE T == {k \in Nat : \E f : Turns(keys, deps, k, f)}
<1>1. 0 \in T
    <2> DEFINE f == [n \in 0..0 |-> Untouched]
    <2>1. f = [n \in 0..0 |-> IF n = 0 THEN Untouched ELSE Turn(keys, deps, f[n - 1])]
        OBVIOUS
    <2> QED BY <2>1 DEF Turns
<1>2. ASSUME NEW k \in Nat, k \in T
      PROVE  k + 1 \in T
    <2>1. PICK f : f = [n \in 0..k |-> IF n = 0 THEN Untouched ELSE Turn(keys, deps, f[n - 1])]
        BY <1>2 DEF Turns
    <2> DEFINE g == [n \in 0..k + 1 |-> IF n = k + 1 THEN Turn(keys, deps, f[k]) ELSE f[n]]
               h == [n \in 0..k + 1 |-> IF n = 0 THEN Untouched ELSE Turn(keys, deps, g[n - 1])]
    <2>2. ASSUME NEW n \in 0..k + 1
          PROVE  g[n] = h[n]
        <3>1. CASE n = k + 1
            BY <3>1
        <3>2. CASE n # k + 1 /\ n = 0
            BY <2>1, <3>2
        <3>3. CASE n # k + 1 /\ n # 0
            <4>1. n \in 0..k /\ n - 1 \in 0..k /\ n - 1 \in 0..k + 1 /\ n - 1 # k + 1
                BY <3>3
            <4>2. g[n] = f[n] /\ g[n - 1] = f[n - 1]
                BY <3>3, <4>1
            <4>3. f[n] = Turn(keys, deps, f[n - 1])
                BY <2>1, <3>3, <4>1
            <4> QED BY <3>3, <4>2, <4>3
        <3> QED BY <3>1, <3>2, <3>3
    <2>3. g = h
        BY <2>2
    <2>4. Turns(keys, deps, k + 1, g)
        BY <2>3 DEF Turns
    <2> QED BY <2>4
<1>3. Nat \subseteq T
    <2> HIDE DEF T
    <2> QED BY <1>1, <1>2, SetInduction
<1> QED BY <1>3

LEMMA TurnsSearch ==
    ASSUME NEW keys, NEW deps, Graph(keys, deps), NEW m \in Nat, NEW f, Turns(keys, deps, m, f)
    PROVE  Searching(deps, m, f[m])
<1> DEFINE T == {n \in Nat : n <= m => Searching(deps, n, f[n])}
<1>1. /\ f[0] = Untouched
      /\ \A n \in 0..m : n # 0 => f[n] = Turn(keys, deps, f[n - 1])
    BY DEF Turns
<1>2. 0 \in T
    BY <1>1, StartsSearching
<1>3. ASSUME NEW n \in Nat, n \in T
      PROVE  n + 1 \in T
    <2> SUFFICES ASSUME n + 1 <= m PROVE Searching(deps, n + 1, f[n + 1])
        OBVIOUS
    <2>1. Searching(deps, n, f[n])
        BY <1>3
    <2>2. n + 1 \in 0..m /\ n + 1 # 0 /\ (n + 1) - 1 = n
        OBVIOUS
    <2>3. f[n + 1] = Turn(keys, deps, f[n])
        BY <1>1, <2>2
    <2> QED BY <2>1, <2>3, TurnKeeps
<1>4. Nat \subseteq T
    <2> HIDE DEF T
    <2> QED BY <1>2, <1>3, SetInduction
<1> QED BY <1>4

\* There are fewer visits than quests.
LEMMA VisitsBounded ==
    ASSUME NEW deps, IsFiniteSet(DOMAIN deps), NEW n \in Nat, NEW s, Searching(deps, n, s)
    PROVE  /\ Len(s.stack) \in Nat /\ Cardinality(s.black) \in Nat
           /\ Len(s.stack) + Cardinality(s.black) <= Cardinality(DOMAIN deps)
           /\ s.black \subseteq DOMAIN deps
           /\ Cardinality(s.black) = Cardinality(DOMAIN deps) => s.black = DOMAIN deps
<1> DEFINE white == DOMAIN deps \ s.black
<1>1. /\ s.stack \in Seq(DOMAIN deps) /\ s.black \in SUBSET DOMAIN deps /\ Branch(deps, s)
    BY DEF Searching, Searches
<1>2. /\ Len(s.stack) \in Nat /\ IsFiniteSet(1..Len(s.stack))
      /\ Cardinality(1..Len(s.stack)) = Len(s.stack)
    <2>1. PICK l \in Nat : l = Len(s.stack)
        BY <1>1, SeqFacts
    <2>2. IsFiniteSet(1..l) /\ Cardinality(1..l) = l
        BY FS_Interval
    <2> QED BY <2>1, <2>2
<1>3. /\ IsFiniteSet(s.black) /\ Cardinality(s.black) \in Nat
      /\ Cardinality(s.black) = Cardinality(DOMAIN deps) => s.black = DOMAIN deps
    BY <1>1, FS_Subset, FS_CardinalityType
<1>4. /\ IsFiniteSet(white)
      /\ Cardinality(white) = Cardinality(DOMAIN deps) - Cardinality(s.black)
    <2>1. DOMAIN deps \cap s.black = s.black
        BY <1>1
    <2> QED BY <2>1, FS_Difference
<1>5. Cardinality(DOMAIN deps) \in Nat
    BY FS_CardinalityType
<1> DEFINE on == [i \in 1..Len(s.stack) |-> s.stack[i]]
<1>6. on \in [1..Len(s.stack) -> white]
    BY <1>1, SeqFacts DEF Branch
<1>7. \A i, j \in 1..Len(s.stack) : on[i] = on[j] => i = j
    BY <1>1 DEF Branch
<1> HIDE DEF on, white
<1>8. on \in Injection(1..Len(s.stack), white)
    BY <1>6, <1>7 DEF Injection, IsInjective
<1>9. Len(s.stack) <= Cardinality(white)
    BY <1>2, <1>4, <1>8, FS_Injection
<1> QED BY <1>1, <1>2, <1>3, <1>4, <1>5, <1>9

LEMMA TiedNotRanked ==
    ASSUME NEW deps, NEW C \in SUBSET DOMAIN deps, C # {}, Tied(deps, C)
    PROVE  ~Ranked(deps, DOMAIN deps)
<1> SUFFICES ASSUME NEW rank \in [DOMAIN deps -> 1..Cardinality(DOMAIN deps)],
                    \A k \in DOMAIN deps : \A d \in Elements(deps[k]) \cap DOMAIN deps :
                        d \in DOMAIN deps /\ rank[d] < rank[k]
             PROVE  FALSE
    BY DEF Ranked
<1> DEFINE T == {rank[k] : k \in C}
<1>1. T \in SUBSET Nat /\ T # {}
    OBVIOUS
<1>2. PICK i \in T : \A j \in T : i <= j
    BY <1>1, LeastOf
<1>3. PICK k \in C : rank[k] = i
    BY <1>2
<1>4. PICK d \in C : d \in Elements(deps[k])
    BY <1>3 DEF Tied
<1>5. rank[d] < rank[k] /\ rank[d] \in T
    BY <1>3, <1>4
<1>6. rank[k] <= rank[d] /\ rank[d] \in Nat /\ rank[k] \in Nat
    BY <1>1, <1>2, <1>3, <1>5
<1> QED BY <1>5, <1>6

-----------------------------------------------------------------------------
(* The quests of a definition.                                             *)

LEMMA LargestOf ==
    ASSUME NEW n \in Nat, NEW S \in SUBSET (1..n), S # {}
    PROVE  \E i \in S : \A j \in S : j <= i
<1> DEFINE T == {n - i : i \in S}
<1>1. T \in SUBSET Nat /\ T # {}
    <2>1. \A i \in S : n - i \in Nat
        OBVIOUS
    <2> QED BY <2>1
<1>2. PICK k \in T : \A j \in T : k <= j
    BY <1>1, LeastOf
<1>3. PICK i \in S : k = n - i
    BY <1>2
<1>4. \A j \in S : n - i <= n - j /\ i \in Int /\ j \in Int
    BY <1>2, <1>3
<1>5. \A j \in S : j <= i
    BY <1>4
<1> QED BY <1>5

QuestList(quests) ==
    IsSequence(quests) /\ \A q \in Elements(quests) : IsSequence(Given(q.deps))

KeyList(quests) == [i \in DOMAIN quests |-> quests[i].key]

LEMMA EdgesAre ==
    ASSUME NEW quests, QuestList(quests)
    PROVE  /\ DOMAIN Edges(quests) = KeysOf(quests)
           /\ \A k \in KeysOf(quests) : \E i \in 1..Len(quests) :
                /\ quests[i].key = k /\ Edges(quests)[k] = Given(quests[i].deps)
                /\ IsSequence(Edges(quests)[k])
<1>1. /\ Len(quests) \in Nat /\ DOMAIN quests = 1..Len(quests)
      /\ Elements(quests) = {quests[i] : i \in 1..Len(quests)}
    BY SequenceFacts DEF QuestList
<1>2. DOMAIN Edges(quests) = KeysOf(quests)
    BY DEF Edges
<1>3. ASSUME NEW k \in KeysOf(quests)
      PROVE  \E i \in 1..Len(quests) :
                /\ quests[i].key = k /\ Edges(quests)[k] = Given(quests[i].deps)
                /\ IsSequence(Edges(quests)[k])
    <2> DEFINE S == {i \in 1..Len(quests) : quests[i].key = k}
               P(i) == quests[i].key = k /\ \A j \in DOMAIN quests : quests[j].key = k => j <= i
    <2>1. S # {}
        BY <1>1 DEF KeysOf
    <2>2. PICK i \in S : \A j \in S : j <= i
        BY <1>1, <2>1, LargestOf
    <2>3. i \in DOMAIN quests /\ P(i)
        BY <1>1, <2>2
    <2>4. PICK l : l = CHOOSE j \in DOMAIN quests : P(j)
        OBVIOUS
    <2>5. l \in DOMAIN quests /\ P(l)
        BY <2>3, <2>4
    <2>6. Edges(quests)[k] = Given(quests[l].deps)
        BY <2>4 DEF Edges
    <2>7. quests[l] \in Elements(quests)
        BY <2>5 DEF Elements
    <2> QED BY <1>1, <2>5, <2>6, <2>7 DEF QuestList
<1> QED BY <1>2, <1>3

LEMMA GraphOf ==
    ASSUME NEW quests, QuestList(quests)
    PROVE  /\ Graph(KeyList(quests), Edges(quests))
           /\ Cardinality(KeysOf(quests)) \in Nat /\ Len(quests) \in Nat
           /\ Cardinality(KeysOf(quests)) <= Len(quests)
           /\ Cardinality(KeysOf(quests)) = Len(quests) <=>
                \A i, j \in DOMAIN quests : quests[i].key = quests[j].key => i = j
<1> DEFINE keys == KeyList(quests)
<1>1. /\ Len(quests) \in Nat /\ DOMAIN quests = 1..Len(quests)
      /\ Elements(quests) = {quests[i] : i \in 1..Len(quests)}
    BY SequenceFacts DEF QuestList
<1>2. keys = [i \in 1..Len(quests) |-> quests[i].key]
    BY <1>1 DEF KeyList
<1>3. KeysOf(quests) = {quests[i].key : i \in 1..Len(quests)}
    BY <1>1 DEF KeysOf
<1>4. Elements(keys) = KeysOf(quests)
    BY <1>2, <1>3 DEF Elements
<1> HIDE DEF keys
<1>5. keys \in Surjection(1..Len(quests), KeysOf(quests))
    BY <1>2, <1>3 DEF Surjection
<1>6. IsSequence(keys)
    <2>1. keys \in [1..Len(quests) -> Elements(keys)]
        BY <1>2, <1>3, <1>4
    <2> HIDE DEF Elements
    <2>2. keys \in Seq(Elements(keys))
        BY <1>1, <2>1
    <2> QED BY <2>2 DEF IsSequence
<1>7. IsFiniteSet(1..Len(quests)) /\ Cardinality(1..Len(quests)) = Len(quests)
    <2>1. PICK l \in Nat : l = Len(quests)
        BY <1>1
    <2>2. IsFiniteSet(1..l) /\ Cardinality(1..l) = l
        BY FS_Interval
    <2> QED BY <2>1, <2>2
<1>8. /\ IsFiniteSet(KeysOf(quests)) /\ Cardinality(KeysOf(quests)) <= Len(quests)
      /\ Cardinality(KeysOf(quests)) = Len(quests)
            <=> keys \in Injection(1..Len(quests), KeysOf(quests))
    BY <1>5, <1>7, FS_Surjection
<1>9. keys \in Injection(1..Len(quests), KeysOf(quests)) <=>
        \A i, j \in DOMAIN quests : quests[i].key = quests[j].key => i = j
    BY <1>1, <1>2, <1>5 DEF Injection, IsInjective, Surjection
<1>10. Graph(keys, Edges(quests))
    <2>1. \A k \in KeysOf(quests) : IsSequence(Edges(quests)[k])
        BY EdgesAre
    <2> QED BY <1>4, <1>6, <1>8, <2>1, EdgesAre DEF Graph
<1>11. Cardinality(KeysOf(quests)) \in Nat
    BY <1>8, FS_CardinalityType
<1> QED BY <1>1, <1>8, <1>9, <1>10, <1>11 DEF keys

LEMMA FindCycleIs ==
    ASSUME NEW quests, QuestList(quests)
    PROVE  \E f : /\ Turns(KeyList(quests), Edges(quests), 2 * Len(quests), f)
                  /\ FindCycle(quests) = f[2 * Len(quests)].cycle
<1> DEFINE keys == KeyList(quests)
           deps == Edges(quests)
           m == 2 * Len(quests)
<1>1. m \in Nat
    BY GraphOf
<1> DEFINE f == CHOOSE g : g = [n \in 0..m |-> IF n = 0 THEN Untouched ELSE Turn(keys, deps, g[n - 1])]
<1>2. Turns(keys, deps, m, f)
    BY <1>1, TurnsExist DEF Turns
<1>3. FindCycle(quests) = f[m].cycle
    BY DEF FindCycle, KeyList, Untouched
<1> QED BY <1>2, <1>3

\* A cycle is found if and only if the quests have no order in which each
\* comes after those it depends on (findCycle).
THEOREM FindCycleExact ==
    ASSUME NEW quests, QuestList(quests)
    PROVE  FindCycle(quests) = {} <=> Ranked(Edges(quests), KeysOf(quests))
<1> DEFINE keys == KeyList(quests)
           deps == Edges(quests)
           m == 2 * Len(quests)
<1>1. /\ Graph(keys, deps) /\ DOMAIN deps = KeysOf(quests) /\ IsFiniteSet(DOMAIN deps)
      /\ Cardinality(DOMAIN deps) \in Nat /\ Len(quests) \in Nat
      /\ Cardinality(DOMAIN deps) <= Len(quests)
    BY GraphOf, EdgesAre DEF Graph
<1>2. PICK f : Turns(keys, deps, m, f) /\ FindCycle(quests) = f[m].cycle
    BY FindCycleIs
<1> HIDE DEF keys, deps
<1>3. PICK s : s = f[m]
    OBVIOUS
<1>4. Searching(deps, m, s)
    BY <1>1, <1>2, <1>3, TurnsSearch
<1>5. ASSUME s.cycle = {}
      PROVE  Ranked(deps, DOMAIN deps)
    <2>1. /\ Len(s.stack) \in Nat /\ Cardinality(s.black) \in Nat
          /\ Len(s.stack) + Cardinality(s.black) <= Cardinality(DOMAIN deps)
          /\ Cardinality(s.black) = Cardinality(DOMAIN deps) => s.black = DOMAIN deps
        BY <1>1, <1>4, VisitsBounded
    <2>2. s.black = DOMAIN deps
        <3>1. \/ Len(s.stack) + 2 * Cardinality(s.black) = 2 * Len(quests)
              \/ s.black = DOMAIN deps
            BY <1>4, <1>5 DEF Searching, Counted
        <3>2. CASE Len(s.stack) + 2 * Cardinality(s.black) = 2 * Len(quests)
            BY <1>1, <2>1, <3>2
        <3> QED BY <3>1, <3>2
    <2> QED BY <1>4, <2>2 DEF Searching
<1>6. ASSUME s.cycle # {}
      PROVE  ~Ranked(deps, DOMAIN deps)
    <2>1. s.cycle \in SUBSET DOMAIN deps /\ Tied(deps, s.cycle)
        BY <1>4 DEF Searching, Searches
    <2> QED BY <1>6, <2>1, TiedNotRanked
<1>7. FindCycle(quests) = s.cycle
    BY <1>2, <1>3
<1> QED BY <1>1, <1>5, <1>6, <1>7 DEF deps

LEMMA Concatenated ==
    ASSUME NEW S, NEW s \in Seq(S), NEW t \in Seq(S)
    PROVE  s \o t \in Seq(S)
    OBVIOUS

\* What FlattenSeq computes for the first k of its sequences.
Flattens(seqs, k, f) ==
    f = [i \in 1..k |-> IF i = 1 THEN seqs[i] ELSE f[i - 1] \o seqs[i]]

LEMMA FlattenType ==
    ASSUME NEW S, NEW seqs \in Seq(Seq(S))
    PROVE  FlattenSeq(seqs) \in Seq(S)
<1> DEFINE T == {k \in Nat : \E f : Flattens(seqs, k, f)}
<1>1. Len(seqs) \in Nat /\ \A i \in 1..Len(seqs) : seqs[i] \in Seq(S)
    OBVIOUS
<1>2. 0 \in T
    <2> DEFINE f == [i \in 1..0 |-> <<>>]
    <2>1. Flattens(seqs, 0, f)
        BY DEF Flattens
    <2> QED BY <2>1
<1>3. ASSUME NEW k \in Nat, k \in T
      PROVE  k + 1 \in T
    <2>1. PICK f : Flattens(seqs, k, f)
        BY <1>3
    <2> DEFINE g == [i \in 1..k + 1 |->
                        IF i = k + 1 /\ i # 1 THEN f[k] \o seqs[i]
                        ELSE IF i = 1 THEN seqs[i] ELSE f[i]]
               h == [i \in 1..k + 1 |-> IF i = 1 THEN seqs[i] ELSE g[i - 1] \o seqs[i]]
    <2>2. ASSUME NEW i \in 1..k + 1
          PROVE  g[i] = h[i]
        <3>1. CASE i = 1
            BY <3>1
        <3>2. CASE i # 1
            <4>1. i - 1 \in 1..k /\ i - 1 \in 1..k + 1 /\ i - 1 # k + 1 /\ (i = k + 1 => i - 1 = k)
                BY <3>2
            <4>2. \A j \in 1..k : f[j] = IF j = 1 THEN seqs[j] ELSE f[j - 1] \o seqs[j]
                BY <2>1 DEF Flattens
            <4>3. g[i - 1] = f[i - 1]
                BY <4>1, <4>2
            <4>4. i # k + 1 => i \in 1..k
                OBVIOUS
            <4> QED BY <3>2, <4>1, <4>2, <4>3, <4>4
        <3> QED BY <3>1, <3>2
    <2>3. g = h
        BY <2>2
    <2>4. Flattens(seqs, k + 1, g)
        BY <2>3 DEF Flattens
    <2> QED BY <2>4
<1>4. Nat \subseteq T
    <2> HIDE DEF T
    <2> QED BY <1>2, <1>3, SetInduction
<1> DEFINE f == CHOOSE g : g = [i \in 1..Len(seqs) |->
                                    IF i = 1 THEN seqs[i] ELSE g[i - 1] \o seqs[i]]
<1>5. Flattens(seqs, Len(seqs), f)
    BY <1>1, <1>4 DEF Flattens
<1>6. FlattenSeq(seqs) = IF Len(seqs) = 0 THEN seqs ELSE f[Len(seqs)]
    BY DEF FlattenSeq
<1> HIDE DEF f
<1>7. CASE Len(seqs) = 0
    BY <1>6, <1>7
<1>8. CASE Len(seqs) # 0
    <2> DEFINE U == {n \in Nat : n + 1 <= Len(seqs) => f[n + 1] \in Seq(S)}
    <2>1. \A i \in 1..Len(seqs) : f[i] = IF i = 1 THEN seqs[i] ELSE f[i - 1] \o seqs[i]
        BY <1>5 DEF Flattens
    <2>2. 0 \in U
        BY <1>1, <1>8, <2>1
    <2>3. ASSUME NEW n \in Nat, n \in U
          PROVE  n + 1 \in U
        <3> SUFFICES ASSUME (n + 1) + 1 <= Len(seqs) PROVE f[(n + 1) + 1] \in Seq(S)
            OBVIOUS
        <3> DEFINE i == (n + 1) + 1
        <3>1. i \in 1..Len(seqs) /\ i # 1 /\ i - 1 = n + 1 /\ n + 1 <= Len(seqs)
            BY <1>1
        <3>2. f[i - 1] \in Seq(S) /\ seqs[i] \in Seq(S)
            BY <1>1, <2>3, <3>1
        <3>3. f[i] = f[i - 1] \o seqs[i]
            BY <2>1, <3>1
        <3> HIDE DEF i
        <3>4. f[i] \in Seq(S)
            BY <3>2, <3>3, Concatenated
        <3> QED BY <3>4 DEF i
    <2>4. Nat \subseteq U
        <3> HIDE DEF U
        <3> QED BY <2>2, <2>3, SetInduction
    <2>5. PICK n \in Nat : n + 1 = Len(seqs)
        <3>1. Len(seqs) - 1 \in Nat /\ (Len(seqs) - 1) + 1 = Len(seqs)
            BY <1>1, <1>8
        <3> QED BY <3>1
    <2>6. f[n + 1] \in Seq(S)
        BY <2>4, <2>5
    <2> QED BY <1>6, <1>8, <2>5, <2>6
<1> QED BY <1>7, <1>8

LEMMA SeqOfElements ==
    ASSUME NEW S, NEW s \in Seq(S)
    PROVE  IsSequence(s) /\ Elements(s) \subseteq S
<1>1. Elements(s) = {s[i] : i \in 1..Len(s)}
    BY DEF Elements
<1> QED BY <1>1 DEF IsSequence

LEMMA QuestsTyped ==
    ASSUME NEW def, QuestShape(def)
    PROVE  QuestList(QuestsOf(def))
<1> DEFINE Q == UNION {Elements(Given(c.quests)) : c \in Elements(def)}
           seqs == [c \in DOMAIN def |-> Given(def[c].quests)]
<1>1. Len(def) \in Nat /\ DOMAIN def = 1..Len(def) /\ \A c \in 1..Len(def) : def[c] \in Elements(def)
    BY SequenceFacts DEF QuestShape
<1>2. ASSUME NEW c \in 1..Len(def)
      PROVE  Given(def[c].quests) \in Seq(Q)
    <2>1. Given(def[c].quests) \in Seq(Elements(Given(def[c].quests)))
        BY <1>1 DEF QuestShape, IsSequence
    <2>2. Elements(Given(def[c].quests)) \subseteq Q
        BY <1>1
    <2> HIDE DEF Q
    <2> QED BY <2>1, <2>2
<1>3. \A q \in Q : IsSequence(Given(q.deps))
    BY DEF QuestShape
<1> HIDE DEF Q
<1>4. seqs \in Seq(Seq(Q))
    <2>1. seqs \in [1..Len(def) -> Seq(Q)]
        BY <1>1, <1>2
    <2> HIDE DEF seqs
    <2> QED BY <1>1, <2>1
<1>5. QuestsOf(def) = FlattenSeq(seqs)
    BY DEF QuestsOf
<1> HIDE DEF seqs
<1>6. QuestsOf(def) \in Seq(Q)
    BY <1>4, <1>5, FlattenType
<1> QED BY <1>3, <1>6, SeqOfElements DEF QuestList

-----------------------------------------------------------------------------
(* The validators.                                                         *)

Structural == {"duplicate-quest-id", "missing-dependency", "dependency-cycle"}

LEMMA ItemsNotStructural ==
    ASSUME NEW known, NEW t
    PROVE  /\ TaskFaults(t, known) \cap Structural = {}
           /\ RewardFaults(t, known) \cap Structural = {}
<1> DEFINE others == {"malformed-item-id", "unknown-namespace", "unsupported-type"}
<1>1. \A item : ItemFaults(item, known) \subseteq others
    BY DEF ItemFaults
<1>2. TaskFaults(t, known) \subseteq others
    BY <1>1 DEF TaskFaults
<1>3. RewardFaults(t, known) \subseteq others
    BY <1>1 DEF RewardFaults
<1> QED BY <1>2, <1>3 DEF Structural

LEMMA StructuralFindings ==
    ASSUME NEW def, NEW namespaces, def # <<>>
    PROVE  LET quests == QuestsOf(def)
           IN  QuestFindings(def, namespaces) \cap Structural = {} <=>
                /\ ~(Cardinality(KeysOf(quests)) < Len(quests))
                /\ \A k \in KeysOf(quests) : Elements(Edges(quests)[k]) \subseteq KeysOf(quests)
                /\ FindCycle(quests) = {}
<1> DEFINE quests == QuestsOf(def)
           known == Known(namespaces)
           tasks == UNION {TaskFaults(t, known) :
                        t \in UNION {Elements(Given(q.tasks)) : q \in Elements(quests)}}
           rewards == UNION {RewardFaults(r, known) :
                        r \in UNION {Elements(Given(q.rewards)) : q \in Elements(quests)}}
           empty == {f \in {"empty-definition"} : \E c \in Elements(def) : Given(c.quests) = <<>>}
           twice == Cardinality(KeysOf(quests)) < Len(quests)
           missing == \E k \in KeysOf(quests) : ~(Elements(Edges(quests)[k]) \subseteq KeysOf(quests))
           cycle == FindCycle(quests) # {}
<1>1. tasks \cap Structural = {} /\ rewards \cap Structural = {} /\ empty \cap Structural = {}
    <2>1. tasks \cap Structural = {}
        BY ItemsNotStructural
    <2>2. rewards \cap Structural = {}
        BY ItemsNotStructural
    <2>3. empty \cap Structural = {}
        BY DEF Structural
    <2> QED BY <2>1, <2>2, <2>3
<1>2. QuestFindings(def, namespaces) =
        empty \cup {f \in {"duplicate-quest-id"} : twice} \cup tasks \cup rewards
            \cup {f \in {"missing-dependency"} : missing} \cup {f \in {"dependency-cycle"} : cycle}
    BY DEF QuestFindings
<1> HIDE DEF tasks, rewards, empty, twice, missing, cycle
<1>3. QuestFindings(def, namespaces) \cap Structural = {} <=> ~twice /\ ~missing /\ ~cycle
    BY <1>1, <1>2 DEF Structural
<1> QED BY <1>3 DEF twice, missing, cycle

\* Nothing is said against the structure of a definition if and only if all its
\* quests can be completed (validateDefinition): no cycle, twin or dangling
\* dependency is missed, and none is made up.
THEOREM ValidatorExact ==
    ASSUME NEW def, QuestShape(def), def # <<>>, NEW namespaces
    PROVE  QuestFindings(def, namespaces) \cap Structural = {} <=> Completable(def)
<1> DEFINE quests == QuestsOf(def)
           deps == Edges(quests)
           keys == KeysOf(quests)
<1>1. QuestList(quests)
    BY QuestsTyped
<1>2. /\ Cardinality(keys) \in Nat /\ Len(quests) \in Nat
      /\ Cardinality(keys) <= Len(quests)
      /\ Cardinality(keys) = Len(quests) <=>
            \A i, j \in DOMAIN quests : quests[i].key = quests[j].key => i = j
    BY <1>1, GraphOf
<1>3. /\ DOMAIN deps = keys
      /\ \A k \in keys : \E i \in DOMAIN quests :
            quests[i].key = k /\ deps[k] = Given(quests[i].deps)
    <2>1. DOMAIN quests = 1..Len(quests)
        BY <1>1, SequenceFacts DEF QuestList
    <2> QED BY <1>1, <2>1, EdgesAre
<1>4. FindCycle(quests) = {} <=> Ranked(deps, keys)
    BY <1>1, FindCycleExact
<1>5. \A i \in DOMAIN quests : quests[i] \in Elements(quests) /\ quests[i].key \in keys
    BY DEF Elements, KeysOf
<1>6. \A q \in Elements(quests) : \E i \in DOMAIN quests : q = quests[i]
    BY DEF Elements
<1>7. QuestFindings(def, namespaces) \cap Structural = {} <=>
        /\ ~(Cardinality(keys) < Len(quests))
        /\ \A k \in keys : Elements(deps[k]) \subseteq keys
        /\ FindCycle(quests) = {}
    BY StructuralFindings
<1>8. Completable(def) <=>
        /\ \A i, j \in DOMAIN quests : quests[i].key = quests[j].key => i = j
        /\ \E rank \in [keys -> 1..Len(quests)] :
            \A q \in Elements(quests) : \A d \in Elements(Given(q.deps)) :
                d \in keys /\ rank[d] < rank[q.key]
    BY DEF Completable
<1> HIDE DEF quests, deps, keys
<1>9. ASSUME Cardinality(keys) = Len(quests)
      PROVE  \A q \in Elements(quests) : q.key \in keys /\ deps[q.key] = Given(q.deps)
    <2> SUFFICES ASSUME NEW i \in DOMAIN quests
                 PROVE  quests[i].key \in keys /\ deps[quests[i].key] = Given(quests[i].deps)
        BY <1>6
    <2>1. PICK j \in DOMAIN quests :
            quests[j].key = quests[i].key /\ deps[quests[i].key] = Given(quests[j].deps)
        BY <1>3, <1>5
    <2>2. j = i
        BY <1>2, <1>9, <2>1
    <2> QED BY <1>5, <2>1, <2>2
<1>10. ASSUME Cardinality(keys) = Len(quests),
              \A k \in keys : Elements(deps[k]) \subseteq keys, Ranked(deps, keys)
       PROVE  Completable(def)
    <2>1. PICK rank \in [keys -> 1..Cardinality(keys)] :
            \A k \in keys : \A d \in Elements(deps[k]) \cap DOMAIN deps :
                d \in keys /\ rank[d] < rank[k]
        BY <1>10 DEF Ranked
    <2>2. \A q \in Elements(quests) : \A d \in Elements(Given(q.deps)) :
            d \in keys /\ rank[d] < rank[q.key]
        <3> SUFFICES ASSUME NEW q \in Elements(quests), NEW d \in Elements(Given(q.deps))
                     PROVE  d \in keys /\ rank[d] < rank[q.key]
            OBVIOUS
        <3>1. q.key \in keys /\ deps[q.key] = Given(q.deps)
            BY <1>9, <1>10
        <3>2. d \in Elements(deps[q.key]) /\ d \in keys
            BY <1>10, <3>1
        <3> QED BY <1>3, <2>1, <3>1, <3>2
    <2>3. rank \in [keys -> 1..Len(quests)]
        BY <1>10
    <2> QED BY <1>2, <1>8, <1>10, <2>2, <2>3
<1>11. ASSUME Completable(def)
       PROVE  /\ Cardinality(keys) = Len(quests)
              /\ \A k \in keys : Elements(deps[k]) \subseteq keys
              /\ Ranked(deps, keys)
    <2>1. Cardinality(keys) = Len(quests)
        BY <1>2, <1>8, <1>11
    <2>2. PICK rank \in [keys -> 1..Len(quests)] :
            \A q \in Elements(quests) : \A d \in Elements(Given(q.deps)) :
                d \in keys /\ rank[d] < rank[q.key]
        BY <1>8, <1>11
    <2>3. ASSUME NEW k \in keys, NEW d \in Elements(deps[k])
          PROVE  d \in keys /\ rank[d] < rank[k]
        <3>1. PICK i \in DOMAIN quests : quests[i].key = k /\ deps[k] = Given(quests[i].deps)
            BY <1>3
        <3>2. quests[i] \in Elements(quests) /\ d \in Elements(Given(quests[i].deps))
            BY <1>5, <3>1
        <3> QED BY <2>2, <3>1, <3>2
    <2>4. rank \in [keys -> 1..Cardinality(keys)]
        BY <2>1, <2>2
    <2>5. Ranked(deps, keys)
        BY <2>3, <2>4 DEF Ranked
    <2> QED BY <2>1, <2>3, <2>5
<1>12. ~(Cardinality(keys) < Len(quests)) <=> Cardinality(keys) = Len(quests)
    BY <1>2
<1> QED BY <1>4, <1>7, <1>10, <1>11, <1>12

\* Of a script definition nothing is said against, each script reacts to
\* quests that are there, and has a file of its own (validateScriptDefinition).
LEMMA ScriptsReact ==
    ASSUME NEW def, NEW quests, NEW namespaces, ScriptFindings(def, quests, namespaces) = {}
    PROVE  /\ \A i, j \in DOMAIN def : def[i].filename = def[j].filename => i = j
           /\ \A script \in Elements(def) : Reactive(script, quests)
<1> DEFINE known == Known(namespaces)
           handlers == UNION {Elements(Given(s.handlers)) : s \in Elements(def)}
<1>1. /\ {f \in {"duplicate-filename"} :
            \E i, j \in DOMAIN def : i # j /\ def[i].filename = def[j].filename} = {}
      /\ UNION {HandlerFaults(h, quests, known) : h \in handlers} = {}
    BY DEF ScriptFindings, Elements
<1>2. \A i, j \in DOMAIN def : def[i].filename = def[j].filename => i = j
    BY <1>1
<1>3. ASSUME NEW h \in handlers
      PROVE  quests # Missing /\ h.quest \in KeysOf(QuestsOf(quests))
    <2>1. HandlerFaults(h, quests, known) = {}
        BY <1>1
    <2>2. {f \in {"unknown-quest"} :
            quests = Missing \/ h.quest \notin KeysOf(QuestsOf(quests))} = {}
        BY <2>1 DEF HandlerFaults
    <2> QED BY <2>2
<1> QED BY <1>2, <1>3 DEF Reactive

-----------------------------------------------------------------------------
(* Conversations.                                                          *)

\* Every call of a stretch of the conversation is answered within it.
Answered(m) ==
    \A i \in 1..Len(m) :
        /\ m[i].role = "assistant" =>
            \A k \in 1..m[i].calls :
                i + k \in 1..Len(m) /\ m[i + k] = [role |-> "tool", calls |-> k]
        /\ m[i].role = "tool" =>
            /\ i - m[i].calls \in 1..Len(m)
            /\ m[i - m[i].calls].role = "assistant"
            /\ m[i].calls <= m[i - m[i].calls].calls

\* The model has the word.
Asks(m) == Len(m) \in Nat \ {0} /\ m[Len(m)].role \in {"user", "tool"}

LEMMA Joined ==
    ASSUME NEW m \in Seq(Message), NEW t \in Seq(Message)
    PROVE  /\ m \o t \in Seq(Message) /\ Len(m \o t) = Len(m) + Len(t)
           /\ \A i \in 1..Len(m) : (m \o t)[i] = m[i]
           /\ \A i \in 1..Len(t) : (m \o t)[Len(m) + i] = t[i]
    OBVIOUS

\* A stretch after a stretch.
LEMMA AnsweredJoined ==
    ASSUME NEW m \in Seq(Message), NEW t \in Seq(Message), Answered(m), Answered(t)
    PROVE  Answered(m \o t)
<1> DEFINE c == m \o t
<1>1. /\ Len(c) = Len(m) + Len(t) /\ Len(m) \in Nat /\ Len(t) \in Nat
      /\ \A i \in 1..Len(m) : c[i] = m[i]
      /\ \A i \in 1..Len(t) : c[Len(m) + i] = t[i]
    BY Joined, SeqFacts
<1>2. /\ \A i \in 1..Len(m) : m[i].calls \in 0..2
      /\ \A i \in 1..Len(t) : t[i].calls \in 0..2
    <2>1. /\ \A i \in 1..Len(m) : m[i] \in Message
          /\ \A i \in 1..Len(t) : t[i] \in Message
        BY SeqFacts, Zenon
    <2> QED BY <2>1 DEF Message
<1> HIDE DEF c
<1>3. ASSUME NEW i \in 1..Len(m)
      PROVE  /\ c[i].role = "assistant" =>
                    \A k \in 1..c[i].calls :
                        i + k \in 1..Len(c) /\ c[i + k] = [role |-> "tool", calls |-> k]
             /\ c[i].role = "tool" =>
                    /\ i - c[i].calls \in 1..Len(c)
                    /\ c[i - c[i].calls].role = "assistant"
                    /\ c[i].calls <= c[i - c[i].calls].calls
    <2>1. c[i] = m[i] /\ m[i].calls \in 0..2
        BY <1>1, <1>2
    <2>2. \A j \in 1..Len(m) : j \in 1..Len(c) /\ c[j] = m[j]
        BY <1>1
    <2>3. m[i].role = "assistant" =>
            \A k \in 1..m[i].calls : i + k \in 1..Len(m) /\ m[i + k] = [role |-> "tool", calls |-> k]
        BY DEF Answered
    <2>4. m[i].role = "tool" =>
            /\ i - m[i].calls \in 1..Len(m)
            /\ m[i - m[i].calls].role = "assistant"
            /\ m[i].calls <= m[i - m[i].calls].calls
        BY DEF Answered
    <2> QED BY <2>1, <2>2, <2>3, <2>4
<1>4. ASSUME NEW i, NEW j \in 1..Len(t), i = Len(m) + j
      PROVE  /\ c[i].role = "assistant" =>
                    \A k \in 1..c[i].calls :
                        i + k \in 1..Len(c) /\ c[i + k] = [role |-> "tool", calls |-> k]
             /\ c[i].role = "tool" =>
                    /\ i - c[i].calls \in 1..Len(c)
                    /\ c[i - c[i].calls].role = "assistant"
                    /\ c[i].calls <= c[i - c[i].calls].calls
    <2>1. c[i] = t[j] /\ t[j].calls \in 0..2
        BY <1>1, <1>2, <1>4
    <2>2. \A l \in 1..Len(t) : Len(m) + l \in 1..Len(c) /\ c[Len(m) + l] = t[l]
        BY <1>1
    <2>3. CASE t[j].role = "assistant"
        <3> SUFFICES ASSUME NEW k \in 1..t[j].calls
                     PROVE  i + k \in 1..Len(c) /\ c[i + k] = [role |-> "tool", calls |-> k]
            BY <2>1, <2>3
        <3>1. j + k \in 1..Len(t) /\ t[j + k] = [role |-> "tool", calls |-> k]
            BY <2>3 DEF Answered
        <3>2. Len(m) + (j + k) = i + k
            BY <1>1, <1>4, <2>1
        <3> QED BY <2>2, <3>1, <3>2
    <2>4. CASE t[j].role = "tool"
        <3>1. /\ j - t[j].calls \in 1..Len(t)
              /\ t[j - t[j].calls].role = "assistant"
              /\ t[j].calls <= t[j - t[j].calls].calls
            BY <2>4 DEF Answered
        <3>2. Len(m) + (j - t[j].calls) = i - t[j].calls
            BY <1>1, <1>4, <2>1
        <3>3. /\ i - t[j].calls \in 1..Len(c)
              /\ c[i - t[j].calls] = t[j - t[j].calls]
            BY <2>2, <3>1, <3>2
        <3> QED BY <2>1, <2>4, <3>1, <3>3
    <2> QED BY <2>1, <2>3, <2>4
<1>5. \A i \in 1..Len(c) : i \in 1..Len(m) \/ \E j \in 1..Len(t) : i = Len(m) + j
    <2> SUFFICES ASSUME NEW i \in 1..Len(c), i \notin 1..Len(m)
                 PROVE  \E j \in 1..Len(t) : i = Len(m) + j
        OBVIOUS
    <2>1. i - Len(m) \in 1..Len(t) /\ i = Len(m) + (i - Len(m))
        BY <1>1
    <2> QED BY <2>1
<1>6. Answered(c)
    <2> SUFFICES ASSUME NEW i \in 1..Len(c)
                 PROVE  /\ c[i].role = "assistant" =>
                            \A k \in 1..c[i].calls :
                                i + k \in 1..Len(c) /\ c[i + k] = [role |-> "tool", calls |-> k]
                        /\ c[i].role = "tool" =>
                            /\ i - c[i].calls \in 1..Len(c)
                            /\ c[i - c[i].calls].role = "assistant"
                            /\ c[i].calls <= c[i - c[i].calls].calls
        BY DEF Answered
    <2>1. CASE i \in 1..Len(m)
        BY <1>3, <2>1
    <2>2. CASE \E j \in 1..Len(t) : i = Len(m) + j
        <3>1. PICK j \in 1..Len(t) : i = Len(m) + j
            BY <2>2
        <3> QED BY <1>4, <3>1
    <2> QED BY <1>5, <2>1, <2>2
<1> QED BY <1>6 DEF c

\* A repair turn answers the calls of the reply it repairs.
LEMMA RepairAnswers ==
    ASSUME NEW kind, NEW r \in Replies(kind)
    PROVE  RepairTurn(r) \in Seq(Message) /\ Answered(RepairTurn(r)) /\ Asks(RepairTurn(r))
<1>1. r.calls \in 0..2
    BY DEF Replies
<1>2. CASE r.calls > 0
    <2> DEFINE head == <<[role |-> "assistant", calls |-> r.calls]>>
               rest == [i \in 1..r.calls |-> [role |-> "tool", calls |-> i]]
               t == RepairTurn(r)
    <2>1. t = head \o rest
        BY <1>2 DEF RepairTurn
    <2>2. head \in Seq(Message) /\ Len(head) = 1 /\ head[1] = [role |-> "assistant", calls |-> r.calls]
        BY <1>1 DEF Message
    <2>3. /\ rest \in Seq(Message) /\ Len(rest) = r.calls
          /\ \A i \in 1..r.calls : rest[i] = [role |-> "tool", calls |-> i]
        <3>1. \A i \in 1..r.calls : i \in 0..2
            BY <1>1
        <3>2. \A i \in 1..r.calls : [role |-> "tool", calls |-> i] \in Message
            BY <3>1 DEF Message
        <3> QED BY <1>1, <3>2
    <2> HIDE DEF head, rest, t
    <2>4. /\ t \in Seq(Message) /\ Len(t) = 1 + r.calls
          /\ t[1] = [role |-> "assistant", calls |-> r.calls]
          /\ \A i \in 1..r.calls : t[1 + i] = [role |-> "tool", calls |-> i]
        <3>1. /\ t \in Seq(Message) /\ Len(t) = Len(head) + Len(rest)
              /\ \A i \in 1..Len(head) : t[i] = head[i]
              /\ \A i \in 1..Len(rest) : t[Len(head) + i] = rest[i]
            BY <2>1, <2>2, <2>3, Joined
        <3> QED BY <1>1, <2>2, <2>3, <3>1
    <2>5. Answered(t)
        <3> SUFFICES ASSUME NEW i \in 1..Len(t)
                     PROVE  /\ t[i].role = "assistant" =>
                                \A k \in 1..t[i].calls :
                                    i + k \in 1..Len(t) /\ t[i + k] = [role |-> "tool", calls |-> k]
                            /\ t[i].role = "tool" =>
                                /\ i - t[i].calls \in 1..Len(t)
                                /\ t[i - t[i].calls].role = "assistant"
                                /\ t[i].calls <= t[i - t[i].calls].calls
            BY DEF Answered
        <3>1. CASE i = 1
            BY <1>1, <2>4, <3>1
        <3>2. CASE i # 1
            <4>1. i - 1 \in 1..r.calls /\ i = 1 + (i - 1)
                BY <1>1, <2>4, <3>2
            <4>2. t[i] = [role |-> "tool", calls |-> i - 1]
                BY <2>4, <4>1
            <4>3. i - (i - 1) = 1
                BY <4>1
            <4> QED BY <1>1, <2>4, <4>1, <4>2, <4>3
        <3> QED BY <3>1, <3>2
    <2>6. Asks(t)
        <3>1. r.calls \in 1..r.calls
            BY <1>1, <1>2
        <3>2. t[1 + r.calls] = [role |-> "tool", calls |-> r.calls]
            BY <2>4, <3>1
        <3>3. t[1 + r.calls].role = "tool"
            BY <3>2
        <3> QED BY <1>1, <2>4, <3>3 DEF Asks
    <2> QED BY <2>4, <2>5, <2>6 DEF t
<1>3. CASE ~(r.calls > 0)
    <2> DEFINE one == <<Says("assistant")>>
               two == <<Says("user")>>
               t == one \o two
    <2>1. /\ one \in Seq(Message) /\ Len(one) = 1 /\ one[1] = Says("assistant")
          /\ two \in Seq(Message) /\ Len(two) = 1 /\ two[1] = Says("user")
        BY DEF Says, Message
    <2>2. /\ Says("user").role = "user" /\ Says("assistant").role = "assistant"
          /\ Says("assistant").calls = 0
        BY DEF Says
    <2>3. <<>> \o two = two
        OBVIOUS
    <2> HIDE DEF one, two
    <2>4. t \in Seq(Message) /\ Len(t) = 2 /\ t[1] = Says("assistant") /\ t[2] = Says("user")
        <3>1. /\ t \in Seq(Message) /\ Len(t) = Len(one) + Len(two)
              /\ \A i \in 1..Len(one) : t[i] = one[i]
              /\ \A i \in 1..Len(two) : t[Len(one) + i] = two[i]
            BY <2>1, Joined
        <3> QED BY <2>1, <3>1
    <2>5. CASE RepairTurn(r) = two
        <3> DEFINE u == RepairTurn(r)
        <3>1. u \in Seq(Message) /\ Len(u) = 1 /\ u[1].role = "user"
            BY <2>1, <2>2, <2>5
        <3> HIDE DEF u
        <3>2. Answered(u) /\ Asks(u)
            <4>1. \A i \in 1..Len(u) : u[i].role = "user"
                BY <3>1
            <4> QED BY <3>1, <4>1 DEF Answered, Asks
        <3> QED BY <3>1, <3>2 DEF u
    <2>6. CASE RepairTurn(r) = t
        <3> DEFINE u == RepairTurn(r)
        <3>1. /\ u \in Seq(Message) /\ Len(u) = 2 /\ u[1].role = "assistant" /\ u[1].calls = 0
              /\ u[2].role = "user"
            BY <2>2, <2>4, <2>6
        <3> HIDE DEF u
        <3>2. Answered(u) /\ Asks(u)
            <4>1. \A i \in 1..Len(u) : u[i].role = "user" \/ (u[i].role = "assistant" /\ u[i].calls = 0)
                BY <3>1
            <4> QED BY <3>1, <4>1 DEF Answered, Asks
        <3> QED BY <3>1, <3>2 DEF u
    <2>7. CASE r.payload = EmptyText
        BY <1>3, <2>3, <2>5, <2>7 DEF RepairTurn, two
    <2>8. CASE r.payload # EmptyText
        BY <1>3, <2>6, <2>8 DEF RepairTurn, one, two
    <2> QED BY <2>7, <2>8
<1> QED BY <1>2, <1>3

LEMMA AsksJoined ==
    ASSUME NEW m \in Seq(Message), NEW t \in Seq(Message), Asks(m), Asks(t), m[1].role = "system"
    PROVE  Asks(m \o t) /\ (m \o t)[1].role = "system"
<1> DEFINE c == m \o t
<1>1. /\ Len(c) = Len(m) + Len(t)
      /\ \A i \in 1..Len(m) : c[i] = m[i]
      /\ \A i \in 1..Len(t) : c[Len(m) + i] = t[i]
    BY Joined
<1> HIDE DEF c
<1>2. Len(m) \in Nat \ {0} /\ Len(t) \in Nat \ {0} /\ t[Len(t)].role \in {"user", "tool"}
    BY DEF Asks
<1>3. 1 \in 1..Len(m) /\ Len(t) \in 1..Len(t)
    BY <1>2
<1>4. c[1] = m[1] /\ c[Len(c)] = t[Len(t)] /\ Len(c) \in Nat \ {0}
    BY <1>1, <1>2, <1>3
<1> QED BY <1>2, <1>4 DEF Asks, c

-----------------------------------------------------------------------------
(* Files.                                                                  *)

\* The validator of its kind has nothing against a definition.
Checked(kind, def, quests) ==
    IF kind = "quests" THEN QuestFindings(def, Namespaces) = {}
    ELSE ScriptFindings(def, quests, Namespaces) = {}

\* What is known of the files: each is a part of a definition of its kind that
\* was accepted, and chapters that were all written, to a file each, make up
\* such a definition.
DiskOK ==
    /\ DOMAIN disk = Kinds \X Names
    /\ \A p \in Kinds \X Names :
        disk[p] # Missing =>
            \E def \in Defs(p[1]) : /\ disk[p].file \in Elements(def)
                                   /\ Checked(p[1], def, disk[p].quests)
    /\ whole \in [Kinds -> Seq(Names)]
    /\ whole["quests"] # <<>> /\ Distinct(whole["quests"]) =>
            OnDisk("quests") \in QuestDefs /\ Checked("quests", OnDisk("quests"), Missing)
    /\ Distinct(whole["kubejs"])

LEMMA EmptyNames == <<>> \in Seq(Names)
    OBVIOUS

LEMMA WriteKeepsDisk ==
    ASSUME DiskOK, draft.definition \in Defs(cmd.kind), cmd.kind \in Kinds, Write,
           Checked(cmd.kind, draft.definition, cmd.quests)
    PROVE  DiskOK'
<1> DEFINE def == draft.definition
<1>1. def \in QuestDefs \cup ScriptDefs
    BY DEF Defs
<1>2. /\ Len(def) \in Nat /\ DOMAIN def = 1..Len(def) /\ IsSequence(def)
      /\ \A i \in 1..Len(def) : def[i] \in Elements(def) /\ def[i].filename \in Names
    <2>1. IsSequence(def)
        BY <1>1, AuthoringAssumption DEF AuthoringAssumption, QuestShape
    <2>2. \A i \in DOMAIN def : def[i].filename \in Names
        BY <1>1, AuthoringAssumption DEF AuthoringAssumption
    <2> QED BY <2>1, <2>2, SequenceFacts
<1> DEFINE last(n, p) == {i \in 1..n : /\ Path(def, i) = p
                                      /\ \A j \in i + 1..n : Path(def, j) # p}
<1>3. PICK n \in 0..Len(def) :
        /\ disk' = [p \in DOMAIN disk |->
                        IF last(n, p) = {} THEN disk[p]
                        ELSE [file |-> def[CHOOSE i \in last(n, p) : TRUE],
                              quests |-> cmd.quests]]
        /\ whole' = [whole EXCEPT ![cmd.kind] =
                        IF n = Len(def) THEN [i \in 1..n |-> def[i].filename] ELSE <<>>]
    BY DEF Write
<1>4. \A i \in 1..Len(def) : Path(def, i) = <<cmd.kind, def[i].filename>>
    BY DEF Path
<1>5. /\ DOMAIN disk = Kinds \X Names /\ whole \in [Kinds -> Seq(Names)]
      /\ Distinct(whole["kubejs"])
      /\ "quests" \in Kinds /\ "kubejs" \in Kinds
    BY DEF DiskOK, Kinds
<1> HIDE DEF def
<1>6. ASSUME NEW p \in Kinds \X Names, disk'[p] # Missing
      PROVE  \E d \in Defs(p[1]) : /\ disk'[p].file \in Elements(d)
                                  /\ Checked(p[1], d, disk'[p].quests)
    <2>1. CASE last(n, p) = {}
        <3>1. disk'[p] = disk[p]
            BY <1>3, <1>5, <2>1
        <3> QED BY <1>6, <3>1 DEF DiskOK
    <2>2. CASE last(n, p) # {}
        <3>1. PICK k \in last(n, p) : disk'[p] = [file |-> def[k], quests |-> cmd.quests]
            BY <1>3, <1>5, <2>2
        <3>2. k \in 1..Len(def) /\ p[1] = cmd.kind
            BY <1>2, <1>4, <3>1
        <3>3. disk'[p].file \in Elements(def) /\ disk'[p].quests = cmd.quests
            BY <1>2, <3>1, <3>2
        <3> QED BY <3>2, <3>3 DEF def
    <2> QED BY <2>1, <2>2
<1> DEFINE names == [i \in 1..n |-> def[i].filename]
<1>7. names \in Seq(Names) /\ DOMAIN names = 1..n
    BY <1>2
<1>8. whole' \in [Kinds -> Seq(Names)]
    BY <1>3, <1>5, <1>7, EmptyNames
<1>9. Distinct(whole'["kubejs"])
    <2>1. CASE cmd.kind = "kubejs" /\ n = Len(def)
        <3>1. whole'["kubejs"] = names
            BY <1>3, <1>5, <2>1
        <3>2. \A i, j \in DOMAIN def : def[i].filename = def[j].filename => i = j
            BY <2>1, ScriptsReact DEF Checked, def
        <3> QED BY <1>2, <1>7, <2>1, <3>1, <3>2 DEF Distinct
    <2>2. CASE cmd.kind = "kubejs" /\ n # Len(def)
        <3>1. whole'["kubejs"] = <<>>
            BY <1>3, <1>5, <2>2
        <3> QED BY <3>1 DEF Distinct
    <2>3. CASE cmd.kind # "kubejs"
        BY <1>3, <1>5, <2>3
    <2> QED BY <2>1, <2>2, <2>3
<1>10. ASSUME whole'["quests"] # <<>>, Distinct(whole'["quests"])
       PROVE  OnDisk("quests")' \in QuestDefs /\ Checked("quests", OnDisk("quests")', Missing)
    <2>1. OnDisk("quests")' =
            [i \in DOMAIN whole'["quests"] |-> disk'[<<"quests", whole'["quests"][i]>>].file]
        BY DEF OnDisk
    <2>2. CASE cmd.kind = "quests"
        <3>1. n = Len(def) /\ whole'["quests"] = names
            BY <1>3, <1>5, <1>10, <2>2
        <3>2. ASSUME NEW i \in 1..n
              PROVE  disk'[<<"quests", names[i]>>].file = def[i]
            <4> DEFINE p == <<"quests", names[i]>>
            <4>1. p \in DOMAIN disk /\ Path(def, i) = p /\ i \in 1..n
                BY <1>2, <1>4, <1>5, <2>2, <3>1
            <4>2. \A j \in 1..n : Path(def, j) = p => j = i
                <5>1. \A j \in 1..n : Path(def, j) = p => names[j] = names[i]
                    BY <1>4, <3>1
                <5> QED BY <1>7, <1>10, <3>1, <5>1 DEF Distinct
            <4> HIDE DEF p
            <4>3. last(n, p) = {i}
                <5>1. \A j \in i + 1..n : j \in 1..n /\ j # i
                    BY <1>2, <3>1
                <5> QED BY <4>1, <4>2, <5>1
            <4>4. (CHOOSE k \in {i} : TRUE) = i
                OBVIOUS
            <4>5. disk'[p] = [file |-> def[i], quests |-> cmd.quests]
                BY <1>3, <4>1, <4>3, <4>4
            <4> QED BY <4>5 DEF p
        <3>3. OnDisk("quests")' = [i \in 1..n |-> def[i]]
            <4> HIDE DEF names
            <4>1. OnDisk("quests")' = [i \in 1..n |-> disk'[<<"quests", names[i]>>].file]
                BY <1>7, <2>1, <3>1
            <4> QED BY <3>2, <4>1
        <3>4. OnDisk("quests")' = def
            BY <1>2, <3>1, <3>3 DEF IsSequence
        <3> QED BY <2>2, <3>4 DEF Checked, Defs, def
    <2>3. CASE cmd.kind # "quests"
        <3>1. whole'["quests"] = whole["quests"]
            BY <1>3, <1>5, <2>3
        <3>2. \A x \in Names : disk'[<<"quests", x>>] = disk[<<"quests", x>>]
            <4> SUFFICES ASSUME NEW x \in Names
                         PROVE  disk'[<<"quests", x>>] = disk[<<"quests", x>>]
                OBVIOUS
            <4>1. \A i \in 1..Len(def) : Path(def, i) # <<"quests", x>>
                BY <1>4, <2>3
            <4>2. last(n, <<"quests", x>>) = {}
                BY <1>2, <4>1
            <4>3. <<"quests", x>> \in DOMAIN disk
                BY <1>5
            <4> QED BY <1>3, <4>2, <4>3
        <3>3. \A i \in DOMAIN whole["quests"] : whole["quests"][i] \in Names
            <4>1. whole["quests"] \in Seq(Names)
                BY <1>5
            <4> QED BY <4>1, SeqFacts
        <3>4. OnDisk("quests")' = OnDisk("quests")
            BY <2>1, <3>1, <3>2, <3>3 DEF OnDisk
        <3> QED BY <1>10, <3>1, <3>4 DEF DiskOK
    <2> QED BY <2>2, <2>3
<1>11. DOMAIN disk' = Kinds \X Names
    BY <1>3, <1>5
<1> QED BY <1>6, <1>8, <1>9, <1>10, <1>11 DEF DiskOK, Checked

-----------------------------------------------------------------------------
(* The invariant.                                                          *)

\* What a request carries.
Conversation ==
    pc \in {"asking", "waiting"} =>
        Asks(messages) /\ messages[1].role = "system" /\ Answered(messages)

\* While a command runs it has no outcome, a definition that was given has no
\* reply, a wait is counted when it ends, and what was accepted has the shape.
Running ==
    /\ pc # "idle" => outcome = "none"
    /\ pc = "given" => reply = Missing
    /\ pc = "waiting" => tries < MaxRetries
    /\ pc \in {"probing", "writing"} =>
        /\ draft.definition \in Defs(cmd.kind)
        /\ Checked(cmd.kind, draft.definition, cmd.quests)

AuthorInv == TypeOK /\ Conversation /\ Running /\ ReportOfLastDraft /\ DiskOK

LEMMA EmptyTyped == <<>> \in Seq(Message)
    OBVIOUS

LEMMA Bounds == MaxRetries \in Nat /\ MaxCommands \in Nat /\ 0 \in 0..MaxRetries
<1>1. MaxRetries \in Nat /\ MaxCommands \in Nat
    BY AuthoringAssumption, Zenon DEF AuthoringAssumption
<1> QED BY <1>1

LEMMA Running1 ==
    ASSUME TypeOK, pc # "idle"
    PROVE  cmd \in Command /\ cmd.kind \in Kinds
    BY DEF TypeOK, Command

\* A command that ends keeps what it wrote and found.
LEMMA EndsKeepsInv ==
    ASSUME AuthorInv, NEW how \in {"no model", "invalid", "thrown", "shown", "refused", "written"},
           Ends(how), cmd' \in Command, ran' \in 0..MaxCommands, DiskOK', ReportOfLastDraft'
    PROVE  AuthorInv'
<1>1. pc' = "idle" /\ outcome' = how /\ attempt' = 0 /\ tries' = 0 /\ messages' = <<>>
    BY DEF Ends
<1>2. TypeOK'
    <2>1. 0 \in 0..MaxRetries /\ 0 \in Nat
        BY Bounds
    <2> QED BY <1>1, <2>1, EmptyTyped DEF TypeOK, DiskOK
<1> QED BY <1>1, <1>2 DEF AuthorInv, Conversation, Running

LEMMA DiskStays ==
    ASSUME DiskOK, UNCHANGED instance PROVE DiskOK'
    BY DEF DiskOK, Checked, OnDisk, instance

\* No report without a failed draft.
LEMMA NoReport ==
    ASSUME outcome' # "invalid" \/ reply' = Missing
    PROVE  ReportOfLastDraft'
    BY DEF ReportOfLastDraft

LEMMA StartKeepsInv ==
    ASSUME AuthorInv, NEW c \in Command, NoModel(c) \/ Describe(c) \/ Define(c)
    PROVE  AuthorInv'
<1>1. /\ pc = "idle" /\ ran < MaxCommands /\ cmd' = c /\ ran' = ran + 1
      /\ reply' = Missing /\ draft' = NoDraft /\ UNCHANGED instance
    BY DEF NoModel, Describe, Define, Start
<1>2. ran' \in 0..MaxCommands
    <2>1. ran \in 0..MaxCommands
        BY DEF AuthorInv, TypeOK
    <2> QED BY <1>1, <2>1, Bounds
<1>3. DiskOK' /\ ReportOfLastDraft'
    BY <1>1, DiskStays, NoReport DEF AuthorInv
<1>4. CASE Ends("no model") \/ Ends("invalid")
    BY <1>1, <1>2, <1>3, <1>4, EndsKeepsInv
<1>5. CASE /\ pc' = "asking" /\ attempt' = 1 /\ messages' = <<Says("system"), Says("user")>>
           /\ outcome' = "none" /\ UNCHANGED tries
    <2>1. /\ messages' \in Seq(Message) /\ Len(messages') = 2
          /\ messages'[1].role = "system" /\ messages'[2].role = "user"
        BY <1>5 DEF Says, Message
    <2>2. \A i \in 1..Len(messages') : messages'[i].role \in {"system", "user"}
        BY <2>1
    <2>3. Conversation'
        <3>1. Asks(messages')
            BY <2>1 DEF Asks
        <3>2. Answered(messages')
            BY <2>2 DEF Answered
        <3> QED BY <2>1, <3>1, <3>2 DEF Conversation
    <2>4. TypeOK'
        BY <1>1, <1>2, <1>3, <1>5, <2>1, MissingAssumption DEF AuthorInv, TypeOK, DiskOK
    <2> QED BY <1>3, <1>5, <2>3, <2>4 DEF AuthorInv, Running
<1>6. CASE pc' = "given" /\ outcome' = "none" /\ UNCHANGED loop
    <2>1. TypeOK'
        BY <1>1, <1>2, <1>3, <1>6, MissingAssumption DEF AuthorInv, TypeOK, DiskOK, loop
    <2> QED BY <1>1, <1>3, <1>6, <2>1 DEF AuthorInv, Running, Conversation
<1> QED BY <1>4, <1>5, <1>6 DEF NoModel, Describe, Define

LEMMA WaitKeepsInv ==
    ASSUME AuthorInv, Busy \/ Awake \/ Fails
    PROVE  AuthorInv'
<1>1. CASE pc = "asking" /\ Throws /\ UNCHANGED <<reply, draft>>
    <2>1. Ends("thrown") /\ UNCHANGED <<cmd, ran, instance>>
        BY <1>1 DEF Throws
    <2>2. cmd' \in Command /\ ran' \in 0..MaxCommands
        BY <1>1, <2>1, Running1 DEF AuthorInv, TypeOK
    <2>3. DiskOK' /\ ReportOfLastDraft'
        BY <2>1, DiskStays, NoReport DEF AuthorInv, Ends
    <2> QED BY <2>1, <2>2, <2>3, EndsKeepsInv
<1>2. CASE /\ pc = "asking" /\ tries < MaxRetries
           /\ pc' = "waiting" /\ UNCHANGED <<cmd, ran, loop, outcome, instance, reply, draft>>
    <2>1. TypeOK'
        BY <1>2 DEF AuthorInv, TypeOK, loop, instance
    <2>2. Conversation' /\ Running'
        BY <1>2 DEF AuthorInv, Conversation, Running, loop
    <2>3. ReportOfLastDraft'
        BY <1>2, NoReport DEF AuthorInv, Running
    <2>4. DiskOK'
        BY <1>2, DiskStays DEF AuthorInv
    <2> QED BY <2>1, <2>2, <2>3, <2>4 DEF AuthorInv
<1>3. CASE Awake
    <2>1. /\ pc = "waiting" /\ pc' = "asking" /\ tries' = tries + 1
          /\ UNCHANGED <<cmd, ran, attempt, messages, reply, draft, outcome, instance>>
        BY <1>3 DEF Awake
    <2>2. tries' \in 0..MaxRetries
        <3>1. tries \in 0..MaxRetries /\ tries < MaxRetries
            BY <2>1 DEF AuthorInv, TypeOK, Running
        <3> QED BY <2>1, <3>1, Bounds
    <2>3. TypeOK'
        BY <2>1, <2>2 DEF AuthorInv, TypeOK, instance
    <2>4. Conversation' /\ Running'
        BY <2>1 DEF AuthorInv, Conversation, Running
    <2>5. ReportOfLastDraft'
        BY <2>1, NoReport DEF AuthorInv, Running
    <2>6. DiskOK'
        BY <2>1, DiskStays DEF AuthorInv
    <2> QED BY <2>3, <2>4, <2>5, <2>6 DEF AuthorInv
<1> QED BY <1>1, <1>2, <1>3 DEF Busy, Fails

\* A definition was accepted.
LEMMA GeneratedKeepsInv ==
    ASSUME AuthorInv, pc # "idle", NEW def \in Defs(cmd.kind) \cup {Misshapen}, Generated(def),
           reply' # Missing => reply' \in Replies(cmd.kind)
    PROVE  AuthorInv'
<1>1. /\ Accepted(def) /\ draft' = [definition |-> def, findings |-> {}, error |-> FALSE]
      /\ pc' = "probing" /\ UNCHANGED <<cmd, ran, loop, outcome, instance>>
    BY DEF Generated
<1>2. def \in Defs(cmd.kind)
    BY <1>1 DEF Accepted, Crashes
<1>3. TypeOK'
    BY <1>1 DEF AuthorInv, TypeOK, loop, instance
<1>4. Conversation' /\ Running'
    <2>1. Checked(cmd.kind, def, cmd.quests)
        BY <1>1 DEF Accepted, Findings, Checked
    <2>2. draft'.definition = def /\ cmd' = cmd
        BY <1>1
    <2>3. Checked(cmd.kind, draft.definition, cmd.quests)'
        BY <2>1, <2>2 DEF Checked
    <2> QED BY <1>1, <1>2, <2>2, <2>3 DEF AuthorInv, Conversation, Running
<1>5. ReportOfLastDraft'
    BY <1>1, NoReport DEF AuthorInv, Running
<1>6. DiskOK'
    BY <1>1, DiskStays DEF AuthorInv
<1> QED BY <1>3, <1>4, <1>5, <1>6 DEF AuthorInv

\* A definition that could not even be looked at.
LEMMA CrashKeepsInv ==
    ASSUME AuthorInv, pc # "idle", Throws
    PROVE  AuthorInv'
<1>1. Ends("thrown") /\ UNCHANGED <<cmd, ran, instance>>
    BY DEF Throws
<1>2. cmd' \in Command /\ ran' \in 0..MaxCommands
    BY <1>1, Running1 DEF AuthorInv, TypeOK
<1>3. DiskOK' /\ ReportOfLastDraft'
    BY <1>1, DiskStays, NoReport DEF AuthorInv, Ends
<1> QED BY <1>1, <1>2, <1>3, EndsKeepsInv

\* A draft that is not accepted: the conversation goes on, or the report is of
\* this draft.
LEMMA RetryKeepsInv ==
    ASSUME AuthorInv, pc = "asking", NEW r \in Replies(cmd.kind), reply' = r, TryAgain(r)
    PROVE  AuthorInv'
<1>1. /\ draft' = Rejected(r) /\ UNCHANGED <<cmd, ran, instance>>
      /\ r.payload \notin Unparsable => ~Crashes(r.payload) /\ ~Accepted(r.payload)
    BY DEF TryAgain
<1>2. cmd \in Command /\ ran \in 0..MaxCommands /\ DiskOK'
    BY <1>1, Running1, DiskStays DEF AuthorInv, TypeOK
<1>3. CASE /\ attempt' = attempt + 1 /\ tries' = 0 /\ messages' = messages \o RepairTurn(r)
           /\ UNCHANGED <<pc, outcome>>
    <2>1. /\ messages \in Seq(Message) /\ Asks(messages) /\ messages[1].role = "system"
          /\ Answered(messages)
        BY DEF AuthorInv, TypeOK, Conversation
    <2>2. RepairTurn(r) \in Seq(Message) /\ Answered(RepairTurn(r)) /\ Asks(RepairTurn(r))
        BY RepairAnswers
    <2>3. messages' \in Seq(Message) /\ Answered(messages') /\ Asks(messages') /\ messages'[1].role = "system"
        BY <1>3, <2>1, <2>2, AnsweredJoined, AsksJoined, Joined
    <2>4. 0 \in 0..MaxRetries /\ attempt' \in Nat
        <3>1. attempt \in Nat
            BY DEF AuthorInv, TypeOK
        <3> QED BY <1>3, <3>1, Bounds
    <2>5. TypeOK'
        BY <1>1, <1>2, <1>3, <2>3, <2>4 DEF AuthorInv, TypeOK, DiskOK
    <2>6. Conversation' /\ Running'
        BY <1>3, <2>3 DEF AuthorInv, Conversation, Running
    <2>7. ReportOfLastDraft'
        BY <1>3, NoReport DEF AuthorInv, Running
    <2> QED BY <1>2, <2>5, <2>6, <2>7 DEF AuthorInv
<1>4. CASE Ends("invalid")
    <2>1. Findings(r.payload)' = Findings(r.payload)
        BY <1>1 DEF Findings
    <2>2. CASE r.payload \in Unparsable
        <3>1. draft' = [definition |-> Missing, findings |-> {}, error |-> TRUE]
            BY <1>1, <2>2 DEF Rejected
        <3>2. ReportOfLastDraft'
            BY <2>2, <3>1 DEF ReportOfLastDraft
        <3> QED BY <1>1, <1>2, <1>4, <3>2, EndsKeepsInv
    <2>3. CASE r.payload \notin Unparsable
        <3>1. draft' = [definition |-> r.payload, findings |-> Findings(r.payload), error |-> FALSE]
            BY <1>1, <2>3 DEF Rejected
        <3>2. Findings(r.payload) # {}
            BY <1>1, <2>3 DEF Accepted
        <3>3. /\ draft'.definition = r.payload /\ draft'.findings = Findings(r.payload)
              /\ draft'.error = FALSE
            BY <3>1
        <3>4. Findings(draft.definition)' = Findings(r.payload)
            BY <1>1, <3>3 DEF Findings
        <3>5. ReportOfLastDraft'
            BY <2>3, <3>2, <3>3, <3>4 DEF ReportOfLastDraft
        <3> QED BY <1>1, <1>2, <1>4, <3>5, EndsKeepsInv
    <2> QED BY <2>2, <2>3
<1> QED BY <1>3, <1>4 DEF TryAgain

LEMMA DraftKeepsInv ==
    ASSUME AuthorInv, pc # "idle", NEW r \in Replies(cmd.kind), Drafted(r)
    PROVE  AuthorInv'
<1>1. pc = "asking" /\ reply' = r
    BY DEF Drafted
<1>2. r.payload \notin Unparsable => r.payload \in Defs(cmd.kind) \cup {Misshapen}
    BY DEF Replies
<1>3. CASE TryAgain(r)
    BY <1>1, <1>3, RetryKeepsInv
<1>4. CASE Throws
    BY <1>4, CrashKeepsInv
<1>5. CASE r.payload \notin Unparsable /\ Generated(r.payload)
    <2>1. UNCHANGED cmd
        BY <1>5 DEF Generated
    <2>2. r \in Replies(cmd.kind)
        OBVIOUS
    <2> QED BY <1>1, <1>2, <1>5, <2>1, <2>2, GeneratedKeepsInv
<1> QED BY <1>3, <1>4, <1>5 DEF Drafted

LEMMA GivenKeepsInv ==
    ASSUME AuthorInv, pc # "idle", NEW def \in Defs(cmd.kind) \cup {Misshapen}, GivenDef(def)
    PROVE  AuthorInv'
<1>1. pc = "given" /\ reply = Missing /\ UNCHANGED reply
    BY DEF GivenDef, AuthorInv, Running
<1>2. CASE Throws
    BY <1>2, CrashKeepsInv
<1>3. CASE Ends("invalid") /\ UNCHANGED <<cmd, ran, instance>>
    <2>1. cmd' \in Command /\ ran' \in 0..MaxCommands
        BY <1>3, Running1 DEF AuthorInv, TypeOK
    <2>2. DiskOK' /\ ReportOfLastDraft'
        BY <1>1, <1>3, DiskStays, NoReport DEF AuthorInv
    <2> QED BY <1>3, <2>1, <2>2, EndsKeepsInv
<1>4. CASE Generated(def)
    BY <1>1, <1>4, GeneratedKeepsInv
<1> QED BY <1>2, <1>3, <1>4 DEF GivenDef

LEMMA ProbeKeepsInv ==
    ASSUME AuthorInv, Probe
    PROVE  AuthorInv'
<1>1. pc = "probing" /\ UNCHANGED <<cmd, ran, reply, draft, instance>>
    BY DEF Probe
<1>2. CASE Ends("shown") \/ Ends("refused")
    <2>1. cmd' \in Command /\ ran' \in 0..MaxCommands
        BY <1>1, Running1 DEF AuthorInv, TypeOK
    <2>2. DiskOK' /\ ReportOfLastDraft'
        BY <1>1, <1>2, DiskStays, NoReport DEF AuthorInv, Ends
    <2> QED BY <1>2, <2>1, <2>2, EndsKeepsInv
<1>3. CASE pc' = "writing" /\ UNCHANGED <<loop, outcome>>
    <2>1. TypeOK'
        BY <1>1, <1>3 DEF AuthorInv, TypeOK, loop, instance
    <2>2. Conversation' /\ Running'
        BY <1>1, <1>3 DEF AuthorInv, Conversation, Running, Checked
    <2>3. ReportOfLastDraft'
        BY <1>1, <1>3, NoReport DEF AuthorInv, Running
    <2>4. DiskOK'
        BY <1>1, DiskStays DEF AuthorInv
    <2> QED BY <2>1, <2>2, <2>3, <2>4 DEF AuthorInv
<1>4. \/ ~cmd.apply /\ Ends("shown")
      \/ cmd.apply /\ Destructive /\ ~cmd.force /\ Ends("refused")
      \/ pc' = "writing" /\ UNCHANGED <<loop, outcome>>
    BY DEF Probe
<1> QED BY <1>2, <1>3, <1>4

LEMMA WriteKeepsInv ==
    ASSUME AuthorInv, Write
    PROVE  AuthorInv'
<1>1. pc = "writing" /\ UNCHANGED <<cmd, ran, reply, draft>>
    BY DEF Write
<1>2. Ends("written") \/ Ends("thrown")
    BY DEF Write
<1>3. cmd' \in Command /\ ran' \in 0..MaxCommands /\ cmd.kind \in Kinds
    BY <1>1, Running1 DEF AuthorInv, TypeOK
<1>4. DiskOK'
    BY <1>1, <1>3, WriteKeepsDisk DEF AuthorInv, Running
<1>5. ReportOfLastDraft'
    BY <1>2, NoReport DEF Ends
<1> QED BY <1>2, <1>3, <1>4, <1>5, EndsKeepsInv

LEMMA InitAuthorInv == Init => AuthorInv
<1> SUFFICES ASSUME Init PROVE AuthorInv
    OBVIOUS
<1>1. 0 \in 0..MaxRetries /\ 0 \in 0..MaxCommands /\ 0 \in Nat
    BY Bounds
<1>2. <<>> \in Seq(Message)
    OBVIOUS
<1>3. TypeOK
    BY <1>1, <1>2, EmptyNames DEF Init, TypeOK
<1>4. whole["quests"] = <<>> /\ whole["kubejs"] = <<>>
    BY DEF Init, Kinds
<1>5. DiskOK
    BY <1>4, EmptyNames DEF Init, DiskOK, Distinct
<1> QED BY <1>3, <1>5 DEF Init, AuthorInv, Conversation, Running, ReportOfLastDraft

LEMMA StepKeepsInv == AuthorInv /\ [Next]_vars => AuthorInv'
<1> SUFFICES ASSUME AuthorInv, [Next]_vars PROVE AuthorInv'
    OBVIOUS
<1>1. CASE \E c \in Command : NoModel(c) \/ Describe(c) \/ Define(c)
    BY <1>1, StartKeepsInv
<1>2. CASE pc # "idle" /\ Answers
    <2>1. CASE Busy \/ Fails
        BY <2>1, WaitKeepsInv
    <2>2. CASE \E r \in Replies(cmd.kind) : Drafted(r)
        BY <1>2, <2>2, DraftKeepsInv
    <2> QED BY <1>2, <2>1, <2>2 DEF Answers
<1>3. CASE pc # "idle" /\ Works
    <2>1. CASE Awake
        BY <2>1, WaitKeepsInv
    <2>2. CASE \E def \in Defs(cmd.kind) \cup {Misshapen} : GivenDef(def)
        BY <1>3, <2>2, GivenKeepsInv
    <2>3. CASE Probe
        BY <2>3, ProbeKeepsInv
    <2>4. CASE Write
        BY <2>4, WriteKeepsInv
    <2> QED BY <1>3, <2>1, <2>2, <2>3, <2>4 DEF Works
<1>4. CASE UNCHANGED vars
    <2>1. UNCHANGED <<pc, cmd, ran, attempt, tries, messages, reply, draft, outcome, instance>>
        BY <1>4 DEF vars, loop
    <2>2. TypeOK' /\ Conversation' /\ Running'
        BY <2>1 DEF AuthorInv, TypeOK, Conversation, Running, Checked, instance
    <2>3. ReportOfLastDraft'
        BY <2>1 DEF AuthorInv, ReportOfLastDraft, Findings
    <2>4. DiskOK'
        BY <2>1, DiskStays DEF AuthorInv
    <2> QED BY <2>2, <2>3, <2>4 DEF AuthorInv
<1> QED BY <1>1, <1>2, <1>3, <1>4 DEF Next

LEMMA AlwaysAuthorInv == Spec => []AuthorInv
    BY InitAuthorInv, StepKeepsInv, PTL DEF Spec

\* Types, for any definitions, replies and bounds: in particular what is on
\* disk is a file of a definition of its kind, and retries stay bounded.
THEOREM TypeCorrect == Spec => []TypeOK
<1>1. AuthorInv => TypeOK
    BY DEF AuthorInv
<1> QED BY <1>1, AlwaysAuthorInv, PTL

\* Whatever the model answers and however often it is asked again, each request
\* answers every tool call of the turns before it (appendRepairTurn).
THEOREM RequestsAnswerCalls == Spec => []TranscriptAnswered
<1>1. AuthorInv => TranscriptAnswered
    <2> SUFFICES ASSUME AuthorInv, pc \in {"asking", "waiting"}
                 PROVE  /\ messages[1].role = "system"
                        /\ messages[Len(messages)].role \in {"user", "tool"}
                        /\ \A i \in DOMAIN messages :
                            /\ messages[i].role = "assistant" =>
                                \A k \in 1..messages[i].calls :
                                    /\ i + k \in DOMAIN messages
                                    /\ messages[i + k] = [role |-> "tool", calls |-> k]
                            /\ messages[i].role = "tool" =>
                                LET asked == messages[i - messages[i].calls]
                                IN  asked.role = "assistant" /\ messages[i].calls <= asked.calls
        BY DEF TranscriptAnswered
    <2>1. DOMAIN messages = 1..Len(messages)
        <3>1. messages \in Seq(Message)
            BY DEF AuthorInv, TypeOK
        <3> QED BY <3>1, SeqFacts
    <2>2. Asks(messages) /\ messages[1].role = "system" /\ Answered(messages)
        BY DEF AuthorInv, Conversation
    <2> QED BY <2>1, <2>2 DEF Asks, Answered
<1> QED BY <1>1, AlwaysAuthorInv, PTL

\* A failed draft is reported with the findings of the reply it came of
\* (draft.ts), for any validator.
THEOREM ReportsItsDraft == Spec => []ReportOfLastDraft
<1>1. AuthorInv => ReportOfLastDraft
    BY DEF AuthorInv
<1> QED BY <1>1, AlwaysAuthorInv, PTL

\* Whatever the model drafts or the user gives: the chapters of a write that
\* was not cut short, one to a file, can be completed as they are read back from
\* the instance, until the next write; a script in it, wherever its write was cut
\* short, only reacts to quests of the definition it was checked against; and
\* no script of a write replaces another (the validators, and the gate before
\* the write).
THEOREM OnlySoundReachesDisk == Spec => []OnlySoundOnDisk
<1>1. AuthorInv => OnlySoundOnDisk
    <2> SUFFICES ASSUME AuthorInv PROVE OnlySoundOnDisk
        OBVIOUS
    <2>1. ASSUME whole["quests"] # <<>>, Distinct(whole["quests"])
          PROVE  Completable(OnDisk("quests"))
        <3> DEFINE read == OnDisk("quests")
        <3>1. read \in QuestDefs /\ QuestFindings(read, Namespaces) = {}
            BY <2>1 DEF AuthorInv, DiskOK, Checked
        <3> HIDE DEF read
        <3>2. QuestShape(read)
            BY <3>1, AuthoringAssumption DEF AuthoringAssumption
        <3>3. read # <<>>
            BY <3>1 DEF QuestFindings
        <3>4. Completable(read)
            BY <3>1, <3>2, <3>3, ValidatorExact
        <3> QED BY <3>4 DEF read
    <2>2. ASSUME NEW n \in Names, disk[<<"kubejs", n>>] # Missing
          PROVE  Reactive(disk[<<"kubejs", n>>].file, disk[<<"kubejs", n>>].quests)
        <3> DEFINE p == <<"kubejs", n>>
        <3>1. p \in Kinds \X Names /\ p[1] = "kubejs"
            BY DEF Kinds
        <3> HIDE DEF p
        <3>2. PICK def \in Defs(p[1]) : disk[p].file \in Elements(def) /\ Checked(p[1], def, disk[p].quests)
            BY <2>2, <3>1 DEF AuthorInv, DiskOK, p
        <3>3. ScriptFindings(def, disk[p].quests, Namespaces) = {}
            BY <3>1, <3>2 DEF Checked
        <3>4. Reactive(disk[p].file, disk[p].quests)
            BY <3>2, <3>3, ScriptsReact
        <3> QED BY <3>4 DEF p
    <2> QED BY <2>1, <2>2 DEF OnlySoundOnDisk, AuthorInv, DiskOK
<1> QED BY <1>1, AlwaysAuthorInv, PTL

LEMMA AttemptsBounded ==
    ASSUME NEW c \in Command
    PROVE  MaxAttempts(c) \in Nat
<1>1. c.attempts \in Nat \cup {NotANumber}
    BY AuthoringAssumption, Zenon DEF AuthoringAssumption, Command
<1> QED BY <1>1 DEF MaxAttempts

\* However busy the provider is and whatever it answers, each step of a command
\* uses up a stage, a completion, a repeated request or a wait, of which it has as
\* many as its options and the adapter allow (draft.ts, the adapters' retries).
THEOREM CommandsSpend == Spec => CommandSpends
<1> DEFINE Spends ==
        pc # "idle" /\ pc' # "idle" =>
            /\ cmd' = cmd
            /\ \/ Stage' > Stage
               \/ /\ Stage' = Stage /\ attempt' \in (attempt + 1)..MaxAttempts(cmd)
               \/ /\ Stage' = Stage /\ attempt' = attempt
                  /\ tries' \in (tries + 1)..MaxRetries
               \/ /\ pc = "asking" /\ pc' = "waiting"
                  /\ UNCHANGED <<attempt, tries>>
<1>1. ASSUME AuthorInv, Next, pc # "idle", pc' # "idle"
      PROVE  Spends
    <2>1. /\ attempt \in Nat /\ tries \in Nat /\ MaxRetries \in Nat
          /\ cmd \in Command /\ MaxAttempts(cmd) \in Nat
          /\ pc = "waiting" => tries < MaxRetries
        BY <1>1, Bounds, Running1, AttemptsBounded DEF AuthorInv, TypeOK, Running
    <2>2. \A how : ~Ends(how)
        BY <1>1 DEF Ends
    <2>3. CASE Busy \/ Fails
        BY <1>1, <2>2, <2>3 DEF Busy, Fails, Throws, loop
    <2>4. CASE Awake
        BY <2>1, <2>4 DEF Awake, Stage
    <2>5. ASSUME NEW def, Generated(def), pc \in {"asking", "given"}
          PROVE  Spends
        BY <2>5 DEF Generated, Stage
    <2>6. ASSUME NEW r \in Replies(cmd.kind), Drafted(r)
          PROVE  Spends
        <3>1. pc = "asking"
            BY <2>6 DEF Drafted
        <3>2. CASE TryAgain(r)
            <4>1. /\ attempt < MaxAttempts(cmd) /\ attempt' = attempt + 1
                  /\ pc' = pc /\ cmd' = cmd
                BY <2>2, <3>2 DEF TryAgain
            <4> QED BY <2>1, <4>1 DEF Stage
        <3> QED BY <2>2, <2>5, <2>6, <3>1, <3>2 DEF Drafted, Throws
    <2>7. ASSUME NEW def, GivenDef(def)
          PROVE  Spends
        BY <2>2, <2>5, <2>7 DEF GivenDef, Throws
    <2>8. CASE Probe
        <3>1. pc = "probing" /\ cmd' = cmd /\ pc' = "writing"
            BY <2>2, <2>8 DEF Probe
        <3> QED BY <3>1 DEF Stage
    <2>9. ~Write
        BY <2>2 DEF Write
    <2> QED BY <1>1, <2>3, <2>4, <2>6, <2>7, <2>8, <2>9
            DEF Next, Answers, Works, NoModel, Describe, Define, Start
<1>2. AuthorInv /\ [Next]_vars => [Spends]_vars
    BY <1>1
<1> QED BY <1>2, AlwaysAuthorInv, PTL DEF Spec, CommandSpends
=============================================================================
