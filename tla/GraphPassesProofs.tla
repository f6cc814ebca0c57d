------------------------- MODULE GraphPassesProofs -------------------------
(***************************************************************************)
(* What the compiler hands out, proved for every script in which no two    *)
(* nodes have the same id.  The argument follows one property through the  *)
(* passes: ids stay distinct and every input names an earlier node.        *)
(***************************************************************************)
EXTENDS GraphPasses, NumberSets

\* No id occurs twice in a graph.
Distinct(g) == \A i, j \in DOMAIN g : g[i].id = g[j].id => i = j

\* The names of a script are its variables', each used once, and those of the
\* session nodes are not among them.
DistinctIds ==
  /\ \A g \in Scripts :
       Distinct(g) /\ \A i \in DOMAIN g : g[i].id \notin Range(SessionIds)
  /\ \A i, j \in DOMAIN SessionIds : SessionIds[i] = SessionIds[j] => i = j

\* A graph as the passes keep it.
Graph(g) ==
  g \in Seq(AlgorithmNode) /\ Distinct(g) /\ InputsFirst(g) /\ ColumnsAreInputs(g)

-----------------------------------------------------------------------------
(* Nodes, positions and the lists NodesAt makes of them. *)

LEMMA NodeTypes ==
  ASSUME NEW g \in Seq(AlgorithmNode), NEW i \in DOMAIN g
  PROVE  /\ g[i] \in AlgorithmNode /\ g[i].id \in Ids /\ g[i].type \in Types
         /\ g[i].inputs \in Seq(Ids) /\ InputsOf(g[i]) \subseteq Ids
         /\ g[i].columns \in Seq(Ids)
         /\ g[i].timeframe \in Timeframes /\ g[i].session \in Sessions \cup {None}
         /\ i \in 1..Len(g) /\ i \in Nat
<1>1. g[i] \in AlgorithmNode /\ i \in 1..Len(g) /\ i \in Nat
  OBVIOUS
<1>2. /\ g[i].id \in Ids /\ g[i].type \in Types /\ g[i].inputs \in Seq(Ids)
      /\ g[i].columns \in Seq(Ids)
      /\ g[i].timeframe \in Timeframes /\ g[i].session \in Sessions \cup {None}
  BY <1>1 DEF AlgorithmNode
<1>3. InputsOf(g[i]) \subseteq Ids
  <2>1. \A k \in DOMAIN g[i].inputs : g[i].inputs[k] \in Ids
    BY <1>2
  <2> QED BY <2>1 DEF InputsOf, ToSet
<1> QED
  BY <1>1, <1>2, <1>3

\* A function from 1..n is a sequence.
LEMMA IsSequence ==
  ASSUME NEW T, NEW n \in Nat, NEW f, f = [k \in 1..n |-> f[k]], \A k \in 1..n : f[k] \in T
  PROVE  f \in Seq(T) /\ Len(f) = n /\ DOMAIN f = 1..n
<1>1. f \in [1..n -> T]
  OBVIOUS
<1> QED
  BY <1>1

\* The elements of two sequences put together.
LEMMA Concatenation ==
  ASSUME NEW T, NEW a \in Seq(T), NEW b \in Seq(T)
  PROVE  /\ a \o b \in Seq(T)
         /\ Len(a \o b) = Len(a) + Len(b) /\ Len(a) \in Nat /\ Len(b) \in Nat
         /\ \A i \in 1..Len(a) : (a \o b)[i] = a[i]
         /\ \A i \in (Len(a) + 1)..(Len(a) + Len(b)) : (a \o b)[i] = b[i - Len(a)]
OBVIOUS

LEMMA Segments ==
  ASSUME NEW n \in Nat
  PROVE  IsFiniteSet(1..n) /\ Cardinality(1..n) = n
BY FS_Interval

\* The orders of a finite set list it completely.
LEMMA OrdersAreComplete ==
  ASSUME NEW S, IsFiniteSet(S), NEW s \in SetToSeqs(S)
  PROVE  /\ s \in Seq(S) /\ ToSet(s) = S
         /\ \A k, l \in DOMAIN s : s[k] = s[l] => k = l
<1> DEFINE N == Cardinality(S)
<1>1. N \in Nat
  BY FS_CardinalityType
<1>2. s \in [1..N -> S] /\ \A k, l \in 1..N : s[k] = s[l] => k = l
  BY DEF SetToSeqs
<1>3. IsFiniteSet(1..N) /\ Cardinality(1..N) = N
  BY <1>1, FS_Interval
<1>4. s \in Surjection(1..N, S)
  <2>1. s \in Injection(1..N, S)
    <3> HIDE DEF N
    <3> QED BY <1>2, Fun_IsInj
  <2> QED BY <1>3, <2>1, FS_Injection
<1> HIDE DEF N
<1>5. \A x \in S : \E k \in 1..N : s[k] = x
  BY <1>4 DEF Surjection
<1>6. ToSet(s) = S
  BY <1>2, <1>5 DEF ToSet
<1> QED
  BY <1>1, <1>2, <1>6

\* Sets of positions of a graph are finite.
LEMMA Positions ==
  ASSUME NEW T, NEW g \in Seq(T), NEW P \in SUBSET DOMAIN g
  PROVE  P \in SUBSET Nat /\ IsFiniteSet(P)
<1>1. DOMAIN g = 1..Len(g) /\ Len(g) \in Nat
  OBVIOUS
<1>2. IsFiniteSet(1..Len(g))
  BY <1>1, FS_Interval
<1> QED
  BY <1>1, <1>2, FS_Subset

\* NodesAt lists the nodes at some positions, each once and in their order.
LEMMA NodesAtLists ==
  ASSUME NEW T, NEW g \in Seq(T), NEW P \in SUBSET DOMAIN g
  PROVE  /\ NodesAt(g, P) \in Seq(T)
         /\ DOMAIN NodesAt(g, P) = DOMAIN Sorted(P)
         /\ \A k \in DOMAIN NodesAt(g, P) :
              Sorted(P)[k] \in P /\ NodesAt(g, P)[k] = g[Sorted(P)[k]]
         /\ \A i \in P : \E k \in DOMAIN NodesAt(g, P) : Sorted(P)[k] = i
         /\ \A k, l \in DOMAIN NodesAt(g, P) : k < l => Sorted(P)[k] < Sorted(P)[l]
<1>1. P \in SUBSET Nat /\ IsFiniteSet(P)
  BY Positions
<1>2. Order[P] = Sorted(P)
  BY <1>1 DEF Order
<1>3. Cardinality(P) \in Nat /\ DOMAIN Sorted(P) = 1..Cardinality(P)
  BY <1>1, FS_CardinalityType DEF Sorted
<1>4. NodesAt(g, P) = [k \in 1..Cardinality(P) |-> g[Sorted(P)[k]]]
  BY <1>2 DEF NodesAt
<1>5. /\ Sorted(P) \in Seq(P) /\ Range(Sorted(P)) = P
      /\ \A k, l \in DOMAIN Sorted(P) : k < l => Sorted(P)[k] < Sorted(P)[l]
  BY <1>1, SortedLists
<1>6. \A k \in DOMAIN Sorted(P) : Sorted(P)[k] \in P
  BY <1>5
<1>7. \A i \in P : \E k \in DOMAIN Sorted(P) : Sorted(P)[k] = i
  BY <1>5 DEF Range
<1>8. NodesAt(g, P) \in Seq(T)
  <2>1. \A k \in 1..Cardinality(P) : g[Sorted(P)[k]] \in T
    BY <1>3, <1>6
  <2> QED BY <1>3, <1>4, <2>1
<1> QED
  BY <1>3, <1>4, <1>5, <1>6, <1>7, <1>8

\* In a graph without equal ids, NodeOf finds the node.
LEMMA NodeOfFinds ==
  ASSUME NEW g \in Seq(AlgorithmNode), Distinct(g), NEW i \in DOMAIN g
  PROVE  NodeOf(g, g[i].id) = g[i]
<1> DEFINE First(k) == g[k].id = g[i].id /\ \A j \in 1..(k - 1) : g[j].id # g[i].id
<1>1. \A j \in DOMAIN g : g[j].id = g[i].id => j = i
  BY DEF Distinct
<1>2. ASSUME NEW j \in 1..(i - 1) PROVE j \in DOMAIN g /\ j # i
  OBVIOUS
<1>3. First(i) /\ \A k \in DOMAIN g : First(k) => k = i
  BY <1>1, <1>2
<1>4. (CHOOSE k \in DOMAIN g : First(k)) = i
  <2> HIDE DEF First
  <2> QED BY <1>3
<1> QED
  BY <1>4 DEF NodeOf

\* Nodes taken from a graph in its order, none of which reads one left behind,
\* are a graph.
LEMMA PartIsGraph ==
  ASSUME NEW g, Graph(g), NEW P \in SUBSET DOMAIN g,
         \A i \in P : \A j \in DOMAIN g : g[j].id \in InputsOf(g[i]) => j \in P
  PROVE  /\ Graph(NodesAt(g, P))
         /\ ToSet(NodesAt(g, P)) = {g[i] : i \in P}
<1> DEFINE w == NodesAt(g, P)
           at == Sorted(P)
<1>1. g \in Seq(AlgorithmNode) /\ Distinct(g) /\ InputsFirst(g) /\ ColumnsAreInputs(g)
  BY DEF Graph
<1>2. /\ w \in Seq(AlgorithmNode)
      /\ \A k \in DOMAIN w : at[k] \in P /\ w[k] = g[at[k]]
      /\ \A i \in P : \E k \in DOMAIN w : at[k] = i
      /\ \A k, l \in DOMAIN w : k < l => at[k] < at[l]
  BY <1>1, NodesAtLists
<1>3. P \subseteq Nat /\ DOMAIN w = 1..Len(w) /\ \A k \in DOMAIN w : k \in Nat
  BY <1>1, <1>2, Positions
<1> HIDE DEF w, at
<1>4. Distinct(w)
  <2>1. ASSUME NEW k \in DOMAIN w, NEW l \in DOMAIN w, w[k].id = w[l].id PROVE k = l
    <3>1. at[k] = at[l]
      BY <1>1, <1>2, <2>1 DEF Distinct
    <3>2. at[k] \in Nat /\ at[l] \in Nat /\ k \in Nat /\ l \in Nat
      BY <1>2, <1>3
    <3>3. ~(at[k] < at[l]) /\ ~(at[l] < at[k])
      BY <3>1, <3>2
    <3> QED BY <1>2, <3>2, <3>3
  <2> QED BY <2>1 DEF Distinct
<1>5. InputsFirst(w)
  <2>1. ASSUME NEW k \in DOMAIN w, NEW id \in InputsOf(w[k])
        PROVE  \E l \in 1..(k - 1) : w[l].id = id
    <3>1. at[k] \in DOMAIN g /\ at[k] \in P /\ id \in InputsOf(g[at[k]])
      BY <1>2, <2>1
    <3>2. PICK j \in 1..(at[k] - 1) : g[j].id = id
      BY <1>1, <3>1 DEF InputsFirst
    <3>3. at[k] \in Nat /\ k \in Nat /\ DOMAIN g = 1..Len(g) /\ Len(g) \in Nat
      BY <1>1, <1>3, <3>1
    <3>4. j \in DOMAIN g /\ j \in Nat /\ j < at[k]
      BY <3>1, <3>2, <3>3
    <3>5. j \in P
      BY <3>1, <3>2, <3>4
    <3>6. PICK l \in DOMAIN w : at[l] = j
      BY <1>2, <3>5
    <3>7. l < k
      <4>1. ~(at[k] < at[l]) /\ at[k] # at[l]
        BY <3>3, <3>4, <3>6
      <4>2. ~(k < l) /\ k # l
        BY <1>2, <4>1
      <4> QED BY <1>3, <4>2
    <3>8. l \in 1..(k - 1)
      BY <1>3, <3>7
    <3> QED BY <1>2, <3>2, <3>6, <3>8
  <2> QED BY <2>1 DEF InputsFirst
<1>6. ToSet(w) = {g[i] : i \in P}
  BY <1>2 DEF ToSet
<1>7. ColumnsAreInputs(w)
  BY <1>1, <1>2 DEF ColumnsAreInputs
<1> QED
  BY <1>2, <1>4, <1>5, <1>6, <1>7 DEF Graph, w

\* The position of every id of a graph, and what Sorted's positions list.
LEMMA GraphOrder ==
  ASSUME Graph(algorithms), NEW ids \in SUBSET IdsOf(algorithms)
  PROVE  /\ InGraphOrder(ids) \in Seq(Ids)
         /\ ToSet(InGraphOrder(ids)) = ids
         /\ \A k, l \in DOMAIN InGraphOrder(ids) :
              InGraphOrder(ids)[k] = InGraphOrder(ids)[l] => k = l
<1> DEFINE g == algorithms
           P == {IndexOf(id) : id \in ids}
           w == NodesAt(g, P)
           s == InGraphOrder(ids)
<1>1. g \in Seq(AlgorithmNode) /\ Distinct(g)
  BY DEF Graph
<1>2. ASSUME NEW i \in DOMAIN g PROVE IndexOf(g[i].id) = i
  <2>1. {j \in DOMAIN g : g[j].id = g[i].id} = {i}
    BY <1>1 DEF Distinct
  <2>2. {i} \in SUBSET Nat /\ {i} # {}
    BY <1>1
  <2>. IsFiniteSet({i})
    BY FS_Singleton
  <2>3. Max({i}) = i
    BY <2>2, Extremes
  <2> QED BY <2>1, <2>3 DEF IndexOf
<1>3. P = {i \in DOMAIN g : g[i].id \in ids}
  <2>1. \A id \in ids : \E i \in DOMAIN g : g[i].id = id
    BY DEF IdsOf
  <2> QED BY <1>2, <2>1
<1>4. P \in SUBSET DOMAIN g
  BY <1>3
<1> HIDE DEF P
<1>5. /\ w \in Seq(AlgorithmNode)
      /\ DOMAIN w = DOMAIN Sorted(P)
      /\ \A k \in DOMAIN w : Sorted(P)[k] \in P /\ w[k] = g[Sorted(P)[k]]
      /\ \A i \in P : \E k \in DOMAIN w : Sorted(P)[k] = i
      /\ \A k, l \in DOMAIN w : k < l => Sorted(P)[k] < Sorted(P)[l]
  BY <1>1, <1>4, NodesAtLists
<1>6. s = [k \in DOMAIN w |-> w[k].id]
  BY DEF InGraphOrder, P
<1> HIDE DEF w, s
<1>7. s \in Seq(Ids)
  <2>1. DOMAIN w = 1..Len(w) /\ Len(w) \in Nat /\ \A k \in DOMAIN w : w[k].id \in Ids
    BY <1>5, NodeTypes
  <2> QED BY <1>6, <2>1
<1>8. ToSet(s) = ids
  <2>1. \A k \in DOMAIN s : s[k] \in ids
    BY <1>3, <1>5, <1>6
  <2>2. ASSUME NEW id \in ids PROVE \E k \in DOMAIN s : s[k] = id
    <3>1. PICK i \in DOMAIN g : g[i].id = id
      BY DEF IdsOf
    <3>2. i \in P
      BY <1>3, <3>1
    <3> QED BY <1>5, <1>6, <3>1, <3>2
  <2> QED BY <2>1, <2>2 DEF ToSet
<1>9. ASSUME NEW k \in DOMAIN s, NEW l \in DOMAIN s, s[k] = s[l] PROVE k = l
  <2>1. Sorted(P)[k] \in P /\ Sorted(P)[l] \in P
        /\ g[Sorted(P)[k]].id = g[Sorted(P)[l]].id
    BY <1>5, <1>6, <1>9
  <2>2. Sorted(P)[k] = Sorted(P)[l]
    BY <1>1, <1>4, <2>1 DEF Distinct
  <2>3. Sorted(P)[k] \in Nat /\ Sorted(P)[l] \in Nat /\ k \in Nat /\ l \in Nat
    BY <1>1, <1>4, <1>5, <1>6, <2>1, Positions
  <2>4. ~(Sorted(P)[k] < Sorted(P)[l]) /\ ~(Sorted(P)[l] < Sorted(P)[k])
    BY <2>2, <2>3
  <2>5. ~(k < l) /\ ~(l < k)
    BY <1>5, <1>6, <2>4
  <2> QED BY <2>3, <2>5
<1> QED
  BY <1>7, <1>8, <1>9 DEF s

-----------------------------------------------------------------------------
(* VerifySessionDependencies. *)

\* The sessions a graph asks for are finitely many.
LEMMA RequiredSessionsFinite ==
  ASSUME NEW g \in Seq(AlgorithmNode)
  PROVE  /\ IsFiniteSet(RequiredSessions(g))
         /\ \A k \in RequiredSessions(g) : k[1] \in Sessions \cup {None} /\ k[2] \in Timeframes
<1> DEFINE T == (Sessions \cup {None}) \X Timeframes
           key(i) == <<g[i].session, g[i].timeframe>>
           all == [i \in DOMAIN g |-> key(i)]
<1>1. \A i \in DOMAIN g : key(i) \in T
  BY NodeTypes
<1>2. \A k \in RequiredSessions(g) : \E i \in DOMAIN g : k = key(i)
  BY DEF RequiredSessions, ToSet
<1>3. \A k \in T : k[1] \in Sessions \cup {None} /\ k[2] \in Timeframes
  OBVIOUS
<1> HIDE DEF T, key
<1>4. all \in Seq(T)
  <2>1. DOMAIN g = 1..Len(g) /\ Len(g) \in Nat
    OBVIOUS
  <2> QED BY <1>1, <2>1
<1>5. RequiredSessions(g) \in SUBSET Range(all)
  BY <1>2 DEF Range
<1> HIDE DEF all
<1>6. IsFiniteSet(Range(all))
  BY <1>4, FiniteRange
<1> QED
  BY <1>1, <1>2, <1>3, <1>5, <1>6, FS_Subset

\* Nodes read nodes of the script s only, and what is not of the script, the session
\* nodes added to it, is no output.
FromScript(s, g) ==
  \A n \in ToSet(g) :
    /\ InputsOf(n) \subseteq IdsOf(s)
    /\ IF n.id \in IdsOf(s) THEN \E m \in ToSet(s) : m.id = n.id /\ m.timeframe = n.timeframe
                            ELSE n.type \notin Sinks

\* Those nodes stand at the end and read nothing.
ScriptFirst(s, g) ==
  \A i \in DOMAIN g :
    IF g[i].id \in IdsOf(s) THEN \A j \in 1..(i - 1) : g[j].id \in IdsOf(s)
                           ELSE g[i].inputs = <<>>

LEMMA SessionsBehindScript ==
  ASSUME PassesAssumption, NEW s, Graph(s), NEW h, Graph(h),
         Len(s) <= Len(h),
         \A i \in DOMAIN h :
           IF i <= Len(s) THEN h[i] = s[i]
           ELSE h[i].id \notin IdsOf(s) /\ h[i].inputs = <<>> /\ h[i].type = SessionType
  PROVE  FromScript(s, h) /\ ScriptFirst(s, h)
<1>1. /\ DOMAIN s = 1..Len(s) /\ Len(s) \in Nat /\ DOMAIN h = 1..Len(h) /\ Len(h) \in Nat
      /\ InputsFirst(s)
  BY DEF Graph
<1>2. ASSUME NEW i \in DOMAIN h, i <= Len(s)
      PROVE  /\ i \in DOMAIN s /\ h[i] = s[i] /\ h[i].id \in IdsOf(s)
             /\ InputsOf(h[i]) \subseteq IdsOf(s)
  <2>1. i \in DOMAIN s /\ h[i] = s[i]
    BY <1>1, <1>2
  <2>2. \A j \in 1..(i - 1) : j \in DOMAIN s
    BY <1>1, <2>1
  <2>3. InputsOf(s[i]) \subseteq {s[j].id : j \in 1..(i - 1)}
    BY <1>1, <2>1 DEF InputsFirst
  <2> QED BY <2>1, <2>2, <2>3 DEF IdsOf
<1>3. ASSUME NEW i \in DOMAIN h, ~(i <= Len(s))
      PROVE  /\ h[i].id \notin IdsOf(s) /\ h[i].inputs = <<>>
             /\ InputsOf(h[i]) = {} /\ h[i].type \notin Sinks
  <2>1. h[i].id \notin IdsOf(s) /\ h[i].inputs = <<>> /\ h[i].type = SessionType
    BY <1>3
  <2>2. ToSet(<<>>) = {}
    BY DEF ToSet
  <2> QED BY <2>1, <2>2 DEF InputsOf, PassesAssumption
<1>4. FromScript(s, h)
  <2>1. ASSUME NEW i \in DOMAIN h
        PROVE  /\ InputsOf(h[i]) \subseteq IdsOf(s)
               /\ h[i].id \in IdsOf(s) =>
                    \E m \in ToSet(s) : m.id = h[i].id /\ m.timeframe = h[i].timeframe
               /\ h[i].id \notin IdsOf(s) => h[i].type \notin Sinks
    BY <1>2, <1>3 DEF ToSet
  <2> QED BY <2>1 DEF FromScript, ToSet
<1>5. ScriptFirst(s, h)
  <2>1. \A i \in DOMAIN h : \A j \in 1..(i - 1) : j \in DOMAIN h
    BY <1>1
  <2>2. \A i \in DOMAIN h : i <= Len(s) => \A j \in 1..(i - 1) : j <= Len(s)
    BY <1>1
  <2> QED BY <1>2, <1>3, <2>1, <2>2 DEF ScriptFirst
<1> QED
  BY <1>4, <1>5

\* The session nodes are added behind the script's.
LEMMA SessionsKeepTheGraph ==
  ASSUME PassesAssumption, DistinctIds, NEW g \in Scripts,
         NEW keys \in SetToSeqs({k \in RequiredSessions(g) : ~HasSessionsNode(g, k)}),
         NEW h, h = g \o SessionNodes(keys)
  PROVE  /\ Graph(h)
         /\ SinkIds(g) \subseteq SinkIds(h)
         /\ ToSet(g) \subseteq ToSet(h)
         /\ \A n \in ToSet(h) : n \in ToSet(g) \/ n.type = SessionType
         /\ FromScript(g, h) /\ ScriptFirst(g, h)
<1> DEFINE S == {k \in RequiredSessions(g) : ~HasSessionsNode(g, k)}
           N == Cardinality(S)
           node(i) == [id |-> SessionIds[i], type |-> SessionType, inputs |-> <<>>,
                       columns |-> <<>>, timeframe |-> keys[i][2], session |-> keys[i][1]]
           added == [i \in DOMAIN keys |-> node(i)]
<1>1. g \in Seq(AlgorithmNode) /\ Distinct(g) /\ InputsFirst(g) /\ ColumnsAreInputs(g)
      /\ \A i \in DOMAIN g : g[i].id \notin Range(SessionIds)
      /\ SessionIds \in Seq(Ids) /\ SessionType \in Types
      /\ Cardinality(RequiredSessions(g)) <= Len(SessionIds)
  BY DEF PassesAssumption, DistinctIds
<1>2. \A k \in RequiredSessions(g) : k[1] \in Sessions \cup {None} /\ k[2] \in Timeframes
  BY <1>1, RequiredSessionsFinite
<1>3. IsFiniteSet(RequiredSessions(g))
  BY <1>1, RequiredSessionsFinite
<1>4. N \in Nat /\ N <= Len(SessionIds)
  <2>1. S \in SUBSET RequiredSessions(g)
    OBVIOUS
  <2>2. IsFiniteSet(S) /\ N <= Cardinality(RequiredSessions(g))
    BY <1>3, <2>1, FS_Subset
  <2>3. N \in Nat /\ Cardinality(RequiredSessions(g)) \in Nat
    BY <1>3, <2>2, FS_CardinalityType
  <2> QED BY <1>1, <2>2, <2>3
<1>5. DOMAIN keys = 1..N /\ \A i \in 1..N : keys[i] \in S
  BY DEF SetToSeqs
<1> HIDE DEF N
<1>6. ASSUME NEW i \in 1..N
      PROVE  /\ i \in DOMAIN SessionIds
             /\ node(i) \in AlgorithmNode
  <2>1. keys[i][1] \in Sessions \cup {None} /\ keys[i][2] \in Timeframes
    BY <1>2, <1>5
  <2>2. i \in DOMAIN SessionIds /\ SessionIds[i] \in Ids
    BY <1>1, <1>4
  <2>3. <<>> \in Seq(Ids)
    OBVIOUS
  <2> QED BY <1>1, <2>1, <2>2, <2>3 DEF AlgorithmNode
<1>7. added \in Seq(AlgorithmNode) /\ Len(added) = N
  BY <1>4, <1>5, <1>6
<1>8. /\ h \in Seq(AlgorithmNode) /\ Len(h) = Len(g) + N /\ Len(g) \in Nat
      /\ \A i \in 1..Len(g) : h[i] = g[i]
      /\ \A i \in (Len(g) + 1)..(Len(g) + N) : i - Len(g) \in 1..N /\ h[i] = node(i - Len(g))
  <2> HIDE DEF node
  <2>1. h = g \o added
    BY DEF node, SessionNodes
  <2>2. \A i \in 1..N : added[i] = node(i)
    BY <1>5
  <2> HIDE DEF added
  <2>3. /\ h \in Seq(AlgorithmNode) /\ Len(h) = Len(g) + N /\ Len(g) \in Nat
        /\ \A i \in 1..Len(g) : h[i] = g[i]
        /\ \A i \in (Len(g) + 1)..(Len(g) + N) : h[i] = added[i - Len(g)]
    <3> DEFINE c == g \o added
    <3>0. g \in Seq(AlgorithmNode) /\ added \in Seq(AlgorithmNode)
      BY <1>1, <1>7
    <3>1. /\ c \in Seq(AlgorithmNode)
          /\ Len(c) = Len(g) + Len(added) /\ Len(g) \in Nat
          /\ \A i \in 1..Len(g) : c[i] = g[i]
          /\ \A i \in (Len(g) + 1)..(Len(g) + Len(added)) : c[i] = added[i - Len(g)]
      BY ONLY <3>0, Concatenation
    <3>2. h = c
      BY <2>1
    <3> HIDE DEF c
    <3> QED BY <1>7, <3>1, <3>2
  <2>5. ASSUME NEW i \in (Len(g) + 1)..(Len(g) + N)
        PROVE  i - Len(g) \in 1..N /\ h[i] = node(i - Len(g))
    <3>1. i - Len(g) \in 1..N
      BY <1>4, <2>3
    <3> QED BY <2>2, <2>3, <3>1
  <2> QED BY <2>3, <2>5
<1>9. \A i \in DOMAIN h : i \in 1..Len(g) \/ i \in (Len(g) + 1)..(Len(g) + N)
  BY <1>4, <1>8
<1>10. \A i \in 1..N : /\ node(i).id = SessionIds[i] /\ node(i).inputs = <<>>
                       /\ node(i).type = SessionType /\ node(i).columns = <<>>
  OBVIOUS
<1> HIDE DEF node
<1>11. Distinct(h)
  <2>1. ASSUME NEW i \in DOMAIN h, NEW j \in DOMAIN h, h[i].id = h[j].id PROVE i = j
    <3>1. CASE i \in 1..Len(g) /\ j \in 1..Len(g)
      BY <1>1, <1>8, <2>1, <3>1 DEF Distinct
    <3>2. CASE i \in (Len(g) + 1)..(Len(g) + N) /\ j \in (Len(g) + 1)..(Len(g) + N)
      <4>1. SessionIds[i - Len(g)] = SessionIds[j - Len(g)]
        BY <1>8, <1>10, <2>1, <3>2
      <4>2. i - Len(g) = j - Len(g)
        BY <1>6, <1>8, <3>2, <4>1 DEF DistinctIds
      <4> QED BY <1>4, <1>8, <3>2, <4>2
    <3>3. ASSUME NEW k \in 1..Len(g), NEW l \in (Len(g) + 1)..(Len(g) + N)
          PROVE  h[k].id # h[l].id
      <4>1. h[k].id \notin Range(SessionIds)
        BY <1>1, <1>8
      <4>2. l - Len(g) \in DOMAIN SessionIds /\ h[l].id = SessionIds[l - Len(g)]
        BY <1>6, <1>8, <1>10
      <4>3. h[l].id \in Range(SessionIds)
        BY <4>2 DEF Range
      <4> QED BY <4>1, <4>3
    <3> QED BY <1>9, <2>1, <3>1, <3>2, <3>3
  <2> QED BY <2>1 DEF Distinct
<1>12. InputsFirst(h)
  <2>1. ASSUME NEW i \in 1..Len(g)
        PROVE  InputsOf(h[i]) \subseteq {h[j].id : j \in 1..(i - 1)}
    <3>1. InputsOf(g[i]) \subseteq {g[j].id : j \in 1..(i - 1)}
      BY <1>1 DEF InputsFirst
    <3>2. \A j \in 1..(i - 1) : h[j] = g[j]
      BY <1>8
    <3> QED BY <1>8, <3>1, <3>2
  <2>2. ASSUME NEW i \in (Len(g) + 1)..(Len(g) + N) PROVE InputsOf(h[i]) = {}
    <3>1. h[i].inputs = <<>>
      BY <1>8, <1>10
    <3>2. ToSet(<<>>) = {}
      BY DEF ToSet
    <3> QED BY <3>1, <3>2 DEF InputsOf
  <2> QED BY <1>9, <2>1, <2>2 DEF InputsFirst
<1>13. SinkIds(g) \subseteq SinkIds(h)
  <2>1. \A i \in DOMAIN g : i \in DOMAIN h /\ h[i] = g[i]
    BY <1>1, <1>4, <1>8
  <2> QED BY <2>1 DEF SinkIds, ToSet
<1>14. ToSet(g) \subseteq ToSet(h)
  <2>1. \A i \in DOMAIN g : i \in DOMAIN h /\ h[i] = g[i]
    BY <1>1, <1>4, <1>8
  <2> QED BY <2>1 DEF ToSet
<1>15. \A i \in DOMAIN h : h[i] \in ToSet(g) \/ h[i].type = SessionType
  <2>1. \A i \in 1..Len(g) : h[i] \in ToSet(g)
    BY <1>1, <1>8 DEF ToSet
  <2>2. \A i \in (Len(g) + 1)..(Len(g) + N) : h[i].type = SessionType
    BY <1>8, <1>10
  <2> QED BY <1>9, <2>1, <2>2
<1>16. \A n \in ToSet(h) : n \in ToSet(g) \/ n.type = SessionType
  BY <1>15 DEF ToSet
<1>17. Len(g) <= Len(h)
  BY <1>4, <1>8
<1>18. ASSUME NEW i \in DOMAIN h
       PROVE  IF i <= Len(g) THEN h[i] = g[i]
              ELSE h[i].id \notin IdsOf(g) /\ h[i].inputs = <<>> /\ h[i].type = SessionType
  <2>1. CASE i \in 1..Len(g)
    BY <1>8, <2>1
  <2>2. CASE i \in (Len(g) + 1)..(Len(g) + N)
    <3>1. ~(i <= Len(g))
      BY <1>4, <1>8, <2>2
    <3>2. i - Len(g) \in 1..N /\ h[i] = node(i - Len(g))
      BY <1>8, <2>2
    <3>3. i - Len(g) \in DOMAIN SessionIds
      BY <1>6, <3>2
    <3>4. h[i].id = SessionIds[i - Len(g)] /\ h[i].inputs = <<>> /\ h[i].type = SessionType
      BY <1>10, <3>2
    <3>5. h[i].id \in Range(SessionIds)
      BY <3>3, <3>4 DEF Range
    <3>6. h[i].id \notin IdsOf(g)
      BY <1>1, <3>5 DEF IdsOf
    <3> QED BY <3>1, <3>4, <3>6
  <2> QED BY <1>9, <2>1, <2>2
<1>19. Graph(g) /\ Graph(h)
  <2>1. ColumnsAreInputs(h)
    <3>1. \A i \in 1..Len(g) : ToSet(h[i].columns) \subseteq InputsOf(h[i])
      BY <1>1, <1>8 DEF ColumnsAreInputs
    <3>2. \A i \in (Len(g) + 1)..(Len(g) + N) : h[i].columns = <<>>
      BY <1>8, <1>10
    <3>3. ToSet(<<>>) = {}
      BY DEF ToSet
    <3> QED BY <1>9, <3>1, <3>2, <3>3 DEF ColumnsAreInputs
  <2> QED BY <1>1, <1>8, <1>11, <1>12, <2>1 DEF Graph
<1>20. FromScript(g, h) /\ ScriptFirst(g, h)
  BY ONLY PassesAssumption, <1>17, <1>18, <1>19, SessionsBehindScript
<1> QED
  BY <1>13, <1>14, <1>16, <1>19, <1>20

-----------------------------------------------------------------------------
(* Optimize. *)

\* A duplicate is merged into an earlier node of its type that is none itself.
LEMMA CanonicalIsEarlier ==
  ASSUME NEW g, Graph(g), NEW i \in DOMAIN g, IsDuplicate(g, i)
  PROVE  \E j \in 1..(i - 1) :
           Canonical(g, i) = g[j].id /\ ~IsDuplicate(g, j) /\ g[j].type = g[i].type
<1> DEFINE Same(k) == g[k].type \notin Executors /\ Hash(g[k]) = Hash(g[i])
           First(j) == /\ g[j].type \notin Executors
                       /\ Hash(g[j]) = Hash(g[i])
                       /\ \A k \in 1..(j - 1) :
                            g[k].type \in Executors \/ Hash(g[k]) # Hash(g[i])
           F == {k \in 1..i : Same(k)}
<1>1. g \in Seq(AlgorithmNode) /\ Distinct(g) /\ i \in Nat /\ i \in 1..Len(g)
  BY DEF Graph
<1>2. PICK k0 \in 1..(i - 1) : Same(k0)
  BY DEF IsDuplicate, IsFirstOfHash
<1>3. k0 \in F /\ F \in SUBSET Nat
  BY <1>1, <1>2
<1>4. IsFiniteSet(F)
  <2>1. F \in SUBSET (1..i) /\ IsFiniteSet(1..i)
    BY <1>1, FS_Interval
  <2> QED BY <2>1, FS_Subset
<1>5. PICK m \in F : \A k \in F : m <= k
  <2> HIDE DEF F
  <2> QED BY <1>3, <1>4, Extremes
<1>6. First(m) /\ m \in 1..i
  <2>1. \A k \in 1..(m - 1) : k \in 1..i /\ ~(m <= k)
    BY <1>1, <1>3
  <2>2. \A k \in 1..(m - 1) : ~Same(k)
    BY <1>5, <2>1
  <2> QED BY <2>2
<1> DEFINE j == CHOOSE l \in 1..i : First(l)
<1>7. j \in 1..i /\ First(j)
  <2> HIDE DEF First
  <2> QED BY <1>6
<1>8. Canonical(g, i) = g[j].id
  BY DEF Canonical
<1> HIDE DEF j
<1>9. j \in 1..(i - 1)
  <2>1. j # i
    BY <1>2, <1>7
  <2> QED BY <1>1, <1>7, <2>1
<1>10. ~IsDuplicate(g, j)
  BY <1>7 DEF IsDuplicate, IsFirstOfHash
<1>11. g[j].type = g[i].type
  <2>1. NodeOf(g, g[j].id) = g[j]
    BY <1>1, <1>9, NodeOfFinds
  <2> QED BY <1>8, <2>1 DEF IsDuplicate, SemanticEquals
<1> QED
  BY <1>8, <1>9, <1>10, <1>11

\* An input is redirected to a node that stays, and to none behind it.
LEMMA RedirectedInput ==
  ASSUME NEW g, Graph(g), NEW p \in DOMAIN g
  PROVE  \E j \in 1..p : /\ Redirect(g, g[p].id) = g[j].id
                          /\ ~IsDuplicate(g, j) /\ g[j].type = g[p].type
<1> DEFINE dups == {i \in DOMAIN g : g[i].id = g[p].id /\ IsDuplicate(g, i)}
<1>1. g \in Seq(AlgorithmNode) /\ p \in Nat /\ p \in 1..Len(g)
      /\ \A i \in DOMAIN g : g[i].id = g[p].id => i = p
  BY DEF Graph, Distinct
<1>2. CASE IsDuplicate(g, p)
  <2>1. dups = {p}
    BY <1>1, <1>2
  <2>2. Max({p}) = p
    <3>1. {p} \in SUBSET Nat
      BY <1>1
    <3>2. IsFiniteSet({p})
      BY FS_Singleton
    <3> QED BY <3>1, <3>2, Extremes
  <2>3. Redirect(g, g[p].id) = Canonical(g, p)
    BY <2>1, <2>2 DEF Redirect
  <2>4. PICK j \in 1..(p - 1) :
          Canonical(g, p) = g[j].id /\ ~IsDuplicate(g, j) /\ g[j].type = g[p].type
    BY <1>2, CanonicalIsEarlier
  <2> QED BY <1>1, <2>3, <2>4
<1>3. CASE ~IsDuplicate(g, p)
  <2>1. dups = {}
    BY <1>1, <1>3
  <2>2. Redirect(g, g[p].id) = g[p].id
    BY <2>1 DEF Redirect
  <2> QED BY <1>1, <1>3, <2>2
<1> QED
  BY <1>2, <1>3

\* Redirected ids of inputs are ids, of nodes that stay and come before the reader.
LEMMA RedirectedIds ==
  ASSUME NEW g, Graph(g), NEW i \in DOMAIN g, NEW ids \in Seq(Ids),
         ToSet(ids) \subseteq InputsOf(g[i])
  PROVE  /\ Redirections(g, ids) \in Seq(Ids)
         /\ DOMAIN Redirections(g, ids) = DOMAIN ids
         /\ \A k \in DOMAIN ids :
              /\ Redirections(g, ids)[k] = Redirect(g, ids[k])
              /\ \E j \in 1..(i - 1) : Redirect(g, ids[k]) = g[j].id /\ ~IsDuplicate(g, j)
<1>1. /\ g \in Seq(AlgorithmNode) /\ InputsFirst(g)
      /\ DOMAIN g = 1..Len(g) /\ Len(g) \in Nat
  BY DEF Graph
<1>2. ASSUME NEW k \in DOMAIN ids
      PROVE  \E j \in 1..(i - 1) : Redirect(g, ids[k]) = g[j].id /\ ~IsDuplicate(g, j)
  <2>1. ids[k] \in InputsOf(g[i])
    BY DEF ToSet
  <2>2. PICK p \in 1..(i - 1) : g[p].id = ids[k]
    BY <1>1, <2>1 DEF InputsFirst
  <2>3. p \in DOMAIN g /\ \A j \in 1..p : j \in 1..(i - 1)
    BY <1>1
  <2>4. \E j \in 1..p : Redirect(g, g[p].id) = g[j].id /\ ~IsDuplicate(g, j)
    BY <2>3, RedirectedInput
  <2> QED BY <2>2, <2>3, <2>4
<1>3. \A k \in DOMAIN ids : Redirect(g, ids[k]) \in Ids
  <2>1. \A j \in DOMAIN g : g[j].id \in Ids
    BY <1>1, NodeTypes
  <2>2. \A j \in 1..(i - 1) : j \in DOMAIN g
    BY <1>1
  <2> QED BY <1>2, <2>1, <2>2
<1>4. DOMAIN ids = 1..Len(ids) /\ Len(ids) \in Nat
  OBVIOUS
<1>5. Redirections(g, ids) = [k \in 1..Len(ids) |-> Redirect(g, ids[k])]
  BY <1>4 DEF Redirections
<1> DEFINE f == Redirections(g, ids)
<1>6. /\ f = [k \in 1..Len(ids) |-> f[k]]
      /\ \A k \in 1..Len(ids) : f[k] = Redirect(g, ids[k])
  BY <1>5
<1> HIDE DEF f
<1>7. f \in Seq(Ids) /\ DOMAIN f = 1..Len(ids)
  <2>1. \A k \in 1..Len(ids) : f[k] \in Ids
    BY <1>3, <1>4, <1>6
  <2> QED BY <1>4, <1>6, <2>1, IsSequence
<1> QED
  BY <1>2, <1>4, <1>6, <1>7 DEF f

\* Redirecting changes nothing but inputs and columns, and leaves no input that is a
\* duplicate.
LEMMA RedirectedIsGraph ==
  ASSUME NEW g, Graph(g)
  PROVE  /\ Graph(Redirected(g)) /\ DOMAIN Redirected(g) = DOMAIN g
         /\ \A i \in DOMAIN g :
              /\ Redirected(g)[i].id = g[i].id /\ Redirected(g)[i].type = g[i].type
              /\ Redirected(g)[i].timeframe = g[i].timeframe
              /\ Redirected(g)[i].session = g[i].session
              /\ Redirected(g)[i].inputs = Redirections(g, g[i].inputs)
              /\ Redirected(g)[i].columns = Redirections(g, g[i].columns)
         /\ \A i \in DOMAIN g : \A id \in InputsOf(Redirected(g)[i]) :
              \E j \in 1..(i - 1) : id = g[j].id /\ ~IsDuplicate(g, j)
<1> DEFINE r == Redirected(g)
           to(ids) == Redirections(g, ids)
<1>1. /\ g \in Seq(AlgorithmNode) /\ Distinct(g) /\ InputsFirst(g) /\ ColumnsAreInputs(g)
      /\ DOMAIN g = 1..Len(g) /\ Len(g) \in Nat
  BY DEF Graph
<1>2. ASSUME NEW i \in DOMAIN g
      PROVE  /\ g[i] \in AlgorithmNode /\ g[i].inputs \in Seq(Ids) /\ g[i].columns \in Seq(Ids)
             /\ ToSet(g[i].inputs) \subseteq InputsOf(g[i])
             /\ ToSet(g[i].columns) \subseteq InputsOf(g[i])
  BY <1>1, NodeTypes DEF InputsOf, ColumnsAreInputs
<1>3. ASSUME NEW i \in DOMAIN g
      PROVE  /\ to(g[i].inputs) \in Seq(Ids) /\ to(g[i].columns) \in Seq(Ids)
             /\ DOMAIN to(g[i].inputs) = DOMAIN g[i].inputs
             /\ \A k \in DOMAIN g[i].inputs :
                  /\ to(g[i].inputs)[k] = Redirect(g, g[i].inputs[k])
                  /\ \E j \in 1..(i - 1) :
                       Redirect(g, g[i].inputs[k]) = g[j].id /\ ~IsDuplicate(g, j)
             /\ DOMAIN to(g[i].columns) = DOMAIN g[i].columns
             /\ \A k \in DOMAIN g[i].columns :
                  to(g[i].columns)[k] = Redirect(g, g[i].columns[k])
  <2> HIDE DEF to
  <2>1. /\ to(g[i].inputs) \in Seq(Ids) /\ DOMAIN to(g[i].inputs) = DOMAIN g[i].inputs
        /\ \A k \in DOMAIN g[i].inputs :
             /\ to(g[i].inputs)[k] = Redirect(g, g[i].inputs[k])
             /\ \E j \in 1..(i - 1) :
                  Redirect(g, g[i].inputs[k]) = g[j].id /\ ~IsDuplicate(g, j)
    BY <1>2, RedirectedIds DEF to
  <2>2. /\ to(g[i].columns) \in Seq(Ids) /\ DOMAIN to(g[i].columns) = DOMAIN g[i].columns
        /\ \A k \in DOMAIN g[i].columns :
             to(g[i].columns)[k] = Redirect(g, g[i].columns[k])
    BY <1>2, RedirectedIds DEF to
  <2> QED BY <2>1, <2>2
<1> HIDE DEF to
<1>4. ASSUME NEW i \in DOMAIN g
      PROVE  /\ r[i] \in AlgorithmNode
             /\ r[i].id = g[i].id /\ r[i].type = g[i].type
             /\ r[i].inputs = to(g[i].inputs) /\ r[i].columns = to(g[i].columns)
             /\ r[i].timeframe = g[i].timeframe /\ r[i].session = g[i].session
  <2>1. r[i] = [g[i] EXCEPT !.inputs = to(g[i].inputs), !.columns = to(g[i].columns)]
    BY DEF Redirected, to
  <2> QED BY <1>2, <1>3, <2>1 DEF AlgorithmNode
<1>5. DOMAIN r = DOMAIN g /\ r \in Seq(AlgorithmNode)
  <2>1. r = [i \in DOMAIN g |-> r[i]] /\ DOMAIN r = DOMAIN g
    BY DEF Redirected
  <2> HIDE DEF r
  <2>2. r = [i \in 1..Len(g) |-> r[i]] /\ \A i \in 1..Len(g) : r[i] \in AlgorithmNode
    BY <1>1, <1>4, <2>1
  <2>3. r \in Seq(AlgorithmNode)
    BY <1>1, <2>2, IsSequence
  <2> QED BY <2>1, <2>3
<1> HIDE DEF r
<1>7. \A i \in DOMAIN g : \A id \in InputsOf(r[i]) :
        \E j \in 1..(i - 1) : id = g[j].id /\ ~IsDuplicate(g, j)
  <2> TAKE i \in DOMAIN g
  <2> TAKE id \in InputsOf(r[i])
  <2>1. PICK k \in DOMAIN g[i].inputs : id = to(g[i].inputs)[k]
    BY <1>3, <1>4 DEF InputsOf, ToSet
  <2> QED BY <1>3, <2>1
<1>8. ColumnsAreInputs(r)
  <2> SUFFICES ASSUME NEW i \in DOMAIN g, NEW k \in DOMAIN g[i].columns
               PROVE  to(g[i].columns)[k] \in InputsOf(r[i])
    BY <1>3, <1>4, <1>5 DEF ColumnsAreInputs, ToSet
  <2>1. PICK l \in DOMAIN g[i].inputs : g[i].columns[k] = g[i].inputs[l]
    BY <1>2 DEF InputsOf, ToSet
  <2>2. to(g[i].columns)[k] = to(g[i].inputs)[l]
    BY <1>3, <2>1
  <2> QED BY <1>3, <1>4, <2>2 DEF InputsOf, ToSet
<1>9. Graph(r)
  <2>1. Distinct(r)
    BY <1>1, <1>4, <1>5 DEF Distinct
  <2>2. \A i \in DOMAIN g : \A j \in 1..(i - 1) : j \in DOMAIN g
    BY <1>1
  <2>3. InputsFirst(r)
    BY <1>4, <1>5, <1>7, <2>2 DEF InputsFirst
  <2> QED BY <1>5, <1>8, <2>1, <2>3 DEF Graph
<1> QED
  BY <1>4, <1>5, <1>7, <1>9 DEF r, to

\* What merging leaves: the nodes that are no duplicates, with their inputs redirected.
LEMMA MergedNodes ==
  ASSUME NEW g, Graph(g), NEW h, h = Without(Redirected(g), Duplicates(g))
  PROVE  /\ Graph(h)
         /\ \E at \in [DOMAIN h -> DOMAIN g] :
              /\ \A k \in DOMAIN h :
                   /\ ~IsDuplicate(g, at[k])
                   /\ h[k].id = g[at[k]].id /\ h[k].type = g[at[k]].type
                   /\ h[k].timeframe = g[at[k]].timeframe /\ h[k].session = g[at[k]].session
                   /\ h[k].inputs = Redirections(g, g[at[k]].inputs)
                   /\ h[k].columns = Redirections(g, g[at[k]].columns)
              /\ \A i \in DOMAIN g : ~IsDuplicate(g, i) => \E k \in DOMAIN h : at[k] = i
<1> DEFINE r == Redirected(g)
           P == {i \in DOMAIN r : r[i].id \notin Duplicates(g)}
           w == NodesAt(r, P)
           at == [k \in DOMAIN w |-> Sorted(P)[k]]
<1>1. Distinct(g) /\ DOMAIN g = 1..Len(g) /\ Len(g) \in Nat
  BY DEF Graph
<1>2. \A j \in DOMAIN g : g[j].id \in Duplicates(g) <=> IsDuplicate(g, j)
  BY <1>1 DEF Duplicates, Distinct
<1>3. /\ Graph(r) /\ r \in Seq(AlgorithmNode) /\ DOMAIN r = DOMAIN g
      /\ \A i \in DOMAIN g :
           /\ r[i].id = g[i].id /\ r[i].type = g[i].type
           /\ r[i].timeframe = g[i].timeframe /\ r[i].session = g[i].session
           /\ r[i].inputs = Redirections(g, g[i].inputs)
           /\ r[i].columns = Redirections(g, g[i].columns)
      /\ \A i \in DOMAIN g : \A id \in InputsOf(r[i]) :
           \E j \in 1..(i - 1) : id = g[j].id /\ ~IsDuplicate(g, j)
  BY RedirectedIsGraph DEF Graph
<1>4. h = w
  BY DEF Without
<1> HIDE DEF r
<1>5. \A i \in DOMAIN g : i \in P <=> ~IsDuplicate(g, i)
  BY <1>2, <1>3
<1>6. P \in SUBSET DOMAIN r
  OBVIOUS
<1> HIDE DEF P
<1>7. ASSUME NEW i \in P, NEW j \in DOMAIN r, r[j].id \in InputsOf(r[i]) PROVE j \in P
  <2>1. i \in DOMAIN g /\ j \in DOMAIN g
    BY <1>3, <1>6
  <2>2. PICK l \in 1..(i - 1) : r[j].id = g[l].id /\ ~IsDuplicate(g, l)
    BY <1>3, <1>7, <2>1
  <2>3. l \in DOMAIN g
    BY <1>1, <2>1
  <2>4. j = l
    BY <1>1, <1>3, <2>1, <2>2, <2>3 DEF Distinct
  <2> QED BY <1>5, <2>1, <2>2, <2>4
<1>8. Graph(w)
  <2> HIDE DEF w
  <2> QED BY <1>3, <1>6, <1>7, PartIsGraph DEF w
<1>9. /\ \A k \in DOMAIN w : Sorted(P)[k] \in P /\ w[k] = r[Sorted(P)[k]]
      /\ \A i \in P : \E k \in DOMAIN w : Sorted(P)[k] = i
  BY <1>3, <1>6, NodesAtLists
<1> HIDE DEF w
<1>10. at \in [DOMAIN w -> DOMAIN g]
  BY <1>3, <1>6, <1>9
<1>11. \A k \in DOMAIN w : at[k] \in P /\ at[k] \in DOMAIN g /\ w[k] = r[at[k]]
  BY <1>3, <1>6, <1>9
<1>12. \A i \in P : \E k \in DOMAIN w : at[k] = i
  BY <1>9
<1> HIDE DEF at
<1>13. \A k \in DOMAIN w :
         /\ ~IsDuplicate(g, at[k])
         /\ w[k].id = g[at[k]].id /\ w[k].type = g[at[k]].type
         /\ w[k].timeframe = g[at[k]].timeframe /\ w[k].session = g[at[k]].session
         /\ w[k].inputs = Redirections(g, g[at[k]].inputs)
         /\ w[k].columns = Redirections(g, g[at[k]].columns)
  BY <1>3, <1>5, <1>11
<1>14. \A i \in DOMAIN g : ~IsDuplicate(g, i) => \E k \in DOMAIN w : at[k] = i
  BY <1>5, <1>12
<1> QED
  BY <1>4, <1>8, <1>10, <1>13, <1>14

\* Merging leaves a sink where there was one.
LEMMA OptimizeKeepsTheGraph ==
  ASSUME NEW g, Graph(g), NEW h, h = Without(Redirected(g), Duplicates(g))
  PROVE  /\ Graph(h)
         /\ SinkIds(g) # {} => SinkIds(h) # {}
<1>1. DOMAIN g = 1..Len(g) /\ Len(g) \in Nat
  BY DEF Graph
<1>2. PICK at \in [DOMAIN h -> DOMAIN g] :
        /\ \A k \in DOMAIN h : h[k].type = g[at[k]].type
        /\ \A i \in DOMAIN g : ~IsDuplicate(g, i) => \E k \in DOMAIN h : at[k] = i
  BY MergedNodes
<1>3. ASSUME NEW i \in DOMAIN g, g[i].type \in Sinks PROVE SinkIds(h) # {}
  <2>1. PICK j \in DOMAIN g : ~IsDuplicate(g, j) /\ g[j].type \in Sinks
    <3>1. CASE ~IsDuplicate(g, i)
      BY <1>3, <3>1
    <3>2. CASE IsDuplicate(g, i)
      <4>1. PICK j \in 1..(i - 1) : ~IsDuplicate(g, j) /\ g[j].type = g[i].type
        BY <3>2, CanonicalIsEarlier
      <4>2. j \in DOMAIN g
        BY <1>1
      <4> QED BY <1>3, <4>1, <4>2
    <3> QED BY <3>1, <3>2
  <2>2. PICK k \in DOMAIN h : h[k].type \in Sinks
    BY <1>2, <2>1
  <2>3. h[k] \in ToSet(h)
    BY DEF ToSet
  <2> QED BY <2>2, <2>3 DEF SinkIds
<1>4. SinkIds(g) # {} => \E i \in DOMAIN g : g[i].type \in Sinks
  BY DEF SinkIds, ToSet
<1> QED
  BY <1>3, <1>4, MergedNodes

-----------------------------------------------------------------------------
(* removeOrphanNodes. *)

\* Every node is a sink or feeds another.
Used(g) ==
  \A n \in ToSet(g) : n.type \in Sinks \/ \E m \in ToSet(g) : n.id \in InputsOf(m)

\* What the search finds is a graph, with all the sinks and nothing unused: without
\* a node that is neither, the rest would be closed, too.
LEMMA OrphansLeave ==
  ASSUME NEW g, Graph(g), NEW found \in SUBSET IdsOf(g), Reachable(g, found)
  PROVE  /\ Graph(Without(g, IdsOf(g) \ found))
         /\ SinkIds(g) \subseteq SinkIds(Without(g, IdsOf(g) \ found))
         /\ Used(Without(g, IdsOf(g) \ found))
         /\ ToSet(Without(g, IdsOf(g) \ found)) \subseteq ToSet(g)
         /\ \A n \in ToSet(g) :
              n.type \in Sinks => n \in ToSet(Without(g, IdsOf(g) \ found))
<1> DEFINE P == {i \in DOMAIN g : g[i].id \notin IdsOf(g) \ found}
           h == NodesAt(g, P)
<1>1. /\ g \in Seq(AlgorithmNode) /\ Distinct(g) /\ InputsFirst(g)
      /\ DOMAIN g = 1..Len(g) /\ Len(g) \in Nat
  BY DEF Graph
<1>2. \A i \in DOMAIN g : i \in P <=> g[i].id \in found
  BY DEF IdsOf
<1>3. P \in SUBSET DOMAIN g /\ Without(g, IdsOf(g) \ found) = h
  BY DEF Without
<1> HIDE DEF P
<1>4. ASSUME NEW i \in P PROVE InputsOf(g[i]) \subseteq found
  <2>1. NodeOf(g, g[i].id) = g[i] /\ g[i].id \in found
    BY <1>1, <1>2, <1>3, NodeOfFinds
  <2>2. InputsOf(g[i]) \subseteq IdsOf(g)
    <3>1. \A j \in 1..(i - 1) : j \in DOMAIN g
      BY <1>1, <1>3
    <3> QED BY <1>1, <1>3, <3>1 DEF InputsFirst, IdsOf
  <2>3. InputsOf(g[i]) \cap IdsOf(g) \subseteq found
    BY <2>1 DEF Reachable, Closed
  <2> QED BY <2>2, <2>3
<1>5. Graph(h) /\ ToSet(h) = {g[i] : i \in P}
  <2>1. \A i \in P : \A j \in DOMAIN g : g[j].id \in InputsOf(g[i]) => j \in P
    BY <1>2, <1>4
  <2> HIDE DEF h
  <2> QED BY <1>3, <2>1, PartIsGraph DEF h
<1> HIDE DEF h
<1>6. \A n \in ToSet(g) : n.type \in Sinks => n \in ToSet(h)
  <2>1. ASSUME NEW i \in DOMAIN g, g[i].type \in Sinks PROVE g[i] \in ToSet(h)
    <3>1. g[i].id \in SinkIds(g)
      BY <2>1 DEF SinkIds, ToSet
    <3>2. i \in P
      BY <1>2, <3>1 DEF Reachable, Closed
    <3> QED BY <1>5, <3>2
  <2> QED BY <2>1 DEF ToSet
<1>9. SinkIds(g) \subseteq SinkIds(h)
  BY <1>6 DEF SinkIds
<1>10. ToSet(h) \subseteq ToSet(g)
  BY <1>3, <1>5 DEF ToSet
<1>7. ASSUME NEW i \in P, g[i].type \notin Sinks, \A j \in P : g[i].id \notin InputsOf(g[j])
      PROVE  FALSE
  <2> DEFINE T == found \ {g[i].id}
  <2>1. i \in DOMAIN g /\ g[i].id \in found
    BY <1>2, <1>3
  <2>2. g[i].id \notin SinkIds(g)
    BY <1>1, <1>7, <2>1 DEF SinkIds, ToSet, Distinct
  <2>3. SinkIds(g) \subseteq T
    BY <2>2 DEF Reachable, Closed
  <2>4. ASSUME NEW id \in T PROVE InputsOf(NodeOf(g, id)) \cap IdsOf(g) \subseteq T
    <3>1. PICK j \in DOMAIN g : g[j].id = id
      BY DEF IdsOf
    <3>2. NodeOf(g, id) = g[j] /\ j \in P
      BY <1>1, <1>2, <3>1, NodeOfFinds
    <3> QED BY <1>4, <1>7, <3>2
  <2>5. Closed(g, T) /\ T \in SUBSET found
    BY <2>3, <2>4 DEF Closed
  <2> HIDE DEF T
  <2>6. T = found
    BY <2>5 DEF Reachable
  <2> QED BY <2>1, <2>6 DEF T
<1>8. Used(h)
  BY <1>5, <1>7 DEF Used
<1> QED
  BY <1>3, <1>5, <1>6, <1>8, <1>9, <1>10

-----------------------------------------------------------------------------
(* Kahn's algorithm. *)

\* What in_degree counts are the inputs: all of them name earlier nodes.
LEMMA DependenciesAreInputs ==
  ASSUME Graph(algorithms), NEW i \in DOMAIN algorithms
  PROVE  /\ Dependencies(algorithms[i].id) = InputsOf(algorithms[i])
         /\ \A d \in Dependencies(algorithms[i].id) :
              \E j \in DOMAIN algorithms : j < i /\ algorithms[j].id = d
         /\ algorithms[i].id \notin Dependencies(algorithms[i].id)
<1>1. /\ Distinct(algorithms) /\ InputsFirst(algorithms)
      /\ DOMAIN algorithms = 1..Len(algorithms) /\ Len(algorithms) \in Nat
  BY DEF Graph
<1>2. \A d \in InputsOf(algorithms[i]) :
        \E j \in DOMAIN algorithms : j < i /\ algorithms[j].id = d
  <2>1. \A j \in 1..(i - 1) : j \in DOMAIN algorithms /\ j < i
    BY <1>1
  <2> QED BY <1>1, <2>1 DEF InputsFirst
<1>3. {m \in ToSet(algorithms) : m.id = algorithms[i].id} = {algorithms[i]}
  BY <1>1 DEF ToSet, Distinct
<1>4. InputsOf(algorithms[i]) \subseteq IdsOf(algorithms)
  BY <1>2 DEF IdsOf
<1>5. Dependencies(algorithms[i].id) = InputsOf(algorithms[i])
  BY <1>3, <1>4 DEF Dependencies
<1>6. \A j \in DOMAIN algorithms : j < i => algorithms[j].id # algorithms[i].id
  <2>1. \A j \in DOMAIN algorithms : j < i => j # i
    BY <1>1
  <2> QED BY <1>1, <2>1 DEF Distinct
<1> QED
  BY <1>2, <1>5, <1>6

\* The queue holds the nodes whose dependencies are sorted, and only those.
KahnInv ==
  /\ Graph(sorted) /\ ToSet(sorted) \subseteq ToSet(algorithms)
  /\ ToSet(queue) \subseteq IdsOf(algorithms)
  /\ \A k, l \in DOMAIN queue : queue[k] = queue[l] => k = l
  /\ \A id \in ToSet(queue) : id \notin IdsOf(sorted) /\ Dependencies(id) \subseteq IdsOf(sorted)
  /\ \A id \in IdsOf(algorithms) :
       Dependencies(id) \subseteq IdsOf(sorted) => id \in IdsOf(sorted) \cup ToSet(queue)

\* The ids of a graph are finitely many.
LEMMA FiniteIds ==
  ASSUME NEW g \in Seq(AlgorithmNode)
  PROVE  IsFiniteSet(IdsOf(g)) /\ IdsOf(g) \subseteq Ids
<1> DEFINE ids == [i \in DOMAIN g |-> g[i].id]
<1>1. \A i \in DOMAIN g : g[i].id \in Ids
  BY NodeTypes
<1>2. ids \in Seq(Ids)
  BY <1>1
<1>3. IdsOf(g) = Range(ids)
  BY DEF IdsOf, Range
<1> HIDE DEF ids
<1> QED
  BY <1>1, <1>2, <1>3, FiniteRange DEF IdsOf

LEMMA StartOfSort ==
  ASSUME TypeOK, Graph(algorithms), sorted = <<>>, StartSort
  PROVE  KahnInv' /\ TypeOK'
<1> DEFINE S == {id \in IdsOf(algorithms) : Dependencies(id) = {}}
<1>1. queue' \in SetToSeqs(S) /\ UNCHANGED <<strict, script, algorithms, sorted>> /\ pass' = "kahn"
  BY DEF StartSort
<1>2. IsFiniteSet(S) /\ S \subseteq Ids
  <2>1. S \in SUBSET IdsOf(algorithms)
    OBVIOUS
  <2> QED BY <2>1, FiniteIds, FS_Subset DEF Graph
<1> HIDE DEF S
<1>4. /\ queue' \in Seq(S) /\ ToSet(queue') = S
      /\ \A k, l \in DOMAIN queue' : queue'[k] = queue'[l] => k = l
  BY <1>1, <1>2, OrdersAreComplete
<1>6. queue' \in Seq(Ids)
  BY <1>2, <1>4
<1>7. sorted' = <<>> /\ ToSet(sorted') = {} /\ IdsOf(sorted') = {} /\ Graph(sorted')
  BY <1>1 DEF ToSet, IdsOf, Graph, Distinct, InputsFirst, ColumnsAreInputs
<1>8. \A id : Dependencies(id)' = Dependencies(id)
  BY <1>1 DEF Dependencies
<1>9. IdsOf(algorithms)' = IdsOf(algorithms)
  BY <1>1
<1>10. KahnInv'
  BY <1>4, <1>7, <1>8, <1>9 DEF KahnInv, S
<1>11. TypeOK'
  BY <1>1, <1>6 DEF TypeOK, Passes
<1> QED
  BY <1>10, <1>11

\* A node is emitted behind all it reads, and what waited for it alone is queued.
LEMMA EmitKeepsTheOrder ==
  ASSUME TypeOK, Graph(algorithms), KahnInv, EmitNode
  PROVE  KahnInv' /\ TypeOK'
<1> DEFINE h == Head(queue)
           g == algorithms
           done == IdsOf(sorted) \cup {h}
           ready == {m \in IdsOf(g) : h \in Dependencies(m) /\ Dependencies(m) \subseteq done}
<1>1. /\ queue # <<>> /\ sorted' = Append(sorted, g[IndexOf(h)])
      /\ queue' = Tail(queue) \o Released(h)
      /\ UNCHANGED <<strict, pass, script, algorithms>>
  BY DEF EmitNode
<1>2. /\ queue \in Seq(Ids) /\ Len(queue) \in Nat /\ DOMAIN queue = 1..Len(queue) /\ Len(queue) > 0
      /\ sorted \in Seq(AlgorithmNode) /\ Len(sorted) \in Nat
      /\ DOMAIN sorted = 1..Len(sorted)
      /\ g \in Seq(AlgorithmNode) /\ Distinct(g) /\ ColumnsAreInputs(g)
  BY <1>1 DEF TypeOK, Graph
<1>3. h = queue[1] /\ h \in ToSet(queue)
  BY <1>2 DEF ToSet
<1>4. PICK p \in DOMAIN g : g[p].id = h /\ IndexOf(h) = p
  <2>1. PICK i \in DOMAIN g : g[i].id = h
    BY <1>3 DEF KahnInv, IdsOf
  <2>2. {j \in DOMAIN g : g[j].id = h} = {i}
    BY <1>2, <2>1 DEF Distinct
  <2>3. {i} \in SUBSET Nat
    BY <1>2
  <2>4. Max({i}) = i
    BY <2>3, FS_Singleton, Extremes
  <2> QED BY <2>1, <2>2, <2>4 DEF IndexOf
<1>5. /\ h \notin IdsOf(sorted) /\ Dependencies(h) = InputsOf(g[p])
      /\ Dependencies(h) \subseteq IdsOf(sorted)
  BY <1>3, <1>4, DependenciesAreInputs DEF KahnInv
<1>6. /\ sorted' \in Seq(AlgorithmNode) /\ Len(sorted') = Len(sorted) + 1
      /\ \A i \in 1..Len(sorted) : sorted'[i] = sorted[i]
      /\ sorted'[Len(sorted) + 1] = g[p]
  BY <1>1, <1>2, <1>4
<1>7. \A i \in DOMAIN sorted' : i \in 1..Len(sorted) \/ i = Len(sorted) + 1
  BY <1>2, <1>6
<1>8. IdsOf(sorted') = done /\ ToSet(sorted') = ToSet(sorted) \cup {g[p]}
  <2>1. 1..Len(sorted) \subseteq DOMAIN sorted' /\ Len(sorted) + 1 \in DOMAIN sorted'
    BY <1>2, <1>6
  <2> QED BY <1>2, <1>4, <1>6, <1>7, <2>1 DEF IdsOf, ToSet
<1>9. Graph(sorted')
  <2>1. Graph(sorted)
    BY DEF KahnInv
  <2>2. Distinct(sorted')
    <3>1. \A i \in 1..Len(sorted) : sorted'[i].id # sorted'[Len(sorted) + 1].id
      BY <1>2, <1>4, <1>5, <1>6 DEF IdsOf
    <3> QED BY <1>2, <1>6, <1>7, <2>1, <3>1 DEF Graph, Distinct
  <2>3. InputsFirst(sorted')
    <3>1. ASSUME NEW i \in 1..Len(sorted)
          PROVE  InputsOf(sorted'[i]) \subseteq {sorted'[j].id : j \in 1..(i - 1)}
      <4>1. \A j \in 1..(i - 1) : sorted'[j] = sorted[j]
        BY <1>2, <1>6
      <4>2. InputsOf(sorted[i]) \subseteq {sorted[j].id : j \in 1..(i - 1)}
        BY <1>2, <2>1 DEF Graph, InputsFirst
      <4>3. {sorted[j].id : j \in 1..(i - 1)} = {sorted'[j].id : j \in 1..(i - 1)}
        BY <4>1
      <4> QED BY <1>6, <4>2, <4>3
    <3>2. InputsOf(sorted'[Len(sorted) + 1])
            \subseteq {sorted'[j].id : j \in 1..((Len(sorted) + 1) - 1)}
      <4>1. (Len(sorted) + 1) - 1 = Len(sorted)
        BY <1>2
      <4> QED BY <1>2, <1>5, <1>6, <4>1 DEF IdsOf
    <3> QED BY <1>7, <3>1, <3>2 DEF InputsFirst
  <2>4. ColumnsAreInputs(sorted')
    <3>1. \A i \in 1..Len(sorted) : ToSet(sorted'[i].columns) \subseteq InputsOf(sorted'[i])
      BY <1>2, <1>6, <2>1 DEF Graph, ColumnsAreInputs
    <3> QED BY <1>2, <1>4, <1>6, <1>7, <3>1 DEF ColumnsAreInputs
  <2> QED BY <1>6, <2>2, <2>3, <2>4 DEF Graph
<1>10. /\ Released(h) \in Seq(Ids) /\ ToSet(Released(h)) = ready
       /\ \A k, l \in DOMAIN Released(h) : Released(h)[k] = Released(h)[l] => k = l
  <2>1. Released(h) = InGraphOrder(ready)
    BY DEF Released
  <2>2. ready \in SUBSET IdsOf(g)
    OBVIOUS
  <2> HIDE DEF ready
  <2> QED BY <2>1, <2>2, GraphOrder
<1>11. /\ Tail(queue) \in Seq(Ids) /\ Len(Tail(queue)) = Len(queue) - 1
       /\ \A i \in 1..(Len(queue) - 1) : Tail(queue)[i] = queue[i + 1]
  BY <1>2
<1> DEFINE t == Tail(queue)
           r == Released(h)
<1>12. /\ queue' \in Seq(Ids) /\ Len(queue') = Len(t) + Len(r)
       /\ Len(t) \in Nat /\ Len(r) \in Nat
       /\ \A i \in 1..Len(t) : queue'[i] = t[i]
       /\ \A i \in (Len(t) + 1)..(Len(t) + Len(r)) : queue'[i] = r[i - Len(t)]
  <2>1. t \in Seq(Ids) /\ r \in Seq(Ids)
    BY <1>10, <1>11
  <2>2. queue' = t \o r
    BY <1>1
  <2> HIDE DEF t, r
  <2> QED BY <2>1, <2>2, Concatenation
<1>13. /\ ToSet(t) = ToSet(queue) \ {h}
       /\ \A k, l \in 1..Len(t) : t[k] = t[l] => k = l
  <2>1. \A k \in 1..Len(t) : k + 1 \in DOMAIN queue /\ t[k] = queue[k + 1] /\ k + 1 # 1
    BY <1>2, <1>11
  <2>2. \A k \in DOMAIN queue : k = 1 \/ (k - 1 \in 1..Len(t) /\ t[k - 1] = queue[k])
    BY <1>2, <1>11
  <2>3. DOMAIN t = 1..Len(t)
    BY <1>11
  <2>4. \A k, l \in DOMAIN queue : queue[k] = queue[l] => k = l
    BY DEF KahnInv
  <2>5. \A k, l \in 1..Len(t) : k + 1 = l + 1 => k = l
    BY <1>12
  <2>6. 1 \in DOMAIN queue
    BY <1>2
  <2> HIDE DEF t, h
  <2>7. ToSet(t) \subseteq ToSet(queue) \ {h}
    BY <1>3, <2>1, <2>3, <2>4, <2>6 DEF ToSet
  <2>8. ToSet(queue) \ {h} \subseteq ToSet(t)
    BY <1>3, <2>2, <2>3 DEF ToSet
  <2> QED BY <2>1, <2>4, <2>5, <2>7, <2>8
<1>14. ToSet(queue') = (ToSet(queue) \ {h}) \cup ready
  <2>1. DOMAIN queue' = 1..(Len(t) + Len(r)) /\ DOMAIN t = 1..Len(t) /\ DOMAIN r = 1..Len(r)
    BY <1>10, <1>11, <1>12
  <2> HIDE DEF t, r
  <2>2. \A i \in DOMAIN queue' : i \in 1..Len(t) \/ i - Len(t) \in 1..Len(r)
    BY <1>12, <2>1
  <2>3. ASSUME NEW i \in DOMAIN r
        PROVE  i + Len(t) \in DOMAIN queue' /\ queue'[i + Len(t)] = r[i]
    <3>1. i + Len(t) \in (Len(t) + 1)..(Len(t) + Len(r)) /\ (i + Len(t)) - Len(t) = i
      BY <1>12, <2>1
    <3>2. queue'[i + Len(t)] = r[(i + Len(t)) - Len(t)]
      BY <1>12, <3>1
    <3> QED BY <1>12, <2>1, <3>1, <3>2
  <2>4. ASSUME NEW i \in DOMAIN t PROVE i \in DOMAIN queue' /\ queue'[i] = t[i]
    BY <1>12, <2>1
  <2>5. \A i \in DOMAIN queue' :
          (i \in DOMAIN t /\ queue'[i] = t[i])
            \/ (i - Len(t) \in DOMAIN r /\ queue'[i] = r[i - Len(t)])
    BY <1>12, <2>1, <2>2
  <2>6. ToSet(queue') = ToSet(t) \cup ToSet(r)
    BY <2>3, <2>4, <2>5 DEF ToSet
  <2>7. ToSet(r) = ready
    BY <1>10 DEF r
  <2> QED BY <1>13, <2>6, <2>7
<1>15. ASSUME NEW m \in ready
       PROVE  m \in IdsOf(g) /\ m \notin done /\ m \notin ToSet(queue) /\ Dependencies(m) \subseteq done
  <2>1. PICK i \in DOMAIN g : g[i].id = m
    BY DEF IdsOf
  <2>2. h \in Dependencies(m) /\ Dependencies(m) = InputsOf(g[i]) /\ m \notin Dependencies(m)
    BY <2>1, DependenciesAreInputs
  <2>3. m # h
    BY <2>2
  <2>4. m \notin IdsOf(sorted)
    <3>1. ASSUME NEW k \in DOMAIN sorted, sorted[k].id = m PROVE FALSE
      <4>0. PICK q \in DOMAIN g : sorted[k] = g[q]
        BY DEF KahnInv, ToSet
      <4>1. sorted[k] = g[i]
        BY <1>2, <2>1, <3>1, <4>0 DEF Distinct
      <4>2. InputsOf(sorted[k]) \subseteq IdsOf(sorted)
        <5>1. \A j \in 1..(k - 1) : j \in DOMAIN sorted
          BY <1>2
        <5> QED BY <5>1 DEF KahnInv, Graph, InputsFirst, IdsOf
      <4> QED BY <1>5, <2>2, <4>1, <4>2
    <3> QED BY <3>1 DEF IdsOf
  <2>5. m \notin ToSet(queue)
    BY <1>5, <2>2 DEF KahnInv
  <2> QED BY <2>3, <2>4, <2>5
<1>16. \A k, l \in DOMAIN queue' : queue'[k] = queue'[l] => k = l
  <2>1. ASSUME NEW k \in 1..Len(t), NEW l \in (Len(t) + 1)..(Len(t) + Len(r))
        PROVE  queue'[k] # queue'[l]
    <3>1. k \in DOMAIN t /\ l - Len(t) \in DOMAIN r
      BY <1>10, <1>11, <1>12
    <3>2. t[k] \in ToSet(queue) /\ r[l - Len(t)] \in ready
      <4>1. t[k] \in ToSet(t) /\ r[l - Len(t)] \in ToSet(r)
        BY <3>1 DEF ToSet
      <4> QED BY <1>10, <1>13, <4>1
    <3>3. t[k] # r[l - Len(t)]
      BY <1>15, <3>2
    <3> QED BY <1>12, <3>3
  <2>2. ASSUME NEW k \in (Len(t) + 1)..(Len(t) + Len(r)), NEW l \in (Len(t) + 1)..(Len(t) + Len(r)),
               queue'[k] = queue'[l]
        PROVE  k = l
    <3>1. k - Len(t) \in DOMAIN r /\ l - Len(t) \in DOMAIN r
      BY <1>10, <1>12
    <3>2. k - Len(t) = l - Len(t)
      BY <1>10, <1>12, <2>2, <3>1
    <3> QED BY <1>12, <3>2
  <2>3. \A k \in DOMAIN queue' : k \in 1..Len(t) \/ k \in (Len(t) + 1)..(Len(t) + Len(r))
    BY <1>12
  <2> HIDE DEF t, r
  <2>4. ASSUME NEW k \in 1..Len(t), NEW l \in 1..Len(t), queue'[k] = queue'[l] PROVE k = l
    BY <1>12, <1>13, <2>4
  <2> QED BY <2>1, <2>2, <2>3, <2>4
<1> HIDE DEF ready, done, h
<1>17. \A id : Dependencies(id)' = Dependencies(id)
  BY <1>1 DEF Dependencies
<1>18. IdsOf(algorithms)' = IdsOf(g) /\ ToSet(algorithms)' = ToSet(g)
       /\ IdsOf(sorted)' = done /\ ToSet(sorted)' = ToSet(sorted) \cup {g[p]}
       /\ ToSet(queue)' = (ToSet(queue) \ {h}) \cup ready
  BY <1>1, <1>8, <1>14
<1>19. ToSet(sorted)' \subseteq ToSet(algorithms)'
  BY <1>18 DEF KahnInv, ToSet
<1>20. ToSet(queue)' \subseteq IdsOf(algorithms)'
  BY <1>15, <1>18 DEF KahnInv
<1>21. ASSUME NEW id \in ToSet(queue)'
       PROVE  id \notin IdsOf(sorted)' /\ Dependencies(id) \subseteq IdsOf(sorted)'
  <2>1. CASE id \in ready
    BY <1>15, <1>18, <2>1
  <2>2. CASE id \in ToSet(queue) \ {h}
    BY <1>18, <2>2 DEF KahnInv, done
  <2> QED BY <1>18, <2>1, <2>2
<1>22. ASSUME NEW id \in IdsOf(g), Dependencies(id) \subseteq done
       PROVE  id \in done \cup (ToSet(queue) \ {h}) \cup ready
  <2>1. CASE h \in Dependencies(id)
    BY <1>22, <2>1 DEF ready, done
  <2>2. CASE h \notin Dependencies(id)
    BY <1>22, <2>2 DEF KahnInv, done
  <2> QED BY <2>1, <2>2
<1>23. KahnInv'
  BY <1>9, <1>16, <1>17, <1>18, <1>19, <1>20, <1>21, <1>22 DEF KahnInv
<1>24. TypeOK'
  BY <1>1, <1>6, <1>12 DEF TypeOK
<1> QED
  BY <1>23, <1>24

\* When the queue is empty, every node has been emitted: the first that had not
\* would have nothing left to wait for.
LEMMA SortEmitsAll ==
  ASSUME TypeOK, Graph(algorithms), KahnInv, queue = <<>>
  PROVE  /\ Len(sorted) = Len(algorithms)
         /\ ToSet(sorted) = ToSet(algorithms)
<1> DEFINE g == algorithms
           Left == {i \in DOMAIN g : g[i].id \notin IdsOf(sorted)}
<1>1. /\ g \in Seq(AlgorithmNode) /\ Distinct(g)
      /\ DOMAIN g = 1..Len(g) /\ Len(g) \in Nat
      /\ sorted \in Seq(AlgorithmNode) /\ Distinct(sorted)
      /\ DOMAIN sorted = 1..Len(sorted) /\ Len(sorted) \in Nat
  BY DEF TypeOK, Graph, KahnInv
<1>2. ToSet(queue) = {}
  BY DEF ToSet
<1>3. Left = {}
  <2> SUFFICES ASSUME Left # {} PROVE FALSE
    OBVIOUS
  <2>1. Left \in SUBSET Nat /\ IsFiniteSet(Left)
    BY <1>1, Positions
  <2>2. PICK m \in Left : \A i \in Left : m <= i
    <3> HIDE DEF Left
    <3> QED BY <2>1, Extremes
  <2>3. Dependencies(g[m].id) \subseteq IdsOf(sorted)
    <3>1. ASSUME NEW d \in Dependencies(g[m].id) PROVE d \in IdsOf(sorted)
      <4>1. PICK j \in DOMAIN g : j < m /\ g[j].id = d
        BY DependenciesAreInputs
      <4>2. ~(m <= j)
        BY <1>1, <4>1
      <4> QED BY <2>2, <4>1, <4>2
    <3> QED BY <3>1
  <2>4. g[m].id \in IdsOf(g)
    BY DEF IdsOf
  <2> QED BY <1>2, <2>3, <2>4 DEF KahnInv
<1>4. ToSet(sorted) = ToSet(g)
  <2>1. ASSUME NEW i \in DOMAIN g PROVE g[i] \in ToSet(sorted)
    <3>1. PICK k \in DOMAIN sorted : sorted[k].id = g[i].id
      BY <1>3 DEF IdsOf
    <3>2. PICK j \in DOMAIN g : sorted[k] = g[j]
      BY DEF KahnInv, ToSet
    <3>3. j = i
      BY <1>1, <3>1, <3>2 DEF Distinct
    <3> QED BY <3>2, <3>3 DEF ToSet
  <2> QED BY <2>1 DEF KahnInv, ToSet
<1>5. Len(sorted) = Len(g)
  <2> DEFINE to == [k \in 1..Len(sorted) |-> CHOOSE i \in 1..Len(g) : g[i] = sorted[k]]
  <2>1. ASSUME NEW k \in 1..Len(sorted) PROVE to[k] \in 1..Len(g) /\ g[to[k]] = sorted[k]
    <3>1. \E i \in 1..Len(g) : g[i] = sorted[k]
      BY <1>1, <1>4 DEF ToSet
    <3> QED BY <3>1
  <2>2. to \in [1..Len(sorted) -> 1..Len(g)]
    BY <2>1
  <2>3. \A k, l \in 1..Len(sorted) : to[k] = to[l] => k = l
    <3> HIDE DEF to
    <3> QED BY <1>1, <2>1, SMTT(30) DEF Distinct
  <2>4. \A i \in 1..Len(g) : \E k \in 1..Len(sorted) : to[k] = i
    <3>1. ASSUME NEW i \in 1..Len(g) PROVE \E k \in 1..Len(sorted) : to[k] = i
      <4>1. PICK k \in 1..Len(sorted) : sorted[k] = g[i]
        BY <1>1, <1>4 DEF ToSet
      <4>2. to[k] = i
        <5> HIDE DEF to
        <5> QED BY <1>1, <2>1, <4>1 DEF Distinct
      <4> QED BY <4>2
    <3> QED BY <3>1
  <2> HIDE DEF to
  <2>5. to \in Injection(1..Len(sorted), 1..Len(g)) /\ to \in Surjection(1..Len(sorted), 1..Len(g))
    BY <2>2, <2>3, <2>4, Fun_IsInj DEF Surjection
  <2>6. /\ IsFiniteSet(1..Len(g)) /\ Cardinality(1..Len(g)) = Len(g)
        /\ Cardinality(1..Len(sorted)) = Len(sorted)
    BY <1>1, Segments
  <2> QED BY <2>5, <2>6, FS_Injection
<1> QED
  BY <1>4, <1>5

-----------------------------------------------------------------------------
(* resolveTimeframes. *)

LEMMA CoarsestIsOne ==
  ASSUME PassesAssumption, NEW S \in SUBSET Timeframes
  PROVE  /\ Coarsest(S) \in S \cup {None} /\ Coarsest(S) \in Timeframes
         /\ \A t \in S : t <= Coarsest(S)
<1> DEFINE T == S \cup {None}
<1>1. MaxTimeframe \in Nat /\ None \in Nat /\ None \in Timeframes /\ Timeframes \subseteq Nat
  BY DEF PassesAssumption, None, Timeframes
<1>2. T \in SUBSET Timeframes /\ T \in SUBSET Nat /\ T # {}
  BY <1>1
<1>3. IsFiniteSet(T)
  <2>1. IsFiniteSet(Timeframes)
    BY <1>1, FS_Interval DEF Timeframes, None
  <2> QED BY <1>2, <2>1, FS_Subset
<1>4. Max(T) \in T /\ \A t \in T : t <= Max(T)
  <2> HIDE DEF T
  <2> QED BY <1>2, <1>3, Extremes
<1>5. Coarsest(S) = Max(T)
  BY DEF Coarsest
<1> QED
  BY <1>2, <1>4, <1>5

\* What pass 1 gives the node at position i, once f has what it gives the earlier.
TakesFromInputs(g, f, i) ==
  IF g[i].timeframe # None THEN g[i].timeframe
  ELSE Coarsest({f[j] : j \in {k \in 1..(i - 1) : g[k].id \in InputsOf(g[i])}})

\* The recursion of pass 1 has a solution, which is FromInputs.
LEMMA FromInputsIsDefined ==
  ASSUME NEW g \in Seq(AlgorithmNode)
  PROVE  FromInputs(g) = [i \in DOMAIN g |-> TakesFromInputs(g, FromInputs(g), i)]
<1> DEFINE Solves(f, n) == f = [i \in 1..n |-> TakesFromInputs(g, f, i)]
           S == {n \in Nat : \E f : Solves(f, n)}
<1>1. 0 \in S
  <2>1. Solves([i \in 1..0 |-> 0], 0)
    OBVIOUS
  <2> QED BY <2>1
<1>2. ASSUME NEW n \in Nat, n \in S PROVE n + 1 \in S
  <2>1. PICK f : Solves(f, n)
    BY <1>2
  <2> DEFINE e == [i \in 1..(n + 1) |-> TakesFromInputs(g, f, i)]
  <2>2. ASSUME NEW i \in 1..(n + 1) PROVE TakesFromInputs(g, e, i) = TakesFromInputs(g, f, i)
    <3>1. \A j \in 1..(i - 1) : e[j] = f[j]
      BY <2>1
    <3> HIDE DEF e
    <3>2. {e[j] : j \in {k \in 1..(i - 1) : g[k].id \in InputsOf(g[i])}}
          = {f[j] : j \in {k \in 1..(i - 1) : g[k].id \in InputsOf(g[i])}}
      BY <3>1
    <3> QED BY <3>2 DEF TakesFromInputs
  <2>3. Solves(e, n + 1)
    BY <2>2
  <2> HIDE DEF e, Solves
  <2> QED BY <2>3
<1>3. Len(g) \in S /\ DOMAIN g = 1..Len(g)
  <2> HIDE DEF S
  <2> QED BY <1>1, <1>2, SetInduction
<1>4. FromInputs(g) = CHOOSE f : f = [i \in DOMAIN g |-> TakesFromInputs(g, f, i)]
  BY DEF FromInputs, TakesFromInputs
<1> QED
  BY <1>3, <1>4

\* What pass 1 gives is a timeframe.
LEMMA FromInputsTypes ==
  ASSUME PassesAssumption, NEW g \in Seq(AlgorithmNode)
  PROVE  FromInputs(g) \in [DOMAIN g -> Timeframes]
<1> DEFINE F == FromInputs(g)
           S == {n \in Nat : \A i \in DOMAIN g : i <= n => F[i] \in Timeframes}
<1>1. DOMAIN g = 1..Len(g) /\ Len(g) \in Nat
  OBVIOUS
<1>2. F = [i \in DOMAIN g |-> TakesFromInputs(g, F, i)]
  BY FromInputsIsDefined
<1> HIDE DEF F
<1>3. 0 \in S
  BY <1>1
<1>4. ASSUME NEW n \in Nat, n \in S PROVE n + 1 \in S
  <2>1. ASSUME NEW i \in DOMAIN g, i <= n + 1 PROVE F[i] \in Timeframes
    <3>1. \A j \in 1..(i - 1) : j \in DOMAIN g /\ j <= n
      BY <1>1, <2>1
    <3>2. \A j \in 1..(i - 1) : F[j] \in Timeframes
      BY <1>4, <3>1
    <3> DEFINE of == {F[j] : j \in {k \in 1..(i - 1) : g[k].id \in InputsOf(g[i])}}
    <3>3. of \in SUBSET Timeframes
      BY <3>2
    <3>4. Coarsest(of) \in Timeframes
      <4> HIDE DEF of
      <4> QED BY <3>3, CoarsestIsOne
    <3>5. F[i] = IF g[i].timeframe # None THEN g[i].timeframe ELSE Coarsest(of)
      BY <1>2 DEF TakesFromInputs
    <3>6. g[i].timeframe \in Timeframes
      BY NodeTypes
    <3> HIDE DEF of
    <3> QED BY <3>4, <3>5, <3>6
  <2> QED BY <2>1
<1>5. Len(g) \in S
  <2> HIDE DEF S
  <2> QED BY <1>1, <1>3, <1>4, SetInduction
<1>6. \A i \in DOMAIN g : F[i] \in Timeframes
  BY <1>1, <1>5
<1>7. F \in [DOMAIN g -> Timeframes]
  BY <1>2, <1>6
<1> QED
  BY <1>7 DEF F

\* What pass 2 makes of the timeframe before[i], once f has what it made of the
\* earlier ones.
TakesFromDependents(g, before, f, i) ==
  IF before[i] # None \/ g[i].type \in Scalars THEN before[i]
  ELSE Coarsest({IF j < i THEN f[j] ELSE before[j] :
                   j \in {k \in DOMAIN g : g[i].id \in InputsOf(g[k])}})

LEMMA FromDependentsIsDefined ==
  ASSUME NEW g \in Seq(AlgorithmNode)
  PROVE  FromDependents(g) =
           [i \in DOMAIN g |-> TakesFromDependents(g, FromInputs(g), FromDependents(g), i)]
<1> DEFINE B == FromInputs(g)
           Solves(f, n) == f = [i \in 1..n |-> TakesFromDependents(g, B, f, i)]
           S == {n \in Nat : \E f : Solves(f, n)}
<1>0. DOMAIN g = 1..Len(g) /\ Len(g) \in Nat
  OBVIOUS
<1>1. 0 \in S
  <2>1. Solves([i \in 1..0 |-> 0], 0)
    OBVIOUS
  <2> QED BY <2>1
<1>2. ASSUME NEW n \in Nat, n \in S PROVE n + 1 \in S
  <2>1. PICK f : Solves(f, n)
    BY <1>2
  <2> DEFINE e == [i \in 1..(n + 1) |-> TakesFromDependents(g, B, f, i)]
  <2>2. ASSUME NEW i \in 1..(n + 1)
        PROVE  TakesFromDependents(g, B, e, i) = TakesFromDependents(g, B, f, i)
    <3>1. \A j \in 1..(i - 1) : e[j] = f[j]
      BY <2>1
    <3>2. \A j \in DOMAIN g : j < i => j \in 1..(i - 1)
      BY <1>0
    <3> HIDE DEF e, B
    <3>3. {IF j < i THEN e[j] ELSE B[j] : j \in {k \in DOMAIN g : g[i].id \in InputsOf(g[k])}}
          = {IF j < i THEN f[j] ELSE B[j] : j \in {k \in DOMAIN g : g[i].id \in InputsOf(g[k])}}
      BY <3>1, <3>2
    <3> QED BY <3>3 DEF TakesFromDependents
  <2>3. Solves(e, n + 1)
    BY <2>2
  <2> HIDE DEF e, Solves
  <2> QED BY <2>3
<1>3. Len(g) \in S
  <2> HIDE DEF S
  <2> QED BY <1>0, <1>1, <1>2, SetInduction
<1>4. FromDependents(g) = CHOOSE f : f = [i \in DOMAIN g |-> TakesFromDependents(g, B, f, i)]
  BY DEF FromDependents, TakesFromDependents
<1> QED
  BY <1>0, <1>3, <1>4

\* What pass 2 gives is a timeframe.
LEMMA FromDependentsTypes ==
  ASSUME PassesAssumption, NEW g \in Seq(AlgorithmNode)
  PROVE  FromDependents(g) \in [DOMAIN g -> Timeframes]
<1> DEFINE B == FromInputs(g)
           F == FromDependents(g)
           S == {n \in Nat : \A i \in DOMAIN g : i <= n => F[i] \in Timeframes}
<1>1. DOMAIN g = 1..Len(g) /\ Len(g) \in Nat
  OBVIOUS
<1>2. F = [i \in DOMAIN g |-> TakesFromDependents(g, B, F, i)]
  BY FromDependentsIsDefined
<1>3. \A i \in DOMAIN g : B[i] \in Timeframes
  BY FromInputsTypes
<1> HIDE DEF F, B
<1>4. 0 \in S
  BY <1>1
<1>5. ASSUME NEW n \in Nat, n \in S PROVE n + 1 \in S
  <2>1. ASSUME NEW i \in DOMAIN g, i <= n + 1 PROVE F[i] \in Timeframes
    <3>1. \A j \in DOMAIN g : j < i => j <= n
      BY <1>1, <2>1
    <3>2. \A j \in DOMAIN g : (IF j < i THEN F[j] ELSE B[j]) \in Timeframes
      BY <1>3, <1>5, <3>1
    <3> DEFINE of == {IF j < i THEN F[j] ELSE B[j] :
                        j \in {k \in DOMAIN g : g[i].id \in InputsOf(g[k])}}
    <3>3. of \in SUBSET Timeframes
      BY <3>2
    <3>4. Coarsest(of) \in Timeframes
      <4> HIDE DEF of
      <4> QED BY <3>3, CoarsestIsOne
    <3>5. F[i] = IF B[i] # None \/ g[i].type \in Scalars THEN B[i] ELSE Coarsest(of)
      BY <1>2 DEF TakesFromDependents
    <3> HIDE DEF of
    <3> QED BY <1>3, <3>4, <3>5
  <2> QED BY <2>1
<1>6. Len(g) \in S
  <2> HIDE DEF S
  <2> QED BY <1>1, <1>4, <1>5, SetInduction
<1>7. \A i \in DOMAIN g : F[i] \in Timeframes
  BY <1>1, <1>6
<1>8. F \in [DOMAIN g -> Timeframes]
  BY <1>2, <1>7
<1> QED
  BY <1>8 DEF F

\* Giving the nodes their timeframes changes nothing else about the graph.
LEMMA ResolvingKeepsTheGraph ==
  ASSUME PassesAssumption, NEW g, Graph(g), NEW r, r = Resolved(g)
  PROVE  /\ Graph(r) /\ Len(r) = Len(g) /\ DOMAIN r = DOMAIN g
         /\ \A i \in DOMAIN g : /\ r[i].id = g[i].id /\ r[i].type = g[i].type
                                /\ r[i].inputs = g[i].inputs
                                /\ r[i].timeframe = FromDependents(g)[i]
         /\ SinkIds(r) = SinkIds(g)
         /\ Used(g) => Used(r)
<1> DEFINE F == FromDependents(g)
<1>1. /\ g \in Seq(AlgorithmNode) /\ Distinct(g) /\ InputsFirst(g) /\ ColumnsAreInputs(g)
      /\ DOMAIN g = 1..Len(g) /\ Len(g) \in Nat
  BY DEF Graph
<1>2. \A i \in DOMAIN g : F[i] \in Timeframes
  BY <1>1, FromDependentsTypes
<1> HIDE DEF F
<1>3. r = [i \in DOMAIN g |-> [g[i] EXCEPT !.timeframe = F[i]]]
  BY DEF F, Resolved
<1>4. ASSUME NEW i \in DOMAIN g
      PROVE  /\ r[i] \in AlgorithmNode
             /\ r[i].id = g[i].id /\ r[i].type = g[i].type /\ r[i].inputs = g[i].inputs
             /\ r[i].columns = g[i].columns
             /\ r[i].timeframe = F[i] /\ InputsOf(r[i]) = InputsOf(g[i])
  <2>1. g[i] \in AlgorithmNode /\ F[i] \in Timeframes
    BY <1>1, <1>2
  <2>2. r[i] = [g[i] EXCEPT !.timeframe = F[i]]
    BY <1>3
  <2>3. /\ r[i] \in AlgorithmNode
        /\ r[i].id = g[i].id /\ r[i].type = g[i].type /\ r[i].inputs = g[i].inputs
        /\ r[i].columns = g[i].columns /\ r[i].timeframe = F[i]
    BY <2>1, <2>2 DEF AlgorithmNode
  <2> QED BY <2>3 DEF InputsOf
<1>5. DOMAIN r = DOMAIN g /\ r \in Seq(AlgorithmNode) /\ Len(r) = Len(g)
  <2>1. r = [i \in DOMAIN g |-> r[i]]
    BY <1>3
  <2>2. r = [i \in 1..Len(g) |-> r[i]] /\ \A i \in 1..Len(g) : r[i] \in AlgorithmNode
    BY <1>1, <1>4, <2>1
  <2> QED BY <1>1, <2>2, IsSequence
<1>6. Graph(r)
  <2>1. Distinct(r)
    BY <1>1, <1>4, <1>5 DEF Distinct
  <2>2. ASSUME NEW i \in DOMAIN g
        PROVE  InputsOf(r[i]) \subseteq {r[j].id : j \in 1..(i - 1)}
    <3>1. InputsOf(g[i]) \subseteq {g[j].id : j \in 1..(i - 1)}
      BY <1>1 DEF InputsFirst
    <3>2. \A j \in 1..(i - 1) : j \in DOMAIN g
      BY <1>1
    <3>3. \A j \in 1..(i - 1) : r[j].id = g[j].id
      BY <1>4, <3>2
    <3>4. {r[j].id : j \in 1..(i - 1)} = {g[j].id : j \in 1..(i - 1)}
      BY <3>3
    <3> QED BY <1>4, <3>1, <3>4
  <2>3. ColumnsAreInputs(r)
    BY <1>1, <1>4, <1>5 DEF ColumnsAreInputs
  <2> QED BY <1>5, <2>1, <2>2, <2>3 DEF Graph, InputsFirst
<1>7. SinkIds(r) = SinkIds(g)
  BY <1>4, <1>5 DEF SinkIds, ToSet
<1>8. Used(g) => Used(r)
  <2> SUFFICES ASSUME Used(g), NEW i \in DOMAIN r, r[i].type \notin Sinks
               PROVE  \E j \in DOMAIN r : r[i].id \in InputsOf(r[j])
    BY DEF Used, ToSet
  <2>1. g[i] \in ToSet(g) /\ g[i].type \notin Sinks
    BY <1>4, <1>5 DEF ToSet
  <2>2. PICK j \in DOMAIN g : g[i].id \in InputsOf(g[j])
    BY <2>1 DEF Used, ToSet
  <2> QED BY <1>4, <1>5, <2>2
<1> QED
  BY <1>4, <1>5, <1>6, <1>7, <1>8 DEF F

-----------------------------------------------------------------------------
(* What the nodes compute. *)

\* The position of the node that node i names by id.
Producer(g, i, id) == CHOOSE j \in 1..(i - 1) : g[j].id = id

\* What f has for the nodes that node i names by ids.
Producers(g, f, i, ids) == [k \in DOMAIN ids |-> f[Producer(g, i, ids[k])]]

\* The term of node i, once f has those of the earlier nodes.
TermOf(g, f, i) ==
  <<g[i].type,
    IF g[i].type \in CseScalars THEN <<>> ELSE <<g[i].timeframe, g[i].session>>,
    Producers(g, f, i, g[i].inputs), Producers(g, f, i, g[i].columns)>>

LEMMA ProducerFound ==
  ASSUME NEW g, Graph(g), NEW i \in DOMAIN g, NEW id \in InputsOf(g[i])
  PROVE  /\ Producer(g, i, id) \in 1..(i - 1) /\ Producer(g, i, id) \in DOMAIN g
         /\ g[Producer(g, i, id)].id = id
<1>1. g \in Seq(AlgorithmNode) /\ InputsFirst(g)
  BY DEF Graph
<1>2. \E j \in 1..(i - 1) : g[j].id = id
  BY <1>1 DEF InputsFirst
<1>3. Producer(g, i, id) \in 1..(i - 1) /\ g[Producer(g, i, id)].id = id
  BY <1>2 DEF Producer
<1> QED
  BY <1>1, <1>3

\* Inputs and columns name inputs.
LEMMA NamesAreInputs ==
  ASSUME NEW g, Graph(g), NEW i \in DOMAIN g
  PROVE  /\ \A k \in DOMAIN g[i].inputs : g[i].inputs[k] \in InputsOf(g[i])
         /\ \A k \in DOMAIN g[i].columns : g[i].columns[k] \in InputsOf(g[i])
BY DEF Graph, ColumnsAreInputs, InputsOf, ToSet

\* The recursion of Terms has a solution, which is Terms.
LEMMA TermsAreDefined ==
  ASSUME NEW g, Graph(g)
  PROVE  Terms(g) = [i \in DOMAIN g |-> TermOf(g, Terms(g), i)]
<1> DEFINE Solves(f, n) == f = [i \in 1..n |-> TermOf(g, f, i)]
           S == {n \in Nat : n <= Len(g) => \E f : Solves(f, n)}
<1>0. DOMAIN g = 1..Len(g) /\ Len(g) \in Nat
  BY DEF Graph
<1>1. 0 \in S
  <2>1. Solves([i \in 1..0 |-> 0], 0)
    OBVIOUS
  <2> QED BY <2>1
<1>2. ASSUME NEW n \in Nat, n \in S PROVE n + 1 \in S
  <2> SUFFICES ASSUME n + 1 <= Len(g) PROVE \E f : Solves(f, n + 1)
    <3> HIDE DEF Solves
    <3> QED OBVIOUS
  <2>1. PICK f : Solves(f, n)
    BY <1>0, <1>2
  <2> DEFINE e == [i \in 1..(n + 1) |-> TermOf(g, f, i)]
  <2>2. ASSUME NEW i \in 1..(n + 1) PROVE TermOf(g, e, i) = TermOf(g, f, i)
    <3>1. \A j \in 1..(i - 1) : e[j] = f[j]
      BY <2>1
    <3>2. i \in DOMAIN g
      BY <1>0
    <3> HIDE DEF e
    <3>3. \A id \in InputsOf(g[i]) : e[Producer(g, i, id)] = f[Producer(g, i, id)]
      BY <3>1, <3>2, ProducerFound
    <3>4. /\ \A k \in DOMAIN g[i].inputs : g[i].inputs[k] \in InputsOf(g[i])
          /\ \A k \in DOMAIN g[i].columns : g[i].columns[k] \in InputsOf(g[i])
      BY <3>2, NamesAreInputs
    <3>5. /\ Producers(g, e, i, g[i].inputs) = Producers(g, f, i, g[i].inputs)
          /\ Producers(g, e, i, g[i].columns) = Producers(g, f, i, g[i].columns)
      BY <3>3, <3>4 DEF Producers
    <3> QED BY <3>5 DEF TermOf
  <2>3. Solves(e, n + 1)
    BY <2>2
  <2> HIDE DEF e, Solves
  <2> QED BY <2>3
<1>3. Len(g) \in S
  <2> HIDE DEF S
  <2> QED BY <1>0, <1>1, <1>2, SetInduction
<1>4. Terms(g) = CHOOSE f : f = [i \in DOMAIN g |-> TermOf(g, f, i)]
  BY DEF Terms, TermOf, Producers, Producer
<1> QED
  BY <1>0, <1>3, <1>4

\* Ids that name, in two graphs, nodes that compute the same.
NameTheSame(g, h, to, i, ids, others) ==
  /\ DOMAIN ids = DOMAIN others
  /\ \A k \in DOMAIN ids :
       Terms(g)[to[Producer(h, i, ids[k])]] = Terms(g)[Producer(g, to[i], others[k])]

\* Two graphs whose nodes correspond, what is named in one to what computes the same
\* as what is named in the other, compute the same.
LEMMA TermsCorrespond ==
  ASSUME NEW g, Graph(g), NEW h, Graph(h), NEW to \in [DOMAIN h -> DOMAIN g],
         \A i \in DOMAIN h :
           /\ h[i].type = g[to[i]].type
           /\ h[i].timeframe = g[to[i]].timeframe /\ h[i].session = g[to[i]].session
           /\ NameTheSame(g, h, to, i, h[i].inputs, g[to[i]].inputs)
           /\ NameTheSame(g, h, to, i, h[i].columns, g[to[i]].columns)
  PROVE  \A i \in DOMAIN h : Terms(h)[i] = Terms(g)[to[i]]
<1> DEFINE S == {n \in Nat : \A i \in DOMAIN h : i <= n => Terms(h)[i] = Terms(g)[to[i]]}
<1>0. DOMAIN h = 1..Len(h) /\ Len(h) \in Nat
  BY DEF Graph
<1>1. 0 \in S
  BY <1>0
<1>2. ASSUME NEW n \in Nat, n \in S PROVE n + 1 \in S
  <2>1. ASSUME NEW i \in DOMAIN h, i <= n + 1 PROVE Terms(h)[i] = Terms(g)[to[i]]
    <3>1. ASSUME NEW id \in InputsOf(h[i])
          PROVE  Terms(h)[Producer(h, i, id)] = Terms(g)[to[Producer(h, i, id)]]
      <4>1. Producer(h, i, id) \in 1..(i - 1) /\ Producer(h, i, id) \in DOMAIN h
        BY ProducerFound
      <4>2. Producer(h, i, id) <= n
        BY <1>0, <2>1, <4>1
      <4> QED BY <1>2, <4>1, <4>2
    <3>2. ASSUME NEW ids, NEW others, NameTheSame(g, h, to, i, ids, others),
                 \A k \in DOMAIN ids : ids[k] \in InputsOf(h[i])
          PROVE  Producers(h, Terms(h), i, ids) = Producers(g, Terms(g), to[i], others)
      BY <3>1, <3>2 DEF NameTheSame, Producers
    <3>3. to[i] \in DOMAIN g
      OBVIOUS
    <3>4. /\ Producers(h, Terms(h), i, h[i].inputs)
               = Producers(g, Terms(g), to[i], g[to[i]].inputs)
          /\ Producers(h, Terms(h), i, h[i].columns)
               = Producers(g, Terms(g), to[i], g[to[i]].columns)
      BY <3>2, NamesAreInputs
    <3>5. TermOf(h, Terms(h), i) = TermOf(g, Terms(g), to[i])
      BY <3>4 DEF TermOf
    <3>6. Terms(h)[i] = TermOf(h, Terms(h), i)
      BY TermsAreDefined
    <3>7. Terms(g)[to[i]] = TermOf(g, Terms(g), to[i])
      BY <3>3, TermsAreDefined
    <3> QED BY <3>5, <3>6, <3>7
  <2> QED BY <2>1
<1>3. Len(h) \in S
  <2> HIDE DEF S
  <2> QED BY <1>0, <1>1, <1>2, SetInduction
<1> QED
  BY <1>0, <1>3

\* Sets in correspondence are of one size.
LEMMA SameCount ==
  ASSUME NEW S, NEW T, IsFiniteSet(T), NEW f \in [S -> T],
         \A x, y \in S : f[x] = f[y] => x = y,
         \A z \in T : \E x \in S : f[x] = z
  PROVE  Cardinality(S) = Cardinality(T)
<1>1. f \in Injection(S, T) /\ f \in Surjection(S, T)
  BY Fun_IsInj DEF Surjection
<1> QED
  BY <1>1, FS_Injection

\* What the sinks compute, and how many executors there are.
SameMeaning(g, h) ==
  /\ TermsOf(h, Sinks) = TermsOf(g, Sinks)
  /\ Cardinality(ExecutorsOf(h)) = Cardinality(ExecutorsOf(g))

LEMMA FiniteExecutors ==
  ASSUME NEW g, Graph(g)
  PROVE  IsFiniteSet(ExecutorsOf(g))
<1>1. g \in Seq(AlgorithmNode) /\ ExecutorsOf(g) \in SUBSET DOMAIN g
  BY DEF Graph, ExecutorsOf
<1> QED
  BY <1>1, Positions

\* Some nodes of a graph that are a graph, in whatever order, and hold all the sinks
\* keep its meaning.
LEMMA PartKeepsMeaning ==
  ASSUME PassesAssumption, NEW g, Graph(g), NEW h, Graph(h),
         ToSet(h) \subseteq ToSet(g),
         \A n \in ToSet(g) : n.type \in Sinks => n \in ToSet(h)
  PROVE  SameMeaning(g, h)
<1> DEFINE to == [i \in DOMAIN h |-> CHOOSE j \in DOMAIN g : g[j] = h[i]]
<1>1. ASSUME NEW i \in DOMAIN h PROVE to[i] \in DOMAIN g /\ g[to[i]] = h[i]
  <2>1. \E j \in DOMAIN g : g[j] = h[i]
    BY DEF ToSet
  <2> QED BY <2>1
<1>2. to \in [DOMAIN h -> DOMAIN g]
  BY <1>1
<1> HIDE DEF to
<1>3. Distinct(g) /\ Distinct(h)
  BY DEF Graph
<1>4. ASSUME NEW i \in DOMAIN h, NEW id \in InputsOf(h[i])
      PROVE  to[Producer(h, i, id)] = Producer(g, to[i], id)
  <2>1. Producer(h, i, id) \in DOMAIN h /\ h[Producer(h, i, id)].id = id
    BY ProducerFound
  <2>2. Producer(g, to[i], id) \in DOMAIN g /\ g[Producer(g, to[i], id)].id = id
    <3>1. to[i] \in DOMAIN g /\ id \in InputsOf(g[to[i]])
      BY <1>1
    <3> QED BY <3>1, ProducerFound
  <2>3. g[to[Producer(h, i, id)]].id = g[Producer(g, to[i], id)].id
    BY <1>1, <2>1, <2>2
  <2>4. to[Producer(h, i, id)] \in DOMAIN g
    BY <1>1, <2>1
  <2> QED BY <1>3, <2>2, <2>3, <2>4 DEF Distinct
<1>5. \A i \in DOMAIN h : Terms(h)[i] = Terms(g)[to[i]]
  <2>1. ASSUME NEW i \in DOMAIN h
        PROVE  /\ h[i].type = g[to[i]].type
               /\ h[i].timeframe = g[to[i]].timeframe /\ h[i].session = g[to[i]].session
               /\ NameTheSame(g, h, to, i, h[i].inputs, g[to[i]].inputs)
               /\ NameTheSame(g, h, to, i, h[i].columns, g[to[i]].columns)
    <3>1. /\ \A k \in DOMAIN h[i].inputs : h[i].inputs[k] \in InputsOf(h[i])
          /\ \A k \in DOMAIN h[i].columns : h[i].columns[k] \in InputsOf(h[i])
      BY NamesAreInputs
    <3> QED BY <1>1, <1>4, <3>1 DEF NameTheSame
  <2> QED BY <1>2, <2>1, TermsCorrespond
<1>6. ASSUME NEW j \in DOMAIN g, g[j].type \in Sinks
      PROVE  \E i \in DOMAIN h : to[i] = j
  <2>1. g[j] \in ToSet(h)
    BY <1>6 DEF ToSet
  <2>2. PICK i \in DOMAIN h : h[i] = g[j]
    BY <2>1 DEF ToSet
  <2>3. to[i] = j
    BY <1>1, <1>3, <2>2 DEF Distinct
  <2> QED BY <2>3
<1>7. TermsOf(h, Sinks) = TermsOf(g, Sinks)
  <2>1. \A i \in DOMAIN h : h[i].type \in Sinks =>
          to[i] \in DOMAIN g /\ g[to[i]].type \in Sinks /\ Terms(h)[i] = Terms(g)[to[i]]
    BY <1>1, <1>5
  <2>2. \A j \in DOMAIN g : g[j].type \in Sinks =>
          \E i \in DOMAIN h : h[i].type \in Sinks /\ Terms(h)[i] = Terms(g)[j]
    BY <1>1, <1>5, <1>6
  <2> QED BY <2>1, <2>2 DEF TermsOf
<1>8. Cardinality(ExecutorsOf(h)) = Cardinality(ExecutorsOf(g))
  <2> DEFINE X == ExecutorsOf(h)
             Y == ExecutorsOf(g)
             f == [i \in X |-> to[i]]
  <2>1. \A i \in X : i \in DOMAIN h /\ to[i] \in Y
    BY <1>1 DEF ExecutorsOf
  <2>2. f \in [X -> Y]
    BY <2>1
  <2>3. \A i, j \in X : f[i] = f[j] => i = j
    BY <1>1, <1>3, <2>1 DEF Distinct
  <2>4. \A j \in Y : \E i \in X : f[i] = j
    <3>1. ASSUME NEW j \in Y PROVE \E i \in X : f[i] = j
      <4>1. j \in DOMAIN g /\ g[j].type \in Executors /\ g[j].type \in Sinks
        BY DEF ExecutorsOf, PassesAssumption
      <4>2. PICK i \in DOMAIN h : to[i] = j
        BY <1>6, <4>1
      <4>3. i \in X
        BY <1>1, <4>1, <4>2 DEF ExecutorsOf
      <4> QED BY <4>2, <4>3
    <3> QED BY <3>1
  <2>5. IsFiniteSet(Y)
    BY FiniteExecutors
  <2> HIDE DEF X, Y, f
  <2>6. Cardinality(X) = Cardinality(Y)
    BY <2>2, <2>3, <2>4, <2>5, SameCount
  <2> QED BY <2>6 DEF X, Y
<1> QED
  BY <1>7, <1>8 DEF SameMeaning

\* Merging keeps the meaning: a duplicate and its canonical node read the same nodes,
\* and so compute the same.
LEMMA OptimizeKeepsMeaning ==
  ASSUME NEW g, Graph(g), NEW h, h = Without(Redirected(g), Duplicates(g))
  PROVE  SameMeaning(g, h)
<1>1. Distinct(g) /\ DOMAIN g = 1..Len(g) /\ Len(g) \in Nat /\ g \in Seq(AlgorithmNode)
  BY DEF Graph
<1>2. Graph(h)
  BY MergedNodes
<1>3. PICK at \in [DOMAIN h -> DOMAIN g] :
        /\ \A k \in DOMAIN h :
             /\ ~IsDuplicate(g, at[k])
             /\ h[k].id = g[at[k]].id /\ h[k].type = g[at[k]].type
             /\ h[k].timeframe = g[at[k]].timeframe /\ h[k].session = g[at[k]].session
             /\ h[k].inputs = Redirections(g, g[at[k]].inputs)
             /\ h[k].columns = Redirections(g, g[at[k]].columns)
        /\ \A i \in DOMAIN g : ~IsDuplicate(g, i) => \E k \in DOMAIN h : at[k] = i
  BY MergedNodes
<1>4. ASSUME NEW i \in DOMAIN g, NEW j \in DOMAIN g, SemanticEquals(g[i], g[j])
      PROVE  Terms(g)[i] = Terms(g)[j]
  <2>1. /\ g[i].type = g[j].type
        /\ g[i].inputs = g[j].inputs /\ g[i].columns = g[j].columns
        /\ g[i].type \in CseScalars
             \/ (g[i].timeframe = g[j].timeframe /\ g[i].session = g[j].session)
    BY <1>4 DEF SemanticEquals
  <2>2. ASSUME NEW id \in InputsOf(g[i]) PROVE Producer(g, i, id) = Producer(g, j, id)
    <3>1. id \in InputsOf(g[j])
      BY <2>1 DEF InputsOf
    <3>2. /\ Producer(g, i, id) \in DOMAIN g /\ Producer(g, j, id) \in DOMAIN g
          /\ g[Producer(g, i, id)].id = id /\ g[Producer(g, j, id)].id = id
      BY <3>1, ProducerFound
    <3> QED BY <1>1, <3>2 DEF Distinct
  <2>3. /\ Producers(g, Terms(g), i, g[i].inputs) = Producers(g, Terms(g), j, g[j].inputs)
        /\ Producers(g, Terms(g), i, g[i].columns) = Producers(g, Terms(g), j, g[j].columns)
    <3>1. /\ \A k \in DOMAIN g[i].inputs : g[i].inputs[k] \in InputsOf(g[i])
          /\ \A k \in DOMAIN g[i].columns : g[i].columns[k] \in InputsOf(g[i])
      BY NamesAreInputs
    <3> QED BY <2>1, <2>2, <3>1 DEF Producers
  <2>4. TermOf(g, Terms(g), i) = TermOf(g, Terms(g), j)
    BY <2>1, <2>3 DEF TermOf
  <2> QED BY <2>4, TermsAreDefined
\* A redirected input computes what the input did.
<1>5. ASSUME NEW p \in DOMAIN g, NEW j \in DOMAIN g, Redirect(g, g[p].id) = g[j].id
      PROVE  Terms(g)[j] = Terms(g)[p]
  <2> DEFINE dups == {i \in DOMAIN g : g[i].id = g[p].id /\ IsDuplicate(g, i)}
  <2>1. \A i \in DOMAIN g : g[i].id = g[p].id => i = p
    BY <1>1 DEF Distinct
  <2>2. CASE IsDuplicate(g, p)
    <3>1. dups = {p}
      BY <2>1, <2>2
    <3>2. Max({p}) = p
      <4>1. {p} \in SUBSET Nat
        BY <1>1
      <4>2. IsFiniteSet({p})
        BY FS_Singleton
      <4> QED BY <4>1, <4>2, Extremes
    <3>3. Redirect(g, g[p].id) = Canonical(g, p)
      BY <3>1, <3>2 DEF Redirect
    <3>4. NodeOf(g, Canonical(g, p)) = g[j]
      BY <1>1, <1>5, <3>3, NodeOfFinds
    <3>5. SemanticEquals(g[p], g[j])
      BY <2>2, <3>4 DEF IsDuplicate
    <3> QED BY <1>4, <3>5
  <2>3. CASE ~IsDuplicate(g, p)
    <3>1. dups = {}
      BY <2>1, <2>3
    <3>2. Redirect(g, g[p].id) = g[p].id
      BY <3>1 DEF Redirect
    <3>3. j = p
      BY <1>5, <2>1, <3>2
    <3> QED BY <3>3
  <2> QED BY <2>2, <2>3
<1>6. ASSUME NEW k \in DOMAIN h, NEW ids, NEW others, ids = Redirections(g, others),
             \A n \in DOMAIN ids : ids[n] \in InputsOf(h[k]),
             \A n \in DOMAIN others : others[n] \in InputsOf(g[at[k]])
      PROVE  NameTheSame(g, h, at, k, ids, others)
  <2>1. /\ DOMAIN ids = DOMAIN others
        /\ \A n \in DOMAIN ids : ids[n] = Redirect(g, others[n])
    BY <1>6 DEF Redirections
  <2>2. ASSUME NEW n \in DOMAIN ids
        PROVE  Terms(g)[at[Producer(h, k, ids[n])]] = Terms(g)[Producer(g, at[k], others[n])]
    <3>1. Producer(h, k, ids[n]) \in DOMAIN h /\ h[Producer(h, k, ids[n])].id = ids[n]
      BY <1>2, <1>6, ProducerFound
    <3>2. at[k] \in DOMAIN g /\ others[n] \in InputsOf(g[at[k]])
      BY <1>6, <2>1
    <3>3. /\ Producer(g, at[k], others[n]) \in DOMAIN g
          /\ g[Producer(g, at[k], others[n])].id = others[n]
      BY <3>2, ProducerFound
    <3>4. /\ at[Producer(h, k, ids[n])] \in DOMAIN g
          /\ g[at[Producer(h, k, ids[n])]].id
               = Redirect(g, g[Producer(g, at[k], others[n])].id)
      BY <1>3, <2>1, <3>1, <3>3
    <3> QED BY <1>5, <3>3, <3>4
  <2> QED BY <2>1, <2>2 DEF NameTheSame
<1>8. \A k \in DOMAIN h : Terms(h)[k] = Terms(g)[at[k]]
  <2>1. ASSUME NEW k \in DOMAIN h
        PROVE  /\ h[k].type = g[at[k]].type
               /\ h[k].timeframe = g[at[k]].timeframe /\ h[k].session = g[at[k]].session
               /\ NameTheSame(g, h, at, k, h[k].inputs, g[at[k]].inputs)
               /\ NameTheSame(g, h, at, k, h[k].columns, g[at[k]].columns)
    <3>1. /\ \A n \in DOMAIN h[k].inputs : h[k].inputs[n] \in InputsOf(h[k])
          /\ \A n \in DOMAIN h[k].columns : h[k].columns[n] \in InputsOf(h[k])
      BY <1>2, NamesAreInputs
    <3>2. at[k] \in DOMAIN g
      OBVIOUS
    <3>3. /\ \A n \in DOMAIN g[at[k]].inputs : g[at[k]].inputs[n] \in InputsOf(g[at[k]])
          /\ \A n \in DOMAIN g[at[k]].columns : g[at[k]].columns[n] \in InputsOf(g[at[k]])
      BY <3>2, NamesAreInputs
    <3> QED BY <1>3, <1>6, <3>1, <3>3
  <2> QED BY <1>2, <2>1, TermsCorrespond
<1>9. ASSUME NEW i \in DOMAIN g
      PROVE  \E k \in DOMAIN h : h[k].type = g[i].type /\ Terms(h)[k] = Terms(g)[i]
  <2>1. CASE ~IsDuplicate(g, i)
    BY <1>3, <1>8, <2>1
  <2>2. CASE IsDuplicate(g, i)
    <3>1. PICK j \in 1..(i - 1) :
            Canonical(g, i) = g[j].id /\ ~IsDuplicate(g, j) /\ g[j].type = g[i].type
      BY <2>2, CanonicalIsEarlier
    <3>2. j \in DOMAIN g
      BY <1>1
    <3>3. NodeOf(g, Canonical(g, i)) = g[j]
      BY <1>1, <3>1, <3>2, NodeOfFinds
    <3>4. Terms(g)[i] = Terms(g)[j]
      BY <1>4, <2>2, <3>2, <3>3 DEF IsDuplicate
    <3>5. PICK k \in DOMAIN h : at[k] = j
      BY <1>3, <3>1, <3>2
    <3> QED BY <1>3, <1>8, <3>1, <3>4, <3>5
  <2> QED BY <2>1, <2>2
<1>10. TermsOf(h, Sinks) = TermsOf(g, Sinks)
  <2>1. \A k \in DOMAIN h : h[k].type \in Sinks =>
          at[k] \in DOMAIN g /\ g[at[k]].type \in Sinks /\ Terms(h)[k] = Terms(g)[at[k]]
    BY <1>3, <1>8
  <2>2. \A i \in DOMAIN g : g[i].type \in Sinks =>
          \E k \in DOMAIN h : h[k].type \in Sinks /\ Terms(h)[k] = Terms(g)[i]
    BY <1>9
  <2> QED BY <2>1, <2>2 DEF TermsOf
<1>11. Cardinality(ExecutorsOf(h)) = Cardinality(ExecutorsOf(g))
  <2> DEFINE X == ExecutorsOf(h)
             Y == ExecutorsOf(g)
             f == [k \in X |-> at[k]]
  <2>1. \A k \in X : k \in DOMAIN h /\ at[k] \in Y
    BY <1>3 DEF ExecutorsOf
  <2>2. f \in [X -> Y]
    BY <2>1
  <2>3. \A k, l \in X : f[k] = f[l] => k = l
    BY <1>2, <1>3, <2>1 DEF Graph, Distinct
  <2>4. \A i \in Y : \E k \in X : f[k] = i
    <3>1. ASSUME NEW i \in Y PROVE \E k \in X : f[k] = i
      <4>1. i \in DOMAIN g /\ g[i].type \in Executors /\ ~IsDuplicate(g, i)
        BY DEF ExecutorsOf, IsDuplicate
      <4>2. PICK k \in DOMAIN h : at[k] = i
        BY <1>3, <4>1
      <4>3. k \in X
        BY <1>3, <4>1, <4>2 DEF ExecutorsOf
      <4> QED BY <4>2, <4>3
    <3> QED BY <3>1
  <2>5. IsFiniteSet(Y)
    BY FiniteExecutors
  <2> HIDE DEF X, Y, f
  <2>6. Cardinality(X) = Cardinality(Y)
    BY <2>2, <2>3, <2>4, <2>5, SameCount
  <2> QED BY <2>6 DEF X, Y
<1> QED
  BY <1>10, <1>11 DEF SameMeaning

-----------------------------------------------------------------------------
(* Where the timeframes come from. *)

\* All nodes are of the script, with the timeframes it gives them.
AllOfScript(s, g) ==
  \A n \in ToSet(g) : \E m \in ToSet(s) : m.id = n.id /\ m.timeframe = n.timeframe

LEMMA UsedAreOfScript ==
  ASSUME NEW s, NEW g, FromScript(s, g), Used(g)
  PROVE  AllOfScript(s, g)
<1> SUFFICES ASSUME NEW n \in ToSet(g)
             PROVE  \E m \in ToSet(s) : m.id = n.id /\ m.timeframe = n.timeframe
  BY DEF AllOfScript
<1>1. n.id \in IdsOf(s)
  BY DEF FromScript, Used
<1> QED
  BY <1>1 DEF FromScript

\* Merging redirects what reads the script to the script.
LEMMA MergedFromScript ==
  ASSUME NEW s, NEW g, Graph(g), FromScript(s, g), ScriptFirst(s, g),
         NEW h, h = Without(Redirected(g), Duplicates(g))
  PROVE  FromScript(s, h)
<1>1. DOMAIN g = 1..Len(g) /\ Len(g) \in Nat
  BY DEF Graph
<1>2. PICK at \in [DOMAIN h -> DOMAIN g] :
        \A k \in DOMAIN h :
          /\ h[k].id = g[at[k]].id /\ h[k].type = g[at[k]].type
          /\ h[k].timeframe = g[at[k]].timeframe
          /\ h[k].inputs = Redirections(g, g[at[k]].inputs)
  BY MergedNodes
<1>3. ASSUME NEW i \in DOMAIN g
      PROVE  ToSet(Redirections(g, g[i].inputs)) \subseteq IdsOf(s)
  <2>1. CASE g[i].id \in IdsOf(s)
    <3>1. ToSet(Redirections(g, g[i].inputs)) \subseteq {g[j].id : j \in 1..(i - 1)}
      BY RedirectedIsGraph DEF InputsOf
    <3> QED BY <2>1, <3>1 DEF ScriptFirst
  <2>2. CASE g[i].id \notin IdsOf(s)
    <3>1. g[i].inputs = <<>>
      BY <2>2 DEF ScriptFirst
    <3>2. DOMAIN Redirections(g, g[i].inputs) = {}
      BY <3>1 DEF Redirections
    <3> QED BY <3>2 DEF ToSet
  <2> QED BY <2>1, <2>2
<1>4. ASSUME NEW k \in DOMAIN h
      PROVE  /\ InputsOf(h[k]) \subseteq IdsOf(s)
             /\ h[k].id \in IdsOf(s) =>
                  \E m \in ToSet(s) : m.id = h[k].id /\ m.timeframe = h[k].timeframe
             /\ h[k].id \notin IdsOf(s) => h[k].type \notin Sinks
  <2>1. at[k] \in DOMAIN g /\ g[at[k]] \in ToSet(g)
    BY DEF ToSet
  <2>2. InputsOf(h[k]) \subseteq IdsOf(s)
    BY <1>2, <1>3, <2>1 DEF InputsOf
  <2> QED BY <1>2, <2>1, <2>2 DEF FromScript
<1> QED
  BY <1>4 DEF FromScript, ToSet

-----------------------------------------------------------------------------
(* What is read has outputs. *)

SinksUnread(g) ==
  \A i, j \in DOMAIN g : g[j].id \in InputsOf(g[i]) => g[j].type \notin Sinks

\* Some nodes of a graph, in whatever order.
LEMMA PartReadsNoSink ==
  ASSUME NEW g, SinksUnread(g), NEW h, ToSet(h) \subseteq ToSet(g)
  PROVE  SinksUnread(h)
<1> SUFFICES ASSUME NEW i \in DOMAIN h, NEW j \in DOMAIN h, h[j].id \in InputsOf(h[i])
             PROVE  h[j].type \notin Sinks
  BY DEF SinksUnread
<1>1. PICK k \in DOMAIN g, l \in DOMAIN g : g[k] = h[i] /\ g[l] = h[j]
  BY DEF ToSet
<1> QED BY <1>1 DEF SinksUnread

\* A session node reads nothing, and is no sink.
LEMMA SessionsReadNoSink ==
  ASSUME PassesAssumption, NEW s, SinksUnread(s), NEW h, Graph(h), ToSet(s) \subseteq ToSet(h),
         \A n \in ToSet(h) : n \in ToSet(s) \/ n.type = SessionType,
         ScriptFirst(s, h)
  PROVE  SinksUnread(h)
<1> SUFFICES ASSUME NEW i \in DOMAIN h, NEW j \in DOMAIN h, h[j].id \in InputsOf(h[i])
             PROVE  h[j].type \notin Sinks
  BY DEF SinksUnread
<1>1. h[i] \in ToSet(h) /\ h[j] \in ToSet(h) /\ Distinct(h)
  BY DEF ToSet, Graph
<1>2. CASE h[j] \notin ToSet(s)
  BY <1>1, <1>2 DEF PassesAssumption
<1>3. CASE h[i].id \in IdsOf(s) /\ h[j] \in ToSet(s)
  <2>1. PICK k \in DOMAIN s : s[k].id = h[i].id
    BY <1>3 DEF IdsOf
  <2>2. PICK l \in DOMAIN h : h[l] = s[k]
    BY DEF ToSet
  <2>3. h[i] = s[k]
    BY <1>1, <2>1, <2>2 DEF Distinct
  <2>4. PICK m \in DOMAIN s : s[m] = h[j]
    BY <1>3 DEF ToSet
  <2> QED BY <2>3, <2>4 DEF SinksUnread
<1>4. CASE h[i].id \notin IdsOf(s)
  <2>1. h[i].inputs = <<>>
    BY <1>4 DEF ScriptFirst
  <2> QED BY <2>1 DEF InputsOf, ToSet
<1> QED BY <1>2, <1>3, <1>4

\* An input is redirected to a node of the same type.
LEMMA MergingReadsNoSink ==
  ASSUME NEW g, Graph(g), SinksUnread(g), NEW h, h = Without(Redirected(g), Duplicates(g))
  PROVE  SinksUnread(h)
<1>1. /\ Distinct(g) /\ InputsFirst(g) /\ DOMAIN g = 1..Len(g) /\ Len(g) \in Nat
  BY DEF Graph
<1>2. PICK at \in [DOMAIN h -> DOMAIN g] :
        \A k \in DOMAIN h :
          /\ h[k].id = g[at[k]].id /\ h[k].type = g[at[k]].type
          /\ h[k].inputs = Redirections(g, g[at[k]].inputs)
  BY MergedNodes
<1> SUFFICES ASSUME NEW i \in DOMAIN h, NEW j \in DOMAIN h, h[j].id \in InputsOf(h[i])
             PROVE  h[j].type \notin Sinks
  BY DEF SinksUnread
<1>3. PICK x \in DOMAIN g[at[i]].inputs : h[j].id = Redirect(g, g[at[i]].inputs[x])
  <2> DEFINE old == g[at[i]].inputs
             new == h[i].inputs
  <2>1. new = [k \in DOMAIN old |-> Redirect(g, old[k])]
    BY <1>2 DEF Redirections
  <2>2. PICK x \in DOMAIN new : h[j].id = new[x]
    BY DEF InputsOf, ToSet
  <2> QED BY <2>1, <2>2
<1>4. g[at[i]].inputs[x] \in InputsOf(g[at[i]])
  BY DEF InputsOf, ToSet
<1>5. PICK p \in 1..(at[i] - 1) : g[p].id = g[at[i]].inputs[x]
  BY <1>1, <1>4 DEF InputsFirst
<1>6. p \in DOMAIN g /\ g[p].type \notin Sinks
  <2>1. p \in DOMAIN g
    BY <1>1
  <2> QED BY <1>4, <1>5, <2>1 DEF SinksUnread
<1>7. PICK l \in 1..p : Redirect(g, g[p].id) = g[l].id /\ g[l].type = g[p].type
  BY <1>6, RedirectedInput
<1>8. l \in DOMAIN g
  BY <1>1, <1>6
<1>9. l = at[j]
  BY <1>1, <1>2, <1>3, <1>5, <1>7, <1>8 DEF Distinct
<1> QED BY <1>2, <1>6, <1>7, <1>9

-----------------------------------------------------------------------------
(* Where the timeframes come from, to the end. *)

\* The timeframes the two passes give are those the script's decide.
LEMMA TimeframesDecided ==
  ASSUME PassesAssumption, NEW g, Graph(g), Graph(script), AllOfScript(script, g),
         algorithms = Resolved(g)
  PROVE  \A n \in ToSet(algorithms) : n.timeframe = Expected(n)
<1> DEFINE r == algorithms
           B == FromInputs(g)
           F == FromDependents(g)
           D == DOMAIN g
<1>1. /\ g \in Seq(AlgorithmNode) /\ Distinct(g) /\ InputsFirst(g)
      /\ D = 1..Len(g) /\ Len(g) \in Nat /\ script \in Seq(AlgorithmNode) /\ Distinct(script)
  BY DEF Graph
<1>2. /\ DOMAIN r = D /\ r \in Seq(AlgorithmNode) /\ Distinct(r)
      /\ \A i \in D : /\ r[i].id = g[i].id /\ r[i].type = g[i].type
                      /\ r[i].inputs = g[i].inputs /\ r[i].timeframe = F[i]
  BY ResolvingKeepsTheGraph DEF Graph
<1>3. /\ \A i \in D : B[i] = TakesFromInputs(g, B, i) /\ B[i] \in Timeframes
      /\ \A i \in D : F[i] = TakesFromDependents(g, B, F, i)
  BY <1>1, FromInputsIsDefined, FromInputsTypes, FromDependentsIsDefined
<1>4. Timeframes \subseteq Nat /\ None \in Timeframes /\ \A t \in Timeframes : None <= t
  BY DEF Timeframes, None, PassesAssumption
<1> HIDE DEF B, F
<1>4a. \A i \in D : B[i] \in Nat
  BY <1>3, <1>4
<1>5. IdsOf(algorithms) = {g[i].id : i \in D}
  BY <1>2 DEF IdsOf
<1>6. ASSUME NEW i \in D
      PROVE  Explicit(g[i].id) = g[i].timeframe /\ g[i].timeframe \in Timeframes
  <2>1. PICK m \in ToSet(script) : m.id = g[i].id /\ m.timeframe = g[i].timeframe
    BY DEF AllOfScript, ToSet
  <2>2. PICK k \in DOMAIN script : script[k] = m
    BY DEF ToSet
  <2>3. NodeOf(script, g[i].id) = m
    BY <1>1, <2>1, <2>2, NodeOfFinds
  <2> QED BY <1>1, <2>1, <2>3, NodeTypes DEF Explicit
<1>7. ASSUME NEW i \in D PROVE InputsOf(NodeOf(algorithms, g[i].id)) = InputsOf(g[i])
  <2>1. NodeOf(r, r[i].id) = r[i]
    BY <1>2, NodeOfFinds
  <2> QED BY <1>2, <2>1 DEF InputsOf
<1>8. \A i \in D : \A j \in 1..(i - 1) : j \in D
  BY <1>1
\* A node's timeframe is not finer than one it is taken from ...
<1>9. ASSUME NEW i \in D, g[i].timeframe = None
      PROVE  /\ B[i] = Coarsest({B[j] : j \in {k \in 1..(i - 1) : g[k].id \in InputsOf(g[i])}})
             /\ \A j \in D : g[j].id \in InputsOf(g[i]) => j \in 1..(i - 1) /\ B[j] <= B[i]
             /\ B[i] = None \/ \E j \in 1..(i - 1) : g[j].id \in InputsOf(g[i]) /\ B[j] = B[i]
  <2> DEFINE of == {B[j] : j \in {k \in 1..(i - 1) : g[k].id \in InputsOf(g[i])}}
  <2>1. B[i] = Coarsest(of)
    BY <1>3, <1>9 DEF TakesFromInputs
  <2>2. of \in SUBSET Timeframes
    BY <1>3, <1>8
  <2>3. Coarsest(of) \in of \cup {None} /\ \A t \in of : t <= Coarsest(of)
    <3> HIDE DEF of
    <3> QED BY <2>2, CoarsestIsOne
  <2>4. ASSUME NEW j \in D, g[j].id \in InputsOf(g[i]) PROVE j \in 1..(i - 1)
    <3>1. PICK k \in 1..(i - 1) : g[k].id = g[j].id
      <4>1. InputsOf(g[i]) \subseteq {g[k].id : k \in 1..(i - 1)}
        BY <1>1 DEF InputsFirst
      <4> HIDE DEF D
      <4> QED BY <2>4, <4>1
    <3> QED BY <1>1, <1>8, <3>1 DEF Distinct
  <2> QED BY <2>1, <2>3, <2>4
\* ... and it is the timeframe of a giver, in every set the givers are chosen from.
<1>10. ASSUME NEW S \in SUBSET IdsOf(algorithms), UpstreamIn(S)
       PROVE  \A i \in D : g[i].id \in S /\ B[i] # None => \E a \in S : Explicit(a) = B[i]
  <2> DEFINE Given(i) == g[i].id \in S /\ B[i] # None => \E a \in S : Explicit(a) = B[i]
             N == {n \in Nat : \A i \in D : i <= n => Given(i)}
  <2>1. 0 \in N
    BY <1>1
  <2>2. ASSUME NEW n \in Nat, n \in N PROVE n + 1 \in N
    <3>1. ASSUME NEW i \in D, i <= n + 1, g[i].id \in S, B[i] # None
          PROVE  \E a \in S : Explicit(a) = B[i]
      <4>1. CASE g[i].timeframe # None
        <5>1. B[i] = g[i].timeframe
          BY <1>3, <4>1 DEF TakesFromInputs
        <5> QED BY <1>6, <3>1, <5>1
      <4>2. CASE g[i].timeframe = None
        <5>1. PICK j \in 1..(i - 1) : g[j].id \in InputsOf(g[i]) /\ B[j] = B[i]
          BY <1>9, <3>1, <4>2
        <5>2. j \in D /\ j <= n
          BY <1>1, <1>8, <3>1
        <5>3. InputsOf(NodeOf(algorithms, g[i].id)) \subseteq S
          BY <1>6, <1>10, <3>1, <4>2 DEF UpstreamIn
        <5>4. g[j].id \in S
          BY <1>7, <5>1, <5>3
        <5> QED BY <2>2, <3>1, <5>1, <5>2, <5>4
      <4> QED BY <4>1, <4>2
    <3> QED BY <3>1
  <2>3. Len(g) \in N
    <3> HIDE DEF N
    <3> QED BY <1>1, <2>1, <2>2, SetInduction
  <2> QED BY <1>1, <2>3
<1>11. ASSUME NEW i \in D PROVE Inherited(g[i].id) = B[i]
  <2> DEFINE id == g[i].id
             G == Givers(id)
             A == {g[j].id : j \in {k \in D : B[k] <= B[i]}}
             X == {Explicit(a) : a \in G}
  <2>1. A \in SUBSET IdsOf(algorithms) /\ id \in A
    <3>1. A \subseteq IdsOf(algorithms)
      BY <1>5
    <3>2. B[i] <= B[i]
      BY <1>4a
    <3>3. id \in A
      BY <3>2
    <3> QED BY <3>1, <3>3
  <2>2. UpstreamIn(A)
    <3>1. ASSUME NEW j \in D, B[j] <= B[i], Explicit(g[j].id) = None
          PROVE  InputsOf(NodeOf(algorithms, g[j].id)) \subseteq A
      <4>1. g[j].timeframe = None
        BY <1>6, <3>1
      <4>2. ASSUME NEW x \in InputsOf(g[j]) PROVE x \in A
        <5>1. PICK k \in 1..(j - 1) : g[k].id = x
          BY <1>1 DEF InputsFirst
        <5>2. k \in D /\ B[k] <= B[j]
          BY <1>8, <1>9, <4>1, <5>1
        <5>3. B[k] <= B[i]
          <6>1. B[i] \in Nat /\ B[j] \in Nat /\ B[k] \in Nat
            BY <1>4a, <5>2
          <6> QED BY <3>1, <5>2, <6>1
        <5> QED BY <5>1, <5>2, <5>3
      <4> QED BY <1>7, <4>2
    <3> QED BY <3>1 DEF UpstreamIn
  <2> HIDE DEF A
  <2>3. G \subseteq A /\ G \subseteq IdsOf(algorithms)
    BY <2>1, <2>2 DEF Givers
  <2>4. id \in G
    BY <1>5 DEF Givers
  <2>5. UpstreamIn(G)
    <3>1. ASSUME NEW a \in G, Explicit(a) = None, NEW x \in InputsOf(NodeOf(algorithms, a))
          PROVE  x \in G
      <4>1. \A S \in SUBSET IdsOf(algorithms) : id \in S /\ UpstreamIn(S) => x \in S
        BY <3>1 DEF Givers, UpstreamIn
      <4>2. x \in IdsOf(algorithms)
        <5>1. PICK j \in D : g[j].id = a
          BY <1>5, <2>3
        <5>2. x \in InputsOf(g[j])
          BY <1>7, <3>1, <5>1
        <5> QED BY <1>1, <1>5, <1>8, <5>2 DEF InputsFirst
      <4> QED BY <4>1, <4>2 DEF Givers
    <3> QED BY <3>1 DEF UpstreamIn
  <2>6. B[i] # None => B[i] \in X
    <3> HIDE DEF G
    <3> QED BY <1>10, <2>3, <2>4, <2>5
  <2>7. \A a \in G : Explicit(a) \in Timeframes /\ Explicit(a) <= B[i]
    <3>1. ASSUME NEW j \in D, B[j] <= B[i]
          PROVE  Explicit(g[j].id) \in Timeframes /\ Explicit(g[j].id) <= B[i]
      <4>1. CASE g[j].timeframe # None
        <5>1. B[j] = g[j].timeframe
          BY <1>3, <4>1 DEF TakesFromInputs
        <5> QED BY <1>6, <3>1, <5>1
      <4>2. CASE g[j].timeframe = None
        BY <1>3, <1>4, <1>6, <4>2
      <4> QED BY <4>1, <4>2
    <3> HIDE DEF G
    <3> QED BY <2>3, <3>1 DEF A
  <2> HIDE DEF G
  <2>8. X \in SUBSET Timeframes
    BY <2>7
  <2>9. \A t \in X : t <= B[i]
    BY <2>7
  <2> HIDE DEF X
  <2>10. Coarsest(X) \in X \cup {None} /\ Coarsest(X) \in Timeframes
         /\ \A t \in X : t <= Coarsest(X)
    BY <2>8, CoarsestIsOne
  <2>11. Coarsest(X) <= B[i] /\ B[i] <= Coarsest(X)
    BY <1>3, <1>4, <2>6, <2>9, <2>10
  <2>12. Coarsest(X) = B[i]
    <3>1. Coarsest(X) \in Nat /\ B[i] \in Nat
      BY <1>4, <1>4a, <2>10
    <3> QED BY <2>11, <3>1
  <2> QED BY <2>12 DEF Inherited, X, G
<1>12. ASSUME NEW i \in D PROVE F[i] = Expected(r[i])
  <2> DEFINE R == {k \in D : g[i].id \in InputsOf(g[k])}
             M == {m \in ToSet(algorithms) : r[i].id \in InputsOf(m)}
  <2>1. ASSUME NEW k \in R PROVE ~(k < i)
    <3>1. PICK j \in 1..(k - 1) : g[j].id = g[i].id
      BY <1>1, SMTT(30) DEF InputsFirst
    <3>2. j = i
      BY <1>1, <1>8, <3>1 DEF Distinct
    <3> QED BY <1>1, <3>1, <3>2
  <2>2. {IF j < i THEN F[j] ELSE B[j] : j \in R} = {B[j] : j \in R}
    BY <2>1
  <2>3. \A k \in D : InputsOf(r[k]) = InputsOf(g[k])
    BY <1>2 DEF InputsOf
  <2>4. M = {r[k] : k \in R}
    BY <1>2, <2>3 DEF ToSet
  <2>5. \A k \in R : Inherited(r[k].id) = B[k]
    BY <1>2, <1>11
  <2>6. {Inherited(m.id) : m \in M} = {B[j] : j \in R}
    BY <2>4, <2>5
  <2>7. F[i] = IF B[i] # None \/ g[i].type \in Scalars THEN B[i]
               ELSE Coarsest({B[j] : j \in R})
    BY <1>3, <2>2 DEF TakesFromDependents
  <2>8. Expected(r[i]) = IF Inherited(r[i].id) # None \/ r[i].type \in Scalars
                         THEN Inherited(r[i].id) ELSE Coarsest({Inherited(m.id) : m \in M})
    BY DEF Expected
  <2> HIDE DEF M, R
  <2> QED BY <1>2, <1>11, <2>6, <2>7, <2>8
<1> QED
  BY <1>2, <1>12 DEF ToSet

-----------------------------------------------------------------------------
(* The invariant and the theorems. *)

\* The sort never finds a cycle where there is an output: what a compilation is then
\* refused for is a node without a timeframe.
SortSucceeds ==
  pass = "rejected" /\ SinkIds(script) # {} =>
    /\ Len(sorted) = Len(algorithms)
    /\ \E n \in ToSet(algorithms) : n.type \notin Scalars /\ n.timeframe = None

GraphInv ==
  /\ Graph(script) /\ Graph(algorithms)
  /\ pass = "sessions" => algorithms = script /\ script \in Scripts
  /\ SinkIds(script) # {} => SinkIds(algorithms) # {}
  /\ pass \in {"sort", "kahn", "timeframes", "compiled"} /\ SinkIds(algorithms) # {} =>
       Used(algorithms)

MeaningInv == pass \notin {"compiled", "rejected"} => SameMeaning(script, algorithms)

OriginInv ==
  /\ pass \in {"cse", "orphans", "sort", "kahn", "timeframes"} => FromScript(script, algorithms)
  /\ pass = "cse" => ScriptFirst(script, algorithms)

ResolvedInv ==
  /\ pass \in {"compiled", "rejected"} /\ SinkIds(algorithms) # {} =>
       \E g \in Seq(AlgorithmNode) :
         Graph(g) /\ AllOfScript(script, g) /\ algorithms = Resolved(g)
  /\ pass = "compiled" /\ strict =>
       \A n \in ToSet(algorithms) : n.type \in Scalars \/ n.timeframe # None

SortInv ==
  /\ pass \in {"sessions", "cse", "orphans", "sort"} => sorted = <<>>
  /\ pass = "kahn" => KahnInv
  /\ pass = "timeframes" => Len(sorted) = Len(algorithms)
  /\ SortSucceeds

SinksInv == SinksUnread(script) => SinksUnread(algorithms)

IInv == TypeOK /\ GraphInv /\ MeaningInv /\ OriginInv /\ ResolvedInv /\ SortInv /\ SinksInv

LEMMA InitInv ==
  ASSUME DistinctIds
  PROVE  Init => IInv
<1> SUFFICES ASSUME Init PROVE IInv
  OBVIOUS
<1>1. /\ script \in Scripts /\ algorithms = script /\ pass = "sessions"
      /\ queue = <<>> /\ sorted = <<>> /\ strict \in BOOLEAN
  BY DEF Init
<1>2. script \in Seq(AlgorithmNode) /\ InputsFirst(script) /\ ColumnsAreInputs(script)
  BY <1>1, PassesAssumption DEF PassesAssumption
<1>3. Graph(script)
  BY <1>1, <1>2 DEF DistinctIds, Graph
<1>4. TypeOK
  BY <1>1, <1>2 DEF TypeOK, Passes
<1>5. GraphInv /\ SortInv
  BY <1>1, <1>3 DEF GraphInv, SortInv, SortSucceeds
<1>6. MeaningInv /\ OriginInv /\ ResolvedInv /\ SinksInv
  BY <1>1 DEF MeaningInv, SameMeaning, OriginInv, ResolvedInv, SinksInv
<1> QED
  BY <1>4, <1>5, <1>6 DEF IInv

LEMMA NextInv ==
  ASSUME DistinctIds
  PROVE  IInv /\ [Next]_vars => IInv'
<1> SUFFICES ASSUME IInv, [Next]_vars PROVE IInv'
  OBVIOUS
<1> USE PassesAssumption
<1>0. TypeOK /\ GraphInv /\ MeaningInv /\ OriginInv /\ ResolvedInv /\ SortInv /\ SinksInv
  BY DEF IInv
<1>1. CASE VerifySessionDependencies
  <2>1. pass = "sessions" /\ pass' = "cse" /\ UNCHANGED <<strict, script, queue, sorted>>
    BY <1>1 DEF VerifySessionDependencies
  <2>2. algorithms = script /\ script \in Scripts
    BY <1>0, <2>1 DEF GraphInv
  <2>3. PICK keys \in SetToSeqs({k \in RequiredSessions(script) : ~HasSessionsNode(script, k)}) :
          algorithms' = script \o SessionNodes(keys)
    BY <1>1, <2>2 DEF VerifySessionDependencies
  <2>4. /\ Graph(algorithms') /\ SinkIds(script) \subseteq SinkIds(algorithms')
        /\ ToSet(script) \subseteq ToSet(algorithms')
        /\ \A n \in ToSet(algorithms') : n \in ToSet(script) \/ n.type = SessionType
        /\ FromScript(script, algorithms') /\ ScriptFirst(script, algorithms')
    BY <2>2, <2>3, SessionsKeepTheGraph
  <2>5. TypeOK'
    BY <1>0, <2>1, <2>4 DEF TypeOK, Passes, Graph
  <2>6. GraphInv' /\ SortInv'
    BY <1>0, <2>1, <2>4 DEF GraphInv, SortInv, SortSucceeds
  <2>7. SameMeaning(algorithms', script)
    <3>1. \A n \in ToSet(algorithms') : n.type \in Sinks => n \in ToSet(script)
      BY <2>4 DEF PassesAssumption
    <3>2. Graph(script)
      BY <1>0, <2>2 DEF GraphInv
    <3> QED BY <2>4, <3>1, <3>2, PartKeepsMeaning
  <2>8. MeaningInv'
    BY <2>1, <2>7 DEF MeaningInv, SameMeaning
  <2>9. OriginInv' /\ ResolvedInv'
    BY <2>1, <2>4 DEF OriginInv, ResolvedInv
  <2>10. SinksInv'
    BY <2>1, <2>4, SessionsReadNoSink DEF SinksInv
  <2> QED BY <2>5, <2>6, <2>8, <2>9, <2>10 DEF IInv
<1>2. CASE Optimize
  <2>1. /\ pass = "cse" /\ pass' = "orphans" /\ UNCHANGED <<strict, script, queue, sorted>>
        /\ algorithms' = Without(Redirected(algorithms), Duplicates(algorithms))
    BY <1>2 DEF Optimize
  <2>2. Graph(algorithms') /\ (SinkIds(algorithms) # {} => SinkIds(algorithms') # {})
    BY <1>0, <2>1, OptimizeKeepsTheGraph DEF GraphInv
  <2>3. TypeOK'
    BY <1>0, <2>1, <2>2 DEF TypeOK, Passes, Graph
  <2>4. GraphInv' /\ SortInv'
    BY <1>0, <2>1, <2>2 DEF GraphInv, SortInv, SortSucceeds
  <2>5. SameMeaning(algorithms, algorithms')
    BY <1>0, <2>1, OptimizeKeepsMeaning DEF GraphInv
  <2>6. MeaningInv'
    BY <1>0, <2>1, <2>5 DEF MeaningInv, SameMeaning
  <2>7. FromScript(script, algorithms')
    BY <1>0, <2>1, MergedFromScript DEF GraphInv, OriginInv
  <2>8. OriginInv' /\ ResolvedInv'
    BY <2>1, <2>7 DEF OriginInv, ResolvedInv
  <2>9. SinksInv'
    BY <1>0, <2>1, MergingReadsNoSink DEF SinksInv, GraphInv
  <2> QED BY <2>3, <2>4, <2>6, <2>8, <2>9 DEF IInv
<1>3. CASE RemoveOrphanNodes
  <2>1. pass = "orphans" /\ pass' = "sort" /\ UNCHANGED <<strict, script, queue, sorted>>
    BY <1>3 DEF RemoveOrphanNodes
  <2>2. PICK found \in SUBSET IdsOf(algorithms) :
          /\ Reachable(algorithms, found)
          /\ algorithms' = Without(algorithms, IdsOf(algorithms) \ found)
    BY <1>3 DEF RemoveOrphanNodes
  <2>3. /\ Graph(algorithms') /\ Used(algorithms')
        /\ SinkIds(algorithms) \subseteq SinkIds(algorithms')
        /\ ToSet(algorithms') \subseteq ToSet(algorithms)
        /\ \A n \in ToSet(algorithms) : n.type \in Sinks => n \in ToSet(algorithms')
    BY <1>0, <2>2, OrphansLeave DEF GraphInv
  <2>4. TypeOK'
    BY <1>0, <2>1, <2>3 DEF TypeOK, Passes, Graph
  <2>5. GraphInv' /\ SortInv'
    BY <1>0, <2>1, <2>3 DEF GraphInv, SortInv, SortSucceeds
  <2>6. SameMeaning(algorithms, algorithms')
    BY <1>0, <2>3, PartKeepsMeaning DEF GraphInv
  <2>7. MeaningInv'
    BY <1>0, <2>1, <2>6 DEF MeaningInv, SameMeaning
  <2>8. FromScript(script, algorithms')
    BY <1>0, <2>1, <2>3 DEF OriginInv, FromScript
  <2>9. OriginInv' /\ ResolvedInv'
    BY <2>1, <2>8 DEF OriginInv, ResolvedInv
  <2>10. SinksInv'
    BY <1>0, <2>1, <2>3, PartReadsNoSink DEF SinksInv
  <2> QED BY <2>4, <2>5, <2>7, <2>9, <2>10 DEF IInv
<1>4. CASE NoSink
  <2>1. /\ pass = "orphans" /\ pass' \in {"rejected", "sort"} /\ SinkIds(algorithms) = {}
        /\ UNCHANGED <<strict, script, algorithms, queue, sorted>>
    BY <1>4 DEF NoSink
  <2>2. TypeOK'
    BY <1>0, <2>1 DEF TypeOK, Passes
  <2>3. GraphInv' /\ SortInv'
    BY <1>0, <2>1 DEF GraphInv, SortInv, SortSucceeds
  <2>4. MeaningInv' /\ OriginInv' /\ ResolvedInv' /\ SinksInv'
    BY <1>0, <2>1 DEF MeaningInv, OriginInv, ResolvedInv, SinksInv
  <2> QED BY <2>2, <2>3, <2>4 DEF IInv
<1>5. CASE StartSort
  <2>1. pass = "sort" /\ pass' = "kahn" /\ UNCHANGED <<strict, script, algorithms, sorted>>
    BY <1>5 DEF StartSort
  <2>2. KahnInv' /\ TypeOK'
    BY <1>0, <1>5, <2>1, StartOfSort DEF GraphInv, SortInv
  <2>3. GraphInv' /\ SortInv'
    BY <1>0, <2>1, <2>2 DEF GraphInv, SortInv, SortSucceeds
  <2>4. MeaningInv' /\ OriginInv' /\ ResolvedInv' /\ SinksInv'
    BY <1>0, <2>1 DEF MeaningInv, OriginInv, ResolvedInv, SinksInv
  <2> QED BY <2>2, <2>3, <2>4 DEF IInv
<1>6. CASE EmitNode
  <2>1. pass = "kahn" /\ UNCHANGED <<strict, pass, script, algorithms>>
    BY <1>6 DEF EmitNode
  <2>2. KahnInv' /\ TypeOK'
    BY <1>0, <1>6, <2>1, EmitKeepsTheOrder DEF GraphInv, SortInv
  <2>3. GraphInv' /\ SortInv'
    BY <1>0, <2>1, <2>2 DEF GraphInv, SortInv, SortSucceeds
  <2>4. MeaningInv' /\ OriginInv' /\ ResolvedInv' /\ SinksInv'
    BY <1>0, <2>1 DEF MeaningInv, OriginInv, ResolvedInv, SinksInv
  <2> QED BY <2>2, <2>3, <2>4 DEF IInv
<1>7. CASE EndSort
  <2>1. pass = "kahn" /\ queue = <<>> /\ UNCHANGED <<strict, script, queue, sorted>>
    BY <1>7 DEF EndSort
  <2>2. Len(sorted) = Len(algorithms) /\ ToSet(sorted) = ToSet(algorithms)
    BY <1>0, <2>1, SortEmitsAll DEF GraphInv, SortInv
  <2>3. pass' = "timeframes" /\ algorithms' = sorted
    BY <1>7, <2>2 DEF EndSort
  <2>4. Graph(algorithms') /\ SinkIds(algorithms') = SinkIds(algorithms)
        /\ (Used(algorithms) => Used(algorithms'))
    BY <1>0, <2>1, <2>2, <2>3 DEF SortInv, KahnInv, SinkIds, Used
  <2>5. TypeOK'
    BY <1>0, <2>1, <2>3 DEF TypeOK, Passes
  <2>6. GraphInv' /\ SortInv'
    BY <1>0, <2>1, <2>3, <2>4 DEF GraphInv, SortInv, SortSucceeds
  <2>7. SameMeaning(algorithms, algorithms')
    BY <1>0, <2>2, <2>3, <2>4, PartKeepsMeaning DEF GraphInv
  <2>8. MeaningInv'
    BY <1>0, <2>1, <2>7 DEF MeaningInv, SameMeaning
  <2>9. OriginInv' /\ ResolvedInv'
    BY <1>0, <2>1, <2>2, <2>3 DEF OriginInv, ResolvedInv, FromScript
  <2>10. SinksInv'
    BY <1>0, <2>1, <2>2, <2>3, PartReadsNoSink DEF SinksInv
  <2> QED BY <2>5, <2>6, <2>8, <2>9, <2>10 DEF IInv
<1>8. CASE ResolveTimeframes
  <2> DEFINE F == FromDependents(algorithms)
  <2>1. /\ pass = "timeframes" /\ UNCHANGED <<strict, script, queue, sorted>>
        /\ pass' = IF strict /\ Unresolved(algorithms) # {} THEN "rejected" ELSE "compiled"
        /\ algorithms' = Resolved(algorithms)
    BY <1>8 DEF ResolveTimeframes
  <2>2. Graph(algorithms) /\ Len(sorted) = Len(algorithms)
    BY <1>0, <2>1 DEF GraphInv, SortInv
  <2>3. /\ Graph(algorithms') /\ Len(algorithms') = Len(algorithms)
        /\ DOMAIN algorithms' = DOMAIN algorithms
        /\ \A i \in DOMAIN algorithms :
             /\ algorithms'[i].id = algorithms[i].id
             /\ algorithms'[i].type = algorithms[i].type
             /\ algorithms'[i].inputs = algorithms[i].inputs
             /\ algorithms'[i].timeframe = F[i]
        /\ SinkIds(algorithms') = SinkIds(algorithms)
        /\ Used(algorithms) => Used(algorithms')
    BY <2>1, <2>2, ResolvingKeepsTheGraph
  <2>4. Unresolved(algorithms) # {} =>
          \E n \in ToSet(algorithms') : n.type \notin Scalars /\ n.timeframe = None
    <3>1. \A i \in Unresolved(algorithms) :
            i \in DOMAIN algorithms /\ algorithms[i].type \notin Scalars /\ F[i] = None
      BY DEF Unresolved
    <3> HIDE DEF F
    <3> QED BY <2>3, <3>1 DEF ToSet
  <2> HIDE DEF F
  <2>5. TypeOK'
    BY <1>0, <2>1, <2>3 DEF TypeOK, Passes, Graph
  <2>6. GraphInv' /\ SortInv'
    BY <1>0, <2>1, <2>2, <2>3, <2>4 DEF GraphInv, SortInv, SortSucceeds
  <2>7. MeaningInv'
    BY <2>1 DEF MeaningInv
  <2>8. SinkIds(algorithms') # {} => AllOfScript(script, algorithms)
    BY <1>0, <2>1, <2>3, UsedAreOfScript DEF GraphInv, OriginInv
  <2>9. Unresolved(algorithms) = {} =>
          \A n \in ToSet(algorithms') : n.type \in Scalars \/ n.timeframe # None
    <3>1. Unresolved(algorithms) = {} =>
            \A i \in DOMAIN algorithms : algorithms[i].type \in Scalars \/ F[i] # None
      BY DEF Unresolved, F
    <3> QED BY <2>3, <3>1 DEF ToSet
  <2>10. OriginInv' /\ ResolvedInv'
    <3>1. algorithms \in Seq(AlgorithmNode)
      BY <2>2 DEF Graph
    <3> QED BY <2>1, <2>2, <2>8, <2>9, <3>1 DEF OriginInv, ResolvedInv
  <2>11. SinksInv'
    BY <1>0, <2>1, <2>3 DEF SinksInv, SinksUnread, InputsOf
  <2> QED BY <2>5, <2>6, <2>7, <2>10, <2>11 DEF IInv
<1>9. CASE UNCHANGED vars
  <2>1. UNCHANGED <<strict, pass, script, algorithms, queue, sorted>>
    BY <1>9 DEF vars
  <2>2. \A id : Dependencies(id)' = Dependencies(id)
    BY <2>1 DEF Dependencies
  <2>3. TypeOK'
    BY <1>0, <2>1 DEF TypeOK
  <2>4. GraphInv'
    BY <1>0, <2>1 DEF GraphInv
  <2>5. KahnInv => KahnInv'
    BY <2>1, <2>2 DEF KahnInv
  <2>6. SortInv'
    BY <1>0, <2>1, <2>5 DEF SortInv, SortSucceeds
  <2>7. MeaningInv' /\ OriginInv' /\ ResolvedInv' /\ SinksInv'
    BY <1>0, <2>1 DEF MeaningInv, OriginInv, ResolvedInv, SinksInv
  <2> QED BY <2>3, <2>4, <2>6, <2>7 DEF IInv
<1> QED
  BY <1>1, <1>2, <1>3, <1>4, <1>5, <1>6, <1>7, <1>8, <1>9 DEF Next

LEMMA InvHolds ==
  ASSUME DistinctIds
  PROVE  Spec => []IInv
<1>1. Init => IInv
  BY InitInv
<1>2. IInv /\ [Next]_vars => IInv'
  BY NextInv
<1> QED
  BY <1>1, <1>2, PTL DEF Spec

\* Every pass leaves nodes with ids, types, inputs, sessions and timeframes of the
\* compiler's, the resolved timeframes among them.
THEOREM TypeCorrect ==
  ASSUME DistinctIds
  PROVE  Spec => []TypeOK
<1>1. IInv => TypeOK
  BY DEF IInv
<1> QED
  BY <1>1, InvHolds, PTL

\* Of any script, however large, the compiler makes a list in which no id occurs twice
\* and every input is produced earlier, whatever the order of the hash tables.
THEOREM OrchestratorTakesIt ==
  ASSUME DistinctIds
  PROVE  Spec => []OrchestratorAccepts
<1>1. IInv => OrchestratorAccepts
  <2> SUFFICES ASSUME IInv PROVE OrchestratorAccepts
    OBVIOUS
  <2>1. /\ algorithms \in Seq(AlgorithmNode) /\ Distinct(algorithms) /\ InputsFirst(algorithms)
        /\ DOMAIN algorithms = 1..Len(algorithms) /\ Len(algorithms) \in Nat
    BY DEF IInv, GraphInv, Graph
  <2>2. ASSUME NEW i \in DOMAIN algorithms, NEW j \in 1..(i - 1)
        PROVE  algorithms[j].id # algorithms[i].id
    <3>1. j \in DOMAIN algorithms /\ j # i
      BY <2>1
    <3> QED BY <2>1, <3>1 DEF Distinct
  <2> QED BY <2>1, <2>2 DEF OrchestratorAccepts, InputsFirst
<1> QED
  BY <1>1, InvHolds, PTL

\* No dead code is left where there is a sink.
THEOREM NoDeadCode ==
  ASSUME DistinctIds
  PROVE  Spec => []NothingUnused
<1>1. IInv => NothingUnused
  BY DEF IInv, GraphInv, Used, NothingUnused
<1> QED
  BY <1>1, InvHolds, PTL

\* Merging, removal and sorting keep what every output of the script computes, down to
\* its sources, and every executor, whatever the hashes: where two nodes collide the
\* comparison decides.
THEOREM MeaningIsKept ==
  ASSUME DistinctIds
  PROVE  Spec => []SinksKeepTheirMeaning
<1>1. IInv => SinksKeepTheirMeaning
  BY DEF IInv, GraphInv, MeaningInv, Graph, SameMeaning, SinksKeepTheirMeaning
<1> QED
  BY <1>1, InvHolds, PTL

LEMMA ResolvedAsExpected ==
  ASSUME IInv, pass \in {"compiled", "rejected"}, SinkIds(algorithms) # {}
  PROVE  \A n \in ToSet(algorithms) : n.timeframe = Expected(n)
<1>1. PICK g \in Seq(AlgorithmNode) :
        Graph(g) /\ AllOfScript(script, g) /\ algorithms = Resolved(g)
  BY DEF IInv, ResolvedInv
<1>2. Graph(script)
  BY DEF IInv, GraphInv
<1> QED
  BY <1>1, <1>2, TimeframesDecided, PassesAssumption

\* The timeframes of a compiled script are decided by those written in it, by a rule
\* that does not know the order of the list.
THEOREM TimeframesAreTheScripts ==
  ASSUME DistinctIds
  PROVE  Spec => []TimeframesFollowTheScript
<1>1. IInv => TimeframesFollowTheScript
  BY ResolvedAsExpected DEF TimeframesFollowTheScript
<1> QED
  BY <1>1, InvHolds, PTL

\* A script with an output is refused only where the rule gives a node no timeframe,
\* and what the strict mode accepts lacks none.
THEOREM RefusalsHaveCauses ==
  ASSUME DistinctIds
  PROVE  Spec => []RejectedHasCause
<1>1. IInv => RejectedHasCause
  <2> SUFFICES ASSUME IInv PROVE RejectedHasCause
    OBVIOUS
  <2>1. ASSUME pass = "rejected", SinkIds(script) # {}
        PROVE  /\ Len(sorted) = Len(algorithms)
               /\ \E n \in ToSet(algorithms) : n.type \notin Scalars /\ Expected(n) = None
    <3>1. SinkIds(algorithms) # {} /\ SortSucceeds
      BY <2>1 DEF IInv, GraphInv, SortInv
    <3>2. \A n \in ToSet(algorithms) : n.timeframe = Expected(n)
      BY <2>1, <3>1, ResolvedAsExpected
    <3> QED BY <2>1, <3>1, <3>2 DEF SortSucceeds
  <2>2. pass = "compiled" /\ strict =>
          \A n \in ToSet(algorithms) : n.type \in Scalars \/ n.timeframe # None
    BY DEF IInv, ResolvedInv
  <2> QED BY <2>1, <2>2 DEF RejectedHasCause
<1> QED
  BY <1>1, InvHolds, PTL

\* The sort emits every node: a script with an output is refused for want of a
\* timeframe only, never for a cycle.
THEOREM NoCycleIsFound ==
  ASSUME DistinctIds
  PROVE  Spec => []SortSucceeds
<1>1. IInv => SortSucceeds
  BY DEF IInv, SortInv
<1> QED
  BY <1>1, InvHolds, PTL

-----------------------------------------------------------------------------
(* What the orchestrator is given. *)

\* A node as the transform it becomes: all that decides whether it can be registered
\* is what it reads and whether it has outputs.
Transform(n) ==
  [inputs |-> n.inputs,
   category |-> IF n.type \in Sinks THEN "Reporter"
                ELSE IF n.type \in Scalars THEN "Scalar" ELSE "Other"]

Runtime == INSTANCE TransformGraph WITH
  Nodes <- IdsOf(algorithms),
  Def <- [id \in IdsOf(algorithms) |-> Transform(NodeOf(algorithms, id))],
  Assets <- {}, Intraday <- {}

\* BuildTransforms keeps the order of the nodes.
TransformList == [i \in DOMAIN algorithms |-> algorithms[i].id]

\* Nothing reads a report, an executor or an event marker: they have no output that a
\* script could name.
SinksHaveNoReader == \A g \in Scripts : SinksUnread(g)

\* The compiler's list fits the runtime: the orchestrator's constructor refuses none
\* (AcceptedOrders), and no transform would wait for itself, for any script whose
\* outputs are not read and any order of the hash tables.
THEOREM RuntimeTakesIt ==
  ASSUME DistinctIds, SinksHaveNoReader
  PROVE  Spec => [](pass = "compiled" =>
                      Runtime!DependencyOrder(TransformList) /\ Runtime!NoSelfReader)
<1> DEFINE g == algorithms
           Fits == Runtime!DependencyOrder(TransformList) /\ Runtime!NoSelfReader
           FromScripts == SinksUnread(script)
<1>1. Init => FromScripts
  BY DEF Init, SinksHaveNoReader
<1>2. FromScripts /\ [Next]_vars => FromScripts'
  BY DEF Next, vars, VerifySessionDependencies, Optimize, RemoveOrphanNodes, NoSink,
     StartSort, EmitNode, EndSort, ResolveTimeframes
<1>3. IInv /\ FromScripts => Fits
  <2> SUFFICES ASSUME IInv, FromScripts PROVE Fits
    OBVIOUS
  <2>1. /\ g \in Seq(AlgorithmNode) /\ Distinct(g) /\ InputsFirst(g) /\ SinksUnread(g)
        /\ DOMAIN g = 1..Len(g) /\ Len(g) \in Nat
    BY DEF IInv, GraphInv, Graph, SinksInv
  <2>2. ASSUME NEW i \in DOMAIN g
        PROVE  /\ g[i].id \in IdsOf(g) /\ TransformList[i] = g[i].id
               /\ Runtime!Producers(g[i].id) = InputsOf(g[i])
               /\ g[i].type \notin Sinks => Runtime!HasOutputs(g[i].id)
    <3>1. g[i].id \in IdsOf(g) /\ NodeOf(g, g[i].id) = g[i]
      BY <2>1, NodeOfFinds DEF IdsOf
    <3>2. Runtime!Producers(g[i].id) = {g[i].inputs[k] : k \in DOMAIN g[i].inputs}
      BY <3>1 DEF Runtime!Producers, Runtime!Edges, Transform
    <3>3. g[i].type \notin Sinks => Runtime!HasOutputs(g[i].id)
      BY <3>1 DEF Runtime!HasOutputs, Transform
    <3> QED BY <3>1, <3>2, <3>3 DEF TransformList, InputsOf, ToSet
  <2>3. ASSUME NEW i \in DOMAIN g, NEW p \in InputsOf(g[i])
        PROVE  \E j \in DOMAIN g : j < i /\ g[j].id = p /\ Runtime!HasOutputs(p)
    <3>1. PICK j \in 1..(i - 1) : g[j].id = p
      BY <2>1 DEF InputsFirst
    <3>2. j \in DOMAIN g /\ j < i
      BY <2>1, <3>1
    <3> QED BY <2>1, <2>2, <3>1, <3>2 DEF SinksUnread
  <2>4. DOMAIN TransformList = DOMAIN g
    BY DEF TransformList
  <2>5. ASSUME NEW i \in DOMAIN TransformList, NEW p \in Runtime!Producers(TransformList[i])
        PROVE  Runtime!HasOutputs(p) /\ \E j \in 1..i : TransformList[j] = p
    <3>1. PICK j \in DOMAIN g : j < i /\ g[j].id = p /\ Runtime!HasOutputs(p)
      BY <2>2, <2>3, <2>4, <2>5
    <3> QED BY <2>1, <2>2, <2>4, <3>1
  <2>6. Runtime!DependencyOrder(TransformList)
    BY <2>1, <2>2, <2>4, <2>5 DEF Runtime!DependencyOrder, Distinct
  <2>7. ASSUME NEW id \in IdsOf(g) PROVE id \notin Runtime!Producers(id)
    <3>1. PICK i \in DOMAIN g : g[i].id = id
      BY DEF IdsOf
    <3>2. ASSUME id \in InputsOf(g[i]) PROVE FALSE
      <4>1. PICK j \in DOMAIN g : j < i /\ g[j].id = id
        BY <2>3, <3>2
      <4> QED BY <2>1, <3>1, <4>1 DEF Distinct
    <3> QED BY <2>2, <3>1, <3>2
  <2> QED BY <2>6, <2>7 DEF Runtime!NoSelfReader
<1> HIDE DEF Fits, FromScripts
<1>4. Spec => []FromScripts
  BY <1>1, <1>2, PTL DEF Spec
<1>5. Spec => [](pass = "compiled" => Fits)
  BY <1>3, <1>4, InvHolds, PTL
<1> QED
  BY <1>5 DEF Fits

=============================================================================
