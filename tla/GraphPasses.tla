---------------------------- MODULE GraphPasses -----------------------------
(***************************************************************************)
(* The passes of AlgorithmAstCompiler::compileAST over the graph the AST   *)
(* visitor has built: the session nodes it adds, common subexpression      *)
(* elimination, removal of the nodes no sink needs, Kahn's topological     *)
(* sort, and the two passes that give every node its timeframe.  The type  *)
(* of a node stands for its type and options, but for the columns that the *)
(* schema of a report names; its inputs and columns are the ids of the     *)
(* producing nodes.  Ids are the visitor's: a variable's name, which it    *)
(* keeps unique except for "_", or a generated one.                        *)
(***************************************************************************)
EXTENDS Naturals, Sequences, FiniteSets, SequencesExt, FiniteSetsExt, Listing

CONSTANTS
  Ids,          \* node ids
  Types,        \* transform types, with their options
  Scripts,      \* the graphs the visitor may leave
  Sinks,        \* the types without outputs: reports, executors, event markers
  Scalars,      \* the types of category Scalar
  CseScalars,   \* the types CSEOptimizer::IsScalarType lists
  Executors,    \* the types CSEOptimizer::ShouldExcludeFromCSE lists
  SessionType,  \* the type "sessions"
  SessionIds,   \* "sessions_0", "sessions_1", ...
  Sessions,     \* the named trading sessions
  MaxTimeframe, \* timeframes are 1..MaxTimeframe, from fine to coarse
  Hash(_)       \* ComputeSemanticHash

None == 0
Timeframes == None..MaxTimeframe

\* The session of a node of SessionType is its session_type option.
AlgorithmNode ==
  [id : Ids, type : Types, inputs : Seq(Ids), columns : Seq(Ids),
   timeframe : Timeframes, session : Sessions \cup {None}]

IdsOf(g) == {g[i].id : i \in DOMAIN g}
InputsOf(n) == ToSet(n.inputs)

RequiredSessions(g) ==
  {<<n.session, n.timeframe>> :
     n \in {m \in ToSet(g) : m.session # None /\ m.type # SessionType}}

\* Every input names an earlier node: the visitor compiles the arguments of a call
\* before the call.
InputsFirst(g) ==
  \A i \in DOMAIN g : InputsOf(g[i]) \subseteq {g[j].id : j \in 1..(i - 1)}

\* A schema names inputs of its node: what FrontEnd shows of the names the visitor
\* puts in it.
ColumnsAreInputs(g) == \A i \in DOMAIN g : ToSet(g[i].columns) \subseteq InputsOf(g[i])

ASSUME PassesAssumption ==
  /\ Scripts \subseteq Seq(AlgorithmNode)
  /\ \A g \in Scripts :
       /\ InputsFirst(g) /\ ColumnsAreInputs(g)
       /\ Cardinality(RequiredSessions(g)) <= Len(SessionIds)
  /\ Sinks \subseteq Types /\ CseScalars \subseteq Scalars /\ Scalars \subseteq Types
  /\ Executors \subseteq Sinks /\ SessionType \in Types \ Sinks
  /\ SessionIds \in Seq(Ids)
  /\ MaxTimeframe \in Nat

VARIABLES
  strict,      \* FALSE: compile(source, skip_sink_validation = true)
  pass,        \* the pass that runs next, or how the compilation ended
  script,      \* the graph the visitor left
  algorithms,  \* context_.algorithms
  queue,       \* Kahn's queue
  sorted       \* sorted_nodes

vars == <<strict, pass, script, algorithms, queue, sorted>>

Passes == {"sessions", "cse", "orphans", "sort", "kahn", "timeframes", "compiled", "rejected"}

\* find_if: the first node with that id.
NodeOf(g, id) == g[CHOOSE i \in DOMAIN g : g[i].id = id /\ \A j \in 1..(i - 1) : g[j].id # id]

\* The nodes at the positions P, in the order of the graph.
Order[P \in SUBSET Nat] == Sorted(P)

NodesAt(g, P) == [k \in 1..Cardinality(P) |-> g[Order[P][k]]]

Without(g, ids) == NodesAt(g, {i \in DOMAIN g : g[i].id \notin ids})

TypeOK ==
  /\ strict \in BOOLEAN
  /\ pass \in Passes
  /\ script \in Seq(AlgorithmNode)
  /\ algorithms \in Seq(AlgorithmNode)
  /\ queue \in Seq(Ids)
  /\ sorted \in Seq(AlgorithmNode)

Init ==
  /\ strict \in BOOLEAN
  /\ pass = "sessions"
  /\ script \in Scripts
  /\ algorithms = script
  /\ queue = <<>>
  /\ sorted = <<>>

-----------------------------------------------------------------------------
(* VerifySessionDependencies. *)

HasSessionsNode(g, key) ==
  \E n \in ToSet(g) : n.type = SessionType /\ <<n.session, n.timeframe>> = key

\* Their ids come from a counter of their own.
SessionNodes(keys) ==
  [i \in DOMAIN keys |->
     [id |-> SessionIds[i], type |-> SessionType, inputs |-> <<>>, columns |-> <<>>,
      timeframe |-> keys[i][2], session |-> keys[i][1]]]

\* A node is added for every session and timeframe that has none.
VerifySessionDependencies ==
  /\ pass = "sessions"
  /\ pass' = "cse"
  /\ \E keys \in SetToSeqs({k \in RequiredSessions(algorithms) : ~HasSessionsNode(algorithms, k)}) :
       algorithms' = algorithms \o SessionNodes(keys)
  /\ UNCHANGED <<strict, script, queue, sorted>>

-----------------------------------------------------------------------------
(* CSEOptimizer::Optimize. *)

\* Mutant: nor those of any other node.
SameTypeAndInputs(m, n) ==
  m.type = n.type /\ m.inputs = n.inputs /\ m.columns = n.columns

\* The timeframe and the session of a literal do not count.
SemanticEquals(m, n) ==
  /\ m.type = n.type
  /\ m.inputs = n.inputs /\ m.columns = n.columns
  /\ m.type \in CseScalars \/ (m.timeframe = n.timeframe /\ m.session = n.session)

\* The first node of a hash is canonical.
Canonical(g, i) ==
  g[CHOOSE j \in 1..i :
      /\ g[j].type \notin Executors
      /\ Hash(g[j]) = Hash(g[i])
      /\ \A k \in 1..(j - 1) : g[k].type \in Executors \/ Hash(g[k]) # Hash(g[i])].id

IsFirstOfHash(g, i) ==
  \A k \in 1..(i - 1) : g[k].type \in Executors \/ Hash(g[k]) # Hash(g[i])

\* A later one is a duplicate if it is really equal.  Inputs are compared as
\* the visitor left them: what a redirection makes equal is not found.
IsDuplicate(g, i) ==
  /\ g[i].type \notin Executors
  /\ ~IsFirstOfHash(g, i)
  /\ SemanticEquals(g[i], NodeOf(g, Canonical(g, i)))

Redirect(g, id) ==
  LET dups == {i \in DOMAIN g : g[i].id = id /\ IsDuplicate(g, i)}
  IN  IF dups = {} THEN id ELSE Canonical(g, Max(dups))

Redirections(g, ids) == [k \in DOMAIN ids |-> Redirect(g, ids[k])]

\* Mutant: the columns of the schemas are left.
InputsRedirected(g) ==
  [i \in DOMAIN g |-> [g[i] EXCEPT !.inputs = Redirections(g, @)]]

\* Inputs that name a duplicate, and columns of schemas that do, name its canonical
\* node.
Redirected(g) ==
  [i \in DOMAIN g |->
     [g[i] EXCEPT !.inputs = Redirections(g, @), !.columns = Redirections(g, @)]]

Duplicates(g) == {g[i].id : i \in {j \in DOMAIN g : IsDuplicate(g, j)}}

Optimize ==
  /\ pass = "cse"
  /\ pass' = "orphans"
  /\ algorithms' = Without(Redirected(algorithms), Duplicates(algorithms))
  /\ UNCHANGED <<strict, script, queue, sorted>>

-----------------------------------------------------------------------------
(* removeOrphanNodes. *)

SinkIds(g) == {n.id : n \in {m \in ToSet(g) : m.type \in Sinks}}

\* The sinks are in S and, with a node, those it reads.
Closed(g, S) ==
  /\ SinkIds(g) \subseteq S
  /\ \A id \in S : InputsOf(NodeOf(g, id)) \cap IdsOf(g) \subseteq S

\* Mutant: every node is found.
Everything(g, S) == S = IdsOf(g)

\* What the search from the sinks back along the inputs finds.
Reachable(g, S) == Closed(g, S) /\ \A T \in SUBSET S : Closed(g, T) => T = S

RemoveOrphanNodes ==
  /\ pass = "orphans"
  /\ SinkIds(algorithms) # {}
  /\ pass' = "sort"
  /\ \E found \in SUBSET IdsOf(algorithms) :
       /\ Reachable(algorithms, found)
       /\ algorithms' = Without(algorithms, IdsOf(algorithms) \ found)
  /\ UNCHANGED <<strict, script, queue, sorted>>

\* A script without output is an error, or kept as it is in permissive mode.
NoSink ==
  /\ pass = "orphans"
  /\ SinkIds(algorithms) = {}
  /\ pass' = IF strict THEN "rejected" ELSE "sort"
  /\ UNCHANGED <<strict, script, algorithms, queue, sorted>>

-----------------------------------------------------------------------------
(* TopologicalSort. *)

\* What in_degree[id] counts; inputs that name no node of the graph are not.
Dependencies(id) ==
  IdsOf(algorithms) \cap
    UNION {InputsOf(n) : n \in {m \in ToSet(algorithms) : m.id = id}}

\* The nodes without inputs enter the queue in the order of an unordered_map.
StartSort ==
  /\ pass = "sort"
  /\ pass' = "kahn"
  /\ queue' \in SetToSeqs({id \in IdsOf(algorithms) : Dependencies(id) = {}})
  /\ UNCHANGED <<strict, script, algorithms, sorted>>

\* node_index: of two nodes with one id the later.
IndexOf(id) == Max({i \in DOMAIN algorithms : algorithms[i].id = id})

\* Some ids, in the order of the graph.
InGraphOrder(ids) ==
  LET nodes == NodesAt(algorithms, {IndexOf(id) : id \in ids})
  IN  [k \in DOMAIN nodes |-> nodes[k].id]

\* Mutant: the dependents are released by their first dependency.
ReleasedByAny(id) ==
  LET seen == IdsOf(sorted) \cup ToSet(queue)
  IN  InGraphOrder({m \in IdsOf(algorithms) : id \in Dependencies(m) /\ m \notin seen})

\* The dependents whose last dependency id is.
Released(id) ==
  LET done == IdsOf(sorted) \cup {id}
  IN  InGraphOrder({m \in IdsOf(algorithms) :
                      id \in Dependencies(m) /\ Dependencies(m) \subseteq done})

\* Mutant: the head of the queue stays.
EmitAgain ==
  /\ pass = "kahn"
  /\ queue # <<>>
  /\ sorted' = sorted
  /\ queue' = queue
  /\ UNCHANGED <<strict, pass, script, algorithms>>

EmitNode ==
  /\ pass = "kahn"
  /\ queue # <<>>
  /\ sorted' = Append(sorted, algorithms[IndexOf(Head(queue))])
  /\ queue' = Tail(queue) \o Released(Head(queue))
  /\ UNCHANGED <<strict, pass, script, algorithms>>

\* Two nodes with one id are emitted once, and so count as a cycle.
EndSort ==
  /\ pass = "kahn"
  /\ queue = <<>>
  /\ IF Len(sorted) = Len(algorithms)
     THEN pass' = "timeframes" /\ algorithms' = sorted
     ELSE pass' = "rejected" /\ UNCHANGED algorithms
  /\ UNCHANGED <<strict, script, queue, sorted>>

-----------------------------------------------------------------------------
(* resolveTimeframes. *)

Coarsest(tfs) == Max(tfs \cup {None})

\* Mutant: only the first input counts.
FromFirstInput(g) ==
  LET tf[i \in DOMAIN g] ==
        IF g[i].timeframe # None THEN g[i].timeframe
        ELSE Coarsest({tf[j] : j \in {k \in 1..(i - 1) :
                         g[i].inputs # <<>> /\ g[k].id = g[i].inputs[1]}})
  IN  tf

\* Pass 1: a node without a timeframe takes the coarsest of its inputs.
FromInputs(g) ==
  LET tf[i \in DOMAIN g] ==
        IF g[i].timeframe # None THEN g[i].timeframe
        ELSE Coarsest({tf[j] : j \in {k \in 1..(i - 1) : g[k].id \in InputsOf(g[i])}})
  IN  tf

\* Pass 2: one that still has none, and is no scalar, takes the coarsest of its
\* dependents, those already treated in this pass included; not only literals do,
\* which the source speaks of.
FromDependents(g) ==
  LET before == FromInputs(g)
      tf[i \in DOMAIN g] ==
        IF before[i] # None \/ g[i].type \in Scalars THEN before[i]
        ELSE Coarsest({IF j < i THEN tf[j] ELSE before[j] :
                         j \in {k \in DOMAIN g : g[i].id \in InputsOf(g[k])}})
  IN  tf

\* Mutant: only what reads nothing is looked at.
UnresolvedSources(g) ==
  {i \in DOMAIN g : /\ g[i].type \notin Scalars /\ g[i].inputs = <<>>
                    /\ FromDependents(g)[i] = None}

Unresolved(g) ==
  {i \in DOMAIN g : g[i].type \notin Scalars /\ FromDependents(g)[i] = None}

Resolved(g) == [i \in DOMAIN g |-> [g[i] EXCEPT !.timeframe = FromDependents(g)[i]]]

ResolveTimeframes ==
  /\ pass = "timeframes"
  /\ algorithms' = Resolved(algorithms)
  /\ pass' = IF strict /\ Unresolved(algorithms) # {} THEN "rejected" ELSE "compiled"
  /\ UNCHANGED <<strict, script, queue, sorted>>

-----------------------------------------------------------------------------

Next ==
  \/ VerifySessionDependencies
  \/ Optimize
  \/ RemoveOrphanNodes
  \/ NoSink
  \/ StartSort
  \/ EmitNode
  \/ EndSort
  \/ ResolveTimeframes

Spec == Init /\ [][Next]_vars

\* The compiler runs to its end.
FairSpec == Spec /\ WF_vars(Next)

-----------------------------------------------------------------------------
(* Properties. *)

\* What the node at position i computes, spelled out down to its sources.
Terms(g) ==
  LET Producer(i, id) == CHOOSE j \in 1..(i - 1) : g[j].id = id
      term[i \in DOMAIN g] ==
        <<g[i].type,
          IF g[i].type \in CseScalars THEN <<>> ELSE <<g[i].timeframe, g[i].session>>,
          [k \in DOMAIN g[i].inputs |-> term[Producer(i, g[i].inputs[k])]],
          [k \in DOMAIN g[i].columns |-> term[Producer(i, g[i].columns[k])]]>>
  IN  term

TermsOf(g, types) == {Terms(g)[i] : i \in {j \in DOMAIN g : g[j].type \in types}}

\* "The optimization preserves semantic correctness": through merging, removal
\* and sorting, what every report and executor of the script computes stays the
\* same, down to its sources, the columns its schema shows included, which are still
\* inputs of it; and no executor is merged away.
ExecutorsOf(g) == {i \in DOMAIN g : g[i].type \in Executors}

SinksKeepTheirMeaning ==
  pass \in {"orphans", "sort", "kahn", "timeframes"} =>
    /\ ColumnsAreInputs(algorithms)
    /\ TermsOf(algorithms, Sinks) = TermsOf(script, Sinks)
    /\ Cardinality(ExecutorsOf(algorithms)) = Cardinality(ExecutorsOf(script))

\* What the compiler hands out is what the orchestrator's constructor takes: no
\* id twice, and every input produced earlier in the list.
OrchestratorAccepts ==
  pass = "compiled" =>
    \A i \in DOMAIN algorithms :
      /\ \A j \in 1..(i - 1) : algorithms[j].id # algorithms[i].id
      /\ InputsOf(algorithms[i]) \subseteq {algorithms[j].id : j \in 1..(i - 1)}

\* No dead code is left where there is a sink: every compiled node is a sink or
\* feeds another compiled node.
NothingUnused ==
  pass = "compiled" /\ SinkIds(algorithms) # {} =>
    \A n \in ToSet(algorithms) :
      n.type \in Sinks \/ \E m \in ToSet(algorithms) : n.id \in InputsOf(m)

Explicit(id) == NodeOf(script, id).timeframe

\* With a node the script gives no timeframe, its inputs are in S.
UpstreamIn(S) == \A a \in S : Explicit(a) = None => InputsOf(NodeOf(algorithms, a)) \subseteq S

\* The nodes that give id its timeframe: itself if the script gives it one,
\* otherwise those that give one to its inputs.
Givers(id) ==
  {a \in IdsOf(algorithms) :
     \A S \in SUBSET IdsOf(algorithms) : id \in S /\ UpstreamIn(S) => a \in S}

Inherited(id) == Coarsest({Explicit(a) : a \in Givers(id)})

Expected(n) ==
  IF Inherited(n.id) # None \/ n.type \in Scalars THEN Inherited(n.id)
  ELSE Coarsest({Inherited(m.id) : m \in {k \in ToSet(algorithms) : n.id \in InputsOf(k)}})

\* The script's timeframes alone decide those of the compiled graph, in whatever
\* order the sort took it: a node has the coarsest of the nearest ones upstream or,
\* failing that, the coarsest of its dependents'.  That is what the two passes do
\* (ast_compiler.cpp:316); the documentation knows of the first only, see
\* InheritedFromInputsOnly.
TimeframesFollowTheScript ==
  pass = "compiled" /\ SinkIds(algorithms) # {} =>
    \A n \in ToSet(algorithms) : n.timeframe = Expected(n)

\* A compilation fails for want of output or of a timeframe only, one that neither
\* its inputs nor its dependents give; and what a strict one returns has a timeframe
\* wherever one is needed.
RejectedHasCause ==
  /\ pass = "rejected" /\ SinkIds(script) # {} =>
       /\ Len(sorted) = Len(algorithms)
       /\ \E n \in ToSet(algorithms) : n.type \notin Scalars /\ Expected(n) = None
  /\ pass = "compiled" /\ strict =>
       \A n \in ToSet(algorithms) : n.type \in Scalars \/ n.timeframe # None

\* "If a transform has no inputs or cannot determine a timeframe from its inputs, you
\* must set the timeframe explicitly", docs/concepts/timeframes.mdx:114, and one that
\* does not "will fail validation", :107: what a strict compilation returns has all
\* its timeframes from the script or from inputs.
InheritedFromInputsOnly ==
  pass = "compiled" /\ strict =>
    \A n \in ToSet(algorithms) : n.type \in Scalars \/ Inherited(n.id) # None

\* The compilation ends.
Terminates == <>(pass \in {"compiled", "rejected"})

\* "Circular dependency detected in algorithm graph!": the sort gives up only
\* on a graph in which some nodes wait for each other.  Refuted: two nodes named _
\* make it give up on any graph.
CircularOnlyIfCyclic ==
  pass = "rejected" /\ SinkIds(algorithms) # {} /\ Len(sorted) < Len(algorithms) =>
    \E S \in (SUBSET IdsOf(algorithms)) \ {{}} :
      \A id \in S : Dependencies(id) \cap S # {}

=============================================================================
