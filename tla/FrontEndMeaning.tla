--------------------------- MODULE FrontEndMeaning ---------------------------
(***************************************************************************)
(* What a script means, without ids, indexes, placeholders or casts: each  *)
(* expression is a term, the tree of the components that compute it.  The  *)
(* graph FrontEnd builds is read back as terms too, and the two must be    *)
(* the same.  The rest of the module states what the later passes and the  *)
(* runtime take for granted of that graph.                                 *)
(***************************************************************************)
EXTENDS FrontEnd

\* A term is an output of a component; the handle "" stands for the component.
Term(tree, handle) == [tree |-> tree, handle |-> handle]

Tree(type, options, inputs) ==
  [type |-> type, options |-> options, inputs |-> inputs,
   timeframe |-> NotGiven, session |-> NotGiven]

\* An option that names the nth argument, by the argument's term.
WithColumns(v, terms) ==
  LET At(ref) == IF ref[1] = "slot" /\ terms # <<>> THEN <<"column", terms[ref[2] + 1]>> ELSE ref
  IN  IF IsSchema(v) THEN <<v[1], At(v[2]), [i \in DOMAIN v[3] |-> At(v[3][i])]>> ELSE At(v)

-----------------------------------------------------------------------------
(* The meaning of the script. *)

\* A name that stands for a component stands for its one output.
Output(term) ==
  IF term.handle = "" THEN Term(term.tree, FirstOutput(term.tree.type)) ELSE term

\* A keyword that is a name of a literal has its value; any other is its text.
KeywordMeaning(e, env) ==
  CASE e.op = "Constant" -> OptionValue(e.value)
    [] e.op = "Schema" -> e.value
    [] e.op = "Name" /\ e.id \in DOMAIN env /\ env[e.id].handle # "" ->
         LET tree == env[e.id].tree
         IN  IF tree.type = "number" THEN tree.options["value"]
             ELSE <<"bool", tree.type = "bool_true">>
    [] OTHER -> <<"text", e.id>>

ParamsMeaning(keywords, env) ==
  LET given == {i \in DOMAIN keywords :
                  ~(keywords[i][1] \in SpecialParameters /\
                    IsEmpty(KeywordMeaning(keywords[i][2], env)))}
  IN  [key \in {keywords[i][1] : i \in given} |->
         KeywordMeaning(keywords[CHOOSE i \in given : keywords[i][1] = key][2], env)]

RECURSIVE Denote(_, _)
DenoteAll(es, env) == [i \in DOMAIN es |-> Denote(es[i], env)]

\* What the feeds connect, as pairs of an input and an expression: of each feed the
\* keyword arguments, then the arguments, all further ones at the last input.
Connections(ctor, feeds) ==
  LET inputs == Component[ctor].inputs
      Placed(args) == [i \in DOMAIN args |-> <<inputs[Min({i, Len(inputs)})][1], args[i]>>]
  IN  IF inputs = <<>> THEN <<>>
      ELSE FlattenSeq([i \in DOMAIN feeds |-> feeds[i].kwargs \o Placed(feeds[i].args)])

InputsMeaning(connections, env) ==
  LET At(port) == SelectSeq(connections, LAMBDA c : c[1] = port)
      Arrivals(at) == DenoteAll([i \in DOMAIN at |-> at[i][2]], env)
  IN  [port \in {connections[i][1] : i \in DOMAIN connections} |-> Arrivals(At(port))]

\* The options may name the arguments of the first feed.
CallTreeWith(e, env, params) ==
  LET feeds == FeedsOf(e)
      columns == IF feeds = <<>> THEN <<>> ELSE DenoteAll(feeds[1].args, env)
      Meant(options) == [key \in DOMAIN options |-> WithColumns(options[key], columns)]
  IN  [type |-> e.ctor,
       options |-> Meant(WithDefaults(e.ctor, params)),
       inputs |-> InputsMeaning(Connections(e.ctor, feeds), env),
       timeframe |-> TimeframeOf(e.ctor, params),
       session |-> SessionOf(params)]

CallTree(e, env) == CallTreeWith(e, env, ParamsMeaning(e.keywords, env))

LiteralTerm(v) == LET l == Literal(v) IN Term(Tree(l.type, l.options, Empty), "result")

BinaryTerm(type, left, right) ==
  LET inputs == Component[type].inputs
  IN  Term(Tree(type, Empty, (inputs[1][1] :> <<left>>) @@ (inputs[2][1] :> <<right>>)),
           FirstOutput(type))

\* The typed variants of the lag and of the selection are one component here.
Denote(e, env) ==
  CASE e.op = "Call" -> Term(CallTree(e, env), FirstOutput(e.ctor))
    [] e.op = "Constant" -> LiteralTerm(e.value)
    [] e.op = "Name" -> IF e.id \in {<<"true">>, <<"false">>}
                        THEN LiteralTerm(<<"bool", e.id = <<"true">>>>)
                        ELSE Output(env[e.id])
    [] e.op = "Attribute" -> IF e.base.op = "Name" THEN Term(env[e.base.id].tree, e.attr)
                             ELSE Term(Denote(e.base, env).tree, e.attr)
    [] e.op \in {"BinOp", "Compare"} ->
         BinaryTerm(e.type, Denote(e.left, env), Denote(e.right, env))
    [] e.op = "BoolOp" ->
         FoldRight(LAMBDA term, rest : BinaryTerm(e.type, term, rest),
                   Front(DenoteAll(e.values, env)), Denote(Last(e.values), env))
    [] e.op = "UnaryOp" ->
         LET operand == Denote(e.operand, env)
         IN  CASE e.type = "-" -> BinaryTerm("mul", LiteralTerm(<<"int", -1>>), operand)
               [] e.type = "not" -> Term(Tree("logical_not", Empty, [SLOT |-> <<operand>>]), "result")
               [] OTHER -> operand
    [] e.op = "IfExp" ->
         Term(Tree("boolean_select", Empty,
                   [condition |-> <<Denote(e.test, env)>>, true |-> <<Denote(e.body, env)>>,
                    false |-> <<Denote(e.orelse, env)>>]), "value")
    [] e.op = "Subscript" ->
         LET period == CHOOSE p \in EvaluateConstant(ConstantsOf(script), e.slice) : TRUE
         IN  Term(Tree("lag", [period |-> OptionValue(period)], [SLOT |-> <<Denote(e.base, env)>>]),
                  "result")

\* The names a statement gives a meaning.
Named(stmt, env) ==
  CASE stmt.shape = "name" /\ stmt.value.op = "Call" ->
         (stmt.targets[1] :> Term(CallTree(stmt.value, env), "")) @@ env
    [] stmt.shape = "name" /\ stmt.value.op # "Call" ->
         (stmt.targets[1] :> Denote(stmt.value, env)) @@ env
    [] stmt.shape = "tuple" ->
         LET tree == CallTree(stmt.value, env)
         IN  [n \in ToSet(stmt.targets) \ {<<"_">>} |->
                Term(tree, Component[stmt.value.ctor].outputs[
                             CHOOSE i \in DOMAIN stmt.targets : stmt.targets[i] = n][1])] @@ env
    [] OTHER -> env

\* The names and the sinks of the whole script.
ScriptMeaning ==
  FoldLeft(LAMBDA m, stmt :
             [env |-> Named(stmt, m.env),
              sinks |-> IF stmt.shape = "none" THEN Append(m.sinks, CallTree(stmt.value, m.env))
                        ELSE m.sinks],
           [env |-> Empty, sinks |-> <<>>], script)

-----------------------------------------------------------------------------
(* The graph as terms. *)

\* Casts leave no trace; nor does the choice of a typed variant.
IsCast(node) == node.id[1] \in {"static_cast", "stringify"} /\ Len(node.id) = 2

Untyped(node) ==
  CASE node.id[1] = "lag" -> "lag"
    [] node.id[1] = "ifexp" -> "boolean_select"
    [] OTHER -> node.type

NodeOf(id) == context.algorithms[context.node_lookup[id]]

RECURSIVE TreeOf(_)
TermOf(h) == IF IsCast(NodeOf(h[1])) THEN TreeOf(h[1]) ELSE Term(TreeOf(h[1]), h[2])

ColumnTerm(ref) == IF ref[1] = "column" THEN <<"column", TermOf(ref[2])>> ELSE ref

OptionTerm(v) ==
  IF IsSchema(v) THEN <<v[1], ColumnTerm(v[2]), [i \in DOMAIN v[3] |-> ColumnTerm(v[3][i])]>>
  ELSE ColumnTerm(v)

\* The tree of a cast is the term it casts.
TreeOf(id) ==
  LET node == NodeOf(id)
      inputs == [p \in DOMAIN node.inputs |->
                   [i \in DOMAIN node.inputs[p] |-> TermOf(node.inputs[p][i])]]
  IN  IF IsCast(node) THEN inputs["SLOT"][1]
      ELSE [type |-> Untyped(node),
            options |-> [key \in DOMAIN node.options |-> OptionTerm(node.options[key])],
            inputs |-> inputs, timeframe |-> node.timeframe, session |-> node.session]

BindingTerm(name) ==
  LET what == context.var_to_binding[name]
  IN  IF what[1] = "handle" THEN TermOf(what[2]) ELSE Term(TreeOf(name), "")

SinkNodes == SelectSeq(context.algorithms, LAMBDA n : Component[n.type].outputs = <<>>)

-----------------------------------------------------------------------------
(* Parts of the script. *)

\* The operands and arguments of an expression; the keywords and the slices are
\* never compiled.
Operands(e) ==
  CASE e.op = "Call" -> UNION {ToSet(f.args) \cup {kwarg[2] : kwarg \in ToSet(f.kwargs)} :
                                 f \in ToSet(FeedsOf(e))}
    [] e.op \in {"Attribute", "Subscript"} -> {e.base}
    [] e.op \in {"BinOp", "Compare"} -> {e.left, e.right}
    [] e.op = "BoolOp" -> ToSet(e.values)
    [] e.op = "UnaryOp" -> {e.operand}
    [] e.op = "IfExp" -> {e.test, e.body, e.orelse}
    [] OTHER -> {}

RECURSIVE SubExpressions(_)
SubExpressions(e) == {e} \cup UNION {SubExpressions(o) : o \in Operands(e)}

Expressions == UNION {SubExpressions(script[i].value) : i \in DOMAIN script}

Reads(e) == {n.id : n \in {x \in SubExpressions(e) : x.op = "Name"}} \ {<<"true">>, <<"false">>}

\* A name the compiler may generate too.
LooksGenerated(name) == Len(name) = 2

\* The scripts that make two nodes with one id: a variable with the name of a
\* generated node, or "_" for the node of two constructors.
IdsMayCollide ==
  \/ \E i \in DOMAIN script : \E n \in ToSet(script[i].targets) : LooksGenerated(n)
  \/ \E i, j \in DOMAIN script :
       /\ i # j
       /\ \A k \in {i, j} : script[k].targets = <<<<"_">>>> /\ script[k].value.op = "Call"

\* A generated id may be read as if it were a variable; the script alone does not
\* say what it means then.
ReadsGenerated == \E e \in Expressions : e.op = "Name" /\ LooksGenerated(e.id)

-----------------------------------------------------------------------------
(* Properties. *)

Accepted == outcome = "compiled" /\ ~IdsMayCollide

\* TypeOK.
TypeOK ==
  /\ script \in Scripts
  /\ position \in 1..(Len(script) + 1)
  /\ outcome \in {"folding", "visiting", "compiled", "rejected"}
  /\ context.thrown <=> outcome = "rejected"
  /\ \A i \in DOMAIN context.algorithms : context.algorithms[i].type \in Components
  /\ \A id \in DOMAIN context.node_lookup :
       context.node_lookup[id] \in DOMAIN context.algorithms
  /\ \A h \in DOMAIN context.node_output_types : context.node_output_types[h] \in DataTypes
  /\ \A name \in DOMAIN context.var_to_binding :
       context.var_to_binding[name][1] \in {"component", "handle"}

Agrees(meaning) ==
  /\ \A name \in DOMAIN meaning.env : BindingTerm(name) = meaning.env[name]
  /\ [i \in DOMAIN SinkNodes |-> TreeOf(SinkNodes[i].id)] = meaning.sinks

\* The graph computes what the script says: every variable is bound to, and every
\* report and executor reads, the components the expression is written with, with
\* its options, whatever was pushed, cast and looked up by id in between.
MeaningKept ==
  Accepted /\ ~ReadsGenerated => Agrees(ScriptMeaning)

Edges(node) == UNION {ToSet(node.inputs[p]) : p \in DOMAIN node.inputs}

\* Handles the compiler does not check: an input of a node that the script names,
\* the attribute of an expression, and the "result" of a null.
Unchecked(h) ==
  \/ h[2] \in Ports(Component[NodeOf(h[1]).type].inputs)
  \/ h[2] \in {e.attr : e \in {x \in Expressions : x.op = "Attribute" /\ x.base.op # "Name"}}
  \/ NodeOf(h[1]).type = "null_number"

\* After every statement the index finds each node, so no two have an id in
\* common, and every input is an output of a node of the graph.
GraphWellFormed ==
  ~context.thrown /\ ~IdsMayCollide =>
    LET g == context.algorithms
    IN  /\ \A i \in DOMAIN g : g[i].id \in DOMAIN context.node_lookup /\ NodeOf(g[i].id) = g[i]
        /\ Cardinality(DOMAIN context.node_lookup) = Len(g)
        /\ \A i \in DOMAIN g : \A h \in Edges(g[i]) :
             /\ h[1] \in DOMAIN context.node_lookup
             /\ h[2] \in Ports(Component[NodeOf(h[1]).type].outputs) \/ Unchecked(h)

\* The operators wired without a check: selections, negations.
UncheckedOperator(node) ==
  \/ node.id[1] = "ifexp"
  \/ node.type = "logical_not"
  \/ node.type = "mul" /\ NodeOf(node.inputs["SLOT0"][1][1]).options = [value |-> <<"number", -1>>]

\* What the runtime will produce there, by the registry.
ProducedType(h) ==
  LET outputs == Component[NodeOf(h[1]).type].outputs
  IN  IF h[2] \in Ports(outputs) THEN PortType(outputs, h[2]) ELSE "Any"

\* A value whose type an input does not take goes through a cast: the types the
\* checker tracked are those the components really have.
TypesFit ==
  Accepted =>
    \A i \in DOMAIN context.algorithms :
      LET node == context.algorithms[i]
          inputs == Component[node.type].inputs
      IN  UncheckedOperator(node) \/
          \A p \in DOMAIN node.inputs : \A h \in ToSet(node.inputs[p]) :
            IsTypeCompatible(ProducedType(h), PortType(inputs, p))

\* Variables are immutable and assigned before they are read, also in the parts of
\* an expression that are compiled last.  ("_" may be assigned again, a slice may
\* name a later constant, a generated id may be read as a variable.)
AcceptedIsScoped ==
  outcome = "compiled" =>
    \A i \in DOMAIN script :
      LET earlier == UNION {ToSet(script[j].targets) : j \in 1..(i - 1)}
      IN  /\ \A n \in Reads(script[i].value) : n \in earlier \/ LooksGenerated(n)
          /\ \A n \in ToSet(script[i].targets) : n \notin earlier \/ n = <<"_">>

\* A report selects and shows columns it has been wired to.
ColumnsAreInputs ==
  Accepted =>
    \A i \in DOMAIN context.algorithms :
      LET node == context.algorithms[i]
      IN  \A key \in DOMAIN node.options :
            LET v == node.options[key]
                refs == IF IsSchema(v) THEN SchemaKeys(v) ELSE {v}
            IN  \A ref \in refs : ref[1] = "column" => ref[2] \in Edges(node)

=============================================================================
