------------------------------- MODULE FrontEnd ------------------------------
(***************************************************************************)
(* The front end of the compiler: the constant folder's table, then the    *)
(* AST visitor and the node builder, one statement per step, with the      *)
(* expression compiler, the constructor parser, the type checker and the   *)
(* option validator they call.  It turns a script into the list of nodes   *)
(* that GraphPasses starts from.                                           *)
(*                                                                         *)
(* A string is a tuple: a name the script uses is <<"x">>, a generated id  *)
(* <<"add", 0>> stands for "add_0".  A value is a tuple that begins with   *)
(* its kind.  An exception ends the compilation, so what an operator       *)
(* computes in a context that has thrown does not matter.                  *)
(*                                                                         *)
(* Expressions are records; "op" tells them apart:                         *)
(*   Constant value; Name id; Attribute base attr; BinOp type left right;  *)
(*   Compare type left right; BoolOp type values; UnaryOp type operand;    *)
(*   IfExp test body orelse; Subscript base slice; Schema value;           *)
(*   Call ctor keywords args feeds, a chain of calls whose first has       *)
(*   keywords and args, and whose others are feeds with args and kwargs.   *)
(***************************************************************************)
EXTENDS Integers, Sequences, FiniteSets, SequencesExt, FiniteSetsExt

CONSTANTS
  Component,  \* the registry: the metadata of each component, by its name
  Scripts     \* the modules the parser may hand over

VARIABLES
  script,     \* the module's statements
  constants,  \* ConstantFolder::constant_table_
  backward,   \* which way an unordered_map iterates two keyword arguments
  context,    \* CompilationContext
  position,   \* the statement VisitModule looks at
  outcome     \* what compileAST is doing, or how it ended

vars == <<script, constants, backward, context, position, outcome>>

Empty == [x \in {} |-> x]
NotGiven == <<>>  \* an empty std::optional

Components == DOMAIN Component

EmptyContext ==
  [algorithms |-> <<>>, node_lookup |-> Empty, var_to_binding |-> Empty,
   used_node_ids |-> {}, node_output_types |-> Empty, executor_count |-> 0,
   thrown |-> FALSE]

ThrowUnless(c, ok) == [c EXCEPT !.thrown = @ \/ ~ok]

\* An expression's compilation: the context after it and its ValueHandle.
Compiled(c, h) == [context |-> c, handle |-> h]

\* What a variable is bound to: a component, whose node has the variable's
\* name, or one output of a node.
ToComponent(ctor) == <<"component", ctor>>
ToHandle(h) == <<"handle", h>>
Bind(c, name, what) == [c EXCEPT !.var_to_binding = (name :> what) @@ @]

Node(id, type, options, inputs) ==
  [id |-> id, type |-> type, options |-> options, inputs |-> inputs,
   timeframe |-> NotGiven, session |-> NotGiven]

AddNode(c, node) ==
  [c EXCEPT !.algorithms = Append(@, node),
            !.node_lookup = (node.id :> Len(c.algorithms) + 1) @@ @]

Pushed(inputs, name, h) ==
  [n \in DOMAIN inputs \cup {name} |->
     IF n \notin DOMAIN inputs THEN <<h>>
     ELSE IF n = name THEN Append(inputs[n], h) ELSE inputs[n]]

AddInput(c, i, name, h) == [c EXCEPT !.algorithms[i].inputs = Pushed(@, name, h)]

Track(c, id, type) == [c EXCEPT !.node_output_types = (<<id, "result">> :> type) @@ @]

UniqueNodeId(c, base) ==
  <<base, Min({k \in 0..Cardinality(c.used_node_ids) : <<base, k>> \notin c.used_node_ids})>>

Use(c, id) == [c EXCEPT !.used_node_ids = @ \cup {id}]

\* A node the compiler makes up, binds to its own id, and tracks: literals,
\* casts and lags.
AddSynthetic(c, base, type, options, inputs, dataType) ==
  LET id == UniqueNodeId(c, base)
      added == AddNode(Use(c, id), Node(id, type, options, inputs))
  IN  Compiled(Track(Bind(added, id, ToComponent(type)), id, dataType), <<id, "result">>)

-----------------------------------------------------------------------------
(* TypeChecker. *)

DataTypes == {"Boolean", "Integer", "Decimal", "Number", "String", "Any"}
Numeric == {"Integer", "Decimal", "Number"}

BooleanOperators ==
  {"lt", "gt", "lte", "gte", "eq", "neq", "logical_and", "logical_or", "logical_not"}
DecimalOperators == {"add", "sub", "mul", "div"}

\* Timestamps have no name in the mapping from the metadata.
DataType(type) == IF type \in DataTypes THEN type ELSE "Any"

Ports(list) == {list[i][1] : i \in DOMAIN list}
PortType(list, port) ==
  DataType(list[CHOOSE i \in DOMAIN list : list[i][1] = port][2])

TypeByComponent(type) ==
  CASE type \in BooleanOperators \cup {"bool_true", "bool_false"} -> "Boolean"
    [] type \in DecimalOperators \cup {"number"} -> "Decimal"
    [] type = "text" -> "String"
    [] OTHER -> "Any"

GetNodeOutputType(c, h) ==
  IF h \in DOMAIN c.node_output_types THEN c.node_output_types[h]
  ELSE IF h[1] \notin DOMAIN c.node_lookup THEN "Any"
  ELSE LET type == c.algorithms[c.node_lookup[h[1]]].type
       IN  IF type \in Components /\ h[2] \in Ports(Component[type].outputs)
           THEN PortType(Component[type].outputs, h[2])
           ELSE TypeByComponent(type)

IsTypeCompatible(source, target) ==
  \/ "Any" \in {source, target}
  \/ source = target
  \/ {source, target} \subseteq Numeric

NeedsTypeCast(source, target) ==
  CASE IsTypeCompatible(source, target) -> "none"
    [] source = "Boolean" /\ target \in Numeric -> "bool_to_num"
    [] source \in Numeric /\ target = "Boolean" -> "num_to_bool"
    [] source = "Boolean" /\ target = "String" -> "bool_to_string"
    [] OTHER -> "incompatible"

StaticCast(target) ==
  CASE target = "Integer" -> "static_cast_to_integer"
    [] target = "Boolean" -> "static_cast_to_boolean"
    [] OTHER -> "static_cast_to_decimal"

InsertTypeCast(c, h, source, target) ==
  IF NeedsTypeCast(source, target) = "bool_to_string"
  THEN AddSynthetic(c, "stringify", "stringify", Empty, [SLOT |-> <<h>>], "String")
  ELSE AddSynthetic(c, "static_cast", StaticCast(target), Empty, [SLOT |-> <<h>>], target)

\* The check every caller makes: as it is, through a cast, or an error.
Coerce(c, h, target) ==
  LET source == GetNodeOutputType(c, h)
  IN  IF IsTypeCompatible(source, target) THEN Compiled(c, h)
      ELSE IF NeedsTypeCast(source, target) = "incompatible" THEN Compiled(ThrowUnless(c, FALSE), h)
      ELSE InsertTypeCast(c, h, source, target)

-----------------------------------------------------------------------------
(* OptionValidator, SpecialParameterHandler, and the values the constructor *)
(* parser takes from the expressions of the keywords.                       *)

ValidSessions ==
  {"Sydney", "Tokyo", "London", "NewYork", "AsianKillZone", "LondonOpenKillZone",
   "NewYorkKillZone", "LondonCloseKillZone"}

\* A string is <<"text", s>>, or <<"slot", n>> if it reads SLOTn.
IsText(v) == v[1] \in {"text", "slot"}
IsEmpty(v) == v = <<"text", <<"">>>>

\* The variant a literal becomes.
OptionValue(v) ==
  CASE v[1] \in {"int", "double"} -> <<"number", v[2]>>
    [] v[1] = "none" -> <<"text", <<"">>>>
    [] OTHER -> v

\* A schema <<kind, select_key, column_ids>>: every key of it must read SLOTn.
SchemaKeys(v) == {v[2]} \cup ToSet(v[3])

OptionFits(v, o) ==
  CASE o.type = "Number" -> v[1] = "number"
    [] o.type = "Boolean" -> v[1] = "bool"
    [] o.type = "String" -> IsText(v)
    [] o.type = "Select" -> IsText(v) /\ (o.choices = {} \/ v[2] \in o.choices)
    [] OTHER -> v[1] = o.type /\ \A key \in SchemaKeys(v) : key[1] = "slot"

Clamped(v, o) ==
  IF v[1] # "number" THEN v
  ELSE <<"number", Max({o.min, Min({o.max, v[2]})})>>

OptionsOf(ctor) == ToSet(Component[ctor].options)
OptionNamed(ctor, key) == CHOOSE o \in OptionsOf(ctor) : o.id = key
OptionIds(ctor) == {o.id : o \in OptionsOf(ctor)}

SpecialParameters == {"timeframe", "session"}

\* The option a variable bound to a literal stands for.  A variable that names
\* no output is a bare identifier.
OptionOfName(c, id) ==
  IF id \notin DOMAIN c.var_to_binding \/ c.var_to_binding[id][1] = "component"
  THEN {<<"text", id>>}
  ELSE LET node == c.var_to_binding[id][2][1]
           algo == c.algorithms[c.node_lookup[node]]
       IN  CASE node \notin DOMAIN c.node_lookup -> {}
             [] algo.type = "number" -> {algo.options["value"]}
             [] algo.type \in {"bool_true", "bool_false"} -> {<<"bool", algo.type = "bool_true">>}
             [] OTHER -> {}

\* ParseLiteralOrPrimitive's raw value, if there is one.
RawOption(c, e) ==
  CASE e.op = "Constant" -> {OptionValue(e.value)}
    [] e.op = "Name" -> OptionOfName(c, e.id)
    [] e.op = "Schema" -> {e.value}
    [] OTHER -> {}

\* The string of a special parameter, if it is one.
SpecialValue(e) ==
  CASE e.op = "Constant" /\ IsText(e.value) -> {e.value}
    [] e.op = "Name" -> {<<"text", e.id>>}
    [] OTHER -> {}

KeywordValue(c, key, e) ==
  IF key \in SpecialParameters THEN SpecialValue(e) ELSE RawOption(c, e)

\* The keywords of the first call of a chain.  A schema is checked later, with
\* the defaults.
KeywordFits(c, ctor, key, e) ==
  /\ key \in SpecialParameters \cup OptionIds(ctor)
  /\ KeywordValue(c, key, e) # {}
  /\ \/ key \in SpecialParameters
     \/ e.op = "Schema"
     \/ \A v \in RawOption(c, e) : OptionFits(v, OptionNamed(ctor, key))

\* Empty special parameters are dropped.
ParamsOf(c, keywords) ==
  LET given == {i \in DOMAIN keywords :
                  LET v == KeywordValue(c, keywords[i][1], keywords[i][2])
                  IN  v # {} /\ ~(keywords[i][1] \in SpecialParameters /\ \E t \in v : IsEmpty(t))}
      At(key) == CHOOSE i \in given : keywords[i][1] = key
  IN  [key \in {keywords[i][1] : i \in given} |->
         CHOOSE v \in KeywordValue(c, key, keywords[At(key)][2]) : TRUE]

\* ValidateAndApplyOptions: the defaults, then every option clamped.
WithDefaults(ctor, params) ==
  [key \in (DOMAIN params \ SpecialParameters) \cup
           {o.id : o \in {d \in OptionsOf(ctor) : d.default # NotGiven}} |->
     LET o == OptionNamed(ctor, key)
     IN  Clamped(IF key \in DOMAIN params THEN params[key] ELSE o.default, o)]

OptionsValid(ctor, params) ==
  /\ \A o \in OptionsOf(ctor) : o.required => o.id \in DOMAIN params \/ o.default # NotGiven
  /\ \A key \in DOMAIN params \ SpecialParameters : OptionFits(params[key], OptionNamed(ctor, key))
  /\ "session" \in DOMAIN params => params["session"][2][1] \in ValidSessions

TimeframeOf(ctor, params) ==
  IF "timeframe" \in DOMAIN params THEN params["timeframe"][2]
  ELSE IF Component[ctor].intradayOnly THEN <<"1Min">> ELSE NotGiven

SessionOf(params) == IF "session" \in DOMAIN params THEN params["session"][2] ELSE NotGiven

\* The node of a constructor call, which the four callers build alike.
ConstructorNode(id, ctor, params) ==
  [Node(id, ctor, WithDefaults(ctor, params), Empty) EXCEPT
     !.timeframe = TimeframeOf(ctor, params),
     !.session = SessionOf(params)]

AddConstructor(c, id, ctor, params) ==
  [ThrowUnless(AddNode(c, ConstructorNode(id, ctor, params)), OptionsValid(ctor, params))
     EXCEPT !.executor_count = @ + (IF ctor = "trade_signal_executor" THEN 1 ELSE 0)]

-----------------------------------------------------------------------------
(* WireInputs. *)

\* find_target_node: the first node with that id.
FindTargetNode(c, id) == Min({i \in DOMAIN c.algorithms : c.algorithms[i].id = id})

\* Mutant: the node added last is taken for the target.
ConnectLast(r, id, port) == AddInput(r.context, Len(r.context.algorithms), port, r.handle)

Connect(r, id, port) == AddInput(r.context, FindTargetNode(r.context, id), port, r.handle)

Wire(c, id, input, h) == Connect(Coerce(c, h, DataType(input[2])), id, input[1])

WireKeyword(c, id, ctor, kwarg) ==
  LET inputs == Component[ctor].inputs
  IN  IF kwarg[1] \notin Ports(inputs) THEN ThrowUnless(c, FALSE)
      ELSE Wire(c, id, inputs[CHOOSE i \in DOMAIN inputs : inputs[i][1] = kwarg[1]], kwarg[2])

\* Mutant: what a variadic component gets beyond its inputs is dropped.
WireExactly(c, id, ctor, args) ==
  LET inputs == Component[ctor].inputs
  IN  FoldLeftDomain(LAMBDA d, i : IF i <= Len(inputs) THEN Wire(d, id, inputs[i], args[i]) ELSE d,
                     ThrowUnless(c, Len(args) <= Len(inputs) \/ Component[ctor].variadic), args)

\* A variadic component takes all further arguments at its last input.
WireArguments(c, id, ctor, args) ==
  LET inputs == Component[ctor].inputs
  IN  FoldLeftDomain(LAMBDA d, i : Wire(d, id, inputs[Min({i, Len(inputs)})], args[i]),
                     ThrowUnless(c, Len(args) <= Len(inputs) \/ Component[ctor].variadic), args)

\* A component without inputs ignores its arguments.  The keyword arguments are
\* an unordered_map's: their order need not be the script's.
WireInputs(c, id, ctor, feed) ==
  LET kwargs == IF backward THEN Reverse(feed.kwargs) ELSE feed.kwargs
      named == FoldLeft(LAMBDA d, kwarg : WireKeyword(d, id, ctor, kwarg), c, kwargs)
  IN  IF feed.args = <<>> \/ Component[ctor].inputs = <<>> THEN named
      ELSE WireArguments(named, id, ctor, feed.args)

BooleanSelects ==
  {"boolean_select_string", "boolean_select_number", "boolean_select_boolean",
   "boolean_select_timestamp"}

\* BooleanSelectValidator::ValidateInputs.
ValidInputs(c, ctor, feed) ==
  \/ ctor \notin BooleanSelects
  \/ feed.args # <<>> /\ Component[ctor].inputs = <<>>
  \/ /\ Len(feed.args) = 3
     /\ IsTypeCompatible(GetNodeOutputType(c, feed.args[2]), GetNodeOutputType(c, feed.args[3]))

\* ResolveSlotReferencesInOptions: SLOTn becomes the nth argument's column.
IsSlot(ref) == ref[1] = "slot"

Column(ref, args) ==
  IF IsSlot(ref) /\ ref[2] + 1 \in DOMAIN args THEN <<"column", args[ref[2] + 1]>> ELSE ref

IsSchema(v) == v[1] \in {"EventMarkerSchema", "TableReportSchema"}

Resolved(v, args) ==
  IF IsSchema(v)
  THEN <<v[1], Column(v[2], args), [i \in DOMAIN v[3] |-> Column(v[3][i], args)]>>
  ELSE Column(v, args)

\* No SLOT is out of range, and an event marker selects by a SLOT.
SlotsValid(v, args) ==
  LET refs == IF IsSchema(v) THEN SchemaKeys(v) ELSE {v}
  IN  /\ \A ref \in refs : IsSlot(ref) => ref[2] < Len(args)
      /\ v[1] = "EventMarkerSchema" => IsSlot(v[2])

ResolveSlots(c, id, args) ==
  LET i == c.node_lookup[id]
      options == c.algorithms[i].options
  IN  [ThrowUnless(c, \A key \in DOMAIN options : SlotsValid(options[key], args))
         EXCEPT !.algorithms[i].options = [key \in DOMAIN options |-> Resolved(options[key], args)]]

\* The feeds of a constructor that a statement assigns or calls.
Validate(wired, ctor, feed) == ThrowUnless(wired, ValidInputs(wired, ctor, feed))

FeedNode(c, id, ctor, feeds) ==
  FoldLeft(LAMBDA d, feed :
             ResolveSlots(Validate(WireInputs(d, id, ctor, feed), ctor, feed), id, feed.args),
           c, feeds)

-----------------------------------------------------------------------------
(* ConstantFolder: what a slice is worth, if it is a constant expression.  *)

\* ToNumeric: a Boolean counts as 0 or 1, a string not at all.
ToNumeric(v) ==
  CASE v[1] = "bool" -> {<<"int", IF v[2] THEN 1 ELSE 0>>}
    [] v[1] \in {"int", "double"} -> {v}
    [] OTHER -> {}

ToBool(v) ==
  CASE v[1] = "bool" -> {v[2]}
    [] v[1] \in {"int", "double"} -> {v[2] # 0}
    [] v[1] = "text" -> {v[2] # <<"">>}
    [] v[1] = "slot" -> {TRUE}
    [] OTHER -> {}

EvaluateUnaryOp(type, v) ==
  IF type = "not" THEN {<<"bool", ~b>> : b \in ToBool(v)}
  ELSE {<<n[1], IF type = "-" THEN -n[2] ELSE n[2]>> : n \in ToNumeric(v)}

\* The remainder of the division that rounds to zero.
Remainder(a, b) ==
  LET divisor == IF b < 0 THEN -b ELSE b
  IN  IF a < 0 THEN -((-a) % divisor) ELSE a % divisor

\* Only +, - and * of two integers, and %, stay integers.  The digits of a double
\* are left out: no slice may be one.
Arithmetic(type, a, b) ==
  CASE type \in {"div", "power_op"} -> 0
    [] type = "add" -> a + b
    [] type = "sub" -> a - b
    [] type = "mul" -> a * b
    [] type = "modulo" -> Remainder(a, b)

EvaluateBinOp(type, v, w) ==
  {<<IF {m[1], n[1]} = {"int"} /\ type \notin {"div", "power_op"} THEN "int" ELSE "double",
     Arithmetic(type, m[2], n[2])>> :
     <<m, n>> \in {<<m, n>> \in ToNumeric(v) \X ToNumeric(w) :
                     type \in {"div", "modulo"} => n[2] # 0}}

RECURSIVE EvaluateConstant(_, _)
EvaluateConstant(table, e) ==
  CASE e.op = "Constant" -> {e.value}
    [] e.op = "Name" -> IF e.id \in DOMAIN table THEN {table[e.id]} ELSE {}
    [] e.op = "UnaryOp" ->
         UNION {EvaluateUnaryOp(e.type, v) : v \in EvaluateConstant(table, e.operand)}
    [] e.op = "BinOp" ->
         UNION {EvaluateBinOp(e.type, v, w) :
                  v \in EvaluateConstant(table, e.left), w \in EvaluateConstant(table, e.right)}
    [] OTHER -> {}

\* IdentifyConstants: the names assigned a constant expression, of all the module.
ConstantsOf(body) ==
  FoldLeft(LAMBDA table, stmt :
             LET value == EvaluateConstant(table, stmt.value)
             IN  IF stmt.shape # "name" \/ value = {} THEN table
                 ELSE (stmt.targets[1] :> CHOOSE v \in value : TRUE) @@ table,
           Empty, body)

-----------------------------------------------------------------------------
(* ExpressionCompiler. *)

NoHandle == <<NotGiven, "">>
Failed(c) == Compiled(ThrowUnless(c, FALSE), NoHandle)

RECURSIVE Visit(_, _)

Gather(r, v) == [context |-> v.context, handles |-> Append(r.handles, v.handle)]

VisitAll(c, es) ==
  FoldLeft(LAMBDA r, e : Gather(r, Visit(r.context, e)), [context |-> c, handles |-> <<>>], es)

\* The literals: a base for the id, a component, its options, its data type.
Literal(v) ==
  CASE v[1] \in {"int", "double"} ->
         [base |-> "number", type |-> "number", options |-> [value |-> OptionValue(v)],
          dataType |-> "Decimal"]
    [] v[1] = "bool" ->
         LET type == IF v[2] THEN "bool_true" ELSE "bool_false"
         IN  [base |-> type, type |-> type, options |-> Empty, dataType |-> "Boolean"]
    [] v[1] = "none" ->
         [base |-> "null", type |-> "null_number", options |-> Empty, dataType |-> "Number"]
    [] OTHER -> [base |-> "text", type |-> "text", options |-> [value |-> v], dataType |-> "String"]

VisitConstant(c, v) ==
  LET l == Literal(v) IN AddSynthetic(c, l.base, l.type, l.options, Empty, l.dataType)

\* A node named like the variable must have one output.
VisitName(c, id) ==
  CASE id \in {<<"true">>, <<"false">>} -> VisitConstant(c, <<"bool", id = <<"true">>>>)
    [] id \notin DOMAIN c.var_to_binding -> Failed(c)
    [] c.var_to_binding[id][1] = "handle" -> Compiled(c, c.var_to_binding[id][2])
    [] OTHER ->
         LET outputs == Component[c.var_to_binding[id][2]].outputs
         IN  IF Len(outputs) # 1 THEN Failed(c) ELSE Compiled(c, <<id, outputs[1][1]>>)

\* ResolveHandle: an output, or an input, of the node with that name.
ResolveHandle(c, id, handle) ==
  LET type == IF id \in DOMAIN c.var_to_binding THEN c.var_to_binding[id]
              ELSE IF id \in DOMAIN c.node_lookup
              THEN ToComponent(c.algorithms[c.node_lookup[id]].type)
              ELSE <<"unknown">>
  IN  IF /\ type[1] = "component"
         /\ type[2] \in Components
         /\ handle \in Ports(Component[type[2]].outputs) \cup Ports(Component[type[2]].inputs)
      THEN Compiled(c, <<id, handle>>)
      ELSE Failed(c)

\* The attribute of an expression is taken as it is.
VisitAttribute(c, e) ==
  IF e.base.op = "Name" THEN ResolveHandle(c, e.base.id, e.attr)
  ELSE LET v == Visit(c, e.base) IN Compiled(v.context, <<v.handle[1], e.attr>>)

\* The operands of an operator of two inputs, coerced to what it takes.
CoerceBoth(operands, type) ==
  FoldLeftDomain(LAMBDA r, i : Gather(r, Coerce(r.context, operands.handles[i],
                                                DataType(Component[type].inputs[i][2]))),
                 [context |-> operands.context, handles |-> <<>>], operands.handles)

BinaryInputs(type, h) ==
  (Component[type].inputs[1][1] :> <<h[1]>>) @@ (Component[type].inputs[2][1] :> <<h[2]>>)

TrackOperator(c, id, type) ==
  CASE type \in BooleanOperators -> Track(c, id, "Boolean")
    [] type \in DecimalOperators -> Track(c, id, "Decimal")
    [] OTHER -> c

FirstOutput(type) == Component[type].outputs[1][1]

\* Mutant: the node is looked for where the operands have pushed theirs.
WireAtTheEnd(place, id, type, both) ==
  LET last == Len(both.context.algorithms)
      wired == [both.context EXCEPT !.algorithms[last].inputs = BinaryInputs(type, both.handles),
                                    !.node_lookup = (id :> last) @@ @]
  IN  Compiled(TrackOperator(wired, id, type), <<id, FirstOutput(type)>>)

WireAt(place, id, type, both) ==
  LET wired == [both.context EXCEPT !.algorithms[place].inputs = BinaryInputs(type, both.handles),
                                    !.node_lookup = (id :> place) @@ @]
  IN  Compiled(TrackOperator(wired, id, type), <<id, FirstOutput(type)>>)

\* A placeholder takes the node's place before its operands are compiled; the
\* index knows the node only when they are wired.
VisitBinOp(c, e) ==
  LET id == UniqueNodeId(c, e.type)
      placed == [Use(c, id) EXCEPT !.algorithms = Append(@, Node(id, e.type, Empty, Empty))]
      operands == VisitAll(placed, <<e.left, e.right>>)
  IN  WireAt(Len(placed.algorithms), id, e.type, CoerceBoth(operands, e.type))

\* A comparison takes its id after the operands, and its place after the casts.
AddComparison(both, id, type) ==
  LET added == AddNode(both.context, Node(id, type, Empty, BinaryInputs(type, both.handles)))
  IN  Compiled(Track(added, id, "Boolean"), <<id, FirstOutput(type)>>)

Comparison(operands, type) ==
  LET id == UniqueNodeId(operands.context, type)
  IN  AddComparison(CoerceBoth([operands EXCEPT !.context = Use(@, id)], type), id, type)

VisitCompare(c, e) == Comparison(VisitAll(c, <<e.left, e.right>>), e.type)

\* An operand's operator is wired without a check of its type.
AddUnchecked(c, type, inputs, handle) ==
  LET id == UniqueNodeId(c, type)
  IN  Compiled(TrackOperator(AddNode(Use(c, id), Node(id, type, Empty, inputs)), id, type),
               <<id, handle>>)

\* Minus is a product with -1.
VisitUnaryOp(c, e) ==
  CASE e.type = "+" -> Visit(c, e.operand)
    [] e.type = "-" ->
         LET minus == VisitConstant(c, <<"int", -1>>)
             operand == Visit(minus.context, e.operand)
         IN  AddUnchecked(operand.context, "mul",
                          [SLOT0 |-> <<minus.handle>>, SLOT1 |-> <<operand.handle>>], "result")
    [] e.type = "not" ->
         LET operand == Visit(c, e.operand)
         IN  AddUnchecked(operand.context, "logical_not", [SLOT |-> <<operand.handle>>],
                          FirstOutput("logical_not"))
    [] OTHER -> Failed(c)

\* Each operand is made a Boolean before the next is compiled.
ToBoolean(v) == Coerce(v.context, v.handle, "Boolean")

VisitConditions(c, es) ==
  FoldLeft(LAMBDA r, e : Gather(r, ToBoolean(Visit(r.context, e))),
           [context |-> c, handles |-> <<>>], es)

\* a and b and c is logical_and_0(a, logical_and_1(b, c)): the nodes are pushed
\* outermost first.
Nest(conditions, type) ==
  LET h == conditions.handles
      n == Len(h)
      ids == FoldLeft(LAMBDA d, x : Use(d, UniqueNodeId(d, type)), conditions.context, Tail(h))
      new == SetToSortSeq(ids.used_node_ids \ conditions.context.used_node_ids,
                          LAMBDA a, b : a[2] < b[2])
      Second(i) == IF i = n - 1 THEN h[n] ELSE <<new[i + 1], "result">>
      Add(d, i) == Track(AddNode(d, Node(new[i], type, Empty,
                                         [SLOT0 |-> <<h[i]>>, SLOT1 |-> <<Second(i)>>])),
                         new[i], "Boolean")
  IN  Compiled(FoldLeftDomain(Add, ids, new), <<new[1], "result">>)

VisitBoolOp(c, e) ==
  IF Len(e.values) < 2 THEN Failed(c) ELSE Nest(VisitConditions(c, e.values), e.type)

DetermineBooleanSelectVariant(types) ==
  CASE "String" \in types -> "boolean_select_string"
    [] types = {"Boolean"} -> "boolean_select_boolean"
    [] OTHER -> "boolean_select_number"

\* The selection is wired without a check of its types.
SelectOf(v) ==
  LET type == DetermineBooleanSelectVariant({GetNodeOutputType(v.context, v.handles[i]) : i \in 2..3})
      id == UniqueNodeId(v.context, "ifexp")
      inputs == [condition |-> <<v.handles[1]>>, true |-> <<v.handles[2]>>,
                 false |-> <<v.handles[3]>>]
  IN  Compiled(AddNode(Use(v.context, id), Node(id, type, Empty, inputs)), <<id, FirstOutput(type)>>)

VisitIfExp(c, e) == SelectOf(VisitAll(c, <<e.test, e.body, e.orelse>>))

DetermineLagVariant(type) ==
  CASE type = "String" -> "lag_string"
    [] type = "Boolean" -> "lag_boolean"
    [] OTHER -> "lag_number"

\* Mutant: a lag is taken for a number.
LagAsNumber(v, period) ==
  AddSynthetic(v.context, "lag", DetermineLagVariant(GetNodeOutputType(v.context, v.handle)),
               [period |-> OptionValue(period)], [SLOT |-> <<v.handle>>], "Decimal")

LagOf(v, period) ==
  LET type == GetNodeOutputType(v.context, v.handle)
  IN  AddSynthetic(v.context, "lag", DetermineLagVariant(type), [period |-> OptionValue(period)],
                   [SLOT |-> <<v.handle>>], type)

\* The slice must be worth an integer other than zero.
VisitSubscript(c, e) ==
  LET periods == {p \in EvaluateConstant(constants, e.slice) : p[1] = "int" /\ p[2] # 0}
  IN  IF periods = {} THEN Failed(c)
      ELSE LagOf(Visit(c, e.base), CHOOSE p \in periods : TRUE)

\* ParseConstructorAndFeeds.  Arguments of the first call are a feed if the
\* component has no options and no other call follows.
SplitFeed(v, feed) ==
  LET n == Len(feed.args)
  IN  [context |-> v.context,
       feed |-> [args |-> SubSeq(v.handles, 1, n),
                 kwargs |-> [i \in DOMAIN feed.kwargs |-> <<feed.kwargs[i][1], v.handles[n + i]>>]]]

ParseFeed(c, feed) ==
  SplitFeed(VisitAll(c, feed.args \o [i \in DOMAIN feed.kwargs |-> feed.kwargs[i][2]]), feed)

AddFeed(r, f) == [context |-> f.context, feeds |-> Append(r.feeds, f.feed)]

ParseFeeds(c, feeds) ==
  FoldLeft(LAMBDA r, feed : AddFeed(r, ParseFeed(r.context, feed)), [context |-> c, feeds |-> <<>>], feeds)

FeedsOf(e) ==
  IF e.args = <<>> THEN e.feeds ELSE <<[args |-> e.args, kwargs |-> <<>>]>>

Parses(c, e) ==
  /\ e.ctor \in Components
  /\ \A i \in DOMAIN e.keywords : KeywordFits(c, e.ctor, e.keywords[i][1], e.keywords[i][2])
  /\ e.args # <<>> => Component[e.ctor].options = <<>> /\ e.feeds = <<>>

WithParams(r, params) == [context |-> r.context, feeds |-> r.feeds, params |-> params]

ParseConstructorAndFeeds(c, e) ==
  IF Parses(c, e) THEN WithParams(ParseFeeds(c, FeedsOf(e)), ParamsOf(c, e.keywords))
  ELSE [context |-> ThrowUnless(c, FALSE), feeds |-> <<>>, params |-> Empty]

\* A call inside an expression: one output, no validator, no SLOT resolved.
InlineNode(p, ctor) ==
  LET id == UniqueNodeId(p.context, ctor)
      added == Bind(AddConstructor(Use(p.context, id), id, ctor, p.params), id, ToComponent(ctor))
  IN  IF p.context.thrown \/ Len(Component[ctor].outputs) # 1 THEN Failed(p.context)
      ELSE Compiled(FoldLeft(LAMBDA d, feed : WireInputs(d, id, ctor, feed), added, p.feeds),
                    <<id, FirstOutput(ctor)>>)

VisitCall(c, e) == InlineNode(ParseConstructorAndFeeds(c, e), e.ctor)

Visit(c, e) ==
  CASE e.op = "Call" -> VisitCall(c, e)
    [] e.op = "Attribute" -> VisitAttribute(c, e)
    [] e.op = "Name" -> VisitName(c, e.id)
    [] e.op = "Constant" -> VisitConstant(c, e.value)
    [] e.op = "BinOp" -> VisitBinOp(c, e)
    [] e.op = "UnaryOp" -> VisitUnaryOp(c, e)
    [] e.op = "Compare" -> VisitCompare(c, e)
    [] e.op = "BoolOp" -> VisitBoolOp(c, e)
    [] e.op = "IfExp" -> VisitIfExp(c, e)
    [] e.op = "Subscript" -> VisitSubscript(c, e)
    [] OTHER -> Failed(c)

-----------------------------------------------------------------------------
(* AstVisitor and NodeBuilder: a statement per step.  A statement has the  *)
(* shape of its target: a name, a tuple of names, none for an expression   *)
(* statement, other for what no handler takes.                             *)

Init ==
  /\ script \in Scripts
  /\ constants = Empty
  /\ backward \in BOOLEAN
  /\ context = EmptyContext
  /\ position = 1
  /\ outcome = "folding"

\* PreprocessModule.  The slices that are constant are evaluated where they are
\* compiled, with the table of the whole module.
PreprocessModule ==
  /\ outcome = "folding"
  /\ constants' = ConstantsOf(script)
  /\ outcome' = "visiting"
  /\ UNCHANGED <<script, backward, context, position>>

Stmt == script[position]

Visiting(shape) ==
  /\ outcome = "visiting"
  /\ position <= Len(script)
  /\ Stmt.shape = shape

IsConstructorCall(e) == e.op = "Call"

\* An exception ends the compilation.
Visited(c) ==
  /\ context' = c
  /\ position' = position + 1
  /\ outcome' = IF c.thrown THEN "rejected" ELSE "visiting"
  /\ UNCHANGED <<script, constants, backward>>

\* Mutant: a name may be bound again.
Rebindable(c, name) == name \in DOMAIN c.var_to_binding \cup {name}

\* "_" may always be bound again.
Bindable(c, name) == name = <<"_">> \/ name \notin DOMAIN c.var_to_binding

\* The node has the variable's name.
NodeForName(p, ctor, id) ==
  LET free == ThrowUnless(p.context, Bindable(p.context, id))
      added == Bind(AddConstructor(free, id, ctor, p.params), id, ToComponent(ctor))
  IN  IF free.thrown THEN free ELSE FeedNode(added, id, ctor, p.feeds)

ConstructorToName ==
  /\ Visiting("name")
  /\ IsConstructorCall(Stmt.value)
  /\ Visited(NodeForName(ParseConstructorAndFeeds(context, Stmt.value), Stmt.value.ctor, Stmt.targets[1]))

BindOutputs(c, names, id, outputs) ==
  FoldLeftDomain(LAMBDA d, i : IF names[i] = <<"_">> THEN d
                               ELSE Bind(d, names[i], ToHandle(<<id, outputs[i][1]>>)),
                 c, names)

NodeForTuple(p, ctor, names) ==
  LET free == ThrowUnless(p.context, \A n \in ToSet(names) : Bindable(p.context, n))
      id == UniqueNodeId(free, "node")
      added == Bind(AddConstructor(Use(free, id), id, ctor, p.params), id, ToComponent(ctor))
      outputs == Component[ctor].outputs
  IN  IF free.thrown \/ Len(outputs) # Len(names) THEN ThrowUnless(free, FALSE)
      ELSE BindOutputs(FeedNode(added, id, ctor, p.feeds), names, id, outputs)

ConstructorToTuple ==
  /\ Visiting("tuple")
  /\ IsConstructorCall(Stmt.value)
  /\ Visited(NodeForTuple(ParseConstructorAndFeeds(context, Stmt.value), Stmt.value.ctor, Stmt.targets))

BindValue(v, name) == Bind(v.context, name, ToHandle(v.handle))

ValueToName ==
  /\ Visiting("name")
  /\ ~IsConstructorCall(Stmt.value)
  /\ LET free == ThrowUnless(context, Bindable(context, Stmt.targets[1]))
     IN  Visited(BindValue(Visit(free, Stmt.value), Stmt.targets[1]))

\* HandleSinkNode: only a component without outputs may be called as a statement.
NodeForSink(p, ctor) ==
  LET id == UniqueNodeId(p.context, "node")
      added == AddConstructor(Use(p.context, id), id, ctor, p.params)
  IN  IF p.context.thrown \/ Component[ctor].outputs # <<>> THEN ThrowUnless(p.context, FALSE)
      ELSE FeedNode(added, id, ctor, p.feeds)

SinkNode ==
  /\ Visiting("none")
  /\ IsConstructorCall(Stmt.value)
  /\ Visited(NodeForSink(ParseConstructorAndFeeds(context, Stmt.value), Stmt.value.ctor))

Unsupported ==
  /\ \/ Visiting("other")
     \/ \E shape \in {"tuple", "none"} : Visiting(shape) /\ ~IsConstructorCall(Stmt.value)
  /\ Visited(ThrowUnless(context, FALSE))

\* VisitModule returns.
Finish ==
  /\ outcome = "visiting"
  /\ position > Len(script)
  /\ outcome' = "compiled"
  /\ UNCHANGED <<script, constants, backward, context, position>>

Next ==
  \/ PreprocessModule
  \/ ConstructorToName
  \/ ConstructorToTuple
  \/ ValueToName
  \/ SinkNode
  \/ Unsupported
  \/ Finish

Spec == Init /\ [][Next]_vars

=============================================================================
