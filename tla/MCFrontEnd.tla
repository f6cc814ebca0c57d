------------------------------ MODULE MCFrontEnd ------------------------------
(***************************************************************************)
(* A registry of twenty-odd components with the ports and options of the   *)
(* real ones, and scripts for TLC: every short expression over a source, a *)
(* signal, a variable and literals, in every place a script may have one,  *)
(* and scripts that are written wrong.                                     *)
(***************************************************************************)
EXTENDS FrontEndMeaning

\* Components.

Meta(inputs, outputs, options, variadic) ==
  [inputs |-> inputs, outputs |-> outputs, options |-> options, variadic |-> variadic,
   intradayOnly |-> FALSE]

Option(id, type, required, default) ==
  [id |-> id, type |-> type, required |-> required, default |-> default,
   min |-> 1, max |-> 10, choices |-> {}]

Unary(in, out, options) == Meta(<<<<"SLOT", in>>>>, <<<<"result", out>>>>, options, FALSE)
Binary(in, out) == Meta(<<<<"SLOT0", in>>, <<"SLOT1", in>>>>, <<<<"result", out>>>>, <<>>, FALSE)
Source(out) == Meta(<<>>, <<<<"result", out>>>>, <<>>, FALSE)
Select(type) ==
  Meta(<<<<"condition", "Boolean">>, <<"true", type>>, <<"false", type>>>>, <<<<"value", type>>>>,
       <<>>, FALSE)
Lag(type) == Unary(type, type, <<Option("period", "Number", TRUE, <<"number", 1>>)>>)

Value == [Option("value", "Number", TRUE, NotGiven) EXCEPT !.min = -5, !.max = 20]

MCComponent ==
  [market_data_source |-> Meta(<<>>, <<<<"c", "Decimal">>, <<"v", "Decimal">>>>, <<>>, FALSE),
   number |-> Meta(<<>>, <<<<"result", "Decimal">>>>, <<Value>>, FALSE),
   text |-> Meta(<<>>, <<<<"result", "String">>>>, <<Option("value", "String", TRUE, NotGiven)>>, FALSE),
   bool_true |-> Source("Boolean"),
   bool_false |-> Source("Boolean"),
   null_number |-> Meta(<<>>, <<<<"value", "Number">>>>, <<>>, FALSE),
   add |-> Binary("Decimal", "Decimal"),
   mul |-> Binary("Decimal", "Decimal"),
   modulo |-> Binary("Decimal", "Decimal"),
   gt |-> Binary("Number", "Boolean"),
   eq |-> Binary("Any", "Boolean"),
   logical_and |-> Binary("Boolean", "Boolean"),
   logical_or |-> Binary("Boolean", "Boolean"),
   logical_not |-> Unary("Boolean", "Boolean", <<>>),
   lag_number |-> Lag("Number"),
   lag_string |-> Lag("String"),
   lag_boolean |-> Lag("Boolean"),
   boolean_select_number |-> Select("Number"),
   boolean_select_string |-> Select("String"),
   boolean_select_boolean |-> Select("Boolean"),
   static_cast_to_decimal |-> Unary("Any", "Number", <<>>),
   static_cast_to_boolean |-> Unary("Any", "Boolean", <<>>),
   stringify |-> Unary("Any", "String", <<>>),
   ema |-> Unary("Number", "Decimal", <<Option("period", "Number", TRUE, NotGiven)>>),
   bbands |-> Meta(<<<<"SLOT", "Number">>>>,
                   <<<<"bbands_lower", "Decimal">>, <<"bbands_middle", "Decimal">>>>,
                   <<Option("period", "Number", TRUE, NotGiven),
                     Option("stddev", "Number", FALSE, <<"number", 2>>)>>, FALSE),
   session_time_window |->
     [Meta(<<>>, <<<<"value", "Boolean">>>>,
           <<[Option("boundary_type", "Select", FALSE, <<"text", <<"start">>>>)
                EXCEPT !.choices = {<<"start">>, <<"end">>}]>>, FALSE)
        EXCEPT !.intradayOnly = TRUE],
   trade_signal_executor |->
     Meta(<<<<"enter_long", "Boolean">>, <<"enter_short", "Boolean">>>>, <<>>, <<>>, FALSE),
   table_report |->
     Meta(<<<<"SLOT", "Any">>>>, <<>>, <<Option("schema", "TableReportSchema", TRUE, NotGiven)>>, TRUE),
   event_marker |->
     Meta(<<<<"SLOT", "Any">>>>, <<>>, <<Option("schema", "EventMarkerSchema", TRUE, NotGiven)>>, TRUE)]

\* Expressions.

Num(n) == [op |-> "Constant", value |-> <<"int", n>>]
Double(n) == [op |-> "Constant", value |-> <<"double", n>>]
Text(s) == [op |-> "Constant", value |-> <<"text", <<s>>>>]
NoneLiteral == [op |-> "Constant", value |-> <<"none">>]
Var(x) == [op |-> "Name", id |-> <<x>>]
Dot(e, attr) == [op |-> "Attribute", base |-> e, attr |-> attr]
Bin(type, l, r) == [op |-> "BinOp", type |-> type, left |-> l, right |-> r]
Cmp(type, l, r) == [op |-> "Compare", type |-> type, left |-> l, right |-> r]
Bool(type, es) == [op |-> "BoolOp", type |-> type, values |-> es]
Un(type, e) == [op |-> "UnaryOp", type |-> type, operand |-> e]
If(t, b, o) == [op |-> "IfExp", test |-> t, body |-> b, orelse |-> o]
At(e, slice) == [op |-> "Subscript", base |-> e, slice |-> slice]
Feed(args) == [args |-> args, kwargs |-> <<>>]
Call(ctor, keywords, feeds) ==
  [op |-> "Call", ctor |-> ctor, keywords |-> keywords, args |-> <<>>, feeds |-> feeds]
Short(ctor, args) == [op |-> "Call", ctor |-> ctor, keywords |-> <<>>, args |-> args, feeds |-> <<>>]
Ema(period, e) == Call("ema", <<<<"period", period>>>>, <<Feed(<<e>>)>>)
Schema(kind, select, columns) ==
  [op |-> "Schema", value |-> <<kind, <<"slot", select>>, [i \in DOMAIN columns |-> <<"slot", columns[i]>>]>>]

\* Statements.

Let(x, e) == [shape |-> "name", targets |-> <<<<x>>>>, value |-> e]
LetAll(xs, e) == [shape |-> "tuple", targets |-> [i \in DOMAIN xs |-> <<xs[i]>>], value |-> e]
Do(e) == [shape |-> "none", targets |-> <<>>, value |-> e]

Prices == Let("src", Call("market_data_source", <<<<"timeframe", Text("1D")>>>>, <<Feed(<<>>)>>))
Close == Dot(Var("src"), "c")

Report(kind, select, columns, args) ==
  Do(Call(IF kind = "EventMarkerSchema" THEN "event_marker" ELSE "table_report",
          <<<<"schema", Schema(kind, select, columns)>>>>, <<Feed(args)>>))
Table(args) == Report("TableReportSchema", 0, <<0>>, args)
Execute(kwargs) == Do(Call("trade_signal_executor", <<>>, <<[args |-> <<>>, kwargs |-> kwargs]>>))

\* Expressions of one operator over the leaves, and of two.

Leaves == {Close, Num(2), Text("a"), Var("true"), Var("x")}

Over(es, fs) ==
  {Bin(type, l, r) : type \in {"add", "modulo"}, l \in es, r \in fs}
  \cup {Cmp(type, l, r) : type \in {"gt", "eq"}, l \in es, r \in fs}
  \cup {Bool("logical_and", <<l, r>>) : l \in es, r \in fs}
  \cup {Un(type, l) : type \in {"-", "not"}, l \in es}
  \cup {If(Var("true"), l, r) : l \in es, r \in fs}
  \cup {At(l, Num(1)) : l \in es}
  \cup {Ema(Num(3), l) : l \in es}
  \cup {Short("gt", <<l, r>>) : l \in es, r \in fs}

Shallow == Over(Leaves, Leaves)

\* One of every operator, to put under another.
Inner ==
  {Bin("add", Close, Num(2)), Cmp("gt", Close, Num(2)), Bool("logical_or", <<Var("x"), Close, Var("true")>>),
   Un("-", Close), Un("+", Close), If(Var("x"), Var("true"), Var("x")), At(Var("x"), Num(2)),
   At(Text("a"), Num(1)), Ema(Num(30), Var("x")), NoneLiteral, Dot(Ema(Num(3), Close), "result")}

Deep == Over(Inner, {Close, Var("x")}) \cup Over({Var("x")}, Inner)

\* x is a Boolean; the expression is named, shown, and read by an executor.
ExpressionScripts ==
  {<<Prices, Let("x", Cmp("gt", Close, Num(1))), Let("y", e),
     Report(kind, 1, <<0, 1>>, <<Var("y"), Var("x")>>)>> :
     e \in Shallow, kind \in {"TableReportSchema"}}
  \cup
  {<<Prices, Let("x", Cmp("gt", Close, Num(1))), Execute(<<<<"enter_long", e>>, <<"enter_short", Close>>>>),
     Let("y", e), Report("EventMarkerSchema", 1, <<0, 2>>, <<e, Var("x"), Var("y")>>)>> : e \in Deep}

\* Targets, keywords and slices.

Bands(keywords) == Call("bbands", keywords, <<Feed(<<Close>>)>>)

Slices ==
  {Num(1), Num(0), Num(-1), Un("-", Num(2)), Text("a"), Double(1), Var("n"), Var("m"), Close,
   Bin("add", Var("n"), Num(1)), Bin("mul", Var("n"), Un("not", Num(0))),
   Bin("modulo", Un("-", Num(5)), Var("n")), Bin("modulo", Var("n"), Num(0)),
   Bin("div", Var("n"), Num(1)), Un("-", Text("a"))}

Keywords ==
  {<<<<"period", e>>>> : e \in {Num(3), Num(30), Num(0), Double(2), Text("a"), Var("n"), Var("src"),
                               Var("y"), Var("true"), NoneLiteral, Close, Var("z")}}
  \cup
  {<<>>, <<<<"stddev", Num(3)>>>>, <<<<"periods", Num(3)>>>>,
   <<<<"period", Num(3)>>, <<"stddev", Num(11)>>>>,
   <<<<"period", Num(3)>>, <<"timeframe", Text("1H")>>>>,
   <<<<"period", Num(3)>>, <<"timeframe", Text("")>>>>,
   <<<<"period", Num(3)>>, <<"timeframe", Num(1)>>>>,
   <<<<"period", Num(3)>>, <<"session", Var("London")>>>>,
   <<<<"period", Num(3)>>, <<"session", Var("Berlin")>>>>}

Windows ==
  {<<>>, <<<<"boundary_type", Text("end")>>>>, <<<<"boundary_type", Text("middle")>>>>,
   <<<<"timeframe", Text("5Min")>>, <<"session", Text("Tokyo")>>>>}

Targets == {<<"a", "b">>, <<"_", "b">>, <<"a">>, <<"a", "src">>, <<"a", "b", "d">>}

StatementScripts ==
  {<<Prices, Let("n", Num(3)), Let("z", Text("a")), Let("y", At(Close, slice)), Table(<<Var("y")>>), Let("m", Num(2))>> :
     slice \in Slices}
  \cup
  {<<Prices, Let("n", Num(3)), Let("z", Text("a")), LetAll(<<"a", "b">>, Bands(keywords)),
     Let("y", Bin("add", Var("a"), Var("b"))), Table(<<Var("y"), Var("b")>>)>> : keywords \in Keywords}
  \cup
  {<<Prices, LetAll(xs, Bands(<<<<"period", Num(3)>>>>)), Table(<<Var("b")>>)>> : xs \in Targets}
  \cup
  {<<Prices, Let("w", Call("session_time_window", keywords, <<>>)), Let("y", Dot(Var("w"), "value")),
     Let("e", Ema(Num(4), Close)), Execute(<<<<"enter_short", Var("y")>>, <<"enter_long", Var("e")>>>>),
     Execute(<<<<"enter_short", Close>>, <<"enter_long", Close>>>>)>> : keywords \in Windows}
  \cup
  {<<Prices, Let("b", Bands(<<<<"period", Num(3)>>>>)), Let("y", e), Table(<<Var("y")>>)>> :
     e \in {Var("b"), Dot(Var("b"), "bbands_middle"), Dot(Var("b"), "SLOT"), Dot(Var("b"), "result"),
            Dot(Dot(Var("b"), "bbands_lower"), "x"), Dot(Var("y"), "result"), Var("src"),
            Short("boolean_select_string", <<Var("true"), Text("a"), Var("true")>>),
            Short("boolean_select_number", <<Var("true"), Close>>),
            Short("ema", <<Close>>), Short("gt", <<Close, Num(1), Num(2)>>),
            Bands(<<<<"period", Num(3)>>>>), Call("nothing", <<>>, <<>>), Table(<<>>).value,
            Bool("logical_or", <<Var("true")>>), [op |-> "List"]}}

SelectScripts ==
  {<<Prices, Let("y", Short("boolean_select_number", args)), Table(<<Var("y")>>)>> :
     args \in {<<Var("true"), Close, Num(1)>>, <<Var("true"), Close>>, <<Close, Var("true"), Num(2)>>,
               <<Var("true"), Text("a"), Close>>, <<Var("true"), Close, NoneLiteral>>}}

\* SLOTs, feeds and sinks.
SinkScripts ==
  {<<Prices, Let("x", Cmp("gt", Close, Num(1))), Report(kind, select, columns, args)>> :
     kind \in {"TableReportSchema", "EventMarkerSchema"}, select \in 0..1,
     columns \in {<<0>>, <<1, 0>>}, args \in {<<>>, <<Close>>, <<Close, Var("x")>>}}
  \cup
  {<<Prices, Do(Call(ctor, keywords, feeds))>> :
     ctor \in {"table_report", "event_marker"},
     keywords \in {<<>>, <<<<"schema", Schema("TableReportSchema", 0, <<0>>)>>>>,
                   <<<<"schema", Schema("EventMarkerSchema", 0, <<0>>)>>>>, <<<<"schema", Text("a")>>>>},
     feeds \in {<<>>, <<Feed(<<Close>>), Feed(<<Num(1)>>)>>,
                <<[args |-> <<Close>>, kwargs |-> <<<<"SLOT", Num(1)>>>>]>>,
                <<[args |-> <<>>, kwargs |-> <<<<"OTHER", Num(1)>>>>]>>}}

\* Names bound twice, not at all, or like a generated id; targets of other shapes.
NameScripts ==
  {<<Prices, Let("y", Num(1)), stmt, Table(<<Var("y")>>)>> :
     stmt \in {Let("y", Close), Let("src", Num(2)), Let("y", Ema(Num(2), Close)), Let("_", Close),
               Let("_", Ema(Num(2), Close)), Let("z", Var("u")), Let("z", Var("y")),
               Let("z", Bin("add", [op |-> "Name", id |-> <<"number", 0>>], Close)),
               [Let("z", Ema(Num(2), Close)) EXCEPT !.targets = <<<<"add", 0>>>>],
               LetAll(<<"p", "q">>, Close), [Let("z", Close) EXCEPT !.shape = "other"],
               Do(Close), Do(Ema(Num(2), Close))}}
  \cup
  {<<Prices, Let("_", Ema(Num(2), Close)), Let("_", Ema(Num(3), Close)), Let("y", Var("_")), Table(<<Var("y")>>)>>,
   <<Prices, LetAll(<<"_", "_">>, Bands(<<<<"period", Num(3)>>>>)), Let("y", Var("_")), Table(<<Var("y")>>)>>}

MCScripts ==
  ExpressionScripts \cup StatementScripts \cup SelectScripts \cup SinkScripts \cup NameScripts

=============================================================================
