----------------------------- MODULE MCCatalogue -----------------------------
(* Small instance of Catalogue. *)
EXTENDS Catalogue

MCPriceInputs == {"o", "h", "l", "c"}

Stock(name) == [class |-> "Stock", name |-> <<name>>]
Future == [class |-> "Futures", name |-> <<"GC">>]
Pair(a, b) == [class |-> "FX", name |-> <<a, b>>]

Strategy(nodes, timeframes, ids, rollover, risk) ==
    [algorithms |-> <<>>, strategies |-> <<>>, nodes |-> nodes,
     timeframes |-> timeframes, currency |-> "USD", ids |-> ids,
     rollover |-> rollover, risk |-> risk]

Script(nodes, timeframes) ==
    Strategy(nodes, timeframes, {{Stock("AAPL")}, {Future}}, "LiquidityBased", {})

Text(s) == [kind |-> "string", value |-> s]
Number(n) == [kind |-> "number", value |-> n]
Length(n) == [period |-> Number(1000 * n)]

\* A type that is disabled: it has a header of its own, but is not registered.
Disabled ==
    {Script(<<[id |-> "x", type |-> "sql_query_1", timeframe |-> "1D",
               options |-> <<>>, session |-> {}, inputs |-> <<>>]>>, {"1D"})}

\* Every type of the registry on its own, with its inputs wired to the closing
\* prices, and an option that names the index to sources of one.
Alone ==
    {Script(<<[id |-> "x", type |-> r.id, timeframe |-> "1D",
               options |-> IF r.id = "indices" THEN [ticker |-> Text("SPX")]
                           ELSE IF r.id = "common_indices" THEN [index |-> Text("SPX")]
                           ELSE <<>>,
               session |-> {}, inputs |-> [k \in r.inputs |-> <<<<"src", "c">>>>]]>>,
            {"1D"}) : r \in {RowOf[id] : id \in (DOMAIN RowOf) \ {""}}}

\* Every type with inputs on its own, with none of them connected.
Unconnected == {[s EXCEPT !.nodes[1].inputs = <<>>] :
                  s \in {a \in Alone : a.nodes[1].inputs # <<>>}}

\* Three nodes, each over the sources and the ones before it: overlays, panels of
\* one and of two inputs and one that is not plotted, on two timeframes.
Arities == [ma |-> Slot, rsi |-> Slot, stringify |-> Slot, modulo |-> Slots]
Names == <<"x1", "x2", "x3">>

Nodes(i, types, timeframes, options, sources) ==
    LET wires == {<<h>> : h \in sources \cup {<<Names[j], "result">> : j \in 1 .. i - 1}}
    IN UNION {
         {[id |-> Names[i], type |-> t, timeframe |-> tf, options |-> Length(o),
           session |-> IF t = "stringify" THEN {"morning"} ELSE {}, inputs |-> f] :
            tf \in timeframes, o \in options, f \in [Arities[t] -> wires]} :
         t \in types}

Chained ==
    {Script(<<a, b, c>>, IF a.type = "stringify" THEN {"1D"} ELSE {"1D", "1H"}) :
       a \in Nodes(1, {"ma", "rsi", "stringify"}, {"1D", "1H"}, {7}, {<<"src", "c">>}),
       b \in Nodes(2, DOMAIN Arities, {"1D", "1H"}, {7, 14}, {<<"src", "c">>}),
       c \in Nodes(3, {"ma", "rsi", "modulo"}, {"1D"}, {7},
                   {<<"src", "c">>, <<"src", "v">>})}

\* One or two nodes that differ in what they need, over all kinds of assets: an
\* index, futures with and without a rollover, pairs with and without the base
\* currency, an id nobody knows; with parts that are intraday or not.
Needs ==
    {<<"market_data_source", "1H">>, <<"market_data_source", "1D">>,
     <<"market_data_source", "1W">>, <<"number", "">>, <<"news", "1D">>,
     <<"economic_indicator", "1D">>, <<"session_time_window", "1D">>,
     <<"us_reference_stocks", "1Min">>}

NodeOf(need, id, session) ==
    [id |-> id, type |-> need[1], timeframe |-> need[2], options |-> <<>>,
     session |-> session, inputs |-> <<>>]

AssetIds ==
    {{{Stock("AAPL"), Stock("MSFT")}}, {{Stock("AAPL")}, {Future}}, {{Future}},
     {{Pair("EUR", "JPY")}, {Pair("EUR", "USD")}}, {{Stock("AAPL")}, {}}}

Fed ==
    {Strategy(nodes, {}, ids, rollover, risk) :
       nodes \in {<<NodeOf(n, "x1", session)>> : n \in Needs, session \in {{}, {"morning"}}}
                  \cup {<<NodeOf(n[1], "x1", {}), NodeOf(n[2], "x2", {})>> : n \in Needs \X Needs},
       ids \in AssetIds, rollover \in {"absent", "Null", "LiquidityBased"},
       risk \in {{}, {"1D"}, {"1D", "1H"}}}

\* Ten panels on top of one another.
Many ==
    {Script([i \in 1 .. 10 |->
                [id |-> ToString(i), type |-> "rsi", timeframe |-> "1D",
                 options |-> Length(i), session |-> {},
                 inputs |-> [SLOT |-> <<<<"src", "c">>>>]]], {"1D"})}

\* Two indicators whose options print alike or not: numbers, lists, a text, none, and
\* two in either order.
Options ==
    {<<>>, [x |-> Number(7000)], [x |-> Number(7001)], [x |-> Number(7004)],
     [y |-> Number(7000)], [x |-> Number(-1004)], [x |-> Text("sma")],
     [x |-> [kind |-> "list", value |-> <<1, 2>>]], [x |-> [kind |-> "list", value |-> <<3>>]],
     [x |-> [kind |-> "boolean", value |-> TRUE]],
     [x |-> Number(7000), y |-> Number(14000)], [x |-> Number(14000), y |-> Number(7000)]}

Alike ==
    {Script([i \in 1 .. 2 |->
                [id |-> Names[i], type |-> "rsi", timeframe |-> "1D", options |-> f[i],
                 session |-> {}, inputs |-> [SLOT |-> <<<<"src", "c">>>>]]], {"1D"}) :
       f \in [1 .. 2 -> Options]}

\* Up to three algorithms and two strategies that name them.
Algorithms ==
    LET One == {[form |-> "source", id |-> id, uses |-> {"ma"}] :
                  id \in {<<"a">>, <<"a", 1>>, <<"b">>}}
                 \cup {[form |-> f, id |-> <<"a">>, uses |-> {}] :
                         f \in {"malformed", "empty"}}
                 \cup {[form |-> "source", id |-> <<"b">>, uses |-> {"event_marker"}]}
    IN UNION {[1 .. n -> One] : n \in 0 .. 3}

Strategies ==
    LET One == {[form |-> "signal", id |-> <<"s">>, signal |-> id] :
                  id \in {<<"a">>, <<"a", 1>>, <<"b">>}}
                 \cup {[form |-> "none", id |-> <<"s">>, signal |-> <<"a">>]}
    IN UNION {[1 .. n -> One] : n \in 0 .. 2}

Started ==
    {[Script(<<>>, {}) EXCEPT !.algorithms = a, !.strategies = s] :
       a \in Algorithms, s \in Strategies}

MCScenarios == UNION {Alone, Unconnected, Disabled, Chained, Alike, Fed, Many, Started}

=============================================================================
