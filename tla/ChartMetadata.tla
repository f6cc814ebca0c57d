---------------------------- MODULE ChartMetadata ----------------------------
(***************************************************************************)
(* The chart of a strategy (chart_metadata_provider.cpp, axis_manager.cpp, *)
(* series_configuration_builder.cpp): one pane for each timeframe, with a  *)
(* candlestick and a volume series, to which every plotted transform adds  *)
(* a series, on an axis of its own or on that of what it is drawn over.    *)
(*                                                                         *)
(* The constructor of the provider is one loop over the transforms, one    *)
(* action for each.  The inputs of a transform are an unordered map, so    *)
(* where the first input with some quality decides, any may be the first.  *)
(* Axes count from 1 where the code counts from 0.                         *)
(***************************************************************************)
EXTENDS Integers, PlotKinds, SequencesExt

CONSTANTS
    PriceInputs,   \* the names of the price columns
    VolumeInput    \* the name of the volume column

VARIABLES
    transforms,  \* the configurations to chart, in the order of the list
    next,        \* the one the loop is at
    panes,       \* m_chartMetaData, timeframe -> pane
    handles,     \* outputHandlesToSeriesId: handle -> index in its pane's series
    charting     \* "no", "busy", "done" or "thrown"

chartVars == <<transforms, next, panes, handles, charting>>

None == ""

\* A series as BuildSeries fills it in.
Series(id, kind, z, axis, linkedTo) ==
    [id |-> id, kind |-> kind, z |-> z, axis |-> axis, linkedTo |-> linkedTo]

BuildCandlestickSeries == Series("candlestick", "candlestick", 0, 1, None)
BuildVolumeSeries == Series("volume", "column", 0, 2, None)

BaseAxes == <<[top |-> 0, height |-> 85], [top |-> 85, height |-> 15]>>

\* The axes, top and height in percent, when there are n > 2: the prices with twice
\* the height of the others, cut off to whole numbers.  The tops are a running sum
\* of doubles: one that should be whole, but is the sum of heights that are not,
\* may come out just below and be cut off to the number before.
RecalculateAxisHeights(n) ==
    LET inexact == {i \in 3 .. n : (100 * i) % (n + 1) = 0 /\ 100 % (n + 1) # 0}
        Top(i, short) == (100 * i) \div (n + 1) - (IF i \in short THEN 1 ELSE 0)
    IN {[i \in 1 .. n |->
           IF i = 1 THEN [top |-> 0, height |-> 200 \div (n + 1)]
           ELSE [top |-> Top(i, short), height |-> 100 \div (n + 1)]] :
          short \in SUBSET inexact}

BasePane ==
    [series |-> <<BuildCandlestickSeries, BuildVolumeSeries>>,
     axes |-> BaseAxes, names |-> <<>>, sessions |-> {}]

\* The first series of that id: m_seriesAxisMap.
AxisOf(pane, id) ==
    pane.series[CHOOSE i \in DOMAIN pane.series : pane.series[i].id = id].axis

InputHandles(cfg) == UNION {Range(cfg.inputs[k]) : k \in DOMAIN cfg.inputs}

\* The first connection of each input that is one of good, for the inputs that
\* have one.
FirstConnection(connections, good) ==
    connections[Min({i \in DOMAIN connections : connections[i] \in good})]
FirstConnections(cfg, good) ==
    [k \in {j \in DOMAIN cfg.inputs : Range(cfg.inputs[j]) \cap good # {}} |->
        FirstConnection(cfg.inputs[k], good)]

\* The values of a map in an order in which it may happen to give them.
InSomeOrder(map) ==
    {[i \in DOMAIN order |-> map[order[i]]] : order \in SetToSeqs(DOMAIN map)}

\* The text of an option, a number counted in thousandths: a whole number as it is,
\* another with two decimals; nothing for a list, a time, a schema or a query.  A text
\* is one unit: a string that reads like another kind or like two options is left out,
\* and so is a number half way between two decimals, which rounds by its bits.
Printed(v) ==
    LET size == IF v.value < 0 THEN -v.value ELSE v.value
    IN CASE v.kind \in {"string", "boolean", "reference"} -> <<v.kind, v.value>>
         [] v.kind = "number" /\ v.value % 1000 = 0 -> <<"whole", v.value>>
         [] v.kind = "number" /\ v.value % 1000 # 0 ->
              <<"decimals", v.value < 0, (size + 5) \div 10>>
         [] OTHER -> <<>>
OptionTexts(cfg) == [o \in DOMAIN cfg.options |-> Printed(cfg.options[o])]

\* Mutant: nothing says what a chained indicator is of.
NamesWithoutInputs(cfg) ==
    {<<cfg.type, texts, <<>>>> : texts \in InSomeOrder(OptionTexts(cfg))}

\* BuildDescriptiveName, the texts of the options without their keys, and the inputs
\* that come from plotted transforms: both from an unordered map.
DescriptiveNames(cfg) ==
    {<<cfg.type, texts, chained>> :
       texts \in InSomeOrder(OptionTexts(cfg)),
       chained \in InSomeOrder(FirstConnections(cfg, DOMAIN handles))}

\* The panes with an axis for the name: the one it has, or a new one.  The index of
\* an axis is a byte.
FindOrCreateIndicatorAxis(pane, name) ==
    IF name \in DOMAIN pane.names THEN {pane}
    ELSE LET index == (Len(pane.axes) % 256) + 1
         IN {[pane EXCEPT !.axes = axes,
                          !.names = [x \in DOMAIN pane.names \cup {name} |->
                                       IF x = name THEN index ELSE pane.names[x]]] :
               axes \in RecalculateAxisHeights(Len(pane.axes) + 1)}

\* Mutant: a chained transform is linked to the last series.
AxisOfTheLast(cfg, pane) == {Last(pane.series).id}

\* A series the transform is drawn over.  The index kept for a handle counts in
\* the pane of its producer and is used in the pane of its reader.
DetermineAxisFromInputs(cfg, pane) ==
    LET known == {h \in DOMAIN handles : handles[h] <= Len(pane.series)}
        chained == Range(FirstConnections(cfg, known))
        names == {h[2] : h \in InputHandles(cfg)}
    IN IF chained # {} THEN {pane.series[handles[h]].id : h \in chained}
       ELSE IF names \cap PriceInputs # {} THEN {pane.series[1].id}
       ELSE IF VolumeInput \in names THEN {pane.series[2].id}
       ELSE {pane.series[1].id}

\* The panes that AssignAxis, RegisterSeries and BuildSeries may leave.
Placed(cfg, pane) ==
    LET b == InitializeBuilders[cfg.kind]
        Add(p, axis, linkedTo) ==
            [p EXCEPT !.series =
                Append(@, Series(cfg.id, cfg.kind, b.z, axis, linkedTo))]
    IN IF b.own
       THEN UNION {{Add(p, p.names[name], None) :
                      p \in FindOrCreateIndicatorAxis(pane, name)} :
                     name \in DescriptiveNames(cfg)}
       ELSE {Add(pane, AxisOf(pane, s), s) : s \in DetermineAxisFromInputs(cfg, pane)}

-----------------------------------------------------------------------------
ChartInit ==
    /\ transforms = <<>> /\ next = 1 /\ panes = <<>> /\ handles = <<>>
    /\ charting = "no"

\* The constructor is called: the base panes.
Chart(list, timeframes) ==
    /\ charting = "no"
    /\ charting' = "busy"
    /\ transforms' = list
    /\ panes' = [tf \in timeframes |-> BasePane]
    /\ UNCHANGED <<next, handles>>

Going == charting = "busy" /\ next <= Len(transforms)
Pane(cfg) == [panes[cfg.timeframe] EXCEPT !.sessions = @ \cup cfg.session]

\* A transform of a timeframe the chart does not show.
PassOver ==
    /\ Going
    /\ transforms[next].timeframe \notin DOMAIN panes
    /\ next' = next + 1
    /\ UNCHANGED <<transforms, panes, handles, charting>>

\* A transform that is not plotted leaves its session only.
AddSession ==
    /\ Going
    /\ LET cfg == transforms[next]
       IN /\ cfg.timeframe \in DOMAIN panes /\ cfg.kind = "Null"
          /\ panes' = [panes EXCEPT ![cfg.timeframe] = Pane(cfg)]
    /\ next' = next + 1
    /\ UNCHANGED <<transforms, handles, charting>>

\* A transform is plotted: its axis, its series, and where its outputs are.
AddSeries ==
    /\ Going
    /\ LET cfg == transforms[next]
           outs == {<<cfg.id, o>> : o \in cfg.outputs}
       IN /\ cfg.timeframe \in DOMAIN panes /\ cfg.kind # "Null"
          /\ Builds(cfg.kind, DOMAIN cfg.inputs, cfg.outputs)
          /\ \E p \in Placed(cfg, Pane(cfg)) :
                /\ panes' = [panes EXCEPT ![cfg.timeframe] = p]
                /\ handles' = [h \in DOMAIN handles \cup outs |->
                                 IF h \in outs THEN Len(p.series) ELSE handles[h]]
    /\ next' = next + 1
    /\ UNCHANGED <<transforms, charting>>

\* A builder throws, and the whole chart is lost.
Throw ==
    /\ Going
    /\ LET cfg == transforms[next]
       IN /\ cfg.timeframe \in DOMAIN panes /\ cfg.kind # "Null"
          /\ ~Builds(cfg.kind, DOMAIN cfg.inputs, cfg.outputs)
    /\ charting' = "thrown"
    /\ panes' = <<>>
    /\ UNCHANGED <<transforms, next, handles>>

Finish ==
    /\ charting = "busy" /\ next > Len(transforms)
    /\ charting' = "done"
    /\ UNCHANGED <<transforms, next, panes, handles>>

ChartNext == PassOver \/ AddSession \/ AddSeries \/ Throw \/ Finish

=============================================================================
