------------------------------ MODULE Catalogue ------------------------------
(***************************************************************************)
(* From the start of the program to the chart of a strategy: StartUp fills *)
(* the registries, a script is compiled against them, DataFactory chooses  *)
(* the data, the transforms are built, and ChartMetadata lays the chart    *)
(* out.                                                                    *)
(*                                                                         *)
(* A scenario is what the outside gives: the buffers the program starts    *)
(* with, one strategy and the timeframes to chart.  The nodes of its       *)
(* script are compiled ones: timeframes resolved (but those of scalars),   *)
(* each id once, in an order in which inputs come first.  Nothing before   *)
(* the definitions of the transforms asks for inputs left unconnected.     *)
(***************************************************************************)
EXTENDS StartUp, DataFactory, ChartMetadata

CONSTANT Scenarios

\* A scenario is one the outside can give: buffers and ids are sequences, an asset
\* has a class and a name.
IsList(s) == Len(s) \in Nat /\ s = [i \in 1 .. Len(s) |-> s[i]]

\* The nodes of a script as the compiler leaves them: each id once, the connections
\* of an input in a list, which it gets with the first of them, and none to a node
\* that does not come earlier.
IsCompiled(nodes) ==
    /\ IsList(nodes)
    /\ \A i \in 1 .. Len(nodes) :
         /\ \A j \in 1 .. i - 1 : nodes[j].id # nodes[i].id
         /\ IsFiniteSet(DOMAIN nodes[i].inputs) /\ IsFiniteSet(DOMAIN nodes[i].options)
         /\ \A k \in DOMAIN nodes[i].inputs :
              IsList(nodes[i].inputs[k]) /\ nodes[i].inputs[k] # <<>>
         /\ \A h \in InputHandles(nodes[i]), j \in i .. Len(nodes) : h[1] # nodes[j].id

ASSUME CatalogueAssumption ==
    \A s \in Scenarios :
       /\ IsList(s.algorithms) /\ IsList(s.strategies)
       /\ \A i \in DOMAIN s.algorithms :
            s.algorithms[i].form # "malformed" => IsList(s.algorithms[i].id)
       /\ \A i \in DOMAIN s.strategies : IsList(s.strategies[i].id)
       /\ \A assets \in s.ids : \A a \in assets :
            a = [class |-> a.class, name |-> a.name]
       /\ IsCompiled(s.nodes)

VARIABLES
    scenario,   \* the one of this behaviour
    script,     \* "source", "rejected", "compiled", "unresolved", "configured",
                \* "unbuildable" or "built"
    option      \* the DataModuleOption, from "configured" on

vars == <<startUpVars, chartVars, scenario, script, option>>

Types == {scenario.nodes[i].type : i \in DOMAIN scenario.nodes}

\* What the constructor of a definition asks of a node: an input of every name its
\* type has, or, of some types, one at least, and even that only of a node with any.
AcceptsInputs(node) ==
    LET required == RowOf[node.type].inputs
        connected == required \cap DOMAIN node.inputs
    IN IF node.type \in AtLeastOneInputRequired
       THEN connected # {} \/ DOMAIN node.inputs = {}
       ELSE connected = required

\* A TransformConfiguration: the node with what the registry says of its type.
TransformConfiguration(node) ==
    [id |-> node.id, type |-> node.type, timeframe |-> GetTimeframe(node),
     options |-> node.options, session |-> node.session, inputs |-> node.inputs,
     kind |-> RowOf[node.type].kind, outputs |-> RowOf[node.type].outputs]

Init ==
    \E s \in Scenarios :
       /\ scenario = s /\ script = "source" /\ option = <<>>
       /\ StartUpInit(s.algorithms, s.strategies)
       /\ ChartInit

\* A script is compiled against the metadata.
Compile ==
    /\ stage = "ready" /\ script = "source" /\ scenario.nodes # <<>>
    /\ script' = IF Types \subseteq metadata THEN "compiled" ELSE "rejected"
    /\ UNCHANGED <<startUpVars, chartVars, scenario, option>>

\* MakeDataModuleOptionFromStrategy chooses the data, if it knows the assets and
\* the transform manager can make a definition of every node.
Configure ==
    /\ script = "compiled"
    /\ IF Resolves(scenario) /\ \A node \in Range(scenario.nodes) : AcceptsInputs(node)
       THEN /\ script' = "configured"
            /\ option' = MakeDataModuleOptionFromStrategy(scenario)
       ELSE script' = "unresolved" /\ UNCHANGED option
    /\ UNCHANGED <<startUpVars, chartVars, scenario>>

\* The transforms are created by their factories: one without ends the run.
BuildTransforms ==
    /\ script = "configured"
    /\ script' = IF Types \subseteq factories THEN "built" ELSE "unbuildable"
    /\ UNCHANGED <<startUpVars, chartVars, scenario, option>>

\* The chart is asked for, of the transforms as the manager lists them.
ChartScript ==
    /\ script = "built"
    /\ Chart([i \in DOMAIN scenario.nodes |->
                 TransformConfiguration(scenario.nodes[i])], scenario.timeframes)
    /\ UNCHANGED <<startUpVars, scenario, script, option>>

Next ==
    \/ StartUpNext /\ UNCHANGED <<chartVars, scenario, script, option>>
    \/ Compile \/ Configure \/ BuildTransforms \/ ChartScript
    \/ ChartNext /\ UNCHANGED <<startUpVars, scenario, script, option>>

Spec == Init /\ [][Next]_vars

-----------------------------------------------------------------------------
\* Types whose metadata has no factory; the empty one is the row that the list of
\* libtulip's indicators leaves empty.
WithoutFactory == {"string_replace", "string_length", "string_reverse", ""}

\* Types whose outputs are not those the builder of their plot kind looks for.
NeverDrawn ==
    {"acceleration_bands", "keltner_channels", "rolling_corr", "rolling_cov", "beta",
     "ewm_corr", "ewm_cov", "di", "dm", "msw"}

\* An executor that no signal is connected to, which everything accepts up to the
\* builder of its series.
WithoutSignals(type, inputs) == type = "trade_signal_executor" /\ inputs = {}

\* Three tables kept by hand (metadata, factories, plot kinds), related by nothing
\* but the ids and the names of the outputs, agree on all types but the ones listed:
\* there is a factory, and a builder that accepts the outputs, whether the inputs
\* are connected or not.
ASSUME TablesAgree ==
    LET known == RegisteredFirst \cup RegisteredLast
        Drawn(id, inputs) == \/ RowOf[id].kind = "Null"
                             \/ Builds(RowOf[id].kind, inputs, RowOf[id].outputs)
    IN /\ known \ WithoutFactory \subseteq Factories
       /\ \A id \in known \ NeverDrawn, inputs \in {{}, Slot} :
            WithoutSignals(id, inputs) \/ Drawn(id, inputs)

\* A script whose types the program registers is compiled, once it has started, and
\* can be run and charted, unless it uses one of the types listed or an executor
\* without signals.
UsableUnlessListed ==
    /\ script = "rejected" => ~Types \subseteq RegisteredFirst \cup RegisteredLast
    /\ script = "unbuildable" => Types \cap WithoutFactory # {}
    /\ charting = "thrown" =>
         \/ Types \cap NeverDrawn # {}
         \/ \E node \in Range(scenario.nodes) :
              WithoutSignals(node.type, DOMAIN node.inputs)

\* Sources whose data no category stands for.
WithoutCategory == {"economic_indicator"}

\* Whatever the runtime will look up has been asked for: every node, scalars
\* included, finds the frame of each asset of the strategy in its timeframe, which
\* is not resampled from a longer one, and every source the category of its columns.
\* Two lists are exceptions: WithoutCategory, and the continuations of a strategy
\* that has a rollover of no kind.
FindsItsData(strategy, o) ==
    /\ \A node \in Range(strategy.nodes), a \in o.strategyAssets :
         \/ GatheredFrom(node, a) \in BaseData(o)
         \/ a.class = "Continuation" /\ strategy.rollover = "Null"
    /\ o.base \notin Intraday => o.barResampleTimeFrames \cap Intraday = {}
    /\ \A node \in Range(strategy.nodes) :
         node.type \in (DOMAIN RequiredDataSources) \ WithoutCategory =>
           RequiredDataSources[node.type] \in o.categories

\* factory.cpp:322 chooses the data, transform_manager.cpp:21 and
\* intermediate_storage.cpp:25 look it up.
RuntimeFindsItsData == option # <<>> => FindsItsData(scenario, option)

\* "Indices load data internally, "c" is just to get proper index",
\* transforms/components/data_sources/polygon_indices_metadata.h:56: what an index
\* shows is the index that the option of the node names.
IndicesShowTheIndex ==
    option # <<>> =>
      \A node \in Range(scenario.nodes), a \in option.strategyAssets :
         node.type \in {"indices", "common_indices"} =>
           \E o \in DOMAIN node.options :
              GatheredFrom(node, a)[2].name = <<node.options[o].value>>

\* A transform with a plot kind is plotted: "Chart helper (omit / null => not
\* plotted)", include/epoch_script/transforms/core/metadata.h:28.
EveryTypeIsCharted == charting # "thrown"

\* The axes lie below one another, without overlap and with gaps of one percent
\* at most, inside the chart.
AxesTile(pane) ==
    LET End(i) == pane.axes[i].top + pane.axes[i].height
        n == Len(pane.axes)
    IN /\ pane.axes[1].top = 0
       /\ \A i \in 1 .. n - 1 : pane.axes[i + 1].top - End(i) \in {0, 1}
       /\ End(n) \in 99 .. 100

Configured(series) ==
    transforms[CHOOSE i \in DOMAIN transforms : transforms[i].id = series.id]
PlottedInputs(cfg) == FirstConnections(cfg, DOMAIN handles)

\* What a panel says of a series: the indicator, the texts of its options, and the
\* plotted transforms it is of, in no order.
Shown(cfg) ==
    <<cfg.type, Range(OptionTexts(cfg)), Cardinality(DOMAIN cfg.options),
      Range(PlottedInputs(cfg)), Cardinality(DOMAIN PlottedInputs(cfg))>>

OwnPanels(pane) ==
    {i \in 3 .. Len(pane.series) : InitializeBuilders[pane.series[i].kind].own}

\* Series that share a panel say the same; and those that say the same share it, if
\* one option and one plotted input at most leave no order open.
OneAxisPerIndicator(pane) ==
    \A i, j \in OwnPanels(pane) :
       LET a == Configured(pane.series[i])
           b == Configured(pane.series[j])
       IN /\ pane.series[i].axis = pane.series[j].axis => Shown(a) = Shown(b)
          /\ /\ Shown(a) = Shown(b)
             /\ Cardinality(DOMAIN a.options) <= 1
             /\ Cardinality(DOMAIN PlottedInputs(a)) <= 1
             => pane.series[i].axis = pane.series[j].axis

\* An axis is for "The full descriptive name (e.g., "RSI 14", "RSI 14 (SMA)")",
\* axis_manager.h:115: a panel has the series of one indicator with the same options.
\* Refuted: two options may print alike, as two numbers of the same first decimals
\* do, and the keys are left out.
PanelsHaveTheSameOptions ==
    \A tf \in DOMAIN panes : \A i, j \in OwnPanels(panes[tf]) :
       panes[tf].series[i].axis = panes[tf].series[j].axis =>
         Configured(panes[tf].series[i]).options = Configured(panes[tf].series[j]).options

\* All series of an indicator with the same options and inputs are in one panel.
\* Refuted: of two options the map may give either first.
SameOptionsShareAPanel ==
    \A tf \in DOMAIN panes : \A i, j \in OwnPanels(panes[tf]) :
       LET a == Configured(panes[tf].series[i])
           b == Configured(panes[tf].series[j])
       IN a.type = b.type /\ a.options = b.options /\ a.inputs = b.inputs =>
            panes[tf].series[i].axis = panes[tf].series[j].axis

\* A series that is drawn over another is on its axis, and that one came first.
LinkedShareAxis(pane) ==
    \A i \in DOMAIN pane.series :
       pane.series[i].linkedTo # None =>
         \E j \in 1 .. i - 1 : /\ pane.series[j].id = pane.series[i].linkedTo
                               /\ pane.series[j].axis = pane.series[i].axis

\* An overlay whose plotted inputs are all of its own timeframe is drawn over one
\* of them.
OverlaysFollowTheirInput(pane) ==
    \A i \in 3 .. Len(pane.series) :
       LET cfg == Configured(pane.series[i])
           ids == {h[1] : h \in Range(PlottedInputs(cfg))}
       IN /\ ~InitializeBuilders[cfg.kind].own
          /\ ids # {}
          /\ \A id \in ids : Configured([id |-> id]).timeframe = cfg.timeframe
          => pane.series[i].linkedTo \in ids

\* Every pane is one a reader can use, however many transforms were added to it
\* and in whatever order their inputs come out of the map.
PanesAreSound ==
    \A tf \in DOMAIN panes :
       /\ AxesTile(panes[tf])
       /\ OneAxisPerIndicator(panes[tf])
       /\ LinkedShareAxis(panes[tf])
       /\ OverlaysFollowTheirInput(panes[tf])

=============================================================================
