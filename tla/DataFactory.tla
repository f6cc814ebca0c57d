----------------------------- MODULE DataFactory -----------------------------
(***************************************************************************)
(* From a strategy to the database: which assets, categories and           *)
(* timeframes are loaded (data/factory.cpp), and which frames the runtime  *)
(* then looks its columns up in.                                           *)
(*                                                                         *)
(* A strategy gives the base currency, the asset ids, each with what it    *)
(* stands for (an index for its constituents, an asset for itself, an      *)
(* unknown id for nothing), the rollover of futures, the timeframes of the *)
(* sizer and the stops, and the nodes of its script.  A futures asset is a *)
(* root with all its contracts.  A pair is named by its two currencies.    *)
(* The dates, the paths and the arguments of the rollover are left out.    *)
(***************************************************************************)
EXTENDS SequencesExt

Intraday == {"1Min", "1H"}
Untimed == ""

\* The manager gives a node without a timeframe, a scalar, that of days.
GetTimeframe(node) == IF node.timeframe = Untimed THEN "1D" ELSE node.timeframe

kIntradayOnlyIds == {"session_time_window"}

\* One part of the strategy that needs more than days.
IsIntradayCampaign(strategy) ==
    \/ \E node \in Range(strategy.nodes) :
         \/ node.type \in kIntradayOnlyIds
         \/ node.session # {}
         \/ node.timeframe \in Intraday
    \/ strategy.risk \cap Intraday # {}

\* The auxiliary data of the sources that have any.
GetDataCategoryForTransform ==
    [balance_sheet |-> "BalanceSheets", income_statement |-> "IncomeStatements",
     cash_flow |-> "CashFlowStatements", financial_ratios |-> "Ratios",
     news |-> "News", dividends |-> "Dividends", splits |-> "Splits",
     ticker_events |-> "TickerEvents", short_interest |-> "ShortInterest",
     short_volume |-> "ShortVolume"]

ExtractAuxiliaryCategories(nodes) ==
    {GetDataCategoryForTransform[node.type] :
       node \in {n \in Range(nodes) : n.type \in DOMAIN GetDataCategoryForTransform}}

\* The category whose columns a source requires, where those are not the bars'.
RequiredDataSources ==
    [t \in DOMAIN GetDataCategoryForTransform \cup {"economic_indicator"} |->
        IF t = "economic_indicator" THEN "Alfred" ELSE GetDataCategoryForTransform[t]]

-----------------------------------------------------------------------------
Contracts(assets) == {a \in assets : a.class = "Futures"}
MakeFuturesContinuation(a) == [a EXCEPT !.class = "Continuation"]

\* The pairs that convert a pair without the base currency.
Conversions(currency, a) ==
    IF a.class \in {"FX", "Crypto"} /\ currency \notin Range(a.name)
    THEN {[a EXCEPT !.name = <<c, currency>>] : c \in Range(a.name)}
    ELSE {}

MakeAssets(strategy) ==
    LET assets == UNION strategy.ids
        continued == IF strategy.rollover = "absent" THEN {}
                     ELSE {MakeFuturesContinuation(a) : a \in Contracts(assets)}
    IN [dataloaderAssets |->
          assets \cup UNION {Conversions(strategy.currency, a) : a \in assets},
        strategyAssets |-> (assets \ Contracts(assets)) \cup continued,
        continuationAssets |-> continued]

\* MakeContinuations: there is something to continue, and a way to do it.
Continues(strategy, assets) ==
    assets.continuationAssets # {} /\ strategy.rollover \notin {"absent", "Null"}

\* Mutant: scalars add no timeframe.
TimedNodesOnly(nodes, base) ==
    {node.timeframe : node \in Range(nodes)} \ {base, Untimed}

\* The code lists one for each node; a repeat resamples the same bars again.
BarResampleTimeFrames(nodes, base) ==
    {GetTimeframe(node) : node \in Range(nodes)} \ {base}

\* AssetIDContainer::Resolve, which throws for an unknown id.
Resolves(strategy) == {} \notin strategy.ids

MakeDataModuleOptionFromStrategy(strategy) ==
    LET intraday == IsIntradayCampaign(strategy)
        base == IF intraday THEN "1Min" ELSE "1D"
        assets == MakeAssets(strategy)
    IN [base |-> base,
        categories |-> {IF intraday THEN "MinuteBars" ELSE "DailyBars"}
                         \cup ExtractAuxiliaryCategories(strategy.nodes),
        dataloaderAssets |-> assets.dataloaderAssets,
        strategyAssets |-> assets.strategyAssets,
        futureContinuation |-> Continues(strategy, assets),
        barResampleTimeFrames |-> BarResampleTimeFrames(strategy.nodes, base)]

-----------------------------------------------------------------------------
\* What the database of that option hands to the runtime, by timeframe and asset:
\* what is loaded and the continuations built from it, and all of it but the
\* contracts resampled.  External: the loader has a frame for every asset.
BaseData(option) ==
    LET loaded == option.dataloaderAssets
                    \cup (IF option.futureContinuation
                          THEN {MakeFuturesContinuation(a) :
                                  a \in Contracts(option.dataloaderAssets)}
                          ELSE {})
    IN ({option.base} \X loaded)
         \cup (option.barResampleTimeFrames \X (loaded \ Contracts(loaded)))

\* GatherInputs: a body takes the columns of its sources from the frame of the
\* asset it is for, whatever the options of the node.
GatheredFrom(node, asset) == <<GetTimeframe(node), asset>>

=============================================================================
