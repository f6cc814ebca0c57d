------------------------------- MODULE StartUp -------------------------------
(***************************************************************************)
(* InitializeTransforms: what is in the registries after the program has   *)
(* started, and in which order it gets there.                              *)
(*                                                                         *)
(* First the metadata of the transforms.  Then the algorithms given as     *)
(* JSON: decoding one compiles its source against that metadata, and what  *)
(* the compiler throws leaves the decoder, the loader and the start-up.    *)
(* Then the strategies that name an algorithm, and only then the factories *)
(* and the metadata of event markers and reports.                          *)
(*                                                                         *)
(* An id is a sequence, <<name>> or, with numbers appended as the code     *)
(* appends "_1", <<name, 1>>.  The registries of commissions, slippages,   *)
(* sizers and stops are filled from files and read by nothing in src/:     *)
(* left out.                                                               *)
(***************************************************************************)
EXTENDS Integers, SequencesExt, TulipMetadata

VARIABLES
    algorithmBuffers,   \* the algorithms as JSON: form, id, types used
    strategyBuffers,    \* the strategies as JSON: form, id, signal named
    stage,              \* where InitializeTransforms is
    at,                 \* the buffer the stage is at
    metadata,           \* ITransformRegistry, the ids in it
    configs,            \* algorithms decoded, in order, with their buffer
    duplicates,         \* duplicateIdCount
    signals,            \* trade_signal::Registry, id -> buffer of its source
    templates,          \* strategy_templates::Registry, id -> its two buffers
    factories           \* TransformRegistry, the ids in it

startUpVars == <<algorithmBuffers, strategyBuffers, stage, at, metadata, configs,
                 duplicates, signals, templates, factories>>

-----------------------------------------------------------------------------
\* The lists in the order RegisterTransformMetadata registers them.
MetaDataList ==
    <<TransformsYaml, MakeDataSource, MakeComparativeMetaData, MakeTulipIndicators,
      MakeTulipCandles, MakeTradeSignalExecutor, MakeScalarMetaData,
      MakeLagMetaData, MakeForwardReturnsMetaData, MakeIntradayReturnsMetaData,
      MakeChartFormationMetaData, MakeCalendarEffectMetaData,
      MakeStringTransformMetaData, MakeValidationMetaData, MakeStaticCastMetaData,
      MakeStringifyMetaData, MakeGroupByAggMetaData, MakePolygonDataSources,
      MakePolygonIndicesDataSources, MakeFREDDataSource,
      MakeReferenceStocksDataSources, MakeNewsDataSource,
      MakeDividendsDataSource, MakeSplitsDataSource, MakeTickerEventsDataSource,
      MakeShortInterestDataSource, MakeShortVolumeDataSource,
      MakeDatetimeTransforms, MakeSageMakerSentimentTransforms>>

RegisteredFirst == UNION {Ids(MetaDataList[i]) : i \in DOMAIN MetaDataList}
RegisteredLast == Ids(EventMarkerMetadata) \cup Ids(Reports)

\* The row of an id: a later list overwrites an earlier one.
RowOf ==
    [id \in RegisteredFirst \cup RegisteredLast |->
        LET lists == MetaDataList \o <<EventMarkerMetadata, Reports>>
            i == CHOOSE i \in DOMAIN lists :
                   /\ id \in Ids(lists[i])
                   /\ \A j \in i + 1 .. Len(lists) : id \notin Ids(lists[j])
        IN CHOOSE r \in lists[i] : r.id = id]

\* The calls of REGISTER_TRANSFORM and Register, up to the aggregates ...
ScalarAndStringFactories ==
    UNION {{"number", "text", "bool_true", "bool_false", "zero", "one",
            "negative_one", "pi", "e", "phi", "sqrt2", "sqrt3", "sqrt5", "ln2",
            "ln10", "log2e", "log10e"}, Typed("null_"),
           {"string_case", "string_trim", "string_contains", "string_check"},
           {"finbert_sentiment"}}

OperatorFactories ==
    UNION {Operators,
           {"logical_" \o l : l \in {"or", "and", "xor", "and_not", "not"}},
           {"is_null", "is_valid", "is_zero", "is_one", "stringify"},
           {"static_cast_to_" \o t :
              t \in {"integer", "decimal", "boolean", "string", "timestamp"}},
           {"modulo", "power_op"},
           UNION {Typed(p) : p \in {"boolean_select_", "switch2_", "switch3_",
                                    "switch4_", "switch5_", "first_non_null_",
                                    "conditional_select_"}},
           {p \o o : p \in {"previous_", "highest_", "lowest_"}, o \in Operators}}

SelectAndPriceActionFactories ==
    UNION {{"market_data_source"}, Typed("percentile_select_"),
           {"boolean_branch", "ratio_branch", "cum_prod", "cs_momentum", "top_k",
            "bottom_k", "top_k_percent", "bottom_k_percent", "cs_zscore",
            "bband_percent", "bband_width", "session_gap", "bar_gap",
            "forward_returns", "intraday_returns"}, Typed("lag_"),
           {"ma", "vwap", "trade_count", "price_diff_vol", "return_vol",
            "bos_choch", "fair_value_gap", "liquidity", "order_blocks",
            "previous_high_low", "retracements", "sessions",
            "session_time_window", "swing_highs_lows", "flexible_pivot_detector",
            "head_and_shoulders", "inverse_head_and_shoulders",
            "double_top_bottom", "flag", "triangles", "pennant",
            "consolidation_box"}}

\* ... and from the aggregates on.  The loops over the tables of libtulip.
LibraryFactories ==
    UNION {{"agg_" \o a : a \in {"sum", "mean", "min", "max", "all_of", "any_of",
                                 "none_of", "all_equal", "all_unique"}},
           {"groupby_numeric_agg", "groupby_boolean_agg", "groupby_any_agg"},
           {p[2] : p \in MakeTulipIndicatorMetaData}, {"crossunder"},
           Ids(MakeTulipCandles)}

StatisticsFactories ==
    {"acceleration_bands", "garman_klass", "hodges_tompkins", "keltner_channels",
     "parkinson", "ulcer_index", "yang_zhang", "chande_kroll_stop",
     "donchian_channel", "elders_thermometer", "hurst_exponent",
     "rolling_hurst_exponent", "ichimoku", "pivot_point_sr", "price_distance",
     "psl", "qqe", "vortex", "zscore", "rolling_corr", "rolling_cov", "beta",
     "ewm_corr", "ewm_cov", "trade_executor_adapter", "trade_signal_executor",
     "hmm_2", "hmm_3", "hmm_4", "hmm_5"}

SourceAndReportFactories ==
    UNION {{"turn_of_month", "day_of_week", "month_of_year", "quarter", "holiday",
            "week_of_month", "time_of_day", "index_datetime_extract",
            "column_datetime_extract", "timestamp_scalar", "datetime_diff",
            "balance_sheet", "income_statement", "cash_flow", "financial_ratios",
            "common_indices", "indices", "news", "dividends", "splits",
            "ticker_events", "short_interest", "short_volume",
            "economic_indicator", "us_reference_stocks"},
           RegisteredLast}

Factories ==
    UNION {ScalarAndStringFactories, OperatorFactories,
           SelectAndPriceActionFactories, LibraryFactories, StatisticsFactories,
           SourceAndReportFactories}

-----------------------------------------------------------------------------
StartUpInit(algorithms, strategies) ==
    /\ algorithmBuffers = algorithms /\ strategyBuffers = strategies
    /\ stage = "metadata" /\ at = 1
    /\ metadata = {} /\ factories = {}
    /\ configs = <<>> /\ duplicates = <<>> /\ signals = <<>> /\ templates = <<>>

\* The next stage, at its first buffer.
Proceed(next) == stage' = next /\ at' = 1

RegisterTransformMetadata ==
    /\ stage = "metadata"
    /\ metadata' = metadata \cup RegisteredFirst
    /\ Proceed("decode")
    /\ UNCHANGED <<algorithmBuffers, strategyBuffers, configs, duplicates, signals,
                   templates, factories>>

\* LoadMetaDataT decodes the algorithms in order.  JSON that does not parse is
\* logged and skipped.  A source is compiled while it is decoded; an empty one is
\* not, and one that does not compile ends the start-up.
DecodeAlgorithm ==
    /\ stage = "decode" /\ at <= Len(algorithmBuffers)
    /\ LET b == algorithmBuffers[at]
       IN \/ /\ b.form = "malformed"
             /\ configs' = configs /\ UNCHANGED <<stage>> /\ at' = at + 1
          \/ /\ \/ b.form = "empty"
                \/ b.form = "source" /\ b.uses \subseteq metadata
             /\ configs' = Append(configs, [id |-> b.id, buffer |-> at])
             /\ UNCHANGED <<stage>> /\ at' = at + 1
          \/ /\ b.form = "source" /\ ~ b.uses \subseteq metadata
             /\ stage' = "stopped" /\ UNCHANGED <<configs, at>>
    /\ UNCHANGED <<algorithmBuffers, strategyBuffers, metadata, duplicates, signals,
                   templates, factories>>

AllDecoded ==
    /\ stage = "decode" /\ at > Len(algorithmBuffers)
    /\ Proceed("register")
    /\ UNCHANGED <<algorithmBuffers, strategyBuffers, metadata, configs, duplicates,
                   signals, templates, factories>>

\* Register: a value takes the place of the one its id had.
WithEntry(registry, id, value) ==
    [k \in DOMAIN registry \cup {id} |-> IF k = id THEN value ELSE registry[k]]

\* An id that has been seen gets the number of times it was seen before; the id
\* it then has is not counted.
Count(id) ==
    WithEntry(duplicates, id, IF id \in DOMAIN duplicates THEN duplicates[id] + 1 ELSE 0)

\* Mutant: duplicates are counted and keep their id.
KeptId(id) == id

Numbered(id) ==
    IF id \in DOMAIN duplicates THEN Append(id, duplicates[id] + 1) ELSE id

RegisterAlgorithm ==
    /\ stage = "register" /\ at <= Len(configs)
    /\ at' = at + 1
    /\ LET c == configs[at]
       IN IF algorithmBuffers[c.buffer].form = "empty"
          THEN UNCHANGED <<duplicates, signals>>
          ELSE /\ duplicates' = Count(c.id)
               /\ signals' = WithEntry(signals, Numbered(c.id), c.buffer)
    /\ UNCHANGED <<algorithmBuffers, strategyBuffers, stage, metadata, configs,
                   templates, factories>>

AllRegistered ==
    /\ stage = "register" /\ at > Len(configs)
    /\ duplicates' = <<>>
    /\ Proceed("strategies")
    /\ UNCHANGED <<algorithmBuffers, strategyBuffers, metadata, configs, signals,
                   templates, factories>>

\* A strategy without a trade signal is skipped before its id is counted, one
\* that names an unknown signal after.
RegisterStrategy ==
    /\ stage = "strategies" /\ at <= Len(strategyBuffers)
    /\ at' = at + 1
    /\ LET b == strategyBuffers[at]
       IN IF b.form # "signal" THEN UNCHANGED <<duplicates, templates>>
          ELSE /\ duplicates' = Count(b.id)
               /\ templates' = IF b.signal \in DOMAIN signals
                               THEN WithEntry(templates, Numbered(b.id),
                                              [strategy |-> at,
                                               algorithm |-> signals[b.signal]])
                               ELSE templates
    /\ UNCHANGED <<algorithmBuffers, strategyBuffers, stage, metadata, configs,
                   signals, factories>>

\* Mutant: the factories come without the metadata of event markers and reports.
RegisterOnlyFactories ==
    /\ stage = "strategies" /\ at > Len(strategyBuffers)
    /\ factories' = factories \cup Factories
    /\ Proceed("ready")
    /\ UNCHANGED <<algorithmBuffers, strategyBuffers, metadata, configs, duplicates,
                   signals, templates>>

RegisterFactories ==
    /\ stage = "strategies" /\ at > Len(strategyBuffers)
    /\ factories' = factories \cup Factories
    /\ metadata' = metadata \cup RegisteredLast
    /\ Proceed("ready")
    /\ UNCHANGED <<algorithmBuffers, strategyBuffers, configs, duplicates, signals,
                   templates>>

StartUpNext ==
    \/ RegisterTransformMetadata \/ DecodeAlgorithm \/ AllDecoded
    \/ RegisterAlgorithm \/ AllRegistered \/ RegisterStrategy \/ RegisterFactories

-----------------------------------------------------------------------------
\* No id is another one with a number.
FreeOfNumbers(ids) ==
    \A a, b \in ids : Len(a) > Len(b) => SubSeq(a, 1, Len(b)) # b

\* The algorithms that are registered, and those of them with an id that come first.
Sources ==
    {i \in DOMAIN configs : algorithmBuffers[configs[i].buffer].form = "source"}
IdsOf(sources) == {configs[i].id : i \in sources}
FirstOf(id) ==
    CHOOSE i \in Sources : /\ configs[i].id = id
                           /\ \A j \in Sources : configs[j].id = id => i <= j

\* When no id looks like a numbered one, every algorithm that compiles is kept,
\* every strategy that names one is kept, and it runs the first algorithm of that
\* id, however many have it.  strategy/registration.cpp:97 and :147 count the ids
\* and append the count, into registries that overwrite (core/registry.h:20).
AlgorithmsAreKept ==
    /\ stage = "ready"
    /\ FreeOfNumbers(IdsOf(Sources))
    /\ FreeOfNumbers({b.id : b \in Range(strategyBuffers)})
    => /\ \A i \in Sources : \E id \in DOMAIN signals : signals[id] = configs[i].buffer
       /\ \A s \in DOMAIN strategyBuffers :
            LET b == strategyBuffers[s]
            IN b.form = "signal" /\ b.signal \in IdsOf(Sources) =>
                 \E id \in DOMAIN templates :
                    templates[id] = [strategy |-> s,
                                     algorithm |-> configs[FirstOf(b.signal)].buffer]

=============================================================================
