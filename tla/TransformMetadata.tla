-------------------------- MODULE TransformMetadata --------------------------
(***************************************************************************)
(* The catalogue of transforms: what RegisterTransformMetadata puts into   *)
(* the registry, from files/transforms.yaml and from the C++ lists.        *)
(*                                                                         *)
(* A row keeps what the compiler, the factories and the charts read of a   *)
(* TransformsMetaData: the id, the plot kind, the inputs and the outputs.  *)
(* Names, descriptions, options and data sources are left out.  Where the  *)
(* outputs come from a library (libtulip, the data SDK) they are what that *)
(* library declares.                                                       *)
(***************************************************************************)
EXTENDS Sequences, FiniteSets

Rows(kind, inputs, outputs, ids) ==
    {[id |-> i, kind |-> kind, inputs |-> inputs, outputs |-> outputs] : i \in ids}

Ids(rows) == {r.id : r \in rows}

DataTypes == {"string", "number", "boolean", "timestamp"}
Typed(prefix) == {prefix \o t : t \in DataTypes}

Result == {"result"}
Value == {"value"}
Slot == {"SLOT"}
Slots == {"SLOT0", "SLOT1"}

-----------------------------------------------------------------------------
\* transforms/metadata.cpp

Operators == {"gt", "gte", "lt", "lte", "eq", "neq"}

MakeEqualityTransformMetaData == Rows("Null", Slots, Result, Operators)

MakeLogicalTransformMetaData ==
    Rows("Null", Slot, Result, {"logical_not"})
      \cup Rows("Null", Slots, Result,
                {"logical_or", "logical_and", "logical_and_not", "logical_xor"})

MakeValueCompareMetaData ==
    Rows("Null", Slot, Result,
         {p \o op : p \in {"previous_", "highest_", "lowest_"}, op \in Operators})

BooleanSelects ==
    Rows("Null", {"condition", "true", "false"}, Value, Typed("boolean_select_"))

Switches ==
    UNION {Rows("Null", {"index"} \cup s[2], Value, Typed(s[1])) :
             s \in {<<"switch2_", Slots>>,
                    <<"switch3_", Slots \cup {"SLOT2"}>>,
                    <<"switch4_", Slots \cup {"SLOT2", "SLOT3"}>>,
                    <<"switch5_", Slots \cup {"SLOT2", "SLOT3", "SLOT4"}>>}}

PercentileSelects ==
    Rows("Null", {"value", "high", "low"}, Value, Typed("percentile_select_"))

FirstNonNulls == Rows("Null", Slot, Value, Typed("first_non_null_"))

ConditionalSelects == Rows("Null", Slot, Value, Typed("conditional_select_"))

MakeComparativeMetaData ==
    UNION {MakeEqualityTransformMetaData, BooleanSelects, Switches,
           PercentileSelects, MakeLogicalTransformMetaData,
           MakeValueCompareMetaData, FirstNonNulls, ConditionalSelects}

MakeLagMetaData == Rows("line", Slot, Result, Typed("lag_"))

MakeScalarMetaData ==
    Rows("Null", {}, Result,
         {"number", "text", "bool_true", "bool_false", "one", "negative_one",
          "zero", "pi", "e", "phi", "sqrt2", "sqrt3", "sqrt5", "ln2", "ln10",
          "log2e", "log10e"})
      \cup Rows("Null", {}, Value, Typed("null_"))

MakeDataSource ==
    UNION {Rows("Null", {}, {"o", "h", "l", "c", "v"}, {"market_data_source"}),
           Rows("vwap", {}, Result, {"vwap"}),
           Rows("column", {}, Result, {"trade_count"})}

MakeTradeSignalExecutor ==
    Rows("trade_signal", {"enter_long", "enter_short", "exit_long", "exit_short"},
         {}, {"trade_signal_executor"})

MakeCalendarEffectMetaData ==
    Rows("zone", {}, Result,
         {"turn_of_month", "day_of_week", "month_of_year", "quarter", "holiday",
          "week_of_month"})

HeadAndShoulders ==
    UNION {Rows(k, {}, {"pattern_detected", "neckline_level", "target"}, {k}) :
             k \in {"head_and_shoulders", "inverse_head_and_shoulders"}}

TopsFlagsAndTriangles ==
    UNION {Rows("double_top_bottom", {},
                {"pattern_detected", "breakout_level", "target"},
                {"double_top_bottom"}),
           Rows("flag_pattern", {}, {"bull_flag", "bear_flag", "slmax", "slmin"},
                {"flag"}),
           Rows("triangle_patterns", {},
                {"pattern_detected", "upper_slope", "lower_slope", "triangle_type"},
                {"triangles"})}

PennantsAndBoxes ==
    UNION {Rows("pennant_pattern", {},
                {"bull_pennant", "bear_pennant", "slmax", "slmin"}, {"pennant"}),
           Rows("zone", {}, Value, {"session_time_window"}),
           Rows("consolidation_box", {},
                {"box_detected", "box_top", "box_bottom", "box_height",
                 "touch_count", "upper_slope", "lower_slope", "target_up",
                 "target_down"},
                {"consolidation_box"})}

MakeChartFormationMetaData ==
    UNION {Rows("pivot_point_detector", {},
                {"pivot_type", "pivot_level", "pivot_index"},
                {"flexible_pivot_detector"}),
           HeadAndShoulders, TopsFlagsAndTriangles, PennantsAndBoxes}

StringsWithOptions ==
    Rows("Null", Slot, Result,
         {"string_case", "string_trim", "string_contains", "string_check"})

StringsWithout ==
    Rows("Null", Slot, Result, {"string_replace", "string_length", "string_reverse"})

MakeStringTransformMetaData == StringsWithOptions \cup StringsWithout

-----------------------------------------------------------------------------
\* The lists of the components' headers.

MakeForwardReturnsMetaData == Rows("panel_line", Slot, Result, {"forward_returns"})
MakeIntradayReturnsMetaData == Rows("panel_line", {}, Result, {"intraday_returns"})

MakeValidationMetaData ==
    Rows("Null", Slot, Result, {"is_null", "is_valid", "is_zero", "is_one"})

MakeStaticCastMetaData ==
    Rows("Null", Slot, Result,
         {"static_cast_to_" \o t :
            t \in {"integer", "decimal", "boolean", "string", "timestamp"}})

MakeStringifyMetaData == Rows("Null", Slot, Result, {"stringify"})

MakeGroupByAggMetaData ==
    Rows("Null", {"group_key", "value"}, {"group_key", "value"},
         {"groupby_numeric_agg", "groupby_boolean_agg", "groupby_any_agg"})

DatetimeExtracts ==
    Rows("Null", {}, Value, {"index_datetime_extract"})
      \cup Rows("Null", Slot, Value, {"column_datetime_extract"})

TimestampsAndDifferences ==
    Rows("Null", {}, Value, {"timestamp_scalar"})
      \cup Rows("Null", Slots, Value, {"datetime_diff"})

MakeDatetimeTransforms == DatetimeExtracts \cup TimestampsAndDifferences

MakeSageMakerSentimentTransforms ==
    Rows("sentiment", Slot, {"sentiment", "score"}, {"finbert_sentiment"})

Statement == {"cik", "fiscal_quarter", "fiscal_year", "period_end", "timeframe"}

BalanceSheet ==
    Rows("flag", {},
         Statement \cup
         {"accounts_payable", "accrued_liabilities", "aoci", "cash",
          "current_debt", "deferred_revenue", "inventories", "long_term_debt",
          "other_current_assets", "other_ltl", "ppe_net", "receivables",
          "retained_earnings"}, {"balance_sheet"})

IncomeStatement ==
    Rows("flag", {},
         Statement \cup
         {"basic_eps", "basic_shares", "net_income", "cogs", "diluted_eps",
          "diluted_shares", "gross_profit", "ebt", "income_tax", "ni_common",
          "operating_income", "other_income", "other_opex", "rnd", "revenue",
          "sga"}, {"income_statement"})

CashFlow ==
    Rows("flag", {},
         Statement \cup
         {"cfo_cont", "change_in_cash", "change_in_wc", "dna", "dividends",
          "lt_debt_net", "cff", "cff_cont", "cfi", "cfi_cont", "cfo",
          "net_income", "other_cff", "other_cfi", "other_cfo", "capex",
          "st_debt_net"}, {"cash_flow"})

FinancialRatios ==
    Rows("flag", {},
         {"avg_volume", "cash", "cik", "current_ratio", "date", "debt_equity",
          "div_yield", "eps", "ev", "ev_ebitda", "ev_sales", "fcf",
          "market_cap", "price", "pb", "pcf", "pe", "pfcf", "ps",
          "quick_ratio", "roa", "roe", "ticker"}, {"financial_ratios"})

MakePolygonDataSources ==
    UNION {BalanceSheet, IncomeStatement, CashFlow, FinancialRatios}

\* External: the outputs the SDK declares for its event sources and its bars.
SdkEvent == {"date"}
SdkBars == {"o", "h", "l", "c", "v"}

MakePolygonIndicesDataSources ==
    Rows("close_line", {}, SdkBars, {"common_indices", "indices"})
MakeReferenceStocksDataSources ==
    Rows("close_line", {}, SdkBars, {"us_reference_stocks"})
MakeFREDDataSource == Rows("flag", {}, SdkEvent, {"economic_indicator"})
MakeNewsDataSource == Rows("flag", {}, SdkEvent, {"news"})
MakeDividendsDataSource == Rows("flag", {}, SdkEvent, {"dividends"})
MakeSplitsDataSource == Rows("flag", {}, SdkEvent, {"splits"})
MakeTickerEventsDataSource == Rows("flag", {}, SdkEvent, {"ticker_events"})
MakeShortInterestDataSource == Rows("flag", {}, SdkEvent, {"short_interest"})
MakeShortVolumeDataSource == Rows("flag", {}, SdkEvent, {"short_volume"})

-----------------------------------------------------------------------------
\* files/transforms.yaml

YamlBandsAndRanks ==
    UNION {Rows("bb_percent_b", {"bbands_lower", "bbands_upper"}, Result,
                {"bband_percent"}),
           Rows("panel_line", {"bbands_lower", "bbands_middle", "bbands_upper"},
                Result, {"bband_width"}),
           Rows("panel_line", Slot, Result, {"cs_momentum"}),
           Rows("Null", Slot, Result,
                {"top_k", "bottom_k", "top_k_percent", "bottom_k_percent"})}

YamlAggregates ==
    UNION {Rows("Null", Slot, Result, {"cum_prod"}),
           Rows("line", Slot, Result, {"ma"}),
           Rows("panel_line", {}, Result, {"return_vol", "price_diff_vol"}),
           Rows("Null", Slot, Result,
                {"agg_" \o a : a \in {"all_of", "any_of", "none_of", "max", "min",
                                      "sum", "mean", "all_equal", "all_unique"}}),
           Rows("Null", {"condition"}, {"true", "false"}, {"boolean_branch"}),
           Rows("Null", {"ratio"}, {"high", "normal", "low"}, {"ratio_branch"})}

YamlPriceActions ==
    UNION {Rows("shl", {}, {"high_low", "level"}, {"swing_highs_lows"}),
           Rows("bos_choch", {"high_low", "level"},
                {"bos", "choch", "level", "broken_index"}, {"bos_choch"}),
           Rows("fvg", {}, {"fvg", "top", "bottom", "mitigated_index"},
                {"fair_value_gap"}),
           Rows("liquidity", {"high_low", "level"},
                {"liquidity", "level", "end", "swept"}, {"liquidity"}),
           Rows("order_blocks", {"high_low"},
                {"ob", "top", "bottom", "ob_volume", "mitigated_index",
                 "percentage"}, {"order_blocks"}),
           Rows("previous_high_low", {},
                {"previous_high", "previous_low", "broken_high", "broken_low"},
                {"previous_high_low"}),
           Rows("retracements", {"high_low", "level"},
                {"direction", "current_retracement", "deepest_retracement"},
                {"retracements"}),
           Rows("sessions", {}, {"active", "high", "low", "closed", "opened"},
                {"sessions", "time_of_day"})}

YamlVolatility ==
    UNION {Rows("bbands", {}, {"upper_band", "middle_band", "lower_band"},
                {"acceleration_bands"}),
           Rows("bbands", {}, {"upper_band", "lower_band"}, {"keltner_channels"}),
           Rows("panel_line", {}, Result,
                {"garman_klass", "hodges_tompkins", "parkinson", "ulcer_index",
                 "yang_zhang"})}

YamlIndicators ==
    UNION {Rows("chande_kroll_stop", {}, {"long_stop", "short_stop"},
                {"chande_kroll_stop"}),
           Rows("elders", {}, {"result", "ema", "buy_signal", "sell_signal"},
                {"elders_thermometer"}),
           Rows("panel_line", Slot, Result,
                {"hurst_exponent", "rolling_hurst_exponent"}),
           Rows("pivot_point_sr", {},
                {"pivot", "resist_1", "resist_2", "resist_3",
                 "support_1", "support_2", "support_3"}, {"pivot_point_sr"}),
           Rows("column", {}, Result, {"price_distance", "psl"})}

YamlStatistics ==
    UNION {Rows("panel_line", {"x", "y"}, {"correlation"},
                {"rolling_corr", "ewm_corr"}),
           Rows("panel_line", {"x", "y"}, {"covariance"},
                {"rolling_cov", "ewm_cov"}),
           Rows("panel_line", {"asset_returns", "market_returns"}, {"beta"},
                {"beta"})}

YamlOverlays ==
    UNION {Rows("qqe", {}, {"result", "rsi_ma", "long_line", "short_line"}, {"qqe"}),
           Rows("vortex", {}, {"plus_indicator", "minus_indicator"}, {"vortex"}),
           Rows("Null", Slot, {"long", "short"}, {"trade_executor_adapter"}),
           Rows("bbands", {}, {"bbands_upper", "bbands_middle", "bbands_lower"},
                {"donchian_channel"}),
           Rows("ichimoku", {},
                {"tenkan", "kijun", "senkou_a", "senkou_b", "chikou"}, {"ichimoku"}),
           Rows("panel_line", Slot, Result, {"zscore"})}

YamlMarkovModels ==
    LET Probability(n) == "state_" \o n \o "_prob"
        Two == {"state", Probability("0"), Probability("1")}
        Three == Two \cup {Probability("2")}
        Four == Three \cup {Probability("3")}
    IN UNION {Rows("hmm", Slot, Two, {"hmm_2"}), Rows("hmm", Slot, Three, {"hmm_3"}),
              Rows("hmm", Slot, Four, {"hmm_4"}),
              Rows("hmm", Slot, Four \cup {Probability("4")}, {"hmm_5"})}

YamlGapsAndOperators ==
    UNION {Rows("gap", {},
                {"gap_filled", "gap_retrace", "gap_size", "psc", "psc_timestamp"},
                {"session_gap", "bar_gap"}),
           Rows("panel_line", {}, Result, {"intraday_returns"}),
           Rows("panel_line", Slot, Result, {"cs_zscore"}),
           Rows("panel_line", Slots, Result, {"modulo", "power_op"})}

TransformsYaml ==
    UNION {YamlBandsAndRanks, YamlAggregates, YamlPriceActions, YamlVolatility,
           YamlIndicators, YamlStatistics, YamlOverlays, YamlMarkovModels,
           YamlGapsAndOperators}

-----------------------------------------------------------------------------
\* Registered by InitializeTransforms itself.

EventMarkerMetadata == Rows("Null", Slot, {}, {"event_marker"})

NumericCardReport == Rows("Null", Slot, {}, {"numeric_cards_report"})
BooleanCardReport == Rows("Null", Slot, {}, {"boolean_cards_report"})
AnyCardReport == Rows("Null", Slot, {}, {"any_cards_report"})
IndexCardReport == Rows("Null", Slot, {}, {"index_cards_report"})
QuantileCardReport == Rows("Null", Slot, {}, {"quantile_cards_report"})
TableReport == Rows("Null", Slot, {}, {"table_report"})
BarChartReport == Rows("Null", {"label", "value"}, {}, {"bar_chart_report"})
PieChartReport == Rows("Null", {"label", "value"}, {}, {"pie_chart_report"})
NestedPieChartReport ==
    Rows("Null", {"inner_label", "outer_label", "value"}, {},
         {"nested_pie_chart_report"})
HistogramChartReport == Rows("Null", {"value"}, {}, {"histogram_chart_report"})
CSBarChartReport == Rows("Null", Slot, {}, {"cs_bar_chart_report"})
CSTableReport == Rows("Null", Slot, {}, {"cs_table_report"})
CSNumericCardReport == Rows("Null", Slot, {}, {"cs_numeric_cards_report"})
GapReport ==
    Rows("Null", {"gap_filled", "gap_retrace", "gap_size", "psc", "psc_timestamp"},
         {}, {"gap_report"})

Reports ==
    UNION {NumericCardReport, BooleanCardReport, AnyCardReport, IndexCardReport,
           QuantileCardReport, TableReport, BarChartReport, PieChartReport,
           NestedPieChartReport, HistogramChartReport, CSBarChartReport,
           CSTableReport, CSNumericCardReport, GapReport}

-----------------------------------------------------------------------------
\* The rows that ask for one input at least instead of all.
AtLeastOneInputRequired ==
    Ids(UNION {MakeTradeSignalExecutor, MakeGroupByAggMetaData,
               MakeSageMakerSentimentTransforms, EventMarkerMetadata,
               Reports \ GapReport})
      \cup {"column_datetime_extract", "datetime_diff"}

=============================================================================
