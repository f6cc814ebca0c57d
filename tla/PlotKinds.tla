------------------------------ MODULE PlotKinds ------------------------------
(***************************************************************************)
(* The builders of the plot kinds (chart_metadata/plot_kinds): what each   *)
(* requires of the transform it draws, its layer, and whether it wants an  *)
(* axis of its own.  A builder that misses something throws.               *)
(***************************************************************************)
EXTENDS Integers, Sequences, FiniteSets

Probabilities == {"state_" \o n \o "_prob" : n \in {"0", "1", "2", "3", "4"}}

\* needs: the outputs it validates one by one; the builders that look at more
\* than single outputs name their check instead.
Builder(needs, z, own) ==
    [needs |-> needs, z |-> z, own |-> own, check |-> "outputs"]
Checking(check, z, own) == [Builder({}, z, own) EXCEPT !.check = check]

SingleValueBuilder == Builder({"result"}, 5, TRUE)
LineBuilder == Builder({"result"}, 5, FALSE)

\* Builders derived from LineBuilder.
AOBuilder == [LineBuilder EXCEPT !.z = 0, !.own = TRUE]
QStickBuilder == [LineBuilder EXCEPT !.z = 0, !.own = TRUE]
ATRBuilder == [LineBuilder EXCEPT !.own = TRUE]
CCIBuilder == [LineBuilder EXCEPT !.own = TRUE]
RSIBuilder == [LineBuilder EXCEPT !.own = TRUE]
PanelLineBuilder == [LineBuilder EXCEPT !.own = TRUE]
PanelLinePercentBuilder == [LineBuilder EXCEPT !.own = TRUE]
ColumnBuilder == [LineBuilder EXCEPT !.z = 0]
HLineBuilder == LineBuilder
PSARBuilder == LineBuilder
VWAPBuilder == LineBuilder

\* Panels of several lines.
MACDBuilder == Builder({"macd", "macd_signal", "macd_histogram"}, 5, TRUE)
AroonBuilder == Builder({"aroon_up", "aroon_down"}, 5, TRUE)
StochBuilder == Builder({"stoch_k", "stoch_d"}, 5, TRUE)
FisherBuilder == Builder({"fisher", "fisher_signal"}, 5, TRUE)
QQEBuilder == Builder({"result", "rsi_ma", "long_line", "short_line"}, 5, TRUE)
EldersBuilder == Builder({"result", "ema", "buy_signal", "sell_signal"}, 5, TRUE)
FOscBuilder == Builder({"result"}, 5, TRUE)
VortexBuilder == Builder({"plus_indicator", "minus_indicator"}, 5, TRUE)
SentimentBuilder == Builder({"sentiment", "score"}, 5, TRUE)
BBPercentBBuilder == Checking("one of several", 5, TRUE)

\* Overlays on the prices.
BbandsBuilder == Builder({"bbands_upper", "bbands_middle", "bbands_lower"}, 1, FALSE)
IchimokuBuilder ==
    Builder({"tenkan", "kijun", "senkou_a", "senkou_b", "chikou"}, 1, FALSE)
ChandeKrollStopBuilder == Builder({"long_stop", "short_stop"}, 1, FALSE)
PivotPointSRBuilder ==
    Builder({"pivot", "resist_1", "resist_2", "resist_3",
             "support_1", "support_2", "support_3"}, 5, FALSE)
PreviousHighLowBuilder ==
    Builder({"previous_high", "previous_low", "broken_high", "broken_low"}, 5, FALSE)
RetracementsBuilder ==
    Builder({"direction", "current_retracement", "deepest_retracement"}, 5, FALSE)
GapBuilder ==
    Builder({"gap_filled", "gap_retrace", "gap_size", "psc", "psc_timestamp"},
            1, FALSE)
SHLBuilder == Builder({"high_low", "level"}, 10, FALSE)
BosChochBuilder == Builder({"bos", "choch", "level", "broken_index"}, 10, FALSE)
OrderBlocksBuilder ==
    Builder({"ob", "top", "bottom", "ob_volume", "mitigated_index", "percentage"},
            5, FALSE)
FVGBuilder == Builder({"fvg", "top", "bottom", "mitigated_index"}, 5, FALSE)
LiquidityBuilder == Builder({"liquidity", "level", "end", "swept"}, 5, FALSE)
SessionsBuilder == Builder({"active", "high", "low", "closed", "opened"}, 5, FALSE)
PivotPointDetectorBuilder ==
    Builder({"pivot_type", "pivot_level", "pivot_index"}, 5, FALSE)
CloseLineBuilder == Builder({"c"}, 5, FALSE)
HMMBuilder == Checking("states", 5, FALSE)
ZoneBuilder == Checking("result or value", 3, FALSE)
FlagBuilder == Checking("any output", 10, FALSE)
TradeSignalBuilder == Checking("inputs", 100, FALSE)

\* Chart patterns.
FlagPatternBuilder == Builder({"bull_flag", "bear_flag", "slmax", "slmin"}, 10, FALSE)
PennantPatternBuilder ==
    Builder({"bull_pennant", "bear_pennant", "slmax", "slmin"}, 10, FALSE)
TrianglePatternsBuilder ==
    Builder({"pattern_detected", "upper_slope", "lower_slope", "triangle_type"},
            10, FALSE)
ConsolidationBoxBuilder ==
    Builder({"box_detected", "box_top", "box_bottom", "box_height", "touch_count",
             "upper_slope", "lower_slope", "target_up", "target_down"}, 5, FALSE)
DoubleTopBottomBuilder ==
    Builder({"pattern_detected", "breakout_level", "target"}, 10, FALSE)
HeadAndShouldersBuilder ==
    Builder({"pattern_detected", "neckline_level", "target"}, 10, FALSE)
InverseHeadAndShouldersBuilder ==
    Builder({"pattern_detected", "neckline_level", "target"}, 10, FALSE)

InitializeBuilders ==
    [macd |-> MACDBuilder, aroon |-> AroonBuilder, stoch |-> StochBuilder,
     fisher |-> FisherBuilder, qqe |-> QQEBuilder, elders |-> EldersBuilder,
     fosc |-> FOscBuilder, vortex |-> VortexBuilder, bbands |-> BbandsBuilder,
     bb_percent_b |-> BBPercentBBuilder, ichimoku |-> IchimokuBuilder,
     chande_kroll_stop |-> ChandeKrollStopBuilder,
     pivot_point_sr |-> PivotPointSRBuilder,
     previous_high_low |-> PreviousHighLowBuilder,
     retracements |-> RetracementsBuilder, gap |-> GapBuilder, shl |-> SHLBuilder,
     bos_choch |-> BosChochBuilder, order_blocks |-> OrderBlocksBuilder,
     fvg |-> FVGBuilder, liquidity |-> LiquidityBuilder,
     sessions |-> SessionsBuilder,
     pivot_point_detector |-> PivotPointDetectorBuilder, hmm |-> HMMBuilder,
     flag_pattern |-> FlagPatternBuilder, pennant_pattern |-> PennantPatternBuilder,
     triangle_patterns |-> TrianglePatternsBuilder,
     consolidation_box |-> ConsolidationBoxBuilder,
     double_top_bottom |-> DoubleTopBottomBuilder,
     head_and_shoulders |-> HeadAndShouldersBuilder,
     inverse_head_and_shoulders |-> InverseHeadAndShouldersBuilder,
     trade_signal |-> TradeSignalBuilder, flag |-> FlagBuilder,
     zone |-> ZoneBuilder, close_line |-> CloseLineBuilder, line |-> LineBuilder,
     h_line |-> HLineBuilder, vwap |-> VWAPBuilder, column |-> ColumnBuilder,
     ao |-> AOBuilder, qstick |-> QStickBuilder, psar |-> PSARBuilder,
     panel_line |-> PanelLineBuilder,
     panel_line_percent |-> PanelLinePercentBuilder, rsi |-> RSIBuilder,
     cci |-> CCIBuilder, atr |-> ATRBuilder, sentiment |-> SentimentBuilder]

Registered(kind) == kind \in DOMAIN InitializeBuilders

\* Validate, as the builders override it.
Validate(b, inputs, outputs) ==
    /\ b.check = "outputs" => b.needs \subseteq outputs
    /\ b.check = "one of several" =>
         /\ outputs # {}
         /\ Cardinality(outputs) > 1 => outputs \cap {"result", "value"} # {}
    /\ b.check = "states" =>
         "state" \in outputs /\ Cardinality(outputs \cap Probabilities) >= 2
    /\ b.check = "result or value" =>
         Cardinality(outputs \cap {"result", "value"}) = 1
    /\ b.check = "any output" => outputs # {}
    /\ b.check = "inputs" => inputs # {}

\* What Build asks of a kind: a builder, and that it accepts the transform.
Builds(kind, inputs, outputs) ==
    Registered(kind) /\ Validate(InitializeBuilders[kind], inputs, outputs)

=============================================================================
