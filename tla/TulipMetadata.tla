---------------------------- MODULE TulipMetadata ----------------------------
(***************************************************************************)
(* The rows made from the tables of libtulip (transforms/                  *)
(* tulip_indicators.cpp and tulip_charts.cpp): the plot kind is looked up  *)
(* in a table of this repository, the inputs and outputs are the library's *)
(* own.                                                                    *)
(***************************************************************************)
EXTENDS TransformMetadata

Plotted(kind, names) == {<<kind, i>> : i \in names}

\* MakeTulipIndicatorMetaData, in the order of the source.
VectorOperations ==
    UNION {Plotted("Null", {"abs", "acos", "add", "asin", "atan", "ceil", "cos",
                            "cosh", "div", "exp", "floor", "ln", "log10"}),
           Plotted("flag", {"crossany", "crossover", "crossunder"}),
           Plotted("line", {"decay", "edecay"})}

VectorStatistics ==
    UNION {Plotted("Null", {"mul", "round", "sin", "sinh", "sqrt", "sub", "sum",
                            "tan", "tanh", "todeg", "torad", "trunc"}),
           Plotted("line", {"max", "min"}),
           Plotted("panel_line", {"md", "stddev", "stderr", "var"})}

IndicatorsAtoC ==
    UNION {Plotted("panel_line", {"ad", "adosc", "adx", "adxr", "apo", "aroonosc",
                                  "atr", "avgprice", "bop", "cmo", "cvi"}),
           Plotted("ao", {"ao"}), Plotted("aroon", {"aroon"}),
           Plotted("bbands", {"bbands"}), Plotted("cci", {"cci"})}

IndicatorsDtoM ==
    UNION {Plotted("line", {"dema", "ema", "hma", "kama", "linreg"}),
           Plotted("panel_line", {"di", "dm", "dpo", "dx", "emv", "kvo",
                                  "linregintercept", "linregslope"}),
           Plotted("fisher", {"fisher"}), Plotted("fosc", {"fosc"}),
           Plotted("macd", {"macd"})}

IndicatorsMtoR ==
    UNION {Plotted("column", {"marketfi"}), Plotted("line", {"medprice"}),
           Plotted("panel_line", {"mass", "mom", "msw", "natr", "nvi", "obv",
                                  "ppo", "pvi", "roc", "rocr"}),
           Plotted("rsi", {"mfi", "rsi"}), Plotted("psar", {"psar"}),
           Plotted("qstick", {"qstick"})}

IndicatorsStoV ==
    UNION {Plotted("line", {"sma", "tema", "trima", "tsf", "typprice"}),
           Plotted("panel_line", {"tr", "trix", "ultosc", "vhf"}),
           Plotted("stoch", {"stoch"}), Plotted("rsi", {"stochrsi"})}

IndicatorsVtoZ ==
    UNION {Plotted("line", {"vidya", "vwma", "wcprice", "wilders", "wma", "zlema"}),
           Plotted("panel_line", {"volatility", "vosc", "wad"}),
           Plotted("rsi", {"willr"})}

MakeTulipIndicatorMetaData ==
    UNION {VectorOperations, VectorStatistics, IndicatorsAtoC, IndicatorsDtoM,
           IndicatorsMtoR, IndicatorsStoV, IndicatorsVtoZ}

\* External: the indicators of libtulip that read one or two plain series; the
\* others read only prices and volume, which MakeTulipInputs skips.
OneSeries ==
    {"abs", "acos", "apo", "asin", "atan", "bbands", "ceil", "cmo", "cos", "cosh",
     "decay", "dema", "dpo", "edecay", "ema", "exp", "floor", "fosc", "hma",
     "kama", "linreg", "linregintercept", "linregslope", "ln", "log10", "macd",
     "max", "md", "min", "mom", "msw", "ppo", "roc", "rocr", "round", "rsi",
     "sin", "sinh", "sma", "sqrt", "stddev", "stderr", "stochrsi", "sum", "tan",
     "tanh", "tema", "todeg", "torad", "trima", "trix", "trunc", "tsf", "var",
     "vhf", "vidya", "volatility", "wilders", "wma", "zlema"}
TwoSeries == {"add", "crossany", "crossover", "div", "mul", "sub"}

\* External: the outputs of the indicators of libtulip that have several.
SeveralOutputs ==
    [aroon |-> {"aroon_down", "aroon_up"},
     bbands |-> {"bbands_lower", "bbands_middle", "bbands_upper"},
     di |-> {"plus_di", "minus_di"}, dm |-> {"plus_dm", "minus_dm"},
     fisher |-> {"fisher", "fisher_signal"},
     macd |-> {"macd", "macd_signal", "macd_histogram"},
     msw |-> {"msw_sine", "msw_lead"}, stoch |-> {"stoch_k", "stoch_d"}]

MakeTulipInputs(name) ==
    IF name \in OneSeries THEN Slot ELSE IF name \in TwoSeries THEN Slots ELSE {}

\* A single output is called result, whatever its name in the library.
MakeTulipOutputs(name) ==
    IF name \in DOMAIN SeveralOutputs THEN SeveralOutputs[name] ELSE Result

\* crossunder is added to those of the library, as a crossover.  The vector has
\* a place for each indicator but lag is left out, so its last row stays empty.
MakeTulipIndicators ==
    UNION {Rows(p[1], MakeTulipInputs(p[2]), MakeTulipOutputs(p[2]), {p[2]}) :
             p \in {q \in MakeTulipIndicatorMetaData : q[2] # "crossunder"}}
      \cup Rows("flag", Slots, Result, {"crossunder"})
      \cup Rows("Null", {}, {}, {""})

MakeCandlePatternMetaData ==
    {"abandoned_baby_bear", "abandoned_baby_bull", "big_black_candle",
     "big_white_candle", "black_marubozu", "doji", "dragonfly_doji",
     "engulfing_bear", "engulfing_bull"}

StarsAndHammers ==
    {"evening_doji_star", "evening_star", "four_price_doji", "gravestone_doji",
     "hammer", "hanging_man", "inverted_hammer", "long_legged_doji", "marubozu",
     "morning_doji_star", "morning_star"}

SoldiersAndCrows ==
    {"shooting_star", "spinning_top", "star", "three_black_crows",
     "three_white_soldiers", "white_marubozu"}

MakeTulipCandles ==
    Rows("flag", {}, Result,
         UNION {MakeCandlePatternMetaData, StarsAndHammers, SoldiersAndCrows})

=============================================================================
