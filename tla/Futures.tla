------------------------------ MODULE Futures ------------------------------
(***************************************************************************)
(* FuturesContinuation: one series out of the contracts of a futures       *)
(* asset.  BuildBars walks the timeline of all bars, holds a front         *)
(* contract, rolls to the next one when it has expired or the rollover     *)
(* method says so, and captures a bar of the front and of the next         *)
(* contract per timestamp; AdjustContracts then shifts the prices of the   *)
(* segments between the rolls.                                             *)
(*                                                                         *)
(* A bar is the contract and the timestamp it comes from, with one price   *)
(* for its four.  The Ratio style is the PanamaCanal style on the          *)
(* logarithms of the prices.  Rows and roll indexes count from 0, as in    *)
(* the code; the sequences that hold them start at 1.                      *)
(***************************************************************************)
EXTENDS Integers, Sequences, FiniteSets, FiniteSetsExt

CONSTANTS
  Times,         \* the timestamps of the bars
  MaxContracts,  \* contracts are 1..MaxContracts, by expiration date
  Setups,        \* the bars and the options BuildBars may be called with
  Expiry,        \* the day a contract expires, in trading days
  MonthStart,    \* the first trading day of its expiration month
  Price,         \* the price of a contract's bar
  OpenInterest,  \* its open interest
  Junk           \* what a read behind the end of the bars may give

Contracts == 1..MaxContracts
Methods == {"LastTradingDay", "FirstOfMonth", "LiquidityBased"}
Directions == {"Backward", "Forward"}

Setup ==
  [groups    : Seq(SUBSET Times),   \* the timestamps each contract has a bar for
   dayLength : Nat \ {0},           \* timestamps in a day
   method    : Methods,
   offset    : Int,
   direction : Directions]

Bar == [contract : Contracts, time : Times]
Captured == [bar : Bar, contract : Contracts, time : Times]

ASSUME FuturesAssumption ==
  /\ Times \subseteq Nat /\ IsFiniteSet(Times)
  /\ MaxContracts \in Nat
  /\ \A s \in Setups :
       /\ s \in Setup
       /\ Len(s.groups) \in 2..MaxContracts
       /\ \A c \in DOMAIN s.groups : s.groups[c] # {}
  /\ Expiry \in [Contracts -> Int] /\ MonthStart \in [Contracts -> Int]
  /\ Price \in [Contracts -> [Times -> Int]]
  /\ OpenInterest \in [Contracts -> [Times -> Nat]]
  /\ Junk \subseteq Int

VARIABLES
  setup,      \* the call
  pc,         \* "rolling", "adjusting" or "done"
  timeline,   \* the timestamps still to come
  lastDay,    \* lastDecisionDay, or a day before all others
  front,      \* currentFrontContractIndex, from 1
  rolls,      \* rolloverPoints
  frontBars,  \* frontBarData
  backBars,   \* backBarData
  series      \* the prices of the continuation

vars == <<setup, pc, timeline, lastDay, front, rolls, frontBars, backBars, series>>

groups == setup.groups
Last == Len(groups)
RowIndex == Len(frontBars)
DayOf(t) == t \div setup.dayLength

TypeOK ==
  /\ setup \in Setup
  /\ pc \in {"rolling", "adjusting", "done"}
  /\ timeline \subseteq Times
  /\ lastDay \in Nat \cup {-1}
  /\ front \in 1..Last
  /\ rolls \in Seq(Nat)
  /\ frontBars \in Seq(Captured)
  /\ backBars \in Seq(Captured)
  /\ series \in Seq(Int)

Init ==
  /\ setup \in Setups
  /\ pc = "rolling"
  /\ timeline = UNION {groups[c] : c \in DOMAIN groups}
  /\ lastDay = -1
  /\ front = 1
  /\ rolls = <<>>
  /\ frontBars = <<>>
  /\ backBars = <<>>
  /\ series = <<>>

-----------------------------------------------------------------------------
(* The rollover methods. *)

\* A ratio of 0 / 0 is no number and not a roll.
IsRollDate(in, day) ==
  CASE setup.method = "LastTradingDay" ->
         Expiry[in.front.contract] <= day + setup.offset
    [] setup.method = "FirstOfMonth" ->
         day = MonthStart[in.front.contract] + setup.offset
    [] setup.method = "LiquidityBased" ->
         LET oi(bar) == OpenInterest[bar.contract][bar.time]
         IN  IF oi(in.front) = 0 THEN oi(in.back) > 0
             ELSE 100 * oi(in.back) >= (100 + setup.offset) * oi(in.front)

-----------------------------------------------------------------------------
(* BuildBars. *)

\* Mutant: searchsorted on the right.
BarsAfter(c, t) == {u \in groups[c] : u > t}

\* searchsorted: the bars of contract c at t or, if it has none there, the next.
BarsFrom(c, t) == {u \in groups[c] : u >= t}

GetData(c, t) == [contract |-> c, time |-> Min(BarsFrom(c, t))]

\* The contract the back leg is read from while f is the front contract: the
\* next one, unless there is none or it has not started trading.
BackOf(active, f, t) ==
  IF f # Last /\ t >= Min(groups[f + 1]) THEN f + 1 ELSE active

HasData(active, f, t) ==
  BarsFrom(active, t) # {} /\ BarsFrom(BackOf(active, f, t), t) # {}

\* makeRolloverData.  The group it reads the front bar from is bound before the
\* rollover method is asked.
RolloverData(active, f, t) ==
  [front |-> GetData(active, t), back |-> GetData(BackOf(active, f, t), t)]

\* The contracts that have no bar from t on are rolled over.
Forced(t) == Min({c \in front..Last : c = Last \/ t <= Max(groups[c])})

\* Mutant: a row index may be pushed twice.
PushAlways(points) == Append(points, RowIndex)

PushRoll(points) ==
  IF points # <<>> /\ points[Len(points)] = RowIndex THEN points
  ELSE Append(points, RowIndex)

Capture(in, f, t) ==
  /\ frontBars' = Append(frontBars, [bar |-> in.front, contract |-> f, time |-> t])
  /\ backBars' = Append(backBars, [bar |-> in.back, time |-> t,
                                   contract |-> IF f = Last THEN f ELSE f + 1])

NewDay(t) == DayOf(t) # lastDay

\* A contract is rolled over only at the first timestamp of a day.
ActiveAt(t) == IF NewDay(t) THEN Forced(t) ELSE front

NotStarted(t) == NewDay(t) /\ t < Min(groups[ActiveAt(t)])

RollsAt(t) ==
  /\ NewDay(t)
  /\ ActiveAt(t) # Last
  /\ IsRollDate(RolloverData(ActiveAt(t), ActiveAt(t), t), DayOf(t))

ForcedRolls(t) == IF ActiveAt(t) = front THEN rolls ELSE PushRoll(rolls)

\* The next timestamp t of the timeline.
Visits(t) ==
  /\ pc = "rolling"
  /\ timeline # {}
  /\ t = Min(timeline)
  /\ timeline' = timeline \ {t}
  /\ lastDay' = DayOf(t)
  /\ UNCHANGED <<setup, pc, series>>

\* The front contract has not started, or one of the two has no bar left.
SkipTimestamp(t) ==
  /\ Visits(t)
  /\ NotStarted(t) \/ ~HasData(ActiveAt(t), ActiveAt(t), t)
  /\ front' = ActiveAt(t)
  /\ rolls' = ForcedRolls(t)
  /\ UNCHANGED <<frontBars, backBars>>

CaptureTimestamp(t) ==
  /\ Visits(t)
  /\ ~NotStarted(t) /\ HasData(ActiveAt(t), ActiveAt(t), t)
  /\ ~RollsAt(t)
  /\ front' = ActiveAt(t)
  /\ rolls' = ForcedRolls(t)
  /\ Capture(RolloverData(ActiveAt(t), ActiveAt(t), t), ActiveAt(t), t)

\* A roll by the rollover method; the data is made again with the new front
\* contract, and may be missing now.
RollOver(t) ==
  /\ Visits(t)
  /\ ~NotStarted(t) /\ HasData(ActiveAt(t), ActiveAt(t), t)
  /\ RollsAt(t)
  /\ front' = ActiveAt(t) + 1
  /\ rolls' = PushRoll(ForcedRolls(t))
  /\ IF HasData(ActiveAt(t), ActiveAt(t) + 1, t)
     THEN Capture(RolloverData(ActiveAt(t), ActiveAt(t) + 1, t), ActiveAt(t) + 1, t)
     ELSE UNCHANGED <<frontBars, backBars>>

-----------------------------------------------------------------------------
(* AdjustContracts. *)

PriceOf(captured) == Price[captured.bar.contract][captured.bar.time]

\* CalculateRollIndexRanges, for at least one roll.
RollIndexRanges(points, n) ==
  LET k == Len(points)
  IN  [i \in 1..(k + 1) |->
         IF i = 1 THEN [start |-> 0, length |-> points[1]]
         ELSE IF i = k + 1 THEN [start |-> points[k], length |-> n - points[k]]
         ELSE [start |-> points[i - 1], length |-> points[i] - points[i - 1]]]

Ranges == RollIndexRanges(rolls, RowIndex)

\* ComputeAdjustmentFactor at row i; there is no row behind the last.
Factor(i, junk) ==
  IF i < RowIndex THEN PriceOf(backBars[i + 1]) - PriceOf(frontBars[i + 1]) ELSE junk

\* Mutant: the factor of the roll alone.
OneFactor(junk) ==
  [k \in DOMAIN Ranges |->
     IF setup.direction = "Backward"
     THEN IF k = Len(Ranges) THEN 0 ELSE Factor(Ranges[k + 1].start, junk)
     ELSE IF k = 1 THEN 0 ELSE Factor(Ranges[k].start, junk)]

\* The accumulated factor of every range: backward from the last range, with the
\* row after the range, or forward from the first, with the row the range
\* starts at.
Accumulated(junk) ==
  LET n == Len(Ranges)
      backward[k \in 1..n] ==
        IF k = n THEN 0
        ELSE backward[k + 1] + Factor(Ranges[k].start + Ranges[k].length, junk)
      forward[k \in 1..n] ==
        IF k = 1 THEN 0 ELSE forward[k - 1] + Factor(Ranges[k].start, junk)
  IN  IF setup.direction = "Backward" THEN backward ELSE forward

\* The range of row i; a row of no range would keep the 0 of its initialization.
RangesOf(i) ==
  {k \in DOMAIN Ranges : Ranges[k].start <= i /\ i < Ranges[k].start + Ranges[k].length}

Adjusted(factors) ==
  [i \in 1..RowIndex |->
     IF RangesOf(i - 1) = {} THEN 0
     ELSE PriceOf(frontBars[i]) + factors[Max(RangesOf(i - 1))]]

EndOfTimeline ==
  /\ pc = "rolling"
  /\ timeline = {}
  /\ pc' = "adjusting"
  /\ UNCHANGED <<setup, timeline, lastDay, front, rolls, frontBars, backBars, series>>

\* Without a roll the front bars are the series.
KeepFrontBars ==
  /\ pc = "adjusting"
  /\ rolls = <<>>
  /\ pc' = "done"
  /\ series' = [i \in 1..RowIndex |-> PriceOf(frontBars[i])]
  /\ UNCHANGED <<setup, timeline, lastDay, front, rolls, frontBars, backBars>>

AdjustContracts ==
  /\ pc = "adjusting"
  /\ rolls # <<>>
  /\ pc' = "done"
  /\ \E junk \in Junk : series' = Adjusted(Accumulated(junk))
  /\ UNCHANGED <<setup, timeline, lastDay, front, rolls, frontBars, backBars>>

-----------------------------------------------------------------------------

Next ==
  \/ \E t \in Times : SkipTimestamp(t) \/ CaptureTimestamp(t) \/ RollOver(t)
  \/ EndOfTimeline
  \/ KeepFrontBars
  \/ AdjustContracts

Spec == Init /\ [][Next]_vars

-----------------------------------------------------------------------------
(* Properties. *)

\* The roll indexes are exactly the rows at which the front contract changes:
\* forced rolls over several contracts, rolls by the method and rows that are
\* skipped after a roll never leave a change unmarked or a mark without one.
RollsMarkTheSwitches ==
  /\ \A i \in 1..(Len(rolls) - 1) : rolls[i] < rolls[i + 1]
  /\ \A r \in 1..(RowIndex - 1) :
       /\ frontBars[r].contract <= frontBars[r + 1].contract
       /\ (\E i \in DOMAIN rolls : rolls[i] = r)
            <=> frontBars[r].contract # frontBars[r + 1].contract

\* No contract has bars after those of a later one end.
OrderedLifetimes ==
  \A c \in 1..(Last - 1) : Max(groups[c]) <= Max(groups[c + 1])

\* The contracts start in order, and no bar is missing between first and last.
NoGaps ==
  /\ \A c \in 1..(Last - 1) : Min(groups[c]) <= Min(groups[c + 1])
  /\ \A c \in DOMAIN groups :
       \A t \in UNION {groups[d] : d \in DOMAIN groups} :
         Min(groups[c]) <= t /\ t <= Max(groups[c]) => t \in groups[c]

\* With contracts that end in the order they expire, every roll is followed by a
\* row: the adjustment reads no row behind the last.
RollsAreRows ==
  pc # "rolling" /\ OrderedLifetimes => \A i \in DOMAIN rolls : rolls[i] < RowIndex

\* The rolls split the rows into ranges that follow each other and cover them.
RangesCoverTheRows ==
  rolls # <<>> =>
    /\ Ranges[1].start = 0
    /\ \A k \in DOMAIN Ranges :
         /\ Ranges[k].length >= 0
         /\ Ranges[k].start + Ranges[k].length =
              IF k = Len(Ranges) THEN RowIndex ELSE Ranges[k + 1].start

\* Without gaps in the contracts a row takes no bar from another time than its
\* own, unless the method has rolled to a contract that has not started and the
\* day is not over.
AlignedWithoutGaps ==
  NoGaps =>
    \A r \in 1..RowIndex :
      LET now == frontBars[r].time
      IN  /\ backBars[r].time = now
          /\ now >= Min(groups[frontBars[r].contract]) =>
               frontBars[r].bar.time = now /\ backBars[r].bar.time = now

\* The series is the front bar plus the gaps of all rolls after it, or, forward,
\* of all rolls up to it; the rows on the other side of all rolls keep theirs.  The
\* rolls are rows, and their ranges cover the rows.
GapsBetween(lo, hi) ==
  LET sum[k \in 0..Len(rolls)] ==
        IF k = 0 THEN 0
        ELSE sum[k - 1] + IF lo <= rolls[k] /\ rolls[k] <= hi THEN Factor(rolls[k], 0) ELSE 0
  IN  sum[Len(rolls)]

SeriesAddsTheGaps ==
  /\ RollsAreRows /\ RangesCoverTheRows
  /\ pc = "done" /\ (\A i \in DOMAIN rolls : rolls[i] < RowIndex) =>
    /\ Len(series) = RowIndex
    /\ \A r \in 1..RowIndex :
         series[r] = PriceOf(frontBars[r]) +
           IF setup.direction = "Backward" THEN GapsBetween(r, RowIndex)
           ELSE GapsBetween(IF rolls = <<>> THEN 0 ELSE rolls[1], r - 1)

\* "Capture the bar data for the given contract at the current timestamp": a front
\* bar comes from the contract the row names.  Refuted: at a roll by the method it
\* is still that of the old contract.
BarsOfTheirContract ==
  \A r \in 1..RowIndex : frontBars[r].bar.contract = frontBars[r].contract

\* "This prevents us from injecting future prices into today's back leg."  Refuted:
\* where the next contract misses a bar its leg is that of a later time.
NoFuturePrices ==
  \A r \in 1..RowIndex : backBars[r].bar.time <= backBars[r].time

=============================================================================
