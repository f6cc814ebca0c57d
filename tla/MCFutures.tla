----------------------------- MODULE MCFutures ------------------------------
(***************************************************************************)
(* All ways two or three contracts can have bars at four timestamps, daily *)
(* and in days of two timestamps, under every method and direction.        *)
(***************************************************************************)
EXTENDS Futures

MCTimes == 1..4
BarSets == SUBSET MCTimes \ {{}}

MCExpiry == <<2, 3, 9>>
MCMonthStart == <<1, 2, 8>>

\* No two bars have one price, nor two pairs of bars one difference.
MCPrice == [c \in 1..3 |-> [t \in MCTimes |-> 5 * t * t + 7 * c * c * c + c * t]]

\* The next contract overtakes the front one at a time of its own.
MCOpenInterest == [c \in 1..3 |-> [t \in MCTimes |-> IF t <= c THEN 6 ELSE c]]

\* What may lie behind the last row.
MCJunk == {-100, 100}

\* The lifetimes of a contract without a missing bar.
Lifetimes == {m..n : m \in MCTimes, n \in MCTimes} \ {{}}

\* Two contracts of any bars, and three of which one may miss some.
Chains == {<<g, h>> : g \in BarSets, h \in BarSets}
          \cup {<<g, h, k>> : g \in Lifetimes, h \in BarSets, k \in Lifetimes}

Options ==
  {[method |-> m, offset |-> o, direction |-> d] :
     m \in Methods, o \in {0, 1}, d \in {"Backward"}}
  \cup {[method |-> "LastTradingDay", offset |-> 0, direction |-> "Forward"]}

MCSetups ==
  {[groups |-> g, dayLength |-> n, method |-> o.method, offset |-> o.offset,
    direction |-> o.direction] : g \in Chains, n \in {1, 2}, o \in Options}

\* A roll with complete data, and one with a bar missing.
RollSetups ==
  {[groups |-> g, dayLength |-> 1, method |-> "LastTradingDay", offset |-> 0,
    direction |-> "Backward"] :
     g \in {<<1..4, k, h>> : k \in {1..4, 2..4}, h \in {1..4, 3..4, 2..4}}}

GapSetups ==
  {[groups |-> g, dayLength |-> 1, method |-> "LastTradingDay", offset |-> 0,
    direction |-> "Backward"] :
     g \in {<<1..4, {1, 3, 4}, h>> : h \in BarSets}}

=============================================================================
