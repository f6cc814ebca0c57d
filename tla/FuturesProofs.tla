--------------------------- MODULE FuturesProofs ---------------------------
(***************************************************************************)
(* Theorems about Futures, for any number of contracts, any bars, prices   *)
(* and open interest, and every option.                                    *)
(***************************************************************************)
EXTENDS Futures, NumberSets, SequenceTheorems

-----------------------------------------------------------------------------
(* The bars of a contract. *)

\* The variables have their types; that of the series depends on sums over the
\* rolls and is left out.
Types ==
  /\ setup \in Setups
  /\ pc \in {"rolling", "adjusting", "done"}
  /\ timeline \subseteq UNION {groups[c] : c \in DOMAIN groups}
  /\ lastDay \in Nat \cup {-1}
  /\ front \in 1..Last
  /\ rolls \in Seq(Nat)
  /\ frontBars \in Seq(Captured)
  /\ backBars \in Seq(Captured) /\ Len(backBars) = RowIndex

LEMMA TimesAreNumbers == \A t \in Times : t \in Nat /\ t \in Int
<1>1. Times \subseteq Nat
  BY FuturesAssumption
<1> QED
  BY <1>1

LEMMA SetupTypes ==
  ASSUME setup \in Setups
  PROVE  /\ setup \in Setup
         /\ groups \in Seq(SUBSET Times) /\ Last \in 2..MaxContracts
         /\ \A c \in 1..Last : groups[c] # {} /\ groups[c] \subseteq Times
         /\ 1..Last = DOMAIN groups /\ 1..Last \subseteq Contracts
         /\ setup.dayLength \in Nat \ {0}
<1>1. setup \in Setup /\ Len(setup.groups) \in 2..MaxContracts
      /\ \A c \in DOMAIN setup.groups : setup.groups[c] # {}
  BY FuturesAssumption
<1>2. groups \in Seq(SUBSET Times) /\ setup.dayLength \in Nat \ {0}
  BY <1>1 DEF groups, Setup
<1>3. DOMAIN groups = 1..Last /\ Last \in 2..MaxContracts
  BY <1>1, <1>2 DEF Last, groups
<1>4. \A c \in 1..Last : groups[c] # {} /\ groups[c] \subseteq Times
  BY <1>1, <1>2, <1>3, SMTT(30) DEF groups
<1>5. 1..Last \subseteq Contracts
  BY <1>3, FuturesAssumption DEF Contracts
<1> QED
  BY <1>1, <1>2, <1>3, <1>4, <1>5

\* Every set of timestamps has a first and a last one.
LEMMA FirstAndLast ==
  ASSUME NEW S \in SUBSET Times, S # {}
  PROVE  /\ Min(S) \in S /\ Max(S) \in S
         /\ \A t \in S : Min(S) <= t /\ t <= Max(S)
<1>1. S \in SUBSET Nat /\ IsFiniteSet(S)
  BY FuturesAssumption, FS_Subset
<1> QED
  BY <1>1, Extremes

\* A contract that has a bar from t on gives its next one.
LEMMA NextBar ==
  ASSUME setup \in Setups, NEW c \in 1..Last, NEW t \in Times, BarsFrom(c, t) # {}
  PROVE  /\ GetData(c, t) \in Bar /\ GetData(c, t).contract = c
         /\ GetData(c, t).time \in groups[c] /\ t <= GetData(c, t).time
         /\ t \in groups[c] => GetData(c, t).time = t
<1> DEFINE S == BarsFrom(c, t)
<1>1. S \in SUBSET Times /\ S \in SUBSET groups[c] /\ \A u \in S : t <= u
  BY SetupTypes, FuturesAssumption DEF BarsFrom
<1>2. Min(S) \in S /\ \A u \in S : Min(S) <= u
  <2>1. S # {}
    OBVIOUS
  <2> HIDE DEF S
  <2> QED BY <1>1, <2>1, FirstAndLast
<1>3. t \in groups[c] => t \in S
  BY FuturesAssumption DEF BarsFrom
<1>4. t \in groups[c] => Min(S) = t
  <2> HIDE DEF S
  <2>0. Min(S) \in Times
    BY <1>1, <1>2
  <2>1. Min(S) \in Int /\ t \in Int
    BY <2>0, TimesAreNumbers
  <2> QED BY <1>1, <1>2, <1>3, <2>1
<1>5. c \in Contracts /\ Min(S) \in Times
  BY <1>1, <1>2, SetupTypes
<1> HIDE DEF S
<1>6. GetData(c, t) = [contract |-> c, time |-> Min(S)]
  BY DEF GetData, S
<1> QED
  BY <1>1, <1>2, <1>4, <1>5, <1>6 DEF Bar

\* The contracts without a bar left are passed over, but never the last one.
LEMMA ForcedContract ==
  ASSUME Types, NEW t \in Times
  PROVE  /\ Forced(t) \in front..Last
         /\ Forced(t) = Last \/ t <= Max(groups[Forced(t)])
<1> DEFINE S == {c \in front..Last : c = Last \/ t <= Max(groups[c])}
<1>1. Last \in Nat /\ front \in Nat /\ Last \in S
  BY SetupTypes DEF Types
<1>2. S \in SUBSET Nat /\ IsFiniteSet(S)
  <2>1. S \in SUBSET (front..Last) /\ IsFiniteSet(front..Last)
    BY <1>1, FS_Interval
  <2> QED BY <1>1, <2>1, FS_Subset
<1>3. Min(S) \in S
  <2> HIDE DEF S
  <2> QED BY <1>1, <1>2, Extremes
<1> QED
  BY <1>3 DEF Forced

LEMMA ActiveContract ==
  ASSUME Types, NEW t \in Times
  PROVE  /\ ActiveAt(t) \in 1..Last /\ front <= ActiveAt(t)
         /\ ActiveAt(t) # front => ActiveAt(t) = Last \/ t <= Max(groups[ActiveAt(t)])
<1>1. Last \in Nat /\ front \in 1..Last
  BY SetupTypes DEF Types
<1>2. Forced(t) \in front..Last /\ (Forced(t) = Last \/ t <= Max(groups[Forced(t)]))
  BY ForcedContract
<1> HIDE DEF Last
<1>3. CASE NewDay(t)
  <2>1. ActiveAt(t) = Forced(t)
    BY <1>3 DEF ActiveAt
  <2> QED BY <1>1, <1>2, <2>1
<1>4. CASE ~NewDay(t)
  <2>1. ActiveAt(t) = front
    BY <1>4 DEF ActiveAt
  <2> QED BY <1>1, <2>1
<1> QED
  BY <1>3, <1>4

\* What is captured while f is the front contract.
LEMMA CapturedTypes ==
  ASSUME setup \in Setups, NEW a \in 1..Last, NEW f \in 1..Last, NEW t \in Times,
         HasData(a, f, t), frontBars \in Seq(Captured), backBars \in Seq(Captured),
         Capture(RolloverData(a, f, t), f, t)
  PROVE  /\ frontBars' = Append(frontBars, [bar |-> GetData(a, t), contract |-> f, time |-> t])
         /\ [bar |-> GetData(a, t), contract |-> f, time |-> t] \in Captured
         /\ frontBars' \in Seq(Captured) /\ backBars' \in Seq(Captured)
         /\ Len(backBars') = Len(backBars) + 1
<1> DEFINE b == BackOf(a, f, t)
           g == IF f = Last THEN f ELSE f + 1
<1>1. b \in 1..Last /\ g \in 1..Last
  BY SetupTypes DEF BackOf
<1>2. GetData(a, t) \in Bar /\ GetData(b, t) \in Bar
  BY <1>1, NextBar DEF HasData
<1>3. f \in Contracts /\ g \in Contracts
  BY <1>1, SetupTypes
<1>4. /\ frontBars' = Append(frontBars, [bar |-> GetData(a, t), contract |-> f, time |-> t])
      /\ backBars' = Append(backBars, [bar |-> GetData(b, t), time |-> t, contract |-> g])
  BY DEF Capture, RolloverData
<1> HIDE DEF b, g
<1>5. /\ [bar |-> GetData(a, t), contract |-> f, time |-> t] \in Captured
      /\ [bar |-> GetData(b, t), time |-> t, contract |-> g] \in Captured
  BY <1>2, <1>3 DEF Captured
<1> DEFINE fb == [bar |-> GetData(a, t), contract |-> f, time |-> t]
           bb == [bar |-> GetData(b, t), time |-> t, contract |-> g]
<1> HIDE DEF fb, bb
<1>6. /\ fb \in Captured /\ bb \in Captured
      /\ frontBars' = Append(frontBars, fb) /\ backBars' = Append(backBars, bb)
  BY <1>4, <1>5 DEF fb, bb
<1>7. frontBars' \in Seq(Captured) /\ backBars' \in Seq(Captured)
      /\ Len(backBars') = Len(backBars) + 1
  BY <1>6
<1> QED
  BY <1>4, <1>5, <1>7

-----------------------------------------------------------------------------
(* The rolls. *)

Marks(points) == {points[i] : i \in DOMAIN points}

\* Row indexes in order, none behind the next row.
AreRolls(points) ==
  /\ points \in Seq(Nat)
  /\ \A i, j \in DOMAIN points : i < j => points[i] < points[j]
  /\ \A i \in DOMAIN points : points[i] <= RowIndex

\* Pushing the next row keeps the order and adds that row.
LEMMA PushedRolls ==
  ASSUME RowIndex \in Nat, NEW points, AreRolls(points)
  PROVE  AreRolls(PushRoll(points)) /\ Marks(PushRoll(points)) = Marks(points) \cup {RowIndex}
<1> DEFINE n == Len(points)
<1>1. points \in Seq(Nat) /\ n \in Nat /\ DOMAIN points = 1..n
  BY DEF AreRolls
<1>2. CASE points # <<>> /\ points[n] = RowIndex
  <2>1. PushRoll(points) = points /\ n \in DOMAIN points
    BY <1>1, <1>2 DEF PushRoll
  <2> QED BY <1>2, <2>1 DEF Marks
<1>3. CASE ~(points # <<>> /\ points[n] = RowIndex)
  <2> DEFINE s == Append(points, RowIndex)
  <2>1. PushRoll(points) = s
    BY <1>3 DEF PushRoll
  <2>2. /\ s \in Seq(Nat) /\ DOMAIN s = 1..(n + 1) /\ s[n + 1] = RowIndex
        /\ \A i \in 1..n : s[i] = points[i]
    BY <1>1
  <2>3. ASSUME NEW i \in 1..n PROVE points[i] < RowIndex
    <3>1. points[i] \in Nat /\ points[i] <= RowIndex /\ points[n] \in Nat /\ points[n] <= RowIndex
      BY <1>1 DEF AreRolls
    <3>2. points[n] # RowIndex
      BY <1>1, <1>3
    <3>3. i < n => points[i] < points[n]
      BY <1>1 DEF AreRolls
    <3> QED BY <1>1, <3>1, <3>2, <3>3
  <2>4. AreRolls(s)
    <3>1. ASSUME NEW i \in DOMAIN s, NEW j \in DOMAIN s, i < j PROVE s[i] < s[j]
      <4>1. i \in 1..n
        BY <1>1, <2>2, <3>1
      <4>2. CASE j = n + 1
        BY <2>2, <2>3, <4>1, <4>2
      <4>3. CASE j \in 1..n
        BY <1>1, <2>2, <3>1, <4>1, <4>3 DEF AreRolls
      <4> QED BY <1>1, <2>2, <4>2, <4>3
    <3>2. ASSUME NEW i \in DOMAIN s PROVE s[i] <= RowIndex
      BY <1>1, <2>2 DEF AreRolls
    <3> HIDE DEF s
    <3> QED BY <2>2, <3>1, <3>2 DEF AreRolls
  <2>5. Marks(s) = Marks(points) \cup {RowIndex}
    <3> HIDE DEF s
    <3> QED BY <1>1, <2>2, SMTT(30) DEF Marks
  <2> QED BY <2>1, <2>4, <2>5
<1> QED
  BY <1>2, <1>3

\* What a visit of a timestamp does to the front contract and the rolls: the front
\* contract stays, or a later one takes over and the next row is marked.
Rolls(f, points) ==
  /\ f \in 1..Last
  /\ \/ f = front /\ points = rolls
     \/ /\ front < f /\ AreRolls(points)
        /\ Marks(points) = Marks(rolls) \cup {RowIndex}

Adds(f) ==
  \/ UNCHANGED <<frontBars, backBars>>
  \/ \E a \in 1..Last, t \in Times :
       /\ t \in UNION {groups[c] : c \in DOMAIN groups}
       /\ a <= f /\ f <= a + 1
       /\ HasData(a, f, t)
       /\ Capture(RolloverData(a, f, t), f, t)

Visit(t) == SkipTimestamp(t) \/ CaptureTimestamp(t) \/ RollOver(t)

LEMMA ForcedRollsAreRolls ==
  ASSUME Types, AreRolls(rolls), NEW t \in Times
  PROVE  /\ Rolls(ActiveAt(t), ForcedRolls(t)) /\ AreRolls(ForcedRolls(t))
         /\ Marks(ForcedRolls(t)) \subseteq Marks(rolls) \cup {RowIndex}
         /\ Marks(rolls) \subseteq Marks(ForcedRolls(t))
<1>1. ActiveAt(t) \in 1..Last /\ front <= ActiveAt(t) /\ front \in 1..Last /\ Last \in Nat
  BY ActiveContract, SetupTypes DEF Types
<1>2. RowIndex \in Nat
  BY DEF Types, RowIndex
<1> HIDE DEF Last, RowIndex
<1>3. CASE ActiveAt(t) = front
  <2>1. ForcedRolls(t) = rolls
    BY <1>3 DEF ForcedRolls
  <2> QED BY <1>1, <1>3, <2>1 DEF Rolls
<1>4. CASE ActiveAt(t) # front
  <2>1. ForcedRolls(t) = PushRoll(rolls)
    BY <1>4 DEF ForcedRolls
  <2>2. AreRolls(PushRoll(rolls)) /\ Marks(PushRoll(rolls)) = Marks(rolls) \cup {RowIndex}
    BY <1>2, PushedRolls
  <2>3. front < ActiveAt(t)
    BY <1>1, <1>4
  <2> QED BY <1>1, <2>1, <2>2, <2>3 DEF Rolls
<1> QED
  BY <1>3, <1>4

LEMMA VisitSteps ==
  ASSUME Types, AreRolls(rolls), NEW t \in Times, Visit(t)
  PROVE  Rolls(front', rolls') /\ Adds(front')
<1> DEFINE f == ActiveAt(t)
<1>1. /\ f \in 1..Last /\ front <= f /\ front \in 1..Last /\ Last \in Nat /\ setup \in Setups
      /\ Rolls(f, ForcedRolls(t)) /\ AreRolls(ForcedRolls(t))
      /\ Marks(ForcedRolls(t)) \subseteq Marks(rolls) \cup {RowIndex}
      /\ Marks(rolls) \subseteq Marks(ForcedRolls(t))
  BY ActiveContract, ForcedRollsAreRolls, SetupTypes DEF Types
<1>2. t \in UNION {groups[c] : c \in DOMAIN groups}
  <2>1. t = Min(timeline) /\ timeline # {} /\ timeline \subseteq Times
    <3>1. timeline \subseteq UNION {groups[c] : c \in DOMAIN groups}
      BY DEF Types
    <3>2. \A c \in DOMAIN groups : groups[c] \subseteq Times
      BY <1>1, SetupTypes
    <3> QED BY <3>1, <3>2 DEF Visit, SkipTimestamp, CaptureTimestamp, RollOver, Visits
  <2>2. t \in timeline
    BY <2>1, FirstAndLast
  <2> QED BY <2>2 DEF Types
<1> HIDE DEF f
<1>3. CASE SkipTimestamp(t)
  BY <1>1, <1>3 DEF SkipTimestamp, Adds, f
<1>4. CASE CaptureTimestamp(t)
  <2>1. /\ HasData(f, f, t) /\ Capture(RolloverData(f, f, t), f, t)
        /\ front' = f /\ rolls' = ForcedRolls(t)
    BY <1>4 DEF CaptureTimestamp, f
  <2>2. f <= f /\ f <= f + 1
    BY <1>1
  <2>3. Adds(f)
    BY <1>1, <1>2, <2>1, <2>2 DEF Adds
  <2> QED BY <1>1, <2>1, <2>3
<1>5. CASE RollOver(t)
  <2> DEFINE g == f + 1
  <2>1. /\ front' = g /\ rolls' = PushRoll(ForcedRolls(t)) /\ f # Last
        /\ \/ HasData(f, g, t) /\ Capture(RolloverData(f, g, t), g, t)
           \/ UNCHANGED <<frontBars, backBars>>
    BY <1>5 DEF RollOver, RollsAt, f
  <2>2. g \in 1..Last /\ front < g /\ f <= g /\ g <= f + 1
    <3> HIDE DEF Last
    <3> QED BY <1>1, <2>1
  <2>3. RowIndex \in Nat
    BY DEF RowIndex, Types
  <2>4. AreRolls(rolls') /\ Marks(rolls') = Marks(rolls) \cup {RowIndex}
    <3> HIDE DEF RowIndex
    <3>1. /\ AreRolls(PushRoll(ForcedRolls(t)))
          /\ Marks(PushRoll(ForcedRolls(t))) = Marks(ForcedRolls(t)) \cup {RowIndex}
      BY <1>1, <2>3, PushedRolls
    <3>2. AreRolls(rolls')
      BY <2>1, <3>1
    <3> QED BY <1>1, <2>1, <3>1, <3>2
  <2> HIDE DEF g
  <2>5. Rolls(g, rolls')
    BY <2>2, <2>4 DEF Rolls
  <2>6. Adds(g)
    BY <1>1, <1>2, <2>1, <2>2 DEF Adds
  <2> QED BY <2>1, <2>5, <2>6
<1> QED
  BY <1>3, <1>4, <1>5 DEF Visit

-----------------------------------------------------------------------------
(* The types. *)

LEMMA InitTypes == Init => Types
<1> SUFFICES ASSUME Init PROVE Types
  OBVIOUS
<1>1. Last \in 2..MaxContracts /\ MaxContracts \in Nat
  BY SetupTypes, FuturesAssumption DEF Init
<1>2. front \in 1..Last
  <2> HIDE DEF Last
  <2> QED BY <1>1 DEF Init
<1>3. frontBars = <<>> /\ backBars = <<>> /\ rolls = <<>>
  BY DEF Init
<1>4. <<>> \in Seq(Nat) /\ <<>> \in Seq(Captured)
  OBVIOUS
<1> QED
  BY <1>2, <1>3, <1>4 DEF Init, Types, RowIndex

LEMMA DayTypes ==
  ASSUME setup \in Setups, NEW t \in Times
  PROVE  DayOf(t) \in Nat
<1>1. t \in Nat /\ setup.dayLength \in Nat \ {0}
  BY TimesAreNumbers, SetupTypes
<1>2. \A n \in Nat : \A d \in Nat \ {0} : n \div d \in Nat
  OBVIOUS
<1> QED
  BY <1>1, <1>2 DEF DayOf

LEMMA VisitTypes ==
  ASSUME Types, AreRolls(rolls), NEW t \in Times, Visit(t)
  PROVE  Types'
<1>1. /\ setup' = setup /\ pc' = pc /\ timeline' \subseteq timeline /\ lastDay' = DayOf(t)
  BY DEF Visit, SkipTimestamp, CaptureTimestamp, RollOver, Visits
<1>2. groups' = groups /\ Last' = Last
  BY <1>1 DEF groups, Last
<1>3. DayOf(t) \in Nat
  BY DayTypes DEF Types
<1>4. front' \in 1..Last
  BY VisitSteps DEF Rolls
<1>5. rolls' \in Seq(Nat)
  BY VisitSteps DEF Rolls, Types, AreRolls
<1>6. frontBars' \in Seq(Captured) /\ backBars' \in Seq(Captured) /\ Len(backBars') = RowIndex'
  <2>1. CASE UNCHANGED <<frontBars, backBars>>
    BY <2>1 DEF Types, RowIndex
  <2>2. CASE \E a \in 1..Last, u \in Times :
               HasData(a, front', u) /\ Capture(RolloverData(a, front', u), front', u)
    <3>1. PICK a \in 1..Last, u \in Times :
            HasData(a, front', u) /\ Capture(RolloverData(a, front', u), front', u)
      BY <2>2
    <3>2. setup \in Setups /\ frontBars \in Seq(Captured) /\ backBars \in Seq(Captured)
          /\ Len(backBars) = Len(frontBars)
      BY DEF Types, RowIndex
    <3> DEFINE f == front'
               row == [bar |-> GetData(a, u), contract |-> f, time |-> u]
    <3>3. f \in 1..Last
      BY <1>4
    <3> HIDE DEF f
    <3>4. /\ frontBars' = Append(frontBars, row) /\ row \in Captured
          /\ frontBars' \in Seq(Captured) /\ backBars' \in Seq(Captured)
          /\ Len(backBars') = Len(backBars) + 1
      BY <3>1, <3>2, <3>3, CapturedTypes DEF f
    <3> HIDE DEF row
    <3>5. Len(frontBars') = Len(frontBars) + 1
      BY <3>2, <3>4
    <3> QED BY <3>2, <3>4, <3>5 DEF RowIndex
  <2> QED BY <2>1, <2>2, VisitSteps DEF Adds
<1> HIDE DEF Last
<1>7. lastDay' \in Nat \cup {-1} /\ front' \in 1..Last'
  BY <1>1, <1>2, <1>3, <1>4
<1> QED
  BY <1>1, <1>2, <1>5, <1>6, <1>7 DEF Types

\* The steps after the timeline.
LEMMA OtherSteps ==
  ASSUME EndOfTimeline \/ KeepFrontBars \/ AdjustContracts \/ UNCHANGED vars
  PROVE  /\ UNCHANGED <<setup, timeline, lastDay, front, rolls, frontBars, backBars>>
         /\ pc' = pc \/ pc' \in {"adjusting", "done"}
  BY DEF EndOfTimeline, KeepFrontBars, AdjustContracts, vars

LEMMA NextTypes ==
  ASSUME Types, AreRolls(rolls), [Next]_vars
  PROVE  Types'
<1>1. CASE \E t \in Times : Visit(t)
  BY <1>1, VisitTypes
<1>2. CASE EndOfTimeline \/ KeepFrontBars \/ AdjustContracts \/ UNCHANGED vars
  BY <1>2, OtherSteps DEF Types, groups, Last, RowIndex
<1> QED
  BY <1>1, <1>2 DEF Next, Visit

-----------------------------------------------------------------------------
(* The rolls are where the front contract changes. *)

\* The contract that follows that of row r.
After(r) == IF r = RowIndex THEN front ELSE frontBars[r + 1].contract

SwitchInv ==
  /\ AreRolls(rolls)
  /\ \A r \in 1..RowIndex :
       /\ frontBars[r].contract <= After(r)
       /\ r \in Marks(rolls) <=> frontBars[r].contract # After(r)

LEMMA VisitSwitches ==
  ASSUME Types, SwitchInv, NEW t \in Times, Visit(t)
  PROVE  SwitchInv'
<1> DEFINE N == RowIndex
           f == front'
<1>1. /\ N \in Nat /\ frontBars \in Seq(Captured) /\ setup \in Setups /\ N = Len(frontBars)
      /\ backBars \in Seq(Captured)
      /\ front \in 1..Last /\ AreRolls(rolls)
  BY DEF Types, RowIndex, SwitchInv
<1>2. Rolls(f, rolls') /\ Adds(f)
  BY <1>1, VisitSteps
<1>3. \A r \in 1..N : frontBars[r].contract \in 1..MaxContracts
  <2>1. \A r \in 1..N : frontBars[r] \in Captured
    BY <1>1
  <2>2. \A b \in Captured : b.contract \in 1..MaxContracts
    BY DEF Captured, Contracts
  <2> HIDE DEF N
  <2> QED BY <2>1, <2>2
<1>4. f \in Nat /\ front \in Nat /\ front <= f
  <2>1. f \in 1..Last /\ (f = front \/ front < f) /\ Last \in Nat
    BY <1>2, SetupTypes, <1>1 DEF Rolls
  <2> HIDE DEF Last, f
  <2> QED BY <1>1, <2>1
<1>5. \A r \in 1..N : r < N => r \in Marks(rolls') <=> r \in Marks(rolls)
  BY <1>1, <1>2 DEF Rolls
<1>6. N > 0 => /\ frontBars[N].contract <= f
               /\ N \in Marks(rolls') <=> frontBars[N].contract # f
  <2> SUFFICES ASSUME N > 0
               PROVE  /\ frontBars[N].contract <= f
                      /\ N \in Marks(rolls') <=> frontBars[N].contract # f
    OBVIOUS
  <2> DEFINE c == frontBars[N].contract
  <2>1. c <= front /\ (N \in Marks(rolls) <=> c # front) /\ c \in Nat
    BY <1>1, <1>3 DEF SwitchInv, After
  <2>2. \/ f = front /\ Marks(rolls') = Marks(rolls)
        \/ front < f /\ N \in Marks(rolls')
    BY <1>2 DEF Rolls
  <2> HIDE DEF c, f, N
  <2> QED BY <1>4, <2>1, <2>2 DEF c
<1>7. /\ rolls' \in Seq(Nat)
      /\ \A i, j \in DOMAIN rolls' : i < j => rolls'[i] < rolls'[j]
      /\ \A i \in DOMAIN rolls' : rolls'[i] <= N /\ rolls'[i] \in Nat
  <2>1. AreRolls(rolls')
    BY <1>1, <1>2 DEF Rolls
  <2> QED BY <2>1 DEF AreRolls
<1>8. CASE UNCHANGED <<frontBars, backBars>>
  <2>1. RowIndex' = N
    BY <1>8 DEF RowIndex
  <2>2. AreRolls(rolls)'
    BY <1>7, <2>1 DEF AreRolls
  <2>3. ASSUME NEW r \in 1..N
        PROVE  /\ frontBars'[r].contract <= After(r)'
               /\ r \in Marks(rolls)' <=> frontBars'[r].contract # After(r)'
    <3>1. CASE r = N
      BY <1>1, <1>6, <1>8, <2>1, <3>1 DEF After, Marks
    <3>2. CASE r # N
      <4>1. r < N /\ After(r)' = After(r)
        BY <1>1, <1>8, <2>1, <3>2 DEF After
      <4> QED BY <1>5, <1>8, <4>1 DEF SwitchInv, Marks
    <3> QED BY <3>1, <3>2
  <2> QED BY <2>1, <2>2, <2>3 DEF SwitchInv
<1>9. CASE \E a \in 1..Last, u \in Times :
             HasData(a, f, u) /\ Capture(RolloverData(a, f, u), f, u)
  <2>1. PICK a \in 1..Last, u \in Times :
          HasData(a, f, u) /\ Capture(RolloverData(a, f, u), f, u)
    BY <1>9
  <2> DEFINE row == [bar |-> GetData(a, u), contract |-> f, time |-> u]
  <2>2. f \in 1..Last
    BY <1>2 DEF Rolls
  <2>3. frontBars' = Append(frontBars, row) /\ row \in Captured /\ row.contract = f
    <3> HIDE DEF f
    <3> QED BY <1>1, <2>1, <2>2, CapturedTypes
  <2> HIDE DEF row
  <2>4. /\ RowIndex' = N + 1 /\ frontBars'[N + 1].contract = f
        /\ \A r \in 1..N : frontBars'[r] = frontBars[r]
    BY <1>1, <2>3 DEF RowIndex
  <2>5. AreRolls(rolls)'
    BY <1>1, <1>7, <2>4 DEF AreRolls
  <2>6. N + 1 \notin Marks(rolls')
    BY <1>1, <1>7 DEF Marks
  <2>7. ASSUME NEW r \in 1..(N + 1)
        PROVE  /\ frontBars'[r].contract <= After(r)'
               /\ r \in Marks(rolls)' <=> frontBars'[r].contract # After(r)'
    <3>1. CASE r = N + 1
      BY <1>4, <2>4, <2>6, <3>1 DEF After, Marks
    <3>2. CASE r = N
      BY <1>1, <1>6, <2>4, <3>2 DEF After, Marks
    <3>3. CASE r \in 1..N /\ r # N
      <4>1. r < N /\ r + 1 \in 1..N /\ r # N + 1
        BY <1>1, <3>3
      <4>2. After(r)' = After(r)
        BY <2>4, <3>3, <4>1 DEF After
      <4> QED BY <1>5, <2>4, <3>3, <4>1, <4>2 DEF SwitchInv, Marks
    <3> QED BY <1>1, <3>1, <3>2, <3>3
  <2> QED BY <2>4, <2>5, <2>7 DEF SwitchInv
<1> QED
  BY <1>2, <1>8, <1>9 DEF Adds

LEMMA SwitchStep ==
  ASSUME Types, SwitchInv, [Next]_vars
  PROVE  SwitchInv'
<1>1. CASE \E t \in Times : Visit(t)
  BY <1>1, VisitSwitches
<1>2. CASE EndOfTimeline \/ KeepFrontBars \/ AdjustContracts \/ UNCHANGED vars
  BY <1>2, OtherSteps DEF SwitchInv, AreRolls, After, RowIndex, Marks
<1> QED
  BY <1>1, <1>2 DEF Next, Visit

LEMMA RollingInv == Spec => [](Types /\ SwitchInv)
<1>1. Init => Types /\ SwitchInv
  BY InitTypes DEF Init, SwitchInv, AreRolls, RowIndex
<1>2. Types /\ SwitchInv /\ [Next]_vars => Types' /\ SwitchInv'
  BY NextTypes, SwitchStep DEF SwitchInv
<1> QED
  BY <1>1, <1>2, PTL DEF Spec

\* Whatever the contracts' bars, the rollover method and the skipped rows, the
\* front contract never goes back, and the roll indexes are the rows at which it
\* changes.
THEOREM RollsAreMarked == Spec => []RollsMarkTheSwitches
<1>1. Types /\ SwitchInv => RollsMarkTheSwitches
  <2> SUFFICES ASSUME Types, SwitchInv PROVE RollsMarkTheSwitches
    OBVIOUS
  <2>1. Len(rolls) \in Nat /\ DOMAIN rolls = 1..Len(rolls) /\ RowIndex \in Nat
    BY DEF Types, RowIndex
  <2>2. \A i \in 1..(Len(rolls) - 1) : rolls[i] < rolls[i + 1]
    BY <2>1 DEF SwitchInv, AreRolls
  <2>3. ASSUME NEW r \in 1..(RowIndex - 1)
        PROVE  /\ frontBars[r].contract <= frontBars[r + 1].contract
               /\ (\E i \in DOMAIN rolls : rolls[i] = r)
                    <=> frontBars[r].contract # frontBars[r + 1].contract
    <3>1. r \in 1..RowIndex /\ r # RowIndex
      BY <2>1
    <3> QED BY <3>1 DEF SwitchInv, After, Marks
  <2> QED BY <2>2, <2>3 DEF RollsMarkTheSwitches
<1> QED
  BY <1>1, RollingInv, PTL

\* The ranges start at the rolls and end at the next ones.
LEMMA RangesOfRolls ==
  ASSUME Types, SwitchInv, rolls # <<>>
  PROVE  /\ Len(rolls) \in Nat /\ Len(rolls) > 0 /\ DOMAIN rolls = 1..Len(rolls)
         /\ DOMAIN Ranges = 1..(Len(rolls) + 1) /\ Len(Ranges) = Len(rolls) + 1
         /\ \A j \in 1..(Len(rolls) + 1) :
              /\ Ranges[j].start = IF j = 1 THEN 0 ELSE rolls[j - 1]
              /\ Ranges[j].length >= 0
              /\ Ranges[j].start + Ranges[j].length =
                   IF j = Len(rolls) + 1 THEN RowIndex ELSE rolls[j]
<1> DEFINE k == Len(rolls)
           n == RowIndex
<1>1. /\ k \in Nat /\ k > 0 /\ DOMAIN rolls = 1..k /\ n \in Nat
      /\ \A i \in 1..k : rolls[i] \in Nat /\ rolls[i] <= n
  BY DEF Types, RowIndex, SwitchInv, AreRolls
<1>2. \A i \in 2..k : rolls[i - 1] < rolls[i] /\ rolls[i - 1] \in Nat /\ rolls[i] \in Nat
  BY <1>1 DEF SwitchInv, AreRolls
<1>3. Ranges = [i \in 1..(k + 1) |->
                  IF i = 1 THEN [start |-> 0, length |-> rolls[1]]
                  ELSE IF i = k + 1 THEN [start |-> rolls[k], length |-> n - rolls[k]]
                  ELSE [start |-> rolls[i - 1], length |-> rolls[i] - rolls[i - 1]]]
  BY DEF Ranges, RollIndexRanges
<1> HIDE DEF k, n
<1>4. DOMAIN Ranges = 1..(k + 1) /\ Len(Ranges) = k + 1
  BY <1>1, <1>3
<1>5. ASSUME NEW j \in 1..(k + 1)
      PROVE  /\ Ranges[j].start = IF j = 1 THEN 0 ELSE rolls[j - 1]
             /\ Ranges[j].length >= 0
             /\ Ranges[j].start + Ranges[j].length = IF j = k + 1 THEN n ELSE rolls[j]
  <2>1. CASE j = 1
    <3>1. Ranges[1] = [start |-> 0, length |-> rolls[1]] /\ rolls[1] \in Nat
      BY <1>1, <1>3
    <3> QED BY <1>1, <2>1, <3>1
  <2>2. CASE j = k + 1
    <3>1. Ranges[j] = [start |-> rolls[k], length |-> n - rolls[k]]
          /\ rolls[k] \in Nat /\ rolls[k] <= n /\ j - 1 = k /\ j # 1
      BY <1>1, <1>3, <2>2
    <3> QED BY <1>1, <2>2, <3>1
  <2>3. CASE j \in 2..k
    <3>1. Ranges[j] = [start |-> rolls[j - 1], length |-> rolls[j] - rolls[j - 1]]
      BY <1>1, <1>3, <2>3
    <3> QED BY <1>1, <1>2, <2>3, <3>1
  <2> QED BY <1>1, <2>1, <2>2, <2>3
<1> QED
  BY <1>1, <1>4, <1>5 DEF k, n

LEMMA RangesCover ==
  ASSUME Types, SwitchInv
  PROVE  RangesCoverTheRows
<1> SUFFICES ASSUME rolls # <<>> PROVE RangesCoverTheRows
  BY DEF RangesCoverTheRows
<1> DEFINE k == Len(rolls)
<1>1. /\ k \in Nat /\ k > 0 /\ DOMAIN Ranges = 1..(k + 1) /\ Len(Ranges) = k + 1
      /\ \A j \in 1..(k + 1) :
           /\ Ranges[j].start = IF j = 1 THEN 0 ELSE rolls[j - 1]
           /\ Ranges[j].length >= 0
           /\ Ranges[j].start + Ranges[j].length = IF j = k + 1 THEN RowIndex ELSE rolls[j]
  BY RangesOfRolls
<1> HIDE DEF k
<1>2. Ranges[1].start = 0
  BY <1>1
<1>3. ASSUME NEW j \in 1..k PROVE Ranges[j + 1].start = rolls[j]
  BY <1>1
<1> QED
  BY <1>1, <1>2, <1>3 DEF RangesCoverTheRows

\* The rolls split the rows into ranges without gap or overlap.
THEOREM RangesAreComplete == Spec => []RangesCoverTheRows
<1>1. Types /\ SwitchInv => RangesCoverTheRows
  BY RangesCover
<1> QED
  BY <1>1, RollingInv, PTL

-----------------------------------------------------------------------------
(* A row takes its bars from its own time. *)

LEMMA AddedRow ==
  ASSUME setup \in Setups, NoGaps, NEW a \in 1..Last, NEW f \in 1..Last, NEW t \in Times,
         t \in UNION {groups[c] : c \in DOMAIN groups}, f = a \/ f = a + 1,
         HasData(a, f, t), Min(groups[f]) <= t
  PROVE  GetData(a, t).time = t /\ GetData(BackOf(a, f, t), t).time = t
<1>1. ASSUME NEW c \in 1..Last, Min(groups[c]) <= t, BarsFrom(c, t) # {}
      PROVE  GetData(c, t).time = t
  <2>1. PICK u \in groups[c] : t <= u
    BY <1>1, TimesAreNumbers, SetupTypes DEF BarsFrom
  <2>2. u \in Times /\ u <= Max(groups[c]) /\ Max(groups[c]) \in Times
    BY <2>1, SetupTypes, FirstAndLast
  <2>3. t <= Max(groups[c])
    BY <2>1, <2>2, TimesAreNumbers
  <2>4. c \in DOMAIN groups
    BY SetupTypes
  <2>5. t \in groups[c]
    BY <1>1, <2>3, <2>4 DEF NoGaps
  <2> QED BY <1>1, <2>5, NextBar
<1>2. Min(groups[a]) <= t
  <2>1. CASE f = a
    BY <2>1
  <2>2. CASE f = a + 1
    <3>1. a \in 1..(Last - 1)
      BY <2>2, SetupTypes
    <3>2. Min(groups[a]) <= Min(groups[f])
      BY <2>2, <3>1 DEF NoGaps
    <3>3. Min(groups[a]) \in Times /\ Min(groups[f]) \in Times
      BY SetupTypes, FirstAndLast
    <3> QED BY <3>2, <3>3, TimesAreNumbers
  <2> QED BY <2>1, <2>2
<1>3. BarsFrom(a, t) # {} /\ BarsFrom(BackOf(a, f, t), t) # {}
  BY DEF HasData
<1>4. BackOf(a, f, t) \in 1..Last /\ Min(groups[BackOf(a, f, t)]) <= t
  <2>1. CASE f # Last /\ t >= Min(groups[f + 1])
    <3>1. f + 1 \in 1..Last /\ BackOf(a, f, t) = f + 1
      BY <2>1, SetupTypes DEF BackOf
    <3>2. Min(groups[f + 1]) \in Times
      BY <3>1, SetupTypes, FirstAndLast
    <3> QED BY <2>1, <3>1, <3>2, TimesAreNumbers
  <2>2. CASE ~(f # Last /\ t >= Min(groups[f + 1]))
    BY <1>2, <2>2 DEF BackOf
  <2> QED BY <2>1, <2>2
<1> QED
  BY <1>1, <1>2, <1>3, <1>4

LEMMA AlignedStep ==
  ASSUME Types, AreRolls(rolls), AlignedWithoutGaps, [Next]_vars
  PROVE  AlignedWithoutGaps'
<1>0. /\ setup \in Setups /\ frontBars \in Seq(Captured) /\ backBars \in Seq(Captured)
      /\ Len(frontBars) = RowIndex /\ Len(backBars) = RowIndex /\ RowIndex \in Nat
  BY DEF Types, RowIndex
<1>1. setup' = setup
  <2>1. CASE \E t \in Times : Visit(t)
    BY <2>1 DEF Visit, SkipTimestamp, CaptureTimestamp, RollOver, Visits
  <2>2. CASE EndOfTimeline \/ KeepFrontBars \/ AdjustContracts \/ UNCHANGED vars
    BY <2>2, OtherSteps
  <2> QED BY <2>1, <2>2 DEF Next, Visit
<1>2. groups' = groups /\ Last' = Last /\ NoGaps' = NoGaps
  BY <1>1 DEF groups, Last, NoGaps
<1>3. CASE UNCHANGED <<frontBars, backBars>>
  BY <1>2, <1>3 DEF AlignedWithoutGaps, RowIndex
<1>4. ASSUME NoGaps, NEW f \in 1..Last, NEW a \in 1..Last, NEW t \in Times,
             t \in UNION {groups[c] : c \in DOMAIN groups}, a <= f, f <= a + 1,
             HasData(a, f, t), Capture(RolloverData(a, f, t), f, t)
      PROVE  AlignedWithoutGaps'
  <2> DEFINE fb == [bar |-> GetData(a, t), contract |-> f, time |-> t]
             bb == [bar |-> GetData(BackOf(a, f, t), t), time |-> t,
                    contract |-> IF f = Last THEN f ELSE f + 1]
  <2>1. frontBars' = Append(frontBars, fb) /\ backBars' = Append(backBars, bb)
    BY <1>4 DEF Capture, RolloverData
  <2>2. fb.time = t /\ bb.time = t /\ fb.contract = f /\ fb.bar = GetData(a, t)
        /\ bb.bar = GetData(BackOf(a, f, t), t)
    OBVIOUS
  <2>3. f = a \/ f = a + 1
    <3>1. f \in Int /\ a \in Int
      OBVIOUS
    <3> HIDE DEF Last
    <3> QED BY <1>4, <3>1
  <2>4. Min(groups[f]) <= t => fb.bar.time = t /\ bb.bar.time = t
    BY <1>0, <1>4, <2>2, <2>3, AddedRow
  <2> HIDE DEF fb, bb
  <2>5. /\ RowIndex' = RowIndex + 1
        /\ frontBars'[RowIndex + 1] = fb /\ backBars'[RowIndex + 1] = bb
        /\ \A r \in 1..RowIndex : frontBars'[r] = frontBars[r] /\ backBars'[r] = backBars[r]
    BY <1>0, <2>1 DEF RowIndex
  <2>6. Min(groups[f]) \in Times
    BY <1>0, SetupTypes, FirstAndLast
  <2>7. t >= Min(groups[f]) => Min(groups[f]) <= t
    BY <2>6, TimesAreNumbers
  <2>8. ASSUME NEW r \in 1..RowIndex'
        PROVE  /\ backBars'[r].time = frontBars'[r].time
               /\ frontBars'[r].time >= Min(groups'[frontBars'[r].contract]) =>
                    /\ frontBars'[r].bar.time = frontBars'[r].time
                    /\ backBars'[r].bar.time = frontBars'[r].time
    <3>1. CASE r = RowIndex + 1
      BY <1>2, <2>2, <2>4, <2>5, <2>7, <3>1
    <3>2. CASE r \in 1..RowIndex
      BY <1>2, <1>4, <2>5, <3>2 DEF AlignedWithoutGaps
    <3> QED BY <1>0, <2>5, <3>1, <3>2
  <2> QED BY <2>8 DEF AlignedWithoutGaps
<1>5. CASE \E t \in Times : Visit(t)
  <2>1. Rolls(front', rolls') /\ Adds(front')
    BY <1>5, VisitSteps
  <2>2. front' \in 1..Last
    BY <2>1 DEF Rolls
  <2>3. ~NoGaps => AlignedWithoutGaps'
    BY <1>2 DEF AlignedWithoutGaps
  <2> DEFINE f == front'
  <2>4. f \in 1..Last /\ Adds(f)
    BY <2>1, <2>2
  <2> HIDE DEF f
  <2> QED BY <1>3, <1>4, <2>3, <2>4 DEF Adds
<1>6. CASE EndOfTimeline \/ KeepFrontBars \/ AdjustContracts \/ UNCHANGED vars
  BY <1>3, <1>6, OtherSteps
<1> QED
  BY <1>5, <1>6 DEF Next, Visit

\* Where no contract misses a bar between its first and its last, no row shows the
\* bar of another time, but for contracts that have not started.
THEOREM RowsAreAligned == Spec => []AlignedWithoutGaps
<1>1. Init => AlignedWithoutGaps
  BY DEF Init, AlignedWithoutGaps, RowIndex
<1>2. Types /\ SwitchInv /\ AlignedWithoutGaps /\ [Next]_vars => AlignedWithoutGaps'
  BY AlignedStep DEF SwitchInv
<1> QED
  BY <1>1, <1>2, RollingInv, PTL DEF Spec

-----------------------------------------------------------------------------
(* With contracts that end in order, a row follows every roll. *)

\* The timestamps still to come are those after the ones visited, and a roll that
\* no row has followed is to a contract all of whose bars are still to come.
PendingInv ==
  /\ pc # "rolling" => timeline = {}
  /\ \A u \in UNION {groups[c] : c \in DOMAIN groups} :
       u \notin timeline => \A v \in timeline : u < v
  /\ OrderedLifetimes /\ RowIndex \in Marks(rolls) => groups[front] \subseteq timeline

LEMMA LaterEnds ==
  ASSUME setup \in Setups, OrderedLifetimes, NEW c \in 1..Last
  PROVE  Max(groups[c]) <= Max(groups[Last])
<1> DEFINE T == {d \in 1..Last : ~(Max(groups[d]) <= Max(groups[Last]))}
<1>1. Last \in Nat /\ Last \in 1..Last
  BY SetupTypes
<1>2. \A d \in 1..Last : Max(groups[d]) \in Times /\ Max(groups[d]) \in Int
  BY SetupTypes, FirstAndLast, TimesAreNumbers
<1>3. ASSUME T # {} PROVE FALSE
  <2>1. T \in SUBSET Nat /\ IsFiniteSet(T)
    <3>1. IsFiniteSet(1..Last) /\ T \in SUBSET (1..Last)
      BY <1>1, FS_Interval
    <3>2. \A x \in 1..Last : x \in Nat
      BY <1>1
    <3> HIDE DEF T
    <3> QED BY <3>1, <3>2, FS_Subset
  <2> DEFINE d == Max(T)
  <2>2. d \in T /\ \A e \in T : e <= d
    <3> HIDE DEF T
    <3> QED BY <1>3, <2>1, Extremes
  <2> HIDE DEF d
  <2>3. d \in 1..Last /\ d # Last
    BY <1>1, <1>2, <2>2
  <2>4. d + 1 \in 1..Last /\ d \in 1..(Last - 1) /\ ~(d + 1 <= d)
    <3> HIDE DEF Last
    <3> QED BY <1>1, <2>3
  <2>5. Max(groups[d + 1]) <= Max(groups[Last])
    BY <2>2, <2>4
  <2>6. Max(groups[d]) <= Max(groups[d + 1])
    BY <2>4 DEF OrderedLifetimes
  <2>7. Max(groups[d]) <= Max(groups[Last])
    BY <1>1, <1>2, <2>3, <2>4, <2>5, <2>6
  <2> QED BY <2>2, <2>7
<1> QED
  BY <1>3

LEMMA BarsLeft ==
  ASSUME setup \in Setups, NEW c \in 1..Last, NEW t \in Times
  PROVE  BarsFrom(c, t) # {} <=> t <= Max(groups[c])
<1>1. /\ groups[c] \subseteq Times /\ Max(groups[c]) \in groups[c]
      /\ \A u \in groups[c] : u <= Max(groups[c])
  BY SetupTypes, FirstAndLast
<1> QED
  BY <1>1, TimesAreNumbers DEF BarsFrom

\* If the front contract has a bar left, so has the next one, and the one after.
LEMMA DataLeft ==
  ASSUME setup \in Setups, OrderedLifetimes, NEW a \in 1..Last, NEW f \in 1..Last,
         NEW t \in Times, f = a \/ f = a + 1, t <= Max(groups[a])
  PROVE  HasData(a, f, t)
<1>1. ASSUME NEW c \in 1..Last, c + 1 \in 1..Last, t <= Max(groups[c])
      PROVE  t <= Max(groups[c + 1])
  <2>1. Max(groups[c]) \in Times /\ Max(groups[c + 1]) \in Times
    BY <1>1, SetupTypes, FirstAndLast
  <2>2. c \in 1..(Last - 1)
    BY <1>1, SetupTypes
  <2>3. Max(groups[c]) <= Max(groups[c + 1])
    BY <2>2 DEF OrderedLifetimes
  <2> QED BY <1>1, <2>1, <2>3, TimesAreNumbers
<1>2. t <= Max(groups[f])
  BY <1>1
<1>3. BackOf(a, f, t) \in 1..Last /\ t <= Max(groups[BackOf(a, f, t)])
  <2>1. CASE f # Last
    <3>1. f + 1 \in 1..Last
      BY <2>1, SetupTypes
    <3> QED BY <1>1, <1>2, <3>1 DEF BackOf
  <2>2. CASE f = Last
    BY <2>2 DEF BackOf
  <2> QED BY <2>1, <2>2
<1> QED
  BY <1>3, BarsLeft DEF HasData

\* A visit that adds no row leaves a marked row to a contract that has not started.
LEMMA PendingVisit ==
  ASSUME Types, SwitchInv, PendingInv, NEW t \in Times, Visit(t)
  PROVE  PendingInv'
<1> DEFINE f == ActiveAt(t)
           all == UNION {groups[c] : c \in DOMAIN groups}
<1>1. /\ pc = "rolling" /\ pc' = pc /\ setup' = setup
      /\ timeline # {} /\ t = Min(timeline) /\ timeline' = timeline \ {t}
  BY DEF Visit, SkipTimestamp, CaptureTimestamp, RollOver, Visits
<1>2. groups' = groups /\ Last' = Last /\ OrderedLifetimes' = OrderedLifetimes
  BY <1>1 DEF groups, Last, OrderedLifetimes
<1>3. /\ setup \in Setups /\ timeline \subseteq all /\ front \in 1..Last /\ Last \in Nat
      /\ AreRolls(rolls) /\ RowIndex \in Nat
  BY SetupTypes DEF Types, SwitchInv, RowIndex
<1>4. all \subseteq Times
  BY <1>3, SetupTypes
<1>5. t \in timeline /\ \A v \in timeline : t <= v
  <2>1. timeline \in SUBSET Times
    BY <1>3, <1>4
  <2> QED BY <1>1, <2>1, FirstAndLast
<1>6. /\ f \in 1..Last /\ front <= f
      /\ f # front => f = Last \/ t <= Max(groups[f])
  BY ActiveContract
<1>7. ASSUME NEW u \in all, u \notin timeline', NEW v \in timeline' PROVE u < v
  <2>1. u \in Int /\ v \in Int /\ t \in Int
    BY <1>1, <1>3, <1>4, <1>7, TimesAreNumbers
  <2>2. CASE u = t
    BY <1>1, <1>5, <1>7, <2>1, <2>2
  <2>3. CASE u # t
    BY <1>1, <1>7, <2>3 DEF PendingInv
  <2> QED BY <2>2, <2>3
<1>8. ASSUME OrderedLifetimes, NEW c \in 1..Last, t < Min(groups[c])
      PROVE  groups[c] \subseteq timeline'
  <2>1. groups[c] \subseteq all /\ groups[c] \subseteq Times /\ groups[c] # {}
    BY <1>3, SetupTypes
  <2>2. ASSUME NEW u \in groups[c] PROVE u \in timeline'
    <3>1. Min(groups[c]) <= u /\ Min(groups[c]) \in groups[c]
      BY <2>1, FirstAndLast
    <3>2. t < u /\ t \in Int /\ u \in Int
      BY <1>8, <2>1, <3>1, TimesAreNumbers
    <3>3. u \in timeline
      <4>1. ~(u < t)
        BY <3>2
      <4> QED BY <1>5, <2>1, <4>1 DEF PendingInv
    <3> QED BY <1>1, <3>2, <3>3
  <2> QED BY <2>2
<1> HIDE DEF f, all
<1>9. ASSUME OrderedLifetimes, f # front \/ RowIndex \in Marks(rolls)
      PROVE  t <= Max(groups[f])
  <2>1. Max(groups[Last]) \in Times /\ Max(groups[f]) \in Times
    BY <1>3, <1>6, SetupTypes, FirstAndLast
  <2>2. CASE f # front /\ f = Last
    <3>1. PICK c \in 1..Last : t \in groups[c]
      BY <1>3, <1>5, SetupTypes DEF all
    <3>2. t <= Max(groups[c]) /\ Max(groups[c]) \in Times
      BY <1>3, <3>1, SetupTypes, FirstAndLast
    <3>3. Max(groups[c]) <= Max(groups[Last])
      BY <1>3, <1>9, LaterEnds
    <3> QED BY <2>1, <2>2, <3>2, <3>3, TimesAreNumbers
  <2>3. CASE f = front /\ RowIndex \in Marks(rolls)
    <3>1. groups[front] \subseteq timeline
      BY <1>9, <2>3 DEF PendingInv
    <3>2. Max(groups[front]) \in groups[front]
      BY <1>3, SetupTypes, FirstAndLast
    <3> QED BY <1>5, <2>3, <3>1, <3>2
  <2> QED BY <1>6, <1>9, <2>2, <2>3
<1>10. ASSUME OrderedLifetimes, RowIndex' \in Marks(rolls')
       PROVE  groups[front'] \subseteq timeline'
  <2>1. CASE SkipTimestamp(t)
    <3>1. /\ front' = f /\ RowIndex' = RowIndex /\ rolls' = ForcedRolls(t)
          /\ NotStarted(t) \/ ~HasData(f, f, t)
      BY <2>1 DEF SkipTimestamp, RowIndex, f
    <3>2. f # front \/ RowIndex \in Marks(rolls)
      BY <1>10, <3>1 DEF ForcedRolls, f
    <3>3. HasData(f, f, t)
      BY <1>3, <1>6, <1>9, <1>10, <3>2, DataLeft
    <3>4. t < Min(groups[f])
      BY <3>1, <3>3 DEF NotStarted, f
    <3> QED BY <1>6, <1>8, <1>10, <3>1, <3>4
  <2>2. ASSUME NEW a \in 1..Last, NEW g \in 1..Last, HasData(a, g, t),
               Capture(RolloverData(a, g, t), g, t)
        PROVE  FALSE
    <3>1. frontBars \in Seq(Captured)
      BY DEF Types
    <3> DEFINE row == [bar |-> GetData(a, t), contract |-> g, time |-> t]
    <3>2. frontBars' = Append(frontBars, row)
      BY <2>2 DEF Capture, RolloverData
    <3> HIDE DEF row
    <3>3. RowIndex' = RowIndex + 1
      BY <3>1, <3>2 DEF RowIndex
    <3>4. \A x \in Marks(rolls') : x <= RowIndex
      <4>1. AreRolls(rolls')
        BY <1>3, VisitSteps DEF Rolls
      <4> QED BY <4>1 DEF AreRolls, Marks
    <3> QED BY <1>3, <1>10, <3>3, <3>4
  <2>3. CASE CaptureTimestamp(t)
    BY <1>6, <2>2, <2>3 DEF CaptureTimestamp, f
  <2>4. CASE RollOver(t)
    <3>1. HasData(f, f, t) /\ f # Last
      BY <2>4 DEF RollOver, RollsAt, f
    <3>2. BarsFrom(f, t) # {}
      BY <3>1 DEF HasData
    <3>3. t <= Max(groups[f]) /\ f + 1 \in 1..Last
      <4>1. t <= Max(groups[f])
        BY <1>3, <1>6, <3>2, BarsLeft
      <4>2. f + 1 \in 1..Last
        <5> HIDE DEF Last
        <5> QED BY <1>3, <1>6, <3>1
      <4> QED BY <4>1, <4>2
    <3> DEFINE g == f + 1
    <3>4. g \in 1..Last /\ g = f + 1
      BY <3>3
    <3> HIDE DEF g
    <3>5. HasData(f, g, t)
      BY <1>3, <1>6, <1>10, <3>3, <3>4, DataLeft
    <3>6. Capture(RolloverData(f, g, t), g, t)
      BY <2>4, <3>5 DEF RollOver, f, g
    <3> QED BY <1>6, <2>2, <3>4, <3>5, <3>6
  <2> QED BY <2>1, <2>3, <2>4 DEF Visit
<1>11. all' = all
  BY <1>2 DEF all
<1> QED
  BY <1>1, <1>2, <1>7, <1>10, <1>11 DEF PendingInv, all

LEMMA PendingStep ==
  ASSUME Types, SwitchInv, PendingInv, [Next]_vars
  PROVE  PendingInv'
<1>1. CASE \E t \in Times : Visit(t)
  BY <1>1, PendingVisit
<1>2. CASE EndOfTimeline \/ KeepFrontBars \/ AdjustContracts \/ UNCHANGED vars
  <2>1. UNCHANGED <<setup, timeline, front, rolls, frontBars>>
    BY <1>2, OtherSteps
  <2>2. pc' # "rolling" => timeline = {}
    BY <1>2 DEF EndOfTimeline, KeepFrontBars, AdjustContracts, vars, PendingInv
  <2> QED BY <2>1, <2>2 DEF PendingInv, groups, Last, RowIndex, OrderedLifetimes, Marks
<1> QED
  BY <1>1, <1>2 DEF Next, Visit

LEMMA RollsHaveRows ==
  ASSUME Types, SwitchInv, PendingInv
  PROVE  RollsAreRows
<1> SUFFICES ASSUME pc # "rolling", OrderedLifetimes, NEW i \in DOMAIN rolls
             PROVE  rolls[i] < RowIndex
  BY DEF RollsAreRows
<1>1. timeline = {}
  BY DEF PendingInv
<1>2. front \in 1..Last /\ groups[front] # {}
  BY SetupTypes DEF Types
<1>3. RowIndex \notin Marks(rolls)
  BY <1>1, <1>2 DEF PendingInv
<1>4. rolls[i] # RowIndex /\ rolls[i] <= RowIndex
  BY <1>3 DEF SwitchInv, AreRolls, Marks
<1>5. rolls[i] \in Nat /\ RowIndex \in Nat
  BY DEF Types, RowIndex
<1> QED
  BY <1>4, <1>5

LEMMA RowsInv == Spec => [](Types /\ SwitchInv /\ PendingInv)
<1>1. Init => PendingInv
  <2> SUFFICES ASSUME Init PROVE PendingInv
    OBVIOUS
  <2>1. rolls = <<>> /\ pc = "rolling" /\ timeline = UNION {groups[c] : c \in DOMAIN groups}
    BY DEF Init
  <2>2. Marks(rolls) = {}
    BY <2>1 DEF Marks
  <2> QED BY <2>1, <2>2 DEF PendingInv
<1>2. Types /\ SwitchInv /\ PendingInv /\ [Next]_vars => PendingInv'
  BY PendingStep
<1> QED
  BY <1>1, <1>2, RollingInv, PTL DEF Spec

\* With contracts that end in the order they expire, the adjustment of the prices
\* reads no row behind the last, whatever rolls were forced or chosen.
THEOREM EveryRollHasItsRow == Spec => []RollsAreRows
<1>1. Types /\ SwitchInv /\ PendingInv => RollsAreRows
  BY RollsHaveRows
<1> QED
  BY <1>1, RowsInv, PTL

-----------------------------------------------------------------------------
(* The series. *)

\* The function f adds up the n gaps g.
AddsUp(f, g, n) == f = [k \in 0..n |-> IF k = 0 THEN 0 ELSE f[k - 1] + g[k]]

\* What AddsUp says, entry by entry.
LEMMA Entries ==
  ASSUME NEW n \in Nat, NEW g, NEW f, AddsUp(f, g, n)
  PROVE  f[0] = 0 /\ \A k \in 1..n : k - 1 \in 0..n /\ f[k] = f[k - 1] + g[k]
<1>1. \A k \in 0..n : f[k] = IF k = 0 THEN 0 ELSE f[k - 1] + g[k]
  BY DEF AddsUp
<1> QED
  BY <1>1

LEMMA SumsAreIntegers ==
  ASSUME NEW n \in Nat, NEW g, NEW f, AddsUp(f, g, n), \A k \in 1..n : g[k] \in Int
  PROVE  \A k \in 0..n : f[k] \in Int
<1> DEFINE S == {m \in Nat : m <= n => f[m] \in Int}
<1>1. 0 \in S
  BY Entries
<1>2. ASSUME NEW m \in Nat, m \in S PROVE m + 1 \in S
  <2>1. CASE m + 1 <= n
    <3>1. m + 1 \in 1..n /\ (m + 1) - 1 = m /\ m <= n
      BY <2>1
    <3>2. f[m + 1] = f[m] + g[m + 1] /\ g[m + 1] \in Int
      BY <3>1, Entries
    <3> QED BY <1>2, <3>1, <3>2
  <2> QED BY <2>1
<1>3. Nat \subseteq S
  <2> HIDE DEF S
  <2> QED BY <1>1, <1>2, SetInduction
<1> QED
  BY <1>3

\* Any gaps can be added up.
LEMMA SumsExist ==
  ASSUME NEW n \in Nat, NEW g
  PROVE  \E f : AddsUp(f, g, n)
<1> DEFINE S == {m \in Nat : \E f : AddsUp(f, g, m)}
<1>1. 0 \in S
  <2>1. AddsUp([k \in 0..0 |-> 0], g, 0)
    BY DEF AddsUp
  <2> QED BY <2>1
<1>2. ASSUME NEW m \in Nat, m \in S PROVE m + 1 \in S
  <2>1. PICK f : AddsUp(f, g, m)
    BY <1>2
  <2> DEFINE e == [k \in 0..(m + 1) |-> IF k = m + 1 THEN f[m] + g[k] ELSE f[k]]
  <2>2. ASSUME NEW k \in 0..(m + 1)
        PROVE  e[k] = IF k = 0 THEN 0 ELSE e[k - 1] + g[k]
    <3>1. CASE k = m + 1
      BY <3>1
    <3>2. CASE k \in 1..m
      BY <2>1, <3>2, Entries
    <3>3. CASE k = 0
      BY <2>1, <3>3, Entries
    <3> QED BY <3>1, <3>2, <3>3
  <2>3. AddsUp(e, g, m + 1)
    <3>1. e = [k \in 0..(m + 1) |-> e[k]]
      OBVIOUS
    <3> HIDE DEF e
    <3> QED BY <2>2, <3>1 DEF AddsUp
  <2> QED BY <2>3
<1>3. Nat \subseteq S
  <2> HIDE DEF S
  <2> QED BY <1>1, <1>2, SetInduction
<1> QED
  BY <1>3

\* The gap of every roll, and the rows of every range.
Gaps == [k \in 1..Len(rolls) |-> Factor(rolls[k], 0)]

InRange(c, r) ==
  /\ c > 1 => rolls[c - 1] <= r - 1
  /\ c <= Len(rolls) => r - 1 < rolls[c]

RollsBeforeTheEnd == \A i \in DOMAIN rolls : rolls[i] < RowIndex

LEMMA GapsAreIntegers ==
  ASSUME Types, RollsBeforeTheEnd
  PROVE  /\ Len(rolls) \in Nat /\ DOMAIN rolls = 1..Len(rolls) /\ RowIndex \in Nat
         /\ \A k \in 1..Len(rolls) :
              /\ rolls[k] \in Nat /\ Gaps[k] \in Int
              /\ \A junk : Factor(rolls[k], junk) = Gaps[k]
         /\ \A r \in 1..RowIndex : PriceOf(frontBars[r]) \in Int
<1>1. /\ Len(rolls) \in Nat /\ DOMAIN rolls = 1..Len(rolls) /\ RowIndex \in Nat
      /\ \A k \in 1..Len(rolls) : rolls[k] \in Nat /\ rolls[k] < RowIndex
      /\ \A r \in 1..RowIndex : frontBars[r] \in Captured /\ backBars[r] \in Captured
  BY DEF Types, RowIndex, RollsBeforeTheEnd
<1>2. \A b \in Captured : PriceOf(b) \in Int
  BY FuturesAssumption DEF PriceOf, Captured, Bar
<1>3. ASSUME NEW k \in 1..Len(rolls)
      PROVE  /\ Gaps[k] \in Int
             /\ \A junk : Factor(rolls[k], junk) = Gaps[k]
  <2>1. rolls[k] + 1 \in 1..RowIndex
    BY <1>1
  <2>2. PriceOf(frontBars[rolls[k] + 1]) \in Int /\ PriceOf(backBars[rolls[k] + 1]) \in Int
    BY <1>1, <1>2, <2>1
  <2>3. \A junk : Factor(rolls[k], junk)
          = PriceOf(backBars[rolls[k] + 1]) - PriceOf(frontBars[rolls[k] + 1])
    BY <1>1 DEF Factor
  <2>4. Gaps[k] = Factor(rolls[k], 0)
    BY DEF Gaps
  <2> QED BY <2>2, <2>3, <2>4
<1> QED
  BY <1>1, <1>2, <1>3

\* The two recursions of Accumulated.
BackwardFrom(b, junk) ==
  [k \in 1..Len(Ranges) |->
     IF k = Len(Ranges) THEN 0
     ELSE b[k + 1] + Factor(Ranges[k].start + Ranges[k].length, junk)]

ForwardFrom(b, junk) ==
  [k \in 1..Len(Ranges) |-> IF k = 1 THEN 0 ELSE b[k - 1] + Factor(Ranges[k].start, junk)]

\* A range is shifted by the gaps of the rolls behind it or, forward, before it.
LEMMA AccumulatedGaps ==
  ASSUME Types, SwitchInv, rolls # <<>>, RollsBeforeTheEnd, NEW junk,
         NEW f, AddsUp(f, Gaps, Len(rolls)), NEW c \in 1..(Len(rolls) + 1)
  PROVE  Accumulated(junk)[c] =
           IF setup.direction = "Backward" THEN f[Len(rolls)] - f[c - 1] ELSE f[c - 1]
<1> DEFINE K == Len(rolls)
<1>1. /\ K \in Nat /\ Len(Ranges) = K + 1
      /\ \A k \in 1..(K + 1) :
           /\ Ranges[k].start = IF k = 1 THEN 0 ELSE rolls[k - 1]
           /\ Ranges[k].start + Ranges[k].length = IF k = K + 1 THEN RowIndex ELSE rolls[k]
  BY RangesOfRolls
<1>2. /\ \A k \in 0..K : f[k] \in Int
      /\ f[0] = 0 /\ \A k \in 1..K : f[k] = f[k - 1] + Gaps[k]
      /\ \A k \in 1..K : Gaps[k] \in Int /\ Factor(rolls[k], junk) = Gaps[k]
  <2>1. \A k \in 1..K : Gaps[k] \in Int /\ Factor(rolls[k], junk) = Gaps[k]
    BY GapsAreIntegers
  <2>2. AddsUp(f, Gaps, K)
    OBVIOUS
  <2> HIDE DEF K
  <2>3. f[0] = 0 /\ \A k \in 1..K : f[k] = f[k - 1] + Gaps[k]
    BY ONLY <1>1, <2>2, Entries
  <2>4. \A k \in 0..K : f[k] \in Int
    BY ONLY <1>1, <2>1, <2>2, SumsAreIntegers
  <2> QED BY <2>1, <2>3, <2>4
<1> HIDE DEF K
<1>3. CASE setup.direction = "Backward"
  <2> DEFINE e == [k \in 1..(K + 1) |-> f[K] - f[k - 1]]
  <2>1. ASSUME NEW b, NEW k \in 1..(K + 1)
        PROVE  BackwardFrom(b, junk)[k] = IF k = K + 1 THEN 0 ELSE b[k + 1] + Gaps[k]
    <3>1. BackwardFrom(b, junk)[k] =
            IF k = K + 1 THEN 0 ELSE b[k + 1] + Factor(Ranges[k].start + Ranges[k].length, junk)
      BY <1>1 DEF BackwardFrom
    <3>2. CASE k = K + 1
      BY <3>1, <3>2
    <3>3. CASE k # K + 1
      <4>1. k \in 1..K /\ Ranges[k].start + Ranges[k].length = rolls[k]
        BY <1>1, <3>3
      <4> QED BY <1>2, <3>1, <3>3, <4>1
    <3> QED BY <3>2, <3>3
  <2>2. \A b : DOMAIN BackwardFrom(b, junk) = 1..(K + 1)
    BY <1>1 DEF BackwardFrom
  <2>3. e = BackwardFrom(e, junk)
    <3>1. ASSUME NEW k \in 1..(K + 1) PROVE e[k] = BackwardFrom(e, junk)[k]
      <4>1. CASE k = K + 1
        <5>1. e[k] = f[K] - f[K] /\ f[K] \in Int
          BY <1>1, <1>2, <4>1
        <5> QED BY <2>1, <4>1, <5>1
      <4>2. CASE k # K + 1
        <5>1. k \in 1..K /\ k + 1 \in 1..(K + 1) /\ (k + 1) - 1 = k /\ k - 1 \in 0..K /\ k \in 0..K
              /\ K \in 0..K
          BY <1>1, <4>2
        <5>2. e[k] = f[K] - f[k - 1] /\ e[k + 1] = f[K] - f[k]
          BY <5>1
        <5>3. f[k] = f[k - 1] + Gaps[k] /\ Gaps[k] \in Int
              /\ f[k] \in Int /\ f[k - 1] \in Int /\ f[K] \in Int
          BY <1>2, <5>1
        <5> HIDE DEF e
        <5> QED BY <2>1, <4>2, <5>2, <5>3
      <4> QED BY <4>1, <4>2
    <3>2. e = [k \in 1..(K + 1) |-> e[k]]
      OBVIOUS
    <3>3. BackwardFrom(e, junk) = [k \in 1..(K + 1) |-> BackwardFrom(e, junk)[k]]
      BY <1>1 DEF BackwardFrom
    <3> HIDE DEF e
    <3> QED BY <3>1, <3>2, <3>3
  <2>4. Accumulated(junk) = CHOOSE b : b = BackwardFrom(b, junk)
    BY <1>3 DEF Accumulated, BackwardFrom
  <2> HIDE DEF e
  <2>5. PICK b : b = Accumulated(junk) /\ b = BackwardFrom(b, junk)
    BY <2>3, <2>4
  <2> DEFINE S == {m \in Nat : m <= K => b[(K + 1) - m] = f[K] - f[K - m]}
  <2>6. 0 \in S
    <3>1. b[K + 1] = 0 /\ f[K] - f[K] = 0 /\ (K + 1) - 0 = K + 1 /\ K - 0 = K
      BY <1>1, <1>2, <2>1, <2>5
    <3> QED BY <3>1
  <2>7. ASSUME NEW m \in Nat, m \in S PROVE m + 1 \in S
    <3> SUFFICES ASSUME m + 1 <= K PROVE b[(K + 1) - (m + 1)] = f[K] - f[K - (m + 1)]
      OBVIOUS
    <3> DEFINE k == K - m
    <3>1. /\ k \in 1..K /\ k \in 1..(K + 1) /\ k # K + 1 /\ m <= K
          /\ (K + 1) - (m + 1) = k /\ K - (m + 1) = k - 1 /\ (K + 1) - m = k + 1
          /\ k - 1 \in 0..K /\ k \in 0..K /\ K \in 0..K
      BY <1>1
    <3> HIDE DEF k
    <3>2. b[k + 1] = f[K] - f[k]
      BY <2>7, <3>1 DEF k
    <3>3. b[k] = b[k + 1] + Gaps[k]
      BY <2>1, <2>5, <3>1
    <3>4. f[k] = f[k - 1] + Gaps[k] /\ Gaps[k] \in Int
          /\ f[k] \in Int /\ f[k - 1] \in Int /\ f[K] \in Int
      BY <1>2, <3>1
    <3>5. b[k] = f[K] - f[k - 1]
      BY <3>2, <3>3, <3>4
    <3> QED BY <3>1, <3>5
  <2>8. Nat \subseteq S
    <3> HIDE DEF S
    <3> QED BY <2>6, <2>7, SetInduction
  <2>9. (K + 1) - c \in S /\ (K + 1) - c <= K /\ (K + 1) - ((K + 1) - c) = c
        /\ K - ((K + 1) - c) = c - 1
    <3>1. c \in 1..(K + 1)
      BY DEF K
    <3>2. (K + 1) - c \in Nat
      BY <1>1, <3>1
    <3> HIDE DEF S
    <3> QED BY <1>1, <2>8, <3>1, <3>2
  <2>10. b[c] = f[K] - f[c - 1]
    BY <2>9
  <2> QED BY <1>3, <2>5, <2>10 DEF K
<1>4. CASE setup.direction # "Backward"
  <2> DEFINE e == [k \in 1..(K + 1) |-> f[k - 1]]
  <2>1. ASSUME NEW b, NEW k \in 1..(K + 1)
        PROVE  ForwardFrom(b, junk)[k] = IF k = 1 THEN 0 ELSE b[k - 1] + Gaps[k - 1]
    <3>1. ForwardFrom(b, junk)[k] = IF k = 1 THEN 0 ELSE b[k - 1] + Factor(Ranges[k].start, junk)
      BY <1>1 DEF ForwardFrom
    <3>2. CASE k # 1
      <4>1. k - 1 \in 1..K /\ Ranges[k].start = rolls[k - 1]
        BY <1>1, <3>2
      <4> QED BY <1>2, <3>1, <3>2, <4>1
    <3> QED BY <3>1, <3>2
  <2>2. e = ForwardFrom(e, junk)
    <3>1. ASSUME NEW k \in 1..(K + 1) PROVE e[k] = ForwardFrom(e, junk)[k]
      <4>1. CASE k = 1
        <5>1. e[k] = f[0]
          BY <1>1, <4>1
        <5> QED BY <1>2, <2>1, <4>1, <5>1
      <4>2. CASE k # 1
        <5>1. k - 1 \in 1..K /\ k - 1 \in 1..(K + 1)
          BY <1>1, <4>2
        <5>2. e[k] = f[k - 1] /\ e[k - 1] = f[(k - 1) - 1]
          BY <5>1
        <5>3. f[k - 1] = f[(k - 1) - 1] + Gaps[k - 1]
          BY <1>2, <5>1
        <5> HIDE DEF e
        <5> QED BY <2>1, <4>2, <5>2, <5>3
      <4> QED BY <4>1, <4>2
    <3>2. e = [k \in 1..(K + 1) |-> e[k]]
      OBVIOUS
    <3>3. ForwardFrom(e, junk) = [k \in 1..(K + 1) |-> ForwardFrom(e, junk)[k]]
      BY <1>1 DEF ForwardFrom
    <3> HIDE DEF e
    <3> QED BY <3>1, <3>2, <3>3
  <2>4. Accumulated(junk) = CHOOSE b : b = ForwardFrom(b, junk)
    BY <1>4 DEF Accumulated, ForwardFrom
  <2> HIDE DEF e
  <2>5. PICK b : b = Accumulated(junk) /\ b = ForwardFrom(b, junk)
    BY <2>2, <2>4
  <2> DEFINE S == {m \in Nat : m <= K => b[m + 1] = f[m]}
  <2>6. 0 \in S
    <3>1. b[1] = 0
      BY <1>1, <2>1, <2>5
    <3> QED BY <1>2, <3>1
  <2>7. ASSUME NEW m \in Nat, m \in S PROVE m + 1 \in S
    <3> SUFFICES ASSUME m + 1 <= K PROVE b[(m + 1) + 1] = f[m + 1]
      OBVIOUS
    <3> DEFINE k == m + 1
    <3>1. /\ k \in 1..K /\ k + 1 \in 1..(K + 1) /\ k + 1 # 1 /\ (k + 1) - 1 = k
          /\ k - 1 = m /\ m <= K
      BY <1>1
    <3> HIDE DEF k
    <3>2. b[k] = f[k - 1]
      BY <2>7, <3>1 DEF k
    <3>3. b[k + 1] = b[k] + Gaps[k]
      BY <2>1, <2>5, <3>1
    <3>4. f[k] = f[k - 1] + Gaps[k]
      BY <1>2, <3>1
    <3> QED BY <3>2, <3>3, <3>4 DEF k
  <2>8. Nat \subseteq S
    <3> HIDE DEF S
    <3> QED BY <2>6, <2>7, SetInduction
  <2>9. c - 1 \in S /\ c - 1 <= K /\ (c - 1) + 1 = c
    <3>1. c \in 1..(K + 1)
      BY DEF K
    <3>2. c - 1 \in Nat
      BY <1>1, <3>1
    <3> HIDE DEF S
    <3> QED BY <1>1, <2>8, <3>1, <3>2
  <2>10. b[c] = f[c - 1]
    BY <2>9
  <2> QED BY <1>4, <2>5, <2>10
<1> QED
  BY <1>3, <1>4

\* The series s is the front bars, each shifted by the gaps that its range gives.
Shifted(s) ==
  /\ Len(s) = RowIndex
  /\ \E f : /\ AddsUp(f, Gaps, Len(rolls))
            /\ \A r \in 1..RowIndex : \E c \in 1..(Len(rolls) + 1) :
                 /\ InRange(c, r)
                 /\ s[r] = PriceOf(frontBars[r]) +
                      IF setup.direction = "Backward" THEN f[Len(rolls)] - f[c - 1] ELSE f[c - 1]

\* AdjustContracts gives that series.
LEMMA AdjustedIsShifted ==
  ASSUME Types, SwitchInv, rolls # <<>>, RollsBeforeTheEnd, NEW junk
  PROVE  Shifted(Adjusted(Accumulated(junk)))
<1> DEFINE K == Len(rolls)
           N == RowIndex
           s == Adjusted(Accumulated(junk))
<1>1. /\ K \in Nat /\ K > 0 /\ N \in Nat
      /\ \A k \in 1..K : rolls[k] \in Nat
      /\ DOMAIN Ranges = 1..(K + 1)
      /\ \A k \in 1..(K + 1) :
           /\ Ranges[k].start = IF k = 1 THEN 0 ELSE rolls[k - 1]
           /\ Ranges[k].start + Ranges[k].length = IF k = K + 1 THEN N ELSE rolls[k]
  BY RangesOfRolls, GapsAreIntegers
<1>2. PICK f : AddsUp(f, Gaps, K)
  BY <1>1, SumsExist
<1>3. ASSUME NEW r \in 1..N
      PROVE  /\ RangesOf(r - 1) # {} /\ Max(RangesOf(r - 1)) \in 1..(K + 1)
             /\ InRange(Max(RangesOf(r - 1)), r)
  <2> DEFINE R == RangesOf(r - 1)
  <2>1. R \in SUBSET (1..(K + 1)) /\ IsFiniteSet(R) /\ R \in SUBSET Nat
    <3>1. R \in SUBSET (1..(K + 1))
      BY <1>1 DEF RangesOf
    <3>2. IsFiniteSet(1..(K + 1))
      BY <1>1, FS_Interval
    <3>3. 1..(K + 1) \subseteq Nat
      BY <1>1
    <3> HIDE DEF R, K
    <3>4. IsFiniteSet(R)
      BY ONLY <3>1, <3>2, FS_Subset
    <3> QED BY <3>1, <3>3, <3>4
  <2>2. R # {}
    <3> DEFINE B == {k \in 1..(K + 1) : k > K \/ r - 1 < rolls[k]}
    <3>1. B \in SUBSET Nat /\ IsFiniteSet(B) /\ K + 1 \in B
      <4>1. B \in SUBSET (1..(K + 1)) /\ IsFiniteSet(1..(K + 1)) /\ K + 1 \in B
        BY <1>1, FS_Interval
      <4>2. 1..(K + 1) \subseteq Nat
        BY <1>1
      <4> HIDE DEF B, K
      <4>3. IsFiniteSet(B)
        BY ONLY <4>1, FS_Subset
      <4> QED BY ONLY <4>1, <4>2, <4>3
    <3>2. PICK k \in B : \A j \in B : k <= j
      <4>1. Min(B) \in B /\ \A j \in B : Min(B) <= j
        <5>1. B # {}
          BY <3>1
        <5> HIDE DEF B
        <5> QED BY <3>1, <5>1, Extremes
      <4> QED BY <4>1
    <3>3. k \in 1..(K + 1) /\ (k > K \/ r - 1 < rolls[k])
      BY <3>2
    <3>4. k # 1 => k - 1 \in 1..K /\ k - 1 \notin B
      BY <1>1, <3>2, <3>3
    <3>5. k # 1 => rolls[k - 1] <= r - 1
      <4>1. k # 1 => k - 1 \in 1..(K + 1) /\ ~(k - 1 > K) /\ rolls[k - 1] \in Nat
        BY <1>1, <3>3, <3>4
      <4>2. k # 1 => ~(r - 1 < rolls[k - 1])
        BY <3>4, <4>1
      <4> QED BY <4>1, <4>2
    <3>6. Ranges[k].start <= r - 1
      BY <1>1, <3>3, <3>5
    <3>7. r - 1 < Ranges[k].start + Ranges[k].length
      <4>1. CASE k = K + 1
        BY <1>1, <3>3, <4>1
      <4>2. CASE k # K + 1
        <5>1. ~(k > K)
          BY <1>1, <3>3, <4>2
        <5> QED BY <1>1, <3>3, <4>2, <5>1
      <4> QED BY <4>1, <4>2
    <3> QED BY <1>1, <3>3, <3>6, <3>7 DEF RangesOf
  <2>3. Max(R) \in R
    <3> HIDE DEF R
    <3> QED BY <2>1, <2>2, Extremes
  <2>4. ASSUME NEW c \in R PROVE c \in 1..(K + 1) /\ InRange(c, r)
    <3>1. c \in 1..(K + 1) /\ Ranges[c].start <= r - 1 /\ r - 1 < Ranges[c].start + Ranges[c].length
      BY <1>1 DEF RangesOf
    <3>2. c > 1 => rolls[c - 1] <= r - 1
      BY <1>1, <3>1
    <3>3. c <= K => r - 1 < rolls[c]
      BY <1>1, <3>1
    <3> QED BY <3>1, <3>2, <3>3 DEF InRange
  <2> HIDE DEF R
  <2>5. R # {} /\ Max(R) \in 1..(K + 1) /\ InRange(Max(R), r)
    BY <2>2, <2>3, <2>4
  <2> QED BY <2>5 DEF R
<1>4. ASSUME NEW r \in 1..N
      PROVE  \E c \in 1..(K + 1) :
               /\ InRange(c, r)
               /\ s[r] = PriceOf(frontBars[r]) +
                    IF setup.direction = "Backward" THEN f[K] - f[c - 1] ELSE f[c - 1]
  <2> DEFINE c == Max(RangesOf(r - 1))
  <2>1. s[r] = PriceOf(frontBars[r]) + Accumulated(junk)[c]
    BY <1>3 DEF Adjusted
  <2>2. c \in 1..(K + 1) /\ InRange(c, r)
    BY <1>3
  <2> HIDE DEF c, s
  <2>3. Accumulated(junk)[c] =
          IF setup.direction = "Backward" THEN f[K] - f[c - 1] ELSE f[c - 1]
    BY <1>2, <2>2, AccumulatedGaps
  <2> QED BY <2>1, <2>2, <2>3
<1>5. Len(s) = N
  BY <1>1 DEF Adjusted
<1> HIDE DEF s
<1>6. Shifted(s)
  BY <1>2, <1>4, <1>5 DEF Shifted
<1> QED
  BY <1>6 DEF s

\* So do the front bars kept without a roll.
LEMMA KeptIsShifted ==
  ASSUME Types, rolls = <<>>
  PROVE  Shifted([i \in 1..RowIndex |-> PriceOf(frontBars[i])])
<1> DEFINE s == [i \in 1..RowIndex |-> PriceOf(frontBars[i])]
<1>1. RollsBeforeTheEnd /\ Len(rolls) = 0
  BY DEF RollsBeforeTheEnd
<1>2. RowIndex \in Nat /\ \A r \in 1..RowIndex : PriceOf(frontBars[r]) \in Int
  BY <1>1, GapsAreIntegers
<1>3. PICK f : AddsUp(f, Gaps, 0)
  BY SumsExist
<1>4. f[0] = 0
  BY <1>3, Entries
<1>5. ASSUME NEW r \in 1..RowIndex
      PROVE  /\ InRange(1, r)
             /\ s[r] = PriceOf(frontBars[r]) +
                  IF setup.direction = "Backward" THEN f[Len(rolls)] - f[1 - 1] ELSE f[1 - 1]
  <2>1. InRange(1, r)
    BY <1>1 DEF InRange
  <2> QED BY <1>1, <1>2, <1>4, <2>1
<1>6. Len(s) = RowIndex
  BY <1>2
<1> HIDE DEF s
<1>7. Shifted(s)
  <2>1. 1 \in 1..(Len(rolls) + 1)
    BY <1>1
  <2> QED BY <1>1, <1>3, <1>5, <1>6, <2>1 DEF Shifted
<1> QED
  BY <1>7 DEF s

\* The recursion of GapsBetween.
SumBetween(f, lo, hi) ==
  [k \in 0..Len(rolls) |->
     IF k = 0 THEN 0
     ELSE f[k - 1] + IF lo <= rolls[k] /\ rolls[k] <= hi THEN Factor(rolls[k], 0) ELSE 0]

\* It adds up the gaps within the bounds.
LEMMA GapsAreAdded ==
  ASSUME Len(rolls) \in Nat, NEW lo, NEW hi
  PROVE  \E f : /\ GapsBetween(lo, hi) = f[Len(rolls)] /\ f[0] = 0
                /\ \A k \in 1..Len(rolls) :
                     f[k] = f[k - 1] + IF lo <= rolls[k] /\ rolls[k] <= hi THEN Gaps[k] ELSE 0
<1> DEFINE K == Len(rolls)
           g == [k \in 1..K |-> IF lo <= rolls[k] /\ rolls[k] <= hi THEN Factor(rolls[k], 0) ELSE 0]
           F == CHOOSE f : f = SumBetween(f, lo, hi)
<1>1. GapsBetween(lo, hi) = F[K]
  BY DEF GapsBetween, SumBetween
<1>2. PICK e : AddsUp(e, g, K)
  <2> HIDE DEF g
  <2> QED BY SumsExist
<1>3. e = SumBetween(e, lo, hi)
  <2>1. ASSUME NEW k \in 0..K
        PROVE  (IF k = 0 THEN 0 ELSE e[k - 1] + g[k]) = SumBetween(e, lo, hi)[k]
    <3>1. k # 0 => g[k] = IF lo <= rolls[k] /\ rolls[k] <= hi THEN Factor(rolls[k], 0) ELSE 0
      OBVIOUS
    <3> HIDE DEF g
    <3> QED BY <3>1 DEF SumBetween
  <2>2. e = [k \in 0..K |-> IF k = 0 THEN 0 ELSE e[k - 1] + g[k]]
    BY <1>2 DEF AddsUp
  <2>3. SumBetween(e, lo, hi) = [k \in 0..K |-> SumBetween(e, lo, hi)[k]]
    BY DEF SumBetween
  <2> HIDE DEF g
  <2> QED BY <2>1, <2>2, <2>3
<1>4. F = SumBetween(F, lo, hi)
  BY <1>3
<1> HIDE DEF F
<1>5. F[0] = 0 /\ \A k \in 1..K :
        F[k] = F[k - 1] + IF lo <= rolls[k] /\ rolls[k] <= hi THEN Gaps[k] ELSE 0
  <2>1. ASSUME NEW k \in 1..K
        PROVE  F[k] = F[k - 1] + IF lo <= rolls[k] /\ rolls[k] <= hi THEN Gaps[k] ELSE 0
    <3>1. k \in 0..K /\ k # 0 /\ Gaps[k] = Factor(rolls[k], 0)
      BY DEF Gaps
    <3>2. F[k] = SumBetween(F, lo, hi)[k]
      BY <1>4
    <3> QED BY <3>1, <3>2 DEF SumBetween
  <2>2. F[0] = SumBetween(F, lo, hi)[0] /\ 0 \in 0..K
    BY <1>4
  <2> QED BY <2>1, <2>2 DEF SumBetween
<1> QED
  BY <1>1, <1>5

\* What a range is shifted by are the gaps its rows are behind, or before, of.
LEMMA ShiftOfRange ==
  ASSUME Types, SwitchInv, RollsBeforeTheEnd, NEW f, AddsUp(f, Gaps, Len(rolls)),
         NEW r \in 1..RowIndex, NEW c \in 1..(Len(rolls) + 1), InRange(c, r)
  PROVE  /\ GapsBetween(r, RowIndex) = f[Len(rolls)] - f[c - 1]
         /\ rolls # <<>> => GapsBetween(rolls[1], r - 1) = f[c - 1]
<1> DEFINE K == Len(rolls)
<1>1. /\ K \in Nat /\ RowIndex \in Nat /\ DOMAIN rolls = 1..K
      /\ \A k \in 1..K : rolls[k] \in Nat /\ rolls[k] < RowIndex /\ Gaps[k] \in Int
  BY GapsAreIntegers DEF RollsBeforeTheEnd
<1>2. AddsUp(f, Gaps, K)
  OBVIOUS
<1>3. ASSUME NEW i \in 1..K, NEW j \in 1..K, i <= j PROVE rolls[i] <= rolls[j]
  <2>1. CASE i = j
    BY <1>1, <2>1
  <2>2. CASE i < j
    <3>1. i \in DOMAIN rolls /\ j \in DOMAIN rolls /\ rolls[i] \in Nat /\ rolls[j] \in Nat
      BY <1>1
    <3>2. rolls[i] < rolls[j]
      BY <2>2, <3>1 DEF SwitchInv, AreRolls
    <3> QED BY <3>1, <3>2
  <2>3. i \in Int /\ j \in Int
    BY <1>1
  <2> QED BY <1>3, <2>1, <2>2, <2>3
<1> HIDE DEF K
<1>4. f[0] = 0 /\ \A k \in 1..K : f[k] = f[k - 1] + Gaps[k]
  BY ONLY <1>1, <1>2, Entries
<1>5. \A k \in 0..K : f[k] \in Int
  BY ONLY <1>1, <1>2, SumsAreIntegers
<1>6. c \in 1..(K + 1)
  BY DEF K
<1>7. ASSUME NEW k \in 1..K
      PROVE  /\ k < c => rolls[k] <= r - 1 /\ ~(r <= rolls[k])
             /\ ~(k < c) => r <= rolls[k] /\ ~(rolls[k] <= r - 1)
  <2>1. CASE k < c
    <3>1. c - 1 \in 1..K /\ k <= c - 1 /\ c > 1
      BY <1>1, <1>6, <2>1
    <3>2. rolls[c - 1] <= r - 1
      BY <3>1 DEF InRange
    <3>3. rolls[k] <= rolls[c - 1] /\ rolls[k] \in Nat /\ rolls[c - 1] \in Nat
      BY <1>1, <1>3, <3>1
    <3> QED BY <1>1, <2>1, <3>2, <3>3
  <2>2. CASE ~(k < c)
    <3>1. c \in 1..K /\ c <= k /\ c <= K
      BY <1>1, <1>6, <2>2
    <3>2. r - 1 < rolls[c]
      BY <3>1 DEF InRange, K
    <3>3. rolls[c] <= rolls[k] /\ rolls[k] \in Nat /\ rolls[c] \in Nat
      BY <1>1, <1>3, <3>1
    <3> QED BY <1>1, <2>2, <3>2, <3>3
  <2> QED BY <2>1, <2>2
<1>8. GapsBetween(r, RowIndex) = f[K] - f[c - 1]
  <2>1. PICK g : /\ GapsBetween(r, RowIndex) = g[K] /\ g[0] = 0
                 /\ \A k \in 1..K :
                      g[k] = g[k - 1] + IF r <= rolls[k] /\ rolls[k] <= RowIndex THEN Gaps[k] ELSE 0
    BY <1>1, GapsAreAdded DEF K
  <2> DEFINE S == {m \in Nat : m <= K => g[m] = IF m < c THEN 0 ELSE f[m] - f[c - 1]}
  <2>2. 0 \in S
    BY <1>6, <2>1
  <2>3. ASSUME NEW m \in Nat, m \in S PROVE m + 1 \in S
    <3> SUFFICES ASSUME m + 1 <= K
                 PROVE  g[m + 1] = IF m + 1 < c THEN 0 ELSE f[m + 1] - f[c - 1]
      OBVIOUS
    <3>1. m + 1 \in 1..K /\ m \in 0..K /\ m <= K /\ (m + 1) - 1 = m /\ c - 1 \in 0..K
      BY <1>1, <1>6
    <3>2. g[m + 1] = g[m] + IF r <= rolls[m + 1] /\ rolls[m + 1] <= RowIndex THEN Gaps[m + 1] ELSE 0
      BY <2>1, <3>1
    <3>3. g[m] = IF m < c THEN 0 ELSE f[m] - f[c - 1]
      BY <2>3, <3>1
    <3>4. rolls[m + 1] \in Nat /\ rolls[m + 1] <= RowIndex /\ Gaps[m + 1] \in Int
      BY <1>1, <3>1
    <3>5. f[m + 1] = f[m] + Gaps[m + 1] /\ f[m] \in Int /\ f[c - 1] \in Int /\ f[m + 1] \in Int
      BY <1>4, <1>5, <3>1
    <3>6. CASE m + 1 < c
      <4>1. ~(r <= rolls[m + 1]) /\ m < c
        BY <1>6, <1>7, <3>1, <3>6
      <4> QED BY <3>2, <3>3, <3>6, <4>1
    <3>7. CASE m + 1 = c
      <4>1. r <= rolls[m + 1] /\ m < c /\ c - 1 = m /\ ~(m + 1 < c)
        BY <1>6, <1>7, <3>1, <3>7
      <4>2. g[m + 1] = Gaps[m + 1]
        BY <3>2, <3>3, <3>4, <4>1
      <4> QED BY <3>4, <3>5, <4>1, <4>2
    <3>8. CASE m + 1 > c
      <4>1. r <= rolls[m + 1] /\ ~(m < c) /\ ~(m + 1 < c)
        BY <1>6, <1>7, <3>1, <3>8
      <4>2. g[m + 1] = f[m] - f[c - 1] + Gaps[m + 1]
        BY <3>2, <3>3, <3>4, <4>1
      <4> QED BY <3>4, <3>5, <4>1, <4>2, SMTT(30)
    <3> QED BY <1>6, <3>6, <3>7, <3>8
  <2>4. Nat \subseteq S
    <3> HIDE DEF S
    <3> QED BY <2>2, <2>3, SetInduction
  <2>5. g[K] = IF K < c THEN 0 ELSE f[K] - f[c - 1]
    BY <1>1, <2>4
  <2>6. CASE K < c
    <3>1. c - 1 = K /\ f[K] \in Int
      BY <1>1, <1>5, <1>6, <2>6
    <3> QED BY <2>1, <2>5, <2>6, <3>1
  <2> QED BY <2>1, <2>5, <2>6
<1>9. ASSUME rolls # <<>> PROVE GapsBetween(rolls[1], r - 1) = f[c - 1]
  <2>0. K > 0
    BY <1>1, <1>9 DEF K
  <2>1. PICK g : /\ GapsBetween(rolls[1], r - 1) = g[K] /\ g[0] = 0
                 /\ \A k \in 1..K :
                      g[k] = g[k - 1] + IF rolls[1] <= rolls[k] /\ rolls[k] <= r - 1 THEN Gaps[k] ELSE 0
    <3> DEFINE lo == rolls[1]
               hi == r - 1
    <3> HIDE DEF lo, hi
    <3>1. \E g : /\ GapsBetween(lo, hi) = g[K] /\ g[0] = 0
                 /\ \A k \in 1..K :
                      g[k] = g[k - 1] + IF lo <= rolls[k] /\ rolls[k] <= hi THEN Gaps[k] ELSE 0
      BY <1>1, GapsAreAdded DEF K
    <3> QED BY <3>1 DEF lo, hi
  <2> DEFINE S == {m \in Nat : m <= K => g[m] = IF m < c THEN f[m] ELSE f[c - 1]}
  <2>2. 0 \in S
    BY <1>4, <1>6, <2>1
  <2>3. ASSUME NEW m \in Nat, m \in S PROVE m + 1 \in S
    <3> SUFFICES ASSUME m + 1 <= K
                 PROVE  g[m + 1] = IF m + 1 < c THEN f[m + 1] ELSE f[c - 1]
      OBVIOUS
    <3>1. m + 1 \in 1..K /\ m \in 0..K /\ m <= K /\ (m + 1) - 1 = m /\ c - 1 \in 0..K /\ 1 \in 1..K
      BY <1>1, <1>6, <2>0
    <3>2. g[m + 1] = g[m] + IF rolls[1] <= rolls[m + 1] /\ rolls[m + 1] <= r - 1 THEN Gaps[m + 1] ELSE 0
      BY <2>1, <3>1
    <3>3. g[m] = IF m < c THEN f[m] ELSE f[c - 1]
      BY <2>3, <3>1
    <3>4. rolls[1] <= rolls[m + 1] /\ Gaps[m + 1] \in Int
      <4>1. 1 <= m + 1
        OBVIOUS
      <4> QED BY <1>1, <1>3, <3>1, <4>1
    <3>5. f[m + 1] = f[m] + Gaps[m + 1] /\ f[m] \in Int /\ f[c - 1] \in Int /\ f[m + 1] \in Int
      BY <1>4, <1>5, <3>1
    <3>6. CASE m + 1 < c
      <4>1. rolls[m + 1] <= r - 1 /\ m < c
        BY <1>6, <1>7, <3>1, <3>6
      <4> QED BY <3>2, <3>3, <3>4, <3>5, <3>6, <4>1
    <3>7. CASE ~(m + 1 < c)
      <4>1. ~(rolls[m + 1] <= r - 1)
        BY <1>7, <3>1, <3>7
      <4>2. m < c => m = c - 1
        BY <1>6, <3>7
      <4>3. g[m] = f[c - 1]
        BY <3>3, <4>2
      <4> QED BY <3>2, <3>5, <3>7, <4>1, <4>3
    <3> QED BY <3>6, <3>7
  <2>4. Nat \subseteq S
    <3> HIDE DEF S
    <3> QED BY <2>2, <2>3, SetInduction
  <2>5. g[K] = IF K < c THEN f[K] ELSE f[c - 1]
    BY <1>1, <2>4
  <2>6. K < c => c - 1 = K
    BY <1>1, <1>6
  <2> QED BY <2>1, <2>5, <2>6
<1> QED
  BY <1>8, <1>9 DEF K

\* What a call returns are the shifted front bars, if every roll has a row.
SeriesInv == pc = "done" /\ RollsBeforeTheEnd => Shifted(series)

LEMMA SeriesStep ==
  ASSUME Types, SwitchInv, SeriesInv, [Next]_vars
  PROVE  SeriesInv'
<1>1. CASE \E t \in Times : SkipTimestamp(t) \/ CaptureTimestamp(t) \/ RollOver(t)
  <2>1. pc' = "rolling"
    BY <1>1 DEF SkipTimestamp, CaptureTimestamp, RollOver, Visits
  <2> QED BY <2>1 DEF SeriesInv
<1>2. CASE EndOfTimeline
  BY <1>2 DEF EndOfTimeline, SeriesInv
<1>3. ASSUME NEW s, UNCHANGED <<setup, rolls, frontBars, backBars>>, series' = s,
             RollsBeforeTheEnd => Shifted(s)
      PROVE  SeriesInv'
  <2>1. SUFFICES ASSUME RollsBeforeTheEnd' PROVE Shifted(series)'
    BY DEF SeriesInv
  <2>2. RowIndex' = RowIndex /\ Gaps' = Gaps /\ RollsBeforeTheEnd
    BY <1>3, <2>1 DEF RowIndex, Gaps, Factor, PriceOf, RollsBeforeTheEnd
  <2>3. Shifted(s)
    BY <1>3, <2>2
  <2> QED BY <1>3, <2>2, <2>3 DEF Shifted, InRange, PriceOf, AddsUp
<1>4. CASE KeepFrontBars
  <2>1. UNCHANGED <<setup, rolls, frontBars, backBars>> /\ rolls = <<>>
        /\ series' = [i \in 1..RowIndex |-> PriceOf(frontBars[i])]
    BY <1>4 DEF KeepFrontBars
  <2> QED BY <1>3, <2>1, KeptIsShifted
<1>5. CASE AdjustContracts
  <2>1. UNCHANGED <<setup, rolls, frontBars, backBars>> /\ rolls # <<>>
        /\ \E junk \in Junk : series' = Adjusted(Accumulated(junk))
    BY <1>5 DEF AdjustContracts
  <2> QED BY <1>3, <2>1, AdjustedIsShifted
<1>6. CASE UNCHANGED vars
  <2>1. UNCHANGED <<setup, pc, rolls, frontBars, backBars, series>>
    BY <1>6 DEF vars
  <2>2. CASE pc = "done"
    BY <1>3, <2>1, <2>2 DEF SeriesInv
  <2>3. CASE pc # "done"
    BY <2>1, <2>3 DEF SeriesInv
  <2> QED BY <2>2, <2>3
<1> QED
  BY <1>1, <1>2, <1>4, <1>5, <1>6 DEF Next

LEMMA SeriesSums ==
  ASSUME Types, SwitchInv, PendingInv, SeriesInv
  PROVE  SeriesAddsTheGaps
<1>1. RollsAreRows /\ RangesCoverTheRows
  BY RollsHaveRows, RangesCover
<1>2. ASSUME pc = "done", RollsBeforeTheEnd
      PROVE  /\ Len(series) = RowIndex
             /\ \A r \in 1..RowIndex :
                  series[r] = PriceOf(frontBars[r]) +
                    IF setup.direction = "Backward" THEN GapsBetween(r, RowIndex)
                    ELSE GapsBetween(IF rolls = <<>> THEN 0 ELSE rolls[1], r - 1)
  <2>1. Shifted(series)
    BY <1>2 DEF SeriesInv
  <2>2. PICK f : /\ AddsUp(f, Gaps, Len(rolls))
                 /\ \A r \in 1..RowIndex : \E c \in 1..(Len(rolls) + 1) :
                      /\ InRange(c, r)
                      /\ series[r] = PriceOf(frontBars[r]) +
                           IF setup.direction = "Backward" THEN f[Len(rolls)] - f[c - 1] ELSE f[c - 1]
    BY <2>1 DEF Shifted
  <2>3. ASSUME NEW r \in 1..RowIndex
        PROVE  series[r] = PriceOf(frontBars[r]) +
                 IF setup.direction = "Backward" THEN GapsBetween(r, RowIndex)
                 ELSE GapsBetween(IF rolls = <<>> THEN 0 ELSE rolls[1], r - 1)
    <3>1. PICK c \in 1..(Len(rolls) + 1) :
            /\ InRange(c, r)
            /\ series[r] = PriceOf(frontBars[r]) +
                 IF setup.direction = "Backward" THEN f[Len(rolls)] - f[c - 1] ELSE f[c - 1]
      BY <2>2
    <3>2. /\ GapsBetween(r, RowIndex) = f[Len(rolls)] - f[c - 1]
          /\ rolls # <<>> => GapsBetween(rolls[1], r - 1) = f[c - 1]
      BY <1>2, <2>2, <3>1, ShiftOfRange
    <3>3. rolls = <<>> => GapsBetween(0, r - 1) = f[c - 1]
      <4> SUFFICES ASSUME rolls = <<>> PROVE GapsBetween(0, r - 1) = f[c - 1]
        OBVIOUS
      <4>1. Len(rolls) = 0 /\ c = 1
        BY <3>1
      <4>2. f[0] = 0
        BY <2>2, <4>1, Entries
      <4> DEFINE hi == r - 1
      <4> HIDE DEF hi
      <4>3. PICK g : GapsBetween(0, hi) = g[Len(rolls)] /\ g[0] = 0
        BY <4>1, GapsAreAdded
      <4> QED BY <4>1, <4>2, <4>3 DEF hi
    <3>4. CASE setup.direction = "Backward"
      BY <3>1, <3>2, <3>4
    <3>5. CASE setup.direction # "Backward" /\ rolls = <<>>
      BY <3>1, <3>3, <3>5
    <3>6. CASE setup.direction # "Backward" /\ rolls # <<>>
      BY <3>1, <3>2, <3>6
    <3> QED BY <3>4, <3>5, <3>6
  <2>4. Len(series) = RowIndex
    BY <2>1 DEF Shifted
  <2> QED BY <2>3, <2>4
<1> QED
  BY <1>1, <1>2 DEF SeriesAddsTheGaps, RollsBeforeTheEnd

\* The adjusted series is the front bars plus the gaps of the rolls on the other side
\* of a row, whatever the contracts, their prices and the direction.
THEOREM AdjustmentsAddUp == Spec => []SeriesAddsTheGaps
<1>1. Init => SeriesInv
  BY DEF Init, SeriesInv
<1>2. Types /\ SwitchInv /\ SeriesInv /\ [Next]_vars => SeriesInv'
  BY SeriesStep
<1>3. Types /\ SwitchInv /\ PendingInv /\ SeriesInv => SeriesAddsTheGaps
  BY SeriesSums
<1> QED
  BY <1>1, <1>2, <1>3, RowsInv, PTL DEF Spec

=============================================================================
