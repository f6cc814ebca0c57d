---------------------------- MODULE PriceAction ----------------------------
(***************************************************************************)
(* The price action transforms (components/price_actions/smc): swing       *)
(* points, and the structure breaks, order blocks, liquidity pools and     *)
(* retracements read from them, with the fair value gaps and the levels of *)
(* the previous period and of the session.                                 *)
(*                                                                         *)
(* A transform is a function of the whole history: at every new bar the    *)
(* strategy runs again and all columns are computed from the first bar.    *)
(* The machine appends a bar and reruns the transforms, so that a run can  *)
(* be compared with the next one.  Rows count from 1 where the code counts *)
(* from 0; 0 stands for null and for "no index" in the integer columns.    *)
(* Prices are small integers; volumes are left out.                        *)
(***************************************************************************)
EXTENDS Integers, FiniteSets, SequencesExt

CONSTANTS
    Bars,             \* the bars that may come, records of open, high, low, close
    MaxBars,          \* bound on the history
    Calendar,         \* row -> [period, phase]: the clock of the bars
    SwingLength,      \* swing_length of swing_highs_lows
    CloseBreak,       \* close_break of bos_choch
    CloseMitigation,  \* close_mitigation of order_blocks
    JoinConsecutive,  \* join_consecutive of fair_value_gap
    RangeNum, RangeDen \* range_percent of liquidity, RangeNum / RangeDen

ASSUME PriceActionAssumption ==
    /\ Bars \subseteq [o : Nat \ {0}, h : Nat, l : Nat, c : Nat]
    /\ \A x \in Bars : {x.o, x.c} \subseteq x.l .. x.h
    /\ MaxBars \in Nat /\ SwingLength \in Nat \ {0}
    /\ {CloseBreak, CloseMitigation, JoinConsecutive} \subseteq BOOLEAN
    /\ RangeNum \in Nat /\ RangeDen \in Nat \ {0}

VARIABLES
    bars,    \* the history the transforms are given
    columns  \* the columns of the last run

vars == <<bars, columns>>

Rows(b) == 1 .. Len(b)
MaxOf(S) == CHOOSE x \in S : \A y \in S : y <= x
MinOf(S) == CHOOSE x \in S : \A y \in S : x <= y
First(S) == IF S = {} THEN 0 ELSE MinOf(S)
Upto(n) == [i \in 1 .. n |-> i]
AscendingRows(S) ==
    IF S = {} THEN <<>> ELSE SelectSeq(Upto(MaxOf(S)), LAMBDA i : i \in S)
Constant(b, x) == [i \in Rows(b) |-> x]

-----------------------------------------------------------------------------
\* swing_highs_lows

\* Candidate of row i: its high (low) is the highest (lowest) of the window of
\* 2 * swing_length rows that ends swing_length rows later.  The window rolls
\* over the shifted column, so it is complete from row 2 * swing_length on; one
\* that is not complete gives null.  A row that is both is a high.
Candidate(b, i) ==
    LET W == (i - SwingLength + 1) .. (i + SwingLength)
    IN IF i < 2 * SwingLength \/ i + SwingLength > Len(b) THEN 0
       ELSE IF b[i].h = MaxOf({b[j].h : j \in W}) THEN 1
       ELSE IF b[i].l = MinOf({b[j].l : j \in W}) THEN -1
       ELSE 0

Swings(s) == {i \in DOMAIN s : s[i] # 0}

\* One pass of the clean-up: of two neighbouring swings of the same side the
\* less extreme one goes, and the later one when they are equal.
Pass(b, s) ==
    LET P == AscendingRows(Swings(s))
        Beaten(k) == \/ s[P[k]] = 1 /\ b[P[k]].h < b[P[k + 1]].h
                     \/ s[P[k]] = -1 /\ b[P[k]].l > b[P[k + 1]].l
        Same == {k \in 1 .. Len(P) - 1 : s[P[k]] = s[P[k + 1]]}
        Removed == {P[k] : k \in {j \in Same : Beaten(j)}}
                     \cup {P[k + 1] : k \in {j \in Same : ~Beaten(j)}}
    IN [i \in DOMAIN s |-> IF i \in Removed THEN 0 ELSE s[i]]

\* Mutant: one pass only.
SettledInOnePass(b, s) == Pass(b, s)

RECURSIVE Settled(_, _)
Settled(b, s) == IF Pass(b, s) = s THEN s ELSE Settled(b, Pass(b, s))

\* The ends are padded with the side opposite to the first and last swing.
Padded(s) ==
    IF Swings(s) = {} THEN s
    ELSE LET first == s[MinOf(Swings(s))]
             last == s[MaxOf(Swings(s))]
         IN [s EXCEPT ![1] = -first, ![Len(s)] = -last]

SwingHighsLows(b) ==
    LET s == Padded(Settled(b, [i \in Rows(b) |-> Candidate(b, i)]))
    IN [high_low |-> s,
        level |-> [i \in Rows(b) |-> CASE s[i] = 1 -> b[i].h
                                       [] s[i] = -1 -> b[i].l
                                       [] OTHER -> 0]]

-----------------------------------------------------------------------------
\* bos_choch

\* The structure read from four swings in a row is marked at the second one.
Marked(shl, P, k) ==
    LET side(j) == shl.high_low[P[k - j]]
        lvl(j) == shl.level[P[k - j]]
        up == side(3) = -1 /\ side(2) = 1 /\ side(1) = -1 /\ side(0) = 1
        down == side(3) = 1 /\ side(2) = -1 /\ side(1) = 1 /\ side(0) = -1
        Rising(x, y, z, u) == x < y /\ y < z /\ z < u
        bos == CASE down /\ Rising(lvl(0), lvl(2), lvl(1), lvl(3)) -> -1
                 [] up /\ Rising(lvl(3), lvl(1), lvl(2), lvl(0)) -> 1
                 [] OTHER -> 0
        choch == CASE down /\ Rising(lvl(0), lvl(2), lvl(3), lvl(1)) -> -1
                   [] up /\ Rising(lvl(1), lvl(3), lvl(2), lvl(0)) -> 1
                   [] OTHER -> 0
    IN [row |-> P[k - 2], bos |-> bos, choch |-> choch, level |-> lvl(2)]

Structure(b, shl) ==
    LET P == AscendingRows(Swings(shl.high_low))
        M == {m \in {Marked(shl, P, k) : k \in 4 .. Len(P)} :
                 m.bos # 0 \/ m.choch # 0}
        At(i) == {m \in M : m.row = i}
        Pick(i) == CHOOSE m \in At(i) : TRUE
    IN [bos |-> [i \in Rows(b) |-> IF At(i) = {} THEN 0 ELSE Pick(i).bos],
        choch |-> [i \in Rows(b) |-> IF At(i) = {} THEN 0 ELSE Pick(i).choch],
        level |-> [i \in Rows(b) |-> IF At(i) = {} THEN 0 ELSE Pick(i).level],
        broken_index |-> Constant(b, 0)]

HasStructure(s, i) == s.bos[i] # 0 \/ s.choch[i] # 0

\* The first row, two or more later, whose price is beyond the level.
BreakRow(b, s, i) ==
    IF s.bos[i] = 1 \/ s.choch[i] = 1
    THEN First({j \in i + 2 .. Len(b) :
                   (IF CloseBreak THEN b[j].c ELSE b[j].h) > s.level[i]})
    ELSE First({j \in i + 2 .. Len(b) :
                   (IF CloseBreak THEN b[j].c ELSE b[j].l) < s.level[i]})

ClearRows(s, S) ==
    [s EXCEPT !.bos = [i \in DOMAIN @ |-> IF i \in S THEN 0 ELSE @[i]],
              !.choch = [i \in DOMAIN @ |-> IF i \in S THEN 0 ELSE @[i]],
              !.level = [i \in DOMAIN @ |-> IF i \in S THEN 0 ELSE @[i]]]

\* A break clears the earlier structures that were broken no earlier.  Their
\* broken_index stays.
Break(b, s, i) ==
    LET j == BreakRow(b, s, i)
        t == [s EXCEPT !.broken_index[i] = j]
    IN IF ~HasStructure(s, i) \/ j = 0 THEN s
       ELSE ClearRows(t, {k \in 1 .. i - 1 : HasStructure(t, k)
                                               /\ t.broken_index[k] >= j})

\* Mutant: structures that were never broken are kept.
BosChochUnbroken(b, shl) ==
    FoldLeft(LAMBDA acc, i : Break(b, acc, i), Structure(b, shl), Upto(Len(b)))

BosChoch(b, shl) ==
    LET s == FoldLeft(LAMBDA acc, i : Break(b, acc, i), Structure(b, shl),
                      Upto(Len(b)))
    IN ClearRows(s, {i \in Rows(b) : HasStructure(s, i)
                                       /\ s.broken_index[i] = 0})

-----------------------------------------------------------------------------
\* order_blocks

NoBlock == [ob |-> 0, top |-> 0, bottom |-> 0, mitigated_idx |-> 0, breaker |-> FALSE]

\* ProcessActiveOB at row i for the blocks of one side (1 bullish, -1 bearish).
ProcessActive(b, i, side, st) ==
    LET Low == IF CloseMitigation THEN MinOf({b[i].o, b[i].c}) ELSE b[i].l
        High == IF CloseMitigation THEN MaxOf({b[i].o, b[i].c}) ELSE b[i].h
        Invalid(B) == B.breaker /\ IF side = 1 THEN b[i].h > B.top
                                              ELSE b[i].l < B.bottom
        Mitigated(B) == ~B.breaker /\ IF side = 1 THEN Low < B.bottom
                                                 ELSE High > B.top
        at == IF side = 1 THEN i - 1 ELSE i
        One(acc, x) ==
            LET B == acc.S[x]
            IN CASE Invalid(B) -> [acc EXCEPT !.S[x] = NoBlock]
                 [] Mitigated(B) ->
                      [acc EXCEPT !.S[x].breaker = TRUE,
                                  !.S[x].mitigated_idx = at,
                                  !.active[side] = Append(@, x)]
                 [] OTHER -> [acc EXCEPT !.active[side] = Append(@, x)]
    IN FoldLeft(One, [st EXCEPT !.active[side] = <<>>], st.active[side])

\* The block of a cross of swing w by the close of row i: the last row between
\* them with the lowest low (highest high), or the row before i when there is
\* none; a bullish default block has its top and bottom swapped.
BlockOf(b, i, w, side) ==
    LET seg == w + 1 .. i - 1
        best == IF side = 1
                THEN {j \in seg : b[j].l = MinOf({b[x].l : x \in seg})}
                ELSE {j \in seg : b[j].h = MaxOf({b[x].h : x \in seg})}
    IN IF seg # {} THEN [row |-> MaxOf(best), top |-> b[MaxOf(best)].h,
                         bottom |-> b[MaxOf(best)].l]
       ELSE IF side = 1 THEN [row |-> i - 1, top |-> b[i - 1].l, bottom |-> b[i - 1].h]
       ELSE [row |-> i - 1, top |-> b[i - 1].h, bottom |-> b[i - 1].l]

\* TryCreateOB: the last swing before row i, provided there is one at i or later.
TryCreate(b, i, side, swings, st) ==
    LET before == {w \in swings : w < i}
        w == MaxOf(before)
        B == BlockOf(b, i, w, side)
        Crosses == IF side = 1 THEN b[i].c > b[w].h ELSE b[i].c < b[w].l
    IN IF before = {} \/ before = swings \/ w \in st.crossed \/ ~Crosses THEN st
       ELSE [st EXCEPT !.crossed = @ \cup {w},
                       !.S[B.row].ob = side,
                       !.S[B.row].top = B.top,
                       !.S[B.row].bottom = B.bottom,
                       !.active[side] = Append(@, B.row)]

OrderBlocks(b, shl) ==
    LET swings(side) == {i \in Rows(b) : shl.high_low[i] = side}
        start == [S |-> Constant(b, NoBlock), crossed |-> {},
                  active |-> [side \in {1, -1} |-> <<>>]]
        Step(st, i) ==
            LET p == ProcessActive(b, i, -1, ProcessActive(b, i, 1, st))
            IN TryCreate(b, i, -1, swings(-1), TryCreate(b, i, 1, swings(1), p))
    IN FoldLeft(Step, start, Upto(Len(b))).S

-----------------------------------------------------------------------------
\* fair_value_gap

NoGap == [fvg |-> 0, top |-> 0, bottom |-> 0]

\* Three bars in a row whose outer two do not overlap.
GapAt(b, i) ==
    CASE i \in {1, Len(b)} -> NoGap
      [] b[i].c > b[i].o /\ b[i - 1].h < b[i + 1].l ->
            [fvg |-> 1, top |-> b[i + 1].l, bottom |-> b[i - 1].h]
      [] b[i].c < b[i].o /\ b[i - 1].l > b[i + 1].h ->
            [fvg |-> -1, top |-> b[i - 1].l, bottom |-> b[i + 1].h]
      [] OTHER -> NoGap

\* A gap followed by one of the same side is merged into it.
Join(g, i) ==
    IF g[i].fvg = 0 \/ g[i].fvg # g[i + 1].fvg THEN g
    ELSE [g EXCEPT ![i] = NoGap,
                   ![i + 1].top = MaxOf({g[i].top, @}),
                   ![i + 1].bottom = MinOf({g[i].bottom, @})]

FairValueGap(b) ==
    LET raw == [i \in Rows(b) |-> GapAt(b, i)]
        g == IF JoinConsecutive
             THEN FoldLeft(Join, raw, Upto(Len(b) - 1)) ELSE raw
        Filled(i) == {j \in i + 2 .. Len(b) :
                         IF g[i].fvg = 1 THEN b[j].l <= g[i].top
                                         ELSE b[j].h >= g[i].bottom}
    IN [i \in Rows(b) |->
           [fvg |-> g[i].fvg, top |-> g[i].top, bottom |-> g[i].bottom,
            mitigated_index |-> IF g[i].fvg = 0 THEN 0 ELSE First(Filled(i))]]

-----------------------------------------------------------------------------
\* liquidity

NoPool == [liquidity |-> 0, members |-> {}, end |-> 0, swept |-> 0]

\* Mutant: the swings of a pool are not marked as used.
PoolsUnmarked(b, shl, side) ==
    LET cand == {i \in Rows(b) : shl.high_low[i] = side}
        Near(i, j) == shl.level[j] = shl.level[i]
        group(i) == {j \in cand : j > i /\ Near(i, j)}
    IN [i \in Rows(b) |->
          IF i \notin cand \/ group(i) = {} THEN NoPool
          ELSE [liquidity |-> side, members |-> group(i) \cup {i},
                end |-> MaxOf(group(i)), swept |-> 0]]

\* The pools of one side; the level of a pool is the average over its members.
Pools(b, shl, side) ==
    LET cand == {i \in Rows(b) : shl.high_low[i] = side}
        range == (MaxOf({b[i].h : i \in Rows(b)}) - MinOf({b[i].l : i \in Rows(b)}))
                   * RangeNum
        Far(x, y) == (x - y) * RangeDen >= range
        Near(i, j) == (shl.level[j] - shl.level[i]) * RangeDen \in -range .. range
        swept(i) == First({j \in i + 1 .. Len(b) :
                              IF side = 1 THEN Far(b[j].h, shl.level[i])
                                          ELSE Far(shl.level[i], b[j].l)})
        One(acc, i) ==
            LET group == {j \in cand \ acc.used :
                             j > i /\ (swept(i) = 0 \/ j < swept(i)) /\ Near(i, j)}
            IN IF i \in acc.used \/ group = {} THEN acc
               ELSE [used |-> acc.used \cup group,
                     pool |-> [acc.pool EXCEPT ![i] =
                         [liquidity |-> side, members |-> group \cup {i},
                          end |-> MaxOf(group), swept |-> swept(i)]]]
    IN FoldLeft(One, [used |-> {}, pool |-> Constant(b, NoPool)],
                AscendingRows(cand)).pool

Liquidity(b, shl) ==
    [i \in Rows(b) |-> IF shl.high_low[i] = -1 THEN Pools(b, shl, -1)[i]
                                               ELSE Pools(b, shl, 1)[i]]

-----------------------------------------------------------------------------
\* retracements, in tenths of a percent

Rounded(n, d) ==
    IF n * d >= 0 THEN (2 * n * d + d * d) \div (2 * d * d)
                  ELSE -((d * d - 2 * n * d) \div (2 * d * d))

Leg(b, shl, i) ==
    LET last(S) == MaxOf(S)
        of(side) == {j \in 1 .. i : shl.high_low[j] = side}
        both == of(1) \cup of(-1)
    IN [direction |-> IF both = {} THEN 0 ELSE shl.high_low[last(both)],
        top |-> IF of(1) = {} THEN 0 ELSE shl.level[last(of(1))],
        bottom |-> IF of(-1) = {} THEN 0 ELSE shl.level[last(of(-1))]]

NoPullback == [direction |-> 0, current |-> 0, deepest |-> 0]

\* Current and deepest retracement of each row, before they are shifted: from
\* the top while the row before points up, from the bottom from a swing low on.
Pullbacks(b, shl) ==
    LET One(acc, i) ==
            LET leg == Leg(b, shl, i)
                height == leg.top - leg.bottom
                before == IF i = 1 THEN NoPullback ELSE acc[i - 1]
                Row(side, x) ==
                    LET r == Rounded(1000 * x, height)
                    IN [direction |-> leg.direction, current |-> r,
                        deepest |-> MaxOf({r, IF before.direction = side
                                              THEN before.deepest ELSE 0})]
            IN Append(acc,
                 CASE height # 0 /\ leg.direction = -1 -> Row(-1, b[i].h - leg.bottom)
                   [] height # 0 /\ leg.direction # -1 /\ before.direction = 1 ->
                        Row(1, leg.top - b[i].l)
                   [] OTHER -> [NoPullback EXCEPT !.direction = leg.direction])
    IN FoldLeft(One, <<>>, Upto(Len(b)))

\* Shifted by one row; the rows up to the third change of direction are
\* cleared, or all but the last one when there are fewer changes.
Retracements(b, shl) ==
    LET n == Len(b)
        p == <<NoPullback>> \o SubSeq(Pullbacks(b, shl), 1, n - 1)
        changed == SelectSeq(Upto(n - 1), LAMBDA i : p[i].direction # p[i + 1].direction)
        cleared == IF Len(changed) < 3 THEN n - 1 ELSE changed[3] + 1
    IN [i \in Rows(b) |-> IF i <= cleared THEN NoPullback ELSE p[i]]

-----------------------------------------------------------------------------
\* previous_high_low and sessions

Period(i) == Calendar[i].period

\* Mutant: the position is the number of the earlier periods, one too many.
PreviousPeriodOpen(b, i) ==
    LET before == {q \in {Period(j) : j \in Rows(b)} : q < Period(i)}
    IN IF Cardinality(before) <= 1 THEN 0 ELSE Period(i)

\* The resampled bars are labelled with their right edge, so those that lie
\* before row i are the completed periods; the last but one is taken.
PreviousPeriod(b, i) ==
    LET before == {q \in {Period(j) : j \in Rows(b)} : q < Period(i)}
    IN IF Cardinality(before) <= 1 THEN 0 ELSE MaxOf(before \ {MaxOf(before)})

PreviousHighLow(b) ==
    LET q(i) == PreviousPeriod(b, i)
        hi(i) == MaxOf({b[j].h : j \in {x \in Rows(b) : Period(x) = q(i)}})
        lo(i) == MinOf({b[j].l : j \in {x \in Rows(b) : Period(x) = q(i)}})
        same(i) == {j \in 1 .. i : q(j) = q(i)}
    IN [i \in Rows(b) |->
          IF q(i) = 0
          THEN [previous_high |-> 0, previous_low |-> 0,
                broken_high |-> FALSE, broken_low |-> FALSE]
          ELSE [previous_high |-> hi(i), previous_low |-> lo(i),
                broken_high |-> \E j \in same(i) : b[j].h > hi(i),
                broken_low |-> \E j \in same(i) : b[j].l < lo(i)]]

\* A bar is active from the start to the end of the session, both included.
SessionState(i) ==
    [active |-> Calendar[i].phase \in {"open", "inside", "close"},
     opened |-> Calendar[i].phase = "open",
     closed |-> Calendar[i].phase = "close"]

\* The range since the bars became active; an inactive bar resets it to zero.
\* time_of_day computes the same for a range given by its options.
Sessions(b) ==
    LET range[i \in 0 .. Len(b)] ==
            LET before == range[i - 1]
            IN IF i = 0 \/ ~SessionState(i).active THEN [high |-> 0, low |-> 0]
               ELSE [high |-> MaxOf({b[i].h, before.high}),
                     low |-> IF before.low = 0 THEN b[i].l
                             ELSE MinOf({b[i].l, before.low})]
    IN [i \in Rows(b) |-> [state |-> SessionState(i),
                           high |-> range[i].high, low |-> range[i].low]]

-----------------------------------------------------------------------------
\* The machine

\* One run of the transforms over the whole history, in the order of the graph.
TransformData(b) ==
    LET shl == SwingHighsLows(b)
    IN [swings |-> shl, structure |-> BosChoch(b, shl), blocks |-> OrderBlocks(b, shl),
        gaps |-> FairValueGap(b), pools |-> Liquidity(b, shl),
        retracements |-> Retracements(b, shl),
        previous |-> PreviousHighLow(b), session |-> Sessions(b)]

Init == /\ bars \in {<<x>> : x \in Bars}
        /\ columns = TransformData(bars)

\* A new bar closes and the strategy runs again; MaxBars bounds the history.
NewBar ==
    /\ Len(bars) < MaxBars
    /\ \E x \in Bars : bars' = Append(bars, x)
    /\ columns' = TransformData(bars')

\* The strategy runs again on the same history.
Rerun == /\ columns' = TransformData(bars)
         /\ UNCHANGED bars

Next == NewBar \/ Rerun
Spec == Init /\ [][Next]_vars

-----------------------------------------------------------------------------
\* Properties

Neighbours(S) == {p \in S \X S : p[1] < p[2] /\ \A x \in S : ~(p[1] < x /\ x < p[2])}

\* The swings alternate, whatever the clean-up removed and the padding added,
\* and no candidate was dropped that is more extreme than the swing kept for
\* its leg (the passes of swing_highs_lows).
SwingsAreLegs ==
    LET s == columns.swings.high_low
        S == Swings(s)
        Better(x, k) == IF s[k] = 1 THEN bars[k].h >= bars[x].h
                                    ELSE bars[k].l <= bars[x].l
    IN /\ \A p \in Neighbours(S) : s[p[1]] # s[p[2]]
       /\ \A x \in Rows(bars) :
             LET side == Candidate(bars, x)
             IN side # 0 =>
                  \E k \in S :
                     /\ s[k] = side /\ Better(x, k)
                     /\ \A y \in S : ((x < y /\ y < k) \/ (k < y /\ y < x)) => (s[y] = side)

\* The structures that are left were broken, two rows later or more, by a price
\* beyond their level, and in the order in which they were formed.
BreaksAreInOrder ==
    LET s == columns.structure
        S == {i \in Rows(bars) : HasStructure(s, i)}
        Beyond(i) == LET b == bars[s.broken_index[i]]
                     IN IF s.bos[i] = 1 \/ s.choch[i] = 1
                        THEN (IF CloseBreak THEN b.c ELSE b.h) > s.level[i]
                        ELSE (IF CloseBreak THEN b.c ELSE b.l) < s.level[i]
    IN /\ \A i \in S :
             /\ s.broken_index[i] >= i + 2
             /\ s.bos[i] = 0 \/ s.choch[i] = 0
             /\ Beyond(i)
       /\ \A i, k \in S : k < i => s.broken_index[k] < s.broken_index[i]

\* What is read from the swings is about swings: a block lies between a swing of its
\* side and a later close beyond that swing, and is mitigated after its row; a pool
\* groups swings of one side that lie before its sweep and in no other pool; and a
\* retracement, on any row but the newest, is measured in a leg that has both its ends.
ReadFromSwings ==
    LET p == columns.pools
        high_low == columns.swings.high_low
        S == {i \in Rows(bars) : p[i].liquidity # 0}
        Crosses(i, w) == IF high_low[w] = 1 THEN bars[i].c > bars[w].h
                                            ELSE bars[i].c < bars[w].l
    IN /\ \A r \in Rows(bars) :
             LET B == columns.blocks[r]
             IN B.ob # 0 =>
                  /\ \E w \in 1 .. r : \E i \in r + 1 .. Len(bars) :
                        high_low[w] = B.ob /\ Crosses(i, w)
                  /\ B.breaker => B.mitigated_idx \in r + 1 .. Len(bars)
       /\ \A i \in S :
             /\ Cardinality(p[i].members) >= 2
             /\ \A j \in p[i].members : high_low[j] = p[i].liquidity
             /\ p[i].swept # 0 => p[i].end < p[i].swept
       /\ \A i, j \in S : i # j => p[i].members \cap p[j].members = {}
       /\ \A i \in 1 .. Len(bars) - 1 :
             columns.retracements[i].direction # 0 =>
                 {1, -1} \subseteq {high_low[j] : j \in 1 .. i - 1}

\* What a run reported stays as the history grows: the swings before the last
\* two, the levels of the previous period and of the session, and the gaps that
\* a later bar cannot join any more.
ReportedStays ==
    [][\A i \in Rows(bars) :
          LET S == Swings(columns.swings.high_low)
              last == MaxOf(S \ {MaxOf(S)})
          IN /\ (S # {} /\ i < last) =>
                   (columns'.swings.high_low[i] = columns.swings.high_low[i])
             /\ columns'.previous[i] = columns.previous[i]
             /\ columns'.session[i] = columns.session[i]
             /\ i < Len(bars) - 1 =>
                   LET g == columns.gaps[i]
                       h == columns'.gaps[i]
                   IN /\ <<h.fvg, h.top, h.bottom>> = <<g.fvg, g.top, g.bottom>>
                      /\ g.mitigated_index # 0 => h = g]_vars

\* A level that is reported is that of the last completed period
\* (files/transforms.yaml: with interval 1 "immediately previous period").
PreviousIsTheLastPeriod ==
    \A i \in Rows(bars) :
        LET done == {Period(j) : j \in Rows(bars)} \cap 0 .. Period(i) - 1
            last == {j \in Rows(bars) : Period(j) = MaxOf(done)}
        IN columns.previous[i].previous_high # 0 =>
              /\ columns.previous[i].previous_high = MaxOf({bars[j].h : j \in last})
              /\ columns.previous[i].previous_low = MinOf({bars[j].l : j \in last})
=============================================================================
