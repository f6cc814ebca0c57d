--------------------------- MODULE DatabaseProofs ---------------------------
(***************************************************************************)
(* Theorems about Database, for every set of assets and feeds, any data    *)
(* and any number of loads and refreshes.                                  *)
(***************************************************************************)
EXTENDS Database, NumberSets

-----------------------------------------------------------------------------
(* The buckets of bars, and the sequences that list bars in order of time.  *)

\* The buckets of finitely many bars are finitely many.
LEMMA FiniteBuckets ==
  ASSUME NEW S, IsFiniteSet(S)
  PROVE  IsFiniteSet({Bucket(t) : t \in S})
<1> DEFINE B == {Bucket(t) : t \in S}
           f == [t \in S |-> Bucket(t)]
<1>1. f \in [S -> B] /\ \A b \in B : \E t \in S : f[t] = b
  OBVIOUS
<1>2. f \in Surjection(S, B)
  <2> HIDE DEF f, B
  <2> QED BY <1>1, Fun_IsSurj
<1> QED
  <2> HIDE DEF f
  <2> QED BY <1>2, FS_Surjection

LEMMA Quotient ==
  ASSUME NEW n \in Nat, NEW b \in Nat \ {0}, n >= b
  PROVE  n \div b \in Int /\ n \div b >= 1
  OBVIOUS

LEMMA BucketTypes ==
  ASSUME NEW t \in Times
  PROVE  Bucket(t) \in Times
<1> DEFINE B == BucketLength
           q == (t + B - 1) \div B
<1>1. B \in Nat \ {0} /\ t + B - 1 \in Nat /\ t + B - 1 >= B
  BY DatabaseAssumption DEF Times
<1>2. q \in Int /\ q >= 1
  BY <1>1, Quotient
<1>3. Bucket(t) = q * B
  BY DEF Bucket
<1> HIDE DEF q, B
<1> QED
  BY <1>1, <1>2, <1>3 DEF Times

-----------------------------------------------------------------------------
(* Frames. *)

LEMMA FrameRange ==
  ASSUME NEW frame \in Frames
  PROVE  IsFiniteSet(Range(frame)) /\ Range(frame) \in SUBSET Times
  BY FiniteRange DEF Frames

LEMMA SortedFrame ==
  ASSUME NEW S \in SUBSET Times, IsFiniteSet(S)
  PROVE  Sorted(S) \in Frames /\ Range(Sorted(S)) = S
<1>1. S \in SUBSET Nat
  BY DEF Times
<1>2. Sorted(S) \in Seq(S) /\ Range(Sorted(S)) = S
  BY <1>1, SortedLists
<1> QED
  BY <1>2 DEF Frames

\* The continuation and the resampled frame of a frame.
LEMMA BuiltFrames ==
  ASSUME NEW frame \in Frames
  PROVE  /\ BuildBars(frame) \in Frames
         /\ BuildResampled(frame) \in Frames
         /\ Range(BuildResampled(frame)) = {Bucket(t) : t \in Range(frame)}
<1> DEFINE B == {Bucket(t) : t \in Range(frame)}
<1>1. IsFiniteSet(Range(frame)) /\ Range(frame) \in SUBSET Times
  BY FrameRange
<1>2. IsFiniteSet(B) /\ B \in SUBSET Times
  BY <1>1, FiniteBuckets, BucketTypes
<1> QED
  BY <1>1, <1>2, SortedFrame DEF BuildBars, BuildResampled

\* The rows of a timestamp lie in its range.
LEMMA RangesCover ==
  ASSUME NEW frame \in Frames
  PROVE  /\ Ranges(frame) \in [Range(frame) -> Times \X Times]
         /\ \A i \in DOMAIN frame : /\ frame[i] \in Range(frame)
                                    /\ Ranges(frame)[frame[i]][1] <= i
                                    /\ i <= Ranges(frame)[frame[i]][2]
<1>1. frame \in Seq(Times) /\ DOMAIN frame = 1..Len(frame)
  BY DEF Frames
<1>2. ASSUME NEW t \in Range(frame)
      PROVE  /\ RowsAt(frame, t) \in SUBSET Nat /\ RowsAt(frame, t) \in SUBSET Times
             /\ IsFiniteSet(RowsAt(frame, t)) /\ RowsAt(frame, t) # {}
  <2>1. IsFiniteSet(1..Len(frame))
    BY <1>1, FS_Interval
  <2>2. RowsAt(frame, t) \in SUBSET (1..Len(frame))
    BY <1>1 DEF RowsAt
  <2>3. IsFiniteSet(RowsAt(frame, t))
    BY <2>1, <2>2, FS_Subset
  <2>4. RowsAt(frame, t) # {}
    BY DEF Range, RowsAt
  <2> QED BY <2>2, <2>3, <2>4 DEF Times
<1>3. ASSUME NEW t \in Range(frame)
      PROVE  /\ Min(RowsAt(frame, t)) \in Times /\ Max(RowsAt(frame, t)) \in Times
             /\ \A i \in RowsAt(frame, t) :
                  Min(RowsAt(frame, t)) <= i /\ i <= Max(RowsAt(frame, t))
  <2> DEFINE S == RowsAt(frame, t)
  <2>1. S \in SUBSET Nat /\ S \in SUBSET Times /\ IsFiniteSet(S) /\ S # {}
    BY <1>2
  <2> HIDE DEF S
  <2>2. Min(S) \in S /\ Max(S) \in S /\ \A i \in S : Min(S) <= i /\ i <= Max(S)
    BY <2>1, Extremes
  <2> QED BY <2>1, <2>2 DEF S
<1>4. Ranges(frame) \in [Range(frame) -> Times \X Times]
  BY <1>3 DEF Ranges
<1>5. ASSUME NEW i \in DOMAIN frame
      PROVE  /\ frame[i] \in Range(frame)
             /\ Ranges(frame)[frame[i]][1] <= i /\ i <= Ranges(frame)[frame[i]][2]
  <2>1. frame[i] \in Range(frame) /\ i \in RowsAt(frame, frame[i])
    BY DEF Range, RowsAt
  <2> QED BY <1>3, <2>1 DEF Ranges
<1> QED
  BY <1>4, <1>5

\* One asset gets a frame.
LEMMA AssignedFrame ==
  ASSUME NEW m, FrameMap(m), NEW a \in Assets, NEW frame \in Frames
  PROVE  /\ FrameMap(Assigned(m, a, frame))
         /\ DOMAIN Assigned(m, a, frame) = DOMAIN m \cup {a}
         /\ Assigned(m, a, frame)[a] = frame
         /\ \A b \in DOMAIN m : b # a => Assigned(m, a, frame)[b] = m[b]
  BY DEF FrameMap, Assigned

LEMMA ContinuedTypes ==
  ASSUME NEW m, FrameMap(m)
  PROVE  /\ FrameMap(WithContinuations(m))
         /\ DOMAIN m \subseteq DOMAIN WithContinuations(m)
         /\ \A a \in DOMAIN m :
              (\A c \in Contracts : Continuation[c] # a) => WithContinuations(m)[a] = m[a]
<1> DEFINE built == {c \in Contracts \cap DOMAIN m : m[c] # <<>>}
           of(k) == CHOOSE c \in built : Continuation[c] = k
           n == WithContinuations(m)
<1>1. n = [a \in DOMAIN m \cup {Continuation[c] : c \in built} |->
             IF \E c \in built : Continuation[c] = a THEN BuildBars(m[of(a)]) ELSE m[a]]
  BY DEF WithContinuations
<1>2. /\ DOMAIN n = DOMAIN m \cup {Continuation[c] : c \in built}
      /\ \A a \in DOMAIN n :
           n[a] = IF \E c \in built : Continuation[c] = a THEN BuildBars(m[of(a)]) ELSE m[a]
  BY <1>1
<1>3. ASSUME NEW a \in DOMAIN n
      PROVE  a \in Assets /\ n[a] \in Frames
  <2>1. CASE \E c \in built : Continuation[c] = a
    <3>1. of(a) \in built
      BY <2>1
    <3>2. m[of(a)] \in Frames
      BY <3>1 DEF FrameMap
    <3>3. a \in Assets
      BY <2>1, DatabaseAssumption
    <3> QED BY <1>2, <2>1, <3>2, <3>3, BuiltFrames, SMTT(30)
  <2>2. CASE ~ \E c \in built : Continuation[c] = a
    <3>1. a \in DOMAIN m
      BY <1>2, <2>2
    <3> QED BY <1>2, <2>2, <3>1 DEF FrameMap
  <2> QED BY <2>1, <2>2
<1>4. FrameMap(n)
  BY <1>1, <1>3 DEF FrameMap
<1> QED
  BY <1>2, <1>4

-----------------------------------------------------------------------------
(* The feeds. *)

\* The bars that are not of a continuation: nobody else sends or loads these.
RawBars == {bar \in Bars : \A c \in Contracts : Continuation[c] # bar.asset}

\* A handler is connected per refresh, it works on a batch that was sent, and it
\* takes bars of the feeds.
FeedsInv ==
  /\ handlers = [f \in Feeds |-> refreshes]
  /\ \A f \in Feeds : ~Quiet(f) => sent[f] >= 1
  /\ taken \subseteq RawBars

LEMMA BatchTypes ==
  ASSUME TypeOK, FeedsInv, NEW f \in Feeds, ~Quiet(f)
  PROVE  BatchOf(f) \in Seq(Bars) /\ Range(BatchOf(f)) \subseteq RawBars
<1>1. sent[f] \in 1..Len(Stream[f]) /\ Stream[f] \in Seq(Seq(Bars))
  BY DatabaseAssumption DEF TypeOK, FeedsInv
<1>2. BatchOf(f) \in Seq(Bars) /\ sent[f] \in DOMAIN Stream[f]
  BY <1>1 DEF BatchOf
<1>3. ASSUME NEW bar \in Range(BatchOf(f)) PROVE bar \in RawBars
  <2>1. PICK j \in DOMAIN BatchOf(f) : bar = BatchOf(f)[j]
    BY DEF Range
  <2>2. bar \in Bars
    BY <1>2, <2>1
  <2>3. \A c \in Contracts : Continuation[c] # bar.asset
    BY <1>2, <2>1, ContinuationAssumption DEF BatchOf
  <2> QED BY <2>2, <2>3 DEF RawBars
<1> QED
  BY <1>2, <1>3

\* The bars of an asset in a batch, one row each.
LEMMA BarsOfAsset ==
  ASSUME NEW f \in Feeds, NEW a \in Assets, BatchOf(f) \in Seq(Bars)
  PROVE  LET times == [i \in DOMAIN BarsOf(f, a) |-> BarsOf(f, a)[i].time]
         IN  /\ times \in Frames
             /\ \A bar \in Range(BatchOf(f)) : bar.asset = a => bar.time \in Range(times)
<1> DEFINE batch == BatchOf(f)
           S == {i \in DOMAIN batch : batch[i].asset = a}
           rows == Sorted(S)
           times == [i \in DOMAIN BarsOf(f, a) |-> BarsOf(f, a)[i].time]
<1>1. batch \in Seq(Bars) /\ DOMAIN batch = 1..Len(batch) /\ Len(batch) \in Nat
  OBVIOUS
<1>2. S \in SUBSET Nat /\ IsFiniteSet(S)
  <2>1. S \in SUBSET (1..Len(batch)) /\ IsFiniteSet(1..Len(batch))
    BY <1>1, FS_Interval
  <2> HIDE DEF S
  <2>2. IsFiniteSet(S)
    BY <2>1, FS_Subset
  <2> QED BY <1>1, <2>1, <2>2
<1>3. rows \in Seq(S) /\ Range(rows) = S
  <2> HIDE DEF S
  <2> QED BY <1>2, SortedLists
<1>4. BarsOf(f, a) = [k \in DOMAIN rows |-> batch[rows[k]]]
  BY DEF BarsOf
<1> HIDE DEF rows
<1>5. times = [k \in DOMAIN rows |-> batch[rows[k]].time]
  BY <1>4
<1>6. ASSUME NEW k \in DOMAIN rows PROVE batch[rows[k]].time \in Times
  <2>1. rows[k] \in DOMAIN batch
    BY <1>3
  <2>2. batch[rows[k]] \in Bars
    BY <1>1, <2>1
  <2> QED BY <2>2 DEF Bars
<1>7. times \in Frames
  <2>1. DOMAIN rows = 1..Len(rows) /\ Len(rows) \in Nat
    BY <1>3
  <2> QED BY <1>5, <1>6, <2>1 DEF Frames
<1>8. ASSUME NEW bar \in Range(batch), bar.asset = a PROVE bar.time \in Range(times)
  <2>1. PICK i \in S : bar = batch[i]
    BY <1>8 DEF Range
  <2>2. PICK k \in DOMAIN rows : rows[k] = i
    BY <1>3 DEF Range
  <2>3. k \in DOMAIN times /\ times[k] = bar.time
    BY <1>5, <2>1, <2>2
  <2> HIDE DEF times
  <2> QED BY <2>3 DEF Range
<1> QED
  BY <1>7, <1>8

\* A store keeps the rows of its asset and adds those of the batch.
LEMMA AppendedRows ==
  ASSUME TypeOK, FeedsInv, NEW f \in Feeds, NEW a \in Assets, ~Quiet(f)
  PROVE  /\ Appended(f, a) \in Frames
         /\ a \in DOMAIN loaded => Range(loaded[a]) \subseteq Range(Appended(f, a))
         /\ \A bar \in Range(BatchOf(f)) : bar.asset = a => bar.time \in Range(Appended(f, a))
<1> DEFINE old == IF a \in DOMAIN loaded THEN loaded[a] ELSE <<>>
           times == [i \in DOMAIN BarsOf(f, a) |-> BarsOf(f, a)[i].time]
<1>1. BatchOf(f) \in Seq(Bars)
  BY BatchTypes
<1>2. /\ times \in Seq(Times)
      /\ \A bar \in Range(BatchOf(f)) : bar.asset = a => bar.time \in Range(times)
  BY <1>1, BarsOfAsset DEF Frames
<1>3. old \in Seq(Times)
  BY DEF TypeOK, FrameMap, Frames
<1>4. Appended(f, a) = old \o times
  BY DEF Appended
<1>5. a \in DOMAIN loaded => loaded[a] = old
  OBVIOUS
<1> HIDE DEF old, times
<1>6. old \o times \in Frames
  BY <1>2, <1>3 DEF Frames
<1>7. Range(old) \subseteq Range(old \o times) /\ Range(times) \subseteq Range(old \o times)
  <2>1. ASSUME NEW i \in DOMAIN old PROVE old[i] \in Range(old \o times)
    <3>1. i \in DOMAIN (old \o times) /\ (old \o times)[i] = old[i]
      BY <1>2, <1>3
    <3> QED BY <3>1 DEF Range
  <2>2. ASSUME NEW i \in DOMAIN times PROVE times[i] \in Range(old \o times)
    <3>1. Len(old) + i \in DOMAIN (old \o times) /\ (old \o times)[Len(old) + i] = times[i]
      BY <1>2, <1>3
    <3> QED BY <3>1 DEF Range
  <2> QED BY <2>1, <2>2 DEF Range
<1> QED
  BY <1>2, <1>4, <1>5, <1>6, <1>7

-----------------------------------------------------------------------------
(* The types of the variables. *)

LEMMA ItemTypes ==
  ASSUME NEW run, NEW data, DOMAIN data = Timeframes, \A tf \in Timeframes : FrameMap(data[tf]),
         NEW i \in ItemsOf(run, data)
  PROVE  \E tf \in Timeframes : \E a \in DOMAIN data[tf] :
           /\ i = Item(run, data, tf, a)
           /\ a \in Assets /\ data[tf][a] \in Frames
           /\ i.ranges \in [Range(data[tf][a]) -> Times \X Times]
<1>1. PICK tf \in Timeframes : \E a \in {b \in DOMAIN data[tf] : data[tf][b] # <<>>} :
                                  i = Item(run, data, tf, a)
  BY DEF ItemsOf
<1>2. PICK a \in DOMAIN data[tf] : i = Item(run, data, tf, a)
  BY <1>1
<1>3. a \in Assets /\ data[tf][a] \in Frames
  BY DEF FrameMap
<1>4. Ranges(data[tf][a]) \in [Range(data[tf][a]) -> Times \X Times]
  BY <1>3, RangesCover
<1> QED
  BY <1>2, <1>3, <1>4 DEF Item

\* A stage comes to assets that are loaded.
TodoInv == pc \in {"base", "resample"} => todo \subseteq DOMAIN loaded

Core == TypeOK /\ FeedsInv /\ TodoInv

LEMMA NoData ==
  /\ FrameMap(Empty) /\ DOMAIN Empty = {}
  /\ DOMAIN NoFrames = Timeframes /\ \A tf \in Timeframes : NoFrames[tf] = Empty
<1>1. DOMAIN Empty = {} /\ Empty \in [{} -> Frames]
  BY DEF Empty
<1> QED
  BY <1>1 DEF FrameMap, NoFrames

LEMMA InitCore == Init => Core
<1> SUFFICES ASSUME Init PROVE Core
  OBVIOUS
<1>1. FrameMap(loaded) /\ todo \subseteq Assets
  BY NoData DEF Init
<1>2. \A m \in {staged, transformed} :
        DOMAIN m = Timeframes /\ \A tf \in Timeframes : FrameMap(m[tf])
  BY NoData DEF Init
<1>3. indexer = {} /\ tsIndex \in [indexer -> 1..runs] /\ runs \in Nat
  BY DEF Init, Empty
<1>4. \A f \in Feeds : sent[f] <= Len(Stream[f])
  BY DatabaseAssumption DEF Init
<1>5. /\ pc \in Unlocked \cup {"idle", "crashed"}
      /\ loads \in 0..MaxLoads /\ refreshes \in 0..MaxRefreshes
      /\ taken \subseteq Bars
  BY DatabaseAssumption DEF Init
<1>6. /\ handlers \in [Feeds -> 0..MaxRefreshes]
      /\ delivery \in [Feeds -> [left : 0..MaxRefreshes, assets : SUBSET Assets]]
      /\ sent \in [Feeds -> Nat]
      /\ reloaded \in BOOLEAN
  <2>1. 0 \in 0..MaxRefreshes
    BY DatabaseAssumption
  <2>2. reloaded \in BOOLEAN
    BY Zenon DEF Init
  <2> QED BY <2>1, <2>2 DEF Init
<1>8. TypeOK
  BY <1>1, <1>2, <1>3, <1>4, <1>5, <1>6 DEF TypeOK
<1>7. FeedsInv
  BY DEF Init, FeedsInv, Quiet
<1> QED
  BY <1>7, <1>8 DEF Core, TodoInv, Init

\* The steps of the pipeline leave the feeds alone, and most of them the published data.
LEMMA PipelineKeeps ==
  ASSUME Core,
         UNCHANGED published, UNCHANGED <<sent, delivery>>,
         UNCHANGED <<refreshes, handlers>>, taken' \in {taken, {}}, reloaded' \in BOOLEAN,
         pc' \in Unlocked \cup {"idle", "crashed"}, loads' \in 0..MaxLoads,
         FrameMap(loaded'), todo' \subseteq Assets, TodoInv',
         DOMAIN staged' = Timeframes, \A tf \in Timeframes : FrameMap(staged'[tf])
  PROVE  Core'
<1>1. FeedsInv'
  BY DEF Core, FeedsInv, Quiet
<1>2. taken' \subseteq Bars
  BY DEF Core, TypeOK
<1>3. TypeOK'
  BY <1>2 DEF Core, TypeOK, published
<1> QED
  BY <1>1, <1>3 DEF Core

LEMMA PipelineCore ==
  ASSUME Core,
         \/ RunPipeline \/ LoadData \/ LoadDataThrows \/ RefreshPipeline
         \/ AppendFuturesContinuations \/ CopyNothing \/ TransformThrows
         \/ \E a \in Assets : CopyBaseData(a) \/ Resample(a)
  PROVE  Core'
<1> USE DEF feedVars, published, Unlocked
<1>0. /\ TypeOK /\ FeedsInv /\ TodoInv
      /\ FrameMap(loaded) /\ todo \subseteq Assets /\ loads \in 0..MaxLoads
      /\ DOMAIN staged = Timeframes /\ \A tf \in Timeframes : FrameMap(staged[tf])
      /\ reloaded \in BOOLEAN /\ DOMAIN loaded \subseteq Assets
  BY DEF Core, TypeOK, FrameMap
<1>1. CASE RunPipeline \/ LoadDataThrows
  <2>1. loads' \in 0..MaxLoads /\ TodoInv'
    BY <1>0, <1>1, DatabaseAssumption DEF RunPipeline, LoadDataThrows, TodoInv
  <2> QED BY <1>0, <1>1, <2>1, PipelineKeeps DEF RunPipeline, LoadDataThrows
<1>2. CASE CopyNothing \/ TransformThrows
  <2>1. TodoInv'
    BY <1>0, <1>2 DEF CopyNothing, TransformThrows, TodoInv
  <2>2. DOMAIN staged' = Timeframes /\ \A tf \in Timeframes : FrameMap(staged'[tf])
    BY <1>0, <1>2, NoData DEF CopyNothing, TransformThrows
  <2> QED BY <1>0, <1>2, <2>1, <2>2, PipelineKeeps DEF CopyNothing, TransformThrows
<1>3. CASE LoadData
  <2>1. FrameMap(loaded') /\ TodoInv' /\ reloaded' \in BOOLEAN
    BY <1>0, <1>3, DatabaseAssumption DEF LoadData, TodoInv
  <2> QED BY <1>0, <1>3, <2>1, PipelineKeeps DEF LoadData
<1>4. CASE RefreshPipeline
  <2>1. handlers' = [f \in Feeds |-> refreshes'] /\ refreshes' \in 0..MaxRefreshes
    BY <1>0, <1>4, DatabaseAssumption DEF RefreshPipeline, FeedsInv, TypeOK
  <2>2. FeedsInv' /\ TodoInv'
    BY <1>0, <1>4, <2>1 DEF RefreshPipeline, FeedsInv, TodoInv, Quiet
  <2>3. TypeOK'
    BY <1>0, <1>4, <2>1 DEF RefreshPipeline, TypeOK
  <2> QED BY <2>2, <2>3 DEF Core
<1>5. CASE AppendFuturesContinuations
  <2>1. FrameMap(loaded') /\ DOMAIN loaded' \subseteq Assets
    BY <1>0, <1>5, ContinuedTypes DEF AppendFuturesContinuations, FrameMap
  <2>2. TodoInv' /\ todo' \subseteq Assets
    BY <1>5, <2>1 DEF AppendFuturesContinuations, TodoInv
  <2>3. DOMAIN staged' = Timeframes /\ \A tf \in Timeframes : FrameMap(staged'[tf])
    BY <1>5, NoData DEF AppendFuturesContinuations
  <2> QED BY <1>0, <1>5, <2>1, <2>2, <2>3, PipelineKeeps DEF AppendFuturesContinuations
<1>6. ASSUME NEW tf \in Timeframes, NEW a \in Assets, NEW frame \in Frames, Stage(tf, a, frame)
      PROVE  DOMAIN staged' = Timeframes /\ \A g \in Timeframes : FrameMap(staged'[g])
  BY <1>0, <1>6, AssignedFrame DEF Stage
<1>7. ASSUME NEW a \in Assets, CopyBaseData(a) \/ Resample(a) PROVE Core'
  <2>1. a \in DOMAIN loaded /\ loaded[a] \in Frames
    BY <1>0, <1>7 DEF CopyBaseData, Resample, TodoInv, FrameMap
  <2>2. \E tf \in Timeframes : \E frame \in Frames : Stage(tf, a, frame)
    <3>1. BuildResampled(loaded[a]) \in Frames /\ "base" \in Timeframes /\ "resampled" \in Timeframes
      BY <2>1, BuiltFrames DEF Timeframes
    <3> QED BY <1>7, <2>1, <3>1 DEF CopyBaseData, Resample
  <2>3. DOMAIN staged' = Timeframes /\ \A g \in Timeframes : FrameMap(staged'[g])
    BY <1>6, <2>2
  <2>4. TodoInv' /\ todo' \subseteq Assets /\ pc' \in {"base", "resample"}
    BY <1>0, <1>7 DEF CopyBaseData, Resample, TodoInv, ToResample
  <2> QED BY <1>0, <1>7, <2>3, <2>4, PipelineKeeps DEF CopyBaseData, Resample
<1> QED
  BY <1>1, <1>2, <1>3, <1>4, <1>5, <1>7

LEMMA PublishCore ==
  ASSUME Core, Publish
  PROVE  Core'
<1>0. /\ TypeOK /\ FeedsInv /\ TodoInv /\ runs \in Nat
      /\ DOMAIN staged = Timeframes /\ \A tf \in Timeframes : FrameMap(staged[tf])
      /\ tsIndex \in [indexer -> 1..runs]
  BY DEF Core, TypeOK
<1>1. ASSUME NEW i \in ItemsOf(runs', transformed')
      PROVE  /\ DOMAIN i = {"run", "tf", "asset", "ranges"}
             /\ i.run \in 1..runs' /\ i.tf \in Timeframes /\ i.asset \in Assets
             /\ i.ranges \in [DOMAIN i.ranges -> Times \X Times]
  <2>1. runs' = runs + 1 /\ transformed' = staged
    BY DEF Publish
  <2>2. PICK tf \in Timeframes : \E a \in DOMAIN staged[tf] :
           /\ i = Item(runs', staged, tf, a)
           /\ a \in Assets /\ staged[tf][a] \in Frames
           /\ i.ranges \in [Range(staged[tf][a]) -> Times \X Times]
    BY <1>0, <1>1, <2>1, ItemTypes
  <2> QED BY <1>0, <2>1, <2>2 DEF Item
<1>2. \A i \in indexer' :
       /\ DOMAIN i = {"run", "tf", "asset", "ranges"}
       /\ i.run \in 1..runs' /\ i.tf \in Timeframes /\ i.asset \in Assets
       /\ i.ranges \in [DOMAIN i.ranges -> Times \X Times]
  <2>1. runs' = runs + 1 /\ indexer' = indexer \cup ItemsOf(runs', transformed')
    BY DEF Publish
  <2> QED BY <1>0, <1>1, <2>1 DEF TypeOK
<1>3. tsIndex' \in [indexer' -> 1..runs'] /\ runs' \in Nat
  BY <1>0 DEF Publish
<1>4. /\ DOMAIN transformed' = Timeframes /\ \A tf \in Timeframes : FrameMap(transformed'[tf])
      /\ DOMAIN staged' = Timeframes /\ \A tf \in Timeframes : FrameMap(staged'[tf])
  BY <1>0, NoData DEF Publish
<1>5. TypeOK'
  BY <1>0, <1>2, <1>3, <1>4 DEF TypeOK, Publish, feedVars
<1> QED
  BY <1>0, <1>5 DEF Core, Publish, feedVars, FeedsInv, TodoInv, Quiet

\* The parts of a delivery.
Deliveries == [left : 0..MaxRefreshes, assets : SUBSET Assets]

LEMMA LeftChanged ==
  ASSUME TypeOK, NEW f \in Feeds, NEW n \in 0..MaxRefreshes,
         delivery' = [delivery EXCEPT ![f].left = n]
  PROVE  /\ delivery' \in [Feeds -> Deliveries]
         /\ delivery'[f].left = n /\ delivery'[f].assets = delivery[f].assets
         /\ \A g \in Feeds : g # f => delivery'[g] = delivery[g]
  BY DEF TypeOK, Deliveries

LEMMA AssetsChanged ==
  ASSUME TypeOK, NEW f \in Feeds, NEW A \in SUBSET Assets,
         delivery' = [delivery EXCEPT ![f].assets = A]
  PROVE  /\ delivery' \in [Feeds -> Deliveries]
         /\ delivery'[f].left = delivery[f].left /\ delivery'[f].assets = A
         /\ \A g \in Feeds : g # f => delivery'[g] = delivery[g]
  BY DEF TypeOK, Deliveries

LEMMA BothChanged ==
  ASSUME TypeOK, NEW f \in Feeds, NEW n \in 0..MaxRefreshes, NEW A \in SUBSET Assets,
         delivery' = [delivery EXCEPT ![f].left = n, ![f].assets = A]
  PROVE  /\ delivery' \in [Feeds -> Deliveries]
         /\ delivery'[f].left = n /\ delivery'[f].assets = A
         /\ \A g \in Feeds : g # f => delivery'[g] = delivery[g]
  BY DEF TypeOK, Deliveries

\* What the steps of a feed do to the deliveries.
LEMMA DeliverySteps ==
  ASSUME Core, NEW f \in Feeds
  PROVE  /\ NewMessage(f) =>
              /\ delivery' \in [Feeds -> Deliveries]
              /\ delivery'[f].assets = {} /\ \A g \in Feeds : Quiet(g)
              /\ \A g \in Feeds : g # f => delivery'[g] = delivery[g]
         /\ TakeBatch(f) =>
              /\ delivery' \in [Feeds -> Deliveries]
              /\ ~Quiet(f) /\ delivery[f].assets = {}
              /\ delivery'[f].assets = {bar.asset : bar \in Range(BatchOf(f))}
              /\ \A g \in Feeds : g # f => delivery'[g] = delivery[g]
         /\ DropBatch(f) \/ HandlerThrows(f) =>
              /\ delivery' \in [Feeds -> Deliveries]
              /\ ~Quiet(f) /\ delivery'[f].assets = delivery[f].assets
              /\ \A g \in Feeds : g # f => delivery'[g] = delivery[g]
         /\ \A a \in Assets : StoreBars(f, a) =>
              /\ delivery' \in [Feeds -> Deliveries]
              /\ ~Quiet(f) /\ delivery'[f].assets = delivery[f].assets \ {a}
              /\ \A g \in Feeds : g # f => delivery'[g] = delivery[g]
<1>0. TypeOK /\ FeedsInv /\ delivery \in [Feeds -> Deliveries] /\ MaxRefreshes \in Nat
      /\ handlers[f] \in 0..MaxRefreshes
  BY DatabaseAssumption DEF Core, TypeOK, Deliveries
<1>1. ASSUME delivery[f].left > 0
      PROVE  ~Quiet(f) /\ delivery[f].left - 1 \in 0..MaxRefreshes
  <2>1. delivery[f].left \in 0..MaxRefreshes
    BY <1>0 DEF Deliveries
  <2> QED BY <1>0, <1>1, <2>1 DEF Quiet
<1>2. ASSUME NewMessage(f)
      PROVE  /\ delivery' \in [Feeds -> Deliveries]
             /\ delivery'[f].assets = {} /\ \A g \in Feeds : Quiet(g)
             /\ \A g \in Feeds : g # f => delivery'[g] = delivery[g]
  <2>1. \A g \in Feeds : Quiet(g)
    BY <1>2 DEF NewMessage
  <2>2. delivery[f].assets = {}
    BY <2>1 DEF Quiet
  <2> QED BY <1>0, <1>2, <2>1, <2>2, LeftChanged DEF NewMessage
<1>3. ASSUME TakeBatch(f)
      PROVE  /\ delivery' \in [Feeds -> Deliveries]
             /\ ~Quiet(f) /\ delivery[f].assets = {}
             /\ delivery'[f].assets = {bar.asset : bar \in Range(BatchOf(f))}
             /\ \A g \in Feeds : g # f => delivery'[g] = delivery[g]
  <2> DEFINE A == {bar.asset : bar \in Range(BatchOf(f))}
             n == delivery[f].left - 1
  <2>1. ~Quiet(f) /\ n \in 0..MaxRefreshes /\ delivery[f].assets = {}
    BY <1>1, <1>3 DEF TakeBatch
  <2>2. A \in SUBSET Assets
    <3>1. Range(BatchOf(f)) \subseteq RawBars
      BY <1>0, <2>1, BatchTypes
    <3> QED BY <3>1 DEF RawBars, Bars
  <2>3. delivery' = [delivery EXCEPT ![f].left = n, ![f].assets = A]
    BY <1>3 DEF TakeBatch
  <2> HIDE DEF A, n
  <2>4. /\ delivery' \in [Feeds -> Deliveries]
        /\ delivery'[f].assets = A
        /\ \A g \in Feeds : g # f => delivery'[g] = delivery[g]
    BY <1>0, <2>1, <2>2, <2>3, BothChanged, ZenonT(30)
  <2> QED BY <2>1, <2>4 DEF A
<1>4. ASSUME DropBatch(f) \/ HandlerThrows(f)
      PROVE  /\ delivery' \in [Feeds -> Deliveries]
             /\ ~Quiet(f) /\ delivery'[f].assets = delivery[f].assets
             /\ \A g \in Feeds : g # f => delivery'[g] = delivery[g]
  <2>1. ~Quiet(f) /\ delivery[f].left - 1 \in 0..MaxRefreshes /\ 0 \in 0..MaxRefreshes
    BY <1>0, <1>1, <1>4 DEF DropBatch, HandlerThrows
  <2>2. \E n \in 0..MaxRefreshes : delivery' = [delivery EXCEPT ![f].left = n]
    BY <1>4, <2>1 DEF DropBatch, HandlerThrows
  <2> QED BY <1>0, <2>1, <2>2, LeftChanged
<1>5. ASSUME NEW a \in Assets, StoreBars(f, a)
      PROVE  /\ delivery' \in [Feeds -> Deliveries]
             /\ ~Quiet(f) /\ delivery'[f].assets = delivery[f].assets \ {a}
             /\ \A g \in Feeds : g # f => delivery'[g] = delivery[g]
  <2>1. ~Quiet(f)
    BY <1>5 DEF StoreBars, Quiet
  <2>2. delivery[f].assets \ {a} \in SUBSET Assets
    BY <1>0 DEF Deliveries
  <2>3. delivery' = [delivery EXCEPT ![f].assets = delivery[f].assets \ {a}]
    BY <1>5 DEF StoreBars
  <2> QED BY <1>0, <2>1, <2>2, <2>3, AssetsChanged
<1> QED
  BY <1>2, <1>3, <1>4, <1>5

LEMMA FeedCore ==
  ASSUME Core, NEW f \in Feeds,
         \/ NewMessage(f) \/ TakeBatch(f) \/ DropBatch(f) \/ HandlerThrows(f)
         \/ \E a \in Assets : StoreBars(f, a) \/ RaceCrashes(f, a)
  PROVE  Core'
<1> USE DEF feedVars, published
<1>0. TypeOK /\ FeedsInv /\ TodoInv
  BY DEF Core
<1>1. CASE NewMessage(f)
  <2>1. /\ delivery' \in [Feeds -> Deliveries]
        /\ \A g \in Feeds : g # f => delivery'[g] = delivery[g]
    BY <1>1, DeliverySteps
  <2>2. sent' = [sent EXCEPT ![f] = @ + 1] /\ sent[f] < Len(Stream[f])
    BY <1>1 DEF NewMessage
  <2>3. \A g \in Feeds : sent[g] \in Nat /\ sent[g] <= Len(Stream[g]) /\ Len(Stream[g]) \in Nat
    BY <1>0, DatabaseAssumption DEF TypeOK
  <2>4. sent \in [Feeds -> Nat]
    BY <1>0 DEF TypeOK
  <2>5. sent' \in [Feeds -> Nat] /\ \A g \in Feeds : sent'[g] <= Len(Stream[g])
    BY <2>2, <2>3, <2>4
  <2>6. \A g \in Feeds : ~Quiet(g)' => sent'[g] >= 1
    BY <1>0, <2>1, <2>2, <2>3, <2>4 DEF FeedsInv, Quiet
  <2> QED BY <1>0, <1>1, <2>1, <2>5, <2>6 DEF NewMessage, TypeOK, FeedsInv, TodoInv, Core, Deliveries
<1>2. CASE TakeBatch(f)
  <2>1. /\ delivery' \in [Feeds -> Deliveries] /\ ~Quiet(f)
        /\ \A g \in Feeds : g # f => delivery'[g] = delivery[g]
    BY <1>2, DeliverySteps
  <2>2. Range(BatchOf(f)) \subseteq RawBars /\ RawBars \subseteq Bars
    BY <1>0, <2>1, BatchTypes DEF RawBars
  <2>3. taken' \subseteq RawBars /\ taken' \subseteq Bars
    BY <1>0, <1>2, <2>2 DEF TakeBatch, FeedsInv
  <2>4. \A g \in Feeds : ~Quiet(g)' => ~Quiet(g)
    BY <2>1 DEF Quiet
  <2> QED
    BY <1>0, <1>2, <2>1, <2>3, <2>4 DEF TakeBatch, TypeOK, FeedsInv, TodoInv, Core, Deliveries
<1>3. CASE DropBatch(f) \/ HandlerThrows(f)
  <2>1. /\ delivery' \in [Feeds -> Deliveries] /\ ~Quiet(f)
        /\ \A g \in Feeds : g # f => delivery'[g] = delivery[g]
    BY <1>3, DeliverySteps
  <2>2. \A g \in Feeds : ~Quiet(g)' => ~Quiet(g)
    BY <2>1 DEF Quiet
  <2> QED
    BY <1>0, <1>3, <2>1, <2>2 DEF DropBatch, HandlerThrows, TypeOK, FeedsInv, TodoInv, Core,
       Deliveries
<1>4. ASSUME NEW a \in Assets, StoreBars(f, a) PROVE Core'
  <2>1. /\ delivery' \in [Feeds -> Deliveries] /\ ~Quiet(f)
        /\ \A g \in Feeds : g # f => delivery'[g] = delivery[g]
    BY <1>4, DeliverySteps
  <2>2. \A g \in Feeds : ~Quiet(g)' => ~Quiet(g)
    BY <2>1 DEF Quiet
  <2>4. FrameMap(loaded') /\ DOMAIN loaded' = DOMAIN loaded \cup {a}
    <3>1. Appended(f, a) \in Frames /\ FrameMap(loaded)
      BY <1>0, <2>1, AppendedRows DEF TypeOK
    <3> QED BY <1>4, <3>1, AssignedFrame DEF StoreBars
  <2>5. TodoInv' /\ todo' \subseteq Assets
    BY <1>0, <1>4, <2>4 DEF StoreBars, TodoInv, TypeOK
  <2> QED
    BY <1>0, <1>4, <2>1, <2>2, <2>4, <2>5 DEF StoreBars, TypeOK, FeedsInv, Core, Deliveries
<1>5. CASE \E a \in Assets : RaceCrashes(f, a)
  BY <1>0, <1>5 DEF RaceCrashes, TypeOK, FeedsInv, TodoInv, Core, Quiet
<1> QED
  BY <1>1, <1>2, <1>3, <1>4, <1>5

LEMMA NextCore == Core /\ [Next]_vars => Core'
<1> SUFFICES ASSUME Core, [Next]_vars PROVE Core'
  OBVIOUS
<1>1. CASE UNCHANGED vars
  BY <1>1 DEF vars, Core, TypeOK, FeedsInv, TodoInv, Quiet
<1>2. CASE Next
  BY <1>2, PipelineCore, PublishCore, FeedCore DEF Next
<1> QED
  BY <1>1, <1>2

\* Every state of the database has the types the variables were given.
THEOREM TypeCorrect == Spec => []TypeOK
<1>1. Core => TypeOK
  BY DEF Core
<1> QED
  BY <1>1, InitCore, NextCore, PTL DEF Spec

-----------------------------------------------------------------------------
(* No bar a handler has taken is lost. *)

Held(bar) ==
  \/ bar.asset \in DOMAIN loaded /\ bar.time \in Range(loaded[bar.asset])
  \/ \E f \in Feeds : bar.asset \in delivery[f].assets /\ bar \in Range(BatchOf(f))

LEMMA FeedKeepsBars ==
  ASSUME Core, NEW f \in Feeds,
         \/ NewMessage(f) \/ TakeBatch(f) \/ DropBatch(f) \/ HandlerThrows(f)
         \/ \E a \in Assets : StoreBars(f, a) \/ RaceCrashes(f, a),
         NEW bar \in Bars, Held(bar)
  PROVE  Held(bar)'
<1> DEFINE Loaded == bar.asset \in DOMAIN loaded /\ bar.time \in Range(loaded[bar.asset])
<1> USE DEF feedVars, published
<1>0. TypeOK /\ FeedsInv
  BY DEF Core
<1>1. CASE NewMessage(f)
  <2>1. \A g \in Feeds : delivery[g].assets = {}
    BY <1>1, DeliverySteps DEF Quiet
  <2> QED BY <1>1, <2>1 DEF NewMessage, Held
<1>2. CASE TakeBatch(f) \/ DropBatch(f) \/ HandlerThrows(f)
  <2>1. \A g \in Feeds : delivery[g].assets \subseteq delivery'[g].assets
    BY <1>2, DeliverySteps
  <2>2. loaded' = loaded /\ sent' = sent
    BY <1>2 DEF TakeBatch, DropBatch, HandlerThrows
  <2> QED BY <2>1, <2>2 DEF Held, BatchOf
<1>3. ASSUME NEW a \in Assets, StoreBars(f, a) PROVE Held(bar)'
  <2>1. /\ ~Quiet(f) /\ delivery'[f].assets = delivery[f].assets \ {a}
        /\ \A g \in Feeds : g # f => delivery'[g] = delivery[g]
    BY <1>3, DeliverySteps
  <2>2. /\ Appended(f, a) \in Frames
        /\ a \in DOMAIN loaded => Range(loaded[a]) \subseteq Range(Appended(f, a))
        /\ \A b \in Range(BatchOf(f)) : b.asset = a => b.time \in Range(Appended(f, a))
    BY <1>0, <2>1, AppendedRows
  <2>3. /\ DOMAIN loaded' = DOMAIN loaded \cup {a} /\ loaded'[a] = Appended(f, a)
        /\ \A b \in DOMAIN loaded : b # a => loaded'[b] = loaded[b]
    <3> DEFINE frame == Appended(f, a)
    <3>1. FrameMap(loaded) /\ loaded' = Assigned(loaded, a, frame) /\ frame \in Frames
      BY <1>0, <1>3, <2>2 DEF TypeOK, StoreBars
    <3> HIDE DEF frame
    <3>2. LET n == Assigned(loaded, a, frame)
          IN  /\ DOMAIN n = DOMAIN loaded \cup {a} /\ n[a] = frame
              /\ \A b \in DOMAIN loaded : b # a => n[b] = loaded[b]
      BY <3>1, AssignedFrame, ZenonT(30)
    <3> QED BY <3>1, <3>2 DEF frame
  <2>4. sent' = sent
    BY <1>3 DEF StoreBars
  <2>5. CASE bar.asset \in DOMAIN loaded /\ bar.time \in Range(loaded[bar.asset])
    BY <2>2, <2>3, <2>5 DEF Held
  <2>6. ASSUME NEW g \in Feeds, bar.asset \in delivery[g].assets, bar \in Range(BatchOf(g))
        PROVE  Held(bar)'
    <3>1. CASE g = f /\ bar.asset = a
      <4>1. bar.asset \in DOMAIN loaded' /\ bar.time \in Range(loaded'[bar.asset])
        BY <2>2, <2>3, <2>6, <3>1
      <4> QED BY <4>1 DEF Held
    <3>2. CASE ~(g = f /\ bar.asset = a)
      <4>1. bar.asset \in delivery'[g].assets /\ bar \in Range(BatchOf(g))'
        BY <2>1, <2>4, <2>6, <3>2 DEF BatchOf
      <4> QED BY <4>1 DEF Held
    <3> QED BY <3>1, <3>2
  <2> QED BY <2>5, <2>6 DEF Held
<1>4. CASE \E a \in Assets : RaceCrashes(f, a)
  BY <1>4 DEF RaceCrashes, Held, BatchOf
<1> QED
  BY <1>1, <1>2, <1>3, <1>4

LEMMA NextKeepsBars ==
  ASSUME Core, NothingLost, [Next]_vars
  PROVE  NothingLost'
<1> USE DEF feedVars, published
<1>0. TypeOK /\ FeedsInv /\ NothingLost = \A bar \in taken : Held(bar)
  BY DEF Core, NothingLost, Held
<1>1. CASE \E f \in Feeds :
             \/ NewMessage(f) \/ TakeBatch(f) \/ DropBatch(f) \/ HandlerThrows(f)
             \/ \E a \in Assets : StoreBars(f, a) \/ RaceCrashes(f, a)
  <2>1. PICK f \in Feeds :
             \/ NewMessage(f) \/ TakeBatch(f) \/ DropBatch(f) \/ HandlerThrows(f)
             \/ \E a \in Assets : StoreBars(f, a) \/ RaceCrashes(f, a)
    BY <1>1
  <2>2. \A bar \in taken : Held(bar)'
    BY <1>0, <2>1, FeedKeepsBars DEF TypeOK
  <2>3. CASE TakeBatch(f)
    <3>1. /\ taken' = taken \cup Range(BatchOf(f)) /\ sent' = sent
      BY <2>3 DEF TakeBatch
    <3>2. delivery'[f].assets = {bar.asset : bar \in Range(BatchOf(f))}
      BY <2>3, DeliverySteps
    <3>3. \A bar \in Range(BatchOf(f)) : Held(bar)'
      BY <3>1, <3>2 DEF Held, BatchOf
    <3> QED BY <2>2, <3>1, <3>3 DEF NothingLost, Held
  <2>4. CASE ~TakeBatch(f)
    <3>1. taken' = taken
      BY <2>1, <2>4 DEF NewMessage, DropBatch, HandlerThrows, StoreBars, RaceCrashes
    <3> QED BY <2>2, <3>1 DEF NothingLost, Held
  <2> QED BY <2>3, <2>4
<1>2. CASE LoadData
  BY <1>2 DEF LoadData, NothingLost
<1>3. CASE AppendFuturesContinuations
  <2>1. /\ FrameMap(loaded) /\ loaded' = WithContinuations(loaded)
        /\ taken' = taken /\ delivery' = delivery /\ sent' = sent
    BY <1>0, <1>3 DEF AppendFuturesContinuations, TypeOK
  <2>2. /\ DOMAIN loaded \subseteq DOMAIN loaded'
        /\ \A a \in DOMAIN loaded :
             (\A c \in Contracts : Continuation[c] # a) => loaded'[a] = loaded[a]
    BY <2>1, ContinuedTypes
  <2>3. ASSUME NEW bar \in taken PROVE Held(bar)'
    <3>1. \A c \in Contracts : Continuation[c] # bar.asset
      BY <1>0 DEF FeedsInv, RawBars
    <3>2. Held(bar)
      BY <1>0
    <3> QED BY <2>1, <2>2, <3>1, <3>2 DEF Held, BatchOf
  <2> QED BY <2>1, <2>3 DEF NothingLost, Held
<1>4. CASE UNCHANGED <<loaded, taken, delivery, sent>>
  BY <1>4 DEF NothingLost, BatchOf
<1>5. CASE RunPipeline \/ LoadDataThrows \/ RefreshPipeline \/ CopyNothing \/ Publish
           \/ TransformThrows \/ \E a \in Assets : CopyBaseData(a) \/ Resample(a)
  BY <1>4, <1>5 DEF RunPipeline, LoadDataThrows, RefreshPipeline, CopyNothing, Publish,
     TransformThrows, CopyBaseData, Resample
<1>6. CASE UNCHANGED vars
  BY <1>4, <1>6 DEF vars
<1> QED
  BY <1>1, <1>2, <1>3, <1>5, <1>6 DEF Next

\* A bar a handler has taken is on its way into the loaded data or in it, whatever
\* the pipeline does with the data meanwhile, until the next load.
THEOREM BarsAreKept == Spec => []NothingLost
<1>1. Init => NothingLost
  BY DEF Init, NothingLost
<1> QED
  BY <1>1, InitCore, NextCore, NextKeepsBars, PTL DEF Spec

-----------------------------------------------------------------------------
(* The index covers the published rows. *)

\* Only a run that completes publishes, only a refresh connects handlers, and only a
\* load replaces data.
LEMMA Histories ==
  ASSUME [Next]_vars
  PROVE  /\ Publish \/ UNCHANGED published
         /\ refreshes' \in {refreshes, refreshes + 1}
         /\ reloaded' = (reloaded \/ loaded # Empty) \/ reloaded' = reloaded
<1> USE DEF feedVars, published
<1>1. Publish \/ UNCHANGED published
  BY DEF Next, vars, RunPipeline, LoadData, LoadDataThrows, RefreshPipeline,
     AppendFuturesContinuations, CopyNothing, TransformThrows, CopyBaseData, Resample,
     NewMessage, TakeBatch, DropBatch, HandlerThrows, StoreBars, RaceCrashes
<1>2. refreshes' \in {refreshes, refreshes + 1}
  BY DEF Next, vars, RunPipeline, LoadData, LoadDataThrows, RefreshPipeline, Publish,
     AppendFuturesContinuations, CopyNothing, TransformThrows, CopyBaseData, Resample,
     NewMessage, TakeBatch, DropBatch, HandlerThrows, StoreBars, RaceCrashes
<1>3. reloaded' = (reloaded \/ loaded # Empty) \/ reloaded' = reloaded
  BY DEF Next, vars, RunPipeline, LoadData, LoadDataThrows, RefreshPipeline, Publish,
     AppendFuturesContinuations, CopyNothing, TransformThrows, CopyBaseData, Resample,
     NewMessage, TakeBatch, DropBatch, HandlerThrows, StoreBars, RaceCrashes
<1> QED
  BY <1>1, <1>2, <1>3

\* The items of the last run are in the index, and after one run nothing else is.
IndexInv ==
  /\ runs = 0 => indexer = {} /\ \A tf \in Timeframes : DOMAIN transformed[tf] = {}
  /\ runs >= 1 => ItemsOf(runs, transformed) \subseteq indexer
  /\ runs = 1 => /\ indexer = ItemsOf(runs, transformed)
                 /\ \A i \in indexer : tsIndex[i] = 1

LEMMA NextIndex ==
  ASSUME Core, IndexInv, [Next]_vars
  PROVE  IndexInv'
<1> USE DEF feedVars, published
<1>1. CASE Publish
  <2>1. runs \in Nat
    BY DEF Core, TypeOK
  <2>2. /\ runs' = runs + 1
        /\ indexer' = indexer \cup ItemsOf(runs', transformed')
        /\ \A i \in indexer' : tsIndex'[i] = IF i \in indexer THEN tsIndex[i] + 1 ELSE 1
    BY <1>1 DEF Publish
  <2>3. runs' = 1 => indexer = {}
    BY <2>1, <2>2 DEF IndexInv
  <2>4. ItemsOf(runs, transformed)' = ItemsOf(runs', transformed')
    BY DEF ItemsOf, Item
  <2> HIDE DEF published, feedVars
  <2> QED BY <2>1, <2>2, <2>3, <2>4 DEF IndexInv
<1>2. CASE UNCHANGED published
  BY <1>2 DEF IndexInv, ItemsOf, Item
<1>3. CASE ~Publish
  <2>1. UNCHANGED published
    BY <1>3, Histories
  <2> QED BY <1>2, <2>1
<1> QED
  BY <1>1, <1>3

\* Until a load replaces data, no asset goes: neither from the loaded nor from the
\* published data, and what is published has its place in the stages under way.
Kept ==
  /\ DOMAIN transformed["base"] \subseteq DOMAIN loaded
  /\ DOMAIN transformed["resampled"] \subseteq DOMAIN loaded \ Contracts
  /\ pc = "base" =>
       /\ DOMAIN transformed["base"] \subseteq DOMAIN staged["base"] \cup todo
       /\ todo = {} => DOMAIN transformed["resampled"] = {}
  /\ pc = "resample" =>
       /\ DOMAIN transformed["base"] \subseteq DOMAIN staged["base"]
       /\ DOMAIN transformed["resampled"] \subseteq DOMAIN staged["resampled"] \cup todo
  /\ \A e \in indexer : ~Dangling(e)

\* What is staged is of assets that are loaded, contracts are not resampled.
StagesInv ==
  /\ pc = "base" => DOMAIN staged["resampled"] = {}
  /\ pc \in {"base", "resample"} =>
       /\ DOMAIN staged["base"] \subseteq DOMAIN loaded
       /\ DOMAIN staged["resampled"] \subseteq DOMAIN loaded \ Contracts
  /\ pc = "resample" => todo \subseteq DOMAIN loaded \ Contracts

KeptInv == StagesInv /\ (~reloaded => Kept)

\* A bar is stored: assets are only added.
LEMMA StoredGrows ==
  ASSUME Core, NEW f \in Feeds, NEW a \in Assets, StoreBars(f, a)
  PROVE  DOMAIN loaded' = DOMAIN loaded \cup {a}
<1>1. FrameMap(loaded) /\ FeedsInv
  BY DEF Core, TypeOK
<1> DEFINE frame == Appended(f, a)
<1>2. frame \in Frames
  <2>1. TypeOK /\ ~Quiet(f)
    BY DeliverySteps DEF Core
  <2> QED BY <1>1, <2>1, AppendedRows
<1>3. loaded' = Assigned(loaded, a, frame)
  BY DEF StoreBars
<1> HIDE DEF frame
<1> QED
  BY <1>1, <1>2, <1>3, AssignedFrame

LEMMA NextKept ==
  ASSUME Core, KeptInv, [Next]_vars
  PROVE  KeptInv'
<1> USE DEF feedVars, published
<1>0. /\ TypeOK /\ TodoInv /\ FrameMap(loaded) /\ Timeframes = {"base", "resampled"}
      /\ DOMAIN staged = Timeframes /\ FrameMap(staged["base"]) /\ FrameMap(staged["resampled"])
      /\ \A e \in indexer : e.tf \in Timeframes
  BY DEF Core, TypeOK, Timeframes
<1>1. CASE RunPipeline \/ LoadDataThrows \/ TransformThrows \/ RefreshPipeline
  BY <1>1 DEF RunPipeline, LoadDataThrows, TransformThrows, RefreshPipeline, KeptInv, StagesInv,
     Kept, Dangling
<1>2. CASE LoadData
  <2>1. StagesInv'
    BY <1>2 DEF LoadData, StagesInv
  <2>2. ASSUME ~reloaded' PROVE Kept'
    <3>1. ~reloaded /\ DOMAIN loaded = {} /\ pc' = "futures" /\ UNCHANGED <<transformed, indexer>>
      BY <1>2, <2>2, NoData DEF LoadData
    <3> QED BY <3>1 DEF KeptInv, Kept, Dangling
  <2> QED BY <2>1, <2>2 DEF KeptInv
<1>3. CASE AppendFuturesContinuations
  <2>1. /\ pc' = "base" /\ todo' = DOMAIN loaded' /\ DOMAIN loaded \subseteq DOMAIN loaded'
        /\ DOMAIN staged'["base"] = {} /\ DOMAIN staged'["resampled"] = {}
        /\ UNCHANGED <<transformed, indexer, reloaded>>
    BY <1>0, <1>3, ContinuedTypes, NoData DEF AppendFuturesContinuations
  <2> QED BY <2>1 DEF KeptInv, StagesInv, Kept, Dangling
<1>4. ASSUME NEW a \in Assets, CopyBaseData(a) PROVE KeptInv'
  <2>1. a \in DOMAIN loaded /\ loaded[a] \in Frames
    BY <1>0, <1>4 DEF CopyBaseData, TodoInv, FrameMap
  <2>2. /\ DOMAIN staged'["base"] = DOMAIN staged["base"] \cup {a}
        /\ staged'["resampled"] = staged["resampled"]
    <3> DEFINE frame == loaded[a]
    <3>1. staged' = [staged EXCEPT !["base"] = Assigned(staged["base"], a, frame)]
      BY <1>4 DEF CopyBaseData, Stage
    <3> HIDE DEF frame
    <3>2. staged'["base"] = Assigned(staged["base"], a, frame)
          /\ staged'["resampled"] = staged["resampled"]
      BY <1>0, <3>1
    <3>3. DOMAIN Assigned(staged["base"], a, frame) = DOMAIN staged["base"] \cup {a}
      BY DEF Assigned
    <3> QED BY <3>2, <3>3
  <2>3. /\ pc = "base" /\ a \in todo /\ UNCHANGED <<loaded, transformed, indexer, reloaded>>
        /\ \/ todo = {a} /\ pc' = "resample" /\ todo' = DOMAIN loaded \ Contracts
           \/ todo # {a} /\ pc' = "base" /\ todo' = todo \ {a}
    BY <1>4 DEF CopyBaseData, ToResample
  <2>4. StagesInv /\ todo \subseteq DOMAIN loaded
    BY <1>0, <2>3 DEF KeptInv, TodoInv
  <2>5. StagesInv'
    BY <2>1, <2>2, <2>3, <2>4 DEF StagesInv
  <2>6. ASSUME ~reloaded PROVE Kept'
    <3>1. /\ DOMAIN transformed["base"] \subseteq DOMAIN loaded
          /\ DOMAIN transformed["resampled"] \subseteq DOMAIN loaded \ Contracts
          /\ DOMAIN transformed["base"] \subseteq DOMAIN staged["base"] \cup todo
      BY <2>3, <2>6 DEF KeptInv, Kept
    <3>2. \A e \in indexer' : ~Dangling(e)'
      BY <2>3, <2>6 DEF KeptInv, Kept, Dangling
    <3> QED BY <2>2, <2>3, <3>1, <3>2 DEF Kept
  <2> QED BY <2>3, <2>5, <2>6 DEF KeptInv
<1>5. CASE CopyNothing
  BY <1>5 DEF CopyNothing, KeptInv, StagesInv, Kept, Dangling
<1>6. ASSUME NEW a \in Assets, Resample(a) PROVE KeptInv'
  <2>1. a \in DOMAIN loaded /\ BuildResampled(loaded[a]) \in Frames
    BY <1>0, <1>6, BuiltFrames DEF Resample, TodoInv, FrameMap
  <2>2. /\ DOMAIN staged'["resampled"] = DOMAIN staged["resampled"] \cup {a}
        /\ staged'["base"] = staged["base"]
    BY <1>0, <1>6, <2>1, AssignedFrame DEF Resample, Stage
  <2>3. /\ pc = "resample" /\ a \in todo /\ todo' = todo \ {a}
        /\ UNCHANGED <<pc, loaded, transformed, indexer, reloaded>>
    BY <1>6 DEF Resample
  <2> QED BY <2>1, <2>2, <2>3 DEF KeptInv, StagesInv, Kept, Dangling
<1>7. CASE Publish
  <2>1. /\ pc = "resample" /\ todo = {} /\ pc' = "idle" /\ transformed' = staged
        /\ indexer' = indexer \cup ItemsOf(runs', transformed')
        /\ UNCHANGED <<loaded, reloaded>>
    BY <1>7 DEF Publish
  <2>2. StagesInv'
    BY <2>1 DEF StagesInv
  <2>3. ASSUME ~reloaded PROVE Kept'
    <3>1. StagesInv /\ Kept
      BY <2>3 DEF KeptInv
    <3>2. \A e \in ItemsOf(runs', transformed') : ~Dangling(e)'
      BY <2>1 DEF ItemsOf, Item, Dangling
    <3>3. \A e \in indexer : ~Dangling(e)'
      BY <1>0, <2>1, <3>1 DEF Kept, Dangling
    <3> QED BY <2>1, <3>1, <3>2, <3>3 DEF StagesInv, Kept
  <2> QED BY <2>1, <2>2, <2>3 DEF KeptInv
<1>8. ASSUME NEW f \in Feeds, NEW a \in Assets, StoreBars(f, a) PROVE KeptInv'
  <2>1. /\ DOMAIN loaded \subseteq DOMAIN loaded' /\ todo \subseteq todo'
        /\ pc = "base" \/ todo' = todo
        /\ UNCHANGED <<pc, staged, transformed, indexer, reloaded>>
    BY <1>8, StoredGrows DEF StoreBars
  <2>2. todo' = {} => todo = {}
    BY <2>1
  <2>3. StagesInv'
    BY <2>1 DEF KeptInv, StagesInv
  <2> QED BY <2>1, <2>2, <2>3 DEF KeptInv, Kept, Dangling
<1>9. CASE \/ \E f \in Feeds : NewMessage(f) \/ TakeBatch(f) \/ DropBatch(f) \/ HandlerThrows(f)
           \/ UNCHANGED vars
  <2>1. UNCHANGED <<pc, todo, loaded, staged, transformed, indexer, reloaded>>
    BY <1>9 DEF NewMessage, TakeBatch, DropBatch, HandlerThrows, vars
  <2> QED BY <2>1 DEF KeptInv, StagesInv, Kept, Dangling
<1>10. ASSUME NEW f \in Feeds, NEW a \in Assets, RaceCrashes(f, a) PROVE KeptInv'
  BY <1>10 DEF RaceCrashes, KeptInv, StagesInv, Kept, Dangling
<1> QED
  BY <1>1, <1>2, <1>3, <1>4, <1>5, <1>6, <1>7, <1>8, <1>9, <1>10 DEF Next

LEMMA IndexCovers == Core /\ IndexInv /\ KeptInv => EveryRowIsHandled
<1> SUFFICES ASSUME Core, IndexInv, KeptInv,
                    NEW tf \in Timeframes, NEW a \in DOMAIN transformed[tf],
                    NEW i \in DOMAIN transformed[tf][a]
             PROVE  LET t == transformed[tf][a][i]
                    IN  /\ \E e \in EntriesOf(tf, a, i) : ~reloaded => Reached(e, t)
                        /\ runs = 1 => \E e \in EntriesOf(tf, a, i) :
                             EntriesOf(tf, a, i) = {e} /\ tsIndex[e] = 1 /\ Reached(e, t)
  BY DEF EveryRowIsHandled
<1> DEFINE frame == transformed[tf][a]
           t == frame[i]
           item == Item(runs, transformed, tf, a)
<1>1. /\ runs \in Nat /\ FrameMap(transformed[tf])
      /\ DOMAIN transformed = Timeframes /\ \A g \in Timeframes : FrameMap(transformed[g])
  BY DEF Core, TypeOK
<1>2. frame \in Frames /\ frame # <<>>
  <2>1. frame \in Frames /\ i \in DOMAIN frame
    BY <1>1 DEF FrameMap
  <2> QED BY <2>1 DEF Frames
<1>3. runs >= 1
  BY <1>1 DEF IndexInv
<1>4. item \in ItemsOf(runs, transformed) /\ item \in indexer
  BY <1>2, <1>3 DEF ItemsOf, IndexInv
<1>5. /\ item.tf = tf /\ item.asset = a /\ item.ranges = Ranges(frame)
  BY DEF Item
<1>6. /\ t \in DOMAIN Ranges(frame)
      /\ Ranges(frame)[t][1] <= i /\ i <= Ranges(frame)[t][2]
  <2> HIDE DEF frame
  <2>1. i \in DOMAIN frame
    BY DEF frame
  <2> QED BY <1>2, <2>1, RangesCover
<1>7. item \in EntriesOf(tf, a, i)
  <2> HIDE DEF item
  <2> QED BY <1>4, <1>5, <1>6 DEF EntriesOf, EntriesAt
<1>8. ASSUME runs = 1, NEW e \in EntriesOf(tf, a, i) PROVE e = item
  <2>1. e \in ItemsOf(runs, transformed) /\ e.tf = tf /\ e.asset = a
    BY <1>8 DEF EntriesOf, EntriesAt, IndexInv
  <2>2. PICK g \in Timeframes : \E b \in DOMAIN transformed[g] : e = Item(runs, transformed, g, b)
    BY <2>1 DEF ItemsOf
  <2>3. PICK b \in DOMAIN transformed[g] : e = Item(runs, transformed, g, b)
    BY <2>2
  <2>4. g = tf /\ b = a
    BY <2>1, <2>3 DEF Item
  <2> QED BY <2>3, <2>4
<1>9. runs = 1 => tsIndex[item] = 1
  BY <1>4 DEF IndexInv
<1>10. runs = 1 => \A d \in indexer : ~Dangling(d)
  BY DEF IndexInv, ItemsOf, Item, Dangling
<1>11. runs = 1 \/ ~reloaded => Reached(item, t)
  <2> HIDE DEF item, t
  <2> QED BY <1>10 DEF KeptInv, Kept, Reached, EntriesAt
<1> QED
  <2> HIDE DEF item
  <2> QED BY <1>7, <1>8, <1>9, <1>11

\* HandleData hands over every row of the data that was published last: an entry has
\* it, and until a load replaces data none of those HandleData comes to before throws;
\* and just once when nothing else was published.
THEOREM RowsAreHandled == Spec => []EveryRowIsHandled
<1>1. Init => IndexInv
  BY NoData DEF Init, IndexInv
<1>2. Init => KeptInv
  BY NoData DEF Init, KeptInv, StagesInv, Kept, Timeframes
<1> QED
  BY <1>1, <1>2, InitCore, NextCore, NextIndex, NextKept, IndexCovers, PTL DEF Spec

-----------------------------------------------------------------------------
(* The resampled timeframe covers the base timeframe. *)

Covered(m, a) ==
  /\ a \in DOMAIN m["resampled"]
  /\ \A t \in Range(m["base"][a]) : Bucket(t) \in Range(m["resampled"][a])

\* What is staged is in the loaded data, which only grows meanwhile, and what the
\* second stage has come to is covered.
StagedInv ==
  /\ pc \in {"base", "resample"} =>
       \A a \in DOMAIN staged["base"] :
         a \in DOMAIN loaded /\ Range(staged["base"][a]) \subseteq Range(loaded[a])
  /\ pc = "base" /\ todo = {} => DOMAIN staged["base"] = {}
  /\ pc = "resample" =>
       \A a \in DOMAIN staged["base"] \ Contracts : a \in todo \/ Covered(staged, a)

LEMMA NextStaged ==
  ASSUME Core, StagedInv, [Next]_vars
  PROVE  StagedInv'
<1> USE DEF feedVars, published
<1>0. /\ TypeOK /\ FeedsInv /\ TodoInv /\ DOMAIN staged = Timeframes
      /\ \A tf \in Timeframes : FrameMap(staged[tf])
      /\ FrameMap(loaded) /\ "base" \in Timeframes /\ "resampled" \in Timeframes
  BY DEF Core, TypeOK, Timeframes
<1>1. CASE pc' \notin {"base", "resample"}
  BY <1>1 DEF StagedInv
<1>2. CASE AppendFuturesContinuations
  <2>1. pc' = "base" /\ DOMAIN staged'["base"] = {}
    BY <1>0, <1>2, NoData DEF AppendFuturesContinuations
  <2> QED BY <2>1 DEF StagedInv
<1>3. ASSUME NEW a \in Assets, CopyBaseData(a) PROVE StagedInv'
  <2>1. /\ pc = "base" /\ a \in todo /\ a \in DOMAIN loaded /\ loaded' = loaded
        /\ loaded[a] \in Frames
    BY <1>0, <1>3 DEF CopyBaseData, TodoInv, FrameMap
  <2> DEFINE frame == loaded[a]
  <2>2. staged' = [staged EXCEPT !["base"] = Assigned(staged["base"], a, frame)]
    BY <1>3 DEF CopyBaseData, Stage
  <2> HIDE DEF frame
  <2>3. /\ DOMAIN staged'["base"] = DOMAIN staged["base"] \cup {a} /\ staged'["base"][a] = frame
        /\ \A b \in DOMAIN staged["base"] : b # a => staged'["base"][b] = staged["base"][b]
    <3>1. staged'["base"] = Assigned(staged["base"], a, frame) /\ FrameMap(staged["base"])
          /\ frame \in Frames
      BY <1>0, <2>1, <2>2 DEF frame
    <3>2. LET n == Assigned(staged["base"], a, frame)
          IN  /\ DOMAIN n = DOMAIN staged["base"] \cup {a} /\ n[a] = frame
              /\ \A b \in DOMAIN staged["base"] : b # a => n[b] = staged["base"][b]
      BY DEF Assigned
    <3> QED BY <3>1, <3>2
  <2>4. ASSUME NEW b \in DOMAIN staged'["base"]
        PROVE  b \in DOMAIN loaded' /\ Range(staged'["base"][b]) \subseteq Range(loaded'[b])
    BY <2>1, <2>3 DEF StagedInv, frame
  <2>5. CASE todo = {a}
    <3>1. pc' = "resample" /\ todo' = DOMAIN loaded \ Contracts
      BY <1>3, <2>5 DEF CopyBaseData, ToResample
    <3>2. \A b \in DOMAIN staged'["base"] \ Contracts : b \in todo'
      BY <2>1, <2>4, <3>1
    <3> QED BY <2>4, <3>1, <3>2 DEF StagedInv
  <2>6. CASE todo # {a}
    <3>1. pc' = "base" /\ todo' = todo \ {a} /\ todo' # {}
      BY <1>3, <2>1, <2>6 DEF CopyBaseData
    <3> QED BY <2>4, <3>1 DEF StagedInv
  <2> QED BY <2>5, <2>6
<1>4. CASE CopyNothing
  BY <1>4 DEF CopyNothing, StagedInv
<1>5. ASSUME NEW a \in Assets, Resample(a) PROVE StagedInv'
  <2>1. /\ pc = "resample" /\ a \in todo /\ a \in DOMAIN loaded /\ loaded' = loaded
        /\ loaded[a] \in Frames /\ pc' = pc /\ todo' = todo \ {a}
    BY <1>0, <1>5 DEF Resample, TodoInv, FrameMap
  <2> DEFINE frame == BuildResampled(loaded[a])
  <2>2. /\ staged' = [staged EXCEPT !["resampled"] = Assigned(staged["resampled"], a, frame)]
        /\ frame \in Frames /\ Range(frame) = {Bucket(t) : t \in Range(loaded[a])}
    BY <1>5, <2>1, BuiltFrames DEF Resample, Stage
  <2> HIDE DEF frame
  <2>3. /\ staged'["base"] = staged["base"]
        /\ a \in DOMAIN staged'["resampled"] /\ staged'["resampled"][a] = frame
        /\ DOMAIN staged["resampled"] \subseteq DOMAIN staged'["resampled"]
        /\ \A b \in DOMAIN staged["resampled"] :
              b # a => staged'["resampled"][b] = staged["resampled"][b]
    <3>1. /\ staged'["resampled"] = Assigned(staged["resampled"], a, frame)
          /\ FrameMap(staged["resampled"]) /\ staged'["base"] = staged["base"]
      BY <1>0, <2>2
    <3>2. LET n == Assigned(staged["resampled"], a, frame)
          IN  /\ DOMAIN n = DOMAIN staged["resampled"] \cup {a} /\ n[a] = frame
              /\ \A b \in DOMAIN staged["resampled"] : b # a => n[b] = staged["resampled"][b]
      BY DEF Assigned
    <3> QED BY <3>1, <3>2
  <2>4. ASSUME NEW b \in DOMAIN staged["base"] \ Contracts, b \notin todo'
        PROVE  Covered(staged', b)
    <3>1. CASE b = a
      <4>1. Range(staged["base"][a]) \subseteq Range(loaded[a])
        BY <2>1, <3>1 DEF StagedInv
      <4> QED BY <2>2, <2>3, <3>1, <4>1 DEF Covered
    <3>2. CASE b # a
      <4>1. Covered(staged, b)
        BY <2>1, <2>4, <3>2 DEF StagedInv
      <4> QED BY <2>3, <3>2, <4>1 DEF Covered
    <3> QED BY <3>1, <3>2
  <2>5. Covered(staged, a)' = Covered(staged', a)
    BY DEF Covered
  <2>6. \A b \in DOMAIN staged'["base"] \ Contracts : b \in todo' \/ Covered(staged', b)
    BY <2>3, <2>4
  <2> QED BY <2>1, <2>3, <2>6 DEF StagedInv, Covered
<1>6. ASSUME NEW f \in Feeds, NEW a \in Assets, StoreBars(f, a) PROVE StagedInv'
  <2>1. ~Quiet(f)
    BY <1>6, DeliverySteps
  <2>2. /\ Appended(f, a) \in Frames
        /\ a \in DOMAIN loaded => Range(loaded[a]) \subseteq Range(Appended(f, a))
    BY <1>0, <2>1, AppendedRows
  <2> DEFINE frame == Appended(f, a)
  <2>3. loaded' = Assigned(loaded, a, frame)
    BY <1>6 DEF StoreBars
  <2> HIDE DEF frame
  <2>4. /\ DOMAIN loaded \subseteq DOMAIN loaded' /\ loaded'[a] = frame
        /\ \A b \in DOMAIN loaded : b # a => loaded'[b] = loaded[b]
    <3>1. LET n == Assigned(loaded, a, frame)
          IN  /\ DOMAIN n = DOMAIN loaded \cup {a} /\ n[a] = frame
              /\ \A b \in DOMAIN loaded : b # a => n[b] = loaded[b]
      BY <1>0, <2>2, AssignedFrame, ZenonT(30) DEF frame
    <3> QED BY <2>3, <3>1
  <2>5. \A b \in DOMAIN loaded : Range(loaded[b]) \subseteq Range(loaded'[b])
    BY <2>2, <2>4 DEF frame
  <2>6. pc' = pc /\ staged' = staged /\ todo \subseteq todo'
    BY <1>6 DEF StoreBars
  <2> QED BY <2>4, <2>5, <2>6 DEF StagedInv, Covered
<1>7. CASE UNCHANGED <<pc, staged, todo, loaded>>
  BY <1>7 DEF StagedInv, Covered
<1>8. CASE \E f \in Feeds : NewMessage(f) \/ TakeBatch(f) \/ DropBatch(f) \/ HandlerThrows(f)
  BY <1>7, <1>8 DEF NewMessage, TakeBatch, DropBatch, HandlerThrows
<1>9. CASE \/ RunPipeline \/ LoadData \/ LoadDataThrows \/ RefreshPipeline
           \/ Publish \/ TransformThrows
           \/ \E f \in Feeds : \E a \in Assets : RaceCrashes(f, a)
  BY <1>1, <1>9 DEF RunPipeline, LoadData, LoadDataThrows, RefreshPipeline, Publish,
     TransformThrows, RaceCrashes
<1>10. CASE UNCHANGED vars
  BY <1>7, <1>10 DEF vars
<1> QED
  BY <1>2, <1>3, <1>4, <1>5, <1>6, <1>8, <1>9, <1>10 DEF Next

LEMMA NextCovers ==
  ASSUME Core, StagedInv, ResampledIsNotBehind, [Next]_vars
  PROVE  ResampledIsNotBehind'
<1> USE DEF feedVars, published
<1>1. CASE Publish
  <2>1. transformed' = staged /\ pc = "resample" /\ todo = {}
    BY <1>1 DEF Publish
  <2>2. \A a \in DOMAIN staged["base"] \ Contracts : Covered(staged, a)
    BY <2>1 DEF StagedInv
  <2> QED BY <2>1, <2>2 DEF ResampledIsNotBehind, Covered
<1>2. CASE ~Publish
  <2>1. UNCHANGED published
    BY <1>2, Histories
  <2> QED BY <2>1 DEF ResampledIsNotBehind
<1> QED
  BY <1>1, <1>2

\* The two timeframes of one run are read from the loaded data at different times,
\* with stores in between, and what the base one shows is in the resampled one.
THEOREM ResamplingKeepsUp == Spec => []ResampledIsNotBehind
<1>1. Init => StagedInv /\ ResampledIsNotBehind
  BY NoData DEF Init, StagedInv, ResampledIsNotBehind, Timeframes
<1> QED
  BY <1>1, InitCore, NextCore, NextStaged, NextCovers, PTL DEF Spec

-----------------------------------------------------------------------------
(* No entry of the index leads to a row of another timestamp. *)

\* g begins with the rows of f.
Begins(g, f) == DOMAIN f \subseteq DOMAIN g /\ \A i \in DOMAIN f : g[i] = f[i]

\* The ranges of an item lead to rows of their timestamps.
Fits(frame, ranges) ==
  \A t \in DOMAIN ranges : \A i \in ranges[t][1]..ranges[t][2] : i \in DOMAIN frame /\ frame[i] = t

\* What a timeframe shows of the loaded data.
View(tf, frame) == IF tf = "base" THEN frame ELSE BuildResampled(frame)

\* A handler has yet to store the bars of an asset in a batch.
Due(f, i, a) == \/ i > sent[f]
                \/ i = sent[f] /\ (delivery[f].left > 0 \/ a \in delivery[f].assets)

\* The handlers take every batch once.
OneHandler ==
  \A f \in Feeds :
    /\ delivery[f].left <= refreshes
    /\ refreshes <= 1 /\ delivery[f].left > 0 => delivery[f].assets = {}
    /\ \A a \in delivery[f].assets : \A c \in Contracts : Continuation[c] # a

\* The loaded data is in the order of time, before all that is due, and the
\* continuations are those of their contracts.
LoadedInOrder ==
  /\ \A a \in DOMAIN loaded : Ordered(loaded[a])
  /\ \A f \in Feeds : \A i \in DOMAIN Stream[f] : \A j \in DOMAIN Stream[f][i] :
       \A a \in DOMAIN loaded :
         a = Stream[f][i][j].asset /\ Due(f, i, a) =>
           \A t \in Range(loaded[a]) : t <= Stream[f][i][j].time
  /\ \A c \in Contracts :
       Continuation[c] \in DOMAIN loaded =>
         /\ c \in DOMAIN loaded /\ loaded[c] # <<>>
         /\ Begins(BuildBars(loaded[c]), loaded[Continuation[c]])

\* The index fits the loaded data.
IndexFits ==
  \A e \in indexer : /\ e.asset \in DOMAIN loaded
                     /\ Fits(View(e.tf, loaded[e.asset]), e.ranges)
                     /\ e.tf = "resampled" => e.asset \notin Contracts

\* The index fits what is staged, which the loaded data begins with, and the
\* stages leave no asset of the index out.
StagedFits ==
  pc \in {"base", "resample"} =>
    /\ \A tf \in Timeframes : \A a \in DOMAIN staged[tf] :
         /\ a \in DOMAIN loaded /\ Ordered(staged[tf][a])
         /\ Begins(View(tf, loaded[a]), staged[tf][a])
         /\ \A e \in indexer : e.tf = tf /\ e.asset = a => Fits(staged[tf][a], e.ranges)
         /\ tf = "resampled" => a \notin Contracts
    /\ \A e \in indexer :
         /\ e.tf = "base" => e.asset \in DOMAIN staged["base"] \/ (pc = "base" /\ e.asset \in todo)
         /\ e.tf = "resampled" => \/ e.asset \in DOMAIN staged["resampled"]
                                  \/ pc = "base"
                                  \/ e.asset \in todo
    /\ pc = "base" /\ todo = {} => indexer = {}

\* Every batch is stored once and no load replaces data.
Calm == refreshes <= 1 /\ ~reloaded

LEMMA OneHandlerKept ==
  /\ Init => OneHandler
  /\ Core /\ OneHandler /\ [Next]_vars => OneHandler'
<1> USE DEF feedVars, published
<1>1. ASSUME Init PROVE OneHandler
  BY <1>1 DEF Init, OneHandler
<1>2. ASSUME Core, OneHandler, [Next]_vars PROVE OneHandler'
  <2>0. /\ TypeOK /\ FeedsInv /\ delivery \in [Feeds -> Deliveries] /\ refreshes \in Nat
        /\ \A f \in Feeds : handlers[f] = refreshes /\ delivery[f].left \in Nat
    BY <1>2, DatabaseAssumption DEF Core, TypeOK, FeedsInv, Deliveries
  <2>1. ASSUME NEW f \in Feeds, NewMessage(f) PROVE OneHandler'
    <3>1. /\ delivery'[f].assets = {}
          /\ \A g \in Feeds : g # f => delivery'[g] = delivery[g]
      BY <1>2, <2>1, DeliverySteps
    <3>2. delivery'[f].left = refreshes /\ refreshes' = refreshes
      BY <2>0, <2>1 DEF NewMessage
    <3> QED BY <1>2, <2>0, <3>1, <3>2 DEF OneHandler
  <2>2. ASSUME NEW f \in Feeds, TakeBatch(f) PROVE OneHandler'
    <3>1. /\ ~Quiet(f) /\ delivery'[f].assets = {bar.asset : bar \in Range(BatchOf(f))}
          /\ \A g \in Feeds : g # f => delivery'[g] = delivery[g]
      BY <1>2, <2>2, DeliverySteps
    <3>2. delivery'[f].left = delivery[f].left - 1 /\ refreshes' = refreshes /\ delivery[f].left > 0
      BY <2>0, <2>2 DEF TakeBatch, Deliveries
    <3>3. Range(BatchOf(f)) \subseteq RawBars
      BY <2>0, <3>1, BatchTypes
    <3>4. \A a \in delivery'[f].assets : \A c \in Contracts : Continuation[c] # a
      BY <3>1, <3>3 DEF RawBars
    <3>5. refreshes <= 1 => delivery[f].left - 1 = 0
      BY <1>2, <2>0, <3>2 DEF OneHandler
    <3> QED BY <1>2, <2>0, <3>1, <3>2, <3>4, <3>5 DEF OneHandler
  <2>3. ASSUME NEW f \in Feeds, DropBatch(f) \/ HandlerThrows(f) PROVE OneHandler'
    <3>1. /\ delivery'[f].assets = delivery[f].assets /\ refreshes' = refreshes
          /\ \A g \in Feeds : g # f => delivery'[g] = delivery[g]
      BY <1>2, <2>3, DeliverySteps DEF DropBatch, HandlerThrows
    <3>2. delivery[f].assets = {} /\ delivery'[f].left <= delivery[f].left /\ delivery'[f].left \in Int
      BY <2>0, <2>3 DEF DropBatch, HandlerThrows, Deliveries
    <3> QED BY <1>2, <2>0, <3>1, <3>2 DEF OneHandler
  <2>4. ASSUME NEW f \in Feeds, NEW a \in Assets, StoreBars(f, a) PROVE OneHandler'
    <3>1. /\ delivery'[f].assets = delivery[f].assets \ {a} /\ refreshes' = refreshes
          /\ \A g \in Feeds : g # f => delivery'[g] = delivery[g]
      BY <1>2, <2>4, DeliverySteps DEF StoreBars
    <3>2. delivery'[f].left = delivery[f].left
      BY <2>0, <2>4 DEF StoreBars, Deliveries
    <3> QED BY <1>2, <2>0, <3>1, <3>2 DEF OneHandler
  <2>5. CASE delivery' = delivery /\ refreshes' \in {refreshes, refreshes + 1}
    BY <1>2, <2>0, <2>5 DEF OneHandler
  <2>6. CASE \/ RunPipeline \/ LoadData \/ LoadDataThrows \/ RefreshPipeline \/ Publish
             \/ AppendFuturesContinuations \/ CopyNothing \/ TransformThrows
             \/ \E a \in Assets : CopyBaseData(a) \/ Resample(a)
             \/ \E f \in Feeds : \E a \in Assets : RaceCrashes(f, a)
             \/ UNCHANGED vars
    BY <2>5, <2>6 DEF RunPipeline, LoadData, LoadDataThrows, RefreshPipeline, Publish,
       AppendFuturesContinuations, CopyNothing, TransformThrows, CopyBaseData, Resample,
       RaceCrashes, vars
  <2> QED BY <1>2, <2>1, <2>2, <2>3, <2>4, <2>6 DEF Next
<1> QED
  BY <1>1, <1>2

\* The ranges of a frame in the order of time hold no other row.
LEMMA RangesFit ==
  ASSUME NEW frame \in Frames, Ordered(frame)
  PROVE  Fits(frame, Ranges(frame))
<1> SUFFICES ASSUME NEW t \in Range(frame),
                    NEW i \in Ranges(frame)[t][1]..Ranges(frame)[t][2]
             PROVE  i \in DOMAIN frame /\ frame[i] = t
  BY DEF Fits, Ranges
<1> DEFINE S == RowsAt(frame, t)
<1>1. frame \in Seq(Times) /\ DOMAIN frame = 1..Len(frame) /\ Len(frame) \in Nat
  BY DEF Frames
<1>2. S \in SUBSET (1..Len(frame)) /\ S # {}
  BY <1>1 DEF RowsAt, Range
<1>3. S \in SUBSET Nat /\ IsFiniteSet(S)
  <2>1. IsFiniteSet(1..Len(frame))
    BY <1>1, FS_Interval
  <2> HIDE DEF S
  <2>2. IsFiniteSet(S)
    BY <1>2, <2>1, FS_Subset
  <2>3. \A x \in S : x \in Nat
    BY <1>2
  <2> QED BY <2>2, <2>3
<1>4. Min(S) \in S /\ Max(S) \in S
  <2> HIDE DEF S
  <2> QED BY <1>2, <1>3, Extremes
<1>5. Ranges(frame)[t][1] = Min(S) /\ Ranges(frame)[t][2] = Max(S)
  BY DEF Ranges
<1>6. /\ Min(S) \in DOMAIN frame /\ Max(S) \in DOMAIN frame
      /\ frame[Min(S)] = t /\ frame[Max(S)] = t
  BY <1>4 DEF RowsAt
<1>7. i \in Min(S)..Max(S)
  BY <1>5
<1> DEFINE lo == Min(S)
           hi == Max(S)
<1> HIDE DEF S, lo, hi
<1>8. lo \in 1..Len(frame) /\ hi \in 1..Len(frame) /\ i \in lo..hi
  BY <1>1, <1>6, <1>7 DEF lo, hi
<1>9. i \in DOMAIN frame /\ lo <= i /\ i <= hi
  BY <1>1, <1>8
<1>10. frame[lo] <= frame[i] /\ frame[i] <= frame[hi] /\ frame[lo] = t /\ frame[hi] = t
  BY <1>1, <1>6, <1>8, <1>9 DEF Ordered, lo, hi
<1>11. frame[i] \in Int /\ t \in Int
  BY <1>1, <1>6, <1>9 DEF Times
<1> QED
  BY <1>9, <1>10, <1>11

\* Later elements come behind the others.
LEMMA SortedBegins ==
  ASSUME NEW T \in SUBSET Nat, IsFiniteSet(T), NEW S \in SUBSET T,
         \A x \in S : \A y \in T \ S : x < y
  PROVE  Begins(Sorted(T), Sorted(S))
<1>1. IsFiniteSet(S) /\ Cardinality(S) <= Cardinality(T) /\ S \in SUBSET Nat
      /\ Cardinality(S) \in Nat /\ Cardinality(T) \in Nat
  BY FS_Subset, FS_CardinalityType
<1>2. \A x \in T : x \in Int
  OBVIOUS
<1>3. ASSUME NEW x \in S PROVE UpTo(T, x) = UpTo(S, x)
  <2>1. ASSUME NEW y \in T, y <= x PROVE y \in S
    BY <1>2, <2>1
  <2> QED BY <2>1 DEF UpTo
<1>4. DOMAIN Sorted(S) = 1..Cardinality(S) /\ DOMAIN Sorted(T) = 1..Cardinality(T)
  BY DEF Sorted
<1>5. ASSUME NEW i \in 1..Cardinality(S) PROVE Sorted(T)[i] = Sorted(S)[i]
  <2> DEFINE x == Sorted(S)[i]
             y == Sorted(T)[i]
  <2>1. x = CHOOSE z \in S : Cardinality(UpTo(S, z)) = i
    BY DEF Sorted, UpTo
  <2>2. i \in 1..Cardinality(T)
    BY <1>1
  <2>3. y = CHOOSE z \in T : Cardinality(UpTo(T, z)) = i
    BY <2>2 DEF Sorted, UpTo
  <2>4. x \in S /\ Cardinality(UpTo(S, x)) = i
    <3>1. \E z \in S : Cardinality(UpTo(S, z)) = i
      BY <1>1, Ranks
    <3> QED BY <2>1, <3>1
  <2>5. y \in T /\ Cardinality(UpTo(T, y)) = i
    <3>1. \E z \in T : Cardinality(UpTo(T, z)) = i
      BY <2>2, Ranks
    <3> QED BY <2>3, <3>1
  <2> HIDE DEF x, y
  <2>6. Cardinality(UpTo(T, x)) = i /\ i \in Int
    BY <1>3, <2>4
  <2>7. ~(x < y) /\ ~(y < x)
    BY <2>4, <2>5, <2>6, Ranks
  <2>8. x = y
    BY <1>2, <2>4, <2>5, <2>7
  <2> QED BY <2>8 DEF x, y
<1> QED
  BY <1>1, <1>4, <1>5 DEF Begins

LEMMA QuotientOrder ==
  ASSUME NEW n \in Nat, NEW m \in Nat, NEW b \in Nat \ {0}, n <= m
  PROVE  (n \div b) * b <= (m \div b) * b
  OBVIOUS

LEMMA BucketOrder ==
  ASSUME NEW s \in Times, NEW t \in Times, s <= t
  PROVE  Bucket(s) <= Bucket(t)
<1>1. s + BucketLength - 1 \in Nat /\ t + BucketLength - 1 \in Nat
      /\ BucketLength \in Nat \ {0} /\ s + BucketLength - 1 <= t + BucketLength - 1
  BY DatabaseAssumption DEF Times
<1> QED
  BY <1>1, QuotientOrder DEF Bucket

\* When a frame in the order of time begins with another, what is built of it
\* begins with what is built of that.
LEMMA BuiltBegins ==
  ASSUME NEW f \in Frames, NEW g \in Frames, Ordered(g), Begins(g, f)
  PROVE  /\ Begins(BuildBars(g), BuildBars(f))
         /\ \A tf \in Timeframes : Begins(View(tf, g), View(tf, f))
<1> DEFINE F == Range(f)
           G == Range(g)
           FB == {Bucket(t) : t \in F}
           GB == {Bucket(t) : t \in G}
<1>1. f \in Seq(Times) /\ g \in Seq(Times)
      /\ DOMAIN f = 1..Len(f) /\ DOMAIN g = 1..Len(g) /\ Len(f) \in Nat /\ Len(g) \in Nat
  BY DEF Frames
<1>2. IsFiniteSet(G) /\ G \in SUBSET Times /\ F \in SUBSET Times
  BY FrameRange
<1>3. F \in SUBSET G
  BY DEF Begins, Range
<1>4. ASSUME NEW x \in F, NEW y \in G \ F PROVE x < y
  <2>1. PICK i \in DOMAIN f : x = f[i]
    BY DEF Range
  <2>2. PICK j \in DOMAIN g : y = g[j]
    BY DEF Range
  <2>3. j \notin DOMAIN f
    BY <2>2 DEF Begins, Range
  <2>4. i <= j /\ i \in DOMAIN g /\ g[i] = x
    BY <1>1, <2>1, <2>2, <2>3 DEF Begins
  <2>5. x <= y
    BY <2>2, <2>4 DEF Ordered
  <2>6. x \in Int /\ y \in Int /\ x # y
    BY <1>2 DEF Times
  <2> QED BY <2>5, <2>6
<1>5. ASSUME NEW x \in FB, NEW y \in GB \ FB PROVE x < y
  <2>1. PICK s \in F : x = Bucket(s)
    OBVIOUS
  <2>2. PICK t \in G : y = Bucket(t)
    OBVIOUS
  <2>3. t \notin F
    BY <2>2
  <2>4. s <= t /\ s \in Times /\ t \in Times
    <3>1. s < t /\ s \in Times /\ t \in Times
      BY <1>2, <1>4, <2>3
    <3> QED BY <3>1 DEF Times
  <2>5. x <= y /\ x \in Times /\ y \in Times
    BY <2>1, <2>2, <2>4, BucketOrder, BucketTypes
  <2>6. x # y
    OBVIOUS
  <2> QED BY <2>5, <2>6 DEF Times
<1>6. IsFiniteSet(GB) /\ GB \in SUBSET Times /\ FB \in SUBSET GB
  BY <1>2, <1>3, FiniteBuckets, BucketTypes
<1>7. Begins(BuildBars(g), BuildBars(f))
  <2> HIDE DEF F, G
  <2>1. G \in SUBSET Nat
    BY <1>2 DEF Times
  <2>2. Begins(Sorted(G), Sorted(F))
    BY <1>2, <1>3, <1>4, <2>1, SortedBegins
  <2> QED BY <2>2 DEF BuildBars, F, G
<1>8. Begins(BuildResampled(g), BuildResampled(f))
  <2> HIDE DEF FB, GB
  <2>1. GB \in SUBSET Nat
    BY <1>6 DEF Times
  <2>2. Begins(Sorted(GB), Sorted(FB))
    BY <1>5, <1>6, <2>1, SortedBegins
  <2> QED BY <2>2 DEF BuildResampled, FB, GB
<1> QED
  BY <1>7, <1>8 DEF View

\* What is built of a frame is in the order of time.
LEMMA BuiltOrdered ==
  ASSUME NEW frame \in Frames
  PROVE  /\ Ordered(BuildBars(frame)) /\ Ordered(BuildResampled(frame))
<1>1. ASSUME NEW S \in SUBSET Times, IsFiniteSet(S) PROVE Ordered(Sorted(S))
  <2>1. S \in SUBSET Nat
    BY DEF Times
  <2>2. Sorted(S) \in Seq(S)
        /\ \A i, j \in DOMAIN Sorted(S) : i < j => Sorted(S)[i] < Sorted(S)[j]
    BY <1>1, <2>1, SortedLists
  <2> DEFINE q == Sorted(S)
  <2> HIDE DEF q
  <2>3. \A i \in DOMAIN q : i \in Int /\ q[i] \in Int
    <3>1. q \in Seq(S)
      BY <2>2 DEF q
    <3>2. \A i \in DOMAIN q : i \in Int /\ q[i] \in S
      BY <3>1
    <3>3. \A x \in S : x \in Int
      BY <2>1
    <3> QED BY <3>2, <3>3
  <2>4. ASSUME NEW i \in DOMAIN q, NEW j \in DOMAIN q, i <= j
        PROVE  q[i] <= q[j]
    <3>1. CASE i = j
      BY <2>3, <3>1
    <3>2. CASE i < j
      BY <2>2, <2>3, <3>2 DEF q
    <3> QED BY <2>3, <2>4, <3>1, <3>2
  <2> QED BY <2>4 DEF Ordered, q
<1>2. IsFiniteSet(Range(frame)) /\ Range(frame) \in SUBSET Times
  BY FrameRange
<1>3. IsFiniteSet({Bucket(t) : t \in Range(frame)}) /\ {Bucket(t) : t \in Range(frame)} \in SUBSET Times
  BY <1>2, FiniteBuckets, BucketTypes
<1> QED
  BY <1>1, <1>2, <1>3 DEF BuildBars, BuildResampled

\* The bars of an asset in a batch are in the order of the batch.
LEMMA BarsInOrder ==
  ASSUME NEW f \in Feeds, NEW a \in Assets, BatchOf(f) \in Seq(Bars)
  PROVE  LET times == [i \in DOMAIN BarsOf(f, a) |-> BarsOf(f, a)[i].time]
         IN  \A k, l \in DOMAIN times :
               k <= l => \E i, j \in DOMAIN BatchOf(f) :
                           /\ i <= j /\ BatchOf(f)[i].asset = a /\ BatchOf(f)[j].asset = a
                           /\ times[k] = BatchOf(f)[i].time /\ times[l] = BatchOf(f)[j].time
<1> DEFINE batch == BatchOf(f)
           S == {i \in DOMAIN batch : batch[i].asset = a}
           rows == Sorted(S)
           times == [i \in DOMAIN BarsOf(f, a) |-> BarsOf(f, a)[i].time]
<1>1. DOMAIN batch = 1..Len(batch) /\ Len(batch) \in Nat
  OBVIOUS
<1>2. S \in SUBSET Nat /\ IsFiniteSet(S)
  <2>1. S \in SUBSET (1..Len(batch)) /\ IsFiniteSet(1..Len(batch))
    BY <1>1, FS_Interval
  <2> HIDE DEF S
  <2>2. IsFiniteSet(S)
    BY <2>1, FS_Subset
  <2> QED BY <1>1, <2>1, <2>2
<1>3. /\ rows \in Seq(S)
      /\ \A i, j \in DOMAIN rows : i < j => rows[i] < rows[j]
  <2> HIDE DEF S
  <2> QED BY <1>2, SortedLists
<1>4. BarsOf(f, a) = [k \in DOMAIN rows |-> batch[rows[k]]]
  BY DEF BarsOf
<1> HIDE DEF rows
<1>5. times = [k \in DOMAIN rows |-> batch[rows[k]].time]
  BY <1>4
<1>6. ASSUME NEW k \in DOMAIN times, NEW l \in DOMAIN times, k <= l
      PROVE  \E i, j \in DOMAIN BatchOf(f) :
               /\ i <= j /\ BatchOf(f)[i].asset = a /\ BatchOf(f)[j].asset = a
               /\ times[k] = BatchOf(f)[i].time /\ times[l] = BatchOf(f)[j].time
  <2>1. k \in DOMAIN rows /\ l \in DOMAIN rows /\ k \in Int /\ l \in Int
    BY <1>3, <1>5
  <2>2. rows[k] \in S /\ rows[l] \in S
    BY <1>3, <2>1
  <2>3. rows[k] \in Int /\ rows[l] \in Int
    BY <1>1, <2>2
  <2>4. rows[k] <= rows[l]
    BY <1>3, <1>6, <2>1, <2>3
  <2>5. times[k] = batch[rows[k]].time /\ times[l] = batch[rows[l]].time
    BY <1>5, <2>1
  <2> QED BY <2>2, <2>4, <2>5
<1> QED
  BY <1>6

\* A store leaves the rows of its asset where they are, in the order of time and
\* before all that is due.
LEMMA StoredInOrder ==
  ASSUME Chronological, Core, OneHandler, LoadedInOrder, refreshes <= 1,
         NEW f \in Feeds, NEW a \in Assets, StoreBars(f, a)
  PROVE  /\ \A b \in DOMAIN loaded : Begins(loaded'[b], loaded[b])
         /\ DOMAIN loaded' = DOMAIN loaded \cup {a}
         /\ LoadedInOrder'
<1> DEFINE old == IF a \in DOMAIN loaded THEN loaded[a] ELSE <<>>
           times == [i \in DOMAIN BarsOf(f, a) |-> BarsOf(f, a)[i].time]
           new == old \o times
           batch == BatchOf(f)
<1>0. /\ TypeOK /\ FeedsInv /\ FrameMap(loaded) /\ FrameMap(loaded')
      /\ ~Quiet(f) /\ sent' = sent /\ a \in delivery[f].assets
      /\ delivery'[f].assets = delivery[f].assets \ {a}
      /\ delivery'[f].left = 0
      /\ \A g \in Feeds : g # f => delivery'[g] = delivery[g]
  <2>1. Core'
    BY FeedCore
  <2>2. /\ ~Quiet(f) /\ delivery'[f].assets = delivery[f].assets \ {a}
        /\ \A g \in Feeds : g # f => delivery'[g] = delivery[g]
    BY DeliverySteps
  <2>3. delivery[f].left \in Nat /\ delivery'[f].left = delivery[f].left
    BY DatabaseAssumption DEF Core, TypeOK, StoreBars
  <2>4. a \in delivery[f].assets /\ sent' = sent
    BY DEF StoreBars
  <2>5. delivery[f].left = 0
    BY <2>3, <2>4 DEF OneHandler
  <2> QED BY <2>1, <2>2, <2>3, <2>4, <2>5 DEF Core, TypeOK
<1>1. /\ batch \in Seq(Bars) /\ sent[f] \in DOMAIN Stream[f] /\ batch = Stream[f][sent[f]]
  <2>1. batch \in Seq(Bars)
    BY <1>0, BatchTypes
  <2>2. sent[f] \in 1..Len(Stream[f]) /\ Stream[f] \in Seq(Seq(Bars))
    BY <1>0, DatabaseAssumption DEF TypeOK, FeedsInv
  <2> QED BY <2>1, <2>2 DEF BatchOf
<1>2. times \in Seq(Times) /\ old \in Seq(Times)
  BY <1>0, <1>1, BarsOfAsset DEF Frames, FrameMap
<1>3. \A k, l \in DOMAIN times :
        k <= l => \E i, j \in DOMAIN batch :
                    /\ i <= j /\ batch[i].asset = a /\ batch[j].asset = a
                    /\ times[k] = batch[i].time /\ times[l] = batch[j].time
  BY <1>1, BarsInOrder
<1>4. loaded' = Assigned(loaded, a, new)
  BY DEF StoreBars, Appended
<1>5. /\ DOMAIN loaded' = DOMAIN loaded \cup {a} /\ loaded'[a] = new
      /\ \A b \in DOMAIN loaded : b # a => loaded'[b] = loaded[b]
  <2> HIDE DEF new
  <2> QED BY <1>4 DEF Assigned
<1>6. a \in DOMAIN loaded => loaded[a] = old
  OBVIOUS
<1>7. Ordered(old)
  <2>1. CASE a \in DOMAIN loaded
    BY <2>1 DEF LoadedInOrder
  <2>2. CASE a \notin DOMAIN loaded
    BY <2>2 DEF Ordered
  <2> QED BY <2>1, <2>2
<1>8. ASSUME NEW t \in Range(old), NEW i \in DOMAIN batch, batch[i].asset = a
      PROVE  t <= batch[i].time
  <2>1. a \in DOMAIN loaded /\ t \in Range(loaded[a])
    <3>1. CASE a \in DOMAIN loaded
      BY <3>1
    <3>2. CASE a \notin DOMAIN loaded
      BY <3>2 DEF Range
    <3> QED BY <3>1, <3>2
  <2>2. Due(f, sent[f], a)
    BY <1>0 DEF Due
  <2> QED BY <1>1, <1>8, <2>1, <2>2 DEF LoadedInOrder
<1>9. \A c \in Contracts : Continuation[c] # a
  BY <1>0 DEF OneHandler
<1>10. /\ DOMAIN new = 1..(Len(old) + Len(times))
       /\ \A i \in DOMAIN old : i \in DOMAIN new /\ new[i] = old[i]
       /\ \A i \in DOMAIN new : \/ i \in DOMAIN old
                                \/ i - Len(old) \in DOMAIN times /\ new[i] = times[i - Len(old)]
       /\ \A i \in DOMAIN new : new[i] \in Times
       /\ DOMAIN old = 1..Len(old) /\ Len(old) \in Nat /\ DOMAIN times = 1..Len(times)
       /\ Len(times) \in Nat
  <2> HIDE DEF old, times
  <2> QED BY <1>2
<1> HIDE DEF old, times, new, batch
<1>11. ASSUME NEW i \in DOMAIN new, NEW j \in DOMAIN new, i <= j PROVE new[i] <= new[j]
  <2>0. i \in Int /\ j \in Int
    BY <1>10
  <2>1. CASE j \in DOMAIN old
    <3>1. i \in DOMAIN old
      BY <1>10, <1>11, <2>1
    <3> QED BY <1>7, <1>10, <1>11, <2>1, <3>1 DEF Ordered
  <2>2. CASE i \in DOMAIN old /\ j \notin DOMAIN old
    <3>1. PICK k \in DOMAIN times : new[j] = times[k]
      BY <1>10, <2>2
    <3>2. PICK l \in DOMAIN batch : batch[l].asset = a /\ times[k] = batch[l].time
      BY <1>3, <1>10
    <3>3. new[i] \in Range(old)
      BY <1>10, <2>2 DEF Range
    <3> QED BY <1>8, <3>1, <3>2, <3>3
  <2>3. CASE i \notin DOMAIN old /\ j \notin DOMAIN old
    <3> DEFINE k == i - Len(old)
               l == j - Len(old)
    <3>1. k \in DOMAIN times /\ l \in DOMAIN times /\ k <= l
          /\ new[i] = times[k] /\ new[j] = times[l]
      BY <1>10, <1>11, <2>0, <2>3
    <3> HIDE DEF k, l
    <3>2. PICK p, q \in DOMAIN batch :
             /\ p <= q /\ batch[p].asset = a /\ batch[q].asset = a
             /\ times[k] = batch[p].time /\ times[l] = batch[q].time
      BY <1>3, <3>1
    <3>3. batch[p].time <= batch[q].time
      BY <1>1, <3>2 DEF Chronological
    <3> QED BY <3>1, <3>2, <3>3
  <2>4. CASE i \notin DOMAIN old /\ j \in DOMAIN old
    BY <1>10, <1>11, <2>0, <2>4
  <2> QED BY <2>1, <2>2, <2>3, <2>4
<1>12. \A b \in DOMAIN loaded' : Ordered(loaded'[b])
  <2>1. Ordered(new)
    BY <1>11 DEF Ordered
  <2> QED BY <1>5, <2>1 DEF LoadedInOrder
<1>13. \A b \in DOMAIN loaded : Begins(loaded'[b], loaded[b])
  BY <1>5, <1>6, <1>10 DEF Begins
<1>14. ASSUME NEW g \in Feeds, NEW i \in DOMAIN Stream[g], NEW j \in DOMAIN Stream[g][i],
              NEW b \in DOMAIN loaded', b = Stream[g][i][j].asset, Due(g, i, b)',
              NEW t \in Range(loaded'[b])
       PROVE  t <= Stream[g][i][j].time
  <2>1. Due(g, i, b)
    BY <1>0, <1>14 DEF Due
  <2>2. CASE b # a
    BY <1>5, <1>14, <2>1, <2>2 DEF LoadedInOrder
  <2>3. CASE b = a /\ t \in Range(old)
    <3>1. a \in DOMAIN loaded /\ t \in Range(loaded[a])
      <4>1. CASE a \in DOMAIN loaded
        BY <1>6, <2>3, <4>1
      <4>2. CASE a \notin DOMAIN loaded
        BY <2>3, <4>2 DEF Range, old
      <4> QED BY <4>1, <4>2
    <3> QED BY <1>14, <2>1, <2>3, <3>1 DEF LoadedInOrder
  <2>4. CASE b = a /\ t \notin Range(old)
    <3>1. PICK n \in DOMAIN new : t = new[n]
      BY <1>5, <1>14, <2>4 DEF Range
    <3>2. n \notin DOMAIN old
      BY <1>10, <2>4, <3>1 DEF Range
    <3>3. PICK k \in DOMAIN times : t = times[k]
      BY <1>10, <3>1, <3>2
    <3>4. PICK l \in DOMAIN batch : batch[l].asset = a /\ t = batch[l].time
      BY <1>3, <1>10, <3>3
    <3> DEFINE n1 == sent[f]
    <3>9. /\ n1 \in DOMAIN Stream[f] /\ l \in DOMAIN Stream[f][n1]
          /\ Stream[f][n1][l].asset = a /\ Stream[f][n1][l].time = t
          /\ Stream[g][i][j].asset = Stream[f][n1][l].asset
      BY <1>1, <1>14, <2>4, <3>4
    <3> HIDE DEF n1
    <3>5. /\ g = f
          /\ n1 < i => Stream[f][n1][l].time <= Stream[g][i][j].time
      BY <1>14, <3>9 DEF Chronological
    <3>6. i > sent[f]
      BY <1>0, <1>14, <2>4, <3>5 DEF Due
    <3>7. sent[f] \in Nat
      BY <1>0 DEF TypeOK
    <3>8. n1 < i
      <4>1. i \in Int
        BY <1>14, <3>5, DatabaseAssumption
      <4> QED BY <3>6, <3>7, <4>1 DEF n1
    <3> QED BY <3>5, <3>8, <3>9
  <2> QED BY <2>2, <2>3, <2>4
<1>15. ASSUME NEW c \in Contracts, Continuation[c] \in DOMAIN loaded'
       PROVE  /\ c \in DOMAIN loaded' /\ loaded'[c] # <<>>
              /\ Begins(BuildBars(loaded'[c]), loaded'[Continuation[c]])
  <2>1. Continuation[c] # a /\ Continuation[c] \in DOMAIN loaded
    BY <1>5, <1>9, <1>15
  <2>2. c \in DOMAIN loaded /\ loaded[c] # <<>>
        /\ Begins(BuildBars(loaded[c]), loaded[Continuation[c]])
    BY <2>1 DEF LoadedInOrder
  <2>3. Begins(loaded'[c], loaded[c]) /\ c \in DOMAIN loaded' /\ Ordered(loaded'[c])
    BY <1>5, <1>12, <1>13, <2>2
  <2>4. loaded[c] \in Frames /\ loaded'[c] \in Frames
    BY <1>0, <2>2, <2>3 DEF FrameMap
  <2>5. Begins(BuildBars(loaded'[c]), BuildBars(loaded[c]))
    BY <2>3, <2>4, BuiltBegins
  <2>6. loaded'[c] # <<>>
    <3>1. loaded[c] \in Seq(Times) /\ 1 \in DOMAIN loaded[c]
      BY <2>2, <2>4 DEF Frames
    <3> QED BY <2>3, <3>1 DEF Begins
  <2>7. loaded'[Continuation[c]] = loaded[Continuation[c]]
    BY <1>5, <2>1
  <2> QED BY <2>2, <2>3, <2>5, <2>6, <2>7 DEF Begins
<1>16. LoadedInOrder'
  BY <1>12, <1>14, <1>15 DEF LoadedInOrder
<1> QED
  BY <1>5, <1>13, <1>16

\* So do the continuations.
LEMMA ContinuedInOrder ==
  ASSUME Chronological, Core, LoadedInOrder, AppendFuturesContinuations
  PROVE  /\ \A b \in DOMAIN loaded : b \in DOMAIN loaded' /\ Begins(loaded'[b], loaded[b])
         /\ LoadedInOrder'
<1> DEFINE built == {c \in Contracts \cap DOMAIN loaded : loaded[c] # <<>>}
           of(k) == CHOOSE c \in built : Continuation[c] = k
<1>0. /\ FrameMap(loaded) /\ delivery' = delivery /\ sent' = sent
      /\ loaded' = WithContinuations(loaded)
  BY DEF Core, TypeOK, AppendFuturesContinuations, feedVars
<1>1. loaded' = [a \in DOMAIN loaded \cup {Continuation[c] : c \in built} |->
                   IF \E c \in built : Continuation[c] = a THEN BuildBars(loaded[of(a)])
                   ELSE loaded[a]]
  BY <1>0 DEF WithContinuations
<1>2. ASSUME NEW c \in built PROVE of(Continuation[c]) = c
  BY DEF Chronological
<1>3. /\ DOMAIN loaded' = DOMAIN loaded \cup {Continuation[c] : c \in built}
      /\ \A c \in built : loaded'[Continuation[c]] = BuildBars(loaded[c])
      /\ \A b \in DOMAIN loaded : (\A c \in built : Continuation[c] # b) => loaded'[b] = loaded[b]
  BY <1>1, <1>2
<1>4. \A c, d \in Contracts : Continuation[c] # d
  BY DatabaseAssumption
<1> HIDE DEF of
<1>5. ASSUME NEW b \in DOMAIN loaded PROVE Begins(loaded'[b], loaded[b])
  <2>1. CASE \E c \in built : Continuation[c] = b
    <3>1. PICK c \in built : Continuation[c] = b
      BY <2>1
    <3> QED BY <1>3, <3>1 DEF LoadedInOrder
  <2>2. CASE \A c \in built : Continuation[c] # b
    BY <1>3, <2>2 DEF Begins
  <2> QED BY <2>1, <2>2
<1>6. ASSUME NEW b \in DOMAIN loaded' PROVE Ordered(loaded'[b])
  <2>1. CASE \E c \in built : Continuation[c] = b
    <3>1. PICK c \in built : Continuation[c] = b
      BY <2>1
    <3>2. loaded[c] \in Frames
      BY <1>0 DEF FrameMap
    <3> QED BY <1>3, <3>1, <3>2, BuiltOrdered
  <2>2. CASE \A c \in built : Continuation[c] # b
    BY <1>3, <2>2 DEF LoadedInOrder
  <2> QED BY <2>1, <2>2
<1>7. ASSUME NEW f \in Feeds, NEW i \in DOMAIN Stream[f], NEW j \in DOMAIN Stream[f][i],
             NEW a \in DOMAIN loaded', a = Stream[f][i][j].asset, Due(f, i, a)',
             NEW t \in Range(loaded'[a])
      PROVE  t <= Stream[f][i][j].time
  <2>1. \A c \in Contracts : Continuation[c] # a
    BY <1>7, ContinuationAssumption
  <2>2. a \in DOMAIN loaded /\ loaded'[a] = loaded[a]
    BY <1>3, <2>1
  <2>3. Due(f, i, a)
    BY <1>0, <1>7 DEF Due
  <2> QED BY <1>7, <2>2, <2>3 DEF LoadedInOrder
<1>8. ASSUME NEW c \in Contracts, Continuation[c] \in DOMAIN loaded'
      PROVE  /\ c \in DOMAIN loaded' /\ loaded'[c] # <<>>
             /\ Begins(BuildBars(loaded'[c]), loaded'[Continuation[c]])
  <2>1. c \in built
    <3>1. CASE Continuation[c] \in DOMAIN loaded
      BY <3>1 DEF LoadedInOrder
    <3>2. CASE Continuation[c] \notin DOMAIN loaded
      <4>1. PICK d \in built : Continuation[d] = Continuation[c]
        BY <1>3, <1>8, <3>2
      <4> QED BY <4>1 DEF Chronological
    <3> QED BY <3>1, <3>2
  <2>2. loaded'[c] = loaded[c] /\ c \in DOMAIN loaded'
    BY <1>3, <1>4, <2>1
  <2> QED BY <1>3, <2>1, <2>2 DEF Begins
<1>9. LoadedInOrder'
  BY <1>6, <1>7, <1>8 DEF LoadedInOrder
<1> QED
  BY <1>3, <1>5, <1>9

\* What is due was due before.
LEMMA DueBefore ==
  ASSUME Core, [Next]_vars, NEW f \in Feeds, NEW i \in DOMAIN Stream[f], NEW a \in Assets,
         Due(f, i, a)'
  PROVE  Due(f, i, a)
<1>0. /\ delivery \in [Feeds -> Deliveries] /\ sent \in [Feeds -> Nat] /\ i \in Nat
      /\ \A g \in Feeds : delivery[g].left \in Nat
  BY DatabaseAssumption DEF Core, TypeOK, Deliveries
<1>1. ASSUME NEW g \in Feeds, NewMessage(g) PROVE Due(f, i, a)
  <2>1. sent' = [sent EXCEPT ![g] = @ + 1] /\ delivery'[g].assets = {}
        /\ \A h \in Feeds : h # g => delivery'[h] = delivery[h]
    BY <1>1, DeliverySteps DEF NewMessage
  <2>2. CASE g = f
    <3>1. sent'[f] = sent[f] + 1 /\ i >= sent'[f]
      BY <1>0, <2>1, <2>2 DEF Due
    <3>2. i > sent[f]
      BY <1>0, <3>1
    <3> QED BY <3>2 DEF Due
  <2>3. CASE g # f
    BY <1>0, <2>1, <2>3 DEF Due
  <2> QED BY <2>2, <2>3
<1>2. ASSUME NEW g \in Feeds, TakeBatch(g) PROVE Due(f, i, a)
  <2>1. sent' = sent /\ delivery[g].left > 0
        /\ \A h \in Feeds : h # g => delivery'[h] = delivery[h]
    BY <1>2, DeliverySteps DEF TakeBatch
  <2> QED BY <2>1 DEF Due
<1>3. ASSUME NEW g \in Feeds, DropBatch(g) \/ HandlerThrows(g) PROVE Due(f, i, a)
  <2>1. sent' = sent /\ delivery[g].left > 0
        /\ \A h \in Feeds : h # g => delivery'[h] = delivery[h]
    BY <1>3, DeliverySteps DEF DropBatch, HandlerThrows
  <2> QED BY <2>1 DEF Due
<1>4. ASSUME NEW g \in Feeds, NEW b \in Assets, StoreBars(g, b) PROVE Due(f, i, a)
  <2>1. sent' = sent /\ delivery'[g].assets = delivery[g].assets \ {b}
        /\ \A h \in Feeds : h # g => delivery'[h] = delivery[h]
    BY <1>4, DeliverySteps DEF StoreBars
  <2>2. delivery'[g].left = delivery[g].left
    BY <1>0, <1>4 DEF StoreBars, Deliveries
  <2> QED BY <2>1, <2>2 DEF Due
<1>5. CASE UNCHANGED <<sent, delivery>>
  BY <1>5 DEF Due
<1>6. CASE \/ RunPipeline \/ LoadData \/ LoadDataThrows \/ RefreshPipeline \/ Publish
           \/ AppendFuturesContinuations \/ CopyNothing \/ TransformThrows
           \/ \E b \in Assets : CopyBaseData(b) \/ Resample(b)
           \/ \E g \in Feeds : \E b \in Assets : RaceCrashes(g, b)
           \/ UNCHANGED vars
  BY <1>5, <1>6 DEF RunPipeline, LoadData, LoadDataThrows, RefreshPipeline, Publish,
     AppendFuturesContinuations, CopyNothing, TransformThrows, CopyBaseData, Resample,
     RaceCrashes, vars, feedVars
<1> QED
  BY <1>1, <1>2, <1>3, <1>4, <1>6 DEF Next

LEMMA OrderKept ==
  ASSUME Core, LoadedInOrder, [Next]_vars, loaded' = loaded
  PROVE  LoadedInOrder'
<1>1. DOMAIN loaded \subseteq Assets
  BY DEF Core, TypeOK, FrameMap
<1>2. \A f \in Feeds : \A i \in DOMAIN Stream[f] : \A a \in DOMAIN loaded :
        Due(f, i, a)' => Due(f, i, a)
  BY <1>1, DueBefore
<1> QED
  BY <1>2 DEF LoadedInOrder

\* Longer data leave the index and what is staged as they are.
LEMMA GrownFits ==
  ASSUME Core, Core', LoadedInOrder', IndexFits, indexer' = indexer,
         \A b \in DOMAIN loaded : b \in DOMAIN loaded' /\ Begins(loaded'[b], loaded[b])
  PROVE  /\ IndexFits'
         /\ \A tf \in Timeframes : \A b \in DOMAIN loaded :
              Begins(View(tf, loaded'[b]), View(tf, loaded[b]))
<1>1. ASSUME NEW tf \in Timeframes, NEW b \in DOMAIN loaded
      PROVE  Begins(View(tf, loaded'[b]), View(tf, loaded[b]))
  <2>1. loaded[b] \in Frames /\ loaded'[b] \in Frames /\ Ordered(loaded'[b])
    BY DEF Core, TypeOK, FrameMap, LoadedInOrder
  <2> QED BY <2>1, BuiltBegins
<1>2. ASSUME NEW e \in indexer
      PROVE  /\ e.asset \in DOMAIN loaded'
             /\ Fits(View(e.tf, loaded'[e.asset]), e.ranges)
             /\ e.tf = "resampled" => e.asset \notin Contracts
  <2>1. e.tf \in Timeframes
    BY DEF Core, TypeOK
  <2>2. e.asset \in DOMAIN loaded /\ Fits(View(e.tf, loaded[e.asset]), e.ranges)
    BY DEF IndexFits
  <2>3. Begins(View(e.tf, loaded'[e.asset]), View(e.tf, loaded[e.asset]))
    BY <1>1, <2>1, <2>2
  <2>4. Fits(View(e.tf, loaded'[e.asset]), e.ranges)
    BY <2>2, <2>3 DEF Fits, Begins
  <2> QED BY <2>2, <2>4 DEF IndexFits
<1>3. IndexFits'
  BY <1>2 DEF IndexFits, View, BuildResampled, Bucket
<1> QED
  BY <1>1, <1>3

Orderly == LoadedInOrder /\ IndexFits /\ StagedFits

\* A stage that comes to an asset.
LEMMA StagedNext ==
  ASSUME Core, Orderly, NEW tf \in Timeframes, NEW a \in DOMAIN loaded,
         pc \in {"base", "resample"}, UNCHANGED <<loaded, indexer>>,
         tf = "resampled" => a \notin Contracts,
         Stage(tf, a, View(tf, loaded[a]))
  PROVE  /\ \A g \in Timeframes : \A b \in DOMAIN staged'[g] :
              /\ b \in DOMAIN loaded' /\ Ordered(staged'[g][b])
              /\ Begins(View(g, loaded'[b]), staged'[g][b])
              /\ \A e \in indexer' : e.tf = g /\ e.asset = b => Fits(staged'[g][b], e.ranges)
              /\ g = "resampled" => b \notin Contracts
         /\ \A g \in Timeframes : DOMAIN staged'[g] = DOMAIN staged[g] \cup (IF g = tf THEN {a} ELSE {})
<1> DEFINE frame == View(tf, loaded[a])
<1>1. staged' = [staged EXCEPT ![tf] = Assigned(staged[tf], a, frame)]
  BY DEF Stage
<1>2. loaded[a] \in Frames /\ DOMAIN staged = Timeframes
  BY DEF Core, TypeOK, FrameMap
<1>3. Ordered(frame)
  BY <1>2, BuiltOrdered DEF View, Orderly, LoadedInOrder
<1>4. Begins(frame, frame)
  BY DEF Begins
<1>5. \A e \in indexer : e.tf = tf /\ e.asset = a => Fits(frame, e.ranges)
  BY DEF Orderly, IndexFits
<1> HIDE DEF frame
<1>6. /\ \A g \in Timeframes : g # tf => staged'[g] = staged[g]
      /\ DOMAIN staged'[tf] = DOMAIN staged[tf] \cup {a} /\ staged'[tf][a] = frame
      /\ \A b \in DOMAIN staged[tf] : b # a => staged'[tf][b] = staged[tf][b]
  <2>1. /\ \A g \in Timeframes : g # tf => staged'[g] = staged[g]
        /\ staged'[tf] = Assigned(staged[tf], a, frame)
    BY <1>1, <1>2
  <2> QED BY <2>1 DEF Assigned
<1>7. ASSUME NEW g \in Timeframes, NEW b \in DOMAIN staged'[g]
      PROVE  /\ b \in DOMAIN loaded' /\ Ordered(staged'[g][b])
             /\ Begins(View(g, loaded'[b]), staged'[g][b])
             /\ \A e \in indexer' : e.tf = g /\ e.asset = b => Fits(staged'[g][b], e.ranges)
             /\ g = "resampled" => b \notin Contracts
  <2>1. CASE g = tf /\ b = a
    BY <1>3, <1>4, <1>5, <1>6, <2>1 DEF frame
  <2>2. CASE ~(g = tf /\ b = a)
    <3>1. b \in DOMAIN staged[g] /\ staged'[g][b] = staged[g][b]
      BY <1>6, <2>2
    <3> QED BY <3>1 DEF Orderly, StagedFits
  <2> QED BY <2>1, <2>2
<1> QED
  BY <1>6, <1>7

LEMMA CopyFits ==
  ASSUME Core, Orderly, NEW a \in Assets, CopyBaseData(a)
  PROVE  StagedFits'
<1>1. /\ pc = "base" /\ a \in todo /\ a \in DOMAIN loaded /\ UNCHANGED <<loaded, indexer>>
      /\ "base" \in Timeframes /\ "resampled" \in Timeframes
  BY DEF Core, TodoInv, CopyBaseData, published, Timeframes
<1>2. Stage("base", a, View("base", loaded[a]))
  BY DEF CopyBaseData, View
<1>3. /\ \A g \in Timeframes : \A b \in DOMAIN staged'[g] :
           /\ b \in DOMAIN loaded' /\ Ordered(staged'[g][b])
           /\ Begins(View(g, loaded'[b]), staged'[g][b])
           /\ \A e \in indexer' : e.tf = g /\ e.asset = b => Fits(staged'[g][b], e.ranges)
           /\ g = "resampled" => b \notin Contracts
      /\ DOMAIN staged'["base"] = DOMAIN staged["base"] \cup {a}
  BY <1>1, <1>2, StagedNext
<1>4. ASSUME NEW e \in indexer', pc' \in {"base", "resample"}
      PROVE  /\ e.tf = "base" => \/ e.asset \in DOMAIN staged'["base"]
                                \/ (pc' = "base" /\ e.asset \in todo')
             /\ e.tf = "resampled" => \/ e.asset \in DOMAIN staged'["resampled"]
                                     \/ pc' = "base"
                                     \/ e.asset \in todo'
  <2>1. e.tf = "base" => e.asset \in DOMAIN staged["base"] \/ e.asset \in todo
    BY <1>1 DEF Orderly, StagedFits
  <2>2. CASE todo = {a}
    <3>1. pc' = "resample" /\ todo' = DOMAIN loaded \ Contracts
      BY <2>2 DEF CopyBaseData, ToResample
    <3> QED BY <1>1, <1>3, <2>1, <2>2, <3>1 DEF Orderly, IndexFits
  <2>3. CASE todo # {a}
    <3>1. pc' = "base" /\ todo' = todo \ {a}
      BY <1>1, <2>3 DEF CopyBaseData
    <3> QED BY <1>3, <2>1, <3>1
  <2> QED BY <2>2, <2>3
<1>5. pc' = "base" => todo' # {}
  BY <1>1 DEF CopyBaseData
<1> QED
  BY <1>3, <1>4, <1>5 DEF StagedFits, View, BuildResampled, Bucket

LEMMA ResampleFits ==
  ASSUME Core, Orderly, NEW a \in Assets, Resample(a), todo \cap Contracts = {}
  PROVE  StagedFits'
<1>1. /\ pc = "resample" /\ a \in todo /\ a \in DOMAIN loaded /\ UNCHANGED <<loaded, indexer>>
      /\ "base" \in Timeframes /\ "resampled" \in Timeframes /\ a \notin Contracts
  BY DEF Core, TodoInv, Resample, published, Timeframes
<1>2. Stage("resampled", a, View("resampled", loaded[a]))
  BY DEF Resample, View
<1>3. /\ \A g \in Timeframes : \A b \in DOMAIN staged'[g] :
           /\ b \in DOMAIN loaded' /\ Ordered(staged'[g][b])
           /\ Begins(View(g, loaded'[b]), staged'[g][b])
           /\ \A e \in indexer' : e.tf = g /\ e.asset = b => Fits(staged'[g][b], e.ranges)
           /\ g = "resampled" => b \notin Contracts
      /\ \A g \in Timeframes :
           DOMAIN staged'[g] = DOMAIN staged[g] \cup (IF g = "resampled" THEN {a} ELSE {})
  BY <1>1, <1>2, StagedNext
<1>6. /\ DOMAIN staged'["base"] = DOMAIN staged["base"]
      /\ DOMAIN staged'["resampled"] = DOMAIN staged["resampled"] \cup {a}
  BY <1>1, <1>3
<1>4. pc' = "resample" /\ todo' = todo \ {a}
  BY <1>1 DEF Resample
<1>5. ASSUME NEW e \in indexer'
      PROVE  /\ e.tf = "base" => e.asset \in DOMAIN staged'["base"]
             /\ e.tf = "resampled" => e.asset \in DOMAIN staged'["resampled"] \/ e.asset \in todo'
  BY <1>1, <1>4, <1>6 DEF Orderly, StagedFits
<1> QED
  BY <1>3, <1>4, <1>5 DEF StagedFits, View, BuildResampled, Bucket

\* A run that completes: its items fit its frames, and so do the older ones.
LEMMA PublishFits ==
  ASSUME Core, Orderly, Publish
  PROVE  IndexFits' /\ \A e \in indexer' : Fits(staged[e.tf][e.asset], e.ranges)
<1>1. /\ pc = "resample" /\ todo = {} /\ loaded' = loaded /\ runs' = runs + 1
      /\ indexer' = indexer \cup ItemsOf(runs', staged)
  BY DEF Publish
<1>2. ASSUME NEW e \in indexer
      PROVE  Fits(staged[e.tf][e.asset], e.ranges)
  <2>1. e.tf \in Timeframes
    BY DEF Core, TypeOK
  <2>2. e.asset \in DOMAIN staged[e.tf]
    BY <1>1, <2>1 DEF Orderly, StagedFits, Timeframes
  <2> QED BY <1>1, <2>1, <2>2 DEF Orderly, StagedFits
<1>3. ASSUME NEW e \in ItemsOf(runs', staged)
      PROVE  /\ Fits(staged[e.tf][e.asset], e.ranges)
             /\ e.asset \in DOMAIN loaded
             /\ Fits(View(e.tf, loaded[e.asset]), e.ranges)
             /\ e.tf = "resampled" => e.asset \notin Contracts
  <2>1. DOMAIN staged = Timeframes /\ \A tf \in Timeframes : FrameMap(staged[tf])
    BY DEF Core, TypeOK
  <2>2. PICK tf \in Timeframes : \E a \in DOMAIN staged[tf] :
           e = Item(runs', staged, tf, a) /\ staged[tf][a] \in Frames
    BY <1>3, <2>1, ItemTypes
  <2>3. PICK a \in DOMAIN staged[tf] :
           e = Item(runs', staged, tf, a) /\ staged[tf][a] \in Frames
    BY <2>2
  <2>4. e.tf = tf /\ e.asset = a /\ e.ranges = Ranges(staged[tf][a])
    BY <2>3 DEF Item
  <2>5. /\ a \in DOMAIN loaded /\ Ordered(staged[tf][a])
        /\ Begins(View(tf, loaded[a]), staged[tf][a])
        /\ tf = "resampled" => a \notin Contracts
    BY <1>1, <2>2, <2>3 DEF Orderly, StagedFits
  <2>6. Fits(staged[tf][a], Ranges(staged[tf][a]))
    BY <2>3, <2>5, RangesFit
  <2>7. Fits(View(tf, loaded[a]), Ranges(staged[tf][a]))
    BY <2>5, <2>6 DEF Fits, Begins
  <2> QED BY <2>4, <2>5, <2>6, <2>7
<1>4. ASSUME NEW e \in indexer'
      PROVE  /\ e.asset \in DOMAIN loaded
             /\ Fits(View(e.tf, loaded[e.asset]), e.ranges)
             /\ e.tf = "resampled" => e.asset \notin Contracts
  BY <1>1, <1>3 DEF Orderly, IndexFits
<1>5. IndexFits'
  BY <1>1, <1>4 DEF IndexFits, View, BuildResampled, Bucket
<1> QED
  BY <1>1, <1>2, <1>3, <1>5

\* The second stage leaves the contracts out.
NoContracts == pc = "resample" => todo \cap Contracts = {}

OrderInv == OneHandler /\ NoContracts /\ (Calm => Orderly)

LEMMA NextOrder ==
  ASSUME Chronological, Core, OrderInv, [Next]_vars
  PROVE  OrderInv'
<1> USE DEF feedVars, published
<1>0. /\ OneHandler' /\ Core' /\ refreshes \in Nat /\ refreshes' \in Nat
  BY OneHandlerKept, NextCore DEF OrderInv, Core, TypeOK
<1>1. NoContracts'
  <2>1. CASE \E a \in Assets : CopyBaseData(a) \/ Resample(a)
    BY <2>1 DEF CopyBaseData, Resample, OrderInv, NoContracts, ToResample
  <2>2. CASE CopyNothing
    BY <2>2 DEF CopyNothing, NoContracts
  <2>3. CASE \E f \in Feeds : \E a \in Assets : StoreBars(f, a)
    BY <2>3 DEF StoreBars, OrderInv, NoContracts
  <2>4. CASE pc' # "resample" \/ UNCHANGED <<pc, todo>>
    BY <2>4 DEF OrderInv, NoContracts
  <2>5. CASE \/ RunPipeline \/ LoadData \/ LoadDataThrows \/ RefreshPipeline \/ Publish
             \/ AppendFuturesContinuations \/ TransformThrows
             \/ \E f \in Feeds : NewMessage(f) \/ TakeBatch(f) \/ DropBatch(f) \/ HandlerThrows(f)
             \/ \E f \in Feeds : \E a \in Assets : RaceCrashes(f, a)
             \/ UNCHANGED vars
    BY <2>4, <2>5 DEF RunPipeline, LoadData, LoadDataThrows, RefreshPipeline, Publish,
       AppendFuturesContinuations, TransformThrows, NewMessage, TakeBatch, DropBatch,
       HandlerThrows, RaceCrashes, vars
  <2> QED BY <2>1, <2>2, <2>3, <2>5 DEF Next
<1>2. ASSUME Calm' PROVE Orderly'
  <2>1. Calm
    <3>1. refreshes' \in {refreshes, refreshes + 1}
      BY Histories
    <3>2. reloaded' = (reloaded \/ loaded # Empty) \/ reloaded' = reloaded
      BY Histories
    <3>3. refreshes <= 1
      BY <1>0, <1>2, <3>1 DEF Calm
    <3>4. ~reloaded
      BY <1>2, <3>2 DEF Calm
    <3> QED BY <3>3, <3>4 DEF Calm
  <2>2. Orderly /\ refreshes <= 1 /\ OneHandler /\ NoContracts
    BY <2>1 DEF OrderInv, Calm
  <2>3. CASE LoadData
    <3>1. loaded = Empty /\ loaded' = Stored /\ pc' = "futures" /\ indexer' = indexer
      BY <1>2, <2>3 DEF LoadData, Calm
    <3>2. indexer = {}
      BY <2>2, <3>1, NoData DEF Orderly, IndexFits
    <3>3. ASSUME NEW f \in Feeds, NEW i \in DOMAIN Stream[f], NEW j \in DOMAIN Stream[f][i],
                 NEW a \in DOMAIN Stored, a = Stream[f][i][j].asset, NEW t \in Range(Stored[a])
          PROVE  t <= Stream[f][i][j].time
      BY <3>3 DEF Chronological
    <3>4. LoadedInOrder'
      BY <3>1, <3>3, ContinuationAssumption DEF LoadedInOrder, Chronological
    <3> QED BY <3>1, <3>2, <3>4 DEF Orderly, IndexFits, StagedFits
  <2>4. CASE AppendFuturesContinuations
    <3>1. /\ \A b \in DOMAIN loaded : b \in DOMAIN loaded' /\ Begins(loaded'[b], loaded[b])
          /\ LoadedInOrder'
      BY <2>2, <2>4, ContinuedInOrder DEF Orderly
    <3>2. /\ indexer' = indexer /\ pc' = "base" /\ todo' = DOMAIN loaded' /\ staged' = NoFrames
      BY <2>4 DEF AppendFuturesContinuations
    <3>3. IndexFits'
      BY <1>0, <2>2, <3>1, <3>2, GrownFits DEF Orderly
    <3>4. \A tf \in Timeframes : DOMAIN staged'[tf] = {}
      BY <3>2, NoData
    <3>5. \A e \in indexer' : e.asset \in todo'
      BY <3>2, <3>3 DEF IndexFits
    <3>6. StagedFits'
      BY <3>2, <3>4, <3>5 DEF StagedFits
    <3> QED BY <3>1, <3>3, <3>6 DEF Orderly
  <2>5. ASSUME NEW f \in Feeds, NEW a \in Assets, StoreBars(f, a) PROVE Orderly'
    <3>1. /\ \A b \in DOMAIN loaded : b \in DOMAIN loaded' /\ Begins(loaded'[b], loaded[b])
          /\ LoadedInOrder'
      BY <2>2, <2>5, StoredInOrder DEF Orderly
    <3>2. /\ indexer' = indexer /\ pc' = pc /\ todo \subseteq todo' /\ staged' = staged
      BY <2>5 DEF StoreBars
    <3>3. /\ IndexFits'
          /\ \A tf \in Timeframes : \A b \in DOMAIN loaded :
               Begins(View(tf, loaded'[b]), View(tf, loaded[b]))
      BY <1>0, <2>2, <3>1, <3>2, GrownFits DEF Orderly
    <3>4. ASSUME pc \in {"base", "resample"}, NEW tf \in Timeframes, NEW b \in DOMAIN staged[tf]
          PROVE  b \in DOMAIN loaded' /\ Begins(View(tf, loaded'[b]), staged[tf][b])
      <4>1. b \in DOMAIN loaded /\ Begins(View(tf, loaded[b]), staged[tf][b])
        BY <2>2, <3>4 DEF Orderly, StagedFits
      <4> QED BY <3>1, <3>3, <4>1 DEF Begins
    <3>5. StagedFits'
      BY <2>2, <3>2, <3>4 DEF Orderly, StagedFits, View, BuildResampled, Bucket
    <3> QED BY <3>1, <3>3, <3>5 DEF Orderly
  <2>6. CASE loaded' = loaded
    <3>1. LoadedInOrder'
      BY <2>2, <2>6, OrderKept DEF Orderly
    <3>2. CASE Publish
      <4>1. pc' = "idle"
        BY <3>2 DEF Publish
      <4> QED BY <2>2, <3>1, <3>2, <4>1, PublishFits DEF Orderly, StagedFits
    <3>3. CASE ~Publish
      <4>1. indexer' = indexer
        BY <3>3, Histories
      <4>2. IndexFits'
        BY <2>2, <2>6, <4>1 DEF Orderly, IndexFits, View, BuildResampled, Bucket
      <4>3. CASE \E a \in Assets : CopyBaseData(a)
        BY <2>2, <3>1, <4>2, <4>3, CopyFits DEF Orderly
      <4>4. CASE \E a \in Assets : Resample(a)
        BY <2>2, <3>1, <4>2, <4>4, ResampleFits DEF Orderly, NoContracts, Resample
      <4>5. CASE CopyNothing
        <5>1. pc = "base" /\ pc' = "resample" /\ todo = {} /\ staged' = staged
          BY <4>5 DEF CopyNothing
        <5>2. indexer = {}
          BY <2>2, <5>1 DEF Orderly, StagedFits
        <5>3. StagedFits'
          BY <2>2, <2>6, <4>1, <5>1, <5>2 DEF Orderly, StagedFits, View, BuildResampled, Bucket
        <5> QED BY <3>1, <4>2, <5>3 DEF Orderly
      <4>6. CASE pc' \notin {"base", "resample"} \/ UNCHANGED <<pc, todo, staged>>
        BY <2>2, <2>6, <3>1, <4>1, <4>2, <4>6 DEF Orderly, StagedFits, View, BuildResampled, Bucket
      <4>7. CASE \/ RunPipeline \/ LoadData \/ LoadDataThrows \/ RefreshPipeline
                 \/ AppendFuturesContinuations \/ TransformThrows
                 \/ \E f \in Feeds : \/ NewMessage(f) \/ TakeBatch(f) \/ DropBatch(f)
                                    \/ HandlerThrows(f)
                 \/ \E f \in Feeds : \E a \in Assets : RaceCrashes(f, a)
                 \/ UNCHANGED vars
        <5>1. CASE LoadData \/ AppendFuturesContinuations
          BY <2>3, <2>4, <5>1
        <5>2. CASE ~(LoadData \/ AppendFuturesContinuations)
          BY <4>6, <4>7, <5>2 DEF RunPipeline, LoadDataThrows, RefreshPipeline, TransformThrows,
             NewMessage, TakeBatch, DropBatch, HandlerThrows, RaceCrashes, vars
        <5> QED BY <5>1, <5>2
      <4>8. CASE \E f \in Feeds : \E a \in Assets : StoreBars(f, a)
        BY <2>5, <4>8
      <4> QED BY <3>3, <4>3, <4>4, <4>5, <4>7, <4>8 DEF Next
    <3> QED BY <3>2, <3>3
  <2>7. CASE \E f \in Feeds : \E a \in Assets : StoreBars(f, a)
    BY <2>5, <2>7
  <2>8. CASE loaded' # loaded
    <3>1. LoadData \/ AppendFuturesContinuations \/ \E f \in Feeds : \E a \in Assets : StoreBars(f, a)
      BY <2>8 DEF Next, vars, RunPipeline, LoadDataThrows, RefreshPipeline, Publish,
         CopyNothing, TransformThrows, CopyBaseData, Resample,
         NewMessage, TakeBatch, DropBatch, HandlerThrows, RaceCrashes
    <3> QED BY <2>3, <2>4, <2>7, <3>1
  <2> QED BY <2>6, <2>8
<1> QED
  BY <1>0, <1>1, <1>2 DEF OrderInv

LEMMA NextForeign ==
  ASSUME Chronological, Core, OrderInv, NoForeignRows, [Next]_vars
  PROVE  NoForeignRows'
<1> USE DEF feedVars, published
<1>1. CASE Publish
  <2>1. transformed' = staged /\ Calm' = Calm
    BY <1>1 DEF Publish, Calm
  <2>2. ASSUME Calm, NEW e \in indexer', NEW t \in DOMAIN e.ranges,
               NEW i \in e.ranges[t][1]..e.ranges[t][2]
        PROVE  transformed'[e.tf][e.asset][i] = t
    <3>1. Fits(staged[e.tf][e.asset], e.ranges)
      BY <1>1, <2>2, PublishFits DEF OrderInv
    <3> QED BY <2>1, <2>2, <3>1 DEF Fits
  <2> QED BY <2>1, <2>2 DEF NoForeignRows, Calm
<1>2. CASE ~Publish
  <2>1. UNCHANGED published
    BY <1>2, Histories
  <2>2. refreshes \in Nat /\ refreshes' \in {refreshes, refreshes + 1}
    BY Histories DEF Core, TypeOK
  <2>3. reloaded' = (reloaded \/ loaded # Empty) \/ reloaded' = reloaded
    BY Histories
  <2>4. refreshes' <= 1 => refreshes <= 1
    BY <2>2
  <2> QED BY <2>1, <2>3, <2>4 DEF NoForeignRows
<1> QED
  BY <1>1, <1>2

\* On data in the order of time, no entry of the index, however old, leads to a row
\* of another timestamp, as long as every batch is stored once and no load replaces
\* data: what a run publishes begins with what the runs before it have published.
THEOREM RowsAreTheirOwn == Chronological => (Spec => []NoForeignRows)
<1> SUFFICES ASSUME Chronological PROVE Spec => []NoForeignRows
  OBVIOUS
<1>1. Init => OrderInv /\ NoForeignRows
  <2> SUFFICES ASSUME Init PROVE OrderInv /\ NoForeignRows
    OBVIOUS
  <2>1. indexer = {} /\ pc = "idle" /\ DOMAIN loaded = {}
    BY NoData DEF Init
  <2> QED
    BY <2>1, OneHandlerKept DEF OrderInv, NoForeignRows, NoContracts, Orderly, LoadedInOrder,
       IndexFits, StagedFits
<1>2. Core /\ OrderInv /\ [Next]_vars => OrderInv'
  BY NextOrder
<1>3. Core /\ OrderInv /\ NoForeignRows /\ [Next]_vars => NoForeignRows'
  BY NextForeign
<1> QED
  BY <1>1, <1>2, <1>3, InitCore, NextCore, PTL DEF Spec

=============================================================================
