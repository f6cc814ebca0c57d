----------------------------- MODULE Database ------------------------------
(***************************************************************************)
(* DatabaseImpl: the pipeline (load, futures continuations, resampling,    *)
(* transformation, indexes) on one thread, and on the event loop of the    *)
(* websockets the message handlers, which append new bars to               *)
(* m_loadedBarData.  The handlers hold m_loadedBarDataMutex, the pipeline  *)
(* does not: while it is at that map a store is a data race, and the       *)
(* program may crash.                                                      *)
(*                                                                         *)
(* A frame is the sequence of the timestamps of its rows.  The loader, the *)
(* feeds and the transformation are external; the transformation may throw *)
(* and otherwise keeps the rows of a frame.                                *)
(***************************************************************************)
EXTENDS Integers, Sequences, FiniteSets, Functions, FiniteSetsExt, Listing

CONSTANTS
  Assets,
  Feeds,         \* the asset classes with a websocket manager
  MarketHours,   \* the feeds whose bars are dropped while the market is closed
  Continuation,  \* the continuation of every futures asset but a continuation
  Stored,        \* what the loader has loaded: a frame per asset
  Stream,        \* the batches every feed sends, each a sequence of bars
  BucketLength,  \* base timestamps per bar of the resampled timeframe
  MaxLoads,      \* bound on the calls of RunPipeline
  MaxRefreshes   \* bound on the calls of RefreshPipeline

Times == Nat \ {0}
Frames == Seq(Times)
Bars == [asset : Assets, time : Times]
Contracts == DOMAIN Continuation
Timeframes == {"base", "resampled"}

\* The maps from some of the assets to frames.
FrameMap(m) == DOMAIN m \subseteq Assets /\ m \in [DOMAIN m -> Frames]

ASSUME DatabaseAssumption ==
  /\ MarketHours \subseteq Feeds
  /\ Contracts \subseteq Assets /\ Continuation \in [Contracts -> Assets \ Contracts]
  /\ FrameMap(Stored)
  /\ Stream \in [Feeds -> Seq(Seq(Bars))]
  /\ BucketLength \in Nat \ {0}
  /\ MaxLoads \in Nat /\ MaxRefreshes \in Nat

\* The pipeline makes the continuations: nobody loads or sends them.
ASSUME ContinuationAssumption ==
  \A c \in Contracts :
    /\ Continuation[c] \notin DOMAIN Stored
    /\ \A f \in Feeds : \A i \in DOMAIN Stream[f] : \A j \in DOMAIN Stream[f][i] :
         Stream[f][i][j].asset # Continuation[c]

Ordered(frame) == \A i, j \in DOMAIN frame : i <= j => frame[i] <= frame[j]

\* Data as a market sends it: the bars of an asset come from one feed, in the order
\* of time and after those the loader has; a continuation is of one contract.
\* Nothing in the code insists on it.
Chronological ==
  /\ \A c, d \in Contracts : Continuation[c] = Continuation[d] => c = d
  /\ \A a \in DOMAIN Stored : Ordered(Stored[a])
  /\ \A f \in Feeds : \A i \in DOMAIN Stream[f] : \A j \in DOMAIN Stream[f][i] :
       LET bar == Stream[f][i][j]
       IN  /\ bar.asset \in DOMAIN Stored => \A t \in Range(Stored[bar.asset]) : t <= bar.time
           /\ \A g \in Feeds : \A k \in DOMAIN Stream[g] : \A l \in DOMAIN Stream[g][k] :
                Stream[g][k][l].asset = bar.asset =>
                  /\ g = f
                  /\ i < k \/ (i = k /\ j <= l) => bar.time <= Stream[g][k][l].time

VARIABLES
  pc,           \* where the pipeline is
  loads,        \* how often RunPipeline was called
  refreshes,    \* how often RefreshPipeline was called
  loaded,       \* m_loadedBarData
  todo,         \* the assets the stage has yet to come to
  staged,       \* the frames of the stages that are done, by timeframe
  runs,         \* how many pipelines have completed
  transformed,  \* m_transformedData
  indexer,      \* m_indexer, every item with the number of the run that made it
  tsIndex,      \* how often every item of m_indexer is in m_timestampIndex
  handlers,     \* how many handlers are connected to the signal of a feed
  sent,         \* how many batches a feed has sent
  delivery,     \* the handlers a batch has yet to be given to, and its assets
                \* the one that runs has yet to store
  taken,        \* history: the bars handlers have taken since the last load
  reloaded      \* history: a load has replaced data

vars == <<pc, loads, refreshes, loaded, todo, staged, runs, transformed, indexer,
          tsIndex, handlers, sent, delivery, taken, reloaded>>
feedVars == <<handlers, sent, delivery, taken, reloaded>>
published == <<runs, transformed, indexer, tsIndex>>

Empty == [a \in {} |-> <<>>]
NoFrames == [tf \in Timeframes |-> Empty]
Unlocked == {"load", "futures", "base", "resample"}

TypeOK ==
  /\ pc \in Unlocked \cup {"idle", "crashed"}
  /\ loads \in 0..MaxLoads /\ refreshes \in 0..MaxRefreshes
  /\ FrameMap(loaded)
  /\ todo \subseteq Assets
  /\ \A m \in {staged, transformed} :
       DOMAIN m = Timeframes /\ \A tf \in Timeframes : FrameMap(m[tf])
  /\ runs \in Nat
  /\ \A i \in indexer :
       /\ DOMAIN i = {"run", "tf", "asset", "ranges"}
       /\ i.run \in 1..runs /\ i.tf \in Timeframes /\ i.asset \in Assets
       /\ i.ranges \in [DOMAIN i.ranges -> Times \X Times]
  /\ tsIndex \in [indexer -> 1..runs]
  /\ handlers \in [Feeds -> 0..MaxRefreshes]
  /\ sent \in [Feeds -> Nat] /\ \A f \in Feeds : sent[f] <= Len(Stream[f])
  /\ delivery \in [Feeds -> [left : 0..MaxRefreshes, assets : SUBSET Assets]]
  /\ taken \subseteq Bars
  /\ reloaded \in BOOLEAN

Init ==
  /\ pc = "idle"
  /\ loads = 0
  /\ refreshes = 0
  /\ loaded = Empty
  /\ todo = {}
  /\ staged = NoFrames
  /\ runs = 0
  /\ transformed = NoFrames
  /\ indexer = {}
  /\ tsIndex = Empty
  /\ handlers = [f \in Feeds |-> 0]
  /\ sent = [f \in Feeds |-> 0]
  /\ delivery = [f \in Feeds |-> [left |-> 0, assets |-> {}]]
  /\ taken = {}
  /\ reloaded = FALSE

-----------------------------------------------------------------------------
(* The pipeline. *)

RunPipeline ==
  /\ pc = "idle"
  /\ loads < MaxLoads
  /\ pc' = "load"
  /\ loads' = loads + 1
  /\ UNCHANGED <<refreshes, loaded, todo, staged, published, feedVars>>

LoadData ==
  /\ pc = "load"
  /\ pc' = "futures"
  /\ loaded' = Stored
  /\ taken' = {}
  /\ reloaded' = (reloaded \/ loaded # Empty)
  /\ UNCHANGED <<loads, refreshes, todo, staged, published, handlers, sent, delivery>>

\* The loader's exception leaves RunPipeline before anything has changed.
LoadDataThrows ==
  /\ pc = "load"
  /\ pc' = "idle"
  /\ UNCHANGED <<loads, refreshes, loaded, todo, staged, published, feedVars>>

\* UpdateData connects one more handler to every feed.
RefreshPipeline ==
  /\ pc = "idle"
  /\ refreshes < MaxRefreshes
  /\ pc' = "futures"
  /\ refreshes' = refreshes + 1
  /\ handlers' = [f \in Feeds |-> handlers[f] + 1]
  /\ UNCHANGED <<loads, loaded, todo, staged, published, sent, delivery, taken, reloaded>>

\* FuturesContinuation::BuildBars has one row per timestamp (rows it may skip,
\* see Futures, aside).  From the second run on the continuation is in the map
\* too, as a futures contract of its own key; either of the two results may be
\* the one that stays, with the same rows.
BuildBars(frame) == Sorted(Range(frame))

WithContinuations(frames) ==
  LET built == {c \in Contracts \cap DOMAIN frames : frames[c] # <<>>}
      of(k) == CHOOSE c \in built : Continuation[c] = k
  IN  [a \in DOMAIN frames \cup {Continuation[c] : c \in built} |->
         IF \E c \in built : Continuation[c] = a THEN BuildBars(frames[of(a)])
         ELSE frames[a]]

AppendFuturesContinuations ==
  /\ pc = "futures"
  /\ pc' = "base"
  /\ loaded' = WithContinuations(loaded)
  /\ todo' = DOMAIN loaded'
  /\ staged' = NoFrames
  /\ UNCHANGED <<loads, refreshes, published, feedVars>>

\* Mutant: only the assets the loader has.
ToResampleOfLoader == (DOMAIN Stored \cap DOMAIN loaded) \ Contracts

\* The assets Resampler::Build finds in m_loadedBarData: contracts stay as they are.
ToResample == DOMAIN loaded \ Contracts

\* insert_or_assign.
Assigned(m, a, frame) == [b \in DOMAIN m \cup {a} |-> IF b = a THEN frame ELSE m[b]]

Stage(tf, a, frame) == staged' = [staged EXCEPT ![tf] = Assigned(@, a, frame)]

\* ResampleBarData copies the map for the base timeframe, asset by asset ...
CopyBaseData(a) ==
  /\ pc = "base"
  /\ a \in todo
  /\ Stage("base", a, loaded[a])
  /\ IF todo = {a} THEN pc' = "resample" /\ todo' = ToResample
     ELSE pc' = pc /\ todo' = todo \ {a}
  /\ UNCHANGED <<loads, refreshes, loaded, published, feedVars>>

\* ... an empty map at once ...
CopyNothing ==
  /\ pc = "base"
  /\ todo = {}
  /\ pc' = "resample"
  /\ UNCHANGED <<loads, refreshes, loaded, todo, staged, published, feedVars>>

\* The end of the bucket a bar falls into.
Bucket(t) == ((t + BucketLength - 1) \div BucketLength) * BucketLength

BuildResampled(frame) == Sorted({Bucket(t) : t \in Range(frame)})

\* ... and then reads it again to resample every asset.
Resample(a) ==
  /\ pc = "resample"
  /\ a \in todo
  /\ Stage("resampled", a, BuildResampled(loaded[a]))
  /\ todo' = todo \ {a}
  /\ UNCHANGED <<pc, loads, refreshes, loaded, published, feedVars>>

RowsAt(frame, t) == {i \in DOMAIN frame : frame[i] = t}

\* Mutant: the end of a range is not moved.
FirstRows(frame) ==
  [t \in Range(frame) |-> <<Min(RowsAt(frame, t)), Min(RowsAt(frame, t))>>]

\* GetTimestampIndexMapping: the first and the last row of every timestamp.
Ranges(frame) ==
  [t \in Range(frame) |-> <<Min(RowsAt(frame, t)), Max(RowsAt(frame, t))>>]

Item(run, data, tf, a) ==
  [run |-> run, tf |-> tf, asset |-> a, ranges |-> Ranges(data[tf][a])]

ItemsOf(run, data) ==
  UNION {{Item(run, data, tf, a) : a \in {b \in DOMAIN data[tf] : data[tf][b] # <<>>}} :
           tf \in Timeframes}

\* TransformBarData and the rest of CompletePipeline.  m_indexer and
\* m_timestampIndex are appended to, and every item goes into the latter again.
Publish ==
  /\ pc = "resample"
  /\ todo = {}
  /\ pc' = "idle"
  /\ runs' = runs + 1
  /\ transformed' = staged
  /\ staged' = NoFrames
  /\ indexer' = indexer \cup ItemsOf(runs', transformed')
  /\ tsIndex' = [i \in indexer' |-> IF i \in indexer THEN tsIndex[i] + 1 ELSE 1]
  /\ UNCHANGED <<loads, refreshes, loaded, todo, feedVars>>

\* The exception of a transform leaves CompletePipeline.
TransformThrows ==
  /\ pc = "resample"
  /\ todo = {}
  /\ pc' = "idle"
  /\ staged' = NoFrames
  /\ UNCHANGED <<loads, refreshes, loaded, todo, published, feedVars>>

-----------------------------------------------------------------------------
(* The message handlers. *)

Quiet(f) == delivery[f] = [left |-> 0, assets |-> {}]
BatchOf(f) == Stream[f][sent[f]]
BarsOf(f, a) ==
  LET rows == Sorted({i \in DOMAIN BatchOf(f) : BatchOf(f)[i].asset = a})
  IN  [k \in DOMAIN rows |-> BatchOf(f)[rows[k]]]

\* All feeds queue their messages in one loop.  The signal calls the handlers
\* that are connected at this time one by one.
NewMessage(f) ==
  /\ pc # "crashed"
  /\ \A g \in Feeds : Quiet(g)
  /\ sent[f] < Len(Stream[f])
  /\ sent' = [sent EXCEPT ![f] = @ + 1]
  /\ delivery' = [delivery EXCEPT ![f].left = handlers[f]]
  /\ UNCHANGED <<pc, loads, refreshes, loaded, todo, staged, published, handlers, taken, reloaded>>

\* A handler groups the bars by asset.
TakeBatch(f) ==
  /\ pc # "crashed"
  /\ delivery[f].left > 0 /\ delivery[f].assets = {}
  /\ delivery' = [delivery EXCEPT ![f].left = @ - 1,
                                  ![f].assets = {bar.asset : bar \in Range(BatchOf(f))}]
  /\ taken' = taken \cup Range(BatchOf(f))
  /\ UNCHANGED <<pc, loads, refreshes, loaded, todo, staged, published, handlers, sent, reloaded>>

\* A bar outside of the market's hours makes it return: the whole batch is dropped.
DropBatch(f) ==
  /\ pc # "crashed"
  /\ f \in MarketHours
  /\ delivery[f].left > 0 /\ delivery[f].assets = {}
  /\ delivery' = [delivery EXCEPT ![f].left = @ - 1]
  /\ UNCHANGED <<pc, loads, refreshes, loaded, todo, staged, published, handlers, sent, taken,
                 reloaded>>

\* A symbol MakeAsset does not know: the exception leaves the signal, and the
\* other handlers are not called.
HandlerThrows(f) ==
  /\ pc # "crashed"
  /\ delivery[f].left > 0 /\ delivery[f].assets = {}
  /\ delivery' = [delivery EXCEPT ![f].left = 0]
  /\ UNCHANGED <<pc, loads, refreshes, loaded, todo, staged, published, handlers, sent, taken,
                 reloaded>>

\* Mutant: the new bars take the place of the old.
ReplaceBars(f, a) == [i \in DOMAIN BarsOf(f, a) |-> BarsOf(f, a)[i].time]

\* Mutant: the new bars come first.
BarsInFront(f, a) ==
  [i \in DOMAIN BarsOf(f, a) |-> BarsOf(f, a)[i].time]
    \o (IF a \in DOMAIN loaded THEN loaded[a] ELSE <<>>)

Appended(f, a) ==
  (IF a \in DOMAIN loaded THEN loaded[a] ELSE <<>>)
    \o [i \in DOMAIN BarsOf(f, a) |-> BarsOf(f, a)[i].time]

\* One critical section.  A copy of the map that is under way may come to an
\* asset that is inserted, or not.
StoreBars(f, a) ==
  /\ pc # "crashed"
  /\ a \in delivery[f].assets
  /\ delivery' = [delivery EXCEPT ![f].assets = @ \ {a}]
  /\ loaded' = Assigned(loaded, a, Appended(f, a))
  /\ \/ todo' = todo
     \/ pc = "base" /\ a \notin DOMAIN loaded /\ todo' = todo \cup {a}
  /\ UNCHANGED <<pc, loads, refreshes, staged, published, handlers, sent, taken,
                 reloaded>>

RaceCrashes(f, a) ==
  /\ pc \in Unlocked
  /\ a \in delivery[f].assets
  /\ pc' = "crashed"
  /\ UNCHANGED <<loads, refreshes, loaded, todo, staged, published, feedVars>>

-----------------------------------------------------------------------------

Next ==
  \/ RunPipeline
  \/ LoadData
  \/ LoadDataThrows
  \/ RefreshPipeline
  \/ AppendFuturesContinuations
  \/ \E a \in Assets : CopyBaseData(a) \/ Resample(a)
  \/ CopyNothing
  \/ Publish
  \/ TransformThrows
  \/ \E f \in Feeds :
       \/ NewMessage(f)
       \/ TakeBatch(f)
       \/ DropBatch(f)
       \/ HandlerThrows(f)
       \/ \E a \in Assets : StoreBars(f, a) \/ RaceCrashes(f, a)

Spec == Init /\ [][Next]_vars

-----------------------------------------------------------------------------
(* Properties. *)

\* The entries of HandleData(t), and the one of row i of a frame among them.
EntriesAt(t) == {e \in indexer : t \in DOMAIN e.ranges}

EntriesOf(tf, a, i) ==
  LET t == transformed[tf][a][i]
  IN  {e \in EntriesAt(t) : /\ e.tf = tf /\ e.asset = a
                            /\ e.ranges[t][1] <= i /\ i <= e.ranges[t][2]}

\* An entry of an earlier run whose asset a load has taken away: at() throws.
Dangling(e) == e.asset \notin DOMAIN transformed[e.tf]

\* HandleData(t) comes to entry e: the entries of earlier runs are before it, those
\* of its own run are in any order, and the first that throws ends the call.
Reached(e, t) == \A d \in EntriesAt(t) : d.run <= e.run => ~Dangling(d)

\* HandleData hands over every row of the transformed data, also after a refresh
\* that threw between two that did not; and just once as long as there was one run.
\* After a load that replaces data the row still has its entry, but HandleData may
\* throw before it comes to it.
EveryRowIsHandled ==
  \A tf \in Timeframes : \A a \in DOMAIN transformed[tf] :
    \A i \in DOMAIN transformed[tf][a] :
      LET t == transformed[tf][a][i]
      IN  /\ \E e \in EntriesOf(tf, a, i) : ~reloaded => Reached(e, t)
          /\ runs = 1 => \E e \in EntriesOf(tf, a, i) :
                            EntriesOf(tf, a, i) = {e} /\ tsIndex[e] = 1 /\ Reached(e, t)

\* Every row is handed over whatever was loaded.  Refuted: the second load does not
\* bring back a stock a handler has stored, whose entries stay in m_timestampIndex,
\* and HandleData throws at the bars the crypto feed has sent for that time since.
HandledAfterReload ==
  \A tf \in Timeframes : \A a \in DOMAIN transformed[tf] :
    \A i \in DOMAIN transformed[tf][a] :
      \E e \in EntriesOf(tf, a, i) : Reached(e, transformed[tf][a][i])

\* As long as no bar is appended twice and no load replaces data, no entry,
\* those of earlier runs among them, hands over a row of another timestamp.
NoForeignRows ==
  refreshes <= 1 /\ ~reloaded =>
    \A e \in indexer : \A t \in DOMAIN e.ranges :
      \A i \in e.ranges[t][1]..e.ranges[t][2] : transformed[e.tf][e.asset][i] = t

\* The timeframes of one run are copied at different times, but what the base
\* timeframe shows is in the resampled one.
ResampledIsNotBehind ==
  \A a \in DOMAIN transformed["base"] \ Contracts :
    /\ a \in DOMAIN transformed["resampled"]
    /\ \A t \in Range(transformed["base"][a]) :
         Bucket(t) \in Range(transformed["resampled"][a])

\* A bar a handler has taken stays in the loaded data once it is stored, whatever
\* the pipeline does, until the next load.
NothingLost ==
  \A bar \in taken :
    \/ bar.asset \in DOMAIN loaded /\ bar.time \in Range(loaded[bar.asset])
    \/ \E f \in Feeds : bar.asset \in delivery[f].assets /\ bar \in Range(BatchOf(f))

\* "The update should have appended the new data": a bar is in the loaded data as
\* often as the loader and the feed have sent it, which here is once.  Refuted: after
\* the second refresh two handlers append a batch.
AppendedOnce ==
  \A a \in DOMAIN loaded \ Contracts : IsInjective(loaded[a])

=============================================================================
