# EpochMetadata in TLA+

EpochMetadata compiles trading strategies, written as small Python scripts, to
graphs of transforms, and runs those graphs over market data that a database
pipeline loads, extends with futures continuations, resamples and keeps up to
date from websockets; it lays out charts of what they computed. This directory
models the parts of it where order, concurrency, failure or tables kept by hand
decide what comes out, checks them with TLC on small instances, and proves what
matters most about eight of them with TLAPS, for instances of every size.

Paths below are relative to `src/`. `PROJECT.json` maps every definition to
the lines it stands for.

## The system

| Component | State | Operations | Where it is hard |
|---|---|---|---|
| **Compiler front end**: `ast_visitor`, `expression_compiler`, `node_builder`, `constructor_parser`, `constant_folder`, `type_checker`, `option_validator` | `CompilationContext`: the list of nodes, used ids, variable bindings | visit a statement, compile an expression, create and wire nodes, insert casts, check options | generated ids against user ids; rebinding; casts between types |
| **Compiler passes**: `ast_compiler`, `cse_optimizer`, `timeframe_resolver` | the list of nodes, `m_resolved` timeframes | `verifySessionDependencies`, `Optimize`, `removeOrphanNodes`, `TopologicalSort`, `resolveTimeframes` | unordered maps decide the order; ids are rewritten while they are used; two passes over timeframes |
| **Runtime**: `orchestrator`, `execution_node`, `intermediate_storage`, `transform_manager` | the flow graph; `m_baseData`, `m_cache`, `m_scalarCache`, `m_assetIDs` (kept between runs); the error log | construct, `ExecutePipeline`, node bodies, `GatherInputs`, `StoreTransformOutput`, `BuildFinalOutput` | bodies run in parallel without knowing each other, assets in parallel within a body; a body that throws; storage that outlives a run |
| **Database**: `database_impl`, `resample` | `m_loadedBarData`, `m_transformedData`, `m_indexer`, `m_timestampIndex`, the handlers on the signals | `RunPipeline`, `RefreshPipeline` (load, continuations, resample, transform, index), the message handlers, `HandleData` | the pipeline reads without the mutex the handlers hold; a stage throws; state that is appended to |
| **Websocket manager**: `alpaca_websocket_manager` | connection state, queue of subscriptions, reconnect attempts, the close request | `Connect`, `Disconnect`, `Subscribe`, control messages, `onClosed`, dispatch of bars | calls of the user's thread against callbacks of the event loop; reconnects; a full queue |
| **Futures continuations**: `continuations`, `adjustments/`, `roll_method/` | front contract, captured bars, roll indexes | `BuildBars`, the roll methods, `AdjustContracts` | gaps, several rolls at one row, off by one at the ranges |
| **Data factory**: `data/factory`, `introspection`, `data_category_mapper`, `asset_id_container` | the option it makes | choose assets, continuations, conversions, categories and timeframes for a strategy | must agree with what the runtime looks up |
| **Exchange calendars** | none | a table of an external library's calendars | nothing |
| **Core values**: timeframes, options, symbols | none | order, parse, print | the order of timeframes |
| **Strategy configuration, start-up**: `strategy/registration`, `transforms/init`, `components/registration` | registries of metadata, factories, algorithms, strategy templates | `InitializeTransforms`: register metadata, decode and compile algorithms, number their ids, register strategies, then factories | the order of the steps; ids that occur twice; a source that does not compile |
| **Transform metadata**: `transforms/metadata`, `tulip_*`, `calendar_effects`, ..., `files/transforms.yaml` | the catalogue | make the rows of some 360 types | three tables kept by hand must agree on ids and outputs |
| **Transform components** | none or local | column functions | index arithmetic of the market structure algorithms |
| **Reports, event markers** | a dashboard per report, shared by all assets; the orchestrator's caches | fill, merge, return | a mutable dashboard written by parallel bodies; caches that outlive a run |
| **Chart metadata**: `chart_metadata_provider`, `axis_manager`, `series_configuration_builder`, `plot_kinds/` | a pane for each timeframe: its series, axes, panel names, sessions; the index of the series an output is drawn as | add a transform: axis, series, links | inputs in the order of an unordered map; a builder that throws; an index used in another pane |

How they interact:

- The compiler hands its sorted list of nodes to a `TransformManager`, which
  makes one transform configuration per node; the orchestrator's constructor
  walks that list and resolves every input handle to a node it has already
  registered. So the order the topological sort leaves is the order the
  constructor needs. `TransformGraph!DependencyOrder` is what a list must be, for
  the constructor to accept it (`AcceptedOrders`), and what a compiled list is
  (`RuntimeTakesIt`).
- The database's pipeline calls `ExecutePipeline` of the orchestrator in its
  transform stage. An exception ends the refresh.
- The websocket manager parses a message on the event loop and raises a signal;
  the database's handlers run in it and append to `m_loadedBarData`, the map the
  pipeline copies from on another thread.
- At start-up the metadata comes first, because decoding an algorithm compiles it
  against the metadata; the factories come last. A compiled node becomes a
  transform by its factory and a series by the builder of its plot kind, both
  found by the id of its type.
- The sinks of a graph (reports, event markers) are read by the orchestrator
  after a run and merged into its caches.
- The factory chooses, from the compiled script and the assets of the strategy,
  what the database loads, continues and resamples; the storage later looks a
  source's columns up by the node's timeframe and the asset. It wires no
  websocket manager (`CreateWebSocketManager` returns an empty map at this
  commit): the handlers of the database are there and nothing raises them.

## What makes each component correct

- *Runtime*: a node's body runs after its producers have stored for every asset;
  a run reads and returns nothing of an earlier run; it returns only when every
  transform has run, and fails only with a cause; it always ends; as a whole it
  is a function of the graph and the data.
- *Front end*: the graph computes what the script says, whatever was pushed,
  cast and looked up by id in between; it is closed under its inputs, and the
  types fit; names are assigned once and before they are read; a report finds
  the columns it shows among its inputs.
- *Passes*: what a report, an event marker or an executor computes does not
  change; the result is a list the constructor accepts; nothing remains that no
  sink needs; timeframes are the ones the script gives; compilation fails only
  for a missing sink or a missing timeframe.
- *Database*: the index hands over every row exactly once and none that is not
  there; the resampled frames are not behind the base frames; no bar that was
  delivered is lost or stored twice.
- *Continuations*: the roll indexes are the changes of contract, the ranges
  between them partition the rows, and the adjusted series is the captured one
  plus the gaps at the rolls after it.
- *Websocket manager*: every subscription is sent once, and sent while the
  connection streams; a connection that is lost is dialled again unless somebody
  asked for its end.
- *Storage locks*: a call holds the locks of the fields it uses, and bodies never
  wait for each other in a circle, though calls take the locks in different orders.
- *Reports*: a run that returns is found in the report of every asset.
- *Price actions*: swings alternate and lose no extreme; breaks, blocks, pools and
  pullbacks refer to the swings they are read from; what a column that does not
  look ahead said of a past bar stays.
- *Data factory*: what the runtime will look up has been loaded, resampled or
  continued.
- *Start-up*: no algorithm and no strategy is lost; what compiles can be built
  and drawn.
- *Charts*: axes tile a pane; series share an axis only if they show the same indicator; an
  overlay is on the axis of what it is drawn over.

`PROJECT.json` lists the hazards, each at its line, with the properties that
would catch it.

## The modules

| Module | Models |
|---|---|
| `TransformGraph` | the compiled script as the runtime sees it: nodes, inputs, categories, timeframes, base data, and the lists of nodes it can be built from |
| `DataFlow` | the orchestrator, the execution nodes and the storage |
| `Evaluation` | what `ExecutePipeline` promises: the abstract specification `DataFlow` implements |
| `DataFlowProofs` | the theorems about `DataFlow`, that it implements `Evaluation` among them |
| `FrontEnd` | the compiler's front end: constant folder, AST visitor, node builder, expression compiler, constructor parser, type checker, options |
| `FrontEndMeaning` | what a script means, as terms, and the properties of `FrontEnd` |
| `GraphPasses` | the compiler's passes |
| `Listing` | the list of a set of numbers in their order, which the passes take positions from |
| `Futures` | `FuturesContinuation::BuildBars` and `AdjustContracts` |
| `Database` | the pipeline, the handlers and the indexes of `DatabaseImpl` |
| `WebSocketManager` | the connection to a feed: callers' threads, the event loop, the network |
| `StorageLocks` | the mutexes of the storage, taken one by one |
| `Reports` | bodies side by side over `StorageLocks`, the shared dashboards and the caches |
| `GraphPassesProofs`, `FuturesProofs`, `DatabaseProofs`, `WebSocketManagerProofs`, `ReportsProofs`, `CatalogueProofs` | the theorems about the module they are named after; `ReportsProofs` has those about the locks, `CatalogueProofs` those about `StartUp`, `DataFactory` and `ChartMetadata` |
| `NumberSets` | facts about finite sets of numbers that the proofs share |
| `PriceAction` | the price action transforms over a growing frame |
| `TransformMetadata`, `TulipMetadata` | the catalogue: every type with its plot kind, inputs and outputs |
| `PlotKinds` | the builders of the plot kinds: what they require, layer, own axis |
| `ChartMetadata` | panes, axes, series |
| `StartUp` | `InitializeTransforms` and the registries |
| `DataFactory` | from a strategy to the `DataModuleOption`, and the frames that option yields |
| `Catalogue` | `StartUp`, one strategy, `DataFactory` and `ChartMetadata`, from the start of the program to the chart |
| `MC...` | instances for TLC: graphs, scripts, bars, feeds, scenarios |

### DataFlow

State: `order` and `registered` (the constructor's position in the list), `feed`
and `base` (`m_baseData`), `cache` and `scalarCache` (`m_cache`,
`m_scalarCache`; a column carries the number of the run that stored it, which
the code does not have and only the properties read), `node` and `awaited` (the
flow graph: what a `continue_node` still waits for), `step` and `gathered` (where
a body is with each asset, and what it has read), `log` (the errors), `phase` and
`output`.

Actions: `RegisterTransform` and `Constructed` are the constructor;
`ExecutePipeline` resets the log, takes the base data and puts a message to the
source nodes; `FireNode` and `FinishNode` are the flow graph; `ValidateInputs...`,
`SkipIntraday`, `StoreEmpty`, `TransformAsset`, `TransformThrows`, `StoreResult`
are a body's work on one asset in `ApplyDefaultTransform` and
`GatherCrossInput`, `CrossTransform`, `CrossAbandon`, `CrossThrows`,
`DistributeOutput` the body of a cross-section; `BuildFinalOutput` and
`PipelineFailed` end the run when nothing moves any more.

A critical section of the storage is one action, because the code holds its
locks from the first read to the last write of each of them. `TransformData`
touches nothing shared and is taken with the reads. Several outputs of one
transform are one, since they are always stored and read together.

A sink has no outputs, so nothing can name it as an input: the constructor finds
no handle and throws (`KnownHandles`, `DependencyOrder`).

`Evaluation` says what comes out: a state machine with one step from the data
to the columns `Eval` computes by following the graph. `Implements` is the
refinement: the phases map to phases, the columns of the last successful run to
its output.

### FrontEnd

State: `script`, `constants` (the folder's `constant_table_`), `context` (the
`CompilationContext`, with whether an exception is on its way out), the
`position` of `VisitModule` and the `outcome`; `backward` is the order in which
an `unordered_map` hands over two keyword arguments. One action per kind of
statement: `ConstructorToName`, `ConstructorToTuple`, `ValueToName`, `SinkNode`,
`Unsupported`. A statement's expressions are compiled by the operators named as
the methods of the code (`VisitBinOp`, `VisitSubscript`, ...), which take a
context and return one with a handle. Strings are tuples, so `add_0` as a
generated id is `<<"add", 0>>`. The registry is the constant `Component`.

`FrontEndMeaning` gives every expression a term (`Denote`) that no context and
no id takes part in, reads the graph back as terms (`TreeOf`), skipping the casts,
and compares (`MeaningKept`). Both sides take an option's default and a literal's
node from the same operators, so that property tells wiring, binding and sharing
apart but not the values of defaults.

What the code accepts, the model does too, and the properties name it:

- A variable may have the name of a generated id, and `_` may name several
  constructors' nodes; then two nodes have one id (`IdsMayCollide`).
- A generated id may be read as a variable, `number_0` (`ReadsGenerated`).
- An attribute of an expression, an input of a node used as its output, and
  `None`, whose handle is `result` while `null_number` has `value`, are not
  checked (`Unchecked`). Negations and selections insert no casts
  (`UncheckedOperator`).
- A slice may name a constant that is assigned later in the module, since the
  folder looks at the whole module first; a slice may be negative.
- A timestamp has the type `Any` to the checker, so `lag_timestamp` and
  `boolean_select_timestamp` are never chosen.
- A constructor called inside of an expression resolves no `SLOT` and runs no
  validator; a sink without a feed keeps its `SLOT`.

### GraphPasses

State: `script` (the graph the visitor left), `algorithms` (the list of nodes,
between the passes), `strict`, `pass`, and of Kahn's algorithm the queue and the
sorted list; a degree is the number of `Dependencies` not sorted yet, so it is
computed. One action per pass, except that the sort is one action per node it
emits, since the order of an `unordered_map` makes its start nodes
nondeterministic. The search for orphans is the least set that holds the sinks and
is closed under inputs. `Hash` may collide: the code groups nodes by hash and must
compare them as well. Timeframes are numbers from fine to coarse. The type of a
node stands for its type with its options, but for the columns that the schema of a
report or an event marker names (`columns`): these are references to nodes like its
inputs, `SemanticEquals` compares them, and `Redirected` rewrites both (phases 2 and 2.5
of `Optimize`).

`PassesAssumption` says what the front end guarantees: a node is made after those
it reads (`InputsFirst`), since the visitor compiles the arguments of a call before
the call; a schema names inputs of its node (`ColumnsAreInputs`, which the run `FrontEnd`
checks of the front end under the same name); the ids of session nodes come from a
counter, so there are enough.

The second pass of `resolveTimeframes` gives whatever has no timeframe that of its
readers. Its comment speaks of literals and the documentation of inputs only
(finding 2); `TimeframesFollowTheScript` and `RejectedHasCause` are about what the passes
do, `InheritedFromInputsOnly` about what the documentation says.

### Futures

State: the loop of `BuildBars` (`front`, `lastDay`, `timeline` position, `rolls`,
the captured bars) and the result. A timestamp is skipped, captured, or captured
with a roll. `GetData` is `searchsorted`. One price stands for the four of a
bar; `Ratio` is the additive style on logarithms; the calendars that give
expiration and roll dates are constants. The timeline is sorted here, while the
code takes timestamps by first appearance; contracts that overlap in the usual
way give the same.

### Database

State: `loaded` (`m_loadedBarData`), `staged` (the map a refresh builds),
`transformed`, `index` (`m_indexer` and `m_timestampIndex`), the pipeline's
`stage`, and for each feed the batches it has sent and the handlers that are
still to run on the current one. The pipeline's thread and the event loop
interleave at the boundaries of the mutex. Stores by handlers while the pipeline
is at the map without the mutex are a data race, whose outcomes are a stored bar
or the end of the program (`RaceCrashes`). The handlers of all feeds run on one
loop (`alpaca_websocket_manager.cpp:60`). Of that race a lost bar and a corrupt map are not
outcomes of the model. The loader and the feeds are external;
the transform stage may throw and otherwise keeps the rows.

`HandleData` changes nothing and is in the properties: `EntriesAt(t)` is what it walks,
earlier runs first and those of one run in any order, since the pipeline fills the index in
a parallel loop. An entry is `Dangling` when its asset is in the published frames no more:
`at()` throws there, and only entries before it are `Reached`. A load that replaces the
data may drop an asset that a handler has stored, so after one `EveryRowIsHandled` asks for
the entry only, and `HandledAfterReload`, which asks for more, is refuted.

### WebSocketManager

State: `state` (`m_state`), `manual` (`m_manualCloseRequested`), `queue`
(`m_subQueue`), the tasks of the loop (`flushes`, `timers`, `closing`), the
client's `link`, and `at`, where each thread is in its call. `asked`, `holding`
and `sent` follow the requests. `Connect` reads the state, writes it and dials in
three steps, so two callers, or a caller and a timer, may both dial; `Disconnect`
is three steps as well. The loop runs one callback at a time, and a callback that
calls `stop()` or `Connect` is several steps that callers interleave with. The
client (drogon) is external: it may refuse, end or answer as it likes, and its
closed handler runs some time after a connection that was open has ended. The
delay of a reconnect is left out, since nothing depends on its length.

What the code accepts, and so the model: a dial that is refused leaves the state
`Connecting`, and no later `Connect` does anything; the timer of a reconnect is
not cancelled by `Disconnect`; a `Disconnect` without a connection leaves the
flag set, so that the next loss is not retried; `push` on a full queue waits for
ever when nothing streams; a flush that runs while a caller has disconnected and
dialled again sends to a link that is not there; what was sent is not sent again
after a reconnect.

### StorageLocks and Reports

`StorageLocks` gives each call of the storage its list of locks, shared or
exclusive, in the order of the code, and says which fields the call writes and
reads. `Grant` takes the next lock; a `std::shared_mutex` may or may not let
readers pass a waiting writer, so `SomebodyProceeds` counts only on the weaker of
the two. `Reports` runs the bodies of sinks over it: a body asks for the assets,
spawns a task for each, joins them. `TransformData` of a report finds the
dashboard and fills it in two steps without a lock: two tasks may lose one
another's cards, or, as a data race may, end the program (`Crash`). After
`wait_for_all` the reports and event markers of all transforms are merged into
`reportCache` and `markerCache`, which no run clears; neither does anything reset
a dashboard, so a report returns the cards of earlier runs again. A second
`ExecutePipeline` beside the bodies of the first would close a circle of locks;
the phases keep it out, as `ExecutePipeline` waits for its graph.

### PriceAction

The transforms of `components/price_actions/smc` are functions of the whole
frame; `NewBar` appends a bar and computes all columns anew, `Rerun` computes
them again. `columns` holds them, so that action properties compare a run with
the next. Prices are small integers, volumes are left out, 0 stands for null. The
odd places of the code are kept:

- The window of a swing ends `swing_length` rows after it and starts one row less
  before it; the ends of the frame are padded with swings of the opposite side.
- An invalidated structure keeps its `broken_index`.
- A bullish block is mitigated at the row before, its default block has top and
  bottom swapped, one row may be the block of both sides, and the last swing
  counts only if there is a later one.
- The range of a liquidity pool depends on the whole history; 0 is a pool that
  was never swept.
- A retracement with less than three changes of direction leaves the newest row.
- A session opens and closes only at a bar with the exact time, and a bar outside
  of it is what resets the range.
- Resampled periods are labelled at their end, so those before a bar are complete, and
  `previous_high_low` takes the last but one of them: a bar of the third period has the
  level of the first (`PreviousPeriod`), and those of the first two have none.

The comparison of a break with a price cut to `float` (`bos_choch.h`) is that of
the integers here.

### The catalogue, start-up and charts

A row of `TransformMetadata` and `TulipMetadata` is an id, a plot kind, inputs
and outputs; the operators are named as the functions that make the rows. Texts
and options are left out. `StartUp` has one action per step of
`InitializeTransforms`: the metadata, one algorithm decoded (which compiles it, and
whose exception ends everything), one algorithm and one strategy registered with
its number, the factories. `ChartMetadata` has one action per transform of the
provider's loop: passed over, only a session, a series, or a builder that throws.
Where the inputs come out of an unordered map any order may be the one, and so with
options. The name of a panel (`DescriptiveNames`) is the type, the texts of the options
(`Printed`: a whole number, another with two decimals, a text, a Boolean or a reference; of
a list, a time, a schema or a query nothing) and the plotted inputs. The key of an option is
no part of it. A text is one unit, so a string that reads like a number or like two texts
is left out.
`DataFactory` has no state: operators named as the functions of `factory.cpp`,
over a strategy whose ids stand for sets of assets (an index for its constituents,
an unknown id for none). `Catalogue` composes them with one strategy between
them: its script compiled against the metadata (`Compile`), its data chosen and its
nodes made into definitions (`Configure`, whose result is `option`), its transforms
built by the factories, charted. The nodes of a scenario are compiled ones
(`IsCompiled`): ids differ, inputs come from earlier nodes and an input is listed with
one connection at least. Nothing in the compiler asks that every input is connected;
the constructor of a definition does (`AcceptsInputs`). `BaseData` is what the
database makes of an option and `GatheredFrom` where a body of the runtime looks, and
`RuntimeFindsItsData` holds the two against each other.

What the code does and a reader may not expect:

- A source that does not compile ends the start-up, though
  `strategy/registration.cpp:90-95` means to skip it; so does one that uses an
  event marker or a report, which are registered later.
- Numbers for ids that occur twice are appended to registries that overwrite:
  with ids `a`, `a`, `a_1` an algorithm is lost (`FreeOfNumbers`).
- `string_replace`, `string_length` and `string_reverse` have metadata and no
  factory. `sql_query_*` and `form13f_holdings` have neither. One row has an empty
  id.
- The factory lists a timeframe once for each node, so the resampler does the
  same work as often. A scalar has the timeframe `1d`, which "won't be used at
  runtime" (`transform_manager.cpp:36`); the storage looks it up all the same,
  and finds a frame because the factory resamples to that one too.
- A strategy with a rollover of kind `Null` has continuations as assets and
  nothing builds them. `economic_indicator` has no category, so its columns are
  never loaded. `session_time_window` makes a strategy intraday, but gets the
  timeframe the script gives it, not the `1Min` of `registration.h:15`.
- A source of an index reads the frame of the strategy's own asset (findings).
- The index of an output's series counts in the pane of its producer and is used
  in that of its reader. A panel over an input that is not charted shares the axis
  of the one over the closing price. With two plotted inputs, or two options, the name of
  a panel depends on the order of a map, so that equal indicators may get two panels; and
  numbers that agree in two decimals, lists, or one value under two keys print alike, so
  that indicators with different options share one. `PanesAreSound` says of the texts what
  holds; `PanelsHaveTheSameOptions` and `SameOptionsShareAPanel` say it of the options and
  are refuted.
- A builder that throws loses the whole chart, not one series.
- An executor that no signal is connected to compiles, is defined (the types that ask
  for one input at least are asked only when they have any) and is built; its chart
  throws.
- The index of an axis is a byte: the 255th panel of a pane is drawn on the axis of
  the prices.

The heights of the axes are whole percents here, as in the code, which casts doubles
to them. The tops are a running sum of doubles, and where the exact sum is a whole
number the cast may give it or the one before: `RecalculateAxisHeights` has both
outcomes at every such axis.

## The runs

| Run | Shows |
|---|---|
| `DataFlow` | a graph with a source read twice, a scalar, a transform and a broadcast cross-section that may throw, a ranking, a skipped intraday transform and a report, on four shapes of data, two runs: all safety properties, the refinement of `Evaluation`, and that a run ends |
| `FrontEnd` | some six hundred scripts, statement by statement, in both orders of keyword arguments; about three quarters are accepted |
| `GraphPasses` | every script of up to three nodes over a few types, reports with schemas that name their columns, and longer ones for the interplay of passes, strict and permissive |
| `GraphPasses_timeframes` | finding: a source without a timeframe takes that of its reader |
| `Futures` | two contracts with every choice of bars at four timestamps, three contracts with a gap, days of one and of two timestamps, three methods, both directions |
| `WebSocketManager` | two callers, two requests of which one is of another asset class, a queue of one, two calls of `Connect`, one of `Disconnect`, two losses: requests are sent once, flushed while bars stream, and a lost connection is dialled again |
| `Reports` | two bodies of sinks at a time, or one for two runs, over two assets: locks cover accesses, nobody waits in a circle, every run is reported |
| `Database` | two loads, two refreshes, two feeds with three batches, a futures asset with its continuation, stages and handlers that throw |
| `PriceAction` | all frames of up to six bars out of five: swings, breaks, blocks, pools and retracements fit each other, and what causal columns said stays |
| `Catalogue` | every type in a script of its own, with its inputs connected and without, some six thousand scripts of three chained nodes on two timeframes, all pairs of one indicator with twelve choices of options that print alike or not, ten panels, strategies with one or two nodes that need different data over all kinds of assets, and all start-ups of up to three algorithms and two strategies |
| `Catalogue_charts` | finding: types with a plot kind whose chart is lost |
| `Catalogue_indices` | finding: a source of an index shows the asset the strategy trades |

### Bounds

- `MaxRuns = 2`: what a run can inherit from earlier ones is in the storage, and
  the storage after one run has everything it has after several; the theorems
  hold for every bound. The graphs have every category, a diamond, and an input
  read twice; the frames of the feeds are absent, empty and with rows. The scalar
  is on a timeframe of its own ("1M") that the strategy's asset may lack, which is
  the one way a run fails without an error.
- `FrontEnd`: every expression of one operator over a column, a number, a text,
  a Boolean and a variable, and one of each operator under each other; slices,
  keywords, tuples, selections, sinks and wrong names in families of their own.
  A second level is where a generated id, a cast and a pushed handle meet; a
  third repeats it, since every visit ends in one handle and one context. The
  registry has one component of each shape the compiler distinguishes.
- Scripts of `GraphPasses`: three nodes are enough for a duplicate, its original and a reader,
  for a chain of two, and for a node between two others; the longer scripts add
  a second level of duplicates and sessions.
- `WebSocketManager`: a queue of one is full after the first request, so that push
  waits; two losses are a loss and the loss of the connection that came after it;
  one `Disconnect` can meet each of them. The code's queue holds 16.
- `Reports`: `MaxBodies` is two, since locks and dashboards are shared by pairs of
  tasks, and two assets give a body two tasks beside the other's.
- `PriceAction`: six bars hold up to six swings with the padded ends, so three
  structures, of which one can take back another, and pools of two and three
  members; the calendar has periods of two bars, so that the bars of the third have a
  previous level, and a session in every four.
- `Catalogue`: three nodes are a chain, a transform over two others, and two
  transforms over one; ten panels reach the rounding of the axes. Whether data is
  found is a question about one node and one asset given the base timeframe, which
  a second node can change; the assets are stocks, an index, futures, pairs with and
  without the base currency, and an id nobody knows.
- Four timestamps and three contracts: a gap, a roll over two contracts at one
  row, and a row after the last roll.
- Two refreshes after a load are the first at which a handler is connected
  twice and the second at which the index holds entries of an earlier run; a second load
  is one that replaces data, with entries of assets it does not bring back.
  `BucketLength = 2` has a bar at the edge and one inside of a bucket.

### Fairness

`FairSpec` of `DataFlow` has weak fairness of the constructor's steps, of every
node's steps and of the end of the run: TBB runs a task that is ready,
`wait_for_all` returns when none is left, and a body takes its next statement.
Nothing obliges anybody to call `ExecutePipeline` again. The compiler is one
function: weak fairness of `Next`.

`FairSpec` of `WebSocketManager` has weak fairness of every caller's next step in
a call and of the loop's steps within a task, and strong fairness of a timer, of
a closed handler and of a flush: the loop runs its queue in order, so a task that
is queued is not overtaken for ever, though it is disabled while another one runs,
which is why weak fairness would not do. The network owes nothing: no dial has to succeed, and no error
has to come. So `SubscriptionsAreFlushed` and `LostIsRetried` promise what the
manager itself does.

Nothing is assumed of feeds, loaders and calls of the pipeline, and no liveness
is claimed of `Futures`, `Database`, `Reports`, `PriceAction`, `Catalogue` and
`FrontEnd` (whose every step moves to the next statement).

## The proofs

What a run shows on a small instance, these show for every one: any graph, script,
number of assets, threads, bars, contracts, messages, runs. The property a theorem
states is the one the run checks, in the run's own module.

| Theorem | Says |
|---|---|
| `DataFlowProofs` | |
| `ConstructorAcceptsOrders` | the constructor accepts exactly the dependency orders of the nodes |
| `CompiledListsAreBuilt` | from lists as the compiler leaves them the orchestrator is always constructed |
| `BodiesFollowTheirProducers` | a body runs only after those of all its producers have returned |
| `NoStaleInputs` | a body reads no column of an earlier run in the place of one of this run |
| `ReturnsAreComplete` | a run that returns has run every transform and stored every column |
| `FailuresHaveCauses` | a run fails for an error of its own, or for a scalar with nowhere to stand |
| `RunsAreEvaluations` | the orchestrator implements `Evaluation` |
| `GraphPassesProofs` | |
| `MeaningIsKept` | merging, removal and sorting keep what outputs and executors compute, and the columns that schemas show |
| `OrchestratorTakesIt` | the compiled list has no id twice and every input earlier in it |
| `RuntimeTakesIt` | the compiled list, read as the runtime's graph, is a `DependencyOrder` in which no node reads itself |
| `NoDeadCode` | every compiled node is an output or feeds another |
| `NoCycleIsFound` | the sort emits every node |
| `TimeframesAreTheScripts` | timeframes follow from those in the script by a rule that knows no order |
| `RefusalsHaveCauses` | compilation fails only for a missing output or a timeframe that neither inputs nor readers give |
| `FuturesProofs` | |
| `RollsAreMarked` | the front contract never goes back, and the rolls are where it changes |
| `RangesAreComplete` | the rolls split the rows into ranges without gap or overlap |
| `RowsAreAligned` | without gaps in the contracts, no row shows the bar of another time |
| `EveryRollHasItsRow` | with contracts that end in order, the adjustment reads no row behind the last |
| `AdjustmentsAddUp` | the adjusted series is the front bars plus the gaps of the rolls |
| `DatabaseProofs` | |
| `BarsAreKept` | a bar a handler has taken is on its way or loaded, until the next load |
| `RowsAreHandled` | every published row has its entry, `HandleData` comes to it unless a load has replaced data, and once in the first run |
| `ResamplingKeepsUp` | the resampled frames are not behind the base frames |
| `RowsAreTheirOwn` | no entry of the index leads to a row of another timestamp |
| `WebSocketManagerProofs` | |
| `RequestsAreSentOnce` | a request is with its caller, queued or sent, in one place and once |
| `ReportsProofs` | |
| `AccessesAreLocked` | two calls past their locks do not touch a field that one of them writes |
| `NoLockCycle` | the threads in calls of the storage never all wait for one another |
| `ReturnedRunsAreReported` | the reports and markers of every run that returned are in the caches |
| `CatalogueProofs` | |
| `RegistrationKeepsAll` | the registries lose no algorithm and no strategy that names one |
| `DataIsThere` | the data chosen for a strategy are what its run looks up |
| `PanesTileAndLink` | the axes of a pane tile it, and what is drawn over something lies on its axis and follows its inputs, for any number of transforms |
| `PanesCanBeRead` | with at most 254 transforms, the series of a panel also say the same of type, texts of options and inputs, and with one option and one input at most those that say the same share a panel |
| `KnownTypesAreUsable` | scripts of registered types compile, are built and are drawn, but for the types listed |

Each of these modules but `FuturesProofs` and `CatalogueProofs` has a `TypeCorrect` too.
`RangesAreComplete`, `EveryRollHasItsRow` and `NoCycleIsFound`, and `TypeCorrect` of
`GraphPasses` and `Database`, state what no run checks on its own, since the
properties beside them fail as well where it does. `RuntimeTakesIt` and
`CompiledListsAreBuilt` say together that the hypotheses under which the runtime's
theorems speak of a list are those the compiler establishes; `PanesTileAndLink` is the
part of `PanesAreSound` that needs no bound on the transforms.

### Assumptions

- `DataFlow`: `TypeCorrect` and `ConstructorAcceptsOrders` need none, the others
  `NoSelfReader`. The constructor accepts a
  transform that reads itself (its handles are registered before its inputs are
  resolved), but it never fires; the compiler does not make one. The refinement also
  assumes `AllListed`, that the graph consists of the transforms of the list, and
  `ConstantScalars`: scalars are literals, and no frame at their timeframe is empty.
  Without the last the statement is false: finding 4 below.
- `GraphPasses`: `DistinctIds`, that no two nodes have one id. The front end keeps it
  but for `_` and for variables named like generated ids; finding 5 is what happens
  there. `PassesAssumption` is above. `RuntimeTakesIt` also assumes `SinksHaveNoReader`:
  no input of the script names a sink. The metadata of a sink has no outputs, so there
  is no handle to name one by; a graph of ids and types does not show it.
- `Futures`: `FuturesAssumption` gives the constants their types, a price to every
  contract at every time, and every contract a bar, as the code takes the contracts
  from the rows. The conditions on gaps and
  on the order of the contracts' ends are part of the properties.
- `Database`: `ContinuationAssumption`, that nobody loads or sends a continuation.
  `RowsAreTheirOwn` assumes `Chronological`, data as a market sends it; nothing in
  the code insists on it, and neither does it hold after a second refresh or a
  second load, when the property says nothing (finding 8).
- `Reports`: `ThreadsAssumption` and `ScenarioAssumption`, which name the threads and
  bound the graphs. `WebSocketManager`: a queue that holds something.
- `DataFlow`'s `CompiledListsAreBuilt` assumes that every list it may be given is a
  `DependencyOrder`, which is what `RuntimeTakesIt` proves of a compiled one.
- `Catalogue`: `CatalogueAssumption` says what a scenario is: buffers and ids are
  sequences, an asset has a class and a name, the nodes are compiled ones.
  `TablesAgree` is a fact without variables and without parameters about the tables of
  metadata, factories and builders as they are in the repository; TLC evaluates it, row
  by row, at the start of the run `Catalogue`, and `KnownTypesAreUsable` rests on it.
  `FewPanels`, at most 254 transforms, is a condition of `PanesCanBeRead`: beyond it
  the statement is false, since the index of an axis is a byte. That no id looks like
  a numbered one is part of `AlgorithmsAreKept`: with ids `a`, `a_1` and `a` again,
  the third overwrites the second.

### The arguments

None of the properties is inductive, so each proof is of a stronger invariant.

*DataFlow*. `ProducersFirst` speaks of a body that runs, and to keep it one has to
know that a node's `awaited` set is exactly the edges from producers that have not
finished (`WiringInv`), which holds because at registration every producer was
already there (`RegistrationInv`, `AcceptedOrders`). `FreshInputs` needs that a
producer which has finished without an error has stored a column of this run for
every asset (`StoredInv`), and `FailureHasCause` that a stored column has its bucket
(`BucketInv`). With `TypeOK` and `ReturnedComplete` these are `IInv`.
For the refinement `EInv` adds `FeedInv`, `ScalarInv` (what is cached for a scalar is
its value) and `ValuesInv`: in a run without errors, what a body has computed or
stored for an asset is what the evaluation gives, step by step (`Progress`).
`ColumnsAreComputed` shows that the recursion of `Eval` has a solution, by building it
along the order; `GatheredAsPromised` that a body gathers rows exactly where the
evaluation has them; `OutputIsEval` that the output of a run that ends is `Eval` of
its data. Every other step stutters.

*GraphPasses*. `GraphInv` (inputs first, no id twice, sinks survive), `MeaningInv` (the
terms of sinks are those of the script), `OriginInv` and `ResolvedInv` (every node and
timeframe comes from the script), `SortInv` with `KahnInv`: the queue holds the
unsorted nodes all of whose dependencies are sorted, so while something is unsorted
the first such node of the list is in the queue. `RuntimeTakesIt` adds `SinksInv`, that
no input of any list between the passes names a sink: merging redirects inputs to nodes
of the same type, and the session nodes that are added are none. With that the handle of
every input of the compiled list is one a node before it has registered.

*Futures*. `SwitchInv` says that rolls are increasing rows and that row r is one
exactly where the contract after it differs; `PendingInv` that a roll without a row
after it is to a contract all of whose bars are still to come; `SeriesInv` that the
series is the front bars, shifted by sums over ranges that `RangesOfRolls` counts.

*Database*. `Core` (types, handlers as many as refreshes, stages on loaded assets),
`IndexInv` (the entries of the last run are in the index), `KeptInv` (until a load replaces
data, an asset that was published is loaded, staged and published again, so that no entry
is dangling), `StagedInv` (what is staged
was loaded) and `OrderInv`: until the second refresh or load, the loaded frames are in
order and have grown only at the end, so what old entries point at has not moved.

*WebSocketManager*. `Places` puts every request in one place: held by one caller before
its push, queued once, or sent once; with `FlushedWhenReady`, that flushes happen on
authenticated connections.

*Reports*. `LocksExclusive` (what is held exclusively is held by one thread), `Control`
(where bodies and tasks are, and in which call), `BodiesReport`, `CachedReports` and
`ReportedRuns`. That the locks make no circle rests on `Control`: calls take them in
different orders, but those that go on while bodies run share the base data, and the
main thread is in the storage only when no body is.

*Catalogue*. `RegistryInv` says, stage by stage, that what has been registered so far
is kept, the first of an id under that id, and that every key of the registry at hand
is an id that has been counted or one with a number up to its count
(`KeysAreCounted`). So the next key is a new one (`KeysAreNew`), and nothing is
overwritten. `Chosen` says that the option is the one made for the strategy of the
scenario; that it has the data is a fact about the functions of `DataFactory`
(`OptionsHaveTheirData`), whatever the strategy.
`ChartInv` describes the panes while the loop fills them. The axes are the two of the
beginning or what `RecalculateAxisHeights` gives for their number, and that these tile
the pane is arithmetic over whole and cut off sums (`Quotients`, `AxesLieInOrder`). Every
series after the first two is that of a transform the loop has passed, on an axis that
has one of its names, or on the axis of an earlier series it is linked to (`PlacedAs`);
the index kept of an output is that of the series of its producer, in its pane
(`HandlesKnown`); the names of panels and their axes are one to one while the index of
an axis is its own (`PanelsNamed`). That two series of a panel say the same is then that
a name has the texts of the options and the inputs, whatever order the maps gave them
(`InOrderTells`, `NamesTell`), and the other way that with one option and one plotted input
there is but one name (`OneName`).
`RegistriesFilled` says which ids are in the two registries at every stage, and
`ScriptKnown` what the state of a script says of its types and, once a builder has thrown,
of one of its transforms: a builder looks at the inputs only for whether there are any, so
`TablesAgree` decides.

`NumberSets` supports them: finite sets of numbers have extremes, ranks and lists, and
`SetInduction`, induction over a set of numbers instead of over a predicate, by which
the recursive functions (`Columns`, `Terms`, `FromInputs`, `FromDependents`,
`Accumulated`, `GapsBetween`) are reasoned about.

### Only model-checked

- Liveness: `Terminates` of `DataFlow` and `GraphPasses`, `SubscriptionsAreFlushed` and
  `LostIsRetried` of `WebSocketManager`. The prover has no rule for fairness that it can
  use here.
- `FrontEnd` and `PriceAction`, which use RECURSIVE operators, and with them
  `FrontEndMeaning`.
- `TablesAgree`, the comparison of the tables of some 360 rows that
  `KnownTypesAreUsable` rests on: the ids are put together from parts, which the provers
  cannot do and TLC does.

`FrontEnd` states a `TypeOK` that no run checks and no theorem states: the other
invariants fail as well where a variable leaves its type.

## Findings

With a run:

1. **Indices show the strategy's own asset** (`polygon_indices_metadata.h:56`):
   "Indices load data internally", says the comment, and nothing does: the column
   is taken from the frame of the asset the body runs for, the options `index` and
   `ticker` are never read, and the loader is asked for no index.
   `Catalogue_indices`.
2. **Timeframes come from readers** (`ast_compiler.cpp:337`): the second pass gives every
   node but a scalar that has no timeframe the one of its readers. `docs/concepts/timeframes.mdx`
   says that inheritance "only works when transforms receive inputs" (line 114) and that
   a source or a transform without inputs "will fail validation" otherwise (line 107):
   it passes when a reader has a timeframe. `GraphPasses_timeframes`.
3. **Ten types lose the chart** (`plot_kinds/base.h:89`): `acceleration_bands` and
   `keltner_channels` are plotted as Bollinger bands, whose outputs have other
   names; `rolling_corr`, `rolling_cov`, `beta`, `ewm_corr`, `ewm_cov`, `di`, `dm`
   and `msw` as a line without the output the line needs. `Catalogue_charts`.

Stated in a module and refuted by TLC, without a run of their own:

4. `DataFlow!ScalarsExecutedOnce` (`intermediate_storage.cpp:508`): a comment says
   scalars are executed once; every asset executes them, and with an empty frame
   for one asset the scalar of all may become null, depending on the threads.
5. `GraphPasses!CircularOnlyIfCyclic` (`ast_compiler.cpp:136`): `_` may be bound
   twice, the sort keys its tables by id, and reports a circle that is not there.
6. `Futures!BarsOfTheirContract` (`continuations.cpp:187`): after a roll by the
   method the front bar is read through a reference to the old contract, and
   labelled with the new one.
7. `Futures!NoFuturePrices` (`continuations.cpp:149`): the guard against prices of
   the future covers a contract that has not started, not one with a gap.
8. `Database!AppendedOnce` (`database_impl.cpp:201`): every refresh connects one
   more handler, and a batch is appended as often, where
   `database_impl_test.cpp:744` expects it once. The test refreshes once.
9. `Database!HandledAfterReload` (`database.cpp:24`): the indexes are never cleared, so
   after a load that drops an asset `HandleData` throws at the entries of that asset, and
   rows with later entries are not handed over.
10. `PriceAction!PreviousIsTheLastPeriod` (`previous_high_low.h:73`): of the periods
    completed before a bar the last but one is taken, where `files/transforms.yaml:579`
    says "immediately previous period": with two bars to a period, the fifth bar reports
    the range of the first two.
11. `Catalogue!PanelsHaveTheSameOptions` (`series_configuration_builder.cpp:43`): a panel is
    for "The full descriptive name (e.g., "RSI 14", "RSI 14 (SMA)")"
    (`axis_manager.h:115`), which two indicators with different options may share; and
    `Catalogue!SameOptionsShareAPanel`: two with the same two options may be in two panels.

Seen while modelling: a refused dial and `Connecting`, and a source that does not
compile at start-up (above); the key that contracts and their continuation share
from the second run on in a parallel loop (`continuations.cpp:307`); the sign of
the forward direction (`forward.h:38`); the second level of common
subexpressions, which one call of `Optimize` does not find
(`cse_optimizer.cpp:58`).

## Not modelled

- Of the front end: the parser and the error formatter, which keep no state; the
  validators of `conditional_select` and `first_non_null`; schemas written as
  JSON, SQL and times as option values; comparisons in slices. The folder's
  table survives a compilation (`constant_folder.cpp`), while the model has one
  compilation.
- Of the runtime: `AssignCardGroupsAndSizes`, which lays cards out, and the
  transform manager as a state of its own.
- Of the reports: what each computes. `gap_report.cpp` aggregates tables.
- Transform components other than price actions: column functions without state,
  most of them over floating point libraries.
- Timeframe arithmetic, option variants, `config_helper.h` (one builder function
  per type), the exchange calendars: pure functions and tables. Of the data
  factory the dates, the paths and the arguments of a rollover.
- Of the strategy configuration the registries of
  commissions, slippages, sizers and stops, which nothing in `src/` reads; of the
  catalogue the options and texts of a row.
- Of charts the data mappings and configuration options of a series, which no state
  depends on. `init.cpp` loads scripts from a store that is external.

## Plan

Done so far: the runtime, the front end, the passes, the futures, the database, the
websocket manager, reports and locks, price actions, the catalogue from start-up over
the choice of data to charts, and the proofs above. Next, each with its runs and theorems:

1. Proofs: that what `FrontEnd` leaves satisfies `PassesAssumption` and
   `SinksHaveNoReader` of `GraphPasses`, for which its recursive operators would have to
   become recursive functions.
2. `FrontEnd`: the validators left out, and a run against the documentation's
   "lag operator only accepts positive integers"
   (`docs/language/limitations.mdx:95`), which `VisitSubscript` does not require.
3. `TimeFrames`: the order of timeframes, which is a parameter of `GraphPasses`.
4. The trade executors' replacements and chart formations among the transforms.

The twelve runs check 40 properties in passing runs. A new one takes the place of
one it implies.
