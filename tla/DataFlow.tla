------------------------------ MODULE DataFlow ------------------------------
(***************************************************************************)
(* The runtime: DataFlowRuntimeOrchestrator builds a TBB flow graph from   *)
(* the compiled transforms and ExecutePipeline runs it over a set of base  *)
(* data.  A node fires when every edge into it has delivered a message;    *)
(* its body handles the assets in parallel, reads its inputs from the      *)
(* shared IntermediateResultStorage and stores its outputs there.  The     *)
(* storage outlives the run.                                               *)
(*                                                                         *)
(* Every critical section of the storage is one action: the checks of      *)
(* ValidateInputsAvailable, the reads of GatherInputs and the writes of    *)
(* StoreTransformOutput each hold the locks they need from start to end.   *)
(* TransformData touches nothing shared, so it is taken with GatherInputs. *)
(***************************************************************************)
EXTENDS TransformGraph

CONSTANTS
  Orders,          \* the lists of transforms a manager may hand to the constructor
  Faulty,          \* the transforms whose TransformData or store may throw
  StrategyAssets,  \* the assets the orchestrator was created for
  Feeds,           \* the base data ExecutePipeline may be called with
  MaxRuns          \* bound on the calls of ExecutePipeline

ASSUME DataFlowAssumption ==
  /\ Orders \subseteq Seq(Nodes)
  /\ Faulty \subseteq Nodes
  /\ StrategyAssets \subseteq Assets
  /\ Feeds \subseteq BaseData
  /\ MaxRuns \in Nat

VARIABLES
  phase,        \* where the orchestrator is: constructing, between runs, running
  order,        \* the list the constructor goes through
  registered,   \* how many of its transforms are registered
  runs,         \* the number of the current run
  base,         \* m_baseData
  cache,        \* m_cache, the columns of the transforms
  cachedTfs,    \* the timeframes m_cache has a bucket for
  scalarCache,  \* m_scalarCache and m_scalarOutputs
  log,          \* the logger: which transform failed, on which asset, in which run
  node,         \* whether a node has fired and finished in this run
  awaited,      \* the edges a node has yet to receive a message from
  step,         \* how far a node's body is with an asset
  result,       \* the frame a body has computed and not stored
  output        \* what the last successful run returned

vars == <<phase, order, registered, runs, base, cache, cachedTfs, scalarCache,
          log, node, awaited, step, result, output>>

storage == <<base, cache, cachedTfs, scalarCache>>
built == <<order, registered>>

None == "none"
Columns == [run : Nat, val : Values]     \* runs count from 1
NotStored == [run |-> 0, val |-> "null"]
Steps == {"todo", "missing", "ready", "computed", "storing", "done"}
Phases == {"constructing", "rejected", "idle", "running", "returned", "failed"}

Registered == {order[i] : i \in 1..registered}
AssetIDs == AssetsOf(base)

TypeOK ==
  /\ phase \in Phases
  /\ order \in Seq(Nodes)
  /\ registered \in 0..Len(order)
  /\ runs \in Nat
  /\ base \in BaseData
  /\ cache \in [Nodes -> [Assets -> Columns]]
  /\ cachedTfs \in SUBSET Timeframes
  /\ scalarCache \in [Nodes -> {None} \cup Values]
  /\ log \in SUBSET [node : Nodes, assets : SUBSET Assets, run : Nat]
  /\ node \in [Nodes -> {"waiting", "running", "done"}]
  /\ awaited \in [Nodes -> SUBSET Nat]
  /\ step \in [Nodes -> [Assets -> Steps]]
  /\ result \in [Nodes -> [Assets -> Values]]
  /\ output \in SUBSET [node : Nodes, asset : Assets, val : Values]

Init ==
  /\ phase = "constructing"
  /\ order \in Orders
  /\ registered = 0
  /\ runs = 0
  /\ base = [t \in Timeframes |-> [a \in Assets |-> "absent"]]
  /\ cache = [n \in Nodes |-> [a \in Assets |-> NotStored]]
  /\ cachedTfs = {}
  /\ scalarCache = [n \in Nodes |-> None]
  /\ log = {}
  /\ node = [n \in Nodes |-> "waiting"]
  /\ awaited = [n \in Nodes |-> {}]
  /\ step = [n \in Nodes |-> [a \in Assets |-> "todo"]]
  /\ result = [n \in Nodes |-> [a \in Assets |-> "null"]]
  /\ output = {}

-----------------------------------------------------------------------------
(* The constructor. *)

\* CreateTransformNode maps the outputs of n to its node before the inputs
\* are resolved.  A sink has no outputs that could be read.
KnownHandles(n) == {m \in Registered \cup {n} : HasOutputs(m)}

\* Mutant: a second registration of a transform is not refused.
RegisterTwice ==
  /\ phase = "constructing"
  /\ registered < Len(order)
  /\ LET n == order[registered + 1]
     IN  IF ~(Producers(n) \subseteq KnownHandles(n))
         THEN /\ phase' = "rejected"
              /\ UNCHANGED <<registered, awaited>>
         ELSE /\ registered' = registered + 1
              /\ awaited' = [awaited EXCEPT ![n] = Edges(n)]
              /\ UNCHANGED phase
  /\ UNCHANGED <<order, runs, storage, log, node, step, result, output>>

\* One round of the constructor's loop: a transform that is already there, or
\* reads a handle nobody has registered, makes the constructor throw;
\* otherwise the node gets one edge per input handle.
RegisterTransform ==
  /\ phase = "constructing"
  /\ registered < Len(order)
  /\ LET n == order[registered + 1]
     IN  IF n \in Registered \/ ~(Producers(n) \subseteq KnownHandles(n))
         THEN /\ phase' = "rejected"
              /\ UNCHANGED <<registered, awaited>>
         ELSE /\ registered' = registered + 1
              /\ awaited' = [awaited EXCEPT ![n] = Edges(n)]
              /\ UNCHANGED phase
  /\ UNCHANGED <<order, runs, storage, log, node, step, result, output>>

Constructed ==
  /\ phase = "constructing"
  /\ registered = Len(order)
  /\ phase' = "idle"
  /\ UNCHANGED <<built, runs, storage, log, node, awaited, step, result, output>>

-----------------------------------------------------------------------------
(* ExecutePipeline: the start of a run. *)

\* The base data is replaced; the columns of earlier runs and the scalars stay.
InitializeBaseData(data) ==
  /\ base' = data
  /\ cachedTfs' = cachedTfs \cup
       {t \in Timeframes : \E a \in StrategyAssets : Present(data, t, a)}
  /\ UNCHANGED <<cache, scalarCache>>

\* Mutant: the errors of the last run stay in the logger.
ExecuteKeepingLog(data) ==
  /\ phase \in {"idle", "returned", "failed"}
  /\ runs < MaxRuns
  /\ phase' = "running"
  /\ runs' = runs + 1
  /\ InitializeBaseData(data)
  /\ log' = log
  /\ node' = [n \in Nodes |-> "waiting"]
  /\ step' = [n \in Nodes |-> [a \in Assets |-> "todo"]]
  /\ UNCHANGED <<built, awaited, result, output>>

ExecutePipeline(data) ==
  /\ phase \in {"idle", "returned", "failed"}
  /\ runs < MaxRuns
  /\ phase' = "running"
  /\ runs' = runs + 1
  /\ InitializeBaseData(data)
  /\ log' = {}
  /\ node' = [n \in Nodes |-> "waiting"]
  /\ step' = [n \in Nodes |-> [a \in Assets |-> "todo"]]
  /\ UNCHANGED <<built, awaited, result, output>>

-----------------------------------------------------------------------------
(* The flow graph. *)

CanFire(n) == n \in Registered /\ node[n] = "waiting" /\ awaited[n] = {}

\* A continue_node whose count is complete resets it and runs its body; the
\* nodes without edges are those the orchestrator triggers itself.
FireNode(n) ==
  /\ phase = "running"
  /\ CanFire(n)
  /\ node' = [node EXCEPT ![n] = "running"]
  /\ awaited' = [awaited EXCEPT ![n] = Edges(n)]
  /\ UNCHANGED <<phase, built, runs, storage, log, step, result, output>>

\* Mutant: the first message into a node completes its count.
FinishForAllEdges(n) ==
  /\ phase = "running"
  /\ node[n] = "running"
  /\ \A a \in AssetIDs : step[n][a] = "done"
  /\ node' = [node EXCEPT ![n] = "done"]
  /\ awaited' = [m \in Nodes |-> IF EdgesFrom(m, n) # {} THEN {} ELSE awaited[m]]
  /\ UNCHANGED <<phase, built, runs, storage, log, step, result, output>>

\* Mutant: the body also waits for assets the data does not have.
FinishForAllAssets(n) ==
  /\ phase = "running"
  /\ node[n] = "running"
  /\ \A a \in Assets : step[n][a] = "done"
  /\ node' = [node EXCEPT ![n] = "done"]
  /\ awaited' = [m \in Nodes |-> awaited[m] \ EdgesFrom(m, n)]
  /\ UNCHANGED <<phase, built, runs, storage, log, step, result, output>>

\* The body has returned: one message on every outgoing edge.
FinishNode(n) ==
  /\ phase = "running"
  /\ node[n] = "running"
  /\ \A a \in AssetIDs : step[n][a] = "done"
  /\ node' = [node EXCEPT ![n] = "done"]
  /\ awaited' = [m \in Nodes |-> awaited[m] \ EdgesFrom(m, n)]
  /\ UNCHANGED <<phase, built, runs, storage, log, step, result, output>>

-----------------------------------------------------------------------------
(* IntermediateResultStorage. *)

InputStored(p, a) ==
  IF IsScalar(p) THEN scalarCache[p] # None ELSE cache[p][a] # NotStored

\* The input as its reader sees it; a scalar is broadcast from the one copy.
InputValue(p, a) == IF IsScalar(p) THEN scalarCache[p] ELSE cache[p][a].val

InputsAvailable(n, a) ==
  /\ Edges(n) # {} \/ Def[n].dataSources => Present(base, Def[n].timeframe, a)
  /\ \A p \in Producers(n) : InputStored(p, a)

\* What is left of the gathered frame once the rows with a null are dropped.
\* The lookup of a frame the data does not have throws, and so does the read
\* of an input that is not cached.
GatherInputs(n, a) ==
  IF ~Present(base, Def[n].timeframe, a) \/ \E p \in Producers(n) : ~InputStored(p, a)
  THEN "absent"
  ELSE IF /\ base[Def[n].timeframe][a] = "rows"
          /\ \/ Def[n].allowNullInputs /\ ~Def[n].isCrossSectional
             \/ \A p \in Producers(n) : InputValue(p, a) = "value"
       THEN "rows"
       ELSE "empty"

\* Mutant: a column that is cached is kept, as a scalar is.
StoreOnce(n, a, v) ==
  /\ scalarCache' = IF IsScalar(n) /\ scalarCache[n] = None
                    THEN [scalarCache EXCEPT ![n] = v] ELSE scalarCache
  /\ cache' = IF HasColumns(n) /\ cache[n][a] = NotStored
              THEN [cache EXCEPT ![n][a] = [run |-> runs, val |-> v]] ELSE cache
  /\ cachedTfs' = IF HasColumns(n)
                  THEN cachedTfs \cup {Def[n].timeframe} ELSE cachedTfs
  /\ UNCHANGED base

\* A scalar is stored once, for all assets and all runs; a column per asset,
\* aligned with the index of the base data.
StoreTransformOutput(n, a, v) ==
  /\ scalarCache' = IF IsScalar(n) /\ scalarCache[n] = None
                    THEN [scalarCache EXCEPT ![n] = v] ELSE scalarCache
  /\ cache' = IF HasColumns(n)
              THEN [cache EXCEPT ![n][a] = [run |-> runs, val |-> v]] ELSE cache
  /\ cachedTfs' = IF HasColumns(n)
                  THEN cachedTfs \cup {Def[n].timeframe} ELSE cachedTfs
  /\ UNCHANGED base

\* log and storage untouched, n's body moves on with a.
Moves(n, a, s) ==
  /\ step' = [step EXCEPT ![n][a] = s]
  /\ UNCHANGED <<phase, built, runs, node, awaited, output>>

LogError(n, assets) ==
  log' = log \cup {[node |-> n, assets |-> assets, run |-> runs]}

Busy(n, a, s) ==
  /\ phase = "running"
  /\ node[n] = "running"
  /\ a \in AssetIDs
  /\ step[n][a] = s

-----------------------------------------------------------------------------
(* The body of a node, on one asset. *)

\* Both bodies store an empty frame for every asset and return.
SkipIntraday(n, a) ==
  /\ Busy(n, a, "todo")
  /\ Skipped(n)
  /\ StoreTransformOutput(n, a, "null")
  /\ Moves(n, a, "done")
  /\ UNCHANGED <<log, result>>

ValidateInputsAvailable(n, a) ==
  /\ Busy(n, a, "todo")
  /\ ~Skipped(n)
  /\ Moves(n, a, IF InputsAvailable(n, a) THEN "ready" ELSE "missing")
  /\ UNCHANGED <<storage, log, result>>

\* Mutant: the asset without inputs is passed over.
PassOver(n, a) ==
  /\ Busy(n, a, "missing")
  /\ ~Def[n].isCrossSectional
  /\ Moves(n, a, "done")
  /\ UNCHANGED <<storage, log, result>>

\* ApplyDefaultTransform gives an asset without inputs an empty frame.
StoreEmpty(n, a) ==
  /\ Busy(n, a, "missing")
  /\ ~Def[n].isCrossSectional
  /\ StoreTransformOutput(n, a, "null")
  /\ Moves(n, a, "done")
  /\ UNCHANGED <<log, result>>

\* Mutant: the gathered frame is kept in place of the transformed one.
KeepGathered(n, a) ==
  /\ Busy(n, a, "ready")
  /\ ~Def[n].isCrossSectional
  /\ GatherInputs(n, a) # "absent"
  /\ result' = [result EXCEPT ![n][a] = GatherInputs(n, a)]
  /\ Moves(n, a, "computed")
  /\ UNCHANGED <<storage, log>>

\* GatherInputs and TransformData; an empty frame is not transformed.
TransformAsset(n, a) ==
  /\ Busy(n, a, "ready")
  /\ ~Def[n].isCrossSectional
  /\ GatherInputs(n, a) # "absent"
  /\ result' = [result EXCEPT ![n][a] =
                  IF GatherInputs(n, a) = "rows" THEN Def[n].yields ELSE "null"]
  /\ Moves(n, a, "computed")
  /\ UNCHANGED <<storage, log>>

\* An exception in the gathering, the transform or the store is logged; the
\* asset gets no output and the other assets go on.
TransformThrows(n, a) ==
  /\ Busy(n, a, "ready")
  /\ ~Def[n].isCrossSectional
  /\ \/ GatherInputs(n, a) = "absent"
     \/ GatherInputs(n, a) = "rows" /\ n \in Faulty
  /\ LogError(n, {a})
  /\ Moves(n, a, "done")
  /\ UNCHANGED <<storage, result>>

StoreResult(n, a) ==
  /\ Busy(n, a, "computed")
  /\ ~Def[n].isCrossSectional
  /\ StoreTransformOutput(n, a, result[n][a])
  /\ Moves(n, a, "done")
  /\ UNCHANGED <<log, result>>

-----------------------------------------------------------------------------
(* The body of a cross-sectional node: the assets are gathered in parallel,
   transformed together, and the outcome is distributed. *)

\* result holds whether the asset's series has rows ("value") until all are in.
GatherCrossInput(n, a) ==
  /\ Busy(n, a, "ready")
  /\ Def[n].isCrossSectional
  /\ GatherInputs(n, a) # "absent"
  /\ result' = [result EXCEPT ![n][a] =
                  IF GatherInputs(n, a) = "rows" THEN "value" ELSE "null"]
  /\ Moves(n, a, "computed")
  /\ UNCHANGED <<storage, log>>

\* All assets of n are gathered or skipped, and nothing is distributed yet.
CrossGathered(n) ==
  /\ phase = "running"
  /\ node[n] = "running"
  /\ Def[n].isCrossSectional
  /\ ~Skipped(n)
  /\ AssetIDs # {}
  /\ \A a \in AssetIDs : step[n][a] \in {"missing", "computed"}

Included(n) == {a \in AssetIDs : step[n][a] = "computed"}

\* Mutant: the rows of one asset are enough.
AnyHasRows(n) ==
  \E a \in Included(n) : result[n][a] = "value"

CrossHasRows(n) ==
  Included(n) # {} /\ \A a \in Included(n) : result[n][a] = "value"

\* The frames are joined and rows with a gap dropped, so one empty frame
\* empties the cross-section.  A reporter distributes nothing.
CrossTransform(n) ==
  /\ CrossGathered(n)
  /\ LET next == IF HasOutputs(n) THEN "storing" ELSE "done"
     IN  step' = [step EXCEPT ![n] =
                    [a \in Assets |-> IF a \in AssetIDs THEN next ELSE @[a]]]
  /\ result' = [result EXCEPT ![n] =
       [a \in Assets |->
          IF CrossHasRows(n) /\ (Def[n].broadcast \/ a \in Included(n))
          THEN Def[n].yields ELSE "null"]]
  /\ UNCHANGED <<phase, built, runs, storage, log, node, awaited, output>>

\* The whole body is one try block: no asset gets an output after a throw.
CrossAbandon(n) ==
  /\ LogError(n, Assets)
  /\ step' = [step EXCEPT ![n] = [a \in Assets |-> "done"]]
  /\ UNCHANGED <<phase, built, runs, storage, node, awaited, result, output>>

\* A gathering that throws cancels the others; joining no frames at all may
\* throw (external); TransformData may throw on a cross-section with rows.
CrossThrows(n) ==
  \/ /\ Def[n].isCrossSectional
     /\ \E a \in Assets :
          \/ Busy(n, a, "ready") /\ (n \in Faulty \/ GatherInputs(n, a) = "absent")
          \/ Busy(n, a, "storing") /\ n \in Faulty
     /\ CrossAbandon(n)
  \/ /\ CrossGathered(n)
     /\ Included(n) = {} \/ (CrossHasRows(n) /\ n \in Faulty)
     /\ CrossAbandon(n)

\* DistributeCrossSectionalOutputs, one asset after the other.
DistributeOutput(n, a) ==
  /\ Busy(n, a, "storing")
  /\ StoreTransformOutput(n, a, result[n][a])
  /\ Moves(n, a, "done")
  /\ UNCHANGED <<log, result>>

-----------------------------------------------------------------------------
(* ExecutePipeline: the end of a run. *)

\* wait_for_all returns when no body runs and no message is under way.
Quiescent ==
  /\ phase = "running"
  /\ \A n \in Nodes : node[n] # "running" /\ ~CanFire(n)

Exported == {n \in Registered : HasOutputs(n) /\ Def[n].category # "DataSource"}

\* m_cache.at(timeframe), for every registered output of every asset.
TimeframeMissing ==
  AssetIDs # {} /\ \E n \in Exported : Def[n].timeframe \notin cachedTfs

\* The assets that have a frame for the output of n, and its value in it.
Receivers(n) ==
  {a \in AssetIDs :
     IF IsScalar(n) THEN scalarCache[n] # None
                    ELSE Present(base, Def[n].timeframe, a) /\ cache[n][a] # NotStored}

FinalOutput ==
  UNION {{[node |-> n, asset |-> a, val |-> InputValue(n, a)] : a \in Receivers(n)} :
           n \in Exported}

BuildFinalOutput ==
  /\ Quiescent
  /\ log = {}
  /\ ~TimeframeMissing
  /\ phase' = "returned"
  /\ output' = FinalOutput
  /\ UNCHANGED <<built, runs, storage, log, node, awaited, step, result>>

\* The run throws on a logged error, or inside BuildFinalOutput.
PipelineFailed ==
  /\ Quiescent
  /\ log # {} \/ TimeframeMissing
  /\ phase' = "failed"
  /\ UNCHANGED <<built, runs, storage, log, node, awaited, step, result, output>>

-----------------------------------------------------------------------------

AssetStep(n, a) ==
  \/ SkipIntraday(n, a)
  \/ ValidateInputsAvailable(n, a)
  \/ StoreEmpty(n, a)
  \/ TransformAsset(n, a)
  \/ TransformThrows(n, a)
  \/ StoreResult(n, a)
  \/ GatherCrossInput(n, a)
  \/ DistributeOutput(n, a)

NodeStep(n) ==
  \/ FireNode(n)
  \/ FinishNode(n)
  \/ CrossTransform(n)
  \/ CrossThrows(n)
  \/ \E a \in Assets : AssetStep(n, a)

Next ==
  \/ RegisterTransform
  \/ Constructed
  \/ \E data \in Feeds : ExecutePipeline(data)
  \/ \E n \in Nodes : NodeStep(n)
  \/ BuildFinalOutput
  \/ PipelineFailed

Spec == Init /\ [][Next]_vars

\* TBB keeps running every body it has started and every node whose messages
\* have arrived, and the calling thread waits for them; nothing obliges a
\* caller to call ExecutePipeline again.
Fairness ==
  /\ WF_vars(RegisterTransform \/ Constructed)
  /\ \A n \in Nodes : WF_vars(NodeStep(n))
  /\ WF_vars(BuildFinalOutput \/ PipelineFailed)

FairSpec == Spec /\ Fairness

-----------------------------------------------------------------------------
(* Properties. *)

\* A body starts only after the bodies of all transforms it reads from have
\* returned: the edges make_edge laid are enough to order the shared cache.
ProducersFirst ==
  \A n \in Nodes : phase = "running" /\ node[n] # "waiting" =>
    \A p \in Producers(n) : node[p] = "done"

FailedOn(p, a) == \E e \in log : e.node = p /\ a \in e.assets

\* What a body computes from, it read from this run: every input that did not
\* fail for the asset was stored by the run in progress, although the storage
\* keeps the columns of earlier runs.
FreshInputs ==
  \A n \in Nodes : \A a \in AssetIDs :
    phase = "running" /\ node[n] = "running" /\ step[n][a] \in {"ready", "computed"} =>
      \A p \in Producers(n) :
        HasColumns(p) /\ ~FailedOn(p, a) => cache[p][a].run = runs

\* A run that returns has run every transform and stored every column of every
\* asset of its data; none it returns is left over from an earlier run.
ReturnedComplete ==
  phase = "returned" =>
    \A n \in Registered :
      /\ node[n] = "done"
      /\ \A a \in AssetIDs :
           /\ HasColumns(n) => cache[n][a].run = runs
           /\ IsScalar(n) => scalarCache[n] # None

\* A scalar of a timeframe that no column is of, and no frame of an asset of the
\* strategy either: there is nothing to look its columns up in.
NowhereToStand(n) ==
  /\ IsScalar(n)
  /\ \A a \in StrategyAssets : ~Present(base, Def[n].timeframe, a)
  /\ \A m \in Registered : HasColumns(m) => Def[m].timeframe # Def[n].timeframe

\* A run fails for a reason of its own: errors logged in this run, none of which
\* the run before left in the logger, or a scalar with nowhere to stand, without
\* which the output is always built.
FailureHasCause ==
  phase = "failed" =>
    /\ \A e \in log : e.run = runs
    /\ log = {} => \E n \in Registered : NowhereToStand(n)

\* A dependency order is accepted, and any other list is refused by the constructor.
AcceptedOrders ==
  /\ phase \notin {"constructing", "rejected"} => DependencyOrder(order)
  /\ phase = "rejected" => ~DependencyOrder(order)

\* A run ends: no error in a body leaves the pipeline waiting.
Terminates == (phase = "running") ~> (phase \in {"returned", "failed"})

\* "Only store if not already cached (scalars are executed once)": no execution
\* of a scalar has an outcome other than the one in the cache.  Refuted: with an
\* empty frame for one asset the threads decide whether the scalar is null.
ScalarsExecutedOnce ==
  \A n \in Nodes : \A a \in AssetIDs :
    IsScalar(n) /\ phase = "running" /\ step[n][a] = "computed" =>
      scalarCache[n] \in {None, result[n][a]}

\* The concurrent run implements the evaluation of the graph.
Promise == INSTANCE Evaluation WITH
  phase <- IF phase \in {"constructing", "rejected"} THEN "idle" ELSE phase,
  feed <- base

Implements == Promise!Spec

=============================================================================
