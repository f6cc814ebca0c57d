--------------------------- MODULE DataFlowProofs ---------------------------
(***************************************************************************)
(* Theorems about DataFlow, for every graph, every set of assets, every    *)
(* data and any number of runs.                                            *)
(***************************************************************************)
EXTENDS DataFlow, NumberSets

-----------------------------------------------------------------------------
(* The metadata. *)

LEMMA DefTypes ==
  ASSUME NEW n \in Nodes
  PROVE  /\ Def[n] \in TransformDef
         /\ Edges(n) \in SUBSET Nat
         /\ Producers(n) \in SUBSET Nodes
         /\ Def[n].timeframe \in Timeframes
         /\ Def[n].yields \in Values
<1>1. Def[n] \in TransformDef
  BY GraphAssumption
<1>2. Def[n].inputs \in Seq(Nodes)
  BY <1>1 DEF TransformDef
<1>3. Edges(n) \in SUBSET Nat /\ Producers(n) \in SUBSET Nodes
  BY <1>2 DEF Edges, Producers
<1> QED
  BY <1>1, <1>3 DEF TransformDef

-----------------------------------------------------------------------------
(* The types of the variables.  Storing an output keeps those of the        *)
(* storage, and so a step of a body keeps all of them.                      *)

StorageTypes ==
  /\ base \in BaseData
  /\ cache \in [Nodes -> [Assets -> Columns]]
  /\ cachedTfs \in SUBSET Timeframes
  /\ scalarCache \in [Nodes -> {None} \cup Values]

LEMMA StoreTypes ==
  ASSUME TypeOK, NEW n \in Nodes, NEW a \in Assets, NEW v \in Values,
         StoreTransformOutput(n, a, v)
  PROVE  StorageTypes'
<1>1. [run |-> runs, val |-> v] \in Columns
  BY DEF TypeOK, Columns
<1>2. cache' \in [Nodes -> [Assets -> Columns]]
  <2>1. CASE HasColumns(n)
    BY <1>1, <2>1 DEF TypeOK, StoreTransformOutput
  <2>2. CASE ~HasColumns(n)
    BY <2>2 DEF TypeOK, StoreTransformOutput
  <2> QED BY <2>1, <2>2
<1>3. scalarCache' \in [Nodes -> {None} \cup Values]
  BY DEF TypeOK, StoreTransformOutput
<1>4. cachedTfs' \in SUBSET Timeframes
  BY DefTypes DEF TypeOK, StoreTransformOutput
<1> QED
  BY <1>2, <1>3, <1>4 DEF TypeOK, StoreTransformOutput, StorageTypes

LEMMA MovesTypes ==
  ASSUME TypeOK, NEW n \in Nodes, NEW a \in Assets, NEW s \in Steps, Moves(n, a, s)
  PROVE  /\ step' \in [Nodes -> [Assets -> Steps]]
         /\ phase' \in Phases
         /\ order' \in Seq(Nodes) /\ registered' \in 0..Len(order') /\ runs' \in Nat
         /\ node' \in [Nodes -> {"waiting", "running", "done"}]
         /\ awaited' \in [Nodes -> SUBSET Nat]
         /\ output' \in SUBSET [node : Nodes, asset : Assets, val : Values]
  BY DEF TypeOK, Moves, built

LEMMA LogTypes ==
  ASSUME TypeOK, NEW n \in Nodes, NEW A \in SUBSET Assets, LogError(n, A)
  PROVE  log' \in SUBSET [node : Nodes, assets : SUBSET Assets, run : Nat]
  BY DEF TypeOK, LogError

LEMMA AssetStepTypes ==
  ASSUME TypeOK, NEW n \in Nodes, NEW a \in Assets, AssetStep(n, a)
  PROVE  TypeOK'
<1> USE DEF Steps
<1> DEFINE Rest == /\ log' \in SUBSET [node : Nodes, assets : SUBSET Assets, run : Nat]
                   /\ result' \in [Nodes -> [Assets -> Values]]
<1>0. "null" \in Values /\ "value" \in Values /\ Def[n].yields \in Values
  BY DefTypes DEF Values
<1>1. CASE SkipIntraday(n, a)
  <2>1. StorageTypes' /\ Rest
    BY <1>0, <1>1, StoreTypes DEF SkipIntraday, TypeOK
  <2> QED BY <1>1, <2>1, MovesTypes DEF SkipIntraday, TypeOK, StorageTypes
<1>2. CASE ValidateInputsAvailable(n, a)
  <2>1. StorageTypes' /\ Rest
    BY <1>2 DEF ValidateInputsAvailable, TypeOK, storage, StorageTypes
  <2> QED BY <1>2, <2>1, MovesTypes DEF ValidateInputsAvailable, TypeOK, StorageTypes
<1>3. CASE StoreEmpty(n, a)
  <2>1. StorageTypes' /\ Rest
    BY <1>0, <1>3, StoreTypes DEF StoreEmpty, TypeOK
  <2> QED BY <1>3, <2>1, MovesTypes DEF StoreEmpty, TypeOK, StorageTypes
<1>4. CASE TransformAsset(n, a)
  <2>1. StorageTypes' /\ Rest
    BY <1>0, <1>4 DEF TransformAsset, TypeOK, storage, StorageTypes
  <2> QED BY <1>4, <2>1, MovesTypes DEF TransformAsset, TypeOK, StorageTypes
<1>5. CASE TransformThrows(n, a)
  <2>1. StorageTypes' /\ Rest
    BY <1>5, LogTypes DEF TransformThrows, TypeOK, storage, StorageTypes
  <2> QED BY <1>5, <2>1, MovesTypes DEF TransformThrows, TypeOK, StorageTypes
<1>6. CASE StoreResult(n, a)
  <2>1. result[n][a] \in Values
    BY DEF TypeOK
  <2>2. StorageTypes' /\ Rest
    BY <1>6, <2>1, StoreTypes DEF StoreResult, TypeOK
  <2> QED BY <1>6, <2>2, MovesTypes DEF StoreResult, TypeOK, StorageTypes
<1>7. CASE GatherCrossInput(n, a)
  <2>1. StorageTypes' /\ Rest
    BY <1>0, <1>7 DEF GatherCrossInput, TypeOK, storage, StorageTypes
  <2> QED BY <1>7, <2>1, MovesTypes DEF GatherCrossInput, TypeOK, StorageTypes
<1>8. CASE DistributeOutput(n, a)
  <2>1. result[n][a] \in Values
    BY DEF TypeOK
  <2>2. StorageTypes' /\ Rest
    BY <1>8, <2>1, StoreTypes DEF DistributeOutput, TypeOK
  <2> QED BY <1>8, <2>2, MovesTypes DEF DistributeOutput, TypeOK, StorageTypes
<1> QED
  BY <1>1, <1>2, <1>3, <1>4, <1>5, <1>6, <1>7, <1>8 DEF AssetStep

LEMMA InitTypes == Init => TypeOK
<1> SUFFICES ASSUME Init PROVE TypeOK
  OBVIOUS
<1>1. order \in Seq(Nodes)
  BY DataFlowAssumption DEF Init
<1>2. NotStored \in Columns
  BY DEF NotStored, Columns, Values
<1>3. base \in BaseData
  BY DEF Init, BaseData, Frames
<1> QED
  BY <1>1, <1>2, <1>3 DEF Init, TypeOK, Phases, Steps, Values

LEMMA NextTypes == TypeOK /\ [Next]_vars => TypeOK'
<1> SUFFICES ASSUME TypeOK, [Next]_vars PROVE TypeOK'
  OBVIOUS
<1> USE DEF Phases
<1>1. CASE RegisterTransform
  <2> DEFINE n == order[registered + 1]
  <2>1. n \in Nodes
    BY <1>1 DEF RegisterTransform, TypeOK
  <2>2. Edges(n) \in SUBSET Nat
    BY <2>1, DefTypes
  <2>3. /\ phase' \in Phases /\ registered' \in 0..Len(order)
        /\ awaited' \in [Nodes -> SUBSET Nat]
    <3>1. CASE n \in Registered \/ ~(Producers(n) \subseteq KnownHandles(n))
      BY <1>1, <3>1 DEF RegisterTransform, TypeOK
    <3>2. CASE ~(n \in Registered \/ ~(Producers(n) \subseteq KnownHandles(n)))
      <4>1. registered' = registered + 1 /\ phase' = phase
            /\ awaited' = [awaited EXCEPT ![n] = Edges(n)] /\ registered < Len(order)
        BY <1>1, <3>2 DEF RegisterTransform
      <4> HIDE DEF n
      <4> QED BY <4>1, <2>1, <2>2 DEF TypeOK
    <3> QED BY <3>1, <3>2
  <2> QED BY <1>1, <2>3 DEF RegisterTransform, TypeOK, storage
<1>2. CASE Constructed
  BY <1>2 DEF Constructed, TypeOK, storage, built
<1>3. CASE \E data \in Feeds : ExecutePipeline(data)
  <2>1. PICK data \in Feeds : ExecutePipeline(data)
    BY <1>3
  <2>2. base' \in BaseData
    BY <2>1, DataFlowAssumption DEF ExecutePipeline, InitializeBaseData
  <2> QED BY <2>1, <2>2 DEF ExecutePipeline, InitializeBaseData, TypeOK, built, Steps
<1>4. ASSUME NEW n \in Nodes, NodeStep(n) PROVE TypeOK'
  <2>1. CASE FireNode(n)
    <3>1. Edges(n) \in SUBSET Nat
      BY DefTypes
    <3> QED BY <2>1, <3>1 DEF FireNode, TypeOK, storage, built
  <2>2. CASE FinishNode(n)
    BY <2>2 DEF FinishNode, TypeOK, storage, built
  <2>3. CASE CrossTransform(n)
    <3>1. Def[n].yields \in Values /\ "null" \in Values
      BY DefTypes DEF Values
    <3>2. result' \in [Nodes -> [Assets -> Values]]
      BY <2>3, <3>1 DEF CrossTransform, TypeOK
    <3>3. step' \in [Nodes -> [Assets -> Steps]]
      <4> DEFINE next == IF HasOutputs(n) THEN "storing" ELSE "done"
      <4>1. next \in Steps
        BY DEF Steps
      <4>2. step' = [step EXCEPT ![n] =
                       [a \in Assets |-> IF a \in AssetIDs THEN next ELSE @[a]]]
        BY <2>3 DEF CrossTransform
      <4> HIDE DEF next
      <4> QED BY <4>1, <4>2 DEF TypeOK
    <3> QED BY <2>3, <3>2, <3>3 DEF CrossTransform, TypeOK, storage, built
  <2>4. CASE CrossThrows(n)
    <3>1. CrossAbandon(n)
      BY <2>4 DEF CrossThrows
    <3>2. log' \in SUBSET [node : Nodes, assets : SUBSET Assets, run : Nat]
      BY <3>1, LogTypes DEF CrossAbandon
    <3>3. step' \in [Nodes -> [Assets -> Steps]]
      BY <3>1 DEF CrossAbandon, TypeOK, Steps
    <3> QED BY <3>1, <3>2, <3>3 DEF CrossAbandon, TypeOK, storage, built
  <2>5. CASE \E a \in Assets : AssetStep(n, a)
    BY <2>5, AssetStepTypes
  <2> QED BY <1>4, <2>1, <2>2, <2>3, <2>4, <2>5 DEF NodeStep
<1>5. CASE BuildFinalOutput
  <2>1. FinalOutput \in SUBSET [node : Nodes, asset : Assets, val : Values]
    <3>1. ASSUME NEW n \in Exported PROVE n \in Nodes
      BY DEF Exported, Registered, TypeOK
    <3>2. ASSUME NEW n \in Nodes, NEW a \in Receivers(n)
          PROVE  a \in Assets /\ InputValue(n, a) \in Values
      <4>1. a \in Assets
        BY DEF Receivers, AssetIDs, AssetsOf
      <4>2. CASE IsScalar(n)
        BY <4>1, <4>2 DEF Receivers, InputValue, TypeOK
      <4>3. CASE ~IsScalar(n)
        <5>1. cache[n][a] \in Columns
          BY <4>1 DEF TypeOK
        <5> QED BY <4>1, <4>3, <5>1 DEF InputValue, Columns
      <4> QED BY <4>2, <4>3
    <3> QED BY <3>1, <3>2 DEF FinalOutput
  <2> QED BY <1>5, <2>1 DEF BuildFinalOutput, TypeOK, storage, built
<1>6. CASE PipelineFailed
  BY <1>6 DEF PipelineFailed, TypeOK, storage, built
<1>7. CASE UNCHANGED vars
  BY <1>7 DEF TypeOK, vars
<1> QED
  BY <1>1, <1>2, <1>3, <1>4, <1>5, <1>6, <1>7 DEF Next

\* Every state of the orchestrator has the types the variables were given.
THEOREM TypeCorrect == Spec => []TypeOK
<1>1. Init => TypeOK
  BY InitTypes
<1>2. TypeOK /\ [Next]_vars => TypeOK'
  BY NextTypes
<1> QED
  BY <1>1, <1>2, PTL DEF Spec

-----------------------------------------------------------------------------
(* The constructor accepts dependency orders only. *)

\* The first r of o are a dependency order without repetitions.
OrderedUpTo(o, r) ==
  /\ \A i \in 1..r : \A p \in Producers(o[i]) :
       HasOutputs(p) /\ \E j \in 1..i : o[j] = p
  /\ \A i, j \in 1..r : o[i] = o[j] => i = j

\* Registered so far: such a beginning of the list.
RegistrationInv ==
  /\ OrderedUpTo(order, registered)
  /\ phase \notin {"constructing", "rejected"} => registered = Len(order)

LEMMA RegisteredNodes ==
  ASSUME TypeOK
  PROVE  Registered \subseteq Nodes
  BY DEF TypeOK, Registered

LEMMA RegistrationStep ==
  ASSUME TypeOK, RegistrationInv, AcceptedOrders, [Next]_vars
  PROVE  RegistrationInv' /\ AcceptedOrders'
<1> DEFINE Kept == /\ UNCHANGED built
                   /\ phase \notin {"constructing", "rejected"}
                   /\ phase' \notin {"constructing", "rejected"}
<1> USE DEF RegistrationInv
<1>1. CASE RegisterTransform
  <2> DEFINE k == registered + 1
             n == order[k]
  <2>1. /\ phase = "constructing" /\ order' = order
        /\ registered < Len(order) /\ k \in 1..Len(order) /\ registered \in Nat
    BY <1>1 DEF RegisterTransform, TypeOK
  <2>2. CASE n \in Registered
    <3>1. PICK i \in 1..registered : order[i] = n
      BY <2>2 DEF Registered
    <3>2. ~DependencyOrder(order)
      <4>1. i \in DOMAIN order /\ k \in DOMAIN order /\ i # k
        BY <2>1, <3>1 DEF TypeOK
      <4> QED BY <3>1, <4>1 DEF DependencyOrder
    <3>3. phase' = "rejected" /\ registered' = registered
      BY <1>1, <2>2 DEF RegisterTransform
    <3> HIDE DEF k, n
    <3>4. RegistrationInv'
      BY <2>1, <3>3
    <3>5. AcceptedOrders'
      BY <2>1, <3>2, <3>3 DEF AcceptedOrders
    <3> QED BY <3>4, <3>5
  <2>3. CASE ~(Producers(n) \subseteq KnownHandles(n))
    <3>1. PICK p \in Producers(n) : p \notin KnownHandles(n)
      BY <2>3
    <3>2. ~DependencyOrder(order)
      <4>1. k \in DOMAIN order
        BY <2>1 DEF TypeOK
      <4>2. ASSUME NEW j \in 1..k PROVE order[j] \in Registered \cup {n}
        BY <2>1 DEF Registered
      <4>3. ~(HasOutputs(p) /\ \E j \in 1..k : order[j] = p)
        BY <3>1, <4>2 DEF KnownHandles
      <4> QED BY <3>1, <4>1, <4>3 DEF DependencyOrder
    <3>3. phase' = "rejected" /\ registered' = registered
      BY <1>1, <2>3 DEF RegisterTransform
    <3> HIDE DEF k, n
    <3>4. RegistrationInv'
      BY <2>1, <3>3
    <3>5. AcceptedOrders'
      BY <2>1, <3>2, <3>3 DEF AcceptedOrders
    <3> QED BY <3>4, <3>5
  <2>4. CASE n \notin Registered /\ Producers(n) \subseteq KnownHandles(n)
    <3>1. registered' = k /\ phase' = phase
      BY <1>1, <2>4 DEF RegisterTransform
    <3>2. \A p \in KnownHandles(n) : HasOutputs(p) /\ \E j \in 1..k : order[j] = p
      BY <2>1 DEF KnownHandles, Registered
    <3>3. ASSUME NEW i \in 1..k, NEW p \in Producers(order[i])
          PROVE  HasOutputs(p) /\ \E j \in 1..i : order[j] = p
      <4>1. CASE i = k
        BY <2>4, <3>2, <3>3, <4>1
      <4>2. CASE i \in 1..registered
        BY <3>3, <4>2 DEF OrderedUpTo
      <4> QED BY <2>1, <4>1, <4>2
    <3>4. \A i, j \in 1..k : order[i] = order[j] => i = j
      BY <2>1, <2>4 DEF Registered, OrderedUpTo
    <3>5. AcceptedOrders' /\ phase' = "constructing"
      BY <2>1, <3>1 DEF AcceptedOrders
    <3> HIDE DEF k, n
    <3>6. OrderedUpTo(order, k)
      BY <3>3, <3>4 DEF OrderedUpTo
    <3>7. RegistrationInv'
      BY <2>1, <3>1, <3>5, <3>6
    <3> QED BY <3>5, <3>7
  <2> QED BY <2>2, <2>3, <2>4
<1>2. CASE Constructed
  <2>1. registered = Len(order) /\ DOMAIN order = 1..Len(order)
    BY <1>2 DEF Constructed, TypeOK
  <2>2. DependencyOrder(order)
    BY <1>2, <2>1 DEF DependencyOrder, OrderedUpTo, Constructed
  <2> QED BY <1>2, <2>1, <2>2 DEF Constructed, AcceptedOrders, built
<1>3. CASE Kept
  BY <1>3 DEF built, AcceptedOrders
<1>4. CASE \E data \in Feeds : ExecutePipeline(data)
  BY <1>3, <1>4 DEF ExecutePipeline
<1>5. ASSUME NEW n \in Nodes, NodeStep(n) PROVE Kept
  BY <1>5 DEF NodeStep, FireNode, FinishNode, CrossTransform, CrossThrows, CrossAbandon,
     CrossGathered, Busy, AssetStep, Moves, SkipIntraday, ValidateInputsAvailable, StoreEmpty,
     TransformAsset, TransformThrows, StoreResult, GatherCrossInput, DistributeOutput
<1>6. CASE BuildFinalOutput \/ PipelineFailed
  BY <1>3, <1>6 DEF BuildFinalOutput, PipelineFailed, Quiescent
<1>7. CASE UNCHANGED vars
  BY <1>7 DEF vars, AcceptedOrders
<1> QED
  BY <1>1, <1>2, <1>3, <1>4, <1>5, <1>6, <1>7 DEF Next

-----------------------------------------------------------------------------
(* The flow graph orders the bodies. *)

\* Between runs every node awaits all of its edges.  During a run a node that
\* has fired awaits them all again, and one that has not awaits those whose
\* producer is not done.
WiringInv ==
  /\ phase # "running" => \A n \in Registered : awaited[n] = Edges(n)
  /\ phase = "running" => \A n \in Nodes :
       /\ node[n] # "waiting" =>
            n \in Registered /\ awaited[n] = Edges(n) /\ \A p \in Producers(n) : node[p] = "done"
       /\ node[n] = "waiting" /\ n \in Registered =>
            awaited[n] = {i \in Edges(n) : node[Def[n].inputs[i]] # "done"}

\* When nothing can fire, everything has run: the first transform of the order
\* that is not done would have all of its inputs.
LEMMA QuiescentDone ==
  ASSUME NoSelfReader, TypeOK, RegistrationInv, WiringInv, Quiescent
  PROVE  \A n \in Registered : node[n] = "done"
<1> DEFINE T == {i \in 1..registered : node[order[i]] # "done"}
<1>1. SUFFICES ASSUME T # {} PROVE FALSE
  BY DEF Registered
<1>2. PICK x \in T : \A y \in T : x <= y
  <2>1. registered \in Nat /\ IsFiniteSet(1..registered)
    BY FS_Interval DEF TypeOK
  <2>2. T \in SUBSET Nat /\ IsFiniteSet(T)
    BY <2>1, FS_Subset
  <2> HIDE DEF T
  <2> QED BY <1>1, <2>2, Extremes
<1> DEFINE n == order[x]
<1>3. x \in 1..registered /\ n \in Nodes /\ n \in Registered /\ node[n] # "done"
  BY DEF TypeOK, Registered
<1>4. node[n] = "waiting"
  BY <1>3 DEF Quiescent, TypeOK
<1>5. ASSUME NEW p \in Producers(n) PROVE node[p] = "done"
  <2>1. p # n
    BY <1>3 DEF NoSelfReader
  <2>2. PICK j \in 1..x : p = order[j]
    BY <1>3 DEF RegistrationInv, OrderedUpTo
  <2>3. j \in 1..registered /\ j # x /\ j < x
    BY <1>3, <2>1, <2>2 DEF TypeOK
  <2>4. j \notin T
    BY <1>2, <2>3 DEF TypeOK
  <2> QED BY <2>2, <2>3, <2>4
<1>6. awaited[n] = {i \in Edges(n) : node[Def[n].inputs[i]] # "done"}
  BY <1>3, <1>4 DEF WiringInv, Quiescent
<1>7. awaited[n] = {}
  BY <1>5, <1>6 DEF Producers, Edges
<1> QED
  BY <1>3, <1>4, <1>7 DEF Quiescent, CanFire

\* The actions that leave the flow graph alone.
FlowKept == UNCHANGED <<phase, order, registered, node, awaited>>

LEMMA BodyKeepsFlow ==
  ASSUME NEW n \in Nodes
  PROVE  /\ CrossTransform(n) => FlowKept
         /\ CrossThrows(n) => FlowKept
         /\ \A a \in Assets : AssetStep(n, a) => FlowKept
<1> USE DEF FlowKept, built
<1>1. CrossTransform(n) => FlowKept
  BY DEF CrossTransform
<1>2. CrossThrows(n) => FlowKept
  BY DEF CrossThrows, CrossAbandon
<1>3. ASSUME NEW a \in Assets, AssetStep(n, a) PROVE FlowKept
  BY <1>3 DEF AssetStep, Moves, SkipIntraday, ValidateInputsAvailable, StoreEmpty,
     TransformAsset, TransformThrows, StoreResult, GatherCrossInput, DistributeOutput
<1> QED
  BY <1>1, <1>2, <1>3

LEMMA WiringStep ==
  ASSUME NoSelfReader, TypeOK, RegistrationInv, WiringInv, [Next]_vars
  PROVE  WiringInv'
<1>1. CASE FlowKept
  BY <1>1 DEF FlowKept, WiringInv, Registered
<1>2. CASE RegisterTransform
  <2> DEFINE n == order[registered + 1]
  <2>1. /\ phase = "constructing" /\ order' = order /\ registered < Len(order)
        /\ registered \in Nat /\ n \in Nodes /\ phase' # "running"
    BY <1>2 DEF RegisterTransform, TypeOK
  <2>2. CASE n \in Registered \/ ~(Producers(n) \subseteq KnownHandles(n))
    <3>1. UNCHANGED <<registered, awaited>>
      BY <1>2, <2>2 DEF RegisterTransform
    <3> QED BY <2>1, <3>1 DEF WiringInv, Registered
  <2>3. CASE ~(n \in Registered \/ ~(Producers(n) \subseteq KnownHandles(n)))
    <3>1. registered' = registered + 1 /\ awaited' = [awaited EXCEPT ![n] = Edges(n)]
      BY <1>2, <2>3 DEF RegisterTransform
    <3>2. Registered' \subseteq Registered \cup {n}
      BY <2>1, <3>1 DEF Registered
    <3> HIDE DEF n
    <3>3. \A m \in Registered \cup {n} : awaited'[m] = Edges(m)
      BY <2>1, <3>1 DEF WiringInv, TypeOK, Registered
    <3> QED BY <2>1, <3>2, <3>3 DEF WiringInv
  <2> QED BY <2>2, <2>3
<1>3. CASE Constructed
  BY <1>3 DEF Constructed, WiringInv, Registered, built
<1>4. CASE \E data \in Feeds : ExecutePipeline(data)
  <2>1. /\ phase # "running" /\ phase' = "running" /\ Registered' = Registered
        /\ awaited' = awaited /\ node' = [n \in Nodes |-> "waiting"]
    BY <1>4 DEF ExecutePipeline, Registered, built
  <2>2. ASSUME NEW n \in Registered'
        PROVE  awaited'[n] = {i \in Edges(n) : node'[Def[n].inputs[i]] # "done"}
    <3>1. n \in Nodes
      BY <2>1, <2>2, RegisteredNodes
    <3>2. \A i \in Edges(n) : Def[n].inputs[i] \in Nodes
      BY <3>1, DefTypes DEF Producers
    <3>3. \A i \in Edges(n) : node'[Def[n].inputs[i]] # "done"
      BY <2>1, <3>2
    <3>4. awaited'[n] = Edges(n)
      BY <2>1, <2>2 DEF WiringInv
    <3> QED BY <3>3, <3>4
  <2> QED BY <2>1, <2>2 DEF WiringInv
<1>5. ASSUME NEW n \in Nodes, FireNode(n) PROVE WiringInv'
  <2>1. /\ phase = "running" /\ phase' = "running" /\ Registered' = Registered
        /\ n \in Registered /\ node[n] = "waiting" /\ awaited[n] = {}
        /\ node' = [node EXCEPT ![n] = "running"]
        /\ awaited' = [awaited EXCEPT ![n] = Edges(n)]
    BY <1>5 DEF FireNode, CanFire, Registered, built
  <2>2. ASSUME NEW p \in Nodes PROVE node'[p] = "done" <=> node[p] = "done"
    BY <2>1 DEF TypeOK
  <2>3. \A p \in Producers(n) : node[p] = "done"
    BY <2>1 DEF WiringInv, Producers, Edges
  <2>4. ASSUME NEW m \in Nodes, node'[m] # "waiting"
        PROVE  m \in Registered /\ awaited'[m] = Edges(m) /\ \A p \in Producers(m) : node'[p] = "done"
    BY <2>1, <2>2, <2>3, <2>4, DefTypes DEF WiringInv, TypeOK
  <2>5. ASSUME NEW m \in Nodes, node'[m] = "waiting", m \in Registered
        PROVE  awaited'[m] = {i \in Edges(m) : node'[Def[m].inputs[i]] # "done"}
    <3>1. node[m] = "waiting" /\ awaited'[m] = awaited[m]
      BY <2>1, <2>5 DEF TypeOK
    <3>2. \A i \in Edges(m) : Def[m].inputs[i] \in Nodes
      BY DefTypes DEF Producers
    <3> QED BY <2>1, <2>2, <2>5, <3>1, <3>2 DEF WiringInv
  <2> QED BY <2>1, <2>4, <2>5 DEF WiringInv
<1>6. ASSUME NEW n \in Nodes, FinishNode(n) PROVE WiringInv'
  <2>1. /\ phase = "running" /\ phase' = "running" /\ Registered' = Registered
        /\ node[n] = "running"
        /\ node' = [node EXCEPT ![n] = "done"]
        /\ awaited' = [m \in Nodes |-> awaited[m] \ EdgesFrom(m, n)]
    BY <1>6 DEF FinishNode, Registered, built
  <2>2. ASSUME NEW m \in Nodes, node'[m] # "waiting"
        PROVE  m \in Registered /\ awaited'[m] = Edges(m) /\ \A p \in Producers(m) : node'[p] = "done"
    <3>1. node[m] # "waiting"
      BY <2>1, <2>2 DEF TypeOK
    <3>2. /\ m \in Registered /\ awaited[m] = Edges(m)
          /\ \A p \in Producers(m) : node[p] = "done"
      BY <2>1, <3>1 DEF WiringInv
    <3>3. n \notin Producers(m)
      BY <2>1, <3>2
    <3>4. EdgesFrom(m, n) = {}
      BY <3>3 DEF EdgesFrom, Producers
    <3> QED BY <2>1, <3>2, <3>4, DefTypes DEF TypeOK
  <2>3. ASSUME NEW m \in Nodes, node'[m] = "waiting", m \in Registered
        PROVE  awaited'[m] = {i \in Edges(m) : node'[Def[m].inputs[i]] # "done"}
    <3>1. node[m] = "waiting"
      BY <2>1, <2>3 DEF TypeOK
    <3>2. awaited[m] = {i \in Edges(m) : node[Def[m].inputs[i]] # "done"}
      BY <2>1, <2>3, <3>1 DEF WiringInv
    <3>3. \A i \in Edges(m) : Def[m].inputs[i] \in Nodes
      BY DefTypes DEF Producers
    <3> QED BY <2>1, <3>2, <3>3 DEF EdgesFrom, TypeOK
  <2> QED BY <2>1, <2>2, <2>3 DEF WiringInv
<1>7. CASE BuildFinalOutput \/ PipelineFailed
  <2>1. /\ Quiescent /\ phase = "running" /\ phase' # "running" /\ Registered' = Registered
        /\ awaited' = awaited
    BY <1>7 DEF BuildFinalOutput, PipelineFailed, Quiescent, Registered, built
  <2>2. \A n \in Registered : n \in Nodes /\ node[n] = "done"
    BY <2>1, QuiescentDone DEF Registered, TypeOK
  <2> QED BY <2>1, <2>2 DEF WiringInv
<1>8. CASE UNCHANGED vars
  BY <1>1, <1>8 DEF vars, FlowKept
<1>9. ASSUME NEW n \in Nodes, NodeStep(n) PROVE WiringInv'
  <2>1. FlowKept \/ FireNode(n) \/ FinishNode(n)
    BY <1>9, BodyKeepsFlow DEF NodeStep
  <2> QED BY <1>1, <1>5, <1>6, <2>1
<1> QED
  BY <1>2, <1>3, <1>4, <1>7, <1>8, <1>9 DEF Next

-----------------------------------------------------------------------------
(* What a body has done is in the storage. *)

Stored(n, a) ==
  /\ HasColumns(n) => cache[n][a].run = runs
  /\ IsScalar(n) => scalarCache[n] # None

\* A body that has not started has done nothing, one that has returned has done
\* all assets, and what is done and did not fail was stored in this run.
StoredInv ==
  phase = "running" => \A n \in Nodes :
    /\ node[n] = "waiting" => \A a \in Assets : step[n][a] = "todo"
    /\ node[n] = "done" => \A a \in AssetIDs : step[n][a] = "done"
    /\ \A a \in AssetIDs : step[n][a] = "done" /\ ~FailedOn(n, a) => Stored(n, a)

LEMMA NoneIsNoValue == None \notin Values /\ "null" \in Values /\ "value" \in Values
  BY DEF None, Values

LEMMA StoreStores ==
  ASSUME TypeOK, NEW n \in Nodes, NEW a \in Assets, NEW v \in Values,
         StoreTransformOutput(n, a, v), runs' = runs
  PROVE  /\ Stored(n, a)'
         /\ \A m \in Nodes : \A b \in Assets : Stored(m, b) => Stored(m, b)'
<1>1. v # None
  BY NoneIsNoValue
<1>2. HasColumns(n) => cache'[n][a].run = runs
  BY DEF StoreTransformOutput, TypeOK
<1>3. IsScalar(n) => scalarCache'[n] # None
  BY <1>1 DEF StoreTransformOutput, TypeOK
<1>4. ASSUME NEW m \in Nodes, NEW b \in Assets, cache[m][b].run = runs
      PROVE  cache'[m][b].run = runs
  BY <1>4 DEF StoreTransformOutput, TypeOK
<1>5. ASSUME NEW m \in Nodes, scalarCache[m] # None PROVE scalarCache'[m] # None
  BY <1>1, <1>5 DEF StoreTransformOutput, TypeOK
<1> QED
  BY <1>2, <1>3, <1>4, <1>5 DEF Stored

\* What a step of a body on one asset may do: it marks the asset done after
\* storing its output or logging its failure.
BodyStep(n, a) ==
  /\ phase = "running" /\ phase' = "running" /\ node[n] = "running" /\ node' = node
  /\ base' = base /\ runs' = runs
  /\ \A m \in Nodes : \A b \in Assets : <<m, b>> # <<n, a>> => step'[m][b] = step[m][b]
  /\ \A m \in Nodes : \A b \in Assets : FailedOn(m, b) => FailedOn(m, b)'
  /\ \A m \in Nodes : \A b \in Assets : Stored(m, b) => Stored(m, b)'
  /\ step'[n][a] = "done" => FailedOn(n, a)' \/ Stored(n, a)'

LEMMA BodyStepInv ==
  ASSUME TypeOK, StoredInv, NEW n \in Nodes, NEW a \in Assets, BodyStep(n, a)
  PROVE  StoredInv'
<1>1. AssetIDs' = AssetIDs /\ AssetIDs \subseteq Assets
  BY DEF BodyStep, AssetIDs, AssetsOf, Present
<1>2. ASSUME NEW m \in Nodes, node'[m] = "waiting", NEW b \in Assets
      PROVE  step'[m][b] = "todo"
  BY <1>2 DEF BodyStep, StoredInv
<1>3. ASSUME NEW m \in Nodes, node'[m] = "done", NEW b \in AssetIDs
      PROVE  step'[m][b] = "done"
  BY <1>1, <1>3 DEF BodyStep, StoredInv
<1>4. ASSUME NEW m \in Nodes, NEW b \in AssetIDs, step'[m][b] = "done", ~FailedOn(m, b)'
      PROVE  Stored(m, b)'
  <2>1. CASE m = n /\ b = a
    BY <1>4, <2>1 DEF BodyStep
  <2>2. CASE <<m, b>> # <<n, a>>
    BY <1>1, <1>4, <2>2 DEF BodyStep, StoredInv
  <2> QED BY <2>1, <2>2
<1> QED
  BY <1>1, <1>2, <1>3, <1>4 DEF StoredInv, BodyStep

LEMMA AssetStepIsBodyStep ==
  ASSUME TypeOK, NEW n \in Nodes, NEW a \in Assets, AssetStep(n, a)
  PROVE  BodyStep(n, a)
<1> DEFINE Frame == /\ phase = "running" /\ phase' = "running"
                    /\ node[n] = "running" /\ node' = node /\ runs' = runs
                    /\ \A m \in Nodes : \A b \in Assets :
                         <<m, b>> # <<n, a>> => step'[m][b] = step[m][b]
<1>1. ASSUME NEW s \in Steps, NEW t \in Steps, Busy(n, a, s), Moves(n, a, t)
      PROVE  Frame /\ step'[n][a] = t
  BY <1>1 DEF Busy, Moves, TypeOK
<1>2. ASSUME NEW v \in Values, NEW s \in Steps, Busy(n, a, s), Moves(n, a, "done"),
             StoreTransformOutput(n, a, v), log' = log
      PROVE  BodyStep(n, a)
  <2>1. Frame
    BY <1>1, <1>2 DEF Steps
  <2>2. Stored(n, a)' /\ \A m \in Nodes : \A b \in Assets : Stored(m, b) => Stored(m, b)'
    BY <1>2, <2>1, StoreStores
  <2>3. base' = base
    BY <1>2 DEF StoreTransformOutput
  <2> QED BY <1>2, <2>1, <2>2, <2>3 DEF BodyStep, FailedOn
<1>3. ASSUME NEW s \in Steps, NEW t \in Steps, Busy(n, a, s), Moves(n, a, t),
             UNCHANGED storage, log \subseteq log', t = "done" => FailedOn(n, a)'
      PROVE  BodyStep(n, a)
  <2>1. Frame /\ step'[n][a] = t
    BY <1>1, <1>3
  <2>2. base' = base /\ \A m \in Nodes : \A b \in Assets : Stored(m, b) => Stored(m, b)'
    BY <1>3, <2>1 DEF storage, Stored
  <2> QED BY <1>3, <2>1, <2>2 DEF BodyStep, FailedOn
<1>4. CASE SkipIntraday(n, a)
  BY <1>2, <1>4, NoneIsNoValue DEF SkipIntraday, Steps
<1>5. CASE ValidateInputsAvailable(n, a)
  BY <1>3, <1>5 DEF ValidateInputsAvailable, Steps
<1>6. CASE StoreEmpty(n, a)
  BY <1>2, <1>6, NoneIsNoValue DEF StoreEmpty, Steps
<1>7. CASE TransformAsset(n, a)
  BY <1>3, <1>7 DEF TransformAsset, Steps
<1>8. CASE TransformThrows(n, a)
  <2> DEFINE entry == [node |-> n, assets |-> {a}, run |-> runs]
  <2>0. log' = log \cup {entry}
    BY <1>8 DEF TransformThrows, LogError
  <2>1. FailedOn(n, a)' /\ log \subseteq log'
    <3>1. entry \in log' /\ entry.node = n /\ a \in entry.assets
      BY <2>0
    <3> HIDE DEF entry
    <3> QED BY <2>0, <3>1 DEF FailedOn
  <2> QED BY <1>3, <1>8, <2>1 DEF TransformThrows, Steps
<1>9. CASE StoreResult(n, a)
  <2>1. result[n][a] \in Values
    BY DEF TypeOK
  <2> QED BY <1>2, <1>9, <2>1 DEF StoreResult, Steps
<1>10. CASE GatherCrossInput(n, a)
  BY <1>3, <1>10 DEF GatherCrossInput, Steps
<1>11. CASE DistributeOutput(n, a)
  <2>1. result[n][a] \in Values
    BY DEF TypeOK
  <2> QED BY <1>2, <1>11, <2>1 DEF DistributeOutput, Steps
<1> QED
  BY <1>4, <1>5, <1>6, <1>7, <1>8, <1>9, <1>10, <1>11 DEF AssetStep

\* Both cross-sectional steps take all assets of the node at once.
LEMMA CrossStepInv ==
  ASSUME TypeOK, StoredInv, NEW n \in Nodes, CrossTransform(n) \/ CrossThrows(n)
  PROVE  StoredInv'
<1>1. /\ phase = "running" /\ phase' = "running" /\ node[n] = "running" /\ node' = node
      /\ UNCHANGED storage /\ runs' = runs
  BY DEF CrossTransform, CrossThrows, CrossAbandon, CrossGathered, Busy, storage
<1>2. AssetIDs' = AssetIDs /\ AssetIDs \subseteq Assets
  BY <1>1 DEF storage, AssetIDs, AssetsOf, Present
<1>3. \A m \in Nodes : \A a \in Assets : m # n => step'[m][a] = step[m][a]
  BY DEF CrossTransform, CrossThrows, CrossAbandon, TypeOK
<1>4. \A m \in Nodes : \A a \in Assets : Stored(m, a)' <=> Stored(m, a)
  BY <1>1 DEF Stored, storage
<1>5. \A m \in Nodes : \A a \in Assets : FailedOn(m, a) => FailedOn(m, a)'
  BY DEF CrossTransform, CrossThrows, CrossAbandon, LogError, FailedOn
<1>6. ASSUME NEW a \in AssetIDs, step'[n][a] = "done", ~FailedOn(n, a)'
      PROVE  Stored(n, a)'
  <2>1. CASE CrossTransform(n)
    <3>1. ~HasOutputs(n)
      BY <1>2, <1>6, <2>1 DEF CrossTransform, TypeOK
    <3>2. ~HasColumns(n) /\ ~IsScalar(n)
      BY <3>1 DEF HasColumns, HasOutputs, IsScalar
    <3> QED BY <3>2 DEF Stored
  <2>2. CASE CrossThrows(n)
    <3> DEFINE entry == [node |-> n, assets |-> Assets, run |-> runs]
    <3>1. entry \in log'
      BY <2>2 DEF CrossThrows, CrossAbandon, LogError
    <3>2. entry.node = n /\ a \in entry.assets
      BY <1>2
    <3> HIDE DEF entry
    <3> QED BY <1>6, <3>1, <3>2 DEF FailedOn
  <2> QED BY <2>1, <2>2
<1>7. ASSUME NEW m \in Nodes, node'[m] = "waiting", NEW a \in Assets
      PROVE  step'[m][a] = "todo"
  BY <1>1, <1>3, <1>7 DEF StoredInv
<1>8. ASSUME NEW m \in Nodes, node'[m] = "done", NEW a \in AssetIDs
      PROVE  step'[m][a] = "done"
  BY <1>1, <1>2, <1>3, <1>8 DEF StoredInv
<1>9. ASSUME NEW m \in Nodes, NEW a \in AssetIDs, step'[m][a] = "done", ~FailedOn(m, a)'
      PROVE  Stored(m, a)'
  <2>1. CASE m = n
    BY <1>6, <1>9, <2>1
  <2>2. CASE m # n
    BY <1>1, <1>2, <1>3, <1>4, <1>5, <1>9, <2>2 DEF StoredInv
  <2> QED BY <2>1, <2>2
<1> QED
  BY <1>1, <1>2, <1>7, <1>8, <1>9 DEF StoredInv

LEMMA StoredStep ==
  ASSUME TypeOK, StoredInv, [Next]_vars
  PROVE  StoredInv'
<1>1. CASE phase' # "running"
  BY <1>1 DEF StoredInv
<1>2. CASE RegisterTransform
  BY <1>1, <1>2 DEF RegisterTransform
<1>3. CASE Constructed
  BY <1>1, <1>3 DEF Constructed
<1>4. CASE \E data \in Feeds : ExecutePipeline(data)
  <2>1. /\ node' = [n \in Nodes |-> "waiting"]
        /\ step' = [n \in Nodes |-> [a \in Assets |-> "todo"]]
    BY <1>4 DEF ExecutePipeline
  <2>2. AssetIDs' \subseteq Assets
    BY DEF AssetIDs, AssetsOf
  <2> QED BY <2>1, <2>2 DEF StoredInv
<1>5. ASSUME NEW n \in Nodes, FireNode(n) \/ FinishNode(n) PROVE StoredInv'
  <2>1. /\ phase = "running" /\ UNCHANGED <<storage, log, step, runs>>
        /\ node' = [node EXCEPT ![n] = "running"] \/
              /\ node' = [node EXCEPT ![n] = "done"]
              /\ \A a \in AssetIDs : step[n][a] = "done"
    BY <1>5 DEF FireNode, FinishNode
  <2>2. AssetIDs' = AssetIDs /\ AssetIDs \subseteq Assets
    BY <2>1 DEF storage, AssetIDs, AssetsOf, Present
  <2>3. \A m \in Nodes : \A a \in Assets :
          (Stored(m, a)' <=> Stored(m, a)) /\ (FailedOn(m, a)' <=> FailedOn(m, a))
    BY <2>1 DEF storage, Stored, FailedOn
  <2>4. ASSUME NEW m \in Nodes
        PROVE  /\ node'[m] = "waiting" => node[m] = "waiting"
               /\ node'[m] = "done" => \A a \in AssetIDs : step[m][a] = "done"
    <3>1. CASE m = n
      BY <2>1, <3>1 DEF TypeOK
    <3>2. CASE m # n
      BY <2>1, <3>2 DEF TypeOK, StoredInv
    <3> QED BY <3>1, <3>2
  <2> QED BY <2>1, <2>2, <2>3, <2>4 DEF StoredInv
<1>6. ASSUME NEW n \in Nodes, NodeStep(n) PROVE StoredInv'
  BY <1>5, <1>6, CrossStepInv, AssetStepIsBodyStep, BodyStepInv DEF NodeStep
<1>7. CASE BuildFinalOutput \/ PipelineFailed
  BY <1>1, <1>7 DEF BuildFinalOutput, PipelineFailed
<1>8. CASE UNCHANGED vars
  <2>1. AssetIDs' = AssetIDs
    BY <1>8 DEF vars, AssetIDs, AssetsOf, Present
  <2> QED BY <1>8, <2>1 DEF vars, StoredInv, Stored, FailedOn
<1> QED
  BY <1>2, <1>3, <1>4, <1>6, <1>7, <1>8 DEF Next

-----------------------------------------------------------------------------
(* The results. *)

LEMMA ReturnedStep ==
  ASSUME NoSelfReader, TypeOK, RegistrationInv, WiringInv, StoredInv, ReturnedComplete,
         [Next]_vars
  PROVE  ReturnedComplete'
<1>1. CASE phase' # "returned"
  BY <1>1 DEF ReturnedComplete
<1>2. CASE BuildFinalOutput
  <2>1. \A n \in Registered : n \in Nodes /\ node[n] = "done"
    BY <1>2, QuiescentDone, RegisteredNodes DEF BuildFinalOutput
  <2>2. ASSUME NEW n \in Registered, NEW a \in AssetIDs PROVE Stored(n, a)
    <3>1. phase = "running" /\ log = {}
      BY <1>2 DEF BuildFinalOutput, Quiescent
    <3>2. ~FailedOn(n, a)
      BY <3>1 DEF FailedOn
    <3> QED BY <2>1, <3>1, <3>2 DEF StoredInv
  <2>3. /\ UNCHANGED <<storage, node, runs>> /\ Registered' = Registered
        /\ AssetIDs' = AssetIDs
    BY <1>2 DEF BuildFinalOutput, Registered, built, storage, AssetIDs, AssetsOf, Present
  <2> QED BY <2>1, <2>2, <2>3 DEF ReturnedComplete, Stored, storage
<1>3. CASE UNCHANGED vars
  <2>1. AssetIDs' = AssetIDs /\ Registered' = Registered
    BY <1>3 DEF vars, AssetIDs, AssetsOf, Present, Registered
  <2> QED BY <1>3, <2>1 DEF vars, ReturnedComplete
<1>4. ASSUME NEW n \in Nodes, NodeStep(n) PROVE phase' # "returned"
  BY <1>4 DEF NodeStep, FireNode, FinishNode, CrossTransform, CrossThrows, CrossAbandon,
     CrossGathered, Busy, AssetStep, Moves, SkipIntraday, ValidateInputsAvailable, StoreEmpty,
     TransformAsset, TransformThrows, StoreResult, GatherCrossInput, DistributeOutput
<1>5. CASE RegisterTransform \/ Constructed
  BY <1>1, <1>5 DEF RegisterTransform, Constructed
<1>6. CASE (\E data \in Feeds : ExecutePipeline(data)) \/ PipelineFailed
  BY <1>1, <1>6 DEF ExecutePipeline, PipelineFailed
<1> QED
  BY <1>1, <1>2, <1>3, <1>4, <1>5, <1>6 DEF Next

-----------------------------------------------------------------------------
(* Why a run fails. *)

\* During a run the logger holds errors of this run only, and the cache has a
\* bucket for every timeframe of a frame of the strategy's assets and, always,
\* for that of every column stored.
BucketInv ==
  /\ phase = "running" =>
       /\ \A e \in log : e.run = runs
       /\ \A a \in StrategyAssets : \A t \in Timeframes : Present(base, t, a) => t \in cachedTfs
  /\ runs = 0 => phase # "running"
  /\ \A n \in Nodes : \A a \in Assets : cache[n][a].run # 0 => Def[n].timeframe \in cachedTfs

\* What a step of a run may do to the logger and the buckets.
BucketStep ==
  /\ phase = "running" /\ phase' = "running" /\ base' = base /\ runs' = runs
  /\ \A e \in log' : e \in log \/ e.run = runs
  /\ cachedTfs \subseteq cachedTfs'
  /\ \A n \in Nodes : \A a \in Assets :
       cache'[n][a] = cache[n][a] \/ Def[n].timeframe \in cachedTfs'

LEMMA BucketStepInv ==
  ASSUME BucketInv, BucketStep
  PROVE  BucketInv'
<1>1. \A a \in StrategyAssets : \A t \in Timeframes : Present(base', t, a) => t \in cachedTfs'
  BY DEF BucketInv, BucketStep, Present
<1>2. \A n \in Nodes : \A a \in Assets : cache'[n][a].run # 0 => Def[n].timeframe \in cachedTfs'
  BY DEF BucketInv, BucketStep
<1>3. \A e \in log' : e.run = runs'
  BY DEF BucketInv, BucketStep
<1> QED
  BY <1>1, <1>2, <1>3 DEF BucketInv, BucketStep

LEMMA AssetStepIsBucketStep ==
  ASSUME TypeOK, NEW n \in Nodes, NEW a \in Assets, AssetStep(n, a)
  PROVE  BucketStep
<1>1. ASSUME NEW v, NEW s, Busy(n, a, s), Moves(n, a, "done"),
             StoreTransformOutput(n, a, v), log' = log
      PROVE  BucketStep
  <2>1. ASSUME NEW m \in Nodes, NEW b \in Assets
        PROVE  cache'[m][b] = cache[m][b] \/ Def[m].timeframe \in cachedTfs'
    <3>1. CASE HasColumns(n) /\ m = n
      BY <1>1, <3>1 DEF StoreTransformOutput
    <3>2. CASE ~(HasColumns(n) /\ m = n)
      BY <1>1, <3>2 DEF StoreTransformOutput, TypeOK
    <3> QED BY <3>1, <3>2
  <2> QED BY <1>1, <2>1 DEF BucketStep, Busy, Moves, StoreTransformOutput
<1>2. ASSUME NEW s, NEW t, Busy(n, a, s), Moves(n, a, t), UNCHANGED storage,
             \A e \in log' : e \in log \/ e.run = runs
      PROVE  BucketStep
  BY <1>2 DEF BucketStep, Busy, Moves, storage
<1>3. CASE SkipIntraday(n, a)
  BY <1>1, <1>3 DEF SkipIntraday
<1>4. CASE ValidateInputsAvailable(n, a)
  BY <1>2, <1>4 DEF ValidateInputsAvailable
<1>5. CASE StoreEmpty(n, a)
  BY <1>1, <1>5 DEF StoreEmpty
<1>6. CASE TransformAsset(n, a)
  BY <1>2, <1>6 DEF TransformAsset
<1>7. CASE TransformThrows(n, a)
  BY <1>2, <1>7 DEF TransformThrows, LogError
<1>8. CASE StoreResult(n, a)
  BY <1>1, <1>8 DEF StoreResult
<1>9. CASE GatherCrossInput(n, a)
  BY <1>2, <1>9 DEF GatherCrossInput
<1>10. CASE DistributeOutput(n, a)
  BY <1>1, <1>10 DEF DistributeOutput
<1> QED
  BY <1>3, <1>4, <1>5, <1>6, <1>7, <1>8, <1>9, <1>10 DEF AssetStep

LEMMA NodeStepIsBucketStep ==
  ASSUME TypeOK, NEW n \in Nodes, NodeStep(n)
  PROVE  BucketStep
<1>1. CASE FireNode(n) \/ FinishNode(n)
  BY <1>1 DEF FireNode, FinishNode, storage, BucketStep
<1>2. CASE CrossTransform(n)
  BY <1>2 DEF CrossTransform, CrossGathered, storage, BucketStep
<1>3. CASE CrossThrows(n)
  <2>1. CrossAbandon(n) /\ phase = "running"
    BY <1>3 DEF CrossThrows, CrossGathered, Busy
  <2> QED BY <2>1 DEF CrossAbandon, LogError, storage, BucketStep
<1> QED
  BY <1>1, <1>2, <1>3, AssetStepIsBucketStep DEF NodeStep

LEMMA BucketsStep ==
  ASSUME TypeOK, BucketInv, [Next]_vars
  PROVE  BucketInv'
<1>1. CASE phase' # "running" /\ runs' = runs /\ UNCHANGED storage
  BY <1>1 DEF BucketInv, storage
<1>2. CASE RegisterTransform
  BY <1>1, <1>2 DEF RegisterTransform
<1>3. CASE Constructed
  BY <1>1, <1>3 DEF Constructed
<1>4. CASE \E data \in Feeds : ExecutePipeline(data)
  <2>1. PICK data \in Feeds : ExecutePipeline(data)
    BY <1>4
  <2>2. /\ runs' = runs + 1 /\ runs \in Nat /\ log' = {} /\ base' = data /\ cache' = cache
        /\ cachedTfs' = cachedTfs \cup
             {t \in Timeframes : \E a \in StrategyAssets : Present(data, t, a)}
    BY <2>1 DEF ExecutePipeline, InitializeBaseData, TypeOK
  <2>3. \A a \in StrategyAssets : \A t \in Timeframes : Present(base', t, a) => t \in cachedTfs'
    BY <2>2
  <2> QED BY <2>2, <2>3 DEF BucketInv
<1>5. CASE \E n \in Nodes : NodeStep(n)
  BY <1>5, NodeStepIsBucketStep, BucketStepInv
<1>6. CASE BuildFinalOutput \/ PipelineFailed
  BY <1>1, <1>6 DEF BuildFinalOutput, PipelineFailed
<1>7. CASE UNCHANGED vars
  BY <1>7 DEF vars, BucketInv, Present
<1> QED
  BY <1>2, <1>3, <1>4, <1>5, <1>6, <1>7 DEF Next

\* Without an error every column is stored, and so has its bucket: what is left
\* to be missing is that of a scalar.
LEMMA FailureStep ==
  ASSUME NoSelfReader, TypeOK, RegistrationInv, WiringInv, StoredInv, BucketInv,
         FailureHasCause, [Next]_vars
  PROVE  FailureHasCause'
<1>1. CASE phase' # "failed"
  BY <1>1 DEF FailureHasCause
<1>2. CASE PipelineFailed
  <2>1. /\ phase = "running" /\ UNCHANGED <<base, log, runs>> /\ Registered' = Registered
    BY <1>2 DEF PipelineFailed, Quiescent, Registered, built, storage
  <2>2. \A e \in log' : e.run = runs'
    BY <2>1 DEF BucketInv
  <2>3. ASSUME log = {} PROVE \E n \in Registered : NowhereToStand(n)
    <3>0. AssetIDs # {}
      BY <1>2, <2>3 DEF PipelineFailed, TimeframeMissing
    <3>1. PICK n \in Exported : Def[n].timeframe \notin cachedTfs
      BY <1>2, <2>3 DEF PipelineFailed, TimeframeMissing
    <3>2. PICK a \in AssetIDs : a \in Assets
      BY <3>0 DEF AssetIDs, AssetsOf
    <3>3. ASSUME NEW m \in Registered, HasColumns(m) PROVE Def[m].timeframe \in cachedTfs
      <4>1. m \in Nodes /\ node[m] = "done"
        BY <1>2, QuiescentDone, RegisteredNodes DEF PipelineFailed
      <4>2. ~FailedOn(m, a)
        BY <2>3 DEF FailedOn
      <4>3. cache[m][a].run = runs
        BY <2>1, <3>2, <3>3, <4>1, <4>2 DEF StoredInv, Stored
      <4>4. runs # 0
        BY <2>1 DEF BucketInv
      <4> QED BY <3>2, <4>1, <4>3, <4>4 DEF BucketInv
    <3>4. n \in Registered /\ n \in Nodes /\ HasOutputs(n)
      BY RegisteredNodes DEF Exported
    <3>5. IsScalar(n)
      BY <3>1, <3>3, <3>4 DEF HasColumns
    <3>6. Def[n].timeframe \in Timeframes
      BY <3>4, DefTypes
    <3>7. \A b \in StrategyAssets : ~Present(base, Def[n].timeframe, b)
      BY <2>1, <3>1, <3>6 DEF BucketInv
    <3> QED BY <3>1, <3>3, <3>4, <3>5, <3>7 DEF NowhereToStand
  <2>4. ASSUME NEW n, NowhereToStand(n) PROVE NowhereToStand(n)'
    BY <2>1, <2>4 DEF NowhereToStand, Present
  <2> QED BY <2>1, <2>2, <2>3, <2>4 DEF FailureHasCause
<1>3. CASE UNCHANGED vars
  BY <1>3 DEF vars, FailureHasCause, NowhereToStand, Present, Registered
<1>4. ASSUME NEW n \in Nodes, NodeStep(n) PROVE phase' # "failed"
  BY <1>4, NodeStepIsBucketStep DEF BucketStep
<1>5. CASE RegisterTransform
  BY <1>1, <1>5 DEF RegisterTransform
<1>6. CASE Constructed \/ BuildFinalOutput \/ \E data \in Feeds : ExecutePipeline(data)
  BY <1>1, <1>6 DEF Constructed, BuildFinalOutput, ExecutePipeline
<1> QED
  BY <1>1, <1>2, <1>3, <1>4, <1>5, <1>6 DEF Next

\* The constructor refuses a list exactly when it is not a dependency order:
\* whatever it has built has every producer registered before its readers, and
\* whatever it threw on has not.
THEOREM ConstructorAcceptsOrders == Spec => []AcceptedOrders
<1>1. Init => RegistrationInv /\ AcceptedOrders
  BY DEF Init, RegistrationInv, OrderedUpTo, AcceptedOrders
<1>2. TypeOK /\ RegistrationInv /\ AcceptedOrders /\ [Next]_vars
        => RegistrationInv' /\ AcceptedOrders'
  BY RegistrationStep
<1> QED
  BY <1>1, <1>2, TypeCorrect, PTL DEF Spec

\* The inductive invariant of the runtime.
IInv ==
  /\ TypeOK
  /\ RegistrationInv
  /\ AcceptedOrders
  /\ WiringInv
  /\ StoredInv
  /\ ReturnedComplete
  /\ BucketInv
  /\ FailureHasCause

LEMMA InitInductive == Init => IInv
<1>1. Init => TypeOK
  BY InitTypes
<1>2. Init => RegistrationInv /\ AcceptedOrders /\ StoredInv /\ ReturnedComplete /\ WiringInv
  BY DEF Init, RegistrationInv, OrderedUpTo, AcceptedOrders, StoredInv, ReturnedComplete, WiringInv,
     Registered
<1>3. Init => BucketInv /\ FailureHasCause
  BY DEF Init, BucketInv, FailureHasCause, NotStored
<1> QED
  BY <1>1, <1>2, <1>3 DEF IInv

LEMMA StepInductive ==
  ASSUME NoSelfReader
  PROVE  IInv /\ [Next]_vars => IInv'
  BY NextTypes, RegistrationStep, WiringStep, StoredStep, ReturnedStep, BucketsStep,
     FailureStep DEF IInv

\* It holds in every state, for a graph in which no transform reads itself:
\* TopologicalSort of the compiler rejects the others.
LEMMA Inductive ==
  ASSUME NoSelfReader
  PROVE  Spec => []IInv
  BY InitInductive, StepInductive, PTL DEF Spec

\* Whatever the graph and the data, no body starts before the bodies of all
\* transforms it reads from have returned.
THEOREM BodiesFollowTheirProducers ==
  ASSUME NoSelfReader
  PROVE  Spec => []ProducersFirst
<1>1. IInv => ProducersFirst
  BY DEF IInv, ProducersFirst, WiringInv
<1> QED
  BY <1>1, Inductive, PTL

\* No body computes from a column an earlier run left in the storage: an input
\* that did not fail for the asset was stored by the run in progress.
THEOREM NoStaleInputs ==
  ASSUME NoSelfReader
  PROVE  Spec => []FreshInputs
<1>1. IInv => FreshInputs
  <2> SUFFICES ASSUME IInv, phase = "running",
                      NEW n \in Nodes, NEW a \in AssetIDs, node[n] = "running",
                      NEW p \in Producers(n), HasColumns(p), ~FailedOn(p, a)
               PROVE  cache[p][a].run = runs
    BY DEF FreshInputs
  <2>1. p \in Nodes
    BY DefTypes
  <2>2. node[p] = "done"
    BY DEF IInv, WiringInv
  <2>3. step[p][a] = "done"
    BY <2>1, <2>2 DEF IInv, StoredInv
  <2>4. Stored(p, a)
    BY <2>1, <2>3 DEF IInv, StoredInv
  <2> QED BY <2>4 DEF Stored
<1> QED
  BY <1>1, Inductive, PTL

\* A run that returns has run every transform of the script and stored every
\* column of every asset of its data in that run.
THEOREM ReturnsAreComplete ==
  ASSUME NoSelfReader
  PROVE  Spec => []ReturnedComplete
<1>1. IInv => ReturnedComplete
  BY DEF IInv
<1> QED
  BY <1>1, Inductive, PTL

\* A run never fails for what an earlier run left in the logger, nor without an
\* error unless a scalar's timeframe is that of no frame and of no column.
THEOREM FailuresHaveCauses ==
  ASSUME NoSelfReader
  PROVE  Spec => []FailureHasCause
<1>1. IInv => FailureHasCause
  BY DEF IInv
<1> QED
  BY <1>1, Inductive, PTL

-----------------------------------------------------------------------------
(* What a run computes is the evaluation of the graph. *)

\* The transforms are those of the lists the constructor accepts.
AllListed ==
  \A o \in Orders : DependencyOrder(o) => \A n \in Nodes : \E i \in DOMAIN o : o[i] = n

\* The recursion of the evaluation, over columns that are given.
Recursion(d, col) ==
  [n \in Nodes |-> Promise!Column(d, n, [p \in Producers(n) |-> col[p]])]

LEMMA ColumnOfInputs ==
  ASSUME NEW d, NEW n \in Nodes, NEW f, NEW g, \A p \in Producers(n) : f[p] = g[p]
  PROVE  Promise!Column(d, n, [p \in Producers(n) |-> f[p]])
           = Promise!Column(d, n, [p \in Producers(n) |-> g[p]])
<1>1. [p \in Producers(n) |-> f[p]] = [p \in Producers(n) |-> g[p]]
  OBVIOUS
<1> QED
  BY <1>1

\* The columns of a graph exist: they are computed one transform of the order
\* after the other.
LEMMA ColumnsAreComputed ==
  ASSUME NoSelfReader, NEW o \in Seq(Nodes), DependencyOrder(o),
         \A n \in Nodes : \E i \in DOMAIN o : o[i] = n, NEW d
  PROVE  Promise!Columns(d) = Recursion(d, Promise!Columns(d))
<1> DEFINE col(f, n) == Promise!Column(d, n, [p \in Producers(n) |-> f[p]])
           Reached(f, k) == /\ f = [n \in Nodes |-> f[n]]
                            /\ \A i \in 1..k : f[o[i]] = col(f, o[i])
           S == {k \in Nat : k <= Len(o) => \E f : Reached(f, k)}
<1>0. Len(o) \in Nat /\ DOMAIN o = 1..Len(o) /\ \A i \in 1..Len(o) : o[i] \in Nodes
  OBVIOUS
<1>1. 0 \in S
  <2>1. Reached([n \in Nodes |-> {}], 0)
    OBVIOUS
  <2> HIDE DEF Reached
  <2> QED BY <2>1
<1>2. ASSUME NEW k \in Nat, k \in S PROVE k + 1 \in S
  <2> SUFFICES ASSUME k + 1 <= Len(o) PROVE \E f : Reached(f, k + 1)
    <3> HIDE DEF Reached
    <3> QED OBVIOUS
  <2>1. PICK f : Reached(f, k)
    <3> HIDE DEF Reached
    <3> QED BY <1>0, <1>2
  <2> DEFINE j == k + 1
             n == o[j]
             v == col(f, n)
             g == [m \in Nodes |-> IF m = n THEN v ELSE f[m]]
  <2>2. j \in 1..Len(o) /\ n \in Nodes /\ \A i \in 1..k : i \in 1..Len(o) /\ i # j
    BY <1>0
  <2>3. /\ g = [m \in Nodes |-> g[m]]
        /\ g[n] = v /\ \A m \in Nodes : m # n => g[m] = f[m]
    <3> HIDE DEF v, n
    <3> QED BY <2>2
  <2>4. ASSUME NEW i \in 1..j, NEW p \in Producers(o[i]) PROVE g[p] = f[p]
    <3>1. o[i] \in Nodes /\ p \in Nodes /\ p # o[i]
      BY <1>0, <2>2, DefTypes DEF NoSelfReader
    <3>2. PICK h \in 1..i : o[h] = p
      BY <1>0, <2>2 DEF DependencyOrder
    <3>3. h \in 1..k /\ h # j /\ h \in 1..Len(o)
      <4>1. h # i /\ i \in 1..(k + 1) /\ h \in 1..i
        BY <3>1, <3>2
      <4> QED BY <2>2, <4>1
    <3>4. p # n
      BY <1>0, <2>2, <3>2, <3>3 DEF DependencyOrder
    <3> HIDE DEF g, n
    <3> QED BY <2>3, <3>1, <3>4
  <2>5. ASSUME NEW i \in 1..j PROVE col(g, o[i]) = col(f, o[i])
    <3>1. o[i] \in Nodes
      BY <1>0, <2>2
    <3> HIDE DEF g
    <3> QED BY <2>4, <2>5, <3>1, ColumnOfInputs
  <2>6. ASSUME NEW i \in 1..j PROVE g[o[i]] = col(g, o[i])
    <3>1. CASE i = j
      <4> HIDE DEF g, col
      <4> QED BY <2>3, <2>5, <3>1
    <3>2. CASE i \in 1..k
      <4>1. o[i] \in Nodes /\ o[i] # n
        BY <1>0, <2>2, <3>2 DEF DependencyOrder
      <4>2. f[o[i]] = col(f, o[i])
        BY <2>1, <3>2
      <4> HIDE DEF g, n, col
      <4> QED BY <2>3, <2>5, <4>1, <4>2
    <3> QED BY <2>2, <3>1, <3>2
  <2> HIDE DEF g, col
  <2>7. Reached(g, j)
    BY <2>3, <2>6
  <2> QED BY <2>7
<1>3. Len(o) \in S
  <2> HIDE DEF S
  <2> QED BY <1>0, <1>1, <1>2, SetInduction
<1>4. PICK f : Reached(f, Len(o))
  <2> HIDE DEF Reached
  <2> QED BY <1>0, <1>3
<1>5. f = Recursion(d, f)
  <2>1. ASSUME NEW n \in Nodes PROVE f[n] = col(f, n)
    <3>1. PICK i \in 1..Len(o) : o[i] = n
      BY <1>0
    <3> QED BY <1>4, <3>1
  <2>2. f = [n \in Nodes |-> f[n]]
    BY <1>4
  <2>3. Recursion(d, f) = [n \in Nodes |-> col(f, n)]
    BY DEF Recursion
  <2> HIDE DEF col
  <2> QED BY <2>1, <2>2, <2>3
<1>6. Promise!Columns(d) = CHOOSE c : c = Recursion(d, c)
  BY DEF Promise!Columns, Recursion, Promise!Producers, Promise!Edges, Producers, Edges
<1> QED
  BY <1>5, <1>6

\* What the evaluation gives n on the data of the run, and whether rows are left
\* of a's frame in it.
Promised(n, a) == Promise!Columns(base)[n][a]

PromisedRows(n, a) ==
  /\ base[Def[n].timeframe][a] = "rows"
  /\ \/ Def[n].allowNullInputs /\ ~Def[n].isCrossSectional
     \/ \A p \in Producers(n) : Promised(p, a) = "value"

\* The assets a cross-section can have in it.
WithFrame(n) == {a \in AssetIDs : Present(base, Def[n].timeframe, a)}

PromisedGiven(n, a) ==
  \/ IsScalar(n)
  \/ ~Skipped(n) /\ ~Def[n].isCrossSectional /\ PromisedRows(n, a)
  \/ /\ ~Skipped(n) /\ Def[n].isCrossSectional
     /\ WithFrame(n) # {} /\ \A b \in WithFrame(n) : PromisedRows(n, b)
     /\ Def[n].broadcast \/ a \in WithFrame(n)

\* The list the constructor has accepted.
OrderComplete ==
  /\ order \in Seq(Nodes)
  /\ DependencyOrder(order)
  /\ \A n \in Nodes : \E i \in DOMAIN order : order[i] = n

LEMMA PromisedValue ==
  ASSUME NoSelfReader, OrderComplete, NEW n \in Nodes, NEW a \in Assets
  PROVE  Promised(n, a) = IF PromisedGiven(n, a) THEN Def[n].yields ELSE "null"
<1> DEFINE c == Promise!Columns(base)
           in == [p \in Producers(n) |-> c[p]]
<1>1. c = Recursion(base, c)
  BY ColumnsAreComputed DEF OrderComplete
<1>2. Promised(n, a) = Promise!Column(base, n, in)[a]
  <2> HIDE DEF c
  <2>1. Recursion(base, c)[n] = Promise!Column(base, n, in)
    BY DEF Recursion
  <2> QED BY <1>1, <2>1 DEF Promised, c
<1>3. ASSUME NEW b PROVE Promise!Usable(base, n, in, b) <=> PromisedRows(n, b)
  <2>1. Promise!Producers(n) = Producers(n)
    BY DEF Promise!Producers, Promise!Edges, Producers, Edges
  <2>2. \A p \in Producers(n) : in[p][b] = Promised(p, b)
    BY DEF Promised
  <2> HIDE DEF in
  <2> QED BY <2>1, <2>2 DEF Promise!Usable, PromisedRows
<1>4. Promise!Included(base, n) = WithFrame(n)
  BY DEF Promise!Included, WithFrame, Promise!AssetsOf, AssetIDs, AssetsOf, Promise!Present,
     Present
<1>5. Promise!Given(base, n, in, a) <=> PromisedGiven(n, a)
  <2>1. /\ Promise!Skipped(n) <=> Skipped(n)
        /\ Promise!IsScalar(n) <=> IsScalar(n)
    BY DEF Promise!Skipped, Skipped, Promise!IsScalar, IsScalar
  <2> HIDE DEF in
  <2> QED BY <1>3, <1>4, <2>1 DEF Promise!Given, PromisedGiven
<1> HIDE DEF in
<1> QED
  BY <1>2, <1>5 DEF Promise!Column

\* A scalar is a literal: it reads nothing and is never skipped.  Were an asset's
\* frame at its timeframe empty, that asset would make it null for all of them.
ConstantScalars ==
  \A n \in Nodes : IsScalar(n) =>
    /\ ~Skipped(n) /\ ~Def[n].isCrossSectional /\ ~Def[n].dataSources /\ Edges(n) = {}
    /\ \A d \in Feeds : \A a \in Assets : d[Def[n].timeframe][a] # "empty"

FeedInv == order \in Orders /\ (phase = "running" => base \in Feeds)

\* What is cached, and what is about to be, for a scalar is its value.
ScalarInv ==
  \A n \in Nodes : IsScalar(n) =>
    /\ scalarCache[n] \in {None, Def[n].yields}
    /\ phase = "running" => \A a \in Assets :
         /\ step[n][a] \notin {"missing", "storing"}
         /\ step[n][a] = "computed" => result[n][a] = Def[n].yields

LEMMA FeedStep ==
  ASSUME FeedInv, [Next]_vars
  PROVE  FeedInv'
<1>1. CASE order' = order /\ phase' # "running"
  BY <1>1 DEF FeedInv
<1>2. CASE UNCHANGED <<phase, order, base>>
  BY <1>2 DEF FeedInv
<1>3. CASE RegisterTransform \/ Constructed \/ BuildFinalOutput \/ PipelineFailed
  BY <1>1, <1>2, <1>3 DEF RegisterTransform, Constructed, BuildFinalOutput, PipelineFailed, built,
     storage
<1>4. CASE \E data \in Feeds : ExecutePipeline(data)
  BY <1>4 DEF ExecutePipeline, InitializeBaseData, built, FeedInv
<1>5. ASSUME NEW n \in Nodes, NodeStep(n) PROVE UNCHANGED <<phase, order, base>>
  <2>1. UNCHANGED <<phase, order>>
    BY <1>5, BodyKeepsFlow DEF NodeStep, FlowKept, FireNode, FinishNode, built
  <2>2. base' = base
    BY <1>5 DEF NodeStep, FireNode, FinishNode, CrossTransform, CrossThrows, CrossAbandon,
       storage, AssetStep, SkipIntraday, ValidateInputsAvailable, StoreEmpty, TransformAsset,
       TransformThrows, StoreResult, GatherCrossInput, DistributeOutput, StoreTransformOutput
  <2> QED BY <2>1, <2>2
<1>6. CASE UNCHANGED vars
  BY <1>2, <1>6 DEF vars
<1> QED
  BY <1>2, <1>3, <1>4, <1>5, <1>6 DEF Next

LEMMA ScalarAssetStep ==
  ASSUME ConstantScalars, TypeOK, FeedInv, ScalarInv,
         NEW n \in Nodes, NEW a \in Assets, AssetStep(n, a)
  PROVE  ScalarInv'
<1> DEFINE Good(m, b) ==
      /\ step'[m][b] \notin {"missing", "storing"}
      /\ step'[m][b] = "computed" => result'[m][b] = Def[m].yields
<1>0. phase = "running" /\ phase' = "running" /\ base \in Feeds
  BY DEF AssetStep, SkipIntraday, ValidateInputsAvailable, StoreEmpty, TransformAsset,
     TransformThrows, StoreResult, GatherCrossInput, DistributeOutput, Busy, Moves, FeedInv
<1>1. ASSUME NEW m \in Nodes, NEW b \in Assets, IsScalar(m), <<m, b>> # <<n, a>>
      PROVE  Good(m, b)
  <2>1. step'[m][b] = step[m][b] /\ result'[m][b] = result[m][b]
    BY <1>1 DEF TypeOK, AssetStep, SkipIntraday, ValidateInputsAvailable, StoreEmpty,
       TransformAsset, TransformThrows, StoreResult, GatherCrossInput, DistributeOutput, Moves
  <2> QED BY <1>0, <1>1, <2>1 DEF ScalarInv
<1>2. ASSUME IsScalar(n)
      PROVE  /\ Good(n, a)
             /\ \/ scalarCache' = scalarCache
                \/ scalarCache' = [scalarCache EXCEPT ![n] = Def[n].yields]
  <2>1. /\ ~Skipped(n) /\ ~Def[n].isCrossSectional /\ ~Def[n].dataSources
        /\ Edges(n) = {} /\ Producers(n) = {}
        /\ base[Def[n].timeframe][a] # "empty"
    BY <1>0, <1>2 DEF ConstantScalars, Producers
  <2>2. InputsAvailable(n, a)
    BY <2>1 DEF InputsAvailable
  <2>3. /\ step[n][a] \notin {"missing", "storing"}
        /\ step[n][a] = "computed" => result[n][a] = Def[n].yields
    BY <1>0, <1>2 DEF ScalarInv
  <2>4. CASE ValidateInputsAvailable(n, a)
    BY <2>2, <2>4 DEF ValidateInputsAvailable, Moves, storage, TypeOK
  <2>5. CASE TransformAsset(n, a)
    <3>1. base[Def[n].timeframe][a] \in Frames
      BY DefTypes DEF TypeOK, BaseData
    <3>2. GatherInputs(n, a) = "rows"
      BY <2>1, <2>5, <3>1 DEF TransformAsset, GatherInputs, Present, Frames
    <3> QED BY <2>5, <3>2 DEF TransformAsset, Moves, storage, TypeOK
  <2>6. CASE TransformThrows(n, a)
    BY <2>6 DEF TransformThrows, Moves, storage, TypeOK
  <2>7. CASE StoreResult(n, a)
    <3>1. result[n][a] = Def[n].yields /\ step'[n][a] = "done"
      BY <2>3, <2>7 DEF StoreResult, Busy, Moves, TypeOK
    <3> QED BY <2>7, <3>1 DEF StoreResult, StoreTransformOutput
  <2> QED BY <2>1, <2>3, <2>4, <2>5, <2>6, <2>7 DEF AssetStep, SkipIntraday, StoreEmpty,
        GatherCrossInput, DistributeOutput, Busy
<1>3. ASSUME ~IsScalar(n) PROVE scalarCache' = scalarCache
  BY <1>3 DEF AssetStep, SkipIntraday, ValidateInputsAvailable, StoreEmpty, TransformAsset,
     TransformThrows, StoreResult, GatherCrossInput, DistributeOutput, StoreTransformOutput, storage
<1>4. ASSUME NEW m \in Nodes, IsScalar(m) PROVE scalarCache'[m] \in {None, Def[m].yields}
  <2>1. scalarCache[m] \in {None, Def[m].yields}
    BY <1>4 DEF ScalarInv
  <2>2. CASE scalarCache' = scalarCache
    BY <2>1, <2>2
  <2>3. CASE scalarCache' = [scalarCache EXCEPT ![n] = Def[n].yields]
    BY <2>1, <2>3 DEF TypeOK
  <2> QED BY <1>2, <1>3, <2>2, <2>3
<1>5. ASSUME NEW m \in Nodes, NEW b \in Assets, IsScalar(m) PROVE Good(m, b)
  <2> HIDE DEF Good
  <2> QED BY <1>1, <1>2, <1>5
<1> QED
  BY <1>4, <1>5 DEF ScalarInv

LEMMA ScalarStep ==
  ASSUME ConstantScalars, TypeOK, FeedInv, ScalarInv, [Next]_vars
  PROVE  ScalarInv'
<1>1. CASE UNCHANGED <<scalarCache, step, result>> /\ (phase' = "running" => phase = "running")
  BY <1>1 DEF ScalarInv
<1>2. CASE RegisterTransform \/ Constructed \/ BuildFinalOutput \/ PipelineFailed
  BY <1>1, <1>2 DEF RegisterTransform, Constructed, BuildFinalOutput, PipelineFailed, storage
<1>3. CASE \E data \in Feeds : ExecutePipeline(data)
  <2>1. scalarCache' = scalarCache /\ step' = [n \in Nodes |-> [a \in Assets |-> "todo"]]
    BY <1>3 DEF ExecutePipeline, InitializeBaseData
  <2> QED BY <2>1 DEF ScalarInv
<1>4. ASSUME NEW n \in Nodes, FireNode(n) \/ FinishNode(n) PROVE ScalarInv'
  BY <1>1, <1>4 DEF FireNode, FinishNode, storage
<1>5. ASSUME NEW n \in Nodes, CrossTransform(n) \/ CrossThrows(n) PROVE ScalarInv'
  <2>1. /\ phase = "running" /\ scalarCache' = scalarCache /\ Def[n].isCrossSectional
        /\ \A m \in Nodes : m # n => step'[m] = step[m] /\ result'[m] = result[m]
    BY <1>5 DEF CrossTransform, CrossThrows, CrossAbandon, CrossGathered, Busy, storage, TypeOK
  <2>2. \A m \in Nodes : IsScalar(m) => m # n
    BY <2>1 DEF ConstantScalars
  <2> QED BY <2>1, <2>2 DEF ScalarInv
<1>6. ASSUME NEW n \in Nodes, NodeStep(n) PROVE ScalarInv'
  BY <1>4, <1>5, <1>6, ScalarAssetStep DEF NodeStep
<1>7. CASE UNCHANGED vars
  BY <1>1, <1>7 DEF vars
<1> QED
  BY <1>2, <1>3, <1>6, <1>7 DEF Next

\* How far n is with a, in a run without errors: what it has computed or stored
\* is what the evaluation gives, and of a cross-section's frame so far whether it
\* has rows.
Progress(n, a) ==
  /\ step[n][a] = "ready" => ~Skipped(n)
  /\ step[n][a] = "missing" => ~Present(base, Def[n].timeframe, a)
  /\ step[n][a] = "computed" /\ Def[n].isCrossSectional =>
       Present(base, Def[n].timeframe, a) /\ (result[n][a] = "value" <=> PromisedRows(n, a))
  /\ step[n][a] = "computed" /\ ~Def[n].isCrossSectional => result[n][a] = Promised(n, a)
  /\ step[n][a] = "storing" => result[n][a] = Promised(n, a)
  /\ step[n][a] = "done" /\ HasColumns(n) => cache[n][a].val = Promised(n, a)

ValuesInv ==
  phase = "running" /\ log = {} => \A n \in Nodes : \A a \in AssetIDs : Progress(n, a)

LEMMA PromisedKept ==
  ASSUME base' = base, NEW n \in Nodes
  PROVE  \A a \in Assets : /\ Promised(n, a)' = Promised(n, a)
                           /\ PromisedRows(n, a)' <=> PromisedRows(n, a)
<1>1. \A p, b : Promised(p, b)' = Promised(p, b)
  BY DEF Promised
<1> QED
  BY <1>1 DEF PromisedRows

LEMMA ProgressKept ==
  ASSUME NEW n \in Nodes, NEW a \in Assets, Progress(n, a), base' = base,
         step'[n][a] = step[n][a], result'[n][a] = result[n][a], cache'[n][a] = cache[n][a]
  PROVE  Progress(n, a)'
<1>1. Promised(n, a)' = Promised(n, a) /\ (PromisedRows(n, a)' <=> PromisedRows(n, a))
  BY PromisedKept
<1> QED
  BY <1>1 DEF Progress, Present

LEMMA OrderIsComplete ==
  ASSUME AllListed, IInv, FeedInv, phase = "running"
  PROVE  OrderComplete /\ Registered = Nodes
<1>1. DependencyOrder(order) /\ order \in Orders /\ order \in Seq(Nodes)
      /\ registered = Len(order)
  BY DEF IInv, AcceptedOrders, RegistrationInv, FeedInv, TypeOK
<1>2. \A n \in Nodes : \E i \in DOMAIN order : order[i] = n
  BY <1>1 DEF AllListed
<1> QED
  BY <1>1, <1>2 DEF OrderComplete, Registered

\* Every input of a body is there and has the value the evaluation gives it.
LEMMA InputsAsPromised ==
  ASSUME NoSelfReader, AllListed, ConstantScalars, IInv, FeedInv, ScalarInv, ValuesInv,
         phase = "running", log = {}, NEW n \in Nodes, node[n] # "waiting",
         NEW a \in AssetIDs, NEW p \in Producers(n)
  PROVE  InputStored(p, a) /\ InputValue(p, a) = Promised(p, a)
<1>1. OrderComplete /\ p \in Nodes /\ a \in Assets
  BY OrderIsComplete, DefTypes DEF AssetIDs, AssetsOf
<1>2. HasOutputs(p)
  <2>1. PICK i \in DOMAIN order : order[i] = n
    BY <1>1 DEF OrderComplete
  <2> QED BY <1>1, <2>1 DEF OrderComplete, DependencyOrder
<1>3. Stored(p, a) /\ step[p][a] = "done"
  <2>1. node[p] = "done"
    BY DEF IInv, WiringInv
  <2>2. step[p][a] = "done" /\ ~FailedOn(p, a)
    BY <1>1, <2>1 DEF IInv, StoredInv, FailedOn
  <2> QED BY <1>1, <2>2 DEF IInv, StoredInv
<1>4. CASE IsScalar(p)
  <2>1. scalarCache[p] = Def[p].yields
    BY <1>1, <1>3, <1>4 DEF Stored, ScalarInv
  <2>2. Promised(p, a) = Def[p].yields
    BY <1>1, <1>4, PromisedValue DEF PromisedGiven
  <2> QED BY <1>3, <1>4, <2>1, <2>2 DEF InputStored, InputValue, Stored
<1>5. CASE ~IsScalar(p)
  <2>1. HasColumns(p) /\ cache[p][a].run = runs /\ runs # 0
    BY <1>2, <1>3, <1>5 DEF HasColumns, Stored, IInv, BucketInv
  <2>2. cache[p][a] # NotStored
    BY <2>1 DEF NotStored
  <2>3. cache[p][a].val = Promised(p, a)
    BY <1>1, <1>3, <2>1 DEF ValuesInv, Progress
  <2> QED BY <1>5, <2>2, <2>3 DEF InputStored, InputValue
<1> QED
  BY <1>4, <1>5

LEMMA GatheredAsPromised ==
  ASSUME NoSelfReader, AllListed, ConstantScalars, IInv, FeedInv, ScalarInv, ValuesInv,
         phase = "running", log = {}, NEW n \in Nodes, node[n] # "waiting",
         NEW a \in AssetIDs
  PROVE  /\ GatherInputs(n, a) # "absent" <=> Present(base, Def[n].timeframe, a)
         /\ GatherInputs(n, a) = "rows" <=> PromisedRows(n, a)
         /\ ~InputsAvailable(n, a) => ~Present(base, Def[n].timeframe, a)
<1>1. \A p \in Producers(n) : InputStored(p, a) /\ InputValue(p, a) = Promised(p, a)
  BY InputsAsPromised
<1>2. GatherInputs(n, a) # "absent" <=> Present(base, Def[n].timeframe, a)
  BY <1>1 DEF GatherInputs
<1>3. GatherInputs(n, a) = "rows" <=> PromisedRows(n, a)
  BY <1>1 DEF GatherInputs, PromisedRows, Present
<1>4. ~InputsAvailable(n, a) => ~Present(base, Def[n].timeframe, a)
  BY <1>1 DEF InputsAvailable
<1> QED
  BY <1>2, <1>3, <1>4

\* What is stored is what the evaluation gives.
LEMMA StoringKeepsProgress ==
  ASSUME TypeOK, NEW n \in Nodes, NEW a \in Assets, NEW v, NEW s,
         Busy(n, a, s), Moves(n, a, "done"), StoreTransformOutput(n, a, v),
         HasColumns(n) => v = Promised(n, a)
  PROVE  Progress(n, a)'
<1>1. step'[n][a] = "done" /\ base' = base
  BY DEF Moves, StoreTransformOutput, TypeOK
<1>2. HasColumns(n) => cache'[n][a].val = v
  BY DEF StoreTransformOutput, TypeOK
<1>3. Promised(n, a)' = Promised(n, a)
  BY <1>1, PromisedKept
<1> QED
  BY <1>1, <1>2, <1>3 DEF Progress

LEMMA AssetStepProgress ==
  ASSUME NoSelfReader, AllListed, ConstantScalars, IInv, FeedInv, ScalarInv, ValuesInv,
         log = {}, log' = {}, NEW n \in Nodes, NEW a \in Assets, AssetStep(n, a)
  PROVE  \A m \in Nodes : \A b \in AssetIDs : Progress(m, b)'
<1>1. /\ phase = "running" /\ base' = base /\ node[n] = "running" /\ a \in AssetIDs
      /\ AssetIDs \subseteq Assets
  <2>1. phase = "running" /\ node[n] = "running" /\ a \in AssetIDs
    BY DEF AssetStep, SkipIntraday, ValidateInputsAvailable, StoreEmpty, TransformAsset,
       TransformThrows, StoreResult, GatherCrossInput, DistributeOutput, Busy
  <2>2. base' = base
    BY DEF AssetStep, SkipIntraday, ValidateInputsAvailable, StoreEmpty, TransformAsset,
       TransformThrows, StoreResult, GatherCrossInput, DistributeOutput, StoreTransformOutput,
       storage
  <2> QED BY <2>1, <2>2 DEF AssetIDs, AssetsOf
<1>2. TypeOK /\ OrderComplete
  BY <1>1, OrderIsComplete DEF IInv
<1>3. ASSUME NEW m \in Nodes, NEW b \in AssetIDs, <<m, b>> # <<n, a>> PROVE Progress(m, b)'
  <2>1. /\ step'[m][b] = step[m][b] /\ result'[m][b] = result[m][b]
        /\ cache'[m][b] = cache[m][b]
    BY <1>1, <1>2, <1>3 DEF TypeOK, AssetStep, SkipIntraday, ValidateInputsAvailable, StoreEmpty,
       TransformAsset, TransformThrows, StoreResult, GatherCrossInput, DistributeOutput, Moves,
       StoreTransformOutput, storage
  <2> QED BY <1>1, <2>1, ProgressKept DEF ValuesInv
<1>4. /\ Progress(n, a)
      /\ Promised(n, a) = IF PromisedGiven(n, a) THEN Def[n].yields ELSE "null"
      /\ IsScalar(n) => ~Skipped(n) /\ ~Def[n].isCrossSectional /\ step[n][a] # "missing"
      /\ Promised(n, a)' = Promised(n, a) /\ (PromisedRows(n, a)' <=> PromisedRows(n, a))
      /\ GatherInputs(n, a) # "absent" <=> Present(base, Def[n].timeframe, a)
      /\ GatherInputs(n, a) = "rows" <=> PromisedRows(n, a)
      /\ ~InputsAvailable(n, a) => ~Present(base, Def[n].timeframe, a)
  BY <1>1, <1>2, PromisedValue, PromisedKept, GatheredAsPromised
     DEF ValuesInv, ConstantScalars, ScalarInv
<1>5. CASE SkipIntraday(n, a)
  <2>1. Promised(n, a) = "null"
    BY <1>4, <1>5 DEF SkipIntraday, PromisedGiven
  <2> QED BY <1>2, <1>3, <1>5, <2>1, StoringKeepsProgress DEF SkipIntraday
<1>6. CASE ValidateInputsAvailable(n, a)
  <2>1. step'[n][a] = IF InputsAvailable(n, a) THEN "ready" ELSE "missing"
    BY <1>2, <1>6 DEF ValidateInputsAvailable, Moves, TypeOK
  <2>2. Progress(n, a)'
    BY <1>1, <1>4, <1>6, <2>1 DEF ValidateInputsAvailable, Progress, Present
  <2> QED BY <1>3, <2>2
<1>7. CASE StoreEmpty(n, a)
  <2>1. ~Present(base, Def[n].timeframe, a) /\ ~Def[n].isCrossSectional /\ step[n][a] = "missing"
    BY <1>4, <1>7 DEF StoreEmpty, Busy, Progress
  <2>2. Promised(n, a) = "null"
    BY <1>4, <2>1 DEF PromisedGiven, PromisedRows, Present
  <2> QED BY <1>2, <1>3, <1>7, <2>2, StoringKeepsProgress DEF StoreEmpty
<1>8. CASE TransformAsset(n, a)
  <2>1. /\ step[n][a] = "ready" /\ ~Def[n].isCrossSectional /\ step'[n][a] = "computed"
        /\ result'[n][a] = IF GatherInputs(n, a) = "rows" THEN Def[n].yields ELSE "null"
    BY <1>2, <1>8 DEF TransformAsset, Busy, Moves, TypeOK
  <2>2. result'[n][a] = Promised(n, a)
    <3>1. CASE IsScalar(n)
      <4>1. ScalarInv' /\ IsScalar(n)' /\ phase' = "running"
        BY <1>1, <1>2, <1>8, <3>1, ScalarAssetStep DEF IsScalar, TransformAsset, Moves
      <4>2. result'[n][a] = Def[n].yields
        BY <2>1, <3>1, <4>1 DEF ScalarInv
      <4> QED BY <1>4, <3>1, <4>2 DEF PromisedGiven
    <3>2. CASE ~IsScalar(n)
      BY <1>4, <2>1, <3>2 DEF Progress, PromisedGiven
    <3> QED BY <3>1, <3>2
  <2>3. Progress(n, a)'
    BY <1>4, <2>1, <2>2 DEF Progress
  <2> QED BY <1>3, <2>3
<1>9. CASE TransformThrows(n, a)
  BY <1>9 DEF TransformThrows, LogError
<1>10. CASE StoreResult(n, a)
  <2>1. result[n][a] = Promised(n, a)
    BY <1>4, <1>10 DEF StoreResult, Busy, Progress
  <2> QED BY <1>2, <1>3, <1>10, <2>1, StoringKeepsProgress DEF StoreResult
<1>11. CASE GatherCrossInput(n, a)
  <2>1. /\ Def[n].isCrossSectional /\ step'[n][a] = "computed" /\ GatherInputs(n, a) # "absent"
        /\ result'[n][a] = "value" <=> GatherInputs(n, a) = "rows"
    BY <1>2, <1>11 DEF GatherCrossInput, Busy, Moves, TypeOK
  <2>2. Progress(n, a)'
    BY <1>1, <1>4, <2>1 DEF Progress, Present
  <2> QED BY <1>3, <2>2
<1>12. CASE DistributeOutput(n, a)
  <2>1. result[n][a] = Promised(n, a)
    BY <1>4, <1>12 DEF DistributeOutput, Busy, Progress
  <2> QED BY <1>2, <1>3, <1>12, <2>1, StoringKeepsProgress DEF DistributeOutput
<1> QED
  BY <1>5, <1>6, <1>7, <1>8, <1>9, <1>10, <1>11, <1>12 DEF AssetStep

\* A cross-section distributes what the evaluation gives: the assets it has are
\* those with a frame.
LEMMA CrossTransformProgress ==
  ASSUME NoSelfReader, AllListed, ConstantScalars, IInv, FeedInv, ScalarInv, ValuesInv,
         log = {}, NEW n \in Nodes, CrossTransform(n)
  PROVE  \A m \in Nodes : \A b \in AssetIDs : Progress(m, b)'
<1>1. /\ phase = "running" /\ UNCHANGED storage /\ AssetIDs \subseteq Assets
      /\ Def[n].isCrossSectional /\ ~Skipped(n) /\ ~IsScalar(n)
      /\ \A a \in AssetIDs : step[n][a] \in {"missing", "computed"}
  BY DEF CrossTransform, CrossGathered, AssetIDs, AssetsOf, ConstantScalars
<1>2. TypeOK /\ OrderComplete
  BY <1>1, OrderIsComplete DEF IInv
<1>3. ASSUME NEW m \in Nodes, NEW b \in AssetIDs, m # n PROVE Progress(m, b)'
  <2>1. step'[m][b] = step[m][b] /\ result'[m][b] = result[m][b]
    BY <1>1, <1>2, <1>3 DEF CrossTransform, TypeOK
  <2> QED BY <1>1, <2>1, ProgressKept DEF ValuesInv, storage
<1>4. Included(n) = WithFrame(n)
  BY <1>1 DEF ValuesInv, Progress, Included, WithFrame
<1>5. CrossHasRows(n) <=> WithFrame(n) # {} /\ \A b \in WithFrame(n) : PromisedRows(n, b)
  BY <1>1, <1>4 DEF CrossHasRows, Included, ValuesInv, Progress
<1>6. ASSUME NEW b \in AssetIDs PROVE Progress(n, b)'
  <2>1. /\ step'[n][b] = IF HasOutputs(n) THEN "storing" ELSE "done"
        /\ result'[n][b] = IF CrossHasRows(n) /\ (Def[n].broadcast \/ b \in Included(n))
                           THEN Def[n].yields ELSE "null"
    BY <1>1, <1>2, <1>6 DEF CrossTransform, TypeOK
  <2>2. result'[n][b] = Promised(n, b)
    <3>1. Promised(n, b) = IF PromisedGiven(n, b) THEN Def[n].yields ELSE "null"
      BY <1>1, <1>2, <1>6, PromisedValue
    <3>2. PromisedGiven(n, b) <=> CrossHasRows(n) /\ (Def[n].broadcast \/ b \in Included(n))
      BY <1>1, <1>4, <1>5 DEF PromisedGiven
    <3> QED BY <2>1, <3>1, <3>2
  <2>3. Promised(n, b)' = Promised(n, b)
    BY <1>1, <1>6, PromisedKept DEF storage
  <2> QED BY <2>1, <2>2, <2>3 DEF Progress, HasColumns
<1> QED
  BY <1>3, <1>6

LEMMA ValuesStep ==
  ASSUME NoSelfReader, AllListed, ConstantScalars, IInv, FeedInv, ScalarInv, ValuesInv, [Next]_vars
  PROVE  ValuesInv'
<1>1. CASE phase' # "running"
  BY <1>1 DEF ValuesInv
<1>2. CASE RegisterTransform
  BY <1>1, <1>2 DEF RegisterTransform
<1>3. CASE Constructed \/ BuildFinalOutput \/ PipelineFailed
  BY <1>1, <1>3 DEF Constructed, BuildFinalOutput, PipelineFailed
<1>4. CASE \E data \in Feeds : ExecutePipeline(data)
  <2>1. step' = [n \in Nodes |-> [a \in Assets |-> "todo"]]
    BY <1>4 DEF ExecutePipeline
  <2>2. AssetIDs' \subseteq Assets
    BY DEF AssetIDs, AssetsOf
  <2> QED BY <2>1, <2>2 DEF ValuesInv, Progress
<1>5. CASE UNCHANGED <<phase, base, cache, log, step, result>>
  <2>1. AssetIDs' = AssetIDs /\ AssetIDs \subseteq Assets
    BY <1>5 DEF AssetIDs, AssetsOf, Present
  <2> QED BY <1>5, <2>1, ProgressKept DEF ValuesInv
<1>6. ASSUME NEW n \in Nodes, NodeStep(n) PROVE ValuesInv'
  <2>1. CASE FireNode(n) \/ FinishNode(n)
    BY <1>5, <2>1 DEF FireNode, FinishNode, storage
  <2>2. CASE CrossThrows(n)
    BY <2>2 DEF CrossThrows, CrossAbandon, LogError, ValuesInv
  <2>3. AssetIDs' = AssetIDs
    BY <1>6, NodeStepIsBucketStep DEF BucketStep, AssetIDs, AssetsOf, Present, IInv
  <2>4. CASE CrossTransform(n)
    <3>1. log' = log
      BY <2>4 DEF CrossTransform
    <3> QED BY <2>3, <2>4, <3>1, CrossTransformProgress DEF ValuesInv
  <2>5. ASSUME NEW a \in Assets, AssetStep(n, a) PROVE ValuesInv'
    <3>1. log \subseteq log'
      BY <2>5 DEF AssetStep, SkipIntraday, ValidateInputsAvailable, StoreEmpty,
         TransformAsset, TransformThrows, StoreResult, GatherCrossInput, DistributeOutput, LogError
    <3> QED BY <2>3, <2>5, <3>1, AssetStepProgress DEF ValuesInv
  <2> QED BY <1>6, <2>1, <2>2, <2>4, <2>5 DEF NodeStep
<1>7. CASE UNCHANGED vars
  BY <1>5, <1>7 DEF vars
<1> QED
  BY <1>2, <1>3, <1>4, <1>6, <1>7 DEF Next

\* The inductive invariant of the evaluation.
EInv == IInv /\ FeedInv /\ ScalarInv /\ ValuesInv

\* What a run builds without an error is the evaluation of its data.
LEMMA OutputIsEval ==
  ASSUME NoSelfReader, AllListed, ConstantScalars, EInv, BuildFinalOutput
  PROVE  FinalOutput = Promise!Eval(base)
<1>1. /\ phase = "running" /\ log = {} /\ IInv /\ FeedInv /\ ScalarInv /\ ValuesInv
      /\ AssetIDs \subseteq Assets
  BY DEF BuildFinalOutput, Quiescent, EInv, AssetIDs, AssetsOf
<1>2. OrderComplete /\ Registered = Nodes
  BY <1>1, OrderIsComplete
<1>3. ASSUME NEW n \in Nodes, NEW a \in AssetIDs PROVE Stored(n, a) /\ step[n][a] = "done"
  <2>1. node[n] = "done"
    BY <1>1, <1>2, QuiescentDone DEF IInv, BuildFinalOutput
  <2>2. step[n][a] = "done" /\ ~FailedOn(n, a)
    BY <1>1, <2>1 DEF IInv, StoredInv, FailedOn
  <2> QED BY <1>1, <2>2 DEF IInv, StoredInv
<1>4. ASSUME NEW n \in Nodes, HasOutputs(n)
      PROVE  /\ Receivers(n) = Promise!Receivers(base, n)
             /\ \A a \in Receivers(n) : InputValue(n, a) = Promise!Columns(base)[n][a]
  <2>1. /\ Promise!IsScalar(n) <=> IsScalar(n)
        /\ Promise!AssetsOf(base) = AssetIDs
        /\ \A t, a : Promise!Present(base, t, a) <=> Present(base, t, a)
    BY DEF Promise!IsScalar, IsScalar, Promise!AssetsOf, AssetIDs, AssetsOf, Promise!Present, Present
  <2>2. CASE IsScalar(n)
    <3>1. ASSUME NEW a \in AssetIDs PROVE scalarCache[n] # None
      BY <1>3, <2>2 DEF Stored
    <3>2. Receivers(n) = AssetIDs /\ Promise!Receivers(base, n) = AssetIDs
      BY <1>1, <2>1, <2>2, <3>1 DEF Receivers, Promise!Receivers
    <3>3. ASSUME NEW a \in AssetIDs PROVE InputValue(n, a) = Promised(n, a)
      <4>1. scalarCache[n] = Def[n].yields
        BY <1>1, <2>2, <3>1 DEF ScalarInv
      <4>2. Promised(n, a) = Def[n].yields
        BY <1>1, <1>2, <2>2, PromisedValue DEF PromisedGiven
      <4> QED BY <2>2, <4>1, <4>2 DEF InputValue
    <3> QED BY <3>2, <3>3 DEF Promised
  <2>3. CASE ~IsScalar(n)
    <3>1. HasColumns(n) /\ Def[n].timeframe \in Timeframes
      BY <1>4, <2>3, DefTypes DEF HasColumns
    <3>2. ASSUME NEW a \in AssetIDs
          PROVE  cache[n][a] # NotStored /\ InputValue(n, a) = Promised(n, a)
      <4>1. cache[n][a].run = runs /\ runs # 0
        BY <1>1, <1>3, <3>1 DEF Stored, IInv, BucketInv
      <4>2. cache[n][a].val = Promised(n, a)
        BY <1>1, <1>3, <3>1 DEF ValuesInv, Progress
      <4> QED BY <2>3, <4>1, <4>2 DEF InputValue, NotStored
    <3>3. Receivers(n) = {a \in AssetIDs : Present(base, Def[n].timeframe, a)}
      BY <2>3, <3>2 DEF Receivers
    <3>4. Promise!Receivers(base, n) = {a \in Assets : Present(base, Def[n].timeframe, a)}
      BY <2>1, <2>3 DEF Promise!Receivers
    <3>5. \A a \in Assets : Present(base, Def[n].timeframe, a) => a \in AssetIDs
      BY <3>1 DEF AssetIDs, AssetsOf
    <3> QED BY <1>1, <3>2, <3>3, <3>4, <3>5 DEF Promised
  <2> QED BY <2>2, <2>3
<1>5. Exported = {m \in Nodes : Promise!HasOutputs(m) /\ Def[m].category # "DataSource"}
  BY <1>2 DEF Exported, Promise!HasOutputs, HasOutputs
<1>6. \A n \in Exported : n \in Nodes /\ HasOutputs(n)
  BY <1>2 DEF Exported
<1>7. ASSUME NEW n \in Exported
      PROVE  {[node |-> n, asset |-> a, val |-> InputValue(n, a)] : a \in Receivers(n)}
               = {[node |-> n, asset |-> a, val |-> Promise!Columns(base)[n][a]] :
                    a \in Promise!Receivers(base, n)}
  BY <1>4, <1>6
<1>8. FinalOutput =
        UNION {{[node |-> n, asset |-> a, val |-> Promise!Columns(base)[n][a]] :
                  a \in Promise!Receivers(base, n)} : n \in Exported}
  BY <1>7 DEF FinalOutput
<1> QED
  BY <1>5, <1>8 DEF Promise!Eval

\* Over lists like those the compiler makes (GraphPassesProofs, RuntimeTakesIt) the
\* constructor never throws.
THEOREM CompiledListsAreBuilt ==
  ASSUME \A o \in Orders : DependencyOrder(o)
  PROVE  Spec => [](phase # "rejected")
<1>1. Init => FeedInv
  BY DEF Init, FeedInv
<1>2. FeedInv /\ [Next]_vars => FeedInv'
  BY FeedStep
<1>3. FeedInv /\ AcceptedOrders => phase # "rejected"
  BY DEF FeedInv, AcceptedOrders
<1> QED
  BY <1>1, <1>2, <1>3, ConstructorAcceptsOrders, PTL DEF Spec

\* Whatever order the threads run in and whatever ran before, a run that returns
\* has evaluated the graph on its data, and the rest of the program only gets
\* there.
THEOREM RunsAreEvaluations ==
  ASSUME NoSelfReader, AllListed, ConstantScalars
  PROVE  Spec => Implements
<1>1. Init => EInv
  <2>1. Init => FeedInv /\ ScalarInv /\ ValuesInv
    BY DEF Init, FeedInv, ScalarInv, ValuesInv
  <2> QED BY <2>1, InitInductive DEF EInv
<1>2. EInv /\ [Next]_vars => EInv'
  BY StepInductive, FeedStep, ScalarStep, ValuesStep DEF EInv, IInv
<1>3. Init => Promise!Init
  BY DEF Init, Promise!Init
<1>4. EInv /\ [Next]_vars => [Promise!Next]_(Promise!vars)
  <2> SUFFICES ASSUME EInv, [Next]_vars PROVE Promise!Next \/ UNCHANGED Promise!vars
    OBVIOUS
  <2>1. CASE RegisterTransform
    BY <2>1 DEF RegisterTransform, storage, Promise!vars
  <2>2. CASE Constructed
    BY <2>2 DEF Constructed, storage, Promise!vars
  <2>3. CASE \E data \in Feeds : ExecutePipeline(data)
    BY <2>3 DEF ExecutePipeline, InitializeBaseData, Promise!Next, Promise!Begin
  <2>4. ASSUME NEW n \in Nodes, NodeStep(n) PROVE UNCHANGED Promise!vars
    <3>1. phase' = phase /\ base' = base
      BY <2>4, NodeStepIsBucketStep DEF BucketStep, EInv, IInv
    <3>2. output' = output
      BY <2>4 DEF NodeStep, FireNode, FinishNode, CrossTransform, CrossThrows, CrossAbandon,
         AssetStep, Moves, SkipIntraday, ValidateInputsAvailable, StoreEmpty,
         TransformAsset, TransformThrows, StoreResult, GatherCrossInput, DistributeOutput
    <3> QED BY <3>1, <3>2 DEF Promise!vars
  <2>5. CASE BuildFinalOutput
    <3>1. /\ phase = "running" /\ phase' = "returned" /\ base' = base
          /\ output' = Promise!Eval(base)
      BY <2>5, OutputIsEval DEF BuildFinalOutput, Quiescent, storage
    <3> QED BY <3>1 DEF Promise!Next, Promise!Return
  <2>6. CASE PipelineFailed
    BY <2>6 DEF PipelineFailed, Quiescent, storage, Promise!Next, Promise!Fail
  <2>7. CASE UNCHANGED vars
    BY <2>7 DEF vars, Promise!vars
  <2> QED BY <2>1, <2>2, <2>3, <2>4, <2>5, <2>6, <2>7 DEF Next
<1> QED
  BY <1>1, <1>2, <1>3, <1>4, PTL DEF Spec, Implements, Promise!Spec
=============================================================================
