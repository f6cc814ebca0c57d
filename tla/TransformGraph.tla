--------------------------- MODULE TransformGraph ---------------------------
(***************************************************************************)
(* The compiled script as the runtime sees it: a set of transforms, the    *)
(* handles each one reads, and the part of its metadata that decides how   *)
(* the orchestrator runs it.  A transform with several outputs is modelled *)
(* with one: the outputs of a transform are always stored and read         *)
(* together.                                                               *)
(***************************************************************************)
EXTENDS Naturals, Sequences, FiniteSets

CONSTANTS
  Nodes,        \* transform ids
  Assets,       \* asset ids
  Timeframes,   \* timeframe names, the keys of the base data
  Intraday,     \* the timeframes IsIntradayString accepts
  Def           \* Def[n]: the metadata of transform n

Categories == {"DataSource", "Scalar", "Reporter", "EventMarker", "Other"}

Values == {"value", "null"}

TransformDef ==
  [inputs          : Seq(Nodes),      \* GetInputIds(), as the producing transforms
   timeframe       : Timeframes,
   category        : Categories,
   dataSources     : BOOLEAN,         \* requiredDataSources is not empty
   isCrossSectional: BOOLEAN,
   broadcast       : BOOLEAN,         \* a cross-section in one column, not one per asset
   allowNullInputs : BOOLEAN,
   intradayOnly    : BOOLEAN,
   yields          : Values]          \* what TransformData makes of a frame with rows

ASSUME GraphAssumption ==
  /\ IsFiniteSet(Nodes) /\ IsFiniteSet(Assets)
  /\ Intraday \subseteq Timeframes
  /\ Def \in [Nodes -> TransformDef]

Edges(n) == DOMAIN Def[n].inputs
EdgesFrom(n, p) == {i \in Edges(n) : Def[n].inputs[i] = p}
Producers(n) == {Def[n].inputs[i] : i \in Edges(n)}

IsScalar(n) == Def[n].category = "Scalar"

\* Reports and event markers declare no outputs.
HasOutputs(n) == Def[n].category \notin {"Reporter", "EventMarker"}

\* The transforms whose columns StoreTransformOutput keeps per asset.
HasColumns(n) == HasOutputs(n) /\ ~IsScalar(n)

\* An intraday-only transform on a timeframe that is not intraday is skipped.
Skipped(n) == Def[n].intradayOnly /\ Def[n].timeframe \notin Intraday

\* A list of transforms with every producer before its readers, none of them a
\* sink, and no transform twice; except that a transform may read itself.
DependencyOrder(s) ==
  /\ \A i, j \in DOMAIN s : s[i] = s[j] => i = j
  /\ \A i \in DOMAIN s : \A p \in Producers(s[i]) :
       HasOutputs(p) /\ \E j \in 1..i : s[j] = p

NoSelfReader == \A n \in Nodes : n \notin Producers(n)

(***************************************************************************)
(* Base data: for each timeframe and asset no frame, a frame whose rows    *)
(* are all dropped before a transform sees them, or a frame with rows.     *)
(***************************************************************************)
Frames == {"absent", "empty", "rows"}
BaseData == [Timeframes -> [Assets -> Frames]]

Present(base, t, a) == base[t][a] # "absent"

\* The assets of a run are all those of its data.
AssetsOf(base) == {a \in Assets : \E t \in Timeframes : Present(base, t, a)}

=============================================================================
