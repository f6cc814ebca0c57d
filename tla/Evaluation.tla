----------------------------- MODULE Evaluation -----------------------------
(***************************************************************************)
(* What the orchestrator promises: ExecutePipeline is a function of the    *)
(* data it is given.  A run either fails as a whole or returns, for every  *)
(* frame of the data, the columns that evaluating the transforms in        *)
(* dependency order on that data gives, whatever ran before and in         *)
(* whatever order the threads ran.                                         *)
(***************************************************************************)
EXTENDS TransformGraph

CONSTANT Feeds   \* the data ExecutePipeline may be called with

VARIABLES
  phase,    \* "idle", "running", "returned" or "failed"
  feed,     \* the data of the last run
  output    \* the columns the last successful run returned

vars == <<phase, feed, output>>

\* The assets that have a frame for the columns of n.
Included(d, n) == {a \in AssetsOf(d) : Present(d, Def[n].timeframe, a)}

\* Whether rows are left of a's frame, given the columns n reads.
Usable(d, n, in, a) ==
  /\ d[Def[n].timeframe][a] = "rows"
  /\ \/ Def[n].allowNullInputs /\ ~Def[n].isCrossSectional
     \/ \A p \in Producers(n) : in[p][a] = "value"

\* A cross-section takes the frames of all assets together or none.
Given(d, n, in, a) ==
  \/ IsScalar(n)
  \/ ~Skipped(n) /\ ~Def[n].isCrossSectional /\ Usable(d, n, in, a)
  \/ /\ ~Skipped(n) /\ Def[n].isCrossSectional
     /\ Included(d, n) # {} /\ \A b \in Included(d, n) : Usable(d, n, in, b)
     /\ Def[n].broadcast \/ a \in Included(d, n)

Column(d, n, in) ==
  [a \in Assets |-> IF Given(d, n, in, a) THEN Def[n].yields ELSE "null"]

\* The value every transform gives every asset, on the data d.  An asset that
\* lacks the transform's timeframe gets a null column, and so does one whose
\* frame has no rows left or reads a null column.
Columns(d) ==
  LET col[n \in Nodes] == Column(d, n, [p \in Producers(n) |-> col[p]])
  IN  col

\* A scalar is broadcast to every asset; a column belongs to the frame of its own
\* timeframe.  The columns of the data sources are those the data has already.
Receivers(d, n) ==
  {a \in Assets : IF IsScalar(n) THEN a \in AssetsOf(d)
                                 ELSE Present(d, Def[n].timeframe, a)}

Eval(d) ==
  LET col == Columns(d)
  IN  UNION {{[node |-> n, asset |-> a, val |-> col[n][a]] : a \in Receivers(d, n)} :
               n \in {m \in Nodes : HasOutputs(m) /\ Def[m].category # "DataSource"}}

Init ==
  /\ phase = "idle"
  /\ feed = [t \in Timeframes |-> [a \in Assets |-> "absent"]]
  /\ output = {}

Begin ==
  /\ phase # "running"
  /\ phase' = "running"
  /\ feed' \in Feeds
  /\ UNCHANGED output

Return ==
  /\ phase = "running"
  /\ phase' = "returned"
  /\ output' = Eval(feed)
  /\ UNCHANGED feed

Fail ==
  /\ phase = "running"
  /\ phase' = "failed"
  /\ UNCHANGED <<feed, output>>

Next == Begin \/ Return \/ Fail

Spec == Init /\ [][Next]_vars

=============================================================================
