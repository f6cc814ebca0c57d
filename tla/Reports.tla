------------------------------- MODULE Reports -------------------------------
(***************************************************************************)
(* Bodies of transforms that run side by side, down to the locks of the    *)
(* storage, and what they leave outside of it: the dashboard of a reporter *)
(* and the data of an event marker, one for all assets, and the caches the *)
(* orchestrator merges them into after a run.                              *)
(*                                                                         *)
(* Only transforms without an edge between them are here, the sinks of a   *)
(* graph; DataFlow has the edges.  A card stands for all the cards, charts *)
(* and tables one call of TransformData makes.                             *)
(***************************************************************************)
EXTENDS StorageLocks

CONSTANTS
  Assets,          \* those the data has frames for
  StrategyAssets,  \* m_asset_ids of the orchestrator
  Graphs,          \* lists of transforms
  Feeds,           \* which assets have rows left after drop_null
  MaxTransforms,   \* bound on the length of a list
  MaxBodies        \* bound on the bodies that all runs together execute

GroupKey == "ALL"  \* epoch_script::GROUP_KEY

Positions == 1..MaxTransforms
Main == <<0, "main">>
Body(i) == <<i, "body">>
Tasks(i) == {<<i, a>> : a \in Assets}
AllThreads ==
  {Main} \cup {Body(i) : i \in Positions} \cup UNION {Tasks(i) : i \in Positions}

\* A thread is a body or one of its tasks, and not both.
ASSUME ThreadsAssumption == Threads = AllThreads /\ "body" \notin Assets

Metadata == [kind : STRING, isCrossSectional : BOOLEAN, mayThrow : BOOLEAN]

ASSUME ScenarioAssumption ==
  /\ MaxTransforms \in Nat
  /\ \A g \in Graphs : g \in Seq(Metadata) /\ Len(g) <= MaxTransforms
  /\ Feeds \subseteq SUBSET Assets

VARIABLES
  phase,        \* where ExecutePipeline is
  graph,        \* the transforms, in the order of m_transforms
  run,          \* number of the current run
  feed,         \* the assets whose frames have rows in this run
  at,           \* what each thread does
  dashboard,    \* m_dashboard of each reporter
  found,        \* the dashboard a task has found, before it stores its own
  marker,       \* m_eventMarkerData of each event marker
  failed,       \* whether the logger has an error
  cached,       \* how many transforms' reports are cached in this run
  reportCache,  \* m_reportCache
  markerCache,  \* m_eventMarkerCache
  returned      \* history: the runs that returned, with their feeds

locks == <<call, granted>>
results == <<dashboard, found, marker, failed>>
caches == <<cached, reportCache, markerCache, returned>>
vars == <<phase, graph, run, feed, at, locks, results, caches>>

Transforms == 1..Len(graph)
IsReporter(i) == graph[i].kind \in {"cards", "gap"}
Keys == StrategyAssets \cup {GroupKey}

Init ==
  /\ phase = "idle"
  /\ graph \in Graphs
  /\ run = 0
  /\ feed = {}
  /\ at = [th \in Threads |-> "done"]
  /\ call = [th \in Threads |-> "none"]
  /\ granted = [th \in Threads |-> 0]
  /\ dashboard = [i \in Positions |-> <<>>]
  /\ found = [th \in Threads |-> <<>>]
  /\ marker = [i \in Positions |-> <<>>]
  /\ failed = FALSE
  /\ cached = 0
  /\ reportCache = [k \in Keys |-> <<>>]
  /\ markerCache = [k \in StrategyAssets |-> <<>>]
  /\ returned = {}

\* The call of the storage that belongs to a step, and what follows it.
CallAt(th, s) ==
  CASE s = "assets" -> "GetAssetIDs"
    [] s = "validate" -> "ValidateInputsAvailable"
    [] s = "gather" -> IF graph[th[1]].kind = "source" THEN "GatherBaseData"
                                                       ELSE "GatherInputs"
    [] s = "store" -> IF graph[th[1]].kind = "scalar" THEN "StoreScalar"
                                                      ELSE "StoreTransformOutput"
    [] s = "build" -> "BuildFinalOutput"
    [] s = "broadcast" -> "BroadcastScalars"
    [] OTHER -> "none"

Goto(th, s) == at' = [at EXCEPT ![th] = s] /\ Enter(th, CallAt(th, s))

GrantLock(th) ==
  /\ Grant(th)
  /\ UNCHANGED <<phase, graph, run, feed, at, results, caches>>

-----------------------------------------------------------------------------
(* ExecutePipeline, up to the end of the bodies. *)

ExecutePipeline ==
  /\ phase \in {"idle", "returned", "failed"}
  /\ (run + 1) * Len(graph) <= MaxBodies
  /\ run' = run + 1
  /\ feed' \in Feeds
  /\ phase' = "initializing"
  /\ Enter(Main, "InitializeBaseData")
  /\ UNCHANGED <<graph, at, results, caches>>

\* try_put to every node, since none of them has a predecessor.
StartBodies ==
  /\ phase = "initializing"
  /\ Inside(Main)
  /\ phase' = "bodies"
  /\ failed' = FALSE
  /\ cached' = 0
  /\ at' = [th \in Threads |-> IF \E i \in Transforms : th = Body(i) THEN "assets" ELSE at[th]]
  /\ call' = [th \in Threads |-> IF \E i \in Transforms : th = Body(i) THEN "GetAssetIDs" ELSE "none"]
  /\ granted' = [th \in Threads |-> 0]
  /\ UNCHANGED <<graph, run, feed, dashboard, found, marker, reportCache, markerCache, returned>>

\* parallel_for_each over the assets the storage names.
SpawnTasks(i) ==
  /\ at[Body(i)] = "assets"
  /\ Inside(Body(i))
  /\ LET next(th) == IF th \in Tasks(i) THEN "validate" ELSE IF th = Body(i) THEN "join" ELSE at[th]
     IN  at' = [th \in Threads |-> next(th)]
  /\ call' = [th \in Threads |-> IF th \in Tasks(i) THEN "ValidateInputsAvailable"
                                 ELSE IF th = Body(i) THEN "none" ELSE call[th]]
  /\ granted' = [granted EXCEPT ![Body(i)] = 0]
  /\ UNCHANGED <<phase, graph, run, feed, results, caches>>

\* The inputs are there, as DataFlow shows; a frame without rows is not
\* transformed.  The tasks of a cross-section only gather.
FinishCall(i, a) ==
  LET th == <<i, a>>
      next == CASE at[th] = "validate" -> "gather"
                [] at[th] = "gather" /\ graph[i].isCrossSectional -> "done"
                [] at[th] = "gather" /\ a \in feed -> "find"
                [] at[th] = "gather" /\ a \notin feed -> "store"
                [] at[th] = "store" -> "done"
  IN  /\ Inside(th)
      /\ Goto(th, next)
      /\ UNCHANGED <<phase, graph, run, feed, results, caches>>

\* The one call of a cross-section has the rows all assets have.
Join(i) ==
  /\ at[Body(i)] = "join"
  /\ \A th \in Tasks(i) : at[th] = "done"
  /\ Goto(Body(i), IF graph[i].isCrossSectional /\ feed = Assets THEN "find" ELSE "done")
  /\ UNCHANGED <<phase, graph, run, feed, results, caches>>

-----------------------------------------------------------------------------
(* TransformData.  Nothing protects m_dashboard and m_eventMarkerData: a   *)
(* task may lose what another one adds at the same time, or the program    *)
(* may end.                                                                *)

AfterTransform(th) == IF graph[th[1]].isCrossSectional THEN "done" ELSE "store"

Find(th) ==
  /\ at[th] = "find"
  /\ found' = [found EXCEPT ![th] = dashboard[th[1]]]
  /\ Goto(th, "fill")
  /\ UNCHANGED <<phase, graph, run, feed, dashboard, marker, failed, caches>>

Card(th) == [by |-> th[1], asset |-> th[2], run |-> run]

Fill(th) ==
  LET i == th[1]
  IN  /\ at[th] = "fill"
      /\ dashboard' = CASE graph[i].kind = "cards" -> [dashboard EXCEPT ![i] = Append(found[th], Card(th))]
                        [] graph[i].kind = "gap" -> [dashboard EXCEPT ![i] = <<Card(th)>>]
                        [] OTHER -> dashboard
      /\ marker' = IF graph[i].kind = "marker" THEN [marker EXCEPT ![i] = <<Card(th)>>] ELSE marker
      /\ found' = [found EXCEPT ![th] = <<>>]
      /\ Goto(th, AfterTransform(th))
      /\ UNCHANGED <<phase, graph, run, feed, failed, caches>>

TransformThrows(th) ==
  /\ at[th] = "find"
  /\ graph[th[1]].mayThrow
  /\ failed' = TRUE
  /\ Goto(th, "done")
  /\ UNCHANGED <<phase, graph, run, feed, dashboard, found, marker, caches>>

Crash(s, t) ==
  /\ s # t /\ s[1] = t[1]
  /\ at[s] = "fill" /\ at[t] = "fill"
  /\ graph[s[1]].kind \in {"cards", "gap", "marker"}
  /\ phase' = "crashed"
  /\ at' = [th \in Threads |-> "done"]
  /\ call' = [th \in Threads |-> "none"]
  /\ granted' = [th \in Threads |-> 0]
  /\ UNCHANGED <<graph, run, feed, results, caches>>

-----------------------------------------------------------------------------
(* ExecutePipeline, after wait_for_all. *)

AllDone == \A th \in Threads : at[th] = "done"

PipelineFailed ==
  /\ phase = "bodies" /\ AllDone /\ failed
  /\ phase' = "failed"
  /\ UNCHANGED <<graph, run, feed, at, locks, results, caches>>

\* Mutant: a report takes the place of the one that is there.
ReplacedReports(i) ==
  IF ~IsReporter(i) \/ dashboard[i] = <<>> THEN reportCache
  ELSE [k \in Keys |->
          IF k \in (IF graph[i].isCrossSectional THEN {GroupKey} ELSE StrategyAssets)
          THEN dashboard[i] ELSE reportCache[k]]

\* CacheReportFromTransform: an empty report is left out; MergeFrom appends.
MergedReports(i) ==
  IF ~IsReporter(i) \/ dashboard[i] = <<>> THEN reportCache
  ELSE [k \in Keys |->
          IF k \in (IF graph[i].isCrossSectional THEN {GroupKey} ELSE StrategyAssets)
          THEN reportCache[k] \o dashboard[i] ELSE reportCache[k]]

\* CacheEventMarkerFromTransform.
MergedMarkers(i) == [k \in StrategyAssets |-> markerCache[k] \o marker[i]]

CacheTransform ==
  /\ phase = "bodies" /\ AllDone /\ ~failed
  /\ cached < Len(graph)
  /\ cached' = cached + 1
  /\ reportCache' = MergedReports(cached + 1)
  /\ markerCache' = MergedMarkers(cached + 1)
  /\ UNCHANGED <<phase, graph, run, feed, at, locks, results, returned>>

BuildFinalOutput ==
  /\ phase = "bodies" /\ AllDone /\ ~failed
  /\ cached = Len(graph)
  /\ phase' = "building"
  /\ Goto(Main, "build")
  /\ UNCHANGED <<graph, run, feed, results, caches>>

\* m_scalarOutputs is tested without its lock, when no body runs any more.
BroadcastScalars ==
  /\ at[Main] = "build"
  /\ Inside(Main)
  /\ \E i \in Transforms : graph[i].kind = "scalar"
  /\ Goto(Main, "broadcast")
  /\ UNCHANGED <<phase, graph, run, feed, results, caches>>

Return ==
  /\ Inside(Main)
  /\ \/ at[Main] = "broadcast"
     \/ at[Main] = "build" /\ \A i \in Transforms : graph[i].kind # "scalar"
  /\ phase' = "returned"
  /\ returned' = returned \cup {[run |-> run, feed |-> feed]}
  /\ Goto(Main, "done")
  /\ UNCHANGED <<graph, run, feed, results, cached, reportCache, markerCache>>

-----------------------------------------------------------------------------
Next ==
  \/ ExecutePipeline \/ StartBodies
  \/ \E i \in Transforms : SpawnTasks(i) \/ Join(i) \/ \E a \in Assets : FinishCall(i, a)
  \/ \E th \in Threads : GrantLock(th) \/ Find(th) \/ Fill(th) \/ TransformThrows(th)
  \/ \E s, t \in Threads : Crash(s, t)
  \/ PipelineFailed \/ CacheTransform \/ BuildFinalOutput \/ BroadcastScalars \/ Return

Spec == Init /\ [][Next]_vars

-----------------------------------------------------------------------------
\* Whoever loses a race on a dashboard, a run that returned is in the report of
\* every asset of the strategy, or in the group's: each reporter that had rows has a
\* card of that run there, and each event marker one in the list of markers.
EveryRunIsReported ==
  \A i \in Transforms : \A r \in returned :
    LET had == IF graph[i].isCrossSectional THEN r.feed = Assets ELSE r.feed # {}
        seen(cards) == \E j \in DOMAIN cards : cards[j].by = i /\ cards[j].run = r.run
    IN  had =>
          /\ IsReporter(i) /\ graph[i].isCrossSectional => seen(reportCache[GroupKey])
          /\ IsReporter(i) /\ ~graph[i].isCrossSectional =>
               \A a \in StrategyAssets : seen(reportCache[a])
          /\ graph[i].kind = "marker" => \A a \in StrategyAssets : seen(markerCache[a])

=============================================================================
