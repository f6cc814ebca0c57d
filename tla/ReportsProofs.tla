---------------------------- MODULE ReportsProofs ----------------------------
(***************************************************************************)
(* Theorems about Reports and the locks of StorageLocks, for any number of *)
(* transforms, assets and runs.                                            *)
(***************************************************************************)
EXTENDS Reports, TLAPS, SequenceTheorems

-----------------------------------------------------------------------------
(* The tables of StorageLocks. *)

Mutexes == {"base", "cache", "assets", "transforms", "scalars"}

LEMMA CallNames ==
  Calls = {"none", "InitializeBaseData", "GetAssetIDs", "ValidateInputsAvailable", "GatherInputs",
           "GatherBaseData", "StoreTransformOutput", "StoreScalar", "BuildFinalOutput",
           "BroadcastScalars"}
BY DEF Calls, Requests

LEMMA LockTable ==
  /\ Len(Requests["none"]) = 0
  /\ Len(Requests["InitializeBaseData"]) = 3
  /\ Requests["InitializeBaseData"][1] = Exclusive("base")
  /\ Requests["InitializeBaseData"][2] = Exclusive("cache")
  /\ Requests["InitializeBaseData"][3] = Exclusive("assets")
  /\ Len(Requests["GetAssetIDs"]) = 1
  /\ Requests["GetAssetIDs"][1] = Shared("assets")
  /\ Len(Requests["ValidateInputsAvailable"]) = 4
  /\ Requests["ValidateInputsAvailable"][1] = Shared("cache")
  /\ Requests["ValidateInputsAvailable"][2] = Shared("base")
  /\ Requests["ValidateInputsAvailable"][3] = Shared("transforms")
  /\ Requests["ValidateInputsAvailable"][4] = Shared("scalars")
  /\ Len(Requests["GatherInputs"]) = 4
  /\ Requests["GatherInputs"][1] = Shared("cache")
  /\ Requests["GatherInputs"][2] = Shared("base")
  /\ Requests["GatherInputs"][3] = Shared("transforms")
  /\ Requests["GatherInputs"][4] = Shared("scalars")
  /\ Len(Requests["GatherBaseData"]) = 1
  /\ Requests["GatherBaseData"][1] = Shared("base")
  /\ Len(Requests["StoreTransformOutput"]) = 2
  /\ Requests["StoreTransformOutput"][1] = Shared("base")
  /\ Requests["StoreTransformOutput"][2] = Exclusive("cache")
  /\ Len(Requests["StoreScalar"]) = 1
  /\ Requests["StoreScalar"][1] = Exclusive("scalars")
  /\ Len(Requests["BuildFinalOutput"]) = 5
  /\ Requests["BuildFinalOutput"][1] = Shared("cache")
  /\ Requests["BuildFinalOutput"][2] = Shared("base")
  /\ Requests["BuildFinalOutput"][3] = Shared("transforms")
  /\ Requests["BuildFinalOutput"][4] = Shared("assets")
  /\ Requests["BuildFinalOutput"][5] = Shared("scalars")
  /\ Len(Requests["BroadcastScalars"]) = 1
  /\ Requests["BroadcastScalars"][1] = Shared("scalars")
BY DEF Requests, ReadingLocks, StoringLocks

LEMMA LockCounts ==
  ASSUME NEW c \in Calls
  PROVE  /\ Len(Requests[c]) \in Nat
         /\ c # "none" => Len(Requests[c]) > 0
         /\ \A i \in 1..Len(Requests[c]) :
              /\ Requests[c][i].mutex \in Mutexes
              /\ Requests[c][i].mode \in {"shared", "exclusive"}
<1> DEFINE Locks == [mutex : Mutexes, mode : {"shared", "exclusive"}]
<1>1. \A m \in Mutexes : Shared(m) \in Locks /\ Exclusive(m) \in Locks
  BY DEF Shared, Exclusive
<1>2. {"base", "cache", "assets", "transforms", "scalars"} \subseteq Mutexes
  BY DEF Mutexes
<1> HIDE DEF Locks
<1>3. Requests[c] \in Seq(Locks)
  <2>1. CASE c = "none"
    BY <1>1, <1>2, <2>1 DEF Requests, ReadingLocks, StoringLocks
  <2>2. CASE c = "InitializeBaseData"
    BY <1>1, <1>2, <2>2 DEF Requests, ReadingLocks, StoringLocks
  <2>3. CASE c = "GetAssetIDs"
    BY <1>1, <1>2, <2>3 DEF Requests, ReadingLocks, StoringLocks
  <2>4. CASE c = "ValidateInputsAvailable"
    BY <1>1, <1>2, <2>4 DEF Requests, ReadingLocks, StoringLocks
  <2>5. CASE c = "GatherInputs"
    BY <1>1, <1>2, <2>5 DEF Requests, ReadingLocks, StoringLocks
  <2>6. CASE c = "GatherBaseData"
    BY <1>1, <1>2, <2>6 DEF Requests, ReadingLocks, StoringLocks
  <2>7. CASE c = "StoreTransformOutput"
    BY <1>1, <1>2, <2>7 DEF Requests, ReadingLocks, StoringLocks
  <2>8. CASE c = "StoreScalar"
    BY <1>1, <1>2, <2>8 DEF Requests, ReadingLocks, StoringLocks
  <2>9. CASE c = "BuildFinalOutput"
    BY <1>1, <1>2, <2>9 DEF Requests, ReadingLocks, StoringLocks
  <2>10. CASE c = "BroadcastScalars"
    BY <1>1, <1>2, <2>10 DEF Requests, ReadingLocks, StoringLocks
  <2> QED BY <2>1, <2>2, <2>3, <2>4, <2>5, <2>6, <2>7, <2>8, <2>9, <2>10, CallNames
<1>4. c # "none" => Len(Requests[c]) > 0
  BY LockTable, CallNames
<1>5. \A i \in 1..Len(Requests[c]) : Requests[c][i] \in Locks
  BY <1>3, ElementOfSeq
<1> QED
  BY <1>3, <1>4, <1>5, LenProperties DEF Locks

\* A call takes the lock of every field it touches, and alone if it writes it.
LEMMA LocksForFields ==
  ASSUME NEW c \in Calls, NEW m \in Mutexes
  PROVE  /\ m \in Writes[c] =>
              \E i \in 1..Len(Requests[c]) : Requests[c][i] = Exclusive(m)
         /\ m \in Touches[c] =>
              \E i \in 1..Len(Requests[c]) : Requests[c][i] \in {Exclusive(m), Shared(m)}
<1> USE LockTable DEF Mutexes, Writes, Touches
<1>1. CASE c = "none"
  BY <1>1
<1>2. CASE c = "InitializeBaseData"
  BY <1>2
<1>3. CASE c = "GetAssetIDs"
  BY <1>3
<1>4. CASE c = "ValidateInputsAvailable"
  BY <1>4
<1>5. CASE c = "GatherInputs"
  BY <1>5
<1>6. CASE c = "GatherBaseData"
  BY <1>6
<1>7. CASE c = "StoreTransformOutput"
  BY <1>7
<1>8. CASE c = "StoreScalar"
  BY <1>8
<1>9. CASE c = "BuildFinalOutput"
  BY <1>9
<1>10. CASE c = "BroadcastScalars"
  BY <1>10
<1> QED
  BY <1>1, <1>2, <1>3, <1>4, <1>5, <1>6, <1>7, <1>8, <1>9, <1>10, CallNames

LEMMA WritesAreMutexes ==
  ASSUME NEW c \in Calls
  PROVE  Writes[c] \subseteq Mutexes
BY CallNames DEF Writes, Mutexes

-----------------------------------------------------------------------------
(* Locks exclude each other. *)

LockTypes ==
  /\ call \in [Threads -> Calls]
  /\ granted \in [Threads -> Nat]
  /\ \A th \in Threads : granted[th] <= Len(Requests[call[th]])

\* Nobody shares, or has as well, what another one has alone.
LocksExclusive ==
  \A s, t \in Threads, m \in Mutexes :
    s # t /\ Holds(s, m, "exclusive") => ~Holds(t, m, "exclusive") /\ ~Holds(t, m, "shared")

LEMMA GrantKeepsLocks ==
  ASSUME LockTypes, LocksExclusive, NEW th \in Threads, Grant(th)
  PROVE  LockTypes' /\ LocksExclusive'
<1> DEFINE r == Request(th)
<1>1. /\ granted[th] < Len(Requests[call[th]])
      /\ granted' = [granted EXCEPT ![th] = granted[th] + 1]
      /\ call' = call
  BY DEF Grant, Waiting
<1>2. call[th] \in Calls /\ Len(Requests[call[th]]) \in Nat
  BY LockCounts DEF LockTypes
<1>3. LockTypes'
  BY <1>1, <1>2 DEF LockTypes
<1>4. ASSUME NEW t \in Threads, NEW m, NEW k
      PROVE  Holds(t, m, k)' => Holds(t, m, k) \/ (t = th /\ r.mutex = m /\ r.mode = k)
  <2>1. CASE t = th
    BY <1>1, <1>2, <2>1 DEF Holds, Request, LockTypes
  <2>2. CASE t # th
    BY <1>1, <2>2 DEF Holds, LockTypes
  <2> QED BY <2>1, <2>2
<1>5. ASSUME NEW o \in Threads, o # th
      PROVE  ~Holds(o, r.mutex, "exclusive") /\ (r.mode = "exclusive" => ~Holds(o, r.mutex, "shared"))
  BY <1>5 DEF Grant, Compatible
<1>6. r.mode \in {"shared", "exclusive"}
  BY <1>1, <1>2, LockCounts DEF Request, LockTypes
<1>7. LocksExclusive'
  <2> HIDE DEF r
  <2> SUFFICES ASSUME NEW s \in Threads, NEW t \in Threads, NEW m \in Mutexes, s # t,
                      Holds(s, m, "exclusive")', NEW k \in {"exclusive", "shared"}, Holds(t, m, k)'
               PROVE  FALSE
    BY DEF LocksExclusive
  <2>1. CASE Holds(s, m, "exclusive") /\ Holds(t, m, k)
    BY <2>1 DEF LocksExclusive
  <2>2. CASE s = th /\ r.mutex = m /\ r.mode = "exclusive"
    BY <2>2, <1>4, <1>5
  <2>3. CASE t = th /\ r.mutex = m /\ r.mode = k
    BY <2>3, <1>4, <1>5
  <2> QED BY <1>4, <2>1, <2>2, <2>3
<1> QED
  BY <1>3, <1>7

\* Entering and leaving calls gives locks back and takes none.
LEMMA EnterKeepsLocks ==
  ASSUME LocksExclusive, LockTypes',
         \A th \in Threads : \/ granted'[th] = 0
                             \/ granted'[th] = granted[th] /\ call'[th] = call[th]
  PROVE  LocksExclusive'
<1>1. ASSUME NEW t \in Threads, NEW m, NEW k, Holds(t, m, k)'
      PROVE  Holds(t, m, k)
  BY <1>1 DEF Holds
<1> QED
  BY <1>1 DEF LocksExclusive

LEMMA LocksCover == LockTypes /\ LocksExclusive => LocksCoverAccesses
<1> SUFFICES ASSUME LockTypes, LocksExclusive,
                    NEW s \in Threads, NEW t \in Threads, s # t, Inside(s), Inside(t),
                    NEW m \in Writes[call[s]] \cap Touches[call[t]]
             PROVE  FALSE
  BY DEF LocksCoverAccesses
<1>1. call[s] \in Calls /\ call[t] \in Calls /\ m \in Mutexes
  BY WritesAreMutexes DEF LockTypes
<1>2. Holds(s, m, "exclusive")
  <2>1. PICK i \in 1..granted[s] : Requests[call[s]][i] = Exclusive(m)
    BY <1>1, LocksForFields DEF Inside
  <2> QED BY <2>1 DEF Holds, Exclusive
<1>3. Holds(t, m, "exclusive") \/ Holds(t, m, "shared")
  <2>1. PICK i \in 1..granted[t] : Requests[call[t]][i] \in {Exclusive(m), Shared(m)}
    BY <1>1, LocksForFields DEF Inside
  <2> QED BY <2>1 DEF Holds, Exclusive, Shared
<1> QED
  BY <1>1, <1>2, <1>3 DEF LocksExclusive

-----------------------------------------------------------------------------
(* The inductive invariant. *)

Phases == {"idle", "initializing", "bodies", "building", "returned", "failed", "crashed"}
BodySteps == {"done", "assets", "join", "find", "fill"}
TaskSteps == {"done", "validate", "gather", "find", "fill", "store"}
MainSteps == {"done", "build", "broadcast"}
Cards == [by : Nat, asset : Assets \cup {"body", "main"}, run : Nat]

TypeOK ==
  /\ phase \in Phases
  /\ graph \in Graphs
  /\ run \in Nat
  /\ feed \in SUBSET Assets
  /\ at \in [Threads -> BodySteps \cup TaskSteps \cup MainSteps]
  /\ LockTypes
  /\ dashboard \in [Positions -> Seq(Cards)]
  /\ found \in [Threads -> Seq(Cards)]
  /\ marker \in [Positions -> Seq(Cards)]
  /\ failed \in BOOLEAN
  /\ cached \in 0..Len(graph)
  /\ reportCache \in [Keys -> Seq(Cards)]
  /\ markerCache \in [StrategyAssets -> Seq(Cards)]
  /\ returned \in SUBSET [run : Nat, feed : SUBSET Assets]

\* A thread is in the call of its step, except that the pipeline initializes before
\* any body has a step, and bodies run only between StartBodies and wait_for_all.
\* The body itself transforms only for a cross-section, and its tasks begin when it
\* has the assets.
Control ==
  /\ \A th \in Threads :
       call[th] = IF th = Main /\ phase = "initializing" THEN "InitializeBaseData"
                                                         ELSE CallAt(th, at[th])
  /\ at[Main] \in IF phase = "building" THEN {"build", "broadcast"} ELSE {"done"}
  /\ \A i \in Positions :
       at[Body(i)] \in BodySteps /\ (at[Body(i)] \in {"find", "fill"} => graph[i].isCrossSectional)
  /\ \A i \in Positions : \A th \in Tasks(i) :
       at[th] \in TaskSteps /\ (at[Body(i)] = "assets" => at[th] = "done")
  /\ phase # "bodies" => \A th \in Threads \ {Main} : at[th] = "done"

\* What transform i leaves behind in its own object.
Seen(cards, i, r) == \E j \in DOMAIN cards : cards[j].by = i /\ cards[j].run = r

Reported(i) ==
  /\ IsReporter(i) => Seen(dashboard[i], i, run)
  /\ graph[i].kind = "marker" => Seen(marker[i], i, run)

\* A task that had rows has left a card of this run, its own or one that took its
\* place, once it stores; so has the only call of a cross-section.
BodiesReport ==
  phase = "bodies" /\ ~failed =>
    \A i \in Transforms :
      IF graph[i].isCrossSectional
      THEN feed = Assets /\ at[Body(i)] = "done" => Reported(i)
      ELSE \A a \in feed :
             at[Body(i)] # "assets" /\ at[<<i, a>>] \in {"store", "done"} => Reported(i)

\* What the caches of the orchestrator have of transform i.
Had(i, f) == IF graph[i].isCrossSectional THEN f = Assets ELSE f # {}

InCaches(i, r) ==
  /\ IsReporter(i) /\ graph[i].isCrossSectional => Seen(reportCache[GroupKey], i, r)
  /\ IsReporter(i) /\ ~graph[i].isCrossSectional =>
       \A a \in StrategyAssets : Seen(reportCache[a], i, r)
  /\ graph[i].kind = "marker" => \A a \in StrategyAssets : Seen(markerCache[a], i, r)

CachedReports ==
  /\ phase \in {"bodies", "building"} => \A i \in 1..cached : Had(i, feed) => InCaches(i, run)
  /\ phase = "building" => cached = Len(graph)

ReportedRuns ==
  \A i \in Transforms : \A r \in returned : Had(i, r.feed) => InCaches(i, r.run)

IInv ==
  /\ TypeOK /\ LocksExclusive /\ Control
  /\ BodiesReport /\ CachedReports /\ ReportedRuns

-----------------------------------------------------------------------------
(* Threads, and what going to a step does. *)

LEMMA ThreadKinds ==
  /\ Main \in Threads
  /\ \A i \in Positions : Body(i) \in Threads \ {Main} /\ Tasks(i) \subseteq Threads \ {Main}
  /\ \A i, j \in Positions : Body(i) \notin Tasks(j) /\ (Body(i) = Body(j) => i = j)
  /\ \A i \in Positions, a \in Assets : <<i, a>> \in Tasks(i)
  /\ \A th \in Threads \ {Main} : \E i \in Positions : th = Body(i) \/ th \in Tasks(i)
<1>1. 0 \notin Positions
  BY ScenarioAssumption DEF Positions
<1> QED
  BY <1>1, ThreadsAssumption DEF AllThreads, Main, Body, Tasks

LEMMA CardTypes ==
  ASSUME NEW th \in Threads, run \in Nat
  PROVE  Card(th) \in Cards
<1>1. th[1] \in Nat /\ th[2] \in Assets \cup {"body", "main"}
  BY ThreadsAssumption, ScenarioAssumption DEF AllThreads, Main, Body, Tasks, Positions
<1> QED
  BY <1>1 DEF Card, Cards

LEMMA GraphTypes ==
  ASSUME graph \in Graphs
  PROVE  /\ Len(graph) \in Nat
         /\ Transforms \subseteq Positions
         /\ \A i \in Transforms : graph[i] \in Metadata
<1>1. graph \in Seq(Metadata) /\ Len(graph) <= MaxTransforms /\ MaxTransforms \in Nat
  BY ScenarioAssumption
<1> QED
  BY <1>1, ElementOfSeq DEF Transforms, Positions

LEMMA CallAtTypes ==
  ASSUME NEW th, NEW s
  PROVE  CallAt(th, s) \in Calls
BY CallNames DEF CallAt

\* The calls of the steps.
LEMMA CallAtSteps ==
  ASSUME NEW th
  PROVE  /\ \A s \in {"done", "join", "find", "fill"} : CallAt(th, s) = "none"
         /\ CallAt(th, "assets") = "GetAssetIDs"
         /\ CallAt(th, "validate") = "ValidateInputsAvailable"
         /\ CallAt(th, "gather") \in {"GatherBaseData", "GatherInputs"}
         /\ CallAt(th, "store") \in {"StoreScalar", "StoreTransformOutput"}
         /\ CallAt(th, "build") = "BuildFinalOutput"
         /\ CallAt(th, "broadcast") = "BroadcastScalars"
BY DEF CallAt

LEMMA EnterLocks ==
  ASSUME LockTypes, LocksExclusive, NEW th \in Threads, NEW c \in Calls, Enter(th, c)
  PROVE  LockTypes' /\ LocksExclusive'
<1>1. LockTypes'
  BY LockCounts DEF Enter, LockTypes
<1> QED
  BY <1>1, EnterKeepsLocks DEF Enter, LockTypes

\* A body or a task goes on.
LEMMA GotoControl ==
  ASSUME TypeOK, Control, phase = "bodies", phase' = phase, graph' = graph,
         NEW i \in Positions, NEW th, NEW s, Goto(th, s),
         \/ /\ th = Body(i) /\ s \in BodySteps \ {"assets"}
            /\ s \in {"find", "fill"} => graph[i].isCrossSectional
         \/ th \in Tasks(i) /\ s \in TaskSteps /\ at[th] # "done"
  PROVE  Control' /\ at' \in [Threads -> BodySteps \cup TaskSteps \cup MainSteps]
<1>1. th \in Threads \ {Main}
  BY ThreadKinds
<1>2. /\ at' = [at EXCEPT ![th] = s]
      /\ call' = [call EXCEPT ![th] = CallAt(th, s)]
  BY DEF Goto, Enter
<1>3. \A t \in Threads : call'[t] = CallAt(t, at'[t])
  BY <1>1, <1>2 DEF Control, TypeOK, LockTypes
<1>4. \A t \in Threads, x \in BodySteps \cup TaskSteps : CallAt(t, x)' = CallAt(t, x)
  BY DEF CallAt
<1>5. \A t \in Threads : CallAt(t, at[t])' = CallAt(t, at'[t])
  BY DEF CallAt
<1>6. at'[Main] = "done"
  BY <1>1, <1>2, ThreadKinds DEF Control, TypeOK
<1>7. ASSUME NEW j \in Positions
      PROVE  at'[Body(j)] \in BodySteps /\ (at'[Body(j)] \in {"find", "fill"} => graph[j].isCrossSectional)
  BY <1>1, <1>2, ThreadKinds DEF Control, TypeOK
<1>8. \A j \in Positions : \A t \in Tasks(j) :
        at'[t] \in TaskSteps /\ (at'[Body(j)] = "assets" => at'[t] = "done")
  BY <1>1, <1>2, ThreadKinds DEF Control, TypeOK
<1> QED
  BY <1>1, <1>2, <1>3, <1>5, <1>6, <1>7, <1>8, Zenon DEF Control, TypeOK

LEMMA InBodies ==
  ASSUME TypeOK, Control, NEW th \in Threads, at[th] \notin {"done", "build", "broadcast"}
  PROVE  phase = "bodies" /\ \E i \in Positions : th = Body(i) \/ th \in Tasks(i)
<1>1. th # Main
  BY DEF Control
<1> QED
  BY <1>1, ThreadKinds DEF Control

-----------------------------------------------------------------------------
(* Types, locks and control. *)

Core == TypeOK /\ LocksExclusive /\ Control

LEMMA PipelineCore ==
  ASSUME Core,
         \/ ExecutePipeline \/ StartBodies \/ PipelineFailed \/ BuildFinalOutput
         \/ BroadcastScalars \/ Return
  PROVE  Core'
<1> USE DEF Core, locks, results, caches
<1> Main \in Threads
  BY ThreadKinds
<1>1. CASE ExecutePipeline
  <2>1. LockTypes' /\ LocksExclusive'
    BY <1>1, EnterLocks, CallNames DEF ExecutePipeline, TypeOK
  <2>2. feed' \in SUBSET Assets
    BY <1>1, ScenarioAssumption DEF ExecutePipeline
  <2>3. TypeOK'
    BY <1>1, <2>1, <2>2 DEF ExecutePipeline, TypeOK, Phases
  <2>4. at' = at /\ graph' = graph /\ phase' = "initializing" /\ phase \notin {"bodies", "building", "initializing"}
        /\ call' = [call EXCEPT ![Main] = "InitializeBaseData"]
    BY <1>1 DEF ExecutePipeline, Enter
  <2>5. \A th \in Threads : CallAt(th, at[th])' = CallAt(th, at[th])
    BY <2>4 DEF CallAt
  <2>6. Control'
    BY <2>4, <2>5 DEF Control, TypeOK, LockTypes
  <2> QED BY <2>1, <2>3, <2>6
<1>2. CASE StartBodies
  <2>1. /\ phase = "initializing" /\ phase' = "bodies" /\ graph' = graph
        /\ at' = [th \in Threads |-> IF \E i \in Transforms : th = Body(i) THEN "assets" ELSE at[th]]
        /\ call' = [th \in Threads |-> IF \E i \in Transforms : th = Body(i) THEN "GetAssetIDs" ELSE "none"]
        /\ granted' = [th \in Threads |-> 0]
    BY <1>2 DEF StartBodies
  <2>2. \A th \in Threads : at[th] = "done"
    BY <2>1 DEF Control
  <2>3. LockTypes'
    BY <2>1, LockCounts, CallNames DEF LockTypes
  <2>4. LocksExclusive'
    BY <2>1, <2>3, EnterKeepsLocks
  <2>5. TypeOK'
    <3>1. \A th \in Threads : at'[th] \in {"done", "assets"}
      BY <2>1, <2>2
    <3>2. at' \in [Threads -> BodySteps \cup TaskSteps \cup MainSteps]
      BY <2>1, <3>1 DEF BodySteps
    <3>3. 0 \in 0..Len(graph)
      BY GraphTypes DEF TypeOK
    <3> QED BY <1>2, <2>3, <3>2, <3>3 DEF StartBodies, TypeOK, Phases
  <2>6. \A th \in Threads : call'[th] = CallAt(th, at[th])'
    BY <2>1, <2>2 DEF CallAt
  <2>7. at'[Main] = "done"
    BY <2>1, <2>2, GraphTypes, ThreadKinds DEF TypeOK
  <2>8. \A i \in Positions : at'[Body(i)] \in {"done", "assets"}
    BY <2>1, <2>2, ThreadKinds
  <2>9. ASSUME NEW i \in Positions, NEW th \in Tasks(i) PROVE at'[th] = "done"
    BY <2>1, <2>2, GraphTypes, ThreadKinds DEF TypeOK
  <2>10. Control'
    BY <2>1, <2>6, <2>7, <2>8, <2>9 DEF Control, BodySteps, TaskSteps
  <2> QED BY <2>4, <2>5, <2>10
<1>3. CASE PipelineFailed
  <2>1. \A th \in Threads : CallAt(th, at[th])' = CallAt(th, at[th])
    BY <1>3 DEF PipelineFailed, CallAt
  <2>2. LockTypes' /\ LocksExclusive'
    BY <1>3 DEF PipelineFailed, TypeOK, LockTypes, LocksExclusive, Holds
  <2>3. TypeOK'
    BY <1>3, <2>2 DEF PipelineFailed, TypeOK, Phases
  <2>4. Control'
    BY <1>3, <2>1 DEF PipelineFailed, Control, AllDone
  <2> QED BY <2>2, <2>3, <2>4
<1>4. CASE BuildFinalOutput \/ BroadcastScalars \/ Return
  <2>1. PICK s \in MainSteps :
          /\ Goto(Main, s) /\ graph' = graph
          /\ IF phase' = "building" THEN s \in {"build", "broadcast"} ELSE s = "done"
          /\ phase' \in {"building", "returned"}
    BY <1>4 DEF BuildFinalOutput, BroadcastScalars, Return, MainSteps, Control
  <2>2. LockTypes' /\ LocksExclusive'
    BY <2>1, EnterLocks, CallAtTypes DEF Goto, TypeOK
  <2>3. at' = [at EXCEPT ![Main] = s] /\ call' = [call EXCEPT ![Main] = CallAt(Main, s)]
    BY <2>1 DEF Goto, Enter
  <2>4. \A th \in Threads \ {Main} : at[th] = "done"
    BY <1>4 DEF BuildFinalOutput, BroadcastScalars, Return, AllDone, Control
  <2>5. TypeOK'
    BY <1>4, <2>2, <2>3 DEF BuildFinalOutput, BroadcastScalars, Return, TypeOK, Phases
  <2>6. \A th \in Threads : CallAt(th, at'[th]) = CallAt(th, at[th])'
    BY <2>1 DEF CallAt
  <2>7. \A th \in Threads : call'[th] = CallAt(th, at'[th])
    BY <2>3 DEF Control, TypeOK, LockTypes
  <2>8. Control'
    BY <2>1, <2>3, <2>4, <2>6, <2>7, ThreadKinds DEF Control, TypeOK, BodySteps, TaskSteps
  <2> QED BY <2>2, <2>5, <2>8
<1> QED
  BY <1>1, <1>2, <1>3, <1>4

\* The steps of bodies that end one call of a thread and begin another.
LEMMA GotoCore ==
  ASSUME Core, phase = "bodies", phase' = phase, graph' = graph,
         NEW i \in Positions, NEW th, NEW s, Goto(th, s),
         \/ /\ th = Body(i) /\ s \in BodySteps \ {"assets"}
            /\ s \in {"find", "fill"} => graph[i].isCrossSectional
         \/ th \in Tasks(i) /\ s \in TaskSteps /\ at[th] # "done"
  PROVE  /\ Control' /\ LockTypes' /\ LocksExclusive'
         /\ at' \in [Threads -> BodySteps \cup TaskSteps \cup MainSteps]
<1>1. Control' /\ at' \in [Threads -> BodySteps \cup TaskSteps \cup MainSteps]
  BY GotoControl DEF Core
<1>2. th \in Threads
  BY ThreadKinds
<1>3. LockTypes' /\ LocksExclusive'
  BY <1>2, EnterLocks, CallAtTypes DEF Core, TypeOK, Goto
<1> QED
  BY <1>1, <1>3

\* What a task goes on with after a call.
LEMMA FinishSteps ==
  ASSUME Core, NEW i \in Transforms, NEW a \in Assets, FinishCall(i, a)
  PROVE  /\ phase = "bodies" /\ <<i, a>> \in Threads /\ i \in Positions
         /\ \E s \in {"gather", "done", "find", "store"} :
              /\ Goto(<<i, a>>, s)
              /\ s = "gather" => at[<<i, a>>] = "validate"
              /\ s = "store" => a \notin feed
              /\ s = "done" => graph[i].isCrossSectional \/ at[<<i, a>>] = "store"
<1> DEFINE th == <<i, a>>
<1>1. i \in Positions /\ th \in Tasks(i) /\ th \in Threads \ {Main}
  BY GraphTypes, ThreadKinds DEF Core, TypeOK
<1>2. call[th] # "none" /\ at[th] \in TaskSteps /\ call[th] = CallAt(th, at[th])
  BY <1>1 DEF FinishCall, Inside, Core, Control
<1>3. at[th] \in {"validate", "gather", "store"}
  BY <1>2, CallAtSteps DEF TaskSteps
<1>4. phase = "bodies"
  BY <1>1, <1>3, InBodies DEF Core
<1> QED
  BY <1>1, <1>3, <1>4 DEF FinishCall

LEMMA BodiesCore ==
  ASSUME Core,
         \/ \E i \in Transforms : SpawnTasks(i) \/ Join(i) \/ \E a \in Assets : FinishCall(i, a)
         \/ \E th \in Threads : GrantLock(th) \/ Find(th) \/ Fill(th) \/ TransformThrows(th)
         \/ \E s, t \in Threads : Crash(s, t)
         \/ CacheTransform
  PROVE  Core'
<1> USE DEF locks, results, caches
<1> TypeOK /\ Control /\ LocksExclusive
  BY DEF Core
<1>1. ASSUME NEW i \in Transforms, SpawnTasks(i) PROVE Core'
  <2>1. i \in Positions /\ Body(i) \in Threads \ {Main} /\ Tasks(i) \subseteq Threads \ {Main}
    BY GraphTypes, ThreadKinds DEF TypeOK
  <2>2. phase = "bodies"
    BY <1>1, <2>1, InBodies DEF SpawnTasks
  <2>3. /\ at' = [th \in Threads |-> IF th \in Tasks(i) THEN "validate"
                                     ELSE IF th = Body(i) THEN "join" ELSE at[th]]
        /\ call' = [th \in Threads |-> IF th \in Tasks(i) THEN "ValidateInputsAvailable"
                                       ELSE IF th = Body(i) THEN "none" ELSE call[th]]
        /\ granted' = [granted EXCEPT ![Body(i)] = 0]
        /\ phase' = phase /\ graph' = graph
    BY <1>1 DEF SpawnTasks
  <2>4. ASSUME NEW th \in Tasks(i) PROVE granted[th] = 0
    <3>1. at[th] = "done" /\ call[th] = "none"
      BY <1>1, <2>1, <2>2, <2>4, CallAtSteps DEF Control, SpawnTasks
    <3> QED BY <2>1, <2>4, <3>1, LockTable DEF TypeOK, LockTypes
  <2>5. LockTypes'
    <3>1. call' \in [Threads -> Calls] /\ granted' \in [Threads -> Nat]
      BY <2>3, CallNames DEF TypeOK, LockTypes
    <3>2. ASSUME NEW th \in Threads PROVE granted'[th] <= Len(Requests[call'[th]])
      <4>1. CASE th \in Tasks(i) \/ th = Body(i)
        <5>1. granted'[th] = 0
          BY <2>1, <2>3, <2>4, <4>1 DEF TypeOK, LockTypes
        <5> QED BY <3>1, <5>1, LockCounts
      <4>2. CASE th \notin Tasks(i) /\ th # Body(i)
        BY <2>3, <4>2 DEF TypeOK, LockTypes
      <4> QED BY <4>1, <4>2
    <3> QED BY <3>1, <3>2 DEF LockTypes
  <2>6. LocksExclusive'
    BY <2>1, <2>3, <2>4, <2>5, EnterKeepsLocks DEF TypeOK, LockTypes
  <2>7. \A th \in Threads : at'[th] \in {"validate", "join", at[th]}
    BY <2>3
  <2>8. at' \in [Threads -> BodySteps \cup TaskSteps \cup MainSteps]
    BY <2>3 DEF TypeOK, BodySteps, TaskSteps
  <2>9. TypeOK'
    BY <1>1, <2>5, <2>8 DEF SpawnTasks, TypeOK
  <2>10. \A th \in Threads : call'[th] = CallAt(th, at'[th])
    BY <2>2, <2>3, CallAtSteps DEF Control
  <2>11. \A th \in Threads : CallAt(th, at'[th]) = CallAt(th, at[th])'
    BY <2>3 DEF CallAt
  <2>12. at'[Main] = "done"
    BY <2>1, <2>2, <2>3, ThreadKinds DEF Control
  <2>13. ASSUME NEW j \in Positions, NEW th \in Tasks(j)
         PROVE  at'[th] \in TaskSteps /\ (at'[Body(j)] = "assets" => at'[th] = "done")
    <3>1. th \in Threads /\ Body(j) \in Threads /\ Body(j) \notin Tasks(i) /\ th # Body(i)
      BY <2>1, ThreadKinds
    <3>2. at'[th] = IF th \in Tasks(i) THEN "validate" ELSE at[th]
      BY <2>3, <3>1
    <3>3. at'[Body(j)] = IF j = i THEN "join" ELSE at[Body(j)]
      BY <2>1, <2>3, <3>1, ThreadKinds
    <3>4. j # i => th \notin Tasks(i)
      BY DEF Tasks
    <3> QED BY <3>2, <3>3, <3>4 DEF Control, TaskSteps
  <2>14. ASSUME NEW j \in Positions
         PROVE  at'[Body(j)] \in BodySteps /\ (at'[Body(j)] \in {"find", "fill"} => graph[j].isCrossSectional)
    <3>1. at'[Body(j)] = IF j = i THEN "join" ELSE at[Body(j)]
      BY <2>1, <2>3, ThreadKinds
    <3> QED BY <3>1 DEF Control, BodySteps
  <2>15. Control'
    BY <2>2, <2>3, <2>10, <2>11, <2>12, <2>13, <2>14 DEF Control
  <2> QED BY <2>6, <2>9, <2>15 DEF Core
<1>2. ASSUME NEW i \in Transforms, Join(i) PROVE Core'
  <2>1. i \in Positions /\ Body(i) \in Threads
    BY GraphTypes, ThreadKinds DEF TypeOK
  <2>2. phase = "bodies"
    BY <1>2, <2>1, InBodies DEF Join
  <2>3. PICK s \in {"find", "done"} : Goto(Body(i), s) /\ (s = "find" => graph[i].isCrossSectional)
    BY <1>2 DEF Join
  <2>4. Control' /\ LockTypes' /\ LocksExclusive' /\ at' \in [Threads -> BodySteps \cup TaskSteps \cup MainSteps]
    BY <1>2, <2>1, <2>2, <2>3, GotoCore DEF Join, BodySteps
  <2> QED BY <1>2, <2>4 DEF Join, TypeOK, Core
<1>3. ASSUME NEW i \in Transforms, NEW a \in Assets, FinishCall(i, a) PROVE Core'
  <2>1. phase = "bodies" /\ <<i, a>> \in Tasks(i) /\ i \in Positions
    BY <1>3, FinishSteps, ThreadKinds
  <2>2. PICK s \in {"gather", "done", "find", "store"} : Goto(<<i, a>>, s)
    BY <1>3, FinishSteps
  <2>3. at[<<i, a>>] # "done"
    <3>1. call[<<i, a>>] # "none" /\ call[<<i, a>>] = CallAt(<<i, a>>, at[<<i, a>>])
      BY <1>3, <2>1, FinishSteps DEF FinishCall, Inside, Control
    <3> QED BY <3>1, CallAtSteps
  <2>4. Control' /\ LockTypes' /\ LocksExclusive' /\ at' \in [Threads -> BodySteps \cup TaskSteps \cup MainSteps]
    BY <1>3, <2>1, <2>2, <2>3, GotoCore DEF FinishCall, TaskSteps
  <2> QED BY <1>3, <2>4 DEF FinishCall, TypeOK, Core
<1>4. ASSUME NEW th \in Threads, GrantLock(th) PROVE Core'
  <2>1. LockTypes' /\ LocksExclusive'
    BY <1>4, GrantKeepsLocks DEF GrantLock, TypeOK
  <2>2. TypeOK'
    BY <1>4, <2>1 DEF GrantLock, TypeOK
  <2>3. \A t \in Threads : CallAt(t, at[t])' = CallAt(t, at[t])
    BY <1>4 DEF GrantLock, CallAt
  <2>4. Control'
    BY <1>4, <2>3 DEF GrantLock, Grant, Control
  <2> QED BY <2>1, <2>2, <2>4 DEF Core
<1>5. ASSUME NEW th \in Threads, at[th] \in {"find", "fill"},
             NEW s \in {"fill", "store", "done"}, Goto(th, s),
             s = "fill" => at[th] = "find", s = "store" => ~graph[th[1]].isCrossSectional,
             phase' = phase, graph' = graph
      PROVE  Control' /\ LockTypes' /\ LocksExclusive' /\ at' \in [Threads -> BodySteps \cup TaskSteps \cup MainSteps]
  <2>1. phase = "bodies"
    BY <1>5, InBodies
  <2>2. PICK i \in Positions : th = Body(i) \/ th \in Tasks(i)
    BY <1>5, InBodies
  <2>3. CASE th = Body(i)
    <3>1. graph[i].isCrossSectional /\ s \in {"fill", "done"}
      BY <1>5, <2>3 DEF Control, Body
    <3> QED BY <1>5, <2>1, <2>3, <3>1, GotoCore DEF BodySteps
  <2>4. CASE th \in Tasks(i)
    BY <1>5, <2>1, <2>4, GotoCore DEF TaskSteps
  <2> QED BY <2>2, <2>3, <2>4
<1>6. ASSUME NEW th \in Threads, Find(th) PROVE Core'
  <2>1. Control' /\ LockTypes' /\ LocksExclusive' /\ at' \in [Threads -> BodySteps \cup TaskSteps \cup MainSteps]
    BY <1>5, <1>6 DEF Find
  <2>2. found' \in [Threads -> Seq(Cards)]
    <3>1. th[1] \in Positions
      BY <1>6, InBodies DEF Find, Body, Tasks
    <3> QED BY <1>6, <3>1 DEF Find, TypeOK
  <2> QED BY <1>6, <2>1, <2>2 DEF Find, TypeOK, Core
<1>7. ASSUME NEW th \in Threads, Fill(th) PROVE Core'
  <2>1. Control' /\ LockTypes' /\ LocksExclusive' /\ at' \in [Threads -> BodySteps \cup TaskSteps \cup MainSteps]
    BY <1>5, <1>7 DEF Fill, AfterTransform
  <2>2. Card(th) \in Cards
    BY CardTypes DEF TypeOK
  <2>3. dashboard' \in [Positions -> Seq(Cards)] /\ marker' \in [Positions -> Seq(Cards)]
        /\ found' \in [Threads -> Seq(Cards)]
    <3>1. <<Card(th)>> \in Seq(Cards) /\ Append(found[th], Card(th)) \in Seq(Cards)
      BY <2>2, AppendProperties DEF TypeOK
    <3>2. <<>> \in Seq(Cards)
      OBVIOUS
    <3> QED BY <1>7, <3>1, <3>2 DEF Fill, TypeOK
  <2> QED BY <1>7, <2>1, <2>3 DEF Fill, TypeOK, Core
<1>8. ASSUME NEW th \in Threads, TransformThrows(th) PROVE Core'
  <2>1. Control' /\ LockTypes' /\ LocksExclusive' /\ at' \in [Threads -> BodySteps \cup TaskSteps \cup MainSteps]
    BY <1>5, <1>8 DEF TransformThrows
  <2> QED BY <1>8, <2>1 DEF TransformThrows, TypeOK, Core
<1>9. ASSUME NEW u \in Threads, NEW t \in Threads, Crash(u, t) PROVE Core'
  <2>1. /\ phase' = "crashed" /\ graph' = graph
        /\ at' = [th \in Threads |-> "done"]
        /\ call' = [th \in Threads |-> "none"]
        /\ granted' = [th \in Threads |-> 0]
    BY <1>9 DEF Crash
  <2>2. LockTypes'
    BY <2>1, LockCounts, CallNames DEF LockTypes
  <2>3. LocksExclusive'
    BY <2>1, <2>2, EnterKeepsLocks
  <2>4. at' \in [Threads -> BodySteps \cup TaskSteps \cup MainSteps]
    BY <2>1 DEF BodySteps
  <2>5. TypeOK'
    BY <1>9, <2>2, <2>4 DEF Crash, TypeOK, Phases
  <2>6. \A th \in Threads : call'[th] = CallAt(th, at[th])'
    BY <2>1, CallAtSteps DEF CallAt
  <2>7. Control'
    BY <2>1, <2>6, ThreadKinds DEF Control, BodySteps, TaskSteps
  <2> QED BY <2>3, <2>5, <2>7 DEF Core
<1>10. ASSUME CacheTransform PROVE Core'
  <2>1. \A th \in Threads : CallAt(th, at[th])' = CallAt(th, at[th])
    BY <1>10 DEF CacheTransform, CallAt
  <2>2. LockTypes' /\ LocksExclusive'
    BY <1>10 DEF CacheTransform, TypeOK, LockTypes, LocksExclusive, Holds
  <2>3. cached' \in 0..Len(graph) /\ cached' \in Positions
    <3>1. cached + 1 \in 1..Len(graph) /\ cached' = cached + 1
      BY <1>10, GraphTypes DEF CacheTransform, TypeOK
    <3>2. cached' \in Positions
      BY <3>1, GraphTypes DEF TypeOK, Transforms
    <3> QED BY <3>1, <3>2, GraphTypes DEF TypeOK
  <2>4. reportCache' \in [Keys -> Seq(Cards)]
    BY <1>10, <2>3, ConcatProperties DEF CacheTransform, TypeOK, MergedReports
  <2>5. markerCache' \in [StrategyAssets -> Seq(Cards)]
    BY <1>10, <2>3, ConcatProperties DEF CacheTransform, TypeOK, MergedMarkers
  <2>6. TypeOK'
    BY <1>10, <2>2, <2>3, <2>4, <2>5 DEF CacheTransform, TypeOK
  <2>7. Control'
    BY <1>10, <2>1 DEF CacheTransform, Control
  <2> QED BY <2>2, <2>6, <2>7 DEF Core
<1> QED
  BY <1>1, <1>2, <1>3, <1>4, <1>6, <1>7, <1>8, <1>9, <1>10

LEMMA NextCore ==
  ASSUME Core, [Next]_vars
  PROVE  Core'
<1>1. CASE UNCHANGED vars
  <2>0. UNCHANGED <<phase, graph, run, feed, at, call, granted, dashboard, found, marker,
                    failed, cached, reportCache, markerCache, returned>>
    BY <1>1 DEF vars, locks, results, caches
  <2>1. LockTypes' /\ LocksExclusive'
    BY <2>0 DEF Core, TypeOK, LockTypes, LocksExclusive, Holds
  <2>2. \A th \in Threads : CallAt(th, at[th])' = CallAt(th, at[th])
    BY <2>0 DEF CallAt
  <2>3. TypeOK'
    BY <2>0, <2>1 DEF Core, TypeOK
  <2>4. Control'
    BY <2>0, <2>2 DEF Core, Control
  <2> QED BY <2>1, <2>3, <2>4 DEF Core
<1> QED
  BY <1>1, PipelineCore, BodiesCore DEF Next

-----------------------------------------------------------------------------
(* What is reported. *)

LEMMA SeenConcat ==
  ASSUME NEW x \in Seq(Cards), NEW y \in Seq(Cards), NEW i, NEW r
  PROVE  /\ Seen(x, i, r) => Seen(x \o y, i, r)
         /\ Seen(y, i, r) => Seen(x \o y, i, r)
<1>1. /\ DOMAIN x = 1..Len(x) /\ DOMAIN y = 1..Len(y) /\ DOMAIN (x \o y) = 1..(Len(x) + Len(y))
      /\ Len(x) \in Nat /\ Len(y) \in Nat
      /\ \A j \in 1..Len(x) + Len(y) : (x \o y)[j] = IF j <= Len(x) THEN x[j] ELSE y[j - Len(x)]
  BY ConcatProperties, LenProperties
<1>2. ASSUME NEW j \in 1..Len(x) PROVE j \in DOMAIN (x \o y) /\ (x \o y)[j] = x[j]
  BY <1>1
<1>3. ASSUME NEW j \in 1..Len(y)
      PROVE  Len(x) + j \in DOMAIN (x \o y) /\ (x \o y)[Len(x) + j] = y[j]
  BY <1>1
<1>4. Seen(x, i, r) => Seen(x \o y, i, r)
  BY <1>1, <1>2 DEF Seen
<1>5. Seen(y, i, r) => Seen(x \o y, i, r)
  BY <1>1, <1>3 DEF Seen
<1> QED
  BY <1>4, <1>5

LEMMA SeenLast ==
  ASSUME NEW x \in Seq(Cards), NEW c \in Cards
  PROVE  Seen(Append(x, c), c.by, c.run) /\ Seen(<<c>>, c.by, c.run)
<1>1. Len(x) + 1 \in DOMAIN Append(x, c) /\ Append(x, c)[Len(x) + 1] = c
  BY AppendProperties, LenProperties
<1>2. 1 \in DOMAIN <<c>> /\ <<c>>[1] = c
  OBVIOUS
<1> QED
  BY <1>1, <1>2 DEF Seen

\* A body that ends its TransformData has reported.
LEMMA FillReports ==
  ASSUME Core, NEW th \in Threads, Fill(th)
  PROVE  \A i \in Transforms : Reported(i) \/ i = th[1] => Reported(i)'
<1> SUFFICES ASSUME NEW i \in Transforms, Reported(i) \/ i = th[1]
             PROVE  Reported(i)'
  OBVIOUS
<1>1. i \in Positions /\ graph' = graph /\ run' = run
  BY GraphTypes DEF Core, TypeOK, Fill
<1>2. CASE i = th[1]
  <2>1. Card(th) \in Cards /\ Card(th).by = i /\ Card(th).run = run
    BY <1>2, CardTypes DEF Core, TypeOK, Card
  <2>2. Seen(Append(found[th], Card(th)), i, run) /\ Seen(<<Card(th)>>, i, run)
    BY <2>1, SeenLast DEF Core, TypeOK
  <2>3. IsReporter(i) => Seen(dashboard'[i], i, run)
    BY <1>1, <1>2, <2>2 DEF Fill, IsReporter, Core, TypeOK
  <2>4. graph[i].kind = "marker" => Seen(marker'[i], i, run)
    BY <1>1, <1>2, <2>2 DEF Fill, Core, TypeOK
  <2> QED BY <1>1, <2>3, <2>4 DEF Reported, IsReporter
<1>3. CASE i # th[1]
  <2>1. dashboard'[i] = dashboard[i] /\ marker'[i] = marker[i]
    BY <1>1, <1>3 DEF Fill, Core, TypeOK
  <2> QED BY <1>1, <1>3, <2>1 DEF Reported, IsReporter
<1> QED
  BY <1>2, <1>3

LEMMA NextBodiesReport ==
  ASSUME Core, BodiesReport, [Next]_vars
  PROVE  BodiesReport'
<1> USE DEF locks, results, caches
<1> TypeOK /\ Control
  BY DEF Core
<1> SUFFICES ASSUME phase' = "bodies", ~failed' PROVE BodiesReport'
  BY DEF BodiesReport
<1>1. CASE StartBodies
  <2>1. \A i \in Transforms : at'[Body(i)] = "assets"
    BY <1>1, GraphTypes, ThreadKinds DEF StartBodies, TypeOK
  <2>2. Transforms' = Transforms
    BY <1>1 DEF StartBodies, Transforms
  <2> QED BY <2>1, <2>2 DEF BodiesReport
\* From here on the bodies were running already.
<1>2. ASSUME phase = "bodies", ~failed, UNCHANGED <<graph, run, feed>>,
             \A i \in Transforms : Reported(i) => Reported(i)',
             \A i \in Transforms :
               IF graph[i].isCrossSectional
               THEN at'[Body(i)] = "done" =>
                      at[Body(i)] = "done" \/ feed # Assets \/ Reported(i)'
               ELSE \A a \in feed :
                      at'[Body(i)] # "assets" /\ at'[<<i, a>>] \in {"store", "done"} =>
                        \/ at[Body(i)] # "assets" /\ at[<<i, a>>] \in {"store", "done"}
                        \/ Reported(i)'
      PROVE  BodiesReport'
  <2>1. Transforms' = Transforms
    BY <1>2 DEF Transforms
  <2>2. ASSUME NEW i \in Transforms, graph[i].isCrossSectional, feed = Assets, at'[Body(i)] = "done"
        PROVE  Reported(i)'
    BY <1>2, <2>2 DEF BodiesReport
  <2>3. ASSUME NEW i \in Transforms, ~graph[i].isCrossSectional, NEW a \in feed,
               at'[Body(i)] # "assets", at'[<<i, a>>] \in {"store", "done"}
        PROVE  Reported(i)'
    BY <1>2, <2>3 DEF BodiesReport
  <2> QED BY <1>2, <2>1, <2>2, <2>3 DEF BodiesReport
<1>3. ASSUME UNCHANGED <<graph, run, dashboard, marker>>
      PROVE  \A i \in Transforms : Reported(i) => Reported(i)'
  BY <1>3 DEF Reported, IsReporter
<1>4. \A i \in Transforms, a \in feed :
        /\ i \in Positions /\ a \in Assets
        /\ <<i, a>> \in Threads /\ <<i, a>> \in Tasks(i) /\ Body(i) \in Threads
        /\ \A j \in Positions : <<i, a>> # Body(j)
  <2> SUFFICES ASSUME NEW i \in Transforms, NEW a \in feed
               PROVE  /\ i \in Positions /\ a \in Assets
                      /\ <<i, a>> \in Threads /\ <<i, a>> \in Tasks(i) /\ Body(i) \in Threads
                      /\ \A j \in Positions : <<i, a>> # Body(j)
    OBVIOUS
  <2>1. i \in Positions /\ a \in Assets
    BY GraphTypes DEF TypeOK
  <2>2. <<i, a>> \in Tasks(i)
    BY <2>1, ThreadKinds
  <2> QED BY <2>1, <2>2, ThreadKinds
<1>5. \A i \in Transforms : i \in Positions /\ Body(i) \in Threads
  BY GraphTypes, ThreadKinds DEF TypeOK
<1>6. ASSUME NEW i \in Transforms, SpawnTasks(i) PROVE BodiesReport'
  <2>1. phase = "bodies" /\ ~failed /\ UNCHANGED <<graph, run, feed, dashboard, marker>>
    BY <1>6 DEF SpawnTasks
  <2>2. \A th \in Threads : at'[th] = IF th \in Tasks(i) THEN "validate"
                                    ELSE IF th = Body(i) THEN "join" ELSE at[th]
    BY <1>6 DEF SpawnTasks
  <2>3. \A j \in Transforms : at'[Body(j)] = IF j = i THEN "join" ELSE at[Body(j)]
    BY <1>5, <2>2, ThreadKinds
  <2>4. \A j \in Transforms, a \in feed :
          at'[<<j, a>>] = IF j = i THEN "validate" ELSE at[<<j, a>>]
    BY <1>4, <2>2 DEF Tasks
  <2> QED BY <1>2, <1>3, <2>1, <2>3, <2>4, Zenon
<1>7. ASSUME NEW i \in Transforms, Join(i) PROVE BodiesReport'
  <2>1. phase = "bodies" /\ ~failed /\ UNCHANGED <<graph, run, feed, dashboard, marker>>
    BY <1>7 DEF Join
  <2>2. /\ at[Body(i)] = "join"
        /\ at' = [at EXCEPT ![Body(i)] = IF graph[i].isCrossSectional /\ feed = Assets THEN "find" ELSE "done"]
    BY <1>7 DEF Join, Goto
  <2>3. \A j \in Transforms : j # i => at'[Body(j)] = at[Body(j)]
    BY <1>5, <2>2, ThreadKinds DEF TypeOK
  <2>4. at'[Body(i)] = IF graph[i].isCrossSectional /\ feed = Assets THEN "find" ELSE "done"
    BY <1>5, <2>2 DEF TypeOK
  <2>5. \A j \in Transforms, a \in feed : at'[<<j, a>>] = at[<<j, a>>]
    BY <1>4, <1>5, <2>2 DEF TypeOK
  <2>6. \A j \in Transforms : at[Body(j)] = "assets" => at'[Body(j)] = "assets" \/ j = i
    BY <2>3
  <2> QED BY <1>2, <1>3, <2>1, <2>2, <2>3, <2>4, <2>5, <2>6
<1>8. ASSUME NEW th \in Threads, NEW s, at' = [at EXCEPT ![th] = s],
             at[th] \notin {"done", "assets"}, s # "assets",
             phase = "bodies", ~failed, UNCHANGED <<graph, run, feed>>,
             \A i \in Transforms : Reported(i) => Reported(i)',
             \A i \in Transforms : th = Body(i) => s # "done" \/ Reported(i)',
             \A i \in Transforms, a \in feed :
               th = <<i, a>> /\ s \in {"store", "done"} =>
                 graph[i].isCrossSectional \/ at[th] = "store" \/ Reported(i)'
      PROVE  BodiesReport'
  <2>1. \A t \in Threads : at'[t] = IF t = th THEN s ELSE at[t]
    BY <1>8 DEF TypeOK
  <2>2. ASSUME NEW i \in Transforms, at'[Body(i)] = "done"
        PROVE  at[Body(i)] = "done" \/ Reported(i)'
    BY <1>5, <1>8, <2>1, <2>2
  <2>3. ASSUME NEW i \in Transforms, NEW a \in feed, ~graph[i].isCrossSectional,
               at'[Body(i)] # "assets", at'[<<i, a>>] \in {"store", "done"}
        PROVE  \/ at[Body(i)] # "assets" /\ at[<<i, a>>] \in {"store", "done"}
               \/ Reported(i)'
    BY <1>4, <1>5, <1>8, <2>1, <2>3
  <2> QED BY <1>2, <1>8, <2>2, <2>3
<1>9. ASSUME NEW i \in Transforms, NEW a \in Assets, FinishCall(i, a) PROVE BodiesReport'
  <2>1. phase = "bodies" /\ ~failed /\ UNCHANGED <<graph, run, feed, dashboard, marker>>
    BY <1>9, FinishSteps DEF FinishCall
  <2>2. PICK s \in {"gather", "done", "find", "store"} :
              /\ Goto(<<i, a>>, s)
              /\ s = "store" => a \notin feed
              /\ s = "done" => graph[i].isCrossSectional \/ at[<<i, a>>] = "store"
    BY <1>9, FinishSteps
  <2>3. <<i, a>> \in Threads /\ \A j \in Transforms : <<i, a>> # Body(j)
    BY <1>5, ThreadKinds, ThreadsAssumption DEF Body
  <2>4. at[<<i, a>>] \notin {"done", "assets"}
    <3>1. /\ call[<<i, a>>] # "none" /\ call[<<i, a>>] = CallAt(<<i, a>>, at[<<i, a>>])
          /\ at[<<i, a>>] \in TaskSteps
      BY <1>5, <1>9, <2>1, <2>3, ThreadKinds DEF FinishCall, Inside, Control
    <3> QED BY <3>1, CallAtSteps DEF TaskSteps
  <2>5. \A j \in Transforms, b \in feed :
               <<i, a>> = <<j, b>> /\ s \in {"store", "done"} =>
                 graph[j].isCrossSectional \/ at[<<i, a>>] = "store"
    BY <2>2
  <2> QED BY <1>3, <1>8, <2>1, <2>2, <2>3, <2>4, <2>5 DEF Goto
<1>10. ASSUME NEW th \in Threads, Find(th) PROVE BodiesReport'
  <2>1. phase = "bodies" /\ ~failed /\ UNCHANGED <<graph, run, feed, dashboard, marker>>
    BY <1>10, InBodies DEF Find
  <2>2. PICK s \in {"fill"} : at' = [at EXCEPT ![th] = s] /\ at[th] = "find"
    BY <1>10 DEF Find, Goto
  <2>3. \A i \in Transforms : Reported(i) => Reported(i)'
    BY <1>3, <2>1
  <2> QED BY <1>8, <2>1, <2>2, <2>3
<1>11. ASSUME NEW th \in Threads, Fill(th) PROVE BodiesReport'
  <2>1. \A i \in Transforms : Reported(i) \/ i = th[1] => Reported(i)'
    BY <1>11, FillReports
  <2>2. \A i \in Transforms : th = Body(i) => Reported(i)'
    BY <2>1 DEF Body
  <2>3. \A i \in Transforms, a \in feed : th = <<i, a>> => Reported(i)'
    BY <2>1
  <2>4. at' = [at EXCEPT ![th] = AfterTransform(th)] /\ AfterTransform(th) # "assets"
    BY <1>11 DEF Fill, Goto, AfterTransform
  <2>5. /\ phase = "bodies" /\ ~failed /\ UNCHANGED <<graph, run, feed>>
        /\ at[th] = "fill" /\ AfterTransform(th) \in {"store", "done"}
    BY <1>11, InBodies DEF Fill, AfterTransform
  <2> DEFINE s == AfterTransform(th)
  <2> HIDE DEF s
  <2>6. \A i \in Transforms : Reported(i) => Reported(i)'
    BY <2>1
  <2> QED BY <1>8, <2>2, <2>3, <2>4, <2>5, <2>6
<1>12. ASSUME NEW th \in Threads, GrantLock(th) PROVE BodiesReport'
  BY <1>2, <1>3, <1>12 DEF GrantLock
<1>13. CASE CacheTransform
  BY <1>2, <1>3, <1>13 DEF CacheTransform
<1>14. CASE UNCHANGED vars
  BY <1>2, <1>3, <1>14 DEF vars
<1>15. CASE \/ ExecutePipeline \/ PipelineFailed \/ BuildFinalOutput \/ BroadcastScalars \/ Return
           \/ (\E th \in Threads : TransformThrows(th)) \/ (\E u, t \in Threads : Crash(u, t))
  BY <1>15 DEF ExecutePipeline, PipelineFailed, BuildFinalOutput, BroadcastScalars, Return,
     TransformThrows, Crash, Control
<1> QED
  BY <1>1, <1>6, <1>7, <1>9, <1>10, <1>11, <1>12, <1>13, <1>14, <1>15 DEF Next

LEMMA AllDoneReported ==
  ASSUME Core, BodiesReport, phase = "bodies", AllDone, ~failed, NEW i \in Transforms, Had(i, feed)
  PROVE  Reported(i)
<1>1. i \in Positions /\ Body(i) \in Threads /\ feed \in SUBSET Assets
  BY GraphTypes, ThreadKinds DEF Core, TypeOK
<1>2. \A a \in feed : <<i, a>> \in Threads
  BY <1>1, ThreadKinds
<1> QED
  BY <1>1, <1>2 DEF BodiesReport, AllDone, Had

\* Merging the reports of transform i leaves what the caches have of the others, and
\* adds what i reported.
LEMMA CacheKeeps ==
  ASSUME Core, CacheTransform
  PROVE  /\ \A i \in Transforms : \A r : InCaches(i, r) => InCaches(i, r)'
         /\ cached + 1 \in Transforms
         /\ \A i \in Transforms : i = cached + 1 /\ Reported(i) => InCaches(i, run)'
<1>0. cached + 1 \in Transforms
  BY GraphTypes DEF CacheTransform, Core, TypeOK, Transforms
<1> SUFFICES ASSUME NEW k \in Transforms, k = cached + 1
             PROVE  /\ \A i \in Transforms : \A r : InCaches(i, r) => InCaches(i, r)'
                    /\ Reported(k) => InCaches(k, run)'
  BY <1>0
<1>1. /\ graph' = graph /\ run' = run
      /\ reportCache' = MergedReports(k) /\ markerCache' = MergedMarkers(k)
  BY DEF CacheTransform
<1>2. k \in Positions /\ graph[k].isCrossSectional \in BOOLEAN
  BY <1>1, GraphTypes DEF Core, TypeOK, Metadata
<1>3. dashboard[k] \in Seq(Cards) /\ marker[k] \in Seq(Cards)
  BY <1>2 DEF Core, TypeOK
<1>4. GroupKey \in Keys /\ StrategyAssets \subseteq Keys
  BY DEF Keys
<1>5. ASSUME NEW i, NEW r, NEW y \in Keys, Seen(reportCache[y], i, r)
      PROVE  Seen(reportCache'[y], i, r)
  BY <1>1, <1>3, <1>5, SeenConcat DEF MergedReports, Core, TypeOK
<1>6. ASSUME NEW i, NEW r, NEW y \in StrategyAssets, Seen(markerCache[y], i, r)
      PROVE  Seen(markerCache'[y], i, r)
  BY <1>1, <1>3, <1>6, SeenConcat DEF MergedMarkers, Core, TypeOK
<1>7. ASSUME NEW i \in Transforms, NEW r, InCaches(i, r) PROVE InCaches(i, r)'
  BY <1>1, <1>4, <1>5, <1>6, <1>7 DEF InCaches, IsReporter
<1>8. ASSUME Reported(k) PROVE InCaches(k, run)'
  <2>1. ASSUME NEW y \in Keys, IsReporter(k), Seen(dashboard[k], k, run),
               y \in (IF graph[k].isCrossSectional THEN {GroupKey} ELSE StrategyAssets)
        PROVE  Seen(reportCache'[y], k, run)
    <3>1. dashboard[k] # <<>>
      BY <2>1 DEF Seen
    <3>2. reportCache'[y] = reportCache[y] \o dashboard[k]
      BY <1>1, <2>1, <3>1 DEF MergedReports
    <3> QED BY <1>3, <2>1, <3>2, SeenConcat DEF Core, TypeOK
  <2>2. ASSUME NEW y \in StrategyAssets, Seen(marker[k], k, run)
        PROVE  Seen(markerCache'[y], k, run)
    BY <1>1, <1>3, <2>2, SeenConcat DEF MergedMarkers, Core, TypeOK
  <2>3. IsReporter(k) /\ graph[k].isCrossSectional => Seen(reportCache'[GroupKey], k, run)
    BY <1>4, <1>8, <2>1 DEF Reported
  <2>4. ASSUME IsReporter(k), ~graph[k].isCrossSectional, NEW a \in StrategyAssets
        PROVE  Seen(reportCache'[a], k, run)
    BY <1>4, <1>8, <2>1, <2>4 DEF Reported
  <2>5. graph[k].kind = "marker" => \A a \in StrategyAssets : Seen(markerCache'[a], k, run)
    BY <1>8, <2>2 DEF Reported
  <2> QED BY <1>1, <2>3, <2>4, <2>5 DEF InCaches, IsReporter
<1> QED
  BY <1>7, <1>8

LEMMA NextReports ==
  ASSUME IInv, [Next]_vars
  PROVE  CachedReports' /\ ReportedRuns'
<1> USE DEF locks, results, caches
<1> TypeOK /\ Control /\ Core
  BY DEF IInv, Core
<1>1. ASSUME UNCHANGED <<graph, run, feed, cached, reportCache, markerCache, returned>>,
             phase' \in {"bodies", "building"} => phase \in {"bodies", "building"},
             phase' = "building" => phase = "building" \/ cached = Len(graph)
      PROVE  CachedReports' /\ ReportedRuns'
  BY <1>1 DEF IInv, CachedReports, ReportedRuns, InCaches, Had, IsReporter, Transforms
<1>2. CASE ExecutePipeline
  BY <1>2 DEF ExecutePipeline, IInv, CachedReports, ReportedRuns, InCaches, Had, IsReporter, Transforms
<1>3. CASE StartBodies
  <2>1. cached' = 0 /\ phase' = "bodies" /\ UNCHANGED <<graph, returned, reportCache, markerCache>>
    BY <1>3 DEF StartBodies
  <2> QED BY <2>1 DEF IInv, CachedReports, ReportedRuns, InCaches, Had, IsReporter, Transforms
<1>4. CASE CacheTransform
  <2>1. /\ UNCHANGED <<phase, graph, run, feed, returned>> /\ phase = "bodies" /\ cached' = cached + 1
    BY <1>4 DEF CacheTransform
  <2>2. cached \in Nat /\ 1..cached \subseteq Transforms
    BY GraphTypes DEF TypeOK, Transforms
  <2>3. \A i \in 1..cached' : i \in 1..cached \/ i = cached + 1
    BY <2>1, <2>2
  <2>4. \A i, f : Had(i, f)' = Had(i, f)
    BY <2>1 DEF Had
  <2>5. ASSUME NEW i \in 1..cached', Had(i, feed) PROVE InCaches(i, run)'
    <3>1. CASE i \in 1..cached
      BY <2>1, <2>2, <2>5, <3>1, <1>4, CacheKeeps DEF IInv, CachedReports
    <3>2. CASE i = cached + 1
      <4>1. i \in Transforms /\ AllDone /\ ~failed
        BY <1>4, <3>2, CacheKeeps DEF CacheTransform
      <4>2. Reported(i)
        BY <2>1, <2>5, <4>1, AllDoneReported DEF IInv
      <4> QED BY <1>4, <3>2, <4>1, <4>2, CacheKeeps
    <3> QED BY <2>3, <3>1, <3>2
  <2>6. CachedReports'
    BY <2>1, <2>4, <2>5 DEF CachedReports, Had
  <2>7. ASSUME NEW i \in Transforms, NEW r \in returned, Had(i, r.feed) PROVE InCaches(i, r.run)'
    BY <1>4, <2>7, CacheKeeps DEF IInv, ReportedRuns
  <2>8. Transforms' = Transforms
    BY <2>1 DEF Transforms
  <2> QED BY <2>1, <2>6, <2>7, <2>8 DEF ReportedRuns, Had
<1>5. CASE Return
  <2>1. phase = "building"
    BY <1>5 DEF Return, Control
  <2>2. /\ UNCHANGED <<graph, run, feed, reportCache, markerCache>> /\ phase' = "returned"
        /\ returned' = returned \cup {[run |-> run, feed |-> feed]}
    BY <1>5 DEF Return
  <2>3. \A i \in Transforms : Had(i, feed) => InCaches(i, run)
    BY <2>1 DEF IInv, CachedReports, Transforms
  <2>4. \A i \in Transforms : \A r \in returned' : Had(i, r.feed) => InCaches(i, r.run)
    BY <2>2, <2>3 DEF IInv, ReportedRuns
  <2>5. ReportedRuns'
    BY <2>2, <2>4 DEF ReportedRuns, Had, InCaches, IsReporter, Transforms
  <2> QED BY <2>2, <2>5 DEF CachedReports
<1>6. CASE BuildFinalOutput
  BY <1>1, <1>6 DEF BuildFinalOutput
<1>7. CASE BroadcastScalars \/ PipelineFailed
  BY <1>1, <1>7 DEF BroadcastScalars, PipelineFailed
<1>8. ASSUME NEW i \in Transforms,
             SpawnTasks(i) \/ Join(i) \/ \E a \in Assets : FinishCall(i, a)
      PROVE  CachedReports' /\ ReportedRuns'
  BY <1>1, <1>8 DEF SpawnTasks, Join, FinishCall
<1>9. ASSUME NEW th \in Threads, GrantLock(th) \/ Find(th) \/ Fill(th) \/ TransformThrows(th)
      PROVE  CachedReports' /\ ReportedRuns'
  BY <1>1, <1>9 DEF GrantLock, Find, Fill, TransformThrows
<1>10. ASSUME NEW u \in Threads, NEW t \in Threads, Crash(u, t)
       PROVE  CachedReports' /\ ReportedRuns'
  BY <1>1, <1>10 DEF Crash
<1>11. CASE UNCHANGED vars
  BY <1>1, <1>11 DEF vars
<1> QED
  BY <1>2, <1>3, <1>4, <1>5, <1>6, <1>7, <1>8, <1>9, <1>10, <1>11 DEF Next

-----------------------------------------------------------------------------
(* Somebody proceeds. *)

\* Nobody else holds a lock while one thread only is in a call.
LEMMA AloneProceeds ==
  ASSUME LockTypes, NEW th \in Threads, \A o \in Threads \ {th} : call[o] = "none"
  PROVE  SomebodyProceeds
<1>1. ASSUME NEW o \in Threads \ {th} PROVE granted[o] = 0 /\ ~Waiting(o)
  BY LockTable DEF LockTypes, Waiting
<1>2. ASSUME NEW o \in Threads \ {th}, NEW m, NEW k PROVE ~Holds(o, m, k)
  BY <1>1 DEF Holds
<1>3. Waiting(th) => MayProceed(th)
  BY <1>1, <1>2 DEF MayProceed, Compatible
<1> QED
  BY <1>1, <1>3 DEF SomebodyProceeds

BodyCalls == {"none", "GetAssetIDs", "ValidateInputsAvailable", "GatherInputs", "GatherBaseData",
              "StoreTransformOutput", "StoreScalar"}

\* A thread of a body that waits: for which lock, and what it has by then.
LEMMA WaitingBodies ==
  ASSUME LockTypes, NEW th \in Threads, call[th] \in BodyCalls, Waiting(th)
  PROVE  /\ \A m : ~Holds(th, m, "exclusive")
         /\ Request(th) = Exclusive("scalars") => granted[th] = 0
         /\ Request(th) \in {Shared("cache"), Shared("base"), Shared("transforms"), Shared("scalars"),
                             Shared("assets"), Exclusive("cache"), Exclusive("scalars")}
         /\ Request(th) \in {Exclusive("cache"), Shared("cache")} => \A k : ~Holds(th, "cache", k)
         /\ \A k : ~Holds(th, "scalars", k)
<1> USE DEF Holds, Request
<1>1. granted[th] \in Nat /\ granted[th] < Len(Requests[call[th]])
  BY DEF LockTypes, Waiting
<1>2. CASE call[th] = "none"
  BY <1>1, <1>2, LockTable
<1>3. CASE call[th] \in {"GetAssetIDs", "GatherBaseData", "StoreScalar"}
  <2>1. Len(Requests[call[th]]) = 1
    BY <1>3, LockTable
  <2>2. granted[th] = 0
    BY <1>1, <2>1
  <2> QED BY <1>3, <2>2, LockTable DEF Shared, Exclusive
<1>4. CASE call[th] \in {"ValidateInputsAvailable", "GatherInputs"}
  <2>1. granted[th] \in {0, 1, 2, 3}
    <3>1. Len(Requests[call[th]]) = 4
      BY <1>4, LockTable
    <3> QED BY <1>1, <3>1
  <2>2. \A i \in 1..granted[th] : i \in {1, 2, 3}
    BY <2>1
  <2>3. /\ Requests[call[th]][1] = Shared("cache") /\ Requests[call[th]][2] = Shared("base")
        /\ Requests[call[th]][3] = Shared("transforms") /\ Requests[call[th]][4] = Shared("scalars")
    BY <1>4, LockTable
  <2>4. granted[th] = 0 => \A i : i \notin 1..granted[th]
    OBVIOUS
  <2> QED BY <2>1, <2>2, <2>3, <2>4 DEF Shared, Exclusive
<1>5. CASE call[th] = "StoreTransformOutput"
  <2>1. granted[th] \in {0, 1}
    BY <1>1, <1>5, LockTable
  <2>2. \A i \in 1..granted[th] : i = 1
    BY <2>1
  <2>3. Requests[call[th]][1] = Shared("base") /\ Requests[call[th]][2] = Exclusive("cache")
    BY <1>5, LockTable
  <2> QED BY <2>1, <2>2, <2>3 DEF Shared, Exclusive
<1> QED
  BY <1>2, <1>3, <1>4, <1>5 DEF BodyCalls

\* Bodies wait for each other at the mutex of the scalars, which nobody keeps while
\* he waits, or at the one of the cache, which only a thread keeps that waits for
\* another one.
LEMMA BodiesProceed ==
  ASSUME LockTypes, \A th \in Threads : call[th] \in BodyCalls
  PROVE  SomebodyProceeds
<1> SUFFICES ASSUME NEW w \in Threads, Waiting(w), \A th \in Threads : ~Inside(th)
             PROVE  \E th \in Threads : MayProceed(th)
  BY DEF SomebodyProceeds
<1>1. ASSUME NEW th \in Threads, NEW m, NEW k, Holds(th, m, k) PROVE Waiting(th)
  <2>1. granted[th] \in Nat \ {0} /\ granted[th] <= Len(Requests[call[th]]) /\ call[th] \in Calls
    BY <1>1 DEF Holds, LockTypes
  <2>2. call[th] # "none"
    BY <2>1, LockTable
  <2> QED BY <2>1, <2>2, LockCounts DEF Inside, Waiting
<1>2. \A th \in Threads, m \in Mutexes : ~Holds(th, m, "exclusive")
  BY <1>1, WaitingBodies
<1>3. \A th \in Threads : \A k : ~Holds(th, "scalars", k)
  BY <1>1, WaitingBodies
<1>4. CASE \E th \in Threads : Waiting(th) /\ Request(th) = Exclusive("scalars")
  BY <1>3, <1>4 DEF MayProceed, Compatible, Exclusive
\* The others wait for a lock to share, or for the cache.
<1>5. ASSUME NEW th \in Threads, Waiting(th), NEW m \in Mutexes, Request(th) = Shared(m),
             \A o \in Threads : Waiting(o) => Request(o) # Exclusive(m)
      PROVE  MayProceed(th)
  BY <1>2, <1>5 DEF MayProceed, Compatible, Shared
<1>6. CASE \A th \in Threads : Waiting(th) => Request(th) # Exclusive("scalars")
  <2>1. CASE \E th \in Threads : Waiting(th) /\ Request(th) \in
               {Shared("base"), Shared("transforms"), Shared("scalars"), Shared("assets")}
    <3>1. PICK th \in Threads, m \in Mutexes \ {"cache"} : Waiting(th) /\ Request(th) = Shared(m)
      BY <2>1 DEF Mutexes
    <3>2. \A o \in Threads : Waiting(o) => Request(o) # Exclusive(m)
      BY <1>6, <3>1, WaitingBodies DEF Exclusive, Shared, Mutexes
    <3> QED BY <1>5, <3>1, <3>2
  <2>2. CASE \A th \in Threads : Waiting(th) => Request(th) \in {Shared("cache"), Exclusive("cache")}
    <3>1. \A th \in Threads : \A k : ~Holds(th, "cache", k)
      BY <1>1, <2>2, WaitingBodies
    <3>2. CASE \E th \in Threads : Waiting(th) /\ Request(th) = Exclusive("cache")
      BY <3>1, <3>2 DEF MayProceed, Compatible, Exclusive
    <3>3. CASE \A th \in Threads : Waiting(th) => Request(th) # Exclusive("cache")
      BY <1>5, <2>2, <3>3 DEF Mutexes
    <3> QED BY <3>2, <3>3
  <2> QED BY <1>6, <2>1, <2>2, WaitingBodies
<1> QED
  BY <1>4, <1>6

LEMMA CoreProceeds == Core => SomebodyProceeds
<1> SUFFICES ASSUME Core PROVE SomebodyProceeds
  OBVIOUS
<1> USE DEF Core
<1>1. CASE phase # "bodies"
  <2>1. ASSUME NEW th \in Threads \ {Main} PROVE call[th] = "none"
    <3>1. at[th] = "done" /\ call[th] = CallAt(th, at[th])
      BY <1>1 DEF Control
    <3> QED BY <3>1, CallAtSteps
  <2> QED BY <2>1, AloneProceeds, ThreadKinds DEF TypeOK
<1>2. CASE phase = "bodies"
  <2>1. call[Main] = "none"
    BY <1>2, CallAtSteps, ThreadKinds DEF Control
  <2>2. ASSUME NEW th \in Threads \ {Main} PROVE call[th] \in BodyCalls
    <3>1. at[th] \in BodySteps \cup TaskSteps
      BY ThreadKinds DEF Control
    <3>2. call[th] = CallAt(th, at[th])
      BY <1>2 DEF Control
    <3> QED BY <3>1, <3>2, CallAtSteps DEF BodyCalls, BodySteps, TaskSteps
  <2> QED BY <2>1, <2>2, BodiesProceed DEF TypeOK, BodyCalls
<1> QED
  BY <1>1, <1>2

-----------------------------------------------------------------------------
(* Results. *)

LEMMA InitInv == Init => IInv
<1> SUFFICES ASSUME Init PROVE IInv
  OBVIOUS
<1> USE DEF Init
<1>1. LockTypes
  BY LockTable, CallNames DEF LockTypes
<1>2. LocksExclusive
  BY DEF LocksExclusive, Holds
<1>3. TypeOK
  <2>1. 0 \in 0..Len(graph)
    BY GraphTypes
  <2>2. <<>> \in Seq(Cards)
    OBVIOUS
  <2> QED BY <1>1, <2>1, <2>2 DEF TypeOK, Phases, BodySteps
<1>4. Control
  BY CallAtSteps, ThreadKinds DEF Control, BodySteps, TaskSteps
<1> QED
  BY <1>2, <1>3, <1>4 DEF IInv, BodiesReport, CachedReports, ReportedRuns

LEMMA Inductive == Spec => []IInv
<1>1. IInv /\ [Next]_vars => IInv'
  BY NextCore, NextBodiesReport, NextReports DEF IInv, Core
<1> QED
  BY <1>1, InitInv, PTL DEF Spec

\* The variables keep their types in every behaviour.
THEOREM TypeCorrect == Spec => []TypeOK
<1>1. IInv => TypeOK
  BY DEF IInv
<1> QED
  BY <1>1, Inductive, PTL

\* Whatever the transforms, the assets and the order of the locks, two calls past
\* their locks do not touch a field one of them writes.
THEOREM AccessesAreLocked == Spec => []LocksCoverAccesses
<1>1. IInv => LocksCoverAccesses
  BY LocksCover DEF IInv, TypeOK
<1> QED
  BY <1>1, Inductive, PTL

\* The threads in calls of the storage never all wait for one another, even where a
\* waiting writer keeps new readers out.
THEOREM NoLockCycle == Spec => []SomebodyProceeds
<1>1. IInv => SomebodyProceeds
  BY CoreProceeds DEF IInv, Core
<1> QED
  BY <1>1, Inductive, PTL

\* However the tasks race on a dashboard, a run that returned is in the reports and
\* in the markers of the orchestrator.
THEOREM ReturnedRunsAreReported == Spec => []EveryRunIsReported
<1>1. IInv => EveryRunIsReported
  BY DEF IInv, ReportedRuns, EveryRunIsReported, Had, InCaches, Seen
<1> QED
  BY <1>1, Inductive, PTL

=============================================================================
