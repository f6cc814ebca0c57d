---------------------------- MODULE StorageLocks -----------------------------
(***************************************************************************)
(* The shared mutexes of IntermediateResultStorage.  A call takes its      *)
(* locks one by one, in the order the code names them, works on the fields *)
(* they protect, and gives all of them back.                               *)
(*                                                                         *)
(* std::shared_mutex may or may not let a reader pass a waiting writer, so *)
(* Grant allows it and MayProceed does not count on it.                    *)
(***************************************************************************)
EXTENDS Naturals, Sequences

CONSTANT Threads

VARIABLES
  call,      \* the call of the storage a thread is in, or "none"
  granted    \* how many of its locks it has

Shared(m) == [mutex |-> m, mode |-> "shared"]
Exclusive(m) == [mutex |-> m, mode |-> "exclusive"]

ReadingLocks ==
  <<Shared("cache"), Shared("base"), Shared("transforms"), Shared("scalars")>>

\* Mutants: the store shares what it writes; it locks base data like what it writes.
StoringShared == <<Shared("base"), Shared("cache")>>
StoringAlone == <<Exclusive("base"), Exclusive("cache")>>

StoringLocks == <<Shared("base"), Exclusive("cache")>>

\* GatherInputs without inputs takes one lock only, and a scalar is stored under
\* another one than a column.
Requests ==
  [none |-> <<>>,
   InitializeBaseData |-> <<Exclusive("base"), Exclusive("cache"), Exclusive("assets")>>,
   GetAssetIDs |-> <<Shared("assets")>>,
   ValidateInputsAvailable |-> ReadingLocks,
   GatherInputs |-> ReadingLocks,
   GatherBaseData |-> <<Shared("base")>>,
   StoreTransformOutput |-> StoringLocks,
   StoreScalar |-> <<Exclusive("scalars")>>,
   BuildFinalOutput |-> <<Shared("cache"), Shared("base"), Shared("transforms"),
                          Shared("assets"), Shared("scalars")>>,
   BroadcastScalars |-> <<Shared("scalars")>>]

Calls == DOMAIN Requests

\* The fields a call writes, and all it reads or writes.
Writes ==
  [none |-> {},
   InitializeBaseData |-> {"base", "cache", "assets"}, GetAssetIDs |-> {},
   ValidateInputsAvailable |-> {}, GatherInputs |-> {}, GatherBaseData |-> {},
   StoreTransformOutput |-> {"cache"}, StoreScalar |-> {"scalars"},
   BuildFinalOutput |-> {}, BroadcastScalars |-> {}]

Touches ==
  [none |-> {},
   InitializeBaseData |-> {"base", "cache", "assets"}, GetAssetIDs |-> {"assets"},
   ValidateInputsAvailable |-> {"cache", "base", "transforms", "scalars"},
   GatherInputs |-> {"cache", "base", "transforms", "scalars"},
   GatherBaseData |-> {"base"},
   StoreTransformOutput |-> {"base", "cache"}, StoreScalar |-> {"scalars"},
   BuildFinalOutput |-> {"cache", "base", "transforms", "assets"},
   BroadcastScalars |-> {"scalars"}]

-----------------------------------------------------------------------------
Holds(th, m, mode) ==
  \E i \in 1..granted[th] :
    Requests[call[th]][i].mutex = m /\ Requests[call[th]][i].mode = mode

\* Between the last lock and the return.
Inside(th) == call[th] # "none" /\ granted[th] = Len(Requests[call[th]])
Waiting(th) == granted[th] < Len(Requests[call[th]])
Request(th) == Requests[call[th]][granted[th] + 1]

Compatible(th, r) ==
  \A o \in Threads \ {th} :
    /\ ~Holds(o, r.mutex, "exclusive")
    /\ r.mode = "exclusive" => ~Holds(o, r.mutex, "shared")

Grant(th) ==
  /\ Waiting(th)
  /\ Compatible(th, Request(th))
  /\ granted' = [granted EXCEPT ![th] = @ + 1]
  /\ UNCHANGED call

\* The thread leaves its call, if it is in one, and enters c.
Enter(th, c) ==
  /\ call' = [call EXCEPT ![th] = c]
  /\ granted' = [granted EXCEPT ![th] = 0]

\* The lock is free even where a waiting writer keeps new readers out.
MayProceed(th) ==
  /\ Waiting(th)
  /\ Compatible(th, Request(th))
  /\ Request(th).mode = "shared" =>
       \A o \in Threads \ {th} : ~(Waiting(o) /\ Request(o) = Exclusive(Request(th).mutex))

-----------------------------------------------------------------------------
\* Two calls that are past their locks touch nothing that one of them writes: the
\* locks a call takes cover the fields it uses.
LocksCoverAccesses ==
  \A s, t \in Threads :
    s # t /\ Inside(s) /\ Inside(t) => Writes[call[s]] \cap Touches[call[t]] = {}

\* The threads in a call are never all waiting for each other.  GatherInputs
\* takes cache before base, InitializeBaseData base before cache, StoreTransformOutput
\* base before cache: what keeps them from a cycle is that base is shared while
\* bodies run, and that the pipeline initializes when none does.
SomebodyProceeds ==
  (\E th \in Threads : Waiting(th)) => \E th \in Threads : Inside(th) \/ MayProceed(th)

=============================================================================
