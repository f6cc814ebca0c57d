----------------------- MODULE WebSocketManagerProofs ------------------------
(***************************************************************************)
(* Theorems about WebSocketManager, for any number of callers, any set of  *)
(* requests, any size of the queue and any number of calls and losses.     *)
(***************************************************************************)
EXTENDS WebSocketManager, TLAPS, FiniteSetTheorems, SequenceTheorems

States == {"Idle", "Connecting", "Authenticating", "Streaming", "Closing"}
Links == {"none", "dialing", "open", "ready"}
Steps == {"free", "claim", "dial", "stop", "closed", "disconnect", "push", "check", "flush"}

TypeOK ==
  /\ state \in States
  /\ queue \in Seq(Requests)
  /\ at \in [Threads -> Steps]
  /\ asked \in SUBSET Requests
  /\ holding \in [Callers -> SUBSET Requests]
  /\ link \in Links
  /\ sent \in Seq(Requests \X Links)

-----------------------------------------------------------------------------
(* The inductive invariant: where a request is. *)

\* A caller about to push holds the one request it asked for, the others hold none.
HeldBeforePush ==
  \A c \in Callers :
    IF at[c] = "push" THEN \E r \in asked : holding[c] = {r} ELSE holding[c] = {}

\* No request is with two callers.
HeldByOne ==
  \A c, d \in Callers : holding[c] \cap holding[d] # {} => c = d

\* The queue has each request once, and none that a caller still holds.
QueuedOnce ==
  /\ \A i, j \in 1..Len(queue) : queue[i] = queue[j] => i = j
  /\ \A i \in 1..Len(queue) : queue[i] \in asked /\ \A c \in Callers : queue[i] \notin holding[c]

\* A request that was sent is nowhere else.
SentOnce ==
  /\ \A i, j \in 1..Len(sent) : sent[i][1] = sent[j][1] => i = j
  /\ \A i \in 1..Len(sent) :
       /\ sent[i][1] \in asked
       /\ \A c \in Callers : sent[i][1] \notin holding[c]
       /\ \A j \in 1..Len(queue) : queue[j] # sent[i][1]

\* None of the manager's asset class is lost.
NoneLost ==
  \A r \in asked \cap Valid :
    \/ \E j \in 1..Len(queue) : queue[j] = r
    \/ \E c \in Callers : r \in holding[c]
    \/ \E i \in 1..Len(sent) : sent[i][1] = r

\* The loop flushes on a connection only while it may have authenticated: a new
\* connection opens in a turn of the loop, so in no flush, and resets the state.
FlushedWhenReady ==
  /\ link = "open" => state # "Streaming" /\ at[Loop] # "flush"
  /\ \A i \in 1..Len(sent) : sent[i][2] # "open"

Places == HeldBeforePush /\ HeldByOne /\ QueuedOnce /\ SentOnce /\ NoneLost

IInv == TypeOK /\ Places /\ FlushedWhenReady

-----------------------------------------------------------------------------
(* Types. *)

LEMMA SetToSeqOfOne ==
  ASSUME NEW r
  PROVE  SetToSeq({r}) = <<r>>
<1>1. Cardinality({r}) = 1
  BY FS_Singleton
<1>2. [1..1 -> {r}] = {<<r>>}
  OBVIOUS
<1>3. IsInjective(<<r>>)
  BY DEF IsInjective
<1>4. \E f \in [1..Cardinality({r}) -> {r}] : IsInjective(f)
  BY <1>1, <1>2, <1>3
<1>5. SetToSeq({r}) \in [1..Cardinality({r}) -> {r}]
  BY <1>4, Zenon DEF SetToSeq
<1> QED
  BY <1>1, <1>2, <1>5

\* What a push appends is the one request its caller holds.
LEMMA PushAppends ==
  ASSUME IInv, NEW c \in Callers, Push(c)
  PROVE  \E r \in asked : holding[c] = {r} /\ queue' = Append(queue, r)
<1>1. PICK r \in asked : holding[c] = {r}
  BY DEF IInv, Places, HeldBeforePush, Push
<1>2. queue' = queue \o <<r>>
  BY <1>1, SetToSeqOfOne DEF Push
<1> QED
  BY <1>1, <1>2, AppendIsConcat DEF IInv, TypeOK

\* Every other step than Subscribe, Push and FlushOne leaves the requests where
\* they are and no caller about to push goes on.
RequestsKept ==
  /\ UNCHANGED requests
  /\ \A c \in Callers : at'[c] = "push" <=> at[c] = "push"

LEMMA RequestSteps ==
  ASSUME TypeOK, [Next]_vars
  PROVE  \/ RequestsKept
         \/ \E c \in Callers : Subscribe(c) \/ Push(c)
         \/ FlushOne
<1> USE DEF RequestsKept, requests, Goto, Free, TypeOK, Threads
<1>1. ASSUME NEW t \in Threads, CallStep(t) PROVE RequestsKept
  BY <1>1 DEF CallStep, SetConnecting, ConnectToServer, Stop
<1>2. ASSUME NEW c \in Callers, Connect(c) \/ Disconnect(c) \/ SetClosing(c) \/ CheckStreaming(c)
      PROVE  RequestsKept
  BY <1>2 DEF Connect, Disconnect, SetClosing, CheckStreaming
<1>3. ASSUME ReconnectTimer \/ OnClosed \/ ScheduleReconnect \/ StartFlush \/ EndFlush
      PROVE  RequestsKept
  BY <1>3 DEF ReconnectTimer, OnClosed, ScheduleReconnect, StartFlush, EndFlush
<1>4. ASSUME Network PROVE RequestsKept
  BY <1>4 DEF Network, Opened, Refused, Authenticated, ErrorMessage, ConnectionLost
<1>5. CASE UNCHANGED vars
  BY <1>5 DEF vars
<1> QED
  BY <1>1, <1>2, <1>3, <1>4, <1>5 DEF Next, CallerStep, LoopStep

LEMMA NextTypes ==
  ASSUME IInv, [Next]_vars
  PROVE  TypeOK'
<1> TypeOK
  BY DEF IInv
<1> USE DEF TypeOK, requests, Goto, Free, States, Links, Steps, Threads
<1>1. ASSUME NEW t \in Threads, CallStep(t) PROVE TypeOK'
  BY <1>1 DEF CallStep, SetConnecting, ConnectToServer, Stop
<1>2. ASSUME NEW c \in Callers, Connect(c) \/ Disconnect(c) \/ SetClosing(c) \/ CheckStreaming(c)
      PROVE  TypeOK'
  BY <1>2 DEF Connect, Disconnect, SetClosing, CheckStreaming
<1>3. ASSUME ReconnectTimer \/ OnClosed \/ ScheduleReconnect \/ StartFlush \/ EndFlush
      PROVE  TypeOK'
  BY <1>3 DEF ReconnectTimer, OnClosed, ScheduleReconnect, StartFlush, EndFlush
<1>4. ASSUME Network PROVE TypeOK'
  BY <1>4 DEF Network, Opened, Refused, Authenticated, ErrorMessage, ConnectionLost
<1>5. ASSUME NEW c \in Callers, Subscribe(c) PROVE TypeOK'
  BY <1>5 DEF Subscribe
<1>6. ASSUME NEW c \in Callers, Push(c) PROVE TypeOK'
  <2>1. PICK r \in asked : queue' = Append(queue, r)
    BY <1>6, PushAppends
  <2>2. queue' \in Seq(Requests)
    BY <2>1, AppendProperties
  <2> QED BY <1>6, <2>2 DEF Push
<1>7. ASSUME FlushOne PROVE TypeOK'
  <2>1. Head(queue) \in Requests /\ Tail(queue) \in Seq(Requests)
    BY <1>7, HeadTailProperties DEF FlushOne
  <2>2. Append(sent, <<Head(queue), link>>) \in Seq(Requests \X Links)
    BY <2>1, AppendProperties
  <2> QED BY <1>7, <2>1, <2>2 DEF FlushOne
<1>8. CASE UNCHANGED vars
  BY <1>8 DEF vars
<1> QED
  BY <1>1, <1>2, <1>3, <1>4, <1>5, <1>6, <1>7, <1>8 DEF Next, CallerStep, LoopStep

-----------------------------------------------------------------------------
(* Places. *)

LEMMA SubscribePlaces ==
  ASSUME IInv, NEW c \in Callers, Subscribe(c)
  PROVE  Places'
<1> USE DEF IInv, TypeOK, Places, Goto, Threads
<1>1. PICK r \in Requests \ asked :
        /\ at[c] = "free"
        /\ asked' = asked \cup {r}
        /\ holding' = [holding EXCEPT ![c] = {r}]
        /\ at' = [at EXCEPT ![c] = "push"]
        /\ queue' = queue /\ sent' = sent
  BY DEF Subscribe, Free
<1>2. HeldBeforePush'
  BY <1>1 DEF HeldBeforePush
<1>3. HeldByOne'
  BY <1>1 DEF HeldBeforePush, HeldByOne
<1>4. QueuedOnce'
  BY <1>1 DEF QueuedOnce
<1>5. SentOnce'
  BY <1>1 DEF SentOnce
<1>6. NoneLost'
  BY <1>1 DEF NoneLost, HeldBeforePush
<1> QED
  BY <1>2, <1>3, <1>4, <1>5, <1>6

LEMMA PushPlaces ==
  ASSUME IInv, NEW c \in Callers, Push(c)
  PROVE  Places'
<1> USE DEF IInv, TypeOK, Places, Goto, Threads
<1>1. PICK r \in asked : holding[c] = {r} /\ queue' = Append(queue, r)
  BY PushAppends
<1>2. /\ at[c] = "push" /\ at' = [at EXCEPT ![c] = "check"]
      /\ holding' = [holding EXCEPT ![c] = {}]
      /\ asked' = asked /\ sent' = sent
  BY DEF Push
<1>3. /\ Len(queue) \in Nat /\ Len(queue') = Len(queue) + 1
      /\ \A i \in 1..Len(queue) : queue'[i] = queue[i]
      /\ queue'[Len(queue) + 1] = r
  BY <1>1, AppendProperties
<1>4. HeldBeforePush'
  BY <1>2 DEF HeldBeforePush
<1>5. HeldByOne'
  BY <1>2 DEF HeldByOne
<1>6. \A i \in 1..Len(queue) : queue[i] # r
  BY <1>1 DEF QueuedOnce
<1>7. \A d \in Callers : r \notin holding'[d]
  BY <1>1, <1>2 DEF HeldByOne
<1>8. \A i \in 1..Len(queue') : i \in 1..Len(queue) \/ i = Len(queue) + 1
  BY <1>3
<1>9. QueuedOnce'
  <2>1. \A i, j \in 1..Len(queue') : queue'[i] = queue'[j] => i = j
    BY <1>3, <1>6, <1>8 DEF QueuedOnce
  <2>2. \A i \in 1..Len(queue') : queue'[i] \in asked' /\ \A d \in Callers : queue'[i] \notin holding'[d]
    BY <1>2, <1>3, <1>7, <1>8 DEF QueuedOnce
  <2> QED BY <2>1, <2>2 DEF QueuedOnce
<1>10. SentOnce'
  <2>1. \A i \in 1..Len(sent) : sent[i][1] # r
    BY <1>1 DEF SentOnce
  <2>2. \A i \in 1..Len(sent), d \in Callers : sent[i][1] \notin holding'[d]
    BY <1>2 DEF SentOnce
  <2>3. \A i \in 1..Len(sent), j \in 1..Len(queue') : queue'[j] # sent[i][1]
    BY <1>3, <1>8, <2>1 DEF SentOnce
  <2> QED BY <1>2, <2>2, <2>3 DEF SentOnce
<1>11. NoneLost'
  BY <1>1, <1>2, <1>3 DEF NoneLost
<1> QED
  BY <1>4, <1>5, <1>9, <1>10, <1>11

LEMMA FlushPlaces ==
  ASSUME IInv, FlushOne
  PROVE  Places'
<1> USE DEF IInv, TypeOK, Places
<1>1. /\ queue # <<>> /\ queue' = Tail(queue)
      /\ sent' = IF Head(queue) \in Valid THEN Append(sent, <<Head(queue), link>>) ELSE sent
      /\ at' = at /\ asked' = asked /\ holding' = holding
  BY DEF FlushOne
<1>2. /\ Len(queue) \in Nat \ {0} /\ Len(queue') = Len(queue) - 1
      /\ \A i \in 1..Len(queue') : queue'[i] = queue[i + 1] /\ i + 1 \in 1..Len(queue)
      /\ Head(queue) = queue[1]
  BY <1>1, HeadTailProperties, EmptySeq, LenProperties
<1>3. HeldBeforePush' /\ HeldByOne'
  BY <1>1 DEF HeldBeforePush, HeldByOne
<1>4. QueuedOnce'
  BY <1>1, <1>2 DEF QueuedOnce
<1>5. CASE Head(queue) \in Valid
  <2>1. <<Head(queue), link>> \in Requests \X Links
    BY <1>1, HeadTailProperties
  <2>2. /\ Len(sent) \in Nat /\ Len(sent') = Len(sent) + 1
        /\ \A i \in 1..Len(sent) : sent'[i] = sent[i]
        /\ sent'[Len(sent) + 1] = <<queue[1], link>>
    BY <1>1, <1>2, <1>5, <2>1, AppendProperties
  <2>3. \A i \in 1..Len(sent') : i \in 1..Len(sent) \/ i = Len(sent) + 1
    BY <2>2
  <2>4. 1 \in 1..Len(queue) /\ \A i \in 1..Len(sent) : sent[i][1] # queue[1]
    BY <1>2 DEF SentOnce
  <2>5. \A i, j \in 1..Len(sent') : sent'[i][1] = sent'[j][1] => i = j
    BY <2>2, <2>3, <2>4 DEF SentOnce
  <2>6. \A j \in 1..Len(queue') : queue'[j] # queue[1]
    BY <1>2, <2>4 DEF QueuedOnce
  <2>7. \A i \in 1..Len(sent') :
          /\ sent'[i][1] \in asked'
          /\ \A c \in Callers : sent'[i][1] \notin holding'[c]
          /\ \A j \in 1..Len(queue') : queue'[j] # sent'[i][1]
    BY <1>1, <1>2, <2>2, <2>3, <2>4, <2>6 DEF SentOnce, QueuedOnce
  <2>8. NoneLost'
    <3> SUFFICES ASSUME NEW r \in asked \cap Valid
                 PROVE  \/ \E j \in 1..Len(queue') : queue'[j] = r
                        \/ \E c \in Callers : r \in holding'[c]
                        \/ \E i \in 1..Len(sent') : sent'[i][1] = r
      BY <1>1 DEF NoneLost
    <3>1. CASE \E j \in 1..Len(queue) : queue[j] = r
      <4>1. PICK j \in 1..Len(queue) : queue[j] = r
        BY <3>1
      <4>2. CASE j = 1
        BY <2>2, <4>1, <4>2
      <4>3. CASE j # 1
        <5>1. j - 1 \in 1..Len(queue') /\ queue'[j - 1] = r
          BY <1>2, <4>1, <4>3
        <5> QED BY <5>1
      <4> QED BY <4>2, <4>3
    <3>2. CASE \E c \in Callers : r \in holding[c]
      BY <1>1, <3>2
    <3>3. CASE \E i \in 1..Len(sent) : sent[i][1] = r
      BY <2>2, <3>3
    <3> QED BY <3>1, <3>2, <3>3 DEF NoneLost
  <2>9. SentOnce'
    BY <2>5, <2>7 DEF SentOnce
  <2> QED BY <1>3, <1>4, <2>8, <2>9
<1>6. CASE Head(queue) \notin Valid
  <2>1. SentOnce'
    BY <1>1, <1>2, <1>6 DEF SentOnce
  <2>2. NoneLost'
    <3> SUFFICES ASSUME NEW r \in asked \cap Valid, NEW j \in 1..Len(queue), queue[j] = r
                 PROVE  \E k \in 1..Len(queue') : queue'[k] = r
      BY <1>1, <1>6 DEF NoneLost
    <3>1. j - 1 \in 1..Len(queue') /\ queue'[j - 1] = r
      BY <1>2, <1>6
    <3> QED BY <3>1
  <2> QED BY <1>3, <1>4, <2>1, <2>2
<1> QED
  BY <1>5, <1>6

LEMMA NextPlaces ==
  ASSUME IInv, [Next]_vars
  PROVE  Places'
<1>1. CASE RequestsKept
  BY <1>1 DEF RequestsKept, requests, IInv, Places, HeldBeforePush, HeldByOne, QueuedOnce, SentOnce,
     NoneLost
<1> QED
  BY <1>1, RequestSteps, SubscribePlaces, PushPlaces, FlushPlaces DEF IInv

-----------------------------------------------------------------------------
(* Flushes. *)

LEMMA NextFlushes ==
  ASSUME IInv, [Next]_vars
  PROVE  FlushedWhenReady'
<1> USE DEF IInv, TypeOK, Goto, Free, Threads, requests, FlushedWhenReady
<1>1. ASSUME NEW t \in Threads, CallStep(t) PROVE FlushedWhenReady'
  BY <1>1 DEF CallStep, SetConnecting, ConnectToServer, Stop
<1>2. ASSUME NEW c \in Callers,
             \/ Connect(c) \/ Disconnect(c) \/ SetClosing(c) \/ CheckStreaming(c)
             \/ Subscribe(c) \/ Push(c)
      PROVE  FlushedWhenReady'
  BY <1>2 DEF Connect, Disconnect, SetClosing, CheckStreaming, Subscribe, Push
<1>3. ASSUME ReconnectTimer \/ OnClosed \/ ScheduleReconnect \/ StartFlush \/ EndFlush
      PROVE  FlushedWhenReady'
  BY <1>3 DEF ReconnectTimer, OnClosed, ScheduleReconnect, StartFlush, EndFlush
<1>4. ASSUME Network PROVE FlushedWhenReady'
  BY <1>4 DEF Network, Opened, Refused, Authenticated, ErrorMessage, ConnectionLost
<1>5. ASSUME FlushOne PROVE FlushedWhenReady'
  <2>1. <<Head(queue), link>> \in Requests \X Links
    BY <1>5, HeadTailProperties DEF FlushOne
  <2>2. \/ sent' = sent
        \/ /\ Len(sent') = Len(sent) + 1
           /\ \A i \in 1..Len(sent) : sent'[i] = sent[i]
           /\ sent'[Len(sent) + 1] = <<Head(queue), link>>
    BY <1>5, <2>1, AppendProperties DEF FlushOne
  <2>3. link # "open"
    BY <1>5 DEF FlushOne
  <2> QED BY <1>5, <2>2, <2>3 DEF FlushOne
<1>6. CASE UNCHANGED vars
  BY <1>6 DEF vars
<1> QED
  BY <1>1, <1>2, <1>3, <1>4, <1>5, <1>6 DEF Next, CallerStep, LoopStep

-----------------------------------------------------------------------------
(* Results. *)

LEMMA Inductive == Spec => []IInv
<1>1. Init => IInv
  BY DEF Init, IInv, TypeOK, States, Links, Steps, Threads, Places, HeldBeforePush, HeldByOne,
     QueuedOnce, SentOnce, NoneLost, FlushedWhenReady
<1>2. IInv /\ [Next]_vars => IInv'
  BY NextTypes, NextPlaces, NextFlushes DEF IInv
<1> QED
  BY <1>1, <1>2, PTL DEF Spec

\* The variables keep their types in every behaviour.
THEOREM TypeCorrect == Spec => []TypeOK
<1>1. IInv => TypeOK
  BY DEF IInv
<1> QED
  BY <1>1, Inductive, PTL

\* Whatever the calls, the flushes and the losses, a request is with its caller, in
\* the queue or sent, in one of them and once, and none goes out on a connection
\* that has not authenticated.
THEOREM RequestsAreSentOnce == Spec => []EachRequestOnce
<1>1. IInv => EachRequestOnce
  <2> SUFFICES ASSUME IInv PROVE EachRequestOnce
    OBVIOUS
  <2>1. DOMAIN sent = 1..Len(sent) /\ DOMAIN queue = 1..Len(queue)
    BY LenProperties DEF IInv, TypeOK
  <2>2. ToSet(queue) = {queue[i] : i \in 1..Len(queue)}
    BY <2>1 DEF ToSet
  <2> QED
    BY <2>1, <2>2 DEF IInv, Places, SentOnce, NoneLost, FlushedWhenReady, EachRequestOnce
<1> QED
  BY <1>1, Inductive, PTL

=============================================================================
