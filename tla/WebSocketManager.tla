--------------------------- MODULE WebSocketManager --------------------------
(***************************************************************************)
(* AlpacaWebSocketManager: one connection to the feed, reconnected when it *)
(* is lost, and a queue of subscriptions that is flushed while it streams. *)
(*                                                                         *)
(* Callers' threads run Connect, Disconnect and Subscribe.  One event loop *)
(* runs everything else: the callbacks of the client, the flushes and the  *)
(* reconnect timers.  The client itself is external: connectToServer       *)
(* replaces the connection it has, stop() closes it and the closed handler *)
(* runs later; a connection that could not be opened is not closed.        *)
(***************************************************************************)
EXTENDS Naturals, Sequences, FiniteSets, SequencesExt

CONSTANTS
  Callers,         \* threads that call the manager
  Requests,        \* sets of assets to subscribe to
  Valid,           \* those of the manager's asset class
  QueueSize,       \* kSubscriptionRequestQueueSize
  MaxConnects,     \* bounds: calls of Connect,
  MaxDisconnects,  \* calls of Disconnect,
  MaxLosses        \* connections the network ends

ASSUME QueueAssumption == QueueSize \in Nat \ {0} /\ Valid \subseteq Requests

Loop == "loop"   \* drogon::app().getLoop()
Threads == Callers \cup {Loop}

VARIABLES
  state,          \* m_state
  manual,         \* m_manualCloseRequested
  queue,          \* m_subQueue
  at,             \* where each thread is; "free" outside of any call
  asked,          \* the requests Subscribe was called with
  holding,        \* what a caller in Subscribe has not pushed yet
  flushes,        \* flushes queued in the loop
  timers,         \* reconnects that runAfter has scheduled
  link,           \* the client's connection: none, dialing, open, ready
  closing,        \* closed handlers that are still to run
  sent,           \* requests sent, with the link they went to
  connects, disconnects, losses

vars == <<state, manual, queue, at, asked, holding, flushes, timers, link,
          closing, sent, connects, disconnects, losses>>
bounds == <<connects, disconnects, losses>>
requests == <<queue, asked, holding, sent>>

Init ==
  /\ state = "Idle"
  /\ manual = FALSE
  /\ queue = <<>>
  /\ at = [t \in Threads |-> "free"]
  /\ asked = {}
  /\ holding = [c \in Callers |-> {}]
  /\ flushes = 0
  /\ timers = 0
  /\ link = "none"
  /\ closing = 0
  /\ sent = <<>>
  /\ connects = 0
  /\ disconnects = 0
  /\ losses = 0

Goto(t, step) == at' = [at EXCEPT ![t] = step]
Free(t) == at[t] = "free"

-----------------------------------------------------------------------------
(* Connect, by a caller or by a timer.  The state is read, then written,   *)
(* then the client is told.                                                *)

Unconnected == state \in {"Idle", "Closing"}

Connect(c) ==
  /\ Free(c)
  /\ connects < MaxConnects
  /\ connects' = connects + 1
  /\ Goto(c, IF Unconnected THEN "claim" ELSE "free")
  /\ UNCHANGED <<state, manual, requests, flushes, timers, link, closing, disconnects, losses>>

ReconnectTimer ==
  /\ Free(Loop)
  /\ timers > 0
  /\ timers' = timers - 1
  /\ Goto(Loop, IF Unconnected THEN "claim" ELSE "free")
  /\ UNCHANGED <<state, manual, requests, flushes, link, closing, bounds>>

SetConnecting(t) ==
  /\ at[t] = "claim"
  /\ state' = "Connecting"
  /\ Goto(t, "dial")
  /\ UNCHANGED <<manual, requests, flushes, timers, link, closing, bounds>>

ConnectToServer(t) ==
  /\ at[t] = "dial"
  /\ link' = "dialing"
  /\ Goto(t, "free")
  /\ UNCHANGED <<state, manual, requests, flushes, timers, closing, bounds>>

\* The callback of connectToServer: success, then the authentication is sent.
Opened ==
  /\ Free(Loop)
  /\ link = "dialing"
  /\ link' = "open"
  /\ state' = "Authenticating"
  /\ UNCHANGED <<manual, requests, at, flushes, timers, closing, bounds>>

\* The callback of connectToServer: failure.  stop() has nothing to close.
Refused ==
  /\ Free(Loop)
  /\ link = "dialing"
  /\ losses < MaxLosses
  /\ losses' = losses + 1
  /\ link' = "none"
  /\ UNCHANGED <<state, manual, requests, at, flushes, timers, closing, connects, disconnects>>

-----------------------------------------------------------------------------
(* handleControlMessage and onClosed. *)

\* Mutant: what was asked for before is not flushed.
AuthenticatedQuietly ==
  /\ Free(Loop)
  /\ link = "open"
  /\ link' = "ready"
  /\ state' = "Streaming"
  /\ UNCHANGED <<manual, requests, at, flushes, timers, closing, bounds>>

Authenticated ==
  /\ Free(Loop)
  /\ link = "open"
  /\ link' = "ready"
  /\ state' = "Streaming"
  /\ flushes' = flushes + 1
  /\ UNCHANGED <<manual, requests, at, timers, closing, bounds>>

\* Codes 401 to 404 and 406.  The other codes change nothing.
ErrorMessage ==
  /\ Free(Loop)
  /\ link \in {"open", "ready"}
  /\ losses < MaxLosses
  /\ losses' = losses + 1
  /\ state' = "Closing"
  /\ Goto(Loop, "stop")
  /\ UNCHANGED <<manual, requests, flushes, timers, link, closing, connects, disconnects>>

\* m_client->stop(), by an error message or by Disconnect.
Stop(t) ==
  /\ at[t] = "stop"
  /\ link' = "none"
  /\ closing' = IF link \in {"open", "ready"} THEN closing + 1 ELSE closing
  /\ Goto(t, "free")
  /\ UNCHANGED <<state, manual, requests, flushes, timers, bounds>>

ConnectionLost ==
  /\ Free(Loop)
  /\ link \in {"open", "ready"}
  /\ losses < MaxLosses
  /\ losses' = losses + 1
  /\ link' = "none"
  /\ closing' = closing + 1
  /\ UNCHANGED <<state, manual, requests, at, flushes, timers, connects, disconnects>>

\* Mutant: the state is not reset.
OnClosedQuietly ==
  /\ Free(Loop)
  /\ closing > 0
  /\ closing' = closing - 1
  /\ Goto(Loop, "closed")
  /\ UNCHANGED <<state, manual, requests, flushes, timers, link, bounds>>

OnClosed ==
  /\ Free(Loop)
  /\ closing > 0
  /\ closing' = closing - 1
  /\ state' = "Idle"
  /\ Goto(Loop, "closed")
  /\ UNCHANGED <<manual, requests, flushes, timers, link, bounds>>

\* The end of onClosed: a close that was asked for is not retried.
ScheduleReconnect ==
  /\ at[Loop] = "closed"
  /\ manual' = FALSE
  /\ timers' = IF manual THEN timers ELSE timers + 1
  /\ Goto(Loop, "free")
  /\ UNCHANGED <<state, requests, flushes, link, closing, bounds>>

-----------------------------------------------------------------------------
(* Disconnect. *)

Disconnect(c) ==
  /\ Free(c)
  /\ disconnects < MaxDisconnects
  /\ disconnects' = disconnects + 1
  /\ manual' = TRUE
  /\ Goto(c, "disconnect")
  /\ UNCHANGED <<state, requests, flushes, timers, link, closing, connects, losses>>

SetClosing(c) ==
  /\ at[c] = "disconnect"
  /\ state' = "Closing"
  /\ Goto(c, "stop")
  /\ UNCHANGED <<manual, requests, flushes, timers, link, closing, bounds>>

-----------------------------------------------------------------------------
(* Subscribe and flushSubscriptions. *)

Subscribe(c) ==
  \E r \in Requests \ asked :
    /\ Free(c)
    /\ asked' = asked \cup {r}
    /\ holding' = [holding EXCEPT ![c] = {r}]
    /\ Goto(c, "push")
    /\ UNCHANGED <<state, manual, queue, flushes, timers, link, closing, sent, bounds>>

\* Mutant: the queue drops what does not fit.
PushOrDrop(c) ==
  /\ at[c] = "push"
  /\ queue' = IF Len(queue) < QueueSize THEN queue \o SetToSeq(holding[c]) ELSE queue
  /\ holding' = [holding EXCEPT ![c] = {}]
  /\ Goto(c, "check")
  /\ UNCHANGED <<state, manual, asked, flushes, timers, link, closing, sent, bounds>>

\* push() waits for room.
Push(c) ==
  /\ at[c] = "push"
  /\ Len(queue) < QueueSize
  /\ queue' = queue \o SetToSeq(holding[c])
  /\ holding' = [holding EXCEPT ![c] = {}]
  /\ Goto(c, "check")
  /\ UNCHANGED <<state, manual, asked, flushes, timers, link, closing, sent, bounds>>

CheckStreaming(c) ==
  /\ at[c] = "check"
  /\ flushes' = IF state = "Streaming" THEN flushes + 1 ELSE flushes
  /\ Goto(c, "free")
  /\ UNCHANGED <<state, manual, requests, timers, link, closing, bounds>>

StartFlush ==
  /\ Free(Loop)
  /\ flushes > 0
  /\ flushes' = flushes - 1
  /\ Goto(Loop, IF state = "Streaming" THEN "flush" ELSE "free")
  /\ UNCHANGED <<state, manual, requests, timers, link, closing, bounds>>

\* One turn of the loop: a request of another asset class is left out.
FlushOne ==
  /\ at[Loop] = "flush"
  /\ queue # <<>>
  /\ queue' = Tail(queue)
  /\ sent' = IF Head(queue) \in Valid THEN Append(sent, <<Head(queue), link>>) ELSE sent
  /\ UNCHANGED <<state, manual, at, asked, holding, flushes, timers, link, closing, bounds>>

EndFlush ==
  /\ at[Loop] = "flush"
  /\ queue = <<>>
  /\ Goto(Loop, "free")
  /\ UNCHANGED <<state, manual, requests, flushes, timers, link, closing, bounds>>

-----------------------------------------------------------------------------
\* What a thread does once it is in a call, and the loop with its tasks.
CallStep(t) == SetConnecting(t) \/ ConnectToServer(t) \/ Stop(t)
CallerStep(c) == CallStep(c) \/ SetClosing(c) \/ Push(c) \/ CheckStreaming(c)
LoopStep ==
  \/ CallStep(Loop)
  \/ ReconnectTimer
  \/ OnClosed
  \/ ScheduleReconnect
  \/ StartFlush
  \/ FlushOne
  \/ EndFlush

Network == Opened \/ Refused \/ Authenticated \/ ErrorMessage \/ ConnectionLost

Next ==
  \/ \E c \in Callers : Connect(c) \/ Disconnect(c) \/ Subscribe(c) \/ CallerStep(c)
  \/ LoopStep
  \/ Network

Spec == Init /\ [][Next]_vars

\* A thread in a call goes on, and the loop runs each of its tasks in turn: a
\* timer, a closed handler or a flush is not overtaken for ever.  The network
\* owes nothing.
FairSpec ==
  /\ Spec
  /\ \A c \in Callers : WF_vars(CallerStep(c))
  /\ WF_vars(CallStep(Loop) \/ ScheduleReconnect \/ FlushOne \/ EndFlush)
  /\ SF_vars(ReconnectTimer)
  /\ SF_vars(OnClosed)
  /\ SF_vars(StartFlush)

-----------------------------------------------------------------------------
(* Properties. *)

\* A request that Subscribe was called with is in one place: with its caller, in
\* the queue, or gone to a server, once; and no server gets one before it has
\* authenticated us.
EachRequestOnce ==
  /\ \A i, j \in DOMAIN sent : sent[i][1] = sent[j][1] => i = j
  /\ \A i \in DOMAIN sent : sent[i][1] \notin ToSet(queue) /\ sent[i][2] # "open"
  /\ \A r \in asked \cap Valid :
       \/ r \in ToSet(queue)
       \/ \E c \in Callers : r \in holding[c]
       \/ \E i \in DOMAIN sent : sent[i][1] = r

\* Nothing stays in the queue while bars stream: Subscribe looks at the state after
\* its push, and the state is set before the flush.
SubscriptionsAreFlushed ==
  (state = "Streaming" /\ queue # <<>>) ~> (state # "Streaming" \/ queue = <<>>)

\* A connection that was lost is dialled again by the timer of its closed handler,
\* whatever calls come between, unless somebody asked for the end.
LostIsRetried ==
  (closing > 0 /\ link = "none") ~> (link # "none" \/ disconnects > 0)

=============================================================================
