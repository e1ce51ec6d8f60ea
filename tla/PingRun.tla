------------------------------ MODULE PingRun ------------------------------
(***************************************************************************)
(* The pings of a page: the component ui/src/components/Utilities/Ping.vue *)
(* and the handler and the goroutine of als/controller/ping/ping.go,       *)
(* composed with the connection of the page.  The handler answers at once; *)
(* the packets and the end of the run come as events of the session's      *)
(* stream, by way of its channel.                                          *)
(*                                                                         *)
(* The pinger (samlm0/go-ping) is external: each packet is answered or     *)
(* times out once, and these outcomes are known in any order.              *)
(***************************************************************************)
EXTENDS Naturals, FiniteSets, Sequences, SequencesExt

CONSTANTS
  MaxSources,
  MaxRuns,      \* bound: the pings that the page asks for
  Count,        \* packets of a run; 10
  Hosts,        \* who a packet is answered by, or that it timed out
  ChannelSize   \* messages that the channel of a session holds; 64

ASSUME PingAssumption ==
  /\ MaxSources \in Nat \ {0}
  /\ MaxRuns \in Nat
  /\ Count \in Nat
  /\ ChannelSize \in Nat

VARIABLES Clients, pc, sid, old, closed, reqDone, aged,
          es, asked, source, timers, sessionId, ready, connecting, chart

storeVars == <<Clients, pc, sid, old, closed, reqDone, aged,
               es, asked, source, timers, sessionId, ready, connecting, chart>>

Store == INSTANCE PageStore

VARIABLES
  working,    \* the component believes that a run is going on
  listeners,  \* the EventSources that have its listeners
  records,    \* the rows of its table, which seenKeys has the keys of
  rpc,        \* where each run is
  rsession,   \* the id that its request names, then the session of the run
  pending,    \* the packets of a run whose outcome is not known
  channel,    \* the channel of each session
  dropped     \* the runs whose PingEnd did not fit into the channel

componentVars == <<working, listeners, records>>
runVars == <<rpc, rsession, pending, channel, dropped>>
pingVars == <<componentVars, runVars>>
vars == <<storeVars, pingVars>>

Runs == 1..MaxRuns
Packets == 1..Count

Outcomes == Packets \X Hosts
PingEnd == <<>>

Init ==
  /\ Store!Init
  /\ working = FALSE
  /\ listeners = {}
  /\ records = <<>>
  /\ rpc = [r \in Runs |-> "idle"]
  /\ rsession = [r \in Runs |-> Store!None]
  /\ pending = [r \in Runs |-> {}]
  /\ channel = [h \in Store!Sources |-> <<>>]
  /\ dropped = {}

-----------------------------------------------------------------------------
(* The component. *)

(* ping(): the button, which is shown once the page is configured. *)
Ping(r) ==
  /\ ~connecting
  /\ ~working
  /\ rpc[r] = "idle"
  /\ \A q \in 1..(r - 1) : rpc[q] # "idle"
  /\ working' = TRUE
  /\ records' = <<>>
  /\ listeners' = listeners \cup {source}
  /\ rpc' = [rpc EXCEPT ![r] = "requested"]
  /\ rsession' = [rsession EXCEPT ![r] = sessionId]
  /\ UNCHANGED <<storeVars, pending, channel, dropped>>

(* Mutant: the listeners stay.                                              *)
LeaveListeners ==
  /\ listeners' = listeners
  /\ working' = FALSE

(* What stopPing and handlePingEnd share: the listeners of the current      *)
(* EventSource go.                                                          *)
Quit ==
  /\ listeners' = listeners \ {source}
  /\ working' = FALSE

(* stopPing: the button again, or the component is unmounted.  The run is   *)
(* not told.                                                                *)
StopPing ==
  /\ working
  /\ Quit
  /\ UNCHANGED <<storeVars, records, runVars>>

(* Mutant: rows are added at the end.                                       *)
AppendRow(o) == records' = Append(records, o)

(* handlePingMessage: a known key is ignored; a row goes before the first   *)
(* one of a higher number.                                                  *)
InsertRow(o) ==
  records' = IF Contains(records, o) THEN records
             ELSE InsertAt(records,
                           1 + Cardinality({i \in DOMAIN records : records[i][1] <= o[1]}), o)

(* The SSE handler of a session sends a message of its channel, and the     *)
(* page gets it unless it has closed the EventSource.                       *)
Deliver(h) ==
  /\ pc[h] = "stream"
  /\ channel[h] # <<>>
  /\ es[h] \in {"open", "closed"}
  /\ channel' = [channel EXCEPT ![h] = Tail(@)]
  /\ LET m == Head(channel[h])
         heard == es[h] = "open" /\ h \in listeners
     IN \/ heard /\ m = PingEnd /\ Quit /\ UNCHANGED records
        \/ heard /\ m # PingEnd /\ InsertRow(m) /\ UNCHANGED <<working, listeners>>
        \/ ~heard /\ UNCHANGED componentVars
  /\ UNCHANGED <<storeVars, rpc, rsession, pending, dropped>>

-----------------------------------------------------------------------------
(* The run. *)

(* The middleware and Handle: 400 when the session is not found or the name *)
(* cannot be pinged, of which the component does not take notice.  A        *)
(* request that stopPing has aborted may be served all the same.            *)
Admit(r) ==
  /\ rpc[r] = "requested"
  /\ \/ /\ rsession[r] # Store!None
        /\ Store!Registry!Found(rsession[r])
        /\ rpc' = [rpc EXCEPT ![r] = "running"]
        /\ rsession' = [rsession EXCEPT ![r] = Clients[rsession[r]]]
        /\ pending' = [pending EXCEPT ![r] = Packets]
     \/ rpc' = [rpc EXCEPT ![r] = "refused"] /\ UNCHANGED <<rsession, pending>>
  /\ UNCHANGED <<storeVars, componentVars, channel, dropped>>

HasRoom(h) == Len(channel[h]) < ChannelSize

(* SafeChannelSend. *)
Offer(h, m) == channel' = [channel EXCEPT ![h] = IF HasRoom(h) THEN Append(@, m) ELSE @]

(* OnEvent. *)
Outcome(r, o) ==
  /\ rpc[r] = "running"
  /\ o[1] \in pending[r]
  /\ pending' = [pending EXCEPT ![r] = @ \ {o[1]}]
  /\ Offer(rsession[r], o)
  /\ UNCHANGED <<storeVars, componentVars, rpc, rsession, dropped>>

(* Mutant: the run ends without a word, as it did before PingEnd.           *)
EndSilently(r) ==
  /\ rpc[r] = "running"
  /\ pending[r] = {} \/ Store!Registry!ContextDone(rsession[r])
  /\ rpc' = [rpc EXCEPT ![r] = "ended"]
  /\ pending' = [pending EXCEPT ![r] = {}]
  /\ UNCHANGED <<storeVars, componentVars, rsession, channel, dropped>>

(* Start returns when every packet has its outcome, or the watcher of       *)
(* GetContext has seen that the session's context is done (it may not, see  *)
(* SessionOperations).  PingEnd is dropped when the channel is full.        *)
End(r) ==
  /\ rpc[r] = "running"
  /\ pending[r] = {} \/ Store!Registry!ContextDone(rsession[r])
  /\ Offer(rsession[r], PingEnd)
  /\ dropped' = IF HasRoom(rsession[r]) THEN dropped ELSE dropped \cup {r}
  /\ rpc' = [rpc EXCEPT ![r] = "ended"]
  /\ pending' = [pending EXCEPT ![r] = {}]
  /\ UNCHANGED <<storeVars, componentVars, rsession>>

Run(r) == Admit(r) \/ (\E o \in Outcomes : Outcome(r, o)) \/ End(r)

-----------------------------------------------------------------------------
Next ==
  \/ Store!Next /\ UNCHANGED pingVars
  \/ \E r \in Runs : Ping(r) \/ Run(r)
  \/ StopPing
  \/ \E h \in Store!Sources : Deliver(h)

Spec == Init /\ [][Next]_vars

(* Timers fire, requests arrive and are handled, events are delivered, and  *)
(* runs go on.  Errors, ends of requests and the user are not bound.        *)
Fairness ==
  /\ WF_vars(Store!SetupEventSource /\ UNCHANGED pingVars)
  /\ \A h \in Store!Sources :
       /\ WF_vars((Store!Arrive(h) \/ Store!Handle(h)) /\ UNCHANGED pingVars)
       /\ WF_vars((Store!ReceiveSessionId(h) \/ Store!ReceiveConfig(h)) /\ UNCHANGED pingVars)
       /\ WF_vars(Deliver(h))
  /\ \A r \in Runs : WF_vars(Run(r))

FairSpec == Spec /\ Fairness

-----------------------------------------------------------------------------
(* The type invariant.                                                      *)
TypeOK ==
  /\ Store!TypeOK
  /\ working \in BOOLEAN
  /\ listeners \subseteq Store!Sources
  /\ records \in Seq(Outcomes)
  /\ rpc \in [Runs -> {"idle", "requested", "refused", "running", "ended"}]
  /\ rsession \in [Runs -> Store!Sources \cup {Store!None}]
  /\ pending \in [Runs -> SUBSET Packets]
  /\ \A h \in Store!Sources :
       channel[h] \in Seq(Outcomes \cup {PingEnd}) /\ Len(channel[h]) <= ChannelSize
  /\ dropped \subseteq Runs

(* See PageStore.                                                           *)
OneLiveSource == Store!OneLiveSource
PageKnowsItsSession == Store!PageKnowsItsSession
ComponentsStayMounted == Store!ComponentsStayMounted
ReconnectIsTransparent == Store!ReconnectIsTransparent

(* Ping.vue:38-60: whatever order the outcomes come in, and whichever run   *)
(* they are of, the rows are in the order of their numbers and no row is    *)
(* there twice.                                                             *)
TableInOrder ==
  \A i, j \in DOMAIN records :
    i < j => records[i][1] <= records[j][1] /\ records[i] # records[j]

(* Ping.vue:62-82: a component that is not working has no listeners on an   *)
(* EventSource that is alive, so that what a run it has stopped still sends *)
(* does not reach the table.                                                *)
IdlePageIsDeaf == \A h \in listeners : Store!Live(h) => working /\ h = source

(* The stream of the session of a run is the one the component listens to.  *)
(* (It is not when ping() was called between an error and the reconnect.)   *)
Attached(r) ==
  es[source] = "open" /\ source \in listeners /\ rsession[r] = source /\ pc[source] = "stream"

(* ping.go:64-85: the end of a run does not get lost.  As long as the page  *)
(* waits for its last run, and may still hear the stream of the session     *)
(* that the run was admitted with, the PingEnd of a run that has ended is   *)
(* on its way to it or did not fit into the channel, whatever other runs    *)
(* write and however often the connection breaks.                           *)
Awaited(r) == working /\ \A q \in Runs : q > r => rpc[q] = "idle"

EndIsUnderWay ==
  \A r \in Runs :
    /\ rpc[r] = "ended" /\ Awaited(r)
    /\ rsession[r] \in listeners /\ es[rsession[r]] # "closed"
    => r \in dropped \/ Contains(channel[rsession[r]], PingEnd)

(* ping.go:64-85, Ping.vue:62-70: a page that waits for a run learns that   *)
(* it has ended, unless its stream breaks first or PingEnd finds the        *)
(* channel full.                                                            *)
PageLearnsOfTheEnd ==
  \A r \in Runs : rpc[r] = "running" ~> ~working \/ ~Attached(r) \/ r \in dropped

(* app.js:34-39, session.go:80-113: whatever breaks, and in whatever state  *)
(* the server finds the session to be resumed, the page is connected again  *)
(* as long as the server does not end the stream.                           *)
PageReconnects == []<>(es[source] = "open" \/ reqDone[source] \/ closed[source])

-----------------------------------------------------------------------------
(* The inductive invariant of PingRunProofs: that of the store, the         *)
(* listeners are on EventSources that were used, and the table and the      *)
(* channels have their types.                                               *)
ListenersInv ==
  /\ working \in BOOLEAN
  /\ listeners \subseteq 1..source
  /\ IdlePageIsDeaf

TableInv ==
  /\ records \in Seq(Outcomes)
  /\ TableInOrder

RunsInv ==
  /\ rpc \in [Runs -> {"idle", "requested", "refused", "running", "ended"}]
  /\ rsession \in [Runs -> Store!Sources \cup {Store!None}]
  /\ pending \in [Runs -> SUBSET Packets]
  /\ channel \in [Store!Sources -> Seq(Outcomes \cup {PingEnd})]
  /\ \A h \in Store!Sources : Len(channel[h]) <= ChannelSize
  /\ dropped \subseteq Runs

(* Runs are asked for one after the other, and one that was admitted has a  *)
(* session.                                                                 *)
EndsInv ==
  /\ \A q, r \in Runs : q < r /\ rpc[q] = "idle" => rpc[r] = "idle"
  /\ \A r \in Runs : rpc[r] \in {"running", "ended"} => rsession[r] \in Store!Sources
  /\ EndIsUnderWay
=============================================================================
