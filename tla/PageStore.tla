----------------------------- MODULE PageStore -----------------------------
(***************************************************************************)
(* The connection of one page to the server: the store of                  *)
(* ui/src/stores/app.js, which opens an EventSource, learns the id of its  *)
(* session from it and opens another one a second after an error, and the  *)
(* traffic chart of TrafficDisplay.vue, which listens to it.  The other    *)
(* end is SessionRegistry: the request of the n-th EventSource is served   *)
(* by the n-th handler, so both have the same name.                        *)
(*                                                                         *)
(* MaxSources bounds the reconnects: the last EventSource meets no error.  *)
(* A session grows no day old.                                             *)
(***************************************************************************)
EXTENDS Naturals

CONSTANT MaxSources

Sources == 1..MaxSources
None == 0

VARIABLES Clients, pc, sid, old, closed, reqDone, aged

registryVars == <<Clients, pc, sid, old, closed, reqDone, aged>>

Registry == INSTANCE SessionRegistry WITH Handlers <- Sources, NoSession <- None

VARIABLES
  es,         \* the state of each EventSource
  asked,      \* the id that its URL asks to resume
  source,     \* the current one
  timers,     \* the reconnects that wait for their second
  sessionId,  \* the id the page knows
  ready,      \* a Config event has arrived
  connecting, \* the loading screen is shown
  chart       \* the EventSource that the traffic chart has its listeners on

storeVars == <<es, asked, source, timers, sessionId, ready, connecting, chart>>
vars == <<registryVars, storeVars>>

Live(h) == es[h] \in {"connecting", "named", "open"}

(* App.vue: the cards are there while the loading screen is not.  The chart *)
(* takes the EventSource that is current when it is mounted.                *)
Chart(loading) == IF loading THEN None ELSE IF chart = None THEN source ELSE chart

Init ==
  /\ Registry!Init
  /\ es = [h \in Sources |-> IF h = 1 THEN "connecting" ELSE "unused"]
  /\ asked = [h \in Sources |-> None]
  /\ source = 1
  /\ timers = 0
  /\ sessionId = None
  /\ ready = FALSE
  /\ connecting = TRUE
  /\ chart = None

-----------------------------------------------------------------------------
(* The store. *)

(* Mutant: every attempt shows the loading screen.                          *)
SetupShowsLoading ==
  /\ timers > 0
  /\ source < MaxSources
  /\ timers' = timers - 1
  /\ source' = source + 1
  /\ asked' = [asked EXCEPT ![source + 1] = sessionId]
  /\ es' = [es EXCEPT ![source + 1] = "connecting"]
  /\ connecting' = TRUE
  /\ chart' = None
  /\ UNCHANGED <<registryVars, sessionId, ready>>

(* setupEventSource, a second after the error. *)
SetupEventSource ==
  /\ timers > 0
  /\ source < MaxSources
  /\ timers' = timers - 1
  /\ source' = source + 1
  /\ asked' = [asked EXCEPT ![source + 1] = sessionId]
  /\ es' = [es EXCEPT ![source + 1] = "connecting"]
  /\ connecting' = IF ready THEN connecting ELSE TRUE
  /\ chart' = Chart(connecting')
  /\ UNCHANGED <<registryVars, sessionId, ready>>

(* Mutant: the first id is kept.                                            *)
KeepFirstSessionId(h) ==
  /\ es[h] = "connecting"
  /\ Registry!ContextSet(h)
  /\ es' = [es EXCEPT ![h] = "named"]
  /\ sessionId' = IF sessionId = None THEN sid[h] ELSE sessionId
  /\ UNCHANGED <<registryVars, asked, source, timers, ready, connecting, chart>>

(* The event SessionId, which the handler sends after SetContext. *)
ReceiveSessionId(h) ==
  /\ es[h] = "connecting"
  /\ Registry!ContextSet(h)
  /\ es' = [es EXCEPT ![h] = "named"]
  /\ sessionId' = sid[h]
  /\ UNCHANGED <<registryVars, asked, source, timers, ready, connecting, chart>>

(* The event Config, which follows it. *)
ReceiveConfig(h) ==
  /\ es[h] = "named"
  /\ es' = [es EXCEPT ![h] = "open"]
  /\ ready' = TRUE
  /\ connecting' = FALSE
  /\ chart' = Chart(FALSE)
  /\ UNCHANGED <<registryVars, asked, source, timers, sessionId>>

(* Mutant: without close() the browser connects the EventSource again.      *)
ErrorWithoutClose(h) ==
  /\ Live(h)
  /\ h < MaxSources
  /\ timers' = timers + 1
  /\ connecting' = IF ready THEN connecting ELSE TRUE
  /\ chart' = Chart(connecting')
  /\ UNCHANGED <<registryVars, es, asked, source, sessionId, ready>>

(* onerror: the network, a proxy or the server has ended the stream, or the *)
(* request has failed.  The timer to be cleared was never stored.           *)
Error(h) ==
  /\ Live(h)
  /\ h < MaxSources
  /\ es' = [es EXCEPT ![h] = "closed"]
  /\ timers' = timers + 1
  /\ connecting' = IF ready THEN connecting ELSE TRUE
  /\ chart' = Chart(connecting')
  /\ UNCHANGED <<registryVars, asked, source, sessionId, ready>>

-----------------------------------------------------------------------------
(* The server. *)

(* Mutant: a resume that finds no session gets no new one.                  *)
ArriveFoundOnly(h) ==
  /\ es[h] # "unused"
  /\ IF asked[h] = None
     THEN Registry!ArriveFresh(h)
     ELSE Registry!Found(asked[h]) /\ Registry!ArriveResuming(h, asked[h])
  /\ UNCHANGED storeVars

(* The request reaches the server, perhaps after the page has given it up. *)
Arrive(h) ==
  /\ es[h] # "unused"
  /\ IF asked[h] = None
     THEN Registry!ArriveFresh(h)
     ELSE Registry!ArriveResuming(h, asked[h])
  /\ UNCHANGED storeVars

Handle(h) == Registry!Handle(h) /\ UNCHANGED storeVars

(* The server notices that the page has gone, or httpWriteTimeout or the    *)
(* network end the request.                                                 *)
RequestEnds(h) ==
  /\ h < MaxSources
  /\ Registry!RequestEnds(h)
  /\ UNCHANGED storeVars

Next ==
  \/ SetupEventSource
  \/ \E h \in Sources :
       \/ ReceiveSessionId(h) \/ ReceiveConfig(h) \/ Error(h)
       \/ Arrive(h) \/ Handle(h) \/ RequestEnds(h)

Spec == Init /\ [][Next]_vars

-----------------------------------------------------------------------------
(* The type invariant.                                                      *)
TypeOK ==
  /\ Registry!TypeOK
  /\ es \in [Sources -> {"unused", "connecting", "named", "open", "closed"}]
  /\ asked \in [Sources -> Sources \cup {None}]
  /\ source \in Sources
  /\ timers \in Nat
  /\ sessionId \in Sources \cup {None}
  /\ ready \in BOOLEAN
  /\ connecting \in BOOLEAN
  /\ chart \in Sources \cup {None}

(* app.js:34-39,73-84: however often the stream breaks, and though          *)
(* clearTimeout clears nothing, the page has one EventSource that is alive  *)
(* and no timer, or none and one timer: reconnects never multiply.          *)
OneLiveSource ==
  \/ timers = 0 /\ {h \in Sources : Live(h)} = {source}
  \/ timers = 1 /\ {h \in Sources : Live(h)} = {}

(* app.js:45-55, session.go:80-108: whether it was resumed or minted, the   *)
(* id that the page puts into its requests is the one that the handler of   *)
(* its stream has registered.                                               *)
PageKnowsItsSession == es[source] \in {"named", "open"} => sessionId = sid[source]

(* app.js:8-13: once the page has been configured no step brings the        *)
(* loading screen back or unmounts what is shown.                           *)
ComponentsStayMounted == [][ready => ~connecting' /\ chart' = chart]_vars

(* app.js:15: "`ready` flips to true the first time the server sends us a   *)
(* `Config` event. From then on we treat reconnects as transparent": the    *)
(* chart listens to the stream that is open.                                *)
ReconnectIsTransparent == es[source] = "open" => chart = source

-----------------------------------------------------------------------------
(* The inductive invariant of PingRunProofs. *)

(* EventSources are used one after the other.                               *)
UsedInOrder == \A h \in Sources : es[h] = "unused" <=> h > source

(* The cards are shown from the first Config event on.                      *)
ShownWhenReady ==
  /\ connecting = ~ready
  /\ ready = (chart # None)

(* An EventSource that was told an id has a handler that has settled on it. *)
NamedIsSettled ==
  \A h \in Sources :
    es[h] \in {"named", "open"} =>
      /\ Registry!ContextSet(h)
      /\ h = source => sessionId = sid[h]

Inv ==
  /\ TypeOK
  /\ UsedInOrder
  /\ OneLiveSource
  /\ ShownWhenReady
  /\ NamedIsSettled
=============================================================================
