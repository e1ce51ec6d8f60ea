--------------------------- MODULE PingRunProofs ---------------------------
(* What the page and its pings promise for any number of reconnects, runs   *)
(* and packets.                                                             *)
EXTENDS PingRun, FiniteSetTheorems, SequenceTheorems, TLAPS

-----------------------------------------------------------------------------
(* The connection: the steps of PingRun are steps of PageStore. *)

LEMMA StoreStep == [Next]_vars => [Store!Next]_Store!vars
  BY DEF Next, vars, storeVars, Store!vars, Store!storeVars, Store!registryVars, Ping, StopPing, Deliver, Run, Admit, Outcome, End

LEMMA SourcesOK == Store!Sources = 1..MaxSources /\ Store!None = 0 /\ MaxSources \in Nat \ {0}
  BY PingAssumption DEF PingAssumption, Store!Sources, Store!None

(* A handler that has settled on an id keeps it, and the registry keeps its *)
(* types.                                                                   *)
LEMMA RegistryStep ==
  ASSUME Store!Registry!TypeOK, Store!Registry!Next
  PROVE  /\ Store!Registry!TypeOK'
         /\ \A h \in Store!Sources :
              Store!Registry!ContextSet(h) => Store!Registry!ContextSet(h)' /\ sid'[h] = sid[h]
<1>. DEFINE Kept == \A g \in Store!Sources :
                    Store!Registry!ContextSet(g) => Store!Registry!ContextSet(g)' /\ sid'[g] = sid[g]
<1>. USE SourcesOK DEF Store!Registry!TypeOK, Store!Registry!ContextSet
<1>1. ASSUME NEW h \in Store!Sources, Store!Registry!ArriveFresh(h)
      PROVE  Store!Registry!TypeOK' /\ Kept
  BY <1>1 DEF Store!Registry!ArriveFresh
<1>2. ASSUME NEW h \in Store!Sources, Store!Registry!CloseOld(h)
      PROVE  Store!Registry!TypeOK' /\ Kept
  BY <1>2 DEF Store!Registry!CloseOld
<1>3. ASSUME NEW h \in Store!Sources, Store!Registry!RemoveOld(h)
      PROVE  Store!Registry!TypeOK' /\ Kept
  BY <1>3 DEF Store!Registry!RemoveOld
<1>4. ASSUME NEW h \in Store!Sources, Store!Registry!AddReplacement(h)
      PROVE  Store!Registry!TypeOK' /\ Kept
  BY <1>4 DEF Store!Registry!AddReplacement
<1>5. ASSUME NEW h \in Store!Sources, Store!Registry!AddMinted(h)
      PROVE  Store!Registry!TypeOK' /\ Kept
  BY <1>5 DEF Store!Registry!AddMinted
<1>6. ASSUME NEW h \in Store!Sources, Store!Registry!SetContext(h)
      PROVE  Store!Registry!TypeOK' /\ Kept
  BY <1>6 DEF Store!Registry!SetContext
<1>7. ASSUME NEW h \in Store!Sources, Store!Registry!StopStreaming(h)
      PROVE  Store!Registry!TypeOK' /\ Kept
  BY <1>7 DEF Store!Registry!StopStreaming
<1>8. ASSUME NEW h \in Store!Sources, Store!Registry!CheckCurrent(h)
      PROVE  Store!Registry!TypeOK' /\ Kept
  BY <1>8 DEF Store!Registry!CheckCurrent
<1>9. ASSUME NEW h \in Store!Sources, Store!Registry!RemoveOwn(h)
      PROVE  Store!Registry!TypeOK' /\ Kept
  BY <1>9 DEF Store!Registry!RemoveOwn
<1>10. ASSUME NEW h \in Store!Sources, Store!Registry!RequestEnds(h)
      PROVE  Store!Registry!TypeOK' /\ Kept
  BY <1>10 DEF Store!Registry!RequestEnds
<1>11. ASSUME NEW h \in Store!Sources, Store!Registry!GrowOld(h)
      PROVE  Store!Registry!TypeOK' /\ Kept
  BY <1>11 DEF Store!Registry!GrowOld
<1>12. ASSUME NEW h \in Store!Sources, NEW i \in Store!Sources, Store!Registry!ArriveResuming(h, i)
       PROVE  Store!Registry!TypeOK' /\ Kept
  <2>1. /\ pc[h] = "idle"
        /\ UNCHANGED <<Clients, closed, reqDone, aged>>
    BY <1>12 DEF Store!Registry!ArriveResuming
  <2>2. CASE Store!Registry!Found(i)
    <3>1. /\ pc' = [pc EXCEPT ![h] = "close"]
          /\ sid' = [sid EXCEPT ![h] = i]
          /\ old' = [old EXCEPT ![h] = Clients[i]]
      BY <1>12, <2>2 DEF Store!Registry!ArriveResuming
    <3>2. Clients[i] # Store!None
      BY <2>2 DEF Store!Registry!Found
    <3>. QED
      BY <2>1, <3>1, <3>2
  <2>3. CASE ~Store!Registry!Found(i)
    <3>1. pc' = [pc EXCEPT ![h] = "mint"] /\ UNCHANGED <<sid, old>>
      BY <1>12, <2>3 DEF Store!Registry!ArriveResuming
    <3>. QED
      BY <2>1, <3>1
  <2>. QED
    BY <2>2, <2>3
<1>13. CASE Store!Registry!RemoveExpiredClients
  BY <1>13 DEF Store!Registry!RemoveExpiredClients
<1>. QED
  BY <1>1, <1>2, <1>3, <1>4, <1>5, <1>6, <1>7, <1>8, <1>9, <1>10, <1>11, <1>12, <1>13
     DEF Store!Registry!Next, Store!Registry!Handle

(* The steps of the server: it hears nothing of what the page knows.        *)
LEMMA ServerStep ==
  ASSUME Store!Inv, Store!Registry!Next, UNCHANGED Store!storeVars
  PROVE  Store!Inv'
<1>1. /\ Store!Registry!TypeOK'
      /\ \A h \in Store!Sources :
           Store!Registry!ContextSet(h) => Store!Registry!ContextSet(h)' /\ sid'[h] = sid[h]
  BY RegistryStep DEF Store!Inv, Store!TypeOK
<1>2. UNCHANGED <<es, asked, source, timers, sessionId, ready, connecting, chart>>
  BY DEF Store!storeVars
<1>3. Store!TypeOK'
  BY <1>1, <1>2 DEF Store!Inv, Store!TypeOK
<1>4. Store!UsedInOrder' /\ Store!OneLiveSource' /\ Store!ShownWhenReady'
  BY <1>2 DEF Store!Inv, Store!UsedInOrder, Store!OneLiveSource, Store!Live, Store!ShownWhenReady
<1>5. Store!NamedIsSettled'
  BY <1>1, <1>2 DEF Store!Inv, Store!NamedIsSettled
<1>. QED
  BY <1>3, <1>4, <1>5 DEF Store!Inv

LEMMA StoreInit == Store!Init => Store!Inv
<1>. SUFFICES ASSUME Store!Init PROVE Store!Inv
  OBVIOUS
<1>. USE SourcesOK DEF Store!Init
<1>1. Store!TypeOK
  <2>1. Store!Registry!TypeOK
    BY DEF Store!Registry!Init, Store!Registry!TypeOK
  <2>2. ready \in BOOLEAN /\ connecting \in BOOLEAN
    BY Zenon
  <2>. QED
    BY <2>1, <2>2 DEF Store!TypeOK
<1>2. Store!UsedInOrder
  BY DEF Store!UsedInOrder
<1>3. Store!OneLiveSource
  BY DEF Store!OneLiveSource, Store!Live
<1>4. Store!ShownWhenReady
  BY DEF Store!ShownWhenReady
<1>5. Store!NamedIsSettled
  BY DEF Store!NamedIsSettled
<1>. QED
  BY <1>1, <1>2, <1>3, <1>4, <1>5 DEF Store!Inv

-----------------------------------------------------------------------------
(* The steps of the page, conjunct by conjunct. *)

LEMMA RegistryKept ==
  ASSUME Store!Registry!TypeOK, UNCHANGED Store!registryVars
  PROVE  /\ Store!Registry!TypeOK'
         /\ \A h \in Store!Sources : Store!Registry!ContextSet(h)' <=> Store!Registry!ContextSet(h)
  BY DEF Store!registryVars, Store!Registry!TypeOK, Store!Registry!ContextSet

LEMMA SetupStep ==
  ASSUME Store!Inv, Store!SetupEventSource
  PROVE  Store!Inv'
<1>. USE SourcesOK
<1>1. /\ timers \in Nat /\ timers > 0 /\ timers' = timers - 1
      /\ source \in Store!Sources /\ source < MaxSources /\ source' = source + 1
      /\ source' \in Store!Sources
  BY DEF Store!Inv, Store!TypeOK, Store!SetupEventSource
<1>2. asked' = [asked EXCEPT ![source + 1] = sessionId]
      /\ es' = [es EXCEPT ![source + 1] = "connecting"]
  BY DEF Store!SetupEventSource
<1>3. UNCHANGED <<Store!registryVars, sessionId, ready>>
  BY DEF Store!SetupEventSource
<1>4. /\ es \in [Store!Sources -> {"unused", "connecting", "named", "open", "closed"}]
      /\ asked \in [Store!Sources -> Store!Sources \cup {Store!None}]
      /\ sessionId \in Store!Sources \cup {Store!None}
      /\ chart \in Store!Sources \cup {Store!None}
      /\ Store!Registry!TypeOK
  BY DEF Store!Inv, Store!TypeOK
<1>5. /\ ready \in BOOLEAN /\ connecting \in BOOLEAN
      /\ connecting = ~ready /\ ready = (chart # Store!None)
  BY Zenon DEF Store!Inv, Store!TypeOK, Store!ShownWhenReady
<1>6. connecting' = connecting /\ chart' = chart
  <2>1. connecting' = IF ready THEN connecting ELSE TRUE
    BY Zenon DEF Store!SetupEventSource
  <2>2. connecting' = connecting
    BY <1>5, <2>1, Zenon
  <2>3. chart' = IF connecting' THEN Store!None ELSE IF chart = Store!None THEN source ELSE chart
    BY <1>1, Zenon DEF Store!SetupEventSource, Store!Chart
  <2>4. connecting => chart = Store!None
    BY <1>5, Zenon
  <2>5. ~connecting => chart # Store!None
    BY <1>5, Zenon
  <2>. QED
    BY <2>2, <2>3, <2>4, <2>5, Zenon
<1>7. Store!TypeOK'
  <2>1. Store!Registry!TypeOK'
    BY <1>3, <1>4, RegistryKept
  <2>2. es' \in [Store!Sources -> {"unused", "connecting", "named", "open", "closed"}]
        /\ asked' \in [Store!Sources -> Store!Sources \cup {Store!None}]
        /\ source' \in Store!Sources /\ timers' \in Nat
        /\ sessionId' \in Store!Sources \cup {Store!None}
        /\ chart' \in Store!Sources \cup {Store!None}
    BY <1>1, <1>2, <1>3, <1>4, <1>6
  <2>3. ready' \in BOOLEAN /\ connecting' \in BOOLEAN
    BY <1>3, <1>5, <1>6, Zenon
  <2>. QED
    BY <2>1, <2>2, <2>3, Zenon DEF Store!TypeOK
<1>8. Store!UsedInOrder'
  BY <1>1, <1>2, <1>4 DEF Store!Inv, Store!UsedInOrder
<1>9. Store!OneLiveSource'
  BY <1>1, <1>2, <1>4 DEF Store!Inv, Store!OneLiveSource, Store!Live
<1>10. Store!ShownWhenReady'
  BY <1>3, <1>5, <1>6, Zenon DEF Store!ShownWhenReady
<1>11. Store!NamedIsSettled'
  <2>1. \A h \in Store!Sources : Store!Registry!ContextSet(h)' <=> Store!Registry!ContextSet(h)
    BY <1>3, <1>4, RegistryKept
  <2>2. \A h \in Store!Sources : es'[h] \in {"named", "open"} => es[h] \in {"named", "open"} /\ h # source'
    BY <1>1, <1>2, <1>4 DEF Store!Inv, Store!UsedInOrder
  <2>. QED
    BY <2>1, <2>2 DEF Store!Inv, Store!NamedIsSettled
<1>. QED
  BY <1>7, <1>8, <1>9, <1>10, <1>11 DEF Store!Inv

LEMMA ReceiveSessionIdStep ==
  ASSUME Store!Inv, NEW h \in Store!Sources, Store!ReceiveSessionId(h)
  PROVE  Store!Inv'
<1>. USE SourcesOK
<1>1. /\ es[h] = "connecting" /\ Store!Registry!ContextSet(h)
      /\ es' = [es EXCEPT ![h] = "named"] /\ sessionId' = sid[h]
      /\ UNCHANGED <<Store!registryVars, asked, source, timers, ready, connecting, chart>>
  BY DEF Store!ReceiveSessionId
<1>2. /\ es \in [Store!Sources -> {"unused", "connecting", "named", "open", "closed"}]
      /\ Store!Registry!TypeOK /\ source \in Store!Sources
  BY DEF Store!Inv, Store!TypeOK
<1>3. Store!Registry!TypeOK'
      /\ \A g \in Store!Sources : Store!Registry!ContextSet(g)' <=> Store!Registry!ContextSet(g)
  BY <1>1, <1>2, RegistryKept
<1>4. sid[h] \in Store!Sources \cup {Store!None} /\ sid' = sid
  BY <1>1, <1>2 DEF Store!Registry!TypeOK, Store!registryVars
<1>5. Store!TypeOK'
  BY <1>1, <1>2, <1>3, <1>4 DEF Store!Inv, Store!TypeOK
<1>6. h = source
  BY <1>1, <1>2 DEF Store!Inv, Store!OneLiveSource, Store!Live
<1>7. Store!UsedInOrder'
  BY <1>1, <1>2 DEF Store!Inv, Store!UsedInOrder
<1>8. Store!OneLiveSource'
  BY <1>1, <1>2 DEF Store!Inv, Store!OneLiveSource, Store!Live
<1>9. Store!ShownWhenReady'
  BY <1>1 DEF Store!Inv, Store!ShownWhenReady
<1>10. Store!NamedIsSettled'
  BY <1>1, <1>2, <1>3, <1>4, <1>6 DEF Store!Inv, Store!NamedIsSettled
<1>. QED
  BY <1>5, <1>7, <1>8, <1>9, <1>10 DEF Store!Inv

LEMMA ReceiveConfigStep ==
  ASSUME Store!Inv, NEW h \in Store!Sources, Store!ReceiveConfig(h)
  PROVE  Store!Inv'
<1>. USE SourcesOK
<1>1. /\ es[h] = "named" /\ es' = [es EXCEPT ![h] = "open"]
      /\ UNCHANGED <<Store!registryVars, asked, source, timers, sessionId>>
      /\ chart' = Store!Chart(FALSE)
  BY DEF Store!ReceiveConfig
<1>2. /\ es \in [Store!Sources -> {"unused", "connecting", "named", "open", "closed"}]
      /\ Store!Registry!TypeOK /\ source \in Store!Sources
      /\ chart \in Store!Sources \cup {Store!None}
  BY DEF Store!Inv, Store!TypeOK
<1>3. Store!Registry!TypeOK'
      /\ \A g \in Store!Sources : Store!Registry!ContextSet(g)' <=> Store!Registry!ContextSet(g)
  BY <1>1, <1>2, RegistryKept
<1>4. ready' = TRUE /\ connecting' = FALSE
  BY Zenon DEF Store!ReceiveConfig
<1>5. chart' \in Store!Sources
  BY <1>1, <1>2 DEF Store!Chart
<1>6. Store!TypeOK'
  <2>1. es' \in [Store!Sources -> {"unused", "connecting", "named", "open", "closed"}]
    BY <1>1, <1>2
  <2>2. ready' \in BOOLEAN /\ connecting' \in BOOLEAN
    BY <1>4, Zenon
  <2>. QED
    BY <1>1, <1>3, <1>5, <2>1, <2>2 DEF Store!Inv, Store!TypeOK
<1>7. Store!UsedInOrder'
  BY <1>1, <1>2 DEF Store!Inv, Store!UsedInOrder
<1>8. Store!OneLiveSource'
  BY <1>1, <1>2 DEF Store!Inv, Store!OneLiveSource, Store!Live
<1>9. Store!ShownWhenReady'
  <2>1. chart' # Store!None
    BY <1>5
  <2>. QED
    BY <1>4, <2>1, Zenon DEF Store!ShownWhenReady
<1>10. Store!NamedIsSettled'
  <2>1. sid' = sid
    BY <1>1 DEF Store!registryVars
  <2>. QED
    BY <1>1, <1>2, <1>3, <2>1 DEF Store!Inv, Store!NamedIsSettled
<1>. QED
  BY <1>6, <1>7, <1>8, <1>9, <1>10 DEF Store!Inv

LEMMA ErrorStep ==
  ASSUME Store!Inv, NEW h \in Store!Sources, Store!Error(h)
  PROVE  Store!Inv'
<1>. USE SourcesOK
<1>1. /\ Store!Live(h) /\ timers' = timers + 1
      /\ es' = [es EXCEPT ![h] = "closed"]
      /\ UNCHANGED <<Store!registryVars, asked, source, sessionId, ready>>
  BY DEF Store!Error
<1>2. /\ es \in [Store!Sources -> {"unused", "connecting", "named", "open", "closed"}]
      /\ Store!Registry!TypeOK /\ source \in Store!Sources /\ timers \in Nat
      /\ chart \in Store!Sources \cup {Store!None}
  BY DEF Store!Inv, Store!TypeOK
<1>3. /\ ready \in BOOLEAN /\ connecting \in BOOLEAN
      /\ connecting = ~ready /\ ready = (chart # Store!None)
  BY Zenon DEF Store!Inv, Store!TypeOK, Store!ShownWhenReady
<1>4. connecting' = connecting /\ chart' = chart
  <2>1. connecting' = IF ready THEN connecting ELSE TRUE
    BY Zenon DEF Store!Error
  <2>2. connecting' = connecting
    BY <1>3, <2>1, Zenon
  <2>3. chart' = IF connecting' THEN Store!None ELSE IF chart = Store!None THEN source ELSE chart
    BY Zenon DEF Store!Error, Store!Chart
  <2>4. connecting => chart = Store!None
    BY <1>3, Zenon
  <2>5. ~connecting => chart # Store!None
    BY <1>3, Zenon
  <2>. QED
    BY <2>2, <2>3, <2>4, <2>5, Zenon
<1>5. Store!Registry!TypeOK'
      /\ \A g \in Store!Sources : Store!Registry!ContextSet(g)' <=> Store!Registry!ContextSet(g)
  BY <1>1, <1>2, RegistryKept
<1>6. Store!TypeOK'
  <2>1. ready' \in BOOLEAN /\ connecting' \in BOOLEAN
    BY <1>1, <1>3, <1>4, Zenon
  <2>2. es' \in [Store!Sources -> {"unused", "connecting", "named", "open", "closed"}]
        /\ timers' \in Nat
    BY <1>1, <1>2
  <2>. QED
    BY <1>1, <1>4, <1>5, <2>1, <2>2 DEF Store!Inv, Store!TypeOK
<1>7. h = source /\ timers = 0
  BY <1>1, <1>2 DEF Store!Inv, Store!OneLiveSource
<1>8. Store!UsedInOrder'
  BY <1>1, <1>2 DEF Store!Inv, Store!UsedInOrder, Store!Live
<1>9. Store!OneLiveSource'
  BY <1>1, <1>2, <1>7 DEF Store!Inv, Store!OneLiveSource, Store!Live
<1>10. Store!ShownWhenReady'
  BY <1>1, <1>3, <1>4, Zenon DEF Store!ShownWhenReady
<1>11. Store!NamedIsSettled'
  <2>1. sid' = sid
    BY <1>1 DEF Store!registryVars
  <2>. QED
    BY <1>1, <1>2, <1>5, <2>1 DEF Store!Inv, Store!NamedIsSettled
<1>. QED
  BY <1>6, <1>8, <1>9, <1>10, <1>11 DEF Store!Inv

-----------------------------------------------------------------------------
(* All the steps. *)

LEMMA StoreInductive ==
  ASSUME Store!Inv, [Store!Next]_Store!vars
  PROVE  Store!Inv'
<1>1. CASE UNCHANGED Store!vars
  <2>1. UNCHANGED Store!storeVars /\ UNCHANGED Store!registryVars
    BY <1>1 DEF Store!vars
  <2>2. Store!Registry!TypeOK' /\ \A h \in Store!Sources :
           Store!Registry!ContextSet(h)' <=> Store!Registry!ContextSet(h)
    BY <2>1, RegistryKept DEF Store!Inv, Store!TypeOK
  <2>. QED
    BY <2>1, <2>2 DEF Store!storeVars, Store!registryVars, Store!Inv, Store!TypeOK,
       Store!UsedInOrder, Store!OneLiveSource, Store!Live, Store!ShownWhenReady, Store!NamedIsSettled
<1>2. CASE Store!SetupEventSource
  BY <1>2, SetupStep
<1>3. ASSUME NEW h \in Store!Sources, Store!ReceiveSessionId(h) PROVE Store!Inv'
  BY <1>3, ReceiveSessionIdStep
<1>4. ASSUME NEW h \in Store!Sources, Store!ReceiveConfig(h) PROVE Store!Inv'
  BY <1>4, ReceiveConfigStep
<1>5. ASSUME NEW h \in Store!Sources, Store!Error(h) PROVE Store!Inv'
  BY <1>5, ErrorStep
<1>6. ASSUME NEW h \in Store!Sources, Store!Arrive(h) PROVE Store!Inv'
  <2>1. Store!Registry!Next /\ UNCHANGED Store!storeVars
    BY <1>6, SourcesOK
       DEF Store!Arrive, Store!Registry!Next, Store!Inv, Store!TypeOK
  <2>. QED
    BY <2>1, ServerStep
<1>7. ASSUME NEW h \in Store!Sources, Store!Handle(h) PROVE Store!Inv'
  <2>1. Store!Registry!Next /\ UNCHANGED Store!storeVars
    BY <1>7 DEF Store!Handle, Store!Registry!Next
  <2>. QED
    BY <2>1, ServerStep
<1>8. ASSUME NEW h \in Store!Sources, Store!RequestEnds(h) PROVE Store!Inv'
  <2>1. Store!Registry!Next /\ UNCHANGED Store!storeVars
    BY <1>8 DEF Store!RequestEnds, Store!Registry!Next
  <2>. QED
    BY <2>1, ServerStep
<1>. QED
  BY <1>1, <1>2, <1>3, <1>4, <1>5, <1>6, <1>7, <1>8 DEF Store!Next
-----------------------------------------------------------------------------
(* The component: it listens to no EventSource that is alive but the        *)
(* current one, and to that one while it is working.                        *)

(* The steps of the connection: an EventSource that is alive afterwards was *)
(* alive before, or is the new one, which has no listeners.                 *)
LEMMA SourcesStep ==
  ASSUME Store!Inv, Store!Next
  PROVE  /\ source' \in {source, source + 1}
         /\ \A h \in 1..source : Store!Live(h)' => Store!Live(h) /\ source' = source
<1>. USE SourcesOK
<1>1. /\ es \in [Store!Sources -> {"unused", "connecting", "named", "open", "closed"}]
      /\ source \in Store!Sources
  BY DEF Store!Inv, Store!TypeOK
<1>2. CASE Store!SetupEventSource
  <2>1. source' = source + 1 /\ es' = [es EXCEPT ![source + 1] = "connecting"] /\ timers > 0
    BY <1>2 DEF Store!SetupEventSource
  <2>2. \A h \in Store!Sources : ~Store!Live(h)
    BY <2>1 DEF Store!Inv, Store!OneLiveSource
  <2>. QED
    BY <1>1, <2>1, <2>2 DEF Store!Live
<1>3. ASSUME NEW g \in Store!Sources, Store!ReceiveSessionId(g)
      PROVE  /\ source' \in {source, source + 1}
             /\ \A h \in 1..source : Store!Live(h)' => Store!Live(h) /\ source' = source
  BY <1>1, <1>3 DEF Store!ReceiveSessionId, Store!Live
<1>4. ASSUME NEW g \in Store!Sources, Store!ReceiveConfig(g)
      PROVE  /\ source' \in {source, source + 1}
             /\ \A h \in 1..source : Store!Live(h)' => Store!Live(h) /\ source' = source
  BY <1>1, <1>4 DEF Store!ReceiveConfig, Store!Live
<1>5. ASSUME NEW g \in Store!Sources, Store!Error(g)
      PROVE  /\ source' \in {source, source + 1}
             /\ \A h \in 1..source : Store!Live(h)' => Store!Live(h) /\ source' = source
  BY <1>1, <1>5 DEF Store!Error, Store!Live
<1>6. ASSUME NEW g \in Store!Sources,
             Store!Arrive(g) \/ Store!Handle(g) \/ Store!RequestEnds(g)
      PROVE  /\ source' \in {source, source + 1}
             /\ \A h \in 1..source : Store!Live(h)' => Store!Live(h) /\ source' = source
  <2>1. source' = source /\ es' = es
    BY <1>6 DEF Store!Arrive, Store!Handle, Store!RequestEnds, Store!storeVars
  <2>. QED
    BY <2>1 DEF Store!Live
<1>. QED
  BY <1>2, <1>3, <1>4, <1>5, <1>6 DEF Store!Next

LEMMA ListenersOfTheStore ==
  ASSUME Store!Inv, ListenersInv, Store!Next, UNCHANGED pingVars
  PROVE  ListenersInv'
<1>1. working' = working /\ listeners' = listeners
  BY DEF pingVars, componentVars
<1>2. /\ source' \in {source, source + 1}
      /\ \A h \in 1..source : Store!Live(h)' => Store!Live(h) /\ source' = source
  BY SourcesStep
<1>3. listeners \subseteq 1..source /\ source \in Nat
  BY SourcesOK DEF ListenersInv, Store!Inv, Store!TypeOK
<1>4. listeners' \subseteq 1..source'
  BY <1>1, <1>2, <1>3
<1>5. \A h \in listeners' : Store!Live(h)' => working' /\ h = source'
  <2>. SUFFICES ASSUME NEW h \in listeners, Store!Live(h)' PROVE working /\ h = source'
    BY <1>1, Zenon
  <2>1. Store!Live(h) /\ source' = source
    BY <1>2, <1>3
  <2>2. working /\ h = source
    BY <2>1, Zenon DEF ListenersInv, IdlePageIsDeaf
  <2>. QED
    BY <2>1, <2>2, Zenon
<1>. QED
  BY <1>1, <1>4, <1>5, Zenon DEF ListenersInv, IdlePageIsDeaf

(* The listeners of a component that quits: those that are left are on      *)
(* EventSources that are not alive.                                         *)
LEMMA QuitLeavesDeaf ==
  ASSUME ListenersInv, Quit, UNCHANGED storeVars
  PROVE  ListenersInv'
<1>1. source' = source /\ es' = es
  BY DEF storeVars
<1>2. listeners' = listeners \ {source} /\ working' \in BOOLEAN
  BY Zenon DEF Quit
<1>3. listeners' \subseteq 1..source'
  BY <1>1, <1>2 DEF ListenersInv
<1>4. \A h \in listeners' : ~Store!Live(h)'
  <2>. SUFFICES ASSUME NEW h \in listeners' PROVE ~Store!Live(h)'
    OBVIOUS
  <2>1. h \in listeners /\ h # source
    BY <1>2
  <2>2. ~Store!Live(h)
    BY <2>1, Zenon DEF ListenersInv, IdlePageIsDeaf
  <2>. QED
    BY <1>1, <2>2 DEF Store!Live
<1>. QED
  BY <1>2, <1>3, <1>4, Zenon DEF ListenersInv, IdlePageIsDeaf

LEMMA ListenersKept ==
  ASSUME ListenersInv, UNCHANGED storeVars, UNCHANGED <<working, listeners>>
  PROVE  ListenersInv'
<1>1. source' = source /\ es' = es
  BY DEF storeVars
<1>2. working' = working /\ listeners' = listeners
  OBVIOUS
<1>3. \A h \in listeners : Store!Live(h)' <=> Store!Live(h)
  BY <1>1 DEF Store!Live
<1>4. listeners' \subseteq 1..source'
  BY <1>1, <1>2 DEF ListenersInv
<1>5. working' \in BOOLEAN
  BY <1>2, Zenon DEF ListenersInv
<1>6. \A h \in listeners' : Store!Live(h)' => working' /\ h = source'
  <2>. SUFFICES ASSUME NEW h \in listeners', Store!Live(h)' PROVE working' /\ h = source'
    OBVIOUS
  <2>1. h \in listeners
    BY <1>2
  <2>2. working /\ h = source
    BY <1>3, <2>1, Zenon DEF ListenersInv, IdlePageIsDeaf
  <2>. QED
    BY <1>1, <1>2, <2>2, Zenon
<1>. QED
  BY <1>4, <1>5, <1>6, Zenon DEF ListenersInv, IdlePageIsDeaf

LEMMA PingStep ==
  ASSUME Store!Inv, ListenersInv, NEW r \in Runs, Ping(r)
  PROVE  ListenersInv'
<1>1. source' = source /\ es' = es
  BY DEF Ping, storeVars
<1>2. working' = TRUE
  BY Zenon DEF Ping
<1>3. listeners' = listeners \cup {source}
  BY DEF Ping
<1>4. source \in 1..source
  BY SourcesOK DEF Store!Inv, Store!TypeOK
<1>5. listeners' \subseteq 1..source'
  BY <1>1, <1>3, <1>4 DEF ListenersInv
<1>6. \A h \in listeners' : Store!Live(h)' => h = source'
  <2>. SUFFICES ASSUME NEW h \in listeners', Store!Live(h)', h # source PROVE FALSE
    BY <1>1, Zenon
  <2>1. h \in listeners
    BY <1>3
  <2>2. Store!Live(h)
    BY <1>1 DEF Store!Live
  <2>. QED
    BY <2>1, <2>2, Zenon DEF ListenersInv, IdlePageIsDeaf
<1>. QED
  BY <1>2, <1>5, <1>6, Zenon DEF ListenersInv, IdlePageIsDeaf

LEMMA ListenersInductive ==
  ASSUME Store!Inv, ListenersInv, [Next]_vars
  PROVE  ListenersInv'
<1>1. CASE UNCHANGED vars
  BY <1>1, ListenersKept DEF vars, pingVars, componentVars
<1>2. CASE Store!Next /\ UNCHANGED pingVars
  BY <1>2, ListenersOfTheStore
<1>3. ASSUME NEW r \in Runs, Ping(r) PROVE ListenersInv'
  BY <1>3, PingStep
<1>4. ASSUME NEW r \in Runs, Run(r) PROVE ListenersInv'
  <2>1. UNCHANGED storeVars /\ UNCHANGED <<working, listeners>>
    BY <1>4 DEF Run, Admit, Outcome, End, componentVars
  <2>. QED
    BY <2>1, ListenersKept
<1>5. CASE StopPing
  BY <1>5, QuitLeavesDeaf DEF StopPing
<1>6. ASSUME NEW h \in Store!Sources, Deliver(h) PROVE ListenersInv'
  <2>1. UNCHANGED storeVars
    BY <1>6 DEF Deliver
  <2>2. Quit \/ UNCHANGED <<working, listeners>>
    BY <1>6 DEF Deliver, componentVars
  <2>. QED
    BY <2>1, <2>2, QuitLeavesDeaf, ListenersKept
<1>. QED
  BY <1>1, <1>2, <1>3, <1>4, <1>5, <1>6 DEF Next

-----------------------------------------------------------------------------
(* The table. *)

(* The numbers up to which a set of numbers has no gap.                     *)
LEMMA NoGap ==
  ASSUME NEW n \in Nat, NEW S \in SUBSET (1..n),
         \A j \in S : \A i \in 1..j : i \in S
  PROVE  Cardinality(S) \in 0..n /\ S = 1..Cardinality(S)
<1>1. IsFiniteSet(1..n) /\ Cardinality(1..n) = n
  BY FS_Interval
<1>2. IsFiniteSet(S) /\ Cardinality(S) <= n
  <2>1. IsFiniteSet(S) /\ Cardinality(S) <= Cardinality(1..n)
    BY <1>1, FS_Subset, Zenon
  <2>. QED
    BY <1>1, <2>1
<1>3. Cardinality(S) \in Nat
  BY <1>2, FS_CardinalityType
<1>4. ASSUME NEW j \in S PROVE j \in 1..Cardinality(S)
  <2>1. j \in Nat /\ j >= 1 /\ (1..j) \in SUBSET S
    OBVIOUS
  <2>2. Cardinality(1..j) = j
    BY <2>1, FS_Interval
  <2>3. Cardinality(1..j) <= Cardinality(S)
    BY <1>2, <2>1, FS_Subset
  <2>. QED
    BY <1>3, <2>1, <2>2, <2>3
<1>5. S \in SUBSET (1..Cardinality(S))
  BY <1>4
<1>6. IsFiniteSet(1..Cardinality(S)) /\ Cardinality(1..Cardinality(S)) = Cardinality(S)
  BY <1>3, FS_Interval
<1>7. S = 1..Cardinality(S)
  BY <1>5, <1>6, FS_Subset
<1>. QED
  BY <1>2, <1>3, <1>7

(* A row that is inserted goes where the order of the table has it.         *)
LEMMA InsertKeepsOrder ==
  ASSUME TableInv, NEW o \in Outcomes, InsertRow(o)
  PROVE  TableInv'
<1>. DEFINE n == Len(records)
            S == {i \in DOMAIN records : records[i][1] <= o[1]}
            k == Cardinality(S)
<1>1. /\ records \in Seq(Outcomes) /\ n \in Nat /\ DOMAIN records = 1..n
      /\ o[1] \in Nat
      /\ \A i \in 1..n : records[i] \in Outcomes /\ records[i][1] \in Nat
  BY DEF TableInv, Outcomes, Packets
<1>2. CASE Contains(records, o)
  BY <1>2 DEF InsertRow, TableInv, TableInOrder
<1>3. CASE ~Contains(records, o)
  <2>1. k \in 0..n /\ S = 1..k
    <3>1. S \in SUBSET (1..n)
      BY <1>1
    <3>2. \A j \in S : \A i \in 1..j : i \in S
      <4>. SUFFICES ASSUME NEW j \in S, NEW i \in 1..j PROVE i \in S
        OBVIOUS
      <4>1. i \in 1..n /\ j \in 1..n /\ (i = j \/ i < j) /\ records[j][1] <= o[1]
        BY <1>1
      <4>2. records[i][1] <= records[j][1]
        BY <1>1, <4>1 DEF TableInv, TableInOrder
      <4>. QED
        BY <1>1, <4>1, <4>2
    <3>. HIDE DEF S
    <3>. QED
      BY <1>1, <3>1, <3>2, NoGap
  <2>2. /\ \A i \in 1..k : records[i][1] <= o[1]
        /\ \A i \in (k + 1)..n : o[1] <= records[i][1]
    <3>1. \A i \in 1..k : i \in S
      BY <2>1
    <3>2. \A i \in (k + 1)..n : i \notin S /\ i \in 1..n
      <4>. HIDE DEF S, k
      <4>. QED
        BY <1>1, <2>1
    <3>. QED
      BY <1>1, <3>1, <3>2
  <2>. HIDE DEF S, k
  <2>3. records' = InsertAt(records, 1 + k, o)
    BY <1>3 DEF InsertRow, S, k
  <2>4. /\ records' \in Seq(Outcomes) /\ Len(records') = n + 1
        /\ \A i \in 1..(n + 1) :
             records'[i] = IF i <= k THEN records[i] ELSE IF i = k + 1 THEN o ELSE records[i - 1]
    <3>1. records' = SubSeq(records, 1, k) \o <<o>> \o SubSeq(records, k + 1, n)
      <4>1. (1 + k) - 1 = k /\ 1 + k = k + 1
        BY <2>1
      <4>2. records' = SubSeq(records, 1, (1 + k) - 1) \o <<o>> \o SubSeq(records, 1 + k, n)
        BY <2>3 DEF InsertAt, n
      <4>. QED
        BY <4>1, <4>2, Zenon
    <3>2. /\ SubSeq(records, 1, k) \in Seq(Outcomes)
          /\ Len(SubSeq(records, 1, k)) = k
          /\ \A i \in 1..k : SubSeq(records, 1, k)[i] = records[i]
      <4>1. k \in Int /\ \A i \in 1..k : records[i] \in Outcomes
        BY <1>1, <2>1
      <4>2. /\ SubSeq(records, 1, k) \in Seq(Outcomes)
            /\ Len(SubSeq(records, 1, k)) = IF 1 <= k THEN k - 1 + 1 ELSE 0
            /\ \A i \in 1..(k - 1 + 1) : SubSeq(records, 1, k)[i] = records[1 + i - 1]
        BY <4>1, SubSeqProperties
      <4>. QED
        BY <2>1, <4>2
    <3>3. /\ SubSeq(records, k + 1, n) \in Seq(Outcomes)
          /\ Len(SubSeq(records, k + 1, n)) = n - k
          /\ \A i \in 1..(n - k) : SubSeq(records, k + 1, n)[i] = records[k + i]
      <4>1. k + 1 \in Int /\ n \in Int /\ \A i \in (k + 1)..n : records[i] \in Outcomes
        BY <1>1, <2>1
      <4>2. /\ SubSeq(records, k + 1, n) \in Seq(Outcomes)
            /\ Len(SubSeq(records, k + 1, n)) = IF k + 1 <= n THEN n - (k + 1) + 1 ELSE 0
            /\ \A i \in 1..(n - (k + 1) + 1) : SubSeq(records, k + 1, n)[i] = records[(k + 1) + i - 1]
        BY <4>1, SubSeqProperties
      <4>3. n - (k + 1) + 1 = n - k /\ (k + 1 <= n \/ n - k = 0)
        <5>1. k \in Nat /\ n \in Nat /\ k <= n
          BY <1>1, <2>1
        <5>. HIDE DEF n
        <5>. QED
          BY <5>1
      <4>4. Len(SubSeq(records, k + 1, n)) = n - k
        BY <4>2, <4>3
      <4>5. ASSUME NEW i \in 1..(n - k)
            PROVE  SubSeq(records, k + 1, n)[i] = records[k + i]
        <5>1. i \in 1..(n - (k + 1) + 1)
          BY <4>3
        <5>2. (k + 1) + i - 1 = k + i
          BY <2>1
        <5>. QED
          BY <4>2, <5>1, <5>2, Zenon
      <4>. QED
        BY <4>2, <4>4, <4>5, Zenon
    <3>. DEFINE a == SubSeq(records, 1, k)
                b == SubSeq(records, k + 1, n)
                c == a \o <<o>>
    <3>4. <<o>> \in Seq(Outcomes) /\ Len(<<o>>) = 1 /\ <<o>>[1] = o
      OBVIOUS
    <3>5. /\ c \in Seq(Outcomes) /\ Len(c) = Len(a) + Len(<<o>>)
          /\ \A i \in 1..(Len(a) + Len(<<o>>)) : c[i] = IF i <= Len(a) THEN a[i] ELSE <<o>>[i - Len(a)]
      <4>. HIDE DEF a
      <4>. QED
        BY <3>2, <3>4, ConcatProperties DEF a
    <3>6. /\ c \o b \in Seq(Outcomes) /\ Len(c \o b) = Len(c) + Len(b)
          /\ \A i \in 1..(Len(c) + Len(b)) : (c \o b)[i] = IF i <= Len(c) THEN c[i] ELSE b[i - Len(c)]
      <4>1. b \in Seq(Outcomes) /\ c \in Seq(Outcomes)
        BY <3>3, <3>5
      <4>. HIDE DEF b, c
      <4>. QED
        BY <4>1, ConcatProperties
    <3>7. records' = c \o b
      BY <3>1
    <3>. HIDE DEF a, b, c
    <3>8. Len(a) = k /\ Len(c) = k + 1 /\ Len(b) = n - k
      BY <2>1, <3>2, <3>3, <3>4, <3>5 DEF a, b
    <3>9. \A i \in 1..k : a[i] = records[i]
      BY <3>2 DEF a
    <3>10. \A i \in 1..(n - k) : b[i] = records[k + i]
      BY <3>3 DEF b
    <3>11. ASSUME NEW i \in 1..(n + 1)
           PROVE  records'[i] = IF i <= k THEN records[i] ELSE IF i = k + 1 THEN o ELSE records[i - 1]
      <4>1. CASE i <= k
        <5>1. records'[i] = c[i] /\ c[i] = a[i]
          BY <1>1, <2>1, <3>4, <3>5, <3>6, <3>7, <3>8, <4>1
        <5>. QED
          BY <2>1, <3>9, <4>1, <5>1
      <4>2. CASE i = k + 1
        <5>1. records'[i] = c[i]
          BY <1>1, <2>1, <3>6, <3>7, <3>8, <4>2
        <5>2. c[i] = <<o>>[i - k] /\ i - k = 1
          BY <2>1, <3>4, <3>5, <3>8, <4>2
        <5>. QED
          BY <2>1, <3>4, <4>2, <5>1, <5>2
      <4>3. CASE i > k + 1
        <5>1. records'[i] = b[i - (k + 1)] /\ i - (k + 1) \in 1..(n - k)
          BY <1>1, <2>1, <3>6, <3>7, <3>8, <4>3
        <5>2. b[i - (k + 1)] = records[k + (i - (k + 1))] /\ k + (i - (k + 1)) = i - 1
          BY <2>1, <3>10, <5>1
        <5>. QED
          BY <2>1, <4>3, <5>1, <5>2
      <4>. QED
        BY <2>1, <4>1, <4>2, <4>3
    <3>12. Len(records') = n + 1 /\ records' \in Seq(Outcomes)
      BY <1>1, <2>1, <3>6, <3>7, <3>8
    <3>. QED
      BY <3>11, <3>12
  <2>5. \A i \in 1..n : records[i] # o
    BY <1>1, <1>3 DEF Contains
  <2>6. \A i, j \in 1..n :
          i < j => records[i][1] <= records[j][1] /\ records[i] # records[j]
    BY <1>1 DEF TableInv, TableInOrder
  <2>7. ASSUME NEW i \in 1..(n + 1), NEW j \in 1..(n + 1), i < j
        PROVE  records'[i][1] <= records'[j][1] /\ records'[i] # records'[j]
    <3>1. CASE j <= k
      BY <1>1, <2>1, <2>4, <2>6, <2>7, <3>1
    <3>2. CASE j = k + 1
      BY <1>1, <2>1, <2>2, <2>4, <2>5, <2>7, <3>2
    <3>3. CASE j > k + 1 /\ i <= k
      <4>1. records'[i] = records[i] /\ records'[j] = records[j - 1]
        BY <2>1, <2>4, <3>3
      <4>2. i \in 1..n /\ j - 1 \in 1..n /\ i < j - 1
        BY <1>1, <2>1, <3>3
      <4>. QED
        BY <2>6, <4>1, <4>2
    <3>4. CASE j > k + 1 /\ i = k + 1
      <4>1. records'[i] = o /\ records'[j] = records[j - 1]
        BY <2>1, <2>4, <3>4
      <4>2. j - 1 \in (k + 1)..n /\ j - 1 \in 1..n
        BY <1>1, <2>1, <3>4
      <4>. QED
        BY <2>2, <2>5, <4>1, <4>2
    <3>5. CASE i > k + 1
      <4>1. records'[i] = records[i - 1] /\ records'[j] = records[j - 1]
        BY <2>1, <2>4, <2>7, <3>5
      <4>2. i - 1 \in 1..n /\ j - 1 \in 1..n /\ i - 1 < j - 1
        BY <1>1, <2>1, <2>7, <3>5
      <4>. QED
        BY <2>6, <4>1, <4>2
    <3>. QED
      BY <1>1, <2>1, <2>7, <3>1, <3>2, <3>3, <3>4, <3>5
  <2>8. DOMAIN records' = 1..(n + 1)
    BY <1>1, <2>4
  <2>. QED
    BY <2>4, <2>7, <2>8 DEF TableInv, TableInOrder
<1>. QED
  BY <1>2, <1>3

LEMMA TableInductive ==
  ASSUME RunsInv, TableInv, [Next]_vars
  PROVE  TableInv'
<1>1. ASSUME UNCHANGED records PROVE TableInv'
  BY <1>1 DEF TableInv, TableInOrder
<1>2. CASE UNCHANGED vars \/ (Store!Next /\ UNCHANGED pingVars)
  BY <1>1, <1>2 DEF vars, pingVars, componentVars
<1>3. ASSUME NEW r \in Runs, Ping(r) PROVE TableInv'
  <2>1. records' = <<>>
    BY <1>3 DEF Ping
  <2>. QED
    BY <2>1 DEF TableInv, TableInOrder
<1>4. ASSUME NEW r \in Runs, Run(r) PROVE TableInv'
  BY <1>1, <1>4 DEF Run, Admit, Outcome, End, componentVars
<1>5. CASE StopPing
  BY <1>1, <1>5 DEF StopPing
<1>6. ASSUME NEW h \in Store!Sources, Deliver(h) PROVE TableInv'
  <2>1. UNCHANGED records \/ (Head(channel[h]) # PingEnd /\ InsertRow(Head(channel[h])))
    BY <1>6 DEF Deliver, componentVars
  <2>2. Head(channel[h]) \in Outcomes \cup {PingEnd}
    <3>1. channel[h] \in Seq(Outcomes \cup {PingEnd}) /\ channel[h] # <<>>
      BY <1>6 DEF Deliver, RunsInv
    <3>. QED
      BY <3>1
  <2>. QED
    BY <1>1, <2>1, <2>2, InsertKeepsOrder
<1>. QED
  BY <1>2, <1>3, <1>4, <1>5, <1>6 DEF Next

-----------------------------------------------------------------------------
(* The runs and their channels. *)

LEMMA OfferKeepsChannels ==
  ASSUME RunsInv, NEW h \in Store!Sources \cup {Store!None},
         NEW m \in Outcomes \cup {PingEnd}, Offer(h, m)
  PROVE  /\ channel' \in [Store!Sources -> Seq(Outcomes \cup {PingEnd})]
         /\ \A g \in Store!Sources : Len(channel'[g]) <= ChannelSize
<1>. USE SourcesOK, PingAssumption DEF PingAssumption
<1>. DEFINE M == Outcomes \cup {PingEnd}
<1>1. /\ channel \in [Store!Sources -> Seq(M)]
      /\ \A g \in Store!Sources : Len(channel[g]) <= ChannelSize
  BY DEF RunsInv
<1>2. channel' = [channel EXCEPT ![h] = IF Len(channel[h]) < ChannelSize
                                        THEN Append(channel[h], m) ELSE channel[h]]
  BY DEF Offer, HasRoom
<1>3. m \in M
  OBVIOUS
<1>. HIDE DEF M
<1>4. ASSUME NEW g \in Store!Sources
      PROVE  channel'[g] \in Seq(M) /\ Len(channel'[g]) <= ChannelSize
  <2>1. channel[g] \in Seq(M) /\ Len(channel[g]) <= ChannelSize
    BY <1>1
  <2>2. channel'[g] = channel[g] \/ (channel'[g] = Append(channel[g], m) /\ Len(channel[g]) < ChannelSize)
    BY <1>1, <1>2
  <2>3. Append(channel[g], m) \in Seq(M) /\ Len(Append(channel[g], m)) = Len(channel[g]) + 1
    BY <1>3, <2>1, AppendProperties
  <2>4. Len(channel[g]) \in Nat
    BY <2>1, LenProperties
  <2>5. CASE channel'[g] = channel[g]
    BY <2>1, <2>5, Zenon
  <2>6. CASE channel'[g] = Append(channel[g], m) /\ Len(channel[g]) < ChannelSize
    <3>1. Len(channel[g]) + 1 <= ChannelSize
      BY <2>4, <2>6
    <3>. QED
      BY <2>3, <2>6, <3>1, Zenon
  <2>. QED
    BY <2>2, <2>5, <2>6
<1>5. channel' = [g \in Store!Sources |-> channel'[g]]
  BY <1>1, <1>2
<1>. QED
  BY <1>4, <1>5 DEF M

LEMMA RunsInductive ==
  ASSUME Store!Inv, RunsInv, [Next]_vars
  PROVE  RunsInv'
<1>. USE SourcesOK
<1>1. ASSUME UNCHANGED runVars PROVE RunsInv'
  BY <1>1 DEF RunsInv, runVars
<1>2. CASE UNCHANGED vars \/ (Store!Next /\ UNCHANGED pingVars)
  BY <1>1, <1>2 DEF vars, pingVars
<1>3. ASSUME NEW r \in Runs, Ping(r) PROVE RunsInv'
  <2>1. sessionId \in Store!Sources \cup {Store!None}
    BY DEF Store!Inv, Store!TypeOK
  <2>2. /\ rpc' = [rpc EXCEPT ![r] = "requested"]
        /\ rsession' = [rsession EXCEPT ![r] = sessionId]
        /\ pending' = pending /\ channel' = channel /\ dropped' = dropped
    BY <1>3 DEF Ping
  <2>. QED
    BY <2>1, <2>2 DEF RunsInv
<1>4. ASSUME NEW r \in Runs, Admit(r) PROVE RunsInv'
  <2>1. Clients \in [Store!Sources -> Store!Sources \cup {Store!None}]
    BY DEF Store!Inv, Store!TypeOK, Store!Registry!TypeOK
  <2>2. rsession[r] \in Store!Sources \cup {Store!None}
    BY DEF RunsInv
  <2>3. UNCHANGED <<channel, dropped>>
    BY <1>4 DEF Admit
  <2>4. rpc' \in [Runs -> {"idle", "requested", "refused", "running", "ended"}]
    BY <1>4 DEF Admit, RunsInv
  <2>5. rsession' \in [Runs -> Store!Sources \cup {Store!None}]
    BY <1>4, <2>1, <2>2 DEF Admit, RunsInv
  <2>6. pending' \in [Runs -> SUBSET Packets]
    BY <1>4 DEF Admit, RunsInv
  <2>. QED
    BY <2>3, <2>4, <2>5, <2>6 DEF RunsInv
<1>5. ASSUME NEW r \in Runs, NEW o \in Outcomes, Outcome(r, o) PROVE RunsInv'
  <2>1. rsession[r] \in Store!Sources \cup {Store!None}
    BY DEF RunsInv
  <2>2. /\ channel' \in [Store!Sources -> Seq(Outcomes \cup {PingEnd})]
        /\ \A g \in Store!Sources : Len(channel'[g]) <= ChannelSize
    BY <1>5, <2>1, OfferKeepsChannels DEF Outcome
  <2>3. UNCHANGED <<rpc, rsession, dropped>> /\ pending' \in [Runs -> SUBSET Packets]
    BY <1>5 DEF Outcome, RunsInv
  <2>. QED
    BY <2>2, <2>3 DEF RunsInv
<1>6. ASSUME NEW r \in Runs, End(r) PROVE RunsInv'
  <2>1. rsession[r] \in Store!Sources \cup {Store!None}
    BY DEF RunsInv
  <2>2. /\ channel' \in [Store!Sources -> Seq(Outcomes \cup {PingEnd})]
        /\ \A g \in Store!Sources : Len(channel'[g]) <= ChannelSize
    BY <1>6, <2>1, OfferKeepsChannels DEF End
  <2>3. /\ rpc' \in [Runs -> {"idle", "requested", "refused", "running", "ended"}]
        /\ pending' \in [Runs -> SUBSET Packets]
        /\ dropped' \subseteq Runs /\ rsession' = rsession
    BY <1>6 DEF End, RunsInv
  <2>. QED
    BY <2>2, <2>3 DEF RunsInv
<1>7. CASE StopPing
  BY <1>1, <1>7 DEF StopPing
<1>8. ASSUME NEW h \in Store!Sources, Deliver(h) PROVE RunsInv'
  <2>. DEFINE M == Outcomes \cup {PingEnd}
  <2>1. UNCHANGED <<rpc, rsession, pending, dropped>>
    BY <1>8 DEF Deliver
  <2>2. channel[h] # <<>> /\ channel' = [channel EXCEPT ![h] = Tail(channel[h])]
    BY <1>8 DEF Deliver
  <2>3. /\ channel \in [Store!Sources -> Seq(M)]
        /\ \A g \in Store!Sources : Len(channel[g]) <= ChannelSize
    BY DEF RunsInv
  <2>. HIDE DEF M
  <2>4. Tail(channel[h]) \in Seq(M) /\ Len(Tail(channel[h])) <= ChannelSize
    <3>1. channel[h] \in Seq(M) /\ Len(channel[h]) <= ChannelSize /\ ChannelSize \in Nat
      BY <2>3, PingAssumption DEF PingAssumption
    <3>. QED
      BY <2>2, <3>1
  <2>5. /\ channel' \in [Store!Sources -> Seq(M)]
        /\ \A g \in Store!Sources : Len(channel'[g]) <= ChannelSize
    BY <2>2, <2>3, <2>4
  <2>. QED
    BY <2>1, <2>5 DEF RunsInv, M
<1>. QED
  BY <1>2, <1>3, <1>4, <1>5, <1>6, <1>7, <1>8 DEF Next, Run

-----------------------------------------------------------------------------
(* The ends of the runs. *)

(* An EventSource that the page has closed stays closed.                    *)
LEMMA ClosedStaysClosed ==
  ASSUME Store!Inv, [Next]_vars, NEW h \in Store!Sources, es[h] = "closed"
  PROVE  es'[h] = "closed"
<1>. USE SourcesOK
<1>1. /\ es \in [Store!Sources -> {"unused", "connecting", "named", "open", "closed"}]
      /\ source \in Store!Sources
      /\ \A g \in Store!Sources : es[g] = "unused" <=> g > source
  BY DEF Store!Inv, Store!TypeOK, Store!UsedInOrder
<1>2. [Store!Next]_Store!vars
  BY StoreStep
<1>3. CASE Store!SetupEventSource
  <2>1. source < MaxSources /\ es' = [es EXCEPT ![source + 1] = "connecting"]
    BY <1>3 DEF Store!SetupEventSource
  <2>2. h # source + 1
    BY <1>1
  <2>. QED
    BY <1>1, <2>1, <2>2
<1>4. ASSUME NEW g \in Store!Sources, Store!ReceiveSessionId(g) \/ Store!ReceiveConfig(g) \/ Store!Error(g)
      PROVE  es'[h] = "closed"
  BY <1>1, <1>4 DEF Store!ReceiveSessionId, Store!ReceiveConfig, Store!Error
<1>5. ASSUME NEW g \in Store!Sources, Store!Arrive(g) \/ Store!Handle(g) \/ Store!RequestEnds(g)
      PROVE  es'[h] = "closed"
  BY <1>5 DEF Store!Arrive, Store!Handle, Store!RequestEnds, Store!storeVars
<1>6. CASE UNCHANGED Store!vars
  BY <1>6 DEF Store!vars, Store!storeVars
<1>. QED
  BY <1>2, <1>3, <1>4, <1>5, <1>6 DEF Store!Next

(* A message that is in a channel stays there until it is delivered, and    *)
(* one that finds room is in it.                                            *)
LEMMA OfferKeepsMessages ==
  ASSUME RunsInv, NEW h \in Store!Sources, NEW m \in Outcomes \cup {PingEnd}, Offer(h, m)
  PROVE  /\ \A g \in Store!Sources :
              Contains(channel[g], PingEnd) => Contains(channel'[g], PingEnd)
         /\ HasRoom(h) => Contains(channel'[h], m)
<1>. DEFINE M == Outcomes \cup {PingEnd}
            s == channel[h]
<1>1. /\ channel \in [Store!Sources -> Seq(M)]
      /\ channel' = [channel EXCEPT ![h] = IF HasRoom(h) THEN Append(s, m) ELSE s]
      /\ m \in M
  BY DEF RunsInv, Offer
<1>. HIDE DEF M
<1>2. /\ s \in Seq(M) /\ Len(s) \in Nat
      /\ Len(Append(s, m)) = Len(s) + 1
      /\ \A i \in 1..Len(s) : Append(s, m)[i] = s[i]
      /\ Append(s, m)[Len(s) + 1] = m
  BY <1>1
<1>3. Contains(Append(s, m), m) /\ (Contains(s, PingEnd) => Contains(Append(s, m), PingEnd))
  <2>. HIDE DEF s
  <2>1. Len(s) + 1 \in 1..Len(Append(s, m)) /\ 1..Len(s) \subseteq 1..Len(Append(s, m))
    BY <1>2
  <2>. QED
    BY <1>2, <2>1, Zenon DEF Contains
<1>4. ASSUME NEW g \in Store!Sources, Contains(channel[g], PingEnd)
      PROVE  Contains(channel'[g], PingEnd)
  <2>1. CASE g = h /\ HasRoom(h)
    <3>1. channel'[g] = Append(s, m)
      BY <1>1, <2>1
    <3>. QED
      BY <1>3, <1>4, <2>1, <3>1, Zenon
  <2>2. CASE ~(g = h /\ HasRoom(h))
    <3>1. channel'[g] = channel[g]
      BY <1>1, <2>2
    <3>. QED
      BY <1>4, <3>1, Zenon
  <2>. QED
    BY <2>1, <2>2, Zenon
<1>5. HasRoom(h) => channel'[h] = Append(s, m)
  BY <1>1
<1>. QED
  BY <1>3, <1>4, <1>5, Zenon

(* What is not at the head of a channel is left in it.                      *)
LEMMA TailKeeps ==
  ASSUME NEW S, NEW s \in Seq(S), s # <<>>, NEW m, Contains(s, m), Head(s) # m
  PROVE  Contains(Tail(s), m)
<1>1. PICK i \in 1..Len(s) : s[i] = m
  BY Zenon DEF Contains
<1>2. i # 1 /\ Len(Tail(s)) = Len(s) - 1 /\ Len(s) \in Nat
  BY <1>1
<1>3. i - 1 \in 1..Len(Tail(s)) /\ Tail(s)[i - 1] = m
  BY <1>1, <1>2
<1>. QED
  BY <1>3, Zenon DEF Contains

LEMMA EndsInductive ==
  ASSUME Store!Inv, RunsInv, EndsInv, [Next]_vars
  PROVE  EndsInv'
<1>. USE SourcesOK
<1>. DEFINE Ordered == \A q, r \in Runs : q < r /\ rpc[q] = "idle" => rpc[r] = "idle"
            Sessions(r) == rpc[r] \in {"running", "ended"} => rsession[r] \in Store!Sources
            Heard(r) == /\ rpc[r] = "ended" /\ Awaited(r)
                        /\ rsession[r] \in listeners /\ es[rsession[r]] # "closed"
            Coming(r) == r \in dropped \/ Contains(channel[rsession[r]], PingEnd)
            Held == Ordered /\ \A r \in Runs : Sessions(r) /\ (Heard(r) => Coming(r))
<1>1. /\ rpc \in [Runs -> {"idle", "requested", "refused", "running", "ended"}]
      /\ rsession \in [Runs -> Store!Sources \cup {Store!None}]
      /\ channel \in [Store!Sources -> Seq(Outcomes \cup {PingEnd})]
      /\ Held
  BY DEF RunsInv, EndsInv, EndIsUnderWay
<1>2. SUFFICES Held'
  BY DEF EndsInv, EndIsUnderWay
<1>3. \A h \in Store!Sources : es[h] = "closed" => es'[h] = "closed"
  BY ClosedStaysClosed
\* The steps that leave the runs and their channels alone.
<1>4. ASSUME UNCHANGED runVars, working' => working, listeners' \subseteq listeners
      PROVE  Held'
  BY <1>1, <1>3, <1>4 DEF runVars, Awaited
<1>5. CASE UNCHANGED vars \/ (Store!Next /\ UNCHANGED pingVars)
  BY <1>4, <1>5 DEF vars, pingVars, componentVars
<1>6. CASE StopPing
  BY <1>4, <1>6 DEF StopPing, Quit
<1>7. ASSUME NEW q \in Runs, Ping(q) PROVE Held'
  <2>1. /\ \A p \in 1..(q - 1) : rpc[p] # "idle"
        /\ rpc' = [rpc EXCEPT ![q] = "requested"]
        /\ rsession' = [rsession EXCEPT ![q] = sessionId]
        /\ rpc[q] = "idle"
    BY <1>7 DEF Ping
  <2>2. \A r \in Runs : Sessions(r)'
    BY <1>1, <2>1
  <2>3. \A p \in Runs : p < q => p \in 1..(q - 1)
    BY DEF Runs
  <2>4. Ordered'
    BY <1>1, <2>1, <2>3
  <2>5. ASSUME NEW r \in Runs, Heard(r)' PROVE FALSE
    <3>1. rpc'[r] = "ended" /\ ~(q > r)
      BY <1>1, <2>1, <2>5 DEF Awaited
    <3>2. r # q /\ rpc[r] # "idle"
      BY <1>1, <2>1, <3>1
    <3>3. q < r
      BY <3>1, <3>2 DEF Runs
    <3>. QED
      BY <1>1, <2>1, <3>2, <3>3
  <2>. QED
    BY <2>2, <2>4, <2>5
<1>8. ASSUME NEW q \in Runs, Admit(q) PROVE Held'
  <2>1. /\ Clients \in [Store!Sources -> Store!Sources \cup {Store!None}]
        /\ rsession[q] \in Store!Sources \cup {Store!None}
    BY <1>1 DEF Store!Inv, Store!TypeOK, Store!Registry!TypeOK
  <2>2. /\ rpc[q] = "requested"
        /\ \/ /\ rpc' = [rpc EXCEPT ![q] = "running"]
              /\ rsession' = [rsession EXCEPT ![q] = Clients[rsession[q]]]
              /\ rsession[q] # Store!None /\ Clients[rsession[q]] # Store!None
           \/ rpc' = [rpc EXCEPT ![q] = "refused"] /\ UNCHANGED rsession
        /\ UNCHANGED <<es, working, listeners, channel, dropped>>
    BY <1>8 DEF Admit, storeVars, componentVars, Store!Registry!Found
  <2>3. \A r \in Runs : Sessions(r)'
    BY <1>1, <2>1, <2>2
  <2>4. \A r \in Runs : rpc'[r] = "idle" <=> rpc[r] = "idle"
    BY <1>1, <2>2
  <2>5. ASSUME NEW r \in Runs, Heard(r)' PROVE Coming(r)'
    <3>1. rpc[r] = "ended" /\ rsession'[r] = rsession[r]
      BY <1>1, <2>2, <2>5
    <3>2. Heard(r)
      BY <2>2, <2>4, <2>5, <3>1 DEF Awaited
    <3>. QED
      BY <1>1, <2>2, <3>1, <3>2
  <2>. QED
    BY <1>1, <2>3, <2>4, <2>5
<1>9. ASSUME NEW q \in Runs, NEW o \in Outcomes, Outcome(q, o) PROVE Held'
  <2>1. /\ rsession[q] \in Store!Sources /\ Offer(rsession[q], o)
        /\ UNCHANGED <<rpc, rsession, dropped, es, working, listeners>>
    BY <1>1, <1>9 DEF Outcome, storeVars, componentVars
  <2>2. \A g \in Store!Sources : Contains(channel[g], PingEnd) => Contains(channel'[g], PingEnd)
    BY <2>1, OfferKeepsMessages
  <2>. QED
    BY <1>1, <2>1, <2>2 DEF Awaited
<1>10. ASSUME NEW q \in Runs, End(q) PROVE Held'
  <2>1. /\ rpc[q] = "running" /\ rsession[q] \in Store!Sources
        /\ Offer(rsession[q], PingEnd)
        /\ dropped' = IF HasRoom(rsession[q]) THEN dropped ELSE dropped \cup {q}
        /\ rpc' = [rpc EXCEPT ![q] = "ended"]
        /\ UNCHANGED <<rsession, es, working, listeners>>
    BY <1>1, <1>10 DEF End, storeVars, componentVars
  <2>2. /\ \A g \in Store!Sources : Contains(channel[g], PingEnd) => Contains(channel'[g], PingEnd)
        /\ HasRoom(rsession[q]) => Contains(channel'[rsession[q]], PingEnd)
    BY <2>1, OfferKeepsMessages
  <2>3. \A r \in Runs : rpc'[r] = "idle" <=> rpc[r] = "idle"
    BY <1>1, <2>1
  <2>4. \A r \in Runs : Sessions(r)'
    BY <1>1, <2>1
  <2>5. ASSUME NEW r \in Runs, Heard(r)' PROVE Coming(r)'
    <3>1. CASE r = q
      BY <2>1, <2>2, <3>1
    <3>2. CASE r # q
      <4>1. rpc[r] = "ended" /\ Heard(r)
        BY <1>1, <2>1, <2>3, <2>5, <3>2 DEF Awaited
      <4>. QED
        BY <1>1, <2>1, <2>2, <4>1
    <3>. QED
      BY <3>1, <3>2
  <2>. QED
    BY <1>1, <2>3, <2>4, <2>5
<1>11. ASSUME NEW h \in Store!Sources, Deliver(h) PROVE Held'
  <2>1. /\ channel[h] # <<>> /\ channel' = [channel EXCEPT ![h] = Tail(channel[h])]
        /\ es[h] \in {"open", "closed"}
        /\ UNCHANGED <<rpc, rsession, dropped, es>>
    BY <1>11 DEF Deliver, storeVars
  <2>2. /\ working' => working
        /\ listeners' \subseteq listeners
        /\ es[h] = "open" /\ h \in listeners /\ Head(channel[h]) = PingEnd => ~working'
    BY <1>11 DEF Deliver, componentVars, Quit
  <2>3. ASSUME Head(channel[h]) # PingEnd, Contains(channel[h], PingEnd)
        PROVE  Contains(Tail(channel[h]), PingEnd)
    BY <1>1, <2>1, <2>3, TailKeeps
  <2>4. ASSUME NEW r \in Runs, Heard(r)' PROVE Coming(r)'
    <3>1. Heard(r)
      BY <2>1, <2>2, <2>4 DEF Awaited
    <3>2. rsession[r] = h => Head(channel[h]) # PingEnd
      BY <2>1, <2>2, <2>4, <3>1 DEF Awaited
    <3>. QED
      BY <1>1, <2>1, <2>3, <3>1, <3>2
  <2>. QED
    BY <1>1, <2>1, <2>4
<1>. QED
  BY <1>5, <1>6, <1>7, <1>8, <1>9, <1>10, <1>11 DEF Next, Run

-----------------------------------------------------------------------------
(* The theorems. *)

PingInv == Store!Inv /\ ListenersInv /\ TableInv /\ RunsInv /\ EndsInv

LEMMA Invariance == Spec => []PingInv
<1>1. Init => PingInv
  <2>. SUFFICES ASSUME Init PROVE ListenersInv /\ TableInv /\ RunsInv /\ EndsInv
    BY StoreInit DEF Init, PingInv
  <2>1. ListenersInv
    <3>1. listeners = {} /\ working = FALSE
      BY DEF Init
    <3>. QED
      BY <3>1, Zenon DEF ListenersInv, IdlePageIsDeaf
  <2>2. TableInv
    BY DEF Init, TableInv, TableInOrder
  <2>3. RunsInv
    BY PingAssumption DEF Init, RunsInv, PingAssumption
  <2>4. EndsInv
    BY DEF Init, EndsInv, EndIsUnderWay
  <2>. QED
    BY <2>1, <2>2, <2>3, <2>4
<1>2. PingInv /\ [Next]_vars => PingInv'
  BY StoreStep, StoreInductive, ListenersInductive, TableInductive, RunsInductive, EndsInductive
     DEF PingInv
<1>. QED
  BY <1>1, <1>2, PTL DEF Spec

(* The type invariant: among others a channel never holds more messages     *)
(* than it has room for.                                                    *)
THEOREM TypeCorrect == Spec => []TypeOK
<1>1. PingInv => TypeOK
  <2>. SUFFICES ASSUME PingInv PROVE TypeOK
    OBVIOUS
  <2>1. Store!TypeOK /\ working \in BOOLEAN
    BY Zenon DEF PingInv, Store!Inv, ListenersInv
  <2>2. listeners \subseteq Store!Sources
    BY SourcesOK DEF PingInv, Store!Inv, Store!TypeOK, ListenersInv
  <2>3. RunsInv /\ records \in Seq(Outcomes)
    BY Zenon DEF PingInv, TableInv
  <2>4. \A h \in Store!Sources :
          channel[h] \in Seq(Outcomes \cup {PingEnd}) /\ Len(channel[h]) <= ChannelSize
    BY <2>3 DEF RunsInv
  <2>. QED
    BY <2>1, <2>2, <2>3, <2>4, Zenon DEF TypeOK, RunsInv
<1>. QED
  BY <1>1, Invariance, PTL

(* Ping.vue:38-60: whatever order the outcomes come in, and whichever run   *)
(* they are of, the rows are in the order of their numbers and no row is    *)
(* there twice.                                                             *)
THEOREM TheTableIsInOrder == Spec => []TableInOrder
<1>1. PingInv => TableInOrder
  BY DEF PingInv, TableInv
<1>. QED
  BY <1>1, Invariance, PTL

(* app.js:34-39,73-84: the page has one EventSource that is alive and no    *)
(* timer, or one timer, however often its streams break.                    *)
THEOREM ReconnectsNeverMultiply == Spec => []OneLiveSource
<1>1. PingInv => OneLiveSource
  BY DEF PingInv, Store!Inv, OneLiveSource
<1>. QED
  BY <1>1, Invariance, PTL

(* app.js:45-55, session.go:80-108: the id that the page puts into its      *)
(* requests is the one that the handler of its stream has registered.       *)
THEOREM TheSessionIsKnown == Spec => []PageKnowsItsSession
<1>1. PingInv => PageKnowsItsSession
  BY DEF PingInv, Store!Inv, Store!TypeOK, Store!NamedIsSettled, PageKnowsItsSession, Store!PageKnowsItsSession
<1>. QED
  BY <1>1, Invariance, PTL

(* Ping.vue:62-82: a component that is not working has no listeners on an   *)
(* EventSource that is alive, whatever the runs and the connection do.      *)
THEOREM AnIdlePageIsDeaf == Spec => []IdlePageIsDeaf
<1>1. PingInv => IdlePageIsDeaf
  BY DEF PingInv, ListenersInv
<1>. QED
  BY <1>1, Invariance, PTL

(* app.js:8-13: once the page has been configured no step of the connection *)
(* brings the loading screen back or unmounts the components.               *)
THEOREM MountedIsMounted == Spec => ComponentsStayMounted
<1>1. PingInv /\ [Store!Next]_Store!vars => [ready => ~connecting' /\ chart' = chart]_Store!vars
  <2>. SUFFICES ASSUME PingInv, Store!Next, ready PROVE ~connecting' /\ chart' = chart
    BY Zenon
  <2>1. ~connecting /\ chart # Store!None
    BY Zenon DEF PingInv, Store!Inv, Store!TypeOK, Store!ShownWhenReady
  <2>2. CASE Store!SetupEventSource
    BY <2>1, <2>2, Zenon DEF Store!SetupEventSource, Store!Chart
  <2>3. ASSUME NEW h \in Store!Sources, Store!Error(h) PROVE ~connecting' /\ chart' = chart
    BY <2>1, <2>3, Zenon DEF Store!Error, Store!Chart
  <2>4. ASSUME NEW h \in Store!Sources, Store!ReceiveSessionId(h) PROVE ~connecting' /\ chart' = chart
    BY <2>1, <2>4, Zenon DEF Store!ReceiveSessionId
  <2>5. ASSUME NEW h \in Store!Sources, Store!ReceiveConfig(h) PROVE ~connecting' /\ chart' = chart
    BY <2>1, <2>5, Zenon DEF Store!ReceiveConfig, Store!Chart
  <2>6. ASSUME NEW h \in Store!Sources, Store!Arrive(h) \/ Store!Handle(h) \/ Store!RequestEnds(h)
        PROVE  ~connecting' /\ chart' = chart
    <3>1. UNCHANGED <<connecting, chart>>
      BY <2>6 DEF Store!Arrive, Store!Handle, Store!RequestEnds, Store!storeVars
    <3>2. connecting' = connecting /\ chart' = chart
      BY <3>1
    <3>. QED
      BY <2>1, <3>2, Zenon
  <2>. QED
    BY <2>2, <2>3, <2>4, <2>5, <2>6, Zenon DEF Store!Next
<1>2. [Next]_vars => [Store!Next]_Store!vars
  BY StoreStep
<1>. QED
  BY <1>1, <1>2, Invariance, PTL DEF Spec, ComponentsStayMounted, Store!ComponentsStayMounted

(* ping.go:64-85, Ping.vue:62-70: however many messages, runs and           *)
(* reconnects there are, the end of the run that the page waits for is in   *)
(* the channel of its session, unless the channel was full or the stream    *)
(* has broken.                                                              *)
THEOREM TheEndIsUnderWay == Spec => []EndIsUnderWay
<1>1. PingInv => EndIsUnderWay
  BY DEF PingInv, EndsInv
<1>. QED
  BY <1>1, Invariance, PTL

(* Whatever the pings do, the connection below them behaves as PageStore    *)
(* says.                                                                    *)
THEOREM ConnectionBelow == Spec => Store!Spec
<1>1. Init => Store!Init
  BY DEF Init
<1>. QED
  BY <1>1, StoreStep, PTL DEF Spec, Store!Spec
=============================================================================
