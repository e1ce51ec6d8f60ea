---------------------- MODULE SessionOperationsProofs ----------------------
(***************************************************************************)
(* Proofs about the operations of sessions, for every set of handlers and  *)
(* of operations.  What the registry keeps is proved in                    *)
(* SessionRegistryProofs.                                                  *)
(***************************************************************************)
EXTENDS SessionOperations, TLAPS

Proved == INSTANCE SessionRegistryProofs

LEMMA RegistryInit == Registry!Init => Proved!Inv
<1>1. Proved!Init => Proved!Inv
  BY OperationsAssumption, Proved!InitInv
<1>. QED
  BY <1>1 DEF Registry!Init, Proved!Init

(* A handler that has an id keeps it, and a context that is set stays set   *)
(* and, once it is done, done.                                              *)
LEMMA RegistryStep ==
  ASSUME Proved!Inv, [Registry!Next]_registryVars
  PROVE  /\ Proved!Inv'
         /\ \A h \in Handlers :
              /\ sid[h] # NoSession => sid'[h] = sid[h]
              /\ Registry!ContextSet(h) => Registry!ContextSet(h)'
              /\ Registry!ContextDone(h) => Registry!ContextDone(h)'
<1>. DEFINE Kept == \A h \in Handlers :
                      /\ sid[h] # NoSession => sid'[h] = sid[h]
                      /\ Registry!ContextSet(h) => Registry!ContextSet(h)'
                      /\ Registry!ContextDone(h) => Registry!ContextDone(h)'
<1>1. [Proved!Next]_Proved!vars
  BY DEF registryVars, Proved!vars, Registry!Next, Proved!Next, Registry!Handle, Proved!Handle,
     Registry!ArriveFresh, Proved!ArriveFresh, Registry!ArriveResuming, Proved!ArriveResuming,
     Registry!Announced, Proved!Announced, Registry!Found, Proved!Found,
     Registry!CloseOld, Proved!CloseOld, Registry!RemoveOld, Proved!RemoveOld,
     Registry!AddReplacement, Proved!AddReplacement, Registry!AddMinted, Proved!AddMinted,
     Registry!SetContext, Proved!SetContext, Registry!StopStreaming, Proved!StopStreaming,
     Registry!CheckCurrent, Proved!CheckCurrent, Registry!RemoveOwn, Proved!RemoveOwn,
     Registry!RequestEnds, Proved!RequestEnds, Registry!GrowOld, Proved!GrowOld,
     Registry!RemoveExpiredClients, Proved!RemoveExpiredClients
<1>2. Proved!Inv'
  BY <1>1, OperationsAssumption, Proved!StepInv
<1>3. /\ sid \in [Handlers -> Handlers \cup {NoSession}]
      /\ pc \in [Handlers -> {"idle", "close", "remove", "add", "mint", "setContext", "stream",
                              "check", "delete", "gone"}]
      /\ reqDone \in [Handlers -> BOOLEAN]
      /\ \A h \in Handlers : pc[h] \in {"idle", "mint"} => sid[h] = NoSession
  BY DEF Proved!Inv, Proved!TypeOK, Proved!LocalsOK
<1>. USE <1>3 DEF Registry!ContextSet, Registry!ContextDone
<1>4. ASSUME NEW h \in Handlers, Registry!Handle(h) PROVE Kept
  BY <1>4 DEF Registry!Handle, Registry!CloseOld, Registry!RemoveOld, Registry!AddReplacement,
     Registry!AddMinted, Registry!SetContext, Registry!StopStreaming, Registry!CheckCurrent,
     Registry!RemoveOwn
<1>5. ASSUME NEW h \in Handlers, Registry!ArriveFresh(h) PROVE Kept
  BY <1>5 DEF Registry!ArriveFresh
<1>6. ASSUME NEW h \in Handlers, NEW i \in Handlers, Registry!ArriveResuming(h, i) PROVE Kept
  BY <1>6 DEF Registry!ArriveResuming
<1>7. ASSUME NEW h \in Handlers, Registry!RequestEnds(h) \/ Registry!GrowOld(h) PROVE Kept
  BY <1>7 DEF Registry!RequestEnds, Registry!GrowOld
<1>8. CASE Registry!RemoveExpiredClients
  <2>1. sid' = sid /\ pc' = pc /\ reqDone' = reqDone
    BY <1>8 DEF Registry!RemoveExpiredClients
  <2>. QED
    BY <1>2, <2>1
<1>9. CASE UNCHANGED registryVars
  <2>1. sid' = sid /\ pc' = pc /\ reqDone' = reqDone
    BY <1>9 DEF registryVars
  <2>. QED
    BY <1>2, <2>1
<1>. QED
  BY <1>2, <1>4, <1>5, <1>6, <1>7, <1>8, <1>9 DEF Registry!Next

-----------------------------------------------------------------------------
(* The operations. *)

Inv ==
  /\ Proved!Inv
  /\ TypeOK
  /\ SessionsAreAnnounced
  /\ MintedSessionIsWatched
  /\ WatchedWhileRunning
  /\ CancelledForAReason

LEMMA InitInv == Init => Inv
  BY RegistryInit DEF Init, Inv, TypeOK, SessionsAreAnnounced, MintedSessionIsWatched, Minted,
     WatchedWhileRunning, CancelledForAReason

LEMMA RegistryStepInv ==
  ASSUME Inv, [Registry!Next]_registryVars, UNCHANGED operationVars
  PROVE  Inv'
<1>1. /\ Proved!Inv'
      /\ \A h \in Handlers :
           /\ sid[h] # NoSession => sid'[h] = sid[h]
           /\ Registry!ContextSet(h) => Registry!ContextSet(h)'
           /\ Registry!ContextDone(h) => Registry!ContextDone(h)'
  BY RegistryStep DEF Inv
<1>2. TypeOK'
  BY DEF operationVars, Inv, TypeOK
<1>3. session' = session /\ watcher' = watcher /\ session \in [Operations -> Handlers \cup {NoSession}]
  BY DEF operationVars, Inv, TypeOK
<1>4. SessionsAreAnnounced'
  BY <1>1, <1>3 DEF Inv, SessionsAreAnnounced, Minted
<1>5. MintedSessionIsWatched'
  BY <1>1, <1>3 DEF Inv, MintedSessionIsWatched, SessionsAreAnnounced, Minted
<1>6. WatchedWhileRunning'
  BY DEF operationVars, Inv, WatchedWhileRunning
<1>7. CancelledForAReason'
  <2>1. UNCHANGED <<detached, session, opReqDone, opCtxDone>>
    BY DEF operationVars
  <2>. QED
    BY <1>1, <1>3, <2>1 DEF Inv, CancelledForAReason
<1>. QED
  BY <1>1, <1>2, <1>4, <1>5, <1>6, <1>7 DEF Inv

(* The steps of an operation after it was admitted.                         *)
LEMMA OperationStepInv ==
  ASSUME Inv, NEW o \in Operations,
         GetContext(o) \/ Watcher(o) \/ OperationRequestEnds(o) \/ OperationEnds(o)
  PROVE  Inv'
<1>1. UNCHANGED registryVars /\ UNCHANGED session
  BY DEF GetContext, Watcher, WatcherReads, WatcherCancels, OperationRequestEnds, OperationEnds
<1>2. /\ Proved!Inv' /\ sid' = sid /\ session' = session
      /\ \A h : Registry!ContextSet(h)' <=> Registry!ContextSet(h)
      /\ \A h : Registry!ContextDone(h)' <=> Registry!ContextDone(h)
  BY <1>1, RegistryStep DEF Inv, registryVars, Registry!ContextSet, Registry!ContextDone
<1>3. TypeOK'
  <2>1. CASE GetContext(o)
    BY <2>1 DEF GetContext, Inv, TypeOK
  <2>2. CASE WatcherReads(o)
    BY <2>2 DEF WatcherReads, Inv, TypeOK
  <2>3. CASE WatcherCancels(o)
    BY <2>3 DEF WatcherCancels, Inv, TypeOK
  <2>4. CASE OperationRequestEnds(o)
    BY <2>4 DEF OperationRequestEnds, Inv, TypeOK
  <2>5. CASE OperationEnds(o)
    BY <2>5 DEF OperationEnds, Inv, TypeOK
  <2>. QED
    BY <2>1, <2>2, <2>3, <2>4, <2>5 DEF Watcher
<1>4. SessionsAreAnnounced'
  BY <1>2 DEF Inv, SessionsAreAnnounced, Minted
<1>5. MintedSessionIsWatched'
  <2>1. watcher \in [Operations -> {"none", "started", "watching", "blind", "exited"}]
    BY DEF Inv, TypeOK
  <2>2. \A p \in Operations : watcher'[p] = "blind" =>
           watcher[p] = "blind" \/ (session[p] # NoSession => ~Registry!ContextSet(session[p]))
    BY <2>1 DEF GetContext, Watcher, WatcherReads, WatcherCancels, OperationRequestEnds, OperationEnds
  <2>. QED
    BY <1>2, <2>2 DEF Inv, MintedSessionIsWatched, SessionsAreAnnounced, Minted
<1>6. WatchedWhileRunning'
  <2>. USE DEF Inv, TypeOK, WatchedWhileRunning
  <2>1. CASE GetContext(o)
    BY <2>1 DEF GetContext
  <2>2. CASE WatcherReads(o)
    BY <2>2 DEF WatcherReads
  <2>3. CASE WatcherCancels(o)
    BY <2>3 DEF WatcherCancels
  <2>4. CASE OperationRequestEnds(o)
    BY <2>4 DEF OperationRequestEnds
  <2>5. CASE OperationEnds(o)
    BY <2>5 DEF OperationEnds
  <2>. QED
    BY <2>1, <2>2, <2>3, <2>4, <2>5 DEF Watcher
<1>7. CancelledForAReason'
  <2>. USE <1>2 DEF Inv, TypeOK, CancelledForAReason
  <2>1. CASE GetContext(o)
    BY <2>1 DEF GetContext
  <2>2. CASE WatcherReads(o)
    BY <2>2 DEF WatcherReads
  <2>3. CASE WatcherCancels(o)
    BY <2>3 DEF WatcherCancels, WatchedWhileRunning
  <2>4. CASE OperationRequestEnds(o)
    BY <2>4 DEF OperationRequestEnds
  <2>5. CASE OperationEnds(o)
    BY <2>5 DEF OperationEnds
  <2>. QED
    BY <2>1, <2>2, <2>3, <2>4, <2>5 DEF Watcher
<1>. QED
  BY <1>2, <1>3, <1>4, <1>5, <1>6, <1>7 DEF Inv

(* The middleware finds a session under an id that was announced.  If the   *)
(* id is the session's own its handler is past SetContext.                  *)
LEMMA AdmitInv ==
  ASSUME Inv, NEW o \in Operations, NEW i \in Handlers, Admit(o, i)
  PROVE  Inv'
<1>1. UNCHANGED <<registryVars, detached, watcher, opReqDone, opCtxDone>>
  BY DEF Admit
<1>2. /\ Proved!Inv' /\ sid' = sid
      /\ \A h : Registry!ContextSet(h)' <=> Registry!ContextSet(h)
      /\ \A h : Registry!ContextDone(h)' <=> Registry!ContextDone(h)
  BY <1>1, RegistryStep DEF Inv, registryVars, Registry!ContextSet, Registry!ContextDone
<1>3. session \in [Operations -> Handlers \cup {NoSession}] /\ opc[o] = "idle"
  BY DEF Inv, TypeOK, Admit
<1>4. CASE Registry!Found(i)
  <2>1. /\ opc' = [opc EXCEPT ![o] = "admitted"]
        /\ session' = [session EXCEPT ![o] = Clients[i]]
    BY <1>4 DEF Admit
  <2>2. /\ Clients[i] \in Handlers /\ sid[Clients[i]] = i /\ i # NoSession
        /\ Clients[i] = i => Registry!ContextSet(i)
    BY <1>4, OperationsAssumption
       DEF Registry!Found, Proved!Inv, Proved!TypeOK, Proved!NoDeadEntry, Inv, Admit,
           Registry!Announced, Registry!ContextSet
  <2>3. TypeOK'
    BY <1>1, <1>3, <2>1, <2>2, OperationsAssumption DEF Inv, TypeOK
  <2>4. SessionsAreAnnounced'
    BY <1>2, <1>3, <2>1, <2>2 DEF Inv, SessionsAreAnnounced, Minted
  <2>5. watcher[o] = "none" /\ watcher' = watcher
    BY <1>1, <1>3 DEF Inv, WatchedWhileRunning
  <2>6. MintedSessionIsWatched'
    BY <1>2, <1>3, <2>1, <2>5 DEF Inv, MintedSessionIsWatched, Minted
  <2>7. WatchedWhileRunning'
    BY <1>1, <1>3, <2>1, <2>5 DEF Inv, TypeOK, WatchedWhileRunning
  <2>8. CancelledForAReason'
    BY <1>1, <1>2, <1>3, <2>1, <2>5 DEF Inv, TypeOK, WatchedWhileRunning, CancelledForAReason
  <2>. QED
    BY <1>2, <2>3, <2>4, <2>6, <2>7, <2>8 DEF Inv
<1>5. CASE ~Registry!Found(i)
  <2>1. opc' = [opc EXCEPT ![o] = "rejected"] /\ session' = session
    BY <1>5 DEF Admit
  <2>2. TypeOK' /\ WatchedWhileRunning'
    BY <1>1, <1>3, <2>1 DEF Inv, TypeOK, WatchedWhileRunning
  <2>3. SessionsAreAnnounced' /\ MintedSessionIsWatched'
    BY <1>1, <1>2, <2>1 DEF Inv, SessionsAreAnnounced, MintedSessionIsWatched, Minted
  <2>4. CancelledForAReason'
    BY <1>1, <1>2, <2>1 DEF Inv, CancelledForAReason
  <2>. QED
    BY <1>2, <2>2, <2>3, <2>4 DEF Inv
<1>. QED
  BY <1>4, <1>5

LEMMA StepInv == Inv /\ [Next]_vars => Inv'
<1>. SUFFICES ASSUME Inv, [Next]_vars PROVE Inv'
  OBVIOUS
<1>1. CASE UNCHANGED vars \/ (Registry!Next /\ UNCHANGED operationVars)
  BY <1>1, RegistryStepInv DEF vars
<1>2. ASSUME NEW o \in Operations, NEW i \in Handlers, Admit(o, i) PROVE Inv'
  BY <1>2, AdmitInv
<1>3. ASSUME NEW o \in Operations,
             GetContext(o) \/ Watcher(o) \/ OperationRequestEnds(o) \/ OperationEnds(o)
      PROVE  Inv'
  BY <1>3, OperationStepInv
<1>. QED
  BY <1>1, <1>2, <1>3 DEF Next

-----------------------------------------------------------------------------
(* The theorems. *)

LEMMA Invariance == Spec => []Inv
  BY InitInv, StepInv, PTL DEF Spec

(* The type invariant: an operation that was admitted has a session.        *)
THEOREM TypeCorrect == Spec => []TypeOK
  BY Invariance, PTL DEF Inv

(* client.go:85-91, session.go:107-113: the watcher of an operation on a    *)
(* session that was not resumed sees the session's context, however many    *)
(* sessions and operations there are.                                       *)
THEOREM MintedSessionsAreWatched == Spec => []MintedSessionIsWatched
  BY Invariance, PTL DEF Inv

(* client.go:92-97, ping.go:38-46: an operation is cancelled because its    *)
(* own request has ended, unless it is detached from it, or because the     *)
(* context of the session that it was admitted with is done.                *)
THEOREM OperationsAreCancelledForAReason == Spec => []CancelledForAReason
  BY Invariance, PTL DEF Inv

(* client.go:77-97: every end of a session that was not resumed is seen by  *)
(* the watchers of its operations: an operation that is not cancelled yet   *)
(* has a watcher that is going to cancel it, since one that waits for the   *)
(* operation's own context only is on a session that was resumed.           *)
THEOREM EndsOfSessionsAreSeen == Spec => []EndOfSessionIsSeen
<1>1. Inv => EndOfSessionIsSeen
  BY DEF Inv, TypeOK, WatchedWhileRunning, MintedSessionIsWatched, EndOfSessionIsSeen
<1>. QED
  BY <1>1, Invariance, PTL

(* Whatever the operations do, the sessions below them behave as            *)
(* SessionRegistry says, so its theorems hold of them.                      *)
THEOREM SessionsBelow == Spec => Registry!Spec
<1>1. Init => Registry!Init
  BY DEF Init
<1>2. [Next]_vars => [Registry!Next]_Registry!vars
  <2>1. ASSUME NEW o \in Operations,
               \/ \E i \in Handlers : Admit(o, i)
               \/ GetContext(o) \/ Watcher(o) \/ OperationRequestEnds(o) \/ OperationEnds(o)
        PROVE  UNCHANGED registryVars
    BY <2>1 DEF Admit, GetContext, Watcher, WatcherReads, WatcherCancels, OperationRequestEnds,
                OperationEnds
  <2>. QED
    BY <2>1 DEF Next, vars, registryVars, Registry!vars
<1>. QED
  BY <1>1, <1>2, PTL DEF Spec, Registry!Spec
=============================================================================
