----------------------- MODULE SessionRegistryProofs -----------------------
(***************************************************************************)
(* Proofs about the registry of sessions, for every set of handlers.       *)
(***************************************************************************)
EXTENDS SessionRegistry, TLAPS

LEMMA InitInv == Init => Inv
  BY HandlersAssumption DEF Init, Inv, TypeOK, LocalsOK, NoDeadEntry, OwnIdIsKept

(* No step of a handler, of a client or of the sweep breaks the invariant.  *)
LEMMA StepInv == ASSUME Inv, [Next]_vars PROVE Inv'
<1>. USE HandlersAssumption DEF Inv, TypeOK, LocalsOK
<1>1. ASSUME NEW h \in Handlers, ArriveFresh(h) PROVE Inv'
  <2>1. TypeOK' /\ LocalsOK'
    BY <1>1 DEF ArriveFresh
  <2>2. NoDeadEntry'
    BY <1>1 DEF ArriveFresh, NoDeadEntry
  <2>3. OwnIdIsKept'
    BY <1>1 DEF ArriveFresh, OwnIdIsKept
  <2>. QED
    BY <2>1, <2>2, <2>3
<1>2. ASSUME NEW h \in Handlers, CloseOld(h) PROVE Inv'
  <2>1. TypeOK' /\ LocalsOK'
    BY <1>2 DEF CloseOld
  <2>2. NoDeadEntry'
    BY <1>2 DEF CloseOld, NoDeadEntry
  <2>3. OwnIdIsKept'
    BY <1>2 DEF CloseOld, OwnIdIsKept
  <2>. QED
    BY <2>1, <2>2, <2>3
<1>3. ASSUME NEW h \in Handlers, RemoveOld(h) PROVE Inv'
  <2>1. TypeOK' /\ LocalsOK'
    BY <1>3 DEF RemoveOld
  <2>2. NoDeadEntry'
    BY <1>3 DEF RemoveOld, NoDeadEntry
  <2>3. OwnIdIsKept'
    BY <1>3 DEF RemoveOld, OwnIdIsKept
  <2>. QED
    BY <2>1, <2>2, <2>3
<1>4. ASSUME NEW h \in Handlers, AddReplacement(h) PROVE Inv'
  <2>1. TypeOK' /\ LocalsOK'
    BY <1>4 DEF AddReplacement
  <2>2. NoDeadEntry'
    BY <1>4 DEF AddReplacement, NoDeadEntry
  <2>3. OwnIdIsKept'
    BY <1>4 DEF AddReplacement, OwnIdIsKept
  <2>. QED
    BY <2>1, <2>2, <2>3
<1>5. ASSUME NEW h \in Handlers, AddMinted(h) PROVE Inv'
  <2>1. TypeOK' /\ LocalsOK'
    BY <1>5 DEF AddMinted
  <2>2. NoDeadEntry'
    BY <1>5 DEF AddMinted, NoDeadEntry
  <2>3. OwnIdIsKept'
    BY <1>5 DEF AddMinted, OwnIdIsKept
  <2>. QED
    BY <2>1, <2>2, <2>3
<1>6. ASSUME NEW h \in Handlers, SetContext(h) PROVE Inv'
  <2>1. TypeOK' /\ LocalsOK'
    BY <1>6 DEF SetContext
  <2>2. NoDeadEntry'
    BY <1>6 DEF SetContext, NoDeadEntry
  <2>3. OwnIdIsKept'
    BY <1>6 DEF SetContext, OwnIdIsKept
  <2>. QED
    BY <2>1, <2>2, <2>3
<1>7. ASSUME NEW h \in Handlers, StopStreaming(h) PROVE Inv'
  <2>1. TypeOK' /\ LocalsOK'
    BY <1>7 DEF StopStreaming
  <2>2. NoDeadEntry'
    BY <1>7 DEF StopStreaming, NoDeadEntry
  <2>3. OwnIdIsKept'
    BY <1>7 DEF StopStreaming, OwnIdIsKept
  <2>. QED
    BY <2>1, <2>2, <2>3
<1>8. ASSUME NEW h \in Handlers, CheckCurrent(h) PROVE Inv'
  <2>1. TypeOK' /\ LocalsOK'
    BY <1>8 DEF CheckCurrent
  <2>2. NoDeadEntry'
    BY <1>8 DEF CheckCurrent, NoDeadEntry
  <2>3. OwnIdIsKept'
    BY <1>8 DEF CheckCurrent, OwnIdIsKept
  <2>. QED
    BY <2>1, <2>2, <2>3
<1>9. ASSUME NEW h \in Handlers, RemoveOwn(h) PROVE Inv'
  <2>1. TypeOK' /\ LocalsOK'
    BY <1>9 DEF RemoveOwn
  <2>2. NoDeadEntry'
    BY <1>9 DEF RemoveOwn, NoDeadEntry
  <2>3. OwnIdIsKept'
    BY <1>9 DEF RemoveOwn, OwnIdIsKept
  <2>. QED
    BY <2>1, <2>2, <2>3
<1>10. ASSUME NEW h \in Handlers, RequestEnds(h) PROVE Inv'
  <2>1. TypeOK' /\ LocalsOK'
    BY <1>10 DEF RequestEnds
  <2>2. NoDeadEntry'
    BY <1>10 DEF RequestEnds, NoDeadEntry
  <2>3. OwnIdIsKept'
    BY <1>10 DEF RequestEnds, OwnIdIsKept
  <2>. QED
    BY <2>1, <2>2, <2>3
<1>11. ASSUME NEW h \in Handlers, GrowOld(h) PROVE Inv'
  <2>1. TypeOK' /\ LocalsOK'
    BY <1>11 DEF GrowOld
  <2>2. NoDeadEntry'
    BY <1>11 DEF GrowOld, NoDeadEntry
  <2>3. OwnIdIsKept'
    BY <1>11 DEF GrowOld, OwnIdIsKept
  <2>. QED
    BY <2>1, <2>2, <2>3
<1>12. ASSUME NEW h \in Handlers, NEW i \in Handlers, ArriveResuming(h, i) PROVE Inv'
  <2>1. TypeOK' /\ LocalsOK'
    BY <1>12 DEF ArriveResuming, Found, Announced
  <2>2. NoDeadEntry'
    BY <1>12 DEF ArriveResuming, Found, Announced, NoDeadEntry
  <2>3. OwnIdIsKept'
    BY <1>12 DEF ArriveResuming, Found, Announced, OwnIdIsKept
  <2>. QED
    BY <2>1, <2>2, <2>3
<1>13. CASE RemoveExpiredClients
  <2>1. TypeOK' /\ LocalsOK'
    BY <1>13 DEF RemoveExpiredClients
  <2>2. NoDeadEntry'
    BY <1>13 DEF RemoveExpiredClients, NoDeadEntry
  <2>3. OwnIdIsKept'
    BY <1>13 DEF RemoveExpiredClients, OwnIdIsKept
  <2>. QED
    BY <2>1, <2>2, <2>3
<1>14. CASE UNCHANGED vars
  BY <1>14 DEF vars, NoDeadEntry, OwnIdIsKept
<1>. QED
  BY <1>1, <1>2, <1>3, <1>4, <1>5, <1>6, <1>7, <1>8, <1>9, <1>10, <1>11, <1>12, <1>13, <1>14
     DEF Next, Handle

(* Inv is inductive. *)
THEOREM Invariance == Spec => []Inv
  BY InitInv, StepInv, PTL DEF Spec

(* The type invariant: a handler that replaces an entry has one to replace. *)
THEOREM TypeCorrect == Spec => []TypeOK
  BY Invariance, PTL DEF Inv

(* Whatever is found in the map has a handler that will clean it up.        *)
THEOREM NoDeadEntries == Spec => []NoDeadEntry
  BY Invariance, PTL DEF Inv

(* An open, young session under an id of its own is found.                  *)
THEOREM MintedSessionsAreFound == Spec => []MintedSessionIsFound
<1>1. Inv => MintedSessionIsFound
  BY DEF Inv, OwnIdIsKept, MintedSessionIsFound
<1>. QED
  BY Invariance, <1>1, PTL
-----------------------------------------------------------------------------
(* The registry implements SessionLifecycle. *)

(* The pages as the lifecycle sees them. *)
Pages == [h \in Handlers |-> Page(h)]

(* A step of one handler moves its own page only. *)
LEMMA OnePageMoves ==
  ASSUME TypeOK, NEW h \in Handlers, NEW s, pc' = [pc EXCEPT ![h] = s]
  PROVE  Pages' = [Pages EXCEPT ![h] = Page(h)']
<1>1. \A g \in Handlers \ {h} : pc'[g] = pc[g]
  BY DEF TypeOK
<1>2. \A g \in Handlers \ {h} : Page(g)' = Page(g)
  BY <1>1 DEF Page
<1>. QED
  BY <1>2 DEF Pages

(* What a write to the map does to the sessions in it. *)
LEMMA EntryWritten ==
  ASSUME TypeOK, NEW i \in Handlers, NEW c \in Handlers \cup {NoSession},
         Clients' = [Clients EXCEPT ![i] = c]
  PROVE  /\ Registered' \subseteq Registered \cup ({c} \ {NoSession})
         /\ c # NoSession => c \in Registered'
<1>1. Clients'[i] = c /\ \A j \in Handlers \ {i} : Clients'[j] = Clients[j]
  BY DEF TypeOK
<1>. QED
  BY <1>1 DEF Registered

(* The entry of h takes the place of another one, or of none. *)
LEMMA EntryAdded ==
  ASSUME TypeOK, HandlersAssumption, NEW h \in Handlers, NEW i \in Handlers,
         Clients' = [Clients EXCEPT ![i] = h]
  PROVE  \E left \in SUBSET Registered : Registered' = (Registered \ left) \cup {h}
<1>1. Registered' \subseteq Registered \cup {h} /\ h \in Registered'
  BY EntryWritten, HandlersAssumption
<1>2. Registered' = (Registered \ (Registered \ Registered')) \cup {h}
  BY <1>1
<1>. QED
  BY <1>2

(* A handler that has no entry yet, or has one no more, is not in the map.  *)
LEMMA NoEntry ==
  ASSUME Inv, NEW h \in Handlers,
         pc[h] \notin {"setContext", "stream", "check", "delete"} \/ Clients[sid[h]] # h
  PROVE  h \notin Registered
BY DEF Inv, NoDeadEntry, Registered

(* Every step of the registry is a step of the lifecycle, or shows nothing. *)
LEMMA LifecycleStep ==
  ASSUME Inv, [Next]_vars
  PROVE  [Life!Next]_(Life!vars)
<1>. USE HandlersAssumption
<1>0. TypeOK /\ LocalsOK
  BY DEF Inv
<1>1. \A h \in Handlers : Pages[h] = Page(h)
  BY DEF Pages
<1>2. ASSUME UNCHANGED <<Registered, Pages>> PROVE UNCHANGED Life!vars
  BY <1>2 DEF Life!vars, Pages
<1>3. ASSUME NEW h \in Handlers, NEW s, pc' = [pc EXCEPT ![h] = s],
             Page(h)' = Page(h), Registered' = Registered
      PROVE  UNCHANGED Life!vars
  <2>1. Pages' = Pages
    BY <1>0, <1>1, <1>3, OnePageMoves DEF Pages
  <2>. QED
    BY <1>2, <1>3, <2>1
<1>4. ASSUME Registered' \subseteq Registered, Pages' = Pages PROVE Life!Leave
  BY <1>4 DEF Life!Leave, Pages
<1>5. ASSUME NEW h \in Handlers, ArriveFresh(h) \/ \E i \in Handlers : ArriveResuming(h, i)
      PROVE  UNCHANGED Life!vars
  <2>1. /\ Page(h) = "away"
        /\ Clients' = Clients
        /\ \E s \in {"mint", "close"} : pc' = [pc EXCEPT ![h] = s]
    BY <1>5 DEF ArriveFresh, ArriveResuming, Page
  <2>2. PICK s \in {"mint", "close"} : pc' = [pc EXCEPT ![h] = s]
    BY <2>1
  <2>3. Page(h)' = "away" /\ Registered' = Registered
    BY <1>0, <2>1, <2>2 DEF Page, Registered, TypeOK
  <2>. QED
    BY <1>3, <2>1, <2>2, <2>3
<1>6. ASSUME NEW h \in Handlers, CloseOld(h) PROVE UNCHANGED Life!vars
  <2>1. /\ pc[h] = "close" /\ pc' = [pc EXCEPT ![h] = "remove"] /\ Clients' = Clients
    BY <1>6 DEF CloseOld
  <2>2. Page(h) = "away" /\ Page(h)' = "away" /\ Registered' = Registered
    BY <1>0, <2>1 DEF Page, Registered, TypeOK
  <2>. QED
    BY <1>3, <2>1, <2>2
<1>7. ASSUME NEW h \in Handlers, RemoveOld(h) PROVE Life!Leave
  <2>1. /\ pc[h] = "remove" /\ pc' = [pc EXCEPT ![h] = "add"]
        /\ Clients' = [Clients EXCEPT ![sid[h]] = NoSession] /\ sid[h] \in Handlers
    BY <1>0, <1>7 DEF RemoveOld, TypeOK, LocalsOK
  <2>2. Page(h) = "away" /\ Page(h)' = "away"
    BY <1>0, <2>1 DEF Page, TypeOK
  <2>3. Pages' = Pages
    BY <1>0, <1>1, <2>1, <2>2, OnePageMoves DEF Pages
  <2>4. Registered' \subseteq Registered
    BY <1>0, <2>1, EntryWritten
  <2>. QED
    BY <1>4, <2>3, <2>4
<1>8. ASSUME NEW h \in Handlers, AddReplacement(h) \/ AddMinted(h) PROVE Life!Register(h)
  <2>1. /\ pc[h] \in {"add", "mint"} /\ pc' = [pc EXCEPT ![h] = "setContext"]
        /\ \E i \in Handlers : Clients' = [Clients EXCEPT ![i] = h]
    BY <1>0, <1>8 DEF AddReplacement, AddMinted, TypeOK, LocalsOK
  <2>2. Page(h) = "away" /\ Page(h)' = "joined"
    BY <1>0, <2>1 DEF Page, TypeOK
  <2>3. Pages' = [Pages EXCEPT ![h] = "joined"]
    BY <1>0, <2>1, <2>2, OnePageMoves
  <2>4. \E left \in SUBSET Registered : Registered' = (Registered \ left) \cup {h}
    BY <1>0, <2>1, EntryAdded
  <2>. QED
    BY <1>1, <2>2, <2>3, <2>4 DEF Life!Register, Life!Proceed, Pages
<1>9. ASSUME NEW h \in Handlers, SetContext(h) PROVE Life!Stream(h)
  <2>1. pc[h] = "setContext" /\ pc' = [pc EXCEPT ![h] = "stream"] /\ Clients' = Clients
    BY <1>9 DEF SetContext
  <2>2. Page(h) = "joined" /\ Page(h)' = "streams" /\ Registered' = Registered
    BY <1>0, <2>1 DEF Page, Registered, TypeOK
  <2>3. Pages' = [Pages EXCEPT ![h] = "streams"]
    BY <1>0, <2>1, <2>2, OnePageMoves
  <2>. QED
    BY <1>1, <2>2, <2>3 DEF Life!Stream, Life!Proceed, Pages
<1>10. ASSUME NEW h \in Handlers, StopStreaming(h) PROVE Life!Stop(h)
  <2>1. pc[h] = "stream" /\ pc' = [pc EXCEPT ![h] = "check"] /\ Clients' = Clients
    BY <1>10 DEF StopStreaming
  <2>2. Page(h) = "streams" /\ Page(h)' = "stopped" /\ Registered' = Registered
    BY <1>0, <2>1 DEF Page, Registered, TypeOK
  <2>3. Pages' = [Pages EXCEPT ![h] = "stopped"]
    BY <1>0, <2>1, <2>2, OnePageMoves
  <2>. QED
    BY <1>1, <2>2, <2>3 DEF Life!Stop, Life!Proceed, Pages
(* The handler returns at once if its entry is gone, by NoDeadEntry from    *)
(* under every id.                                                          *)
<1>11. ASSUME NEW h \in Handlers, CheckCurrent(h) PROVE Life!Return(h) \/ UNCHANGED Life!vars
  <2>1. pc[h] = "check" /\ Clients' = Clients /\ Page(h) = "stopped"
    BY <1>11 DEF CheckCurrent, Page
  <2>2. CASE Clients[sid[h]] = h
    <3>1. pc' = [pc EXCEPT ![h] = "delete"]
      BY <1>11, <2>2 DEF CheckCurrent
    <3>2. Page(h)' = "stopped" /\ Registered' = Registered
      BY <1>0, <2>1, <3>1 DEF Page, Registered, TypeOK
    <3>. QED
      BY <1>3, <2>1, <3>1, <3>2
  <2>3. CASE Clients[sid[h]] # h
    <3>1. pc' = [pc EXCEPT ![h] = "gone"]
      BY <1>11, <2>3 DEF CheckCurrent
    <3>2. Page(h)' = "returned" /\ Registered' = Registered
      BY <1>0, <2>1, <3>1 DEF Page, Registered, TypeOK
    <3>3. Pages' = [Pages EXCEPT ![h] = "returned"]
      BY <1>0, <3>1, <3>2, OnePageMoves
    <3>4. h \notin Registered
      BY <2>3, NoEntry
    <3>. QED
      BY <1>1, <2>1, <3>2, <3>3, <3>4 DEF Life!Return, Life!Proceed, Pages
  <2>. QED
    BY <2>2, <2>3
<1>12. ASSUME NEW h \in Handlers, RemoveOwn(h) PROVE Life!Return(h)
  <2>1. /\ pc[h] = "delete" /\ pc' = [pc EXCEPT ![h] = "gone"] /\ UNCHANGED sid
        /\ Clients' = [Clients EXCEPT ![sid[h]] = NoSession] /\ sid[h] \in Handlers
    BY <1>0, <1>12 DEF RemoveOwn, TypeOK, LocalsOK
  <2>2. Page(h) = "stopped" /\ Page(h)' = "returned"
    BY <1>0, <2>1 DEF Page, TypeOK
  <2>3. Pages' = [Pages EXCEPT ![h] = "returned"]
    BY <1>0, <2>1, <2>2, OnePageMoves
  <2>4. Registered' \subseteq Registered
    BY <1>0, <2>1, EntryWritten
  <2>5. h \notin Registered'
    <3>1. \A i \in Handlers : Clients[i] = h => i = sid[h]
      BY <1>0 DEF Inv, NoDeadEntry
    <3>. QED
      BY <1>0, <2>1, <3>1 DEF Registered, TypeOK
  <2>. QED
    BY <1>1, <2>2, <2>3, <2>4, <2>5 DEF Life!Return, Life!Proceed, Pages
<1>13. ASSUME NEW h \in Handlers, RequestEnds(h) \/ GrowOld(h) PROVE UNCHANGED Life!vars
  BY <1>2, <1>13 DEF RequestEnds, GrowOld, Registered, Pages, Page
<1>14. CASE RemoveExpiredClients
  <2>1. UNCHANGED pc /\ \A i \in Handlers : Clients'[i] \in {Clients[i], NoSession}
    BY <1>14 DEF RemoveExpiredClients
  <2>2. Pages' = Pages /\ Registered' \subseteq Registered
    BY <2>1 DEF Pages, Page, Registered
  <2>. QED
    BY <1>4, <2>2 DEF Life!Next
<1>15. CASE UNCHANGED vars
  BY <1>2, <1>15 DEF vars, Registered, Pages, Page
<1>. QED
  BY <1>5, <1>6, <1>7, <1>8, <1>9, <1>10, <1>11, <1>12, <1>13, <1>14, <1>15
     DEF Next, Handle, Life!Next

(* What the rest of the program relies on, whatever the handlers, the       *)
(* resumes and the sweep do to the map: a session enters it once, before    *)
(* its stream, and is out of it when its handler has returned.              *)
THEOREM RegistryImplementsLifecycle == Spec => ImplementsLifecycle
<1>1. Init => Life!Init
  BY DEF Init, Life!Init, Registered, Page
<1>2. Inv /\ [Next]_vars => [Life!Next]_(Life!vars)
  BY LifecycleStep
<1>. QED
  BY <1>1, <1>2, Invariance, PTL DEF Spec, ImplementsLifecycle, Life!Spec
=============================================================================
