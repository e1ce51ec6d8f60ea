-------------------------- MODULE SessionRegistry --------------------------
(***************************************************************************)
(* The map of client sessions of als/client/client.go and the SSE handlers *)
(* of als/controller/session/session.go that fill and empty it.            *)
(*                                                                         *)
(* One handler serves one GET /session and creates one ClientSession, so a *)
(* session object is named by its handler.  A handler that mints a UUID    *)
(* registers under its own name; one that resumes registers under the name *)
(* of the handler that minted the id.  Each call to AddClient, GetClient,  *)
(* IsCurrent, RemoveClient and RemoveExpiredClients is one step, because   *)
(* clientsMu is held for its whole body and for nothing else.              *)
(***************************************************************************)
CONSTANTS
  Handlers,   \* the GET /session requests
  NoSession   \* no entry in the map

ASSUME HandlersAssumption == NoSession \notin Handlers

VARIABLES
  Clients,  \* Clients[i]: the session registered under the id that i minted
  pc,       \* where each handler is
  sid,      \* its sessionID, or the resumeID it found
  old,      \* the session that a resuming handler has found
  closed,   \* the done channel of the session is closed
  reqDone,  \* the context of the handler's own request is done
  aged      \* the session is older than sessionExpireDuration

vars == <<Clients, pc, sid, old, closed, reqDone, aged>>

-----------------------------------------------------------------------------
(* GetClient: an expired session is not found. *)
Found(i) == Clients[i] # NoSession /\ ~aged[Clients[i]]

(* Mutant: the SessionId event is sent before SetContext. *)
AnnouncedEarly(i) == sid[i] = i /\ pc[i] \in {"setContext", "stream", "check", "delete", "gone"}

(* A client knows an id from the SessionId event, which the handler sends   *)
(* after SetContext.                                                        *)
Announced(i) == sid[i] = i /\ pc[i] \in {"stream", "check", "delete", "gone"}

(* The context that SetContext stores: nil before, then a child of the      *)
(* request's context that the deferred function cancels.                    *)
ContextSet(h) == pc[h] \in {"stream", "check", "delete", "gone"}
ContextDone(h) == ContextSet(h) /\ (reqDone[h] \/ pc[h] # "stream")

Init ==
  /\ Clients = [i \in Handlers |-> NoSession]
  /\ pc = [h \in Handlers |-> "idle"]
  /\ sid = [h \in Handlers |-> NoSession]
  /\ old = [h \in Handlers |-> NoSession]
  /\ closed = [h \in Handlers |-> FALSE]
  /\ reqDone = [h \in Handlers |-> FALSE]
  /\ aged = [h \in Handlers |-> FALSE]

-----------------------------------------------------------------------------
(* GET /session without a resume parameter. *)
ArriveFresh(h) ==
  /\ pc[h] = "idle"
  /\ pc' = [pc EXCEPT ![h] = "mint"]
  /\ UNCHANGED <<Clients, sid, old, closed, reqDone, aged>>

(* GET /session?resume=i: mint a new id unless GetClient finds the session. *)
ArriveResuming(h, i) ==
  /\ pc[h] = "idle"
  /\ Announced(i)
  /\ \/ /\ Found(i)
        /\ pc' = [pc EXCEPT ![h] = "close"]
        /\ sid' = [sid EXCEPT ![h] = i]
        /\ old' = [old EXCEPT ![h] = Clients[i]]
     \/ /\ ~Found(i)
        /\ pc' = [pc EXCEPT ![h] = "mint"]
        /\ UNCHANGED <<sid, old>>
  /\ UNCHANGED <<Clients, closed, reqDone, aged>>

(* old.Close() *)
CloseOld(h) ==
  /\ pc[h] = "close"
  /\ closed' = [closed EXCEPT ![old[h]] = TRUE]
  /\ pc' = [pc EXCEPT ![h] = "remove"]
  /\ UNCHANGED <<Clients, sid, old, reqDone, aged>>

(* RemoveClient(resumeID) *)
RemoveOld(h) ==
  /\ pc[h] = "remove"
  /\ Clients' = [Clients EXCEPT ![sid[h]] = NoSession]
  /\ pc' = [pc EXCEPT ![h] = "add"]
  /\ UNCHANGED <<sid, old, closed, reqDone, aged>>

(* Mutant: the session that was found is put back.                          *)
AddFoundAgain(h) ==
  /\ pc[h] = "add"
  /\ Clients' = [Clients EXCEPT ![sid[h]] = old[h]]
  /\ pc' = [pc EXCEPT ![h] = "setContext"]
  /\ UNCHANGED <<sid, old, closed, reqDone, aged>>

(* AddClient(resumeID, clientSession) *)
AddReplacement(h) ==
  /\ pc[h] = "add"
  /\ Clients' = [Clients EXCEPT ![sid[h]] = h]
  /\ pc' = [pc EXCEPT ![h] = "setContext"]
  /\ UNCHANGED <<sid, old, closed, reqDone, aged>>

(* AddClient with a new UUID. *)
AddMinted(h) ==
  /\ pc[h] = "mint"
  /\ Clients' = [Clients EXCEPT ![h] = h]
  /\ sid' = [sid EXCEPT ![h] = h]
  /\ pc' = [pc EXCEPT ![h] = "setContext"]
  /\ UNCHANGED <<old, closed, reqDone, aged>>

(* SetContext, then the SessionId event and the stream. *)
SetContext(h) ==
  /\ pc[h] = "setContext"
  /\ pc' = [pc EXCEPT ![h] = "stream"]
  /\ UNCHANGED <<Clients, sid, old, closed, reqDone, aged>>

(* Mutant: the loop does not select on Done().                              *)
StopStreamingOnRequestOnly(h) ==
  /\ pc[h] = "stream"
  /\ reqDone[h]
  /\ pc' = [pc EXCEPT ![h] = "check"]
  /\ UNCHANGED <<Clients, sid, old, closed, reqDone, aged>>

(* The select loop ends, and the deferred function cancels the context. *)
StopStreaming(h) ==
  /\ pc[h] = "stream"
  /\ reqDone[h] \/ closed[h]
  /\ pc' = [pc EXCEPT ![h] = "check"]
  /\ UNCHANGED <<Clients, sid, old, closed, reqDone, aged>>

(* IsCurrent(sessionID, clientSession) *)
CheckCurrent(h) ==
  /\ pc[h] = "check"
  /\ pc' = [pc EXCEPT ![h] = IF Clients[sid[h]] = h THEN "delete" ELSE "gone"]
  /\ UNCHANGED <<Clients, sid, old, closed, reqDone, aged>>

(* Mutant: the handler returns without RemoveClient.                        *)
LeaveOwnEntry(h) ==
  /\ pc[h] = "delete"
  /\ pc' = [pc EXCEPT ![h] = "gone"]
  /\ UNCHANGED <<Clients, sid, old, closed, reqDone, aged>>

(* RemoveClient(sessionID) *)
RemoveOwn(h) ==
  /\ pc[h] = "delete"
  /\ Clients' = [Clients EXCEPT ![sid[h]] = NoSession]
  /\ pc' = [pc EXCEPT ![h] = "gone"]
  /\ UNCHANGED <<sid, old, closed, reqDone, aged>>

-----------------------------------------------------------------------------
(* The client disconnects (a failed keepalive write tells the same).        *)
RequestEnds(h) ==
  /\ pc[h] \notin {"idle", "gone"}
  /\ ~reqDone[h]
  /\ reqDone' = [reqDone EXCEPT ![h] = TRUE]
  /\ UNCHANGED <<Clients, pc, sid, old, closed, aged>>

(* 24 hours have passed since CreatedAt. *)
GrowOld(h) ==
  /\ pc[h] \in {"setContext", "stream", "check", "delete"}
  /\ ~aged[h]
  /\ aged' = [aged EXCEPT ![h] = TRUE]
  /\ UNCHANGED <<Clients, pc, sid, old, closed, reqDone>>

(* Mutant: remove the sessions that are not expired.                        *)
RemoveUnexpiredClients ==
  /\ \E i \in Handlers : Clients[i] # NoSession /\ ~aged[Clients[i]]
  /\ Clients' = [i \in Handlers |->
                   IF Clients[i] # NoSession /\ ~aged[Clients[i]] THEN NoSession
                   ELSE Clients[i]]
  /\ UNCHANGED <<pc, sid, old, closed, reqDone, aged>>

(* The hourly sweep: no handler is told.                                    *)
RemoveExpiredClients ==
  /\ \E i \in Handlers : Clients[i] # NoSession /\ aged[Clients[i]]
  /\ Clients' = [i \in Handlers |->
                   IF Clients[i] # NoSession /\ aged[Clients[i]] THEN NoSession
                   ELSE Clients[i]]
  /\ UNCHANGED <<pc, sid, old, closed, reqDone, aged>>

-----------------------------------------------------------------------------
(* The steps that a handler takes by itself. *)
Handle(h) ==
  \/ CloseOld(h) \/ RemoveOld(h) \/ AddReplacement(h) \/ AddMinted(h) \/ SetContext(h)
  \/ StopStreaming(h) \/ CheckCurrent(h) \/ RemoveOwn(h)

Next ==
  \/ \E h \in Handlers :
       \/ ArriveFresh(h)
       \/ \E i \in Handlers : ArriveResuming(h, i)
       \/ Handle(h)
       \/ RequestEnds(h)
       \/ GrowOld(h)
  \/ RemoveExpiredClients

Spec == Init /\ [][Next]_vars

(* A handler that has been called runs until it blocks in its select. *)
Fairness == \A h \in Handlers : WF_vars(Handle(h))

FairSpec == Spec /\ Fairness

-----------------------------------------------------------------------------
(* The type invariant.  A handler that takes a session over has found one.  *)
TypeOK ==
  /\ Clients \in [Handlers -> Handlers \cup {NoSession}]
  /\ pc \in [Handlers -> {"idle", "close", "remove", "add", "mint", "setContext", "stream",
                          "check", "delete", "gone"}]
  /\ sid \in [Handlers -> Handlers \cup {NoSession}]
  /\ old \in [Handlers -> Handlers \cup {NoSession}]
  /\ closed \in [Handlers -> BOOLEAN]
  /\ reqDone \in [Handlers -> BOOLEAN]
  /\ aged \in [Handlers -> BOOLEAN]
  /\ \A h \in Handlers : pc[h] \in {"close", "remove", "add"} => old[h] # NoSession

(* The map holds no dead sessions: whatever the middleware or a resume      *)
(* finds under an id was registered under it by a handler that has not      *)
(* returned, and so will still clean up.  In particular a disconnect racing *)
(* a resume or the sweep leaves nothing behind.                             *)
NoDeadEntry ==
  \A i \in Handlers :
    Clients[i] # NoSession =>
      /\ sid[Clients[i]] = i
      /\ pc[Clients[i]] \in {"setContext", "stream", "check", "delete"}

(* A session under an id of its own stays reachable while it streams: until *)
(* a resume has closed it, its client has gone or it has expired, the       *)
(* middleware finds it, whatever other handlers do to the map.              *)
MintedSessionIsFound ==
  \A h \in Handlers :
    pc[h] = "stream" /\ sid[h] = h /\ ~closed[h] /\ ~aged[h] => Clients[h] = h

(* What the rest of the program sees of the map: a session enters it once,  *)
(* before its stream, never comes back after a resume, the sweep or a       *)
(* clean-up has taken it out, and is not in it when its handler has         *)
(* returned, however the calls of several handlers interleave.              *)
Page(h) ==
  CASE pc[h] = "setContext" -> "joined"
    [] pc[h] = "stream" -> "streams"
    [] pc[h] \in {"check", "delete"} -> "stopped"
    [] pc[h] = "gone" -> "returned"
    [] OTHER -> "away"

Registered == {Clients[i] : i \in Handlers} \ {NoSession}

Life == INSTANCE SessionLifecycle WITH
  Sessions <- Handlers, registered <- Registered, page <- [h \in Handlers |-> Page(h)]

ImplementsLifecycle == Life!Spec

(* A handler whose client has gone, or whose session was taken over,        *)
(* returns, and its session is out of the map.                              *)
HandlerReturns ==
  \A h \in Handlers :
    closed[h] \/ reqDone[h] ~> pc[h] = "gone" /\ \A i \in Handlers : Clients[i] # h

(* session.go:115: "Only remove the map entry if we are still the live      *)
(* handler for this id [...] without this guard the stale handler would     *)
(* yank the new entry out from under its replacement": the deferred         *)
(* RemoveClient of a handler deletes its own entry or none.                 *)
StaleHandlerSparesReplacement ==
  [][\A h \in Handlers : RemoveOwn(h) => Clients[sid[h]] \in {h, NoSession}]_vars

-----------------------------------------------------------------------------
(* The inductive invariant of SessionRegistryProofs. *)

(* A handler has an id once it knows whether it resumes; it resumes an id   *)
(* that somebody else has minted.                                           *)
LocalsOK ==
  \A h \in Handlers :
    /\ pc[h] \in {"idle", "mint"} => sid[h] = NoSession
    /\ pc[h] \notin {"idle", "mint"} => sid[h] # NoSession
    /\ pc[h] \in {"close", "remove", "add"} => sid[h] # h
    /\ sid[h] # NoSession => sid[sid[h]] = sid[h]

(* As long as a session under an id of its own is open and young, it is in  *)
(* the map, and the others that use its id are about to close it.           *)
OwnIdIsKept ==
  \A h \in Handlers :
    pc[h] \in {"setContext", "stream"} /\ sid[h] = h /\ ~closed[h] /\ ~aged[h] =>
      /\ Clients[h] = h
      /\ \A g \in Handlers \ {h} : sid[g] = h => pc[g] = "close" /\ old[g] = h

Inv ==
  /\ TypeOK
  /\ LocalsOK
  /\ NoDeadEntry
  /\ OwnIdIsKept
=============================================================================
