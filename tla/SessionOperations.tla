------------------------- MODULE SessionOperations -------------------------
(***************************************************************************)
(* The requests that work on behalf of a session (ping, iperf3, shell,     *)
(* speedtest.net): the session middleware, ClientSession.GetContext and    *)
(* its watcher goroutine (als/client/client.go:82), composed with the      *)
(* registry of sessions.  What an operation does with its context is left  *)
(* to the modules of the operations.                                       *)
(***************************************************************************)
CONSTANTS
  Handlers, NoSession,
  Operations    \* the requests that pass the middleware

ASSUME OperationsAssumption == NoSession \notin Handlers

VARIABLES Clients, pc, sid, old, closed, reqDone, aged

registryVars == <<Clients, pc, sid, old, closed, reqDone, aged>>

Registry == INSTANCE SessionRegistry

VARIABLES
  detached,   \* the operations that call GetContext(context.Background()): ping
  opc,        \* where each operation is
  session,    \* the session that the middleware has put in its gin.Context
  watcher,    \* where the goroutine of GetContext is
  opReqDone,  \* the request of the operation has ended
  opCtxDone   \* the context that GetContext returned is done

operationVars == <<detached, opc, session, watcher, opReqDone, opCtxDone>>
vars == <<registryVars, operationVars>>

-----------------------------------------------------------------------------
Init ==
  /\ Registry!Init
  /\ detached \in SUBSET Operations
  /\ opc = [o \in Operations |-> "idle"]
  /\ session = [o \in Operations |-> NoSession]
  /\ watcher = [o \in Operations |-> "none"]
  /\ opReqDone = [o \in Operations |-> FALSE]
  /\ opCtxDone = [o \in Operations |-> FALSE]

(* The middleware; a session that GetClient does not find is a 400. *)
Admit(o, i) ==
  /\ opc[o] = "idle"
  /\ Registry!Announced(i)
  /\ IF Registry!Found(i)
     THEN /\ opc' = [opc EXCEPT ![o] = "admitted"]
          /\ session' = [session EXCEPT ![o] = Clients[i]]
     ELSE /\ opc' = [opc EXCEPT ![o] = "rejected"]
          /\ UNCHANGED session
  /\ UNCHANGED <<registryVars, detached, watcher, opReqDone, opCtxDone>>

(* GetContext(requestCtx): a child of the request's context, and a watcher. *)
GetContext(o) ==
  /\ opc[o] = "admitted"
  /\ opc' = [opc EXCEPT ![o] = "running"]
  /\ watcher' = [watcher EXCEPT ![o] = "started"]
  /\ opCtxDone' = [opCtxDone EXCEPT ![o] = opReqDone[o] /\ o \notin detached]
  /\ UNCHANGED <<registryVars, detached, session, opReqDone>>

(* The watcher reads c.ctx, which SetContext may not have assigned yet: the *)
(* channel of a nil parent blocks for ever.                                 *)
WatcherReads(o) ==
  /\ watcher[o] = "started"
  /\ watcher' = [watcher EXCEPT
       ![o] = IF Registry!ContextSet(session[o]) THEN "watching" ELSE "blind"]
  /\ UNCHANGED <<registryVars, detached, opc, session, opReqDone, opCtxDone>>

(* Mutant: the watcher waits for the operation's own context only.          *)
WatcherIgnoresSession(o) ==
  /\ watcher[o] \in {"watching", "blind"}
  /\ opCtxDone[o]
  /\ opCtxDone' = [opCtxDone EXCEPT ![o] = TRUE]
  /\ watcher' = [watcher EXCEPT ![o] = "exited"]
  /\ UNCHANGED <<registryVars, detached, opc, session, opReqDone>>

(* Its select: the session's context or the operation's own. *)
WatcherCancels(o) ==
  /\ \/ watcher[o] = "watching" /\ Registry!ContextDone(session[o])
     \/ watcher[o] \in {"watching", "blind"} /\ opCtxDone[o]
  /\ opCtxDone' = [opCtxDone EXCEPT ![o] = TRUE]
  /\ watcher' = [watcher EXCEPT ![o] = "exited"]
  /\ UNCHANGED <<registryVars, detached, opc, session, opReqDone>>

(* Mutant: ping's context is a child of its request's, too.                 *)
RequestEndsForAll(o) ==
  /\ opc[o] \in {"admitted", "running"}
  /\ ~opReqDone[o]
  /\ opReqDone' = [opReqDone EXCEPT ![o] = TRUE]
  /\ opCtxDone' = [opCtxDone EXCEPT ![o] = @ \/ opc[o] = "running"]
  /\ UNCHANGED <<registryVars, detached, opc, session, watcher>>

(* The request ends: its client has gone or its handler has returned.  For  *)
(* ping, which has handed its work to a goroutine, that changes nothing.    *)
OperationRequestEnds(o) ==
  /\ opc[o] \in {"admitted", "running"}
  /\ ~opReqDone[o]
  /\ opReqDone' = [opReqDone EXCEPT ![o] = TRUE]
  /\ opCtxDone' = [opCtxDone EXCEPT
       ![o] = @ \/ (opc[o] = "running" /\ o \notin detached)]
  /\ UNCHANGED <<registryVars, detached, opc, session, watcher>>

(* The work ends, by itself or because its context is done.  Unless it is   *)
(* detached the handler returns, and net/http cancels the request's         *)
(* context.                                                                 *)
OperationEnds(o) ==
  /\ opc[o] = "running"
  /\ opc' = [opc EXCEPT ![o] = "ended"]
  /\ opReqDone' = [opReqDone EXCEPT ![o] = @ \/ o \notin detached]
  /\ opCtxDone' = [opCtxDone EXCEPT ![o] = @ \/ o \notin detached]
  /\ UNCHANGED <<registryVars, detached, session, watcher>>

Watcher(o) == WatcherReads(o) \/ WatcherCancels(o)

Next ==
  \/ Registry!Next /\ UNCHANGED operationVars
  \/ \E o \in Operations :
       \/ \E i \in Handlers : Admit(o, i)
       \/ GetContext(o)
       \/ Watcher(o)
       \/ OperationRequestEnds(o)
       \/ OperationEnds(o)

Spec == Init /\ [][Next]_vars

(* Goroutines that can run do.  Nothing says that an operation ends by      *)
(* itself: an interactive shell does not.                                   *)
Fairness ==
  /\ \A h \in Handlers : WF_vars(Registry!Handle(h) /\ UNCHANGED operationVars)
  /\ \A o \in Operations : WF_vars(GetContext(o)) /\ WF_vars(Watcher(o))

FairSpec == Spec /\ Fairness

-----------------------------------------------------------------------------
(* The type invariant.  An operation that was admitted has a session.       *)
TypeOK ==
  /\ detached \subseteq Operations
  /\ opc \in [Operations -> {"idle", "admitted", "rejected", "running", "ended"}]
  /\ session \in [Operations -> Handlers \cup {NoSession}]
  /\ watcher \in [Operations -> {"none", "started", "watching", "blind", "exited"}]
  /\ opReqDone \in [Operations -> BOOLEAN]
  /\ opCtxDone \in [Operations -> BOOLEAN]
  /\ \A o \in Operations :
       opc[o] \in {"admitted", "running", "ended"} => session[o] # NoSession

Minted(o) == session[o] # NoSession /\ sid[session[o]] = session[o]

(* The watcher of an operation on a session that was not resumed sees the   *)
(* session's context: c.ctx is assigned after AddClient, but nobody knows   *)
(* the id of a new session before.                                          *)
MintedSessionIsWatched == \A o \in Operations : watcher[o] = "blind" => ~Minted(o)

(* ping.go:38: "We pass context.Background() rather than                    *)
(* c.Request.Context()", which would end the run "after only the first      *)
(* packet".  An operation is cancelled for a reason of its own: its request *)
(* has ended and it is not detached from it, or the context of the very     *)
(* session that it was admitted with is done, whatever a resume or the      *)
(* sweep has done to the map since.                                         *)
CancelledForAReason ==
  \A o \in Operations :
    opCtxDone[o] =>
      \/ opReqDone[o] /\ o \notin detached
      \/ session[o] # NoSession /\ Registry!ContextDone(session[o])

(* No end of a session gets lost between GetContext and its watcher: once   *)
(* the context of a session that was not resumed is done, its operations    *)
(* are cancelled, or have a watcher that is going to cancel them.           *)
EndOfSessionIsSeen ==
  \A o \in Operations :
    opc[o] \in {"running", "ended"} /\ Minted(o) /\ Registry!ContextDone(session[o]) =>
      opCtxDone[o] \/ watcher[o] \in {"started", "watching"}

(* client.go:77 and ping.go:44: on a session that was not resumed every     *)
(* operation, detached or not, is cancelled once the session's handler has  *)
(* returned, and its watcher goroutine exits.                               *)
MintedSessionEndsOperations ==
  \A o \in Operations :
    opc[o] = "running" /\ Minted(o) /\ pc[session[o]] = "gone"
      ~> opCtxDone[o] /\ watcher[o] = "exited"

(* session.go:80: reusing the session on a resume "is what keeps            *)
(* long-running operations (Librespeed upload, IPerf3, shell websockets)    *)
(* alive": while the client of the operation is there, and a handler that   *)
(* resumed the operation's session streams to a client that is there too,   *)
(* the operation is not cancelled.                                          *)
ResumeKeepsOperations ==
  \A o \in Operations, h \in Handlers :
    /\ opc[o] = "running"
    /\ ~opReqDone[o]
    /\ old[h] = session[o]
    /\ pc[h] = "stream" /\ ~reqDone[h] /\ Clients[sid[h]] = h
    => ~opCtxDone[o]

-----------------------------------------------------------------------------
(* The inductive invariant of SessionOperationsProofs, with that of         *)
(* SessionRegistry. *)

(* An operation has a watcher from when it works, and it cancels before it  *)
(* exits.                                                                   *)
WatchedWhileRunning ==
  \A o \in Operations :
    /\ opc[o] \in {"running", "ended"} <=> watcher[o] # "none"
    /\ watcher[o] = "exited" => opCtxDone[o]
    /\ opCtxDone[o] => opc[o] \in {"running", "ended"}

(* The session of an operation has an id, and if that is its own id it was  *)
(* announced, so that its context is set.                                   *)
SessionsAreAnnounced ==
  \A o \in Operations :
    session[o] # NoSession =>
      /\ sid[session[o]] # NoSession
      /\ Minted(o) => Registry!ContextSet(session[o])
=============================================================================
