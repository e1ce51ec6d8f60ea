--------------------------- MODULE SpeedtestQueue ---------------------------
(***************************************************************************)
(* The speedtest queue of als/client/queue.go, used by the speedtest.net   *)
(* handler of als/controller/speedtest/speedtest_cli.go and shut down by   *)
(* als/als.go.  One caller is one HTTP request with its own context.       *)
(*                                                                         *)
(* queueLock protects queueEntries.  Every critical section of the code    *)
(* but one is a single step here, taken when the lock is free.  The        *)
(* exception is the clean-up of HandleQueue (queue.go:223-234), which      *)
(* calls the callbacks of the remaining entries with the lock held: there  *)
(* the lock is a variable, and a callback that needs it has no step.       *)
(***************************************************************************)
EXTENDS Integers, Sequences, SequencesExt

CONSTANTS
  Callers,         \* the requests that may queue
  NoCaller,        \* the value of head before HandleQueue has taken an entry
  PositionCallers  \* those whose callback reads the caller's position in the
                   \* queue and sends it, as the speedtest handler's does; the
                   \* others pass nil or a callback that leaves the queue alone

ASSUME CallersAssumption ==
  /\ NoCaller \notin Callers
  /\ PositionCallers \subseteq Callers

VARIABLES
  queueEntries,   \* the entries in order of arrival
  queueLock,      \* "free", or "handler" during the clean-up
  queueWakeup,    \* tokens in the channel of capacity 1
  queueShutdown,  \* the channel is closed
  cancelled,      \* cancelled[c]: the CancelFunc of c's queueCtx was called
  ctxDone,        \* ctxDone[c]: the context of c's request is done
  pc,             \* where the goroutine of each caller is
  told,           \* told[c]: the positions offered to c's event channel
  hpc,            \* where HandleQueue is
  head,           \* its local variable head
  pos,            \* the position the callback of head has read
  pending,        \* the entries its clean-up still has to notify
  hctx,           \* the context given to HandleQueue is cancelled
  spc             \* where the signal goroutine of als.Init is

callerVars  == <<cancelled, ctxDone, pc, told>>
queueVars   == <<queueEntries, queueLock, queueWakeup, queueShutdown>>
handlerVars == <<hpc, head, pos, pending>>
signalVars  == <<hctx, spc>>
vars == <<callerVars, queueVars, handlerVars, signalVars>>

-----------------------------------------------------------------------------
(* GetQueuePositionByCtx: 1-based, 0 when c has no entry. *)
QueuePosition(c) ==
  IF \E i \in DOMAIN queueEntries : queueEntries[i] = c
  THEN CHOOSE i \in DOMAIN queueEntries : queueEntries[i] = c
  ELSE 0

(* The deferred removal of WaitQueue: c's own entry, if it is still there. *)
EntriesWithout(c) ==
  IF QueuePosition(c) = 0
  THEN queueEntries
  ELSE RemoveAt(queueEntries, QueuePosition(c))

(* Mutant: drop the first entry without looking whether it is still head.   *)
EntriesAfterAnyHead == IF queueEntries # <<>> THEN Tail(queueEntries) ELSE queueEntries

(* How HandleQueue drops the head: by identity, for c may have left. *)
EntriesAfterHead ==
  IF queueEntries # <<>> /\ queueEntries[1] = head
  THEN Tail(queueEntries)
  ELSE queueEntries

(* The loop of ShutdownQueue over the entries. *)
CancelEntries == [c \in Callers |-> cancelled[c] \/ c \in ToSet(queueEntries)]

InWaitQueue(c) == pc[c] \in {"signal", "parked"}

(* Callers that the queue keeps waiting, and callers it has let go. *)
Joined(c) == pc[c] # "idle"
Waiting == {c \in Callers : Joined(c) /\ ~ctxDone[c] /\ ~cancelled[c] /\ ~queueShutdown}
Active  == {c \in Callers : Joined(c) /\ ~ctxDone[c] /\ (cancelled[c] \/ queueShutdown)}

(* The entry of d is in front of the entry of c in q. *)
InFront(q, d, c) ==
  \E i, j \in DOMAIN q : i < j /\ q[i] = d /\ q[j] = c
Before == {p \in Waiting \X Waiting : InFront(queueEntries, p[1], p[2])}

Init ==
  /\ queueEntries = <<>>
  /\ queueLock = "free"
  /\ queueWakeup = 0
  /\ queueShutdown = FALSE
  /\ cancelled = [c \in Callers |-> FALSE]
  /\ ctxDone = [c \in Callers |-> FALSE]
  /\ pc = [c \in Callers |-> "idle"]
  /\ told = [c \in Callers |-> {}]
  /\ hpc = "check"
  /\ head = NoCaller
  /\ pos = 0
  /\ pending = <<>>
  /\ hctx = FALSE
  /\ spc = "listening"

-----------------------------------------------------------------------------
(* The goroutine of a request. *)

(* WaitQueue appends its entry. *)
Enqueue(c) ==
  /\ pc[c] = "idle"
  /\ queueLock = "free"
  /\ queueEntries' = Append(queueEntries, c)
  /\ pc' = [pc EXCEPT ![c] = "signal"]
  /\ UNCHANGED <<queueLock, queueWakeup, queueShutdown, cancelled, ctxDone, told,
                 handlerVars, signalVars>>

(* Mutant: count the wake-ups instead of keeping one. *)
SignalCounting(c) ==
  /\ pc[c] = "signal"
  /\ queueWakeup' = queueWakeup + 1
  /\ pc' = [pc EXCEPT ![c] = "parked"]
  /\ UNCHANGED <<queueEntries, queueLock, queueShutdown, cancelled, ctxDone, told,
                 handlerVars, signalVars>>

(* The non-blocking send on queueWakeup: dropped when the buffer is full. *)
Signal(c) ==
  /\ pc[c] = "signal"
  /\ queueWakeup' = IF queueWakeup = 0 THEN 1 ELSE queueWakeup
  /\ pc' = [pc EXCEPT ![c] = "parked"]
  /\ UNCHANGED <<queueEntries, queueLock, queueShutdown, cancelled, ctxDone, told,
                 handlerVars, signalVars>>

(* Mutant: the entry is removed without the lock.                           *)
LeaveWithoutLock(c) ==
  /\ pc[c] = "parked"
  /\ cancelled[c] \/ ctxDone[c] \/ queueShutdown
  /\ queueEntries' = EntriesWithout(c)
  /\ cancelled' = [cancelled EXCEPT ![c] = TRUE]
  /\ pc' = [pc EXCEPT ![c] = "starting"]
  /\ UNCHANGED <<queueLock, queueWakeup, queueShutdown, ctxDone, told,
                 handlerVars, signalVars>>

(* The select of WaitQueue on queueCtx, the request's context and           *)
(* queueShutdown, which stay ready once they are, then its deferred         *)
(* functions: remove the entry under the lock, cancel queueCtx.             *)
Leave(c) ==
  /\ pc[c] = "parked"
  /\ cancelled[c] \/ ctxDone[c] \/ queueShutdown
  /\ queueLock = "free"
  /\ queueEntries' = EntriesWithout(c)
  /\ cancelled' = [cancelled EXCEPT ![c] = TRUE]
  /\ pc' = [pc EXCEPT ![c] = "starting"]
  /\ UNCHANGED <<queueLock, queueWakeup, queueShutdown, ctxDone, told,
                 handlerVars, signalVars>>

(* cmd.Start() succeeds: it refuses a context that is already done. *)
StartProcess(c) ==
  /\ pc[c] = "starting"
  /\ ~ctxDone[c]
  /\ pc' = [pc EXCEPT ![c] = "running"]
  /\ UNCHANGED <<queueVars, cancelled, ctxDone, told, handlerVars, signalVars>>

(* The handler returns, and its deferred cancel ends its context: the       *)
(* program could not be started, or it has exited, by itself or killed      *)
(* after the context ended.                                                 *)
Return(c) ==
  /\ pc[c] \in {"starting", "running"}
  /\ ctxDone' = [ctxDone EXCEPT ![c] = TRUE]
  /\ pc' = [pc EXCEPT ![c] = "done"]
  /\ UNCHANGED <<queueVars, cancelled, told, handlerVars, signalVars>>

(* The 60 s timeout, the client's disconnect or the end of its session.     *)
(* (Nothing looks at the context before the entry is appended, so a context *)
(* that ends earlier is one that ends just after Enqueue.)                  *)
ContextEnds(c) ==
  /\ pc[c] # "idle"
  /\ ~ctxDone[c]
  /\ ctxDone' = [ctxDone EXCEPT ![c] = TRUE]
  /\ UNCHANGED <<queueVars, cancelled, pc, told, handlerVars, signalVars>>

-----------------------------------------------------------------------------
(* HandleQueue. *)

(* The double-check of the outer loop. *)
Check ==
  /\ hpc = "check"
  /\ queueLock = "free"
  /\ hpc' = IF queueEntries # <<>> THEN "take" ELSE "select"
  /\ UNCHANGED <<callerVars, queueVars, head, pos, pending, signalVars>>

SelectWakeup ==
  /\ hpc = "select"
  /\ queueWakeup = 1
  /\ queueWakeup' = 0
  /\ hpc' = "take"
  /\ UNCHANGED <<callerVars, queueEntries, queueLock, queueShutdown, head, pos, pending,
                 signalVars>>

(* The two selects that see only that HandleQueue's own context is done. *)
SelectDone ==
  /\ hpc \in {"select", "await"}
  /\ hctx
  /\ hpc' = "close"
  /\ UNCHANGED <<callerVars, queueVars, head, pos, pending, signalVars>>

(* Mutant: serve the newest entry first. *)
TakeLast ==
  /\ hpc = "take"
  /\ queueLock = "free"
  /\ IF queueEntries = <<>>
     THEN hpc' = "check" /\ UNCHANGED head
     ELSE hpc' = "examine" /\ head' = queueEntries[Len(queueEntries)]
  /\ UNCHANGED <<callerVars, queueVars, pos, pending, signalVars>>

Take ==
  /\ hpc = "take"
  /\ queueLock = "free"
  /\ IF queueEntries = <<>>
     THEN hpc' = "check" /\ UNCHANGED head
     ELSE hpc' = "examine" /\ head' = queueEntries[1]
  /\ UNCHANGED <<callerVars, queueVars, pos, pending, signalVars>>

(* Cancellation between two entries ... *)
ExamineContext ==
  /\ hpc = "examine"
  /\ hpc' = IF hctx THEN "close" ELSE "examineHead"
  /\ UNCHANGED <<callerVars, queueVars, head, pos, pending, signalVars>>

(* ... and is the caller of head still there? *)
ExamineHead ==
  /\ hpc = "examineHead"
  /\ hpc' = IF ctxDone[head] THEN "skip" ELSE "notify"
  /\ UNCHANGED <<callerVars, queueVars, head, pos, pending, signalVars>>

Skip ==
  /\ hpc = "skip"
  /\ queueLock = "free"
  /\ queueEntries' = EntriesAfterHead
  /\ hpc' = "take"
  /\ UNCHANGED <<callerVars, queueLock, queueWakeup, queueShutdown, head, pos, pending,
                 signalVars>>

(* Mutant: a 0-based position. *)
NotifyHeadZeroBased ==
  /\ hpc = "notify"
  /\ IF head \in PositionCallers
     THEN /\ queueLock = "free"
          /\ pos' = QueuePosition(head) - 1
          /\ hpc' = "send"
     ELSE /\ hpc' = "release"
          /\ UNCHANGED pos
  /\ UNCHANGED <<callerVars, queueVars, head, pending, signalVars>>

(* head.notify(): a position callback first reads the position under the    *)
(* lock ...                                                                 *)
NotifyHead ==
  /\ hpc = "notify"
  /\ IF head \in PositionCallers
     THEN /\ queueLock = "free"
          /\ pos' = QueuePosition(head)
          /\ hpc' = "send"
     ELSE /\ hpc' = "release"
          /\ UNCHANGED pos
  /\ UNCHANGED <<callerVars, queueVars, head, pending, signalVars>>

(* What told becomes when the callback of c offers p: it is sent unless     *)
(* closed is set, which the request handler does before it returns, and a   *)
(* goroutine of its own some time after the context is done.                *)
Offered(c, p) ==
  {t \in {[told EXCEPT ![c] = @ \cup {p}]} : pc[c] # "done"} \cup {t \in {told} : ctxDone[c]}

(* ... then sends it.                                                       *)
SendPosition ==
  /\ hpc = "send"
  /\ told' \in Offered(head, pos)
  /\ hpc' = "release"
  /\ UNCHANGED <<cancelled, ctxDone, pc, queueVars, head, pos, pending, signalVars>>

(* head.cancel() lets WaitQueue return. *)
Release ==
  /\ hpc = "release"
  /\ cancelled' = [cancelled EXCEPT ![head] = TRUE]
  /\ hpc' = "await"
  /\ UNCHANGED <<ctxDone, pc, told, queueVars, head, pos, pending, signalVars>>

(* Mutant: continue without unlocking when nobody is left to notify. *)
CleanKeepsLock ==
  /\ hpc = "await"
  /\ ctxDone[head]
  /\ queueLock = "free"
  /\ queueLock' = "handler"
  /\ queueEntries' = EntriesAfterHead
  /\ pending' = EntriesAfterHead
  /\ hpc' = IF EntriesAfterHead = <<>> THEN "take" ELSE "renotify"
  /\ UNCHANGED <<callerVars, queueWakeup, queueShutdown, head, pos, signalVars>>

(* Mutant: the callbacks of the entries before the head was dropped.        *)
CleanNotifiesHead ==
  /\ hpc = "await"
  /\ ctxDone[head]
  /\ queueLock = "free"
  /\ queueLock' = "handler"
  /\ queueEntries' = EntriesAfterHead
  /\ pending' = queueEntries
  /\ hpc' = "renotify"
  /\ UNCHANGED <<callerVars, queueWakeup, queueShutdown, head, pos, signalVars>>

(* The task of head has ended, and stays so.  The lock is taken and kept    *)
(* for the notifications that follow.                                       *)
Clean ==
  /\ hpc = "await"
  /\ ctxDone[head]
  /\ queueLock = "free"
  /\ queueLock' = "handler"
  /\ queueEntries' = EntriesAfterHead
  /\ pending' = EntriesAfterHead
  /\ hpc' = "renotify"
  /\ UNCHANGED <<callerVars, queueWakeup, queueShutdown, head, pos, signalVars>>

(* A position callback calls GetQueuePositionByCtx, which waits for the     *)
(* lock: it returns only if that lock is free, and here it never is.        *)
CallbackReturns(c) == c \in PositionCallers => queueLock = "free"

Renotify ==
  /\ hpc = "renotify"
  /\ pending # <<>>
  /\ CallbackReturns(Head(pending))
  /\ told' \in IF Head(pending) \in PositionCallers
               THEN Offered(Head(pending), QueuePosition(Head(pending)))
               ELSE {told}
  /\ pending' = Tail(pending)
  /\ UNCHANGED <<cancelled, ctxDone, pc, queueVars, hpc, head, pos, signalVars>>

(* Mutant: back to the outer select after every entry. *)
UnlockAndSelect ==
  /\ hpc = "renotify"
  /\ pending = <<>>
  /\ queueLock' = "free"
  /\ hpc' = "select"
  /\ UNCHANGED <<callerVars, queueEntries, queueWakeup, queueShutdown, head, pos, pending,
                 signalVars>>

Unlock ==
  /\ hpc = "renotify"
  /\ pending = <<>>
  /\ queueLock' = "free"
  /\ hpc' = "take"
  /\ UNCHANGED <<callerVars, queueEntries, queueWakeup, queueShutdown, head, pos, pending,
                 signalVars>>

(* ShutdownQueue, called when the context is done ... *)
HandlerCloses ==
  /\ hpc = "close"
  /\ queueShutdown' = TRUE
  /\ hpc' = "cancelAll"
  /\ UNCHANGED <<callerVars, queueEntries, queueLock, queueWakeup, head, pos, pending,
                 signalVars>>

(* ... and once more by the defer, when only its loop has an effect. *)
HandlerCancelsAll ==
  /\ hpc \in {"cancelAll", "deferred"}
  /\ queueLock = "free"
  /\ cancelled' = CancelEntries
  /\ hpc' = IF hpc = "cancelAll" THEN "deferred" ELSE "exited"
  /\ UNCHANGED <<ctxDone, pc, told, queueVars, head, pos, pending, signalVars>>

-----------------------------------------------------------------------------
(* The signal goroutine of als.Init. *)

(* SIGINT or SIGTERM: cancel(). *)
SignalArrives ==
  /\ spc = "listening"
  /\ hctx' = TRUE
  /\ spc' = "close"
  /\ UNCHANGED <<callerVars, queueVars, handlerVars>>

SignalCloses ==
  /\ spc = "close"
  /\ queueShutdown' = TRUE
  /\ spc' = "cancelAll"
  /\ UNCHANGED <<callerVars, queueEntries, queueLock, queueWakeup, handlerVars, hctx>>

(* Mutant: the loop does without the lock. *)
SignalCancelsUnlocked ==
  /\ spc = "cancelAll"
  /\ cancelled' = CancelEntries
  /\ spc' = "http"
  /\ UNCHANGED <<ctxDone, pc, told, queueVars, handlerVars, hctx>>

(* The loop of ShutdownQueue; aHttp.Shutdown is called next. *)
SignalCancelsAll ==
  /\ spc = "cancelAll"
  /\ queueLock = "free"
  /\ cancelled' = CancelEntries
  /\ spc' = "http"
  /\ UNCHANGED <<ctxDone, pc, told, queueVars, handlerVars, hctx>>

-----------------------------------------------------------------------------
Caller(c) ==
  \/ Enqueue(c) \/ Signal(c) \/ Leave(c)
  \/ StartProcess(c) \/ Return(c) \/ ContextEnds(c)

Handler ==
  \/ Check \/ SelectWakeup \/ SelectDone \/ Take \/ ExamineContext \/ ExamineHead \/ Skip
  \/ NotifyHead \/ SendPosition \/ Release
  \/ Clean \/ Renotify \/ Unlock \/ HandlerCloses \/ HandlerCancelsAll

SignalGoroutine == SignalArrives \/ SignalCloses \/ SignalCancelsAll

Next == (\E c \in Callers : Caller(c)) \/ Handler \/ SignalGoroutine

Spec == Init /\ [][Next]_vars

(* The Go scheduler runs every goroutine that can run, and a mutex is       *)
(* handed to a waiter that has starved: strong fairness where the lock is   *)
(* taken by a goroutine other than HandleQueue.  A task that has started    *)
(* ends (the timeout kills it), but nothing says that a request arrives,    *)
(* that a signal does, or that a waiting request gives up.                  *)
Fairness ==
  /\ WF_vars(Handler)
  /\ \A c \in Callers :
       /\ WF_vars(Signal(c))
       /\ SF_vars(Leave(c))
       /\ WF_vars(Return(c))
  /\ WF_vars(SignalCloses)
  /\ SF_vars(SignalCancelsAll)

FairSpec == Spec /\ Fairness

-----------------------------------------------------------------------------
(* The type invariant: in particular the wake-up channel never holds more   *)
(* than its one token, whatever the number of callers that signal.          *)
TypeOK ==
  /\ queueEntries \in Seq(Callers)
  /\ queueLock \in {"free", "handler"}
  /\ queueWakeup \in {0, 1}
  /\ queueShutdown \in BOOLEAN
  /\ cancelled \in [Callers -> BOOLEAN]
  /\ ctxDone \in [Callers -> BOOLEAN]
  /\ pc \in [Callers -> {"idle", "signal", "parked", "starting", "running", "done"}]
  /\ told \in [Callers -> SUBSET Nat]
  /\ hpc \in {"check", "select", "take", "examine", "examineHead", "skip", "notify", "send",
              "release", "await", "renotify", "close", "cancelAll", "deferred", "exited"}
  /\ head \in Callers \cup {NoCaller}
  /\ pos \in Nat
  /\ pending \in Seq(Callers)
  /\ hctx \in BOOLEAN
  /\ spc \in {"listening", "close", "cancelAll", "http"}

(* Nobody is dropped from the queue: a caller that is still in WaitQueue    *)
(* and has not been released or given up has its entry in the queue, so     *)
(* HandleQueue or ShutdownQueue can find it.  HandleQueue removes a head it *)
(* took before, which may have removed itself in between.                   *)
NoLostWaiter ==
  \A c \in Callers :
    InWaitQueue(c) /\ ~ctxDone[c] /\ ~cancelled[c] => c \in ToSet(queueEntries)

(* No wake-up is lost: when HandleQueue sits in its outer select while the  *)
(* queue is not empty, a token is in the channel or a caller is about to    *)
(* put one there.                                                           *)
NoLostWakeup ==
  hpc = "select" /\ queueEntries # <<>> =>
    queueWakeup = 1 \/ \E c \in ToSet(queueEntries) : pc[c] = "signal"

(* One live task at a time: until the shutdown at most one caller has been  *)
(* released from the queue while its context is still alive.                *)
(* (ImplementsSlot implies it.)                                             *)
OneLiveTask ==
  ~queueShutdown =>
    \A c, d \in Callers :
      (cancelled[c] /\ ~ctxDone[c] /\ cancelled[d] /\ ~ctxDone[d]) => c = d

(* A released caller has been told that it is first: as long as its context *)
(* is alive a caller is offered no position but 1, and it is not released   *)
(* by HandleQueue without it.  (The position is read and sent without the   *)
(* lock in between, while other entries leave the queue.  After the         *)
(* shutdown a caller whose entry is gone may be offered position 0.)        *)
ReleasedWasToldFirst ==
  ~queueShutdown =>
    \A c \in Callers :
      ~ctxDone[c] =>
        /\ told[c] \subseteq {1}
        /\ c \in PositionCallers /\ cancelled[c] => told[c] = {1}

(* The queue implements the slot: callers are let through one at a time, in *)
(* the order of their arrival, until it is shut down, which lets everybody  *)
(* through.  A caller whose context is done is out of the queue, wherever   *)
(* its goroutine is.                                                        *)
Slot == INSTANCE FifoSlot WITH
  Clients <- Callers, waiting <- Waiting, before <- Before, active <- Active,
  closed <- queueShutdown

ImplementsSlot == Slot!Spec

(* queue.go:228-233: HandleQueue waits, in the callback of an entry that    *)
(* remains, for the lock that it holds itself.                              *)
HandlerIsStuck ==
  hpc = "renotify" /\ pending # <<>> /\ ~CallbackReturns(Head(pending))

(* It gets stuck only when a task has ended while a request with such a     *)
(* callback waits behind it: one request at a time never sees it, and the   *)
(* task that has ended is not the one that blocks.                          *)
StuckOnAnother ==
  HandlerIsStuck =>
    /\ ctxDone[head]
    /\ Head(pending) \in PositionCallers \ {head}
    /\ Head(pending) \in ToSet(queueEntries)
    /\ InWaitQueue(Head(pending))

(* Nothing gets it out again, neither a timeout nor a client that gives up  *)
(* nor a signal: from then on nobody enters WaitQueue, nobody leaves it,    *)
(* and the signal goroutine does not reach the server.                      *)
StuckForGood ==
  [][HandlerIsStuck =>
       /\ HandlerIsStuck'
       /\ \A c \in Callers : InWaitQueue(c) <=> InWaitQueue(c)'
       /\ spc' = "http" => spc = "http"]_vars

(* Every caller gets out of WaitQueue: its turn comes, even if it never     *)
(* gives up waiting, unless HandleQueue gets stuck first.                   *)
WaiterGetsOut == \A c \in Callers : pc[c] = "parked" ~> ~InWaitQueue(c) \/ HandlerIsStuck

(* After a signal the goroutine that shuts the process down gets past the   *)
(* queue and calls aHttp.Shutdown, unless HandleQueue is stuck.             *)
ShutdownReachesServer == spc = "close" ~> spc = "http" \/ HandlerIsStuck

(* als.go:48: "Release callers parked in WaitQueue immediately", whatever   *)
(* HandleQueue is doing: once queueShutdown is closed every caller gets out *)
(* of WaitQueue.                                                            *)
ShutdownReleasesWaiters ==
  \A c \in Callers : (queueShutdown /\ InWaitQueue(c)) ~> ~InWaitQueue(c)

(* What the process sees of the queue, and of the goroutine that shuts it   *)
(* down: see QueueService.                                                  *)
ServiceState ==
  IF HandlerIsStuck THEN "stuck"
  ELSE IF \E c \in Callers : pc[c] \notin {"idle", "done"} THEN "busy"
  ELSE "idle"

Service == INSTANCE QueueService WITH queue <- ServiceState, passed <- spc = "http"

(* The queue is a QueueService: the signal goroutine gets past it only      *)
(* while HandleQueue is not stuck, HandleQueue gets stuck only with         *)
(* requests in the queue, and stays so when the last of them has given up.  *)
ImplementsService == Service!Spec

-----------------------------------------------------------------------------
(* The inductive invariant of SpeedtestQueueProofs, conjunct by conjunct.   *)

Distinct(s) == \A i, j \in DOMAIN s : s[i] = s[j] => i = j

(* Only callers that are in WaitQueue have an entry, and only one.          *)
EntriesWait ==
  /\ Distinct(queueEntries)
  /\ \A c \in ToSet(queueEntries) : InWaitQueue(c)

(* A request that has not reached WaitQueue has no past, one that has left  *)
(* it has cancelled its queueCtx, and one whose handler has returned has no *)
(* context.                                                                 *)
PastOfCallers ==
  \A c \in Callers :
    /\ pc[c] = "idle" => ~ctxDone[c] /\ ~cancelled[c]
    /\ pc[c] \in {"starting", "running", "done"} => cancelled[c]
    /\ pc[c] = "done" => ctxDone[c]

HeadTaken ==
  /\ hpc \in {"examine", "examineHead", "skip", "notify", "send", "release", "await"} =>
       head \in Callers /\ Joined(head)
  /\ hpc = "skip" => ctxDone[head]
  /\ hpc = "send" => head \in PositionCallers

(* ShutdownQueue closes the channel before it loops over the entries. *)
ClosedFirst ==
  hpc \in {"cancelAll", "deferred", "exited"} \/ spc \in {"cancelAll", "http"} => queueShutdown

(* A released caller that is alive is the head that HandleQueue waits for.  *)
ReleasedIsHead ==
  ~queueShutdown =>
    \A c \in Callers :
      cancelled[c] /\ ~ctxDone[c] => c = head /\ hpc \in {"await", "close"}

(* The head stays in front until it is released. *)
HeadIsFirst ==
  (/\ ~queueShutdown
   /\ hpc \in {"examine", "examineHead", "notify", "send", "release"}
   /\ ~ctxDone[head]) =>
    queueEntries # <<>> /\ queueEntries[1] = head

(* What its position callback has read and sent. *)
HeadIsTold ==
  ~queueShutdown =>
    /\ hpc = "send" /\ ~ctxDone[head] => pos = 1
    /\ hpc = "release" /\ ~ctxDone[head] /\ head \in PositionCallers => told[head] = {1}

(* The head leaves from the front, if HandleQueue does not remove it. *)
HeadInFront ==
  (/\ hpc \in {"examine", "examineHead", "skip", "notify", "send", "release", "await"}
   /\ head \in ToSet(queueEntries)) =>
    queueEntries[1] = head

(* Whom the clean-up notifies, and with what in hand. *)
RestIsNotified ==
  hpc = "renotify" =>
    /\ queueLock = "handler"
    /\ head \in Callers
    /\ ctxDone[head]
    /\ head \notin ToSet(queueEntries)
    /\ ToSet(pending) \subseteq ToSet(queueEntries)

Inv ==
  /\ TypeOK
  /\ EntriesWait
  /\ PastOfCallers
  /\ HeadTaken
  /\ ClosedFirst
  /\ NoLostWaiter
  /\ NoLostWakeup
  /\ ReleasedIsHead
  /\ HeadIsFirst
  /\ HeadIsTold
  /\ ReleasedWasToldFirst
  /\ HeadInFront
  /\ RestIsNotified
=============================================================================
