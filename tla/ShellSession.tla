---------------------------- MODULE ShellSession ----------------------------
(***************************************************************************)
(* One shell of als/controller/shell/shell.go: the handler of a websocket  *)
(* request, which starts the fake shell on a pty and waits for it, and its *)
(* three goroutines: one kills the process when the context is done, one   *)
(* copies the pty to the websocket, one the websocket to the pty.  Each of *)
(* the process, the page and the session can go first, at any time.        *)
(*                                                                         *)
(* The contents of messages and of the terminal are left out.  The pty     *)
(* holds one unread output and one unread input, the socket up to          *)
(* MaxMessages that the handler has not read.                              *)
(***************************************************************************)
EXTENDS Naturals

CONSTANT MaxMessages   \* messages of the page under way

VARIABLES
  hpc,         \* where the handler is
  process,     \* the fake shell
  pty,         \* the master side of its terminal
  conn,        \* the server's end of the websocket
  ctxDone,     \* the context of the shell is done
  killer,      \* the goroutine that waits for the context
  reader,      \* the goroutine that copies the pty to the websocket
  writer,      \* the goroutine that copies the websocket to the pty
  sessionOver, \* the context of the session is done
  page,        \* the page's end of the websocket
  inbox,       \* messages of the page that the handler has not read
  output,      \* the pty holds output that nobody has read
  typed        \* the pty holds input that the process has not read

handlerVars == <<hpc, conn>>
goroutineVars == <<killer, reader, writer>>
ptyVars == <<pty, output, typed>>
pageVars == <<page, inbox>>
shellVars == <<handlerVars, process, ptyVars, ctxDone, goroutineVars, sessionOver, pageVars>>

Init ==
  /\ hpc = "upgrade"
  /\ process = "none"
  /\ pty = "none"
  /\ conn = "none"
  /\ ctxDone = FALSE
  /\ killer = "none"
  /\ reader = "none"
  /\ writer = "none"
  /\ sessionOver = FALSE
  /\ page = "connected"
  /\ inbox = 0
  /\ output = FALSE
  /\ typed = FALSE

-----------------------------------------------------------------------------
(* HandleNewShell and handleNewConnection. *)

(* The upgrade hijacks the connection; a bad handshake or origin is refused. *)
Upgrade ==
  /\ hpc = "upgrade"
  /\ \/ hpc' = "start" /\ conn' = "open"
     \/ hpc' = "returned" /\ UNCHANGED conn
  /\ UNCHANGED <<process, ptyVars, ctxDone, goroutineVars, sessionOver, pageVars>>

(* os.Executable or pty.Start fails, as it does when the context is done. *)
StartFails ==
  /\ hpc = "start"
  /\ hpc' = "cancel"
  /\ UNCHANGED <<conn, process, ptyVars, ctxDone, goroutineVars, sessionOver, pageVars>>

(* pty.Start and the three go statements. *)
Start ==
  /\ hpc = "start"
  /\ ~ctxDone
  /\ hpc' = "wait"
  /\ process' = "running"
  /\ pty' = "open"
  /\ killer' = "waiting"
  /\ reader' = "read"
  /\ writer' = "read"
  /\ UNCHANGED <<conn, output, typed, ctxDone, sessionOver, pageVars>>

(* cmd.Wait *)
Wait ==
  /\ hpc = "wait"
  /\ process = "exited"
  /\ hpc' = "closePty"
  /\ UNCHANGED <<conn, process, ptyVars, ctxDone, goroutineVars, sessionOver, pageVars>>

(* Mutant: the master side of the terminal stays open.                      *)
LeavePtyOpen ==
  /\ hpc = "closePty"
  /\ hpc' = "cancel"
  /\ UNCHANGED <<conn, process, ptyVars, ctxDone, goroutineVars, sessionOver, pageVars>>

(* The deferred ptmx.Close. *)
ClosePty ==
  /\ hpc = "closePty"
  /\ pty' = "closed"
  /\ hpc' = "cancel"
  /\ UNCHANGED <<conn, process, output, typed, ctxDone, goroutineVars, sessionOver, pageVars>>

(* The deferred cancel. *)
Cancel ==
  /\ hpc = "cancel"
  /\ ctxDone' = TRUE
  /\ hpc' = "closeConn"
  /\ UNCHANGED <<conn, process, ptyVars, goroutineVars, sessionOver, pageVars>>

(* Mutant: the connection is left to its peer.                              *)
ReturnWithoutClose ==
  /\ hpc = "closeConn"
  /\ hpc' = "returned"
  /\ UNCHANGED <<conn, process, ptyVars, ctxDone, goroutineVars, sessionOver, pageVars>>

(* The deferred conn.Close of HandleNewShell, which wakes whoever reads     *)
(* from the connection or is blocked in a write to it.                      *)
CloseConn ==
  /\ hpc = "closeConn"
  /\ conn' = "closed"
  /\ hpc' = "returned"
  /\ UNCHANGED <<process, ptyVars, ctxDone, goroutineVars, sessionOver, pageVars>>

Handler == Upgrade \/ StartFails \/ Start \/ Wait \/ ClosePty \/ Cancel \/ CloseConn

-----------------------------------------------------------------------------
(* The context. *)

(* The watcher of GetContext: the session has ended.  (The context of the   *)
(* request, which is hijacked, ends only when the handler returns.)         *)
WatcherCancels ==
  /\ sessionOver
  /\ hpc \notin {"upgrade", "returned"}
  /\ ~ctxDone
  /\ ctxDone' = TRUE
  /\ UNCHANGED <<handlerVars, process, ptyVars, goroutineVars, sessionOver, pageVars>>

(* exec.CommandContext kills the process on its own.                        *)
ContextKills ==
  /\ ctxDone
  /\ process = "running"
  /\ process' = "exited"
  /\ UNCHANGED <<handlerVars, ptyVars, ctxDone, goroutineVars, sessionOver, pageVars>>

(* The first goroutine kills it as well.                                    *)
KillerKills ==
  /\ killer = "waiting"
  /\ ctxDone
  /\ killer' = "exited"
  /\ process' = "exited"
  /\ UNCHANGED <<handlerVars, ptyVars, ctxDone, reader, writer, sessionOver, pageVars>>

-----------------------------------------------------------------------------
(* The goroutine pty -> websocket. *)

ReadOutput ==
  /\ reader = "read"
  /\ pty = "open"
  /\ output
  /\ output' = FALSE
  /\ reader' = "write"
  /\ UNCHANGED <<handlerVars, process, pty, typed, ctxDone, killer, writer, sessionOver, pageVars>>

(* WriteMessage has no deadline: it returns when the page reads. *)
WriteMessage ==
  /\ reader = "write"
  /\ conn = "open"
  /\ reader' = "read"
  /\ UNCHANGED <<handlerVars, process, ptyVars, ctxDone, killer, writer, sessionOver, pageVars>>

(* Read fails on a closed pty and, once the output is read, on one whose    *)
(* process has gone; WriteMessage when either end of the socket has.  The   *)
(* deferred cancel.                                                         *)
ReaderExits ==
  /\ \/ reader = "read" /\ (pty = "closed" \/ (process = "exited" /\ ~output))
     \/ reader = "write" /\ (conn = "closed" \/ page = "gone")
  /\ reader' = "exited"
  /\ ctxDone' = TRUE
  /\ UNCHANGED <<handlerVars, process, ptyVars, killer, writer, sessionOver, pageVars>>

-----------------------------------------------------------------------------
(* The goroutine websocket -> pty. *)

(* "1" is input; "2" is a new size, which is set or, when it is malformed,  *)
(* ignored, as any other message is.                                        *)
ReadMessage ==
  /\ writer = "read"
  /\ inbox > 0
  /\ inbox' = inbox - 1
  /\ writer' \in {"input", "read"}
  /\ UNCHANGED <<handlerVars, process, ptyVars, ctxDone, killer, reader, sessionOver, page>>

(* ptmx.Write blocks while the process does not read its input. *)
WriteInput ==
  /\ writer = "input"
  /\ pty = "open"
  /\ ~typed
  /\ typed' = TRUE
  /\ writer' = "read"
  /\ UNCHANGED <<handlerVars, process, pty, output, ctxDone, killer, reader, sessionOver, pageVars>>

(* Mutant: only the read loop ends, not the shell.                          *)
WriterExitsAlone ==
  /\ \/ writer = "read" /\ (conn = "closed" \/ (page = "gone" /\ inbox = 0))
     \/ writer = "input" /\ pty = "closed"
  /\ writer' = "exited"
  /\ UNCHANGED <<handlerVars, process, ptyVars, ctxDone, killer, reader, sessionOver, pageVars>>

(* ReadMessage fails when the connection is closed or the page has gone,    *)
(* ptmx.Write on a closed pty, and Setsize with it.  The deferred cancel.   *)
WriterExits ==
  /\ \/ writer = "read" /\ (conn = "closed" \/ (page = "gone" /\ inbox = 0))
     \/ writer = "read" /\ inbox > 0 /\ pty = "closed"
     \/ writer = "input" /\ pty = "closed"
  /\ writer' = "exited"
  /\ ctxDone' = TRUE
  /\ UNCHANGED <<handlerVars, process, ptyVars, killer, reader, sessionOver, pageVars>>

-----------------------------------------------------------------------------
(* The environment: the fake shell, the page, the session. *)

ProcessWrites ==
  /\ process = "running"
  /\ ~output
  /\ output' = TRUE
  /\ UNCHANGED <<handlerVars, process, pty, typed, ctxDone, goroutineVars, sessionOver, pageVars>>

ProcessReads ==
  /\ process = "running"
  /\ typed
  /\ typed' = FALSE
  /\ UNCHANGED <<handlerVars, process, pty, output, ctxDone, goroutineVars, sessionOver, pageVars>>

(* "exit", Ctrl-D, or a crash. *)
ProcessExits ==
  /\ process = "running"
  /\ process' = "exited"
  /\ UNCHANGED <<handlerVars, ptyVars, ctxDone, goroutineVars, sessionOver, pageVars>>

PageSends ==
  /\ page = "connected"
  /\ conn = "open"
  /\ inbox < MaxMessages
  /\ inbox' = inbox + 1
  /\ UNCHANGED <<handlerVars, process, ptyVars, ctxDone, goroutineVars, sessionOver, page>>

PageLeaves ==
  /\ page = "connected"
  /\ page' = "gone"
  /\ UNCHANGED <<handlerVars, process, ptyVars, ctxDone, goroutineVars, sessionOver, inbox>>

SessionEnds ==
  /\ ~sessionOver
  /\ sessionOver' = TRUE
  /\ UNCHANGED <<handlerVars, process, ptyVars, ctxDone, goroutineVars, pageVars>>

Environment ==
  ProcessWrites \/ ProcessReads \/ ProcessExits \/ PageSends \/ PageLeaves \/ SessionEnds

Next ==
  \/ Handler
  \/ WatcherCancels \/ ContextKills \/ KillerKills
  \/ ReadOutput \/ WriteMessage \/ ReaderExits
  \/ ReadMessage \/ WriteInput \/ WriterExits
  \/ Environment

Spec == Init /\ [][Next]_shellVars

(* Goroutines that can run do.  Nothing is assumed of the page, which may   *)
(* neither read nor leave, and of the process, which may neither read nor   *)
(* write nor exit.                                                          *)
Fairness ==
  /\ WF_shellVars(Handler)
  /\ WF_shellVars(WatcherCancels)
  /\ WF_shellVars(ContextKills \/ KillerKills)
  /\ WF_shellVars(ReadOutput \/ ReaderExits)
  /\ WF_shellVars(ReadMessage \/ WriterExits)

-----------------------------------------------------------------------------
Flags ==
  /\ ctxDone \in BOOLEAN
  /\ sessionOver \in BOOLEAN
  /\ output \in BOOLEAN
  /\ typed \in BOOLEAN

(* The type invariant; the goroutines exist once the process was started.   *)
TypeOK ==
  /\ hpc \in {"upgrade", "start", "wait", "closePty", "cancel", "closeConn", "returned"}
  /\ process \in {"none", "running", "exited"}
  /\ pty \in {"none", "open", "closed"}
  /\ conn \in {"none", "open", "closed"}
  /\ killer \in {"none", "waiting", "exited"}
  /\ reader \in {"none", "read", "write", "exited"}
  /\ writer \in {"none", "read", "input", "exited"}
  /\ page \in {"connected", "gone"}
  /\ inbox \in 0..MaxMessages
  /\ Flags

(* shell.go:56-79: whatever ended the shell and wherever it was, a handler  *)
(* that has returned leaves no process, no open pty, no open connection and *)
(* no goroutine that still waits for a context nobody will cancel.          *)
HandlerLeavesNothing ==
  hpc = "returned" =>
    /\ process # "running"
    /\ pty # "open"
    /\ conn # "open"
    /\ killer = "waiting" => ctxDone

(* Everything is torn down. *)
TornDown ==
  /\ hpc = "returned"
  /\ {killer, reader, writer} \subseteq {"none", "exited"}

(* Something has ended that the code gets to see: the process, the context  *)
(* of the session, or the page while a read from it is pending.  (While the *)
(* goroutine is blocked in a write to a pty that is never read, nobody      *)
(* reads from the page.)                                                    *)
SomethingEnded ==
  \/ process = "exited"
  \/ sessionOver
  \/ page = "gone" /\ writer = "read" /\ inbox = 0

(* A goroutine of the server has something to do that waits for nobody: not *)
(* for the page, not for the process and not for each other.                *)
SomebodyCanGoOn ==
  \/ hpc \in {"start", "closePty", "cancel", "closeConn"}
  \/ hpc = "wait" /\ process = "exited"
  \/ sessionOver /\ hpc \notin {"upgrade", "returned"} /\ ~ctxDone
  \/ ctxDone /\ (process = "running" \/ killer = "waiting")
  \/ reader = "read" /\ (pty = "closed" \/ (pty = "open" /\ output))
  \/ reader = "read" /\ process = "exited" /\ ~output
  \/ reader = "write" /\ (conn = "closed" \/ page = "gone")
  \/ writer = "read" /\ (inbox > 0 \/ conn = "closed" \/ page = "gone")
  \/ writer = "input" /\ pty = "closed"

(* shell.go:56-145: the tear-down never gets stuck halfway.  However far it *)
(* has come, and whoever is blocked in a write to a page or a process that  *)
(* does not read, a goroutine is left that can take the next step.          *)
TearDownGoesOn ==
  SomethingEnded /\ hpc # "upgrade" /\ ~TornDown => SomebodyCanGoOn

-----------------------------------------------------------------------------
(* The inductive invariant of ServerProcessProofs: what the handler has     *)
(* built up when it is at each of its places, and what it has torn down.    *)
Inv ==
  /\ TypeOK
  /\ hpc \in {"upgrade", "start"} => process = "none" /\ pty = "none" /\ killer = "none"
  /\ hpc = "upgrade" => conn = "none" /\ reader = "none" /\ writer = "none"
  /\ hpc \in {"start", "wait", "closePty", "cancel", "closeConn"} => conn = "open"
  /\ hpc = "wait" => process # "none"
  /\ hpc \in {"closePty", "cancel", "closeConn", "returned"} => process # "running"
  /\ hpc \in {"cancel", "closeConn", "returned"} => pty # "open"
  /\ hpc \in {"closeConn", "returned"} /\ killer = "waiting" => ctxDone
  /\ hpc = "returned" => conn # "open"
  /\ reader # "none" \/ writer # "none" => pty # "none" /\ conn # "none"
=============================================================================
