--------------------------- MODULE ServerProcess ---------------------------
(***************************************************************************)
(* The life of the server process: main.go, als.Init with the goroutine    *)
(* that waits for a signal (als/als.go), the HTTP server (http/init.go)    *)
(* and the routes (als/route.go), composed with what runs inside it: the   *)
(* configuration and its look-ups, a speedtest stream, a shell, the queue  *)
(* of speedtest.net.                                                       *)
(*                                                                         *)
(* The last four share nothing but the process, so a behaviour has one     *)
(* kind of visitor with one purpose, its workload; a visitor that is no    *)
(* page meets an environment that leaves nothing to look up.  Of the queue *)
(* this module knows what SpeedtestQueue is shown to implement: it may get *)
(* stuck while requests are in it, and then ShutdownQueue, which the       *)
(* signal goroutine calls before it shuts the server down, never returns.  *)
(***************************************************************************)
EXTENDS Integers

CONSTANTS
  MaxMessages,
  Kilo, MaxInt, Numbers, SpeedtestFileList, DefaultChunks, MaxChunks, CkSizes,
  FeatureChoices,
  Workloads           \* a subset of {"page", "stream", "shell", "speedtest"}

ASSUME ProcessAssumption ==
  /\ MaxMessages \in Nat
  /\ Kilo \in Nat \ {0}
  /\ MaxInt \in Nat \ {0}
  /\ Numbers \subseteq Nat
  /\ MaxChunks \in Nat \ {0}
  /\ DefaultChunks \in 1..MaxChunks
  /\ CkSizes \subseteq Int

VARIABLES
  main,       \* where the main goroutine is
  sg,         \* where the goroutine that waits for a signal is
  signalled,  \* a signal is in the channel quit, or was received from it
  httpServer, \* e.httpServer is assigned
  inShutdown, \* srv.Shutdown was called: the listener is closed
  routes,     \* the features that have a route
  workload,   \* what the visitor is up to
  queue       \* the speedtest queue, see QueueService

processVars == <<main, sg, signalled, httpServer, inShutdown, routes, workload, queue>>

VARIABLES environment, features, Config, upc, lookup, storing, page, reading, shown

publicVars == <<environment, features, Config, upc, lookup, storing, page, reading, shown>>

Public == INSTANCE PublicConfig

VARIABLES spc, name, length, left, chunks, sent

streamVars == <<spc, name, length, left, chunks, sent>>

Streams == INSTANCE SpeedtestStreams

VARIABLES hpc, process, pty, conn, ctxDone, killer, reader, writer, sessionOver, visitor,
          inbox, output, typed

shellVars == <<hpc, process, pty, conn, ctxDone, killer, reader, writer, sessionOver, visitor,
               inbox, output, typed>>

Shell == INSTANCE ShellSession WITH page <- visitor

(* The signal goroutine has come past ShutdownQueue.                        *)
Passed == sg \in {"shutdown", "drain", "done", "timedOut"}

Queue == INSTANCE QueueService WITH passed <- Passed

(* What runs inside the process. *)
partVars == <<workload, queue, publicVars, streamVars, shellVars>>

vars == <<processVars, publicVars, streamVars, shellVars>>

-----------------------------------------------------------------------------
Init ==
  /\ main = "load"
  /\ sg = "none"
  /\ signalled = FALSE
  /\ httpServer = FALSE
  /\ inShutdown = FALSE
  /\ routes = {}
  /\ workload \in Workloads
  /\ Public!Init
  /\ workload # "page" => \A f \in Public!Fields : environment[f] = Public!Configured
  /\ Streams!Init
  /\ Shell!Init
  /\ Queue!Init

Alive == main # "ended"

-----------------------------------------------------------------------------
(* The main goroutine. *)

Load ==
  /\ main = "load"
  /\ Public!LoadWebConfig
  /\ main' = "init"
  /\ UNCHANGED <<sg, signalled, httpServer, inShutdown, routes, workload, queue, streamVars,
                 shellVars>>

(* als.Init up to aHttp.Start: the routes and the go statements. *)
SetupServer ==
  /\ main = "init"
  /\ routes' = features
  /\ sg' = "notify"
  /\ main' = "start"
  /\ UNCHANGED <<signalled, httpServer, inShutdown, partVars>>

(* The critical section of Server.Start. *)
AssignServer ==
  /\ main = "start"
  /\ httpServer' = TRUE
  /\ main' = "listen"
  /\ UNCHANGED <<sg, signalled, inShutdown, routes, partVars>>

(* ListenAndServe of a server that is not shut down. *)
Listen ==
  /\ main = "listen"
  /\ ~inShutdown
  /\ main' = "serving"
  /\ UNCHANGED <<sg, signalled, httpServer, inShutdown, routes, partVars>>

(* It returns: the address is taken, or ErrServerClosed as soon as Shutdown *)
(* is called.  Init returns, main returns, the process ends.                *)
ServeReturns ==
  /\ \/ main = "listen"
     \/ main = "serving" /\ inShutdown
  /\ main' = "ended"
  /\ UNCHANGED <<sg, signalled, httpServer, inShutdown, routes, partVars>>

Main == Load \/ SetupServer \/ AssignServer \/ Listen \/ ServeReturns

-----------------------------------------------------------------------------
(* The signal goroutine. *)

Notify ==
  /\ Alive
  /\ sg = "notify"
  /\ sg' = "wait"
  /\ UNCHANGED <<main, signalled, httpServer, inShutdown, routes, partVars>>

(* SIGINT or SIGTERM: before signal.Notify it ends the process; later ones  *)
(* stay in the channel.                                                     *)
SignalArrives ==
  /\ Alive
  /\ ~signalled
  /\ IF sg \in {"none", "notify"}
     THEN main' = "ended" /\ UNCHANGED signalled
     ELSE signalled' = TRUE /\ UNCHANGED main
  /\ UNCHANGED <<sg, httpServer, inShutdown, routes, partVars>>

(* cancel() *)
CancelContext ==
  /\ Alive
  /\ sg = "wait"
  /\ signalled
  /\ sg' = "queue"
  /\ UNCHANGED <<main, signalled, httpServer, inShutdown, routes, partVars>>

(* ShutdownQueue returns: it locks queueLock, which a HandleQueue that is   *)
(* stuck never gives back.                                                  *)
ShutdownQueue ==
  /\ Alive
  /\ sg = "queue"
  /\ sg' = "shutdown"
  /\ Queue!Pass
  /\ UNCHANGED <<main, signalled, httpServer, inShutdown, routes, workload, publicVars, streamVars,
                 shellVars>>

(* Mutant: Shutdown waits for the server to be idle before it closes.       *)
ShutdownWhenIdle ==
  /\ Alive
  /\ sg = "shutdown"
  /\ spc \notin {"file", "download", "upload"} /\ page = "away"
  /\ inShutdown' = httpServer
  /\ sg' = IF httpServer THEN "drain" ELSE "done"
  /\ UNCHANGED <<main, signalled, httpServer, routes, partVars>>

(* Server.Shutdown: nothing when Start has not assigned the server yet,     *)
(* else srv.Shutdown closes the listener.                                   *)
Shutdown ==
  /\ Alive
  /\ sg = "shutdown"
  /\ inShutdown' = httpServer
  /\ sg' = IF httpServer THEN "drain" ELSE "done"
  /\ UNCHANGED <<main, signalled, httpServer, routes, partVars>>

(* A request that net/http tracks: not a shell, whose connection is         *)
(* hijacked.                                                                *)
OpenRequest == spc \in {"file", "download", "upload"} \/ page # "away" \/ queue # "idle"

(* srv.Shutdown returns when nothing is open, or after the 30 seconds. *)
Drain ==
  /\ Alive
  /\ sg = "drain"
  /\ \/ ~OpenRequest /\ sg' = "done"
     \/ sg' = "timedOut"
  /\ UNCHANGED <<main, signalled, httpServer, inShutdown, routes, partVars>>

SignalGoroutine == Notify \/ CancelContext \/ ShutdownQueue \/ Shutdown \/ Drain

-----------------------------------------------------------------------------
(* What runs inside the process. *)

(* A request is served when the listener is open and its route exists. *)
Accepts(route) ==
  /\ main = "serving"
  /\ ~inShutdown
  /\ route \in routes \cup {"session"}

InPublic(A) == Alive /\ A /\ UNCHANGED <<processVars, streamVars, shellVars>>
InStreams(A) ==
  Alive /\ workload = "stream" /\ A /\ UNCHANGED <<processVars, publicVars, shellVars>>
InShell(A) ==
  Alive /\ workload = "shell" /\ A /\ UNCHANGED <<processVars, publicVars, streamVars>>

LookupStep == InPublic(Public!Lookups)

PageStep == workload = "page" /\ InPublic(Public!Page /\ (page = "away" => Accepts("session")))

StreamArrives ==
  \/ Accepts("filespeedtest") /\ InStreams(\E f \in Streams!Names \cup {Streams!OtherString} :
                                             Streams!RequestFile(f))
  \/ Accepts("librespeed") /\ InStreams(\/ \E ck \in CkSizes \cup {0} : Streams!RequestDownload(ck)
                                        \/ Streams!RequestUpload)

StreamStep == InStreams(Streams!Stream)

ShellStep == InShell(Shell!Next /\ (hpc = "upgrade" => Accepts("shell")))

(* A request counts from its arrival, until its handler has returned. *)
QueueStep ==
  /\ Alive
  /\ workload = "speedtest"
  /\ UNCHANGED <<main, sg, signalled, httpServer, inShutdown, routes, workload, publicVars,
                 streamVars, shellVars>>
  /\ \/ Accepts("speedtestdotnet") /\ Queue!Enter
     \/ Queue!Finish
     \/ Queue!Block

Next ==
  \/ Main \/ SignalArrives \/ SignalGoroutine
  \/ LookupStep \/ PageStep
  \/ StreamArrives \/ StreamStep
  \/ ShellStep \/ QueueStep

Spec == Init /\ [][Next]_vars

(* Goroutines that can run do; look-ups have timeouts; the page reconnects  *)
(* a second after it lost its stream, and httpWriteTimeout ends each        *)
(* stream; a mutex is handed to a waiter that has starved, so ShutdownQueue *)
(* returns unless the queue is stuck.  Nothing is assumed about signals,    *)
(* visitors, the process of a shell, and what they write or read.           *)
Fairness ==
  /\ WF_vars(Main)
  /\ WF_vars(SignalGoroutine)
  /\ WF_vars(InPublic(Public!UpdatePublicIP \/ Public!UpdateLocation \/ Public!StoreLocation))
  /\ \A f \in {"ipv4", "ipv6"} :
       WF_vars(InPublic(Public!LookupFinds(f) \/ Public!LookupFails(f) \/ Public!StoreAddress(f)))
  /\ WF_vars(PageStep)
  /\ WF_vars(InShell(Shell!Upgrade) /\ Accepts("shell"))
  /\ WF_vars(InShell(Shell!StartFails \/ Shell!Start \/ Shell!Wait \/ Shell!ClosePty
                     \/ Shell!Cancel \/ Shell!CloseConn))
  /\ WF_vars(InShell(Shell!WatcherCancels))
  /\ WF_vars(InShell(Shell!ContextKills \/ Shell!KillerKills))
  /\ WF_vars(InShell(Shell!ReadOutput \/ Shell!ReaderExits))
  /\ WF_vars(InShell(Shell!ReadMessage \/ Shell!WriterExits))

FairSpec == Spec /\ Fairness

-----------------------------------------------------------------------------
Flags ==
  /\ signalled \in BOOLEAN
  /\ httpServer \in BOOLEAN
  /\ inShutdown \in BOOLEAN

(* The type invariant of the process and its parts.                         *)
TypeOK ==
  /\ main \in {"load", "init", "start", "listen", "serving", "ended"}
  /\ sg \in {"none", "notify", "wait", "queue", "shutdown", "drain", "done", "timedOut"}
  /\ Flags
  /\ routes \subseteq features
  /\ Public!TypeOK
  /\ Streams!TypeOK
  /\ Shell!TypeOK
  /\ queue \in {"idle", "busy", "stuck"}

(* See SpeedtestStreams, PublicConfig and ShellSession.                     *)
LengthIsHonest == Streams!LengthIsHonest
DownloadIsBounded == Streams!DownloadIsBounded
ConfiguredIsKept == Public!ConfiguredIsKept
HandlerLeavesNothing == Shell!HandlerLeavesNothing
TearDownGoesOn == Shell!TearDownGoesOn

(* shell.go:83-145: whichever of the process, the session and the page ends *)
(* first, the process is killed, the handler returns and the goroutines     *)
(* exit, even while one of them is blocked in a write.                      *)
AnyEndTearsDown == Alive /\ Shell!SomethingEnded /\ hpc # "upgrade" ~> Shell!TornDown \/ ~Alive

(* init.go:86, session.go:142: no step tells a page of an address that was  *)
(* looked up after it connected; that it shows them in the end is due to    *)
(* httpWriteTimeout.  Unless the process ends, or never accepts a page.     *)
PageCatchesUp == <>[](shown = Config \/ main # "serving" \/ workload # "page")

(* als.go:44-59: a signal that is not fatal by itself ends the process,     *)
(* whatever requests are open and whichever of them wait or have waited for *)
(* their turn, with two exceptions: ShutdownQueue never returns when        *)
(* HandleQueue is stuck, before it is called or meanwhile, and Shutdown     *)
(* finds nothing to shut down when Start has not assigned the server yet.   *)
SignalEndsProcess ==
  signalled ~> \/ ~Alive
               \/ sg = "queue" /\ queue = "stuck"
               \/ sg = "done" /\ ~inShutdown

(* docs/backend.md:162 calls what als.go:44-59 does a graceful shutdown     *)
(* with aHttp.Shutdown(30s), and docs/backend.md:721 says that Shutdown     *)
(* closes gracefully by the given context: a request that is open when the  *)
(* server is shut down is served to its end unless the 30 seconds pass.     *)
ShutdownIsGraceful == ~Alive /\ inShutdown /\ sg # "timedOut" => ~OpenRequest
=============================================================================
