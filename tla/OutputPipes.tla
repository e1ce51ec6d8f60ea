---------------------------- MODULE OutputPipes ----------------------------
(***************************************************************************)
(* The output of a program on its way to the page: the request handlers    *)
(* that run iperf3 (als/controller/iperf3/iperf3.go) and the speedtest     *)
(* client (als/controller/speedtest/speedtest_cli.go), the two goroutines  *)
(* of PipeToChannel (als/client/safe_send.go) that copy its pipes to the   *)
(* channel of the session, and the SSE handler that empties the channel.   *)
(*                                                                         *)
(* A chunk is what one Read returns; the chunks of a pipe are numbered in  *)
(* the order in which the program writes them.                             *)
(***************************************************************************)
EXTENDS Integers, Sequences

CONSTANTS
  Pipes,        \* stdout and stderr
  PipeSize,     \* chunks that an operating system pipe holds
  ChannelSize,  \* messages that the channel of the session holds; 64
  MaxChunks     \* bound: what the program writes to one pipe

ASSUME OutputAssumption ==
  /\ PipeSize \in Nat \ {0}
  /\ ChannelSize \in Nat \ {0}
  /\ MaxChunks \in Nat
  /\ "none" \notin Pipes

VARIABLES
  extraCheck,   \* speedtest.net stops copying once closed is set, iperf3 does not
  hpc,          \* where the request handler is
  process,      \* the program
  written,      \* written[p]: the chunks it has written to p
  taken,        \* taken[p]: the chunks that were read from p
  pipesClosed,  \* cmd.Wait has closed the read ends
  copier,       \* copier[p]: where the goroutine that copies p is
  closed,       \* the flag of the speedtest handler
  ctxDone,      \* the context of the handler is done
  channel,      \* the channel of the session
  streaming,    \* the SSE handler is in its loop
  shown         \* shown[p]: the chunks of p that the page was sent, in order

programVars == <<process, written>>
copierVars  == <<taken, copier>>
handlerVars == <<extraCheck, hpc, pipesClosed, closed, ctxDone>>
sessionVars == <<channel, streaming, shown>>
vars == <<programVars, copierVars, handlerVars, sessionVars>>

Chunk(p, n) == [pipe |-> p, number |-> n]
Other == [pipe |-> "none", number |-> 0]  \* a message of another producer
Messages == [pipe : Pipes, number : Nat] \cup {Other}

-----------------------------------------------------------------------------
Init ==
  /\ extraCheck \in BOOLEAN
  /\ hpc = "announce"
  /\ process = "none"
  /\ written = [p \in Pipes |-> 0]
  /\ taken = [p \in Pipes |-> 0]
  /\ pipesClosed = FALSE
  /\ copier = [p \in Pipes |-> "none"]
  /\ closed = FALSE
  /\ ctxDone = FALSE
  /\ channel = <<>>
  /\ streaming = TRUE
  /\ shown = [p \in Pipes |-> <<>>]

(* SafeChannelSend: append, or report that the channel is full. *)
HasRoom == Len(channel) < ChannelSize

(* Mutant: a channel without a limit. *)
OfferAnyway(m) == channel' = Append(channel, m)

Offer(m) == channel' = IF HasRoom THEN Append(channel, m) ELSE channel

-----------------------------------------------------------------------------
(* The request handler. *)

(* iperf3 tells the page its port, speedtest.net the position in the queue. *)
Announce ==
  /\ hpc = "announce"
  /\ Offer(Other)
  /\ hpc' = "start"
  /\ UNCHANGED <<programVars, copierVars, extraCheck, pipesClosed, closed, ctxDone,
                 streaming, shown>>

(* The context is done, or the program cannot be started. *)
StartFails ==
  /\ hpc = "start"
  /\ hpc' = "respond"
  /\ UNCHANGED <<programVars, copierVars, extraCheck, pipesClosed, closed, ctxDone, sessionVars>>

(* cmd.Start and the two go statements. *)
Start ==
  /\ hpc = "start"
  /\ ~ctxDone
  /\ process' = "running"
  /\ copier' = [p \in Pipes |-> "read"]
  /\ hpc' = "wait"
  /\ UNCHANGED <<written, taken, extraCheck, pipesClosed, closed, ctxDone, sessionVars>>

(* Mutant: the handler does not wait for a program that is being killed.    *)
WaitOrContextEnds ==
  /\ hpc = "wait"
  /\ process = "exited" \/ ctxDone
  /\ pipesClosed' = (process = "exited")
  /\ hpc' = "respond"
  /\ UNCHANGED <<programVars, copierVars, extraCheck, closed, ctxDone, sessionVars>>

(* cmd.Wait returns when the program has exited, whatever is left in the    *)
(* pipes, and closes them.                                                  *)
Wait ==
  /\ hpc = "wait"
  /\ process = "exited"
  /\ pipesClosed' = TRUE
  /\ hpc' = "respond"
  /\ UNCHANGED <<programVars, copierVars, extraCheck, closed, ctxDone, sessionVars>>

(* The response, then the deferred functions. *)
Return ==
  /\ hpc = "respond"
  /\ hpc' = "returned"
  /\ closed' = extraCheck
  /\ ctxDone' = TRUE
  /\ UNCHANGED <<programVars, copierVars, extraCheck, pipesClosed, sessionVars>>

(* 60 s have passed, the request was cancelled, or the session has ended. *)
ContextEnds ==
  /\ ~ctxDone
  /\ ctxDone' = TRUE
  /\ UNCHANGED <<programVars, copierVars, extraCheck, hpc, pipesClosed, closed, sessionVars>>

(* The goroutine of the speedtest handler that waits for the context. *)
SetClosed ==
  /\ extraCheck
  /\ ctxDone
  /\ ~closed
  /\ closed' = TRUE
  /\ UNCHANGED <<programVars, copierVars, extraCheck, hpc, pipesClosed, ctxDone, sessionVars>>

-----------------------------------------------------------------------------
(* The program.  It blocks while the pipe is full. *)

Write(p) ==
  /\ process = "running"
  /\ written[p] < MaxChunks
  /\ written[p] - taken[p] < PipeSize
  /\ written' = [written EXCEPT ![p] = @ + 1]
  /\ UNCHANGED <<process, copierVars, handlerVars, sessionVars>>

Exit ==
  /\ process = "running"
  /\ process' = "exited"
  /\ UNCHANGED <<written, copierVars, handlerVars, sessionVars>>

(* Mutant: exec.Command, and a program that is only asked to stop when its  *)
(* output is read.                                                          *)
InterruptAtWrite ==
  /\ process = "running"
  /\ ctxDone
  /\ \A p \in Pipes : written[p] - taken[p] < PipeSize
  /\ process' = "exited"
  /\ UNCHANGED <<written, copierVars, handlerVars, sessionVars>>

(* exec.CommandContext kills the program when the context is done. *)
Kill ==
  /\ process = "running"
  /\ ctxDone
  /\ process' = "exited"
  /\ UNCHANGED <<written, copierVars, handlerVars, sessionVars>>

-----------------------------------------------------------------------------
(* PipeToChannel. *)

Read(p) ==
  /\ copier[p] = "read"
  /\ ~pipesClosed
  /\ taken[p] < written[p]
  /\ taken' = [taken EXCEPT ![p] = @ + 1]
  /\ copier' = [copier EXCEPT ![p] = "check"]
  /\ UNCHANGED <<programVars, handlerVars, sessionVars>>

(* The end of the pipe, or a pipe that was closed under the reader. *)
ReadFails(p) ==
  /\ copier[p] = "read"
  /\ pipesClosed \/ (process = "exited" /\ taken[p] = written[p])
  /\ copier' = [copier EXCEPT ![p] = "returned"]
  /\ UNCHANGED <<programVars, taken, handlerVars, sessionVars>>

(* extraCheck *)
Check(p) ==
  /\ copier[p] = "check"
  /\ copier' = [copier EXCEPT ![p] = IF extraCheck /\ closed THEN "returned" ELSE "send"]
  /\ UNCHANGED <<programVars, taken, handlerVars, sessionVars>>

(* Mutant: drop the chunk that the channel refuses and go on.               *)
SendOrDrop(p) ==
  /\ copier[p] = "send"
  /\ Offer(Chunk(p, taken[p]))
  /\ copier' = [copier EXCEPT ![p] = "read"]
  /\ UNCHANGED <<programVars, taken, handlerVars, streaming, shown>>

(* Mutant: a blocking send.                                                 *)
SendBlocking(p) ==
  /\ copier[p] = "send"
  /\ HasRoom
  /\ Offer(Chunk(p, taken[p]))
  /\ copier' = [copier EXCEPT ![p] = "read"]
  /\ UNCHANGED <<programVars, taken, handlerVars, streaming, shown>>

(* The first refused message ends the copy. *)
Send(p) ==
  /\ copier[p] = "send"
  /\ Offer(Chunk(p, taken[p]))
  /\ copier' = [copier EXCEPT ![p] = IF HasRoom THEN "read" ELSE "returned"]
  /\ UNCHANGED <<programVars, taken, handlerVars, streaming, shown>>

-----------------------------------------------------------------------------
(* The session: its other producers, and its SSE handler. *)

OtherMessage ==
  /\ HasRoom
  /\ Offer(Other)
  /\ UNCHANGED <<programVars, copierVars, handlerVars, streaming, shown>>

Forward ==
  /\ streaming
  /\ channel # <<>>
  /\ channel' = Tail(channel)
  /\ shown' = [p \in Pipes |->
       IF Head(channel).pipe = p THEN Append(shown[p], Head(channel).number) ELSE shown[p]]
  /\ UNCHANGED <<programVars, copierVars, handlerVars, streaming>>

(* The SSE handler returns, or a resume replaces the session. *)
StopStreaming ==
  /\ streaming
  /\ streaming' = FALSE
  /\ UNCHANGED <<programVars, copierVars, handlerVars, channel, shown>>

-----------------------------------------------------------------------------
Handler == Announce \/ StartFails \/ Start \/ Wait \/ Return
Copier(p) == Read(p) \/ ReadFails(p) \/ Check(p) \/ Send(p)

Next ==
  \/ Handler \/ ContextEnds \/ SetClosed
  \/ Exit \/ Kill
  \/ \E p \in Pipes : Write(p) \/ Copier(p)
  \/ OtherMessage \/ Forward \/ StopStreaming

Spec == Init /\ [][Next]_vars

(* Goroutines that can run do, a killed program exits, and the context has  *)
(* a timeout.  Neither the program nor the SSE handler has to do anything.  *)
Fairness ==
  /\ WF_vars(Handler)
  /\ WF_vars(ContextEnds)
  /\ WF_vars(Kill)
  /\ \A p \in Pipes : WF_vars(Copier(p))

FairSpec == Spec /\ Fairness

-----------------------------------------------------------------------------
(* The type invariant: in particular neither buffer exceeds its size.       *)
TypeOK ==
  /\ extraCheck \in BOOLEAN
  /\ hpc \in {"announce", "start", "wait", "respond", "returned"}
  /\ process \in {"none", "running", "exited"}
  /\ written \in [Pipes -> 0..MaxChunks]
  /\ taken \in [Pipes -> 0..MaxChunks]
  /\ \A p \in Pipes : written[p] - taken[p] \in 0..PipeSize
  /\ pipesClosed \in BOOLEAN
  /\ copier \in [Pipes -> {"none", "read", "check", "send", "returned"}]
  /\ closed \in BOOLEAN
  /\ ctxDone \in BOOLEAN
  /\ channel \in Seq(Messages)
  /\ Len(channel) <= ChannelSize
  /\ streaming \in BOOLEAN
  /\ shown \in [Pipes -> Seq(Nat)]

(* What the page is sent of a pipe is a prefix of what the program wrote to *)
(* it: nothing is missing in between, out of order or sent twice, however   *)
(* full the channel was on the way.                                         *)
ShownIsPrefix == \A p \in Pipes : \A i \in DOMAIN shown[p] : shown[p][i] = i

(* iperf3.go:85, speedtest_cli.go:83: a handler that responds has left      *)
(* nothing running.  The program was never started or has exited, though    *)
(* the context may have ended at any moment, and no goroutine reads a pipe  *)
(* that is open.                                                            *)
NothingIsLeftRunning ==
  hpc \in {"respond", "returned"} =>
    /\ process # "running"
    /\ pipesClosed \/ \A p \in Pipes : copier[p] = "none"

(* The handler returns whatever the program, the page and the channel do,   *)
(* even when the program is blocked on a pipe that nobody reads.            *)
HandlerReturns == hpc = "wait" ~> hpc = "returned"

(* The copying goroutines end with the handler: none is pinned by a channel *)
(* that nobody empties.                                                     *)
CopiersReturn ==
  hpc = "returned" ~> \A p \in Pipes : copier[p] \in {"none", "returned"}

-----------------------------------------------------------------------------
(* The inductive invariant of OutputPipesProofs. *)

(* The chunks of p that are in the channel, and those of one pipe stand in  *)
(* the order in which they were written.                                    *)
InChannel(p) == {channel[i].number : i \in {j \in DOMAIN channel : channel[j].pipe = p}}

ChannelInOrder ==
  \A i, j \in DOMAIN channel :
    i < j /\ channel[i].pipe = channel[j].pipe /\ channel[i].pipe \in Pipes =>
      channel[i].number < channel[j].number

(* m chunks of p have been sent to the channel, and they are all that were  *)
(* taken, except the one that the goroutine holds or has lost at its end.   *)
Sent(p, m) ==
  /\ Len(shown[p]) <= m
  /\ m <= taken[p]
  /\ InChannel(p) = (Len(shown[p]) + 1)..m
  /\ copier[p] \in {"none", "read"} => m = taken[p]
  /\ copier[p] \in {"check", "send"} => m + 1 = taken[p]

CopiersStarted ==
  hpc \in {"announce", "start"} => process = "none" /\ \A p \in Pipes : copier[p] = "none"

CopiesInOrder == \A p \in Pipes : \E m \in 0..MaxChunks : Sent(p, m)

Inv ==
  /\ TypeOK
  /\ ShownIsPrefix
  /\ ChannelInOrder
  /\ CopiersStarted
  /\ NothingIsLeftRunning
  /\ CopiesInOrder
=============================================================================
