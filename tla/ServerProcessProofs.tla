------------------------ MODULE ServerProcessProofs ------------------------
(* What ServerProcess promises for every choice of its constants.  Each     *)
(* part of the process has an inductive invariant of its own, because a     *)
(* step of the process is a step of one part at most.                       *)
EXTENDS ServerProcess, TLAPS

-----------------------------------------------------------------------------
(* Shells. *)

LEMMA StepOfShell == [Next]_vars => [Shell!Next]_shellVars
<1>. SUFFICES ASSUME [Next]_vars PROVE [Shell!Next]_shellVars
  OBVIOUS
<1>1. CASE Main
  BY <1>1 DEF Main, Load, SetupServer, AssignServer, Listen, ServeReturns, partVars
<1>2. CASE SignalArrives \/ SignalGoroutine
  BY <1>2 DEF SignalArrives, SignalGoroutine, Notify, CancelContext, ShutdownQueue, Shutdown, Drain, partVars
<1>3. CASE LookupStep \/ PageStep
  BY <1>3 DEF LookupStep, PageStep, InPublic
<1>4. CASE StreamArrives \/ StreamStep
  BY <1>4 DEF StreamArrives, StreamStep, InStreams
<1>5. CASE ShellStep
  BY <1>5 DEF ShellStep, InShell
<1>6. CASE QueueStep
  BY <1>6 DEF QueueStep
<1>7. CASE UNCHANGED vars
  BY <1>7 DEF vars
<1>. QED
  BY <1>1, <1>2, <1>3, <1>4, <1>5, <1>6, <1>7 DEF Next

LEMMA ShellInit == Shell!Init => Shell!Inv
<1>1. Shell!Init => Shell!Flags
  BY Zenon DEF Shell!Init, Shell!Flags
<1>. QED
  BY <1>1, ProcessAssumption, SMT DEF ProcessAssumption, Shell!Init, Shell!Inv, Shell!TypeOK

(* The flags, which are Boolean-valued variables, apart from the rest.      *)
LEMMA ShellFlags == Shell!Flags /\ [Shell!Next]_shellVars => Shell!Flags'
<1>. SUFFICES ASSUME Shell!Flags, [Shell!Next]_shellVars PROVE Shell!Flags'
  OBVIOUS
<1>. USE DEF Shell!Flags, Shell!handlerVars, Shell!ptyVars, Shell!goroutineVars, Shell!pageVars
<1>1. CASE Shell!Handler
  BY <1>1, Zenon DEF Shell!Handler, Shell!Upgrade, Shell!StartFails, Shell!Start, Shell!Wait,
                     Shell!ClosePty, Shell!Cancel, Shell!CloseConn
<1>2. CASE Shell!WatcherCancels \/ Shell!ContextKills \/ Shell!KillerKills
  BY <1>2, Zenon DEF Shell!WatcherCancels, Shell!ContextKills, Shell!KillerKills
<1>3. CASE Shell!ReadOutput \/ Shell!WriteMessage \/ Shell!ReaderExits
  BY <1>3, Zenon DEF Shell!ReadOutput, Shell!WriteMessage, Shell!ReaderExits
<1>4. CASE Shell!ReadMessage \/ Shell!WriteInput \/ Shell!WriterExits
  BY <1>4, Zenon DEF Shell!ReadMessage, Shell!WriteInput, Shell!WriterExits
<1>5. CASE Shell!Environment
  BY <1>5, Zenon DEF Shell!Environment, Shell!ProcessWrites, Shell!ProcessReads,
                     Shell!ProcessExits, Shell!PageSends, Shell!PageLeaves, Shell!SessionEnds
<1>6. CASE UNCHANGED shellVars
  BY <1>6, Zenon DEF shellVars
<1>. QED
  BY <1>1, <1>2, <1>3, <1>4, <1>5, <1>6 DEF Shell!Next

LEMMA ShellInductive ==
  ASSUME Shell!Inv, [Shell!Next]_shellVars
  PROVE  Shell!Inv'
<1>a. Shell!Flags'
  BY ShellFlags DEF Shell!Inv, Shell!TypeOK
<1>b. MaxMessages \in Nat
  BY ProcessAssumption DEF ProcessAssumption
<1>. USE <1>a, <1>b DEF Shell!Inv, Shell!TypeOK
<1>1. CASE Shell!Upgrade
  BY <1>1 DEF Shell!Upgrade, Shell!ptyVars, Shell!goroutineVars, Shell!pageVars
<1>2. CASE Shell!StartFails
  BY <1>2 DEF Shell!StartFails, Shell!ptyVars, Shell!goroutineVars, Shell!pageVars
<1>3. CASE Shell!Start
  BY <1>3 DEF Shell!Start, Shell!pageVars
<1>4. CASE Shell!Wait
  BY <1>4 DEF Shell!Wait, Shell!ptyVars, Shell!goroutineVars, Shell!pageVars
<1>5. CASE Shell!ClosePty
  BY <1>5 DEF Shell!ClosePty, Shell!goroutineVars, Shell!pageVars
<1>6. CASE Shell!Cancel
  BY <1>6 DEF Shell!Cancel, Shell!ptyVars, Shell!goroutineVars, Shell!pageVars
<1>7. CASE Shell!CloseConn
  BY <1>7 DEF Shell!CloseConn, Shell!ptyVars, Shell!goroutineVars, Shell!pageVars
<1>8. CASE Shell!WatcherCancels \/ Shell!ContextKills \/ Shell!KillerKills
  BY <1>8 DEF Shell!WatcherCancels, Shell!ContextKills, Shell!KillerKills, Shell!handlerVars,
              Shell!ptyVars, Shell!goroutineVars, Shell!pageVars
<1>9. CASE Shell!ReadOutput \/ Shell!WriteMessage \/ Shell!ReaderExits
  BY <1>9 DEF Shell!ReadOutput, Shell!WriteMessage, Shell!ReaderExits, Shell!handlerVars,
              Shell!ptyVars, Shell!pageVars
<1>10. CASE Shell!ReadMessage \/ Shell!WriteInput \/ Shell!WriterExits
  BY <1>10 DEF Shell!ReadMessage, Shell!WriteInput, Shell!WriterExits, Shell!handlerVars,
               Shell!ptyVars, Shell!pageVars
<1>11. CASE Shell!Environment
  BY <1>11 DEF Shell!Environment, Shell!ProcessWrites, Shell!ProcessReads, Shell!ProcessExits,
               Shell!PageSends, Shell!PageLeaves, Shell!SessionEnds, Shell!handlerVars,
               Shell!ptyVars, Shell!goroutineVars, Shell!pageVars
<1>12. CASE UNCHANGED shellVars
  BY <1>12 DEF shellVars
<1>. QED
  BY <1>1, <1>2, <1>3, <1>4, <1>5, <1>6, <1>7, <1>8, <1>9, <1>10, <1>11, <1>12
     DEF Shell!Next, Shell!Handler

(* A handler that has returned leaves no process, no open pty, no open      *)
(* connection and no goroutine that waits for ever, whoever ended first.    *)
THEOREM ShellsLeaveNothing == Spec => []HandlerLeavesNothing
<1>1. Init => Shell!Inv
  BY ShellInit DEF Init
<1>2. Shell!Inv /\ [Next]_vars => Shell!Inv'
  BY ShellInductive, StepOfShell
<1>3. Shell!Inv => HandlerLeavesNothing
  BY DEF Shell!Inv, HandlerLeavesNothing, Shell!HandlerLeavesNothing
<1>. QED
  BY <1>1, <1>2, <1>3, PTL DEF Spec

(* shell.go:56-145: once the process, the session or the page has ended, a  *)
(* goroutine of the server can go on until everything is torn down, in      *)
(* whatever order they come and whoever is blocked: the safety part of      *)
(* AnyEndTearsDown.                                                         *)
THEOREM TearDownsGoOn == Spec => []TearDownGoesOn
<1>1. Shell!Inv => TearDownGoesOn
  <2>. SUFFICES ASSUME Shell!Inv, Shell!SomethingEnded, hpc # "upgrade", ~Shell!TornDown
                PROVE  Shell!SomebodyCanGoOn
    BY DEF TearDownGoesOn, Shell!TearDownGoesOn
  <2>1. /\ hpc \in {"start", "wait", "closePty", "cancel", "closeConn", "returned"}
        /\ process \in {"none", "running", "exited"} /\ pty \in {"none", "open", "closed"}
        /\ conn \in {"none", "open", "closed"} /\ killer \in {"none", "waiting", "exited"}
        /\ reader \in {"none", "read", "write", "exited"}
        /\ writer \in {"none", "read", "input", "exited"}
    BY DEF Shell!Inv, Shell!TypeOK
  <2>2. CASE hpc = "wait" /\ process # "exited"
    <3>. process = "running"
      BY <2>1, <2>2 DEF Shell!Inv
    <3>1. sessionOver => Shell!SomebodyCanGoOn
      <4>1. CASE ctxDone
        BY <4>1, Zenon DEF Shell!SomebodyCanGoOn
      <4>2. CASE ~ctxDone
        BY <4>2, <2>2, Zenon DEF Shell!SomebodyCanGoOn
      <4>. QED
        BY <4>1, <4>2
    <3>. QED
      BY <2>2, <3>1, Zenon DEF Shell!SomethingEnded, Shell!SomebodyCanGoOn
  <2>3. CASE hpc = "returned"
    <3>1. pty # "open" /\ conn # "open" /\ (killer = "waiting" => ctxDone)
      BY <2>3, Zenon DEF Shell!Inv
    <3>2. killer = "waiting" \/ reader \in {"read", "write"} \/ writer \in {"read", "input"}
      BY <2>1, <2>3 DEF Shell!TornDown
    <3>3. reader \in {"read", "write"} \/ writer \in {"read", "input"} => pty = "closed" /\ conn = "closed"
      BY <2>1, <3>1 DEF Shell!Inv
    <3>. QED
      BY <3>1, <3>2, <3>3 DEF Shell!SomebodyCanGoOn
  <2>. QED
    BY <2>1, <2>2, <2>3 DEF Shell!SomebodyCanGoOn
<1>2. Init => Shell!Inv
  BY ShellInit DEF Init
<1>3. Shell!Inv /\ [Next]_vars => Shell!Inv'
  BY ShellInductive, StepOfShell
<1>. QED
  BY <1>1, <1>2, <1>3, PTL DEF Spec

-----------------------------------------------------------------------------
(* Streams. *)

LEMMA StepOfStream == [Next]_vars => [Streams!Next]_streamVars
<1>. SUFFICES ASSUME [Next]_vars PROVE [Streams!Next]_streamVars
  OBVIOUS
<1>1. CASE Main
  BY <1>1 DEF Main, Load, SetupServer, AssignServer, Listen, ServeReturns, partVars, Streams!Next, Streams!Request
<1>2. CASE SignalArrives \/ SignalGoroutine
  BY <1>2 DEF SignalArrives, SignalGoroutine, Notify, CancelContext, ShutdownQueue, Shutdown, Drain, partVars, Streams!Next, Streams!Request
<1>3. CASE LookupStep \/ PageStep
  BY <1>3 DEF LookupStep, PageStep, InPublic, Streams!Next, Streams!Request
<1>4. CASE StreamArrives \/ StreamStep
  BY <1>4 DEF StreamArrives, StreamStep, InStreams, Streams!Next, Streams!Request
<1>5. CASE ShellStep
  BY <1>5 DEF ShellStep, InShell, Streams!Next, Streams!Request
<1>6. CASE QueueStep
  BY <1>6 DEF QueueStep, Streams!Next, Streams!Request
<1>7. CASE UNCHANGED vars
  BY <1>7 DEF vars, Streams!Next, Streams!Request
<1>. QED
  BY <1>1, <1>2, <1>3, <1>4, <1>5, <1>6, <1>7 DEF Next

LEMMA BufferInNat == Streams!Buffer \in Nat \ {0}
  BY ProcessAssumption DEF ProcessAssumption, Streams!Buffer

(* A size that is not refused is a positive integer, and it is the one that *)
(* the name says unless the product overflowed.                             *)
LEMMA SizeIsHonest ==
  ASSUME NEW f \in Streams!Names, Streams!SizeToBytes(f) # Streams!Unknown
  PROVE  /\ Streams!SizeToBytes(f) \in Nat \ {0}
         /\ f.num <= MaxInt
         /\ Streams!NamedSize(f) <= MaxInt => Streams!SizeToBytes(f) = Streams!NamedSize(f)
<1>1. Streams!NamedSize(f) \in Nat
  <2>1. f.num \in Nat /\ f.unit \in {"KB", "MB", "GB", "TB"}
    BY ProcessAssumption DEF ProcessAssumption, Streams!Names, Streams!Factor
  <2>2. Streams!Factor[f.unit] \in Nat
    BY <2>1, ProcessAssumption DEF ProcessAssumption, Streams!Factor
  <2>. QED
    BY <2>1, <2>2 DEF Streams!NamedSize
<1>2. MaxInt \in Nat
  BY ProcessAssumption DEF ProcessAssumption
<1>3. /\ f.num <= MaxInt
      /\ ~(Streams!Wrap(Streams!NamedSize(f)) <= 0)
      /\ Streams!SizeToBytes(f) = Streams!Wrap(Streams!NamedSize(f))
  <2>1. f.num \in Nat
    BY ProcessAssumption DEF ProcessAssumption, Streams!Names
  <2>2. ~(f.num > MaxInt \/ Streams!Wrap(Streams!NamedSize(f)) <= 0)
    BY DEF Streams!SizeToBytes
  <2>3. Streams!SizeToBytes(f) = Streams!Wrap(Streams!NamedSize(f))
    BY <2>2 DEF Streams!SizeToBytes
  <2>. QED
    BY <1>2, <2>1, <2>2, <2>3
<1>. HIDE DEF Streams!NamedSize
<1>4. Streams!Wrap(Streams!NamedSize(f)) \in Int
  <2>. DEFINE a == Streams!NamedSize(f) + MaxInt + 1
              b == 2 * (MaxInt + 1)
  <2>1. a \in Int /\ b \in Nat \ {0}
    BY <1>1, <1>2
  <2>2. a % b \in Int
    <3>. HIDE DEF a, b
    <3>. QED  BY <2>1
  <2>. QED
    BY <2>2, <1>2 DEF Streams!Wrap
<1>5. Streams!NamedSize(f) <= MaxInt => Streams!Wrap(Streams!NamedSize(f)) = Streams!NamedSize(f)
  <2>. SUFFICES ASSUME Streams!NamedSize(f) <= MaxInt
                PROVE  Streams!Wrap(Streams!NamedSize(f)) = Streams!NamedSize(f)
    OBVIOUS
  <2>. DEFINE a == Streams!NamedSize(f) + MaxInt + 1
              b == 2 * (MaxInt + 1)
  <2>1. a \in Nat /\ b \in Nat \ {0} /\ a < b
    BY <1>1, <1>2
  <2>2. a % b = a
    <3>. HIDE DEF a, b
    <3>. QED  BY <2>1
  <2>. QED
    BY <2>2, <1>1, <1>2 DEF Streams!Wrap
<1>. QED
  BY <1>3, <1>4, <1>5

LEMMA ChunksAreBounded ==
  ASSUME NEW ck \in CkSizes \cup {0}
  PROVE  Streams!Chunks(ck) \in 1..MaxChunks
  BY ProcessAssumption DEF ProcessAssumption, Streams!Chunks, Streams!Smaller

(* One more chunk, when not all were sent.                                  *)
LEMMA OneMoreChunk ==
  ASSUME NEW n \in Nat, NEW k \in 0..n, NEW b \in Nat \ {0}, k * b < n * b
  PROVE  k + 1 \in 0..n /\ k * b + b = (k + 1) * b
<1>1. k < n
  <2>. SUFFICES ASSUME ~(k < n) PROVE FALSE
    OBVIOUS
  <2>1. k = n
    OBVIOUS
  <2>. QED
    BY <2>1
<1>. QED
  BY <1>1

LEMMA StreamsInit == Streams!Init => Streams!Inv
  BY ProcessAssumption DEF ProcessAssumption, Streams!Init, Streams!Inv, Streams!TypeOK

LEMMA StreamsInductive ==
  ASSUME Streams!Inv, [Streams!Next]_streamVars
  PROVE  Streams!Inv'
<1>. USE DEF Streams!Inv, Streams!TypeOK
<1>a. MaxChunks \in Nat
  BY ProcessAssumption DEF ProcessAssumption
<1>b. Streams!Unknown = -1
  BY DEF Streams!Unknown
<1>1. ASSUME NEW f \in Streams!Names \cup {Streams!OtherString}, Streams!RequestFile(f)
      PROVE  Streams!Inv'
  <2>1. CASE f \in Streams!Names \cap SpeedtestFileList /\ Streams!SizeToBytes(f) # Streams!Unknown
    <3>1. Streams!SizeToBytes(f) \in Nat \ {0}
      BY <2>1, SizeIsHonest
    <3>2. /\ name' = f /\ spc' = "file" /\ length' = Streams!SizeToBytes(f)
          /\ left' = Streams!SizeToBytes(f) /\ chunks' = 0 /\ sent' = 0
      BY <1>1, <2>1 DEF Streams!RequestFile
    <3>. QED
      BY <1>1, <2>1, <3>1, <3>2
  <2>2. CASE ~(f \in Streams!Names \cap SpeedtestFileList
               /\ Streams!SizeToBytes(f) # Streams!Unknown)
    <3>1. name' = f /\ spc' = "refused" /\ UNCHANGED <<length, left, chunks, sent>>
      BY <1>1, <2>2 DEF Streams!RequestFile
    <3>2. spc = "idle"
      BY <1>1 DEF Streams!RequestFile
    <3>. QED
      BY <1>1, <3>1, <3>2
  <2>. QED
    BY <2>1, <2>2
<1>2. ASSUME NEW ck \in CkSizes \cup {0}, Streams!RequestDownload(ck)
      PROVE  Streams!Inv'
  <2>1. Streams!Chunks(ck) \in 1..MaxChunks
    BY ChunksAreBounded
  <2>2. /\ spc = "idle" /\ spc' = "download" /\ chunks' = Streams!Chunks(ck)
        /\ UNCHANGED <<name, length, left, sent>>
    BY <1>2 DEF Streams!RequestDownload
  <2>3. \E k \in 0..chunks' : sent' = k * Streams!Buffer
    BY <1>a, <2>1, <2>2, BufferInNat
  <2>. QED
    BY <1>a, <2>1, <2>2, <2>3
<1>3. CASE Streams!RequestUpload
  BY <1>3 DEF Streams!RequestUpload
<1>4. CASE Streams!WriteFile
  <2>. DEFINE n == Streams!Smaller(Streams!Buffer, left)
  <2>1. n \in Nat /\ n <= left
    BY BufferInNat DEF Streams!Smaller
  <2>2. /\ spc = "file" /\ sent' = sent + n /\ left' = left - n
        /\ UNCHANGED <<spc, name, length, chunks>>
    BY <1>4 DEF Streams!WriteFile
  <2>. HIDE DEF n
  <2>. QED
    BY <2>1, <2>2
<1>5. CASE Streams!WriteChunk
  <2>1. /\ spc = "download" /\ sent < chunks * Streams!Buffer /\ sent' = sent + Streams!Buffer
        /\ UNCHANGED <<spc, name, length, left, chunks>>
    BY <1>5 DEF Streams!WriteChunk
  <2>2. PICK k \in 0..chunks : sent = k * Streams!Buffer
    BY <2>1
  <2>3. k + 1 \in 0..chunks /\ sent' = (k + 1) * Streams!Buffer
    BY <2>1, <2>2, OneMoreChunk, BufferInNat
  <2>4. sent' \in Nat
    BY <2>1, BufferInNat
  <2>. QED
    BY <2>1, <2>3, <2>4
<1>6. CASE Streams!StreamEnds
  <2>1. /\ spc \in {"file", "download"} /\ spc' = "complete"
        /\ UNCHANGED <<name, length, left, chunks, sent>>
    BY <1>6 DEF Streams!StreamEnds
  <2>2. CASE spc = "file"
    <3>1. left = 0
      BY <1>6, <2>2 DEF Streams!StreamEnds, Streams!AllWritten
    <3>. QED
      BY <2>1, <2>2, <3>1
  <2>3. CASE spc = "download"
    <3>1. PICK k \in 0..chunks : sent = k * Streams!Buffer
      BY <2>3
    <3>2. ~(sent < chunks * Streams!Buffer)
      <4>1. sent >= chunks * Streams!Buffer
        BY <1>6, <2>3 DEF Streams!StreamEnds, Streams!AllWritten
      <4>. QED
        BY <4>1, BufferInNat
    <3>3. k = chunks
      <4>. SUFFICES ASSUME k < chunks PROVE FALSE
        OBVIOUS
      <4>. DEFINE b == Streams!Buffer
      <4>1. b \in Nat \ {0} /\ k \in Nat /\ chunks \in Nat
        BY BufferInNat
      <4>2. k * b < chunks * b
        <5>. HIDE DEF b
        <5>. QED  BY <4>1
      <4>. QED
        BY <3>1, <3>2, <4>2
    <3>. QED
      BY <2>1, <2>3, <3>1, <3>3
  <2>. QED
    BY <2>1, <2>2, <2>3
<1>7. CASE Streams!StreamFails \/ Streams!UploadEnds \/ Streams!UploadFails
  BY <1>7 DEF Streams!StreamFails, Streams!UploadEnds, Streams!UploadFails
<1>8. CASE UNCHANGED streamVars
  BY <1>8 DEF streamVars
<1>. QED
  BY <1>1, <1>2, <1>3, <1>4, <1>5, <1>6, <1>7, <1>8 DEF Streams!Next, Streams!Request, Streams!Stream

(* The invariant of the streams, and what it is for.                        *)
LEMMA StreamsInvariance == Spec => []Streams!Inv
<1>1. Init => Streams!Inv
  BY StreamsInit DEF Init
<1>2. Streams!Inv /\ [Next]_vars => Streams!Inv'
  BY StreamsInductive, StepOfStream
<1>. QED
  BY <1>1, <1>2, PTL DEF Spec

(* A file is never longer than it was announced, and a complete one is as   *)
(* long as announced, whatever numbers its name has and however wide        *)
(* integers are.                                                            *)
THEOREM LengthsAreHonest == Spec => []LengthIsHonest
<1>1. Streams!Inv => LengthIsHonest
  <2>. SUFFICES ASSUME Streams!Inv PROVE LengthIsHonest
    OBVIOUS
  <2>1. spc = "file" => length # Streams!Unknown
    BY DEF Streams!Inv
  <2>2. ASSUME length # Streams!Unknown
        PROVE  /\ length > 0
               /\ sent <= length
               /\ spc = "complete" => sent = length
               /\ name.num <= MaxInt
               /\ Streams!NamedSize(name) <= MaxInt => length = Streams!NamedSize(name)
    <3>1. /\ name \in Streams!Names /\ length = Streams!SizeToBytes(name)
          /\ left + sent = length /\ (spc = "complete" => left = 0)
          /\ left \in Nat /\ sent \in Nat
      BY <2>2 DEF Streams!Inv, Streams!TypeOK
    <3>2. /\ length \in Nat \ {0}
          /\ name.num <= MaxInt
          /\ Streams!NamedSize(name) <= MaxInt => length = Streams!NamedSize(name)
      BY <2>2, <3>1, SizeIsHonest
    <3>. QED
      BY <3>1, <3>2
  <2>. QED
    BY <2>1, <2>2 DEF LengthIsHonest, Streams!LengthIsHonest
<1>. QED
  BY StreamsInvariance, <1>1, PTL

(* A download sends between one chunk and the most there may be.            *)
THEOREM DownloadsAreBounded == Spec => []DownloadIsBounded
<1>1. Streams!Inv => DownloadIsBounded
  <2>. SUFFICES ASSUME Streams!Inv, chunks # 0
                PROVE  /\ chunks \in 1..MaxChunks
                       /\ sent <= chunks * Streams!Buffer
                       /\ spc = "complete" => sent = chunks * Streams!Buffer
    BY DEF Streams!Inv, DownloadIsBounded, Streams!DownloadIsBounded
  <2>1. PICK k \in 0..chunks : sent = k * Streams!Buffer
    BY DEF Streams!Inv
  <2>2. chunks \in Nat
    BY DEF Streams!Inv, Streams!TypeOK
  <2>3. k * Streams!Buffer <= chunks * Streams!Buffer
    <3>. DEFINE b == Streams!Buffer
    <3>1. b \in Nat
      BY BufferInNat
    <3>2. k * b <= chunks * b
      <4>. HIDE DEF b
      <4>. QED  BY <2>2, <3>1
    <3>. QED
      BY <3>2
  <2>. QED
    BY <2>1, <2>3 DEF Streams!Inv
<1>. QED
  BY StreamsInvariance, <1>1, PTL

-----------------------------------------------------------------------------
(* The configuration. *)

LEMMA StepOfConfig == [Next]_vars => [Public!Next]_publicVars
<1>. SUFFICES ASSUME [Next]_vars PROVE [Public!Next]_publicVars
  OBVIOUS
<1>1. CASE Main
  BY <1>1 DEF Main, Load, SetupServer, AssignServer, Listen, ServeReturns, partVars, Public!Next
<1>2. CASE SignalArrives \/ SignalGoroutine
  BY <1>2 DEF SignalArrives, SignalGoroutine, Notify, CancelContext, ShutdownQueue, Shutdown, Drain, partVars, Public!Next
<1>3. CASE LookupStep \/ PageStep
  BY <1>3 DEF LookupStep, PageStep, InPublic, Public!Next
<1>4. CASE StreamArrives \/ StreamStep
  BY <1>4 DEF StreamArrives, StreamStep, InStreams, Public!Next
<1>5. CASE ShellStep
  BY <1>5 DEF ShellStep, InShell, Public!Next
<1>6. CASE QueueStep
  BY <1>6 DEF QueueStep, Public!Next
<1>7. CASE UNCHANGED vars
  BY <1>7 DEF vars, Public!Next
<1>. QED
  BY <1>1, <1>2, <1>3, <1>4, <1>5, <1>6, <1>7 DEF Next

LEMMA ConfigInit == Public!Init => Public!Inv
  BY DEF Public!Init, Public!Inv, Public!TypeOK, Public!StoringIsAtStore, Public!LookupsAreNeeded,
         Public!ConfiguredIsInPlace, Public!Nothing, Public!Fields, Public!NeedsLookup,
         Public!Unset, Public!Configured, Public!Found, Public!Torn

LEMMA ConfigInductive ==
  ASSUME Public!Inv, [Public!Next]_publicVars
  PROVE  Public!Inv'
<1>. USE DEF Public!Inv, Public!TypeOK, Public!StoringIsAtStore, Public!LookupsAreNeeded,
             Public!ConfiguredIsInPlace, Public!Nothing, Public!Fields, Public!NeedsLookup,
             Public!Unset, Public!Configured, Public!Found, Public!Torn
<1>1. CASE Public!LoadWebConfig
  BY <1>1 DEF Public!LoadWebConfig, Public!pageVars
<1>2. CASE Public!UpdatePublicIP
  BY <1>2 DEF Public!UpdatePublicIP, Public!pageVars
<1>3. CASE Public!UpdateLocation
  BY <1>3 DEF Public!UpdateLocation, Public!pageVars
<1>4. CASE Public!StoreLocation
  BY <1>4 DEF Public!StoreLocation, Public!pageVars
<1>5. ASSUME NEW f \in {"ipv4", "ipv6"}, Public!LookupFinds(f) PROVE Public!Inv'
  BY <1>5 DEF Public!LookupFinds, Public!pageVars
<1>6. ASSUME NEW f \in {"ipv4", "ipv6"}, Public!LookupFails(f) PROVE Public!Inv'
  BY <1>6 DEF Public!LookupFails, Public!pageVars
<1>7. ASSUME NEW f \in {"ipv4", "ipv6"}, Public!StoreAddress(f) PROVE Public!Inv'
  BY <1>7 DEF Public!StoreAddress, Public!pageVars
<1>8. CASE Public!Connect \/ Public!StreamIsCut
  <2>1. CASE Public!Connect
    BY <2>1 DEF Public!Connect, Public!configVars
  <2>2. CASE Public!StreamIsCut
    BY <2>2 DEF Public!StreamIsCut, Public!configVars
  <2>. QED
    BY <1>8, <2>1, <2>2
<1>9. CASE Public!ReadField
  BY <1>9 DEF Public!ReadField, Public!After, Public!configVars
<1>10. CASE Public!MarshalPanics
  BY <1>10 DEF Public!MarshalPanics, Public!configVars
<1>11. CASE Public!SendConfig
  BY <1>11 DEF Public!SendConfig, Public!configVars
<1>12. CASE UNCHANGED publicVars
  BY <1>12 DEF publicVars
<1>. QED
  BY <1>1, <1>2, <1>3, <1>4, <1>5, <1>6, <1>7, <1>8, <1>9, <1>10, <1>11, <1>12
     DEF Public!Next, Public!Lookups, Public!Page

(* What the operator has configured is never overwritten by a look-up, and  *)
(* no page is told anything else.                                           *)
THEOREM ConfigurationIsKept == Spec => []ConfiguredIsKept
<1>1. Init => Public!Inv
  BY ConfigInit DEF Init
<1>2. Public!Inv /\ [Next]_vars => Public!Inv'
  BY ConfigInductive, StepOfConfig
<1>3. Public!Inv => ConfiguredIsKept
  BY DEF Public!Inv, Public!TypeOK, Public!ConfiguredIsInPlace, Public!Fields, Public!NeedsLookup,
         Public!Unset, Public!Configured, ConfiguredIsKept, Public!ConfiguredIsKept
<1>. QED
  BY <1>1, <1>2, <1>3, PTL DEF Spec

-----------------------------------------------------------------------------
(* The process itself. *)

LEMMA FlagsInductive == Flags /\ [Next]_vars => Flags'
<1>. SUFFICES ASSUME Flags, [Next]_vars PROVE Flags'
  OBVIOUS
<1>. USE DEF Flags
<1>1. CASE Main
  BY <1>1, Zenon DEF Main, Load, SetupServer, AssignServer, Listen, ServeReturns, partVars
<1>2. CASE SignalArrives
  BY <1>2, Zenon DEF SignalArrives, partVars
<1>3. CASE SignalGoroutine
  BY <1>3, Zenon DEF SignalGoroutine, Notify, CancelContext, ShutdownQueue, Shutdown, Drain, partVars
<1>4. CASE LookupStep \/ PageStep \/ StreamArrives \/ StreamStep \/ ShellStep
  BY <1>4, Zenon DEF LookupStep, PageStep, StreamArrives, StreamStep, ShellStep, InPublic,
                     InStreams, InShell, processVars
<1>5. CASE QueueStep
  BY <1>5, Zenon DEF QueueStep
<1>6. CASE UNCHANGED vars
  BY <1>6, Zenon DEF vars, processVars
<1>. QED
  BY <1>1, <1>2, <1>3, <1>4, <1>5, <1>6 DEF Next

(* The routes are those of the features, which do not change after they     *)
(* were set; the signal goroutine begins after that.                        *)
ProcessInv ==
  /\ main \in {"load", "init", "start", "listen", "serving", "ended"}
  /\ sg \in {"none", "notify", "wait", "queue", "shutdown", "drain", "done", "timedOut"}
  /\ routes \subseteq features
  /\ main = "load" => routes = {}
  /\ main \in {"load", "init"} => sg = "none"
  /\ queue \in {"idle", "busy", "stuck"}

LEMMA ProcessInductive == ProcessInv /\ [Next]_vars => ProcessInv'
<1>. SUFFICES ASSUME ProcessInv, [Next]_vars PROVE ProcessInv'
  OBVIOUS
<1>. USE DEF ProcessInv, publicVars
<1>1. CASE Main
  BY <1>1 DEF Main, Load, SetupServer, AssignServer, Listen, ServeReturns, partVars
<1>2. CASE SignalArrives
  BY <1>2 DEF SignalArrives, partVars
<1>3. CASE SignalGoroutine
  BY <1>3 DEF SignalGoroutine, Notify, CancelContext, ShutdownQueue, Queue!Pass, Shutdown, Drain, partVars
<1>4. CASE LookupStep \/ PageStep
  <2>1. UNCHANGED features
    BY <1>4 DEF LookupStep, PageStep, InPublic, Public!Lookups, Public!UpdatePublicIP,
                Public!UpdateLocation, Public!StoreLocation, Public!LookupFinds,
                Public!LookupFails, Public!StoreAddress, Public!Page, Public!Connect,
                Public!ReadField, Public!MarshalPanics, Public!SendConfig, Public!StreamIsCut,
                Public!configVars
  <2>. QED
    BY <1>4, <2>1 DEF LookupStep, PageStep, InPublic, processVars
<1>5. CASE StreamArrives \/ StreamStep \/ ShellStep
  BY <1>5 DEF StreamArrives, StreamStep, ShellStep, InStreams, InShell, processVars
<1>6. CASE QueueStep
  BY <1>6 DEF QueueStep, Queue!Enter, Queue!Finish, Queue!Block
<1>7. CASE UNCHANGED vars
  BY <1>7 DEF vars, processVars
<1>. QED
  BY <1>1, <1>2, <1>3, <1>4, <1>5, <1>6, <1>7 DEF Next

(* Every variable of the process and of its parts keeps its type.           *)
THEOREM TypeCorrect == Spec => []TypeOK
<1>1. Init => Flags
  BY Zenon DEF Init, Flags
<1>2. Init => ProcessInv
  BY DEF Init, ProcessInv, Queue!Init
<1>3. Init => Public!Inv /\ Streams!Inv /\ Shell!Inv
  BY ConfigInit, StreamsInit, ShellInit DEF Init
<1>4. Public!Inv /\ Streams!Inv /\ Shell!Inv /\ [Next]_vars
        => Public!Inv' /\ Streams!Inv' /\ Shell!Inv'
  BY ConfigInductive, StepOfConfig, StreamsInductive, StepOfStream, ShellInductive, StepOfShell
<1>5. Flags /\ ProcessInv /\ Public!Inv /\ Streams!Inv /\ Shell!Inv => TypeOK
  BY DEF ProcessInv, Public!Inv, Streams!Inv, Shell!Inv, TypeOK
<1>. QED
  BY <1>1, <1>2, <1>3, <1>4, <1>5, FlagsInductive, ProcessInductive, PTL DEF Spec

(* A step of the process is a step of the queue's abstraction, or none:     *)
(* only ShutdownQueue brings the signal goroutine past the queue.           *)
LEMMA StepOfQueue == ProcessInv /\ [Next]_vars => [Queue!Next]_<<queue, Passed>>
<1>. SUFFICES ASSUME ProcessInv, [Next]_vars PROVE [Queue!Next]_<<queue, Passed>>
  OBVIOUS
<1>. USE DEF Passed, ProcessInv
<1>1. CASE Main
  BY <1>1 DEF Main, Load, SetupServer, AssignServer, Listen, ServeReturns, partVars
<1>2. CASE SignalArrives
  BY <1>2 DEF SignalArrives, partVars
<1>3. CASE ShutdownQueue
  BY <1>3 DEF ShutdownQueue, Queue!Next
<1>4. CASE Notify \/ CancelContext \/ Shutdown \/ Drain
  BY <1>4 DEF Notify, CancelContext, Shutdown, Drain, partVars
<1>5. CASE LookupStep \/ PageStep \/ StreamArrives \/ StreamStep \/ ShellStep
  BY <1>5 DEF LookupStep, PageStep, StreamArrives, StreamStep, ShellStep, InPublic, InStreams,
              InShell, processVars
<1>6. CASE QueueStep
  BY <1>6 DEF QueueStep, Queue!Next
<1>7. CASE UNCHANGED vars
  BY <1>7 DEF vars, processVars
<1>. QED
  BY <1>1, <1>2, <1>3, <1>4, <1>5, <1>6, <1>7 DEF Next, SignalGoroutine

(* Whatever main, the signals and the other parts do, the configuration,    *)
(* the streams, the shell and the queue of the process behave as their      *)
(* modules say.                                                             *)
THEOREM PartsBelow == Spec => Public!Spec /\ Streams!Spec /\ Shell!Spec /\ Queue!Spec
<1>1. Init => Public!Init /\ Streams!Init /\ Shell!Init /\ Queue!Init /\ ProcessInv
  BY DEF Init, ProcessInv, Queue!Init
<1>2. [Next]_vars =>
        /\ [Public!Next]_Public!publicVars
        /\ [Streams!Next]_Streams!streamVars
        /\ [Shell!Next]_Shell!shellVars
  BY StepOfConfig, StepOfStream, StepOfShell
     DEF publicVars, Public!publicVars, streamVars, Streams!streamVars, shellVars, Shell!shellVars,
         Public!configVars, Public!pageVars, Shell!handlerVars, Shell!goroutineVars, Shell!ptyVars,
         Shell!pageVars
<1>3. ProcessInv /\ [Next]_vars => [Queue!Next]_Queue!vars
  BY StepOfQueue DEF Queue!vars
<1>. QED
  BY <1>1, <1>2, <1>3, ProcessInductive, PTL
     DEF Spec, Public!Spec, Streams!Spec, Shell!Spec, Queue!Spec
=============================================================================
