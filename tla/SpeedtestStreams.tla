-------------------------- MODULE SpeedtestStreams --------------------------
(***************************************************************************)
(* One request to the endpoints that move bytes for a speedtest: the file  *)
(* of als/controller/speedtest/fakefile.go, and the download and upload of *)
(* als/controller/speedtest/librespeed.go.                                 *)
(*                                                                         *)
(* A file name is a number and a unit, or any other string.  Kilo, the     *)
(* width of the integers and the limits are parameters, so that TLC can    *)
(* let a product overflow; in the code they are 1024, 64 bits, 4 and 1024. *)
(***************************************************************************)
EXTENDS Integers

CONSTANTS
  Kilo,               \* 1024
  MaxInt,             \* the largest integer, 2^63 - 1
  Numbers,            \* what a file name can start with
  SpeedtestFileList,  \* the names that the configuration offers
  DefaultChunks,      \* what the download sends when it is not asked
  MaxChunks,          \* the most it sends
  CkSizes             \* the values of ckSize that are integers

VARIABLES
  spc,     \* where the handler is
  name,    \* the file asked for
  length,  \* the Content-Length that was announced, or Unknown
  left,    \* size: what of the file is still to be written
  chunks,  \* what the download is to send
  sent     \* the bytes written

streamVars == <<spc, name, length, left, chunks, sent>>

-----------------------------------------------------------------------------
(* Names and sizes. *)

Unknown == -1

Factor == [KB |-> Kilo, MB |-> Kilo * Kilo, GB |-> Kilo * Kilo * Kilo,
           TB |-> Kilo * Kilo * Kilo * Kilo]

Names == [num : Numbers, unit : DOMAIN Factor]
OtherString == [num |-> 0, unit |-> "none"]

(* The two's complement value of an integer. *)
Wrap(n) == ((n + MaxInt + 1) % (2 * (MaxInt + 1))) - (MaxInt + 1)

(* What a name says. *)
NamedSize(f) == f.num * Factor[f.unit]

(* Mutant: negative products are refused, zero is not.                      *)
SizeToBytesOrZero(f) ==
  IF f.num > MaxInt \/ Wrap(NamedSize(f)) < 0 THEN Unknown ELSE Wrap(NamedSize(f))

(* sizeToBytes: ParseInt fails on a number that does not fit, the product   *)
(* wraps around, and one that is not positive is refused.                   *)
SizeToBytes(f) ==
  IF f.num > MaxInt \/ Wrap(NamedSize(f)) <= 0 THEN Unknown ELSE Wrap(NamedSize(f))

(* The buffer of both downloads, one MB. *)
Buffer == Kilo * Kilo

Smaller(a, b) == IF a < b THEN a ELSE b

(* The query parameter ckSize of the download. *)
Chunks(ck) == IF ck > 0 THEN Smaller(ck, MaxChunks) ELSE DefaultChunks

-----------------------------------------------------------------------------
Init ==
  /\ spc = "idle"
  /\ name = OtherString
  /\ length = Unknown
  /\ left = 0
  /\ chunks = 0
  /\ sent = 0

(* HandleFakeFile up to the stream: 404 for a string that is no file name,  *)
(* for a name that is not offered and for a size that is refused.           *)
RequestFile(f) ==
  /\ spc = "idle"
  /\ name' = f
  /\ IF f \in Names \cap SpeedtestFileList /\ SizeToBytes(f) # Unknown
     THEN /\ spc' = "file"
          /\ length' = SizeToBytes(f)
          /\ left' = SizeToBytes(f)
     ELSE /\ spc' = "refused"
          /\ UNCHANGED <<length, left>>
  /\ UNCHANGED <<chunks, sent>>

(* One round of the loop of HandleFakeFile. *)
WriteFile ==
  /\ spc = "file"
  /\ left > 0
  /\ sent' = sent + Smaller(Buffer, left)
  /\ left' = left - Smaller(Buffer, left)
  /\ UNCHANGED <<spc, name, length, chunks>>

(* HandleDownload; ckSize may be absent or no integer.                      *)
RequestDownload(ck) ==
  /\ spc = "idle"
  /\ spc' = "download"
  /\ chunks' = Chunks(ck)
  /\ UNCHANGED <<name, length, left, sent>>

(* One round of its loop. *)
WriteChunk ==
  /\ spc = "download"
  /\ sent < chunks * Buffer
  /\ sent' = sent + Buffer
  /\ UNCHANGED <<spc, name, length, left, chunks>>

AllWritten == IF spc = "file" THEN left = 0 ELSE sent >= chunks * Buffer

(* Both loops end when everything is written. *)
StreamEnds ==
  /\ spc \in {"file", "download"}
  /\ AllWritten
  /\ spc' = "complete"
  /\ UNCHANGED <<name, length, left, chunks, sent>>

(* rand.Read fails before the first write, or a write fails: the client has *)
(* gone, or httpWriteTimeout has passed since the request was read.         *)
StreamFails ==
  /\ spc \in {"file", "download"}
  /\ ~AllWritten
  /\ spc' = "failed"
  /\ UNCHANGED <<name, length, left, chunks, sent>>

(* HandleUpload discards the body until it ends: 200. *)
RequestUpload ==
  /\ spc = "idle"
  /\ spc' = "upload"
  /\ UNCHANGED <<name, length, left, chunks, sent>>

UploadEnds ==
  /\ spc = "upload"
  /\ spc' = "complete"
  /\ UNCHANGED <<name, length, left, chunks, sent>>

(* The body cannot be read to its end: the client has gone, or              *)
(* httpReadTimeout has passed.  400.                                        *)
UploadFails ==
  /\ spc = "upload"
  /\ spc' = "refused"
  /\ UNCHANGED <<name, length, left, chunks, sent>>

Request ==
  \/ \E f \in Names \cup {OtherString} : RequestFile(f)
  \/ \E ck \in CkSizes \cup {0} : RequestDownload(ck)
  \/ RequestUpload

Stream == WriteFile \/ WriteChunk \/ StreamEnds \/ StreamFails \/ UploadEnds \/ UploadFails

Next == Request \/ Stream

Spec == Init /\ [][Next]_streamVars

-----------------------------------------------------------------------------
(* The type invariant.                                                      *)
TypeOK ==
  /\ spc \in {"idle", "file", "download", "upload", "complete", "failed", "refused"}
  /\ name \in Names \cup {OtherString}
  /\ length \in Nat \cup {Unknown}
  /\ left \in Nat
  /\ chunks \in Nat
  /\ sent \in Nat

(* fakefile.go:46-56,97-104: the body of a file is never longer than the    *)
(* announced length and, when the handler completes it, exactly as long;    *)
(* the length is positive, and it is the size that the file name says       *)
(* unless the product overflowed.                                           *)
LengthIsHonest ==
  /\ length # Unknown =>
       /\ length > 0
       /\ sent <= length
       /\ spc = "complete" => sent = length
       /\ name.num <= MaxInt
       /\ NamedSize(name) <= MaxInt => length = NamedSize(name)
  /\ spc = "file" => length # Unknown

(* librespeed.go:14-35: whatever ckSize says, a download sends at least one *)
(* chunk and at most MaxChunks, and one that completes has sent them all.   *)
DownloadIsBounded ==
  spc = "download" \/ (spc = "complete" /\ chunks # 0) =>
    /\ chunks \in 1..MaxChunks
    /\ sent <= chunks * Buffer
    /\ spc = "complete" => sent = chunks * Buffer

-----------------------------------------------------------------------------
(* The inductive invariant of ServerProcessProofs: what is left is what was *)
(* announced and not sent, and a download has sent whole chunks.            *)
Inv ==
  /\ TypeOK
  /\ spc = "idle" => length = Unknown /\ sent = 0 /\ chunks = 0
  /\ spc = "file" => length # Unknown
  /\ length # Unknown =>
       /\ spc \in {"file", "complete", "failed"}
       /\ name \in Names
       /\ length = SizeToBytes(name)
       /\ left + sent = length
       /\ spc = "complete" => left = 0
       /\ chunks = 0
  /\ spc = "download" => chunks # 0
  /\ chunks # 0 =>
       /\ spc \in {"download", "complete", "failed"}
       /\ chunks \in 1..MaxChunks
       /\ \E k \in 0..chunks : sent = k * Buffer
       /\ spc = "complete" => sent = chunks * Buffer
=============================================================================
