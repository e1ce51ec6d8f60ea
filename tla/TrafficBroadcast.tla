-------------------------- MODULE TrafficBroadcast --------------------------
(***************************************************************************)
(* The samples of the interface counters: the timer goroutine of           *)
(* als/timer/interface_traffic.go, which caches the last ones and          *)
(* broadcasts each to the sessions (als/client/client.go), the copy of the *)
(* cache that a new session begins with (session.go) and the one that      *)
(* als/controller/cache/interface.go sends on request.                     *)
(*                                                                         *)
(* What the handlers and the sweep do to the map of sessions is an         *)
(* instance of SessionLifecycle, which SessionRegistry implements.         *)
(*                                                                         *)
(* One interface is modelled: the timer goes through them one after the    *)
(* other, each with a cache of its own.  A sample is named by its number.  *)
(***************************************************************************)
EXTENDS Integers, Sequences, SequencesExt

CONSTANTS
  Handlers,     \* the GET /session requests, each with its session
  NoSession,
  CacheSize,    \* samples that the cache keeps; 30
  ChannelSize,  \* messages that the channel of a session holds; 64
  MaxSamples    \* bound: the samples that the timer takes

ASSUME TrafficAssumption ==
  /\ NoSession \notin Handlers
  /\ CacheSize \in Nat \ {0}
  /\ ChannelSize \in Nat \ {0}
  /\ MaxSamples \in Nat

VARIABLES
  sampled,   \* the number of the newest sample
  cache,     \* InterfaceCaches: the samples that are kept, oldest first
  tpc,       \* where the timer goroutine is
  targets,   \* the sessions that its broadcast still has to try
  registered, \* the sessions that are in the map Clients
  page,      \* page[h]: how far the handler is with its page
  channel,   \* channel[h]: the channel of the session of h
  refused,   \* refused[h]: a sample did not fit into the channel
  shown,     \* shown[h]: the samples that the page was sent, with the caches
  lastLive,  \* lastLive[h]: the newest sample that it was sent by itself
  reqSession, reqCache  \* a cache request: its session and its copy

timerVars == <<sampled, cache, tpc, targets>>
streamVars == <<channel, page, refused, shown, lastLive>>
requestVars == <<reqSession, reqCache>>
vars == <<registered, timerVars, streamVars, requestVars>>

Life == INSTANCE SessionLifecycle WITH Sessions <- Handlers

NoCopy == <<>>
CacheMessage(s) == [name |-> "InterfaceCache", samples |-> s]
LiveMessage(n) == [name |-> "InterfaceTraffic", samples |-> <<n>>]
OtherMessage == [name |-> "other", samples |-> <<>>]

-----------------------------------------------------------------------------
Init ==
  /\ Life!Init
  /\ sampled = 0
  /\ cache = <<>>
  /\ tpc = "tick"
  /\ targets = {}
  /\ channel = [h \in Handlers |-> <<>>]
  /\ refused = [h \in Handlers |-> FALSE]
  /\ shown = [h \in Handlers |-> {}]
  /\ lastLive = [h \in Handlers |-> 0]
  /\ reqSession = NoSession
  /\ reqCache = NoCopy

(* TrySend *)
HasRoom(h) == Len(channel[h]) < ChannelSize
TrySend(h, m) ==
  channel' = IF HasRoom(h) THEN [channel EXCEPT ![h] = Append(@, m)] ELSE channel

(* Mutant: a copy without the sample that is being broadcast. *)
SnapshotWithoutNewest == IF cache = <<>> THEN cache ELSE Front(cache)

(* GetInterfaceCachesSnapshot: a copy made under the lock. *)
InterfaceCachesSnapshot == cache

(* Mutant: the oldest samples are kept.                                     *)
KeepOldest(s) == IF Len(s) > CacheSize THEN SubSeq(s, 1, CacheSize) ELSE s

(* The newest CacheSize samples. *)
Trim(s) == IF Len(s) > CacheSize THEN SubSeq(s, Len(s) - CacheSize + 1, Len(s)) ELSE s

-----------------------------------------------------------------------------
(* The timer goroutine. *)

(* Mutant: the next tick does not wait for the broadcast.                   *)
SampleWhileSending ==
  /\ tpc \in {"tick", "send"}
  /\ sampled < MaxSamples
  /\ sampled' = sampled + 1
  /\ cache' = Trim(Append(cache, sampled'))
  /\ tpc' = "list"
  /\ UNCHANGED <<registered, targets, streamVars, requestVars>>

(* A tick: sample, append and trim under interfaceCachesMu. *)
Sample ==
  /\ tpc = "tick"
  /\ sampled < MaxSamples
  /\ sampled' = sampled + 1
  /\ cache' = Trim(Append(cache, sampled'))
  /\ tpc' = "list"
  /\ UNCHANGED <<registered, targets, streamVars, requestVars>>

(* SnapshotClients *)
SnapshotClients ==
  /\ tpc = "list"
  /\ targets' = registered
  /\ tpc' = "send"
  /\ UNCHANGED <<registered, sampled, cache, streamVars, requestVars>>

(* The loop of BroadCastMessage, in the order of the map. *)
SendSample(h) ==
  /\ tpc = "send"
  /\ h \in targets
  /\ targets' = targets \ {h}
  /\ TrySend(h, LiveMessage(sampled))
  /\ refused' = [refused EXCEPT ![h] = @ \/ ~HasRoom(h)]
  /\ UNCHANGED <<registered, sampled, cache, tpc, page, shown, lastLive, requestVars>>

BroadcastEnds ==
  /\ tpc = "send"
  /\ targets = {}
  /\ tpc' = "tick"
  /\ UNCHANGED <<registered, sampled, cache, targets, streamVars, requestVars>>

(* Another producer: the memory timer, an operation that still has the session. *)
SendOther(h) ==
  /\ page[h] # "away"
  /\ HasRoom(h)
  /\ TrySend(h, OtherMessage)
  /\ UNCHANGED <<registered, timerVars, page, refused, shown, lastLive, requestVars>>

-----------------------------------------------------------------------------
(* The session handler. *)

(* AddClient; SetContext and the SessionId event follow. *)
AddClient(h) ==
  /\ Life!Register(h)
  /\ UNCHANGED <<timerVars, channel, refused, shown, lastLive, requestVars>>

(* The InterfaceCache event, then the loop. *)
SendCache(h) ==
  /\ Life!Stream(h)
  /\ shown' = [shown EXCEPT ![h] = ToSet(InterfaceCachesSnapshot)]
  /\ UNCHANGED <<timerVars, channel, refused, lastLive, requestVars>>

Forward(h) ==
  /\ page[h] = "streams"
  /\ channel[h] # <<>>
  /\ channel' = [channel EXCEPT ![h] = Tail(@)]
  /\ LET m == Head(channel[h])
     IN  /\ shown' = [shown EXCEPT ![h] = @ \cup ToSet(m.samples)]
         /\ lastLive' = [lastLive EXCEPT
              ![h] = IF m.name = "InterfaceTraffic" THEN Head(m.samples) ELSE @]
  /\ UNCHANGED <<registered, timerVars, page, refused, requestVars>>

(* The loop ends: nobody reads the channel or sees the page any more. *)
StopStreaming(h) ==
  /\ Life!Stop(h)
  /\ channel' = [channel EXCEPT ![h] = <<>>]
  /\ shown' = [shown EXCEPT ![h] = {}]
  /\ lastLive' = [lastLive EXCEPT ![h] = 0]
  /\ UNCHANGED <<timerVars, refused, requestVars>>

(* The deferred function of the handler. *)
Return(h) ==
  /\ Life!Return(h)
  /\ UNCHANGED <<timerVars, channel, refused, shown, lastLive, requestVars>>

(* RemoveClient, by whichever handler, or RemoveExpiredClients. *)
LeaveMap ==
  /\ Life!Leave
  /\ UNCHANGED <<timerVars, channel, refused, shown, lastLive, requestVars>>

-----------------------------------------------------------------------------
(* GET /method/cache/interfaces, one request after the other. *)

AdmitCacheRequest(h) ==
  /\ reqSession = NoSession
  /\ h \in registered
  /\ reqSession' = h
  /\ reqCache' = InterfaceCachesSnapshot
  /\ UNCHANGED <<registered, timerVars, streamVars>>

AnswerCacheRequest ==
  /\ reqSession # NoSession
  /\ TrySend(reqSession, CacheMessage(reqCache))
  /\ reqSession' = NoSession
  /\ reqCache' = NoCopy
  /\ UNCHANGED <<registered, timerVars, page, refused, shown, lastLive>>

-----------------------------------------------------------------------------
Next ==
  \/ Sample \/ SnapshotClients \/ BroadcastEnds \/ AnswerCacheRequest \/ LeaveMap
  \/ \E h \in Handlers :
       \/ AddClient(h) \/ SendCache(h) \/ Forward(h) \/ StopStreaming(h) \/ Return(h)
       \/ SendSample(h) \/ SendOther(h) \/ AdmitCacheRequest(h)

Spec == Init /\ [][Next]_vars

-----------------------------------------------------------------------------
(* The type invariant: the cache holds the newest samples, oldest first.    *)
TypeOK ==
  /\ sampled \in 0..MaxSamples
  /\ Len(cache) = IF sampled < CacheSize THEN sampled ELSE CacheSize
  /\ \A k \in DOMAIN cache : cache[k] = sampled - Len(cache) + k
  /\ tpc \in {"tick", "list", "send"}
  /\ targets \subseteq Handlers
  /\ \A h \in Handlers : Len(channel[h]) <= ChannelSize
  /\ registered \subseteq Handlers
  /\ page \in [Handlers -> {"away", "joined", "streams", "stopped", "returned"}]
  /\ refused \in [Handlers -> BOOLEAN]
  /\ shown \in [Handlers -> SUBSET (1..MaxSamples)]
  /\ lastLive \in [Handlers -> 0..MaxSamples]
  /\ reqSession \in Handlers \cup {NoSession}
  /\ reqCache \in Seq(1..MaxSamples)

SamplesIn(q) == UNION {ToSet(q[k].samples) : k \in DOMAIN q}
Underway(h) == SamplesIn(channel[h])
BeingSent(h) == IF tpc = "list" \/ h \in targets THEN {sampled} ELSE {}

(* No sample falls between the cache that a session begins with and its     *)
(* stream: from the first sample on that the page was sent, every sample    *)
(* was sent, is in the channel or is about to be broadcast to it, as long   *)
(* as the session is registered and its channel refused none.  The session  *)
(* joins and copies the cache while the timer is anywhere between two       *)
(* samples.                                                                 *)
NoSampleIsMissed ==
  \A h \in Handlers :
    h \in registered /\ ~refused[h] =>
      \A n \in shown[h] : n..sampled \subseteq shown[h] \cup Underway(h) \cup BeingSent(h)

(* The samples of the stream arrive one after the other: the page, which    *)
(* shows the differences of the counters, never gets an old one late or has *)
(* one skipped, unless the channel refused one.                             *)
LiveSamplesInOrder ==
  [][\A h \in Handlers :
       lastLive'[h] # lastLive[h] /\ lastLive[h] # 0 /\ page'[h] = "streams" =>
         IF refused[h] THEN lastLive'[h] > lastLive[h] ELSE lastLive'[h] = lastLive[h] + 1]_vars

-----------------------------------------------------------------------------
(* The inductive invariant of TrafficBroadcastProofs.                       *)

Messages == [name : {"InterfaceCache", "InterfaceTraffic", "other"}, samples : Seq(1..MaxSamples)]

Live(q, k) == q[k].name = "InterfaceTraffic"
Number(q, k) == Head(q[k].samples)

(* The samples that a channel holds by themselves. *)
LiveIn(q) == {Number(q, k) : k \in {i \in DOMAIN q : Live(q, i)}}

Ascending(q) ==
  \A j, k \in DOMAIN q : j < k /\ Live(q, j) /\ Live(q, k) => Number(q, j) < Number(q, k)

(* The cache, the channels and the copies hold nothing that was not sampled, *)
(* and the timer has no targets between two broadcasts.                     *)
SamplesExist ==
  /\ cache \in Seq(1..MaxSamples)
  /\ channel \in [Handlers -> Seq(Messages)]
  /\ \A h \in Handlers : \A k \in DOMAIN channel[h] :
       Live(channel[h], k) => Len(channel[h][k].samples) = 1
  /\ \A h \in Handlers : shown[h] \cup Underway(h) \subseteq 1..sampled
  /\ ToSet(reqCache) \subseteq 1..sampled
  /\ tpc # "send" => targets = {}
  /\ tpc # "tick" => sampled > 0

(* A page that does not stream yet, or any more, was sent nothing.          *)
PagesBegin ==
  \A h \in Handlers :
    /\ page[h] # "streams" => shown[h] = {} /\ lastLive[h] = 0
    /\ page[h] = "away" =>
         h \notin registered \cup targets /\ channel[h] = <<>> /\ reqSession # h

(* From each sample on that a session has or holds, it has, holds or will   *)
(* be sent the others, and so will it with the copy that it is about to get. *)
Covered(h) ==
  LET had == shown[h] \cup Underway(h)
  IN  /\ \A n \in had : n..sampled \subseteq had \cup BeingSent(h)
      /\ reqSession = h =>
           \A n \in ToSet(reqCache) :
             n..sampled \subseteq ToSet(reqCache) \cup had \cup BeingSent(h)

NothingIsMissed ==
  \A h \in Handlers : h \in registered /\ ~refused[h] /\ page[h] \notin {"stopped", "returned"} => Covered(h)

(* The newest sample that the channel of a session was offered by itself.   *)
Top(h) == IF tpc = "list" \/ h \in targets THEN sampled - 1 ELSE sampled

(* What a page was sent last and what its channel holds are one after the   *)
(* other, and up to date as long as the session is broadcast to.            *)
Stream(h) == LiveIn(channel[h]) \cup ({lastLive[h]} \ {0})

StreamAscends(h) ==
  /\ Ascending(channel[h])
  /\ \A n \in LiveIn(channel[h]) : lastLive[h] < n
  /\ \A n \in Stream(h) : n <= Top(h)

StreamHasNoGap(h) ==
  /\ \A m, n \in Stream(h) : m..n \subseteq Stream(h)
  /\ Stream(h) # {} /\ h \in registered \cup targets => Top(h) \in Stream(h)

StreamsAscend == \A h \in Handlers : StreamAscends(h)
StreamsHaveNoGap == \A h \in Handlers : ~refused[h] => StreamHasNoGap(h)

Inv ==
  /\ TypeOK
  /\ SamplesExist
  /\ PagesBegin
  /\ NothingIsMissed
  /\ StreamsAscend
  /\ StreamsHaveNoGap
=============================================================================
