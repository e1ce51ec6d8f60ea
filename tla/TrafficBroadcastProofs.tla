----------------------- MODULE TrafficBroadcastProofs -----------------------
(***************************************************************************)
(* Proofs about the samples of the interface counters, for every set of    *)
(* sessions and every size of the cache and the channels.  A channel       *)
(* matters by the samples that it holds (SamplesIn) and by those that it   *)
(* holds by themselves (LiveIn); the lemmas about sequences show what      *)
(* Append and Tail do to both.                                             *)
(***************************************************************************)
EXTENDS TrafficBroadcast, TLAPS

(* What TrafficAssumption says of the numbers.                              *)
LEMMA Numbers ==
  /\ CacheSize \in Nat \ {0}
  /\ ChannelSize \in Nat \ {0}
  /\ MaxSamples \in Nat
  /\ NoSession \notin Handlers
BY TrafficAssumption DEF TrafficAssumption

-----------------------------------------------------------------------------
(* Channels as sequences. *)

(* A message at the end adds its samples. *)
LEMMA AppendMessage ==
  ASSUME NEW q \in Seq(Messages), NEW m \in Messages
  PROVE  /\ Append(q, m) \in Seq(Messages)
         /\ SamplesIn(Append(q, m)) = SamplesIn(q) \cup ToSet(m.samples)
         /\ LiveIn(Append(q, m)) =
              LiveIn(q) \cup (IF m.name = "InterfaceTraffic" THEN {Head(m.samples)} ELSE {})
<1>. DEFINE r == Append(q, m)
<1>1. /\ r \in Seq(Messages)
      /\ Len(q) \in Nat /\ DOMAIN q = 1..Len(q)
      /\ DOMAIN r = 1..(Len(q) + 1)
      /\ r[Len(q) + 1] = m
      /\ \A k \in 1..Len(q) : r[k] = q[k]
  OBVIOUS
<1>. HIDE DEF r
<1>2. DOMAIN r = DOMAIN q \cup {Len(q) + 1}
  BY <1>1
<1>3. SamplesIn(r) = SamplesIn(q) \cup ToSet(m.samples)
  <2>1. ASSUME NEW n \in SamplesIn(r) PROVE n \in SamplesIn(q) \cup ToSet(m.samples)
    <3>1. PICK k \in DOMAIN r : n \in ToSet(r[k].samples)
      BY DEF SamplesIn
    <3>. QED
      BY <1>1, <1>2, <3>1 DEF SamplesIn
  <2>2. ASSUME NEW n \in SamplesIn(q) PROVE n \in SamplesIn(r)
    <3>1. PICK k \in DOMAIN q : n \in ToSet(q[k].samples)
      BY DEF SamplesIn
    <3>2. k \in DOMAIN r /\ r[k] = q[k]
      BY <1>1, <1>2
    <3>. QED
      BY <3>1, <3>2 DEF SamplesIn
  <2>3. ASSUME NEW n \in ToSet(m.samples) PROVE n \in SamplesIn(r)
    <3>1. Len(q) + 1 \in DOMAIN r /\ r[Len(q) + 1] = m
      BY <1>1
    <3>. QED
      BY <3>1 DEF SamplesIn
  <2>. QED
    BY <2>1, <2>2, <2>3
<1>4. LiveIn(r) = LiveIn(q) \cup (IF m.name = "InterfaceTraffic" THEN {Head(m.samples)} ELSE {})
  <2>1. ASSUME NEW n \in LiveIn(r)
        PROVE  n \in LiveIn(q) \cup (IF m.name = "InterfaceTraffic" THEN {Head(m.samples)} ELSE {})
    <3>1. PICK k \in DOMAIN r : Live(r, k) /\ n = Number(r, k)
      BY DEF LiveIn
    <3>2. CASE k = Len(q) + 1
      BY <1>1, <3>1, <3>2 DEF Live, Number
    <3>3. CASE k \in DOMAIN q
      BY <1>1, <3>1, <3>3 DEF LiveIn, Live, Number
    <3>. QED
      BY <1>2, <3>2, <3>3
  <2>2. ASSUME NEW n \in LiveIn(q) PROVE n \in LiveIn(r)
    <3>1. PICK k \in DOMAIN q : Live(q, k) /\ n = Number(q, k)
      BY DEF LiveIn
    <3>2. k \in DOMAIN r /\ r[k] = q[k]
      BY <1>1, <1>2
    <3>. QED
      BY <3>1, <3>2 DEF LiveIn, Live, Number
  <2>3. ASSUME m.name = "InterfaceTraffic" PROVE Head(m.samples) \in LiveIn(r)
    <3>1. Len(q) + 1 \in DOMAIN r /\ r[Len(q) + 1] = m
      BY <1>1
    <3>. QED
      BY <2>3, <3>1 DEF LiveIn, Live, Number
  <2>. QED
    BY <2>1, <2>2, <2>3
<1>. QED
  BY <1>1, <1>3, <1>4 DEF r

(* A sample that is newer than all that are there goes to the end.          *)
LEMMA AppendAscends ==
  ASSUME NEW q \in Seq(Messages), NEW m \in Messages, Ascending(q),
         m.name = "InterfaceTraffic" => \A n \in LiveIn(q) : n < Head(m.samples)
  PROVE  Ascending(Append(q, m))
<1>. DEFINE r == Append(q, m)
<1>1. /\ Len(q) \in Nat /\ DOMAIN q = 1..Len(q)
      /\ DOMAIN r = 1..(Len(q) + 1)
      /\ r[Len(q) + 1] = m
      /\ \A k \in 1..Len(q) : r[k] = q[k]
  OBVIOUS
<1>. HIDE DEF r
<1>2. SUFFICES ASSUME NEW j \in DOMAIN r, NEW k \in DOMAIN r, j < k, Live(r, j), Live(r, k)
               PROVE  Number(r, j) < Number(r, k)
  BY DEF Ascending, r
<1>3. j \in DOMAIN q /\ r[j] = q[j]
  BY <1>1, <1>2
<1>4. CASE k \in DOMAIN q
  <2>1. r[k] = q[k]
    BY <1>1, <1>4
  <2>. QED
    BY <1>2, <1>3, <1>4, <2>1 DEF Ascending, Live, Number
<1>5. CASE k = Len(q) + 1
  <2>1. Number(r, j) \in LiveIn(q)
    BY <1>2, <1>3 DEF LiveIn, Live, Number
  <2>. QED
    BY <1>1, <1>2, <1>5, <2>1 DEF Live, Number
<1>. QED
  BY <1>1, <1>4, <1>5

(* The head of a channel takes its samples with it, and the rest is newer. *)
LEMMA TailMessage ==
  ASSUME NEW q \in Seq(Messages), q # <<>>
  PROVE  /\ Tail(q) \in Seq(Messages)
         /\ Head(q) \in Messages
         /\ Head(q) = q[1] /\ 1 \in DOMAIN q
         /\ SamplesIn(q) = ToSet(Head(q).samples) \cup SamplesIn(Tail(q))
         /\ LiveIn(q) = LiveIn(Tail(q)) \cup
              (IF Head(q).name = "InterfaceTraffic" THEN {Head(Head(q).samples)} ELSE {})
         /\ Ascending(q) =>
              /\ Ascending(Tail(q))
              /\ Head(q).name = "InterfaceTraffic" =>
                   \A n \in LiveIn(Tail(q)) : Head(Head(q).samples) < n
<1>. DEFINE r == Tail(q)
            m == Head(q)
<1>1. /\ r \in Seq(Messages) /\ m \in Messages
      /\ Len(q) \in Nat \ {0} /\ DOMAIN q = 1..Len(q)
      /\ DOMAIN r = 1..(Len(q) - 1)
      /\ m = q[1]
      /\ \A k \in 1..(Len(q) - 1) : r[k] = q[k + 1]
  OBVIOUS
<1>. HIDE DEF r, m
<1>2. /\ 1 \in DOMAIN q
      /\ \A k \in DOMAIN r : k + 1 \in DOMAIN q /\ r[k] = q[k + 1] /\ 1 < k + 1
      /\ \A k \in DOMAIN q : k = 1 \/ (k - 1 \in DOMAIN r /\ q[k] = r[k - 1])
  BY <1>1
<1>3. SamplesIn(q) = ToSet(m.samples) \cup SamplesIn(r)
  <2>1. ASSUME NEW n \in SamplesIn(q) PROVE n \in ToSet(m.samples) \cup SamplesIn(r)
    <3>1. PICK k \in DOMAIN q : n \in ToSet(q[k].samples)
      BY DEF SamplesIn
    <3>. QED
      BY <1>1, <1>2, <3>1 DEF SamplesIn
  <2>2. ASSUME NEW n \in SamplesIn(r) PROVE n \in SamplesIn(q)
    <3>1. PICK k \in DOMAIN r : n \in ToSet(r[k].samples)
      BY DEF SamplesIn
    <3>. QED
      BY <1>2, <3>1 DEF SamplesIn
  <2>3. ToSet(m.samples) \subseteq SamplesIn(q)
    BY <1>1, <1>2 DEF SamplesIn
  <2>. QED
    BY <2>1, <2>2, <2>3
<1>4. LiveIn(q) = LiveIn(r) \cup (IF m.name = "InterfaceTraffic" THEN {Head(m.samples)} ELSE {})
  <2>1. ASSUME NEW n \in LiveIn(q)
        PROVE  n \in LiveIn(r) \cup (IF m.name = "InterfaceTraffic" THEN {Head(m.samples)} ELSE {})
    <3>1. PICK k \in DOMAIN q : Live(q, k) /\ n = Number(q, k)
      BY DEF LiveIn
    <3>. QED
      BY <1>1, <1>2, <3>1 DEF LiveIn, Live, Number
  <2>2. ASSUME NEW n \in LiveIn(r) PROVE n \in LiveIn(q)
    <3>1. PICK k \in DOMAIN r : Live(r, k) /\ n = Number(r, k)
      BY DEF LiveIn
    <3>. QED
      BY <1>2, <3>1 DEF LiveIn, Live, Number
  <2>3. ASSUME m.name = "InterfaceTraffic" PROVE Head(m.samples) \in LiveIn(q)
    BY <1>1, <1>2, <2>3 DEF LiveIn, Live, Number
  <2>. QED
    BY <2>1, <2>2, <2>3
<1>5. ASSUME Ascending(q) PROVE Ascending(r)
  <2>. SUFFICES ASSUME NEW j \in DOMAIN r, NEW k \in DOMAIN r, j < k, Live(r, j), Live(r, k)
                PROVE  Number(r, j) < Number(r, k)
    BY DEF Ascending
  <2>1. j + 1 < k + 1
    BY <1>1
  <2>. QED
    BY <1>2, <1>5, <2>1 DEF Ascending, Live, Number
<1>6. ASSUME Ascending(q), m.name = "InterfaceTraffic", NEW n \in LiveIn(r)
      PROVE  Head(m.samples) < n
  <2>1. PICK k \in DOMAIN r : Live(r, k) /\ n = Number(r, k)
    BY DEF LiveIn
  <2>. QED
    BY <1>1, <1>2, <1>6, <2>1 DEF Ascending, Live, Number
<1>. QED
  BY <1>1, <1>2, <1>3, <1>4, <1>5, <1>6 DEF r, m

(* The three kinds of messages. *)
LEMMA Kinds ==
  /\ \A n \in 1..MaxSamples :
       /\ LiveMessage(n) \in Messages /\ LiveMessage(n).name = "InterfaceTraffic"
       /\ ToSet(LiveMessage(n).samples) = {n} /\ Head(LiveMessage(n).samples) = n
       /\ Len(LiveMessage(n).samples) = 1
  /\ \A s \in Seq(1..MaxSamples) :
       /\ CacheMessage(s) \in Messages /\ CacheMessage(s).name # "InterfaceTraffic"
       /\ CacheMessage(s).samples = s
  /\ OtherMessage \in Messages /\ OtherMessage.name # "InterfaceTraffic"
  /\ ToSet(OtherMessage.samples) = {}
<1>1. ASSUME NEW n \in 1..MaxSamples
      PROVE  <<n>> \in Seq(1..MaxSamples) /\ ToSet(<<n>>) = {n} /\ Head(<<n>>) = n /\ Len(<<n>>) = 1
  BY DEF ToSet
<1>2. <<>> \in Seq(1..MaxSamples) /\ ToSet(<<>>) = {}
  BY DEF ToSet
<1>. QED
  BY <1>1, <1>2 DEF Messages, LiveMessage, CacheMessage, OtherMessage

(* An empty channel holds no samples. *)
LEMMA NoMessages == SamplesIn(<<>>) = {} /\ LiveIn(<<>>) = {} /\ Ascending(<<>>)
BY DEF SamplesIn, LiveIn, Ascending

-----------------------------------------------------------------------------
(* The cache. *)

(* The cache is as long as it may be and numbered without a gap. *)
LEMMA CacheFacts ==
  ASSUME TypeOK, SamplesExist
  PROVE  /\ sampled \in Nat /\ CacheSize \in Nat \ {0}
         /\ Len(cache) \in Nat /\ Len(cache) <= sampled /\ Len(cache) <= CacheSize
         /\ Len(cache) = IF sampled < CacheSize THEN sampled ELSE CacheSize
         /\ DOMAIN cache = 1..Len(cache)
         /\ \A k \in 1..Len(cache) : cache[k] = sampled - Len(cache) + k
<1>1. /\ sampled \in 0..MaxSamples /\ cache \in Seq(1..MaxSamples)
      /\ Len(cache) = IF sampled < CacheSize THEN sampled ELSE CacheSize
      /\ \A k \in DOMAIN cache : cache[k] = sampled - Len(cache) + k
  BY DEF TypeOK, SamplesExist
<1>2. Len(cache) \in Nat /\ DOMAIN cache = 1..Len(cache)
  BY <1>1
<1>3. sampled \in Nat /\ CacheSize \in Nat \ {0}
  BY <1>1, Numbers
<1>4. Len(cache) = IF sampled < CacheSize THEN sampled ELSE CacheSize
  BY <1>1
<1>5. Len(cache) <= sampled /\ Len(cache) <= CacheSize
  BY ONLY <1>3, <1>4
<1>6. \A k \in 1..Len(cache) : cache[k] = sampled - Len(cache) + k
  BY <1>1, <1>2
<1>. QED
  BY ONLY <1>2, <1>3, <1>4, <1>5, <1>6

(* The samples in the cache are the newest ones. *)
LEMMA CacheIsTheNewest ==
  ASSUME TypeOK, SamplesExist
  PROVE  /\ Len(cache) \in Nat /\ Len(cache) <= sampled
         /\ ToSet(cache) = (sampled - Len(cache) + 1)..sampled
         /\ ToSet(cache) \subseteq 1..sampled
<1>1. /\ sampled \in Nat /\ Len(cache) \in Nat /\ Len(cache) <= sampled
      /\ DOMAIN cache = 1..Len(cache)
      /\ \A k \in 1..Len(cache) : cache[k] = sampled - Len(cache) + k
  BY CacheFacts
<1>2. ToSet(cache) = {sampled - Len(cache) + k : k \in 1..Len(cache)}
  BY <1>1 DEF ToSet
<1>3. ASSUME NEW n \in (sampled - Len(cache) + 1)..sampled
      PROVE  n - (sampled - Len(cache)) \in 1..Len(cache)
             /\ n = sampled - Len(cache) + (n - (sampled - Len(cache)))
  BY <1>1
<1>4. \A k \in 1..Len(cache) : sampled - Len(cache) + k \in (sampled - Len(cache) + 1)..sampled
  BY <1>1
<1>5. ToSet(cache) = (sampled - Len(cache) + 1)..sampled
  BY <1>2, <1>3, <1>4
<1>. QED
  BY <1>1, <1>5

(* What dropping the first of n + 1 leaves. *)
LEMMA TailOfTheCache ==
  ASSUME NEW S, NEW s \in Seq(S), NEW n \in Nat, Len(s) = n + 1
  PROVE  /\ SubSeq(s, 2, n + 1) \in Seq(S)
         /\ Len(SubSeq(s, 2, n + 1)) = n
         /\ \A k \in 1..n : SubSeq(s, 2, n + 1)[k] = s[k + 1]
OBVIOUS

(* A tick appends the new sample and drops the oldest of a full cache.      *)
LEMMA TickKeepsTheNewest ==
  ASSUME TypeOK, SamplesExist, sampled < MaxSamples,
         NEW c, c = Trim(Append(cache, sampled + 1))
  PROVE  /\ c \in Seq(1..MaxSamples)
         /\ Len(c) = IF sampled + 1 < CacheSize THEN sampled + 1 ELSE CacheSize
         /\ \A k \in DOMAIN c : c[k] = sampled + 1 - Len(c) + k
<1>. DEFINE a == Append(cache, sampled + 1)
<1>1. /\ sampled + 1 \in 1..MaxSamples
      /\ cache \in Seq(1..MaxSamples)
  BY Numbers DEF TypeOK, SamplesExist
<1>2. /\ a \in Seq(1..MaxSamples)
      /\ Len(a) = Len(cache) + 1
      /\ \A k \in 1..Len(cache) : a[k] = cache[k]
      /\ a[Len(cache) + 1] = sampled + 1
  BY <1>1
<1>. HIDE DEF a
<1>3. \A k \in 1..Len(a) : a[k] = sampled + 1 - Len(a) + k
  <2>1. ASSUME NEW k \in 1..Len(cache) PROVE a[k] = sampled - Len(cache) + k
    BY <1>2, CacheFacts
  <2>2. \A k \in 1..Len(a) : k \in 1..Len(cache) \/ k = Len(cache) + 1
    BY <1>2, CacheFacts
  <2>3. sampled + 1 - Len(a) = sampled - Len(cache)
        /\ sampled - Len(cache) + (Len(cache) + 1) = sampled + 1
    BY <1>2, CacheFacts
  <2>. QED
    BY <1>2, <2>1, <2>2, <2>3
<1>4. CASE Len(a) <= CacheSize
  <2>1. c = a
    BY <1>2, <1>4, CacheFacts DEF Trim, a
  <2>2. Len(a) = IF sampled + 1 < CacheSize THEN sampled + 1 ELSE CacheSize
    BY <1>2, <1>4, CacheFacts
  <2>3. DOMAIN a = 1..Len(a)
    BY <1>2
  <2>. QED
    BY <1>2, <1>3, <2>1, <2>2, <2>3
<1>5. CASE Len(a) > CacheSize
  <2>1. Len(a) = CacheSize + 1 /\ sampled >= CacheSize
    BY <1>2, <1>5, CacheFacts
  <2>2. c = SubSeq(a, Len(a) - CacheSize + 1, Len(a))
    BY <1>5 DEF Trim, a
  <2>3. CacheSize \in Nat \ {0} /\ sampled \in Nat /\ Len(a) - CacheSize + 1 = 2
    BY <2>1, CacheFacts
  <2>4. c = SubSeq(a, 2, CacheSize + 1)
    BY <2>1, <2>2, <2>3
  <2>5. /\ c \in Seq(1..MaxSamples)
        /\ Len(c) = CacheSize
        /\ \A k \in 1..CacheSize : c[k] = a[k + 1]
    <3>1. CacheSize \in Nat /\ Len(a) = CacheSize + 1 /\ a \in Seq(1..MaxSamples)
      BY <1>2, <2>1, <2>3
    <3>. HIDE DEF a
    <3>. QED
      BY ONLY <3>1, <2>4, TailOfTheCache
  <2>6. DOMAIN c = 1..CacheSize
    BY <2>5
  <2>7. \A k \in 1..CacheSize :
          k + 1 \in 1..Len(a) /\ a[k + 1] = sampled + 1 - CacheSize + k
    <3>. TAKE k \in 1..CacheSize
    <3>1. k + 1 \in 1..Len(a)
      BY <2>1, <2>3
    <3>2. a[k + 1] = sampled + 1 - Len(a) + (k + 1)
      BY <1>3, <3>1
    <3>. QED
      BY ONLY <2>1, <2>3, <3>1, <3>2, k \in 1..CacheSize
  <2>8. CacheSize = IF sampled + 1 < CacheSize THEN sampled + 1 ELSE CacheSize
    BY ONLY <2>1, <2>3
  <2>. QED
    BY <2>5, <2>6, <2>7, <2>8
<1>. QED
  BY <1>2, <1>4, <1>5, CacheFacts
-----------------------------------------------------------------------------
(* What TrySend and the loop of the session handler do to a channel. *)

(* TrySend adds the message to the one channel, or to none. *)
LEMMA Offer ==
  ASSUME TypeOK, SamplesExist, NEW h \in Handlers, NEW m \in Messages, TrySend(h, m)
  PROVE  /\ channel' \in [Handlers -> Seq(Messages)]
         /\ \A g \in Handlers : Len(channel'[g]) <= ChannelSize
         /\ \A g \in Handlers \ {h} : channel'[g] = channel[g]
         /\ HasRoom(h) => channel'[h] = Append(channel[h], m)
         /\ ~HasRoom(h) => channel' = channel
<1>1. /\ channel \in [Handlers -> Seq(Messages)]
      /\ \A g \in Handlers : Len(channel[g]) <= ChannelSize
  BY DEF TypeOK, SamplesExist
<1>2. CASE HasRoom(h)
  <2>1. channel' = [channel EXCEPT ![h] = Append(@, m)]
    BY <1>2 DEF TrySend
  <2>2. /\ Append(channel[h], m) \in Seq(Messages)
        /\ Len(Append(channel[h], m)) = Len(channel[h]) + 1
        /\ Len(channel[h]) \in Nat
    BY <1>1
  <2>3. Len(channel[h]) + 1 <= ChannelSize
    BY <1>2, <2>2, Numbers DEF HasRoom
  <2>. QED
    BY <1>1, <1>2, <2>1, <2>2, <2>3
<1>3. CASE ~HasRoom(h)
  BY <1>1, <1>3 DEF TrySend
<1>. QED
  BY <1>2, <1>3

(* A message that fits adds its samples. *)
LEMMA OfferedSamples ==
  ASSUME TypeOK, SamplesExist, NEW h \in Handlers, NEW m \in Messages, TrySend(h, m), HasRoom(h)
  PROVE  /\ Underway(h)' = Underway(h) \cup ToSet(m.samples)
         /\ LiveIn(channel[h])' =
              LiveIn(channel[h]) \cup
                (IF m.name = "InterfaceTraffic" THEN {Head(m.samples)} ELSE {})
<1>1. channel[h] \in Seq(Messages) /\ channel'[h] = Append(channel[h], m)
  BY Offer DEF SamplesExist
<1>. QED
  BY <1>1, AppendMessage DEF Underway

(* Every live message holds one sample. *)
LEMMA OfferedLive ==
  ASSUME TypeOK, SamplesExist, NEW h \in Handlers, NEW m \in Messages, TrySend(h, m),
         m.name = "InterfaceTraffic" => Len(m.samples) = 1
  PROVE  \A g \in Handlers : \A k \in DOMAIN channel'[g] :
           Live(channel'[g], k) => Len(channel'[g][k].samples) = 1
<1>1. SUFFICES ASSUME NEW g \in Handlers, NEW k \in DOMAIN channel'[g], Live(channel'[g], k)
               PROVE  Len(channel'[g][k].samples) = 1
  OBVIOUS
<1>2. CASE channel'[g] = channel[g]
  BY <1>1, <1>2 DEF SamplesExist
<1>3. CASE g = h /\ channel'[h] = Append(channel[h], m)
  <2>1. /\ DOMAIN channel'[h] = DOMAIN channel[h] \cup {Len(channel[h]) + 1}
        /\ \A i \in DOMAIN channel[h] : channel'[h][i] = channel[h][i]
        /\ channel'[h][Len(channel[h]) + 1] = m
    <3>1. channel[h] \in Seq(Messages)
      BY DEF SamplesExist
    <3>. QED
      BY <1>3, <3>1
  <2>2. CASE k \in DOMAIN channel[h]
    <3>1. channel'[g][k] = channel[h][k]
      BY <1>3, <2>1, <2>2
    <3>. QED
      BY <1>1, <1>3, <2>2, <3>1 DEF SamplesExist, Live
  <2>3. CASE k = Len(channel[h]) + 1
    BY <1>1, <1>3, <2>1, <2>3 DEF Live
  <2>. QED
    BY <1>3, <2>1, <2>2, <2>3
<1>. QED
  BY <1>2, <1>3, Offer

(* The head of a channel is forwarded. *)
LEMMA Taken ==
  ASSUME TypeOK, SamplesExist, NEW h \in Handlers, Forward(h),
         NEW m, m = Head(channel[h])
  PROVE  /\ m \in Messages
         /\ channel' \in [Handlers -> Seq(Messages)]
         /\ \A g \in Handlers : Len(channel'[g]) <= ChannelSize
         /\ \A g \in Handlers \ {h} : channel'[g] = channel[g]
         /\ channel'[h] = Tail(channel[h])
         /\ m.name = "InterfaceTraffic" => Head(m.samples) \in ToSet(m.samples)
         /\ ToSet(m.samples) \subseteq 1..sampled
         /\ Underway(h) = ToSet(m.samples) \cup Underway(h)'
         /\ \A g \in Handlers : \A k \in DOMAIN channel'[g] :
              Live(channel'[g], k) => Len(channel'[g][k].samples) = 1
<1>1. /\ channel \in [Handlers -> Seq(Messages)]
      /\ \A g \in Handlers : Len(channel[g]) <= ChannelSize
      /\ channel[h] # <<>>
      /\ channel' = [channel EXCEPT ![h] = Tail(@)]
  BY DEF TypeOK, SamplesExist, Forward
<1>2. /\ Tail(channel[h]) \in Seq(Messages)
      /\ m \in Messages /\ m = channel[h][1] /\ 1 \in DOMAIN channel[h]
      /\ SamplesIn(channel[h]) = ToSet(m.samples) \cup SamplesIn(Tail(channel[h]))
  BY <1>1, TailMessage
<1>3. Len(Tail(channel[h])) = Len(channel[h]) - 1
      /\ Len(channel[h]) \in Nat \ {0}
      /\ DOMAIN channel[h] = 1..Len(channel[h])
      /\ DOMAIN Tail(channel[h]) = 1..(Len(channel[h]) - 1)
      /\ \A k \in 1..(Len(channel[h]) - 1) : Tail(channel[h])[k] = channel[h][k + 1]
  BY <1>1
<1>4. Len(Tail(channel[h])) <= ChannelSize
  BY <1>1, <1>3, Numbers
<1>5. /\ channel' \in [Handlers -> Seq(Messages)]
      /\ \A g \in Handlers \ {h} : channel'[g] = channel[g]
      /\ channel'[h] = Tail(channel[h])
  BY <1>1, <1>2
<1>6. Underway(h) = ToSet(m.samples) \cup Underway(h)'
  BY <1>2, <1>5 DEF Underway
<1>7. ToSet(m.samples) \subseteq 1..sampled
  BY <1>6 DEF SamplesExist
<1>8. m.name = "InterfaceTraffic" => Head(m.samples) \in ToSet(m.samples)
  <2>. SUFFICES ASSUME m.name = "InterfaceTraffic" PROVE Head(m.samples) \in ToSet(m.samples)
    OBVIOUS
  <2>1. Len(m.samples) = 1
    BY <1>2 DEF SamplesExist, Live
  <2>2. m.samples \in Seq(1..MaxSamples)
    BY <1>2 DEF Messages
  <2>. QED
    BY <2>1, <2>2 DEF ToSet
<1>9. ASSUME NEW g \in Handlers, NEW k \in DOMAIN channel'[g], Live(channel'[g], k)
      PROVE  Len(channel'[g][k].samples) = 1
  <2>1. CASE g # h
    BY <1>5, <1>9, <2>1 DEF SamplesExist
  <2>2. CASE g = h
    <3>1. k + 1 \in DOMAIN channel[h] /\ channel'[g][k] = channel[h][k + 1]
      <4>1. channel'[g] = Tail(channel[h])
        BY <1>5, <2>2
      <4>2. k \in 1..(Len(channel[h]) - 1)
        BY <1>3, <1>9, <4>1
      <4>3. k + 1 \in 1..Len(channel[h])
        BY <1>3, <4>2
      <4>. QED
        BY <1>3, <4>1, <4>2, <4>3
    <3>. QED
      BY <1>9, <3>1 DEF SamplesExist, Live
  <2>. QED
    BY <2>1, <2>2
<1>10. \A g \in Handlers : Len(channel'[g]) <= ChannelSize
  BY <1>1, <1>4, <1>5
<1>. QED
  BY <1>2, <1>5, <1>6, <1>7, <1>8, <1>9, <1>10
-----------------------------------------------------------------------------
(* The steps of the lifecycle. *)

(* What the handler of h may do to its page and to the map. *)
LEMMA PagesMove ==
  ASSUME TypeOK, NEW h \in Handlers
  PROVE  /\ Life!Register(h) =>
              /\ page[h] = "away" /\ page' = [page EXCEPT ![h] = "joined"]
              /\ registered' \subseteq registered \cup {h}
         /\ Life!Stream(h) =>
              /\ page[h] = "joined" /\ page' = [page EXCEPT ![h] = "streams"]
              /\ registered' = registered
         /\ Life!Stop(h) =>
              /\ page[h] = "streams" /\ page' = [page EXCEPT ![h] = "stopped"]
              /\ registered' = registered
         /\ Life!Return(h) =>
              /\ page[h] = "stopped" /\ page' = [page EXCEPT ![h] = "returned"]
              /\ registered' \subseteq registered
BY DEF Life!Register, Life!Stream, Life!Stop, Life!Return, Life!Proceed

(* Entries leave the map, at most while a handler returns. *)
Departs == LeaveMap \/ \E h \in Handlers : Return(h)

LEMMA Departures ==
  ASSUME TypeOK, Departs
  PROVE  /\ registered' \subseteq registered
         /\ page' \in [Handlers -> {"away", "joined", "streams", "stopped", "returned"}]
         /\ \A k \in Handlers :
              page'[k] = page[k] \/ (page[k] = "stopped" /\ page'[k] = "returned")
         /\ UNCHANGED <<sampled, cache, tpc, targets, channel, refused, shown, lastLive>>
         /\ UNCHANGED <<reqSession, reqCache>>
<1>1. CASE LeaveMap
  BY <1>1 DEF LeaveMap, Life!Leave, timerVars, requestVars, TypeOK
<1>2. ASSUME NEW h \in Handlers, Return(h)
      PROVE  /\ page[h] = "stopped" /\ page' = [page EXCEPT ![h] = "returned"]
             /\ registered' \subseteq registered
             /\ UNCHANGED <<sampled, cache, tpc, targets, channel, refused, shown, lastLive>>
             /\ UNCHANGED <<reqSession, reqCache>>
  BY <1>2, PagesMove DEF Return, timerVars, requestVars
<1>. QED
  BY <1>1, <1>2 DEF Departs, TypeOK

-----------------------------------------------------------------------------
(* The initial state. *)

(* The invariant holds at the start. *)
LEMMA Initially == ASSUME Init PROVE Inv
<1>. USE Numbers DEF Init, Life!Init
<1>1. TypeOK
  <2>1. <<>> \in Seq(1..MaxSamples) /\ Len(<<>>) = 0 /\ DOMAIN <<>> = {}
    OBVIOUS
  <2>2. Len(cache) = IF sampled < CacheSize THEN sampled ELSE CacheSize
    BY <2>1
  <2>3. lastLive \in [Handlers -> 0..MaxSamples] /\ sampled \in 0..MaxSamples
    OBVIOUS
  <2>4. \A h \in Handlers : Len(channel[h]) <= ChannelSize
    BY <2>1
  <2>. QED
    BY <2>1, <2>2, <2>3, <2>4 DEF TypeOK, NoCopy
<1>2. \A h \in Handlers : channel[h] = <<>> /\ Underway(h) = {} /\ LiveIn(channel[h]) = {}
                          /\ Ascending(channel[h]) /\ shown[h] = {} /\ lastLive[h] = 0
  BY NoMessages DEF Underway
<1>3. SamplesExist
  <2>1. channel \in [Handlers -> Seq(Messages)] /\ cache \in Seq(1..MaxSamples)
    OBVIOUS
  <2>2. ToSet(reqCache) = {}
    BY DEF NoCopy, ToSet
  <2>. QED
    BY <1>2, <2>1, <2>2 DEF SamplesExist
<1>4. PagesBegin
  BY DEF PagesBegin
<1>5. NothingIsMissed
  BY DEF NothingIsMissed
<1>6. \A h \in Handlers : Stream(h) = {}
  BY <1>2 DEF Stream
<1>7. StreamsAscend /\ StreamsHaveNoGap
  BY <1>2, <1>6 DEF StreamsAscend, StreamsHaveNoGap, StreamAscends, StreamHasNoGap
<1>. QED
  BY <1>1, <1>3, <1>4, <1>5, <1>7 DEF Inv

-----------------------------------------------------------------------------
(* TypeOK *)

(* Every step keeps the types and the cache. *)
LEMMA TypeStep ==
  ASSUME TypeOK, SamplesExist, [Next]_vars
  PROVE  TypeOK'
<1>. USE DEF TypeOK
<1>1. CASE Sample
  <2>1. sampled' = sampled + 1 /\ sampled < MaxSamples
        /\ cache' = Trim(Append(cache, sampled + 1))
        /\ UNCHANGED <<registered, targets, streamVars, requestVars>>
    BY <1>1 DEF Sample
  <2>2. /\ Len(cache') = IF sampled' < CacheSize THEN sampled' ELSE CacheSize
        /\ \A k \in DOMAIN cache' : cache'[k] = sampled' - Len(cache') + k
    BY <2>1, TickKeepsTheNewest
  <2>3. sampled' \in 0..MaxSamples
    BY <2>1, Numbers
  <2>4. tpc' = "list"
    BY <1>1 DEF Sample
  <2>. QED
    BY <2>1, <2>2, <2>3, <2>4 DEF streamVars, requestVars
<1>2. CASE SnapshotClients
  BY <1>2 DEF SnapshotClients, streamVars, requestVars
<1>3. CASE BroadcastEnds
  BY <1>3 DEF BroadcastEnds, streamVars, requestVars
<1>4. CASE AnswerCacheRequest
  <2>1. reqSession \in Handlers /\ CacheMessage(reqCache) \in Messages
    BY <1>4, Kinds DEF AnswerCacheRequest
  <2>2. \A g \in Handlers : Len(channel'[g]) <= ChannelSize
    BY <1>4, <2>1, Offer DEF AnswerCacheRequest
  <2>3. reqCache' \in Seq(1..MaxSamples)
    BY <1>4 DEF AnswerCacheRequest, NoCopy
  <2>4. reqSession' = NoSession /\ UNCHANGED <<registered, timerVars, page, refused, shown, lastLive>>
    BY <1>4 DEF AnswerCacheRequest
  <2>. QED
    BY <2>2, <2>3, <2>4 DEF timerVars
<1>5. ASSUME NEW h \in Handlers, AddClient(h) PROVE TypeOK'
  <2>1. registered' \subseteq registered \cup {h} /\ page' = [page EXCEPT ![h] = "joined"]
    BY <1>5, PagesMove DEF AddClient
  <2>. QED
    BY <1>5, <2>1 DEF AddClient, timerVars, requestVars
<1>6. ASSUME NEW h \in Handlers, SendCache(h) PROVE TypeOK'
  <2>1. ToSet(cache) \subseteq 1..MaxSamples
    <3>1. 1..sampled \subseteq 1..MaxSamples
      BY Numbers
    <3>. QED
      BY <3>1, CacheIsTheNewest
  <2>2. registered' = registered /\ page' = [page EXCEPT ![h] = "streams"]
    BY <1>6, PagesMove DEF SendCache
  <2>. QED
    BY <1>6, <2>1, <2>2 DEF SendCache, InterfaceCachesSnapshot, timerVars, requestVars
<1>7. ASSUME NEW h \in Handlers, Forward(h) PROVE TypeOK'
  <2>. DEFINE m == Head(channel[h])
  <2>1. /\ \A g \in Handlers : Len(channel'[g]) <= ChannelSize
        /\ ToSet(m.samples) \subseteq 1..sampled
        /\ m.name = "InterfaceTraffic" => Head(m.samples) \in ToSet(m.samples)
    BY <1>7, Taken
  <2>2. 1..sampled \subseteq 1..MaxSamples
    BY Numbers
  <2>. HIDE DEF m
  <2>3. /\ shown' = [shown EXCEPT ![h] = @ \cup ToSet(m.samples)]
        /\ lastLive' = [lastLive EXCEPT
              ![h] = IF m.name = "InterfaceTraffic" THEN Head(m.samples) ELSE @]
        /\ UNCHANGED <<registered, timerVars, page, refused, requestVars>>
    BY <1>7 DEF Forward, m
  <2>4. shown' \in [Handlers -> SUBSET (1..MaxSamples)]
    BY <2>1, <2>2, <2>3
  <2>5. lastLive' \in [Handlers -> 0..MaxSamples]
    BY <2>1, <2>2, <2>3
  <2>. QED
    BY <2>1, <2>3, <2>4, <2>5 DEF timerVars, requestVars
<1>8. ASSUME NEW h \in Handlers, StopStreaming(h) PROVE TypeOK'
  <2>1. \A g \in Handlers : Len(channel'[g]) <= ChannelSize
    BY <1>8, Numbers DEF StopStreaming, SamplesExist
  <2>2. lastLive' \in [Handlers -> 0..MaxSamples]
    BY <1>8, Numbers DEF StopStreaming
  <2>3. registered' = registered /\ page' = [page EXCEPT ![h] = "stopped"]
    BY <1>8, PagesMove DEF StopStreaming
  <2>. QED
    BY <1>8, <2>1, <2>2, <2>3 DEF StopStreaming, timerVars, requestVars
<1>9. CASE Departs
  BY <1>9, Departures
<1>10. ASSUME NEW h \in Handlers, SendSample(h) PROVE TypeOK'
  <2>1. LiveMessage(sampled) \in Messages
    BY <1>10, Kinds DEF SamplesExist, SendSample
  <2>2. \A g \in Handlers : Len(channel'[g]) <= ChannelSize
    BY <1>10, <2>1, Offer DEF SendSample
  <2>3. refused' \in [Handlers -> BOOLEAN]
    BY <1>10 DEF SendSample
  <2>. QED
    BY <1>10, <2>2, <2>3 DEF SendSample, requestVars
<1>11. ASSUME NEW h \in Handlers, SendOther(h) PROVE TypeOK'
  <2>1. \A g \in Handlers : Len(channel'[g]) <= ChannelSize
    BY <1>11, Kinds, Offer DEF SendOther
  <2>. QED
    BY <1>11, <2>1 DEF SendOther, timerVars, requestVars
<1>12. ASSUME NEW h \in Handlers, AdmitCacheRequest(h) PROVE TypeOK'
  BY <1>12 DEF AdmitCacheRequest, InterfaceCachesSnapshot, SamplesExist, timerVars, streamVars
<1>13. CASE UNCHANGED vars
  BY <1>13 DEF vars, timerVars, streamVars, requestVars
<1>. QED
  BY <1>1, <1>2, <1>3, <1>4, <1>5, <1>6, <1>7, <1>8, <1>9, <1>10, <1>11, <1>12, <1>13 DEF Next, Departs
-----------------------------------------------------------------------------
(* SamplesExist *)

(* No step makes up a sample. *)
LEMMA SamplesExistStep ==
  ASSUME TypeOK, SamplesExist, [Next]_vars
  PROVE  SamplesExist'
<1>. USE DEF SamplesExist
<1>0. ASSUME UNCHANGED <<sampled, cache, tpc, targets, channel, shown, reqCache>>
      PROVE  SamplesExist'
  BY <1>0 DEF Underway
<1>1. CASE Sample
  <2>1. /\ sampled' = sampled + 1 /\ sampled < MaxSamples
        /\ cache' = Trim(Append(cache, sampled + 1))
        /\ UNCHANGED <<targets, channel, shown, reqCache>>
        /\ tpc = "tick" /\ tpc' = "list"
    BY <1>1 DEF Sample, streamVars, requestVars
  <2>2. cache' \in Seq(1..MaxSamples)
    BY <2>1, TickKeepsTheNewest
  <2>3. 1..sampled \subseteq 1..sampled' /\ sampled' > 0
    BY <2>1 DEF TypeOK
  <2>. QED
    BY <2>1, <2>2, <2>3 DEF Underway
<1>2. CASE SnapshotClients
  <2>1. /\ tpc = "list" /\ tpc' = "send"
        /\ UNCHANGED <<sampled, cache, channel, shown, reqCache>>
    BY <1>2 DEF SnapshotClients, streamVars, requestVars
  <2>. QED
    BY <2>1 DEF Underway
<1>3. CASE BroadcastEnds
  <2>1. /\ tpc' = "tick" /\ targets' = {}
        /\ UNCHANGED <<sampled, cache, channel, shown, reqCache>>
    BY <1>3 DEF BroadcastEnds, streamVars, requestVars
  <2>. QED
    BY <2>1 DEF Underway
<1>4. CASE AnswerCacheRequest
  <2>0. PICK h \in Handlers : h = reqSession
    BY <1>4 DEF AnswerCacheRequest, TypeOK
  <2>. DEFINE m == CacheMessage(reqCache)
  <2>1. /\ TrySend(h, m)
        /\ UNCHANGED <<sampled, cache, tpc, targets, shown>> /\ reqCache' = <<>>
    BY <1>4, <2>0 DEF AnswerCacheRequest, timerVars, NoCopy
  <2>2. m \in Messages /\ m.name # "InterfaceTraffic" /\ m.samples = reqCache
    BY Kinds DEF TypeOK
  <2>. HIDE DEF m
  <2>3. /\ channel' \in [Handlers -> Seq(Messages)]
        /\ \A g \in Handlers \ {h} : channel'[g] = channel[g]
        /\ ~HasRoom(h) => channel' = channel
    BY <2>1, <2>2, Offer
  <2>4. \A g \in Handlers : \A k \in DOMAIN channel'[g] :
          Live(channel'[g], k) => Len(channel'[g][k].samples) = 1
    BY <2>1, <2>2, OfferedLive
  <2>5. Underway(h)' \subseteq Underway(h) \cup ToSet(reqCache)
    BY <2>1, <2>2, <2>3, OfferedSamples DEF Underway
  <2>6. \A g \in Handlers : Underway(g)' \subseteq Underway(g) \cup ToSet(reqCache)
    BY <2>3, <2>5 DEF Underway
  <2>7. ToSet(reqCache') = {}
    BY <2>1 DEF ToSet
  <2>. QED
    BY <2>1, <2>3, <2>4, <2>6, <2>7
<1>5. ASSUME NEW h \in Handlers, AddClient(h) PROVE SamplesExist'
  BY <1>0, <1>5 DEF AddClient, timerVars, requestVars
<1>6. ASSUME NEW h \in Handlers, SendCache(h) PROVE SamplesExist'
  <2>1. /\ shown' = [shown EXCEPT ![h] = ToSet(cache)]
        /\ UNCHANGED <<sampled, cache, tpc, targets, channel, reqCache>>
    BY <1>6 DEF SendCache, InterfaceCachesSnapshot, timerVars, requestVars
  <2>2. ToSet(cache) \subseteq 1..sampled
    BY CacheIsTheNewest
  <2>3. \A g \in Handlers : shown'[g] \cup Underway(g)' \subseteq 1..sampled
    BY <2>1, <2>2 DEF Underway, TypeOK
  <2>. QED
    BY <2>1, <2>3
<1>7. ASSUME NEW h \in Handlers, Forward(h) PROVE SamplesExist'
  <2>. DEFINE m == Head(channel[h])
  <2>1. /\ shown' = [shown EXCEPT ![h] = @ \cup ToSet(m.samples)]
        /\ UNCHANGED <<sampled, cache, tpc, targets, reqCache>>
    BY <1>7 DEF Forward, timerVars, requestVars
  <2>2. /\ channel' \in [Handlers -> Seq(Messages)]
        /\ \A g \in Handlers \ {h} : channel'[g] = channel[g]
        /\ ToSet(m.samples) \subseteq 1..sampled
        /\ Underway(h)' \subseteq Underway(h)
        /\ \A g \in Handlers : \A k \in DOMAIN channel'[g] :
             Live(channel'[g], k) => Len(channel'[g][k].samples) = 1
    BY <1>7, Taken
  <2>. HIDE DEF m
  <2>3. \A g \in Handlers : shown'[g] \cup Underway(g)' \subseteq 1..sampled
    <3>1. ASSUME NEW g \in Handlers PROVE shown'[g] \cup Underway(g)' \subseteq 1..sampled
      <4>1. CASE g = h
        BY <2>1, <2>2, <4>1 DEF TypeOK
      <4>2. CASE g # h
        BY <2>1, <2>2, <4>2 DEF TypeOK, Underway
      <4>. QED
        BY <4>1, <4>2
    <3>. QED
      BY <3>1
  <2>. QED
    BY <2>1, <2>2, <2>3
<1>8. ASSUME NEW h \in Handlers, StopStreaming(h) PROVE SamplesExist'
  <2>1. /\ channel' = [channel EXCEPT ![h] = <<>>]
        /\ shown' = [shown EXCEPT ![h] = {}]
        /\ UNCHANGED <<sampled, cache, tpc, targets, reqCache>>
    BY <1>8 DEF StopStreaming, timerVars, requestVars
  <2>2. /\ channel' \in [Handlers -> Seq(Messages)]
        /\ \A g \in Handlers : channel'[g] = channel[g] \/ channel'[g] = <<>>
    BY <2>1
  <2>3. \A g \in Handlers : Underway(g)' \subseteq Underway(g)
    BY <2>2, NoMessages DEF Underway
  <2>4. \A g \in Handlers : shown'[g] \subseteq shown[g]
    BY <2>1 DEF TypeOK
  <2>. QED
    BY <2>1, <2>2, <2>3, <2>4
<1>9. CASE Departs
  BY <1>0, <1>9, Departures
<1>10. ASSUME NEW h \in Handlers, SendSample(h) PROVE SamplesExist'
  <2>. DEFINE m == LiveMessage(sampled)
  <2>1. /\ TrySend(h, m) /\ tpc = "send"
        /\ UNCHANGED <<sampled, cache, tpc, shown, reqCache>>
    BY <1>10 DEF SendSample, requestVars
  <2>2. sampled \in 1..MaxSamples /\ sampled \in 1..sampled
    BY <2>1 DEF TypeOK
  <2>3. m \in Messages /\ Len(m.samples) = 1 /\ ToSet(m.samples) = {sampled}
    BY <2>2, Kinds
  <2>. HIDE DEF m
  <2>4. /\ channel' \in [Handlers -> Seq(Messages)]
        /\ \A g \in Handlers \ {h} : channel'[g] = channel[g]
        /\ ~HasRoom(h) => channel' = channel
    BY <2>1, <2>3, Offer
  <2>5. \A g \in Handlers : \A k \in DOMAIN channel'[g] :
          Live(channel'[g], k) => Len(channel'[g][k].samples) = 1
    BY <2>1, <2>3, OfferedLive
  <2>6. Underway(h)' \subseteq Underway(h) \cup {sampled}
    BY <2>1, <2>3, <2>4, OfferedSamples DEF Underway
  <2>7. \A g \in Handlers : Underway(g)' \subseteq Underway(g) \cup {sampled}
    BY <2>4, <2>6 DEF Underway
  <2>. QED
    BY <2>1, <2>2, <2>4, <2>5, <2>7
<1>11. ASSUME NEW h \in Handlers, SendOther(h) PROVE SamplesExist'
  <2>1. /\ TrySend(h, OtherMessage) /\ HasRoom(h)
        /\ UNCHANGED <<sampled, cache, tpc, targets, shown, reqCache>>
    BY <1>11 DEF SendOther, timerVars, requestVars
  <2>2. /\ channel' \in [Handlers -> Seq(Messages)]
        /\ \A g \in Handlers \ {h} : channel'[g] = channel[g]
    BY <2>1, Kinds, Offer
  <2>3. \A g \in Handlers : \A k \in DOMAIN channel'[g] :
          Live(channel'[g], k) => Len(channel'[g][k].samples) = 1
    BY <2>1, Kinds, OfferedLive
  <2>4. Underway(h)' = Underway(h)
    <3>. DEFINE m == OtherMessage
    <3>1. m \in Messages /\ ToSet(m.samples) = {} /\ TrySend(h, m)
      BY <2>1, Kinds
    <3>. HIDE DEF m
    <3>2. Underway(h)' = Underway(h) \cup ToSet(m.samples)
      BY ONLY TypeOK, SamplesExist, h \in Handlers, <2>1, <3>1, OfferedSamples
    <3>. QED
      BY ONLY <3>1, <3>2
  <2>5. \A g \in Handlers : Underway(g)' = Underway(g)
    BY <2>2, <2>4 DEF Underway
  <2>. QED
    BY <2>1, <2>2, <2>3, <2>5
<1>12. ASSUME NEW h \in Handlers, AdmitCacheRequest(h) PROVE SamplesExist'
  <2>1. reqCache' = cache /\ UNCHANGED <<sampled, cache, tpc, targets, channel, shown>>
    BY <1>12 DEF AdmitCacheRequest, InterfaceCachesSnapshot, timerVars, streamVars
  <2>. QED
    BY <2>1, CacheIsTheNewest DEF Underway
<1>13. CASE UNCHANGED vars
  BY <1>0, <1>13 DEF vars, timerVars, streamVars, requestVars
<1>. QED
  BY <1>1, <1>2, <1>3, <1>4, <1>5, <1>6, <1>7, <1>8, <1>9, <1>10, <1>11, <1>12, <1>13 DEF Next, Departs

-----------------------------------------------------------------------------
(* PagesBegin *)

(* Nothing reaches a page that does not stream. *)
LEMMA PagesBeginStep ==
  ASSUME TypeOK, SamplesExist, PagesBegin, [Next]_vars
  PROVE  PagesBegin'
<1>. USE DEF PagesBegin
<1>1. CASE Sample
  BY <1>1 DEF Sample, streamVars, requestVars
<1>2. CASE SnapshotClients
  BY <1>2 DEF SnapshotClients, streamVars, requestVars
<1>3. CASE BroadcastEnds
  BY <1>3 DEF BroadcastEnds, streamVars, requestVars
<1>4. CASE AnswerCacheRequest
  <2>1. /\ reqSession \in Handlers /\ TrySend(reqSession, CacheMessage(reqCache))
        /\ reqSession' = NoSession
        /\ UNCHANGED <<registered, timerVars, page, shown, lastLive>>
    BY <1>4 DEF AnswerCacheRequest, TypeOK
  <2>2. \A g \in Handlers \ {reqSession} : channel'[g] = channel[g]
    BY <2>1, Kinds, Offer DEF TypeOK
  <2>. QED
    BY <2>1, <2>2, Numbers DEF timerVars
<1>5. ASSUME NEW h \in Handlers, AddClient(h) PROVE PagesBegin'
  <2>1. /\ page[h] = "away" /\ page' = [page EXCEPT ![h] = "joined"]
        /\ registered' \subseteq registered \cup {h}
    BY <1>5, PagesMove DEF AddClient
  <2>. QED
    BY <1>5, <2>1 DEF AddClient, timerVars, requestVars, TypeOK
<1>6. ASSUME NEW h \in Handlers, SendCache(h) PROVE PagesBegin'
  <2>1. page' = [page EXCEPT ![h] = "streams"] /\ registered' = registered
    BY <1>6, PagesMove DEF SendCache
  <2>. QED
    BY <1>6, <2>1 DEF SendCache, timerVars, requestVars, TypeOK
<1>7. ASSUME NEW h \in Handlers, Forward(h) PROVE PagesBegin'
  <2>1. /\ page[h] = "streams"
        /\ \A g \in Handlers \ {h} :
             shown'[g] = shown[g] /\ lastLive'[g] = lastLive[g] /\ channel'[g] = channel[g]
        /\ UNCHANGED <<registered, timerVars, page, requestVars>>
    BY <1>7 DEF Forward, TypeOK, SamplesExist
  <2>. QED
    BY <2>1 DEF timerVars, requestVars
<1>8. ASSUME NEW h \in Handlers, StopStreaming(h) PROVE PagesBegin'
  <2>1. page' = [page EXCEPT ![h] = "stopped"] /\ registered' = registered
    BY <1>8, PagesMove DEF StopStreaming
  <2>. QED
    BY <1>8, <2>1 DEF StopStreaming, timerVars, requestVars, TypeOK, SamplesExist
<1>9. CASE Departs
  BY <1>9, Departures
<1>10. ASSUME NEW h \in Handlers, SendSample(h) PROVE PagesBegin'
  <2>1. /\ TrySend(h, LiveMessage(sampled)) /\ tpc = "send" /\ h \in targets
        /\ targets' = targets \ {h}
        /\ UNCHANGED <<registered, page, shown, lastLive, requestVars>>
    BY <1>10 DEF SendSample
  <2>2. LiveMessage(sampled) \in Messages
    BY <2>1, Kinds DEF TypeOK, SamplesExist
  <2>3. \A g \in Handlers \ {h} : channel'[g] = channel[g]
    BY <2>1, <2>2, Offer
  <2>. QED
    BY <2>1, <2>3 DEF requestVars
<1>11. ASSUME NEW h \in Handlers, SendOther(h) PROVE PagesBegin'
  <2>1. /\ TrySend(h, OtherMessage) /\ page[h] # "away"
        /\ UNCHANGED <<registered, timerVars, page, shown, lastLive, requestVars>>
    BY <1>11 DEF SendOther
  <2>2. \A g \in Handlers \ {h} : channel'[g] = channel[g]
    BY <2>1, Kinds, Offer
  <2>. QED
    BY <2>1, <2>2 DEF timerVars, requestVars
<1>12. ASSUME NEW h \in Handlers, AdmitCacheRequest(h) PROVE PagesBegin'
  BY <1>12 DEF AdmitCacheRequest, timerVars, streamVars
<1>13. CASE UNCHANGED vars
  BY <1>13 DEF vars, timerVars, streamVars, requestVars
<1>. QED
  BY <1>1, <1>2, <1>3, <1>4, <1>5, <1>6, <1>7, <1>8, <1>9, <1>10, <1>11, <1>12, <1>13 DEF Next, Departs
-----------------------------------------------------------------------------
(* NothingIsMissed *)

(* What a session has or holds, what it is about to be sent and the copy    *)
(* that it is about to get stay as they are.                                *)
LEMMA StillCovered ==
  ASSUME NEW h \in Handlers, Covered(h), sampled' = sampled,
         shown'[h] \cup Underway(h)' = shown[h] \cup Underway(h),
         BeingSent(h)' = BeingSent(h),
         reqSession' = h => reqSession = h /\ reqCache' = reqCache
  PROVE  Covered(h)'
<1>. DEFINE had == shown[h] \cup Underway(h)
<1>1. had' = had /\ BeingSent(h)' = BeingSent(h) /\ sampled' = sampled
  OBVIOUS
<1>. HIDE DEF had
<1>2. \A n \in had' : n..sampled' \subseteq had' \cup BeingSent(h)'
  BY <1>1 DEF Covered, had
<1>3. reqSession' = h =>
        \A n \in ToSet(reqCache') :
          n..sampled' \subseteq ToSet(reqCache') \cup had' \cup BeingSent(h)'
  BY <1>1 DEF Covered, had
<1>. QED
  BY <1>2, <1>3 DEF Covered, had

(* No step leaves a sample out. *)
LEMMA NothingIsMissedStep ==
  ASSUME TypeOK, SamplesExist, PagesBegin, NothingIsMissed, [Next]_vars
  PROVE  NothingIsMissed'
<1>. SUFFICES ASSUME NEW g \in Handlers, g \in registered', ~refused'[g],
                     page'[g] \notin {"stopped", "returned"}
              PROVE  Covered(g)'
  BY DEF NothingIsMissed
<1>1. CASE Sample
  <2>1. /\ sampled' = sampled + 1 /\ tpc = "tick" /\ tpc' = "list" /\ targets = {}
        /\ UNCHANGED <<registered, channel, shown, refused, page, reqSession, reqCache>>
    BY <1>1 DEF Sample, streamVars, requestVars, SamplesExist
  <2>2. Covered(g) /\ BeingSent(g) = {} /\ BeingSent(g)' = {sampled + 1}
    BY <2>1 DEF NothingIsMissed, BeingSent
  <2>3. Underway(g)' = Underway(g)
    BY <2>1 DEF Underway
  <2>4. \A n \in Int : n..(sampled + 1) \subseteq (n..sampled) \cup {sampled + 1}
    BY DEF TypeOK
  <2>5. shown[g] \cup Underway(g) \subseteq Int /\ ToSet(reqCache) \subseteq Int
    BY DEF SamplesExist, TypeOK
  <2>. DEFINE had == shown[g] \cup Underway(g)
  <2>6. had' = had
    BY <2>1, <2>3
  <2>. HIDE DEF had
  <2>7. ASSUME NEW n \in had PROVE n..(sampled + 1) \subseteq had \cup {sampled + 1}
    <3>1. n..sampled \subseteq had
      BY <2>2, <2>7 DEF Covered, had
    <3>. QED
      BY <2>4, <2>5, <2>7, <3>1 DEF had
  <2>8. ASSUME reqSession = g, NEW n \in ToSet(reqCache)
        PROVE  n..(sampled + 1) \subseteq ToSet(reqCache) \cup had \cup {sampled + 1}
    <3>1. n..sampled \subseteq ToSet(reqCache) \cup had
      BY <2>2, <2>8 DEF Covered, had
    <3>. QED
      BY <2>4, <2>5, <2>8, <3>1
  <2>. QED
    BY <2>1, <2>2, <2>6, <2>7, <2>8 DEF Covered, had
<1>2. CASE SnapshotClients
  <2>1. /\ tpc = "list" /\ tpc' = "send" /\ targets' = registered
        /\ UNCHANGED <<sampled, registered, channel, shown, refused, page, reqSession, reqCache>>
    BY <1>2 DEF SnapshotClients, streamVars, requestVars
  <2>2. Covered(g) /\ BeingSent(g)' = BeingSent(g)
    BY <2>1 DEF NothingIsMissed, BeingSent
  <2>. QED
    BY <2>1, <2>2, StillCovered DEF Underway
<1>3. CASE BroadcastEnds
  <2>1. /\ tpc = "send" /\ tpc' = "tick" /\ targets = {}
        /\ UNCHANGED <<sampled, targets, registered, channel, shown, refused, page>>
        /\ UNCHANGED <<reqSession, reqCache>>
    BY <1>3 DEF BroadcastEnds, streamVars, requestVars
  <2>2. Covered(g) /\ BeingSent(g)' = BeingSent(g)
    BY <2>1 DEF NothingIsMissed, BeingSent
  <2>. QED
    BY <2>1, <2>2, StillCovered DEF Underway
<1>4. CASE AnswerCacheRequest
  <2>0. PICK h \in Handlers : h = reqSession
    BY <1>4 DEF AnswerCacheRequest, TypeOK
  <2>. DEFINE m == CacheMessage(reqCache)
              had == shown[g] \cup Underway(g)
  <2>1. /\ TrySend(h, m) /\ reqSession' = NoSession
        /\ UNCHANGED <<sampled, tpc, targets, registered, shown, refused, page>>
    BY <1>4, <2>0 DEF AnswerCacheRequest, timerVars
  <2>2. m \in Messages /\ m.name # "InterfaceTraffic" /\ m.samples = reqCache
    BY Kinds DEF TypeOK
  <2>. HIDE DEF m
  <2>3. /\ Covered(g) /\ BeingSent(g)' = BeingSent(g)
        /\ sampled' = sampled /\ reqSession' # g
    BY <2>1, Numbers DEF NothingIsMissed, BeingSent
  <2>4. CASE g = h /\ HasRoom(h)
    <3>1. Underway(g)' = Underway(g) \cup ToSet(reqCache)
      BY <2>1, <2>2, <2>4, OfferedSamples
    <3>2. had' = had \cup ToSet(reqCache)
      BY <2>1, <3>1
    <3>. HIDE DEF had
    <3>3. \A n \in had : n..sampled \subseteq had \cup BeingSent(g)
      BY <2>3 DEF Covered, had
    <3>4. \A n \in ToSet(reqCache) : n..sampled \subseteq ToSet(reqCache) \cup had \cup BeingSent(g)
      BY <2>0, <2>3, <2>4 DEF Covered, had
    <3>5. \A n \in had' : n..sampled \subseteq had' \cup BeingSent(g)
      BY <3>2, <3>3, <3>4
    <3>. QED
      BY <2>3, <3>5 DEF Covered, had
  <2>5. CASE g # h \/ ~HasRoom(h)
    <3>1. channel'[g] = channel[g]
      BY <2>1, <2>2, <2>5, Offer
    <3>. QED
      BY <2>1, <2>3, <3>1, StillCovered DEF Underway
  <2>. QED
    BY <2>4, <2>5
<1>5. ASSUME NEW h \in Handlers, AddClient(h) PROVE Covered(g)'
  <2>1. /\ page[h] = "away" /\ registered' \subseteq registered \cup {h}
        /\ \A k \in Handlers \ {h} : page'[k] = page[k]
        /\ UNCHANGED <<sampled, tpc, targets, channel, shown, refused, reqSession, reqCache>>
    BY <1>5, PagesMove DEF AddClient, timerVars, requestVars, TypeOK
  <2>2. CASE g = h
    <3>1. shown'[g] = {} /\ channel'[g] = <<>> /\ reqSession' # g
      BY <2>1, <2>2 DEF PagesBegin
    <3>2. Underway(g)' = {}
      BY <3>1, NoMessages DEF Underway
    <3>. QED
      BY <3>1, <3>2 DEF Covered
  <2>3. CASE g # h
    <3>1. Covered(g) /\ BeingSent(g)' = BeingSent(g)
      BY <2>1, <2>3 DEF NothingIsMissed, BeingSent
    <3>. QED
      BY <2>1, <3>1, StillCovered DEF Underway
  <2>. QED
    BY <2>2, <2>3
<1>6. ASSUME NEW h \in Handlers, SendCache(h) PROVE Covered(g)'
  <2>1. /\ page[h] = "joined" /\ shown' = [shown EXCEPT ![h] = ToSet(cache)]
        /\ \A k \in Handlers \ {h} : page'[k] = page[k]
        /\ UNCHANGED <<sampled, tpc, targets, registered, channel, refused, reqSession, reqCache>>
    BY <1>6, PagesMove DEF SendCache, InterfaceCachesSnapshot, timerVars, requestVars, TypeOK
  <2>2. Covered(g) /\ BeingSent(g)' = BeingSent(g) /\ Underway(g)' = Underway(g)
    BY <2>1 DEF NothingIsMissed, BeingSent, Underway
  <2>3. CASE g = h
    <3>1. shown[g] = {} /\ shown'[g] = ToSet(cache)
      BY <2>1, <2>3 DEF PagesBegin, TypeOK
    <3>2. \A n \in ToSet(cache) : n..sampled \subseteq ToSet(cache)
      BY CacheIsTheNewest DEF TypeOK
    <3>. DEFINE had == shown[g] \cup Underway(g)
    <3>3. had' = had \cup ToSet(cache) /\ had = Underway(g)
      BY <2>2, <3>1
    <3>. HIDE DEF had
    <3>4. \A n \in had' : n..sampled \subseteq had' \cup BeingSent(g)
      BY <2>2, <3>2, <3>3 DEF Covered, had
    <3>5. reqSession = g =>
            \A n \in ToSet(reqCache) : n..sampled \subseteq ToSet(reqCache) \cup had' \cup BeingSent(g)
      BY <2>2, <3>3 DEF Covered, had
    <3>. QED
      BY <2>1, <2>2, <3>4, <3>5 DEF Covered, had
  <2>4. CASE g # h
    BY <2>1, <2>2, <2>4, StillCovered DEF TypeOK
  <2>. QED
    BY <2>3, <2>4
<1>7. ASSUME NEW h \in Handlers, Forward(h) PROVE Covered(g)'
  <2>. DEFINE m == Head(channel[h])
  <2>1. /\ shown' = [shown EXCEPT ![h] = @ \cup ToSet(m.samples)]
        /\ UNCHANGED <<sampled, tpc, targets, registered, page, refused, reqSession, reqCache>>
    BY <1>7 DEF Forward, timerVars, requestVars
  <2>2. /\ \A k \in Handlers \ {h} : channel'[k] = channel[k]
        /\ Underway(h) = ToSet(m.samples) \cup Underway(h)'
    BY <1>7, Taken
  <2>. HIDE DEF m
  <2>3. Covered(g) /\ BeingSent(g)' = BeingSent(g)
    BY <2>1 DEF NothingIsMissed, BeingSent
  <2>4. CASE g = h
    <3>1. shown'[g] \cup Underway(g)' = shown[g] \cup Underway(g)
      BY <2>1, <2>2, <2>4 DEF TypeOK
    <3>. QED
      BY <2>1, <2>3, <3>1, StillCovered
  <2>5. CASE g # h
    <3>1. shown'[g] = shown[g] /\ Underway(g)' = Underway(g)
      BY <2>1, <2>2, <2>5 DEF TypeOK, Underway
    <3>. QED
      BY <2>1, <2>3, <3>1, StillCovered
  <2>. QED
    BY <2>4, <2>5
<1>8. ASSUME NEW h \in Handlers, StopStreaming(h) PROVE Covered(g)'
  <2>1. /\ page'[h] = "stopped"
        /\ \A k \in Handlers \ {h} :
             page'[k] = page[k] /\ channel'[k] = channel[k] /\ shown'[k] = shown[k]
        /\ UNCHANGED <<sampled, tpc, targets, registered, refused, reqSession, reqCache>>
    BY <1>8, PagesMove DEF StopStreaming, timerVars, requestVars, TypeOK, SamplesExist
  <2>2. g # h
    BY <2>1
  <2>3. Covered(g) /\ BeingSent(g)' = BeingSent(g)
    BY <2>1, <2>2 DEF NothingIsMissed, BeingSent
  <2>. QED
    BY <2>1, <2>2, <2>3, StillCovered DEF Underway
<1>9. CASE Departs
  <2>1. /\ registered' \subseteq registered
        /\ page'[g] = page[g] \/ page'[g] = "returned"
        /\ UNCHANGED <<sampled, tpc, targets, channel, shown, refused, reqSession, reqCache>>
    BY <1>9, Departures
  <2>2. Covered(g) /\ BeingSent(g)' = BeingSent(g)
    BY <2>1 DEF NothingIsMissed, BeingSent
  <2>. QED
    BY <2>1, <2>2, StillCovered DEF Underway
<1>10. ASSUME NEW h \in Handlers, SendSample(h) PROVE Covered(g)'
  <2>. DEFINE m == LiveMessage(sampled)
              had == shown[g] \cup Underway(g)
  <2>1. /\ TrySend(h, m) /\ tpc = "send" /\ h \in targets /\ targets' = targets \ {h}
        /\ refused' = [refused EXCEPT ![h] = @ \/ ~HasRoom(h)]
        /\ UNCHANGED <<sampled, tpc, registered, shown, page, reqSession, reqCache>>
    BY <1>10 DEF SendSample, requestVars
  <2>2. m \in Messages /\ ToSet(m.samples) = {sampled}
    <3>1. sampled \in 1..MaxSamples
      BY <2>1 DEF TypeOK, SamplesExist
    <3>. QED
      BY <3>1, Kinds
  <2>. HIDE DEF m
  <2>3. ~refused[g] /\ (g = h => HasRoom(h))
    BY <2>1 DEF TypeOK
  <2>4. Covered(g)
    BY <2>1, <2>3 DEF NothingIsMissed
  <2>5. CASE g = h
    <3>1. Underway(g)' = Underway(g) \cup {sampled}
      BY <2>1, <2>2, <2>3, <2>5, OfferedSamples
    <3>2. had' = had \cup {sampled} /\ BeingSent(g) = {sampled}
      BY <2>1, <2>5, <3>1 DEF BeingSent
    <3>. HIDE DEF had
    <3>3. sampled..sampled = {sampled}
      BY DEF TypeOK
    <3>4. \A n \in had' : n..sampled \subseteq had'
      BY <2>4, <3>2, <3>3 DEF Covered, had
    <3>5. reqSession = g =>
            \A n \in ToSet(reqCache) : n..sampled \subseteq ToSet(reqCache) \cup had'
      BY <2>4, <3>2 DEF Covered, had
    <3>. QED
      BY <2>1, <3>4, <3>5 DEF Covered, had
  <2>6. CASE g # h
    <3>1. channel'[g] = channel[g] /\ BeingSent(g)' = BeingSent(g)
      BY <2>1, <2>2, <2>6, Offer DEF BeingSent
    <3>. QED
      BY <2>1, <2>4, <3>1, StillCovered DEF Underway
  <2>. QED
    BY <2>5, <2>6
<1>11. ASSUME NEW h \in Handlers, SendOther(h) PROVE Covered(g)'
  <2>. DEFINE m == OtherMessage
  <2>1. /\ TrySend(h, m) /\ HasRoom(h)
        /\ UNCHANGED <<sampled, tpc, targets, registered, shown, refused, page, reqSession, reqCache>>
    BY <1>11 DEF SendOther, timerVars, requestVars
  <2>2. m \in Messages /\ ToSet(m.samples) = {}
    BY Kinds
  <2>. HIDE DEF m
  <2>3. Underway(g)' = Underway(g)
    <3>1. CASE g = h
      BY <2>1, <2>2, <3>1, OfferedSamples
    <3>2. CASE g # h
      BY <2>1, <2>2, <3>2, Offer DEF Underway
    <3>. QED
      BY <3>1, <3>2
  <2>4. Covered(g) /\ BeingSent(g)' = BeingSent(g)
    BY <2>1 DEF NothingIsMissed, BeingSent
  <2>. QED
    BY <2>1, <2>3, <2>4, StillCovered
<1>12. ASSUME NEW h \in Handlers, AdmitCacheRequest(h) PROVE Covered(g)'
  <2>1. /\ reqSession' = h /\ reqCache' = cache
        /\ UNCHANGED <<sampled, tpc, targets, registered, channel, shown, refused, page>>
    BY <1>12 DEF AdmitCacheRequest, InterfaceCachesSnapshot, timerVars, streamVars
  <2>2. Covered(g) /\ BeingSent(g)' = BeingSent(g) /\ Underway(g)' = Underway(g)
    BY <2>1 DEF NothingIsMissed, BeingSent, Underway
  <2>3. \A n \in ToSet(cache) : n..sampled \subseteq ToSet(cache)
    BY CacheIsTheNewest DEF TypeOK
  <2>. QED
    BY <2>1, <2>2, <2>3 DEF Covered
<1>13. CASE UNCHANGED vars
  <2>1. UNCHANGED <<sampled, tpc, targets, registered, channel, shown, refused, page, reqSession, reqCache>>
    BY <1>13 DEF vars, timerVars, streamVars, requestVars
  <2>2. Covered(g) /\ BeingSent(g)' = BeingSent(g)
    BY <2>1 DEF NothingIsMissed, BeingSent
  <2>. QED
    BY <2>1, <2>2, StillCovered DEF Underway
<1>. QED
  BY <1>1, <1>2, <1>3, <1>4, <1>5, <1>6, <1>7, <1>8, <1>9, <1>10, <1>11, <1>12, <1>13 DEF Next, Departs
-----------------------------------------------------------------------------
(* StreamsAscend and StreamsHaveNoGap *)

(* A stream that stays as it is stays in order. *)
LEMMA StillAscends ==
  ASSUME NEW h \in Handlers, StreamAscends(h), Ascending(channel[h])',
         LiveIn(channel[h])' = LiveIn(channel[h]), lastLive'[h] = lastLive[h],
         Stream(h) \subseteq Int, Top(h) \in Int, Top(h)' \in Int, Top(h) <= Top(h)'
  PROVE  StreamAscends(h)'
<1>1. Stream(h)' = Stream(h)
  BY DEF Stream
<1>2. \A n \in Stream(h) : n <= Top(h)'
  BY DEF StreamAscends
<1>. QED
  BY <1>1, <1>2 DEF StreamAscends

(* A stream that stays as it is stays without a gap. *)
LEMMA StillNoGap ==
  ASSUME NEW h \in Handlers, StreamHasNoGap(h),
         LiveIn(channel[h])' = LiveIn(channel[h]), lastLive'[h] = lastLive[h],
         h \in (registered \cup targets)' => h \in registered \cup targets /\ Top(h)' = Top(h)
  PROVE  StreamHasNoGap(h)'
<1>1. Stream(h)' = Stream(h)
  BY DEF Stream
<1>. QED
  BY <1>1 DEF StreamHasNoGap

(* The numbers of a stream are numbers of samples. *)
LEMMA StreamNumbers ==
  ASSUME TypeOK, SamplesExist, NEW h \in Handlers
  PROVE  /\ LiveIn(channel[h]) \subseteq 1..sampled /\ lastLive[h] \in Nat /\ sampled \in Nat
         /\ Stream(h) \subseteq Nat \ {0}
         /\ Top(h) \in Int
<1>1. LiveIn(channel[h]) \subseteq Underway(h)
  <2>1. ASSUME NEW n \in LiveIn(channel[h]) PROVE n \in Underway(h)
    <3>1. PICK k \in DOMAIN channel[h] : Live(channel[h], k) /\ n = Number(channel[h], k)
      BY DEF LiveIn
    <3>2. Len(channel[h][k].samples) = 1
      BY <3>1 DEF SamplesExist
    <3>3. channel[h][k] \in Messages
      BY DEF SamplesExist
    <3>4. channel[h][k].samples \in Seq(1..MaxSamples)
      BY <3>3 DEF Messages
    <3>5. Head(channel[h][k].samples) \in ToSet(channel[h][k].samples)
      BY <3>2, <3>4 DEF ToSet
    <3>. QED
      BY <3>1, <3>5 DEF Underway, SamplesIn, Number
  <2>. QED
    BY <2>1
<1>2. Underway(h) \subseteq 1..sampled
  BY DEF SamplesExist
<1>3. lastLive[h] \in Nat /\ sampled \in Nat
  BY Numbers DEF TypeOK
<1>. QED
  BY <1>1, <1>2, <1>3 DEF Stream, Top

(* Another message than a sample changes no stream. *)
LEMMA OtherMessagesStream ==
  ASSUME TypeOK, SamplesExist, StreamsAscend,
         NEW h \in Handlers, NEW m \in Messages, TrySend(h, m), m.name # "InterfaceTraffic"
  PROVE  \A g \in Handlers : Ascending(channel[g])' /\ LiveIn(channel[g])' = LiveIn(channel[g])
<1>. SUFFICES ASSUME NEW g \in Handlers
              PROVE  Ascending(channel[g])' /\ LiveIn(channel[g])' = LiveIn(channel[g])
  OBVIOUS
<1>1. CASE channel'[g] = channel[g]
  BY <1>1 DEF StreamsAscend, StreamAscends
<1>2. CASE g = h /\ HasRoom(h)
  <2>1. channel'[h] = Append(channel[h], m) /\ channel[h] \in Seq(Messages)
    BY <1>2, Offer DEF SamplesExist
  <2>2. LiveIn(channel[h])' = LiveIn(channel[h])
    BY <1>2, OfferedSamples
  <2>3. Ascending(Append(channel[h], m))
    BY <2>1, AppendAscends DEF StreamsAscend, StreamAscends
  <2>. QED
    BY <1>2, <2>1, <2>2, <2>3
<1>. QED
  BY <1>1, <1>2, Offer

(* No step turns a stream around or tears it. *)
LEMMA StreamsStep ==
  ASSUME TypeOK, SamplesExist, TypeOK', SamplesExist', PagesBegin,
         StreamsAscend, StreamsHaveNoGap, [Next]_vars
  PROVE  (StreamsAscend /\ StreamsHaveNoGap)'
<1>. SUFFICES ASSUME NEW g \in Handlers
              PROVE  StreamAscends(g)' /\ (~refused'[g] => StreamHasNoGap(g)')
  BY DEF StreamsAscend, StreamsHaveNoGap
<1>a. StreamAscends(g) /\ (~refused[g] => StreamHasNoGap(g))
  BY DEF StreamsAscend, StreamsHaveNoGap
<1>b. /\ Stream(g) \subseteq Int /\ Stream(g) \subseteq Nat \ {0}
      /\ Top(g) \in Int /\ sampled \in Nat /\ lastLive[g] \in Nat
  BY StreamNumbers
<1>c. Top(g)' \in Int
  BY Numbers DEF Top, TypeOK
(* What is left to show where the stream stays as it is.                    *)
<1>d. ASSUME Ascending(channel[g])', LiveIn(channel[g])' = LiveIn(channel[g]),
             lastLive'[g] = lastLive[g], refused'[g] = refused[g], Top(g) <= Top(g)',
             g \in (registered \cup targets)' => g \in registered \cup targets /\ Top(g)' = Top(g)
      PROVE  StreamAscends(g)' /\ (~refused'[g] => StreamHasNoGap(g)')
  <2>1. StreamAscends(g)'
    BY <1>a, <1>b, <1>c, <1>d, StillAscends
  <2>2. ASSUME ~refused'[g] PROVE StreamHasNoGap(g)'
    BY <1>a, <1>d, <2>2, StillNoGap
  <2>. QED
    BY <2>1, <2>2
<1>e. ASSUME channel'[g] = channel[g]
      PROVE  Ascending(channel[g])' /\ LiveIn(channel[g])' = LiveIn(channel[g])
  BY <1>a, <1>e DEF StreamAscends
<1>1. CASE Sample
  <2>1. /\ sampled' = sampled + 1 /\ tpc = "tick" /\ tpc' = "list" /\ targets = {}
        /\ UNCHANGED <<registered, targets, channel, lastLive, refused>>
    BY <1>1 DEF Sample, streamVars, SamplesExist
  <2>2. Top(g)' = Top(g)
    BY <1>b, <2>1 DEF Top
  <2>. QED
    BY <1>b, <1>d, <1>e, <2>1, <2>2
<1>2. CASE SnapshotClients
  <2>1. /\ tpc = "list" /\ tpc' = "send" /\ targets' = registered /\ sampled' = sampled
        /\ UNCHANGED <<registered, channel, lastLive, refused>>
    BY <1>2 DEF SnapshotClients, streamVars
  <2>2. Top(g) <= Top(g)' /\ (g \in registered => Top(g)' = Top(g))
    BY <1>b, <2>1 DEF Top
  <2>. QED
    BY <1>d, <1>e, <2>1, <2>2
<1>3. CASE BroadcastEnds
  <2>1. /\ tpc = "send" /\ tpc' = "tick" /\ targets = {}
        /\ UNCHANGED <<sampled, targets, registered, channel, lastLive, refused>>
    BY <1>3 DEF BroadcastEnds, streamVars
  <2>2. Top(g)' = Top(g)
    BY <2>1 DEF Top
  <2>. QED
    BY <1>b, <1>d, <1>e, <2>1, <2>2
<1>4. CASE AnswerCacheRequest
  <2>0. PICK h \in Handlers : h = reqSession
    BY <1>4 DEF AnswerCacheRequest, TypeOK
  <2>. DEFINE m == CacheMessage(reqCache)
  <2>1. /\ TrySend(h, m)
        /\ UNCHANGED <<sampled, tpc, targets, registered, lastLive, refused>>
    BY <1>4, <2>0 DEF AnswerCacheRequest, timerVars
  <2>2. m \in Messages /\ m.name # "InterfaceTraffic"
    BY Kinds DEF TypeOK
  <2>. HIDE DEF m
  <2>3. Ascending(channel[g])' /\ LiveIn(channel[g])' = LiveIn(channel[g])
    BY <2>1, <2>2, OtherMessagesStream
  <2>4. Top(g)' = Top(g)
    BY <2>1 DEF Top
  <2>. QED
    BY <1>b, <1>d, <2>1, <2>3, <2>4
<1>5. ASSUME NEW h \in Handlers, AddClient(h)
      PROVE  StreamAscends(g)' /\ (~refused'[g] => StreamHasNoGap(g)')
  <2>1. /\ page[h] = "away" /\ registered' \subseteq registered \cup {h}
        /\ UNCHANGED <<sampled, tpc, targets, channel, lastLive, refused>>
    BY <1>5, PagesMove DEF AddClient, timerVars
  <2>2. Top(g)' = Top(g)
    BY <2>1 DEF Top
  <2>3. CASE g = h
    <3>1. Stream(g)' = {}
      BY <2>1, <2>3, NoMessages DEF PagesBegin, Stream
    <3>2. StreamHasNoGap(g)'
      BY <3>1 DEF StreamHasNoGap
    <3>3. StreamAscends(g)'
      BY <1>a, <1>b, <1>e, <2>1, <2>2, StillAscends
    <3>. QED
      BY <3>2, <3>3
  <2>4. CASE g # h
    BY <1>b, <1>d, <1>e, <2>1, <2>2, <2>4
  <2>. QED
    BY <2>3, <2>4
<1>6. ASSUME NEW h \in Handlers, SendCache(h)
      PROVE  StreamAscends(g)' /\ (~refused'[g] => StreamHasNoGap(g)')
  <2>1. UNCHANGED <<sampled, tpc, targets, registered, channel, lastLive, refused>>
    BY <1>6, PagesMove DEF SendCache, timerVars
  <2>2. Top(g)' = Top(g)
    BY <2>1 DEF Top
  <2>. QED
    BY <1>b, <1>d, <1>e, <2>1, <2>2
<1>7. ASSUME NEW h \in Handlers, Forward(h)
      PROVE  StreamAscends(g)' /\ (~refused'[g] => StreamHasNoGap(g)')
  <2>. DEFINE m == Head(channel[h])
  <2>1. /\ lastLive' = [lastLive EXCEPT
              ![h] = IF m.name = "InterfaceTraffic" THEN Head(m.samples) ELSE @]
        /\ channel[h] # <<>>
        /\ UNCHANGED <<sampled, tpc, targets, registered, refused>>
    BY <1>7 DEF Forward, timerVars
  <2>2. /\ \A k \in Handlers \ {h} : channel'[k] = channel[k]
        /\ channel'[h] = Tail(channel[h])
    BY <1>7, Taken
  <2>3. Top(g)' = Top(g)
    BY <2>1 DEF Top
  <2>4. CASE g # h
    <3>1. lastLive'[g] = lastLive[g]
      BY <2>1, <2>4 DEF TypeOK
    <3>. QED
      BY <1>b, <1>d, <1>e, <2>1, <2>2, <2>3, <2>4, <3>1
  <2>5. CASE g = h
    <3>1. /\ Ascending(channel[g])'
          /\ LiveIn(channel[g]) = LiveIn(channel[g])' \cup
               (IF m.name = "InterfaceTraffic" THEN {Head(m.samples)} ELSE {})
          /\ m.name = "InterfaceTraffic" => \A n \in LiveIn(channel[g])' : Head(m.samples) < n
      <4>. DEFINE q == channel[h]
      <4>1. q \in Seq(Messages) /\ q # <<>> /\ Ascending(q)
        BY <1>a, <2>1, <2>5 DEF SamplesExist, StreamAscends
      <4>2. m = Head(q) /\ channel[g] = q /\ channel'[g] = Tail(q)
        BY <2>2, <2>5
      <4>. HIDE DEF m, q
      <4>3. /\ Ascending(Tail(q))
            /\ LiveIn(q) = LiveIn(Tail(q)) \cup
                 (IF m.name = "InterfaceTraffic" THEN {Head(m.samples)} ELSE {})
            /\ m.name = "InterfaceTraffic" => \A n \in LiveIn(Tail(q)) : Head(m.samples) < n
        BY <4>1, <4>2, TailMessage
      <4>. QED
        BY <4>2, <4>3
    <3>2. CASE m.name # "InterfaceTraffic"
      <4>1. lastLive'[g] = lastLive[g]
        BY <2>1, <2>5, <3>2 DEF TypeOK
      <4>2. LiveIn(channel[g])' = LiveIn(channel[g])
        BY <3>1, <3>2
      <4>. QED
        BY <1>b, <1>d, <2>1, <2>3, <3>1, <4>1, <4>2
    <3>3. CASE m.name = "InterfaceTraffic"
      <4>. DEFINE a == lastLive[g]
                  b == Head(m.samples)
                  rest == LiveIn(channel[g])'
      <4>1. lastLive'[g] = b
        BY <2>1, <2>5, <3>3 DEF TypeOK
      <4>2. /\ LiveIn(channel[g]) = rest \cup {b} /\ \A n \in rest : b < n
            /\ a \in Nat /\ b \in Nat \ {0} /\ a < b
            /\ rest \subseteq Nat \ {0}
        BY <1>a, <1>b, <3>1, <3>3 DEF StreamAscends, Stream
      <4>3. Stream(g) = rest \cup {b} \cup ({a} \ {0})
        BY <4>2 DEF Stream
      <4>4. Stream(g)' = rest \cup {b}
        BY <4>1, <4>2 DEF Stream
      <4>. HIDE DEF a, b, rest
      <4>5. \A n \in rest \cup {b} : n <= Top(g)
        BY <1>a, <4>3 DEF StreamAscends
      <4>6. StreamAscends(g)'
        BY <2>3, <3>1, <4>1, <4>2, <4>4, <4>5 DEF StreamAscends, rest
      <4>7. ASSUME ~refused'[g] PROVE StreamHasNoGap(g)'
        <5>1. StreamHasNoGap(g)
          BY <1>a, <2>1, <4>7
        <5>2. ASSUME NEW x \in rest \cup {b}, NEW y \in rest \cup {b}
              PROVE  x..y \subseteq rest \cup {b}
          <6>1. x..y \subseteq rest \cup {b} \cup ({a} \ {0})
            BY <4>3, <5>1 DEF StreamHasNoGap
          <6>2. b <= x /\ a < x /\ x \in Nat /\ y \in Nat
            BY <4>2
          <6>3. a \notin x..y
            BY <4>2, <6>2
          <6>. QED
            BY <6>1, <6>3
        <5>3. ASSUME g \in registered \cup targets PROVE Top(g) \in rest \cup {b}
          <6>1. Top(g) \in rest \cup {b} \cup ({a} \ {0})
            BY <4>3, <5>1, <5>3 DEF StreamHasNoGap
          <6>2. b <= Top(g)
            BY <4>5
          <6>3. Top(g) # a
            BY <1>b, <4>2, <6>2
          <6>. QED
            BY <6>1, <6>3
        <5>. QED
          BY <2>1, <2>3, <4>4, <5>2, <5>3 DEF StreamHasNoGap
      <4>. QED
        BY <4>6, <4>7
    <3>. QED
      BY <3>2, <3>3
  <2>. QED
    BY <2>4, <2>5
<1>8. ASSUME NEW h \in Handlers, StopStreaming(h)
      PROVE  StreamAscends(g)' /\ (~refused'[g] => StreamHasNoGap(g)')
  <2>1. /\ channel' = [channel EXCEPT ![h] = <<>>]
        /\ lastLive' = [lastLive EXCEPT ![h] = 0]
        /\ UNCHANGED <<sampled, tpc, targets, registered, refused>>
    BY <1>8, PagesMove DEF StopStreaming, timerVars
  <2>2. Top(g)' = Top(g)
    BY <2>1 DEF Top
  <2>3. CASE g = h
    <3>1. channel'[g] = <<>> /\ lastLive'[g] = 0
      BY <2>1, <2>3 DEF TypeOK, SamplesExist
    <3>2. Ascending(channel[g])' /\ LiveIn(channel[g])' = {}
      BY <3>1, NoMessages
    <3>3. Stream(g)' = {}
      BY <3>1, <3>2 DEF Stream
    <3>. QED
      BY <3>2, <3>3 DEF StreamAscends, StreamHasNoGap
  <2>4. CASE g # h
    <3>1. channel'[g] = channel[g] /\ lastLive'[g] = lastLive[g]
      BY <2>1, <2>4 DEF TypeOK, SamplesExist
    <3>. QED
      BY <1>b, <1>d, <1>e, <2>1, <2>2, <3>1
  <2>. QED
    BY <2>3, <2>4
<1>9. CASE Departs
  <2>1. /\ registered' \subseteq registered
        /\ UNCHANGED <<sampled, tpc, targets, channel, lastLive, refused>>
    BY <1>9, Departures
  <2>2. Top(g)' = Top(g)
    BY <2>1 DEF Top
  <2>. QED
    BY <1>b, <1>d, <1>e, <2>1, <2>2
<1>10. ASSUME NEW h \in Handlers, SendSample(h)
       PROVE  StreamAscends(g)' /\ (~refused'[g] => StreamHasNoGap(g)')
  <2>. DEFINE m == LiveMessage(sampled)
  <2>1. /\ TrySend(h, m) /\ tpc = "send" /\ h \in targets /\ targets' = targets \ {h}
        /\ refused' = [refused EXCEPT ![h] = @ \/ ~HasRoom(h)]
        /\ UNCHANGED <<sampled, tpc, registered, lastLive>>
    BY <1>10 DEF SendSample
  <2>2. m \in Messages /\ m.name = "InterfaceTraffic" /\ Head(m.samples) = sampled
    <3>1. sampled \in 1..MaxSamples
      BY <2>1 DEF TypeOK, SamplesExist
    <3>. QED
      BY <3>1, Kinds
  <2>. HIDE DEF m
  <2>3. CASE g # h
    <3>1. channel'[g] = channel[g] /\ refused'[g] = refused[g]
      BY <2>1, <2>2, <2>3, Offer DEF TypeOK
    <3>2. Top(g)' = Top(g) /\ (g \in targets' <=> g \in targets)
      BY <2>1, <2>3 DEF Top
    <3>. QED
      BY <1>b, <1>d, <1>e, <2>1, <3>1, <3>2
  <2>4. CASE g = h /\ ~HasRoom(h)
    <3>1. channel'[g] = channel[g] /\ refused'[g]
      BY <2>1, <2>2, <2>4, Offer DEF TypeOK
    <3>2. Top(g) <= Top(g)'
      BY <1>b, <2>1, <2>4 DEF Top
    <3>. QED
      BY <1>a, <1>b, <1>c, <1>e, <2>1, <3>1, <3>2, StillAscends
  <2>5. CASE g = h /\ HasRoom(h)
    <3>1. Top(g) = sampled - 1 /\ Top(g)' = sampled
      BY <2>1, <2>5 DEF Top
    <3>2. \A n \in Stream(g) : n < sampled
      BY <1>a, <1>b, <3>1 DEF StreamAscends
    <3>3. LiveIn(channel[g])' = LiveIn(channel[g]) \cup {sampled}
      BY <2>1, <2>2, <2>5, OfferedSamples
    <3>4. Ascending(channel[g])'
      <4>1. channel'[g] = Append(channel[g], m) /\ channel[g] \in Seq(Messages)
        BY <2>1, <2>2, <2>5, Offer DEF SamplesExist
      <4>2. \A n \in LiveIn(channel[g]) : n < Head(m.samples)
        BY <2>2, <3>2 DEF Stream
      <4>3. Ascending(Append(channel[g], m))
        BY <1>a, <2>2, <4>1, <4>2, AppendAscends DEF StreamAscends
      <4>. QED
        BY <4>1, <4>3
    <3>5. Stream(g)' = Stream(g) \cup {sampled}
      BY <2>1, <3>3 DEF Stream
    <3>6. lastLive[g] < sampled
      <4>1. CASE lastLive[g] = 0
        BY <1>b, <2>1, <4>1 DEF SamplesExist
      <4>2. CASE lastLive[g] # 0
        BY <3>2, <4>2 DEF Stream
      <4>. QED
        BY <4>1, <4>2
    <3>7. StreamAscends(g)'
      <4>1. \A n \in LiveIn(channel[g])' : lastLive'[g] < n
        BY <1>a, <2>1, <3>3, <3>6 DEF StreamAscends
      <4>2. \A n \in Stream(g)' : n <= Top(g)'
        BY <1>b, <3>1, <3>2, <3>5
      <4>. QED
        BY <3>4, <4>1, <4>2 DEF StreamAscends
    <3>8. ASSUME ~refused'[g] PROVE StreamHasNoGap(g)'
      <4>1. StreamHasNoGap(g)
        BY <1>a, <2>1, <3>8 DEF TypeOK
      <4>2. Stream(g) # {} => sampled - 1 \in Stream(g)
        BY <2>1, <2>5, <3>1, <4>1 DEF StreamHasNoGap
      <4>3. ASSUME NEW x \in Stream(g) \cup {sampled}, NEW y \in Stream(g) \cup {sampled}
            PROVE  x..y \subseteq Stream(g) \cup {sampled}
        <5>1. CASE y \in Stream(g) /\ x \in Stream(g)
          BY <4>1, <5>1 DEF StreamHasNoGap
        <5>2. CASE y \in Stream(g) /\ x = sampled
          BY <1>b, <3>2, <5>2
        <5>3. CASE y = sampled /\ x \in Stream(g)
          <6>1. x..(sampled - 1) \subseteq Stream(g)
            BY <4>1, <4>2, <5>3 DEF StreamHasNoGap
          <6>2. x..sampled \subseteq x..(sampled - 1) \cup {sampled}
            BY <1>b, <5>3
          <6>. QED
            BY <5>3, <6>1, <6>2
        <5>4. CASE y = sampled /\ x = sampled
          BY <1>b, <5>4
        <5>. QED
          BY <5>1, <5>2, <5>3, <5>4
      <4>. QED
        BY <3>1, <3>5, <4>3 DEF StreamHasNoGap
    <3>. QED
      BY <3>7, <3>8
  <2>. QED
    BY <2>3, <2>4, <2>5
<1>11. ASSUME NEW h \in Handlers, SendOther(h)
       PROVE  StreamAscends(g)' /\ (~refused'[g] => StreamHasNoGap(g)')
  <2>1. /\ TrySend(h, OtherMessage)
        /\ UNCHANGED <<sampled, tpc, targets, registered, lastLive, refused>>
    BY <1>11 DEF SendOther, timerVars
  <2>2. Ascending(channel[g])' /\ LiveIn(channel[g])' = LiveIn(channel[g])
    BY <2>1, Kinds, OtherMessagesStream
  <2>3. Top(g)' = Top(g)
    BY <2>1 DEF Top
  <2>. QED
    BY <1>b, <1>d, <2>1, <2>2, <2>3
<1>12. ASSUME NEW h \in Handlers, AdmitCacheRequest(h)
       PROVE  StreamAscends(g)' /\ (~refused'[g] => StreamHasNoGap(g)')
  <2>1. UNCHANGED <<sampled, tpc, targets, registered, channel, lastLive, refused>>
    BY <1>12 DEF AdmitCacheRequest, timerVars, streamVars
  <2>2. Top(g)' = Top(g)
    BY <2>1 DEF Top
  <2>. QED
    BY <1>b, <1>d, <1>e, <2>1, <2>2
<1>13. CASE UNCHANGED vars
  <2>1. UNCHANGED <<sampled, tpc, targets, registered, channel, lastLive, refused>>
    BY <1>13 DEF vars, timerVars, streamVars
  <2>2. Top(g)' = Top(g)
    BY <2>1 DEF Top
  <2>. QED
    BY <1>b, <1>d, <1>e, <2>1, <2>2
<1>. QED
  BY <1>1, <1>2, <1>3, <1>4, <1>5, <1>6, <1>7, <1>8, <1>9, <1>10, <1>11, <1>12, <1>13 DEF Next, Departs
-----------------------------------------------------------------------------
(* The theorems. *)

(* One step of the whole invariant. *)
LEMMA InvStep == ASSUME Inv, [Next]_vars PROVE Inv'
<1>1. TypeOK' /\ SamplesExist'
  BY TypeStep, SamplesExistStep DEF Inv
<1>2. PagesBegin' /\ NothingIsMissed'
  BY PagesBeginStep, NothingIsMissedStep DEF Inv
<1>3. StreamsAscend' /\ StreamsHaveNoGap'
  BY <1>1, StreamsStep DEF Inv
<1>. QED
  BY <1>1, <1>2, <1>3 DEF Inv

(* Inv is inductive. *)
THEOREM Invariant == Spec => []Inv
<1>1. Init => Inv
  BY Initially
<1>2. Inv /\ [Next]_vars => Inv'
  BY InvStep
<1>. QED
  BY <1>1, <1>2, PTL DEF Spec

(* The type invariant: the cache of the timer always holds the newest       *)
(* samples, oldest first, and as many as it may.                            *)
THEOREM TypeCorrect == Spec => []TypeOK
<1>1. Inv => TypeOK
  BY DEF Inv
<1>. QED
  BY <1>1, Invariant, PTL

(* Wherever the timer is when a session joins and copies the cache, and     *)
(* whatever else its channel carries, no sample falls between the cache that *)
(* the page begins with and its stream.                                     *)
THEOREM NoSamplesAreMissed == Spec => []NoSampleIsMissed
<1>1. ASSUME Inv PROVE NoSampleIsMissed
  <2>. SUFFICES ASSUME NEW h \in Handlers, h \in registered, ~refused[h], NEW n \in shown[h]
                PROVE  n..sampled \subseteq shown[h] \cup Underway(h) \cup BeingSent(h)
    BY DEF NoSampleIsMissed
  <2>1. page[h] \notin {"stopped", "returned"}
    BY <1>1 DEF Inv, PagesBegin
  <2>2. Covered(h)
    BY <1>1, <2>1 DEF Inv, NothingIsMissed
  <2>. QED
    BY <2>2 DEF Covered
<1>. QED
  BY <1>1, Invariant, PTL

(* The samples that the page is sent by themselves come one after the other, *)
(* without a gap unless the channel refused one: the broadcasts of the timer *)
(* do not overlap, and the channel keeps their order.                       *)
THEOREM LiveSamplesAreInOrder == Spec => LiveSamplesInOrder
<1>1. ASSUME Inv, [Next]_vars, NEW g \in Handlers,
             lastLive'[g] # lastLive[g], lastLive[g] # 0, page'[g] = "streams"
      PROVE  IF refused[g] THEN lastLive'[g] > lastLive[g] ELSE lastLive'[g] = lastLive[g] + 1
  <2>. USE <1>1 DEF Inv
  <2>1. Forward(g)
    <3>1. ASSUME NEW h \in Handlers, StopStreaming(h) PROVE FALSE
      BY <3>1, PagesMove DEF StopStreaming, TypeOK
    <3>2. ASSUME NEW h \in Handlers, Forward(h) PROVE Forward(g)
      <4>1. h = g
        BY <3>2 DEF Forward, TypeOK
      <4>. QED
        BY <3>2, <4>1
    <3>3. lastLive' # lastLive
      OBVIOUS
    <3>. QED
      BY <3>1, <3>2, <3>3 DEF Next, vars, streamVars, Sample, SnapshotClients, BroadcastEnds,
         AnswerCacheRequest, AddClient, SendCache, Return, LeaveMap, SendSample, SendOther, AdmitCacheRequest
  <2>. DEFINE q == channel[g]
              m == Head(q)
              a == lastLive[g]
              b == Head(m.samples)
  <2>2. /\ q \in Seq(Messages) /\ q # <<>>
        /\ m.name = "InterfaceTraffic" /\ lastLive'[g] = b
    BY <2>1 DEF Forward, SamplesExist, TypeOK
  <2>. HIDE DEF q, m
  <2>3. b \in LiveIn(q) /\ \A n \in LiveIn(q) : n = b \/ b < n
    <3>1. Ascending(q)
      BY DEF StreamsAscend, StreamAscends, q
    <3>. QED
      BY <2>2, <3>1, TailMessage DEF m
  <2>. HIDE DEF a, b
  <2>4. a < b /\ a \in Nat \ {0} /\ b \in Nat
    BY <2>3, StreamNumbers DEF StreamsAscend, StreamAscends, q, a
  <2>5. ASSUME ~refused[g] PROVE b = a + 1
    <3>1. Stream(g) = LiveIn(q) \cup {a}
      BY <2>4 DEF Stream, q, a
    <3>2. a..b \subseteq Stream(g)
      BY <2>3, <2>5, <3>1 DEF StreamsHaveNoGap, StreamHasNoGap
    <3>3. a + 1 \in Stream(g)
      BY <2>4, <3>2
    <3>4. a + 1 \in LiveIn(q)
      BY <2>4, <3>1, <3>3
    <3>. QED
      BY <2>3, <2>4, <3>4
  <2>. QED
    BY <2>2, <2>4, <2>5 DEF a
<1>. DEFINE Ordered ==
       \A h \in Handlers :
         lastLive'[h] # lastLive[h] /\ lastLive[h] # 0 /\ page'[h] = "streams" =>
           IF refused[h] THEN lastLive'[h] > lastLive[h] ELSE lastLive'[h] = lastLive[h] + 1
<1>2. Inv /\ [Next]_vars => [Ordered]_vars
  BY <1>1
<1>. HIDE DEF Ordered
<1>3. Spec => [][Ordered]_vars
  BY <1>2, Invariant, PTL DEF Spec
<1>. QED
  BY <1>3 DEF LiveSamplesInOrder, Ordered
=============================================================================
