------------------------- MODULE OutputPipesProofs -------------------------
EXTENDS OutputPipes, SequenceTheorems, TLAPS

-----------------------------------------------------------------------------
(* What the helpers do to the channel. *)

LEMMA OfferProperties ==
  ASSUME NEW m \in Messages, channel \in Seq(Messages), Len(channel) <= ChannelSize, Offer(m)
  PROVE  /\ channel' \in Seq(Messages)
         /\ Len(channel') <= ChannelSize
         /\ HasRoom => /\ Len(channel') = Len(channel) + 1
                       /\ channel'[Len(channel) + 1] = m
                       /\ \A i \in 1..Len(channel) : channel'[i] = channel[i]
         /\ ~HasRoom => channel' = channel
<1>. USE OutputAssumption
<1>1. CASE HasRoom
  <2>1. channel' = Append(channel, m)
    BY <1>1 DEF Offer
  <2>. QED
    BY <1>1, <2>1, AppendProperties DEF HasRoom
<1>2. CASE ~HasRoom
  BY <1>2 DEF Offer
<1>. QED
  BY <1>1, <1>2

LEMMA OfferedMessage ==
  ASSUME NEW m \in Messages, channel \in Seq(Messages), Len(channel) <= ChannelSize, Offer(m),
         HasRoom
  PROVE  /\ DOMAIN channel' = (DOMAIN channel) \cup {Len(channel) + 1}
         /\ channel'[Len(channel) + 1] = m
         /\ \A i \in DOMAIN channel : channel'[i] = channel[i] /\ i < Len(channel) + 1
<1>1. /\ channel' \in Seq(Messages)
      /\ Len(channel') = Len(channel) + 1
      /\ channel'[Len(channel) + 1] = m
      /\ \A i \in 1..Len(channel) : channel'[i] = channel[i]
  BY OfferProperties
<1>2. /\ Len(channel) \in Nat
      /\ DOMAIN channel = 1..Len(channel)
      /\ DOMAIN channel' = 1..Len(channel')
  BY <1>1
<1>3. 1..(Len(channel) + 1) = (1..Len(channel)) \cup {Len(channel) + 1}
  BY <1>2
<1>. QED
  BY <1>1, <1>2, <1>3

(* Another message leaves the chunks of a pipe as they are; a chunk of p    *)
(* joins those of p.                                                        *)
LEMMA OfferedChunks ==
  ASSUME NEW m \in Messages, channel \in Seq(Messages), Len(channel) <= ChannelSize, Offer(m),
         NEW p \in Pipes
  PROVE  InChannel(p)' = IF HasRoom /\ m.pipe = p THEN InChannel(p) \cup {m.number}
                         ELSE InChannel(p)
<1>1. CASE HasRoom
  <2>1. /\ DOMAIN channel' = (DOMAIN channel) \cup {Len(channel) + 1}
        /\ channel'[Len(channel) + 1] = m
        /\ \A i \in DOMAIN channel : channel'[i] = channel[i]
    BY <1>1, OfferedMessage
  <2>. QED
    BY <1>1, <2>1 DEF InChannel
<1>2. CASE ~HasRoom
  BY <1>2, OfferProperties DEF InChannel
<1>. QED
  BY <1>1, <1>2

LEMMA OfferKeepsOrder ==
  ASSUME NEW m \in Messages, channel \in Seq(Messages), Len(channel) <= ChannelSize, Offer(m),
         ChannelInOrder,
         m.pipe \in Pipes => \A n \in InChannel(m.pipe) : n < m.number
  PROVE  ChannelInOrder'
<1>1. CASE HasRoom
  <2>1. /\ DOMAIN channel' = (DOMAIN channel) \cup {Len(channel) + 1}
        /\ channel'[Len(channel) + 1] = m
        /\ \A i \in DOMAIN channel : channel'[i] = channel[i] /\ i < Len(channel) + 1
    BY <1>1, OfferedMessage
  <2>2. \A i \in DOMAIN channel :
          channel[i].pipe = m.pipe /\ m.pipe \in Pipes => channel[i].number < m.number
    BY DEF InChannel
  <2>. SUFFICES ASSUME NEW i \in DOMAIN channel', NEW j \in DOMAIN channel', i < j,
                       channel'[i].pipe = channel'[j].pipe, channel'[i].pipe \in Pipes
                PROVE  channel'[i].number < channel'[j].number
    BY DEF ChannelInOrder
  <2>3. i \in DOMAIN channel
    BY <2>1
  <2>4. CASE j \in DOMAIN channel
    BY <2>1, <2>3, <2>4 DEF ChannelInOrder
  <2>5. CASE j = Len(channel) + 1
    BY <2>1, <2>2, <2>3, <2>5
  <2>. QED
    BY <2>1, <2>4, <2>5
<1>2. CASE ~HasRoom
  BY <1>2, OfferProperties DEF ChannelInOrder
<1>. QED
  BY <1>1, <1>2

-----------------------------------------------------------------------------
LEMMA InitInv == Init => Inv
<1>. SUFFICES ASSUME Init PROVE Inv
  OBVIOUS
<1>. USE OutputAssumption DEF Init
<1>1. TypeOK
  <2>1. <<>> \in Seq(Messages) /\ <<>> \in Seq(Nat) /\ Len(<<>>) = 0
    OBVIOUS
  <2>2. /\ channel \in Seq(Messages)
        /\ Len(channel) <= ChannelSize
        /\ shown \in [Pipes -> Seq(Nat)]
    BY <2>1
  <2>3. /\ written \in [Pipes -> 0..MaxChunks]
        /\ taken \in [Pipes -> 0..MaxChunks]
        /\ \A p \in Pipes : written[p] - taken[p] \in 0..PipeSize
        /\ copier \in [Pipes -> {"none", "read", "check", "send", "returned"}]
    OBVIOUS
  <2>4. /\ extraCheck \in BOOLEAN
        /\ hpc \in {"announce", "start", "wait", "respond", "returned"}
        /\ process \in {"none", "running", "exited"}
        /\ pipesClosed \in BOOLEAN /\ closed \in BOOLEAN /\ ctxDone \in BOOLEAN
        /\ streaming \in BOOLEAN
    OBVIOUS
  <2>. QED
    BY <2>2, <2>3, <2>4 DEF TypeOK
<1>2. DOMAIN <<>> = {}
  OBVIOUS
<1>3. ShownIsPrefix /\ ChannelInOrder /\ CopiersStarted
  BY <1>2 DEF ShownIsPrefix, ChannelInOrder, CopiersStarted
<1>5. NothingIsLeftRunning
  BY DEF NothingIsLeftRunning
<1>4. ASSUME NEW p \in Pipes PROVE Sent(p, 0)
  <2>1. InChannel(p) = {}
    BY <1>2 DEF InChannel
  <2>2. shown[p] = <<>> /\ Len(<<>>) = 0 /\ 1..0 = {}
    OBVIOUS
  <2>. QED
    BY <2>1, <2>2 DEF Sent
<1>. QED
  BY <1>1, <1>3, <1>4, <1>5 DEF Inv, CopiesInOrder

-----------------------------------------------------------------------------
(* What a step does to the chunks on their way. *)

LEMMA ChannelUnchanged ==
  ASSUME ChannelInOrder, UNCHANGED channel
  PROVE  /\ ChannelInOrder'
         /\ \A p \in Pipes : InChannel(p)' = InChannel(p)
BY DEF ChannelInOrder, InChannel

(* Steps that leave the session and the copies alone. *)
LEMMA QuietStep ==
  ASSUME Inv, UNCHANGED <<taken, copier, channel, shown>>
  PROVE  ShownIsPrefix' /\ ChannelInOrder' /\ CopiesInOrder'
<1>1. ShownIsPrefix'
  BY DEF Inv, ShownIsPrefix
<1>2. ChannelInOrder' /\ \A p \in Pipes : InChannel(p)' = InChannel(p)
  BY ChannelUnchanged DEF Inv
<1>3. \A p \in Pipes, m \in 0..MaxChunks : Sent(p, m) => Sent(p, m)'
  BY <1>2 DEF Sent
<1>. QED
  BY <1>1, <1>2, <1>3 DEF Inv, CopiesInOrder

(* A message of another producer. *)
LEMMA OtherOffered ==
  ASSUME Inv, Offer(Other), UNCHANGED <<taken, copier, shown>>
  PROVE  ShownIsPrefix' /\ ChannelInOrder' /\ CopiesInOrder'
<1>1. Other \in Messages /\ Other.pipe \notin Pipes
  BY OutputAssumption DEF Messages, Other
<1>2. ShownIsPrefix'
  BY DEF Inv, ShownIsPrefix
<1>3. ChannelInOrder'
  BY <1>1, OfferKeepsOrder DEF Inv, TypeOK
<1>4. \A p \in Pipes : InChannel(p)' = InChannel(p)
  BY <1>1, OfferedChunks DEF Inv, TypeOK
<1>5. \A p \in Pipes, m \in 0..MaxChunks : Sent(p, m) => Sent(p, m)'
  BY <1>4 DEF Sent
<1>. QED
  BY <1>2, <1>3, <1>5 DEF Inv, CopiesInOrder

(* A step of the goroutine of p that sends nothing. *)
LEMMA CopierStep ==
  ASSUME Inv, NEW p \in Pipes, UNCHANGED <<channel, shown>>,
         \A q \in Pipes \ {p} : taken'[q] = taken[q] /\ copier'[q] = copier[q],
         \/ /\ copier[p] = "read"
            /\ taken'[p] = taken[p] + 1
            /\ copier'[p] = "check"
         \/ /\ copier[p] = "check"
            /\ taken'[p] = taken[p]
            /\ copier'[p] = "send"
         \/ /\ taken'[p] = taken[p]
            /\ copier'[p] = "returned"
  PROVE  ShownIsPrefix' /\ ChannelInOrder' /\ CopiesInOrder'
<1>. USE OutputAssumption DEF Inv, TypeOK
<1>1. ShownIsPrefix'
  BY DEF ShownIsPrefix
<1>2. ChannelInOrder' /\ \A q \in Pipes : InChannel(q)' = InChannel(q)
  BY ChannelUnchanged
<1>3. ASSUME NEW q \in Pipes, NEW m \in 0..MaxChunks, Sent(q, m) PROVE Sent(q, m)'
  <2>1. InChannel(q)' = InChannel(q) /\ Len(shown[q])' = Len(shown[q])
    BY <1>2
  <2>2. taken[q] \in Nat /\ m \in Nat
    OBVIOUS
  <2>3. CASE q # p
    BY <1>3, <2>1, <2>3 DEF Sent
  <2>. HIDE DEF Inv, TypeOK
  <2>4. CASE q = p /\ copier[p] = "read" /\ taken'[p] = taken[p] + 1 /\ copier'[p] = "check"
    BY <1>3, <2>1, <2>2, <2>4 DEF Sent
  <2>5. CASE q = p /\ copier[p] = "check" /\ taken'[p] = taken[p] /\ copier'[p] = "send"
    BY <1>3, <2>1, <2>2, <2>5 DEF Sent
  <2>6. CASE q = p /\ taken'[p] = taken[p] /\ copier'[p] = "returned"
    BY <1>3, <2>1, <2>2, <2>6 DEF Sent
  <2>. QED
    BY <2>3, <2>4, <2>5, <2>6
<1>. QED
  BY <1>1, <1>2, <1>3 DEF CopiesInOrder

LEMMA SendStep ==
  ASSUME Inv, NEW p \in Pipes, Send(p)
  PROVE  ShownIsPrefix' /\ ChannelInOrder' /\ CopiesInOrder'
<1>. DEFINE c == Chunk(p, taken[p])
<1>1. PICK m \in 0..MaxChunks : Sent(p, m)
  BY DEF Inv, CopiesInOrder
<1>2. m + 1 = taken[p] /\ InChannel(p) = (Len(shown[p]) + 1)..m /\ Len(shown[p]) <= m
  BY <1>1 DEF Send, Sent
<1>3. c \in Messages /\ c.pipe = p /\ c.number = taken[p] /\ taken[p] \in 0..MaxChunks
  BY DEF Messages, Chunk, Inv, TypeOK
<1>4. /\ Offer(c)
      /\ UNCHANGED <<taken, shown>>
      /\ copier'[p] = IF HasRoom THEN "read" ELSE "returned"
      /\ \A q \in Pipes \ {p} : copier'[q] = copier[q]
  BY DEF Send, copierVars, Inv, TypeOK
<1>. HIDE DEF c
<1>5. \A n \in InChannel(p) : n < c.number
  BY <1>2, <1>3, OutputAssumption DEF Inv, TypeOK
<1>6. ChannelInOrder'
  BY <1>3, <1>4, <1>5, OfferKeepsOrder DEF Inv, TypeOK
<1>7. \A q \in Pipes :
        InChannel(q)' = IF HasRoom /\ q = p THEN InChannel(q) \cup {taken[p]} ELSE InChannel(q)
  BY <1>3, <1>4, OfferedChunks DEF Inv, TypeOK
<1>8. ShownIsPrefix'
  BY <1>4 DEF Inv, ShownIsPrefix
<1>9. \E k \in 0..MaxChunks : Sent(p, k)'
  <2>1. Len(shown[p]) \in Nat
    BY DEF Inv, TypeOK
  <2>2. CASE HasRoom
    <3>1. \A l, k \in Nat : l <= k => ((l + 1)..k) \cup {k + 1} = (l + 1)..(k + 1)
      OBVIOUS
    <3>2. InChannel(p)' = (Len(shown[p]) + 1)..taken[p]
      <4>1. m \in Nat
        BY OutputAssumption
      <4>2. InChannel(p)' = ((Len(shown[p]) + 1)..m) \cup {m + 1}
        BY <1>2, <1>7, <2>2
      <4>. QED
        BY <1>2, <2>1, <3>1, <4>1, <4>2
    <3>3. Sent(p, taken[p])'
      BY <1>2, <1>3, <1>4, <2>1, <2>2, <3>2, OutputAssumption DEF Sent
    <3>. QED
      BY <1>3, <1>4, <3>3 DEF Sent
  <2>3. CASE ~HasRoom
    BY <1>1, <1>2, <1>3, <1>4, <1>7, <2>1, <2>3, OutputAssumption DEF Sent
  <2>. QED
    BY <2>2, <2>3
<1>10. \A q \in Pipes \ {p}, k \in 0..MaxChunks : Sent(q, k) => Sent(q, k)'
  BY <1>4, <1>7 DEF Sent
<1>. QED
  BY <1>6, <1>8, <1>9, <1>10 DEF Inv, CopiesInOrder

LEMMA AppendedNumber ==
  ASSUME NEW s \in Seq(Nat), NEW n \in Nat
  PROVE  /\ Len(Append(s, n)) = Len(s) + 1
         /\ DOMAIN Append(s, n) = 1..(Len(s) + 1)
         /\ Append(s, n)[Len(s) + 1] = n
         /\ \A j \in 1..Len(s) : Append(s, n)[j] = s[j]
OBVIOUS

(* The SSE handler sends the oldest message: of its pipe, the next chunk.   *)
LEMMA ForwardStep ==
  ASSUME Inv, Forward
  PROVE  ShownIsPrefix' /\ ChannelInOrder' /\ CopiesInOrder'
<1>. DEFINE c == Head(channel)
<1>1. /\ channel \in Seq(Messages) /\ channel # <<>>
      /\ channel' = Tail(channel)
      /\ UNCHANGED <<taken, copier>>
      /\ \A p \in Pipes :
           /\ shown[p] \in Seq(Nat)
           /\ shown'[p] = IF c.pipe = p THEN Append(shown[p], c.number) ELSE shown[p]
  BY DEF Forward, copierVars, Inv, TypeOK
<1>2. /\ Len(channel) \in Nat \ {0}
      /\ DOMAIN channel = 1..Len(channel)
      /\ DOMAIN channel' = 1..(Len(channel) - 1)
      /\ \A i \in DOMAIN channel' : channel'[i] = channel[i + 1]
      /\ channel[1] = c /\ c \in Messages
  BY <1>1, HeadTailProperties
<1>3. \A i \in DOMAIN channel' : i + 1 \in DOMAIN channel
  BY <1>2
<1>4. \A i \in DOMAIN channel : i # 1 => i - 1 \in DOMAIN channel' /\ channel'[i - 1] = channel[i]
  BY <1>2
<1>5. 1 \in DOMAIN channel
  BY <1>2
<1>. HIDE DEF c
<1>6. ChannelInOrder'
  BY <1>2, <1>3 DEF Inv, ChannelInOrder
<1>7. ASSUME NEW p \in Pipes
      PROVE  InChannel(p)' = IF c.pipe = p THEN InChannel(p) \ {c.number} ELSE InChannel(p)
  <2>1. InChannel(p)' \subseteq InChannel(p)
    BY <1>2, <1>3 DEF InChannel
  <2>2. \A i \in DOMAIN channel :
          i # 1 /\ channel[i].pipe = p => channel[i].number \in InChannel(p)'
    BY <1>4 DEF InChannel
  <2>3. c.pipe = p => \A i \in DOMAIN channel' :
          channel'[i].pipe = p => channel'[i].number # c.number
    <3>. SUFFICES ASSUME c.pipe = p, NEW i \in DOMAIN channel', channel'[i].pipe = p
                  PROVE  channel'[i].number # c.number
      OBVIOUS
    <3>1. i + 1 \in DOMAIN channel /\ channel[i + 1].pipe = p /\ 1 < i + 1
      BY <1>2, <1>3
    <3>2. c.number < channel[i + 1].number
      BY <1>2, <1>5, <3>1 DEF Inv, ChannelInOrder
    <3>3. c.number \in Nat
      BY <1>2, OutputAssumption DEF Messages, Other
    <3>. QED
      BY <1>2, <3>2, <3>3
  <2>4. c.pipe = p => c.number \notin InChannel(p)'
    BY <2>3 DEF InChannel
  <2>5. \A n \in InChannel(p) : n \in InChannel(p)' \/ (c.pipe = p /\ n = c.number)
    BY <1>2, <2>2 DEF InChannel
  <2>. QED
    BY <2>1, <2>4, <2>5
<1>8. ASSUME NEW p \in Pipes, c.pipe = p
      PROVE  c.number = Len(shown[p]) + 1
  <2>1. PICK m \in 0..MaxChunks : Sent(p, m)
    BY DEF Inv, CopiesInOrder
  <2>2. c.number \in InChannel(p)
    BY <1>2, <1>5, <1>8 DEF InChannel
  <2>3. /\ InChannel(p) = (Len(shown[p]) + 1)..m
        /\ Len(shown[p]) \in Nat /\ m \in Nat
    BY <1>1, <2>1, OutputAssumption DEF Sent
  <2>4. \A n \in InChannel(p) : c.number <= n
    <3>1. \A i \in DOMAIN channel : channel[i].pipe = p => c.number <= channel[i].number
      <4>. SUFFICES ASSUME NEW i \in DOMAIN channel, channel[i].pipe = p
                    PROVE  c.number <= channel[i].number
        OBVIOUS
      <4>1. CASE i = 1
        BY <1>2, <2>2, <2>3, <4>1
      <4>2. CASE i # 1
        <5>1. 1 < i
          BY <1>2, <4>2
        <5>2. c.number < channel[i].number
          BY <1>2, <1>5, <1>8, <5>1 DEF Inv, ChannelInOrder
        <5>3. channel[i].number \in InChannel(p)
          BY DEF InChannel
        <5>. QED
          BY <2>2, <2>3, <5>2, <5>3
      <4>. QED
        BY <4>1, <4>2
    <3>. QED
      BY <3>1 DEF InChannel
  <2>5. c.number \in Nat /\ Len(shown[p]) + 1 <= c.number /\ c.number <= m
    BY <2>2, <2>3
  <2>6. Len(shown[p]) + 1 \in InChannel(p)
    BY <2>3, <2>5
  <2>. QED
    BY <2>3, <2>4, <2>5, <2>6
<1>9. ShownIsPrefix'
  <2>. SUFFICES ASSUME NEW p \in Pipes, NEW i \in DOMAIN shown'[p]
                PROVE  shown'[p][i] = i
    BY DEF ShownIsPrefix
  <2>1. \A j \in DOMAIN shown[p] : shown[p][j] = j
    BY DEF Inv, ShownIsPrefix
  <2>2. CASE c.pipe = p
    <3>1. c.number = Len(shown[p]) + 1 /\ c.number \in Nat
      BY <1>1, <1>8, <2>2
    <3>2. /\ DOMAIN shown'[p] = 1..(Len(shown[p]) + 1)
          /\ shown'[p][Len(shown[p]) + 1] = c.number
          /\ \A j \in 1..Len(shown[p]) : shown'[p][j] = shown[p][j]
      <4>1. shown'[p] = Append(shown[p], c.number) /\ shown[p] \in Seq(Nat)
        BY <1>1, <2>2
      <4>. QED
        BY <3>1, <4>1, AppendedNumber
    <3>3. Len(shown[p]) \in Nat /\ DOMAIN shown[p] = 1..Len(shown[p])
      BY <1>1
    <3>4. i \in 1..Len(shown[p]) \/ i = Len(shown[p]) + 1
      BY <3>2, <3>3
    <3>. QED
      BY <2>1, <3>1, <3>2, <3>3, <3>4
  <2>3. CASE c.pipe # p
    BY <1>1, <2>1, <2>3
  <2>. QED
    BY <2>2, <2>3
<1>10. ASSUME NEW p \in Pipes, NEW m \in 0..MaxChunks, Sent(p, m)
       PROVE  Sent(p, m)'
  <2>1. /\ InChannel(p) = (Len(shown[p]) + 1)..m
        /\ Len(shown[p]) \in Nat /\ m \in Nat /\ Len(shown[p]) <= m
    BY <1>1, <1>10, OutputAssumption DEF Sent
  <2>2. CASE c.pipe = p
    <3>1. c.number = Len(shown[p]) + 1
      BY <1>8, <2>2
    <3>2. c.number \in InChannel(p)
      BY <1>2, <1>5, <2>2 DEF InChannel
    <3>3. \A l, k \in Nat : l + 1 <= k => (((l + 1)..k) \ {l + 1}) = (l + 1 + 1)..k
      OBVIOUS
    <3>4. Len(shown[p]) + 1 <= m
      BY <2>1, <3>1, <3>2
    <3>5. InChannel(p)' = (Len(shown[p]) + 1 + 1)..m
      BY <1>7, <2>1, <2>2, <3>1, <3>3, <3>4
    <3>6. Len(shown'[p]) = Len(shown[p]) + 1
      <4>1. shown'[p] = Append(shown[p], c.number) /\ shown[p] \in Seq(Nat)
        BY <1>1, <2>2
      <4>2. c.number \in Nat
        BY <2>1, <3>1
      <4>. QED
        BY <4>1, <4>2, AppendedNumber
    <3>. QED
      BY <1>1, <1>10, <3>4, <3>5, <3>6 DEF Sent
  <2>3. CASE c.pipe # p
    BY <1>1, <1>7, <1>10, <2>3 DEF Sent
  <2>. QED
    BY <2>2, <2>3
<1>. QED
  BY <1>6, <1>9, <1>10 DEF Inv, CopiesInOrder

-----------------------------------------------------------------------------
LEMMA TypeOKStep ==
  ASSUME Inv, [Next]_vars
  PROVE  TypeOK'
<1>. USE OutputAssumption
<1>1. CASE \/ StartFails \/ Wait \/ Return \/ ContextEnds \/ SetClosed \/ Exit \/ Kill
           \/ StopStreaming \/ UNCHANGED vars
  <2>1. CASE StartFails \/ Wait \/ Return
    BY <2>1
      DEF StartFails, Wait, Return, programVars, copierVars, handlerVars, sessionVars, Inv, TypeOK
  <2>2. CASE ContextEnds \/ SetClosed \/ StopStreaming
    BY <2>2
      DEF ContextEnds, SetClosed, StopStreaming, programVars, copierVars, handlerVars,
          sessionVars, Inv, TypeOK
  <2>3. CASE Exit \/ Kill \/ UNCHANGED vars
    BY <2>3
      DEF Exit, Kill, vars, programVars, copierVars, handlerVars, sessionVars, Inv, TypeOK
  <2>. QED
    BY <1>1, <2>1, <2>2, <2>3
<1>2. CASE Start
  BY <1>2 DEF Start, sessionVars, Inv, TypeOK
<1>3. CASE Announce \/ OtherMessage
  <2>1. channel' \in Seq(Messages) /\ Len(channel') <= ChannelSize
    BY <1>3, OfferProperties DEF Announce, OtherMessage, Messages, Inv, TypeOK
  <2>. QED
    BY <1>3, <2>1 DEF Announce, OtherMessage, programVars, copierVars, handlerVars, Inv, TypeOK
<1>4. ASSUME NEW p \in Pipes, Write(p) PROVE TypeOK'
  BY <1>4 DEF Write, copierVars, handlerVars, sessionVars, Inv, TypeOK
<1>5. ASSUME NEW p \in Pipes, Read(p) PROVE TypeOK'
  BY <1>5 DEF Read, programVars, handlerVars, sessionVars, Inv, TypeOK
<1>6. ASSUME NEW p \in Pipes, ReadFails(p) \/ Check(p) PROVE TypeOK'
  <2>1. CASE ReadFails(p)
    BY <2>1 DEF ReadFails, programVars, handlerVars, sessionVars, Inv, TypeOK
  <2>2. CASE Check(p)
    BY <2>2 DEF Check, programVars, handlerVars, sessionVars, Inv, TypeOK
  <2>. QED
    BY <1>6, <2>1, <2>2
<1>7. ASSUME NEW p \in Pipes, Send(p) PROVE TypeOK'
  <2>1. Chunk(p, taken[p]) \in Messages
    BY DEF Chunk, Messages, Inv, TypeOK
  <2>2. channel' \in Seq(Messages) /\ Len(channel') <= ChannelSize
    BY <1>7, <2>1, OfferProperties DEF Send, Inv, TypeOK
  <2>. QED
    BY <1>7, <2>2 DEF Send, programVars, handlerVars, Inv, TypeOK
<1>8. CASE Forward
  <2>1. /\ channel' \in Seq(Messages)
        /\ Len(channel') = Len(channel) - 1
        /\ Head(channel) \in Messages
    BY <1>8, HeadTailProperties DEF Forward, Inv, TypeOK
  <2>2. Head(channel).number \in Nat
    BY <2>1 DEF Messages, Other
  <2>3. shown' \in [Pipes -> Seq(Nat)]
    BY <1>8, <2>2 DEF Forward, Inv, TypeOK
  <2>. QED
    BY <1>8, <2>1, <2>3 DEF Forward, programVars, copierVars, handlerVars, Inv, TypeOK
<1>. QED
  BY <1>1, <1>2, <1>3, <1>4, <1>5, <1>6, <1>7, <1>8 DEF Next, Handler, Copier

LEMMA CopiersStartedStep ==
  ASSUME Inv, [Next]_vars
  PROVE  CopiersStarted'
BY DEF Next, Handler, Copier, Announce, StartFails, Start, Wait, Return, ContextEnds, SetClosed,
       Exit, Kill, Write, Read, ReadFails, Check, Send, OtherMessage, Forward, StopStreaming,
       vars, programVars, copierVars, handlerVars, sessionVars, CopiersStarted, Inv, TypeOK

LEMMA NothingIsLeftStep ==
  ASSUME Inv, [Next]_vars
  PROVE  NothingIsLeftRunning'
<1>. USE DEF Inv, TypeOK, CopiersStarted, NothingIsLeftRunning
<1>1. CASE Announce \/ StartFails \/ Start \/ Return \/ ContextEnds \/ SetClosed
  BY <1>1 DEF Announce, StartFails, Start, Return, ContextEnds, SetClosed, programVars, copierVars
<1>2. CASE Wait
  BY <1>2 DEF Wait, programVars
<1>3. CASE Exit \/ Kill
  BY <1>3 DEF Exit, Kill, copierVars, handlerVars
<1>4. ASSUME NEW p \in Pipes, Write(p) \/ Copier(p) PROVE NothingIsLeftRunning'
  BY <1>4 DEF Write, Copier, Read, ReadFails, Check, Send, programVars, copierVars, handlerVars
<1>5. CASE OtherMessage \/ Forward \/ StopStreaming \/ UNCHANGED vars
  BY <1>5 DEF OtherMessage, Forward, StopStreaming, vars, programVars, copierVars, handlerVars
<1>. QED
  BY <1>1, <1>2, <1>3, <1>4, <1>5 DEF Next, Handler

LEMMA StepInv == Inv /\ [Next]_vars => Inv'
<1>. SUFFICES ASSUME Inv, [Next]_vars PROVE Inv'
  OBVIOUS
<1>1. TypeOK' /\ CopiersStarted' /\ NothingIsLeftRunning'
  BY TypeOKStep, CopiersStartedStep, NothingIsLeftStep
<1>. DEFINE Goal == ShownIsPrefix' /\ ChannelInOrder' /\ CopiesInOrder'
<1>2. CASE \/ StartFails \/ Wait \/ Return \/ ContextEnds \/ SetClosed \/ Exit \/ Kill
           \/ StopStreaming \/ UNCHANGED vars \/ \E p \in Pipes : Write(p)
  BY <1>1, <1>2, QuietStep
    DEF Inv, StartFails, Wait, Return, ContextEnds, SetClosed, Exit, Kill, StopStreaming,
        Write, vars, programVars, copierVars, handlerVars, sessionVars
<1>3. CASE Start
  <2>1. /\ UNCHANGED <<taken, channel, shown>>
        /\ \A p \in Pipes : copier'[p] = "read"
    BY <1>3 DEF Start, sessionVars
  <2>2. ShownIsPrefix'
    BY <2>1 DEF Inv, ShownIsPrefix
  <2>3. ChannelInOrder' /\ \A p \in Pipes : InChannel(p)' = InChannel(p)
    BY <2>1, ChannelUnchanged DEF Inv
  <2>4. \A p \in Pipes : copier[p] = "none"
    BY <1>3 DEF Start, Inv, CopiersStarted
  <2>5. \A p \in Pipes, m \in 0..MaxChunks : Sent(p, m) => Sent(p, m)'
    BY <2>1, <2>3, <2>4 DEF Sent
  <2>. QED
    BY <1>1, <2>2, <2>3, <2>5 DEF Inv, CopiesInOrder
<1>4. CASE Announce \/ OtherMessage
  BY <1>1, <1>4, OtherOffered DEF Announce, OtherMessage, copierVars, Inv
<1>5. ASSUME NEW p \in Pipes, Read(p) \/ ReadFails(p) \/ Check(p) PROVE Goal
  <2>1. /\ UNCHANGED <<channel, shown>>
        /\ \A q \in Pipes \ {p} : taken'[q] = taken[q] /\ copier'[q] = copier[q]
    BY <1>5 DEF Read, ReadFails, Check, sessionVars, Inv, TypeOK
  <2>2. \/ /\ copier[p] = "read"
           /\ taken'[p] = taken[p] + 1
           /\ copier'[p] = "check"
        \/ /\ copier[p] = "check"
           /\ taken'[p] = taken[p]
           /\ copier'[p] = "send"
        \/ /\ taken'[p] = taken[p]
           /\ copier'[p] = "returned"
    BY <1>5 DEF Read, ReadFails, Check, Inv, TypeOK
  <2>. QED
    BY <2>1, <2>2, CopierStep
<1>6. ASSUME NEW p \in Pipes, Send(p) PROVE Goal
  BY <1>6, SendStep
<1>7. CASE Forward
  BY <1>1, <1>7, ForwardStep DEF Inv
<1>. QED
  BY <1>1, <1>2, <1>3, <1>4, <1>5, <1>6, <1>7 DEF Next, Handler, Copier, Inv

THEOREM Invariance == Spec => []Inv
BY InitInv, StepInv, PTL DEF Spec

(* Neither the pipes nor the channel hold more than their size, whatever    *)
(* the sizes are.                                                           *)
THEOREM TypeCorrect == Spec => []TypeOK
<1>1. Inv => TypeOK
  BY DEF Inv
<1>. QED
  BY <1>1, Invariance, PTL

(* What the page is sent of a pipe is a prefix of what the program wrote,   *)
(* for any number of pipes and any size of the buffers.                     *)
THEOREM PageSeesPrefix == Spec => []ShownIsPrefix
<1>1. Inv => ShownIsPrefix
  BY DEF Inv
<1>. QED
  BY <1>1, Invariance, PTL

(* iperf3.go:85, speedtest_cli.go:83: whenever the context ends, a handler  *)
(* that responds has no program that runs and no goroutine that waits for   *)
(* an open pipe.                                                            *)
THEOREM HandlersLeaveNothingRunning == Spec => []NothingIsLeftRunning
<1>1. Inv => NothingIsLeftRunning
  BY DEF Inv
<1>. QED
  BY <1>1, Invariance, PTL
=============================================================================
