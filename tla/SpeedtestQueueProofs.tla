------------------------ MODULE SpeedtestQueueProofs ------------------------
EXTENDS SpeedtestQueue, SequenceTheorems, TLAPS

-----------------------------------------------------------------------------
(* Sequences without repetition. *)

(* Removing one element of a sequence keeps the others, one place earlier   *)
(* when they come after it.                                                 *)
LEMMA RemoveAtProperties ==
  ASSUME NEW S, NEW s \in Seq(S), NEW k \in 1..Len(s)
  PROVE  /\ RemoveAt(s, k) \in Seq(S)
         /\ Len(RemoveAt(s, k)) = Len(s) - 1
         /\ \A i \in 1..(Len(s) - 1) :
              RemoveAt(s, k)[i] = IF i < k THEN s[i] ELSE s[i + 1]
<1>. DEFINE l == SubSeq(s, 1, k - 1)
            r == SubSeq(s, k + 1, Len(s))
<1>1. /\ l \in Seq(S)
      /\ Len(l) = k - 1
      /\ \A i \in 1..(k - 1) : l[i] = s[i]
  <2>1. \A i \in 1..(k - 1) : s[i] \in S
    OBVIOUS
  <2>. HIDE DEF l
  <2>2. /\ l \in Seq(S)
        /\ Len(l) = IF 1 <= k - 1 THEN k - 1 - 1 + 1 ELSE 0
        /\ \A i \in 1..(k - 1 - 1 + 1) : l[i] = s[1 + i - 1]
    BY <2>1, SubSeqProperties DEF l
  <2>3. k - 1 - 1 + 1 = k - 1 /\ \A i \in 1..(k - 1) : 1 + i - 1 = i
    OBVIOUS
  <2>. QED
    BY <2>2, <2>3
<1>2. /\ r \in Seq(S)
      /\ Len(r) = Len(s) - k
      /\ \A i \in 1..(Len(s) - k) : r[i] = s[k + i]
  <2>1. \A i \in (k + 1)..Len(s) : s[i] \in S
    OBVIOUS
  <2>. HIDE DEF r
  <2>2. /\ r \in Seq(S)
        /\ Len(r) = IF k + 1 <= Len(s) THEN Len(s) - (k + 1) + 1 ELSE 0
        /\ \A i \in 1..(Len(s) - (k + 1) + 1) : r[i] = s[k + 1 + i - 1]
    BY <2>1, SubSeqProperties DEF r
  <2>. QED
    BY <2>2
<1>3. RemoveAt(s, k) = l \o r
  BY DEF RemoveAt
<1>. HIDE DEF l, r
<1>4. /\ l \o r \in Seq(S)
      /\ Len(l \o r) = Len(l) + Len(r)
      /\ \A i \in 1..(Len(l) + Len(r)) :
           (l \o r)[i] = IF i <= Len(l) THEN l[i] ELSE r[i - Len(l)]
  BY <1>1, <1>2, ConcatProperties
<1>. QED
  BY <1>1, <1>2, <1>3, <1>4

(* What is left is what was there, in the same order. *)
LEMMA RemoveAtKeepsOrder ==
  ASSUME NEW S, NEW s \in Seq(S), Distinct(s), NEW k \in 1..Len(s)
  PROVE  LET r == RemoveAt(s, k)
         IN  /\ r \in Seq(S)
             /\ Distinct(r)
             /\ ToSet(r) = ToSet(s) \ {s[k]}
             /\ \A x, y \in S \ {s[k]} : InFront(r, x, y) <=> InFront(s, x, y)
<1>. DEFINE r == RemoveAt(s, k)
            old(i) == IF i < k THEN i ELSE i + 1
            new(i) == IF i < k THEN i ELSE i - 1
<1>1. /\ r \in Seq(S)
      /\ DOMAIN r = 1..(Len(s) - 1)
      /\ \A i \in DOMAIN r : r[i] = s[old(i)]
  <2>1. /\ r \in Seq(S)
        /\ Len(r) = Len(s) - 1
        /\ \A i \in 1..(Len(s) - 1) : r[i] = IF i < k THEN s[i] ELSE s[i + 1]
    BY RemoveAtProperties
  <2>. HIDE DEF r
  <2>. QED
    BY <2>1
<1>. HIDE DEF r
<1>2. \A i \in DOMAIN r : old(i) \in DOMAIN s /\ old(i) # k
  BY <1>1
<1>3. \A i \in DOMAIN s : i # k => new(i) \in DOMAIN r /\ r[new(i)] = s[i]
  BY <1>1
<1>4. Distinct(r)
  BY <1>1, <1>2 DEF Distinct
<1>5. ToSet(r) = ToSet(s) \ {s[k]}
  <2>1. \A i \in DOMAIN r : r[i] \in ToSet(s) /\ r[i] # s[k]
    BY <1>1, <1>2 DEF ToSet, Distinct
  <2>2. \A i \in DOMAIN s : s[i] # s[k] => s[i] \in ToSet(r)
    BY <1>3 DEF ToSet
  <2>. QED
    BY <2>1, <2>2 DEF ToSet
<1>6. ASSUME NEW x \in S \ {s[k]}, NEW y \in S \ {s[k]}
      PROVE  InFront(r, x, y) <=> InFront(s, x, y)
  <2>1. ASSUME InFront(r, x, y) PROVE InFront(s, x, y)
    <3>1. PICK i \in DOMAIN r, j \in DOMAIN r : i < j /\ r[i] = x /\ r[j] = y
      BY <2>1 DEF InFront
    <3>2. old(i) < old(j) /\ s[old(i)] = x /\ s[old(j)] = y
      BY <1>1, <3>1
    <3>. QED
      BY <1>2, <3>2 DEF InFront
  <2>2. ASSUME InFront(s, x, y) PROVE InFront(r, x, y)
    <3>1. PICK i \in DOMAIN s, j \in DOMAIN s : i < j /\ s[i] = x /\ s[j] = y
      BY <2>2 DEF InFront
    <3>2. i # k /\ j # k
      BY <3>1
    <3>3. new(i) < new(j)
      BY <3>1, <3>2
    <3>. QED
      BY <1>3, <3>1, <3>2, <3>3 DEF InFront
  <2>. QED
    BY <2>1, <2>2
<1>. QED
  BY <1>1, <1>4, <1>5, <1>6 DEF r

-----------------------------------------------------------------------------
(* What the helpers of the module return. *)

LEMMA QueuePositionProperties ==
  ASSUME queueEntries \in Seq(Callers), NEW c \in Callers
  PROVE  /\ QueuePosition(c) \in Nat
         /\ QueuePosition(c) = 0 <=> c \notin ToSet(queueEntries)
         /\ QueuePosition(c) # 0 => /\ QueuePosition(c) \in 1..Len(queueEntries)
                                    /\ queueEntries[QueuePosition(c)] = c
<1>1. CASE c \in ToSet(queueEntries)
  <2>1. \E i \in DOMAIN queueEntries : queueEntries[i] = c
    BY <1>1 DEF ToSet
  <2>2. QueuePosition(c) \in DOMAIN queueEntries /\ queueEntries[QueuePosition(c)] = c
    BY <2>1 DEF QueuePosition
  <2>. QED
    BY <1>1, <2>2
<1>2. CASE c \notin ToSet(queueEntries)
  BY <1>2 DEF ToSet, QueuePosition
<1>. QED
  BY <1>1, <1>2

LEMMA EntriesWithoutProperties ==
  ASSUME queueEntries \in Seq(Callers), Distinct(queueEntries), NEW c \in Callers
  PROVE  LET q == EntriesWithout(c)
         IN  /\ q \in Seq(Callers)
             /\ Distinct(q)
             /\ ToSet(q) = ToSet(queueEntries) \ {c}
             /\ \A x, y \in Callers \ {c} : InFront(q, x, y) <=> InFront(queueEntries, x, y)
<1>. DEFINE k == QueuePosition(c)
<1>1. CASE k = 0
  BY <1>1, QueuePositionProperties DEF EntriesWithout
<1>2. CASE k # 0
  <2>1. k \in 1..Len(queueEntries) /\ queueEntries[k] = c
    BY <1>2, QueuePositionProperties
  <2>2. EntriesWithout(c) = RemoveAt(queueEntries, k)
    BY <1>2 DEF EntriesWithout
  <2>. HIDE DEF k
  <2>. QED
    BY <2>1, <2>2, RemoveAtKeepsOrder
<1>. QED
  BY <1>1, <1>2

(* Dropping the head removes it if it is still first, and nothing else. *)
LEMMA EntriesAfterHeadProperties ==
  ASSUME queueEntries \in Seq(Callers), Distinct(queueEntries)
  PROVE  LET q == EntriesAfterHead
         IN  /\ q \in Seq(Callers)
             /\ Distinct(q)
             /\ ToSet(q) \subseteq ToSet(queueEntries)
             /\ ToSet(queueEntries) \ {head} \subseteq ToSet(q)
             /\ queueEntries # <<>> /\ queueEntries[1] = head => head \notin ToSet(q)
             /\ \A x, y \in Callers \ {head} :
                  InFront(q, x, y) <=> InFront(queueEntries, x, y)
<1>1. CASE queueEntries # <<>> /\ queueEntries[1] = head
  <2>1. 1 \in 1..Len(queueEntries)
    BY <1>1
  <2>2. EntriesAfterHead = RemoveAt(queueEntries, 1)
    <3>1. Tail(queueEntries) = SubSeq(queueEntries, 2, Len(queueEntries))
      BY <1>1, TailIsSubSeq
    <3>2. SubSeq(queueEntries, 1, 1 - 1) = <<>>
      BY SubSeqEmpty
    <3>3. Tail(queueEntries) \in Seq(Callers)
      BY <1>1
    <3>4. <<>> \o Tail(queueEntries) = Tail(queueEntries)
      BY <3>3, ConcatEmptySeq
    <3>. QED
      BY <1>1, <3>1, <3>2, <3>4 DEF EntriesAfterHead, RemoveAt
  <2>. QED
    BY <1>1, <2>1, <2>2, RemoveAtKeepsOrder
<1>2. CASE ~(queueEntries # <<>> /\ queueEntries[1] = head)
  BY <1>2 DEF EntriesAfterHead
<1>. QED
  BY <1>1, <1>2

(* A caller that leaves does not change who is first, unless it is itself.  *)
LEMMA FrontStays ==
  ASSUME queueEntries \in Seq(Callers), queueEntries # <<>>,
         NEW c \in Callers, queueEntries[1] # c
  PROVE  EntriesWithout(c) # <<>> /\ EntriesWithout(c)[1] = queueEntries[1]
<1>1. CASE QueuePosition(c) = 0
  BY <1>1 DEF EntriesWithout
<1>2. CASE QueuePosition(c) # 0
  <2>1. QueuePosition(c) \in 1..Len(queueEntries) /\ QueuePosition(c) # 1
    BY <1>2, QueuePositionProperties
  <2>2. EntriesWithout(c) = RemoveAt(queueEntries, QueuePosition(c))
    BY <1>2 DEF EntriesWithout
  <2>3. /\ EntriesWithout(c) \in Seq(Callers)
        /\ Len(EntriesWithout(c)) = Len(queueEntries) - 1
        /\ 1 \in 1..(Len(queueEntries) - 1) => EntriesWithout(c)[1] = queueEntries[1]
    BY <2>1, <2>2, RemoveAtProperties
  <2>. QED
    BY <2>1, <2>3
<1>. QED
  BY <1>1, <1>2

LEMMA AppendKeepsOrder ==
  ASSUME NEW S, NEW s \in Seq(S), Distinct(s), NEW e \in S \ ToSet(s)
  PROVE  LET q == Append(s, e)
         IN  /\ q \in Seq(S)
             /\ Distinct(q)
             /\ ToSet(q) = ToSet(s) \cup {e}
             /\ \A x, y \in S :
                  InFront(q, x, y) <=> InFront(s, x, y) \/ (x \in ToSet(s) /\ y = e)
<1>. DEFINE q == Append(s, e)
            n == Len(s)
<1>1. /\ q \in Seq(S)
      /\ DOMAIN q = 1..(n + 1)
      /\ \A i \in 1..n : q[i] = s[i]
      /\ q[n + 1] = e
      /\ n \in Nat
      /\ DOMAIN s = 1..n
  BY AppendProperties
<1>. HIDE DEF q, n
<1>2. ToSet(q) = ToSet(s) \cup {e}
  BY <1>1 DEF ToSet
<1>3. Distinct(q)
  BY <1>1 DEF Distinct, ToSet
<1>4. ASSUME NEW x \in S, NEW y \in S
      PROVE  InFront(q, x, y) <=> InFront(s, x, y) \/ (x \in ToSet(s) /\ y = e)
  <2>1. ASSUME InFront(q, x, y)
        PROVE  InFront(s, x, y) \/ (x \in ToSet(s) /\ y = e)
    <3>1. PICK i \in 1..(n + 1), j \in 1..(n + 1) : i < j /\ q[i] = x /\ q[j] = y
      BY <1>1, <2>1 DEF InFront
    <3>2. i \in 1..n /\ s[i] = x
      BY <1>1, <3>1
    <3>3. CASE j = n + 1
      BY <1>1, <3>1, <3>2, <3>3 DEF ToSet
    <3>4. CASE j # n + 1
      BY <1>1, <3>1, <3>2, <3>4 DEF InFront
    <3>. QED
      BY <3>3, <3>4
  <2>2. ASSUME InFront(s, x, y) PROVE InFront(q, x, y)
    <3>1. PICK i \in 1..n, j \in 1..n : i < j /\ s[i] = x /\ s[j] = y
      BY <1>1, <2>2 DEF InFront
    <3>. QED
      BY <1>1, <3>1 DEF InFront
  <2>3. ASSUME x \in ToSet(s), y = e PROVE InFront(q, x, y)
    <3>1. PICK i \in 1..n : s[i] = x
      BY <1>1, <2>3 DEF ToSet
    <3>. QED
      BY <1>1, <2>3, <3>1 DEF InFront
  <2>. QED
    BY <2>1, <2>2, <2>3
<1>. QED
  BY <1>1, <1>2, <1>3, <1>4 DEF q

-----------------------------------------------------------------------------
(* Nobody is told anything under the lock: a callback that would is the one *)
(* that does not return.                                                    *)
LEMMA RenotifyTellsNobody ==
  ASSUME Inv, Renotify
  PROVE  UNCHANGED callerVars
<1>1. queueLock = "handler"
  BY DEF Renotify, Inv, RestIsNotified
<1>2. Head(pending) \notin PositionCallers
  BY <1>1 DEF Renotify, CallbackReturns
<1>. QED
  BY <1>2 DEF Renotify, callerVars

(* Every step keeps the types. *)
LEMMA TypeOKStep ==
  ASSUME Inv, [Next]_vars
  PROVE  TypeOK'
<1>1. ASSUME NEW c \in Callers, Enqueue(c) PROVE TypeOK'
  BY <1>1 DEF Enqueue, Inv, TypeOK, handlerVars, signalVars
<1>2. ASSUME NEW c \in Callers, Signal(c) PROVE TypeOK'
  BY <1>2 DEF Signal, Inv, TypeOK, handlerVars, signalVars
<1>3. ASSUME NEW c \in Callers, Leave(c) PROVE TypeOK'
  BY <1>3, EntriesWithoutProperties
    DEF Leave, EntriesWait, Inv, TypeOK, handlerVars, signalVars
<1>4. ASSUME NEW c \in Callers, StartProcess(c) PROVE TypeOK'
  BY <1>4 DEF StartProcess, Inv, TypeOK, queueVars, handlerVars, signalVars
<1>5. ASSUME NEW c \in Callers, Return(c) PROVE TypeOK'
  BY <1>5 DEF Return, Inv, TypeOK, queueVars, handlerVars, signalVars
<1>6. ASSUME NEW c \in Callers, ContextEnds(c) PROVE TypeOK'
  BY <1>6 DEF ContextEnds, Inv, TypeOK, queueVars, handlerVars, signalVars
<1>7. CASE Check
  BY <1>7 DEF Check, Inv, TypeOK, callerVars, queueVars, signalVars
<1>8. CASE SelectWakeup
  BY <1>8 DEF SelectWakeup, Inv, TypeOK, callerVars, signalVars
<1>9. CASE SelectDone
  BY <1>9 DEF SelectDone, Inv, TypeOK, callerVars, queueVars, signalVars
<1>10. CASE Take
  BY <1>10 DEF Take, Inv, TypeOK, callerVars, queueVars, signalVars
<1>11. CASE ExamineContext \/ ExamineHead
  BY <1>11 DEF ExamineContext, ExamineHead, Inv, TypeOK, callerVars, queueVars, signalVars
<1>12. CASE Skip
  BY <1>12, EntriesAfterHeadProperties
    DEF Skip, EntriesWait, Inv, TypeOK, callerVars, signalVars
<1>13. CASE NotifyHead
  BY <1>13, QueuePositionProperties
    DEF NotifyHead, HeadTaken, Inv, TypeOK, callerVars, queueVars, signalVars
<1>14. CASE SendPosition
  BY <1>14 DEF SendPosition, Offered, Inv, TypeOK, queueVars, signalVars
<1>15. CASE Release
  BY <1>15 DEF Release, Inv, TypeOK, queueVars, signalVars
<1>16. CASE Clean
  BY <1>16, EntriesAfterHeadProperties
    DEF Clean, EntriesWait, Inv, TypeOK, callerVars, signalVars
<1>17. CASE Renotify
  BY <1>17, RenotifyTellsNobody DEF Renotify, Inv, TypeOK, callerVars, queueVars, signalVars
<1>18. CASE Unlock
  BY <1>18 DEF Unlock, Inv, TypeOK, callerVars, signalVars
<1>19. CASE HandlerCloses
  BY <1>19 DEF HandlerCloses, Inv, TypeOK, callerVars, signalVars
<1>20. CASE HandlerCancelsAll
  BY <1>20 DEF HandlerCancelsAll, CancelEntries, Inv, TypeOK, queueVars, signalVars
<1>21. CASE SignalArrives
  BY <1>21 DEF SignalArrives, Inv, TypeOK, callerVars, queueVars, handlerVars
<1>22. CASE SignalCloses
  BY <1>22 DEF SignalCloses, Inv, TypeOK, callerVars, handlerVars
<1>23. CASE SignalCancelsAll
  BY <1>23 DEF SignalCancelsAll, CancelEntries, Inv, TypeOK, queueVars, handlerVars
<1>24. CASE UNCHANGED vars
  BY <1>24 DEF vars, callerVars, queueVars, handlerVars, signalVars, Inv, TypeOK
<1>. QED
  BY <1>1, <1>2, <1>3, <1>4, <1>5, <1>6, <1>7, <1>8, <1>9, <1>10, <1>11, <1>12,
     <1>13, <1>14, <1>15, <1>16, <1>17, <1>18, <1>19, <1>20, <1>21, <1>22, <1>23,
     <1>24
    DEF Next, Caller, Handler, SignalGoroutine

(* An entry is appended when its caller enters WaitQueue, and that caller   *)
(* removes it when it leaves, if HandleQueue has not.                       *)
LEMMA EntriesWaitStep ==
  ASSUME Inv, [Next]_vars
  PROVE  EntriesWait'
<1>1. ASSUME NEW c \in Callers, Enqueue(c) PROVE EntriesWait'
  BY <1>1, AppendKeepsOrder DEF Enqueue, EntriesWait, InWaitQueue, Inv, TypeOK
<1>2. ASSUME NEW c \in Callers, Signal(c) PROVE EntriesWait'
  BY <1>2 DEF Signal, EntriesWait, InWaitQueue, Inv, TypeOK
<1>3. ASSUME NEW c \in Callers, Leave(c) PROVE EntriesWait'
  BY <1>3, EntriesWithoutProperties DEF Leave, EntriesWait, InWaitQueue, Inv, TypeOK
<1>4. ASSUME NEW c \in Callers, StartProcess(c) PROVE EntriesWait'
  BY <1>4 DEF StartProcess, EntriesWait, InWaitQueue, Inv, TypeOK, queueVars
<1>5. ASSUME NEW c \in Callers, Return(c) PROVE EntriesWait'
  BY <1>5 DEF Return, EntriesWait, InWaitQueue, Inv, TypeOK, queueVars
<1>6. CASE Skip
  BY <1>6, EntriesAfterHeadProperties
    DEF Skip, EntriesWait, InWaitQueue, Inv, TypeOK, callerVars
<1>7. CASE Clean
  BY <1>7, EntriesAfterHeadProperties
    DEF Clean, EntriesWait, InWaitQueue, Inv, TypeOK, callerVars
<1>8. ASSUME NEW c \in Callers,
             ContextEnds(c)
      PROVE  EntriesWait'
  BY <1>8 DEF ContextEnds, EntriesWait, InWaitQueue, Inv, TypeOK, queueVars
<1>9. CASE Check \/ SelectWakeup \/ SelectDone \/ Take \/ ExamineContext \/
           ExamineHead \/ NotifyHead \/ SendPosition \/ Release \/ Renotify \/ Unlock \/
           HandlerCloses \/ HandlerCancelsAll \/ SignalArrives \/ SignalCloses \/
           SignalCancelsAll \/ UNCHANGED vars
  BY <1>9
    DEF Check, SelectWakeup, SelectDone, Take, ExamineContext, ExamineHead, NotifyHead,
        SendPosition,
        Release, Renotify, Unlock, HandlerCloses, HandlerCancelsAll, SignalArrives,
        SignalCloses, SignalCancelsAll, vars, callerVars, queueVars, EntriesWait,
        InWaitQueue, Inv, TypeOK
<1>. QED
  BY <1>1, <1>2, <1>3, <1>4, <1>5, <1>6, <1>7, <1>8, <1>9
    DEF Next, Caller, Handler, SignalGoroutine

(* Only callers that have entered WaitQueue are cancelled.                  *)
LEMMA PastOfCallersStep ==
  ASSUME Inv, [Next]_vars
  PROVE  PastOfCallers'
<1>1. ASSUME NEW c \in Callers, Enqueue(c) PROVE PastOfCallers'
  BY <1>1 DEF Enqueue, PastOfCallers, Inv, TypeOK
<1>2. ASSUME NEW c \in Callers, Signal(c) PROVE PastOfCallers'
  BY <1>2 DEF Signal, PastOfCallers, Inv, TypeOK
<1>3. ASSUME NEW c \in Callers, Leave(c) PROVE PastOfCallers'
  BY <1>3 DEF Leave, PastOfCallers, Inv, TypeOK
<1>4. ASSUME NEW c \in Callers, StartProcess(c) PROVE PastOfCallers'
  BY <1>4 DEF StartProcess, PastOfCallers, Inv, TypeOK
<1>5. ASSUME NEW c \in Callers, Return(c) PROVE PastOfCallers'
  BY <1>5 DEF Return, PastOfCallers, Inv, TypeOK
<1>6. ASSUME NEW c \in Callers, ContextEnds(c) PROVE PastOfCallers'
  BY <1>6 DEF ContextEnds, PastOfCallers, Inv, TypeOK
<1>7. CASE Release
  BY <1>7 DEF Release, HeadTaken, Joined, PastOfCallers, Inv, TypeOK
<1>8. CASE HandlerCancelsAll
  BY <1>8
    DEF HandlerCancelsAll, CancelEntries, EntriesWait, InWaitQueue, PastOfCallers,
        Inv, TypeOK
<1>9. CASE SignalCancelsAll
  BY <1>9
    DEF SignalCancelsAll, CancelEntries, EntriesWait, InWaitQueue, PastOfCallers,
        Inv, TypeOK
<1>10. CASE Check \/ SelectWakeup \/ SelectDone \/ Take \/ ExamineContext \/
            ExamineHead \/ Skip \/ NotifyHead \/ SendPosition \/ Clean \/ Renotify \/
            Unlock \/ HandlerCloses \/ SignalArrives \/ SignalCloses \/ UNCHANGED vars
  BY <1>10
    DEF Check, SelectWakeup, SelectDone, Take, ExamineContext, ExamineHead, Skip, NotifyHead,
        SendPosition, Clean, Renotify, Unlock, HandlerCloses, SignalArrives,
        SignalCloses, vars, callerVars, PastOfCallers, Inv, TypeOK
<1>. QED
  BY <1>1, <1>2, <1>3, <1>4, <1>5, <1>6, <1>7, <1>8, <1>9, <1>10
    DEF Next, Caller, Handler, SignalGoroutine

(* HandleQueue takes its head from the queue.                               *)
LEMMA HeadTakenStep ==
  ASSUME Inv, [Next]_vars
  PROVE  HeadTaken'
<1>1. ASSUME NEW c \in Callers, Enqueue(c) PROVE HeadTaken'
  BY <1>1 DEF Enqueue, HeadTaken, Joined, Inv, TypeOK, handlerVars
<1>2. ASSUME NEW c \in Callers, Signal(c) PROVE HeadTaken'
  BY <1>2 DEF Signal, HeadTaken, Joined, Inv, TypeOK, handlerVars
<1>3. ASSUME NEW c \in Callers, Leave(c) PROVE HeadTaken'
  BY <1>3 DEF Leave, HeadTaken, Joined, Inv, TypeOK, handlerVars
<1>4. ASSUME NEW c \in Callers, StartProcess(c) PROVE HeadTaken'
  BY <1>4 DEF StartProcess, HeadTaken, Joined, Inv, TypeOK, handlerVars
<1>5. ASSUME NEW c \in Callers, Return(c) PROVE HeadTaken'
  BY <1>5 DEF Return, HeadTaken, Joined, Inv, TypeOK, handlerVars
<1>6. ASSUME NEW c \in Callers, ContextEnds(c) PROVE HeadTaken'
  BY <1>6 DEF ContextEnds, HeadTaken, Joined, Inv, TypeOK, handlerVars
<1>7. CASE Check
  BY <1>7 DEF Check, HeadTaken, Joined, Inv, TypeOK, callerVars
<1>8. CASE SelectWakeup
  BY <1>8 DEF SelectWakeup, HeadTaken, Joined, Inv, TypeOK, callerVars
<1>9. CASE SelectDone
  BY <1>9 DEF SelectDone, HeadTaken, Joined, Inv, TypeOK, callerVars
<1>10. CASE Take
  BY <1>10
    DEF Take, EntriesWait, InWaitQueue, ToSet, HeadTaken, Joined, Inv, TypeOK,
        callerVars
<1>11. CASE ExamineContext \/ ExamineHead
  BY <1>11 DEF ExamineContext, ExamineHead, HeadTaken, Joined, Inv, TypeOK, callerVars
<1>12. CASE Skip
  BY <1>12 DEF Skip, HeadTaken, Joined, Inv, TypeOK, callerVars
<1>13. CASE NotifyHead
  BY <1>13 DEF NotifyHead, HeadTaken, Joined, Inv, TypeOK, callerVars
<1>14. CASE SendPosition
  BY <1>14 DEF SendPosition, Offered, HeadTaken, Joined, Inv, TypeOK
<1>15. CASE Release
  BY <1>15 DEF Release, HeadTaken, Joined, Inv, TypeOK
<1>16. CASE Clean
  BY <1>16 DEF Clean, HeadTaken, Joined, Inv, TypeOK, callerVars
<1>17. CASE Unlock
  BY <1>17 DEF Unlock, HeadTaken, Joined, Inv, TypeOK, callerVars
<1>18. CASE HandlerCloses
  BY <1>18 DEF HandlerCloses, HeadTaken, Joined, Inv, TypeOK, callerVars
<1>19. CASE HandlerCancelsAll
  BY <1>19 DEF HandlerCancelsAll, HeadTaken, Joined, Inv, TypeOK
<1>20. CASE Renotify \/ SignalArrives \/ SignalCloses \/ SignalCancelsAll \/
            UNCHANGED vars
  BY <1>20
    DEF Renotify, SignalArrives, SignalCloses, SignalCancelsAll, vars, callerVars,
        handlerVars, HeadTaken, Joined, Inv, TypeOK
<1>. QED
  BY <1>1, <1>2, <1>3, <1>4, <1>5, <1>6, <1>7, <1>8, <1>9, <1>10, <1>11, <1>12,
     <1>13, <1>14, <1>15, <1>16, <1>17, <1>18, <1>19, <1>20
    DEF Next, Caller, Handler, SignalGoroutine

(* queueShutdown is never reopened.                                         *)
LEMMA ClosedFirstStep ==
  ASSUME Inv, [Next]_vars
  PROVE  ClosedFirst'
<1>1. CASE Check
  BY <1>1 DEF Check, ClosedFirst, Inv, TypeOK, queueVars, signalVars
<1>2. CASE SelectWakeup
  BY <1>2 DEF SelectWakeup, ClosedFirst, Inv, TypeOK, signalVars
<1>3. CASE SelectDone
  BY <1>3 DEF SelectDone, ClosedFirst, Inv, TypeOK, queueVars, signalVars
<1>4. CASE Take
  BY <1>4 DEF Take, ClosedFirst, Inv, TypeOK, queueVars, signalVars
<1>5. CASE ExamineContext \/ ExamineHead
  BY <1>5 DEF ExamineContext, ExamineHead, ClosedFirst, Inv, TypeOK, queueVars, signalVars
<1>6. CASE Skip
  BY <1>6 DEF Skip, ClosedFirst, Inv, TypeOK, signalVars
<1>7. CASE NotifyHead
  BY <1>7 DEF NotifyHead, ClosedFirst, Inv, TypeOK, queueVars, signalVars
<1>8. CASE SendPosition
  BY <1>8 DEF SendPosition, Offered, ClosedFirst, Inv, TypeOK, queueVars, signalVars
<1>9. CASE Release
  BY <1>9 DEF Release, ClosedFirst, Inv, TypeOK, queueVars, signalVars
<1>10. CASE Clean
  BY <1>10 DEF Clean, ClosedFirst, Inv, TypeOK, signalVars
<1>11. CASE Unlock
  BY <1>11 DEF Unlock, ClosedFirst, Inv, TypeOK, signalVars
<1>12. CASE HandlerCloses
  BY <1>12 DEF HandlerCloses, ClosedFirst, Inv, TypeOK, signalVars
<1>13. CASE HandlerCancelsAll
  BY <1>13 DEF HandlerCancelsAll, ClosedFirst, Inv, TypeOK, queueVars, signalVars
<1>14. CASE SignalArrives
  BY <1>14 DEF SignalArrives, ClosedFirst, Inv, TypeOK, queueVars, handlerVars
<1>15. CASE SignalCloses
  BY <1>15 DEF SignalCloses, ClosedFirst, Inv, TypeOK, handlerVars
<1>16. CASE SignalCancelsAll
  BY <1>16 DEF SignalCancelsAll, ClosedFirst, Inv, TypeOK, queueVars, handlerVars
<1>17. ASSUME NEW c \in Callers,
             Enqueue(c) \/ Signal(c) \/ Leave(c) \/ StartProcess(c) \/ Return(c) \/
             ContextEnds(c)
      PROVE  ClosedFirst'
  BY <1>17
    DEF Enqueue, Signal, Leave, StartProcess, Return, ContextEnds, ClosedFirst, Inv,
        TypeOK, handlerVars, signalVars, queueVars
<1>18. CASE Renotify \/ UNCHANGED vars
  BY <1>18
    DEF Renotify, vars, queueVars, signalVars, handlerVars, ClosedFirst, Inv, TypeOK
<1>. QED
  BY <1>1, <1>2, <1>3, <1>4, <1>5, <1>6, <1>7, <1>8, <1>9, <1>10, <1>11, <1>12,
     <1>13, <1>14, <1>15, <1>16, <1>17, <1>18
    DEF Next, Caller, Handler, SignalGoroutine

(* HandleQueue removes only a head whose context is done.                   *)
LEMMA NoLostWaiterStep ==
  ASSUME Inv, [Next]_vars
  PROVE  NoLostWaiter'
<1>1. ASSUME NEW c \in Callers, Enqueue(c) PROVE NoLostWaiter'
  BY <1>1, AppendKeepsOrder
    DEF Enqueue, EntriesWait, NoLostWaiter, InWaitQueue, Inv, TypeOK
<1>2. ASSUME NEW c \in Callers, Signal(c) PROVE NoLostWaiter'
  BY <1>2 DEF Signal, NoLostWaiter, InWaitQueue, Inv, TypeOK
<1>3. ASSUME NEW c \in Callers, Leave(c) PROVE NoLostWaiter'
  BY <1>3, EntriesWithoutProperties
    DEF Leave, EntriesWait, NoLostWaiter, InWaitQueue, Inv, TypeOK
<1>4. ASSUME NEW c \in Callers, StartProcess(c) PROVE NoLostWaiter'
  BY <1>4 DEF StartProcess, NoLostWaiter, InWaitQueue, Inv, TypeOK, queueVars
<1>5. ASSUME NEW c \in Callers, Return(c) PROVE NoLostWaiter'
  BY <1>5 DEF Return, NoLostWaiter, InWaitQueue, Inv, TypeOK, queueVars
<1>6. ASSUME NEW c \in Callers, ContextEnds(c) PROVE NoLostWaiter'
  BY <1>6 DEF ContextEnds, NoLostWaiter, InWaitQueue, Inv, TypeOK, queueVars
<1>7. CASE Skip
  BY <1>7, EntriesAfterHeadProperties
    DEF Skip, EntriesWait, HeadTaken, NoLostWaiter, InWaitQueue, Inv, TypeOK,
        callerVars
<1>8. CASE Release
  BY <1>8 DEF Release, NoLostWaiter, InWaitQueue, Inv, TypeOK, queueVars
<1>9. CASE Clean
  BY <1>9, EntriesAfterHeadProperties
    DEF Clean, EntriesWait, NoLostWaiter, InWaitQueue, Inv, TypeOK, callerVars
<1>10. CASE HandlerCancelsAll
  BY <1>10
    DEF HandlerCancelsAll, CancelEntries, NoLostWaiter, InWaitQueue, Inv, TypeOK,
        queueVars
<1>11. CASE SignalCancelsAll
  BY <1>11
    DEF SignalCancelsAll, CancelEntries, NoLostWaiter, InWaitQueue, Inv, TypeOK,
        queueVars
<1>12. CASE Check \/ SelectWakeup \/ SelectDone \/ Take \/ ExamineContext \/
            ExamineHead \/ NotifyHead \/ SendPosition \/ Renotify \/ Unlock \/
            HandlerCloses \/ SignalArrives \/ SignalCloses \/ UNCHANGED vars
  BY <1>12
    DEF Check, SelectWakeup, SelectDone, Take, ExamineContext, ExamineHead, NotifyHead,
        SendPosition, Renotify, Unlock, HandlerCloses, SignalArrives, SignalCloses, vars,
        callerVars, queueVars, NoLostWaiter, InWaitQueue, Inv, TypeOK
<1>. QED
  BY <1>1, <1>2, <1>3, <1>4, <1>5, <1>6, <1>7, <1>8, <1>9, <1>10, <1>11, <1>12
    DEF Next, Caller, Handler, SignalGoroutine

(* A caller that leaves takes no wake-up with it: its own send is behind it. *)
LEMMA NoLostWakeupStep ==
  ASSUME Inv, [Next]_vars
  PROVE  NoLostWakeup'
<1>1. ASSUME NEW c \in Callers, Enqueue(c) PROVE NoLostWakeup'
  BY <1>1, AppendKeepsOrder
    DEF Enqueue, EntriesWait, InWaitQueue, NoLostWakeup, Inv, TypeOK, handlerVars
<1>2. ASSUME NEW c \in Callers, Signal(c) PROVE NoLostWakeup'
  BY <1>2 DEF Signal, NoLostWakeup, Inv, TypeOK, handlerVars
<1>3. ASSUME NEW c \in Callers, Leave(c) PROVE NoLostWakeup'
  <2>1. Distinct(queueEntries) /\ queueEntries \in Seq(Callers)
    BY DEF Inv, TypeOK, EntriesWait
  <2>2. /\ queueEntries' \in Seq(Callers)
        /\ ToSet(queueEntries') = ToSet(queueEntries) \ {c}
    BY <1>3, <2>1, EntriesWithoutProperties DEF Leave
  <2>3. queueEntries' # <<>> => queueEntries # <<>>
    BY <2>1, <2>2 DEF ToSet
  <2>4. \A d \in ToSet(queueEntries) : pc[d] = "signal" => d # c /\ pc'[d] = "signal"
    BY <1>3 DEF Leave, Inv, TypeOK
  <2>. QED
    BY <1>3, <2>2, <2>3, <2>4 DEF NoLostWakeup, Inv, TypeOK, Leave, handlerVars
<1>4. ASSUME NEW c \in Callers, StartProcess(c) PROVE NoLostWakeup'
  BY <1>4 DEF StartProcess, NoLostWakeup, Inv, TypeOK, queueVars, handlerVars
<1>5. ASSUME NEW c \in Callers, Return(c) PROVE NoLostWakeup'
  BY <1>5 DEF Return, NoLostWakeup, Inv, TypeOK, queueVars, handlerVars
<1>6. CASE Check
  BY <1>6 DEF Check, NoLostWakeup, Inv, TypeOK, callerVars, queueVars
<1>7. CASE SelectWakeup
  BY <1>7 DEF SelectWakeup, NoLostWakeup, Inv, TypeOK, callerVars
<1>8. CASE SelectDone
  BY <1>8 DEF SelectDone, NoLostWakeup, Inv, TypeOK, callerVars, queueVars
<1>9. CASE Take
  BY <1>9 DEF Take, NoLostWakeup, Inv, TypeOK, callerVars, queueVars
<1>10. CASE ExamineContext \/ ExamineHead
  BY <1>10 DEF ExamineContext, ExamineHead, NoLostWakeup, Inv, TypeOK, callerVars, queueVars
<1>11. CASE Skip
  BY <1>11 DEF Skip, NoLostWakeup, Inv, TypeOK, callerVars
<1>12. CASE NotifyHead
  BY <1>12 DEF NotifyHead, NoLostWakeup, Inv, TypeOK, callerVars, queueVars
<1>13. CASE SendPosition
  BY <1>13 DEF SendPosition, Offered, NoLostWakeup, Inv, TypeOK, queueVars
<1>14. CASE Release
  BY <1>14 DEF Release, NoLostWakeup, Inv, TypeOK, queueVars
<1>15. CASE Clean
  BY <1>15 DEF Clean, NoLostWakeup, Inv, TypeOK, callerVars
<1>16. CASE Unlock
  BY <1>16 DEF Unlock, NoLostWakeup, Inv, TypeOK, callerVars
<1>17. CASE HandlerCloses
  BY <1>17 DEF HandlerCloses, NoLostWakeup, Inv, TypeOK, callerVars
<1>18. CASE HandlerCancelsAll
  BY <1>18 DEF HandlerCancelsAll, NoLostWakeup, Inv, TypeOK, queueVars
<1>19. ASSUME NEW c \in Callers,
             ContextEnds(c)
      PROVE  NoLostWakeup'
  BY <1>19 DEF ContextEnds, NoLostWakeup, Inv, TypeOK, queueVars, handlerVars
<1>20. CASE Renotify \/ SignalArrives \/ SignalCloses \/ SignalCancelsAll \/
            UNCHANGED vars
  BY <1>20
    DEF Renotify, SignalArrives, SignalCloses, SignalCancelsAll, vars, callerVars,
        queueVars, handlerVars, NoLostWakeup, Inv, TypeOK
<1>. QED
  BY <1>1, <1>2, <1>3, <1>4, <1>5, <1>6, <1>7, <1>8, <1>9, <1>10, <1>11, <1>12,
     <1>13, <1>14, <1>15, <1>16, <1>17, <1>18, <1>19, <1>20
    DEF Next, Caller, Handler, SignalGoroutine

(* HandleQueue does not go on before the context of its head is done.       *)
LEMMA ReleasedIsHeadStep ==
  ASSUME Inv, [Next]_vars
  PROVE  ReleasedIsHead'
<1>1. ASSUME NEW c \in Callers, Leave(c) PROVE ReleasedIsHead'
  BY <1>1 DEF Leave, ReleasedIsHead, Inv, TypeOK, handlerVars
<1>2. ASSUME NEW c \in Callers, Return(c) PROVE ReleasedIsHead'
  BY <1>2 DEF Return, ReleasedIsHead, Inv, TypeOK, queueVars, handlerVars
<1>3. ASSUME NEW c \in Callers, ContextEnds(c) PROVE ReleasedIsHead'
  BY <1>3 DEF ContextEnds, ReleasedIsHead, Inv, TypeOK, queueVars, handlerVars
<1>4. CASE Check
  BY <1>4 DEF Check, ReleasedIsHead, Inv, TypeOK, callerVars, queueVars
<1>5. CASE SelectWakeup
  BY <1>5 DEF SelectWakeup, ReleasedIsHead, Inv, TypeOK, callerVars
<1>6. CASE SelectDone
  BY <1>6 DEF SelectDone, ReleasedIsHead, Inv, TypeOK, callerVars, queueVars
<1>7. CASE Take
  BY <1>7 DEF Take, ReleasedIsHead, Inv, TypeOK, callerVars, queueVars
<1>8. CASE ExamineContext \/ ExamineHead
  BY <1>8 DEF ExamineContext, ExamineHead, ReleasedIsHead, Inv, TypeOK, callerVars, queueVars
<1>9. CASE Skip
  BY <1>9 DEF Skip, ReleasedIsHead, Inv, TypeOK, callerVars
<1>10. CASE NotifyHead
  BY <1>10 DEF NotifyHead, ReleasedIsHead, Inv, TypeOK, callerVars, queueVars
<1>11. CASE SendPosition
  BY <1>11 DEF SendPosition, Offered, ReleasedIsHead, Inv, TypeOK, queueVars
<1>12. CASE Release
  BY <1>12 DEF Release, HeadTaken, ReleasedIsHead, Inv, TypeOK, queueVars
<1>13. CASE Clean
  BY <1>13 DEF Clean, ReleasedIsHead, Inv, TypeOK, callerVars
<1>14. CASE Unlock
  BY <1>14 DEF Unlock, ReleasedIsHead, Inv, TypeOK, callerVars
<1>15. CASE HandlerCloses
  BY <1>15 DEF HandlerCloses, ReleasedIsHead, Inv, TypeOK, callerVars
<1>16. CASE HandlerCancelsAll
  BY <1>16
    DEF HandlerCancelsAll, ClosedFirst, ReleasedIsHead, Inv, TypeOK, queueVars
<1>17. CASE SignalCloses
  BY <1>17 DEF SignalCloses, ReleasedIsHead, Inv, TypeOK, callerVars, handlerVars
<1>18. CASE SignalCancelsAll
  BY <1>18
    DEF SignalCancelsAll, ClosedFirst, ReleasedIsHead, Inv, TypeOK, queueVars,
        handlerVars
<1>19. ASSUME NEW c \in Callers,
             Enqueue(c) \/ Signal(c) \/ StartProcess(c)
      PROVE  ReleasedIsHead'
  BY <1>19
    DEF Enqueue, Signal, StartProcess, ReleasedIsHead, Inv, TypeOK, handlerVars,
        queueVars
<1>20. CASE Renotify \/ SignalArrives \/ UNCHANGED vars
  BY <1>20
    DEF Renotify, SignalArrives, vars, callerVars, queueVars, handlerVars,
        ReleasedIsHead, Inv, TypeOK
<1>. QED
  BY <1>1, <1>2, <1>3, <1>4, <1>5, <1>6, <1>7, <1>8, <1>9, <1>10, <1>11, <1>12,
     <1>13, <1>14, <1>15, <1>16, <1>17, <1>18, <1>19, <1>20
    DEF Next, Caller, Handler, SignalGoroutine

(* Callers leave the queue behind a live head that is not released, and the *)
(* head itself does not.                                                    *)
LEMMA HeadIsFirstStep ==
  ASSUME Inv, [Next]_vars
  PROVE  HeadIsFirst'
<1>1. ASSUME NEW c \in Callers, Enqueue(c) PROVE HeadIsFirst'
  BY <1>1, AppendProperties DEF Enqueue, HeadIsFirst, Inv, TypeOK, handlerVars
<1>2. ASSUME NEW c \in Callers, Leave(c) PROVE HeadIsFirst'
  <2>. SUFFICES ASSUME ~queueShutdown', hpc' \in {"examine", "examineHead", "notify",
    "send", "release"},
                       ~ctxDone'[head']
                PROVE  queueEntries' # <<>> /\ queueEntries'[1] = head'
    BY DEF HeadIsFirst
  <2>1. /\ queueEntries \in Seq(Callers)
        /\ queueEntries # <<>>
        /\ queueEntries[1] = head
        /\ head' = head
        /\ head \in Callers
    BY <1>2 DEF Leave, Inv, TypeOK, HeadIsFirst, HeadTaken, handlerVars
  <2>2. c # head
    BY <1>2 DEF Leave, Inv, ReleasedIsHead, handlerVars
  <2>. QED
    BY <1>2, <2>1, <2>2, FrontStays DEF Leave
<1>3. ASSUME NEW c \in Callers, Return(c) PROVE HeadIsFirst'
  BY <1>3 DEF Return, HeadIsFirst, Inv, TypeOK, queueVars, handlerVars
<1>4. ASSUME NEW c \in Callers, ContextEnds(c) PROVE HeadIsFirst'
  BY <1>4 DEF ContextEnds, HeadIsFirst, Inv, TypeOK, queueVars, handlerVars
<1>5. CASE Check
  BY <1>5 DEF Check, HeadIsFirst, Inv, TypeOK, callerVars, queueVars
<1>6. CASE SelectWakeup
  BY <1>6 DEF SelectWakeup, HeadIsFirst, Inv, TypeOK, callerVars
<1>7. CASE SelectDone
  BY <1>7 DEF SelectDone, HeadIsFirst, Inv, TypeOK, callerVars, queueVars
<1>8. CASE Take
  BY <1>8 DEF Take, HeadIsFirst, Inv, TypeOK, callerVars, queueVars
<1>9. CASE ExamineContext \/ ExamineHead
  BY <1>9 DEF ExamineContext, ExamineHead, HeadIsFirst, Inv, TypeOK, callerVars, queueVars
<1>10. CASE Skip
  BY <1>10 DEF Skip, HeadIsFirst, Inv, TypeOK, callerVars
<1>11. CASE NotifyHead
  BY <1>11 DEF NotifyHead, HeadIsFirst, Inv, TypeOK, callerVars, queueVars
<1>12. CASE SendPosition
  BY <1>12 DEF SendPosition, Offered, HeadIsFirst, Inv, TypeOK, queueVars
<1>13. CASE Release
  BY <1>13 DEF Release, HeadIsFirst, Inv, TypeOK, queueVars
<1>14. CASE Clean
  BY <1>14 DEF Clean, HeadIsFirst, Inv, TypeOK, callerVars
<1>15. CASE Unlock
  BY <1>15 DEF Unlock, HeadIsFirst, Inv, TypeOK, callerVars
<1>16. CASE HandlerCloses
  BY <1>16 DEF HandlerCloses, HeadIsFirst, Inv, TypeOK, callerVars
<1>17. CASE HandlerCancelsAll
  BY <1>17 DEF HandlerCancelsAll, HeadIsFirst, Inv, TypeOK, queueVars
<1>18. CASE SignalCloses
  BY <1>18 DEF SignalCloses, HeadIsFirst, Inv, TypeOK, callerVars, handlerVars
<1>19. ASSUME NEW c \in Callers,
             Signal(c) \/ StartProcess(c)
      PROVE  HeadIsFirst'
  BY <1>19
    DEF Signal, StartProcess, HeadIsFirst, Inv, TypeOK, handlerVars, queueVars
<1>20. CASE Renotify \/ SignalArrives \/ SignalCancelsAll \/ UNCHANGED vars
  BY <1>20
    DEF Renotify, SignalArrives, SignalCancelsAll, vars, callerVars, queueVars,
        handlerVars, HeadIsFirst, Inv, TypeOK
<1>. QED
  BY <1>1, <1>2, <1>3, <1>4, <1>5, <1>6, <1>7, <1>8, <1>9, <1>10, <1>11, <1>12,
     <1>13, <1>14, <1>15, <1>16, <1>17, <1>18, <1>19, <1>20
    DEF Next, Caller, Handler, SignalGoroutine

(* The head is first in the queue when its callback reads the position.     *)
LEMMA HeadIsToldStep ==
  ASSUME Inv, [Next]_vars
  PROVE  HeadIsTold'
<1>1. ASSUME NEW c \in Callers, Return(c) PROVE HeadIsTold'
  BY <1>1 DEF Return, HeadIsTold, Inv, TypeOK, queueVars, handlerVars
<1>2. ASSUME NEW c \in Callers, ContextEnds(c) PROVE HeadIsTold'
  BY <1>2 DEF ContextEnds, HeadIsTold, Inv, TypeOK, queueVars, handlerVars
<1>3. CASE Check
  BY <1>3 DEF Check, HeadIsTold, Inv, TypeOK, callerVars, queueVars
<1>4. CASE SelectWakeup
  BY <1>4 DEF SelectWakeup, HeadIsTold, Inv, TypeOK, callerVars
<1>5. CASE SelectDone
  BY <1>5 DEF SelectDone, HeadIsTold, Inv, TypeOK, callerVars, queueVars
<1>6. CASE Take
  BY <1>6 DEF Take, HeadIsTold, Inv, TypeOK, callerVars, queueVars
<1>7. CASE ExamineContext \/ ExamineHead
  BY <1>7 DEF ExamineContext, ExamineHead, HeadTaken, HeadIsTold, Inv, TypeOK,
    callerVars, queueVars
<1>8. CASE Skip
  BY <1>8 DEF Skip, HeadIsTold, Inv, TypeOK, callerVars
<1>9. CASE NotifyHead
  BY <1>9
    DEF NotifyHead, HeadIsFirst, HeadTaken, EntriesWait, Distinct, QueuePosition,
        HeadIsTold, Inv, TypeOK, callerVars, queueVars
<1>10. CASE SendPosition
  BY <1>10
    DEF SendPosition, Offered, HeadTaken, PastOfCallers, ReleasedWasToldFirst,
        ReleasedIsHead, HeadIsTold, Inv, TypeOK, queueVars
<1>11. CASE Release
  BY <1>11 DEF Release, HeadIsTold, Inv, TypeOK, queueVars
<1>12. CASE Clean
  BY <1>12 DEF Clean, HeadIsTold, Inv, TypeOK, callerVars
<1>13. CASE Unlock
  BY <1>13 DEF Unlock, HeadIsTold, Inv, TypeOK, callerVars
<1>14. CASE HandlerCloses
  BY <1>14 DEF HandlerCloses, HeadIsTold, Inv, TypeOK, callerVars
<1>15. CASE HandlerCancelsAll
  BY <1>15 DEF HandlerCancelsAll, HeadIsTold, Inv, TypeOK, queueVars
<1>16. CASE SignalCloses
  BY <1>16 DEF SignalCloses, HeadIsTold, Inv, TypeOK, callerVars, handlerVars
<1>17. ASSUME NEW c \in Callers,
             Enqueue(c) \/ Signal(c) \/ Leave(c) \/ StartProcess(c)
      PROVE  HeadIsTold'
  BY <1>17
    DEF Enqueue, Signal, Leave, StartProcess, HeadIsTold, Inv, TypeOK, handlerVars,
        queueVars
<1>18. CASE Renotify \/ SignalArrives \/ SignalCancelsAll \/ UNCHANGED vars
  BY <1>18
    DEF Renotify, SignalArrives, SignalCancelsAll, vars, callerVars, queueVars,
        handlerVars, HeadIsTold, Inv, TypeOK
<1>. QED
  BY <1>1, <1>2, <1>3, <1>4, <1>5, <1>6, <1>7, <1>8, <1>9, <1>10, <1>11, <1>12,
     <1>13, <1>14, <1>15, <1>16, <1>17, <1>18
    DEF Next, Caller, Handler, SignalGoroutine

(* Only the head is told, before it is released.                            *)
LEMMA ReleasedWasToldFirstStep ==
  ASSUME Inv, [Next]_vars
  PROVE  ReleasedWasToldFirst'
<1>1. ASSUME NEW c \in Callers, Leave(c) PROVE ReleasedWasToldFirst'
  BY <1>1 DEF Leave, ReleasedWasToldFirst, Inv, TypeOK
<1>2. ASSUME NEW c \in Callers, Return(c) PROVE ReleasedWasToldFirst'
  BY <1>2 DEF Return, ReleasedWasToldFirst, Inv, TypeOK, queueVars
<1>3. ASSUME NEW c \in Callers, ContextEnds(c) PROVE ReleasedWasToldFirst'
  BY <1>3 DEF ContextEnds, ReleasedWasToldFirst, Inv, TypeOK, queueVars
<1>4. CASE SendPosition
  BY <1>4
    DEF SendPosition, Offered, HeadTaken, HeadIsTold, PastOfCallers, ReleasedIsHead,
        ReleasedWasToldFirst, Inv, TypeOK, queueVars
<1>5. CASE Release
  BY <1>5
    DEF Release, HeadTaken, HeadIsTold, ReleasedIsHead, ReleasedWasToldFirst, Inv,
        TypeOK, queueVars
<1>6. CASE HandlerCloses
  BY <1>6 DEF HandlerCloses, ReleasedWasToldFirst, Inv, TypeOK, callerVars
<1>7. CASE HandlerCancelsAll
  BY <1>7
    DEF HandlerCancelsAll, ClosedFirst, ReleasedWasToldFirst, Inv, TypeOK, queueVars
<1>8. CASE SignalCloses
  BY <1>8 DEF SignalCloses, ReleasedWasToldFirst, Inv, TypeOK, callerVars
<1>9. CASE SignalCancelsAll
  BY <1>9
    DEF SignalCancelsAll, ClosedFirst, ReleasedWasToldFirst, Inv, TypeOK, queueVars
<1>10. ASSUME NEW c \in Callers,
             Enqueue(c) \/ Signal(c) \/ StartProcess(c)
      PROVE  ReleasedWasToldFirst'
  BY <1>10
    DEF Enqueue, Signal, StartProcess, ReleasedWasToldFirst, Inv, TypeOK, queueVars
<1>11. CASE Check \/ SelectWakeup \/ SelectDone \/ Take \/ ExamineContext \/
            ExamineHead \/ Skip \/ NotifyHead \/ Clean \/ Unlock \/ SignalArrives \/
            UNCHANGED vars
  BY <1>11
    DEF Check, SelectWakeup, SelectDone, Take, ExamineContext, ExamineHead, Skip,
        NotifyHead, Clean, Unlock, SignalArrives, vars, callerVars, queueVars,
        ReleasedWasToldFirst, Inv, TypeOK
<1>12. CASE Renotify
  BY <1>12, RenotifyTellsNobody
    DEF Renotify, callerVars, queueVars, ReleasedWasToldFirst, Inv
<1>. QED
  BY <1>1, <1>2, <1>3, <1>4, <1>5, <1>6, <1>7, <1>8, <1>9, <1>10, <1>11, <1>12
    DEF Next, Caller, Handler, SignalGoroutine

(* Nobody gets in front of the head, not even after the shutdown.           *)
LEMMA HeadInFrontStep ==
  ASSUME Inv, [Next]_vars
  PROVE  HeadInFront'
<1>. USE DEF Inv, HeadInFront
<1>1. ASSUME NEW c \in Callers, Enqueue(c) PROVE HeadInFront'
  <2>. SUFFICES ASSUME hpc' \in {"examine", "examineHead", "skip", "notify", "send",
                                 "release", "await"},
                       head' \in ToSet(queueEntries')
                PROVE  queueEntries'[1] = head'
    OBVIOUS
  <2>1. /\ queueEntries \in Seq(Callers) /\ queueEntries' = Append(queueEntries, c)
        /\ hpc' = hpc /\ head' = head /\ head # c /\ c \notin ToSet(queueEntries)
    BY <1>1 DEF Enqueue, TypeOK, HeadTaken, Joined, EntriesWait, InWaitQueue, handlerVars
  <2>2. head \in ToSet(queueEntries)
    BY <2>1, AppendKeepsOrder DEF EntriesWait
  <2>3. queueEntries[1] = head /\ queueEntries # <<>>
    BY <2>1, <2>2 DEF ToSet
  <2>. QED
    BY <2>1, <2>3
<1>2. ASSUME NEW c \in Callers, Leave(c) PROVE HeadInFront'
  <2>. SUFFICES ASSUME hpc' \in {"examine", "examineHead", "skip", "notify", "send",
                                 "release", "await"},
                       head' \in ToSet(queueEntries')
                PROVE  queueEntries'[1] = head'
    OBVIOUS
  <2>1. /\ queueEntries \in Seq(Callers) /\ queueEntries' = EntriesWithout(c)
        /\ hpc' = hpc /\ head' = head
    BY <1>2 DEF Leave, TypeOK, handlerVars
  <2>2. head \in ToSet(queueEntries) \ {c}
    BY <2>1, EntriesWithoutProperties DEF EntriesWait
  <2>3. queueEntries[1] = head /\ queueEntries # <<>>
    BY <2>1, <2>2 DEF ToSet
  <2>. QED
    BY <2>1, <2>2, <2>3, FrontStays
<1>3. CASE Take
  BY <1>3 DEF Take, queueVars
<1>4. ASSUME NEW c \in Callers,
             Signal(c) \/ StartProcess(c) \/ Return(c) \/ ContextEnds(c)
      PROVE  HeadInFront'
  BY <1>4 DEF Signal, StartProcess, Return, ContextEnds, queueVars, handlerVars
<1>5. CASE ExamineContext \/ ExamineHead \/ NotifyHead \/ SendPosition \/ Release
  BY <1>5 DEF ExamineContext, ExamineHead, NotifyHead, SendPosition, Release, queueVars
<1>6. CASE Check \/ SelectWakeup \/ SelectDone \/ Skip \/ Clean \/ Renotify \/ Unlock \/
           HandlerCloses \/ HandlerCancelsAll
  BY <1>6
    DEF Check, SelectWakeup, SelectDone, Skip, Clean, Renotify, Unlock, HandlerCloses,
        HandlerCancelsAll
<1>7. CASE SignalArrives \/ SignalCloses \/ SignalCancelsAll \/ UNCHANGED vars
  BY <1>7
    DEF SignalArrives, SignalCloses, SignalCancelsAll, vars, queueVars, handlerVars
<1>. QED
  BY <1>1, <1>2, <1>3, <1>4, <1>5, <1>6, <1>7 DEF Next, Caller, Handler, SignalGoroutine

(* While HandleQueue notifies the entries that remain nobody else moves     *)
(* them: it has the lock.                                                   *)
LEMMA RestIsNotifiedStep ==
  ASSUME Inv, [Next]_vars
  PROVE  RestIsNotified'
<1>. USE DEF Inv, TypeOK, RestIsNotified
<1>1. CASE Clean
  <2>1. /\ hpc = "await" /\ head \in Callers /\ ctxDone[head]
        /\ queueEntries' = EntriesAfterHead /\ pending' = EntriesAfterHead
        /\ queueLock' = "handler" /\ UNCHANGED <<ctxDone, head>>
    BY <1>1 DEF Clean, HeadTaken, callerVars
  <2>2. head \notin ToSet(EntriesAfterHead)
    <3>1. CASE head \in ToSet(queueEntries)
      <4>1. queueEntries # <<>> /\ queueEntries[1] = head
        BY <2>1, <3>1 DEF HeadInFront, ToSet
      <4>. QED
        BY <4>1, EntriesAfterHeadProperties DEF EntriesWait
    <3>2. CASE head \notin ToSet(queueEntries)
      BY <3>2, EntriesAfterHeadProperties DEF EntriesWait
    <3>. QED
      BY <3>1, <3>2
  <2>. QED
    BY <2>1, <2>2
<1>2. CASE Renotify
  <2>1. /\ pending # <<>> /\ pending' = Tail(pending) /\ pending \in Seq(Callers)
        /\ UNCHANGED <<ctxDone, queueVars, hpc, head>>
    BY <1>2 DEF Renotify
  <2>2. ToSet(Tail(pending)) \subseteq ToSet(pending)
    BY <2>1 DEF ToSet
  <2>. QED
    BY <2>1, <2>2 DEF queueVars
<1>3. ASSUME NEW c \in Callers, Enqueue(c) \/ Leave(c) PROVE RestIsNotified'
  BY <1>3 DEF Enqueue, Leave, handlerVars
<1>4. ASSUME NEW c \in Callers,
             Signal(c) \/ StartProcess(c) \/ Return(c) \/ ContextEnds(c)
      PROVE  RestIsNotified'
  BY <1>4 DEF Signal, StartProcess, Return, ContextEnds, queueVars, handlerVars
<1>5. CASE Check \/ SelectWakeup \/ SelectDone \/ Take \/ ExamineContext \/ ExamineHead \/
           Skip \/ NotifyHead \/ SendPosition \/ Release \/ Unlock \/ HandlerCloses \/
           HandlerCancelsAll
  BY <1>5
    DEF Check, SelectWakeup, SelectDone, Take, ExamineContext, ExamineHead, Skip, NotifyHead,
        SendPosition, Release, Unlock, HandlerCloses, HandlerCancelsAll
<1>6. CASE SignalArrives \/ SignalCloses \/ SignalCancelsAll \/ UNCHANGED vars
  BY <1>6
    DEF SignalArrives, SignalCloses, SignalCancelsAll, vars, callerVars, queueVars, handlerVars
<1>. QED
  BY <1>1, <1>2, <1>3, <1>4, <1>5, <1>6 DEF Next, Caller, Handler, SignalGoroutine

(* Inv holds initially and every step keeps it. *)
LEMMA InitInv == Init => Inv
<1>. SUFFICES ASSUME Init PROVE Inv
  OBVIOUS
<1>1. TypeOK
  <2>1. queueEntries \in Seq(Callers) /\ pending \in Seq(Callers)
    BY EmptySeq DEF Init
  <2>2. told \in [Callers -> SUBSET Nat]
    BY DEF Init
  <2>. QED
    BY <2>1, <2>2 DEF Init, TypeOK
<1>2. EntriesWait /\ NoLostWaiter /\ NoLostWakeup
  BY DEF Init, EntriesWait, Distinct, ToSet, NoLostWaiter, NoLostWakeup, InWaitQueue
<1>3. PastOfCallers /\ HeadTaken /\ ClosedFirst
  BY DEF Init, PastOfCallers, HeadTaken, ClosedFirst
<1>4. ReleasedIsHead /\ HeadIsFirst /\ HeadIsTold /\ ReleasedWasToldFirst
  BY DEF Init, ReleasedIsHead, HeadIsFirst, HeadIsTold, ReleasedWasToldFirst
<1>5. HeadInFront /\ RestIsNotified
  BY DEF Init, HeadInFront, RestIsNotified
<1>. QED
  BY <1>1, <1>2, <1>3, <1>4, <1>5 DEF Inv

(* Inv is inductive. *)
THEOREM Invariance == Spec => []Inv
<1>1. Inv /\ [Next]_vars => Inv'
  BY TypeOKStep, EntriesWaitStep, PastOfCallersStep, HeadTakenStep, ClosedFirstStep,
    NoLostWaiterStep, NoLostWakeupStep, ReleasedIsHeadStep, HeadIsFirstStep,
    HeadIsToldStep, ReleasedWasToldFirstStep, HeadInFrontStep,
    RestIsNotifiedStep DEF Inv
<1>. QED
  BY InitInv, <1>1, PTL DEF Spec

(* The wake-up channel holds at most one token, and every variable keeps    *)
(* its type.                                                                *)
THEOREM TypeCorrect == Spec => []TypeOK
  BY Invariance, PTL DEF Inv

(* A caller that still waits has its entry in the queue.                    *)
THEOREM NobodyIsLost == Spec => []NoLostWaiter
  BY Invariance, PTL DEF Inv

(* HandleQueue never sleeps on a queue that nobody will wake it for.        *)
THEOREM NoWakeupIsLost == Spec => []NoLostWakeup
  BY Invariance, PTL DEF Inv

(* Until the shutdown at most one released caller has a live context.       *)
THEOREM AtMostOneLiveTask == Spec => []OneLiveTask
<1>1. Inv => OneLiveTask
  BY DEF Inv, ReleasedIsHead, OneLiveTask
<1>. QED
  BY Invariance, <1>1, PTL

(* A live caller with a position callback is told 1 before it is released,  *)
(* and nothing else.                                                        *)
THEOREM ToldFirst == Spec => []ReleasedWasToldFirst
  BY Invariance, PTL DEF Inv

(* HandleQueue blocks in a callback only behind a task that has ended, and  *)
(* in that of another caller, which waits.                                  *)
THEOREM StuckBehindAnother == Spec => []StuckOnAnother
<1>1. ASSUME Inv, HandlerIsStuck
      PROVE  /\ ctxDone[head] /\ Head(pending) \in PositionCallers \ {head}
             /\ Head(pending) \in ToSet(queueEntries) /\ InWaitQueue(Head(pending))
  <2>1. hpc = "renotify" /\ pending # <<>> /\ pending \in Seq(Callers)
    BY <1>1 DEF HandlerIsStuck, Inv, TypeOK
  <2>2. Head(pending) \in ToSet(pending)
    BY <2>1 DEF ToSet
  <2>3. Head(pending) \in PositionCallers
    BY <1>1 DEF HandlerIsStuck, CallbackReturns
  <2>. QED
    BY <1>1, <2>1, <2>2, <2>3 DEF Inv, RestIsNotified, EntriesWait
<1>2. Inv => StuckOnAnother
  BY <1>1 DEF StuckOnAnother
<1>. QED
  BY <1>2, Invariance, PTL

(* What blocks HandleQueue stays, whatever the callers, their contexts and  *)
(* the signal do: nobody enters or leaves WaitQueue any more.               *)
THEOREM StuckIsForGood == Spec => StuckForGood
<1>. DEFINE Stays == HandlerIsStuck =>
              /\ HandlerIsStuck'
              /\ \A c \in Callers : InWaitQueue(c) <=> InWaitQueue(c)'
              /\ spc' = "http" => spc = "http"
<1>1. ASSUME Inv, [Next]_vars, HandlerIsStuck
      PROVE  /\ HandlerIsStuck'
             /\ \A c \in Callers : InWaitQueue(c) <=> InWaitQueue(c)'
             /\ spc' = "http" => spc = "http"
  <2>. USE DEF HandlerIsStuck, CallbackReturns, InWaitQueue
  <2>1. /\ hpc = "renotify" /\ pending # <<>> /\ queueLock = "handler"
        /\ pc \in [Callers -> {"idle", "signal", "parked", "starting", "running", "done"}]
        /\ Head(pending) \in PositionCallers
    BY <1>1 DEF Inv, TypeOK, RestIsNotified
  <2>2. ASSUME NEW c \in Callers, Caller(c)
        PROVE  UNCHANGED <<hpc, pending, queueLock, spc>>
               /\ \A d \in Callers : InWaitQueue(d) <=> InWaitQueue(d)'
    <3>1. ASSUME Enqueue(c) \/ Leave(c) PROVE FALSE
      BY <2>1, <3>1 DEF Enqueue, Leave
    <3>2. ASSUME Signal(c) \/ StartProcess(c) \/ Return(c) \/ ContextEnds(c)
          PROVE  UNCHANGED <<hpc, pending, queueLock, spc>>
                 /\ \A d \in Callers : InWaitQueue(d) <=> InWaitQueue(d)'
      BY <2>1, <3>2 DEF Signal, StartProcess, Return, ContextEnds, queueVars, handlerVars,
         signalVars
    <3>. QED
      BY <2>2, <3>1, <3>2 DEF Caller
  <2>3. ~Handler
    BY <2>1 DEF Handler, Check, SelectWakeup, SelectDone, Take, ExamineContext, ExamineHead,
       Skip, NotifyHead, SendPosition, Release, Clean, Renotify, Unlock, HandlerCloses,
       HandlerCancelsAll
  <2>4. ASSUME SignalGoroutine
        PROVE  UNCHANGED <<hpc, pending, queueLock, pc>> /\ spc' # "http"
    BY <2>1, <2>4 DEF SignalGoroutine, SignalArrives, SignalCloses, SignalCancelsAll,
       callerVars, queueVars, handlerVars
  <2>5. ASSUME UNCHANGED vars PROVE UNCHANGED <<hpc, pending, queueLock, spc, pc>>
    BY <2>5 DEF vars, callerVars, queueVars, handlerVars, signalVars
  <2>. QED
    BY <1>1, <2>1, <2>2, <2>3, <2>4, <2>5 DEF Next
<1>2. Inv /\ [Next]_vars => [Stays]_vars
  BY <1>1
<1>. HIDE DEF Stays
<1>3. Spec => [][Stays]_vars
  BY <1>2, Invariance, PTL DEF Spec
<1>. QED
  BY <1>3 DEF StuckForGood, Stays

-----------------------------------------------------------------------------
(* The queue implements FifoSlot. *)

(* Waiting, Before and Active move only with these. *)
LEMMA SameSlot ==
  ASSUME Waiting' = Waiting, Active' = Active, queueShutdown' = queueShutdown,
         \A x, y \in Waiting :
           InFront(queueEntries', x, y) <=> InFront(queueEntries, x, y)
  PROVE  UNCHANGED Slot!vars
<1>1. Before' = Before
  BY DEF Before
<1>. QED
  BY <1>1 DEF Slot!vars

LEMMA WaitingAreQueued ==
  Inv => /\ Waiting \subseteq ToSet(queueEntries)
         /\ queueShutdown => Waiting = {}
  BY DEF Inv, TypeOK, NoLostWaiter, PastOfCallers, Waiting, Joined, InWaitQueue

LEMMA InitSlot == Init => Slot!Init
<1>. SUFFICES ASSUME Init PROVE Slot!Init
  OBVIOUS
<1>1. Waiting = {} /\ Active = {}
  BY DEF Init, Waiting, Active, Joined
<1>2. Before = {}
  BY <1>1 DEF Before
<1>. QED
  BY <1>1, <1>2 DEF Slot!Init, Init

LEMMA EnqueueJoins ==
  ASSUME Inv, NEW c \in Callers, Enqueue(c)
  PROVE  Slot!Join(c) \/ Slot!JoinClosed(c)
<1>1. /\ pc[c] = "idle"
      /\ ~ctxDone[c]
      /\ ~cancelled[c]
      /\ c \notin Waiting
      /\ c \notin Active
      /\ c \notin ToSet(queueEntries)
  BY DEF Enqueue, Inv, PastOfCallers, EntriesWait, InWaitQueue, Waiting, Active, Joined
<1>2. \A d \in Callers : Joined(d)' <=> Joined(d) \/ d = c
  BY DEF Enqueue, Joined, Inv, TypeOK
<1>3. CASE ~queueShutdown
  <2>1. Waiting' = Waiting \cup {c} /\ Active' = Active /\ queueShutdown' = queueShutdown
    BY <1>1, <1>2, <1>3 DEF Enqueue, Waiting, Active
  <2>2. \A x, y \in Callers :
          InFront(queueEntries', x, y) <=>
            InFront(queueEntries, x, y) \/ (x \in ToSet(queueEntries) /\ y = c)
    BY <1>1, AppendKeepsOrder DEF Enqueue, Inv, TypeOK, EntriesWait
  <2>3. \A x \in Callers : ~InFront(queueEntries, c, x) /\ ~InFront(queueEntries, x, c)
    BY <1>1 DEF InFront, ToSet
  <2>4. Waiting \subseteq Callers /\ Waiting \subseteq ToSet(queueEntries)
    BY WaitingAreQueued DEF Waiting
  <2>5. Before' = Before \cup (Waiting \X {c})
    <3>1. Before' = {p \in (Waiting \cup {c}) \X (Waiting \cup {c}) :
                       InFront(queueEntries', p[1], p[2])}
      BY <2>1 DEF Before
    <3>. QED
      BY <1>1, <2>2, <2>3, <2>4, <3>1 DEF Before
  <2>. QED
    BY <1>1, <1>3, <2>1, <2>5 DEF Slot!Join
<1>4. CASE queueShutdown
  <2>1. Waiting' = Waiting /\ Active' = Active \cup {c} /\ queueShutdown' = queueShutdown
    BY <1>1, <1>2, <1>4 DEF Enqueue, Waiting, Active
  <2>2. Waiting = {}
    BY <1>4, WaitingAreQueued
  <2>3. Before' = Before
    BY <2>1, <2>2 DEF Before
  <2>. QED
    BY <1>1, <1>4, <2>1, <2>3 DEF Slot!JoinClosed
<1>. QED
  BY <1>3, <1>4

(* A context that ends takes its caller out of the queue, or frees the slot. *)
LEMMA ContextEndsLeaves ==
  ASSUME Inv, NEW c \in Callers, ~ctxDone[c], Joined(c),
         ctxDone' = [ctxDone EXCEPT ![c] = TRUE],
         \A d \in Callers : Joined(d)' <=> Joined(d),
         UNCHANGED <<cancelled, queueVars>>
  PROVE  Slot!GiveUp(c) \/ Slot!Finish(c)
<1>1. CASE c \in Waiting
  <2>1. Waiting' = Waiting \ {c} /\ Active' = Active
    BY <1>1 DEF Inv, TypeOK, Waiting, Active, queueVars
  <2>2. Before' = {p \in Before : c \notin {p[1], p[2]}}
    BY <2>1 DEF Before, queueVars
  <2>. QED
    BY <1>1, <2>1, <2>2 DEF Slot!GiveUp, Slot!StopWaiting, queueVars
<1>2. CASE c \notin Waiting
  <2>1. c \in Active
    BY <1>2 DEF Waiting, Active
  <2>2. Waiting' = Waiting /\ Active' = Active \ {c}
    BY <1>2, <2>1 DEF Inv, TypeOK, Waiting, Active, queueVars
  <2>3. Before' = Before
    BY <2>2 DEF Before, queueVars
  <2>. QED
    BY <2>1, <2>2, <2>3 DEF Slot!Finish, queueVars
<1>. QED
  BY <1>1, <1>2

LEMMA ReleaseGrants ==
  ASSUME Inv, Release
  PROVE  Slot!Grant(head) \/ UNCHANGED Slot!vars
<1>1. head \in Callers /\ Joined(head)
  BY DEF Inv, HeadTaken, Release
<1>2. /\ cancelled' = [cancelled EXCEPT ![head] = TRUE]
      /\ UNCHANGED <<ctxDone, pc, queueEntries, queueShutdown>>
  BY DEF Release, queueVars
<1>3. CASE queueShutdown \/ ctxDone[head]
  <2>1. Waiting' = Waiting /\ Active' = Active
    BY <1>1, <1>2, <1>3 DEF Inv, TypeOK, Waiting, Active, Joined
  <2>. QED
    BY <1>2, <2>1, SameSlot
<1>4. CASE ~queueShutdown /\ ~ctxDone[head]
  <2>1. ~cancelled[head] /\ Active = {}
    BY <1>1, <1>4 DEF Release, Inv, ReleasedIsHead, Active
  <2>2. head \in Waiting
    BY <1>1, <1>4, <2>1 DEF Waiting
  <2>3. Waiting' = Waiting \ {head} /\ Active' = {head}
    BY <1>1, <1>2, <1>4, <2>1 DEF Inv, TypeOK, Waiting, Active, Joined
  <2>4. Before' = {p \in Before : head \notin {p[1], p[2]}}
    BY <1>2, <2>3 DEF Before
  <2>5. \A d \in Waiting : <<d, head>> \notin Before
    <3>1. queueEntries \in Seq(Callers) /\ queueEntries # <<>> /\ queueEntries[1] = head
      BY <1>4 DEF Release, Inv, TypeOK, HeadIsFirst
    <3>2. \A i \in DOMAIN queueEntries : queueEntries[i] = head => i = 1
      BY <3>1 DEF Inv, EntriesWait, Distinct
    <3>3. \A d : ~InFront(queueEntries, d, head)
      BY <3>1, <3>2 DEF InFront
    <3>. QED
      BY <3>3 DEF Before
  <2>. QED
    BY <1>2, <1>4, <2>1, <2>2, <2>3, <2>4, <2>5 DEF Slot!Grant, Slot!StopWaiting
<1>. QED
  BY <1>3, <1>4

LEMMA ClosingCloses ==
  ASSUME Inv, queueShutdown' = TRUE, UNCHANGED <<callerVars, queueEntries>>
  PROVE  Slot!Close \/ UNCHANGED Slot!vars
<1>1. CASE queueShutdown
  <2>1. Waiting' = Waiting /\ Active' = Active
    BY <1>1 DEF callerVars, Waiting, Active, Joined
  <2>. QED
    BY <1>1, <2>1, SameSlot
<1>2. CASE ~queueShutdown
  <2>1. Waiting' = {} /\ Active' = Active \cup Waiting
    BY <1>2 DEF callerVars, Waiting, Active, Joined
  <2>2. Before' = {}
    BY <2>1 DEF Before
  <2>. QED
    BY <1>2, <2>1, <2>2 DEF Slot!Close
<1>. QED
  BY <1>1, <1>2 DEF Inv, TypeOK

LEMMA CancellingAllStutters ==
  ASSUME Inv, queueShutdown, UNCHANGED <<ctxDone, pc, queueVars>>
  PROVE  UNCHANGED Slot!vars
<1>1. Waiting' = Waiting /\ Active' = Active
  BY DEF queueVars, Waiting, Active, Joined
<1>. QED
  BY <1>1, SameSlot DEF queueVars

LEMMA StepSlot ==
  ASSUME Inv, [Next]_vars
  PROVE  [Slot!Next]_(Slot!vars)
<1>1. ASSUME NEW c \in Callers, Enqueue(c) PROVE Slot!Next
  BY <1>1, EnqueueJoins DEF Slot!Next
<1>2. ASSUME NEW c \in Callers, Signal(c) \/ StartProcess(c) PROVE UNCHANGED Slot!vars
  <2>1. UNCHANGED <<ctxDone, cancelled, queueEntries, queueShutdown>>
    BY <1>2 DEF Signal, StartProcess, queueVars
  <2>2. \A d \in Callers : Joined(d)' <=> Joined(d)
    BY <1>2 DEF Signal, StartProcess, Joined, Inv, TypeOK
  <2>3. Waiting' = Waiting /\ Active' = Active
    BY <2>1, <2>2 DEF Waiting, Active
  <2>. QED
    BY <2>1, <2>3, SameSlot
<1>3. ASSUME NEW c \in Callers, Leave(c) PROVE UNCHANGED Slot!vars
  <2>1. \A d \in Callers : Joined(d)' <=> Joined(d)
    BY <1>3 DEF Leave, Joined, Inv, TypeOK
  <2>2. Waiting' = Waiting /\ Active' = Active /\ queueShutdown' = queueShutdown
    BY <1>3, <2>1 DEF Leave, Waiting, Active, Joined, Inv, TypeOK
  <2>3. c \notin Waiting
    BY <1>3 DEF Leave, Waiting
  <2>4. \A x, y \in Callers \ {c} :
          InFront(queueEntries', x, y) <=> InFront(queueEntries, x, y)
    BY <1>3, EntriesWithoutProperties DEF Leave, Inv, TypeOK, EntriesWait
  <2>. QED
    BY <2>2, <2>3, <2>4, SameSlot DEF Waiting
<1>4. ASSUME NEW c \in Callers, Return(c) PROVE [Slot!Next]_(Slot!vars)
  <2>1. /\ Joined(c)
        /\ \A d \in Callers : Joined(d)' <=> Joined(d)
        /\ UNCHANGED <<cancelled, queueVars>>
        /\ ctxDone' = [ctxDone EXCEPT ![c] = TRUE]
    BY <1>4 DEF Return, Joined, Inv, TypeOK
  <2>2. CASE ~ctxDone[c]
    BY <2>1, <2>2, ContextEndsLeaves DEF Slot!Next
  <2>3. CASE ctxDone[c]
    <3>1. Waiting' = Waiting /\ Active' = Active
      BY <2>1, <2>3 DEF Inv, TypeOK, queueVars, Waiting, Active
    <3>. QED
      BY <2>1, <3>1, SameSlot DEF queueVars
  <2>. QED
    BY <2>2, <2>3
<1>5. ASSUME NEW c \in Callers, ContextEnds(c) PROVE Slot!Next
  <2>1. /\ Joined(c)
        /\ \A d \in Callers : Joined(d)' <=> Joined(d)
    BY <1>5 DEF ContextEnds, Joined
  <2>. QED
    BY <1>5, <2>1, ContextEndsLeaves DEF ContextEnds, Slot!Next
<1>6. CASE Skip \/ Clean
  <2>1. ctxDone[head] /\ UNCHANGED <<callerVars, queueShutdown>>
    BY <1>6 DEF Skip, Clean, Inv, HeadTaken
  <2>2. Waiting' = Waiting /\ Active' = Active /\ head \notin Waiting
    BY <2>1 DEF callerVars, Waiting, Active, Joined
  <2>3. \A x, y \in Callers \ {head} :
          InFront(queueEntries', x, y) <=> InFront(queueEntries, x, y)
    BY <1>6, EntriesAfterHeadProperties DEF Skip, Clean, Inv, TypeOK, EntriesWait
  <2>. QED
    BY <2>1, <2>2, <2>3, SameSlot DEF Waiting
<1>7. CASE Release
  <2>1. head \in Callers
    BY <1>7 DEF Release, Inv, HeadTaken
  <2>. QED
    BY <1>7, <2>1, ReleaseGrants DEF Slot!Next
<1>8. CASE HandlerCloses \/ SignalCloses
  BY <1>8, ClosingCloses DEF HandlerCloses, SignalCloses, Slot!Next
<1>9. CASE HandlerCancelsAll \/ SignalCancelsAll
  BY <1>9, CancellingAllStutters DEF HandlerCancelsAll, SignalCancelsAll, Inv, ClosedFirst
<1>10. CASE Check \/ SelectWakeup \/ SelectDone \/ Take \/ ExamineContext \/
            ExamineHead \/ NotifyHead \/ SendPosition \/ Renotify \/ Unlock \/
            SignalArrives \/ UNCHANGED vars
  <2>1. UNCHANGED <<ctxDone, cancelled, pc, queueEntries, queueShutdown>>
    BY <1>10
      DEF Check, SelectWakeup, SelectDone, Take, ExamineContext, ExamineHead, NotifyHead,
          SendPosition, Renotify, Unlock, SignalArrives, vars, callerVars, queueVars
  <2>2. Waiting' = Waiting /\ Active' = Active
    BY <2>1 DEF Waiting, Active, Joined
  <2>. QED
    BY <2>1, <2>2, SameSlot
<1>. QED
  BY <1>1, <1>2, <1>3, <1>4, <1>5, <1>6, <1>7, <1>8, <1>9, <1>10
     DEF Next, Caller, Handler, SignalGoroutine

(* The queue lets its callers through one at a time, in the order of their  *)
(* arrival, until it is shut down: it implements FifoSlot.                  *)
THEOREM QueueImplementsSlot == Spec => ImplementsSlot
<1>1. Inv /\ [Next]_vars => [Slot!Next]_(Slot!vars)
  BY StepSlot
<1>. QED
  BY Invariance, InitSlot, <1>1, PTL DEF Spec, ImplementsSlot, Slot!Spec

-----------------------------------------------------------------------------
(* The queue implements QueueService. *)

Busy == \E c \in Callers : pc[c] \notin {"idle", "done"}

(* HandleQueue is stuck with the lock in its hand and requests in the queue. *)
LEMMA StuckIsBusy == Inv /\ HandlerIsStuck => queueLock = "handler" /\ Busy
<1>. SUFFICES ASSUME Inv, HandlerIsStuck PROVE queueLock = "handler" /\ Busy
  OBVIOUS
<1>1. hpc = "renotify" /\ pending # <<>> /\ pending \in Seq(Callers)
  BY DEF HandlerIsStuck, Inv, TypeOK
<1>2. Head(pending) \in ToSet(pending) /\ Head(pending) \in Callers
  BY <1>1 DEF ToSet
<1>3. queueLock = "handler" /\ InWaitQueue(Head(pending))
  BY <1>1, <1>2 DEF Inv, RestIsNotified, EntriesWait
<1>. QED
  BY <1>2, <1>3 DEF Busy, InWaitQueue

(* A request that enters, moves on or returns. *)
LEMMA CallerServes ==
  ASSUME Inv, NEW c \in Callers, Caller(c)
  PROVE  [Service!Next]_(Service!vars)
<1>1. UNCHANGED <<hpc, pending, queueLock, spc>>
  BY DEF Caller, Enqueue, Signal, Leave, StartProcess, Return, ContextEnds, queueVars,
         handlerVars, signalVars
<1>2. HandlerIsStuck' = HandlerIsStuck
  BY <1>1 DEF HandlerIsStuck, CallbackReturns
<1>3. CASE HandlerIsStuck
  BY <1>1, <1>2, <1>3 DEF ServiceState, Service!vars
<1>4. CASE ~HandlerIsStuck
  <2>1. Busy' = Busy \/ (Busy /\ ~Busy') \/ (~Busy /\ Busy')
    BY DEF Busy
  <2>. QED
    BY <1>1, <1>2, <1>4, <2>1
       DEF ServiceState, Busy, Service!vars, Service!Next, Service!Enter, Service!Finish
<1>. QED
  BY <1>3, <1>4

(* HandleQueue gets stuck, or does nothing that shows. *)
LEMMA HandlerServes ==
  ASSUME Inv, Inv', Handler
  PROVE  [Service!Next]_(Service!vars)
<1>1. UNCHANGED <<pc, spc>>
  BY DEF Handler, Check, SelectWakeup, SelectDone, Take, ExamineContext, ExamineHead, Skip,
         NotifyHead, SendPosition, Release, Clean, Renotify, Unlock, HandlerCloses,
         HandlerCancelsAll, callerVars, signalVars
<1>2. ~HandlerIsStuck
  <2>. SUFFICES ASSUME HandlerIsStuck PROVE FALSE
    OBVIOUS
  <2>1. hpc = "renotify" /\ pending # <<>> /\ queueLock = "handler"
        /\ ~CallbackReturns(Head(pending))
    BY StuckIsBusy DEF HandlerIsStuck
  <2>. QED
    BY <2>1 DEF Handler, Check, SelectWakeup, SelectDone, Take, ExamineContext, ExamineHead,
       Skip, NotifyHead, SendPosition, Release, Clean, Renotify, Unlock, HandlerCloses,
       HandlerCancelsAll
<1>3. HandlerIsStuck' => Busy'
  <2>1. (Inv => (HandlerIsStuck => Busy))'
    BY StuckIsBusy, PTL
  <2>. QED
    BY <2>1
<1>4. Busy' = Busy
  BY <1>1 DEF Busy
<1>. QED
  BY <1>1, <1>2, <1>3, <1>4 DEF ServiceState, Busy, Service!vars, Service!Next, Service!Block

(* The signal goroutine passes with the lock, that is, not a stuck queue.   *)
LEMMA SignalServes ==
  ASSUME Inv, SignalGoroutine
  PROVE  [Service!Next]_(Service!vars)
<1>1. UNCHANGED <<pc, hpc, pending, queueLock>>
  BY DEF SignalGoroutine, SignalArrives, SignalCloses, SignalCancelsAll, callerVars,
         queueVars, handlerVars
<1>2. ServiceState' = ServiceState
  BY <1>1 DEF ServiceState, HandlerIsStuck, CallbackReturns
<1>3. CASE SignalArrives \/ SignalCloses
  BY <1>2, <1>3 DEF SignalArrives, SignalCloses, Service!vars
<1>4. CASE SignalCancelsAll
  <2>1. ServiceState # "stuck" /\ spc # "http" /\ spc' = "http"
    BY <1>4, StuckIsBusy DEF SignalCancelsAll, ServiceState
  <2>. QED
    BY <1>2, <2>1 DEF Service!Next, Service!Pass
<1>. QED
  BY <1>3, <1>4 DEF SignalGoroutine

(* What ServerProcess assumes of the queue is what the queue does, for any  *)
(* number of requests.                                                      *)
THEOREM QueueImplementsService == Spec => ImplementsService
<1>1. Init => Service!Init
  BY DEF Init, Service!Init, ServiceState, HandlerIsStuck
<1>2. Inv /\ Inv' /\ [Next]_vars => [Service!Next]_(Service!vars)
  <2>. SUFFICES ASSUME Inv, Inv', [Next]_vars PROVE [Service!Next]_(Service!vars)
    OBVIOUS
  <2>1. CASE UNCHANGED vars
    BY <2>1 DEF vars, callerVars, queueVars, handlerVars, signalVars, ServiceState,
       HandlerIsStuck, CallbackReturns, Service!vars
  <2>. QED
    BY <2>1, CallerServes, HandlerServes, SignalServes DEF Next
<1>. QED
  BY Invariance, <1>1, <1>2, PTL DEF Spec, ImplementsService, Service!Spec
=============================================================================
