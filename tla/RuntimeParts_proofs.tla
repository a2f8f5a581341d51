------------------------ MODULE RuntimeParts_proofs -------------------------
(***************************************************************************)
(* Proofs about the inbound events and the runtime's assembly and end, for *)
(* any number of deliveries, options and calls of shutdown().              *)
(***************************************************************************)
EXTENDS RuntimeParts, TLAPS, FiniteSetTheorems, SequenceTheorems

-----------------------------------------------------------------------------
(***************************************************************************)
(* Inbound events.  Deliveries are accepted in the order they arrive, so   *)
(* that no two of them are the same; the log is the accepted ones read     *)
(* backwards, and the queue is those at the end that onEvent has not seen. *)
(***************************************************************************)
InboundNumbers == 1..Deliveries

InboundTypes ==
    /\ received \in 0..Deliveries
    /\ log \in Seq(InboundNumbers) /\ queue \in Seq(InboundNumbers)
    /\ accepted \in Seq(InboundNumbers)
    /\ handled \in [InboundNumbers -> Nat]

AcceptedInOrder ==
    /\ \A i \in 1..Len(accepted) : accepted[i] <= received
    /\ \A i, j \in 1..Len(accepted) : i < j => accepted[i] < accepted[j]

LogIsRecent ==
    /\ Len(log) = IF Len(accepted) < MaxEntries THEN Len(accepted) ELSE MaxEntries
    /\ \A i \in 1..Len(log) : log[i] = accepted[Len(accepted) - i + 1]

QueueIsLast ==
    /\ Len(queue) <= Len(accepted)
    /\ \A i \in 1..Len(queue) : queue[i] = accepted[Len(accepted) - Len(queue) + i]

HandledOnce ==
    \A d \in InboundNumbers :
        handled[d] = IF \E i \in 1..(Len(accepted) - Len(queue)) : accepted[i] = d THEN 1 ELSE 0

InboundInv == InboundTypes /\ AcceptedInOrder /\ LogIsRecent /\ QueueIsLast /\ HandledOnce

LEMMA InboundNumber ==
    ASSUME NEW s \in Seq(InboundNumbers)
    PROVE  Len(s) \in Nat /\ \A i \in 1..Len(s) : s[i] \in InboundNumbers /\ s[i] \in Nat
<1>1. \A x \in InboundNumbers : x \in Nat
  BY DEF InboundNumbers
<1>2. Len(s) \in Nat /\ \A i \in 1..Len(s) : s[i] \in InboundNumbers
  BY ElementOfSeq
<1> QED
  BY <1>1, <1>2

\* The log after an event: the event, and what was in front of it as far as there is room.
LEMMA InboundLogged ==
    ASSUME Inbound!InboundAssumption, InboundInv, NEW d \in InboundNumbers
    PROVE  /\ Inbound!Logged(d) \in Seq(InboundNumbers)
           /\ Len(Inbound!Logged(d)) =
                  IF Len(log) + 1 < MaxEntries THEN Len(log) + 1 ELSE MaxEntries
           /\ \A i \in 1..Len(Inbound!Logged(d)) :
                  Inbound!Logged(d)[i] = IF i = 1 THEN d ELSE log[i - 1]
<1> DEFINE one == <<d>>
           entries == one \o log
           n == IF Len(entries) < MaxEntries THEN Len(entries) ELSE MaxEntries
<1>1. one \in Seq(InboundNumbers) /\ Len(one) = 1 /\ one[1] = d
  OBVIOUS
<1>2. log \in Seq(InboundNumbers) /\ Len(log) \in Nat /\ MaxEntries \in Nat \ {0}
  BY DEF InboundInv, InboundTypes, Inbound!InboundAssumption
<1> HIDE DEF one
<1>3. /\ entries \in Seq(InboundNumbers) /\ Len(entries) = 1 + Len(log)
      /\ \A i \in 1..(1 + Len(log)) : entries[i] = IF i <= 1 THEN one[i] ELSE log[i - 1]
  BY <1>1, <1>2, ConcatProperties, SMTT(30)
<1> HIDE DEF entries
<1>4. n \in Nat /\ n >= 1 /\ n <= Len(entries) /\ Len(entries) \in Nat
  BY <1>2, <1>3
<1>5. \A i \in 1..n : entries[i] \in InboundNumbers
  BY <1>3, <1>4, ElementOfSeq
<1>6. n = IF Len(log) + 1 < MaxEntries THEN Len(log) + 1 ELSE MaxEntries
  BY <1>2, <1>3
<1> HIDE DEF n
<1>7. /\ SubSeq(entries, 1, n) \in Seq(InboundNumbers) /\ Len(SubSeq(entries, 1, n)) = n
      /\ \A i \in 1..n : SubSeq(entries, 1, n)[i] = entries[i]
  <2>1. /\ SubSeq(entries, 1, n) \in Seq(InboundNumbers)
        /\ Len(SubSeq(entries, 1, n)) = IF 1 <= n THEN n - 1 + 1 ELSE 0
        /\ \A i \in 1..(n - 1 + 1) : SubSeq(entries, 1, n)[i] = entries[1 + i - 1]
    BY <1>4, <1>5, SubSeqProperties
  <2> QED
    BY <1>4, <2>1
<1>8. Inbound!Logged(d) = SubSeq(entries, 1, n)
  BY DEF Inbound!Logged, entries, n, one
<1>9. \A i \in 1..n : entries[i] = IF i = 1 THEN d ELSE log[i - 1]
  BY <1>1, <1>2, <1>3, <1>4
<1> QED
  BY <1>6, <1>7, <1>8, <1>9

LEMMA InboundReceive ==
    ASSUME Inbound!InboundAssumption, InboundInv, Inbound!Receive
    PROVE  InboundInv'
<1> DEFINE d == received + 1
           n == Len(accepted)
           q == Len(queue)
<1>1. /\ received < Deliveries /\ received' = d /\ UNCHANGED handled
      /\ \/ /\ log' = Inbound!Logged(d)
            /\ queue' = Append(queue, d)
            /\ accepted' = Append(accepted, d)
         \/ UNCHANGED <<log, queue, accepted>>
  BY DEF Inbound!Receive
<1>2. /\ received \in Nat /\ Deliveries \in Nat /\ d \in InboundNumbers /\ d \in Nat /\ d > received
      /\ MaxEntries \in Nat \ {0} /\ n \in Nat /\ q \in Nat /\ q <= n
      /\ accepted \in Seq(InboundNumbers) /\ queue \in Seq(InboundNumbers)
      /\ \A i \in 1..n : accepted[i] \in Nat /\ accepted[i] <= received
  <2>1. received \in Nat /\ Deliveries \in Nat /\ MaxEntries \in Nat \ {0}
    BY DEF InboundInv, InboundTypes, Inbound!InboundAssumption
  <2>2. d \in InboundNumbers /\ d \in Nat /\ d > received
    BY <1>1, <2>1 DEF InboundNumbers
  <2>3. accepted \in Seq(InboundNumbers) /\ queue \in Seq(InboundNumbers)
    BY DEF InboundInv, InboundTypes
  <2>4. n \in Nat /\ q \in Nat
    BY <2>3
  <2>5. q <= n /\ \A i \in 1..n : accepted[i] <= received
    BY DEF InboundInv, QueueIsLast, AcceptedInOrder
  <2>6. \A i \in 1..n : accepted[i] \in Nat
    BY <2>3, InboundNumber
  <2> QED
    BY <2>1, <2>2, <2>3, <2>4, <2>5, <2>6
<1>3. CASE UNCHANGED <<log, queue, accepted>>
  <2>1. InboundTypes' /\ LogIsRecent' /\ QueueIsLast' /\ HandledOnce'
    BY <1>1, <1>2, <1>3 DEF InboundInv, InboundTypes, LogIsRecent, QueueIsLast, HandledOnce
  <2>2. AcceptedInOrder'
    BY <1>1, <1>2, <1>3 DEF InboundInv, AcceptedInOrder
  <2> QED
    BY <2>1, <2>2 DEF InboundInv
<1>4. CASE /\ log' = Inbound!Logged(d)
           /\ queue' = Append(queue, d)
           /\ accepted' = Append(accepted, d)
  <2>1. /\ accepted' \in Seq(InboundNumbers) /\ Len(accepted') = n + 1 /\ accepted'[n + 1] = d
        /\ \A i \in 1..n : accepted'[i] = accepted[i]
    <3> HIDE DEF d
    <3> QED
      BY <1>2, <1>4, AppendProperties
  <2>2. /\ queue' \in Seq(InboundNumbers) /\ Len(queue') = q + 1 /\ queue'[q + 1] = d
        /\ \A i \in 1..q : queue'[i] = queue[i]
    <3> HIDE DEF d
    <3> QED
      BY <1>2, <1>4, AppendProperties
  <2>3. /\ log' \in Seq(InboundNumbers)
        /\ Len(log') = IF Len(log) + 1 < MaxEntries THEN Len(log) + 1 ELSE MaxEntries
        /\ \A i \in 1..Len(log') : log'[i] = IF i = 1 THEN d ELSE log[i - 1]
    <3> HIDE DEF d
    <3> QED
      BY <1>2, <1>4, InboundLogged
  <2>4. /\ Len(log) = IF n < MaxEntries THEN n ELSE MaxEntries
        /\ \A i \in 1..Len(log) : log[i] = accepted[n - i + 1]
        /\ \A i \in 1..q : queue[i] = accepted[n - q + i]
        /\ \A i, j \in 1..n : i < j => accepted[i] < accepted[j]
        /\ handled \in [InboundNumbers -> Nat]
        /\ \A x \in InboundNumbers :
               handled[x] = IF \E i \in 1..(n - q) : accepted[i] = x THEN 1 ELSE 0
    BY DEF InboundInv, InboundTypes, LogIsRecent, QueueIsLast, AcceptedInOrder, HandledOnce
  <2>5. received' \in 0..Deliveries /\ received' = d
    BY <1>1, <1>2
  <2> HIDE DEF n, q, d
  <2>6. InboundTypes'
    BY <1>1, <2>1, <2>2, <2>3, <2>4, <2>5 DEF InboundTypes, InboundNumbers
  <2>7. AcceptedInOrder'
    <3>1. \A i \in 1..n : accepted'[i] < d
      BY <1>2, <2>1
    <3>2. d \in Nat /\ \A i \in 1..(n + 1) : i = n + 1 \/ i \in 1..n
      BY <1>2 DEF InboundNumbers
    <3>3. \A i \in 1..(n + 1) : accepted'[i] <= d
      BY <1>2, <2>1, <3>1, <3>2
    <3>4. ASSUME NEW i \in 1..(n + 1), NEW j \in 1..(n + 1), i < j
          PROVE  accepted'[i] < accepted'[j]
      <4>1. i \in 1..n
        BY <1>2, <3>4
      <4>2. CASE j = n + 1
        BY <2>1, <3>1, <4>1, <4>2
      <4>3. CASE j # n + 1
        BY <2>1, <2>4, <3>2, <3>4, <4>1, <4>3
      <4> QED
        BY <4>2, <4>3
    <3> QED
      BY <2>1, <2>5, <3>3, <3>4 DEF AcceptedInOrder
  <2>8. LogIsRecent'
    <3>1. Len(log') = IF n + 1 < MaxEntries THEN n + 1 ELSE MaxEntries
      BY <1>2, <2>3, <2>4
    <3>2. ASSUME NEW i \in 1..Len(log') PROVE log'[i] = accepted'[(n + 1) - i + 1]
      <4>1. i \in Nat /\ i >= 1 /\ i <= n + 1 /\ i <= Len(log) + 1 /\ Len(log) \in Nat
        BY <1>2, <2>3, <2>4, <3>1
      <4>2. CASE i = 1
        BY <1>2, <2>1, <2>3, <4>2
      <4>3. CASE i # 1
        <5>1. i - 1 \in 1..Len(log) /\ n - (i - 1) + 1 \in 1..n
              /\ n - (i - 1) + 1 = (n + 1) - i + 1
          BY <1>2, <4>1, <4>3
        <5>2. log'[i] = log[i - 1] /\ log[i - 1] = accepted[n - (i - 1) + 1]
          BY <2>3, <2>4, <4>3, <5>1
        <5> QED
          BY <2>1, <5>1, <5>2
      <4> QED
        BY <4>2, <4>3
    <3> QED
      BY <2>1, <3>1, <3>2 DEF LogIsRecent
  <2>9. QueueIsLast'
    <3>1. ASSUME NEW i \in 1..(q + 1) PROVE queue'[i] = accepted'[(n + 1) - (q + 1) + i]
      <4>1. CASE i = q + 1
        <5>1. (n + 1) - (q + 1) + i = n + 1
          BY <1>2, <4>1
        <5> QED
          BY <2>1, <2>2, <4>1, <5>1
      <4>2. CASE i # q + 1
        <5>1. i \in 1..q /\ n - q + i \in 1..n /\ (n + 1) - (q + 1) + i = n - q + i
          BY <1>2, <4>2
        <5> QED
          BY <2>1, <2>2, <2>4, <5>1
      <4> QED
        BY <4>1, <4>2
    <3>2. q + 1 <= n + 1
      BY <1>2
    <3> QED
      BY <2>1, <2>2, <3>1, <3>2 DEF QueueIsLast
  <2>10. HandledOnce'
    <3>1. (n + 1) - (q + 1) = n - q /\ \A i \in 1..(n - q) : i \in 1..n
      BY <1>2
    <3>2. \A i \in 1..(n - q) : accepted'[i] = accepted[i]
      BY <2>1, <3>1
    <3>3. ASSUME NEW x \in InboundNumbers
          PROVE  (\E i \in 1..(n - q) : accepted'[i] = x) <=> \E i \in 1..(n - q) : accepted[i] = x
      BY <3>2
    <3>4. \A x \in InboundNumbers :
              handled'[x] = IF \E i \in 1..((n + 1) - (q + 1)) : accepted'[i] = x THEN 1 ELSE 0
      BY <1>1, <2>4, <3>1, <3>3
    <3> QED
      BY <2>1, <2>2, <3>4 DEF HandledOnce
  <2> QED
    BY <2>6, <2>7, <2>8, <2>9, <2>10 DEF InboundInv
<1> QED
  BY <1>1, <1>3, <1>4

LEMMA InboundHandle ==
    ASSUME InboundInv, Inbound!HandleFirst
    PROVE  InboundInv'
<1> DEFINE d == Head(queue)
           n == Len(accepted)
           q == Len(queue)
<1>1. /\ queue # <<>> /\ handled' = [handled EXCEPT ![d] = @ + 1] /\ queue' = Tail(queue)
      /\ UNCHANGED <<log, received, accepted>>
  BY DEF Inbound!HandleFirst
<1>2. /\ queue \in Seq(InboundNumbers) /\ n \in Nat /\ q \in Nat /\ q >= 1 /\ q <= n
      /\ handled \in [InboundNumbers -> Nat]
      /\ \A i \in 1..q : queue[i] = accepted[n - q + i]
      /\ \A i, j \in 1..n : i < j => accepted[i] < accepted[j]
      /\ \A i \in 1..n : accepted[i] \in Nat
      /\ \A x \in InboundNumbers :
             handled[x] = IF \E i \in 1..(n - q) : accepted[i] = x THEN 1 ELSE 0
  <2>1. /\ queue \in Seq(InboundNumbers) /\ accepted \in Seq(InboundNumbers)
        /\ handled \in [InboundNumbers -> Nat]
    BY DEF InboundInv, InboundTypes
  <2>2. n \in Nat /\ q \in Nat /\ q >= 1 /\ \A i \in 1..n : accepted[i] \in Nat
    BY <1>1, <2>1, InboundNumber
  <2>3. /\ q <= n
        /\ \A i \in 1..q : queue[i] = accepted[n - q + i]
        /\ \A i, j \in 1..n : i < j => accepted[i] < accepted[j]
        /\ \A x \in InboundNumbers :
               handled[x] = IF \E i \in 1..(n - q) : accepted[i] = x THEN 1 ELSE 0
    BY DEF InboundInv, QueueIsLast, AcceptedInOrder, HandledOnce
  <2> QED
    BY <2>1, <2>2, <2>3
<1>3. /\ queue' \in Seq(InboundNumbers) /\ Len(queue') = q - 1 /\ d \in InboundNumbers
      /\ \A i \in 1..(q - 1) : queue'[i] = queue[i + 1]
      /\ d = queue[1]
  BY <1>1, <1>2, HeadTailProperties
<1> HIDE DEF d, n, q
<1>4. /\ n - q + 1 \in 1..n /\ d = accepted[n - q + 1] /\ n - (q - 1) = n - q + 1
      /\ \A i \in 1..(n - q + 1) : i \in 1..(n - q) \/ i = n - q + 1
      /\ \A i \in 1..(n - q) : i \in 1..n /\ i \in 1..(n - q + 1) /\ i < n - q + 1
  BY <1>2, <1>3
<1>5. \A i \in 1..(n - q) : accepted[i] # d
  BY <1>2, <1>4
<1>6. handled[d] = 0
  BY <1>2, <1>3, <1>5
<1>7. /\ handled' \in [InboundNumbers -> Nat] /\ handled'[d] = 1
      /\ \A x \in InboundNumbers \ {d} : handled'[x] = handled[x]
  BY <1>1, <1>2, <1>3, <1>6
<1>8. \A x \in InboundNumbers :
          handled'[x] = IF \E i \in 1..(n - q + 1) : accepted[i] = x THEN 1 ELSE 0
  <2> TAKE x \in InboundNumbers
  <2>1. CASE x = d
    BY <1>2, <1>4, <1>7, <2>1
  <2>2. CASE x # d
    <3>1. (\E i \in 1..(n - q + 1) : accepted[i] = x) <=> \E i \in 1..(n - q) : accepted[i] = x
      BY <1>4, <2>2
    <3> QED
      BY <1>2, <1>7, <2>2, <3>1
  <2> QED
    BY <2>1, <2>2
<1>9. HandledOnce'
  BY <1>1, <1>3, <1>4, <1>8 DEF HandledOnce, n
<1>10. QueueIsLast'
  <2>1. \A i \in 1..(q - 1) : queue'[i] = accepted[n - (q - 1) + i]
    <3> TAKE i \in 1..(q - 1)
    <3>1. i + 1 \in 1..q /\ n - q + (i + 1) = n - (q - 1) + i
      BY <1>2
    <3> QED
      BY <1>2, <1>3, <3>1
  <2>2. q - 1 <= n
    BY <1>2
  <2> QED
    BY <1>1, <1>3, <2>1, <2>2 DEF QueueIsLast, n
<1>11. InboundTypes' /\ AcceptedInOrder' /\ LogIsRecent'
  BY <1>1, <1>3, <1>7 DEF InboundInv, InboundTypes, AcceptedInOrder, LogIsRecent
<1> QED
  BY <1>9, <1>10, <1>11 DEF InboundInv

\* The reader's view of the invariant: Reverse, SubSeq and the sets of elements.
LEMMA InboundView == ASSUME Inbound!InboundAssumption, InboundInv PROVE Inbound!InboundFaithful
<1> DEFINE n == Len(accepted)
           l == Len(log)
           q == Len(queue)
<1>1. /\ n \in Nat /\ l \in Nat /\ q \in Nat /\ q <= n /\ MaxEntries \in Nat
      /\ l = IF n < MaxEntries THEN n ELSE MaxEntries
      /\ DOMAIN accepted = 1..n /\ DOMAIN queue = 1..q
      /\ log \in Seq(InboundNumbers)
      /\ \A i \in 1..n : accepted[i] \in InboundNumbers
      /\ \A i \in 1..l : log[i] = accepted[n - i + 1]
      /\ \A i \in 1..q : queue[i] = accepted[n - q + i]
      /\ \A i, j \in 1..n : i < j => accepted[i] < accepted[j]
      /\ \A d \in InboundNumbers :
             handled[d] = IF \E i \in 1..(n - q) : accepted[i] = d THEN 1 ELSE 0
  BY ElementOfSeq DEF InboundInv, InboundTypes, LogIsRecent, QueueIsLast, AcceptedInOrder,
                      HandledOnce, Inbound!InboundAssumption
<1>2. /\ Inbound!Reverse(log) = [i \in 1..l |-> log[(l - i) + 1]]
      /\ Inbound!ToSet(accepted) = {accepted[i] : i \in 1..n}
      /\ Inbound!ToSet(queue) = {queue[i] : i \in 1..q}
  BY <1>1 DEF Inbound!Reverse, Inbound!ToSet
<1> HIDE DEF n, l, q
<1>3. Inbound!Reverse(log) = SubSeq(accepted, n - l + 1, n)
  <2> DEFINE s == SubSeq(accepted, n - l + 1, n)
             v == Inbound!Reverse(log)
  <2>1. n - l + 1 \in Int /\ n \in Int /\ l <= n /\ n - (n - l + 1) + 1 = l
        /\ \A i \in (n - l + 1)..n : i \in 1..n
    BY <1>1
  <2>2. /\ s \in Seq(InboundNumbers)
        /\ Len(s) = IF n - l + 1 <= n THEN l ELSE 0
        /\ \A i \in 1..l : s[i] = accepted[(n - l + 1) + i - 1]
    BY <1>1, <2>1, SubSeqProperties
  <2>3. Len(s) = l
    BY <1>1, <2>1, <2>2
  <2>4. \A i \in 1..l : /\ (l - i) + 1 \in 1..l
                        /\ n - ((l - i) + 1) + 1 = (n - l + 1) + i - 1
    BY <1>1
  <2>5. \A i \in 1..l : v[i] = log[(l - i) + 1] /\ v[i] = s[i]
    BY <1>1, <1>2, <2>2, <2>4
  <2>6. v \in Seq(InboundNumbers) /\ Len(v) = l
    <3>1. \A i \in 1..l : log[(l - i) + 1] \in InboundNumbers
      BY <1>1, <2>1, <2>4
    <3>2. v \in [1..l -> InboundNumbers]
      BY <1>2, <3>1
    <3> QED
      BY <1>1, <3>2
  <2> HIDE DEF s, v
  <2>7. v = s
    BY <2>2, <2>3, <2>5, <2>6, SeqEqual
  <2> QED
    BY <2>7 DEF s, v
<1>4. ASSUME NEW d \in InboundNumbers
      PROVE  (\E i \in 1..(n - q) : accepted[i] = d)
                 <=> d \in Inbound!ToSet(accepted) /\ d \notin Inbound!ToSet(queue)
  <2>1. ASSUME NEW i \in 1..(n - q), accepted[i] = d PROVE d \notin Inbound!ToSet(queue)
    <3> SUFFICES ASSUME NEW j \in 1..q, queue[j] = d PROVE FALSE
      BY <1>2
    <3>1. n - q + j \in 1..n /\ i \in 1..n /\ i < n - q + j
      BY <1>1
    <3>2. accepted[n - q + j] = d /\ accepted[i] < accepted[n - q + j]
      BY <1>1, <3>1
    <3> QED
      BY <2>1, <3>2 DEF InboundNumbers
  <2>2. \A i \in 1..(n - q) : i \in 1..n
    BY <1>1
  <2>3. ASSUME NEW i \in 1..n, accepted[i] = d, d \notin Inbound!ToSet(queue) PROVE i \in 1..(n - q)
    <3> SUFFICES ASSUME i \notin 1..(n - q) PROVE FALSE
      OBVIOUS
    <3>1. i - (n - q) \in 1..q /\ n - q + (i - (n - q)) = i
      BY <1>1
    <3>2. queue[i - (n - q)] = d
      BY <1>1, <2>3, <3>1
    <3> QED
      BY <1>2, <2>3, <3>1, <3>2
  <2> QED
    BY <1>2, <2>1, <2>2, <2>3
<1>5. \A d \in 1..Deliveries :
          handled[d] = IF d \in Inbound!ToSet(accepted) /\ d \notin Inbound!ToSet(queue)
                       THEN 1 ELSE 0
  BY <1>1, <1>4 DEF InboundNumbers
<1> QED
  BY <1>1, <1>3, <1>5 DEF Inbound!InboundFaithful, n, l, q

InboundHolds == part = "Inbound" => InboundInv

\* While inbound events are exercised their invariant holds.
THEOREM AlwaysInbound == ASSUME RuntimeAssumption PROVE RuntimeSpec => []InboundHolds
<1>0. Inbound!InboundAssumption
  BY DEF RuntimeAssumption
<1>1. RuntimeInit => InboundHolds
  <2> SUFFICES ASSUME Inbound!Init PROVE InboundInv
    BY DEF RuntimeInit, InboundHolds
  <2>1. /\ log = <<>> /\ queue = <<>> /\ received = 0 /\ accepted = <<>>
        /\ handled = [d \in InboundNumbers |-> 0]
    BY DEF Inbound!Init, InboundNumbers
  <2>2. Deliveries \in Nat /\ MaxEntries \in Nat \ {0}
    BY <1>0 DEF Inbound!InboundAssumption
  <2>3. InboundTypes
    BY <2>1, <2>2 DEF InboundTypes
  <2>4. AcceptedInOrder /\ LogIsRecent /\ QueueIsLast /\ HandledOnce
    BY <2>1, <2>2 DEF AcceptedInOrder, LogIsRecent, QueueIsLast, HandledOnce
  <2> QED
    BY <2>3, <2>4 DEF InboundInv
<1>2. InboundHolds /\ [RuntimeNext]_runtimeVars => InboundHolds'
  <2> SUFFICES ASSUME part = "Inbound", InboundInv, [RuntimeNext]_runtimeVars PROVE InboundInv'
    BY DEF RuntimeNext, runtimeVars, InboundHolds
  <2>1. CASE RuntimeNext
    BY <1>0, <2>1, InboundReceive, InboundHandle DEF RuntimeNext, Inbound!Next
  <2>2. CASE UNCHANGED runtimeVars
    BY <2>2 DEF runtimeVars, InboundVars, InboundInv, InboundTypes, AcceptedInOrder, LogIsRecent,
                QueueIsLast, HandledOnce
  <2> QED
    BY <2>1, <2>2
<1> QED
  BY <1>1, <1>2, PTL DEF RuntimeSpec

\* The log shows the last accepted deliveries, latest first, and every
\* acknowledged delivery is handed to onEvent exactly once.
THEOREM AlwaysInboundFaithful == ASSUME RuntimeAssumption PROVE RuntimeSpec => []InboundFaithful
<1>1. Inbound!InboundAssumption
  BY DEF RuntimeAssumption
<1>2. InboundHolds => InboundFaithful
  BY <1>1, InboundView DEF InboundHolds, InboundFaithful
<1> QED
  BY <1>2, AlwaysInbound, PTL

-----------------------------------------------------------------------------
(***************************************************************************)
(* The runtime's assembly and end.  The choice of stores is made once, so  *)
(* all that is to be shown of it is that whatever is not refused keeps its *)
(* accounts durably, for every combination of options.                     *)
(***************************************************************************)
\* A step of the server, as one of a part: the part's own step, or one that leaves its
\* variables alone.
LEMMA LifecycleStep ==
    ASSUME part = "Lifecycle", [RuntimeNext]_runtimeVars
    PROVE  part' = "Lifecycle" /\ [Lifecycle!Next]_Lifecycle!lifeOwn
  BY DEF RuntimeNext, runtimeVars, LifecycleVars, Lifecycle!lifeOwn

Options ==
    [given : SUBSET {"webhooks", "apiKeys", "users", "refresh", "revocation"},
     prisma : {None, "first"}, prismaJwt : {None, "first", "second"}, detected : BOOLEAN,
     apiKeys : BOOLEAN, jwt : BOOLEAN, secret : BOOLEAN]

\* The stores of accounts that options not refused in production lead to.
LEMMA NotRefusedDurable ==
    ASSUME NEW o \in Options, production, ~Lifecycle!Refused(o)
    PROVE  /\ o.apiKeys => Lifecycle!ResolveApiKeyStore(o) # "memory"
           /\ o.jwt => /\ Lifecycle!ResolveJwtStores(o)["users"] # "memory"
                       /\ Lifecycle!ResolveJwtStores(o)["refresh"] # "memory"
<1>1. o.apiKeys => Lifecycle!ResolveApiKeyStore(o) # "memory"
  BY DEF Lifecycle!Refused
<1>2. ASSUME o.jwt
      PROVE  /\ Lifecycle!ResolveJwtStores(o)["users"] # "memory"
             /\ Lifecycle!ResolveJwtStores(o)["refresh"] # "memory"
  <2>1. CASE {"users", "refresh"} \subseteq o.given
    BY <2>1 DEF Lifecycle!ResolveJwtStores
  <2>2. CASE ~({"users", "refresh"} \subseteq o.given) /\ (o.prismaJwt # None \/ o.detected)
    BY <2>2 DEF Lifecycle!ResolveJwtStores, Lifecycle!Given, Lifecycle!Fallback
  <2> QED
    BY <1>2, <2>1, <2>2 DEF Lifecycle!Refused
<1> QED
  BY <1>1, <1>2

LEMMA DurableNext ==
    ASSUME Lifecycle!AccountsDurable, [Lifecycle!Next]_Lifecycle!lifeOwn
    PROVE  Lifecycle!AccountsDurable'
<1>1. CASE Lifecycle!CreateRuntime
  <2>1. PICK o \in Options : Lifecycle!CreateRuntime!2!(o)
    BY <1>1 DEF Lifecycle!CreateRuntime, Options
  <2>2. UNCHANGED production
    BY <1>1 DEF Lifecycle!CreateRuntime
  <2>3. CASE Lifecycle!Refused(o)
    BY <2>1, <2>3 DEF Lifecycle!AccountsDurable
  <2>4. CASE ~Lifecycle!Refused(o)
    <3>1. /\ chosen'["apiKeys"] = IF o.apiKeys THEN Lifecycle!ResolveApiKeyStore(o) ELSE "unused"
          /\ chosen'["users"] = IF o.jwt THEN Lifecycle!ResolveJwtStores(o)["users"] ELSE "unused"
          /\ chosen'["refresh"] =
                 IF o.jwt THEN Lifecycle!ResolveJwtStores(o)["refresh"] ELSE "unused"
      BY <2>1, <2>4 DEF Lifecycle!Stores
    <3>2. SUFFICES ASSUME production' PROVE Lifecycle!AccountsDurable'
      BY DEF Lifecycle!AccountsDurable
    <3> QED
      BY <2>2, <2>4, <3>1, <3>2, NotRefusedDurable DEF Lifecycle!AccountsDurable
  <2> QED
    BY <2>3, <2>4
<1>2. CASE \/ Lifecycle!Fire \/ Lifecycle!Work
           \/ \E x \in Signals : Lifecycle!Shutdown(x) \/ Lifecycle!Disconnect(x)
  BY <1>2 DEF Lifecycle!Fire, Lifecycle!Work, Lifecycle!Shutdown, Lifecycle!Disconnect,
              Lifecycle!AccountsDurable
<1>3. CASE UNCHANGED Lifecycle!lifeOwn
  BY <1>3 DEF Lifecycle!lifeOwn, Lifecycle!AccountsDurable
<1> QED
  BY <1>1, <1>2, <1>3 DEF Lifecycle!Next

\* A production process keeps no keys, users or sessions in its own memory
\* without having been told to, whatever is passed and detected.
THEOREM AlwaysDurableAccounts == ASSUME RuntimeAssumption PROVE RuntimeSpec => []AccountsDurable
<1>1. RuntimeInit => AccountsDurable
  BY DEF RuntimeInit, Lifecycle!Init, AccountsDurable, Lifecycle!AccountsDurable
<1>2. AccountsDurable /\ [RuntimeNext]_runtimeVars => AccountsDurable'
  <2> SUFFICES ASSUME part = "Lifecycle", Lifecycle!AccountsDurable, [RuntimeNext]_runtimeVars
               PROVE  Lifecycle!AccountsDurable'
    BY DEF RuntimeNext, runtimeVars, AccountsDurable
  <2> QED
    BY LifecycleStep, DurableNext
<1> QED
  BY <1>1, <1>2, PTL DEF RuntimeSpec

-----------------------------------------------------------------------------
(***************************************************************************)
(* shutdown() ends the runtime once.  Each known client is either still to *)
(* be disconnected by one caller, the first, or has been.                  *)
(***************************************************************************)
ClosingType ==
    /\ clients \subseteq Lifecycle!AllClients
    /\ closing \in [Signals -> {None} \cup SUBSET Lifecycle!AllClients]
    /\ closed \in [Lifecycle!AllClients -> Nat]
    /\ didShutdown \in BOOLEAN /\ late \in BOOLEAN

Stopped ==
    /\ life # "running" => ~timer /\ ~didShutdown
    /\ didShutdown => ~timer
    /\ ~late

ToClose(x) == IF closing[x] = None THEN {} ELSE closing[x]

ClosedOnce ==
    /\ ~didShutdown => /\ \A x \in Signals : closing[x] = None
                       /\ \A c \in Lifecycle!AllClients : closed[c] = 0
    /\ \A x, y \in Signals : x # y => ToClose(x) \cap ToClose(y) = {}
    /\ \A x \in Signals : \A c \in ToClose(x) : closed[c] = 0 /\ c \in clients
    /\ \A c \in Lifecycle!AllClients : closed[c] <= 1 /\ (closed[c] = 1 => c \in clients)
    /\ didShutdown => \A c \in clients : closed[c] = 1 \/ \E x \in Signals : c \in ToClose(x)

ShutdownInv == ClosingType /\ Stopped /\ ClosedOnce

LEMMA ShutdownStep ==
    ASSUME Lifecycle!RuntimeLifecycleAssumption, ShutdownInv,
           NEW x \in Signals, Lifecycle!Shutdown(x)
    PROVE  ShutdownInv'
<1> USE DEF ShutdownInv, Lifecycle!RuntimeLifecycleAssumption
<1>1. /\ didShutdown' = TRUE /\ timer' = FALSE /\ closing[x] = None /\ life = "running"
      /\ closing' = [closing EXCEPT ![x] = IF ~didShutdown THEN clients ELSE {}]
      /\ UNCHANGED <<life, clients, closed, late>>
  BY DEF Lifecycle!Shutdown, Lifecycle!First
<1>2. ClosingType'
  BY <1>1 DEF ClosingType
<1>3. Stopped'
  BY <1>1 DEF Stopped
<1>4. ToClose(x)' = (IF ~didShutdown THEN clients ELSE {}) /\ ToClose(x) = {}
      /\ \A y \in Signals \ {x} : ToClose(y)' = ToClose(y)
  BY <1>1 DEF ToClose, ClosingType
<1>5. ClosedOnce'
  <2>1. CASE didShutdown
    BY <1>1, <1>4, <2>1 DEF ClosedOnce
  <2>2. CASE ~didShutdown
    <3>1. \A y \in Signals : ToClose(y) = {}
      BY <2>2 DEF ClosedOnce, ToClose
    <3> QED
      BY <1>1, <1>4, <2>2, <3>1 DEF ClosedOnce, ClosingType
  <2> QED
    BY <2>1, <2>2
<1> QED
  BY <1>2, <1>3, <1>5

LEMMA DisconnectStep ==
    ASSUME Lifecycle!RuntimeLifecycleAssumption, ShutdownInv,
           NEW x \in Signals, Lifecycle!Disconnect(x)
    PROVE  ShutdownInv'
<1> USE DEF ShutdownInv, Lifecycle!RuntimeLifecycleAssumption
<1>1. PICK c \in closing[x] :
          /\ closing' = [closing EXCEPT ![x] = @ \ {c}]
          /\ closed' = [closed EXCEPT ![c] = @ + 1]
  BY DEF Lifecycle!Disconnect
<1>2. /\ closing[x] # None /\ closing[x] \subseteq Lifecycle!AllClients
      /\ c \in Lifecycle!AllClients
      /\ c \in ToClose(x) /\ didShutdown
      /\ UNCHANGED <<life, clients, timer, didShutdown, late>>
  BY DEF Lifecycle!Disconnect, ToClose, ClosingType, ClosedOnce
<1>3. ClosingType' /\ Stopped'
  BY <1>1, <1>2 DEF ClosingType, Stopped
<1>4. ToClose(x)' = ToClose(x) \ {c} /\ \A y \in Signals \ {x} : ToClose(y)' = ToClose(y)
  BY <1>1, <1>2 DEF ToClose, ClosingType
<1>5. closed[c] = 0 /\ closed'[c] = 1 /\ c \in clients
      /\ \A d \in Lifecycle!AllClients \ {c} : closed'[d] = closed[d]
  BY <1>1, <1>2 DEF ClosedOnce, ClosingType
<1>6. \A y \in Signals \ {x} : c \notin ToClose(y)
  BY <1>2 DEF ClosedOnce
<1>7. ClosedOnce'
  BY <1>2, <1>4, <1>5, <1>6 DEF ClosedOnce, ClosingType
<1> QED
  BY <1>3, <1>7

LEMMA NextShutdown ==
    ASSUME Lifecycle!RuntimeLifecycleAssumption, ShutdownInv,
           [Lifecycle!Next]_Lifecycle!lifeOwn
    PROVE  ShutdownInv'
<1> USE DEF ShutdownInv
<1>1. CASE Lifecycle!CreateRuntime
  <2>1. PICK o \in Options : Lifecycle!CreateRuntime!2!(o)
    BY <1>1 DEF Lifecycle!CreateRuntime, Options
  <2>2. life = "new" /\ UNCHANGED <<didShutdown, closing, closed, late>>
    BY <1>1 DEF Lifecycle!CreateRuntime
  <2>3. clients' \subseteq Lifecycle!AllClients
    BY <2>1 DEF Lifecycle!KnownClients, Options, Lifecycle!AllClients, ClosingType
  <2>4. life' = "running" \/ (life' # "running" /\ UNCHANGED timer)
    <3>1. CASE Lifecycle!Refused(o)
      <4>1. life' = "refused" /\ UNCHANGED timer
        BY <2>1, <3>1
      <4> QED
        BY <4>1
    <3>2. CASE ~Lifecycle!Refused(o)
      BY <2>1, <3>2
    <3> QED
      BY <3>1, <3>2
  <2>5. ~didShutdown
    BY <2>2 DEF Stopped
  <2>6. \A x \in Signals : ToClose(x) = {} /\ ToClose(x)' = {}
    BY <2>2, <2>5 DEF ClosedOnce, ToClose
  <2>7. ClosingType' /\ Stopped'
    BY <2>2, <2>3, <2>4, <2>5 DEF ClosingType, Stopped
  <2>8. ClosedOnce'
    <3>1. \A c \in Lifecycle!AllClients : closed'[c] = 0
      BY <2>2, <2>5 DEF ClosedOnce
    <3> QED
      BY <2>2, <2>5, <2>6, <3>1 DEF ClosedOnce
  <2> QED
    BY <2>7, <2>8
<1>2. CASE Lifecycle!Fire
  BY <1>2 DEF Lifecycle!Fire, ClosingType, Stopped, ClosedOnce, ToClose
<1>3. CASE Lifecycle!Work \/ UNCHANGED Lifecycle!lifeOwn
  BY <1>3 DEF Lifecycle!Work, Lifecycle!lifeOwn, ClosingType, Stopped, ClosedOnce, ToClose
<1> QED
  BY <1>1, <1>2, <1>3, ShutdownStep, DisconnectStep DEF Lifecycle!Next

LEMMA ShutdownInit == ASSUME Lifecycle!Init PROVE ShutdownInv
<1>1. ClosingType /\ Stopped
  BY DEF Lifecycle!Init, ClosingType, Stopped
<1>2. (\A x \in Signals : ToClose(x) = {}) /\ (\A c \in Lifecycle!AllClients : closed[c] = 0)
  BY DEF Lifecycle!Init, ToClose
<1>3. ClosedOnce
  BY <1>2 DEF Lifecycle!Init, ClosedOnce
<1> QED
  BY <1>1, <1>3 DEF ShutdownInv

LEMMA ShutdownView == ASSUME ShutdownInv PROVE Lifecycle!ShutdownClean
<1>1. ASSUME didShutdown, \A x \in Signals : closing[x] \in {None, {}}
      PROVE  clients = {c \in Lifecycle!AllClients : closed[c] = 1}
  <2>1. \A x \in Signals : ToClose(x) = {}
    BY <1>1 DEF ToClose
  <2> QED
    BY <1>1, <2>1 DEF ShutdownInv, ClosingType, ClosedOnce
<1> QED
  BY <1>1 DEF ShutdownInv, Stopped, ClosedOnce, Lifecycle!ShutdownClean

ShutdownHolds == part = "Lifecycle" => ShutdownInv

\* While the runtime's end is exercised its invariant holds.
THEOREM AlwaysShutdown == ASSUME RuntimeAssumption PROVE RuntimeSpec => []ShutdownHolds
<1>1. RuntimeInit => ShutdownHolds
  BY ShutdownInit DEF RuntimeInit, ShutdownHolds
<1>2. ShutdownHolds /\ [RuntimeNext]_runtimeVars => ShutdownHolds'
  <2> SUFFICES ASSUME part = "Lifecycle", ShutdownInv, [RuntimeNext]_runtimeVars PROVE ShutdownInv'
    BY DEF RuntimeNext, runtimeVars, ShutdownHolds
  <2>1. Lifecycle!RuntimeLifecycleAssumption
    BY DEF RuntimeAssumption
  <2> QED
    BY <2>1, LifecycleStep, NextShutdown
<1> QED
  BY <1>1, <1>2, PTL DEF RuntimeSpec

\* However many calls of shutdown() overlap with each other and with a tick,
\* no tick begins afterwards and every known client is disconnected exactly once.
THEOREM AlwaysCleanShutdown == ASSUME RuntimeAssumption PROVE RuntimeSpec => []ShutdownClean
<1>1. ShutdownHolds => ShutdownClean
  BY ShutdownView DEF ShutdownHolds, ShutdownClean
<1> QED
  BY <1>1, AlwaysShutdown, PTL

-----------------------------------------------------------------------------
(***************************************************************************)
(* Sequences of sequences, flattened.  Each element of the result comes    *)
(* from one of them, after those that come before it there.                *)
(***************************************************************************)
\* f flattens the first n of the sequences ss, step by step.
Flattens(f, n, ss) == f = [i \in 1..n |-> IF i = 1 THEN ss[i] ELSE f[i - 1] \o ss[i]]

\* A set of numbers has a least one.
LEMMA FirstNumber ==
    ASSUME NEW T \in SUBSET Nat, T # {} PROVE \E n \in T : \A m \in T : n <= m
<1>1. PICK n \in T : \A m \in T : ~ (<<m, n>> \in OpToRel(<, Nat))
  BY Zenon, WFMin, NatLessThanWellFounded
<1>2. ASSUME NEW m \in T, m < n PROVE FALSE
  <2>1. <<m, n>> \in OpToRel(<, Nat)
    BY <1>2 DEF OpToRel
  <2> QED
    BY Zenon, <1>1, <2>1
<1>3. n \in T
  OBVIOUS
<1> HIDE <1>1
<1>4. \A m \in T : n <= m
  BY <1>2, <1>3
<1> QED
  BY <1>3, <1>4

LEMMA FlattensExists == ASSUME NEW ss, NEW n \in Nat PROVE \E f : Flattens(f, n, ss)
<1> DEFINE Bad == {m \in Nat : ~\E f : Flattens(f, m, ss)}
<1>1. SUFFICES ASSUME Bad # {} PROVE FALSE
  OBVIOUS
<1>2. PICK m \in Bad : \A k \in Bad : m <= k
  BY <1>1, FirstNumber
<1>3. m \in Nat /\ ~\E f : Flattens(f, m, ss)
  BY <1>2
<1>4. CASE m = 0
  <2>1. Flattens(<<>>, 0, ss)
    BY DEF Flattens
  <2> QED
    BY <1>3, <1>4, <2>1
<1>5. CASE m # 0
  <2>1. m - 1 \in Nat /\ m - 1 \notin Bad
    BY <1>2, <1>3, <1>5
  <2>2. PICK f : Flattens(f, m - 1, ss)
    BY <2>1
  <2> DEFINE next == IF m = 1 THEN ss[1] ELSE f[m - 1] \o ss[m]
             g == [i \in 1..m |-> IF i = m THEN next ELSE f[i]]
  <2>3. \A i \in 1..m : g[i] = IF i = 1 THEN ss[i] ELSE g[i - 1] \o ss[i]
    <3> SUFFICES ASSUME NEW i \in 1..m PROVE g[i] = IF i = 1 THEN ss[i] ELSE g[i - 1] \o ss[i]
      OBVIOUS
    <3>1. CASE i = m
      BY <1>3, <3>1
    <3>2. CASE i # m
      <4>1. i \in 1..m - 1 /\ g[i] = f[i] /\ (i # 1 => i - 1 \in 1..m /\ i - 1 # m)
        BY <1>3, <3>2
      <4>2. f[i] = IF i = 1 THEN ss[i] ELSE f[i - 1] \o ss[i]
        BY <2>2, <4>1 DEF Flattens
      <4> QED
        BY <4>1, <4>2
    <3> QED
      BY <3>1, <3>2
  <2>4. DOMAIN g = 1..m /\ g = [i \in 1..m |-> g[i]]
    OBVIOUS
  <2> HIDE DEF g
  <2>5. Flattens(g, m, ss)
    BY <2>3, <2>4, Zenon DEF Flattens
  <2> QED
    BY <1>3, <2>5
<1> QED
  BY <1>4, <1>5

LEMMA FlattensLast ==
    ASSUME NEW ss, Len(ss) \in Nat, Len(ss) # 0
    PROVE  \E f : Flattens(f, Len(ss), ss) /\ Surface!FlattenSeq(ss) = f[Len(ss)]
<1> DEFINE f == CHOOSE g : Flattens(g, Len(ss), ss)
<1>1. Flattens(f, Len(ss), ss)
  BY FlattensExists
<1>2. Surface!FlattenSeq(ss) = f[Len(ss)]
  BY Zenon DEF Surface!FlattenSeq, Flattens
<1> QED
  BY <1>1, <1>2

\* What is in FF comes from the first n sequences of ss, in order, and all of it is there.
InOrder(FF, n, ss) ==
    /\ \A p \in 1..Len(FF) : \E i \in 1..n : \E j \in 1..Len(ss[i]) :
           FF[p] = ss[i][j] /\ \A k \in 1..j - 1 : \E q \in 1..p - 1 : FF[q] = ss[i][k]
    /\ \A i \in 1..n : \A j \in 1..Len(ss[i]) : \E p \in 1..Len(FF) : FF[p] = ss[i][j]

LEMMA InOrderFirst ==
    ASSUME NEW T, NEW ss \in Seq(Seq(T)), 1 <= Len(ss) PROVE InOrder(ss[1], 1, ss)
<1>1. ss[1] \in Seq(T)
  BY ElementOfSeq
<1>2. Len(ss[1]) \in Nat
  BY <1>1, LenProperties
<1>3. \A p \in 1..Len(ss[1]) : \A k \in 1..p - 1 : k \in 1..p - 1 /\ ss[1][k] = ss[1][k]
  OBVIOUS
<1> QED
  BY <1>2, <1>3 DEF InOrder

LEMMA InOrderNext ==
    ASSUME NEW T, NEW ss \in Seq(Seq(T)), NEW n \in 2..Len(ss), NEW FF \in Seq(T),
           InOrder(FF, n - 1, ss)
    PROVE  InOrder(FF \o ss[n], n, ss)
<1> DEFINE tt == ss[n]
           EE == FF \o tt
<1>1. Len(ss) \in Nat /\ n \in 1..Len(ss)
  BY LenProperties
<1>2. tt \in Seq(T)
  BY <1>1, ElementOfSeq
<1>3. Len(FF) \in Nat /\ Len(tt) \in Nat
  BY <1>2, LenProperties
<1>4. /\ Len(EE) = Len(FF) + Len(tt)
      /\ \A p \in 1..Len(FF) + Len(tt) : EE[p] = IF p <= Len(FF) THEN FF[p] ELSE tt[p - Len(FF)]
  BY <1>2, ConcatProperties
<1> HIDE DEF EE
<1>5. ASSUME NEW p \in 1..Len(EE)
      PROVE  \E i \in 1..n : \E j \in 1..Len(ss[i]) :
                 EE[p] = ss[i][j] /\ \A k \in 1..j - 1 : \E q \in 1..p - 1 : EE[q] = ss[i][k]
  <2>1. CASE p <= Len(FF)
    <3>0. p \in 1..Len(FF) /\ \A q \in 1..p : q \in 1..Len(FF) + Len(tt) /\ q <= Len(FF)
      BY <1>3, <1>4, <2>1
    <3>1. PICK i \in 1..n - 1 : \E j \in 1..Len(ss[i]) :
              FF[p] = ss[i][j] /\ \A k \in 1..j - 1 : \E q \in 1..p - 1 : FF[q] = ss[i][k]
      BY <3>0, Zenon DEF InOrder
    <3>2. \A q \in 1..p : EE[q] = FF[q]
      BY <1>4, <3>0, Zenon
    <3>3. i \in 1..n /\ EE[p] = FF[p] /\ \A q \in 1..p - 1 : EE[q] = FF[q]
      BY <1>1, <1>3, <1>4, <3>2
    <3> QED
      BY <3>1, <3>3, SMTT(30)
  <2>2. CASE ~(p <= Len(FF))
    <3> DEFINE j == p - Len(FF)
    <3>1. j \in 1..Len(tt) /\ EE[p] = tt[j]
      BY <1>3, <1>4, <2>2, SMTT(30)
    <3>2. ASSUME NEW k \in 1..j - 1 PROVE k + Len(FF) \in 1..p - 1 /\ EE[k + Len(FF)] = tt[k]
      <4>1. k + Len(FF) \in 1..Len(FF) + Len(tt) /\ ~(k + Len(FF) <= Len(FF))
            /\ (k + Len(FF)) - Len(FF) = k /\ k + Len(FF) \in 1..p - 1
        BY <1>3, <1>4, <3>1, SMTT(30)
      <4> QED
        BY <1>4, <4>1
    <3>3. n \in 1..n /\ j \in 1..Len(ss[n]) /\ EE[p] = ss[n][j]
      BY <1>1, <3>1
    <3>4. \A k \in 1..j - 1 : \E q \in 1..p - 1 : EE[q] = ss[n][k]
      BY <3>2
    <3> QED
      BY <3>3, <3>4
  <2> QED
    BY <2>1, <2>2
<1>6. ASSUME NEW i \in 1..n, NEW j \in 1..Len(ss[i])
      PROVE  \E p \in 1..Len(EE) : EE[p] = ss[i][j]
  <2>1. CASE i = n
    <3>1. /\ j + Len(FF) \in 1..Len(FF) + Len(tt) /\ ~(j + Len(FF) <= Len(FF))
          /\ (j + Len(FF)) - Len(FF) = j
      BY <1>3, <2>1
    <3> QED
      BY <1>4, <2>1, <3>1
  <2>2. CASE i # n
    <3>1. i \in 1..n - 1
      BY <2>2
    <3>2. PICK p \in 1..Len(FF) : FF[p] = ss[i][j]
      BY <3>1 DEF InOrder
    <3>3. p \in 1..Len(FF) + Len(tt) /\ p <= Len(FF)
      BY <1>3
    <3> QED
      BY <1>4, <3>2, <3>3
  <2> QED
    BY <2>1, <2>2
<1> QED
  BY <1>5, <1>6 DEF InOrder, EE

LEMMA Flattened ==
    ASSUME NEW T, NEW ss \in Seq(Seq(T)), Len(ss) # 0
    PROVE  /\ Surface!FlattenSeq(ss) \in Seq(T)
           /\ InOrder(Surface!FlattenSeq(ss), Len(ss), ss)
<1>1. Len(ss) \in Nat
  BY LenProperties
<1>2. PICK f : Flattens(f, Len(ss), ss) /\ Surface!FlattenSeq(ss) = f[Len(ss)]
  BY <1>1, FlattensLast
<1>3. \A i \in 1..Len(ss) : f[i] = IF i = 1 THEN ss[i] ELSE f[i - 1] \o ss[i]
  BY <1>2 DEF Flattens
<1> DEFINE Good(m) == f[m] \in Seq(T) /\ InOrder(f[m], m, ss)
           Bad == {m \in 1..Len(ss) : ~Good(m)}
<1> HIDE DEF Good
<1>4. SUFFICES ASSUME Bad # {} PROVE FALSE
  <2>1. Good(Len(ss))
    BY <1>1, <1>4
  <2> QED
    BY <1>2, <2>1 DEF Good
<1>5. PICK m \in Bad : \A k \in Bad : m <= k
  <2>1. Bad \in SUBSET Nat
    OBVIOUS
  <2> QED
    BY <1>4, <2>1, FirstNumber, Zenon
<1>6. CASE m = 1
  <2>1. f[1] = ss[1] /\ ss[1] \in Seq(T)
    BY <1>1, <1>3, <1>5, <1>6, ElementOfSeq
  <2>2. InOrder(ss[1], 1, ss)
    BY <1>1, <1>5, <1>6, InOrderFirst
  <2> QED
    BY <1>5, <1>6, <2>1, <2>2 DEF Good
<1>7. CASE m # 1
  <2>1. m \in 2..Len(ss) /\ m - 1 \in 1..Len(ss) /\ m - 1 \notin Bad
    BY <1>1, <1>5, <1>7
  <2>2. f[m - 1] \in Seq(T) /\ InOrder(f[m - 1], m - 1, ss)
    BY <2>1 DEF Good
  <2>3. f[m] = f[m - 1] \o ss[m] /\ ss[m] \in Seq(T)
    BY <1>3, <1>7, <2>1, ElementOfSeq
  <2>4. f[m] \in Seq(T)
    BY <2>2, <2>3, ConcatProperties
  <2>5. InOrder(f[m], m, ss)
    BY <2>1, <2>2, <2>3, InOrderNext
  <2> QED
    BY <1>5, <2>4, <2>5 DEF Good
<1> QED
  BY <1>6, <1>7

-----------------------------------------------------------------------------
(***************************************************************************)
(* The routes and the artefacts.  All is decided when the routes are       *)
(* mounted and the artefacts are written; from then on the invariant says  *)
(* which they are, and what is shown of them is shown of the expressions.  *)
(***************************************************************************)
CustomEndpoint == [method : STRING, path : Seq(STRING)]

SurfaceTypes ==
    /\ surfaceStage \in {"declaring", "refused", "given", "mounted", "published"}
    /\ parsed \in BOOLEAN /\ switches \subseteq Surface!Switches
    /\ endpoints \in [Surface!Names -> SUBSET Surface!CrudActions]
    /\ custom \in [Surface!Names -> Seq(CustomEndpoint)]
    /\ \A r \in Surface!Names : \A k \in 1..Len(custom[r]) : <<r, custom[r][k]>> \in Extras
    /\ nested \subseteq Surface!Names \X Surface!Names
    /\ \A t \in topRelations : t.from \in Surface!Names /\ t.to \in Surface!Names
    /\ DOMAIN offered = Surface!Artefacts

SurfaceInv ==
    /\ SurfaceTypes
    /\ surfaceStage = "declaring" => ~parsed
    /\ parsed => Surface!OAuthHasUsers
    /\ surfaceStage \in {"mounted", "published"} => mounted = Surface!MountedRoutes
    /\ surfaceStage = "published" =>
           offered = [openapi |-> Surface!OpenApi, sdk |-> Surface!Sdk,
                      postman |-> Surface!Postman, readme |-> Surface!Readme,
                      tests |-> Surface!Tests]

LEMMA SurfaceInit == ASSUME Surface!Init PROVE SurfaceInv
<1>1. /\ [r \in Surface!Names |-> <<>>] \in [Surface!Names -> Seq(CustomEndpoint)]
      /\ \A r \in Surface!Names : \A k \in 1..Len([n \in Surface!Names |-> <<>>][r]) : FALSE
  OBVIOUS
<1>2. SurfaceTypes
  BY <1>1 DEF Surface!Init, SurfaceTypes
<1> QED
  BY <1>2 DEF Surface!Init, SurfaceInv

LEMMA SurfaceDeclare ==
    ASSUME Surface!ApiSurfaceAssumption, SurfaceInv, Surface!Declare PROVE SurfaceInv'
<1>1. surfaceStage = "declaring" /\ UNCHANGED <<surfaceStage, parsed, mounted, offered>>
  BY DEF Surface!Declare
<1>2. SUFFICES SurfaceTypes'
  BY <1>1 DEF SurfaceInv
<1>3. SurfaceTypes
  BY DEF SurfaceInv
<1>4. ASSUME NEW s \in Surface!Switches, switches' = switches \cup {s},
             UNCHANGED <<endpoints, custom, nested, topRelations>>
      PROVE  SurfaceTypes'
  BY <1>1, <1>3, <1>4 DEF SurfaceTypes
<1>5. ASSUME NEW r \in Surface!Names, NEW e \in Subsets,
             endpoints' = [endpoints EXCEPT ![r] = e],
             UNCHANGED <<switches, custom, nested, topRelations>>
      PROVE  SurfaceTypes'
  <2>1. e \in SUBSET Surface!CrudActions
    BY DEF Surface!ApiSurfaceAssumption
  <2>2. endpoints' \in [Surface!Names -> SUBSET Surface!CrudActions]
    BY <1>3, <1>5, <2>1 DEF SurfaceTypes
  <2> QED
    BY <1>1, <1>3, <1>5, <2>2 DEF SurfaceTypes
<1>6. ASSUME NEW e \in Extras, custom' = [custom EXCEPT ![e[1]] = Append(@, e[2])],
             UNCHANGED <<switches, endpoints, nested, topRelations>>
      PROVE  SurfaceTypes'
  <2>1. PICK r \in Surface!Names, c \in CustomEndpoint : e = <<r, c>>
    <3>1. e \in Surface!Names \X CustomEndpoint
      BY DEF Surface!ApiSurfaceAssumption, CustomEndpoint
    <3> QED
      BY <3>1
  <2>2. custom' = [custom EXCEPT ![r] = Append(custom[r], c)]
    BY <1>6, <2>1
  <2>3. custom \in [Surface!Names -> Seq(CustomEndpoint)]
    BY <1>3 DEF SurfaceTypes
  <2>4. custom[r] \in Seq(CustomEndpoint) /\ Len(custom[r]) \in Nat
    BY <2>3, LenProperties
  <2>5. /\ Append(custom[r], c) \in Seq(CustomEndpoint)
        /\ Len(Append(custom[r], c)) = Len(custom[r]) + 1
        /\ \A k \in 1..Len(custom[r]) + 1 :
               Append(custom[r], c)[k] = IF k <= Len(custom[r]) THEN custom[r][k] ELSE c
    BY <2>4, AppendProperties
  <2>6. custom' \in [Surface!Names -> Seq(CustomEndpoint)]
    BY <2>2, <2>3, <2>5
  <2>7. ASSUME NEW n \in Surface!Names, NEW k \in 1..Len(custom'[n])
        PROVE  <<n, custom'[n][k]>> \in Extras
    <3>1. CASE n = r
      <4>1. custom'[n] = Append(custom[r], c)
        BY <2>2, <2>3, <3>1
      <4>2. CASE k <= Len(custom[r])
        <5>1. k \in 1..Len(custom[r]) /\ custom'[n][k] = custom[r][k]
          BY <2>4, <2>5, <2>7, <4>1, <4>2
        <5> QED
          BY <1>3, <3>1, <5>1 DEF SurfaceTypes
      <4>3. CASE ~(k <= Len(custom[r]))
        <5>1. custom'[n][k] = c
          BY <2>4, <2>5, <2>7, <4>1, <4>3
        <5> QED
          BY <2>1, <3>1, <5>1
      <4> QED
        BY <4>2, <4>3
    <3>2. CASE n # r
      <4>1. custom'[n] = custom[n]
        BY <2>2, <2>3, <3>2
      <4> QED
        BY <1>3, <2>7, <4>1 DEF SurfaceTypes
    <3> QED
      BY <3>1, <3>2
  <2> QED
    BY <1>1, <1>3, <1>6, <2>6, <2>7 DEF SurfaceTypes
<1>7. ASSUME NEW pair \in Relatable, nested' = nested \cup {pair},
             UNCHANGED <<switches, endpoints, custom, topRelations>>
      PROVE  SurfaceTypes'
  <2>1. pair \in Surface!Names \X Surface!Names
    BY DEF Surface!ApiSurfaceAssumption
  <2> QED
    BY <1>1, <1>3, <1>7, <2>1 DEF SurfaceTypes
<1>8. ASSUME NEW pair \in Relatable, NEW type,
             topRelations' = topRelations
                 \cup {[from |-> pair[1], type |-> type, to |-> pair[2]]},
             UNCHANGED <<switches, endpoints, custom, nested>>
      PROVE  SurfaceTypes'
  <2>1. pair \in Surface!Names \X Surface!Names
    BY DEF Surface!ApiSurfaceAssumption
  <2>2. pair[1] \in Surface!Names /\ pair[2] \in Surface!Names
    BY <2>1
  <2> QED
    BY <1>1, <1>3, <1>8, <2>2 DEF SurfaceTypes
<1> QED
  BY <1>4, <1>5, <1>6, <1>7, <1>8 DEF Surface!Declare

LEMMA SurfaceParse ==
    ASSUME SurfaceInv, Surface!Parse PROVE SurfaceInv'
<1>1. UNCHANGED <<switches, endpoints, custom, topRelations, mounted, offered>>
  BY DEF Surface!Parse
<1>2. SurfaceTypes
  BY DEF SurfaceInv
<1>3. CASE Surface!OAuthHasUsers
  <2>1. /\ surfaceStage' = "given" /\ parsed' = TRUE
        /\ nested' = nested \cup UNION {Surface!Folded(t) : t \in topRelations}
    BY <1>3 DEF Surface!Parse
  <2>2. \A t \in topRelations : Surface!Folded(t) \subseteq Surface!Names \X Surface!Names
    BY <1>2 DEF SurfaceTypes, Surface!Folded
  <2>3. nested' \subseteq Surface!Names \X Surface!Names
    BY <1>2, <2>1, <2>2 DEF SurfaceTypes
  <2>4. SurfaceTypes'
    BY <1>1, <1>2, <2>1, <2>3 DEF SurfaceTypes
  <2> QED
    BY <1>1, <1>3, <2>1, <2>4 DEF SurfaceInv, Surface!OAuthHasUsers
<1>4. CASE ~Surface!OAuthHasUsers
  <2>1. surfaceStage' = "refused" /\ UNCHANGED <<parsed, nested>>
    BY <1>4 DEF Surface!Parse
  <2> QED
    BY <1>1, <1>2, <2>1 DEF SurfaceInv, SurfaceTypes, Surface!OAuthHasUsers
<1> QED
  BY <1>3, <1>4

\* The routes and the artefacts depend on what was declared alone.
LEMMA SurfaceSame ==
    ASSUME UNCHANGED <<parsed, switches, endpoints, custom, nested, topRelations>>
    PROVE  /\ UNCHANGED <<Surface!OAuthHasUsers, Surface!MountedRoutes>>
           /\ UNCHANGED <<Surface!OpenApi, Surface!Sdk, Surface!Postman, Surface!Readme,
                          Surface!Tests>>
<1> USE DEF Surface!On, Surface!FilesOn, Surface!KeysOn, Surface!CustomEndpoints
<1>1. UNCHANGED <<Surface!OAuthHasUsers, Surface!Tests>>
  BY DEF Surface!OAuthHasUsers, Surface!Tests
<1>2. UNCHANGED Surface!MountedRoutes
  BY DEF Surface!MountedRoutes, Surface!FlatOf, Surface!GenerateRoutes, Surface!MountAuthFlows,
         Surface!RegisterNestedRoutes, Surface!RegisterResource
<1>3. UNCHANGED Surface!OpenApi
  BY DEF Surface!OpenApi, Surface!BuildAuthPaths, Surface!BuildPaths, Surface!Kept,
         Surface!FlatOf
<1>4. UNCHANGED Surface!Sdk
  BY DEF Surface!Sdk, Surface!NestedChildren, Surface!ResourceAccessor, Surface!UploadEnabled
<1>5. UNCHANGED Surface!Postman
  BY DEF Surface!Postman, Surface!CustomEndpointRequests, Surface!OAuthFolder,
         Surface!ResourceFolder, Surface!UploadFolder, Surface!WebhooksFolder
<1>6. UNCHANGED Surface!Readme
  BY DEF Surface!Readme, Surface!Creatable, Surface!CustomEndpointRequests, Surface!RenderAuth,
         Surface!RenderExamples, Surface!RenderResourceEndpoints, Surface!RenderSearch,
         Surface!RenderUpload, Surface!RenderWebhooks
<1> QED
  BY <1>1, <1>2, <1>3, <1>4, <1>5, <1>6

LEMMA SurfaceNext ==
    ASSUME Surface!ApiSurfaceAssumption, SurfaceInv, [Surface!Next]_Surface!surfaceOwn
    PROVE  SurfaceInv'
<1>1. CASE Surface!GiveUnparsed
  BY <1>1 DEF Surface!GiveUnparsed, SurfaceInv, SurfaceTypes, Surface!OAuthHasUsers
<1>2. CASE Surface!Mount
  <2>1. /\ surfaceStage = "given" /\ surfaceStage' = "mounted"
        /\ UNCHANGED <<parsed, switches, endpoints, custom, nested, topRelations, offered>>
        /\ mounted' = Surface!MountedRoutes
    BY <1>2 DEF Surface!Mount
  <2>2. UNCHANGED <<Surface!OAuthHasUsers, Surface!MountedRoutes>>
    BY <2>1, SurfaceSame
  <2> QED
    BY <2>1, <2>2 DEF SurfaceInv, SurfaceTypes
<1>3. CASE Surface!Publish
  <2>1. /\ surfaceStage = "mounted" /\ surfaceStage' = "published"
        /\ UNCHANGED <<parsed, switches, endpoints, custom, nested, topRelations, mounted>>
        /\ offered' = [openapi |-> Surface!OpenApi, sdk |-> Surface!Sdk,
                       postman |-> Surface!Postman, readme |-> Surface!Readme,
                       tests |-> Surface!Tests]
    BY <1>3 DEF Surface!Publish
  <2>2. /\ UNCHANGED <<Surface!OAuthHasUsers, Surface!MountedRoutes>>
        /\ UNCHANGED <<Surface!OpenApi, Surface!Sdk, Surface!Postman, Surface!Readme,
                       Surface!Tests>>
    BY <2>1, SurfaceSame
  <2>3. SurfaceTypes'
    BY <2>1 DEF SurfaceInv, SurfaceTypes, Surface!Artefacts
  <2> QED
    BY <2>1, <2>2, <2>3 DEF SurfaceInv
<1>4. CASE UNCHANGED Surface!surfaceOwn
  <2>1. UNCHANGED <<surfaceStage, parsed, switches, endpoints, custom, nested, topRelations,
                    mounted, offered>>
    BY <1>4 DEF Surface!surfaceOwn
  <2>2. /\ UNCHANGED <<Surface!OAuthHasUsers, Surface!MountedRoutes>>
        /\ UNCHANGED <<Surface!OpenApi, Surface!Sdk, Surface!Postman, Surface!Readme,
                       Surface!Tests>>
    BY <2>1, SurfaceSame
  <2> QED
    BY <2>1, <2>2 DEF SurfaceInv, SurfaceTypes
<1> QED
  BY <1>1, <1>2, <1>3, <1>4, SurfaceDeclare, SurfaceParse DEF Surface!Next

\* The routes of one resource: its list, its custom endpoints, the rest, and the nested ones.
RestOf(r) == Surface!FlatOf(r, Surface!CrudActions \ {"list"})

LEMMA ResourceLayers ==
    ASSUME SurfaceTypes, NEW r \in Surface!Names, NEW T, NEW LL,
           LL = Surface!RegisterResource(r),
           Surface!FlatOf(r, {"list"}) \in T, RestOf(r) \in T,
           Surface!RegisterNestedRoutes(r) \in T,
           \A k \in 1..Len(Surface!CustomEndpoints(r)) :
               {Surface!Custom(r, custom[r][k])} \in T
    PROVE  LET n == Len(Surface!CustomEndpoints(r)) IN
           /\ n \in Nat /\ LL \in Seq(T) /\ Len(LL) = n + 3
           /\ LL[1] = Surface!FlatOf(r, {"list"})
           /\ \A k \in 1..n : LL[k + 1] = {Surface!Custom(r, custom[r][k])}
           /\ LL[n + 2] = RestOf(r) /\ LL[n + 3] = Surface!RegisterNestedRoutes(r)
<1> DEFINE n == Len(Surface!CustomEndpoints(r))
           first == <<Surface!FlatOf(r, {"list"})>>
           middle == [k \in 1..n |-> {Surface!Custom(r, custom[r][k])}]
           end == <<RestOf(r), Surface!RegisterNestedRoutes(r)>>
<1>1. Surface!CustomEndpoints(r) \in Seq(CustomEndpoint)
  BY DEF Surface!CustomEndpoints, SurfaceTypes
<1>2. n \in Nat /\ DOMAIN Surface!CustomEndpoints(r) = 1..n
  BY <1>1, LenProperties
<1>3. first \in Seq(T) /\ Len(first) = 1 /\ end \in Seq(T) /\ Len(end) = 2
  OBVIOUS
<1>4. middle \in Seq(T) /\ Len(middle) = n
  BY <1>2
<1>5. LL = (first \o middle) \o end
  BY <1>2 DEF Surface!RegisterResource, RestOf
<1>6. /\ first[1] = Surface!FlatOf(r, {"list"}) /\ end[1] = RestOf(r)
      /\ end[2] = Surface!RegisterNestedRoutes(r)
      /\ \A k \in 1..n : middle[k] = {Surface!Custom(r, custom[r][k])}
  OBVIOUS
<1> HIDE DEF first, middle, end
<1>7. /\ first \o middle \in Seq(T) /\ Len(first \o middle) = 1 + n
      /\ \A i \in 1..1 + n :
             (first \o middle)[i] = IF i <= 1 THEN first[i] ELSE middle[i - 1]
  <2>1. /\ first \o middle \in Seq(T) /\ Len(first \o middle) = Len(first) + Len(middle)
        /\ \A i \in 1..Len(first) + Len(middle) :
               (first \o middle)[i] = IF i <= Len(first) THEN first[i] ELSE middle[i - Len(first)]
    BY <1>3, <1>4, ConcatProperties, ZenonT(30)
  <2> QED
    BY <1>3, <1>4, <2>1, Zenon
<1> HIDE DEF n
<1>8. /\ LL \in Seq(T) /\ Len(LL) = (1 + n) + 2
      /\ \A i \in 1..(1 + n) + 2 :
             LL[i] = IF i <= 1 + n THEN (first \o middle)[i] ELSE end[i - (1 + n)]
  <2> DEFINE both == first \o middle
  <2>1. both \in Seq(T)
    BY <1>7
  <2> HIDE DEF both
  <2>2. /\ both \o end \in Seq(T) /\ Len(both \o end) = Len(both) + Len(end)
        /\ \A i \in 1..Len(both) + Len(end) :
               (both \o end)[i] = IF i <= Len(both) THEN both[i] ELSE end[i - Len(both)]
    BY <1>3, <2>1, ConcatProperties
  <2> QED
    BY <1>3, <1>5, <1>7, <2>2, Zenon DEF both
<1>9. LL[1] = first[1]
  <2>1. 1 \in 1..1 + n /\ 1 \in 1..(1 + n) + 2 /\ 1 <= 1 + n /\ 1 <= 1
    BY <1>2
  <2> QED
    BY <1>7, <1>8, <2>1, Zenon
<1>10. ASSUME NEW k \in 1..n PROVE LL[k + 1] = middle[k]
  <2>1. k + 1 \in 1..1 + n /\ k + 1 \in 1..(1 + n) + 2 /\ k + 1 <= 1 + n /\ ~(k + 1 <= 1)
        /\ (k + 1) - 1 = k
    BY <1>2
  <2> QED
    BY <1>7, <1>8, <2>1
<1>11. LL[n + 2] = end[1] /\ LL[n + 3] = end[2]
  <2>1. /\ n + 2 \in 1..(1 + n) + 2 /\ ~(n + 2 <= 1 + n) /\ (n + 2) - (1 + n) = 1
        /\ n + 3 \in 1..(1 + n) + 2 /\ ~(n + 3 <= 1 + n) /\ (n + 3) - (1 + n) = 2
    BY <1>2
  <2> QED
    BY <1>8, <2>1
<1>12. (1 + n) + 2 = n + 3
  BY <1>2
<1> QED
  BY <1>2, <1>6, <1>8, <1>9, <1>10, <1>11, <1>12 DEF n

\* The routes of the resources.
IsFlat(y, r) == \E a \in endpoints[r] : y = Surface!Flat(r, a)
IsCustom(y, r) == \E k \in 1..Len(Surface!CustomEndpoints(r)) : y = Surface!Custom(r, custom[r][k])
IsNested(y, r) ==
    \E c \in Surface!Names : \E a \in endpoints[c] \cap {"list", "create", "read"} :
        <<r, c>> \in nested /\ y = Surface!Nested(r, c, a)

\* In the order FF of the resources' routes, the custom endpoints of a resource come before all
\* of its routes but the list, and every route of a resource is there.
LEMMA ResourceRoutes ==
    ASSUME Surface!ApiSurfaceAssumption, SurfaceTypes, NEW FF, FF = Surface!GenerateRoutes
    PROVE  /\ Len(FF) \in Nat /\ \E T : FF \in Seq(T)
           /\ \A p \in 1..Len(FF) : \A y \in FF[p] : \E r \in Surface!Names :
                  \/ IsCustom(y, r)
                  \/ y = Surface!Flat(r, "list") /\ "list" \in endpoints[r]
                  \/ /\ IsFlat(y, r) \/ IsNested(y, r)
                     /\ \A k \in 1..Len(Surface!CustomEndpoints(r)) : \E q \in 1..p - 1 :
                            Surface!Custom(r, custom[r][k]) \in FF[q]
           /\ \A r \in Surface!Names : \A y :
                  IsFlat(y, r) \/ IsCustom(y, r) \/ IsNested(y, r) =>
                      \E p \in 1..Len(FF) : y \in FF[p]
<1> DEFINE N == Len(Published)
           ss == [i \in 1..N |-> Surface!RegisterResource(Published[i])]
           T == UNION {{Surface!FlatOf(r, {"list"}), RestOf(r), Surface!RegisterNestedRoutes(r)}
                          \cup {{Surface!Custom(r, custom[r][k])} :
                                   k \in 1..Len(Surface!CustomEndpoints(r))} :
                       r \in Surface!Names}
<1>1. /\ N \in Nat /\ DOMAIN Published = 1..N
      /\ \A i \in 1..N : Published[i] \in Surface!Names
      /\ \A r \in Surface!Names : \E i \in 1..N : Published[i] = r
  <2>1. Published \in Seq(STRING)
    BY DEF Surface!ApiSurfaceAssumption
  <2> QED
    BY <2>1, LenProperties DEF Surface!Names, Surface!ToSet
<1>2. FF = Surface!FlattenSeq(ss)
  BY <1>1 DEF Surface!GenerateRoutes
<1>3. \A r \in Surface!Names :
          /\ Surface!FlatOf(r, {"list"}) \in T /\ RestOf(r) \in T
          /\ Surface!RegisterNestedRoutes(r) \in T
          /\ \A k \in 1..Len(Surface!CustomEndpoints(r)) :
                 {Surface!Custom(r, custom[r][k])} \in T
  OBVIOUS
<1> DEFINE n(r) == Len(Surface!CustomEndpoints(r))
           LL(r) == Surface!RegisterResource(r)
<1> HIDE DEF T
<1>4. ASSUME NEW r \in Surface!Names
      PROVE  /\ n(r) \in Nat /\ LL(r) \in Seq(T) /\ Len(LL(r)) = n(r) + 3
             /\ LL(r)[1] = Surface!FlatOf(r, {"list"})
             /\ \A k \in 1..n(r) : LL(r)[k + 1] = {Surface!Custom(r, custom[r][k])}
             /\ LL(r)[n(r) + 2] = RestOf(r)
             /\ LL(r)[n(r) + 3] = Surface!RegisterNestedRoutes(r)
  BY <1>3, ResourceLayers
<1> HIDE DEF LL, n
<1>5. ss \in Seq(Seq(T)) /\ Len(ss) = N /\ \A i \in 1..N : ss[i] = LL(Published[i])
  BY <1>1, <1>4 DEF LL
<1> HIDE DEF ss
<1>6. CASE N = 0
  <2>1. FF = <<>>
    BY <1>2, <1>5, <1>6 DEF Surface!FlattenSeq
  <2>2. Surface!Names = {}
    BY <1>1, <1>6
  <2> QED
    BY <2>1, <2>2
<1>7. CASE N # 0
  <2>1. FF \in Seq(T) /\ InOrder(FF, N, ss)
    BY <1>2, <1>5, <1>7, Flattened
  <2>2. Len(FF) \in Nat
    BY <2>1, LenProperties
  <2>3. ASSUME NEW p \in 1..Len(FF), NEW y \in FF[p]
        PROVE  \E r \in Surface!Names :
                  \/ IsCustom(y, r)
                  \/ y = Surface!Flat(r, "list") /\ "list" \in endpoints[r]
                  \/ /\ IsFlat(y, r) \/ IsNested(y, r)
                     /\ \A k \in 1..Len(Surface!CustomEndpoints(r)) : \E q \in 1..p - 1 :
                            Surface!Custom(r, custom[r][k]) \in FF[q]
    <3>1. PICK i \in 1..N : \E j \in 1..Len(ss[i]) :
              FF[p] = ss[i][j] /\ \A k \in 1..j - 1 : \E q \in 1..p - 1 : FF[q] = ss[i][k]
      BY <2>1, Zenon DEF InOrder
    <3>2. PICK j \in 1..Len(ss[i]) :
              FF[p] = ss[i][j] /\ \A k \in 1..j - 1 : \E q \in 1..p - 1 : FF[q] = ss[i][k]
      BY <3>1
    <3> DEFINE r == Published[i]
    <3>3. r \in Surface!Names /\ ss[i] = LL(r)
      BY <1>1, <1>5
    <3> HIDE DEF r
    <3>4. /\ n(r) \in Nat /\ Len(ss[i]) = n(r) + 3
          /\ ss[i][1] = Surface!FlatOf(r, {"list"})
          /\ \A k \in 1..n(r) : ss[i][k + 1] = {Surface!Custom(r, custom[r][k])}
          /\ ss[i][n(r) + 2] = RestOf(r) /\ ss[i][n(r) + 3] = Surface!RegisterNestedRoutes(r)
      BY <1>4, <3>3
    <3>5. CASE j = 1
      <4>1. y \in Surface!FlatOf(r, {"list"})
        BY <3>2, <3>4, <3>5
      <4> QED
        BY <3>3, <4>1 DEF Surface!FlatOf
    <3>6. CASE j \in 2..n(r) + 1
      <4>1. j - 1 \in 1..n(r) /\ (j - 1) + 1 = j
        BY <3>4, <3>6, SMTT(30)
      <4>2. y = Surface!Custom(r, custom[r][j - 1])
        BY <3>2, <3>4, <4>1, SMTT(30)
      <4> QED
        BY <3>3, <4>1, <4>2 DEF IsCustom, n
    <3>7. CASE j \in n(r) + 2..n(r) + 3
      <4>1. IsFlat(y, r) \/ IsNested(y, r)
        <5>1. CASE j = n(r) + 2
          <6>1. y \in RestOf(r)
            BY <3>2, <3>4, <5>1
          <6> QED
            BY <6>1 DEF RestOf, Surface!FlatOf, IsFlat
        <5>2. CASE j = n(r) + 3
          <6>1. y \in Surface!RegisterNestedRoutes(r)
            BY <3>2, <3>4, <5>2
          <6> QED
            BY <6>1 DEF Surface!RegisterNestedRoutes, IsNested
        <5> QED
          BY <3>4, <3>7, <5>1, <5>2
      <4>2. ASSUME NEW k \in 1..n(r)
            PROVE  \E q \in 1..p - 1 : Surface!Custom(r, custom[r][k]) \in FF[q]
        <5>1. k + 1 \in 1..j - 1
          BY <3>4, <3>7
        <5>2. PICK q \in 1..p - 1 : FF[q] = ss[i][k + 1]
          BY <3>2, <5>1
        <5> QED
          BY <3>4, <5>2
      <4> QED
        BY <3>3, <4>1, <4>2 DEF n
    <3>8. n(r) \in Nat /\ j \in 1..n(r) + 3
      BY <3>2, <3>4
    <3>9. j = 1 \/ j \in 2..n(r) + 1 \/ j \in n(r) + 2..n(r) + 3
      BY <3>8
    <3> QED
      BY Zenon, <3>5, <3>6, <3>7, <3>9
  <2>4. ASSUME NEW r \in Surface!Names, NEW y,
               IsFlat(y, r) \/ IsCustom(y, r) \/ IsNested(y, r)
        PROVE  \E p \in 1..Len(FF) : y \in FF[p]
    <3>1. PICK i \in 1..N : Published[i] = r
      BY <1>1
    <3>2. ss[i] = LL(r)
      BY <1>5, <3>1
    <3>3. /\ n(r) \in Nat /\ Len(ss[i]) = n(r) + 3
          /\ ss[i][1] = Surface!FlatOf(r, {"list"})
          /\ \A k \in 1..n(r) : ss[i][k + 1] = {Surface!Custom(r, custom[r][k])}
          /\ ss[i][n(r) + 2] = RestOf(r) /\ ss[i][n(r) + 3] = Surface!RegisterNestedRoutes(r)
      BY <1>4, <3>2
    <3>4. \E j \in 1..Len(ss[i]) : y \in ss[i][j]
      <4>1. CASE IsFlat(y, r)
        <5>1. PICK a \in endpoints[r] : y = Surface!Flat(r, a)
          BY <4>1 DEF IsFlat
        <5>2. a \in Surface!CrudActions
          BY DEF SurfaceTypes
        <5>3. y \in Surface!FlatOf(r, {"list"}) \/ y \in RestOf(r)
          BY <5>1, <5>2 DEF RestOf, Surface!FlatOf
        <5>4. 1 \in 1..Len(ss[i]) /\ n(r) + 2 \in 1..Len(ss[i])
          BY <3>3
        <5> QED
          BY <3>3, <5>3, <5>4
      <4>2. CASE IsCustom(y, r)
        <5>1. PICK k \in 1..n(r) : y = Surface!Custom(r, custom[r][k])
          BY <4>2 DEF IsCustom, n
        <5>2. k + 1 \in 1..Len(ss[i])
          BY <3>3
        <5> QED
          BY <3>3, <5>1, <5>2
      <4>3. CASE IsNested(y, r)
        <5>1. y \in Surface!RegisterNestedRoutes(r)
          BY <4>3 DEF IsNested, Surface!RegisterNestedRoutes
        <5>2. n(r) + 3 \in 1..Len(ss[i])
          BY <3>3
        <5> QED
          BY <3>3, <5>1, <5>2
      <4> QED
        BY <2>4, <4>1, <4>2, <4>3
    <3>5. PICK j \in 1..Len(ss[i]) : y \in ss[i][j]
      BY <3>4
    <3>6. \E p \in 1..Len(FF) : FF[p] = ss[i][j]
      BY <2>1, Zenon DEF InOrder
    <3> QED
      BY <3>5, <3>6
  <2> QED
    BY <2>1, <2>2, <2>3, <2>4
<1> QED
  BY <1>1, <1>6, <1>7

\* The layers of routes the server mounts before and after those of the resources.
Before ==
    <<{Surface!Page("health"), Surface!Page("ready")},
      Surface!When(Surface!KeysOn, Surface!MountApiKeyRoutes),
      Surface!When(Surface!On({"jwt"}), Surface!MountJwtAuthRoutes),
      Surface!When(Surface!On({"jwt"}) /\ Surface!On({"oauth"}), Surface!OAuth(":")),
      Surface!When(Surface!FilesOn, Surface!MountUploadRoutes),
      Surface!When(Surface!On({"uploadLocal"}), Surface!MountLocalUploadRoute),
      Surface!When(Surface!On({"outbound"}), Surface!MountWebhookAdminRoutes),
      Surface!When(Surface!On({"inbound"}), {Surface!Inbound(":")})>>
After ==
    <<Surface!When(Surface!On({"authFlows"}) /\ ~Surface!On({"jwt"}), Surface!MountAuthFlows),
      Surface!When(~Surface!On({"noDocs"}), {Surface!Page("openapi.json"), Surface!Page("docs")})>>

LEMMA MountedLayers ==
    ASSUME Surface!ApiSurfaceAssumption, SurfaceTypes, NEW MM, MM = Surface!MountedRoutes
    PROVE  LET FF == Surface!GenerateRoutes IN
           /\ Len(FF) \in Nat /\ DOMAIN MM = 1..Len(FF) + 10
           /\ \A h \in 1..8 : MM[h] = Before[h]
           /\ \A p \in 1..Len(FF) : MM[p + 8] = FF[p]
           /\ MM[Len(FF) + 9] = After[1] /\ MM[Len(FF) + 10] = After[2]
<1> DEFINE FF == Surface!GenerateRoutes
           n == Len(FF)
<1>1. PICK T : FF \in Seq(T)
  BY ResourceRoutes
<1> DEFINE U == T \cup {Before[h] : h \in 1..8} \cup {After[h] : h \in 1..2}
<1>2. n \in Nat /\ FF \in Seq(U)
  <2>1. T \subseteq U
    OBVIOUS
  <2> HIDE DEF U
  <2> QED
    BY <1>1, <2>1, SeqMonotonic, LenProperties
<1>3. Before \in Seq(U) /\ Len(Before) = 8 /\ After \in Seq(U) /\ Len(After) = 2
  <2>1. Len(Before) = 8 /\ Before \in [1..8 -> U]
    <3>1. Len(Before) = 8 /\ DOMAIN Before = 1..8
      BY DEF Before
    <3>2. Before = [h \in 1..8 |-> Before[h]]
      BY DEF Before
    <3> QED
      BY <3>1, <3>2
  <2>2. Len(After) = 2 /\ After \in [1..2 -> U]
    <3>1. Len(After) = 2 /\ DOMAIN After = 1..2
      BY DEF After
    <3>2. After = [h \in 1..2 |-> After[h]]
      BY DEF After
    <3> QED
      BY <3>1, <3>2
  <2> HIDE DEF U
  <2>3. 8 \in Nat /\ 2 \in Nat /\ Seq(U) = UNION {[1..m -> U] : m \in Nat}
    BY SeqDef
  <2>4. [1..8 -> U] \subseteq Seq(U) /\ [1..2 -> U] \subseteq Seq(U)
    BY Zenon, <2>3
  <2> QED
    BY <2>1, <2>2, <2>4
<1>4. MM = (Before \o FF) \o After
  BY DEF Surface!MountedRoutes, Before, After
<1> HIDE DEF U, FF
<1> DEFINE both == Before \o FF
<1>5. /\ both \in Seq(U) /\ Len(both) = 8 + n
      /\ \A i \in 1..8 + n : both[i] = IF i <= 8 THEN Before[i] ELSE FF[i - 8]
  <2>1. /\ Before \o FF \in Seq(U) /\ Len(Before \o FF) = Len(Before) + Len(FF)
        /\ \A i \in 1..Len(Before) + Len(FF) :
               (Before \o FF)[i] = IF i <= Len(Before) THEN Before[i] ELSE FF[i - Len(Before)]
    BY <1>2, <1>3, ConcatProperties
  <2> QED
    BY <1>3, <2>1, Zenon
<1> HIDE DEF both
<1>6. /\ MM \in Seq(U) /\ Len(MM) = (8 + n) + 2
      /\ \A i \in 1..(8 + n) + 2 : MM[i] = IF i <= 8 + n THEN both[i] ELSE After[i - (8 + n)]
  <2>1. /\ both \o After \in Seq(U) /\ Len(both \o After) = Len(both) + Len(After)
        /\ \A i \in 1..Len(both) + Len(After) :
               (both \o After)[i] = IF i <= Len(both) THEN both[i] ELSE After[i - Len(both)]
    BY <1>3, <1>5, ConcatProperties
  <2> QED
    BY <1>3, <1>4, <1>5, <2>1, Zenon DEF both
<1>7. DOMAIN MM = 1..n + 10
  BY <1>2, <1>6, LenProperties
<1>8. ASSUME NEW h \in 1..8 PROVE MM[h] = Before[h]
  <2>1. h \in 1..8 + n /\ h \in 1..(8 + n) + 2 /\ h <= 8 + n /\ h <= 8
    BY <1>2
  <2> QED
    BY <1>5, <1>6, <2>1, Zenon
<1>9. ASSUME NEW p \in 1..n PROVE MM[p + 8] = FF[p]
  <2>1. /\ p + 8 \in 1..8 + n /\ p + 8 \in 1..(8 + n) + 2 /\ p + 8 <= 8 + n
        /\ ~(p + 8 <= 8) /\ (p + 8) - 8 = p
    BY <1>2
  <2> QED
    BY <1>5, <1>6, <2>1
<1>10. MM[n + 9] = After[1] /\ MM[n + 10] = After[2]
  <2>1. /\ n + 9 \in 1..(8 + n) + 2 /\ ~(n + 9 <= 8 + n) /\ (n + 9) - (8 + n) = 1
        /\ n + 10 \in 1..(8 + n) + 2 /\ ~(n + 10 <= 8 + n) /\ (n + 10) - (8 + n) = 2
    BY <1>2
  <2> QED
    BY <1>6, <2>1
<1> QED
  BY <1>2, <1>7, <1>8, <1>9, <1>10 DEF FF

\* A request goes to a route that matches it in the first layer that has one.
LEMMA ReachedFirst ==
    ASSUME NEW x, NEW n \in Nat, DOMAIN mounted = 1..n,
           NEW i \in 1..n, Surface!Matching(x, i) # {}
    PROVE  \E h \in 1..i : \E y \in Surface!Matching(x, h) :
               /\ Surface!Reached(x) = y.handler
               /\ \A q \in 1..h - 1 : Surface!Matching(x, q) = {}
<1> DEFINE hits == {h \in DOMAIN mounted : Surface!Matching(x, h) # {}}
           h == Surface!Min(hits)
<1>1. \E m \in hits : \A k \in hits : m <= k
  <2>1. hits \in SUBSET Nat /\ hits # {}
    OBVIOUS
  <2> HIDE DEF hits
  <2> QED
    BY <2>1, FirstNumber
<1>2. h \in hits /\ \A k \in hits : h <= k
  <2> HIDE DEF hits
  <2> QED
    BY <1>1, Zenon DEF Surface!Min
<1> HIDE DEF h
<1>3. h \in 1..i /\ \A q \in 1..h - 1 : q \notin hits /\ q \in DOMAIN mounted
  BY <1>2
<1> DEFINE y == CHOOSE z \in Surface!Matching(x, h) : TRUE
<1>4. y \in Surface!Matching(x, h)
  BY <1>2
<1>5. Surface!Reached(x) = y.handler
  BY <1>2, Zenon DEF Surface!Reached, h
<1> HIDE DEF y
<1> QED
  BY <1>3, <1>4, <1>5

(***************************************************************************)
(* The routes that are no resource's.                                      *)
(***************************************************************************)
KeyRoutes ==
    {Surface!Route("POST", <<"admin", "api-keys">>, <<"keys", "create">>),
     Surface!Route("GET", <<"admin", "api-keys">>, <<"keys", "list">>),
     Surface!Route("DELETE", <<"admin", "api-keys", ":">>, <<"keys", "revoke">>)}
HookRoutes ==
    {Surface!Route("POST", <<"admin", "webhooks">>, <<"webhooks", "create">>),
     Surface!Route("GET", <<"admin", "webhooks">>, <<"webhooks", "list">>),
     Surface!Route("DELETE", <<"admin", "webhooks", ":">>, <<"webhooks", "delete">>),
     Surface!Route("GET", <<"admin", "webhooks", ":", "deliveries">>, <<"webhooks", "deliveries">>)}
UserRoutes ==
    {Surface!Route("POST", <<"auth", "register">>, <<"auth", "register">>),
     Surface!Route("POST", <<"auth", "login">>, <<"auth", "login">>),
     Surface!Route("POST", <<"auth", "refresh">>, <<"auth", "refresh">>),
     Surface!Route("POST", <<"auth", "logout">>, <<"auth", "logout">>),
     Surface!Route("GET", <<"auth", "me">>, <<"auth", "me">>)}
OwnRoutes ==
    {Surface!Page("health"), Surface!Page("ready"), Surface!Page("openapi.json")}
    \cup KeyRoutes \cup UserRoutes \cup Surface!OAuth(":") \cup Surface!MountUploadRoutes
    \cup HookRoutes
ServeRoute == Surface!Route("GET", <<"uploads", ":">>, <<"serve">>)

LEMMA AdminPath ==
    ASSUME NEW a, NEW b, NEW c, NEW d
    PROVE  /\ <<a, b>> \o <<c>> = <<a, b, c>> /\ <<a, b>> \o <<c, d>> = <<a, b, c, d>>
           /\ <<a, b>> \o <<>> = <<a, b>>
<1> DEFINE S == {a, b, c, d}
<1>1. /\ <<>> \in Seq(S) /\ <<c>> \in Seq(S) /\ <<a, b>> \in Seq(S) /\ <<c, d>> \in Seq(S)
      /\ <<a, b, c>> \in Seq(S) /\ <<a, b, c, d>> \in Seq(S)
  OBVIOUS
<1>2. Len(<<a, b>>) = 2 /\ Len(<<c>>) = 1 /\ Len(<<c, d>>) = 2
  OBVIOUS
<1> HIDE DEF S
<1>3. <<a, b>> \o <<>> = <<a, b>>
  BY <1>1, ConcatEmptySeq
<1>4. <<a, b>> \o <<c>> = <<a, b, c>>
  <2> DEFINE s == <<a, b>> \o <<c>>
  <2>1. s \in Seq(S) /\ Len(s) = 3 /\ s[1] = a /\ s[2] = b /\ s[3] = c
    BY <1>1, <1>2, ConcatProperties
  <2> HIDE DEF s
  <2>2. s = <<a, b, c>>
    BY <2>1
  <2> QED
    BY <2>2 DEF s
<1>5. <<a, b>> \o <<c, d>> = <<a, b, c, d>>
  <2> DEFINE s == <<a, b>> \o <<c, d>>
  <2>1. s \in Seq(S) /\ Len(s) = 4 /\ s[1] = a /\ s[2] = b /\ s[3] = c /\ s[4] = d
    BY <1>1, <1>2, ConcatProperties
  <2> HIDE DEF s
  <2>2. s = <<a, b, c, d>>
    BY <2>1
  <2> QED
    BY <2>2 DEF s
<1> QED
  BY <1>3, <1>4, <1>5

LEMMA AdminRoutes ==
    /\ Surface!MountApiKeyRoutes = KeyRoutes /\ Surface!MountWebhookAdminRoutes = HookRoutes
    /\ Surface!MountJwtAuthRoutes = UserRoutes
<1>1. /\ <<"admin", "api-keys">> \o <<>> = <<"admin", "api-keys">>
      /\ <<"admin", "api-keys">> \o <<":">> = <<"admin", "api-keys", ":">>
      /\ <<"admin", "webhooks">> \o <<>> = <<"admin", "webhooks">>
      /\ <<"admin", "webhooks">> \o <<":">> = <<"admin", "webhooks", ":">>
      /\ <<"admin", "webhooks">> \o <<":", "deliveries">>
             = <<"admin", "webhooks", ":", "deliveries">>
  BY ZenonT(40), AdminPath
<1>2. Surface!MountApiKeyRoutes = KeyRoutes
  BY <1>1 DEF Surface!MountApiKeyRoutes, Surface!Key, KeyRoutes
<1>3. Surface!MountWebhookAdminRoutes = HookRoutes
  BY <1>1 DEF Surface!MountWebhookAdminRoutes, Surface!Hook, HookRoutes
<1>4. Surface!MountJwtAuthRoutes = UserRoutes
  BY DEF Surface!MountJwtAuthRoutes, Surface!User, Surface!Route, UserRoutes
<1> QED
  BY <1>2, <1>3, <1>4

\* The first word of such a route is no resource's name.
LEMMA OwnFirst ==
    ASSUME NEW y \in OwnRoutes
    PROVE  /\ Len(y.path) \in Nat /\ Len(y.path) > 0 /\ DOMAIN y.path = 1..Len(y.path)
           /\ y.path[1] \in Surface!NotPlural \ {":"}
  BY DEF OwnRoutes, KeyRoutes, HookRoutes, UserRoutes, Surface!OAuth, Surface!MountUploadRoutes,
         Surface!Upload, Surface!Page, Surface!Route, Surface!NotPlural

\* Two of them that take the same request are one.
LEMMA OwnApart ==
    ASSUME NEW x \in OwnRoutes \cup Surface!OAuth("google"), NEW y \in OwnRoutes,
           y.method = x.method, Surface!Matches(y.path, x.path)
    PROVE  y.handler = x.handler
<1>1. /\ Len(y.path) = Len(x.path)
      /\ \A i \in DOMAIN x.path : y.path[i] = ":" \/ y.path[i] = x.path[i]
  BY DEF Surface!Matches
<1>2. CASE y \in {Surface!Page("health"), Surface!Page("ready"), Surface!Page("openapi.json")}
  BY <1>1, <1>2
     DEF OwnRoutes, KeyRoutes, HookRoutes, UserRoutes, Surface!OAuth, Surface!MountUploadRoutes,
         Surface!Upload, Surface!Page, Surface!Route
<1>3. CASE y \in KeyRoutes
  BY <1>1, <1>3, SMTT(30)
     DEF OwnRoutes, KeyRoutes, HookRoutes, UserRoutes, Surface!OAuth, Surface!MountUploadRoutes,
         Surface!Upload, Surface!Page, Surface!Route
<1>4. CASE y \in HookRoutes
  BY <1>1, <1>4, SMTT(30)
     DEF OwnRoutes, KeyRoutes, HookRoutes, UserRoutes, Surface!OAuth, Surface!MountUploadRoutes,
         Surface!Upload, Surface!Page, Surface!Route
<1>5. CASE y \in UserRoutes
  BY <1>1, <1>5, SMTT(30)
     DEF OwnRoutes, KeyRoutes, HookRoutes, UserRoutes, Surface!OAuth, Surface!MountUploadRoutes,
         Surface!Upload, Surface!Page, Surface!Route
<1>6. CASE y \in Surface!OAuth(":")
  BY <1>1, <1>6
     DEF OwnRoutes, KeyRoutes, HookRoutes, UserRoutes, Surface!OAuth, Surface!MountUploadRoutes,
         Surface!Upload, Surface!Page, Surface!Route
<1>7. CASE y \in Surface!MountUploadRoutes
  BY <1>1, <1>7, SMTT(30)
     DEF OwnRoutes, KeyRoutes, HookRoutes, UserRoutes, Surface!OAuth, Surface!MountUploadRoutes,
         Surface!Upload, Surface!Page, Surface!Route
<1> QED
  BY <1>2, <1>3, <1>4, <1>5, <1>6, <1>7 DEF OwnRoutes

(***************************************************************************)
(* What is mounted, and where.                                             *)
(***************************************************************************)
MountedNow ==
    Surface!ApiSurfaceAssumption /\ SurfaceTypes /\ mounted = Surface!MountedRoutes

LastOfResources == Len(Surface!GenerateRoutes) + 8

IsOfResource(y, r) == IsFlat(y, r) \/ IsCustom(y, r) \/ IsNested(y, r)

LEMMA MountedDomain ==
    ASSUME MountedNow
    PROVE  /\ LastOfResources \in Nat /\ LastOfResources >= 8
           /\ DOMAIN mounted = 1..LastOfResources + 2
<1> DEFINE FF == Surface!GenerateRoutes
<1>1. Len(FF) \in Nat /\ DOMAIN mounted = 1..Len(FF) + 10
  BY MountedLayers DEF MountedNow
<1> QED
  BY <1>1 DEF LastOfResources

LEMMA MountedAt ==
    ASSUME MountedNow, NEW h \in DOMAIN mounted, NEW y \in mounted[h]
    PROVE  \/ y \in OwnRoutes \/ y = ServeRoute \/ y = Surface!Inbound(":")
           \/ y = Surface!Page("docs") /\ h = LastOfResources + 2
           \/ /\ h \in 9..LastOfResources
              /\ \E r \in Surface!Names :
                     \/ IsCustom(y, r)
                     \/ y = Surface!Flat(r, "list") /\ "list" \in endpoints[r]
                     \/ /\ IsFlat(y, r) \/ IsNested(y, r)
                        /\ \A k \in 1..Len(Surface!CustomEndpoints(r)) : \E q \in 1..h - 1 :
                               Surface!Custom(r, custom[r][k]) \in mounted[q]
<1> DEFINE FF == Surface!GenerateRoutes
           n == Len(FF)
<1>1. /\ n \in Nat /\ DOMAIN mounted = 1..n + 10
      /\ \A i \in 1..8 : mounted[i] = Before[i]
      /\ \A p \in 1..n : mounted[p + 8] = FF[p]
      /\ mounted[n + 9] = After[1] /\ mounted[n + 10] = After[2]
  BY MountedLayers DEF MountedNow
<1>2. LastOfResources = n + 8
  BY DEF LastOfResources
<1>3. CASE h \in 1..8
  <2>1. y \in Before[h]
    BY <1>1, <1>3
  <2>2. /\ Before[1] \subseteq OwnRoutes /\ Before[2] \subseteq OwnRoutes
        /\ Before[3] \subseteq OwnRoutes /\ Before[4] \subseteq OwnRoutes
        /\ Before[5] \subseteq OwnRoutes /\ Before[6] \subseteq {ServeRoute}
        /\ Before[7] \subseteq OwnRoutes /\ Before[8] \subseteq {Surface!Inbound(":")}
    BY AdminRoutes
       DEF Before, OwnRoutes, Surface!When, Surface!MountLocalUploadRoute, ServeRoute
  <2>3. h = 1 \/ h = 2 \/ h = 3 \/ h = 4 \/ h = 5 \/ h = 6 \/ h = 7 \/ h = 8
    BY <1>3
  <2>4. y \in OwnRoutes \/ y \in {ServeRoute} \/ y \in {Surface!Inbound(":")}
    BY Zenon, <2>1, <2>2, <2>3
  <2> QED
    BY <2>4
<1>4. CASE h \in 9..n + 8
  <2> DEFINE p == h - 8
  <2>1. p \in 1..n /\ p + 8 = h
    BY <1>1, <1>4
  <2>2. mounted[h] = FF[p]
    BY <1>1, <2>1
  <2>3. PICK r \in Surface!Names :
                  \/ IsCustom(y, r)
                  \/ y = Surface!Flat(r, "list") /\ "list" \in endpoints[r]
                  \/ /\ IsFlat(y, r) \/ IsNested(y, r)
                     /\ \A k \in 1..Len(Surface!CustomEndpoints(r)) : \E q \in 1..p - 1 :
                            Surface!Custom(r, custom[r][k]) \in FF[q]
    BY <2>1, <2>2, ResourceRoutes DEF MountedNow
  <2>4. ASSUME NEW z, NEW q \in 1..p - 1, z \in FF[q]
        PROVE  \E i \in 1..h - 1 : z \in mounted[i]
    <3>1. q + 8 \in 1..h - 1 /\ q \in 1..n
      BY <1>1, <1>4
    <3>2. mounted[q + 8] = FF[q]
      BY <1>1, <3>1
    <3> QED
      BY <2>4, <3>1, <3>2
  <2> HIDE DEF p, FF
  <2>5. ASSUME \A k \in 1..Len(Surface!CustomEndpoints(r)) : \E q \in 1..p - 1 :
                   Surface!Custom(r, custom[r][k]) \in FF[q]
        PROVE  \A k \in 1..Len(Surface!CustomEndpoints(r)) : \E q \in 1..h - 1 :
                   Surface!Custom(r, custom[r][k]) \in mounted[q]
    BY Zenon, <2>4, <2>5
  <2>6. h \in 9..LastOfResources
    BY <1>2, <1>4
  <2> QED
    BY Zenon, <2>3, <2>5, <2>6
<1>5. CASE h = n + 9
  <2>1. y \in After[1]
    BY <1>1, <1>5
  <2>2. y \in Surface!MountAuthFlows
    BY <2>1 DEF After, Surface!When
  <2>3. y \in Surface!MountJwtAuthRoutes
    BY <2>2 DEF Surface!MountAuthFlows, Surface!MountJwtAuthRoutes, Surface!When
  <2> QED
    BY <2>3, AdminRoutes DEF OwnRoutes
<1>6. CASE h = n + 10
  <2>1. y \in After[2]
    BY <1>1, <1>6
  <2>2. y = Surface!Page("openapi.json") \/ y = Surface!Page("docs")
    BY <2>1 DEF After, Surface!When
  <2>3. h = LastOfResources + 2
    BY <1>1, <1>2, <1>6
  <2> QED
    BY <2>2, <2>3 DEF OwnRoutes
<1> HIDE DEF n
<1>7. h \in 1..8 \/ h \in 9..n + 8 \/ h = n + 9 \/ h = n + 10
  BY <1>1
<1> QED
  BY Zenon, <1>3, <1>4, <1>5, <1>6, <1>7

\* A resource's routes are all mounted, and so are the others that are on.
LEMMA MountedOfResource ==
    ASSUME MountedNow, NEW r \in Surface!Names, NEW y, IsOfResource(y, r)
    PROVE  \E h \in 9..LastOfResources : y \in mounted[h]
<1> DEFINE FF == Surface!GenerateRoutes
           n == Len(FF)
<1>1. n \in Nat /\ \A p \in 1..n : mounted[p + 8] = FF[p]
  BY MountedLayers DEF MountedNow
<1>2. PICK p \in 1..n : y \in FF[p]
  BY ResourceRoutes DEF MountedNow, IsOfResource
<1>3. p + 8 \in 9..LastOfResources
  BY <1>1 DEF LastOfResources
<1> QED
  BY <1>1, <1>2, <1>3

LEMMA MountedOwn ==
    ASSUME MountedNow
    PROVE  LET There(y) == \E h \in 1..8 : y \in mounted[h] IN
           /\ There(Surface!Page("health"))
           /\ Surface!KeysOn => \A y \in KeyRoutes : There(y)
           /\ Surface!On({"jwt"}) => \A y \in UserRoutes : There(y)
           /\ Surface!On({"jwt"}) /\ Surface!On({"oauth"}) => \A y \in Surface!OAuth(":") : There(y)
           /\ Surface!FilesOn => There(Surface!Upload)
           /\ Surface!On({"outbound"}) => \A y \in HookRoutes : There(y)
           /\ Surface!On({"inbound"}) => Surface!Inbound(":") \in mounted[8]
           /\ ~Surface!On({"noDocs"}) =>
                  Surface!Page("openapi.json") \in mounted[LastOfResources + 2]
<1> DEFINE n == Len(Surface!GenerateRoutes)
<1>1. /\ n \in Nat /\ \A i \in 1..8 : mounted[i] = Before[i]
      /\ mounted[n + 10] = After[2]
  BY MountedLayers DEF MountedNow
<1>2. /\ mounted[1] = Before[1] /\ mounted[2] = Before[2] /\ mounted[3] = Before[3]
      /\ mounted[4] = Before[4] /\ mounted[5] = Before[5] /\ mounted[7] = Before[7]
      /\ mounted[8] = Before[8]
  BY <1>1
<1>3. Surface!Page("health") \in mounted[1]
  BY <1>2 DEF Before
<1>4. Surface!KeysOn => mounted[2] = KeyRoutes
  BY <1>2, AdminRoutes DEF Before, Surface!When
<1>5. Surface!On({"jwt"}) => mounted[3] = UserRoutes
  BY <1>2, AdminRoutes DEF Before, Surface!When
<1>6. Surface!On({"jwt"}) /\ Surface!On({"oauth"}) => mounted[4] = Surface!OAuth(":")
  BY <1>2 DEF Before, Surface!When
<1>7. Surface!FilesOn => Surface!Upload \in mounted[5]
  BY <1>2 DEF Before, Surface!When, Surface!MountUploadRoutes
<1>8. Surface!On({"outbound"}) => mounted[7] = HookRoutes
  BY <1>2, AdminRoutes DEF Before, Surface!When
<1>9. Surface!On({"inbound"}) => Surface!Inbound(":") \in mounted[8]
  BY <1>2 DEF Before, Surface!When
<1>10. LastOfResources + 2 = n + 10
  BY <1>1 DEF LastOfResources
<1>11. ~Surface!On({"noDocs"}) => Surface!Page("openapi.json") \in mounted[LastOfResources + 2]
  BY <1>1, <1>10 DEF After, Surface!When
<1>12. \A i \in {1, 2, 3, 4, 5, 7} : i \in 1..8
  OBVIOUS
<1> QED
  BY Zenon, <1>3, <1>4, <1>5, <1>6, <1>7, <1>8, <1>9, <1>11, <1>12

(***************************************************************************)
(* Which handler a request reaches.                                        *)
(***************************************************************************)
Served(x) == Surface!Reached(x) = x.handler \/ Surface!Overridden(x)

LEMMA OfResourceShape ==
    ASSUME MountedNow, NEW r \in Surface!Names, NEW y, IsOfResource(y, r)
    PROVE  /\ Len(y.path) \in Nat /\ Len(y.path) > 0 /\ DOMAIN y.path = 1..Len(y.path)
           /\ y.path[1] = Plural[r] /\ Plural[r] # ":" /\ Plural[r] \notin Surface!NotPlural
           /\ IsFlat(y, r) => /\ Len(y.path) \in 1..2 /\ (Len(y.path) = 2 => y.path[2] = ":")
                              /\ y.handler[1] = "crud"
           /\ IsNested(y, r) => /\ Len(y.path) \in 3..4 /\ y.path[2] = ":"
                                /\ y.handler[1] = "nested"
           /\ IsCustom(y, r) => y.handler[1] = "custom"
<1> DEFINE w == Plural[r]
<1>1. w # ":" /\ w \notin Surface!NotPlural
  BY DEF MountedNow, Surface!ApiSurfaceAssumption, Surface!NotPlural
<1> DEFINE Path == Len(y.path) \in Nat /\ Len(y.path) > 0 /\ DOMAIN y.path = 1..Len(y.path)
                   /\ y.path[1] = w
<1>2. ASSUME IsFlat(y, r)
      PROVE  /\ Path /\ Len(y.path) \in 1..2 /\ (Len(y.path) = 2 => y.path[2] = ":")
             /\ y.handler[1] = "crud"
  <2>1. PICK a \in endpoints[r] : y = Surface!Flat(r, a)
    BY <1>2 DEF IsFlat
  <2>2. y.path = <<w, ":">> \/ y.path = <<w>>
    BY <2>1 DEF Surface!Flat, Surface!Route
  <2>3. y.handler[1] = "crud"
    BY <2>1 DEF Surface!Flat, Surface!Route
  <2>4. CASE y.path = <<w, ":">>
    <3>1. Len(y.path) = 2 /\ DOMAIN y.path = 1..2 /\ y.path[1] = w /\ y.path[2] = ":"
      BY <2>4
    <3> QED
      BY <2>3, <3>1
  <2>5. CASE y.path = <<w>>
    <3>1. Len(y.path) = 1 /\ DOMAIN y.path = 1..1 /\ y.path[1] = w
      BY <2>5
    <3> QED
      BY <2>3, <3>1
  <2> QED
    BY <2>2, <2>4, <2>5
<1>3. ASSUME IsNested(y, r)
      PROVE  /\ Path /\ Len(y.path) \in 3..4 /\ y.path[2] = ":"
             /\ y.handler[1] = "nested"
  <2>1. \E c \in Surface!Names : \E a : y = Surface!Nested(r, c, a)
    BY <1>3 DEF IsNested
  <2>2. \E c : y.path = <<w, ":", c, ":">> \/ y.path = <<w, ":", c>>
    BY <2>1 DEF Surface!Nested, Surface!Route
  <2>3. y.handler[1] = "nested"
    BY <2>1 DEF Surface!Nested, Surface!Route
  <2>4. CASE \E c : y.path = <<w, ":", c, ":">>
    <3>1. Len(y.path) = 4 /\ DOMAIN y.path = 1..4 /\ y.path[1] = w /\ y.path[2] = ":"
      BY <2>4
    <3> QED
      BY <2>3, <3>1
  <2>5. CASE \E c : y.path = <<w, ":", c>>
    <3>1. Len(y.path) = 3 /\ DOMAIN y.path = 1..3 /\ y.path[1] = w /\ y.path[2] = ":"
      BY <2>5
    <3> QED
      BY <2>3, <3>1
  <2> QED
    BY <2>2, <2>4, <2>5
<1>4. ASSUME IsCustom(y, r) PROVE Path /\ y.handler[1] = "custom"
  <2>1. PICK k \in 1..Len(Surface!CustomEndpoints(r)) : y = Surface!Custom(r, custom[r][k])
    BY <1>4 DEF IsCustom
  <2>2. y.handler[1] = "custom"
    BY <2>1 DEF Surface!Custom, Surface!Route
  <2>4. custom[r] \in Seq(CustomEndpoint)
    BY DEF MountedNow, SurfaceTypes
  <2>5. k \in 1..Len(custom[r])
    BY <2>1 DEF Surface!CustomEndpoints
  <2>6. custom[r][k].path \in Seq(STRING)
    <3>1. custom[r][k] \in CustomEndpoint
      BY <2>4, <2>5, ElementOfSeq
    <3> QED
      BY <3>1 DEF CustomEndpoint
  <2> DEFINE p == custom[r][k].path
             S == STRING \cup {w}
  <2>7. y.path = <<w>> \o p
    BY <2>1 DEF Surface!Custom, Surface!Route
  <2>8. p \in Seq(S) /\ <<w>> \in Seq(S) /\ Len(<<w>>) = 1 /\ <<w>>[1] = w
    <3>1. STRING \subseteq S
      OBVIOUS
    <3> HIDE DEF p
    <3>2. p \in Seq(S)
      BY <2>6, <3>1, SeqMonotonic DEF p
    <3> QED
      BY <3>2
  <2> HIDE DEF p, S
  <2>9. y.path \in Seq(S) /\ Len(y.path) = 1 + Len(p) /\ Len(p) \in Nat /\ y.path[1] = w
    BY <2>7, <2>8, ConcatProperties, LenProperties
  <2>10. DOMAIN y.path = 1..Len(y.path)
    BY <2>9, LenProperties
  <2> QED
    BY <2>2, <2>9, <2>10
<1> QED
  BY <1>1, <1>2, <1>3, <1>4 DEF IsOfResource

\* The routes of resources of one plural that take the same request are alike.
LEMMA OfResourceApart ==
    ASSUME MountedNow, NEW r \in Surface!Names, NEW s \in Surface!Names, Plural[s] = Plural[r],
           NEW x, NEW y, IsFlat(x, r) \/ IsNested(x, r), IsFlat(y, s) \/ IsNested(y, s),
           y.method = x.method, Surface!Matches(y.path, x.path)
    PROVE  Surface!OfNamesake(x.handler, y.handler)
<1>1. /\ Len(y.path) = Len(x.path)
      /\ \A i \in DOMAIN x.path : y.path[i] = ":" \/ y.path[i] = x.path[i]
  BY DEF Surface!Matches
<1>2. \A z, q : IsFlat(z, q) \/ IsNested(z, q) => IsOfResource(z, q)
  BY DEF IsOfResource
<1>3. (IsFlat(x, r) /\ IsFlat(y, s)) \/ (IsNested(x, r) /\ IsNested(y, s))
  <2>1. /\ IsFlat(x, r) => Len(x.path) \in 1..2
        /\ IsNested(x, r) => Len(x.path) \in 3..4
    BY <1>2, OfResourceShape, Zenon
  <2>2. /\ IsFlat(y, s) => Len(y.path) \in 1..2
        /\ IsNested(y, s) => Len(y.path) \in 3..4
    BY <1>2, OfResourceShape, Zenon
  <2>3. Len(y.path) = Len(x.path)
    BY <1>1
  <2>4. \A m : ~(m \in 1..2 /\ m \in 3..4)
    OBVIOUS
  <2> QED
    BY Zenon, <2>1, <2>2, <2>3, <2>4
<1>4. \A n \in Surface!Names : endpoints[n] \subseteq Surface!CrudActions /\ Plural[n] # ":"
  BY DEF MountedNow, SurfaceTypes, Surface!ApiSurfaceAssumption, Surface!NotPlural
<1>5. \A n, m \in Surface!Names : Plural[n] = Plural[m] => n \in {m} \cup Surface!Namesakes(m)
  BY DEF Surface!Namesakes
<1>6. CASE IsFlat(x, r) /\ IsFlat(y, s)
  <2>1. PICK a \in endpoints[r] : x = Surface!Flat(r, a)
    BY <1>6 DEF IsFlat
  <2>2. PICK b \in endpoints[s] : y = Surface!Flat(s, b)
    BY <1>6 DEF IsFlat
  <2>3. a \in Surface!CrudActions /\ b \in Surface!CrudActions
    BY <1>4
  <2>4. Surface!OfItem(a) <=> Surface!OfItem(b)
    BY <1>1, <2>1, <2>2 DEF Surface!Flat, Surface!Route
  <2>5. Surface!Verb(a) = Surface!Verb(b)
    BY <2>1, <2>2 DEF Surface!Flat, Surface!Route
  <2>6. a = b
    BY <2>3, <2>4, <2>5 DEF Surface!OfItem, Surface!Verb, Surface!CrudActions
  <2>7. x.handler = <<"crud", r, a>> /\ y.handler = <<"crud", s, a>>
    BY <2>1, <2>2, <2>6 DEF Surface!Flat, Surface!Route
  <2>8. x.handler[1] = "crud" /\ x.handler[2] = r /\ x.handler[3] = a
    BY <2>7
  <2>9. s \in {r} \cup Surface!Namesakes(r)
    BY <1>5
  <2> QED
    BY Zenon, <2>7, <2>8, <2>9 DEF Surface!OfNamesake
<1>7. CASE IsNested(x, r) /\ IsNested(y, s)
  <2>1. PICK c \in Surface!Names, a \in {"list", "create", "read"} :
            x = Surface!Nested(r, c, a)
    BY <1>7 DEF IsNested
  <2>2. PICK d \in Surface!Names, b \in {"list", "create", "read"} :
            y = Surface!Nested(s, d, b)
    BY <1>7 DEF IsNested
  <2> DEFINE w == Plural[r]
             v == Plural[c]
             u == Plural[d]
  <2>3. x.path = IF Surface!OfItem(a) THEN <<w, ":", v, ":">> ELSE <<w, ":", v>>
    BY <2>1 DEF Surface!Nested, Surface!Route
  <2>4. y.path = IF Surface!OfItem(b) THEN <<w, ":", u, ":">> ELSE <<w, ":", u>>
    BY <2>2 DEF Surface!Nested, Surface!Route
  <2>5. u # ":"
    BY <1>4
  <2> HIDE DEF u, v, w
  <2>6. Surface!OfItem(a) <=> Surface!OfItem(b)
    BY <1>1, <2>3, <2>4
  <2>7. v = u
    <3>1. 3 \in DOMAIN x.path /\ x.path[3] = v /\ y.path[3] = u
      BY <2>3, <2>4
    <3> QED
      BY <1>1, <2>5, <3>1
  <2>8. Surface!Verb(a) = Surface!Verb(b)
    BY <2>1, <2>2 DEF Surface!Nested, Surface!Route
  <2>9. a = b
    BY <2>1, <2>2, <2>6, <2>8 DEF Surface!OfItem, Surface!Verb, Surface!CrudActions
  <2>10. x.handler = <<"nested", r, c, a>> /\ y.handler = <<"nested", s, d, a>>
    BY <2>1, <2>2, <2>9 DEF Surface!Nested, Surface!Route
  <2>11. /\ x.handler[1] = "nested" /\ x.handler[2] = r /\ x.handler[3] = c
         /\ x.handler[4] = a
    BY <2>10
  <2>12. s \in {r} \cup Surface!Namesakes(r) /\ d \in {c} \cup Surface!Namesakes(c)
    BY <1>5, <2>7 DEF u, v
  <2> QED
    BY Zenon, <2>10, <2>11, <2>12 DEF Surface!OfNamesake
<1> QED
  BY <1>3, <1>6, <1>7

\* The first route that takes a request for a mounted one, and where it is.
LEMMA FirstRoute ==
    ASSUME MountedNow, NEW x, NEW i \in DOMAIN mounted, NEW z \in mounted[i],
           z.method = x.method, Surface!Matches(z.path, x.path)
    PROVE  \E h \in 1..i : \E y \in mounted[h] :
               /\ h \in DOMAIN mounted /\ Surface!Reached(x) = y.handler
               /\ y.method = x.method /\ Surface!Matches(y.path, x.path)
               /\ \A q \in 1..h - 1 : x \notin mounted[q]
<1>1. DOMAIN mounted = 1..LastOfResources + 2 /\ LastOfResources + 2 \in Nat
  BY MountedDomain
<1>2. z \in Surface!Matching(x, i)
  BY DEF Surface!Matching
<1>3. PICK h \in 1..i : \E y \in Surface!Matching(x, h) :
               /\ Surface!Reached(x) = y.handler
               /\ \A q \in 1..h - 1 : Surface!Matching(x, q) = {}
  BY <1>1, <1>2, ReachedFirst
<1>4. PICK y \in Surface!Matching(x, h) :
               /\ Surface!Reached(x) = y.handler
               /\ \A q \in 1..h - 1 : Surface!Matching(x, q) = {}
  BY <1>3
<1>5. y \in mounted[h] /\ y.method = x.method /\ Surface!Matches(y.path, x.path)
  BY DEF Surface!Matching
<1>6. Surface!Matches(x.path, x.path)
  BY DEF Surface!Matches
<1>7. \A q \in 1..h - 1 : x \notin mounted[q]
  BY <1>4, <1>6 DEF Surface!Matching
<1>8. h \in DOMAIN mounted
  BY <1>1
<1> QED
  BY <1>4, <1>5, <1>7, <1>8

\* A request for a route of a resource, an endpoint of its own included, is served.
LEMMA OfResourceServed ==
    ASSUME MountedNow, NEW r \in Surface!Names, NEW x, IsOfResource(x, r)
    PROVE  Served(x)
<1>1. PICK i \in 9..LastOfResources : x \in mounted[i]
  BY MountedOfResource
<1>2. /\ LastOfResources \in Nat /\ DOMAIN mounted = 1..LastOfResources + 2
      /\ i \in DOMAIN mounted
  BY <1>1, MountedDomain
<1>3. Surface!Matches(x.path, x.path)
  BY DEF Surface!Matches
<1>4. PICK h \in 1..i : \E y \in mounted[h] :
               /\ h \in DOMAIN mounted /\ Surface!Reached(x) = y.handler
               /\ y.method = x.method /\ Surface!Matches(y.path, x.path)
               /\ \A q \in 1..h - 1 : x \notin mounted[q]
  BY <1>1, <1>2, <1>3, FirstRoute
<1>5. PICK y \in mounted[h] :
               /\ h \in DOMAIN mounted /\ Surface!Reached(x) = y.handler
               /\ y.method = x.method /\ Surface!Matches(y.path, x.path)
               /\ \A q \in 1..h - 1 : x \notin mounted[q]
  BY <1>4
<1>6. /\ Len(x.path) \in Nat /\ 1 \in 1..Len(x.path) /\ DOMAIN x.path = 1..Len(x.path)
      /\ x.path[1] = Plural[r] /\ Plural[r] # ":" /\ Plural[r] \notin Surface!NotPlural
      /\ IsFlat(x, r) => Len(x.path) \in 1..2 /\ (Len(x.path) = 2 => x.path[2] = ":")
      /\ IsNested(x, r) => x.path[2] = ":"
      /\ IsCustom(x, r) => x.handler[1] = "custom"
  <2>1. Len(x.path) \in Nat /\ Len(x.path) > 0 => 1 \in 1..Len(x.path)
    OBVIOUS
  <2> QED
    BY <2>1, OfResourceShape
<1>7. Len(y.path) = Len(x.path) /\ \A j \in 1..Len(x.path) : y.path[j] \in {":", x.path[j]}
  BY <1>5, <1>6 DEF Surface!Matches
<1>8. y.path[1] \in {":", Plural[r]}
  BY <1>6, <1>7
<1>9. y \notin OwnRoutes
  BY <1>6, <1>8, OwnFirst
<1>10. CASE y = ServeRoute
  <2>1. Surface!Reached(x)[1] = "serve"
    BY <1>5, <1>10 DEF ServeRoute, Surface!Route
  <2> QED
    BY <2>1 DEF Served, Surface!Overridden
<1>11. CASE y = Surface!Inbound(":")
  <2>1. Surface!Reached(x) = <<"webhooks", "inbound">> /\ y.path = <<"webhooks", "inbound", ":">>
    BY <1>5, <1>11 DEF Surface!Inbound, Surface!Route
  <2>2. Len(x.path) = 3 /\ x.path[2] = "inbound"
    <3>1. Len(y.path) = 3 /\ y.path[2] = "inbound"
      BY <2>1
    <3>2. 2 \in 1..Len(x.path)
      BY <1>7, <3>1
    <3> QED
      BY <1>7, <3>1, <3>2
  <2>3. ~IsFlat(x, r) /\ ~IsNested(x, r)
    BY <1>6, <2>2
  <2>4. x.handler[1] = "custom"
    BY <1>6, <2>3 DEF IsOfResource
  <2> QED
    BY <2>1, <2>4 DEF Served, Surface!Overridden
<1>12. h <= LastOfResources
  BY <1>1, <1>2
<1>13. ASSUME h \in 9..LastOfResources, NEW s \in Surface!Names,
              \/ IsCustom(y, s)
              \/ y = Surface!Flat(s, "list") /\ "list" \in endpoints[s]
              \/ /\ IsFlat(y, s) \/ IsNested(y, s)
                 /\ \A k \in 1..Len(Surface!CustomEndpoints(s)) : \E q \in 1..h - 1 :
                        Surface!Custom(s, custom[s][k]) \in mounted[q]
       PROVE  Served(x)
  <2>1. IsCustom(y, s) \/ IsFlat(y, s) \/ IsNested(y, s)
    BY <1>13 DEF IsFlat
  <2>2. y.path[1] = Plural[s] /\ Plural[s] # ":"
    BY <2>1, OfResourceShape DEF IsOfResource
  <2>3. Plural[s] = Plural[r]
    BY <1>8, <2>2
  <2>4. CASE IsCustom(y, s)
    <3>1. y.handler[1] = "custom"
      BY <2>4, OfResourceShape DEF IsOfResource
    <3> QED
      BY <1>5, <3>1 DEF Served, Surface!Overridden
  <2>5. CASE IsCustom(x, r) /\ ~IsCustom(y, s)
    <3>1. x.handler[1] = "custom" /\ x.handler[2] = r
      <4>1. \E e : x.handler = <<"custom", r, e.method, e.path>>
        BY <2>5 DEF IsCustom, Surface!Custom, Surface!Route
      <4> QED
        BY <4>1
    <3>2. CASE s = r
      <4>1. ~\A k \in 1..Len(Surface!CustomEndpoints(r)) : \E q \in 1..h - 1 :
                 Surface!Custom(r, custom[r][k]) \in mounted[q]
        BY <1>5, <2>5 DEF IsCustom
      <4>2. y = Surface!Flat(r, "list")
        BY <1>13, <2>5, <3>2, <4>1
      <4>3. y.path = <<Plural[r]>> /\ y.handler = <<"crud", r, "list">>
        BY <4>2 DEF Surface!Flat, Surface!Route, Surface!OfItem
      <4>4. Len(x.path) = 1
        BY <1>7, <4>3
      <4>5. Surface!Reached(x) = <<"crud", x.handler[2], "list">>
        BY <1>5, <3>1, <4>3
      <4> QED
        BY <3>1, <4>4, <4>5 DEF Served, Surface!Overridden
    <3>3. CASE s # r
      <4>1. y.handler[1] \in {"crud", "nested"} /\ y.handler[2] = s
        <5>1. CASE IsFlat(y, s)
          <6>1. \E a : y.handler = <<"crud", s, a>>
            BY <5>1 DEF IsFlat, Surface!Flat, Surface!Route
          <6> QED
            BY <6>1
        <5>2. CASE IsNested(y, s)
          <6>1. \E c, a : y.handler = <<"nested", s, c, a>>
            BY <5>2 DEF IsNested, Surface!Nested, Surface!Route
          <6> QED
            BY <6>1
        <5> QED
          BY <2>1, <2>5, <5>1, <5>2
      <4>2. s \in Surface!Namesakes(r)
        BY <2>3, <3>3 DEF Surface!Namesakes
      <4> QED
        BY Zenon, <1>5, <3>1, <4>1, <4>2 DEF Served, Surface!Overridden
    <3> QED
      BY <3>2, <3>3
  <2>6. CASE ~IsCustom(x, r) /\ ~IsCustom(y, s)
    <3>1. Surface!OfNamesake(x.handler, y.handler)
      BY <1>5, <2>1, <2>3, <2>6, OfResourceApart DEF IsOfResource
    <3> QED
      BY <1>5, <3>1 DEF Served, Surface!Overridden
  <2> QED
    BY <2>4, <2>5, <2>6
<1>14. h # LastOfResources + 2
  BY <1>2, <1>12
<1> QED
  BY Zenon, <1>5, <1>9, <1>10, <1>11, <1>13, <1>14, MountedAt

\* A request for a route that is no resource's is served.
LEMMA OwnServed ==
    ASSUME MountedNow, NEW x \in OwnRoutes \cup Surface!OAuth("google"),
           NEW i \in DOMAIN mounted, NEW z \in mounted[i],
           z \in OwnRoutes, z.method = x.method, Surface!Matches(z.path, x.path)
    PROVE  Served(x)
<1>1. PICK h \in 1..i : \E y \in mounted[h] :
               /\ h \in DOMAIN mounted /\ Surface!Reached(x) = y.handler
               /\ y.method = x.method /\ Surface!Matches(y.path, x.path)
               /\ \A q \in 1..h - 1 : x \notin mounted[q]
  BY FirstRoute
<1>2. PICK y \in mounted[h] :
               /\ h \in DOMAIN mounted /\ Surface!Reached(x) = y.handler
               /\ y.method = x.method /\ Surface!Matches(y.path, x.path)
               /\ \A q \in 1..h - 1 : x \notin mounted[q]
  BY <1>1
<1>3. /\ Len(x.path) \in Nat /\ 1 \in 1..Len(x.path) /\ DOMAIN x.path = 1..Len(x.path)
      /\ x.path[1] \in Surface!NotPlural \ {":"} /\ x.path[1] \notin {"uploads", "webhooks", "docs"}
  BY DEF OwnRoutes, KeyRoutes, HookRoutes, UserRoutes, Surface!OAuth, Surface!MountUploadRoutes,
         Surface!Upload, Surface!Page, Surface!Route, Surface!NotPlural
<1>4. y.path[1] \in {":", x.path[1]}
  BY <1>2, <1>3 DEF Surface!Matches
<1>5. y # ServeRoute /\ y # Surface!Inbound(":") /\ y # Surface!Page("docs")
  BY <1>3, <1>4 DEF ServeRoute, Surface!Inbound, Surface!Page, Surface!Route
<1>6. ASSUME NEW r \in Surface!Names, IsOfResource(y, r) PROVE FALSE
  BY <1>3, <1>4, <1>6, OfResourceShape
<1>7. ASSUME NEW r \in Surface!Names,
             IsCustom(y, r) \/ (y = Surface!Flat(r, "list") /\ "list" \in endpoints[r])
             \/ IsFlat(y, r) \/ IsNested(y, r)
      PROVE  FALSE
  BY <1>6, <1>7 DEF IsOfResource, IsFlat
<1>8. y \in OwnRoutes
  BY <1>2, <1>5, <1>7, MountedAt
<1>9. y.handler = x.handler
  BY <1>2, <1>8, OwnApart
<1> QED
  BY <1>2, <1>9 DEF Served

LEMMA InboundServed ==
    ASSUME MountedNow, Surface!On({"inbound"}) PROVE Served(Surface!Inbound("stripe"))
<1> DEFINE x == Surface!Inbound("stripe")
           z == Surface!Inbound(":")
<1>1. /\ LastOfResources \in Nat /\ LastOfResources >= 8
      /\ DOMAIN mounted = 1..LastOfResources + 2
  BY MountedDomain
<1>2. 8 \in DOMAIN mounted /\ z \in mounted[8]
  BY <1>1, MountedOwn
<1>3. /\ x.method = "POST" /\ x.path = <<"webhooks", "inbound", "stripe">>
      /\ x.handler = <<"webhooks", "inbound">> /\ z.method = "POST"
      /\ z.path = <<"webhooks", "inbound", ":">> /\ z.handler = <<"webhooks", "inbound">>
  BY DEF Surface!Inbound, Surface!Route
<1> HIDE DEF x, z
<1>4. z.method = x.method /\ Surface!Matches(z.path, x.path)
  BY <1>3 DEF Surface!Matches
<1>5. PICK h \in 1..8 : \E y \in mounted[h] :
               /\ h \in DOMAIN mounted /\ Surface!Reached(x) = y.handler
               /\ y.method = x.method /\ Surface!Matches(y.path, x.path)
               /\ \A q \in 1..h - 1 : x \notin mounted[q]
  BY <1>2, <1>4, FirstRoute
<1>6. PICK y \in mounted[h] :
               /\ h \in DOMAIN mounted /\ Surface!Reached(x) = y.handler
               /\ y.method = x.method /\ Surface!Matches(y.path, x.path)
               /\ \A q \in 1..h - 1 : x \notin mounted[q]
  BY <1>5
<1>7. y.path[1] \in {":", "webhooks"}
  <2>1. 1 \in DOMAIN x.path /\ x.path[1] = "webhooks"
    BY <1>3
  <2> QED
    BY <1>6, <2>1 DEF Surface!Matches
<1>8. y \notin OwnRoutes
  BY <1>7, OwnFirst DEF Surface!NotPlural
<1>9. y # ServeRoute
  BY <1>7 DEF ServeRoute, Surface!Route
<1>10. h \notin 9..LastOfResources /\ h # LastOfResources + 2
  BY <1>1
<1>11. y = z
  BY Zenon, <1>6, <1>8, <1>9, <1>10, MountedAt DEF z
<1> QED
  BY <1>3, <1>6, <1>11 DEF Served, x

(***************************************************************************)
(* What the artefacts offer, beyond the gaps they are known for.           *)
(***************************************************************************)
Genuine(x) ==
    \/ \E r \in Surface!Names : IsOfResource(x, r)
    \/ Surface!On({"jwt"}) /\ x \in UserRoutes
    \/ Surface!On({"jwt"}) /\ Surface!On({"oauth"})
          /\ x \in Surface!OAuth(":") \cup Surface!OAuth("google")
    \/ Surface!KeysOn /\ x \in KeyRoutes
    \/ Surface!FilesOn /\ x = Surface!Upload
    \/ Surface!On({"outbound"}) /\ x \in HookRoutes
    \/ Surface!On({"inbound"}) /\ x = Surface!Inbound("stripe")
    \/ ~Surface!On({"noDocs"}) /\ x = Surface!Page("openapi.json")
    \/ x = Surface!Page("health")

LEMMA GenuineServed == ASSUME MountedNow, NEW x, Genuine(x) PROVE Served(x)
<1>1. /\ LastOfResources \in Nat /\ LastOfResources >= 8
      /\ DOMAIN mounted = 1..LastOfResources + 2
  BY MountedDomain
<1>2. (\A h \in 1..8 : h \in DOMAIN mounted) /\ LastOfResources + 2 \in DOMAIN mounted
  BY <1>1
<1>3. ASSUME x \in OwnRoutes, NEW i \in DOMAIN mounted, x \in mounted[i] PROVE Served(x)
  <2>1. Surface!Matches(x.path, x.path)
    BY DEF Surface!Matches
  <2> QED
    BY <1>3, <2>1, OwnServed
<1>4. CASE \E r \in Surface!Names : IsOfResource(x, r)
  BY <1>4, OfResourceServed
<1>5. CASE Surface!On({"jwt"}) /\ x \in UserRoutes
  <2>1. x \in OwnRoutes
    BY <1>5 DEF OwnRoutes
  <2> QED
    BY <1>2, <1>3, <1>5, <2>1, MountedOwn
<1>6. CASE Surface!On({"jwt"}) /\ Surface!On({"oauth"}) /\ x \in Surface!OAuth(":")
  <2>1. x \in OwnRoutes
    BY <1>6 DEF OwnRoutes
  <2> QED
    BY <1>2, <1>3, <1>6, <2>1, MountedOwn
<1>7. CASE Surface!On({"jwt"}) /\ Surface!On({"oauth"}) /\ x \in Surface!OAuth("google")
  <2>1. \E z \in Surface!OAuth(":") : z.method = x.method /\ Surface!Matches(z.path, x.path)
    <3>1. CASE x = Surface!Route("GET", <<"auth", "oauth", "google">>, <<"oauth", "start">>)
      <4> DEFINE z == Surface!Route("GET", <<"auth", "oauth", ":">>, <<"oauth", "start">>)
      <4>1. /\ z.method = x.method /\ z.path = <<"auth", "oauth", ":">>
            /\ x.path = <<"auth", "oauth", "google">>
        BY <3>1 DEF Surface!Route
      <4>2. z \in Surface!OAuth(":")
        BY DEF Surface!OAuth
      <4> HIDE DEF z
      <4>3. Surface!Matches(z.path, x.path)
        BY <4>1 DEF Surface!Matches
      <4> QED
        BY <4>1, <4>2, <4>3
    <3>2. CASE x = Surface!Route("GET", <<"auth", "oauth", "google", "callback">>,
                                 <<"oauth", "callback">>)
      <4> DEFINE z == Surface!Route("GET", <<"auth", "oauth", ":", "callback">>,
                                    <<"oauth", "callback">>)
      <4>1. /\ z.method = x.method /\ z.path = <<"auth", "oauth", ":", "callback">>
            /\ x.path = <<"auth", "oauth", "google", "callback">>
        BY <3>2 DEF Surface!Route
      <4>2. z \in Surface!OAuth(":")
        BY DEF Surface!OAuth
      <4> HIDE DEF z
      <4>3. Surface!Matches(z.path, x.path)
        BY <4>1 DEF Surface!Matches
      <4> QED
        BY <4>1, <4>2, <4>3
    <3> QED
      BY <1>7, <3>1, <3>2 DEF Surface!OAuth
  <2>2. PICK z \in Surface!OAuth(":") :
            z.method = x.method /\ Surface!Matches(z.path, x.path)
    BY <2>1
  <2>3. PICK h \in 1..8 : z \in mounted[h]
    BY <1>7, MountedOwn
  <2>4. z \in OwnRoutes
    BY DEF OwnRoutes
  <2> QED
    BY <1>2, <1>7, <2>2, <2>3, <2>4, OwnServed
<1>8. CASE Surface!KeysOn /\ x \in KeyRoutes
  <2>1. x \in OwnRoutes
    BY <1>8 DEF OwnRoutes
  <2> QED
    BY <1>2, <1>3, <1>8, <2>1, MountedOwn
<1>9. CASE Surface!FilesOn /\ x = Surface!Upload
  <2>1. x \in OwnRoutes
    BY <1>9 DEF OwnRoutes, Surface!MountUploadRoutes
  <2> QED
    BY <1>2, <1>3, <1>9, <2>1, MountedOwn
<1>10. CASE Surface!On({"outbound"}) /\ x \in HookRoutes
  <2>1. x \in OwnRoutes
    BY <1>10 DEF OwnRoutes
  <2> QED
    BY <1>2, <1>3, <1>10, <2>1, MountedOwn
<1>11. CASE Surface!On({"inbound"}) /\ x = Surface!Inbound("stripe")
  BY <1>11, InboundServed
<1>12. CASE \/ ~Surface!On({"noDocs"}) /\ x = Surface!Page("openapi.json")
            \/ x = Surface!Page("health")
  <2>1. x \in OwnRoutes
    BY <1>12 DEF OwnRoutes
  <2> QED
    BY <1>2, <1>3, <1>12, <2>1, MountedOwn
<1> QED
  BY <1>4, <1>5, <1>6, <1>7, <1>8, <1>9, <1>10, <1>11, <1>12 DEF Genuine

\* The gaps, written with what the artefacts offer.
PublishedNow ==
    /\ MountedNow
    /\ parsed => Surface!OAuthHasUsers
    /\ offered = [openapi |-> Surface!OpenApi, sdk |-> Surface!Sdk,
                  postman |-> Surface!Postman, readme |-> Surface!Readme,
                  tests |-> Surface!Tests]

LEMMA FlatGenuine ==
    ASSUME NEW r \in Surface!Names, NEW a \in endpoints[r] PROVE Genuine(Surface!Flat(r, a))
BY DEF Genuine, IsOfResource, IsFlat

LEMMA CustomGenuine ==
    ASSUME SurfaceTypes, NEW r \in Surface!Names, NEW x \in Surface!CustomEndpointRequests(r)
    PROVE  Genuine(x)
<1> DEFINE s == Surface!CustomEndpoints(r)
<1>1. PICK e \in Surface!ToSet(s) : x = Surface!Custom(r, e)
  BY DEF Surface!CustomEndpointRequests
<1>2. s \in Seq(CustomEndpoint) /\ DOMAIN s = 1..Len(s)
  <2>1. s \in Seq(CustomEndpoint)
    BY DEF SurfaceTypes, Surface!CustomEndpoints
  <2> HIDE DEF s
  <2> QED
    BY <2>1, LenProperties
<1>3. PICK k \in 1..Len(s) : e = s[k]
  BY <1>1, <1>2 DEF Surface!ToSet
<1>4. s = custom[r]
  <2>1. CASE parsed
    <3>1. s = <<>>
      BY <2>1 DEF Surface!CustomEndpoints
    <3>2. Len(s) = 0
      BY <3>1
    <3> QED
      BY <1>3, <3>2
  <2>2. CASE ~parsed
    BY <2>2 DEF Surface!CustomEndpoints
  <2> QED
    BY <2>1, <2>2
<1>5. x = Surface!Custom(r, custom[r][k])
  BY <1>1, <1>3, <1>4
<1> QED
  BY <1>3, <1>5 DEF Genuine, IsOfResource, IsCustom

LEMMA RelationGenuine ==
    ASSUME SurfaceTypes, NEW r \in Surface!Names, NEW t \in topRelations, t.from = r,
           Surface!Nested(r, t.to, "list") \notin Surface!UnlistedRelations
    PROVE  Genuine(Surface!Nested(r, t.to, "list"))
<1> DEFINE x == Surface!Nested(r, t.to, "list")
<1>1. x.handler = <<"nested", r, t.to, "list">>
  BY DEF Surface!Nested, Surface!Route
<1>2. x.handler[2] = r /\ x.handler[3] = t.to
  BY <1>1
<1>3. x \in Surface!RelationRoutes
  BY DEF Surface!RelationRoutes
<1> HIDE DEF x
<1>4. <<r, t.to>> \in nested /\ "list" \in endpoints[t.to]
  BY <1>2, <1>3 DEF Surface!UnlistedRelations, x
<1>5. t.to \in Surface!Names
  BY DEF SurfaceTypes
<1>6. IsNested(x, r)
  BY <1>4, <1>5 DEF IsNested, x
<1> QED
  BY <1>6 DEF Genuine, IsOfResource, x

LEMMA FolderGenuine ==
    ASSUME SurfaceTypes, NEW r \in Surface!Names,
           NEW x \in Surface!ResourceFolder(r), x \notin Surface!UnlistedRelations
    PROVE  Genuine(x)
<1>1. CASE x \in {Surface!Flat(r, a) : a \in endpoints[r]}
  BY <1>1, FlatGenuine
<1>2. CASE x \in Surface!CustomEndpointRequests(r)
  BY <1>2, CustomGenuine
<1>3. CASE x \in {Surface!Nested(r, t.to, "list") : t \in {u \in topRelations : u.from = r}}
  <2>1. PICK t \in topRelations : t.from = r /\ x = Surface!Nested(r, t.to, "list")
    BY <1>3
  <2> QED
    BY <2>1, RelationGenuine
<1> QED
  BY <1>1, <1>2, <1>3 DEF Surface!ResourceFolder

LEMMA UsersGenuine ==
    ASSUME parsed => Surface!OAuthHasUsers, NEW x, x \notin Surface!UserRoutes,
           x \in Surface!AuthFolder \cup Surface!OAuthFolder
    PROVE  Genuine(x)
<1>1. Surface!AuthFolder = UserRoutes
  BY AdminRoutes DEF Surface!AuthFolder, Surface!MountJwtAuthRoutes
<1>2. CASE Surface!On({"jwt"})
  BY <1>1, <1>2 DEF Genuine, Surface!OAuthFolder, Surface!When
<1>3. CASE ~Surface!On({"jwt"})
  <2>1. x \notin Surface!AuthFolder /\ x \notin Surface!When(~parsed, Surface!OAuthFolder)
    BY <1>3 DEF Surface!UserRoutes
  <2>2. x \in Surface!OAuthFolder /\ parsed
    BY <2>1 DEF Surface!When
  <2>3. "oauth" \in switches
    BY <2>2 DEF Surface!OAuthFolder, Surface!When, Surface!On
  <2> QED
    BY <1>3, <2>2, <2>3 DEF Surface!OAuthHasUsers, Surface!On
<1> QED
  BY <1>2, <1>3

LEMMA OpenApiGenuine == ASSUME SurfaceTypes, NEW x \in Surface!OpenApi PROVE Genuine(x)
<1>1. CASE x \in UNION {Surface!BuildPaths(r) : r \in Surface!Names}
  BY <1>1, FlatGenuine DEF Surface!BuildPaths, Surface!Kept, Surface!FlatOf
<1>2. CASE x \in Surface!BuildAuthPaths
  <2>1. Surface!JwtAuthPaths = UserRoutes /\ Surface!ApiKeyAdminPaths = KeyRoutes
    BY AdminRoutes DEF Surface!JwtAuthPaths, Surface!MountJwtAuthRoutes,
                       Surface!ApiKeyAdminPaths, Surface!MountApiKeyRoutes
  <2> QED
    BY <1>2, <2>1 DEF Surface!BuildAuthPaths, Surface!When, Surface!OAuthPaths, Genuine
<1> QED
  BY Zenon, <1>1, <1>2 DEF Surface!OpenApi

LEMMA SdkGenuine ==
    ASSUME PublishedNow, NEW x \in Surface!Sdk, x \notin Surface!NestedWrites,
           x \notin Surface!UploadOfField
    PROVE  Genuine(x)
<1>1. SurfaceTypes /\ offered["sdk"] = Surface!Sdk
  BY DEF PublishedNow, MountedNow
<1>2. ASSUME NEW r \in Surface!Names, x \in Surface!ResourceAccessor(r) PROVE Genuine(x)
  <2>1. CASE x \in {Surface!Flat(r, a) : a \in endpoints[r]}
    BY <2>1, FlatGenuine
  <2>2. CASE x \in UNION {{Surface!Nested(r, c, a) : a \in endpoints[c]} :
                             c \in Surface!NestedChildren(r)}
    <3>1. PICK c \in Surface!NestedChildren(r) :
              x \in {Surface!Nested(r, c, a) : a \in endpoints[c]}
      BY <2>2
    <3>2. PICK a \in endpoints[c] : x = Surface!Nested(r, c, a)
      BY <3>1
    <3>3. c \in Surface!Names /\ <<r, c>> \in nested
      BY DEF Surface!NestedChildren
    <3>4. a \in Surface!CrudActions
      BY <1>1, <3>3 DEF SurfaceTypes
    <3>5. x.handler[1] = "nested" /\ x.method = Surface!Verb(a)
      BY <3>2 DEF Surface!Nested, Surface!Route
    <3>6. Surface!Verb(a) \notin {"PUT", "DELETE"}
      BY <1>1, <3>5 DEF Surface!NestedWrites
    <3>7. a \in {"list", "create", "read"}
      BY <3>4, <3>6 DEF Surface!Verb, Surface!CrudActions
    <3>8. IsNested(x, r)
      BY <3>2, <3>3, <3>7 DEF IsNested
    <3> QED
      BY <3>8 DEF Genuine, IsOfResource
  <2> QED
    BY <1>2, <2>1, <2>2 DEF Surface!ResourceAccessor
<1>3. CASE x \in Surface!When(Surface!On({"jwt"}), Surface!AuthBlock)
  <2>1. Surface!AuthBlock = UserRoutes
    BY AdminRoutes DEF Surface!AuthBlock, Surface!MountJwtAuthRoutes
  <2> QED
    BY <1>3, <2>1 DEF Surface!When, Genuine
<1>4. CASE x \in Surface!When(Surface!UploadEnabled, {Surface!Upload})
  BY <1>4 DEF Surface!When, Surface!UploadOfField, Genuine
<1> QED
  BY Zenon, <1>2, <1>3, <1>4 DEF Surface!Sdk

LEMMA PostmanGenuine ==
    ASSUME PublishedNow, NEW x \in Surface!Postman, x \notin Surface!UserRoutes,
           x \notin Surface!UnlistedRelations
    PROVE  Genuine(x)
<1>1. SurfaceTypes /\ (parsed => Surface!OAuthHasUsers)
  BY DEF PublishedNow, MountedNow
<1>2. CASE x \in Surface!When(Surface!On({"jwt", "strategyJwt"}), Surface!AuthFolder)
                  \cup Surface!OAuthFolder
  BY <1>1, <1>2, UsersGenuine DEF Surface!When
<1>3. CASE x \in UNION {Surface!ResourceFolder(r) : r \in Surface!Names}
  BY <1>1, <1>3, FolderGenuine
<1>4. CASE x \in Surface!UploadFolder
  BY <1>4 DEF Surface!UploadFolder, Surface!When, Genuine
<1>5. CASE x \in Surface!WebhooksFolder
  BY <1>5, AdminRoutes DEF Surface!WebhooksFolder, Surface!When, Genuine
<1> QED
  BY Zenon, <1>2, <1>3, <1>4, <1>5 DEF Surface!Postman

LEMMA ReadmeGenuine ==
    ASSUME PublishedNow, NEW x \in Surface!Readme, x \notin Surface!UserRoutes,
           x \notin Surface!UnlistedRelations, x \notin Surface!UnlistedExample,
           x \notin Surface!UnservedDocs, x # Surface!Subscription
    PROVE  Genuine(x)
<1>1. SurfaceTypes /\ (parsed => Surface!OAuthHasUsers) /\ Surface!ApiSurfaceAssumption
  BY DEF PublishedNow, MountedNow
<1>2. CASE x \in Surface!RenderAuth
  <2>1. x \in Surface!AuthFolder \cup Surface!OAuthFolder
    BY <1>2 DEF Surface!RenderAuth, Surface!AuthFolder, Surface!OAuthFolder, Surface!When
  <2> QED
    BY <1>1, <2>1, UsersGenuine
<1>3. ASSUME NEW r \in Surface!Names, x \in Surface!RenderResourceEndpoints(r)
      PROVE  Genuine(x)
  BY <1>1, <1>3, FolderGenuine DEF Surface!RenderResourceEndpoints, Surface!ResourceFolder
<1>4. CASE x \in Surface!RenderUpload
  BY <1>4 DEF Surface!RenderUpload, Surface!When, Genuine
<1>5. CASE x \in Surface!RenderWebhooks
  BY <1>5 DEF Surface!RenderWebhooks, Surface!When, Genuine
<1>6. CASE x \in Surface!RenderExamples
  <2> DEFINE C == Surface!Creatable
             m == Surface!Min(C)
  <2>1. C # {} /\ x \in {Surface!Flat(Published[m], a) : a \in {"create", "list"}}
    BY <1>6 DEF Surface!RenderExamples
  <2>2. DOMAIN Published = 1..Len(Published) /\ Len(Published) \in Nat
    BY <1>1, LenProperties DEF Surface!ApiSurfaceAssumption
  <2>3. \E k \in C : \A j \in C : k <= j
    <3>1. C \in SUBSET Nat
      BY <2>2 DEF Surface!Creatable
    <3> HIDE DEF C
    <3> QED
      BY <2>1, <3>1, FirstNumber
  <2>4. m \in C
    <3> HIDE DEF C
    <3> QED
      BY <2>3, Zenon DEF Surface!Min
  <2> HIDE DEF m
  <2> DEFINE r == Published[m]
  <2>5. r \in Surface!Names /\ "create" \in endpoints[r]
    BY <2>4 DEF Surface!Creatable, Surface!Names, Surface!ToSet
  <2> HIDE DEF r
  <2>6. x = Surface!Flat(r, "create") \/ x = Surface!Flat(r, "list")
    BY <2>1 DEF r
  <2>7. CASE x = Surface!Flat(r, "create")
    BY <2>5, <2>7, FlatGenuine
  <2>8. CASE x = Surface!Flat(r, "list")
    <3>1. "list" \in endpoints[r]
      BY <2>5, <2>8 DEF Surface!UnlistedExample
    <3> QED
      BY <2>5, <2>8, <3>1, FlatGenuine
  <2> QED
    BY <2>6, <2>7, <2>8
<1>7. CASE x \in {Surface!Page("openapi.json"), Surface!Page("health")}
  BY <1>7 DEF Genuine, Surface!UnservedDocs, Surface!When
<1>8. CASE x \in Surface!RenderSearch
  <2>1. Published # <<>> /\ x = Surface!Flat(Published[1], "list")
    BY <1>8 DEF Surface!RenderSearch, Surface!When
  <2>2. Published[1] \in Surface!Names
    <3>1. Published \in Seq(STRING)
      BY <1>1 DEF Surface!ApiSurfaceAssumption
    <3>2. 1 \in DOMAIN Published
      BY <2>1, <3>1, EmptySeq, LenProperties
    <3> QED
      BY <3>2 DEF Surface!Names, Surface!ToSet
  <2>3. "list" \in endpoints[Published[1]]
    BY <2>1, <2>2 DEF Surface!UnlistedExample
  <2> QED
    BY <2>1, <2>2, <2>3, FlatGenuine
<1> QED
  BY Zenon, <1>2, <1>3, <1>4, <1>5, <1>6, <1>7, <1>8 DEF Surface!Readme

LEMMA TestsGenuine ==
    ASSUME PublishedNow, NEW x \in Surface!Tests, x \notin Surface!Misspelled
    PROVE  Genuine(x)
<1> DEFINE InTests(r, a) ==
               x = [Surface!Flat(r, a) EXCEPT !.path[1] = IF r \in Irregular THEN "naive"
                                            ELSE Plural[r]]
<1>8. PICK r \in Surface!Names : \E a \in endpoints[r] : InTests(r, a)
  BY DEF Surface!Tests
<1>1. PICK a \in endpoints[r] : InTests(r, a)
  BY <1>8
<1> DEFINE y == Surface!Flat(r, a)
           w == Plural[r]
<1>2. /\ y \in [method : {y.method}, path : {y.path}, handler : {y.handler}]
      /\ y.path = <<w, ":">> \/ y.path = <<w>>
  BY DEF Surface!Flat, Surface!Route
<1>3. offered["tests"] = Surface!Tests
  BY DEF PublishedNow
<1>4. CASE r \in Irregular
  <2>1. x.path = [y.path EXCEPT ![1] = "naive"]
    BY <1>1, <1>2, <1>4
  <2>2. x.path[1] = "naive"
    BY <1>2, <2>1
  <2> QED
    BY <1>3, <2>2 DEF Surface!Misspelled
<1>5. CASE r \notin Irregular
  <2>1. [y.path EXCEPT ![1] = w] = y.path
    BY <1>2
  <2>2. x = [y EXCEPT !.path = [y.path EXCEPT ![1] = w]]
    BY <1>1, <1>5
  <2>3. x = y
    BY <1>2, <2>1, <2>2
  <2> QED
    BY <1>1, <2>3, FlatGenuine
<1> QED
  BY <1>4, <1>5

\* The routes the OpenAPI document owes are mounted only with their feature.
LEMMA MountedOn ==
    ASSUME MountedNow, NEW h \in DOMAIN mounted, NEW x \in mounted[h]
    PROVE  /\ x.handler[1] = "keys" => Surface!KeysOn /\ x \in KeyRoutes
           /\ x.handler[1] = "oauth" =>
                  Surface!On({"jwt"}) /\ Surface!On({"oauth"}) /\ x \in Surface!OAuth(":")
           /\ x.handler[1] = "auth" => x \in UserRoutes
           /\ x.handler[1] = "crud" => \E r \in Surface!Names : IsFlat(x, r)
<1> DEFINE n == Len(Surface!GenerateRoutes)
           Kind == x.handler[1]
           Owed == {"keys", "oauth", "auth", "crud"}
<1>1. /\ n \in Nat /\ DOMAIN mounted = 1..n + 10
      /\ \A i \in 1..8 : mounted[i] = Before[i]
      /\ mounted[n + 9] = After[1]
  BY MountedLayers DEF MountedNow
<1>2. LastOfResources = n + 8
  BY DEF LastOfResources
<1>3. \A y \in KeyRoutes : y.handler[1] = "keys"
  BY DEF KeyRoutes, Surface!Route
<1>4. \A y \in UserRoutes : y.handler[1] = "auth"
  BY DEF UserRoutes, Surface!Route
<1>5. \A y \in Surface!OAuth(":") : y.handler[1] = "oauth"
  BY DEF Surface!OAuth, Surface!Route
<1>6. \A y \in HookRoutes : y.handler[1] = "webhooks"
  BY DEF HookRoutes, Surface!Route
<1>7. \A y \in Surface!MountUploadRoutes : y.handler[1] = "files"
  BY DEF Surface!MountUploadRoutes, Surface!Upload, Surface!Route
<1>8. /\ \A w : Surface!Page(w).handler[1] = "page"
      /\ ServeRoute.handler[1] = "serve" /\ Surface!Inbound(":").handler[1] = "webhooks"
  BY DEF Surface!Page, Surface!Inbound, ServeRoute, Surface!Route
<1>9. CASE x.handler[1] = "crud"
  <2>1. x \notin OwnRoutes /\ x # ServeRoute /\ x # Surface!Inbound(":")
        /\ x # Surface!Page("docs")
    BY <1>3, <1>4, <1>5, <1>6, <1>7, <1>8, <1>9 DEF OwnRoutes
  <2>2. PICK r \in Surface!Names :
            \/ IsCustom(x, r)
            \/ x = Surface!Flat(r, "list") /\ "list" \in endpoints[r]
            \/ IsFlat(x, r) \/ IsNested(x, r)
    BY <2>1, MountedAt
  <2>3. IsFlat(x, r) \/ IsNested(x, r) \/ IsCustom(x, r)
    BY <2>2 DEF IsFlat
  <2>4. IsFlat(x, r)
    BY <1>9, <2>3, OfResourceShape DEF IsOfResource
  <2> QED
    BY <1>9, <2>4
<1>10. CASE x.handler[1] \in {"keys", "oauth", "auth"}
  <2>1. \A r \in Surface!Names : ~IsCustom(x, r) /\ ~IsFlat(x, r) /\ ~IsNested(x, r)
    BY <1>10, OfResourceShape DEF IsOfResource
  <2>2. h \notin 9..LastOfResources
    <3>1. SUFFICES ASSUME h \in 9..LastOfResources PROVE FALSE
      OBVIOUS
    <3>2. mounted[h] = Surface!GenerateRoutes[h - 8] /\ h - 8 \in 1..n
      <4>1. h - 8 \in 1..n /\ (h - 8) + 8 = h
        BY <1>1, <1>2, <3>1
      <4> QED
        BY <4>1, MountedLayers DEF MountedNow
    <3>3. PICK r \in Surface!Names :
              \/ IsCustom(x, r)
              \/ x = Surface!Flat(r, "list") /\ "list" \in endpoints[r]
              \/ IsFlat(x, r) \/ IsNested(x, r)
      BY <3>2, ResourceRoutes DEF MountedNow
    <3> QED
      BY <2>1, <3>3 DEF IsFlat
  <2>3. CASE h \in 1..8
    <3>1. x \in Before[h]
      BY <1>1, <2>3
    <3>2. /\ Before[1] = {Surface!Page("health"), Surface!Page("ready")}
          /\ Before[2] = Surface!When(Surface!KeysOn, KeyRoutes)
          /\ Before[3] = Surface!When(Surface!On({"jwt"}), UserRoutes)
          /\ Before[4] = Surface!When(Surface!On({"jwt"}) /\ Surface!On({"oauth"}),
                                      Surface!OAuth(":"))
          /\ Before[5] = Surface!When(Surface!FilesOn, Surface!MountUploadRoutes)
          /\ Before[6] \subseteq {ServeRoute}
          /\ Before[7] \subseteq HookRoutes /\ Before[8] \subseteq {Surface!Inbound(":")}
      BY AdminRoutes
         DEF Before, Surface!When, Surface!MountLocalUploadRoute, ServeRoute
    <3>3. h = 1 \/ h = 2 \/ h = 3 \/ h = 4 \/ h = 5 \/ h = 6 \/ h = 7 \/ h = 8
      BY <2>3
    <3>4. CASE h = 1 \/ h = 5 \/ h = 6 \/ h = 7 \/ h = 8
      BY <1>6, <1>7, <1>8, <1>10, <3>1, <3>2, <3>4 DEF Surface!When
    <3>5. CASE h = 2
      <4>1. Surface!KeysOn /\ x \in KeyRoutes
        BY <3>1, <3>2, <3>5 DEF Surface!When
      <4>2. x.handler[1] = "keys"
        BY <1>3, <4>1
      <4> QED
        BY <4>1, <4>2
    <3>6. CASE h = 3
      <4>1. x \in UserRoutes
        BY <3>1, <3>2, <3>6 DEF Surface!When
      <4>2. x.handler[1] = "auth"
        BY <1>4, <4>1
      <4> QED
        BY <4>1, <4>2
    <3>7. CASE h = 4
      <4>1. Surface!On({"jwt"}) /\ Surface!On({"oauth"}) /\ x \in Surface!OAuth(":")
        BY <3>1, <3>2, <3>7 DEF Surface!When
      <4>2. x.handler[1] = "oauth"
        BY <1>5, <4>1
      <4> QED
        BY <4>1, <4>2
    <3> QED
      BY <3>3, <3>4, <3>5, <3>6, <3>7
  <2>4. CASE h = n + 9
    <3>1. x \in Surface!MountAuthFlows
      BY <1>1, <2>4 DEF After, Surface!When
    <3>2. x \in UserRoutes
      BY <3>1, AdminRoutes
         DEF Surface!MountAuthFlows, Surface!MountJwtAuthRoutes, Surface!When
    <3>3. x.handler[1] = "auth"
      BY <1>4, <3>2
    <3> QED
      BY <3>2, <3>3
  <2>5. CASE h = n + 10
    <3>1. x \in After[2]
      BY <2>5, MountedLayers DEF MountedNow
    <3>2. x = Surface!Page("openapi.json") \/ x = Surface!Page("docs")
      BY <3>1 DEF After, Surface!When
    <3> QED
      BY <1>8, <1>10, <3>2
  <2> QED
    BY <1>1, <1>2, <2>2, <2>3, <2>4, <2>5
<1> QED
  BY <1>9, <1>10

LEMMA DocumentedOpen ==
    ASSUME MountedNow, NEW h \in DOMAIN mounted, NEW x \in mounted[h], Surface!Documented(x)
    PROVE  x \in Surface!OpenApi
<1>1. CASE x.handler[1] = "crud"
  <2>1. PICK r \in Surface!Names : IsFlat(x, r)
    BY <1>1, MountedOn
  <2>2. x \in Surface!BuildPaths(r)
    <3>1. PICK a \in endpoints[r] : x = Surface!Flat(r, a)
      BY <2>1 DEF IsFlat
    <3>2. x.handler = <<"crud", r, a>>
      BY <3>1 DEF Surface!Flat, Surface!Route
    <3>3. x.handler[1] = "crud" /\ x.handler[2] = r
      BY <3>2
    <3>4. Surface!Namesakes(r) = {}
      BY <3>3 DEF Surface!Documented
    <3>5. a \in Surface!CrudActions
      BY DEF MountedNow, SurfaceTypes
    <3> QED
      BY <3>1, <3>4, <3>5
         DEF Surface!BuildPaths, Surface!Kept, Surface!FlatOf, Surface!CrudActions
  <2> QED
    BY <2>2 DEF Surface!OpenApi
<1>2. CASE x.handler[1] = "keys"
  <2>1. Surface!KeysOn /\ x \in KeyRoutes
    BY <1>2, MountedOn
  <2>2. Surface!ApiKeyAdminPaths = KeyRoutes
    BY AdminRoutes DEF Surface!ApiKeyAdminPaths, Surface!MountApiKeyRoutes
  <2>3. x \in Surface!BuildAuthPaths
    BY <2>1, <2>2 DEF Surface!BuildAuthPaths, Surface!When
  <2> QED
    BY <2>3 DEF Surface!OpenApi
<1>3. CASE x.handler[1] = "oauth"
  <2>1. Surface!On({"jwt"}) /\ Surface!On({"oauth"}) /\ x \in Surface!OAuth(":")
    BY <1>3, MountedOn
  <2>2. x \in Surface!BuildAuthPaths
    BY <2>1 DEF Surface!BuildAuthPaths, Surface!When, Surface!OAuthPaths
  <2> QED
    BY <2>2 DEF Surface!OpenApi
<1>4. CASE Surface!On({"jwt"}) /\ x.handler[1] = "auth"
  <2>1. x \in UserRoutes
    BY <1>4, MountedOn
  <2>2. Surface!JwtAuthPaths = UserRoutes
    BY AdminRoutes DEF Surface!JwtAuthPaths, Surface!MountJwtAuthRoutes
  <2>3. x \in Surface!BuildAuthPaths
    BY <1>4, <2>1, <2>2 DEF Surface!BuildAuthPaths, Surface!When
  <2> QED
    BY <2>3 DEF Surface!OpenApi
<1> QED
  BY <1>1, <1>2, <1>3, <1>4 DEF Surface!Documented

LEMMA SurfaceView ==
    ASSUME Surface!ApiSurfaceAssumption, SurfaceInv PROVE Surface!ArtefactsServed
<1>1. SUFFICES ASSUME surfaceStage = "published" PROVE
          /\ Surface!Sound("openapi", {})
          /\ Surface!Sound("sdk", Surface!NestedWrites \cup Surface!UploadOfField)
          /\ Surface!Sound("postman", Surface!UserRoutes \cup Surface!UnlistedRelations)
          /\ Surface!Sound("readme",
                 Surface!UserRoutes \cup Surface!UnlistedRelations \cup Surface!UnlistedExample
                     \cup Surface!UnservedDocs \cup {Surface!Subscription})
          /\ Surface!Sound("tests", Surface!Misspelled)
          /\ \A i \in DOMAIN mounted : \A x \in mounted[i] :
                 Surface!Documented(x) => x \in offered["openapi"]
  BY Zenon DEF Surface!ArtefactsServed
<1>2. PublishedNow /\ MountedNow /\ SurfaceTypes
  BY <1>1 DEF SurfaceInv, PublishedNow, MountedNow
<1>3. /\ offered["openapi"] = Surface!OpenApi /\ offered["sdk"] = Surface!Sdk
      /\ offered["postman"] = Surface!Postman /\ offered["readme"] = Surface!Readme
      /\ offered["tests"] = Surface!Tests
  BY <1>2 DEF PublishedNow
<1>4. \A x : Genuine(x) => Surface!Reached(x) = x.handler \/ Surface!Overridden(x)
  BY <1>2, GenuineServed DEF Served
<1>5. Surface!Sound("openapi", {})
  BY Zenon, <1>2, <1>3, <1>4, OpenApiGenuine DEF Surface!Sound
<1>6. Surface!Sound("sdk", Surface!NestedWrites \cup Surface!UploadOfField)
  BY Zenon, <1>2, <1>3, <1>4, SdkGenuine DEF Surface!Sound
<1>7. Surface!Sound("postman", Surface!UserRoutes \cup Surface!UnlistedRelations)
  BY Zenon, <1>2, <1>3, <1>4, PostmanGenuine DEF Surface!Sound
<1>8. Surface!Sound("readme",
          Surface!UserRoutes \cup Surface!UnlistedRelations \cup Surface!UnlistedExample
              \cup Surface!UnservedDocs \cup {Surface!Subscription})
  BY Zenon, <1>2, <1>3, <1>4, ReadmeGenuine DEF Surface!Sound
<1>9. Surface!Sound("tests", Surface!Misspelled)
  BY Zenon, <1>2, <1>3, <1>4, TestsGenuine DEF Surface!Sound
<1>10. \A i \in DOMAIN mounted : \A x \in mounted[i] :
           Surface!Documented(x) => x \in offered["openapi"]
  BY <1>2, <1>3, DocumentedOpen
<1> QED
  BY <1>5, <1>6, <1>7, <1>8, <1>9, <1>10

SurfaceHolds == part = "Surface" => SurfaceInv

\* While the routes and the artefacts are exercised their invariant holds.
THEOREM AlwaysSurface == ASSUME RuntimeAssumption PROVE RuntimeSpec => []SurfaceHolds
<1>1. RuntimeInit => SurfaceHolds
  BY SurfaceInit DEF RuntimeInit, SurfaceHolds
<1>2. SurfaceHolds /\ [RuntimeNext]_runtimeVars => SurfaceHolds'
  <2> SUFFICES ASSUME SurfaceHolds, [RuntimeNext]_runtimeVars, part' = "Surface"
               PROVE  SurfaceInv'
    BY DEF SurfaceHolds
  <2>1. part = "Surface"
    BY DEF RuntimeNext, runtimeVars
  <2>2. SurfaceInv /\ Surface!ApiSurfaceAssumption
    BY <2>1 DEF SurfaceHolds, RuntimeAssumption
  <2>3. [Surface!Next]_(Surface!surfaceOwn)
    BY <2>1 DEF RuntimeNext, runtimeVars, SurfaceVars, Surface!surfaceOwn
  <2> QED
    BY <2>2, <2>3, SurfaceNext
<1> QED
  BY <1>1, <1>2, PTL DEF RuntimeSpec

\* Whichever features a spec combines and however its relations and endpoints lie, what the
\* OpenAPI document, the client, the Postman collection, the README and the generated tests
\* offer is answered by the handler they describe or that of a resource of the same plural, the
\* listed gaps and overlaps apart, and the document omits no route of a resource that has its
\* plural alone, of the user system, of OAuth or of the keys.
THEOREM AlwaysArtefactsServed == ASSUME RuntimeAssumption PROVE RuntimeSpec => []ArtefactsServed
<1>1. SurfaceHolds => ArtefactsServed
  <2>1. Surface!ApiSurfaceAssumption
    BY DEF RuntimeAssumption
  <2> QED
    BY <2>1, SurfaceView DEF SurfaceHolds, ArtefactsServed
<1> QED
  BY <1>1, AlwaysSurface, PTL

-----------------------------------------------------------------------------
(***************************************************************************)
(* The plan of relations.  First the types: the fold of the top-level      *)
(* relations, step by step, and the relations in the order of the spec.    *)
(***************************************************************************)
PlanSpecs == [Relations!Names -> Seq(Relations!Relations)]
PlanPairs == Relations!Names \X Relations!Relations

\* f folds the first n top-level relations, step by step.
PlanFolds(f, n) ==
    f = [i \in 0..n |-> IF i = 0 THEN declared ELSE Relations!Fold1(f[i - 1], top[i])]

LEMMA PlanAddTo ==
    ASSUME NEW spec \in PlanSpecs, NEW r, NEW rel \in Relations!Relations
    PROVE  Relations!AddTo(spec, r, rel) \in PlanSpecs
<1>1. CASE r \notin Relations!Names \/ Relations!Has(spec[r], rel.to, rel.type)
  BY <1>1 DEF Relations!AddTo
<1>2. CASE ~(r \notin Relations!Names \/ Relations!Has(spec[r], rel.to, rel.type))
  <2>1. r \in Relations!Names
    BY <1>2
  <2>2. Append(spec[r], rel) \in Seq(Relations!Relations)
    BY <2>1, AppendProperties DEF PlanSpecs
  <2>3. Relations!AddTo(spec, r, rel) = [spec EXCEPT ![r] = Append(spec[r], rel)]
    BY <1>2 DEF Relations!AddTo
  <2> QED
    BY <2>2, <2>3 DEF PlanSpecs
<1> QED
  BY <1>1, <1>2

\* The column that names a model.
LEMMA PlanDefault ==
    ASSUME NEW x \in STRING
    PROVE  /\ Relations!Default(x) \in Relations!Columns
           /\ Relations!Default(x).stem = x /\ Relations!Default(x).ending = "Id"
BY DEF Relations!Default, Relations!Columns, Relations!Endings

LEMMA PlanRelation ==
    ASSUME NEW type \in Relations!Types, NEW to \in STRING,
           NEW field \in {None} \cup Relations!Columns,
           NEW through \in Joins \cup {None}
    PROVE  Relations!Relation(type, to, field, through) \in Relations!Relations
BY DEF Relations!Relation, Relations!Relations

LEMMA PlanFold1 ==
    ASSUME NEW spec \in PlanSpecs, NEW t \in Relations!TopRelations
    PROVE  Relations!Fold1(spec, t) \in PlanSpecs
<1>1. /\ t.type \in Relations!TopTypes /\ t.from \in STRING /\ t.to \in STRING
      /\ t.field \in {None} \cup Relations!Columns /\ t.through \in Joins \cup {None}
  BY DEF Relations!TopRelations
<1>2. /\ None \in {None} \cup Relations!Columns /\ None \in Joins \cup {None}
      /\ Relations!Default(t.from) \in {None} \cup Relations!Columns
  BY <1>1, PlanDefault
<1>3. \A type \in Relations!Direct \cup {"oneToMany", "manyToMany"} : type \in Relations!Types
  BY DEF Relations!Types
<1>4. {"manyToOne", "oneToOne"} = Relations!Direct
  BY DEF Relations!Direct
<1>5. CASE t.type = "many-to-one"
  <2>1. Relations!Relation("manyToOne", t.to, t.field, None) \in Relations!Relations
    BY <1>1, <1>2, <1>3, <1>4, PlanRelation
  <2> QED
    BY <1>5, <2>1, PlanAddTo DEF Relations!Fold1
<1>6. CASE t.type = "one-to-one"
  <2>1. Relations!Relation("oneToOne", t.to, t.field, None) \in Relations!Relations
    BY <1>1, <1>2, <1>3, <1>4, PlanRelation
  <2> QED
    BY <1>6, <2>1, PlanAddTo DEF Relations!Fold1
<1>7. CASE t.type = "one-to-many"
  <2>1. /\ Relations!Relation("oneToMany", t.to, None, None) \in Relations!Relations
        /\ Relations!Relation("manyToOne", t.from, Relations!Default(t.from), None)
               \in Relations!Relations
    BY <1>1, <1>2, <1>3, <1>4, PlanRelation
  <2>2. Relations!AddTo(spec, t.from, Relations!Relation("oneToMany", t.to, None, None))
            \in PlanSpecs
    BY <2>1, PlanAddTo
  <2> QED
    BY <1>7, <2>1, <2>2, PlanAddTo DEF Relations!Fold1
<1>8. CASE t.type = "many-to-many"
  <2>1. Relations!Relation("manyToMany", t.to, None, t.through) \in Relations!Relations
    BY <1>1, <1>2, <1>3, <1>4, PlanRelation
  <2> QED
    BY <1>8, <2>1, PlanAddTo DEF Relations!Fold1
<1> QED
  BY <1>1, <1>5, <1>6, <1>7, <1>8 DEF Relations!TopTypes

LEMMA PlanFoldsExists == ASSUME NEW n \in Nat PROVE \E f : PlanFolds(f, n)
<1> DEFINE Bad == {m \in Nat : ~\E f : PlanFolds(f, m)}
<1>1. SUFFICES ASSUME Bad # {} PROVE FALSE
  OBVIOUS
<1>2. PICK m \in Bad : \A k \in Bad : m <= k
  BY <1>1, FirstNumber
<1>3. m \in Nat /\ ~\E f : PlanFolds(f, m)
  BY <1>2
<1>4. CASE m = 0
  <2>1. PlanFolds([i \in 0..0 |-> declared], 0)
    BY DEF PlanFolds
  <2> QED
    BY <1>3, <1>4, <2>1
<1>5. CASE m # 0
  <2>1. m - 1 \in Nat /\ m - 1 \notin Bad
    BY <1>2, <1>3, <1>5
  <2>2. PICK f : PlanFolds(f, m - 1)
    BY <2>1
  <2> DEFINE g == [i \in 0..m |-> IF i = m THEN Relations!Fold1(f[m - 1], top[m]) ELSE f[i]]
  <2>3. \A i \in 0..m : g[i] = IF i = 0 THEN declared ELSE Relations!Fold1(g[i - 1], top[i])
    <3> SUFFICES ASSUME NEW i \in 0..m
                 PROVE  g[i] = IF i = 0 THEN declared ELSE Relations!Fold1(g[i - 1], top[i])
      OBVIOUS
    <3>1. CASE i = m
      <4>1. i # 0 /\ i - 1 \in 0..m /\ i - 1 # m
        BY <1>3, <1>5, <3>1
      <4>2. g[i] = Relations!Fold1(f[m - 1], top[m]) /\ g[i - 1] = f[i - 1]
        BY <3>1, <4>1
      <4> HIDE DEF g
      <4> QED
        BY <3>1, <4>1, <4>2, Zenon
    <3>2. CASE i # m
      <4>1. i \in 0..m - 1 /\ g[i] = f[i] /\ (i # 0 => i - 1 \in 0..m /\ i - 1 # m)
        BY <1>3, <3>2
      <4>2. f[i] = IF i = 0 THEN declared ELSE Relations!Fold1(f[i - 1], top[i])
        BY <2>2, <4>1 DEF PlanFolds
      <4>3. i # 0 => g[i - 1] = f[i - 1]
        BY <4>1
      <4> HIDE DEF g
      <4> QED
        BY <4>1, <4>2, <4>3, Zenon
    <3> QED
      BY <3>1, <3>2
  <2>4. DOMAIN g = 0..m /\ g = [i \in 0..m |-> g[i]]
    OBVIOUS
  <2> HIDE DEF g
  <2>5. PlanFolds(g, m)
    BY <2>3, <2>4, Zenon DEF PlanFolds
  <2> QED
    BY <1>3, <2>5
<1> QED
  BY <1>4, <1>5

LEMMA PlanFolded ==
    ASSUME declared \in PlanSpecs, top \in Seq(Relations!TopRelations)
    PROVE  Relations!Folded \in PlanSpecs
<1> DEFINE n == Len(top)
           f == CHOOSE g : PlanFolds(g, n)
<1>1. n \in Nat /\ \A i \in 1..n : top[i] \in Relations!TopRelations
  BY LenProperties, ElementOfSeq
<1>2. PlanFolds(f, n)
  BY <1>1, PlanFoldsExists
<1>3. Relations!Folded = f[n]
  BY Zenon DEF Relations!Folded, PlanFolds
<1> HIDE DEF f
<1>4. \A i \in 0..n : f[i] = IF i = 0 THEN declared ELSE Relations!Fold1(f[i - 1], top[i])
  BY <1>2 DEF PlanFolds
<1> DEFINE Bad == {m \in 0..n : f[m] \notin PlanSpecs}
<1>5. SUFFICES ASSUME Bad # {} PROVE FALSE
  <2>1. n \in 0..n
    BY <1>1
  <2> QED
    BY <1>3, <1>5, <2>1
<1>6. PICK m \in Bad : \A k \in Bad : m <= k
  <2>1. Bad \in SUBSET Nat
    BY <1>1
  <2> QED
    BY <1>5, <2>1, FirstNumber, Zenon
<1>7. m # 0
  BY <1>4, <1>6
<1>8. m \in 1..n /\ m - 1 \in 0..n /\ m - 1 \notin Bad
  BY <1>1, <1>6, <1>7
<1>9. f[m - 1] \in PlanSpecs /\ f[m] = Relations!Fold1(f[m - 1], top[m])
  BY <1>4, <1>7, <1>8
<1>10. f[m] \in PlanSpecs
  BY <1>1, <1>8, <1>9, PlanFold1
<1> QED
  BY <1>6, <1>10

\* The relations in the order of the spec.
LEMMA PlanFlattenSame == ASSUME NEW ss PROVE Relations!FlattenSeq(ss) = Surface!FlattenSeq(ss)
  BY Zenon DEF Relations!FlattenSeq, Surface!FlattenSeq

LEMMA PlanFlattened ==
    ASSUME NEW T, NEW ss \in Seq(Seq(T))
    PROVE  /\ Relations!FlattenSeq(ss) \in Seq(T)
           /\ \A p \in 1..Len(Relations!FlattenSeq(ss)) : \E i \in 1..Len(ss) :
                  \E j \in 1..Len(ss[i]) : Relations!FlattenSeq(ss)[p] = ss[i][j]
           /\ \A i \in 1..Len(ss) : \A j \in 1..Len(ss[i]) :
                  \E p \in 1..Len(Relations!FlattenSeq(ss)) :
                      Relations!FlattenSeq(ss)[p] = ss[i][j]
<1> DEFINE FF == Relations!FlattenSeq(ss)
<1>1. FF = Surface!FlattenSeq(ss)
  BY PlanFlattenSame
<1>2. CASE Len(ss) = 0
  <2>1. ss = <<>>
    BY <1>2, EmptySeq
  <2>2. FF = <<>>
    BY <1>1, <1>2, <2>1 DEF Surface!FlattenSeq
  <2>3. FF \in Seq(T) /\ Len(FF) = 0
    BY <2>2
  <2> HIDE DEF FF
  <2>4. 1..Len(FF) = {} /\ 1..Len(ss) = {}
    BY <1>2, <2>3
  <2> QED
    BY Zenon, <2>3, <2>4 DEF FF
<1>3. CASE Len(ss) # 0
  <2>1. FF \in Seq(T) /\ InOrder(FF, Len(ss), ss)
    BY <1>1, <1>3, Flattened
  <2> HIDE DEF FF
  <2> QED
    BY <2>1, Zenon DEF InOrder, FF
<1> QED
  BY <1>2, <1>3

LEMMA PlanFlat ==
    ASSUME Relations!RelationPlanAssumption, NEW spec \in PlanSpecs
    PROVE  Relations!Flat(spec) \in Seq(PlanPairs)
<1> DEFINE N == Len(Resources)
           At(i) == [k \in DOMAIN spec[Resources[i]] |-> <<Resources[i], spec[Resources[i]][k]>>]
           ss == [i \in 1..N |-> At(i)]
<1>1. N \in Nat /\ DOMAIN Resources = 1..N /\ \A i \in 1..N : Resources[i] \in Relations!Names
  <2>1. Resources \in Seq(STRING)
    BY DEF Relations!RelationPlanAssumption
  <2> QED
    BY <2>1, LenProperties DEF Relations!Names, Relations!ToSet
<1>2. ASSUME NEW i \in 1..N PROVE At(i) \in Seq(PlanPairs)
  <2> DEFINE s == spec[Resources[i]]
  <2>1. s \in Seq(Relations!Relations) /\ Resources[i] \in Relations!Names
    BY <1>1 DEF PlanSpecs
  <2>2. DOMAIN s = 1..Len(s) /\ Len(s) \in Nat /\ \A k \in 1..Len(s) : s[k] \in Relations!Relations
    BY <2>1, LenProperties, ElementOfSeq
  <2> HIDE DEF s
  <2>3. [k \in 1..Len(s) |-> <<Resources[i], s[k]>>] \in [1..Len(s) -> PlanPairs]
    BY <2>1, <2>2 DEF PlanPairs
  <2>4. At(i) = [k \in 1..Len(s) |-> <<Resources[i], s[k]>>]
    BY <2>2 DEF s
  <2>5. At(i) \in [1..Len(s) -> PlanPairs]
    BY <2>3, <2>4
  <2> HIDE DEF At
  <2> QED
    BY <2>2, <2>5, SeqDef
<1> HIDE DEF At
<1>3. ss \in Seq(Seq(PlanPairs))
  BY <1>1, <1>2
<1>4. Relations!Flat(spec) = Relations!FlattenSeq(ss)
  BY <1>1 DEF Relations!Flat, At
<1> HIDE DEF ss
<1> QED
  BY <1>3, <1>4, PlanFlattened

(***************************************************************************)
(* The invariant: what was declared keeps its type, and every stage is a   *)
(* function of what the one before it gave.                                *)
(***************************************************************************)
PlanTypes ==
    /\ declared \in PlanSpecs /\ top \in Seq(Relations!TopRelations)
    /\ owned \subseteq Relations!Names
    /\ planStage \in {"declaring", "parsed", "rejected", "planned", "rendered"}

PlanParsed == all \in Seq(PlanPairs) /\ Relations!Accepts(all)

\* The first candidate of each key.
PlanChosen(c) ==
    {c[j] : j \in {i \in DOMAIN c : \A k \in 1..i - 1 : ~Relations!SameKey(c[k], c[i])}}

PlanInv ==
    /\ PlanTypes
    /\ planStage \in {"parsed", "planned", "rendered"} => PlanParsed
    /\ planStage \in {"planned", "rendered"} => planLinks = PlanChosen(Relations!Candidates)
    /\ planStage = "rendered" => fields = Relations!Fields

LEMMA PlanInit ==
    ASSUME Relations!RelationPlanAssumption, Relations!Init PROVE PlanInv
<1>1. declared \in PlanSpecs
  <2>1. <<>> \in Seq(Relations!Relations)
    OBVIOUS
  <2> QED
    BY <2>1 DEF Relations!Init, PlanSpecs
<1>2. top \in Seq(Relations!TopRelations)
  BY DEF Relations!Init
<1>3. owned \subseteq Relations!Names
  BY DEF Relations!Init, Relations!RelationPlanAssumption
<1>4. planStage = "declaring"
  BY DEF Relations!Init
<1> QED
  BY <1>1, <1>2, <1>3, <1>4 DEF PlanInv, PlanTypes

LEMMA PlanDeclare ==
    ASSUME Relations!RelationPlanAssumption, PlanInv, Relations!Declare PROVE PlanInv'
<1>1. /\ planStage = "declaring" /\ planStage' = planStage /\ owned' = owned
      /\ PlanTypes
  BY DEF Relations!Declare, PlanInv
<1>2. declared' \in PlanSpecs /\ top' \in Seq(Relations!TopRelations)
  <2>1. CASE \E d \in Declarable :
                 declared' = [declared EXCEPT ![d[1]] = Append(@, d[2])] /\ UNCHANGED top
    <3>1. PICK d \in Declarable :
              declared' = [declared EXCEPT ![d[1]] = Append(declared[d[1]], d[2])]
      BY <2>1
    <3>2. d \in Relations!Names \X Relations!Relations
      BY DEF Relations!RelationPlanAssumption
    <3>3. d[1] \in Relations!Names /\ d[2] \in Relations!Relations
      BY <3>2
    <3>4. Append(declared[d[1]], d[2]) \in Seq(Relations!Relations)
      BY <1>1, <3>3, AppendProperties DEF PlanTypes, PlanSpecs
    <3>5. declared' \in PlanSpecs
      BY <1>1, <3>1, <3>4 DEF PlanTypes, PlanSpecs
    <3> QED
      BY <1>1, <2>1, <3>5 DEF PlanTypes
  <2>2. CASE \E t \in TopLevel : top' = Append(top, t) /\ UNCHANGED declared
    <3>1. PICK t \in TopLevel : top' = Append(top, t)
      BY <2>2
    <3>2. t \in Relations!TopRelations
      BY DEF Relations!RelationPlanAssumption
    <3>3. top' \in Seq(Relations!TopRelations)
      BY <1>1, <3>1, <3>2, AppendProperties DEF PlanTypes
    <3> QED
      BY <1>1, <2>2, <3>3 DEF PlanTypes
  <2> QED
    BY <2>1, <2>2 DEF Relations!Declare
<1> QED
  BY <1>1, <1>2 DEF PlanInv, PlanTypes

LEMMA PlanParse ==
    ASSUME Relations!RelationPlanAssumption, PlanInv, Relations!Parse PROVE PlanInv'
<1>1. /\ planStage = "declaring" /\ UNCHANGED <<declared, top, owned>> /\ PlanTypes
      /\ planStage' \in {"parsed", "rejected"}
      /\ planStage' = "parsed" =>
             all' = Relations!Flat(Relations!Folded)
             /\ Relations!Accepts(Relations!Flat(Relations!Folded))
  BY DEF Relations!Parse, PlanInv
<1>2. PlanTypes'
  BY <1>1 DEF PlanTypes
<1>3. Relations!Flat(Relations!Folded) \in Seq(PlanPairs)
  BY <1>1, PlanFolded, PlanFlat DEF PlanTypes
<1>4. ASSUME planStage' = "parsed" PROVE PlanParsed'
  <2>1. all' \in Seq(PlanPairs)
    BY <1>1, <1>3, <1>4
  <2>2. Relations!Accepts(all)'
    <3> DEFINE rels == Relations!Flat(Relations!Folded)
    <3>1. all' = rels /\ Relations!Accepts(rels)
      BY <1>1, <1>4
    <3> HIDE DEF rels
    <3> QED
      BY <1>1, <3>1
         DEF Relations!Accepts, Relations!ThroughUnique, Relations!RequiredTo
  <2> QED
    BY <2>1, <2>2 DEF PlanParsed, PlanPairs
<1> QED
  BY <1>1, <1>2, <1>4 DEF PlanInv

LEMMA PlanSame ==
    ASSUME PlanInv, UNCHANGED <<declared, top, owned, all>>
    PROVE  /\ planStage' \in {"planned", "rendered"} => PlanTypes'
           /\ PlanParsed => PlanParsed'
           /\ (planLinks = PlanChosen(Relations!Candidates) /\ UNCHANGED planLinks =>
                  (planLinks = PlanChosen(Relations!Candidates))')
<1>1. planStage' \in {"planned", "rendered"} => PlanTypes'
  BY DEF PlanInv, PlanTypes
<1>2. PlanParsed => PlanParsed'
  BY DEF PlanParsed, Relations!Accepts, Relations!ThroughUnique, Relations!RequiredTo
<1>3. Relations!Candidates' = Relations!Candidates
  BY DEF Relations!Candidates, Relations!OfRelation, Relations!OfSelf, Relations!OfJoin,
         Relations!OwningTo, Relations!HasChildren, Relations!KeyTo, Relations!SelfJoin
<1>4. PlanChosen(Relations!Candidates)' = PlanChosen(Relations!Candidates)
  BY <1>3 DEF PlanChosen
<1> QED
  BY <1>1, <1>2, <1>4

LEMMA PlanPlan ==
    ASSUME PlanInv, Relations!Plan PROVE PlanInv'
<1>1. /\ planStage = "parsed" /\ planStage' = "planned" /\ UNCHANGED <<declared, top, owned, all>>
      /\ planLinks' = PlanChosen(Relations!Candidates)
  BY DEF Relations!Plan, PlanChosen
<1>2. PlanParsed
  BY <1>1 DEF PlanInv
<1>3. PlanTypes' /\ PlanParsed'
  BY <1>1, <1>2, PlanSame
<1>4. Relations!Candidates' = Relations!Candidates
  BY <1>1
     DEF Relations!Candidates, Relations!OfRelation, Relations!OfSelf, Relations!OfJoin,
         Relations!OwningTo, Relations!HasChildren, Relations!KeyTo, Relations!SelfJoin
<1>5. planLinks' = PlanChosen(Relations!Candidates)'
  BY <1>1, <1>4 DEF PlanChosen
<1> QED
  BY <1>1, <1>3, <1>5 DEF PlanInv

LEMMA PlanRender ==
    ASSUME PlanInv, Relations!Render PROVE PlanInv'
<1>1. /\ planStage = "planned" /\ planStage' = "rendered" /\ fields' = Relations!Fields
      /\ UNCHANGED <<declared, top, owned, all, planLinks>>
  BY DEF Relations!Render
<1>2. PlanParsed /\ planLinks = PlanChosen(Relations!Candidates)
  BY <1>1 DEF PlanInv
<1>3. PlanTypes' /\ PlanParsed' /\ (planLinks = PlanChosen(Relations!Candidates))'
  BY <1>1, <1>2, PlanSame
<1>4. fields' = Relations!Fields'
  BY <1>1
     DEF Relations!Fields, Relations!KeyOfModel, Relations!OwnerFields, Relations!BackField,
         Relations!BackName, Relations!SystemBack, Relations!Injected, Relations!SelfJoinFields,
         Relations!NameOf, Relations!Named, Relations!Several, Relations!OwningTo,
         Relations!SelfJoin
<1> QED
  BY <1>1, <1>3, <1>4 DEF PlanInv

LEMMA PlanNext ==
    ASSUME Relations!RelationPlanAssumption, PlanInv,
           [Relations!Next]_(Relations!planOwn)
    PROVE  PlanInv'
<1>1. CASE Relations!Declare
  BY <1>1, PlanDeclare
<1>2. CASE Relations!Parse
  BY <1>2, PlanParse
<1>3. CASE Relations!Plan
  BY <1>3, PlanPlan
<1>4. CASE Relations!Render
  BY <1>4, PlanRender
<1>5. CASE UNCHANGED Relations!planOwn
  <2>1. UNCHANGED <<declared, top, owned, planStage, all, planLinks, fields>>
    BY <1>5 DEF Relations!planOwn
  <2>2. PlanTypes'
    BY <2>1 DEF PlanInv, PlanTypes
  <2>3. Relations!Fields' = Relations!Fields
    BY <2>1
     DEF Relations!Fields, Relations!KeyOfModel, Relations!OwnerFields, Relations!BackField,
         Relations!BackName, Relations!SystemBack, Relations!Injected, Relations!SelfJoinFields,
         Relations!NameOf, Relations!Named, Relations!Several, Relations!OwningTo,
         Relations!SelfJoin
  <2> QED
    BY <2>1, <2>2, <2>3, PlanSame DEF PlanInv
<1> QED
  BY <1>1, <1>2, <1>3, <1>4, <1>5 DEF Relations!Next

(***************************************************************************)
(* The relations as they were declared.                                    *)
(***************************************************************************)
PlanStated == Relations!RelationPlanAssumption /\ PlanTypes /\ PlanParsed
PlanBase == PlanStated /\ ~Relations!Odd

PlanIndex == 1..Len(all)

LEMMA PlanStatedDomain ==
    ASSUME PlanStated
    PROVE  /\ Len(all) \in Nat /\ DOMAIN all = PlanIndex /\ PlanIndex \subseteq Nat
           /\ all \in [PlanIndex -> PlanPairs]
<1>1. all \in Seq(PlanPairs)
  BY DEF PlanStated, PlanParsed
<1> QED
  BY <1>1, LenProperties DEF PlanIndex

\* What the parser says of one relation.
LEMMA PlanStatedAt ==
    ASSUME PlanStated, NEW k \in PlanIndex
    PROVE  /\ all[k][1] \in Relations!Names /\ all[k][2] \in Relations!Relations
           /\ all[k][2].to \in Relations!Names \cup System
           /\ all[k][2].type \notin Relations!Direct => all[k][2].to \in Relations!Names
           /\ all[k][2].type = "manyToMany" =>
                  all[k][2].through \in Joins /\ all[k][2].through # None
<1>1. all[k] \in PlanPairs
  BY PlanStatedDomain
<1>2. all[k][1] \in Relations!Names /\ all[k][2] \in Relations!Relations
  BY <1>1 DEF PlanPairs
<1>3. Relations!WellDeclared(all[k][2])
  BY PlanStatedDomain DEF PlanStated, PlanParsed, Relations!Accepts
<1>4. /\ all[k][2].to \in Relations!Names
            \/ (all[k][2].to \in System /\ all[k][2].type \in Relations!Direct)
      /\ all[k][2].type = "manyToMany" => all[k][2].through # None
  BY <1>3 DEF Relations!WellDeclared, Relations!KnownTarget
<1>5. all[k][2].through \in Joins \cup {None}
  BY <1>2 DEF Relations!Relations
<1> QED
  BY <1>2, <1>4, <1>5

\* The names are strings, and a foreign key has a name.
LEMMA PlanStatedStrings ==
    ASSUME PlanStated
    PROVE  /\ Relations!Names \subseteq STRING /\ System \subseteq STRING
           /\ Joins \subseteq STRING /\ None \notin STRING
           /\ System \cap Relations!Names = {}
           /\ \A k \in PlanIndex :
                  /\ all[k][1] \in STRING /\ all[k][2].to \in STRING
                  /\ Relations!Column(all[k][2]) \in Relations!Columns
                  /\ Relations!Stem(all[k][2]) \in STRING
<1>1. /\ Relations!Known \subseteq STRING /\ None \notin STRING
      /\ System \cap Relations!Names = {}
  BY DEF PlanStated, Relations!RelationPlanAssumption
<1>2. /\ Relations!Names \subseteq STRING /\ System \subseteq STRING
      /\ Joins \subseteq STRING
  BY <1>1 DEF Relations!Known
<1>3. ASSUME NEW k \in PlanIndex
      PROVE  /\ all[k][1] \in STRING /\ all[k][2].to \in STRING
             /\ Relations!Column(all[k][2]) \in Relations!Columns
             /\ Relations!Stem(all[k][2]) \in STRING
  <2>1. all[k][2].field \in {None} \cup Relations!Columns /\ all[k][2].to \in STRING
    BY PlanStatedAt DEF Relations!Relations
  <2>2. Relations!Column(all[k][2]) \in Relations!Columns
    BY <2>1, PlanDefault DEF Relations!Column
  <2>3. Relations!Stem(all[k][2]) \in STRING
    BY <2>2 DEF Relations!Stem, Relations!Columns
  <2> QED
    BY <1>2, <2>1, <2>2, <2>3, PlanStatedAt
<1> QED
  BY <1>1, <1>2, <1>3

LEMMA PlanDomain ==
    ASSUME PlanBase
    PROVE  /\ Len(all) \in Nat /\ DOMAIN all = PlanIndex /\ PlanIndex \subseteq Nat
           /\ all \in [PlanIndex -> PlanPairs]
  BY PlanStatedDomain DEF PlanBase

\* What the parser and the exceptions of SchemaPaired say of one relation.
LEMMA PlanAt ==
    ASSUME PlanBase, NEW k \in PlanIndex
    PROVE  /\ all[k][1] \in Relations!Names /\ all[k][2] \in Relations!Relations
           /\ all[k][2].to \in Relations!Names \cup System
           /\ all[k][2].type \notin Relations!Direct => all[k][2].to \in Relations!Names
           /\ all[k][2].type = "manyToMany" =>
                  /\ all[k][2].through \in Joins /\ all[k][2].through # None
                  /\ all[k][2].through \notin {all[k][1], all[k][2].to} \cup System
<1>1. PlanStated /\ ~Relations!Odd
  BY DEF PlanBase
<1>2. all[k][2].type = "manyToMany" =>
          all[k][2].through \notin {all[k][1], all[k][2].to} \cup System
  BY <1>1, PlanStatedDomain DEF Relations!Odd, Relations!MisledJoin
<1> QED
  BY <1>1, <1>2, PlanStatedAt

LEMMA PlanStrings ==
    ASSUME PlanBase
    PROVE  /\ Relations!Names \subseteq STRING /\ System \subseteq STRING
           /\ Joins \subseteq STRING /\ None \notin STRING
           /\ System \cap Relations!Names = {}
           /\ \A k \in PlanIndex :
                  /\ all[k][1] \in STRING /\ all[k][2].to \in STRING
                  /\ Relations!Column(all[k][2]) \in Relations!Columns
                  /\ Relations!Stem(all[k][2]) \in STRING
  BY PlanStatedStrings DEF PlanBase

\* Without SharedKey and MisledKey the name of a foreign key says what it is.
LEMMA PlanKeyOfOne ==
    ASSUME PlanBase, NEW j \in PlanIndex, NEW k \in PlanIndex,
           all[j][2].type \in Relations!Direct, all[k][2].type \in Relations!Direct,
           all[j][1] = all[k][1], Relations!Stem(all[j][2]) = Relations!Stem(all[k][2])
    PROVE  j = k
<1>1. j \in Relations!DirectAt /\ k \in Relations!DirectAt
  BY PlanDomain DEF Relations!DirectAt
<1> QED
  BY <1>1 DEF PlanBase, Relations!Odd, Relations!SharedKey

LEMMA PlanKeyOfModels ==
    ASSUME PlanBase
    PROVE  /\ \A k \in PlanIndex :
                  all[k][2].type \in Relations!Direct
                  /\ Relations!Stem(all[k][2]) \in Relations!Known =>
                      Relations!Stem(all[k][2]) = all[k][2].to
           /\ \A r \in Relations!Names :
                  Relations!HasChildren(r) /\ "parent" \in Relations!Known => r = "parent"
<1>1. ASSUME NEW k \in PlanIndex, all[k][2].type \in Relations!Direct,
             Relations!Stem(all[k][2]) \in Relations!Known
      PROVE  Relations!Stem(all[k][2]) = all[k][2].to
  <2>1. k \in Relations!DirectAt
    BY <1>1, PlanDomain DEF Relations!DirectAt
  <2> QED
    BY <1>1, <2>1 DEF PlanBase, Relations!Odd, Relations!MisledKey
<1>2. ASSUME NEW r \in Relations!Names, Relations!HasChildren(r), "parent" \in Relations!Known
      PROVE  r = "parent"
  BY <1>2 DEF PlanBase, Relations!Odd, Relations!MisledKey
<1> QED
  BY <1>1, <1>2

LEMMA PlanJoinOfOne ==
    ASSUME PlanBase, NEW j \in PlanIndex, NEW k \in PlanIndex,
           all[j][2].type = "manyToMany", all[j][2].through = all[k][2].through
    PROVE  j = k
<1>1. all[j][2].through # None
  BY PlanAt
<1> QED
  BY <1>1, PlanDomain
     DEF PlanBase, PlanStated, PlanParsed, Relations!Accepts, Relations!ThroughUnique

\* The direct relations of r to another model.
LEMMA PlanOwning ==
    ASSUME PlanBase, NEW r, NEW to, NEW k
    PROVE  k \in Relations!OwningTo(r, to) <=>
               /\ k \in PlanIndex /\ all[k][1] = r /\ all[k][2].to = to
               /\ all[k][2].type \in Relations!Direct
BY PlanDomain DEF Relations!OwningTo

LEMMA PlanMin ==
    ASSUME NEW T \in SUBSET Nat, T # {} PROVE Relations!Min(T) \in T
<1>1. \E n \in T : \A m \in T : n <= m
  BY FirstNumber
<1> QED
  BY <1>1, Zenon DEF Relations!Min

LEMMA PlanKeyTo ==
    ASSUME PlanBase, NEW r, NEW to, Relations!OwningTo(r, to) # {}
    PROVE  \E k \in Relations!OwningTo(r, to) :
               Relations!KeyTo(r, to) = Relations!Column(all[k][2])
<1>1. Relations!OwningTo(r, to) \in SUBSET Nat
  BY PlanOwning, PlanDomain
<1>2. Relations!Min(Relations!OwningTo(r, to)) \in Relations!OwningTo(r, to)
  BY <1>1, PlanMin
<1> QED
  BY <1>2 DEF Relations!KeyTo

\* How many relations there are: none, one, or two that differ.
LEMMA PlanCount ==
    ASSUME PlanBase, NEW T \in SUBSET PlanIndex
    PROVE  /\ Relations!Cardinality(T) = 1 <=> \E k : T = {k}
           /\ Relations!Cardinality(T) > 1 <=> \E j, k \in T : j # k
<1>1. Relations!Cardinality(T) = Cardinality(T)
  BY ZenonT(60) DEF Relations!Cardinality, Cardinality
<1>2. IsFiniteSet(PlanIndex)
  BY PlanDomain, FS_Interval DEF PlanIndex
<1>3. IsFiniteSet(T)
  BY <1>2, FS_Subset
<1>4. Cardinality(T) \in Nat
  BY <1>3, FS_CardinalityType
<1>5. Cardinality(T) = 0 <=> T = {}
  BY <1>3, FS_EmptySet
<1>6. Cardinality(T) = 1 <=> \E k : T = {k}
  BY <1>3, FS_Singleton
<1>7. Cardinality(T) > 1 <=> Cardinality(T) # 0 /\ Cardinality(T) # 1
  BY <1>4
<1>8. (\E j, k \in T : j # k) <=> T # {} /\ ~\E k : T = {k}
  OBVIOUS
<1> QED
  BY <1>1, <1>5, <1>6, <1>7, <1>8

LEMMA PlanCountOne == ASSUME NEW x PROVE Relations!Cardinality({x}) = 1
<1>1. Relations!Cardinality({x}) = Cardinality({x})
  BY ZenonT(60) DEF Relations!Cardinality, Cardinality
<1> QED
  BY <1>1, FS_Singleton

(***************************************************************************)
(* The links a spec asks for: of a direct relation, of children that have  *)
(* no relation to their parent, of a parent of its own kind, and of a join *)
(* table.  The first two come first.                                       *)
(***************************************************************************)
PlanLinkSet ==
    [owner : STRING, to : STRING, stem : STRING \cup {"parent"},
     ending : Relations!Endings \cup {""}]

LEMMA PlanIsLink ==
    ASSUME NEW o \in STRING, NEW x \in STRING, NEW d \in Relations!Columns
    PROVE  Relations!Link(o, x, d) \in PlanLinkSet
BY DEF PlanLinkSet, Relations!Link, Relations!Columns

PlanLinkOf(k) == Relations!Link(all[k][1], all[k][2].to, Relations!Column(all[k][2]))
PlanChildOf(k) == Relations!Link(all[k][2].to, all[k][1], Relations!Default(all[k][1]))
PlanParentLink(r) == Relations!Link(r, r, Relations!Default("parent"))
PlanJoinOf(k, x) ==
    Relations!Link(all[k][2].through, x,
                   IF all[k][2].through \in Relations!Names
                   THEN Relations!KeyTo(all[k][2].through, x) ELSE Relations!Default(x))

PlanDirectAt(k) == k \in PlanIndex /\ all[k][2].type \in Relations!Direct
PlanChildAt(k) ==
    /\ k \in PlanIndex /\ all[k][2].type = "oneToMany" /\ all[k][2].to # all[k][1]
    /\ Relations!OwningTo(all[k][2].to, all[k][1]) = {}
PlanJoinAt(k) ==
    /\ k \in PlanIndex /\ all[k][2].type = "manyToMany"
    /\ ~Relations!SelfJoin(all[k][1], all[k][2])
PlanEnds(k) == {all[k][1], all[k][2].to}
PlanParentOf(r) ==
    r \in Relations!Names /\ Relations!HasChildren(r) /\ Relations!OwningTo(r, r) = {}

PlanEarly(l) ==
    \/ \E k : PlanDirectAt(k) /\ l = PlanLinkOf(k)
    \/ \E k : PlanChildAt(k) /\ l = PlanChildOf(k)
PlanLate(l) ==
    \/ \E r : PlanParentOf(r) /\ l = PlanParentLink(r)
    \/ \E k : PlanJoinAt(k) /\ \E x \in PlanEnds(k) : l = PlanJoinOf(k, x)

LEMMA PlanSingle ==
    ASSUME NEW T, NEW x \in T
    PROVE  <<x>> \in Seq(T) /\ Len(<<x>>) = 1 /\ <<x>>[1] = x
OBVIOUS

LEMMA PlanDouble ==
    ASSUME NEW T, NEW x \in T, NEW y \in T
    PROVE  <<x, y>> \in Seq(T) /\ Len(<<x, y>>) = 2 /\ <<x, y>>[1] = x /\ <<x, y>>[2] = y
OBVIOUS

LEMMA PlanNone == ASSUME NEW T PROVE <<>> \in Seq(T) /\ Len(<<>>) = 0
OBVIOUS

\* The key by which r points at another model.
LEMMA PlanStatedKey ==
    ASSUME PlanStated, NEW r, NEW to \in STRING
    PROVE  Relations!KeyTo(r, to) \in Relations!Columns
<1>1. CASE Relations!OwningTo(r, to) = {}
  BY <1>1, PlanDefault DEF Relations!KeyTo
<1>2. CASE Relations!OwningTo(r, to) # {}
  <2>1. Relations!OwningTo(r, to) \in SUBSET Nat /\ Relations!OwningTo(r, to) \subseteq PlanIndex
    BY PlanStatedDomain DEF Relations!OwningTo
  <2>2. Relations!Min(Relations!OwningTo(r, to)) \in PlanIndex
    BY <1>2, <2>1, PlanMin
  <2> QED
    BY <1>2, <2>2, PlanStatedStrings DEF Relations!KeyTo
<1> QED
  BY <1>1, <1>2

LEMMA PlanOfRelation ==
    ASSUME PlanStated, NEW k \in PlanIndex, NEW s,
           s = Relations!OfRelation(all[k][1], all[k][2])
    PROVE  /\ s \in Seq(PlanLinkSet)
           /\ \A j \in 1..Len(s) : PlanEarly(s[j])
           /\ PlanDirectAt(k) => Len(s) = 1 /\ s[1] = PlanLinkOf(k)
           /\ PlanChildAt(k) => Len(s) = 1 /\ s[1] = PlanChildOf(k)
<1>1. /\ all[k][1] \in STRING /\ all[k][2].to \in STRING
      /\ Relations!Column(all[k][2]) \in Relations!Columns
  BY PlanStatedStrings
<1>2. CASE all[k][2].type \in Relations!Direct
  <2>1. PlanDirectAt(k) /\ ~PlanChildAt(k)
    BY <1>2 DEF PlanDirectAt, PlanChildAt, Relations!Direct
  <2>2. PlanLinkOf(k) \in PlanLinkSet
    BY <1>1, PlanIsLink DEF PlanLinkOf
  <2>3. s = <<PlanLinkOf(k)>>
    BY <1>2 DEF Relations!OfRelation, PlanLinkOf
  <2>4. s \in Seq(PlanLinkSet) /\ Len(s) = 1 /\ s[1] = PlanLinkOf(k)
    BY <2>2, <2>3, PlanSingle
  <2>5. PlanEarly(s[1])
    BY <2>1, <2>4 DEF PlanEarly
  <2> QED
    BY <2>1, <2>4, <2>5
<1>3. CASE PlanChildAt(k)
  <2>1. ~PlanDirectAt(k) /\ all[k][2].type \notin Relations!Direct
    BY <1>3 DEF PlanDirectAt, PlanChildAt, Relations!Direct
  <2>2. PlanChildOf(k) \in PlanLinkSet
    BY <1>1, PlanIsLink, PlanDefault DEF PlanChildOf
  <2>3. s = <<PlanChildOf(k)>>
    BY <1>3, <2>1 DEF Relations!OfRelation, PlanChildAt, PlanChildOf
  <2>4. s \in Seq(PlanLinkSet) /\ Len(s) = 1 /\ s[1] = PlanChildOf(k)
    BY <2>2, <2>3, PlanSingle
  <2>5. PlanEarly(s[1])
    BY <1>3, <2>4 DEF PlanEarly
  <2> QED
    BY <2>1, <2>4, <2>5
<1>4. CASE all[k][2].type \notin Relations!Direct /\ ~PlanChildAt(k)
  <2>1. s = <<>> /\ ~PlanDirectAt(k)
    BY <1>4 DEF Relations!OfRelation, PlanChildAt, PlanDirectAt
  <2> QED
    BY <1>4, <2>1, PlanNone
<1> QED
  BY <1>2, <1>3, <1>4

LEMMA PlanOfSelf ==
    ASSUME PlanStated, NEW r \in Relations!Names, NEW s, s = Relations!OfSelf(r)
    PROVE  /\ s \in Seq(PlanLinkSet)
           /\ \A j \in 1..Len(s) : PlanLate(s[j])
           /\ PlanParentOf(r) => Len(s) = 1 /\ s[1] = PlanParentLink(r)
<1> DEFINE l == PlanParentLink(r)
<1>1. CASE PlanParentOf(r)
  <2>1. l \in PlanLinkSet
    <3>1. r \in STRING
      BY PlanStatedStrings
    <3> QED
      BY <3>1
         DEF PlanParentLink, PlanLinkSet, Relations!Link, Relations!Default, Relations!Endings
  <2>2. s = <<l>>
    BY <1>1 DEF PlanParentOf, PlanParentLink, Relations!OfSelf
  <2>3. PlanLate(l)
    BY <1>1 DEF PlanLate
  <2> HIDE DEF l
  <2>4. s \in Seq(PlanLinkSet) /\ Len(s) = 1 /\ s[1] = l
    BY <2>1, <2>2, PlanSingle
  <2> QED
    BY <2>3, <2>4 DEF l
<1>2. CASE ~PlanParentOf(r)
  <2>1. s = <<>>
    BY <1>2 DEF PlanParentOf, Relations!OfSelf
  <2> QED
    BY <1>2, <2>1, PlanNone
<1> QED
  BY <1>1, <1>2

LEMMA PlanOfJoin ==
    ASSUME PlanStated, NEW k \in PlanIndex, NEW s,
           s = Relations!OfJoin(all[k][1], all[k][2])
    PROVE  /\ s \in Seq(PlanLinkSet)
           /\ \A j \in 1..Len(s) : PlanLate(s[j])
           /\ PlanJoinAt(k) =>
                  \A x \in PlanEnds(k) : \E j \in 1..Len(s) : s[j] = PlanJoinOf(k, x)
<1> DEFINE r == all[k][1]
           to == all[k][2].to
           t == all[k][2].through
<1>1. r \in STRING /\ to \in STRING
  BY PlanStatedStrings
<1>2. CASE PlanJoinAt(k)
  <2>1. t \in STRING
    BY <1>2, PlanStatedAt, PlanStatedStrings DEF PlanJoinAt
  <2>2. ASSUME NEW x \in PlanEnds(k) PROVE PlanJoinOf(k, x) \in PlanLinkSet
    <3>1. x \in STRING
      BY <1>1 DEF PlanEnds
    <3>2. Relations!KeyTo(t, x) \in Relations!Columns
      BY <3>1, PlanStatedKey
    <3> QED
      BY <2>1, <3>1, <3>2, PlanIsLink, PlanDefault DEF PlanJoinOf
  <2>3. r \in PlanEnds(k) /\ to \in PlanEnds(k)
    BY DEF PlanEnds
  <2>4. s = <<PlanJoinOf(k, r), PlanJoinOf(k, to)>>
    <3>1. CASE t \in Relations!Names
      BY <1>2, <3>1 DEF PlanJoinAt, Relations!OfJoin, PlanJoinOf
    <3>2. CASE t \notin Relations!Names
      BY <1>2, <3>2 DEF PlanJoinAt, Relations!OfJoin, PlanJoinOf
    <3> QED
      BY <3>1, <3>2
  <2>5. PlanLate(PlanJoinOf(k, r)) /\ PlanLate(PlanJoinOf(k, to))
    BY <1>2, <2>3 DEF PlanLate
  <2>6. PlanJoinOf(k, r) \in PlanLinkSet /\ PlanJoinOf(k, to) \in PlanLinkSet
    BY <2>2, <2>3
  <2>7. /\ s \in Seq(PlanLinkSet) /\ Len(s) = 2
        /\ s[1] = PlanJoinOf(k, r) /\ s[2] = PlanJoinOf(k, to)
    BY <2>4, <2>6, PlanDouble
  <2>8. \A x \in PlanEnds(k) : x = r \/ x = to
    BY DEF PlanEnds
  <2> HIDE DEF r, to, t
  <2>9. 1..Len(s) = {1, 2}
    BY <2>7
  <2> QED
    BY <2>5, <2>7, <2>8, <2>9, Zenon
<1>3. CASE ~PlanJoinAt(k)
  <2>1. s = <<>>
    BY <1>3 DEF PlanJoinAt, Relations!OfJoin
  <2> QED
    BY <1>3, <2>1, PlanNone
<1> QED
  BY <1>2, <1>3

\* The links asked for, the early ones first.
LEMMA PlanCandidates ==
    ASSUME PlanStated, NEW c, c = Relations!Candidates
    PROVE  \E n \in Nat :
               /\ Len(c) \in Nat /\ n <= Len(c) /\ DOMAIN c = 1..Len(c)
               /\ \A i \in 1..n : PlanEarly(c[i])
               /\ \A i \in 1..Len(c) : PlanEarly(c[i]) \/ PlanLate(c[i])
               /\ \A l : PlanEarly(l) => \E i \in 1..n : c[i] = l
               /\ \A l : PlanLate(l) => \E i \in 1..Len(c) : c[i] = l
<1> DEFINE sa == [k \in PlanIndex |-> Relations!OfRelation(all[k][1], all[k][2])]
           sb == [i \in 1..Len(Resources) |-> Relations!OfSelf(Resources[i])]
           sc == [k \in PlanIndex |-> Relations!OfJoin(all[k][1], all[k][2])]
           aa == Relations!FlattenSeq(sa)
           bb == Relations!FlattenSeq(sb)
           cc == Relations!FlattenSeq(sc)
           T == PlanLinkSet
<1>1. /\ Len(Resources) \in Nat /\ DOMAIN Resources = 1..Len(Resources)
      /\ \A i \in 1..Len(Resources) : Resources[i] \in Relations!Names
      /\ \A r \in Relations!Names : \E i \in 1..Len(Resources) : Resources[i] = r
  <2>1. Resources \in Seq(STRING)
    BY DEF PlanStated, Relations!RelationPlanAssumption
  <2> QED
    BY <2>1, LenProperties DEF Relations!Names, Relations!ToSet
<1>2. sa \in Seq(Seq(T)) /\ Len(sa) = Len(all)
  <2>1. sa \in [PlanIndex -> Seq(T)]
    BY PlanOfRelation
  <2> HIDE DEF sa
  <2> QED
    BY <2>1, PlanStatedDomain DEF PlanIndex
<1>3. sb \in Seq(Seq(T)) /\ Len(sb) = Len(Resources)
  <2>1. sb \in [1..Len(Resources) -> Seq(T)]
    BY <1>1, PlanOfSelf
  <2> HIDE DEF sb
  <2> QED
    BY <1>1, <2>1
<1>4. sc \in Seq(Seq(T)) /\ Len(sc) = Len(all)
  <2>1. sc \in [PlanIndex -> Seq(T)]
    BY PlanOfJoin
  <2> HIDE DEF sc
  <2> QED
    BY <2>1, PlanStatedDomain DEF PlanIndex
<1>5. c = (aa \o bb) \o cc
  BY <1>1, PlanStatedDomain DEF Relations!Candidates
<1>6. /\ \A k \in PlanIndex : sa[k] = Relations!OfRelation(all[k][1], all[k][2])
      /\ \A i \in 1..Len(Resources) : sb[i] = Relations!OfSelf(Resources[i])
      /\ \A k \in PlanIndex : sc[k] = Relations!OfJoin(all[k][1], all[k][2])
  OBVIOUS
<1> HIDE DEF sa, sb, sc
<1>7. /\ aa \in Seq(T)
      /\ \A p \in 1..Len(aa) : \E k \in PlanIndex : \E j \in 1..Len(sa[k]) : aa[p] = sa[k][j]
      /\ \A k \in PlanIndex : \A j \in 1..Len(sa[k]) : \E p \in 1..Len(aa) : aa[p] = sa[k][j]
  <2>1. /\ aa \in Seq(T)
        /\ \A p \in 1..Len(aa) : \E k \in 1..Len(sa) : \E j \in 1..Len(sa[k]) :
               aa[p] = sa[k][j]
        /\ \A k \in 1..Len(sa) : \A j \in 1..Len(sa[k]) : \E p \in 1..Len(aa) :
               aa[p] = sa[k][j]
    BY <1>2, PlanFlattened
  <2>2. 1..Len(sa) = PlanIndex
    BY <1>2 DEF PlanIndex
  <2> QED
    BY <2>1, <2>2, Zenon
<1>8. /\ bb \in Seq(T)
      /\ \A p \in 1..Len(bb) : \E i \in 1..Len(Resources) : \E j \in 1..Len(sb[i]) :
             bb[p] = sb[i][j]
      /\ \A i \in 1..Len(Resources) : \A j \in 1..Len(sb[i]) : \E p \in 1..Len(bb) :
             bb[p] = sb[i][j]
  <2>1. /\ bb \in Seq(T)
        /\ \A p \in 1..Len(bb) : \E i \in 1..Len(sb) : \E j \in 1..Len(sb[i]) :
               bb[p] = sb[i][j]
        /\ \A i \in 1..Len(sb) : \A j \in 1..Len(sb[i]) : \E p \in 1..Len(bb) :
               bb[p] = sb[i][j]
    BY <1>3, PlanFlattened
  <2> QED
    BY <1>3, <2>1, Zenon
<1>9. /\ cc \in Seq(T)
      /\ \A p \in 1..Len(cc) : \E k \in PlanIndex : \E j \in 1..Len(sc[k]) : cc[p] = sc[k][j]
      /\ \A k \in PlanIndex : \A j \in 1..Len(sc[k]) : \E p \in 1..Len(cc) : cc[p] = sc[k][j]
  <2>1. /\ cc \in Seq(T)
        /\ \A p \in 1..Len(cc) : \E k \in 1..Len(sc) : \E j \in 1..Len(sc[k]) :
               cc[p] = sc[k][j]
        /\ \A k \in 1..Len(sc) : \A j \in 1..Len(sc[k]) : \E p \in 1..Len(cc) :
               cc[p] = sc[k][j]
    BY <1>4, PlanFlattened
  <2>2. 1..Len(sc) = PlanIndex
    BY <1>4 DEF PlanIndex
  <2> QED
    BY <2>1, <2>2, Zenon
<1> HIDE DEF aa, bb, cc, T
<1>10. \A p \in 1..Len(aa) : PlanEarly(aa[p])
  <2>1. \A k \in PlanIndex : \A j \in 1..Len(sa[k]) : PlanEarly(sa[k][j])
    BY <1>6, PlanOfRelation
  <2> QED
    BY <1>7, <2>1, Zenon
<1>11. \A p \in 1..Len(bb) : PlanLate(bb[p])
  <2>1. \A i \in 1..Len(Resources) : \A j \in 1..Len(sb[i]) : PlanLate(sb[i][j])
    BY <1>1, <1>6, PlanOfSelf
  <2> QED
    BY <1>8, <2>1, Zenon
<1>12. \A p \in 1..Len(cc) : PlanLate(cc[p])
  <2>1. \A k \in PlanIndex : \A j \in 1..Len(sc[k]) : PlanLate(sc[k][j])
    BY <1>6, PlanOfJoin
  <2> QED
    BY <1>9, <2>1, Zenon
<1>13. ASSUME NEW l, PlanEarly(l) PROVE \E p \in 1..Len(aa) : aa[p] = l
  <2>1. PICK k \in PlanIndex : \/ PlanDirectAt(k) /\ l = PlanLinkOf(k)
                               \/ PlanChildAt(k) /\ l = PlanChildOf(k)
    BY <1>13 DEF PlanEarly, PlanDirectAt, PlanChildAt
  <2>2. Len(sa[k]) = 1 /\ sa[k][1] = l
    BY <1>6, <2>1, PlanOfRelation
  <2>3. 1 \in 1..Len(sa[k])
    BY <2>2
  <2> QED
    BY <1>7, <2>2, <2>3, Zenon
<1>14. ASSUME NEW l, PlanLate(l)
       PROVE  (\E p \in 1..Len(bb) : bb[p] = l) \/ (\E p \in 1..Len(cc) : cc[p] = l)
  <2>1. CASE \E r : PlanParentOf(r) /\ l = PlanParentLink(r)
    <3>1. PICK r : PlanParentOf(r) /\ l = PlanParentLink(r)
      BY <2>1
    <3>2. PICK i \in 1..Len(Resources) : Resources[i] = r
      BY <1>1, <3>1 DEF PlanParentOf
    <3>3. Len(sb[i]) = 1 /\ sb[i][1] = l
      BY <1>1, <1>6, <3>1, <3>2, PlanOfSelf
    <3>4. 1 \in 1..Len(sb[i])
      BY <3>3
    <3> QED
      BY <1>8, <3>3, <3>4, Zenon
  <2>2. CASE \E k : PlanJoinAt(k) /\ \E x \in PlanEnds(k) : l = PlanJoinOf(k, x)
    <3>1. PICK k \in PlanIndex : PlanJoinAt(k) /\ \E x \in PlanEnds(k) : l = PlanJoinOf(k, x)
      BY <2>2 DEF PlanJoinAt
    <3>2. \E j \in 1..Len(sc[k]) : sc[k][j] = l
      BY <1>6, <3>1, PlanOfJoin
    <3> QED
      BY <1>9, <3>2, ZenonT(40)
  <2> QED
    BY <1>14, <2>1, <2>2 DEF PlanLate
<1> DEFINE n == Len(aa)
           m == Len(bb)
           o == Len(cc)
           both == aa \o bb
<1>15. n \in Nat /\ m \in Nat /\ o \in Nat
  BY <1>7, <1>8, <1>9, LenProperties
<1>16. /\ both \in Seq(T) /\ Len(both) = n + m
       /\ \A i \in 1..n + m : both[i] = IF i <= n THEN aa[i] ELSE bb[i - n]
  <2>1. /\ aa \o bb \in Seq(T) /\ Len(aa \o bb) = Len(aa) + Len(bb)
        /\ \A i \in 1..Len(aa) + Len(bb) :
               (aa \o bb)[i] = IF i <= Len(aa) THEN aa[i] ELSE bb[i - Len(aa)]
    BY <1>7, <1>8, ConcatProperties
  <2> QED
    BY <2>1, Zenon
<1> HIDE DEF both
<1>17. /\ c \in Seq(T) /\ Len(c) = (n + m) + o
       /\ \A i \in 1..(n + m) + o : c[i] = IF i <= n + m THEN both[i] ELSE cc[i - (n + m)]
  <2>1. both \in Seq(T) /\ cc \in Seq(T)
    BY <1>9, <1>16
  <2>2. /\ both \o cc \in Seq(T) /\ Len(both \o cc) = Len(both) + Len(cc)
        /\ \A i \in 1..Len(both) + Len(cc) :
               (both \o cc)[i] = IF i <= Len(both) THEN both[i] ELSE cc[i - Len(both)]
    BY <2>1, ConcatProperties
  <2> QED
    BY <1>5, <1>16, <2>2, Zenon DEF both
<1> HIDE DEF n, m, o
<1>18. ASSUME NEW i \in 1..n PROVE i \in 1..Len(c) /\ c[i] = aa[i]
  <2>1. i \in 1..n + m /\ i \in 1..(n + m) + o /\ i <= n + m /\ i <= n
    BY <1>15
  <2> QED
    BY <1>16, <1>17, <2>1, Zenon
<1>19. ASSUME NEW p \in 1..m PROVE n + p \in 1..Len(c) /\ c[n + p] = bb[p]
  <2>1. /\ n + p \in 1..n + m /\ n + p \in 1..(n + m) + o /\ n + p <= n + m /\ ~(n + p <= n)
        /\ (n + p) - n = p
    BY <1>15
  <2> QED
    BY <1>16, <1>17, <2>1
<1>20. ASSUME NEW p \in 1..o PROVE (n + m) + p \in 1..Len(c) /\ c[(n + m) + p] = cc[p]
  <2>1. /\ (n + m) + p \in 1..(n + m) + o /\ ~((n + m) + p <= n + m)
        /\ ((n + m) + p) - (n + m) = p
    BY <1>15
  <2> QED
    BY <1>17, <2>1
<1>21. ASSUME NEW i \in 1..Len(c) PROVE PlanEarly(c[i]) \/ PlanLate(c[i])
  <2>1. CASE i <= n
    <3>1. i \in 1..n
      BY <1>15, <1>17, <2>1
    <3> QED
      BY <1>10, <1>18, <3>1 DEF n
  <2>2. CASE n < i /\ i <= n + m
    <3>1. i - n \in 1..m /\ n + (i - n) = i
      BY <1>15, <1>17, <2>2
    <3>2. c[i] = bb[i - n]
      BY <1>19, <3>1
    <3> QED
      BY <1>11, <3>1, <3>2 DEF m
  <2>3. CASE n + m < i
    <3>1. i - (n + m) \in 1..o /\ (n + m) + (i - (n + m)) = i
      BY <1>15, <1>17, <2>3
    <3>2. c[i] = cc[i - (n + m)]
      BY <1>20, <3>1
    <3> QED
      BY <1>12, <3>1, <3>2 DEF o
  <2> QED
    BY <1>15, <1>17, <2>1, <2>2, <2>3
<1>22. ASSUME NEW l, PlanEarly(l) PROVE \E i \in 1..n : c[i] = l
  BY <1>13, <1>18, <1>22 DEF n
<1>23. ASSUME NEW l, PlanLate(l) PROVE \E i \in 1..Len(c) : c[i] = l
  BY <1>14, <1>19, <1>20, <1>23 DEF m, o
<1>24. \A i \in 1..n : PlanEarly(c[i])
  BY <1>10, <1>18 DEF n
<1>25. n \in Nat /\ Len(c) \in Nat /\ n <= Len(c) /\ DOMAIN c = 1..Len(c)
  BY <1>15, <1>17, LenProperties
<1> QED
  BY <1>21, <1>22, <1>23, <1>24, <1>25

(***************************************************************************)
(* The links that are in the plan.  A link is of a direct relation, or it  *)
(* is plain: its key is named after the model it points at, to which its   *)
(* owner has no direct relation; or it is that of a parent.                *)
(***************************************************************************)
PlanReady == PlanBase /\ planLinks = PlanChosen(Relations!Candidates)

IsDirectLink(l) == \E k : PlanDirectAt(k) /\ l = PlanLinkOf(k)
IsParentLink(l) == \E r : PlanParentOf(r) /\ l = PlanParentLink(r)
IsPlainLink(l) ==
    /\ l = Relations!Link(l.owner, l.to, Relations!Default(l.to))
    /\ l.to \in Relations!Names /\ l.owner # l.to
    /\ l.owner \in Relations!Names \cup Joins /\ l.owner \notin System
    /\ Relations!OwningTo(l.owner, l.to) = {}
    /\ l.owner \notin Relations!Names =>
           \E k : PlanJoinAt(k) /\ all[k][2].through = l.owner

LEMMA PlanLinkParts ==
    ASSUME NEW owner, NEW to, NEW column
    PROVE  LET l == Relations!Link(owner, to, column) IN
           /\ l.owner = owner /\ l.to = to
           /\ l.stem = column.stem /\ l.ending = column.ending
BY DEF Relations!Link

LEMMA PlanDefaultParts ==
    ASSUME NEW owner, NEW to, NEW x
    PROVE  LET l == Relations!Link(owner, to, Relations!Default(x)) IN
           /\ l.owner = owner /\ l.to = to
           /\ l.stem = x /\ l.ending = "Id"
BY DEF Relations!Link, Relations!Default

LEMMA PlanPlain ==
    ASSUME NEW owner, NEW to, to \in Relations!Names, owner # to,
           owner \in Relations!Names \cup Joins, owner \notin System,
           Relations!OwningTo(owner, to) = {},
           owner \notin Relations!Names => \E k : PlanJoinAt(k) /\ all[k][2].through = owner
    PROVE  IsPlainLink(Relations!Link(owner, to, Relations!Default(to)))
<1> DEFINE l == Relations!Link(owner, to, Relations!Default(to))
<1>1. l.owner = owner /\ l.to = to
  BY PlanDefaultParts
<1>2. l = Relations!Link(l.owner, l.to, Relations!Default(l.to))
  BY <1>1
<1> HIDE DEF l
<1> QED
  BY <1>1, <1>2 DEF IsPlainLink, l

LEMMA PlanKinds ==
    ASSUME PlanBase, NEW l
    PROVE  /\ PlanEarly(l) => IsDirectLink(l) \/ IsPlainLink(l)
           /\ PlanLate(l) => IsDirectLink(l) \/ IsPlainLink(l) \/ IsParentLink(l)
<1>1. ASSUME NEW k, PlanChildAt(k), l = PlanChildOf(k) PROVE IsPlainLink(l)
  <2>1. k \in PlanIndex /\ all[k][2].type \notin Relations!Direct
    BY <1>1 DEF PlanChildAt, Relations!Direct
  <2>2. all[k][1] \in Relations!Names /\ all[k][2].to \in Relations!Names
    BY <2>1, PlanAt
  <2>3. all[k][2].to \notin System
    BY <2>2, PlanStrings
  <2> QED
    BY <1>1, <2>2, <2>3, PlanPlain DEF PlanChildAt, PlanChildOf
<1>2. ASSUME NEW k, PlanJoinAt(k), NEW x \in PlanEnds(k), l = PlanJoinOf(k, x)
      PROVE  IsDirectLink(l) \/ IsPlainLink(l)
  <2> DEFINE t == all[k][2].through
  <2>1. k \in PlanIndex /\ all[k][2].type = "manyToMany"
        /\ all[k][2].type \notin Relations!Direct
    BY <1>2 DEF PlanJoinAt, Relations!Direct
  <2>2. t \in Joins /\ t \notin System /\ x # t /\ x \in Relations!Names
    BY <2>1, PlanAt DEF PlanEnds
  <2>3. CASE Relations!OwningTo(t, x) = {}
    <3>1. l = Relations!Link(t, x, Relations!Default(x))
      BY <1>2, <2>3 DEF PlanJoinOf, Relations!KeyTo
    <3> QED
      BY <1>2, <2>2, <2>3, <3>1, PlanPlain
  <2>4. CASE Relations!OwningTo(t, x) # {}
    <3>1. PICK j \in Relations!OwningTo(t, x) :
              Relations!KeyTo(t, x) = Relations!Column(all[j][2])
      BY <2>4, PlanKeyTo
    <3>2. /\ j \in PlanIndex /\ all[j][1] = t /\ all[j][2].to = x
          /\ all[j][2].type \in Relations!Direct
      BY PlanOwning
    <3>3. t \in Relations!Names
      BY <3>2, PlanAt
    <3>4. l = PlanLinkOf(j)
      BY <1>2, <3>1, <3>2, <3>3 DEF PlanJoinOf, PlanLinkOf
    <3> QED
      BY <3>2, <3>4 DEF IsDirectLink, PlanDirectAt
  <2> QED
    BY <2>3, <2>4
<1> QED
  BY <1>1, <1>2 DEF PlanEarly, PlanLate, IsDirectLink, IsParentLink

LEMMA PlanDirectParts ==
    ASSUME NEW k, NEW l, l = PlanLinkOf(k)
    PROVE  /\ l.owner = all[k][1] /\ l.to = all[k][2].to
           /\ l.stem = Relations!Stem(all[k][2])
           /\ l.ending = Relations!Column(all[k][2]).ending
BY PlanLinkParts DEF PlanLinkOf, Relations!Stem

LEMMA PlanParentParts ==
    ASSUME NEW r, NEW l, l = PlanParentLink(r)
    PROVE  l.owner = r /\ l.to = r /\ l.stem = "parent" /\ l.ending = "Id"
BY PlanDefaultParts DEF PlanParentLink

LEMMA PlanPlainParts ==
    ASSUME NEW l, IsPlainLink(l) PROVE l.stem = l.to /\ l.ending = "Id"
BY PlanDefaultParts DEF IsPlainLink

LEMMA PlanSameKey ==
    ASSUME NEW l, NEW m, Relations!SameKey(m, l) PROVE l.owner = m.owner /\ l.stem = m.stem
BY DEF Relations!SameKey

\* Which keys can have one stem.
LEMMA PlanKeys ==
    ASSUME PlanBase, NEW l, NEW m, l.owner = m.owner, l.stem = m.stem
    PROVE  /\ IsDirectLink(l) /\ IsDirectLink(m) => l = m
           /\ ~(IsDirectLink(l) /\ IsPlainLink(m))
           /\ IsPlainLink(l) /\ IsPlainLink(m) => l = m
           /\ ~(IsParentLink(l) /\ IsPlainLink(m))
           /\ ~(IsParentLink(l) /\ IsDirectLink(m))
           /\ IsParentLink(l) /\ IsParentLink(m) => l = m
<1>1. l.owner = m.owner /\ l.stem = m.stem
  OBVIOUS
<1>2. ASSUME IsDirectLink(l), IsDirectLink(m) PROVE l = m
  <2>1. PICK j : PlanDirectAt(j) /\ l = PlanLinkOf(j)
    BY <1>2 DEF IsDirectLink
  <2>2. PICK k : PlanDirectAt(k) /\ m = PlanLinkOf(k)
    BY <1>2 DEF IsDirectLink
  <2>3. all[j][1] = all[k][1] /\ Relations!Stem(all[j][2]) = Relations!Stem(all[k][2])
    BY <1>1, <2>1, <2>2, PlanDirectParts
  <2>4. j = k
    BY <2>1, <2>2, <2>3, PlanKeyOfOne DEF PlanDirectAt
  <2> QED
    BY <2>1, <2>2, <2>4
<1>3. ASSUME IsDirectLink(l), IsPlainLink(m) PROVE FALSE
  <2>1. PICK k : PlanDirectAt(k) /\ l = PlanLinkOf(k)
    BY <1>3 DEF IsDirectLink
  <2>2. l.owner = all[k][1] /\ l.stem = Relations!Stem(all[k][2])
    BY <2>1, PlanDirectParts
  <2>3. m.stem = m.to /\ m.to \in Relations!Names /\ Relations!OwningTo(m.owner, m.to) = {}
    BY <1>3, PlanPlainParts DEF IsPlainLink
  <2>4. Relations!Stem(all[k][2]) \in Relations!Known
    BY <1>1, <2>2, <2>3 DEF Relations!Known
  <2>5. all[k][2].to = m.to
    BY <1>1, <2>1, <2>2, <2>3, <2>4, PlanKeyOfModels DEF PlanDirectAt
  <2>6. k \in Relations!OwningTo(m.owner, m.to)
    BY <1>1, <2>1, <2>2, <2>5, PlanOwning DEF PlanDirectAt
  <2> QED
    BY <2>3, <2>6
<1>4. ASSUME IsPlainLink(l), IsPlainLink(m) PROVE l = m
  <2>1. /\ l = Relations!Link(l.owner, l.to, Relations!Default(l.to))
        /\ m = Relations!Link(m.owner, m.to, Relations!Default(m.to))
    BY <1>4 DEF IsPlainLink
  <2>2. l.stem = l.to /\ m.stem = m.to
    BY <1>4, PlanPlainParts
  <2> QED
    BY <1>1, <2>1, <2>2
<1>5. ASSUME IsParentLink(l), IsPlainLink(m) PROVE FALSE
  <2>1. PICK r : PlanParentOf(r) /\ l = PlanParentLink(r)
    BY <1>5 DEF IsParentLink
  <2>2. l.owner = r /\ l.stem = "parent"
    BY <2>1, PlanParentParts
  <2>3. m.stem = m.to /\ m.to \in Relations!Names /\ m.owner # m.to
    BY <1>5, PlanPlainParts DEF IsPlainLink
  <2>4. "parent" \in Relations!Known
    BY <1>1, <2>2, <2>3 DEF Relations!Known
  <2>5. r = "parent"
    BY <2>1, <2>4, PlanKeyOfModels DEF PlanParentOf
  <2> QED
    BY <1>1, <2>2, <2>3, <2>5
<1>6. ASSUME IsParentLink(l), IsDirectLink(m) PROVE FALSE
  <2>1. PICK r : PlanParentOf(r) /\ l = PlanParentLink(r)
    BY <1>6 DEF IsParentLink
  <2>2. PICK k : PlanDirectAt(k) /\ m = PlanLinkOf(k)
    BY <1>6 DEF IsDirectLink
  <2>3. l.owner = r /\ l.stem = "parent"
    BY <2>1, PlanParentParts
  <2>4. all[k][1] = r /\ Relations!Stem(all[k][2]) = "parent"
    BY <1>1, <2>2, <2>3, PlanDirectParts
  <2>5. k \in Relations!DirectAt
    BY <2>2, PlanDomain DEF PlanDirectAt, Relations!DirectAt
  <2>6. Relations!SharedKey
    BY <2>1, <2>4, <2>5 DEF Relations!SharedKey, PlanParentOf
  <2> QED
    BY <2>6 DEF PlanBase, Relations!Odd
<1>7. ASSUME IsParentLink(l), IsParentLink(m) PROVE l = m
  <2>1. PICK r : PlanParentOf(r) /\ l = PlanParentLink(r)
    BY <1>7 DEF IsParentLink
  <2>2. PICK w : PlanParentOf(w) /\ m = PlanParentLink(w)
    BY <1>7 DEF IsParentLink
  <2> QED
    BY <1>1, <2>1, <2>2, PlanParentParts
<1> QED
  BY <1>2, <1>3, <1>4, <1>5, <1>6, <1>7

\* The plan has one link of each stem, the first.
LEMMA PlanFirst ==
    ASSUME PlanReady
    PROVE  /\ \A l \in planLinks : PlanEarly(l) \/ PlanLate(l)
           /\ \A l, m \in planLinks : l.owner = m.owner /\ l.stem = m.stem => l = m
           /\ \A l : PlanEarly(l) /\ (\A m : PlanEarly(m) /\ Relations!SameKey(m, l) => m = l)
                         => l \in planLinks
           /\ \A l : PlanLate(l)
                     /\ (\A m : (PlanEarly(m) \/ PlanLate(m)) /\ Relations!SameKey(m, l) => m = l)
                         => l \in planLinks
<1> DEFINE c == Relations!Candidates
<1>1. PlanBase
  BY DEF PlanReady
<1>2. PICK n \in Nat :
               /\ Len(c) \in Nat /\ n <= Len(c) /\ DOMAIN c = 1..Len(c)
               /\ \A i \in 1..n : PlanEarly(c[i])
               /\ \A i \in 1..Len(c) : PlanEarly(c[i]) \/ PlanLate(c[i])
               /\ \A l : PlanEarly(l) => \E i \in 1..n : c[i] = l
               /\ \A l : PlanLate(l) => \E i \in 1..Len(c) : c[i] = l
  BY <1>1, PlanCandidates DEF PlanBase
<1>3. planLinks = PlanChosen(c)
  BY DEF PlanReady
<1> HIDE DEF c
<1>4. ASSUME NEW l
      PROVE  l \in planLinks <=>
                 \E i \in 1..Len(c) :
                     c[i] = l /\ \A k \in 1..i - 1 : ~Relations!SameKey(c[k], c[i])
  BY <1>2, <1>3 DEF PlanChosen
<1>5. ASSUME NEW l \in planLinks PROVE PlanEarly(l) \/ PlanLate(l)
  BY <1>2, <1>4, Zenon
<1>6. ASSUME NEW l \in planLinks, NEW m \in planLinks, l.owner = m.owner, l.stem = m.stem
      PROVE  l = m
  <2>1. /\ IsDirectLink(l) \/ IsPlainLink(l) \/ IsParentLink(l)
        /\ IsDirectLink(m) \/ IsPlainLink(m) \/ IsParentLink(m)
    BY <1>1, <1>5, PlanKinds
  <2>2. m.owner = l.owner /\ m.stem = l.stem
    BY <1>6
  <2> QED
    BY <1>1, <1>6, <2>1, <2>2, PlanKeys
\* A link is in the plan if it is among the first p and nothing among them has its key.
<1>7. ASSUME NEW l, NEW p \in 0..Len(c), \E i \in 1..p : c[i] = l,
             \A k \in 1..p : Relations!SameKey(c[k], l) => c[k] = l
      PROVE  l \in planLinks
  <2> DEFINE Q == {i \in 1..p : c[i] = l}
  <2>1. Q \in SUBSET Nat /\ Q # {}
    BY <1>2, <1>7
  <2>2. PICK i \in Q : \A k \in Q : i <= k
    BY <2>1, FirstNumber
  <2>3. i \in 1..p /\ c[i] = l /\ i \in 1..Len(c)
    BY <1>2, <2>2
  <2>4. ASSUME NEW k \in 1..i - 1, Relations!SameKey(c[k], c[i]) PROVE FALSE
    <3>1. k \in 1..p /\ ~(i <= k)
      BY <1>2, <2>3
    <3>2. c[k] = l
      BY <1>7, <2>3, <2>4, <3>1
    <3> QED
      BY <2>2, <3>1, <3>2
  <2> HIDE DEF Q
  <2> QED
    BY <1>4, <2>3, <2>4
<1>8. ASSUME NEW l, PlanEarly(l), \A m : PlanEarly(m) /\ Relations!SameKey(m, l) => m = l
      PROVE  l \in planLinks
  <2>1. n \in 0..Len(c)
    BY <1>2
  <2>2. \A k \in 1..n : Relations!SameKey(c[k], l) => c[k] = l
    BY <1>2, <1>8, Zenon
  <2>3. \E i \in 1..n : c[i] = l
    BY <1>2, <1>8, Zenon
  <2> QED
    BY <1>7, <2>1, <2>2, <2>3, Zenon
<1>9. ASSUME NEW l, PlanLate(l),
             \A m : (PlanEarly(m) \/ PlanLate(m)) /\ Relations!SameKey(m, l) => m = l
      PROVE  l \in planLinks
  <2>1. Len(c) \in 0..Len(c)
    BY <1>2
  <2>2. \A k \in 1..Len(c) : Relations!SameKey(c[k], l) => c[k] = l
    BY <1>2, <1>9, Zenon
  <2>3. \E i \in 1..Len(c) : c[i] = l
    BY <1>2, <1>9, Zenon
  <2> QED
    BY <1>7, <2>1, <2>2, <2>3, Zenon
<1> QED
  BY <1>5, <1>6, <1>8, <1>9, Zenon

\* Every link of a direct relation is in the plan, and every plain one that is asked for.
LEMMA PlanHas ==
    ASSUME PlanReady, NEW l
    PROVE  /\ IsDirectLink(l) => l \in planLinks
           /\ IsPlainLink(l) /\ (PlanEarly(l) \/ PlanLate(l)) => l \in planLinks
<1>1. PlanBase
  BY DEF PlanReady
<1>2. ASSUME IsDirectLink(l) PROVE l \in planLinks
  <2>1. PlanEarly(l)
    BY <1>2 DEF IsDirectLink, PlanEarly
  <2>2. ASSUME NEW m, PlanEarly(m), Relations!SameKey(m, l) PROVE m = l
    <3>1. IsDirectLink(m) \/ IsPlainLink(m)
      BY <1>1, <2>2, PlanKinds
    <3>2. l.owner = m.owner /\ l.stem = m.stem
      BY <2>2, PlanSameKey
    <3> QED
      BY <1>1, <1>2, <3>1, <3>2, PlanKeys
  <2> QED
    BY <2>1, <2>2, PlanFirst, Zenon
<1>3. ASSUME IsPlainLink(l), PlanEarly(l) PROVE l \in planLinks
  <2>1. ASSUME NEW m, PlanEarly(m), Relations!SameKey(m, l) PROVE m = l
    <3>1. IsDirectLink(m) \/ IsPlainLink(m)
      BY <1>1, <2>1, PlanKinds
    <3>2. m.owner = l.owner /\ m.stem = l.stem
      BY <2>1, PlanSameKey
    <3> QED
      BY <1>1, <1>3, <3>1, <3>2, PlanKeys
  <2> QED
    BY <1>3, <2>1, PlanFirst, Zenon
<1>4. ASSUME IsPlainLink(l), PlanLate(l) PROVE l \in planLinks
  <2>1. ASSUME NEW m, PlanEarly(m) \/ PlanLate(m), Relations!SameKey(m, l) PROVE m = l
    <3>1. IsDirectLink(m) \/ IsPlainLink(m) \/ IsParentLink(m)
      BY <1>1, <2>1, PlanKinds
    <3>2. m.owner = l.owner /\ m.stem = l.stem
      BY <2>1, PlanSameKey
    <3> QED
      BY <1>1, <1>4, <3>1, <3>2, PlanKeys
  <2> QED
    BY <1>4, <2>1, PlanFirst, Zenon
<1> QED
  BY <1>2, <1>3, <1>4

(***************************************************************************)
(* What is true of every link of the plan.                                 *)
(***************************************************************************)
LEMMA PlanLinkFacts ==
    ASSUME PlanReady, NEW l \in planLinks
    PROVE  /\ IsDirectLink(l) \/ IsPlainLink(l) \/ IsParentLink(l)
           /\ l.owner \in Relations!Names \cup Joins /\ l.owner \notin System
           /\ l.to \in Relations!Names \cup System
           /\ l.stem \in Relations!Known => l.stem = l.to
           /\ l.to \in System => IsDirectLink(l)
           /\ l.owner \notin Relations!Names => IsPlainLink(l)
           /\ IsPlainLink(l) => l.stem = l.to
           /\ ~IsDirectLink(l) => l.ending = "Id"
           /\ l.ending \in Relations!Endings \cup {""}
<1>1. PlanBase
  BY DEF PlanReady
<1>2. IsDirectLink(l) \/ IsPlainLink(l) \/ IsParentLink(l)
  BY <1>1, PlanFirst, PlanKinds
<1>3. System \cap Relations!Names = {}
  BY <1>1, PlanStrings
<1>4. IsPlainLink(l) => l.stem = l.to /\ l.ending = "Id"
  BY PlanPlainParts
<1>5. ASSUME IsDirectLink(l)
      PROVE  /\ l.owner \in Relations!Names /\ l.to \in Relations!Names \cup System
             /\ l.stem \in Relations!Known => l.stem = l.to
             /\ l.ending \in Relations!Endings \cup {""}
  <2>1. PICK k : PlanDirectAt(k) /\ l = PlanLinkOf(k)
    BY <1>5 DEF IsDirectLink
  <2>2. /\ l.owner = all[k][1] /\ l.to = all[k][2].to
        /\ l.stem = Relations!Stem(all[k][2])
        /\ l.ending = Relations!Column(all[k][2]).ending
    BY <2>1, PlanDirectParts
  <2>3. k \in PlanIndex /\ all[k][2].type \in Relations!Direct
    BY <2>1 DEF PlanDirectAt
  <2>4. l.ending \in Relations!Endings \cup {""}
    BY <1>1, <2>2, <2>3, PlanStrings DEF Relations!Columns
  <2> QED
    BY <1>1, <2>2, <2>3, <2>4, PlanAt, PlanKeyOfModels
<1>6. ASSUME IsParentLink(l)
      PROVE  /\ l.owner \in Relations!Names /\ l.to \in Relations!Names
             /\ l.stem \in Relations!Known => l.stem = l.to
             /\ l.ending = "Id"
  <2>1. PICK r : PlanParentOf(r) /\ l = PlanParentLink(r)
    BY <1>6 DEF IsParentLink
  <2>2. l.owner = r /\ l.to = r /\ l.stem = "parent" /\ l.ending = "Id"
    BY <2>1, PlanParentParts
  <2> QED
    BY <1>1, <2>1, <2>2, PlanKeyOfModels DEF PlanParentOf
<1>7. IsPlainLink(l) => /\ l.owner \in Relations!Names \cup Joins /\ l.owner \notin System
                        /\ l.to \in Relations!Names
  BY DEF IsPlainLink
<1>8. "Id" \in Relations!Endings
  BY DEF Relations!Endings
<1> QED
  BY <1>2, <1>3, <1>4, <1>5, <1>6, <1>7, <1>8

\* Of two links between the same models in the same direction both are of direct relations.
LEMMA PlanParallel ==
    ASSUME PlanReady, NEW l \in planLinks, NEW m \in planLinks, l # m,
           l.owner = m.owner, l.to = m.to
    PROVE  IsDirectLink(l)
<1>1. PlanBase
  BY DEF PlanReady
<1>2. ASSUME NEW x, IsDirectLink(x) PROVE Relations!OwningTo(x.owner, x.to) # {}
  <2>1. PICK k : PlanDirectAt(k) /\ x = PlanLinkOf(k)
    BY <1>2 DEF IsDirectLink
  <2>2. x.owner = all[k][1] /\ x.to = all[k][2].to
    BY <2>1, PlanDirectParts
  <2> QED
    BY <1>1, <2>1, <2>2, PlanOwning DEF PlanDirectAt
<1>3. ASSUME NEW x, IsParentLink(x)
      PROVE  /\ x.owner = x.to /\ Relations!OwningTo(x.owner, x.to) = {}
             /\ x = PlanParentLink(x.owner)
  <2>1. PICK r : PlanParentOf(r) /\ x = PlanParentLink(r)
    BY <1>3 DEF IsParentLink
  <2>2. x.owner = r /\ x.to = r
    BY <2>1, PlanParentParts
  <2> QED
    BY <2>1, <2>2 DEF PlanParentOf
<1>4. ASSUME NEW x, IsPlainLink(x)
      PROVE  /\ x.owner # x.to /\ Relations!OwningTo(x.owner, x.to) = {}
             /\ x = Relations!Link(x.owner, x.to, Relations!Default(x.to))
  BY <1>4 DEF IsPlainLink
<1>5. /\ IsDirectLink(l) \/ IsPlainLink(l) \/ IsParentLink(l)
      /\ IsDirectLink(m) \/ IsPlainLink(m) \/ IsParentLink(m)
  BY PlanLinkFacts
<1>6. CASE IsPlainLink(l)
  <2>1. IsPlainLink(m)
    BY <1>2, <1>3, <1>4, <1>5, <1>6
  <2> QED
    BY <1>4, <1>6, <2>1
<1>7. CASE IsParentLink(l)
  <2>1. IsParentLink(m)
    BY <1>2, <1>3, <1>4, <1>5, <1>7
  <2> QED
    BY <1>3, <1>7, <2>1
<1> QED
  BY <1>5, <1>6, <1>7

\* There are several links to a model if there are several direct relations.
LEMMA PlanSeveral ==
    ASSUME PlanReady
    PROVE  /\ \A l \in planLinks : Relations!Several(l) =>
                  \E k : /\ PlanDirectAt(k) /\ l = PlanLinkOf(k)
                         /\ \E j \in Relations!OwningTo(l.owner, l.to) : j # k
           /\ \A k : PlanDirectAt(k) =>
                  /\ PlanLinkOf(k) \in planLinks
                  /\ (\E j \in Relations!OwningTo(all[k][1], all[k][2].to) : j # k) =>
                         Relations!Several(PlanLinkOf(k))
<1>1. PlanBase
  BY DEF PlanReady
<1>2. ASSUME NEW l \in planLinks, Relations!Several(l)
      PROVE  \E k : /\ PlanDirectAt(k) /\ l = PlanLinkOf(k)
                    /\ \E j \in Relations!OwningTo(l.owner, l.to) : j # k
  <2>1. PICK m \in planLinks : m # l /\ m.owner = l.owner /\ m.to = l.to
    BY <1>2 DEF Relations!Several
  <2>2. IsDirectLink(l) /\ IsDirectLink(m)
    BY <2>1, PlanParallel
  <2>3. PICK k : PlanDirectAt(k) /\ l = PlanLinkOf(k)
    BY <2>2 DEF IsDirectLink
  <2>4. PICK j : PlanDirectAt(j) /\ m = PlanLinkOf(j)
    BY <2>2 DEF IsDirectLink
  <2>5. m.owner = all[j][1] /\ m.to = all[j][2].to
    BY <2>4, PlanDirectParts
  <2>6. j \in Relations!OwningTo(l.owner, l.to) /\ j # k
    BY <1>1, <2>1, <2>3, <2>4, <2>5, PlanOwning DEF PlanDirectAt
  <2> QED
    BY <2>3, <2>6
<1>3. ASSUME NEW k, PlanDirectAt(k) PROVE PlanLinkOf(k) \in planLinks
  BY <1>3, PlanHas DEF IsDirectLink
<1>4. ASSUME NEW k, PlanDirectAt(k), NEW j \in Relations!OwningTo(all[k][1], all[k][2].to),
             j # k
      PROVE  Relations!Several(PlanLinkOf(k))
  <2>1. PlanDirectAt(j) /\ all[j][1] = all[k][1] /\ all[j][2].to = all[k][2].to
    BY <1>1, PlanOwning DEF PlanDirectAt
  <2>2. Relations!Stem(all[j][2]) # Relations!Stem(all[k][2])
    BY <1>1, <1>4, <2>1, PlanKeyOfOne DEF PlanDirectAt
  <2>3. PlanLinkOf(j) \in planLinks
    BY <1>3, <2>1
  <2>4. /\ PlanLinkOf(j).owner = PlanLinkOf(k).owner /\ PlanLinkOf(j).to = PlanLinkOf(k).to
        /\ PlanLinkOf(j).stem # PlanLinkOf(k).stem
    BY <2>1, <2>2, PlanDirectParts
  <2> QED
    BY <2>3, <2>4 DEF Relations!Several
<1> QED
  BY <1>2, <1>3, <1>4

\* A key that is named like an object field is of a direct relation, the only one to another
\* model, and it is not named after a model.
LEMMA PlanBare ==
    ASSUME PlanReady, NEW l \in planLinks, l.ending = ""
    PROVE  l.stem \notin Relations!Known /\ l.owner # l.to /\ ~Relations!Several(l)
<1>1. PlanBase
  BY DEF PlanReady
<1>2. "Id" # ""
  OBVIOUS
<1>3. IsDirectLink(l)
  BY <1>2, PlanLinkFacts
<1>4. PICK k : PlanDirectAt(k) /\ l = PlanLinkOf(k)
  BY <1>3 DEF IsDirectLink
<1>5. /\ l.owner = all[k][1] /\ l.to = all[k][2].to
      /\ l.stem = Relations!Stem(all[k][2]) /\ Relations!Column(all[k][2]).ending = ""
  BY <1>4, PlanDirectParts
<1>6. k \in Relations!DirectAt
  BY <1>1, <1>4, PlanDomain DEF PlanDirectAt, Relations!DirectAt
<1>7. ~Relations!BareKey
  BY <1>1 DEF PlanBase, Relations!Odd
<1>8. /\ l.to # l.stem /\ l.to # l.owner
      /\ Relations!OwningTo(l.owner, l.to) = {k}
  BY <1>5, <1>6, <1>7 DEF Relations!BareKey
<1>9. ASSUME Relations!Several(l) PROVE FALSE
  <2>1. PICK i : /\ PlanDirectAt(i) /\ l = PlanLinkOf(i)
                 /\ \E j \in Relations!OwningTo(l.owner, l.to) : j # i
    BY <1>9, PlanSeveral
  <2>2. l.owner = all[i][1] /\ l.to = all[i][2].to
    BY <2>1, PlanDirectParts
  <2>3. i \in Relations!OwningTo(l.owner, l.to)
    BY <1>1, <2>1, <2>2, PlanOwning DEF PlanDirectAt
  <2> QED
    BY <1>8, <2>1, <2>3
<1> QED
  BY <1>8, <1>9, PlanLinkFacts

\* The name of a column, and of a field that holds an array of models.
LEMMA PlanColumnName ==
    ASSUME NEW l
    PROVE  Relations!ColumnName(l) = IF l.ending = "" THEN <<l.stem>> ELSE <<l.stem, l.ending>>
BY DEF Relations!ColumnName

LEMMA PlanArray ==
    ASSUME PlanBase, NEW m \in Relations!Names \cup Joins
    PROVE  \/ Arrays[m] = <<m>>
           \/ \E a, b : Arrays[m] = <<a, b>> /\ b \in {"s", "ies"}
<1>1. /\ Arrays[m] \in Seq(STRING)
      /\ \/ Arrays[m] \in {<<m>>, <<m, "s">>}
         \/ Len(Arrays[m]) = 2 /\ Arrays[m][2] = "ies"
  BY DEF PlanBase, PlanStated, Relations!RelationPlanAssumption
<1>2. ASSUME Len(Arrays[m]) = 2, Arrays[m][2] = "ies"
      PROVE  Arrays[m] = <<Arrays[m][1], "ies">>
  BY <1>1, <1>2
<1> QED
  BY <1>1, <1>2

\* A link that is alone between its models needs no name; the names of others differ.
LEMMA PlanNameOf ==
    ASSUME PlanReady, NEW l \in planLinks
    PROVE  /\ l.owner = l.to => Relations!NameOf(l) = <<l.owner, l.stem>>
           /\ \A m \in planLinks : m # l /\ {m.owner, m.to} = {l.owner, l.to} =>
                  /\ Relations!NameOf(l) = <<l.owner, l.stem>>
                  /\ Relations!NameOf(l) # Relations!NameOf(m)
           /\ l.owner # l.to /\ (\A m \in planLinks : {m.owner, m.to} = {l.owner, l.to} => m = l)
                  => Relations!NameOf(l) = <<>>
           /\ l.owner \notin Relations!Names => Relations!NameOf(l) = <<>>
<1>1. ASSUME NEW x \in planLinks, NEW m \in planLinks, m # x,
             {m.owner, m.to} = {x.owner, x.to}
      PROVE  Relations!NameOf(x) = <<x.owner, x.stem>>
  BY <1>1 DEF Relations!NameOf, Relations!Named
<1>2. ASSUME NEW m \in planLinks, m # l, {m.owner, m.to} = {l.owner, l.to}
      PROVE  Relations!NameOf(l) # Relations!NameOf(m)
  <2>1. Relations!NameOf(l) = <<l.owner, l.stem>> /\ Relations!NameOf(m) = <<m.owner, m.stem>>
    BY <1>1, <1>2
  <2>2. l.owner # m.owner \/ l.stem # m.stem
    BY <1>2, PlanFirst
  <2> QED
    BY <2>1, <2>2
<1>3. ASSUME l.owner # l.to, \A m \in planLinks : {m.owner, m.to} = {l.owner, l.to} => m = l
      PROVE  Relations!NameOf(l) = <<>>
  <2>1. ~Relations!Named(l)
    BY <1>3 DEF Relations!Named
  <2> QED
    BY <2>1 DEF Relations!NameOf
<1>4. ASSUME l.owner \notin Relations!Names PROVE Relations!NameOf(l) = <<>>
  <2>1. IsPlainLink(l) /\ l.stem = l.to /\ l.owner # l.to /\ l.owner \notin System
    BY <1>4, PlanLinkFacts DEF IsPlainLink
  <2>2. ASSUME NEW m \in planLinks, {m.owner, m.to} = {l.owner, l.to} PROVE m = l
    <3>1. m.to # l.owner
      BY <1>4, <2>1, PlanLinkFacts
    <3>2. m.to = l.to /\ m.owner = l.owner
      BY <2>1, <2>2, <3>1
    <3>3. m.stem = m.to
      BY <1>4, <3>2, PlanLinkFacts
    <3> QED
      BY <2>1, <3>2, <3>3, PlanFirst
  <2> QED
    BY <1>3, <2>1, <2>2
<1>5. l.owner = l.to => Relations!NameOf(l) = <<l.owner, l.stem>>
  BY DEF Relations!NameOf, Relations!Named
<1> QED
  BY <1>1, <1>2, <1>3, <1>4, <1>5

(***************************************************************************)
(* The fields of the schema, one kind after the other.                     *)
(***************************************************************************)
PlanObjectName(l) ==
    IF (Relations!Several(l) \/ l.owner = l.to) /\ l.owner \in Relations!Names
    THEN l.stem ELSE l.to

PlanColumn(l) ==
    Relations!Field(l.owner, Relations!ColumnName(l), None, "column", <<>>, <<"link", l>>)
PlanObject(l) ==
    Relations!Field(l.owner, <<PlanObjectName(l)>>, l.to, "owner", Relations!NameOf(l),
                    <<"link", l>>)

PlanOwnColumn(r) == Relations!Field(r, <<"user", "Id">>, None, "column", <<>>, <<"owner", r>>)
PlanOwnObject(r) == Relations!Field(r, <<"user">>, "user", "owner", <<>>, <<"owner", r>>)
PlanOwnBack(r) == Relations!Field("user", <<"owned", r, "s">>, r, "back", <<>>, <<"owner", r>>)

\* The two halves of a self-join.
PlanHalfName(r, h) == IF h = 1 THEN <<r>> ELSE <<"related", r>>
PlanHalfKey(r, h) == IF h = 1 THEN <<r, "Id">> ELSE <<"related", r, "Id">>
PlanHalfRel(k, h) == <<all[k][2].through>> \o PlanHalfName(all[k][1], h)
PlanSelfColumn(k, h) ==
    Relations!Field(all[k][2].through, PlanHalfKey(all[k][1], h), None, "column", <<>>,
                    <<"self", h>>)
PlanSelfObject(k, h) ==
    Relations!Field(all[k][2].through, PlanHalfName(all[k][1], h), all[k][1], "owner",
                    PlanHalfRel(k, h), <<"self", h>>)
PlanSelfBack(k, h) ==
    Relations!Field(all[k][1], PlanHalfName(all[k][2].through, h), all[k][2].through, "back",
                    PlanHalfRel(k, h), <<"self", h>>)

\* The fields a resource declares.
PlanDeclaredAt(p) == p \in Plain /\ ~Relations!KeyOfModel(p)
PlanDeclaredField(p) == Relations!Field(p[1], p[2], None, "plain", <<>>, <<"declared">>)

PlanToSystem(k) == k \in PlanIndex /\ all[k][2].to \in System
PlanOwnerless(r) == r \in owned /\ Relations!OwningTo(r, "user") = {}
PlanSelfAt(k) == k \in PlanIndex /\ Relations!SelfJoin(all[k][1], all[k][2])

IsLinkField(x) ==
    \E l \in planLinks : \/ x = PlanColumn(l) \/ x = PlanObject(l)
                         \/ l.to \in Relations!Names /\ x = Relations!BackField(l)
IsSystemField(x) == \E k : PlanToSystem(k) /\ x = Relations!SystemBack(k)
IsOwnField(x) ==
    \E r : PlanOwnerless(r) /\ (x = PlanOwnColumn(r) \/ x = PlanOwnObject(r) \/ x = PlanOwnBack(r))
IsSelfField(x) ==
    \E k : /\ PlanSelfAt(k)
           /\ \E h \in {1, 2} : \/ x = PlanSelfColumn(k, h) \/ x = PlanSelfObject(k, h)
                                \/ x = PlanSelfBack(k, h)

IsDeclaredField(x) == \E p : PlanDeclaredAt(p) /\ x = PlanDeclaredField(p)

LEMMA PlanOwnerFields ==
    ASSUME PlanReady, NEW l \in planLinks
    PROVE  Relations!OwnerFields(l) = {PlanColumn(l), PlanObject(l)}
<1>1. (IF l.owner \in Relations!Names THEN Relations!NameOf(l) ELSE <<>>) = Relations!NameOf(l)
  BY PlanNameOf
<1> QED
  BY <1>1 DEF Relations!OwnerFields, PlanColumn, PlanObject, PlanObjectName

LEMMA PlanSelfFields ==
    ASSUME NEW k, NEW x
    PROVE  x \in Relations!SelfJoinFields(all[k][1], all[k][2]) <=>
               \E h \in {1, 2} : \/ x = PlanSelfColumn(k, h) \/ x = PlanSelfObject(k, h)
                                 \/ x = PlanSelfBack(k, h)
<1> DEFINE t == all[k][2].through
           r == all[k][1]
<1>1. x \in Relations!SelfJoinFields(r, all[k][2]) <=>
          \/ x = Relations!Field(t, <<r, "Id">>, None, "column", <<>>, <<"self", 1>>)
          \/ x = Relations!Field(t, <<r>>, r, "owner", <<t>> \o <<r>>, <<"self", 1>>)
          \/ x = Relations!Field(r, <<t>>, t, "back", <<t>> \o <<r>>, <<"self", 1>>)
          \/ x = Relations!Field(t, <<"related", r, "Id">>, None, "column", <<>>, <<"self", 2>>)
          \/ x = Relations!Field(t, <<"related", r>>, r, "owner", <<t>> \o <<"related", r>>,
                                 <<"self", 2>>)
          \/ x = Relations!Field(r, <<"related", t>>, t, "back", <<t>> \o <<"related", r>>,
                                 <<"self", 2>>)
  BY Zenon DEF Relations!SelfJoinFields
<1>2. /\ PlanSelfColumn(k, 1)
             = Relations!Field(t, <<r, "Id">>, None, "column", <<>>, <<"self", 1>>)
      /\ PlanSelfObject(k, 1)
             = Relations!Field(t, <<r>>, r, "owner", <<t>> \o <<r>>, <<"self", 1>>)
      /\ PlanSelfBack(k, 1)
             = Relations!Field(r, <<t>>, t, "back", <<t>> \o <<r>>, <<"self", 1>>)
  BY DEF PlanSelfColumn, PlanSelfObject, PlanSelfBack, PlanHalfKey, PlanHalfName, PlanHalfRel
<1>3. /\ PlanSelfColumn(k, 2)
             = Relations!Field(t, <<"related", r, "Id">>, None, "column", <<>>, <<"self", 2>>)
      /\ PlanSelfObject(k, 2)
             = Relations!Field(t, <<"related", r>>, r, "owner", <<t>> \o <<"related", r>>,
                               <<"self", 2>>)
      /\ PlanSelfBack(k, 2)
             = Relations!Field(r, <<"related", t>>, t, "back", <<t>> \o <<"related", r>>,
                               <<"self", 2>>)
  BY DEF PlanSelfColumn, PlanSelfObject, PlanSelfBack, PlanHalfKey, PlanHalfName, PlanHalfRel
<1> QED
  BY <1>1, <1>2, <1>3, Zenon

LEMMA PlanFieldKinds ==
    ASSUME PlanReady, fields = Relations!Fields, NEW x
    PROVE  x \in fields <=>
               \/ IsLinkField(x) \/ IsSystemField(x) \/ IsOwnField(x) \/ IsSelfField(x)
               \/ IsDeclaredField(x)
<1> DEFINE P == {Relations!Field(p[1], p[2], None, "plain", <<>>, <<"declared">>) :
                     p \in {q \in Plain : ~Relations!KeyOfModel(q)}}
           A == UNION {Relations!OwnerFields(l) : l \in planLinks}
           B == {Relations!BackField(l) : l \in {m \in planLinks : m.to \in Relations!Names}}
           C == {Relations!SystemBack(k) : k \in {j \in DOMAIN all : all[j][2].to \in System}}
           D == UNION {Relations!Injected(r) :
                       r \in {s \in owned : Relations!OwningTo(s, "user") = {}}}
           E == UNION {Relations!SelfJoinFields(all[k][1], all[k][2]) :
                       k \in {j \in DOMAIN all : Relations!SelfJoin(all[j][1], all[j][2])}}
<1>1. PlanBase
  BY DEF PlanReady
<1>2. x \in fields <=> x \in P \/ x \in A \/ x \in B \/ x \in C \/ x \in D \/ x \in E
  BY Zenon DEF Relations!Fields
<1>3. x \in A \/ x \in B <=> IsLinkField(x)
  <2>1. x \in A <=> \E l \in planLinks : x = PlanColumn(l) \/ x = PlanObject(l)
    <3>1. x \in A <=> \E l \in planLinks : x \in Relations!OwnerFields(l)
      OBVIOUS
    <3>2. \A l \in planLinks : x \in Relations!OwnerFields(l) <=>
              x = PlanColumn(l) \/ x = PlanObject(l)
      BY PlanOwnerFields
    <3> QED
      BY <3>1, <3>2, Zenon
  <2>2. x \in B <=> \E l \in planLinks : l.to \in Relations!Names /\ x = Relations!BackField(l)
    OBVIOUS
  <2> HIDE DEF A, B
  <2> QED
    BY <2>1, <2>2, Zenon DEF IsLinkField
<1>4. x \in C <=> IsSystemField(x)
  BY <1>1, PlanDomain DEF IsSystemField, PlanToSystem
<1>5. x \in D <=> IsOwnField(x)
  <2>1. x \in D <=> \E r : PlanOwnerless(r) /\ x \in Relations!Injected(r)
    BY Zenon DEF PlanOwnerless
  <2>2. \A r : x \in Relations!Injected(r) <=>
            x = PlanOwnColumn(r) \/ x = PlanOwnObject(r) \/ x = PlanOwnBack(r)
    BY Zenon DEF Relations!Injected, PlanOwnColumn, PlanOwnObject, PlanOwnBack
  <2> HIDE DEF D
  <2> QED
    BY <2>1, <2>2, Zenon DEF IsOwnField
<1>6. x \in E <=> IsSelfField(x)
  <2>1. x \in E <=> \E k : PlanSelfAt(k) /\ x \in Relations!SelfJoinFields(all[k][1], all[k][2])
    <3>1. DOMAIN all = PlanIndex
      BY <1>1, PlanDomain
    <3> QED
      BY <3>1, Zenon DEF PlanSelfAt
  <2> HIDE DEF E
  <2> QED
    BY <2>1, PlanSelfFields, Zenon DEF IsSelfField
<1>7. x \in P <=> IsDeclaredField(x)
  BY Zenon DEF IsDeclaredField, PlanDeclaredAt, PlanDeclaredField
<1> HIDE DEF P, A, B, C, D, E
<1> QED
  BY <1>2, <1>3, <1>4, <1>5, <1>6, <1>7, Zenon

LEMMA PlanFieldParts ==
    ASSUME NEW model, NEW name, NEW to, NEW side, NEW rel, NEW of
    PROVE  LET x == Relations!Field(model, name, to, side, rel, of) IN
           /\ x.model = model /\ x.name = name /\ x.to = to /\ x.side = side
           /\ x.rel = rel /\ x.of = of
BY DEF Relations!Field

\* Names of one, two and three parts.
LEMMA PlanTuples ==
    ASSUME NEW a, NEW b, NEW c, NEW d, NEW e, NEW f
    PROVE  /\ <<a>> # <<d, e>> /\ <<a>> # <<d, e, f>> /\ <<a, b>> # <<d, e, f>>
           /\ <<a>> # <<>> /\ <<a, b>> # <<>>
<1>1. Len(<<a>>) = 1 /\ Len(<<a, b>>) = 2 /\ Len(<<d, e>>) = 2 /\ Len(<<d, e, f>>) = 3
      /\ Len(<<>>) = 0
  OBVIOUS
<1> QED
  BY <1>1

LEMMA PlanTuple1 == ASSUME NEW n, NEW a, NEW d, n = <<a>>, n = <<d>> PROVE a = d
<1>1. n[1] = a /\ n[1] = d
  OBVIOUS
<1> QED
  BY <1>1

LEMMA PlanTuple2 ==
    ASSUME NEW n, NEW a, NEW b, NEW d, NEW e, n = <<a, b>>, n = <<d, e>> PROVE a = d /\ b = e
<1>1. n[1] = a /\ n[1] = d /\ n[2] = b /\ n[2] = e
  OBVIOUS
<1> QED
  BY <1>1

LEMMA PlanTuple3 ==
    ASSUME NEW n, NEW a, NEW b, NEW c, NEW d, NEW e, NEW f, n = <<a, b, c>>, n = <<d, e, f>>
    PROVE  a = d /\ b = e /\ c = f
<1>1. n[1] = a /\ n[1] = d /\ n[2] = b /\ n[2] = e /\ n[3] = c /\ n[3] = f
  OBVIOUS
<1> QED
  BY <1>1

LEMMA PlanHalves ==
    ASSUME NEW k
    PROVE  PlanHalfRel(k, 1) # PlanHalfRel(k, 2)
<1> DEFINE T == {all[k][1], all[k][2].through, "related"}
           a == <<all[k][2].through>>
           b == <<all[k][1]>>
           c == <<"related", all[k][1]>>
<1>1. a \in Seq(T) /\ b \in Seq(T) /\ c \in Seq(T) /\ Len(a) = 1 /\ Len(b) = 1 /\ Len(c) = 2
  OBVIOUS
<1>2. PlanHalfRel(k, 1) = a \o b /\ PlanHalfRel(k, 2) = a \o c
  BY DEF PlanHalfRel, PlanHalfName
<1> HIDE DEF a, b, c, T
<1>3. Len(a \o b) = Len(a) + Len(b) /\ Len(a \o c) = Len(a) + Len(c)
  BY <1>1, ConcatProperties
<1> QED
  BY <1>1, <1>2, <1>3

\* What is known of the names that meet in a schema.
LEMMA PlanApart ==
    ASSUME PlanReady
    PROVE  /\ \A k : PlanSelfAt(k) =>
                  /\ all[k][1] \in Relations!Names /\ all[k][2].to = all[k][1]
                  /\ all[k][2].type = "manyToMany"
                  /\ all[k][2].through \in Joins
                  /\ all[k][2].through \notin Relations!Names \cup System
                  /\ \A l \in planLinks : l.owner # all[k][2].through
           /\ \A k : PlanToSystem(k) =>
                  /\ all[k][1] \in Relations!Names /\ PlanDirectAt(k)
                  /\ k \in Relations!OwningTo(all[k][1], all[k][2].to)
           /\ \A r : PlanOwnerless(r) => r \in Relations!Names /\ "user" \in System
           /\ \A l \in planLinks : PlanOwnerless(l.owner) => l.to # "user"
           /\ \A k : PlanToSystem(k) /\ PlanOwnerless(all[k][1]) => all[k][2].to # "user"
<1>1. PlanBase
  BY DEF PlanReady
<1>2. ASSUME NEW k, PlanSelfAt(k)
      PROVE  /\ all[k][1] \in Relations!Names /\ all[k][2].to = all[k][1]
             /\ all[k][2].type = "manyToMany"
             /\ all[k][2].through \in Joins
             /\ all[k][2].through \notin Relations!Names \cup System
  <2>1. /\ k \in PlanIndex /\ all[k][2].type = "manyToMany" /\ all[k][2].to = all[k][1]
        /\ all[k][2].through \notin Relations!Names
    BY <1>2 DEF PlanSelfAt, Relations!SelfJoin
  <2> QED
    BY <1>1, <2>1, PlanAt
<1>3. ASSUME NEW k, PlanSelfAt(k), NEW l \in planLinks, l.owner = all[k][2].through
      PROVE  FALSE
  <2>1. IsPlainLink(l)
    BY <1>2, <1>3, PlanLinkFacts
  <2>2. PICK j : PlanJoinAt(j) /\ all[j][2].through = l.owner
    BY <1>2, <1>3, <2>1 DEF IsPlainLink
  <2>3. j = k
    BY <1>1, <1>3, <2>2, PlanJoinOfOne DEF PlanJoinAt, PlanSelfAt
  <2> QED
    BY <1>3, <2>2, <2>3 DEF PlanJoinAt, PlanSelfAt
<1>4. ASSUME NEW k, PlanToSystem(k)
      PROVE  /\ all[k][1] \in Relations!Names /\ PlanDirectAt(k)
             /\ k \in Relations!OwningTo(all[k][1], all[k][2].to)
  <2>1. k \in PlanIndex /\ all[k][2].to \in System
    BY <1>4 DEF PlanToSystem
  <2>2. all[k][1] \in Relations!Names /\ all[k][2].type \in Relations!Direct
    BY <1>1, <2>1, PlanAt, PlanStrings
  <2> QED
    BY <1>1, <2>1, <2>2, PlanOwning DEF PlanDirectAt
<1>5. ASSUME NEW r, PlanOwnerless(r) PROVE r \in Relations!Names /\ "user" \in System
  BY <1>5
     DEF PlanReady, PlanBase, PlanStated, PlanTypes, PlanParsed, Relations!Accepts, PlanOwnerless
<1>6. ASSUME NEW l \in planLinks, PlanOwnerless(l.owner), l.to = "user" PROVE FALSE
  <2>1. IsDirectLink(l)
    BY <1>5, <1>6, PlanLinkFacts
  <2>2. PICK k : PlanDirectAt(k) /\ l = PlanLinkOf(k)
    BY <2>1 DEF IsDirectLink
  <2>3. all[k][1] = l.owner /\ all[k][2].to = "user"
    BY <1>6, <2>2, PlanDirectParts
  <2>4. k \in Relations!OwningTo(l.owner, "user")
    BY <1>1, <2>2, <2>3, PlanOwning DEF PlanDirectAt
  <2> QED
    BY <1>6, <2>4 DEF PlanOwnerless
<1>7. ASSUME NEW k, PlanToSystem(k), PlanOwnerless(all[k][1]), all[k][2].to = "user"
      PROVE  FALSE
  BY <1>4, <1>7 DEF PlanOwnerless
<1> QED
  BY <1>2, <1>3, <1>4, <1>5, <1>6, <1>7

(***************************************************************************)
(* No model has two fields of one name.  The fields of a resource have     *)
(* names of one, two or three parts.                                       *)
(***************************************************************************)
PlanRendered == PlanReady /\ fields = Relations!Fields

\* The array field of l on the model m is named after the owner alone.
PlanPluralAt(l, m) == l.to = m /\ l.owner # l.to /\ ~Relations!Several(l)

PlanShort(x, s) ==
    \/ \E l \in planLinks : l.owner = x.model /\ x = PlanObject(l) /\ s = PlanObjectName(l)
    \/ \E l \in planLinks : /\ l.owner = x.model /\ x = PlanColumn(l)
                            /\ l.ending = "" /\ s = l.stem
    \/ \E l \in planLinks : /\ PlanPluralAt(l, x.model) /\ x = Relations!BackField(l)
                            /\ Arrays[l.owner] = <<l.owner>> /\ s = l.owner
    \/ PlanOwnerless(x.model) /\ x = PlanOwnObject(x.model) /\ s = "user"
    \/ \E k : /\ PlanSelfAt(k) /\ all[k][1] = x.model /\ x = PlanSelfBack(k, 1)
              /\ s = all[k][2].through
PlanMiddle(x, a, b) ==
    \/ \E l \in planLinks : /\ l.owner = x.model /\ x = PlanColumn(l)
                            /\ b \in Relations!Endings /\ a = l.stem
    \/ \E l \in planLinks : /\ PlanPluralAt(l, x.model) /\ x = Relations!BackField(l)
                            /\ Arrays[l.owner] = <<a, b>> /\ b \in {"s", "ies"}
    \/ PlanOwnerless(x.model) /\ x = PlanOwnColumn(x.model) /\ a = "user" /\ b = "Id"
    \/ \E k : /\ PlanSelfAt(k) /\ all[k][1] = x.model /\ x = PlanSelfBack(k, 2)
              /\ a = "related" /\ b = all[k][2].through
PlanLong(x, a, b) ==
    \E l \in planLinks : /\ l.to = x.model /\ x = Relations!BackField(l)
                         /\ a = l.stem /\ b = l.owner

LEMMA PlanShortSame ==
    ASSUME PlanRendered, NEW x, NEW y, NEW s, x.model = y.model, x.model \in Relations!Names,
           PlanShort(x, s), PlanShort(y, s)
    PROVE  x = y
<1> DEFINE m == x.model
<1>1. PlanReady /\ PlanBase
  BY DEF PlanRendered, PlanReady
\* An object field is named after its key or, if it is alone, after its model.
<1>2. ASSUME NEW l \in planLinks, l.owner = m, s = PlanObjectName(l)
      PROVE  /\ s \in Relations!Known => s = l.to
             /\ \/ s = l.stem
                \/ s = l.to /\ ~Relations!Several(l)
  BY <1>1, <1>2, PlanLinkFacts DEF PlanObjectName
<1>3. ASSUME NEW l \in planLinks, l.owner = m, s = PlanObjectName(l), s = "user"
      PROVE  ~PlanOwnerless(m)
  <2>1. ASSUME PlanOwnerless(m) PROVE FALSE
    <3>1. s \in Relations!Known
      BY <1>1, <1>3, <2>1, PlanApart DEF Relations!Known
    <3> QED
      BY <1>1, <1>2, <1>3, <2>1, <3>1, PlanApart
  <2> QED
    BY <2>1
<1>4. ASSUME NEW l \in planLinks, l.owner = m, s = PlanObjectName(l), NEW k, PlanSelfAt(k)
      PROVE  s # all[k][2].through
  <2>1. ASSUME s = all[k][2].through PROVE FALSE
    <3>1. s \in Joins /\ s \notin Relations!Names \cup System
      BY <1>1, <1>4, <2>1, PlanApart
    <3>2. l.to = s
      BY <1>2, <1>4, <3>1 DEF Relations!Known
    <3> QED
      BY <1>1, <3>1, <3>2, PlanLinkFacts
  <2> QED
    BY <2>1
<1>5. ASSUME NEW k, PlanSelfAt(k), PlanOwnerless(m) PROVE all[k][2].through # "user"
  BY <1>1, <1>5, PlanApart
<1>6. ASSUME NEW l \in planLinks, l.owner = m, s = PlanObjectName(l),
             NEW j \in planLinks, j.owner = m, s = PlanObjectName(j)
      PROVE  l = j
  <2>1. CASE l.stem = j.stem
    BY <1>1, <1>6, <2>1, PlanFirst
  <2>2. CASE l.stem # j.stem
    <3>1. l.to \in Relations!Known /\ j.to \in Relations!Known
      BY <1>1, PlanLinkFacts DEF Relations!Known
    <3>2. s = l.to /\ s = j.to
      BY <1>2, <1>6, <2>2, <3>1
    <3>3. ~Relations!Several(l) \/ ~Relations!Several(j)
      BY <1>2, <1>6, <2>2
    <3> QED
      BY <1>6, <3>2, <3>3 DEF Relations!Several
  <2> QED
    BY <2>1, <2>2
<1>7. ASSUME NEW j, PlanSelfAt(j), NEW k, PlanSelfAt(k), all[j][2].through = all[k][2].through
      PROVE  j = k
  BY <1>1, <1>7, PlanApart, PlanJoinOfOne DEF PlanSelfAt
\* A column or an array field that has the name of a model or of none.
<1>11. ASSUME NEW j \in planLinks, j.owner = m, j.ending = "", s = j.stem
       PROVE  /\ ~\E l \in planLinks : l.owner = m /\ s = PlanObjectName(l)
              /\ ~\E l \in planLinks : PlanPluralAt(l, m) /\ s = l.owner
              /\ ~(PlanOwnerless(m) /\ s = "user")
              /\ ~\E k : PlanSelfAt(k) /\ s = all[k][2].through
  <2>1. s \notin Relations!Known /\ j.owner # j.to /\ ~Relations!Several(j)
    BY <1>1, <1>11, PlanBare
  <2>2. ASSUME NEW l \in planLinks, l.owner = m, s = PlanObjectName(l) PROVE FALSE
    <3>1. l.to \in Relations!Known /\ j.to \in Relations!Known
      BY <1>1, PlanLinkFacts DEF Relations!Known
    <3>2. s = l.stem
      BY <1>2, <2>1, <2>2, <3>1
    <3>3. l = j
      BY <1>1, <1>11, <2>2, <3>2, PlanFirst
    <3>4. s = j.to
      BY <2>1, <2>2, <3>3 DEF PlanObjectName
    <3> QED
      BY <2>1, <3>1, <3>4
  <2>3. \A l \in planLinks : l.owner \in Relations!Known
    BY <1>1, PlanLinkFacts DEF Relations!Known
  <2>4. PlanOwnerless(m) => "user" \in Relations!Known
    BY <1>1, PlanApart DEF Relations!Known
  <2>5. \A k : PlanSelfAt(k) => all[k][2].through \in Relations!Known
    BY <1>1, PlanApart DEF Relations!Known
  <2> QED
    BY <2>1, <2>2, <2>3, <2>4, <2>5
<1>12. ASSUME NEW j \in planLinks, PlanPluralAt(j, m), Arrays[j.owner] = <<j.owner>>,
              s = j.owner
       PROVE  /\ ~\E l \in planLinks : l.owner = m /\ s = PlanObjectName(l)
              /\ ~(PlanOwnerless(m) /\ s = "user")
              /\ ~\E k : PlanSelfAt(k) /\ s = all[k][2].through
  <2>1. s \in Relations!Known /\ s \notin System
    BY <1>1, <1>12, PlanLinkFacts DEF Relations!Known
  <2>2. ASSUME NEW l \in planLinks, l.owner = m, s = PlanObjectName(l) PROVE FALSE
    <3>1. l.to = j.owner
      BY <1>2, <1>12, <2>1, <2>2
    <3>2. Relations!SharedPlural
      BY <1>12, <2>2, <3>1 DEF Relations!SharedPlural, PlanPluralAt
    <3> QED
      BY <1>1, <3>2 DEF PlanBase, Relations!Odd
  <2>3. PlanOwnerless(m) => "user" \in System
    BY <1>1, PlanApart
  <2>4. \A k : PlanSelfAt(k) => s # all[k][2].through
    BY <1>1, <1>12, PlanApart
  <2> QED
    BY <2>1, <2>2, <2>3, <2>4
<1>8. CASE \E l \in planLinks : l.owner = m /\ x = PlanObject(l) /\ s = PlanObjectName(l)
  <2>1. PICK l \in planLinks : l.owner = m /\ x = PlanObject(l) /\ s = PlanObjectName(l)
    BY <1>8
  <2>2. PICK j \in planLinks : j.owner = m /\ y = PlanObject(j) /\ s = PlanObjectName(j)
    BY <1>3, <1>4, <1>11, <1>12, <2>1, ZenonT(40) DEF PlanShort
  <2> QED
    BY <1>6, <2>1, <2>2
<1>9. CASE PlanOwnerless(m) /\ x = PlanOwnObject(m) /\ s = "user"
  <2>1. y = PlanOwnObject(y.model)
    BY <1>3, <1>5, <1>9, <1>11, <1>12, ZenonT(40) DEF PlanShort
  <2> QED
    BY <1>9, <2>1
<1>10. CASE \E k : /\ PlanSelfAt(k) /\ all[k][1] = m /\ x = PlanSelfBack(k, 1)
                   /\ s = all[k][2].through
  <2>1. PICK k : /\ PlanSelfAt(k) /\ all[k][1] = m /\ x = PlanSelfBack(k, 1)
                 /\ s = all[k][2].through
    BY <1>10
  <2>2. PICK j : PlanSelfAt(j) /\ y = PlanSelfBack(j, 1) /\ s = all[j][2].through
    BY <1>4, <1>5, <1>11, <1>12, <2>1, ZenonT(40) DEF PlanShort
  <2> QED
    BY <1>7, <2>1, <2>2
<1>13. CASE \E l \in planLinks : /\ l.owner = m /\ x = PlanColumn(l)
                                /\ l.ending = "" /\ s = l.stem
  <2>1. PICK l \in planLinks : l.owner = m /\ x = PlanColumn(l) /\ l.ending = "" /\ s = l.stem
    BY <1>13
  <2>2. PICK j \in planLinks : j.owner = m /\ y = PlanColumn(j) /\ s = j.stem
    BY <1>11, <2>1, ZenonT(40) DEF PlanShort
  <2>3. l = j
    BY <1>1, <2>1, <2>2, PlanFirst
  <2> QED
    BY <2>1, <2>2, <2>3
<1>14. CASE \E l \in planLinks : /\ PlanPluralAt(l, m) /\ x = Relations!BackField(l)
                                /\ Arrays[l.owner] = <<l.owner>> /\ s = l.owner
  <2>1. PICK l \in planLinks : /\ PlanPluralAt(l, m) /\ x = Relations!BackField(l)
                              /\ Arrays[l.owner] = <<l.owner>> /\ s = l.owner
    BY <1>14
  <2>2. PICK j \in planLinks : PlanPluralAt(j, m) /\ y = Relations!BackField(j) /\ s = j.owner
    BY <1>11, <1>12, <2>1, ZenonT(40) DEF PlanShort
  <2>3. l = j
    BY <2>1, <2>2 DEF PlanPluralAt, Relations!Several
  <2> QED
    BY <2>1, <2>2, <2>3
<1> QED
  BY <1>8, <1>9, <1>10, <1>13, <1>14 DEF PlanShort

LEMMA PlanMiddleSame ==
    ASSUME PlanRendered, NEW x, NEW y, NEW a, NEW b, x.model = y.model,
           x.model \in Relations!Names, PlanMiddle(x, a, b), PlanMiddle(y, a, b)
    PROVE  x = y
<1> DEFINE m == x.model
<1>1. PlanReady /\ PlanBase
  BY DEF PlanRendered, PlanReady
<1>2. ASSUME NEW k, PlanSelfAt(k) PROVE all[k][2].through \notin Relations!Endings \cup {"s", "ies"}
  <2>1. all[k][2].through \in Relations!Known
    BY <1>1, <1>2, PlanApart DEF Relations!Known
  <2> QED
    BY <1>1, <2>1 DEF PlanBase, PlanStated, Relations!RelationPlanAssumption
<1>3. ASSUME NEW l \in planLinks, l.owner = m, l.stem = "user" PROVE ~PlanOwnerless(m)
  <2>1. ASSUME PlanOwnerless(m) PROVE FALSE
    <3>1. "user" \in Relations!Known
      BY <1>1, <2>1, PlanApart DEF Relations!Known
    <3>2. l.to = "user"
      BY <1>1, <1>3, <3>1, PlanLinkFacts
    <3> QED
      BY <1>1, <1>3, <2>1, <3>2, PlanApart
  <2> QED
    BY <2>1
<1>4. "Id" \in Relations!Endings /\ (b \in Relations!Endings => b \notin {"s", "ies"})
  BY DEF Relations!Endings
<1>5. CASE \E l \in planLinks : /\ l.owner = m /\ x = PlanColumn(l)
                               /\ b \in Relations!Endings /\ a = l.stem
  <2>1. PICK l \in planLinks : /\ l.owner = m /\ x = PlanColumn(l)
                              /\ b \in Relations!Endings /\ a = l.stem
    BY <1>5
  <2>2. PICK j \in planLinks : j.owner = m /\ y = PlanColumn(j) /\ a = j.stem
    <3>1. b \notin {"s", "ies"} /\ (\A k : PlanSelfAt(k) => b # all[k][2].through)
      BY <1>2, <1>4, <2>1
    <3>2. ~(PlanOwnerless(m) /\ a = "user")
      BY <1>3, <2>1
    <3> QED
      BY <3>1, <3>2, Zenon DEF PlanMiddle
  <2>3. l = j
    BY <1>1, <2>1, <2>2, PlanFirst
  <2> QED
    BY <2>1, <2>2, <2>3
<1>6. CASE \E l \in planLinks : /\ PlanPluralAt(l, m) /\ x = Relations!BackField(l)
                               /\ Arrays[l.owner] = <<a, b>> /\ b \in {"s", "ies"}
  <2>1. PICK l \in planLinks : /\ PlanPluralAt(l, m) /\ x = Relations!BackField(l)
                              /\ Arrays[l.owner] = <<a, b>> /\ b \in {"s", "ies"}
    BY <1>6
  <2>2. PICK j \in planLinks : /\ PlanPluralAt(j, m) /\ y = Relations!BackField(j)
                              /\ Arrays[j.owner] = <<a, b>>
    <3>1. /\ b \notin Relations!Endings /\ b # "Id"
          /\ \A k : PlanSelfAt(k) => b # all[k][2].through
      BY <1>2, <1>4, <2>1
    <3> QED
      BY <3>1, Zenon DEF PlanMiddle
  <2>3. l.owner = j.owner
    <3>1. l.to = j.to /\ Arrays[l.owner] = Arrays[j.owner]
      BY <2>1, <2>2 DEF PlanPluralAt
    <3>2. ~Relations!SharedPlural
      BY <1>1 DEF PlanBase, Relations!Odd
    <3> QED
      BY <3>1, <3>2 DEF Relations!SharedPlural
  <2>4. l = j
    BY <2>1, <2>2, <2>3 DEF PlanPluralAt, Relations!Several
  <2> QED
    BY <2>1, <2>2, <2>4
<1>7. CASE PlanOwnerless(m) /\ x = PlanOwnColumn(m) /\ a = "user" /\ b = "Id"
  <2>1. y = PlanOwnColumn(y.model)
    <3>1. b \notin {"s", "ies"} /\ (\A k : PlanSelfAt(k) => b # all[k][2].through)
      BY <1>2, <1>4, <1>7
    <3>2. ~\E l \in planLinks : l.owner = m /\ a = l.stem
      BY <1>3, <1>7
    <3> QED
      BY <3>1, <3>2, Zenon DEF PlanMiddle
  <2> QED
    BY <1>7, <2>1
<1>8. CASE \E k : /\ PlanSelfAt(k) /\ all[k][1] = m /\ x = PlanSelfBack(k, 2)
                  /\ a = "related" /\ b = all[k][2].through
  <2>1. PICK k : /\ PlanSelfAt(k) /\ all[k][1] = m /\ x = PlanSelfBack(k, 2)
                 /\ b = all[k][2].through
    BY <1>8
  <2>2. b # "Id" /\ b \notin {"s", "ies"} /\ b \notin Relations!Endings
    BY <1>2, <1>4, <2>1
  <2>3. PICK j : PlanSelfAt(j) /\ y = PlanSelfBack(j, 2) /\ b = all[j][2].through
    BY <2>2, Zenon DEF PlanMiddle
  <2>4. j = k
    BY <1>1, <2>1, <2>3, PlanApart, PlanJoinOfOne DEF PlanSelfAt
  <2> QED
    BY <2>1, <2>3, <2>4
<1> QED
  BY <1>5, <1>6, <1>7, <1>8 DEF PlanMiddle

LEMMA PlanLongSame ==
    ASSUME PlanRendered, NEW x, NEW y, NEW a, NEW b, PlanLong(x, a, b), PlanLong(y, a, b)
    PROVE  x = y
<1>1. PICK l \in planLinks : x = Relations!BackField(l) /\ a = l.stem /\ b = l.owner
  BY DEF PlanLong
<1>2. PICK j \in planLinks : y = Relations!BackField(j) /\ a = j.stem /\ b = j.owner
  BY DEF PlanLong
<1>3. l = j
  BY <1>1, <1>2, PlanFirst DEF PlanRendered
<1> QED
  BY <1>1, <1>2, <1>3

\* What a field is rendered for, by the kind of its model.
LEMMA PlanBackParts ==
    ASSUME NEW l
    PROVE  LET x == Relations!BackField(l) IN
           /\ x.model = l.to /\ x.to = l.owner /\ x.side = "back"
           /\ x.rel = Relations!NameOf(l) /\ x.of = <<"link", l>>
           /\ \/ x.name = Arrays[l.owner] /\ ~Relations!Several(l) /\ l.owner # l.to
              \/ x.name = <<l.stem, l.owner, "s">>
                 /\ (Relations!Several(l) \/ l.owner = l.to)
BY DEF Relations!BackField, Relations!Field, Relations!BackName

LEMMA PlanSystemParts ==
    ASSUME PlanBase, NEW k, PlanToSystem(k)
    PROVE  LET x == Relations!SystemBack(k)
               others == Relations!OwningTo(all[k][1], all[k][2].to) IN
           /\ x.model = all[k][2].to /\ x.to = all[k][1] /\ x.side = "back"
           /\ x.of = <<"relation", k>>
           /\ \/ x.name = <<all[k][1], "s">> /\ x.rel = <<>> /\ others = {k}
              \/ /\ x.name = <<Relations!Stem(all[k][2]), all[k][1], "s">>
                 /\ x.rel = <<all[k][1], Relations!Stem(all[k][2])>>
                 /\ \E j \in others : j # k
<1> DEFINE others == Relations!OwningTo(all[k][1], all[k][2].to)
<1>1. k \in PlanIndex /\ all[k][2].to \in System
  BY DEF PlanToSystem
<1>2. all[k][2].type \in Relations!Direct
  BY <1>1, PlanAt, PlanStrings
<1>3. k \in others /\ others \in SUBSET PlanIndex
  BY <1>1, <1>2, PlanOwning
<1>4. Relations!Cardinality(others) = 1 <=> \E j : others = {j}
  BY <1>3, PlanCount
<1>5. CASE Relations!Cardinality(others) = 1
  <2>1. others = {k}
    BY <1>3, <1>4, <1>5
  <2>2. Relations!SystemBack(k)
            = Relations!Field(all[k][2].to, <<all[k][1], "s">>, all[k][1], "back", <<>>,
                              <<"relation", k>>)
    BY <1>5 DEF Relations!SystemBack
  <2> QED
    BY <2>1, <2>2, PlanFieldParts
<1>6. CASE Relations!Cardinality(others) # 1
  <2>1. \E j \in others : j # k
    BY <1>3, <1>4, <1>6
  <2>2. Relations!SystemBack(k)
            = Relations!Field(all[k][2].to, <<Relations!Stem(all[k][2]), all[k][1], "s">>,
                              all[k][1], "back", <<all[k][1], Relations!Stem(all[k][2])>>,
                              <<"relation", k>>)
    BY <1>6 DEF Relations!SystemBack
  <2> QED
    BY <2>1, <2>2, PlanFieldParts
<1> QED
  BY <1>5, <1>6

\* The parts of the other fields.
LEMMA PlanLinkParts2 ==
    ASSUME NEW l
    PROVE  /\ LET x == PlanColumn(l) IN
              /\ x.model = l.owner /\ x.name = Relations!ColumnName(l) /\ x.to = None
              /\ x.side = "column" /\ x.of = <<"link", l>>
           /\ LET x == PlanObject(l) IN
              /\ x.model = l.owner /\ x.name = <<PlanObjectName(l)>> /\ x.to = l.to
              /\ x.side = "owner" /\ x.rel = Relations!NameOf(l) /\ x.of = <<"link", l>>
BY PlanFieldParts DEF PlanColumn, PlanObject

LEMMA PlanDeclaredParts ==
    ASSUME NEW q
    PROVE  LET x == PlanDeclaredField(q) IN
           x.model = q[1] /\ x.name = q[2] /\ x.to = None /\ x.side = "plain"
BY PlanFieldParts DEF PlanDeclaredField

LEMMA PlanOwnParts ==
    ASSUME NEW r
    PROVE  /\ LET x == PlanOwnColumn(r) IN
              /\ x.model = r /\ x.name = <<"user", "Id">> /\ x.to = None /\ x.side = "column"
              /\ x.of = <<"owner", r>>
           /\ LET x == PlanOwnObject(r) IN
              /\ x.model = r /\ x.name = <<"user">> /\ x.to = "user" /\ x.side = "owner"
              /\ x.rel = <<>> /\ x.of = <<"owner", r>>
           /\ LET x == PlanOwnBack(r) IN
              /\ x.model = "user" /\ x.name = <<"owned", r, "s">> /\ x.to = r
              /\ x.side = "back" /\ x.rel = <<>> /\ x.of = <<"owner", r>>
BY PlanFieldParts DEF PlanOwnColumn, PlanOwnObject, PlanOwnBack

LEMMA PlanSelfParts ==
    ASSUME NEW k, NEW h
    PROVE  /\ LET x == PlanSelfColumn(k, h) IN
              /\ x.model = all[k][2].through /\ x.name = PlanHalfKey(all[k][1], h)
              /\ x.to = None /\ x.side = "column"
           /\ LET x == PlanSelfObject(k, h) IN
              /\ x.model = all[k][2].through /\ x.name = PlanHalfName(all[k][1], h)
              /\ x.to = all[k][1] /\ x.side = "owner" /\ x.rel = PlanHalfRel(k, h)
           /\ LET x == PlanSelfBack(k, h) IN
              /\ x.model = all[k][1] /\ x.name = PlanHalfName(all[k][2].through, h)
              /\ x.to = all[k][2].through /\ x.side = "back" /\ x.rel = PlanHalfRel(k, h)
BY PlanFieldParts DEF PlanSelfColumn, PlanSelfObject, PlanSelfBack

\* The fields of a resource, of a join table, and of a system resource.
LEMMA PlanOfResource ==
    ASSUME PlanRendered, NEW x \in fields, x.model \in Relations!Names
    PROVE  \/ \E s : PlanShort(x, s) /\ x.name = <<s>>
           \/ \E a, b : PlanMiddle(x, a, b) /\ x.name = <<a, b>>
           \/ \E a, b : PlanLong(x, a, b) /\ x.name = <<a, b, "s">>
           \/ IsDeclaredField(x)
<1>1. PlanReady /\ PlanBase
  BY DEF PlanRendered, PlanReady
<1>2. System \cap Relations!Names = {}
  BY <1>1, PlanStrings
<1>3. CASE IsLinkField(x)
  <2>1. PICK l \in planLinks : \/ x = PlanColumn(l) \/ x = PlanObject(l)
                               \/ x = Relations!BackField(l)
    BY <1>3 DEF IsLinkField
  <2>2. CASE x = PlanColumn(l)
    <3>1. x.model = l.owner /\ x.name = Relations!ColumnName(l)
      BY <2>2, PlanLinkParts2
    <3>2. CASE l.ending = ""
      <4>1. PlanShort(x, l.stem) /\ x.name = <<l.stem>>
        BY <2>2, <3>1, <3>2, PlanColumnName DEF PlanShort
      <4> QED
        BY <4>1
    <3>3. CASE l.ending # ""
      <4>1. l.ending \in Relations!Endings
        BY <1>1, <3>3, PlanLinkFacts
      <4>2. PlanMiddle(x, l.stem, l.ending) /\ x.name = <<l.stem, l.ending>>
        BY <2>2, <3>1, <3>3, <4>1, PlanColumnName DEF PlanMiddle
      <4> QED
        BY <4>2
    <3> QED
      BY <3>2, <3>3
  <2>3. CASE x = PlanObject(l)
    <3>1. PlanShort(x, PlanObjectName(l)) /\ x.name = <<PlanObjectName(l)>>
      BY <2>3, PlanLinkParts2 DEF PlanShort
    <3> QED
      BY <3>1
  <2>4. CASE x = Relations!BackField(l)
    <3>1. x.model = l.to
      BY <2>4, PlanBackParts
    <3>2. CASE x.name = Arrays[l.owner] /\ ~Relations!Several(l) /\ l.owner # l.to
      <4>1. PlanPluralAt(l, x.model)
        BY <3>1, <3>2 DEF PlanPluralAt
      <4>2. CASE Arrays[l.owner] = <<l.owner>>
        <5>1. PlanShort(x, l.owner)
          BY <2>4, <4>1, <4>2 DEF PlanShort
        <5> QED
          BY <3>2, <4>2, <5>1
      <4>3. CASE \E a, b : Arrays[l.owner] = <<a, b>> /\ b \in {"s", "ies"}
        <5>1. PICK a, b : Arrays[l.owner] = <<a, b>> /\ b \in {"s", "ies"}
          BY <4>3
        <5>2. PlanMiddle(x, a, b)
          BY <2>4, <4>1, <5>1 DEF PlanMiddle
        <5> QED
          BY <3>2, <5>1, <5>2
      <4>4. l.owner \in Relations!Names \cup Joins
        BY <1>1, PlanLinkFacts
      <4> QED
        BY <1>1, <4>2, <4>3, <4>4, PlanArray
    <3>3. CASE x.name = <<l.stem, l.owner, "s">>
      <4>1. PlanLong(x, l.stem, l.owner)
        BY <2>4, <3>1 DEF PlanLong
      <4> QED
        BY <3>3, <4>1
    <3> QED
      BY <2>4, <3>2, <3>3, PlanBackParts
  <2> QED
    BY <2>1, <2>2, <2>3, <2>4
<1>4. CASE IsSystemField(x)
  <2>1. PICK k : PlanToSystem(k) /\ x = Relations!SystemBack(k)
    BY <1>4 DEF IsSystemField
  <2>2. x.model \in System
    BY <1>1, <2>1, PlanSystemParts DEF PlanToSystem
  <2> QED
    BY <1>2, <2>2
<1>5. CASE IsOwnField(x)
  <2>1. PICK r : /\ PlanOwnerless(r)
                 /\ x = PlanOwnColumn(r) \/ x = PlanOwnObject(r) \/ x = PlanOwnBack(r)
    BY <1>5 DEF IsOwnField
  <2>2. CASE x = PlanOwnColumn(r)
    <3>1. PlanMiddle(x, "user", "Id") /\ x.name = <<"user", "Id">>
      BY <2>1, <2>2, PlanOwnParts DEF PlanMiddle
    <3> QED
      BY <3>1
  <2>3. CASE x = PlanOwnObject(r)
    <3>1. PlanShort(x, "user") /\ x.name = <<"user">>
      BY <2>1, <2>3, PlanOwnParts DEF PlanShort
    <3> QED
      BY <3>1
  <2>4. CASE x = PlanOwnBack(r)
    <3>1. x.model \in System
      BY <1>1, <2>1, <2>4, PlanOwnParts, PlanApart
    <3> QED
      BY <1>2, <3>1
  <2> QED
    BY <2>1, <2>2, <2>3, <2>4
<1>6. CASE IsSelfField(x)
  <2>1. PICK k : /\ PlanSelfAt(k)
                 /\ \E h \in {1, 2} : \/ x = PlanSelfColumn(k, h) \/ x = PlanSelfObject(k, h)
                                      \/ x = PlanSelfBack(k, h)
    BY <1>6 DEF IsSelfField
  <2>2. PICK h \in {1, 2} : \/ x = PlanSelfColumn(k, h) \/ x = PlanSelfObject(k, h)
                            \/ x = PlanSelfBack(k, h)
    BY <2>1
  <2>3. x = PlanSelfBack(k, h)
    BY <1>1, <2>1, <2>2, PlanSelfParts, PlanApart
  <2>4. x.model = all[k][1] /\ x.name = PlanHalfName(all[k][2].through, h)
    BY <2>3, PlanSelfParts
  <2>5. CASE h = 1
    <3>1. PlanShort(x, all[k][2].through) /\ x.name = <<all[k][2].through>>
      BY <2>1, <2>2, <2>3, <2>4, <2>5 DEF PlanShort, PlanHalfName
    <3> QED
      BY <3>1
  <2>6. CASE h = 2
    <3>1. PlanMiddle(x, "related", all[k][2].through) /\ x.name = <<"related", all[k][2].through>>
      BY <2>1, <2>2, <2>3, <2>4, <2>6 DEF PlanMiddle, PlanHalfName
    <3> QED
      BY <3>1
  <2> QED
    BY <2>2, <2>5, <2>6
<1> QED
  BY <1>1, <1>3, <1>4, <1>5, <1>6, PlanFieldKinds DEF PlanRendered

LEMMA PlanDeclaredModel ==
    ASSUME PlanReady, NEW x, IsDeclaredField(x) PROVE x.model \in Relations!Names
<1>1. PICK p : PlanDeclaredAt(p) /\ x = PlanDeclaredField(p)
  BY DEF IsDeclaredField
<1>2. Plain \subseteq Relations!Names \X Seq(STRING)
  BY DEF PlanReady, PlanBase, PlanStated, Relations!RelationPlanAssumption
<1>3. p[1] \in Relations!Names
  BY <1>1, <1>2 DEF PlanDeclaredAt
<1> QED
  BY <1>1, <1>3, PlanDeclaredParts

LEMMA PlanOfOther ==
    ASSUME PlanRendered, NEW x \in fields, x.model \notin Relations!Names
    PROVE  \/ /\ x.model \in System
              /\ \/ \E k : PlanToSystem(k) /\ x = Relations!SystemBack(k)
                 \/ \E r : PlanOwnerless(r) /\ x = PlanOwnBack(r)
           \/ /\ x.model \notin System
              /\ \E l \in planLinks : /\ l.owner = x.model
                                      /\ x = PlanColumn(l) \/ x = PlanObject(l)
           \/ /\ x.model \notin System
              /\ \E k : /\ PlanSelfAt(k) /\ all[k][2].through = x.model
                        /\ \E h \in {1, 2} : x = PlanSelfColumn(k, h) \/ x = PlanSelfObject(k, h)
<1>1. PlanReady /\ PlanBase
  BY DEF PlanRendered, PlanReady
<1>2. CASE IsLinkField(x)
  <2>1. PICK l \in planLinks : \/ x = PlanColumn(l) \/ x = PlanObject(l)
                               \/ l.to \in Relations!Names /\ x = Relations!BackField(l)
    BY <1>2 DEF IsLinkField
  <2>2. x = PlanColumn(l) \/ x = PlanObject(l)
    BY <2>1, PlanBackParts
  <2>3. l.owner = x.model
    BY <2>2, PlanLinkParts2
  <2>4. x.model \notin System
    BY <1>1, <2>3, PlanLinkFacts
  <2> QED
    BY <2>2, <2>3, <2>4
<1>3. CASE IsSystemField(x)
  <2>1. PICK k : PlanToSystem(k) /\ x = Relations!SystemBack(k)
    BY <1>3 DEF IsSystemField
  <2>2. x.model \in System
    BY <1>1, <2>1, PlanSystemParts DEF PlanToSystem
  <2> QED
    BY <2>1, <2>2
<1>4. CASE IsOwnField(x)
  <2>1. PICK r : /\ PlanOwnerless(r)
                 /\ x = PlanOwnColumn(r) \/ x = PlanOwnObject(r) \/ x = PlanOwnBack(r)
    BY <1>4 DEF IsOwnField
  <2>2. r \in Relations!Names /\ "user" \in System
    BY <1>1, <2>1, PlanApart
  <2>3. x = PlanOwnBack(r) /\ x.model = "user"
    BY <2>1, <2>2, PlanOwnParts
  <2> QED
    BY <2>1, <2>2, <2>3
<1>5. CASE IsSelfField(x)
  <2>1. PICK k : /\ PlanSelfAt(k)
                 /\ \E h \in {1, 2} : \/ x = PlanSelfColumn(k, h) \/ x = PlanSelfObject(k, h)
                                      \/ x = PlanSelfBack(k, h)
    BY <1>5 DEF IsSelfField
  <2>2. PICK h \in {1, 2} : \/ x = PlanSelfColumn(k, h) \/ x = PlanSelfObject(k, h)
                            \/ x = PlanSelfBack(k, h)
    BY <2>1
  <2>3. all[k][1] \in Relations!Names /\ all[k][2].through \notin System
    BY <1>1, <2>1, PlanApart
  <2>4. x = PlanSelfColumn(k, h) \/ x = PlanSelfObject(k, h)
    BY <2>2, <2>3, PlanSelfParts
  <2>5. x.model = all[k][2].through
    BY <2>4, PlanSelfParts
  <2> QED
    BY <2>1, <2>2, <2>3, <2>4, <2>5
<1>6. ASSUME IsDeclaredField(x) PROVE FALSE
  BY <1>1, <1>6, PlanDeclaredModel
<1> QED
  BY <1>1, <1>2, <1>3, <1>4, <1>5, <1>6, PlanFieldKinds DEF PlanRendered

LEMMA PlanSystemSame ==
    ASSUME PlanRendered, NEW x \in fields, NEW y \in fields, x.model = y.model,
           x.name = y.name, x.model \in System
    PROVE  x = y
<1>1. PlanReady /\ PlanBase
  BY DEF PlanRendered, PlanReady
<1>2. x.model \notin Relations!Names
  BY <1>1, PlanStrings
<1>3. ASSUME NEW z \in fields, z.model = x.model
      PROVE  \/ \E k : PlanToSystem(k) /\ z = Relations!SystemBack(k)
             \/ \E r : PlanOwnerless(r) /\ z = PlanOwnBack(r)
  BY <1>2, <1>3, PlanOfOther
<1>4. ASSUME NEW j, PlanToSystem(j), NEW k, PlanToSystem(k),
             all[j][2].to = all[k][2].to,
             Relations!SystemBack(j).name = Relations!SystemBack(k).name
      PROVE  j = k
  <2> DEFINE a == Relations!SystemBack(j).name
             b == Relations!SystemBack(k).name
  <2>1. /\ PlanDirectAt(j) /\ j \in Relations!OwningTo(all[j][1], all[j][2].to)
        /\ PlanDirectAt(k) /\ k \in Relations!OwningTo(all[k][1], all[k][2].to)
    BY <1>1, <1>4, PlanApart
  <2>2. \/ a = <<all[j][1], "s">> /\ Relations!OwningTo(all[j][1], all[j][2].to) = {j}
        \/ a = <<Relations!Stem(all[j][2]), all[j][1], "s">>
    BY <1>1, <1>4, PlanSystemParts
  <2>3. \/ b = <<all[k][1], "s">> /\ Relations!OwningTo(all[k][1], all[k][2].to) = {k}
        \/ b = <<Relations!Stem(all[k][2]), all[k][1], "s">>
    BY <1>1, <1>4, PlanSystemParts
  <2>4. a = b
    BY <1>4
  <2> HIDE DEF a, b
  <2>5. CASE a = <<all[j][1], "s">> /\ Relations!OwningTo(all[j][1], all[j][2].to) = {j}
    <3>1. b = <<all[k][1], "s">>
      BY <2>3, <2>4, <2>5, PlanTuples
    <3>2. <<all[j][1], "s">> = <<all[k][1], "s">>
      BY <2>4, <2>5, <3>1, Zenon
    <3>3. all[j][1] = all[k][1]
      BY <3>2
    <3> QED
      BY <1>4, <2>1, <2>5, <3>3
  <2>6. CASE a = <<Relations!Stem(all[j][2]), all[j][1], "s">>
    <3>1. b = <<Relations!Stem(all[k][2]), all[k][1], "s">>
      BY <2>3, <2>4, <2>6, PlanTuples
    <3>2. <<Relations!Stem(all[j][2]), all[j][1], "s">>
            = <<Relations!Stem(all[k][2]), all[k][1], "s">>
      BY <2>4, <2>6, <3>1, Zenon
    <3>3. all[j][1] = all[k][1] /\ Relations!Stem(all[j][2]) = Relations!Stem(all[k][2])
      BY <3>2
    <3> QED
      BY <1>1, <2>1, <3>3, PlanKeyOfOne DEF PlanDirectAt
  <2> QED
    BY <2>2, <2>5, <2>6
<1>5. ASSUME NEW k, PlanToSystem(k), NEW r, PlanOwnerless(r), all[k][2].to = "user",
             Relations!SystemBack(k).name = PlanOwnBack(r).name
      PROVE  FALSE
  <2>1. PlanOwnBack(r).name = <<"owned", r, "s">>
    BY PlanOwnParts
  <2>2. \/ Relations!SystemBack(k).name = <<all[k][1], "s">>
        \/ Relations!SystemBack(k).name = <<Relations!Stem(all[k][2]), all[k][1], "s">>
    BY <1>1, <1>5, PlanSystemParts
  <2>3. all[k][1] = r
    BY <1>5, <2>1, <2>2, PlanTuples, PlanTuple3
  <2> QED
    BY <1>1, <1>5, <2>3, PlanApart
<1>6. CASE \E k : PlanToSystem(k) /\ x = Relations!SystemBack(k)
  <2>1. PICK k : PlanToSystem(k) /\ x = Relations!SystemBack(k)
    BY <1>6
  <2>2. x.model = all[k][2].to
    BY <1>1, <2>1, PlanSystemParts
  <2>3. CASE \E j : PlanToSystem(j) /\ y = Relations!SystemBack(j)
    <3>1. PICK j : PlanToSystem(j) /\ y = Relations!SystemBack(j)
      BY <2>3
    <3>2. y.model = all[j][2].to
      BY <1>1, <3>1, PlanSystemParts
    <3>3. j = k
      BY <1>4, <2>1, <2>2, <3>1, <3>2
    <3> QED
      BY <2>1, <3>1, <3>3
  <2>4. CASE \E r : PlanOwnerless(r) /\ y = PlanOwnBack(r)
    <3>1. PICK r : PlanOwnerless(r) /\ y = PlanOwnBack(r)
      BY <2>4
    <3>2. y.model = "user"
      BY <3>1, PlanOwnParts
    <3> QED
      BY <1>5, <2>1, <2>2, <3>1, <3>2
  <2> QED
    BY <1>3, <2>3, <2>4
<1>7. CASE \E r : PlanOwnerless(r) /\ x = PlanOwnBack(r)
  <2>1. PICK r : PlanOwnerless(r) /\ x = PlanOwnBack(r)
    BY <1>7
  <2>2. x.model = "user" /\ x.name = <<"owned", r, "s">>
    BY <2>1, PlanOwnParts
  <2>3. CASE \E j : PlanToSystem(j) /\ y = Relations!SystemBack(j)
    <3>1. PICK j : PlanToSystem(j) /\ y = Relations!SystemBack(j)
      BY <2>3
    <3>2. y.model = all[j][2].to
      BY <1>1, <3>1, PlanSystemParts
    <3> QED
      BY <1>5, <2>1, <2>2, <3>1, <3>2
  <2>4. CASE \E s : PlanOwnerless(s) /\ y = PlanOwnBack(s)
    <3>1. PICK s : PlanOwnerless(s) /\ y = PlanOwnBack(s)
      BY <2>4
    <3>2. y.name = <<"owned", s, "s">>
      BY <3>1, PlanOwnParts
    <3>3. <<"owned", r, "s">> = <<"owned", s, "s">>
      BY <2>2, <3>2, Zenon
    <3>4. r = s
      BY <3>3
    <3> QED
      BY <2>1, <3>1, <3>4
  <2> QED
    BY <1>3, <2>3, <2>4
<1> QED
  BY <1>3, <1>6, <1>7

LEMMA PlanHalfNames ==
    ASSUME PlanBase, NEW r \in Relations!Names, NEW h \in {1, 2}, NEW i \in {1, 2}
    PROVE  /\ PlanHalfName(r, h) = PlanHalfName(r, i) => h = i
           /\ PlanHalfKey(r, h) = PlanHalfKey(r, i) => h = i
           /\ PlanHalfName(r, h) # PlanHalfKey(r, i)
<1>1. /\ PlanHalfName(r, 1) = <<r>> /\ PlanHalfName(r, 2) = <<"related", r>>
      /\ PlanHalfKey(r, 1) = <<r, "Id">> /\ PlanHalfKey(r, 2) = <<"related", r, "Id">>
  BY DEF PlanHalfName, PlanHalfKey
<1>2. r # "Id"
  <2>1. r \in Relations!Known
    BY DEF Relations!Known
  <2> QED
    BY <2>1
       DEF PlanBase, PlanStated, Relations!RelationPlanAssumption, Relations!Endings
<1>3. /\ <<r>> # <<"related", r>> /\ <<r, "Id">> # <<"related", r, "Id">>
      /\ <<r>> # <<r, "Id">> /\ <<r>> # <<"related", r, "Id">>
      /\ <<"related", r>> # <<r, "Id">> /\ <<"related", r>> # <<"related", r, "Id">>
  BY <1>2, PlanTuples
<1> QED
  BY <1>1, <1>3

LEMMA PlanJoinSame ==
    ASSUME PlanRendered, NEW x \in fields, NEW y \in fields, x.model = y.model,
           x.name = y.name, x.model \notin System, x.model \notin Relations!Names
    PROVE  x = y
<1>1. PlanReady /\ PlanBase
  BY DEF PlanRendered, PlanReady
<1>2. ASSUME NEW z \in fields, z.model = x.model
      PROVE  \/ \E l \in planLinks : l.owner = x.model /\ (z = PlanColumn(l) \/ z = PlanObject(l))
             \/ \E k : /\ PlanSelfAt(k) /\ all[k][2].through = x.model
                       /\ \E h \in {1, 2} : z = PlanSelfColumn(k, h) \/ z = PlanSelfObject(k, h)
  BY <1>2, PlanOfOther
<1>3. CASE \E l \in planLinks : l.owner = x.model /\ (x = PlanColumn(l) \/ x = PlanObject(l))
  <2>1. PICK l \in planLinks : l.owner = x.model /\ (x = PlanColumn(l) \/ x = PlanObject(l))
    BY <1>3
  <2>2. PICK j \in planLinks : j.owner = x.model /\ (y = PlanColumn(j) \/ y = PlanObject(j))
    BY <1>1, <1>2, <2>1, PlanApart
  <2>6. IsPlainLink(l) /\ IsPlainLink(j)
    BY <1>1, <2>1, <2>2, PlanLinkFacts
  <2>7. /\ Relations!ColumnName(l) = <<l.stem, "Id">>
        /\ Relations!ColumnName(j) = <<j.stem, "Id">>
    BY <2>6, PlanColumnName, PlanPlainParts
  <2>3. /\ PlanColumn(l).name = <<l.stem, "Id">> /\ PlanColumn(j).name = <<j.stem, "Id">>
        /\ PlanObject(l).name = <<l.to>> /\ PlanObject(j).name = <<j.to>>
        /\ l.to = l.stem /\ j.to = j.stem
    BY <2>1, <2>2, <2>6, <2>7, <1>1, PlanLinkParts2, PlanPlainParts DEF PlanObjectName
  <2>4. l.stem = j.stem /\ (x = PlanColumn(l) <=> y = PlanColumn(j))
    BY <2>1, <2>2, <2>3, PlanTuples
  <2>5. l = j
    BY <1>1, <2>1, <2>2, <2>4, PlanFirst
  <2> QED
    BY <2>1, <2>2, <2>4, <2>5
<1>4. CASE \E k : /\ PlanSelfAt(k) /\ all[k][2].through = x.model
                  /\ \E h \in {1, 2} : x = PlanSelfColumn(k, h) \/ x = PlanSelfObject(k, h)
  <2>1. PICK k : /\ PlanSelfAt(k) /\ all[k][2].through = x.model
                 /\ \E h \in {1, 2} : x = PlanSelfColumn(k, h) \/ x = PlanSelfObject(k, h)
    BY <1>4
  <2>2. PICK j : /\ PlanSelfAt(j) /\ all[j][2].through = x.model
                 /\ \E i \in {1, 2} : y = PlanSelfColumn(j, i) \/ y = PlanSelfObject(j, i)
    BY <1>1, <1>2, <2>1, PlanApart
  <2>3. PICK h \in {1, 2} : x = PlanSelfColumn(k, h) \/ x = PlanSelfObject(k, h)
    BY <2>1
  <2>4. PICK i \in {1, 2} : y = PlanSelfColumn(j, i) \/ y = PlanSelfObject(j, i)
    BY <2>2
  <2>5. j = k /\ all[k][1] \in Relations!Names
    BY <1>1, <2>1, <2>2, PlanApart, PlanJoinOfOne DEF PlanSelfAt
  <2>6. /\ PlanSelfColumn(k, h).name = PlanHalfKey(all[k][1], h)
        /\ PlanSelfColumn(k, i).name = PlanHalfKey(all[k][1], i)
        /\ PlanSelfObject(k, h).name = PlanHalfName(all[k][1], h)
        /\ PlanSelfObject(k, i).name = PlanHalfName(all[k][1], i)
    BY PlanSelfParts
  <2>7. h = i /\ (x = PlanSelfColumn(k, h) <=> y = PlanSelfColumn(k, i))
    BY <1>1, <2>3, <2>4, <2>5, <2>6, PlanHalfNames
  <2> QED
    BY <2>3, <2>4, <2>5, <2>7
<1> QED
  BY <1>2, <1>3, <1>4

(***************************************************************************)
(* The two sides of a relation.  Each object field is rendered together    *)
(* with one other, and no other has its models and its name.               *)
(***************************************************************************)
IsLinkPair(f, g) ==
    \E l \in planLinks :
        l.to \in Relations!Names /\ f = PlanObject(l) /\ g = Relations!BackField(l)
IsSystemPair(f, g) ==
    \E k : PlanToSystem(k) /\ f = PlanObject(PlanLinkOf(k)) /\ g = Relations!SystemBack(k)
IsOwnPair(f, g) == \E r : PlanOwnerless(r) /\ f = PlanOwnObject(r) /\ g = PlanOwnBack(r)
IsSelfPair(f, g) ==
    \E k : /\ PlanSelfAt(k)
           /\ \E h \in {1, 2} : f = PlanSelfObject(k, h) /\ g = PlanSelfBack(k, h)
IsPair(f, g) == IsLinkPair(f, g) \/ IsSystemPair(f, g) \/ IsOwnPair(f, g) \/ IsSelfPair(f, g)

\* The object fields, by their side.
IsOwnerSide(x) ==
    \/ \E l \in planLinks : x = PlanObject(l)
    \/ \E r : PlanOwnerless(r) /\ x = PlanOwnObject(r)
    \/ \E k : PlanSelfAt(k) /\ \E h \in {1, 2} : x = PlanSelfObject(k, h)
IsBackSide(x) ==
    \/ \E l \in planLinks : l.to \in Relations!Names /\ x = Relations!BackField(l)
    \/ IsSystemField(x)
    \/ \E r : PlanOwnerless(r) /\ x = PlanOwnBack(r)
    \/ \E k : PlanSelfAt(k) /\ \E h \in {1, 2} : x = PlanSelfBack(k, h)

LEMMA PlanSides ==
    ASSUME PlanRendered, NEW x
    PROVE  /\ IsOwnerSide(x) => x \in fields /\ x.side = "owner"
           /\ IsBackSide(x) => x \in fields /\ x.side = "back"
           /\ x \in fields => \/ x.to = None /\ x.side \in {"column", "plain"}
                              \/ IsOwnerSide(x)
                              \/ IsBackSide(x)
<1>1. PlanReady /\ PlanBase /\ fields = Relations!Fields
  BY DEF PlanRendered, PlanReady
<1>2. x \in fields <=> \/ IsLinkField(x) \/ IsSystemField(x) \/ IsOwnField(x) \/ IsSelfField(x)
                      \/ IsDeclaredField(x)
  BY <1>1, PlanFieldKinds
<1>3. IsOwnerSide(x) => (IsLinkField(x) \/ IsOwnField(x) \/ IsSelfField(x)) /\ x.side = "owner"
  <2>1. IsOwnerSide(x) => IsLinkField(x) \/ IsOwnField(x) \/ IsSelfField(x)
    BY DEF IsOwnerSide, IsLinkField, IsOwnField, IsSelfField
  <2>2. IsOwnerSide(x) => x.side = "owner"
    <3>1. \A l : PlanObject(l).side = "owner"
      BY PlanLinkParts2
    <3>2. \A r : PlanOwnObject(r).side = "owner"
      BY PlanOwnParts
    <3>3. \A k, h : PlanSelfObject(k, h).side = "owner"
      BY PlanSelfParts
    <3> QED
      BY <3>1, <3>2, <3>3, Zenon DEF IsOwnerSide
  <2> QED
    BY <2>1, <2>2
<1>4. IsSystemField(x) => x.side = "back"
  BY <1>1, PlanSystemParts DEF IsSystemField
<1>5. IsBackSide(x) => /\ IsLinkField(x) \/ IsSystemField(x) \/ IsOwnField(x) \/ IsSelfField(x)
                       /\ x.side = "back"
  BY <1>4, PlanBackParts, PlanOwnParts, PlanSelfParts
     DEF IsBackSide, IsLinkField, IsOwnField, IsSelfField
<1>6. IsLinkField(x) => (x.to = None /\ x.side = "column") \/ IsOwnerSide(x) \/ IsBackSide(x)
  BY PlanLinkParts2 DEF IsLinkField, IsOwnerSide, IsBackSide
<1>7. IsOwnField(x) => (x.to = None /\ x.side = "column") \/ IsOwnerSide(x) \/ IsBackSide(x)
  BY PlanOwnParts DEF IsOwnField, IsOwnerSide, IsBackSide
<1>8. IsSelfField(x) => (x.to = None /\ x.side = "column") \/ IsOwnerSide(x) \/ IsBackSide(x)
  BY PlanSelfParts DEF IsSelfField, IsOwnerSide, IsBackSide
<1>9. IsSystemField(x) => IsBackSide(x)
  BY DEF IsBackSide
<1>10. IsDeclaredField(x) => x.to = None /\ x.side = "plain"
  BY PlanDeclaredParts DEF IsDeclaredField
<1> QED
  BY <1>2, <1>3, <1>5, <1>6, <1>7, <1>8, <1>9, <1>10

\* An object field is of a model.
LEMMA PlanToModel ==
    ASSUME PlanRendered, NEW x, IsOwnerSide(x) \/ IsBackSide(x) PROVE x.to # None
<1>1. PlanReady /\ PlanBase
  BY DEF PlanRendered, PlanReady
<1>2. Relations!Names \cup System \cup Joins \subseteq STRING /\ None \notin STRING
  BY <1>1, PlanStrings
<1>3. \A l \in planLinks : PlanObject(l).to # None /\ Relations!BackField(l).to # None
  BY <1>1, <1>2, PlanLinkFacts, PlanLinkParts2, PlanBackParts
<1>4. \A k : PlanToSystem(k) => Relations!SystemBack(k).to # None
  BY <1>1, <1>2, PlanSystemParts, PlanApart
<1>5. \A r : PlanOwnerless(r) => PlanOwnObject(r).to # None /\ PlanOwnBack(r).to # None
  BY <1>1, <1>2, PlanOwnParts, PlanApart
<1>6. \A k : PlanSelfAt(k) =>
          \A h : PlanSelfObject(k, h).to # None /\ PlanSelfBack(k, h).to # None
  BY <1>1, <1>2, PlanSelfParts, PlanApart
<1> QED
  BY <1>3, <1>4, <1>5, <1>6, Zenon DEF IsOwnerSide, IsBackSide, IsSystemField

\* A declared field has a name of its own: that of a key is left out, that of an object field
\* is among the exceptions.
LEMMA PlanDeclaredSame ==
    ASSUME PlanRendered, NEW x \in fields, NEW y \in fields, x.model = y.model,
           x.name = y.name, IsDeclaredField(x) \/ IsDeclaredField(y)
    PROVE  x = y
<1>1. PlanReady /\ PlanBase /\ fields = Relations!Fields
  BY DEF PlanRendered, PlanReady
<1>2. ASSUME NEW f \in fields, NEW g \in fields, f.model = g.model, f.name = g.name,
             IsDeclaredField(f)
      PROVE  f = g
  <2>1. PICK p : PlanDeclaredAt(p) /\ f = PlanDeclaredField(p)
    BY <1>2 DEF IsDeclaredField
  <2>2. f.model = p[1] /\ f.name = p[2] /\ f.side = "plain" /\ p[1] \in Relations!Names
    BY <1>1, <1>2, <2>1, PlanDeclaredParts, PlanDeclaredModel
  <2>3. ~(IsOwnerSide(g) \/ IsBackSide(g))
    <3>1. ASSUME IsOwnerSide(g) \/ IsBackSide(g) PROVE FALSE
      <4>1. g.to # None
        BY <3>1, PlanToModel
      <4>2. Relations!TakenName
        BY <1>2, <2>2, <4>1 DEF Relations!TakenName
      <4> QED
        BY <1>1, <4>2 DEF PlanBase, Relations!Odd
    <3> QED
      BY <3>1
  <2>4. CASE IsDeclaredField(g)
    <3>1. PICK q : PlanDeclaredAt(q) /\ g = PlanDeclaredField(q)
      BY <2>4 DEF IsDeclaredField
    <3>2. g.model = q[1] /\ g.name = q[2]
      BY <3>1, PlanDeclaredParts
    <3>3. p[1] = q[1] /\ p[2] = q[2]
      BY <1>2, <2>2, <3>2
    <3> QED
      BY <2>1, <3>1, <3>3, Zenon DEF PlanDeclaredField
  <2>5. CASE IsLinkField(g)
    <3>1. PICK l \in planLinks : g = PlanColumn(l)
      BY <2>3, <2>5 DEF IsLinkField, IsOwnerSide, IsBackSide
    <3>2. l.owner = p[1] /\ Relations!ColumnName(l) = p[2]
      BY <1>2, <2>2, <3>1, PlanLinkParts2
    <3> QED
      BY <2>1, <3>2 DEF PlanDeclaredAt, Relations!KeyOfModel
  <2>6. CASE IsOwnField(g)
    <3>1. PICK r : PlanOwnerless(r) /\ g = PlanOwnColumn(r)
      BY <2>3, <2>6 DEF IsOwnField, IsOwnerSide, IsBackSide
    <3>2. r = p[1] /\ p[2] = <<"user", "Id">> /\ r \in owned
      BY <1>2, <2>2, <3>1, PlanOwnParts DEF PlanOwnerless
    <3> QED
      BY <2>1, <3>2 DEF PlanDeclaredAt, Relations!KeyOfModel
  <2>7. CASE IsSelfField(g)
    <3>1. PICK k : PlanSelfAt(k) /\ \E h \in {1, 2} : g = PlanSelfColumn(k, h)
      BY <2>3, <2>7 DEF IsSelfField, IsOwnerSide, IsBackSide
    <3>2. g.model = all[k][2].through
      BY <3>1, PlanSelfParts
    <3> QED
      BY <1>1, <1>2, <2>2, <3>1, <3>2, PlanApart
  <2>8. ~IsSystemField(g)
    BY <2>3 DEF IsBackSide
  <2> QED
    BY <1>1, <2>4, <2>5, <2>6, <2>7, <2>8, PlanFieldKinds
<1> QED
  BY <1>2

LEMMA PlanNamesDiffer ==
    ASSUME PlanRendered, NEW x \in fields, NEW y \in fields, x.model = y.model, x.name = y.name
    PROVE  x = y
<1>1. CASE x.model \in Relations!Names
  <2>1. /\ \/ \E s : PlanShort(x, s) /\ x.name = <<s>>
           \/ \E a, b : PlanMiddle(x, a, b) /\ x.name = <<a, b>>
           \/ \E a, b : PlanLong(x, a, b) /\ x.name = <<a, b, "s">>
           \/ IsDeclaredField(x)
        /\ \/ \E s : PlanShort(y, s) /\ y.name = <<s>>
           \/ \E a, b : PlanMiddle(y, a, b) /\ y.name = <<a, b>>
           \/ \E a, b : PlanLong(y, a, b) /\ y.name = <<a, b, "s">>
           \/ IsDeclaredField(y)
    BY <1>1, PlanOfResource
  <2>5. CASE IsDeclaredField(x) \/ IsDeclaredField(y)
    BY <2>5, PlanDeclaredSame
  <2>2. CASE (\E s : PlanShort(x, s) /\ x.name = <<s>>) /\ ~IsDeclaredField(y)
    <3>1. PICK s : PlanShort(x, s) /\ x.name = <<s>>
      BY <2>2
    <3>2. PICK t : PlanShort(y, t) /\ y.name = <<t>>
      BY <2>1, <3>1, <2>2, PlanTuples, Zenon
    <3>3. <<s>> = <<t>>
      BY <3>1, <3>2, Zenon
    <3>4. s = t
      BY <3>3
    <3> QED
      BY <1>1, <3>1, <3>2, <3>4, PlanShortSame
  <2>3. CASE (\E a, b : PlanMiddle(x, a, b) /\ x.name = <<a, b>>) /\ ~IsDeclaredField(y)
    <3>1. PICK a, b : PlanMiddle(x, a, b) /\ x.name = <<a, b>>
      BY <2>3
    <3>2. PICK c, d : PlanMiddle(y, c, d) /\ y.name = <<c, d>>
      BY <2>1, <3>1, <2>3, PlanTuples, Zenon
    <3>3. <<a, b>> = <<c, d>>
      BY <3>1, <3>2, Zenon
    <3>4. a = c /\ b = d
      BY <3>3
    <3> QED
      BY <1>1, <3>1, <3>2, <3>4, PlanMiddleSame
  <2>4. CASE (\E a, b : PlanLong(x, a, b) /\ x.name = <<a, b, "s">>) /\ ~IsDeclaredField(y)
    <3>1. PICK a, b : PlanLong(x, a, b) /\ x.name = <<a, b, "s">>
      BY <2>4
    <3>2. PICK c, d : PlanLong(y, c, d) /\ y.name = <<c, d, "s">>
      BY <2>1, <3>1, <2>4, PlanTuples, ZenonT(40)
    <3>3. <<a, b, "s">> = <<c, d, "s">>
      BY <3>1, <3>2, Zenon
    <3>4. a = c /\ b = d
      BY <3>3
    <3> QED
      BY <3>1, <3>2, <3>4, PlanLongSame
  <2> QED
    BY <2>1, <2>2, <2>3, <2>4, <2>5
<1>2. CASE x.model \in System
  BY <1>2, PlanSystemSame
<1>3. CASE x.model \notin Relations!Names /\ x.model \notin System
  BY <1>3, PlanJoinSame
<1> QED
  BY <1>1, <1>2, <1>3

\* A link to a system resource.
LEMMA PlanSystemLink ==
    ASSUME PlanReady, NEW k, PlanToSystem(k)
    PROVE  /\ PlanLinkOf(k) \in planLinks
           /\ PlanLinkOf(k).owner = all[k][1] /\ PlanLinkOf(k).to = all[k][2].to
           /\ PlanLinkOf(k).stem = Relations!Stem(all[k][2])
           /\ \A l \in planLinks : l.owner = all[k][1] /\ l.to = all[k][2].to =>
                  \E j \in Relations!OwningTo(all[k][1], all[k][2].to) : l = PlanLinkOf(j)
<1>1. PlanBase /\ PlanDirectAt(k) /\ all[k][2].to \in System
  BY PlanApart DEF PlanReady, PlanToSystem
<1>2. PlanLinkOf(k) \in planLinks
  BY <1>1, PlanSeveral
<1>3. \A j : /\ PlanLinkOf(j).owner = all[j][1] /\ PlanLinkOf(j).to = all[j][2].to
             /\ PlanLinkOf(j).stem = Relations!Stem(all[j][2])
  BY PlanDirectParts
<1>4. ASSUME NEW l \in planLinks, l.owner = all[k][1], l.to = all[k][2].to
      PROVE  \E j \in Relations!OwningTo(all[k][1], all[k][2].to) : l = PlanLinkOf(j)
  <2>1. IsDirectLink(l)
    BY <1>1, <1>4, PlanLinkFacts
  <2>2. PICK j : PlanDirectAt(j) /\ l = PlanLinkOf(j)
    BY <2>1 DEF IsDirectLink
  <2>3. all[j][1] = all[k][1] /\ all[j][2].to = all[k][2].to
    BY <1>3, <1>4, <2>2
  <2>4. j \in Relations!OwningTo(all[k][1], all[k][2].to)
    BY <1>1, <2>2, <2>3, PlanOwning DEF PlanDirectAt
  <2> QED
    BY <2>2, <2>4
<1> QED
  BY <1>2, <1>3, <1>4

\* The name of the relation is that of the link.
LEMMA PlanSystemName ==
    ASSUME PlanReady, NEW k, PlanToSystem(k)
    PROVE  Relations!SystemBack(k).rel = Relations!NameOf(PlanLinkOf(k))
<1> DEFINE l == PlanLinkOf(k)
           others == Relations!OwningTo(all[k][1], all[k][2].to)
<1>1. PlanBase /\ PlanDirectAt(k) /\ all[k][2].to \in System
  BY PlanApart DEF PlanReady, PlanToSystem
<1>2. /\ l \in planLinks /\ l.owner = all[k][1] /\ l.to = all[k][2].to
      /\ l.stem = Relations!Stem(all[k][2])
      /\ \A m \in planLinks : m.owner = l.owner /\ m.to = l.to =>
             \E j \in others : m = PlanLinkOf(j)
  BY PlanSystemLink
<1>3. \/ Relations!SystemBack(k).rel = <<>> /\ others = {k}
      \/ Relations!SystemBack(k).rel = <<l.owner, l.stem>> /\ \E j \in others : j # k
  BY <1>1, <1>2, PlanSystemParts
<1>4. l.owner # l.to /\ \A m \in planLinks : m.owner # l.to
  BY <1>1, <1>2, PlanLinkFacts
<1>5. ASSUME others = {k} PROVE Relations!NameOf(l) = <<>>
  <2>1. ASSUME NEW m \in planLinks, {m.owner, m.to} = {l.owner, l.to} PROVE m = l
    <3>1. m.owner = l.owner /\ m.to = l.to
      BY <1>4, <2>1
    <3> QED
      BY <1>2, <1>5, <3>1
  <2> QED
    BY <1>2, <1>4, <2>1, PlanNameOf
<1>6. ASSUME NEW j \in others, j # k PROVE Relations!NameOf(l) = <<l.owner, l.stem>>
  <2>1. Relations!Several(l)
    BY <1>1, <1>6, PlanSeveral
  <2>2. PICK m \in planLinks : m # l /\ m.owner = l.owner /\ m.to = l.to
    BY <2>1 DEF Relations!Several
  <2> QED
    BY <1>2, <2>2, PlanNameOf
<1> QED
  BY <1>3, <1>5, <1>6

LEMMA PlanPairOpposite ==
    ASSUME PlanRendered, NEW f, NEW g, IsPair(f, g)
    PROVE  /\ f \in fields /\ g \in fields /\ IsOwnerSide(f) /\ IsBackSide(g)
           /\ Relations!Opposite(f, g) /\ Relations!Opposite(g, f)
<1>1. PlanReady /\ PlanBase
  BY DEF PlanRendered, PlanReady
<1>2. IsOwnerSide(f) /\ IsBackSide(g) /\ f.model = g.to /\ f.to = g.model /\ f.rel = g.rel
  <2>1. CASE IsLinkPair(f, g)
    <3>1. PICK l \in planLinks :
              l.to \in Relations!Names /\ f = PlanObject(l) /\ g = Relations!BackField(l)
      BY <2>1 DEF IsLinkPair
    <3>2. f.model = l.owner /\ f.to = l.to /\ f.rel = Relations!NameOf(l)
      BY <3>1, PlanLinkParts2
    <3>3. g.model = l.to /\ g.to = l.owner /\ g.rel = Relations!NameOf(l)
      BY <3>1, PlanBackParts
    <3>4. IsOwnerSide(f) /\ IsBackSide(g)
      BY <3>1 DEF IsOwnerSide, IsBackSide
    <3> QED
      BY <3>2, <3>3, <3>4
  <2>2. CASE IsSystemPair(f, g)
    <3>1. PICK k : /\ PlanToSystem(k) /\ f = PlanObject(PlanLinkOf(k))
                   /\ g = Relations!SystemBack(k)
      BY <2>2 DEF IsSystemPair
    <3>2. /\ PlanLinkOf(k) \in planLinks
          /\ PlanLinkOf(k).owner = all[k][1] /\ PlanLinkOf(k).to = all[k][2].to
      BY <1>1, <3>1, PlanSystemLink
    <3>3. f.model = all[k][1] /\ f.to = all[k][2].to /\ f.rel = Relations!NameOf(PlanLinkOf(k))
      BY <3>1, <3>2, PlanLinkParts2
    <3>4. g.model = all[k][2].to /\ g.to = all[k][1] /\ g.rel = Relations!NameOf(PlanLinkOf(k))
      BY <1>1, <3>1, PlanSystemParts, PlanSystemName
    <3>5. IsOwnerSide(f) /\ IsBackSide(g)
      BY <3>1, <3>2 DEF IsOwnerSide, IsBackSide, IsSystemField
    <3> QED
      BY <3>3, <3>4, <3>5
  <2>3. CASE IsOwnPair(f, g)
    BY <2>3, PlanOwnParts DEF IsOwnPair, IsOwnerSide, IsBackSide
  <2>4. CASE IsSelfPair(f, g)
    BY <2>4, PlanSelfParts DEF IsSelfPair, IsOwnerSide, IsBackSide
  <2> QED
    BY <2>1, <2>2, <2>3, <2>4 DEF IsPair
<1>3. f \in fields /\ g \in fields /\ f.side # g.side
  BY <1>2, PlanSides
<1> QED
  BY <1>2, <1>3 DEF Relations!Opposite

LEMMA PlanPartner ==
    ASSUME PlanRendered, NEW x
    PROVE  /\ IsOwnerSide(x) => \E g : IsPair(x, g)
           /\ IsBackSide(x) => \E f : IsPair(f, x)
<1>1. PlanReady /\ PlanBase
  BY DEF PlanRendered, PlanReady
<1>2. ASSUME NEW l \in planLinks PROVE \E g : IsPair(PlanObject(l), g)
  <2>1. CASE l.to \in Relations!Names
    BY <2>1 DEF IsPair, IsLinkPair
  <2>2. CASE l.to \in System
    <3>1. PICK k : PlanDirectAt(k) /\ l = PlanLinkOf(k)
      BY <1>1, <2>2, PlanLinkFacts DEF IsDirectLink
    <3>2. l.to = all[k][2].to
      BY <3>1, PlanDirectParts
    <3>3. PlanToSystem(k)
      BY <2>2, <3>1, <3>2 DEF PlanToSystem, PlanDirectAt
    <3> QED
      BY <3>1, <3>3 DEF IsPair, IsSystemPair
  <2> QED
    BY <1>1, <2>1, <2>2, PlanLinkFacts
<1>3. IsOwnerSide(x) => \E g : IsPair(x, g)
  BY <1>2 DEF IsOwnerSide, IsPair, IsOwnPair, IsSelfPair
<1>4. IsBackSide(x) => \E f : IsPair(f, x)
  BY DEF IsBackSide, IsSystemField, IsPair, IsLinkPair, IsSystemPair, IsOwnPair, IsSelfPair
<1> QED
  BY <1>3, <1>4

\* What stands on the two sides of one name is a pair.
LEMMA PlanLinkMeets ==
    ASSUME PlanRendered, NEW l \in planLinks, NEW g, IsBackSide(g),
           Relations!Opposite(PlanObject(l), g)
    PROVE  IsPair(PlanObject(l), g)
<1> DEFINE f == PlanObject(l)
<1>1. PlanReady /\ PlanBase
  BY DEF PlanRendered, PlanReady
<1>2. l.owner = g.to /\ l.to = g.model /\ Relations!NameOf(l) = g.rel
  BY PlanLinkParts2 DEF Relations!Opposite
<1>3. CASE \E m \in planLinks : m.to \in Relations!Names /\ g = Relations!BackField(m)
  <2>1. PICK m \in planLinks : m.to \in Relations!Names /\ g = Relations!BackField(m)
    BY <1>3
  <2>2. m.owner = l.owner /\ m.to = l.to /\ Relations!NameOf(m) = Relations!NameOf(l)
    BY <1>2, <2>1, PlanBackParts
  <2>3. m = l
    BY <1>1, <2>2, PlanNameOf
  <2> QED
    BY <2>1, <2>3 DEF IsPair, IsLinkPair
<1>4. CASE IsSystemField(g)
  <2>1. PICK k : PlanToSystem(k) /\ g = Relations!SystemBack(k)
    BY <1>4 DEF IsSystemField
  <2> DEFINE others == Relations!OwningTo(all[k][1], all[k][2].to)
  <2>2. l.owner = all[k][1] /\ l.to = all[k][2].to
    BY <1>1, <1>2, <2>1, PlanSystemParts
  <2>3. PICK j \in others : l = PlanLinkOf(j)
    BY <1>1, <2>1, <2>2, PlanSystemLink
  <2>4. ASSUME j # k PROVE FALSE
    <3>1. PlanDirectAt(j) /\ all[j][1] = all[k][1] /\ all[j][2].to = all[k][2].to
      BY <1>1, PlanOwning DEF PlanDirectAt
    <3>2. PlanDirectAt(k) /\ k \in others
      BY <1>1, <2>1, PlanApart
    <3>3. g.rel = <<all[k][1], Relations!Stem(all[k][2])>>
      BY <1>1, <2>1, <2>3, <2>4, PlanSystemParts
    <3>4. k \in Relations!OwningTo(all[j][1], all[j][2].to) /\ k # j
      BY <2>4, <3>1, <3>2
    <3>5. Relations!Several(l)
      BY <1>1, <2>3, <3>1, <3>4, PlanSeveral
    <3>6. PICK m \in planLinks : m # l /\ m.owner = l.owner /\ m.to = l.to
      BY <3>5 DEF Relations!Several
    <3>7. Relations!NameOf(l) = <<l.owner, l.stem>>
      BY <1>1, <3>6, PlanNameOf
    <3>8. <<l.owner, l.stem>> = <<all[k][1], Relations!Stem(all[k][2])>>
      BY <1>2, <3>3, <3>7, Zenon
    <3>9. l.stem = Relations!Stem(all[j][2])
      BY <2>3, PlanDirectParts
    <3>10. Relations!Stem(all[j][2]) = Relations!Stem(all[k][2])
      BY <3>8, <3>9
    <3> QED
      BY <1>1, <2>4, <3>1, <3>2, <3>10, PlanKeyOfOne DEF PlanDirectAt
  <2>5. l = PlanLinkOf(k)
    BY <2>3, <2>4
  <2> QED
    BY <2>1, <2>5 DEF IsPair, IsSystemPair
<1>5. ASSUME NEW r, PlanOwnerless(r), g = PlanOwnBack(r) PROVE FALSE
  <2>1. l.owner = r /\ l.to = "user"
    BY <1>2, <1>5, PlanOwnParts
  <2> QED
    BY <1>1, <1>5, <2>1, PlanApart
<1>6. ASSUME NEW k, PlanSelfAt(k), NEW h \in {1, 2}, g = PlanSelfBack(k, h) PROVE FALSE
  <2>1. l.owner = all[k][2].through
    BY <1>2, <1>6, PlanSelfParts
  <2> QED
    BY <1>1, <1>6, <2>1, PlanApart
<1> QED
  BY <1>3, <1>4, <1>5, <1>6 DEF IsBackSide

LEMMA PlanOwnMeets ==
    ASSUME PlanRendered, NEW r, PlanOwnerless(r), NEW g, IsBackSide(g),
           Relations!Opposite(PlanOwnObject(r), g)
    PROVE  IsPair(PlanOwnObject(r), g)
<1>1. PlanReady /\ PlanBase
  BY DEF PlanRendered, PlanReady
<1>2. r = g.to /\ "user" = g.model /\ r \in Relations!Names
  BY <1>1, PlanOwnParts, PlanApart DEF Relations!Opposite
<1>3. ASSUME NEW m \in planLinks, g = Relations!BackField(m) PROVE FALSE
  <2>1. m.owner = r /\ m.to = "user"
    BY <1>2, <1>3, PlanBackParts
  <2> QED
    BY <1>1, <2>1, PlanApart
<1>4. ASSUME NEW k, PlanToSystem(k), g = Relations!SystemBack(k) PROVE FALSE
  <2>1. all[k][1] = r /\ all[k][2].to = "user"
    BY <1>1, <1>2, <1>4, PlanSystemParts
  <2> QED
    BY <1>1, <1>4, <2>1, PlanApart
<1>5. ASSUME NEW s, PlanOwnerless(s), g = PlanOwnBack(s) PROVE IsPair(PlanOwnObject(r), g)
  <2>1. s = r
    BY <1>2, <1>5, PlanOwnParts
  <2> QED
    BY <1>5, <2>1 DEF IsPair, IsOwnPair
<1>6. ASSUME NEW k, PlanSelfAt(k), NEW h \in {1, 2}, g = PlanSelfBack(k, h) PROVE FALSE
  <2>1. r = all[k][2].through
    BY <1>2, <1>6, PlanSelfParts
  <2> QED
    BY <1>1, <1>2, <1>6, <2>1, PlanApart
<1> QED
  BY <1>3, <1>4, <1>5, <1>6 DEF IsBackSide, IsSystemField

LEMMA PlanSelfMeets ==
    ASSUME PlanRendered, NEW k, PlanSelfAt(k), NEW h \in {1, 2}, NEW g, IsBackSide(g),
           Relations!Opposite(PlanSelfObject(k, h), g)
    PROVE  IsPair(PlanSelfObject(k, h), g)
<1>1. PlanReady /\ PlanBase
  BY DEF PlanRendered, PlanReady
<1>2. /\ g.to = all[k][2].through /\ g.rel = PlanHalfRel(k, h)
      /\ all[k][2].through \notin Relations!Names
  BY <1>1, PlanSelfParts, PlanApart DEF Relations!Opposite
<1>3. ASSUME NEW m \in planLinks, g = Relations!BackField(m) PROVE FALSE
  <2>1. m.owner = all[k][2].through
    BY <1>2, <1>3, PlanBackParts
  <2> QED
    BY <1>1, <2>1, PlanApart
<1>4. ASSUME NEW j, PlanToSystem(j), g = Relations!SystemBack(j) PROVE FALSE
  <2>1. all[j][1] = all[k][2].through /\ all[j][1] \in Relations!Names
    BY <1>1, <1>2, <1>4, PlanSystemParts, PlanApart
  <2> QED
    BY <1>2, <2>1
<1>5. ASSUME NEW s, PlanOwnerless(s), g = PlanOwnBack(s) PROVE FALSE
  <2>1. s = all[k][2].through /\ s \in Relations!Names
    BY <1>1, <1>2, <1>5, PlanOwnParts, PlanApart
  <2> QED
    BY <1>2, <2>1
<1>6. ASSUME NEW j, PlanSelfAt(j), NEW i \in {1, 2}, g = PlanSelfBack(j, i)
      PROVE  IsPair(PlanSelfObject(k, h), g)
  <2>1. all[j][2].through = all[k][2].through /\ g.rel = PlanHalfRel(j, i)
    BY <1>2, <1>6, PlanSelfParts
  <2>2. j \in PlanIndex /\ k \in PlanIndex /\ all[j][2].type = "manyToMany"
    BY <1>1, <1>6, PlanApart DEF PlanSelfAt
  <2>3. j = k
    BY <1>1, <2>1, <2>2, PlanJoinOfOne
  <2>4. h = i
    BY <1>2, <1>6, <2>1, <2>3, PlanHalves
  <2> QED
    BY <1>6, <2>3, <2>4 DEF IsPair, IsSelfPair
<1> QED
  BY <1>3, <1>4, <1>5, <1>6 DEF IsBackSide, IsSystemField

LEMMA PlanMeets ==
    ASSUME PlanRendered, NEW f, IsOwnerSide(f), NEW g, IsBackSide(g), Relations!Opposite(f, g)
    PROVE  IsPair(f, g)
BY PlanLinkMeets, PlanOwnMeets, PlanSelfMeets DEF IsOwnerSide

\* What a field was rendered for tells which pair it is in.
LEMMA PlanPairOf ==
    ASSUME PlanRendered, NEW f, NEW g
    PROVE  /\ IsLinkPair(f, g) => /\ g.of = f.of /\ g.of[1] = "link" /\ f.to \in Relations!Names
                                  /\ f = PlanObject(f.of[2]) /\ g = Relations!BackField(g.of[2])
           /\ IsSystemPair(f, g) => /\ g.of[1] = "relation" /\ f.of[1] = "link"
                                    /\ f.to \in System
                                    /\ f.of = <<"link", PlanLinkOf(g.of[2])>>
                                    /\ PlanToSystem(g.of[2])
                                    /\ f = PlanObject(PlanLinkOf(g.of[2]))
                                    /\ g = Relations!SystemBack(g.of[2])
           /\ IsOwnPair(f, g) => /\ g.of = f.of /\ g.of[1] = "owner"
                                 /\ f = PlanOwnObject(f.of[2]) /\ g = PlanOwnBack(g.of[2])
           /\ IsSelfPair(f, g) => g.of = f.of /\ g.of[1] = "self"
<1>1. PlanReady /\ PlanBase
  BY DEF PlanRendered, PlanReady
<1>2. ASSUME NEW l \in planLinks, l.to \in Relations!Names, f = PlanObject(l),
             g = Relations!BackField(l)
      PROVE  /\ g.of = f.of /\ g.of[1] = "link" /\ f.to \in Relations!Names
             /\ f = PlanObject(f.of[2]) /\ g = Relations!BackField(g.of[2])
  <2>1. f.of = <<"link", l>> /\ g.of = <<"link", l>> /\ f.to = l.to
    BY <1>2, PlanLinkParts2, PlanBackParts
  <2>2. f.of[1] = "link" /\ f.of[2] = l
    BY <2>1
  <2> QED
    BY <1>2, <2>1, <2>2
<1>3. ASSUME NEW k, PlanToSystem(k), f = PlanObject(PlanLinkOf(k)), g = Relations!SystemBack(k)
      PROVE  /\ g.of[1] = "relation" /\ f.of[1] = "link" /\ f.to \in System
             /\ f.of = <<"link", PlanLinkOf(g.of[2])>> /\ PlanToSystem(g.of[2])
             /\ f = PlanObject(PlanLinkOf(g.of[2])) /\ g = Relations!SystemBack(g.of[2])
  <2>1. g.of = <<"relation", k>>
    BY <1>1, <1>3, PlanSystemParts
  <2>2. f.of = <<"link", PlanLinkOf(k)>> /\ f.to = PlanLinkOf(k).to
    BY <1>3, PlanLinkParts2
  <2>3. f.to \in System
    BY <1>1, <1>3, <2>2, PlanSystemLink DEF PlanToSystem
  <2>4. g.of[1] = "relation" /\ g.of[2] = k
    BY <2>1
  <2>5. f.of[1] = "link"
    BY <2>2
  <2> QED
    BY <1>3, <2>2, <2>3, <2>4, <2>5
<1>4. ASSUME NEW r, PlanOwnerless(r), f = PlanOwnObject(r), g = PlanOwnBack(r)
      PROVE  /\ g.of = f.of /\ g.of[1] = "owner"
             /\ f = PlanOwnObject(f.of[2]) /\ g = PlanOwnBack(g.of[2])
  <2>1. f.of = <<"owner", r>> /\ g.of = <<"owner", r>>
    BY <1>4, PlanOwnParts
  <2>2. f.of[1] = "owner" /\ f.of[2] = r
    BY <2>1
  <2> QED
    BY <1>4, <2>1, <2>2
<1>5. ASSUME NEW k, NEW h \in {1, 2}, f = PlanSelfObject(k, h), g = PlanSelfBack(k, h)
      PROVE  g.of = f.of /\ g.of[1] = "self"
  <2>1. f.of = <<"self", h>> /\ g.of = <<"self", h>>
    BY <1>5, PlanFieldParts DEF PlanSelfObject, PlanSelfBack
  <2> QED
    BY <2>1
<1> QED
  BY <1>2, <1>3, <1>4, <1>5 DEF IsLinkPair, IsSystemPair, IsOwnPair, IsSelfPair

LEMMA PlanSelfOne ==
    ASSUME PlanRendered, NEW j, NEW k, PlanSelfAt(j), PlanSelfAt(k),
           NEW h \in {1, 2}, NEW i \in {1, 2}
    PROVE  /\ PlanSelfObject(j, h) = PlanSelfObject(k, i) => j = k /\ h = i
           /\ PlanSelfBack(j, h) = PlanSelfBack(k, i) => j = k /\ h = i
<1>1. PlanReady /\ PlanBase
  BY DEF PlanRendered, PlanReady
<1>2. j \in PlanIndex /\ k \in PlanIndex /\ all[j][2].type = "manyToMany"
  BY <1>1, PlanApart DEF PlanSelfAt
<1>3. /\ PlanSelfObject(j, h).model = all[j][2].through
      /\ PlanSelfObject(k, i).model = all[k][2].through
      /\ PlanSelfBack(j, h).to = all[j][2].through
      /\ PlanSelfBack(k, i).to = all[k][2].through
      /\ PlanSelfObject(j, h).rel = PlanHalfRel(j, h)
      /\ PlanSelfObject(k, i).rel = PlanHalfRel(k, i)
      /\ PlanSelfBack(j, h).rel = PlanHalfRel(j, h)
      /\ PlanSelfBack(k, i).rel = PlanHalfRel(k, i)
  BY PlanSelfParts
<1>4. all[j][2].through = all[k][2].through => j = k
  BY <1>1, <1>2, PlanJoinOfOne
<1>5. PlanHalfRel(k, h) = PlanHalfRel(k, i) => h = i
  BY PlanHalves
<1> QED
  BY <1>3, <1>4, <1>5

\* The kind of a pair shows on each of its sides.
LEMMA PlanPairKind ==
    ASSUME PlanRendered, NEW f, NEW g, NEW e, NEW b, IsPair(f, g), IsPair(e, b),
           f = e \/ g = b
    PROVE  \/ IsLinkPair(f, g) /\ IsLinkPair(e, b)
           \/ IsSystemPair(f, g) /\ IsSystemPair(e, b)
           \/ IsOwnPair(f, g) /\ IsOwnPair(e, b)
           \/ IsSelfPair(f, g) /\ IsSelfPair(e, b)
<1>1. System \cap Relations!Names = {}
  BY PlanStrings DEF PlanRendered, PlanReady
<1>2. ASSUME NEW x, NEW y
      PROVE  /\ IsLinkPair(x, y) => x.of[1] = "link" /\ y.of[1] = "link"
                                    /\ x.to \in Relations!Names
             /\ IsSystemPair(x, y) => x.of[1] = "link" /\ y.of[1] = "relation"
                                      /\ x.to \in System
             /\ IsOwnPair(x, y) => x.of[1] = "owner" /\ y.of[1] = "owner"
             /\ IsSelfPair(x, y) => x.of[1] = "self" /\ y.of[1] = "self"
  BY PlanPairOf
<1>3. (f.of[1] = e.of[1] /\ f.to = e.to) \/ g.of[1] = b.of[1]
  OBVIOUS
<1>4. \/ IsLinkPair(f, g) \/ IsSystemPair(f, g) \/ IsOwnPair(f, g) \/ IsSelfPair(f, g)
  BY DEF IsPair
<1>5. \/ IsLinkPair(e, b) \/ IsSystemPair(e, b) \/ IsOwnPair(e, b) \/ IsSelfPair(e, b)
  BY DEF IsPair
<1> QED
  BY <1>1, <1>2, <1>3, <1>4, <1>5

LEMMA PlanPairOne ==
    ASSUME PlanRendered, NEW f, NEW g, NEW e, NEW b, IsPair(f, g), IsPair(e, b)
    PROVE  f = e <=> g = b
<1>1. PlanReady /\ PlanBase
  BY DEF PlanRendered, PlanReady
<1>2. CASE IsLinkPair(f, g) /\ IsLinkPair(e, b)
  <2>1. /\ g.of = f.of /\ f = PlanObject(f.of[2]) /\ g = Relations!BackField(g.of[2])
        /\ b.of = e.of /\ e = PlanObject(e.of[2]) /\ b = Relations!BackField(b.of[2])
    BY <1>2, PlanPairOf
  <2> QED
    BY <2>1, Zenon
<1>3. CASE IsOwnPair(f, g) /\ IsOwnPair(e, b)
  <2>1. /\ g.of = f.of /\ f = PlanOwnObject(f.of[2]) /\ g = PlanOwnBack(g.of[2])
        /\ b.of = e.of /\ e = PlanOwnObject(e.of[2]) /\ b = PlanOwnBack(b.of[2])
    BY <1>3, PlanPairOf
  <2> QED
    BY <2>1, Zenon
<1>4. CASE IsSystemPair(f, g) /\ IsSystemPair(e, b)
  <2> DEFINE k == g.of[2]
             j == b.of[2]
  <2>1. /\ f.of = <<"link", PlanLinkOf(k)>> /\ PlanToSystem(k)
        /\ f = PlanObject(PlanLinkOf(k)) /\ g = Relations!SystemBack(k)
    BY <1>4, PlanPairOf
  <2>2. /\ e.of = <<"link", PlanLinkOf(j)>> /\ PlanToSystem(j)
        /\ e = PlanObject(PlanLinkOf(j)) /\ b = Relations!SystemBack(j)
    BY <1>4, PlanPairOf
  <2>3. g = b => k = j
    OBVIOUS
  <2> HIDE DEF k, j
  <2>4. g = b => f = e
    BY <2>1, <2>2, <2>3
  <2>5. ASSUME f = e PROVE g = b
    <3>1. <<"link", PlanLinkOf(k)>> = <<"link", PlanLinkOf(j)>>
      BY <2>1, <2>2, <2>5, Zenon
    <3>2. PlanLinkOf(k) = PlanLinkOf(j)
      BY <3>1
    <3>3. all[k][1] = all[j][1] /\ Relations!Stem(all[k][2]) = Relations!Stem(all[j][2])
      BY <1>1, <2>1, <2>2, <3>2, PlanSystemLink
    <3>4. PlanDirectAt(k) /\ PlanDirectAt(j)
      BY <1>1, <2>1, <2>2, PlanApart
    <3>5. k = j
      BY <1>1, <3>3, <3>4, PlanKeyOfOne DEF PlanDirectAt
    <3> QED
      BY <2>1, <2>2, <3>5
  <2> QED
    BY <2>4, <2>5
<1>5. CASE IsSelfPair(f, g) /\ IsSelfPair(e, b)
  <2>1. PICK k : /\ PlanSelfAt(k)
                 /\ \E h \in {1, 2} : f = PlanSelfObject(k, h) /\ g = PlanSelfBack(k, h)
    BY <1>5 DEF IsSelfPair
  <2>2. PICK h \in {1, 2} : f = PlanSelfObject(k, h) /\ g = PlanSelfBack(k, h)
    BY <2>1
  <2>3. PICK j : /\ PlanSelfAt(j)
                 /\ \E i \in {1, 2} : e = PlanSelfObject(j, i) /\ b = PlanSelfBack(j, i)
    BY <1>5 DEF IsSelfPair
  <2>4. PICK i \in {1, 2} : e = PlanSelfObject(j, i) /\ b = PlanSelfBack(j, i)
    BY <2>3
  <2> QED
    BY <2>1, <2>2, <2>3, <2>4, PlanSelfOne
<1> QED
  BY <1>2, <1>3, <1>4, <1>5, PlanPairKind

\* Every object field has exactly one opposite.
LEMMA PlanOneOpposite ==
    ASSUME PlanRendered, NEW f \in fields, f.to # None
    PROVE  Relations!Cardinality({g \in fields : Relations!Opposite(f, g)}) = 1
<1>1. IsOwnerSide(f) \/ IsBackSide(f)
  BY PlanSides
<1>2. None \notin Relations!Known
  BY DEF PlanRendered, PlanReady, PlanBase, PlanStated, Relations!RelationPlanAssumption
<1>3. ASSUME NEW x, IsOwnerSide(x) \/ IsBackSide(x) PROVE x.model \in Relations!Known
  <2>1. PlanReady /\ PlanBase
    BY DEF PlanRendered, PlanReady
  <2>2. \A l \in planLinks : l.owner \in Relations!Known /\ l.to \in Relations!Known
    BY <2>1, PlanLinkFacts DEF Relations!Known
  <2>3. ASSUME NEW k, PlanSelfAt(k)
        PROVE  all[k][1] \in Relations!Known /\ all[k][2].through \in Relations!Known
    BY <2>1, <2>3, PlanApart DEF Relations!Known
  <2>4. ASSUME NEW k, PlanToSystem(k), x = Relations!SystemBack(k)
        PROVE  x.model \in Relations!Known
    <3>1. x.model = all[k][2].to /\ all[k][2].to \in System
      BY <2>1, <2>4, PlanSystemParts DEF PlanToSystem
    <3> QED
      BY <3>1 DEF Relations!Known
  <2>5. ASSUME NEW r, PlanOwnerless(r)
        PROVE  r \in Relations!Known /\ "user" \in Relations!Known
    BY <2>1, <2>5, PlanApart DEF Relations!Known
  <2>6. ASSUME NEW l \in planLinks, x = PlanObject(l) \/ x = Relations!BackField(l)
        PROVE  x.model \in Relations!Known
    <3>1. PlanObject(l).model = l.owner
      BY PlanLinkParts2
    <3>2. Relations!BackField(l).model = l.to
      BY PlanBackParts
    <3> QED
      BY <2>2, <2>6, <3>1, <3>2, Zenon
  <2>7. ASSUME NEW r, PlanOwnerless(r), x = PlanOwnObject(r) \/ x = PlanOwnBack(r)
        PROVE  x.model \in Relations!Known
    BY <2>5, <2>7, PlanOwnParts
  <2>8. ASSUME NEW k, PlanSelfAt(k), NEW h, x = PlanSelfObject(k, h) \/ x = PlanSelfBack(k, h)
        PROVE  x.model \in Relations!Known
    BY <2>3, <2>8, PlanSelfParts
  <2> QED
    BY <1>3, <2>4, <2>6, <2>7, <2>8 DEF IsOwnerSide, IsBackSide, IsSystemField
<1>4. ASSUME NEW g \in fields, Relations!Opposite(f, g)
      PROVE  IsPair(f, g) \/ IsPair(g, f)
  <2>1. g.to = f.model /\ f.side # g.side /\ Relations!Opposite(g, f)
    BY <1>4 DEF Relations!Opposite
  <2>2. g.to # None
    BY <1>1, <1>2, <1>3, <2>1
  <2>3. IsOwnerSide(g) \/ IsBackSide(g)
    BY <2>2, PlanSides
  <2>4. \/ IsOwnerSide(f) /\ IsBackSide(g)
        \/ IsOwnerSide(g) /\ IsBackSide(f)
    BY <1>1, <2>1, <2>3, PlanSides
  <2> QED
    BY <1>4, <2>1, <2>4, PlanMeets
<1>5. CASE IsOwnerSide(f)
  <2>1. PICK g : IsPair(f, g)
    BY <1>5, PlanPartner
  <2>2. g \in fields /\ Relations!Opposite(f, g)
    BY <2>1, PlanPairOpposite
  <2>3. ASSUME NEW x \in fields, Relations!Opposite(f, x) PROVE x = g
    <3>1. IsPair(f, x)
      <4>1. ~IsBackSide(f)
        BY <1>5, PlanSides
      <4> QED
        BY <1>4, <2>3, <4>1, PlanPairOpposite
    <3> QED
      BY <2>1, <3>1, PlanPairOne
  <2>4. {x \in fields : Relations!Opposite(f, x)} = {g}
    BY <2>2, <2>3
  <2> QED
    BY <2>4, PlanCountOne
<1>6. CASE IsBackSide(f)
  <2>1. PICK g : IsPair(g, f)
    BY <1>6, PlanPartner
  <2>2. g \in fields /\ Relations!Opposite(f, g)
    BY <2>1, PlanPairOpposite
  <2>3. ASSUME NEW x \in fields, Relations!Opposite(f, x) PROVE x = g
    <3>1. IsPair(x, f)
      <4>1. ~IsOwnerSide(f)
        BY <1>6, PlanSides
      <4> QED
        BY <1>4, <2>3, <4>1, PlanPairOpposite
    <3> QED
      BY <2>1, <3>1, PlanPairOne
  <2>4. {x \in fields : Relations!Opposite(f, x)} = {g}
    BY <2>2, <2>3
  <2> QED
    BY <2>4, PlanCountOne
<1> QED
  BY <1>1, <1>5, <1>6

(***************************************************************************)
(* An include of a declared relation finds its field.                      *)
(***************************************************************************)
LEMMA PlanAlone ==
    ASSUME PlanReady, NEW l \in planLinks,
           ~(Relations!Cardinality(Relations!OwningTo(l.owner, l.to)) > 1)
    PROVE  ~Relations!Several(l)
<1>1. PlanBase
  BY DEF PlanReady
<1> SUFFICES ASSUME Relations!Several(l) PROVE FALSE
  OBVIOUS
<1>2. PICK k : /\ PlanDirectAt(k) /\ l = PlanLinkOf(k)
               /\ \E j \in Relations!OwningTo(l.owner, l.to) : j # k
  BY PlanSeveral
<1>3. l.owner = all[k][1] /\ l.to = all[k][2].to
  BY <1>2, PlanDirectParts
<1>4. k \in Relations!OwningTo(l.owner, l.to)
  BY <1>1, <1>2, <1>3, PlanOwning DEF PlanDirectAt
<1>5. Relations!OwningTo(l.owner, l.to) \in SUBSET PlanIndex
  BY <1>1, PlanOwning
<1> QED
  BY <1>1, <1>2, <1>4, <1>5, PlanCount

\* The back field of a link that is alone.
LEMMA PlanBackFound ==
    ASSUME PlanRendered, NEW l \in planLinks, l.to \in Relations!Names, l.owner # l.to,
           ~(Relations!Cardinality(Relations!OwningTo(l.owner, l.to)) > 1)
    PROVE  \E f \in fields : f.model = l.to /\ f.to # None /\ f.name = Arrays[l.owner]
<1>1. PlanReady /\ PlanBase
  BY DEF PlanRendered, PlanReady
<1> DEFINE f == Relations!BackField(l)
<1>2. f \in fields
  BY PlanSides DEF IsBackSide
<1>3. ~Relations!Several(l)
  BY <1>1, PlanAlone
<1>4. f.model = l.to /\ f.to = l.owner /\ f.name = Arrays[l.owner]
  BY <1>3, PlanBackParts
<1>5. l.owner # None
  BY <1>1, PlanLinkFacts, PlanStrings
<1> QED
  BY <1>2, <1>4, <1>5

\* There is a link from owner to target, if one is asked for.
LEMMA PlanLinkThere ==
    ASSUME PlanReady, NEW owner, NEW target
    PROVE  /\ Relations!OwningTo(owner, target) # {} =>
                  \E l \in planLinks : l.owner = owner /\ l.to = target
           /\ \A k : PlanChildAt(k) /\ owner = all[k][2].to /\ target = all[k][1] =>
                  \E l \in planLinks : l.owner = owner /\ l.to = target
           /\ \A k : PlanJoinAt(k) /\ owner = all[k][2].through /\ target \in PlanEnds(k) =>
                  \E l \in planLinks : l.owner = owner /\ l.to = target
<1>1. PlanBase
  BY DEF PlanReady
<1>2. ASSUME NEW k \in Relations!OwningTo(owner, target)
      PROVE  \E l \in planLinks : l.owner = owner /\ l.to = target
  <2>1. PlanDirectAt(k) /\ all[k][1] = owner /\ all[k][2].to = target
    BY <1>1, PlanOwning DEF PlanDirectAt
  <2>2. PlanLinkOf(k) \in planLinks
    BY <2>1, PlanSeveral
  <2>3. PlanLinkOf(k).owner = owner /\ PlanLinkOf(k).to = target
    BY <2>1, PlanDirectParts
  <2> QED
    BY <2>2, <2>3
<1>3. ASSUME NEW k, PlanChildAt(k), owner = all[k][2].to, target = all[k][1]
      PROVE  \E l \in planLinks : l.owner = owner /\ l.to = target
  <2> DEFINE l == Relations!Link(owner, target, Relations!Default(target))
  <2>1. k \in PlanIndex /\ all[k][2].type \notin Relations!Direct
        /\ owner # target /\ Relations!OwningTo(owner, target) = {}
    BY <1>3 DEF PlanChildAt, Relations!Direct
  <2>2. target \in Relations!Names /\ owner \in Relations!Names
    BY <1>1, <1>3, <2>1, PlanAt
  <2>3. owner \notin System
    BY <1>1, <2>2, PlanStrings
  <2>4. IsPlainLink(l)
    BY <1>1, <2>1, <2>2, <2>3, PlanPlain
  <2>5. PlanEarly(l)
    BY <1>3 DEF PlanEarly, PlanChildOf
  <2>6. l \in planLinks
    BY <2>4, <2>5, PlanHas
  <2> QED
    BY <2>6, PlanDefaultParts
<1>4. ASSUME NEW k, PlanJoinAt(k), owner = all[k][2].through, target \in PlanEnds(k),
             Relations!OwningTo(owner, target) = {}
      PROVE  \E l \in planLinks : l.owner = owner /\ l.to = target
  <2> DEFINE l == Relations!Link(owner, target, Relations!Default(target))
  <2>1. /\ k \in PlanIndex /\ all[k][2].type = "manyToMany"
        /\ all[k][2].type \notin Relations!Direct
    BY <1>4 DEF PlanJoinAt, Relations!Direct
  <2>2. owner \in Joins /\ owner \notin System /\ owner # target /\ target \in Relations!Names
    BY <1>1, <1>4, <2>1, PlanAt DEF PlanEnds
  <2>3. IsPlainLink(l)
    BY <1>1, <1>4, <2>2, PlanPlain
  <2>4. l = PlanJoinOf(k, target)
    BY <1>4 DEF PlanJoinOf, Relations!KeyTo
  <2>5. PlanLate(l)
    BY <1>4, <2>4 DEF PlanLate
  <2>6. l \in planLinks
    BY <2>3, <2>5, PlanHas
  <2> QED
    BY <2>6, PlanDefaultParts
<1> QED
  BY <1>2, <1>3, <1>4

LEMMA PlanIncludes ==
    ASSUME PlanRendered, NEW k \in PlanIndex,
           ~Relations!Unresolvable(all[k][1], all[k][2].to)
    PROVE  \E f \in fields : /\ f.model = all[k][1] /\ f.to # None
                             /\ f.name = Relations!IncludeField(all[k][1], all[k][2].to)
<1> DEFINE r == all[k][1]
           to == all[k][2].to
           T == {j \in DOMAIN all : all[j][1] = r /\ all[j][2].to = to}
           m == Relations!Min(T)
           rel == all[m][2]
           joins == {all[i][2].through : i \in
                        {j \in DOMAIN all :
                            all[j][1] = r /\ to = r /\ Relations!SelfJoin(r, all[j][2])}}
<1>1. PlanReady /\ PlanBase
  BY DEF PlanRendered, PlanReady
<1>2. m \in T
  <2>1. T \in SUBSET Nat /\ T # {}
    BY <1>1, PlanDomain
  <2> HIDE DEF T
  <2> QED
    BY <2>1, PlanMin
<1>3. Relations!Meant(r, to) = rel
  BY DEF Relations!Meant
<1>4. m \in PlanIndex /\ all[m][1] = r /\ rel.to = to /\ r \in Relations!Names
  BY <1>1, <1>2, PlanDomain, PlanAt
<1>5. Relations!IncludeField(r, to) =
          IF joins # {} THEN <<CHOOSE t \in joins : TRUE>>
          ELSE IF rel.type \in Relations!Direct
               THEN IF Relations!Cardinality(Relations!OwningTo(r, to)) > 1
                    THEN <<Relations!Stem(rel)>> ELSE <<to>>
          ELSE IF rel.type = "oneToMany" THEN Arrays[to] ELSE Arrays[rel.through]
  BY Zenon DEF Relations!IncludeField, Relations!Meant
<1>6. /\ to = r => Relations!SelfJoin(r, rel)
      /\ rel.type = "oneToMany" =>
             ~(Relations!Cardinality(Relations!OwningTo(to, r)) > 1)
      /\ rel.type = "manyToMany" =>
             ~(Relations!Cardinality(Relations!OwningTo(rel.through, r)) > 1)
  BY <1>3, Zenon DEF Relations!Unresolvable
<1>7. CASE to = r
  <2>1. rel.through \in joins
    BY <1>1, <1>2, <1>6, <1>7
  <2>2. (CHOOSE t \in joins : TRUE) \in joins
    BY <2>1, Zenon
  <2> DEFINE t == CHOOSE x \in joins : TRUE
  <2>3. PICK j \in DOMAIN all : /\ all[j][1] = r /\ Relations!SelfJoin(r, all[j][2])
                                /\ t = all[j][2].through
    BY <2>2
  <2>4. PlanSelfAt(j)
    BY <1>1, <2>3, PlanDomain DEF PlanSelfAt
  <2>5. Relations!IncludeField(r, to) = <<t>>
    BY <1>5, <2>1, Zenon
  <2> HIDE DEF t, joins
  <2> DEFINE f == PlanSelfBack(j, 1)
  <2>6. f.model = r /\ f.to = t /\ f.name = PlanHalfName(t, 1)
    BY <2>3, PlanSelfParts
  <2>7. f.name = <<t>>
    BY <2>6 DEF PlanHalfName
  <2>8. t # None
    BY <1>1, <2>3, <2>4, PlanApart, PlanStrings
  <2>9. f \in fields
    BY <2>4, PlanSides DEF IsBackSide
  <2> QED
    BY <2>5, <2>6, <2>7, <2>8, <2>9
<1>8. to # r => joins = {}
  OBVIOUS
<1> HIDE DEF m, T, joins
<1>9. CASE to # r /\ rel.type \in Relations!Direct
  <2>1. PlanDirectAt(m) /\ m \in Relations!OwningTo(r, to)
    BY <1>1, <1>4, <1>9, PlanOwning DEF PlanDirectAt
  <2> DEFINE l == PlanLinkOf(m)
             f == PlanObject(l)
  <2>2. l \in planLinks
    BY <1>1, <2>1, PlanSeveral
  <2>3. l.owner = r /\ l.to = to /\ l.stem = Relations!Stem(rel)
    BY <1>4, PlanDirectParts
  <2>4. f \in fields
    BY <2>2, PlanSides DEF IsOwnerSide
  <2>5. f.model = r /\ f.to = to /\ f.name = <<PlanObjectName(l)>>
    BY <2>3, PlanLinkParts2
  <2>6. to # None
    BY <1>1, <1>4, PlanStrings
  <2>7. CASE Relations!Cardinality(Relations!OwningTo(r, to)) > 1
    <3>1. Relations!OwningTo(r, to) \in SUBSET PlanIndex
      BY <1>1, PlanOwning
    <3>2. \E j \in Relations!OwningTo(r, to) : j # m
      BY <1>1, <2>7, <3>1, PlanCount
    <3>3. Relations!Several(l)
      BY <1>1, <1>4, <2>1, <3>2, PlanSeveral
    <3>4. PlanObjectName(l) = Relations!Stem(rel)
      BY <1>4, <2>3, <3>3 DEF PlanObjectName
    <3>5. Relations!IncludeField(r, to) = <<Relations!Stem(rel)>>
      BY <1>5, <1>8, <1>9, <2>7, Zenon
    <3> HIDE DEF f, l, rel
    <3> QED
      BY <2>4, <2>5, <2>6, <3>4, <3>5
  <2>8. CASE ~(Relations!Cardinality(Relations!OwningTo(r, to)) > 1)
    <3>1. ~Relations!Several(l)
      BY <1>1, <2>2, <2>3, <2>8, PlanAlone
    <3>2. PlanObjectName(l) = to
      BY <1>9, <2>3, <3>1 DEF PlanObjectName
    <3>3. Relations!IncludeField(r, to) = <<to>>
      BY <1>5, <1>8, <1>9, <2>8, Zenon
    <3> HIDE DEF f, l, rel
    <3> QED
      BY <2>4, <2>5, <2>6, <3>2, <3>3
  <2> QED
    BY <2>7, <2>8
<1>10. CASE to # r /\ rel.type = "oneToMany"
  <2>1. rel.type \notin Relations!Direct
    BY <1>10 DEF Relations!Direct
  <2>2. Relations!IncludeField(r, to) = Arrays[to]
    BY <1>5, <1>8, <1>10, <2>1, Zenon
  <2>3. Relations!OwningTo(to, r) = {} => PlanChildAt(m)
    BY <1>4, <1>10 DEF PlanChildAt
  <2>4. \E l \in planLinks : l.owner = to /\ l.to = r
    BY <1>1, <1>4, <2>3, PlanLinkThere
  <2>5. \E f \in fields : f.model = r /\ f.to # None /\ f.name = Arrays[to]
    BY <1>4, <1>6, <1>10, <2>4, PlanBackFound
  <2> QED
    BY <2>2, <2>5
<1>11. CASE to # r /\ rel.type = "manyToMany"
  <2> DEFINE t == rel.through
  <2>1. rel.type \notin Relations!Direct /\ rel.type # "oneToMany"
    BY <1>11 DEF Relations!Direct
  <2>2. Relations!IncludeField(r, to) = Arrays[t]
    BY <1>5, <1>8, <1>11, <2>1, Zenon
  <2>3. PlanJoinAt(m) /\ r \in PlanEnds(m)
    BY <1>4, <1>11 DEF PlanJoinAt, PlanEnds, Relations!SelfJoin
  <2>4. \E l \in planLinks : l.owner = t /\ l.to = r
    BY <1>1, <2>3, PlanLinkThere
  <2>5. t # r
    BY <1>1, <1>4, <1>11, PlanAt
  <2>6. \E f \in fields : f.model = r /\ f.to # None /\ f.name = Arrays[t]
    BY <1>4, <1>6, <1>11, <2>4, <2>5, PlanBackFound
  <2> QED
    BY <2>2, <2>6
<1>12. rel.type \in Relations!Direct \cup {"oneToMany", "manyToMany"}
  BY <1>1, <1>4, PlanAt DEF Relations!Relations, Relations!Types
<1> QED
  BY <1>7, <1>9, <1>10, <1>11, <1>12

LEMMA PlanView ==
    ASSUME Relations!RelationPlanAssumption, PlanInv PROVE Relations!SchemaPaired
<1>1. SUFFICES ASSUME planStage = "rendered", ~Relations!Odd PROVE
          /\ \A f, g \in fields : f.model = g.model /\ f.name = g.name => f = g
          /\ \A f \in fields :
                 f.to # None => Relations!Cardinality({g \in fields : Relations!Opposite(f, g)}) = 1
          /\ \A k \in {j \in DOMAIN all : ~Relations!Unresolvable(all[j][1], all[j][2].to)} :
                 \E f \in fields : /\ f.model = all[k][1] /\ f.to # None
                                   /\ f.name = Relations!IncludeField(all[k][1], all[k][2].to)
  BY Zenon DEF Relations!SchemaPaired
<1>2. PlanRendered
  BY <1>1 DEF PlanInv, PlanRendered, PlanReady, PlanBase, PlanStated
<1>3. \A f, g \in fields : f.model = g.model /\ f.name = g.name => f = g
  BY <1>2, PlanNamesDiffer
<1>4. \A f \in fields :
          f.to # None => Relations!Cardinality({g \in fields : Relations!Opposite(f, g)}) = 1
  BY <1>2, PlanOneOpposite
<1>5. \A k \in {j \in DOMAIN all : ~Relations!Unresolvable(all[j][1], all[j][2].to)} :
          \E f \in fields : /\ f.model = all[k][1] /\ f.to # None
                            /\ f.name = Relations!IncludeField(all[k][1], all[k][2].to)
  <2>1. DOMAIN all = PlanIndex
    BY <1>2, PlanDomain DEF PlanRendered, PlanReady
  <2> QED
    BY <1>2, <2>1, PlanIncludes
<1> QED
  BY <1>3, <1>4, <1>5

PlanHolds == part = "Relations" => PlanInv

\* While the relations are planned the invariant of the plan holds.
THEOREM AlwaysPlanned == ASSUME RuntimeAssumption PROVE RuntimeSpec => []PlanHolds
<1>1. RuntimeInit => PlanHolds
  BY PlanInit DEF RuntimeInit, PlanHolds, RuntimeAssumption
<1>2. PlanHolds /\ [RuntimeNext]_runtimeVars => PlanHolds'
  <2> SUFFICES ASSUME PlanHolds, [RuntimeNext]_runtimeVars, part' = "Relations"
               PROVE  PlanInv'
    BY DEF PlanHolds
  <2>1. part = "Relations"
    BY DEF RuntimeNext, runtimeVars
  <2>2. PlanInv /\ Relations!RelationPlanAssumption
    BY <2>1 DEF PlanHolds, RuntimeAssumption
  <2>3. [Relations!Next]_(Relations!planOwn)
    BY <2>1 DEF RuntimeNext, runtimeVars, RelationsVars, Relations!planOwn
  <2> QED
    BY <2>2, <2>3, PlanNext
<1> QED
  BY <1>1, <1>2, PTL DEF RuntimeSpec

\* Whatever relations an author declares, and in whatever order, a spec the parser accepts
\* gives a schema in which no model has two fields of one name, every object field has exactly
\* one opposite, and an include of a declared relation finds its field; the listed odd
\* declarations and includes apart.
THEOREM AlwaysSchemaPaired == ASSUME RuntimeAssumption PROVE RuntimeSpec => []SchemaPaired
<1>1. PlanHolds => SchemaPaired
  <2>1. Relations!RelationPlanAssumption
    BY DEF RuntimeAssumption
  <2> QED
    BY <2>1, PlanView DEF PlanHolds, SchemaPaired
<1> QED
  BY <1>1, AlwaysPlanned, PTL

-----------------------------------------------------------------------------
(***************************************************************************)
(* Types: what the invariants above do not say of the variables.           *)
(***************************************************************************)
InboundConstant ==
    /\ inboundProduction \in BOOLEAN
    /\ secrets \in [Configured -> {"set", "missing", "unnamed"}]

LEMMA InboundTyped ==
    ASSUME InboundInv, InboundConstant
    PROVE  Inbound!TypeOK
  BY DEF InboundInv, InboundTypes, InboundConstant, InboundNumbers, Inbound!TypeOK

\* What the lifecycle keeps besides the clients.
LifeTypes ==
    /\ life \in {"new", "running", "refused"} /\ production \in BOOLEAN
    /\ chosen \in [Lifecycle!Stores -> {"memory", "database", "provided", "unused"}]
    /\ timer \in BOOLEAN /\ tick \in {"idle", "claim", "deliver", "write"}

\* A store is one of the three, whatever is passed and detected.
LEMMA LifeResolved ==
    ASSUME NEW o \in Options
    PROVE  /\ Lifecycle!ResolveResourceStore(o) \in {"memory", "database"}
           /\ Lifecycle!ResolveWebhookStore(o) \in {"memory", "database", "provided"}
           /\ Lifecycle!ResolveApiKeyStore(o) \in {"memory", "database", "provided"}
           /\ \A s \in {"users", "refresh", "revocation"} :
                  Lifecycle!ResolveJwtStores(o)[s] \in {"memory", "database", "provided"}
<1> USE DEF Lifecycle!Given, Lifecycle!Fallback
<1>1. Lifecycle!ResolveResourceStore(o) \in {"memory", "database"}
  BY DEF Lifecycle!ResolveResourceStore
<1>2. Lifecycle!ResolveWebhookStore(o) \in {"memory", "database", "provided"}
  BY <1>1 DEF Lifecycle!ResolveWebhookStore
<1>3. Lifecycle!ResolveApiKeyStore(o) \in {"memory", "database", "provided"}
  BY DEF Lifecycle!ResolveApiKeyStore
<1>4. ASSUME NEW s \in {"users", "refresh", "revocation"}
      PROVE  Lifecycle!ResolveJwtStores(o)[s] \in {"memory", "database", "provided"}
  <2>1. CASE {"users", "refresh"} \subseteq o.given
    BY <2>1 DEF Lifecycle!ResolveJwtStores
  <2>2. CASE ~({"users", "refresh"} \subseteq o.given)
    BY <2>2 DEF Lifecycle!ResolveJwtStores
  <2> QED
    BY <2>1, <2>2
<1> QED
  BY <1>1, <1>2, <1>3, <1>4

LEMMA LifeCreated ==
    ASSUME LifeTypes, Lifecycle!CreateRuntime PROVE LifeTypes'
<1>1. PICK o \in Options : Lifecycle!CreateRuntime!2!(o)
  BY DEF Lifecycle!CreateRuntime, Options
<1>2. UNCHANGED <<production, tick>>
  BY DEF Lifecycle!CreateRuntime
<1>3. CASE Lifecycle!Refused(o)
  BY <1>1, <1>2, <1>3 DEF LifeTypes
<1>4. CASE ~Lifecycle!Refused(o)
  <2>1. /\ life' = "running" /\ timer' = TRUE
        /\ chosen' = [s \in Lifecycle!Stores |->
              CASE s = "resources" -> Lifecycle!ResolveResourceStore(o)
                [] s = "webhooks" -> Lifecycle!ResolveWebhookStore(o)
                [] s = "apiKeys" ->
                       IF o.apiKeys THEN Lifecycle!ResolveApiKeyStore(o) ELSE "unused"
                [] OTHER -> IF o.jwt THEN Lifecycle!ResolveJwtStores(o)[s] ELSE "unused"]
    BY <1>1, <1>4
  <2>2. \A s \in Lifecycle!Stores \ {"resources", "webhooks", "apiKeys"} :
            s \in {"users", "refresh", "revocation"}
    BY DEF Lifecycle!Stores
  <2>3. chosen' \in [Lifecycle!Stores -> {"memory", "database", "provided", "unused"}]
    BY <2>1, <2>2, LifeResolved
  <2> QED
    BY <1>2, <2>1, <2>3 DEF LifeTypes
<1> QED
  BY <1>3, <1>4

LEMMA LifeNext ==
    ASSUME LifeTypes, [Lifecycle!Next]_Lifecycle!lifeOwn PROVE LifeTypes'
<1>1. CASE Lifecycle!Fire \/ Lifecycle!Work
  BY <1>1 DEF Lifecycle!Fire, Lifecycle!Work, LifeTypes
<1>2. CASE \E x \in Signals : Lifecycle!Shutdown(x) \/ Lifecycle!Disconnect(x)
  BY <1>2 DEF Lifecycle!Shutdown, Lifecycle!Disconnect, LifeTypes
<1>3. CASE UNCHANGED Lifecycle!lifeOwn
  BY <1>3 DEF Lifecycle!lifeOwn, LifeTypes
<1> QED
  BY <1>1, <1>2, <1>3, LifeCreated DEF Lifecycle!Next

LEMMA LifeTyped ==
    ASSUME LifeTypes, ShutdownInv PROVE Lifecycle!TypeOK
  BY DEF LifeTypes, ShutdownInv, ClosingType, Lifecycle!TypeOK

LEMMA SurfaceTyped ==
    ASSUME SurfaceInv PROVE Surface!TypeOK
<1>1. SurfaceTypes
  BY DEF SurfaceInv
<1>2. ASSUME NEW r \in Surface!Names
      PROVE  {<<r, e>> : e \in Surface!ToSet(custom[r])} \subseteq Extras
  <2>1. custom[r] \in Seq(CustomEndpoint)
    BY <1>1 DEF SurfaceTypes
  <2>2. DOMAIN custom[r] = 1..Len(custom[r])
    BY <2>1, LenProperties
  <2>3. \A k \in 1..Len(custom[r]) : <<r, custom[r][k]>> \in Extras
    BY <1>1 DEF SurfaceTypes
  <2>4. ASSUME NEW e \in Surface!ToSet(custom[r]) PROVE <<r, e>> \in Extras
    BY <2>2, <2>3 DEF Surface!ToSet
  <2> QED
    BY <2>4
<1> QED
  BY <1>1, <1>2 DEF SurfaceTypes, Surface!TypeOK

\* What the plan keeps of the declarations, and what it has before a stage is reached.
PlanDeclared ==
    /\ \A r \in Relations!Names : \A k \in 1..Len(declared[r]) :
           <<r, declared[r][k]>> \in Declarable
    /\ top \in Seq(TopLevel)

PlanBefore ==
    /\ planStage \in {"declaring", "rejected"} => all = <<>>
    /\ planStage \in {"declaring", "rejected", "parsed"} => planLinks = {}
    /\ planStage # "rendered" => fields = {}

LEMMA PlanDeclaredInit ==
    ASSUME Relations!Init PROVE PlanDeclared /\ PlanBefore
<1>1. \A r \in Relations!Names : Len(declared[r]) = 0
  BY DEF Relations!Init
<1>2. 1..0 = {} /\ <<>> \in Seq(TopLevel)
  OBVIOUS
<1> QED
  BY <1>1, <1>2 DEF Relations!Init, PlanDeclared, PlanBefore

LEMMA PlanDeclaredMore ==
    ASSUME Relations!RelationPlanAssumption, PlanTypes, PlanDeclared, Relations!Declare
    PROVE  PlanDeclared'
<1>1. CASE \E d \in Declarable :
               declared' = [declared EXCEPT ![d[1]] = Append(@, d[2])] /\ UNCHANGED top
  <2>1. PICK d \in Declarable :
            declared' = [declared EXCEPT ![d[1]] = Append(declared[d[1]], d[2])] /\ UNCHANGED top
    BY <1>1
  <2>2. d \in Relations!Names \X Relations!Relations
    BY DEF Relations!RelationPlanAssumption
  <2>3. PICK r \in Relations!Names, x \in Relations!Relations : d = <<r, x>>
    BY <2>2
  <2>4. declared' = [declared EXCEPT ![r] = Append(declared[r], x)]
    BY <2>1, <2>3
  <2>5. declared \in PlanSpecs /\ declared[r] \in Seq(Relations!Relations)
    BY DEF PlanTypes, PlanSpecs
  <2>6. /\ Len(declared[r]) \in Nat
        /\ Len(Append(declared[r], x)) = Len(declared[r]) + 1
        /\ \A k \in 1..Len(declared[r]) + 1 :
               Append(declared[r], x)[k] = IF k <= Len(declared[r]) THEN declared[r][k] ELSE x
    BY <2>5, AppendProperties, LenProperties
  <2>7. ASSUME NEW n \in Relations!Names, NEW k \in 1..Len(declared'[n])
        PROVE  <<n, declared'[n][k]>> \in Declarable
    <3>1. CASE n = r
      <4>1. declared'[n] = Append(declared[r], x)
        BY <2>4, <2>5, <3>1 DEF PlanSpecs
      <4>2. CASE k <= Len(declared[r])
        <5>1. k \in 1..Len(declared[r]) /\ declared'[n][k] = declared[r][k]
          BY <2>6, <2>7, <4>1, <4>2
        <5> QED
          BY <3>1, <5>1 DEF PlanDeclared
      <4>3. CASE ~(k <= Len(declared[r]))
        <5>1. declared'[n][k] = x
          BY <2>6, <2>7, <4>1, <4>3
        <5> QED
          BY <2>3, <3>1, <5>1
      <4> QED
        BY <4>2, <4>3
    <3>2. CASE n # r
      <4>1. declared'[n] = declared[n]
        BY <2>4, <2>5, <3>2 DEF PlanSpecs
      <4> QED
        BY <2>7, <4>1 DEF PlanDeclared
    <3> QED
      BY <3>1, <3>2
  <2>8. top' \in Seq(TopLevel)
    BY <2>1 DEF PlanDeclared
  <2> QED
    BY <2>7, <2>8 DEF PlanDeclared
<1>2. CASE \E t \in TopLevel : top' = Append(top, t) /\ UNCHANGED declared
  BY <1>2, AppendProperties DEF PlanDeclared
<1> QED
  BY <1>1, <1>2 DEF Relations!Declare

LEMMA PlanDeclaredNext ==
    ASSUME Relations!RelationPlanAssumption, PlanInv, PlanDeclared, PlanBefore,
           [Relations!Next]_(Relations!planOwn)
    PROVE  PlanDeclared' /\ PlanBefore'
<1>1. CASE Relations!Declare
  <2>1. PlanTypes
    BY DEF PlanInv
  <2> QED
    BY <1>1, <2>1, PlanDeclaredMore DEF Relations!Declare, PlanBefore
<1>2. CASE Relations!Parse
  <2>1. /\ planStage = "declaring" /\ planStage' \in {"parsed", "rejected"}
        /\ planStage' = "rejected" => UNCHANGED all
        /\ UNCHANGED <<declared, top, planLinks, fields>>
    BY <1>2 DEF Relations!Parse
  <2> QED
    BY <2>1 DEF PlanDeclared, PlanBefore
<1>3. CASE Relations!Plan
  BY <1>3 DEF Relations!Plan, PlanDeclared, PlanBefore
<1>4. CASE Relations!Render
  BY <1>4 DEF Relations!Render, PlanDeclared, PlanBefore
<1>5. CASE UNCHANGED Relations!planOwn
  BY <1>5 DEF Relations!planOwn, PlanDeclared, PlanBefore
<1> QED
  BY <1>1, <1>2, <1>3, <1>4, <1>5 DEF Relations!Next

\* A link leads from a resource or a join table to a resource or a system resource.
LEMMA PlanLinkModels ==
    ASSUME PlanStated, planLinks = PlanChosen(Relations!Candidates), NEW l \in planLinks
    PROVE  l.owner \in Relations!Names \cup Joins /\ l.to \in Relations!Names \cup System
<1>1. PlanEarly(l) \/ PlanLate(l)
  <2> DEFINE c == Relations!Candidates
  <2>1. DOMAIN c = 1..Len(c) /\ \A i \in 1..Len(c) : PlanEarly(c[i]) \/ PlanLate(c[i])
    BY PlanCandidates
  <2>2. \E j \in DOMAIN c : l = c[j]
    BY DEF PlanChosen
  <2> HIDE DEF c
  <2> QED
    BY <2>1, <2>2
<1>2. ASSUME NEW owner, NEW to, NEW stem, l = Relations!Link(owner, to, stem)
      PROVE  l.owner = owner /\ l.to = to
  BY <1>2 DEF Relations!Link
<1>3. ASSUME NEW k, PlanDirectAt(k), l = PlanLinkOf(k)
      PROVE  l.owner = all[k][1] /\ l.to = all[k][2].to /\ k \in PlanIndex
  BY <1>2, <1>3 DEF PlanDirectAt, PlanLinkOf
<1>4. ASSUME NEW k, PlanChildAt(k), l = PlanChildOf(k)
      PROVE  /\ l.owner = all[k][2].to /\ l.to = all[k][1] /\ k \in PlanIndex
             /\ all[k][2].type \notin Relations!Direct
  BY <1>2, <1>4 DEF PlanChildAt, PlanChildOf, Relations!Direct
<1>5. ASSUME NEW r, PlanParentOf(r), l = PlanParentLink(r)
      PROVE  l.owner = r /\ l.to = r /\ r \in Relations!Names
  BY <1>2, <1>5 DEF PlanParentOf, PlanParentLink
<1>6. ASSUME NEW k, PlanJoinAt(k), NEW x \in PlanEnds(k), l = PlanJoinOf(k, x)
      PROVE  /\ l.owner = all[k][2].through /\ l.to \in {all[k][1], all[k][2].to}
             /\ k \in PlanIndex /\ all[k][2].type = "manyToMany"
             /\ all[k][2].type \notin Relations!Direct
  BY <1>2, <1>6 DEF PlanJoinAt, PlanJoinOf, PlanEnds, Relations!Direct
<1>7. CASE PlanEarly(l)
  BY <1>3, <1>4, <1>7, PlanStatedAt DEF PlanEarly
<1>8. CASE PlanLate(l)
  BY <1>5, <1>6, <1>8, PlanStatedAt DEF PlanLate
<1> QED
  BY <1>1, <1>7, <1>8

\* Every field is one of a resource, a system resource or a join table.
LEMMA PlanFieldModels ==
    ASSUME PlanStated, planLinks = PlanChosen(Relations!Candidates), NEW f \in Relations!Fields
    PROVE  f.model \in Relations!Names \cup System \cup Joins
<1> DEFINE Models == Relations!Names \cup System \cup Joins
<1>1. ASSUME NEW model, NEW name, NEW to, NEW side, NEW rel, NEW of,
             f = Relations!Field(model, name, to, side, rel, of)
      PROVE  f.model = model
  BY <1>1 DEF Relations!Field
<1>2. ASSUME NEW l \in planLinks, f \in Relations!OwnerFields(l) PROVE f.model \in Models
  <2>1. f.model = l.owner
    BY <1>1, <1>2 DEF Relations!OwnerFields
  <2> QED
    BY <2>1, PlanLinkModels
<1>3. ASSUME NEW l \in planLinks, f = Relations!BackField(l) PROVE f.model \in Models
  <2>1. f.model = l.to
    BY <1>1, <1>3 DEF Relations!BackField
  <2> QED
    BY <2>1, PlanLinkModels
<1>4. ASSUME NEW k \in DOMAIN all, f = Relations!SystemBack(k) PROVE f.model \in Models
  <2>1. f.model = all[k][2].to
    BY <1>1, <1>4 DEF Relations!SystemBack
  <2> QED
    BY <2>1, PlanStatedDomain, PlanStatedAt
<1>5. ASSUME NEW r \in owned, f \in Relations!Injected(r) PROVE f.model \in Models
  <2>1. f.model \in {r, "user"}
    BY <1>1, <1>5 DEF Relations!Injected
  <2>2. r \in Relations!Names /\ "user" \in System
    BY DEF PlanStated, PlanTypes, PlanParsed, Relations!Accepts
  <2> QED
    BY <2>1, <2>2
<1>6. ASSUME NEW k \in DOMAIN all, Relations!SelfJoin(all[k][1], all[k][2]),
             f \in Relations!SelfJoinFields(all[k][1], all[k][2])
      PROVE  f.model \in Models
  <2>1. f.model \in {all[k][1], all[k][2].through}
    BY <1>1, <1>6 DEF Relations!SelfJoinFields
  <2>2. k \in PlanIndex /\ all[k][2].type = "manyToMany"
    BY <1>6, PlanStatedDomain DEF Relations!SelfJoin
  <2> QED
    BY <2>1, <2>2, PlanStatedAt
<1>7. \/ \E l \in planLinks : f \in Relations!OwnerFields(l) \/ f = Relations!BackField(l)
      \/ \E k \in DOMAIN all : f = Relations!SystemBack(k)
      \/ \E r \in owned : f \in Relations!Injected(r)
      \/ \E k \in DOMAIN all : /\ Relations!SelfJoin(all[k][1], all[k][2])
                               /\ f \in Relations!SelfJoinFields(all[k][1], all[k][2])
      \/ \E p \in Plain : f = PlanDeclaredField(p)
  BY DEF Relations!Fields, PlanDeclaredField
<1>9. ASSUME NEW p \in Plain, f = PlanDeclaredField(p) PROVE f.model \in Models
  <2>1. f.model = p[1]
    BY <1>1, <1>9 DEF PlanDeclaredField
  <2>2. p[1] \in Relations!Names
    BY <1>9 DEF PlanStated, Relations!RelationPlanAssumption
  <2> QED
    BY <2>1, <2>2
<1> HIDE DEF Models
<1>8. f.model \in Models
  BY <1>2, <1>3, <1>4, <1>5, <1>6, <1>7, <1>9, Zenon
<1> QED
  BY <1>8 DEF Models

LEMMA PlanTyped ==
    ASSUME Relations!RelationPlanAssumption, PlanInv, PlanDeclared, PlanBefore
    PROVE  Relations!TypeOK
<1>1. PlanTypes
  BY DEF PlanInv
<1>2. ASSUME NEW r \in Relations!Names, NEW k \in DOMAIN declared[r]
      PROVE  <<r, declared[r][k]>> \in Declarable
  <2>1. declared[r] \in Seq(Relations!Relations)
    BY <1>1 DEF PlanTypes, PlanSpecs
  <2>2. k \in 1..Len(declared[r])
    BY <1>2, <2>1, LenProperties
  <2> QED
    BY <2>2 DEF PlanDeclared
<1>3. ASSUME NEW k \in DOMAIN all PROVE all[k][1] \in Relations!Names
  <2>1. CASE planStage \in {"declaring", "rejected"}
    BY <1>3, <2>1 DEF PlanBefore
  <2>2. CASE planStage \in {"parsed", "planned", "rendered"}
    <3>1. PlanStated
      BY <1>1, <2>2 DEF PlanInv, PlanStated
    <3> QED
      BY <1>3, <3>1, PlanStatedDomain, PlanStatedAt
  <2> QED
    BY <1>1, <2>1, <2>2 DEF PlanTypes
<1>4. ASSUME NEW l \in planLinks
      PROVE  /\ l.to \in Relations!Names \cup System
             /\ \A f \in fields : f.model \in Relations!Names \cup System \cup Joins
  <2>1. planStage \in {"planned", "rendered"}
    BY <1>1, <1>4 DEF PlanBefore, PlanTypes
  <2>2. PlanStated /\ planLinks = PlanChosen(Relations!Candidates)
    BY <1>1, <2>1 DEF PlanInv, PlanStated
  <2>3. fields = {} \/ fields = Relations!Fields
    BY DEF PlanInv, PlanBefore
  <2> QED
    BY <1>4, <2>2, <2>3, PlanLinkModels, PlanFieldModels
<1> QED
  BY <1>1, <1>2, <1>3, <1>4 DEF PlanTypes, PlanDeclared, Relations!TypeOK

RuntimeTypesInv ==
    /\ part = "Inbound" => InboundConstant
    /\ part = "Lifecycle" => LifeTypes
    /\ part = "Relations" => PlanInv /\ PlanDeclared /\ PlanBefore

\* Every variable of the part that is exercised keeps its type.
THEOREM AlwaysRuntimeTypes == ASSUME RuntimeAssumption PROVE RuntimeSpec => []RuntimeTypeOK
<1>0. Relations!RelationPlanAssumption
  BY DEF RuntimeAssumption
<1>1. RuntimeInit => RuntimeTypesInv
  <2> SUFFICES ASSUME RuntimeInit PROVE RuntimeTypesInv
    OBVIOUS
  <2>1. part = "Inbound" => InboundConstant
    BY DEF RuntimeInit, Inbound!Init, InboundConstant
  <2>2. ASSUME part = "Lifecycle" PROVE LifeTypes
    BY <2>2 DEF RuntimeInit, Lifecycle!Init, LifeTypes
  <2>3. ASSUME part = "Relations" PROVE PlanInv /\ PlanDeclared /\ PlanBefore
    BY <1>0, <2>3, PlanInit, PlanDeclaredInit DEF RuntimeInit
  <2> QED
    BY <2>1, <2>2, <2>3 DEF RuntimeTypesInv
<1>2. RuntimeTypesInv /\ [RuntimeNext]_runtimeVars => RuntimeTypesInv'
  <2> SUFFICES ASSUME RuntimeTypesInv, [RuntimeNext]_runtimeVars PROVE RuntimeTypesInv'
    OBVIOUS
  <2>1. part' = part
    BY DEF RuntimeNext, runtimeVars
  <2>2. ASSUME part = "Inbound" PROVE InboundConstant'
    <3>1. InboundConstant
      BY <2>2 DEF RuntimeTypesInv
    <3>2. UNCHANGED <<inboundProduction, secrets>>
      BY <2>2 DEF RuntimeNext, runtimeVars, InboundVars, Inbound!Next, Inbound!Receive,
                  Inbound!HandleFirst
    <3> QED
      BY <3>1, <3>2 DEF InboundConstant
  <2>3. ASSUME part = "Lifecycle" PROVE LifeTypes'
    BY <2>3, LifecycleStep, LifeNext DEF RuntimeTypesInv
  <2>4. ASSUME part = "Relations" PROVE PlanInv' /\ PlanDeclared' /\ PlanBefore'
    <3>1. PlanInv /\ PlanDeclared /\ PlanBefore
      BY <2>4 DEF RuntimeTypesInv
    <3>2. [Relations!Next]_(Relations!planOwn)
      BY <2>4 DEF RuntimeNext, runtimeVars, RelationsVars, Relations!planOwn
    <3> QED
      BY <1>0, <3>1, <3>2, PlanNext, PlanDeclaredNext
  <2> QED
    BY <2>1, <2>2, <2>3, <2>4 DEF RuntimeTypesInv
<1>3. RuntimeTypesInv /\ InboundHolds /\ ShutdownHolds /\ SurfaceHolds => RuntimeTypeOK
  BY <1>0, InboundTyped, LifeTyped, SurfaceTyped, PlanTyped
     DEF RuntimeTypesInv, InboundHolds, ShutdownHolds, SurfaceHolds, RuntimeTypeOK
<1> QED
  BY <1>1, <1>2, <1>3, AlwaysInbound, AlwaysShutdown, AlwaysSurface, PTL DEF RuntimeSpec
=============================================================================
