------------------------ MODULE AccountParts_proofs -------------------------
(***************************************************************************)
(* Proofs about the rate limits, the flows, the login through a provider   *)
(* and the API keys, for any number of requests, addresses and instances.  *)
(* The invariant of a part is an invariant of the group while the part is  *)
(* exercised, and a part is exercised from the first state or never.       *)
(***************************************************************************)
EXTENDS AccountParts, TLAPS, FiniteSetTheorems, SequenceTheorems

-----------------------------------------------------------------------------
(***************************************************************************)
(* Rate limits.  A key's window was opened at some time s: the requests it *)
(* has let through since then are counted, and those before that of which  *)
(* some interval could still see the end are at most Max, being one        *)
(* earlier window's.  The expiry a window gets is no earlier than s +      *)
(* Window, and no request is let through after the expiry.                 *)
(***************************************************************************)
LimitSince(P, k, s) == {p \in P : p.key = k /\ p.at >= s}
LimitBefore(P, k, s) == {p \in P : p.key = k /\ p.at < s /\ p.at + Window > s}
LimitWithin(P, k, t) == {p \in P : p.key = k /\ p.at >= t /\ p.at < t + Window}

LimitPasses == [by : Clients, key : Limits!Keys, at : Nat]

\* The window with counter c that opened at s, e of its requests counted and not yet let
\* through.
LimitOpened(P, k, c, e, s) ==
    /\ s <= now
    /\ c.until # None => s + Window <= c.until
    /\ Cardinality(LimitSince(P, k, s)) + e <= c.count
    /\ Cardinality(LimitSince(P, k, s)) + e <= Max
    /\ Cardinality(LimitBefore(P, k, s)) <= Max

LimitExpiring(r, k) == counting[r] = "expiring" /\ Head(uncounted[r]) = k

LimitPending(k) == IF \E r \in Clients : LimitExpiring(r, k) THEN 1 ELSE 0

LimitTypes ==
    /\ now \in Nat /\ limiter \in {"memory", "redis"}
    /\ counters \in [Limits!Keys -> [count : Nat, until : Nat \cup {None}]]
    /\ uncounted \in [Clients -> Seq(Limits!Keys)]
    /\ counting \in [Clients ->
           {"new", "counting", "expiring", "stopped", "refused", "admitted"}]
    /\ \A r \in Clients : counting[r] \in {"counting", "expiring"} => uncounted[r] # <<>>
    /\ passed \subseteq LimitPasses /\ IsFiniteSet(passed)
    /\ \A p \in passed : p.at <= now

\* A request between INCR and PEXPIRE has the key's window to itself.
LimitOpeners ==
    /\ \A r \in Clients : counting[r] = "expiring" =>
           counters[Head(uncounted[r])] # Limits!Missing
           /\ counters[Head(uncounted[r])].until = None
    /\ \A r, q \in Clients :
           counting[r] = "expiring" /\ counting[q] = "expiring"
           /\ Head(uncounted[r]) = Head(uncounted[q]) => r = q

LimitCounted ==
    /\ \A k \in Limits!Keys : counters[k] # Limits!Missing => counters[k].count >= 1
    /\ \A p \in passed :
           /\ counters[p.key] # Limits!Missing
           /\ counters[p.key].until # None =>
                  IF limiter = "memory" THEN p.at <= counters[p.key].until
                  ELSE p.at < counters[p.key].until

LimitWindows ==
    \A k \in Limits!Keys : \E s \in Nat :
        LimitOpened(passed, k, counters[k], LimitPending(k), s)

LimitBound ==
    \A k \in Limits!Keys, t \in Nat : Cardinality(LimitWithin(passed, k, t)) <= 2 * Max

LimitInv ==
    LimitTypes /\ LimitOpeners /\ LimitCounted /\ LimitWindows /\ LimitBound
    /\ Limits!CountersExpire

LEMMA LimitCardinality == \A S : Limits!Cardinality(S) = Cardinality(S)
  BY ZenonT(60) DEF Limits!Cardinality, Cardinality

LEMMA LimitFinite ==
    ASSUME NEW P, IsFiniteSet(P), NEW k, NEW s
    PROVE  /\ IsFiniteSet(LimitSince(P, k, s)) /\ Cardinality(LimitSince(P, k, s)) \in Nat
           /\ IsFiniteSet(LimitBefore(P, k, s)) /\ Cardinality(LimitBefore(P, k, s)) \in Nat
           /\ IsFiniteSet(LimitWithin(P, k, s)) /\ Cardinality(LimitWithin(P, k, s)) \in Nat
<1>1. LimitSince(P, k, s) \in SUBSET P
  BY DEF LimitSince
<1>2. LimitBefore(P, k, s) \in SUBSET P
  BY DEF LimitBefore
<1>3. LimitWithin(P, k, s) \in SUBSET P
  BY DEF LimitWithin
<1> QED
  BY <1>1, <1>2, <1>3, FS_Subset, FS_CardinalityType

\* One more request let through now, in the window that opened at s.
LEMMA LimitPass ==
    ASSUME Limits!RateLimitsAssumption, now \in Nat,
           NEW P \in SUBSET LimitPasses, IsFiniteSet(P),
           NEW x \in LimitPasses, x.at = now, NEW k, x.key = k, NEW Q, Q = P \cup {x},
           NEW s \in Nat, s <= now
    PROVE  /\ Cardinality(LimitSince(Q, k, s)) <= Cardinality(LimitSince(P, k, s)) + 1
           /\ LimitBefore(Q, k, s) = LimitBefore(P, k, s)
<1>1. LimitSince(Q, k, s) = LimitSince(P, k, s) \cup {x}
  BY DEF LimitSince, LimitPasses
<1>2. LimitBefore(Q, k, s) = LimitBefore(P, k, s)
  BY DEF LimitBefore, LimitPasses
<1>3. /\ IsFiniteSet(LimitSince(P, k, s))
      /\ Cardinality(LimitSince(P, k, s)) \in Nat
  BY LimitFinite
<1>4. Cardinality(LimitSince(P, k, s) \cup {x})
          <= Cardinality(LimitSince(P, k, s)) + 1
  <2>1. \/ Cardinality(LimitSince(P, k, s) \cup {x}) = Cardinality(LimitSince(P, k, s))
        \/ Cardinality(LimitSince(P, k, s) \cup {x}) =
               Cardinality(LimitSince(P, k, s)) + 1
    BY <1>3, FS_AddElement
  <2> QED
    BY <1>3, <2>1
<1> QED
  BY <1>1, <1>2, <1>4

\* The other keys have let no one through.
LEMMA LimitPassElsewhere ==
    ASSUME NEW P, NEW x, NEW k, k # x.key, NEW Q, Q = P \cup {x}, NEW s
    PROVE  /\ LimitSince(Q, k, s) = LimitSince(P, k, s)
           /\ LimitBefore(Q, k, s) = LimitBefore(P, k, s)
           /\ LimitWithin(Q, k, s) = LimitWithin(P, k, s)
  BY DEF LimitSince, LimitBefore, LimitWithin

\* An interval that sees the request let through now sees at most the window that is open
\* and the end of the one before.
LEMMA LimitPassBound ==
    ASSUME Limits!RateLimitsAssumption, now \in Nat,
           NEW P \in SUBSET LimitPasses, IsFiniteSet(P), \A p \in P : p.at <= now,
           NEW x \in LimitPasses, x.at = now, NEW k, x.key = k, NEW Q, Q = P \cup {x},
           NEW s \in Nat, s <= now,
           Cardinality(LimitSince(Q, k, s)) <= Max,
           Cardinality(LimitBefore(Q, k, s)) <= Max,
           NEW t \in Nat, Cardinality(LimitWithin(P, k, t)) <= 2 * Max
    PROVE  Cardinality(LimitWithin(Q, k, t)) <= 2 * Max
<1> DEFINE S == LimitSince(Q, k, s)
           B == LimitBefore(Q, k, s)
           W == LimitWithin(Q, k, t)
<1>0. Max \in Nat /\ Window \in Nat /\ Window > 0
  BY DEF Limits!RateLimitsAssumption
<1>1. CASE ~(now >= t /\ now < t + Window)
  <2>1. W = LimitWithin(P, k, t)
    BY <1>1 DEF LimitWithin
  <2> QED
    BY <2>1
<1>2. CASE now >= t /\ now < t + Window
  <2>1. IsFiniteSet(Q)
    BY FS_AddElement
  <2>2. /\ IsFiniteSet(S) /\ Cardinality(S) \in Nat /\ IsFiniteSet(B) /\ Cardinality(B) \in Nat
        /\ Cardinality(W) \in Nat
    BY <2>1, LimitFinite
  <2>3. W \in SUBSET (S \cup B)
    <3>1. \A p \in Q : p.at \in Nat /\ p.at <= now
      BY DEF LimitPasses
    <3> QED
      BY <1>0, <1>2, <3>1 DEF LimitWithin, LimitSince, LimitBefore
  <2> HIDE DEF S, B, W
  <2>4. IsFiniteSet(S \cup B) /\ IsFiniteSet(S \cap B)
        /\ Cardinality(S \cup B) = Cardinality(S) + Cardinality(B) - Cardinality(S \cap B)
        /\ Cardinality(S \cap B) \in Nat
    <3>1. S \cap B \in SUBSET S
      OBVIOUS
    <3> QED
      BY <2>2, <3>1, FS_Union, FS_Subset, FS_CardinalityType
  <2>5. Cardinality(W) <= Cardinality(S \cup B)
    BY <2>3, <2>4, FS_Subset
  <2>6. Cardinality(S) <= Max /\ Cardinality(B) <= Max
    BY DEF S, B
  <2>7. Cardinality(S \cup B) \in Nat
    BY <2>4, FS_CardinalityType
  <2> QED
    <3>1. Cardinality(W) <= 2 * Max
      BY <1>0, <2>2, <2>4, <2>5, <2>6, <2>7
    <3> QED
      BY <3>1 DEF W
<1> QED
  BY <1>1, <1>2

\* A window that opens now counts nobody yet, and what it is adjacent to is the end of
\* the one before, if there was one.
LEMMA LimitOpening ==
    ASSUME Limits!RateLimitsAssumption, LimitInv, NEW k \in Limits!Keys, Limits!Fresh(k)
    PROVE  /\ Cardinality(LimitSince(passed, k, now)) = 0
           /\ Cardinality(LimitBefore(passed, k, now)) <= Max
<1>0. /\ Max \in Nat /\ Window \in Nat /\ now \in Nat /\ passed \in SUBSET LimitPasses
      /\ IsFiniteSet(passed) /\ limiter \in {"memory", "redis"} /\ None \notin Nat
      /\ counters[k] \in [count : Nat, until : Nat \cup {None}]
  BY DEF Limits!RateLimitsAssumption, LimitInv, LimitTypes
<1>1. \A p \in passed : p.at \in Nat /\ p.at <= now
  BY DEF LimitInv, LimitTypes, LimitPasses
<1>2. CASE counters[k] = Limits!Missing
  <2>1. \A p \in passed : p.key # k
    BY <1>2 DEF LimitInv, LimitCounted
  <2>2. LimitSince(passed, k, now) = {} /\ LimitBefore(passed, k, now) = {}
    BY <2>1 DEF LimitSince, LimitBefore
  <2> QED
    BY <1>0, <2>2, FS_EmptySet
<1>3. CASE counters[k] # Limits!Missing
  <2> DEFINE u == counters[k].until
  <2>1. u \in Nat /\ u <= now /\ (limiter = "memory" => u < now)
    BY <1>0, <1>3 DEF Limits!Fresh
  <2>2. \A p \in passed : p.key = k => p.at < now
    <3> SUFFICES ASSUME NEW p \in passed, p.key = k PROVE p.at < now
      OBVIOUS
    <3>1. IF limiter = "memory" THEN p.at <= u ELSE p.at < u
      BY <1>0, <2>1 DEF LimitInv, LimitCounted
    <3> QED
      BY <1>0, <1>1, <2>1, <3>1
  <2>3. LimitSince(passed, k, now) = {}
    BY <1>0, <1>1, <2>2 DEF LimitSince
  <2>4. PICK s \in Nat : LimitOpened(passed, k, counters[k], LimitPending(k), s)
    BY DEF LimitInv, LimitWindows
  <2>5. s + Window <= u /\ Cardinality(LimitSince(passed, k, s)) + LimitPending(k) <= Max
    BY <1>0, <2>1, <2>4 DEF LimitOpened
  <2>6. LimitBefore(passed, k, now) \in SUBSET LimitSince(passed, k, s)
    BY <1>0, <1>1, <2>1, <2>4, <2>5 DEF LimitBefore, LimitSince
  <2>7. /\ IsFiniteSet(LimitSince(passed, k, s)) /\ Cardinality(LimitSince(passed, k, s)) \in Nat
        /\ Cardinality(LimitBefore(passed, k, now)) \in Nat
    BY <1>0, LimitFinite
  <2>8. Cardinality(LimitBefore(passed, k, now)) <= Cardinality(LimitSince(passed, k, s))
    BY <2>6, <2>7, FS_Subset
  <2>9. LimitPending(k) \in {0, 1}
    BY DEF LimitPending
  <2>10. Cardinality(LimitBefore(passed, k, now)) <= Max
    <3> HIDE DEF u
    <3> QED
      BY <1>0, <2>5, <2>7, <2>8, <2>9
  <2> QED
    BY <2>3, <2>10, FS_EmptySet
<1> QED
  BY <1>2, <1>3

LEMMA LimitHead ==
    ASSUME LimitTypes, NEW r \in Clients, uncounted[r] # <<>>
    PROVE  /\ Head(uncounted[r]) \in Limits!Keys
           /\ Tail(uncounted[r]) \in Seq(Limits!Keys)
           /\ Len(uncounted[r]) # 1 => Tail(uncounted[r]) # <<>>
<1> DEFINE s == uncounted[r]
<1>1. s \in Seq(Limits!Keys) /\ s # <<>>
  BY DEF LimitTypes
<1> HIDE DEF s
<1>2. /\ Head(s) \in Limits!Keys /\ Tail(s) \in Seq(Limits!Keys)
      /\ Len(Tail(s)) = Len(s) - 1 /\ Len(s) \in Nat
  BY <1>1, HeadTailProperties
<1>3. Len(s) # 1 => Tail(s) # <<>>
  <2>1. Tail(s) = <<>> <=> Len(Tail(s)) = 0
    BY <1>2, EmptySeq
  <2> QED
    BY <1>2, <2>1
<1> QED
  BY <1>2, <1>3 DEF s

LEMMA LimitKeysOf ==
    ASSUME NEW address \in Addresses, NEW subject \in Subjects \cup {None}, NEW auth \in BOOLEAN
    PROVE  /\ Limits!KeysOf(address, subject, auth) \in Seq(Limits!Keys)
           /\ Limits!KeysOf(address, subject, auth) # <<>>
<1>1. /\ <<"ip", address>> \in Limits!Keys /\ <<"authrl", address>> \in Limits!Keys
      /\ subject # None => <<"user", subject>> \in Limits!Keys
  BY DEF Limits!Keys
<1> DEFINE a == <<<<"ip", address>>>>
           b == IF subject # None THEN <<<<"user", subject>>>> ELSE <<>>
           c == IF auth THEN <<<<"authrl", address>>>> ELSE <<>>
<1>2. a \in Seq(Limits!Keys) /\ b \in Seq(Limits!Keys) /\ c \in Seq(Limits!Keys) /\ Len(a) = 1
  BY <1>1
<1>3. Limits!KeysOf(address, subject, auth) = (a \o b) \o c
  BY DEF Limits!KeysOf
<1> HIDE DEF a, b, c
<1>4. a \o b \in Seq(Limits!Keys) /\ Len(a \o b) = 1 + Len(b)
  BY <1>2, ConcatProperties
<1>6. Len(b) \in Nat /\ Len(c) \in Nat
  BY <1>2
<1>5. (a \o b) \o c \in Seq(Limits!Keys) /\ Len((a \o b) \o c) = 1 + Len(b) + Len(c)
  BY <1>2, <1>4, <1>6, ConcatProperties
<1> QED
  BY <1>3, <1>5, <1>6

\* The counter of a request between INCR and PEXPIRE is neither missing nor expired.
LEMMA LimitOpen ==
    ASSUME LimitOpeners, NEW q \in Clients, NEW k, LimitExpiring(q, k)
    PROVE  counters[k] # Limits!Missing /\ counters[k].until = None /\ ~Limits!Fresh(k)
  BY DEF LimitOpeners, LimitExpiring, Limits!Fresh

\* A request is let through the limit of its first key, whose counter is now c.
LEMMA LimitLetThrough ==
    ASSUME Limits!RateLimitsAssumption, LimitInv,
           NEW r \in Clients, counting[r] \in {"counting", "expiring"}, NEW k, NEW n,
           k = Head(uncounted[r]), Limits!Judge(r, k, n), ~Limits!Over(n),
           NEW c \in [count : Nat, until : Nat \cup {None}], c.count >= 1,
           counters' = [counters EXCEPT ![k] = c], UNCHANGED <<now, limiter>>,
           c.until # None =>
               IF limiter = "memory" THEN now <= c.until ELSE now < c.until,
           \A q \in Clients : q # r /\ LimitExpiring(q, k) => c.until = None,
           c.until = None => \E q \in Clients :
               q # r /\ counting[q] \in {"expiring", "stopped"} /\ Head(uncounted[q]) = k,
           NEW s \in Nat, NEW e \in {0, 1},
           LimitOpened(passed, k, c, e + 1, s),
           (\E q \in Clients : q # r /\ LimitExpiring(q, k)) => e = 1
    PROVE  LimitInv'
<1> DEFINE x == [by |-> r, key |-> k, at |-> now]
<1>1. /\ passed' = passed \cup {x} /\ UNCHANGED <<now, limiter>>
      /\ uncounted' = [uncounted EXCEPT ![r] = Tail(uncounted[r])]
      /\ counting' =
             [counting EXCEPT ![r] = IF Len(uncounted[r]) = 1 THEN "admitted" ELSE "counting"]
  BY DEF Limits!Judge
<1>2. /\ now \in Nat /\ Max \in Nat /\ Window \in Nat /\ limiter \in {"memory", "redis"}
      /\ None \notin Nat /\ IsFiniteSet(passed) /\ passed \in SUBSET LimitPasses
      /\ counters \in [Limits!Keys -> [count : Nat, until : Nat \cup {None}]]
      /\ uncounted \in [Clients -> Seq(Limits!Keys)]
      /\ counting \in [Clients ->
             {"new", "counting", "expiring", "stopped", "refused", "admitted"}]
  BY DEF Limits!RateLimitsAssumption, LimitInv, LimitTypes
<1>3. k \in Limits!Keys /\ Tail(uncounted[r]) \in Seq(Limits!Keys)
      /\ (Len(uncounted[r]) # 1 => Tail(uncounted[r]) # <<>>)
  BY LimitHead DEF LimitInv, LimitTypes
<1>4. x \in LimitPasses /\ x.key = k /\ x.at = now
  BY <1>2, <1>3 DEF LimitPasses
<1>5. /\ \A q \in Clients : q # r => uncounted'[q] = uncounted[q] /\ counting'[q] = counting[q]
      /\ uncounted'[r] = Tail(uncounted[r])
      /\ counting'[r] = IF Len(uncounted[r]) = 1 THEN "admitted" ELSE "counting"
      /\ uncounted' \in [Clients -> Seq(Limits!Keys)]
      /\ counting' \in [Clients ->
             {"new", "counting", "expiring", "stopped", "refused", "admitted"}]
  BY <1>1, <1>2, <1>3
<1>6. /\ counters' \in [Limits!Keys -> [count : Nat, until : Nat \cup {None}]]
      /\ counters'[k] = c /\ c # Limits!Missing
      /\ \A j \in Limits!Keys : j # k => counters'[j] = counters[j]
  BY <1>2, <1>3 DEF Limits!Missing
<1> HIDE DEF x
<1>7. LimitTypes'
  <2>1. IsFiniteSet(passed') /\ passed' \subseteq LimitPasses
    BY <1>1, <1>2, <1>4, FS_AddElement
  <2>2. \A p \in passed' : p.at <= now'
    BY <1>1, <1>2, <1>4 DEF LimitInv, LimitTypes
  <2>3. \A q \in Clients : counting'[q] \in {"counting", "expiring"} => uncounted'[q] # <<>>
    BY <1>3, <1>5 DEF LimitInv, LimitTypes
  <2> QED
    BY <1>1, <1>2, <1>5, <1>6, <2>1, <2>2, <2>3 DEF LimitTypes
<1>8. LimitOpeners'
  <2>1. \A q \in Clients : counting'[q] = "expiring" =>
            q # r /\ counting[q] = "expiring" /\ uncounted'[q] = uncounted[q]
    BY <1>5
  <2>2. ASSUME NEW q \in Clients, counting'[q] = "expiring"
        PROVE  counters'[Head(uncounted'[q])] # Limits!Missing
               /\ counters'[Head(uncounted'[q])].until = None
    <3>1. q # r /\ LimitExpiring(q, Head(uncounted[q])) /\ uncounted'[q] = uncounted[q]
          /\ uncounted[q] # <<>>
      BY <2>1, <2>2 DEF LimitExpiring, LimitInv, LimitTypes
    <3>2. Head(uncounted[q]) \in Limits!Keys
      BY <3>1, LimitHead DEF LimitInv
    <3>3. CASE Head(uncounted[q]) = k
      BY <1>6, <3>1, <3>3
    <3>4. CASE Head(uncounted[q]) # k
      BY <1>6, <3>1, <3>2, <3>4, LimitOpen DEF LimitInv
    <3> QED
      BY <3>3, <3>4
  <2>3. \A q, p \in Clients :
            counting'[q] = "expiring" /\ counting'[p] = "expiring"
            /\ Head(uncounted'[q]) = Head(uncounted'[p]) => q = p
    BY <2>1 DEF LimitInv, LimitOpeners
  <2> QED
    BY <2>2, <2>3 DEF LimitOpeners, Limits!Missing
<1>9. LimitCounted'
  <2>1. \A j \in Limits!Keys : counters'[j] # Limits!Missing => counters'[j].count >= 1
    BY <1>6 DEF LimitInv, LimitCounted
  <2>2. ASSUME NEW p \in passed'
        PROVE  /\ counters'[p.key] # Limits!Missing
               /\ counters'[p.key].until # None =>
                      IF limiter = "memory" THEN p.at <= counters'[p.key].until
                      ELSE p.at < counters'[p.key].until
    <3>1. p.key \in Limits!Keys /\ p.at \in Nat /\ p.at <= now
      BY <1>1, <1>2, <1>4 DEF LimitInv, LimitTypes, LimitPasses
    <3>2. CASE p.key = k
      BY <1>2, <1>6, <3>1, <3>2
    <3>3. CASE p.key # k
      BY <1>1, <1>4, <1>6, <3>1, <3>3 DEF LimitInv, LimitCounted
    <3> QED
      BY <3>2, <3>3
  <2> QED
    BY <1>1, <2>1, <2>2 DEF LimitCounted, Limits!Missing
<1>10. \A j \in Limits!Keys :
           LimitPending(j)' \in {0, 1} /\ (j # k => LimitPending(j)' = LimitPending(j))
           /\ LimitPending(k)' <= e
  <2>1. \A q \in Clients : \A j : LimitExpiring(q, j)' <=> q # r /\ LimitExpiring(q, j)
    BY <1>5 DEF LimitExpiring
  <2>2. \A j : j # k => ~LimitExpiring(r, j)
    BY DEF LimitExpiring
  <2>3. \A j : LimitPending(j)' =
            IF \E q \in Clients : q # r /\ LimitExpiring(q, j) THEN 1 ELSE 0
    BY <2>1 DEF LimitPending
  <2>4. \A j : j # k => LimitPending(j)' = LimitPending(j)
    BY <2>2, <2>3 DEF LimitPending
  <2> QED
    BY <2>3, <2>4
<1>11. LimitOpened(passed', k, c, LimitPending(k)', s)
  <2>1. /\ Cardinality(LimitSince(passed', k, s)) <= Cardinality(LimitSince(passed, k, s)) + 1
        /\ LimitBefore(passed', k, s) = LimitBefore(passed, k, s)
    <3>1. /\ passed' = passed \cup {x} /\ s <= now /\ now \in Nat
          /\ passed \in SUBSET LimitPasses /\ IsFiniteSet(passed)
          /\ x \in LimitPasses /\ x.key = k /\ x.at = now
      BY <1>1, <1>2, <1>4 DEF LimitOpened
    <3> QED
      BY ONLY Limits!RateLimitsAssumption, s \in Nat, <3>1, LimitPass
  <2>2. IsFiniteSet(passed')
    BY <1>1, <1>2, FS_AddElement
  <2>3. Cardinality(LimitSince(passed', k, s)) \in Nat
        /\ Cardinality(LimitSince(passed, k, s)) \in Nat /\ c.count \in Nat
    BY <1>2, <2>2, LimitFinite
  <2>4. /\ Cardinality(LimitSince(passed, k, s)) + (e + 1) <= c.count
        /\ Cardinality(LimitSince(passed, k, s)) + (e + 1) <= Max
        /\ Cardinality(LimitBefore(passed, k, s)) <= Max
        /\ s <= now /\ c.until # None => s + Window <= c.until
    BY DEF LimitOpened
  <2>5. LimitPending(k)' \in {0, 1} /\ LimitPending(k)' <= e
    BY <1>3, <1>10
  <2>6. /\ Cardinality(LimitSince(passed', k, s)) + LimitPending(k)' <= c.count
        /\ Cardinality(LimitSince(passed', k, s)) + LimitPending(k)' <= Max
    BY <1>2, <2>1, <2>3, <2>4, <2>5
  <2> QED
    BY <2>1, <2>4, <2>6 DEF LimitOpened
<1>12. LimitWindows'
  <2>1. ASSUME NEW j \in Limits!Keys, j # k
        PROVE  \E z \in Nat :
                   LimitOpened(passed', j, counters'[j], LimitPending(j)', z)
    <3>1. PICK z \in Nat : LimitOpened(passed, j, counters[j], LimitPending(j), z)
      BY DEF LimitInv, LimitWindows
    <3>3. /\ LimitSince(passed', j, z) = LimitSince(passed, j, z)
          /\ LimitBefore(passed', j, z) = LimitBefore(passed, j, z)
      <4>1. passed' = passed \cup {x} /\ j # x.key
        BY <1>1, <1>4, <2>1
      <4> QED
        BY <4>1, LimitPassElsewhere
    <3>2. LimitOpened(passed', j, counters'[j], LimitPending(j)', z)
      BY <1>1, <1>6, <1>10, <2>1, <3>1, <3>3 DEF LimitOpened
    <3> QED
      BY <3>2
  <2>2. \A j \in Limits!Keys : \E z \in Nat :
            LimitOpened(passed', j, counters'[j], LimitPending(j)', z)
    BY <1>6, <1>11, <2>1
  <2> QED
    BY <1>1, <2>2 DEF LimitWindows, LimitOpened
<1>13. LimitBound'
  <2>1. ASSUME NEW j \in Limits!Keys, NEW t \in Nat
        PROVE  Cardinality(LimitWithin(passed', j, t)) <= 2 * Max
    <3>1. Cardinality(LimitWithin(passed, j, t)) <= 2 * Max
      BY DEF LimitInv, LimitBound
    <3>2. CASE j # k
      <4>1. passed' = passed \cup {x} /\ j # x.key
        BY <1>1, <1>4, <3>2
      <4> QED
        <5>1. LimitWithin(passed', j, t) = LimitWithin(passed, j, t)
          BY ONLY <4>1, LimitPassElsewhere
        <5> QED
          BY ONLY <3>1, <5>1
    <3>3. CASE j = k
      <4>1. /\ Cardinality(LimitSince(passed', k, s)) <= Max
            /\ Cardinality(LimitBefore(passed', k, s)) <= Max /\ s <= now
        <5>1. IsFiniteSet(passed')
          BY <1>1, <1>2, FS_AddElement
        <5>2. Cardinality(LimitSince(passed', k, s)) \in Nat
          BY <5>1, LimitFinite
        <5>3. LimitPending(k)' \in {0, 1}
          BY <1>3, <1>10
        <5> QED
          BY <1>2, <1>11, <5>2, <5>3 DEF LimitOpened
      <4>2. \A p \in passed : p.at <= now
        BY DEF LimitInv, LimitTypes
      <4> QED
        <5>1. /\ passed' = passed \cup {x} /\ now \in Nat
              /\ passed \in SUBSET LimitPasses /\ IsFiniteSet(passed)
              /\ x \in LimitPasses /\ x.key = k /\ x.at = now
          BY <1>1, <1>2, <1>4
        <5>2. Cardinality(LimitWithin(passed, k, t)) <= 2 * Max
          BY <3>1, <3>3
        <5>3. Cardinality(LimitWithin(passed', k, t)) <= 2 * Max
          BY ONLY Limits!RateLimitsAssumption, s \in Nat, t \in Nat, <4>1, <4>2, <5>1, <5>2,
                  LimitPassBound
        <5> QED
          BY <3>3, <5>3
    <3> QED
      BY <3>2, <3>3
  <2> QED
    BY <2>1 DEF LimitBound
<1>14. Limits!CountersExpire'
  <2>1. ASSUME NEW j \in Limits!Keys, counters'[j] # Limits!Missing, counters'[j].until = None
        PROVE  \E q \in Clients :
                   counting'[q] \in {"expiring", "stopped"} /\ Head(uncounted'[q]) = j
    <3>1. \E q \in Clients :
              q # r /\ counting[q] \in {"expiring", "stopped"} /\ Head(uncounted[q]) = j
      <4>1. CASE j = k
        BY <1>6, <2>1, <4>1
      <4>2. CASE j # k
        <5>1. counters[j] # Limits!Missing /\ counters[j].until = None
          BY <1>6, <2>1, <4>2
        <5> QED
          BY <4>2, <5>1 DEF LimitInv, Limits!CountersExpire
      <4> QED
        BY <4>1, <4>2
    <3> QED
      BY <1>5, <3>1
  <2> QED
    BY <2>1 DEF Limits!CountersExpire, Limits!Missing
<1> QED
  BY <1>7, <1>8, <1>9, <1>12, <1>13, <1>14 DEF LimitInv

\* A step that lets no one through: the counters may only be counted up, and the requests
\* move on without one between INCR and PEXPIRE coming in.
LEMMA LimitNoneThrough ==
    ASSUME Limits!RateLimitsAssumption, LimitInv, UNCHANGED <<limiter, passed>>,
           now' \in Nat, now <= now',
           uncounted' \in [Clients -> Seq(Limits!Keys)],
           counting' \in [Clients ->
               {"new", "counting", "expiring", "stopped", "refused", "admitted"}],
           \A r \in Clients : counting'[r] \in {"counting", "expiring"} => uncounted'[r] # <<>>,
           \A r \in Clients : counting[r] \in {"expiring", "stopped"} =>
               uncounted'[r] = uncounted[r] /\ counting'[r] \in {"expiring", "stopped"},
           \A r \in Clients : counting'[r] = "expiring" => counting[r] = "expiring",
           counters' \in [Limits!Keys -> [count : Nat, until : Nat \cup {None}]],
           \A k \in Limits!Keys :
               counters'[k].until = counters[k].until /\ counters'[k].count >= counters[k].count
               /\ (counters'[k] # Limits!Missing <=> counters[k] # Limits!Missing)
    PROVE  LimitInv'
<1>0. now \in Nat /\ Max \in Nat /\ Window \in Nat /\ passed \in SUBSET LimitPasses
      /\ IsFiniteSet(passed)
      /\ counters \in [Limits!Keys -> [count : Nat, until : Nat \cup {None}]]
  BY DEF Limits!RateLimitsAssumption, LimitInv, LimitTypes
<1>1. LimitTypes'
  <2>1. \A p \in passed' : p.at <= now'
    <3>1. \A p \in passed : p.at \in Nat /\ p.at <= now
      BY DEF LimitInv, LimitTypes, LimitPasses
    <3> QED
      BY <1>0, <3>1
  <2> QED
    BY <2>1 DEF LimitInv, LimitTypes
<1>2. \A q \in Clients : counting'[q] = "expiring" =>
          /\ counting[q] = "expiring" /\ uncounted'[q] = uncounted[q]
          /\ Head(uncounted[q]) \in Limits!Keys
  BY LimitHead DEF LimitInv, LimitTypes
<1>3. LimitOpeners'
  <2>1. ASSUME NEW q \in Clients, counting'[q] = "expiring"
        PROVE  counters'[Head(uncounted'[q])] # Limits!Missing
               /\ counters'[Head(uncounted'[q])].until = None
    <3>1. /\ counting[q] = "expiring" /\ uncounted'[q] = uncounted[q]
          /\ Head(uncounted[q]) \in Limits!Keys
      BY <1>2, <2>1
    <3>2. /\ counters[Head(uncounted[q])] # Limits!Missing
          /\ counters[Head(uncounted[q])].until = None
      BY <3>1 DEF LimitInv, LimitOpeners
    <3> QED
      BY <3>1, <3>2
  <2>2. ASSUME NEW q \in Clients, NEW p \in Clients, counting'[q] = "expiring",
               counting'[p] = "expiring", Head(uncounted'[q]) = Head(uncounted'[p])
        PROVE  q = p
    <3>1. /\ counting[q] = "expiring" /\ counting[p] = "expiring"
          /\ uncounted'[q] = uncounted[q] /\ uncounted'[p] = uncounted[p]
      BY <1>2, <2>2
    <3>2. Head(uncounted[q]) = Head(uncounted[p])
      BY <2>2, <3>1
    <3> QED
      BY <3>1, <3>2 DEF LimitInv, LimitOpeners
  <2> QED
    BY <2>1, <2>2 DEF LimitOpeners, Limits!Missing
<1>4. LimitCounted'
  <2>1. \A k \in Limits!Keys : counters'[k] # Limits!Missing => counters'[k].count >= 1
    BY <1>0 DEF LimitInv, LimitCounted
  <2>2. \A p \in passed : p.key \in Limits!Keys
    BY DEF LimitInv, LimitTypes, LimitPasses
  <2> QED
    BY <2>1, <2>2 DEF LimitInv, LimitCounted, Limits!Missing
<1>5. \A k \in Limits!Keys :
          LimitPending(k) \in {0, 1} /\ LimitPending(k)' \in {0, 1}
          /\ LimitPending(k)' <= LimitPending(k)
  <2>1. \A q \in Clients : \A k : LimitExpiring(q, k)' => LimitExpiring(q, k)
    BY <1>2 DEF LimitExpiring
  <2> QED
    BY <2>1 DEF LimitPending
<1>6. LimitWindows'
  <2>1. ASSUME NEW k \in Limits!Keys
        PROVE  \E s \in Nat :
                   /\ s <= now' /\ (counters'[k].until # None => s + Window <= counters'[k].until)
                   /\ Cardinality(LimitSince(passed, k, s)) + LimitPending(k)' <= counters'[k].count
                   /\ Cardinality(LimitSince(passed, k, s)) + LimitPending(k)' <= Max
                   /\ Cardinality(LimitBefore(passed, k, s)) <= Max
    <3>1. PICK s \in Nat : LimitOpened(passed, k, counters[k], LimitPending(k), s)
      BY DEF LimitInv, LimitWindows
    <3>2. Cardinality(LimitSince(passed, k, s)) \in Nat
      BY <1>0, LimitFinite
    <3>3. /\ s <= now /\ (counters[k].until # None => s + Window <= counters[k].until)
          /\ Cardinality(LimitSince(passed, k, s)) + LimitPending(k) <= counters[k].count
          /\ Cardinality(LimitSince(passed, k, s)) + LimitPending(k) <= Max
          /\ Cardinality(LimitBefore(passed, k, s)) <= Max
      BY <3>1 DEF LimitOpened
    <3>4. counters'[k].until = counters[k].until /\ counters'[k].count >= counters[k].count
          /\ counters[k].count \in Nat /\ counters'[k].count \in Nat
      BY <1>0
    <3>5. LimitPending(k)' <= LimitPending(k) /\ LimitPending(k) \in {0, 1}
          /\ LimitPending(k)' \in {0, 1}
      BY <1>5
    <3> QED
      BY <1>0, <3>2, <3>3, <3>4, <3>5
  <2> QED
    BY <2>1 DEF LimitWindows, LimitOpened
<1>7. LimitBound'
  BY DEF LimitInv, LimitBound
<1>8. Limits!CountersExpire'
  <2>1. ASSUME NEW k \in Limits!Keys, counters'[k] # Limits!Missing, counters'[k].until = None
        PROVE  \E q \in Clients :
                   counting'[q] \in {"expiring", "stopped"} /\ Head(uncounted'[q]) = k
    <3>1. counters[k] # Limits!Missing /\ counters[k].until = None
      BY <2>1
    <3>2. PICK q \in Clients : counting[q] \in {"expiring", "stopped"} /\ Head(uncounted[q]) = k
      BY <3>1 DEF LimitInv, Limits!CountersExpire
    <3> QED
      BY <3>2
  <2> QED
    BY <2>1 DEF Limits!CountersExpire, Limits!Missing
<1> QED
  BY <1>1, <1>3, <1>4, <1>6, <1>7, <1>8 DEF LimitInv

LEMMA LimitTick ==
    ASSUME Limits!RateLimitsAssumption, LimitInv, Limits!Tick
    PROVE  LimitInv'
<1>1. /\ now \in Nat /\ now' = now + 1
      /\ UNCHANGED <<limiter, counters, uncounted, counting, passed>>
  BY DEF Limits!Tick, Limits!limitOwn, LimitInv, LimitTypes
<1>2. now' \in Nat /\ now <= now'
  BY <1>1
<1>3. LimitTypes
  BY DEF LimitInv
<1>4. \A k \in Limits!Keys : counters[k].count \in Nat
  BY <1>3 DEF LimitTypes
<1>5. \A k \in Limits!Keys :
          counters'[k].until = counters[k].until /\ counters'[k].count >= counters[k].count
          /\ (counters'[k] # Limits!Missing <=> counters[k] # Limits!Missing)
  BY <1>1, <1>4
<1> QED
  BY <1>1, <1>2, <1>3, <1>5, LimitNoneThrough DEF LimitTypes

LEMMA LimitArrive ==
    ASSUME Limits!RateLimitsAssumption, LimitInv, NEW r \in Clients, Limits!Arrive(r)
    PROVE  LimitInv'
<1>1. PICK ks \in Seq(Limits!Keys) : ks # <<>> /\ uncounted' = [uncounted EXCEPT ![r] = ks]
  BY LimitKeysOf DEF Limits!Arrive
<1>2. /\ counting[r] = "new" /\ counting' = [counting EXCEPT ![r] = "counting"]
      /\ UNCHANGED <<now, limiter, counters, passed>>
  BY DEF Limits!Arrive
<1>3. LimitTypes
  BY DEF LimitInv
<1>4. /\ uncounted' \in [Clients -> Seq(Limits!Keys)] /\ uncounted'[r] = ks
      /\ counting' \in [Clients ->
             {"new", "counting", "expiring", "stopped", "refused", "admitted"}]
      /\ counting'[r] = "counting"
      /\ \A q \in Clients : q # r => uncounted'[q] = uncounted[q] /\ counting'[q] = counting[q]
  BY <1>1, <1>2, <1>3 DEF LimitTypes
<1>5. \A q \in Clients : counting'[q] \in {"counting", "expiring"} => uncounted'[q] # <<>>
  BY <1>1, <1>3, <1>4 DEF LimitTypes
<1>6. /\ \A q \in Clients : counting[q] \in {"expiring", "stopped"} =>
             uncounted'[q] = uncounted[q] /\ counting'[q] \in {"expiring", "stopped"}
      /\ \A q \in Clients : counting'[q] = "expiring" => counting[q] = "expiring"
  BY <1>2, <1>4
<1>7. now' \in Nat /\ now <= now'
  BY <1>2, <1>3 DEF LimitTypes
<1>8. \A k \in Limits!Keys : counters[k].count \in Nat
  BY <1>3 DEF LimitTypes
<1>9. /\ counters' \in [Limits!Keys -> [count : Nat, until : Nat \cup {None}]]
      /\ \A k \in Limits!Keys :
             counters'[k].until = counters[k].until /\ counters'[k].count >= counters[k].count
             /\ (counters'[k] # Limits!Missing <=> counters[k] # Limits!Missing)
  BY <1>2, <1>3, <1>8 DEF LimitTypes
<1> QED
  BY <1>2, <1>4, <1>5, <1>6, <1>7, <1>9, LimitNoneThrough

LEMMA LimitStop ==
    ASSUME Limits!RateLimitsAssumption, LimitInv, NEW r \in Clients, Limits!StopBeforeExpiry(r)
    PROVE  LimitInv'
<1>1. /\ counting[r] = "expiring" /\ counting' = [counting EXCEPT ![r] = "stopped"]
      /\ UNCHANGED <<now, limiter, counters, uncounted, passed>>
  BY DEF Limits!StopBeforeExpiry
<1>2. LimitTypes
  BY DEF LimitInv
<1>3. /\ counting' \in [Clients ->
             {"new", "counting", "expiring", "stopped", "refused", "admitted"}]
      /\ counting'[r] = "stopped"
      /\ \A q \in Clients : q # r => counting'[q] = counting[q]
  BY <1>1, <1>2 DEF LimitTypes
<1>4. \A q \in Clients : counting'[q] \in {"counting", "expiring"} => uncounted'[q] # <<>>
  BY <1>1, <1>2, <1>3 DEF LimitTypes
<1>5. /\ \A q \in Clients : counting[q] \in {"expiring", "stopped"} =>
             uncounted'[q] = uncounted[q] /\ counting'[q] \in {"expiring", "stopped"}
      /\ \A q \in Clients : counting'[q] = "expiring" => counting[q] = "expiring"
  BY <1>1, <1>3
<1>6. now' \in Nat /\ now <= now' /\ uncounted' \in [Clients -> Seq(Limits!Keys)]
  BY <1>1, <1>2 DEF LimitTypes
<1>7. \A k \in Limits!Keys : counters[k].count \in Nat
  BY <1>2 DEF LimitTypes
<1>8. /\ counters' \in [Limits!Keys -> [count : Nat, until : Nat \cup {None}]]
      /\ \A k \in Limits!Keys :
             counters'[k].until = counters[k].until /\ counters'[k].count >= counters[k].count
             /\ (counters'[k] # Limits!Missing <=> counters[k] # Limits!Missing)
  BY <1>1, <1>2, <1>7 DEF LimitTypes
<1> QED
  BY <1>1, <1>3, <1>4, <1>5, <1>6, <1>8, LimitNoneThrough

\* PEXPIRE: the request that opened the window is alone in having it pending.
LEMMA LimitPExpire ==
    ASSUME Limits!RateLimitsAssumption, LimitInv, NEW r \in Clients, Limits!PExpire(r)
    PROVE  LimitInv'
<1> DEFINE k == Head(uncounted[r])
           c == [counters[k] EXCEPT !.until = now + Window]
<1>1. /\ counting[r] = "expiring" /\ Limits!Judge(r, k, 1) /\ UNCHANGED <<now, limiter>>
      /\ counters' = [counters EXCEPT ![k].until = now + Window]
  BY DEF Limits!PExpire, Limits!ExpirySet
<1>2. /\ now \in Nat /\ Max \in Nat \ {0} /\ Window \in Nat \ {0} /\ None \notin Nat
      /\ counters \in [Limits!Keys -> [count : Nat, until : Nat \cup {None}]]
      /\ IsFiniteSet(passed) /\ limiter \in {"memory", "redis"}
  BY DEF Limits!RateLimitsAssumption, LimitInv, LimitTypes
<1>3. k \in Limits!Keys /\ LimitExpiring(r, k)
  BY <1>1, LimitHead DEF LimitInv, LimitTypes, LimitExpiring
<1>4. \A q \in Clients : q # r => ~LimitExpiring(q, k)
  BY <1>1 DEF LimitInv, LimitOpeners, LimitExpiring
<1>5. /\ counters' = [counters EXCEPT ![k] = c]
      /\ c \in [count : Nat, until : Nat \cup {None}] /\ c.until = now + Window
      /\ c.count = counters[k].count /\ c.until # None /\ counters[k].count \in Nat
  BY <1>1, <1>2, <1>3
<1>6. c.count >= 1
  BY <1>3, <1>5, LimitOpen DEF LimitInv, LimitCounted
<1>7. ~Limits!Over(1)
  BY <1>2 DEF Limits!Over
<1> HIDE DEF k, c
<1>8. IF limiter = "memory" THEN now <= c.until ELSE now < c.until
  BY <1>2, <1>5
<1>9. PICK s \in Nat : LimitOpened(passed, k, counters[k], LimitPending(k), s)
  BY <1>3 DEF LimitInv, LimitWindows
<1>10. LimitPending(k) = 1
  BY <1>3 DEF LimitPending
<1>11. LimitOpened(passed, k, c, 0 + 1, s)
  <2>1. s + Window <= now + Window
    BY <1>2, <1>9 DEF LimitOpened
  <2> QED
    BY <1>5, <1>9, <1>10, <2>1 DEF LimitOpened
<1>12. \A q \in Clients : q # r /\ LimitExpiring(q, k) => c.until = None
  BY <1>4
<1>13. (\E q \in Clients : q # r /\ LimitExpiring(q, k)) => 0 = 1
  BY <1>4
<1>14. k = Head(uncounted[r])
  BY DEF k
<1> QED
  BY <1>1, <1>5, <1>6, <1>7, <1>8, <1>11, <1>12, <1>13, <1>14, LimitLetThrough

LEMMA LimitIncrement ==
    ASSUME Limits!RateLimitsAssumption, LimitInv, NEW r \in Clients, Limits!Increment(r)
    PROVE  LimitInv'
<1>6. PICK k : k = Head(uncounted[r])
  OBVIOUS
<1> DEFINE c == Limits!Incremented(k)
<1>1. /\ counting[r] = "counting" /\ UNCHANGED <<now, limiter>>
      /\ counters' = [counters EXCEPT ![k] = c]
      /\ IF limiter = "redis" /\ c.count = 1
         THEN counting' = [counting EXCEPT ![r] = "expiring"] /\ UNCHANGED <<uncounted, passed>>
         ELSE Limits!Judge(r, k, c.count)
  BY <1>6 DEF Limits!Increment
<1>2. /\ now \in Nat /\ Max \in Nat \ {0} /\ Window \in Nat \ {0} /\ None \notin Nat
      /\ counters \in [Limits!Keys -> [count : Nat, until : Nat \cup {None}]]
      /\ IsFiniteSet(passed) /\ limiter \in {"memory", "redis"} /\ passed \in SUBSET LimitPasses
      /\ uncounted \in [Clients -> Seq(Limits!Keys)]
      /\ counting \in [Clients ->
             {"new", "counting", "expiring", "stopped", "refused", "admitted"}]
  BY DEF Limits!RateLimitsAssumption, LimitInv, LimitTypes
<1>3. k \in Limits!Keys /\ uncounted[r] # <<>>
  BY <1>1, <1>6, LimitHead DEF LimitInv, LimitTypes
<1>4. /\ counters[k] \in [count : Nat, until : Nat \cup {None}]
      /\ counters[k] # Limits!Missing => counters[k].count >= 1
  BY <1>2, <1>3 DEF LimitInv, LimitCounted
<1>5. \A q \in Clients :
          LimitExpiring(q, k) => q # r /\ counters[k].until = None /\ ~Limits!Fresh(k)
  BY <1>1, LimitOpen DEF LimitInv, LimitExpiring
<1>7. CASE Limits!Fresh(k) /\ limiter = "memory"
  <2>1. c = [count |-> 1, until |-> now + Window]
    BY <1>7 DEF Limits!Incremented
  <2>2. /\ c \in [count : Nat, until : Nat \cup {None}] /\ c.count = 1 /\ c.until = now + Window
        /\ c.until # None /\ now <= c.until
    BY <1>2, <2>1
  <2>3. ~Limits!Over(1) /\ Limits!Judge(r, k, 1)
    BY <1>1, <1>2, <1>7, <2>2 DEF Limits!Over
  <2>4. /\ Cardinality(LimitSince(passed, k, now)) = 0
        /\ Cardinality(LimitBefore(passed, k, now)) <= Max
    BY <1>3, <1>7, LimitOpening
  <2> HIDE DEF c
  <2>8. PICK s \in Nat : s = now
    BY <1>2
  <2>5. LimitOpened(passed, k, c, 0 + 1, s)
    BY <1>2, <2>2, <2>4, <2>8 DEF LimitOpened
  <2>6. \A q \in Clients : ~LimitExpiring(q, k)
    BY <1>5, <1>7
  <2>7. /\ \A q \in Clients : q # r /\ LimitExpiring(q, k) => c.until = None
        /\ (\E q \in Clients : q # r /\ LimitExpiring(q, k)) => 0 = 1
    BY <2>6
  <2>9. /\ c.until # None => IF limiter = "memory" THEN now <= c.until ELSE now < c.until
        /\ c.until = None => \E q \in Clients :
               q # r /\ counting[q] \in {"expiring", "stopped"} /\ Head(uncounted[q]) = k
        /\ c.count >= 1
    BY <1>7, <2>2
  <2> QED
    BY <1>1, <1>6, <2>2, <2>3, <2>5, <2>7, <2>9, LimitLetThrough
<1>8. CASE Limits!Fresh(k) /\ limiter = "redis"
  <2>1. c = [count |-> 1, until |-> None]
    BY <1>8 DEF Limits!Incremented
  <2>2. /\ counting' = [counting EXCEPT ![r] = "expiring"] /\ UNCHANGED <<uncounted, passed>>
        /\ c.count = 1 /\ c.until = None /\ c # Limits!Missing
        /\ c \in [count : Nat, until : Nat \cup {None}]
    BY <1>1, <1>8, <2>1 DEF Limits!Missing
  <2>3. /\ Cardinality(LimitSince(passed, k, now)) = 0
        /\ Cardinality(LimitBefore(passed, k, now)) <= Max
    BY <1>3, <1>8, LimitOpening
  <2>4. \A q \in Clients : ~LimitExpiring(q, k)
    BY <1>5, <1>8
  <2> HIDE DEF c
  <2>5. /\ counters' \in [Limits!Keys -> [count : Nat, until : Nat \cup {None}]]
        /\ counters'[k] = c /\ \A j \in Limits!Keys : j # k => counters'[j] = counters[j]
    BY <1>1, <1>2, <1>3, <2>2
  <2>6. /\ counting' \in [Clients ->
               {"new", "counting", "expiring", "stopped", "refused", "admitted"}]
        /\ counting'[r] = "expiring"
        /\ \A q \in Clients : q # r => counting'[q] = counting[q]
    BY <1>2, <2>2
  <2>7. LimitTypes'
    <3>1. \A q \in Clients : counting'[q] \in {"counting", "expiring"} => uncounted[q] # <<>>
      BY <1>3, <2>6 DEF LimitInv, LimitTypes
    <3> QED
      BY <1>1, <2>2, <2>5, <2>6, <3>1 DEF LimitInv, LimitTypes
  <2>8. LimitOpeners'
    <3>1. \A q \in Clients : q # r /\ counting[q] = "expiring" =>
              Head(uncounted[q]) # k /\ Head(uncounted[q]) \in Limits!Keys
      BY <2>4, LimitHead DEF LimitExpiring, LimitInv, LimitTypes
    <3>2. ASSUME NEW q \in Clients, counting'[q] = "expiring"
          PROVE  counters'[Head(uncounted[q])] # Limits!Missing
                 /\ counters'[Head(uncounted[q])].until = None
      <4>1. CASE q = r
        BY <1>6, <2>2, <2>5, <4>1
      <4>2. CASE q # r
        BY <2>5, <2>6, <3>1, <3>2, <4>2 DEF LimitInv, LimitOpeners
      <4> QED
        BY <4>1, <4>2
    <3>3. \A q, p \in Clients :
              counting'[q] = "expiring" /\ counting'[p] = "expiring"
              /\ Head(uncounted[q]) = Head(uncounted[p]) => q = p
      BY <1>6, <2>6, <3>1 DEF LimitInv, LimitOpeners
    <3> QED
      BY <2>2, <3>2, <3>3 DEF LimitOpeners, Limits!Missing
  <2>9. LimitCounted'
    <3>1. \A j \in Limits!Keys : counters'[j] # Limits!Missing => counters'[j].count >= 1
      BY <2>2, <2>5 DEF LimitInv, LimitCounted
    <3>2. \A p \in passed : p.key \in Limits!Keys
      BY <1>2 DEF LimitPasses
    <3> QED
      BY <1>1, <2>2, <2>5, <3>1, <3>2 DEF LimitInv, LimitCounted, Limits!Missing
  <2>10. /\ LimitPending(k)' = 1
         /\ \A j \in Limits!Keys : j # k => LimitPending(j)' = LimitPending(j)
    <3>1. \A q \in Clients : \A j : LimitExpiring(q, j)' <=> LimitExpiring(q, j) \/ (q = r /\ j = k)
      BY <1>1, <1>6, <2>2, <2>6 DEF LimitExpiring
    <3>2. LimitExpiring(r, k)'
      BY <1>1, <1>6, <2>2, <2>6 DEF LimitExpiring
    <3>3. ASSUME NEW j \in Limits!Keys, j # k PROVE LimitPending(j)' = LimitPending(j)
      <4>1. (\E q \in Clients : LimitExpiring(q, j)') <=> (\E q \in Clients : LimitExpiring(q, j))
        BY <3>1, <3>3
      <4> QED
        BY <4>1 DEF LimitPending
    <3>4. LimitPending(k)' = 1
      BY <3>2 DEF LimitPending
    <3> QED
      BY <3>3, <3>4
  <2>11. LimitWindows'
    <3>1. LimitOpened(passed, k, c, LimitPending(k)', now)
      BY <1>2, <2>2, <2>3, <2>10 DEF LimitOpened
    <3>2. \A j \in Limits!Keys : \E s \in Nat :
              LimitOpened(passed, j, counters'[j], LimitPending(j)', s)
      <4> SUFFICES ASSUME NEW j \in Limits!Keys
                   PROVE  \E s \in Nat :
                              LimitOpened(passed, j, counters'[j], LimitPending(j)', s)
        OBVIOUS
      <4>1. CASE j = k
        <5>1. PICK s \in Nat : s = now
          BY <1>2
        <5>2. LimitOpened(passed, k, counters'[k], LimitPending(k)', s)
          BY <2>5, <3>1, <5>1
        <5> QED
          BY <4>1, <5>2
      <4>2. CASE j # k
        <5>1. PICK s \in Nat : LimitOpened(passed, j, counters[j], LimitPending(j), s)
          BY DEF LimitInv, LimitWindows
        <5>2. counters'[j] = counters[j] /\ LimitPending(j)' = LimitPending(j)
          BY <2>5, <2>10, <4>2
        <5> QED
          BY <5>1, <5>2
      <4> QED
        BY <4>1, <4>2
    <3> QED
      BY <1>1, <2>2, <3>2 DEF LimitWindows, LimitOpened
  <2>12. LimitBound'
    BY <2>2 DEF LimitInv, LimitBound
  <2>13. Limits!CountersExpire'
    <3>1. ASSUME NEW j \in Limits!Keys, counters'[j] # Limits!Missing, counters'[j].until = None
          PROVE  \E q \in Clients :
                     counting'[q] \in {"expiring", "stopped"} /\ Head(uncounted'[q]) = j
      <4>1. CASE j = k
        BY <1>6, <2>2, <2>6, <4>1
      <4>2. CASE j # k
        <5>1. counters[j] # Limits!Missing /\ counters[j].until = None
          BY <2>5, <3>1, <4>2
        <5>2. PICK q \in Clients :
                  counting[q] \in {"expiring", "stopped"} /\ Head(uncounted[q]) = j
          BY <5>1 DEF LimitInv, Limits!CountersExpire
        <5> QED
          BY <1>1, <2>2, <2>6, <5>2
      <4> QED
        BY <4>1, <4>2
    <3> QED
      BY <3>1 DEF Limits!CountersExpire, Limits!Missing
  <2> QED
    BY <2>7, <2>8, <2>9, <2>11, <2>12, <2>13 DEF LimitInv
<1>9. CASE ~Limits!Fresh(k)
  <2>1. /\ c \in [count : Nat, until : Nat \cup {None}] /\ c.until = counters[k].until
        /\ c.count = counters[k].count + 1 /\ counters[k].count \in Nat
    BY <1>4, <1>9 DEF Limits!Incremented
  <2>2. counters[k] # Limits!Missing /\ counters[k].count >= 1 /\ c.count >= 2
    BY <1>4, <1>9, <2>1 DEF Limits!Fresh
  <2>3. Limits!Judge(r, k, c.count)
    BY <1>1, <2>2
  <2>4. c.until # None => IF limiter = "memory" THEN now <= c.until ELSE now < c.until
    BY <1>2, <1>4, <1>9, <2>1 DEF Limits!Fresh
  <2> HIDE DEF c
  <2>5. CASE ~Limits!Over(c.count)
    <3>1. PICK s \in Nat : LimitOpened(passed, k, counters[k], LimitPending(k), s)
      BY <1>3 DEF LimitInv, LimitWindows
    <3>2. LimitPending(k) \in {0, 1}
      BY DEF LimitPending
    <3>3. Cardinality(LimitSince(passed, k, s)) \in Nat
      BY <1>2, LimitFinite
    <3>4. /\ Cardinality(LimitSince(passed, k, s)) + LimitPending(k) <= counters[k].count
          /\ c.count <= Max /\ c.count \in Nat
      BY <1>2, <2>1, <2>5, <3>1 DEF LimitOpened, Limits!Over
    <3>5. /\ Cardinality(LimitSince(passed, k, s)) + (LimitPending(k) + 1) <= c.count
          /\ Cardinality(LimitSince(passed, k, s)) + (LimitPending(k) + 1) <= Max
      BY <1>2, <2>1, <3>2, <3>3, <3>4
    <3>6. LimitOpened(passed, k, c, LimitPending(k) + 1, s)
      BY <2>1, <3>1, <3>5 DEF LimitOpened
    <3>7. /\ \A q \in Clients : q # r /\ LimitExpiring(q, k) => c.until = None
          /\ (\E q \in Clients : q # r /\ LimitExpiring(q, k)) => LimitPending(k) = 1
      BY <1>5, <2>1 DEF LimitPending
    <3>8. c.until = None => \E q \in Clients :
              q # r /\ counting[q] \in {"expiring", "stopped"} /\ Head(uncounted[q]) = k
      <4>1. c.until = None => \E q \in Clients :
                counting[q] \in {"expiring", "stopped"} /\ Head(uncounted[q]) = k
        BY <1>3, <2>1, <2>2 DEF LimitInv, Limits!CountersExpire
      <4> QED
        BY <1>1, <4>1
    <3>9. c.count >= 1
      BY <2>1, <2>2
    <3> QED
      BY <1>1, <1>6, <2>1, <2>3, <2>4, <2>5, <3>2, <3>6, <3>7, <3>8, <3>9, LimitLetThrough
  <2>6. CASE Limits!Over(c.count)
    <3>1. /\ counting' = [counting EXCEPT ![r] = "refused"] /\ UNCHANGED <<uncounted, passed>>
      BY <2>3, <2>6 DEF Limits!Judge
    <3>2. /\ counters' \in [Limits!Keys -> [count : Nat, until : Nat \cup {None}]]
          /\ counters'[k] = c /\ \A j \in Limits!Keys : j # k => counters'[j] = counters[j]
      BY <1>1, <1>2, <1>3, <2>1
    <3>3. \A j \in Limits!Keys :
              counters'[j].until = counters[j].until /\ counters'[j].count >= counters[j].count
              /\ (counters'[j] # Limits!Missing <=> counters[j] # Limits!Missing)
      <4>1. \A j \in Limits!Keys : counters[j].count \in Nat
        BY <1>2
      <4>2. c # Limits!Missing
        BY <2>2 DEF Limits!Missing
      <4> QED
        BY <2>1, <2>2, <3>2, <4>1, <4>2
    <3>4. /\ counting' \in [Clients ->
                 {"new", "counting", "expiring", "stopped", "refused", "admitted"}]
          /\ counting'[r] = "refused"
          /\ \A q \in Clients : q # r => counting'[q] = counting[q]
      BY <1>2, <3>1
    <3>5. \A q \in Clients : counting'[q] \in {"counting", "expiring"} => uncounted'[q] # <<>>
      BY <3>1, <3>4 DEF LimitInv, LimitTypes
    <3>6. /\ \A q \in Clients : counting[q] \in {"expiring", "stopped"} =>
                 uncounted'[q] = uncounted[q] /\ counting'[q] \in {"expiring", "stopped"}
          /\ \A q \in Clients : counting'[q] = "expiring" => counting[q] = "expiring"
      BY <1>1, <3>1, <3>4
    <3>7. now' \in Nat /\ now <= now' /\ uncounted' \in [Clients -> Seq(Limits!Keys)]
      BY <1>1, <1>2, <3>1
    <3> QED
      BY <1>1, <3>1, <3>2, <3>3, <3>4, <3>5, <3>6, <3>7, LimitNoneThrough
  <2> QED
    BY <2>5, <2>6
<1> QED
  BY <1>2, <1>7, <1>8, <1>9

LEMMA LimitInit == ASSUME Limits!RateLimitsAssumption, Limits!Init PROVE LimitInv
<1>1. /\ now = 0 /\ limiter \in {"memory", "redis"} /\ passed = {}
      /\ counters = [k \in Limits!Keys |-> Limits!Missing]
      /\ uncounted = [r \in Clients |-> <<>>] /\ counting = [r \in Clients |-> "new"]
  BY DEF Limits!Init
<1>2. Max \in Nat /\ IsFiniteSet({}) /\ Cardinality({}) = 0
  BY FS_EmptySet DEF Limits!RateLimitsAssumption
<1>3. LimitTypes /\ LimitOpeners /\ LimitCounted
  BY <1>1, <1>2 DEF LimitTypes, LimitOpeners, LimitCounted, Limits!Missing
<1>4. \A k : LimitPending(k) = 0
  BY <1>1 DEF LimitPending, LimitExpiring
<1>5. \A k, s : LimitSince(passed, k, s) = {} /\ LimitBefore(passed, k, s) = {}
                /\ LimitWithin(passed, k, s) = {}
  BY <1>1 DEF LimitSince, LimitBefore, LimitWithin
<1>6. LimitBound
  <2>1. 0 <= 2 * Max
    BY <1>2
  <2> QED
    BY <1>2, <1>5, <2>1 DEF LimitBound
<1>7. LimitWindows
  <2>1. ASSUME NEW k \in Limits!Keys PROVE LimitOpened(passed, k, counters[k], LimitPending(k), 0)
    <3>1. /\ now = 0 /\ counters[k].until = None /\ counters[k].count = 0
          /\ LimitPending(k) = 0 /\ 0 <= Max
      BY <1>1, <1>2, <1>4 DEF Limits!Missing
    <3>2. /\ Cardinality(LimitSince(passed, k, 0)) = 0
          /\ Cardinality(LimitBefore(passed, k, 0)) = 0
      BY <1>2, <1>5
    <3> QED
      BY <3>1, <3>2 DEF LimitOpened
  <2> QED
    BY <2>1 DEF LimitWindows
<1>8. Limits!CountersExpire
  BY <1>1 DEF Limits!CountersExpire
<1> QED
  BY <1>3, <1>6, <1>7, <1>8 DEF LimitInv

LEMMA LimitNext ==
    ASSUME Limits!RateLimitsAssumption, LimitInv, Limits!Next PROVE LimitInv'
  BY LimitTick, LimitArrive, LimitIncrement, LimitPExpire, LimitStop DEF Limits!Next

LimitsHold == part = "Limits" => LimitInv

\* While the limiters are exercised their invariant holds.
THEOREM AlwaysLimits == ASSUME AccountAssumption PROVE AccountSpec => []LimitsHold
<1>0. Limits!RateLimitsAssumption
  BY DEF AccountAssumption
<1>1. AccountInit => LimitsHold
  BY <1>0, LimitInit DEF AccountInit, LimitsHold
<1>2. LimitsHold /\ [AccountNext]_accountVars => LimitsHold'
  <2> SUFFICES ASSUME part = "Limits", LimitInv, [AccountNext]_accountVars PROVE LimitInv'
    BY DEF AccountNext, accountVars, LimitsHold
  <2>1. CASE AccountNext
    BY <1>0, <2>1, LimitNext DEF AccountNext
  <2>2. CASE UNCHANGED accountVars
    BY <2>2 DEF accountVars, LimitsVars, LimitInv, LimitTypes, LimitOpeners, LimitCounted,
                LimitWindows, LimitOpened, LimitPending, LimitExpiring, LimitBound,
                Limits!CountersExpire
  <2> QED
    BY <2>1, <2>2
<1> QED
  BY <1>1, <1>2, PTL DEF AccountSpec

\* A counter without an expiry belongs to a request between INCR and PEXPIRE, or stopped
\* there.
THEOREM AlwaysCountersExpire == ASSUME AccountAssumption PROVE AccountSpec => []CountersExpire
<1>1. LimitsHold => CountersExpire
  BY DEF LimitsHold, LimitInv, CountersExpire
<1> QED
  BY <1>1, AlwaysLimits, PTL

\* No Window consecutive milliseconds see more than twice the limit pass a key, in either
\* store.
THEOREM AlwaysAdmittedBounded == ASSUME AccountAssumption PROVE AccountSpec => []AdmittedBounded
<1>1. ASSUME LimitsHold PROVE AdmittedBounded
  <2> SUFFICES ASSUME part = "Limits", LimitInv, NEW k \in Limits!Keys, NEW t \in 0..now
               PROVE  Limits!Cardinality({p \in passed : p.key = k /\ p.at \in t..(t + Window - 1)})
                          <= 2 * Max
    BY <1>1 DEF LimitsHold, AdmittedBounded, Limits!AdmittedBounded
  <2>1. t \in Nat /\ Window \in Nat /\ \A p \in passed : p.at \in Nat
    BY DEF AccountAssumption, Limits!RateLimitsAssumption, LimitInv, LimitTypes, LimitPasses
  <2>2. {p \in passed : p.key = k /\ p.at \in t..(t + Window - 1)} = LimitWithin(passed, k, t)
    BY <2>1 DEF LimitWithin
  <2>3. Cardinality(LimitWithin(passed, k, t)) <= 2 * Max
    BY <2>1 DEF LimitInv, LimitBound
  <2> QED
    BY <2>2, <2>3, LimitCardinality
<1> QED
  BY <1>1, AlwaysLimits, PTL

-----------------------------------------------------------------------------
(***************************************************************************)
(* The in-memory flows: their types.  A login that is being signed is one  *)
(* of an account.                                                          *)
(***************************************************************************)
FlowLogins ==
    \A r \in Requests :
        signing[r] # None /\ signing[r].kind = "login"
            => signing[r].email \in Emails /\ authUsers[signing[r].email] \in Flows!Accounts

FlowTypeInv == Flows!TypeOK /\ FlowLogins

\* An account that changes stays an account.
LEMMA FlowUpdate ==
    ASSUME FlowTypeInv, NEW e \in Emails, NEW u \in Flows!Accounts,
           authUsers' = [authUsers EXCEPT ![e] = u],
           signing' = signing
    PROVE  authUsers' \in [Emails -> {None} \cup Flows!Accounts] /\ FlowLogins'
BY DEF FlowTypeInv, Flows!TypeOK, FlowLogins

\* The lock of an account is set or lifted.
LEMMA FlowLock ==
    ASSUME NEW u \in Flows!Accounts, NEW t \in Nat, Flows!AuthFlowsAssumption
    PROVE  [u EXCEPT !.failed = 0, !.lockedUntil = t] \in Flows!Accounts
<1>1. 0 \in 0..(MaxAttempts - 1)
  BY DEF Flows!AuthFlowsAssumption
<1> DEFINE S == 0..(MaxAttempts - 1)
<1>2. Flows!Accounts =
          [verified : BOOLEAN, verification : Flows!MailedLinks, reset : Flows!MailedLinks,
           refresh : Flows!Tokens \cup {None}, failed : S, lockedUntil : Nat] /\ 0 \in S
  BY <1>1 DEF Flows!Accounts
<1> HIDE DEF S
<1> QED
  BY <1>2

LEMMA FlowGenerated ==
    ASSUME Flows!AuthFlowsAssumption, FlowTypeInv, Flows!Generate
    PROVE  /\ Flows!Token \in Flows!Tokens /\ Flows!Token \notin 1..generated
           /\ generated' = Flows!Token /\ generated' \in 0..FlowTokens
BY DEF Flows!AuthFlowsAssumption, FlowTypeInv, Flows!TypeOK, Flows!Generate, Flows!Token,
         Flows!Tokens

LEMMA FlowRegister ==
    ASSUME Flows!AuthFlowsAssumption, FlowTypeInv, Flows!Register PROVE FlowTypeInv'
<1>1. PICK e \in Emails \ Flows!Registered :
          authUsers' = [authUsers EXCEPT ![e] =
               [verified |-> FALSE,
                verification |-> [token |-> Flows!Token, until |-> now + TokenTtl],
                reset |-> None, refresh |-> None, failed |-> 0, lockedUntil |-> 0]]
  BY DEF Flows!Register
<1>2. Flows!Generate /\ UNCHANGED <<now, revoked, signing, guesses, uses>>
  BY DEF Flows!Register
<1>3. [token |-> Flows!Token, until |-> now + TokenTtl] \in Flows!MailedLinks
  BY <1>2, FlowGenerated DEF Flows!MailedLinks, FlowTypeInv, Flows!TypeOK, Flows!AuthFlowsAssumption
<1>4. [verified |-> FALSE,
       verification |-> [token |-> Flows!Token, until |-> now + TokenTtl],
       reset |-> None, refresh |-> None, failed |-> 0, lockedUntil |-> 0] \in Flows!Accounts
  BY <1>3 DEF Flows!Accounts, Flows!MailedLinks, Flows!AuthFlowsAssumption
<1> QED
  BY <1>1, <1>2, <1>4, FlowUpdate, FlowGenerated DEF FlowTypeInv, Flows!TypeOK

LEMMA FlowVerifyEmail == ASSUME FlowTypeInv, Flows!VerifyEmail PROVE FlowTypeInv'
<1>1. PICK e \in Flows!Registered :
          authUsers' = [authUsers EXCEPT ![e].verified = TRUE, ![e].verification = None]
  BY DEF Flows!VerifyEmail
<1>2. e \in Emails /\ authUsers[e] \in Flows!Accounts
  BY DEF Flows!Registered, FlowTypeInv, Flows!TypeOK
<1>3. [authUsers[e] EXCEPT !.verified = TRUE, !.verification = None] \in Flows!Accounts
  BY <1>2 DEF Flows!Accounts, Flows!MailedLinks
<1>4. authUsers' = [authUsers EXCEPT
                       ![e] = [authUsers[e] EXCEPT !.verified = TRUE, !.verification = None]]
  BY <1>1, <1>2 DEF FlowTypeInv, Flows!TypeOK
<1> QED
  BY <1>2, <1>3, <1>4, FlowUpdate DEF FlowTypeInv, Flows!TypeOK, Flows!VerifyEmail

LEMMA FlowWrongPassword ==
    ASSUME Flows!AuthFlowsAssumption, FlowTypeInv, Flows!WrongPassword PROVE FlowTypeInv'
<1>1. PICK e \in Flows!Registered :
          /\ authUsers' = [authUsers EXCEPT ![e] = Flows!Failed(authUsers[e])]
          /\ guesses' = [guesses EXCEPT ![e] = Append(guesses[e], now)]
  BY DEF Flows!WrongPassword
<1>2. e \in Emails /\ authUsers[e] \in Flows!Accounts
  BY DEF Flows!Registered, FlowTypeInv, Flows!TypeOK
<1>3. Flows!Failed(authUsers[e]) \in Flows!Accounts
  <2>1. CASE authUsers[e].failed + 1 >= MaxAttempts
    <3>1. now + LockWindow \in Nat
      BY DEF FlowTypeInv, Flows!TypeOK, Flows!AuthFlowsAssumption
    <3> QED
      BY <1>2, <2>1, <3>1, FlowLock DEF Flows!Failed
  <2>2. CASE ~(authUsers[e].failed + 1 >= MaxAttempts)
    BY <1>2, <2>2 DEF Flows!Failed, Flows!Accounts, Flows!AuthFlowsAssumption
  <2> QED
    BY <2>1, <2>2
<1>4. guesses' \in [Emails -> Seq(Nat)]
  BY <1>1, <1>2 DEF FlowTypeInv, Flows!TypeOK
<1> QED
  BY <1>1, <1>2, <1>3, <1>4, FlowUpdate DEF FlowTypeInv, Flows!TypeOK, Flows!WrongPassword

LEMMA FlowLogIn ==
    ASSUME Flows!AuthFlowsAssumption, FlowTypeInv, NEW r \in Requests, Flows!LogIn(r)
    PROVE  FlowTypeInv'
<1>1. PICK e \in Flows!Registered :
          /\ authUsers' = [authUsers EXCEPT ![e].failed = 0, ![e].lockedUntil = 0]
          /\ guesses' = [guesses EXCEPT ![e] = <<>>]
          /\ signing' = [signing EXCEPT ![r] = [kind |-> "login", email |-> e]]
  BY DEF Flows!LogIn
<1>2. e \in Emails /\ authUsers[e] \in Flows!Accounts
  BY DEF Flows!Registered, FlowTypeInv, Flows!TypeOK
<1>3. [authUsers[e] EXCEPT !.failed = 0, !.lockedUntil = 0] \in Flows!Accounts
  BY <1>2, FlowLock
<1>4. authUsers' = [authUsers EXCEPT
                       ![e] = [authUsers[e] EXCEPT !.failed = 0, !.lockedUntil = 0]]
  BY <1>1, <1>2 DEF FlowTypeInv, Flows!TypeOK
<1>5. \A f \in Emails : authUsers[f] \in Flows!Accounts => authUsers'[f] \in Flows!Accounts
  BY <1>2, <1>3, <1>4 DEF FlowTypeInv, Flows!TypeOK
<1>6. FlowLogins'
  <2>1. signing'[r] = [kind |-> "login", email |-> e] /\ authUsers'[e] \in Flows!Accounts
    BY <1>1, <1>2, <1>5 DEF FlowTypeInv, Flows!TypeOK
  <2>2. \A d \in Requests \ {r} : signing'[d] = signing[d]
    BY <1>1 DEF FlowTypeInv, Flows!TypeOK
  <2> QED
    BY <1>2, <1>5, <2>1, <2>2 DEF FlowLogins, FlowTypeInv
<1>7. /\ guesses' \in [Emails -> Seq(Nat)] /\ authUsers' \in [Emails -> {None} \cup Flows!Accounts]
      /\ signing' \in [Requests -> {None, [kind |-> "refresh"]}
                                   \cup [kind : {"login"}, email : Emails]]
  BY <1>1, <1>2, <1>3, <1>4 DEF FlowTypeInv, Flows!TypeOK
<1> QED
  BY <1>6, <1>7 DEF FlowTypeInv, Flows!TypeOK, Flows!LogIn

LEMMA FlowRotated ==
    ASSUME FlowTypeInv, NEW e \in Emails, authUsers[e] \in Flows!Accounts,
           NEW t \in Flows!Tokens \cup {None}, authUsers' = Flows!Rotated(e, t)
    PROVE  /\ authUsers' \in [Emails -> {None} \cup Flows!Accounts]
           /\ authUsers'[e] = [authUsers[e] EXCEPT !.refresh = t]
           /\ authUsers'[e] \in Flows!Accounts /\ authUsers'[e].refresh = t
           /\ \A f \in Emails \ {e} : authUsers'[f] = authUsers[f]
<1>1. [authUsers[e] EXCEPT !.refresh = t] \in Flows!Accounts
  BY DEF Flows!Accounts
<1>2. authUsers' = [authUsers EXCEPT ![e] = [authUsers[e] EXCEPT !.refresh = t]]
  BY DEF Flows!Rotated, FlowTypeInv, Flows!TypeOK
<1>3. [authUsers[e] EXCEPT !.refresh = t].refresh = t
  BY DEF Flows!Accounts
<1> QED
  BY <1>1, <1>2, <1>3 DEF FlowTypeInv, Flows!TypeOK

LEMMA FlowLoginSigned ==
    ASSUME Flows!AuthFlowsAssumption, FlowTypeInv, NEW r \in Requests, Flows!LoginSigned(r)
    PROVE  /\ FlowTypeInv'
           /\ \E e \in Emails :
                 /\ authUsers[e] \in Flows!Accounts
                 /\ authUsers' = Flows!Rotated(e, Flows!Token)
                 /\ revoked' = IF authUsers[e].refresh = None THEN revoked
                               ELSE revoked \cup {authUsers[e].refresh}
<1> DEFINE e == signing[r].email
<1>1. /\ e \in Emails /\ authUsers[e] \in Flows!Accounts
      /\ Flows!Generate
      /\ revoked' = IF authUsers[e].refresh = None THEN revoked
                    ELSE revoked \cup {authUsers[e].refresh}
      /\ authUsers' = Flows!Rotated(e, Flows!Token)
      /\ signing' = [signing EXCEPT ![r] = None]
      /\ UNCHANGED <<now, guesses, uses>>
  BY DEF Flows!LoginSigned, FlowTypeInv, FlowLogins
<1>2. Flows!Token \in Flows!Tokens /\ generated' \in 0..FlowTokens
  BY <1>1, FlowGenerated
<1> HIDE DEF e
<1>3. /\ authUsers' \in [Emails -> {None} \cup Flows!Accounts] /\ authUsers'[e] \in Flows!Accounts
      /\ \A f \in Emails \ {e} : authUsers'[f] = authUsers[f]
  BY <1>1, <1>2, FlowRotated
<1>4. /\ signing' \in [Requests -> {None, [kind |-> "refresh"]}
                                   \cup [kind : {"login"}, email : Emails]]
      /\ \A d \in Requests : signing'[d] # None => signing'[d] = signing[d]
  BY <1>1 DEF FlowTypeInv, Flows!TypeOK
<1>5. FlowLogins'
  BY <1>3, <1>4 DEF FlowTypeInv, FlowLogins
<1>6. revoked' \subseteq Flows!Tokens
  BY <1>1 DEF Flows!Accounts, FlowTypeInv, Flows!TypeOK
<1> QED
  BY <1>1, <1>2, <1>3, <1>4, <1>5, <1>6 DEF FlowTypeInv, Flows!TypeOK

LEMMA FlowForgotPassword ==
    ASSUME Flows!AuthFlowsAssumption, FlowTypeInv, Flows!ForgotPassword PROVE FlowTypeInv'
<1>1. PICK e \in Flows!Registered :
          authUsers' = [authUsers EXCEPT ![e].reset = [token |-> Flows!Token,
                                                       until |-> now + TokenTtl]]
  BY DEF Flows!ForgotPassword
<1>2. Flows!Generate /\ UNCHANGED <<now, revoked, signing, guesses, uses>>
  BY DEF Flows!ForgotPassword
<1> DEFINE link == [token |-> Flows!Token, until |-> now + TokenTtl]
<1>3. link \in Flows!MailedLinks
  BY <1>2, FlowGenerated DEF Flows!MailedLinks, FlowTypeInv, Flows!TypeOK, Flows!AuthFlowsAssumption
<1>4. e \in Emails /\ authUsers[e] \in Flows!Accounts
  BY DEF Flows!Registered, FlowTypeInv, Flows!TypeOK
<1>5. authUsers' = [authUsers EXCEPT ![e] = [authUsers[e] EXCEPT !.reset = link]]
  BY <1>1, <1>4 DEF FlowTypeInv, Flows!TypeOK
<1> HIDE DEF link
<1>6. [authUsers[e] EXCEPT !.reset = link] \in Flows!Accounts
  BY <1>3, <1>4 DEF Flows!Accounts
<1> QED
  BY <1>2, <1>4, <1>5, <1>6, FlowUpdate, FlowGenerated DEF FlowTypeInv, Flows!TypeOK

LEMMA FlowResetPassword == ASSUME FlowTypeInv, Flows!ResetPassword PROVE FlowTypeInv'
<1>1. PICK e \in Flows!Registered : authUsers' = [authUsers EXCEPT ![e].reset = None]
  BY DEF Flows!ResetPassword
<1>2. e \in Emails /\ authUsers[e] \in Flows!Accounts
  BY DEF Flows!Registered, FlowTypeInv, Flows!TypeOK
<1>3. [authUsers[e] EXCEPT !.reset = None] \in Flows!Accounts
  BY <1>2 DEF Flows!Accounts, Flows!MailedLinks
<1>4. authUsers' = [authUsers EXCEPT ![e] = [authUsers[e] EXCEPT !.reset = None]]
  BY <1>1, <1>2 DEF FlowTypeInv, Flows!TypeOK
<1> QED
  BY <1>2, <1>3, <1>4, FlowUpdate DEF FlowTypeInv, Flows!TypeOK, Flows!ResetPassword

LEMMA FlowRefresh ==
    ASSUME Flows!AuthFlowsAssumption, FlowTypeInv, NEW r \in Requests, Flows!Refresh(r)
    PROVE  /\ FlowTypeInv'
           /\ \E e \in Emails, t \in Flows!Tokens :
                 /\ authUsers[e] \in Flows!Accounts /\ authUsers[e].refresh = t /\ t \notin revoked
                 /\ authUsers' = Flows!Rotated(e, Flows!Token)
                 /\ revoked' = revoked \cup {t} /\ uses' = [uses EXCEPT ![t] = @ + 1]
<1>1. PICK e \in Flows!Registered, t \in Flows!Tokens :
          /\ t \notin revoked /\ authUsers[e].refresh = t
          /\ authUsers' = Flows!Rotated(e, Flows!Token)
          /\ revoked' = revoked \cup {t} /\ uses' = [uses EXCEPT ![t] = @ + 1]
  BY DEF Flows!Refresh, Flows!Exchanged, Flows!Used
<1>2. /\ Flows!Generate /\ UNCHANGED <<now, guesses>>
      /\ signing' = [signing EXCEPT ![r] = [kind |-> "refresh"]]
  BY DEF Flows!Refresh
<1>3. e \in Emails /\ authUsers[e] \in Flows!Accounts
  BY DEF Flows!Registered, FlowTypeInv, Flows!TypeOK
<1>4. Flows!Token \in Flows!Tokens /\ generated' \in 0..FlowTokens
  BY <1>2, FlowGenerated
<1>5. /\ authUsers' \in [Emails -> {None} \cup Flows!Accounts] /\ authUsers'[e] \in Flows!Accounts
      /\ \A f \in Emails \ {e} : authUsers'[f] = authUsers[f]
  BY <1>1, <1>3, <1>4, FlowRotated
<1>6. /\ signing' \in [Requests -> {None, [kind |-> "refresh"]}
                                   \cup [kind : {"login"}, email : Emails]]
      /\ signing'[r].kind = "refresh"
      /\ \A d \in Requests \ {r} : signing'[d] = signing[d]
  BY <1>2 DEF FlowTypeInv, Flows!TypeOK
<1>7. FlowLogins'
  BY <1>3, <1>5, <1>6 DEF FlowTypeInv, FlowLogins
<1>8. uses' \in [Flows!Tokens -> Nat] /\ revoked' \subseteq Flows!Tokens
  BY <1>1 DEF FlowTypeInv, Flows!TypeOK
<1> QED
  BY <1>1, <1>2, <1>3, <1>4, <1>5, <1>6, <1>7, <1>8 DEF FlowTypeInv, Flows!TypeOK

LEMMA FlowLogout ==
    ASSUME Flows!AuthFlowsAssumption, FlowTypeInv, Flows!Logout
    PROVE  /\ FlowTypeInv'
           /\ \E e \in Emails, t \in Flows!Tokens :
                 /\ authUsers[e] \in Flows!Accounts /\ authUsers[e].refresh = t
                 /\ authUsers' = Flows!Rotated(e, None)
                 /\ revoked' = revoked \cup {t} /\ uses' = [uses EXCEPT ![t] = @ + 1]
<1>1. PICK e \in Flows!Registered :
          /\ authUsers[e].refresh # None
          /\ revoked' = revoked \cup {authUsers[e].refresh}
          /\ uses' = [uses EXCEPT ![authUsers[e].refresh] = @ + 1]
          /\ authUsers' = Flows!Rotated(e, None)
  BY DEF Flows!Logout, Flows!Used
<1>2. e \in Emails /\ authUsers[e] \in Flows!Accounts
  BY DEF Flows!Registered, FlowTypeInv, Flows!TypeOK
<1>3. authUsers[e].refresh \in Flows!Tokens
  BY <1>1, <1>2 DEF Flows!Accounts
<1>4. /\ authUsers' \in [Emails -> {None} \cup Flows!Accounts] /\ authUsers'[e] \in Flows!Accounts
      /\ \A f \in Emails \ {e} : authUsers'[f] = authUsers[f]
  BY <1>1, <1>2, FlowRotated
<1>5. UNCHANGED <<now, generated, signing, guesses>>
  BY DEF Flows!Logout
<1>6. FlowLogins'
  BY <1>4, <1>5 DEF FlowTypeInv, FlowLogins
<1>7. uses' \in [Flows!Tokens -> Nat] /\ revoked' \subseteq Flows!Tokens
  BY <1>1, <1>3 DEF FlowTypeInv, Flows!TypeOK
<1> QED
  BY <1>1, <1>2, <1>3, <1>4, <1>5, <1>6, <1>7 DEF FlowTypeInv, Flows!TypeOK

LEMMA FlowQuiet ==
    ASSUME Flows!AuthFlowsAssumption, FlowTypeInv,
           Flows!Tick \/ (\E r \in Requests : Flows!RefreshSigned(r))
           \/ UNCHANGED <<now, FlowsVars>>
    PROVE  FlowTypeInv' /\ UNCHANGED <<authUsers, revoked, generated, guesses, uses>>
           /\ now' \in Nat /\ now' >= now
<1> USE DEF FlowTypeInv, Flows!TypeOK, FlowLogins
<1>1. CASE Flows!Tick
  BY <1>1 DEF Flows!Tick, Flows!flowOwn
<1>2. ASSUME NEW r \in Requests, Flows!RefreshSigned(r)
      PROVE  FlowTypeInv' /\ UNCHANGED <<authUsers, revoked, generated, guesses, uses>>
             /\ now' \in Nat /\ now' >= now
  BY <1>2 DEF Flows!RefreshSigned
<1>3. CASE UNCHANGED <<now, FlowsVars>>
  BY <1>3 DEF FlowsVars
<1> QED
  BY <1>1, <1>2, <1>3

LEMMA FlowInit == ASSUME Flows!AuthFlowsAssumption, Flows!Init PROVE FlowTypeInv
<1>1. FlowLogins
  BY DEF Flows!Init, FlowLogins
<1>2. generated \in 0..FlowTokens
  BY DEF Flows!Init, Flows!AuthFlowsAssumption
<1> QED
  BY <1>1, <1>2 DEF Flows!Init, FlowTypeInv, Flows!TypeOK

(***************************************************************************)
(* A refresh token is held by one account, which gives it up in the step   *)
(* that revokes it; a token that was exchanged or logged out is revoked.   *)
(***************************************************************************)
FlowHolds(e) == authUsers[e] # None /\ authUsers[e].refresh # None

FlowHeld ==
    /\ revoked \subseteq 1..generated
    /\ \A t \in Flows!Tokens : uses[t] <= 1 /\ (uses[t] = 1 => t \in revoked)
    /\ \A e \in Emails : FlowHolds(e) => authUsers[e].refresh \in (1..generated) \ revoked
    /\ \A d, e \in Emails :
           d # e /\ FlowHolds(d) /\ FlowHolds(e) => authUsers[d].refresh # authUsers[e].refresh

\* An account's token is replaced by a new one or by none, and is spent if it is counted.
FlowRotates(e, t) ==
    /\ authUsers[e] \in Flows!Accounts
    /\ (t = None /\ UNCHANGED generated) \/ (t = Flows!Token /\ Flows!Generate)
    /\ authUsers' = Flows!Rotated(e, t)
    /\ revoked' = revoked \cup ({authUsers[e].refresh} \ {None})
    /\ \/ UNCHANGED uses
       \/ authUsers[e].refresh # None /\ uses' = [uses EXCEPT ![authUsers[e].refresh] = @ + 1]

LEMMA FlowRotation ==
    ASSUME Flows!AuthFlowsAssumption, FlowTypeInv, FlowHeld,
           NEW e \in Emails, NEW t, FlowRotates(e, t)
    PROVE  FlowHeld'
<1> USE DEF FlowRotates
<1> DEFINE old == authUsers[e].refresh
<1>1. t \in Flows!Tokens \cup {None}
  BY FlowGenerated
<1>2. /\ authUsers'[e] \in Flows!Accounts /\ authUsers'[e].refresh = t
      /\ \A f \in Emails \ {e} : authUsers'[f] = authUsers[f]
  BY <1>1, FlowRotated
<1>3. old # None => old \in (1..generated) \ revoked /\ old \in Flows!Tokens /\ FlowHolds(e)
  BY DEF FlowHeld, FlowHolds, Flows!Accounts, Flows!AuthFlowsAssumption
<1>4. /\ 1..generated \subseteq 1..generated'
      /\ t # None => t \in 1..generated' /\ t \notin 1..generated
  <2>1. generated \in Nat
    BY DEF FlowTypeInv, Flows!TypeOK
  <2>2. CASE UNCHANGED generated /\ t = None
    BY <2>1, <2>2
  <2>3. CASE t = Flows!Token /\ Flows!Generate
    BY <2>1, <2>3 DEF Flows!Token, Flows!Generate
  <2> QED
    BY <2>2, <2>3
<1>5. \A f \in Emails \ {e} : (FlowHolds(f))' <=> FlowHolds(f)
  BY <1>2 DEF FlowHolds
<1>6. revoked' \subseteq 1..generated'
  BY <1>3, <1>4 DEF FlowHeld
<1>7. ASSUME NEW x \in Flows!Tokens PROVE uses'[x] <= 1 /\ (uses'[x] = 1 => x \in revoked')
  <2>1. uses[x] \in Nat /\ uses[x] <= 1 /\ (uses[x] = 1 => x \in revoked)
    BY DEF FlowHeld, FlowTypeInv, Flows!TypeOK
  <2>2. CASE UNCHANGED uses
    BY <2>1, <2>2
  <2>3. CASE old # None /\ uses' = [uses EXCEPT ![old] = @ + 1]
    <3>1. CASE x = old
      <4>1. uses'[x] = uses[x] + 1 /\ x \in revoked' /\ x \notin revoked
        BY <1>3, <2>3, <3>1 DEF FlowTypeInv, Flows!TypeOK
      <4> QED
        BY <2>1, <4>1
    <3>2. CASE x # old
      <4>1. uses'[x] = uses[x] /\ revoked \subseteq revoked'
        BY <2>3, <3>2 DEF FlowTypeInv, Flows!TypeOK
      <4> QED
        BY <2>1, <4>1
    <3> QED
      BY <3>1, <3>2
  <2> QED
    BY <2>2, <2>3
<1>8. ASSUME NEW f \in Emails, FlowHolds(f)'
      PROVE  authUsers'[f].refresh \in (1..generated') \ revoked'
  <2>1. CASE f = e
    <3>1. authUsers'[f].refresh = t /\ t # None
      BY <1>2, <1>8, <2>1 DEF FlowHolds
    <3> QED
      BY <1>3, <1>4, <3>1 DEF FlowHeld
  <2>2. CASE f # e
    <3>1. FlowHolds(f) /\ authUsers'[f].refresh = authUsers[f].refresh
      BY <1>2, <1>5, <1>8, <2>2
    <3>2. authUsers[f].refresh \in (1..generated) \ revoked
      BY <3>1 DEF FlowHeld
    <3>3. authUsers[f].refresh # old
      BY <1>3, <2>2, <3>1 DEF FlowHeld, FlowHolds
    <3> QED
      BY <1>4, <3>1, <3>2, <3>3
  <2> QED
    BY <2>1, <2>2
<1>9. ASSUME NEW f \in Emails, f # e, FlowHolds(f)', FlowHolds(e)'
      PROVE  authUsers'[f].refresh # authUsers'[e].refresh
  <2>1. authUsers'[e].refresh \notin 1..generated
    BY <1>2, <1>4, <1>9 DEF FlowHolds
  <2>2. FlowHolds(f) /\ authUsers'[f].refresh = authUsers[f].refresh
    BY <1>2, <1>5, <1>9
  <2> QED
    BY <2>1, <2>2 DEF FlowHeld
<1>10. ASSUME NEW d \in Emails, NEW f \in Emails, d # f, FlowHolds(d)', FlowHolds(f)'
       PROVE  authUsers'[d].refresh # authUsers'[f].refresh
  <2>1. CASE d = e \/ f = e
    BY <1>9, <1>10, <2>1
  <2>2. CASE d # e /\ f # e
    BY <1>2, <1>5, <1>10, <2>2 DEF FlowHeld
  <2> QED
    BY <2>1, <2>2
<1> QED
  BY <1>6, <1>7, <1>8, <1>10 DEF FlowHeld

\* A step that takes no account another refresh token.
LEMMA FlowKeepsTokens ==
    ASSUME FlowTypeInv, FlowHeld, UNCHANGED <<revoked, uses>>,
           UNCHANGED generated \/ Flows!Generate,
           NEW e \in Emails, \A f \in Emails \ {e} : authUsers'[f] = authUsers[f],
           FlowHolds(e)' => FlowHolds(e) /\ authUsers'[e].refresh = authUsers[e].refresh
    PROVE  FlowHeld'
<1>1. \A f \in Emails : FlowHolds(f)' =>
          FlowHolds(f) /\ authUsers'[f].refresh = authUsers[f].refresh
  BY DEF FlowHolds
<1>2. 1..generated \subseteq 1..generated'
  BY DEF FlowTypeInv, Flows!TypeOK, Flows!Generate
<1> QED
  BY <1>1, <1>2 DEF FlowHeld

LEMMA FlowNextHeld ==
    ASSUME Flows!AuthFlowsAssumption, FlowTypeInv, FlowHeld, Flows!Next
    PROVE  FlowHeld'
<1> USE DEF FlowTypeInv, Flows!TypeOK
<1>0. \A e \in Flows!Registered : e \in Emails /\ authUsers[e] \in Flows!Accounts
  BY DEF Flows!Registered
<1>1. CASE Flows!Tick \/ \E r \in Requests : Flows!RefreshSigned(r)
  BY <1>1, FlowQuiet DEF FlowHeld, FlowHolds
<1>2. CASE Flows!Register
  <2>1. PICK e \in Emails \ Flows!Registered :
            authUsers' = [authUsers EXCEPT ![e] =
                 [verified |-> FALSE,
                  verification |-> [token |-> Flows!Token, until |-> now + TokenTtl],
                  reset |-> None, refresh |-> None, failed |-> 0, lockedUntil |-> 0]]
    BY <1>2 DEF Flows!Register
  <2>2. authUsers'[e].refresh = None /\ \A f \in Emails \ {e} : authUsers'[f] = authUsers[f]
    BY <2>1
  <2>3. ~FlowHolds(e)'
    BY <2>2 DEF FlowHolds
  <2>4. Flows!Generate /\ UNCHANGED <<revoked, uses>>
    BY <1>2 DEF Flows!Register
  <2> QED
    BY <2>2, <2>3, <2>4, FlowKeepsTokens
<1>3. CASE Flows!VerifyEmail
  <2>1. PICK e \in Flows!Registered :
            authUsers' = [authUsers EXCEPT ![e].verified = TRUE, ![e].verification = None]
    BY <1>3 DEF Flows!VerifyEmail
  <2>2. /\ authUsers'[e].refresh = authUsers[e].refresh
        /\ \A f \in Emails \ {e} : authUsers'[f] = authUsers[f]
    BY <1>0, <2>1 DEF Flows!Accounts
  <2>3. UNCHANGED <<revoked, uses, generated>>
    BY <1>3 DEF Flows!VerifyEmail
  <2> QED
    BY <1>0, <2>2, <2>3, FlowKeepsTokens DEF FlowHolds, Flows!Registered
<1>4. CASE Flows!WrongPassword
  <2>1. PICK e \in Flows!Registered :
            authUsers' = [authUsers EXCEPT ![e] = Flows!Failed(authUsers[e])]
    BY <1>4 DEF Flows!WrongPassword
  <2>2. Flows!Failed(authUsers[e]).refresh = authUsers[e].refresh
    BY <1>0 DEF Flows!Failed, Flows!Accounts
  <2>3. /\ authUsers'[e].refresh = authUsers[e].refresh
        /\ \A f \in Emails \ {e} : authUsers'[f] = authUsers[f]
    BY <1>0, <2>1, <2>2
  <2>4. UNCHANGED <<revoked, uses, generated>>
    BY <1>4 DEF Flows!WrongPassword
  <2> QED
    BY <1>0, <2>3, <2>4, FlowKeepsTokens DEF FlowHolds, Flows!Registered
<1>5. ASSUME NEW r \in Requests, Flows!LogIn(r) PROVE FlowHeld'
  <2>1. PICK e \in Flows!Registered :
            authUsers' = [authUsers EXCEPT ![e].failed = 0, ![e].lockedUntil = 0]
    BY <1>5 DEF Flows!LogIn
  <2>2. /\ authUsers'[e].refresh = authUsers[e].refresh
        /\ \A f \in Emails \ {e} : authUsers'[f] = authUsers[f]
    BY <1>0, <2>1 DEF Flows!Accounts
  <2>3. UNCHANGED <<revoked, uses, generated>>
    BY <1>5 DEF Flows!LogIn
  <2> QED
    BY <1>0, <2>2, <2>3, FlowKeepsTokens DEF FlowHolds, Flows!Registered
<1>6. CASE Flows!ForgotPassword \/ Flows!ResetPassword
  <2>1. PICK e \in Flows!Registered : \E x : authUsers' = [authUsers EXCEPT ![e].reset = x]
    BY <1>6 DEF Flows!ForgotPassword, Flows!ResetPassword
  <2>2. /\ authUsers'[e].refresh = authUsers[e].refresh
        /\ \A f \in Emails \ {e} : authUsers'[f] = authUsers[f]
    BY <1>0, <2>1 DEF Flows!Accounts
  <2>3. UNCHANGED <<revoked, uses>> /\ (UNCHANGED generated \/ Flows!Generate)
    BY <1>6 DEF Flows!ForgotPassword, Flows!ResetPassword
  <2> QED
    BY <1>0, <2>2, <2>3, FlowKeepsTokens DEF FlowHolds, Flows!Registered
<1>7. ASSUME NEW r \in Requests, Flows!LoginSigned(r) PROVE FlowHeld'
  <2>1. PICK e \in Emails :
            /\ authUsers[e] \in Flows!Accounts
            /\ authUsers' = Flows!Rotated(e, Flows!Token)
            /\ revoked' = IF authUsers[e].refresh = None THEN revoked
                          ELSE revoked \cup {authUsers[e].refresh}
    BY <1>7, FlowLoginSigned
  <2>2. FlowRotates(e, Flows!Token)
    BY <1>7, <2>1 DEF Flows!LoginSigned, FlowRotates
  <2> QED
    BY <2>2, FlowRotation
<1>8. ASSUME NEW r \in Requests, Flows!Refresh(r) PROVE FlowHeld'
  <2>1. PICK e \in Emails, t \in Flows!Tokens :
            /\ authUsers[e] \in Flows!Accounts /\ authUsers[e].refresh = t /\ t \notin revoked
            /\ authUsers' = Flows!Rotated(e, Flows!Token)
            /\ revoked' = revoked \cup {t} /\ uses' = [uses EXCEPT ![t] = @ + 1]
    BY <1>8, FlowRefresh
  <2>2. t # None
    BY DEF Flows!Tokens, Flows!AuthFlowsAssumption
  <2>3. FlowRotates(e, Flows!Token)
    BY <1>8, <2>1, <2>2 DEF Flows!Refresh, FlowRotates
  <2> QED
    BY <2>3, FlowRotation
<1>9. CASE Flows!Logout
  <2>1. PICK e \in Emails, t \in Flows!Tokens :
            /\ authUsers[e] \in Flows!Accounts /\ authUsers[e].refresh = t
            /\ authUsers' = Flows!Rotated(e, None)
            /\ revoked' = revoked \cup {t} /\ uses' = [uses EXCEPT ![t] = @ + 1]
    BY <1>9, FlowLogout
  <2>2. t # None
    BY DEF Flows!Tokens, Flows!AuthFlowsAssumption
  <2>3. FlowRotates(e, None)
    BY <1>9, <2>1, <2>2 DEF Flows!Logout, FlowRotates
  <2> QED
    BY <2>3, FlowRotation
<1> QED
  BY <1>1, <1>2, <1>3, <1>4, <1>5, <1>6, <1>7, <1>8, <1>9 DEF Flows!Next

LEMMA FlowNextType == ASSUME Flows!AuthFlowsAssumption, FlowTypeInv, Flows!Next PROVE FlowTypeInv'
BY FlowQuiet, FlowRegister, FlowVerifyEmail, FlowWrongPassword, FlowForgotPassword,
   FlowResetPassword, FlowLogout, FlowLogIn, FlowLoginSigned, FlowRefresh DEF Flows!Next

\* A refresh token is exchanged or logged out once in all, and the one an
\* account holds is never a revoked one.
THEOREM AlwaysExchangedOnce == ASSUME AccountAssumption PROVE AccountSpec => []ExchangedOnce
<1> DEFINE Inv == part = "Flows" => FlowTypeInv /\ FlowHeld
<1>0. Flows!AuthFlowsAssumption
  BY DEF AccountAssumption
<1>1. AccountInit => Inv
  <2> SUFFICES ASSUME Flows!Init PROVE FlowTypeInv /\ FlowHeld
    BY DEF AccountInit
  <2>1. revoked = {} /\ uses = [t \in Flows!Tokens |-> 0] /\ authUsers = [e \in Emails |-> None]
    BY DEF Flows!Init
  <2>2. \A e \in Emails : ~FlowHolds(e)
    BY <2>1 DEF FlowHolds
  <2> QED
    BY <1>0, <2>1, <2>2, FlowInit DEF FlowHeld
<1>2. Inv /\ [AccountNext]_accountVars => Inv'
  <2> SUFFICES ASSUME part = "Flows", FlowTypeInv, FlowHeld, [AccountNext]_accountVars
               PROVE  FlowTypeInv' /\ FlowHeld'
    BY DEF AccountNext, accountVars
  <2>1. CASE AccountNext
    BY <1>0, <2>1, FlowNextType, FlowNextHeld DEF AccountNext
  <2>2. CASE UNCHANGED accountVars
    BY <1>0, <2>2, FlowQuiet DEF accountVars, FlowHeld, FlowHolds
  <2> QED
    BY <2>1, <2>2
<1>3. Inv => ExchangedOnce
  BY <1>0 DEF ExchangedOnce, Flows!ExchangedOnce, Flows!Registered, FlowTypeInv, Flows!TypeOK,
     FlowHeld,
         FlowHolds, Flows!AuthFlowsAssumption
<1> QED
  BY <1>1, <1>2, <1>3, PTL DEF AccountSpec

(***************************************************************************)
(* The lockout.  The passwords counted since the last lock, if there was   *)
(* one, were tried after it had run out, and all the earlier ones a whole  *)
(* window before that: a window sees either, never both.                   *)
(***************************************************************************)
FlowWindow(g, t) == {i \in DOMAIN g : g[i] \in t..(t + LockWindow - 1)}

FlowCounted(g, u) ==
    /\ u.failed <= Len(g)
    /\ \A i \in 1..Len(g) : g[i] <= now
    /\ \A i \in 1..(Len(g) - u.failed) : g[i] + LockWindow <= u.lockedUntil
    /\ \A i \in (Len(g) - u.failed + 1)..Len(g) : u.lockedUntil <= g[i]

FlowGuesses ==
    /\ \A e \in Emails : IF authUsers[e] = None THEN guesses[e] = <<>>
                         ELSE FlowCounted(guesses[e], authUsers[e])
    /\ \A e \in Emails, t \in Nat : Cardinality(FlowWindow(guesses[e], t)) <= MaxAttempts

LEMMA FlowCardinality == \A S : Flows!Cardinality(S) = Cardinality(S)
  BY ZenonT(60) DEF Flows!Cardinality, Cardinality

\* The password that is tried last meets only those counted with it in a window.
LEMMA FlowTry ==
    ASSUME Flows!AuthFlowsAssumption, now \in Nat, NEW g \in Seq(Nat), NEW u \in Flows!Accounts,
           u.lockedUntil <= now, FlowCounted(g, u),
           \A t \in Nat : Cardinality(FlowWindow(g, t)) <= MaxAttempts
    PROVE  \A t \in Nat : Cardinality(FlowWindow(Append(g, now), t)) <= MaxAttempts
<1> TAKE t \in Nat
<1> DEFINE n == Len(g)
           h == Append(g, now)
           f == u.failed
           L == u.lockedUntil
<1>1. n \in Nat /\ f \in Nat /\ L \in Nat /\ f <= MaxAttempts - 1 /\ MaxAttempts \in Nat
      /\ LockWindow \in Nat /\ f <= n /\ L <= now
  BY DEF Flows!Accounts, Flows!AuthFlowsAssumption, FlowCounted
<1>2. /\ DOMAIN g = 1..n /\ DOMAIN h = 1..(n + 1) /\ h[n + 1] = now
      /\ \A i \in 1..n : h[i] = g[i] /\ g[i] \in Nat
  BY AppendProperties, <1>1
<1>3. /\ \A i \in 1..(n - f) : g[i] + LockWindow <= L
      /\ FlowWindow(g, t) = {i \in 1..n : g[i] \in t..(t + LockWindow - 1)}
      /\ FlowWindow(h, t) = {i \in 1..(n + 1) : h[i] \in t..(t + LockWindow - 1)}
  BY <1>2 DEF FlowCounted, FlowWindow
<1>4. Cardinality(FlowWindow(g, t)) <= MaxAttempts
  OBVIOUS
<1> HIDE DEF n, h, f, L
<1>5. ASSUME now \in t..(t + LockWindow - 1) PROVE Cardinality(FlowWindow(h, t)) <= MaxAttempts
  <2>1. ASSUME NEW i \in FlowWindow(h, t) PROVE i \in (n - f + 1)..(n + 1)
    <3>1. CASE i \in 1..(n - f)
      <4>1. i \in 1..n /\ g[i] \in Nat /\ h[i] = g[i]
        BY <1>1, <1>2, <3>1
      <4>2. g[i] + LockWindow <= L /\ t <= g[i] /\ now <= t + LockWindow - 1
        BY <1>1, <1>3, <1>5, <2>1, <3>1, <4>1
      <4> QED
        BY <1>1, <4>1, <4>2
    <3>2. CASE i \notin 1..(n - f)
      <4>1. i \in 1..(n + 1)
        BY <1>3, <2>1
      <4> QED
        BY <1>1, <3>2, <4>1
    <3> QED
      BY <3>1, <3>2
  <2>2. FlowWindow(h, t) \subseteq (n - f + 1)..(n + 1)
    BY <2>1
  <2>3. /\ IsFiniteSet((n - f + 1)..(n + 1))
        /\ Cardinality((n - f + 1)..(n + 1)) = f + 1
    <3>1. (n - f + 1) \in Int /\ (n + 1) \in Int /\ n - f + 1 <= n + 1
      BY <1>1
    <3> QED
      BY <1>1, <3>1, FS_Interval
  <2>4. Cardinality(FlowWindow(h, t)) <= f + 1 /\ Cardinality(FlowWindow(h, t)) \in Nat
    BY <2>2, <2>3, FS_Subset, FS_CardinalityType
  <2> QED
    BY <1>1, <2>4
<1>6. ASSUME now \notin t..(t + LockWindow - 1) PROVE Cardinality(FlowWindow(h, t)) <= MaxAttempts
  <2>1. FlowWindow(h, t) = FlowWindow(g, t)
    BY <1>1, <1>2, <1>3, <1>6
  <2> QED
    BY <1>4, <2>1
<1> QED
  BY <1>5, <1>6 DEF h

\* A step that leaves every account's counter and lock.
LEMMA FlowKeepsGuesses ==
    ASSUME FlowTypeInv, FlowGuesses, UNCHANGED guesses, now' \in Nat, now' >= now,
           NEW e \in Emails, \A f \in Emails \ {e} : authUsers'[f] = authUsers[f],
           \/ authUsers'[e] = authUsers[e]
           \/ /\ authUsers[e] # None /\ authUsers'[e] # None
              /\ authUsers'[e].failed = authUsers[e].failed
              /\ authUsers'[e].lockedUntil = authUsers[e].lockedUntil
    PROVE  FlowGuesses'
<1>1. ASSUME NEW f \in Emails, authUsers[f] # None PROVE FlowCounted(guesses[f], authUsers[f])'
  <2>1. FlowCounted(guesses[f], authUsers[f])
    BY <1>1 DEF FlowGuesses
  <2>2. /\ authUsers'[f].failed = authUsers[f].failed
        /\ authUsers'[f].lockedUntil = authUsers[f].lockedUntil
    BY <1>1
  <2>3. \A i \in 1..Len(guesses[f]) : guesses[f][i] <= now'
    <3>1. \A i \in 1..Len(guesses[f]) : guesses[f][i] <= now /\ guesses[f][i] \in Nat
      BY <2>1 DEF FlowCounted, FlowTypeInv, Flows!TypeOK
    <3> QED
      BY <3>1 DEF FlowTypeInv, Flows!TypeOK
  <2> QED
    BY <2>1, <2>2, <2>3 DEF FlowCounted
<1>2. ASSUME NEW f \in Emails
      PROVE  (authUsers'[f] = None <=> authUsers[f] = None)
  OBVIOUS
<1> QED
  BY <1>1, <1>2 DEF FlowGuesses, FlowCounted, FlowWindow

LEMMA FlowNextGuesses ==
    ASSUME Flows!AuthFlowsAssumption, FlowTypeInv, FlowGuesses, Flows!Next
    PROVE  FlowGuesses'
<1>0. /\ \A e \in Flows!Registered :
             e \in Emails /\ authUsers[e] \in Flows!Accounts /\ authUsers[e] # None
      /\ now \in Nat /\ DOMAIN authUsers = Emails /\ DOMAIN guesses = Emails
      /\ \A e \in Emails : guesses[e] \in Seq(Nat)
  BY DEF Flows!Registered, FlowTypeInv, Flows!TypeOK
<1>1. CASE Flows!Tick \/ \E r \in Requests : Flows!RefreshSigned(r)
  <2>1. UNCHANGED <<authUsers, guesses>> /\ now' \in Nat /\ now' >= now
    BY <1>1, FlowQuiet
  <2>2. CASE Emails = {}
    BY <2>2 DEF FlowGuesses
  <2>3. ASSUME NEW e \in Emails PROVE FlowGuesses'
    BY <2>1, FlowKeepsGuesses
  <2> QED
    BY <2>2, <2>3
<1>2. CASE Flows!Register
  <2>1. PICK e \in Emails \ Flows!Registered :
            authUsers' = [authUsers EXCEPT ![e] =
                 [verified |-> FALSE,
                  verification |-> [token |-> Flows!Token, until |-> now + TokenTtl],
                  reset |-> None, refresh |-> None, failed |-> 0, lockedUntil |-> 0]]
    BY <1>2 DEF Flows!Register
  <2>2. /\ authUsers'[e].failed = 0 /\ authUsers'[e].lockedUntil = 0
        /\ \A f \in Emails \ {e} : authUsers'[f] = authUsers[f]
    BY <1>0, <2>1
  <2>3. UNCHANGED <<now, guesses>> /\ guesses[e] = <<>>
    BY <1>2 DEF Flows!Register, Flows!Registered, FlowGuesses
  <2>4. FlowCounted(guesses[e], authUsers[e])'
    BY <2>2, <2>3 DEF FlowCounted
  <2>5. ASSUME NEW f \in Emails, f # e
        PROVE  (IF authUsers[f] = None THEN guesses[f] = <<>>
                ELSE FlowCounted(guesses[f], authUsers[f]))'
    BY <2>2, <2>3, <2>5 DEF FlowGuesses, FlowCounted
  <2>6. \A f \in Emails : (IF authUsers[f] = None THEN guesses[f] = <<>>
                           ELSE FlowCounted(guesses[f], authUsers[f]))'
    BY <2>3, <2>4, <2>5
  <2>7. \A f \in Emails, t \in Nat : Cardinality(FlowWindow(guesses'[f], t)) <= MaxAttempts
    BY <2>3 DEF FlowGuesses
  <2> QED
    BY <2>6, <2>7 DEF FlowGuesses, FlowWindow
<1>3. CASE Flows!VerifyEmail
  <2>1. PICK e \in Flows!Registered :
            authUsers' = [authUsers EXCEPT ![e].verified = TRUE, ![e].verification = None]
    BY <1>3 DEF Flows!VerifyEmail
  <2>2. [authUsers[e] EXCEPT !.verified = TRUE, !.verification = None] \in Flows!Accounts
    BY <1>0 DEF Flows!Accounts, Flows!MailedLinks
  <2>3. /\ authUsers'[e] = [authUsers[e] EXCEPT !.verified = TRUE, !.verification = None]
        /\ \A f \in Emails \ {e} : authUsers'[f] = authUsers[f]
    BY <1>0, <2>1
  <2>4. /\ authUsers'[e].failed = authUsers[e].failed
        /\ authUsers'[e].lockedUntil = authUsers[e].lockedUntil
        /\ authUsers'[e] # None
    BY <1>0, <2>2, <2>3 DEF Flows!Accounts, Flows!AuthFlowsAssumption
  <2>5. UNCHANGED guesses /\ now' \in Nat /\ now' >= now
    BY <1>0, <1>3 DEF Flows!VerifyEmail
  <2> QED
    BY <1>0, <2>3, <2>4, <2>5, FlowKeepsGuesses
<1>4. CASE Flows!WrongPassword
  <2>1. PICK e \in Flows!Registered :
            /\ ~Flows!Locked(authUsers[e])
            /\ authUsers' = [authUsers EXCEPT ![e] = Flows!Failed(authUsers[e])]
            /\ guesses' = [guesses EXCEPT ![e] = Append(guesses[e], now)]
    BY <1>4 DEF Flows!WrongPassword
  <2> DEFINE u == authUsers[e]
             g == guesses[e]
             n == Len(g)
  <2>2. /\ u \in Flows!Accounts /\ g \in Seq(Nat) /\ FlowCounted(g, u) /\ UNCHANGED now
        /\ u.failed \in Nat /\ u.lockedUntil \in Nat /\ u.lockedUntil <= now
        /\ LockWindow \in Nat /\ n \in Nat /\ now \in Nat
    BY <1>0, <1>4, <2>1 DEF Flows!WrongPassword, Flows!Locked, FlowGuesses, Flows!Accounts,
                            Flows!AuthFlowsAssumption
  <2>3. /\ authUsers'[e] = Flows!Failed(u) /\ guesses'[e] = Append(g, now)
        /\ \A f \in Emails \ {e} : authUsers'[f] = authUsers[f] /\ guesses'[f] = guesses[f]
    BY <1>0, <2>1
  <2>4. /\ Len(Append(g, now)) = n + 1 /\ Append(g, now)[n + 1] = now
        /\ \A i \in 1..n : Append(g, now)[i] = g[i] /\ g[i] \in Nat /\ g[i] <= now
        /\ u.failed <= n
        /\ \A i \in 1..(n - u.failed) : g[i] + LockWindow <= u.lockedUntil
        /\ \A i \in (n - u.failed + 1)..n : u.lockedUntil <= g[i]
    <3>1. /\ Len(Append(g, now)) = n + 1 /\ Append(g, now)[n + 1] = now
          /\ \A i \in 1..n : Append(g, now)[i] = g[i] /\ g[i] \in Nat
      <4> HIDE DEF g
      <4> QED
        BY <1>0, <2>2, AppendProperties
    <3> QED
      BY <2>2, <3>1 DEF FlowCounted
  <2>5. Flows!Failed(u) # None
    <3>2. CASE u.failed + 1 >= MaxAttempts
      <4>1. now + LockWindow \in Nat
        BY <1>0, <2>2
      <4>2. Flows!Failed(u) = [u EXCEPT !.failed = 0, !.lockedUntil = now + LockWindow]
        BY <3>2 DEF Flows!Failed
      <4> HIDE DEF u
      <4>3. Flows!Failed(u) \in Flows!Accounts
        BY <2>2, <4>1, <4>2, FlowLock
      <4> QED
        BY <4>3 DEF Flows!AuthFlowsAssumption
    <3>3. CASE ~(u.failed + 1 >= MaxAttempts)
      <4>1. Flows!Failed(u) = [u EXCEPT !.failed = @ + 1]
        BY <3>3 DEF Flows!Failed
      <4>2. u.failed + 1 \in 0..(MaxAttempts - 1)
        BY <2>2, <3>3 DEF Flows!AuthFlowsAssumption
      <4>3. Flows!Failed(u) \in Flows!Accounts
        BY <2>2, <4>1, <4>2 DEF Flows!Accounts
      <4> QED
        BY <4>3 DEF Flows!AuthFlowsAssumption
    <3> QED
      BY <3>2, <3>3
  <2>6. FlowCounted(Append(g, now), Flows!Failed(u))
    <3> DEFINE h == Append(g, now)
    <3>1. CASE u.failed + 1 >= MaxAttempts
      <4>1. Flows!Failed(u).failed = 0 /\ Flows!Failed(u).lockedUntil = now + LockWindow
        BY <2>2, <3>1 DEF Flows!Failed, Flows!Accounts
      <4> HIDE DEF n, g, u
      <4>2. \A i \in 1..(n + 1) : h[i] <= now /\ h[i] \in Nat
        BY <2>2, <2>4
      <4>3. /\ \A i \in 1..((n + 1) - 0) : h[i] + LockWindow <= now + LockWindow
            /\ \A i \in ((n + 1) - 0 + 1)..(n + 1) : now + LockWindow <= h[i]
            /\ 0 <= n + 1
        <5> HIDE DEF h
        <5> QED
          BY <2>2, <4>2
      <4> QED
        BY <2>4, <4>1, <4>2, <4>3 DEF FlowCounted, h
    <3>2. CASE ~(u.failed + 1 >= MaxAttempts)
      <4>1. Flows!Failed(u).failed = u.failed + 1 /\ Flows!Failed(u).lockedUntil = u.lockedUntil
        BY <2>2, <3>2 DEF Flows!Failed, Flows!Accounts
      <4> HIDE DEF n, g, u
      <4>2. \A i \in 1..(n + 1) : h[i] <= now
        BY <2>2, <2>4
      <4>3. \A i \in 1..(n - u.failed) : h[i] + LockWindow <= u.lockedUntil
        BY <2>2, <2>4
      <4>4. \A i \in (n - u.failed + 1)..(n + 1) : u.lockedUntil <= h[i]
        <5> TAKE i \in (n - u.failed + 1)..(n + 1)
        <5>1. CASE i = n + 1
          BY <2>2, <2>4, <5>1
        <5>2. CASE i # n + 1
          BY <2>2, <2>4, <5>2
        <5> QED
          BY <5>1, <5>2
      <4>5. (n + 1) - (u.failed + 1) = n - u.failed /\ u.failed + 1 <= n + 1
        BY <2>2, <2>4
      <4> QED
        BY <2>4, <4>1, <4>2, <4>3, <4>4, <4>5 DEF FlowCounted, h
    <3> QED
      BY <3>1, <3>2
  <2>7. \A t \in Nat : Cardinality(FlowWindow(Append(g, now), t)) <= MaxAttempts
    <3>1. \A t \in Nat : Cardinality(FlowWindow(g, t)) <= MaxAttempts
      BY <1>0 DEF FlowGuesses
    <3> HIDE DEF g, u
    <3> QED
      BY <2>2, <3>1, FlowTry
  <2> HIDE DEF g, u, n
  <2>8. \A f \in Emails : (IF authUsers[f] = None THEN guesses[f] = <<>>
                           ELSE FlowCounted(guesses[f], authUsers[f]))'
    <3> TAKE f \in Emails
    <3>1. CASE f = e
      BY <2>2, <2>3, <2>5, <2>6, <3>1 DEF FlowCounted
    <3>2. CASE f # e
      BY <2>2, <2>3, <3>2 DEF FlowGuesses, FlowCounted
    <3> QED
      BY <3>1, <3>2
  <2>9. \A f \in Emails, t \in Nat : Cardinality(FlowWindow(guesses'[f], t)) <= MaxAttempts
    BY <2>3, <2>7 DEF FlowGuesses
  <2> QED
    BY <2>8, <2>9 DEF FlowGuesses, FlowWindow
<1>5. ASSUME NEW r \in Requests, Flows!LogIn(r) PROVE FlowGuesses'
  <2>1. PICK e \in Flows!Registered :
            /\ authUsers' = [authUsers EXCEPT ![e].failed = 0, ![e].lockedUntil = 0]
            /\ guesses' = [guesses EXCEPT ![e] = <<>>]
    BY <1>5 DEF Flows!LogIn
  <2>2. /\ authUsers'[e] = [authUsers[e] EXCEPT !.failed = 0, !.lockedUntil = 0]
        /\ guesses'[e] = <<>>
        /\ \A f \in Emails \ {e} : authUsers'[f] = authUsers[f] /\ guesses'[f] = guesses[f]
    BY <1>0, <2>1
  <2>3. UNCHANGED now
    BY <1>5 DEF Flows!LogIn
  <2>4. authUsers'[e].failed = 0 /\ authUsers'[e].lockedUntil = 0
    BY <1>0, <2>2 DEF Flows!Accounts
  <2>5. FlowCounted(guesses[e], authUsers[e])'
    BY <2>2, <2>4 DEF FlowCounted
  <2>6. \A f \in Emails : (IF authUsers[f] = None THEN guesses[f] = <<>>
                           ELSE FlowCounted(guesses[f], authUsers[f]))'
    <3> TAKE f \in Emails
    <3>1. CASE f = e
      BY <2>2, <2>5, <3>1
    <3>2. CASE f # e
      BY <2>2, <2>3, <3>2 DEF FlowGuesses, FlowCounted
    <3> QED
      BY <3>1, <3>2
  <2>7. \A t \in Nat : Cardinality(FlowWindow(guesses'[e], t)) <= MaxAttempts
    <3> TAKE t \in Nat
    <3>1. FlowWindow(guesses'[e], t) = {}
      BY <2>2 DEF FlowWindow
    <3> QED
      BY <3>1, FS_EmptySet DEF Flows!AuthFlowsAssumption
  <2>8. \A f \in Emails, t \in Nat : Cardinality(FlowWindow(guesses'[f], t)) <= MaxAttempts
    BY <2>2, <2>7 DEF FlowGuesses
  <2> QED
    BY <2>6, <2>8 DEF FlowGuesses, FlowWindow
<1>6. CASE Flows!ForgotPassword \/ Flows!ResetPassword
  <2>1. PICK e \in Flows!Registered, x \in Flows!MailedLinks :
            authUsers' = [authUsers EXCEPT ![e].reset = x]
    <3>1. CASE Flows!ForgotPassword
      <4>1. Flows!Generate
        BY <3>1 DEF Flows!ForgotPassword
      <4>2. [token |-> Flows!Token, until |-> now + TokenTtl] \in Flows!MailedLinks
        BY <1>0, <4>1, FlowGenerated DEF Flows!MailedLinks, Flows!AuthFlowsAssumption
      <4> QED
        BY <3>1, <4>2 DEF Flows!ForgotPassword
    <3>2. CASE Flows!ResetPassword
      BY <3>2 DEF Flows!ResetPassword, Flows!MailedLinks
    <3> QED
      BY <1>6, <3>1, <3>2
  <2>2. [authUsers[e] EXCEPT !.reset = x] \in Flows!Accounts
    BY <1>0 DEF Flows!Accounts
  <2>3. /\ authUsers'[e] = [authUsers[e] EXCEPT !.reset = x]
        /\ \A f \in Emails \ {e} : authUsers'[f] = authUsers[f]
    BY <1>0, <2>1
  <2>4. /\ authUsers'[e].failed = authUsers[e].failed
        /\ authUsers'[e].lockedUntil = authUsers[e].lockedUntil
        /\ authUsers'[e] # None
    BY <1>0, <2>2, <2>3 DEF Flows!Accounts, Flows!AuthFlowsAssumption
  <2>5. UNCHANGED guesses /\ now' \in Nat /\ now' >= now
    BY <1>0, <1>6 DEF Flows!ForgotPassword, Flows!ResetPassword
  <2> QED
    BY <1>0, <2>3, <2>4, <2>5, FlowKeepsGuesses
<1>7. ASSUME NEW e \in Emails, authUsers[e] \in Flows!Accounts, NEW t \in Flows!Tokens \cup {None},
             authUsers' = Flows!Rotated(e, t), UNCHANGED <<now, guesses>>
      PROVE  FlowGuesses'
  <2>1. /\ authUsers'[e] = [authUsers[e] EXCEPT !.refresh = t] /\ authUsers'[e] \in Flows!Accounts
        /\ \A f \in Emails \ {e} : authUsers'[f] = authUsers[f]
    BY <1>7, FlowRotated
  <2>2. /\ authUsers'[e].failed = authUsers[e].failed
        /\ authUsers'[e].lockedUntil = authUsers[e].lockedUntil
        /\ authUsers[e] # None /\ authUsers'[e] # None
    BY <1>7, <2>1 DEF Flows!Accounts, Flows!AuthFlowsAssumption
  <2>3. UNCHANGED guesses /\ now' \in Nat /\ now' >= now
    BY <1>0, <1>7
  <2> QED
    BY <2>1, <2>2, <2>3, FlowKeepsGuesses
<1>8. CASE (\E r \in Requests : Flows!LoginSigned(r) \/ Flows!Refresh(r)) \/ Flows!Logout
  <2>1. \E e \in Emails, t \in Flows!Tokens \cup {None} :
            authUsers[e] \in Flows!Accounts /\ authUsers' = Flows!Rotated(e, t)
    <3>1. ASSUME NEW r \in Requests, Flows!LoginSigned(r)
          PROVE  \E e \in Emails :
                    authUsers[e] \in Flows!Accounts /\ authUsers' = Flows!Rotated(e, Flows!Token)
      BY <3>1, FlowLoginSigned
    <3>2. ASSUME NEW r \in Requests, Flows!Refresh(r)
          PROVE  \E e \in Emails :
                    authUsers[e] \in Flows!Accounts /\ authUsers' = Flows!Rotated(e, Flows!Token)
      BY <3>2, FlowRefresh
    <3>3. ASSUME Flows!Logout
          PROVE  \E e \in Emails :
                    authUsers[e] \in Flows!Accounts /\ authUsers' = Flows!Rotated(e, None)
      BY <3>3, FlowLogout
    <3>4. \A r \in Requests :
              Flows!LoginSigned(r) \/ Flows!Refresh(r) => Flows!Token \in Flows!Tokens
      BY FlowGenerated DEF Flows!LoginSigned, Flows!Refresh
    <3> QED
      BY <1>8, <3>1, <3>2, <3>3, <3>4
  <2>2. UNCHANGED <<now, guesses>>
    BY <1>8 DEF Flows!LoginSigned, Flows!Refresh, Flows!Logout
  <2> QED
    BY <1>7, <2>1, <2>2
<1> QED
  BY <1>1, <1>2, <1>3, <1>4, <1>5, <1>6, <1>8 DEF Flows!Next

\* The lockout holds an attacker to MaxAttempts passwords in any LockWindow
\* consecutive milliseconds, unless the owner logged in in between.
THEOREM AlwaysGuessesBounded == ASSUME AccountAssumption PROVE AccountSpec => []GuessesBounded
<1> DEFINE Inv == part = "Flows" => FlowTypeInv /\ FlowGuesses
<1>0. Flows!AuthFlowsAssumption
  BY DEF AccountAssumption
<1>1. AccountInit => Inv
  <2> SUFFICES ASSUME Flows!Init PROVE FlowTypeInv /\ FlowGuesses
    BY DEF AccountInit
  <2>1. \A e \in Emails : authUsers[e] = None /\ guesses[e] = <<>>
    BY DEF Flows!Init
  <2>2. \A e \in Emails, t \in Nat : FlowWindow(guesses[e], t) = {}
    BY <2>1 DEF FlowWindow
  <2>3. Cardinality({}) <= MaxAttempts
    BY <1>0, FS_EmptySet DEF Flows!AuthFlowsAssumption
  <2>4. \A e \in Emails, t \in Nat : Cardinality(FlowWindow(guesses[e], t)) <= MaxAttempts
    BY Zenon, <2>2, <2>3
  <2> QED
    BY <1>0, <2>1, <2>4, FlowInit DEF FlowGuesses
<1>2. Inv /\ [AccountNext]_accountVars => Inv'
  <2> SUFFICES ASSUME part = "Flows", FlowTypeInv, FlowGuesses, [AccountNext]_accountVars
               PROVE  FlowTypeInv' /\ FlowGuesses'
    BY DEF AccountNext, accountVars
  <2>1. CASE AccountNext
    BY <1>0, <2>1, FlowNextType, FlowNextGuesses DEF AccountNext
  <2>2. CASE UNCHANGED accountVars
    <3>1. UNCHANGED <<now, FlowsVars>> /\ UNCHANGED <<now, authUsers, guesses>>
      BY <2>2 DEF accountVars, FlowsVars
    <3> QED
      BY <1>0, <3>1, FlowQuiet DEF FlowGuesses, FlowCounted, FlowWindow
  <2> QED
    BY <2>1, <2>2
<1>3. Inv => GuessesBounded
  <2> SUFFICES ASSUME FlowTypeInv, FlowGuesses, NEW e \in Emails, NEW t \in 0..now
               PROVE  Flows!Cardinality({i \in DOMAIN guesses[e] :
                          guesses[e][i] \in t..(t + LockWindow - 1)}) <= MaxAttempts
    BY DEF GuessesBounded, Flows!GuessesBounded
  <2>1. t \in Nat
    BY DEF FlowTypeInv, Flows!TypeOK
  <2>2. Cardinality(FlowWindow(guesses[e], t)) <= MaxAttempts
    BY <2>1 DEF FlowGuesses
  <2>3. Flows!Cardinality(FlowWindow(guesses[e], t)) = Cardinality(FlowWindow(guesses[e], t))
    BY Zenon, FlowCardinality
  <2>4. Flows!Cardinality(FlowWindow(guesses[e], t)) <= MaxAttempts
    BY <2>2, <2>3
  <2> QED
    BY Zenon, <2>4 DEF FlowWindow
<1> QED
  BY <1>1, <1>2, <1>3, PTL DEF AccountSpec

-----------------------------------------------------------------------------
(***************************************************************************)
(* Type correctness.  The steps after the first use the identity of the    *)
(* callback, so the types need that it has one once its provider reported. *)
(***************************************************************************)
OAuthCalls == [provider : Implemented, state : StateIds]

OAuthReports == [id : ProviderIds, email : Mailboxes]

OAuthReporting == {"link", "byId", "byEmail", "create", "store", "issue", "ok"}

OAuthPastCheck == {"exchange"} \cup OAuthReporting

OAuthCallFits ==
    \A r \in Requests :
        /\ oauthPc[r] = "new" => call[r] = None
        /\ call[r] # None => call[r].state \in drawn
        /\ oauthPc[r] \in OAuthPastCheck => call[r] # None
        /\ oauthPc[r] \in {"new", "exchange"} => reported[r] = None
        /\ oauthPc[r] \in OAuthReporting => reported[r] # None
        /\ reported[r] # None => call[r] # None

OAuthTypeInv == OAuth!TypeOK /\ OAuthCallFits

\* The provider answers, or the callback is refused.
OAuthTold(r) ==
    /\ oauthPc[r] = "exchange" /\ reported[r] = None
    /\ \/ /\ oauthPc' = [oauthPc EXCEPT ![r] = "link"]
          /\ \E w \in OAuthReports : reported' = [reported EXCEPT ![r] = w]
       \/ oauthPc' = [oauthPc EXCEPT ![r] = "refused"] /\ UNCHANGED reported
    /\ UNCHANGED <<now, oauthUsers, drawn, states, call, after, accounts, byEmail, links, account>>

LEMMA OAuthExchangeStep ==
    ASSUME OAuthTypeInv, NEW r \in Requests, OAuth!Exchange(r)
    PROVE  OAuthTold(r)
  BY DEF OAuth!Exchange, OAuth!Goto, OAuth!Stays, OAuthTold, OAuthReports, OAuthTypeInv,
         OAuthCallFits

\* A step after that moves one callback on, and leaves what it asked and was told alone.
LEMMA OAuthLaterStep ==
    ASSUME OAuthTypeInv, NEW r \in Requests,
           OAuth!FindLink(r) \/ OAuth!FindById(r) \/ OAuth!FindByEmail(r)
           \/ OAuth!CreateOAuth(r)
           \/ OAuth!StoreLink(r) \/ OAuth!Issue(r)
    PROVE  /\ oauthPc[r] \in OAuthReporting /\ oauthPc[r] # "ok"
           /\ oauthPc' \in [Requests -> OAuthPastCheck \cup {"new", "refused"}]
           /\ oauthPc'[r] \in (OAuthReporting \ {"link"}) \cup {"refused"}
           /\ \A q \in Requests \ {r} : oauthPc'[q] = oauthPc[q]
           /\ UNCHANGED <<now, oauthUsers, drawn, call, reported, after, states>>
<1> USE DEF OAuthTypeInv, OAuth!TypeOK, OAuthPastCheck, OAuthReporting, OAuth!Goto, OAuth!Stays
<1>1. CASE OAuth!FindLink(r)
  BY <1>1 DEF OAuth!FindLink
<1>2. CASE OAuth!FindById(r) \/ OAuth!FindByEmail(r)
  <2>1. CASE OAuth!FindById(r)
    BY <2>1 DEF OAuth!FindById
  <2>2. CASE OAuth!FindByEmail(r)
    BY <2>2 DEF OAuth!FindByEmail
  <2> QED
    BY <1>2, <2>1, <2>2
<1>3. CASE OAuth!CreateOAuth(r)
  BY <1>3 DEF OAuth!CreateOAuth
<1>4. CASE OAuth!StoreLink(r)
  BY <1>4 DEF OAuth!StoreLink
<1>5. CASE OAuth!Issue(r)
  <2>1. oauthPc[r] = "issue" /\ \E l \in {"ok", "refused"} : oauthPc' = [oauthPc EXCEPT ![r] = l]
    BY <1>5 DEF OAuth!Issue
  <2>2. UNCHANGED <<now, oauthUsers, drawn, call, reported, after, states>>
    BY <1>5 DEF OAuth!Issue
  <2> QED
    BY <2>1, <2>2
<1> QED
  BY <1>1, <1>2, <1>3, <1>4, <1>5

\* The first step: r consumes the state of q, or is turned away.
OAuthBegan(r, q) ==
    /\ oauthPc[r] = "new" /\ (q # None => q.state \in drawn)
    /\ call' = [call EXCEPT ![r] = q]
    /\ \/ oauthPc' = [oauthPc EXCEPT ![r] = "refused"]
       \/ oauthPc' = [oauthPc EXCEPT ![r] = "exchange"] /\ q # None /\ states[q.state] # None
    /\ \/ q = None /\ UNCHANGED states
       \/ q # None /\ states' = [states EXCEPT ![q.state] = None]
    /\ after' = [after EXCEPT ![r] = {d \in Requests : oauthPc[d] \in {"ok", "refused"}}]
    /\ UNCHANGED <<now, oauthUsers, drawn, accounts, byEmail, links, reported, account>>

LEMMA OAuthFirstStep ==
    ASSUME OAuth!OAuthLoginsAssumption, OAuthTypeInv, NEW r \in Requests,
           OAuth!TurnAway(r) \/ OAuth!Callback(r)
    PROVE  \E q \in OAuthCalls \cup {None} : OAuthBegan(r, q)
<1>1. OAuth!Begins(r)
  BY DEF OAuth!TurnAway, OAuth!Callback
<1>2. CASE OAuth!TurnAway(r)
  <2>1. call[r] = None /\ call = [call EXCEPT ![r] = None]
    BY <1>1 DEF OAuth!Begins, OAuthTypeInv, OAuthCallFits, OAuth!TypeOK
  <2>2. OAuthBegan(r, None)
    BY <1>1, <1>2, <2>1 DEF OAuth!TurnAway, OAuth!Begins, OAuth!Goto, OAuthBegan
  <2> QED
    BY <2>2
<1>3. CASE OAuth!Callback(r)
  <2>1. PICK p \in Implemented, s \in drawn : OAuth!Callback(r)!2!(p, s)
    BY <1>3, Zenon DEF OAuth!Callback
  <2> DEFINE q == [provider |-> p, state |-> s]
  <2>2. q \in OAuthCalls /\ q.state = s /\ q # None
    BY DEF OAuthCalls, OAuthTypeInv, OAuth!TypeOK, OAuth!OAuthLoginsAssumption
  <2> HIDE DEF q
  <2>3. /\ call' = [call EXCEPT ![r] = q]
        /\ \/ oauthPc' = [oauthPc EXCEPT ![r] = "refused"]
           \/ oauthPc' = [oauthPc EXCEPT ![r] = "exchange"] /\ states[s] # None
        /\ states' = [states EXCEPT ![s] = None]
    BY <2>1 DEF q, OAuth!Goto, OAuth!Deleted
  <2>4. OAuthBegan(r, q)
    BY <1>1, <2>2, <2>3 DEF OAuth!Begins, OAuthBegan
  <2> QED
    BY <2>2, <2>4
<1> QED
  BY <1>2, <1>3

LEMMA OAuthInitType == ASSUME OAuth!OAuthLoginsAssumption, OAuth!Init PROVE OAuthTypeInv
  BY DEF OAuth!OAuthLoginsAssumption, OAuth!Init, OAuthTypeInv, OAuth!TypeOK, OAuthCallFits,
     OAuthPastCheck, OAuthReporting

\* A new state is drawn for an implemented provider; the others stay or are dropped.
LEMMA OAuthDrawn ==
    ASSUME OAuth!OAuthLoginsAssumption, OAuthTypeInv, OAuth!Authorize
    PROVE  /\ states' \in [StateIds -> [provider : Implemented, until : Nat] \cup {None}]
           /\ drawn \subseteq drawn' /\ drawn' \subseteq StateIds
           /\ \A t \in drawn : states[t] = None => states'[t] = None
<1>1. PICK p \in Implemented, s \in StateIds \ drawn : OAuth!Authorize!1!(p, s)
  BY DEF OAuth!Authorize
<1>2. [provider |-> p, until |-> now + StateTtl] \in [provider : Implemented, until : Nat]
  BY DEF OAuth!OAuthLoginsAssumption, OAuthTypeInv, OAuth!TypeOK
<1>3. drawn' = drawn \cup {s}
  BY <1>1
<1>4. \A t \in StateIds :
          \/ t = s /\ states'[t] = [provider |-> p, until |-> now + StateTtl]
          \/ t # s /\ states'[t] \in {states[t], None}
  BY <1>1
<1>5. DOMAIN states' = StateIds /\ states' = [t \in StateIds |-> states'[t]]
  BY <1>1
<1> QED
  BY <1>2, <1>3, <1>4, <1>5 DEF OAuthTypeInv, OAuth!TypeOK

LEMMA OAuthNextType ==
    ASSUME OAuth!OAuthLoginsAssumption, OAuthTypeInv, [OAuth!Next]_OAuth!oauthVars
    PROVE  OAuthTypeInv'
<1>1. CASE OAuth!Tick
  BY <1>1 DEF OAuth!Tick, OAuth!oauthOwn, OAuthTypeInv, OAuth!TypeOK, OAuthCallFits
<1>2. CASE OAuth!Authorize
  <2>1. UNCHANGED <<now, oauthUsers, accounts, byEmail, links, oauthPc, call, reported, account,
                    after>>
    BY <1>2 DEF OAuth!Authorize
  <2> QED
    BY <1>2, <2>1, OAuthDrawn DEF OAuthTypeInv, OAuth!TypeOK, OAuthCallFits
<1>3. CASE OAuth!DeleteAccount
  <2>1. /\ \A a \in Requests : OAuth!Exists(a) => accounts[a] \in Mailboxes
        /\ UNCHANGED <<states, links, oauthPc, account, now, oauthUsers, drawn, call, reported,
                       after>>
    BY <1>3 DEF OAuth!DeleteAccount, OAuth!Stays, OAuth!Exists, OAuthTypeInv, OAuth!TypeOK
  <2>2. accounts' \in [Requests -> Mailboxes \cup {None}]
        /\ byEmail' \in [Mailboxes -> Requests \cup {None}]
    BY <1>3, <2>1 DEF OAuth!DeleteAccount, OAuthTypeInv, OAuth!TypeOK
  <2> QED
    BY <2>1, <2>2 DEF OAuthTypeInv, OAuth!TypeOK, OAuthCallFits
<1>4. ASSUME NEW r \in Requests, OAuth!TurnAway(r) \/ OAuth!Callback(r) PROVE OAuthTypeInv'
  <2>1. PICK q \in OAuthCalls \cup {None} : OAuthBegan(r, q)
    BY <1>4, OAuthFirstStep
  <2>2. /\ q # None => q.state \in drawn
        /\ \/ oauthPc' = [oauthPc EXCEPT ![r] = "refused"]
           \/ oauthPc' = [oauthPc EXCEPT ![r] = "exchange"] /\ q # None
        /\ call' = [call EXCEPT ![r] = q] /\ oauthPc[r] = "new"
        /\ UNCHANGED <<now, oauthUsers, drawn, accounts, byEmail, links, reported, account>>
    BY <2>1 DEF OAuthBegan, OAuthTypeInv, OAuth!TypeOK
  <2>3. states' \in [StateIds -> [provider : Implemented, until : Nat] \cup {None}]
    BY <2>1 DEF OAuthBegan, OAuthTypeInv, OAuth!TypeOK
  <2>4. after' \in [Requests -> SUBSET Requests]
    BY <2>1 DEF OAuthBegan, OAuthTypeInv, OAuth!TypeOK
  <2>5. call' \in [Requests -> OAuthCalls \cup {None}]
    BY <2>2 DEF OAuthCalls, OAuthTypeInv, OAuth!TypeOK
  <2>6. OAuthCallFits'
    BY <2>2 DEF OAuthCallFits, OAuthPastCheck, OAuthReporting, OAuthTypeInv, OAuth!TypeOK
  <2> QED
    BY <2>2, <2>3, <2>4, <2>5, <2>6 DEF OAuthCalls, OAuthTypeInv, OAuth!TypeOK
<1>5. ASSUME NEW r \in Requests, OAuth!Exchange(r) PROVE OAuthTypeInv'
  <2>1. OAuthTold(r)
    BY <1>5, OAuthExchangeStep
  <2>2. reported' \in [Requests -> OAuthReports \cup {None}]
    BY <2>1 DEF OAuthTold, OAuthReports, OAuthTypeInv, OAuth!TypeOK
  <2>3. OAuthCallFits'
    BY <2>1 DEF OAuthTold, OAuthReports, OAuthCallFits, OAuthPastCheck, OAuthReporting,
           OAuthTypeInv, OAuth!TypeOK, OAuth!OAuthLoginsAssumption
  <2> QED
    BY <2>1, <2>2, <2>3 DEF OAuthTold, OAuthReports, OAuthTypeInv, OAuth!TypeOK
<1>6. ASSUME NEW r \in Requests,
             OAuth!FindLink(r) \/ OAuth!FindById(r) \/ OAuth!FindByEmail(r)
             \/ OAuth!CreateOAuth(r)
             \/ OAuth!StoreLink(r) \/ OAuth!Issue(r)
      PROVE  OAuthTypeInv'
  <2>1. call[r] \in OAuthCalls /\ reported[r] \in OAuthReports
    BY <1>6, OAuthLaterStep DEF OAuthTypeInv, OAuth!TypeOK, OAuthCallFits, OAuthPastCheck,
           OAuthReporting, OAuthCalls, OAuthReports
  <2>2. OAuth!Identity(r) \in Implemented \X ProviderIds /\ reported[r].email \in Mailboxes
    BY <2>1 DEF OAuth!Identity, OAuthCalls, OAuthReports
  <2>3. /\ accounts' \in [Requests -> Mailboxes \cup {None}]
        /\ byEmail' \in [Mailboxes -> Requests \cup {None}]
        /\ links' \in [Implemented \X ProviderIds -> Requests \cup {None}]
        /\ account' \in [Requests -> Requests \cup {None}]
    <3> USE DEF OAuthTypeInv, OAuth!TypeOK
    <3>1. CASE OAuth!FindLink(r)
      BY <2>2, <3>1 DEF OAuth!FindLink
    <3>2. CASE OAuth!FindById(r)
      BY <3>2 DEF OAuth!FindById
    <3>3. CASE OAuth!FindByEmail(r)
      BY <2>2, <3>3 DEF OAuth!FindByEmail, OAuth!OnFile
    <3>4. CASE OAuth!CreateOAuth(r)
      BY <2>2, <3>4 DEF OAuth!CreateOAuth
    <3>5. CASE OAuth!StoreLink(r) \/ OAuth!Issue(r)
      BY <2>2, <3>5 DEF OAuth!StoreLink, OAuth!Issue
    <3> QED
      BY <1>6, <3>1, <3>2, <3>3, <3>4, <3>5
  <2>4. OAuthCallFits'
    BY <1>6, OAuthLaterStep DEF OAuthTypeInv, OAuthCallFits, OAuthPastCheck, OAuthReporting
  <2> QED
    BY <1>6, <2>3, <2>4, OAuthLaterStep DEF OAuthTypeInv, OAuth!TypeOK, OAuthPastCheck,
           OAuthReporting
<1>7. CASE UNCHANGED OAuth!oauthVars
  BY <1>7 DEF OAuth!oauthVars, OAuth!oauthOwn, OAuthTypeInv, OAuth!TypeOK, OAuthCallFits
<1> QED
  BY <1>1, <1>2, <1>3, <1>4, <1>5, <1>6, <1>7 DEF OAuth!Next

-----------------------------------------------------------------------------
(***************************************************************************)
(* A state is spent by the first callback the store is asked for it: it is *)
(* taken out of the store in the same step that looks at it, and never     *)
(* drawn again.                                                            *)
(***************************************************************************)
OAuthConsumed == \A d \in Requests : call[d] # None => states[call[d].state] = None

OAuthAfterDone == \A r \in Requests : \A d \in after[r] : oauthPc[d] \in {"ok", "refused"}

OAuthSpentInv == OAuthConsumed /\ OAuthAfterDone /\ OAuth!StateSpent

LEMMA OAuthBeganSpent ==
    ASSUME OAuth!OAuthLoginsAssumption, OAuthTypeInv, OAuthSpentInv, NEW r \in Requests,
           OAuth!TurnAway(r) \/ OAuth!Callback(r)
    PROVE  OAuthSpentInv'
<1>1. PICK q \in OAuthCalls \cup {None} : OAuthBegan(r, q)
  BY OAuthFirstStep
<1>2. /\ oauthPc[r] = "new" /\ call[r] = None /\ call' = [call EXCEPT ![r] = q]
      /\ q # None => q.state \in StateIds
      /\ DOMAIN call = Requests /\ DOMAIN oauthPc = Requests /\ DOMAIN states = StateIds
      /\ DOMAIN after = Requests
      /\ \A d \in Requests \ {r} :
             oauthPc'[d] = oauthPc[d] /\ call'[d] = call[d] /\ after'[d] = after[d]
      /\ after'[r] = {d \in Requests : oauthPc[d] \in {"ok", "refused"}}
      /\ \A d \in Requests : call[d] # None => call[d].state \in StateIds
  BY <1>1 DEF OAuthBegan, OAuthTypeInv, OAuth!TypeOK, OAuthCallFits
<1>3. \/ oauthPc'[r] = "refused"
      \/ oauthPc'[r] = "exchange" /\ q # None /\ states[q.state] # None
  BY <1>1, <1>2 DEF OAuthBegan
<1>4. OAuthConsumed'
  BY <1>1, <1>2 DEF OAuthBegan, OAuthSpentInv, OAuthConsumed
<1>5. OAuthAfterDone'
  BY <1>2 DEF OAuthSpentInv, OAuthAfterDone, OAuthTypeInv, OAuth!TypeOK
<1>6. OAuth!StateSpent'
  <2> SUFFICES ASSUME NEW d \in Requests, NEW x \in Requests,
                      d # x, call'[d] # None, call'[x] # None, call'[d].state = call'[x].state,
                      oauthPc'[d] # "refused" \/ d \in after'[x],
                      oauthPc'[x] # "refused"
               PROVE  FALSE
    BY DEF OAuth!StateSpent
  <2>1. CASE d # r /\ x # r
    BY <1>2, <2>1 DEF OAuthSpentInv, OAuth!StateSpent
  <2>2. CASE x = r
    <3>1. states[call[d].state] = None
      BY <1>2, <2>2 DEF OAuthSpentInv, OAuthConsumed
    <3> QED
      BY <1>2, <1>3, <2>2, <3>1
  <2>3. CASE d = r
    <3>1. r \notin after[x] /\ states[call[x].state] = None
      BY <1>2, <2>3 DEF OAuthSpentInv, OAuthAfterDone, OAuthConsumed
    <3> QED
      BY <1>2, <1>3, <2>3, <3>1
  <2> QED
    BY <2>1, <2>2, <2>3
<1> QED
  BY <1>4, <1>5, <1>6 DEF OAuthSpentInv

LEMMA OAuthNextSpent ==
    ASSUME OAuth!OAuthLoginsAssumption, OAuthTypeInv, OAuthSpentInv, [OAuth!Next]_OAuth!oauthVars
    PROVE  OAuthSpentInv'
<1>1. CASE OAuth!Tick \/ OAuth!DeleteAccount \/ UNCHANGED OAuth!oauthVars
  BY <1>1 DEF OAuth!Tick, OAuth!DeleteAccount, OAuth!Stays, OAuth!oauthVars, OAuth!oauthOwn,
     OAuthSpentInv, OAuthConsumed, OAuthAfterDone,
              OAuth!StateSpent
<1>2. CASE OAuth!Authorize
  <2>1. UNCHANGED <<oauthPc, call, after>>
    BY <1>2 DEF OAuth!Authorize
  <2>2. OAuthConsumed'
    BY <1>2, <2>1, OAuthDrawn DEF OAuthSpentInv, OAuthConsumed, OAuthTypeInv, OAuthCallFits
  <2> QED
    BY <2>1, <2>2 DEF OAuthSpentInv, OAuthAfterDone, OAuth!StateSpent
<1>3. ASSUME NEW r \in Requests,
             OAuth!Exchange(r) \/ OAuth!FindLink(r) \/ OAuth!FindById(r) \/ OAuth!FindByEmail(r)
             \/ OAuth!CreateOAuth(r)
             \/ OAuth!StoreLink(r) \/ OAuth!Issue(r)
      PROVE  OAuthSpentInv'
  <2>1. /\ UNCHANGED <<call, after, states>> /\ oauthPc[r] \in OAuthPastCheck /\ oauthPc[r] # "ok"
        /\ \A q \in Requests \ {r} : oauthPc'[q] = oauthPc[q]
    <3>1. CASE OAuth!Exchange(r)
      BY <3>1, OAuthExchangeStep DEF OAuthTold, OAuthPastCheck, OAuthTypeInv, OAuth!TypeOK
    <3>2. CASE ~OAuth!Exchange(r)
      BY <1>3, <3>2, OAuthLaterStep DEF OAuthPastCheck
    <3> QED
      BY <3>1, <3>2
  <2>2. \A q \in Requests :
            /\ oauthPc[q] = "refused" => oauthPc'[q] = "refused"
            /\ oauthPc[q] \in {"ok", "refused"} => oauthPc'[q] \in {"ok", "refused"}
    BY <2>1 DEF OAuthPastCheck, OAuthReporting
  <2>3. OAuthConsumed' /\ OAuthAfterDone'
    BY <2>1, <2>2 DEF OAuthSpentInv, OAuthConsumed, OAuthAfterDone, OAuthTypeInv, OAuth!TypeOK
  <2>4. OAuth!StateSpent'
    BY <2>1, <2>2 DEF OAuthSpentInv, OAuth!StateSpent
  <2> QED
    BY <2>3, <2>4 DEF OAuthSpentInv
<1> QED
  BY <1>1, <1>2, <1>3, OAuthBeganSpent DEF OAuth!Next

LEMMA OAuthInitSpent ==
    ASSUME OAuth!OAuthLoginsAssumption, OAuth!Init
    PROVE  OAuthTypeInv /\ OAuthSpentInv
  BY OAuthInitType DEF OAuth!Init, OAuthSpentInv, OAuthConsumed, OAuthAfterDone, OAuth!StateSpent

\* A step of the group while the part is exercised is the part's own, or leaves its variables
\* alone.
LEMMA OAuthStep ==
    ASSUME part = "OAuth", [AccountNext]_accountVars
    PROVE  part' = "OAuth" /\ [OAuth!Next]_OAuth!oauthVars
  BY DEF AccountNext, accountVars, OAuthVars, OAuth!oauthVars, OAuth!oauthOwn

\* A state gets one callback at most past its check, and once the store was asked for it, in
\* time or too late, by the right provider or by another, no later callback is let through
\* with it; one that is turned away before that leaves it good.
OAuthSpends == part = "OAuth" => OAuthTypeInv /\ OAuthSpentInv

THEOREM AlwaysStateSpent == ASSUME AccountAssumption PROVE AccountSpec => []StateSpent
<1>0. OAuth!OAuthLoginsAssumption
  BY DEF AccountAssumption
<1>1. AccountInit => OAuthSpends
  BY <1>0, OAuthInitSpent DEF AccountInit, OAuthSpends
<1>2. OAuthSpends /\ [AccountNext]_accountVars => OAuthSpends'
  <2> SUFFICES ASSUME part = "OAuth", OAuthTypeInv /\ OAuthSpentInv, [AccountNext]_accountVars
               PROVE  OAuthTypeInv' /\ OAuthSpentInv'
    BY DEF AccountNext, accountVars, OAuthSpends
  <2> QED
    BY <1>0, OAuthStep, OAuthNextType, OAuthNextSpent
<1>3. OAuthSpends => StateSpent
  BY DEF OAuthSpends, OAuthSpentInv, StateSpent
<1> QED
  BY <1>1, <1>2, <1>3, PTL DEF AccountSpec

-----------------------------------------------------------------------------
(***************************************************************************)
(* One identity, one account, and one address, one account.  An account    *)
(* has the address that was reported to the callback that made it; a link  *)
(* was stored by a callback of its identity, for an account with the       *)
(* address reported to that one.  The index holds every account as long as *)
(* no two can be made for one address at once: the database refuses the    *)
(* second, and in memory a callback that found no account is alone until   *)
(* it has made one.  The link of an identity leads to the account its      *)
(* callbacks entered, as long as they are one at a time.                   *)
(***************************************************************************)
OAuthMade(a, e) ==
    /\ a \in Requests /\ reported[a] # None /\ reported[a].email = e
    /\ oauthPc[a] \in {"store", "issue", "ok", "refused"}

OAuthLinked(x, i, a) ==
    /\ oauthPc[x] \in {"issue", "ok", "refused"} /\ reported[x] # None
    /\ OAuth!Identity(x) = i /\ account[x] = a /\ OAuthMade(a, reported[x].email)

OAuthOwnersFit ==
    /\ \A a \in Requests : accounts[a] # None => OAuthMade(a, accounts[a])
    /\ \A e \in Mailboxes : byEmail[e] # None => OAuthMade(byEmail[e], e)
    /\ \A i \in Implemented \X ProviderIds :
           links[i] # None => \E x \in Requests : OAuthLinked(x, i, links[i])
    /\ \A r \in Requests :
           account[r] # None =>
               /\ reported[r] # None
               /\ \/ OAuthMade(account[r], reported[r].email)
                  \/ /\ oauthPc[r] # "store"
                     /\ \E x \in Requests \ {r} : OAuthLinked(x, OAuth!Identity(r), account[r])

OAuthAccountHeld ==
    \A r \in Requests :
        oauthPc[r] \in {"byId", "store", "issue", "ok"} => account[r] # None

OAuthIndexed ==
    \A a \in Requests :
        accounts[a] # None /\ (oauthUsers = "database" \/ ~OAuth!RacedFor(accounts[a]))
            => byEmail[accounts[a]] = a

OAuthAloneToCreate ==
    \A r \in Requests :
        oauthPc[r] = "create" /\ ~OAuth!RacedFor(reported[r].email)
            => byEmail[reported[r].email] = None

\* A callback that follows its link, or has entered an account that exists.
OAuthAt(r) ==
    \/ oauthPc[r] = "byId"
    \/ oauthPc[r] \in {"issue", "ok"} /\ accounts[account[r]] # None

OAuthLinksLead ==
    \A r \in Requests :
        OAuthAt(r) /\ ~OAuth!Raced(OAuth!Identity(r)) => links[OAuth!Identity(r)] = account[r]

\* A callback that looks for an account by the address: its identity has none that exists.
OAuthUnlinked ==
    \A d, r \in Requests :
        /\ oauthPc[d] \in {"issue", "ok"} /\ oauthPc[r] \in {"byEmail", "create", "store"}
        /\ OAuth!Identity(d) = OAuth!Identity(r) /\ ~OAuth!Raced(OAuth!Identity(r))
        => accounts[account[d]] = None

OAuthAccountInv ==
    /\ OAuthOwnersFit /\ OAuthAccountHeld
    /\ OAuthIndexed /\ OAuthAloneToCreate
    /\ OAuthLinksLead /\ OAuthUnlinked

\* What a callback was told stays, and so does what it found before that.
OAuthKept ==
    \A x \in Requests :
        reported[x] # None =>
            reported'[x] = reported[x] /\ after'[x] = after[x] /\ call'[x] = call[x]

LEMMA OAuthStillRaced ==
    ASSUME OAuthKept
    PROVE  /\ \A x \in Requests : reported[x] # None => OAuth!Identity(x)' = OAuth!Identity(x)
           /\ \A i : OAuth!Raced(i) => OAuth!Raced(i)'
           /\ \A e : OAuth!RacedFor(e) => OAuth!RacedFor(e)'
  BY DEF OAuthKept, OAuth!Raced, OAuth!RacedFor, OAuth!Overlap, OAuth!Identity

\* Two callbacks in progress overlap.
LEMMA OAuthTogether ==
    ASSUME OAuthTypeInv, OAuthAfterDone, NEW d \in Requests, NEW r \in Requests, d # r,
           oauthPc[d] \in OAuthReporting \ {"ok"}, oauthPc[r] \in OAuthReporting \ {"ok"}
    PROVE  /\ OAuth!Identity(d) = OAuth!Identity(r) => OAuth!Raced(OAuth!Identity(r))
           /\ reported[d].email = reported[r].email => OAuth!RacedFor(reported[r].email)
<1>1. OAuth!Overlap(d, r)
  BY DEF OAuth!Overlap, OAuthAfterDone, OAuthReporting
<1>2. reported[d] # None /\ reported[r] # None
  BY DEF OAuthTypeInv, OAuthCallFits
<1> QED
  BY <1>1, <1>2 DEF OAuth!Raced, OAuth!RacedFor

\* A step that makes no account, stores no link and ends no login leaves the accounts as they
\* are: it turns a callback away, begins one, or tells one who logs in.
LEMMA OAuthQuietAccounts ==
    ASSUME OAuthTypeInv, OAuthAccountInv, OAuthKept, NEW r \in Requests,
           UNCHANGED <<oauthUsers, accounts, byEmail, links, account>>,
           oauthPc[r] \in {"new", "exchange"}, oauthPc'[r] \in {"exchange", "link", "refused"},
           \A d \in Requests \ {r} : oauthPc'[d] = oauthPc[d]
    PROVE  OAuthAccountInv'
<1>1. account[r] = None
  BY DEF OAuthTypeInv, OAuthCallFits, OAuthAccountInv, OAuthOwnersFit
<1>2. \A x \in Requests : reported[x] # None => x # r /\ oauthPc'[x] = oauthPc[x]
  BY DEF OAuthTypeInv, OAuthCallFits
<1>3. ASSUME NEW a, NEW e, OAuthMade(a, e) PROVE OAuthMade(a, e)'
  BY <1>2, <1>3 DEF OAuthMade, OAuthKept
<1>4. ASSUME NEW x \in Requests, NEW i, NEW a, OAuthLinked(x, i, a) PROVE OAuthLinked(x, i, a)'
  BY <1>2, <1>3, <1>4, OAuthStillRaced DEF OAuthLinked, OAuthKept
<1>5. OAuthOwnersFit'
  <2>1. /\ \A a \in Requests : accounts'[a] # None => OAuthMade(a, accounts[a])'
        /\ \A e \in Mailboxes : byEmail'[e] # None => OAuthMade(byEmail[e], e)'
    BY <1>3 DEF OAuthAccountInv, OAuthOwnersFit
  <2>2. \A i \in Implemented \X ProviderIds :
            links'[i] # None => \E x \in Requests : OAuthLinked(x, i, links[i])'
    BY <1>4 DEF OAuthAccountInv, OAuthOwnersFit
  <2>3. ASSUME NEW d \in Requests, account'[d] # None
        PROVE  /\ reported'[d] # None
               /\ \/ OAuthMade(account[d], reported[d].email)'
                  \/ /\ oauthPc'[d] # "store"
                     /\ \E x \in Requests \ {d} : OAuthLinked(x, OAuth!Identity(d), account[d])'
    <3>1. account[d] # None /\ reported[d] # None /\ d # r /\ oauthPc'[d] = oauthPc[d]
          /\ account'[d] = account[d]
      BY <1>2, <2>3 DEF OAuthAccountInv, OAuthOwnersFit
    <3>2. reported'[d] = reported[d] /\ OAuth!Identity(d)' = OAuth!Identity(d)
      BY <3>1, OAuthStillRaced DEF OAuthKept
    <3> QED
      BY <1>3, <1>4, <3>1, <3>2 DEF OAuthAccountInv, OAuthOwnersFit
  <2> QED
    BY <2>1, <2>2, <2>3 DEF OAuthOwnersFit
<1>6. OAuthAccountHeld'
  BY DEF OAuthAccountInv, OAuthAccountHeld
<1>7. OAuthIndexed'
  BY OAuthStillRaced DEF OAuthAccountInv, OAuthIndexed
<1>8. ASSUME NEW d \in Requests, oauthPc'[d] \in OAuthReporting \ {"link"}
      PROVE  /\ oauthPc'[d] = oauthPc[d] /\ reported[d] # None /\ reported'[d] = reported[d]
             /\ OAuth!Identity(d)' = OAuth!Identity(d)
  <2>1. oauthPc'[d] = oauthPc[d] /\ reported[d] # None
    BY <1>8 DEF OAuthReporting, OAuthTypeInv, OAuthCallFits
  <2> QED
    BY <2>1, OAuthStillRaced DEF OAuthKept
<1>9. OAuthAloneToCreate'
  BY <1>8, OAuthStillRaced DEF OAuthAccountInv, OAuthAloneToCreate, OAuthReporting
<1>10. OAuthLinksLead'
  BY <1>8, OAuthStillRaced DEF OAuthAccountInv, OAuthLinksLead, OAuthAt, OAuthReporting
<1>11. OAuthUnlinked'
  BY <1>8, OAuthStillRaced DEF OAuthAccountInv, OAuthUnlinked, OAuthReporting
<1> QED
  BY <1>5, <1>6, <1>7, <1>9, <1>10, <1>11 DEF OAuthAccountInv

LEMMA OAuthFirstAccounts ==
    ASSUME OAuth!OAuthLoginsAssumption, OAuthTypeInv, OAuthAccountInv, NEW r \in Requests,
           OAuth!TurnAway(r) \/ OAuth!Callback(r) \/ OAuth!Exchange(r)
    PROVE  OAuthAccountInv'
<1>1. CASE OAuth!TurnAway(r) \/ OAuth!Callback(r)
  <2>1. PICK q \in OAuthCalls \cup {None} : OAuthBegan(r, q)
    BY <1>1, OAuthFirstStep
  <2>2. /\ oauthPc[r] = "new" /\ oauthPc'[r] \in {"exchange", "refused"} /\ reported[r] = None
        /\ UNCHANGED <<oauthUsers, accounts, byEmail, links, reported, account>>
        /\ \A d \in Requests \ {r} :
               oauthPc'[d] = oauthPc[d] /\ call'[d] = call[d] /\ after'[d] = after[d]
    BY <2>1 DEF OAuthBegan, OAuthTypeInv, OAuth!TypeOK, OAuthCallFits
  <2>3. OAuthKept
    BY <2>2 DEF OAuthKept
  <2> QED
    BY <2>2, <2>3, OAuthQuietAccounts
<1>2. CASE OAuth!Exchange(r)
  <2>1. OAuthTold(r)
    BY <1>2, OAuthExchangeStep
  <2>2. /\ oauthPc[r] = "exchange" /\ oauthPc'[r] \in {"link", "refused"} /\ reported[r] = None
        /\ UNCHANGED <<oauthUsers, accounts, byEmail, links, call, after, account>>
        /\ \A d \in Requests \ {r} : oauthPc'[d] = oauthPc[d] /\ reported'[d] = reported[d]
    BY <2>1 DEF OAuthTold, OAuthTypeInv, OAuth!TypeOK, OAuthCallFits
  <2>3. OAuthKept
    BY <2>2 DEF OAuthKept
  <2> QED
    BY <2>2, <2>3, OAuthQuietAccounts
<1> QED
  BY <1>1, <1>2

\* A later step leaves who asked and who overlaps alone.
LEMMA OAuthSameRaces ==
    ASSUME UNCHANGED <<call, reported, after>>
    PROVE  /\ OAuthKept
           /\ \A x : OAuth!Identity(x)' = OAuth!Identity(x)
           /\ \A i : OAuth!Raced(i)' <=> OAuth!Raced(i)
           /\ \A e : OAuth!RacedFor(e)' <=> OAuth!RacedFor(e)
  BY DEF OAuthKept, OAuth!Raced, OAuth!RacedFor, OAuth!Overlap, OAuth!Identity

LEMMA OAuthCreateAccounts ==
    ASSUME OAuth!OAuthLoginsAssumption, OAuthTypeInv, OAuthAfterDone, OAuthAccountInv,
           NEW r \in Requests,
           OAuth!CreateOAuth(r)
    PROVE  OAuthAccountInv'
<1> DEFINE e == reported[r].email
<1>1. /\ oauthPc[r] = "create" /\ reported[r] # None /\ e \in Mailboxes /\ e # None
      /\ UNCHANGED <<oauthUsers, call, reported, after, links>>
  <2>1. /\ oauthPc[r] = "create" /\ reported[r] \in OAuthReports /\ reported[r] # None
        /\ UNCHANGED <<oauthUsers, call, reported, after, links>>
    BY OAuthLaterStep DEF OAuth!CreateOAuth, OAuthTypeInv, OAuth!TypeOK, OAuthCallFits,
           OAuthReporting, OAuthReports
  <2> QED
    BY <2>1 DEF OAuthReports, OAuth!OAuthLoginsAssumption
<1>2. /\ \A x : OAuth!Identity(x)' = OAuth!Identity(x)
      /\ \A i : OAuth!Raced(i)' <=> OAuth!Raced(i)
      /\ \A f : OAuth!RacedFor(f)' <=> OAuth!RacedFor(f)
  BY <1>1, OAuthSameRaces
<1>3. /\ \A d \in Requests \ {r} : oauthPc'[d] = oauthPc[d] /\ account'[d] = account[d]
      /\ oauthPc'[r] \in {"store", "refused"}
      /\ DOMAIN oauthPc = Requests /\ DOMAIN account = Requests
  BY DEF OAuth!CreateOAuth, OAuth!Goto, OAuthTypeInv, OAuth!TypeOK
<1>4. ASSUME NEW a, NEW f, OAuthMade(a, f) PROVE a # r /\ OAuthMade(a, f)'
  BY <1>1, <1>3, <1>4 DEF OAuthMade
<1>5. ASSUME NEW x \in Requests, NEW i, NEW a, OAuthLinked(x, i, a)
      PROVE  x # r /\ OAuthLinked(x, i, a)'
  BY <1>1, <1>2, <1>3, <1>4, <1>5 DEF OAuthLinked
<1>6. \A d \in Requests : account[d] # r
  BY <1>4, <1>5 DEF OAuthAccountInv, OAuthOwnersFit, OAuthLinked, OAuth!OAuthLoginsAssumption
<1> HIDE DEF e
<1>7. CASE oauthUsers = "database" /\ byEmail[e] # None
  <2>1. UNCHANGED <<accounts, byEmail, account>> /\ oauthPc'[r] = "refused"
    BY <1>3, <1>7 DEF OAuth!CreateOAuth, OAuth!Goto, e
  <2>2. OAuthOwnersFit'
    BY <1>1, <1>2, <1>3, <1>4, <1>5, <2>1 DEF OAuthAccountInv, OAuthOwnersFit
  <2>3. OAuthAccountHeld'
    BY <1>3, <2>1 DEF OAuthAccountInv, OAuthAccountHeld
  <2>4. OAuthIndexed' /\ OAuthAloneToCreate'
    BY <1>1, <1>2, <1>3, <2>1 DEF OAuthAccountInv, OAuthIndexed, OAuthAloneToCreate
  <2>5. OAuthLinksLead' /\ OAuthUnlinked'
    BY <1>1, <1>2, <1>3, <2>1 DEF OAuthAccountInv, OAuthLinksLead, OAuthAt, OAuthUnlinked
  <2> QED
    BY <2>2, <2>3, <2>4, <2>5 DEF OAuthAccountInv
<1>8. CASE ~(oauthUsers = "database" /\ byEmail[e] # None)
  <2>1. /\ accounts' = [accounts EXCEPT ![r] = e]
        /\ byEmail' = [byEmail EXCEPT ![e] = r]
        /\ account' = [account EXCEPT ![r] = r]
        /\ oauthPc'[r] = "store"
    BY <1>3, <1>8 DEF OAuth!CreateOAuth, OAuth!Goto, e
  <2>2. OAuthMade(r, e)'
    BY <1>1, <2>1 DEF OAuthMade, e
  <2>3. OAuthOwnersFit'
    <3>1. /\ \A a \in Requests : accounts'[a] # None => OAuthMade(a, accounts[a])'
          /\ \A f \in Mailboxes : byEmail'[f] # None => OAuthMade(byEmail[f], f)'
      <4>1. ASSUME NEW a \in Requests, NEW f, f # None, accounts'[a] = f PROVE OAuthMade(a, f)'
        <5>1. a = r => f = e
          BY <2>1, <4>1 DEF OAuthTypeInv, OAuth!TypeOK
        <5>2. a # r => OAuthMade(a, f)
          BY <2>1, <4>1 DEF OAuthAccountInv, OAuthOwnersFit, OAuthTypeInv, OAuth!TypeOK
        <5>3. CASE a = r
          BY <1>1, <2>2, <5>1, <5>3 DEF OAuthMade, e
        <5> QED
          BY <1>4, <5>2, <5>3
      <4>2. ASSUME NEW a, NEW f \in Mailboxes, a # None, byEmail'[f] = a PROVE OAuthMade(a, f)'
        <5>1. f = e => a = r
          BY <2>1, <4>2 DEF OAuthTypeInv, OAuth!TypeOK
        <5>2. f # e => OAuthMade(a, f)
          BY <2>1, <4>2 DEF OAuthAccountInv, OAuthOwnersFit, OAuthTypeInv, OAuth!TypeOK
        <5>3. CASE f = e
          BY <1>1, <2>2, <5>1, <5>3 DEF OAuthMade, e
        <5> QED
          BY <1>4, <5>2, <5>3
      <4> QED
        BY <4>1, <4>2 DEF OAuthMade
    <3>2. \A i \in Implemented \X ProviderIds :
              links'[i] # None => \E x \in Requests : OAuthLinked(x, i, links[i])'
      BY <1>1, <1>5 DEF OAuthAccountInv, OAuthOwnersFit
    <3>3. ASSUME NEW d \in Requests, account'[d] # None
          PROVE  /\ reported'[d] # None
                 /\ \/ OAuthMade(account[d], reported[d].email)'
                    \/ /\ oauthPc'[d] # "store"
                       /\ \E x \in Requests \ {d} :
                              OAuthLinked(x, OAuth!Identity(d), account[d])'
      <4>1. CASE d = r
        BY <1>1, <1>3, <2>1, <2>2, <4>1 DEF e
      <4>2. CASE d # r
        BY <1>1, <1>2, <1>3, <1>4, <1>5, <3>3, <4>2 DEF OAuthAccountInv, OAuthOwnersFit
      <4> QED
        BY <4>1, <4>2
    <3> QED
      BY <3>1, <3>2, <3>3 DEF OAuthOwnersFit
  <2>4. OAuthAccountHeld'
    BY <1>3, <2>1 DEF OAuthAccountInv, OAuthAccountHeld, OAuth!OAuthLoginsAssumption
  <2>5. oauthUsers = "database" \/ ~OAuth!RacedFor(e) => byEmail[e] = None
    BY <1>1, <1>8 DEF OAuthAccountInv, OAuthAloneToCreate, e
  <2>6. OAuthIndexed'
    BY <1>1, <1>2, <2>1, <2>5 DEF OAuthAccountInv, OAuthIndexed, OAuthTypeInv, OAuth!TypeOK,
           OAuth!OAuthLoginsAssumption
  <2>7. ASSUME NEW x \in Requests, oauthPc'[x] = "create", ~OAuth!RacedFor(reported[x].email)
        PROVE  byEmail'[reported[x].email] = None
    <3>1. x # r /\ oauthPc[x] = "create"
      BY <1>3, <2>1, <2>7
    <3>2. reported[x].email # e
      BY <1>1, <2>7, <3>1, OAuthTogether DEF OAuthReporting, e
    <3> QED
      BY <2>1, <2>7, <3>1, <3>2 DEF OAuthAccountInv, OAuthAloneToCreate, OAuthTypeInv,
             OAuth!TypeOK
  <2>8. OAuthAloneToCreate'
    BY <1>1, <1>2, <2>7 DEF OAuthAloneToCreate
  <2>9. ASSUME NEW d \in Requests, oauthPc'[d] \in {"byId", "issue", "ok"}
        PROVE  d # r /\ oauthPc[d] = oauthPc'[d] /\ account'[d] = account[d]
               /\ accounts'[account'[d]] = accounts[account[d]]
    <3>1. d # r /\ oauthPc[d] = oauthPc'[d] /\ account'[d] = account[d]
      BY <1>3, <2>1, <2>9
    <3> QED
      BY <1>6, <2>1, <3>1
  <2>10. OAuthLinksLead'
    BY <1>1, <1>2, <2>9 DEF OAuthAccountInv, OAuthLinksLead, OAuthAt
  <2>11. OAuthUnlinked'
    BY <1>1, <1>2, <1>3, <2>1, <2>9 DEF OAuthAccountInv, OAuthUnlinked
  <2> QED
    BY <2>3, <2>4, <2>6, <2>8, <2>10, <2>11 DEF OAuthAccountInv
<1> QED
  BY <1>7, <1>8

\* What a step of a look-up finds, stores or ends, for its own callback and its own identity.
OAuthLookedUp(r) ==
    LET i == OAuth!Identity(r) IN
    /\ account'[r] # None =>
           \/ OAuthMade(account'[r], reported[r].email)
           \/ /\ oauthPc'[r] # "store"
              /\ \E x \in Requests \ {r} : OAuthLinked(x, i, account'[r])
    /\ oauthPc'[r] \in {"byId", "store", "issue", "ok"} => account'[r] # None
    /\ oauthPc'[r] = "create" => byEmail[reported[r].email] = None
    /\ \A j \in Implemented \X ProviderIds : j # i => links'[j] = links[j]
    /\ \/ links'[i] = links[i] /\ oauthPc[r] # "store"
       \/ /\ oauthPc[r] = "store" /\ oauthPc'[r] = "issue" /\ links'[i] = account'[r]
          /\ OAuthMade(account'[r], reported[r].email)
    /\ oauthPc[r] \in {"issue", "store"} => account'[r] = account[r]
    /\ oauthPc'[r] = "byId" => links[i] = account'[r]
    /\ oauthPc'[r] \in {"issue", "ok"} /\ oauthPc[r] # "store" =>
           account'[r] = account[r] /\ (accounts[account[r]] # None => OAuthAt(r))
    /\ oauthPc'[r] \in {"byEmail", "create", "store"} =>
           \/ oauthPc[r] \in {"byEmail", "create"}
           \/ oauthPc[r] = "link" /\ links[i] = None
           \/ oauthPc[r] = "byId" /\ accounts[account[r]] = None

LEMMA OAuthLookUp ==
    ASSUME OAuth!OAuthLoginsAssumption, OAuthTypeInv, OAuthAccountInv, NEW r \in Requests,
           OAuth!FindLink(r) \/ OAuth!FindById(r) \/ OAuth!FindByEmail(r)
           \/ OAuth!StoreLink(r) \/ OAuth!Issue(r)
    PROVE  /\ OAuth!Identity(r) \in Implemented \X ProviderIds /\ OAuthLookedUp(r)
           /\ UNCHANGED <<accounts, byEmail>>
           /\ \A d \in Requests \ {r} : account'[d] = account[d]
<1>1. /\ reported[r].email \in Mailboxes /\ oauthPc[r] # "refused" /\ reported[r] # None
      /\ OAuth!Identity(r) \in Implemented \X ProviderIds
  BY OAuthLaterStep DEF OAuthTypeInv, OAuth!TypeOK, OAuthCallFits, OAuthPastCheck,
         OAuthReporting, OAuth!Identity
<1>2. DOMAIN links = Implemented \X ProviderIds /\ DOMAIN account = Requests
      /\ DOMAIN oauthPc = Requests
  BY DEF OAuthTypeInv, OAuth!TypeOK
<1> DEFINE i == OAuth!Identity(r)
<1> HIDE DEF i
<1> USE DEF OAuthAccountInv, OAuthAccountHeld, OAuthOwnersFit, OAuthLookedUp
<1>3. CASE OAuth!FindLink(r)
  <2>1. /\ oauthPc[r] = "link" /\ UNCHANGED <<accounts, byEmail, links>>
        /\ account' = [account EXCEPT ![r] = links[i]]
        /\ oauthPc' = [oauthPc EXCEPT ![r] = IF links[i] # None THEN "byId" ELSE "byEmail"]
    BY <1>3 DEF OAuth!FindLink, OAuth!Goto, i
  <2>2. links[i] # None => \E x \in Requests \ {r} : OAuthLinked(x, i, links[i])
    BY <1>1, <2>1 DEF OAuthLinked, i
  <2> QED
    BY <1>1, <1>2, <2>1, <2>2 DEF i
<1>4. CASE OAuth!FindById(r)
  <2>1. /\ oauthPc[r] = "byId" /\ UNCHANGED <<accounts, byEmail, links>>
        /\ \/ oauthPc' = [oauthPc EXCEPT ![r] = "issue"] /\ UNCHANGED account
           \/ /\ oauthPc' = [oauthPc EXCEPT ![r] = "byEmail"]
              /\ account' = [account EXCEPT ![r] = None] /\ accounts[account[r]] = None
    BY <1>4 DEF OAuth!FindById, OAuth!Goto, OAuth!Exists
  <2> QED
    BY <1>1, <1>2, <2>1 DEF OAuthAt, i
<1>5. CASE OAuth!FindByEmail(r)
  <2> DEFINE f == byEmail[reported[r].email]
  <2>1. /\ oauthPc[r] = "byEmail" /\ UNCHANGED <<accounts, byEmail, links>>
        /\ account' = [account EXCEPT ![r] = f]
        /\ oauthPc' = [oauthPc EXCEPT ![r] = IF f # None THEN "store" ELSE "create"]
    BY <1>5 DEF OAuth!FindByEmail, OAuth!OnFile, OAuth!Goto
  <2> QED
    BY <1>1, <1>2, <2>1 DEF i
<1>6. CASE OAuth!StoreLink(r)
  <2>1. /\ oauthPc[r] = "store" /\ UNCHANGED <<accounts, byEmail, account>>
        /\ oauthPc' = [oauthPc EXCEPT ![r] = "issue"]
        /\ links' = [links EXCEPT ![i] = account[r]]
    BY <1>6 DEF OAuth!StoreLink, OAuth!Goto, i
  <2> QED
    BY <1>1, <1>2, <2>1 DEF i
<1>7. CASE OAuth!Issue(r)
  <2>1. /\ oauthPc[r] = "issue" /\ UNCHANGED <<accounts, byEmail, links, account>>
        /\ \E l \in {"ok", "refused"} : oauthPc' = [oauthPc EXCEPT ![r] = l]
    BY <1>7 DEF OAuth!Issue, OAuth!Goto
  <2> QED
    BY <1>1, <1>2, <2>1 DEF OAuthAt, i
<1> QED
  BY <1>3, <1>4, <1>5, <1>6, <1>7

LEMMA OAuthLookUpAccounts ==
    ASSUME OAuth!OAuthLoginsAssumption, OAuthTypeInv, OAuthAfterDone, OAuthAccountInv,
           NEW r \in Requests,
           OAuth!FindLink(r) \/ OAuth!FindById(r) \/ OAuth!FindByEmail(r)
           \/ OAuth!StoreLink(r) \/ OAuth!Issue(r)
    PROVE  OAuthAccountInv'
<1> DEFINE i == OAuth!Identity(r)
<1>1. /\ UNCHANGED <<oauthUsers, call, reported, after, accounts, byEmail>>
      /\ oauthPc[r] \in OAuthReporting \ {"ok"} /\ reported[r] # None
      /\ oauthPc'[r] \in (OAuthReporting \ {"link"}) \cup {"refused"}
      /\ \A d \in Requests \ {r} : oauthPc'[d] = oauthPc[d] /\ account'[d] = account[d]
      /\ i \in Implemented \X ProviderIds
  BY OAuthLaterStep, OAuthLookUp DEF OAuthTypeInv, OAuthCallFits
<1>2. /\ \A x : OAuth!Identity(x)' = OAuth!Identity(x)
      /\ \A j : OAuth!Raced(j)' <=> OAuth!Raced(j)
      /\ \A e : OAuth!RacedFor(e)' <=> OAuth!RacedFor(e)
  BY <1>1, OAuthSameRaces
<1>3. OAuthLookedUp(r)
  BY OAuthLookUp
<1>4. oauthPc[r] \in {"store", "issue"} => oauthPc'[r] \in {"issue", "ok", "refused"}
  BY DEF OAuth!FindLink, OAuth!FindById, OAuth!FindByEmail, OAuth!StoreLink, OAuth!Issue,
         OAuth!Goto, OAuthTypeInv, OAuth!TypeOK
<1>5. ASSUME NEW a, NEW e, OAuthMade(a, e) PROVE OAuthMade(a, e)'
  BY <1>1, <1>4, <1>5 DEF OAuthMade, OAuthReporting
<1>6. ASSUME NEW x \in Requests, NEW j, NEW a, OAuthLinked(x, j, a) PROVE OAuthLinked(x, j, a)'
  <2>1. oauthPc'[x] \in {"issue", "ok", "refused"} /\ account'[x] = account[x]
    BY <1>1, <1>3, <1>4, <1>6 DEF OAuthLinked, OAuthLookedUp, OAuthReporting
  <2> QED
    BY <1>1, <1>2, <1>5, <1>6, <2>1 DEF OAuthLinked
<1> HIDE DEF i
<1>7. OAuthOwnersFit'
  <2>1. /\ \A a \in Requests : accounts'[a] # None => OAuthMade(a, accounts[a])'
        /\ \A e \in Mailboxes : byEmail'[e] # None => OAuthMade(byEmail[e], e)'
    BY <1>1, <1>5 DEF OAuthAccountInv, OAuthOwnersFit
  <2>2. ASSUME NEW j \in Implemented \X ProviderIds, links'[j] # None
        PROVE  \E x \in Requests : OAuthLinked(x, j, links[j])'
    <3>1. CASE links'[j] = links[j]
      BY <1>6, <2>2, <3>1 DEF OAuthAccountInv, OAuthOwnersFit
    <3>2. CASE links'[j] # links[j]
      <4>1. /\ j = i /\ oauthPc'[r] = "issue" /\ links'[j] = account'[r]
            /\ OAuthMade(account'[r], reported[r].email)
        BY <1>3, <3>2 DEF OAuthLookedUp, i
      <4>2. OAuthLinked(r, j, links[j])'
        BY <1>1, <1>2, <1>5, <4>1 DEF OAuthLinked, i
      <4> QED
        BY <4>2
    <3> QED
      BY <3>1, <3>2
  <2>3. ASSUME NEW d \in Requests, account'[d] # None
        PROVE  /\ reported'[d] # None
               /\ \/ OAuthMade(account[d], reported[d].email)'
                  \/ /\ oauthPc'[d] # "store"
                     /\ \E x \in Requests \ {d} : OAuthLinked(x, OAuth!Identity(d), account[d])'
    <3>1. CASE d = r
      BY <1>1, <1>2, <1>3, <1>5, <1>6, <2>3, <3>1 DEF OAuthLookedUp, i
    <3>2. CASE d # r
      BY <1>1, <1>2, <1>5, <1>6, <2>3, <3>2 DEF OAuthAccountInv, OAuthOwnersFit
    <3> QED
      BY <3>1, <3>2
  <2> QED
    BY <2>1, <2>2, <2>3 DEF OAuthOwnersFit
<1>8. OAuthAccountHeld'
  BY <1>1, <1>3 DEF OAuthAccountInv, OAuthAccountHeld, OAuthLookedUp
<1>9. OAuthIndexed'
  BY <1>1, <1>2 DEF OAuthAccountInv, OAuthIndexed
<1>10. OAuthAloneToCreate'
  BY <1>1, <1>2, <1>3 DEF OAuthAccountInv, OAuthAloneToCreate, OAuthLookedUp
<1>11. OAuthLinksLead'
  <2> SUFFICES ASSUME NEW d \in Requests, OAuthAt(d)', ~OAuth!Raced(OAuth!Identity(d))
               PROVE  links'[OAuth!Identity(d)] = account'[d]
    BY <1>2 DEF OAuthLinksLead
  <2>1. CASE d = r
    <3>1. CASE oauthPc'[r] = "byId"
      BY <1>3, <1>1, <2>1, <3>1 DEF OAuthLookedUp, i
    <3>2. CASE oauthPc'[r] \in {"issue", "ok"} /\ oauthPc[r] # "store"
      BY <1>1, <1>3, <2>1, <3>2 DEF OAuthLookedUp, OAuthAt, OAuthAccountInv, OAuthLinksLead, i
    <3>3. CASE oauthPc[r] = "store"
      BY <1>3, <2>1, <3>3 DEF OAuthLookedUp, i
    <3> QED
      BY <2>1, <3>1, <3>2, <3>3 DEF OAuthAt
  <2>2. CASE d # r
    <3>1. OAuthAt(d) /\ account'[d] = account[d] /\ links[OAuth!Identity(d)] = account[d]
          /\ oauthPc'[d] = oauthPc[d]
      BY <1>1, <2>2 DEF OAuthAt, OAuthAccountInv, OAuthLinksLead
    <3>2. CASE OAuth!Identity(d) = i /\ oauthPc[r] = "store"
      <4>1. oauthPc[d] \in {"issue", "ok"} => FALSE
        BY <3>1, <3>2 DEF OAuthAccountInv, OAuthUnlinked, OAuthAt, i
      <4>2. oauthPc[d] = "byId" => FALSE
        BY <2>2, <3>2, OAuthTogether DEF OAuthReporting, i
      <4> QED
        BY <3>1, <4>1, <4>2 DEF OAuthAt
    <3>3. CASE ~(OAuth!Identity(d) = i /\ oauthPc[r] = "store")
      <4>1. OAuth!Identity(d) \in Implemented \X ProviderIds
        BY <3>1 DEF OAuthAt, OAuthTypeInv, OAuth!TypeOK, OAuthCallFits, OAuthReporting,
               OAuth!Identity
      <4> QED
        BY <1>3, <3>1, <3>3, <4>1 DEF OAuthLookedUp, i
    <3> QED
      BY <3>2, <3>3
  <2> QED
    BY <2>1, <2>2
<1>12. OAuthUnlinked'
  <2> SUFFICES ASSUME NEW d \in Requests, NEW x \in Requests,
                      oauthPc'[d] \in {"issue", "ok"},
                      oauthPc'[x] \in {"byEmail", "create", "store"},
                      OAuth!Identity(d) = OAuth!Identity(x), ~OAuth!Raced(OAuth!Identity(x)),
                      accounts[account'[d]] # None
               PROVE  FALSE
    BY <1>1, <1>2 DEF OAuthUnlinked
  <2>1. d # x
    OBVIOUS
  <2>2. CASE d # r /\ x # r
    BY <1>1, <2>2 DEF OAuthAccountInv, OAuthUnlinked
  <2>3. CASE d = r
    BY <1>1, <2>1, <2>3, OAuthTogether DEF OAuthReporting
  <2>4. CASE x = r
    <3>1. oauthPc[d] \in {"issue", "ok"} /\ account'[d] = account[d]
          /\ links[i] = account[d] /\ account[d] # None
      BY <1>1, <2>1, <2>4 DEF OAuthAccountInv, OAuthLinksLead, OAuthAt, OAuthAccountHeld, i
    <3>2. CASE oauthPc[r] \in {"byEmail", "create"}
      BY <2>1, <2>4, <3>1, <3>2 DEF OAuthAccountInv, OAuthUnlinked
    <3>3. CASE oauthPc[r] = "link" /\ links[i] = None
      BY <3>1, <3>3
    <3>4. CASE oauthPc[r] = "byId" /\ accounts[account[r]] = None
      BY <2>4, <3>1, <3>4 DEF OAuthAccountInv, OAuthLinksLead, OAuthAt, i
    <3> QED
      BY <1>3, <2>4, <3>2, <3>3, <3>4 DEF OAuthLookedUp, i
  <2> QED
    BY <2>2, <2>3, <2>4
<1> QED
  BY <1>7, <1>8, <1>9, <1>10, <1>11, <1>12 DEF OAuthAccountInv

LEMMA OAuthDeleteAccounts ==
    ASSUME OAuth!OAuthLoginsAssumption, OAuthTypeInv, OAuthAccountInv, OAuth!DeleteAccount
    PROVE  OAuthAccountInv'
<1>1. PICK a \in Requests :
          /\ accounts[a] # None
          /\ byEmail' = [byEmail EXCEPT ![accounts[a]] = None]
          /\ accounts' = [accounts EXCEPT ![a] = None]
  BY DEF OAuth!DeleteAccount, OAuth!Exists
<1>2. UNCHANGED <<oauthUsers, links, oauthPc, account, call, reported, after>>
  BY DEF OAuth!DeleteAccount, OAuth!Stays
<1>3. /\ DOMAIN accounts = Requests /\ DOMAIN byEmail = Mailboxes /\ accounts[a] \in Mailboxes
      /\ \A r \in Requests : oauthPc[r] = "create" => reported[r].email \in Mailboxes
  BY <1>1 DEF OAuthTypeInv, OAuth!TypeOK, OAuthCallFits, OAuthReporting
<1>4. /\ \A x : OAuth!Identity(x)' = OAuth!Identity(x)
      /\ \A i : OAuth!Raced(i)' <=> OAuth!Raced(i)
      /\ \A e : OAuth!RacedFor(e)' <=> OAuth!RacedFor(e)
  BY <1>2, OAuthSameRaces
<1>5. ASSUME NEW b, NEW e PROVE OAuthMade(b, e)' <=> OAuthMade(b, e)
  BY <1>2 DEF OAuthMade
<1>6. ASSUME NEW x, NEW i, NEW b PROVE OAuthLinked(x, i, b)' <=> OAuthLinked(x, i, b)
  BY <1>2, <1>4, <1>5 DEF OAuthLinked
<1>7. OAuthOwnersFit'
  BY <1>1, <1>2, <1>3, <1>4, <1>5, <1>6 DEF OAuthAccountInv, OAuthOwnersFit
<1>8. OAuthAccountHeld' /\ OAuthAloneToCreate'
  BY <1>1, <1>2, <1>3, <1>4 DEF OAuthAccountInv, OAuthAccountHeld, OAuthAloneToCreate
<1>9. OAuthIndexed'
  BY <1>1, <1>2, <1>3, <1>4 DEF OAuthAccountInv, OAuthIndexed, OAuthTypeInv, OAuth!TypeOK
<1>10. \A b : accounts[b] = None => accounts'[b] = None
  BY <1>1
<1>11. OAuthLinksLead' /\ OAuthUnlinked'
  BY <1>2, <1>4, <1>10 DEF OAuthAccountInv, OAuthLinksLead, OAuthAt, OAuthUnlinked
<1> QED
  BY <1>7, <1>8, <1>9, <1>11 DEF OAuthAccountInv

LEMMA OAuthNextAccounts ==
    ASSUME OAuth!OAuthLoginsAssumption, OAuthTypeInv, OAuthAfterDone, OAuthAccountInv,
           [OAuth!Next]_OAuth!oauthVars
    PROVE  OAuthAccountInv'
<1>1. CASE OAuth!Tick \/ OAuth!Authorize \/ UNCHANGED OAuth!oauthVars
  <2>1. UNCHANGED <<oauthUsers, accounts, byEmail, links, oauthPc, call, reported, account, after>>
    BY <1>1 DEF OAuth!Tick, OAuth!Authorize, OAuth!oauthVars, OAuth!oauthOwn
  <2>2. /\ \A x : OAuth!Identity(x)' = OAuth!Identity(x)
        /\ \A i : OAuth!Raced(i)' <=> OAuth!Raced(i)
        /\ \A e : OAuth!RacedFor(e)' <=> OAuth!RacedFor(e)
    BY <2>1, OAuthSameRaces
  <2>3. /\ \A a, e : OAuthMade(a, e)' <=> OAuthMade(a, e)
        /\ \A x, i, a : OAuthLinked(x, i, a)' <=> OAuthLinked(x, i, a)
    BY <2>1, <2>2 DEF OAuthLinked, OAuthMade
  <2>4. OAuthOwnersFit' /\ OAuthAccountHeld'
    BY <2>1, <2>2, <2>3 DEF OAuthAccountInv, OAuthOwnersFit, OAuthAccountHeld
  <2>5. OAuthIndexed' /\ OAuthAloneToCreate'
    BY <2>1, <2>2 DEF OAuthAccountInv, OAuthIndexed, OAuthAloneToCreate
  <2>6. OAuthLinksLead' /\ OAuthUnlinked'
    BY <2>1, <2>2 DEF OAuthAccountInv, OAuthLinksLead, OAuthUnlinked, OAuthAt
  <2> QED
    BY <2>4, <2>5, <2>6 DEF OAuthAccountInv
<1> QED
  BY <1>1, OAuthDeleteAccounts, OAuthFirstAccounts, OAuthCreateAccounts,
         OAuthLookUpAccounts DEF OAuth!Next

LEMMA OAuthInitAccounts == ASSUME OAuth!Init PROVE OAuthAccountInv
  BY DEF OAuth!Init, OAuthAccountInv, OAuthOwnersFit, OAuthAccountHeld, OAuthIndexed,
         OAuthAloneToCreate, OAuthLinksLead, OAuthUnlinked, OAuthAt

LEMMA OAuthView == ASSUME OAuthTypeInv, OAuthAccountInv PROVE OAuth!SameAccount
<1>1. oauthUsers \in {"memory", "database"}
  BY DEF OAuthTypeInv, OAuth!TypeOK
<1>2. ASSUME NEW r \in Requests, OAuth!Entered(r)
      PROVE  /\ OAuthAt(r) /\ account[r] # None /\ account[r] \in Requests
             /\ accounts[account[r]] # None
  BY <1>2 DEF OAuth!Entered, OAuth!Exists, OAuthAt, OAuthAccountInv, OAuthAccountHeld,
         OAuthTypeInv, OAuth!TypeOK
<1>3. ASSUME NEW d \in Requests, NEW r \in Requests, OAuth!Entered(d), OAuth!Entered(r),
             OAuth!Identity(d) = OAuth!Identity(r), ~OAuth!Raced(OAuth!Identity(r))
      PROVE  account[d] = account[r]
  BY <1>2, <1>3 DEF OAuthAccountInv, OAuthLinksLead
<1>4. ASSUME NEW d \in Requests, NEW r \in Requests, OAuth!Entered(d), OAuth!Entered(r),
             accounts[account[d]] = accounts[account[r]],
             ~(oauthUsers = "memory" /\ OAuth!RacedFor(accounts[account[r]]))
      PROVE  account[d] = account[r]
  BY <1>1, <1>2, <1>4 DEF OAuthAccountInv, OAuthIndexed
<1>5. ASSUME NEW r \in Requests, OAuth!Entered(r), accounts[account[r]] # reported[r].email
      PROVE  \E x \in Requests \ {r} :
                 /\ reported[x] # None /\ OAuth!Identity(x) = OAuth!Identity(r)
                 /\ account[x] = account[r] /\ reported[x].email = accounts[account[r]]
  <2>1. OAuthMade(account[r], accounts[account[r]])
    BY <1>2, <1>5 DEF OAuthAccountInv, OAuthOwnersFit
  <2>2. ~OAuthMade(account[r], reported[r].email)
    BY <1>5, <2>1 DEF OAuthMade
  <2>3. PICK x \in Requests \ {r} : OAuthLinked(x, OAuth!Identity(r), account[r])
    BY <1>2, <1>5, <2>2 DEF OAuthAccountInv, OAuthOwnersFit
  <2> QED
    BY <2>1, <2>3 DEF OAuthLinked, OAuthMade
<1> QED
  BY <1>3, <1>4, <1>5 DEF OAuth!SameAccount

\* Logging in again under one identity leads to the same account as long as it exists, unless
\* two of its callbacks overlapped; those let into accounts with the address reported are let
\* into one, in memory unless two callbacks with that address overlapped; an account with
\* another address is entered only through a link its own identity got with that address.
OAuthAccounts == part = "OAuth" => OAuthTypeInv /\ OAuthSpentInv /\ OAuthAccountInv

THEOREM AlwaysSameAccount == ASSUME AccountAssumption PROVE AccountSpec => []SameAccount
<1>0. OAuth!OAuthLoginsAssumption
  BY DEF AccountAssumption
<1>1. AccountInit => OAuthAccounts
  BY <1>0, OAuthInitSpent, OAuthInitAccounts DEF AccountInit, OAuthAccounts
<1>2. OAuthAccounts /\ [AccountNext]_accountVars => OAuthAccounts'
  <2> SUFFICES ASSUME part = "OAuth", OAuthTypeInv /\ OAuthSpentInv /\ OAuthAccountInv,
                      [AccountNext]_accountVars
               PROVE  OAuthTypeInv' /\ OAuthSpentInv' /\ OAuthAccountInv'
    BY DEF AccountNext, accountVars, OAuthAccounts
  <2> QED
    BY <1>0, OAuthStep, OAuthNextType, OAuthNextSpent, OAuthNextAccounts DEF OAuthSpentInv
<1>3. OAuthAccounts => SameAccount
  BY OAuthView DEF OAuthAccounts, SameAccount
<1> QED
  BY <1>1, <1>2, <1>3, PTL DEF AccountSpec

-----------------------------------------------------------------------------
(***************************************************************************)
(* API keys.  A key is stored before it is shown, and nobody is served     *)
(* before a key is stored; the first one is logged by the instance that    *)
(* stored it, or lost with that instance.                                  *)
(***************************************************************************)
KeyTypes ==
    /\ keys \in [KeyAccess!Makers -> {"none", "live", "revoked"}]
    /\ boot \in [Instances -> {"new", "counted", "created", "ready", "failed"}]
    /\ keyStage \in [Requests -> {"new", "handle", "answer", "done", "refused"}]

StoredBeforeShown ==
    /\ shown \subseteq KeyAccess!Stored
    /\ \A i \in Instances : boot[i] = "created" => i \in KeyAccess!Stored
    /\ \A r \in Requests :
           keyStage[r] = "answer" /\ ask[r].kind = "create" => r \in KeyAccess!Stored

StoredBeforeServed ==
    /\ \A i \in Instances : boot[i] = "ready" => KeyAccess!Stored # {}
    /\ \A r \in Requests : keyStage[r] # "new" => KeyAccess!Stored # {}

StoredToBeLogged ==
    KeyAccess!Stored # {} =>
        \/ shown # {}
        \/ \E i \in Instances : i \in KeyAccess!Stored /\ boot[i] \in {"created", "failed"}

KeyInv == KeyTypes /\ StoredBeforeShown /\ StoredBeforeServed /\ StoredToBeLogged

LEMMA KeyBoot ==
    ASSUME KeyInv, NEW i \in Instances,
           KeyAccess!BootMemory(i) \/ KeyAccess!Count(i) \/ KeyAccess!CreateFirst(i)
           \/ KeyAccess!LogFirst(i) \/ KeyAccess!FailBoot(i)
    PROVE  KeyInv'
<1> USE DEF KeyInv, KeyTypes, StoredBeforeShown, StoredBeforeServed, StoredToBeLogged,
            KeyAccess!Stored, KeyAccess!Booting, KeyAccess!Store, KeyAccess!Makers
<1>1. CASE KeyAccess!BootMemory(i)
  BY <1>1 DEF KeyAccess!BootMemory
<1>2. CASE KeyAccess!Count(i)
  BY <1>2 DEF KeyAccess!Count
<1>3. CASE KeyAccess!CreateFirst(i)
  BY <1>3 DEF KeyAccess!CreateFirst
<1>4. CASE KeyAccess!LogFirst(i)
  BY <1>4 DEF KeyAccess!LogFirst
<1>5. CASE KeyAccess!FailBoot(i)
  BY <1>5 DEF KeyAccess!FailBoot
<1> QED
  BY <1>1, <1>2, <1>3, <1>4, <1>5

LEMMA KeyRequest ==
    ASSUME KeyAccess!ApiKeysAssumption, KeyInv, NEW r \in Requests,
           KeyAccess!Authenticate(r) \/ KeyAccess!Create(r) \/ KeyAccess!Revoke(r)
           \/ KeyAccess!Answer(r)
    PROVE  KeyInv'
<1> USE DEF KeyInv, KeyTypes, StoredBeforeShown, StoredBeforeServed, StoredToBeLogged,
            KeyAccess!Stored, KeyAccess!Store, KeyAccess!Makers
<1>1. CASE KeyAccess!Authenticate(r)
  <2>1. /\ KeyAccess!Stored # {} /\ UNCHANGED <<keys, boot, shown>>
        /\ \E q : ask' = [ask EXCEPT ![r] = q]
        /\ \E label \in {"refused", "done", "handle"} :
               keyStage' = [keyStage EXCEPT ![r] = label]
    BY <1>1 DEF KeyAccess!Authenticate
  <2>2. /\ keyStage'[r] # "answer"
        /\ \A d \in Requests \ {r} : keyStage'[d] = keyStage[d]
        /\ keyStage' \in [Requests -> {"new", "handle", "answer", "done", "refused"}]
    BY <2>1
  <2>3. \A d \in Requests \ {r} : ask'[d] = ask[d]
    BY <2>1
  <2> QED
    BY <2>1, <2>2, <2>3
<1>2. CASE KeyAccess!Create(r)
  BY <1>2 DEF KeyAccess!Create
<1>3. CASE KeyAccess!Revoke(r)
  <2>1. /\ keyStage[r] = "handle" /\ ask[r].kind = "revoke"
        /\ keyStage' = [keyStage EXCEPT ![r] = "answer"]
        /\ UNCHANGED <<boot, shown, ask>>
    BY <1>3 DEF KeyAccess!Revoke
  <2>2. keys' \in [KeyAccess!Makers -> {"none", "live", "revoked"}]
    BY <1>3 DEF KeyAccess!Revoke
  <2>3. \A k \in KeyAccess!Makers : keys[k] # "none" => keys'[k] # "none"
    BY <1>3 DEF KeyAccess!Revoke
  <2>4. KeyAccess!Stored \subseteq KeyAccess!Stored'
    BY <2>3
  <2> QED
    BY <2>1, <2>2, <2>4
<1>4. CASE KeyAccess!Answer(r)
  BY <1>4 DEF KeyAccess!Answer
<1> QED
  BY <1>1, <1>2, <1>3, <1>4

\* Every key ever shown is in the store, and an instance that is ready leaves
\* the operators without a key only if the instance that stored it has not logged it yet.
THEOREM AlwaysFirstKeyKnown == ASSUME AccountAssumption PROVE AccountSpec => []FirstKeyKnown
<1> DEFINE Inv == part = "KeyAccess" => KeyInv
<1>1. AccountInit => Inv
  BY DEF AccountInit, KeyAccess!Init, KeyInv, KeyTypes, StoredBeforeShown, StoredBeforeServed,
         StoredToBeLogged, KeyAccess!Stored
<1>2. Inv /\ [AccountNext]_accountVars => Inv'
  <2> SUFFICES ASSUME part = "KeyAccess", KeyInv, [AccountNext]_accountVars PROVE KeyInv'
    BY DEF AccountNext, accountVars
  <2>1. KeyAccess!ApiKeysAssumption
    BY DEF AccountAssumption
  <2>2. CASE AccountNext
    <3>1. KeyAccess!Next
      BY <2>2 DEF AccountNext
    <3> QED
      BY <2>1, <3>1, KeyBoot, KeyRequest DEF KeyAccess!Next
  <2>3. CASE UNCHANGED accountVars
    BY <2>3 DEF accountVars, KeyAccessVars, KeyInv, KeyTypes, StoredBeforeShown, StoredBeforeServed,
                StoredToBeLogged, KeyAccess!Stored
  <2> QED
    BY <2>2, <2>3
<1>3. Inv => FirstKeyKnown
  BY DEF FirstKeyKnown, KeyAccess!FirstKeyKnown, KeyInv, StoredBeforeShown, StoredBeforeServed,
         StoredToBeLogged
<1> QED
  BY <1>1, <1>2, <1>3, PTL DEF AccountSpec

-----------------------------------------------------------------------------
(***************************************************************************)
(* The types of the parts.                                                 *)
(***************************************************************************)
\* Three limiters count a request at most.
LimitShort == \A r \in Clients : Len(uncounted[r]) <= 3

LEMMA LimitKeysOfShort ==
    ASSUME NEW address \in Addresses, NEW subject \in Subjects \cup {None}, NEW auth \in BOOLEAN
    PROVE  Len(Limits!KeysOf(address, subject, auth)) <= 3
<1>1. /\ <<"ip", address>> \in Limits!Keys /\ <<"authrl", address>> \in Limits!Keys
      /\ subject # None => <<"user", subject>> \in Limits!Keys
  BY DEF Limits!Keys
<1> DEFINE a == <<<<"ip", address>>>>
           b == IF subject # None THEN <<<<"user", subject>>>> ELSE <<>>
           c == IF auth THEN <<<<"authrl", address>>>> ELSE <<>>
<1>2. /\ a \in Seq(Limits!Keys) /\ b \in Seq(Limits!Keys) /\ c \in Seq(Limits!Keys)
      /\ Len(a) = 1 /\ Len(b) \in 0..1 /\ Len(c) \in 0..1
  BY <1>1
<1>3. Limits!KeysOf(address, subject, auth) = (a \o b) \o c
  BY DEF Limits!KeysOf
<1> HIDE DEF a, b, c
<1>4. a \o b \in Seq(Limits!Keys) /\ Len(a \o b) = Len(a) + Len(b)
  BY <1>2, ConcatProperties
<1>5. Len((a \o b) \o c) = Len(a \o b) + Len(c)
  BY <1>2, <1>4, ConcatProperties
<1>6. Len((a \o b) \o c) <= 3
  BY <1>2, <1>4, <1>5
<1> QED
  BY <1>3, <1>6

LEMMA LimitKeepsShort ==
    ASSUME LimitTypes, LimitShort, [Limits!Next]_<<now, LimitsVars>> PROVE LimitShort'
<1>1. CASE UNCHANGED uncounted
  BY <1>1 DEF LimitShort
<1>2. CASE \E r \in Clients : uncounted' = [uncounted EXCEPT ![r] = Tail(@)] /\ uncounted[r] # <<>>
  <2>1. PICK r \in Clients : /\ uncounted' = [uncounted EXCEPT ![r] = Tail(@)]
                             /\ uncounted[r] # <<>>
    BY <1>2
  <2>2. uncounted[r] \in Seq(Limits!Keys) /\ Len(uncounted[r]) <= 3
    BY DEF LimitTypes, LimitShort
  <2>3. Len(Tail(uncounted[r])) <= 3
    BY <2>1, <2>2
  <2> QED
    BY <2>1, <2>3 DEF LimitShort, LimitTypes
<1>3. CASE \E r \in Clients : Limits!Arrive(r)
  <2>1. PICK r \in Clients : Limits!Arrive(r)
    BY <1>3
  <2>2. PICK address \in Addresses, subject \in Subjects \cup {None}, auth \in BOOLEAN :
            uncounted' = [uncounted EXCEPT ![r] = Limits!KeysOf(address, subject, auth)]
    BY <2>1 DEF Limits!Arrive
  <2>3. Len(Limits!KeysOf(address, subject, auth)) <= 3
    BY LimitKeysOfShort
  <2> QED
    BY <2>2, <2>3 DEF LimitShort, LimitTypes
<1>4. ASSUME NEW r \in Clients, Limits!Increment(r) \/ Limits!PExpire(r)
      PROVE  \/ UNCHANGED uncounted
             \/ uncounted' = [uncounted EXCEPT ![r] = Tail(@)] /\ uncounted[r] # <<>>
  <2>1. uncounted[r] # <<>>
    BY <1>4 DEF LimitTypes, Limits!Increment, Limits!PExpire
  <2> QED
    BY <1>4, <2>1 DEF Limits!Increment, Limits!PExpire, Limits!Judge
<1>5. CASE Limits!Next
  BY <1>1, <1>2, <1>3, <1>4, <1>5
     DEF Limits!Next, Limits!Tick, Limits!StopBeforeExpiry, Limits!limitOwn
<1>6. CASE UNCHANGED <<now, LimitsVars>>
  BY <1>1, <1>6 DEF LimitsVars
<1> QED
  BY <1>5, <1>6

LEMMA LimitTypeView == ASSUME LimitTypes, LimitShort PROVE Limits!TypeOK
<1>1. ASSUME NEW r \in Clients
      PROVE  uncounted[r] \in UNION {[1..n -> Limits!Keys] : n \in 0..3}
  <2>1. uncounted[r] \in Seq(Limits!Keys) /\ Len(uncounted[r]) <= 3
    BY DEF LimitTypes, LimitShort
  <2>2. uncounted[r] \in [1..Len(uncounted[r]) -> Limits!Keys]
    BY <2>1, LenProperties, Zenon
  <2> DEFINE n == Len(uncounted[r])
  <2>3. n \in Nat
    BY <2>1, LenProperties, Zenon
  <2>4. n <= 3
    BY <2>1
  <2> HIDE DEF n
  <2>5. n \in 0..3
    BY <2>3, <2>4
  <2> QED
    BY <2>2, <2>5, Zenon DEF n
<1>2. uncounted \in [Clients -> UNION {[1..n -> Limits!Keys] : n \in 0..3}]
  BY <1>1 DEF LimitTypes
<1> QED
  BY <1>2 DEF LimitTypes, LimitPasses, Limits!TypeOK

LEMMA KeyTypesKept ==
    ASSUME KeyAccess!TypeOK, KeyAccess!Next PROVE KeyAccess!TypeOK'
<1> USE DEF KeyAccess!TypeOK
<1>1. ASSUME NEW i \in Instances,
             KeyAccess!BootMemory(i) \/ KeyAccess!Count(i) \/ KeyAccess!CreateFirst(i)
             \/ KeyAccess!LogFirst(i) \/ KeyAccess!FailBoot(i)
      PROVE  KeyAccess!TypeOK'
  BY <1>1 DEF KeyAccess!BootMemory, KeyAccess!Count, KeyAccess!CreateFirst, KeyAccess!LogFirst,
              KeyAccess!FailBoot, KeyAccess!Booting, KeyAccess!Store, KeyAccess!Makers
<1>2. ASSUME NEW r \in Requests, KeyAccess!Authenticate(r) PROVE KeyAccess!TypeOK'
  <2>1. PICK kind \in {"use", "create", "revoke"}, key \in shown \cup {None},
             target \in KeyAccess!Stored, bearer \in BOOLEAN :
            KeyAccess!Authenticate(r)!2!(kind, key, target, bearer)
    BY <1>2, Zenon DEF KeyAccess!Authenticate
  <2>2. key \in KeyAccess!Makers \cup {None} /\ target \in KeyAccess!Makers
    BY DEF KeyAccess!Stored
  <2>3. ask' \in [Requests -> {None} \cup [kind : {"use", "create", "revoke"},
                   key : KeyAccess!Makers \cup {None}, target : KeyAccess!Makers,
                   bearer : BOOLEAN]]
    BY <2>1, <2>2
  <2>4. keyStage' \in [Requests -> {"new", "handle", "answer", "done", "refused"}]
    BY <1>2 DEF KeyAccess!Authenticate
  <2> QED
    BY <1>2, <2>3, <2>4 DEF KeyAccess!Authenticate
<1>3. ASSUME NEW r \in Requests,
             KeyAccess!Create(r) \/ KeyAccess!Revoke(r) \/ KeyAccess!Answer(r)
      PROVE  KeyAccess!TypeOK'
  BY <1>3 DEF KeyAccess!Create, KeyAccess!Revoke, KeyAccess!Answer, KeyAccess!Store,
              KeyAccess!Makers
<1> QED
  BY <1>1, <1>2, <1>3 DEF KeyAccess!Next

AccountTypesInv ==
    /\ part = "Limits" => LimitInv /\ LimitShort
    /\ part = "Flows" => FlowTypeInv
    /\ part = "OAuth" => OAuthTypeInv
    /\ part = "KeyAccess" => KeyAccess!TypeOK
    /\ part \notin {"Limits", "Flows", "OAuth"} => now = 0

\* Every variable of the part that is exercised keeps its type.
THEOREM AlwaysAccountTypes == ASSUME AccountAssumption PROVE AccountSpec => []AccountTypeOK
<1>0. /\ Limits!RateLimitsAssumption /\ Flows!AuthFlowsAssumption
      /\ OAuth!OAuthLoginsAssumption /\ KeyAccess!ApiKeysAssumption
  BY DEF AccountAssumption
<1>1. AccountInit => AccountTypesInv
  <2> SUFFICES ASSUME AccountInit PROVE AccountTypesInv
    OBVIOUS
  <2>1. part = "Limits" => LimitInv /\ LimitShort
    BY <1>0, LimitInit DEF AccountInit, Limits!Init, LimitShort
  <2>2. part = "Flows" => FlowTypeInv
    BY <1>0, FlowInit DEF AccountInit
  <2>3. part = "OAuth" => OAuthTypeInv
    BY <1>0, OAuthInitType DEF AccountInit
  <2>4. part = "KeyAccess" => KeyAccess!TypeOK
    BY DEF AccountInit, KeyAccess!Init, KeyAccess!TypeOK
  <2> QED
    BY <2>1, <2>2, <2>3, <2>4 DEF AccountInit, AccountTypesInv
<1>2. AccountTypesInv /\ [AccountNext]_accountVars => AccountTypesInv'
  <2> SUFFICES ASSUME AccountTypesInv, [AccountNext]_accountVars PROVE AccountTypesInv'
    OBVIOUS
  <2>1. part' = part
    BY DEF AccountNext, accountVars
  <2>2. ASSUME part = "Limits" PROVE LimitInv' /\ LimitShort'
    <3>1. LimitInv /\ LimitShort
      BY <2>2 DEF AccountTypesInv
    <3>2. CASE Limits!Next
      BY <1>0, <3>1, <3>2, LimitNext, LimitKeepsShort DEF LimitInv
    <3>3. CASE UNCHANGED accountVars
      BY <3>1, <3>3 DEF accountVars, LimitsVars, LimitInv, LimitTypes, LimitOpeners,
             LimitCounted, LimitWindows, LimitOpened, LimitPending, LimitExpiring, LimitBound,
             LimitShort, Limits!CountersExpire
    <3> QED
      BY <2>2, <3>2, <3>3 DEF AccountNext
  <2>3. ASSUME part = "Flows" PROVE FlowTypeInv'
    <3>1. FlowTypeInv
      BY <2>3 DEF AccountTypesInv
    <3>2. CASE Flows!Next
      BY <1>0, <3>1, <3>2, FlowNextType
    <3>3. CASE UNCHANGED accountVars
      BY <3>1, <3>3 DEF accountVars, FlowsVars, FlowTypeInv, FlowLogins, Flows!TypeOK
    <3> QED
      BY <2>3, <3>2, <3>3 DEF AccountNext
  <2>4. ASSUME part = "OAuth" PROVE OAuthTypeInv'
    BY <1>0, <2>4, OAuthStep, OAuthNextType DEF AccountTypesInv
  <2>5. ASSUME part = "KeyAccess" PROVE KeyAccess!TypeOK'
    <3>1. KeyAccess!TypeOK
      BY <2>5 DEF AccountTypesInv
    <3>2. CASE KeyAccess!Next
      BY <3>1, <3>2, KeyTypesKept
    <3>3. CASE UNCHANGED accountVars
      BY <3>1, <3>3 DEF accountVars, KeyAccessVars, KeyAccess!TypeOK
    <3> QED
      BY <2>5, <3>2, <3>3 DEF AccountNext
  <2>6. ASSUME part \notin {"Limits", "Flows", "OAuth"} PROVE now' = 0
    BY <2>6 DEF AccountTypesInv, AccountNext, accountVars
  <2> QED
    BY <2>1, <2>2, <2>3, <2>4, <2>5, <2>6 DEF AccountTypesInv
<1>3. AccountTypesInv => AccountTypeOK
  <2> SUFFICES ASSUME AccountTypesInv PROVE AccountTypeOK
    OBVIOUS
  <2>1. part = "Limits" => Limits!TypeOK
    BY LimitTypeView DEF AccountTypesInv, LimitInv
  <2>2. part = "Flows" => Flows!TypeOK
    BY DEF AccountTypesInv, FlowTypeInv
  <2>3. part = "OAuth" => OAuth!TypeOK
    BY DEF AccountTypesInv, OAuthTypeInv
  <2>4. now \in Nat
    BY <2>1, <2>2, <2>3 DEF AccountTypesInv, Limits!TypeOK, Flows!TypeOK, OAuth!TypeOK
  <2> QED
    BY <2>1, <2>2, <2>3, <2>4 DEF AccountTypesInv, AccountTypeOK
<1> QED
  BY <1>1, <1>2, <1>3, PTL DEF AccountSpec
=============================================================================
