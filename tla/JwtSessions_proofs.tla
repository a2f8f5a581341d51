-------------------------- MODULE JwtSessions_proofs --------------------------
(***************************************************************************)
(* Proofs about the JWT user system, for any number of requests, accounts, *)
(* addresses and milliseconds, and both kinds of store.                    *)
(***************************************************************************)
EXTENDS JwtSessions, TLAPS

USE SessionsAssumption

-----------------------------------------------------------------------------
(***************************************************************************)
(* Type correctness.  A refresh reads the account of the session it was    *)
(* given, so the types need that only sessions handed out are presented,   *)
(* and that those have an account.                                         *)
(***************************************************************************)
Presents == {"refresh", "logout", "me", "api"}

\* What a request asks fits the step it is at.
KindFits ==
    \A r \in Requests :
        /\ pc[r] = "new" => req[r] = Idle
        /\ pc[r] = "create" => req[r].kind = "register"
        /\ pc[r] \in {"found", "revoke"} => req[r].kind = "refresh"
        /\ pc[r] \in {"mint", "store"} => req[r].kind \in Issues
        /\ pc[r] = "verified" => req[r].kind \in {"logout", "api", "me"}
        /\ pc[r] = "ending" => req[r].kind = "logout"
        /\ pc[r] = "cut" => req[r].kind = "delete"
        /\ result[r] # "none" => pc[r] = "done"

PresentedKnown == \A r \in Requests : req[r].kind \in Presents => req[r].session \in Known

KnownOwned ==
    /\ \A s \in Known : user[s] \in Makers
    /\ \A r \in Requests : pc[r] = "revoke" => user[r] # None

TypeInv == TypeOK /\ KindFits /\ PresentedKnown /\ KnownOwned

\* A session handed out belongs to a request that is done, or is the first one.
LEMMA KnownDone ==
    ASSUME TypeInv, NEW s \in Known
    PROVE  s \in Makers /\ (s = First \/ (s \in Requests /\ pc[s] = "done"))
  BY DEF TypeInv, TypeOK, KindFits, Known, HandedOut, Makers

\* A request changes what belongs to a request in its own row only, and not once it
\* is answered.
LEMMA OwnRow ==
    ASSUME TypeInv, NEW r \in Requests, Handle(r)
    PROVE  /\ pc[r] # "done"
           /\ UNCHANGED <<mode, now>>
           /\ \A q \in Requests \ {r} :
                  /\ pc'[q] = pc[q] /\ req'[q] = req[q]
                  /\ before'[q] = before[q]
           /\ \A s \in Makers \ {r} :
                  user'[s] = user[s] /\ stamp'[s] = stamp[s] /\ result'[s] = result[s]
<1> USE DEF TypeInv, TypeOK, Makers, Begin, At, Goto, Answer, stores, locals
<1>1. CASE LookUpNew(r) \/ CreateUser(r) \/ LookUpLogin(r)
  BY <1>1 DEF LookUpNew, CreateUser, LookUpLogin
<1>2. CASE FindRefreshToken(r) \/ FindOwner(r) \/ RevokeExchanged(r)
  BY <1>2 DEF FindRefreshToken, FindOwner, RevokeExchanged
<1>3. CASE Mint(r) \/ StoreRefreshToken(r)
  BY <1>3 DEF Mint, StoreRefreshToken
<1>4. CASE LogOut(r) \/ RevokeJti(r) \/ RevokeLoggedOut(r)
  BY <1>4 DEF LogOut, RevokeJti, RevokeLoggedOut
<1>5. CASE DeleteUser(r) \/ RevokeUser(r)
  BY <1>5 DEF DeleteUser, RevokeUser
<1>6. CASE PresentToken(r) \/ CallApi(r) \/ Me(r)
  BY <1>6 DEF PresentToken, CallApi, Me
<1> QED
  BY <1>1, <1>2, <1>3, <1>4, <1>5, <1>6 DEF Handle

\* So a session once handed out stays so, with its account and its mint time.
LEMMA KnownStays ==
    ASSUME TypeInv, NEW r \in Requests, Handle(r), NEW s \in Known
    PROVE  s \in Known' /\ user'[s] = user[s] /\ stamp'[s] = stamp[s]
<1>1. s # r /\ s \in Makers
  BY KnownDone, OwnRow DEF Makers
<1>2. result'[s] = result[s] /\ user'[s] = user[s] /\ stamp'[s] = stamp[s]
  BY <1>1, OwnRow
<1>3. s # First => req'[s] = req[s]
  BY <1>1, OwnRow DEF Makers
<1> QED
  BY <1>1, <1>2, <1>3 DEF Known, HandedOut

\* The tokens' claims are numbers, and a revocation writes tokens.
LEMMA ClaimTypes ==
    ASSUME TypeInv, NEW s \in Makers
    PROVE  /\ Iat(s) \in Nat /\ Exp(s) \in Nat /\ Exp(s) * PerSecond \in Nat
           /\ Revoked(s) \in [Makers -> [revoked : BOOLEAN, until : Nat] \cup {None}]
<1>1. stamp[s] \in Nat /\ PerSecond \in Nat \ {0} /\ AccessTtl \in Nat
  BY DEF TypeInv, TypeOK
<1>2. \A n \in Nat, p \in Nat \ {0} : n \div p \in Nat
  OBVIOUS
<1>3. Iat(s) \in Nat
  BY <1>1, <1>2 DEF Iat
<1>4. Exp(s) \in Nat
  BY <1>1, <1>3 DEF Exp
<1>5. \A m, n \in Nat : m * n \in Nat
  OBVIOUS
<1>6. Revoked(s) \in [Makers -> [revoked : BOOLEAN, until : Nat] \cup {None}]
  <2>1. refresh \in [Makers -> [revoked : BOOLEAN, until : Nat] \cup {None}]
    BY DEF TypeInv, TypeOK
  <2>2. CASE refresh[s] = None
    BY <2>1, <2>2 DEF Revoked
  <2>3. CASE refresh[s] # None
    <3>1. refresh[s] \in [revoked : BOOLEAN, until : Nat]
      BY <2>1, <2>3
    <3>2. [refresh[s] EXCEPT !.revoked = TRUE] \in [revoked : BOOLEAN, until : Nat]
      BY <3>1
    <3> QED
      BY <2>1, <2>3, <3>2 DEF Revoked
  <2> QED
    BY <2>2, <2>3
<1> QED
  BY <1>1, <1>3, <1>4, <1>5, <1>6

\* What a request asks names an account, a session or an address.
LEMMA RequestFields ==
    ASSUME TypeInv, NEW r \in Requests
    PROVE  /\ req[r].kind = "register" => req[r].email \in Emails
           /\ req[r].kind \in Presents => req[r].session \in Makers
           /\ req[r].kind = "delete" => req[r].account \in Makers
<1>1. \/ req[r] = Idle
      \/ req[r] \in [kind : {"register", "login"}, email : Emails]
      \/ req[r] \in [kind : {"refresh", "me", "api"}, session : Makers]
      \/ req[r] \in [kind : {"logout"}, session : Makers, access : BOOLEAN, token : BOOLEAN]
      \/ req[r] \in [kind : {"delete"}, account : Makers]
  BY DEF TypeInv, TypeOK
<1> QED
  BY <1>1 DEF Idle, Presents

\* What a request may ask.
Asked ==
    [kind : {"register", "login"}, email : Emails]
    \cup [kind : {"refresh", "me", "api"}, session : Makers]
    \cup [kind : {"logout"}, session : Makers, access : BOOLEAN, token : BOOLEAN]
    \cup [kind : {"delete"}, account : Makers]

LEMMA BeginType ==
    ASSUME TypeOK, NEW r \in Requests, NEW q \in Asked, Begin(r, q)
    PROVE  /\ req' \in [Requests -> {Idle} \cup Asked]
           /\ before' \in [Requests -> SUBSET Requests]
  BY DEF TypeOK, Begin, Asked

\* An answer is given in the request's own row, and nobody comes to issue by it.
LEMMA AnswerType ==
    ASSUME TypeOK, NEW r \in Requests, NEW a \in {"ok", "rejected"}, Answer(r, a)
    PROVE  /\ pc' \in [Requests -> {"new", "create", "found", "revoke", "mint", "store",
                                    "verified", "ending", "cut", "done"}]
           /\ result' \in [Makers -> {"none", "ok", "rejected"}]
           /\ \A q \in Requests :
                  pc'[q] \in {"mint", "store"} => q # r /\ pc[q] \in {"mint", "store"}
  BY DEF TypeOK, Answer, Makers

LEMMA GotoType ==
    ASSUME TypeOK, NEW r \in Requests,
           NEW l \in {"create", "found", "revoke", "mint", "store", "verified", "ending", "cut"},
           Goto(r, l)
    PROVE  /\ pc' \in [Requests -> {"new", "create", "found", "revoke", "mint", "store",
                                    "verified", "ending", "cut", "done"}]
           /\ result' \in [Makers -> {"none", "ok", "rejected"}]
           /\ \A q \in Requests :
                  pc'[q] \in {"mint", "store"} =>
                      IF q = r THEN l \in {"mint", "store"} ELSE pc[q] \in {"mint", "store"}
  BY DEF TypeOK, Goto

\* The step of one request keeps the types.
LEMMA HandleType == ASSUME TypeInv, NEW r \in Requests, Handle(r) PROVE TypeOK'
<1>1. CASE LookUpNew(r)
  <2>1. PICK e \in Emails : LookUpNew(r)!2!(e)
    BY <1>1 DEF LookUpNew
  <2>2. [kind |-> "register", email |-> e] \in Asked
    BY DEF Asked
  <2>3. UNCHANGED <<mode, now, stores, locals>>
    BY <1>1 DEF LookUpNew
  <2> QED
    BY <2>1, <2>2, <2>3, BeginType, AnswerType, GotoType DEF TypeInv, TypeOK, Asked, stores, locals
<1>2. CASE CreateUser(r)
  <2>1. req[r].email \in Emails /\ r \in Makers /\ TypeOK
    BY <1>2, RequestFields DEF CreateUser, At, Makers, TypeInv
  <2>2. /\ emailOf' \in [Makers -> Emails \cup {None}]
        /\ index' \in [Emails -> Makers \cup {None}]
        /\ user' \in [Makers -> Makers \cup {None}]
        /\ UNCHANGED <<mode, now, refresh, jtis, cutoffs, req, stamp, before>>
    BY <1>2, <2>1 DEF CreateUser, TypeOK
  <2>3. CASE Answer(r, "rejected") /\ UNCHANGED user
    BY <2>1, <2>2, <2>3, AnswerType DEF TypeOK
  <2>4. CASE Goto(r, "mint") /\ user' = [user EXCEPT ![r] = r]
    <3>1. \A q \in Requests : pc'[q] \in {"mint", "store"} => user'[q] # None
      BY <2>1, <2>4, GotoType DEF TypeOK, Makers
    <3> QED
      BY <2>1, <2>2, <2>4, <3>1, GotoType DEF TypeOK
  <2> QED
    BY <1>2, <2>3, <2>4 DEF CreateUser
<1>3. CASE LookUpLogin(r)
  <2>1. PICK e \in Emails, right \in BOOLEAN : LookUpLogin(r)!2!(e, right)
    BY <1>3 DEF LookUpLogin
  <2>2. /\ TypeOK /\ [kind |-> "login", email |-> e] \in Asked
        /\ FindByEmail(e) \in Makers \cup {None} /\ r \in Makers
    BY DEF Asked, FindByEmail, TypeInv, TypeOK, Makers
  <2>3. UNCHANGED <<mode, now, stores, stamp>>
    BY <1>3 DEF LookUpLogin
  <2>4. CASE Answer(r, "rejected") /\ UNCHANGED user
    BY <2>1, <2>2, <2>3, <2>4, BeginType, AnswerType DEF TypeOK, Asked, stores
  <2>5. CASE /\ Goto(r, "mint") /\ FindByEmail(e) # None
             /\ user' = [user EXCEPT ![r] = FindByEmail(e)]
    <3>1. /\ user' \in [Makers -> Makers \cup {None}]
          /\ \A q \in Requests : pc'[q] \in {"mint", "store"} => user'[q] # None
      BY <2>2, <2>5, GotoType DEF TypeOK, Makers
    <3> QED
      BY <2>1, <2>2, <2>3, <2>5, <3>1, BeginType, GotoType DEF TypeOK, Asked, stores
  <2> QED
    BY <2>1, <2>4, <2>5 DEF Credentials
<1> USE DEF TypeOK, Makers, Begin, At, Goto, Answer, stores, locals
<1>4. CASE FindRefreshToken(r)
  BY <1>4 DEF FindRefreshToken, Known, TypeInv
<1>5. CASE FindOwner(r)
  BY <1>5 DEF FindOwner, TypeInv, PresentedKnown, KnownOwned, Presents
<1>6. CASE RevokeExchanged(r)
  <2>1. refresh' \in [Makers -> [revoked : BOOLEAN, until : Nat] \cup {None}]
    BY <1>6, RequestFields, ClaimTypes DEF RevokeExchanged, Presents
  <2>2. user[r] # None
    BY <1>6 DEF RevokeExchanged, TypeInv, KnownOwned
  <2> QED
    BY <1>6, <2>1, <2>2 DEF RevokeExchanged, TypeInv
<1>7. CASE Mint(r)
  BY <1>7 DEF Mint, TypeInv
<1>14. CASE StoreRefreshToken(r)
  <2>1. [revoked |-> FALSE, until |-> now + RefreshTtl] \in [revoked : BOOLEAN, until : Nat]
    BY DEF TypeInv
  <2>2. refresh' \in [Makers -> [revoked : BOOLEAN, until : Nat] \cup {None}]
    <3>1. \A t \in [revoked : BOOLEAN, until : Nat] :
              [refresh EXCEPT ![r] = t] \in [Makers -> [revoked : BOOLEAN, until : Nat] \cup {None}]
      BY DEF TypeInv
    <3> HIDE DEF TypeOK, Makers, Begin, At, Goto, Answer, stores, locals
    <3>2. refresh \in [Makers -> [revoked : BOOLEAN, until : Nat] \cup {None}]
      BY DEF TypeInv, TypeOK
    <3> QED
      BY <1>14, <2>1, <3>1, <3>2 DEF StoreRefreshToken
  <2>3. result' \in [Makers -> {"none", "ok", "rejected"}]
    BY <1>14 DEF StoreRefreshToken, TypeInv
  <2>4. pc' = [pc EXCEPT ![r] = "done"] /\ UNCHANGED <<mode, now, emailOf, index, jtis, cutoffs,
                                                       req, user, stamp, before>>
    BY <1>14 DEF StoreRefreshToken
  <2> QED
    BY <2>2, <2>3, <2>4 DEF TypeInv
<1>8. CASE RevokeJti(r)
  BY <1>8, RequestFields, ClaimTypes DEF RevokeJti, Presents, TypeInv
<1>9. CASE RevokeLoggedOut(r)
  <2>1. refresh' \in [Makers -> [revoked : BOOLEAN, until : Nat] \cup {None}]
    BY <1>9, RequestFields, ClaimTypes DEF RevokeLoggedOut, Presents, TypeInv
  <2> QED
    BY <1>9, <2>1 DEF RevokeLoggedOut, TypeInv
<1>10. CASE DeleteUser(r)
  <2> HIDE DEF TypeOK, Begin, Goto, Answer
  <2>1. PICK a \in {user[s] : s \in Known} : DeleteUser(r)!2!(a)
    BY <1>10 DEF DeleteUser
  <2>2. /\ TypeOK /\ a \in Makers
        /\ [kind |-> "delete", account |-> a] \in Asked
    BY DEF TypeInv, KnownOwned, Asked
  <2>3. TokensLeft(a) \in [Makers -> [revoked : BOOLEAN, until : Nat] \cup {None}]
    BY <2>2 DEF TokensLeft, TypeOK
  <2>4. UNCHANGED <<mode, now, jtis, cutoffs, locals>>
    BY <1>10 DEF DeleteUser
  <2>5. CASE Answer(r, "rejected") /\ UNCHANGED <<emailOf, index, refresh>>
    BY <2>1, <2>2, <2>4, <2>5, BeginType, AnswerType DEF TypeOK, Asked
  <2>6. CASE /\ emailOf' = [emailOf EXCEPT ![a] = None]
             /\ index' = [e \in Emails |-> IF e = emailOf[a] THEN None ELSE index[e]]
             /\ refresh' = TokensLeft(a)
             /\ Goto(r, "cut")
    <3>1. /\ emailOf' \in [Makers -> Emails \cup {None}]
          /\ index' \in [Emails -> Makers \cup {None}]
      BY <2>2, <2>6 DEF TypeOK
    <3> QED
      BY <2>1, <2>2, <2>3, <2>4, <2>6, <3>1, BeginType, GotoType DEF TypeOK, Asked
  <2> QED
    BY <2>1, <2>5, <2>6
<1>11. CASE RevokeUser(r)
  <2>1. req[r].account \in Makers
    BY <1>11, RequestFields DEF RevokeUser
  <2>2. CutOff(req[r].account) \in [at : Nat, until : Nat]
    <3>1. \A k, m, n \in Nat : k + m * n \in Nat
      OBVIOUS
    <3>2. now \in Nat /\ AccessTtl \in Nat /\ PerSecond \in Nat
      BY DEF TypeInv
    <3>3. now + AccessTtl * PerSecond \in Nat
      BY <3>1, <3>2, Zenon
    <3>4. \A m, n \in Nat : [at |-> m, until |-> n] \in [at : Nat, until : Nat]
      OBVIOUS
    <3> QED
      BY <3>2, <3>3, <3>4, Zenon DEF CutOff
  <2>3. cutoffs' \in [Makers -> [at : Nat, until : Nat] \cup {None}]
    BY <1>11, <2>1, <2>2 DEF RevokeUser, TypeInv
  <2> QED
    BY <1>11, <2>3 DEF RevokeUser, TypeInv
<1>12. CASE CallApi(r)
  <2>1. TypeOK /\ req[r].session \in Makers /\ r \in Makers
    BY <1>12, RequestFields DEF CallApi, Presents, TypeInv
  <2>2. /\ jtis' \in [Makers -> Nat]
        /\ cutoffs' \in [Makers -> [at : Nat, until : Nat] \cup {None}]
    BY <1>12, <2>1 DEF CallApi, Prune
  <2> QED
    BY <1>12, <2>1, <2>2 DEF CallApi
<1>13. CASE Me(r)
  BY <1>13 DEF Me, TypeInv
<1>15. CASE LogOut(r)
  BY <1>15 DEF LogOut, Known, TypeInv
<1>16. CASE PresentToken(r)
  BY <1>16 DEF PresentToken, Known, TypeInv
<1> QED
  BY <1>1, <1>2, <1>3, <1>4, <1>5, <1>6, <1>7, <1>8, <1>9, <1>10, <1>11, <1>12, <1>13, <1>14,
     <1>15, <1>16
  DEF Handle

\* The step of one request takes it to a step that fits what it asks.
LEMMA HandleKind == ASSUME TypeInv, NEW r \in Requests, Handle(r) PROVE KindFits'
<1> DEFINE Fits(q) ==
        /\ pc[q] = "new" => req[q] = Idle
        /\ pc[q] = "create" => req[q].kind = "register"
        /\ pc[q] \in {"found", "revoke"} => req[q].kind = "refresh"
        /\ pc[q] \in {"mint", "store"} => req[q].kind \in Issues
        /\ pc[q] = "verified" => req[q].kind \in {"logout", "api", "me"}
        /\ pc[q] = "ending" => req[q].kind = "logout"
        /\ pc[q] = "cut" => req[q].kind = "delete"
        /\ result[q] # "none" => pc[q] = "done"
<1>1. \A q \in Requests \ {r} : Fits(q)'
  BY OwnRow DEF TypeInv, KindFits, Makers
<1>2. /\ Fits(r)
      /\ DOMAIN pc = Requests /\ DOMAIN req = Requests /\ DOMAIN result = Makers /\ r \in Makers
  BY DEF TypeInv, TypeOK, KindFits, Makers
<1>3. Fits(r)'
  <2> USE <1>2 DEF Issues, Idle, Begin, At, Goto, Answer, stores, locals
  <2>1. CASE LookUpNew(r) \/ CreateUser(r) \/ LookUpLogin(r)
    BY <2>1 DEF LookUpNew, CreateUser, LookUpLogin
  <2>2. CASE FindRefreshToken(r) \/ FindOwner(r) \/ RevokeExchanged(r)
    BY <2>2 DEF FindRefreshToken, FindOwner, RevokeExchanged
  <2>3. CASE Mint(r) \/ StoreRefreshToken(r)
    BY <2>3 DEF Mint, StoreRefreshToken
  <2>4. CASE LogOut(r) \/ RevokeJti(r) \/ RevokeLoggedOut(r)
    BY <2>4 DEF LogOut, RevokeJti, RevokeLoggedOut
  <2>5. CASE DeleteUser(r) \/ RevokeUser(r)
    BY <2>5 DEF DeleteUser, RevokeUser
  <2>6. CASE PresentToken(r) \/ CallApi(r) \/ Me(r)
    BY <2>6 DEF PresentToken, CallApi, Me
  <2> QED
    BY <2>1, <2>2, <2>3, <2>4, <2>5, <2>6 DEF Handle
<1> QED
  BY <1>1, <1>3 DEF KindFits

\* A session is handed out by the step that stores its refresh token, and no other.
LEMMA NewlyKnown ==
    ASSUME TypeInv, NEW r \in Requests, Handle(r), NEW s \in Known', s \notin Known
    PROVE  s = r /\ StoreRefreshToken(r)
<1>1. s \in Makers /\ result'[s] = "ok" /\ (s # First => req'[s].kind \in Issues)
  BY DEF Known, HandedOut
<1>2. s = r
  <2>1. SUFFICES ASSUME s # r PROVE s \in Known
    OBVIOUS
  <2>2. result[s] = "ok" /\ (s # First => req[s].kind \in Issues)
    BY <1>1, <2>1, OwnRow DEF Makers
  <2> QED
    BY <1>1, <2>2 DEF Known, HandedOut
<1>3. /\ r # First /\ req'[r].kind \in Issues /\ result'[r] = "ok" /\ r \in Makers
      /\ DOMAIN req = Requests /\ DOMAIN result = Makers
      /\ pc[r] # "done" /\ (result[r] # "none" => pc[r] = "done")
  BY <1>1, <1>2, OwnRow DEF TypeInv, TypeOK, KindFits, Makers
<1> USE <1>3 DEF Issues, Begin, At, Goto, Answer
<1>4. ~LookUpNew(r) /\ ~CreateUser(r) /\ ~LookUpLogin(r)
  BY DEF LookUpNew, CreateUser, LookUpLogin
<1>5. ~FindRefreshToken(r) /\ ~FindOwner(r) /\ ~RevokeExchanged(r) /\ ~Mint(r)
  BY DEF FindRefreshToken, FindOwner, RevokeExchanged, Mint
<1>6. ~LogOut(r) /\ ~RevokeJti(r) /\ ~RevokeLoggedOut(r) /\ ~DeleteUser(r) /\ ~RevokeUser(r)
  BY DEF LogOut, RevokeJti, RevokeLoggedOut, DeleteUser, RevokeUser
<1>7. ~PresentToken(r) /\ ~CallApi(r) /\ ~Me(r)
  BY DEF PresentToken, CallApi, Me
<1> QED
  BY <1>2, <1>4, <1>5, <1>6, <1>7 DEF Handle

\* A request presents the session it began with, which had been handed out.
LEMMA PresentedThen ==
    ASSUME TypeInv, NEW r \in Requests, Handle(r), req'[r].kind \in Presents
    PROVE  req'[r].session \in Known
<1>1. DOMAIN req = Requests /\ (req[r].kind \in Presents => req[r].session \in Known)
  BY DEF TypeInv, TypeOK, PresentedKnown
<1> USE <1>1 DEF Presents, Begin
<1>2. CASE LookUpNew(r) \/ CreateUser(r) \/ LookUpLogin(r)
  BY <1>2 DEF LookUpNew, CreateUser, LookUpLogin
<1>3. CASE FindRefreshToken(r) \/ FindOwner(r) \/ RevokeExchanged(r)
  BY <1>3 DEF FindRefreshToken, FindOwner, RevokeExchanged
<1>4. CASE Mint(r) \/ StoreRefreshToken(r)
  BY <1>4 DEF Mint, StoreRefreshToken
<1>5. CASE LogOut(r) \/ RevokeJti(r) \/ RevokeLoggedOut(r)
  BY <1>5 DEF LogOut, RevokeJti, RevokeLoggedOut
<1>6. CASE DeleteUser(r) \/ RevokeUser(r)
  BY <1>6 DEF DeleteUser, RevokeUser
<1>7. CASE PresentToken(r) \/ CallApi(r) \/ Me(r)
  BY <1>7 DEF PresentToken, CallApi, Me
<1> QED
  BY <1>2, <1>3, <1>4, <1>5, <1>6, <1>7 DEF Handle

LEMMA HandleKnown ==
    ASSUME TypeInv, NEW r \in Requests, Handle(r) PROVE PresentedKnown' /\ KnownOwned'
<1>1. PresentedKnown'
  <2> SUFFICES ASSUME NEW q \in Requests, req'[q].kind \in Presents
               PROVE  req'[q].session \in Known'
    BY DEF PresentedKnown
  <2>1. req'[q].session \in Known
    <3>1. CASE q = r
      BY <3>1, PresentedThen
    <3>2. CASE q # r
      BY <3>2, OwnRow DEF TypeInv, PresentedKnown
    <3> QED
      BY <3>1, <3>2
  <2> QED
    BY <2>1, KnownStays
<1>2. ASSUME NEW s \in Known' PROVE user'[s] \in Makers
  <2>1. CASE s \in Known
    BY <2>1, KnownStays DEF TypeInv, KnownOwned
  <2>2. CASE s \notin Known
    <3>1. s = r /\ StoreRefreshToken(r)
      BY <2>2, NewlyKnown
    <3>2. user'[r] = user[r] /\ user[r] # None /\ user[r] \in Makers \cup {None}
      BY <3>1 DEF StoreRefreshToken, At, locals, TypeInv, TypeOK, Makers
    <3> QED
      BY <3>1, <3>2
  <2> QED
    BY <2>1, <2>2
<1>3. ASSUME NEW q \in Requests, pc'[q] = "revoke" PROVE user'[q] # None
  <2>1. CASE q # r
    BY <1>3, <2>1, OwnRow DEF TypeInv, KnownOwned, Makers
  <2>2. CASE q = r
    <3>1. FindOwner(r)
      <4>1. DOMAIN pc = Requests /\ pc'[r] = "revoke"
        BY <1>3, <2>2 DEF TypeInv, TypeOK
      <4> USE <4>1 DEF Goto, Answer, At, Begin
      <4>2. ~LookUpNew(r) /\ ~CreateUser(r) /\ ~LookUpLogin(r)
        BY DEF LookUpNew, CreateUser, LookUpLogin
      <4>3. ~FindRefreshToken(r) /\ ~RevokeExchanged(r) /\ ~Mint(r) /\ ~StoreRefreshToken(r)
        BY DEF FindRefreshToken, RevokeExchanged, Mint, StoreRefreshToken
      <4>4. ~LogOut(r) /\ ~RevokeJti(r) /\ ~RevokeLoggedOut(r) /\ ~DeleteUser(r) /\ ~RevokeUser(r)
        BY DEF LogOut, RevokeJti, RevokeLoggedOut, DeleteUser, RevokeUser
      <4>5. ~PresentToken(r) /\ ~CallApi(r) /\ ~Me(r)
        BY DEF PresentToken, CallApi, Me
      <4> QED
        BY <4>2, <4>3, <4>4, <4>5 DEF Handle
    <3>2. req[r].session \in Known /\ user[req[r].session] \in Makers
      BY <3>1 DEF FindOwner, At, Presents, TypeInv, PresentedKnown, KnownOwned
    <3>3. user'[r] = user[req[r].session] \/ pc'[r] = "done"
      BY <3>1 DEF FindOwner, Goto, Answer, TypeInv, TypeOK, Makers
    <3> QED
      BY <1>3, <2>2, <3>2, <3>3
  <2> QED
    BY <2>1, <2>2
<1> QED
  BY <1>1, <1>2, <1>3 DEF KnownOwned

LEMMA NextType == TypeInv /\ [Next]_vars => TypeInv'
<1> SUFFICES ASSUME TypeInv, [Next]_vars PROVE TypeInv'
  OBVIOUS
<1>1. ASSUME NEW r \in Requests, Handle(r) PROVE TypeInv'
  BY <1>1, HandleType, HandleKind, HandleKnown DEF TypeInv
<1>2. CASE Tick
  BY <1>2 DEF Tick, TypeInv, TypeOK, KindFits, PresentedKnown, KnownOwned, Known, HandedOut,
              stores, locals
<1>3. CASE UNCHANGED vars
  BY <1>3 DEF vars, TypeInv, TypeOK, KindFits, PresentedKnown, KnownOwned, Known, HandedOut,
              stores, locals
<1> QED
  BY <1>1, <1>2, <1>3 DEF Next

LEMMA InitType == Init => TypeInv
<1> SUFFICES ASSUME Init PROVE TypeInv
  OBVIOUS
<1>1. TypeOK
  BY DEF Init, TypeOK, Makers
<1>2. KindFits /\ PresentedKnown
  BY DEF Init, KindFits, PresentedKnown, Presents, Idle, Makers
<1>3. KnownOwned
  BY DEF Init, KnownOwned, Known, HandedOut, Issues, Idle, Makers
<1> QED
  BY <1>1, <1>2, <1>3 DEF TypeInv

\* The stores and the requests are always well typed: in particular a request that
\* issues tokens knows whose they are, and nobody presents a token nobody was given.
THEOREM TypeCorrect == Spec => [](TypeOK /\ PresentedKnown)
<1>1. TypeInv => TypeOK /\ PresentedKnown
  BY DEF TypeInv
<1> QED
  BY <1>1, InitType, NextType, PTL DEF Spec

-----------------------------------------------------------------------------
(***************************************************************************)
(* The database stays consistent.  That two accounts never share an        *)
(* address needs the unique index to hold every account; that a refresh    *)
(* token has its user needs that the account of whoever stored one is      *)
(* settled, so that no later lookup changes it.                            *)
(***************************************************************************)
Indexed == \A a \in Makers : Exists(a) => index[emailOf[a]] = a

TokensSettled ==
    \A s \in Makers :
        refresh[s] # None =>
            /\ s = First \/ (s \in Requests /\ pc[s] = "done")
            /\ user[s] \in Makers /\ Exists(user[s])

DatabaseInv == mode = "database" => Indexed /\ TokensSettled

\* Revoking a token brings none into being.
LEMMA RevokedOnly ==
    ASSUME TypeInv, NEW s \in Makers, NEW t \in Makers, Revoked(s)[t] # None
    PROVE  refresh[t] # None
  BY DEF Revoked, TypeInv, TypeOK

LEMMA HandleDatabase ==
    ASSUME TypeInv, DatabaseInv, mode = "database", NEW r \in Requests, Handle(r)
    PROVE  Indexed' /\ TokensSettled'
<1>1. /\ Indexed /\ TokensSettled /\ mode' = mode
      /\ None \notin Emails /\ None \notin Makers /\ r \in Makers /\ r # First
      /\ emailOf \in [Makers -> Emails \cup {None}]
      /\ index \in [Emails -> Makers \cup {None}]
      /\ DOMAIN refresh = Makers
  BY OwnRow DEF DatabaseInv, TypeInv, TypeOK, Makers
\* Who holds a token is not the one who steps.
<1>2. \A s \in Makers : refresh[s] # None =>
          /\ user'[s] = user[s]
          /\ s = First \/ (s \in Requests /\ pc'[s] = "done")
  BY <1>1, OwnRow DEF TokensSettled, Makers
<1>3. ASSUME UNCHANGED <<emailOf, index>>,
             \A s \in Makers : refresh'[s] # None => refresh[s] # None
      PROVE  Indexed' /\ TokensSettled'
  BY <1>1, <1>2, <1>3 DEF Indexed, TokensSettled, Exists
<1>4. CASE LookUpNew(r) \/ LookUpLogin(r) \/ FindRefreshToken(r) \/ FindOwner(r) \/ Mint(r)
           \/ LogOut(r) \/ RevokeJti(r) \/ RevokeUser(r)
           \/ PresentToken(r) \/ CallApi(r) \/ Me(r)
  BY <1>3, <1>4 DEF LookUpNew, LookUpLogin, FindRefreshToken, FindOwner, Mint, LogOut,
                    RevokeJti, RevokeUser, PresentToken, CallApi, Me, stores
<1>5. CASE RevokeExchanged(r) \/ RevokeLoggedOut(r)
  <2>1. req[r].session \in Makers
    BY <1>5, RequestFields DEF RevokeExchanged, RevokeLoggedOut, At, Presents
  <2>2. UNCHANGED <<emailOf, index>> /\ (refresh' = Revoked(req[r].session) \/ refresh' = refresh)
    BY <1>5 DEF RevokeExchanged, RevokeLoggedOut
  <2> QED
    BY <1>3, <2>1, <2>2, RevokedOnly
<1>6. CASE CreateUser(r)
  <2>1. CASE index[req[r].email] # None
    BY <1>3, <1>6, <2>1 DEF CreateUser
  <2>2. CASE index[req[r].email] = None
    <3> DEFINE e == req[r].email
    <3>1. /\ e \in Emails
          /\ emailOf' = [emailOf EXCEPT ![r] = e]
          /\ index' = [index EXCEPT ![e] = r]
          /\ UNCHANGED refresh
      BY <1>6, <2>2, RequestFields DEF CreateUser, At
    <3>2. \A a \in Makers : Exists(a) => emailOf[a] # e
      BY <1>1, <2>2 DEF Indexed
    <3>3. Indexed'
      BY <1>1, <3>1, <3>2 DEF Indexed, Exists
    <3>4. TokensSettled'
      BY <1>1, <1>2, <3>1 DEF TokensSettled, Exists
    <3> QED
      BY <3>3, <3>4
  <2> QED
    BY <2>1, <2>2
<1>7. CASE StoreRefreshToken(r)
  <2>1. user[r] \in Makers /\ DOMAIN pc = Requests
    BY <1>7 DEF StoreRefreshToken, At, TypeInv, TypeOK, Makers
  <2>2. CASE ~Exists(user[r])
    BY <1>3, <1>7, <2>2 DEF StoreRefreshToken
  <2>3. CASE Exists(user[r])
    <3>1. /\ UNCHANGED <<emailOf, index, user>> /\ pc'[r] = "done"
          /\ \A s \in Makers \ {r} : refresh'[s] = refresh[s]
      BY <1>1, <1>7, <2>1, <2>3 DEF StoreRefreshToken, Answer, locals
    <3>2. Indexed'
      BY <1>1, <3>1 DEF Indexed, Exists
    <3>3. TokensSettled'
      BY <1>1, <1>2, <2>1, <2>3, <3>1 DEF TokensSettled, Exists
    <3> QED
      BY <3>2, <3>3
  <2> QED
    BY <2>2, <2>3
<1>8. CASE DeleteUser(r)
  <2>1. PICK a \in {user[s] : s \in Known} : DeleteUser(r)!2!(a)
    BY <1>8 DEF DeleteUser
  <2>2. a \in Makers
    BY DEF TypeInv, KnownOwned
  <2>3. CASE ~Exists(a)
    BY <1>3, <2>1, <2>3
  <2>4. CASE Exists(a)
    <3>1. /\ emailOf' = [emailOf EXCEPT ![a] = None]
          /\ index' = [e \in Emails |-> IF e = emailOf[a] THEN None ELSE index[e]]
          /\ refresh' = [s \in Makers |-> IF user[s] = a THEN None ELSE refresh[s]]
      BY <2>1, <2>4 DEF TokensLeft
    <3>2. \A b \in Makers \ {a} : Exists(b) => emailOf[b] # emailOf[a]
      BY <1>1, <2>2, <2>4 DEF Indexed
    <3>3. Indexed'
      BY <1>1, <2>2, <3>1, <3>2 DEF Indexed, Exists
    <3>4. TokensSettled'
      BY <1>1, <1>2, <2>2, <3>1 DEF TokensSettled, Exists
    <3> QED
      BY <3>3, <3>4
  <2> QED
    BY <2>3, <2>4
<1> QED
  BY <1>4, <1>5, <1>6, <1>7, <1>8 DEF Handle

\* In the database two accounts never have one address, and every refresh token has a
\* user who exists, however registrations, logins, refreshes and deletions interleave.
THEOREM DatabaseStaysConsistent == Spec => []DatabaseConsistent
<1>1. TypeInv /\ DatabaseInv => DatabaseConsistent
  BY DEF DatabaseInv, DatabaseConsistent, Indexed, TokensSettled
<1>2. Init => DatabaseInv
  BY DEF Init, DatabaseInv, Indexed, TokensSettled, Exists, Makers
<1>3. TypeInv /\ DatabaseInv /\ [Next]_vars => DatabaseInv'
  <2> SUFFICES ASSUME TypeInv, DatabaseInv, [Next]_vars PROVE DatabaseInv'
    OBVIOUS
  <2>1. ASSUME NEW r \in Requests, Handle(r) PROVE DatabaseInv'
    BY <2>1, HandleDatabase, OwnRow DEF DatabaseInv
  <2>2. CASE Tick \/ UNCHANGED vars
    BY <2>2 DEF Tick, vars, stores, locals, DatabaseInv, Indexed, TokensSettled, Exists
  <2> QED
    BY <2>1, <2>2 DEF Next
<1> QED
  BY <1>1, <1>2, <1>3, InitType, NextType, PTL DEF Spec

-----------------------------------------------------------------------------
(***************************************************************************)
(* What came before.  The remaining theorems compare a request with one    *)
(* that had been answered when it began, and that no step changes since.   *)
(***************************************************************************)
BeforeDone == \A r \in Requests : \A d \in before[r] : pc[d] = "done"

\* A request asks one thing, from its first step on.
LEMMA AskedOnce ==
    ASSUME TypeInv, NEW r \in Requests, Handle(r)
    PROVE  \/ pc[r] = "new" /\ before'[r] = {d \in Requests : pc[d] = "done"}
           \/ pc[r] # "new" /\ req'[r] = req[r] /\ before'[r] = before[r]
<1>1. DOMAIN req = Requests /\ DOMAIN before = Requests
  BY DEF TypeInv, TypeOK
<1> USE <1>1 DEF Begin, At
<1>2. CASE LookUpNew(r) \/ CreateUser(r) \/ LookUpLogin(r)
  BY <1>2 DEF LookUpNew, CreateUser, LookUpLogin
<1>3. CASE FindRefreshToken(r) \/ FindOwner(r) \/ RevokeExchanged(r)
  BY <1>3 DEF FindRefreshToken, FindOwner, RevokeExchanged
<1>4. CASE Mint(r) \/ StoreRefreshToken(r)
  BY <1>4 DEF Mint, StoreRefreshToken
<1>5. CASE LogOut(r) \/ RevokeJti(r) \/ RevokeLoggedOut(r)
  BY <1>5 DEF LogOut, RevokeJti, RevokeLoggedOut
<1>6. CASE DeleteUser(r) \/ RevokeUser(r)
  BY <1>6 DEF DeleteUser, RevokeUser
<1>7. CASE PresentToken(r) \/ CallApi(r) \/ Me(r)
  BY <1>7 DEF PresentToken, CallApi, Me
<1> QED
  BY <1>2, <1>3, <1>4, <1>5, <1>6, <1>7 DEF Handle

LEMMA EarlierStays ==
    ASSUME TypeInv, BeforeDone, NEW q \in Requests, Handle(q),
           NEW r \in Requests, NEW d \in before'[r]
    PROVE  /\ d \in Requests /\ d # q /\ pc[d] = "done" /\ pc'[d] = "done"
           /\ req'[d] = req[d] /\ result'[d] = result[d]
           /\ r # q \/ pc[q] # "new" => d \in before[r] /\ req'[r] = req[r]
<1>1. pc[d] = "done" /\ d \in Requests
  <2>1. CASE r # q \/ pc[q] # "new"
    BY <2>1, AskedOnce, OwnRow DEF BeforeDone, TypeInv, TypeOK
  <2>2. CASE r = q /\ pc[q] = "new"
    BY <2>2, AskedOnce
  <2> QED
    BY <2>1, <2>2
<1>2. d # q
  BY <1>1, OwnRow
<1> QED
  BY <1>1, <1>2, AskedOnce, OwnRow DEF Makers

LEMMA NextBefore == TypeInv /\ BeforeDone /\ [Next]_vars => BeforeDone'
<1> SUFFICES ASSUME TypeInv, BeforeDone, [Next]_vars PROVE BeforeDone'
  OBVIOUS
<1>1. ASSUME NEW q \in Requests, Handle(q) PROVE BeforeDone'
  BY <1>1, EarlierStays DEF BeforeDone
<1>2. CASE Tick \/ UNCHANGED vars
  BY <1>2 DEF Tick, vars, BeforeDone
<1> QED
  BY <1>1, <1>2 DEF Next

-----------------------------------------------------------------------------
(***************************************************************************)
(* A refresh token that was exchanged or logged out stays revoked or is    *)
(* gone: only the request that made a session stores its token, and that   *)
(* request was done before the session was handed out.                     *)
(***************************************************************************)
Spent(s) == refresh[s] # None => refresh[s].revoked

\* d has used up the refresh token it was given.
UsedUp(d) ==
    \/ req[d].kind = "refresh" /\ (pc[d] \in {"mint", "store"} \/ result[d] = "ok")
    \/ req[d].kind = "logout" /\ req[d].token /\ result[d] = "ok"

UsedUpSpent == \A d \in Requests : UsedUp(d) => Spent(req[d].session)

LaterRefused ==
    \A d, r \in Requests :
        /\ d \in before[r] /\ UsedUp(d)
        /\ req[r].kind = "refresh" /\ req[r].session = req[d].session
        => pc[r] = "done" /\ result[r] = "rejected"

SpentInv == BeforeDone /\ UsedUpSpent /\ LaterRefused

LEMMA RevokedSpent ==
    ASSUME TypeInv, NEW s \in Makers, NEW t \in Makers, Revoked(s)[t] # None,
           t = s \/ Spent(t)
    PROVE  Revoked(s)[t].revoked
<1>1. refresh \in [Makers -> [revoked : BOOLEAN, until : Nat] \cup {None}]
  BY DEF TypeInv, TypeOK
<1>2. CASE refresh[s] = None
  BY <1>1, <1>2 DEF Revoked, Spent
<1>3. CASE refresh[s] # None
  <2>1. refresh[s] \in [revoked : BOOLEAN, until : Nat]
    BY <1>1, <1>3
  <2>2. [refresh[s] EXCEPT !.revoked = TRUE].revoked = TRUE
    BY <2>1
  <2> QED
    BY <1>1, <1>3, <2>2 DEF Revoked, Spent
<1> QED
  BY <1>2, <1>3

\* No step makes a spent token usable.
LEMMA SpentStays ==
    ASSUME TypeInv, NEW r \in Requests, Handle(r), NEW s \in Known, Spent(s)
    PROVE  Spent(s)'
<1>1. s \in Makers /\ s # r /\ DOMAIN refresh = Makers
  BY KnownDone, OwnRow DEF TypeInv, TypeOK
<1> USE DEF Spent
<1>2. CASE LookUpNew(r) \/ CreateUser(r) \/ LookUpLogin(r) \/ FindRefreshToken(r)
           \/ FindOwner(r) \/ Mint(r) \/ LogOut(r) \/ RevokeJti(r) \/ RevokeUser(r)
           \/ PresentToken(r) \/ CallApi(r) \/ Me(r)
  BY <1>2 DEF LookUpNew, CreateUser, LookUpLogin, FindRefreshToken, FindOwner, Mint,
              LogOut, RevokeJti, RevokeUser, PresentToken, CallApi, Me, stores
<1>3. CASE RevokeExchanged(r) \/ RevokeLoggedOut(r)
  <2>1. req[r].session \in Makers
    BY <1>3, RequestFields DEF RevokeExchanged, RevokeLoggedOut, At, Presents
  <2>2. refresh' = Revoked(req[r].session) \/ refresh' = refresh
    BY <1>3 DEF RevokeExchanged, RevokeLoggedOut
  <2> QED
    BY <1>1, <2>1, <2>2, RevokedSpent
<1>4. CASE StoreRefreshToken(r)
  BY <1>1, <1>4 DEF StoreRefreshToken
<1>5. CASE DeleteUser(r)
  BY <1>1, <1>5 DEF DeleteUser, TokensLeft
<1> QED
  BY <1>2, <1>3, <1>4, <1>5 DEF Handle

\* Only the two revocations use a token up.
LEMMA UsedUpBy ==
    ASSUME TypeInv, NEW r \in Requests, Handle(r), UsedUp(r)', ~UsedUp(r)
    PROVE  RevokeExchanged(r) \/ (RevokeLoggedOut(r) /\ req[r].token)
<1>1. /\ DOMAIN pc = Requests /\ DOMAIN req = Requests /\ DOMAIN result = Makers
      /\ r \in Makers /\ result[r] = "none"
  <2>1. DOMAIN pc = Requests /\ DOMAIN req = Requests /\ DOMAIN result = Makers /\ r \in Makers
    BY DEF TypeInv, TypeOK, Makers
  <2>2. result[r] = "none"
    BY OwnRow DEF TypeInv, KindFits
  <2> QED
    BY <2>1, <2>2
<1> USE <1>1 DEF UsedUp, Begin, At, Goto, Answer, Issues
<1>2. ~LookUpNew(r) /\ ~CreateUser(r) /\ ~LookUpLogin(r)
  BY DEF LookUpNew, CreateUser, LookUpLogin
<1>3. ~FindRefreshToken(r) /\ ~FindOwner(r)
  BY DEF FindRefreshToken, FindOwner
<1>4. ~Mint(r) /\ ~StoreRefreshToken(r)
  BY DEF Mint, StoreRefreshToken
<1>5. ~LogOut(r) /\ ~RevokeJti(r) /\ (RevokeLoggedOut(r) => req[r].token)
  BY DEF LogOut, RevokeJti, RevokeLoggedOut
<1>6. ~DeleteUser(r) /\ ~RevokeUser(r)
  BY DEF DeleteUser, RevokeUser
<1>7. ~PresentToken(r) /\ ~CallApi(r) /\ ~Me(r)
  BY DEF PresentToken, CallApi, Me
<1> QED
  BY <1>2, <1>3, <1>4, <1>5, <1>6, <1>7 DEF Handle

LEMMA HandleUsedUp ==
    ASSUME TypeInv, SpentInv, NEW q \in Requests, Handle(q) PROVE UsedUpSpent'
<1> SUFFICES ASSUME NEW d \in Requests, UsedUp(d)' PROVE Spent(req[d].session)'
  BY DEF UsedUpSpent
<1>1. CASE UsedUp(d)
  <2>1. req'[d] = req[d]
    BY <1>1, AskedOnce, OwnRow DEF UsedUp, TypeInv, KindFits, Idle
  <2>2. req[d].session \in Known
    BY <1>1 DEF UsedUp, TypeInv, PresentedKnown, Presents
  <2>3. Spent(req[d].session)
    BY <1>1 DEF SpentInv, UsedUpSpent
  <2>4. ASSUME NEW s \in Known, s = req[d].session PROVE Spent(s)'
    BY <2>3, <2>4, SpentStays
  <2> QED
    BY <2>1, <2>2, <2>4 DEF Spent
<1>2. CASE ~UsedUp(d)
  <2>1. d = q
    BY <1>2, OwnRow DEF UsedUp, Makers
  <2>2. /\ req[q].session \in Makers /\ req'[q] = req[q]
        /\ refresh' = Revoked(req[q].session)
    <3>1. RevokeExchanged(q) \/ (RevokeLoggedOut(q) /\ req[q].token)
      BY <1>2, <2>1, UsedUpBy
    <3> QED
      BY <3>1, RequestFields DEF RevokeExchanged, RevokeLoggedOut, At, Presents
  <2>3. Revoked(req[q].session)[req[q].session] # None
            => Revoked(req[q].session)[req[q].session].revoked
    BY <2>2, RevokedSpent
  <2> QED
    BY <2>1, <2>2, <2>3 DEF Spent
<1> QED
  BY <1>1, <1>2

LEMMA HandleLater ==
    ASSUME TypeInv, SpentInv, NEW q \in Requests, Handle(q) PROVE LaterRefused'
<1> SUFFICES ASSUME NEW d \in Requests, NEW r \in Requests, d \in before'[r], UsedUp(d)',
                    req'[r].kind = "refresh", req'[r].session = req'[d].session
             PROVE  pc'[r] = "done" /\ result'[r] = "rejected"
  BY DEF LaterRefused
<1>1. /\ d # q /\ pc[d] = "done" /\ req'[d] = req[d] /\ UsedUp(d)
      /\ r # q \/ pc[q] # "new" => d \in before[r] /\ req'[r] = req[r]
  BY EarlierStays DEF SpentInv, UsedUp
<1>2. CASE r # q
  BY <1>1, <1>2, OwnRow DEF SpentInv, LaterRefused, Makers
<1>3. CASE r = q /\ pc[q] # "new"
  BY <1>1, <1>3, OwnRow DEF SpentInv, LaterRefused
<1>4. CASE r = q /\ pc[q] = "new"
  <2>1. FindRefreshToken(q)
    <3>1. DOMAIN req = Requests /\ req'[q].kind = "refresh" /\ pc[q] = "new"
      BY <1>4 DEF TypeInv, TypeOK
    <3> USE <3>1 DEF Begin, At
    <3>2. ~LookUpNew(q) /\ ~LookUpLogin(q) /\ ~LogOut(q) /\ ~RevokeJti(q) /\ ~DeleteUser(q)
      BY DEF LookUpNew, LookUpLogin, LogOut, RevokeJti, DeleteUser
    <3>3. ~PresentToken(q) /\ ~CallApi(q) /\ ~Me(q)
      BY DEF PresentToken, CallApi, Me
    <3>4. ~CreateUser(q) /\ ~FindOwner(q) /\ ~RevokeExchanged(q) /\ ~Mint(q)
          /\ ~StoreRefreshToken(q) /\ ~RevokeLoggedOut(q) /\ ~RevokeUser(q)
      BY DEF CreateUser, FindOwner, RevokeExchanged, Mint, StoreRefreshToken,
             RevokeLoggedOut, RevokeUser
    <3> QED
      BY <3>2, <3>3, <3>4 DEF Handle
  <2>2. /\ DOMAIN req = Requests /\ DOMAIN pc = Requests /\ DOMAIN result = Makers
        /\ q \in Makers
    BY DEF TypeInv, TypeOK, Makers
  <2>3. Spent(req[d].session)
    BY <1>1 DEF SpentInv, UsedUpSpent
  <2>4. ~Usable(req'[q].session)
    BY <1>1, <1>4, <2>3 DEF Spent, Usable
  <2> QED
    BY <1>4, <2>1, <2>2, <2>4 DEF FindRefreshToken, Begin, Answer
<1> QED
  BY <1>2, <1>3, <1>4

LEMMA InitSpent == Init => SpentInv
  BY DEF Init, SpentInv, BeforeDone, UsedUpSpent, UsedUp, LaterRefused, Idle

LEMMA NextSpent == TypeInv /\ SpentInv /\ [Next]_vars => SpentInv'
<1> SUFFICES ASSUME TypeInv, SpentInv, [Next]_vars PROVE SpentInv'
  OBVIOUS
<1>1. ASSUME NEW q \in Requests, Handle(q) PROVE UsedUpSpent' /\ LaterRefused'
  BY <1>1, HandleUsedUp, HandleLater
<1>2. CASE Tick \/ UNCHANGED vars
  <2>1. UNCHANGED <<refresh, pc, req, result, before>>
    BY <1>2 DEF Tick, vars, stores
  <2> QED
    BY <2>1 DEF SpentInv, UsedUpSpent, LaterRefused, UsedUp, Spent, BeforeDone
<1>3. BeforeDone'
  BY NextBefore DEF SpentInv
<1> QED
  BY <1>1, <1>2, <1>3 DEF Next, SpentInv

\* A refresh token is exchanged once, unless two exchanges overlapped, in both kinds of
\* store and whatever else happens to the session.
THEOREM ExchangedOnce == Spec => []TokenExchangedOnce
<1>1. TypeInv /\ SpentInv => TokenExchangedOnce
  BY DEF SpentInv, LaterRefused, UsedUp, TokenExchangedOnce, Precedes, Served
<1> QED
  BY <1>1, InitType, NextType, InitSpent, NextSpent, PTL DEF Spec

-----------------------------------------------------------------------------
(***************************************************************************)
(* A logout ends the session.  The entry for its access token lives as     *)
(* long as the token verifies, although the one is compared in             *)
(* milliseconds and the other in seconds, and is not pruned before: so a   *)
(* token passes only if it is looked up after its expiry.                  *)
(***************************************************************************)
LEMMA Seconds ==
    ASSUME NEW n \in Nat, NEW m \in Nat
    PROVE  /\ n \div PerSecond < m <=> n < m * PerSecond
           /\ n \div PerSecond <= (n + 1) \div PerSecond
<1>1. PerSecond \in Nat \ {0}
  OBVIOUS
<1> QED
  BY <1>1

Closed(s) == Verified(s) => jtis[s] = Exp(s) * PerSecond

ClosedByLogout ==
    \A d \in Requests :
        req[d].kind = "logout" /\ req[d].access /\ pc[d] # "verified" => Closed(req[d].session)

LaterShut ==
    \A d, r \in Requests :
        /\ d \in before[r] /\ req[d].kind = "logout" /\ req[d].access
        /\ req[r].kind = "api" /\ req[r].session = req[d].session /\ result[r] = "ok"
        => Lapsed(r)

ClosedInv == ClosedByLogout /\ LaterShut

\* Only the look-up lets a token in.
LEMMA LetInBy ==
    ASSUME TypeInv, NEW q \in Requests, Handle(q), req'[q].kind = "api", result'[q] = "ok"
    PROVE  CallApi(q)
<1>1. DOMAIN req = Requests /\ DOMAIN result = Makers /\ q \in Makers /\ result[q] = "none"
  <2>1. DOMAIN req = Requests /\ DOMAIN result = Makers /\ q \in Makers
    BY DEF TypeInv, TypeOK, Makers
  <2>2. result[q] = "none"
    BY OwnRow DEF TypeInv, KindFits
  <2> QED
    BY <2>1, <2>2
<1> USE <1>1 DEF Begin, At, Goto, Answer, Issues
<1>2. ~LookUpNew(q) /\ ~CreateUser(q) /\ ~LookUpLogin(q)
  BY DEF LookUpNew, CreateUser, LookUpLogin
<1>3. ~FindRefreshToken(q) /\ ~FindOwner(q) /\ ~RevokeExchanged(q)
  BY DEF FindRefreshToken, FindOwner, RevokeExchanged
<1>4. ~Mint(q) /\ ~StoreRefreshToken(q)
  BY DEF Mint, StoreRefreshToken
<1>5. ~LogOut(q) /\ ~RevokeJti(q) /\ ~RevokeLoggedOut(q)
  BY DEF LogOut, RevokeJti, RevokeLoggedOut
<1>6. ~DeleteUser(q) /\ ~RevokeUser(q)
  BY DEF DeleteUser, RevokeUser
<1>7. ~PresentToken(q) /\ ~Me(q)
  BY DEF PresentToken, Me
<1> QED
  BY <1>2, <1>3, <1>4, <1>5, <1>6, <1>7 DEF Handle

\* A closed session's access token is refused while it verifies.
LEMMA ClosedRevoked ==
    ASSUME TypeInv, NEW s \in Makers, Closed(s), Verified(s) PROVE JtiRevoked(s)
<1>1. now \in Nat /\ Exp(s) \in Nat
  BY ClaimTypes DEF TypeInv, TypeOK
<1>2. now < Exp(s) * PerSecond
  BY <1>1, Seconds DEF Verified
<1>3. jtis[s] = Exp(s) * PerSecond
  BY DEF Closed
<1> QED
  BY <1>2, <1>3 DEF JtiRevoked

LEMMA ClosedStays ==
    ASSUME TypeInv, NEW r \in Requests, Handle(r), NEW s \in Known, Closed(s)
    PROVE  Closed(s)'
<1>1. /\ s \in Makers /\ DOMAIN jtis = Makers
      /\ Exp(s)' = Exp(s) /\ (Verified(s)' <=> Verified(s))
  <2>1. now' = now /\ stamp'[s] = stamp[s]
    BY KnownStays, OwnRow
  <2> QED
    BY <2>1, KnownDone DEF Exp, Iat, Verified, TypeInv, TypeOK
<1>2. SUFFICES ASSUME Verified(s) PROVE jtis'[s] = Exp(s) * PerSecond
  BY <1>1 DEF Closed
<1>3. jtis[s] = Exp(s) * PerSecond
  BY <1>2 DEF Closed
<1>4. CASE UNCHANGED jtis
  BY <1>3, <1>4
<1>5. CASE RevokeJti(r)
  <2>1. req[r].session = s => jtis'[s] = Exp(s) * PerSecond
    BY <1>1, <1>5 DEF RevokeJti
  <2>2. req[r].session # s => jtis'[s] = jtis[s]
    BY <1>1, <1>5 DEF RevokeJti
  <2> QED
    BY <1>3, <2>1, <2>2
<1>6. CASE CallApi(r)
  <2>1. req[r].session = s => UNCHANGED jtis
    BY <1>1, <1>2, <1>6, ClosedRevoked DEF CallApi, Prune
  <2>2. req[r].session # s => jtis'[s] = jtis[s]
    BY <1>1, <1>6 DEF CallApi, Prune
  <2> QED
    BY <1>3, <2>1, <2>2
<1>7. RevokeJti(r) \/ CallApi(r) \/ UNCHANGED jtis
  BY DEF Handle, LookUpNew, CreateUser, LookUpLogin, FindRefreshToken, FindOwner,
         RevokeExchanged, Mint, StoreRefreshToken, LogOut, RevokeLoggedOut, DeleteUser,
         RevokeUser, PresentToken, Me, stores
<1> QED
  BY <1>4, <1>5, <1>6, <1>7

LEMMA TickClosed == ASSUME TypeInv, Tick, NEW s \in Makers, Closed(s) PROVE Closed(s)'
<1>1. now \in Nat /\ Exp(s) \in Nat /\ Iat(s) \in Nat /\ now' = now + 1
  BY ClaimTypes DEF Tick, TypeInv, TypeOK
<1>2. UNCHANGED <<jtis, stamp>> /\ Exp(s)' = Exp(s)
  BY DEF Tick, stores, locals, Exp, Iat
<1>3. now \div PerSecond \in Int /\ (now + 1) \div PerSecond \in Int
  BY <1>1
<1>4. now \div PerSecond <= (now + 1) \div PerSecond
  BY <1>1, Seconds
<1>5. Verified(s)' => Verified(s)
  BY <1>1, <1>2, <1>3, <1>4 DEF Verified
<1> QED
  BY <1>2, <1>5 DEF Closed

LEMMA HandleClosed ==
    ASSUME TypeInv, ClosedInv, NEW q \in Requests, Handle(q) PROVE ClosedByLogout'
<1> SUFFICES ASSUME NEW d \in Requests, req'[d].kind = "logout", req'[d].access,
                    pc'[d] # "verified"
             PROVE  Closed(req[d].session)'
  BY DEF ClosedByLogout
<1>1. CASE req'[d] = req[d] /\ pc[d] # "verified"
  <2>1. req[d].session \in Known
    BY <1>1 DEF TypeInv, PresentedKnown, Presents
  <2>2. Closed(req[d].session)
    BY <1>1 DEF ClosedInv, ClosedByLogout
  <2>3. ASSUME NEW s \in Known, s = req[d].session PROVE Closed(s)'
    BY <2>2, <2>3, ClosedStays
  <2> QED
    BY <1>1, <2>1, <2>3 DEF Closed, Verified, Exp, Iat
<1>2. CASE req'[d] = req[d] /\ pc[d] = "verified"
  <2>1. d = q /\ req[q].kind = "logout"
    BY <1>2, OwnRow
  <2>2. RevokeJti(q)
    <3> USE <1>2, <2>1 DEF At
    <3>1. ~LookUpNew(q) /\ ~LookUpLogin(q) /\ ~FindRefreshToken(q) /\ ~LogOut(q)
          /\ ~DeleteUser(q) /\ ~PresentToken(q)
      BY DEF LookUpNew, LookUpLogin, FindRefreshToken, LogOut, DeleteUser, PresentToken
    <3>2. ~CallApi(q) /\ ~Me(q) /\ ~RevokeLoggedOut(q) /\ ~RevokeUser(q)
      BY DEF CallApi, Me, RevokeLoggedOut, RevokeUser
    <3>3. ~CreateUser(q) /\ ~FindOwner(q) /\ ~RevokeExchanged(q) /\ ~Mint(q)
          /\ ~StoreRefreshToken(q)
      BY DEF CreateUser, FindOwner, RevokeExchanged, Mint, StoreRefreshToken
    <3> QED
      BY <3>1, <3>2, <3>3 DEF Handle
  <2>3. req[q].session \in Makers /\ DOMAIN jtis = Makers
    BY <2>1, RequestFields DEF Presents, TypeInv, TypeOK
  <2>4. /\ jtis'[req[q].session] = Exp(req[q].session) * PerSecond
        /\ UNCHANGED <<now, stamp, req>>
    BY <2>2, <2>3 DEF RevokeJti, locals
  <2> QED
    BY <2>1, <2>4 DEF Closed, Verified, Exp, Iat
<1>3. CASE req'[d] # req[d]
  <2>1. d = q /\ pc[q] = "new"
    BY <1>3, OwnRow, AskedOnce
  <2>2. LogOut(q)
    <3> USE <2>1, <1>3 DEF Begin, At
    <3>1. DOMAIN req = Requests /\ req'[q].kind = "logout"
      BY DEF TypeInv, TypeOK
    <3>2. ~LookUpNew(q) /\ ~LookUpLogin(q) /\ ~FindRefreshToken(q)
      BY <3>1 DEF LookUpNew, LookUpLogin, FindRefreshToken
    <3>3. ~DeleteUser(q) /\ ~PresentToken(q) /\ ~CallApi(q) /\ ~Me(q)
      BY <3>1 DEF DeleteUser, PresentToken, CallApi, Me
    <3>4. ~CreateUser(q) /\ ~FindOwner(q) /\ ~RevokeExchanged(q) /\ ~Mint(q)
          /\ ~StoreRefreshToken(q) /\ ~RevokeJti(q) /\ ~RevokeLoggedOut(q) /\ ~RevokeUser(q)
      BY DEF CreateUser, FindOwner, RevokeExchanged, Mint, StoreRefreshToken, RevokeJti,
             RevokeLoggedOut, RevokeUser
    <3> QED
      BY <3>2, <3>3, <3>4 DEF Handle
  <2>3. PICK s \in Known, access \in BOOLEAN, token \in BOOLEAN :
           LogOut(q)!2!(s, access, token)
    BY <2>2 DEF LogOut
  <2>4. /\ req'[q].session = s /\ req'[q].access = access /\ access
        /\ DOMAIN pc = Requests
    BY <2>1, <2>3 DEF Begin, TypeInv, TypeOK
  <2>5. UNCHANGED <<now, stamp>>
    BY <2>2 DEF LogOut, locals
  <2>6. ~Verified(s)
    BY <2>1, <2>3, <2>4 DEF Goto
  <2> QED
    BY <2>1, <2>4, <2>5, <2>6 DEF Closed, Verified, Exp, Iat
<1> QED
  BY <1>1, <1>2, <1>3

LEMMA HandleShut ==
    ASSUME TypeInv, BeforeDone, ClosedInv, NEW q \in Requests, Handle(q) PROVE LaterShut'
<1> SUFFICES ASSUME NEW d \in Requests, NEW r \in Requests, d \in before'[r],
                    req'[d].kind = "logout", req'[d].access, req'[r].kind = "api",
                    req'[r].session = req'[d].session, result'[r] = "ok"
             PROVE  Lapsed(r)'
  BY DEF LaterShut
<1>1. /\ pc[d] = "done" /\ req'[d] = req[d]
      /\ r # q \/ pc[q] # "new" => d \in before[r] /\ req'[r] = req[r]
  BY EarlierStays
<1>2. CASE r # q
  <2>1. Lapsed(r) /\ req'[r] = req[r] /\ stamp'[r] = stamp[r]
    BY <1>1, <1>2, OwnRow DEF ClosedInv, LaterShut, Makers
  <2>2. req[r].session \in Known
    BY <2>1 DEF TypeInv, PresentedKnown, Presents
  <2>3. stamp'[req[r].session] = stamp[req[r].session]
    BY <2>2, KnownStays
  <2> QED
    BY <2>1, <2>3 DEF Lapsed, Exp, Iat
<1>3. CASE r = q
  <2>1. CallApi(q)
    BY <1>3, LetInBy
  <2>2. /\ pc[q] = "verified" /\ req' = req /\ stamp' = [stamp EXCEPT ![q] = now]
        /\ Answer(q, IF IsRevoked(req[q].session) THEN "rejected" ELSE "ok")
    BY <2>1, Zenon DEF CallApi, At
  <2>3. req[q].session = req[d].session /\ req[q].session \in Known /\ req[q].session # q
        /\ req[q].session \in Makers /\ DOMAIN stamp = Makers /\ q \in Makers
        /\ DOMAIN result = Makers
    BY <1>1, <1>3, <2>2, KnownDone DEF TypeInv, TypeOK, PresentedKnown, Presents, Makers
  <2>4. Closed(req[q].session) /\ ~JtiRevoked(req[q].session)
    BY <1>1, <1>3, <2>2, <2>3 DEF ClosedInv, ClosedByLogout, Answer, IsRevoked
  <2>5. ~Verified(req[q].session)
    BY <2>3, <2>4, ClosedRevoked
  <2>6. now \in Nat /\ Exp(req[q].session) \in Nat
    BY <2>3, ClaimTypes DEF TypeInv, TypeOK
  <2>7. ~(now < Exp(req[q].session) * PerSecond)
    BY <2>5, <2>6, Seconds DEF Verified
  <2>8. Exp(req[q].session) * PerSecond \in Nat
    BY <2>3, ClaimTypes
  <2>9. now >= Exp(req[q].session) * PerSecond
    BY <2>6, <2>7, <2>8
  <2>10. stamp'[q] = now /\ stamp'[req[q].session] = stamp[req[q].session]
    BY <2>2, <2>3
  <2> QED
    BY <1>3, <2>2, <2>9, <2>10, Zenon DEF Lapsed, Exp, Iat
<1> QED
  BY <1>2, <1>3

LEMMA InitClosed == Init => ClosedInv
  BY DEF Init, ClosedInv, ClosedByLogout, LaterShut, Idle

LEMMA NextClosed == TypeInv /\ BeforeDone /\ ClosedInv /\ [Next]_vars => ClosedInv'
<1> SUFFICES ASSUME TypeInv, BeforeDone, ClosedInv, [Next]_vars PROVE ClosedInv'
  OBVIOUS
<1>1. ASSUME NEW q \in Requests, Handle(q) PROVE ClosedInv'
  BY <1>1, HandleClosed, HandleShut DEF ClosedInv
<1>2. CASE Tick
  <2>1. UNCHANGED <<req, result, before, stamp, pc>>
    BY <1>2 DEF Tick, locals
  <2>2. ClosedByLogout'
    <3> SUFFICES ASSUME NEW d \in Requests, req'[d].kind = "logout", req'[d].access,
                        pc'[d] # "verified"
                 PROVE  Closed(req[d].session)'
      BY DEF ClosedByLogout
    <3>1. req[d].session \in Makers /\ Closed(req[d].session)
      BY <2>1, RequestFields DEF Presents, ClosedInv, ClosedByLogout
    <3>2. ASSUME NEW s \in Makers, s = req[d].session PROVE Closed(s)'
      BY <1>2, <3>1, <3>2, TickClosed
    <3> QED
      BY <2>1, <3>1, <3>2 DEF Closed, Verified, Exp, Iat
  <2> QED
    BY <2>1, <2>2 DEF ClosedInv, LaterShut, Lapsed, Exp, Iat
<1>3. CASE UNCHANGED vars
  BY <1>3 DEF vars, stores, locals, ClosedInv, ClosedByLogout, LaterShut, Lapsed, Closed,
              Verified, Exp, Iat
<1> QED
  BY <1>1, <1>2, <1>3 DEF Next

\* What a logout was given is over: nothing that begins after it was answered refreshes
\* the session or opens the API with it, unless the access token expires between being
\* verified and being looked up.
THEOREM LogoutEnds == Spec => []LogoutEndsSession
<1>1. TypeInv /\ SpentInv /\ ClosedInv => LogoutEndsSession
  BY DEF SpentInv, LaterRefused, UsedUp, ClosedInv, LaterShut, LogoutEndsSession, Precedes,
         Served
<1>2. SpentInv => BeforeDone
  BY DEF SpentInv
<1> QED
  BY <1>1, <1>2, InitType, NextType, InitSpent, NextSpent, InitClosed, NextClosed, PTL DEF Spec

-----------------------------------------------------------------------------
(***************************************************************************)
(* Registration.  As long as nobody is deleted, an address that was        *)
(* registered stays in the index, and what the index names exists: in the  *)
(* memory store too, where a second account may overwrite the entry.       *)
(***************************************************************************)
NoDeletion == \A x \in Requests : req[x].kind # "delete"

IndexExists == \A e \in Emails : index[e] # None => Exists(index[e])

\* d has made its account.
Registered(d) ==
    req[d].kind = "register" /\ (pc[d] \in {"mint", "store"} \/ result[d] = "ok")

RegisteredIndexed == \A d \in Requests : Registered(d) => index[req[d].email] # None

LaterTaken ==
    \A d, r \in Requests :
        /\ d \in before[r] /\ Registered(d)
        /\ req[r].kind = "register" /\ req[r].email = req[d].email
        => pc[r] = "done" /\ result[r] = "rejected"

RegisterInv == NoDeletion => IndexExists /\ RegisteredIndexed /\ LaterTaken

\* A request that makes an account makes it in CreateUser.
LEMMA RegisteredBy ==
    ASSUME TypeInv, NEW r \in Requests, Handle(r), Registered(r)', ~Registered(r)
    PROVE  CreateUser(r)
<1>1. /\ DOMAIN pc = Requests /\ DOMAIN req = Requests /\ DOMAIN result = Makers
      /\ r \in Makers /\ result[r] = "none"
  <2>1. DOMAIN pc = Requests /\ DOMAIN req = Requests /\ DOMAIN result = Makers /\ r \in Makers
    BY DEF TypeInv, TypeOK, Makers
  <2>2. result[r] = "none"
    BY OwnRow DEF TypeInv, KindFits
  <2> QED
    BY <2>1, <2>2
<1> USE <1>1 DEF Registered, Begin, At, Goto, Answer, Issues
<1>2. ~LookUpNew(r) /\ ~LookUpLogin(r)
  BY DEF LookUpNew, LookUpLogin
<1>3. ~FindRefreshToken(r) /\ ~FindOwner(r) /\ ~RevokeExchanged(r)
  BY DEF FindRefreshToken, FindOwner, RevokeExchanged
<1>4. ~Mint(r) /\ ~StoreRefreshToken(r)
  BY DEF Mint, StoreRefreshToken
<1>5. ~LogOut(r) /\ ~RevokeJti(r) /\ ~RevokeLoggedOut(r)
  BY DEF LogOut, RevokeJti, RevokeLoggedOut
<1>6. ~DeleteUser(r) /\ ~RevokeUser(r)
  BY DEF DeleteUser, RevokeUser
<1>7. ~PresentToken(r) /\ ~CallApi(r) /\ ~Me(r)
  BY DEF PresentToken, CallApi, Me
<1> QED
  BY <1>2, <1>3, <1>4, <1>5, <1>6, <1>7 DEF Handle

\* Without a deletion, accounts and index entries are only added.
LEMMA OnlyAdded ==
    ASSUME TypeInv, NoDeletion', NEW r \in Requests, Handle(r)
    PROVE  /\ NoDeletion
           /\ \/ UNCHANGED <<emailOf, index>>
              \/ /\ CreateUser(r)
                 /\ emailOf' = [emailOf EXCEPT ![r] = req[r].email]
                 /\ index' = [index EXCEPT ![req[r].email] = r]
<1>1. DOMAIN req = Requests
  BY DEF TypeInv, TypeOK
<1>2. ASSUME NEW x \in Requests PROVE req[x].kind # "delete"
  <2>1. req'[x].kind # "delete"
    BY DEF NoDeletion
  <2>2. req'[x] = req[x] \/ req[x] = Idle
    BY AskedOnce, OwnRow DEF TypeInv, KindFits
  <2> QED
    BY <2>1, <2>2 DEF Idle
<1>3. ~DeleteUser(r)
  BY <1>1 DEF DeleteUser, Begin, NoDeletion
<1>4. NoDeletion
  BY <1>2 DEF NoDeletion
<1>5. CASE CreateUser(r)
  BY <1>4, <1>5 DEF CreateUser
<1>6. CASE ~CreateUser(r)
  BY <1>3, <1>4, <1>6 DEF Handle, LookUpNew, LookUpLogin, FindRefreshToken, FindOwner,
     RevokeExchanged, Mint, StoreRefreshToken, LogOut, RevokeJti, RevokeLoggedOut, RevokeUser,
     PresentToken, CallApi, Me, stores
<1> QED
  BY <1>5, <1>6

LEMMA HandleRegister ==
    ASSUME TypeInv, BeforeDone, RegisterInv, NEW q \in Requests, Handle(q) PROVE RegisterInv'
<1> SUFFICES ASSUME NoDeletion' PROVE IndexExists' /\ RegisteredIndexed' /\ LaterTaken'
  BY DEF RegisterInv
<1>1. IndexExists /\ RegisteredIndexed /\ LaterTaken
  BY OnlyAdded DEF RegisterInv
<1>2. /\ None \notin Emails /\ None \notin Makers /\ q \in Makers
      /\ emailOf \in [Makers -> Emails \cup {None}]
      /\ index \in [Emails -> Makers \cup {None}]
      /\ CreateUser(q) => req[q].email \in Emails
  BY RequestFields DEF TypeInv, TypeOK, Makers, CreateUser, At
<1>3. IndexExists'
  <2>1. CASE UNCHANGED <<emailOf, index>>
    BY <1>1, <2>1 DEF IndexExists, Exists
  <2>2. CASE ~UNCHANGED <<emailOf, index>>
    BY <1>1, <1>2, <2>2, OnlyAdded DEF IndexExists, Exists
  <2> QED
    BY <2>1, <2>2
<1>4. \A e \in Emails : index[e] # None => index'[e] # None
  BY <1>2, OnlyAdded
<1>5. RegisteredIndexed'
  <2> SUFFICES ASSUME NEW d \in Requests, Registered(d)' PROVE index'[req'[d].email] # None
    BY DEF RegisteredIndexed
  <2>1. CASE Registered(d)
    <3>1. req'[d] = req[d]
      BY <2>1, AskedOnce, OwnRow DEF Registered, TypeInv, KindFits, Idle
    <3>2. req[d].email \in Emails
      BY <2>1, RequestFields DEF Registered
    <3> QED
      BY <1>1, <1>4, <2>1, <3>1, <3>2 DEF RegisteredIndexed
  <2>2. CASE ~Registered(d)
    <3>1. d = q
      BY <2>2, OwnRow DEF Registered, Makers
    <3>2. CreateUser(q)
      BY <2>2, <3>1, RegisteredBy
    <3>3. req' = req /\ index'[req[q].email] # None
      BY <1>2, <3>2 DEF CreateUser
    <3> QED
      BY <3>1, <3>3
  <2> QED
    BY <2>1, <2>2
<1>6. LaterTaken'
  <2> SUFFICES ASSUME NEW d \in Requests, NEW r \in Requests, d \in before'[r], Registered(d)',
                      req'[r].kind = "register", req'[r].email = req'[d].email
               PROVE  pc'[r] = "done" /\ result'[r] = "rejected"
    BY DEF LaterTaken
  <2>1. /\ d # q /\ req'[d] = req[d] /\ Registered(d)
        /\ r # q \/ pc[q] # "new" => d \in before[r] /\ req'[r] = req[r]
    BY EarlierStays DEF Registered
  <2>2. CASE r # q
    BY <1>1, <2>1, <2>2, OwnRow DEF LaterTaken, Makers
  <2>3. CASE r = q /\ pc[q] # "new"
    BY <1>1, <2>1, <2>3, OwnRow DEF LaterTaken
  <2>4. CASE r = q /\ pc[q] = "new"
    <3>1. LookUpNew(q)
      <4>1. DOMAIN req = Requests /\ req'[q].kind = "register" /\ pc[q] = "new"
        BY <2>4 DEF TypeInv, TypeOK
      <4> USE <4>1 DEF Begin, At
      <4>2. ~LookUpLogin(q) /\ ~FindRefreshToken(q) /\ ~LogOut(q) /\ ~RevokeJti(q)
        BY DEF LookUpLogin, FindRefreshToken, LogOut, RevokeJti
      <4>3. ~DeleteUser(q) /\ ~PresentToken(q) /\ ~CallApi(q) /\ ~Me(q)
        BY DEF DeleteUser, PresentToken, CallApi, Me
      <4>4. ~CreateUser(q) /\ ~FindOwner(q) /\ ~RevokeExchanged(q) /\ ~Mint(q)
            /\ ~StoreRefreshToken(q) /\ ~RevokeLoggedOut(q) /\ ~RevokeUser(q)
        BY DEF CreateUser, FindOwner, RevokeExchanged, Mint, StoreRefreshToken,
               RevokeLoggedOut, RevokeUser
      <4> QED
        BY <4>2, <4>3, <4>4 DEF Handle
    <3>2. PICK e \in Emails : LookUpNew(q)!2!(e)
      BY <3>1 DEF LookUpNew
    <3>3. /\ DOMAIN req = Requests /\ DOMAIN pc = Requests /\ DOMAIN result = Makers
      BY DEF TypeInv, TypeOK
    <3>4. e = req[d].email
      BY <2>1, <2>4, <3>2, <3>3 DEF Begin
    <3>5. index[e] # None /\ Exists(index[e])
      BY <1>1, <2>1, <3>4 DEF RegisteredIndexed, IndexExists
    <3>6. FindByEmail(e) # None
      BY <3>5 DEF FindByEmail
    <3> QED
      BY <1>2, <2>4, <3>2, <3>3, <3>6 DEF Answer
  <2> QED
    BY <2>2, <2>3, <2>4
<1> QED
  BY <1>3, <1>5, <1>6

\* Of two registrations of one address that do not overlap the second is refused, in
\* memory too, unless an account was deleted in between.
THEOREM RegisteredOnce == Spec => []EmailRegisteredOnce
<1>1. TypeInv /\ BeforeDone /\ RegisterInv => EmailRegisteredOnce
  BY DEF RegisterInv, NoDeletion, LaterTaken, Registered, EmailRegisteredOnce, Precedes, Served
<1>2. Init => BeforeDone /\ RegisterInv
  BY DEF Init, BeforeDone, RegisterInv, IndexExists, RegisteredIndexed, LaterTaken, Registered,
         Exists, Idle, Makers
<1>3. TypeInv /\ BeforeDone /\ RegisterInv /\ [Next]_vars => RegisterInv'
  <2> SUFFICES ASSUME TypeInv, BeforeDone, RegisterInv, [Next]_vars PROVE RegisterInv'
    OBVIOUS
  <2>1. ASSUME NEW q \in Requests, Handle(q) PROVE RegisterInv'
    BY <2>1, HandleRegister
  <2>2. CASE Tick \/ UNCHANGED vars
    <3>1. UNCHANGED <<emailOf, index, pc, req, result, before>>
      BY <2>2 DEF Tick, vars, stores
    <3> QED
      BY <3>1 DEF RegisterInv, NoDeletion, IndexExists, RegisteredIndexed, LaterTaken,
                  Registered, Exists
  <2> QED
    BY <2>1, <2>2 DEF Next
<1> QED
  BY <1>1, <1>2, <1>3, InitType, NextType, NextBefore, PTL DEF Spec

-----------------------------------------------------------------------------
(***************************************************************************)
(* The deletion of a user ends the sessions.  A deleted account never      *)
(* comes back, because an account is made once, by the request it is named *)
(* after.  The cutoff outlives every access token minted before it; and in *)
(* the database no session of the account is handed out after its row is   *)
(* gone, so that all of them were minted by the time of the cutoff.        *)
(***************************************************************************)
Made(a) == a = First \/ (a \in Requests /\ pc[a] \notin {"new", "create"})

OwnersMade ==
    /\ \A s \in Makers : user[s] # None => Made(user[s])
    /\ \A e \in Emails : index[e] # None => Made(index[e])

\* d has deleted its account; d was answered that it did.
Removed(d) == req[d].kind = "delete" /\ (pc[d] = "cut" \/ result[d] = "ok")
Deleted(d) == req[d].kind = "delete" /\ result[d] = "ok"

AccountsGone ==
    \A d \in Requests : Removed(d) => Made(req[d].account) /\ ~Exists(req[d].account)

StampsPast == \A s \in Makers : stamp[s] <= now

Lifetime == AccessTtl * PerSecond

CutoffsFit ==
    \A a \in Makers :
        cutoffs[a] # None =>
            cutoffs[a].at <= now /\ cutoffs[a].until = cutoffs[a].at + Lifetime

\* The cutoff is there, or what it cut off has expired.
CutoffsHold ==
    \A d \in Requests :
        Deleted(d) =>
            \/ cutoffs[req[d].account] # None /\ stamp[d] <= cutoffs[req[d].account].at
            \/ stamp[d] + Lifetime <= now

LastTokens ==
    mode = "database" =>
        \A d \in Requests :
            Deleted(d) => \A s \in Known : user[s] = req[d].account => stamp[s] <= stamp[d]

\* The access token of s was minted after the deletion d, or at the same moment.
Overtaken(s, d) ==
    IF mode = "database"
    THEN stamp[s] = stamp[d] /\ stamp[s] % PerSecond = 0
    ELSE stamp[s] >= stamp[d]

\* What a request that begins after the deletion d may still get.
Outside(d, r) ==
    /\ req[r].kind = "login" /\ user[r] = req[d].account => result[r] = "rejected"
    /\ req[r].kind = "refresh" /\ user[req[r].session] = req[d].account
           => pc[r] = "found" \/ result[r] = "rejected"
    /\ req[r].kind = "me" /\ user[req[r].session] = req[d].account => result[r] # "ok"
    /\ req[r].kind = "api" /\ user[req[r].session] = req[d].account /\ result[r] = "ok"
           => Lapsed(r) \/ Overtaken(req[r].session, d)

LaterOutside ==
    \A d, r \in Requests : d \in before[r] /\ Deleted(d) => Outside(d, r)

GoneInv == OwnersMade /\ AccountsGone
CutInv == StampsPast /\ CutoffsFit /\ CutoffsHold
DeletedInv == GoneInv /\ CutInv /\ LastTokens /\ LaterOutside

\* What a request asks tells which action began it.
LEMMA BegunBy ==
    ASSUME TypeInv, NEW q \in Requests, Handle(q), pc[q] = "new"
    PROVE  /\ req'[q].kind = "login" => LookUpLogin(q)
           /\ req'[q].kind = "refresh" => FindRefreshToken(q)
           /\ req'[q].kind = "delete" => DeleteUser(q)
           /\ req'[q].kind \in {"api", "me"} => PresentToken(q)
<1>1. DOMAIN req = Requests
  BY DEF TypeInv, TypeOK
<1> USE <1>1 DEF Begin, At
<1>2. ~CreateUser(q) /\ ~FindOwner(q) /\ ~RevokeExchanged(q) /\ ~Mint(q)
      /\ ~StoreRefreshToken(q) /\ ~RevokeJti(q) /\ ~RevokeLoggedOut(q) /\ ~RevokeUser(q)
      /\ ~CallApi(q) /\ ~Me(q)
  BY DEF CreateUser, FindOwner, RevokeExchanged, Mint, StoreRefreshToken, RevokeJti,
         RevokeLoggedOut, RevokeUser, CallApi, Me
<1>3. LookUpNew(q) => req'[q].kind = "register"
  BY DEF LookUpNew
<1>4. LookUpLogin(q) => req'[q].kind = "login"
  BY DEF LookUpLogin
<1>5. FindRefreshToken(q) => req'[q].kind = "refresh"
  BY DEF FindRefreshToken
<1>6. LogOut(q) => req'[q].kind = "logout"
  BY DEF LogOut
<1>7. DeleteUser(q) => req'[q].kind = "delete"
  BY DEF DeleteUser
<1>8. PresentToken(q) => req'[q].kind \in {"api", "me"}
  BY DEF PresentToken
<1> QED
  BY <1>2, <1>3, <1>4, <1>5, <1>6, <1>7, <1>8 DEF Handle

\* An account once made is never made again.
LEMMA MadeStays ==
    ASSUME TypeInv, NEW r \in Requests, Handle(r)
    PROVE  /\ \A a : Made(a) => Made(a)'
           /\ pc'[r] # "new" /\ (pc'[r] = "create" => pc[r] = "new")
<1>1. DOMAIN pc = Requests
  BY DEF TypeInv, TypeOK
<1>2. pc'[r] # "new" /\ (pc'[r] = "create" => pc[r] = "new")
  <2> USE <1>1 DEF Begin, At, Goto, Answer
  <2>1. CASE LookUpNew(r) \/ CreateUser(r) \/ LookUpLogin(r)
    BY <2>1 DEF LookUpNew, CreateUser, LookUpLogin
  <2>2. CASE FindRefreshToken(r) \/ FindOwner(r) \/ RevokeExchanged(r)
    BY <2>2 DEF FindRefreshToken, FindOwner, RevokeExchanged
  <2>3. CASE Mint(r) \/ StoreRefreshToken(r)
    BY <2>3 DEF Mint, StoreRefreshToken
  <2>4. CASE LogOut(r) \/ RevokeJti(r) \/ RevokeLoggedOut(r)
    BY <2>4 DEF LogOut, RevokeJti, RevokeLoggedOut
  <2>5. CASE DeleteUser(r) \/ RevokeUser(r)
    BY <2>5 DEF DeleteUser, RevokeUser
  <2>6. CASE PresentToken(r) \/ CallApi(r) \/ Me(r)
    BY <2>6 DEF PresentToken, CallApi, Me
  <2> QED
    BY <2>1, <2>2, <2>3, <2>4, <2>5, <2>6 DEF Handle
<1>3. \A a : Made(a) => Made(a)'
  BY <1>2, OwnRow DEF Made
<1> QED
  BY <1>2, <1>3

\* Whoever owns a session or is in the index has been made.
LEMMA HandleOwners ==
    ASSUME TypeInv, OwnersMade, NEW r \in Requests, Handle(r) PROVE OwnersMade'
<1>1. DOMAIN user = Makers /\ r \in Makers /\ DOMAIN index = Emails /\ DOMAIN pc = Requests
  BY DEF TypeInv, TypeOK, Makers
<1>2. \/ UNCHANGED <<user, index>>
      \/ CreateUser(r) /\ ~UNCHANGED <<user, index>>
      \/ LookUpLogin(r) /\ UNCHANGED index
      \/ FindOwner(r) /\ UNCHANGED index
      \/ DeleteUser(r) /\ UNCHANGED user
  BY DEF Handle, LookUpNew, CreateUser, LookUpLogin, FindRefreshToken, FindOwner,
         RevokeExchanged, Mint, StoreRefreshToken, LogOut, RevokeJti, RevokeLoggedOut, DeleteUser,
         RevokeUser, PresentToken, CallApi, Me, stores, locals
<1>3. CASE UNCHANGED <<user, index>>
  BY <1>3, MadeStays DEF OwnersMade
<1>4. CASE CreateUser(r) /\ ~UNCHANGED <<user, index>>
  <2>1. /\ user' = [user EXCEPT ![r] = r] /\ index' = [index EXCEPT ![req[r].email] = r]
        /\ pc'[r] = "mint"
    BY <1>1, <1>4 DEF CreateUser, Goto
  <2>2. Made(r)'
    BY <2>1 DEF Made
  <2> QED
    BY <1>1, <2>1, <2>2, MadeStays DEF OwnersMade
<1>5. CASE LookUpLogin(r) /\ UNCHANGED index
  <2>1. PICK e \in Emails, right \in BOOLEAN : LookUpLogin(r)!2!(e, right)
    BY <1>5 DEF LookUpLogin
  <2>2. UNCHANGED user \/ user' = [user EXCEPT ![r] = FindByEmail(e)]
    BY <2>1
  <2>3. FindByEmail(e) # None => Made(FindByEmail(e))
    BY DEF FindByEmail, OwnersMade
  <2> QED
    BY <1>1, <1>5, <2>2, <2>3, MadeStays DEF OwnersMade
<1>6. CASE FindOwner(r) /\ UNCHANGED index
  <2>1. req[r].session \in Makers
    BY <1>6, RequestFields DEF FindOwner, At, Presents
  <2>2. UNCHANGED user \/ user' = [user EXCEPT ![r] = user[req[r].session]]
    BY <1>6 DEF FindOwner
  <2> QED
    BY <1>1, <1>6, <2>1, <2>2, MadeStays DEF OwnersMade
<1>7. CASE DeleteUser(r) /\ UNCHANGED user
  <2>1. \A e \in Emails : index'[e] = index[e] \/ index'[e] = None
    BY <1>1, <1>7 DEF DeleteUser
  <2> QED
    BY <1>7, <2>1, MadeStays DEF OwnersMade
<1> QED
  BY <1>2, <1>3, <1>4, <1>5, <1>6, <1>7

\* A deletion removes its account in its first step.
LEMMA RemovedBy ==
    ASSUME TypeInv, NEW q \in Requests, Handle(q), Removed(q)', ~Removed(q)
    PROVE  pc[q] = "new" /\ DeleteUser(q) /\ pc'[q] = "cut"
<1>1. /\ DOMAIN pc = Requests /\ DOMAIN req = Requests /\ DOMAIN result = Makers
      /\ q \in Makers /\ result[q] = "none"
  <2>1. DOMAIN pc = Requests /\ DOMAIN req = Requests /\ DOMAIN result = Makers /\ q \in Makers
    BY DEF TypeInv, TypeOK, Makers
  <2>2. result[q] = "none"
    BY OwnRow DEF TypeInv, KindFits
  <2> QED
    BY <2>1, <2>2
<1>2. CASE pc[q] = "new"
  <2>1. DeleteUser(q)
    BY <1>2, BegunBy DEF Removed
  <2>2. pc'[q] = "cut"
    BY <1>1, <2>1 DEF DeleteUser, Removed, Goto, Answer
  <2> QED
    BY <1>2, <2>1, <2>2
<1>3. CASE pc[q] # "new"
  <2>1. req[q].kind = "delete"
    BY <1>3, AskedOnce DEF Removed
  <2>2. pc[q] = "cut"
    BY <1>3, <2>1, OwnRow DEF TypeInv, TypeOK, KindFits, Issues
  <2> QED
    BY <2>1, <2>2 DEF Removed
<1> QED
  BY <1>2, <1>3

\* A deleted account stays deleted.
LEMMA HandleGone ==
    ASSUME TypeInv, GoneInv, NEW q \in Requests, Handle(q) PROVE GoneInv'
<1>1. OwnersMade'
  BY HandleOwners DEF GoneInv
<1>2. DOMAIN emailOf = Makers
  BY DEF TypeInv, TypeOK
<1>3. \A a \in Makers : Made(a) /\ ~Exists(a) => ~Exists(a)'
  <2>1. \A a \in Makers : emailOf'[a] # emailOf[a] =>
            emailOf'[a] = None \/ (a = q /\ pc[q] = "create")
    BY <1>2 DEF Handle, LookUpNew, CreateUser, LookUpLogin, FindRefreshToken, FindOwner,
         RevokeExchanged, Mint, StoreRefreshToken, LogOut, RevokeJti, RevokeLoggedOut, DeleteUser,
         RevokeUser, PresentToken, CallApi, Me, stores, At
  <2> QED
    BY <2>1 DEF Made, Exists
<1>4. AccountsGone'
  <2> SUFFICES ASSUME NEW d \in Requests, Removed(d)'
               PROVE  \E a \in Makers : a = req'[d].account /\ Made(a)' /\ ~Exists(a)'
    BY DEF AccountsGone, Made, Exists
  <2>1. CASE Removed(d)
    <3>1. req'[d] = req[d] /\ req[d].account \in Makers
      BY <2>1, AskedOnce, OwnRow, RequestFields DEF Removed, TypeInv, KindFits
    <3>2. Made(req[d].account) /\ ~Exists(req[d].account)
      BY <2>1 DEF GoneInv, AccountsGone
    <3>3. PICK a \in Makers : a = req[d].account
      BY <3>1
    <3>4. Made(a)' /\ ~Exists(a)'
      BY <1>3, <3>2, <3>3, MadeStays
    <3> QED
      BY <3>1, <3>3, <3>4
  <2>2. CASE ~Removed(d)
    <3>1. d = q
      BY <2>2, OwnRow DEF Removed, Makers
    <3>2. DeleteUser(q) /\ pc'[q] = "cut"
      BY <2>2, <3>1, RemovedBy
    <3>3. PICK a \in {user[s] : s \in Known} : DeleteUser(q)!2!(a)
      BY <3>2 DEF DeleteUser
    <3>4. a \in Makers /\ Made(a)
      BY DEF TypeInv, KnownOwned, GoneInv, OwnersMade, Known
    <3>5. req'[q].account = a
      BY <3>3 DEF Begin, TypeInv, TypeOK
    <3>6. emailOf' = [emailOf EXCEPT ![a] = None]
      BY <3>2, <3>3 DEF Answer, TypeInv, TypeOK
    <3>7. Made(a)' /\ ~Exists(a)'
      BY <1>2, <3>4, <3>6, MadeStays DEF Exists
    <3> QED
      BY <3>1, <3>4, <3>5, <3>7
  <2> QED
    BY <2>1, <2>2
<1> QED
  BY <1>1, <1>4 DEF GoneInv

\* A step stamps a request with the time at most.
LEMMA StampedNow ==
    ASSUME TypeInv, NEW r \in Requests, Handle(r)
    PROVE  \A s \in Makers : stamp'[s] \in {stamp[s], now}
<1>1. DOMAIN stamp = Makers /\ r \in Makers
  BY DEF TypeInv, TypeOK, Makers
<1>2. UNCHANGED stamp \/ stamp' = [stamp EXCEPT ![r] = now]
  BY DEF Handle, LookUpNew, CreateUser, LookUpLogin, FindRefreshToken, FindOwner,
     RevokeExchanged, Mint, StoreRefreshToken, LogOut, RevokeJti, RevokeLoggedOut, DeleteUser,
     RevokeUser, PresentToken, CallApi, Me, locals
<1> QED
  BY <1>1, <1>2

\* How a step changes the cutoffs: one is set, or one that expired is dropped.
LEMMA CutoffsChange ==
    ASSUME TypeInv, NEW r \in Requests, Handle(r), NEW a \in Makers, cutoffs'[a] # cutoffs[a]
    PROVE  \/ /\ RevokeUser(r) /\ a = req[r].account
              /\ cutoffs'[a] = CutOff(a)
              /\ cutoffs[a] # None => cutoffs[a].at < now
           \/ cutoffs[a] # None /\ cutoffs[a].until <= now /\ cutoffs'[a] = None
<1>1. /\ cutoffs \in [Makers -> [at : Nat, until : Nat] \cup {None}] /\ now \in Nat
      /\ \A s \in Known : user[s] \in Makers
  BY DEF TypeInv, TypeOK, KnownOwned
<1>2. CASE RevokeUser(r)
  <2>1. cutoffs[a] # None => cutoffs[a].at \in Nat
    BY <1>1
  <2>2. /\ a = req[r].account /\ cutoffs'[a] = CutOff(a)
        /\ ~(cutoffs[a] # None /\ cutoffs[a].at >= now)
    BY <1>1, <1>2 DEF RevokeUser
  <2> QED
    BY <1>1, <1>2, <2>1, <2>2
<1>3. CASE CallApi(r)
  <2>1. PICK s \in Known : s = req[r].session
    BY <1>3 DEF CallApi, At, TypeInv, PresentedKnown, Presents
  <2>2. /\ cutoffs' = [cutoffs EXCEPT ![user[s]] =
                           IF @ # None /\ @.until <= now THEN None ELSE @]
        /\ user[s] \in Makers
    BY <1>1, <1>3, <2>1 DEF CallApi, Prune
  <2>3. a = user[s] /\ cutoffs[a] # None /\ cutoffs[a].until <= now /\ cutoffs'[a] = None
    BY <1>1, <2>2
  <2> QED
    BY <2>3
<1>4. RevokeUser(r) \/ CallApi(r) \/ UNCHANGED cutoffs
  BY DEF Handle, LookUpNew, CreateUser, LookUpLogin, FindRefreshToken, FindOwner,
     RevokeExchanged, Mint, StoreRefreshToken, LogOut, RevokeJti, RevokeLoggedOut, DeleteUser,
     PresentToken, Me, stores
<1> QED
  BY <1>2, <1>3, <1>4

\* A deletion is answered when its user is cut off.
LEMMA DeletedBy ==
    ASSUME TypeInv, NEW q \in Requests, Handle(q), Deleted(q)'
    PROVE  RevokeUser(q) /\ Removed(q) /\ ~Deleted(q) /\ UNCHANGED req
<1>1. /\ DOMAIN pc = Requests /\ DOMAIN req = Requests /\ DOMAIN result = Makers
      /\ q \in Makers /\ result[q] = "none" /\ result'[q] = "ok" /\ req'[q].kind = "delete"
  <2>1. DOMAIN pc = Requests /\ DOMAIN req = Requests /\ DOMAIN result = Makers /\ q \in Makers
    BY DEF TypeInv, TypeOK, Makers
  <2>2. result[q] = "none"
    BY OwnRow DEF TypeInv, KindFits
  <2> QED
    BY <2>1, <2>2 DEF Deleted
<1>2. pc[q] # "new"
  <2> SUFFICES ASSUME pc[q] = "new" PROVE FALSE
    OBVIOUS
  <2>1. DeleteUser(q)
    BY <1>1, BegunBy
  <2> QED
    BY <1>1, <2>1 DEF DeleteUser, Goto, Answer
<1>3. pc[q] = "cut" /\ req[q].kind = "delete"
  BY <1>1, <1>2, AskedOnce, OwnRow DEF TypeInv, TypeOK, KindFits, Issues
<1>4. RevokeUser(q)
  BY <1>3 DEF Handle, LookUpNew, CreateUser, LookUpLogin, FindRefreshToken, FindOwner,
     RevokeExchanged, Mint, StoreRefreshToken, LogOut, RevokeJti, RevokeLoggedOut, DeleteUser,
     PresentToken, CallApi, Me, At
<1> QED
  BY <1>1, <1>3, <1>4 DEF Removed, Deleted, RevokeUser

\* The lifetime is a number of milliseconds.
LEMMA LifetimeNat == Lifetime \in Nat
<1>1. \A m, n \in Nat : m * n \in Nat
  OBVIOUS
<1> QED
  BY <1>1 DEF Lifetime

\* A cutoff is not nothing.
LEMMA CutOffType ==
    ASSUME TypeInv, NEW a \in Makers PROVE CutOff(a) # None
<1>1. now \in Nat /\ now + Lifetime \in Nat
  BY LifetimeNat DEF TypeInv, TypeOK
<1>2. \A m, n \in Nat : [at |-> m, until |-> n] # None
  OBVIOUS
<1>3. CutOff(a) = [at |-> now, until |-> now + Lifetime]
  BY DEF CutOff, Lifetime
<1> QED
  BY <1>1, <1>2, <1>3

\* The deletion that was answered keeps its account and its time.
LEMMA DeletedStays ==
    ASSUME TypeInv, NEW r \in Requests, Handle(r), NEW d \in Requests, Deleted(d)
    PROVE  d # r /\ req'[d] = req[d] /\ stamp'[d] = stamp[d] /\ req[d].account \in Makers
<1>1. pc[d] = "done"
  BY DEF Deleted, TypeInv, KindFits
<1>2. d # r
  BY <1>1, OwnRow
<1> QED
  BY <1>2, OwnRow, RequestFields DEF Deleted, Makers

LEMMA HandleCut ==
    ASSUME TypeInv, CutInv, NEW q \in Requests, Handle(q) PROVE CutInv'
<1>1. /\ now' = now /\ now \in Nat /\ Lifetime \in Nat
      /\ stamp \in [Makers -> Nat]
      /\ cutoffs \in [Makers -> [at : Nat, until : Nat] \cup {None}]
  BY OwnRow, LifetimeNat DEF TypeInv, TypeOK
<1>2. StampsPast'
  BY <1>1, StampedNow DEF CutInv, StampsPast
<1>3. \A a \in Makers : CutOff(a).at = now /\ CutOff(a).until = now + Lifetime
  BY DEF CutOff, Lifetime
<1>4. CutoffsFit'
  <2> SUFFICES ASSUME NEW a \in Makers, cutoffs'[a] # None
               PROVE  cutoffs'[a].at <= now /\ cutoffs'[a].until = cutoffs'[a].at + Lifetime
    BY <1>1 DEF CutoffsFit, Lifetime
  <2>1. CASE cutoffs'[a] = cutoffs[a]
    BY <2>1 DEF CutInv, CutoffsFit
  <2>2. CASE cutoffs'[a] # cutoffs[a]
    <3>1. cutoffs'[a] = CutOff(a)
      BY <2>2, CutoffsChange
    <3> QED
      BY <1>1, <1>3, <3>1
  <2> QED
    BY <2>1, <2>2
<1>5. CutoffsHold'
  <2> SUFFICES ASSUME NEW d \in Requests, Deleted(d)'
               PROVE  \E a \in Makers :
                          /\ a = req'[d].account
                          /\ \/ cutoffs'[a] # None /\ stamp'[d] <= cutoffs'[a].at
                             \/ stamp'[d] + Lifetime <= now
    BY <1>1 DEF CutoffsHold, Lifetime
  <2>1. CASE d # q
    <3>1. Deleted(d)
      BY <2>1, OwnRow DEF Deleted, Makers
    <3>2. req'[d] = req[d] /\ stamp'[d] = stamp[d] /\ req[d].account \in Makers
      BY <3>1, DeletedStays
    <3>3. PICK a \in Makers : a = req[d].account
      BY <3>2
    <3>4. \/ cutoffs[a] # None /\ stamp[d] <= cutoffs[a].at
          \/ stamp[d] + Lifetime <= now
      BY <3>1, <3>3 DEF CutInv, CutoffsHold
    <3>5. stamp[d] \in Nat /\ stamp[d] <= now
      BY <1>1 DEF CutInv, StampsPast, Makers
    <3>6. cutoffs[a] # None =>
              cutoffs[a].at \in Nat /\ cutoffs[a].until = cutoffs[a].at + Lifetime
      BY <1>1 DEF CutInv, CutoffsFit
    <3>7. CASE cutoffs'[a] = cutoffs[a]
      BY <3>2, <3>3, <3>4, <3>7
    <3>8. CASE cutoffs'[a] = CutOff(a) /\ cutoffs'[a] # cutoffs[a]
      <4>1. cutoffs'[a].at = now
        BY <1>3, <3>8
      <4>2. cutoffs'[a] # None
        BY <3>8, CutOffType
      <4> QED
        BY <3>2, <3>3, <3>5, <4>1, <4>2
    <3>9. CASE cutoffs[a] # None /\ cutoffs[a].until <= now
      <4>1. stamp[d] + Lifetime <= now
        BY <1>1, <3>4, <3>5, <3>6, <3>9
      <4> QED
        BY <3>2, <3>3, <4>1
    <3> QED
      BY <3>7, <3>8, <3>9, CutoffsChange
  <2>2. CASE d = q
    <3>1. RevokeUser(q) /\ req' = req /\ req[q].kind = "delete"
      BY <2>2, DeletedBy DEF Removed
    <3>2. PICK a \in Makers : a = req[q].account
      BY <3>1, RequestFields
    <3>3. stamp'[q] = now
      BY <1>1, <3>1 DEF RevokeUser, Makers
    <3>4. cutoffs'[a] # None /\ now <= cutoffs'[a].at
      <4>1. CASE cutoffs[a] # None /\ cutoffs[a].at >= now
        BY <1>1, <3>1, <3>2, <4>1 DEF RevokeUser
      <4>2. CASE ~(cutoffs[a] # None /\ cutoffs[a].at >= now)
        <5>1. cutoffs'[a] = CutOff(a)
          BY <1>1, <3>1, <3>2, <4>2 DEF RevokeUser
        <5>2. CutOff(a) # None
          BY CutOffType
        <5> QED
          BY <1>1, <1>3, <5>1, <5>2
      <4> QED
        BY <4>1, <4>2
    <3> QED
      BY <2>2, <3>1, <3>2, <3>3, <3>4
  <2> QED
    BY <2>1, <2>2
<1> QED
  BY <1>2, <1>4, <1>5 DEF CutInv

\* In the database a session handed out belongs to an account that exists, so none is
\* handed out for an account that is gone.
LEMMA HandleLastTokens ==
    ASSUME TypeInv, GoneInv, CutInv, LastTokens, NEW q \in Requests, Handle(q)
    PROVE  LastTokens'
<1> SUFFICES ASSUME mode' = "database", NEW d \in Requests, Deleted(d)',
                    NEW s \in Known', user'[s] = req'[d].account
             PROVE  stamp'[s] <= stamp'[d]
  BY DEF LastTokens
<1>1. mode = "database" /\ now \in Nat /\ stamp \in [Makers -> Nat] /\ s \in Makers
  BY OwnRow DEF TypeInv, TypeOK, Known
<1>2. CASE d = q
  <2>1. RevokeUser(q)
    BY <1>2, DeletedBy
  <2>2. stamp'[d] = now
    BY <1>1, <1>2, <2>1 DEF RevokeUser, Makers
  <2>3. stamp'[s] = now \/ stamp'[s] = stamp[s]
    BY <1>1, StampedNow
  <2>4. stamp[s] <= now
    BY <1>1 DEF CutInv, StampsPast
  <2> QED
    BY <1>1, <2>2, <2>3, <2>4
<1>3. CASE d # q
  <2>1. Deleted(d)
    BY <1>3, OwnRow DEF Deleted, Makers
  <2>2. req'[d] = req[d] /\ stamp'[d] = stamp[d]
    BY <2>1, DeletedStays
  <2>3. s \in Known
    <3> SUFFICES ASSUME s \notin Known PROVE FALSE
      OBVIOUS
    <3>1. s = q /\ StoreRefreshToken(q)
      BY NewlyKnown
    <3>2. Exists(user[q]) /\ user'[q] = user[q]
      BY <1>1, <3>1 DEF StoreRefreshToken, Answer, Known, HandedOut, TypeInv, TypeOK, locals
    <3>3. ~Exists(req[d].account)
      BY <2>1 DEF Deleted, Removed, GoneInv, AccountsGone
    <3> QED
      BY <2>2, <3>1, <3>2, <3>3
  <2>4. user'[s] = user[s] /\ stamp'[s] = stamp[s]
    BY <2>3, KnownStays
  <2>5. stamp[s] <= stamp[d]
    BY <1>1, <2>1, <2>2, <2>3, <2>4 DEF LastTokens
  <2> QED
    BY <2>2, <2>4, <2>5
<1> QED
  BY <1>2, <1>3

\* A token minted in a second expires a lifetime after that second.
LEMMA ExpiredByThen ==
    ASSUME NEW m \in Nat, NEW n \in Nat, m + Lifetime <= n
    PROVE  ~(n \div PerSecond < m \div PerSecond + AccessTtl)
<1>1. PerSecond \in Nat \ {0} /\ AccessTtl \in Nat /\ Lifetime \in Nat
  BY LifetimeNat
<1> DEFINE k == m \div PerSecond
<1>2. k \in Nat /\ k * PerSecond <= m
  BY <1>1
<1>3. (k + AccessTtl) * PerSecond = k * PerSecond + Lifetime
  BY <1>1, <1>2 DEF Lifetime
<1>4. k + AccessTtl \in Nat /\ k * PerSecond \in Nat
  BY <1>1, <1>2
<1>5. (k + AccessTtl) * PerSecond <= n
  BY <1>1, <1>2, <1>3, <1>4
<1> HIDE DEF k
<1>6. n \div PerSecond < k + AccessTtl <=> n < (k + AccessTtl) * PerSecond
  BY <1>4, Seconds
<1>7. (k + AccessTtl) * PerSecond \in Nat
  BY <1>1, <1>3, <1>4
<1>8. ~(n \div PerSecond < k + AccessTtl)
  BY <1>5, <1>6, <1>7
<1> QED
  BY <1>8 DEF k

\* A token that opens the API after the deletion was minted no earlier than it, and in
\* the database at its very moment, at the start of a second.
LEMMA OpensOvertaken ==
    ASSUME TypeInv, CutInv, LastTokens, NEW d \in Requests, Deleted(d),
           NEW s \in Known, user[s] = req[d].account, Verified(s), ~IsRevoked(s)
    PROVE  Overtaken(s, d)
<1> DEFINE a == req[d].account
<1>1. /\ a \in Makers /\ s \in Makers /\ d \in Makers /\ now \in Nat /\ Lifetime \in Nat
      /\ stamp[s] \in Nat /\ stamp[d] \in Nat /\ PerSecond \in Nat \ {0}
      /\ cutoffs \in [Makers -> [at : Nat, until : Nat] \cup {None}]
  BY KnownDone, RequestFields, LifetimeNat DEF Deleted, TypeInv, TypeOK, Makers
<1>2. ~(stamp[s] + Lifetime <= now)
  BY <1>1, ExpiredByThen DEF Verified, Exp, Iat
<1>3. stamp[s] <= now
  BY <1>1 DEF CutInv, StampsPast
<1>4. CASE stamp[d] + Lifetime <= now
  <2>1. stamp[d] < stamp[s]
    BY <1>1, <1>2, <1>4
  <2> QED
    BY <1>1, <2>1 DEF Overtaken, LastTokens
<1>5. CASE cutoffs[a] # None /\ stamp[d] <= cutoffs[a].at
  <2>1. /\ cutoffs[a].at \in Nat /\ cutoffs[a].until = cutoffs[a].at + Lifetime
    BY <1>1, <1>5 DEF CutInv, CutoffsFit
  <2>2. CASE cutoffs[a].until <= now
    <3>1. stamp[d] + Lifetime <= now
      BY <1>1, <1>5, <2>1, <2>2
    <3> QED
      BY <1>4, <3>1
  <2>3. CASE ~(cutoffs[a].until <= now)
    <3>1. ~UserRevoked(user[s], Iat(s))
      BY DEF IsRevoked
    <3>2. ~(Iat(s) * PerSecond < cutoffs[a].at)
      BY <1>1, <1>5, <2>1, <2>3, <3>1 DEF UserRevoked
    <3>3. Iat(s) \in Nat /\ Iat(s) * PerSecond \in Nat /\ Iat(s) * PerSecond <= stamp[s]
          /\ (Iat(s) * PerSecond = stamp[s] => stamp[s] % PerSecond = 0)
      BY <1>1 DEF Iat
    <3>4. stamp[d] <= Iat(s) * PerSecond /\ stamp[d] <= stamp[s]
      BY <1>1, <1>5, <2>1, <3>2, <3>3
    <3>5. CASE mode = "database"
      <4>1. stamp[s] <= stamp[d]
        BY <3>5 DEF LastTokens
      <4>2. stamp[s] = stamp[d] /\ Iat(s) * PerSecond = stamp[s]
        BY <1>1, <3>3, <3>4, <4>1
      <4> QED
        BY <3>3, <3>5, <4>2 DEF Overtaken
    <3>6. CASE mode # "database"
      BY <1>1, <3>4, <3>6 DEF Overtaken
    <3> QED
      BY <3>5, <3>6
  <2> QED
    BY <2>2, <2>3
<1> QED
  BY <1>4, <1>5 DEF CutInv, CutoffsHold

\* What Outside says of a request is kept by the steps that are not the request's first.
LEMMA OutsideStays ==
    ASSUME TypeInv, GoneInv, CutInv, LastTokens, NEW q \in Requests, Handle(q),
           NEW d \in Requests, NEW r \in Requests, Deleted(d), Outside(d, r),
           r # q \/ pc[q] # "new", req'[r] = req[r]
    PROVE  Outside(d, r)'
<1> USE DEF Presents
<1>1. req'[d] = req[d] /\ stamp'[d] = stamp[d] /\ mode' = mode /\ r \in Makers
  BY DeletedStays, OwnRow DEF Makers
<1>2. req[r].kind \in Presents =>
          /\ user'[req[r].session] = user[req[r].session]
          /\ stamp'[req[r].session] = stamp[req[r].session]
  BY KnownStays DEF TypeInv, PresentedKnown
<1>3. CASE r # q
  <2>1. /\ user'[r] = user[r] /\ pc'[r] = pc[r] /\ result'[r] = result[r]
        /\ stamp'[r] = stamp[r]
    BY <1>1, <1>3, OwnRow
  <2> QED
    BY <1>1, <1>2, <2>1 DEF Outside, Overtaken, Lapsed, Exp, Iat
<1>4. CASE r = q /\ pc[q] # "new"
  <2>1. result[q] = "none" /\ pc[q] # "done"
    BY OwnRow DEF TypeInv, KindFits
  <2>2. req[q].kind = "login" => user'[q] = user[q]
    <3>1. req[q].kind = "login" => Mint(q) \/ StoreRefreshToken(q)
      BY <1>4 DEF Handle, LookUpNew, CreateUser, LookUpLogin, FindRefreshToken, FindOwner,
         RevokeExchanged, LogOut, RevokeJti, RevokeLoggedOut, DeleteUser, RevokeUser,
         PresentToken, CallApi, Me, At
    <3> QED
      BY <3>1 DEF Mint, StoreRefreshToken, locals
  <2>3. ASSUME req[q].kind = "me", user[req[q].session] = req[d].account
        PROVE  result'[q] # "ok"
    <3>1. pc[q] = "verified"
      BY <1>4, <2>1, <2>3 DEF TypeInv, TypeOK, KindFits, Issues
    <3>2. Me(q)
      BY <2>3, <3>1 DEF Handle, LookUpNew, CreateUser, LookUpLogin, FindRefreshToken,
         FindOwner, RevokeExchanged, Mint, StoreRefreshToken, LogOut, RevokeJti,
         RevokeLoggedOut, DeleteUser, RevokeUser, PresentToken, CallApi, At
    <3>3. ~Exists(req[d].account)
      BY DEF Deleted, Removed, GoneInv, AccountsGone
    <3>4. Answer(q, "rejected")
      BY <2>3, <3>2, <3>3 DEF Me
    <3> QED
      BY <1>1, <1>4, <3>4 DEF Answer, TypeInv, TypeOK
  <2>5. ASSUME req[q].kind = "api", user[req[q].session] = req[d].account,
               result'[q] = "ok"
        PROVE  Lapsed(q)' \/ Overtaken(req[q].session, d)
    <3>1. /\ req'[q] = req[q] /\ CallApi(q)
          /\ DOMAIN stamp = Makers /\ DOMAIN result = Makers
      BY <1>4, <2>5, LetInBy DEF TypeInv, TypeOK
    <3>2. /\ ~IsRevoked(req[q].session) /\ stamp'[q] = now
      BY <1>1, <1>4, <2>5, <3>1 DEF CallApi, Answer
    <3>3. PICK s \in Known : s = req[q].session
      BY <2>5 DEF TypeInv, PresentedKnown
    <3>4. s \in Makers /\ now \in Nat /\ Exp(s) \in Nat /\ Exp(s) * PerSecond \in Nat
      BY KnownDone, ClaimTypes DEF TypeInv, TypeOK
    <3>5. CASE Verified(s)
      BY <2>5, <3>2, <3>3, <3>5, OpensOvertaken
    <3>6. CASE ~Verified(s)
      <4>1. now >= Exp(s) * PerSecond
        BY <3>4, <3>6, Seconds DEF Verified
      <4>2. stamp'[s] = stamp[s]
        BY KnownStays
      <4> QED
        BY <3>1, <3>2, <3>3, <4>1, <4>2, Zenon DEF Lapsed, Exp, Iat
    <3> QED
      BY <3>5, <3>6
  <2>4. ASSUME req[q].kind = "refresh", user[req[q].session] = req[d].account
        PROVE  pc'[q] = "found" \/ result'[q] = "rejected"
    <3>1. pc[q] = "found"
      BY <1>4, <2>1, <2>4 DEF Outside
    <3>2. FindOwner(q)
      BY <3>1, <2>4 DEF Handle, LookUpNew, CreateUser, LookUpLogin, FindRefreshToken,
         RevokeExchanged, Mint, StoreRefreshToken, LogOut, RevokeJti, RevokeLoggedOut, DeleteUser,
         RevokeUser, PresentToken, CallApi, Me, At
    <3>3. ~Exists(req[d].account)
      BY DEF Deleted, Removed, GoneInv, AccountsGone
    <3>4. Answer(q, "rejected")
      BY <2>4, <3>2, <3>3 DEF FindOwner
    <3> QED
      BY <1>1, <1>4, <3>4 DEF Answer, TypeInv, TypeOK
  <2> QED
    BY <1>1, <1>2, <1>4, <2>1, <2>2, <2>3, <2>4, <2>5 DEF Outside, Overtaken
<1> QED
  BY <1>3, <1>4

\* A request that begins after the deletion.
LEMMA OutsideBegins ==
    ASSUME TypeInv, GoneInv, CutInv, LastTokens, NEW q \in Requests, Handle(q), pc[q] = "new",
           NEW d \in Requests, Deleted(d)
    PROVE  Outside(d, q)'
<1>1. /\ DOMAIN req = Requests /\ DOMAIN pc = Requests /\ DOMAIN result = Makers
      /\ DOMAIN user = Makers /\ q \in Makers
      /\ req'[d] = req[d] /\ stamp'[d] = stamp[d] /\ mode' = mode
      /\ req[d].account \in Makers
  BY DeletedStays, OwnRow DEF TypeInv, TypeOK, Makers
<1>2. ~Exists(req[d].account)
  BY DEF Deleted, Removed, GoneInv, AccountsGone
<1>3. ASSUME req'[q].kind = "login", user'[q] = req[d].account PROVE result'[q] = "rejected"
  <2>1. LookUpLogin(q)
    BY <1>3, BegunBy
  <2>2. PICK e \in Emails, right \in BOOLEAN : LookUpLogin(q)!2!(e, right)
    BY <2>1 DEF LookUpLogin
  <2>3. FindByEmail(e) # req[d].account
    BY <1>1, <1>2 DEF FindByEmail
  <2>4. user' # [user EXCEPT ![q] = FindByEmail(e)]
    BY <1>1, <1>3, <2>3
  <2> QED
    BY <1>1, <2>2, <2>4 DEF Answer
<1>4. ASSUME req'[q].kind = "refresh" PROVE pc'[q] = "found" \/ result'[q] = "rejected"
  <2>1. FindRefreshToken(q)
    BY <1>4, BegunBy
  <2> QED
    BY <1>1, <2>1 DEF FindRefreshToken, Goto, Answer
<1>5. ASSUME req'[q].kind \in {"api", "me"} PROVE result'[q] # "ok"
  <2>1. PresentToken(q) /\ result[q] = "none"
    BY <1>5, BegunBy DEF TypeInv, KindFits
  <2> QED
    BY <1>1, <2>1 DEF PresentToken, Goto, Answer
<1> QED
  BY <1>1, <1>3, <1>4, <1>5 DEF Outside

LEMMA HandleOutside ==
    ASSUME TypeInv, BeforeDone, DeletedInv, NEW q \in Requests, Handle(q) PROVE LaterOutside'
<1> SUFFICES ASSUME NEW d \in Requests, NEW r \in Requests, d \in before'[r], Deleted(d)'
             PROVE  Outside(d, r)'
  BY DEF LaterOutside
<1>1. /\ Deleted(d)
      /\ r # q \/ pc[q] # "new" => d \in before[r] /\ req'[r] = req[r]
  BY EarlierStays DEF Deleted
<1>2. CASE r # q \/ pc[q] # "new"
  <2>1. Outside(d, r)
    BY <1>1, <1>2 DEF DeletedInv, LaterOutside
  <2> QED
    BY <1>1, <1>2, <2>1, OutsideStays DEF DeletedInv
<1>3. CASE r = q /\ pc[q] = "new"
  <2>1. Outside(d, q)'
    BY <1>1, <1>3, OutsideBegins DEF DeletedInv
  <2> QED
    BY <1>3, <2>1
<1> QED
  BY <1>2, <1>3

\* A moment passes: what was stamped, cut off or expired stays so.
LEMMA TickDeleted == TypeInv /\ DeletedInv /\ Tick => DeletedInv'
<1> SUFFICES ASSUME TypeInv, DeletedInv, Tick PROVE DeletedInv'
  OBVIOUS
<1>1. /\ now \in Nat /\ now' = now + 1 /\ Lifetime \in Nat
      /\ stamp \in [Makers -> Nat]
      /\ cutoffs \in [Makers -> [at : Nat, until : Nat] \cup {None}]
      /\ UNCHANGED <<mode, emailOf, index, refresh, jtis, cutoffs, pc, req, user, stamp,
                     result, before>>
  BY LifetimeNat DEF Tick, TypeInv, TypeOK, stores, locals
<1>2. StampsPast'
  BY <1>1 DEF DeletedInv, CutInv, StampsPast
<1>3. CutoffsFit'
  <2> SUFFICES ASSUME NEW a \in Makers, cutoffs[a] # None
               PROVE  cutoffs[a].at <= now' /\ cutoffs[a].until = cutoffs[a].at + Lifetime
    BY <1>1 DEF CutoffsFit, Lifetime
  <2>1. cutoffs[a].at \in Nat
    BY <1>1
  <2> QED
    BY <1>1, <2>1 DEF DeletedInv, CutInv, CutoffsFit
<1>4. CutoffsHold'
  <2> SUFFICES ASSUME NEW d \in Requests, Deleted(d)
               PROVE  \/ /\ cutoffs[req[d].account] # None
                         /\ stamp[d] <= cutoffs[req[d].account].at
                      \/ stamp[d] + Lifetime <= now'
    BY <1>1 DEF CutoffsHold, Lifetime, Deleted
  <2>1. stamp[d] \in Nat
    BY <1>1 DEF Makers
  <2> QED
    BY <1>1, <2>1 DEF DeletedInv, CutInv, CutoffsHold
<1>5. GoneInv'
  BY <1>1 DEF DeletedInv, GoneInv, OwnersMade, AccountsGone, Made, Removed, Exists
<1>6. LastTokens'
  BY <1>1 DEF DeletedInv, LastTokens, Deleted, Known, HandedOut
<1>7. LaterOutside'
  BY <1>1 DEF DeletedInv, LaterOutside, Deleted, Outside, Overtaken, Lapsed, Exp, Iat
<1> QED
  BY <1>2, <1>3, <1>4, <1>5, <1>6, <1>7 DEF DeletedInv, CutInv

LEMMA NextDeleted == TypeInv /\ BeforeDone /\ DeletedInv /\ [Next]_vars => DeletedInv'
<1> SUFFICES ASSUME TypeInv, BeforeDone, DeletedInv, [Next]_vars PROVE DeletedInv'
  OBVIOUS
<1>1. ASSUME NEW q \in Requests, Handle(q) PROVE DeletedInv'
  BY <1>1, HandleGone, HandleCut, HandleLastTokens, HandleOutside DEF DeletedInv
<1>2. CASE Tick
  BY <1>2, TickDeleted
<1>3. CASE UNCHANGED vars
  <2>1. UNCHANGED <<mode, now, emailOf, index, refresh, jtis, cutoffs, pc, req, user, stamp,
                    result, before>>
    BY <1>3 DEF vars, stores, locals
  <2>2. GoneInv'
    BY <2>1 DEF DeletedInv, GoneInv, OwnersMade, AccountsGone, Made, Removed, Exists
  <2>3. CutInv'
    BY <2>1 DEF DeletedInv, CutInv, StampsPast, CutoffsFit, CutoffsHold, Deleted, Lifetime
  <2>4. LastTokens' /\ LaterOutside'
    BY <2>1 DEF DeletedInv, LastTokens, Deleted, Known, HandedOut, LaterOutside, Outside,
                Overtaken, Lapsed, Exp, Iat
  <2> QED
    BY <2>2, <2>3, <2>4 DEF DeletedInv
<1> QED
  BY <1>1, <1>2, <1>3 DEF Next

LEMMA InitDeleted == Init => DeletedInv
<1> SUFFICES ASSUME Init PROVE DeletedInv
  OBVIOUS
<1>1. GoneInv
  BY DEF Init, GoneInv, OwnersMade, AccountsGone, Made, Removed, Idle, Makers
<1>2. CutInv /\ LastTokens /\ LaterOutside
  BY DEF Init, CutInv, StampsPast, CutoffsFit, CutoffsHold, LastTokens, LaterOutside, Deleted,
         Idle
<1> QED
  BY <1>1, <1>2 DEF DeletedInv

\* After the deletion of a user was answered nobody logs in, refreshes or is shown as
\* that user, at any moment and in both kinds of store; an access token opens the API
\* only if it expires between being verified and being looked up or if a request that the
\* deletion overtook minted it, and in the database the latter only in the millisecond of
\* the deletion.
THEOREM DeletionEnds == Spec => []DeletionEndsSessions
<1>1. TypeInv /\ BeforeDone /\ DeletedInv => DeletionEndsSessions
  <2> SUFFICES ASSUME TypeInv, BeforeDone, DeletedInv, NEW d \in Requests, NEW r \in Requests,
                      Precedes(d, {"delete"}, r, {"login", "refresh", "me", "api"}),
                      req[d].account = IF req[r].kind = "login" THEN user[r]
                                       ELSE user[req[r].session]
               PROVE  /\ req[r].kind = "api"
                      /\ Lapsed(r) \/ Overtaken(req[r].session, d)
    BY DEF DeletionEndsSessions, Overtaken
  <2>1. /\ d \in before[r] /\ Deleted(d)
        /\ req[r].kind \in {"login", "refresh", "me", "api"} /\ result[r] = "ok"
    BY DEF Precedes, Served, Deleted
  <2>2. Outside(d, r)
    BY <2>1 DEF DeletedInv, LaterOutside
  <2>3. pc[r] = "done"
    BY <2>1 DEF TypeInv, KindFits
  <2> QED
    BY <2>1, <2>2, <2>3 DEF Outside
<1> QED
  BY <1>1, InitType, NextType, NextBefore, InitDeleted, NextDeleted, InitSpent, PTL
     DEF Spec, SpentInv
=============================================================================
