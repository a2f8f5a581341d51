----------------------------- MODULE JwtSessions -----------------------------
(***************************************************************************)
(* The JWT user system: the routes of auth/jwt-routes.ts over the user,    *)
(* refresh token and revocation stores, the deletion of a user             *)
(* (runtime/index.ts) and the middleware that admits access tokens         *)
(* (auth/middleware.ts).  Every store call is an await, and requests       *)
(* interleave there.                                                       *)
(*                                                                         *)
(* An account, an access token and a refresh token are named by the        *)
(* request that made them.  The clock counts milliseconds, PerSecond of    *)
(* them to the second.                                                     *)
(***************************************************************************)
EXTENDS Integers, FiniteSets

CONSTANTS Requests,
          First,      \* the session and the account that exist at the start
          Emails,
          FirstEmail, \* the address of First
          None,
          Modes,      \* the stores the runtime may have chosen
          PerSecond,  \* milliseconds to the second
          AccessTtl,  \* lifetime of an access token, in seconds
          RefreshTtl, \* lifetime of a refresh token, in milliseconds
          MaxNow      \* bound on the clock

VARIABLES
    mode,    \* "memory" or "database"
    now,     \* Date.now()
    emailOf, \* the users: the address of each account, or None
    index,   \* byEmail of the memory store, the unique index of the database
    refresh, \* the refresh tokens: [revoked, until], or None
    jtis,    \* revoked access tokens, with the time the entry expires (0: none)
    cutoffs, \* revoked users: [at, until], or None
    pc, req, \* where each request is, and what it asks
    user,    \* the account it found or made
    stamp,   \* the time it read: its token minted, its user cut off or the token looked up
    result,  \* its answer
    before   \* history: the requests that had been answered when it began

stores == <<emailOf, index, refresh, jtis, cutoffs>>
locals == <<user, stamp>>
vars == <<mode, now, stores, pc, req, locals, result, before>>

Makers == Requests \cup {First}

ASSUME SessionsAssumption ==
    /\ First \notin Requests
    /\ None \notin Makers /\ None \notin Emails /\ None \notin [at : Nat, until : Nat]
    /\ FirstEmail \in Emails
    /\ Modes \subseteq {"memory", "database"}
    /\ PerSecond \in Nat \ {0} /\ AccessTtl \in Nat \ {0}
    /\ RefreshTtl \in Nat \ {0} /\ MaxNow \in Nat

Idle == [kind |-> "none"]

Init ==
    /\ mode \in Modes
    /\ now = 0
    /\ emailOf = [a \in Makers |-> IF a = First THEN FirstEmail ELSE None]
    /\ index = [e \in Emails |-> IF e = FirstEmail THEN First ELSE None]
    /\ refresh = [s \in Makers |->
                     IF s = First THEN [revoked |-> FALSE, until |-> RefreshTtl] ELSE None]
    /\ jtis = [s \in Makers |-> 0]
    /\ cutoffs = [a \in Makers |-> None]
    /\ pc = [r \in Requests |-> "new"]
    /\ req = [r \in Requests |-> Idle]
    /\ user = [s \in Makers |-> IF s = First THEN First ELSE None]
    /\ stamp = [s \in Makers |-> 0]
    /\ result = [s \in Makers |-> IF s = First THEN "ok" ELSE "none"]
    /\ before = [r \in Requests |-> {}]

(***************************************************************************)
(* Requests.  Clients present tokens they were given.                      *)
(***************************************************************************)
Issues == {"register", "login", "refresh"}

HandedOut(s) == result[s] = "ok" /\ (s # First => req[s].kind \in Issues)

Known == {s \in Makers : HandedOut(s)}

\* A request counts from its first call to a store.  It may go no further after any
\* call: nothing makes the process that serves it survive.
Begin(r, q) ==
    /\ req' = [req EXCEPT ![r] = q]
    /\ before' = [before EXCEPT ![r] = {s \in Requests : pc[s] = "done"}]

At(r, label, kinds) == pc[r] = label /\ req[r].kind \in kinds

Goto(r, label) == pc' = [pc EXCEPT ![r] = label] /\ UNCHANGED result

Answer(r, a) ==
    /\ pc' = [pc EXCEPT ![r] = "done"]
    /\ result' = [result EXCEPT ![r] = a]

(***************************************************************************)
(* POST /auth/register and POST /auth/login                                *)
(***************************************************************************)
Exists(a) == emailOf[a] # None

FindByEmailNever(e) == None  \* mutant: the address is not looked up

FindByEmail(e) == IF index[e] # None /\ Exists(index[e]) THEN index[e] ELSE None

LookUpNew(r) ==
    /\ pc[r] = "new"
    /\ \E e \in Emails :
           /\ Begin(r, [kind |-> "register", email |-> e])
           /\ IF FindByEmail(e) # None THEN Answer(r, "rejected") ELSE Goto(r, "create")
    /\ UNCHANGED <<mode, now, stores, locals>>

\* The memory store keeps whatever it is given; the database has a unique index.
CreateUser(r) ==
    /\ At(r, "create", {"register"})
    /\ IF mode = "database" /\ index[req[r].email] # None
       THEN Answer(r, "rejected") /\ UNCHANGED <<emailOf, index, user>>
       ELSE /\ emailOf' = [emailOf EXCEPT ![r] = req[r].email]
            /\ index' = [index EXCEPT ![req[r].email] = r]
            /\ user' = [user EXCEPT ![r] = r]
            /\ Goto(r, "mint")
    /\ UNCHANGED <<mode, now, refresh, jtis, cutoffs, req, stamp, before>>

CredentialsRight(a, right) == right  \* mutant: an unknown address is let through

Credentials(a, right) == a # None /\ right

\* `right` is the verdict of verifyPassword.
LookUpLogin(r) ==
    /\ pc[r] = "new"
    /\ \E e \in Emails, right \in BOOLEAN :
           /\ Begin(r, [kind |-> "login", email |-> e])
           /\ IF Credentials(FindByEmail(e), right)
              THEN user' = [user EXCEPT ![r] = FindByEmail(e)] /\ Goto(r, "mint")
              ELSE Answer(r, "rejected") /\ UNCHANGED user
    /\ UNCHANGED <<mode, now, stores, stamp>>

(***************************************************************************)
(* POST /auth/refresh                                                      *)
(***************************************************************************)
UsableUnchecked(s) == refresh[s] # None /\ now < refresh[s].until  \* mutant: revoked tokens pass

Usable(s) == refresh[s] # None /\ ~refresh[s].revoked /\ now < refresh[s].until

FindRefreshToken(r) ==
    /\ pc[r] = "new"
    /\ \E s \in Known :
           /\ Begin(r, [kind |-> "refresh", session |-> s])
           /\ IF Usable(s) THEN Goto(r, "found") ELSE Answer(r, "rejected")
    /\ UNCHANGED <<mode, now, stores, locals>>

FindOwner(r) ==
    LET a == user[req[r].session] IN
    /\ At(r, "found", {"refresh"})
    /\ IF Exists(a)
       THEN user' = [user EXCEPT ![r] = a] /\ Goto(r, "revoke")
       ELSE Answer(r, "rejected") /\ UNCHANGED user
    /\ UNCHANGED <<mode, now, stores, req, stamp, before>>

NotRevoked(s) == refresh  \* mutant: the token presented stays usable

Revoked(s) == IF refresh[s] = None THEN refresh ELSE [refresh EXCEPT ![s].revoked = TRUE]

RevokeExchanged(r) ==
    /\ At(r, "revoke", {"refresh"})
    /\ refresh' = Revoked(req[r].session)
    /\ Goto(r, "mint")
    /\ UNCHANGED <<mode, now, emailOf, index, jtis, cutoffs, req, locals, before>>

(***************************************************************************)
(* issueTokens: the access token is minted, then the refresh token stored. *)
(* In the database it belongs to a user that must exist.                   *)
(***************************************************************************)
Mint(r) ==
    /\ At(r, "mint", Issues)
    /\ stamp' = [stamp EXCEPT ![r] = now]
    /\ Goto(r, "store")
    /\ UNCHANGED <<mode, now, stores, req, user, before>>

StoreRefreshToken(r) ==
    /\ At(r, "store", Issues)
    /\ IF mode = "database" /\ ~Exists(user[r])
       THEN Answer(r, "rejected") /\ UNCHANGED refresh
       ELSE /\ refresh' = [refresh EXCEPT ![r] = [revoked |-> FALSE, until |-> now + RefreshTtl]]
            /\ Answer(r, "ok")
    /\ UNCHANGED <<mode, now, emailOf, index, jtis, cutoffs, req, locals, before>>

\* The claims of the access token of session s: seconds, like NumericDate.
Iat(s) == stamp[s] \div PerSecond
Exp(s) == Iat(s) + AccessTtl

\* verify(): the signature is good, and the expiry is compared in seconds.
Verified(s) == now \div PerSecond < Exp(s)

(***************************************************************************)
(* POST /auth/logout: the access token is verified, then revoked, then the *)
(* refresh token is.                                                       *)
(***************************************************************************)
LogOut(r) ==
    /\ pc[r] = "new"
    /\ \E s \in Known, access, token \in BOOLEAN :
           /\ Begin(r, [kind |-> "logout", session |-> s, access |-> access, token |-> token])
           /\ Goto(r, IF access /\ Verified(s) THEN "verified" ELSE "ending")
    /\ UNCHANGED <<mode, now, stores, locals>>

RevokeJti(r) ==
    LET s == req[r].session IN
    /\ At(r, "verified", {"logout"})
    /\ jtis' = [jtis EXCEPT ![s] = Exp(s) * PerSecond]
    /\ Goto(r, "ending")
    /\ UNCHANGED <<mode, now, emailOf, index, refresh, cutoffs, req, locals, before>>

\* Found, then revoked unless it is already: the flag only ever rises, so one step.
RevokeLoggedOut(r) ==
    /\ At(r, "ending", {"logout"})
    /\ refresh' = IF req[r].token THEN Revoked(req[r].session) ELSE refresh
    /\ Answer(r, "ok")
    /\ UNCHANGED <<mode, now, emailOf, index, jtis, cutoffs, req, locals, before>>

(***************************************************************************)
(* deleteSystemResource("User", id), then revokeUser.  The database        *)
(* removes the user's refresh tokens with the row and rejects a second     *)
(* deletion; the memory stores keep the tokens.                            *)
(***************************************************************************)
TokensKept(a) == refresh  \* mutant: no cascade to the refresh tokens

TokensLeft(a) ==
    [s \in Makers |-> IF mode = "database" /\ user[s] = a THEN None ELSE refresh[s]]

DeleteUser(r) ==
    /\ pc[r] = "new"
    /\ \E a \in {user[s] : s \in Known} :
           /\ Begin(r, [kind |-> "delete", account |-> a])
           /\ IF mode = "database" /\ ~Exists(a)
              THEN Answer(r, "rejected") /\ UNCHANGED <<emailOf, index, refresh>>
              ELSE /\ emailOf' = [emailOf EXCEPT ![a] = None]
                   /\ index' = [e \in Emails |-> IF e = emailOf[a] THEN None ELSE index[e]]
                   /\ refresh' = TokensLeft(a)
                   /\ Goto(r, "cut")
    /\ UNCHANGED <<mode, now, jtis, cutoffs, locals>>

\* mutant: the lifetime's seconds are added to milliseconds
CutOffBriefly(a) == [at |-> now, until |-> now + AccessTtl \div PerSecond]

CutOff(a) == [at |-> now, until |-> now + AccessTtl * PerSecond]

\* The memory store keeps the latest cutoff.
RevokeUser(r) ==
    LET a == req[r].account IN
    /\ At(r, "cut", {"delete"})
    /\ stamp' = [stamp EXCEPT ![r] = now]
    /\ cutoffs' = IF cutoffs[a] # None /\ cutoffs[a].at >= now THEN cutoffs
                  ELSE [cutoffs EXCEPT ![a] = CutOff(a)]
    /\ Answer(r, "ok")
    /\ UNCHANGED <<mode, now, emailOf, index, refresh, jtis, req, user, before>>

(***************************************************************************)
(* A request with an access token: tryJwt in front of the API, and         *)
(* GET /auth/me, which is not behind the middleware.  Both await verify(), *)
(* then a store; isRevoked reads the clock anew.                           *)
(***************************************************************************)
PresentToken(r) ==
    /\ pc[r] = "new"
    /\ \E s \in Known, kind \in {"api", "me"} :
           /\ Begin(r, [kind |-> kind, session |-> s])
           /\ IF Verified(s) THEN Goto(r, "verified") ELSE Answer(r, "rejected")
    /\ UNCHANGED <<mode, now, stores, locals>>

JtiRevoked(s) == jtis[s] > now

UserRevoked(a, iat) ==
    cutoffs[a] # None /\ cutoffs[a].until > now /\ iat * PerSecond < cutoffs[a].at

IsRevoked(s) == JtiRevoked(s) \/ UserRevoked(user[s], Iat(s))

\* The memory store drops the expired entries it comes across.
Prune(s) ==
    IF mode = "memory" /\ ~JtiRevoked(s)
    THEN /\ jtis' = [jtis EXCEPT ![s] = 0]
         /\ cutoffs' = [cutoffs EXCEPT ![user[s]] =
                           IF @ # None /\ @.until <= now THEN None ELSE @]
    ELSE UNCHANGED <<jtis, cutoffs>>

CallApi(r) ==
    LET s == req[r].session IN
    /\ At(r, "verified", {"api"})
    /\ stamp' = [stamp EXCEPT ![r] = now]
    /\ Answer(r, IF IsRevoked(s) THEN "rejected" ELSE "ok")
    /\ Prune(s)
    /\ UNCHANGED <<mode, now, emailOf, index, refresh, req, user, before>>

Me(r) ==
    /\ At(r, "verified", {"me"})
    /\ Answer(r, IF Exists(user[req[r].session]) THEN "ok" ELSE "rejected")
    /\ UNCHANGED <<mode, now, stores, req, locals, before>>

Tick ==
    /\ now < MaxNow
    /\ now' = now + 1
    /\ UNCHANGED <<mode, stores, pc, req, locals, result, before>>

Handle(r) ==
    \/ LookUpNew(r) \/ CreateUser(r) \/ LookUpLogin(r)
    \/ FindRefreshToken(r) \/ FindOwner(r) \/ RevokeExchanged(r)
    \/ Mint(r) \/ StoreRefreshToken(r)
    \/ LogOut(r) \/ RevokeJti(r) \/ RevokeLoggedOut(r)
    \/ DeleteUser(r) \/ RevokeUser(r)
    \/ PresentToken(r) \/ CallApi(r) \/ Me(r)

Next == Tick \/ \E r \in Requests : Handle(r)

Spec == Init /\ [][Next]_vars
-----------------------------------------------------------------------------
\* Types; and a request that issues tokens knows whose they are.
TypeOK ==
    /\ mode \in {"memory", "database"}
    /\ now \in Nat
    /\ emailOf \in [Makers -> Emails \cup {None}]
    /\ index \in [Emails -> Makers \cup {None}]
    /\ refresh \in [Makers -> [revoked : BOOLEAN, until : Nat] \cup {None}]
    /\ jtis \in [Makers -> Nat]
    /\ cutoffs \in [Makers -> [at : Nat, until : Nat] \cup {None}]
    /\ pc \in [Requests -> {"new", "create", "found", "revoke", "mint", "store",
                            "verified", "ending", "cut", "done"}]
    /\ req \in [Requests -> {Idle}
                    \cup [kind : {"register", "login"}, email : Emails]
                    \cup [kind : {"refresh", "me", "api"}, session : Makers]
                    \cup [kind : {"logout"}, session : Makers, access : BOOLEAN, token : BOOLEAN]
                    \cup [kind : {"delete"}, account : Makers]]
    /\ user \in [Makers -> Makers \cup {None}]
    /\ \A r \in Requests : pc[r] \in {"mint", "store"} => user[r] # None
    /\ stamp \in [Makers -> Nat]
    /\ result \in [Makers -> {"none", "ok", "rejected"}]
    /\ before \in [Requests -> SUBSET Requests]

\* d was answered "ok" before r began, and r was then answered "ok" too.
Served(r, kinds) == req[r].kind \in kinds /\ result[r] = "ok"

Precedes(d, dkinds, r, rkinds) ==
    Served(d, dkinds) /\ Served(r, rkinds) /\ d \in before[r]

\* Of two exchanges of one refresh token at least one fails, unless they overlapped
\* (the token is read and revoked in two calls).
TokenExchangedOnce ==
    \A d, r \in Requests :
        Precedes(d, {"refresh"}, r, {"refresh"}) => req[d].session # req[r].session

\* The access token r presented had not expired when r was told to verify it, and had
\* when r came to look it up.
Lapsed(r) == stamp[r] >= Exp(req[r].session) * PerSecond

\* What a logout was given is over: its refresh token is not exchanged afterwards and
\* its access token does not open the API, up to its expiry and after, but for one race:
\* a token verified just before it expires, and looked up after the revocation's own end.
LogoutEndsSession ==
    \A d, r \in Requests :
        /\ Precedes(d, {"logout"}, r, {"refresh", "api"})
        /\ req[d].session = req[r].session
        => ~(IF req[r].kind = "api" THEN req[d].access /\ ~Lapsed(r) ELSE req[d].token)

\* After the deletion of a user nobody logs in, refreshes or is shown as that user, and
\* an access token opens the API only if it expired between its verification and its
\* look-up, if it was minted by a request the deletion overtook, or in the very
\* millisecond of the deletion; the database rules the second out, for a request that is
\* overtaken fails on the missing user.
DeletionEndsSessions ==
    \A d, r \in Requests :
        /\ Precedes(d, {"delete"}, r, {"login", "refresh", "me", "api"})
        /\ req[d].account = IF req[r].kind = "login" THEN user[r] ELSE user[req[r].session]
        => /\ req[r].kind = "api"
           /\ LET minted == stamp[req[r].session] IN
              \/ Lapsed(r)
              \/ IF mode = "database"
                 THEN minted = stamp[d] /\ minted % PerSecond = 0
                 ELSE minted >= stamp[d]

\* Two registrations of one address both succeed only if they overlapped, in memory, or
\* if an account was deleted in between.
EmailRegisteredOnce ==
    \A d, r \in Requests :
        /\ Precedes(d, {"register"}, r, {"register"})
        /\ req[d].email = req[r].email
        => \E x \in Requests : req[x].kind = "delete"

\* In the database two accounts never have the same address, and every refresh token
\* belongs to a user who exists, whatever was interleaved or broken off.
DatabaseConsistent ==
    mode = "database" =>
        /\ \A a, b \in Makers : Exists(a) /\ Exists(b) /\ a # b => emailOf[a] # emailOf[b]
        /\ \A s \in Makers : refresh[s] # None => Exists(user[s])

\* A logout's access token is refused everywhere, GET /auth/me included.
LogoutEndsMe ==
    \A d, r \in Requests :
        /\ Precedes(d, {"logout"}, r, {"me"})
        /\ req[d].session = req[r].session
        => ~req[d].access
=============================================================================
