------------------------------ MODULE AuthFlows ------------------------------
(***************************************************************************)
(* The legacy in-memory flows of auth/flows/index.ts: registration, e-mail *)
(* verification, login with lockout, password reset, refresh and logout,   *)
(* with every feature of the spec turned on.  The handlers run to the end  *)
(* in one step, but for the signing of the access token, which is awaited: *)
(* a login rotates the refresh token after it, a refresh before it.        *)
(***************************************************************************)
EXTENDS Integers, FiniteSets, Sequences

CONSTANTS Requests, None,
          Emails,
          MaxAttempts,    \* lockout.maxAttempts
          LockWindow,     \* lockout.windowMs
          TokenTtl,       \* lifetime of verification and reset tokens
          FlowTokens,     \* bound on the number of tokens generated
          MaxNow          \* bound on the clock

VARIABLES
    now,        \* Date.now()
    users,      \* per address: the AuthUser, or None
    revoked,    \* revokedRefreshTokens
    generated,  \* how many tokens generateToken() has made
    signing,    \* per request: [kind, email] while its access token is signed
    guesses,    \* history: per address, when a wrong password was tried since a login
    uses        \* history: per refresh token, how often it was exchanged or logged out

flowOwn == <<users, revoked, generated, signing, guesses, uses>>
flowVars == <<now, flowOwn>>

Tokens == 1..FlowTokens

MailedLinks == [token : Tokens, until : Nat] \cup {None}

Accounts ==
    [verified : BOOLEAN, verification : MailedLinks, reset : MailedLinks, refresh : Tokens \cup {None},
     failed : 0..(MaxAttempts - 1), lockedUntil : Nat]

AuthFlowsAssumption ==
    /\ MaxAttempts \in Nat \ {0} /\ LockWindow \in Nat \ {0}
    /\ TokenTtl \in Nat /\ FlowTokens \in Nat /\ MaxNow \in Nat
    /\ None \notin Nat \cup Accounts

Token == generated + 1   \* what generateToken() returns next

Init ==
    /\ now = 0
    /\ users = [e \in Emails |-> None]
    /\ revoked = {}
    /\ generated = 0
    /\ signing = [r \in Requests |-> None]
    /\ guesses = [e \in Emails |-> <<>>]
    /\ uses = [t \in Tokens |-> 0]

Generate == generated < FlowTokens /\ generated' = generated + 1

Registered == {e \in Emails : users[e] # None}

Register ==
    /\ Generate
    /\ \E e \in Emails \ Registered :
           users' = [users EXCEPT ![e] =
               [verified |-> FALSE,
                verification |-> [token |-> Token, until |-> now + TokenTtl],
                reset |-> None, refresh |-> None, failed |-> 0, lockedUntil |-> 0]]
    /\ UNCHANGED <<now, revoked, signing, guesses, uses>>

VerifyEmail ==
    /\ \E e \in Registered :
           /\ users[e].verification # None /\ now <= users[e].verification.until
           /\ ~users[e].verified
           /\ users' = [users EXCEPT ![e].verified = TRUE, ![e].verification = None]
    /\ UNCHANGED <<now, revoked, generated, signing, guesses, uses>>

Locked(u) == now < u.lockedUntil

FailedKept(u) == [u EXCEPT !.failed = @ + 1]  \* mutant: the account is never locked

Failed(u) ==
    IF u.failed + 1 >= MaxAttempts
    THEN [u EXCEPT !.failed = 0, !.lockedUntil = now + LockWindow]
    ELSE [u EXCEPT !.failed = @ + 1]

WrongPassword ==
    /\ \E e \in Registered :
           /\ ~Locked(users[e])
           /\ users' = [users EXCEPT ![e] = Failed(@)]
           /\ guesses' = [guesses EXCEPT ![e] = Append(@, now)]
    /\ UNCHANGED <<now, revoked, generated, signing, uses>>

\* The attempts are forgotten before the token is signed; an unverified account is
\* turned away without touching them.
LogIn(r) ==
    /\ signing[r] = None
    /\ \E e \in Registered :
           /\ ~Locked(users[e]) /\ users[e].verified
           /\ users' = [users EXCEPT ![e].failed = 0, ![e].lockedUntil = 0]
           /\ guesses' = [guesses EXCEPT ![e] = <<>>]
           /\ signing' = [signing EXCEPT ![r] = [kind |-> "login", email |-> e]]
    /\ UNCHANGED <<now, revoked, generated, uses>>

\* The account's refresh token is replaced by t.
Rotated(e, t) == [users EXCEPT ![e].refresh = t]

LoginSigned(r) ==
    LET e == signing[r].email IN
    /\ signing[r] # None /\ signing[r].kind = "login"
    /\ Generate
    /\ revoked' = IF users[e].refresh = None THEN revoked ELSE revoked \cup {users[e].refresh}
    /\ users' = Rotated(e, Token)
    /\ signing' = [signing EXCEPT ![r] = None]
    /\ UNCHANGED <<now, guesses, uses>>

ForgotPassword ==
    /\ Generate
    /\ \E e \in Registered :
           users' = [users EXCEPT ![e].reset = [token |-> Token, until |-> now + TokenTtl]]
    /\ UNCHANGED <<now, revoked, signing, guesses, uses>>

\* An expired token is forgotten like one that is used; changing the password touches
\* neither the lock nor the refresh token.
ResetPassword ==
    /\ \E e \in Registered :
           users[e].reset # None /\ users' = [users EXCEPT ![e].reset = None]
    /\ UNCHANGED <<now, revoked, generated, signing, guesses, uses>>

Used(t) == uses' = [uses EXCEPT ![t] = @ + 1]

\* mutant: the rotation is left until after the signature
ExchangedLate(e, t) == UNCHANGED <<users, revoked>>

Exchanged(e, t) == users' = Rotated(e, Token) /\ revoked' = revoked \cup {t}

Refresh(r) ==
    /\ signing[r] = None
    /\ Generate
    /\ \E e \in Registered, t \in Tokens :
           /\ t \notin revoked /\ users[e].refresh = t
           /\ Exchanged(e, t)
           /\ Used(t)
    /\ signing' = [signing EXCEPT ![r] = [kind |-> "refresh"]]
    /\ UNCHANGED <<now, guesses>>

RefreshSigned(r) ==
    /\ signing[r] # None /\ signing[r].kind = "refresh"
    /\ signing' = [signing EXCEPT ![r] = None]
    /\ UNCHANGED <<now, users, revoked, generated, guesses, uses>>

Logout ==
    /\ \E e \in Registered :
           /\ users[e].refresh # None
           /\ revoked' = revoked \cup {users[e].refresh}
           /\ Used(users[e].refresh)
           /\ users' = Rotated(e, None)
    /\ UNCHANGED <<now, generated, signing, guesses>>

Tick == now < MaxNow /\ now' = now + 1 /\ UNCHANGED flowOwn

Next ==
    \/ Tick \/ Register \/ VerifyEmail \/ WrongPassword \/ ForgotPassword \/ ResetPassword \/ Logout
    \/ \E r \in Requests : LogIn(r) \/ LoginSigned(r) \/ Refresh(r) \/ RefreshSigned(r)
-----------------------------------------------------------------------------
TypeOK ==
    /\ now \in Nat /\ generated \in 0..FlowTokens /\ revoked \subseteq Tokens
    /\ users \in [Emails -> {None} \cup Accounts]
    /\ signing \in [Requests -> {None, [kind |-> "refresh"]}
                                \cup [kind : {"login"}, email : Emails]]
    /\ guesses \in [Emails -> Seq(Nat)]
    /\ uses \in [Tokens -> Nat]

\* The lockout holds an attacker to MaxAttempts passwords in any LockWindow consecutive
\* milliseconds, across the lock's expiry, the reset of the counter and a password reset,
\* unless the owner logged in in between.
GuessesBounded ==
    \A e \in Emails, t \in 0..now :
        Cardinality({i \in DOMAIN guesses[e] : guesses[e][i] \in t..(t + LockWindow - 1)})
            <= MaxAttempts

\* A refresh token is exchanged or logged out once in all, and the one an account holds
\* is never a revoked one, however logins and refreshes overlap in the signing.
ExchangedOnce ==
    /\ \A t \in Tokens : uses[t] <= 1
    /\ \A e \in Registered : users[e].refresh \notin revoked
=============================================================================
