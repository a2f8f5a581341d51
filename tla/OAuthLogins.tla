----------------------------- MODULE OAuthLogins -----------------------------
(***************************************************************************)
(* Login through Google, GitHub or (not yet) Apple: auth/oauth-routes.ts   *)
(* over the state store, the account links and the users, one step per     *)
(* await.  Links and states stay in memory even when the users are in the  *)
(* database, which is what the runtime chooses.                            *)
(*                                                                         *)
(* A provider names whoever logs in by an id of its own and reports an     *)
(* address, which may differ from one login to the next; the id is what    *)
(* the links are kept by.  An account is named by the callback that        *)
(* created it, and has the address reported then.                          *)
(***************************************************************************)
EXTENDS Integers, FiniteSets

CONSTANTS Requests, None,
          Emails,
          Implemented,  \* the providers of auth.oauth, but for Apple
          ProviderIds,  \* the ids by which a provider knows its users
          StateIds,     \* the random states
          GcAt,         \* how many states make create() drop the expired ones
          StateTtl,
          MaxNow        \* bound on the clock

VARIABLES
    now,       \* Date.now()
    users,     \* where the users are: "memory" or "database"
    states,    \* the state store: per state [provider, until], or None
    drawn,     \* the states drawn so far
    accounts,  \* the address of each account, or None
    byEmail,   \* the index on addresses: unique in the database, last writer in memory
    links,     \* per provider and id: the linked account, or None
    pc,        \* per callback
    call,      \* per callback: the [provider, state] it consumed, or None
    reported,  \* per callback: the [id, email] its provider reports, or None
    account,   \* per callback: the account found or made, or None
    after      \* history: per callback, the callbacks answered before it began

oauthOwn == <<users, states, drawn, accounts, byEmail, links, pc, call, reported,
              account, after>>
oauthVars == <<now, oauthOwn>>

OAuthLoginsAssumption ==
    /\ None \notin Emails \cup Requests
    /\ None \notin [provider : Implemented, state : StateIds]
    /\ None \notin [id : ProviderIds, email : Emails]
    /\ GcAt \in Nat /\ StateTtl \in Nat \ {0} /\ MaxNow \in Nat

Init ==
    /\ now = 0
    /\ users \in {"memory", "database"}
    /\ states = [s \in StateIds |-> None]
    /\ drawn = {}
    /\ accounts = [r \in Requests |-> None]
    /\ byEmail = [e \in Emails |-> None]
    /\ links = [i \in Implemented \X ProviderIds |-> None]
    /\ pc = [r \in Requests |-> "new"]
    /\ call = [r \in Requests |-> None]
    /\ reported = [r \in Requests |-> None]
    /\ account = [r \in Requests |-> None]
    /\ after = [r \in Requests |-> {}]

\* GET /auth/oauth/:provider: 404 and 501 come before a state is drawn.
Authorize ==
    /\ \E provider \in Implemented, s \in StateIds \ drawn :
           LET kept == {t \in StateIds : states[t] # None
                           /\ (Cardinality({u \in StateIds : states[u] # None}) < GcAt
                                  \/ now < states[t].until)} IN
           /\ drawn' = drawn \cup {s}
           /\ states' = [t \in StateIds |->
                 IF t = s THEN [provider |-> provider, until |-> now + StateTtl]
                 ELSE IF t \in kept THEN states[t] ELSE None]
    /\ UNCHANGED <<now, users, accounts, byEmail, links, pc, call, reported, account, after>>

Goto(r, label) == pc' = [pc EXCEPT ![r] = label]

\* The answered callbacks precede the one that begins.
Begins(r) ==
    /\ pc[r] = "new"
    /\ after' = [after EXCEPT ![r] = {d \in Requests : pc[d] \in {"ok", "refused"}}]
    /\ UNCHANGED <<now, users, drawn, accounts, byEmail, links, reported, account>>

\* A provider that is unknown, not implemented or not configured, ?error=, no code or no
\* state: the callback is refused before it looks at its state, which stays good.
TurnAway(r) == Begins(r) /\ Goto(r, "refused") /\ UNCHANGED <<states, call>>

DeletedWhenGood(s, good) == good  \* mutant: a state that is refused stays

Deleted(s, good) == TRUE

\* The callback consumes its state before it looks at the expiry and at the provider.
Callback(r) ==
    /\ Begins(r)
    /\ \E provider \in Implemented, s \in drawn :
           LET rec == states[s]
               good == rec # None /\ now < rec.until /\ rec.provider = provider
           IN /\ call' = [call EXCEPT ![r] = [provider |-> provider, state |-> s]]
              /\ states' = IF Deleted(s, good) THEN [states EXCEPT ![s] = None] ELSE states
              /\ Goto(r, IF good THEN "exchange" ELSE "refused")

\* The later steps leave what the callback asked alone.
Stays == UNCHANGED <<now, users, drawn, states, call, after>>

\* The provider reports who logged in, or does not answer: the code is wrong, the network is
\* down.
Exchange(r) ==
    /\ pc[r] = "exchange"
    /\ \/ /\ Goto(r, "link")
          /\ \E who \in [id : ProviderIds, email : Emails] :
                 reported' = [reported EXCEPT ![r] = who]
       \/ Goto(r, "refused") /\ UNCHANGED reported
    /\ UNCHANGED <<accounts, byEmail, links, account>> /\ Stays

Identity(r) == <<call[r].provider, reported[r].id>>

Exists(a) == accounts[a] # None

\* findByProviderAndProviderId, and the account if it still exists.
FindLink(r) ==
    LET a == links[Identity(r)] IN
    /\ pc[r] = "link"
    /\ account' = [account EXCEPT ![r] = a]
    /\ Goto(r, IF a # None THEN "byId" ELSE "byEmail")
    /\ UNCHANGED <<accounts, byEmail, links, reported>> /\ Stays

FindById(r) ==
    /\ pc[r] = "byId"
    /\ IF Exists(account[r])
       THEN Goto(r, "issue") /\ UNCHANGED account
       ELSE Goto(r, "byEmail") /\ account' = [account EXCEPT ![r] = None]
    /\ UNCHANGED <<accounts, byEmail, links, reported>> /\ Stays

OnFileNever(e) == None  \* mutant: every identity without a link gets an account

OnFile(e) == byEmail[e]

FindByEmail(r) ==
    /\ pc[r] = "byEmail"
    /\ account' = [account EXCEPT ![r] = OnFile(reported[r].email)]
    /\ Goto(r, IF OnFile(reported[r].email) # None THEN "store" ELSE "create")
    /\ UNCHANGED <<accounts, byEmail, links, reported>> /\ Stays

\* The database refuses a second account with the address: the request fails.
CreateOAuth(r) ==
    LET e == reported[r].email IN
    /\ pc[r] = "create"
    /\ IF users = "database" /\ byEmail[e] # None
       THEN Goto(r, "refused") /\ UNCHANGED <<accounts, byEmail, account>>
       ELSE /\ accounts' = [accounts EXCEPT ![r] = e]
            /\ byEmail' = [byEmail EXCEPT ![e] = r]
            /\ account' = [account EXCEPT ![r] = r]
            /\ Goto(r, "store")
    /\ UNCHANGED <<links, reported>> /\ Stays

StoreLink(r) ==
    /\ pc[r] = "store"
    /\ links' = [links EXCEPT ![Identity(r)] = account[r]]
    /\ Goto(r, "issue")
    /\ UNCHANGED <<accounts, byEmail, account, reported>> /\ Stays

\* issueTokens: in the database the refresh token needs its user.
Issue(r) ==
    /\ pc[r] = "issue"
    /\ Goto(r, IF users = "database" /\ ~Exists(account[r]) THEN "refused" ELSE "ok")
    /\ UNCHANGED <<accounts, byEmail, links, account, reported>> /\ Stays

\* deleteSystemResource("User", id); the links are not told.
DeleteAccount ==
    /\ \E a \in Requests :
           /\ Exists(a)
           /\ byEmail' = [byEmail EXCEPT ![accounts[a]] = None]
           /\ accounts' = [accounts EXCEPT ![a] = None]
    /\ UNCHANGED <<links, pc, account, reported>> /\ Stays

Tick == now < MaxNow /\ now' = now + 1 /\ UNCHANGED oauthOwn

Next ==
    \/ Tick \/ Authorize \/ DeleteAccount
    \/ \E r \in Requests :
          \/ TurnAway(r) \/ Callback(r) \/ Exchange(r) \/ FindLink(r) \/ FindById(r)
          \/ FindByEmail(r) \/ CreateOAuth(r) \/ StoreLink(r) \/ Issue(r)

Spec == Init /\ [][Next]_oauthVars
-----------------------------------------------------------------------------
TypeOK ==
    /\ now \in Nat /\ users \in {"memory", "database"} /\ drawn \subseteq StateIds
    /\ states \in [StateIds -> [provider : Implemented, until : Nat] \cup {None}]
    /\ accounts \in [Requests -> Emails \cup {None}]
    /\ byEmail \in [Emails -> Requests \cup {None}]
    /\ links \in [Implemented \X ProviderIds -> Requests \cup {None}]
    /\ pc \in [Requests -> {"new", "exchange", "link", "byId", "byEmail", "create", "store",
                            "issue", "ok", "refused"}]
    /\ call \in [Requests -> [provider : Implemented, state : StateIds] \cup {None}]
    /\ reported \in [Requests -> [id : ProviderIds, email : Emails] \cup {None}]
    /\ account \in [Requests -> Requests \cup {None}]
    /\ after \in [Requests -> SUBSET Requests]

\* A state gets one callback at most past its check, and once the store was asked for it,
\* even too late or by the wrong provider, no later callback is let through with it.  A
\* callback that is turned away before leaves it good.
StateSpent ==
    \A d, r \in Requests :
        /\ d # r /\ call[d] # None /\ call[r] # None /\ call[d].state = call[r].state
        /\ pc[d] # "refused" \/ d \in after[r]
        => pc[r] = "refused"

\* Overlapping: neither was answered before the other began.
Overlap(d, r) == d # r /\ d \notin after[r] /\ r \notin after[d]

\* Two callbacks of one identity, or with one address, overlapped.
Raced(i) ==
    \E x, y \in Requests :
        /\ reported[x] # None /\ reported[y] # None /\ Overlap(x, y)
        /\ Identity(x) = i /\ Identity(y) = i
RacedFor(e) ==
    \E x, y \in Requests :
        /\ reported[x] # None /\ reported[y] # None /\ Overlap(x, y)
        /\ reported[x].email = e /\ reported[y].email = e

Entered(r) == pc[r] = "ok" /\ Exists(account[r])

\* Logging in again under one identity leads to the same account as long as it exists,
\* whatever address is reported meanwhile, unless two of its callbacks overlapped.  Whoever
\* is let into accounts with the address reported, through whatever providers, is let into
\* one account; in memory, unless two callbacks with that address overlapped.  And nobody
\* is let into an account with another address than the one reported but through a link
\* that the same identity got when its address was that account's.
SameAccount ==
    \A d, r \in Requests :
        Entered(d) /\ Entered(r) =>
            /\ Identity(d) = Identity(r) => account[d] = account[r] \/ Raced(Identity(r))
            /\ /\ reported[d].email = reported[r].email
               /\ \A x \in {d, r} : accounts[account[x]] = reported[x].email
               => account[d] = account[r] \/ (users = "memory" /\ RacedFor(reported[r].email))
            /\ accounts[account[r]] = reported[r].email \/ \E x \in Requests \ {r} :
                   /\ reported[x] # None /\ Identity(x) = Identity(r) /\ account[x] = account[r]
                   /\ reported[x].email = accounts[account[r]]
=============================================================================
