---------------------------- MODULE AccountParts ----------------------------
(***************************************************************************)
(* The parts of the server that decide who is let in: the rate limits, the *)
(* in-memory flows, the login through a provider and the API keys.  They   *)
(* share no state with each other in the code; a behaviour exercises the   *)
(* one that `part` names.                                                  *)
(***************************************************************************)
EXTENDS ServerPart, Integers, FiniteSets, Sequences

CONSTANTS
    Clients, Addresses, Subjects, Max, Window, LimiterMaxNow, Emails, MaxAttempts,
    LockWindow, TokenTtl, FlowTokens, FlowsMaxNow, Mailboxes, Implemented, ProviderIds,
    StateIds, GcAt, StateTtl, OAuthMaxNow, Instances

VARIABLES
    now,   \* Date.now(), of the parts with a clock
    limiter, counters, uncounted, counting, passed,   \* RateLimits
    authUsers, revoked, generated, signing, guesses, uses,   \* AuthFlows
    oauthUsers, states, drawn, accounts, byEmail, links, oauthPc, call, reported,
    account, after,   \* OAuthLogins
    keyBacking, strategy, keys, boot, shown, keyStage, ask   \* ApiKeys

Limits == INSTANCE RateLimits WITH
    Requests <- Clients, MaxNow <- LimiterMaxNow, stage <- counting, todo <- uncounted
Flows == INSTANCE AuthFlows WITH MaxNow <- FlowsMaxNow, users <- authUsers
OAuth == INSTANCE OAuthLogins WITH
    Emails <- Mailboxes, MaxNow <- OAuthMaxNow, users <- oauthUsers, pc <- oauthPc
KeyAccess == INSTANCE ApiKeys WITH backing <- keyBacking, stage <- keyStage

AccountAssumption ==
    /\ Limits!RateLimitsAssumption
    /\ Flows!AuthFlowsAssumption
    /\ OAuth!OAuthLoginsAssumption
    /\ KeyAccess!ApiKeysAssumption

AccountPartNames == {"Limits", "Flows", "OAuth", "KeyAccess"}

\* The variables of each part, but for the clock.
LimitsVars == <<limiter, counters, uncounted, counting, passed>>
FlowsVars == <<authUsers, revoked, generated, signing, guesses, uses>>
OAuthVars == <<oauthUsers, states, drawn, accounts, byEmail, links, oauthPc, call,
    reported, account, after>>
KeyAccessVars == <<keyBacking, strategy, keys, boot, shown, keyStage, ask>>

accountVars == <<part, now, LimitsVars, FlowsVars, OAuthVars, KeyAccessVars>>

\* The variables of a part that is not exercised have no value.
LimitsUnused ==
    /\ limiter = None /\ counters = None /\ uncounted = None /\ counting = None
    /\ passed = None
FlowsUnused ==
    /\ authUsers = None /\ revoked = None /\ generated = None /\ signing = None
    /\ guesses = None /\ uses = None
OAuthUnused ==
    /\ oauthUsers = None /\ states = None /\ drawn = None /\ accounts = None /\ byEmail = None
    /\ links = None /\ oauthPc = None /\ call = None /\ reported = None
    /\ account = None /\ after = None
KeyAccessUnused ==
    /\ keyBacking = None /\ strategy = None /\ keys = None /\ boot = None /\ shown = None
    /\ keyStage = None /\ ask = None

AccountInit ==
    /\ IF part = "Limits" THEN Limits!Init ELSE LimitsUnused
    /\ IF part = "Flows" THEN Flows!Init ELSE FlowsUnused
    /\ IF part = "OAuth" THEN OAuth!Init ELSE OAuthUnused
    /\ IF part = "KeyAccess" THEN KeyAccess!Init ELSE KeyAccessUnused
    /\ part \notin {"Limits", "Flows", "OAuth"} => now = 0

AccountNext ==
    /\ UNCHANGED part
    /\ \/ part = "Limits" /\ Limits!Next /\ UNCHANGED <<FlowsVars, OAuthVars, KeyAccessVars>>
       \/ part = "Flows" /\ Flows!Next /\ UNCHANGED <<LimitsVars, OAuthVars, KeyAccessVars>>
       \/ part = "OAuth" /\ OAuth!Next /\ UNCHANGED <<LimitsVars, FlowsVars, KeyAccessVars>>
       \/ /\ part = "KeyAccess" /\ KeyAccess!Next
          /\ UNCHANGED <<now, LimitsVars, FlowsVars, OAuthVars>>

AccountSpec == AccountInit /\ [][AccountNext]_accountVars
-----------------------------------------------------------------------------
AccountTypeOK ==
    /\ now \in Nat
    /\ part = "Limits" => Limits!TypeOK
    /\ part = "Flows" => Flows!TypeOK
    /\ part = "OAuth" => OAuth!TypeOK
    /\ part = "KeyAccess" => KeyAccess!TypeOK

\* Two adjacent windows let at most twice the limit through: no Window consecutive
\* milliseconds see more than 2 * Max requests pass a key, in either store, however the
\* two commands of Redis interleave with other requests and with expiries.
AdmittedBounded == part = "Limits" => Limits!AdmittedBounded

\* A counter that will never expire is one whose opener is between INCR and PEXPIRE, or
\* was stopped there: no other order of requests leaves a client locked out for good.
CountersExpire == part = "Limits" => Limits!CountersExpire

\* The lockout holds an attacker to MaxAttempts passwords in any LockWindow consecutive
\* milliseconds, across the lock's expiry, the reset of the counter and a password reset,
\* unless the owner logged in in between.
GuessesBounded == part = "Flows" => Flows!GuessesBounded

\* A refresh token is exchanged or logged out once in all, and the one an account holds
\* is never a revoked one, however logins and refreshes overlap in the signing.
ExchangedOnce == part = "Flows" => Flows!ExchangedOnce

\* A state gets one callback at most past its check, and once the store was asked for it,
\* even too late or by the wrong provider, no later callback is let through with it.  A
\* callback that is turned away before leaves it good.
StateSpent == part = "OAuth" => OAuth!StateSpent

\* Logging in again under one identity leads to the same account as long as it exists,
\* whatever address is reported meanwhile, unless two of its callbacks overlapped.  Whoever
\* is let into accounts with the address reported, through whatever providers, is let into
\* one account; in memory, unless two callbacks with that address overlapped.  And nobody
\* is let into an account with another address than the one reported but through a link
\* that the same identity got when its address was that account's.
SameAccount == part = "OAuth" => OAuth!SameAccount

\* Several instances may each log a first key, and every key ever shown is in the store;
\* an instance that is ready leaves the operators without a key only if one was stored
\* by an instance that is about to log it, or failed just before.
FirstKeyKnown == part = "KeyAccess" => KeyAccess!FirstKeyKnown
=============================================================================
