------------------------- MODULE ApiServer_proofs ---------------------------
(***************************************************************************)
(* The theorems about the parts of the server, carried over from the three *)
(* groups they are proved in.  A behaviour of the server is a behaviour of *)
(* each group: a step of one group leaves the variables of the others      *)
(* alone.                                                                  *)
(***************************************************************************)
EXTENDS ApiServer, AccountParts_proofs, RecordParts_proofs, RuntimeParts_proofs

LEMMA ServerIsAccount == Spec => AccountSpec
<1>1. Init => AccountInit
  BY DEF Init
<1>2. [Next]_vars => [AccountNext]_accountVars
  BY DEF Next, vars, accountVars, recordVars, runtimeVars
<1> QED
  BY <1>1, <1>2, PTL DEF Spec, AccountSpec

LEMMA ServerIsRecord == Spec => RecordSpec
<1>1. Init => RecordInit
  BY DEF Init
<1>2. [Next]_vars => [RecordNext]_recordVars
  BY DEF Next, vars, accountVars, recordVars, runtimeVars
<1> QED
  BY <1>1, <1>2, PTL DEF Spec, RecordSpec

LEMMA ServerIsRuntime == Spec => RuntimeSpec
<1>1. Init => RuntimeInit
  BY DEF Init
<1>2. [Next]_vars => [RuntimeNext]_runtimeVars
  BY DEF Next, vars, accountVars, recordVars, runtimeVars
<1> QED
  BY <1>1, <1>2, PTL DEF Spec, RuntimeSpec

-----------------------------------------------------------------------------
\* The parts that decide who is let in.

\* A state gets one callback at most past its check, and once it was presented, in time or
\* late, by the right provider or by another, no later callback is let through with it: for
\* any number of states, callbacks, instances and addresses.
THEOREM ServerStateSpentOnce == ASSUME ApiServerAssumption PROVE Spec => []StateSpent
<1>1. AccountAssumption
  BY DEF ApiServerAssumption
<1>2. AccountSpec => []StateSpent
  BY <1>1, AlwaysStateSpent
<1> QED
  BY <1>2, ServerIsAccount

\* Whoever logs in twice with one address, through whatever providers, gets the same account
\* as long as it exists; in memory, unless two callbacks overlapped.
THEOREM ServerOneAccount == ASSUME ApiServerAssumption PROVE Spec => []SameAccount
<1>1. AccountAssumption
  BY DEF ApiServerAssumption
<1>2. AccountSpec => []SameAccount
  BY <1>1, AlwaysSameAccount
<1> QED
  BY <1>2, ServerIsAccount

\* Every key ever shown is in the store, and an instance that is ready leaves the operators
\* without a key only if the one that stored it has not logged it yet, or failed just before:
\* for any number of instances that start at once.
THEOREM ServerFirstKeyKnown == ASSUME ApiServerAssumption PROVE Spec => []FirstKeyKnown
<1>1. AccountAssumption
  BY DEF ApiServerAssumption
<1>2. AccountSpec => []FirstKeyKnown
  BY <1>1, AlwaysFirstKeyKnown
<1> QED
  BY <1>2, ServerIsAccount

\* A refresh token is exchanged or logged out once in all, and the one an account holds is
\* never a revoked one, however logins and refreshes overlap in the signing.
THEOREM ServerExchangedOnce == ASSUME ApiServerAssumption PROVE Spec => []ExchangedOnce
<1>1. AccountAssumption
  BY DEF ApiServerAssumption
<1>2. AccountSpec => []ExchangedOnce
  BY <1>1, AlwaysExchangedOnce
<1> QED
  BY <1>2, ServerIsAccount

\* The lockout holds an attacker to MaxAttempts passwords in any LockWindow consecutive
\* milliseconds, across its expiry, the reset of the counter and a password reset, unless the
\* owner logged in in between.
THEOREM ServerGuessesBounded == ASSUME ApiServerAssumption PROVE Spec => []GuessesBounded
<1>1. AccountAssumption
  BY DEF ApiServerAssumption
<1>2. AccountSpec => []GuessesBounded
  BY <1>1, AlwaysGuessesBounded
<1> QED
  BY <1>2, ServerIsAccount

\* A counter that will never expire is one whose opener is between INCR and PEXPIRE, or was
\* stopped there.
THEOREM ServerCountersExpire == ASSUME ApiServerAssumption PROVE Spec => []CountersExpire
<1>1. AccountAssumption
  BY DEF ApiServerAssumption
<1>2. AccountSpec => []CountersExpire
  BY <1>1, AlwaysCountersExpire
<1> QED
  BY <1>2, ServerIsAccount

\* No Window consecutive milliseconds see more than 2 * Max requests pass a key, in either
\* store, however the two commands of Redis interleave with other requests and with expiries.
THEOREM ServerAdmittedBounded == ASSUME ApiServerAssumption PROVE Spec => []AdmittedBounded
<1>1. AccountAssumption
  BY DEF ApiServerAssumption
<1>2. AccountSpec => []AdmittedBounded
  BY <1>1, AlwaysAdmittedBounded
<1> QED
  BY <1>2, ServerIsAccount

-----------------------------------------------------------------------------
\* The parts that read and write records.

\* A stock row has lost exactly one unit per committed transaction that decremented it, and
\* never more than it had, for any number of requests and any order of their operations.
THEOREM ServerNothingSoldTwice == ASSUME ApiServerAssumption PROVE Spec => []StockAccounted
<1>1. RecordAssumption
  BY DEF ApiServerAssumption
<1>2. RecordSpec => []StockAccounted
  BY <1>1, AlwaysStockAccounted
<1> QED
  BY <1>2, ServerIsRecord

\* A record exists only if its stock was taken in full, stock without a record belongs to a
\* request between the two, stopped there, or undone, and join rows have both their ends.
THEOREM ServerRecordsArePaid == ASSUME ApiServerAssumption PROVE Spec => []RecordsPaid
<1>1. RecordAssumption
  BY DEF ApiServerAssumption
<1>2. RecordSpec => []RecordsPaid
  BY <1>1, AlwaysRecordsPaid
<1> QED
  BY <1>2, ServerIsRecord

\* A requester with a scope writes only rows that were in that scope at some time, and leaves
\* each of them in it or deleted, whatever the body and the URL say and whatever others write
\* between its read and its write.
THEOREM ServerScopeKept == ASSUME ApiServerAssumption PROVE Spec => []ScopeKept
<1>1. RecordAssumption
  BY DEF ApiServerAssumption
<1>2. RecordSpec => []ScopeKept
  BY <1>1, AlwaysScopeKept
<1> QED
  BY <1>2, ServerIsRecord

\* A user is deleted with everything the policies of its children ask for, or not at all, in
\* memory and over a database, whatever others write meanwhile and wherever the cascade fails.
THEOREM ServerCascadeAllOrNothing == ASSUME ApiServerAssumption PROVE Spec => []CascadeAllOrNothing
<1>1. RecordAssumption
  BY DEF ApiServerAssumption
<1>2. RecordSpec => []CascadeAllOrNothing
  BY <1>1, AlwaysCascadeAllOrNothing
<1> QED
  BY <1>2, ServerIsRecord

\* A listing walked page by page returns every row that nobody touched exactly once, whatever
\* others write meanwhile, unless a row used as the cursor was itself written or the walk goes
\* by page number; and in memory at least once, unless that row was created anew or moved.
THEOREM ServerWalkedOnce == ASSUME ApiServerAssumption PROVE Spec => []WalkedOnce
<1>1. RecordAssumption
  BY DEF ApiServerAssumption
<1>2. RecordSpec => []WalkedOnce
  BY <1>1, AlwaysWalkedOnce
<1> QED
  BY <1>2, ServerIsRecord

\* The roles a role stands for are those its inheritance leads to, whatever cycles it has.
THEOREM ServerRolesExact == ASSUME ApiServerAssumption PROVE Spec => []RolesExact
<1>1. RecordAssumption
  BY DEF ApiServerAssumption
<1>2. RecordSpec => []RolesExact
  BY <1>1, AlwaysRolesExact
<1> QED
  BY <1>2, ServerIsRecord

-----------------------------------------------------------------------------
\* The parts that assemble, serve and stop the process.

\* The log shows the last MaxEntries accepted deliveries, latest first, and every acknowledged
\* delivery is handed to onEvent exactly once.
THEOREM ServerInboundFaithful == ASSUME ApiServerAssumption PROVE Spec => []InboundFaithful
<1>1. RuntimeAssumption
  BY DEF ApiServerAssumption
<1>2. RuntimeSpec => []InboundFaithful
  BY <1>1, AlwaysInboundFaithful
<1> QED
  BY <1>2, ServerIsRuntime

\* A production process keeps no keys, users or sessions in its own memory without having been
\* told to, whatever is passed and detected.
THEOREM ServerDurableAccounts == ASSUME ApiServerAssumption PROVE Spec => []AccountsDurable
<1>1. RuntimeAssumption
  BY DEF ApiServerAssumption
<1>2. RuntimeSpec => []AccountsDurable
  BY <1>1, AlwaysDurableAccounts
<1> QED
  BY <1>2, ServerIsRuntime

\* However many calls of shutdown() overlap with each other and with a tick, no tick begins
\* afterwards and every known client is disconnected exactly once.
THEOREM ServerCleanShutdown == ASSUME ApiServerAssumption PROVE Spec => []ShutdownClean
<1>1. RuntimeAssumption
  BY DEF ApiServerAssumption
<1>2. RuntimeSpec => []ShutdownClean
  BY <1>1, AlwaysCleanShutdown
<1> QED
  BY <1>2, ServerIsRuntime

\* What an artefact offers is answered by the handler it describes, whichever features are
\* combined, the listed gaps apart, and the OpenAPI document omits no route it owes.
THEOREM ServerArtefactsServed == ASSUME ApiServerAssumption PROVE Spec => []ArtefactsServed
<1>1. RuntimeAssumption
  BY DEF ApiServerAssumption
<1>2. RuntimeSpec => []ArtefactsServed
  BY <1>1, AlwaysArtefactsServed
<1> QED
  BY <1>2, ServerIsRuntime

\* A spec the parser accepts gives a schema in which no model has two fields of one name,
\* every object field has exactly one opposite, and an include of a declared relation finds
\* its field, whatever relations are declared; the listed odd declarations and includes apart.
THEOREM ServerSchemaPaired == ASSUME ApiServerAssumption PROVE Spec => []SchemaPaired
<1>1. RuntimeAssumption
  BY DEF ApiServerAssumption
<1>2. RuntimeSpec => []SchemaPaired
  BY <1>1, AlwaysSchemaPaired
<1> QED
  BY <1>2, ServerIsRuntime

-----------------------------------------------------------------------------
PartKnown == part \in AccountPartNames \cup RecordPartNames \cup RuntimePartNames

\* A behaviour exercises one part from its first state to its last.
LEMMA ServerPartKept == Spec => []PartKnown
<1>1. Init => PartKnown
  BY DEF Init, PartKnown
<1>2. PartKnown /\ [Next]_vars => PartKnown'
  BY DEF Next, vars, runtimeVars, AccountNext, RecordNext, RuntimeNext, PartKnown
<1> QED
  BY <1>1, <1>2, PTL DEF Spec

\* Whatever the constants, every variable of the part that is exercised keeps its type: no
\* handler, timer or callback of any part leaves the states its other steps are written for.
THEOREM ServerTypeCorrect == ASSUME ApiServerAssumption PROVE Spec => []TypeOK
<1>1. AccountAssumption /\ RecordAssumption /\ RuntimeAssumption
  BY DEF ApiServerAssumption
<1>2. AccountSpec => []AccountTypeOK
  BY <1>1, AlwaysAccountTypes
<1>3. RecordSpec => []RecordTypeOK
  BY <1>1, AlwaysRecordTypes
<1>4. RuntimeSpec => []RuntimeTypeOK
  BY <1>1, AlwaysRuntimeTypes
<1>5. PartKnown /\ AccountTypeOK /\ RecordTypeOK /\ RuntimeTypeOK => TypeOK
  BY DEF PartKnown, TypeOK
<1> QED
  BY <1>2, <1>3, <1>4, <1>5, ServerIsAccount, ServerIsRecord, ServerIsRuntime, ServerPartKept, PTL
=============================================================================
