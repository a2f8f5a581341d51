------------------------- MODULE RecordParts_proofs -------------------------
(***************************************************************************)
(* Proofs about the creation of records in the database, the rules of      *)
(* access, the cascades of a deletion, listings and the inheritance of     *)
(* roles, for any number of requests, rows, roles and declarations.        *)
(***************************************************************************)
EXTENDS RecordParts, TLAPS, FiniteSetTheorems, SequenceTheorems

-----------------------------------------------------------------------------
(***************************************************************************)
(* Type correctness.  What a request has still to do are rows of the stock *)
(* while its transaction runs and related rows afterwards.                 *)
(***************************************************************************)
DatabaseStoring == {"find", "join", "undo"}

DatabaseTodoFits ==
    \A r \in Requests :
        /\ createPc[r] = "tx" => todo[r] \in Seq(Stock)
        /\ createPc[r] \in DatabaseStoring => todo[r] \in Seq(Related)
        /\ createPc[r] = "join" => todo[r] # <<>>

DatabaseTypeInv == Database!TypeOK /\ DatabaseTodoFits

LEMMA DatabaseInitType ==
    ASSUME Database!DatabaseRoutesAssumption, Database!Init
    PROVE  DatabaseTypeInv
<1>1. <<>> \in Seq(Stock) /\ <<>> \in Seq(Related)
  OBVIOUS
<1> QED
  BY <1>1 DEF Database!DatabaseRoutesAssumption, Database!Init, DatabaseTypeInv, Database!TypeOK,
     DatabaseTodoFits, DatabaseStoring

LEMMA DatabaseNextType ==
    ASSUME Database!DatabaseRoutesAssumption, DatabaseTypeInv, [Database!Next]_Database!dbOwn
    PROVE  DatabaseTypeInv'
<1> USE DEF Database!DatabaseRoutesAssumption, DatabaseTypeInv, Database!TypeOK, DatabaseTodoFits,
            DatabaseStoring, Database!Goto
<1>1. CASE Database!DeleteRelated
  BY <1>1 DEF Database!DeleteRelated
<1>2. ASSUME NEW r \in Requests, Database!Begin(r) PROVE DatabaseTypeInv'
  BY <1>2 DEF Database!Begin
<1>3. ASSUME NEW r \in Requests, Database!Decrement(r) PROVE DatabaseTypeInv'
  <2>1. PICK s : s = Head(todo[r])
    OBVIOUS
  <2>2. PICK rest : rest = Tail(todo[r])
    OBVIOUS
  <2>3. s \in Stock /\ rest \in Seq(Stock)
    BY <1>3, <2>1, <2>2 DEF Database!Decrement
  <2>4. CASE Database!Enough(s)
    <3>1. /\ held' = [held EXCEPT ![s] = r] /\ todo' = [todo EXCEPT ![r] = rest]
          /\ UNCHANGED <<createPc, joinOnDelete, stock, records, joins, related, body, plan,
                         committed>>
          /\ createPc[r] = "tx"
      BY <1>3, <2>1, <2>2, <2>4 DEF Database!Decrement
    <3> QED
      BY <2>3, <3>1
  <2>5. CASE ~Database!Enough(s)
    <3>1. /\ held' = Database!Released(r) /\ createPc' = [createPc EXCEPT ![r] = "409"]
          /\ UNCHANGED <<todo, joinOnDelete, stock, records, joins, related, body, plan, committed>>
      BY <1>3, <2>1, <2>5 DEF Database!Decrement, Database!Rollback
    <3> QED
      BY <3>1 DEF Database!Released
  <2> QED
    BY <2>4, <2>5
<1>4. ASSUME NEW r \in Requests, Database!AbortDeadlocked(r) PROVE DatabaseTypeInv'
  BY <1>4 DEF Database!AbortDeadlocked, Database!Rollback, Database!Released
<1>5. ASSUME NEW r \in Requests, Database!Commit(r) PROVE DatabaseTypeInv'
  BY <1>5 DEF Database!Commit, Database!Written, Database!Released
<1>6. ASSUME NEW r \in Requests, Database!CreateRecord(r) PROVE DatabaseTypeInv'
  BY <1>6 DEF Database!CreateRecord
<1>7. ASSUME NEW r \in Requests, Database!FindRelated(r) PROVE DatabaseTypeInv'
  BY <1>7 DEF Database!FindRelated
<1>8. ASSUME NEW r \in Requests, Database!CreateJoin(r) PROVE DatabaseTypeInv'
  <2>1. PICK x : x = Head(todo[r])
    OBVIOUS
  <2>2. PICK rest : rest = Tail(todo[r])
    OBVIOUS
  <2>3. x \in Related /\ rest \in Seq(Related)
    BY <1>8, <2>1, <2>2 DEF Database!CreateJoin
  <2>4. UNCHANGED <<joinOnDelete, stock, held, records, related, body, plan, committed>>
    BY <1>8 DEF Database!CreateJoin
  <2>5. CASE /\ joins' = joins \cup {<<r, x>>} /\ todo' = [todo EXCEPT ![r] = rest]
             /\ createPc' = [createPc EXCEPT ![r] = "find"]
    <3>1. joins' \subseteq Requests \X Related
      BY <2>3, <2>5
    <3> QED
      BY <2>3, <2>4, <2>5, <3>1
  <2>6. CASE UNCHANGED <<joins, todo>> /\ createPc' = [createPc EXCEPT ![r] = "undo"]
             /\ createPc[r] = "join"
    BY <2>4, <2>6
  <2> QED
    BY <1>8, <2>1, <2>2, <2>5, <2>6 DEF Database!CreateJoin
<1>9. ASSUME NEW r \in Requests, Database!UndoRecord(r) PROVE DatabaseTypeInv'
  BY <1>9 DEF Database!UndoRecord, Database!LeftJoins
<1>10. ASSUME NEW r \in Requests, Database!Stop(r) PROVE DatabaseTypeInv'
  BY <1>10 DEF Database!Stop, Database!Released
<1>11. CASE UNCHANGED Database!dbOwn
  BY <1>11 DEF Database!dbOwn
<1> QED
  BY <1>1, <1>2, <1>3, <1>4, <1>5, <1>6, <1>7, <1>8, <1>9, <1>10, <1>11 DEF Database!Next

-----------------------------------------------------------------------------
(***************************************************************************)
(* Nothing is sold twice.  The guard is evaluated long before the          *)
(* transaction commits; what keeps it true until then is that the row is   *)
(* held, by a transaction that still runs and has sold nothing yet.        *)
(***************************************************************************)
DatabaseNothingSoldYet == \A r \in Requests : createPc[r] \in {"new", "tx"} => committed[r] = {}

DatabaseHeldCovered ==
    \A s \in Stock : held[s] # None => createPc[held[s]] = "tx" /\ stock[s] >= 1

DatabaseStockInv == DatabaseNothingSoldYet /\ DatabaseHeldCovered /\ Database!StockAccounted

DatabaseSold(s) == {r \in Requests : s \in committed[r]}

LEMMA DatabaseCardinality == \A S : Database!Cardinality(S) = Cardinality(S)
  BY ZenonT(60) DEF Database!Cardinality, Cardinality

\* A step that sells nothing, and takes only rows that have something left.
LEMMA DatabaseNothingSold ==
    ASSUME DatabaseTypeInv, DatabaseStockInv, UNCHANGED <<stock, committed>>, NEW r \in Requests,
           \A q \in Requests \ {r} : createPc'[q] = createPc[q],
           createPc'[r] \in {"new", "tx"} => createPc[r] \in {"new", "tx"},
           \A s \in Stock : held'[s] # None =>
               \/ held'[s] = held[s] /\ (held[s] = r => createPc'[r] = "tx")
               \/ held'[s] = r /\ createPc'[r] = "tx" /\ stock[s] >= 1
    PROVE  DatabaseStockInv'
<1>1. DatabaseNothingSoldYet'
  BY DEF DatabaseStockInv, DatabaseNothingSoldYet
<1>2. DatabaseHeldCovered'
  BY DEF DatabaseStockInv, DatabaseHeldCovered, DatabaseTypeInv, Database!TypeOK
<1>3. Database!StockAccounted'
  BY DEF DatabaseStockInv, Database!StockAccounted
<1> QED
  BY <1>1, <1>2, <1>3 DEF DatabaseStockInv

LEMMA DatabaseCommitStock ==
    ASSUME Database!DatabaseRoutesAssumption, DatabaseTypeInv, DatabaseStockInv,
           NEW r \in Requests, Database!Commit(r)
    PROVE  DatabaseStockInv'
<1>1. /\ createPc[r] = "tx" /\ createPc' = [createPc EXCEPT ![r] = "create"]
      /\ stock' = [s \in Stock |-> IF held[s] = r THEN stock[s] - 1 ELSE stock[s]]
      /\ committed' = [committed EXCEPT ![r] = Database!Written(r)]
      /\ held' = Database!Released(r)
  BY DEF Database!Commit, Database!Goto
<1>2. /\ committed \in [Requests -> SUBSET Stock] /\ committed[r] = {}
      /\ stock \in [Stock -> Int] /\ DOMAIN createPc = Requests
      /\ held \in [Stock -> Requests \cup {None}]
  BY <1>1 DEF DatabaseTypeInv, Database!TypeOK, DatabaseStockInv, DatabaseNothingSoldYet
<1>3. DatabaseNothingSoldYet'
  BY <1>1, <1>2 DEF DatabaseStockInv, DatabaseNothingSoldYet
<1>4. DatabaseHeldCovered'
  BY <1>1, <1>2 DEF DatabaseStockInv, DatabaseHeldCovered, Database!Released,
         Database!DatabaseRoutesAssumption
<1>5. ASSUME NEW s \in Stock
      PROVE  stock'[s] >= 0 /\ stock'[s] = Initial - Cardinality(DatabaseSold(s)')
  <2>1. /\ stock[s] >= 0 /\ stock[s] = Initial - Cardinality(DatabaseSold(s))
        /\ IsFiniteSet(DatabaseSold(s)) /\ Cardinality(DatabaseSold(s)) \in Nat
    <3>1. IsFiniteSet(Requests)
      BY Zenon DEF Database!DatabaseRoutesAssumption, Database!IsFiniteSet, IsFiniteSet
    <3>2. IsFiniteSet(DatabaseSold(s))
      BY <3>1, FS_Subset DEF DatabaseSold
    <3> QED
      BY <3>2, DatabaseCardinality, FS_CardinalityType
         DEF DatabaseSold, DatabaseStockInv, Database!StockAccounted
  <2>2. CASE held[s] = r
    <3>1. DatabaseSold(s)' = DatabaseSold(s) \cup {r} /\ r \notin DatabaseSold(s)
      BY <1>1, <1>2, <2>2 DEF DatabaseSold, Database!Written
    <3>2. Cardinality(DatabaseSold(s)') = Cardinality(DatabaseSold(s)) + 1
      BY <2>1, <3>1, FS_AddElement
    <3>3. stock'[s] = stock[s] - 1 /\ stock[s] >= 1 /\ stock[s] \in Int
      BY <1>1, <1>2, <2>2 DEF DatabaseStockInv, DatabaseHeldCovered,
             Database!DatabaseRoutesAssumption
    <3> QED
      BY <2>1, <3>2, <3>3 DEF Database!DatabaseRoutesAssumption
  <2>3. CASE held[s] # r
    <3>1. DatabaseSold(s)' = DatabaseSold(s)
      BY <1>1, <1>2, <2>3 DEF DatabaseSold, Database!Written
    <3> QED
      BY <1>1, <2>1, <2>3, <3>1
  <2> QED
    BY <2>2, <2>3
<1> QED
  BY <1>3, <1>4, <1>5, DatabaseCardinality
     DEF DatabaseStockInv, Database!StockAccounted, DatabaseSold

LEMMA DatabaseNextStock ==
    ASSUME Database!DatabaseRoutesAssumption, DatabaseTypeInv, DatabaseStockInv,
           [Database!Next]_Database!dbOwn
    PROVE  DatabaseStockInv'
<1>1. CASE Database!DeleteRelated \/ UNCHANGED Database!dbOwn
  BY <1>1 DEF Database!DeleteRelated, Database!dbOwn, DatabaseStockInv, DatabaseNothingSoldYet,
     DatabaseHeldCovered, Database!StockAccounted
<1>2. ASSUME NEW r \in Requests,
             Database!Begin(r) \/ Database!Decrement(r) \/ Database!AbortDeadlocked(r)
             \/ Database!CreateRecord(r) \/ Database!FindRelated(r) \/ Database!CreateJoin(r)
             \/ Database!UndoRecord(r) \/ Database!Stop(r)
      PROVE  DatabaseStockInv'
  <2> USE DEF DatabaseTypeInv, Database!TypeOK, Database!Goto
  <2>1. UNCHANGED <<stock, committed>>
    BY <1>2 DEF Database!Begin, Database!Decrement, Database!AbortDeadlocked,
       Database!CreateRecord, Database!FindRelated, Database!CreateJoin,
                Database!UndoRecord, Database!Stop
  <2>2. \A q \in Requests \ {r} : createPc'[q] = createPc[q]
    BY <1>2 DEF Database!Begin, Database!Decrement, Database!AbortDeadlocked, Database!Rollback,
       Database!CreateRecord, Database!FindRelated,
                Database!CreateJoin, Database!UndoRecord, Database!Stop
  <2>3. createPc'[r] \in {"new", "tx"} => createPc[r] \in {"new", "tx"}
    BY <1>2 DEF Database!Begin, Database!Decrement, Database!AbortDeadlocked, Database!Rollback,
       Database!CreateRecord, Database!FindRelated,
                Database!CreateJoin, Database!UndoRecord, Database!Stop
  <2>4. ASSUME NEW s \in Stock, held'[s] # None
        PROVE  \/ held'[s] = held[s] /\ (held[s] = r => createPc'[r] = "tx")
               \/ held'[s] = r /\ createPc'[r] = "tx" /\ stock[s] >= 1
    <3>1. CASE Database!Begin(r) \/ Database!CreateRecord(r) \/ Database!FindRelated(r)
               \/ Database!CreateJoin(r) \/ Database!UndoRecord(r)
      <4>1. UNCHANGED held
        BY <3>1 DEF Database!Begin, Database!CreateRecord, Database!FindRelated,
           Database!CreateJoin, Database!UndoRecord
      <4>2. held[s] = r => createPc[r] = "tx"
        BY <2>4, <4>1 DEF DatabaseStockInv, DatabaseHeldCovered
      <4> QED
        BY <3>1, <4>1, <4>2 DEF Database!Begin, Database!CreateRecord, Database!FindRelated,
               Database!CreateJoin, Database!UndoRecord
    <3>2. CASE Database!Decrement(r)
      BY <2>4, <3>2 DEF Database!Decrement, Database!Enough, Database!Rollback, Database!Released,
             DatabaseStockInv, DatabaseHeldCovered
    <3>3. CASE Database!AbortDeadlocked(r) \/ Database!Stop(r)
      BY <2>4, <3>3 DEF Database!AbortDeadlocked, Database!Stop, Database!Rollback,
             Database!Released
    <3> QED
      BY <1>2, <3>1, <3>2, <3>3
  <2> QED
    BY <2>1, <2>2, <2>3, <2>4, DatabaseNothingSold
<1> QED
  BY <1>1, <1>2, DatabaseCommitStock DEF Database!Next

LEMMA DatabaseInitStock ==
    ASSUME Database!DatabaseRoutesAssumption, Database!Init
    PROVE  DatabaseStockInv
<1>1. ASSUME NEW s \in Stock PROVE DatabaseSold(s) = {}
  BY DEF Database!Init, DatabaseSold
<1>2. \A s \in Stock : Cardinality(DatabaseSold(s)) = 0
  BY <1>1, FS_EmptySet
<1>3. \A s \in Stock : stock[s] = Initial /\ Initial \in Nat
  BY DEF Database!Init, Database!DatabaseRoutesAssumption
<1>4. Database!StockAccounted
  BY <1>2, <1>3, DatabaseCardinality DEF Database!StockAccounted, DatabaseSold
<1> QED
  BY <1>4 DEF Database!Init, DatabaseStockInv, DatabaseNothingSoldYet, DatabaseHeldCovered

\* A step of the group while the part is exercised is the part's own, or leaves its variables
\* alone.
LEMMA DatabaseStep ==
    ASSUME part = "Database", [RecordNext]_recordVars
    PROVE  part' = "Database" /\ [Database!Next]_Database!dbOwn
  BY DEF RecordNext, recordVars, DatabaseVars, Database!dbOwn

\* A stock row has lost exactly one unit per committed transaction that decremented it,
\* and never more than it had, for any number of requests and orders of operations.
DatabaseSells == part = "Database" => DatabaseTypeInv /\ DatabaseStockInv

THEOREM AlwaysStockAccounted == ASSUME RecordAssumption PROVE RecordSpec => []StockAccounted
<1>0. Database!DatabaseRoutesAssumption
  BY DEF RecordAssumption
<1>1. RecordInit => DatabaseSells
  BY <1>0, DatabaseInitType, DatabaseInitStock DEF RecordInit, DatabaseSells
<1>2. DatabaseSells /\ [RecordNext]_recordVars => DatabaseSells'
  <2> SUFFICES ASSUME part = "Database", DatabaseTypeInv /\ DatabaseStockInv,
                      [RecordNext]_recordVars
               PROVE  DatabaseTypeInv' /\ DatabaseStockInv'
    BY DEF RecordNext, recordVars, DatabaseSells
  <2> QED
    BY <1>0, DatabaseStep, DatabaseNextType, DatabaseNextStock
<1>3. DatabaseSells => StockAccounted
  BY DEF DatabaseSells, DatabaseStockInv, StockAccounted
<1> QED
  BY <1>1, <1>2, <1>3, PTL DEF RecordSpec

-----------------------------------------------------------------------------
(***************************************************************************)
(* What was taken has its record, and the record its stock.  A request     *)
(* comes to its record only through a commit, and to the deletion of its   *)
(* record only through a nested item.                                      *)
(***************************************************************************)
DatabaseItems(list) == {list[n] : n \in DOMAIN list}

DatabaseTakesAll ==
    \A r \in Requests :
        /\ createPc[r] # "new" => Database!Asked(r) # {}
        /\ createPc[r] = "tx" =>
               Database!Asked(r) = Database!Written(r) \cup DatabaseItems(todo[r])
        /\ committed[r] \in {{}, Database!Asked(r)}

DatabasePaidFirst ==
    \A r \in Requests :
        /\ createPc[r] \in {"create", "201"} \cup DatabaseStoring => committed[r] # {}
        /\ createPc[r] \in {"201"} \cup DatabaseStoring => r \in records
        /\ r \in records => committed[r] # {} /\ createPc[r] \notin {"new", "tx", "create"}
        /\ createPc[r] = "409" /\ committed[r] # {} /\ r \notin records => body[r] # <<>>

DatabaseItemRefused ==
    \A r \in Requests :
        /\ createPc[r] \in {"join", "undo"} => body[r] # <<>>
        /\ createPc[r] = "find" /\ todo[r] # <<>> => body[r] # <<>>

DatabaseJoinsBound == \A j \in joins : j[1] \in records /\ j[2] \in related

DatabasePaidInv ==
    DatabaseTakesAll /\ DatabasePaidFirst /\ DatabaseItemRefused /\ DatabaseJoinsBound

\* A step of a request whose transaction is over, or ends here without a commit.
LEMMA DatabaseTakesKept ==
    ASSUME Database!DatabaseRoutesAssumption, DatabaseTypeInv, DatabaseTakesAll,
           NEW r \in Requests,
           UNCHANGED <<plan, committed>>, held' = held \/ held' = Database!Released(r),
           \A q \in Requests \ {r} : createPc'[q] = createPc[q] /\ todo'[q] = todo[q],
           createPc[r] # "new", createPc'[r] \notin {"new", "tx"}
    PROVE  DatabaseTakesAll'
<1>1. \A q \in Requests : Database!Asked(q)' = Database!Asked(q)
  BY DEF Database!Asked
<1>2. \A q \in Requests \ {r} : Database!Written(q)' = Database!Written(q)
  BY DEF Database!Written, Database!Released, Database!DatabaseRoutesAssumption
<1>3. \A q \in Requests \ {r} : DatabaseItems(todo'[q]) = DatabaseItems(todo[q])
  BY DEF DatabaseItems
<1> QED
  BY <1>1, <1>2, <1>3 DEF DatabaseTakesAll

\* The first operation and the others are all the operations.
LEMMA DatabaseItemsSplit ==
    ASSUME NEW list \in Seq(Stock), list # <<>>
    PROVE  DatabaseItems(list) = {Head(list)} \cup DatabaseItems(Tail(list))
<1>1. DOMAIN list = 1..Len(list) /\ Len(list) \in Nat /\ Len(list) >= 1
  OBVIOUS
<1>2. /\ Head(list) = list[1] /\ DOMAIN Tail(list) = 1..(Len(list) - 1)
      /\ \A n \in 1..(Len(list) - 1) : Tail(list)[n] = list[n + 1]
  OBVIOUS
<1>3. ASSUME NEW n \in DOMAIN list, n # 1
      PROVE  n - 1 \in DOMAIN Tail(list) /\ list[n] = Tail(list)[n - 1]
  <2>1. n \in 1..Len(list) /\ n - 1 \in 1..(Len(list) - 1) /\ (n - 1) + 1 = n
    BY <1>1, <1>3
  <2> QED
    BY <1>2, <2>1
<1>4. \A n \in DOMAIN Tail(list) : n + 1 \in DOMAIN list /\ Tail(list)[n] = list[n + 1]
  BY <1>1, <1>2
<1>5. 1 \in DOMAIN list
  BY <1>1
<1>6. ASSUME NEW n \in DOMAIN list
      PROVE  list[n] \in {Head(list)} \cup DatabaseItems(Tail(list))
  BY <1>2, <1>3 DEF DatabaseItems
<1>7. /\ Head(list) \in DatabaseItems(list)
      /\ \A n \in DOMAIN Tail(list) : Tail(list)[n] \in DatabaseItems(list)
  BY <1>2, <1>4, <1>5 DEF DatabaseItems
<1>8. /\ DatabaseItems(list) \subseteq {Head(list)} \cup DatabaseItems(Tail(list))
      /\ DatabaseItems(Tail(list)) \subseteq DatabaseItems(list)
  BY <1>6, <1>7 DEF DatabaseItems
<1> QED
  BY <1>7, <1>8

LEMMA DatabaseTransactionPaid ==
    ASSUME Database!DatabaseRoutesAssumption, DatabaseTypeInv, DatabaseStockInv, DatabasePaidInv,
           NEW r \in Requests,
           Database!Begin(r) \/ Database!Decrement(r) \/ Database!AbortDeadlocked(r)
           \/ Database!Commit(r)
    PROVE  DatabasePaidInv'
<1> USE DEF DatabaseTypeInv, Database!TypeOK, DatabasePaidInv, Database!Goto, DatabaseStoring
<1>1. CASE Database!Begin(r)
  <2>1. PICK ops \in Plans, items \in Bodies :
            /\ todo' = [todo EXCEPT ![r] = ops] /\ plan' = [plan EXCEPT ![r] = ops]
            /\ body' = [body EXCEPT ![r] = items]
    BY <1>1 DEF Database!Begin
  <2>2. DatabaseItems(ops) # {} /\ committed[r] = {}
    <3>1. ops \in Seq(Stock) /\ ops # <<>>
      BY DEF Database!DatabaseRoutesAssumption
    <3>2. 1 \in DOMAIN ops
      BY <3>1
    <3>3. createPc[r] = "new"
      BY <1>1 DEF Database!Begin
    <3> QED
      BY <3>2, <3>3 DEF DatabaseItems, DatabaseStockInv, DatabaseNothingSoldYet
  <2>3. /\ createPc[r] = "new" /\ createPc' = [createPc EXCEPT ![r] = "tx"]
        /\ UNCHANGED <<held, records, joins, related, committed>>
    BY <1>1 DEF Database!Begin
  <2>4. DatabaseTakesAll'
    <3>1. Database!Asked(r)' = DatabaseItems(ops) /\ DatabaseItems(todo[r])' = DatabaseItems(ops)
          /\ Database!Written(r) = {}
      BY <2>1, <2>3 DEF Database!Asked, DatabaseItems, Database!Written, DatabaseStockInv,
             DatabaseHeldCovered, Database!DatabaseRoutesAssumption
    <3>2. \A q \in Requests : Database!Written(q)' = Database!Written(q)
      BY <2>3 DEF Database!Written
    <3>3. \A q \in Requests \ {r} :
              /\ Database!Asked(q)' = Database!Asked(q) /\ todo'[q] = todo[q]
              /\ createPc'[q] = createPc[q] /\ committed'[q] = committed[q]
      BY <2>1, <2>3 DEF Database!Asked
    <3> HIDE DEF DatabaseTypeInv, Database!TypeOK
    <3> QED
      BY <2>2, <2>3, <3>1, <3>2, <3>3 DEF DatabaseTakesAll, DatabaseItems
  <2>5. DatabasePaidFirst' /\ DatabaseItemRefused'
    BY <2>1, <2>3 DEF DatabasePaidFirst, DatabaseItemRefused
  <2> QED
    BY <2>3, <2>4, <2>5 DEF DatabaseJoinsBound
<1>2. ASSUME createPc[r] = "tx", Database!Rollback(r),
             UNCHANGED <<records, joins, related, todo, body, plan, committed>>
      PROVE  DatabasePaidInv'
  <2>1. committed[r] = {}
    BY <1>2 DEF DatabaseStockInv, DatabaseNothingSoldYet
  <2>2. held' = Database!Released(r) /\ createPc' = [createPc EXCEPT ![r] = "409"]
    BY <1>2 DEF Database!Rollback
  <2>3. DatabaseTakesAll'
    BY <1>2, <2>2, DatabaseTakesKept
  <2> QED
    BY <1>2, <2>1, <2>2, <2>3 DEF DatabasePaidFirst, DatabaseItemRefused, DatabaseJoinsBound
<1>3. CASE Database!Decrement(r)
  <2>1. CASE Database!Enough(Head(todo[r]))
    <3>1. PICK s : s = Head(todo[r])
      OBVIOUS
    <3>2. s \in Stock
      BY <1>3, <3>1 DEF Database!Decrement, DatabaseTodoFits
    <3>3. /\ createPc[r] = "tx" /\ held[s] = None /\ held' = [held EXCEPT ![s] = r]
          /\ \A q \in Requests \ {r} : todo'[q] = todo[q]
          /\ UNCHANGED <<createPc, records, joins, related, body, plan, committed>>
      BY <1>3, <2>1, <3>1 DEF Database!Decrement
    <3>4. DatabaseTakesAll'
      <4>1. todo[r] \in Seq(Stock) /\ todo[r] # <<>> /\ todo'[r] = Tail(todo[r])
        BY <1>3, <2>1, <3>3 DEF Database!Decrement, DatabaseTodoFits
      <4>2. DatabaseItems(todo[r]) = {s} \cup DatabaseItems(todo'[r])
        BY <3>1, <4>1, DatabaseItemsSplit
      <4>3. /\ Database!Written(r)' = Database!Written(r) \cup {s}
            /\ \A q \in Requests \ {r} : Database!Written(q)' = Database!Written(q)
        BY <3>2, <3>3 DEF Database!Written, Database!DatabaseRoutesAssumption
      <4>4. \A q \in Requests : Database!Asked(q)' = Database!Asked(q)
        BY <3>3 DEF Database!Asked
      <4>5. \A q \in Requests \ {r} : DatabaseItems(todo'[q]) = DatabaseItems(todo[q])
        BY <3>3 DEF DatabaseItems
      <4> HIDE DEF DatabaseTypeInv, Database!TypeOK
      <4> QED
        BY <3>3, <4>2, <4>3, <4>4, <4>5 DEF DatabaseTakesAll
    <3> QED
      BY <3>3, <3>4 DEF DatabasePaidFirst, DatabaseItemRefused, DatabaseJoinsBound
  <2>2. CASE ~Database!Enough(Head(todo[r]))
    BY <1>2, <1>3, <2>2 DEF Database!Decrement
  <2> QED
    BY <2>1, <2>2
<1>4. CASE Database!AbortDeadlocked(r)
  BY <1>2, <1>4 DEF Database!AbortDeadlocked, Database!Waits
<1>5. CASE Database!Commit(r)
  <2>1. Database!Written(r) = Database!Asked(r) /\ Database!Asked(r) # {}
    <3>1. createPc[r] = "tx" /\ todo[r] = <<>>
      BY <1>5 DEF Database!Commit
    <3>2. DatabaseItems(todo[r]) = {}
      BY <3>1 DEF DatabaseItems
    <3> HIDE DEF DatabaseTypeInv, Database!TypeOK
    <3> QED
      BY <3>1, <3>2 DEF DatabaseTakesAll
  <2>2. /\ createPc' = [createPc EXCEPT ![r] = "create"] /\ held' = Database!Released(r)
        /\ createPc[r] = "tx"
        /\ committed' = [committed EXCEPT ![r] = Database!Written(r)]
        /\ UNCHANGED <<records, joins, related, todo, body, plan>>
    BY <1>5 DEF Database!Commit
  <2>3. DatabaseTakesAll'
    <3>1. \A q \in Requests : Database!Asked(q)' = Database!Asked(q)
      BY <2>2 DEF Database!Asked
    <3>2. \A q \in Requests \ {r} : Database!Written(q)' = Database!Written(q)
      BY <2>2 DEF Database!Written, Database!Released, Database!DatabaseRoutesAssumption
    <3>3. committed'[r] = Database!Asked(r) /\ createPc'[r] = "create"
          /\ \A q \in Requests \ {r} :
                 committed'[q] = committed[q] /\ createPc'[q] = createPc[q]
      BY <2>1, <2>2
    <3> HIDE DEF DatabaseTypeInv, Database!TypeOK
    <3> QED
      BY <2>1, <2>2, <3>1, <3>2, <3>3 DEF DatabaseTakesAll
  <2> QED
    BY <2>1, <2>2, <2>3 DEF DatabasePaidFirst, DatabaseItemRefused, DatabaseJoinsBound
<1> QED
  BY <1>1, <1>3, <1>4, <1>5

LEMMA DatabaseRecordPaid ==
    ASSUME Database!DatabaseRoutesAssumption, DatabaseTypeInv, DatabasePaidInv,
           NEW r \in Requests,
           Database!CreateRecord(r) \/ Database!FindRelated(r) \/ Database!CreateJoin(r)
           \/ Database!UndoRecord(r) \/ Database!Stop(r)
    PROVE  DatabasePaidInv'
<1> USE DEF DatabaseTypeInv, Database!TypeOK, DatabasePaidInv, Database!Goto, DatabaseStoring
<1>1. CASE Database!CreateRecord(r)
  <2>1. DatabaseTakesAll'
    BY <1>1, DatabaseTakesKept DEF Database!CreateRecord
  <2>2. DatabasePaidFirst' /\ DatabaseItemRefused' /\ DatabaseJoinsBound'
    BY <1>1 DEF Database!CreateRecord, DatabasePaidFirst, DatabaseItemRefused, DatabaseJoinsBound
  <2> QED
    BY <2>1, <2>2
<1>2. CASE Database!FindRelated(r)
  <2>1. DatabaseTakesAll'
    BY <1>2, DatabaseTakesKept DEF Database!FindRelated
  <2>2. DatabasePaidFirst' /\ DatabaseItemRefused' /\ DatabaseJoinsBound'
    BY <1>2 DEF Database!FindRelated, DatabasePaidFirst, DatabaseItemRefused, DatabaseJoinsBound
  <2> QED
    BY <2>1, <2>2
<1>3. CASE Database!CreateJoin(r)
  <2>1. /\ createPc[r] = "join" /\ r \in records /\ body[r] # <<>>
        /\ \/ createPc' = [createPc EXCEPT ![r] = "find"]
           \/ createPc' = [createPc EXCEPT ![r] = "undo"]
        /\ \A q \in Requests \ {r} : todo'[q] = todo[q]
        /\ UNCHANGED <<held, records, related, body, plan, committed>>
    <3>1. createPc[r] = "join" /\ r \in records /\ body[r] # <<>>
      BY <1>3 DEF Database!CreateJoin, DatabasePaidFirst, DatabaseItemRefused
    <3>2. \A q \in Requests \ {r} : todo'[q] = todo[q]
      BY <1>3 DEF Database!CreateJoin
    <3> QED
      BY <1>3, <3>1, <3>2 DEF Database!CreateJoin
  <2>2. DatabaseTakesAll'
    <3>1. createPc[r] # "new" /\ createPc'[r] \notin {"new", "tx"}
          /\ \A q \in Requests \ {r} : createPc'[q] = createPc[q]
      BY <2>1
    <3> QED
      BY <2>1, <3>1, DatabaseTakesKept
  <2>3. DatabasePaidFirst' /\ DatabaseItemRefused'
    <3>1. \A q \in Requests : q # r => createPc'[q] = createPc[q] /\ todo'[q] = todo[q]
      BY <2>1
    <3>2. createPc'[r] \in {"find", "undo"}
      BY <2>1
    <3> HIDE DEF DatabaseTypeInv, Database!TypeOK
    <3>3. DatabasePaidFirst'
      BY <2>1, <3>1, <3>2 DEF DatabasePaidFirst
    <3>4. DatabaseItemRefused'
      BY <2>1, <3>1, <3>2 DEF DatabaseItemRefused
    <3> QED
      BY <3>3, <3>4
  <2>4. DatabaseJoinsBound'
    <3>1. \A j \in joins' : j \in joins \/ (j = <<r, Head(todo[r])>> /\ j[2] \in related)
      BY <1>3 DEF Database!CreateJoin
    <3> QED
      BY <2>1, <3>1 DEF DatabaseJoinsBound
  <2> QED
    BY <2>2, <2>3, <2>4
<1>4. CASE Database!UndoRecord(r)
  <2>1. DatabaseTakesAll'
    BY <1>4, DatabaseTakesKept DEF Database!UndoRecord
  <2>2. DatabasePaidFirst' /\ DatabaseItemRefused'
    BY <1>4 DEF Database!UndoRecord, DatabasePaidFirst, DatabaseItemRefused
  <2>3. DatabaseJoinsBound'
    BY <1>4 DEF Database!UndoRecord, Database!LeftJoins, DatabaseJoinsBound
  <2> QED
    BY <2>1, <2>2, <2>3
<1>5. CASE Database!Stop(r)
  <2>1. DatabaseTakesAll'
    BY <1>5, DatabaseTakesKept DEF Database!Stop
  <2>2. DatabasePaidFirst' /\ DatabaseItemRefused' /\ DatabaseJoinsBound'
    BY <1>5 DEF Database!Stop, DatabasePaidFirst, DatabaseItemRefused, DatabaseJoinsBound
  <2> QED
    BY <2>1, <2>2
<1> QED
  BY <1>1, <1>2, <1>3, <1>4, <1>5

LEMMA DatabaseNextPaid ==
    ASSUME Database!DatabaseRoutesAssumption, DatabaseTypeInv, DatabaseStockInv, DatabasePaidInv,
           [Database!Next]_Database!dbOwn
    PROVE  DatabasePaidInv'
<1>1. ASSUME UNCHANGED <<held, createPc, todo, body, plan, committed>> PROVE DatabaseTakesAll'
  <2>1. \A q \in Requests :
            /\ Database!Asked(q)' = Database!Asked(q) /\ Database!Written(q)' = Database!Written(q)
            /\ DatabaseItems(todo'[q]) = DatabaseItems(todo[q])
    BY <1>1 DEF Database!Asked, Database!Written, DatabaseItems
  <2> QED
    BY <1>1, <2>1 DEF DatabasePaidInv, DatabaseTakesAll
<1>2. CASE Database!DeleteRelated
  <2>1. DatabaseTakesAll'
    BY <1>1, <1>2 DEF Database!DeleteRelated
  <2> QED
    BY <1>2, <2>1 DEF Database!DeleteRelated, DatabasePaidInv, DatabasePaidFirst,
           DatabaseItemRefused, DatabaseJoinsBound
<1>3. CASE UNCHANGED Database!dbOwn
  <2>1. DatabaseTakesAll'
    BY <1>1, <1>3 DEF Database!dbOwn
  <2> QED
    BY <1>3, <2>1 DEF Database!dbOwn, DatabasePaidInv, DatabasePaidFirst,
           DatabaseItemRefused, DatabaseJoinsBound
<1> QED
  BY <1>2, <1>3, DatabaseTransactionPaid, DatabaseRecordPaid DEF Database!Next

LEMMA DatabaseInitPaid == ASSUME Database!Init PROVE DatabasePaidInv
  BY DEF Database!Init, DatabasePaidInv, DatabaseTakesAll, DatabasePaidFirst,
         DatabaseItemRefused, DatabaseJoinsBound, DatabaseStoring

\* A record exists only if all the stock of its transaction was taken; a request whose stock
\* was taken and that has no record is between the two, stopped there, was refused the record,
\* or had it undone; join rows have both their ends.
DatabasePays == part = "Database" => DatabaseTypeInv /\ DatabaseStockInv /\ DatabasePaidInv

THEOREM AlwaysRecordsPaid == ASSUME RecordAssumption PROVE RecordSpec => []RecordsPaid
<1>0. Database!DatabaseRoutesAssumption
  BY DEF RecordAssumption
<1>1. RecordInit => DatabasePays
  BY <1>0, DatabaseInitType, DatabaseInitStock, DatabaseInitPaid DEF RecordInit, DatabasePays
<1>2. DatabasePays /\ [RecordNext]_recordVars => DatabasePays'
  <2> SUFFICES ASSUME part = "Database", DatabaseTypeInv /\ DatabaseStockInv /\ DatabasePaidInv,
                      [RecordNext]_recordVars
               PROVE  DatabaseTypeInv' /\ DatabaseStockInv' /\ DatabasePaidInv'
    BY DEF RecordNext, recordVars, DatabasePays
  <2> QED
    BY <1>0, DatabaseStep, DatabaseNextType, DatabaseNextStock, DatabaseNextPaid
<1>3. DatabasePays => RecordsPaid
  <2> SUFFICES ASSUME DatabaseTypeInv, DatabaseStockInv, DatabasePaidInv
               PROVE  Database!RecordsPaid
    BY DEF DatabasePays, RecordsPaid
  <2>1. records \subseteq Requests
    BY DEF DatabaseTypeInv, Database!TypeOK
  <2>2. \A r \in Requests : committed[r] \in {{}, Database!Asked(r)}
    BY DEF DatabasePaidInv, DatabaseTakesAll
  <2>3. \A r \in records : committed[r] = Database!Asked(r) /\ Database!Asked(r) # {}
    BY <2>1, <2>2 DEF DatabasePaidInv, DatabasePaidFirst
  <2>4. ASSUME NEW r \in Requests, committed[r] # {}, r \notin records
        PROVE  \/ createPc[r] \in {"create", "500", "stopped"}
               \/ createPc[r] = "409" /\ body[r] # <<>>
    BY <2>4 DEF DatabaseTypeInv, Database!TypeOK, DatabaseStockInv, DatabaseNothingSoldYet,
           DatabasePaidInv, DatabasePaidFirst, DatabaseStoring
  <2> QED
    BY <2>2, <2>3, <2>4 DEF DatabasePaidInv, DatabaseJoinsBound, Database!RecordsPaid
<1> QED
  BY <1>1, <1>2, <1>3, PTL DEF RecordSpec

-----------------------------------------------------------------------------
(***************************************************************************)
(* Scopes.  Every value a row has had is on record, and a request that is  *)
(* about to change or delete a row under a scope has read the row in that  *)
(* scope: it was in it once, and what is written is the scope again.       *)
(***************************************************************************)
ScopeTypes ==
    /\ DOMAIN rows = Access!Ids /\ DOMAIN everIn = Access!Ids
    /\ DOMAIN by = Access!Ids /\ DOMAIN last = Access!Ids
    /\ scope \in [Requests -> Values \cup {None}]
    /\ DOMAIN accessPc = Requests /\ DOMAIN req = Requests /\ DOMAIN seen = Requests
    /\ \A r \in Requests : accessPc[r] \in {"read", "write"} => req[r].id \in Access!Ids

ScopeRead ==
    \A r \in Requests :
        accessPc[r] = "write" /\ req[r].kind \in {"update", "delete"} /\ scope[r] # None
        => seen[r] = scope[r] /\ scope[r] \in everIn[req[r].id]

ScopeInv ==
    /\ ScopeTypes /\ ScopeRead
    /\ \A i \in Access!Ids : rows[i] \in everIn[i] \cup {Absent, None}
    /\ Access!ScopeKept

\* A write under a scope leaves the row in it, or deletes it, and the row was in it before
\* or is now.
LEMMA ScopeWrite ==
    ASSUME Access!PermissionsAssumption, ScopeInv, NEW r \in Requests, accessPc[r] = "write",
           NEW value, Access!Write(r, value),
           scope[r] # None =>
               /\ value \in {scope[r], Absent}
               /\ value = Absent => scope[r] \in everIn[req[r].id]
    PROVE  ScopeInv'
<1> DEFINE i == req[r].id
<1>1. /\ rows' = [rows EXCEPT ![i] = value]
      /\ everIn' = [everIn EXCEPT ![i] = everIn[i] \cup ({value} \ {Absent, None})]
      /\ by' = [by EXCEPT ![i] = by[i] \cup ({scope[r]} \ {None})]
      /\ last' = [last EXCEPT ![i] = scope[r]]
      /\ accessPc' = [accessPc EXCEPT ![r] = "done"]
      /\ UNCHANGED <<req, scope, seen>>
  BY DEF Access!Write
<1>2. i \in Access!Ids /\ scope[r] \in Values \cup {None} /\ Absent \notin Values /\ None # Absent
  BY DEF ScopeInv, ScopeTypes, Access!PermissionsAssumption
<1> HIDE DEF i
<1>3. /\ rows'[i] = value /\ everIn'[i] = everIn[i] \cup ({value} \ {Absent, None})
      /\ by'[i] = by[i] \cup ({scope[r]} \ {None}) /\ last'[i] = scope[r]
      /\ \A j \in Access!Ids : j # i =>
             rows'[j] = rows[j] /\ everIn'[j] = everIn[j] /\ by'[j] = by[j] /\ last'[j] = last[j]
  BY <1>1, <1>2 DEF ScopeInv, ScopeTypes
<1>4. accessPc'[r] = "done" /\ \A q \in Requests : q # r => accessPc'[q] = accessPc[q]
  BY <1>1 DEF ScopeInv, ScopeTypes
<1>5. \A j \in Access!Ids : everIn[j] \subseteq everIn'[j]
  BY <1>3
<1>6. ScopeTypes'
  BY <1>1, <1>4 DEF ScopeInv, ScopeTypes
<1>7. ScopeRead'
  <2> SUFFICES ASSUME NEW q \in Requests, accessPc'[q] = "write",
                      req[q].kind \in {"update", "delete"}, scope[q] # None
               PROVE  seen[q] = scope[q] /\ scope[q] \in everIn'[req[q].id]
    BY <1>1 DEF ScopeRead
  <2>1. accessPc[q] = "write"
    BY <1>4
  <2>2. seen[q] = scope[q] /\ scope[q] \in everIn[req[q].id] /\ req[q].id \in Access!Ids
    BY <2>1 DEF ScopeInv, ScopeRead, ScopeTypes
  <2> QED
    BY <1>5, <2>2
<1>8. \A j \in Access!Ids : rows'[j] \in everIn'[j] \cup {Absent, None}
  BY <1>3 DEF ScopeInv
<1>9. Access!ScopeKept'
  <2>1. \A j \in Access!Ids :
            by[j] \subseteq everIn[j] /\ (last[j] # None => rows[j] \in {last[j], Absent})
    BY DEF ScopeInv, Access!ScopeKept
  <2>2. by'[i] \subseteq everIn'[i]
    <3>1. CASE scope[r] = None
      BY <1>2, <1>3, <2>1, <3>1
    <3>2. CASE scope[r] # None
      <4>1. scope[r] \in everIn'[i]
        <5>1. CASE value = Absent
          BY <1>3, <3>2, <5>1 DEF i
        <5>2. CASE value # Absent
          BY <1>3, <3>2, <5>2
        <5> QED
          BY <5>1, <5>2
      <4> QED
        BY <1>2, <1>3, <2>1, <4>1
    <3> QED
      BY <3>1, <3>2
  <2>3. last'[i] # None => rows'[i] \in {last'[i], Absent}
    BY <1>3
  <2>4. \A j \in Access!Ids :
            by'[j] \subseteq everIn'[j] /\ (last'[j] # None => rows'[j] \in {last'[j], Absent})
    BY <1>3, <2>1, <2>2, <2>3
  <2> QED
    BY <2>4 DEF Access!ScopeKept, Access!Ids
<1> QED
  BY <1>6, <1>7, <1>8, <1>9 DEF ScopeInv

\* The scope a guard grants is a value of the column, or none.
LEMMA ScopeVerdict ==
    ASSUME Access!PermissionsAssumption, NEW who \in Requesters
    PROVE  /\ Access!LegacyGuard(who).scope \in Values \cup {None}
           /\ Access!PermissionGuard(who).scope \in Values \cup {None}
<1>1. who.sub \in Values \cup {None} /\ who.claim \in Values \cup {None}
  BY DEF Access!PermissionsAssumption
<1>2. \A v : Access!In(v).scope = v
  BY DEF Access!In
<1>3. Access!Out.scope = None
  BY DEF Access!Out
<1>4. Access!LegacyGuard(who).scope \in Values \cup {None}
  BY <1>2, <1>3 DEF Access!LegacyGuard
<1>5. \A rule : Access!RuleVerdict(rule, who).scope \in Values \cup {None}
  BY <1>1, <1>2, <1>3 DEF Access!RuleVerdict, Access!OwnershipOf
<1>6. Access!Public.scope \in Values \cup {None}
  BY <1>2, <1>3 DEF Access!Public
<1>7. Access!PermissionGuard(who).scope \in Values \cup {None}
  BY <1>2, <1>3, <1>5, <1>6 DEF Access!PermissionGuard
<1> QED
  BY <1>4, <1>7

LEMMA ScopeGuard ==
    ASSUME Access!PermissionsAssumption, ScopeInv, NEW r \in Requests, Access!Guard(r)
    PROVE  ScopeInv'
<1>1. PICK who \in Requesters, kind \in {"create", "update", "delete"}, i \in Seeded,
           text \in PermBodies, parent \in Urls :
        Access!Guard(r)!2!(who, kind, i, text, parent)
  BY Zenon DEF Access!Guard
<1> DEFINE verdict == IF mode = "legacy" THEN Access!LegacyGuard(who)
                      ELSE Access!PermissionGuard(who)
<1>2. verdict.scope \in Values \cup {None}
  BY ScopeVerdict
<1> HIDE DEF verdict
<1>3. /\ DOMAIN req' = Requests /\ DOMAIN accessPc' = Requests
      /\ scope' \in [Requests -> Values \cup {None}]
      /\ req'[r].kind = kind /\ req'[r].id = (IF kind = "create" THEN r ELSE i)
      /\ accessPc'[r] \in {"refused", "write", "read"}
      /\ accessPc'[r] = "write" => kind = "create"
      /\ \A q \in Requests : q # r =>
             req'[q] = req[q] /\ accessPc'[q] = accessPc[q] /\ scope'[q] = scope[q]
  BY <1>1, <1>2 DEF verdict, ScopeInv, ScopeTypes
<1>4. UNCHANGED <<rows, seen, everIn, by, last>>
  BY DEF Access!Guard
<1>5. req'[r].id \in Access!Ids
  BY <1>3 DEF Access!Ids
<1>6. ScopeTypes'
  BY <1>3, <1>4, <1>5 DEF ScopeInv, ScopeTypes
<1>7. ScopeRead'
  BY <1>3, <1>4 DEF ScopeInv, ScopeRead
<1> QED
  BY <1>4, <1>6, <1>7 DEF ScopeInv, Access!ScopeKept

LEMMA ScopeReads ==
    ASSUME Access!PermissionsAssumption, ScopeInv, NEW r \in Requests, Access!Read(r)
    PROVE  ScopeInv'
<1> DEFINE row == rows[req[r].id]
<1>1. /\ accessPc[r] = "read" /\ UNCHANGED <<rows, req, scope, everIn, by, last>>
      /\ \/ accessPc' = [accessPc EXCEPT ![r] = "404"] /\ UNCHANGED seen
         \/ /\ ~(row = Absent \/ (scope[r] # None /\ row # scope[r]))
            /\ accessPc' = [accessPc EXCEPT ![r] = "write"] /\ seen' = [seen EXCEPT ![r] = row]
  BY DEF Access!Read
<1>2. req[r].id \in Access!Ids /\ row \in everIn[req[r].id] \cup {Absent, None}
  BY <1>1 DEF ScopeInv, ScopeTypes
<1> HIDE DEF row
<1>3. ScopeTypes'
  BY <1>1, <1>2 DEF ScopeInv, ScopeTypes
<1>4. ScopeRead'
  <2> SUFFICES ASSUME NEW q \in Requests, accessPc'[q] = "write",
                      req[q].kind \in {"update", "delete"}, scope[q] # None
               PROVE  seen'[q] = scope[q] /\ scope[q] \in everIn[req[q].id]
    BY <1>1 DEF ScopeRead
  <2>1. CASE q = r
    BY <1>1, <1>2, <2>1 DEF ScopeInv, ScopeTypes
  <2>2. CASE q # r
    BY <1>1, <2>2 DEF ScopeInv, ScopeTypes, ScopeRead
  <2> QED
    BY <2>1, <2>2
<1> QED
  BY <1>1, <1>3, <1>4 DEF ScopeInv, Access!ScopeKept

\* A request that is turned away at the write leaves the rows alone.
LEMMA ScopeTurnedAway ==
    ASSUME ScopeInv, NEW r \in Requests, NEW to, to \notin {"read", "write"},
           accessPc' = [accessPc EXCEPT ![r] = to],
           UNCHANGED <<rows, req, scope, seen, everIn, by, last>>
    PROVE  ScopeInv'
<1>1. /\ DOMAIN accessPc' = Requests
      /\ \A q \in Requests : accessPc'[q] \in {"read", "write"} => accessPc'[q] = accessPc[q]
  BY DEF ScopeInv, ScopeTypes
<1>2. ScopeTypes' /\ ScopeRead'
  BY <1>1 DEF ScopeInv, ScopeTypes, ScopeRead
<1> QED
  BY <1>2 DEF ScopeInv, Access!ScopeKept

LEMMA ScopeNext ==
    ASSUME Access!PermissionsAssumption, ScopeInv, Access!Next
    PROVE  ScopeInv'
<1>1. PICK r \in Requests : \/ Access!Guard(r) \/ Access!Read(r) \/ Access!CreateRow(r)
                           \/ Access!UpdateRow(r) \/ Access!DeleteRow(r)
  BY DEF Access!Next
<1>2. CASE Access!Guard(r)
  BY <1>2, ScopeGuard
<1>3. CASE Access!Read(r)
  BY <1>3, ScopeReads
<1>4. CASE Access!CreateRow(r)
  <2>1. scope[r] \in Values \cup {None} /\ Absent \notin Values
    BY DEF ScopeInv, ScopeTypes, Access!PermissionsAssumption
  <2>2. CASE scope[r] # None /\ req[r].parent \notin {None, scope[r]}
    BY <1>4, <2>2, ScopeTurnedAway DEF Access!CreateRow
  <2>3. CASE ~(scope[r] # None /\ req[r].parent \notin {None, scope[r]})
    <3>1. PICK value : Access!Write(r, value) /\ (scope[r] # None => value = scope[r])
      BY <1>4, <2>3 DEF Access!CreateRow
    <3> QED
      BY <1>4, <2>1, <3>1, ScopeWrite DEF Access!CreateRow
  <2> QED
    BY <2>2, <2>3
<1>5. CASE Access!UpdateRow(r)
  <2>1. scope[r] # None => seen[r] = scope[r] /\ scope[r] \in everIn[req[r].id]
    BY <1>5 DEF ScopeInv, ScopeRead, Access!UpdateRow
  <2>2. CASE Access!Write(r, Access!NewValue(r))
    <3>1. scope[r] # None => Access!NewValue(r) = scope[r]
      BY <2>1 DEF Access!NewValue
    <3> QED
      BY <1>5, <2>1, <2>2, <3>1, ScopeWrite DEF Access!UpdateRow
  <2>3. CASE ~Access!Write(r, Access!NewValue(r))
    BY <1>5, <2>3, ScopeTurnedAway DEF Access!UpdateRow
  <2> QED
    BY <2>2, <2>3
<1>6. CASE Access!DeleteRow(r)
  BY <1>6, ScopeWrite DEF ScopeInv, ScopeRead, Access!DeleteRow
<1> QED
  BY <1>1, <1>2, <1>3, <1>4, <1>5, <1>6

\* A requester with a scope writes only rows that were in it, and leaves
\* each of them in it or deleted.
THEOREM AlwaysScopeKept == ASSUME RecordAssumption PROVE RecordSpec => []ScopeKept
<1> DEFINE Inv == part = "Access" => ScopeInv
<1>0. Access!PermissionsAssumption
  BY DEF RecordAssumption
<1>1. RecordInit => Inv
  <2> SUFFICES ASSUME Access!Init PROVE ScopeInv
    BY DEF RecordInit
  <2>1. /\ DOMAIN rows = Access!Ids
        /\ accessPc = [r \in Requests |-> "new"] /\ req = [r \in Requests |-> None]
        /\ scope = [r \in Requests |-> None] /\ seen = [r \in Requests |-> None]
        /\ everIn = [i \in Access!Ids |-> {rows[i]} \ {Absent}]
        /\ by = [i \in Access!Ids |-> {}] /\ last = [i \in Access!Ids |-> None]
    BY DEF Access!Init
  <2>2. ScopeTypes /\ ScopeRead
    BY <2>1 DEF ScopeTypes, ScopeRead
  <2>3. \A i \in Access!Ids : rows[i] \in everIn[i] \cup {Absent, None}
    BY <2>1
  <2>4. Access!ScopeKept
    BY <2>1 DEF Access!ScopeKept
  <2> QED
    BY <2>2, <2>3, <2>4 DEF ScopeInv
<1>2. Inv /\ [RecordNext]_recordVars => Inv'
  <2> SUFFICES ASSUME part = "Access", ScopeInv, [RecordNext]_recordVars PROVE ScopeInv'
    BY DEF RecordNext, recordVars
  <2>1. CASE RecordNext
    BY <1>0, <2>1, ScopeNext DEF RecordNext
  <2>2. CASE UNCHANGED recordVars
    BY <2>2 DEF recordVars, AccessVars, ScopeInv, ScopeTypes, ScopeRead, Access!ScopeKept
  <2> QED
    BY <2>1, <2>2
<1>3. Inv => ScopeKept
  BY DEF ScopeKept, ScopeInv
<1> QED
  BY <1>1, <1>2, <1>3, PTL DEF RecordSpec

-----------------------------------------------------------------------------
(***************************************************************************)
(* Cascades.  Until the user is gone only others have changed rows.  While *)
(* the transaction runs, what it wrote differs from what was given only in *)
(* the relations it has been through: a row it has not deleted has lost no *)
(* relation with the policy Cascade, so that deleting the user finds them  *)
(* all.                                                                    *)
(***************************************************************************)
CascadeTypes ==
    /\ store \in {"memory", "database"} /\ userStore \in {"memory", "database"}
    /\ onDelete \in [Cascade!Relations -> Cascade!Policies]
    /\ refs \in [Rows -> Cascade!Contents]
    /\ user = "gone" => step = "done"
    /\ step = "done" /\ user # "gone" => Cascade!Apart
    /\ step = "remove" => Cascade!Apart
    /\ step \in {"idle", "refused", "remove", "done"} => staged = <<>>
    /\ store = "memory" => step \in {"idle", "refused", "remove", "done"}

CascadeUntouched ==
    user # "gone" /\ ~Cascade!Apart => \A row \in Rows \ touched : refs[row] = given[row]

CascadeCarried ==
    step # "commit" /\ user # "gone" /\ ~Cascade!Apart =>
        \A row \in Rows \ touched : Cascade!View(row) # Gone =>
            /\ given[row] # Gone
            /\ Cascade!View(row) \cap Cascade!Under("Cascade") =
                   given[row] \cap Cascade!Under("Cascade")

CascadeWriting == step = "write" => onDelete[Links[link]] \in {"Cascade", "SetNull"}

\* Once the user's row is deleted, no row refers to it, and what is left of a row had no
\* relation with the policy Cascade.
CascadeEmptied ==
    step = "commit" =>
        /\ \A row \in Rows : Cascade!View(row) \in {Gone, {}}
        /\ user # "there"
        /\ \A row \in Rows \ touched : Cascade!View(row) # Gone =>
               given[row] # Gone /\ given[row] \cap Cascade!Under("Cascade") = {}

CascadeInv ==
    /\ CascadeTypes /\ CascadeUntouched /\ CascadeCarried /\ CascadeWriting /\ CascadeEmptied
    /\ Cascade!CascadeAllOrNothing

LEMMA CascadeUnstaged == ASSUME staged = <<>> PROVE \A row : Cascade!View(row) = refs[row]
  BY DEF Cascade!View

LEMMA CascadeInit == ASSUME Cascade!Init PROVE CascadeInv
<1>1. /\ store \in {"memory", "database"} /\ userStore \in {"memory", "database"}
      /\ onDelete \in [Cascade!Relations -> Cascade!Policies]
      /\ refs \in [Rows -> Cascade!Contents] /\ given = refs /\ staged = <<>>
      /\ user = "there" /\ step = "idle"
  BY DEF Cascade!Init
<1>2. \A row : Cascade!View(row) = refs[row]
  BY <1>1, CascadeUnstaged
<1> QED
  BY <1>1, <1>2 DEF CascadeInv, CascadeTypes, CascadeUntouched, CascadeCarried, CascadeWriting,
                    CascadeEmptied, Cascade!CascadeAllOrNothing, Cascade!Apart

\* The memory store does it all in one turn.
LEMMA CascadeInMemory ==
    ASSUME Cascade!CascadesAssumption, CascadeInv, Cascade!DeleteInMemory
    PROVE  CascadeInv'
<1>1. /\ store = "memory" /\ step = "idle" /\ staged = <<>> /\ user # "gone"
      /\ UNCHANGED <<store, userStore, onDelete, given, touched, staged, link>>
  BY DEF Cascade!DeleteInMemory, CascadeInv, CascadeTypes
<1>2. CASE Cascade!Refused
  <2>1. step' = "refused" /\ UNCHANGED <<refs, user>>
    BY <1>2 DEF Cascade!DeleteInMemory
  <2>2. \A row : Cascade!View(row)' = Cascade!View(row)
    BY <1>1, <2>1 DEF Cascade!View
  <2>3. Cascade!Under("Cascade")' = Cascade!Under("Cascade")
    BY <1>1 DEF Cascade!Under
  <2> QED
    BY <1>1, <2>1, <2>2, <2>3
       DEF CascadeInv, CascadeTypes, CascadeUntouched, CascadeCarried, CascadeWriting,
           CascadeEmptied, Cascade!CascadeAllOrNothing, Cascade!Apart
<1>3. CASE ~Cascade!Refused
  <2>1. /\ refs' = [row \in Rows |-> Cascade!Cascaded(row)]
        /\ \/ userStore = "memory" /\ user' = "gone" /\ step' = "done"
           \/ userStore = "database" /\ user' = user /\ step' = "remove"
    BY <1>1, <1>3 DEF Cascade!DeleteInMemory, CascadeInv, CascadeTypes
  <2>2. \A policy : Cascade!Under(policy)' = Cascade!Under(policy)
    BY <1>1 DEF Cascade!Under
  <2>3. \A row \in Rows : refs[row] \in Cascade!Contents
    BY DEF CascadeInv, CascadeTypes
  <2>4. \A row \in Rows : Cascade!Cascaded(row) \in Cascade!Contents
    BY <2>3 DEF Cascade!Cascaded, Cascade!Contents
  <2>5. ASSUME NEW row \in Rows \ touched, Cascade!Cascaded(row) # Gone
        PROVE  /\ Cascade!Cascaded(row) \subseteq
                      Cascade!Under("unset") \cup Cascade!Under("unset-required")
               /\ given[row] # Gone /\ given[row] \cap Cascade!Under("Cascade") = {}
    <3>1. /\ refs[row] # Gone /\ refs[row] \cap Cascade!Under("Cascade") = {}
          /\ Cascade!Cascaded(row) = refs[row] \ Cascade!Under("SetNull")
      BY <2>5 DEF Cascade!Cascaded
    <3>2. refs[row] = given[row]
      BY <1>1 DEF CascadeInv, CascadeUntouched, Cascade!Apart
    <3>3. refs[row] \subseteq Cascade!Relations
      BY <2>3, <3>1 DEF Cascade!Contents
    <3>4. refs[row] \cap Cascade!Under("Restrict") = {}
      <4>1. Cascade!View(row) = refs[row]
        BY <1>1, CascadeUnstaged
      <4> QED
        BY <1>3, <3>1, <4>1 DEF Cascade!Refused, Cascade!Children, Cascade!Points
    <3>5. \A l \in Cascade!Relations : onDelete[l] \in Cascade!Policies
      BY DEF CascadeInv, CascadeTypes
    <3> QED
      BY <3>1, <3>2, <3>3, <3>4, <3>5 DEF Cascade!Under, Cascade!Policies
  <2>6. Cascade!CascadeAllOrNothing'
    BY <1>1, <2>1, <2>2, <2>5 DEF Cascade!CascadeAllOrNothing, Cascade!Apart
  <2> QED
    BY <1>1, <2>1, <2>4, <2>6 DEF CascadeInv, CascadeTypes, CascadeUntouched, CascadeCarried,
                                  CascadeWriting, CascadeEmptied, Cascade!Apart
<1> QED
  BY <1>2, <1>3

\* The deletion of a user at a database, after the cascade in memory.
LEMMA CascadeRemoveUser ==
    ASSUME CascadeInv, Cascade!RemoveUser
    PROVE  CascadeInv'
<1>1. /\ step = "remove" /\ step' = "done" /\ user' \in {"gone", user} /\ staged' = <<>>
      /\ UNCHANGED <<store, userStore, onDelete, refs, given, touched>>
  BY DEF Cascade!RemoveUser, CascadeInv, CascadeTypes
<1>2. Cascade!Apart /\ Cascade!Apart' /\ store = "memory"
  BY <1>1 DEF CascadeInv, CascadeTypes, Cascade!Apart
<1>3. \A policy : Cascade!Under(policy)' = Cascade!Under(policy)
  BY <1>1 DEF Cascade!Under
<1>4. Cascade!CascadeAllOrNothing'
  BY <1>1, <1>2, <1>3 DEF CascadeInv, Cascade!CascadeAllOrNothing
<1> QED
  BY <1>1, <1>2, <1>4 DEF CascadeInv, CascadeTypes, CascadeUntouched, CascadeCarried,
     CascadeWriting, CascadeEmptied

\* A transaction that ends without a commit leaves the rows to others.
LEMMA CascadeRollback ==
    ASSUME CascadeInv, step \in {"restrict", "find", "write", "deleteUser", "commit"},
           Cascade!Rollback, UNCHANGED <<store, userStore, onDelete, refs, given, touched>>
    PROVE  CascadeInv'
<1>1. staged' = <<>> /\ user' = "there" /\ step' = "refused" /\ user # "gone"
  BY DEF Cascade!Rollback, CascadeInv, CascadeTypes
<1>2. \A row : Cascade!View(row)' = refs[row]
  BY <1>1 DEF Cascade!View
<1>3. Cascade!Under("Cascade")' = Cascade!Under("Cascade")
  BY DEF Cascade!Under
<1> QED
  BY <1>1, <1>2, <1>3
     DEF CascadeInv, CascadeTypes, CascadeUntouched, CascadeCarried, CascadeWriting,
         CascadeEmptied, Cascade!CascadeAllOrNothing, Cascade!Apart

\* A statement that only reads, or the first one.
LEMMA CascadeReads ==
    ASSUME CascadeInv, step \in {"idle", "restrict", "find"}, store = "database",
           step' \in {"restrict", "find", "write", "deleteUser"},
           step' = "write" => onDelete[Links[link']] \in {"Cascade", "SetNull"},
           UNCHANGED <<store, userStore, onDelete, refs, given, touched, staged, user>>
    PROVE  CascadeInv'
<1>1. user # "gone"
  BY DEF CascadeInv, CascadeTypes
<1>2. \A row : Cascade!View(row)' = Cascade!View(row)
  BY DEF Cascade!View
<1>3. Cascade!Under("Cascade")' = Cascade!Under("Cascade")
  BY DEF Cascade!Under
<1> QED
  BY <1>1, <1>2, <1>3
     DEF CascadeInv, CascadeTypes, CascadeUntouched, CascadeCarried, CascadeWriting,
         CascadeEmptied, Cascade!CascadeAllOrNothing, Cascade!Apart

LEMMA CascadeWrite ==
    ASSUME Cascade!CascadesAssumption, CascadeInv, Cascade!WriteChildren
    PROVE  CascadeInv'
<1> DEFINE l == Links[link]
           new(row) == IF onDelete[l] = "Cascade" THEN Gone ELSE Cascade!View(row) \ {l}
<1>1. /\ step = "write" /\ step' = "find"
      /\ staged' = [row \in DOMAIN staged \cup Cascade!Children(l) |->
                       IF row \in Cascade!Children(l) THEN new(row) ELSE staged[row]]
      /\ UNCHANGED <<store, userStore, onDelete, refs, given, touched, user>>
  BY DEF Cascade!WriteChildren
<1>2. user # "gone" /\ onDelete[l] \in {"Cascade", "SetNull"} /\ store = "database"
  BY <1>1 DEF CascadeInv, CascadeTypes, CascadeWriting
<1>3. \A row \in Rows : Cascade!View(row)' =
          IF row \in Cascade!Children(l) THEN new(row) ELSE Cascade!View(row)
  BY <1>1 DEF Cascade!View
<1>4. Cascade!Under("Cascade")' = Cascade!Under("Cascade")
  BY <1>1 DEF Cascade!Under
<1>5. CascadeCarried'
  <2> SUFFICES ASSUME NEW row \in Rows \ touched, Cascade!View(row)' # Gone
               PROVE  /\ given[row] # Gone
                      /\ Cascade!View(row)' \cap Cascade!Under("Cascade") =
                             given[row] \cap Cascade!Under("Cascade")
    BY <1>1, <1>4 DEF CascadeCarried
  <2>1. CASE row \in Cascade!Children(l)
    <3>1. onDelete[l] = "SetNull" /\ Cascade!View(row)' = Cascade!View(row) \ {l}
      BY <1>2, <1>3, <2>1
    <3>2. Cascade!View(row) # Gone /\ l \notin Cascade!Under("Cascade")
      BY <2>1, <3>1 DEF Cascade!Children, Cascade!Points, Cascade!Under
    <3> QED
      BY <1>1, <1>2, <3>1, <3>2 DEF CascadeInv, CascadeCarried, Cascade!Apart
  <2>2. CASE row \notin Cascade!Children(l)
    BY <1>1, <1>2, <1>3, <2>2 DEF CascadeInv, CascadeCarried, Cascade!Apart
  <2> QED
    BY <2>1, <2>2
<1> QED
  BY <1>1, <1>2, <1>5
     DEF CascadeInv, CascadeTypes, CascadeUntouched, CascadeWriting, CascadeEmptied,
         Cascade!CascadeAllOrNothing, Cascade!Apart

LEMMA CascadeDeleteUser ==
    ASSUME Cascade!CascadesAssumption, CascadeInv, Cascade!DeleteUser
    PROVE  CascadeInv'
<1> DEFINE new(row) ==
        IF Cascade!View(row) \cap Cascade!Under("Cascade") # {} THEN Gone ELSE {}
<1>1. /\ step = "deleteUser" /\ UNCHANGED <<store, userStore, onDelete, refs, given, touched, link>>
      /\ \/ Cascade!Rollback
         \/ /\ staged' = [row \in DOMAIN staged \cup Cascade!Bound |->
                             IF row \in Cascade!Bound THEN new(row) ELSE staged[row]]
            /\ user' = "deleting" /\ step' = "commit"
  BY DEF Cascade!DeleteUser
<1>2. CASE Cascade!Rollback
  BY <1>1, <1>2, CascadeRollback
<1>3. CASE /\ staged' = [row \in DOMAIN staged \cup Cascade!Bound |->
                            IF row \in Cascade!Bound THEN new(row) ELSE staged[row]]
           /\ user' = "deleting" /\ step' = "commit"
  <2>1. user # "gone" /\ store = "database"
    BY <1>1 DEF CascadeInv, CascadeTypes
  <2>2. \A row \in Rows : Cascade!View(row)' =
            IF row \in Cascade!Bound THEN new(row) ELSE Cascade!View(row)
    BY <1>1, <1>3 DEF Cascade!View
  <2>3. \A row \in Rows : row \notin Cascade!Bound => Cascade!View(row) \in {Gone, {}}
    BY DEF Cascade!Bound
  <2>4. Cascade!Under("Cascade")' = Cascade!Under("Cascade")
    BY <1>1 DEF Cascade!Under
  <2>5. \A row \in Rows : Cascade!View(row)' \in {Gone, {}}
    BY <2>2, <2>3
  <2>6. ASSUME NEW row \in Rows \ touched, Cascade!View(row)' # Gone
        PROVE  given[row] # Gone /\ given[row] \cap Cascade!Under("Cascade") = {}
    <3>1. Cascade!View(row) # Gone /\ Cascade!View(row) \cap Cascade!Under("Cascade") = {}
      BY <2>2, <2>3, <2>6 DEF Cascade!Bound
    <3> QED
      BY <1>1, <2>1, <3>1 DEF CascadeInv, CascadeCarried, Cascade!Apart
  <2>7. CascadeEmptied'
    BY <1>1, <1>3, <2>4, <2>5, <2>6 DEF CascadeEmptied
  <2> QED
    BY <1>1, <1>3, <2>1, <2>7
       DEF CascadeInv, CascadeTypes, CascadeUntouched, CascadeCarried, CascadeWriting,
           Cascade!CascadeAllOrNothing, Cascade!Apart
<1> QED
  BY <1>1, <1>2, <1>3

LEMMA CascadeCommit ==
    ASSUME Cascade!CascadesAssumption, CascadeInv, Cascade!Commit
    PROVE  CascadeInv'
<1>1. /\ step = "commit" /\ refs' = [row \in Rows |-> Cascade!View(row)]
      /\ staged' = <<>> /\ user' = "gone" /\ step' = "done"
      /\ UNCHANGED <<store, userStore, onDelete, given, touched>>
  BY DEF Cascade!Commit
<1>2. store = "database"
  BY <1>1 DEF CascadeInv, CascadeTypes
<1>3. /\ \A row \in Rows : refs'[row] \in {Gone, {}}
      /\ \A row \in Rows \ touched : refs'[row] # Gone =>
             given[row] # Gone /\ given[row] \cap Cascade!Under("Cascade") = {}
  BY <1>1 DEF CascadeInv, CascadeEmptied
<1>4. refs' \in [Rows -> Cascade!Contents]
  BY <1>1, <1>3 DEF Cascade!Contents
<1>5. Cascade!Under("Cascade")' = Cascade!Under("Cascade")
  BY <1>1 DEF Cascade!Under
<1>6. Cascade!CascadeAllOrNothing'
  <2>1. \A row \in Rows \ touched : refs'[row] # Gone => refs'[row] = {}
    BY <1>3
  <2> QED
    BY <1>1, <1>3, <1>5, <2>1 DEF Cascade!CascadeAllOrNothing, Cascade!Apart
<1> QED
  BY <1>1, <1>2, <1>4, <1>6
     DEF CascadeInv, CascadeTypes, CascadeUntouched, CascadeCarried, CascadeWriting,
         CascadeEmptied

\* Another request writes a row the transaction has not written.
LEMMA CascadeOther ==
    ASSUME Cascade!CascadesAssumption, CascadeInv, NEW row \in Rows, Cascade!Other(row)
    PROVE  CascadeInv'
<1>1. PICK new \in Cascade!Contents :
          /\ store = "database" => new \in {Gone, {}} \/ user = "there"
          /\ refs' = [refs EXCEPT ![row] = new]
  BY DEF Cascade!Other
<1>2. /\ row \notin DOMAIN staged /\ touched' = touched \cup {row}
      /\ UNCHANGED <<store, userStore, onDelete, given, staged, user, step, link>>
  BY DEF Cascade!Other
<1>3. refs \in [Rows -> Cascade!Contents]
  BY DEF CascadeInv, CascadeTypes
<1>4. /\ refs' \in [Rows -> Cascade!Contents] /\ refs'[row] = new
      /\ \A other \in Rows : other # row => refs'[other] = refs[other]
  BY <1>1, <1>3
<1>5. \A other \in Rows : Cascade!View(other)' =
          IF other = row THEN new ELSE Cascade!View(other)
  BY <1>2, <1>4 DEF Cascade!View
<1>6. \A other \in Rows \ touched' : other \in Rows \ touched /\ other # row
  BY <1>2
<1>7. \A policy : Cascade!Under(policy)' = Cascade!Under(policy)
  BY <1>2 DEF Cascade!Under
<1>8. CascadeTypes'
  BY <1>2, <1>4 DEF CascadeInv, CascadeTypes, Cascade!Apart
<1>9. CascadeUntouched' /\ CascadeCarried' /\ CascadeWriting'
  BY <1>2, <1>4, <1>5, <1>6, <1>7
     DEF CascadeInv, CascadeUntouched, CascadeCarried, CascadeWriting, Cascade!Apart
<1>10. CascadeEmptied'
  <2>1. ASSUME step = "commit" PROVE new \in {Gone, {}} /\ user # "there"
    BY <1>1, <2>1 DEF CascadeInv, CascadeTypes, CascadeEmptied
  <2> QED
    BY <1>2, <1>5, <1>6, <1>7, <2>1 DEF CascadeInv, CascadeEmptied
<1>11. Cascade!CascadeAllOrNothing'
  <2>1. user = "gone" /\ store = "database" => new \in {Gone, {}}
    BY <1>1
  <2> QED
    BY <1>2, <1>4, <1>6, <1>7, <2>1 DEF CascadeInv, Cascade!CascadeAllOrNothing, Cascade!Apart
<1> QED
  BY <1>8, <1>9, <1>10, <1>11 DEF CascadeInv

LEMMA CascadeNext ==
    ASSUME Cascade!CascadesAssumption, CascadeInv, Cascade!Next
    PROVE  CascadeInv'
<1>1. ASSUME Cascade!BeginCascade PROVE CascadeInv'
  BY <1>1, CascadeReads DEF Cascade!BeginCascade
<1>2. ASSUME Cascade!CountRestricted PROVE CascadeInv'
  <2>1. /\ step = "restrict" /\ store = "database"
        /\ UNCHANGED <<store, userStore, onDelete, refs, given, touched>>
    BY <1>2 DEF Cascade!CountRestricted, CascadeInv, CascadeTypes
  <2>2. CASE Cascade!Rollback
    BY <2>1, <2>2, CascadeRollback
  <2>3. CASE ~Cascade!Rollback
    <3>1. step' \in {"restrict", "find"} /\ UNCHANGED <<staged, user>>
      BY <1>2, <2>3 DEF Cascade!CountRestricted
    <3> QED
      BY <2>1, <3>1, CascadeReads
  <2> QED
    BY <2>2, <2>3
<1>3. ASSUME Cascade!FindChildren PROVE CascadeInv'
  <2>1. /\ step = "find" /\ store = "database"
        /\ UNCHANGED <<store, userStore, onDelete, refs, given, touched, staged, user>>
    BY <1>3 DEF Cascade!FindChildren, CascadeInv, CascadeTypes
  <2>2. /\ step' \in {"find", "write", "deleteUser"}
        /\ step' = "write" => onDelete[Links[link']] \in {"Cascade", "SetNull"}
    BY <1>3 DEF Cascade!FindChildren
  <2> QED
    BY <2>1, <2>2, CascadeReads
<1>4. ASSUME Cascade!Fail PROVE CascadeInv'
  BY <1>4, CascadeRollback DEF Cascade!Fail
<1> QED
  BY <1>1, <1>2, <1>3, <1>4, CascadeInMemory, CascadeRemoveUser, CascadeWrite, CascadeDeleteUser,
     CascadeCommit, CascadeOther DEF Cascade!Next

\* A user is deleted with everything the policies of its children ask for,
\* or not at all, whatever others write meanwhile and wherever the cascade fails.
THEOREM AlwaysCascadeAllOrNothing ==
    ASSUME RecordAssumption PROVE RecordSpec => []CascadeAllOrNothing
<1> DEFINE Inv == part = "Cascade" => CascadeInv
<1>0. Cascade!CascadesAssumption
  BY DEF RecordAssumption
<1>1. RecordInit => Inv
  BY CascadeInit DEF RecordInit
<1>2. Inv /\ [RecordNext]_recordVars => Inv'
  <2> SUFFICES ASSUME part = "Cascade", CascadeInv, [RecordNext]_recordVars PROVE CascadeInv'
    BY DEF RecordNext, recordVars
  <2>1. CASE RecordNext
    BY <1>0, <2>1, CascadeNext DEF RecordNext
  <2>2. CASE UNCHANGED recordVars
    <3>1. UNCHANGED <<store, userStore, onDelete, refs, given, touched, staged, user, step, link>>
      BY <2>2 DEF recordVars, CascadeVars
    <3>2. \A row : Cascade!View(row)' = Cascade!View(row)
      BY <3>1 DEF Cascade!View
    <3>3. \A policy : Cascade!Under(policy)' = Cascade!Under(policy)
      BY <3>1 DEF Cascade!Under
    <3>4. Cascade!Apart' = Cascade!Apart
      BY <3>1 DEF Cascade!Apart
    <3>5. Cascade!CascadeAllOrNothing'
      BY <3>1, <3>3, <3>4 DEF CascadeInv, Cascade!CascadeAllOrNothing
    <3>6. CascadeTypes' /\ CascadeUntouched' /\ CascadeWriting'
      BY <3>1, <3>4 DEF CascadeInv, CascadeTypes, CascadeUntouched, CascadeWriting
    <3>7. CascadeCarried' /\ CascadeEmptied'
      BY <3>1, <3>2, <3>3, <3>4 DEF CascadeInv, CascadeCarried, CascadeEmptied
    <3> QED
      BY <3>5, <3>6, <3>7 DEF CascadeInv
  <2> QED
    BY <2>1, <2>2
<1>3. Inv => CascadeAllOrNothing
  BY DEF CascadeAllOrNothing, CascadeInv
<1> QED
  BY <1>1, <1>2, <1>3, PTL DEF RecordSpec

-----------------------------------------------------------------------------
(***************************************************************************)
(* Listings.  The rows of a listing are numbered by their indexes.  A row  *)
(* nobody touched keeps its place relative to another such row, whatever   *)
(* is written around them: a walk by cursors has returned exactly those up *)
(* to its cursor, and a walk by page numbers, as long as nobody writes,    *)
(* those with an index below the pages it has fetched.                     *)
(***************************************************************************)
WalkTypes ==
    /\ Query!TypeOK
    /\ \A i \in RowIds : got[i] <= page
    /\ steady \subseteq Query!Selected
    /\ backing = "memory" =>
           /\ \A i \in Query!Table : inserted[i] <= Cardinality(RowIds) + writes
           /\ \A i, j \in Query!Table : inserted[i] = inserted[j] => i = j

WalkByCursor ==
    paging = "cursor" /\ ~astray =>
        /\ walk = "walking" /\ cursor # None => cursor \in Query!Selected
        /\ \A i \in steady :
               /\ walk = "ended" => got[i] = 1
               /\ walk = "walking" /\ cursor = None => got[i] = 0
               /\ walk = "walking" /\ cursor # None =>
                      got[i] = IF i = cursor \/ Query!Before(i, cursor) THEN 1 ELSE 0

WalkByNumber ==
    paging = "offset" /\ ~astray =>
        \A i \in steady :
            /\ walk = "ended" => got[i] = 1
            /\ walk = "walking" =>
                   got[i] = IF Query!Index(Query!Selected, i) < page * Query!Limit THEN 1 ELSE 0

\* In memory the walk has returned whatever is at or before its cursor, if that is there.
WalkRestarts ==
    backing = "memory" /\ paging = "cursor" /\ ~moved =>
        \A i \in steady :
            /\ walk = "ended" => got[i] >= 1
            /\ walk = "walking" /\ cursor \in Query!Table
                  /\ (i = cursor \/ Query!Before(i, cursor)) => got[i] >= 1

WalkInv == WalkTypes /\ WalkByCursor /\ WalkByNumber /\ WalkRestarts

LEMMA QueryCardinality == \A S : Query!Cardinality(S) = Cardinality(S)
  BY ZenonT(60) DEF Query!Cardinality, Cardinality

LEMMA QueryFinite == ASSUME Query!QueryingAssumption PROVE IsFiniteSet(RowIds)
  BY Zenon DEF Query!QueryingAssumption, Query!IsFiniteSet, IsFiniteSet

LEMMA WalkLimit ==
    ASSUME Query!QueryingAssumption, WalkTypes
    PROVE  Query!Limit \in Nat /\ Query!Limit >= 1
<1>1. DefaultLimit \in Nat /\ DefaultLimit >= 1 /\ MaxLimit \in Nat /\ MaxLimit >= 1
  BY DEF Query!QueryingAssumption
<1>2. rawLimit \in Int \cup {None, Text}
  BY DEF Query!QueryingAssumption, WalkTypes, Query!TypeOK
<1> QED
  BY <1>1, <1>2 DEF Query!Limit

\* The order of a listing is a strict total order.
LEMMA WalkOrder ==
    ASSUME Query!QueryingAssumption, WalkTypes,
           NEW i \in Query!Table, NEW j \in Query!Table, NEW k \in Query!Table
    PROVE  /\ ~Query!Before(i, i)
           /\ Query!Before(i, j) /\ Query!Before(j, k) => Query!Before(i, k)
           /\ i = j \/ Query!Before(i, j) \/ Query!Before(j, i)
<1>1. /\ i \in Nat /\ j \in Nat /\ k \in Nat
      /\ key[i] \in Int /\ key[j] \in Int /\ key[k] \in Int
      /\ inserted[i] \in Nat /\ inserted[j] \in Nat /\ inserted[k] \in Nat
  BY DEF WalkTypes, Query!TypeOK, Query!QueryingAssumption, Query!Table
<1>2. backing = "memory" => (inserted[i] = inserted[j] => i = j)
  BY DEF WalkTypes
<1> QED
  BY <1>1, <1>2 DEF Query!Before

\* The indexes of a listing's rows are the numbers below its length, in the rows' order.
LEMMA WalkIndex ==
    ASSUME Query!QueryingAssumption, WalkTypes, NEW S \in SUBSET Query!Table
    PROVE  /\ Cardinality(S) \in Nat
           /\ \A i \in S : Query!Index(S, i) \in 0..(Cardinality(S) - 1)
           /\ \A i, j \in S : Query!Before(i, j) <=> Query!Index(S, i) < Query!Index(S, j)
           /\ \A i, j \in S : Query!Index(S, i) = Query!Index(S, j) => i = j
           /\ \A n \in 0..(Cardinality(S) - 1) : \E i \in S : Query!Index(S, i) = n
<1> DEFINE Lower(i) == {j \in S : Query!Before(j, i)}
           N == Cardinality(S)
<1>1. IsFiniteSet(S) /\ N \in Nat
  <2>1. S \subseteq RowIds
    BY DEF Query!Table
  <2> QED
    BY <2>1, QueryFinite, FS_Subset, FS_CardinalityType
<1>2. \A i \in S : Query!Index(S, i) = Cardinality(Lower(i))
  BY QueryCardinality DEF Query!Index
<1>3. ASSUME NEW i \in S
      PROVE  IsFiniteSet(Lower(i)) /\ Cardinality(Lower(i)) \in 0..(N - 1)
  <2>1. Lower(i) \subseteq S /\ i \notin Lower(i)
    BY WalkOrder
  <2>2. IsFiniteSet(Lower(i)) /\ Cardinality(Lower(i)) <= N
        /\ (N = Cardinality(Lower(i)) => S = Lower(i))
    BY <1>1, <2>1, FS_Subset
  <2> QED
    BY <1>1, <2>1, <2>2, FS_CardinalityType
<1>4. ASSUME NEW i \in S, NEW j \in S, Query!Before(i, j)
      PROVE  Cardinality(Lower(i)) < Cardinality(Lower(j))
  <2>1. Lower(i) \subseteq Lower(j) /\ i \in Lower(j) /\ i \notin Lower(i)
    BY <1>4, WalkOrder
  <2>2. Cardinality(Lower(i)) <= Cardinality(Lower(j))
        /\ (Cardinality(Lower(j)) = Cardinality(Lower(i)) => Lower(j) = Lower(i))
    BY <1>3, <2>1, FS_Subset
  <2> QED
    BY <1>3, <2>1, <2>2
<1>5. ASSUME NEW i \in S, NEW j \in S, i # j
      PROVE  Query!Before(i, j) \/ Query!Before(j, i)
  BY <1>5, WalkOrder
<1> HIDE DEF Lower
<1> DEFINE f == [i \in S |-> Cardinality(Lower(i))]
<1>6. f \in Injection(S, 0..(N - 1))
  <2>1. f \in [S -> 0..(N - 1)]
    BY <1>3
  <2>2. \A i, j \in S : f[i] = f[j] => i = j
    <3> SUFFICES ASSUME NEW i \in S, NEW j \in S, i # j PROVE f[i] # f[j]
      OBVIOUS
    <3>1. f[i] = Cardinality(Lower(i)) /\ f[j] = Cardinality(Lower(j))
      OBVIOUS
    <3>2. Cardinality(Lower(i)) \in Int /\ Cardinality(Lower(j)) \in Int
      BY <1>3
    <3>3. \/ Cardinality(Lower(i)) < Cardinality(Lower(j))
          \/ Cardinality(Lower(j)) < Cardinality(Lower(i))
      BY <1>4, <1>5
    <3> QED
      BY <3>1, <3>2, <3>3
  <2> QED
    BY <2>1, <2>2 DEF Injection, IsInjective
<1>7. f \in Surjection(S, 0..(N - 1))
  <2>1. IsFiniteSet(0..(N - 1)) /\ Cardinality(0..(N - 1)) = N
    BY <1>1, FS_Interval
  <2> QED
    BY <1>6, <2>1, FS_Injection
<1>8. \A n \in 0..(N - 1) : \E i \in S : f[i] = n
  BY <1>7 DEF Surjection
<1>9. ASSUME NEW i \in S, NEW j \in S
      PROVE  /\ Query!Before(i, j) <=> Cardinality(Lower(i)) < Cardinality(Lower(j))
             /\ Cardinality(Lower(i)) = Cardinality(Lower(j)) => i = j
  <2>1. Cardinality(Lower(i)) \in Int /\ Cardinality(Lower(j)) \in Int
    BY <1>3
  <2>2. CASE i = j
    BY <2>1, <2>2, WalkOrder
  <2>3. CASE i # j
    <3>1. \/ Query!Before(i, j) /\ Cardinality(Lower(i)) < Cardinality(Lower(j))
          \/ Query!Before(j, i) /\ Cardinality(Lower(j)) < Cardinality(Lower(i))
      BY <1>4, <1>5, <2>3
    <3>2. ~(Query!Before(i, j) /\ Query!Before(j, i))
      BY WalkOrder
    <3> QED
      BY <2>1, <2>3, <3>1, <3>2
  <2> QED
    BY <2>2, <2>3
<1> HIDE DEF N
<1> QED
  BY <1>1, <1>2, <1>3, <1>8, <1>9 DEF N

\* A full page ends with the row of its last index.
LEMMA WalkFinal ==
    ASSUME Query!QueryingAssumption, WalkTypes, NEW S \in SUBSET Query!Table,
           NEW start \in Nat, NEW n \in Nat, n >= 1, start + n <= Cardinality(S)
    PROVE  /\ Query!Final(Query!Slice(S, start, n)) \in S
           /\ Query!Index(S, Query!Final(Query!Slice(S, start, n))) = start + n - 1
<1> DEFINE data == Query!Slice(S, start, n)
<1>1. /\ Cardinality(S) \in Nat
      /\ \A i \in S : Query!Index(S, i) \in 0..(Cardinality(S) - 1)
      /\ \A i, j \in S : Query!Before(i, j) <=> Query!Index(S, i) < Query!Index(S, j)
      /\ \A i, j \in S : Query!Index(S, i) = Query!Index(S, j) => i = j
  BY WalkIndex
<1>2. PICK final \in S : Query!Index(S, final) = start + n - 1
  BY <1>1, WalkIndex
<1>3. data = {i \in S : Query!Index(S, i) \in start .. start + n - 1}
  BY DEF Query!Slice
<1> HIDE DEF data
<1>4. final \in data
  BY <1>2, <1>3
<1>5. \A j \in data \ {final} : Query!Before(j, final)
  <2> SUFFICES ASSUME NEW j \in data, j # final PROVE Query!Before(j, final)
    OBVIOUS
  <2>1. /\ j \in S /\ Query!Index(S, j) \in Int /\ Query!Index(S, j) <= start + n - 1
        /\ Query!Index(S, j) # Query!Index(S, final)
    BY <1>1, <1>2, <1>3
  <2> QED
    BY <1>1, <1>2, <2>1
<1>6. /\ Query!Final(data) \in data
      /\ \A j \in data \ {Query!Final(data)} : Query!Before(j, Query!Final(data))
  BY <1>4, <1>5 DEF Query!Final
<1>7. Query!Final(data) = final
  <2>1. Query!Final(data) # final => Query!Before(final, Query!Final(data))
    BY <1>4, <1>6
  <2>2. Query!Final(data) # final => Query!Before(Query!Final(data), final)
    BY <1>5, <1>6
  <2> QED
    BY <1>1, <1>2, <1>3, <1>6, <2>1, <2>2
<1> QED
  BY <1>2, <1>7 DEF data

\* The database fetches one row more than the page exactly if another page follows.
LEMMA WalkFetched ==
    ASSUME Query!QueryingAssumption, WalkTypes, NEW S \in SUBSET Query!Table,
           NEW start \in Nat, NEW n \in Nat
    PROVE  Query!Slice(S, start, n + 1) # Query!Slice(S, start, n) <=> start + n < Cardinality(S)
<1>1. /\ Cardinality(S) \in Nat
      /\ \A i \in S : Query!Index(S, i) \in 0..(Cardinality(S) - 1)
  BY WalkIndex
<1>2. CASE start + n < Cardinality(S)
  <2>1. PICK i \in S : Query!Index(S, i) = start + n
    BY <1>1, <1>2, WalkIndex
  <2>2. i \in Query!Slice(S, start, n + 1) /\ i \notin Query!Slice(S, start, n)
    BY <2>1 DEF Query!Slice
  <2> QED
    BY <1>2, <2>2
<1>3. CASE ~(start + n < Cardinality(S))
  <2>1. \A i \in S : Query!Index(S, i) \in start .. start + (n + 1) - 1
                         <=> Query!Index(S, i) \in start .. start + n - 1
    BY <1>1, <1>3
  <2>2. Query!Slice(S, start, n + 1) = Query!Slice(S, start, n)
    BY <2>1 DEF Query!Slice
  <2> QED
    BY <1>3, <2>2
<1> QED
  BY <1>2, <1>3

\* A page by cursor is a slice of a set of rows selected; every row of which the walk keeps
\* account was returned before, or is in that set from the start of the page on.
LEMMA WalkPage ==
    ASSUME Query!QueryingAssumption, WalkInv, Query!CursorPage
    PROVE  \E S \in SUBSET Query!Selected, start \in Nat, more \in BOOLEAN :
               /\ more <=> start + Query!Limit < Cardinality(S)
               /\ got' = [i \in RowIds |->
                             got[i] + Query!Count(Query!Slice(S, start, Query!Limit), i)]
               /\ IF more
                  THEN cursor' = Query!Final(Query!Slice(S, start, Query!Limit)) /\ UNCHANGED walk
                  ELSE walk' = "ended" /\ UNCHANGED cursor
               /\ ~astray' => \A i \in steady :
                      /\ got[i] = IF i \notin S \/ Query!Index(S, i) < start THEN 1 ELSE 0
                      /\ i \notin S => \A j \in S : Query!Before(i, j)
               /\ backing = "memory" =>
                      /\ S = Query!Selected
                      /\ ~moved => \A i \in steady : Query!Index(S, i) < start => got[i] >= 1
<1> DEFINE result == IF backing = "memory" THEN Query!MemoryPage ELSE Query!DatabasePage
           lim == Query!Limit
<1>1. /\ paging = "cursor" /\ walk = "walking"
      /\ got' = [i \in RowIds |-> got[i] + Query!Count(result.data, i)]
      /\ IF result.more THEN cursor' = Query!Final(result.data) /\ UNCHANGED walk
                        ELSE walk' = "ended" /\ UNCHANGED cursor
      /\ astray' = astray /\ moved' = moved
  BY DEF Query!CursorPage, Query!Return
<1>2. /\ lim \in Nat /\ lim >= 1
      /\ steady \subseteq Query!Selected /\ Query!Selected \subseteq Query!Table
      /\ Query!Table \subseteq RowIds /\ None \notin RowIds
  <2>1. lim \in Nat /\ lim >= 1
    BY WalkLimit DEF WalkInv
  <2>2. steady \subseteq Query!Selected
    BY DEF WalkInv, WalkTypes
  <2>3. Query!Selected \subseteq Query!Table /\ Query!Table \subseteq RowIds
    BY DEF Query!Selected, Query!Table
  <2>4. None \notin RowIds
    <3>1. RowIds \subseteq Int /\ None \notin Int
      BY DEF Query!QueryingAssumption
    <3> QED
      BY <3>1
  <2> QED
    BY <2>1, <2>2, <2>3, <2>4
<1>3. ASSUME ~astray', NEW i \in steady
      PROVE  /\ cursor = None => got[i] = 0
             /\ cursor # None =>
                    /\ cursor \in Query!Selected
                    /\ got[i] = IF i = cursor \/ Query!Before(i, cursor) THEN 1 ELSE 0
  BY <1>1, <1>3 DEF WalkInv, WalkByCursor
<1> HIDE DEF lim
<1>4. CASE backing = "memory"
  <2> DEFINE S == Query!Selected
             start == IF cursor \in S THEN Query!Index(S, cursor) + 1 ELSE 0
             more == start + lim < Cardinality(S)
  <2>1. /\ \A i \in S : Query!Index(S, i) \in 0..(Cardinality(S) - 1)
        /\ \A i, j \in S : Query!Before(i, j) <=> Query!Index(S, i) < Query!Index(S, j)
        /\ \A i, j \in S : Query!Index(S, i) = Query!Index(S, j) => i = j
        /\ Cardinality(S) \in Nat
    BY <1>2, WalkIndex DEF WalkInv
  <2>2. start \in Nat
    BY <2>1
  <2>3. result.data = Query!Slice(S, start, lim) /\ result.more = more
    BY <1>4, QueryCardinality DEF Query!MemoryPage, Query!After, lim
  <2>4. ASSUME ~astray', NEW i \in steady
        PROVE  got[i] = IF Query!Index(S, i) < start THEN 1 ELSE 0
    <3>1. i \in S /\ Query!Index(S, i) \in Int /\ Query!Index(S, i) >= 0
      BY <1>2, <2>1
    <3>2. CASE cursor = None
      BY <1>2, <1>3, <2>4, <3>1, <3>2
    <3>3. CASE cursor # None
      <4>1. cursor \in S /\ Query!Index(S, cursor) \in Int
        BY <1>2, <1>3, <2>1, <2>4, <3>3
      <4>2. i = cursor \/ Query!Before(i, cursor) <=> Query!Index(S, i) < start
        BY <2>1, <3>1, <4>1
      <4> QED
        BY <1>3, <2>4, <3>3, <4>2
    <3> QED
      BY <3>2, <3>3
  <2>7. ASSUME ~moved, NEW i \in steady, Query!Index(S, i) < start PROVE got[i] >= 1
    <3>1. i \in S /\ Query!Index(S, i) \in Int /\ Query!Index(S, i) >= 0
      BY <1>2, <2>1
    <3>2. cursor \in S /\ cursor \in Query!Table /\ Query!Index(S, cursor) \in Int
      BY <1>2, <2>1, <2>7, <3>1
    <3>3. i = cursor \/ Query!Before(i, cursor)
      BY <2>1, <2>7, <3>1, <3>2
    <3> QED
      BY <1>1, <1>4, <2>7, <3>2, <3>3 DEF WalkInv, WalkRestarts
  <2>8. S = Query!Selected
    OBVIOUS
  <2> HIDE DEF S, start
  <2>5. S \in SUBSET Query!Selected /\ more \in BOOLEAN
    BY DEF S
  <2>6. steady \subseteq S
    BY <1>2 DEF S
  <2> QED
    BY <1>1, <2>2, <2>3, <2>4, <2>5, <2>6, <2>7, <2>8 DEF lim
<1>5. CASE backing # "memory"
  <2> DEFINE S == {i \in Query!Selected : Query!Anchored(i)}
             start == IF cursor = None THEN 0 ELSE 1
             more == start + lim < Cardinality(S)
  <2>1. S \in SUBSET Query!Selected /\ start \in Nat
    OBVIOUS
  <2>2. /\ \A i \in S : Query!Index(S, i) \in 0..(Cardinality(S) - 1)
        /\ \A i, j \in S : Query!Before(i, j) <=> Query!Index(S, i) < Query!Index(S, j)
        /\ \A i, j \in S : Query!Index(S, i) = Query!Index(S, j) => i = j
        /\ \A n \in 0..(Cardinality(S) - 1) : \E i \in S : Query!Index(S, i) = n
        /\ Cardinality(S) \in Nat
    BY <1>2, <2>1, WalkIndex DEF WalkInv
  <2>3. result.data = Query!Slice(S, start, lim) /\ (result.more <=> more)
    <3>1. /\ result.data = Query!Slice(S, start, lim)
          /\ result.more <=> Query!Slice(S, start, lim + 1) # Query!Slice(S, start, lim)
      BY <1>5 DEF Query!DatabasePage, lim
    <3>2. Query!Slice(S, start, lim + 1) # Query!Slice(S, start, lim) <=> more
      BY <1>2, <2>1, WalkFetched DEF WalkInv
    <3> QED
      BY <3>1, <3>2
  <2>4. ASSUME ~astray', NEW i \in steady
        PROVE  /\ got[i] = IF i \notin S \/ Query!Index(S, i) < start THEN 1 ELSE 0
               /\ i \notin S => \A j \in S : Query!Before(i, j)
    <3>1. CASE cursor = None
      <4>1. i \in S /\ Query!Index(S, i) \in Int /\ Query!Index(S, i) >= 0
        BY <1>2, <2>2, <3>1 DEF Query!Anchored
      <4> QED
        BY <1>3, <2>4, <3>1, <4>1
    <3>2. CASE cursor # None
      <4>1. cursor \in Query!Table /\ cursor \in Query!Selected /\ ~Query!Before(cursor, cursor)
        BY <1>2, <1>3, <2>4, <3>2, WalkOrder DEF WalkInv
      <4>2. \A j \in Query!Selected : j \in S <=> ~Query!Before(j, cursor)
        BY <1>2, <3>2, <4>1 DEF Query!Anchored
      <4>3. S \subseteq Query!Selected /\ i \in Query!Selected
        BY <1>2
      <4> HIDE DEF S
      <4>4. cursor \in S /\ Query!Index(S, cursor) \in Int /\ Cardinality(S) > 0
        BY <2>2, <4>1, <4>2
      <4>5. Query!Index(S, cursor) = 0
        <5>1. PICK j \in S : Query!Index(S, j) = 0
          BY <2>2, <4>4
        <5> QED
          BY <2>2, <4>4, <4>2, <4>3, <5>1
      <4>6. i \in S => (i = cursor <=> Query!Index(S, i) < 1)
        BY <2>2, <4>4, <4>5
      <4>7. i \notin S => \A j \in S : Query!Before(i, j)
        <5> SUFFICES ASSUME Query!Before(i, cursor), NEW j \in S PROVE Query!Before(i, j)
          BY <4>2, <4>3
        <5>1. j \in Query!Table /\ i \in Query!Table
          BY <1>2, <4>3
        <5>2. j = cursor \/ Query!Before(cursor, j)
          BY <4>1, <4>2, <4>3, <5>1, WalkOrder DEF WalkInv
        <5> QED
          BY <4>1, <5>1, <5>2, WalkOrder DEF WalkInv
      <4> QED
        BY <1>3, <2>4, <3>2, <4>2, <4>3, <4>6, <4>7
    <3> QED
      BY <3>1, <3>2
  <2> HIDE DEF S, start, more
  <2>5. more \in BOOLEAN
    BY DEF more
  <2> QED
    BY <1>1, <1>5, <2>1, <2>3, <2>4, <2>5 DEF lim, more
<1> QED
  BY <1>4, <1>5

\* Rounding up counts enough pages for all rows.
LEMMA WalkPages ==
    ASSUME NEW a \in Nat, NEW b \in Nat, b >= 1, NEW p \in Nat, p >= (a + b - 1) \div b
    PROVE  a <= p * b
<1>1. PICK q \in Int : q = (a + b - 1) \div b
  OBVIOUS
<1>2. PICK r \in Int : r = (a + b - 1) % b
  OBVIOUS
<1>3. a + b - 1 = b * q + r /\ r < b
  BY <1>1, <1>2
<1>4. b * q <= b * p
  BY <1>1
<1> QED
  BY <1>3, <1>4

LEMMA WalkInit ==
    ASSUME Query!QueryingAssumption, Query!Init
    PROVE  WalkInv
<1>1. PICK rs \in SUBSET RowIds :
          \E at : /\ backing = "memory" => at \in Query!Numberings(rs)
                  /\ backing # "memory" => at = [i \in rs |-> i]
                  /\ inserted = [i \in RowIds |-> IF i \in rs THEN at[i] ELSE None]
  BY Zenon DEF Query!Init
<1>2. PICK at : /\ backing = "memory" => at \in Query!Numberings(rs)
                /\ backing # "memory" => at = [i \in rs |-> i]
                /\ inserted = [i \in RowIds |-> IF i \in rs THEN at[i] ELSE None]
  BY <1>1
<1> DEFINE Rest ==
        /\ backing \in {"memory", "database"} /\ paging \in {"cursor", "offset"}
        /\ sorted \in BOOLEAN /\ rawLimit \in RawLimits
        /\ (key \in IF sorted THEN [RowIds -> SortKeys]
                               ELSE {[i \in RowIds |-> k] : k \in SortKeys})
        /\ hidden = {} /\ cursor = None /\ page = 0 /\ walk = "walking"
        /\ got = [i \in RowIds |-> 0] /\ steady = Query!Table /\ astray = FALSE
        /\ moved = FALSE /\ writes = 0
<1>3. Rest
  BY Zenon DEF Query!Init
<1> HIDE DEF Rest
<1>4. key \in [RowIds -> SortKeys]
  <2>1. CASE sorted
    BY <1>3, <2>1 DEF Rest
  <2>2. CASE ~sorted
    <3>1. key \in {[i \in RowIds |-> k] : k \in SortKeys}
      BY Zenon, <1>3, <2>2 DEF Rest
    <3> QED
      BY <3>1
  <2> QED
    BY <2>1, <2>2
<1>5. /\ backing \in {"memory", "database"} /\ paging \in {"cursor", "offset"}
      /\ sorted \in BOOLEAN /\ rawLimit \in RawLimits
      /\ hidden = {} /\ cursor = None /\ page = 0 /\ walk = "walking"
      /\ got = [i \in RowIds |-> 0] /\ steady = Query!Table /\ astray = FALSE
        /\ moved = FALSE /\ writes = 0
  BY Zenon, <1>3 DEF Rest
<1>6. /\ IsFiniteSet(RowIds) /\ Cardinality(RowIds) \in Nat /\ Cardinality(rs) \in Nat
      /\ Cardinality(rs) <= Cardinality(RowIds)
  BY QueryFinite, FS_Subset, FS_CardinalityType
<1>7. backing = "memory" =>
          /\ at \in [rs -> 1..Cardinality(rs)]
          /\ \A i, j \in rs : at[i] = at[j] => i = j
  BY <1>2, QueryCardinality DEF Query!Numberings
<1>8. at \in [rs -> Nat]
  BY <1>2, <1>6, <1>7 DEF Query!QueryingAssumption
<1>9. Query!Table = rs
  <2>1. None \notin Int
    BY DEF Query!QueryingAssumption
  <2>2. \A i \in RowIds : inserted[i] # None <=> i \in rs
    BY <1>2, <1>8, <2>1
  <2> QED
    BY <2>2 DEF Query!Table
<1>10. inserted \in [RowIds -> Nat \cup {None}]
  BY <1>2, <1>8
<1>11. Query!TypeOK
  <2>1. MaxPages \in Nat /\ MaxWrites \in Nat
    BY DEF Query!QueryingAssumption
  <2>2. got \in [RowIds -> 0..MaxPages] /\ page \in 0..MaxPages /\ writes \in 0..MaxWrites
    BY <1>5, <2>1
  <2>3. steady \subseteq RowIds /\ hidden \subseteq RowIds /\ cursor \in RowIds \cup {None}
    BY <1>5, <1>9
  <2>4. walk \in {"walking", "ended"} /\ astray \in BOOLEAN /\ moved \in BOOLEAN
    BY <1>5
  <2> QED
    BY Zenon, <1>4, <1>5, <1>10, <2>2, <2>3, <2>4 DEF Query!TypeOK
<1>12. backing = "memory" =>
          /\ \A i \in Query!Table : inserted[i] <= Cardinality(RowIds) + writes
          /\ \A i, j \in Query!Table : inserted[i] = inserted[j] => i = j
  <2>1. \A i \in rs : inserted[i] = at[i] /\ at[i] \in Nat
    BY <1>2, <1>8
  <2>2. writes = 0
    BY <1>5
  <2> QED
    BY <1>6, <1>7, <1>9, <2>1, <2>2
<1>13. WalkTypes
  BY <1>5, <1>11, <1>12 DEF WalkTypes, Query!Selected, Query!Table
<1>14. WalkByCursor
  BY <1>5, <1>13 DEF WalkTypes, WalkByCursor, Query!Table
<1>15. WalkByNumber
  <2>1. Query!Limit \in Nat /\ page = 0
    BY <1>5, <1>13, WalkLimit
  <2>2. page * Query!Limit = 0
    BY <2>1
  <2>3. \A i \in Query!Selected : Query!Index(Query!Selected, i) \in Nat
    <3>1. Query!Selected \subseteq Query!Table
      BY DEF Query!Selected
    <3> QED
      BY <1>13, <3>1, WalkIndex
  <2>4. ASSUME NEW i \in steady
        PROVE  got[i] = 0 /\ ~(Query!Index(Query!Selected, i) < page * Query!Limit)
    <3>1. i \in Query!Selected /\ i \in RowIds
      BY <1>13 DEF WalkTypes, Query!TypeOK
    <3>2. Query!Index(Query!Selected, i) \in Nat /\ got[i] = 0
      BY <1>5, <2>3, <3>1
    <3> QED
      BY <2>2, <3>2
  <2> QED
    BY <1>5, <2>4 DEF WalkByNumber
<1>16. WalkRestarts
  <2>1. None \notin Int /\ RowIds \subseteq Int
    BY DEF Query!QueryingAssumption
  <2>2. cursor \notin Query!Table /\ walk = "walking"
    BY <1>5, <2>1 DEF Query!Table
  <2> QED
    BY <2>2 DEF WalkRestarts
<1> QED
  BY <1>13, <1>14, <1>15, <1>16 DEF WalkInv

LEMMA WalkNextCursor ==
    ASSUME Query!QueryingAssumption, WalkInv, Query!CursorPage
    PROVE  WalkInv'
<1> DEFINE lim == Query!Limit
<1>1. PICK S \in SUBSET Query!Selected, start \in Nat, more \in BOOLEAN :
          /\ more <=> start + lim < Cardinality(S)
          /\ got' = [i \in RowIds |-> got[i] + Query!Count(Query!Slice(S, start, lim), i)]
          /\ IF more
             THEN cursor' = Query!Final(Query!Slice(S, start, lim)) /\ UNCHANGED walk
             ELSE walk' = "ended" /\ UNCHANGED cursor
          /\ ~astray' => \A i \in steady :
                 /\ got[i] = IF i \notin S \/ Query!Index(S, i) < start THEN 1 ELSE 0
                 /\ i \notin S => \A j \in S : Query!Before(i, j)
          /\ backing = "memory" =>
                 /\ S = Query!Selected
                 /\ ~moved => \A i \in steady : Query!Index(S, i) < start => got[i] >= 1
  BY WalkPage
<1>2. /\ lim \in Nat /\ lim >= 1 /\ S \subseteq Query!Table
      /\ steady \subseteq Query!Selected /\ Query!Selected \subseteq Query!Table
      /\ Query!Table \subseteq RowIds /\ None \notin RowIds
  <2>1. lim \in Nat /\ lim >= 1
    BY WalkLimit DEF WalkInv
  <2>2. steady \subseteq Query!Selected
    BY DEF WalkInv, WalkTypes
  <2>3. Query!Selected \subseteq Query!Table /\ Query!Table \subseteq RowIds
    BY DEF Query!Selected, Query!Table
  <2>4. RowIds \subseteq Int /\ None \notin Int
    BY DEF Query!QueryingAssumption
  <2>5. None \notin RowIds
    BY <2>4
  <2> QED
    BY <1>1, <2>1, <2>2, <2>3, <2>5
<1>3. /\ \A i \in S : Query!Index(S, i) \in 0..(Cardinality(S) - 1)
      /\ \A i, j \in S : Query!Before(i, j) <=> Query!Index(S, i) < Query!Index(S, j)
      /\ \A i, j \in S : Query!Index(S, i) = Query!Index(S, j) => i = j
      /\ Cardinality(S) \in Nat
  BY <1>2, WalkIndex DEF WalkInv
<1>4. /\ paging = "cursor" /\ walk = "walking" /\ page < MaxPages /\ page' = page + 1
      /\ UNCHANGED <<backing, paging, sorted, rawLimit, inserted, key, hidden>>
      /\ UNCHANGED <<steady, astray, moved, writes>>
  BY DEF Query!CursorPage
<1>5. more => cursor' \in S /\ Query!Index(S, cursor') = start + lim - 1
  <2> SUFFICES ASSUME more PROVE cursor' \in S /\ Query!Index(S, cursor') = start + lim - 1
    OBVIOUS
  <2>1. start + lim <= Cardinality(S)
    BY <1>1, <1>2, <1>3
  <2>2. cursor' = Query!Final(Query!Slice(S, start, lim))
    BY <1>1
  <2> HIDE DEF lim
  <2> QED
    BY <1>1, <1>2, <2>1, <2>2, WalkFinal DEF WalkInv
<1> HIDE DEF lim
<1>6. \A i \in RowIds :
          got'[i] = got[i] + (IF /\ i \in S
                                 /\ Query!Index(S, i) >= start
                                 /\ Query!Index(S, i) <= start + lim - 1 THEN 1 ELSE 0)
  <2>1. \A i : i \in Query!Slice(S, start, lim)
                   <=> i \in S /\ Query!Index(S, i) \in start .. start + lim - 1
    BY DEF Query!Slice
  <2>2. \A i \in S : Query!Index(S, i) \in Int
    BY <1>3
  <2> QED
    BY <1>1, <1>2, <2>1, <2>2 DEF Query!Count
<1>7. WalkTypes'
  <2>1. got \in [RowIds -> 0..MaxPages] /\ page \in 0..MaxPages /\ MaxPages \in Nat
        /\ \A i \in RowIds : got[i] <= page
    BY DEF WalkInv, WalkTypes, Query!TypeOK, Query!QueryingAssumption
  <2>2. got' \in [RowIds -> 0..MaxPages] /\ (\A i \in RowIds : got'[i] <= page')
        /\ page' \in 0..MaxPages
    <3>1. \A i \in RowIds : got'[i] \in 0..(page + 1)
      BY <1>6, <2>1
    <3>2. page + 1 <= MaxPages
      BY <1>4, <2>1
    <3>3. got' = [i \in RowIds |-> got'[i]]
      BY <1>1
    <3> QED
      BY <1>4, <2>1, <3>1, <3>2, <3>3
  <2>3. cursor' \in RowIds \cup {None} /\ walk' \in {"walking", "ended"}
    BY <1>1, <1>2, <1>4, <1>5 DEF WalkInv, WalkTypes, Query!TypeOK
  <2>4. Query!TypeOK'
    BY <1>4, <2>2, <2>3 DEF WalkInv, WalkTypes, Query!TypeOK
  <2> QED
    BY <1>4, <2>2, <2>4 DEF WalkInv, WalkTypes, Query!Selected, Query!Table
<1>8. ASSUME ~astray', NEW i \in steady
      PROVE  got'[i] = IF i \notin S \/ Query!Index(S, i) < start + lim THEN 1 ELSE 0
  <2>1. got[i] = IF i \notin S \/ Query!Index(S, i) < start THEN 1 ELSE 0
    BY <1>1, <1>8
  <2>2. i \in RowIds
    BY <1>2
  <2>3. i \in S => Query!Index(S, i) \in Int
    BY <1>3
  <2> QED
    BY <1>2, <1>6, <2>1, <2>2, <2>3
<1>9. WalkByCursor'
  <2>0. walk' = "walking" /\ cursor' # None => cursor' \in Query!Selected'
    <3>1. walk' = "walking" => more
      BY <1>1
    <3>2. Query!Selected' = Query!Selected
      BY <1>4 DEF Query!Selected, Query!Table
    <3> QED
      BY <1>1, <1>5, <3>1, <3>2
  <2> SUFFICES ASSUME ~astray', NEW i \in steady
               PROVE  /\ walk' = "ended" => got'[i] = 1
                      /\ walk' = "walking" /\ cursor' = None => got'[i] = 0
                      /\ walk' = "walking" /\ cursor' # None =>
                             got'[i] = IF i = cursor' \/ Query!Before(i, cursor') THEN 1 ELSE 0
    BY <1>4, <2>0 DEF WalkByCursor, Query!Before
  <2>1. got'[i] = IF i \notin S \/ Query!Index(S, i) < start + lim THEN 1 ELSE 0
    BY <1>8
  <2>2. i \in S => Query!Index(S, i) \in Int
    BY <1>3
  <2>3. CASE ~more
    <3>1. walk' = "ended"
      BY <1>1, <2>3
    <3>2. i \in S => Query!Index(S, i) < start + lim
      BY <1>1, <1>2, <1>3, <2>2, <2>3
    <3> QED
      BY <2>1, <3>1, <3>2
  <2>4. CASE more
    <3>1. walk' = "walking" /\ cursor' \in S /\ Query!Index(S, cursor') = start + lim - 1
      BY <1>1, <1>4, <1>5, <2>4
    <3>2. cursor' # None
      BY <1>2, <3>1
    <3>3. i \in S =>
              (Query!Index(S, i) < start + lim <=> (i = cursor' \/ Query!Before(i, cursor')))
      BY <1>2, <1>3, <2>2, <3>1
    <3>4. i \notin S => Query!Before(i, cursor')
      BY <1>1, <3>1
    <3> QED
      BY <2>1, <3>1, <3>2, <3>3, <3>4
  <2> QED
    BY <2>3, <2>4
<1>10. WalkByNumber'
  BY <1>4 DEF WalkByNumber
<1>11. WalkRestarts'
  <2>0. Query!Table' = Query!Table
    BY <1>4 DEF Query!Table
  <2> SUFFICES ASSUME backing = "memory", ~moved, NEW i \in steady
               PROVE  /\ walk' = "ended" => got'[i] >= 1
                      /\ walk' = "walking" /\ cursor' \in Query!Table
                            /\ (i = cursor' \/ Query!Before(i, cursor')) => got'[i] >= 1
    BY <1>4, <2>0 DEF WalkRestarts, Query!Before
  <2>1. i \in S /\ i \in RowIds /\ Query!Index(S, i) \in Int
    BY <1>1, <1>2, <1>3
  <2>2. got[i] \in Nat
    BY <2>1 DEF WalkInv, WalkTypes, Query!TypeOK, Query!QueryingAssumption
  <2>3. Query!Index(S, i) < start => got[i] >= 1
    BY <1>1
  <2>4. Query!Index(S, i) < start + lim => got'[i] >= 1
    BY <1>2, <1>6, <2>1, <2>2, <2>3
  <2>5. CASE ~more
    <3>1. walk' = "ended" /\ Query!Index(S, i) < start + lim
      BY <1>1, <1>2, <1>3, <2>1, <2>5
    <3> QED
      BY <2>4, <3>1
  <2>6. CASE more
    <3>1. walk' = "walking" /\ cursor' \in S /\ Query!Index(S, cursor') = start + lim - 1
      BY <1>1, <1>4, <1>5, <2>6
    <3>2. i = cursor' \/ Query!Before(i, cursor') => Query!Index(S, i) < start + lim
      BY <1>2, <1>3, <2>1, <3>1
    <3> QED
      BY <2>4, <3>1, <3>2
  <2> QED
    BY <2>5, <2>6
<1> QED
  BY <1>7, <1>9, <1>10, <1>11 DEF WalkInv

LEMMA WalkNextNumber ==
    ASSUME Query!QueryingAssumption, WalkInv, Query!OffsetPage
    PROVE  WalkInv'
<1> DEFINE lim == Query!Limit
           S == Query!Selected
           from == page * lim
<1>1. /\ paging = "offset" /\ walk = "walking" /\ page < MaxPages /\ page' = page + 1
      /\ got' = [i \in RowIds |-> got[i] + Query!Count(Query!Slice(S, from, lim), i)]
      /\ walk' = IF page + 1 < Query!TotalPages THEN "walking" ELSE "ended"
      /\ UNCHANGED <<backing, paging, sorted, rawLimit, inserted, key, hidden, cursor>>
      /\ UNCHANGED <<steady, astray, moved, writes>>
  BY DEF Query!OffsetPage, Query!Return
<1>2. /\ lim \in Nat /\ lim >= 1 /\ S \subseteq Query!Table /\ steady \subseteq S
      /\ Query!Table \subseteq RowIds /\ page \in Nat
  <2>1. lim \in Nat /\ lim >= 1
    BY WalkLimit DEF WalkInv
  <2>2. steady \subseteq S
    BY DEF WalkInv, WalkTypes
  <2>3. S \subseteq Query!Table /\ Query!Table \subseteq RowIds
    BY DEF Query!Selected, Query!Table
  <2>4. page \in Nat
    BY DEF WalkInv, WalkTypes, Query!TypeOK, Query!QueryingAssumption
  <2> QED
    BY <2>1, <2>2, <2>3, <2>4
<1>3. /\ \A i \in S : Query!Index(S, i) \in 0..(Cardinality(S) - 1)
      /\ Cardinality(S) \in Nat
  BY <1>2, WalkIndex DEF WalkInv
<1>4. \A i \in steady : ~astray => got[i] = IF Query!Index(S, i) < from THEN 1 ELSE 0
  BY <1>1 DEF WalkInv, WalkByNumber
<1>5. Query!TotalPages = (Cardinality(S) + lim - 1) \div lim
  BY QueryCardinality DEF Query!TotalPages
<1>6. Query!Selected' = S /\ Query!Limit' = lim
  BY <1>1 DEF Query!Selected, Query!Table, Query!Limit
<1>7. \A i \in S : Query!Index(Query!Selected, i)' = Query!Index(S, i)
  BY <1>1, <1>6 DEF Query!Index, Query!Before
<1> HIDE DEF lim, S
<1>8. from \in Nat /\ (page + 1) * lim = from + lim
  BY <1>2
<1>9. (page + 1) * lim \in Nat /\ (walk' = "ended" => Cardinality(S) <= (page + 1) * lim)
  <2>1. (page + 1) * lim \in Nat /\ Cardinality(S) + lim - 1 \in Nat
    BY <1>2, <1>3, <1>8
  <2>2. PICK total : total = (Cardinality(S) + lim - 1) \div lim
    OBVIOUS
  <2>3. total \in Int
    BY <1>2, <2>1, <2>2
  <2>4. walk' = "ended" => page + 1 >= total
    BY <1>1, <1>2, <1>5, <2>2, <2>3
  <2>5. page + 1 \in Nat
    BY <1>2
  <2> QED
    BY <1>2, <1>3, <2>1, <2>2, <2>4, <2>5, WalkPages
<1> HIDE DEF from
<1>10. \A i \in RowIds :
          got'[i] = got[i] + (IF /\ i \in S
                                 /\ Query!Index(S, i) >= from
                                 /\ Query!Index(S, i) <= from + lim - 1 THEN 1 ELSE 0)
  <2>1. \A i : i \in Query!Slice(S, from, lim)
                   <=> i \in S /\ Query!Index(S, i) \in from .. from + lim - 1
    BY DEF Query!Slice
  <2>2. \A i \in S : Query!Index(S, i) \in Int
    BY <1>3
  <2> QED
    BY <1>1, <1>2, <1>8, <2>1, <2>2 DEF Query!Count
<1>11. WalkTypes'
  <2>1. got \in [RowIds -> 0..MaxPages] /\ page \in 0..MaxPages /\ MaxPages \in Nat
        /\ \A i \in RowIds : got[i] <= page
    BY DEF WalkInv, WalkTypes, Query!TypeOK, Query!QueryingAssumption
  <2>2. got' \in [RowIds -> 0..MaxPages] /\ (\A i \in RowIds : got'[i] <= page')
        /\ page' \in 0..MaxPages
    <3>1. \A i \in RowIds : got'[i] \in 0..(page + 1)
      BY <1>10, <2>1
    <3>2. page + 1 <= MaxPages
      BY <1>1, <2>1
    <3>3. got' = [i \in RowIds |-> got'[i]]
      BY <1>1
    <3> QED
      BY <1>1, <2>1, <3>1, <3>2, <3>3
  <2>3. walk' \in {"walking", "ended"}
    BY <1>1
  <2>4. Query!TypeOK'
    BY <1>1, <2>2, <2>3 DEF WalkInv, WalkTypes, Query!TypeOK
  <2> QED
    BY <1>1, <2>2, <2>4 DEF WalkInv, WalkTypes, Query!Selected, Query!Table
<1>12. WalkByNumber'
  <2> SUFFICES ASSUME ~astray', NEW i \in steady
               PROVE  /\ walk' = "ended" => got'[i] = 1
                      /\ walk' = "walking" =>
                             got'[i] = IF Query!Index(S, i) < page' * lim THEN 1 ELSE 0
    BY <1>1, <1>2, <1>6, <1>7 DEF WalkByNumber
  <2>1. i \in S /\ i \in RowIds /\ Query!Index(S, i) \in Int /\ Query!Index(S, i) >= 0
        /\ Query!Index(S, i) < Cardinality(S)
    BY <1>2, <1>3
  <2>2. got[i] = IF Query!Index(S, i) < from THEN 1 ELSE 0
    BY <1>1, <1>4
  <2>3. got'[i] = IF Query!Index(S, i) < from + lim THEN 1 ELSE 0
    BY <1>2, <1>8, <1>10, <2>1, <2>2
  <2>4. page' * lim = from + lim
    BY <1>1, <1>8
  <2>5. walk' = "ended" => Query!Index(S, i) < from + lim
    BY <1>3, <1>8, <1>9, <2>1
  <2> QED
    BY <2>3, <2>4, <2>5
<1>13. WalkByCursor' /\ WalkRestarts'
  BY <1>1 DEF WalkByCursor, WalkRestarts
<1> QED
  BY <1>11, <1>12, <1>13 DEF WalkInv

\* What others write leaves the other rows of the listing in their places.
LEMMA WalkKept ==
    ASSUME Query!QueryingAssumption, WalkInv, WalkTypes', NEW i \in RowIds, Query!Write(i),
           steady' \subseteq steady \ {i}, Query!Selected \ {i} \subseteq Query!Selected',
           \A x, y \in Query!Selected \ {i} : Query!Before(x, y)' <=> Query!Before(x, y),
           i = cursor /\ i \in Query!Table' => moved' \/ UNCHANGED <<inserted, key>>,
           moved => moved', Query!Table' \subseteq Query!Table \cup {i},
           \A x \in RowIds \ {i} : inserted'[x] = inserted[x] /\ key'[x] = key[x]
    PROVE  WalkInv'
<1>1. /\ astray' <=> astray \/ paging = "offset" \/ i = cursor
      /\ UNCHANGED <<backing, paging, sorted, cursor, walk, got>>
      /\ steady \subseteq Query!Selected
  BY DEF Query!Write, WalkInv, WalkTypes, Query!TypeOK
<1>2. WalkByCursor'
  <2> SUFFICES ASSUME paging = "cursor", ~astray'
               PROVE  /\ walk = "walking" /\ cursor # None => cursor \in Query!Selected'
                      /\ \A x \in steady' :
                             /\ walk = "ended" => got[x] = 1
                             /\ walk = "walking" /\ cursor = None => got[x] = 0
                             /\ walk = "walking" /\ cursor # None =>
                                    got[x] = IF x = cursor \/ Query!Before(x, cursor)' THEN 1 ELSE 0
    BY <1>1 DEF WalkByCursor, Query!Before
  <2>1. ~astray /\ i # cursor
    BY <1>1
  <2>2. walk = "walking" /\ cursor # None => cursor \in Query!Selected \ {i}
    BY <2>1 DEF WalkInv, WalkByCursor
  <2>3. ASSUME NEW x \in steady'
        PROVE  /\ walk = "ended" => got[x] = 1
               /\ walk = "walking" /\ cursor = None => got[x] = 0
               /\ walk = "walking" /\ cursor # None =>
                      got[x] = IF x = cursor \/ Query!Before(x, cursor)' THEN 1 ELSE 0
    <3>1. x \in steady /\ x \in Query!Selected \ {i}
      BY <1>1
    <3>2. /\ walk = "ended" => got[x] = 1
          /\ walk = "walking" /\ cursor = None => got[x] = 0
          /\ walk = "walking" /\ cursor # None =>
                 got[x] = IF x = cursor \/ Query!Before(x, cursor) THEN 1 ELSE 0
      BY <2>1, <3>1 DEF WalkInv, WalkByCursor
    <3>3. walk = "walking" /\ cursor # None =>
              (Query!Before(x, cursor)' <=> Query!Before(x, cursor))
      BY <1>1, <2>2, <3>1 DEF Query!Before
    <3> QED
      BY <3>2, <3>3
  <2> QED
    BY <2>2, <2>3
<1>3. WalkByNumber'
  BY <1>1 DEF WalkByNumber
<1>4. WalkRestarts'
  <2> SUFFICES ASSUME backing = "memory", paging = "cursor", ~moved', NEW x \in steady'
               PROVE  /\ walk = "ended" => got[x] >= 1
                      /\ walk = "walking" /\ cursor \in Query!Table'
                            /\ (x = cursor \/ Query!Before(x, cursor)') => got[x] >= 1
    BY <1>1 DEF WalkRestarts, Query!Before
  <2>1. x \in steady /\ x # i /\ x \in RowIds /\ ~moved
    BY <1>1 DEF WalkTypes, Query!TypeOK
  <2>2. /\ walk = "ended" => got[x] >= 1
        /\ walk = "walking" /\ cursor \in Query!Table
              /\ (x = cursor \/ Query!Before(x, cursor)) => got[x] >= 1
    BY <1>1, <2>1 DEF WalkInv, WalkRestarts
  <2>3. ASSUME cursor \in Query!Table'
        PROVE  /\ cursor \in Query!Table
               /\ Query!Before(x, cursor)' <=> Query!Before(x, cursor)
    <3>1. cursor \in RowIds
      BY <1>1, <2>3 DEF Query!Table
    <3>2. CASE i = cursor
      <4>1. UNCHANGED <<inserted, key>>
        BY <2>3, <3>2
      <4> QED
        BY <1>1, <2>3, <4>1 DEF Query!Before, Query!Table
    <3>3. CASE i # cursor
      <4>1. /\ inserted'[cursor] = inserted[cursor] /\ key'[cursor] = key[cursor]
            /\ inserted'[x] = inserted[x] /\ key'[x] = key[x]
        BY <2>1, <3>1, <3>3
      <4> QED
        BY <1>1, <2>3, <3>3, <4>1 DEF Query!Before
    <3> QED
      BY <3>2, <3>3
  <2> QED
    BY <2>2, <2>3
<1> QED
  BY <1>2, <1>3, <1>4 DEF WalkInv

LEMMA WalkNextWrite ==
    ASSUME Query!QueryingAssumption, WalkInv,
           NEW i \in RowIds, Query!Create(i) \/ Query!Delete(i) \/ Query!Edit(i)
    PROVE  WalkInv'
<1>1. /\ inserted \in [RowIds -> Nat \cup {None}] /\ key \in [RowIds -> SortKeys]
      /\ hidden \subseteq RowIds /\ steady \subseteq RowIds /\ writes \in 0..MaxWrites
      /\ steady \subseteq Query!Selected /\ astray \in BOOLEAN /\ moved \in BOOLEAN
      /\ MaxWrites \in Nat
      /\ \A x \in RowIds : got[x] <= page
      /\ backing = "memory" =>
             /\ \A x \in Query!Table : inserted[x] <= Cardinality(RowIds) + writes
             /\ \A x, y \in Query!Table : inserted[x] = inserted[y] => x = y
  BY DEF WalkInv, WalkTypes, Query!TypeOK, Query!QueryingAssumption
<1>2. Query!Write(i)
  BY DEF Query!Create, Query!Delete, Query!Edit
<1>3. /\ writes' = writes + 1 /\ writes < MaxWrites /\ astray' \in BOOLEAN
      /\ UNCHANGED <<backing, paging, sorted, rawLimit, cursor, page, walk, got>>
  BY <1>1, <1>2 DEF Query!Write
<1>4. Cardinality(RowIds) \in Nat
  BY QueryFinite, FS_CardinalityType
<1>5. None \notin Int
  BY DEF Query!QueryingAssumption
<1>6. ASSUME inserted' \in [RowIds -> Nat \cup {None}], key' \in [RowIds -> SortKeys],
             hidden' \subseteq RowIds, steady' \subseteq Query!Selected', steady' \subseteq RowIds,
             moved' \in BOOLEAN,
             backing = "memory" =>
                 /\ \A x \in Query!Table' : inserted'[x] <= Cardinality(RowIds) + writes'
                 /\ \A x, y \in Query!Table' : inserted'[x] = inserted'[y] => x = y
      PROVE  WalkTypes'
  <2>1. writes' \in 0..MaxWrites
    BY <1>1, <1>3
  <2>2. Query!TypeOK'
    BY <1>3, <1>6, <2>1 DEF WalkInv, WalkTypes, Query!TypeOK
  <2> QED
    BY <1>1, <1>3, <1>6, <2>2 DEF WalkTypes
<1>7. CASE Query!Create(i)
  <2>1. PICK n : n = Cardinality(RowIds) + writes + 1
    OBVIOUS
  <2>2. /\ i \notin Query!Table /\ inserted' = [inserted EXCEPT ![i] = n]
        /\ UNCHANGED <<key, hidden, steady>> /\ moved' = (moved \/ i = cursor)
    BY <1>7, <2>1, QueryCardinality DEF Query!Create, Query!Moves
  <2>3. n \in Nat /\ n = Cardinality(RowIds) + writes'
    BY <1>1, <1>3, <1>4, <2>1
  <2>4. /\ \A x \in Query!Table : x # i /\ inserted'[x] = inserted[x]
        /\ inserted'[i] = n /\ Query!Table' = Query!Table \cup {i}
    BY <1>1, <1>5, <2>2, <2>3 DEF Query!Table
  <2>5. steady \subseteq Query!Table
    BY <1>1 DEF Query!Selected
  <2>6. backing = "memory" =>
            /\ \A x \in Query!Table' : inserted'[x] <= Cardinality(RowIds) + writes'
            /\ \A x, y \in Query!Table' : inserted'[x] = inserted'[y] => x = y
    <3>1. \A x \in Query!Table : inserted[x] \in Int
      BY <1>1 DEF Query!Table
    <3> QED
      BY <1>1, <1>3, <1>4, <2>1, <2>3, <2>4, <3>1
  <2>7. steady' \subseteq Query!Selected'
    BY <1>1, <2>2, <2>4 DEF Query!Selected
  <2>8. inserted' \in [RowIds -> Nat \cup {None}]
    BY <1>1, <2>2, <2>3
  <2>9. WalkTypes'
    BY <1>1, <1>6, <2>2, <2>6, <2>7, <2>8
  <2>10. Query!Selected \ {i} \subseteq Query!Selected' /\ steady' \subseteq steady \ {i}
    BY <1>1, <2>2, <2>4, <2>5 DEF Query!Selected
  <2>11. \A x, y \in Query!Selected \ {i} : Query!Before(x, y)' <=> Query!Before(x, y)
    <3>1. Query!Selected \subseteq Query!Table
      BY DEF Query!Selected
    <3> QED
      BY <1>3, <2>2, <2>4, <3>1 DEF Query!Before
  <2>12. /\ Query!Table' \subseteq Query!Table \cup {i}
         /\ \A x \in RowIds \ {i} : inserted'[x] = inserted[x] /\ key'[x] = key[x]
    BY <1>1, <2>2, <2>4
  <2> QED
    BY <1>2, <2>2, <2>9, <2>10, <2>11, <2>12, WalkKept
<1>8. CASE Query!Delete(i)
  <2>1. /\ i \in Query!Table /\ inserted' = [inserted EXCEPT ![i] = None]
        /\ steady' = steady \ {i} /\ UNCHANGED <<key, hidden, moved>>
    BY <1>8 DEF Query!Delete
  <2>2. /\ \A x \in RowIds \ {i} : inserted'[x] = inserted[x]
        /\ Query!Table' = Query!Table \ {i} /\ Query!Table \subseteq RowIds
    BY <1>1, <2>1 DEF Query!Table
  <2>3. backing = "memory" =>
            /\ \A x \in Query!Table' : inserted'[x] <= Cardinality(RowIds) + writes'
            /\ \A x, y \in Query!Table' : inserted'[x] = inserted'[y] => x = y
    <3>1. \A x \in Query!Table : inserted[x] \in Int
      BY <1>1 DEF Query!Table
    <3> QED
      BY <1>1, <1>3, <1>4, <2>2, <3>1
  <2>4. steady' \subseteq Query!Selected'
    BY <1>1, <2>1, <2>2 DEF Query!Selected
  <2>5. inserted' \in [RowIds -> Nat \cup {None}]
    BY <1>1, <2>1
  <2>6. WalkTypes'
    BY <1>1, <1>6, <2>1, <2>3, <2>4, <2>5
  <2>7. Query!Selected \ {i} \subseteq Query!Selected'
    BY <2>1, <2>2 DEF Query!Selected
  <2>8. \A x, y \in Query!Selected \ {i} : Query!Before(x, y)' <=> Query!Before(x, y)
    <3>1. Query!Selected \subseteq RowIds
      BY DEF Query!Selected, Query!Table
    <3> QED
      BY <1>3, <2>1, <2>2, <3>1 DEF Query!Before
  <2>9. i \notin Query!Table'
    BY <2>2
  <2> QED
    BY <1>2, <2>1, <2>2, <2>6, <2>7, <2>8, <2>9, WalkKept
<1>9. CASE Query!Edit(i)
  <2>1. i \in Query!Table /\ steady' = steady \ {i} /\ UNCHANGED inserted
    BY <1>9 DEF Query!Edit
  <2>2. /\ key' \in [RowIds -> SortKeys] /\ hidden' \subseteq RowIds
        /\ \A x \in RowIds \ {i} : key'[x] = key[x] /\ (x \in hidden' <=> x \in hidden)
        /\ moved' \in BOOLEAN
    BY <1>1, <1>9 DEF Query!Edit, Query!Moves
  <2>3. Query!Table' = Query!Table
    BY <2>1 DEF Query!Table
  <2>4. backing = "memory" =>
            /\ \A x \in Query!Table' : inserted'[x] <= Cardinality(RowIds) + writes'
            /\ \A x, y \in Query!Table' : inserted'[x] = inserted'[y] => x = y
    <3>1. \A x \in Query!Table : inserted[x] \in Int
      BY <1>1 DEF Query!Table
    <3> QED
      BY <1>1, <1>3, <1>4, <2>1, <2>3, <3>1
  <2>5. steady' \subseteq Query!Selected'
    BY <1>1, <2>1, <2>2, <2>3 DEF Query!Selected
  <2>6. WalkTypes'
    BY <1>1, <1>6, <2>1, <2>2, <2>4, <2>5
  <2>7. Query!Selected \ {i} \subseteq Query!Selected'
    BY <1>1, <2>1, <2>2, <2>3 DEF Query!Selected
  <2>8. \A x, y \in Query!Selected \ {i} : Query!Before(x, y)' <=> Query!Before(x, y)
    <3>1. Query!Selected \subseteq RowIds
      BY DEF Query!Selected, Query!Table
    <3> QED
      BY <1>3, <2>1, <2>2, <3>1 DEF Query!Before
  <2>9. /\ moved => moved' /\ moved' \in BOOLEAN
        /\ i = cursor => moved' \/ UNCHANGED <<inserted, key>>
    <3>1. (moved' = (moved \/ i = cursor)) \/ UNCHANGED <<key, moved>>
      BY <1>9 DEF Query!Edit, Query!Moves
    <3>2. CASE moved' = (moved \/ i = cursor)
      BY <1>1, <3>2
    <3>3. CASE UNCHANGED <<key, moved>>
      BY <1>1, <2>1, <3>3
    <3> QED
      BY <3>1, <3>2, <3>3
  <2> QED
    BY <1>2, <2>1, <2>2, <2>3, <2>6, <2>7, <2>8, <2>9, WalkKept
<1> QED
  BY <1>7, <1>8, <1>9

WalkHolds == part = "Query" => WalkInv

\* While listings are exercised their invariant holds.
THEOREM AlwaysWalks == ASSUME RecordAssumption PROVE RecordSpec => []WalkHolds
<1>0. Query!QueryingAssumption
  BY DEF RecordAssumption
<1>1. RecordInit => WalkHolds
  BY <1>0, WalkInit DEF RecordInit, WalkHolds
<1>2. WalkHolds /\ [RecordNext]_recordVars => WalkHolds'
  <2> SUFFICES ASSUME part = "Query", WalkInv, [RecordNext]_recordVars PROVE WalkInv'
    BY DEF RecordNext, recordVars, WalkHolds
  <2>1. CASE RecordNext
    <3>1. Query!Next
      BY <2>1 DEF RecordNext
    <3> QED
      BY <1>0, <3>1, WalkNextCursor, WalkNextNumber, WalkNextWrite DEF Query!Next
  <2>2. CASE UNCHANGED recordVars
    <3>1. UNCHANGED <<backing, paging, sorted, rawLimit, inserted, key, hidden, cursor, page, walk,
                      got, steady, astray, moved, writes>>
      BY <2>2 DEF recordVars, QueryVars
    <3>2. Query!Table' = Query!Table /\ Query!Selected' = Query!Selected
          /\ Query!Limit' = Query!Limit
      BY <3>1 DEF Query!Table, Query!Selected, Query!Limit
    <3>3. \A i, j : Query!Before(i, j)' <=> Query!Before(i, j)
      BY <3>1 DEF Query!Before
    <3>4. \A i : Query!Index(Query!Selected, i)' = Query!Index(Query!Selected, i)
      BY <3>2, <3>3 DEF Query!Index
    <3>5. WalkTypes'
      BY <3>1, <3>2 DEF WalkInv, WalkTypes, Query!TypeOK
    <3>6. WalkByCursor'
      BY <3>1, <3>2, <3>3 DEF WalkInv, WalkByCursor
    <3>7. WalkByNumber'
      BY <3>1, <3>2, <3>4 DEF WalkInv, WalkByNumber
    <3>8. WalkRestarts'
      BY <3>1, <3>2, <3>3 DEF WalkInv, WalkRestarts
    <3> QED
      BY <3>5, <3>6, <3>7, <3>8 DEF WalkInv
  <2> QED
    BY <2>1, <2>2
<1> QED
  BY <1>1, <1>2, PTL DEF RecordSpec

\* A listing walked page by page returns every row that was there all along and that nobody
\* edited exactly once by its end, in memory and over a database, whatever others create, delete,
\* edit, hide or show meanwhile, as long as nobody deletes, edits or hides the row the client
\* holds as its cursor (and nobody writes at all while a walk is by page number).  In memory it
\* returns every one of them even if the cursor's row was deleted or hidden.
THEOREM AlwaysWalkedOnce == ASSUME RecordAssumption PROVE RecordSpec => []WalkedOnce
<1>0. Query!QueryingAssumption
  BY DEF RecordAssumption
<1>1. WalkHolds => WalkedOnce
  <2> SUFFICES ASSUME part = "Query", WalkInv, NEW i \in steady
               PROVE  /\ ~astray => got[i] <= 1 /\ (walk = "ended" => got[i] = 1)
                      /\ backing = "memory" /\ paging = "cursor" /\ ~moved /\ walk = "ended"
                            => got[i] >= 1
    BY DEF WalkHolds, WalkedOnce, Query!WalkedOnce
  <2>1. got[i] \in Nat /\ walk \in {"walking", "ended"} /\ paging \in {"cursor", "offset"}
    BY <1>0 DEF WalkInv, WalkTypes, Query!TypeOK, Query!QueryingAssumption
  <2> QED
    BY <2>1 DEF WalkInv, WalkByCursor, WalkByNumber, WalkRestarts
<1> QED
  BY <1>1, AlwaysWalks, PTL

-----------------------------------------------------------------------------
(***************************************************************************)
(* Roles.  The recursion of getEffectiveRoles is solved by the least set   *)
(* that has what was visited and what is to do, and the parents of each of *)
(* its roles that was not visited.  Any other solution would differ at     *)
(* arguments with the fewest roles left to visit and, among those, the     *)
(* fewest to do.                                                           *)
(***************************************************************************)
RoleArguments == Seq(RoleNames) \X SUBSET RoleNames

RoleAbove(role) == IF role \in Roles THEN inherits[role] ELSE <<>>

RoleStep(f, ahead, visited) ==
    IF ahead = <<>> THEN visited
    ELSE IF Head(ahead) \in visited THEN f[<<Tail(ahead), visited>>]
    ELSE f[<<RoleAbove(Head(ahead)) \o Tail(ahead), visited \cup {Head(ahead)}>>]

RoleSolves(f) ==
    \A ahead \in Seq(RoleNames), visited \in SUBSET RoleNames :
        f[<<ahead, visited>>] = RoleStep(f, ahead, visited)

RoleElements(ahead) == {ahead[k] : k \in DOMAIN ahead}

\* S has what was visited and is to do, and the parents of its roles that were not visited.
RoleHolds(S, ahead, visited) ==
    /\ visited \subseteq S /\ RoleElements(ahead) \subseteq S
    /\ \A x \in S \ visited : x \in Roles => RoleElements(inherits[x]) \subseteq S

RoleLeast(ahead, visited) ==
    {x \in RoleNames :
         \A S \in SUBSET RoleNames : RoleHolds(S, ahead, visited) => x \in S}

RoleTypes == inherits \in [Roles -> Seq(RoleNames)]

LEMMA RoleElement ==
    ASSUME NEW s, NEW x PROVE x \in RoleElements(s) <=> \E k \in DOMAIN s : x = s[k]
  BY DEF RoleElements

LEMMA RoleConcatenated ==
    ASSUME NEW A, NEW s \in Seq(A), NEW t \in Seq(A)
    PROVE  RoleElements(s \o t) = RoleElements(s) \cup RoleElements(t)
<1>1. /\ DOMAIN s = 1..Len(s) /\ DOMAIN t = 1..Len(t) /\ Len(s) \in Nat /\ Len(t) \in Nat
      /\ DOMAIN (s \o t) = 1..(Len(s) + Len(t))
      /\ \A k \in 1..(Len(s) + Len(t)) :
             (s \o t)[k] = IF k <= Len(s) THEN s[k] ELSE t[k - Len(s)]
  OBVIOUS
<1>2. \A k \in DOMAIN s : k \in DOMAIN (s \o t) /\ (s \o t)[k] = s[k]
  BY <1>1
<1>3. \A k \in DOMAIN t : Len(s) + k \in DOMAIN (s \o t) /\ (s \o t)[Len(s) + k] = t[k]
  BY <1>1
<1>4. \A k \in DOMAIN (s \o t) :
          \/ k \in DOMAIN s /\ (s \o t)[k] = s[k]
          \/ k - Len(s) \in DOMAIN t /\ (s \o t)[k] = t[k - Len(s)]
  BY <1>1
<1>5. ASSUME NEW x
      PROVE  x \in RoleElements(s \o t) <=> x \in RoleElements(s) \cup RoleElements(t)
  <2>1. ASSUME x \in RoleElements(s) PROVE x \in RoleElements(s \o t)
    <3>1. PICK k \in DOMAIN s : x = s[k]
      BY <2>1, RoleElement
    <3> QED
      BY <1>2, <3>1, RoleElement
  <2>2. ASSUME x \in RoleElements(t) PROVE x \in RoleElements(s \o t)
    <3>1. PICK k \in DOMAIN t : x = t[k]
      BY <2>2, RoleElement
    <3> QED
      BY <1>3, <3>1, RoleElement
  <2>3. ASSUME x \in RoleElements(s \o t) PROVE x \in RoleElements(s) \cup RoleElements(t)
    <3>1. PICK k \in DOMAIN (s \o t) : x = (s \o t)[k]
      BY <2>3, RoleElement
    <3> QED
      BY <1>4, <3>1, RoleElement
  <2> QED
    BY <2>1, <2>2, <2>3
<1> QED
  BY <1>5

LEMMA RoleLeastSolves ==
    ASSUME RoleTypes, NEW ahead \in Seq(RoleNames), NEW visited \in SUBSET RoleNames
    PROVE  /\ ahead = <<>> => RoleLeast(ahead, visited) = visited
           /\ ahead # <<>> /\ Head(ahead) \in visited =>
                  RoleLeast(ahead, visited) = RoleLeast(Tail(ahead), visited)
           /\ ahead # <<>> /\ Head(ahead) \notin visited =>
                  /\ RoleAbove(Head(ahead)) \o Tail(ahead) \in Seq(RoleNames)
                  /\ RoleLeast(ahead, visited) = RoleLeast(RoleAbove(Head(ahead)) \o Tail(ahead),
                                                             visited \cup {Head(ahead)})
<1>1. ASSUME ahead = <<>> PROVE RoleLeast(ahead, visited) = visited
  <2>1. RoleElements(ahead) = {}
    BY <1>1 DEF RoleElements
  <2>2. RoleHolds(visited, ahead, visited)
    BY <2>1 DEF RoleHolds
  <2>3. \A S : RoleHolds(S, ahead, visited) => visited \subseteq S
    BY DEF RoleHolds
  <2> QED
    BY <2>2, <2>3 DEF RoleLeast
<1>2. ASSUME ahead # <<>>
      PROVE  /\ RoleElements(ahead) = {Head(ahead)} \cup RoleElements(Tail(ahead))
             /\ Tail(ahead) \in Seq(RoleNames) /\ Head(ahead) \in RoleNames
  <2>1. /\ Tail(ahead) \in Seq(RoleNames) /\ Head(ahead) = ahead[1] /\ Len(ahead) \in Nat
        /\ Len(Tail(ahead)) = Len(ahead) - 1 /\ Len(ahead) >= 1
        /\ DOMAIN ahead = 1..Len(ahead) /\ DOMAIN Tail(ahead) = 1..(Len(ahead) - 1)
        /\ \A k \in 1..(Len(ahead) - 1) : Tail(ahead)[k] = ahead[k + 1]
    BY <1>2
  <2>2. \A k \in DOMAIN ahead :
            k = 1 \/ (k - 1 \in DOMAIN Tail(ahead) /\ Tail(ahead)[k - 1] = ahead[k])
    BY <2>1
  <2>3. \A k \in DOMAIN Tail(ahead) : k + 1 \in DOMAIN ahead /\ Tail(ahead)[k] = ahead[k + 1]
    BY <2>1
  <2>4. 1 \in DOMAIN ahead /\ ahead[1] \in RoleNames
    BY <2>1
  <2>5. ASSUME NEW x
        PROVE  x \in RoleElements(ahead) <=> x \in {Head(ahead)} \cup RoleElements(Tail(ahead))
    <3>1. ASSUME x \in RoleElements(ahead), x # Head(ahead) PROVE x \in RoleElements(Tail(ahead))
      <4>1. PICK k \in DOMAIN ahead : x = ahead[k]
        BY <3>1, RoleElement
      <4> QED
        BY <2>1, <2>2, <3>1, <4>1, RoleElement
    <3>2. ASSUME x \in RoleElements(Tail(ahead)) PROVE x \in RoleElements(ahead)
      <4>1. PICK k \in DOMAIN Tail(ahead) : x = Tail(ahead)[k]
        BY <3>2, RoleElement
      <4> QED
        BY <2>3, <4>1, RoleElement
    <3>3. Head(ahead) \in RoleElements(ahead)
      BY <2>1, <2>4, RoleElement
    <3> QED
      BY <3>1, <3>2, <3>3
  <2> QED
    BY <2>1, <2>4, <2>5
<1>3. ASSUME ahead # <<>>, Head(ahead) \in visited
      PROVE  RoleLeast(ahead, visited) = RoleLeast(Tail(ahead), visited)
  <2>1. \A S : RoleHolds(S, ahead, visited) <=> RoleHolds(S, Tail(ahead), visited)
    BY <1>2, <1>3 DEF RoleHolds
  <2> QED
    BY <2>1 DEF RoleLeast
<1>4. ASSUME ahead # <<>>, Head(ahead) \notin visited, NEW parents, parents = RoleAbove(Head(ahead))
      PROVE  /\ parents \o Tail(ahead) \in Seq(RoleNames)
             /\ RoleLeast(ahead, visited) =
                    RoleLeast(parents \o Tail(ahead), visited \cup {Head(ahead)})
  <2>1. parents \in Seq(RoleNames) /\ Tail(ahead) \in Seq(RoleNames)
    BY <1>2, <1>4 DEF RoleAbove, RoleTypes
  <2>2. RoleElements(parents) =
            IF Head(ahead) \in Roles THEN RoleElements(inherits[Head(ahead)]) ELSE {}
    BY <1>4 DEF RoleElements, RoleAbove
  <2>3. RoleElements(parents \o Tail(ahead)) = RoleElements(parents) \cup RoleElements(Tail(ahead))
    BY <2>1, RoleConcatenated
  <2>4. \A S : RoleHolds(S, ahead, visited)
                   <=> RoleHolds(S, parents \o Tail(ahead), visited \cup {Head(ahead)})
    BY <1>2, <1>4, <2>2, <2>3 DEF RoleHolds
  <2>5. RoleLeast(ahead, visited) = RoleLeast(parents \o Tail(ahead), visited \cup {Head(ahead)})
    BY <2>4 DEF RoleLeast
  <2>6. parents \o Tail(ahead) \in Seq(RoleNames)
    BY <2>1
  <2> QED
    BY <2>5, <2>6
<1> QED
  BY <1>1, <1>3, <1>4

LEMMA RoleEquation == ASSUME RoleTypes PROVE RoleSolves(Access!Visited)
<1> DEFINE g == [p \in RoleArguments |-> RoleLeast(p[1], p[2])]
           Body(f) == [p \in RoleArguments |-> RoleStep(f, p[1], p[2])]
<1>1. Access!Visited = CHOOSE f : f = Body(f)
  BY DEF Access!Visited, Access!ParentsOf, RoleStep, RoleAbove, RoleArguments
<1>2. ASSUME NEW ahead \in Seq(RoleNames), NEW visited \in SUBSET RoleNames
      PROVE  RoleLeast(ahead, visited) = RoleStep(g, ahead, visited)
  <2>1. \A t \in Seq(RoleNames), v \in SUBSET RoleNames : g[<<t, v>>] = RoleLeast(t, v)
    BY DEF RoleArguments
  <2> HIDE DEF g
  <2>2. CASE ahead = <<>>
    BY <2>2, RoleLeastSolves DEF RoleStep
  <2>3. CASE ahead # <<>>
    <3>1. Tail(ahead) \in Seq(RoleNames) /\ visited \cup {Head(ahead)} \in SUBSET RoleNames
      BY <2>3
    <3>2. CASE Head(ahead) \in visited
      <4>1. RoleLeast(ahead, visited) = RoleLeast(Tail(ahead), visited)
        BY <2>3, <3>2, RoleLeastSolves
      <4> QED
        BY <2>1, <2>3, <3>1, <3>2, <4>1 DEF RoleStep
    <3>3. CASE Head(ahead) \notin visited
      <4> DEFINE next == RoleAbove(Head(ahead)) \o Tail(ahead)
      <4>1. RoleLeast(ahead, visited) = RoleLeast(next, visited \cup {Head(ahead)})
            /\ next \in Seq(RoleNames)
        BY <2>3, <3>3, RoleLeastSolves
      <4>2. RoleStep(g, ahead, visited) = g[<<next, visited \cup {Head(ahead)}>>]
        BY <2>3, <3>3 DEF RoleStep
      <4> HIDE DEF next
      <4> QED
        BY <2>1, <3>1, <4>1, <4>2
    <3> QED
      BY <3>2, <3>3
  <2> QED
    BY <2>2, <2>3
<1>3. g = Body(g)
  <2>1. \A p \in RoleArguments : RoleLeast(p[1], p[2]) = RoleStep(g, p[1], p[2])
    BY <1>2 DEF RoleArguments
  <2> QED
    BY <2>1
<1> HIDE DEF g
<1>4. Access!Visited = Body(Access!Visited)
  <2> HIDE DEF Body
  <2> QED
    BY <1>1, <1>3
<1>5. ASSUME NEW ahead \in Seq(RoleNames), NEW visited \in SUBSET RoleNames
      PROVE  Access!Visited[<<ahead, visited>>] = RoleStep(Access!Visited, ahead, visited)
  <2>1. <<ahead, visited>> \in RoleArguments
    BY DEF RoleArguments
  <2> QED
    BY <1>4, <2>1
<1> QED
  BY <1>5 DEF RoleSolves

\* A set of numbers has a least one.
LEMMA LeastNumber ==
    ASSUME NEW T \in SUBSET Nat, T # {} PROVE \E n \in T : \A m \in T : n <= m
<1>1. PICK n \in T : \A m \in T : ~ (<<m, n>> \in OpToRel(<, Nat))
  BY Zenon, WFMin, NatLessThanWellFounded
<1>2. ASSUME NEW m \in T, m < n PROVE FALSE
  <2>1. <<m, n>> \in OpToRel(<, Nat)
    BY <1>2 DEF OpToRel
  <2> QED
    BY Zenon, <1>1, <2>1
<1>3. n \in T
  OBVIOUS
<1> HIDE <1>1
<1>4. \A m \in T : n <= m
  BY <1>2, <1>3
<1> QED
  BY <1>3, <1>4

\* Visiting a role leaves fewer to visit; skipping one leaves fewer to do.
LEMMA RoleUnique ==
    ASSUME RoleTypes, IsFiniteSet(RoleNames), NEW f, RoleSolves(f),
           NEW t0 \in Seq(RoleNames), NEW v0 \in SUBSET RoleNames
    PROVE  f[<<t0, v0>>] = RoleLeast(t0, v0)
<1> DEFINE Left(v) == Cardinality(RoleNames \ v)
           Differ(t, v) == t \in Seq(RoleNames) /\ v \in SUBSET RoleNames
                           /\ f[<<t, v>>] # RoleLeast(t, v)
<1>1. SUFFICES ASSUME Differ(t0, v0) PROVE FALSE
  OBVIOUS
<1>2. \A v \in SUBSET RoleNames : Left(v) \in Nat
  BY FS_Subset, FS_CardinalityType
<1>3. PICK t1, v1 : Differ(t1, v1) /\ \A t, v : Differ(t, v) => Left(v1) <= Left(v)
  <2> DEFINE T == {n \in Nat : \E t, v : Differ(t, v) /\ Left(v) = n}
  <2>1. T \in SUBSET Nat /\ T # {}
    BY <1>1, <1>2
  <2>2. PICK n \in T : \A m \in T : n <= m
    <3> HIDE DEF T
    <3> QED
      BY <2>1, LeastNumber
  <2>3. PICK t1, v1 : Differ(t1, v1) /\ Left(v1) = n
    BY <2>2
  <2>4. ASSUME NEW t, NEW v, Differ(t, v) PROVE Left(v1) <= Left(v)
    <3>1. Left(v) \in T
      BY <1>2, <2>4
    <3> QED
      BY <2>2, <2>3, <3>1
  <2> QED
    BY <2>3, <2>4
<1>4. PICK ahead, visited : /\ Differ(ahead, visited) /\ Left(visited) = Left(v1)
                           /\ \A t : Differ(t, visited) => Len(ahead) <= Len(t)
  <2> DEFINE T == {n \in Nat : \E t : Differ(t, v1) /\ Len(t) = n}
  <2>0. \A t : Differ(t, v1) => Len(t) \in Nat
    OBVIOUS
  <2>1. T \in SUBSET Nat /\ T # {}
    BY <1>3, <2>0
  <2>2. PICK n \in T : \A m \in T : n <= m
    <3> HIDE DEF T
    <3> QED
      BY <2>1, LeastNumber
  <2>3. PICK t : Differ(t, v1) /\ Len(t) = n
    BY <2>2
  <2>4. ASSUME NEW u, Differ(u, v1) PROVE Len(t) <= Len(u)
    <3>1. Len(u) \in T
      BY <2>0, <2>4
    <3> QED
      BY <2>2, <2>3, <3>1
  <2> QED
    BY <2>3, <2>4
<1>5. /\ ahead \in Seq(RoleNames) /\ visited \in SUBSET RoleNames
      /\ f[<<ahead, visited>>] = RoleStep(f, ahead, visited)
      /\ f[<<ahead, visited>>] # RoleLeast(ahead, visited)
  BY <1>4 DEF RoleSolves
<1>6. ahead # <<>>
  BY <1>5, RoleLeastSolves DEF RoleStep
<1>7. Tail(ahead) \in Seq(RoleNames) /\ Len(Tail(ahead)) < Len(ahead)
      /\ Head(ahead) \in RoleNames /\ Len(Tail(ahead)) \in Nat /\ Len(ahead) \in Nat
  BY <1>5, <1>6
<1>8. CASE Head(ahead) \in visited
  <2>1. f[<<ahead, visited>>] = f[<<Tail(ahead), visited>>]
    BY <1>5, <1>6, <1>8 DEF RoleStep
  <2>2. RoleLeast(ahead, visited) = RoleLeast(Tail(ahead), visited)
    BY <1>5, <1>6, <1>8, RoleLeastSolves
  <2>3. Differ(Tail(ahead), visited)
    BY <1>5, <1>7, <2>1, <2>2
  <2> HIDE DEF Differ, Left
  <2>4. Len(ahead) <= Len(Tail(ahead))
    BY Zenon, <1>4, <2>3
  <2> QED
    BY <1>7, <2>4
<1>9. CASE Head(ahead) \notin visited
  <2> DEFINE next == RoleAbove(Head(ahead)) \o Tail(ahead)
             more == visited \cup {Head(ahead)}
  <2>1. f[<<ahead, visited>>] = f[<<next, more>>]
    BY <1>5, <1>6, <1>9 DEF RoleStep
  <2>2. RoleLeast(ahead, visited) = RoleLeast(next, more) /\ next \in Seq(RoleNames)
    BY <1>5, <1>6, <1>9, RoleLeastSolves
  <2>3. more \in SUBSET RoleNames
    BY <1>5, <1>7
  <2> HIDE DEF next
  <2>4. Differ(next, more)
    BY <1>5, <2>1, <2>2, <2>3
  <2>5. Left(more) < Left(visited)
    <3>1. /\ RoleNames \ more \subseteq RoleNames \ visited
          /\ Head(ahead) \in RoleNames \ visited /\ Head(ahead) \notin RoleNames \ more
      BY <1>7, <1>9
    <3>2. IsFiniteSet(RoleNames \ visited)
      BY FS_Subset
    <3>3. Left(more) <= Left(visited)
          /\ (Left(more) = Left(visited) => RoleNames \ more = RoleNames \ visited)
      BY <3>1, <3>2, FS_Subset
    <3>4. Left(more) \in Nat /\ Left(visited) \in Nat
      BY <1>2, <1>5, <2>3
    <3> QED
      BY <3>1, <3>3, <3>4
  <2>6. Left(v1) <= Left(more) /\ Left(v1) = Left(visited)
    BY <1>3, <1>4, <2>4
  <2>7. Left(more) \in Nat /\ Left(visited) \in Nat
    BY <1>2, <1>5, <2>3
  <2> HIDE DEF Left
  <2> QED
    BY <2>5, <2>6, <2>7
<1> QED
  BY <1>8, <1>9

\* What the recursion returns for one role: the least set with it that is closed.
LEMMA RolesOfOne ==
    ASSUME RoleTypes, Access!PermissionsAssumption PROVE Access!RolesExact
<1> DEFINE Step == {e \in Roles \X RoleNames : e[2] \in Access!ToSet(inherits[e[1]])}
           Closed(S) == \A e \in Step : e[1] \in S => e[2] \in S
<1> SUFFICES ASSUME NEW role \in RoleNames
             PROVE  LET up == Access!EffectiveRoles(role) IN
                    /\ role \in up /\ Closed(up)
                    /\ \A S \in SUBSET RoleNames : role \in S /\ Closed(S) => up \subseteq S
  BY DEF Access!RolesExact
<1>1. IsFiniteSet(RoleNames)
  BY Zenon DEF Access!PermissionsAssumption, Access!IsFiniteSet, IsFiniteSet
<1>2. role \in RoleNames /\ Roles \subseteq RoleNames
  BY DEF Access!PermissionsAssumption
<1>3. <<role>> \in Seq(RoleNames) /\ {} \in SUBSET RoleNames
  BY <1>2
<1>4. Access!EffectiveRoles(role) = RoleLeast(<<role>>, {})
  <2>1. Access!EffectiveRoles(role) = Access!Visited[<<<<role>>, {}>>]
    BY DEF Access!EffectiveRoles
  <2> QED
    BY <1>1, <1>3, <2>1, RoleEquation, RoleUnique
<1>5. RoleElements(<<role>>) = {role}
  BY DEF RoleElements
<1>6. \A x \in Roles : RoleElements(inherits[x]) \subseteq RoleNames
                       /\ RoleElements(inherits[x]) = Access!ToSet(inherits[x])
  BY DEF RoleTypes, RoleElements, Access!ToSet
<1>7. \A S \in SUBSET RoleNames :
          RoleHolds(S, <<role>>, {})
              <=> role \in S /\ \A x \in S \cap Roles : Access!ToSet(inherits[x]) \subseteq S
  BY <1>5, <1>6 DEF RoleHolds
<1>8. role \in RoleLeast(<<role>>, {})
  BY <1>2, <1>7 DEF RoleLeast
<1>9. Closed(RoleLeast(<<role>>, {}))
  <2> SUFFICES ASSUME NEW x \in Roles, NEW y \in RoleNames, y \in Access!ToSet(inherits[x]),
                      x \in RoleLeast(<<role>>, {})
               PROVE  y \in RoleLeast(<<role>>, {})
    OBVIOUS
  <2> QED
    BY <1>2, <1>7 DEF RoleLeast
<1>10. ASSUME NEW S \in SUBSET RoleNames, role \in S, Closed(S)
       PROVE  RoleLeast(<<role>>, {}) \subseteq S
  <2>1. \A x \in S \cap Roles : Access!ToSet(inherits[x]) \subseteq S
    <3> SUFFICES ASSUME NEW x \in S \cap Roles, NEW y \in Access!ToSet(inherits[x])
                 PROVE  y \in S
      OBVIOUS
    <3>1. <<x, y>> \in Step
      BY <1>6
    <3> QED
      BY <1>10, <3>1
  <2>2. RoleHolds(S, <<role>>, {})
    BY <1>2, <1>7, <1>10, <2>1
  <2> QED
    BY <1>2, <2>2 DEF RoleLeast
<1> HIDE DEF Closed
<1> QED
  BY <1>4, <1>8, <1>9, <1>10

\* The roles a role stands for are those its inheritance leads to, for any finite set of roles
\* and whatever cycles the inheritance has.
THEOREM AlwaysRolesExact == ASSUME RecordAssumption PROVE RecordSpec => []RolesExact
<1> DEFINE Inv == part = "Access" => RoleTypes
<1>0. Access!PermissionsAssumption
  BY DEF RecordAssumption
<1>1. RecordInit => Inv
  <2> SUFFICES ASSUME Access!Init PROVE RoleTypes
    BY DEF RecordInit
  <2>1. <<>> \in Seq(RoleNames)
    OBVIOUS
  <2> QED
    BY <1>0, <2>1 DEF Access!Init, Access!PermissionsAssumption, RoleTypes
<1>2. Inv /\ [RecordNext]_recordVars => Inv'
  <2>1. part = "Access" /\ [RecordNext]_recordVars => UNCHANGED inherits
    BY DEF RecordNext, recordVars, AccessVars, Access!Next, Access!Guard, Access!Read,
       Access!CreateRow, Access!UpdateRow, Access!DeleteRow, Access!Write
  <2>2. [RecordNext]_recordVars => UNCHANGED part
    BY DEF RecordNext, recordVars
  <2> QED
    BY <2>1, <2>2 DEF RoleTypes
<1>3. Inv => RolesExact
  BY <1>0, RolesOfOne DEF RolesExact
<1> QED
  BY <1>1, <1>2, <1>3, PTL DEF RecordSpec

-----------------------------------------------------------------------------
(***************************************************************************)
(* The types of the parts.                                                 *)
(***************************************************************************)
\* A write is of the relation the cascade is at.
CascadeAt == Cascade!TypeOK /\ (step = "write" => link \in DOMAIN Links)

LEMMA CascadeTypesInit ==
    ASSUME Cascade!CascadesAssumption, Cascade!Init PROVE CascadeAt
<1>1. Len(Links) \in Nat
  BY DEF Cascade!CascadesAssumption
<1>2. link \in 1 .. Len(Links) + 1
  BY <1>1 DEF Cascade!Init
<1> QED
  BY <1>2 DEF Cascade!Init, Cascade!TypeOK, CascadeAt

\* What the transaction has written and what is committed are contents of rows.
LEMMA CascadeViews ==
    ASSUME Cascade!TypeOK PROVE \A row \in Rows : Cascade!View(row) \in Cascade!Contents
  BY DEF Cascade!TypeOK, Cascade!View

LEMMA CascadeTypesNext ==
    ASSUME Cascade!CascadesAssumption, CascadeAt, Cascade!Next PROVE CascadeAt'
<1>0. DOMAIN Links = 1 .. Len(Links) /\ Len(Links) \in Nat
  BY DEF Cascade!CascadesAssumption
<1>1. Cascade!TypeOK /\ (step = "write" => link \in DOMAIN Links)
  BY DEF CascadeAt
<1>2. CASE Cascade!DeleteInMemory
  <2>1. \A row \in Rows : Cascade!Cascaded(row) \in Cascade!Contents
    BY <1>1 DEF Cascade!TypeOK, Cascade!Cascaded, Cascade!Contents
  <2> QED
    BY <1>1, <1>2, <2>1 DEF Cascade!DeleteInMemory, Cascade!TypeOK, CascadeAt
<1>3. CASE Cascade!BeginCascade \/ Cascade!RemoveUser
  BY <1>1, <1>3 DEF Cascade!BeginCascade, Cascade!RemoveUser, Cascade!TypeOK, CascadeAt
<1>4. CASE Cascade!CountRestricted
  <2>1. link' \in 1 .. Len(Links) + 1
    BY <1>0, <1>1, <1>4 DEF Cascade!CountRestricted, Cascade!TypeOK
  <2>2. /\ step' \in {"restrict", "find", "refused"} /\ user' \in {"there", "deleting", "gone"}
        /\ staged' = staged \/ staged' = <<>>
    BY <1>1, <1>4 DEF Cascade!CountRestricted, Cascade!TypeOK, Cascade!Rollback
  <2> QED
    BY <1>1, <1>4, <2>1, <2>2 DEF Cascade!CountRestricted, Cascade!TypeOK, CascadeAt
<1>5. CASE Cascade!FindChildren
  <2>1. /\ link' \in 1 .. Len(Links) + 1 /\ step' \in {"find", "write", "deleteUser"}
        /\ step' = "write" => link' \in DOMAIN Links
    BY <1>0, <1>1, <1>5 DEF Cascade!FindChildren, Cascade!TypeOK
  <2> QED
    BY <1>1, <1>5, <2>1 DEF Cascade!FindChildren, Cascade!TypeOK, CascadeAt
<1>6. CASE Cascade!WriteChildren
  <2> DEFINE l == Links[link]
             new(row) == IF onDelete[l] = "Cascade" THEN Gone ELSE Cascade!View(row) \ {l}
             written == [row \in (DOMAIN staged) \cup Cascade!Children(l) |->
                            IF row \in Cascade!Children(l) THEN new(row) ELSE staged[row]]
  <2>1. step = "write" /\ staged' = written
    BY <1>6 DEF Cascade!WriteChildren
  <2>2. \A row \in Cascade!Children(l) : row \in Rows /\ new(row) \in Cascade!Contents
    BY <1>1, CascadeViews DEF Cascade!Children, Cascade!Points, Cascade!Contents
  <2>3. /\ DOMAIN staged' \subseteq Rows
        /\ \A row \in DOMAIN staged' : staged'[row] \in Cascade!Contents
    BY <1>1, <2>1, <2>2 DEF Cascade!TypeOK
  <2>4. link' \in 1 .. Len(Links) + 1
    BY <1>0, <1>1, <1>6, <2>1 DEF Cascade!WriteChildren
  <2> QED
    BY <1>1, <1>6, <2>3, <2>4 DEF Cascade!WriteChildren, Cascade!TypeOK, CascadeAt
<1>7. CASE Cascade!DeleteUser
  <2> DEFINE new(row) == IF Cascade!View(row) \cap Cascade!Under("Cascade") # {} THEN Gone ELSE {}
             written == [row \in (DOMAIN staged) \cup Cascade!Bound |->
                            IF row \in Cascade!Bound THEN new(row) ELSE staged[row]]
  <2>1. \/ Cascade!Rollback
        \/ staged' = written /\ user' = "deleting" /\ step' = "commit"
    BY <1>7 DEF Cascade!DeleteUser
  <2>2. \A row \in Cascade!Bound : row \in Rows /\ new(row) \in Cascade!Contents
    BY DEF Cascade!Bound, Cascade!Contents
  <2>3. /\ DOMAIN staged' \subseteq Rows
        /\ \A row \in DOMAIN staged' : staged'[row] \in Cascade!Contents
    <3>1. CASE staged' = <<>>
      BY <3>1
    <3>2. CASE staged' = written
      BY <1>1, <2>2, <3>2 DEF Cascade!TypeOK
    <3> QED
      BY <2>1, <3>1, <3>2 DEF Cascade!Rollback
  <2>4. user' \in {"there", "deleting"} /\ step' \in {"refused", "commit"}
    BY <2>1 DEF Cascade!Rollback
  <2> QED
    BY <1>1, <1>7, <2>3, <2>4 DEF Cascade!DeleteUser, Cascade!TypeOK, CascadeAt
<1>8. CASE Cascade!Commit
  <2>1. refs' \in [Rows -> Cascade!Contents]
    BY <1>1, <1>8, CascadeViews DEF Cascade!Commit
  <2> QED
    BY <1>1, <1>8, <2>1 DEF Cascade!Commit, Cascade!TypeOK, CascadeAt
<1>9. CASE Cascade!Fail
  BY <1>1, <1>9 DEF Cascade!Fail, Cascade!Rollback, Cascade!TypeOK, CascadeAt
<1>10. ASSUME NEW row \in Rows, Cascade!Other(row) PROVE CascadeAt'
  <2>1. PICK new \in Cascade!Contents : refs' = [refs EXCEPT ![row] = new]
    BY <1>10 DEF Cascade!Other
  <2>2. refs' \in [Rows -> Cascade!Contents] /\ touched' \subseteq Rows
    BY <1>1, <1>10, <2>1 DEF Cascade!Other, Cascade!TypeOK
  <2> QED
    BY <1>1, <1>10, <2>2 DEF Cascade!Other, Cascade!TypeOK, CascadeAt
<1> QED
  BY <1>2, <1>3, <1>4, <1>5, <1>6, <1>7, <1>8, <1>9, <1>10 DEF Cascade!Next

AccessRequests ==
    [who : Requesters, kind : {"create", "update", "delete"}, id : Access!Ids,
     body : PermBodies, parent : Urls]

\* A request that reads or writes has been through the guard.
AccessAsked ==
    Access!TypeOK
    /\ \A r \in Requests : accessPc[r] \in {"read", "write"} => req[r] \in AccessRequests

LEMMA AccessTypesInit ==
    ASSUME Access!PermissionsAssumption, Access!Init PROVE AccessAsked
<1>1. /\ mode \in {"permissions", "legacy", "roles"} /\ rules \in RuleSets \cup {None}
      /\ required \in BOOLEAN /\ allowed \in Allowed \cup {{}}
  BY DEF Access!Init
<1>2. inherits \in [Roles -> Seq(RoleNames)]
  <2>1. <<>> \in Seq(RoleNames)
    OBVIOUS
  <2> QED
    BY <2>1 DEF Access!Init, Access!PermissionsAssumption
<1>3. /\ rows \in [Access!Ids -> Values \cup {Absent}]
      /\ everIn = [i \in Access!Ids |-> {rows[i]} \ {Absent}]
  BY DEF Access!Init
<1>4. everIn \in [Access!Ids -> SUBSET Values]
  <2>1. \A i \in Access!Ids : {rows[i]} \ {Absent} \in SUBSET Values
    BY <1>3
  <2> QED
    BY <1>3, <2>1
<1>5. rows \in [Access!Ids -> Values \cup {None, Absent}]
  BY <1>3
<1>6. /\ accessPc = [r \in Requests |-> "new"] /\ req = [r \in Requests |-> None]
      /\ scope = [r \in Requests |-> None] /\ seen = [r \in Requests |-> None]
      /\ by = [i \in Access!Ids |-> {}] /\ last = [i \in Access!Ids |-> None]
  BY DEF Access!Init
<1> QED
  BY <1>1, <1>2, <1>4, <1>5, <1>6 DEF Access!TypeOK, AccessAsked

LEMMA AccessWrites ==
    ASSUME Access!PermissionsAssumption, AccessAsked, NEW r \in Requests, accessPc[r] = "write",
           NEW value \in Values \cup {None, Absent}, Access!Write(r, value)
    PROVE  AccessAsked'
<1>1. Access!TypeOK /\ req[r].id \in Access!Ids /\ scope[r] \in Values \cup {None}
  BY DEF AccessAsked, AccessRequests, Access!TypeOK
<1>2. /\ rows' \in [Access!Ids -> Values \cup {None, Absent}]
      /\ last' \in [Access!Ids -> Values \cup {None}]
      /\ accessPc' \in [Requests -> {"new", "read", "write", "refused", "404", "done"}]
  BY <1>1 DEF Access!Write, Access!TypeOK
<1>3. everIn' \in [Access!Ids -> SUBSET Values]
  BY <1>1 DEF Access!Write, Access!TypeOK
<1>4. by' \in [Access!Ids -> SUBSET Values]
  BY <1>1 DEF Access!Write, Access!TypeOK
<1>5. \A q \in Requests : accessPc'[q] \in {"read", "write"} => accessPc'[q] = accessPc[q]
  BY <1>1 DEF Access!Write, Access!TypeOK
<1> QED
  BY <1>1, <1>2, <1>3, <1>4, <1>5 DEF Access!Write, Access!TypeOK, AccessAsked, AccessRequests

LEMMA AccessGuarded ==
    ASSUME Access!PermissionsAssumption, AccessAsked, NEW r \in Requests, Access!Guard(r)
    PROVE  AccessAsked'
<1>1. PICK who \in Requesters, kind \in {"create", "update", "delete"}, i \in Seeded,
           text \in PermBodies, parent \in Urls :
        Access!Guard(r)!2!(who, kind, i, text, parent)
  BY Zenon DEF Access!Guard
<1> DEFINE verdict == IF mode = "legacy" THEN Access!LegacyGuard(who)
                      ELSE Access!PermissionGuard(who)
           asked == [who |-> who, kind |-> kind, id |-> IF kind = "create" THEN r ELSE i,
                     body |-> text, parent |-> parent]
<1>2. verdict.scope \in Values \cup {None}
  BY ScopeVerdict
<1>3. asked \in AccessRequests
  BY DEF AccessRequests, Access!Ids
<1>4. /\ req' = [req EXCEPT ![r] = asked] /\ scope' = [scope EXCEPT ![r] = verdict.scope]
      /\ \E to \in {"refused", "read", "write"} : accessPc' = [accessPc EXCEPT ![r] = to]
      /\ UNCHANGED <<mode, rules, inherits, required, allowed, rows, seen, everIn, by, last>>
  BY <1>1 DEF Access!Guard
<1> HIDE DEF verdict, asked
<1>5. Access!TypeOK
  BY DEF AccessAsked
<1>6. /\ req' \in [Requests -> {None} \cup AccessRequests]
      /\ scope' \in [Requests -> Values \cup {None}]
      /\ accessPc' \in [Requests -> {"new", "read", "write", "refused", "404", "done"}]
  BY <1>2, <1>3, <1>4, <1>5 DEF Access!TypeOK, AccessRequests
<1>7. \A q \in Requests : accessPc'[q] \in {"read", "write"} => req'[q] \in AccessRequests
  BY <1>3, <1>4, <1>5 DEF Access!TypeOK, AccessAsked
<1> QED
  BY <1>4, <1>5, <1>6, <1>7 DEF Access!TypeOK, AccessAsked, AccessRequests

LEMMA AccessReads ==
    ASSUME Access!PermissionsAssumption, AccessAsked, NEW r \in Requests, Access!Read(r)
    PROVE  AccessAsked'
<1> DEFINE row == rows[req[r].id]
<1>1. /\ accessPc[r] = "read"
      /\ UNCHANGED <<mode, rules, inherits, required, allowed, rows, req, scope, everIn, by, last>>
      /\ \/ accessPc' = [accessPc EXCEPT ![r] = "404"] /\ UNCHANGED seen
         \/ /\ row # Absent /\ accessPc' = [accessPc EXCEPT ![r] = "write"]
            /\ seen' = [seen EXCEPT ![r] = row]
  BY DEF Access!Read
<1>2. Access!TypeOK /\ req[r] \in AccessRequests
  BY <1>1 DEF AccessAsked
<1>3. row \in Values \cup {None, Absent}
  BY <1>2 DEF AccessRequests, Access!TypeOK
<1> HIDE DEF row
<1>4. /\ seen' \in [Requests -> Values \cup {None}]
      /\ accessPc' \in [Requests -> {"new", "read", "write", "refused", "404", "done"}]
  <2>1. /\ seen \in [Requests -> Values \cup {None}]
        /\ accessPc \in [Requests -> {"new", "read", "write", "refused", "404", "done"}]
    BY <1>2 DEF Access!TypeOK
  <2> QED
    BY <1>1, <1>2, <1>3, <2>1
<1>5. \A q \in Requests : accessPc'[q] \in {"read", "write"} => accessPc[q] \in {"read", "write"}
  BY <1>1, <1>2 DEF Access!TypeOK
<1> QED
  BY <1>1, <1>2, <1>4, <1>5 DEF Access!TypeOK, AccessAsked, AccessRequests

\* A request that is turned away, or finds no row, changes nothing else.
LEMMA AccessTurnedAway ==
    ASSUME AccessAsked, NEW r \in Requests, NEW to \in {"refused", "404"},
           accessPc' = [accessPc EXCEPT ![r] = to],
           UNCHANGED <<mode, rules, inherits, required, allowed, rows, req, scope, seen, everIn,
                       by, last>>
    PROVE  AccessAsked'
<1>1. \A q \in Requests : accessPc'[q] \in {"read", "write"} => accessPc[q] \in {"read", "write"}
  BY DEF AccessAsked, Access!TypeOK
<1>2. accessPc' \in [Requests -> {"new", "read", "write", "refused", "404", "done"}]
  BY DEF AccessAsked, Access!TypeOK
<1> QED
  BY <1>1, <1>2 DEF AccessAsked, Access!TypeOK, AccessRequests

LEMMA AccessTypesNext ==
    ASSUME Access!PermissionsAssumption, AccessAsked, Access!Next PROVE AccessAsked'
<1>1. PICK r \in Requests : \/ Access!Guard(r) \/ Access!Read(r) \/ Access!CreateRow(r)
                           \/ Access!UpdateRow(r) \/ Access!DeleteRow(r)
  BY DEF Access!Next
<1>2. accessPc[r] = "write" =>
          /\ scope[r] \in Values \cup {None} /\ seen[r] \in Values \cup {None}
          /\ req[r].parent \in Values \cup {None} /\ req[r].body \in Values \cup {None}
  BY DEF AccessAsked, AccessRequests, Access!TypeOK, Access!PermissionsAssumption
<1>3. CASE Access!Guard(r)
  BY <1>3, AccessGuarded
<1>4. CASE Access!Read(r)
  BY <1>4, AccessReads
<1>5. CASE Access!CreateRow(r)
  <2>1. CASE scope[r] # None /\ req[r].parent \notin {None, scope[r]}
    BY <1>5, <2>1, AccessTurnedAway DEF Access!CreateRow
  <2>2. CASE ~(scope[r] # None /\ req[r].parent \notin {None, scope[r]})
    <3>1. PICK value \in Values \cup {None} : Access!Write(r, value)
      BY <1>2, <1>5, <2>2 DEF Access!CreateRow
    <3> QED
      BY <1>5, <3>1, AccessWrites DEF Access!CreateRow
  <2> QED
    BY <2>1, <2>2
<1>6. CASE Access!UpdateRow(r)
  <2>1. CASE Access!Write(r, Access!NewValue(r))
    <3>1. Access!NewValue(r) \in Values \cup {None}
      BY <1>2, <1>6 DEF Access!UpdateRow, Access!NewValue
    <3> QED
      BY <1>6, <2>1, <3>1, AccessWrites DEF Access!UpdateRow
  <2>2. CASE ~Access!Write(r, Access!NewValue(r))
    BY <1>6, <2>2, AccessTurnedAway DEF Access!UpdateRow
  <2> QED
    BY <2>1, <2>2
<1>7. CASE Access!DeleteRow(r)
  BY <1>7, AccessWrites DEF Access!DeleteRow
<1> QED
  BY <1>1, <1>3, <1>4, <1>5, <1>6, <1>7

RecordTypesInv ==
    /\ part = "Database" => DatabaseTypeInv
    /\ part = "Cascade" => CascadeAt
    /\ part = "Access" => AccessAsked

\* Every variable of the part that is exercised keeps its type.
THEOREM AlwaysRecordTypes == ASSUME RecordAssumption PROVE RecordSpec => []RecordTypeOK
<1>0. /\ Database!DatabaseRoutesAssumption /\ Cascade!CascadesAssumption
      /\ Access!PermissionsAssumption
  BY DEF RecordAssumption
<1>1. RecordInit => RecordTypesInv
  BY <1>0, DatabaseInitType, CascadeTypesInit, AccessTypesInit DEF RecordInit, RecordTypesInv
<1>2. RecordTypesInv /\ [RecordNext]_recordVars => RecordTypesInv'
  <2> SUFFICES ASSUME RecordTypesInv, [RecordNext]_recordVars PROVE RecordTypesInv'
    OBVIOUS
  <2>1. part' = part
    BY DEF RecordNext, recordVars
  <2>2. ASSUME part = "Database" PROVE DatabaseTypeInv'
    BY <1>0, <2>2, DatabaseStep, DatabaseNextType DEF RecordTypesInv
  <2>3. ASSUME part = "Cascade" PROVE CascadeAt'
    <3>1. CascadeAt
      BY <2>3 DEF RecordTypesInv
    <3>2. CASE Cascade!Next
      BY <1>0, <3>1, <3>2, CascadeTypesNext
    <3>3. CASE UNCHANGED recordVars
      BY <3>1, <3>3 DEF recordVars, CascadeVars, CascadeAt, Cascade!TypeOK
    <3> QED
      BY <2>3, <3>2, <3>3 DEF RecordNext
  <2>4. ASSUME part = "Access" PROVE AccessAsked'
    <3>1. AccessAsked
      BY <2>4 DEF RecordTypesInv
    <3>2. CASE Access!Next
      BY <1>0, <3>1, <3>2, AccessTypesNext
    <3>3. CASE UNCHANGED recordVars
      BY <3>1, <3>3 DEF recordVars, AccessVars, AccessAsked, AccessRequests, Access!TypeOK
    <3> QED
      BY <2>4, <3>2, <3>3 DEF RecordNext
  <2> QED
    BY <2>1, <2>2, <2>3, <2>4 DEF RecordTypesInv
<1>3. RecordTypesInv /\ WalkHolds => RecordTypeOK
  BY DEF RecordTypesInv, WalkHolds, RecordTypeOK, DatabaseTypeInv, CascadeAt, AccessAsked,
         WalkInv, WalkTypes
<1> QED
  BY <1>1, <1>2, <1>3, AlwaysWalks, PTL DEF RecordSpec
=============================================================================
