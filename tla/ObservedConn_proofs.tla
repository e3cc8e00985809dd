--------------------------- MODULE ObservedConn_proofs ---------------------------
(***************************************************************************)
(* Proofs about ObservedConn: for any number of rows and transactions the  *)
(* flag of the connection is right, every transaction is observed once,    *)
(* and on drivers with BeginTx nothing runs without the initializer.       *)
(***************************************************************************)
EXTENDS ObservedConn, TLAPS

\* Rows that still have to end their transaction hold the one that is open,
\* alone, and not together with the caller.
RowsOwnCurrent ==
  \A r \in Rows :
    ~rows[r].finished =>
      /\ rows[r].open
      /\ rows[r].tx = current /\ current # 0
      /\ explicit = 0
      /\ \A q \in Rows : ~rows[q].finished => q = r

\* The transaction of the caller is the one that is open.
ExplicitIsCurrent == explicit # 0 => current = explicit

IInv ==
  /\ TypeOK
  /\ FlagTracksTransaction
  /\ EveryTransactionObserved
  /\ RowsOwnCurrent
  /\ ExplicitIsCurrent
-----------------------------------------------------------------------------
LEMMA InitHolds == Init => IInv
<1> SUFFICES ASSUME Init PROVE IInv
  OBVIOUS
<1> USE DriversAssumption, MaxTxAssumption DEF Init, NoRows
<1>1. TypeOK
  <2>1. inTransaction \in BOOLEAN /\ bare \in BOOLEAN
    BY Zenon
  <2>2. rows \in [Rows -> RowsState]
    BY DEF RowsState
  <2> QED BY <2>1, <2>2 DEF TypeOK
<1>2. FlagTracksTransaction /\ EveryTransactionObserved
  BY DEF FlagTracksTransaction, EveryTransactionObserved
<1>3. RowsOwnCurrent /\ ExplicitIsCurrent
  BY DEF RowsOwnCurrent, ExplicitIsCurrent
<1> QED BY <1>1, <1>2, <1>3 DEF IInv

\* A begin that failed changes the flag of no open transaction.
LEMMA BeginTxFailsKeeps ==
  ASSUME IInv, BeginTxFails, UNCHANGED <<driver, explicit, rows, bare>>
  PROVE  IInv'
<1> USE MaxTxAssumption DEF BeginTxFails, CountBegin, connVars
<1>1. inTransaction' = inTransaction /\ current' = current
  BY DEF IInv, FlagTracksTransaction, TypeOK
<1>2. TypeOK'
  BY <1>1 DEF IInv, TypeOK, EveryTransactionObserved
<1>3. FlagTracksTransaction' /\ EveryTransactionObserved'
  BY <1>1 DEF IInv, TypeOK, FlagTracksTransaction, EveryTransactionObserved
<1>4. RowsOwnCurrent' /\ ExplicitIsCurrent'
  BY <1>1 DEF IInv, RowsOwnCurrent, ExplicitIsCurrent
<1> QED BY <1>2, <1>3, <1>4 DEF IInv

\* A transaction that begins finds none open, and so no rows that hold one.
LEMMA BeginFacts ==
  ASSUME IInv, BeginTxSucceeds
  PROVE  /\ current = 0 /\ explicit = 0 /\ observed = begun
         /\ begun' = begun + 1 /\ begun' \in 1..MaxTx
         /\ initialized' \subseteq 1..MaxTx
         /\ \A r \in Rows : rows[r].finished
BY MaxTxAssumption
   DEF IInv, TypeOK, BeginTxSucceeds, CountBegin, EveryTransactionObserved,
       RowsOwnCurrent, ExplicitIsCurrent

LEMMA BeginKeeps == ASSUME IInv, Begin PROVE IInv'
<1> USE MaxTxAssumption DEF Begin
<1>0. /\ current = 0 /\ observed = begun /\ begun' = begun + 1
      /\ begun' \in 1..MaxTx /\ initialized' \subseteq 1..MaxTx
      /\ \A r \in Rows : rows[r].finished
  BY BeginFacts
<1>1. TypeOK'
  <2>1. inTransaction' \in BOOLEAN
    BY Zenon
  <2> QED BY <1>0, <2>1 DEF IInv, TypeOK
<1>2. FlagTracksTransaction'
  BY <1>0 DEF FlagTracksTransaction
<1>3. EveryTransactionObserved'
  BY <1>0 DEF IInv, TypeOK, EveryTransactionObserved
<1>4. RowsOwnCurrent' /\ ExplicitIsCurrent'
  BY <1>0 DEF RowsOwnCurrent, ExplicitIsCurrent
<1> QED BY <1>1, <1>2, <1>3, <1>4 DEF IInv

LEMMA ImplicitExecKeeps == ASSUME IInv, ImplicitExec PROVE IInv'
<1> USE MaxTxAssumption DEF ImplicitExec
<1>0. /\ current = 0 /\ explicit = 0 /\ observed = begun
      /\ begun' = begun + 1 /\ begun' \in 1..MaxTx
      /\ initialized' \subseteq 1..MaxTx
      /\ \A r \in Rows : rows[r].finished
  BY BeginFacts
<1>1. TypeOK'
  <2>1. inTransaction' \in BOOLEAN
    BY Zenon
  <2>2. bare' \in BOOLEAN
    BY Zenon DEF IInv, TypeOK, RunIn
  <2> QED BY <1>0, <2>1, <2>2 DEF IInv, TypeOK
<1>2. FlagTracksTransaction'
  BY DEF FlagTracksTransaction
<1>3. EveryTransactionObserved'
  BY <1>0 DEF IInv, TypeOK, EveryTransactionObserved
<1>4. RowsOwnCurrent' /\ ExplicitIsCurrent'
  BY <1>0 DEF RowsOwnCurrent, ExplicitIsCurrent
<1> QED BY <1>1, <1>2, <1>3, <1>4 DEF IInv

LEMMA ImplicitQueryKeeps ==
  ASSUME IInv, NEW r \in Rows, ImplicitQuery(r) PROVE IInv'
<1> USE MaxTxAssumption DEF ImplicitQuery
<1>0. /\ current = 0 /\ explicit = 0 /\ observed = begun
      /\ begun' = begun + 1 /\ begun' \in 1..MaxTx
      /\ initialized' \subseteq 1..MaxTx
      /\ \A q \in Rows : rows[q].finished
  BY BeginFacts
<1>1. TypeOK'
  <2>1. inTransaction' \in BOOLEAN
    BY Zenon
  <2>2. bare' \in BOOLEAN
    BY Zenon DEF IInv, TypeOK, RunIn
  <2>3. rows' \in [Rows -> RowsState]
    BY <1>0 DEF IInv, TypeOK, RowsState, TxRows
  <2> QED BY <1>0, <2>1, <2>2, <2>3 DEF IInv, TypeOK
<1>2. FlagTracksTransaction'
  BY <1>0 DEF FlagTracksTransaction
<1>3. EveryTransactionObserved'
  BY <1>0 DEF IInv, TypeOK, EveryTransactionObserved
<1>4. RowsOwnCurrent' /\ ExplicitIsCurrent'
  BY <1>0 DEF IInv, TypeOK, RowsOwnCurrent, ExplicitIsCurrent, TxRows
<1> QED BY <1>1, <1>2, <1>3, <1>4 DEF IInv

\* The end of the open transaction by whoever holds it.
LEMMA FinishKeeps ==
  ASSUME IInv, FinishTx, current # 0, explicit' = 0,
         rows' \in [Rows -> RowsState], \A r \in Rows : rows'[r].finished,
         UNCHANGED <<driver, begun, initialized, bare>>
  PROVE  IInv'
<1> USE MaxTxAssumption DEF FinishTx
<1>1. TypeOK'
  <2>1. inTransaction' \in BOOLEAN
    BY Zenon
  <2> QED BY <2>1 DEF IInv, TypeOK, EveryTransactionObserved
<1>2. FlagTracksTransaction'
  BY DEF FlagTracksTransaction
<1>3. EveryTransactionObserved'
  BY DEF IInv, TypeOK, EveryTransactionObserved
<1>4. RowsOwnCurrent' /\ ExplicitIsCurrent'
  BY DEF RowsOwnCurrent, ExplicitIsCurrent
<1> QED BY <1>1, <1>2, <1>3, <1>4 DEF IInv

\* Rows that are opened or closed without a transaction of their own.
LEMMA PlainRowsKeep ==
  ASSUME IInv, NEW r \in Rows, NEW s \in RowsState, s.finished,
         rows[r].finished, rows' = [rows EXCEPT ![r] = s],
         bare' \in BOOLEAN,
         UNCHANGED <<driver, connVars, explicit, begun, observed, initialized>>
  PROVE  IInv'
<1> USE DEF connVars
<1>1. TypeOK'
  BY DEF IInv, TypeOK
<1>2. FlagTracksTransaction' /\ EveryTransactionObserved'
  BY DEF IInv, FlagTracksTransaction, EveryTransactionObserved
<1>3. RowsOwnCurrent' /\ ExplicitIsCurrent'
  BY DEF IInv, TypeOK, RowsOwnCurrent, ExplicitIsCurrent
<1> QED BY <1>1, <1>2, <1>3 DEF IInv

\* Rows that still hold a transaction end the one that is open, and then no
\* rows hold one.
LEMMA RowsEndKeeps ==
  ASSUME IInv, NEW r \in Rows, NEW s \in RowsState, s.finished,
         ~rows[r].finished, FinishTx, rows' = [rows EXCEPT ![r] = s],
         UNCHANGED <<driver, explicit, begun, initialized, bare>>
  PROVE  IInv'
<1>1. current # 0 /\ explicit' = 0
  BY DEF IInv, RowsOwnCurrent
<1>2. rows' \in [Rows -> RowsState] /\ \A q \in Rows : rows'[q].finished
  BY DEF IInv, TypeOK, RowsOwnCurrent
<1> QED BY <1>1, <1>2, FinishKeeps

LEMMA NoRowsIsFinished ==
  /\ NoRows \in RowsState /\ NoRows.finished
  /\ PlainRows \in RowsState /\ PlainRows.finished
BY MaxTxAssumption DEF NoRows, PlainRows, RowsState

\* Every action keeps the invariant.
LEMMA StepKeeps == IInv /\ [Next]_vars => IInv'
<1> SUFFICES ASSUME IInv, [Next]_vars PROVE IInv'
  OBVIOUS
<1>t. TypeOK
  BY DEF IInv
<1>1. CASE Begin
  BY <1>1, BeginKeeps
<1>2. CASE BeginFailed
  BY <1>2, BeginTxFailsKeeps DEF BeginFailed
<1>3. CASE End
  <2>1. current # 0 /\ \A r \in Rows : rows[r].finished
    BY <1>3 DEF End, IInv, TypeOK, RowsOwnCurrent, ExplicitIsCurrent
  <2>2. rows' \in [Rows -> RowsState] /\ \A r \in Rows : rows'[r].finished
    BY <1>3, <1>t, <2>1 DEF End, TypeOK
  <2> QED BY <1>3, <2>1, <2>2, FinishKeeps DEF End
<1>4. CASE ImplicitFailed
  BY <1>4, BeginTxFailsKeeps DEF ImplicitFailed
<1>5. CASE ImplicitExec
  BY <1>5, ImplicitExecKeeps
<1>6. CASE PlainExec
  <2>1. bare' \in BOOLEAN
    BY <1>6, <1>t, Zenon DEF PlainExec, RunIn, TypeOK
  <2> QED BY <1>6, <2>1
          DEF PlainExec, connVars, IInv, TypeOK, FlagTracksTransaction,
              EveryTransactionObserved, RowsOwnCurrent, ExplicitIsCurrent
<1>7. ASSUME NEW r \in Rows, ImplicitQuery(r) PROVE IInv'
  BY <1>7, ImplicitQueryKeeps
<1>8. ASSUME NEW r \in Rows, PlainQuery(r) PROVE IInv'
  <2>1. bare' \in BOOLEAN
    BY <1>8, <1>t, Zenon DEF PlainQuery, RunIn, TypeOK
  <2>2. rows[r].finished
    BY <1>8 DEF PlainQuery, IInv, RowsOwnCurrent
  <2> QED BY <1>8, <2>1, <2>2, NoRowsIsFinished, PlainRowsKeep DEF PlainQuery
<1>9. ASSUME NEW r \in Rows, NextEnds(r) PROVE IInv'
  <2> DEFINE s == [rows[r] EXCEPT !.finished = TRUE]
  <2>1. s \in RowsState /\ s.finished
    BY <1>t DEF TypeOK, RowsState
  <2>2. rows' = [rows EXCEPT ![r] = s]
    BY <1>9, <1>t DEF NextEnds, TypeOK
  <2> HIDE DEF s
  <2> QED BY <1>9, <2>1, <2>2, RowsEndKeeps DEF NextEnds
<1>10. ASSUME NEW r \in Rows, Close(r) PROVE IInv'
  <2>1. CASE rows[r].finished
    <3>1. bare' \in BOOLEAN
      BY <1>10, <1>t DEF Close, TypeOK
    <3> QED BY <1>10, <2>1, <3>1, NoRowsIsFinished, PlainRowsKeep DEF Close
  <2>2. CASE ~rows[r].finished
    BY <1>10, <2>2, NoRowsIsFinished, RowsEndKeeps DEF Close
  <2> QED BY <2>1, <2>2
<1>11. CASE UNCHANGED vars
  BY <1>11 DEF vars, connVars, IInv, TypeOK, FlagTracksTransaction,
               EveryTransactionObserved, RowsOwnCurrent, ExplicitIsCurrent
<1> QED
  BY <1>1, <1>2, <1>3, <1>4, <1>5, <1>6, <1>7, <1>8, <1>9, <1>10, <1>11
     DEF Next, Unused

LEMMA IInvHolds == Spec => []IInv
BY InitHolds, StepKeeps, PTL DEF Spec
-----------------------------------------------------------------------------
\* Every variable keeps its type; in particular no transaction is observed
\* that never began.
THEOREM TypeCorrect == Spec => []TypeOK
<1>1. IInv => TypeOK
  BY DEF IInv
<1> QED BY <1>1, IInvHolds, PTL

\* The flag that decides whether a statement gets a transaction of its own is
\* set exactly while a transaction is open on the connection.
THEOREM FlagIsRight == Spec => []FlagTracksTransaction
<1>1. IInv => FlagTracksTransaction
  BY DEF IInv
<1> QED BY <1>1, IInvHolds, PTL

\* Every transaction, explicit or implicit, ended or refused, is observed once.
THEOREM ObservedOnce == Spec => []EveryTransactionObserved
<1>1. IInv => EveryTransactionObserved
  BY DEF IInv
<1> QED BY <1>1, IInvHolds, PTL

\* Rows that end late never end the transaction the caller holds by then.
THEOREM CallerEndsExplicit == Spec => ExplicitEndsByItself
<1>1. IInv /\ IInv' /\ [Next]_vars =>
        [explicit # 0 /\ explicit' = explicit => current' = explicit]_vars
  BY DEF IInv, ExplicitIsCurrent
<1> QED BY <1>1, IInvHolds, PTL DEF Spec, ExplicitEndsByItself
-----------------------------------------------------------------------------
(* The initializer, on drivers whose transactions it reaches.              *)

GuardedDrivers == \A d \in Drivers : d.initializer => d.beginTx

\* What is open on the connection was initialized.
CurrentIsInitialized ==
  driver.initializer => (current # 0 => current \in initialized)

GuardInv == IInv /\ CurrentIsInitialized /\ InitializerGuardsStatements

LEMMA GuardStep ==
  ASSUME GuardedDrivers, GuardInv, [Next]_vars
  PROVE  CurrentIsInitialized' /\ InitializerGuardsStatements'
<1> USE DEF GuardInv, IInv, CurrentIsInitialized, InitializerGuardsStatements
<1>0. driver.initializer => driver.beginTx
  BY DEF TypeOK, GuardedDrivers
<1>1. ASSUME BeginTxFails, UNCHANGED <<driver, bare>>
      PROVE  CurrentIsInitialized' /\ InitializerGuardsStatements'
  BY <1>1 DEF BeginTxFails, connVars
<1>2. ASSUME BeginTxSucceeds
      PROVE  /\ driver.initializer => begun' \in initialized'
             /\ initialized \subseteq initialized'
  BY <1>2, <1>0 DEF BeginTxSucceeds, RunsInitializer
<1>3. CASE Begin
  BY <1>3, <1>2 DEF Begin
<1>4. CASE BeginFailed \/ ImplicitFailed
  BY <1>4, <1>1 DEF BeginFailed, ImplicitFailed
<1>5. CASE End
  BY <1>5 DEF End, FinishTx
<1>6. CASE ImplicitExec
  <2>1. CurrentIsInitialized'
    BY <1>6 DEF ImplicitExec
  <2>2. driver.initializer => begun' \in initialized'
    BY <1>6, <1>2 DEF ImplicitExec
  <2>3. InitializerGuardsStatements'
    BY <1>6, <2>2, Zenon DEF ImplicitExec, RunIn
  <2> QED BY <2>1, <2>3
<1>p. ASSUME ~Implicit, RunIn(current, initialized)
      PROVE  InitializerGuardsStatements'
  BY <1>p DEF RunIn, Implicit, FlagTracksTransaction
<1>7. CASE PlainExec
  BY <1>7, <1>p DEF PlainExec, connVars
<1>8. ASSUME NEW r \in Rows, ImplicitQuery(r)
      PROVE  CurrentIsInitialized' /\ InitializerGuardsStatements'
  BY <1>8, <1>2 DEF ImplicitQuery, RunIn
<1>9. ASSUME NEW r \in Rows, PlainQuery(r)
      PROVE  CurrentIsInitialized' /\ InitializerGuardsStatements'
  BY <1>9, <1>p DEF PlainQuery, connVars
<1>10. ASSUME NEW r \in Rows, NextEnds(r) \/ Close(r)
       PROVE  CurrentIsInitialized' /\ InitializerGuardsStatements'
  BY <1>10 DEF NextEnds, Close, FinishTx, connVars
<1>11. CASE UNCHANGED vars
  BY <1>11 DEF vars, connVars
<1> QED
  BY <1>3, <1>4, <1>5, <1>6, <1>7, <1>8, <1>9, <1>10, <1>11 DEF Next, Unused

\* "TransactionInitializer runs on the physical connection immediately after a
\* transaction begins": on drivers with ConnBeginTx no statement, direct or in
\* a transaction, runs without it.  The fallback to Begin needs the assumption.
THEOREM NothingRunsBare ==
  ASSUME GuardedDrivers
  PROVE  Spec => []InitializerGuardsStatements
<1>1. Init => GuardInv
  BY InitHolds
     DEF GuardInv, Init, CurrentIsInitialized, InitializerGuardsStatements
<1>2. GuardInv /\ [Next]_vars => GuardInv'
  BY GuardStep, StepKeeps DEF GuardInv
<1>3. GuardInv => InitializerGuardsStatements
  BY DEF GuardInv
<1> QED BY <1>1, <1>2, <1>3, PTL DEF Spec
=============================================================================
