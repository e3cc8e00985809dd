------------------------------ MODULE ObservedConn ------------------------------
(***************************************************************************)
(* One connection of the observed SQL driver (telemetry/sql_driver.go):    *)
(* transactions of the caller, the transactions the driver opens by itself *)
(* around statements outside one when an initializer is configured, and    *)
(* the rows that keep such a transaction open until they end.              *)
(*                                                                         *)
(* database/sql serialises the calls on a connection, so each driver call  *)
(* is one step; but a caller that holds a sql.Conn may have several rows   *)
(* open and run statements between them.  The wrapped driver is external:  *)
(* any call may fail, a begin inside a transaction is refused, and Commit  *)
(* and Rollback end the transaction that is open on the connection.        *)
(***************************************************************************)
EXTENDS Integers, FiniteSets

CONSTANTS
  Drivers,  (* connections to start from                                    *)
  Rows,     (* rows the caller may hold at once                             *)
  MaxTx     (* bound: transactions begun                                    *)

\* Whether a TransactionInitializer is configured, and the optional
\* interfaces of the wrapped connection and of its prepared statements.
Driver == [initializer : BOOLEAN, beginTx : BOOLEAN, execer : BOOLEAN,
           queryer : BOOLEAN, stmt : BOOLEAN]

ASSUME DriversAssumption == Drivers \subseteq Driver
ASSUME MaxTxAssumption == MaxTx \in Nat

VARIABLES
  driver,        (* the connection's configuration                          *)
  inTransaction, (* the flag of observedConn                                *)
  current,       (* the transaction open on the connection, 0: none         *)
  explicit,      (* the transaction the caller holds, 0: none               *)
  rows,          (* what each rows object is: see RowsState                 *)
  begun,         (* transactions begun or refused                           *)
  observed,      (* calls of ObserveTransaction                             *)
  initialized,   (* history: transactions whose initializer succeeded       *)
  bare           (* history: a statement ran without the initializer        *)

connVars == <<inTransaction, current>>
vars == <<driver, connVars, explicit, rows, begun, observed, initialized,
          bare>>

\* No rows, rows without a transaction of their own, or
\* observedTransactionRows of transaction tx.
RowsState ==
  [tx : 0..MaxTx, finished : BOOLEAN, open : BOOLEAN]
NoRows    == [tx |-> 0, finished |-> TRUE, open |-> FALSE]
PlainRows == [tx |-> 0, finished |-> TRUE, open |-> TRUE]
TxRows(t) == [tx |-> t, finished |-> FALSE, open |-> TRUE]

TypeOK ==
  /\ driver \in Drivers
  /\ inTransaction \in BOOLEAN
  /\ current \in 0..MaxTx
  /\ explicit \in 0..MaxTx
  /\ rows \in [Rows -> RowsState]
  /\ begun \in 0..MaxTx
  /\ observed \in 0..MaxTx
  /\ initialized \subseteq 1..MaxTx
  /\ bare \in BOOLEAN

Init ==
  /\ driver \in Drivers
  /\ inTransaction = FALSE /\ current = 0 /\ explicit = 0
  /\ rows = [r \in Rows |-> NoRows]
  /\ begun = 0 /\ observed = 0
  /\ initialized = {} /\ bare = FALSE
-----------------------------------------------------------------------------
(* BeginTx.                                                                *)

\* Whether BeginTx runs the initializer: the fallback to Begin does not.
RunsInitializer == driver.initializer /\ driver.beginTx

CountBegin == begun < MaxTx /\ begun' = begun + 1

\* The driver refuses, or the transaction began and is rolled back because
\* the initializer failed or has no ExecerContext to run on.
BeginTxFails ==
  /\ CountBegin
  /\ observed' = observed + 1
  /\ \/ UNCHANGED connVars
     \/ /\ current = 0
        /\ RunsInitializer
        /\ inTransaction' = FALSE /\ UNCHANGED current
  /\ UNCHANGED initialized

\* The driver began a transaction and the initializer, if it runs, is done.
BeginTxSucceeds ==
  /\ CountBegin
  /\ current = 0
  /\ RunsInitializer => driver.execer
  /\ initialized' = IF RunsInitializer THEN initialized \cup {begun'}
                    ELSE initialized

\* A begin of the caller.
BeginFailed ==
  /\ BeginTxFails
  /\ UNCHANGED <<driver, explicit, rows, bare>>

Begin ==
  /\ explicit = 0
  /\ BeginTxSucceeds
  /\ current' = begun' /\ explicit' = begun'
  /\ inTransaction' = TRUE
  /\ UNCHANGED <<driver, rows, observed, bare>>
-----------------------------------------------------------------------------
(* The end of a transaction.                                               *)

\* observedTx.Commit or Rollback for the first time, with or without an
\* error of the driver.
FinishTx ==
  /\ current' = 0
  /\ inTransaction' = FALSE
  /\ observed' = observed + 1

\* A bug to tell apart: the flag is only cleared by a rollback.
CommitKeepsFlag ==
  /\ explicit # 0
  /\ explicit' = 0
  /\ current' = 0
  /\ observed' = observed + 1
  /\ UNCHANGED <<driver, inTransaction, rows, begun, initialized, bare>>

\* Commit or Rollback of the caller's transaction: database/sql lets only
\* the first one through.
End ==
  /\ explicit # 0
  /\ explicit' = 0
  /\ FinishTx
  /\ UNCHANGED <<driver, rows, begun, initialized, bare>>
-----------------------------------------------------------------------------
(* Statements: ExecContext and QueryContext of the connection and of its   *)
(* prepared statements, which database/sql tries next.                     *)

CanExec  == driver.execer \/ driver.stmt
CanQuery == driver.queryer \/ driver.stmt

\* The call opens a transaction of its own.
Implicit == driver.initializer /\ ~inTransaction

\* A statement runs in transaction t, or in none if t = 0; ready is the set
\* of transactions whose initializer succeeded.
RunIn(t, ready) == bare' = (bare \/ (driver.initializer /\ t \notin ready))

\* BeginTx fails, and with it the statement.
ImplicitFailed ==
  /\ Implicit
  /\ BeginTxFails
  /\ UNCHANGED <<driver, explicit, rows, bare>>

\* Begin, execute and commit.  A statement or query that failed or that the
\* driver cannot run (ErrSkip) is rolled back.
ImplicitExec ==
  /\ Implicit
  /\ BeginTxSucceeds
  /\ current' = 0 /\ inTransaction' = FALSE
  /\ observed' = observed + 1
  /\ \/ (CanExec \/ CanQuery) /\ RunIn(begun', initialized')
     \/ UNCHANGED bare
  /\ UNCHANGED <<driver, explicit, rows>>

\* A query whose rows keep the transaction.
ImplicitQuery(r) ==
  /\ ~rows[r].open
  /\ CanQuery
  /\ Implicit
  /\ BeginTxSucceeds
  /\ current' = begun' /\ inTransaction' = TRUE
  /\ RunIn(begun', initialized')
  /\ rows' = [rows EXCEPT ![r] = TxRows(begun')]
  /\ UNCHANGED <<driver, explicit, observed>>

\* The statement runs in what is open on the connection.  Without an
\* explicit transaction that is the transaction of some rows.
PlainExec ==
  /\ ~Implicit
  /\ CanExec
  /\ RunIn(current, initialized)
  /\ UNCHANGED <<driver, connVars, explicit, rows, begun, observed,
                 initialized>>

PlainQuery(r) ==
  /\ ~rows[r].open
  /\ ~Implicit
  /\ CanQuery
  /\ RunIn(current, initialized)
  /\ rows' = [rows EXCEPT ![r] = PlainRows]
  /\ UNCHANGED <<driver, connVars, explicit, begun, observed, initialized>>
-----------------------------------------------------------------------------
(* The end of rows.                                                        *)

\* A bug to tell apart: Close ends the transaction again.
CloseFinishesAgain(r) ==
  /\ rows[r].open
  /\ rows' = [rows EXCEPT ![r] = NoRows]
  /\ IF rows[r].tx # 0 THEN FinishTx
     ELSE UNCHANGED <<connVars, observed>>
  /\ UNCHANGED <<driver, explicit, begun, initialized, bare>>

\* Next reached the end or failed: the rows end their transaction and stay
\* open until Close.
NextEnds(r) ==
  /\ rows[r].open /\ ~rows[r].finished
  /\ rows' = [rows EXCEPT ![r].finished = TRUE]
  /\ FinishTx
  /\ UNCHANGED <<driver, explicit, begun, initialized, bare>>

Close(r) ==
  /\ rows[r].open
  /\ rows' = [rows EXCEPT ![r] = NoRows]
  /\ IF rows[r].finished THEN UNCHANGED <<connVars, observed>> ELSE FinishTx
  /\ UNCHANGED <<driver, explicit, begun, initialized, bare>>
-----------------------------------------------------------------------------
\* The connection goes back to the pool and is used no more.
Unused ==
  /\ begun = MaxTx /\ explicit = 0
  /\ \A r \in Rows : ~rows[r].open
  /\ UNCHANGED vars

Next ==
  \/ Begin \/ BeginFailed \/ End \/ Unused
  \/ ImplicitFailed \/ ImplicitExec \/ PlainExec
  \/ \E r \in Rows :
       ImplicitQuery(r) \/ PlainQuery(r) \/ NextEnds(r) \/ Close(r)

Spec == Init /\ [][Next]_vars
-----------------------------------------------------------------------------
(* Properties.                                                             *)

\* The flag says whether a transaction is open on the connection, so that no
\* statement is wrapped inside a transaction and none escapes the wrapping.
FlagTracksTransaction == inTransaction <=> current # 0

\* Every transaction is observed once: the metrics count each begin that
\* failed and each transaction that ended, and nothing else.
EveryTransactionObserved ==
  begun = observed + (IF current = 0 THEN 0 ELSE 1)

\* The caller's transaction ends by the caller's Commit or Rollback only:
\* rows of an earlier statement that are closed late, or closed twice, do
\* not end it.
ExplicitEndsByItself ==
  [][explicit # 0 /\ explicit' = explicit => current' = explicit]_vars

\* "TransactionInitializer runs on the physical connection immediately after a
\* transaction begins and before database/sql exposes the transaction"
\* (sql_driver.go:28-29): no statement runs without it.
InitializerGuardsStatements == ~bare
=============================================================================
