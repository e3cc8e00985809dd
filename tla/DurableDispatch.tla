---------------------------- MODULE DurableDispatch ----------------------------
(***************************************************************************)
(* WakeableDispatcher with what surrounds it: the owner's durable task     *)
(* table, the lossy hints WakeupBroker.Publish sends after a commit, the   *)
(* claim that execute takes on the task's row, and crashes of the process. *)
(* The claim is the ownership boundary and the recovery query the source   *)
(* of progress (worker/lifecycle.go, worker/wakeup_broker.go).  A claim is *)
(* a lease under a fencing token (worker/contract.go); it runs out by time *)
(* alone, also under an executor that is still at work, which may then     *)
(* finish late, next to the one that claimed the task after it.            *)
(*                                                                         *)
(* The table and its queries live in the consuming service: they are       *)
(* external and modelled by what the worker package relies on.             *)
(***************************************************************************)
EXTENDS WakeableDispatcher

CONSTANT
  MaxFaults     (* bound: failed executions, failed recovery queries,       *)
                (* leases that run out under their holder, and crashes      *)

ASSUME TaskAssumption == IsFiniteSet(Task)
ASSUME MaxFaultsAssumption == MaxFaults \in Nat

VARIABLES
  durable,      (* the state of each task's row                             *)
  unpublished,  (* committed tasks whose hint was not published yet         *)
  version,      (* the fencing token of each row's last claim, 0: none      *)
  held,         (* the token under which each execute works, 0: none        *)
  faults        (* faults so far                                            *)

leaseVars == <<version, held>>
storeVars == <<durable, unpublished, leaseVars, faults>>
allVars == <<vars, storeVars>>

StoreTypeOK ==
  /\ TypeOK
  /\ durable \in [Task -> {"absent", "runnable", "claimed", "done"}]
  /\ unpublished \subseteq Task
  /\ version \in [Task -> Nat]
  /\ held \in [Executor -> Nat]
  /\ faults \in 0..MaxFaults

DInit ==
  /\ Init
  /\ durable = [t \in Task |-> "absent"]
  /\ unpublished = {}
  /\ version = [t \in Task |-> 0]
  /\ held = [e \in Executor |-> 0]
  /\ faults = 0

Fault == faults < MaxFaults /\ faults' = faults + 1

\* A step of the pool that does not touch the table.
Local(A) == A /\ UNCHANGED storeVars

Runnable == {t \in Task : durable[t] = "runnable"}

\* The executors at work on a claimed task.
AtWork(t) == {e \in Executor : held[e] > 0 /\ job[e] = t}

\* A bug to tell apart: ownership is decided by the owner, and the executors
\* of a process share its WorkerID.
MatchesOwner(t, token) == token > 0

\* Lease.Matches: the owner is the same for all executors of the process, so
\* the token tells them apart.
Matches(t, token) == token > 0 /\ version[t] = token

\* The executors whose token the row still has.
Holders(t) == {e \in AtWork(t) : Matches(t, held[e])}
-----------------------------------------------------------------------------
\* A business transaction commits the task's row.
CommitTask(t) ==
  /\ durable[t] = "absent"
  /\ durable' = [durable EXCEPT ![t] = "runnable"]
  /\ unpublished' = unpublished \cup {t}
  /\ UNCHANGED <<vars, leaseVars, faults>>

\* WakeupBroker.Publish: a send that is dropped when the buffer is full.
Publish(t) ==
  /\ t \in unpublished
  /\ unpublished' = unpublished \ {t}
  /\ \/ Offer(t)
     \/ Len(wakeups) >= WakeupBuffer /\ UNCHANGED vars
  /\ UNCHANGED <<durable, leaseVars, faults>>

\* The channel of hints may be closed once nobody will send to it again: a
\* send to a closed channel panics.
CloseHints ==
  /\ unpublished = {}
  /\ \A t \in Task : durable[t] # "absent"
  /\ Local(CloseWakeups)

\* The recovery query returns runnable rows, at most as many as asked for,
\* or all of them when it ignores the limit.
RecoveryQuery(limit) ==
  {items \in UNION {[1..n -> Runnable] : n \in 0..Cardinality(Runnable)} :
     /\ Cardinality({items[i] : i \in DOMAIN items}) = Len(items)
     /\ \/ Len(items) = Cardinality(Runnable)
        \/ Len(items) = limit}

RecoverRunnable ==
  /\ \E items \in RecoveryQuery(Available) : Recovered(items)
  /\ UNCHANGED storeVars

RecoverError ==
  /\ Fault
  /\ RecoverFailed
  /\ UNCHANGED <<durable, unpublished, leaseVars>>

\* execute starts with a compare-and-swap on the row, which allocates the next
\* token.
Claim(e) ==
  /\ exec[e] = "running" /\ held[e] = 0
  /\ durable[job[e]] = "runnable"
  /\ durable' = [durable EXCEPT ![job[e]] = "claimed"]
  /\ version' = [version EXCEPT ![job[e]] = @ + 1]
  /\ held' = [held EXCEPT ![e] = version[job[e]] + 1]
  /\ UNCHANGED <<vars, unpublished, faults>>

\* The row is owned by another executor or already done.
ClaimRefused(e) ==
  /\ held[e] = 0
  /\ job[e] \in Task
  /\ durable[job[e]] # "runnable"
  /\ ExecuteReturns(e)
  /\ UNCHANGED storeVars

\* execute returns, and the executor's token is gone with it.
Release(e) ==
  /\ held[e] > 0
  /\ ExecuteReturns(e)
  /\ held' = [held EXCEPT ![e] = 0]
  /\ UNCHANGED version

\* The terminal compare-and-swap: it finishes the row, also one whose lease ran
\* out and that nobody claimed since.
Succeed(e) ==
  /\ Matches(job[e], held[e])
  /\ Release(e)
  /\ durable' = [durable EXCEPT ![job[e]] = "done"]
  /\ UNCHANGED <<unpublished, faults>>

\* It finds the token of a later claim: nothing is written.
Fenced(e) ==
  /\ ~Matches(job[e], held[e])
  /\ Release(e)
  /\ UNCHANGED <<durable, unpublished, faults>>

\* execute returns early or panics: the row keeps its lease until it expires.
Fail(e) ==
  /\ Fault
  /\ Release(e)
  /\ UNCHANGED <<durable, unpublished>>

\* The lease runs out: after a failure or a crash nobody works under it any
\* more; a live holder that renews it too late goes on working.
LeaseExpires(t) ==
  /\ durable[t] = "claimed"
  /\ durable' = [durable EXCEPT ![t] = "runnable"]
  /\ IF Holders(t) = {} THEN UNCHANGED faults ELSE Fault
  /\ UNCHANGED <<vars, unpublished, leaseVars>>

\* The process dies and is started again: goroutines, channels and hints are
\* lost, rows stay.
Crash ==
  /\ Fault
  /\ ~ctxDone /\ UNCHANGED ctxDone
  /\ pc' = "recover" /\ batch' = <<>> /\ inFlight' = 0
  /\ wakeups' = <<>> /\ wakeupState' = "open"
  /\ jobs' = <<>> /\ completed' = 0
  /\ exec' = [e \in Executor |-> "idle"]
  /\ job' = [e \in Executor |-> NoTask]
  /\ held' = [e \in Executor |-> 0] /\ unpublished' = {}
  /\ UNCHANGED <<durable, version>>
-----------------------------------------------------------------------------
Dispatcher ==
  \/ RecoverRunnable \/ RecoverError
  \/ Local(RecoverSkipped) \/ Local(SendJob) \/ Local(SendDone)
  \/ Local(Select) \/ Local(CloseDone)

Executing(e) ==
  \/ Claim(e) \/ ClaimRefused(e) \/ Succeed(e) \/ Fenced(e) \/ Fail(e)
  \/ Local(TakeJob(e)) \/ Local(Report(e)) \/ Local(ExecutorExit(e))

DNext ==
  \/ Dispatcher
  \/ \E e \in Executor : Executing(e)
  \/ \E t \in Task : CommitTask(t) \/ Publish(t) \/ LeaseExpires(t)
  \/ Local(Cancel) \/ CloseHints \/ Local(Stopped)
  \/ Crash

(***************************************************************************)
(* Go runs every runnable goroutine eventually (weak fairness of each      *)
(* goroutine) and a select picks at random among its ready cases: it does  *)
(* not ignore cancellation, the recovery timer or a completion for ever    *)
(* (strong fairness of these cases).  execute and recover are assumed to   *)
(* return, and a lease that nobody renews any more to run out.  Nothing is *)
(* assumed of a lease with a live holder, nor of the hints: Publish may    *)
(* never happen.                                                           *)
(***************************************************************************)
DSpec ==
  /\ DInit /\ [][DNext]_allVars
  /\ WF_allVars(Dispatcher)
  /\ SF_allVars(Local(SelectCtxDone))
  /\ SF_allVars(Local(SelectTimer)) /\ SF_allVars(Local(SelectCompleted))
  /\ \A e \in Executor : WF_allVars(Executing(e))
  /\ \A t \in Task : WF_allVars(Holders(t) = {} /\ LeaseExpires(t))
-----------------------------------------------------------------------------
\* The table as its owner sees it, without tokens: who is at work on a task,
\* and to whom it was given last.
atWork == [t \in Task |-> AtWork(t)]
holder == [t \in Task |-> Holders(t)]

Table == INSTANCE TaskTable WITH
  Worker <- Executor, row <- durable, runner <- atWork, holder <- holder

\* Durable dispatch keeps the promise of TaskTable, through hints that queue a
\* task again, claims that are refused, crashes, and leases that run out under
\* an executor that finishes late (contract.go:27-49): only the executor that
\* claimed the task last finishes it, and only once.
ServesTable == Table!Spec

\* No two executors work on a task under one token, although a hint and a
\* recovery pass may both have queued it: while a lease has not run out its
\* holder works alone with it, and once a task is done the token of whoever
\* is still at work on it is stale.
ExclusiveHolding ==
  \A t \in Task :
    /\ \A d, e \in AtWork(t) : held[d] = held[e] => d = e
    /\ \A e \in AtWork(t) : held[e] <= version[t]
    /\ durable[t] \in {"absent", "done"} => Holders(t) = {}

\* Every committed task is eventually done unless the pool is cancelled,
\* although its hint may be lost, its execution may fail and the process may
\* crash while it is queued or running.
CommittedTasksGetDone ==
  \A t \in Task : durable[t] = "runnable" ~> (durable[t] = "done" \/ ctxDone)
=============================================================================
