------------------------ MODULE DurableDispatch_proofs ------------------------
(***************************************************************************)
(* Safety of WakeableDispatcher for every pool size, task set and wakeup   *)
(* buffer, and of DurableDispatch around it: crashes restart the pool, and *)
(* the claim on a row keeps a task with one executor.                      *)
(***************************************************************************)
EXTENDS DurableDispatch, FiniteSetTheorems, TLAPS

\* What the dispatcher holds fits the pool, and it holds nothing outside of
\* its send loop: the reason why sends never block.
BatchFits ==
  /\ inFlight <= Concurrency
  /\ pc = "send" => inFlight + Len(batch) <= Concurrency
  /\ pc # "send" => batch = <<>>

\* An executor leaves only a closed and drained channel, and the dispatcher
\* closes done only after all of them.
ExitsAreFinal ==
  /\ \A e \in Executor : exec[e] = "exited" => JobsClosed /\ jobs = <<>>
  /\ pc = "done" => \A e \in Executor : exec[e] = "exited"

\* A busy executor holds a task.
BusyHasJob == \A e \in Busy : job[e] \in Task

IInv == TypeOK /\ SlotsAccounted /\ BatchFits /\ ExitsAreFinal /\ BusyHasJob

\* A step of the pool whatever the recovery query returns, RecoverResult or
\* what RecoveryQuery finds in the table.
PoolStep == Next \/ \E items \in Seq(Task) : Recovered(items)
-----------------------------------------------------------------------------
(* Counting executors.                                                     *)

\* Busy is a set of executors, so it is finite.
LEMMA BusyFinite ==
  IsFiniteSet(Busy) /\ Cardinality(Busy) \in Nat
<1>1. IsFiniteSet(Executor)
  BY FS_Interval, ConcurrencyAssumption DEF Executor
<1>2. Busy \subseteq Executor
  BY DEF Busy
<1> QED
  BY <1>1, <1>2, FS_Subset, FS_CardinalityType

\* An executor that takes a job is one more busy executor.
LEMMA BusyGrows ==
  ASSUME NEW e \in Executor, TypeOK,
         exec[e] = "idle", NEW s \in {"running", "report"},
         exec' = [exec EXCEPT ![e] = s]
  PROVE  Cardinality(Busy') = Cardinality(Busy) + 1
<1>1. Busy' = Busy \cup {e}
  BY DEF Busy, TypeOK
<1>2. e \notin Busy
  BY DEF Busy
<1> QED
  BY <1>1, <1>2, BusyFinite, FS_AddElement

\* An executor that reports is one busy executor less.
LEMMA BusyShrinks ==
  ASSUME NEW e \in Executor, TypeOK,
         exec[e] = "report",
         exec' = [exec EXCEPT ![e] = "idle"]
  PROVE  /\ Cardinality(Busy') = Cardinality(Busy) - 1
         /\ Cardinality(Busy) >= 1
<1>1. Busy' = Busy \ {e}
  BY DEF Busy, TypeOK
<1>2. e \in Busy
  BY DEF Busy
<1>3. Cardinality(Busy) # 0
  BY <1>2, BusyFinite, FS_EmptySet
<1> QED
  BY <1>1, <1>2, <1>3, BusyFinite, FS_RemoveElement

\* A busy executor is counted.
LEMMA BusyCounts ==
  ASSUME NEW e \in Busy
  PROVE  Cardinality(Busy) >= 1
<1>1. Cardinality(Busy) # 0
  BY BusyFinite, FS_EmptySet
<1> QED
  BY <1>1, BusyFinite

\* Whatever recover returns, the dispatcher keeps at most what fits.
LEMMA TruncateFits ==
  ASSUME inFlight \in Nat, Available > 0, NEW items \in Seq(Task)
  PROVE  /\ Truncate(items) \in Seq(Task)
         /\ inFlight + Len(Truncate(items)) <= Concurrency
<1>2. Len(items) \in Nat
  OBVIOUS
<1>3. CASE Len(items) > Available
  BY <1>2, <1>3, ConcurrencyAssumption DEF Truncate, Available
<1>4. CASE ~(Len(items) > Available)
  BY <1>2, <1>4, ConcurrencyAssumption DEF Truncate, Available
<1> QED
  BY <1>3, <1>4
-----------------------------------------------------------------------------
(* The inductive invariant.                                                *)

\* The pool starts with nothing in flight and nothing busy.
LEMMA InitIInv == Init => IInv
<1> SUFFICES ASSUME Init PROVE IInv
  OBVIOUS
<1> USE DEF Init
<1>1. Busy = {}
  BY DEF Busy
<1>2. SlotsAccounted
  BY <1>1, FS_EmptySet DEF SlotsAccounted
<1>3. TypeOK
  BY ConcurrencyAssumption, WakeupBufferAssumption DEF TypeOK
<1>4. BatchFits
  BY ConcurrencyAssumption DEF BatchFits
<1>5. ExitsAreFinal
  BY DEF ExitsAreFinal, JobsClosed
<1>6. BusyHasJob
  BY <1>1 DEF BusyHasJob
<1> QED
  BY <1>2, <1>3, <1>4, <1>5, <1>6 DEF IInv

\* Each step preserves the invariant.  An action of the dispatcher moves work
\* between batch, jobs, completed and inFlight; one of an executor moves it
\* between jobs, Busy and completed.
LEMMA PoolStepIInv == IInv /\ [PoolStep]_vars => IInv'
<1> SUFFICES ASSUME IInv, [PoolStep]_vars PROVE IInv'
  OBVIOUS
<1> USE ConcurrencyAssumption, WakeupBufferAssumption, BusyFinite
<1>0. TypeOK /\ SlotsAccounted /\ BatchFits /\ ExitsAreFinal /\ BusyHasJob
  BY DEF IInv
<1>1. ASSUME UNCHANGED executorVars PROVE Busy' = Busy /\ BusyHasJob'
  BY <1>0, <1>1 DEF Busy, executorVars, BusyHasJob
<1>2. CASE Cancel
  <2> USE <1>2 DEF Cancel, dispatcherVars, executorVars
  <2>1. TypeOK'
    BY <1>0 DEF TypeOK
  <2>2. SlotsAccounted'
    BY <1>0, <1>1 DEF SlotsAccounted
  <2>3. BatchFits' /\ ExitsAreFinal'
    BY <1>0 DEF BatchFits, ExitsAreFinal, JobsClosed
  <2> QED BY <1>1, <2>1, <2>2, <2>3 DEF IInv
<1>3. CASE CloseWakeups
  <2> USE <1>3 DEF CloseWakeups, dispatcherVars, executorVars
  <2>1. TypeOK'
    BY <1>0 DEF TypeOK
  <2>2. SlotsAccounted'
    BY <1>0, <1>1 DEF SlotsAccounted
  <2>3. BatchFits' /\ ExitsAreFinal'
    BY <1>0 DEF BatchFits, ExitsAreFinal, JobsClosed
  <2> QED BY <1>1, <2>1, <2>2, <2>3 DEF IInv
<1>4. ASSUME NEW t \in Task, Offer(t) PROVE IInv'
  <2> USE <1>4 DEF Offer, dispatcherVars, executorVars
  <2>1. TypeOK'
    BY <1>0 DEF TypeOK
  <2>2. SlotsAccounted'
    BY <1>0, <1>1 DEF SlotsAccounted
  <2>3. BatchFits' /\ ExitsAreFinal'
    BY <1>0 DEF BatchFits, ExitsAreFinal, JobsClosed
  <2> QED BY <1>1, <2>1, <2>2, <2>3 DEF IInv
<1>5. CASE RecoverSkipped \/ RecoverFailed \/ SendDone \/ SelectTimer
             \/ SelectCtxDone \/ CloseDone
  <2> USE <1>5 DEF RecoverSkipped, RecoverFailed, SendDone, SelectTimer,
                   SelectCtxDone, CloseDone, executorVars
  <2>1. TypeOK'
    BY <1>0 DEF TypeOK
  <2>2. SlotsAccounted'
    BY <1>0, <1>1 DEF SlotsAccounted
  <2>3. BatchFits'
    BY <1>0 DEF BatchFits
  <2>4. ExitsAreFinal'
    BY <1>0 DEF ExitsAreFinal, JobsClosed
  <2> QED BY <1>1, <2>1, <2>2, <2>3, <2>4 DEF IInv
<1>6. ASSUME NEW items \in Seq(Task), Recovered(items) PROVE IInv'
  <2> USE <1>6 DEF Recovered, executorVars
  <2>1. Truncate(items) \in Seq(Task) /\ inFlight + Len(Truncate(items)) <= Concurrency
    BY <1>0, TruncateFits DEF TypeOK
  <2>2. TypeOK'
    BY <1>0, <2>1 DEF TypeOK
  <2>3. SlotsAccounted'
    BY <1>0, <1>1 DEF SlotsAccounted
  <2>4. BatchFits'
    BY <1>0, <2>1 DEF BatchFits
  <2>5. ExitsAreFinal'
    BY <1>0 DEF ExitsAreFinal, JobsClosed
  <2> QED BY <1>1, <2>2, <2>3, <2>4, <2>5 DEF IInv
<1>7. CASE SendJob
  <2> USE <1>7 DEF SendJob, executorVars
  <2>1. /\ batch \in Seq(Task) /\ batch # <<>> /\ jobs \in Seq(Task)
        /\ Head(batch) \in Task /\ Tail(batch) \in Seq(Task)
        /\ Len(Tail(batch)) = Len(batch) - 1 /\ Len(batch) \in Nat
        /\ Len(jobs') = Len(jobs) + 1 /\ Len(jobs) \in Nat
    BY <1>0 DEF TypeOK
  <2>2. TypeOK'
    BY <1>0, <2>1 DEF TypeOK
  <2>3. SlotsAccounted'
    BY <1>0, <1>1, <2>1 DEF SlotsAccounted, TypeOK
  <2>4. BatchFits'
    BY <1>0, <2>1 DEF BatchFits, TypeOK
  <2>5. ExitsAreFinal'
    BY <1>0 DEF ExitsAreFinal, JobsClosed
  <2> QED BY <1>1, <2>2, <2>3, <2>4, <2>5 DEF IInv
<1>8. CASE SelectWakeup
  <2> USE <1>8 DEF SelectWakeup, InputOpen, executorVars
  <2>1. /\ Head(wakeups) \in Task /\ Tail(wakeups) \in Seq(Task)
        /\ Len(Tail(wakeups)) <= WakeupBuffer
    BY <1>0 DEF TypeOK
  <2>2. TypeOK'
    BY <1>0, <2>1 DEF TypeOK
  <2>3. SlotsAccounted'
    BY <1>0, <1>1 DEF SlotsAccounted
  <2>4. BatchFits'
    BY <1>0, <2>1 DEF BatchFits, TypeOK
  <2>5. ExitsAreFinal'
    BY <1>0 DEF ExitsAreFinal, JobsClosed
  <2> QED BY <1>1, <2>2, <2>3, <2>4, <2>5 DEF IInv
<1>9. CASE SelectWakeupsClosed
  <2> USE <1>9 DEF SelectWakeupsClosed, dispatcherVars, executorVars
  <2>1. TypeOK'
    BY <1>0 DEF TypeOK
  <2>2. SlotsAccounted'
    BY <1>0, <1>1 DEF SlotsAccounted
  <2>3. BatchFits' /\ ExitsAreFinal'
    BY <1>0 DEF BatchFits, ExitsAreFinal, JobsClosed
  <2> QED BY <1>1, <2>1, <2>2, <2>3 DEF IInv
<1>10. CASE SelectCompleted
  <2> USE <1>10 DEF SelectCompleted, executorVars
  <2>1. inFlight - 1 \in Nat
    BY <1>0 DEF SlotsAccounted, TypeOK
  <2>2. TypeOK'
    BY <1>0, <2>1 DEF TypeOK
  <2>3. SlotsAccounted'
    BY <1>0, <1>1 DEF SlotsAccounted, TypeOK
  <2>4. BatchFits' /\ ExitsAreFinal'
    BY <1>0, <2>1 DEF BatchFits, ExitsAreFinal, JobsClosed, TypeOK
  <2> QED BY <1>1, <2>2, <2>3, <2>4 DEF IInv
<1>11. ASSUME NEW e \in Executor, TakeJob(e) PROVE IInv'
  <2> USE <1>11 DEF TakeJob, dispatcherVars
  <2>1. /\ Head(jobs) \in Task /\ Tail(jobs) \in Seq(Task)
        /\ Len(jobs') = Len(jobs) - 1 /\ Len(jobs) \in Nat
    BY <1>0 DEF TypeOK
  <2>2. TypeOK'
    BY <1>0, <2>1 DEF TypeOK
  <2>3. Cardinality(Busy') = Cardinality(Busy) + 1
    BY <1>0, BusyGrows
  <2>4. SlotsAccounted'
    BY <1>0, <2>1, <2>3 DEF SlotsAccounted, TypeOK
  <2>5. BatchFits' /\ ExitsAreFinal'
    BY <1>0 DEF BatchFits, ExitsAreFinal, JobsClosed, TypeOK
  <2>9. BusyHasJob'
    BY <1>0 DEF BusyHasJob, Busy, TypeOK
  <2> QED BY <2>2, <2>4, <2>5, <2>9 DEF IInv
<1>12. ASSUME NEW e \in Executor, ExecuteReturns(e) PROVE IInv'
  <2> USE <1>12 DEF ExecuteReturns, dispatcherVars
  <2>1. TypeOK'
    BY <1>0 DEF TypeOK
  <2>2. Busy' = Busy
    BY <1>0 DEF Busy, TypeOK
  <2>3. SlotsAccounted'
    BY <1>0, <2>2 DEF SlotsAccounted
  <2>4. BatchFits' /\ ExitsAreFinal'
    BY <1>0 DEF BatchFits, ExitsAreFinal, JobsClosed, TypeOK
  <2>9. BusyHasJob'
    BY <1>0 DEF BusyHasJob, Busy, TypeOK
  <2> QED BY <2>1, <2>3, <2>4, <2>9 DEF IInv
<1>13. ASSUME NEW e \in Executor, Report(e) PROVE IInv'
  <2> USE <1>13 DEF Report, dispatcherVars
  <2>1. TypeOK'
    BY <1>0 DEF TypeOK
  <2>2. Cardinality(Busy') = Cardinality(Busy) - 1
    BY <1>0, BusyShrinks
  <2>3. SlotsAccounted'
    BY <1>0, <2>2 DEF SlotsAccounted, TypeOK
  <2>4. BatchFits' /\ ExitsAreFinal'
    BY <1>0 DEF BatchFits, ExitsAreFinal, JobsClosed, TypeOK
  <2>9. BusyHasJob'
    BY <1>0 DEF BusyHasJob, Busy, TypeOK
  <2> QED BY <2>1, <2>3, <2>4, <2>9 DEF IInv
<1>14. ASSUME NEW e \in Executor, ExecutorExit(e) PROVE IInv'
  <2> USE <1>14 DEF ExecutorExit, dispatcherVars
  <2>1. TypeOK'
    BY <1>0 DEF TypeOK
  <2>2. Busy' = Busy
    BY <1>0 DEF Busy, TypeOK
  <2>3. SlotsAccounted'
    BY <1>0, <2>2 DEF SlotsAccounted
  <2>4. BatchFits' /\ ExitsAreFinal'
    BY <1>0 DEF BatchFits, ExitsAreFinal, JobsClosed, TypeOK
  <2>9. BusyHasJob'
    BY <1>0 DEF BusyHasJob, Busy, TypeOK
  <2> QED BY <2>1, <2>3, <2>4, <2>9 DEF IInv
<1>15. CASE UNCHANGED vars
  <2> USE <1>15 DEF vars, dispatcherVars, executorVars
  <2>1. Busy' = Busy
    BY DEF Busy
  <2> QED
    BY <1>0, <1>1, <2>1 DEF IInv, TypeOK, SlotsAccounted, BatchFits, ExitsAreFinal,
                     JobsClosed
<1>16. RecoverResult \subseteq Seq(Task)
  BY DEF RecoverResult
<1> QED
  BY <1>2, <1>3, <1>4, <1>5, <1>6, <1>7, <1>8, <1>9, <1>10, <1>11, <1>12,
     <1>13, <1>14, <1>15, <1>16
  DEF PoolStep, Next, Dispatch, Select, Environment, Execute, Stopped
-----------------------------------------------------------------------------
(* The theorems.                                                           *)

\* The invariant holds in every reachable state.
THEOREM Invariance == Spec => []IInv
<1>1. IInv /\ [Next]_vars => IInv'
  BY PoolStepIInv DEF PoolStep
<1> QED BY <1>1, InitIInv, PTL DEF Spec

\* Every variable of the pool keeps its type; in particular neither buffered
\* channel ever holds more than Concurrency items.
THEOREM TypeCorrect == Spec => []TypeOK
<1>1. IInv => TypeOK
  BY DEF IInv
<1> QED BY <1>1, Invariance, PTL

\* inFlight is the number of jobs queued, held or reported and not counted:
\* the pool loses no slot (lifecycle.go:306-385).
THEOREM NoSlotIsLost == Spec => []SlotsAccounted
<1>1. IInv => SlotsAccounted
  BY DEF IInv
<1> QED BY <1>1, Invariance, PTL

\* Neither the dispatcher nor an executor ever waits on a full channel, so
\* shutdown cannot be stuck behind a send.
THEOREM NoSendBlocks == Spec => []SendsNeverBlock
<1>1. IInv => SendsNeverBlock
  <2> SUFFICES ASSUME IInv PROVE SendsNeverBlock
    OBVIOUS
  <2> USE ConcurrencyAssumption, BusyFinite
  <2>1. TypeOK /\ SlotsAccounted /\ BatchFits
    BY DEF IInv
  <2>2. ASSUME pc = "send", batch # <<>> PROVE Len(jobs) < Concurrency
    <3>1. Len(batch) \in Nat /\ Len(batch) >= 1 /\ Len(jobs) \in Nat
      BY <2>1, <2>2 DEF TypeOK
    <3> QED
      BY <2>1, <2>2, <3>1 DEF TypeOK, SlotsAccounted, BatchFits
  <2>3. ASSUME NEW e \in Executor, exec[e] = "report"
        PROVE  completed < Concurrency
    <3>1. Cardinality(Busy) >= 1
      BY <2>3, BusyCounts DEF Busy
    <3>2. Len(jobs) \in Nat
      BY <2>1 DEF TypeOK
    <3> QED
      BY <2>1, <3>1, <3>2 DEF TypeOK, SlotsAccounted, BatchFits
  <2> QED BY <2>2, <2>3 DEF SendsNeverBlock
<1> QED BY <1>1, Invariance, PTL

\* When done is closed, no executor runs and no job is left in the channel:
\* what the owner frees after Join is not in use.
THEOREM DoneIsQuiescent == Spec => []DoneMeansQuiescent
<1>1. IInv => DoneMeansQuiescent
  <2> SUFFICES ASSUME IInv, pc = "done" PROVE DoneMeansQuiescent
    BY DEF DoneMeansQuiescent
  <2>1. \A e \in Executor : exec[e] = "exited"
    BY DEF IInv, ExitsAreFinal
  <2>2. 1 \in Executor
    BY ConcurrencyAssumption DEF Executor
  <2>3. jobs = <<>>
    BY <2>1, <2>2 DEF IInv, ExitsAreFinal
  <2> QED BY <2>1, <2>3 DEF DoneMeansQuiescent
<1> QED BY <1>1, Invariance, PTL
-----------------------------------------------------------------------------
(* The durable table around the pool.                                      *)

\* Whoever works under a token is running a task whose row has that token or a
\* later one; the row of a token that is not stale is not done; and no two
\* executors have one token of a task.
Fencing ==
  \A d \in Executor : held[d] > 0 =>
    /\ exec[d] = "running"
    /\ held[d] <= version[job[d]]
    /\ held[d] = version[job[d]] => durable[job[d]] \in {"runnable", "claimed"}
    /\ \A e \in Executor :
         held[e] > 0 /\ job[e] = job[d] /\ held[e] = held[d] => e = d

DInv == StoreTypeOK /\ IInv /\ Fencing

\* The recovery query returns a list of tasks, whatever it makes of its limit.
LEMMA RecoveryQueryReturnsTasks ==
  ASSUME NEW limit
  PROVE  RecoveryQuery(limit) \subseteq Seq(Task)
<1>1. IsFiniteSet(Runnable) /\ Cardinality(Runnable) \in Nat
  BY TaskAssumption, FS_Subset, FS_CardinalityType DEF Runnable
<1>2. ASSUME NEW items \in RecoveryQuery(limit) PROVE items \in Seq(Task)
  <2>1. PICK n \in 0..Cardinality(Runnable) : items \in [1..n -> Runnable]
    BY <1>2 DEF RecoveryQuery
  <2>2. n \in Nat /\ items \in [1..n -> Task]
    BY <1>1, <2>1 DEF Runnable
  <2> QED BY <2>2
<1> QED BY <1>2

\* Every step around the table is a step of the pool, leaves the pool alone,
\* or restarts it.
LEMMA StepsOfThePool == DNext => [PoolStep]_vars \/ Crash
<1> SUFFICES ASSUME DNext, ~Crash PROVE [PoolStep]_vars
  OBVIOUS
<1> USE DEF PoolStep, Next
<1>1. CASE Dispatcher
  <2>1. CASE RecoverRunnable
    BY <2>1, RecoveryQueryReturnsTasks DEF RecoverRunnable
  <2>2. CASE RecoverError
    BY <2>2 DEF RecoverError, Dispatch
  <2> QED BY <1>1, <2>1, <2>2 DEF Dispatcher, Local, Dispatch
<1>2. ASSUME NEW e \in Executor, Executing(e) PROVE [PoolStep]_vars
  BY <1>2 DEF Executing, Local, Execute, Claim, ClaimRefused, Succeed, Fenced, Fail,
         Release
<1>3. ASSUME NEW t \in Task, CommitTask(t) \/ Publish(t) \/ LeaseExpires(t)
      PROVE  [PoolStep]_vars
  BY <1>3 DEF CommitTask, Publish, LeaseExpires, Environment
<1>4. CASE Local(Cancel) \/ CloseHints \/ Local(Stopped)
  BY <1>4 DEF Local, CloseHints, Environment
<1> QED BY <1>1, <1>2, <1>3, <1>4 DEF DNext

\* A crash puts the pool back to where it started.
LEMMA CrashRestarts == TypeOK /\ Crash => IInv'
<1> SUFFICES ASSUME TypeOK, Crash PROVE IInv'
  OBVIOUS
<1> USE DEF Crash
<1>1. Busy' = {}
  BY DEF Busy
<1>2. SlotsAccounted'
  BY <1>1, FS_EmptySet DEF SlotsAccounted
<1>3. TypeOK'
  BY ConcurrencyAssumption, WakeupBufferAssumption DEF TypeOK
<1>4. BatchFits'
  BY ConcurrencyAssumption DEF BatchFits
<1>5. ExitsAreFinal'
  BY DEF ExitsAreFinal
<1>6. BusyHasJob'
  BY <1>1 DEF BusyHasJob
<1> QED
  BY <1>2, <1>3, <1>4, <1>5, <1>6 DEF IInv

\* The pool's own invariant survives every step around the table.
LEMMA PoolInvSurvives == IInv /\ [DNext]_allVars => IInv'
<1>1. UNCHANGED allVars => UNCHANGED vars
  BY DEF allVars
<1> QED BY <1>1, StepsOfThePool, CrashRestarts, PoolStepIInv DEF IInv

\* The service starts with no claim and no row.
LEMMA DInitInv == DInit => DInv
<1> SUFFICES ASSUME DInit PROVE DInv
  OBVIOUS
<1>1. IInv
  BY InitIInv DEF DInit
<1>2. StoreTypeOK
  BY <1>1, MaxFaultsAssumption DEF StoreTypeOK, DInit, IInv
<1>3. Fencing
  BY DEF Fencing, DInit
<1> QED BY <1>1, <1>2, <1>3 DEF DInv

\* A fault keeps its count within the bound.
LEMMA FaultCounts == faults \in 0..MaxFaults /\ Fault => faults' \in 0..MaxFaults
BY MaxFaultsAssumption DEF Fault

\* Each step preserves the invariant.  A claim allocates a token no executor
\* has; a lease that runs out leaves its token with the row and its holder; only
\* the holder of the row's own token finishes it, and loses that token.
LEMMA DNextInv == DInv /\ [DNext]_allVars => DInv'
<1> SUFFICES ASSUME DInv, [DNext]_allVars PROVE DInv'
  OBVIOUS
<1>0. StoreTypeOK /\ TypeOK /\ BusyHasJob /\ Fencing
  BY DEF DInv, IInv
<1>1. IInv' /\ TypeOK'
  BY PoolInvSurvives DEF DInv, IInv
<1>2. \A e \in Executor : held[e] \in Nat /\ (held[e] > 0 => job[e] \in Task)
  BY <1>0 DEF StoreTypeOK, Fencing, BusyHasJob, Busy
<1>3. \A t \in Task : version[t] \in Nat
  BY <1>0 DEF StoreTypeOK
<1> USE DEF DInv
<1>4. ASSUME UNCHANGED <<version, held>>, StoreTypeOK',
             \A e \in Executor : held[e] > 0 =>
               exec'[e] = exec[e] /\ job'[e] = job[e],
             \A t \in Task : durable[t] \in {"runnable", "claimed"} =>
               durable'[t] \in {"runnable", "claimed"}
      PROVE  DInv'
  <2>1. Fencing'
    BY <1>0, <1>2, <1>4 DEF Fencing
  <2> QED BY <1>1, <1>4, <2>1
<1>5. ASSUME UNCHANGED storeVars,
             \A e \in Executor : held[e] > 0 =>
               exec'[e] = exec[e] /\ job'[e] = job[e]
      PROVE  DInv'
  <2>1. StoreTypeOK'
    BY <1>0, <1>1, <1>5 DEF StoreTypeOK, storeVars, leaseVars
  <2> QED BY <1>4, <1>5, <2>1 DEF storeVars, leaseVars
<1>6. CASE RecoverRunnable \/ Local(RecoverSkipped) \/ Local(SendJob)
             \/ Local(SendDone) \/ Local(Select) \/ Local(CloseDone)
             \/ Local(Cancel) \/ CloseHints \/ Local(Stopped)
  BY <1>5, <1>6
  DEF RecoverRunnable, Recovered, Local, RecoverSkipped, SendJob, SendDone,
      Select, SelectWakeup, SelectWakeupsClosed, SelectCompleted, SelectTimer,
      SelectCtxDone, CloseDone, Cancel, CloseHints, CloseWakeups, Stopped, vars,
      executorVars
<1>7. CASE RecoverError
  <2> USE <1>7 DEF RecoverError, RecoverFailed, executorVars, leaseVars
  <2>1. StoreTypeOK'
    BY <1>0, <1>1, FaultCounts DEF StoreTypeOK
  <2> QED BY <1>4, <2>1
<1>8. ASSUME NEW e \in Executor,
             Local(TakeJob(e)) \/ Local(Report(e)) \/ Local(ExecutorExit(e))
                \/ ClaimRefused(e)
      PROVE  DInv'
  <2> USE <1>8 DEF Local, TakeJob, Report, ExecutorExit, ClaimRefused,
                   ExecuteReturns
  <2>1. ~(held[e] > 0)
    BY <1>0, <1>2 DEF Fencing
  <2>2. UNCHANGED storeVars
    OBVIOUS
  <2>3. \A d \in Executor : held[d] > 0 => exec'[d] = exec[d] /\ job'[d] = job[d]
    BY <1>0, <2>1 DEF TypeOK
  <2> QED BY <1>5, <2>2, <2>3
<1>9. ASSUME NEW e \in Executor, Claim(e) PROVE DInv'
  <2> USE <1>9 DEF Claim, vars, executorVars
  <2>1. job[e] \in Task
    BY <1>0 DEF BusyHasJob, Busy
  <2>2. StoreTypeOK'
    BY <1>0, <1>1, <1>3, <2>1 DEF StoreTypeOK
  <2>3. \A d \in Executor : held'[d] = IF d = e THEN version[job[e]] + 1 ELSE held[d]
    BY <1>0 DEF StoreTypeOK
  <2>4. \A t \in Task : /\ version'[t] = IF t = job[e] THEN version[t] + 1 ELSE version[t]
                        /\ durable'[t] = IF t = job[e] THEN "claimed" ELSE durable[t]
    BY <1>0 DEF StoreTypeOK
  <2>5. \A d \in Executor : held[d] > 0 /\ job[d] = job[e] => held[d] < version[job[e]] + 1
    BY <1>0, <1>2, <1>3, <2>1 DEF Fencing
  <2>6. ASSUME NEW d \in Executor, held'[d] > 0
        PROVE  /\ exec[d] = "running" /\ job[d] \in Task
               /\ held'[d] <= version'[job[d]]
               /\ held'[d] = version'[job[d]] => durable'[job[d]] \in {"runnable", "claimed"}
    <3>1. CASE d = e
      BY <1>3, <2>1, <2>3, <2>4, <3>1
    <3>2. CASE d # e
      <4>1. held'[d] = held[d] /\ job[d] \in Task
        BY <1>2, <2>3, <2>6, <3>2
      <4>2. held[d] <= version[job[d]] /\ exec[d] = "running"
        BY <1>0, <2>6, <4>1 DEF Fencing
      <4>3. CASE job[d] = job[e]
        BY <1>2, <1>3, <2>4, <2>5, <2>6, <4>1, <4>2, <4>3
      <4>4. CASE job[d] # job[e]
        BY <1>0, <2>4, <2>6, <4>1, <4>2, <4>4 DEF Fencing
      <4> QED BY <4>3, <4>4
    <3> QED BY <3>1, <3>2
  <2>7. ASSUME NEW c \in Executor, NEW d \in Executor, held'[c] > 0, held'[d] > 0,
               job[c] = job[d], held'[c] = held'[d]
        PROVE  c = d
    <3>1. CASE c # e /\ d # e
      BY <1>0, <2>3, <2>7, <3>1 DEF Fencing
    <3>2. CASE c = e \/ d = e
      BY <1>2, <1>3, <2>1, <2>3, <2>5, <2>7, <3>2
    <3> QED BY <3>1, <3>2
  <2>8. Fencing'
    BY <2>6, <2>7 DEF Fencing
  <2> QED BY <1>1, <2>2, <2>8
<1>10. ASSUME NEW e \in Executor, Succeed(e) \/ Fenced(e) \/ Fail(e) PROVE DInv'
  <2> USE <1>10 DEF Succeed, Fenced, Fail, Release, ExecuteReturns
  <2>1. job[e] \in Task /\ held[e] > 0 /\ version' = version /\ job' = job
    BY <1>2
  <2>2. StoreTypeOK'
    BY <1>0, <1>1, <2>1, FaultCounts DEF StoreTypeOK
  <2>3. \A d \in Executor : /\ held'[d] = IF d = e THEN 0 ELSE held[d]
                            /\ d # e => exec'[d] = exec[d]
    BY <1>0 DEF StoreTypeOK, TypeOK
  <2>4. ASSUME NEW d \in Executor, d # e, held[d] > 0, held[d] = version[job[d]]
        PROVE  durable'[job[d]] = durable[job[d]]
    <3>1. job[d] = job[e] => ~Matches(job[e], held[e])
      BY <1>0, <2>1, <2>4 DEF Fencing, Matches
    <3>2. CASE Succeed(e)
      <4>1. job[d] # job[e]
        BY <3>1, <3>2
      <4> QED BY <4>1, <3>2
    <3>3. CASE Fenced(e) \/ Fail(e)
      BY <3>3
    <3> QED BY <3>2, <3>3
  <2>5. ASSUME NEW d \in Executor, held'[d] > 0
        PROVE  /\ d # e /\ held'[d] = held[d] /\ exec'[d] = exec[d]
    BY <2>3, <2>5
  <2>6. Fencing'
    BY <1>0, <2>1, <2>4, <2>5 DEF Fencing
  <2> QED BY <1>1, <2>2, <2>6
<1>11. ASSUME NEW t \in Task, CommitTask(t) PROVE DInv'
  <2> USE <1>11 DEF CommitTask, vars, executorVars, leaseVars
  <2>1. StoreTypeOK'
    BY <1>0, <1>1 DEF StoreTypeOK
  <2>2. \A s \in Task : durable[s] \in {"runnable", "claimed"} =>
          durable'[s] \in {"runnable", "claimed"}
    BY <1>0 DEF StoreTypeOK
  <2> QED BY <1>4, <2>1, <2>2
<1>12. ASSUME NEW t \in Task, Publish(t) PROVE DInv'
  <2> USE <1>12 DEF Publish, Offer, vars, executorVars, leaseVars
  <2>1. UNCHANGED executorVars
    OBVIOUS
  <2>2. StoreTypeOK'
    BY <1>0, <1>1 DEF StoreTypeOK
  <2> QED BY <1>4, <2>1, <2>2
<1>13. ASSUME NEW t \in Task, LeaseExpires(t) PROVE DInv'
  <2> USE <1>13 DEF LeaseExpires, vars, executorVars, leaseVars
  <2>1. StoreTypeOK'
    BY <1>0, <1>1, FaultCounts DEF StoreTypeOK
  <2>2. \A s \in Task : durable[s] \in {"runnable", "claimed"} =>
          durable'[s] \in {"runnable", "claimed"}
    BY <1>0 DEF StoreTypeOK
  <2> QED BY <1>4, <2>1, <2>2
<1>14. CASE Crash
  <2> USE <1>14 DEF Crash
  <2>1. StoreTypeOK'
    BY <1>0, <1>1, FaultCounts DEF StoreTypeOK
  <2>2. Fencing'
    BY DEF Fencing
  <2> QED BY <1>1, <2>1, <2>2
<1>15. CASE UNCHANGED allVars
  BY <1>5, <1>15 DEF allVars, vars, executorVars
<1> QED
  BY <1>6, <1>7, <1>8, <1>9, <1>10, <1>11, <1>12, <1>13, <1>14, <1>15
  DEF DNext, Dispatcher, Executing

\* The invariant holds in every reachable state of the service, through
\* lost hints, failed executions, leases that run out and crashes.
THEOREM DurableInvariance == DSpec => []DInv
  BY DInitInv, DNextInv, PTL DEF DSpec

\* No two executors have one token of a task, tokens of a finished task are
\* stale, and no executor is ahead of its row, although a hint and a recovery
\* pass may queue a task twice and a lease may run out under its holder
\* (lifecycle.go:306-385, contract.go:27-49).
THEOREM TasksAreHeldExclusively == DSpec => []ExclusiveHolding
<1>1. DInv => ExclusiveHolding
  <2> SUFFICES ASSUME DInv PROVE ExclusiveHolding
    OBVIOUS
  <2>1. Fencing
    BY DEF DInv
  <2> QED BY <2>1 DEF Fencing, ExclusiveHolding, AtWork, Holders, Matches
<1> QED BY <1>1, DurableInvariance, PTL

\* The pool's accounting also survives crashes and the table's own recovery
\* lists, which may be longer than the pool.
THEOREM NoSlotIsLostDurably == DSpec => []SlotsAccounted
<1>1. DInv => SlotsAccounted
  BY DEF DInv, IInv
<1> QED BY <1>1, DurableInvariance, PTL
-----------------------------------------------------------------------------
(* The promise of TaskTable.                                               *)

tableVars == <<durable, atWork, holder>>

\* The table starts empty, and nobody is at work.
LEMMA InitRefines == DInit => Table!Init
BY DEF DInit, Table!Init, atWork, holder, AtWork, Holders

\* A claim gives a runnable task to an executor that has none; whoever still
\* works on it has an older token.
LEMMA ClaimStarts ==
  ASSUME DInv, NEW e \in Executor, Claim(e)
  PROVE  Table!Start(job[e], e) /\ job[e] \in Task
<1> USE DEF Claim, vars, executorVars
<1>1. StoreTypeOK /\ Fencing /\ BusyHasJob
  BY DEF DInv, IInv
<1>2. job[e] \in Task
  BY <1>1 DEF BusyHasJob, Busy
<1>3. Table!Free(e)
  BY DEF Table!Free, atWork, AtWork
<1>4. \A d \in Executor : /\ held[d] \in Nat
                          /\ held'[d] = IF d = e THEN version[job[e]] + 1 ELSE held[d]
  BY <1>1 DEF StoreTypeOK
<1>5. \A t \in Task : /\ version[t] \in Nat
                      /\ version'[t] = IF t = job[e] THEN version[t] + 1 ELSE version[t]
  BY <1>1 DEF StoreTypeOK
<1>6. ASSUME NEW t \in Task
      PROVE  /\ atWork'[t] = IF t = job[e] THEN atWork[t] \cup {e} ELSE atWork[t]
             /\ holder'[t] = IF t = job[e] THEN {e} ELSE holder[t]
  <2>1. /\ atWork'[t] = {d \in Executor : held'[d] > 0 /\ job[d] = t}
        /\ atWork[t] = {d \in Executor : held[d] > 0 /\ job[d] = t}
    BY DEF atWork, AtWork
  <2>2. /\ holder'[t] = {d \in atWork'[t] : held'[d] > 0 /\ version'[t] = held'[d]}
        /\ holder[t] = {d \in atWork[t] : held[d] > 0 /\ version[t] = held[d]}
    BY DEF holder, Holders, Matches, atWork
  <2>3. atWork'[t] = IF t = job[e] THEN atWork[t] \cup {e} ELSE atWork[t]
    BY <1>2, <1>4, <1>5, <2>1
  <2>4. CASE t # job[e]
    BY <1>4, <1>5, <2>1, <2>2, <2>3, <2>4
  <2>5. CASE t = job[e]
    <3>1. ASSUME NEW d \in Executor, held'[d] > 0, job[d] = t, version'[t] = held'[d]
          PROVE  d = e
      <4>1. CASE d # e
        <5>1. held[d] <= version[t] /\ held[d] = version[t] + 1
          BY <1>1, <1>4, <1>5, <2>5, <3>1, <4>1 DEF Fencing
        <5> QED BY <1>4, <1>5, <5>1
      <4> QED BY <4>1
    <3>2. held'[e] > 0 /\ version'[t] = held'[e]
      BY <1>2, <1>4, <1>5, <2>5
    <3> QED BY <2>1, <2>2, <2>3, <2>5, <3>1, <3>2
  <2> QED BY <2>3, <2>4, <2>5
<1>7. /\ atWork' = [t \in Task |-> atWork'[t]] /\ DOMAIN atWork = Task
      /\ holder' = [t \in Task |-> holder'[t]] /\ DOMAIN holder = Task
  BY DEF atWork, holder
<1>8. /\ atWork' = [atWork EXCEPT ![job[e]] = @ \cup {e}]
      /\ holder' = [holder EXCEPT ![job[e]] = {e}]
  BY <1>2, <1>6, <1>7
<1> QED BY <1>2, <1>3, <1>8 DEF Table!Start

\* An executor that loses its token is at work no more.
LEMMA TokenLeaves ==
  ASSUME DInv, NEW e \in Executor, job' = job, version' = version,
         held' = [held EXCEPT ![e] = 0]
  PROVE  /\ atWork' = [t \in Task |-> atWork[t] \ {e}]
         /\ holder' = [t \in Task |-> holder[t] \ {e}]
<1>1. StoreTypeOK
  BY DEF DInv
<1>2. \A d \in Executor : held'[d] = IF d = e THEN 0 ELSE held[d]
  BY <1>1 DEF StoreTypeOK
<1>3. ASSUME NEW t \in Task
      PROVE  AtWork(t)' = AtWork(t) \ {e} /\ Holders(t)' = Holders(t) \ {e}
  BY <1>2 DEF AtWork, Holders, Matches
<1> QED BY <1>3 DEF atWork, holder

\* Every step of the service is a step of the table, or changes nothing its
\* owner sees.
LEMMA StepRefines == DInv /\ [DNext]_allVars => [Table!Next]_tableVars
<1> SUFFICES ASSUME DInv, [DNext]_allVars PROVE [Table!Next]_tableVars
  OBVIOUS
<1>0. StoreTypeOK /\ TypeOK /\ BusyHasJob /\ Fencing
  BY DEF DInv, IInv
<1>1. ASSUME UNCHANGED leaseVars, \A e \in Executor : held[e] > 0 => job'[e] = job[e]
      PROVE  UNCHANGED <<atWork, holder>>
  <2>1. \A t \in Task : AtWork(t)' = AtWork(t)
    BY <1>1 DEF AtWork, leaseVars
  <2>2. \A t \in Task : Holders(t)' = Holders(t)
    BY <1>1, <2>1 DEF Holders, Matches, leaseVars
  <2> QED BY <2>1, <2>2 DEF atWork, holder
<1>2. CASE RecoverRunnable \/ RecoverError \/ Local(RecoverSkipped) \/ Local(SendJob)
             \/ Local(SendDone) \/ Local(Select) \/ Local(CloseDone)
             \/ Local(Cancel) \/ CloseHints \/ Local(Stopped)
  BY <1>1, <1>2
  DEF RecoverRunnable, RecoverError, RecoverFailed, Recovered, Local, RecoverSkipped, SendJob,
      SendDone, Select, SelectWakeup, SelectWakeupsClosed, SelectCompleted, SelectTimer,
      SelectCtxDone, CloseDone, Cancel, CloseHints, CloseWakeups, Stopped, vars,
      executorVars, storeVars, tableVars
<1>3. ASSUME NEW e \in Executor,
             Local(TakeJob(e)) \/ Local(Report(e)) \/ Local(ExecutorExit(e))
                \/ ClaimRefused(e)
      PROVE  UNCHANGED tableVars
  <2> USE <1>3 DEF Local, TakeJob, Report, ExecutorExit, ClaimRefused,
                   ExecuteReturns, storeVars
  <2>1. ~(held[e] > 0)
    BY <1>0 DEF Fencing, StoreTypeOK
  <2>2. \A d \in Executor : held[d] > 0 => job'[d] = job[d]
    BY <1>0, <2>1 DEF TypeOK
  <2>3. UNCHANGED leaseVars /\ UNCHANGED durable
    OBVIOUS
  <2> QED BY <1>1, <2>2, <2>3 DEF tableVars
<1>4. ASSUME NEW e \in Executor, Claim(e) PROVE Table!Next
  BY <1>4, ClaimStarts DEF Table!Next
<1>5. ASSUME NEW e \in Executor, Succeed(e) PROVE Table!Next
  <2> USE <1>5 DEF Succeed, Release, ExecuteReturns
  <2>1. /\ job[e] \in Task /\ held[e] > 0 /\ held[e] = version[job[e]]
        /\ durable[job[e]] \in {"runnable", "claimed"}
    BY <1>0 DEF Fencing, BusyHasJob, Busy, Matches
  <2>2. /\ atWork' = [t \in Task |-> atWork[t] \ {e}]
        /\ holder' = [t \in Task |-> holder[t] \ {e}]
    BY TokenLeaves
  <2>3. holder[job[e]] = {e}
    BY <1>0, <2>1 DEF holder, Holders, AtWork, Matches, Fencing
  <2>4. \A t \in Task \ {job[e]} : e \notin atWork[t] /\ e \notin holder[t]
    BY DEF atWork, holder, Holders, AtWork
  <2>5. DOMAIN atWork = Task /\ DOMAIN holder = Task
    BY DEF atWork, holder
  <2>6. /\ atWork' = [atWork EXCEPT ![job[e]] = @ \ {e}]
        /\ holder' = [holder EXCEPT ![job[e]] = {}]
    <3>1. \A t \in Task :
             /\ atWork[t] \ {e} = IF t = job[e] THEN atWork[t] \ {e} ELSE atWork[t]
             /\ holder[t] \ {e} = IF t = job[e] THEN {} ELSE holder[t]
      BY <2>3, <2>4
    <3> QED BY <2>2, <2>5, <3>1
  <2>7. Table!Finish(job[e], e)
    BY <2>1, <2>3, <2>6 DEF Table!Finish
  <2> QED BY <2>1, <2>7 DEF Table!Next
<1>6. ASSUME NEW e \in Executor, Fenced(e) \/ Fail(e) PROVE Table!Next
  <2> USE <1>6 DEF Fenced, Fail, Release, ExecuteReturns
  <2>1. Table!Abandon({e})
    BY TokenLeaves DEF Table!Abandon
  <2> QED BY <2>1 DEF Table!Next
<1>7. ASSUME NEW t \in Task, CommitTask(t) PROVE Table!Next
  <2> USE <1>7 DEF CommitTask, vars, executorVars
  <2>1. UNCHANGED <<atWork, holder>>
    BY <1>1
  <2>2. Table!Submit(t)
    BY <2>1 DEF Table!Submit
  <2> QED BY <2>2 DEF Table!Next
<1>8. ASSUME NEW t \in Task, Publish(t) PROVE UNCHANGED tableVars
  BY <1>1, <1>8 DEF Publish, Offer, vars, executorVars, tableVars
<1>9. ASSUME NEW t \in Task, LeaseExpires(t) PROVE Table!Next
  <2> USE <1>9 DEF LeaseExpires, vars, executorVars
  <2>1. UNCHANGED <<atWork, holder>>
    BY <1>1
  <2>2. Table!Lapse(t)
    BY <2>1 DEF Table!Lapse
  <2> QED BY <2>2 DEF Table!Next
<1>10. CASE Crash
  <2> USE <1>10 DEF Crash
  <2>1. \A t \in Task : AtWork(t)' = {} /\ Holders(t)' = {}
    BY DEF AtWork, Holders
  <2>2. \A t \in Task : atWork[t] \ Executor = {} /\ holder[t] \ Executor = {}
    BY DEF atWork, holder, AtWork, Holders
  <2>3. /\ atWork' = [t \in Task |-> atWork[t] \ Executor]
        /\ holder' = [t \in Task |-> holder[t] \ Executor]
    BY <2>1, <2>2 DEF atWork, holder
  <2>4. Table!Abandon(Executor)
    BY <2>3 DEF Table!Abandon
  <2> QED BY <2>4 DEF Table!Next
<1>11. CASE UNCHANGED allVars
  BY <1>1, <1>11 DEF allVars, vars, executorVars, storeVars, tableVars
<1> QED
  BY <1>2, <1>3, <1>4, <1>5, <1>6, <1>7, <1>8, <1>9, <1>10, <1>11
  DEF DNext, Dispatcher, Executing

\* Durable dispatch implements TaskTable: claims give a task to an executor,
\* leases run out under whoever is at work, only the executor a task was given
\* to last finishes it, failures, crashes and stale tokens abandon work, and
\* hints and refused claims change nothing the owner sees
\* (lifecycle.go:306-385, contract.go:27-49, wakeup_broker.go).
THEOREM DispatchServesTable == DSpec => ServesTable
<1> QED BY InitRefines, StepRefines, DurableInvariance, PTL
        DEF DSpec, ServesTable, Table!Spec, tableVars
=============================================================================
