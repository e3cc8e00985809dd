--------------------------- MODULE WorkerLoops_proofs ---------------------------
(***************************************************************************)
(* Safety of PollingDispatcher for every pool size and pair of intervals,  *)
(* of LeaseHeartbeat for any workers and number of claims, and of          *)
(* RecurringLoops for any loops.                                           *)
(***************************************************************************)
EXTENDS PollingDispatcher, LeaseHeartbeat, RecurringLoops, FiniteSetTheorems,
        TLAPS

\* The free slots counted before a scan are still free afterwards, because
\* executors only give slots back; so what was scanned fits.
BatchFits ==
  /\ pc \in {"scan", "acquire", "enqueue"} => available > 0
  /\ pc = "scan" => slots + available <= Concurrency
  /\ pc = "acquire" => slots + batch <= Concurrency
  /\ pc = "enqueue" => batch >= 1 /\ slots + batch <= Concurrency + 1

\* An executor leaves only a closed and drained channel, and done is closed
\* after all of them left.
ExitsAreFinal ==
  /\ \A e \in Executor : exec[e] = "exited" => JobsClosed /\ jobs = 0
  /\ pc = "done" => \A e \in Executor : exec[e] = "exited"

IInv ==
  /\ TypeOK /\ SlotsAccounted /\ BatchFits /\ ExitsAreFinal
  /\ FreedSlotIsSignalled
-----------------------------------------------------------------------------
(* Counting executors.                                                     *)

\* Holding is a set of executors, so it is finite.
LEMMA HoldingFinite ==
  IsFiniteSet(Holding) /\ Cardinality(Holding) \in Nat
<1>1. IsFiniteSet(Executor)
  BY FS_Interval, ConcurrencyAssumption DEF Executor
<1>2. Holding \subseteq Executor
  BY DEF Holding
<1> QED
  BY <1>1, <1>2, FS_Subset, FS_CardinalityType

\* An executor that takes a job holds its slot from then on.
LEMMA HoldingGrows ==
  ASSUME TypeOK, NEW e \in Executor, NEW s \in {"running", "release"},
         Move(e, "idle", s)
  PROVE  Cardinality(Holding') = Cardinality(Holding) + 1
<1>1. Holding' = Holding \cup {e}
  BY DEF Holding, Move, TypeOK
<1>2. e \notin Holding
  BY DEF Holding, Move
<1> QED
  BY <1>1, <1>2, HoldingFinite, FS_AddElement

\* An executor that gives its slot back was one of the holders.
LEMMA HoldingShrinks ==
  ASSUME TypeOK, NEW e \in Executor, Move(e, "release", "signal")
  PROVE  Cardinality(Holding') = Cardinality(Holding) - 1
<1>1. Holding' = Holding \ {e}
  BY DEF Holding, Move, TypeOK
<1>2. e \in Holding
  BY DEF Holding, Move
<1> QED
  BY <1>1, <1>2, HoldingFinite, FS_RemoveElement

\* The other moves of an executor change nothing that counts.
LEMMA HoldingStays ==
  ASSUME TypeOK, NEW e \in Executor,
         \/ Move(e, "running", "release")
         \/ Move(e, "signal", "idle")
         \/ Move(e, "idle", "exited")
  PROVE  Holding' = Holding
  BY DEF Holding, Move, TypeOK

-----------------------------------------------------------------------------
(* The inductive invariant.                                                *)

\* The pool starts with every slot free.
LEMMA InitIInv == Init => IInv
<1> SUFFICES ASSUME Init PROVE IInv
  OBVIOUS
<1> USE ConcurrencyAssumption, IntervalAssumption DEF Init
<1>1. Holding = {}
  BY DEF Holding
<1>2. pc # "enqueue"
  OBVIOUS
<1>3. SlotsAccounted
  BY <1>1, <1>2, FS_EmptySet DEF SlotsAccounted
<1>4. TypeOK
  <2>1. wake \in BOOLEAN /\ ctxDone \in BOOLEAN
    BY Zenon
  <2>2. pc \in {"top", "done"}
    BY Zenon
  <2>3. exec \in [Executor -> {"idle", "exited"}]
    BY Zenon
  <2>4. /\ available \in 0..Concurrency /\ batch \in 0..Concurrency
        /\ slots \in 0..Concurrency /\ jobs \in 0..Concurrency
        /\ interval \in MinInterval..MaxInterval
    OBVIOUS
  <2>5. exec \in [Executor -> {"idle", "running", "release", "signal", "exited"}]
    BY <2>3
  <2> QED
    BY <2>1, <2>2, <2>4, <2>5, Zenon DEF TypeOK
<1>5. BatchFits /\ ExitsAreFinal /\ FreedSlotIsSignalled
  BY DEF BatchFits, ExitsAreFinal, JobsClosed, FreedSlotIsSignalled
<1> QED BY <1>3, <1>4, <1>5 DEF IInv

\* A step of the discovery goroutine, or Cancel, preserves the invariant.
LEMMA DispatchIInv == IInv /\ (Dispatch \/ Cancel) => IInv'
<1> SUFFICES ASSUME IInv, Dispatch \/ Cancel PROVE IInv'
  OBVIOUS
<1> USE ConcurrencyAssumption, IntervalAssumption, HoldingFinite
<1>0. /\ TypeOK /\ SlotsAccounted /\ BatchFits /\ ExitsAreFinal
      /\ FreedSlotIsSignalled
  BY DEF IInv
<1>1. exec' = exec => Holding' = Holding
  BY DEF Holding
<1>2. CASE Cancel
  <2> USE <1>2 DEF Cancel, dispatcherVars
  <2>1. TypeOK' /\ SlotsAccounted'
    BY <1>0, <1>1 DEF TypeOK, SlotsAccounted
  <2>2. BatchFits' /\ ExitsAreFinal' /\ FreedSlotIsSignalled'
    BY <1>0 DEF BatchFits, ExitsAreFinal, JobsClosed, FreedSlotIsSignalled
  <2> QED BY <2>1, <2>2 DEF IInv
<1>3. CASE ReadAvailable
  <2> USE <1>3 DEF ReadAvailable
  <2>1. TypeOK' /\ SlotsAccounted'
    BY <1>0, <1>1 DEF TypeOK, SlotsAccounted
  <2>2. BatchFits' /\ ExitsAreFinal' /\ FreedSlotIsSignalled'
    BY <1>0 DEF BatchFits, ExitsAreFinal, JobsClosed, FreedSlotIsSignalled, TypeOK
  <2> QED BY <2>1, <2>2 DEF IInv
<1>4. CASE ScanFailed
  <2> USE <1>4 DEF ScanFailed
  <2>1. TypeOK' /\ SlotsAccounted'
    BY <1>0, <1>1 DEF TypeOK, SlotsAccounted, nextAdaptiveInterval
  <2>2. BatchFits' /\ ExitsAreFinal' /\ FreedSlotIsSignalled'
    BY <1>0 DEF BatchFits, ExitsAreFinal, JobsClosed, FreedSlotIsSignalled, TypeOK
  <2> QED BY <2>1, <2>2 DEF IInv
<1>5. ASSUME NEW n \in 0..(Concurrency + 1), Scanned(n) PROVE IInv'
  <2> USE <1>5 DEF Scanned, Truncate
  <2>1. TypeOK' /\ SlotsAccounted'
    BY <1>0, <1>1 DEF TypeOK, SlotsAccounted, nextAdaptiveInterval
  <2>2. BatchFits' /\ ExitsAreFinal' /\ FreedSlotIsSignalled'
    BY <1>0 DEF BatchFits, ExitsAreFinal, JobsClosed, FreedSlotIsSignalled, TypeOK
  <2> QED BY <2>1, <2>2 DEF IInv
<1>6. CASE AcquireSlot
  <2> USE <1>6 DEF AcquireSlot
  <2>1. TypeOK' /\ SlotsAccounted'
    BY <1>0, <1>1 DEF TypeOK, SlotsAccounted
  <2>2. BatchFits' /\ ExitsAreFinal' /\ FreedSlotIsSignalled'
    BY <1>0 DEF BatchFits, ExitsAreFinal, JobsClosed, FreedSlotIsSignalled, TypeOK
  <2> QED BY <2>1, <2>2 DEF IInv
<1>7. CASE EnqueueJob
  <2> USE <1>7 DEF EnqueueJob
  <2>1. TypeOK' /\ SlotsAccounted'
    BY <1>0, <1>1 DEF TypeOK, SlotsAccounted, BatchFits
  <2>2. BatchFits' /\ ExitsAreFinal' /\ FreedSlotIsSignalled'
    BY <1>0 DEF BatchFits, ExitsAreFinal, JobsClosed, FreedSlotIsSignalled, TypeOK
  <2> QED BY <2>1, <2>2 DEF IInv
<1>8. CASE BatchDone \/ StartTimer \/ SelectTimer \/ SelectWake \/ SelectCtxDone \/ CloseDone
  <2> USE <1>8 DEF BatchDone, StartTimer, SelectTimer, SelectWake, SelectCtxDone, CloseDone
  <2>1. TypeOK' /\ SlotsAccounted'
    BY <1>0, <1>1 DEF TypeOK, SlotsAccounted
  <2>2. BatchFits' /\ ExitsAreFinal' /\ FreedSlotIsSignalled'
    BY <1>0 DEF BatchFits, ExitsAreFinal, JobsClosed, FreedSlotIsSignalled, TypeOK
  <2> QED BY <2>1, <2>2 DEF IInv
<1> QED
  BY <1>2, <1>3, <1>4, <1>5, <1>6, <1>7, <1>8 DEF Dispatch

\* A step of an executor preserves the invariant.
LEMMA ExecuteIInv ==
  ASSUME IInv, NEW e \in Executor, Execute(e)
  PROVE  IInv'
<1> USE ConcurrencyAssumption, IntervalAssumption, HoldingFinite
<1>0. /\ TypeOK /\ SlotsAccounted /\ BatchFits /\ ExitsAreFinal
      /\ FreedSlotIsSignalled
  BY DEF IInv
<1>1. CASE TakeJob(e)
  <2> USE <1>1 DEF TakeJob, dispatcherVars
  <2>1. Cardinality(Holding') = Cardinality(Holding) + 1
    BY <1>0, HoldingGrows
  <2>2. TypeOK' /\ SlotsAccounted'
    BY <1>0, <2>1 DEF TypeOK, SlotsAccounted, Move
  <2>3. BatchFits' /\ ExitsAreFinal' /\ FreedSlotIsSignalled'
    BY <1>0 DEF BatchFits, ExitsAreFinal, JobsClosed, FreedSlotIsSignalled,
                TypeOK, Move
  <2> QED BY <2>2, <2>3 DEF IInv
<1>2. CASE ExecuteReturns(e)
  <2> USE <1>2 DEF ExecuteReturns, dispatcherVars
  <2>1. Holding' = Holding
    BY <1>0, HoldingStays
  <2>2. TypeOK' /\ SlotsAccounted'
    BY <1>0, <2>1 DEF TypeOK, SlotsAccounted, Move
  <2>3. BatchFits' /\ ExitsAreFinal' /\ FreedSlotIsSignalled'
    BY <1>0 DEF BatchFits, ExitsAreFinal, JobsClosed, FreedSlotIsSignalled,
                TypeOK, Move
  <2> QED BY <2>2, <2>3 DEF IInv
<1>3. CASE ReleaseSlot(e)
  <2> USE <1>3 DEF ReleaseSlot, dispatcherVars
  <2>1. Cardinality(Holding') = Cardinality(Holding) - 1
    BY <1>0, HoldingShrinks
  <2>2. TypeOK' /\ SlotsAccounted'
    BY <1>0, <2>1 DEF TypeOK, SlotsAccounted, Move
  <2>3. BatchFits' /\ ExitsAreFinal'
    BY <1>0 DEF BatchFits, ExitsAreFinal, JobsClosed, TypeOK, Move
  <2>4. FreedSlotIsSignalled'
    BY <1>0 DEF FreedSlotIsSignalled, TypeOK, Move
  <2> QED BY <2>2, <2>3, <2>4 DEF IInv
<1>4. CASE Signal(e)
  <2> USE <1>4 DEF Signal, dispatcherVars
  <2>1. Holding' = Holding
    BY <1>0, HoldingStays
  <2>2. TypeOK' /\ SlotsAccounted'
    BY <1>0, <2>1 DEF TypeOK, SlotsAccounted, Move
  <2>3. BatchFits' /\ ExitsAreFinal' /\ FreedSlotIsSignalled'
    BY <1>0 DEF BatchFits, ExitsAreFinal, JobsClosed, FreedSlotIsSignalled,
                TypeOK, Move
  <2> QED BY <2>2, <2>3 DEF IInv
<1>5. CASE ExecutorExit(e)
  <2> USE <1>5 DEF ExecutorExit, dispatcherVars
  <2>1. Holding' = Holding
    BY <1>0, HoldingStays
  <2>2. TypeOK' /\ SlotsAccounted'
    BY <1>0, <2>1 DEF TypeOK, SlotsAccounted, Move
  <2>3. BatchFits' /\ ExitsAreFinal' /\ FreedSlotIsSignalled'
    BY <1>0 DEF BatchFits, ExitsAreFinal, JobsClosed, FreedSlotIsSignalled,
                TypeOK, Move
  <2> QED BY <2>2, <2>3 DEF IInv
<1> QED BY <1>1, <1>2, <1>3, <1>4, <1>5 DEF Execute

\* Each step preserves the invariant.
LEMMA NextIInv == IInv /\ [Next]_vars => IInv'
<1> SUFFICES ASSUME IInv, [Next]_vars PROVE IInv'
  OBVIOUS
<1>1. CASE UNCHANGED vars
  <2> USE <1>1 DEF vars, dispatcherVars
  <2>1. Holding' = Holding
    BY DEF Holding
  <2> QED
    BY <2>1 DEF IInv, TypeOK, SlotsAccounted, BatchFits, ExitsAreFinal,
                JobsClosed, FreedSlotIsSignalled
<1> QED
  BY <1>1, DispatchIInv, ExecuteIInv DEF Next, Stopped
-----------------------------------------------------------------------------
(* The theorems.                                                           *)

\* The invariant holds in every reachable state.
THEOREM Invariance == Spec => []IInv
  BY InitIInv, NextIInv, PTL DEF Spec

\* Types, the bounds of both channels and of the backoff interval included.
THEOREM TypeCorrect == Spec => []TypeOK
<1>1. IInv => TypeOK
  BY DEF IInv
<1> QED BY <1>1, Invariance, PTL

\* Every token in slots belongs to a job that is queued or running.
THEOREM NoSlotIsLost == Spec => []SlotsAccounted
<1>1. IInv => SlotsAccounted
  BY DEF IInv
<1> QED BY <1>1, Invariance, PTL

\* The discovery goroutine never blocks on slots or on jobs.
THEOREM ScanFits == Spec => []ScanFitsThePool
<1>1. IInv => ScanFitsThePool
  <2> SUFFICES ASSUME IInv PROVE ScanFitsThePool
    OBVIOUS
  <2> QED
    BY ConcurrencyAssumption, HoldingFinite
    DEF IInv, TypeOK, SlotsAccounted, BatchFits, ScanFitsThePool
<1> QED BY <1>1, Invariance, PTL

\* A full pool that got a slot back has its wakeup, or it is on its way.
THEOREM NoLostWakeup == Spec => []FreedSlotIsSignalled
<1>1. IInv => FreedSlotIsSignalled
  BY DEF IInv
<1> QED BY <1>1, Invariance, PTL

\* When done is closed, no executor runs and no job is queued.
THEOREM DoneIsQuiescent == Spec => []DoneMeansQuiescent
<1>1. IInv => DoneMeansQuiescent
  <2> SUFFICES ASSUME IInv, pc = "done" PROVE DoneMeansQuiescent
    BY DEF DoneMeansQuiescent
  <2>1. \A e \in Executor : exec[e] = "exited"
    BY DEF IInv, ExitsAreFinal
  <2>2. 1 \in Executor
    BY ConcurrencyAssumption DEF Executor
  <2>3. jobs = 0
    BY <2>1, <2>2 DEF IInv, ExitsAreFinal
  <2> QED BY <2>1, <2>3 DEF DoneMeansQuiescent
<1> QED BY <1>1, Invariance, PTL
-----------------------------------------------------------------------------
(* The lease heartbeat.                                                    *)

\* While the goroutine runs it has sent nothing and nobody has an answer;
\* after it ended, done holds its error or nil until stop receives it.
GoroutineReportsOnce ==
  \A w \in Worker :
    /\ token[w] = 0 => hb[w] = "none"
    /\ hb[w] \in {"none", "select", "calling"} =>
         done[w] = "empty" /\ err[w] = "nil" /\ once[w] # "done"
    /\ hb[w] \in {"failed", "exited"} /\ once[w] # "done" => done[w] = err[w]
    /\ once[w] = "done" => result[w] = err[w]

\* Only the caller inside once.Do receives, and no caller returns before Do
\* is done.
OnceIsExclusive ==
  \A w \in Worker :
    /\ once[w] = "fresh" => \A c \in Caller : call[w][c] = "none"
    /\ \A c \in Caller : call[w][c] = "receiving" => once[w] = "running"
    /\ \A c, d \in Caller :
         call[w][c] = "receiving" /\ call[w][d] = "receiving" => c = d
    /\ \A c \in Caller : call[w][c] \in {"returned", "acted"} => once[w] = "done"

\* A finished row is not live, and the one worker whose token it carries has
\* no goroutine that could still renew it.
FinishedIsQuiet ==
  row.finished =>
    ~row.live /\ \A w \in Worker : Matches(w) => hb[w] \in {"failed", "exited"}

LeaseInv ==
  LeaseTypeOK /\ GoroutineReportsOnce /\ OnceIsExclusive /\ FinishedIsQuiet

\* When stop has answered a caller, the goroutine makes no further call.
StopWaits ==
  \A w \in Worker, c \in Caller :
    call[w][c] \in {"returned", "acted"} => hb[w] \in {"failed", "exited"}

\* Nobody holds the row at first.
LEMMA LeaseInitInv == LeaseInit => LeaseInv
<1> SUFFICES ASSUME LeaseInit PROVE LeaseInv
  OBVIOUS
<1> USE DEF LeaseInit, NoAttempts
<1>1. LeaseTypeOK
  <2>1. 0 \in 0..MaxToken
    BY MaxTokenAssumption
  <2>2. row \in [owner : Worker, token : 0..MaxToken, live : BOOLEAN,
                 finished : BOOLEAN]
    BY <2>1
  <2>3. token \in [Worker -> 0..MaxToken]
    BY <2>1
  <2> QED BY <2>2, <2>3 DEF LeaseTypeOK
<1>2. GoroutineReportsOnce
  BY DEF GoroutineReportsOnce
<1>3. OnceIsExclusive
  BY DEF OnceIsExclusive
<1>4. FinishedIsQuiet
  BY DEF FinishedIsQuiet
<1> QED BY <1>1, <1>2, <1>3, <1>4 DEF LeaseInv

\* The steps that start, cut short or end an attempt.
LEMMA ProcessKeepsLease ==
  ASSUME LeaseInv, NEW w \in Worker,
         Claim(w) \/ Crash(w) \/ AttemptEnds(w) \/ ParentCancel(w)
  PROVE  LeaseInv'
<1>0. LeaseTypeOK /\ GoroutineReportsOnce /\ OnceIsExclusive /\ FinishedIsQuiet
  BY DEF LeaseInv
<1>1. CASE Claim(w)
  <2> USE <1>1 DEF Claim
  <2>0. row.token + 1 \in 0..MaxToken
    BY <1>0, MaxTokenAssumption DEF LeaseTypeOK
  <2>1. LeaseTypeOK'
    <3>1. row' \in [owner : Worker, token : 0..MaxToken, live : BOOLEAN,
                    finished : BOOLEAN]
      BY <1>0, <2>0 DEF LeaseTypeOK
    <3> QED BY <1>0, <2>0, <3>1 DEF LeaseTypeOK
  <2>2. GoroutineReportsOnce'
    BY <1>0, MaxTokenAssumption DEF GoroutineReportsOnce, LeaseTypeOK
  <2>3. OnceIsExclusive'
    BY <1>0 DEF OnceIsExclusive
  <2>4. FinishedIsQuiet'
    BY <1>0 DEF FinishedIsQuiet, LeaseTypeOK
  <2> QED BY <2>1, <2>2, <2>3, <2>4 DEF LeaseInv
<1>2. CASE Crash(w) \/ AttemptEnds(w)
  <2>0. Forget(w) /\ UNCHANGED row
    BY <1>2 DEF Crash, AttemptEnds
  <2> USE <2>0 DEF Forget
  <2>1. LeaseTypeOK'
    BY <1>0, MaxTokenAssumption DEF LeaseTypeOK
  <2>2. GoroutineReportsOnce'
    BY <1>0 DEF GoroutineReportsOnce, LeaseTypeOK
  <2>3. OnceIsExclusive'
    BY <1>0 DEF OnceIsExclusive, LeaseTypeOK
  <2>4. FinishedIsQuiet'
    BY <1>0 DEF FinishedIsQuiet, Matches, LeaseTypeOK
  <2> QED BY <2>1, <2>2, <2>3, <2>4 DEF LeaseInv
<1>3. CASE ParentCancel(w)
  <2> USE <1>3 DEF ParentCancel
  <2>1. LeaseTypeOK'
    BY <1>0 DEF LeaseTypeOK
  <2>2. GoroutineReportsOnce' /\ OnceIsExclusive'
    BY <1>0 DEF GoroutineReportsOnce, OnceIsExclusive
  <2>3. FinishedIsQuiet'
    BY <1>0 DEF FinishedIsQuiet, Matches
  <2> QED BY <2>1, <2>2, <2>3 DEF LeaseInv
<1> QED BY <1>1, <1>2, <1>3

\* The steps of the heartbeat goroutine: it sends at most once, as it ends.
LEMMA HeartbeatKeepsLease ==
  ASSUME LeaseInv, NEW w \in Worker, Heartbeat(w)
  PROVE  LeaseInv'
<1>0. LeaseTypeOK /\ GoroutineReportsOnce /\ OnceIsExclusive /\ FinishedIsQuiet
  BY DEF LeaseInv
<1>1. OnceIsExclusive'
  <2>1. UNCHANGED <<once, call>>
    BY DEF Heartbeat, HeartbeatCtxDone, SelectTick, HeartbeatRenewed, CancelWork,
           HeartbeatFails, HbUnchanged
  <2> QED BY <1>0, <2>1 DEF OnceIsExclusive
<1>2. CASE HeartbeatCtxDone(w)
  <2> USE <1>2 DEF HeartbeatCtxDone, HbUnchanged
  <2>1. LeaseTypeOK'
    BY <1>0 DEF LeaseTypeOK
  <2>2. GoroutineReportsOnce'
    BY <1>0 DEF GoroutineReportsOnce, LeaseTypeOK
  <2>3. FinishedIsQuiet'
    BY <1>0 DEF FinishedIsQuiet, Matches, LeaseTypeOK
  <2> QED BY <1>1, <2>1, <2>2, <2>3 DEF LeaseInv
<1>3. CASE SelectTick(w)
  <2> USE <1>3 DEF SelectTick, HbUnchanged
  <2>1. LeaseTypeOK'
    BY <1>0 DEF LeaseTypeOK
  <2>2. GoroutineReportsOnce'
    BY <1>0 DEF GoroutineReportsOnce, LeaseTypeOK
  <2>3. FinishedIsQuiet'
    BY <1>0 DEF FinishedIsQuiet, Matches, LeaseTypeOK
  <2> QED BY <1>1, <2>1, <2>2, <2>3 DEF LeaseInv
<1>4. CASE HeartbeatRenewed(w)
  <2> USE <1>4 DEF HeartbeatRenewed, HbUnchanged
  <2>1. LeaseTypeOK'
    BY <1>0 DEF LeaseTypeOK
  <2>2. GoroutineReportsOnce'
    BY <1>0 DEF GoroutineReportsOnce, LeaseTypeOK
  <2>3. ~row.finished
    BY <1>0 DEF FinishedIsQuiet
  <2>4. FinishedIsQuiet'
    BY <1>0, <2>3 DEF FinishedIsQuiet, LeaseTypeOK
  <2> QED BY <1>1, <2>1, <2>2, <2>4 DEF LeaseInv
<1>5. CASE CancelWork(w)
  <2> USE <1>5 DEF CancelWork, HbUnchanged
  <2>1. LeaseTypeOK'
    BY <1>0 DEF LeaseTypeOK
  <2>2. GoroutineReportsOnce'
    BY <1>0 DEF GoroutineReportsOnce, LeaseTypeOK
  <2>3. FinishedIsQuiet'
    BY <1>0 DEF FinishedIsQuiet, Matches, LeaseTypeOK
  <2> QED BY <1>1, <2>1, <2>2, <2>3 DEF LeaseInv
<1>6. ASSUME NEW e \in Error, HeartbeatFails(w, e) PROVE LeaseInv'
  <2> USE <1>6 DEF HeartbeatFails, HeartbeatErrors, HbUnchanged
  <2>1. LeaseTypeOK'
    BY <1>0 DEF LeaseTypeOK
  <2>2. GoroutineReportsOnce'
    BY <1>0 DEF GoroutineReportsOnce, LeaseTypeOK
  <2>3. FinishedIsQuiet'
    BY <1>0 DEF FinishedIsQuiet, Matches, LeaseTypeOK
  <2> QED BY <1>1, <2>1, <2>2, <2>3 DEF LeaseInv
<1> QED BY <1>2, <1>3, <1>4, <1>5, <1>6 DEF Heartbeat

\* The steps of stop, and the terminal update after it.
LEMMA StopKeepsLease ==
  ASSUME LeaseInv, NEW w \in Worker,
         Stop(w) \/ \E c \in Caller : StopCalled(w, c)
  PROVE  LeaseInv'
<1>0. LeaseTypeOK /\ GoroutineReportsOnce /\ OnceIsExclusive /\ FinishedIsQuiet
  BY DEF LeaseInv
<1>1. ASSUME NEW c \in Caller, StopCalled(w, c) PROVE LeaseInv'
  <2> USE <1>1 DEF StopCalled, StopUnchanged
  <2>0. once[w] \in {"fresh", "running", "done"}
    BY <1>0 DEF LeaseTypeOK
  <2>1. LeaseTypeOK'
    <3>1. call' \in [Worker -> [Caller ->
            {"none", "receiving", "blocked", "returned", "acted"}]]
      BY <1>0, <2>0 DEF LeaseTypeOK
    <3>2. ctx' \in [Worker -> BOOLEAN]
      BY <1>0 DEF LeaseTypeOK
    <3> QED BY <1>0, <3>1, <3>2 DEF LeaseTypeOK
  <2>2. GoroutineReportsOnce'
    BY <1>0, <2>0 DEF GoroutineReportsOnce, LeaseTypeOK
  <2>3. OnceIsExclusive'
    <3>1. CASE once[w] = "fresh"
      BY <1>0, <3>1 DEF OnceIsExclusive, LeaseTypeOK
    <3>2. CASE once[w] = "running"
      BY <1>0, <3>2 DEF OnceIsExclusive, LeaseTypeOK
    <3>3. CASE once[w] = "done"
      BY <1>0, <3>3 DEF OnceIsExclusive, LeaseTypeOK
    <3> QED BY <2>0, <3>1, <3>2, <3>3
  <2>4. FinishedIsQuiet'
    BY <1>0 DEF FinishedIsQuiet, Matches
  <2> QED BY <2>1, <2>2, <2>3, <2>4 DEF LeaseInv
<1>2. ASSUME NEW c \in Caller, StopReceives(w, c) PROVE LeaseInv'
  <2> USE <1>2 DEF StopReceives, StopUnchanged
  <2>0. once[w] = "running" /\ hb[w] \in {"failed", "exited"} /\ done[w] = err[w]
    BY <1>0 DEF OnceIsExclusive, GoroutineReportsOnce, LeaseTypeOK
  <2>1. LeaseTypeOK'
    BY <1>0, <2>0 DEF LeaseTypeOK
  <2>2. GoroutineReportsOnce'
    BY <1>0, <2>0 DEF GoroutineReportsOnce, LeaseTypeOK
  <2>3. OnceIsExclusive'
    BY <1>0, <2>0 DEF OnceIsExclusive, LeaseTypeOK
  <2>4. FinishedIsQuiet'
    BY <1>0 DEF FinishedIsQuiet, Matches
  <2> QED BY <2>1, <2>2, <2>3, <2>4 DEF LeaseInv
<1>3. ASSUME NEW c \in Caller, StopUnblocked(w, c) PROVE LeaseInv'
  <2> USE <1>3 DEF StopUnblocked, StopUnchanged
  <2>1. LeaseTypeOK'
    BY <1>0 DEF LeaseTypeOK
  <2>2. GoroutineReportsOnce'
    BY <1>0 DEF GoroutineReportsOnce
  <2>3. OnceIsExclusive'
    BY <1>0 DEF OnceIsExclusive, LeaseTypeOK
  <2>4. FinishedIsQuiet'
    BY <1>0 DEF FinishedIsQuiet, Matches
  <2> QED BY <2>1, <2>2, <2>3, <2>4 DEF LeaseInv
<1>4. CASE Finish(w) \/ Abandon(w)
  <2> USE <1>4 DEF Finish, Abandon
  <2>0. /\ "explicit" \in Caller /\ call[w]["explicit"] = "returned"
        /\ call' = [call EXCEPT ![w]["explicit"] = "acted"]
        /\ UNCHANGED <<token, parent, ctx, hb, err, done, once, result>>
    BY DEF Caller
  <2>1. LeaseTypeOK'
    BY <1>0, <2>0 DEF LeaseTypeOK
  <2>2. GoroutineReportsOnce'
    BY <1>0, <2>0 DEF GoroutineReportsOnce
  <2>3. OnceIsExclusive'
    BY <1>0, <2>0 DEF OnceIsExclusive, LeaseTypeOK
  <2>4. FinishedIsQuiet'
    <3>1. hb[w] \in {"failed", "exited"}
      BY <1>0, <2>0 DEF OnceIsExclusive, GoroutineReportsOnce, LeaseTypeOK
    <3>2. CASE row' = row
      BY <1>0, <2>0, <3>2 DEF FinishedIsQuiet, Matches
    <3>3. CASE Matches(w) /\ row' = [row EXCEPT !.finished = TRUE, !.live = FALSE]
      <4>1. row'.live = FALSE /\ row'.owner = w /\ row'.token = row.token
        BY <1>0, <3>3 DEF LeaseTypeOK, Matches
      <4> QED
        BY <2>0, <3>1, <4>1 DEF FinishedIsQuiet, Matches
    <3> QED BY <3>2, <3>3
  <2> QED BY <2>1, <2>2, <2>3, <2>4 DEF LeaseInv
<1> QED BY <1>1, <1>2, <1>3, <1>4 DEF Stop

\* Each step preserves the invariant.
LEMMA LeaseNextInv == LeaseInv /\ [LeaseNext]_leaseVars => LeaseInv'
<1> SUFFICES ASSUME LeaseInv, [LeaseNext]_leaseVars PROVE LeaseInv'
  OBVIOUS
<1>0. LeaseTypeOK /\ GoroutineReportsOnce /\ OnceIsExclusive /\ FinishedIsQuiet
  BY DEF LeaseInv
<1>1. CASE LeaseExpires
  <2> USE <1>1 DEF LeaseExpires, attemptVars
  <2>1. LeaseTypeOK'
    BY <1>0 DEF LeaseTypeOK
  <2>2. GoroutineReportsOnce' /\ OnceIsExclusive'
    BY <1>0 DEF GoroutineReportsOnce, OnceIsExclusive
  <2>3. FinishedIsQuiet'
    BY <1>0 DEF FinishedIsQuiet, LeaseTypeOK
  <2> QED BY <2>1, <2>2, <2>3 DEF LeaseInv
<1>2. CASE UNCHANGED leaseVars
  BY <1>0, <1>2
  DEF leaseVars, attemptVars, LeaseInv, LeaseTypeOK, GoroutineReportsOnce,
      OnceIsExclusive, FinishedIsQuiet, Matches
<1> QED
  BY <1>1, <1>2, ProcessKeepsLease, HeartbeatKeepsLease, StopKeepsLease
  DEF LeaseNext, Process, Settled

\* The invariant of the lease holds in every reachable state.
THEOREM LeaseInvariance == LeaseSpec => []LeaseInv
  BY LeaseInitInv, LeaseNextInv, PTL DEF LeaseSpec

\* Whoever has an answer of stop knows whether the heartbeat failed, however
\* the failure, the cancellation and the two callers are interleaved
\* (heartbeat.go:18-37).
THEOREM FailuresAreReported == LeaseSpec => []FailureIsReported
<1>1. LeaseInv => FailureIsReported
  BY DEF LeaseInv, GoroutineReportsOnce, FailureIsReported
<1> QED BY <1>1, LeaseInvariance, PTL

\* stop returns to its callers only after the goroutine has made its last
\* call of heartbeat (heartbeat.go:35-37).
THEOREM StopWaitsForGoroutine == LeaseSpec => []StopWaits
<1>1. LeaseInv => StopWaits
  BY DEF LeaseInv, GoroutineReportsOnce, OnceIsExclusive, StopWaits, LeaseTypeOK
<1> QED BY <1>1, LeaseInvariance, PTL

\* Nothing changes a finished row: not the finisher's own heartbeat, which
\* has ended, not a late one of an earlier owner, which the token fences off.
THEOREM FinishedIsFinal == LeaseSpec => FinishedRowIsFinal
<1>1. LeaseInv /\ [LeaseNext]_leaseVars => [row.finished => row' = row]_row
  <2> SUFFICES ASSUME LeaseInv, [LeaseNext]_leaseVars, row.finished
               PROVE  row' = row
    OBVIOUS
  <2>0. LeaseTypeOK /\ FinishedIsQuiet
    BY DEF LeaseInv
  <2>1. ASSUME NEW w \in Worker, HeartbeatRenewed(w) PROVE FALSE
    BY <2>0, <2>1 DEF FinishedIsQuiet, HeartbeatRenewed
  <2>2. ASSUME NEW w \in Worker, Finish(w) PROVE row' = row
    <3>1. row.finished = TRUE /\ row.live = FALSE
      BY <2>0 DEF FinishedIsQuiet, LeaseTypeOK
    <3>2. [row EXCEPT !.finished = TRUE, !.live = FALSE] = row
      BY <2>0, <3>1 DEF LeaseTypeOK
    <3> QED BY <2>2, <3>2 DEF Finish
  <2> QED
    BY <2>1, <2>2
    DEF LeaseNext, LeaseExpires, Settled, Heartbeat, Stop, Process, leaseVars,
        HeartbeatCtxDone, SelectTick, CancelWork, HeartbeatFails, StopReceives,
        StopUnblocked, Abandon, StopUnchanged, Claim, Crash, AttemptEnds,
        ParentCancel, StopCalled
<1> QED BY <1>1, LeaseInvariance, PTL DEF LeaseSpec, FinishedRowIsFinal
-----------------------------------------------------------------------------
(* The recurring loops.                                                    *)

\* A loop that a goroutine of Join has seen to end stays ended, and Join
\* returns only after it has seen them all.
WaitedAreDone ==
  /\ \A l \in waited : at[l] = "done"
  /\ joined => waited = Loop

LoopInv == LoopTypeOK /\ WaitedAreDone

\* Nothing runs before the owner starts the loops.
LEMMA LoopInitInv == LoopInit => LoopInv
<1> SUFFICES ASSUME LoopInit PROVE LoopInv
  OBVIOUS
<1> USE DEF LoopInit
<1>1. MinBackoff \in MinBackoff..MaxBackoff /\ 0 \in 0..Capacity
  BY LoopAssumption
<1>2. LoopTypeOK
  BY <1>1 DEF LoopTypeOK
<1>3. WaitedAreDone
  BY DEF WaitedAreDone
<1> QED BY <1>2, <1>3 DEF LoopInv

\* nextAdaptiveInterval stays between the two bounds of the backoff.
LEMMA BackoffIsBounded ==
  ASSUME NEW current \in MinBackoff..MaxBackoff, NEW worked \in BOOLEAN
  PROVE  NextBackoff(current, worked) \in MinBackoff..MaxBackoff
<1>1. CASE worked
  BY <1>1, LoopAssumption DEF NextBackoff
<1>2. CASE ~worked
  BY <1>2, LoopAssumption DEF NextBackoff
<1> QED BY <1>1, <1>2

\* A step of a loop moves that loop only, and never one that has ended.
LEMMA LoopMoves ==
  ASSUME LoopInv, NEW l \in Loop, NEW place, To(l, place), at[l] # "done"
  PROVE  /\ \A m \in Loop : m # l => at'[m] = at[m]
         /\ at'[l] = place
         /\ UNCHANGED joinVars => WaitedAreDone'
<1>1. /\ \A m \in Loop : m # l => at'[m] = at[m]
      /\ at'[l] = place
  BY DEF LoopInv, LoopTypeOK, To
<1>2. ASSUME UNCHANGED joinVars PROVE WaitedAreDone'
  <2>1. waited' = waited /\ joined' = joined /\ l \notin waited
    BY <1>2 DEF joinVars, LoopInv, WaitedAreDone
  <2>2. \A m \in waited : m \in Loop /\ m # l
    BY <2>1 DEF LoopInv, LoopTypeOK
  <2> QED BY <1>1, <2>1, <2>2 DEF LoopInv, WaitedAreDone
<1> QED BY <1>1, <1>2

\* Each step preserves the invariant.
LEMMA LoopNextInv == LoopInv /\ [LoopNext]_loopVars => LoopInv'
<1> SUFFICES ASSUME LoopInv, [LoopNext]_loopVars PROVE LoopInv'
  OBVIOUS
<1>0. LoopTypeOK /\ WaitedAreDone
  BY DEF LoopInv
<1>1. ASSUME UNCHANGED at, UNCHANGED joinVars PROVE WaitedAreDone'
  BY <1>0, <1>1 DEF WaitedAreDone, joinVars
<1>2. CASE CancelLoops
  <2>1. LoopTypeOK'
    BY <1>0, <1>2 DEF CancelLoops, LoopTypeOK, timerVars, hintVars, joinVars
  <2> QED BY <1>1, <1>2, <2>1 DEF CancelLoops, LoopInv
<1>3. CASE JoinStep
  <2>1. LoopTypeOK'
    BY <1>0, <1>3
    DEF JoinStep, JoinReturns, JoinSees, LoopTypeOK, timerVars, hintVars
  <2>2. WaitedAreDone'
    BY <1>0, <1>3 DEF JoinStep, JoinReturns, JoinSees, WaitedAreDone, LoopTypeOK
  <2> QED BY <2>1, <2>2 DEF LoopInv
<1>4. ASSUME NEW l \in Loop,
             Start(l) \/ FirstTick(l) \/ ExecuteHintReturns(l)
      PROVE  LoopInv'
  <2>1. PICK place \in {"first", "tick", "select", "done"} : To(l, place)
    BY <1>4 DEF Start, FirstTick, ExecuteHintReturns
  <2>2. at[l] # "done"
        /\ UNCHANGED <<cancelled, backoff, timerVars, hintVars, joinVars>>
    BY <1>4 DEF Start, FirstTick, ExecuteHintReturns
  <2>3. LoopTypeOK'
    BY <1>0, <2>1, <2>2 DEF LoopTypeOK, To, timerVars, hintVars, joinVars
  <2> QED BY <2>1, <2>2, <2>3, LoopMoves DEF LoopInv
<1>5. ASSUME NEW l \in Loop, NEW worked \in BOOLEAN, TickReturns(l, worked)
      PROVE  LoopInv'
  <2>1. PICK place \in {"select", "done"} : To(l, place)
    BY <1>5 DEF TickReturns
  <2>2. at[l] # "done" /\ UNCHANGED <<cancelled, fired, hintVars, joinVars>>
    BY <1>5 DEF TickReturns
  <2>3. backoff' \in [Loop -> MinBackoff..MaxBackoff] /\ armed' \subseteq Loop
    BY <1>0, <1>5, BackoffIsBounded DEF TickReturns, LoopTypeOK
  <2>4. LoopTypeOK'
    BY <1>0, <2>1, <2>2, <2>3 DEF LoopTypeOK, To, hintVars, joinVars
  <2> QED BY <2>1, <2>2, <2>4, LoopMoves DEF LoopInv
<1>6. ASSUME NEW l \in Loop, TimerFires(l) PROVE LoopInv'
  <2>1. LoopTypeOK'
    BY <1>0, <1>6 DEF TimerFires, LoopTypeOK, hintVars, joinVars
  <2> QED BY <1>1, <1>6, <2>1 DEF TimerFires, LoopInv
<1>7. ASSUME NEW l \in Loop, SelectDone(l) \/ SelectFired(l) PROVE LoopInv'
  <2>1. PICK place \in {"tick", "done"} : To(l, place)
    BY <1>7 DEF SelectDone, SelectFired
  <2>2. /\ at[l] # "done" /\ UNCHANGED <<cancelled, backoff, hintVars, joinVars>>
        /\ armed' \subseteq armed /\ fired' \subseteq fired
    BY <1>7 DEF SelectDone, SelectFired, StopTimer
  <2>3. LoopTypeOK'
    BY <1>0, <2>1, <2>2 DEF LoopTypeOK, To, hintVars, joinVars
  <2> QED BY <2>1, <2>2, <2>3, LoopMoves DEF LoopInv
<1>8. ASSUME NEW l \in Loop, SelectHint(l) PROVE LoopInv'
  <2>1. PICK place \in {"tick", "execute"} : To(l, place)
    BY <1>8 DEF SelectHint
  <2>2. /\ at[l] # "done"
        /\ UNCHANGED <<cancelled, backoff, subscribers, closed, listening, joinVars>>
        /\ armed' \subseteq armed /\ fired' \subseteq fired
        /\ hints' = [hints EXCEPT ![l] = @ - 1] /\ hints[l] > 0
    BY <1>8 DEF SelectHint, StopTimer, timerVars
  <2>3. LoopTypeOK'
    BY <1>0, <2>1, <2>2, LoopAssumption DEF LoopTypeOK, To, joinVars
  <2> QED BY <2>1, <2>2, <2>3, LoopMoves DEF LoopInv
<1>9. ASSUME NEW l \in Loop, SelectClosed(l) PROVE LoopInv'
  <2>1. /\ (at[l] = "select" /\ To(l, "tick")) \/ UNCHANGED at
        /\ UNCHANGED <<cancelled, backoff, subscribers, hints, closed, joinVars>>
        /\ armed' \subseteq armed /\ fired' \subseteq fired
        /\ listening' \subseteq listening
    BY <1>9 DEF SelectClosed, StopTimer, timerVars
  <2>2. LoopTypeOK'
    BY <1>0, <2>1 DEF LoopTypeOK, To, joinVars
  <2> QED BY <1>1, <2>1, <2>2, LoopMoves DEF LoopInv
<1>10. ASSUME NEW l \in Hinted, Subscribe(l) \/ SendHint(l) \/ CloseHints(l)
       PROVE  LoopInv'
  <2>0. l \in Loop
    BY LoopAssumption DEF Loop
  <2>1. hints' \in [Loop -> 0..Capacity]
    <3>1. CASE SendHint(l)
      <4>1. hints[l] + 1 \in 0..Capacity
        BY <1>0, <2>0, <3>1, LoopAssumption DEF SendHint, LoopTypeOK
      <4> QED BY <1>0, <3>1, <4>1 DEF SendHint, LoopTypeOK
    <3>2. CASE Subscribe(l) \/ CloseHints(l)
      BY <1>0, <3>2 DEF Subscribe, CloseHints, LoopTypeOK
    <3> QED BY <1>10, <3>1, <3>2
  <2>2. /\ UNCHANGED <<cancelled, at, backoff, armed, fired, listening, waited, joined>>
        /\ subscribers' \subseteq subscribers \cup {l} /\ closed' \subseteq closed \cup {l}
    BY <1>10 DEF Subscribe, SendHint, CloseHints, timerVars, joinVars
  <2>3. LoopTypeOK'
    BY <1>0, <2>1, <2>2 DEF LoopTypeOK
  <2> QED BY <1>1, <2>2, <2>3 DEF joinVars, LoopInv
<1>11. ASSUME NEW kind \in QueueKind, Publish(kind) PROVE LoopInv'
  <2>0. hints' \in [Loop -> 0..Capacity]
    <3> SUFFICES ASSUME NEW l \in Loop
                 PROVE  (IF /\ l \in subscribers
                            /\ Trimmed[KindOf[l]] = Trimmed[kind]
                            /\ hints[l] < Capacity
                         THEN hints[l] + 1 ELSE hints[l]) \in 0..Capacity
      BY <1>11 DEF Publish
    <3>1. hints[l] \in 0..Capacity
      BY <1>0 DEF LoopTypeOK
    <3> QED BY <3>1, LoopAssumption
  <2>1. LoopTypeOK'
    BY <1>0, <1>11, <2>0 DEF Publish, LoopTypeOK, timerVars, joinVars
  <2> QED BY <1>1, <1>11, <2>1 DEF Publish, LoopInv
<1>12. CASE UNCHANGED loopVars
  BY <1>0, <1>12
  DEF loopVars, timerVars, hintVars, joinVars, LoopInv, LoopTypeOK, WaitedAreDone
<1> QED
  BY <1>2, <1>3, <1>4, <1>5, <1>6, <1>7, <1>8, <1>9, <1>10, <1>11, <1>12
  DEF LoopNext, LoopStep

\* Types; in particular the interval of an adaptive loop never leaves its
\* bounds and no hint channel holds more than its capacity.
THEOREM LoopsKeepTypes == LoopSpec => []LoopInv
  BY LoopInitInv, LoopNextInv, PTL DEF LoopSpec

\* The safety half of JoinsExactly: when the channel of Join is closed, no
\* loop runs (lifecycle.go, Join).
THEOREM JoinWaitsForAll == LoopSpec => []JoinedIsQuiet
<1>1. LoopInv => JoinedIsQuiet
  BY DEF LoopInv, WaitedAreDone, JoinedIsQuiet
<1> QED BY <1>1, LoopsKeepTypes, PTL

\* The safety half of LoopCadence: every wake of a sleeping loop uses up a
\* timer, a hint or the notice of a closed channel, so none spins.
THEOREM NoLoopSpins == LoopSpec => WakesForCause
<1> DEFINE Cause ==
      \A l \in Loop : at[l] = "select" /\ at'[l] = "tick" =>
        \/ l \in fired \ fired'
        \/ hints'[l] < hints[l]
        \/ l \in listening \ listening'
<1>1. LoopInv /\ [LoopNext]_loopVars => [Cause]_loopVars
  <2> SUFFICES ASSUME LoopInv, LoopNext PROVE Cause
    OBVIOUS
  <2>1. ASSUME NEW l \in Loop, NEW place, To(l, place), at[l] # "done",
               at[l] = "select" /\ place = "tick" =>
                 \/ l \in fired \ fired'
                 \/ hints'[l] < hints[l]
                 \/ l \in listening \ listening'
        PROVE  Cause
    BY <2>1, LoopMoves
  <2>2. ASSUME UNCHANGED at PROVE Cause
    BY <2>2
  <2> HIDE DEF Cause
  <2>3. ASSUME NEW l \in Loop, Start(l) \/ LoopStep(l) PROVE Cause
    <3>1. CASE Start(l) \/ FirstTick(l) \/ ExecuteHintReturns(l)
      BY <2>1, <3>1 DEF Start, FirstTick, ExecuteHintReturns
    <3>2. ASSUME NEW worked \in BOOLEAN, TickReturns(l, worked) PROVE Cause
      BY <2>1, <3>2 DEF TickReturns
    <3>3. CASE SelectDone(l) \/ SelectFired(l)
      BY <2>1, <3>3 DEF SelectDone, SelectFired
    <3>4. CASE SelectHint(l)
      <4>1. hints[l] \in 0..Capacity /\ hints'[l] = hints[l] - 1
        BY <3>4 DEF SelectHint, LoopInv, LoopTypeOK
      <4>2. hints'[l] < hints[l]
        BY <4>1, LoopAssumption
      <4> QED BY <2>1, <3>4, <4>2 DEF SelectHint
    <3>5. CASE SelectClosed(l)
      <4>1. l \in listening \ listening'
        BY <3>5 DEF SelectClosed
      <4>2. at[l] = "select" /\ (To(l, "tick") \/ UNCHANGED at)
        BY <3>5 DEF SelectClosed, timerVars
      <4> QED BY <2>1, <2>2, <4>1, <4>2
    <3> QED BY <2>3, <3>1, <3>2, <3>3, <3>4, <3>5 DEF LoopStep
  <2> QED
    BY <2>2, <2>3
    DEF LoopNext, CancelLoops, JoinStep, JoinReturns, JoinSees, TimerFires,
        Subscribe, SendHint, CloseHints, Publish
<1> QED BY <1>1, LoopsKeepTypes, PTL DEF LoopSpec, WakesForCause
=============================================================================
