--------------------------- MODULE PollingDispatcher ---------------------------
(***************************************************************************)
(* StartDispatcherWithExecutors (worker/lifecycle.go): one discovery       *)
(* goroutine asks scan for as many items as the pool has free slots, takes *)
(* a slot and queues a job for each, and sleeps for an adaptive interval   *)
(* or until an executor signals on wake that it gave its slot back.        *)
(*                                                                         *)
(* Items are interchangeable for the properties here, so the channels are  *)
(* counters.  scan is external: it returns any number of items or an error.*)
(***************************************************************************)
EXTENDS Integers, FiniteSets

CONSTANTS
  Concurrency,  (* config.Concurrency after its default                     *)
  MinInterval,  (* config.MinInterval after its default                     *)
  MaxInterval   (* config.MaxInterval, raised to MinInterval if below it    *)

ASSUME ConcurrencyAssumption == Concurrency \in Nat \ {0}
ASSUME IntervalAssumption ==
  /\ MinInterval \in Nat \ {0} /\ MaxInterval \in Nat
  /\ MinInterval <= MaxInterval

VARIABLES
  ctxDone,    (* the context is cancelled                                   *)
  pc,         (* where the discovery goroutine is                           *)
  available,  (* its local variables: free slots when the iteration began,  *)
  batch,      (*   items scanned and not queued yet,                        *)
  interval,   (*   and the current sleep                                    *)
  slots,      (* tokens in the channel slots                                *)
  jobs,       (* jobs in the channel jobs                                   *)
  wake,       (* a token is in the channel wake                             *)
  exec        (* where each executor goroutine is                           *)

dispatcherVars == <<pc, available, batch, interval>>
vars == <<ctxDone, dispatcherVars, slots, jobs, wake, exec>>

Executor == 1..Concurrency

JobsClosed == pc \in {"join", "done"}

\* Executors that took a job and still hold its slot.
Holding == {e \in Executor : exec[e] \in {"running", "release"}}

TypeOK ==
  /\ ctxDone \in BOOLEAN
  /\ pc \in {"top", "scan", "acquire", "enqueue", "timer", "select",
             "join", "done"}
  /\ available \in 0..Concurrency
  /\ batch \in 0..Concurrency
  /\ interval \in MinInterval..MaxInterval
  /\ slots \in 0..Concurrency
  /\ jobs \in 0..Concurrency
  /\ wake \in BOOLEAN
  /\ exec \in [Executor -> {"idle", "running", "release", "signal", "exited"}]

\* A cancelled context makes the function return a closed done at once.
Init ==
  /\ ctxDone \in BOOLEAN
  /\ pc = IF ctxDone THEN "done" ELSE "top"
  /\ available = 0 /\ batch = 0 /\ interval = MinInterval
  /\ slots = 0 /\ jobs = 0 /\ wake = FALSE
  /\ exec = [e \in Executor |-> IF ctxDone THEN "exited" ELSE "idle"]

Cancel ==
  /\ ~ctxDone
  /\ ctxDone' = TRUE
  /\ UNCHANGED <<dispatcherVars, slots, jobs, wake, exec>>
-----------------------------------------------------------------------------
(* The discovery goroutine.                                                *)

nextAdaptiveInterval(current, worked) ==
  IF worked THEN MinInterval
  ELSE IF current >= MaxInterval \/ current * 2 > MaxInterval THEN MaxInterval
  ELSE current * 2

\* available := Concurrency - len(slots); a full pool skips the scan.
ReadAvailable ==
  /\ pc = "top"
  /\ available' = Concurrency - slots
  /\ pc' = IF available' > 0 THEN "scan" ELSE "timer"
  /\ UNCHANGED <<ctxDone, batch, interval, slots, jobs, wake, exec>>

ScanFailed ==
  /\ pc = "scan"
  /\ interval' = nextAdaptiveInterval(interval, FALSE)
  /\ pc' = "timer"
  /\ UNCHANGED <<ctxDone, available, batch, slots, jobs, wake, exec>>

\* items[:available] when scan returned more than it was asked for.
Truncate(n) == IF n > available THEN available ELSE n

\* scan returned n items.  interval is only read again in the select.
Scanned(n) ==
  /\ pc = "scan"
  /\ batch' = Truncate(n)
  /\ interval' = nextAdaptiveInterval(interval, batch' > 0)
  /\ pc' = "acquire"
  /\ UNCHANGED <<ctxDone, available, slots, jobs, wake, exec>>

\* slots <- struct{}{}
AcquireSlot ==
  /\ pc = "acquire"
  /\ batch > 0
  /\ slots < Concurrency
  /\ slots' = slots + 1
  /\ pc' = "enqueue"
  /\ UNCHANGED <<ctxDone, available, batch, interval, jobs, wake, exec>>

\* jobs <- item
EnqueueJob ==
  /\ pc = "enqueue"
  /\ jobs < Concurrency
  /\ jobs' = jobs + 1
  /\ batch' = batch - 1
  /\ pc' = "acquire"
  /\ UNCHANGED <<ctxDone, available, interval, slots, wake, exec>>

BatchDone ==
  /\ pc = "acquire"
  /\ batch = 0
  /\ pc' = "timer"
  /\ UNCHANGED <<ctxDone, available, batch, interval, slots, jobs, wake, exec>>

\* timer := time.NewTimer(interval): executors run between the count of the
\* slots and the select.
StartTimer ==
  /\ pc = "timer"
  /\ pc' = "select"
  /\ UNCHANGED <<ctxDone, available, batch, interval, slots, jobs, wake, exec>>

\* The interval's timer fires.
SelectTimer ==
  /\ pc = "select"
  /\ pc' = "top"
  /\ UNCHANGED <<ctxDone, available, batch, interval, slots, jobs, wake, exec>>

SelectWake ==
  /\ pc = "select"
  /\ wake
  /\ wake' = FALSE
  /\ pc' = "top"
  /\ UNCHANGED <<ctxDone, available, batch, interval, slots, jobs, exec>>

\* A bug to tell apart: shutdown is taken only when the pool is idle.
CtxDoneWhenIdle ==
  /\ pc = "select"
  /\ ctxDone /\ slots = 0
  /\ pc' = "join"
  /\ UNCHANGED <<ctxDone, available, batch, interval, slots, jobs, wake, exec>>

\* ctx.Done: close(jobs), then executors.Wait().
SelectCtxDone ==
  /\ pc = "select"
  /\ ctxDone
  /\ pc' = "join"
  /\ UNCHANGED <<ctxDone, available, batch, interval, slots, jobs, wake, exec>>

CloseDone ==
  /\ pc = "join"
  /\ \A e \in Executor : exec[e] = "exited"
  /\ pc' = "done"
  /\ UNCHANGED <<ctxDone, available, batch, interval, slots, jobs, wake, exec>>
-----------------------------------------------------------------------------
(* The executor goroutines.                                                *)

Move(e, from, to) == exec[e] = from /\ exec' = [exec EXCEPT ![e] = to]

\* A job received after cancellation is not executed; its slot is still released.
TakeJob(e) ==
  /\ jobs > 0
  /\ jobs' = jobs - 1
  /\ Move(e, "idle", IF ctxDone THEN "release" ELSE "running")
  /\ UNCHANGED <<ctxDone, dispatcherVars, slots, wake>>

ExecuteReturns(e) ==
  /\ Move(e, "running", "release")
  /\ UNCHANGED <<ctxDone, dispatcherVars, slots, jobs, wake>>

\* <-slots
ReleaseSlot(e) ==
  /\ slots > 0
  /\ slots' = slots - 1
  /\ Move(e, "release", "signal")
  /\ UNCHANGED <<ctxDone, dispatcherVars, jobs, wake>>

\* A bug to tell apart: the signal is only sent to a goroutine already waiting.
SignalIfWaiting(e) ==
  /\ wake' = (wake \/ pc = "select")
  /\ Move(e, "signal", "idle")
  /\ UNCHANGED <<ctxDone, dispatcherVars, slots, jobs>>

\* select { case wake <- struct{}{}: default: } on a buffer of one.
Signal(e) ==
  /\ wake' = TRUE
  /\ Move(e, "signal", "idle")
  /\ UNCHANGED <<ctxDone, dispatcherVars, slots, jobs>>

ExecutorExit(e) ==
  /\ JobsClosed /\ jobs = 0
  /\ Move(e, "idle", "exited")
  /\ UNCHANGED <<ctxDone, dispatcherVars, slots, jobs, wake>>
-----------------------------------------------------------------------------
Dispatch ==
  \/ ReadAvailable \/ ScanFailed
  \/ \E n \in 0..(Concurrency + 1) : Scanned(n)
  \/ AcquireSlot \/ EnqueueJob \/ BatchDone \/ StartTimer
  \/ SelectTimer \/ SelectWake \/ SelectCtxDone \/ CloseDone

Execute(e) ==
  \/ TakeJob(e) \/ ExecuteReturns(e) \/ ReleaseSlot(e) \/ Signal(e)
  \/ ExecutorExit(e)

\* The pool has shut down: nothing is left to run.
Stopped == pc = "done" /\ UNCHANGED vars

Next == Dispatch \/ Cancel \/ Stopped \/ \E e \in Executor : Execute(e)

Spec == Init /\ [][Next]_vars

(***************************************************************************)
(* Runnable goroutines run, a select picks at random among ready cases,    *)
(* scan and execute return.                                                *)
(***************************************************************************)
PoolFairness ==
  /\ WF_vars(Dispatch)
  /\ SF_vars(SelectCtxDone)
  /\ \A e \in Executor : WF_vars(Execute(e))
-----------------------------------------------------------------------------
(* Properties.                                                             *)

\* Every token in slots stands for a job that is being queued, is queued or
\* is held by an executor: a slot is neither leaked nor given back twice.
SlotsAccounted ==
  slots = jobs + Cardinality(Holding) + (IF pc = "enqueue" THEN 1 ELSE 0)

\* "scan is never asked for more work than the pool can immediately hold":
\* with a slot count read before the scan, neither channel send of the
\* discovery goroutine ever blocks, so it always gets back to its select.
ScanFitsThePool ==
  /\ (pc = "acquire" /\ batch > 0) => slots < Concurrency
  /\ pc = "enqueue" => jobs < Concurrency

\* A pool found full is looked at again as soon as a slot is free, without
\* waiting for the backoff interval: the token in wake is there or coming.
FreedSlotIsSignalled ==
  (pc \in {"timer", "select"} /\ available = 0 /\ slots < Concurrency)
    => wake \/ \E e \in Executor : exec[e] = "signal"

\* The channel done is closed only when no executor runs and nothing is left
\* in jobs.
DoneMeansQuiescent ==
  pc = "done" => jobs = 0 /\ \A e \in Executor : exec[e] = "exited"

\* Cancelling the context eventually closes done.
ShutdownCompletes == ctxDone ~> pc = "done"
=============================================================================
