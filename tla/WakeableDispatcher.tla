-------------------------- MODULE WakeableDispatcher --------------------------
(***************************************************************************)
(* StartWakeableDispatcherWithExecutors (worker/lifecycle.go): one         *)
(* dispatcher goroutine receives task locators from a lossy wakeup channel *)
(* and from a periodic recovery query, and hands them over the buffered    *)
(* channel jobs to Concurrency executor goroutines.  Each executor reports *)
(* on the buffered channel completed, which is how the dispatcher's local  *)
(* counter inFlight goes down.                                             *)
(*                                                                         *)
(* A step is one channel operation (or one local computation between two   *)
(* of them) of one goroutine.  The owner's callbacks recover and execute   *)
(* are external: recover returns any list of tasks or an error, execute    *)
(* takes any time and may panic, which runTick turns into a normal return. *)
(***************************************************************************)
EXTENDS Integers, Sequences, FiniteSets

CONSTANTS
  Task,         (* task locators                                            *)
  NoTask,       (* the job of an executor that has none                     *)
  Concurrency,  (* config.Concurrency, after the default of 1 is applied    *)
  WakeupBuffer  (* capacity of the wakeup channel of the caller             *)

ASSUME ConcurrencyAssumption == Concurrency \in Nat \ {0}
ASSUME WakeupBufferAssumption == WakeupBuffer \in Nat
ASSUME NoTaskAssumption == NoTask \notin Task

VARIABLES
  ctxDone,     (* the context is cancelled                                  *)
  pc,          (* where the dispatcher goroutine is                         *)
  batch,       (* items it received and has not sent to jobs yet            *)
  inFlight,    (* its local counter                                         *)
  wakeups,     (* contents of the wakeup channel                            *)
  wakeupState, (* "open", "closed" by its sender, or "nil": seen closed     *)
  jobs,        (* contents of the channel jobs                              *)
  completed,   (* number of tokens in the channel completed                 *)
  exec,        (* where each executor goroutine is                          *)
  job          (* the job each executor holds                               *)

dispatcherVars == <<pc, batch, inFlight>>
executorVars   == <<exec, job>>
vars == <<ctxDone, dispatcherVars, wakeups, wakeupState, jobs, completed,
          executorVars>>

Executor == 1..Concurrency

\* close(jobs) is the dispatcher's step from its select to the join.
JobsClosed == pc \in {"join", "done"}

Busy == {e \in Executor : exec[e] \in {"running", "report"}}

TypeOK ==
  /\ ctxDone \in BOOLEAN
  /\ pc \in {"recover", "send", "select", "join", "done"}
  /\ batch \in Seq(Task)
  /\ inFlight \in Nat
  /\ wakeups \in Seq(Task)
  /\ Len(wakeups) <= WakeupBuffer
  /\ wakeupState \in {"open", "closed", "nil"}
  /\ jobs \in Seq(Task)
  /\ Len(jobs) <= Concurrency
  /\ completed \in 0..Concurrency
  /\ exec \in [Executor -> {"idle", "running", "report", "exited"}]
  /\ job \in [Executor -> Task \cup {NoTask}]

\* Started with a cancelled context the function returns a closed done at
\* once.  Otherwise the goroutine starts its executors and then runs
\* dispatchRecovery.
Init ==
  /\ ctxDone \in BOOLEAN
  /\ pc = IF ctxDone THEN "done" ELSE "recover"
  /\ batch = <<>> /\ inFlight = 0
  /\ wakeups = <<>> /\ wakeupState = "open"
  /\ jobs = <<>> /\ completed = 0
  /\ exec = [e \in Executor |-> IF ctxDone THEN "exited" ELSE "idle"]
  /\ job = [e \in Executor |-> NoTask]
-----------------------------------------------------------------------------
(* The environment: the caller cancels, publishers send wakeups.           *)

Cancel ==
  /\ ~ctxDone
  /\ ctxDone' = TRUE
  /\ UNCHANGED <<dispatcherVars, wakeups, wakeupState, jobs, completed,
                 executorVars>>

\* A publisher never blocks: a full channel drops the hint.
Offer(t) ==
  /\ wakeupState = "open"
  /\ Len(wakeups) < WakeupBuffer
  /\ wakeups' = Append(wakeups, t)
  /\ UNCHANGED <<ctxDone, dispatcherVars, wakeupState, jobs, completed,
                 executorVars>>

CloseWakeups ==
  /\ wakeupState = "open"
  /\ wakeupState' = "closed"
  /\ UNCHANGED <<ctxDone, dispatcherVars, wakeups, jobs, completed,
                 executorVars>>
-----------------------------------------------------------------------------
(* The dispatcher goroutine.                                               *)

Available == Concurrency - inFlight

Truncate(items) ==
  IF Len(items) > Available THEN SubSeq(items, 1, Available) ELSE items

\* dispatchRecovery with a full pool: recover is not called.
RecoverSkipped ==
  /\ pc = "recover"
  /\ Available <= 0
  /\ pc' = "select"
  /\ UNCHANGED <<ctxDone, batch, inFlight, wakeups, wakeupState, jobs,
                 completed, executorVars>>

\* recover returns an error: it is logged and nothing is dispatched.
RecoverFailed ==
  /\ pc = "recover"
  /\ Available > 0
  /\ pc' = "select"
  /\ UNCHANGED <<ctxDone, batch, inFlight, wakeups, wakeupState, jobs,
                 completed, executorVars>>

\* recover returns items, possibly more than it was asked for.
Recovered(items) ==
  /\ pc = "recover"
  /\ Available > 0
  /\ batch' = Truncate(items)
  /\ pc' = "send"
  /\ UNCHANGED <<ctxDone, inFlight, wakeups, wakeupState, jobs, completed,
                 executorVars>>

\* jobs <- item; inFlight++.  Blocks while the buffer of jobs is full.
SendJob ==
  /\ pc = "send"
  /\ batch # <<>>
  /\ Len(jobs) < Concurrency
  /\ jobs' = Append(jobs, Head(batch))
  /\ batch' = Tail(batch)
  /\ inFlight' = inFlight + 1
  /\ UNCHANGED <<ctxDone, pc, wakeups, wakeupState, completed, executorVars>>

SendDone ==
  /\ pc = "send"
  /\ batch = <<>>
  /\ pc' = "select"
  /\ UNCHANGED <<ctxDone, batch, inFlight, wakeups, wakeupState, jobs,
                 completed, executorVars>>

\* input is the wakeup channel, or nil when the pool is full.
InputOpen == wakeupState # "nil" /\ inFlight < Concurrency

SelectWakeup ==
  /\ pc = "select"
  /\ InputOpen
  /\ wakeups # <<>>
  /\ batch' = <<Head(wakeups)>>
  /\ wakeups' = Tail(wakeups)
  /\ pc' = "send"
  /\ UNCHANGED <<ctxDone, inFlight, wakeupState, jobs, completed,
                 executorVars>>

\* The wakeup channel is closed and drained: it becomes nil.
SelectWakeupsClosed ==
  /\ pc = "select"
  /\ InputOpen
  /\ wakeups = <<>> /\ wakeupState = "closed"
  /\ wakeupState' = "nil"
  /\ UNCHANGED <<ctxDone, dispatcherVars, wakeups, jobs, completed,
                 executorVars>>

SelectCompleted ==
  /\ pc = "select"
  /\ completed > 0
  /\ completed' = completed - 1
  /\ inFlight' = inFlight - 1
  /\ UNCHANGED <<ctxDone, pc, batch, wakeups, wakeupState, jobs,
                 executorVars>>

\* A bug to tell apart: the timer is reset without a recovery pass.
TimerWithoutRecovery ==
  /\ pc = "select"
  /\ UNCHANGED vars

\* The recovery timer fires: dispatchRecovery, and the timer is reset.
SelectTimer ==
  /\ pc = "select"
  /\ pc' = "recover"
  /\ UNCHANGED <<ctxDone, batch, inFlight, wakeups, wakeupState, jobs,
                 completed, executorVars>>

\* A bug to tell apart: shutdown is taken only when the pool is idle.
CtxDoneWhenIdle ==
  /\ pc = "select"
  /\ ctxDone /\ inFlight = 0
  /\ pc' = "join"
  /\ UNCHANGED <<ctxDone, batch, inFlight, wakeups, wakeupState, jobs,
                 completed, executorVars>>

\* ctx.Done: close(jobs), then executors.Wait().
SelectCtxDone ==
  /\ pc = "select"
  /\ ctxDone
  /\ pc' = "join"
  /\ UNCHANGED <<ctxDone, batch, inFlight, wakeups, wakeupState, jobs,
                 completed, executorVars>>

\* executors.Wait() returns and the deferred close(done) runs.
CloseDone ==
  /\ pc = "join"
  /\ \A e \in Executor : exec[e] = "exited"
  /\ pc' = "done"
  /\ UNCHANGED <<ctxDone, batch, inFlight, wakeups, wakeupState, jobs,
                 completed, executorVars>>
-----------------------------------------------------------------------------
(* The executor goroutines.                                                *)

\* A bug to tell apart: a job skipped after cancellation is not reported.
SkipWithoutReport(e) ==
  /\ exec[e] = "idle"
  /\ jobs # <<>>
  /\ jobs' = Tail(jobs)
  /\ job' = [job EXCEPT ![e] = IF ctxDone THEN NoTask ELSE Head(jobs)]
  /\ exec' = [exec EXCEPT ![e] = IF ctxDone THEN "idle" ELSE "running"]
  /\ UNCHANGED <<ctxDone, dispatcherVars, wakeups, wakeupState, completed>>

\* job := <-jobs.  A job received after cancellation is not executed.
TakeJob(e) ==
  /\ exec[e] = "idle"
  /\ jobs # <<>>
  /\ jobs' = Tail(jobs)
  /\ job' = [job EXCEPT ![e] = Head(jobs)]
  /\ exec' = [exec EXCEPT ![e] = IF ctxDone THEN "report" ELSE "running"]
  /\ UNCHANGED <<ctxDone, dispatcherVars, wakeups, wakeupState, completed>>

\* execute returns, or panics inside runTick, which recovers.
ExecuteReturns(e) ==
  /\ exec[e] = "running"
  /\ exec' = [exec EXCEPT ![e] = "report"]
  /\ UNCHANGED <<ctxDone, dispatcherVars, wakeups, wakeupState, jobs,
                 completed, job>>

\* completed <- struct{}{}.  Blocks while its buffer is full.
Report(e) ==
  /\ exec[e] = "report"
  /\ completed < Concurrency
  /\ completed' = completed + 1
  /\ exec' = [exec EXCEPT ![e] = "idle"]
  /\ job' = [job EXCEPT ![e] = NoTask]
  /\ UNCHANGED <<ctxDone, dispatcherVars, wakeups, wakeupState, jobs>>

\* The range over jobs ends when it is closed and drained.
ExecutorExit(e) ==
  /\ exec[e] = "idle"
  /\ JobsClosed /\ jobs = <<>>
  /\ exec' = [exec EXCEPT ![e] = "exited"]
  /\ UNCHANGED <<ctxDone, dispatcherVars, wakeups, wakeupState, jobs,
                 completed, job>>
-----------------------------------------------------------------------------
\* The owner's query may ignore the limit it is given.
RecoverResult == UNION {[1..n -> Task] : n \in 0..(Concurrency + 1)}

Select ==
  SelectWakeup \/ SelectWakeupsClosed \/ SelectCompleted \/ SelectTimer
    \/ SelectCtxDone

Dispatch ==
  \/ RecoverSkipped \/ RecoverFailed
  \/ \E items \in RecoverResult : Recovered(items)
  \/ SendJob \/ SendDone
  \/ Select
  \/ CloseDone

Execute(e) == TakeJob(e) \/ ExecuteReturns(e) \/ Report(e) \/ ExecutorExit(e)

Environment == Cancel \/ CloseWakeups \/ \E t \in Task : Offer(t)

\* The pool has shut down: nothing is left to run.
Stopped == pc = "done" /\ UNCHANGED vars

Next ==
  Dispatch \/ Environment \/ Stopped \/ \E e \in Executor : Execute(e)

Spec == Init /\ [][Next]_vars

-----------------------------------------------------------------------------
(* Properties.                                                             *)

\* inFlight counts exactly the items queued in jobs, held by an executor or
\* waiting in completed: no slot of the pool is lost or counted twice,
\* whatever panics, wakeups, recovery passes and cancellation happen.
SlotsAccounted ==
  inFlight = Len(jobs) + Cardinality(Busy) + completed

\* Neither side of the pool ever blocks on a full buffer: the dispatcher
\* sending to jobs (where it could not see ctx.Done) and an executor sending
\* to completed (which nobody reads any more during the join).
SendsNeverBlock ==
  /\ (pc = "send" /\ batch # <<>>) => Len(jobs) < Concurrency
  /\ \A e \in Executor : exec[e] = "report" => completed < Concurrency

\* The channel done is closed only after every executor has returned and
\* every queued job was taken: the owner may tear down what execute uses.
DoneMeansQuiescent ==
  pc = "done" => jobs = <<>> /\ \A e \in Executor : exec[e] = "exited"

\* Cancelling the context eventually closes done.
ShutdownCompletes == ctxDone ~> pc = "done"
=============================================================================
