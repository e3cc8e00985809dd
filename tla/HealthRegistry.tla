----------------------------- MODULE HealthRegistry -----------------------------
(***************************************************************************)
(* health.Registry (health/health.go): calls of Evaluate that run their    *)
(* checks one after the other, each in a goroutine of its own with a       *)
(* timeout, and keep the history of every check in a shared map.           *)
(*                                                                         *)
(* A member of Evaluation is one call of Evaluate.  The time of a result   *)
(* is the one Evaluate read at its start; the evaluation stands for it.    *)
(* Checks are external: they take any time, and some never return.         *)
(* succeeded and failed are history variables.                             *)
(***************************************************************************)
CONSTANTS
  Evaluation,
  Check,
  Critical,  (* the checks that make the service unavailable                *)
  NoCheck,
  Never      (* the zero time                                               *)

ASSUME CheckAssumption == Critical \subseteq Check /\ NoCheck \notin Check
ASSUME NeverAssumption == Never \notin Evaluation

VARIABLES
  states,     (* the map: last success, last error and its code             *)
  started,    (* evaluations that read their checkedAt                      *)
  todo,       (* checks it has not started                                  *)
  check,      (* the check it waits for, or has a result of                 *)
  err,        (* what it received                                           *)
  expired,    (* the context of this check is done                          *)
  status,     (* its overall status                                         *)
  run,        (* the goroutine of each check of an evaluation               *)
  done,       (* the channel of each: empty or the result                   *)
  succeeded, failed  (* history: evaluations by the result of each check    *)

localVars == <<started, todo, check, err, expired, status>>
healthVars == <<states, localVars, run, done, succeeded, failed>>

Time   == Evaluation \cup {Never}
Result == {"nil", "error"}

HealthTypeOK ==
  /\ states \in [Check -> [success : Time, error : Time,
                           code : {"none", "timeout", "check_failed"}]]
  /\ started \subseteq Evaluation
  /\ todo \in [Evaluation -> SUBSET Check]
  /\ check \in [Evaluation -> Check \cup {NoCheck}]
  /\ err \in [Evaluation -> Result \cup {"waiting"}]
  /\ expired \in [Evaluation -> BOOLEAN]
  /\ status \in [Evaluation -> {"ok", "degraded", "unavailable", "none"}]
  /\ run \in [Evaluation -> [Check -> {"none", "running", "sending", "gone"}]]
  /\ done \in [Evaluation -> [Check -> Result \cup {"empty"}]]
  /\ succeeded \in [Check -> SUBSET Evaluation]
  /\ failed \in [Check -> SUBSET Evaluation]

HealthInit ==
  /\ states = [c \in Check |->
                 [success |-> Never, error |-> Never, code |-> "none"]]
  /\ started = {}
  /\ todo = [e \in Evaluation |-> Check]
  /\ check = [e \in Evaluation |-> NoCheck]
  /\ err = [e \in Evaluation |-> "waiting"]
  /\ expired = [e \in Evaluation |-> FALSE]
  /\ status = [e \in Evaluation |-> "none"]
  /\ run = [e \in Evaluation |-> [c \in Check |-> "none"]]
  /\ done = [e \in Evaluation |-> [c \in Check |-> "empty"]]
  /\ succeeded = [c \in Check |-> {}]
  /\ failed = [c \in Check |-> {}]
-----------------------------------------------------------------------------
(* Evaluate and evaluate.                                                  *)

StartEvaluation(e) ==
  /\ e \notin started
  /\ started' = started \cup {e}
  /\ status' = [status EXCEPT ![e] = "ok"]
  /\ UNCHANGED <<states, todo, check, err, expired, run, done,
                 succeeded, failed>>

\* The next check of the caller's list: a context with a timeout, a channel
\* and a goroutine.
StartCheck(e, c) ==
  /\ e \in started /\ check[e] = NoCheck
  /\ c \in todo[e]
  /\ todo' = [todo EXCEPT ![e] = @ \ {c}]
  /\ check' = [check EXCEPT ![e] = c]
  /\ run' = [run EXCEPT ![e][c] = "running"]
  /\ UNCHANGED <<states, started, err, expired, status, done,
                 succeeded, failed>>

\* The timeout of the check, or the end of the caller's context.
Expire(e) ==
  /\ check[e] # NoCheck /\ ~expired[e]
  /\ expired' = [expired EXCEPT ![e] = TRUE]
  /\ UNCHANGED <<states, started, todo, check, err, status, run, done,
                 succeeded, failed>>

\* check.Run returns, also after the evaluation stopped waiting for it.
RunReturns(e, c) ==
  /\ run[e][c] = "running"
  /\ run' = [run EXCEPT ![e][c] = "sending"]
  /\ UNCHANGED <<states, localVars, done, succeeded, failed>>

\* A bug to tell apart: the channel has no buffer.
SendWhenReceived(e, c, r) ==
  /\ run[e][c] = "sending"
  /\ check[e] = c /\ err[e] = "waiting"
  /\ done' = [done EXCEPT ![e][c] = r]
  /\ run' = [run EXCEPT ![e][c] = "gone"]
  /\ UNCHANGED <<states, localVars, succeeded, failed>>

\* done <- check.Run(ctx), on a channel with a buffer of one.
Send(e, c, r) ==
  /\ run[e][c] = "sending"
  /\ done[e][c] = "empty"
  /\ done' = [done EXCEPT ![e][c] = r]
  /\ run' = [run EXCEPT ![e][c] = "gone"]
  /\ UNCHANGED <<states, localVars, succeeded, failed>>

\* err = <-done
Receive(e) ==
  /\ check[e] # NoCheck /\ err[e] = "waiting"
  /\ done[e][check[e]] # "empty"
  /\ err' = [err EXCEPT ![e] = done[e][check[e]]]
  /\ done' = [done EXCEPT ![e][check[e]] = "empty"]
  /\ UNCHANGED <<states, started, todo, check, expired, status, run,
                 succeeded, failed>>

\* A bug to tell apart: only a check that failed by then times out.
TimedOutIfSent(e) ==
  /\ check[e] # NoCheck /\ err[e] = "waiting"
  /\ expired[e] /\ run[e][check[e]] # "running"
  /\ err' = [err EXCEPT ![e] = "error"]
  /\ UNCHANGED <<states, started, todo, check, expired, status, run, done,
                 succeeded, failed>>

\* <-ctx.Done()
CheckTimedOut(e) ==
  /\ check[e] # NoCheck /\ err[e] = "waiting"
  /\ expired[e]
  /\ err' = [err EXCEPT ![e] = "error"]
  /\ UNCHANGED <<states, started, todo, check, expired, status, run, done,
                 succeeded, failed>>

\* The status of the evaluation after a failed check.
Worse(s, c) ==
  IF c \in Critical THEN "unavailable"
  ELSE IF s = "ok" THEN "degraded" ELSE s

\* A bug to tell apart: a result does not keep the previous history.
FreshHistory(previous, e, ok) ==
  IF ok THEN [success |-> e, error |-> Never, code |-> "none"]
  ELSE [success |-> Never, error |-> e,
        code |-> IF expired[e] THEN "timeout" ELSE "check_failed"]

\* The history of a check after a result of evaluation e.
History(previous, e, ok) ==
  IF ok THEN [previous EXCEPT !.success = e]
  ELSE [previous EXCEPT !.error = e,
          !.code = IF expired[e] THEN "timeout" ELSE "check_failed"]

\* The rest of evaluate, under the mutex, and the caller's loop.  err and
\* expired belong to the call of evaluate that ends here.
Record(e) ==
  LET c  == check[e]
      ok == err[e] = "nil"
  IN  /\ c # NoCheck /\ err[e] # "waiting"
      /\ states' = [states EXCEPT ![c] = History(@, e, ok)]
      /\ status' = [status EXCEPT ![e] = IF ok THEN @ ELSE Worse(@, c)]
      /\ succeeded' = [succeeded EXCEPT ![c] = IF ok THEN @ \cup {e} ELSE @]
      /\ failed' = [failed EXCEPT ![c] = IF ok THEN @ ELSE @ \cup {e}]
      /\ check' = [check EXCEPT ![e] = NoCheck]
      /\ err' = [err EXCEPT ![e] = "waiting"]
      /\ expired' = [expired EXCEPT ![e] = FALSE]
      /\ UNCHANGED <<started, todo, run, done>>
-----------------------------------------------------------------------------
Returned(e) == e \in started /\ todo[e] = {} /\ check[e] = NoCheck

Evaluate(e) ==
  \/ Receive(e) \/ CheckTimedOut(e) \/ Record(e)
  \/ \E c \in Check : StartCheck(e, c)

Sends(e, c) == \E r \in Result : Send(e, c, r)

\* Every evaluation returned; checks that never return are still running.
AllReturned == (\A e \in Evaluation : Returned(e)) /\ UNCHANGED healthVars

HealthNext ==
  \/ AllReturned
  \/ \E e \in Evaluation :
       \/ StartEvaluation(e) \/ Evaluate(e) \/ Expire(e)
       \/ \E c \in Check : RunReturns(e, c) \/ Sends(e, c)

HealthSpec == HealthInit /\ [][HealthNext]_healthVars

(***************************************************************************)
(* Goroutines run and timers fire.  Nothing makes a check return.          *)
(***************************************************************************)
HealthFairness ==
  /\ \A e \in Evaluation :
       WF_healthVars(Evaluate(e)) /\ WF_healthVars(Expire(e))
  /\ \A e \in Evaluation, c \in Check : WF_healthVars(Sends(e, c))
-----------------------------------------------------------------------------
(* Properties.                                                             *)

\* A result of one evaluation does not erase what another one recorded: a
\* check that ever succeeded (failed) keeps the time of a success (failure),
\* that of an evaluation that had this result.  It need not be the latest: a
\* slow evaluation may record its older time over a newer one.
HistoryIsRetained ==
  \A c \in Check :
    /\ states[c].success \in
         IF succeeded[c] = {} THEN {Never} ELSE succeeded[c]
    /\ states[c].error \in
         IF failed[c] = {} THEN {Never} ELSE failed[c]

\* Evaluate returns although a check never does: every check is bounded by
\* its timeout.
EvaluateReturns == \A e \in Evaluation : e \in started ~> Returned(e)

\* A check that returns after its evaluation gave it up leaves no goroutine
\* behind.
LateRunsEnd ==
  \A e \in Evaluation, c \in Check :
    run[e][c] = "sending" ~> run[e][c] = "gone"
=============================================================================
