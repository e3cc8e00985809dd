----------------------------- MODULE LeaseHeartbeat -----------------------------
(***************************************************************************)
(* WithHeartbeat (worker/heartbeat.go) around the work of a durable task,  *)
(* with the lease row the heartbeat keeps alive (worker/contract.go).      *)
(*                                                                         *)
(* An attempt of a worker is: claim the row under a new fencing token,     *)
(* start the heartbeat goroutine, work, call stop, and on a nil answer     *)
(* finish the row with a compare-and-swap on owner and token.  A second    *)
(* caller of the same stop stands for the usual deferred call.  The row    *)
(* and the callback heartbeat are external; time is abstract: a lease may  *)
(* expire whenever it is not renewed, and a tick may come at any moment.   *)
(***************************************************************************)
EXTENDS Integers

CONSTANTS
  Worker,    (* worker processes                                            *)
  MaxToken   (* bound: number of claims                                     *)

ASSUME MaxTokenAssumption == MaxToken \in Nat \ {0}

VARIABLES
  row,      (* the durable row: owner, token, live and finished             *)
  token,    (* token of the worker's attempt, 0: none                       *)
  parent,   (* the parent context of the attempt is cancelled               *)
  ctx,      (* the context of the work is cancelled                         *)
  hb,       (* where the heartbeat goroutine is                             *)
  err,      (* the error its last call returned                             *)
  done,     (* contents of the channel done                                 *)
  once,     (* the sync.Once of stop                                        *)
  call,     (* where each caller of stop is                                 *)
  result    (* what stop reports                                            *)

attemptVars == <<token, parent, ctx, hb, err, done, once, call, result>>
leaseVars == <<row, attemptVars>>

Caller == {"explicit", "deferred"}

\* An error of heartbeat: the row has another owner or token, or the store
\* failed; or its context was cancelled.
Error == {"failed", "cancelled"}

LeaseTypeOK ==
  /\ row \in [owner : Worker, token : 0..MaxToken, live : BOOLEAN,
              finished : BOOLEAN]
  /\ token \in [Worker -> 0..MaxToken]
  /\ parent \in [Worker -> BOOLEAN]
  /\ ctx \in [Worker -> BOOLEAN]
  /\ hb \in [Worker -> {"none", "select", "calling", "failed", "exited"}]
  /\ err \in [Worker -> Error \cup {"nil"}]
  /\ done \in [Worker -> Error \cup {"nil", "empty"}]
  /\ once \in [Worker -> {"fresh", "running", "done"}]
  /\ call \in [Worker ->
       [Caller -> {"none", "receiving", "blocked", "returned", "acted"}]]
  /\ result \in [Worker -> Error \cup {"nil"}]

NoAttempts ==
  /\ token = [w \in Worker |-> 0]
  /\ parent = [w \in Worker |-> FALSE]
  /\ ctx = [w \in Worker |-> FALSE]
  /\ hb = [w \in Worker |-> "none"]
  /\ err = [w \in Worker |-> "nil"]
  /\ done = [w \in Worker |-> "empty"]
  /\ once = [w \in Worker |-> "fresh"]
  /\ call = [w \in Worker |-> [c \in Caller |-> "none"]]
  /\ result = [w \in Worker |-> "nil"]

\* The row's lease is live for nobody before the first claim: its token is
\* not valid.
LeaseInit ==
  /\ row \in [owner : Worker, token : {0}, live : {FALSE}, finished : {FALSE}]
  /\ NoAttempts

\* Lease.Matches
Matches(w) == token[w] > 0 /\ row.owner = w /\ row.token = token[w]
-----------------------------------------------------------------------------
(* The durable row and the process.                                        *)

\* A worker without an attempt claims a row nobody holds; WithHeartbeat
\* makes its context and its channel and starts its goroutine.
Claim(w) ==
  /\ token[w] = 0
  /\ ~row.live /\ ~row.finished
  /\ row.token < MaxToken
  /\ row' = [row EXCEPT !.owner = w, !.token = @ + 1, !.live = TRUE]
  /\ token' = [token EXCEPT ![w] = row.token + 1]
  /\ hb' = [hb EXCEPT ![w] = "select"]
  /\ UNCHANGED <<parent, ctx, err, done, once, call, result>>

LeaseExpires ==
  /\ row.live /\ ~row.finished
  /\ row' = [row EXCEPT !.live = FALSE]
  /\ UNCHANGED attemptVars

\* The local state of an attempt is gone.
Forget(w) ==
  /\ token' = [token EXCEPT ![w] = 0]
  /\ parent' = [parent EXCEPT ![w] = FALSE]
  /\ ctx' = [ctx EXCEPT ![w] = FALSE]
  /\ hb' = [hb EXCEPT ![w] = "none"]
  /\ err' = [err EXCEPT ![w] = "nil"]
  /\ done' = [done EXCEPT ![w] = "empty"]
  /\ once' = [once EXCEPT ![w] = "fresh"]
  /\ call' = [call EXCEPT ![w] = [c \in Caller |-> "none"]]
  /\ result' = [result EXCEPT ![w] = "nil"]

Crash(w) == token[w] > 0 /\ Forget(w) /\ UNCHANGED row

\* Both callers are through and the goroutine is gone: the next attempt may
\* start.
AttemptEnds(w) ==
  /\ call[w]["explicit"] = "acted" /\ call[w]["deferred"] = "returned"
  /\ hb[w] = "exited"
  /\ Forget(w) /\ UNCHANGED row

\* The process shuts down and cancels the derived context; after stop or a
\* failed heartbeat cancelled it, this has no effect.
ParentCancel(w) ==
  /\ token[w] > 0 /\ ~ctx[w]
  /\ parent' = [parent EXCEPT ![w] = TRUE]
  /\ ctx' = [ctx EXCEPT ![w] = TRUE]
  /\ UNCHANGED <<row, token, hb, err, done, once, call, result>>
-----------------------------------------------------------------------------
(* The heartbeat goroutine.                                                *)

HbUnchanged == UNCHANGED <<token, parent, once, call, result>>

\* case <-ctx.Done(): done <- nil; return
HeartbeatCtxDone(w) ==
  /\ hb[w] = "select"
  /\ ctx[w]
  /\ done[w] = "empty"
  /\ done' = [done EXCEPT ![w] = "nil"]
  /\ hb' = [hb EXCEPT ![w] = "exited"]
  /\ UNCHANGED <<row, ctx, err>> /\ HbUnchanged

\* case <-ticker.C, which the select may pick although ctx is done.
SelectTick(w) ==
  /\ hb[w] = "select"
  /\ hb' = [hb EXCEPT ![w] = "calling"]
  /\ UNCHANGED <<row, ctx, err, done>> /\ HbUnchanged

\* heartbeat renews the row: a compare-and-swap on owner and token.
HeartbeatRenewed(w) ==
  /\ hb[w] = "calling"
  /\ Matches(w)
  /\ row' = [row EXCEPT !.live = TRUE]
  /\ hb' = [hb EXCEPT ![w] = "select"]
  /\ UNCHANGED <<ctx, err, done>> /\ HbUnchanged

\* The store may fail at any time, and a callback that honours its context
\* gives up when that is cancelled.
HeartbeatErrors(w) ==
  {e \in Error : hb[w] = "calling" /\ (e = "cancelled" => ctx[w])}

\* A bug to tell apart: the error is kept from the channel.
FailQuietly(w, e) ==
  /\ e \in HeartbeatErrors(w)
  /\ err' = [err EXCEPT ![w] = e]
  /\ done' = [done EXCEPT ![w] = "nil"]
  /\ hb' = [hb EXCEPT ![w] = "failed"]
  /\ UNCHANGED <<row, ctx>> /\ HbUnchanged

\* done <- err
HeartbeatFails(w, e) ==
  /\ e \in HeartbeatErrors(w)
  /\ done[w] = "empty"
  /\ err' = [err EXCEPT ![w] = e]
  /\ done' = [done EXCEPT ![w] = e]
  /\ hb' = [hb EXCEPT ![w] = "failed"]
  /\ UNCHANGED <<row, ctx>> /\ HbUnchanged

\* A bug to tell apart: the goroutine ends and the work goes on.
ReturnWithoutCancel(w) ==
  /\ hb[w] = "failed"
  /\ hb' = [hb EXCEPT ![w] = "exited"]
  /\ UNCHANGED <<row, ctx, err, done>> /\ HbUnchanged

\* cancel(); return
CancelWork(w) ==
  /\ hb[w] = "failed"
  /\ ctx' = [ctx EXCEPT ![w] = TRUE]
  /\ hb' = [hb EXCEPT ![w] = "exited"]
  /\ UNCHANGED <<row, err, done>> /\ HbUnchanged
-----------------------------------------------------------------------------
(* stop, and what its explicit caller does with the answer.                *)

StopUnchanged == UNCHANGED <<row, token, parent, hb, err>>

\* A bug to tell apart: every caller receives from done itself.
CalledWithoutOnce(w, c) ==
  /\ token[w] > 0
  /\ call[w][c] = "none"
  /\ call' = [call EXCEPT ![w][c] = "receiving"]
  /\ ctx' = [ctx EXCEPT ![w] = TRUE]
  /\ UNCHANGED <<once, done, result>> /\ StopUnchanged

\* The first caller enters once.Do and cancels; a later one blocks in Do or
\* finds it done.
StopCalled(w, c) ==
  /\ token[w] > 0
  /\ call[w][c] = "none"
  /\ call' = [call EXCEPT ![w][c] =
       CASE once[w] = "fresh"   -> "receiving"
         [] once[w] = "running" -> "blocked"
         [] once[w] = "done"    -> "returned"]
  /\ once' = [once EXCEPT ![w] = IF @ = "fresh" THEN "running" ELSE @]
  /\ ctx' = [ctx EXCEPT ![w] = @ \/ once[w] = "fresh"]
  /\ UNCHANGED <<done, result>> /\ StopUnchanged

\* A bug to tell apart: stop cancels and does not wait for the goroutine.
ReceiveIfReady(w, c) ==
  /\ call[w][c] = "receiving"
  /\ result' = [result EXCEPT ![w] = IF done[w] = "empty" THEN "nil" ELSE done[w]]
  /\ once' = [once EXCEPT ![w] = "done"]
  /\ call' = [call EXCEPT ![w][c] = "returned"]
  /\ UNCHANGED <<ctx, done>> /\ StopUnchanged

\* result = <-done, and Do returns.
StopReceives(w, c) ==
  /\ call[w][c] = "receiving"
  /\ done[w] # "empty"
  /\ result' = [result EXCEPT ![w] = done[w]]
  /\ done' = [done EXCEPT ![w] = "empty"]
  /\ once' = [once EXCEPT ![w] = "done"]
  /\ call' = [call EXCEPT ![w][c] = "returned"]
  /\ UNCHANGED ctx /\ StopUnchanged

\* Do lets the other caller through.
StopUnblocked(w, c) ==
  /\ call[w][c] = "blocked"
  /\ once[w] = "done"
  /\ call' = [call EXCEPT ![w][c] = "returned"]
  /\ UNCHANGED <<ctx, done, once, result>> /\ StopUnchanged

\* The terminal compare-and-swap after a nil answer: it finishes the row or
\* finds another owner and token.
Finish(w) ==
  /\ call[w]["explicit"] = "returned"
  /\ result[w] = "nil"
  /\ row' = IF Matches(w) THEN [row EXCEPT !.finished = TRUE, !.live = FALSE]
            ELSE row
  /\ call' = [call EXCEPT ![w]["explicit"] = "acted"]
  /\ UNCHANGED <<token, parent, ctx, hb, err, done, once, result>>

\* stop reported an error: the outcome of the work is not recorded.
Abandon(w) ==
  /\ call[w]["explicit"] = "returned"
  /\ result[w] # "nil"
  /\ call' = [call EXCEPT ![w]["explicit"] = "acted"]
  /\ UNCHANGED <<row, token, parent, ctx, hb, err, done, once, result>>
-----------------------------------------------------------------------------
Heartbeat(w) ==
  \/ HeartbeatCtxDone(w) \/ SelectTick(w) \/ HeartbeatRenewed(w) \/ CancelWork(w)
  \/ \E e \in Error : HeartbeatFails(w, e)

Stop(w) ==
  \/ \E c \in Caller : StopReceives(w, c) \/ StopUnblocked(w, c)
  \/ Finish(w) \/ Abandon(w)

Process(w) ==
  \/ Claim(w) \/ Crash(w) \/ AttemptEnds(w) \/ ParentCancel(w)
  \/ \E c \in Caller : StopCalled(w, c)

\* Nothing is left to claim.
Settled ==
  /\ \A w \in Worker : token[w] = 0
  /\ ~row.live /\ (row.finished \/ row.token = MaxToken)
  /\ UNCHANGED leaseVars

LeaseNext ==
  \/ LeaseExpires \/ Settled
  \/ \E w \in Worker : Heartbeat(w) \/ Stop(w) \/ Process(w)

LeaseSpec == LeaseInit /\ [][LeaseNext]_leaseVars

(***************************************************************************)
(* The ticker keeps ticking and the callback returns, so the goroutine     *)
(* keeps moving; its select picks at random, so it cannot miss ctx.Done    *)
(* for ever.  A caller inside stop runs when it can.  Nothing is assumed   *)
(* of the work itself, of crashes or of the row.                           *)
(***************************************************************************)
LeaseFairness ==
  \A w \in Worker :
    /\ WF_leaseVars(Heartbeat(w)) /\ SF_leaseVars(HeartbeatCtxDone(w))
    /\ WF_leaseVars(Stop(w))
-----------------------------------------------------------------------------
(* Properties.                                                             *)

\* Every caller of stop learns that a heartbeat failed: when the goroutine
\* ended on an error, that error is what stop returned to whoever has an
\* answer, and never nil (heartbeat.go:27-30, 37).
FailureIsReported ==
  \A w \in Worker :
    once[w] = "done" /\ err[w] # "nil" => result[w] = err[w]

\* Once a worker finished its row, its own heartbeat cannot revive the
\* lease, and neither can a late heartbeat of an earlier owner: stop waits
\* for the goroutine before the terminal update, and tokens fence the rest.
FinishedRowIsFinal == [][row.finished => row' = row]_row

\* Whoever calls stop gets an answer, also when the goroutine ended first and
\* when two callers share the one value of done.
StopReturns ==
  \A w \in Worker :
    (\E c \in Caller : call[w][c] \in {"receiving", "blocked"})
      ~> (\A c \in Caller : call[w][c] \notin {"receiving", "blocked"})

\* A worker whose row was claimed by another eventually finds its context
\* cancelled, whatever its work does.
LostLeaseCancelsWork ==
  \A w \in Worker : (token[w] > 0 /\ ~Matches(w)) ~> (ctx[w] \/ token[w] = 0)
=============================================================================
