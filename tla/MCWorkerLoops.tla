----------------------------- MODULE MCWorkerLoops -----------------------------
(***************************************************************************)
(* The polling pool and the recurring loops in one run.  They share        *)
(* nothing, so each behaviour is about one of them while the other is in   *)
(* a state in which it has ended.                                          *)
(***************************************************************************)
EXTENDS PollingDispatcher, RecurringLoops

Kinds == [padded |-> "tasks", plain |-> "tasks", other |-> "mail", blank |-> ""]
Subscriptions == [adaptive |-> "padded", recovery |-> "plain"]

LoopsEnded ==
  /\ cancelled = TRUE /\ joined = TRUE /\ waited = Loop
  /\ at = [l \in Loop |-> "done"]
  /\ backoff = [l \in Loop |-> MinBackoff]
  /\ armed = {} /\ fired = {}
  /\ subscribers = {} /\ closed = Hinted /\ listening = {}
  /\ hints = [l \in Loop |-> 0]

WorkersInit ==
  /\ Init
  /\ LoopsEnded \/ (ctxDone /\ LoopInit)

WorkersNext ==
  \/ Next /\ UNCHANGED loopVars
  \/ LoopNext /\ UNCHANGED vars

WorkersSpec ==
  /\ WorkersInit /\ [][WorkersNext]_<<vars, loopVars>>
  /\ PoolFairness /\ LoopFairness
=============================================================================
