-------------------------------- MODULE TaskTable --------------------------------
(***************************************************************************)
(* What durable dispatch promises the owner of a task table: a worker is   *)
(* given one task at a time; a task is given to one worker until that      *)
(* one's lease runs out, which it may not notice, so that several may be   *)
(* at work on the task; only the worker it was given to last can finish    *)
(* it; work that is abandoned leaves the task as it was; and a task that   *)
(* is done stays done and is given to nobody again.                        *)
(***************************************************************************)
CONSTANTS Task, Worker

VARIABLES
  row,     (* "absent", "runnable", "claimed" or "done"                     *)
  runner,  (* the workers at work on each task                              *)
  holder   (* the one each task was given to last, while it is at work      *)

Free(w) == \A t \in Task : w \notin runner[t]

Init ==
  /\ row = [t \in Task |-> "absent"]
  /\ runner = [t \in Task |-> {}]
  /\ holder = [t \in Task |-> {}]

Submit(t) ==
  /\ row[t] = "absent"
  /\ row' = [row EXCEPT ![t] = "runnable"]
  /\ UNCHANGED <<runner, holder>>

Start(t, w) ==
  /\ row[t] = "runnable" /\ Free(w)
  /\ row' = [row EXCEPT ![t] = "claimed"]
  /\ runner' = [runner EXCEPT ![t] = @ \cup {w}]
  /\ holder' = [holder EXCEPT ![t] = {w}]

\* The lease runs out, whoever is at work.
Lapse(t) ==
  /\ row[t] = "claimed"
  /\ row' = [row EXCEPT ![t] = "runnable"]
  /\ UNCHANGED <<runner, holder>>

Finish(t, w) ==
  /\ row[t] \in {"runnable", "claimed"} /\ holder[t] = {w}
  /\ row' = [row EXCEPT ![t] = "done"]
  /\ runner' = [runner EXCEPT ![t] = @ \ {w}]
  /\ holder' = [holder EXCEPT ![t] = {}]

\* A worker gives up or finds that it is too late, or all workers of a process
\* die.
Abandon(W) ==
  /\ runner' = [t \in Task |-> runner[t] \ W]
  /\ holder' = [t \in Task |-> holder[t] \ W]
  /\ UNCHANGED row

Next ==
  \/ \E t \in Task :
       \/ Submit(t) \/ Lapse(t)
       \/ \E w \in Worker : Start(t, w) \/ Finish(t, w)
  \/ \E W \in SUBSET Worker : Abandon(W)

Spec == Init /\ [][Next]_<<row, runner, holder>>
=============================================================================
