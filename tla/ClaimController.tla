---------------------------- MODULE ClaimController ----------------------------
(***************************************************************************)
(* worker.Controller (worker/controller.go): process-local admission of    *)
(* claims and drain.  Every method takes the mutex, so each is one step,   *)
(* except WaitIdle, which reads the channel idle under the mutex and waits *)
(* on it after unlocking.                                                  *)
(*                                                                         *)
(* TryBegin makes a new channel when inFlight leaves zero and End closes   *)
(* it when inFlight is zero again.  Channels are numbered in the order     *)
(* they are made; closed is the set of those that were closed.             *)
(***************************************************************************)
EXTENDS Integers, FiniteSets

CONSTANTS
  Worker,    (* goroutines that call RunIfAccepting                         *)
  Waiter,    (* goroutines that call WaitIdle                               *)
  MaxChans   (* bound: number of idle channels made                         *)

ASSUME WorkerAssumption == IsFiniteSet(Worker)
ASSUME MaxChansAssumption == MaxChans \in Nat

VARIABLES
  state,     (* ShutdownState                                               *)
  inFlight,
  idle,      (* the current idle channel                                    *)
  closed,    (* channels that were closed                                   *)
  running,   (* workers between TryBegin and End                            *)
  waiter,    (* where each WaitIdle call is, and what it returned           *)
  waitsOn,   (* the channel it read                                         *)
  refusing   (* history: no claim could be admitted since it was read       *)

claimVars == <<inFlight, idle, closed, running>>
waitVars  == <<waiter, waitsOn>>
vars == <<state, claimVars, waitVars, refusing>>

TypeOK ==
  /\ state \in {"running", "paused", "draining", "stopped"}
  /\ inFlight \in Nat
  /\ idle \in 0..MaxChans
  /\ closed \subseteq 0..MaxChans
  /\ running \subseteq Worker
  /\ waiter \in [Waiter -> {"out", "waiting", "idle", "timeout"}]
  /\ waitsOn \in [Waiter -> 0..MaxChans]
  /\ refusing \in [Waiter -> BOOLEAN]

\* NewController closes its first channel.
Init ==
  /\ state = "running"
  /\ inFlight = 0 /\ idle = 0 /\ closed = {0} /\ running = {}
  /\ waiter = [v \in Waiter |-> "out"]
  /\ waitsOn = [v \in Waiter |-> 0]
  /\ refusing = [v \in Waiter |-> FALSE]

\* A bug to tell apart: a draining process still admits claims.
AcceptsUnlessStopped(s) == s # "stopped"

AcceptsClaims(s) == s = "running"
-----------------------------------------------------------------------------
(* Administration.                                                         *)

\* A new state; the history of a waiter ends when claims are accepted again.
Become(s) ==
  /\ state' = s
  /\ refusing' = [v \in Waiter |-> refusing[v] /\ s # "running"]
  /\ UNCHANGED <<claimVars, waitVars>>

Transition(from, to) == state = from /\ Become(to)

Pause   == Transition("running", "paused")
Resume  == Transition("paused", "running")

\* A bug to tell apart: a late Undrain starts a stopped process again.
UndrainAny == state \in {"draining", "stopped"} /\ Become("running")

Undrain == Transition("draining", "running")

Drain == state \notin {"stopped", "draining"} /\ Become("draining")

Stop  == Become("stopped")
-----------------------------------------------------------------------------
(* RunIfAccepting: TryBegin, run and a deferred End.                       *)

\* A bug to tell apart: the closed channel is reused for the next claims.
BeginOnOldChannel(w) ==
  /\ w \notin running
  /\ AcceptsClaims(state)
  /\ inFlight' = inFlight + 1
  /\ running' = running \cup {w}
  /\ UNCHANGED <<state, idle, closed, waitVars, refusing>>

\* A refused TryBegin changes nothing.
TryBegin(w) ==
  /\ w \notin running
  /\ AcceptsClaims(state)
  /\ inFlight = 0 => idle < MaxChans
  /\ idle' = IF inFlight = 0 THEN idle + 1 ELSE idle
  /\ inFlight' = inFlight + 1
  /\ running' = running \cup {w}
  /\ UNCHANGED <<state, closed, waitVars, refusing>>

\* A bug to tell apart: the counter is not lowered by a run that panicked.
EndWithoutCount(w) ==
  /\ w \in running
  /\ running' = running \ {w}
  /\ UNCHANGED <<state, inFlight, idle, closed, waitVars, refusing>>

\* run returned or panicked: End is deferred.  Without a claim to end it
\* returns early, and closes nothing.
End(w) ==
  /\ w \in running
  /\ running' = running \ {w}
  /\ inFlight' = IF inFlight = 0 THEN 0 ELSE inFlight - 1
  /\ closed' = IF inFlight = 1 THEN closed \cup {idle} ELSE closed
  /\ UNCHANGED <<state, idle, waitVars, refusing>>
-----------------------------------------------------------------------------
(* WaitIdle.                                                               *)

ReadIdle(v) ==
  /\ waiter[v] # "waiting"
  /\ waiter' = [waiter EXCEPT ![v] = "waiting"]
  /\ waitsOn' = [waitsOn EXCEPT ![v] = idle]
  /\ refusing' = [refusing EXCEPT ![v] = state # "running"]
  /\ UNCHANGED <<state, claimVars>>

\* <-idle: the channel that was read is closed.
IdleSeen(v) ==
  /\ waiter[v] = "waiting"
  /\ waitsOn[v] \in closed
  /\ waiter' = [waiter EXCEPT ![v] = "idle"]
  /\ UNCHANGED <<state, claimVars, waitsOn, refusing>>

\* The timer fires first, or timeout <= 0 and the channel is open.
TimedOut(v) ==
  /\ waiter[v] = "waiting"
  /\ waiter' = [waiter EXCEPT ![v] = "timeout"]
  /\ UNCHANGED <<state, claimVars, waitsOn, refusing>>
-----------------------------------------------------------------------------
Next ==
  \/ Pause \/ Resume \/ Undrain \/ Drain \/ Stop
  \/ \E w \in Worker : TryBegin(w) \/ End(w)
  \/ \E v \in Waiter : ReadIdle(v) \/ IdleSeen(v) \/ TimedOut(v)

Spec == Init /\ [][Next]_vars

\* A claim that was admitted ends: run returns.
ClaimFairness == \A w \in Worker : WF_vars(End(w))
-----------------------------------------------------------------------------
(* Properties.                                                             *)

\* The current channel is open exactly while claims are in flight, and
\* inFlight counts the workers that run: End closes an open channel (closing
\* a closed one panics) and never leaves one open that nobody will close.
IdleChannelTracksClaims ==
  /\ inFlight = Cardinality(running)
  /\ idle \in closed <=> inFlight = 0

\* WaitIdle returned true and claims have been refused since it read the
\* channel (the process was drained, paused or stopped before and not
\* undrained since): then nothing is in flight.  Without that the answer may
\* be stale, since WaitIdle waits on the channel of an earlier claim.
WaitIdleIsSound ==
  \A v \in Waiter : waiter[v] = "idle" /\ refusing[v] => running = {}

\* Stop is final: no transition leaves it and no claim starts after it.
StopIsFinal ==
  [][state = "stopped" => state' = "stopped" /\ running' \subseteq running]_vars

\* Draining converges: a WaitIdle started while claims are refused sees its
\* channel closed unless claims are accepted again.
DrainConverges ==
  \A v \in Waiter :
    (waiter[v] = "waiting" /\ refusing[v])
      ~> (waitsOn[v] \in closed \/ ~refusing[v])
=============================================================================
