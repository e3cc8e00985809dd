---------------------------- MODULE RecurringLoops ----------------------------
(***************************************************************************)
(* The recurring loops of worker/lifecycle.go, the WakeupBroker that       *)
(* feeds them hints (worker/wakeup_broker.go) and Join, with which their   *)
(* owner waits for all of them: StartNamedLoop ticks at a fixed interval,  *)
(* startWakeableAdaptiveLoop backs off while idle and is interrupted by a  *)
(* hint, StartWakeableRecoveryLoop executes hints and recovers             *)
(* periodically.  All share one context.                                   *)
(*                                                                         *)
(* Locators are interchangeable here, so a hint channel is a counter.      *)
(* tick, recover and execute are callbacks that return or panic; runTick   *)
(* recovers a panic, after which the loop goes on as if nothing was done.  *)
(***************************************************************************)
EXTENDS Naturals

CONSTANTS
  Named, Adaptive, Recovery,  (* the loops of each function                 *)
  Hinted,        (* the loops that are given a hint channel                 *)
  QueueKind,     (* the texts callers give as queue kinds                   *)
  Trimmed,       (* what strings.TrimSpace makes of each of them            *)
  KindOf,        (* the queue kind each hinted loop subscribes to           *)
  Capacity,      (* of a hint channel, after its default                    *)
  MinBackoff, MaxBackoff  (* of the adaptive loops, after their defaults  *)

Loop == Named \cup Adaptive \cup Recovery

ASSUME LoopAssumption ==
  /\ Hinted \subseteq Adaptive \cup Recovery
  /\ KindOf \in [Hinted -> QueueKind] /\ DOMAIN Trimmed = QueueKind
  /\ Capacity \in Nat \ {0}
  /\ MinBackoff \in Nat \ {0} /\ MaxBackoff \in Nat
  /\ MinBackoff <= MaxBackoff

VARIABLES
  cancelled,   (* the context is done                                       *)
  at,          (* where each loop is                                        *)
  backoff,     (* the interval of each loop, used by the adaptive ones      *)
  armed,       (* the timer or ticker runs                                  *)
  fired,       (* a time is in its channel                                  *)
  subscribers, (* the loops whose channels the broker holds                 *)
  hints,       (* in the channel of each loop                               *)
  closed,      (* the hint channels that their owner closed                 *)
  listening,   (* the loops whose local variable wakeups is not nil         *)
  waited,      (* the loops whose done a goroutine of Join has seen         *)
  joined       (* the channel of Join is closed                             *)

timerVars == <<armed, fired>>
hintVars == <<subscribers, hints, closed, listening>>
joinVars == <<waited, joined>>
loopVars == <<cancelled, at, backoff, timerVars, hintVars, joinVars>>

LoopTypeOK ==
  /\ cancelled \in BOOLEAN /\ joined \in BOOLEAN
  /\ at \in [Loop -> {"new", "first", "tick", "select", "execute", "done"}]
  /\ backoff \in [Loop -> MinBackoff..MaxBackoff]
  /\ armed \subseteq Loop /\ fired \subseteq Loop /\ waited \subseteq Loop
  /\ subscribers \subseteq Hinted /\ closed \subseteq Hinted
  /\ listening \subseteq Hinted
  /\ hints \in [Loop -> 0..Capacity]

LoopInit ==
  /\ cancelled = FALSE
  /\ at = [l \in Loop |-> "new"]
  /\ backoff = [l \in Loop |-> MinBackoff]
  /\ armed = {} /\ fired = {}
  /\ subscribers = {} /\ closed = {} /\ listening = Hinted
  /\ hints = [l \in Loop |-> 0]
  /\ waited = {} /\ joined = FALSE

CancelLoops ==
  /\ ~cancelled
  /\ cancelled' = TRUE
  /\ UNCHANGED <<at, backoff, timerVars, hintVars, joinVars>>
-----------------------------------------------------------------------------
(* The broker.                                                             *)

\* A subscription under a blank kind gets a channel nobody sends to.
Subscribe(l) ==
  /\ at[l] = "new" /\ l \notin subscribers
  /\ Trimmed[KindOf[l]] # ""
  /\ subscribers' = subscribers \cup {l}
  /\ UNCHANGED <<cancelled, at, backoff, timerVars, hints, closed, listening,
                 joinVars>>

\* Each subscriber of the kind gets the hint unless its buffer is full.
Publish(kind) ==
  /\ Trimmed[kind] # ""
  /\ hints' = [l \in Loop |->
       IF /\ l \in subscribers /\ Trimmed[KindOf[l]] = Trimmed[kind]
          /\ hints[l] < Capacity
       THEN hints[l] + 1 ELSE hints[l]]
  /\ UNCHANGED <<cancelled, at, backoff, timerVars, subscribers, closed,
                 listening, joinVars>>

\* A loop's channel need not be the broker's: an owner may have one of its
\* own, send to it and close it.
SendHint(l) ==
  /\ l \notin closed \cup subscribers /\ at[l] # "new"
  /\ hints[l] < Capacity
  /\ hints' = [hints EXCEPT ![l] = @ + 1]
  /\ UNCHANGED <<cancelled, at, backoff, timerVars, subscribers, closed,
                 listening, joinVars>>

CloseHints(l) ==
  /\ l \notin closed \cup subscribers /\ at[l] # "new"
  /\ closed' = closed \cup {l}
  /\ UNCHANGED <<cancelled, at, backoff, timerVars, subscribers, hints,
                 listening, joinVars>>
-----------------------------------------------------------------------------
(* The loops.                                                              *)

To(l, place) == at' = [at EXCEPT ![l] = place]

\* A cancelled context makes the function return a closed channel.
Start(l) ==
  /\ at[l] = "new"
  /\ To(l, IF cancelled THEN "done" ELSE IF l \in Named THEN "first" ELSE "tick")
  /\ UNCHANGED <<cancelled, backoff, timerVars, hintVars, joinVars>>

\* The select with a default before the first tick of a named loop.
FirstTick(l) ==
  /\ at[l] = "first"
  /\ To(l, IF cancelled THEN "done" ELSE "tick")
  /\ UNCHANGED <<cancelled, backoff, timerVars, hintVars, joinVars>>

\* nextAdaptiveInterval
NextBackoff(current, worked) ==
  IF worked THEN MinBackoff
  ELSE IF current >= MaxBackoff \/ current * 2 > MaxBackoff THEN MaxBackoff
  ELSE current * 2

\* tick or recover returned; worked is what an adaptive tick reported, FALSE
\* after a panic.  A ticker runs on; the other loops start a timer again.
TickReturns(l, worked) ==
  /\ at[l] = "tick"
  /\ IF l \in Adaptive /\ cancelled
     THEN To(l, "done") /\ UNCHANGED <<backoff, armed>>
     ELSE /\ To(l, "select")
          /\ armed' = armed \cup {l}
          /\ backoff' = IF l \in Adaptive
                        THEN [backoff EXCEPT ![l] = NextBackoff(@, worked)]
                        ELSE backoff
  /\ UNCHANGED <<cancelled, fired, hintVars, joinVars>>

\* A hint is executed while the timer of the recovery runs on.
ExecuteHintReturns(l) ==
  /\ at[l] = "execute"
  /\ To(l, "select")
  /\ UNCHANGED <<cancelled, backoff, timerVars, hintVars, joinVars>>

\* The time is sent to a channel with room for one; a ticker drops it else.
TimerFires(l) ==
  /\ l \in armed /\ at[l] # "done"
  /\ fired' = fired \cup {l}
  /\ armed' = IF l \in Named THEN armed ELSE armed \ {l}
  /\ UNCHANGED <<cancelled, at, backoff, hintVars, joinVars>>

\* if !timer.Stop() { <-timer.C }: nothing is left in the channel.
StopTimer(l) == armed' = armed \ {l} /\ fired' = fired \ {l}

SelectDone(l) ==
  /\ at[l] = "select" /\ cancelled
  /\ To(l, "done")
  /\ StopTimer(l)
  /\ UNCHANGED <<cancelled, backoff, hintVars, joinVars>>

\* Only the named loop looks at the context again.
SelectFired(l) ==
  /\ at[l] = "select" /\ l \in fired
  /\ fired' = fired \ {l}
  /\ To(l, IF l \in Named /\ cancelled THEN "done" ELSE "tick")
  /\ UNCHANGED <<cancelled, backoff, armed, hintVars, joinVars>>

\* A hint ends the sleep of an adaptive loop, and is executed by a recovery
\* loop, whose timer runs on.
SelectHint(l) ==
  /\ at[l] = "select" /\ l \in listening /\ hints[l] > 0
  /\ hints' = [hints EXCEPT ![l] = @ - 1]
  /\ \/ l \in Adaptive /\ To(l, "tick") /\ StopTimer(l)
     \/ l \in Recovery /\ To(l, "execute") /\ UNCHANGED timerVars
  /\ UNCHANGED <<cancelled, backoff, subscribers, closed, listening, joinVars>>

\* A bug to tell apart: the loop goes on listening to a closed channel.
KeepListening(l) ==
  /\ at[l] = "select" /\ l \in listening \cap closed /\ hints[l] = 0
  /\ \/ l \in Adaptive /\ To(l, "tick") /\ StopTimer(l)
     \/ l \in Recovery /\ UNCHANGED <<at, timerVars>>
  /\ UNCHANGED <<cancelled, backoff, hintVars, joinVars>>

\* A closed channel is always ready: the loop drops it.
SelectClosed(l) ==
  /\ at[l] = "select" /\ l \in listening \cap closed /\ hints[l] = 0
  /\ listening' = listening \ {l}
  /\ \/ l \in Adaptive /\ To(l, "tick") /\ StopTimer(l)
     \/ l \in Recovery /\ UNCHANGED <<at, timerVars>>
  /\ UNCHANGED <<cancelled, backoff, subscribers, hints, closed, joinVars>>
-----------------------------------------------------------------------------
(* Join, called when all loops are started: a goroutine for each channel.  *)

JoinSees(l) ==
  /\ \A m \in Loop : at[m] # "new"
  /\ at[l] = "done" /\ l \notin waited
  /\ waited' = waited \cup {l}
  /\ UNCHANGED <<cancelled, at, backoff, timerVars, hintVars, joined>>

\* A bug to tell apart: the first loop to end is taken for all of them.
JoinFirst ==
  /\ ~joined /\ waited # {}
  /\ joined' = TRUE
  /\ UNCHANGED <<cancelled, at, backoff, timerVars, hintVars, waited>>

\* workers.Wait() returns.
JoinReturns ==
  /\ ~joined /\ waited = Loop
  /\ joined' = TRUE
  /\ UNCHANGED <<cancelled, at, backoff, timerVars, hintVars, waited>>
-----------------------------------------------------------------------------
LoopStep(l) ==
  \/ FirstTick(l) \/ \E worked \in BOOLEAN : TickReturns(l, worked)
  \/ ExecuteHintReturns(l)
  \/ SelectDone(l) \/ SelectFired(l) \/ SelectHint(l) \/ SelectClosed(l)

JoinStep == JoinReturns \/ \E l \in Loop : JoinSees(l)

LoopNext ==
  \/ CancelLoops \/ JoinStep
  \/ \E l \in Loop : Start(l) \/ LoopStep(l) \/ TimerFires(l)
  \/ \E l \in Hinted : Subscribe(l) \/ SendHint(l) \/ CloseHints(l)
  \/ \E kind \in QueueKind : Publish(kind)

LoopSpec == LoopInit /\ [][LoopNext]_loopVars

(***************************************************************************)
(* The owner starts every loop, runnable goroutines run, callbacks return, *)
(* and timers fire.  Only a recovery loop can be kept busy by hints: its   *)
(* select, which picks at random, takes its timer and ctx.Done some time   *)
(* when they are ready again and again.                                    *)
(***************************************************************************)
LoopFairness ==
  /\ WF_loopVars(JoinStep)
  /\ \A l \in Loop :
       WF_loopVars(Start(l)) /\ WF_loopVars(LoopStep(l)) /\ WF_loopVars(TimerFires(l))
  /\ \A l \in Recovery : SF_loopVars(SelectFired(l)) /\ SF_loopVars(SelectDone(l))
-----------------------------------------------------------------------------
(* Properties.                                                             *)

\* A loop leaves its sleep only for its timer, a hint, or the one notice
\* that its channel was closed, so a closed channel makes no busy loop.
WakesForCause ==
  [][\A l \in Loop : at[l] = "select" /\ at'[l] = "tick" =>
       \/ l \in fired \ fired'
       \/ hints'[l] < hints[l]
       \/ l \in listening \ listening']_loopVars

\* A loop wakes only for a cause; and until it is cancelled it ticks again
\* and again, whatever hints it gets and whatever its callbacks do.
LoopCadence ==
  WakesForCause /\ \A l \in Loop : []<>(cancelled \/ at[l] = "tick")

\* The channel of Join is closed only when every loop has returned.
JoinedIsQuiet == joined => \A l \in Loop : at[l] = "done"

\* Join never returns early, and it returns after a cancellation, also of
\* loops that had not ticked yet.
JoinsExactly ==
  [](joined => \A l \in Loop : at[l] = "done") /\ (cancelled ~> joined)
=============================================================================
