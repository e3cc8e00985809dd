--------------------------- MODULE CapacityController ---------------------------
(***************************************************************************)
(* capacity.Controller (capacity/controller.go): process-local admission   *)
(* by in-flight and rate limits of the process, the workspace, the use     *)
(* case and the retries, with a load state that sheds nonessential work    *)
(* and recovers with hysteresis.  Acquire and release run under the mutex, *)
(* the clock included, so each is one step.  Requests whose workspace is   *)
(* missing, too long or "default" are refused before anything is touched.  *)
(*                                                                         *)
(* Ratios are percentages.  Time is a counter; held and admitted are       *)
(* history variables.                                                      *)
(***************************************************************************)
EXTENDS Tallies, Functions

CONSTANTS
  Request,            (* records [ws, uc, retry, essential]                 *)
  GlobalInFlight, WorkspaceInFlight, UseCaseInFlight, RetryInFlight,
  GlobalRate, WorkspaceRate, UseCaseRate,
  RateWindow, WorkspaceStateTTL,
  MaxWorkspaceStates, MaxUseCaseStates,
  GivenDegraded, GivenRecovery,  (* the ratios before normalizeLimits       *)
  MaxTime             (* bound of the clock                                 *)

ASSUME LimitsAssumption ==
  \A limit \in {GlobalInFlight, WorkspaceInFlight, UseCaseInFlight,
                RetryInFlight, GlobalRate, WorkspaceRate, UseCaseRate,
                RateWindow, WorkspaceStateTTL, MaxWorkspaceStates,
                MaxUseCaseStates} : limit \in Nat \ {0}
ASSUME RatiosAssumption == GivenDegraded \in Int /\ GivenRecovery \in Int
ASSUME RequestAssumption ==
  \A r \in Request : r.retry \in BOOLEAN /\ r.essential \in BOOLEAN
ASSUME ClockAssumption == MaxTime \in Nat

Workspace == {r.ws : r \in Request}
UseCase   == {r.uc : r \in Request}

VARIABLES
  now,         (* the clock                                                 *)
  global,      (* requests in flight                                        *)
  globalRate,  (* rate counter of the process                               *)
  workspaces,  (* counters by workspace, a map                              *)
  useCases,    (* counters by use case, a map                               *)
  retries,     (* retries in flight                                         *)
  state,       (* load state                                                *)
  held,        (* history: leases not released, by request                  *)
  admitted     (* history: admissions by workspace and time                 *)

vars == <<now, global, globalRate, workspaces, useCases, retries, state,
          held, admitted>>

\* A zero time in a counter.
NoTime == -1
Counter == [inFlight : Nat, rate : Nat, from : Int, seen : Int]
zero == [inFlight |-> 0, rate |-> 0, from |-> NoTime, seen |-> NoTime]

TypeOK ==
  /\ now \in 0..MaxTime
  /\ global \in 0..GlobalInFlight
  /\ globalRate \in Counter /\ globalRate.rate <= GlobalRate
  /\ DOMAIN workspaces \subseteq Workspace
  /\ \A w \in DOMAIN workspaces : workspaces[w] \in Counter
  /\ DOMAIN useCases \subseteq UseCase
  /\ \A u \in DOMAIN useCases : useCases[u] \in Counter
  /\ retries \in 0..RetryInFlight
  /\ state \in {"normal", "degraded", "overloaded"}
  /\ held \in [Request -> Nat]
  /\ admitted \in [Workspace -> [0..MaxTime -> Nat]]

Init ==
  /\ now = 0
  /\ global = 0 /\ globalRate = zero /\ retries = 0 /\ state = "normal"
  /\ workspaces = [w \in {} |-> zero] /\ useCases = [u \in {} |-> zero]
  /\ held = [r \in Request |-> 0]
  /\ admitted = [w \in Workspace |-> [t \in 0..MaxTime |-> 0]]
-----------------------------------------------------------------------------
(* Helpers.                                                                *)

\* normalizeLimits on the two ratios.
DegradedRatio ==
  IF GivenDegraded <= 0 \/ GivenDegraded >= 100 THEN 80 ELSE GivenDegraded
RecoveryRatio ==
  IF GivenRecovery <= 0 \/ GivenRecovery >= DegradedRatio THEN 60
  ELSE GivenRecovery

\* n requests in flight are at least, or at most, a ratio of the limit.
AtLeast(n, ratio) == 100 * n >= ratio * GlobalInFlight
AtMost(n, ratio)  == 100 * n <= ratio * GlobalInFlight

\* A bug to tell apart: an overloaded process stays so until it recovers.
StateSticks(s, n) ==
  IF s = "normal" THEN
    IF AtLeast(n, 100) THEN "overloaded"
    ELSE IF AtLeast(n, DegradedRatio) THEN "degraded" ELSE s
  ELSE IF AtMost(n, RecoveryRatio) THEN "normal" ELSE s

\* updateStateLocked.
NextState(s, n) ==
  IF s = "normal" THEN
    IF AtLeast(n, 100) THEN "overloaded"
    ELSE IF AtLeast(n, DegradedRatio) THEN "degraded" ELSE s
  ELSE
    IF AtMost(n, RecoveryRatio) THEN "normal"
    ELSE IF ~AtLeast(n, 100) THEN "degraded" ELSE s

\* A map read of a missing key gives the zero counter.
Get(map, key) == IF key \in DOMAIN map THEN map[key] ELSE zero

Put(map, key, value) ==
  [k \in DOMAIN map \cup {key} |-> IF k = key THEN value ELSE map[k]]

resetCounterWindow(c) ==
  IF c.from = NoTime \/ now - c.from >= RateWindow
  THEN [c EXCEPT !.rate = 0, !.from = now] ELSE c

\* A bug to tell apart: an entry is evicted as soon as it is not in use.
EvictAtOnce(map) == Restrict(map, {k \in DOMAIN map : map[k].inFlight > 0})

evictIdle(map) ==
  Restrict(map, {k \in DOMAIN map :
                   map[k].inFlight > 0 \/ now - map[k].seen < WorkspaceStateTTL})

\* evictIdle and resetRateWindows on one map.
Refresh(map, key) ==
  LET kept == evictIdle(map)
  IN  IF key \in DOMAIN kept THEN Put(kept, key, resetCounterWindow(kept[key]))
      ELSE kept

Count(c) ==
  LET fresh == resetCounterWindow(c)
  IN  [fresh EXCEPT !.inFlight = @ + 1, !.rate = @ + 1, !.seen = now]

decrement(map, key) ==
  LET c == Get(map, key)
  IN  Put(map, key, [c EXCEPT !.inFlight = IF @ > 0 THEN @ - 1 ELSE @])
-----------------------------------------------------------------------------
(* admit, on the refreshed counters.                                       *)

Shed(r) == state = "degraded" /\ ~r.essential

ProcessFull == global >= GlobalInFlight

Full(c, inFlight, rate) == c.inFlight >= inFlight \/ c.rate >= rate

NoRoom(map, key, max) ==
  key \notin DOMAIN map /\ Cardinality(DOMAIN map) >= max

OverBudget(r, rate, ws, uc) ==
  \/ rate.rate >= GlobalRate
  \/ Full(Get(ws, r.ws), WorkspaceInFlight, WorkspaceRate)
  \/ Full(Get(uc, r.uc), UseCaseInFlight, UseCaseRate)
  \/ r.retry /\ retries >= RetryInFlight
  \/ NoRoom(ws, r.ws, MaxWorkspaceStates)
  \/ NoRoom(uc, r.uc, MaxUseCaseStates)
-----------------------------------------------------------------------------
(* Acquire with its two outcomes, and release.                             *)

Admitted(r) ==
  LET rate == resetCounterWindow(globalRate)
      ws   == Refresh(workspaces, r.ws)
      uc   == Refresh(useCases, r.uc)
  IN  /\ ~Shed(r) /\ ~ProcessFull /\ ~OverBudget(r, rate, ws, uc)
      /\ global' = global + 1
      /\ globalRate' = [rate EXCEPT !.rate = @ + 1, !.seen = now]
      /\ workspaces' = Put(ws, r.ws, Count(Get(ws, r.ws)))
      /\ useCases' = Put(uc, r.uc, Count(Get(uc, r.uc)))
      /\ retries' = IF r.retry THEN retries + 1 ELSE retries
      /\ state' = NextState(state, global')
      /\ held' = [held EXCEPT ![r] = @ + 1]
      /\ admitted' = [admitted EXCEPT ![r.ws][now] = @ + 1]
      /\ UNCHANGED now

\* A rejection leaves evictions and new windows behind, and only one of a
\* full process overloads it.
Rejected(r) ==
  LET rate == resetCounterWindow(globalRate)
      ws   == Refresh(workspaces, r.ws)
      uc   == Refresh(useCases, r.uc)
  IN  /\ Shed(r) \/ ProcessFull \/ OverBudget(r, rate, ws, uc)
      /\ state' = IF ~Shed(r) /\ ProcessFull THEN "overloaded" ELSE state
      /\ globalRate' = rate
      /\ workspaces' = ws
      /\ useCases' = uc
      /\ UNCHANGED <<now, global, retries, held, admitted>>

\* A bug to tell apart: Release is not once-only.
ReleaseAgain(r) ==
  /\ global' = IF global > 0 THEN global - 1 ELSE global
  /\ workspaces' = decrement(workspaces, r.ws)
  /\ useCases' = decrement(useCases, r.uc)
  /\ retries' = IF r.retry /\ retries > 0 THEN retries - 1 ELSE retries
  /\ state' = NextState(state, global')
  /\ held' = [held EXCEPT ![r] = IF @ > 0 THEN @ - 1 ELSE @]
  /\ UNCHANGED <<now, globalRate, admitted>>

\* The first Release of a lease; another one does nothing.
Release(r) ==
  /\ held[r] > 0
  /\ global' = IF global > 0 THEN global - 1 ELSE global
  /\ workspaces' = decrement(workspaces, r.ws)
  /\ useCases' = decrement(useCases, r.uc)
  /\ retries' = IF r.retry /\ retries > 0 THEN retries - 1 ELSE retries
  /\ state' = NextState(state, global')
  /\ held' = [held EXCEPT ![r] = @ - 1]
  /\ UNCHANGED <<now, globalRate, admitted>>

Tick ==
  /\ now < MaxTime
  /\ now' = now + 1
  /\ UNCHANGED <<global, globalRate, workspaces, useCases, retries, state,
                 held, admitted>>

Next == Tick \/ \E r \in Request : Admitted(r) \/ Rejected(r) \/ Release(r)

Spec == Init /\ [][Next]_vars
-----------------------------------------------------------------------------
(* Properties.                                                             *)

\* Every counter equals the leases it stands for, through evictions, window
\* resets and rejections: no admission is leaked and no release is counted
\* twice; and no key with a lease is missing from its map, so that release
\* never creates one.
LeasesAccounted ==
  /\ global = Tally(held, Request)
  /\ retries = Tally(held, {r \in Request : r.retry})
  /\ \A w \in Workspace :
       Get(workspaces, w).inFlight = Tally(held, {r \in Request : r.ws = w})
  /\ \A u \in UseCase :
       Get(useCases, u).inFlight = Tally(held, {r \in Request : r.uc = u})

\* The process degrades at the degraded ratio: with that much in flight it is
\* not normal, so nonessential work is shed.
DegradesAtRatio == state = "normal" => ~AtLeast(global, DegradedRatio)

\* The load state says what it is for, although it is only recomputed when a
\* request is admitted or released: overloaded means full, degraded means the
\* load has not fallen to the recovery ratio, and normal means it is below
\* the degraded ratio.  An idle process is thus normal again.
StateMatchesLoad ==
  /\ state = "overloaded" => global = GlobalInFlight
  /\ state = "degraded" => ~AtMost(global, RecoveryRatio)
  /\ DegradesAtRatio

\* Hysteresis: work shed because of load is shed until the load has fallen to
\* the recovery ratio, and not only below the ratio at which shedding began.
Hysteresis ==
  [][state # "normal" /\ state' = "normal" => AtMost(global', RecoveryRatio)]_state

\* "bounded process-local admission control": the maps never outgrow their
\* limits, whatever keys callers send, and still a workspace is admitted at
\* most twice its rate in any span as long as a window, also when its counter
\* was evicted and made anew in between.
WorkspaceRateHolds ==
  /\ Cardinality(DOMAIN workspaces) <= MaxWorkspaceStates
  /\ Cardinality(DOMAIN useCases) <= MaxUseCaseStates
  /\ \A w \in Workspace, t \in 0..MaxTime :
       Tally(admitted[w], {i \in 0..MaxTime : t <= i /\ i < t + RateWindow})
         <= 2 * WorkspaceRate
=============================================================================
