------------------------------ MODULE Limits_proofs ------------------------------
(***************************************************************************)
(* The two admission controls of the library, for all limits.              *)
(*                                                                         *)
(* CapacityController: the load state says what it is for, provided the    *)
(* recovery ratio is below the degraded ratio; every counter equals the    *)
(* leases it stands for; and the rate of a workspace holds across windows  *)
(* and evictions, provided an idle counter is kept for a window.           *)
(*                                                                         *)
(* MemoryLimiter: the map is bounded and the rate of a key holds, provided *)
(* no key is empty and an idle bucket outlives its window by twice the     *)
(* longest wait for the mutex.                                             *)
(***************************************************************************)
EXTENDS CapacityController, MemoryLimiter, FiniteSetTheorems, TLAPS

\* The part of the controller the load state depends on.
LoadInv ==
  /\ global \in 0..GlobalInFlight
  /\ state \in {"normal", "degraded", "overloaded"}
  /\ StateMatchesLoad
-----------------------------------------------------------------------------
\* normalizeLimits leaves positive ratios below one, and the limit is
\* positive.
LEMMA Ratios ==
  /\ DegradedRatio \in 1..99 /\ RecoveryRatio \in 1..99
  /\ GlobalInFlight \in Nat \ {0}
<1>1. DegradedRatio \in 1..99
  BY RatiosAssumption DEF DegradedRatio
<1>2. RecoveryRatio \in 1..99
  BY RatiosAssumption, <1>1 DEF RecoveryRatio
<1> QED
  BY <1>1, <1>2, LimitsAssumption

\* A process is at the whole of its limit exactly when it is full.
LEMMA AtLimit ==
  ASSUME NEW n \in Nat
  PROVE  AtLeast(n, 100) <=> n >= GlobalInFlight
  BY Ratios DEF AtLeast

\* Nothing in flight is below both ratios.
LEMMA IdleIsBelow ==
  /\ AtMost(0, RecoveryRatio)
  /\ ~AtLeast(0, DegradedRatio)
<1>1. ASSUME NEW r \in 1..99 PROVE r * GlobalInFlight \in Nat /\ r * GlobalInFlight > 0
  BY Ratios, <1>1
<1> QED
  BY <1>1, Ratios DEF AtMost, AtLeast

\* Load at the recovery ratio is below the degraded ratio, if the ratios are
\* in that order.
LEMMA RecoveredIsBelow ==
  ASSUME RecoveryRatio < DegradedRatio, NEW n \in Nat, AtMost(n, RecoveryRatio)
  PROVE  ~AtLeast(n, DegradedRatio)
<1>1. DegradedRatio * GlobalInFlight
        = RecoveryRatio * GlobalInFlight
            + (DegradedRatio - RecoveryRatio) * GlobalInFlight
  BY Ratios
<1>2. (DegradedRatio - RecoveryRatio) * GlobalInFlight > 0
  BY Ratios
<1>3. /\ DegradedRatio * GlobalInFlight \in Int
      /\ RecoveryRatio * GlobalInFlight \in Int
      /\ (DegradedRatio - RecoveryRatio) * GlobalInFlight \in Int
  BY Ratios
<1> QED
  BY <1>1, <1>2, <1>3 DEF AtLeast, AtMost

\* updateStateLocked gives a state that matches the new load, from every
\* state that an admission or a release can find.
LEMMA NextStateMatches ==
  ASSUME RecoveryRatio < DegradedRatio,
         NEW s \in {"normal", "degraded", "overloaded"},
         NEW n \in 0..GlobalInFlight
  PROVE  /\ NextState(s, n) \in {"normal", "degraded", "overloaded"}
         /\ NextState(s, n) = "overloaded" => n = GlobalInFlight
         /\ NextState(s, n) = "degraded" => ~AtMost(n, RecoveryRatio)
         /\ NextState(s, n) = "normal" => ~AtLeast(n, DegradedRatio)
<1>1. n \in Nat /\ GlobalInFlight \in Nat
  BY Ratios
<1>2. AtLeast(n, 100) => n = GlobalInFlight
  BY <1>1, AtLimit
<1>3. AtMost(n, RecoveryRatio) => ~AtLeast(n, DegradedRatio)
  BY <1>1, RecoveredIsBelow
<1> QED
  BY <1>2, <1>3, Zenon DEF NextState

\* A new controller is idle and normal.
LEMMA InitLoad == Init => LoadInv
<1> SUFFICES ASSUME Init PROVE LoadInv
  OBVIOUS
<1> QED
  BY Ratios, IdleIsBelow DEF Init, LoadInv, StateMatchesLoad, DegradesAtRatio

\* Each step preserves it.  A rejection changes the state without the load,
\* and only to overloaded when the process is full.
LEMMA NextLoad ==
  ASSUME RecoveryRatio < DegradedRatio
  PROVE  LoadInv /\ [Next]_vars => LoadInv'
<1> SUFFICES ASSUME LoadInv, [Next]_vars PROVE LoadInv'
  OBVIOUS
<1>0. GlobalInFlight \in Nat
  BY Ratios
<1>1. ASSUME global' \in 0..GlobalInFlight, state' = NextState(state, global')
      PROVE  LoadInv'
  <2>1. state \in {"normal", "degraded", "overloaded"}
    BY DEF LoadInv
  <2>2. /\ state' \in {"normal", "degraded", "overloaded"}
        /\ state' = "overloaded" => global' = GlobalInFlight
        /\ state' = "degraded" => ~AtMost(global', RecoveryRatio)
        /\ state' = "normal" => ~AtLeast(global', DegradedRatio)
    BY <1>1, <2>1, NextStateMatches
  <2> QED
    BY <1>1, <2>2 DEF LoadInv, StateMatchesLoad, DegradesAtRatio, AtMost, AtLeast
<1>2. ASSUME NEW r \in Request, Admitted(r) PROVE LoadInv'
  <2>1. global' = global + 1 /\ global < GlobalInFlight
    BY <1>0, <1>2 DEF Admitted, ProcessFull, LoadInv
  <2>2. global' \in 0..GlobalInFlight
    BY <1>0, <2>1 DEF LoadInv
  <2>3. state' = NextState(state, global')
    BY <1>2 DEF Admitted
  <2> QED BY <1>1, <2>2, <2>3
<1>3. ASSUME NEW r \in Request, Release(r) PROVE LoadInv'
  <2>1. global' \in 0..GlobalInFlight
    BY <1>0, <1>3 DEF Release, LoadInv
  <2>2. state' = NextState(state, global')
    BY <1>3 DEF Release
  <2> QED BY <1>1, <2>1, <2>2
<1>4. ASSUME NEW r \in Request, Rejected(r) PROVE LoadInv'
  <2>1. /\ global' = global
        /\ state' = state \/ (state' = "overloaded" /\ ProcessFull)
    BY <1>4 DEF Rejected
  <2>2. CASE state' = state
    BY <2>1, <2>2 DEF LoadInv, StateMatchesLoad, DegradesAtRatio, AtMost, AtLeast
  <2>3. CASE state' = "overloaded" /\ ProcessFull
    BY <1>0, <2>1, <2>3
    DEF LoadInv, StateMatchesLoad, DegradesAtRatio, ProcessFull
  <2> QED BY <2>1, <2>2, <2>3
<1>5. CASE Tick \/ UNCHANGED vars
  BY <1>5
  DEF Tick, vars, LoadInv, StateMatchesLoad, DegradesAtRatio, AtMost, AtLeast
<1> QED
  BY <1>2, <1>3, <1>4, <1>5 DEF Next
-----------------------------------------------------------------------------
(* The theorems.                                                           *)

\* The load state always says what it is for (controller.go:183-209): full
\* when overloaded, above the recovery ratio when degraded, below the
\* degraded ratio when normal.  The ratios must be in order, which
\* normalizeLimits does not ensure.
THEOREM LoadStateIsRight ==
  ASSUME RecoveryRatio < DegradedRatio
  PROVE  Spec => []StateMatchesLoad
<1>1. Init => LoadInv
  BY InitLoad
<1>2. LoadInv /\ [Next]_vars => LoadInv'
  BY NextLoad
<1>3. LoadInv => StateMatchesLoad
  BY DEF LoadInv
<1> QED
  BY <1>1, <1>2, <1>3, PTL DEF Spec

\* The controller returns to normal only when the load has fallen to the
\* recovery ratio, for every pair of ratios.
THEOREM RecoversWithHysteresis == Spec => Hysteresis
<1>1. ASSUME NEW r \in Request, Admitted(r) \/ Release(r)
      PROVE  state # "normal" /\ state' = "normal"
               => AtMost(global', RecoveryRatio)
  <2>1. state' = NextState(state, global')
    BY <1>1 DEF Admitted, Release
  <2> QED BY <2>1 DEF NextState
<1>2. ASSUME NEW r \in Request, Rejected(r)
      PROVE  ~(state # "normal" /\ state' = "normal")
  BY <1>2 DEF Rejected
<1>3. [Next]_vars =>
        [state # "normal" /\ state' = "normal"
           => AtMost(global', RecoveryRatio)]_state
  BY <1>1, <1>2 DEF Next, Tick, vars
<1> QED BY <1>3, PTL DEF Spec, Hysteresis
-----------------------------------------------------------------------------
(* Units and their sums.                                                   *)

\* A unit of f is an element with a number up to f of it.
LEMMA UnitsMembers ==
  ASSUME NEW f, NEW S, NEW p
  PROVE  p \in Units(f, S)
           <=> \E x \in S : \E n \in 1..f[x] : p = <<x, n>>
  BY SMT DEF Units

\* Units of fewer elements are fewer.
LEMMA UnitsSubset ==
  ASSUME NEW f, NEW S, NEW T \in SUBSET S, IsFiniteSet(Units(f, S))
  PROVE  /\ IsFiniteSet(Units(f, T))
         /\ Tally(f, T) \in Nat
         /\ Tally(f, T) <= Tally(f, S)
<1>1. Units(f, T) \in SUBSET Units(f, S)
  BY UnitsMembers
<1>2. IsFiniteSet(Units(f, T)) /\ Cardinality(Units(f, T)) <= Cardinality(Units(f, S))
  BY <1>1, FS_Subset
<1> QED
  BY <1>2, FS_CardinalityType DEF Tally

\* A sum over a union is at most the sum of the sums.
LEMMA TallyUnion ==
  ASSUME NEW f, NEW S, NEW T, NEW U, U \subseteq S \cup T,
         IsFiniteSet(Units(f, S)), IsFiniteSet(Units(f, T))
  PROVE  Tally(f, U) <= Tally(f, S) + Tally(f, T)
<1>1. Units(f, U) \subseteq Units(f, S) \cup Units(f, T)
  BY UnitsMembers
<1>2. /\ IsFiniteSet(Units(f, S) \cup Units(f, T))
      /\ Cardinality(Units(f, S) \cup Units(f, T))
           = Cardinality(Units(f, S)) + Cardinality(Units(f, T))
               - Cardinality(Units(f, S) \cap Units(f, T))
  BY FS_Union
<1>3. IsFiniteSet(Units(f, S) \cap Units(f, T))
  BY FS_Intersection
<1>4. /\ IsFiniteSet(Units(f, U))
      /\ Cardinality(Units(f, U)) <= Cardinality(Units(f, S) \cup Units(f, T))
  BY <1>1, <1>2, FS_Subset
<1>5. /\ Cardinality(Units(f, S)) \in Nat
      /\ Cardinality(Units(f, T)) \in Nat
      /\ Cardinality(Units(f, S) \cap Units(f, T)) \in Nat
      /\ Cardinality(Units(f, U)) \in Nat
  BY <1>3, <1>4, FS_CardinalityType
<1> QED
  BY <1>2, <1>4, <1>5 DEF Tally

\* No units, no sum.
LEMMA TallyNone ==
  ASSUME NEW f, NEW S, \A x \in S : f[x] = 0
  PROVE  IsFiniteSet(Units(f, S)) /\ Tally(f, S) = 0
<1>1. \A x \in S : 1..f[x] = {}
  OBVIOUS
<1>2. Units(f, S) = {}
  BY <1>1, UnitsMembers
<1> QED
  BY <1>2, FS_EmptySet DEF Tally

\* One unit more of x is one more pair.
LEMMA UnitsOneMore ==
  ASSUME NEW f, NEW g, NEW S, NEW x \in S, f[x] \in Nat, g[x] = f[x] + 1,
         \A y \in S : y # x => g[y] = f[y]
  PROVE  /\ Units(g, S) = Units(f, S) \cup {<<x, g[x]>>}
         /\ Units(f, S) = Units(g, S) \ {<<x, g[x]>>}
         /\ <<x, g[x]>> \in Units(g, S)
<1>1. 1..g[x] = (1..f[x]) \cup {g[x]} /\ g[x] \notin 1..f[x]
  OBVIOUS
<1>2. ASSUME NEW p
      PROVE  p \in Units(g, S) <=> p \in Units(f, S) \/ p = <<x, g[x]>>
  <2>1. ASSUME p \in Units(g, S) PROVE p \in Units(f, S) \/ p = <<x, g[x]>>
    <3>1. PICK y \in S : \E n \in 1..g[y] : p = <<y, n>>
      BY <2>1, UnitsMembers
    <3>2. PICK n \in 1..g[y] : p = <<y, n>>
      BY <3>1
    <3>3. n \in 1..f[y] \/ (y = x /\ n = g[x])
      BY <1>1, Zenon
    <3> QED
      BY <3>2, <3>3, UnitsMembers
  <2>2. ASSUME p \in Units(f, S) PROVE p \in Units(g, S)
    <3>1. PICK y \in S : \E n \in 1..f[y] : p = <<y, n>>
      BY <2>2, UnitsMembers
    <3>2. PICK n \in 1..f[y] : p = <<y, n>>
      BY <3>1
    <3>3. n \in 1..g[y]
      BY <1>1, Zenon
    <3> QED
      BY <3>2, <3>3, UnitsMembers
  <2>3. ASSUME p = <<x, g[x]>> PROVE p \in Units(g, S)
    BY <1>1, <2>3, UnitsMembers
  <2> QED
    BY <2>1, <2>2, <2>3
<1>3. <<x, g[x]>> \notin Units(f, S)
  <2>1. SUFFICES ASSUME <<x, g[x]>> \in Units(f, S) PROVE FALSE
    OBVIOUS
  <2>2. PICK y \in S : \E n \in 1..f[y] : <<x, g[x]>> = <<y, n>>
    BY <2>1, UnitsMembers
  <2> QED
    BY <1>1, <2>2
<1> QED
  BY <1>2, <1>3

\* The units of functions that agree are the same.
LEMMA UnitsAgree ==
  ASSUME NEW f, NEW g, NEW S, \A y \in S : g[y] = f[y]
  PROVE  Units(g, S) = Units(f, S) /\ Tally(g, S) = Tally(f, S)
<1>1. {{x} \X (1..g[x]) : x \in S} = {{x} \X (1..f[x]) : x \in S}
  OBVIOUS
<1>2. Units(g, S) = Units(f, S)
  BY <1>1, Zenon DEF Units
<1> QED
  BY <1>2 DEF Tally

\* One more unit of x adds one to the sums over sets with x, and one less
\* takes it away.
LEMMA TallyIncrement ==
  ASSUME NEW f, NEW g, NEW S, NEW x, IsFiniteSet(Units(f, S)),
         f[x] \in Nat, g[x] = f[x] + 1, \A y \in S : y # x => g[y] = f[y]
  PROVE  /\ IsFiniteSet(Units(g, S))
         /\ Tally(g, S) = IF x \in S THEN Tally(f, S) + 1 ELSE Tally(f, S)
<1>1. CASE x \in S
  <2>1. PICK u : u = <<x, g[x]>>
    OBVIOUS
  <2>2. /\ Units(g, S) = Units(f, S) \cup {u}
        /\ Units(f, S) = Units(g, S) \ {u}
    BY <1>1, <2>1, UnitsOneMore
  <2>3. u \notin Units(f, S)
    BY <2>2
  <2>4. /\ IsFiniteSet(Units(g, S))
        /\ Cardinality(Units(g, S)) = Cardinality(Units(f, S)) + 1
    BY <2>2, <2>3, FS_AddElement
  <2> QED
    BY <1>1, <2>4 DEF Tally
<1>2. CASE x \notin S
  <2>1. \A y \in S : g[y] = f[y]
    BY <1>2
  <2>2. Units(g, S) = Units(f, S) /\ Tally(g, S) = Tally(f, S)
    BY <2>1, UnitsAgree
  <2> QED
    BY <1>2, <2>2
<1> QED
  BY <1>1, <1>2

LEMMA TallyDecrement ==
  ASSUME NEW f, NEW g, NEW S, NEW x, IsFiniteSet(Units(f, S)),
         g[x] \in Nat, f[x] = g[x] + 1, \A y \in S : y # x => f[y] = g[y]
  PROVE  /\ IsFiniteSet(Units(g, S))
         /\ Tally(g, S) = IF x \in S THEN Tally(f, S) - 1 ELSE Tally(f, S)
         /\ x \in S => Tally(f, S) > 0
<1>1. CASE x \in S
  <2>1. PICK u : u = <<x, f[x]>>
    OBVIOUS
  <2>2. Units(g, S) = Units(f, S) \ {u} /\ u \in Units(f, S)
    BY <1>1, <2>1, UnitsOneMore
  <2>3. /\ IsFiniteSet(Units(g, S))
        /\ Cardinality(Units(g, S)) = Cardinality(Units(f, S)) - 1
    BY <2>2, FS_RemoveElement
  <2>4. Cardinality(Units(g, S)) \in Nat /\ Cardinality(Units(f, S)) \in Nat
    BY <2>3, FS_CardinalityType
  <2> QED
    BY <1>1, <2>3, <2>4 DEF Tally
<1>2. CASE x \notin S
  <2>1. \A y \in S : g[y] = f[y]
    BY <1>2
  <2>2. Units(g, S) = Units(f, S) /\ Tally(g, S) = Tally(f, S)
    BY <2>1, UnitsAgree
  <2> QED
    BY <1>2, <2>2
<1> QED
  BY <1>1, <1>2
-----------------------------------------------------------------------------
(* The maps of counters.                                                   *)

\* A map of counters within its bound.
MapOK(map, max) ==
  /\ map = [k \in DOMAIN map |-> map[k]]
  /\ \A k \in DOMAIN map : map[k] \in Counter
  /\ IsFiniteSet(DOMAIN map)
  /\ Cardinality(DOMAIN map) <= max

\* A read of any key gives a counter.
LEMMA GetsCounter ==
  ASSUME NEW map, NEW max, MapOK(map, max), NEW k
  PROVE  Get(map, k) \in Counter
<1>1. zero \in Counter
  BY DEF zero, Counter, NoTime
<1> QED
  BY <1>1 DEF MapOK, Get

\* A write is read back, and changes no other key.
LEMMA PutThenGet ==
  ASSUME NEW map, NEW key, NEW c, NEW k
  PROVE  Get(Put(map, key, c), k) = IF k = key THEN c ELSE Get(map, k)
  BY DEF Get, Put

\* Writing a key the map has, or a new one while there is room, keeps the
\* bound.
LEMMA PutKeepsMap ==
  ASSUME NEW map, NEW max \in Nat, MapOK(map, max), NEW key, NEW c \in Counter,
         ~NoRoom(map, key, max)
  PROVE  MapOK(Put(map, key, c), max)
<1>1. /\ Put(map, key, c) = [k \in DOMAIN Put(map, key, c) |-> Put(map, key, c)[k]]
      /\ \A k \in DOMAIN Put(map, key, c) : Put(map, key, c)[k] \in Counter
      /\ DOMAIN Put(map, key, c) = DOMAIN map \cup {key}
  BY DEF Put, MapOK
<1>2. /\ IsFiniteSet(DOMAIN map \cup {key})
      /\ Cardinality(DOMAIN map \cup {key})
           = IF key \in DOMAIN map THEN Cardinality(DOMAIN map)
             ELSE Cardinality(DOMAIN map) + 1
  BY FS_AddElement DEF MapOK
<1>3. Cardinality(DOMAIN map) \in Nat
  BY FS_CardinalityType DEF MapOK
<1>4. Cardinality(DOMAIN map \cup {key}) <= max
  BY <1>2, <1>3 DEF NoRoom, MapOK
<1> QED
  BY <1>1, <1>2, <1>4 DEF MapOK

\* A new window leaves what is in flight alone.
LEMMA ResetKeepsInFlight ==
  ASSUME NEW c \in Counter, now \in Int
  PROVE  /\ resetCounterWindow(c) \in Counter
         /\ resetCounterWindow(c).inFlight = c.inFlight
         /\ resetCounterWindow(c).seen = c.seen
  BY DEF resetCounterWindow, Counter

\* An eviction keeps every counter in use as it is.
LEMMA EvictKeepsInFlight ==
  ASSUME NEW map, NEW max \in Nat, MapOK(map, max), now \in Int
  PROVE  /\ MapOK(evictIdle(map), max)
         /\ DOMAIN evictIdle(map) \subseteq DOMAIN map
         /\ \A k \in DOMAIN evictIdle(map) : evictIdle(map)[k] = map[k]
         /\ \A k \in DOMAIN map : k \notin DOMAIN evictIdle(map) =>
              /\ map[k].inFlight = 0
              /\ now - map[k].seen >= WorkspaceStateTTL
<1> DEFINE S == {k \in DOMAIN map : map[k].inFlight > 0
                                     \/ now - map[k].seen < WorkspaceStateTTL}
<1>1. evictIdle(map) = [k \in S |-> map[k]]
  BY DEF evictIdle, Restrict
<1>2. IsFiniteSet(S) /\ Cardinality(S) <= Cardinality(DOMAIN map)
  BY FS_Subset DEF MapOK
<1>3. Cardinality(S) \in Nat /\ Cardinality(DOMAIN map) \in Nat
  BY <1>2, FS_CardinalityType DEF MapOK
<1>4. Cardinality(S) <= max
  BY <1>2, <1>3 DEF MapOK
<1>5. \A k \in DOMAIN map : k \notin S =>
        map[k].inFlight = 0 /\ now - map[k].seen >= WorkspaceStateTTL
  BY LimitsAssumption DEF MapOK, Counter
<1>6. \A k \in S : map[k] \in Counter
  BY DEF MapOK
<1>7. S \subseteq DOMAIN map
  OBVIOUS
<1> HIDE DEF S
<1> QED
  BY <1>1, <1>2, <1>4, <1>5, <1>6, <1>7 DEF MapOK

\* Refreshing a map changes nothing that is in flight.
LEMMA RefreshKeepsInFlight ==
  ASSUME NEW map, NEW max \in Nat, MapOK(map, max), NEW key, now \in Int
  PROVE  /\ MapOK(Refresh(map, key), max)
         /\ \A k : Get(Refresh(map, key), k).inFlight = Get(map, k).inFlight
<1> DEFINE kept == evictIdle(map)
<1>1. /\ MapOK(kept, max)
      /\ DOMAIN kept \subseteq DOMAIN map
      /\ \A k \in DOMAIN kept : kept[k] = map[k]
      /\ \A k \in DOMAIN map : k \notin DOMAIN kept => map[k].inFlight = 0
  BY EvictKeepsInFlight
<1>2. Refresh(map, key) =
        IF key \in DOMAIN kept THEN Put(kept, key, resetCounterWindow(kept[key]))
        ELSE kept
  BY DEF Refresh
<1> HIDE DEF kept
<1>3. ASSUME NEW k PROVE Get(kept, k).inFlight = Get(map, k).inFlight
  BY <1>1 DEF Get, zero
<1>4. CASE key \in DOMAIN kept
  <2> DEFINE c == resetCounterWindow(kept[key])
  <2>1. c \in Counter /\ c.inFlight = kept[key].inFlight
    BY <1>1, <1>4, ResetKeepsInFlight DEF MapOK
  <2>2. MapOK(Put(kept, key, c), max)
    <3>1. ~NoRoom(kept, key, max)
      BY <1>4 DEF NoRoom
    <3> QED BY <1>1, <2>1, <3>1, PutKeepsMap
  <2> HIDE DEF c
  <2>3. ASSUME NEW k
        PROVE  Get(Put(kept, key, c), k).inFlight = Get(map, k).inFlight
    <3>1. Get(Put(kept, key, c), k) = IF k = key THEN c ELSE Get(kept, k)
      BY PutThenGet
    <3>2. k = key => Get(kept, k) = kept[key]
      BY <1>4 DEF Get
    <3> QED
      BY <1>3, <2>1, <3>1, <3>2
  <2>4. Refresh(map, key) = Put(kept, key, c)
    BY <1>2, <1>4 DEF c
  <2> QED
    BY <2>2, <2>3, <2>4
<1>5. CASE key \notin DOMAIN kept
  BY <1>1, <1>2, <1>3, <1>5
<1> QED
  BY <1>4, <1>5

\* admit counts one request under its key, and release takes one from a key
\* that has it.
LEMMA AdmitCounts ==
  ASSUME NEW map, NEW max \in Nat, MapOK(map, max), NEW key, now \in Int,
         ~NoRoom(Refresh(map, key), key, max), NEW next,
         next = Put(Refresh(map, key), key, Count(Get(Refresh(map, key), key)))
  PROVE  /\ MapOK(next, max)
         /\ \A k : Get(next, k).inFlight =
              IF k = key THEN Get(map, k).inFlight + 1 ELSE Get(map, k).inFlight
<1> DEFINE fresh == Refresh(map, key)
           c == Count(Get(fresh, key))
<1>1. /\ MapOK(fresh, max)
      /\ \A k : Get(fresh, k).inFlight = Get(map, k).inFlight
  BY RefreshKeepsInFlight
<1>2. Get(fresh, key) \in Counter
  BY <1>1, GetsCounter
<1> HIDE DEF fresh
<1>3. c \in Counter /\ c.inFlight = Get(fresh, key).inFlight + 1
  <2>1. /\ resetCounterWindow(Get(fresh, key)) \in Counter
        /\ resetCounterWindow(Get(fresh, key)).inFlight = Get(fresh, key).inFlight
    BY <1>2, ResetKeepsInFlight
  <2>2. PICK reset : reset = resetCounterWindow(Get(fresh, key))
    OBVIOUS
  <2>3. c = [reset EXCEPT !.inFlight = @ + 1, !.rate = @ + 1, !.seen = now]
    BY <2>2 DEF Count
  <2>4. reset \in Counter /\ reset.inFlight = Get(fresh, key).inFlight
    BY <2>1, <2>2
  <2>5. reset.inFlight + 1 \in Nat /\ reset.rate + 1 \in Nat
    BY <2>4 DEF Counter
  <2> HIDE DEF c
  <2>6. c \in Counter
    BY <2>3, <2>4, <2>5 DEF Counter
  <2>7. c.inFlight = reset.inFlight + 1
    BY <2>3, <2>4 DEF Counter
  <2> QED
    BY <2>4, <2>6, <2>7
<1>4. next = Put(fresh, key, c) /\ ~NoRoom(fresh, key, max)
  BY DEF fresh
<1> HIDE DEF c
<1>5. MapOK(next, max)
  BY <1>1, <1>3, <1>4, PutKeepsMap
<1>6. ASSUME NEW k
      PROVE  Get(next, k).inFlight =
               IF k = key THEN Get(map, k).inFlight + 1 ELSE Get(map, k).inFlight
  <2>1. Get(next, k) = IF k = key THEN c ELSE Get(fresh, k)
    BY <1>4, PutThenGet
  <2> QED
    BY <1>1, <1>3, <2>1
<1> QED
  BY <1>5, <1>6

LEMMA ReleaseCounts ==
  ASSUME NEW map, NEW max \in Nat, MapOK(map, max), NEW key,
         Get(map, key).inFlight > 0, NEW next, next = decrement(map, key)
  PROVE  /\ MapOK(next, max)
         /\ DOMAIN next = DOMAIN map
         /\ \A k : Get(next, k).inFlight =
              IF k = key THEN Get(map, k).inFlight - 1 ELSE Get(map, k).inFlight
         /\ \A k : /\ Get(next, k).rate = Get(map, k).rate
                   /\ Get(next, k).from = Get(map, k).from
                   /\ Get(next, k).seen = Get(map, k).seen
<1> DEFINE old == Get(map, key)
           c == [old EXCEPT !.inFlight = IF @ > 0 THEN @ - 1 ELSE @]
<1>1. old \in Counter
  BY GetsCounter
<1>2. key \in DOMAIN map
  BY DEF Get, zero
<1>3. next = Put(map, key, c)
  BY DEF decrement
<1>4. old.inFlight > 0
  OBVIOUS
<1>5. old = Get(map, key)
  OBVIOUS
<1> HIDE DEF old
<1>6. /\ c \in Counter /\ c.inFlight = old.inFlight - 1
      /\ c.rate = old.rate /\ c.from = old.from /\ c.seen = old.seen
  BY <1>1, <1>4 DEF Counter
<1> HIDE DEF c
<1>7. ~NoRoom(map, key, max)
  BY <1>2 DEF NoRoom
<1>8. MapOK(next, max)
  BY <1>3, <1>6, <1>7, PutKeepsMap
<1>9. \A k : Get(next, k) = IF k = key THEN c ELSE Get(map, k)
  BY <1>3, PutThenGet
<1>10. DOMAIN next = DOMAIN map
  BY <1>2, <1>3 DEF Put
<1> QED
  BY <1>5, <1>6, <1>8, <1>9, <1>10
-----------------------------------------------------------------------------
(* The leases and the counters.                                            *)

\* The requests of a workspace, and of a use case.
OfWorkspace(w) == {r \in Request : r.ws = w}
OfUseCase(u) == {r \in Request : r.uc = u}

\* Inductive: the bounds of the maps are part of it, for release writes to
\* them, and the accounting tells that it writes to a key they have.
CapacityInv ==
  /\ now \in 0..MaxTime
  /\ MapOK(workspaces, MaxWorkspaceStates)
  /\ MapOK(useCases, MaxUseCaseStates)
  /\ held \in [Request -> Nat]
  /\ IsFiniteSet(Units(held, Request))
  /\ LeasesAccounted

\* The accounting with the sets of requests named.
LEMMA AccountedBySets ==
  LeasesAccounted <=>
    /\ global = Tally(held, Request)
    /\ retries = Tally(held, {r \in Request : r.retry})
    /\ \A w \in Workspace : Get(workspaces, w).inFlight = Tally(held, OfWorkspace(w))
    /\ \A u \in UseCase : Get(useCases, u).inFlight = Tally(held, OfUseCase(u))
  BY DEF LeasesAccounted, OfWorkspace, OfUseCase

\* Every sum over requests is a number.
LEMMA HeldIsNumber ==
  ASSUME NEW S \in SUBSET Request, IsFiniteSet(Units(held, Request))
  PROVE  IsFiniteSet(Units(held, S)) /\ Tally(held, S) \in Nat
  BY UnitsSubset

LEMMA InitCapacity == Init => CapacityInv
<1> SUFFICES ASSUME Init PROVE CapacityInv
  OBVIOUS
<1>1. now \in 0..MaxTime /\ held \in [Request -> Nat]
  BY ClockAssumption DEF Init
<1>2. ASSUME NEW S \in SUBSET Request
      PROVE  IsFiniteSet(Units(held, S)) /\ Tally(held, S) = 0
  <2>1. \A x \in S : held[x] = 0
    BY DEF Init
  <2> QED BY <2>1, TallyNone
<1>3. /\ DOMAIN workspaces = {} /\ DOMAIN useCases = {}
      /\ workspaces = [k \in DOMAIN workspaces |-> workspaces[k]]
      /\ useCases = [k \in DOMAIN useCases |-> useCases[k]]
  BY DEF Init
<1>4. /\ MapOK(workspaces, MaxWorkspaceStates) /\ MapOK(useCases, MaxUseCaseStates)
  BY <1>3, FS_EmptySet, LimitsAssumption DEF MapOK
<1>5. \A k : Get(workspaces, k).inFlight = 0 /\ Get(useCases, k).inFlight = 0
  BY <1>3 DEF Get, zero
<1>6. LeasesAccounted
  BY <1>2, <1>5, AccountedBySets DEF Init, OfWorkspace, OfUseCase
<1> QED
  BY <1>1, <1>2, <1>4, <1>6 DEF CapacityInv

\* Each step preserves it: an admission counts one lease under the process,
\* its workspace, its use case and the retries if it is one, and a release
\* takes it from the same; a rejection only refreshes the maps.
LEMMA NextCapacity == CapacityInv /\ [Next]_vars => CapacityInv'
<1> SUFFICES ASSUME CapacityInv, [Next]_vars PROVE CapacityInv'
  OBVIOUS
<1>0. /\ MaxWorkspaceStates \in Nat /\ MaxUseCaseStates \in Nat
      /\ now \in Int /\ MaxTime \in Nat
      /\ MapOK(workspaces, MaxWorkspaceStates) /\ MapOK(useCases, MaxUseCaseStates)
      /\ held \in [Request -> Nat]
      /\ IsFiniteSet(Units(held, Request))
  BY LimitsAssumption, ClockAssumption DEF CapacityInv
<1>1. /\ global = Tally(held, Request)
      /\ retries = Tally(held, {r \in Request : r.retry})
      /\ \A w \in Workspace : Get(workspaces, w).inFlight = Tally(held, OfWorkspace(w))
      /\ \A u \in UseCase : Get(useCases, u).inFlight = Tally(held, OfUseCase(u))
  BY AccountedBySets DEF CapacityInv
<1>2. /\ \A w : OfWorkspace(w) \in SUBSET Request
      /\ \A u : OfUseCase(u) \in SUBSET Request
      /\ {r \in Request : r.retry} \in SUBSET Request
  BY DEF OfWorkspace, OfUseCase
<1>3. \A S \in SUBSET Request : IsFiniteSet(Units(held, S)) /\ Tally(held, S) \in Nat
  BY <1>0, HeldIsNumber
<1>4. ASSUME NEW r \in Request, Admitted(r) PROVE CapacityInv'
  <2>1. ASSUME NEW S \in SUBSET Request
        PROVE  /\ IsFiniteSet(Units(held', S))
               /\ Tally(held', S) = IF r \in S THEN Tally(held, S) + 1 ELSE Tally(held, S)
    <3>1. /\ held[r] \in Nat /\ held'[r] = held[r] + 1
          /\ \A y \in S : y # r => held'[y] = held[y]
      BY <1>0, <1>4 DEF Admitted
    <3> QED
      BY <1>3, <3>1, TallyIncrement
  <2>2. held' \in [Request -> Nat] /\ now' = now
    BY <1>0, <1>4 DEF Admitted
  <2>3. /\ MapOK(workspaces', MaxWorkspaceStates)
        /\ \A k : Get(workspaces', k).inFlight =
             IF k = r.ws THEN Get(workspaces, k).inFlight + 1
             ELSE Get(workspaces, k).inFlight
    <3>1. /\ ~NoRoom(Refresh(workspaces, r.ws), r.ws, MaxWorkspaceStates)
          /\ workspaces' = Put(Refresh(workspaces, r.ws), r.ws,
                               Count(Get(Refresh(workspaces, r.ws), r.ws)))
      BY <1>4 DEF Admitted, OverBudget
    <3> QED BY <1>0, <3>1, AdmitCounts
  <2>4. /\ MapOK(useCases', MaxUseCaseStates)
        /\ \A k : Get(useCases', k).inFlight =
             IF k = r.uc THEN Get(useCases, k).inFlight + 1
             ELSE Get(useCases, k).inFlight
    <3>1. /\ ~NoRoom(Refresh(useCases, r.uc), r.uc, MaxUseCaseStates)
          /\ useCases' = Put(Refresh(useCases, r.uc), r.uc,
                             Count(Get(Refresh(useCases, r.uc), r.uc)))
      BY <1>4 DEF Admitted, OverBudget
    <3> QED BY <1>0, <3>1, AdmitCounts
  <2>5. global' = global + 1 /\ retries' = IF r.retry THEN retries + 1 ELSE retries
    BY <1>4 DEF Admitted
  <2>6. /\ r \in {q \in Request : q.retry} <=> r.retry
        /\ \A w : r \in OfWorkspace(w) <=> w = r.ws
        /\ \A u : r \in OfUseCase(u) <=> u = r.uc
    BY DEF OfWorkspace, OfUseCase
  <2>7. global' = Tally(held', Request)
    BY <1>1, <2>1, <2>5
  <2>8. retries' = Tally(held', {q \in Request : q.retry})
    BY <1>1, <1>2, <2>1, <2>5, <2>6
  <2>9. ASSUME NEW w \in Workspace
        PROVE  Get(workspaces', w).inFlight = Tally(held', OfWorkspace(w))
    BY <1>1, <1>2, <2>1, <2>3, <2>6
  <2>10. ASSUME NEW u \in UseCase
         PROVE  Get(useCases', u).inFlight = Tally(held', OfUseCase(u))
    BY <1>1, <1>2, <2>1, <2>4, <2>6
  <2>11. LeasesAccounted'
    BY <2>7, <2>8, <2>9, <2>10
    DEF LeasesAccounted, OfWorkspace, OfUseCase, Get, Tally, Units
  <2> QED
    BY <1>0, <2>1, <2>2, <2>3, <2>4, <2>11 DEF CapacityInv, MapOK
<1>5. ASSUME NEW r \in Request, Release(r) PROVE CapacityInv'
  <2>1. /\ held[r] \in Nat /\ held[r] > 0 /\ held' = [held EXCEPT ![r] = @ - 1]
        /\ now' = now
    BY <1>0, <1>5 DEF Release
  <2>2. ASSUME NEW S \in SUBSET Request
        PROVE  /\ IsFiniteSet(Units(held', S))
               /\ Tally(held', S) = IF r \in S THEN Tally(held, S) - 1 ELSE Tally(held, S)
               /\ r \in S => Tally(held, S) > 0
    <3>1. /\ held'[r] \in Nat /\ held[r] = held'[r] + 1
          /\ \A y \in S : y # r => held[y] = held'[y]
      BY <1>0, <2>1
    <3> QED
      BY <1>3, <3>1, TallyDecrement
  <2>3. held' \in [Request -> Nat]
    BY <1>0, <2>1
  <2>4. /\ r \in {q \in Request : q.retry} <=> r.retry
        /\ \A w : r \in OfWorkspace(w) <=> w = r.ws
        /\ \A u : r \in OfUseCase(u) <=> u = r.uc
        /\ r.ws \in Workspace /\ r.uc \in UseCase
    BY DEF OfWorkspace, OfUseCase, Workspace, UseCase
  <2>5. /\ MapOK(workspaces', MaxWorkspaceStates)
        /\ \A k : Get(workspaces', k).inFlight =
             IF k = r.ws THEN Get(workspaces, k).inFlight - 1
             ELSE Get(workspaces, k).inFlight
    <3>1. Get(workspaces, r.ws).inFlight > 0
      BY <1>1, <1>2, <2>2, <2>4
    <3>2. workspaces' = decrement(workspaces, r.ws)
      BY <1>5 DEF Release
    <3> QED BY <1>0, <3>1, <3>2, ReleaseCounts
  <2>6. /\ MapOK(useCases', MaxUseCaseStates)
        /\ \A k : Get(useCases', k).inFlight =
             IF k = r.uc THEN Get(useCases, k).inFlight - 1
             ELSE Get(useCases, k).inFlight
    <3>1. Get(useCases, r.uc).inFlight > 0
      BY <1>1, <1>2, <2>2, <2>4
    <3>2. useCases' = decrement(useCases, r.uc)
      BY <1>5 DEF Release
    <3> QED BY <1>0, <3>1, <3>2, ReleaseCounts
  <2>7. global' = Tally(held', Request)
    BY <1>1, <1>5, <2>2 DEF Release
  <2>8. retries' = Tally(held', {q \in Request : q.retry})
    BY <1>1, <1>2, <1>5, <2>2, <2>4 DEF Release
  <2>9. ASSUME NEW w \in Workspace
        PROVE  Get(workspaces', w).inFlight = Tally(held', OfWorkspace(w))
    BY <1>1, <1>2, <2>2, <2>4, <2>5
  <2>10. ASSUME NEW u \in UseCase
         PROVE  Get(useCases', u).inFlight = Tally(held', OfUseCase(u))
    BY <1>1, <1>2, <2>2, <2>4, <2>6
  <2>11. LeasesAccounted'
    BY <2>7, <2>8, <2>9, <2>10
    DEF LeasesAccounted, OfWorkspace, OfUseCase, Get, Tally, Units
  <2> QED
    BY <1>0, <2>1, <2>2, <2>3, <2>5, <2>6, <2>11 DEF CapacityInv, MapOK
<1>6. ASSUME NEW r \in Request, Rejected(r) PROVE CapacityInv'
  <2>1. /\ workspaces' = Refresh(workspaces, r.ws)
        /\ useCases' = Refresh(useCases, r.uc)
        /\ UNCHANGED <<now, global, retries, held>>
    BY <1>6 DEF Rejected
  <2>2. /\ MapOK(workspaces', MaxWorkspaceStates)
        /\ \A k : Get(workspaces', k).inFlight = Get(workspaces, k).inFlight
    BY <1>0, <2>1, RefreshKeepsInFlight
  <2>3. /\ MapOK(useCases', MaxUseCaseStates)
        /\ \A k : Get(useCases', k).inFlight = Get(useCases, k).inFlight
    BY <1>0, <2>1, RefreshKeepsInFlight
  <2>4. LeasesAccounted'
    <3>1. /\ global' = Tally(held', Request)
          /\ retries' = Tally(held', {q \in Request : q.retry})
          /\ \A w \in Workspace :
               Get(workspaces', w).inFlight = Tally(held', OfWorkspace(w))
          /\ \A u \in UseCase :
               Get(useCases', u).inFlight = Tally(held', OfUseCase(u))
      BY <1>1, <2>1, <2>2, <2>3
    <3> QED
      BY <3>1 DEF LeasesAccounted, OfWorkspace, OfUseCase, Get, Tally, Units
  <2> QED
    BY <2>1, <2>2, <2>3, <2>4 DEF CapacityInv, MapOK, Units
<1>7. CASE Tick
  BY <1>0, <1>7
  DEF Tick, CapacityInv, MapOK, LeasesAccounted, Get, Tally, Units
<1>8. CASE UNCHANGED vars
  BY <1>8 DEF vars, CapacityInv, MapOK, LeasesAccounted, Get, Tally, Units
<1> QED
  BY <1>4, <1>5, <1>6, <1>7, <1>8 DEF Next

\* CapacityInv is inductive.
THEOREM CapacityInvariance == Spec => []CapacityInv
<1>1. Init => CapacityInv
  BY InitCapacity
<1>2. CapacityInv /\ [Next]_vars => CapacityInv'
  BY NextCapacity
<1> QED
  BY <1>1, <1>2, PTL DEF Spec

\* Every counter of the process, the retries, the workspaces and the use
\* cases equals the leases held under it (controller.go:97-117, 127-181, 211-235):
\* evictions, new windows and rejections lose none, and release never finds
\* its key missing.
THEOREM LeasesStayAccounted == Spec => []LeasesAccounted
<1>1. CapacityInv => LeasesAccounted
  BY DEF CapacityInv
<1> QED
  BY <1>1, CapacityInvariance, PTL
-----------------------------------------------------------------------------
(* The rate of a workspace.                                                *)

\* Times in a window from t on, from f on, and less than a window before f.
Span(t) == {i \in 0..MaxTime : t <= i /\ i < t + RateWindow}
From(f) == {i \in 0..MaxTime : f <= i}
Before(f) == {i \in 0..MaxTime : f - RateWindow < i /\ i < f}

\* What a counter c, present in the map or not, says at a time about the
\* admissions a of its workspace: a counter that is not there forgets only
\* admissions a window old; one that is there counts those of its window, and
\* there are no more than the rate in the window's length before it.
WindowOK(present, c, a, at) ==
  /\ \A i \in 0..MaxTime : a[i] > 0 =>
       IF present THEN i <= c.seen /\ i < c.from + RateWindow
       ELSE i + RateWindow <= at
  /\ present =>
       /\ c.from \in 0..at /\ c.seen \in 0..at
       /\ c.rate <= WorkspaceRate
       /\ Tally(a, From(c.from)) = c.rate
       /\ Tally(a, Before(c.from)) <= WorkspaceRate

RateInv ==
  /\ admitted \in [Workspace -> [0..MaxTime -> Nat]]
  /\ \A w \in Workspace :
       /\ IsFiniteSet(Units(admitted[w], 0..MaxTime))
       /\ WindowOK(w \in DOMAIN workspaces, Get(workspaces, w), admitted[w], now)
       /\ \A t \in 0..MaxTime : Tally(admitted[w], Span(t)) <= 2 * WorkspaceRate

\* The constants are numbers.
LEMMA RateConstants ==
  /\ RateWindow \in Nat \ {0} /\ WorkspaceRate \in Nat \ {0}
  /\ WorkspaceStateTTL \in Nat \ {0} /\ MaxTime \in Nat
  BY LimitsAssumption, ClockAssumption

\* Beginning a new window is right: what the old one counted is all there is
\* in the window's length before it.
LEMMA ResetWindow ==
  ASSUME NEW a \in [0..MaxTime -> Nat], IsFiniteSet(Units(a, 0..MaxTime)),
         NEW c \in Counter, now \in 0..MaxTime, WindowOK(TRUE, c, a, now)
  PROVE  /\ WindowOK(TRUE, resetCounterWindow(c), a, now)
         /\ now - resetCounterWindow(c).from < RateWindow
<1>0. /\ c.from \in 0..now /\ c.seen \in 0..now /\ c.rate <= WorkspaceRate
      /\ Tally(a, From(c.from)) = c.rate
      /\ c.from \in Int /\ now \in Int
      /\ \A i \in 0..MaxTime : a[i] > 0 => i <= c.seen /\ i < c.from + RateWindow
  BY RateConstants DEF WindowOK
<1>1. CASE now - c.from >= RateWindow
  <2>1. PICK d : d = resetCounterWindow(c)
    OBVIOUS
  <2>2. d = [c EXCEPT !.rate = 0, !.from = now]
    BY <1>1, <2>1 DEF resetCounterWindow
  <2>3. d.from = now /\ d.rate = 0 /\ d.seen = c.seen
    BY <2>2 DEF Counter
  <2>4. Tally(a, From(now)) = 0
    <3>1. ASSUME NEW i \in From(now) PROVE a[i] = 0
      <4>1. i \in 0..MaxTime /\ i \in Int /\ now <= i /\ a[i] \in Nat
        BY RateConstants DEF From
      <4>2. ~(i < c.from + RateWindow)
        BY <1>0, <1>1, <4>1, RateConstants
      <4> QED BY <1>0, <4>1, <4>2
    <3> QED BY <3>1, TallyNone
  <2>5. Tally(a, Before(now)) <= WorkspaceRate
    <3>1. Before(now) \in SUBSET From(c.from)
      BY <1>0, <1>1, RateConstants DEF Before, From
    <3>2. From(c.from) \in SUBSET (0..MaxTime)
      BY DEF From
    <3>3. IsFiniteSet(Units(a, From(c.from))) /\ Tally(a, From(c.from)) \in Nat
      BY <3>2, UnitsSubset
    <3>4. Tally(a, Before(now)) \in Nat /\ Tally(a, Before(now)) <= Tally(a, From(c.from))
      BY <3>1, <3>3, UnitsSubset
    <3> QED BY <1>0, <3>3, <3>4, RateConstants
  <2>6. \A i \in 0..MaxTime : a[i] > 0 => i <= d.seen /\ i < d.from + RateWindow
    BY <1>0, <1>1, <2>3, RateConstants
  <2>7. d.from \in 0..now /\ d.seen \in 0..now /\ d.rate <= WorkspaceRate
    BY <1>0, <2>3, RateConstants
  <2>8. WindowOK(TRUE, d, a, now)
    BY <2>3, <2>4, <2>5, <2>6, <2>7 DEF WindowOK
  <2>9. now - d.from < RateWindow
    BY <1>0, <2>3, RateConstants
  <2> QED
    BY <2>1, <2>8, <2>9
<1>2. CASE ~(now - c.from >= RateWindow)
  <2>1. resetCounterWindow(c) = c
    BY <1>0, <1>2 DEF resetCounterWindow, NoTime
  <2>2. now - c.from < RateWindow
    BY <1>0, <1>2, RateConstants
  <2> QED BY <2>1, <2>2
<1> QED
  BY <1>1, <1>2

\* Refreshing the map is right: an evicted counter was idle for a window.
LEMMA RefreshWindow ==
  ASSUME WorkspaceStateTTL >= RateWindow,
         NEW map, NEW max \in Nat, MapOK(map, max), NEW key, NEW w,
         NEW a \in [0..MaxTime -> Nat], IsFiniteSet(Units(a, 0..MaxTime)),
         now \in 0..MaxTime, WindowOK(w \in DOMAIN map, Get(map, w), a, now),
         NEW next, next = Refresh(map, key)
  PROVE  /\ WindowOK(w \in DOMAIN next, Get(next, w), a, now)
         /\ w = key /\ w \in DOMAIN next => now - Get(next, w).from < RateWindow
<1> DEFINE kept == evictIdle(map)
<1>0. now \in Int
  BY RateConstants
<1>1. /\ MapOK(kept, max)
      /\ DOMAIN kept \subseteq DOMAIN map
      /\ \A k \in DOMAIN kept : kept[k] = map[k]
      /\ \A k \in DOMAIN map : k \notin DOMAIN kept =>
           now - map[k].seen >= WorkspaceStateTTL
  BY <1>0, EvictKeepsInFlight
<1>2. next = IF key \in DOMAIN kept THEN Put(kept, key, resetCounterWindow(kept[key]))
             ELSE kept
  BY DEF Refresh
<1>3. DOMAIN next = DOMAIN kept
  BY <1>2 DEF Put
<1> HIDE DEF kept
<1>4. CASE w \notin DOMAIN kept
  <2>1. \A i \in 0..MaxTime : a[i] > 0 => i + RateWindow <= now
    <3>1. CASE w \in DOMAIN map
      <4>1. now - map[w].seen >= WorkspaceStateTTL
        BY <1>1, <1>4, <3>1
      <4>2. map[w].seen \in Int /\ Get(map, w) = map[w]
        BY <3>1 DEF MapOK, Counter, Get
      <4>3. \A i \in 0..MaxTime : a[i] > 0 => i <= map[w].seen
        BY <3>1, <4>2 DEF WindowOK
      <4> QED BY <1>0, <4>1, <4>2, <4>3, RateConstants
    <3>2. CASE w \notin DOMAIN map
      BY <3>2 DEF WindowOK
    <3> QED BY <3>1, <3>2
  <2> QED
    BY <1>3, <1>4, <2>1 DEF WindowOK
<1>5. CASE w \in DOMAIN kept
  <2>1. /\ w \in DOMAIN map /\ Get(map, w) = map[w] /\ kept[w] = map[w]
        /\ map[w] \in Counter
    BY <1>1, <1>5 DEF Get, MapOK
  <2>2. WindowOK(TRUE, map[w], a, now)
    BY <2>1
  <2>3. CASE w = key
    <3>1. Get(next, w) = resetCounterWindow(map[w]) /\ w \in DOMAIN next
      BY <1>2, <1>3, <1>5, <2>1, <2>3 DEF Get, Put
    <3>2. /\ WindowOK(TRUE, resetCounterWindow(map[w]), a, now)
          /\ now - resetCounterWindow(map[w]).from < RateWindow
      BY <2>1, <2>2, ResetWindow
    <3> QED BY <3>1, <3>2
  <2>4. CASE w # key
    <3>1. Get(next, w) = map[w] /\ w \in DOMAIN next
      BY <1>2, <1>3, <1>5, <2>1, <2>4 DEF Get, Put
    <3> QED BY <2>2, <2>4, <3>1
  <2> QED BY <2>3, <2>4
<1> QED
  BY <1>4, <1>5

\* Counting an admission is right, and no window then has more than twice the
\* rate: one that holds the present is covered by the counter's own window
\* and the window's length before it.
LEMMA CountWindow ==
  ASSUME NEW a \in [0..MaxTime -> Nat], IsFiniteSet(Units(a, 0..MaxTime)),
         now \in 0..MaxTime, NEW present \in BOOLEAN, NEW c \in Counter,
         WindowOK(present, c, a, now), c.rate < WorkspaceRate,
         present => now - c.from < RateWindow, ~present => c = zero,
         \A t \in 0..MaxTime : Tally(a, Span(t)) <= 2 * WorkspaceRate,
         NEW b, b[now] = a[now] + 1,
         \A i \in 0..MaxTime : i # now => b[i] = a[i]
  PROVE  /\ IsFiniteSet(Units(b, 0..MaxTime))
         /\ WindowOK(TRUE, Count(c), b, now)
         /\ \A t \in 0..MaxTime : Tally(b, Span(t)) <= 2 * WorkspaceRate
<1>0. now \in Int /\ now >= 0 /\ c.rate \in Nat /\ c.from \in Int
  BY RateConstants DEF Counter
<1>1. PICK d : d = Count(c)
  OBVIOUS
<1>2. /\ d.seen = now /\ d.rate = c.rate + 1
      /\ d.from = IF present THEN c.from ELSE now
  <2>1. CASE present
    <3>1. c.from # NoTime /\ ~(now - c.from >= RateWindow)
      BY <1>0, <2>1, RateConstants DEF WindowOK, NoTime
    <3>2. resetCounterWindow(c) = c
      BY <3>1 DEF resetCounterWindow
    <3>3. d = [c EXCEPT !.inFlight = @ + 1, !.rate = @ + 1, !.seen = now]
      BY <1>1, <3>2 DEF Count
    <3> QED BY <2>1, <3>3 DEF Counter
  <2>2. CASE ~present
    <3>1. c.from = NoTime /\ c.rate = 0
      BY <2>2 DEF zero
    <3>2. PICK e : e = resetCounterWindow(c)
      OBVIOUS
    <3>3. e = [c EXCEPT !.rate = 0, !.from = now]
      BY <3>1, <3>2 DEF resetCounterWindow
    <3>4. e.rate = 0 /\ e.from = now /\ e \in Counter
      BY <1>0, <3>3 DEF Counter
    <3>5. d = [e EXCEPT !.inFlight = @ + 1, !.rate = @ + 1, !.seen = now]
      BY <1>1, <3>2 DEF Count
    <3>6. d.seen = now /\ d.rate = e.rate + 1 /\ d.from = e.from
      BY <3>4, <3>5 DEF Counter
    <3> QED BY <2>2, <3>1, <3>4, <3>6
  <2> QED BY <2>1, <2>2
<1>3. /\ d.from \in 0..now /\ d.from \in Int /\ now - d.from < RateWindow
      /\ d.rate <= WorkspaceRate
  <2>1. CASE present
    BY <1>0, <1>2, <2>1, RateConstants DEF WindowOK
  <2>2. CASE ~present
    BY <1>0, <1>2, <2>2, RateConstants
  <2> QED BY <2>1, <2>2
\* The admissions before this one, seen from the counter after it.
<1>4. /\ Tally(a, From(d.from)) = c.rate
      /\ Tally(a, Before(d.from)) <= WorkspaceRate
      /\ \A i \in 0..MaxTime : a[i] > 0 => i <= now /\ i < d.from + RateWindow
  <2>1. CASE present
    <3>1. \A i \in 0..MaxTime : i <= c.seen => i <= now
      BY <1>0, <2>1, RateConstants DEF WindowOK
    <3> QED BY <1>2, <2>1, <3>1 DEF WindowOK
  <2>2. CASE ~present
    <3>1. ASSUME NEW i \in 0..MaxTime, a[i] > 0
          PROVE  i + RateWindow <= now
      BY <2>2, <3>1 DEF WindowOK
    <3>2. \A i \in 0..MaxTime : a[i] \in Nat
      OBVIOUS
    <3>3. \A i \in From(now) : a[i] = 0
      <4>1. SUFFICES ASSUME NEW i \in From(now), a[i] # 0 PROVE FALSE
        OBVIOUS
      <4>2. i \in 0..MaxTime /\ i \in Int /\ now <= i /\ a[i] > 0
        BY <3>2, <4>1, RateConstants DEF From
      <4> QED BY <1>0, <3>1, <4>2, RateConstants
    <3>4. \A i \in Before(now) : a[i] = 0
      <4>1. SUFFICES ASSUME NEW i \in Before(now), a[i] # 0 PROVE FALSE
        OBVIOUS
      <4>2. i \in 0..MaxTime /\ i \in Int /\ now - RateWindow < i /\ a[i] > 0
        BY <3>2, <4>1, RateConstants DEF Before
      <4> QED BY <1>0, <3>1, <4>2, RateConstants
    <3>5. Tally(a, From(now)) = 0 /\ Tally(a, Before(now)) = 0
      BY <3>3, <3>4, TallyNone
    <3>6. c.rate = 0 /\ d.from = now
      BY <1>2, <2>2 DEF zero
    <3>7. \A i \in 0..MaxTime : a[i] > 0 => i <= now /\ i < now + RateWindow
      BY <1>0, <3>1, RateConstants
    <3> QED BY <3>5, <3>6, <3>7, RateConstants
  <2> QED BY <2>1, <2>2
\* The same after it.
<1>5. ASSUME NEW S \in SUBSET (0..MaxTime)
      PROVE  /\ IsFiniteSet(Units(b, S))
             /\ Tally(a, S) \in Nat
             /\ Tally(b, S) = IF now \in S THEN Tally(a, S) + 1 ELSE Tally(a, S)
  <2>1. IsFiniteSet(Units(a, S)) /\ Tally(a, S) \in Nat
    BY UnitsSubset
  <2>2. /\ a[now] \in Nat /\ b[now] = a[now] + 1
        /\ \A i \in S : i # now => b[i] = a[i]
    OBVIOUS
  <2> QED BY <2>1, <2>2, TallyIncrement
<1>6. /\ From(d.from) \in SUBSET (0..MaxTime) /\ Before(d.from) \in SUBSET (0..MaxTime)
      /\ now \in From(d.from) /\ now \notin Before(d.from)
  BY <1>0, <1>3 DEF From, Before
<1>7. /\ Tally(b, From(d.from)) = d.rate
      /\ Tally(b, Before(d.from)) <= WorkspaceRate
      /\ IsFiniteSet(Units(b, From(d.from))) /\ IsFiniteSet(Units(b, Before(d.from)))
      /\ Tally(b, From(d.from)) \in Nat /\ Tally(b, Before(d.from)) \in Nat
  BY <1>2, <1>4, <1>5, <1>6
<1>8. WindowOK(TRUE, d, b, now)
  <2>1. ASSUME NEW i \in 0..MaxTime, b[i] > 0
        PROVE  i <= d.seen /\ i < d.from + RateWindow
    <3>1. CASE i = now
      BY <1>0, <1>2, <1>3, <3>1, RateConstants
    <3>2. CASE i # now
      BY <1>2, <1>4, <2>1, <3>2
    <3> QED BY <3>1, <3>2
  <2>2. d.seen \in 0..now
    BY <1>0, <1>2
  <2> QED
    BY <1>3, <1>7, <2>1, <2>2 DEF WindowOK
<1>9. ASSUME NEW t \in 0..MaxTime
      PROVE  Tally(b, Span(t)) <= 2 * WorkspaceRate
  <2>0. Span(t) \in SUBSET (0..MaxTime) /\ t \in Int
    BY RateConstants DEF Span
  <2>1. CASE now \in Span(t)
    <3>1. Span(t) \subseteq Before(d.from) \cup From(d.from)
      <4>1. SUFFICES ASSUME NEW i \in Span(t), ~(d.from <= i)
                     PROVE  i \in Before(d.from)
        BY DEF From, Span
      <4>2. /\ i \in 0..MaxTime /\ i \in Int /\ t <= i
            /\ now < t + RateWindow
        BY <2>1, RateConstants DEF Span
      <4>3. d.from <= now
        BY <1>0, <1>3
      <4>4. PICK f \in Int : f = d.from
        BY <1>3
      <4>5. f <= now /\ ~(f <= i)
        BY <4>1, <4>3, <4>4
      <4>6. f - RateWindow < i /\ i < f
        BY <1>0, <2>0, <4>2, <4>5, RateConstants
      <4> QED
        BY <4>2, <4>4, <4>6 DEF Before
    <3>2. Tally(b, Span(t)) <= Tally(b, Before(d.from)) + Tally(b, From(d.from))
      BY <1>7, <3>1, TallyUnion
    <3>3. Tally(b, Span(t)) \in Nat
      BY <1>5, <2>0
    <3> QED
      BY <1>3, <1>7, <3>2, <3>3, RateConstants
  <2>2. CASE now \notin Span(t)
    BY <1>5, <2>0, <2>2
  <2> QED BY <2>1, <2>2
<1>10. IsFiniteSet(Units(b, 0..MaxTime))
  BY <1>5
<1> QED
  BY <1>1, <1>8, <1>9, <1>10

LEMMA InitRate == Init => RateInv
<1> SUFFICES ASSUME Init PROVE RateInv
  OBVIOUS
<1>1. admitted \in [Workspace -> [0..MaxTime -> Nat]]
  BY DEF Init
<1>2. ASSUME NEW w \in Workspace
      PROVE  /\ IsFiniteSet(Units(admitted[w], 0..MaxTime))
             /\ WindowOK(w \in DOMAIN workspaces, Get(workspaces, w), admitted[w], now)
             /\ \A t \in 0..MaxTime : Tally(admitted[w], Span(t)) <= 2 * WorkspaceRate
  <2>1. \A i \in 0..MaxTime : admitted[w][i] = 0
    BY DEF Init
  <2>2. IsFiniteSet(Units(admitted[w], 0..MaxTime))
    BY <2>1, TallyNone
  <2>3. ASSUME NEW t \in 0..MaxTime
        PROVE  Tally(admitted[w], Span(t)) <= 2 * WorkspaceRate
    <3>1. \A i \in Span(t) : admitted[w][i] = 0
      BY <2>1 DEF Span
    <3>2. Tally(admitted[w], Span(t)) = 0
      BY <3>1, TallyNone
    <3> QED BY <3>2, RateConstants
  <2>4. w \notin DOMAIN workspaces
    BY DEF Init
  <2> QED
    BY <2>1, <2>2, <2>3, <2>4 DEF WindowOK
<1> QED
  BY <1>1, <1>2 DEF RateInv

\* Each step preserves it, if an idle counter is kept for a window: refreshing
\* and counting as shown above, a release and the clock without touching the
\* windows.
LEMMA NextRate ==
  ASSUME WorkspaceStateTTL >= RateWindow
  PROVE  CapacityInv /\ RateInv /\ [Next]_vars => RateInv'
<1> SUFFICES ASSUME CapacityInv, RateInv, [Next]_vars PROVE RateInv'
  OBVIOUS
<1>0. /\ now \in 0..MaxTime /\ MaxWorkspaceStates \in Nat
      /\ MapOK(workspaces, MaxWorkspaceStates)
  BY LimitsAssumption DEF CapacityInv
<1>1. /\ admitted \in [Workspace -> [0..MaxTime -> Nat]]
      /\ \A w \in Workspace :
           /\ admitted[w] \in [0..MaxTime -> Nat]
           /\ IsFiniteSet(Units(admitted[w], 0..MaxTime))
           /\ WindowOK(w \in DOMAIN workspaces, Get(workspaces, w), admitted[w], now)
           /\ \A t \in 0..MaxTime : Tally(admitted[w], Span(t)) <= 2 * WorkspaceRate
  BY DEF RateInv
\* What has to be shown of the next state.
<1>2. ASSUME admitted' \in [Workspace -> [0..MaxTime -> Nat]],
             \A w \in Workspace :
               /\ IsFiniteSet(Units(admitted'[w], 0..MaxTime))
               /\ WindowOK(w \in DOMAIN workspaces', Get(workspaces', w),
                           admitted'[w], now')
               /\ \A t \in 0..MaxTime :
                    Tally(admitted'[w], Span(t)) <= 2 * WorkspaceRate
      PROVE  RateInv'
  BY <1>2 DEF RateInv, WindowOK, Get, Tally, Units
<1>3. ASSUME NEW r \in Request, Admitted(r) PROVE RateInv'
  <2> DEFINE fresh == Refresh(workspaces, r.ws)
  <2>1. /\ workspaces' = Put(fresh, r.ws, Count(Get(fresh, r.ws)))
        /\ admitted' = [admitted EXCEPT ![r.ws][now] = @ + 1]
        /\ now' = now
        /\ ~(Get(fresh, r.ws).rate >= WorkspaceRate)
    BY <1>3 DEF Admitted, OverBudget, Full
  <2>2. PICK ws : ws = fresh
    OBVIOUS
  <2>3. workspaces' = Put(ws, r.ws, Count(Get(ws, r.ws)))
    BY <2>1, <2>2
  <2>4. MapOK(ws, MaxWorkspaceStates)
    <3>1. now \in Int
      BY <1>0, RateConstants
    <3> QED BY <1>0, <2>2, <3>1, RefreshKeepsInFlight
  <2>5. ASSUME NEW w \in Workspace
        PROVE  /\ WindowOK(w \in DOMAIN ws, Get(ws, w), admitted[w], now)
               /\ w = r.ws /\ w \in DOMAIN ws => now - Get(ws, w).from < RateWindow
    BY <1>0, <1>1, <2>2, RefreshWindow
  <2>6. Get(ws, r.ws) \in Counter /\ Get(ws, r.ws).rate < WorkspaceRate
    <3>1. Get(ws, r.ws) \in Counter
      BY <2>4, GetsCounter
    <3>2. Get(ws, r.ws).rate \in Nat
      BY <3>1 DEF Counter
    <3> QED BY <2>1, <2>2, <3>1, <3>2, RateConstants
  <2>7. /\ DOMAIN workspaces' = DOMAIN ws \cup {r.ws}
        /\ \A w : Get(workspaces', w) =
             IF w = r.ws THEN Count(Get(ws, r.ws)) ELSE Get(ws, w)
    <3>1. PICK c : c = Count(Get(ws, r.ws))
      OBVIOUS
    <3>2. workspaces' = Put(ws, r.ws, c)
      BY <2>3, <3>1
    <3>3. DOMAIN Put(ws, r.ws, c) = DOMAIN ws \cup {r.ws}
      BY DEF Put
    <3>4. \A w : Get(Put(ws, r.ws, c), w) = IF w = r.ws THEN c ELSE Get(ws, w)
      BY PutThenGet
    <3> QED BY <3>1, <3>2, <3>3, <3>4
  <2>8. r.ws \in Workspace
    BY DEF Workspace
  <2>9. /\ admitted' \in [Workspace -> [0..MaxTime -> Nat]]
        /\ \A w \in Workspace : w # r.ws => admitted'[w] = admitted[w]
        /\ admitted'[r.ws][now] = admitted[r.ws][now] + 1
        /\ \A i \in 0..MaxTime : i # now => admitted'[r.ws][i] = admitted[r.ws][i]
    <3>1. PICK a \in [0..MaxTime -> Nat] : a = admitted[r.ws]
      BY <1>1, <2>8
    <3>2. PICK b : b = [a EXCEPT ![now] = @ + 1]
      OBVIOUS
    <3>3. a[now] \in Nat /\ a[now] + 1 \in Nat
      <4>1. now \in 0..MaxTime
        BY <1>0
      <4>2. a[now] \in Nat
        BY <4>1, Zenon
      <4> QED BY <4>2
    <3>4. /\ b \in [0..MaxTime -> Nat] /\ b[now] = a[now] + 1
          /\ \A i \in 0..MaxTime : i # now => b[i] = a[i]
      BY <1>0, <3>1, <3>2, <3>3
    <3>5. admitted' = [admitted EXCEPT ![r.ws] = b]
      BY <2>1, <3>1, <3>2
    <3>6. admitted'[r.ws] = b
      BY <1>1, <2>8, <3>5
    <3>7. /\ admitted' \in [Workspace -> [0..MaxTime -> Nat]]
          /\ \A w \in Workspace : w # r.ws => admitted'[w] = admitted[w]
      BY <1>1, <2>8, <3>4, <3>5
    <3> QED BY <3>1, <3>4, <3>6, <3>7
  <2>10. ASSUME NEW w \in Workspace
         PROVE  /\ IsFiniteSet(Units(admitted'[w], 0..MaxTime))
                /\ WindowOK(w \in DOMAIN workspaces', Get(workspaces', w),
                            admitted'[w], now')
                /\ \A t \in 0..MaxTime :
                     Tally(admitted'[w], Span(t)) <= 2 * WorkspaceRate
    <3>1. CASE w = r.ws
      <4>1. w \notin DOMAIN ws => Get(ws, w) = zero
        BY DEF Get
      <4>2. (w \in DOMAIN ws) \in BOOLEAN
        OBVIOUS
      <4>3. PICK a \in [0..MaxTime -> Nat] : a = admitted[w]
        BY <1>1
      <4>4. PICK b : b = admitted'[w]
        OBVIOUS
      <4>5. PICK c \in Counter : c = Get(ws, w)
        BY <2>6, <3>1
      <4>6. /\ IsFiniteSet(Units(a, 0..MaxTime))
            /\ WindowOK(w \in DOMAIN ws, c, a, now)
            /\ w \in DOMAIN ws => now - c.from < RateWindow
            /\ \A t \in 0..MaxTime : Tally(a, Span(t)) <= 2 * WorkspaceRate
        BY <1>1, <2>5, <3>1, <4>3, <4>5
      <4>7. /\ b[now] = a[now] + 1
            /\ \A i \in 0..MaxTime : i # now => b[i] = a[i]
        BY <2>9, <3>1, <4>3, <4>4
      <4>8. c.rate < WorkspaceRate /\ (w \notin DOMAIN ws => c = zero)
        BY <2>6, <3>1, <4>1, <4>5
      <4>9. /\ IsFiniteSet(Units(b, 0..MaxTime))
            /\ WindowOK(TRUE, Count(c), b, now)
            /\ \A t \in 0..MaxTime : Tally(b, Span(t)) <= 2 * WorkspaceRate
        BY <1>0, <4>2, <4>6, <4>7, <4>8, CountWindow
      <4>10. /\ (w \in DOMAIN workspaces') = TRUE
             /\ Get(workspaces', w) = Count(c)
        BY <2>7, <3>1, <4>5
      <4> QED
        BY <2>1, <4>4, <4>9, <4>10
    <3>2. CASE w # r.ws
      <4>1. /\ (w \in DOMAIN workspaces') = (w \in DOMAIN ws)
            /\ Get(workspaces', w) = Get(ws, w)
            /\ admitted'[w] = admitted[w]
        BY <2>7, <2>9, <3>2
      <4> QED
        BY <1>1, <2>1, <2>5, <4>1
    <3> QED BY <3>1, <3>2
  <2> QED
    BY <1>2, <2>9, <2>10
<1>4. ASSUME NEW r \in Request, Rejected(r) PROVE RateInv'
  <2>1. workspaces' = Refresh(workspaces, r.ws) /\ admitted' = admitted /\ now' = now
    BY <1>4 DEF Rejected
  <2>2. ASSUME NEW w \in Workspace
        PROVE  WindowOK(w \in DOMAIN workspaces', Get(workspaces', w), admitted[w], now)
    BY <1>0, <1>1, <2>1, RefreshWindow
  <2> QED
    BY <1>1, <1>2, <2>1, <2>2
<1>5. ASSUME NEW r \in Request, Release(r) PROVE RateInv'
  <2>1. workspaces' = decrement(workspaces, r.ws) /\ admitted' = admitted /\ now' = now
    BY <1>5 DEF Release
  <2>2. Get(workspaces, r.ws).inFlight > 0
    <3>1. Get(workspaces, r.ws).inFlight = Tally(held, OfWorkspace(r.ws))
      BY AccountedBySets DEF CapacityInv, Workspace
    <3>2. OfWorkspace(r.ws) \in SUBSET Request /\ r \in OfWorkspace(r.ws)
      BY DEF OfWorkspace
    <3>3. IsFiniteSet(Units(held, OfWorkspace(r.ws)))
      BY <3>2, HeldIsNumber DEF CapacityInv
    <3>4. /\ held'[r] \in Nat /\ held[r] = held'[r] + 1
          /\ \A y \in OfWorkspace(r.ws) : y # r => held[y] = held'[y]
      BY <1>5, <3>2 DEF Release, CapacityInv
    <3> QED BY <3>1, <3>2, <3>3, <3>4, TallyDecrement
  <2>3. /\ DOMAIN workspaces' = DOMAIN workspaces
        /\ \A k : /\ Get(workspaces', k).rate = Get(workspaces, k).rate
                  /\ Get(workspaces', k).from = Get(workspaces, k).from
                  /\ Get(workspaces', k).seen = Get(workspaces, k).seen
    BY <1>0, <2>1, <2>2, ReleaseCounts
  <2>4. ASSUME NEW w \in Workspace
        PROVE  WindowOK(w \in DOMAIN workspaces', Get(workspaces', w), admitted[w], now)
    BY <1>1, <2>3 DEF WindowOK
  <2> QED
    BY <1>1, <1>2, <2>1, <2>4
<1>6. CASE Tick
  <2>1. now' = now + 1 /\ workspaces' = workspaces /\ admitted' = admitted
    BY <1>6 DEF Tick
  <2>2. ASSUME NEW w \in Workspace
        PROVE  WindowOK(w \in DOMAIN workspaces, Get(workspaces, w), admitted[w], now + 1)
    BY <1>0, <1>1, RateConstants DEF WindowOK
  <2> QED
    BY <1>1, <1>2, <2>1, <2>2
<1>7. CASE UNCHANGED vars
  BY <1>1, <1>2, <1>7 DEF vars
<1> QED
  BY <1>3, <1>4, <1>5, <1>6, <1>7 DEF Next

\* The maps stay within their bounds and a workspace is admitted at most twice
\* its rate in any window's length, through evictions and new windows
\* (controller.go:155-160, 176-181, 211-222).  It needs the state of an idle workspace to
\* be kept for a window, which normalizeLimits does not ensure.
THEOREM WorkspaceRateIsHeld ==
  ASSUME WorkspaceStateTTL >= RateWindow
  PROVE  Spec => []WorkspaceRateHolds
<1>1. Init => CapacityInv /\ RateInv
  BY InitCapacity, InitRate
<1>2. CapacityInv /\ RateInv /\ [Next]_vars => (CapacityInv /\ RateInv)'
  BY NextCapacity, NextRate
<1>3. CapacityInv /\ RateInv => WorkspaceRateHolds
  BY DEF CapacityInv, RateInv, MapOK, WorkspaceRateHolds, Span
<1> QED
  BY <1>1, <1>2, <1>3, PTL DEF Spec
-----------------------------------------------------------------------------
(* The rate limiter: windows in a length of time.                          *)

\* Windows that begin in a time of length x.
Windows(x) == IF x <= 0 THEN 0 ELSE (x + Window - 1) \div Window

\* The constants are numbers.
LEMMA LimiterConstants ==
  /\ Window \in Nat \ {0} /\ Limit \in Nat \ {0}
  /\ Capacity \in Nat \ {0} /\ IdleTTL \in Nat \ {0}
  /\ MaxStale \in Nat /\ LastTime \in Nat
  BY LimiterAssumption

\* Division by a window.
LEMMA DivisionBounds ==
  ASSUME NEW x \in Int
  PROVE  /\ x \div Window \in Int
         /\ (x \div Window) * Window <= x
         /\ x < (x \div Window) * Window + Window
  BY LimiterConstants

LEMMA DivisionUnique ==
  ASSUME NEW x \in Int, NEW q \in Int, q * Window <= x, x < q * Window + Window
  PROVE  x \div Window = q
  BY LimiterConstants, DivisionBounds

\* One window longer is one window more.
LEMMA DivisionStep ==
  ASSUME NEW x \in Int
  PROVE  (x + Window) \div Window = x \div Window + 1
<1>1. PICK q \in Int : q = x \div Window
  BY DivisionBounds
<1>2. q * Window <= x /\ x < q * Window + Window
  BY <1>1, DivisionBounds
<1>3. (q + 1) * Window = q * Window + Window
  BY LimiterConstants
<1>4. q * Window \in Int /\ Window \in Int
  BY LimiterConstants
<1>5. (q + 1) * Window <= x + Window /\ x + Window < (q + 1) * Window + Window
  BY <1>2, <1>3, <1>4
<1> QED
  BY <1>1, <1>4, <1>5, DivisionUnique

LEMMA DivisionMonotone ==
  ASSUME NEW x \in Int, NEW y \in Int, x <= y
  PROVE  x \div Window <= y \div Window
<1>1. PICK p \in Int : p = x \div Window
  BY DivisionBounds
<1>2. PICK q \in Int : q = y \div Window
  BY DivisionBounds
<1>3. p * Window <= x /\ y < q * Window + Window
  BY <1>1, <1>2, DivisionBounds
<1>4. p * Window < (q + 1) * Window
  BY <1>3, LimiterConstants
<1>5. p < q + 1
  BY <1>4, LimiterConstants
<1> QED
  BY <1>1, <1>2, <1>5

\* Windows is a number that grows with the length.
LEMMA WindowsNumber ==
  ASSUME NEW x \in Int
  PROVE  /\ Windows(x) \in Nat
         /\ x > 0 => Windows(x) >= 1
<1>1. CASE x <= 0
  BY <1>1 DEF Windows
<1>2. CASE x > 0
  <2>1. Window \div Window = 1
    BY LimiterConstants, DivisionUnique
  <2>2. Window <= x + Window - 1 /\ x + Window - 1 \in Int /\ Window \in Int
    BY <1>2, LimiterConstants
  <2>3. 1 <= (x + Window - 1) \div Window /\ (x + Window - 1) \div Window \in Int
    BY <2>1, <2>2, DivisionMonotone, DivisionBounds
  <2> QED
    BY <1>2, <2>3 DEF Windows
<1> QED
  BY <1>1, <1>2

LEMMA WindowsMonotone ==
  ASSUME NEW x \in Int, NEW y \in Int, x <= y
  PROVE  Windows(x) <= Windows(y)
<1>1. CASE x <= 0
  BY <1>1, WindowsNumber DEF Windows
<1>2. CASE x > 0
  <2>1. /\ x + Window - 1 \in Int /\ y + Window - 1 \in Int
        /\ x + Window - 1 <= y + Window - 1 /\ y > 0
    BY <1>2, LimiterConstants
  <2>2. (x + Window - 1) \div Window <= (y + Window - 1) \div Window
    BY <2>1, DivisionMonotone
  <2> QED
    BY <1>2, <2>1, <2>2 DEF Windows
<1> QED
  BY <1>1, <1>2

\* One window before a time that is left, there is one window more.
LEMMA WindowsStep ==
  ASSUME NEW x \in Int, x + Window > 0
  PROVE  Windows(x) + 1 <= Windows(x + Window)
<1>0. x + Window \in Int
  BY LimiterConstants
<1>1. CASE x <= 0
  BY <1>0, <1>1, WindowsNumber DEF Windows
<1>2. CASE x > 0
  <2>1. x + Window - 1 \in Int /\ (x + Window) + Window - 1 = (x + Window - 1) + Window
    BY LimiterConstants
  <2>2. ((x + Window) + Window - 1) \div Window = (x + Window - 1) \div Window + 1
    BY <2>1, DivisionStep
  <2>3. (x + Window - 1) \div Window \in Int
    BY <2>1, DivisionBounds
  <2>4. ~(x <= 0) /\ ~(x + Window <= 0)
    BY <1>2, LimiterConstants
  <2> QED
    BY <2>2, <2>3, <2>4 DEF Windows
<1> QED
  BY <1>1, <1>2

\* The windows that meet a span, the current one among them.
LEMMA WindowsOfSpan ==
  ASSUME NEW x \in Int, x <= MaxStale + Window - 1
  PROVE  Windows(x) + 1 <= WindowsInSpan /\ WindowsInSpan \in Nat
<1> DEFINE y == MaxStale + Window - 1
<1>1. y \in Int /\ y >= 0
  BY LimiterConstants
<1>2. Windows(x) <= Windows(y) /\ Windows(x) \in Nat /\ Windows(y) \in Nat
  BY <1>1, WindowsMonotone, WindowsNumber
<1>3. PICK q \in Int : q = (MaxStale + Window - 2) \div Window
  BY DivisionBounds, LimiterConstants
<1>4. WindowsInSpan = 2 + q
  BY <1>3 DEF WindowsInSpan
<1>5. (y + Window - 1) \div Window = q + 1
  <2>1. /\ MaxStale + Window - 2 \in Int
        /\ y + Window - 1 = (MaxStale + Window - 2) + Window
    BY LimiterConstants
  <2> QED BY <1>3, <2>1, DivisionStep
<1>6. Windows(y) <= q + 1
  <2>1. CASE y > 0
    BY <1>1, <1>5, <2>1 DEF Windows
  <2>2. CASE y <= 0
    <3>1. MaxStale = 0 /\ Window = 1
      BY <2>2, LimiterConstants
    <3>2. q = -1
      <4>1. MaxStale + Window - 2 = -1 /\ (-1) * Window = -1 /\ -1 \in Int
        BY <3>1
      <4> QED BY <1>3, <3>1, <4>1, DivisionUnique
    <3> QED BY <2>2, <3>2 DEF Windows
  <2> QED BY <1>1, <2>1, <2>2
<1> HIDE DEF y
<1> QED
  BY <1>2, <1>4, <1>6

\* Multiples of the limit.
LEMMA LimitTimes ==
  ASSUME NEW m \in Nat, NEW n \in Nat
  PROVE  /\ Limit * m \in Nat
         /\ m <= n => Limit * m <= Limit * n
         /\ m + 1 <= n => Limit + Limit * m <= Limit * n
<1>1. Limit * m \in Nat /\ Limit * n \in Nat /\ Limit \in Nat
  BY LimiterConstants
<1>2. m <= n => Limit * m <= Limit * n
  BY LimiterConstants
<1>3. Limit * (m + 1) = Limit + Limit * m
  BY LimiterConstants
<1>4. m + 1 <= n => Limit * (m + 1) <= Limit * n
  BY LimiterConstants
<1> QED
  BY <1>1, <1>2, <1>3, <1>4
-----------------------------------------------------------------------------
(* The rate limiter: what a bucket knows.                                  *)

\* Times from t on, and in a window from t on.
Since(t) == {i \in Time : t <= i}
WindowFrom(t) == {i \in Time : t <= i /\ i < t + Window}

\* The calls a bucket allowed.
Counted(b) == IF b.count <= Limit THEN b.count ELSE Limit

\* What a bucket b, present in the map or not, says at a time about the calls
\* a of its key.  The calls of the windows before it were decided before
\* b.start + MaxStale, at most the limit for each window's length before
\* that; of a key without a bucket all calls were decided before the present.
BucketOK(present, b, a, at) ==
  /\ \A i \in Time : a[i] > 0 =>
       i <= at /\ (present => i < b.start + Window + MaxStale)
  /\ present => b.start <= at /\ b.start - MaxStale <= b.seen
  /\ \A t \in Time :
       Tally(a, Since(t)) <=
         IF present THEN Counted(b) + Limit * Windows(b.start + MaxStale - t)
         ELSE Limit * Windows(at - t)

\* Sums of calls are numbers.
LEMMA CallsAreNumbers ==
  ASSUME NEW a, IsFiniteSet(Units(a, Time)), NEW t
  PROVE  /\ Since(t) \in SUBSET Time /\ WindowFrom(t) \in SUBSET Since(t)
         /\ IsFiniteSet(Units(a, Since(t))) /\ Tally(a, Since(t)) \in Nat
         /\ Tally(a, WindowFrom(t)) \in Nat
         /\ Tally(a, WindowFrom(t)) <= Tally(a, Since(t))
<1>1. Since(t) \in SUBSET Time /\ WindowFrom(t) \in SUBSET Since(t)
  BY DEF Since, WindowFrom
<1>2. IsFiniteSet(Units(a, Since(t))) /\ Tally(a, Since(t)) \in Nat
  BY <1>1, UnitsSubset
<1>3. Tally(a, WindowFrom(t)) \in Nat /\ Tally(a, WindowFrom(t)) <= Tally(a, Since(t))
  BY <1>1, <1>2, UnitsSubset
<1> QED
  BY <1>1, <1>2, <1>3

\* Times and buckets are numbers.
LEMMA TimesAreNumbers ==
  /\ \A t \in Time : t \in Int /\ t >= 0
  /\ \A b \in Bucket : /\ b.start \in Int /\ b.seen \in Int /\ b.count \in Nat
                       /\ Counted(b) \in Nat /\ Counted(b) <= Limit
<1>1. \A t \in Time : t \in Int /\ t >= 0
  BY LimiterConstants DEF Time
<1>2. \A b \in Bucket : b.start \in Time /\ b.seen \in Time /\ b.count \in Nat
  BY DEF Bucket
<1>3. \A b : b.count \in Nat => Counted(b) \in Nat /\ Counted(b) <= Limit
  BY LimiterConstants DEF Counted
<1> QED
  BY <1>1, <1>2, <1>3

\* A bucket whose windows are over, opened anew or forgotten: e is the time up
\* to which calls of its windows can be decided.
LEMMA WindowIsOver ==
  ASSUME NEW a, IsFiniteSet(Units(a, Time)), \A i \in Time : a[i] \in Nat,
         NEW b \in Bucket, NEW at \in Int, BucketOK(TRUE, b, a, at),
         NEW e \in Int, b.start + Window + MaxStale <= e, NEW t \in Time
  PROVE  Tally(a, Since(t)) <= Limit * Windows(e - t)
<1> DEFINE x == b.start + MaxStale - t
<1>1. /\ x \in Int /\ x + Window \in Int /\ e - t \in Int /\ x + Window <= e - t
      /\ t \in Int /\ b.start \in Int
  BY TimesAreNumbers, LimiterConstants
<1>2. /\ Windows(x) \in Nat /\ Windows(x + Window) \in Nat /\ Windows(e - t) \in Nat
      /\ Windows(x + Window) <= Windows(e - t)
  BY <1>1, WindowsNumber, WindowsMonotone
<1>3. CASE x + Window > 0
  <2>1. Windows(x) + 1 <= Windows(e - t)
    <3>1. Windows(x) + 1 <= Windows(x + Window)
      BY <1>1, <1>3, WindowsStep
    <3> QED BY <1>2, <3>1
  <2>2. Limit + Limit * Windows(x) <= Limit * Windows(e - t)
    BY <1>2, <2>1, LimitTimes
  <2>3. Tally(a, Since(t)) <= Counted(b) + Limit * Windows(x)
    BY DEF BucketOK
  <2>4. /\ Counted(b) \in Nat /\ Counted(b) <= Limit /\ Limit \in Nat
        /\ Limit * Windows(x) \in Nat /\ Limit * Windows(e - t) \in Nat
    BY <1>2, LimitTimes, TimesAreNumbers, LimiterConstants
  <2>5. Tally(a, Since(t)) \in Nat
    BY CallsAreNumbers
  <2> HIDE DEF x
  <2> QED
    BY <2>2, <2>3, <2>4, <2>5
<1>4. CASE x + Window <= 0
  <2>1. \A i \in Since(t) : a[i] = 0
    <3>1. SUFFICES ASSUME NEW i \in Since(t), a[i] # 0 PROVE FALSE
      OBVIOUS
    <3>2. i \in Time /\ t <= i /\ a[i] > 0 /\ i \in Int
      BY <3>1, TimesAreNumbers DEF Since
    <3>3. i < b.start + Window + MaxStale
      BY <3>2 DEF BucketOK
    <3> QED
      BY <1>1, <1>4, <3>2, <3>3, LimiterConstants
  <2>2. Tally(a, Since(t)) = 0
    BY <2>1, TallyNone
  <2>3. Limit * Windows(e - t) \in Nat
    BY <1>2, LimitTimes
  <2> QED
    BY <2>2, <2>3
<1> QED
  BY <1>1, <1>3, <1>4

\* An expired bucket may be forgotten.
LEMMA ExpireBucket ==
  ASSUME NEW a, IsFiniteSet(Units(a, Time)), \A i \in Time : a[i] \in Nat,
         NEW b \in Bucket, clock \in Time, BucketOK(TRUE, b, a, clock),
         IdleTTL >= Window + 2 * MaxStale,
         NEW at \in Int, at <= clock, at - b.seen >= IdleTTL, NEW c
  PROVE  BucketOK(FALSE, c, a, clock)
<1>1. clock \in Int /\ b.start \in Int /\ b.seen \in Int
  BY TimesAreNumbers
<1>2. b.start - MaxStale <= b.seen
  BY DEF BucketOK
<1>3. b.start + Window + MaxStale <= clock
  BY <1>1, <1>2, LimiterConstants
<1>4. \A t \in Time : Tally(a, Since(t)) <= Limit * Windows(clock - t)
  BY <1>1, <1>3, WindowIsOver
<1>5. \A i \in Time : a[i] > 0 => i <= clock
  BY DEF BucketOK
<1> QED
  BY <1>4, <1>5 DEF BucketOK

\* A new bucket may begin where there is none or the window is over.
LEMMA OpenBucket ==
  ASSUME NEW a, IsFiniteSet(Units(a, Time)), \A i \in Time : a[i] \in Nat,
         NEW present \in BOOLEAN, NEW b, present => b \in Bucket,
         clock \in Time, BucketOK(present, b, a, clock),
         NEW at \in Time, at <= clock, clock - at <= MaxStale,
         present => at - b.start >= Window,
         NEW c, c = [start |-> at, seen |-> at, count |-> 0]
  PROVE  BucketOK(TRUE, c, a, clock)
<1>1. clock \in Int /\ at \in Int
  BY TimesAreNumbers
<1>2. c.start = at /\ c.seen = at /\ Counted(c) = 0
  BY LimiterConstants DEF Counted
<1>3. ASSUME NEW t \in Time
      PROVE  Tally(a, Since(t)) <= Limit * Windows(at + MaxStale - t)
  <2>1. CASE present
    <3>1. b.start \in Int /\ at + MaxStale \in Int
      BY <1>1, <2>1, TimesAreNumbers, LimiterConstants
    <3>2. b.start + Window + MaxStale <= at + MaxStale
      BY <1>1, <2>1, <3>1, LimiterConstants
    <3>3. present = TRUE
      BY <2>1
    <3>4. BucketOK(TRUE, b, a, clock) /\ b \in Bucket
      BY <3>3
    <3>5. PICK e \in Int : e = at + MaxStale
      BY <3>1
    <3>6. Tally(a, Since(t)) <= Limit * Windows(e - t)
      BY <1>1, <3>2, <3>4, <3>5, WindowIsOver
    <3>7. e - t = at + MaxStale - t
      BY <1>1, <3>5, TimesAreNumbers, LimiterConstants
    <3> QED
      BY <3>6, <3>7, Zenon
  <2>2. CASE ~present
    <3>1. /\ clock - t \in Int /\ at + MaxStale - t \in Int
          /\ clock - t <= at + MaxStale - t
      BY <1>1, TimesAreNumbers, LimiterConstants
    <3>2. /\ Windows(clock - t) \in Nat /\ Windows(at + MaxStale - t) \in Nat
          /\ Windows(clock - t) <= Windows(at + MaxStale - t)
      BY <3>1, WindowsNumber, WindowsMonotone
    <3>3. /\ Limit * Windows(clock - t) <= Limit * Windows(at + MaxStale - t)
          /\ Limit * Windows(clock - t) \in Nat
          /\ Limit * Windows(at + MaxStale - t) \in Nat
      BY <3>2, LimitTimes
    <3>4. Tally(a, Since(t)) <= Limit * Windows(clock - t)
      BY <2>2 DEF BucketOK
    <3>5. Tally(a, Since(t)) \in Nat
      BY CallsAreNumbers
    <3> QED BY <3>3, <3>4, <3>5
  <2> QED BY <2>1, <2>2
<1>4. ASSUME NEW i \in Time, a[i] > 0
      PROVE  i <= clock /\ i < at + Window + MaxStale
  <2>1. i <= clock /\ i \in Int
    BY <1>4, TimesAreNumbers DEF BucketOK
  <2> QED BY <1>1, <2>1, LimiterConstants
<1>5. at <= clock /\ at - MaxStale <= at
  BY <1>1, LimiterConstants
<1>6. ASSUME NEW t \in Time
      PROVE  Tally(a, Since(t)) <= 0 + Limit * Windows(at + MaxStale - t)
  <2>1. at + MaxStale - t \in Int
    BY <1>1, TimesAreNumbers, LimiterConstants
  <2>2. Limit * Windows(at + MaxStale - t) \in Nat
    BY <2>1, WindowsNumber, LimitTimes
  <2> QED BY <1>3, <2>2
<1> QED
  BY <1>2, <1>4, <1>5, <1>6 DEF BucketOK

\* A call that the bucket's window is not over for is counted, and if it is
\* allowed no span has more calls than the windows that meet it allow.
LEMMA CountCall ==
  ASSUME NEW a, IsFiniteSet(Units(a, Time)), \A i \in Time : a[i] \in Nat,
         NEW b \in Bucket, clock \in Time, BucketOK(TRUE, b, a, clock),
         NEW at \in Time, at <= clock, clock - at <= MaxStale,
         at - b.start < Window,
         \A t \in Time : Tally(a, WindowFrom(t)) <= WindowsInSpan * Limit,
         NEW c \in Bucket, c.start = b.start, c.seen = at,
         c.count = IF b.count <= Limit THEN b.count + 1 ELSE b.count,
         NEW d, \A i \in Time : i # clock => d[i] = a[i],
         d[clock] = IF c.count <= Limit THEN a[clock] + 1 ELSE a[clock]
  PROVE  /\ IsFiniteSet(Units(d, Time))
         /\ BucketOK(TRUE, c, d, clock)
         /\ \A t \in Time : Tally(d, WindowFrom(t)) <= WindowsInSpan * Limit
<1>0. /\ clock \in Int /\ at \in Int /\ b.start \in Int /\ b.count \in Nat
      /\ b.start <= clock
      /\ Counted(b) \in Nat /\ Counted(c) \in Nat /\ Counted(c) <= Limit
  BY TimesAreNumbers DEF BucketOK
<1>1. Counted(c) = IF c.count <= Limit THEN Counted(b) + 1 ELSE Counted(b)
  BY <1>0, LimiterConstants DEF Counted
<1>2. ASSUME NEW S \in SUBSET Time
      PROVE  /\ IsFiniteSet(Units(d, S)) /\ Tally(a, S) \in Nat
             /\ Tally(d, S) = IF clock \in S /\ c.count <= Limit THEN Tally(a, S) + 1
                              ELSE Tally(a, S)
  <2>1. IsFiniteSet(Units(a, S)) /\ Tally(a, S) \in Nat
    BY UnitsSubset
  <2>2. CASE c.count <= Limit
    <3>1. a[clock] \in Nat /\ d[clock] = a[clock] + 1
      BY <2>2
    <3>2. \A i \in S : i # clock => d[i] = a[i]
      OBVIOUS
    <3>3. /\ IsFiniteSet(Units(d, S))
          /\ Tally(d, S) = IF clock \in S THEN Tally(a, S) + 1 ELSE Tally(a, S)
      BY <2>1, <3>1, <3>2, TallyIncrement
    <3> QED BY <2>1, <2>2, <3>3
  <2>3. CASE ~(c.count <= Limit)
    <3>1. \A i \in S : d[i] = a[i]
      BY <2>3
    <3>2. Units(d, S) = Units(a, S) /\ Tally(d, S) = Tally(a, S)
      BY <3>1, UnitsAgree
    <3> QED BY <2>1, <2>3, <3>2
  <2> QED BY <2>2, <2>3
<1>3. ASSUME NEW i \in Time, d[i] > 0
      PROVE  i <= clock /\ i < b.start + Window + MaxStale
  <2>1. CASE i = clock
    BY <1>0, <2>1, LimiterConstants
  <2>2. CASE i # clock
    BY <1>3, <2>2 DEF BucketOK
  <2> QED BY <2>1, <2>2
<1>4. ASSUME NEW t \in Time
      PROVE  /\ Tally(d, Since(t)) <= Counted(c) + Limit * Windows(b.start + MaxStale - t)
             /\ Limit * Windows(b.start + MaxStale - t) \in Nat
             /\ Tally(d, Since(t)) \in Nat
  <2>1. Since(t) \in SUBSET Time
    BY DEF Since
  <2>2. Tally(a, Since(t)) <= Counted(b) + Limit * Windows(b.start + MaxStale - t)
    BY DEF BucketOK
  <2>3. b.start + MaxStale - t \in Int
    BY <1>0, TimesAreNumbers, LimiterConstants
  <2>4. Limit * Windows(b.start + MaxStale - t) \in Nat
    BY <2>3, WindowsNumber, LimitTimes
  <2>5. /\ Tally(a, Since(t)) \in Nat
        /\ \/ Tally(d, Since(t)) = Tally(a, Since(t))
           \/ c.count <= Limit /\ Tally(d, Since(t)) = Tally(a, Since(t)) + 1
    BY <1>2, <2>1
  <2> QED
    BY <1>0, <1>1, <2>2, <2>4, <2>5
<1>5. b.start - MaxStale <= at
  BY <1>0, LimiterConstants
<1>6. BucketOK(TRUE, c, d, clock)
  BY <1>0, <1>3, <1>4, <1>5 DEF BucketOK
<1>7. ASSUME NEW t \in Time
      PROVE  Tally(d, WindowFrom(t)) <= WindowsInSpan * Limit
  <2>0. t \in Int /\ WindowFrom(t) \in SUBSET Time /\ IsFiniteSet(Units(d, Time))
    BY <1>2, TimesAreNumbers DEF WindowFrom
  <2>1. CASE clock \in WindowFrom(t)
    <3>1. PICK x \in Int : x = b.start + MaxStale - t
      BY <1>0, <2>0, LimiterConstants
    <3>2. x <= MaxStale + Window - 1
      <4>1. clock < t + Window
        BY <2>1 DEF WindowFrom
      <4> QED BY <1>0, <2>0, <3>1, <4>1, LimiterConstants
    <3>3. Windows(x) + 1 <= WindowsInSpan /\ WindowsInSpan \in Nat /\ Windows(x) \in Nat
      BY <3>2, WindowsOfSpan, WindowsNumber
    <3>4. Limit + Limit * Windows(x) <= Limit * WindowsInSpan
      BY <3>3, LimitTimes
    <3>5. Limit * WindowsInSpan = WindowsInSpan * Limit /\ Limit * WindowsInSpan \in Nat
      BY <3>3, LimiterConstants
    <3>6. /\ Tally(d, WindowFrom(t)) \in Nat
          /\ Tally(d, WindowFrom(t)) <= Tally(d, Since(t))
      BY <2>0, CallsAreNumbers
    <3>7. /\ Tally(d, Since(t)) <= Counted(c) + Limit * Windows(x)
          /\ Limit * Windows(x) \in Nat /\ Tally(d, Since(t)) \in Nat
      BY <1>4, <3>1
    <3> QED
      BY <1>0, <3>4, <3>5, <3>6, <3>7, LimiterConstants
  <2>2. CASE clock \notin WindowFrom(t)
    BY <1>2, <2>0, <2>2
  <2> QED BY <2>1, <2>2
<1>8. IsFiniteSet(Units(d, Time))
  BY <1>2
<1> QED
  BY <1>6, <1>7, <1>8

\* The clock moves away from the calls.
LEMMA ClockMoves ==
  ASSUME NEW a, IsFiniteSet(Units(a, Time)), \A i \in Time : a[i] \in Nat,
         NEW present \in BOOLEAN, NEW b, present => b \in Bucket,
         clock \in Time, BucketOK(present, b, a, clock)
  PROVE  BucketOK(present, b, a, clock + 1)
<1>0. clock \in Int
  BY TimesAreNumbers
<1>1. \A i \in Time : i <= clock => i <= clock + 1
  BY <1>0, TimesAreNumbers
<1>2. present => (b.start <= clock => b.start <= clock + 1)
  BY <1>0, TimesAreNumbers
<1>3. ASSUME NEW t \in Time, ~present
      PROVE  Tally(a, Since(t)) <= Limit * Windows((clock + 1) - t)
  <2>1. clock - t \in Int /\ (clock + 1) - t \in Int /\ clock - t <= (clock + 1) - t
    BY <1>0, TimesAreNumbers
  <2>2. /\ Windows(clock - t) \in Nat /\ Windows((clock + 1) - t) \in Nat
        /\ Windows(clock - t) <= Windows((clock + 1) - t)
    BY <2>1, WindowsNumber, WindowsMonotone
  <2>3. /\ Limit * Windows(clock - t) <= Limit * Windows((clock + 1) - t)
        /\ Limit * Windows(clock - t) \in Nat
        /\ Limit * Windows((clock + 1) - t) \in Nat
    BY <2>2, LimitTimes
  <2>4. Tally(a, Since(t)) <= Limit * Windows(clock - t)
    BY <1>3 DEF BucketOK
  <2>5. Tally(a, Since(t)) \in Nat
    BY CallsAreNumbers
  <2> QED BY <2>3, <2>4, <2>5
<1> QED
  BY <1>1, <1>2, <1>3 DEF BucketOK
-----------------------------------------------------------------------------
(* The rate limiter: the invariant.                                        *)

\* The map of buckets and the calls that wait.  Only without the empty key does
\* the map keep its bound.
MapInv ==
  /\ clock \in Time
  /\ buckets = [k \in DOMAIN buckets |-> buckets[k]]
  /\ DOMAIN buckets \subseteq Key
  /\ \A k \in DOMAIN buckets : buckets[k] \in Bucket
  /\ IsFiniteSet(DOMAIN buckets)
  /\ EmptyKey \notin Key => MapIsBounded
  /\ pending \in [Caller -> Call \cup {NoCall}]
  /\ \A c \in Caller : pending[c] # NoCall =>
       pending[c].at <= clock /\ clock - pending[c].at <= MaxStale

\* What is kept of a key with the map m, the calls a and the time at.
KeyOK(m, k, a, at) ==
  /\ IsFiniteSet(Units(a, Time))
  /\ BucketOK(k \in DOMAIN m, m[k], a, at)
  /\ \A t \in Time : Tally(a, WindowFrom(t)) <= WindowsInSpan * Limit

LimiterInv ==
  /\ MapInv
  /\ allowed \in [Key -> [Time -> Nat]]
  /\ \A k \in Key \ evicted : KeyOK(buckets, k, allowed[k], clock)

\* The parts of a pending call.
LEMMA CallParts ==
  ASSUME MapInv, NEW c \in Caller, pending[c] # NoCall
  PROVE  /\ pending[c].key \in Key /\ pending[c].at \in Time
         /\ pending[c].at <= clock /\ clock - pending[c].at <= MaxStale
<1>1. pending[c] \in Call
  BY DEF MapInv
<1> QED
  BY <1>1 DEF MapInv, Call

\* Expiry keeps the map, and loses only expired buckets.
LEMMA ExpiryKeepsMap ==
  ASSUME MapInv, NEW at \in Int, NEW kept, kept = evictExpired(buckets, at)
  PROVE  /\ kept = [k \in DOMAIN kept |-> kept[k]]
         /\ DOMAIN kept \subseteq DOMAIN buckets
         /\ \A k \in DOMAIN kept : kept[k] = buckets[k]
         /\ \A k \in DOMAIN buckets : k \notin DOMAIN kept =>
              at - buckets[k].seen >= IdleTTL
         /\ IsFiniteSet(DOMAIN kept) /\ Cardinality(DOMAIN kept) \in Nat
         /\ EmptyKey \notin Key => Cardinality(DOMAIN kept) <= Capacity
<1> DEFINE S == {k \in DOMAIN buckets : at - buckets[k].seen < IdleTTL}
<1>1. kept = [k \in S |-> buckets[k]]
  BY DEF evictExpired, Restrict
<1>2. IsFiniteSet(S) /\ Cardinality(S) <= Cardinality(DOMAIN buckets)
  BY FS_Subset DEF MapInv
<1>3. Cardinality(S) \in Nat /\ Cardinality(DOMAIN buckets) \in Nat
  BY <1>2, FS_CardinalityType DEF MapInv
<1>4. EmptyKey \notin Key => Cardinality(S) <= Capacity
  BY <1>2, <1>3, LimiterConstants DEF MapInv, MapIsBounded
<1>5. ASSUME NEW k \in DOMAIN buckets, k \notin S
      PROVE  at - buckets[k].seen >= IdleTTL
  <2>1. buckets[k].seen \in Int
    BY TimesAreNumbers DEF MapInv
  <2> QED BY <1>5, <2>1, LimiterConstants
<1>6. S \subseteq DOMAIN buckets
  OBVIOUS
<1> HIDE DEF S
<1>7. DOMAIN kept = S
  BY <1>1
<1> QED
  BY <1>1, <1>2, <1>3, <1>4, <1>5, <1>6, <1>7

\* Making room keeps the bound when a victim is always found and deleted.
LEMMA RoomIsMade ==
  ASSUME NEW D, D \subseteq Key, IsFiniteSet(D), NEW k, NEW victim,
         EmptyKey \notin Key, Cardinality(D) <= Capacity,
         \/ ~(k \notin D /\ Cardinality(D) >= Capacity) /\ victim = {}
         \/ \E o \in D : k \notin D /\ victim = {o} \ {EmptyKey}
  PROVE  Cardinality((D \ victim) \cup {k}) <= Capacity
<1>0. Cardinality(D) \in Nat
  BY FS_CardinalityType
<1>1. CASE ~(k \notin D /\ Cardinality(D) >= Capacity) /\ victim = {}
  <2>1. D \ victim = D
    BY <1>1
  <2>2. /\ IsFiniteSet(D \cup {k})
        /\ Cardinality(D \cup {k}) = IF k \in D THEN Cardinality(D) ELSE Cardinality(D) + 1
    BY FS_AddElement
  <2>3. Cardinality(D \cup {k}) <= Capacity
    BY <1>0, <1>1, <2>2, LimiterConstants
  <2> QED BY <2>1, <2>2, <2>3
<1>2. CASE \E o \in D : k \notin D /\ victim = {o} \ {EmptyKey}
  <2>1. PICK o \in D : k \notin D /\ victim = {o} \ {EmptyKey}
    BY <1>2
  <2>2. D \ victim = D \ {o}
    BY <2>1
  <2>3. IsFiniteSet(D \ {o}) /\ Cardinality(D \ {o}) = Cardinality(D) - 1
    BY FS_RemoveElement
  <2>4. /\ IsFiniteSet((D \ {o}) \cup {k})
        /\ Cardinality((D \ {o}) \cup {k}) = Cardinality(D \ {o}) + 1
    <3>1. k \notin D \ {o}
      BY <2>1
    <3> QED BY <2>3, <3>1, FS_AddElement
  <2>5. Cardinality((D \ {o}) \cup {k}) <= Capacity
    BY <1>0, <2>3, <2>4, LimiterConstants
  <2> QED BY <2>2, <2>4, <2>5
<1> QED
  BY <1>1, <1>2

LEMMA InitLimiter == LimiterInit => LimiterInv
<1> SUFFICES ASSUME LimiterInit PROVE LimiterInv
  OBVIOUS
<1>1. MapInv
  <2>1. DOMAIN buckets = {} /\ buckets = [k \in DOMAIN buckets |-> buckets[k]]
    BY DEF LimiterInit
  <2>2. IsFiniteSet(DOMAIN buckets) /\ MapIsBounded
    BY <2>1, FS_EmptySet, LimiterConstants DEF MapIsBounded
  <2>3. clock \in Time /\ pending \in [Caller -> Call \cup {NoCall}]
    BY LimiterConstants DEF LimiterInit, Time
  <2>4. \A c \in Caller : pending[c] = NoCall
    BY DEF LimiterInit
  <2> QED BY <2>1, <2>2, <2>3, <2>4 DEF MapInv
<1>2. allowed \in [Key -> [Time -> Nat]]
  BY DEF LimiterInit, never
<1>3. ASSUME NEW k \in Key PROVE KeyOK(buckets, k, allowed[k], clock)
  <2>1. \A i \in Time : allowed[k][i] = 0
    BY DEF LimiterInit, never
  <2>2. IsFiniteSet(Units(allowed[k], Time))
    BY <2>1, TallyNone
  <2>3. ASSUME NEW t \in Time
        PROVE  Tally(allowed[k], Since(t)) = 0 /\ Tally(allowed[k], WindowFrom(t)) = 0
    <3>1. /\ \A i \in Since(t) : allowed[k][i] = 0
          /\ \A i \in WindowFrom(t) : allowed[k][i] = 0
      BY <2>1 DEF Since, WindowFrom
    <3> QED BY <3>1, TallyNone
  <2>4. ASSUME NEW t \in Time
        PROVE  0 <= Limit * Windows(clock - t) /\ 0 <= WindowsInSpan * Limit
    <3>1. clock - t \in Int
      BY <1>1, TimesAreNumbers DEF MapInv
    <3>2. Limit * Windows(clock - t) \in Nat
      BY <3>1, WindowsNumber, LimitTimes
    <3>3. WindowsInSpan \in Nat
      <4>1. 0 \in Int /\ 0 <= MaxStale + Window - 1
        BY LimiterConstants
      <4> QED BY <4>1, WindowsOfSpan
    <3>4. WindowsInSpan * Limit \in Nat
      BY <3>3, LimiterConstants
    <3> QED BY <3>2, <3>4
  <2>5. k \notin DOMAIN buckets
    BY DEF LimiterInit
  <2> QED
    BY <2>1, <2>2, <2>3, <2>4, <2>5 DEF KeyOK, BucketOK
<1> QED
  BY <1>1, <1>2, <1>3 DEF LimiterInv

\* After an expiry every key is still accounted for.
LEMMA ExpiryKeepsKeys ==
  ASSUME IdleTTL >= Window + 2 * MaxStale, LimiterInv, NEW k \in Key \ evicted,
         NEW at \in Int, at <= clock, NEW kept, kept = evictExpired(buckets, at)
  PROVE  BucketOK(k \in DOMAIN kept, kept[k], allowed[k], clock)
<1>1. /\ MapInv /\ clock \in Time
      /\ IsFiniteSet(Units(allowed[k], Time))
      /\ \A i \in Time : allowed[k][i] \in Nat
      /\ BucketOK(k \in DOMAIN buckets, buckets[k], allowed[k], clock)
  BY DEF LimiterInv, MapInv, KeyOK
<1>2. /\ DOMAIN kept \subseteq DOMAIN buckets
      /\ \A j \in DOMAIN kept : kept[j] = buckets[j]
      /\ \A j \in DOMAIN buckets : j \notin DOMAIN kept =>
           at - buckets[j].seen >= IdleTTL
  BY <1>1, ExpiryKeepsMap
<1>3. CASE k \in DOMAIN kept
  <2>1. k \in DOMAIN buckets /\ kept[k] = buckets[k]
    BY <1>2, <1>3
  <2>2. (k \in DOMAIN kept) = (k \in DOMAIN buckets)
    BY <1>3, <2>1
  <2> QED BY <1>1, <2>1, <2>2
<1>4. CASE k \in DOMAIN buckets /\ k \notin DOMAIN kept
  <2>1. buckets[k] \in Bucket /\ at - buckets[k].seen >= IdleTTL
    BY <1>1, <1>2, <1>4 DEF MapInv
  <2>2. (k \in DOMAIN buckets) = TRUE /\ (k \in DOMAIN kept) = FALSE
    BY <1>4
  <2>3. BucketOK(TRUE, buckets[k], allowed[k], clock)
    BY <1>1, <2>2
  <2>4. BucketOK(FALSE, kept[k], allowed[k], clock)
    <3>1. PICK a : a = allowed[k]
      OBVIOUS
    <3>2. PICK b \in Bucket : b = buckets[k]
      BY <2>1
    <3>3. PICK d : d = kept[k]
      OBVIOUS
    <3>4. /\ IsFiniteSet(Units(a, Time)) /\ \A i \in Time : a[i] \in Nat
          /\ BucketOK(TRUE, b, a, clock) /\ at - b.seen >= IdleTTL
      BY <1>1, <2>1, <2>3, <3>1, <3>2
    <3>5. BucketOK(FALSE, d, a, clock)
      BY <1>1, <3>4, ExpireBucket
    <3> QED BY <3>1, <3>3, <3>5
  <2> QED BY <2>2, <2>4
<1>5. CASE k \notin DOMAIN buckets
  <2>1. k \notin DOMAIN kept
    BY <1>2, <1>5
  <2> QED BY <1>1, <1>5, <2>1 DEF BucketOK
<1> QED
  BY <1>3, <1>4, <1>5

\* A call counted in its bucket keeps its key accounted for.
LEMMA CallKeepsKey ==
  ASSUME NEW a \in [Time -> Nat], IsFiniteSet(Units(a, Time)), clock \in Time,
         NEW present \in BOOLEAN, NEW old, present => old \in Bucket,
         BucketOK(present, old, a, clock),
         \A t \in Time : Tally(a, WindowFrom(t)) <= WindowsInSpan * Limit,
         NEW at \in Time, at <= clock, clock - at <= MaxStale,
         NEW c, NEW b,
         present /\ at - old.start < Window => b = old,
         ~(present /\ at - old.start < Window) =>
           b \in Bucket /\ b.start = at /\ b.seen = at /\ b.count = 0,
         b \in Bucket => c \in Bucket, c.start = b.start, c.seen = at,
         c.count = IF b.count <= Limit THEN b.count + 1 ELSE b.count,
         NEW d, \A i \in Time : i # clock => d[i] = a[i],
         d[clock] = IF c.count <= Limit THEN a[clock] + 1 ELSE a[clock]
  PROVE  /\ IsFiniteSet(Units(d, Time))
         /\ BucketOK(TRUE, c, d, clock)
         /\ \A t \in Time : Tally(d, WindowFrom(t)) <= WindowsInSpan * Limit
<1>0. (\A i \in Time : a[i] \in Nat) /\ at \in Int
  BY TimesAreNumbers
<1>1. /\ b \in Bucket /\ BucketOK(TRUE, b, a, clock) /\ at - b.start < Window
  <2>1. CASE present /\ at - old.start < Window
    <3>1. b = old
      BY <2>1
    <3>2. present = TRUE
      BY <2>1
    <3> QED BY <2>1, <3>1, <3>2
  <2>2. CASE ~(present /\ at - old.start < Window)
    <3>1. /\ b \in Bucket /\ b.start = at /\ b.seen = at /\ b.count = 0
          /\ at - b.start < Window
      BY <1>0, <2>2, LimiterConstants
    <3>2. present => at - old.start >= Window
      BY <1>0, <2>2, TimesAreNumbers, LimiterConstants
    <3>3. b = [start |-> at, seen |-> at, count |-> 0]
      BY <3>1 DEF Bucket
    <3>4. BucketOK(TRUE, b, a, clock)
      BY <1>0, <3>2, <3>3, OpenBucket
    <3> QED BY <3>1, <3>4
  <2> QED BY <2>1, <2>2
<1>2. c \in Bucket
  BY <1>1
<1>3. /\ IsFiniteSet(Units(d, Time))
      /\ BucketOK(TRUE, c, d, clock)
      /\ \A t \in Time : Tally(d, WindowFrom(t)) <= WindowsInSpan * Limit
  BY <1>0, <1>1, <1>2, CountCall
<1> QED
  BY <1>2, <1>3

\* Each step keeps the map.
LEMMA MapStep == MapInv /\ [LimiterNext]_limiterVars => MapInv'
<1> SUFFICES ASSUME MapInv, [LimiterNext]_limiterVars PROVE MapInv'
  OBVIOUS
<1>0. MapInv /\ clock \in Time /\ clock \in Int
  BY TimesAreNumbers DEF MapInv
<1>1. ASSUME NEW c \in Caller, Allow(c) PROVE MapInv'
  <2>1. PICK k, at : k = pending[c].key /\ at = pending[c].at
    OBVIOUS
  <2>2. PICK kept : kept = evictExpired(buckets, at)
    OBVIOUS
  <2>3. PICK b : b = Current(kept, k, at)
    OBVIOUS
  <2>4. PICK n : n = IF b.count <= Limit THEN b.count + 1 ELSE b.count
    OBVIOUS
  <2>5. PICK e : e = [b EXCEPT !.count = n, !.seen = at]
    OBVIOUS
  <2>6. /\ pending[c] # NoCall
        /\ pending' = [pending EXCEPT ![c] = NoCall]
        /\ clock' = clock
    BY <1>1 DEF Allow
  <2>7. PICK victim \in Victims(kept, k) :
          /\ buckets' = [j \in (DOMAIN kept \ victim) \cup {k} |->
                           IF j = k THEN e ELSE kept[j]]
          /\ evicted' = evicted \cup victim
    BY <1>1, <2>1, <2>2, <2>3, <2>4, <2>5 DEF Allow
  <2>9. /\ k \in Key /\ at \in Time /\ at \in Int /\ at <= clock
        /\ clock - at <= MaxStale
    BY <1>0, <2>1, <2>6, CallParts, TimesAreNumbers
  <2>10. /\ kept = [j \in DOMAIN kept |-> kept[j]]
         /\ DOMAIN kept \subseteq DOMAIN buckets /\ DOMAIN kept \subseteq Key
         /\ \A j \in DOMAIN kept : kept[j] = buckets[j] /\ kept[j] \in Bucket
         /\ IsFiniteSet(DOMAIN kept)
         /\ EmptyKey \notin Key => Cardinality(DOMAIN kept) <= Capacity
    <3>1. /\ kept = [j \in DOMAIN kept |-> kept[j]]
          /\ DOMAIN kept \subseteq DOMAIN buckets
          /\ \A j \in DOMAIN kept : kept[j] = buckets[j]
          /\ IsFiniteSet(DOMAIN kept)
          /\ EmptyKey \notin Key => Cardinality(DOMAIN kept) <= Capacity
      BY <1>0, <2>2, <2>9, ExpiryKeepsMap
    <3> QED BY <1>0, <3>1 DEF MapInv
  \* The bucket of the call.
  <2>11. /\ b \in Bucket /\ e \in Bucket /\ n \in Nat
         /\ e.start = b.start /\ e.seen = at /\ e.count = n
    <3>1. b \in Bucket
      BY <2>3, <2>9, <2>10 DEF Current, Bucket
    <3>2. n \in Nat
      BY <2>4, <3>1, LimiterConstants DEF Bucket
    <3> QED BY <2>5, <2>9, <3>1, <3>2 DEF Bucket
  <2>12. MapInv'
    <3>1. DOMAIN buckets' = (DOMAIN kept \ victim) \cup {k}
      BY <2>7
    <3>2. /\ IsFiniteSet((DOMAIN kept \ victim) \cup {k})
          /\ EmptyKey \notin Key => MapIsBounded'
      <4>1. \/ ~(k \notin DOMAIN kept /\ Cardinality(DOMAIN kept) >= Capacity)
               /\ victim = {}
            \/ \E o \in DOMAIN kept : k \notin DOMAIN kept /\ victim = {o} \ {EmptyKey}
        BY <2>7 DEF Victims, AtCapacity, Oldest
      <4>2. PICK D : D = DOMAIN kept
        OBVIOUS
      <4>3. IsFiniteSet((D \ victim) \cup {k})
        <5>1. IsFiniteSet(D \ victim)
          BY <2>10, <4>2, FS_Subset
        <5> QED BY <5>1, FS_AddElement
      <4>4. EmptyKey \notin Key => Cardinality((D \ victim) \cup {k}) <= Capacity
        BY <2>10, <4>1, <4>2, RoomIsMade
      <4> QED BY <3>1, <4>2, <4>3, <4>4 DEF MapIsBounded
    <3>3. /\ buckets' = [j \in DOMAIN buckets' |-> buckets'[j]]
          /\ DOMAIN buckets' \subseteq Key
          /\ \A j \in DOMAIN buckets' : buckets'[j] \in Bucket
      BY <2>7, <2>9, <2>10, <2>11, <3>1
    <3>4. /\ pending' \in [Caller -> Call \cup {NoCall}]
          /\ \A f \in Caller : pending'[f] # NoCall => pending'[f] = pending[f]
      BY <1>0, <2>6 DEF MapInv
    <3>5. \A f \in Caller : pending'[f] # NoCall =>
            pending'[f].at <= clock /\ clock - pending'[f].at <= MaxStale
      BY <1>0, <3>4 DEF MapInv
    <3> QED
      BY <1>0, <2>6, <3>1, <3>2, <3>3, <3>4, <3>5 DEF MapInv
  <2> QED BY <2>12
<1>2. ASSUME NEW c \in Caller, NEW k \in Key, ReadClock(c, k) PROVE MapInv'
  <2>1. /\ pending' = [pending EXCEPT ![c] = [key |-> k, at |-> clock]]
        /\ UNCHANGED <<clock, buckets, allowed, evicted>>
    BY <1>2 DEF ReadClock
  <2>2. PICK call : call = [key |-> k, at |-> clock]
    OBVIOUS
  <2>3. call \in Call /\ call.at = clock
    BY <1>0, <2>2 DEF Call
  <2>4. pending' = [pending EXCEPT ![c] = call]
    BY <2>1, <2>2
  <2>5. pending' \in [Caller -> Call \cup {NoCall}]
    BY <1>0, <2>3, <2>4 DEF MapInv
  <2>6. \A f \in Caller : pending'[f] # NoCall =>
          pending'[f].at <= clock /\ clock - pending'[f].at <= MaxStale
    <3>1. \A f \in Caller : pending'[f] = IF f = c THEN call ELSE pending[f]
      BY <1>0, <2>4 DEF MapInv
    <3>2. call.at <= clock /\ clock - call.at <= MaxStale
      BY <1>0, <2>3, LimiterConstants
    <3> QED BY <1>0, <3>1, <3>2 DEF MapInv
  <2>7. MapInv'
    BY <1>0, <2>1, <2>5, <2>6 DEF MapInv, MapIsBounded
  <2> QED BY <2>7
<1>3. CASE TimePasses
  <2>1. /\ clock < LastTime /\ clock' = clock + 1
        /\ \A c \in Caller : pending[c] # NoCall => clock - pending[c].at < MaxStale
        /\ UNCHANGED <<buckets, pending, allowed, evicted>>
    BY <1>3 DEF TimePasses
  <2>2. clock' \in Time
    BY <1>0, <2>1, LimiterConstants DEF Time
  <2>3. ASSUME NEW c \in Caller, pending[c] # NoCall
        PROVE  pending[c].at <= clock + 1 /\ (clock + 1) - pending[c].at <= MaxStale
    <3>1. pending[c].at \in Int /\ pending[c].at <= clock
      BY <1>0, <2>3, CallParts, TimesAreNumbers
    <3> QED BY <1>0, <2>1, <2>3, <3>1, LimiterConstants
  <2>4. MapInv'
    BY <1>0, <2>1, <2>2, <2>3 DEF MapInv, MapIsBounded
  <2> QED BY <2>4
<1>4. CASE UNCHANGED limiterVars
  BY <1>0, <1>4 DEF limiterVars, MapInv, MapIsBounded
<1> QED
  BY <1>1, <1>2, <1>3, <1>4 DEF LimiterNext

\* Each step preserves the invariant.
LEMMA NextLimiter ==
  ASSUME IdleTTL >= Window + 2 * MaxStale
  PROVE  LimiterInv /\ [LimiterNext]_limiterVars => LimiterInv'
<1> SUFFICES ASSUME LimiterInv, [LimiterNext]_limiterVars PROVE LimiterInv'
  OBVIOUS
<1>0. /\ MapInv /\ MapInv' /\ clock \in Time /\ clock \in Int
      /\ allowed \in [Key -> [Time -> Nat]]
      /\ \A k \in Key \ evicted : KeyOK(buckets, k, allowed[k], clock)
  BY MapStep, TimesAreNumbers DEF LimiterInv, MapInv
\* What has to be shown of the next state.
<1>1. ASSUME allowed' \in [Key -> [Time -> Nat]],
             \A k \in Key \ evicted' : KeyOK(buckets', k, allowed'[k], clock')
      PROVE  LimiterInv'
  BY <1>0, <1>1 DEF LimiterInv, KeyOK, BucketOK, Tally, Units
<1>2. ASSUME NEW c \in Caller, Allow(c) PROVE LimiterInv'
  <2>1. PICK k, at : k = pending[c].key /\ at = pending[c].at
    OBVIOUS
  <2>2. PICK kept : kept = evictExpired(buckets, at)
    OBVIOUS
  <2>3. PICK b : b = Current(kept, k, at)
    OBVIOUS
  <2>4. PICK n : n = IF b.count <= Limit THEN b.count + 1 ELSE b.count
    OBVIOUS
  <2>5. PICK e : e = [b EXCEPT !.count = n, !.seen = at]
    OBVIOUS
  <2>6. /\ pending[c] # NoCall
        /\ pending' = [pending EXCEPT ![c] = NoCall]
        /\ clock' = clock
    BY <1>2 DEF Allow
  <2>7. PICK victim \in Victims(kept, k) :
          /\ buckets' = [j \in (DOMAIN kept \ victim) \cup {k} |->
                           IF j = k THEN e ELSE kept[j]]
          /\ evicted' = evicted \cup victim
    BY <1>2, <2>1, <2>2, <2>3, <2>4, <2>5 DEF Allow
  <2>8. allowed' = [j \in Key |->
          IF j \in evicted' THEN never
          ELSE IF j = k /\ n <= Limit THEN [allowed[k] EXCEPT ![clock] = @ + 1]
          ELSE allowed[j]]
    BY <1>2, <2>1, <2>2, <2>3, <2>4 DEF Allow
  <2>9. /\ k \in Key /\ at \in Time /\ at \in Int /\ at <= clock
        /\ clock - at <= MaxStale
    BY <1>0, <2>1, <2>6, CallParts, TimesAreNumbers
  <2>10. /\ kept = [j \in DOMAIN kept |-> kept[j]]
         /\ DOMAIN kept \subseteq DOMAIN buckets /\ DOMAIN kept \subseteq Key
         /\ \A j \in DOMAIN kept : kept[j] = buckets[j] /\ kept[j] \in Bucket
    <3>1. /\ kept = [j \in DOMAIN kept |-> kept[j]]
          /\ DOMAIN kept \subseteq DOMAIN buckets
          /\ \A j \in DOMAIN kept : kept[j] = buckets[j]
      BY <1>0, <2>2, <2>9, ExpiryKeepsMap
    <3> QED BY <1>0, <3>1 DEF MapInv
  \* The bucket of the call.
  <2>11. /\ b \in Bucket /\ e \in Bucket /\ n \in Nat
         /\ e.start = b.start /\ e.seen = at /\ e.count = n
    <3>1. b \in Bucket
      BY <2>3, <2>9, <2>10 DEF Current, Bucket
    <3>2. n \in Nat
      BY <2>4, <3>1, LimiterConstants DEF Bucket
    <3> QED BY <2>5, <2>9, <3>1, <3>2 DEF Bucket
  \* The calls of its key.
  <2>13. /\ allowed' \in [Key -> [Time -> Nat]]
         /\ \A j \in Key \ evicted' : j # k => allowed'[j] = allowed[j]
         /\ k \notin evicted' =>
              /\ allowed'[k][clock] = IF n <= Limit THEN allowed[k][clock] + 1
                                      ELSE allowed[k][clock]
              /\ \A i \in Time : i # clock => allowed'[k][i] = allowed[k][i]
    <3>1. PICK a \in [Time -> Nat] : a = allowed[k]
      BY <1>0, <2>9
    <3>2. PICK d : d = [a EXCEPT ![clock] = @ + 1]
      OBVIOUS
    <3>3. a[clock] \in Nat /\ a[clock] + 1 \in Nat
      <4>1. a[clock] \in Nat
        BY <1>0, Zenon
      <4> QED BY <4>1
    <3>4. /\ d \in [Time -> Nat] /\ d[clock] = a[clock] + 1
          /\ \A i \in Time : i # clock => d[i] = a[i]
      BY <1>0, <3>2, <3>3
    <3>5. never \in [Time -> Nat]
      BY DEF never
    <3>6. allowed' = [j \in Key |-> IF j \in evicted' THEN never
                        ELSE IF j = k /\ n <= Limit THEN d ELSE allowed[j]]
      BY <2>8, <3>1, <3>2
    <3> HIDE <3>2
    <3>7. \A j \in Key : allowed'[j] =
            IF j \in evicted' THEN never
            ELSE IF j = k /\ n <= Limit THEN d ELSE allowed[j]
      BY <3>6
    <3>8. allowed' \in [Key -> [Time -> Nat]]
      BY <1>0, <3>4, <3>5, <3>6
    <3> QED BY <2>9, <3>1, <3>4, <3>7, <3>8
  <2>14. ASSUME NEW j \in Key \ evicted'
         PROVE  KeyOK(buckets', j, allowed'[j], clock')
    <3>1. j \in Key \ evicted /\ j \notin victim
      BY <2>7
    <3>2. BucketOK(j \in DOMAIN kept, kept[j], allowed[j], clock)
      BY <2>2, <2>9, <3>1, ExpiryKeepsKeys
    <3>3. /\ IsFiniteSet(Units(allowed[j], Time))
          /\ \A t \in Time : Tally(allowed[j], WindowFrom(t)) <= WindowsInSpan * Limit
      BY <1>0, <3>1 DEF KeyOK
    <3>4. CASE j # k
      <4>1. /\ (j \in DOMAIN buckets') = (j \in DOMAIN kept)
            /\ allowed'[j] = allowed[j]
        BY <2>7, <2>13, <3>1, <3>4
      <4>2. j \in DOMAIN kept => buckets'[j] = kept[j]
        BY <2>7, <3>1, <3>4
      <4>3. BucketOK(j \in DOMAIN buckets', buckets'[j], allowed'[j], clock)
        <5>1. CASE j \in DOMAIN kept
          BY <3>2, <4>1, <4>2, <5>1
        <5>2. CASE j \notin DOMAIN kept
          BY <3>2, <4>1, <5>2 DEF BucketOK
        <5> QED BY <5>1, <5>2
      <4> QED BY <2>6, <3>3, <4>1, <4>3 DEF KeyOK
    <3>5. CASE j = k
      <4>1. PICK a \in [Time -> Nat] : a = allowed[k]
        BY <1>0, <2>9
      <4>2. PICK d : d = allowed'[k]
        OBVIOUS
      <4>3. /\ \A i \in Time : i # clock => d[i] = a[i]
            /\ d[clock] = IF e.count <= Limit THEN a[clock] + 1 ELSE a[clock]
        BY <2>11, <2>13, <3>5, <4>1, <4>2
      <4>4. e.count = IF b.count <= Limit THEN b.count + 1 ELSE b.count
        BY <2>4, <2>11
      <4>5. /\ IsFiniteSet(Units(a, Time))
            /\ BucketOK(k \in DOMAIN kept, kept[k], a, clock)
            /\ \A t \in Time : Tally(a, WindowFrom(t)) <= WindowsInSpan * Limit
            /\ k \in DOMAIN kept => kept[k] \in Bucket
        BY <2>10, <3>2, <3>3, <3>5, <4>1
      <4>6. /\ IsFiniteSet(Units(d, Time))
            /\ BucketOK(TRUE, e, d, clock)
            /\ \A t \in Time : Tally(d, WindowFrom(t)) <= WindowsInSpan * Limit
        <5>1. (k \in DOMAIN kept) \in BOOLEAN
          OBVIOUS
        <5>2. PICK present \in BOOLEAN : present = (k \in DOMAIN kept)
          BY <5>1
        <5>3. PICK old : old = kept[k]
          OBVIOUS
        <5>4. /\ present /\ at - old.start < Window => b = old
              /\ ~(present /\ at - old.start < Window) =>
                   b.start = at /\ b.seen = at /\ b.count = 0
          BY <2>3, <5>2, <5>3 DEF Current
        <5>5. /\ present => old \in Bucket
              /\ BucketOK(present, old, a, clock)
          BY <4>5, <5>2, <5>3
        <5> QED
          BY <1>0, <2>9, <2>11, <4>3, <4>4, <4>5, <5>4, <5>5, CallKeepsKey
      <4>7. /\ (k \in DOMAIN buckets') = TRUE
            /\ buckets'[k] = e
        BY <2>7
      <4> QED BY <2>6, <3>5, <4>2, <4>6, <4>7 DEF KeyOK
    <3> QED BY <3>4, <3>5
  <2> QED
    BY <1>1, <2>13, <2>14
<1>3. ASSUME NEW c \in Caller, NEW k \in Key, ReadClock(c, k) PROVE LimiterInv'
  <2>1. /\ pending' = [pending EXCEPT ![c] = [key |-> k, at |-> clock]]
        /\ UNCHANGED <<clock, buckets, allowed, evicted>>
    BY <1>3 DEF ReadClock
  <2> QED
    BY <1>0, <1>1, <2>1
<1>4. CASE TimePasses
  <2>1. /\ clock < LastTime /\ clock' = clock + 1
        /\ \A c \in Caller : pending[c] # NoCall => clock - pending[c].at < MaxStale
        /\ UNCHANGED <<buckets, pending, allowed, evicted>>
    BY <1>4 DEF TimePasses
  <2>5. ASSUME NEW k \in Key \ evicted
        PROVE  KeyOK(buckets, k, allowed[k], clock + 1)
    <3>1. PICK a \in [Time -> Nat] : a = allowed[k]
      BY <1>0
    <3>0. (k \in DOMAIN buckets) \in BOOLEAN
      OBVIOUS
    <3>2. PICK present \in BOOLEAN : present = (k \in DOMAIN buckets)
      BY <3>0
    <3>3. PICK b : b = buckets[k]
      OBVIOUS
    <3>4. /\ IsFiniteSet(Units(a, Time)) /\ BucketOK(present, b, a, clock)
          /\ \A t \in Time : Tally(a, WindowFrom(t)) <= WindowsInSpan * Limit
          /\ present => b \in Bucket
          /\ \A i \in Time : a[i] \in Nat
      BY <1>0, <3>1, <3>2, <3>3 DEF KeyOK, MapInv
    <3>5. BucketOK(present, b, a, clock + 1)
      BY <1>0, <3>4, ClockMoves
    <3> QED BY <3>1, <3>2, <3>3, <3>4, <3>5 DEF KeyOK
  <2> QED
    BY <1>0, <1>1, <2>1, <2>5
<1>5. CASE UNCHANGED limiterVars
  <2>1. UNCHANGED <<clock, buckets, pending, allowed, evicted>>
    BY <1>5 DEF limiterVars
  <2> QED BY <1>0, <1>1, <2>1
<1> QED
  BY <1>2, <1>3, <1>4, <1>5 DEF LimiterNext

\* A key that never lost its bucket to the capacity is allowed in a window's
\* length at most its limit for each window that meets it, however calls
\* overtake each other (ratelimit.go:55-107).  It needs buckets that are kept
\* for a window and twice the longest wait for the mutex: Allow takes any
\* window, and one longer than idleTTL is forgotten with its bucket.
THEOREM LimiterRateIsHeld ==
  ASSUME IdleTTL >= Window + 2 * MaxStale
  PROVE  LimiterSpec => []RateHolds
<1>1. LimiterInit => LimiterInv
  BY InitLimiter
<1>2. LimiterInv /\ [LimiterNext]_limiterVars => LimiterInv'
  BY NextLimiter
<1>3. LimiterInv => RateHolds
  BY DEF LimiterInv, MapInv, KeyOK, RateHolds, Admissions, WindowFrom
<1> QED
  BY <1>1, <1>2, <1>3, PTL DEF LimiterSpec

\* As long as no caller uses the empty key, the map never holds more buckets
\* than its capacity (ratelimit.go:63-66, 84-93).  With it the bound is lost.
THEOREM LimiterIsBounded ==
  ASSUME EmptyKey \notin Key
  PROVE  LimiterSpec => []MapIsBounded
<1>1. LimiterInit => MapInv
  BY InitLimiter DEF LimiterInv
<1>2. MapInv /\ [LimiterNext]_limiterVars => MapInv'
  BY MapStep
<1>3. MapInv => MapIsBounded
  BY DEF MapInv
<1> QED
  BY <1>1, <1>2, <1>3, PTL DEF LimiterSpec
=============================================================================
