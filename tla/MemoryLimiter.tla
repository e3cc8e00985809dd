----------------------------- MODULE MemoryLimiter -----------------------------
(***************************************************************************)
(* ratelimit.MemoryLimiter (ratelimit/ratelimit.go): a fixed-window        *)
(* limiter over a bounded map of buckets.  Allow reads the clock before it *)
(* takes the mutex, so that calls may be applied in another order than     *)
(* their times; everything after the lock is one step.                     *)
(*                                                                         *)
(* All calls use one limit and one window, both positive (a call without   *)
(* them is allowed and touches nothing).  allowed and evicted are history  *)
(* variables.                                                              *)
(***************************************************************************)
EXTENDS Tallies, Functions

CONSTANTS
  Caller,     (* goroutines that call Allow                                 *)
  Key,        (* keys they use                                              *)
  EmptyKey,   (* the empty string, if it is one of them                     *)
  Limit, Window,
  Capacity,   (* buckets the map may hold                                   *)
  IdleTTL,    (* age at which a bucket expires                              *)
  MaxStale,   (* bound: how long a caller waits for the mutex               *)
  LastTime    (* bound of the clock                                         *)

ASSUME LimiterAssumption ==
  /\ \A n \in {Limit, Window, Capacity, IdleTTL} : n \in Nat \ {0}
  /\ MaxStale \in Nat /\ LastTime \in Nat

VARIABLES
  clock,     (* the clock                                                   *)
  buckets,   (* map from keys to buckets                                    *)
  pending,   (* calls that read the clock and wait for the mutex            *)
  evicted,   (* history: keys that lost a bucket to the capacity            *)
  allowed    (* history: allowed calls of the others by time of decision    *)

limiterVars == <<clock, buckets, pending, allowed, evicted>>

Time == 0..LastTime
Bucket == [start : Time, seen : Time, count : Nat]
Call == [key : Key, at : Time]
NoCall == [key |-> EmptyKey, at |-> -1]
never == [t \in Time |-> 0]

LimiterTypeOK ==
  /\ clock \in Time
  /\ DOMAIN buckets \subseteq Key
  /\ \A k \in DOMAIN buckets : buckets[k] \in Bucket
  /\ pending \in [Caller -> Call \cup {NoCall}]
  /\ allowed \in [Key -> [Time -> Nat]]
  /\ evicted \subseteq Key

LimiterInit ==
  /\ clock = 0
  /\ buckets = [k \in {} |-> 0]
  /\ pending = [c \in Caller |-> NoCall]
  /\ allowed = [k \in Key |-> never]
  /\ evicted = {}
-----------------------------------------------------------------------------
\* now := l.now().UTC(), before l.mu.Lock().
ReadClock(c, k) ==
  /\ pending[c] = NoCall
  /\ pending' = [pending EXCEPT ![c] = [key |-> k, at |-> clock]]
  /\ UNCHANGED <<clock, buckets, allowed, evicted>>

\* A bug to tell apart: a bucket lives only as long as the clock stands still.
ExpireUnlessSeenNow(map, at) ==
  Restrict(map, {k \in DOMAIN map : at - map[k].seen < 1})

evictExpired(map, at) ==
  Restrict(map, {k \in DOMAIN map : at - map[k].seen < IdleTTL})

\* The keys evictOldest may find: the map is iterated in any order.
Oldest(map) ==
  {k \in DOMAIN map : \A j \in DOMAIN map : map[k].seen <= map[j].seen}

AtCapacity(map, k) ==
  k \notin DOMAIN map /\ Cardinality(DOMAIN map) >= Capacity

\* evictOldest takes the empty key for "none found" and deletes nothing.
Victims(map, k) ==
  IF AtCapacity(map, k) THEN {{o} \ {EmptyKey} : o \in Oldest(map)} ELSE {{}}

\* The bucket a call counts in: a new one if there is none or its window is
\* over.
Current(map, k, at) ==
  IF k \in DOMAIN map /\ at - map[k].start < Window THEN map[k]
  ELSE [start |-> at, seen |-> at, count |-> 0]

\* Counts above the limit are not told apart: all of them deny.
Allow(c) ==
  LET k    == pending[c].key
      at   == pending[c].at
      kept == evictExpired(buckets, at)
      b    == Current(kept, k, at)
      n    == IF b.count <= Limit THEN b.count + 1 ELSE b.count
  IN  /\ pending[c] # NoCall
      /\ pending' = [pending EXCEPT ![c] = NoCall]
      /\ \E victim \in Victims(kept, k) :
           /\ buckets' = [j \in (DOMAIN kept \ victim) \cup {k} |->
                            IF j = k THEN [b EXCEPT !.count = n, !.seen = at]
                            ELSE kept[j]]
           /\ evicted' = evicted \cup victim
      /\ allowed' = [j \in Key |->
           IF j \in evicted' THEN never
           ELSE IF j = k /\ n <= Limit THEN [allowed[k] EXCEPT ![clock] = @ + 1]
           ELSE allowed[j]]
      /\ UNCHANGED clock

\* Time passes; no caller waits longer than MaxStale for the mutex.
TimePasses ==
  /\ clock < LastTime
  /\ \A c \in Caller : pending[c] # NoCall => clock - pending[c].at < MaxStale
  /\ clock' = clock + 1
  /\ UNCHANGED <<buckets, pending, allowed, evicted>>

LimiterNext ==
  TimePasses \/ \E c \in Caller : Allow(c) \/ \E k \in Key : ReadClock(c, k)

LimiterSpec == LimiterInit /\ [][LimiterNext]_limiterVars
-----------------------------------------------------------------------------
(* Properties.                                                             *)

\* Calls of a key allowed in the span of one window from t on.
Admissions(k, t) ==
  Tally(allowed[k], {i \in Time : t <= i /\ i < t + Window})

\* Windows whose calls may be decided in such a span: two, and one more for
\* each further window that a call may wait for the mutex.
WindowsInSpan == 2 + (MaxStale + Window - 2) \div Window

\* A key that never lost its bucket to the capacity is allowed in any span as
\* long as the window no more than the limit for each window that meets it,
\* although calls are applied out of order and a late one moves lastSeen back:
\* an expired bucket is reconstructible, it forgets no call that still counts.
\* This is said of windows that a bucket outlives, IdleTTL >= Window + 2 *
\* MaxStale: idleTTL is fixed, and Allow takes any window (ratelimit.go:55-82).
RateHolds ==
  \A k \in Key \ evicted, t \in Time : Admissions(k, t) <= WindowsInSpan * Limit

\* "a bounded process-local implementation" (ratelimit/doc.go:2): the map never
\* holds more buckets than its capacity.  It does not hold when the empty key
\* is used: while that one is the oldest, evictOldest deletes nothing
\* (ratelimit.go:84-93).
MapIsBounded == Cardinality(DOMAIN buckets) <= Capacity
=============================================================================
