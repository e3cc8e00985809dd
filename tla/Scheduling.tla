------------------------------ MODULE Scheduling ------------------------------
(***************************************************************************)
(* Which durable items a worker takes first (worker/fairness.go) and how   *)
(* long it waits to try one again (worker/retry.go).                       *)
(*                                                                         *)
(* An item has an identity, a key (its tenant) and a class; a key that is  *)
(* blank counts as "default".  QuotaFairOrder is a step for each class it  *)
(* handles.  Durations have a width: DurationMax is the largest one and    *)
(* doubling wraps around.                                                  *)
(***************************************************************************)
EXTENDS Integers, Sequences, FiniteSetsExt, Functions, Tallies

CONSTANTS
  Calls,        (* arguments of QuotaFairOrder: items, limit, order, quotas *)
  Policies,     (* retry policies                                           *)
  DurationMax

Distinct(seq) == \A i, j \in DOMAIN seq : seq[i] = seq[j] => i = j

\* The items of a scan are different rows, and no class is listed twice.
ASSUME CallAssumption ==
  \A c \in Calls :
    /\ c.items \in Seq(Range(c.items)) /\ Distinct(c.items)
    /\ c.order \in Seq(Range(c.order)) /\ Distinct(c.order)
    /\ c.limit \in Int /\ \A n \in DOMAIN c.quotas : c.quotas[n] \in Int
    /\ IsFiniteSet(DOMAIN c.quotas)

ASSUME PolicyAssumption ==
  /\ DurationMax \in Nat
  /\ \A p \in Policies :
       /\ p.baseDelay \in Int /\ p.baseDelay <= DurationMax
       /\ p.maxDelay \in Int /\ p.maxDelay <= DurationMax
       /\ p.maxAttempts \in Int

VARIABLES
  call,       (* the arguments                                              *)
  class,      (* the number of classes of the order that were handled       *)
  listed,     (* the classes that were handled                              *)
  selected, remaining,
  returned    (* whether QuotaFairOrder has returned                        *)

fairVars == <<call, class, listed, selected, remaining, returned>>

VARIABLES
  policy, attempt,
  grown       (* the delay before it is cut to the maximum                  *)

retryVars == <<policy, attempt, grown>>
-----------------------------------------------------------------------------
\* The elements of S in the order of the relation R.
Ranked(S, R) ==
  [k \in 1..Cardinality(S) |->
     CHOOSE i \in S : Cardinality({j \in S : <<j, i>> \in R}) = k - 1]

Group(item) == IF item.key = "" THEN "default" ELSE item.key

\* The items of one group before position i, and the group's first item.
Turn(items, i) ==
  Cardinality({j \in 1..(i - 1) : Group(items[j]) = Group(items[i])})
First(items, i) ==
  Min({j \in DOMAIN items : Group(items[j]) = Group(items[i])})

\* A bug to tell apart: groups are served one after the other.
ServedByGroup(items, i, j) ==
  \/ First(items, i) < First(items, j)
  \/ First(items, i) = First(items, j) /\ i < j

\* The rounds of FairOrder: every round takes one item of each group that
\* has one left, groups in the order of their first items.
ServedBefore(items, i, j) ==
  \/ Turn(items, i) < Turn(items, j)
  \/ Turn(items, i) = Turn(items, j) /\ First(items, i) < First(items, j)

Rounds(items) ==
  {p \in (DOMAIN items) \X (DOMAIN items) : ServedBefore(items, p[1], p[2])}

FairOrder(items, limit) ==
  LET n == IF limit <= 0 \/ limit > Len(items) THEN Len(items) ELSE limit
      served == Ranked(DOMAIN items, Rounds(items))
  IN  [k \in 1..n |-> items[served[k]]]

Members(items, name) == {i \in DOMAIN items : items[i].class = name}

OfClass(items, name) ==
  LET members == Members(items, name)
      served == Ranked(members, {p \in members \X members : p[1] < p[2]})
  IN  [k \in DOMAIN served |-> items[served[k]]]

Classes == {call.items[i].class : i \in DOMAIN call.items}
Bound == IF call.limit > Len(call.items) THEN Len(call.items) ELSE call.limit

FairInit ==
  /\ call \in Calls
  /\ class = 0 /\ listed = {}
  /\ selected = <<>> /\ remaining = <<>>
  /\ returned = (call.limit <= 0 \/ call.items = <<>>)

\* The share of one class: its quota, cut to what is left and to what it has.
Quota(name, ordered) ==
  Min({IF name \in DOMAIN call.quotas THEN Max({call.quotas[name], 0}) ELSE 0,
       Bound - Len(selected), Len(ordered)})

Reserve ==
  /\ ~returned /\ class < Len(call.order)
  /\ LET name == call.order[class + 1]
         ordered == FairOrder(OfClass(call.items, name), 0)
         quota == Quota(name, ordered)
     IN  /\ selected' = selected \o SubSeq(ordered, 1, quota)
         /\ remaining' = remaining \o SubSeq(ordered, quota + 1, Len(ordered))
         /\ listed' = listed \cup {name}
  /\ class' = class + 1
  /\ UNCHANGED <<call, returned>>

\* The classes that are not in the order, in the order of a map.
AddClass(name) ==
  /\ ~returned /\ class = Len(call.order)
  /\ name \notin listed
  /\ remaining' = remaining \o OfClass(call.items, name)
  /\ listed' = listed \cup {name}
  /\ UNCHANGED <<call, class, selected, returned>>

ShareRest ==
  /\ ~returned /\ class = Len(call.order) /\ Classes \subseteq listed
  /\ returned' = TRUE
  /\ selected' = IF Bound - Len(selected) > 0
                 THEN selected \o FairOrder(remaining, Bound - Len(selected))
                 ELSE selected
  /\ UNCHANGED <<call, class, listed, remaining>>

FairNext == Reserve \/ (\E name \in Classes : AddClass(name)) \/ ShareRest
-----------------------------------------------------------------------------
Doubled(d) ==
  LET m == 2 * d IN IF m > DurationMax THEN m - 2 * (DurationMax + 1) ELSE m

\* A step of the loop of Delay: doubling stops at the maximum or when it
\* overflows.
Grow(d) ==
  IF policy.backoff # "exponential" \/ d >= policy.maxDelay THEN d
  ELSE IF Doubled(d) <= 0 THEN policy.maxDelay ELSE Doubled(d)

Delay(d, jitter) ==
  (IF policy.maxDelay > 0 /\ d > policy.maxDelay THEN policy.maxDelay ELSE d)
    + (IF policy.jitterMax > 0 THEN jitter ELSE 0)

\* Allows, without its deadline: a worker may also not try again.
Allows == attempt > 0 /\ policy.maxAttempts > 0 /\ attempt < policy.maxAttempts

RetryInit ==
  /\ policy \in Policies /\ attempt = 1
  /\ grown = IF policy.baseDelay < 0 THEN 0 ELSE policy.baseDelay

\* The next attempt runs the loop once more.
TryAgain ==
  /\ Allows
  /\ attempt' = attempt + 1 /\ grown' = Grow(grown)
  /\ UNCHANGED policy
-----------------------------------------------------------------------------
SchedulingSpec ==
  /\ FairInit /\ RetryInit
  /\ [][\/ FairNext /\ UNCHANGED retryVars
        \/ TryAgain /\ UNCHANGED fairVars]_<<fairVars, retryVars>>

\* The number of items of a group, and of a class.
OfGroup(seq, g) == Cardinality({i \in DOMAIN seq : Group(seq[i]) = g})

\* No group gets two items ahead of one that still has some.
Balanced(items, got) ==
  \A g, h \in {Group(items[i]) : i \in DOMAIN items} :
    \/ OfGroup(got, g) = OfGroup(items, g)
    \/ OfGroup(got, h) <= OfGroup(got, g) + 1

\* As many items as asked for, or all, none of them twice; and a class gets
\* its quota, if the quotas fit, or all it has.
QuotasKept ==
  /\ Len(selected) = (IF call.limit <= 0 THEN 0 ELSE Bound)
  /\ Distinct(selected) /\ Range(selected) \subseteq Range(call.items)
  /\ call.limit > 0 /\ Tally(call.quotas, DOMAIN call.quotas) <= call.limit =>
       \A c \in Range(call.order) \cap DOMAIN call.quotas :
         LET got == Cardinality(Members(selected, c)) IN
         got >= call.quotas[c] \/ got = Cardinality(Members(call.items, c))

\* Delays never shrink from one attempt to the next, and stay between zero
\* and the maximum, if there is one, up to where doubling overflows.
BackoffGrows ==
  /\ Delay(grown, 0) >= 0 /\ Delay(grown, 0) <= Delay(Grow(grown), 0)
  /\ policy.maxDelay > 0 => Delay(grown, 0) <= policy.maxDelay

\* FairOrder starves no tenant; QuotaFairOrder fills its limit, takes no item
\* twice and starves no class with a quota, in whatever order the map is
\* read; retry delays grow to their maximum and no further, also where
\* doubling overflows (fairness.go:7 and :58, retry.go:66).
SchedulesAreFair ==
  /\ Balanced(call.items, FairOrder(call.items, call.limit))
  /\ returned => QuotasKept
  /\ BackoffGrows
=============================================================================
