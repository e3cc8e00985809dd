--------------------------- MODULE IdempotencyReceipt ---------------------------
(***************************************************************************)
(* The life of one idempotency receipt (idempotency_contract.go) under     *)
(* attempts to execute requests with one key: Classify decides, a lease    *)
(* with a fencing token guards the execution, and the effect and the       *)
(* completion of the receipt commit in one transaction, which may end      *)
(* with an unknown outcome (mutation/mutation_commit_unknown.go).          *)
(*                                                                         *)
(* The receipt table is the service's: decisions and completions are       *)
(* transactions on its row.  A lease may look expired to a caller at any   *)
(* time, since callers pass their own clock to Classify.  Several attempts *)
(* may run under one owner name.  effects is a history variable.           *)
(***************************************************************************)
EXTENDS Integers

CONSTANTS
  Process,    (* attempts that run at the same time                         *)
  Owner,      (* names under which they acquire leases                      *)
  Fingerprint, NoFingerprint,
  MaxToken    (* bound: number of acquisitions                              *)

ASSUME FingerprintAssumption == NoFingerprint \notin Fingerprint
ASSUME MaxTokenAssumption == MaxToken \in Nat \ {0}

VARIABLES
  status,       (* of the row; "absent" before the first request            *)
  fingerprint,  (* of the row                                               *)
  owner, token, (* the lease of the row                                     *)
  live,         (* nobody sees the lease expired                            *)
  name,         (* the owner name of each process                           *)
  pc,           (* where each process is                                    *)
  request,      (* the fingerprint of its request                           *)
  held,         (* the token it acquired, 0: none                           *)
  answer,       (* what it told its caller                                  *)
  effects       (* history: effects committed                               *)

rowVars     == <<status, fingerprint, owner, token, live>>
processVars == <<name, pc, request, held, answer>>
vars == <<rowVars, processVars, effects>>

Final  == {"succeeded", "failed_terminal"}
Status == Final \cup {"absent", "processing", "failed_retryable"}
Refusal == {"in_progress", "fingerprint_conflict", "lease_lost", "failed_retryable"}

TypeOK ==
  /\ status \in Status
  /\ fingerprint \in Fingerprint \cup {NoFingerprint}
  /\ owner \in Owner
  /\ token \in 0..MaxToken
  /\ live \in BOOLEAN
  /\ name \in [Process -> Owner]
  /\ pc \in [Process -> {"idle", "working", "answered"}]
  /\ request \in [Process -> Fingerprint]
  /\ held \in [Process -> 0..MaxToken]
  /\ answer \in [Process -> Final \cup Refusal \cup {"none"}]
  /\ effects \in Nat

Init ==
  /\ status = "absent" /\ fingerprint = NoFingerprint
  /\ owner \in Owner /\ token = 0 /\ live = FALSE
  /\ name \in [Process -> Owner]
  /\ pc = [p \in Process |-> "idle"]
  /\ request \in [Process -> Fingerprint]
  /\ held = [p \in Process |-> 0]
  /\ answer = [p \in Process |-> "none"]
  /\ effects = 0
-----------------------------------------------------------------------------
(* The contract.                                                           *)

IsLive == token > 0 /\ live

\* A bug to tell apart: the token is not compared.
MatchesOwner(p) == held[p] > 0 /\ owner = name[p]

Matches(p) == held[p] > 0 /\ owner = name[p] /\ held[p] = token

\* A bug to tell apart: a terminal failure may be tried again.
ClassifyRetriesFailure(f) ==
  IF fingerprint # f THEN "fingerprint_conflict" ELSE
  CASE status = "succeeded" -> "replay"
    [] status = "processing" -> IF IsLive THEN "in_progress" ELSE "acquired"
    [] status \in {"failed_retryable", "failed_terminal"} -> "acquired"
    [] OTHER -> "in_progress"

Classify(f) ==
  IF fingerprint # f THEN "fingerprint_conflict" ELSE
  CASE status \in Final -> "replay"
    [] status = "processing" -> IF IsLive THEN "in_progress" ELSE "acquired"
    [] status = "failed_retryable" -> "acquired"
    [] OTHER -> "in_progress"
-----------------------------------------------------------------------------
(* Decisions.                                                              *)

\* The row is inserted or taken over under the next token.
Acquire(p) ==
  /\ token < MaxToken
  /\ status' = "processing"
  /\ owner' = name[p] /\ token' = token + 1 /\ live' = TRUE
  /\ pc' = [pc EXCEPT ![p] = "working"]
  /\ held' = [held EXCEPT ![p] = token + 1]
  /\ UNCHANGED <<name, request, answer, effects>>

Insert(p) ==
  /\ pc[p] = "idle"
  /\ status = "absent"
  /\ fingerprint' = request[p]
  /\ Acquire(p)

Reclaim(p) ==
  /\ pc[p] = "idle"
  /\ status # "absent"
  /\ Classify(request[p]) = "acquired"
  /\ UNCHANGED fingerprint
  /\ Acquire(p)

Respond(p, a) ==
  /\ pc' = [pc EXCEPT ![p] = "answered"]
  /\ answer' = [answer EXCEPT ![p] = a]
  /\ held' = [held EXCEPT ![p] = 0]
  /\ UNCHANGED <<name, request>>

Replay(p) ==
  /\ pc[p] = "idle"
  /\ status # "absent"
  /\ Classify(request[p]) = "replay"
  /\ Respond(p, status)
  /\ UNCHANGED <<rowVars, effects>>

Refuse(p) ==
  /\ pc[p] = "idle"
  /\ status # "absent"
  /\ Classify(request[p]) \in {"in_progress", "fingerprint_conflict"}
  /\ Respond(p, Classify(request[p]))
  /\ UNCHANGED <<rowVars, effects>>
-----------------------------------------------------------------------------
(* Execution.                                                              *)

\* One transaction: the effect and the completion, fenced by the lease.
Commit(p, s) ==
  /\ pc[p] = "working"
  /\ Matches(p)
  /\ status' = s
  /\ effects' = IF s = "succeeded" THEN effects + 1 ELSE effects
  /\ live' = FALSE
  /\ UNCHANGED <<fingerprint, owner, token>>

Completed(p, s) == Commit(p, s) /\ Respond(p, s)

\* The fence fails: the transaction is rolled back.
LeaseLost(p) ==
  /\ pc[p] = "working"
  /\ ~Matches(p)
  /\ Respond(p, "lease_lost")
  /\ UNCHANGED <<rowVars, effects>>

\* The process starts over with the same request and identity.
StartOver(p) ==
  /\ pc' = [pc EXCEPT ![p] = "idle"]
  /\ held' = [held EXCEPT ![p] = 0]
  /\ answer' = [answer EXCEPT ![p] = "none"]
  /\ UNCHANGED <<name, request>>

\* The commit happened and the process did not learn it, or it did not.
CommitUnknown(p) ==
  /\ pc[p] = "working"
  /\ \/ \E s \in Final : Commit(p, s)
     \/ UNCHANGED <<rowVars, effects>>
  /\ StartOver(p)

Crash(p) ==
  /\ pc[p] = "working"
  /\ StartOver(p)
  /\ UNCHANGED <<rowVars, effects>>

\* A caller asks again, perhaps for something else under the same key.
AskAgain(p, f) ==
  /\ pc[p] = "answered"
  /\ pc' = [pc EXCEPT ![p] = "idle"]
  /\ answer' = [answer EXCEPT ![p] = "none"]
  /\ request' = [request EXCEPT ![p] = f]
  /\ UNCHANGED <<rowVars, name, held, effects>>

Heartbeat(p) ==
  /\ pc[p] = "working"
  /\ Matches(p)
  /\ live' = TRUE
  /\ UNCHANGED <<status, fingerprint, owner, token, processVars, effects>>

LeaseExpires ==
  /\ live
  /\ live' = FALSE
  /\ UNCHANGED <<status, fingerprint, owner, token, processVars, effects>>

\* The bound on tokens is reached before the receipt is final.
Exhausted ==
  /\ token = MaxToken
  /\ status \in {"processing", "failed_retryable"}
  /\ UNCHANGED vars
-----------------------------------------------------------------------------
Next ==
  \/ Exhausted
  \/ LeaseExpires
  \/ \E p \in Process :
       \/ Insert(p) \/ Reclaim(p) \/ Replay(p) \/ Refuse(p)
       \/ \E s \in Final \cup {"failed_retryable"} : Completed(p, s)
       \/ LeaseLost(p) \/ CommitUnknown(p) \/ Crash(p) \/ Heartbeat(p)
       \/ \E f \in Fingerprint : AskAgain(p, f)

Spec == Init /\ [][Next]_vars
-----------------------------------------------------------------------------
(* Properties.                                                             *)

\* The effect happens once if the receipt says it succeeded and never
\* otherwise, although processes crash, lose their lease, commit without
\* knowing it, and come back late.
EffectMatchesReceipt == effects = IF status = "succeeded" THEN 1 ELSE 0

\* A process that may still complete the receipt executes the request the
\* receipt is about.
ExecutesItsRequest ==
  \A p \in Process :
    pc[p] = "working" /\ Matches(p)
      => status = "processing" /\ request[p] = fingerprint

\* A caller that is given a final answer asked for what the receipt is about.
AnswersItsRequest ==
  \A p \in Process :
    answer[p] \in Final => answer[p] = status /\ request[p] = fingerprint

\* The receipt implements the promise: one request, one outcome, one effect,
\* one answer.
Promise == INSTANCE OnceOnly WITH
  request <- fingerprint,
  outcome <- IF status \in Final THEN status ELSE "none",
  effect  <- effects > 0,
  answer  <- [p \in Process |-> IF answer[p] \in Final THEN answer[p] ELSE "none"]

KeepsPromise == Promise!Spec
=============================================================================
