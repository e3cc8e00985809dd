-------------------------------- MODULE OnceOnly --------------------------------
(***************************************************************************)
(* What an idempotency receipt promises: of all the requests under one key *)
(* the first fingerprint is the request, it has one final outcome, its     *)
(* effect happens at most once and with that outcome, and every caller     *)
(* that gets a final answer gets that outcome.                             *)
(***************************************************************************)
CONSTANTS Process, Fingerprint, NoFingerprint

VARIABLES
  request,  (* the fingerprint the key stands for                           *)
  outcome,  (* "none" or the final outcome                                  *)
  effect,   (* the effect happened                                          *)
  answer    (* what each caller was told for good                           *)

Final == {"succeeded", "failed_terminal"}

Init ==
  /\ request = NoFingerprint
  /\ outcome = "none"
  /\ effect = FALSE
  /\ answer = [p \in Process |-> "none"]

Accept ==
  /\ request = NoFingerprint
  /\ request' \in Fingerprint
  /\ UNCHANGED <<outcome, effect, answer>>

\* The outcome, the effect that goes with it, and perhaps the answer of the
\* process that did it.
Resolve(o) ==
  /\ request # NoFingerprint
  /\ outcome = "none"
  /\ outcome' = o
  /\ effect' = (o = "succeeded")
  /\ \/ UNCHANGED answer
     \/ \E p \in Process : answer' = [answer EXCEPT ![p] = o]
  /\ UNCHANGED request

Answer(p) ==
  /\ outcome # "none"
  /\ answer' = [answer EXCEPT ![p] = outcome]
  /\ UNCHANGED <<request, outcome, effect>>

\* A caller that crashed or asks again knows nothing.
Forget(p) ==
  /\ answer' = [answer EXCEPT ![p] = "none"]
  /\ UNCHANGED <<request, outcome, effect>>

Next ==
  \/ Accept
  \/ \E o \in Final : Resolve(o)
  \/ \E p \in Process : Answer(p) \/ Forget(p)

Spec == Init /\ [][Next]_<<request, outcome, effect, answer>>
=============================================================================
