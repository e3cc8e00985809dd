------------------------ MODULE IdempotencyReceipt_proofs ------------------------
(***************************************************************************)
(* Proofs about IdempotencyReceipt: for any number of attempts, owners and *)
(* fingerprints the effect happens once, under the fingerprint of the      *)
(* receipt, and the receipt implements OnceOnly.                           *)
(***************************************************************************)
EXTENDS IdempotencyReceipt, TLAPS

\* A process holds a token exactly while it works, and answers at its end.
HoldsWhileWorking ==
  \A p \in Process :
    /\ held[p] <= token
    /\ pc[p] = "working" <=> held[p] > 0
    /\ pc[p] # "answered" => answer[p] = "none"

\* No two processes hold the same token.
TokensAreUnique ==
  \A p, q \in Process : held[p] > 0 /\ held[p] = held[q] => p = q

\* Whoever holds the current token executes the request of the receipt; the
\* owner name is not needed.
TokenExecutes ==
  \A p \in Process :
    held[p] > 0 /\ held[p] = token
      => status = "processing" /\ request[p] = fingerprint

\* The receipt is absent until a fingerprint is written.
AbsentIsBlank == status = "absent" <=> fingerprint = NoFingerprint

IInv ==
  /\ TypeOK
  /\ HoldsWhileWorking
  /\ TokensAreUnique
  /\ TokenExecutes
  /\ AbsentIsBlank
  /\ EffectMatchesReceipt
  /\ AnswersItsRequest
-----------------------------------------------------------------------------
\* Classify lets a process take over a receipt that is not final and is about
\* its request, and replays one that is.
LEMMA ClassifyFacts ==
  ASSUME TypeOK, NEW f \in Fingerprint, status # "absent"
  PROVE  /\ Classify(f) = "acquired" =>
              fingerprint = f /\ status \in {"processing", "failed_retryable"}
         /\ Classify(f) = "replay" => fingerprint = f /\ status \in Final
BY DEF TypeOK, Status, Final, Classify, IsLive

LEMMA InitHolds == Init => IInv
<1> SUFFICES ASSUME Init PROVE IInv
  OBVIOUS
<1> USE FingerprintAssumption, MaxTokenAssumption DEF Init
<1>1. TypeOK
  <2>1. 0 \in 0..MaxToken /\ effects \in Nat
    OBVIOUS
  <2>b. live \in BOOLEAN
    BY Zenon
  <2>2. held \in [Process -> 0..MaxToken]
    BY <2>1
  <2>3. /\ pc \in [Process -> {"idle", "working", "answered"}]
        /\ answer \in [Process -> Final \cup Refusal \cup {"none"}]
    OBVIOUS
  <2> QED BY <2>1, <2>b, <2>2, <2>3 DEF TypeOK, Status
<1>2. HoldsWhileWorking /\ TokensAreUnique /\ TokenExecutes
  BY DEF HoldsWhileWorking, TokensAreUnique, TokenExecutes
<1>3. AbsentIsBlank /\ EffectMatchesReceipt
  BY DEF AbsentIsBlank, EffectMatchesReceipt
<1>4. AnswersItsRequest
  BY DEF AnswersItsRequest, Final
<1> QED BY <1>1, <1>2, <1>3, <1>4 DEF IInv

\* Taking the lease: the new token is above every token held.
LEMMA AcquireKeeps ==
  ASSUME IInv, NEW p \in Process, pc[p] = "idle", Acquire(p),
         \/ status = "absent" /\ fingerprint' = request[p]
         \/ /\ status \in {"processing", "failed_retryable"}
            /\ fingerprint = request[p] /\ UNCHANGED fingerprint
  PROVE  IInv'
<1> USE FingerprintAssumption, MaxTokenAssumption
<1>1. TypeOK'
  BY DEF IInv, TypeOK, Acquire, Status
<1>2. HoldsWhileWorking'
  BY DEF IInv, TypeOK, HoldsWhileWorking, Acquire, AnswersItsRequest
<1>3. TokensAreUnique'
  BY DEF IInv, TypeOK, HoldsWhileWorking, TokensAreUnique, Acquire
<1>4. TokenExecutes'
  BY DEF IInv, TypeOK, HoldsWhileWorking, Acquire, TokenExecutes
<1>5. AbsentIsBlank'
  BY DEF IInv, TypeOK, AbsentIsBlank, Acquire, Status
<1>6. EffectMatchesReceipt' /\ AnswersItsRequest'
  BY DEF IInv, TypeOK, EffectMatchesReceipt, AnswersItsRequest, Acquire, Final
<1> QED BY <1>1, <1>2, <1>3, <1>4, <1>5, <1>6 DEF IInv

\* The end of an attempt that leaves the receipt alone, with an answer that is
\* not final or is the receipt's.
LEMMA RespondKeeps ==
  ASSUME IInv, NEW p \in Process, NEW a, Respond(p, a),
         a \in Refusal \/ (a \in Final /\ a = status /\ request[p] = fingerprint),
         UNCHANGED <<rowVars, effects>>
  PROVE  IInv'
<1> USE FingerprintAssumption, MaxTokenAssumption DEF rowVars
<1>1. TypeOK'
  BY DEF IInv, TypeOK, Respond
<1>2. HoldsWhileWorking' /\ TokensAreUnique' /\ TokenExecutes'
  BY DEF IInv, TypeOK, HoldsWhileWorking, TokensAreUnique, TokenExecutes, Respond
<1>3. AbsentIsBlank' /\ EffectMatchesReceipt'
  BY DEF IInv, AbsentIsBlank, EffectMatchesReceipt
<1>4. AnswersItsRequest'
  BY DEF IInv, TypeOK, AnswersItsRequest, Respond, Final, Refusal
<1> QED BY <1>1, <1>2, <1>3, <1>4 DEF IInv

\* A process that starts over without having changed the receipt.
LEMMA StartOverKeeps ==
  ASSUME IInv, NEW p \in Process, StartOver(p), UNCHANGED <<rowVars, effects>>
  PROVE  IInv'
<1> USE FingerprintAssumption, MaxTokenAssumption DEF rowVars
<1>1. TypeOK'
  BY DEF IInv, TypeOK, StartOver
<1>2. HoldsWhileWorking' /\ TokensAreUnique' /\ TokenExecutes'
  BY DEF IInv, TypeOK, HoldsWhileWorking, TokensAreUnique, TokenExecutes,
         StartOver
<1>3. AbsentIsBlank' /\ EffectMatchesReceipt'
  BY DEF IInv, AbsentIsBlank, EffectMatchesReceipt
<1>4. AnswersItsRequest'
  BY DEF IInv, TypeOK, AnswersItsRequest, StartOver, Final
<1> QED BY <1>1, <1>2, <1>3, <1>4 DEF IInv

\* A commit finds the receipt in processing and about the request committed:
\* its process is the only holder of the current token, and nobody was given
\* a final answer before.
LEMMA CommitFacts ==
  ASSUME IInv, NEW p \in Process, NEW s, Commit(p, s)
  PROVE  /\ status = "processing" /\ effects = 0
         /\ request[p] = fingerprint /\ fingerprint # NoFingerprint
         /\ \A q \in Process \ {p} : held[q] > 0 => held[q] # token
         /\ \A q \in Process : answer[q] \notin Final
<1>1. held[p] > 0 /\ held[p] = token
  BY DEF Commit, Matches
<1>2. status = "processing" /\ request[p] = fingerprint
  BY <1>1 DEF IInv, TokenExecutes
<1>3. fingerprint # NoFingerprint /\ effects = 0
  BY <1>2 DEF IInv, AbsentIsBlank, EffectMatchesReceipt
<1>4. \A q \in Process \ {p} : held[q] > 0 => held[q] # token
  BY <1>1 DEF IInv, TokensAreUnique
<1>5. \A q \in Process : answer[q] \notin Final
  BY <1>2 DEF IInv, AnswersItsRequest, Final
<1> QED BY <1>2, <1>3, <1>4, <1>5

\* A commit, whether its process learns of it (answer s) or not ("none").
LEMMA CommitKeeps ==
  ASSUME IInv, NEW p \in Process, NEW s \in Final \cup {"failed_retryable"},
         Commit(p, s),
         Respond(p, s) \/ StartOver(p)
  PROVE  IInv'
<1> USE FingerprintAssumption, MaxTokenAssumption
<1>0. /\ status = "processing" /\ effects = 0
      /\ request[p] = fingerprint /\ fingerprint # NoFingerprint
      /\ \A q \in Process \ {p} : held[q] > 0 => held[q] # token
      /\ \A q \in Process : answer[q] \notin Final
  BY CommitFacts
<1>1. TypeOK'
  <2>1. status' \in Status /\ effects' \in Nat
    BY <1>0 DEF Commit, Status
  <2>b. live' \in BOOLEAN
    BY Zenon DEF Commit
  <2>2. /\ fingerprint' \in Fingerprint \cup {NoFingerprint}
        /\ owner' \in Owner /\ token' \in 0..MaxToken
    BY DEF IInv, TypeOK, Commit
  <2>3. /\ name' \in [Process -> Owner]
        /\ pc' \in [Process -> {"idle", "working", "answered"}]
        /\ request' \in [Process -> Fingerprint]
        /\ held' \in [Process -> 0..MaxToken]
    BY DEF IInv, TypeOK, Respond, StartOver
  <2>4. answer' \in [Process -> Final \cup Refusal \cup {"none"}]
    BY DEF IInv, TypeOK, Respond, StartOver, Refusal
  <2> QED BY <2>1, <2>b, <2>2, <2>3, <2>4 DEF TypeOK
<1>2. HoldsWhileWorking' /\ TokensAreUnique'
  BY DEF IInv, TypeOK, HoldsWhileWorking, TokensAreUnique, Commit, Respond,
         StartOver
<1>3. TokenExecutes'
  BY <1>0 DEF IInv, TypeOK, TokenExecutes, Commit, Respond, StartOver
<1>4. AbsentIsBlank' /\ EffectMatchesReceipt'
  BY <1>0 DEF IInv, AbsentIsBlank, EffectMatchesReceipt, Commit, Final
<1>5. AnswersItsRequest'
  BY <1>0 DEF IInv, TypeOK, AnswersItsRequest, Commit, Respond, StartOver, Final
<1> QED BY <1>1, <1>2, <1>3, <1>4, <1>5 DEF IInv

\* Renewal and expiry of the lease touch nothing but live.
LEMMA LiveKeeps ==
  ASSUME IInv, live' \in BOOLEAN,
         UNCHANGED <<status, fingerprint, owner, token, processVars, effects>>
  PROVE  IInv'
BY DEF IInv, TypeOK, HoldsWhileWorking, TokensAreUnique, TokenExecutes,
       AbsentIsBlank, EffectMatchesReceipt, AnswersItsRequest, processVars

LEMMA AskAgainKeeps ==
  ASSUME IInv, NEW p \in Process, NEW f \in Fingerprint, AskAgain(p, f)
  PROVE  IInv'
<1> USE DEF rowVars, AskAgain
<1>1. TypeOK'
  BY DEF IInv, TypeOK
<1>2. HoldsWhileWorking' /\ TokensAreUnique' /\ TokenExecutes'
  BY DEF IInv, TypeOK, HoldsWhileWorking, TokensAreUnique, TokenExecutes
<1>3. AbsentIsBlank' /\ EffectMatchesReceipt'
  BY DEF IInv, AbsentIsBlank, EffectMatchesReceipt
<1>4. AnswersItsRequest'
  BY DEF IInv, TypeOK, AnswersItsRequest, Final
<1> QED BY <1>1, <1>2, <1>3, <1>4 DEF IInv

\* Every action keeps the invariant.
LEMMA StepKeeps == IInv /\ [Next]_vars => IInv'
<1> SUFFICES ASSUME IInv, [Next]_vars PROVE IInv'
  OBVIOUS
<1> USE MaxTokenAssumption
<1>t. TypeOK
  BY DEF IInv
<1>1. CASE LeaseExpires
  BY <1>1, LiveKeeps DEF LeaseExpires
<1>2. ASSUME NEW p \in Process, Insert(p) PROVE IInv'
  BY <1>2, AcquireKeeps DEF Insert
<1>3. ASSUME NEW p \in Process, Reclaim(p) PROVE IInv'
  <2>1. request[p] \in Fingerprint
    BY <1>t DEF TypeOK
  <2>2. /\ fingerprint = request[p]
        /\ status \in {"processing", "failed_retryable"}
    BY <1>3, <1>t, <2>1, ClassifyFacts DEF Reclaim
  <2> QED BY <1>3, <2>2, AcquireKeeps DEF Reclaim
<1>4. ASSUME NEW p \in Process, Replay(p) PROVE IInv'
  <2>1. request[p] \in Fingerprint
    BY <1>t DEF TypeOK
  <2>2. fingerprint = request[p] /\ status \in Final
    BY <1>4, <1>t, <2>1, ClassifyFacts DEF Replay
  <2> QED BY <1>4, <2>2, RespondKeeps DEF Replay
<1>5. ASSUME NEW p \in Process, Refuse(p) PROVE IInv'
  <2>1. Classify(request[p]) \in Refusal
    BY <1>5 DEF Refuse, Refusal
  <2> QED BY <1>5, <2>1, RespondKeeps DEF Refuse
<1>6. ASSUME NEW p \in Process, NEW s \in Final \cup {"failed_retryable"},
             Completed(p, s)
      PROVE  IInv'
  BY <1>6, CommitKeeps DEF Completed
<1>7. ASSUME NEW p \in Process, LeaseLost(p) PROVE IInv'
  <2>1. "lease_lost" \in Refusal
    BY DEF Refusal
  <2> QED BY <1>7, <2>1, RespondKeeps DEF LeaseLost
<1>8. ASSUME NEW p \in Process, CommitUnknown(p) PROVE IInv'
  BY <1>8, CommitKeeps, StartOverKeeps DEF CommitUnknown
<1>9. ASSUME NEW p \in Process, Crash(p) PROVE IInv'
  BY <1>9, StartOverKeeps DEF Crash
<1>10. ASSUME NEW p \in Process, Heartbeat(p) PROVE IInv'
  BY <1>10, LiveKeeps DEF Heartbeat
<1>11. ASSUME NEW p \in Process, NEW f \in Fingerprint, AskAgain(p, f)
       PROVE  IInv'
  BY <1>11, AskAgainKeeps
<1>12. CASE UNCHANGED vars
  BY <1>12, <1>t, LiveKeeps DEF vars, rowVars, TypeOK
<1> QED
  BY <1>1, <1>2, <1>3, <1>4, <1>5, <1>6, <1>7, <1>8, <1>9, <1>10, <1>11, <1>12
     DEF Next, Exhausted

LEMMA IInvHolds == Spec => []IInv
BY InitHolds, StepKeeps, PTL DEF Spec
-----------------------------------------------------------------------------
\* Every variable keeps its type: no token is beyond the bound and no caller is
\* answered with a status that is not final.
THEOREM TypeCorrect == Spec => []TypeOK
<1>1. IInv => TypeOK
  BY DEF IInv
<1> QED BY <1>1, IInvHolds, PTL

\* The effect happens once if the receipt succeeded and never otherwise,
\* through crashes, expired leases and commits with an unknown outcome.
THEOREM EffectHappensOnce == Spec => []EffectMatchesReceipt
<1>1. IInv => EffectMatchesReceipt
  BY DEF IInv
<1> QED BY <1>1, IInvHolds, PTL

\* Whoever may still complete the receipt executes the request it is about.
THEOREM FencedExecution == Spec => []ExecutesItsRequest
<1>1. IInv => ExecutesItsRequest
  BY DEF IInv, ExecutesItsRequest, TokenExecutes, Matches
<1> QED BY <1>1, IInvHolds, PTL

\* A final answer is the receipt's, and for the request it is about.
THEOREM AnswersAreRight == Spec => []AnswersItsRequest
<1>1. IInv => AnswersItsRequest
  BY DEF IInv
<1> QED BY <1>1, IInvHolds, PTL
-----------------------------------------------------------------------------
(* Refinement: the bars are the values of OnceOnly's variables.            *)

outcomeBar == IF status \in Final THEN status ELSE "none"
effectBar  == effects > 0
answerBar  == [p \in Process |-> IF answer[p] \in Final THEN answer[p]
                                 ELSE "none"]
barVars == <<fingerprint, outcomeBar, effectBar, answerBar>>

LEMMA InitRefines == Init => Promise!Init
BY DEF Init, Promise!Init, Final

\* A response changes the answer of its process, to what it says if that is
\* final.
LEMMA RespondBar ==
  ASSUME IInv, NEW p \in Process, NEW a, Respond(p, a)
  PROVE  answerBar' = [answerBar EXCEPT ![p] = IF a \in Final THEN a ELSE "none"]
BY DEF IInv, TypeOK, Respond, answerBar, Final

LEMMA StartOverBar ==
  ASSUME IInv, NEW p \in Process, pc[p] = "working", StartOver(p)
  PROVE  answerBar' = answerBar
BY DEF IInv, TypeOK, HoldsWhileWorking, StartOver, answerBar, Final

\* A commit resolves the promise, or fails in a way that may be tried again.
LEMMA CommitBar ==
  ASSUME IInv, NEW p \in Process, NEW s, Commit(p, s)
  PROVE  /\ fingerprint # NoFingerprint /\ fingerprint' = fingerprint
         /\ outcomeBar = "none"
         /\ s \in Final => outcomeBar' = s /\ effectBar' = (s = "succeeded")
         /\ s = "failed_retryable" =>
              outcomeBar' = outcomeBar /\ effectBar' = effectBar
<1>0. status = "processing" /\ effects = 0 /\ fingerprint # NoFingerprint
  BY CommitFacts
<1> QED BY <1>0 DEF Commit, outcomeBar, effectBar, Final

LEMMA StepRefines ==
  ASSUME IInv, IInv', [Next]_vars
  PROVE  [Promise!Next]_barVars
<1>1. ASSUME UNCHANGED <<status, fingerprint, effects, answer>>
      PROVE  UNCHANGED barVars
  BY <1>1 DEF barVars, outcomeBar, effectBar, answerBar
<1>2. ASSUME NEW p \in Process, NEW a, a \notin Final, Respond(p, a),
             UNCHANGED <<status, fingerprint, effects>>
      PROVE  Promise!Forget(p)
  <2>1. answerBar' = [answerBar EXCEPT ![p] = "none"]
    BY <1>2, RespondBar
  <2> QED BY <2>1, <1>2 DEF Promise!Forget, answerBar, Final
<1>3. ASSUME NEW p \in Process, NEW s \in Final, Commit(p, s),
             \/ answerBar' = answerBar
             \/ answerBar' = [answerBar EXCEPT ![p] = s]
      PROVE  Promise!Resolve(s)
  BY <1>3, CommitBar DEF Promise!Resolve, outcomeBar, effectBar, answerBar, Final
<1>4. ASSUME NEW p \in Process, Replay(p) PROVE Promise!Answer(p)
  <2>1. request[p] \in Fingerprint /\ TypeOK
    BY DEF IInv, TypeOK
  <2>2. status \in Final
    BY <1>4, <2>1, ClassifyFacts DEF Replay
  <2>3. answerBar' = [answerBar EXCEPT ![p] = status]
    BY <1>4, <2>2, RespondBar DEF Replay
  <2> QED BY <1>4, <2>2, <2>3
          DEF Replay, rowVars, Promise!Answer, answerBar, Final
<1>5. CASE LeaseExpires
  BY <1>5, <1>1 DEF LeaseExpires, processVars
<1>6. ASSUME NEW p \in Process, Insert(p) PROVE Promise!Accept
  <2>1. request[p] \in Fingerprint /\ fingerprint = NoFingerprint
    BY <1>6 DEF Insert, IInv, TypeOK, AbsentIsBlank
  <2>2. outcomeBar' = outcomeBar /\ effectBar' = effectBar
        /\ answerBar' = answerBar
    BY <1>6 DEF Insert, Acquire, outcomeBar, effectBar, answerBar, Final
  <2> QED BY <1>6, <2>1, <2>2
          DEF Insert, Promise!Accept, outcomeBar, effectBar, answerBar
<1>7. ASSUME NEW p \in Process, Reclaim(p) PROVE UNCHANGED barVars
  <2>1. request[p] \in Fingerprint /\ TypeOK
    BY DEF IInv, TypeOK
  <2>2. status \in {"processing", "failed_retryable"}
    BY <1>7, <2>1, ClassifyFacts DEF Reclaim
  <2> QED BY <1>7, <2>2
          DEF Reclaim, Acquire, barVars, outcomeBar, effectBar, answerBar, Final
<1>8. ASSUME NEW p \in Process, Refuse(p) PROVE Promise!Forget(p)
  BY <1>8, <1>2 DEF Refuse, rowVars, Final
<1>9. ASSUME NEW p \in Process, NEW s \in Final \cup {"failed_retryable"},
             Completed(p, s)
      PROVE  Promise!Forget(p) \/ \E o \in Final : Promise!Resolve(o)
  <2>1. CASE s \in Final
    <3>1. answerBar' = [answerBar EXCEPT ![p] = s]
      BY <1>9, <2>1, RespondBar DEF Completed
    <3> QED BY <1>9, <2>1, <3>1, <1>3 DEF Completed
  <2>2. CASE s = "failed_retryable"
    <3>1. answerBar' = [answerBar EXCEPT ![p] = "none"]
      BY <1>9, <2>2, RespondBar DEF Completed, Final
    <3> QED BY <1>9, <2>2, <3>1, CommitBar
            DEF Completed, Promise!Forget, outcomeBar, effectBar, answerBar
  <2> QED BY <2>1, <2>2
<1>10. ASSUME NEW p \in Process, LeaseLost(p) PROVE Promise!Forget(p)
  BY <1>10, <1>2 DEF LeaseLost, rowVars, Final
<1>11. ASSUME NEW p \in Process, CommitUnknown(p)
       PROVE  UNCHANGED barVars \/ \E o \in Final : Promise!Resolve(o)
  <2>1. answerBar' = answerBar
    BY <1>11, StartOverBar DEF CommitUnknown
  <2>2. CASE UNCHANGED <<rowVars, effects>>
    BY <2>1, <2>2 DEF rowVars, barVars, outcomeBar, effectBar
  <2>3. CASE \E s \in Final : Commit(p, s)
    BY <2>1, <2>3, <1>3
  <2> QED BY <1>11, <2>2, <2>3 DEF CommitUnknown
<1>12. ASSUME NEW p \in Process, Crash(p) PROVE UNCHANGED barVars
  <2>1. answerBar' = answerBar
    BY <1>12, StartOverBar DEF Crash
  <2> QED BY <1>12, <2>1 DEF Crash, rowVars, barVars, outcomeBar, effectBar
<1>13. ASSUME NEW p \in Process, Heartbeat(p) PROVE UNCHANGED barVars
  BY <1>13, <1>1 DEF Heartbeat, processVars
<1>14. ASSUME NEW p \in Process, NEW f \in Fingerprint, AskAgain(p, f)
       PROVE  Promise!Forget(p)
  <2>1. answerBar' = [answerBar EXCEPT ![p] = "none"]
    BY <1>14 DEF AskAgain, IInv, TypeOK, answerBar, Final
  <2> QED BY <1>14, <2>1
          DEF AskAgain, rowVars, Promise!Forget, answerBar, Final
<1>15. CASE UNCHANGED vars
  BY <1>15, <1>1 DEF vars, rowVars, processVars
<1> QED
  BY <1>4, <1>5, <1>6, <1>7, <1>8, <1>9, <1>10, <1>11, <1>12, <1>13, <1>14, <1>15
     DEF Next, Exhausted, Promise!Next, Promise!Final, Final

\* The receipt keeps its promise: whatever crashes, expires or is asked again,
\* a key stands for one request with one outcome, one effect and one answer.
THEOREM ReceiptKeepsPromise == Spec => KeepsPromise
<1>1. IInv /\ IInv' /\ [Next]_vars => [Promise!Next]_barVars
  BY StepRefines
<1> QED BY <1>1, InitRefines, IInvHolds, PTL
        DEF Spec, KeepsPromise, Promise!Spec, barVars, outcomeBar, effectBar,
            answerBar
=============================================================================
