------------------------ MODULE ProcessControls_proofs ------------------------
(***************************************************************************)
(* Safety of ClaimController for any finite set of workers and any set of  *)
(* waiters, and of HealthRegistry for any evaluations and checks.          *)
(***************************************************************************)
EXTENDS ClaimController, HealthRegistry, FiniteSetTheorems, TLAPS

\* Channels are closed only after they were made, so a new one is open.
ClosedWereMade == \A i \in closed : i <= idle

\* While claims are refused no channel is made, so a waiter that read the
\* channel since then still waits on the current one; and a waiter answers
\* true only for a closed channel.
WaitersAreCurrent ==
  \A v \in Waiter :
    /\ refusing[v] => state # "running" /\ waitsOn[v] = idle
    /\ waiter[v] = "idle" => waitsOn[v] \in closed

IInv ==
  TypeOK /\ IdleChannelTracksClaims /\ ClosedWereMade /\ WaitersAreCurrent
-----------------------------------------------------------------------------
\* Only finitely many claims run, and none exactly when their count is zero.
LEMMA RunningFinite ==
  ASSUME TypeOK
  PROVE  /\ IsFiniteSet(running)
         /\ Cardinality(running) \in Nat
         /\ Cardinality(running) = 0 <=> running = {}
<1>1. IsFiniteSet(running)
  BY WorkerAssumption, FS_Subset DEF TypeOK
<1> QED
  BY <1>1, FS_CardinalityType, FS_EmptySet

\* TryBegin adds one claim to the count, End removes one.
LEMMA BeginAndEndCount ==
  ASSUME TypeOK, NEW w \in Worker
  PROVE  /\ w \notin running =>
              Cardinality(running \cup {w}) = Cardinality(running) + 1
         /\ w \in running =>
              /\ Cardinality(running \ {w}) = Cardinality(running) - 1
              /\ Cardinality(running) >= 1
<1>1. IsFiniteSet(running) /\ Cardinality(running) \in Nat
  BY RunningFinite
<1>2. w \notin running => Cardinality(running \cup {w}) = Cardinality(running) + 1
  BY <1>1, FS_AddElement
<1>3. w \in running => Cardinality(running \ {w}) = Cardinality(running) - 1
  BY <1>1, FS_RemoveElement
<1>4. w \in running => Cardinality(running) # 0
  BY RunningFinite
<1> QED
  BY <1>1, <1>2, <1>3, <1>4

\* The controller starts idle on a closed channel.
LEMMA InitIInv == Init => IInv
<1> SUFFICES ASSUME Init PROVE IInv
  OBVIOUS
<1> USE MaxChansAssumption DEF Init
<1>1. TypeOK
  BY DEF TypeOK
<1>2. IdleChannelTracksClaims
  BY FS_EmptySet DEF IdleChannelTracksClaims
<1>3. ClosedWereMade /\ WaitersAreCurrent
  BY DEF ClosedWereMade, WaitersAreCurrent
<1> QED BY <1>1, <1>2, <1>3 DEF IInv

\* A change of the state alone preserves the invariant: a change to running
\* ends the history of every waiter.
LEMMA BecomeIInv ==
  ASSUME IInv,
         NEW s \in {"running", "paused", "draining", "stopped"}, Become(s)
  PROVE  IInv'
<1> USE DEF Become, claimVars, waitVars
<1>1. TypeOK'
  BY DEF IInv, TypeOK
<1>2. IdleChannelTracksClaims' /\ ClosedWereMade'
  BY DEF IInv, IdleChannelTracksClaims, ClosedWereMade
<1>3. WaitersAreCurrent'
  BY DEF IInv, WaitersAreCurrent
<1> QED BY <1>1, <1>2, <1>3 DEF IInv

\* Each step preserves the invariant.
LEMMA NextIInv == IInv /\ [Next]_vars => IInv'
<1> SUFFICES ASSUME IInv, [Next]_vars PROVE IInv'
  OBVIOUS
<1> USE MaxChansAssumption
<1>0. TypeOK /\ IdleChannelTracksClaims /\ ClosedWereMade /\ WaitersAreCurrent
  BY DEF IInv
<1>1. CASE Pause \/ Resume \/ Undrain \/ Drain \/ Stop
  BY <1>1, BecomeIInv DEF Pause, Resume, Undrain, Drain, Stop, Transition
<1>2. ASSUME NEW w \in Worker, TryBegin(w) PROVE IInv'
  <2> USE <1>2 DEF TryBegin, AcceptsClaims, waitVars
  <2>1. TypeOK'
    BY <1>0 DEF TypeOK
  <2>2. IdleChannelTracksClaims'
    <3>1. inFlight' = Cardinality(running')
      BY <1>0, BeginAndEndCount DEF IdleChannelTracksClaims
    <3>2. idle' \notin closed
      BY <1>0 DEF TypeOK, IdleChannelTracksClaims, ClosedWereMade
    <3>3. inFlight' # 0
      BY <1>0 DEF TypeOK
    <3> QED BY <3>1, <3>2, <3>3 DEF IdleChannelTracksClaims
  <2>3. ClosedWereMade'
    BY <1>0 DEF TypeOK, ClosedWereMade
  <2>4. WaitersAreCurrent'
    BY <1>0 DEF WaitersAreCurrent
  <2> QED BY <2>1, <2>2, <2>3, <2>4 DEF IInv
<1>3. ASSUME NEW w \in Worker, End(w) PROVE IInv'
  <2> USE <1>3 DEF End, waitVars
  <2>1. TypeOK'
    BY <1>0 DEF TypeOK
  <2>2. IdleChannelTracksClaims'
    <3>1. inFlight' = Cardinality(running')
      BY <1>0, BeginAndEndCount DEF IdleChannelTracksClaims
    <3>2. inFlight >= 1
      BY <1>0, BeginAndEndCount DEF IdleChannelTracksClaims
    <3>3. idle \notin closed
      BY <1>0, <3>2 DEF TypeOK, IdleChannelTracksClaims
    <3>4. inFlight' = 0 <=> inFlight = 1
      BY <1>0, <3>2 DEF TypeOK
    <3> QED BY <3>1, <3>3, <3>4 DEF IdleChannelTracksClaims
  <2>3. ClosedWereMade'
    BY <1>0 DEF TypeOK, ClosedWereMade
  <2>4. WaitersAreCurrent'
    BY <1>0 DEF WaitersAreCurrent
  <2> QED BY <2>1, <2>2, <2>3, <2>4 DEF IInv
<1>4. ASSUME NEW v \in Waiter, ReadIdle(v) PROVE IInv'
  <2> USE <1>4 DEF ReadIdle, claimVars
  <2>1. TypeOK'
    BY <1>0 DEF TypeOK
  <2>2. IdleChannelTracksClaims' /\ ClosedWereMade'
    BY <1>0 DEF IdleChannelTracksClaims, ClosedWereMade
  <2>3. WaitersAreCurrent'
    BY <1>0 DEF WaitersAreCurrent, TypeOK
  <2> QED BY <2>1, <2>2, <2>3 DEF IInv
<1>5. ASSUME NEW v \in Waiter, IdleSeen(v) \/ TimedOut(v) PROVE IInv'
  <2> USE <1>5 DEF IdleSeen, TimedOut, claimVars
  <2>1. TypeOK'
    BY <1>0 DEF TypeOK
  <2>2. IdleChannelTracksClaims' /\ ClosedWereMade'
    BY <1>0 DEF IdleChannelTracksClaims, ClosedWereMade
  <2>3. WaitersAreCurrent'
    BY <1>0 DEF WaitersAreCurrent, TypeOK
  <2> QED BY <2>1, <2>2, <2>3 DEF IInv
<1>6. CASE UNCHANGED vars
  BY <1>0, <1>6 DEF vars, claimVars, waitVars, IInv, TypeOK,
     IdleChannelTracksClaims, ClosedWereMade, WaitersAreCurrent
<1> QED
  BY <1>1, <1>2, <1>3, <1>4, <1>5, <1>6 DEF Next
-----------------------------------------------------------------------------
(* The theorems.                                                           *)

\* The invariant holds in every reachable state.
THEOREM Invariance == Spec => []IInv
  BY InitIInv, NextIInv, PTL DEF Spec

\* The variables of the controller keep their types.
THEOREM TypeCorrect == Spec => []TypeOK
<1>1. IInv => TypeOK
  BY DEF IInv
<1> QED BY <1>1, Invariance, PTL

\* The current idle channel is closed exactly when no claim is in flight, so
\* End never closes a closed channel (controller.go, TryBegin and End).
THEOREM IdleChannelIsExact == Spec => []IdleChannelTracksClaims
<1>1. IInv => IdleChannelTracksClaims
  BY DEF IInv
<1> QED BY <1>1, Invariance, PTL

\* A WaitIdle that returned true during a drain is right.
THEOREM WaitIdleSound == Spec => []WaitIdleIsSound
<1>1. IInv => WaitIdleIsSound
  BY RunningFinite
  DEF IInv, WaitIdleIsSound, WaitersAreCurrent, IdleChannelTracksClaims
<1> QED BY <1>1, Invariance, PTL

\* No transition leaves stopped, and no claim starts after it.
THEOREM StopFinal == Spec => StopIsFinal
<1>1. [Next]_vars =>
        [state = "stopped" => state' = "stopped" /\ running' \subseteq running]_vars
  BY DEF Next, Pause, Resume, Undrain, Drain, Stop, Transition, Become, TryBegin,
     AcceptsClaims, End, ReadIdle, IdleSeen, TimedOut, vars, claimVars, waitVars
<1> QED BY <1>1, PTL DEF Spec, StopIsFinal
-----------------------------------------------------------------------------
(* The health registry.                                                    *)

\* A check that was not started has no goroutine, and only a goroutine that
\* is gone left a value in its channel.
ChannelsAreFresh ==
  \A e \in Evaluation, c \in Check :
    /\ c \in todo[e] => run[e][c] = "none"
    /\ done[e][c] # "empty" => run[e][c] = "gone"

\* The goroutine of a check finds room in its channel whenever it sends, also
\* when the evaluation has stopped waiting: the buffer of one is enough.
LateSendHasRoom ==
  \A e \in Evaluation, c \in Check :
    run[e][c] = "sending" => done[e][c] = "empty"

HealthInv == HealthTypeOK /\ HistoryIsRetained /\ ChannelsAreFresh

\* The registry starts without history, goroutines and results.
LEMMA HealthInitInv == HealthInit => HealthInv
<1> SUFFICES ASSUME HealthInit PROVE HealthInv
  OBVIOUS
<1> USE DEF HealthInit
<1>1. HealthTypeOK
  BY DEF HealthTypeOK, Time, Result
<1>2. HistoryIsRetained
  BY DEF HistoryIsRetained
<1>3. ChannelsAreFresh
  BY DEF ChannelsAreFresh
<1> QED BY <1>1, <1>2, <1>3 DEF HealthInv

\* The history after a result is typed, replaces only the half the result is
\* about, and names the evaluation that had it.
LEMMA HistoryFacts ==
  ASSUME NEW e \in Evaluation, NEW ok \in BOOLEAN,
         NEW previous \in [success : Time, error : Time,
                           code : {"none", "timeout", "check_failed"}]
  PROVE  /\ History(previous, e, ok) \in
              [success : Time, error : Time,
               code : {"none", "timeout", "check_failed"}]
         /\ History(previous, e, ok).success = IF ok THEN e ELSE previous.success
         /\ History(previous, e, ok).error = IF ok THEN previous.error ELSE e
<1>1. CASE ok
  BY <1>1 DEF History, Time
<1>2. CASE ~ok
  BY <1>2 DEF History, Time
<1> QED BY <1>1, <1>2

\* Recording a result adds it to the history and keeps the rest.
LEMMA RecordKeeps ==
  ASSUME HealthInv, NEW e \in Evaluation, Record(e)
  PROVE  HealthInv'
<1> DEFINE c  == check[e]
           ok == err[e] = "nil"
<1>0. HealthTypeOK /\ HistoryIsRetained /\ ChannelsAreFresh
  BY DEF HealthInv
<1>1. c \in Check /\ ok \in BOOLEAN /\ states[c] \in
        [success : Time, error : Time, code : {"none", "timeout", "check_failed"}]
  BY <1>0 DEF Record, HealthTypeOK
<1>2. /\ states' = [states EXCEPT ![c] = History(states[c], e, ok)]
      /\ succeeded' = [succeeded EXCEPT ![c] =
                         IF ok THEN succeeded[c] \cup {e} ELSE succeeded[c]]
      /\ failed' = [failed EXCEPT ![c] =
                      IF ok THEN failed[c] ELSE failed[c] \cup {e}]
  BY DEF Record
<1> HIDE DEF c, ok
<1>3. HealthTypeOK'
  <2>1. states' \in [Check -> [success : Time, error : Time,
                               code : {"none", "timeout", "check_failed"}]]
    BY <1>0, <1>1, <1>2, HistoryFacts DEF HealthTypeOK
  <2>2. succeeded' \in [Check -> SUBSET Evaluation]
        /\ failed' \in [Check -> SUBSET Evaluation]
    BY <1>0, <1>1, <1>2 DEF HealthTypeOK
  <2>3. status' \in [Evaluation -> {"ok", "degraded", "unavailable", "none"}]
    BY <1>0 DEF Record, Worse, HealthTypeOK
  <2>4. /\ check' \in [Evaluation -> Check \cup {NoCheck}]
        /\ err' \in [Evaluation -> Result \cup {"waiting"}]
        /\ expired' \in [Evaluation -> BOOLEAN]
    BY <1>0 DEF Record, HealthTypeOK
  <2> QED
    BY <1>0, <2>1, <2>2, <2>3, <2>4 DEF Record, HealthTypeOK
<1>4. HistoryIsRetained'
  <2> SUFFICES ASSUME NEW d \in Check
               PROVE  /\ states'[d].success \in
                           IF succeeded'[d] = {} THEN {Never} ELSE succeeded'[d]
                      /\ states'[d].error \in
                           IF failed'[d] = {} THEN {Never} ELSE failed'[d]
    BY DEF HistoryIsRetained
  <2>1. /\ states[d].success \in
             IF succeeded[d] = {} THEN {Never} ELSE succeeded[d]
        /\ states[d].error \in
             IF failed[d] = {} THEN {Never} ELSE failed[d]
    BY <1>0 DEF HistoryIsRetained
  <2>2. CASE d # c
    BY <1>0, <1>1, <1>2, <2>1, <2>2 DEF HealthTypeOK
  <2>3. CASE d = c
    <3>1. /\ states'[d].success = IF ok THEN e ELSE states[d].success
          /\ states'[d].error = IF ok THEN states[d].error ELSE e
      <4>1. states'[d] = History(states[d], e, ok)
        BY <1>0, <1>1, <1>2, <2>3 DEF HealthTypeOK
      <4> QED BY <1>1, <2>3, <4>1, HistoryFacts
    <3>2. CASE ok
      <4>1. succeeded'[d] = succeeded[d] \cup {e} /\ failed'[d] = failed[d]
        BY <1>0, <1>1, <1>2, <2>3, <3>2 DEF HealthTypeOK
      <4>2. states'[d].success = e /\ states'[d].error = states[d].error
        BY <3>1, <3>2
      <4> QED BY <2>1, <4>1, <4>2
    <3>3. CASE ~ok
      <4>1. failed'[d] = failed[d] \cup {e} /\ succeeded'[d] = succeeded[d]
        BY <1>0, <1>1, <1>2, <2>3, <3>3 DEF HealthTypeOK
      <4>2. states'[d].error = e /\ states'[d].success = states[d].success
        BY <3>1, <3>3
      <4> QED BY <2>1, <4>1, <4>2
    <3> QED BY <3>2, <3>3
  <2> QED BY <2>2, <2>3
<1>5. ChannelsAreFresh'
  BY <1>0 DEF Record, ChannelsAreFresh
<1> QED BY <1>3, <1>4, <1>5 DEF HealthInv

\* Every other step leaves the history alone.
LEMMA HealthNextInv == HealthInv /\ [HealthNext]_healthVars => HealthInv'
<1> SUFFICES ASSUME HealthInv, [HealthNext]_healthVars PROVE HealthInv'
  OBVIOUS
<1>0. HealthTypeOK /\ HistoryIsRetained /\ ChannelsAreFresh
  BY DEF HealthInv
<1>1. ASSUME UNCHANGED <<states, succeeded, failed>> PROVE HistoryIsRetained'
  BY <1>0, <1>1 DEF HistoryIsRetained
<1> USE DEF HealthInv
<1>2. ASSUME NEW e \in Evaluation, StartEvaluation(e) \/ Expire(e) PROVE HealthInv'
  <2> USE <1>2 DEF StartEvaluation, Expire
  <2>1. HealthTypeOK'
    <3>1. CASE StartEvaluation(e)
      BY <1>0, <3>1 DEF HealthTypeOK
    <3>2. CASE Expire(e)
      BY <1>0, <3>2 DEF HealthTypeOK
    <3> QED BY <3>1, <3>2
  <2>2. ChannelsAreFresh'
    BY <1>0 DEF ChannelsAreFresh
  <2> QED BY <1>1, <2>1, <2>2
<1>3. ASSUME NEW e \in Evaluation, NEW c \in Check, StartCheck(e, c) PROVE HealthInv'
  <2> USE <1>3 DEF StartCheck
  <2>1. HealthTypeOK'
    BY <1>0 DEF HealthTypeOK
  <2>2. ChannelsAreFresh'
    BY <1>0 DEF ChannelsAreFresh, HealthTypeOK
  <2> QED BY <1>1, <2>1, <2>2
<1>4. ASSUME NEW e \in Evaluation, NEW c \in Check, RunReturns(e, c) PROVE HealthInv'
  <2> USE <1>4 DEF RunReturns, localVars
  <2>1. HealthTypeOK'
    BY <1>0 DEF HealthTypeOK
  <2>2. ChannelsAreFresh'
    BY <1>0 DEF ChannelsAreFresh, HealthTypeOK
  <2> QED BY <1>1, <2>1, <2>2
<1>5. ASSUME NEW e \in Evaluation, NEW c \in Check, NEW r \in Result, Send(e, c, r)
      PROVE  HealthInv'
  <2> USE <1>5 DEF Send, localVars
  <2>1. HealthTypeOK'
    BY <1>0 DEF HealthTypeOK
  <2>2. ChannelsAreFresh'
    BY <1>0 DEF ChannelsAreFresh, HealthTypeOK
  <2> QED BY <1>1, <2>1, <2>2
<1>6. ASSUME NEW e \in Evaluation, Receive(e) PROVE HealthInv'
  <2> USE <1>6 DEF Receive
  <2>1. check[e] \in Check
    BY <1>0 DEF HealthTypeOK
  <2>2. HealthTypeOK'
    BY <1>0, <2>1 DEF HealthTypeOK
  <2>3. ChannelsAreFresh'
    BY <1>0, <2>1 DEF ChannelsAreFresh, HealthTypeOK
  <2> QED BY <1>1, <2>2, <2>3
<1>7. ASSUME NEW e \in Evaluation, CheckTimedOut(e) PROVE HealthInv'
  <2> USE <1>7 DEF CheckTimedOut
  <2>1. HealthTypeOK'
    BY <1>0 DEF HealthTypeOK, Result
  <2>2. ChannelsAreFresh'
    BY <1>0 DEF ChannelsAreFresh
  <2> QED BY <1>1, <2>1, <2>2
<1>8. CASE UNCHANGED healthVars
  <2> USE <1>8 DEF healthVars, localVars
  <2>1. HealthTypeOK'
    BY <1>0 DEF HealthTypeOK
  <2>2. ChannelsAreFresh'
    BY <1>0 DEF ChannelsAreFresh
  <2> QED BY <1>1, <2>1, <2>2
<1> QED
  BY <1>2, <1>3, <1>4, <1>5, <1>6, <1>7, <1>8, RecordKeeps
  DEF HealthNext, Evaluate, Sends, AllReturned

\* The invariant of the registry holds in every reachable state.
THEOREM HealthInvariance == HealthSpec => []HealthInv
  BY HealthInitInv, HealthNextInv, PTL DEF HealthSpec

\* Concurrent evaluations never erase each other's record: a check that ever
\* succeeded or failed keeps the time of one of these results
\* (health.go, evaluate).
THEOREM HistorySurvives == HealthSpec => []HistoryIsRetained
<1>1. HealthInv => HistoryIsRetained
  BY DEF HealthInv
<1> QED BY <1>1, HealthInvariance, PTL

\* No goroutine of a check ever waits to send its result: the safety half of
\* LateRunsEnd (health.go, the channel with a buffer of one).
THEOREM LateSendsNeverBlock == HealthSpec => []LateSendHasRoom
<1>1. HealthInv => LateSendHasRoom
  BY DEF HealthInv, ChannelsAreFresh, LateSendHasRoom
<1> QED BY <1>1, HealthInvariance, PTL
=============================================================================
