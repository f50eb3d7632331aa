---------------------------- MODULE UserStreamProofs ----------------------------
(* What UserStream promises, proved for every choice of the timeouts, as long as  *)
(* the two waits of a session together are shorter than the freshness window.     *)
EXTENDS UserStream, TLAPS

USE StreamAssumption

LEMMA OlderType ==
    ASSUME NEW age \in 0..FreshFor
    PROVE  Older(age) \in 0..FreshFor /\ Older(age) <= age + 1
BY DEF Older

\* Ages grow together: a silence that is no older than the last sign of life stays so.
LEMMA OlderMonotone ==
    ASSUME NEW a \in 0..FreshFor, NEW b \in 0..FreshFor, a <= b
    PROVE  Older(a) <= Older(b)
BY DEF Older

\* A publication: the record is new, and the wire was up.
LEMMA PublishPreserves ==
    ASSUME StreamInv, PublishVerified("listening"), wire
    PROVE  StreamInv'
BY DEF StreamInv, StreamTypeOK, SilenceIsYounger, SessionAge, PublishVerified, StreamFault, InSession

LEMMA TimePreserves ==
    ASSUME StreamInv, TimePasses
    PROVE  StreamInv'
<1>0. PICK ok \in BOOLEAN, age \in 0..FreshFor : health = [ok |-> ok, age |-> age]
  BY DEF StreamInv, StreamTypeOK
<1>1. health' = [ok |-> ok, age |-> Older(age)] /\ health.age = age /\ health.ok = ok
  BY <1>0 DEF TimePasses
<1>2. Older(age) \in 0..FreshFor /\ Older(age) <= age + 1
  BY OlderType
<1>3. silent' \in 0..FreshFor /\ (wire' => silent' = 0)
  BY OlderType DEF TimePasses, StreamInv, StreamTypeOK
<1>4. StreamTypeOK'
  BY <1>1, <1>2, <1>3 DEF TimePasses, StreamInv, StreamTypeOK, InSession
<1>5. SilenceIsYounger'
  <2>1. CASE wire
    BY <2>1, <1>1, <1>2 DEF TimePasses, SilenceIsYounger
  <2>2. CASE ~wire
    <3>1. silent \in 0..FreshFor /\ silent <= age
      BY <1>1 DEF StreamInv, StreamTypeOK, SilenceIsYounger
    <3>2. Older(silent) <= Older(age)
      BY <3>1, OlderMonotone
    <3> QED
      BY <2>2, <3>2, <1>1 DEF TimePasses, SilenceIsYounger
  <2> QED BY <2>1, <2>2
<1>6. SessionAge'
  BY <1>1, <1>2 DEF TimePasses, StreamInv, StreamTypeOK, SessionAge, InSession
<1> QED
  BY <1>4, <1>5, <1>6 DEF StreamInv

\* Everything but the clock and the publications leaves the ages alone.
LEMMA StepPreserves ==
    ASSUME StreamInv,
           \/ RecvTimesOut \/ TimesOut \/ Supervise \/ Reconnect \/ Cancelled \/ Start
           \/ SessionEnds \/ Stop \/ Restart \/ ResumeOrStop \/ Silence \/ Answer
           \/ UNCHANGED svars
    PROVE  StreamInv'
<1> USE DEF StreamInv, StreamTypeOK, SilenceIsYounger, SessionAge, InSession, StreamFault
<1>1. CASE RecvTimesOut BY <1>1 DEF RecvTimesOut
<1>2. CASE TimesOut BY <1>2 DEF TimesOut
<1>3. CASE Supervise BY <1>3 DEF Supervise
<1>4. CASE Reconnect BY <1>4 DEF Reconnect
<1>5. CASE Cancelled BY <1>5 DEF Cancelled
<1>6. CASE Start BY <1>6 DEF Start
<1>7. CASE SessionEnds BY <1>7 DEF SessionEnds
<1>8. CASE Stop BY <1>8 DEF Stop
<1>9. CASE Restart BY <1>9 DEF Restart
<1>10. CASE ResumeOrStop BY <1>10 DEF ResumeOrStop, HealthIsFresh
<1>11. CASE Silence
  <2>1. sfaults' \in 0..MaxStreamFaults
    BY <1>11 DEF Silence
  <2>2. wire' = FALSE /\ UNCHANGED <<stream, timer, health, owner, silent>>
    BY <1>11 DEF Silence
  <2>3. silent' \in 0..FreshFor /\ (wire' => silent' = 0) /\ wire' \in BOOLEAN
    BY <2>2
  <2> QED BY <2>1, <2>2, <2>3
<1>12. CASE Answer BY <1>12 DEF Answer
<1>13. CASE UNCHANGED svars BY <1>13 DEF svars
<1> QED
  BY <1>1, <1>2, <1>3, <1>4, <1>5, <1>6, <1>7, <1>8, <1>9, <1>10, <1>11, <1>12, <1>13

LEMMA StreamInvInit == StreamInit => StreamInv
BY DEF StreamInit, StreamInv, StreamTypeOK, SilenceIsYounger, SessionAge, InSession

LEMMA StreamInvNext == StreamInv /\ [StreamNext]_svars => StreamInv'
<1> SUFFICES ASSUME StreamInv, [StreamNext]_svars PROVE StreamInv'
  OBVIOUS
<1>1. CASE Subscribe \/ ReceiveEvent \/ Pong
  BY <1>1, PublishPreserves DEF Subscribe, ReceiveEvent, Pong
<1>2. CASE TimePasses
  BY <1>2, TimePreserves
<1>3. CASE \/ RecvTimesOut \/ TimesOut \/ Supervise \/ Reconnect \/ Cancelled \/ Start
           \/ SessionEnds \/ Stop \/ Restart \/ ResumeOrStop \/ Silence \/ Answer
           \/ UNCHANGED svars
  BY <1>3, StepPreserves
<1> QED
  BY <1>1, <1>2, <1>3 DEF StreamNext, ThreadStep

LEMMA StreamInvariance == StreamSpec => []StreamInv
BY StreamInvInit, StreamInvNext, PTL DEF StreamSpec

\* user_stream.py: the thread's waits never outlast their timeouts and the record
\* keeps its shape, for any timeouts and any number of faults.
THEOREM StreamTypeCorrect == StreamSpec => []StreamTypeOK
<1>1. StreamInv => StreamTypeOK
  BY DEF StreamInv
<1> QED
  BY <1>1, StreamInvariance, PTL

\* health_is_fresh: whoever finds the record fresh is less than the freshness
\* window away from a moment at which the exchange answered.
THEOREM StreamFreshMeansAlive == StreamSpec => []FreshMeansAlive
<1>1. StreamInv => FreshMeansAlive
  BY DEF StreamInv, StreamTypeOK, SilenceIsYounger, FreshMeansAlive, HealthIsFresh
<1> QED
  BY <1>1, StreamInvariance, PTL

\* _session and _supervise: a quiet session stays fresh because its two waits fit
\* into the freshness window, and a thread that is over leaves no fresh record.
THEOREM StreamSessionFresh == StreamSpec => []SessionStaysFresh
<1>1. StreamInv => SessionStaysFresh
  BY DEF StreamInv, StreamTypeOK, SessionAge, SessionStaysFresh, HealthIsFresh, InSession
<1> QED
  BY <1>1, StreamInvariance, PTL
================================================================================
