-------------------------- MODULE OwnerReadinessProofs --------------------------
(* What OwnerReadiness promises, proved for any set of pairs, any periods and any *)
(* longest scan.                                                                  *)
EXTENDS OwnerReadiness, TLAPS

USE ReadinessAssumption

LEMMA AgedType ==
    ASSUME NEW limit \in Nat, NEW age \in 0..limit
    PROVE  Aged(age, limit) \in 0..limit /\ Aged(age, limit) <= age + 1
           /\ (age < limit => Aged(age, limit) = age + 1)
           /\ (~(age < limit) => Aged(age, limit) = limit)
BY DEF Aged

LEMMA ReadinessInvInit == ReadinessInit => ReadinessInv
<1> SUFFICES ASSUME ReadinessInit PROVE ReadinessInv
  OBVIOUS
<1> USE DEF ReadinessInit
<1>1. since \in [Pairs -> 0..Horizon]
  BY DEF Horizon
<1>2. rest \in [ok : BOOLEAN, age : 0..EvidenceFor]
      /\ retained \in [ok : BOOLEAN, age : 0..EvidenceFor, executable : BOOLEAN]
  OBVIOUS
<1>3. canonical \in BOOLEAN /\ ~retained.ok
  BY Zenon
<1>4. ReadinessTypeOK
  BY <1>1, <1>2, <1>3 DEF ReadinessTypeOK
<1> QED
  BY <1>3, <1>4 DEF ReadinessInv, AlarmHolds, VerdictIsDurable, ScanInProgress, ResultsAgree,
                    UnseenIsRecent

\* The steps of the loop before the scan keep incidents, results and ages.
LEMMA LoopPreserves ==
    ASSUME ReadinessInv,
           ReconcileBegin \/ ReconcileEnd \/ RefreshThrottled \/ RefreshBegin
           \/ AccountRefused \/ AccountVerified \/ UNCHANGED rvars
    PROVE  ReadinessInv'
<1> USE DEF ReadinessInv, ReadinessTypeOK, AlarmHolds, VerdictIsDurable, ScanInProgress,
            ResultsAgree, UnseenIsRecent, Lapse, market, memory
<1>1. CASE ReconcileBegin
  <2>1. canonical' \in BOOLEAN
    BY <1>1, Zenon DEF ReconcileBegin
  <2>2. UNCHANGED <<rest, retained, checked, seen, todo, incidents, executable, since, scanning, lapses, flagged>>
        /\ step = "loop" /\ step' = "reconcile"
    BY <1>1 DEF ReconcileBegin
  <2>3. ReadinessTypeOK' BY <2>1, <2>2
  <2>4. AlarmHolds' /\ VerdictIsDurable' BY <2>2
  <2>5. ScanInProgress' /\ ResultsAgree' /\ UnseenIsRecent' BY <2>2
  <2> HIDE DEF ReadinessTypeOK, AlarmHolds, VerdictIsDurable, ScanInProgress, ResultsAgree, UnseenIsRecent
  <2> QED BY <2>3, <2>4, <2>5
<1>2. CASE ReconcileEnd
  <2>1. canonical' \in BOOLEAN
    BY <1>2, Zenon DEF ReconcileEnd
  <2>2. UNCHANGED <<rest, retained, checked, seen, todo, incidents, executable, since, scanning, flagged>>
        /\ step = "reconcile" /\ step' = "refresh"
    BY <1>2 DEF ReconcileEnd
  <2>3. lapses' \in 0..MaxLapses
    BY <1>2 DEF ReconcileEnd
  <2>4. ReadinessTypeOK' BY <2>1, <2>2, <2>3
  <2>5. AlarmHolds' /\ VerdictIsDurable' BY <2>2
  <2>6. ScanInProgress' /\ ResultsAgree' /\ UnseenIsRecent' BY <2>2
  <2> HIDE DEF ReadinessTypeOK, AlarmHolds, VerdictIsDurable, ScanInProgress, ResultsAgree, UnseenIsRecent
  <2> QED BY <2>4, <2>5, <2>6
<1>3. CASE RefreshThrottled BY <1>3 DEF RefreshThrottled
<1>4. CASE RefreshBegin BY <1>4 DEF RefreshBegin
<1>5. CASE AccountRefused BY <1>5 DEF AccountRefused
<1>6. CASE AccountVerified BY <1>6 DEF AccountVerified
<1>7. CASE UNCHANGED rvars BY <1>7 DEF rvars
<1> QED
  BY <1>1, <1>2, <1>3, <1>4, <1>5, <1>6, <1>7

\* The scan: its classification, its results one by one, its end and its failures.
LEMMA ScanPreserves ==
    ASSUME ReadinessInv,
           Classify \/ ScanFails \/ (\E p \in Pairs : WriteResult(p)) \/ WriteFails
           \/ ScanComplete \/ OwnerCrash
    PROVE  ReadinessInv'
<1> USE DEF ReadinessInv, ReadinessTypeOK, AlarmHolds, VerdictIsDurable, ScanInProgress,
            ResultsAgree, UnseenIsRecent, Lapse, market, memory
<1>1. CASE Classify BY <1>1 DEF Classify
<1>2. CASE ScanFails BY <1>2 DEF ScanFails, EndUnverified
<1>3. ASSUME NEW p \in Pairs, WriteResult(p) PROVE ReadinessInv'
  <2>1. UNCHANGED <<step, canonical, rest, retained, checked, seen, executable, since, scanning, lapses>>
        /\ step = "write" /\ todo' = todo \ {p} /\ p \in todo
    BY <1>3 DEF WriteResult
  <2>2. incidents' = IF p \in seen THEN incidents \cup {p} ELSE incidents \ {p}
    BY <1>3 DEF WriteResult
  <2>3. flagged' = IF p \in seen \cap executable THEN flagged \cup {p} ELSE flagged
    BY <1>3 DEF WriteResult
  <2>4. ReadinessTypeOK'
    BY <2>1, <2>2, <2>3
  <2>5. AlarmHolds'
    BY <2>1, <2>2, <2>3
  <2>6. VerdictIsDurable' /\ ScanInProgress'
    BY <2>1
  <2>7. ResultsAgree'
    BY <2>1, <2>2, <2>3
  <2>8. UnseenIsRecent'
    BY <2>1
  <2> HIDE DEF ReadinessTypeOK, AlarmHolds, VerdictIsDurable, ScanInProgress, ResultsAgree, UnseenIsRecent
  <2> QED BY <2>4, <2>5, <2>6, <2>7, <2>8
<1>4. CASE WriteFails
  <2>1. step = "write" /\ step' = "loop" /\ todo' = {} /\ ~retained.ok
    BY <1>4 DEF WriteFails, EndUnverified
  <2>2. UNCHANGED <<canonical, retained, checked, seen, executable, since, scanning, flagged>>
    BY <1>4 DEF WriteFails, EndUnverified
  <2>3. lapses' \in 0..MaxLapses
    BY <1>4 DEF WriteFails
  <2>4. incidents' = incidents \/ incidents' = incidents \cup {Verification}
    BY <1>4 DEF WriteFails, EndUnverified
  <2>5. rest' \in [ok : BOOLEAN, age : 0..EvidenceFor]
    <3>1. CASE rest' = rest BY <3>1
    <3>2. CASE rest' = [ok |-> TRUE, age |-> 0] BY <3>2
    <3> QED BY <1>4, <3>1, <3>2 DEF WriteFails, EndUnverified
  <2>10. incidents' \subseteq Pairs \cup {Verification}
    BY <2>4
  <2>6. ReadinessTypeOK' BY <2>1, <2>2, <2>3, <2>5, <2>10
  <2>7. AlarmHolds' BY <2>2, <2>4
  <2>8. VerdictIsDurable' BY <2>1, <2>2
  <2>9. ScanInProgress' /\ ResultsAgree' /\ UnseenIsRecent' BY <2>1, <2>2
  <2> HIDE DEF ReadinessTypeOK, AlarmHolds, VerdictIsDurable, ScanInProgress, ResultsAgree, UnseenIsRecent
  <2> QED BY <2>6, <2>7, <2>8, <2>9
<1>5. CASE ScanComplete
  <2>1. incidents' = seen
    BY <1>5 DEF ScanComplete
  <2>2. retained' = [ok |-> TRUE, age |-> 0, executable |-> seen # {}]
        /\ rest' = [ok |-> TRUE, age |-> 0]
    BY <1>5 DEF ScanComplete
  <2>3. step' = "loop" /\ UNCHANGED <<canonical, checked, seen, todo, executable, since, scanning, lapses, flagged>>
        /\ step = "write" /\ todo = {}
    BY <1>5 DEF ScanComplete
  <2>4. retained'.executable = (seen # {}) /\ (seen # {}) \in BOOLEAN /\ retained'.age = 0
    BY <2>2, Zenon
  <2>5. retained' \in [ok : BOOLEAN, age : 0..EvidenceFor, executable : BOOLEAN]
    BY <2>2, <2>4
  <2>6. rest' \in [ok : BOOLEAN, age : 0..EvidenceFor]
    BY <2>2
  <2>7. ReadinessTypeOK'
    BY <2>1, <2>3, <2>5, <2>6
  <2>8. AlarmHolds'
    <3>1. flagged \subseteq Pairs /\ Verification \notin Pairs /\ incidents' = incidents \ {Verification}
      BY <1>5 DEF ScanComplete
    <3> QED BY <3>1, <2>3
  <2>9. VerdictIsDurable'
    BY <2>1, <2>3, <2>4, Zenon DEF VerdictIsDurable
  <2>10. ScanInProgress' /\ ResultsAgree'
    BY <2>3
  <2>11. UnseenIsRecent'
    <3>1. \A p \in executable \ seen : since[p] <= 0 + ScanTime
      BY <2>3
    <3> QED BY <3>1, <2>3, <2>4
  <2> HIDE DEF ReadinessTypeOK, AlarmHolds, VerdictIsDurable, ScanInProgress, ResultsAgree, UnseenIsRecent
  <2> QED
    BY <2>7, <2>8, <2>9, <2>10, <2>11
<1>6. CASE OwnerCrash
  <2>1. canonical' \in BOOLEAN
    BY <1>6, Zenon DEF OwnerCrash
  <2>2. step' = "loop" /\ checked' = RestPeriod /\ seen' = {} /\ todo' = {} /\ scanning' = 0
        /\ UNCHANGED <<incidents, executable, since, flagged>> /\ lapses' \in 0..MaxLapses
    BY <1>6 DEF OwnerCrash
  <2>3. rest' \in [ok : BOOLEAN, age : 0..EvidenceFor]
    BY <1>6 DEF OwnerCrash
  <2>4. retained' = [ok |-> FALSE, age |-> EvidenceFor, executable |-> FALSE]
    BY <1>6 DEF OwnerCrash
  <2>5. retained' \in [ok : BOOLEAN, age : 0..EvidenceFor, executable : BOOLEAN] /\ ~retained'.ok
    BY <2>4
  <2>6. ReadinessTypeOK' BY <2>1, <2>2, <2>3, <2>5
  <2>7. AlarmHolds' BY <2>2
  <2>8. VerdictIsDurable' BY <2>5
  <2>9. ScanInProgress' /\ ResultsAgree' /\ UnseenIsRecent' BY <2>2, <2>5
  <2> HIDE DEF ReadinessTypeOK, AlarmHolds, VerdictIsDurable, ScanInProgress, ResultsAgree, UnseenIsRecent
  <2> QED BY <2>6, <2>7, <2>8, <2>9
<1> QED
  BY <1>1, <1>2, <1>3, <1>4, <1>5, <1>6

LEMMA MarketPreserves ==
    ASSUME ReadinessInv, NEW p \in Pairs, MarketMoves(p)
    PROVE  ReadinessInv'
<1> USE DEF ReadinessInv, MarketMoves, memory
<1>1. since' \in [Pairs -> 0..Horizon] /\ since'[p] = 0
      /\ \A q \in Pairs \ {p} : since'[q] = since[q]
  BY DEF ReadinessTypeOK, Horizon
<1>2. ReadinessTypeOK'
  BY <1>1 DEF ReadinessTypeOK
<1>3. AlarmHolds' /\ VerdictIsDurable' /\ ScanInProgress' /\ ResultsAgree'
  BY DEF AlarmHolds, VerdictIsDurable, ScanInProgress, ResultsAgree
<1>4. UnseenIsRecent'
  BY <1>1 DEF UnseenIsRecent, ReadinessTypeOK
<1> QED
  BY <1>2, <1>3, <1>4

LEMMA ClockPreserves ==
    ASSUME ReadinessInv, ClockTicks
    PROVE  ReadinessInv'
<1> USE DEF ReadinessInv
<1>0. PICK ok \in BOOLEAN, age \in 0..EvidenceFor, ex \in BOOLEAN :
         retained = [ok |-> ok, age |-> age, executable |-> ex]
  BY DEF ReadinessTypeOK
<1>1. /\ retained' = [ok |-> ok, age |-> Aged(age, EvidenceFor), executable |-> ex]
      /\ retained.ok = ok /\ retained.age = age /\ retained.executable = ex
  BY <1>0 DEF ClockTicks
<1>2. Aged(age, EvidenceFor) \in 0..EvidenceFor
      /\ (age < EvidenceFor => Aged(age, EvidenceFor) = age + 1)
      /\ (~(age < EvidenceFor) => Aged(age, EvidenceFor) = EvidenceFor)
  BY AgedType
<1>3. rest' \in [ok : BOOLEAN, age : 0..EvidenceFor]
  BY AgedType DEF ClockTicks, ReadinessTypeOK
<1>4. checked' \in 0..RestPeriod
  BY AgedType DEF ClockTicks, ReadinessTypeOK
<1>5. Horizon \in Nat /\ Horizon = EvidenceFor + ScanTime
  BY DEF Horizon
<1>6. \A p \in Pairs : since'[p] \in 0..Horizon /\ since'[p] <= since[p] + 1
  <2> SUFFICES ASSUME NEW p \in Pairs
               PROVE  since'[p] \in 0..Horizon /\ since'[p] <= since[p] + 1
    OBVIOUS
  <2>1. since[p] \in 0..Horizon
    BY DEF ReadinessTypeOK
  <2>2. Aged(since[p], Horizon) \in 0..Horizon /\ Aged(since[p], Horizon) <= since[p] + 1
    BY <2>1, <1>5, AgedType
  <2>3. since'[p] = IF p \in executable THEN Aged(since[p], Horizon) ELSE 0
    BY DEF ClockTicks
  <2> QED
    BY <2>1, <2>2, <2>3, <1>5
<1>7. since' \in [Pairs -> 0..Horizon]
  <2>1. since' = [p \in Pairs |-> since'[p]]
    BY DEF ClockTicks
  <2> QED BY <2>1, <1>6
<1>8. scanning' \in 0..ScanTime /\ (step = "write" => scanning' = scanning + 1)
  BY DEF ClockTicks, ReadinessTypeOK, Running
<1>9. ReadinessTypeOK'
  BY <1>1, <1>2, <1>3, <1>4, <1>7, <1>8 DEF ReadinessTypeOK, ClockTicks
<1>10. AlarmHolds' /\ VerdictIsDurable' /\ ScanInProgress' /\ ResultsAgree'
  BY <1>1 DEF AlarmHolds, VerdictIsDurable, ScanInProgress, ResultsAgree, ClockTicks
<1>11. UnseenIsRecent'
  <2>1. ASSUME step = "write", NEW p \in executable \ seen PROVE since'[p] <= scanning'
    <3>1. since[p] <= scanning /\ since'[p] <= since[p] + 1 /\ since'[p] \in Int /\ since[p] \in Int
      BY <2>1, <1>6 DEF UnseenIsRecent, ReadinessTypeOK
    <3> QED BY <3>1, <2>1, <1>8 DEF ReadinessTypeOK
  <2>2. ASSUME ok, NEW p \in executable \ seen
        PROVE  since'[p] <= Aged(age, EvidenceFor) + ScanTime
    <3>1. since[p] <= age + ScanTime
      BY <2>2, <1>1 DEF UnseenIsRecent
    <3>2. since'[p] <= since[p] + 1 /\ since'[p] \in 0..Horizon /\ since[p] \in 0..Horizon
      BY <1>6 DEF ReadinessTypeOK
    <3> QED BY <3>1, <3>2, <1>2, <1>5
  <2>3. UNCHANGED <<step, executable, seen>>
    BY DEF ClockTicks
  <2> QED
    BY <2>1, <2>2, <2>3, <1>1 DEF UnseenIsRecent
<1> QED
  BY <1>9, <1>10, <1>11

LEMMA ReadinessInvNext == ReadinessInv /\ [ReadinessNext]_rvars => ReadinessInv'
<1> SUFFICES ASSUME ReadinessInv, [ReadinessNext]_rvars PROVE ReadinessInv'
  OBVIOUS
<1>1. CASE ReconcileBegin \/ ReconcileEnd \/ RefreshThrottled \/ RefreshBegin
           \/ AccountRefused \/ AccountVerified \/ UNCHANGED rvars
  BY <1>1, LoopPreserves
<1>2. CASE Classify \/ ScanFails \/ (\E p \in Pairs : WriteResult(p)) \/ WriteFails
           \/ ScanComplete \/ OwnerCrash
  BY <1>2, ScanPreserves
<1>3. CASE \E p \in Pairs : MarketMoves(p)
  BY <1>3, MarketPreserves
<1>4. CASE ClockTicks
  BY <1>4, ClockPreserves
<1> QED
  BY <1>1, <1>2, <1>3, <1>4 DEF ReadinessNext, LoopStep

LEMMA ReadinessInvariance == ReadinessSpec => []ReadinessInv
BY ReadinessInvInit, ReadinessInvNext, PTL DEF ReadinessSpec

\* refresh_runtime_evidence and refresh_retained_inventory keep the shape of what
\* they publish, whatever fails.
THEOREM ReadinessTypeCorrect == ReadinessSpec => []ReadinessTypeOK
<1>1. ReadinessInv => ReadinessTypeOK
  BY DEF ReadinessInv
<1> QED
  BY <1>1, ReadinessInvariance, PTL

\* release_status never approves over retained inventory that has been executable
\* for longer than the age limit of its evidence and the longest scan.
THEOREM ReadinessSeesInventory == ReadinessSpec => []ApprovalSeesInventory
<1>1. ReadinessInv => ApprovalSeesInventory
  <2> SUFFICES ASSUME ReadinessInv, ReleaseApproved, NEW p \in executable
               PROVE  since[p] < Horizon
    BY DEF ApprovalSeesInventory
  <2>1. retained.ok /\ seen = {} /\ retained.age < EvidenceFor
    BY DEF ReadinessInv, VerdictIsDurable, ReleaseApproved
  <2>2. since[p] <= retained.age + ScanTime
    BY <2>1 DEF ReadinessInv, UnseenIsRecent
  <2>3. since[p] \in 0..Horizon /\ retained.age \in 0..EvidenceFor
    BY DEF ReadinessInv, ReadinessTypeOK
  <2> QED
    BY <2>1, <2>2, <2>3 DEF Horizon
<1> QED
  BY <1>1, ReadinessInvariance, PTL

\* The incident of dust that has stayed executable is never closed.
THEOREM ReadinessAlarmHolds == ReadinessSpec => []AlarmHolds
<1>1. ReadinessInv => AlarmHolds
  BY DEF ReadinessInv
<1> QED
  BY <1>1, ReadinessInvariance, PTL

\* A healthy verdict agrees with the open incidents in the store.
THEOREM ReadinessVerdictDurable == ReadinessSpec => []VerdictIsDurable
<1>1. ReadinessInv => VerdictIsDurable
  BY DEF ReadinessInv
<1> QED
  BY <1>1, ReadinessInvariance, PTL
================================================================================
