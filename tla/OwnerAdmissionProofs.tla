-------------------------- MODULE OwnerAdmissionProofs --------------------------
(***************************************************************************)
(* Proofs about OwnerAdmission, for any number of coordinators, intents,   *)
(* pairs and registry versions.                                            *)
(***************************************************************************)
EXTENDS OwnerAdmission, SumLemmas

\* A row without an intent is a row.
LEMMA NoRowIsRow == NoRow \in Rows
  BY AdmissionAssumption DEF NoRow, Rows, IntentStates, Codes

\* Writing another state and code leaves a row.
LEMMA RewrittenIsRow ==
    ASSUME NEW row \in Rows, NEW s \in IntentStates, NEW k \in Codes,
           s \in ReservableStates => row.rev < MaxRev
    PROVE  Rewritten(row, s, k) \in Rows
  BY AdmissionAssumption DEF Rewritten, Rows

\* So does writing one column.
LEMMA WithIsRow ==
    ASSUME NEW row \in Rows, NEW s \in IntentStates, NEW b \in BOOLEAN
    PROVE  WithState(row, s) \in Rows /\ WithTrade(row, b) \in Rows
  BY DEF WithState, WithTrade, Rows

\* The four ways a step moves the locals of a coordinator leave them typed.
LEMMA LocalSteps ==
    ASSUME LocalOK, NEW c \in Coordinators
    PROVE  /\ \A s \in Steps : signal[c] \in Intents /\ Goto(c, s) => LocalOK'
           /\ \A s \in Steps, row \in Rows :
                 signal[c] \in Intents /\ GotoWith(c, s, row) => LocalOK'
           /\ Return(c) => LocalOK'
           /\ \A s \in Steps, i \in Intents :
                 /\ step' = [step EXCEPT ![c] = s]
                 /\ signal' = [signal EXCEPT ![c] = i]
                 /\ UNCHANGED seen
                 => LocalOK'
           /\ UNCHANGED local => LocalOK'
<1>1. ASSUME NEW s \in Steps, signal[c] \in Intents, Goto(c, s) PROVE LocalOK'
  BY <1>1 DEF Goto, LocalOK
<1>2. ASSUME NEW s \in Steps, NEW row \in Rows, signal[c] \in Intents, GotoWith(c, s, row)
      PROVE  LocalOK'
  BY <1>2 DEF GotoWith, LocalOK
<1>3. ASSUME Return(c) PROVE LocalOK'
  BY <1>3, NoRowIsRow DEF Return, LocalOK, Steps
<1>4. ASSUME NEW s \in Steps, NEW i \in Intents,
             step' = [step EXCEPT ![c] = s],
             signal' = [signal EXCEPT ![c] = i], UNCHANGED seen
      PROVE  LocalOK'
  BY <1>4 DEF LocalOK
<1>5. ASSUME UNCHANGED local PROVE LocalOK'
  BY <1>5 DEF local, LocalOK
<1>6. QED BY <1>1, <1>2, <1>3, <1>4, <1>5

\* The prepared maps after one entry of one coordinator was written.
LEMMA PreparedWrite ==
    ASSUME prepared \in [Coordinators -> [Pairs -> Intents \cup {NoIntent}]],
           NEW c \in Coordinators, NEW p, NEW x \in Intents \cup {NoIntent}
    PROVE  [prepared EXCEPT ![c][p] = x] \in [Coordinators -> [Pairs -> Intents \cup {NoIntent}]]
<1> DEFINE M == [Pairs -> Intents \cup {NoIntent}]
           m == [prepared[c] EXCEPT ![p] = x]
<1>1. m \in M
  OBVIOUS
<1>2. [prepared EXCEPT ![c][p] = x] = [prepared EXCEPT ![c] = m]
  OBVIOUS
<1>3. [prepared EXCEPT ![c] = m] \in [Coordinators -> M]
  <2> HIDE DEF m, M
  <2>1. prepared \in [Coordinators -> M]
    BY DEF M
  <2>2. QED BY <1>1, <2>1
<1>4. QED BY <1>2, <1>3

\* A write of a row keeps the table typed.
LEMMA TableWrite ==
    ASSUME StoreOK, NEW i \in Intents, NEW row \in Rows
    PROVE  [intents EXCEPT ![i] = row] \in [Intents -> Rows]
  BY DEF StoreOK

\* Every step keeps the admission state typed: one step per action.
LEMMA TypeStep == TypeOK /\ [Next]_vars => TypeOK'
<1> SUFFICES ASSUME TypeOK, [Next]_vars PROVE TypeOK'
  OBVIOUS
<1> USE AdmissionAssumption DEF TypeOK
<1>0. \A c \in Coordinators : step[c] # "idle" =>
          signal[c] \in Intents /\ intents[signal[c]] \in Rows /\ seen[c] \in Rows
  BY DEF StoreOK, LocalOK
<1>1. ASSUME NEW c \in Coordinators, NEW i \in Intents, Gate(c, i) PROVE TypeOK'
  BY <1>1, LocalSteps DEF Gate, StoreOK, Steps
<1>2. ASSUME NEW c \in Coordinators, LookUp(c) PROVE TypeOK'
  <2>1. signal[c] \in Intents /\ intents[signal[c]] \in Rows
    BY <1>0, <1>2 DEF LookUp
  <2>2. \/ Goto(c, "decide")
        \/ GotoWith(c, "market", intents[signal[c]])
        \/ Return(c)
    BY <1>2 DEF LookUp
  <2>3. LocalOK'
    BY <2>1, <2>2, LocalSteps DEF Steps
  <2>4. QED BY <1>2, <2>3 DEF LookUp, StoreOK
<1>3. ASSUME NEW c \in Coordinators, Decide(c) PROVE TypeOK'
  <2> DEFINE i == signal[c]
             halal == PairOf[i] \in HalalPairs[registry]
             state == IF ~halal THEN "REJECTED_HALAL"
                      ELSE IF Cardinality(Occupying(intents)) >= MaxSlots
                      THEN "REJECTED_MAX_SLOTS"
                      ELSE IF NominalOf(Occupying(intents)) + Nominal[i] > Allocation
                      THEN "REJECTED_ALLOCATION" ELSE "HALAL_DECIDED"
  <2>1. state \in IntentStates
    BY DEF IntentStates, FinalRejections, ReservableStates
  <2>2. GotoWith(c, "put", NewRow(state, halal)) /\ step[c] # "idle"
    BY <1>3 DEF Decide
  <2> HIDE DEF state, halal
  <2>3. halal \in BOOLEAN
    BY DEF halal
  <2>4. NewRow(state, halal) \in Rows
    BY <2>1, <2>3 DEF NewRow, StoreOK, Rows, Codes
  <2>5. LocalOK'
    BY <1>0, <2>2, <2>4, LocalSteps DEF Steps
  <2>6. QED BY <1>3, <2>5 DEF Decide, StoreOK
<1>4. ASSUME NEW c \in Coordinators, RegistryUnavailable(c) PROVE TypeOK'
  BY <1>4, LocalSteps DEF RegistryUnavailable, StoreOK
<1>5. ASSUME NEW c \in Coordinators, PutIntent(c) PROVE TypeOK'
  <2> DEFINE i == signal[c]
             row == IF intents[i].state = "ABSENT" THEN seen[c] ELSE intents[i]
  <2>1. i \in Intents /\ row \in Rows
    BY <1>0, <1>5 DEF PutIntent
  <2>2. intents' = [intents EXCEPT ![i] = row]
    BY <1>5 DEF PutIntent
  <2>3. GotoWith(c, "market", row) \/ Return(c)
    BY <1>5 DEF PutIntent
  <2> HIDE DEF row
  <2>4. LocalOK'
    BY <2>1, <2>3, LocalSteps DEF Steps
  <2>5. QED BY <1>5, <2>1, <2>2, <2>4, TableWrite DEF PutIntent, StoreOK
<1>6. ASSUME NEW c \in Coordinators, NEW s \in RejectStates, NEW k \in Codes,
             RejectAdmission(c, s, k) PROVE TypeOK'
  <2>1. s \in IntentStates
    BY DEF RejectStates, IntentStates, ReservableStates, FinalRejections
  <2>2. signal[c] \in Intents /\ intents[signal[c]] \in Rows
    BY <1>0, <1>6 DEF RejectAdmission
  <2>3. StillMine(c) => Rewritten(intents[signal[c]], s, k) \in Rows
    BY <1>6, <2>1, <2>2, RewrittenIsRow DEF RejectAdmission, StillMine
  <2>4. intents' \in [Intents -> Rows]
    BY <1>6, <2>2, <2>3, TableWrite DEF RejectAdmission, StoreOK
  <2>5. QED BY <1>6, <2>4, LocalSteps DEF RejectAdmission, StoreOK
<1>7. ASSUME NEW c \in Coordinators, ReserveAdmission(c) PROVE TypeOK'
  <2> DEFINE i == signal[c]
             row == Rewritten(intents[i], Reservation(i), "OTHER")
  <2>1. Reservation(i) \in IntentStates \ ReservableStates
    BY DEF Reservation, IntentStates, ReservableStates, FinalRejections
  <2>2. i \in Intents /\ intents[i] \in Rows
    BY <1>0, <1>7 DEF ReserveAdmission
  <2>3. row \in Rows
    BY <2>1, <2>2, RewrittenIsRow DEF Codes
  <2>4. intents' = intents \/ intents' = [intents EXCEPT ![i] = row]
    BY <1>7 DEF ReserveAdmission
  <2>5. UNCHANGED prepared \/ prepared' = [prepared EXCEPT ![c][PairOf[i]] = i]
    BY <1>7 DEF ReserveAdmission
  <2>6. Return(c) \/ GotoWith(c, "accepted", NoRow)
    BY <1>7 DEF ReserveAdmission, GotoWith
  <2> HIDE DEF row
  <2>7. LocalOK'
    BY <2>2, <2>6, LocalSteps, NoRowIsRow DEF Steps
  <2>8. intents' \in [Intents -> Rows]
    BY <2>2, <2>3, <2>4, TableWrite DEF StoreOK
  <2>9. prepared' \in [Coordinators -> [Pairs -> Intents \cup {NoIntent}]]
    <3>1. prepared \in [Coordinators -> [Pairs -> Intents \cup {NoIntent}]]
      BY DEF StoreOK
    <3>2. CASE UNCHANGED prepared
      BY <3>1, <3>2
    <3>3. CASE prepared' = [prepared EXCEPT ![c][PairOf[i]] = i]
      BY <2>2, <3>1, <3>3, PreparedWrite
    <3>4. QED BY <2>5, <3>2, <3>3
  <2>10. QED BY <1>7, <2>7, <2>8, <2>9 DEF ReserveAdmission, StoreOK
<1>8. ASSUME NEW c \in Coordinators, MarketChecksRaise(c) PROVE TypeOK'
  BY <1>8, LocalSteps DEF MarketChecksRaise, StoreOK
<1>9. ASSUME NEW c \in Coordinators, ReleaseReady(c) \/ SubmitRaises(c) PROVE TypeOK'
  <2>1. Goto(c, "cleared") \/ Goto(c, "aborting")
    BY <1>9 DEF ReleaseReady, SubmitRaises
  <2>2. LocalOK'
    BY <1>0, <1>9, <2>1, LocalSteps DEF ReleaseReady, SubmitRaises, Steps
  <2>3. QED BY <1>9, <2>2 DEF ReleaseReady, SubmitRaises, StoreOK
<1>10. ASSUME NEW c \in Coordinators, ClaimEntrySubmission(c) PROVE TypeOK'
  <2> DEFINE i == signal[c]
             row == WithState(intents[i], "ENTRY_PENDING")
  <2>1. i \in Intents /\ intents[i] \in Rows
    BY <1>0, <1>10 DEF ClaimEntrySubmission
  <2>2. row \in Rows
    BY <2>1, WithIsRow DEF IntentStates, OwnedStates
  <2>3. intents' = intents \/ intents' = [intents EXCEPT ![i] = row]
    BY <1>10 DEF ClaimEntrySubmission
  <2>4. Goto(c, "posting") \/ Goto(c, "aborting")
    BY <1>10 DEF ClaimEntrySubmission
  <2>5. UNCHANGED claims \/ claims' = [claims EXCEPT ![i] = @ + 1]
    BY <1>10 DEF ClaimEntrySubmission
  <2>6. evidence' = evidence \/ evidence' = evidence \cup {i}
    BY <1>10 DEF ClaimEntrySubmission
  <2> HIDE DEF row
  <2>7. LocalOK'
    BY <2>1, <2>4, LocalSteps DEF Steps
  <2>8. intents' \in [Intents -> Rows]
    BY <2>1, <2>2, <2>3, TableWrite DEF StoreOK
  <2>9. claims' \in [Intents -> Nat] /\ evidence' \subseteq Intents
    BY <2>1, <2>5, <2>6 DEF StoreOK
  <2>10. QED BY <1>10, <2>7, <2>8, <2>9 DEF ClaimEntrySubmission, StoreOK
<1>11. ASSUME NEW c \in Coordinators, AbortCheck(c) PROVE TypeOK'
  <2> DEFINE i == prepared[c][PairOf[signal[c]]]
  <2>1. i \in Intents \cup {NoIntent}
    BY <1>0, <1>11 DEF AbortCheck, StoreOK
  <2>2. \/ /\ i \in Intents
           /\ step' = [step EXCEPT ![c] = "abort_checked"]
           /\ signal' = [signal EXCEPT ![c] = i]
           /\ UNCHANGED seen
        \/ Return(c)
    BY <1>11, <2>1 DEF AbortCheck
  <2> HIDE DEF i
  <2>3. LocalOK'
    BY <2>2, LocalSteps DEF Steps
  <2>4. QED BY <1>11, <2>3 DEF AbortCheck, StoreOK
<1>12. ASSUME NEW c \in Coordinators, AbortWrite(c) PROVE TypeOK'
  <2> DEFINE i == signal[c]
             row == Rewritten(intents[i], "CLOSED_NO_FILL", "OTHER")
  <2>1. "CLOSED_NO_FILL" \in IntentStates \ ReservableStates /\ "OTHER" \in Codes
    BY DEF IntentStates, TERMINAL_INTENT_STATES, ReservableStates, Codes
  <2>2. i \in Intents /\ intents[i] \in Rows
    BY <1>0, <1>12 DEF AbortWrite
  <2>3. row \in Rows
    BY <2>1, <2>2, RewrittenIsRow
  <2>4. intents' = [intents EXCEPT ![i] = row]
    BY <1>12 DEF AbortWrite
  <2>5. prepared' = [prepared EXCEPT ![c][PairOf[i]] = NoIntent]
    BY <1>12 DEF AbortWrite
  <2> HIDE DEF row
  <2>6. intents' \in [Intents -> Rows]
    BY <2>2, <2>3, <2>4, TableWrite DEF StoreOK
  <2>7. prepared' \in [Coordinators -> [Pairs -> Intents \cup {NoIntent}]]
    <3>1. prepared \in [Coordinators -> [Pairs -> Intents \cup {NoIntent}]]
      BY DEF StoreOK
    <3>2. QED BY <2>5, <3>1, PreparedWrite
  <2>8. QED BY <1>12, <2>6, <2>7, LocalSteps DEF AbortWrite, StoreOK
<1>13. ASSUME NEW c \in Coordinators, EntryReturns(c) PROVE TypeOK'
  <2> DEFINE i == signal[c]
  <2>1. i \in Intents /\ intents[i] \in Rows
    BY <1>0, <1>13 DEF EntryReturns
  <2>2. \E row \in Rows : intents' = intents \/ intents' = [intents EXCEPT ![i] = row]
    BY <1>13, <2>1, WithIsRow
    DEF EntryReturns, IntentStates, TERMINAL_INTENT_STATES, OwnedStates
  <2>3. incidents' \subseteq Intents /\ reopened' \subseteq Intents
    BY <1>13, <2>1 DEF EntryReturns, Reopens, StoreOK
  <2>4. UNCHANGED prepared \/ prepared' = [prepared EXCEPT ![c][PairOf[i]] = NoIntent]
    BY <1>13 DEF EntryReturns
  <2>5. intents' \in [Intents -> Rows]
    BY <2>1, <2>2, TableWrite DEF StoreOK
  <2>6. prepared' \in [Coordinators -> [Pairs -> Intents \cup {NoIntent}]]
    <3>1. prepared \in [Coordinators -> [Pairs -> Intents \cup {NoIntent}]]
      BY DEF StoreOK
    <3>2. CASE UNCHANGED prepared
      BY <3>1, <3>2
    <3>3. CASE prepared' = [prepared EXCEPT ![c][PairOf[i]] = NoIntent]
      BY <3>1, <3>3, PreparedWrite
    <3>4. QED BY <2>4, <3>2, <3>3
  <2>7. QED BY <1>13, <2>3, <2>5, <2>6, LocalSteps DEF EntryReturns, StoreOK
<1>14. ASSUME NEW c \in Coordinators, NEW i \in Intents, NEW s \in ReconciledStates,
              OwnerReconciles(c, i, s) PROVE TypeOK'
  <2>1. s \in IntentStates
    BY DEF IntentStates, TERMINAL_INTENT_STATES, OwnedStates, ReconciledStates
  <2>2. intents[i] \in Rows /\ intents[i].bound \in BOOLEAN
    BY DEF StoreOK, Rows
  <2>3. \A b \in BOOLEAN : WithTrade(WithState(intents[i], s), b) \in Rows
    BY <2>1, <2>2, WithIsRow
  <2>4. \E row \in Rows : intents' = [intents EXCEPT ![i] = row]
    BY <1>14, <2>2, <2>3 DEF OwnerReconciles
  <2>5. intents' \in [Intents -> Rows]
    BY <2>4, TableWrite
  <2>6. incidents' \subseteq Intents /\ reopened' \subseteq Intents
    BY <1>14 DEF OwnerReconciles, Reopens, StoreOK
  <2>7. QED BY <1>14, <2>5, <2>6, LocalSteps DEF OwnerReconciles, StoreOK
<1>15. ASSUME NEW c \in Coordinators, Crash(c) PROVE TypeOK'
  <2>1. step[c] \in Holding => signal[c] \in Intents
    BY <1>0 DEF Holding
  <2>2. Return(c) /\ stranded' \subseteq Intents
    BY <1>15, <2>1 DEF Crash, Strand, StoreOK
  <2>3. QED BY <1>15, <2>2, LocalSteps DEF Crash, StoreOK
<1>16. ASSUME NEW v \in Versions, EditRegistry(v) PROVE TypeOK'
  BY <1>16 DEF EditRegistry, StoreOK, LocalOK, local
<1>17. CASE UNCHANGED vars
  BY <1>17 DEF vars, StoreOK, LocalOK
<1>18. ASSUME NEW c \in Coordinators, JournalAccepted(c) PROVE TypeOK'
  <2>1. LocalOK'
    BY <1>0, <1>18, LocalSteps DEF JournalAccepted, Steps
  <2>2. QED BY <1>18, <2>1 DEF JournalAccepted, StoreOK
<1>19. ASSUME NEW c \in Coordinators, JournalRaises(c) \/ AbortRaises(c) PROVE TypeOK'
  <2>1. signal[c] \in Intents
    BY <1>0, <1>19 DEF JournalRaises, AbortRaises
  <2>2. QED
    BY <1>19, <2>1, LocalSteps DEF JournalRaises, AbortRaises, Strand, StoreOK
<1>20. QED
  BY <1>1, <1>2, <1>3, <1>4, <1>5, <1>6, <1>7, <1>8, <1>9, <1>10, <1>11, <1>12,
     <1>13, <1>14, <1>15, <1>16, <1>17, <1>18, <1>19 DEF Next, Continue

\* Type correctness of the admission protocol.
THEOREM TypeCorrect == Spec => []TypeOK
<1>1. Init => TypeOK
  BY AdmissionAssumption, NoRowIsRow DEF Init, TypeOK, StoreOK, LocalOK, Steps
<1>2. QED BY <1>1, TypeStep, PTL DEF Spec

-----------------------------------------------------------------------------
(***************************************************************************)
(* The inductive invariant.  ReservationHasOneOwner alone is not inductive:*)
(* a second reservation of a claimed intent is excluded by its evidence, an*)
(* abort is harmless because `prepared` still names the caller's own       *)
(* reservation, and a claim is for a halal pair because every row carries  *)
(* the decision of the registry version it names.                          *)
(***************************************************************************)

\* A coordinator between the claim and the answer has left evidence.
PostingHasEvidence == \A c \in Coordinators : step[c] = "posting" => signal[c] \in evidence

\* The prepared map of a holder names its own reservation.
HeldIsPrepared ==
    \A c \in Coordinators :
        step[c] \in Holding => prepared[c][PairOf[signal[c]]] = signal[c]

\* An intent with order evidence is owned or terminal.
EvidenceIsOwned ==
    \A i \in evidence : intents[i].state \in OwnedStates \cup TERMINAL_INTENT_STATES

\* The states put_intent inserts.
InsertedStates == {"HALAL_DECIDED"} \cup FinalRejections

\* A recorded halal decision is that of the registry version recorded with it,
\* and a row about to be inserted reserves nothing.
DecisionsFollowRegistry ==
    /\ \A i \in Intents : intents[i].halal => PairOf[i] \in HalalPairs[intents[i].sha]
    /\ \A c \in Coordinators :
          step[c] = "put" =>
              /\ seen[c].state \in InsertedStates
              /\ seen[c].halal => PairOf[signal[c]] \in HalalPairs[seen[c].sha]

\* Only halal intents are reserved or claimed.
AdmittedAreHalal ==
    \A i \in Intents : intents[i].state = "RESERVED" \/ i \in evidence => intents[i].halal

IInv ==
    /\ TypeOK
    /\ ReservationHasOneOwner
    /\ OneEntrySubmission
    /\ PostingHasEvidence
    /\ HeldIsPrepared
    /\ EvidenceIsOwned
    /\ DecisionsFollowRegistry
    /\ AdmittedAreHalal

\* What every step of coordinator c leaves alone: the locals and the prepared
\* map of the others.
OthersKeep(c) ==
    \A d \in Coordinators \ {c} :
        /\ step'[d] = step[d] /\ signal'[d] = signal[d] /\ seen'[d] = seen[d]
        /\ prepared'[d] = prepared[d]

LEMMA OneCoordinatorMoves ==
    ASSUME TypeOK, NEW c \in Coordinators
    PROVE  /\ \A i \in Intents : Gate(c, i) => OthersKeep(c)
           /\ Continue(c) => OthersKeep(c)
           /\ Crash(c) => OthersKeep(c)
<1> USE DEF TypeOK, StoreOK, LocalOK, OthersKeep
<1>1. ASSUME NEW i \in Intents, Gate(c, i) PROVE OthersKeep(c)
  BY <1>1 DEF Gate
<1>2. ASSUME Continue(c) PROVE OthersKeep(c)
  <2>1. ASSUME LookUp(c) PROVE OthersKeep(c)
    BY <2>1 DEF LookUp, Goto, GotoWith, Return
  <2>2. ASSUME Decide(c) PROVE OthersKeep(c)
    BY <2>2 DEF Decide, GotoWith
  <2>3. ASSUME RegistryUnavailable(c) \/ MarketChecksRaise(c) PROVE OthersKeep(c)
    BY <2>3 DEF RegistryUnavailable, MarketChecksRaise, Return
  <2>4. ASSUME PutIntent(c) PROVE OthersKeep(c)
    BY <2>4 DEF PutIntent, GotoWith, Return
  <2>5. ASSUME NEW s \in RejectStates, NEW k \in Codes, RejectAdmission(c, s, k)
        PROVE  OthersKeep(c)
    BY <2>5 DEF RejectAdmission, Return
  <2>6. ASSUME ReserveAdmission(c) PROVE OthersKeep(c)
    BY <2>6 DEF ReserveAdmission, Return
  <2>7. ASSUME ReleaseReady(c) \/ SubmitRaises(c) PROVE OthersKeep(c)
    BY <2>7 DEF ReleaseReady, SubmitRaises, Goto
  <2>8. ASSUME ClaimEntrySubmission(c) PROVE OthersKeep(c)
    BY <2>8 DEF ClaimEntrySubmission, Goto
  <2>9. ASSUME AbortCheck(c) \/ AbortWrite(c) PROVE OthersKeep(c)
    BY <2>9 DEF AbortCheck, AbortWrite, Return
  <2>10. ASSUME EntryReturns(c) PROVE OthersKeep(c)
    BY <2>10 DEF EntryReturns, Return
  <2>11. ASSUME JournalAccepted(c) \/ JournalRaises(c) \/ AbortRaises(c)
         PROVE  OthersKeep(c)
    BY <2>11 DEF JournalAccepted, JournalRaises, AbortRaises, Strand, Goto, Return
  <2>12. QED
    BY <1>2, <2>1, <2>2, <2>3, <2>4, <2>5, <2>6, <2>7, <2>8, <2>9, <2>10, <2>11 DEF Continue
<1>3. ASSUME Crash(c) PROVE OthersKeep(c)
  BY <1>3 DEF Crash, Strand, Return
<1>4. QED BY <1>1, <1>2, <1>3

\* What IInv says of one row and of one holder.
RowSound(i) ==
    /\ claims[i] = IF i \in evidence THEN 1 ELSE 0
    /\ i \in evidence => intents[i].state \in OwnedStates \cup TERMINAL_INTENT_STATES
    /\ intents[i].halal => PairOf[i] \in HalalPairs[intents[i].sha]
    /\ intents[i].state = "RESERVED" \/ i \in evidence => intents[i].halal

HolderSound(c) ==
    /\ step[c] \in Holding => prepared[c][PairOf[signal[c]]] = signal[c]
    /\ step[c] \in Holding \ {"posting"} =>
          intents[signal[c]].state = "RESERVED" /\ signal[c] \notin evidence
    /\ step[c] = "posting" => signal[c] \in evidence
    /\ step[c] = "put" =>
          /\ seen[c].state \in InsertedStates
          /\ seen[c].halal => PairOf[signal[c]] \in HalalPairs[seen[c].sha]

LEMMA IInvByParts ==
    ASSUME TypeOK
    PROVE  IInv <=> /\ \A i \in Intents : RowSound(i)
                    /\ \A c \in Coordinators : HolderSound(c)
                    /\ \A c, d \in Coordinators :
                          c # d /\ step[c] \in Holding /\ step[d] \in Holding
                          => signal[c] # signal[d]
  BY DEF IInv, RowSound, HolderSound, ReservationHasOneOwner, OneEntrySubmission,
         PostingHasEvidence, HeldIsPrepared, EvidenceIsOwned, DecisionsFollowRegistry,
         AdmittedAreHalal, TypeOK, StoreOK, LocalOK

\* A step of c that writes at most the row of i keeps IInv if it leaves that row
\* and c itself sound, and nobody else holds an intent whose row it writes.
LEMMA StepAt ==
    ASSUME IInv, TypeOK', NEW c \in Coordinators, NEW i \in Intents, OthersKeep(c),
           \A j \in Intents \ {i} : /\ intents'[j] = intents[j] /\ claims'[j] = claims[j]
                                    /\ j \in evidence' <=> j \in evidence,
           RowSound(i)', HolderSound(c)',
           step'[c] \in Holding => signal'[c] = i,
           \/ \A d \in Coordinators \ {c} : step[d] \in Holding => signal[d] # i
           \/ /\ intents'[i] = intents[i] /\ (i \in evidence' <=> i \in evidence)
              /\ step'[c] \notin Holding
    PROVE  IInv'
<1>1. TypeOK
  BY DEF IInv
<1>2. ASSUME NEW j \in Intents PROVE RowSound(j)'
  BY <1>1, IInvByParts DEF RowSound
<1>3. ASSUME NEW d \in Coordinators PROVE HolderSound(d)'
  <2>1. CASE d = c
    BY <2>1
  <2>2. CASE d # c
    <3>1. HolderSound(d)
      BY <1>1, IInvByParts
    <3>2. /\ step'[d] = step[d] /\ signal'[d] = signal[d] /\ seen'[d] = seen[d]
          /\ prepared'[d] = prepared[d]
      BY <2>2 DEF OthersKeep
    <3>3. ASSUME step[d] \in Holding
          PROVE  /\ signal[d] \in Intents
                 /\ intents'[signal[d]] = intents[signal[d]]
                 /\ signal[d] \in evidence' <=> signal[d] \in evidence
      BY <1>1, <2>2, <3>3 DEF TypeOK, LocalOK, Holding
    <3>4. "posting" \in Holding
      BY DEF Holding
    <3>5. QED BY <3>1, <3>2, <3>3, <3>4 DEF HolderSound
  <2>3. QED BY <2>1, <2>2
<1>4. ASSUME NEW d \in Coordinators, NEW e \in Coordinators, d # e,
             step'[d] \in Holding, step'[e] \in Holding
      PROVE  signal'[d] # signal'[e]
  BY <1>1, <1>4, IInvByParts DEF OthersKeep
<1>5. QED
  BY <1>2, <1>3, <1>4
  DEF IInv, RowSound, HolderSound, ReservationHasOneOwner, OneEntrySubmission,
      PostingHasEvidence, HeldIsPrepared, EvidenceIsOwned, DecisionsFollowRegistry,
      AdmittedAreHalal, TypeOK, StoreOK, LocalOK

\* Nobody holds an intent that a compare-and-set may still move.
LEMMA ReservableIsFree ==
    ASSUME IInv, NEW i \in Intents, i \notin evidence, intents[i].state # "RESERVED"
    PROVE  \A d \in Coordinators : step[d] \in Holding => signal[d] # i
  BY DEF IInv, ReservationHasOneOwner, PostingHasEvidence

\* Every step preserves the inductive invariant.
LEMMA IInvStep == IInv /\ [Next]_vars => IInv'
<1> SUFFICES ASSUME IInv, [Next]_vars PROVE IInv'
  OBVIOUS
<1>t. TypeOK /\ TypeOK'
  BY TypeStep DEF IInv
<1>p. /\ \A i \in Intents : RowSound(i)
      /\ \A c \in Coordinators : HolderSound(c)
      /\ \A c, d \in Coordinators :
            c # d /\ step[c] \in Holding /\ step[d] \in Holding => signal[c] # signal[d]
  BY <1>t, IInvByParts
<1>s. \A c \in Coordinators : step[c] # "idle" =>
          signal[c] \in Intents /\ intents[signal[c]] \in Rows /\ seen[c] \in Rows
  BY <1>t DEF TypeOK, StoreOK, LocalOK
\* Steps that leave the tables alone and do not hold afterwards.
<1>q. ASSUME NEW c \in Coordinators, OthersKeep(c), UNCHANGED <<intents, evidence, claims>>,
             step'[c] \notin Holding,
             step'[c] = "put" =>
                 /\ seen'[c].state \in InsertedStates
                 /\ seen'[c].halal => PairOf[signal'[c]] \in HalalPairs[seen'[c].sha]
      PROVE  IInv'
  <2>1. \A i \in Intents : RowSound(i)'
    BY <1>p, <1>q DEF RowSound
  <2>2. HolderSound(c)'
    BY <1>q DEF HolderSound, Holding
  <2>3. CASE Intents # {}
    <3>1. PICK i \in Intents : TRUE
      BY <2>3
    <3>2. QED BY <1>t, <1>q, <2>1, <2>2, StepAt
  <2>4. CASE Intents = {}
    BY <1>t, <1>q, <2>4
    DEF IInv, ReservationHasOneOwner, OneEntrySubmission, PostingHasEvidence,
        HeldIsPrepared, EvidenceIsOwned, DecisionsFollowRegistry, AdmittedAreHalal,
        TypeOK, StoreOK, LocalOK, Holding
  <2>5. QED BY <2>3, <2>4
\* Steps of a holder that has not claimed and leaves the tables alone.
<1>h. ASSUME NEW c \in Coordinators, OthersKeep(c), UNCHANGED <<intents, evidence, claims>>,
             step[c] \in Holding \ {"posting"}, step'[c] \in Holding \ {"posting"},
             signal'[c] = signal[c], prepared'[c] = prepared[c]
      PROVE  IInv'
  <2>1. signal[c] \in Intents
    BY <1>s, <1>h DEF Holding
  <2>2. \A i \in Intents : RowSound(i)'
    BY <1>p, <1>h DEF RowSound
  <2>3. HolderSound(c)'
    BY <1>p, <1>h DEF HolderSound, Holding
  <2>4. \A d \in Coordinators \ {c} : step[d] \in Holding => signal[d] # signal[c]
    BY <1>p, <1>h
  <2>5. QED BY <1>t, <1>h, <2>1, <2>2, <2>3, <2>4, StepAt
<1>1. ASSUME NEW c \in Coordinators, NEW i \in Intents, Gate(c, i) PROVE IInv'
  <2>1. step'[c] = "gated"
    BY <1>1, <1>t DEF Gate, TypeOK, LocalOK
  <2>2. QED
    BY <1>1, <1>t, <1>q, <2>1, OneCoordinatorMoves DEF Gate, Holding
<1>2. ASSUME NEW c \in Coordinators, LookUp(c) PROVE IInv'
  <2>1. step'[c] \in {"decide", "market", "idle"}
    BY <1>2, <1>t DEF LookUp, Goto, GotoWith, Return, TypeOK, LocalOK
  <2>2. OthersKeep(c)
    BY <1>2, <1>t, OneCoordinatorMoves DEF Continue
  <2>3. QED BY <1>2, <1>q, <2>1, <2>2 DEF LookUp, Holding
<1>3. ASSUME NEW c \in Coordinators, Decide(c) PROVE IInv'
  <2> DEFINE i == signal[c]
             halal == PairOf[i] \in HalalPairs[registry]
  <2>1. PICK s : GotoWith(c, "put", NewRow(s, halal)) /\ s \in InsertedStates
    BY <1>3 DEF Decide, InsertedStates, FinalRejections
  <2>2. /\ step'[c] = "put" /\ signal'[c] = i /\ seen'[c].state \in InsertedStates
        /\ seen'[c].halal = halal /\ seen'[c].sha = registry
    BY <2>1, <1>t DEF GotoWith, NewRow, TypeOK, LocalOK
  <2>3. OthersKeep(c)
    BY <1>3, <1>t, OneCoordinatorMoves DEF Continue
  <2>4. QED BY <1>3, <1>q, <2>2, <2>3 DEF Decide, Holding
<1>4. ASSUME NEW c \in Coordinators, RegistryUnavailable(c) \/ MarketChecksRaise(c)
      PROVE  IInv'
  <2>1. step'[c] = "idle"
    BY <1>4, <1>t DEF RegistryUnavailable, MarketChecksRaise, Return, TypeOK, LocalOK
  <2>2. OthersKeep(c)
    BY <1>4, <1>t, OneCoordinatorMoves DEF Continue
  <2>3. QED BY <1>4, <1>q, <2>1, <2>2 DEF RegistryUnavailable, MarketChecksRaise, Holding
<1>5. ASSUME NEW c \in Coordinators, PutIntent(c) PROVE IInv'
  <2>0. PICK i \in Intents : i = signal[c]
    BY <1>5, <1>s DEF PutIntent
  <2>1. OthersKeep(c)
    BY <1>5, <1>t, OneCoordinatorMoves DEF Continue
  <2>2. step[c] = "put"
    BY <1>5 DEF PutIntent
  <2>3. step'[c] \in {"market", "idle"}
    BY <1>5, <1>t DEF PutIntent, GotoWith, Return, TypeOK, LocalOK
  <2>4. intents' = [intents EXCEPT ![i] = IF intents[i].state = "ABSENT" THEN seen[c]
                                          ELSE intents[i]]
    BY <1>5, <2>0 DEF PutIntent
  <2>5. UNCHANGED <<evidence, claims>>
    BY <1>5 DEF PutIntent
  <2>6. /\ intents'[i] = IF intents[i].state = "ABSENT" THEN seen[c] ELSE intents[i]
        /\ \A j \in Intents \ {i} : intents'[j] = intents[j]
    BY <1>t, <2>0, <2>4 DEF TypeOK, StoreOK
  <2>7. intents[i].state = "ABSENT" =>
            i \notin evidence /\ \A d \in Coordinators : step[d] \in Holding => signal[d] # i
    <3>1. "ABSENT" \notin OwnedStates \cup TERMINAL_INTENT_STATES
      BY DEF OwnedStates, TERMINAL_INTENT_STATES
    <3>2. intents[i].state = "ABSENT" => i \notin evidence
      BY <1>p, <3>1 DEF RowSound
    <3>3. QED BY <3>2, ReservableIsFree
  <2>8. seen[c].state \in InsertedStates /\ (seen[c].halal => PairOf[i] \in HalalPairs[seen[c].sha])
    BY <1>p, <2>0, <2>2 DEF HolderSound
  <2>9. RowSound(i)'
    BY <1>p, <2>5, <2>6, <2>7, <2>8
    DEF RowSound, InsertedStates, FinalRejections, RejectStates, ReservableStates
  <2>10. HolderSound(c)' /\ step'[c] \notin Holding
    BY <2>3 DEF HolderSound, Holding
  <2>11. QED BY <1>t, <2>1, <2>5, <2>6, <2>7, <2>9, <2>10, StepAt
<1>6. ASSUME NEW c \in Coordinators, NEW s \in RejectStates, NEW k \in Codes,
             RejectAdmission(c, s, k)
      PROVE  IInv'
  <2>0. PICK i \in Intents : i = signal[c]
    BY <1>6, <1>s DEF RejectAdmission
  <2>1. OthersKeep(c)
    BY <1>6, <1>t, OneCoordinatorMoves DEF Continue
  <2>2. step'[c] = "idle" /\ UNCHANGED <<evidence, claims>>
    BY <1>6, <1>t DEF RejectAdmission, Return, TypeOK, LocalOK
  <2>3. CASE ~StillMine(c)
    <3>1. UNCHANGED intents
      BY <1>6, <2>3 DEF RejectAdmission
    <3>2. QED BY <1>q, <2>1, <2>2, <3>1 DEF Holding
  <2>4. CASE StillMine(c)
    <3>1. intents' = [intents EXCEPT ![i] = Rewritten(intents[i], s, k)]
      BY <1>6, <2>0, <2>4 DEF RejectAdmission
    <3>2. /\ intents'[i] = Rewritten(intents[i], s, k)
          /\ \A j \in Intents \ {i} : intents'[j] = intents[j]
      BY <1>t, <3>1 DEF TypeOK, StoreOK
    <3>3. i \notin evidence /\ intents[i].state # "RESERVED"
      BY <2>0, <2>4 DEF StillMine, ReservableStates
    <3>4. /\ intents'[i].halal = intents[i].halal /\ intents'[i].sha = intents[i].sha
          /\ intents'[i].state # "RESERVED"
      BY <3>2 DEF Rewritten, RejectStates
    <3>5. RowSound(i)'
      BY <1>p, <2>2, <3>3, <3>4 DEF RowSound
    <3>6. HolderSound(c)' /\ step'[c] \notin Holding
      BY <2>2 DEF HolderSound, Holding
    <3>7. QED BY <1>t, <2>1, <2>2, <3>2, <3>3, <3>5, <3>6, ReservableIsFree, StepAt
  <2>5. QED BY <2>3, <2>4
<1>7. ASSUME NEW c \in Coordinators, ReserveAdmission(c) PROVE IInv'
  <2>0. PICK i \in Intents : i = signal[c]
    BY <1>7, <1>s DEF ReserveAdmission
  <2>1. OthersKeep(c)
    BY <1>7, <1>t, OneCoordinatorMoves DEF Continue
  <2>2. UNCHANGED <<evidence, claims>>
    BY <1>7 DEF ReserveAdmission
  <2>3. CASE ReservationRefused(c)
    <3>1. UNCHANGED intents /\ step'[c] = "idle"
      BY <1>7, <1>t, <2>3 DEF ReserveAdmission, Return, TypeOK, LocalOK
    <3>2. QED BY <1>q, <2>1, <2>2, <3>1 DEF Holding
  <2>4. CASE ~ReservationRefused(c)
    <3>1. intents' = [intents EXCEPT ![i] = Rewritten(intents[i], Reservation(i), "OTHER")]
      BY <1>7, <2>0, <2>4 DEF ReserveAdmission
    <3>2. /\ intents'[i] = Rewritten(intents[i], Reservation(i), "OTHER")
          /\ \A j \in Intents \ {i} : intents'[j] = intents[j]
      BY <1>t, <3>1 DEF TypeOK, StoreOK
    <3>3. i \notin evidence /\ intents[i].state # "RESERVED" /\ intents[i].halal
      BY <2>0, <2>4 DEF ReservationRefused, StillMine, ReservableStates
    <3>4. /\ intents'[i].halal = intents[i].halal /\ intents'[i].sha = intents[i].sha
          /\ intents'[i].state = Reservation(i)
      BY <3>2 DEF Rewritten
    <3>5. RowSound(i)'
      BY <1>p, <2>2, <3>3, <3>4 DEF RowSound
    <3>6. CASE Reservation(i) = "RESERVED"
      <4>1. /\ step'[c] = "accepted" /\ signal'[c] = i
            /\ prepared' = [prepared EXCEPT ![c][PairOf[i]] = i]
        BY <1>7, <1>t, <2>0, <2>4, <3>6 DEF ReserveAdmission, TypeOK, LocalOK
      <4>2. PairOf[i] \in Pairs
        BY AdmissionAssumption
      <4>3. prepared'[c][PairOf[i]] = i
        BY <1>t, <4>1, <4>2 DEF TypeOK, StoreOK
      <4>4. HolderSound(c)'
        BY <2>2, <3>3, <3>4, <3>6, <4>1, <4>3 DEF HolderSound
      <4>5. QED
        BY <1>t, <2>1, <2>2, <3>2, <3>3, <3>5, <4>1, <4>4, ReservableIsFree, StepAt
    <3>7. CASE Reservation(i) # "RESERVED"
      <4>1. step'[c] = "idle"
        BY <1>7, <1>t, <2>0, <2>4, <3>7 DEF ReserveAdmission, Return, TypeOK, LocalOK
      <4>2. HolderSound(c)' /\ step'[c] \notin Holding
        BY <4>1 DEF HolderSound, Holding
      <4>3. QED
        BY <1>t, <2>1, <2>2, <3>2, <3>3, <3>5, <4>2, ReservableIsFree, StepAt
    <3>8. QED BY <3>6, <3>7
  <2>5. QED BY <2>3, <2>4
<1>8. ASSUME NEW c \in Coordinators, ReleaseReady(c) \/ SubmitRaises(c) PROVE IInv'
  <2>1. OthersKeep(c)
    BY <1>8, <1>t, OneCoordinatorMoves DEF Continue
  <2>2. /\ step[c] \in {"prepared", "cleared"} /\ step'[c] \in {"cleared", "aborting"}
        /\ signal'[c] = signal[c]
    BY <1>8, <1>t DEF ReleaseReady, SubmitRaises, Goto, TypeOK, LocalOK
  <2>3. UNCHANGED <<intents, evidence, claims, prepared>>
    BY <1>8 DEF ReleaseReady, SubmitRaises
  <2>4. QED BY <1>h, <2>1, <2>2, <2>3 DEF Holding
<1>9. ASSUME NEW c \in Coordinators, ClaimEntrySubmission(c) PROVE IInv'
  <2>0. PICK i \in Intents : i = signal[c]
    BY <1>9, <1>s DEF ClaimEntrySubmission
  <2>1. OthersKeep(c)
    BY <1>9, <1>t, OneCoordinatorMoves DEF Continue
  <2>2. step[c] = "cleared" /\ UNCHANGED prepared
    BY <1>9 DEF ClaimEntrySubmission
  <2>3. CASE step'[c] = "aborting"
    <3>1. UNCHANGED <<intents, evidence, claims>> /\ signal'[c] = signal[c]
      BY <1>9, <1>t, <2>3 DEF ClaimEntrySubmission, Goto, TypeOK, LocalOK
    <3>2. QED BY <1>h, <2>1, <2>2, <2>3, <3>1 DEF Holding
  <2>4. CASE step'[c] # "aborting"
    <3>1. /\ intents' = [intents EXCEPT ![i] = WithState(intents[i], "ENTRY_PENDING")]
          /\ evidence' = evidence \cup {i}
          /\ claims' = [claims EXCEPT ![i] = @ + 1]
          /\ step'[c] = "posting" /\ signal'[c] = i
          /\ i \notin evidence /\ intents[i].halal
      BY <1>9, <1>t, <2>0, <2>4 DEF ClaimEntrySubmission, Goto, TypeOK, LocalOK
    <3>2. /\ intents'[i] = WithState(intents[i], "ENTRY_PENDING")
          /\ \A j \in Intents \ {i} : intents'[j] = intents[j] /\ claims'[j] = claims[j]
          /\ claims'[i] = claims[i] + 1
      BY <1>t, <3>1 DEF TypeOK, StoreOK
    <3>3. /\ intents'[i].halal = intents[i].halal /\ intents'[i].sha = intents[i].sha
          /\ intents'[i].state = "ENTRY_PENDING"
      BY <3>2 DEF WithState
    <3>4. claims'[i] = 1 /\ (intents[i].halal => PairOf[i] \in HalalPairs[intents[i].sha])
      BY <1>p, <3>1, <3>2 DEF RowSound
    <3>5. RowSound(i)'
      BY <3>1, <3>3, <3>4 DEF RowSound, OwnedStates
    <3>6. HolderSound(c)'
      BY <1>p, <2>0, <2>2, <3>1 DEF HolderSound, Holding
    <3>7. \A d \in Coordinators \ {c} : step[d] \in Holding => signal[d] # i
      BY <1>p, <2>0, <2>2 DEF Holding
    <3>8. QED BY <1>t, <2>1, <3>1, <3>2, <3>5, <3>6, <3>7, StepAt
  <2>5. QED BY <2>3, <2>4
<1>10. ASSUME NEW c \in Coordinators, AbortCheck(c) PROVE IInv'
  <2>1. OthersKeep(c)
    BY <1>10, <1>t, OneCoordinatorMoves DEF Continue
  <2>2. step[c] = "aborting" /\ UNCHANGED <<intents, evidence, claims, prepared>>
    BY <1>10 DEF AbortCheck
  <2>3. prepared[c][PairOf[signal[c]]] = signal[c]
    BY <1>p, <2>2 DEF HolderSound, Holding
  <2>4. \/ Return(c)
        \/ /\ step' = [step EXCEPT ![c] = "abort_checked"]
           /\ signal' = [signal EXCEPT ![c] = signal[c]]
    BY <1>10, <2>3 DEF AbortCheck
  <2>5. \/ step'[c] = "idle"
        \/ step'[c] = "abort_checked" /\ signal'[c] = signal[c]
    BY <1>t, <2>4 DEF Return, TypeOK, LocalOK
  <2>6. QED BY <1>q, <1>h, <2>1, <2>2, <2>5 DEF Holding
<1>11. ASSUME NEW c \in Coordinators, AbortWrite(c) PROVE IInv'
  <2>0. PICK i \in Intents : i = signal[c]
    BY <1>11, <1>s DEF AbortWrite
  <2>1. OthersKeep(c)
    BY <1>11, <1>t, OneCoordinatorMoves DEF Continue
  <2>2. step[c] = "abort_checked" /\ UNCHANGED <<evidence, claims>>
    BY <1>11 DEF AbortWrite
  <2>3. intents' = [intents EXCEPT ![i] = Rewritten(intents[i], "CLOSED_NO_FILL", "OTHER")]
    BY <1>11, <2>0 DEF AbortWrite
  <2>4. step'[c] = "idle"
    BY <1>11, <1>t DEF AbortWrite, Return, TypeOK, LocalOK
  <2>5. /\ intents'[i] = Rewritten(intents[i], "CLOSED_NO_FILL", "OTHER")
        /\ \A j \in Intents \ {i} : intents'[j] = intents[j]
    BY <1>t, <2>3 DEF TypeOK, StoreOK
  <2>6. i \notin evidence
    BY <1>p, <2>0, <2>2 DEF HolderSound, Holding
  <2>7. /\ intents'[i].halal = intents[i].halal /\ intents'[i].sha = intents[i].sha
        /\ intents'[i].state # "RESERVED"
    BY <2>5 DEF Rewritten
  <2>8. RowSound(i)'
    BY <1>p, <2>2, <2>6, <2>7 DEF RowSound
  <2>9. HolderSound(c)' /\ step'[c] \notin Holding
    BY <2>4 DEF HolderSound, Holding
  <2>10. \A d \in Coordinators \ {c} : step[d] \in Holding => signal[d] # i
    BY <1>p, <2>0, <2>2 DEF Holding
  <2>11. QED BY <1>t, <2>1, <2>2, <2>5, <2>8, <2>9, <2>10, StepAt
<1>12. ASSUME NEW c \in Coordinators, EntryReturns(c) PROVE IInv'
  <2>0. PICK i \in Intents : i = signal[c]
    BY <1>12, <1>s DEF EntryReturns
  <2>1. OthersKeep(c)
    BY <1>12, <1>t, OneCoordinatorMoves DEF Continue
  <2>2. step[c] = "posting" /\ UNCHANGED <<evidence, claims>>
    BY <1>12 DEF EntryReturns
  <2>3. step'[c] = "idle"
    BY <1>12, <1>t DEF EntryReturns, Return, TypeOK, LocalOK
  <2>4. i \in evidence
    BY <1>p, <2>0, <2>2 DEF HolderSound
  <2>5. \/ intents' = intents
        \/ intents' = [intents EXCEPT ![i] = WithState(intents[i], "UNKNOWN")]
        \/ intents' = [intents EXCEPT ![i] = WithState(intents[i], "CLOSED_NO_FILL")]
        \/ intents' = [intents EXCEPT ![i] = WithTrade(intents[i], TRUE)]
    BY <1>12, <2>0 DEF EntryReturns
  <2>6. /\ \A j \in Intents \ {i} : intents'[j] = intents[j]
        /\ intents'[i].halal = intents[i].halal /\ intents'[i].sha = intents[i].sha
        /\ intents'[i].state \in {intents[i].state, "UNKNOWN", "CLOSED_NO_FILL"}
    BY <1>t, <2>5 DEF TypeOK, StoreOK, WithState, WithTrade
  <2>7. RowSound(i)'
    BY <1>p, <2>2, <2>4, <2>6 DEF RowSound, OwnedStates, TERMINAL_INTENT_STATES
  <2>8. HolderSound(c)' /\ step'[c] \notin Holding
    BY <2>3 DEF HolderSound, Holding
  <2>9. \A d \in Coordinators \ {c} : step[d] \in Holding => signal[d] # i
    BY <1>p, <2>0, <2>2 DEF Holding
  <2>10. QED BY <1>t, <2>1, <2>2, <2>6, <2>7, <2>8, <2>9, StepAt
<1>13. ASSUME NEW c \in Coordinators, NEW i \in Intents, NEW s \in ReconciledStates,
              OwnerReconciles(c, i, s)
       PROVE  IInv'
  <2>1. i \in evidence /\ UNCHANGED <<evidence, claims, step, signal, seen, prepared>>
    BY <1>13 DEF OwnerReconciles, local
  <2>2. PICK b : intents' = [intents EXCEPT ![i] = WithTrade(WithState(intents[i], s), b)]
    BY <1>13 DEF OwnerReconciles
  <2>3. /\ \A j \in Intents \ {i} : intents'[j] = intents[j]
        /\ intents'[i].halal = intents[i].halal /\ intents'[i].sha = intents[i].sha
        /\ intents'[i].state = s
    BY <1>t, <2>2 DEF TypeOK, StoreOK, WithState, WithTrade
  <2>4. s \in OwnedStates \cup TERMINAL_INTENT_STATES
    BY DEF ReconciledStates, OwnedStates, TERMINAL_INTENT_STATES
  <2>5. \A j \in Intents : RowSound(j)'
    BY <1>p, <2>1, <2>3, <2>4 DEF RowSound, OwnedStates, TERMINAL_INTENT_STATES
  <2>6. \A d \in Coordinators : HolderSound(d)'
    <3> SUFFICES ASSUME NEW d \in Coordinators PROVE HolderSound(d)'
      OBVIOUS
    <3>1. HolderSound(d)
      BY <1>p
    <3>2. step[d] \in Holding \ {"posting"} => signal[d] \in Intents \ {i}
      BY <1>s, <2>1, <3>1 DEF HolderSound, Holding
    <3>3. QED BY <2>1, <2>3, <3>1, <3>2 DEF HolderSound
  <2>7. \A d, e \in Coordinators :
            d # e /\ step'[d] \in Holding /\ step'[e] \in Holding => signal'[d] # signal'[e]
    BY <1>p, <2>1
  <2>8. QED
    BY <1>t, <2>5, <2>6, <2>7
    DEF IInv, RowSound, HolderSound, ReservationHasOneOwner, OneEntrySubmission,
        PostingHasEvidence, HeldIsPrepared, EvidenceIsOwned, DecisionsFollowRegistry,
        AdmittedAreHalal, TypeOK, StoreOK, LocalOK
<1>14. ASSUME NEW c \in Coordinators, Crash(c) PROVE IInv'
  <2>1. step'[c] = "idle"
    BY <1>14, <1>t DEF Crash, Strand, Return, TypeOK, LocalOK
  <2>2. OthersKeep(c)
    BY <1>14, <1>t, OneCoordinatorMoves
  <2>3. QED BY <1>14, <1>q, <2>1, <2>2 DEF Crash, Holding
<1>15. CASE \/ \E v \in Versions : EditRegistry(v)
            \/ UNCHANGED vars
  <2>1. UNCHANGED <<intents, evidence, step, signal, seen, prepared, claims>>
    BY <1>15 DEF EditRegistry, vars, local
  <2>2. QED
    BY <1>t, <2>1
    DEF IInv, ReservationHasOneOwner, OneEntrySubmission, PostingHasEvidence,
        HeldIsPrepared, EvidenceIsOwned, DecisionsFollowRegistry, AdmittedAreHalal
<1>16. ASSUME NEW c \in Coordinators, JournalAccepted(c) PROVE IInv'
  <2>1. OthersKeep(c)
    BY <1>16, <1>t, OneCoordinatorMoves DEF Continue
  <2>2. step[c] = "accepted" /\ step'[c] = "prepared" /\ signal'[c] = signal[c]
    BY <1>16, <1>t DEF JournalAccepted, Goto, TypeOK, LocalOK
  <2>3. UNCHANGED <<intents, evidence, claims, prepared>>
    BY <1>16 DEF JournalAccepted
  <2>4. QED BY <1>h, <2>1, <2>2, <2>3 DEF Holding
<1>17. ASSUME NEW c \in Coordinators, JournalRaises(c) \/ AbortRaises(c) PROVE IInv'
  <2>1. OthersKeep(c)
    BY <1>17, <1>t, OneCoordinatorMoves DEF Continue
  <2>2. step'[c] = "idle" /\ UNCHANGED <<intents, evidence, claims>>
    BY <1>17, <1>t DEF JournalRaises, AbortRaises, Strand, Return, TypeOK, LocalOK
  <2>3. QED BY <1>q, <2>1, <2>2 DEF Holding
<1>18. QED
  BY <1>1, <1>2, <1>3, <1>4, <1>5, <1>6, <1>7, <1>8, <1>9, <1>10, <1>11, <1>12,
     <1>13, <1>14, <1>15, <1>16, <1>17 DEF Next, Continue

\* The invariant holds of every reachable state.
THEOREM Inductive == Spec => []IInv
<1>1. Init => IInv
  <2>1. Init => TypeOK
    BY AdmissionAssumption, NoRowIsRow DEF Init, TypeOK, StoreOK, LocalOK, Steps
  <2>2. QED
    BY <2>1
    DEF Init, IInv, ReservationHasOneOwner, OneEntrySubmission, PostingHasEvidence,
        HeldIsPrepared, EvidenceIsOwned, DecisionsFollowRegistry, AdmittedAreHalal,
        NoRow, Holding
<1>2. QED BY <1>1, IInvStep, PTL DEF Spec

\* reserve_admission gives a reservation to one coordinator, and abort_prepared
\* closes only what its caller holds, for any number of coordinators.
THEOREM ReservationsExclusive == Spec => []ReservationHasOneOwner
<1>1. IInv => ReservationHasOneOwner
  BY DEF IInv
<1>2. QED BY <1>1, Inductive, PTL

\* claim_entry_submission authorises one entry POST per intent, for any number of
\* coordinators, crashes and replays.
THEOREM SubmissionsUnique == Spec => []OneEntrySubmission
<1>1. IInv => OneEntrySubmission
  BY DEF IInv
<1>2. QED BY <1>1, Inductive, PTL

\* An entry is only claimed for a pair the recorded registry version allows.
THEOREM SubmissionsHalal == Spec => []OnlyHalalSubmitted
<1>1. IInv => OnlyHalalSubmitted
  BY DEF IInv, OnlyHalalSubmitted, AdmittedAreHalal, DecisionsFollowRegistry,
         TypeOK, StoreOK
<1>2. QED BY <1>1, Inductive, PTL

-----------------------------------------------------------------------------
(* The action properties follow from the ways a step may write a row. *)

Kept(i) ==
    /\ intents'[i] = intents[i] /\ claims'[i] = claims[i]
    /\ i \in evidence' <=> i \in evidence

SameDecision(i) == intents'[i].halal = intents[i].halal /\ intents'[i].sha = intents[i].sha

\* A row is kept, inserted, moved by a compare-and-set or by the holder of its
\* reservation, or reconciled after its claim.
RowMove(i) ==
    \/ Kept(i)
    \/ intents[i].state = "ABSENT"
    \/ /\ intents[i].state \in ReservableStates \cup {"RESERVED"} /\ i \notin evidence
       /\ SameDecision(i)
    \/ /\ i \in evidence
       /\ SameDecision(i)
       /\ intents'[i].state \in OwnedStates \cup TERMINAL_INTENT_STATES

LEMMA RowMoves == IInv /\ [Next]_vars => \A i \in Intents : RowMove(i)
<1> SUFFICES ASSUME IInv, [Next]_vars, NEW j \in Intents PROVE RowMove(j)
  OBVIOUS
<1>t. TypeOK
  BY DEF IInv
<1>s. \A c \in Coordinators : step[c] # "idle" => signal[c] \in Intents
  BY <1>t DEF TypeOK, LocalOK
<1>k. ASSUME UNCHANGED <<intents, evidence, claims>> PROVE RowMove(j)
  BY <1>k DEF RowMove, Kept
<1>h. \A c \in Coordinators :
          /\ step[c] \in Holding \ {"posting"} =>
                intents[signal[c]].state = "RESERVED" /\ signal[c] \notin evidence
          /\ step[c] = "posting" => signal[c] \in evidence
  BY DEF IInv, ReservationHasOneOwner, PostingHasEvidence
<1>1. ASSUME NEW c \in Coordinators, PutIntent(c) PROVE RowMove(j)
  <2>1. UNCHANGED <<evidence, claims>>
    BY <1>1 DEF PutIntent
  <2>2. intents'[j] = intents[j] \/ intents[j].state = "ABSENT"
    BY <1>1, <1>t, <1>s DEF PutIntent, TypeOK, StoreOK
  <2>3. QED BY <2>1, <2>2 DEF RowMove, Kept
<1>2. ASSUME NEW c \in Coordinators, NEW s, NEW k, RejectAdmission(c, s, k)
      PROVE  RowMove(j)
  <2>1. UNCHANGED <<evidence, claims>>
    BY <1>2 DEF RejectAdmission
  <2>2. \/ intents'[j] = intents[j]
        \/ /\ intents[j].state \in ReservableStates /\ j \notin evidence
           /\ intents'[j] = Rewritten(intents[j], s, k)
    BY <1>2, <1>t, <1>s DEF RejectAdmission, StillMine, TypeOK, StoreOK
  <2>3. QED BY <2>1, <2>2 DEF RowMove, Kept, SameDecision, Rewritten
<1>3. ASSUME NEW c \in Coordinators, ReserveAdmission(c) PROVE RowMove(j)
  <2>1. UNCHANGED <<evidence, claims>>
    BY <1>3 DEF ReserveAdmission
  <2>2. \/ intents'[j] = intents[j]
        \/ /\ intents[j].state \in ReservableStates /\ j \notin evidence
           /\ intents'[j] = Rewritten(intents[j], Reservation(j), "OTHER")
    BY <1>3, <1>t, <1>s
    DEF ReserveAdmission, ReservationRefused, StillMine, TypeOK, StoreOK
  <2>3. QED BY <2>1, <2>2 DEF RowMove, Kept, SameDecision, Rewritten
<1>4. ASSUME NEW c \in Coordinators, ClaimEntrySubmission(c) PROVE RowMove(j)
  <2>1. \/ UNCHANGED <<intents, evidence, claims>>
        \/ /\ intents' = [intents EXCEPT ![signal[c]] = WithState(@, "ENTRY_PENDING")]
           /\ evidence' = evidence \cup {signal[c]}
           /\ claims' = [claims EXCEPT ![signal[c]] = @ + 1]
           /\ intents[signal[c]].state = "RESERVED" /\ signal[c] \notin evidence
    BY <1>4 DEF ClaimEntrySubmission
  <2>2. \/ Kept(j)
        \/ /\ intents[j].state = "RESERVED" /\ j \notin evidence
           /\ intents'[j] = WithState(intents[j], "ENTRY_PENDING")
    BY <1>t, <2>1 DEF Kept, TypeOK, StoreOK
  <2>3. QED BY <2>2 DEF RowMove, SameDecision, WithState
<1>5. ASSUME NEW c \in Coordinators, AbortWrite(c) PROVE RowMove(j)
  <2>1. /\ UNCHANGED <<evidence, claims>>
        /\ intents' = [intents EXCEPT ![signal[c]] = Rewritten(@, "CLOSED_NO_FILL", "OTHER")]
        /\ step[c] = "abort_checked"
    BY <1>5 DEF AbortWrite
  <2>2. intents[signal[c]].state = "RESERVED" /\ signal[c] \notin evidence
    BY <1>h, <2>1 DEF Holding
  <2>3. \/ intents'[j] = intents[j]
        \/ /\ j = signal[c]
           /\ intents'[j] = Rewritten(intents[j], "CLOSED_NO_FILL", "OTHER")
    BY <1>t, <2>1 DEF TypeOK, StoreOK
  <2>4. QED BY <2>1, <2>2, <2>3 DEF RowMove, Kept, SameDecision, Rewritten
<1>6. ASSUME NEW c \in Coordinators, EntryReturns(c) PROVE RowMove(j)
  <2>1. UNCHANGED <<evidence, claims>> /\ step[c] = "posting"
    BY <1>6 DEF EntryReturns
  <2>2. signal[c] \in evidence
    BY <1>h, <2>1
  <2>3. \/ intents' = intents
        \/ intents' = [intents EXCEPT ![signal[c]] = WithState(@, "UNKNOWN")]
        \/ intents' = [intents EXCEPT ![signal[c]] = WithState(@, "CLOSED_NO_FILL")]
        \/ intents' = [intents EXCEPT ![signal[c]] = WithTrade(@, TRUE)]
    BY <1>6 DEF EntryReturns
  <2>4. \/ intents'[j] = intents[j]
        \/ /\ j \in evidence
           /\ \/ intents'[j] = WithState(intents[j], "UNKNOWN")
              \/ intents'[j] = WithState(intents[j], "CLOSED_NO_FILL")
              \/ intents'[j] = WithTrade(intents[j], TRUE)
    BY <1>t, <2>2, <2>3 DEF TypeOK, StoreOK
  <2>5. j \in evidence => intents[j].state \in OwnedStates \cup TERMINAL_INTENT_STATES
    BY DEF IInv, EvidenceIsOwned
  <2>6. QED
    BY <2>1, <2>4, <2>5
    DEF RowMove, Kept, SameDecision, WithState, WithTrade, OwnedStates, TERMINAL_INTENT_STATES
<1>7. ASSUME NEW c \in Coordinators, NEW i \in Intents, NEW s \in ReconciledStates,
             OwnerReconciles(c, i, s)
      PROVE  RowMove(j)
  <2>1. i \in evidence /\ UNCHANGED <<evidence, claims>>
    BY <1>7 DEF OwnerReconciles
  <2>2. PICK b : intents' = [intents EXCEPT ![i] = WithTrade(WithState(@, s), b)]
    BY <1>7 DEF OwnerReconciles
  <2>3. \/ intents'[j] = intents[j]
        \/ /\ j \in evidence
           /\ intents'[j] = WithTrade(WithState(intents[j], s), b)
    BY <1>t, <2>1, <2>2 DEF TypeOK, StoreOK
  <2>4. s \in OwnedStates \cup TERMINAL_INTENT_STATES
    BY DEF ReconciledStates, OwnedStates, TERMINAL_INTENT_STATES
  <2>5. QED BY <2>1, <2>3, <2>4 DEF RowMove, Kept, SameDecision, WithState, WithTrade
<1>8. QED
  <2>1. CASE \E c \in Coordinators, i \in Intents : Gate(c, i)
    BY <1>k, <2>1 DEF Gate
  <2>2. ASSUME NEW c \in Coordinators, Continue(c) PROVE RowMove(j)
    BY <1>k, <1>1, <1>2, <1>3, <1>4, <1>5, <1>6, <2>2
    DEF Continue, LookUp, Decide, RegistryUnavailable, MarketChecksRaise, JournalAccepted,
        JournalRaises, ReleaseReady, SubmitRaises, AbortCheck, AbortRaises
  <2>3. CASE \E c \in Coordinators : Crash(c)
    BY <1>k, <2>3 DEF Crash
  <2>4. CASE (\E v \in Versions : EditRegistry(v)) \/ UNCHANGED vars
    BY <1>k, <2>4 DEF EditRegistry, vars
  <2>5. QED BY <1>7, <2>1, <2>2, <2>3, <2>4 DEF Next

\* A stale market read never overwrites a concurrent order life cycle, and a
\* recorded decision is never rewritten, for any number of coordinators.
THEOREM LifecycleProtected == Spec => LifecycleNotOverwritten
<1>1. ASSUME IInv, [Next]_vars, NEW i \in Intents
      PROVE  /\ i \in evidence =>
                    intents'[i].state \in OwnedStates \cup TERMINAL_INTENT_STATES
             /\ intents[i].state # "ABSENT" => SameDecision(i)
  <2>1. RowMove(i)
    BY <1>1, RowMoves
  <2>2. i \in evidence => intents[i].state \in OwnedStates \cup TERMINAL_INTENT_STATES
    BY <1>1 DEF IInv, EvidenceIsOwned
  <2>3. "ABSENT" \notin OwnedStates \cup TERMINAL_INTENT_STATES
    BY DEF OwnedStates, TERMINAL_INTENT_STATES
  <2>4. QED BY <2>1, <2>2, <2>3 DEF RowMove, Kept, SameDecision
<1>2. IInv /\ [Next]_vars =>
          [\A i \in Intents :
              /\ i \in evidence =>
                    intents'[i].state \in OwnedStates \cup TERMINAL_INTENT_STATES
              /\ intents[i].state # "ABSENT" =>
                    /\ intents'[i].halal = intents[i].halal
                    /\ intents'[i].sha = intents[i].sha]_vars
  BY <1>1 DEF SameDecision
<1>3. QED BY <1>2, Inductive, PTL DEF Spec, LifecycleNotOverwritten

\* A finally rejected or aborted signal keeps its state and is never submitted.
THEOREM RejectionsFinal == Spec => RejectionIsFinal
<1>1. ASSUME IInv, [Next]_vars, NEW i \in Intents,
             intents[i].state \in FinalRejections \cup {"CLOSED_NO_FILL"}, i \notin evidence
      PROVE  intents'[i].state = intents[i].state /\ claims'[i] = claims[i]
  <2>1. RowMove(i)
    BY <1>1, RowMoves
  <2>2. intents[i].state \notin ReservableStates \cup {"RESERVED", "ABSENT"}
    BY <1>1 DEF FinalRejections, RejectStates, ReservableStates
  <2>3. QED BY <1>1, <2>1, <2>2 DEF RowMove, Kept
<1>2. IInv /\ [Next]_vars =>
          [\A i \in Intents :
              /\ intents[i].state \in FinalRejections \cup {"CLOSED_NO_FILL"}
              /\ i \notin evidence
              => intents'[i].state = intents[i].state /\ claims'[i] = claims[i]]_vars
  BY <1>1
<1>3. QED BY <1>2, Inductive, PTL DEF Spec, RejectionIsFinal

-----------------------------------------------------------------------------
(* Stranded reservations: a row is moved by a compare-and-set, which a RESERVED *)
(* row fails, by its holder, or after its claim.                                *)

\* An inert reservation stays inert.
LEMMA InertStays ==
    ASSUME IInv, [Next]_vars, NEW i \in Intents, Inert(i)
    PROVE  Inert(i)'
<1>t. TypeOK
  BY DEF IInv
<1>s. \A c \in Coordinators : step[c] # "idle" => signal[c] \in Intents
  BY <1>t DEF TypeOK, LocalOK
<1>r. /\ intents[i].state = "RESERVED" /\ claims[i] = 0 /\ i \notin evidence
      /\ \A c \in Coordinators : step[c] \in Holding => signal[c] # i
  BY DEF Inert, IInv, OneEntrySubmission
<1>q. ASSUME UNCHANGED <<intents, claims>>, NEW c \in Coordinators, OthersKeep(c),
             step'[c] \in Holding => signal'[c] # i
      PROVE  Inert(i)'
  BY <1>r, <1>q DEF Inert, OthersKeep
<1>w. ASSUME intents'[i] = intents[i], claims'[i] = claims[i],
             NEW c \in Coordinators, OthersKeep(c), step'[c] \in Holding => signal'[c] # i
      PROVE  Inert(i)'
  BY <1>r, <1>w DEF Inert, OthersKeep
<1>1. ASSUME NEW c \in Coordinators, NEW j \in Intents, Gate(c, j) PROVE Inert(i)'
  <2>1. step'[c] = "gated" /\ UNCHANGED <<intents, claims>>
    BY <1>1, <1>t DEF Gate, TypeOK, LocalOK
  <2>2. QED BY <1>1, <1>t, <1>q, <2>1, OneCoordinatorMoves DEF Holding
<1>2. ASSUME NEW c \in Coordinators, Continue(c) PROVE Inert(i)'
  <2>o. OthersKeep(c)
    BY <1>2, <1>t, OneCoordinatorMoves
  <2>1. CASE LookUp(c) \/ Decide(c) \/ RegistryUnavailable(c) \/ MarketChecksRaise(c)
             \/ JournalRaises(c) \/ AbortRaises(c)
    <3>1. step'[c] \in {"decide", "market", "put", "idle"} /\ UNCHANGED <<intents, claims>>
      BY <1>t, <2>1
      DEF LookUp, Decide, RegistryUnavailable, MarketChecksRaise, JournalRaises, AbortRaises,
          Strand, Goto, GotoWith, Return, TypeOK, LocalOK
    <3>2. QED BY <1>q, <2>o, <3>1 DEF Holding
  <2>2. CASE JournalAccepted(c) \/ ReleaseReady(c) \/ SubmitRaises(c)
    <3>1. /\ step[c] \in Holding /\ signal'[c] = signal[c]
          /\ UNCHANGED <<intents, claims>>
      BY <1>t, <2>2
      DEF JournalAccepted, ReleaseReady, SubmitRaises, Goto, Holding, TypeOK, LocalOK
    <3>2. QED BY <1>q, <1>r, <2>o, <3>1
  <2>3. CASE PutIntent(c)
    <3>1. intents'[i] = intents[i] /\ UNCHANGED claims /\ step'[c] \in {"market", "idle"}
      BY <1>t, <1>s, <1>r, <2>3
      DEF PutIntent, GotoWith, Return, TypeOK, StoreOK, LocalOK
    <3>2. QED BY <1>w, <2>o, <3>1 DEF Holding
  <2>4. ASSUME NEW s \in RejectStates, NEW k \in Codes, RejectAdmission(c, s, k)
        PROVE  Inert(i)'
    <3>1. intents'[i] = intents[i] /\ UNCHANGED claims /\ step'[c] = "idle"
      BY <1>t, <1>s, <1>r, <2>4
      DEF RejectAdmission, StillMine, ReservableStates, Return, TypeOK, StoreOK, LocalOK
    <3>2. QED BY <1>w, <2>o, <3>1 DEF Holding
  <2>5. CASE ReserveAdmission(c)
    <3>0. signal[c] \in Intents /\ UNCHANGED claims
      BY <1>s, <2>5 DEF ReserveAdmission
    <3>1. CASE ReservationRefused(c)
      <4>1. UNCHANGED intents /\ step'[c] = "idle"
        BY <1>t, <2>5, <3>1 DEF ReserveAdmission, Return, TypeOK, LocalOK
      <4>2. QED BY <1>q, <2>o, <3>0, <4>1 DEF Holding
    <3>2. CASE ~ReservationRefused(c)
      <4>1. signal[c] # i
        BY <1>r, <3>2 DEF ReservationRefused, StillMine, ReservableStates
      <4>2. \E row : intents' = [intents EXCEPT ![signal[c]] = row]
        BY <2>5, <3>2 DEF ReserveAdmission
      <4>3. intents'[i] = intents[i]
        BY <1>t, <4>1, <4>2 DEF TypeOK, StoreOK
      <4>4. step'[c] = "idle" \/ signal'[c] = signal[c]
        BY <1>t, <2>5 DEF ReserveAdmission, Return, TypeOK, LocalOK
      <4>5. QED BY <1>w, <2>o, <3>0, <4>1, <4>3, <4>4 DEF Holding
    <3>3. QED BY <3>1, <3>2
  <2>6. CASE ClaimEntrySubmission(c)
    <3>1. step[c] \in Holding /\ signal[c] # i /\ signal'[c] = signal[c]
      BY <1>r, <1>t, <2>6 DEF ClaimEntrySubmission, Goto, Holding, TypeOK, LocalOK
    <3>2. intents'[i] = intents[i] /\ claims'[i] = claims[i]
      BY <1>t, <2>6, <3>1 DEF ClaimEntrySubmission, TypeOK, StoreOK
    <3>3. QED BY <1>w, <2>o, <3>1, <3>2
  <2>7. CASE AbortCheck(c)
    <3>1. prepared[c][PairOf[signal[c]]] = signal[c] /\ signal[c] # i
      BY <1>r, <2>7 DEF AbortCheck, IInv, HeldIsPrepared, Holding
    <3>2. /\ UNCHANGED <<intents, claims>>
          /\ step'[c] = "idle" \/ signal'[c] = signal[c]
      BY <1>t, <2>7, <3>1 DEF AbortCheck, Return, TypeOK, LocalOK
    <3>3. QED BY <1>q, <2>o, <3>1, <3>2 DEF Holding
  <2>8. CASE AbortWrite(c)
    <3>1. signal[c] # i /\ step'[c] = "idle" /\ UNCHANGED claims
      BY <1>r, <1>t, <2>8 DEF AbortWrite, Return, Holding, TypeOK, LocalOK
    <3>2. intents'[i] = intents[i]
      BY <1>t, <2>8, <3>1 DEF AbortWrite, TypeOK, StoreOK
    <3>3. QED BY <1>w, <2>o, <3>1, <3>2 DEF Holding
  <2>9. CASE EntryReturns(c)
    <3>1. signal[c] # i /\ step'[c] = "idle" /\ UNCHANGED claims
      BY <1>r, <1>t, <2>9 DEF EntryReturns, Return, Holding, TypeOK, LocalOK
    <3>2. intents'[i] = intents[i]
      BY <1>t, <2>9, <3>1 DEF EntryReturns, TypeOK, StoreOK
    <3>3. QED BY <1>w, <2>o, <3>1, <3>2 DEF Holding
  <2>10. QED
    BY <1>2, <2>1, <2>2, <2>3, <2>4, <2>5, <2>6, <2>7, <2>8, <2>9 DEF Continue
<1>3. ASSUME NEW c \in Coordinators, Crash(c) PROVE Inert(i)'
  <2>1. step'[c] = "idle" /\ UNCHANGED <<intents, claims>>
    BY <1>3, <1>t DEF Crash, Strand, Return, TypeOK, LocalOK
  <2>2. QED BY <1>3, <1>t, <1>q, <2>1, OneCoordinatorMoves DEF Holding
<1>4. ASSUME NEW c \in Coordinators, NEW j \in Intents, NEW s \in ReconciledStates,
             OwnerReconciles(c, j, s)
      PROVE  Inert(i)'
  <2>1. j # i /\ UNCHANGED <<claims, step, signal>>
    BY <1>4, <1>r DEF OwnerReconciles, local
  <2>2. \E row : intents' = [intents EXCEPT ![j] = row]
    BY <1>4 DEF OwnerReconciles
  <2>3. intents'[i] = intents[i]
    BY <1>t, <2>1, <2>2 DEF TypeOK, StoreOK
  <2>4. QED BY <1>r, <2>1, <2>3 DEF Inert
<1>5. CASE (\E v \in Versions : EditRegistry(v)) \/ UNCHANGED vars
  BY <1>r, <1>5 DEF EditRegistry, vars, local, Inert
<1>6. QED BY <1>1, <1>2, <1>3, <1>4, <1>5 DEF Next

\* A holder that has not claimed leaves an inert reservation behind.
LEMMA StrandingIsInert ==
    ASSUME IInv, NEW c \in Coordinators, step[c] \in Holding \ {"posting"},
           NEW i, i = signal[c],
           OthersKeep(c), step'[c] = "idle", UNCHANGED <<intents, claims>>
    PROVE  Inert(i)'
<1>1. intents[i].state = "RESERVED" /\ i \notin evidence /\ i \in Intents
  BY DEF IInv, ReservationHasOneOwner, TypeOK, LocalOK, Holding
<1>2. claims[i] = 0
  BY <1>1 DEF IInv, OneEntrySubmission
<1>3. \A d \in Coordinators \ {c} : step[d] \in Holding => signal[d] # i
  BY DEF IInv, ReservationHasOneOwner
<1>4. QED BY <1>1, <1>2, <1>3 DEF Inert, OthersKeep, Holding

\* A reservation that an exception or a crash left behind is never claimed,
\* whatever coordinators race for its signal and replay it.
THEOREM StrandedHarmless == Spec => []StrandedIsInert
<1>1. Init => StrandedIsInert
  BY DEF Init, StrandedIsInert
<1>2. IInv /\ StrandedIsInert /\ [Next]_vars => StrandedIsInert'
  <2> SUFFICES ASSUME IInv, StrandedIsInert, [Next]_vars, NEW i \in stranded'
               PROVE  Inert(i)'
    BY DEF StrandedIsInert
  <2>0. TypeOK /\ stranded \subseteq Intents
    BY DEF IInv, TypeOK, StoreOK
  <2>1. CASE i \in stranded
    BY <2>0, <2>1, InertStays DEF StrandedIsInert
  <2>2. CASE i \notin stranded
    <3>1. PICK c \in Coordinators :
              /\ JournalRaises(c) \/ AbortRaises(c) \/ (Crash(c) /\ Strand(c))
              /\ i = signal[c]
      BY <2>2
      DEF Next, Continue, vars, Gate, LookUp, Decide, RegistryUnavailable, PutIntent,
          RejectAdmission, ReserveAdmission, MarketChecksRaise, JournalAccepted, JournalRaises,
          ReleaseReady, SubmitRaises, ClaimEntrySubmission, AbortCheck, AbortWrite, AbortRaises,
          EntryReturns, OwnerReconciles, Crash, Strand, EditRegistry
    <3>2. step[c] \in Holding \ {"posting"}
      BY <2>2, <3>1 DEF JournalRaises, AbortRaises, Crash, Holding
    <3>3. step'[c] = "idle" /\ UNCHANGED <<intents, claims>>
      BY <2>0, <3>1 DEF JournalRaises, AbortRaises, Crash, Strand, Return, TypeOK, LocalOK
    <3>4. OthersKeep(c)
      BY <2>0, <3>1, OneCoordinatorMoves DEF Continue
    <3>5. QED BY <3>1, <3>2, <3>3, <3>4, StrandingIsInert
  <2>3. QED BY <2>1, <2>2
<1>3. QED BY <1>1, <1>2, Inductive, PTL DEF Spec

-----------------------------------------------------------------------------
(* The slot limit: only a reservation adds to the exposed intents. *)

\* The states of Committed intents.
CommittedStates == OCCUPYING_STATES \ {"HALAL_DECIDED"}

\* A step other than a reservation adds no exposed intent.
LEMMA ExposureShrinks ==
    ASSUME IInv, [Next]_vars, \A c \in Coordinators : ~ReserveAdmission(c)
    PROVE  Exposed' \subseteq Exposed
<1> SUFFICES ASSUME NEW j \in Intents, intents'[j].state \in CommittedStates, j \notin reopened'
             PROVE  intents[j].state \in CommittedStates /\ j \notin reopened
  BY DEF Exposed, Committed, CommittedStates
<1>t. TypeOK
  BY DEF IInv
<1>s. \A c \in Coordinators : step[c] # "idle" => signal[c] \in Intents
  BY <1>t DEF TypeOK, LocalOK
<1>o. /\ CommittedStates = {"RESERVED"} \cup OwnedStates
      /\ CommittedStates \cap (InsertedStates \cup RejectStates \cup TERMINAL_INTENT_STATES) = {}
  BY DEF CommittedStates, OCCUPYING_STATES, OwnedStates, InsertedStates, FinalRejections,
         RejectStates, ReservableStates, TERMINAL_INTENT_STATES
<1>k. ASSUME UNCHANGED <<intents, reopened>>
      PROVE  intents[j].state \in CommittedStates /\ j \notin reopened
  BY <1>k
<1>1. ASSUME NEW c \in Coordinators, PutIntent(c)
      PROVE  intents[j].state \in CommittedStates /\ j \notin reopened
  <2>1. UNCHANGED reopened /\ step[c] = "put"
    BY <1>1 DEF PutIntent
  <2>2. intents'[j] = intents[j] \/ intents'[j] = seen[c]
    BY <1>1, <1>t, <1>s DEF PutIntent, TypeOK, StoreOK
  <2>3. seen[c].state \in InsertedStates
    BY <2>1 DEF IInv, DecisionsFollowRegistry
  <2>4. QED BY <1>o, <2>1, <2>2, <2>3
<1>2. ASSUME NEW c \in Coordinators, NEW s \in RejectStates, NEW k, RejectAdmission(c, s, k)
      PROVE  intents[j].state \in CommittedStates /\ j \notin reopened
  <2>1. UNCHANGED reopened
    BY <1>2 DEF RejectAdmission
  <2>2. intents'[j] = intents[j] \/ intents'[j] = Rewritten(intents[j], s, k)
    BY <1>2, <1>t, <1>s DEF RejectAdmission, TypeOK, StoreOK
  <2>3. intents'[j] = intents[j] \/ intents'[j].state = s
    BY <2>2 DEF Rewritten
  <2>4. QED BY <1>o, <2>1, <2>3
<1>3. ASSUME NEW c \in Coordinators, ClaimEntrySubmission(c)
      PROVE  intents[j].state \in CommittedStates /\ j \notin reopened
  <2>1. /\ UNCHANGED reopened
        /\ \/ UNCHANGED intents
           \/ /\ intents' = [intents EXCEPT ![signal[c]] = WithState(@, "ENTRY_PENDING")]
              /\ intents[signal[c]].state = "RESERVED"
    BY <1>3 DEF ClaimEntrySubmission
  <2>2. intents'[j] = intents[j] \/ intents[j].state = "RESERVED"
    BY <1>t, <2>1 DEF TypeOK, StoreOK
  <2>3. QED BY <1>o, <2>1, <2>2
<1>4. ASSUME NEW c \in Coordinators, AbortWrite(c)
      PROVE  intents[j].state \in CommittedStates /\ j \notin reopened
  <2>1. /\ UNCHANGED reopened
        /\ intents' = [intents EXCEPT ![signal[c]] = Rewritten(@, "CLOSED_NO_FILL", "OTHER")]
    BY <1>4 DEF AbortWrite
  <2>2. intents'[j] = intents[j] \/ intents'[j].state = "CLOSED_NO_FILL"
    BY <1>t, <2>1 DEF TypeOK, StoreOK, Rewritten
  <2>3. QED BY <1>o, <2>1, <2>2 DEF TERMINAL_INTENT_STATES
<1>5. ASSUME NEW c \in Coordinators, EntryReturns(c)
      PROVE  intents[j].state \in CommittedStates /\ j \notin reopened
  <2>1. PICK i \in Intents : i = signal[c] /\ i \in evidence
    BY <1>5, <1>s DEF EntryReturns, IInv, PostingHasEvidence
  <2>2. intents[i].state \in OwnedStates \cup TERMINAL_INTENT_STATES
    BY <2>1 DEF IInv, EvidenceIsOwned
  <2>3. \/ UNCHANGED <<intents, reopened>>
        \/ /\ intents' = [intents EXCEPT ![i] = WithState(@, "UNKNOWN")]
           /\ Reopens(i, "UNKNOWN")
        \/ /\ intents' = [intents EXCEPT ![i] = WithState(@, "CLOSED_NO_FILL")]
           /\ UNCHANGED reopened
        \/ /\ intents' = [intents EXCEPT ![i] = WithTrade(@, TRUE)]
           /\ UNCHANGED reopened
    BY <1>5, <2>1 DEF EntryReturns
  <2>4. /\ j \notin reopened
        /\ \/ intents'[j].state = intents[j].state
           \/ intents'[j].state = "CLOSED_NO_FILL"
           \/ /\ j = i
              /\ intents[i].state \in TERMINAL_INTENT_STATES => i \in reopened'
    BY <1>t, <2>3 DEF TypeOK, StoreOK, WithState, WithTrade, Reopens, OwnedStates
  <2>5. QED BY <1>o, <2>2, <2>4 DEF TERMINAL_INTENT_STATES
<1>6. ASSUME NEW c \in Coordinators, NEW i \in Intents, NEW s \in ReconciledStates,
             OwnerReconciles(c, i, s)
      PROVE  intents[j].state \in CommittedStates /\ j \notin reopened
  <2>1. Reopens(i, s) /\ \/ intents[i].state \in OwnedStates
                         \/ intents[i].state = "DUST_RETAINED" /\ s \in OwnedStates
    BY <1>6 DEF OwnerReconciles
  <2>2. PICK b : intents' = [intents EXCEPT ![i] = WithTrade(WithState(@, s), b)]
    BY <1>6 DEF OwnerReconciles
  <2>3. intents'[j] = intents[j] \/ j = i
    BY <1>t, <2>2 DEF TypeOK, StoreOK
  <2>4. /\ j \notin reopened
        /\ intents[i].state = "DUST_RETAINED" /\ s \in OwnedStates => i \in reopened'
    BY <2>1 DEF Reopens, TERMINAL_INTENT_STATES
  <2>5. QED BY <1>o, <2>1, <2>3, <2>4
<1>7. QED
  <2>1. CASE \E c \in Coordinators, i \in Intents : Gate(c, i)
    BY <1>k, <2>1 DEF Gate
  <2>2. ASSUME NEW c \in Coordinators, Continue(c)
        PROVE  intents[j].state \in CommittedStates /\ j \notin reopened
    BY <1>k, <1>1, <1>2, <1>3, <1>4, <1>5, <2>2
    DEF Continue, LookUp, Decide, RegistryUnavailable, MarketChecksRaise, JournalAccepted,
        JournalRaises, ReleaseReady, SubmitRaises, AbortCheck, AbortRaises
  <2>3. CASE \E c \in Coordinators : Crash(c)
    BY <1>k, <2>3 DEF Crash
  <2>4. CASE (\E v \in Versions : EditRegistry(v)) \/ UNCHANGED vars
    BY <1>k, <2>4 DEF EditRegistry, vars
  <2>5. QED BY <1>6, <2>1, <2>2, <2>3, <2>4 DEF Next

\* A reservation that is granted stays within the slots.
LEMMA ReservationFits ==
    ASSUME IInv, TypeOK', SlotsWithinLimit, NEW c \in Coordinators, ReserveAdmission(c)
    PROVE  SlotsWithinLimit'
<1>0. PICK i \in Intents : i = signal[c]
  BY DEF ReserveAdmission, IInv, TypeOK, LocalOK
<1>t. TypeOK /\ UNCHANGED reopened
  BY DEF IInv, ReserveAdmission
<1>f. IsFiniteSet(Intents) /\ MaxSlots \in Nat
  BY AdmissionAssumption
<1>1. CASE intents'[i].state = "RESERVED" /\ ~ReservationRefused(c)
  <2> DEFINE others == Occupying(intents) \ {i}
  <2>1. intents' = [intents EXCEPT ![i] = Rewritten(@, Reservation(i), "OTHER")]
    BY <1>0, <1>1 DEF ReserveAdmission
  <2>2. Reservation(i) = "RESERVED"
    BY <1>1, <1>t, <2>1 DEF Rewritten, TypeOK, StoreOK
  <2>3. IsFiniteSet(others) /\ Cardinality(others) \in Nat
    BY <1>f, FS_Subset, FS_CardinalityType DEF Occupying
  <2>4. Cardinality(others) < MaxSlots
    BY <1>f, <2>2, <2>3 DEF Reservation
  <2>5. Exposed' \subseteq others \cup {i}
    BY <1>t, <2>1 DEF Exposed, Committed, Occupying, TypeOK, StoreOK
  <2> HIDE DEF others
  <2>6. IsFiniteSet(others \cup {i}) /\ Cardinality(others \cup {i}) <= Cardinality(others) + 1
    <3>1. IsFiniteSet(others \cup {i})
      BY <2>3, FS_AddElement
    <3>2. Cardinality(others \cup {i}) = Cardinality(others) + 1
      BY <2>3, FS_AddElement DEF others
    <3>3. QED BY <2>3, <3>1, <3>2
  <2>7. Cardinality(Exposed') <= Cardinality(others \cup {i})
    BY <2>5, <2>6, FS_Subset
  <2>8. Cardinality(Exposed') \in Nat /\ Cardinality(others \cup {i}) \in Nat
    BY <2>5, <2>6, FS_Subset, FS_CardinalityType
  <2>9. QED BY <1>f, <2>3, <2>4, <2>6, <2>7, <2>8 DEF SlotsWithinLimit
<1>2. CASE ~(intents'[i].state = "RESERVED" /\ ~ReservationRefused(c))
  <2>1. \/ UNCHANGED intents
        \/ /\ intents' = [intents EXCEPT ![i] = Rewritten(@, Reservation(i), "OTHER")]
           /\ Reservation(i) \in {"REJECTED_MAX_SLOTS", "REJECTED_ALLOCATION"}
    <3>1. \/ UNCHANGED intents
          \/ /\ intents' = [intents EXCEPT ![i] = Rewritten(@, Reservation(i), "OTHER")]
             /\ ~ReservationRefused(c)
      BY <1>0 DEF ReserveAdmission
    <3>2. intents' = [intents EXCEPT ![i] = Rewritten(@, Reservation(i), "OTHER")]
            => intents'[i].state = Reservation(i)
      BY <1>t DEF Rewritten, TypeOK, StoreOK
    <3>3. Reservation(i) \in {"REJECTED_MAX_SLOTS", "REJECTED_ALLOCATION", "RESERVED"}
      BY DEF Reservation
    <3>4. QED BY <1>2, <3>1, <3>2, <3>3
  <2>2. Exposed' \subseteq Exposed
    BY <1>t, <2>1
    DEF Exposed, Committed, TypeOK, StoreOK, Rewritten, OCCUPYING_STATES, OwnedStates
  <2>3. IsFiniteSet(Exposed) /\ Cardinality(Exposed) \in Nat /\ Cardinality(Exposed') \in Nat
        /\ Cardinality(Exposed') <= Cardinality(Exposed)
    BY <1>f, <2>2, FS_Subset, FS_CardinalityType DEF Exposed, Committed
  <2>4. QED BY <1>f, <2>3 DEF SlotsWithinLimit
<1>3. QED BY <1>1, <1>2

\* Reservations and exposures stay within max_open_trades, for any number of
\* coordinators, signals and slots.
THEOREM SlotsBounded == Spec => []SlotsWithinLimit
<1>1. Init => SlotsWithinLimit
  <2>1. Init => Exposed = {}
    BY DEF Init, Exposed, Committed, NoRow, OCCUPYING_STATES, OwnedStates
  <2>2. Cardinality({}) = 0
    BY FS_EmptySet
  <2>3. 0 <= MaxSlots
    BY AdmissionAssumption
  <2>4. QED
    BY <2>1, <2>2, <2>3 DEF SlotsWithinLimit
<1>2. IInv /\ SlotsWithinLimit /\ [Next]_vars => SlotsWithinLimit'
  <2> SUFFICES ASSUME IInv, SlotsWithinLimit, [Next]_vars PROVE SlotsWithinLimit'
    OBVIOUS
  <2>1. ASSUME NEW c \in Coordinators, ReserveAdmission(c) PROVE SlotsWithinLimit'
    BY <2>1, ReservationFits, TypeStep DEF IInv
  <2>2. CASE \A c \in Coordinators : ~ReserveAdmission(c)
    <3>1. Exposed' \subseteq Exposed
      BY <2>2, ExposureShrinks
    <3>2. IsFiniteSet(Exposed) /\ Cardinality(Exposed) \in Nat
          /\ Cardinality(Exposed') \in Nat /\ Cardinality(Exposed') <= Cardinality(Exposed)
      BY <3>1, AdmissionAssumption, FS_Subset, FS_CardinalityType DEF Exposed, Committed
    <3>3. QED BY <3>2, AdmissionAssumption DEF SlotsWithinLimit
  <2>3. QED BY <2>1, <2>2
<1>3. QED BY <1>1, <1>2, Inductive, PTL DEF Spec
-----------------------------------------------------------------------------
(* The allocation. *)

\* The nominal of a set is the sum of the constant function Nominal over it.
LEMMA NominalIsSum ==
    ASSUME NEW S PROVE NominalOf(S) = SumFunctionOnSet(Nominal, S)
  BY Zenon DEF NominalOf, MapThenSumSet, SumFunctionOnSet, FoldFunctionOnSet

\* The nominal of intents: a number, and no more than that of a larger set.
LEMMA NominalGrows ==
    ASSUME NEW S \in SUBSET Intents, NEW R \in SUBSET S
    PROVE  NominalOf(R) \in Nat /\ NominalOf(S) \in Nat /\ NominalOf(R) <= NominalOf(S)
<1>1. IsFiniteSet(S) /\ IsFiniteSet(R) /\ \A i \in S : Nominal[i] \in Nat
  BY AdmissionAssumption, FS_Subset
<1>2. /\ SumFunctionOnSet(Nominal, R) \in Nat /\ SumFunctionOnSet(Nominal, S) \in Nat
      /\ SumFunctionOnSet(Nominal, R) <= SumFunctionOnSet(Nominal, S)
  BY <1>1, SumNat, SumSubset
<1>3. QED
  BY <1>2, NominalIsSum

\* One more intent adds its nominal.
LEMMA NominalAdds ==
    ASSUME NEW S \in SUBSET Intents, NEW i \in Intents, i \notin S
    PROVE  NominalOf(S \cup {i}) = NominalOf(S) + Nominal[i]
<1>1. IsFiniteSet(S \cup {i}) /\ \A j \in S \cup {i} : Nominal[j] \in Int
  BY AdmissionAssumption, FS_Subset
<1>2. SumFunctionOnSet(Nominal, S \cup {i})
        = Nominal[i] + SumFunctionOnSet(Nominal, (S \cup {i}) \ {i})
  BY <1>1, SumRemove
<1>3. (S \cup {i}) \ {i} = S
  OBVIOUS
<1>4. SumFunctionOnSet(Nominal, S) \in Int
  BY <1>1, SumType, FS_Subset, AdmissionAssumption
<1>5. NominalOf(S \cup {i}) = Nominal[i] + NominalOf(S)
  BY <1>2, <1>3, NominalIsSum, Zenon
<1>6. NominalOf(S) \in Int /\ Nominal[i] \in Int
  BY <1>1, <1>4, NominalIsSum
<1>7. QED
  BY <1>5, <1>6

\* A step that exposes nothing new stays within the allocation.
LEMMA AllocationKept ==
    ASSUME NominalWithinAllocation, Exposed' \subseteq Exposed, Exposed \subseteq Intents
    PROVE  NominalWithinAllocation'
<1>1. /\ NominalOf(Exposed') \in Nat /\ NominalOf(Exposed) \in Nat
      /\ NominalOf(Exposed') <= NominalOf(Exposed)
  BY NominalGrows
<1>2. NominalOf(Exposed) <= Allocation
  BY DEF NominalWithinAllocation
<1>3. NominalOf(Exposed') <= Allocation
  BY <1>1, <1>2, AdmissionAssumption
<1>4. QED
  BY <1>3 DEF NominalWithinAllocation

\* A reservation that is granted stays within the allocation.
LEMMA ReservationAffordable ==
    ASSUME IInv, TypeOK', NominalWithinAllocation, NEW c \in Coordinators, ReserveAdmission(c)
    PROVE  NominalWithinAllocation'
<1>0. PICK i \in Intents : i = signal[c]
  BY DEF ReserveAdmission, IInv, TypeOK, LocalOK
<1>t. TypeOK /\ UNCHANGED reopened
  BY DEF IInv, ReserveAdmission
<1>a. Allocation \in Nat /\ Nominal[i] \in Nat
  BY AdmissionAssumption
<1>1. CASE intents'[i].state = "RESERVED" /\ ~ReservationRefused(c)
  <2> DEFINE others == Occupying(intents) \ {i}
  <2>1. intents' = [intents EXCEPT ![i] = Rewritten(@, Reservation(i), "OTHER")]
    BY <1>0, <1>1 DEF ReserveAdmission
  <2>2. Reservation(i) = "RESERVED"
    BY <1>1, <1>t, <2>1 DEF Rewritten, TypeOK, StoreOK
  <2>3. others \in SUBSET Intents
    BY DEF Occupying
  <2>4. ~(NominalOf(others) + Nominal[i] > Allocation)
    BY <2>2 DEF Reservation
  <2>5. Exposed' \subseteq others \cup {i}
    BY <1>t, <2>1 DEF Exposed, Committed, Occupying, TypeOK, StoreOK
  <2>6. i \notin others
    OBVIOUS
  <2> HIDE DEF others
  <2>7. NominalOf(others \cup {i}) = NominalOf(others) + Nominal[i] /\ NominalOf(others) \in Nat
    BY <2>3, <2>6, NominalAdds, NominalGrows
  <2>8. /\ NominalOf(Exposed') \in Nat
        /\ NominalOf(Exposed') <= NominalOf(others \cup {i})
    BY <2>3, <2>5, NominalGrows
  <2>9. NominalOf(Exposed') <= Allocation
    BY <1>a, <2>4, <2>7, <2>8
  <2>10. QED
    BY <2>9 DEF NominalWithinAllocation
<1>2. CASE ~(intents'[i].state = "RESERVED" /\ ~ReservationRefused(c))
  <2>1. \/ UNCHANGED intents
        \/ /\ intents' = [intents EXCEPT ![i] = Rewritten(@, Reservation(i), "OTHER")]
           /\ Reservation(i) \in {"REJECTED_MAX_SLOTS", "REJECTED_ALLOCATION"}
    <3>1. \/ UNCHANGED intents
          \/ /\ intents' = [intents EXCEPT ![i] = Rewritten(@, Reservation(i), "OTHER")]
             /\ ~ReservationRefused(c)
      BY <1>0 DEF ReserveAdmission
    <3>2. intents' = [intents EXCEPT ![i] = Rewritten(@, Reservation(i), "OTHER")]
            => intents'[i].state = Reservation(i)
      BY <1>t DEF Rewritten, TypeOK, StoreOK
    <3>3. Reservation(i) \in {"REJECTED_MAX_SLOTS", "REJECTED_ALLOCATION", "RESERVED"}
      BY DEF Reservation
    <3>4. QED BY <1>2, <3>1, <3>2, <3>3
  <2>2. Exposed' \subseteq Exposed /\ Exposed \subseteq Intents
    BY <1>t, <2>1
    DEF Exposed, Committed, TypeOK, StoreOK, Rewritten, OCCUPYING_STATES, OwnedStates
  <2>3. QED
    BY <2>2, AllocationKept
<1>3. QED BY <1>1, <1>2

\* Nominals stay within the allocation, for any number of coordinators, signals
\* and nominals.
THEOREM AllocationBounded == Spec => []NominalWithinAllocation
<1>1. Init => NominalWithinAllocation
  <2>1. Init => Exposed = {}
    BY DEF Init, Exposed, Committed, NoRow, OCCUPYING_STATES, OwnedStates
  <2>2. NominalOf({}) = 0
    BY NominalIsSum, SumEmpty
  <2>3. 0 <= Allocation
    BY AdmissionAssumption
  <2>4. QED
    BY <2>1, <2>2, <2>3 DEF NominalWithinAllocation
<1>2. IInv /\ NominalWithinAllocation /\ [Next]_vars => NominalWithinAllocation'
  <2> SUFFICES ASSUME IInv, NominalWithinAllocation, [Next]_vars PROVE NominalWithinAllocation'
    OBVIOUS
  <2>1. ASSUME NEW c \in Coordinators, ReserveAdmission(c) PROVE NominalWithinAllocation'
    BY <2>1, ReservationAffordable, TypeStep DEF IInv
  <2>2. CASE \A c \in Coordinators : ~ReserveAdmission(c)
    <3>1. Exposed' \subseteq Exposed /\ Exposed \subseteq Intents
      BY <2>2, ExposureShrinks DEF Exposed, Committed
    <3>2. QED BY <3>1, AllocationKept
  <2>3. QED BY <2>1, <2>2
<1>3. QED BY <1>1, <1>2, Inductive, PTL DEF Spec

================================================================================
