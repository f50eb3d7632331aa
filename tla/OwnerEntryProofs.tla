--------------------------- MODULE OwnerEntryProofs ---------------------------
(***************************************************************************)
(* Proofs about OwnerEntry for any set of intents and any number of        *)
(* crashes.  The inductive invariant relates, for every intent, the two    *)
(* databases and the exchange (RowSound), says what the owner thread knows *)
(* at each step (ThreadSound), and that at most one entry is unsettled     *)
(* (OneUnsettled): the first two need the third, because a step that       *)
(* touches one entry is sound only if the recovery pass is not holding     *)
(* another one.                                                            *)
(***************************************************************************)
EXTENDS OwnerEntry, TLAPS

\* The submission of i is claimed and not settled.
Unsettled(i) == ~intents[i].bound /\ intents[i].state \in {"ENTRY_PENDING", "UNKNOWN"}

\* The rows of the two databases and the order agree.
RowSound(i) ==
    /\ gen[i] = "NONE" <=> intents[i].state \in {"ABSENT", "RESERVED"}
    /\ gen[i] = "NONE" => order[i] = "none"
    /\ intents[i].state = "CLOSED_NO_FILL" => order[i] \in {"none", "expired"}
    /\ intents[i].bound => intents[i].state \in {"ENTRY_PENDING", "OPEN"} /\ trades[i] = 1
    /\ intents[i].state = "OPEN" => intents[i].bound
    /\ trades[i] = 0 \/ (trades[i] = 1 /\ order[i] = "filled")

\* Open entry incidents belong to unsettled entries.
IncidentsSound ==
    \A i \in Intents :
        <<"submit", i>> \in incidents \/ <<"entry-recovery", i>> \in incidents => Unsettled(i)

Forward == {"post", "query", "unknown", "record", "confirm", "stage", "commit", "bind"}

\* What the owner thread knows at each step.
ThreadSound ==
    /\ pc = "submit" => intents[cur] = Row("RESERVED", FALSE)
                        /\ \A j \in Intents : ~Unsettled(j)
    /\ pc = "no_fill" => intents[cur].state = "CLOSED_NO_FILL" /\ order[cur] = "none"
    /\ pc \in Forward => Unsettled(cur)
    /\ pc \in Forward \ {"unknown"} => intents[cur].state = "ENTRY_PENDING"
    /\ pc \in Forward => /\ <<"submit", cur>> \notin incidents
                         /\ <<"entry-recovery", cur>> \notin incidents
    /\ pc \in Forward \ {"post"} => order[cur] # "none"
    /\ pc \in Forward \ {"bind"} => trades[cur] = 0
    /\ pc = "bind" => trades[cur] = 1
    /\ pc \in {"record", "confirm"} /\ confirmed => order[cur] = "filled"
    /\ pc \in {"stage", "commit", "bind"} => order[cur] = "filled"
    /\ pc \notin {"scan", "blocked"} => todo = {}
    /\ pc \notin {"scan", "blocked", "import", "import_bind"} => results = {}
    /\ pc = "blocked" => cur \in todo /\ Unsettled(cur)
    /\ pc = "import_bind" => cur \in results /\ trades[cur] = 1
    /\ \A i \in todo : Unsettled(i)
    /\ \A i \in results : Unsettled(i) /\ order[i] = "filled" /\ i \notin todo

OneUnsettled == \A i, j \in Intents : Unsettled(i) /\ Unsettled(j) => i = j

IInv ==
    /\ TypeOK
    /\ \A i \in Intents : RowSound(i)
    /\ IncidentsSound
    /\ ThreadSound
    /\ OneUnsettled

-----------------------------------------------------------------------------
(* Facts used by every step. *)

\* Incident ids have their type, and differ when their intents or kinds differ.
LEMMA IncidentFacts ==
    /\ SweepIncident \in IncidentIds
    /\ \A i \in Intents :
          /\ <<"submit", i>> \in IncidentIds /\ <<"entry-recovery", i>> \in IncidentIds
          /\ <<"submit", i>> # SweepIncident /\ <<"entry-recovery", i>> # SweepIncident
    /\ \A i, j : /\ <<"submit", i>> # <<"entry-recovery", j>>
                  /\ i # j => /\ <<"submit", i>> # <<"submit", j>>
                              /\ <<"entry-recovery", i>> # <<"entry-recovery", j>>
  BY EntryAssumption DEF IncidentIds, SweepIncident

\* The initial state satisfies the inductive invariant.
LEMMA InitIInv == Init => IInv
  <1> SUFFICES ASSUME Init PROVE IInv OBVIOUS
  <1>1. DurableOK
    BY DEF Init, DurableOK, Row, EntryStates, GenStatus, OrderStates
  <1>2. ThreadOK
    <2>1. crashes \in 0..MaxCrashes
      BY EntryAssumption DEF Init
    <2>2. QED BY <2>1 DEF Init, ThreadOK, Pcs
  <1>3. QED BY <1>1, <1>2 DEF Init, IInv, TypeOK, RowSound, IncidentsSound, ThreadSound,
     OneUnsettled, Unsettled, Forward, Row

-----------------------------------------------------------------------------
(* One lemma per action. *)

\* Admit: no blocker means no unsettled entry, so the next claim may be made.
LEMMA AdmitStep ==
    ASSUME NEW i \in Intents, IInv, Admit(i)
    PROVE  IInv'
  <1> USE DEF Admit, SetState, Row, HasBlockers, BlockingIntents, store, pass, IInv
  <1>1. TypeOK'
    BY EntryAssumption, IncidentFacts DEF TypeOK, DurableOK, ThreadOK, EntryStates,
       GenStatus, OrderStates, Pcs, ThreadSound, Unsettled, Forward
  <1>2. (\A k \in Intents : RowSound(k))'
    BY DEF TypeOK, DurableOK, ThreadOK, RowSound, ThreadSound, Unsettled, Forward,
       EntryStates
  <1>3. IncidentsSound'
    BY IncidentFacts DEF TypeOK, DurableOK, ThreadOK, IncidentsSound, RowSound, ThreadSound,
       OneUnsettled, Unsettled, Forward
  <1>4. ThreadSound'
    <2>1. \A j \in Intents : ~Unsettled(j)
      BY DEF Unsettled
    <2>2. /\ cur' = i /\ pc' = "submit" /\ todo' = {} /\ results' = {}
          /\ intents'[i] = Row("RESERVED", FALSE)
      BY DEF TypeOK, DurableOK, RowSound, ThreadSound
    <2>3. \A j \in Intents : ~Unsettled(j)'
      BY <2>1 DEF Unsettled, TypeOK, DurableOK
    <2>4. QED BY <2>2, <2>3 DEF ThreadSound, Forward
  <1>5. OneUnsettled'
    BY DEF TypeOK, DurableOK, ThreadOK, RowSound, ThreadSound, OneUnsettled, Unsettled,
       Forward
  <1>6. QED BY <1>1, <1>2, <1>3, <1>4, <1>5

\* Claim: the one unsettled entry is now cur; it has no Trade and no incident.
LEMMA ClaimStep ==
    ASSUME IInv, Claim
    PROVE  IInv'
  <1> USE DEF Claim, SetState, Goto, Row, store, pass, IInv
  <1>1. TypeOK'
    BY EntryAssumption, IncidentFacts DEF TypeOK, DurableOK, ThreadOK, EntryStates,
       GenStatus, OrderStates, Pcs, ThreadSound, Unsettled, Forward
  <1>2. (\A k \in Intents : RowSound(k))'
    BY DEF TypeOK, DurableOK, ThreadOK, RowSound, ThreadSound, Unsettled, Forward,
       EntryStates
  <1>3. IncidentsSound'
    BY IncidentFacts DEF TypeOK, DurableOK, ThreadOK, IncidentsSound, RowSound, ThreadSound,
       OneUnsettled, Unsettled, Forward
  <1>4. ThreadSound'
    BY DEF TypeOK, DurableOK, ThreadOK, RowSound, ThreadSound, IncidentsSound, OneUnsettled,
       Unsettled, Forward, EntryStates
  <1>5. OneUnsettled'
    BY DEF TypeOK, DurableOK, ThreadOK, RowSound, ThreadSound, OneUnsettled, Unsettled,
       Forward
  <1>6. QED BY <1>1, <1>2, <1>3, <1>4, <1>5

\* PreflightRejects: nothing was posted, so the label is the truth.
LEMMA PreflightRejectsStep ==
    ASSUME IInv, PreflightRejects
    PROVE  IInv'
  <1> USE DEF PreflightRejects, SetState, Goto, Row, store, pass, IInv
  <1>1. TypeOK'
    BY EntryAssumption, IncidentFacts DEF TypeOK, DurableOK, ThreadOK, EntryStates,
       GenStatus, OrderStates, Pcs, ThreadSound, Unsettled, Forward
  <1>2. (\A k \in Intents : RowSound(k))'
    BY DEF TypeOK, DurableOK, ThreadOK, RowSound, ThreadSound, Unsettled, Forward,
       EntryStates
  <1>3. IncidentsSound'
    BY IncidentFacts DEF TypeOK, DurableOK, ThreadOK, IncidentsSound, RowSound, ThreadSound,
       OneUnsettled, Unsettled, Forward
  <1>4. ThreadSound'
    BY DEF TypeOK, DurableOK, ThreadOK, RowSound, ThreadSound, IncidentsSound, OneUnsettled,
       Unsettled, Forward, EntryStates
  <1>5. OneUnsettled'
    BY DEF TypeOK, DurableOK, ThreadOK, RowSound, ThreadSound, OneUnsettled, Unsettled,
       Forward
  <1>6. QED BY <1>1, <1>2, <1>3, <1>4, <1>5

\* CloseGeneration writes the generation of an entry already closed.
LEMMA CloseGenerationStep ==
    ASSUME IInv, CloseGeneration
    PROVE  IInv'
  <1> USE DEF CloseGeneration, Return, store, pass, IInv
  <1>1. TypeOK'
    BY EntryAssumption, IncidentFacts DEF TypeOK, DurableOK, ThreadOK, EntryStates,
       GenStatus, OrderStates, Pcs, ThreadSound, Unsettled, Forward
  <1>2. (\A k \in Intents : RowSound(k))'
    BY DEF TypeOK, DurableOK, ThreadOK, RowSound, ThreadSound, Unsettled, Forward,
       EntryStates
  <1>3. IncidentsSound'
    BY IncidentFacts DEF TypeOK, DurableOK, ThreadOK, IncidentsSound, RowSound, ThreadSound,
       OneUnsettled, Unsettled, Forward
  <1>4. ThreadSound'
    BY DEF TypeOK, DurableOK, ThreadOK, RowSound, ThreadSound, IncidentsSound, OneUnsettled,
       Unsettled, Forward, EntryStates
  <1>5. OneUnsettled'
    BY DEF TypeOK, DurableOK, ThreadOK, RowSound, ThreadSound, OneUnsettled, Unsettled,
       Forward
  <1>6. QED BY <1>1, <1>2, <1>3, <1>4, <1>5

\* Post: an unsettled entry has an order from here on.
LEMMA PostStep ==
    ASSUME IInv, Post
    PROVE  IInv'
  <1> USE DEF Post, store, pass, IInv
  <1>1. TypeOK'
    BY EntryAssumption, IncidentFacts DEF TypeOK, DurableOK, ThreadOK, EntryStates,
       GenStatus, OrderStates, Pcs, ThreadSound, Unsettled, Forward
  <1>2. (\A k \in Intents : RowSound(k))'
    BY DEF TypeOK, DurableOK, ThreadOK, RowSound, ThreadSound, Unsettled, Forward,
       EntryStates
  <1>3. IncidentsSound'
    BY IncidentFacts DEF TypeOK, DurableOK, ThreadOK, IncidentsSound, RowSound, ThreadSound,
       OneUnsettled, Unsettled, Forward
  <1>4. ThreadSound'
    BY DEF TypeOK, DurableOK, ThreadOK, RowSound, ThreadSound, IncidentsSound, OneUnsettled,
       Unsettled, Forward, EntryStates
  <1>5. OneUnsettled'
    BY DEF TypeOK, DurableOK, ThreadOK, RowSound, ThreadSound, OneUnsettled, Unsettled,
       Forward
  <1>6. QED BY <1>1, <1>2, <1>3, <1>4, <1>5

\* Answered: a confirming answer implies that the order filled.
LEMMA AnsweredStep ==
    ASSUME NEW full \in BOOLEAN, IInv, Answered(full)
    PROVE  IInv'
  <1> USE DEF Answered, Goto, Visible, store, pass, IInv
  <1>1. TypeOK'
    BY EntryAssumption, IncidentFacts DEF TypeOK, DurableOK, ThreadOK, EntryStates,
       GenStatus, OrderStates, Pcs, ThreadSound, Unsettled, Forward
  <1>2. (\A k \in Intents : RowSound(k))'
    BY DEF TypeOK, DurableOK, ThreadOK, RowSound, ThreadSound, Unsettled, Forward,
       EntryStates
  <1>3. IncidentsSound'
    BY IncidentFacts DEF TypeOK, DurableOK, ThreadOK, IncidentsSound, RowSound, ThreadSound,
       OneUnsettled, Unsettled, Forward
  <1>4. ThreadSound'
    BY DEF TypeOK, DurableOK, ThreadOK, RowSound, ThreadSound, IncidentsSound, OneUnsettled,
       Unsettled, Forward, EntryStates
  <1>5. OneUnsettled'
    BY DEF TypeOK, DurableOK, ThreadOK, RowSound, ThreadSound, OneUnsettled, Unsettled,
       Forward
  <1>6. QED BY <1>1, <1>2, <1>3, <1>4, <1>5

\* PostRaises changes only the thread.
LEMMA PostRaisesStep ==
    ASSUME IInv, PostRaises
    PROVE  IInv'
  <1> USE DEF PostRaises, Goto, store, pass, IInv
  <1>1. TypeOK'
    BY EntryAssumption, IncidentFacts DEF TypeOK, DurableOK, ThreadOK, EntryStates,
       GenStatus, OrderStates, Pcs, ThreadSound, Unsettled, Forward
  <1>2. (\A k \in Intents : RowSound(k))'
    BY DEF TypeOK, DurableOK, ThreadOK, RowSound, ThreadSound, Unsettled, Forward,
       EntryStates
  <1>3. IncidentsSound'
    BY IncidentFacts DEF TypeOK, DurableOK, ThreadOK, IncidentsSound, RowSound, ThreadSound,
       OneUnsettled, Unsettled, Forward
  <1>4. ThreadSound'
    BY DEF TypeOK, DurableOK, ThreadOK, RowSound, ThreadSound, IncidentsSound, OneUnsettled,
       Unsettled, Forward, EntryStates
  <1>5. OneUnsettled'
    BY DEF TypeOK, DurableOK, ThreadOK, RowSound, ThreadSound, OneUnsettled, Unsettled,
       Forward
  <1>6. QED BY <1>1, <1>2, <1>3, <1>4, <1>5

\* QueryFinds: the answer confirms nothing.
LEMMA QueryFindsStep ==
    ASSUME IInv, QueryFinds
    PROVE  IInv'
  <1> USE DEF QueryFinds, Goto, Visible, store, pass, IInv
  <1>1. TypeOK'
    BY EntryAssumption, IncidentFacts DEF TypeOK, DurableOK, ThreadOK, EntryStates,
       GenStatus, OrderStates, Pcs, ThreadSound, Unsettled, Forward
  <1>2. (\A k \in Intents : RowSound(k))'
    BY DEF TypeOK, DurableOK, ThreadOK, RowSound, ThreadSound, Unsettled, Forward,
       EntryStates
  <1>3. IncidentsSound'
    BY IncidentFacts DEF TypeOK, DurableOK, ThreadOK, IncidentsSound, RowSound, ThreadSound,
       OneUnsettled, Unsettled, Forward
  <1>4. ThreadSound'
    BY DEF TypeOK, DurableOK, ThreadOK, RowSound, ThreadSound, IncidentsSound, OneUnsettled,
       Unsettled, Forward, EntryStates
  <1>5. OneUnsettled'
    BY DEF TypeOK, DurableOK, ThreadOK, RowSound, ThreadSound, OneUnsettled, Unsettled,
       Forward
  <1>6. QED BY <1>1, <1>2, <1>3, <1>4, <1>5

\* QueryFails: UNKNOWN keeps the entry unsettled.
LEMMA QueryFailsStep ==
    ASSUME IInv, QueryFails
    PROVE  IInv'
  <1> USE DEF QueryFails, SetState, Goto, Row, store, pass, IInv
  <1>1. TypeOK'
    BY EntryAssumption, IncidentFacts DEF TypeOK, DurableOK, ThreadOK, EntryStates,
       GenStatus, OrderStates, Pcs, ThreadSound, Unsettled, Forward
  <1>2. (\A k \in Intents : RowSound(k))'
    BY DEF TypeOK, DurableOK, ThreadOK, RowSound, ThreadSound, Unsettled, Forward,
       EntryStates
  <1>3. IncidentsSound'
    BY IncidentFacts DEF TypeOK, DurableOK, ThreadOK, IncidentsSound, RowSound, ThreadSound,
       OneUnsettled, Unsettled, Forward
  <1>4. ThreadSound'
    BY DEF TypeOK, DurableOK, ThreadOK, RowSound, ThreadSound, IncidentsSound, OneUnsettled,
       Unsettled, Forward, EntryStates
  <1>5. OneUnsettled'
    BY DEF TypeOK, DurableOK, ThreadOK, RowSound, ThreadSound, OneUnsettled, Unsettled,
       Forward
  <1>6. QED BY <1>1, <1>2, <1>3, <1>4, <1>5

\* SubmitIncident opens an incident of the unsettled entry.
LEMMA SubmitIncidentStep ==
    ASSUME IInv, SubmitIncident
    PROVE  IInv'
  <1> USE DEF SubmitIncident, Return, store, pass, IInv
  <1>1. TypeOK'
    BY EntryAssumption, IncidentFacts DEF TypeOK, DurableOK, ThreadOK, EntryStates,
       GenStatus, OrderStates, Pcs, ThreadSound, Unsettled, Forward
  <1>2. (\A k \in Intents : RowSound(k))'
    BY DEF TypeOK, DurableOK, ThreadOK, RowSound, ThreadSound, Unsettled, Forward,
       EntryStates
  <1>3. IncidentsSound'
    BY IncidentFacts DEF TypeOK, DurableOK, ThreadOK, IncidentsSound, RowSound, ThreadSound,
       OneUnsettled, Unsettled, Forward
  <1>4. ThreadSound'
    BY DEF TypeOK, DurableOK, ThreadOK, RowSound, ThreadSound, IncidentsSound, OneUnsettled,
       Unsettled, Forward, EntryStates
  <1>5. OneUnsettled'
    BY DEF TypeOK, DurableOK, ThreadOK, RowSound, ThreadSound, OneUnsettled, Unsettled,
       Forward
  <1>6. QED BY <1>1, <1>2, <1>3, <1>4, <1>5

\* RecordIds saves the ids of the entry.
LEMMA RecordIdsStep ==
    ASSUME IInv, RecordIds
    PROVE  IInv'
  <1> USE DEF RecordIds, Goto, store, pass, IInv
  <1>1. TypeOK'
    BY EntryAssumption, IncidentFacts DEF TypeOK, DurableOK, ThreadOK, EntryStates,
       GenStatus, OrderStates, Pcs, ThreadSound, Unsettled, Forward
  <1>2. (\A k \in Intents : RowSound(k))'
    BY DEF TypeOK, DurableOK, ThreadOK, RowSound, ThreadSound, Unsettled, Forward,
       EntryStates
  <1>3. IncidentsSound'
    BY IncidentFacts DEF TypeOK, DurableOK, ThreadOK, IncidentsSound, RowSound, ThreadSound,
       OneUnsettled, Unsettled, Forward
  <1>4. ThreadSound'
    BY DEF TypeOK, DurableOK, ThreadOK, RowSound, ThreadSound, IncidentsSound, OneUnsettled,
       Unsettled, Forward, EntryStates
  <1>5. OneUnsettled'
    BY DEF TypeOK, DurableOK, ThreadOK, RowSound, ThreadSound, OneUnsettled, Unsettled,
       Forward
  <1>6. QED BY <1>1, <1>2, <1>3, <1>4, <1>5

\* RequireConfirmedEntry goes on only with a filled order.
LEMMA RequireConfirmedEntryStep ==
    ASSUME IInv, RequireConfirmedEntry
    PROVE  IInv'
  <1> USE DEF RequireConfirmedEntry, Goto, Return, store, pass, IInv
  <1>1. TypeOK'
    BY EntryAssumption, IncidentFacts DEF TypeOK, DurableOK, ThreadOK, EntryStates,
       GenStatus, OrderStates, Pcs, ThreadSound, Unsettled, Forward
  <1>2. (\A k \in Intents : RowSound(k))'
    BY DEF TypeOK, DurableOK, ThreadOK, RowSound, ThreadSound, Unsettled, Forward,
       EntryStates
  <1>3. IncidentsSound'
    BY IncidentFacts DEF TypeOK, DurableOK, ThreadOK, IncidentsSound, RowSound, ThreadSound,
       OneUnsettled, Unsettled, Forward
  <1>4. ThreadSound'
    BY DEF TypeOK, DurableOK, ThreadOK, RowSound, ThreadSound, IncidentsSound, OneUnsettled,
       Unsettled, Forward, EntryStates
  <1>5. OneUnsettled'
    BY DEF TypeOK, DurableOK, ThreadOK, RowSound, ThreadSound, OneUnsettled, Unsettled,
       Forward
  <1>6. QED BY <1>1, <1>2, <1>3, <1>4, <1>5

\* StageReceipts changes only the thread.
LEMMA StageReceiptsStep ==
    ASSUME IInv, StageReceipts
    PROVE  IInv'
  <1> USE DEF StageReceipts, Goto, Return, store, pass, IInv
  <1>1. TypeOK'
    BY EntryAssumption, IncidentFacts DEF TypeOK, DurableOK, ThreadOK, EntryStates,
       GenStatus, OrderStates, Pcs, ThreadSound, Unsettled, Forward
  <1>2. (\A k \in Intents : RowSound(k))'
    BY DEF TypeOK, DurableOK, ThreadOK, RowSound, ThreadSound, Unsettled, Forward,
       EntryStates
  <1>3. IncidentsSound'
    BY IncidentFacts DEF TypeOK, DurableOK, ThreadOK, IncidentsSound, RowSound, ThreadSound,
       OneUnsettled, Unsettled, Forward
  <1>4. ThreadSound'
    BY DEF TypeOK, DurableOK, ThreadOK, RowSound, ThreadSound, IncidentsSound, OneUnsettled,
       Unsettled, Forward, EntryStates
  <1>5. OneUnsettled'
    BY DEF TypeOK, DurableOK, ThreadOK, RowSound, ThreadSound, OneUnsettled, Unsettled,
       Forward
  <1>6. QED BY <1>1, <1>2, <1>3, <1>4, <1>5

\* CommitTrade: the entry had no Trade and its order filled.
LEMMA CommitTradeStep ==
    ASSUME IInv, CommitTrade
    PROVE  IInv'
  <1> USE DEF CommitTrade, Goto, store, pass, IInv
  <1>1. TypeOK'
    BY EntryAssumption, IncidentFacts DEF TypeOK, DurableOK, ThreadOK, EntryStates,
       GenStatus, OrderStates, Pcs, ThreadSound, Unsettled, Forward
  <1>2. (\A k \in Intents : RowSound(k))'
    BY DEF TypeOK, DurableOK, ThreadOK, RowSound, ThreadSound, Unsettled, Forward,
       EntryStates
  <1>3. IncidentsSound'
    BY IncidentFacts DEF TypeOK, DurableOK, ThreadOK, IncidentsSound, RowSound, ThreadSound,
       OneUnsettled, Unsettled, Forward
  <1>4. ThreadSound'
    BY DEF TypeOK, DurableOK, ThreadOK, RowSound, ThreadSound, IncidentsSound, OneUnsettled,
       Unsettled, Forward, EntryStates
  <1>5. OneUnsettled'
    BY DEF TypeOK, DurableOK, ThreadOK, RowSound, ThreadSound, OneUnsettled, Unsettled,
       Forward
  <1>6. QED BY <1>1, <1>2, <1>3, <1>4, <1>5

\* BindTrade settles the entry, which has no incident.
LEMMA BindTradeStep ==
    ASSUME IInv, BindTrade
    PROVE  IInv'
  <1> USE DEF BindTrade, Return, Row, store, pass, IInv
  <1>1. TypeOK'
    BY EntryAssumption, IncidentFacts DEF TypeOK, DurableOK, ThreadOK, EntryStates,
       GenStatus, OrderStates, Pcs, ThreadSound, Unsettled, Forward
  <1>2. (\A k \in Intents : RowSound(k))'
    BY DEF TypeOK, DurableOK, ThreadOK, RowSound, ThreadSound, Unsettled, Forward,
       EntryStates
  <1>3. IncidentsSound'
    BY IncidentFacts DEF TypeOK, DurableOK, ThreadOK, IncidentsSound, RowSound, ThreadSound,
       OneUnsettled, Unsettled, Forward
  <1>4. ThreadSound'
    BY DEF TypeOK, DurableOK, ThreadOK, RowSound, ThreadSound, IncidentsSound, OneUnsettled,
       Unsettled, Forward, EntryStates
  <1>5. OneUnsettled'
    BY DEF TypeOK, DurableOK, ThreadOK, RowSound, ThreadSound, OneUnsettled, Unsettled,
       Forward
  <1>6. QED BY <1>1, <1>2, <1>3, <1>4, <1>5

\* StartPass: what the scan selects is unsettled.
LEMMA StartPassStep ==
    ASSUME IInv, StartPass
    PROVE  IInv'
  <1> USE DEF StartPass, Goto, Unbound, TERMINAL_INTENT_STATES, store, pass, IInv
  <1>1. TypeOK'
    BY EntryAssumption, IncidentFacts DEF TypeOK, DurableOK, ThreadOK, EntryStates,
       GenStatus, OrderStates, Pcs, ThreadSound, Unsettled, Forward
  <1>2. (\A k \in Intents : RowSound(k))'
    BY DEF TypeOK, DurableOK, ThreadOK, RowSound, ThreadSound, Unsettled, Forward,
       EntryStates
  <1>3. IncidentsSound'
    BY IncidentFacts DEF TypeOK, DurableOK, ThreadOK, IncidentsSound, RowSound, ThreadSound,
       OneUnsettled, Unsettled, Forward
  <1>4. ThreadSound'
    BY DEF TypeOK, DurableOK, ThreadOK, RowSound, ThreadSound, IncidentsSound, OneUnsettled,
       Unsettled, Forward, EntryStates
  <1>5. OneUnsettled'
    BY DEF TypeOK, DurableOK, ThreadOK, RowSound, ThreadSound, OneUnsettled, Unsettled,
       Forward
  <1>6. QED BY <1>1, <1>2, <1>3, <1>4, <1>5

\* ScanBlocked: UNKNOWN keeps the entry unsettled.
LEMMA ScanBlockedStep ==
    ASSUME NEW i \in Intents, IInv, ScanBlocked(i)
    PROVE  IInv'
  <1> USE DEF ScanBlocked, SetState, Row, Visible, store, pass, IInv
  <1>1. TypeOK'
    BY EntryAssumption, IncidentFacts DEF TypeOK, DurableOK, ThreadOK, EntryStates,
       GenStatus, OrderStates, Pcs, ThreadSound, Unsettled, Forward
  <1>2. (\A k \in Intents : RowSound(k))'
    BY DEF TypeOK, DurableOK, ThreadOK, RowSound, ThreadSound, Unsettled, Forward,
       EntryStates
  <1>3. IncidentsSound'
    BY IncidentFacts DEF TypeOK, DurableOK, ThreadOK, IncidentsSound, RowSound, ThreadSound,
       OneUnsettled, Unsettled, Forward
  <1>4. ThreadSound'
    BY DEF TypeOK, DurableOK, ThreadOK, RowSound, ThreadSound, IncidentsSound, OneUnsettled,
       Unsettled, Forward, EntryStates
  <1>5. OneUnsettled'
    BY DEF TypeOK, DurableOK, ThreadOK, RowSound, ThreadSound, OneUnsettled, Unsettled,
       Forward
  <1>6. QED BY <1>1, <1>2, <1>3, <1>4, <1>5

\* RecoveryIncident opens an incident of an unsettled entry.
LEMMA RecoveryIncidentStep ==
    ASSUME IInv, RecoveryIncident
    PROVE  IInv'
  <1> USE DEF RecoveryIncident, store, pass, IInv
  <1>1. TypeOK'
    BY EntryAssumption, IncidentFacts DEF TypeOK, DurableOK, ThreadOK, EntryStates,
       GenStatus, OrderStates, Pcs, ThreadSound, Unsettled, Forward
  <1>2. (\A k \in Intents : RowSound(k))'
    BY DEF TypeOK, DurableOK, ThreadOK, RowSound, ThreadSound, Unsettled, Forward,
       EntryStates
  <1>3. IncidentsSound'
    BY IncidentFacts DEF TypeOK, DurableOK, ThreadOK, IncidentsSound, RowSound, ThreadSound,
       OneUnsettled, Unsettled, Forward
  <1>4. ThreadSound'
    BY DEF TypeOK, DurableOK, ThreadOK, RowSound, ThreadSound, IncidentsSound, OneUnsettled,
       Unsettled, Forward, EntryStates
  <1>5. OneUnsettled'
    BY DEF TypeOK, DurableOK, ThreadOK, RowSound, ThreadSound, OneUnsettled, Unsettled,
       Forward
  <1>6. QED BY <1>1, <1>2, <1>3, <1>4, <1>5

\* ScanNoFill settles an expired entry and closes its incidents.
LEMMA ScanNoFillStep ==
    ASSUME NEW i \in Intents, IInv, ScanNoFill(i)
    PROVE  IInv'
  <1> USE DEF ScanNoFill, SetState, Row, EntryIncidents, store, pass, IInv
  <1>1. TypeOK'
    BY EntryAssumption, IncidentFacts DEF TypeOK, DurableOK, ThreadOK, EntryStates,
       GenStatus, OrderStates, Pcs, ThreadSound, Unsettled, Forward
  <1>2. (\A k \in Intents : RowSound(k))'
    BY DEF TypeOK, DurableOK, ThreadOK, RowSound, ThreadSound, Unsettled, Forward,
       EntryStates
  <1>3. IncidentsSound'
    BY IncidentFacts DEF TypeOK, DurableOK, ThreadOK, IncidentsSound, RowSound, ThreadSound,
       OneUnsettled, Unsettled, Forward
  <1>4. ThreadSound'
    BY DEF TypeOK, DurableOK, ThreadOK, RowSound, ThreadSound, IncidentsSound, OneUnsettled,
       Unsettled, Forward, EntryStates
  <1>5. OneUnsettled'
    BY DEF TypeOK, DurableOK, ThreadOK, RowSound, ThreadSound, OneUnsettled, Unsettled,
       Forward
  <1>6. QED BY <1>1, <1>2, <1>3, <1>4, <1>5

\* ScanFull hands a filled, unsettled entry to the import.
LEMMA ScanFullStep ==
    ASSUME NEW i \in Intents, IInv, ScanFull(i)
    PROVE  IInv'
  <1> USE DEF ScanFull, store, pass, IInv
  <1>1. TypeOK'
    BY EntryAssumption, IncidentFacts DEF TypeOK, DurableOK, ThreadOK, EntryStates,
       GenStatus, OrderStates, Pcs, ThreadSound, Unsettled, Forward
  <1>2. (\A k \in Intents : RowSound(k))'
    BY DEF TypeOK, DurableOK, ThreadOK, RowSound, ThreadSound, Unsettled, Forward,
       EntryStates
  <1>3. IncidentsSound'
    BY IncidentFacts DEF TypeOK, DurableOK, ThreadOK, IncidentsSound, RowSound, ThreadSound,
       OneUnsettled, Unsettled, Forward
  <1>4. ThreadSound'
    BY DEF TypeOK, DurableOK, ThreadOK, RowSound, ThreadSound, IncidentsSound, OneUnsettled,
       Unsettled, Forward, EntryStates
  <1>5. OneUnsettled'
    BY DEF TypeOK, DurableOK, ThreadOK, RowSound, ThreadSound, OneUnsettled, Unsettled,
       Forward
  <1>6. QED BY <1>1, <1>2, <1>3, <1>4, <1>5

\* ScanDone changes only the thread.
LEMMA ScanDoneStep ==
    ASSUME IInv, ScanDone
    PROVE  IInv'
  <1> USE DEF ScanDone, Goto, store, pass, IInv
  <1>1. TypeOK'
    BY EntryAssumption, IncidentFacts DEF TypeOK, DurableOK, ThreadOK, EntryStates,
       GenStatus, OrderStates, Pcs, ThreadSound, Unsettled, Forward
  <1>2. (\A k \in Intents : RowSound(k))'
    BY DEF TypeOK, DurableOK, ThreadOK, RowSound, ThreadSound, Unsettled, Forward,
       EntryStates
  <1>3. IncidentsSound'
    BY IncidentFacts DEF TypeOK, DurableOK, ThreadOK, IncidentsSound, RowSound, ThreadSound,
       OneUnsettled, Unsettled, Forward
  <1>4. ThreadSound'
    BY DEF TypeOK, DurableOK, ThreadOK, RowSound, ThreadSound, IncidentsSound, OneUnsettled,
       Unsettled, Forward, EntryStates
  <1>5. OneUnsettled'
    BY DEF TypeOK, DurableOK, ThreadOK, RowSound, ThreadSound, OneUnsettled, Unsettled,
       Forward
  <1>6. QED BY <1>1, <1>2, <1>3, <1>4, <1>5

\* ImportEntry: the entry has one Trade afterwards, found or created.
LEMMA ImportEntryStep ==
    ASSUME NEW i \in Intents, IInv, ImportEntry(i)
    PROVE  IInv'
  <1> USE DEF ImportEntry, store, pass, IInv
  <1>1. TypeOK'
    BY EntryAssumption, IncidentFacts DEF TypeOK, DurableOK, ThreadOK, EntryStates,
       GenStatus, OrderStates, Pcs, ThreadSound, Unsettled, Forward
  <1>2. (\A k \in Intents : RowSound(k))'
    BY DEF TypeOK, DurableOK, ThreadOK, RowSound, ThreadSound, Unsettled, Forward,
       EntryStates
  <1>3. IncidentsSound'
    BY IncidentFacts DEF TypeOK, DurableOK, ThreadOK, IncidentsSound, RowSound, ThreadSound,
       OneUnsettled, Unsettled, Forward
  <1>4. ThreadSound'
    BY DEF TypeOK, DurableOK, ThreadOK, RowSound, ThreadSound, IncidentsSound, OneUnsettled,
       Unsettled, Forward, EntryStates
  <1>5. OneUnsettled'
    BY DEF TypeOK, DurableOK, ThreadOK, RowSound, ThreadSound, OneUnsettled, Unsettled,
       Forward
  <1>6. QED BY <1>1, <1>2, <1>3, <1>4, <1>5

\* BindRecovered settles the entry and closes its incidents.
LEMMA BindRecoveredStep ==
    ASSUME IInv, BindRecovered
    PROVE  IInv'
  <1> USE DEF BindRecovered, Row, EntryIncidents, store, pass, IInv
  <1>1. TypeOK'
    BY EntryAssumption, IncidentFacts DEF TypeOK, DurableOK, ThreadOK, EntryStates,
       GenStatus, OrderStates, Pcs, ThreadSound, Unsettled, Forward
  <1>2. (\A k \in Intents : RowSound(k))'
    BY DEF TypeOK, DurableOK, ThreadOK, RowSound, ThreadSound, Unsettled, Forward,
       EntryStates
  <1>3. IncidentsSound'
    BY IncidentFacts DEF TypeOK, DurableOK, ThreadOK, IncidentsSound, RowSound, ThreadSound,
       OneUnsettled, Unsettled, Forward
  <1>4. ThreadSound'
    BY DEF TypeOK, DurableOK, ThreadOK, RowSound, ThreadSound, IncidentsSound, OneUnsettled,
       Unsettled, Forward, EntryStates
  <1>5. OneUnsettled'
    BY DEF TypeOK, DurableOK, ThreadOK, RowSound, ThreadSound, OneUnsettled, Unsettled,
       Forward
  <1>6. QED BY <1>1, <1>2, <1>3, <1>4, <1>5

\* ImportRaises: the entry stays unsettled, with or without its Trade.
LEMMA ImportRaisesStep ==
    ASSUME IInv, ImportRaises
    PROVE  IInv'
  <1> USE DEF ImportRaises, store, pass, IInv
  <1>1. TypeOK'
    BY EntryAssumption, IncidentFacts DEF TypeOK, DurableOK, ThreadOK, EntryStates,
       GenStatus, OrderStates, Pcs, ThreadSound, Unsettled, Forward
  <1>2. (\A k \in Intents : RowSound(k))'
    BY DEF TypeOK, DurableOK, ThreadOK, RowSound, ThreadSound, Unsettled, Forward,
       EntryStates
  <1>3. IncidentsSound'
    BY IncidentFacts DEF TypeOK, DurableOK, ThreadOK, IncidentsSound, RowSound, ThreadSound,
       OneUnsettled, Unsettled, Forward
  <1>4. ThreadSound'
    BY DEF TypeOK, DurableOK, ThreadOK, RowSound, ThreadSound, IncidentsSound, OneUnsettled,
       Unsettled, Forward, EntryStates
  <1>5. OneUnsettled'
    BY DEF TypeOK, DurableOK, ThreadOK, RowSound, ThreadSound, OneUnsettled, Unsettled,
       Forward
  <1>6. QED BY <1>1, <1>2, <1>3, <1>4, <1>5

\* ImportDone closes the incident of the sweep only.
LEMMA ImportDoneStep ==
    ASSUME IInv, ImportDone
    PROVE  IInv'
  <1> USE DEF ImportDone, Goto, store, pass, IInv
  <1>1. TypeOK'
    BY EntryAssumption, IncidentFacts DEF TypeOK, DurableOK, ThreadOK, EntryStates,
       GenStatus, OrderStates, Pcs, ThreadSound, Unsettled, Forward
  <1>2. (\A k \in Intents : RowSound(k))'
    BY DEF TypeOK, DurableOK, ThreadOK, RowSound, ThreadSound, Unsettled, Forward,
       EntryStates
  <1>3. IncidentsSound'
    BY IncidentFacts DEF TypeOK, DurableOK, ThreadOK, IncidentsSound, RowSound, ThreadSound,
       OneUnsettled, Unsettled, Forward
  <1>4. ThreadSound'
    BY DEF TypeOK, DurableOK, ThreadOK, RowSound, ThreadSound, IncidentsSound, OneUnsettled,
       Unsettled, Forward, EntryStates
  <1>5. OneUnsettled'
    BY DEF TypeOK, DurableOK, ThreadOK, RowSound, ThreadSound, OneUnsettled, Unsettled,
       Forward
  <1>6. QED BY <1>1, <1>2, <1>3, <1>4, <1>5

\* EndPass: only bound entries become OPEN.
LEMMA EndPassStep ==
    ASSUME IInv, EndPass
    PROVE  IInv'
  <1> USE DEF EndPass, Goto, Row, store, pass, IInv
  <1>1. TypeOK'
    BY EntryAssumption, IncidentFacts DEF TypeOK, DurableOK, ThreadOK, EntryStates,
       GenStatus, OrderStates, Pcs, ThreadSound, Unsettled, Forward
  <1>2. (\A k \in Intents : RowSound(k))'
    BY DEF TypeOK, DurableOK, ThreadOK, RowSound, ThreadSound, Unsettled, Forward,
       EntryStates
  <1>3. IncidentsSound'
    BY IncidentFacts DEF TypeOK, DurableOK, ThreadOK, IncidentsSound, RowSound, ThreadSound,
       OneUnsettled, Unsettled, Forward
  <1>4. ThreadSound'
    BY DEF TypeOK, DurableOK, ThreadOK, RowSound, ThreadSound, IncidentsSound, OneUnsettled,
       Unsettled, Forward, EntryStates
  <1>5. OneUnsettled'
    BY DEF TypeOK, DurableOK, ThreadOK, RowSound, ThreadSound, OneUnsettled, Unsettled,
       Forward
  <1>6. QED BY <1>1, <1>2, <1>3, <1>4, <1>5

\* EndLoop changes only the thread.
LEMMA EndLoopStep ==
    ASSUME IInv, EndLoop
    PROVE  IInv'
  <1> USE DEF EndLoop, Goto, store, pass, IInv
  <1>1. TypeOK'
    BY EntryAssumption, IncidentFacts DEF TypeOK, DurableOK, ThreadOK, EntryStates,
       GenStatus, OrderStates, Pcs, ThreadSound, Unsettled, Forward
  <1>2. (\A k \in Intents : RowSound(k))'
    BY DEF TypeOK, DurableOK, ThreadOK, RowSound, ThreadSound, Unsettled, Forward,
       EntryStates
  <1>3. IncidentsSound'
    BY IncidentFacts DEF TypeOK, DurableOK, ThreadOK, IncidentsSound, RowSound, ThreadSound,
       OneUnsettled, Unsettled, Forward
  <1>4. ThreadSound'
    BY DEF TypeOK, DurableOK, ThreadOK, RowSound, ThreadSound, IncidentsSound, OneUnsettled,
       Unsettled, Forward, EntryStates
  <1>5. OneUnsettled'
    BY DEF TypeOK, DurableOK, ThreadOK, RowSound, ThreadSound, OneUnsettled, Unsettled,
       Forward
  <1>6. QED BY <1>1, <1>2, <1>3, <1>4, <1>5

\* Arrive: no knowledge of the thread depends on an order in flight.
LEMMA ArriveStep ==
    ASSUME NEW i \in Intents, IInv, Arrive(i)
    PROVE  IInv'
  <1> USE DEF Arrive, store, pass, IInv
  <1>1. TypeOK'
    BY EntryAssumption, IncidentFacts DEF TypeOK, DurableOK, ThreadOK, EntryStates,
       GenStatus, OrderStates, Pcs, ThreadSound, Unsettled, Forward
  <1>2. (\A k \in Intents : RowSound(k))'
    BY DEF TypeOK, DurableOK, ThreadOK, RowSound, ThreadSound, Unsettled, Forward,
       EntryStates
  <1>3. IncidentsSound'
    BY IncidentFacts DEF TypeOK, DurableOK, ThreadOK, IncidentsSound, RowSound, ThreadSound,
       OneUnsettled, Unsettled, Forward
  <1>4. ThreadSound'
    <2>0. PICK o \in {"new", "lost"} : order' = [order EXCEPT ![i] = o]
      OBVIOUS
    <2>1. \A k \in Intents :
             /\ order[k] = "none" <=> order'[k] = "none"
             /\ order[k] = "filled" => order'[k] = "filled"
      BY <2>0 DEF TypeOK, DurableOK
    <2>2. UNCHANGED <<intents, incidents, trades, pc, cur, confirmed, todo, results>>
      OBVIOUS
    <2>3. cur \in Intents \/ pc \notin Forward \cup {"no_fill"}
      BY DEF TypeOK, ThreadOK, Forward
    <2>4. todo \subseteq Intents /\ results \subseteq Intents
      BY DEF TypeOK, ThreadOK
    <2>5. ThreadSound
      OBVIOUS
    <2> HIDE DEF Arrive, IInv
    <2>6. cur \in Intents =>
             /\ order[cur] = "none" <=> order'[cur] = "none"
             /\ order[cur] = "filled" => order'[cur] = "filled"
      BY <2>1
    <2>7. \A k \in results : order[k] = "filled" => order'[k] = "filled"
      BY <2>1, <2>4
    <2>8. QED BY <2>2, <2>3, <2>5, <2>6, <2>7 DEF ThreadSound, Unsettled, Forward
  <1>5. OneUnsettled'
    BY DEF TypeOK, DurableOK, ThreadOK, RowSound, ThreadSound, OneUnsettled, Unsettled,
       Forward
  <1>6. QED BY <1>1, <1>2, <1>3, <1>4, <1>5

\* Match: no knowledge of the thread depends on an order that is NEW.
LEMMA MatchStep ==
    ASSUME NEW i \in Intents, IInv, Match(i)
    PROVE  IInv'
  <1> USE DEF Match, store, pass, IInv
  <1>1. TypeOK'
    BY EntryAssumption, IncidentFacts DEF TypeOK, DurableOK, ThreadOK, EntryStates,
       GenStatus, OrderStates, Pcs, ThreadSound, Unsettled, Forward
  <1>2. (\A k \in Intents : RowSound(k))'
    BY DEF TypeOK, DurableOK, ThreadOK, RowSound, ThreadSound, Unsettled, Forward,
       EntryStates
  <1>3. IncidentsSound'
    BY IncidentFacts DEF TypeOK, DurableOK, ThreadOK, IncidentsSound, RowSound, ThreadSound,
       OneUnsettled, Unsettled, Forward
  <1>4. ThreadSound'
    <2>0. PICK o \in {"filled", "expired"} : order' = [order EXCEPT ![i] = o]
      OBVIOUS
    <2>1. \A k \in Intents :
             /\ order[k] = "none" <=> order'[k] = "none"
             /\ order[k] = "filled" => order'[k] = "filled"
      BY <2>0 DEF TypeOK, DurableOK
    <2>2. UNCHANGED <<intents, incidents, trades, pc, cur, confirmed, todo, results>>
      OBVIOUS
    <2>3. cur \in Intents \/ pc \notin Forward \cup {"no_fill"}
      BY DEF TypeOK, ThreadOK, Forward
    <2>4. todo \subseteq Intents /\ results \subseteq Intents
      BY DEF TypeOK, ThreadOK
    <2>5. ThreadSound
      OBVIOUS
    <2> HIDE DEF Match, IInv
    <2>6. cur \in Intents =>
             /\ order[cur] = "none" <=> order'[cur] = "none"
             /\ order[cur] = "filled" => order'[cur] = "filled"
      BY <2>1
    <2>7. \A k \in results : order[k] = "filled" => order'[k] = "filled"
      BY <2>1, <2>4
    <2>8. QED BY <2>2, <2>3, <2>5, <2>6, <2>7 DEF ThreadSound, Unsettled, Forward
  <1>5. OneUnsettled'
    BY DEF TypeOK, DurableOK, ThreadOK, RowSound, ThreadSound, OneUnsettled, Unsettled,
       Forward
  <1>6. QED BY <1>1, <1>2, <1>3, <1>4, <1>5

\* Crash: the databases and the exchange are consistent at every step.
LEMMA CrashStep ==
    ASSUME IInv, Crash
    PROVE  IInv'
  <1> USE DEF Crash, store, pass, IInv
  <1>1. TypeOK'
    <2>1. crashes' \in 0..MaxCrashes
      BY EntryAssumption DEF TypeOK, ThreadOK
    <2>2. QED BY <2>1 DEF TypeOK, DurableOK, ThreadOK, Pcs
  <1>2. (\A k \in Intents : RowSound(k))'
    BY DEF TypeOK, DurableOK, ThreadOK, RowSound, ThreadSound, Unsettled, Forward,
       EntryStates
  <1>3. IncidentsSound'
    BY IncidentFacts DEF TypeOK, DurableOK, ThreadOK, IncidentsSound, RowSound, ThreadSound,
       OneUnsettled, Unsettled, Forward
  <1>4. ThreadSound'
    BY DEF TypeOK, DurableOK, ThreadOK, RowSound, ThreadSound, IncidentsSound, OneUnsettled,
       Unsettled, Forward, EntryStates
  <1>5. OneUnsettled'
    BY DEF TypeOK, DurableOK, ThreadOK, RowSound, ThreadSound, OneUnsettled, Unsettled,
       Forward
  <1>6. QED BY <1>1, <1>2, <1>3, <1>4, <1>5

-----------------------------------------------------------------------------
(* The invariant, and the safety properties it implies. *)

\* Every step of the entry component preserves the inductive invariant.
LEMMA NextIInv == IInv /\ [Next]_vars => IInv'
  <1> SUFFICES ASSUME IInv, [Next]_vars PROVE IInv'
    OBVIOUS
  <1>1. CASE SubmitStep
    BY <1>1, ClaimStep, PreflightRejectsStep, CloseGenerationStep, PostStep,
       AnsweredStep, PostRaisesStep, QueryFindsStep, QueryFailsStep, SubmitIncidentStep,
       RecordIdsStep, RequireConfirmedEntryStep, StageReceiptsStep, CommitTradeStep,
       BindTradeStep DEF SubmitStep
  <1>2. CASE PassStep
    BY <1>2, StartPassStep, ScanBlockedStep, RecoveryIncidentStep, ScanNoFillStep,
       ScanFullStep, ScanDoneStep, ImportEntryStep, BindRecoveredStep, ImportRaisesStep,
       ImportDoneStep, EndPassStep, EndLoopStep DEF PassStep
  <1>3. CASE Exchange
    BY <1>3, ArriveStep, MatchStep DEF Exchange
  <1>4. CASE Crash
    BY <1>4, CrashStep
  <1>5. CASE \E i \in Intents : Admit(i)
    BY <1>5, AdmitStep
  <1>6. CASE UNCHANGED vars
    <2> USE <1>6 DEF vars
    <2>1. TypeOK' /\ OneUnsettled' /\ IncidentsSound'
      BY DEF IInv, TypeOK, DurableOK, ThreadOK, OneUnsettled, IncidentsSound, Unsettled
    <2>2. (\A i \in Intents : RowSound(i))'
      BY DEF IInv, RowSound
    <2>3. ThreadSound'
      BY DEF IInv, ThreadSound, Unsettled
    <2>4. QED BY <2>1, <2>2, <2>3 DEF IInv
  <1>7. QED BY <1>1, <1>2, <1>3, <1>4, <1>5, <1>6 DEF Next

\* The inductive invariant holds in every behaviour of the entry component, for
\* any set of intents and any number of crashes.
THEOREM Inductive == Spec => []IInv
  BY InitIInv, NextIInv, PTL DEF Spec

\* The databases, the exchange and the owner thread keep their types.
THEOREM TypeCorrect == Spec => []TypeOK
  <1>1. IInv => TypeOK
    BY DEF IInv
  <1>2. QED BY <1>1, Inductive, PTL

\* An entry that may still fill is never written off as CLOSED_NO_FILL.
THEOREM NoFillSound == Spec => []NoFillIsTrue
  <1>1. IInv => NoFillIsTrue
    BY DEF IInv, RowSound, NoFillIsTrue
  <1>2. QED BY <1>1, Inductive, PTL

\* However often the process crashes between the two databases, an entry order is
\* imported into one Trade, and only when it filled.
THEOREM TradesUnique == Spec => []OneTradePerEntry
  <1>1. IInv => OneTradePerEntry
    BY DEF IInv, RowSound, OneTradePerEntry
  <1>2. QED BY <1>1, Inductive, PTL

\* The binding that the StateStore holds is to a Trade that was committed.
THEOREM BindingsCommitted == Spec => []BindingIsCommitted
  <1>1. IInv => BindingIsCommitted
    BY DEF IInv, RowSound, BindingIsCommitted
  <1>2. QED BY <1>1, Inductive, PTL

\* Exposure without a Trade blocks admission, and there is at most one such entry.
THEOREM UnownedBlocks == Spec => []UnownedExposureBlocks
  <1>1. ASSUME IInv PROVE UnownedExposureBlocks
    <2>1. \A i \in Unowned : i \in Intents /\ Unsettled(i)
      BY <1>1 DEF IInv, TypeOK, DurableOK, RowSound, Unowned, Unsettled, EntryStates
    <2>2. \A i \in Intents : Unsettled(i) => i \in BlockingIntents(intents)
      BY DEF Unsettled, BlockingIntents
    <2>3. QED BY <1>1, <2>1, <2>2 DEF IInv, OneUnsettled, UnownedExposureBlocks, HasBlockers
  <1>2. QED BY <1>1, Inductive, PTL

\* While an entry incident is open the recovery scan reaches its intent.
THEOREM IncidentsRecoverable == Spec => []IncidentIsRecoverable
  <1>1. ASSUME IInv PROVE IncidentIsRecoverable
    <2>1. \A i \in Intents : Unsettled(i) => i \in Unbound
      BY <1>1 DEF IInv, RowSound, Unsettled, Unbound, TERMINAL_INTENT_STATES
    <2>2. QED BY <1>1, <2>1 DEF IInv, IncidentsSound, IncidentIsRecoverable, EntryIncidents
  <1>2. QED BY <1>1, Inductive, PTL

-----------------------------------------------------------------------------
(* Refinement: the entry component implements EntryContract. *)

\* A step that changes no outcome and no fate is a stuttering step.
LEMMA Stutter ==
    ASSUME \A k \in Intents : OutcomeOf(k)' = OutcomeOf(k) /\ FateOf(k)' = FateOf(k)
    PROVE  UNCHANGED Contract!cvars
  BY DEF Contract!cvars

\* A step that changes only the outcome of i.
LEMMA OutcomeStep ==
    ASSUME NEW i \in Intents, NEW x, OutcomeOf(i)' = x,
           \A k \in Intents : FateOf(k)' = FateOf(k),
           \A k \in Intents \ {i} : OutcomeOf(k)' = OutcomeOf(k)
    PROVE  /\ [k \in Intents |-> OutcomeOf(k)]'
                = [[k \in Intents |-> OutcomeOf(k)] EXCEPT ![i] = x]
           /\ UNCHANGED [k \in Intents |-> FateOf(k)]
  OBVIOUS

\* A step that changes only the fate of i.
LEMMA FateStep ==
    ASSUME NEW i \in Intents, NEW x, FateOf(i)' = x,
           \A k \in Intents : OutcomeOf(k)' = OutcomeOf(k),
           \A k \in Intents \ {i} : FateOf(k)' = FateOf(k)
    PROVE  /\ [k \in Intents |-> FateOf(k)]'
                = [[k \in Intents |-> FateOf(k)] EXCEPT ![i] = x]
           /\ UNCHANGED [k \in Intents |-> OutcomeOf(k)]
  OBVIOUS

\* Steps that write neither the intents table nor the exchange.
LEMMA QuietSteps ==
    ASSUME UNCHANGED <<intents, order>>
    PROVE  UNCHANGED Contract!cvars
  BY Stutter DEF OutcomeOf, FateOf

\* Writes of a label that settles nothing: a reservation, UNKNOWN over a pending
\* entry, OPEN over a bound one.
LEMMA LabelSteps ==
    ASSUME IInv, IInv',
           \/ \E i \in Intents : Admit(i) \/ ScanBlocked(i)
           \/ QueryFails \/ EndPass
    PROVE  UNCHANGED Contract!cvars
  <1>1. UNCHANGED order
    BY DEF Admit, ScanBlocked, QueryFails, EndPass
  <1>2. ASSUME NEW i \in Intents, Admit(i) PROVE \A k \in Intents : OutcomeOf(k)' = OutcomeOf(k)
    BY <1>2 DEF Admit, SetState, Row, OutcomeOf, IInv, TypeOK, DurableOK
  <1>3. ASSUME NEW i \in Intents, ScanBlocked(i)
        PROVE \A k \in Intents : OutcomeOf(k)' = OutcomeOf(k)
    BY <1>3 DEF ScanBlocked, SetState, Row, OutcomeOf, IInv, TypeOK, DurableOK, ThreadSound,
       Unsettled
  <1>4. ASSUME QueryFails PROVE \A k \in Intents : OutcomeOf(k)' = OutcomeOf(k)
    BY <1>4 DEF QueryFails, SetState, Row, OutcomeOf, IInv, TypeOK, DurableOK, ThreadOK,
       ThreadSound, Unsettled, Forward
  <1>5. ASSUME EndPass PROVE \A k \in Intents : OutcomeOf(k)' = OutcomeOf(k)
    BY <1>5 DEF EndPass, Row, OutcomeOf, IInv, TypeOK, DurableOK
  <1>6. QED BY <1>1, <1>2, <1>3, <1>4, <1>5, Stutter DEF FateOf

\* claim_entry_submission is the contract's Submit.
LEMMA ClaimSubmits ==
    ASSUME IInv, Claim
    PROVE  Contract!CNext
  <1>1. PICK i \in Intents : i = cur
    BY DEF IInv, TypeOK, ThreadOK, Claim
  <1>2. OutcomeOf(i) = "unclaimed" /\ OutcomeOf(i)' = "submitted"
    BY <1>1 DEF IInv, TypeOK, DurableOK, ThreadSound, Claim, SetState, Row, OutcomeOf
  <1>3. \A k \in Intents \ {i} : OutcomeOf(k)' = OutcomeOf(k)
    BY <1>1 DEF IInv, TypeOK, DurableOK, Claim, SetState, Row, OutcomeOf
  <1>4. \A k \in Intents : FateOf(k)' = FateOf(k)
    BY DEF Claim, FateOf
  <1>5. \A k \in Intents : OutcomeOf(k) # "submitted"
    BY DEF IInv, TypeOK, DurableOK, ThreadSound, RowSound, Claim, Unsettled, OutcomeOf
  <1>6. Contract!Submit(i)
    BY <1>1, <1>2, <1>3, <1>4, <1>5, OutcomeStep DEF Contract!Submit
  <1>7. QED BY <1>1, <1>6 DEF Contract!CNext

\* The POST is the contract's Send.
LEMMA PostSends ==
    ASSUME IInv, Post
    PROVE  Contract!CNext
  <1>1. PICK i \in Intents : i = cur
    BY DEF IInv, TypeOK, ThreadOK, Post
  <1>2. OutcomeOf(i) = "submitted"
    BY <1>1 DEF IInv, ThreadSound, Forward, Unsettled, Post, OutcomeOf
  <1>3. FateOf(i) = "unsent" /\ FateOf(i)' = "open"
    BY <1>1 DEF IInv, TypeOK, DurableOK, Post, FateOf
  <1>4. \A k \in Intents \ {i} : FateOf(k)' = FateOf(k)
    BY <1>1 DEF IInv, TypeOK, DurableOK, Post, FateOf
  <1>5. \A k \in Intents : OutcomeOf(k)' = OutcomeOf(k)
    BY DEF Post, store, OutcomeOf
  <1>6. Contract!Send(i)
    BY <1>1, <1>2, <1>3, <1>4, <1>5, FateStep DEF Contract!Send
  <1>7. QED BY <1>1, <1>6 DEF Contract!CNext

\* A refused preflight and a recovered expiry are the contract's GiveUp.
LEMMA NoFillGivesUp ==
    ASSUME IInv, NEW i \in Intents, (PreflightRejects /\ i = cur) \/ ScanNoFill(i)
    PROVE  Contract!CNext
  <1>1. OutcomeOf(i) = "submitted" /\ OutcomeOf(i)' = "given_up"
    BY DEF IInv, TypeOK, DurableOK, ThreadSound, Forward, Unsettled, PreflightRejects,
       ScanNoFill, SetState, Row, OutcomeOf
  <1>2. FateOf(i) \in {"unsent", "dead"}
    BY DEF PreflightRejects, ScanNoFill, FateOf
  <1>3. \A k \in Intents \ {i} : OutcomeOf(k)' = OutcomeOf(k)
    BY DEF IInv, TypeOK, DurableOK, PreflightRejects, ScanNoFill, SetState, Row, OutcomeOf
  <1>4. \A k \in Intents : FateOf(k)' = FateOf(k)
    BY DEF PreflightRejects, ScanNoFill, FateOf
  <1>5. Contract!GiveUp(i)
    BY <1>1, <1>2, <1>3, <1>4, OutcomeStep DEF Contract!GiveUp
  <1>6. QED BY <1>5 DEF Contract!CNext

\* bind_trade and bind_recovered_trade are the contract's Own.
LEMMA BindingOwns ==
    ASSUME IInv, BindTrade \/ BindRecovered
    PROVE  Contract!CNext
  <1>1. PICK i \in Intents : i = cur
    BY DEF IInv, TypeOK, ThreadOK, BindTrade, BindRecovered
  <1>2. OutcomeOf(i) = "submitted"
    BY <1>1 DEF IInv, TypeOK, DurableOK, ThreadSound, Forward, Unsettled, BindTrade,
       BindRecovered, OutcomeOf
  <1>3. FateOf(i) = "filled"
    BY <1>1 DEF IInv, ThreadSound, Forward, BindTrade, BindRecovered, FateOf
  <1>4. OutcomeOf(i)' = "owned" /\ \A k \in Intents \ {i} : OutcomeOf(k)' = OutcomeOf(k)
    BY <1>1 DEF IInv, TypeOK, DurableOK, BindTrade, BindRecovered, Row, OutcomeOf
  <1>5. \A k \in Intents : FateOf(k)' = FateOf(k)
    BY DEF BindTrade, BindRecovered, FateOf
  <1>6. Contract!Own(i)
    BY <1>1, <1>2, <1>3, <1>4, <1>5, OutcomeStep DEF Contract!Own
  <1>7. QED BY <1>1, <1>6 DEF Contract!CNext

\* The exchange resolves an open submission, or only receives it.
LEMMA ExchangeResolves ==
    ASSUME IInv, NEW i \in Intents, Arrive(i) \/ Match(i)
    PROVE  Contract!CNext \/ UNCHANGED Contract!cvars
  <1>1. OutcomeOf(i) = "submitted"
    BY DEF IInv, TypeOK, DurableOK, RowSound, Arrive, Match, EntryStates, OutcomeOf
  <1>2. \A k \in Intents : OutcomeOf(k)' = OutcomeOf(k)
    BY DEF Arrive, Match, store, OutcomeOf
  <1>3. PICK o \in OrderStates : order' = [order EXCEPT ![i] = o]
    BY DEF Arrive, Match, OrderStates
  <1>4. FateOf(i) = "open" /\ FateOf(i)' \in {"open", "filled", "dead"}
    BY <1>3 DEF IInv, TypeOK, DurableOK, Arrive, Match, FateOf
  <1>5. \A k \in Intents \ {i} : FateOf(k)' = FateOf(k)
    BY <1>3 DEF IInv, TypeOK, DurableOK, FateOf
  <1>6. CASE FateOf(i)' = "open"
    BY <1>2, <1>4, <1>5, <1>6, Stutter
  <1>7. ASSUME NEW f \in {"filled", "dead"}, FateOf(i)' = f PROVE Contract!CNext
    <2>1. Contract!Resolve(i, f)
      BY <1>1, <1>2, <1>4, <1>5, <1>7, FateStep DEF Contract!Resolve
    <2>2. QED BY <2>1 DEF Contract!CNext
  <1>8. QED BY <1>4, <1>6, <1>7

\* Every step of the component is a step of the contract or leaves it alone.
LEMMA StepRefines == IInv /\ IInv' /\ [Next]_vars => [Contract!CNext]_(Contract!cvars)
  <1> SUFFICES ASSUME IInv, IInv', [Next]_vars PROVE Contract!CNext \/ UNCHANGED Contract!cvars
    OBVIOUS
  <1>1. CASE SubmitStep
    <2>1. CASE Claim \/ Post \/ BindTrade
      BY <2>1, ClaimSubmits, PostSends, BindingOwns
    <2>2. CASE PreflightRejects
      <3>1. cur \in Intents
        BY <2>2 DEF IInv, TypeOK, ThreadOK, PreflightRejects
      <3>2. QED BY <2>2, <3>1, NoFillGivesUp
    <2>3. CASE QueryFails
      BY <2>3, LabelSteps
    <2>4. CASE \/ CloseGeneration \/ PostRaises \/ QueryFinds \/ SubmitIncident \/ RecordIds
               \/ RequireConfirmedEntry \/ StageReceipts \/ CommitTrade
               \/ \E full \in BOOLEAN : Answered(full)
      <3>1. UNCHANGED <<intents, order>>
        BY <2>4 DEF CloseGeneration, PostRaises, QueryFinds, SubmitIncident, RecordIds,
           RequireConfirmedEntry, StageReceipts, CommitTrade, Answered, store
      <3>2. QED BY <3>1, QuietSteps
    <2>5. QED BY <1>1, <2>1, <2>2, <2>3, <2>4 DEF SubmitStep
  <1>2. CASE PassStep
    <2>1. CASE BindRecovered
      BY <2>1, BindingOwns
    <2>2. CASE \E i \in Intents : ScanNoFill(i)
      BY <2>2, NoFillGivesUp
    <2>3. CASE EndPass \/ \E i \in Intents : ScanBlocked(i)
      BY <2>3, LabelSteps
    <2>4. CASE \/ StartPass \/ ScanDone \/ RecoveryIncident \/ ImportRaises \/ ImportDone
               \/ EndLoop \/ \E i \in Intents : ScanFull(i) \/ ImportEntry(i)
      <3>1. UNCHANGED <<intents, order>>
        BY <2>4 DEF StartPass, ScanDone, RecoveryIncident, ImportRaises, ImportDone,
           EndLoop,
           ScanFull, ImportEntry, store
      <3>2. QED BY <3>1, QuietSteps
    <2>5. QED BY <1>2, <2>1, <2>2, <2>3, <2>4 DEF PassStep
  <1>3. CASE Exchange
    BY <1>3, ExchangeResolves DEF Exchange
  <1>4. CASE Crash \/ UNCHANGED vars
    <2>1. UNCHANGED <<intents, order>>
      BY <1>4 DEF Crash, vars, store
    <2>2. QED BY <2>1, QuietSteps
  <1>5. CASE \E i \in Intents : Admit(i)
    BY <1>5, LabelSteps
  <1>6. QED BY <1>1, <1>2, <1>3, <1>4, <1>5 DEF Next

\* The entry component, with its crashes, lost answers and two databases,
\* implements EntryContract.
THEOREM EntryRefinesContract == Spec => ImplementsContract
  <1>1. Init => Contract!CInit
    BY DEF Init, Row, OutcomeOf, FateOf, Contract!CInit
  <1>2. QED BY <1>1, Inductive, StepRefines, PTL DEF Spec, ImplementsContract,
     Contract!CSpec


================================================================================
