----------------------------- MODULE OwnerAdmission -----------------------------
(***************************************************************************)
(* Admission of an entry signal by the owner: from the signal of a strategy*)
(* to the durable claim that authorises one entry POST                     *)
(* (BinanaExecutionManager._prepare_candidate, abort_prepared and the first*)
(* half of submit_entry over StateStore; FreqtradeBot.create_trade is the  *)
(* caller).                                                                *)
(*                                                                         *)
(* Several coordinators share the SQLite store.  Each store call is one    *)
(* transaction (BEGIN IMMEDIATE), hence one action; between two calls a    *)
(* coordinator holds only volatile copies, which other coordinators may    *)
(* make stale, and a crash drops.  Inside one process every step below runs*)
(* under _exit_lock, so a coordinator does one thing at a time: its        *)
(* reconciliation (OwnerReconciles) runs only while its admission is idle. *)
(* What happens to an intent once its entry is claimed is summarised here  *)
(* by OwnerReconciles and EntryReturns and detailed in OwnerEntry and      *)
(* OwnerProtection.                                                        *)
(***************************************************************************)
EXTENDS OwnerIntents

CONSTANTS Coordinators, Pairs,
          Versions,    \* contents the owner's halal registry file may have
          MaxRev,      \* bound on rewrites of one reservable row
          PairOf,      \* [Intents -> Pairs]
          HalalPairs,  \* [Versions -> SUBSET Pairs], the registry's contents
          Nominal,     \* [Intents -> Nat], the requested nominal in USDT
          MaxSlots,    \* max_open_trades
          Allocation,  \* binana.allocation_usdt
          NoIntent     \* no prepared admission

ASSUME AdmissionAssumption ==
    /\ IsFiniteSet(Intents) /\ NoIntent \notin Intents
    /\ Versions # {}
    /\ MaxRev \in Nat
    /\ PairOf \in [Intents -> Pairs]
    /\ HalalPairs \in [Versions -> SUBSET Pairs]
    /\ Nominal \in [Intents -> Nat \ {0}]
    /\ MaxSlots \in Nat /\ Allocation \in Nat

(***************************************************************************)
(* A row of the intents table, abstracted to the columns that some guard of*)
(* the code compares:                                                      *)
(*   state   the life-cycle label ("ABSENT": there is no row)              *)
(*   halal   halal_allowed, the one membership decision                    *)
(*   sha     registry_sha256, the registry version that decided            *)
(*   code    the part of admission_json the replay path reads              *)
(*   rev     updated_ts, as a count of the writes that leave the row in a  *)
(*           reservable state (the only rows a stale copy is compared to)  *)
(*   bound   freqtrade_trade_id is not NULL                                *)
(***************************************************************************)

\* Of admission_json only one code is ever read back: the flow rejection that
\* may be reassessed while its candle is current.
Codes == {"BULLISH_FLOW_NOT_CONFIRMED", "OTHER"}

Rows == [state : IntentStates, halal : BOOLEAN, sha : Versions, code : Codes,
         rev : 0..MaxRev, bound : BOOLEAN]

\* A write of the state column alone, and of the Trade binding alone.
WithState(row, s) ==
    [state |-> s, halal |-> row.halal, sha |-> row.sha, code |-> row.code,
     rev |-> row.rev, bound |-> row.bound]

WithTrade(row, b) ==
    [state |-> row.state, halal |-> row.halal, sha |-> row.sha, code |-> row.code,
     rev |-> row.rev, bound |-> b]

VARIABLES intents,    \* the intents table
          evidence,   \* intents with a protection, order_identity or fill row
          incidents,  \* intents with an OPEN incident
          registry,   \* the version of the halal registry file on disk
          step,       \* where each coordinator is in its admission call
          signal,     \* the intent it works on
          seen,       \* its local copy of that intent's row
          prepared,   \* the volatile map pair -> prepared admission
          claims,     \* history: entry submissions authorised per intent
          reopened,   \* history: intents that left a terminal state again
          stranded    \* history: reservations that an exception or a crash left behind

local == <<step, signal, seen>>

vars == <<intents, evidence, incidents, registry, step, signal, seen, prepared, claims, reopened,
          stranded>>

Steps == {"idle", "gated", "decide", "put", "market", "accepted", "prepared", "cleared",
          "aborting", "abort_checked", "posting"}

NoRow == [state |-> "ABSENT", halal |-> FALSE, sha |-> CHOOSE v \in Versions : TRUE,
          code |-> "OTHER", rev |-> 0, bound |-> FALSE]

\* The durable tables, the registry file and the histories.
StoreOK ==
    /\ intents \in [Intents -> Rows]
    /\ evidence \subseteq Intents
    /\ incidents \subseteq Intents
    /\ registry \in Versions
    /\ prepared \in [Coordinators -> [Pairs -> Intents \cup {NoIntent}]]
    /\ claims \in [Intents -> Nat]
    /\ reopened \subseteq Intents /\ stranded \subseteq Intents

\* The locals of the coordinators: a call in progress works on a signal.
LocalOK ==
    /\ step \in [Coordinators -> Steps]
    /\ signal \in [Coordinators -> Intents \cup {NoIntent}]
    /\ seen \in [Coordinators -> Rows]
    /\ \A c \in Coordinators : step[c] # "idle" => signal[c] \in Intents

\* Type invariant of the admission state.
TypeOK == StoreOK /\ LocalOK

Init ==
    /\ intents = [i \in Intents |-> NoRow]
    /\ evidence = {}
    /\ incidents = {}
    /\ registry \in Versions
    /\ step = [c \in Coordinators |-> "idle"]
    /\ signal = [c \in Coordinators |-> NoIntent]
    /\ seen = [c \in Coordinators |-> NoRow]
    /\ prepared = [c \in Coordinators |-> [p \in Pairs |-> NoIntent]]
    /\ claims = [i \in Intents |-> 0]
    /\ reopened = {} /\ stranded = {}

-----------------------------------------------------------------------------
(* Local steps of a coordinator. *)

Goto(c, s) == step' = [step EXCEPT ![c] = s] /\ UNCHANGED <<signal, seen>>

\* Go on with a copy of a row.
GotoWith(c, s, row) ==
    /\ step' = [step EXCEPT ![c] = s]
    /\ seen' = [seen EXCEPT ![c] = row]
    /\ UNCHANGED signal

\* The call returns or raises: its locals are gone, `prepared` stays.
Return(c) ==
    /\ step' = [step EXCEPT ![c] = "idle"]
    /\ signal' = [signal EXCEPT ![c] = NoIntent]
    /\ seen' = [seen EXCEPT ![c] = NoRow]

\* _prepare_candidate, has_blockers() check: an open blocker rejects the signal
\* (assert_release_ready, which create_trade calls first, includes the check).
Gate(c, i) ==
    /\ step[c] = "idle"
    /\ ~HasBlockers(intents, incidents)
    /\ step' = [step EXCEPT ![c] = "gated"]
    /\ signal' = [signal EXCEPT ![c] = i]
    /\ UNCHANGED seen
    /\ UNCHANGED <<intents, evidence, incidents, registry, prepared, claims, reopened, stranded>>

\* The rows of an existing intent that may be assessed again.  Everything else
\* raises: not halal, terminal, owned, RESERVED, or finally rejected.  After a
\* first rejection the signal's candle must still be the current one and a flow
\* rejection at least 5s old: time is not modelled, so a later check may fail.
Reassessable(i, row) ==
    /\ row.halal
    /\ ~row.bound /\ i \notin evidence
    /\ \/ row.state = "HALAL_DECIDED"
       \/ row.state = "PAIR_NOT_READY"
       \/ row.state = "REJECTED_FLOW" /\ row.code = "BULLISH_FLOW_NOT_CONFIRMED"

\* _assert_current_signal applies to a copy of an earlier rejection.
MayHaveExpired(row) == row.state \in {"PAIR_NOT_READY", "REJECTED_FLOW"}

\* get_intent(): no row leads to the registry decision, a reassessable row to the
\* market checks with a copy of it, and any other row raises.
LookUp(c) ==
    /\ step[c] = "gated"
    /\ LET i == signal[c]
           row == intents[i]
       IN  \/ row.state = "ABSENT" /\ Goto(c, "decide")
           \/ /\ row.state # "ABSENT" /\ Reassessable(i, row)
              /\ GotoWith(c, "market", row)
           \/ /\ row.state # "ABSENT"
              /\ ~Reassessable(i, row) \/ MayHaveExpired(row)
              /\ Return(c)
    /\ UNCHANGED <<intents, evidence, incidents, registry, prepared, claims, reopened, stranded>>

\* The nominal exposure of a set of intents.
NominalOf(S) == MapThenSumSet(LAMBDA i : Nominal[i], S)

\* The row put_intent() inserts for a decision of the current registry.
NewRow(state, halal) ==
    [state |-> state, halal |-> halal, sha |-> registry, code |-> "OTHER",
     rev |-> 0, bound |-> FALSE]

\* Mutant: a cached set of assets decides, the digest is that of the new file.
Decide_StaleAssets(c) ==
    /\ step[c] = "decide"
    /\ LET row == NewRow("HALAL_DECIDED",
                         \E v \in Versions : PairOf[signal[c]] \in HalalPairs[v])
       IN  GotoWith(c, "put", row)
    /\ UNCHANGED <<intents, evidence, incidents, registry, prepared, claims, reopened, stranded>>

\* registry.decide() followed by the slot and the allocation queries: the row
\* that is about to be inserted, held in the coordinator's locals.
Decide(c) ==
    /\ step[c] = "decide"
    /\ LET i == signal[c]
           halal == PairOf[i] \in HalalPairs[registry]
           used == Occupying(intents)
           state == IF ~halal THEN "REJECTED_HALAL"
                    ELSE IF Cardinality(used) >= MaxSlots THEN "REJECTED_MAX_SLOTS"
                    ELSE IF NominalOf(used) + Nominal[i] > Allocation
                         THEN "REJECTED_ALLOCATION" ELSE "HALAL_DECIDED"
           row == NewRow(state, halal)
       IN  GotoWith(c, "put", row)
    /\ UNCHANGED <<intents, evidence, incidents, registry, prepared, claims, reopened, stranded>>

\* RegistryError: the registry file is missing, malformed or out of review;
\* nothing is persisted.
RegistryUnavailable(c) ==
    /\ step[c] = "decide"
    /\ Return(c)
    /\ UNCHANGED <<intents, evidence, incidents, registry, prepared, claims, reopened, stranded>>

\* put_intent(): inserts the row, or finds one that another coordinator inserted
\* and leaves it alone (a different decision raises).  An allowed signal goes on
\* with a fresh get_intent() copy of whatever row is there.
PutIntent(c) ==
    /\ step[c] = "put"
    /\ LET i == signal[c]
           new == seen[c]
           old == intents[i]
           row == IF old.state = "ABSENT" THEN new ELSE old
       IN  /\ intents' = [intents EXCEPT ![i] = row]
           /\ IF /\ new.state = "HALAL_DECIDED"
                 /\ row.halal = new.halal /\ row.sha = new.sha
              THEN GotoWith(c, "market", row)
              ELSE Return(c)
    /\ UNCHANGED <<evidence, incidents, registry, prepared, claims, reopened, stranded>>

-----------------------------------------------------------------------------
(* The slow market reads end in one of two compare-and-set transactions. *)

\* Mutant: the transaction trusts the copy that was read before the market checks.
StillMine_TrustsCopy(c) == seen[c].state \in ReservableStates

\* Mutant: order evidence is checked, the row is not compared again.
StillMine_EvidenceOnly(c) == signal[c] \notin evidence

\* dict(row) == expected and the state is still reservable and unowned.
StillMine(c) ==
    LET i == signal[c]
    IN  /\ intents[i] = seen[c]
        /\ intents[i].state \in ReservableStates
        /\ ~intents[i].bound /\ i \notin evidence

\* The next updated_ts of a row that stays reservable.
Rewritten(row, state, code) ==
    [state |-> state, halal |-> row.halal, sha |-> row.sha, code |-> code,
     rev |-> IF state \in ReservableStates THEN row.rev + 1 ELSE row.rev,
     bound |-> row.bound]

\* reject_admission(): a failed capability, readiness, execution, flow,
\* confluence or sequence-book check.  A changed row is left untouched.
RejectAdmission(c, state, code) ==
    /\ step[c] = "market"
    /\ state \in ReservableStates => seen[c].rev < MaxRev
    /\ code = "BULLISH_FLOW_NOT_CONFIRMED" => state = "REJECTED_FLOW"
    /\ LET i == signal[c]
       IN  intents' = IF StillMine(c)
                      THEN [intents EXCEPT ![i] = Rewritten(intents[i], state, code)]
                      ELSE intents
    /\ Return(c)
    /\ UNCHANGED <<evidence, incidents, registry, prepared, claims, reopened, stranded>>

\* Mutant: the slots are left to the query made before the row was inserted.
Reservation_SlotsUnchecked(i) ==
    IF NominalOf(Occupying(intents) \ {i}) + Nominal[i] > Allocation
    THEN "REJECTED_ALLOCATION" ELSE "RESERVED"

\* Mutant: the allocation is left to the query made before the row was inserted.
Reservation_NominalUnchecked(i) ==
    IF Cardinality(Occupying(intents) \ {i}) >= MaxSlots
    THEN "REJECTED_MAX_SLOTS" ELSE "RESERVED"

\* The outcome reserve_admission() writes for intent i, given the current table.
Reservation(i) ==
    LET others == Occupying(intents) \ {i}
    IN  IF Cardinality(others) >= MaxSlots THEN "REJECTED_MAX_SLOTS"
        ELSE IF NominalOf(others) + Nominal[i] > Allocation THEN "REJECTED_ALLOCATION"
        ELSE "RESERVED"

\* reserve_admission() has nothing to write: the row changed, the intent is owned
\* or not halal, or a blocker is open.
ReservationRefused(c) ==
    \/ ~StillMine(c)
    \/ ~intents[signal[c]].halal
    \/ HasBlockers(intents, incidents)

\* The market checks raise without a verdict: a read fails, or a reassessed
\* signal's candle is no longer current.  The row keeps the state it has.
MarketChecksRaise(c) ==
    /\ step[c] = "market"
    /\ Return(c)
    /\ UNCHANGED <<intents, evidence, incidents, registry, prepared, claims, reopened, stranded>>

\* reserve_admission() after every check passed; a reservation is then recorded
\* in the volatile map, and _prepare_candidate returns.
ReserveAdmission(c) ==
    /\ step[c] = "market"
    /\ LET i == signal[c]
           state == Reservation(i)
       IN  IF ReservationRefused(c)
           THEN Return(c) /\ UNCHANGED <<intents, prepared>>
           ELSE /\ intents' = [intents EXCEPT ![i] = Rewritten(@, state, "OTHER")]
                /\ IF state = "RESERVED"
                   THEN /\ step' = [step EXCEPT ![c] = "accepted"]
                        /\ seen' = [seen EXCEPT ![c] = NoRow]
                        /\ UNCHANGED signal
                        /\ prepared' = [prepared EXCEPT ![c][PairOf[i]] = i]
                   ELSE Return(c) /\ UNCHANGED prepared
    /\ UNCHANGED <<evidence, incidents, registry, claims, reopened, stranded>>

-----------------------------------------------------------------------------
(* From the reservation to the claim (prepare_candidate, execute_entry,         *)
(* submit_entry).                                                               *)

\* prepare_candidate journals ADMISSION_ACCEPTED.  (Rejections are journalled too,
\* after the last write of the call: a failure there changes only what is raised.)
JournalAccepted(c) ==
    /\ step[c] = "accepted"
    /\ Goto(c, "prepared")
    /\ UNCHANGED <<intents, evidence, incidents, registry, prepared, claims, reopened, stranded>>

\* The holder leaves the call without a claim or an abort.
Strand(c) == Return(c) /\ stranded' = stranded \cup {signal[c]}

\* append_event raises.  create_trade catches AdmissionRejected only, and its
\* finally does not reach back to prepare_candidate: the reservation stays.
JournalRaises(c) ==
    /\ step[c] = "accepted"
    /\ Strand(c)
    /\ UNCHANGED <<intents, evidence, incidents, registry, prepared, claims, reopened>>

\* execute_entry asks assert_release_ready() again; a blocker, or any other
\* failure before the claim, unwinds to abort_prepared().
ReleaseReady(c) ==
    /\ step[c] = "prepared"
    /\ \/ ~HasBlockers(intents, incidents) /\ Goto(c, "cleared")
       \/ Goto(c, "aborting")
    /\ UNCHANGED <<intents, evidence, incidents, registry, prepared, claims, reopened, stranded>>

\* submit_entry raises before the claim: filters unavailable, a quantity or price
\* of zero, or an order notional above the admitted one.
SubmitRaises(c) ==
    /\ step[c] = "cleared"
    /\ Goto(c, "aborting")
    /\ UNCHANGED <<intents, evidence, incidents, registry, prepared, claims, reopened, stranded>>

\* Mutant: the state is claimed, generation 1 is left to the code after the POST.
ClaimEntrySubmission_NoEvidence(c) ==
    /\ step[c] = "cleared"
    /\ intents' = [intents EXCEPT ![signal[c]] = WithState(@, "ENTRY_PENDING")]
    /\ claims' = [claims EXCEPT ![signal[c]] = @ + 1]
    /\ Goto(c, "posting")
    /\ UNCHANGED <<evidence, incidents, registry, prepared, reopened, stranded>>

\* claim_entry_submission(): generation 1 and ENTRY_PENDING in one transaction.
ClaimEntrySubmission(c) ==
    /\ step[c] = "cleared"
    /\ LET i == signal[c]
       IN  IF /\ intents[i].state = "RESERVED" /\ intents[i].halal
              /\ ~intents[i].bound /\ i \notin evidence
           THEN /\ intents' = [intents EXCEPT ![i] = WithState(@, "ENTRY_PENDING")]
                /\ evidence' = evidence \cup {i}
                /\ claims' = [claims EXCEPT ![i] = @ + 1]
                /\ Goto(c, "posting")
           ELSE Goto(c, "aborting") /\ UNCHANGED <<intents, evidence, claims>>
    /\ UNCHANGED <<incidents, registry, prepared, reopened, stranded>>

\* Mutant: cleanup only runs for decisions that were never reserved.
AbortCheck_DecidedOnly(c) ==
    /\ step[c] = "aborting"
    /\ LET i == prepared[c][PairOf[signal[c]]]
       IN  IF i # NoIntent /\ intents[i].state = "HALAL_DECIDED"
           THEN /\ step' = [step EXCEPT ![c] = "abort_checked"]
                /\ signal' = [signal EXCEPT ![c] = i]
                /\ UNCHANGED seen
           ELSE Return(c)
    /\ UNCHANGED <<intents, evidence, incidents, registry, prepared, claims, reopened, stranded>>

\* abort_prepared(), its reads: the prepared intent, its state, its generations.
AbortCheck(c) ==
    /\ step[c] = "aborting"
    /\ LET i == prepared[c][PairOf[signal[c]]]
       IN  IF /\ i # NoIntent
              /\ intents[i].state \in {"HALAL_DECIDED", "RESERVED"}
              /\ i \notin evidence
           THEN /\ step' = [step EXCEPT ![c] = "abort_checked"]
                /\ signal' = [signal EXCEPT ![c] = i]
                /\ UNCHANGED seen
           ELSE Return(c)
    /\ UNCHANGED <<intents, evidence, incidents, registry, prepared, claims, reopened, stranded>>

\* abort_prepared(), its write: set_intent_state does not look at the row again.
AbortWrite(c) ==
    /\ step[c] = "abort_checked"
    /\ LET i == signal[c]
       IN  /\ intents' = [intents EXCEPT ![i] = Rewritten(@, "CLOSED_NO_FILL", "OTHER")]
           /\ prepared' = [prepared EXCEPT ![c][PairOf[i]] = NoIntent]
    /\ Return(c)
    /\ UNCHANGED <<evidence, incidents, registry, claims, reopened, stranded>>

\* abort_prepared() raises at a read or at its write: the finally of create_trade
\* logs it, and nothing tries again.
AbortRaises(c) ==
    /\ step[c] \in {"aborting", "abort_checked"}
    /\ Strand(c)
    /\ UNCHANGED <<intents, evidence, incidents, registry, prepared, claims, reopened>>

-----------------------------------------------------------------------------
(* After the claim, summarised. *)

\* History of a write of `state` to the row of i.
Reopens(i, state) ==
    reopened' = IF intents[i].state \in TERMINAL_INTENT_STATES /\ state \in OwnedStates
                THEN reopened \cup {i} ELSE reopened

\* submit_entry and execute_entry return: the entry is still pending, unknown
\* (with an incident), without a fill, or bound to its Trade.  set_intent_state
\* does not look at the row, which another coordinator may have recovered.
EntryReturns(c) ==
    /\ step[c] = "posting"
    /\ LET i == signal[c]
       IN  /\ \/ UNCHANGED <<intents, incidents, reopened>>
              \/ /\ intents' = [intents EXCEPT ![i] = WithState(@, "UNKNOWN")]
                 /\ incidents' = incidents \cup {i}
                 /\ Reopens(i, "UNKNOWN")
              \/ /\ intents' = [intents EXCEPT ![i] = WithState(@, "CLOSED_NO_FILL")]
                 /\ UNCHANGED <<incidents, reopened>>
              \/ /\ intents' = [intents EXCEPT ![i] = WithTrade(@, TRUE)]
                 /\ UNCHANGED <<incidents, reopened>>
           /\ \/ prepared' = [prepared EXCEPT ![c][PairOf[i]] = NoIntent]
              \/ UNCHANGED prepared
    /\ Return(c)
    /\ UNCHANGED <<evidence, registry, claims, stranded>>

\* Reconciliation of a claimed intent: any owned or terminal state, with or
\* without an incident; a Trade, once bound, stays bound.  Only retained dust
\* leaves a terminal state again (an operator exit or an invalid retention).
OwnerReconciles(c, i, state) ==
    /\ step[c] = "idle"
    /\ i \in evidence
    /\ \/ intents[i].state \in OwnedStates
       \/ intents[i].state = "DUST_RETAINED" /\ state \in OwnedStates
    /\ \E b \in {intents[i].bound, TRUE} :
           intents' = [intents EXCEPT ![i] = WithTrade(WithState(@, state), b)]
    /\ \E open \in {incidents \cup {i}, incidents \ {i}} : incidents' = open
    /\ Reopens(i, state)
    /\ UNCHANGED <<evidence, registry, local, prepared, claims, stranded>>

-----------------------------------------------------------------------------
(* The environment. *)

\* The steps of a coordinator that acts on a reservation of its own.
Holding == {"accepted", "prepared", "cleared", "aborting", "abort_checked", "posting"}

\* The process of a coordinator dies and restarts: its locals and its prepared
\* map are lost, the store is not.
Crash(c) ==
    /\ IF step[c] \in Holding \ {"posting"} THEN Strand(c) ELSE Return(c) /\ UNCHANGED stranded
    /\ prepared' = [prepared EXCEPT ![c] = [p \in Pairs |-> NoIntent]]
    /\ UNCHANGED <<intents, evidence, incidents, registry, claims, reopened>>

\* The owner replaces the registry file.
EditRegistry(v) ==
    /\ v # registry
    /\ registry' = v
    /\ UNCHANGED <<intents, evidence, incidents, local, prepared, claims, reopened, stranded>>

\* A call that has started goes on until it returns.
Continue(c) ==
    \/ LookUp(c) \/ Decide(c) \/ RegistryUnavailable(c) \/ PutIntent(c)
    \/ \E s \in RejectStates, k \in Codes : RejectAdmission(c, s, k)
    \/ ReserveAdmission(c) \/ MarketChecksRaise(c)
    \/ JournalAccepted(c) \/ JournalRaises(c)
    \/ ReleaseReady(c) \/ SubmitRaises(c) \/ ClaimEntrySubmission(c)
    \/ AbortCheck(c) \/ AbortWrite(c) \/ AbortRaises(c)
    \/ EntryReturns(c)

Next ==
    \/ \E c \in Coordinators, i \in Intents : Gate(c, i)
    \/ \E c \in Coordinators : Continue(c) \/ Crash(c)
    \/ \E c \in Coordinators, i \in Intents,
          s \in ReconciledStates : OwnerReconciles(c, i, s)
    \/ \E v \in Versions : EditRegistry(v)

Spec == Init /\ [][Next]_vars

\* A thread that is inside a call is scheduled until the call returns; signals,
\* reconciliation passes, crashes and edits are not promised.
FairSpec == Spec /\ \A c \in Coordinators : WF_vars(Continue(c))

-----------------------------------------------------------------------------
(* Properties. *)

\* A reservation has one owner: two coordinators that race through the market
\* checks of one signal never both come out of reserve_admission holding it, and
\* while a holder has not claimed, the row is exactly as it reserved it, so the
\* unguarded write of abort_prepared can only close a reservation nobody else is
\* acting on.
ReservationHasOneOwner ==
    /\ \A c, d \in Coordinators :
          /\ c # d
          /\ step[c] \in Holding /\ step[d] \in Holding
          => signal[c] # signal[d]
    /\ \A c \in Coordinators :
          step[c] \in Holding \ {"posting"} =>
              /\ intents[signal[c]].state = "RESERVED"
              /\ signal[c] \notin evidence

\* claim_entry_submission authorises exactly one entry POST per intent, whatever
\* coordinators race, crash and replay the signal; the claim leaves evidence.
OneEntrySubmission ==
    \A i \in Intents : claims[i] = IF i \in evidence THEN 1 ELSE 0

\* An entry is only ever claimed for a pair that the registry version recorded in
\* its row allowed, even when the registry file is edited afterwards or another
\* coordinator read a different version.
OnlyHalalSubmitted ==
    \A i \in evidence : intents[i].halal /\ PairOf[i] \in HalalPairs[intents[i].sha]

\* The reservations and exposures that the limits bound.  The code bounds
\* reservations, not returns: an intent that leaves a terminal state again
\* (retained dust that an operator exits, or a late UNKNOWN label on a recovered
\* entry) is outside the bound.
Exposed == Committed(intents) \ reopened

\* Reservations and exposures never exceed max_open_trades, although the slot
\* query of a new signal and the insertion of its row are separate transactions.
SlotsWithinLimit == Cardinality(Exposed) <= MaxSlots

\* Their nominal never exceeds the USDT allocation, whichever signals race
\* between the allocation query and the reservation.
NominalWithinAllocation == NominalOf(Exposed) <= Allocation

\* "A stale market read must never overwrite a concurrent order lifecycle": once
\* an intent has order evidence no step returns it to an admission state, and
\* the recorded halal decision of a row is never rewritten.
LifecycleNotOverwritten ==
    [][\A i \in Intents :
          /\ i \in evidence => intents'[i].state \in OwnedStates \cup TERMINAL_INTENT_STATES
          /\ intents[i].state # "ABSENT" =>
                /\ intents'[i].halal = intents[i].halal
                /\ intents'[i].sha = intents[i].sha]_vars

\* A signal that was finally rejected or aborted is never submitted later, not
\* even by a coordinator that was reading the market when it was rejected.
RejectionIsFinal ==
    [][\A i \in Intents :
          /\ intents[i].state \in FinalRejections \cup {"CLOSED_NO_FILL"}
          /\ i \notin evidence
          => intents'[i].state = intents[i].state /\ claims'[i] = claims[i]]_vars

\* An intent with exposure nobody has reconciled: its state is unknown, or an
\* order was claimed for it and no Trade owns it yet.
Unreconciled(i) ==
    \/ intents[i].state = "UNKNOWN"
    \/ intents[i].state \in OwnedStates /\ ~intents[i].bound

\* "New exposure is forbidden while any unresolved incident/unknown intent
\* exists" (has_blockers): no entry is claimed while a blocker is open.
NoClaimWhileBlocked ==
    [][incidents # {} \/ (\E i \in Intents : Unreconciled(i)) => claims' = claims]_vars

\* Every reservation ends in a claim or in abort_prepared, whatever the release
\* checks, the filters and the other coordinator do: the finally of create_trade
\* gives the slot back, unless the journal of the admission or the abort itself
\* raises, or the process dies in between.
ReservationResolved ==
    \A i \in Intents :
        intents[i].state = "RESERVED" ~> (intents[i].state # "RESERVED" \/ i \in stranded)

\* A reservation that nobody acts on and that authorised nothing.
Inert(i) ==
    /\ intents[i].state = "RESERVED" /\ claims[i] = 0
    /\ \A c \in Coordinators : step[c] \in Holding => signal[c] # i

\* What is left behind is harmless and stays: a stranded reservation is never
\* claimed, neither by a coordinator that was reading the market meanwhile nor by
\* a replay of its signal, and no code gives its slot back.
StrandedIsInert == \A i \in stranded : Inert(i)

================================================================================
