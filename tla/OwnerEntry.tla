------------------------------- MODULE OwnerEntry -------------------------------
(***************************************************************************)
(* From the claim of an entry to the Trade that owns it: submit_entry and  *)
(* execute_entry on the way forward, and the recovery of submitted entries *)
(* without a Trade (entry_recovery.py, _binana_recover_unbound_entries) on *)
(* every pass of the owner loop.  One process; it may crash between any two*)
(* steps.  Its durable state is the StateStore and Freqtrade's Trade table,*)
(* two databases that no transaction spans.  The exchange may receive an   *)
(* entry late or never, and every answer may be lost.                      *)
(*                                                                         *)
(* Abstractions.  An entry is a FOK order, so quantities are "filled" or   *)
(* not; its OTOCO exit children belong to OwnerProtection.  The map        *)
(* `prepared` is `cur`: inside one pass the prepared admission of a pair is*)
(* the one being submitted.  Identity, quantity, cost and receipt checks   *)
(* that raise are the failing alternative of the step they belong to.      *)
(***************************************************************************)
EXTENDS OwnerIntents

CONSTANTS NoIntent,   \* no entry in progress
          MaxCrashes  \* bound on crashes of the process

ASSUME EntryAssumption == NoIntent \notin Intents /\ MaxCrashes \in Nat

VARIABLES intents,    \* StateStore: life-cycle label and Trade binding
          gen,        \* StateStore: status of generation 1 of each intent
          incidents,  \* StateStore: the OPEN incidents
          trades,     \* Freqtrade: Trades holding the entry order of an intent
          order,      \* the exchange: the entry order list of each intent
          ready,      \* canonical_reconciliation_ready
          pc, cur,    \* where the owner thread is, and on which intent
          confirmed,  \* the submission answer proves a full fill
          todo,       \* intents recover_unbound_entries has still to read
          results,    \* full fills it found, to be imported
          failed,     \* this pass has failed on some entry
          crashes

store == <<intents, gen, incidents>>
pass == <<todo, results, failed>>
vars == <<intents, gen, incidents, trades, order, ready, pc, cur, confirmed,
          todo, results, failed, crashes>>

EntryStates == {"ABSENT", "RESERVED", "ENTRY_PENDING", "UNKNOWN", "OPEN", "CLOSED_NO_FILL"}
GenStatus == {"NONE", "SUBMISSION_PENDING", "ENTRY_PENDING", "CLOSED_NO_FILL"}

\* "none": not sent; "inflight": sent, not received; "lost": will never be received.
OrderStates == {"none", "inflight", "lost", "new", "filled", "expired"}
Visible == {"new", "filled", "expired"}

Row(s, b) == [state |-> s, bound |-> b]

\* Incident ids: submit-<intent>, entry-recovery-<intent> and the sweep's own.
EntryIncidents(i) == {<<"submit", i>>, <<"entry-recovery", i>>}
SweepIncident == <<"canonical-entry-reconstruction", NoIntent>>
IncidentIds == ({"submit", "entry-recovery"} \X Intents) \cup {SweepIncident}

Pcs == {"idle", "enter", "submit", "no_fill", "post", "query", "unknown", "record", "confirm",
        "stage", "commit", "bind", "scan", "blocked", "import", "import_bind", "reconcile"}

\* The durable databases and the exchange keep their types.
DurableOK ==
    /\ intents \in [Intents -> [state : EntryStates, bound : BOOLEAN]]
    /\ gen \in [Intents -> GenStatus]
    /\ incidents \subseteq IncidentIds
    /\ trades \in [Intents -> Nat]
    /\ order \in [Intents -> OrderStates]

\* The owner thread keeps its types: a step on an intent has one.
ThreadOK ==
    /\ ready \in BOOLEAN /\ confirmed \in BOOLEAN /\ failed \in BOOLEAN
    /\ pc \in Pcs
    /\ cur \in Intents \cup {NoIntent}
    /\ pc \notin {"idle", "enter", "scan", "import", "reconcile"} => cur \in Intents
    /\ todo \subseteq Intents /\ results \subseteq Intents
    /\ crashes \in 0..MaxCrashes

\* Type invariant of the entry state.
TypeOK == DurableOK /\ ThreadOK

Init ==
    /\ intents = [i \in Intents |-> Row("ABSENT", FALSE)]
    /\ gen = [i \in Intents |-> "NONE"]
    /\ incidents = {}
    /\ trades = [i \in Intents |-> 0]
    /\ order = [i \in Intents |-> "none"]
    /\ ready = FALSE /\ pc = "idle" /\ cur = NoIntent /\ confirmed = FALSE
    /\ todo = {} /\ results = {} /\ failed = FALSE
    /\ crashes = 0

SetState(i, s) == intents' = [intents EXCEPT ![i] = Row(s, intents[i].bound)]
Goto(p) == pc' = p /\ UNCHANGED cur

Return == pc' = "enter" /\ cur' = NoIntent

-----------------------------------------------------------------------------
(* Forward: enter_positions, submit_entry, require_confirmed_entry and the    *)
(* tail of execute_entry.                                                     *)

\* The admission of OwnerAdmission, for one process: it needs a clean
\* reconciliation and no blocker, and ends in a reservation.
Admit(i) ==
    /\ pc = "enter" /\ ready /\ ~HasBlockers(intents, incidents)
    /\ intents[i].state = "ABSENT"
    /\ SetState(i, "RESERVED")
    /\ pc' = "submit" /\ cur' = i
    /\ UNCHANGED <<gen, incidents, trades, order, ready, confirmed, pass, crashes>>

\* claim_entry_submission(): the label, the identities and generation 1 at once.
Claim ==
    /\ pc = "submit" /\ intents[cur].state = "RESERVED"
    /\ SetState(cur, "ENTRY_PENDING")
    /\ gen' = [gen EXCEPT ![cur] = "SUBMISSION_PENDING"]
    /\ Goto("post")
    /\ UNCHANGED <<incidents, trades, order, ready, confirmed, pass, crashes>>

\* OrderListError: the preflight of submit_fixed_otoco refuses before the POST;
\* entry_no_fill() writes the label first and the generation after it.
PreflightRejects ==
    /\ pc = "post" /\ order[cur] = "none"
    /\ SetState(cur, "CLOSED_NO_FILL")
    /\ Goto("no_fill")
    /\ UNCHANGED <<gen, incidents, trades, order, ready, confirmed, pass, crashes>>

CloseGeneration ==
    /\ pc = "no_fill"
    /\ gen' = [gen EXCEPT ![cur] = IF @ \in {"SUBMISSION_PENDING", "ENTRY_PENDING"}
                                   THEN "CLOSED_NO_FILL" ELSE @]
    /\ Return
    /\ UNCHANGED <<intents, incidents, trades, order, ready, confirmed, pass, crashes>>

\* The OTOCO POST leaves the process.
Post ==
    /\ pc = "post" /\ order[cur] = "none"
    /\ order' = [order EXCEPT ![cur] = "inflight"]
    /\ UNCHANGED <<store, trades, ready, pc, cur, confirmed, pass, crashes>>

\* The POST returns a response that proves the full fill, or does not.
Answered(full) ==
    /\ pc = "post" /\ order[cur] \in Visible
    /\ full => order[cur] = "filled"
    /\ confirmed' = full
    /\ Goto("record")
    /\ UNCHANGED <<store, trades, order, ready, pass, crashes>>

\* OrderListUnknown: any exception of the POST, a rejection by Binance included.
PostRaises ==
    /\ pc = "post" /\ order[cur] # "none"
    /\ Goto("query")
    /\ UNCHANGED <<store, trades, order, ready, confirmed, pass, crashes>>

\* query_list() by the saved client id finds the list: its orders carry no
\* execution, so the answer confirms nothing.
QueryFinds ==
    /\ pc = "query" /\ order[cur] \in Visible
    /\ confirmed' = FALSE
    /\ Goto("record")
    /\ UNCHANGED <<store, trades, order, ready, pass, crashes>>

\* The query fails or finds no list (yet): the label first, the incident after it.
QueryFails ==
    /\ pc = "query"
    /\ SetState(cur, "UNKNOWN")
    /\ Goto("unknown")
    /\ UNCHANGED <<gen, incidents, trades, order, ready, confirmed, pass, crashes>>

SubmitIncident ==
    /\ pc = "unknown"
    /\ incidents' = incidents \cup {<<"submit", cur>>}
    /\ Return
    /\ UNCHANGED <<intents, gen, trades, order, ready, confirmed, pass, crashes>>

\* put_generation() saves the exchange ids and bind_order_identity() the roles;
\* recovery redoes both from the client ids, so they are one step here.
RecordIds ==
    /\ pc = "record"
    /\ gen' = [gen EXCEPT ![cur] = "ENTRY_PENDING"]
    /\ Goto("confirm")
    /\ UNCHANGED <<intents, incidents, trades, order, ready, confirmed, pass, crashes>>

\* require_confirmed_entry(): only a full fill may create a Trade now.
RequireConfirmedEntry ==
    /\ pc = "confirm"
    /\ \/ confirmed /\ Goto("stage") /\ UNCHANGED incidents
       \/ /\ ~confirmed /\ Return
          /\ incidents' = incidents \cup {<<"entry-recovery", cur>>}
    /\ UNCHANGED <<intents, gen, trades, order, ready, confirmed, pass, crashes>>

\* stage_canonical_receipts() reads the executions; a failure rolls the session
\* back and leaves the intent to the recovery pass, without an incident.
StageReceipts ==
    /\ pc = "stage"
    /\ Goto("commit") \/ Return
    /\ UNCHANGED <<store, trades, order, ready, confirmed, pass, crashes>>

\* Trade.commit() with the entry order and its identity.
CommitTrade ==
    /\ pc = "commit"
    /\ trades' = [trades EXCEPT ![cur] = @ + 1]
    /\ Goto("bind")
    /\ UNCHANGED <<store, order, ready, confirmed, pass, crashes>>

\* bind_trade(): the other database.
BindTrade ==
    /\ pc = "bind"
    /\ intents' = [intents EXCEPT ![cur] = Row(intents[cur].state, TRUE)]
    /\ Return
    /\ UNCHANGED <<gen, incidents, trades, order, ready, confirmed, pass, crashes>>

-----------------------------------------------------------------------------
(* Recovery: _binana_reconcile_external_exits, entries first. *)

\* Mutant: the scan also revisits entries whose life cycle has ended.
Unbound_Terminal == {i \in Intents : ~intents[i].bound /\ gen[i] # "NONE"}

\* The scan of recover_unbound_entries: generation 1 exists, no Trade owns it, and
\* the life cycle has not ended.
Unbound ==
    {i \in Intents : /\ ~intents[i].bound
                     /\ gen[i] # "NONE"
                     /\ intents[i].state \notin TERMINAL_INTENT_STATES}

StartPass ==
    /\ pc = "idle"
    /\ ready' = FALSE
    /\ todo' = Unbound /\ results' = {} /\ failed' = FALSE
    /\ Goto("scan")
    /\ UNCHANGED <<store, trades, order, confirmed, crashes>>

\* _recover_unbound_entry raises: the list is not visible, a read fails, the order
\* is not terminal, or what was read is incomplete (before or after the ids were
\* saved).  The label is written first, the incident after it.
ScanBlocked(i) ==
    /\ pc = "scan" /\ i \in todo
    /\ \/ UNCHANGED gen
       \/ order[i] \in Visible /\ gen' = [gen EXCEPT ![i] = "ENTRY_PENDING"]
    /\ SetState(i, "UNKNOWN")
    /\ pc' = "blocked" /\ cur' = i
    /\ UNCHANGED <<incidents, trades, order, ready, confirmed, pass, crashes>>

RecoveryIncident ==
    /\ pc = "blocked"
    /\ incidents' = incidents \cup {<<"entry-recovery", cur>>}
    /\ failed' = TRUE
    /\ todo' = todo \ {cur}
    /\ pc' = "scan" /\ cur' = NoIntent
    /\ UNCHANGED <<intents, gen, trades, order, ready, confirmed, results, crashes>>

\* Mutant: a list the exchange does not know is taken for an entry that never was.
ScanNoFill_AbsentIsNoFill(i) ==
    /\ pc = "scan" /\ i \in todo
    /\ order[i] = "expired" \/ order[i] \notin Visible
    /\ gen' = [gen EXCEPT ![i] = "CLOSED_NO_FILL"]
    /\ SetState(i, "CLOSED_NO_FILL")
    /\ incidents' = incidents \ EntryIncidents(i)
    /\ todo' = todo \ {i}
    /\ UNCHANGED <<trades, order, ready, pc, cur, confirmed, results, failed, crashes>>

\* A terminal order without a fill, a finished list and no open order on the
\* pair: finalize_entry_no_fill() ends the life cycle in one transaction.
ScanNoFill(i) ==
    /\ pc = "scan" /\ i \in todo
    /\ order[i] = "expired" /\ ~intents[i].bound
    /\ gen' = [gen EXCEPT ![i] = "CLOSED_NO_FILL"]
    /\ SetState(i, "CLOSED_NO_FILL")
    /\ incidents' = incidents \ EntryIncidents(i)
    /\ todo' = todo \ {i}
    /\ UNCHANGED <<trades, order, ready, pc, cur, confirmed, results, failed, crashes>>

\* A verified full fill: the ids are saved and the entry awaits its import.
ScanFull(i) ==
    /\ pc = "scan" /\ i \in todo
    /\ order[i] = "filled"
    /\ gen' = [gen EXCEPT ![i] = "ENTRY_PENDING"]
    /\ results' = results \cup {i}
    /\ todo' = todo \ {i}
    /\ UNCHANGED <<intents, incidents, trades, order, ready, pc, cur, confirmed, failed, crashes>>

ScanDone ==
    /\ pc = "scan" /\ todo = {}
    /\ Goto("import")
    /\ UNCHANGED <<store, trades, order, ready, confirmed, pass, crashes>>

\* Mutant: the Trade that a crash left without a binding is not looked up.
ImportEntry_NoLookUp(i) ==
    /\ pc = "import" /\ i \in results
    /\ trades' = [trades EXCEPT ![i] = @ + 1]
    /\ pc' = "import_bind" /\ cur' = i
    /\ UNCHANGED <<store, order, ready, confirmed, pass, crashes>>

\* Mutant: an owner of the order is always a conflict, also the Trade that a crash
\* left without a binding.
ImportEntry_OwnerIsConflict(i) ==
    /\ pc = "import" /\ i \in results
    /\ trades[i] = 0
    /\ trades' = [trades EXCEPT ![i] = 1]
    /\ pc' = "import_bind" /\ cur' = i
    /\ UNCHANGED <<store, order, ready, confirmed, pass, crashes>>

\* The Trade that already holds the entry order, or a new one, committed.
ImportEntry(i) ==
    /\ pc = "import" /\ i \in results
    /\ trades[i] <= 1
    /\ trades' = [trades EXCEPT ![i] = 1]
    /\ pc' = "import_bind" /\ cur' = i
    /\ UNCHANGED <<store, order, ready, confirmed, pass, crashes>>

\* bind_recovered_entry() after update_trade_state: binding, label and incidents
\* in one transaction.
BindRecovered ==
    /\ pc = "import_bind"
    /\ intents' = [intents EXCEPT ![cur] = Row("OPEN", TRUE)]
    /\ incidents' = incidents \ EntryIncidents(cur)
    /\ results' = results \ {cur}
    /\ pc' = "import" /\ cur' = NoIntent
    /\ UNCHANGED <<gen, trades, order, ready, confirmed, todo, failed, crashes>>

\* An import raises (several owners, an unverified match, receipts or evidence
\* pending): the session is rolled back, the other results of this pass are
\* dropped and the sweep's incident opens.
ImportRaises ==
    /\ \/ pc = "import" /\ results # {}
       \/ pc = "import_bind"
    /\ incidents' = incidents \cup {SweepIncident}
    /\ failed' = TRUE /\ results' = {}
    /\ pc' = "reconcile" /\ cur' = NoIntent
    /\ UNCHANGED <<intents, gen, trades, order, ready, confirmed, todo, crashes>>

\* Mutant: the incident of an earlier pass is left open.
ImportDone_LeavesSweep ==
    /\ pc = "import" /\ results = {}
    /\ Goto("reconcile")
    /\ UNCHANGED <<store, trades, order, ready, confirmed, pass, crashes>>

\* Every result was imported: the sweep's incident closes.
ImportDone ==
    /\ pc = "import" /\ results = {}
    /\ incidents' = incidents \ {SweepIncident}
    /\ Goto("reconcile")
    /\ UNCHANGED <<intents, gen, trades, order, ready, confirmed, pass, crashes>>

\* The rest of the pass reconciles the Trades (OwnerProtection): an entry that
\* execute_entry bound becomes OPEN.  Entries are admitted again only after a
\* pass without a failure.
EndPass ==
    /\ pc = "reconcile"
    /\ intents' = [i \in Intents |-> IF intents[i].bound THEN Row("OPEN", TRUE) ELSE intents[i]]
    /\ ready' = ~failed
    /\ Goto("enter")
    /\ UNCHANGED <<gen, incidents, trades, order, confirmed, pass, crashes>>

\* enter_positions is over; the loop starts again.
EndLoop ==
    /\ pc = "enter"
    /\ Goto("idle")
    /\ UNCHANGED <<store, trades, order, ready, confirmed, pass, crashes>>

-----------------------------------------------------------------------------
(* The environment. *)

\* Binance receives a late POST, or never does (lost or rejected).
Arrive(i) ==
    /\ order[i] = "inflight"
    /\ \E o \in {"new", "lost"} : order' = [order EXCEPT ![i] = o]
    /\ UNCHANGED <<store, trades, ready, pc, cur, confirmed, pass, crashes>>

\* Fill or kill.
Match(i) ==
    /\ order[i] = "new"
    /\ \E o \in {"filled", "expired"} : order' = [order EXCEPT ![i] = o]
    /\ UNCHANGED <<store, trades, ready, pc, cur, confirmed, pass, crashes>>

\* The process dies and starts again: the databases and the exchange remain.
Crash ==
    /\ crashes < MaxCrashes
    /\ crashes' = crashes + 1
    /\ ready' = FALSE /\ pc' = "idle" /\ cur' = NoIntent /\ confirmed' = FALSE
    /\ todo' = {} /\ results' = {} /\ failed' = FALSE
    /\ UNCHANGED <<store, trades, order>>

\* A step of the submission, and of the recovery pass.
SubmitStep ==
    \/ Claim \/ PreflightRejects \/ CloseGeneration \/ Post
    \/ \E full \in BOOLEAN : Answered(full)
    \/ PostRaises \/ QueryFinds \/ QueryFails \/ SubmitIncident
    \/ RecordIds \/ RequireConfirmedEntry \/ StageReceipts \/ CommitTrade \/ BindTrade

PassStep ==
    \/ StartPass \/ ScanDone \/ RecoveryIncident \/ BindRecovered \/ ImportRaises
    \/ ImportDone \/ EndPass \/ EndLoop
    \/ \E i \in Intents : ScanBlocked(i) \/ ScanNoFill(i) \/ ScanFull(i) \/ ImportEntry(i)

Exchange == \E i \in Intents : Arrive(i) \/ Match(i)

Next == SubmitStep \/ PassStep \/ Exchange \/ Crash \/ \E i \in Intents : Admit(i)

Spec == Init /\ [][Next]_vars

\* The owner thread runs and the exchange settles what it received.  Reads and
\* writes of a recovery may fail any number of times, not for ever.
FairSpec ==
    /\ Spec
    /\ WF_vars(SubmitStep \/ PassStep) /\ WF_vars(Exchange)
    /\ \A i \in Intents : /\ SF_vars(ScanNoFill(i)) /\ SF_vars(ScanFull(i))
                          /\ SF_vars(ImportEntry(i))
    /\ SF_vars(BindRecovered)

-----------------------------------------------------------------------------
(* Properties. *)

\* An entry that may still fill is never written off: CLOSED_NO_FILL, which gives
\* the slot back and takes the intent out of the recovery scan, is only written
\* when the POST was never made or the order ended without a fill, although a
\* late POST is indistinguishable from an absent list.
NoFillIsTrue ==
    \A i \in Intents :
        intents[i].state = "CLOSED_NO_FILL" => order[i] \in {"none", "expired"}

\* One Trade per filled entry: whatever crashes separate the two databases, the
\* entry order is imported into exactly one Trade, and only a fill creates it.
OneTradePerEntry ==
    \A i \in Intents : trades[i] <= 1 /\ (trades[i] = 1 => order[i] = "filled")

\* A binding always points at a committed Trade.
BindingIsCommitted == \A i \in Intents : intents[i].bound => trades[i] = 1

\* Entries that exist or may exist on the exchange and that no Trade owns.
Unowned == {i \in Intents : order[i] \in {"inflight", "new", "filled"} /\ ~intents[i].bound}

\* Exposure that no Trade owns is always visible to the admission gate, through
\* its label or an incident, and so is never more than one entry.
UnownedExposureBlocks ==
    /\ Unowned # {} => HasBlockers(intents, incidents)
    /\ \A i, j \in Unowned : i = j

\* An entry incident never outlives its entry: while one is open the recovery
\* scan still reaches the intent, and that scan is all that can close it.
IncidentIsRecoverable ==
    \A i \in Intents : EntryIncidents(i) \cap incidents # {} => i \in Unbound

\* What the exchange settled, the owner settles: a filled entry gets its Trade
\* and an expired one is closed, after any crash and any number of failed reads.
EntrySettles ==
    \A i \in Intents :
        /\ order[i] = "filled" ~> intents[i].bound
        /\ order[i] = "expired" ~> intents[i].state = "CLOSED_NO_FILL"

\* Entries whose POST was claimed and never reached the exchange.  Nothing proves
\* their absence, so they block until an operator looks at them.
Unreached == {i \in Intents : order[i] \in {"none", "lost"} /\ i \in Unbound}

\* Admission is only ever closed for good by an entry that never reached the
\* exchange: every other blocker of this component is lifted again.
BlockersLift == []<>(~HasBlockers(intents, incidents) \/ Unreached # {})

-----------------------------------------------------------------------------
(* The contract this component implements. *)

OutcomeOf(i) ==
    IF intents[i].bound THEN "owned"
    ELSE IF intents[i].state = "CLOSED_NO_FILL" THEN "given_up"
    ELSE IF intents[i].state \in {"ENTRY_PENDING", "UNKNOWN", "OPEN"} THEN "submitted"
    ELSE "unclaimed"

FateOf(i) ==
    IF order[i] = "none" THEN "unsent"
    ELSE IF order[i] \in {"inflight", "new"} THEN "open"
    ELSE IF order[i] = "filled" THEN "filled" ELSE "dead"

Contract == INSTANCE EntryContract
    WITH outcome <- [i \in Intents |-> OutcomeOf(i)],
         fate <- [i \in Intents |-> FateOf(i)]

\* The owner's entry component implements EntryContract.
ImplementsContract == Contract!CSpec
================================================================================
