# A verification project for the BINANA order owner and its screener

This directory holds TLA+ models of the BINANA Spot/Testnet trading bot, the TLC
configurations that check them on small instances, and TLAPS proofs of the
properties that matter most. Paths in this document are relative to the
repository; `owner/` abbreviates `runtime_owner/owner/freqtrade/`.

To repeat a check: `tlc -config <File>.cfg <MC module>`; to repeat a proof:
`tlapm <module>Proofs.tla` (`OwnerAdmission`, `OwnerEntry`, `OwnerProtection`,
`DurableJournal`, `UserStream`, `OwnerReadiness`, `ShariaScreener`), and
`tlapm SumLemmas.tla` for the lemmas about sums.

## 1. The system

The bot buys a pair on Binance Spot when a strategy emits a signal and an
owner-controlled halal registry lists the pair's asset, and protects every
purchase with a stop and a target on the exchange. The running deployment has a
single *order owner*: a patched Freqtrade with the package `owner/binana/`. It is
the only process that sends orders. Everything else (universe scan, Sharia
screening, Telegram, monitoring) is advice or presentation, and an older
deployment with an execution sidecar is kept beside it.

The owner keeps its durable state in two SQLite databases that no transaction
spans, and acts on a third state, the exchange:

* `StateStore` (`owner/binana/state_store.py`): `intents` (one row per signal and
  its life-cycle label), `protection` (the generations of exit orders of an
  intent), `incidents`, `order_identity`, `fills`. Every call is one
  `BEGIN IMMEDIATE` transaction.
* Freqtrade's `Trade`/`Order` tables (`owner/persistence/trade_model.py`).
* Binance: an entry is a FOK order that brings its own OCO (OTOCO); exits are OCOs,
  or single market and IOC orders.

A loop of `FreqtradeBot.process()` updates open orders, runs the reconciliation
pass (closed Trades, entries without a Trade, then every open Trade), and then
admits and submits new entries. `_exit_lock` serialises the loop with the
operator's RPC exits inside one process. The process may die anywhere; a POST may
be lost, or take effect while its answer is lost; reads fail.

### Inventory

| component | state | operations | what is hard | what makes it correct |
|---|---|---|---|---|
| admission (`execution_manager.py`, `state_store.py`, `registry.py`) | `intents`, registry file, volatile `prepared` | `prepare_candidate`, `put_intent`, `reject_admission`, `reserve_admission`, `claim_entry_submission`, `abort_prepared` | slow market reads between a copy of a row and its compare-and-set; several coordinators; crash between reservation and claim; registry edits | one owner per reservation, one POST per signal, only halal pairs, slots and allocation respected, order life cycles never overwritten |
| entry and its recovery (`execution_manager.py`, `entry_recovery.py`, `freqtradebot.py`) | intent label, generation 1, Trade table, incidents | `submit_entry`, `require_confirmed_entry`, `execute_entry`, `recover_unbound_entries`, `bind_recovered_entry`, `finalize_entry_no_fill` | two databases and an exchange, crash between any two writes, late POSTs that look absent | a filled entry gets exactly one Trade, a live entry is never written off, unowned exposure blocks admission |
| protection (`verified_recovery.py`, `operator_exit.py`, `closed_recovery.py`, `submission_absence.py`, `execution_manager.maybe_promote`) | generations, label, incidents, the Trade's sell orders, dust phase | the pass, promotion, operator exit, recovery POST, import, dust retention, acknowledgments | cancels racing fills, lost POSTs, mixed reads, crashes between import, label and incident | one obligation, no oversell, no repeated POST, exact import, a bare position recovers, a closed one is acknowledged |
| recovery arithmetic, plan geometry (`recovery_contract.py`, `protection_plan.py`) | none | rounding, residual quantity, executability | boundaries of the exchange filters | never more than is owned, never below a filter |
| canonical fees and receipts (`canonical_fees.py`, `canonical_receipts.py`) | receipts on the Trade | merge, basis, fee assets | replay after a restart | a receipt is counted once, or refused |
| durable journal (`durable_journal.py`) | SQLite events, the projection row, the JSONL file, the copy of a legacy file | `append_event`, `_initialize`, `project` | two writers, torn writes, a crash between the synced file and the commit of its offset, a removed file | the file holds every event once and in order; the events of a legacy file are never lost |
| private user stream (`user_stream.py`) | health record, thread, websocket | connect, subscribe, receive, ping, supervise, start, stop | a half-open connection gives no error; a health record outlives what it describes | fresh means recently alive; a quiet session stays fresh; the stream recovers |
| retained inventory and release gate (`retained_inventory.py`, `release_gate.py`, `execution_manager.py:81-192`) | REST, retained and reconciliation evidence with its age, durable incidents | `refresh_runtime_evidence`, `refresh_retained_inventory`, `release_status` | dust that becomes executable between scans, half-written results, old evidence read by another thread | an approval never overlooks executable inventory beyond a stated age; alarms hold; refusals end |
| market gates (`market_data.py`, `quality_gate.py`, `confluence.py`, `allocation.py`) | caches | verdicts | none of their own: numeric thresholds | - |
| sharia screener (`services/sharia_screener`, the gate of `universe_service/sharia_filter.py`) | inbox, request queue and attempt ledger, reports, results, gate records | ingest, decide, choose, claim, screen, publish, mark, idle refill | quotas against retries, crashes and requeues; three files and a database per outcome; decisions that travel while reports are rewritten | quotas hold, the gate opens for exactly what the owner approved, every request ends |
| sharia local runner, sources, rules, retriever, egress proxy (`services/sharia_*`) | documents, registries | fetch, judge | network | numeric and textual rules; a verdict here |
| universe service (`services/universe_service`) | snapshots, provider budgets, breakers | scan, publish | half-written snapshots, budget at its limit | readers see whole snapshots |
| telegram broker, envelopes (`services/telegram_broker`, `services/common`) | update offset, replay claims | poll, dispatch | offset stored before the command runs | a command at most once |
| legacy sidecar and core (`services/execution_sidecar`, `legacy_core`) | its own claims and orders | claim, submit, reconcile | as the owner's | superseded |
| strategy, market context, monitoring, deployment, scripts, deployed copies | files, host state | - | - | outside the order protocol |

`PROJECT.json` lists the same components with their status and the hazards, each
at its line with the properties that watch it.

## 2. The modules

| module | models |
|---|---|
| `OwnerIntents` | the vocabulary of the store: label sets and the queries `has_blockers`, `occupied_count`, `occupied_nominal_usdt` |
| `OwnerAdmission` | a signal from `prepare_candidate` to the claim of its POST, for any number of coordinators over one store |
| `EntryContract` | abstract: what the owner promises about entry orders |
| `OwnerEntry` | from the claim to the Trade that owns the fill, and the recovery of what a crash or a lost answer left; implements `EntryContract` |
| `PositionContract` | abstract: the ledger of one position, what is covered, sold and booked |
| `OwnerProtection` | one owned position from its OCO to settlement; implements `PositionContract` |
| `DurableJournal` | `append_event` with its initialisation and projection, for any number of threads |
| `UserStream` | the thread of the private stream and the freshness others read |
| `OwnerReadiness` | the evidence the owner loop gathers, the incidents of retained dust, and the approval computed from them |
| `ShariaScreener` | the loop of the screener, its queue and quotas, owner decisions, publication, and the gate |
| `MCOwner*`, `MCShariaScreener` | model values, symmetry and small instances for TLC |
| `*Proofs` | theorems about the module they are named after |
| `SumLemmas` | what `SumFunctionOnSet` computes, for the proofs about totals |

`OwnerIntents` is shared. The three order modules divide an intent's life at
the claim and at the binding of the Trade; each summarises its neighbours
(`OwnerReconciles` and `EntryReturns` in `OwnerAdmission`, `Admit` and `EndPass`
in `OwnerEntry`, `Init` of `OwnerProtection`). Journal, stream and readiness are
parts of the same process that share no state with each other:
`MCOwnerServices` puts them in one instance, where the initial value of `part`
chooses the one that runs. The approval of `OwnerReadiness` and the freshness of
`UserStream` are what `ReleaseReady` of `OwnerAdmission` asks, whose outcome is
nondeterministic there.

### OwnerAdmission

One action per store transaction; between two of them a coordinator holds only
`step`, `signal` and `seen`, its copy of the row, plus the volatile `prepared`.
`Gate` is the blocker check, `LookUp` the replay decision, `Decide` and
`PutIntent` the one halal decision and its insertion, `RejectAdmission` and
`ReserveAdmission` the two compare-and-set transactions that follow the market
checks (whose verdicts are nondeterministic), `JournalAccepted` the journal entry
of an accepted signal, `ReleaseReady`, `SubmitRaises` and
`ClaimEntrySubmission` the way to the POST, `AbortCheck` and `AbortWrite` the read
and the write of `abort_prepared`, which are separate transactions in the code.
The journal entry is written after the reservation and outside the `try` that
aborts it, and an exception of `abort_prepared` is only logged: `JournalRaises` and
`AbortRaises` leave the row RESERVED with nobody to release it, as a crash does.
A row keeps the columns some guard compares: label, halal decision, registry
digest, the one reason code the replay path reads, `updated_ts` as a revision, and
whether a Trade is bound. The histories `claims`, `reopened` and `stranded` exist
for the properties only.

### OwnerEntry

One process, its thread (`pc`, `cur`), the two databases and the exchange. The
forward path is `Claim`, `Post`, the answer or its loss, `RecordIds`,
`RequireConfirmedEntry`, `StageReceipts`, `CommitTrade` (one database) and
`BindTrade` (the other). The recovery pass is `StartPass`, one of `ScanBlocked`,
`ScanNoFill`, `ScanFull` per unbound intent, then `ImportEntry` and
`BindRecovered` per fill. A label and the incident that follows it are separate
steps, as in the code. The order is filled or not (FOK), and a request may be in
flight for any length of time, so that an absent list proves nothing.

### OwnerProtection

One position, one pass at a time: `Scan` reads the generations in order,
`Decide` acts on what was read, `Submit` and `Promote` talk to the exchange,
`Settle` imports, retains and acknowledges. `Match` is the market, concurrent with
everything. `gens` is the `protection` table (mode, status, whether exchange ids
were saved, quantity), `book` the exchange's obligation of each generation,
`imported` the Trade's sell orders, `dust` the phase of the retention.

Quantities are small integers net of base commission; `MinExec` stands for the
filters. The two children of an OCO are one obligation, `live` (both rest) or
`working` (one triggered or partly filled); they are read in one step, while
generations and the open-order snapshot are read in separate steps. The eight
incident prefixes that are cleared together are one incident, `recovery`. A label
and its incident are one step here: both are rewritten by the next pass. A POST
with a lost answer is decided before the next pass reads it, which is what
Binance's `recvWindow` gives; a longer delay is outside the model, and is the case
in which an absence proof would be wrong.

`PositionContract` forgets generations, passes, labels and ids. Its four variables
are totals over the generations (`sold`, `covered`, `booked`) and the fate of the
position (`StatusOf`); `Cover`, `Sell`, `Uncover`, `Book` and `Retain` are all that
may happen, and nothing happens to a position that is closed or retained.

### DurableJournal

A writer goes through `AppendEvent`, the initialisation (`InitializeBegin`,
`WriteBackup`, one `ImportLine` per line, `InitializeCommit`) when it is the first,
`Insert`, and the projection (`ProjectRead` or `ProjectRebuild`, `ProjectWrite`,
`ProjectCommit`); `lock` is SQLite's write lock. What is inside an uncommitted
transaction (`pending`) is lost by an exception (`Raise`) or by the end of the
process (`JournalCrash`); what was written to the file is not, and may be torn.
`Remove` is a log rotation or an operator. A line is an event, a line of an earlier
release, or debris; offsets count lines. A line of an earlier release is an event,
is malformed and skipped, or is an object whose identity cannot be computed: that
one raises out of the import (`ImportRaises`), at every append, so that the journal
stays empty and the file as it was. A copy (`backup`) that was torn is not written
again.

### UserStream

`stream` is where the thread is: connecting, listening, pinging, failing (an
exception on its way to `_supervise`), in its backoff, cancelled, dead. `health`
is the record in memory with its age, `wire` and `silent` the exchange and how long
it has not answered. A tick is 5 s. `Start`, `Stop`, `Restart` and `ResumeOrStop`
are what the owner and the operator do to it. Journal and health writes of the
thread may fail.

### OwnerReadiness

One iteration is reconcile, refresh (throttled), account, scan, write. The market
changes which residuals are executable at any time, also during a scan, and `since`
says for how long they have been. `rest` and `retained` are in memory and age;
`incidents` are durable. `ReleaseApproved` is the part of `release_status` that
depends on them; its other conjuncts can only refuse.

### ShariaScreener

One iteration is ingest, decisions, choose, claim, screen, the three writes
(`WriteReport`, `WriteResult`, `WriteStatus`) and the mark; when nothing is to be
done, `IdleEnqueue`. A report is its code and the attempt that wrote it, which is
what its hash tells apart; `Bound` is the chain record, result, report that the
gate verifies. The verdict of `Screen` is nondeterministic. Producers and the owner
act between iterations. `DropRequest` is an envelope that has expired (600 s) or
cannot be verified: its file is unlinked without an answer, also when the file only
waited for the retry of one. `Midnight` resets the quotas, `ScreenerCrash` loses the
job, `ScreenerStart` requeues what was RUNNING. `stranded`, `superseded` and
`dropped` are histories for the properties. When the newest result of a base is not
intact the card of an older one is shown; the model knows only which is the newest
and takes any older one.

`GateAllows` is `ShariaFilter` on the V19 record of the screener. In the deployed
bundle that is not the operational gate: the screener runs in the `research` profile
and writes a tree of its own (`materialize_oracle_bundle.py:335-349`), while the
operational file is the owner's manual registry, for which `ShariaFilter` dispatches to
`ManualRegistryFilter` (`sharia_filter.py:59-66`). The properties of the gate, and
the finding about it, are about the operational gate only where the V19 projection is
the operational file, and about the research verdicts in the bundle.

## 3. The runs

| run | instance | shows |
|---|---|---|
| `admission_race` | 2 coordinators, 1 signal, 2 registry versions, crashes | `ReservationHasOneOwner`, `OneEntrySubmission`, `OnlyHalalSubmitted`, `LifecycleNotOverwritten`, `ReservationResolved`, `StrandedIsInert` |
| `admission_slots` | 2 coordinators, 2 signals, 1 slot | `SlotsWithinLimit` |
| `admission_allocation` | 2 coordinators, nominals 3 and 2, allocation 4 | `NominalWithinAllocation` |
| `admission_blocker_race` | 2 coordinators, 2 signals | violation: see findings |
| `entry` | 2 signals, 2 crashes | `NoFillIsTrue`, `OneTradePerEntry`, `UnownedExposureBlocks`, `ImplementsContract`, `EntrySettles`, `BlockersLift` |
| `protection_safety` | bought 3, protected 2, executable from 2, 3 generations, 1 crash, orders reported missing | `ImplementsPosition`, `OneObligation`, `NoOversell`, `NoRepeatedPost`, `ImportsAreExecutions`, `ClosedIsSettled`, `DustIsFinal`, `StrippedPositionBlocks` |
| `protection_progress` | bought 2, 3 generations, 1 crash | `ExitsReachTrade`, `BarePositionRecovers`, `ClosedIsAcknowledged` |
| `protection_lost_replacement` | no crash | violation: see findings |
| `protection_dust_crash` | 1 crash | violation: see findings |
| `owner_services` | 2 writers, 3 events, 2 legacy files; one stream; 2 pairs with dust | journal: `ProjectionFaithful`, `LegacyEventsSurvive`, `EventReachesFileLive`; stream: `FreshMeansAlive`, `SessionStaysFresh`, `StreamRecoversLive`; readiness: `ApprovalSeesInventory`, `AlarmHolds`, `ApprovalReturnsLive` |
| `screener` | 1 base, a manual and a bulk request, a scan of all, an idle scanner, 1 decision, 2 days | `QuotaHolds`, `ApprovalIsExact`, `FinishedScanCloses`, `SuppressedAnswered`, `RunningEnds` |
| `screener_stale_card` | the same with a stopping verdict | violation: see findings |

The type invariant of `ShariaScreener` is checked with its run; those of all modules
are theorems, and so are `RejectionIsFinal`,
`BindingIsCommitted`, `IncidentIsRecoverable`, `NoDebrisAfterCatchUp` and
`VerdictIsDurable`, which no run repeats. Every property of a run has a mutant of the
code (definitions whose comment starts with "Mutant") that breaks it.

### Bounds

* Coordinators 2: every admission race is between the holder of a stale copy and
  the writer that made it stale. The theorems have no bound.
* Signals 1 to 3, on different pairs; slots and nominals are chosen so that the
  signals do not fit together. `MaxRev` bounds the rewrites of one reservable row;
  two are enough for a copy to be stale by one write and current by state.
* Registry versions 2, the second without one pair.
* Crashes 1 or 2: a crash loses only volatile state, so a second one matters when
  it interrupts the recovery from the first, which `entry` covers.
* Generations 3: the entry's OCO, a promotion or a recovery or an operator's
  exit, and one more after it. `latest = MaxGen` is an exemption of
  `BarePositionRecovers` for that reason.
* Quantities up to 3 with 2 protected and 2 executable: a partial fill leaves an
  executable remainder, dust, or nothing, and the canonical amount differs from
  the protected basis.
* `HistoryGaps`: `ORDER_HISTORY_UNAVAILABLE` overwrites the last status, after
  which a generation without ids may be unreadable for good; it is part of the
  safety run and excluded from the progress run.
* Journal: 2 writers contend for one lock; 3 events with batches of 2 make a
  projection that takes two batches; one legacy file has a malformed line between
  two events, the other a line that cannot be encoded; 2 faults interrupt the recovery
  from an interruption.
* Stream: 15 s, 10 s and 35 s are 3, 2 and 7 ticks; 3 faults allow a silence, a
  failed write and a stop in one behaviour.
* Readiness: evidence lasts 3 ticks, the throttle 2, a scan at most 1, so that
  evidence can expire within a throttled refresh; 2 pairs make a result
  half-written; 2 lapses.
* Screener: a daily quota of 2 with 1 reserved, 2 per base, 1 per actor. The quota of
  the actor and the reserve bind and can be broken in the run; those of the day and of
  the base cannot, since a behaviour has 2 attempts: for them there is the theorem
  `QuotaBounded`. 2 days cross midnight; 2 attempts are a screening and its retry or
  its successor; 1 failed write, expired decision or crash, at every place; requests
  may expire at any time, without a bound.

### Fairness

* Admission: weak fairness of `Continue(c)`. A thread inside a call is scheduled;
  signals, passes, crashes and registry edits are not promised.
* Entry: weak fairness of the owner thread (the loop of the worker) and of the
  exchange (a FOK order is decided), strong fairness of each successful recovery
  step: a read or commit may fail any number of times, not for ever.
* Protection: weak fairness of the owner thread, and eventually no step fails that
  could have succeeded (`<>[][~Fault]_vars`). The market owes nothing: it need
  never trade, and prices never need to allow a promotion.

* Journal: events keep coming, and a call that runs goes on (`JournalStep(w)`).
* Stream: weak fairness of each step of the thread, of `Start` and of the clock;
  strong fairness of `Subscribe`: an exchange that answers does not answer just
  after the timeout for ever. Nothing obliges the operator.
* Readiness: weak fairness of the owner loop and of the clock.
* Screener: weak fairness of the loop, with the supervisor that restarts it.

What the liveness properties exempt is named in them. `Unreached`: an entry whose
claimed POST never reached the exchange blocks for ever, by design, until an
operator looks. `Unreadable`: submissions the code can neither find nor prove
absent. `InterruptedDust`: see the findings. A crash, a journal entry that raises or
an abort that raises leaves a `RESERVED` row that no code releases:
`ReservationResolved` exempts these (`stranded`), and `StrandedIsInert` says what
becomes of them: they keep their slot, no coordinator holds them and none ever claims
or submits them. `EventReachesFile` exempts a file that was removed and not yet
rebuilt, `RunningEnds` rows whose failure could not be recorded (`stranded`),
`SuppressedAnswered` requests whose envelope expired before the retry of their answer
(`dropped`).

## 4. What is proved

The eight proof modules are checked to the last leaf, for all values of the constants.
Every safety property of a passing run, invariant or action property, is a theorem,
and so are both refinements.

Assumptions: `AdmissionAssumption` (a finite set of intents, a `NoIntent` outside
it, at least one registry version, well-typed `PairOf`, `HalalPairs` and `Nominal`,
natural bounds), `EntryAssumption`, `JournalAssumption` (batches of at least one
event, legacy files of lines that parse, do not or cannot be encoded), `StreamAssumption`, whose one
condition of substance is that the two waits of a session together are shorter than
the freshness (15 s + 10 s < 35 s), and `ReadinessAssumption` (natural periods; no
relation between them is needed), `ProtectionAssumption` (the protected quantity is
at most what was bought and at least executable) and `ScreenerAssumption` (finite
sets of bases and requests, quotas of at least one within the daily one, ids of
decisions apart from ids of requests, as `decision-<hex>` is from `signal-`, `bulk-`
and `idle-`). TLC evaluates each on the runs of its module.

**Sums.** `NominalWithinAllocation`, `QuotaHolds`, `NoOversell` and the ledger are
about totals, which the code and the models compute with a fold
(`SumFunctionOnSet`). `SumLemmas` proves what the fold computes: it exists and is
unique on every finite set (`FoldExists`, `FoldAgrees`), it unfolds at any element
(`SumRemove`), and it is monotone, additive and local in its terms (`SumMonotone`,
`SumAdd`, `SumUpdate`, `SumSubset`). The library's induction theorems take a predicate
as a parameter, which the provers cannot instantiate; `SubsetInduction` takes the SET
of the subsets for which the claim holds, and rests on a smallest counterexample
(`LeastNatural`, `SmallestSet`).

**Admission.** `ReservationHasOneOwner` is not inductive: that a second coordinator
cannot reserve the same signal needs to know that a row beyond its reservation is
no longer reservable, that the write of `abort_prepared` is harmless needs to know
that `prepared` names the caller's own reservation, and that a claim is halal
needs to know that every row carries the decision of the version it records. The
inductive invariant is therefore

    IInv == TypeOK /\ ReservationHasOneOwner /\ OneEntrySubmission
            /\ PostingHasEvidence /\ HeldIsPrepared /\ EvidenceIsOwned
            /\ DecisionsFollowRegistry /\ AdmittedAreHalal

and `IInvStep` has a case per action and, under it, a step per conjunct the action
can disturb. `ReservationsExclusive`, `SubmissionsUnique` and `SubmissionsHalal`
follow from it. The action properties `LifecycleProtected` and `RejectionsFinal`
follow from `RowMoves`, a description of every move a row can make.
`StrandedHarmless` rests on two lemmas: a reservation that is left behind is inert at
that moment, because its holder was the only one (`StrandingIsInert`), and no step
ends that (`InertStays`). `SlotsBounded`
combines `ExposureShrinks` (no action but a reservation adds to the exposed set)
with `ReservationFits` (a reservation finds room). `AllocationBounded` is the same
argument for the sum of the nominals: a step other than a reservation sums over fewer
intents, and a reservation adds its nominal to a sum that was compared with the
allocation in the same transaction.

**Entry.** The invariant is `TypeOK`, `RowSound` (label, generation, Trade, binding
and order of one intent agree), `IncidentsSound`, `ThreadSound` (what each program
point knows about `cur`, `todo` and `results`) and `OneUnsettled` (one process has
at most one entry neither owned nor given up). One lemma per action. From it:
`NoFillSound`, `TradesUnique`, `BindingsCommitted`, `UnownedBlocks`,
`IncidentsRecoverable`; and `EntryRefinesContract`, that `OwnerEntry` implements
`EntryContract` under the mapping `OutcomeOf`, `FateOf`: label-only steps
stutter, the claim submits, the POST sends, the exchange resolves, a binding owns,
a closure gives up.

**Journal.** `JournalInv` is `JournalTypeOK`, `Exclusive` (which steps hold the lock,
and what each has established), `Aligned` (rows are distinct, offset and sequence
number agree, a long enough file starts with the rows), `Projecting` (what the lock
holder read is the continuation of the cursor, and after its write the file is
exactly that far), `Importing` (the lines imported so far are in the transaction),
and `NoDebrisAfterCatchUp` and `LegacyEventsSurvive` themselves. `ProjectionFaithful`
alone is not inductive: the commit moves the cursor without looking at the file.
`JournalProjectionFaithful`, `JournalNoDebris` and `JournalLegacyEventsSurvive` follow.

**Stream.** `StreamInv` adds to the types `SilenceIsYounger` (the last sign of life
came before the silence) and `SessionAge` (in a session the record is as old as the
wait it is in and the wait before, at most). The first gives
`StreamFreshMeansAlive`, the second with the assumption `StreamSessionFresh`.

**Readiness.** `ReadinessInv` adds `ScanInProgress` (health is withdrawn while a scan
runs), `ResultsAgree` (a written result agrees with the classification, one not yet
written cannot take a lasting alarm away) and `UnseenIsRecent` (what the
classification missed became executable after it). `ReadinessSeesInventory` follows
from the last by adding the two ages; `ReadinessAlarmHolds` and
`ReadinessVerdictDurable` are conjuncts.

**Protection.** `OneObligation` and `NoOversell` are far from inductive: a POST is
sent several steps, and possibly a crash, after the decision that it is safe. The
invariant says what each place of the pass knows.

* `BookOK`, `RowsOK`, `TradeOK`: the exchange and the Trade by themselves. An
  obligation is created only after the earlier ones ended; a closed row holds all of
  an order that ended; the Trade is closed exactly when it is sold and no row is open.
* `GensOK`: the table against the exchange. Saved ids name an obligation, a phase
  that the code skips as never posted has none, later generations do not exist.
* `PassOK`, `SnapOK`, `ScanOK`: what the pass read, against what has happened since.
  What was read as ended is still so, what was read as resting was the last and was
  not cancelled by us, and a generation is passed over only settled or read.
* `PostOK`, `PromotionOK`: a POST that is due was never sent, nothing rests, and its
  quantity is unsold. This is what a decision establishes and a crash forgets.
* `DustOK`: every generation is settled from the first write of a retention on.
* `GuardOK`: the labels and incidents that keep the release closed, for
  `StrippedPositionBlocks`.

`Effects` reduces every step to one of five effects on exchange and Trade (`Quiet`,
`Match`, `Sends`, `Cancels`, `Imports`), and most parts are preserved by a case for
each. From the invariant: `SingleObligation`, `NeverOversold`, `NeverRepeated`,
`RowsAreExecutions`, `ClosedSettled`, `DustFinal`, `StrippedBlocks`, and
`SettlementFinal`, an action property that no run repeats: nothing is posted,
cancelled or booked for a position after it was closed or retained.
`PositionRefines` shows that the component implements `PositionContract`: `Sends` is
`Cover` or a stutter, `Match` is `Sell`, `Uncover` or a stutter (a trigger), `Cancels`
is `Uncover`, `Imports` is `Book`, and of the quiet steps the last write of a
retention is `Retain`.

**Screener.** The invariant adds to the types and to `QuotaHolds`: `InboxOK` (a
decision waits only after its card was shown), `JobOK` (what is being written is a
denial, a screening or a decision on a card, and only a decision is green), `ClaimOK`
(work that is not urgent was chosen while the reserve was untouched, which the claim
does not look at again; midnight only helps), `RecordOK` (a green record is an
approval of a card of its base) and `MarkOK` (a screening about to be marked done
has replaced the record of its base). `RowMoves` and `Frames` say who writes
what. `QuotaBounded` needs that an attempt is added in the transaction that compares
the counts; `ApprovalExact` that a shown card never changes (`CardsKept`), so that
the version bound at the decision is the one of the card; `ScansClose` is an action
property from `RowMoves` and `MarkOK`.

**Only model-checked.** The liveness properties (`ReservationResolved`,
`EntrySettles`, `BlockersLift`, `ExitsReachTrade`, `BarePositionRecovers`,
`ClosedIsAcknowledged`, `EventReachesFileLive`, `StreamRecoversLive`,
`ApprovalReturnsLive`, `SuppressedAnswered`, `RunningEnds`): fairness and `ENABLED`
are outside the prover. The four violations are TLC's too.

## 5. Findings

1. `admission_blocker_race`: `has_blockers` says (`state_store.py:584`) "New exposure
   is forbidden while any unresolved incident/unknown intent exists."
   `claim_entry_submission` does not ask it, so two coordinators that both passed the
   release check claim in turn. The deployed owner is one process with one
   coordinator, which cannot meet this: the check and the claim have no other
   coordinator's claim between them.
2. `protection_lost_replacement`: the comment at `verified_recovery.py:104-107` says
   that a replacement OCO that Binance never created is proved absent before a new
   recovery action. The proof runs for two statuses; a promotion whose POST failed
   and whose query found nothing writes a third, `SUBMISSION_UNKNOWN`, and its
   position stays without an order.
3. `protection_dust_crash`: `DUST_PENDING` is written over an executed
   `OPERATOR_EXIT` before the retention commits. After a crash in between, the pass
   skips that generation with its sells, the ownership identity fails and the dust is
   never retained.
4. `screener_stale_card`: `docs/SHARIA_LOCAL_SCREENING.md:205-207` says that stale or
   changed evidence blocks new entries until a new exact proposal is approved.
   `approval.py:54` checks that the report a card names is still there with the
   same hash, not that it is the newest: a card shown before a newer screening
   of the base ended with another verdict still opens the gate.

Met while modelling and without a run, because no text of the repository promises
otherwise or because the consequence is fail-closed:

* Retained dust is committed (`freqtradebot.py:428`) before the remaining incidents
  of the position are acknowledged; after a crash in between the Trade is in neither
  loop and the incidents stay open.
* An owner decision whose result was written and whose gate record was not is
  archived as a duplicate by its retry (`sharia_screener/service.py:152-156`; the
  comment at 177-179 speaks of retrying).
* When `mark_failed` itself raises in both handlers (`service.py:388-394`, 418, 433)
  the row stays RUNNING until the service restarts.
* A failed write of the gate record leaves an earlier GREEN in force while the row
  becomes FAILED (`bridge.py:173-177`), which is why `FinishedScanCloses` is about
  rows that end DONE.
* The bases that a scan of all finds already active get no result of their own;
  `SuppressedAnswered` is about requests that someone sent.
* A failed health write inside the supervisor ends the stream thread
  (`user_stream.py:109-113`), and a running bot never starts it again: it refuses
  new entries until it is stopped. `StreamRecovers` exempts a dead thread,
  `StoppedRegainsStream` covers the stopped bot.
* A journal entry that raises after the reservation (`execution_manager.py:315`)
  passes `freqtradebot.py:1052-1055`, which catches `AdmissionRejected` only, outside
  the `try` that aborts; a failing `abort_prepared` is only logged (1094-1099). The
  slot stays reserved, and replays of the signal are refused.
* A JSON object of an earlier release whose `ts` or `amount` is no number raises out of
  the import (`durable_journal.py:64`) at every append: no event is journalled, and each
  accepted signal strands its reservation, until someone repairs the file.
* A request whose answer is retried after its envelope has expired is unlinked without
  an answer (`sharia_screener/service.py:199-208`).
* A removed JSONL file is rebuilt with the next event, not before, and a torn copy
  of a legacy file is not rewritten (`durable_journal.py:55-57`): the first projection
  then overwrites the only whole copy. Its events are in the table; the text of its
  malformed lines is gone.

## 6. Not modelled, and why

* Market gates, market context and the strategy (among them the vendored
  NostalgiaForInfinity, by far the longest file of the repository) are numeric
  verdicts over floating-point frames: they appear as nondeterministic branches.
* The upstream code of Freqtrade is modelled where the owner changed or uses it.
  The deployed copies repeat older versions of the same sources.
* The legacy core and the execution sidecar that drives it are superseded by the
  owner. The sidecar's claims cannot be separated from the core: which switch
  stops a submission (`entries_enabled`, `autotrade_on`, `protection_halt`, the armed
  flag of the broker) and how often one signal is POSTed (bracket, plain limit buy,
  repricing in a thread of its own) is decided there, so a faithful model needs
  `EntryEngine`, `Portfolio` and `Broker` of the core as well.
* Source discovery, the local runner, the rules, the retriever and the egress proxy of
  the screening judge documents: a nondeterministic verdict of `Screen`.
* The Telegram broker is modelled as far as it feeds the screener (requests, cards,
  decisions); its menus, panels and update offset are not.
* Canonical fees, plan geometry and the exchange filters are exact arithmetic
  without state; quantities are small integers in `OwnerProtection`.
* Schema migrations, file parsing, network transport, pruning of old files, host
  scripts and monitoring have no protocol of their own.
* Two owner processes at once are modelled for admission and for the journal only:
  the deployment excludes them, and `OwnerEntry` and `OwnerProtection` have one. A
  reopened intent (retained dust that an operator exits) is outside the slot bound,
  as in the code.

The modelled sources are therefore a small share of the repository's lines; they
are the ones that decide whether an order is sent, owned, protected and permitted.

## 7. Plan

1. Admission: done, proved.
2. Entry and its contract: done, proved, refinement included.
3. Protection and its contract: done, proved, refinement included.
4. Journal, private stream, readiness: done, proved.
5. Screener: done, proved.
6. Pure operators with reference definitions and lemmas: `RecoveryContract`
   (floor to step, residual, executability), `ProtectionPlan`, `CanonicalFees`
   (merge is idempotent, order-independent, refuses a changed replay).
7. The snapshot store, provider budgets and breakers of the universe service, the
   Telegram offset; the legacy sidecar's claims last.
