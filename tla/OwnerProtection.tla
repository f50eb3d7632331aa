---------------------------- MODULE OwnerProtection ----------------------------
(***************************************************************************)
(* The life of one owned position, from the OCO that its entry left on the *)
(* exchange to its settlement: the verified recovery pass of every owner   *)
(* loop (verified_recovery.py), the promotion of the fixed OCO to a        *)
(* trailing one (maybe_promote), the operator's exit (operator_exit.py),   *)
(* the import of exchange fills into the Trade, the retention of dust, and *)
(* the acknowledgment of a closed Trade (closed_recovery.py).              *)
(*                                                                         *)
(* One process holds _exit_lock for the whole pass and may crash between   *)
(* any two steps.  The exchange trades concurrently; every read may fail,  *)
(* every POST and DELETE may take effect and lose its answer.  A POST whose*)
(* answer is lost is decided before the next pass reads it (Binance drops  *)
(* a request older than its recvWindow).                                   *)
(*                                                                         *)
(* Abstractions.  Quantities are small integers; Amount is what the entry  *)
(* bought, net of base commission.  The two children of an OCO are one     *)
(* obligation, read in one step: "live" (both rest), "working" (one was    *)
(* triggered or partly filled, its sibling is gone).  A label and its      *)
(* incident, or a clear and its label, are one step: each is rewritten by  *)
(* the next pass.  Prices are nondeterministic, the smallest executable    *)
(* quantity is a constant.  The eight RESOLVED_PREFIXES, which are cleared *)
(* together, are one incident, "recovery".                                 *)
(***************************************************************************)
EXTENDS Integers, FiniteSets, Functions

CONSTANTS Amount,      \* quantity the entry bought
          Protected,   \* quantity of the initial OCO (original basis)
          MinExec,     \* smallest quantity the symbol's filters accept
          MaxGen,      \* bound on protection generations
          MaxCrashes,  \* bound on crashes
          HistoryGaps  \* TestNet may answer -2013 for an order that exists

ASSUME ProtectionAssumption ==
    /\ Amount \in Nat /\ Protected \in 1..Amount /\ MinExec \in 1..Protected
    /\ MaxGen \in Nat \ {0} /\ MaxCrashes \in Nat /\ HistoryGaps \in BOOLEAN

VARIABLES gens,      \* StateStore.protection: the generations of the intent
          latest,    \* number of the last one
          state,     \* StateStore.intents: the label
          incidents, \* StateStore: its OPEN incidents
          imported,  \* Freqtrade: the sell orders of the Trade
          isOpen,    \* Freqtrade: the Trade is open
          dust,      \* Freqtrade: phase of binana_retained_dust
          book,      \* the exchange: one obligation per generation
          posts,     \* how often the POST of each generation was attempted
          ready,     \* canonical_reconciliation_ready
          pc, k,     \* where the pass is, and its generation
          snap,      \* what it read of each generation
          pending,   \* first generation with an execution to import, or 0
          failed,    \* this pass has failed
          crashes

store == <<gens, latest, state, incidents>>
trade == <<imported, isOpen, dust>>
exchange == <<book, posts>>
thread == <<ready, pc, k, snap, pending, failed>>
vars == <<gens, latest, state, incidents, imported, isOpen, dust, book, posts,
          ready, pc, k, snap, pending, failed, crashes>>

Gens == 1..MaxGen
ListModes == {"FIXED_OCO", "TRAILING_OCO"}
SingleModes == {"TARGET_EXIT", "STOP_EXIT", "OPERATOR_EXIT"}

ActiveStatus == {"TRAILING_ACTIVE", "FIXED_ACTIVE", "NATIVE_EXIT_WORKING"}

\* Mutant: a prepared submission counts as not yet submitted.
OPERATOR_PRE_SUBMISSION_Pending ==
    {"EXIT_REQUESTED", "EXIT_CANCEL_PENDING", "EXIT_CANCEL_UNKNOWN", "SUBMISSION_PENDING"}

OPERATOR_PRE_SUBMISSION == {"EXIT_REQUESTED", "EXIT_CANCEL_PENDING", "EXIT_CANCEL_UNKNOWN"}

\* Phases without exchange ids that are written before any POST.  ABORTED_OLD_FILL
\* is named by the code and written nowhere.
NoPostPhases == {"PROMOTION_INTENT", "CANCEL_UNKNOWN", "ABORTED_OLD_FILL",
                 "FILL_RECONCILIATION_UNKNOWN", "RESIDUAL_PLAN_INVALID",
                 "NOT_NEEDED_POSITION_EXITED"}

GenStatus == ActiveStatus \cup OPERATOR_PRE_SUBMISSION \cup NoPostPhases \cup
    {"NONE", "ENTRY_PENDING", "SUBMISSION_PENDING", "REPLACEMENT_PENDING", "SUBMISSION_UNKNOWN",
     "SUBMISSION_ABSENT", "SUBMITTED_UNVERIFIED", "VERIFICATION_UNKNOWN",
     "ORDER_HISTORY_UNAVAILABLE", "REPLACING", "REPLACED", "PARTIAL_EXIT", "TERMINAL",
     "OPERATOR_REMAINDER_DUST", "DUST_PENDING", "DUST_RETAINED"}

\* A row of the protection table; known: the exchange ids are saved.
Gen(m, s, kn, q) == [mode |-> m, status |-> s, known |-> kn, qty |-> q]
NoGen == Gen("NONE", "NONE", FALSE, 0)

\* An obligation of the exchange; "cancelled" is a DELETE of ours, "done" any other end.
Obligation(st, left, sold) == [st |-> st, left |-> left, sold |-> sold]
Resting == {"live", "working"}
Ended == {"done", "cancelled"}

\* A sell order of the Trade; open: ft_is_open.
SellRow(q, o) == [qty |-> q, open |-> o]

Incidents == {"recovery", "operator-exit", "canonical-trade", "canonical-fees", "closed-ack"}

Pcs == {"idle", "start", "closed", "scan", "decide", "promote", "cancel", "verify_old",
        "promote_post", "promote_query", "promote_bind", "operator_cancel", "post", "lost",
        "bind", "verify_new", "import", "imported", "ack", "dust_prepare", "dust_ack", "dust_retain",
        "end"}

Generations == [mode : ListModes \cup SingleModes \cup {"NONE"}, status : GenStatus,
                known : BOOLEAN, qty : 0..Amount]
Obligations == [st : {"none"} \cup Resting \cup Ended, left : 0..Amount, sold : 0..Amount]
Labels == {"ENTRY_PENDING", "OPEN", "UNKNOWN", "EXIT_PENDING", "EXIT_FILLED", "DUST_RETAINED"}

\* Type invariant of the position's state.
TypeOK ==
    /\ gens \in [Gens -> Generations]
    /\ latest \in Gens
    /\ state \in Labels
    /\ incidents \subseteq Incidents
    /\ imported \in [Gens -> [qty : 0..Amount, open : BOOLEAN]]
    /\ isOpen \in BOOLEAN
    /\ dust \in {"none", "prepared", "retained"}
    /\ book \in [Gens -> Obligations]
    /\ posts \in [Gens -> Nat]
    /\ ready \in BOOLEAN /\ failed \in BOOLEAN
    /\ pc \in Pcs /\ k \in 1..(MaxGen + 1)
    /\ snap \in [Gens -> Obligations]
    /\ pending \in 0..MaxGen
    /\ crashes \in 0..MaxCrashes

Unread == [g \in Gens |-> Obligation("none", 0, 0)]

\* A bound Trade whose entry filled and whose initial OCO rests on the exchange.
Init ==
    /\ gens = [g \in Gens |-> IF g = 1 THEN Gen("FIXED_OCO", "ENTRY_PENDING", TRUE, Protected)
                              ELSE NoGen]
    /\ latest = 1 /\ state = "ENTRY_PENDING" /\ incidents = {}
    /\ imported = [g \in Gens |-> SellRow(0, FALSE)] /\ isOpen = TRUE /\ dust = "none"
    /\ book = [g \in Gens |-> IF g = 1 THEN Obligation("live", Protected, 0)
                              ELSE Obligation("none", 0, 0)]
    /\ posts = [g \in Gens |-> IF g = 1 THEN 1 ELSE 0]
    /\ ready = FALSE /\ pc = "idle" /\ k = 1 /\ snap = Unread /\ pending = 0 /\ failed = FALSE
    /\ crashes = 0

-----------------------------------------------------------------------------
(* What the code computes from its state. *)

\* The quantities of the generations, and their total.
ImportedQty == [g \in Gens |-> imported[g].qty]
SoldQty == [g \in Gens |-> book[g].sold]
SeenSold == [g \in Gens |-> snap[g].sold]
LeftQty == [g \in Gens |-> IF book[g].st \in Resting THEN book[g].left ELSE 0]

Total(qty) == SumFunctionOnSet(qty, Gens)

\* trade.amount: the exact projection of the imported receipts.
canonical == Amount - Total(ImportedQty)

\* fetch_open_orders(pair).
OpenOrders == {g \in Gens : book[g].st \in Resting}

\* The generations whose children the pass read as open.
active_histories == {g \in Gens : snap[g].st \in Resting}

sell_total == Total(SeenSold)

Least(a, b) == IF a <= b THEN a ELSE b
Most(a, b) == IF a >= b THEN a ELSE b

residual_quantity == Least(Most(0, Protected - sell_total), canonical)

\* recovery_protection_quantity(), for an executable remainder.
RecoveryQuantity == IF residual_quantity >= MinExec THEN residual_quantity ELSE canonical

OperatorRequest == /\ gens[latest].mode = "OPERATOR_EXIT"
                   /\ gens[latest].status \in OPERATOR_PRE_SUBMISSION

SetStatus(g, s) == gens' = [gens EXCEPT ![g] = Gen(gens[g].mode, s, gens[g].known, gens[g].qty)]

\* put_generation() with the exchange ids.
SaveIds(g, s) == gens' = [gens EXCEPT ![g] = Gen(gens[g].mode, s, TRUE, gens[g].qty)]

\* _recovery_block(), and the label and incident that maybe_promote writes.
Block == state' = "UNKNOWN" /\ incidents' = incidents \cup {"recovery"}

\* A verified generation: the label, and _recovery_clear().
VerifiedOpen == state' = "OPEN" /\ incidents' = incidents \ {"recovery"}

Goto(p) == pc' = p /\ UNCHANGED <<ready, k, snap, pending, failed>>

\* The decision is taken: what the pass read is not used again.
Leave(p) == pc' = p /\ k' = 1 /\ snap' = Unread /\ pending' = 0 /\ UNCHANGED <<ready, failed>>
EndPass == Leave("end")
Fail == /\ pc' = "end" /\ k' = 1 /\ snap' = Unread /\ pending' = 0 /\ failed' = TRUE
        /\ UNCHANGED ready

-----------------------------------------------------------------------------
(* The loop outside the reconciliation of the Trade. *)

\* get_open_trades(): a Trade whose dust is retained is no longer listed.
Listed == isOpen /\ dust # "retained"

\* Mutant: the cumulative fill is added to what was imported before.
ImportCommits_AddsAgain(g, order) ==
    /\ book[g].sold = order.sold
    /\ imported' = [imported EXCEPT ![g] = SellRow(@.qty + order.sold, order.st \in Resting)]
    /\ canonical' = 0 => OpenOrders = {}
    /\ isOpen' = ~(canonical' = 0 /\ \A h \in Gens : ~imported'[h].open)
    /\ UNCHANGED dust

\* Mutant: an imported order is closed although it still works.
ImportCommits_ClosesRow(g, order) ==
    /\ book[g].sold = order.sold
    /\ imported' = [imported EXCEPT ![g] = SellRow(order.sold, FALSE)]
    /\ canonical' = 0 => OpenOrders = {}
    /\ isOpen' = ~(canonical' = 0)
    /\ UNCHANGED dust

\* The import of g's executions as read: update_trade_state() of an owned Trade.
\* The executions are read afresh and must match the order (receipt), and a
\* Trade that would close may leave no open order (verify_canonical_settlement).
ImportCommits(g, order) ==
    /\ book[g].sold = order.sold
    /\ imported' = [imported EXCEPT ![g] = SellRow(order.sold, order.st \in Resting)]
    /\ canonical' = 0 => OpenOrders = {}
    /\ isOpen' = ~(canonical' = 0 /\ \A h \in Gens : ~imported'[h].open)
    /\ UNCHANGED dust

\* manage_open_orders(): sell rows that are still open are updated first.  A
\* failed update leaves an incident; the pass starts either way.
ManageOpenOrders ==
    /\ pc = "idle"
    /\ \/ /\ \A g \in Gens : ~(Listed /\ imported[g].open)
          /\ UNCHANGED <<incidents, trade>>
       \/ \E g \in Gens :
             /\ Listed /\ imported[g].open
             /\ \/ ImportCommits(g, book[g]) /\ incidents' = incidents \ {"canonical-fees"}
                \/ /\ \E fees \in SUBSET {"canonical-fees"} :
                          incidents' = incidents \cup {"canonical-trade"} \cup fees
                   /\ UNCHANGED trade
                \/ UNCHANGED <<incidents, trade>>   \* fetch_order failed
    /\ Goto("start")
    /\ UNCHANGED <<gens, latest, state, exchange, crashes>>

\* Mutant: the label alone decides.
NeedsAcknowledgment_LabelOnly == ~isOpen /\ state \notin {"EXIT_FILLED", "DUST_RETAINED"}

\* acknowledgment_ids(): every incident of the position.
NeedsAcknowledgment ==
    ~isOpen /\ (state \notin {"EXIT_FILLED", "DUST_RETAINED"} \/ incidents # {})

StartPass ==
    /\ pc = "start"
    /\ ready' = FALSE /\ UNCHANGED <<k, snap, pending, failed>>
    /\ pc' = IF NeedsAcknowledgment THEN "closed" ELSE IF Listed THEN "scan" ELSE "end"
    /\ UNCHANGED <<store, trade, exchange, crashes>>

\* A generation without ids that _acknowledge_closed_candidate accepts.
NeverSubmitted(g) ==
    \/ gens[g].status \in NoPostPhases
    \/ gens[g].status = "SUBMISSION_ABSENT" /\ book[g].st = "none"
    \/ gens[g].mode = "OPERATOR_EXIT" /\ gens[g].status \in OPERATOR_PRE_SUBMISSION

\* finalize_closed_acknowledgment(): one transaction, after every child was read
\* terminal, every receipt compared and the symbol found without open orders.
AcknowledgeClosed ==
    /\ pc = "closed"
    /\ \A g \in 1..latest :
          IF gens[g].known THEN book[g].st \in Ended /\ imported[g] = SellRow(book[g].sold, FALSE)
          ELSE NeverSubmitted(g)
    /\ OpenOrders = {}
    /\ state' = "EXIT_FILLED" /\ incidents' = {}
    /\ gens' = [g \in Gens |->
                  IF gens[g].known THEN Gen(gens[g].mode, "TERMINAL", TRUE, gens[g].qty)
                  ELSE IF gens[g].mode = "OPERATOR_EXIT"
                  THEN Gen("OPERATOR_EXIT", "NOT_NEEDED_POSITION_EXITED", FALSE, gens[g].qty)
                  ELSE gens[g]]
    /\ EndPass
    /\ UNCHANGED <<latest, trade, exchange, crashes>>

AcknowledgmentBlocked ==
    /\ pc = "closed"
    /\ incidents' = incidents \cup {"closed-ack"}
    /\ Fail
    /\ UNCHANGED <<gens, latest, state, trade, exchange, crashes>>

\* The end of the pass: entries may be admitted until the next one starts.
FinishPass ==
    /\ pc = "end"
    /\ ready' = ~failed /\ failed' = FALSE
    /\ pc' = "idle" /\ UNCHANGED <<k, snap, pending>>
    /\ UNCHANGED <<store, trade, exchange, crashes>>

\* request_operator_exit(), from the RPC thread, under _exit_lock: idempotent
\* while an operator exit is the last generation and has not ended.
RequestOperatorExit ==
    /\ pc \in {"idle", "start"} /\ Listed /\ canonical > 0
    /\ ~(gens[latest].mode = "OPERATOR_EXIT" /\ gens[latest].status \notin {"TERMINAL", "DUST_RETAINED"})
    /\ latest < MaxGen
    /\ latest' = latest + 1
    /\ gens' = [gens EXCEPT ![latest + 1] = Gen("OPERATOR_EXIT", "EXIT_REQUESTED", FALSE, 0)]
    /\ state' = "EXIT_PENDING" /\ incidents' = incidents \cup {"operator-exit"}
    /\ UNCHANGED <<trade, exchange, thread, crashes>>

-----------------------------------------------------------------------------
(* _reconcile_verified: the history of every generation. *)

\* Mutant: a generation that was read terminal is not read again.
Skipped_Terminal(g) ==
    \/ gens[g].status = "TERMINAL"
    \/ /\ gens[g].mode = "OPERATOR_EXIT"
       /\ gens[g].status \in OPERATOR_PRE_SUBMISSION
                               \cup {"OPERATOR_REMAINDER_DUST", "DUST_PENDING", "DUST_RETAINED"}
    \/ /\ ~gens[g].known
       /\ \/ gens[g].status \in NoPostPhases
          \/ gens[g].status = "SUBMISSION_ABSENT" /\ book[g].st = "none"

\* Generations the loop passes over without reading the exchange, or after
\* verifying again that the submission is absent.
Skipped(g) ==
    \/ /\ gens[g].mode = "OPERATOR_EXIT"
       /\ gens[g].status \in OPERATOR_PRE_SUBMISSION
                               \cup {"OPERATOR_REMAINDER_DUST", "DUST_PENDING", "DUST_RETAINED"}
    \/ /\ ~gens[g].known
       /\ \/ gens[g].status \in NoPostPhases
          \/ gens[g].status = "SUBMISSION_ABSENT" /\ book[g].st = "none"

\* Mutant: the absence of a promotion's replacement is not proved.
AbsenceProven_NotReplacement(g) ==
    /\ ~gens[g].known /\ g > 1 /\ gens[g].mode \in ListModes
    /\ gens[g].status = "SUBMISSION_PENDING"
    /\ book[g].st = "none" /\ OpenOrders = {}

\* The absence proof: a pending replacement list that Binance does not know, its
\* children neither, and a symbol without open orders.
AbsenceProven(g) ==
    /\ ~gens[g].known /\ g > 1 /\ gens[g].mode \in ListModes
    /\ gens[g].status \in {"SUBMISSION_PENDING", "REPLACEMENT_PENDING"}
    /\ book[g].st = "none" /\ OpenOrders = {}

Advance(g) == k' = g + 1 /\ pc' = IF g = latest THEN "decide" ELSE "scan"

SkipGeneration ==
    /\ pc = "scan" /\ Skipped(k)
    /\ Advance(k)
    /\ UNCHANGED <<ready, snap, pending, failed>>
    /\ UNCHANGED <<store, trade, exchange, crashes>>

ProveAbsent ==
    /\ pc = "scan" /\ AbsenceProven(k)
    /\ SetStatus(k, "SUBMISSION_ABSENT")
    /\ Advance(k)
    /\ UNCHANGED <<ready, snap, pending, failed>>
    /\ UNCHANGED <<latest, state, incidents, trade, exchange, crashes>>

\* A submission without ids is read by its client ids and found.
RecoverIds ==
    /\ pc = "scan" /\ ~Skipped(k) /\ ~gens[k].known
    /\ gens[k].status # "SUBMISSION_ABSENT"
    /\ book[k].st # "none"
    /\ SaveIds(k, "SUBMITTED_UNVERIFIED")
    /\ UNCHANGED <<latest, state, incidents, trade, exchange, thread, crashes>>

\* _freqtrade_exit_already_applied().
Applied(g) == ~imported[g].open /\ imported[g].qty >= book[g].sold

\* The children are read; executions that the Trade does not have are noted, and
\* a generation whose children are all terminal is labelled.
ReadGeneration ==
    /\ pc = "scan" /\ ~Skipped(k) /\ gens[k].known
    /\ snap' = [snap EXCEPT ![k] = book[k]]
    /\ pending' = IF pending = 0 /\ book[k].sold > 0 /\ ~Applied(k) THEN k ELSE pending
    /\ IF book[k].st \in Ended THEN SetStatus(k, "TERMINAL") ELSE UNCHANGED gens
    /\ Advance(k)
    /\ UNCHANGED <<ready, failed>>
    /\ UNCHANGED <<latest, state, incidents, trade, exchange, crashes>>

\* Anything raised in the pass: reconcile_trade() withdraws an ACTIVE label of the
\* last generation, or overwrites its status when the history is unavailable.
ReconcileRaises ==
    /\ pc \in {"scan", "decide", "lost", "bind", "verify_new"}
    /\ \/ HistoryGaps /\ pc \in {"scan", "verify_new"} /\ SetStatus(latest, "ORDER_HISTORY_UNAVAILABLE")
       \/ IF gens[latest].status \in ActiveStatus THEN SetStatus(latest, "VERIFICATION_UNKNOWN")
          ELSE UNCHANGED gens
    /\ Block
    /\ EndPass
    /\ UNCHANGED <<latest, trade, exchange, crashes>>

-----------------------------------------------------------------------------
(* The decision. *)

\* What has passed when the code looks at the obligations: nothing to import, the
\* ownership identity, and no open order outside the history.
Verified ==
    /\ pc = "decide" /\ pending = 0
    /\ sell_total = Amount - canonical
    /\ \A g \in OpenOrders : gens[g].known

ImportFirst ==
    /\ pc = "decide" /\ pending # 0
    /\ Block
    /\ Goto("import")
    /\ UNCHANGED <<gens, latest, trade, exchange, crashes>>

\* The only generation seen open protects exactly the expected quantity.
MarkProtected(g) ==
    /\ Verified /\ ~OperatorRequest
    /\ active_histories = {g} /\ gens[g].mode \in ListModes
    /\ canonical >= MinExec /\ snap[g].left = RecoveryQuantity
    /\ \/ /\ snap[g].st = "live"
          /\ SetStatus(g, IF gens[g].mode = "TRAILING_OCO" THEN "TRAILING_ACTIVE" ELSE "FIXED_ACTIVE")
       \/ /\ snap[g].st = "working" /\ snap[g].sold = 0 /\ OpenOrders = {g}
          /\ SetStatus(g, "NATIVE_EXIT_WORKING")
    /\ VerifiedOpen
    /\ Leave(IF g = latest /\ snap[g].st = "live" /\ sell_total = 0 THEN "promote" ELSE "ack")
    /\ UNCHANGED <<latest, trade, exchange, crashes>>

\* reconcile_operator_exit(): the executions of every order that the scan saw filled
\* or that has a committed receipt are read again and compared with the receipt, so
\* a fill that raced the scan raises.
OperatorVerified ==
    /\ Verified /\ OperatorRequest
    /\ \A g \in Gens :
           snap[g].st # "none" /\ (snap[g].sold > 0 \/ imported[g].qty > 0)
           => book[g].sold = imported[g].qty
    /\ canonical >= MinExec

OperatorCancel ==
    /\ OperatorVerified /\ active_histories # {}
    /\ SetStatus(latest, "EXIT_CANCEL_PENDING")
    /\ Goto("operator_cancel")
    /\ UNCHANGED <<latest, state, incidents, trade, exchange, crashes>>

\* DELETE: it ends what still rests.
Delete(g) ==
    /\ book' = [book EXCEPT ![g] = IF book[g].st \in Resting
                                   THEN Obligation("cancelled", 0, book[g].sold) ELSE book[g]]
    /\ UNCHANGED posts

\* The cancel answers: the next pass reads what it did.  It is never believed.
OperatorCancelAnswered ==
    /\ pc = "operator_cancel"
    /\ \E g \in active_histories : book[g].st \in Resting /\ Delete(g)
    /\ Leave("ack")
    /\ UNCHANGED <<store, trade, crashes>>

\* Mutant: the market exit follows a cancel whose outcome is unknown.
OperatorCancelUnknown_GoesOn ==
    /\ pc = "operator_cancel"
    /\ \E g \in active_histories : Delete(g) \/ UNCHANGED exchange
    /\ gens' = [gens EXCEPT ![latest] = Gen("OPERATOR_EXIT", "SUBMISSION_PENDING", FALSE, canonical)]
    /\ Leave("post")
    /\ UNCHANGED <<latest, state, incidents, trade, crashes>>

OperatorCancelUnknown ==
    /\ pc = "operator_cancel"
    /\ \E g \in active_histories : Delete(g) \/ UNCHANGED exchange
    /\ SetStatus(latest, "EXIT_CANCEL_UNKNOWN")
    /\ Block
    /\ EndPass
    /\ UNCHANGED <<latest, trade, crashes>>

\* Mutant: the market exit sells the quantity of the entry.
OperatorPrepare_WholeAmount ==
    /\ OperatorVerified /\ active_histories = {} /\ OpenOrders = {}
    /\ gens' = [gens EXCEPT ![latest] = Gen("OPERATOR_EXIT", "SUBMISSION_PENDING", FALSE, Amount)]
    /\ Leave("post")
    /\ UNCHANGED <<latest, state, incidents, trade, exchange, crashes>>

\* prepare_operator_submission(): the transition that authorizes one market POST.
OperatorPrepare ==
    /\ OperatorVerified /\ active_histories = {} /\ OpenOrders = {}
    /\ gens' = [gens EXCEPT ![latest] = Gen("OPERATOR_EXIT", "SUBMISSION_PENDING", FALSE, canonical)]
    /\ Leave("post")
    /\ UNCHANGED <<latest, state, incidents, trade, exchange, crashes>>

\* The requested exit finds only dust; the pass goes on to retain it.
OperatorDust ==
    /\ Verified /\ OperatorRequest /\ OpenOrders = {} /\ canonical < MinExec
    /\ SetStatus(latest, "OPERATOR_REMAINDER_DUST")
    /\ UNCHANGED <<latest, state, incidents, trade, exchange, thread, crashes>>

\* No obligation survives and the remainder is executable: a new generation is
\* recorded before its POST.  The market decides between the three.
NewGeneration(mode) ==
    /\ Verified /\ ~OperatorRequest
    /\ active_histories = {} /\ OpenOrders = {} /\ canonical >= MinExec
    /\ latest < MaxGen
    /\ mode \in {"STOP_EXIT", "TARGET_EXIT"}
         \cup {IF \E g \in Gens : gens[g].mode = "TRAILING_OCO" THEN "TRAILING_OCO" ELSE "FIXED_OCO"}
    /\ latest' = latest + 1
    /\ gens' = [gens EXCEPT ![latest + 1] = Gen(mode, "SUBMISSION_PENDING", FALSE, RecoveryQuantity)]
    /\ Block
    /\ Leave("post")
    /\ UNCHANGED <<trade, exchange, crashes>>

\* The request reaches the exchange.
Create(g) ==
    /\ book' = [book EXCEPT ![g] =
                  Obligation(IF gens[g].mode \in ListModes THEN "live" ELSE "working", gens[g].qty, 0)]
    /\ posts' = [posts EXCEPT ![g] = @ + 1]

\* The request is refused, before the POST (preflight) or by the exchange.
NotCreated(g) == UNCHANGED book /\ posts' = [posts EXCEPT ![g] = @ + 1]

Post ==
    /\ pc = "post"
    /\ \/ Create(latest) /\ Goto("bind")
       \/ (Create(latest) \/ NotCreated(latest)) /\ Goto("lost")
    /\ UNCHANGED <<store, trade, crashes>>

\* put_generation() and bind_order_identity() with the answer; only an OCO is
\* verified in the same pass.
Bind ==
    /\ pc = "bind"
    /\ SaveIds(latest, "SUBMITTED_UNVERIFIED")
    /\ Goto(IF gens[latest].mode \in ListModes THEN "verify_new" ELSE "ack")
    /\ UNCHANGED <<latest, state, incidents, trade, exchange, crashes>>

VerifyNew ==
    /\ pc = "verify_new"
    /\ book[latest].st = "live" /\ book[latest].left = gens[latest].qty
    /\ SetStatus(latest, IF gens[latest].mode = "TRAILING_OCO" THEN "TRAILING_ACTIVE" ELSE "FIXED_ACTIVE")
    /\ VerifiedOpen
    /\ Goto("ack")
    /\ UNCHANGED <<latest, trade, exchange, crashes>>

-----------------------------------------------------------------------------
(* maybe_promote: FIXED_OCO to TRAILING_OCO, after generation 1 was verified. *)

\* The status of generation 1 once the fills of its cancelled children are recorded.
OldChildStatus ==
    IF book[1].sold = 0 THEN gens[1].status
    ELSE IF book[1].sold = gens[1].qty THEN "TERMINAL" ELSE "PARTIAL_EXIT"

SetBoth(old, row) == gens' = [gens EXCEPT ![1] = Gen("FIXED_OCO", old, TRUE, gens[1].qty), ![2] = row]

\* Flow, profit and preflight do not ask for a promotion now.
NoPromotion ==
    /\ pc = "promote"
    /\ Goto("ack")
    /\ UNCHANGED <<store, trade, exchange, crashes>>

PromotionIntent ==
    /\ pc = "promote" /\ latest = 1 /\ MaxGen > 1
    /\ gens[1].mode = "FIXED_OCO" /\ gens[1].status = "FIXED_ACTIVE"
    /\ latest' = 2
    /\ SetBoth("REPLACING", Gen("TRAILING_OCO", "PROMOTION_INTENT", FALSE, gens[1].qty))
    /\ Goto("cancel")
    /\ UNCHANGED <<state, incidents, trade, exchange, crashes>>

\* Mutant: a promotion that stops only records its phase.
PromotionStops_NoBlock(old, s) ==
    /\ SetBoth(old, Gen("TRAILING_OCO", s, FALSE, gens[2].qty))
    /\ EndPass
    /\ UNCHANGED <<latest, state, incidents, trade, crashes>>

\* A promotion that stops: its phase, the label and the incident.
PromotionStops(old, s) ==
    /\ SetBoth(old, Gen("TRAILING_OCO", s, FALSE, gens[2].qty))
    /\ Block
    /\ EndPass
    /\ UNCHANGED <<latest, trade, crashes>>

\* The DELETE answers; its answer is not read, and a fill may have come first.
CancelAnswered ==
    /\ pc = "cancel"
    /\ Delete(1)
    /\ Goto("verify_old")
    /\ UNCHANGED <<store, trade, crashes>>

CancelUnknown ==
    /\ pc = "cancel"
    /\ Delete(1) \/ UNCHANGED exchange
    /\ PromotionStops("REPLACING", "CANCEL_UNKNOWN")

\* Neither the answer nor one read proves the end of the old children.
OldChildUnverified ==
    /\ pc = "verify_old"
    /\ UNCHANGED exchange
    /\ PromotionStops("REPLACING", "CANCEL_UNKNOWN")

OldFillUnverified ==
    /\ pc = "verify_old" /\ book[1].st \in Ended /\ book[1].sold > 0
    /\ UNCHANGED exchange
    /\ PromotionStops("REPLACING", "FILL_RECONCILIATION_UNKNOWN")

\* What the old OCO did not sell.
PromotionResidual == Most(0, gens[2].qty - book[1].sold)

\* The cancel lost the race against a fill of the whole OCO.
PromotionNotNeeded ==
    /\ pc = "verify_old" /\ book[1].st \in Ended
    /\ book[1].sold > 0 /\ PromotionResidual = 0
    /\ UNCHANGED exchange
    /\ PromotionStops(OldChildStatus, "NOT_NEEDED_POSITION_EXITED")

ResidualPlanInvalid ==
    /\ \/ pc = "verify_old" /\ book[1].st \in Ended /\ book[1].sold > 0 /\ PromotionResidual > 0
       \/ pc = "promote_post"
    /\ UNCHANGED exchange
    /\ PromotionStops(OldChildStatus, "RESIDUAL_PLAN_INVALID")

ReplacementPending ==
    /\ pc = "verify_old" /\ book[1].st \in Ended /\ PromotionResidual > 0
    /\ SetBoth(OldChildStatus, Gen("TRAILING_OCO", "REPLACEMENT_PENDING", FALSE, PromotionResidual))
    /\ Goto("promote_post")
    /\ UNCHANGED <<latest, state, incidents, trade, exchange, crashes>>

\* submit_oco(); its preflight refuses a quantity that is not executable.
PromotePost ==
    /\ pc = "promote_post" /\ gens[2].qty >= MinExec
    /\ \/ Create(2) /\ Goto("promote_bind")
       \/ (Create(2) \/ NotCreated(2)) /\ Goto("promote_query")
    /\ UNCHANGED <<store, trade, crashes>>

PromoteQueryFinds ==
    /\ pc = "promote_query" /\ book[2].st # "none"
    /\ Goto("promote_bind")
    /\ UNCHANGED <<store, trade, exchange, crashes>>

PromoteUnknown ==
    /\ pc = "promote_query"
    /\ UNCHANGED exchange
    /\ PromotionStops(OldChildStatus, "SUBMISSION_UNKNOWN")

\* The new ids are saved, the position blocked, generation 1 REPLACED; the pass
\* then reads the whole history again.
PromoteBind ==
    /\ pc = "promote_bind"
    /\ SetBoth("REPLACED", Gen("TRAILING_OCO", "SUBMITTED_UNVERIFIED", TRUE, gens[2].qty))
    /\ Block
    /\ pc' = "scan" /\ k' = 1 /\ snap' = Unread /\ pending' = 0 /\ UNCHANGED <<ready, failed>>
    /\ UNCHANGED <<latest, trade, exchange, crashes>>

-----------------------------------------------------------------------------
(* Import, dust and acknowledgment: _binana_reconcile_external_exits. *)

ImportExit ==
    /\ pc = "import"
    /\ ImportCommits(pending, snap[pending])
    /\ Leave("imported")
    /\ UNCHANGED <<store, exchange, crashes>>

\* The executions moved on, an open order remains, or a read or commit failed.
CanonicalFails ==
    /\ pc \in {"import", "imported", "dust_prepare", "dust_ack", "dust_retain"}
    /\ \E fees \in SUBSET (IF pc = "import" THEN {"canonical-fees"} ELSE {}) :
          incidents' = incidents \cup {"canonical-trade"} \cup fees
    /\ Fail
    /\ UNCHANGED <<gens, latest, state, trade, exchange, crashes>>

\* Mutant: every imported exit counts as the end of the position.
AcknowledgeImport_AnyImport ==
    /\ pc = "imported"
    /\ incidents' = incidents \ {"canonical-fees", "recovery"} /\ state' = "EXIT_FILLED"
    /\ Goto("ack")
    /\ UNCHANGED <<gens, latest, trade, exchange, crashes>>

\* acknowledge_canonical_receipts() and, for a closed Trade, acknowledge_imported_exit().
AcknowledgeImport ==
    /\ pc = "imported"
    /\ \/ /\ isOpen
          /\ incidents' = incidents \ {"canonical-fees"} /\ UNCHANGED state
       \/ /\ ~isOpen /\ OpenOrders = {}
          /\ incidents' = incidents \ {"canonical-fees", "recovery"} /\ state' = "EXIT_FILLED"
    /\ Goto("ack")
    /\ UNCHANGED <<gens, latest, trade, exchange, crashes>>

\* acknowledge_canonical_reconciliation().
AcknowledgeCanonical ==
    /\ pc = "ack"
    /\ incidents' = incidents
         \ ((IF state \in {"OPEN", "EXIT_FILLED", "DUST_RETAINED"} THEN {"canonical-trade"} ELSE {})
            \cup (IF \/ state = "DUST_RETAINED"
                     \/ /\ state = "OPEN" /\ gens[latest].mode \in ListModes
                        /\ gens[latest].status \in ActiveStatus
                  THEN {"operator-exit"} ELSE {}))
    /\ EndPass
    /\ UNCHANGED <<gens, latest, state, trade, exchange, crashes>>

\* Mutant: off by one at the smallest executable quantity.
DustPending_OffByOne ==
    /\ Verified /\ ~OperatorRequest
    /\ active_histories = {} /\ OpenOrders = {} /\ canonical <= MinExec
    /\ SetStatus(latest, "DUST_PENDING")
    /\ state' = "EXIT_PENDING"
    /\ Leave("dust_prepare")
    /\ UNCHANGED <<latest, incidents, trade, exchange, crashes>>

\* No obligation survives and the remainder is not executable.
DustPending ==
    /\ Verified /\ ~OperatorRequest
    /\ active_histories = {} /\ OpenOrders = {} /\ canonical < MinExec
    /\ SetStatus(latest, "DUST_PENDING")
    /\ state' = "EXIT_PENDING"
    /\ Leave("dust_prepare")
    /\ UNCHANGED <<latest, incidents, trade, exchange, crashes>>

\* The two commits of the Trade around the acknowledgment of the store.
DustPrepare ==
    /\ pc = "dust_prepare"
    /\ dust' = "prepared"
    /\ Goto("dust_ack")
    /\ UNCHANGED <<store, imported, isOpen, exchange, crashes>>

DustAcknowledge ==
    /\ pc = "dust_ack"
    /\ SetStatus(latest, "DUST_RETAINED")
    /\ state' = "DUST_RETAINED" /\ incidents' = incidents \ {"recovery"}
    /\ Goto("dust_retain")
    /\ UNCHANGED <<latest, trade, exchange, crashes>>

DustRetain ==
    /\ pc = "dust_retain"
    /\ dust' = "retained"
    /\ Goto("ack")
    /\ UNCHANGED <<store, imported, isOpen, exchange, crashes>>

-----------------------------------------------------------------------------
(* The exchange and the machine. *)

\* A price touches one leg: its sibling is cancelled.
Trigger(g) ==
    /\ book[g].st = "live"
    /\ book' = [book EXCEPT ![g] = Obligation("working", book[g].left, 0)]

Fill(g, q) ==
    /\ book[g].st \in Resting /\ q <= book[g].left
    /\ book' = [book EXCEPT ![g] = Obligation(IF q = book[g].left THEN "done" ELSE "working",
                                              book[g].left - q, book[g].sold + q)]

\* An IOC or market order ends, or the exchange cancels what rests.
Expire(g) ==
    /\ book[g].st \in Resting
    /\ book' = [book EXCEPT ![g] = Obligation("done", 0, book[g].sold)]

Match ==
    /\ \E g \in Gens : Trigger(g) \/ Expire(g) \/ \E q \in 1..Amount : Fill(g, q)
    /\ UNCHANGED <<store, trade, posts, thread, crashes>>

Crash ==
    /\ crashes < MaxCrashes
    /\ crashes' = crashes + 1
    /\ ready' = FALSE /\ pc' = "idle" /\ k' = 1 /\ snap' = Unread /\ pending' = 0 /\ failed' = FALSE
    /\ UNCHANGED <<store, trade, exchange>>

Scan == SkipGeneration \/ ProveAbsent \/ RecoverIds \/ ReadGeneration

Decide ==
    \/ ImportFirst \/ OperatorCancel \/ OperatorPrepare \/ OperatorDust \/ DustPending
    \/ \E g \in Gens : MarkProtected(g)
    \/ \E mode \in ListModes \cup SingleModes : NewGeneration(mode)

Promote ==
    \/ NoPromotion \/ PromotionIntent \/ CancelAnswered \/ CancelUnknown \/ OldChildUnverified
    \/ OldFillUnverified \/ PromotionNotNeeded \/ ResidualPlanInvalid \/ ReplacementPending
    \/ PromotePost \/ PromoteQueryFinds \/ PromoteUnknown \/ PromoteBind

Submit == OperatorCancelAnswered \/ OperatorCancelUnknown \/ Post \/ Bind \/ VerifyNew

Settle ==
    \/ ImportExit \/ CanonicalFails \/ AcknowledgeImport \/ AcknowledgeCanonical
    \/ DustPrepare \/ DustAcknowledge \/ DustRetain

OwnerStep ==
    \/ ManageOpenOrders \/ StartPass \/ AcknowledgeClosed \/ AcknowledgmentBlocked \/ FinishPass
    \/ Scan \/ ReconcileRaises \/ Decide \/ Promote \/ Submit \/ Settle

Next == OwnerStep \/ RequestOperatorExit \/ Match \/ Crash

Spec == Init /\ [][Next]_vars

\* A step of the pass fails although its read, answer or commit could have succeeded.
Fault ==
    \/ ReconcileRaises /\ ENABLED (Scan \/ Decide \/ Bind \/ VerifyNew)
    \/ CanonicalFails /\ ENABLED (ImportExit \/ AcknowledgeImport \/ DustPrepare \/ DustAcknowledge
                                 \/ DustRetain)
    \/ AcknowledgmentBlocked /\ ENABLED AcknowledgeClosed
    \/ OperatorCancelUnknown /\ ENABLED OperatorCancelAnswered

\* The loop runs, and outages end: every failed step is retried by the next pass.
\* The market owes the position nothing.
FairSpec == Spec /\ WF_vars(OwnerStep) /\ <>[][~Fault]_vars

-----------------------------------------------------------------------------
(* Properties. *)

\* At most one obligation at a time: a promotion, a recovery or an operator's exit
\* never POSTs while an earlier generation, or an earlier POST whose answer was
\* lost, may still sell.
OneObligation == \A g, h \in OpenOrders : g = h

\* What was sold and what may still be sold never exceeds what the entry bought,
\* whichever fills, cancels and lost answers interleave.
NoOversell == Total(SoldQty) + Total(LeftQty) <= Amount

\* No blind repeat POST: after a crash or a lost answer a generation is only read.
NoRepeatedPost == \A g \in Gens : posts[g] <= 1

\* The Trade never books a sale the exchange did not make, and a row that it
\* closed holds all that the order sold.
ImportsAreExecutions ==
    \A g \in Gens : /\ imported[g].qty <= book[g].sold
                    /\ imported[g].qty > 0 /\ ~imported[g].open => imported[g].qty = book[g].sold

\* A closed Trade, and the label EXIT_FILLED, mean a settled position: everything
\* was sold and imported and nothing rests on the exchange.
ClosedIsSettled ==
    /\ ~isOpen => Total(ImportedQty) = Amount /\ OpenOrders = {}
    /\ state = "EXIT_FILLED" => ~isOpen

\* Retained dust leaves the loop for good: it is not executable, no obligation
\* rests, and no execution is left to import.
DustIsFinal ==
    dust = "retained" => /\ OpenOrders = {}
                         /\ Amount - Total(SoldQty) \in 1..(MinExec - 1)
                         /\ \A g \in Gens : imported[g].qty = book[g].sold

\* Entries are not admitted over a position that the owner itself stripped of its
\* protection: after a cancel of ours, the label or an incident blocks until an
\* obligation was verified again.
StrippedPositionBlocks ==
    /\ ready /\ Listed /\ state # "UNKNOWN" /\ incidents = {}
    => \E g \in Gens : /\ book[g].st \in Resting \cup {"done"}
                       /\ \A h \in Gens : h > g => book[h].st = "none"

\* Submissions that never reached the exchange and whose absence the code does not
\* prove: every later pass raises on them.
Unreadable ==
    {g \in 1..latest : /\ ~gens[g].known /\ book[g].st = "none" /\ ~Skipped(g)
                       /\ ~(gens[g].mode \in ListModes
                             /\ gens[g].status \in {"SUBMISSION_PENDING", "REPLACEMENT_PENDING"})}

\* A retention that was interrupted after its first write.
InterruptedDust == gens[latest].status \in {"DUST_PENDING", "DUST_RETAINED"} /\ dust # "retained"

\* Every execution reaches the Trade: after any crash, failed read and lost answer
\* the sells of an ended obligation are imported, unless an unreadable submission
\* stops the passes.
ExitsReachTrade ==
    \A g \in Gens :
        book[g].st \in Ended /\ book[g].sold > 0
        ~> imported[g] = SellRow(book[g].sold, FALSE) \/ Unreadable # {}

\* A position without an obligation does not stay bare: it is protected or sold
\* again, closed, or retained as dust (the generation bound, an unreadable
\* submission and an interrupted retention aside).
BarePositionRecovers ==
    Listed /\ OpenOrders = {}
    ~> \/ OpenOrders # {} \/ ~Listed
       \/ latest = MaxGen \/ Unreadable # {} \/ InterruptedDust

\* A settled position is acknowledged: once the Trade is closed, its label becomes
\* EXIT_FILLED and every incident closes, whichever acknowledgment a crash cut off.
ClosedIsAcknowledged ==
    ~isOpen ~> (state = "EXIT_FILLED" /\ incidents = {}) \/ Unreadable # {}

\* "Replacement OCO submission can fail before Binance creates anything.  Prove
\* absence [...] before allowing a new recovery action": a replacement that never
\* reached Binance does not leave the position bare.
LostReplacementRecovers ==
    gens[2].mode = "TRAILING_OCO" /\ gens[2].status = "SUBMISSION_UNKNOWN" /\ OpenOrders = {}
    ~> OpenOrders # {} \/ ~Listed \/ latest = MaxGen

\* Terminal dust of a market exit is retained (test_operator_exit), also when the
\* process restarts between the writes of the retention.
DustIsRetained == gens[latest].status = "DUST_PENDING" ~> dust = "retained"

-----------------------------------------------------------------------------
(* The abstract specification. *)

StatusOf == IF ~isOpen THEN "closed" ELSE IF dust = "retained" THEN "retained" ELSE "held"

Position == INSTANCE PositionContract WITH
    sold <- Total(SoldQty), covered <- Total(LeftQty), booked <- Total(ImportedQty),
    status <- StatusOf

\* Passes, promotions, operator exits, imports, lost answers and crashes amount to
\* one ledger: the position is covered by one obligation at a time, for no more than
\* is unsold, books what was sold, and is left for good only when it is sold and
\* booked whole or as booked dust; nothing happens to it after that.
ImplementsPosition == Position!PSpec
================================================================================
