-------------------------- MODULE OwnerProtectionProofs --------------------------
(***************************************************************************)
(* Proofs about OwnerProtection, for every quantity, every bound on        *)
(* generations and crashes, with and without gaps in the order history.    *)
(***************************************************************************)
EXTENDS OwnerProtection, SumLemmas

-----------------------------------------------------------------------------
(* The inductive invariant, in named parts. *)

Nothing == Obligation("none", 0, 0)

\* Nothing rests of an obligation, and the Trade holds all that it sold in a closed row.
Settles(ob, row) == ob.st \notin Resting /\ row = SellRow(ob.sold, FALSE)
Settled(g) == Settles(book[g], imported[g])

\* Obligations: what was never created sold nothing, an untouched OCO sold
\* nothing, and an obligation is only created when no earlier one rests.
BookOK ==
    /\ \A g \in Gens : /\ book[g].st = "none" => book[g] = Nothing
                       /\ book[g].st = "live" => book[g].sold = 0
                       /\ book[g].st \in Resting => \A h \in Gens : h > g => book[h].st = "none"
    /\ book[1].st # "none"

\* Rows of the Trade: an open row holds a sale, a closed one all of an order that ended.
RowsOK ==
    \A g \in Gens : /\ imported[g].qty <= book[g].sold
                    /\ imported[g].open => imported[g].qty > 0
                    /\ imported[g].qty > 0 /\ ~imported[g].open
                       => imported[g].qty = book[g].sold /\ book[g].st \notin Resting

\* A generation against its obligation, its POSTs and its sell row: saved ids name
\* an obligation, phases before the POST have none, and an operator's generation
\* with dust is settled.
Consistent(gen, ob, n, row) ==
    /\ gen.known => ob.st # "none"
    /\ gen.mode = "OPERATOR_EXIT"
       /\ gen.status \in OPERATOR_PRE_SUBMISSION \cup {"OPERATOR_REMAINDER_DUST"}
       => ~gen.known /\ ob.st = "none" /\ n = 0
    /\ ~gen.known /\ gen.status \in NoPostPhases => ob.st = "none"
    /\ gen.mode = "OPERATOR_EXIT" /\ gen.status \in {"DUST_PENDING", "DUST_RETAINED"}
       => Settles(ob, row)

\* Generations: later ones do not exist, the others are consistent.
GensOK ==
    \A g \in Gens : /\ g > latest => gens[g] = NoGen /\ book[g] = Nothing /\ posts[g] = 0
                    /\ Consistent(gens[g], book[g], posts[g], imported[g])

\* The Trade is closed exactly when everything was sold and no row is open; then
\* nothing rests.
TradeOK ==
    /\ isOpen = ~(canonical = 0 /\ \A h \in Gens : ~imported[h].open)
    /\ ~isOpen => OpenOrders = {}
    /\ state = "EXIT_FILLED" => ~isOpen

PromotionPcs == {"cancel", "verify_old", "promote_post", "promote_query", "promote_bind"}
DustPcs == {"dust_prepare", "dust_ack", "dust_retain"}
OpenPcs == {"scan", "decide", "promote", "operator_cancel", "post", "lost", "bind", "verify_new",
            "import"} \cup PromotionPcs \cup DustPcs

\* Where the pass may be.
PassOK ==
    /\ pc \in OpenPcs => isOpen
    /\ pc = "closed" => ~isOpen
    /\ pc \in {"idle", "start", "end"} => k = 1 /\ snap = Unread /\ pending = 0
    /\ pc = "scan" => k <= latest
    /\ pc = "decide" => k = latest + 1

\* What the pass has read: an ended obligation stays as it was read; one read
\* resting was the last, and no DELETE of ours ended it.
SnapOK ==
    pc \in {"scan", "decide", "operator_cancel", "import"} =>
        \A g \in Gens :
            /\ snap[g].st # "none" => snap[g].sold <= book[g].sold
            /\ snap[g].st \in Ended => snap[g] = book[g]
            /\ snap[g].st \in Resting => /\ book[g].st \in Resting \cup {"done"}
                                         /\ \A h \in Gens : h > g => book[h].st = "none"

\* The scan passes a generation only settled or read, and notes what is to import.
ScanOK ==
    pc \in {"scan", "decide", "import"} =>
        /\ \A g \in Gens : g < k => snap[g].st # "none" \/ Settled(g)
        /\ pending = 0 => /\ pc # "import"
                          /\ \A g \in Gens : snap[g].st # "none" /\ snap[g].sold > 0
                                               => ~imported[g].open /\ imported[g].qty >= snap[g].sold
        /\ pending # 0 => /\ snap[pending].st # "none" /\ snap[pending].sold > 0
                          /\ imported[pending].open \/ imported[pending].qty < snap[pending].sold

\* A POST that is due was never sent, nothing rests, and its quantity is not sold.
PostOK ==
    /\ pc = "post" => /\ gens[latest].status = "SUBMISSION_PENDING" /\ ~gens[latest].known
                      /\ posts[latest] = 0 /\ book[latest].st = "none"
                      /\ OpenOrders = {}
                      /\ gens[latest].qty <= Amount - Total(SoldQty)
    /\ pc \in {"bind", "verify_new"} => book[latest].st \in Resting \cup {"done"}

\* The same of a promotion, whose old OCO has ended.
PromotionOK ==
    /\ pc \in PromotionPcs => latest = 2
    /\ pc \in {"cancel", "verify_old", "promote_post"} => book[2].st = "none" /\ posts[2] = 0
    /\ pc = "promote_post" => /\ gens[2].status = "REPLACEMENT_PENDING" /\ ~gens[2].known
                              /\ book[1].st \in Ended
                              /\ gens[2].qty + book[1].sold <= Amount
    /\ pc = "promote_bind" => book[2].st # "none"

\* Dust that is being retained: every generation is settled and the remainder is
\* not executable.
DustOK ==
    /\ pc \in DustPcs \/ dust = "retained" =>
          /\ \A g \in Gens : Settled(g)
          /\ canonical \in 1..(MinExec - 1)
    /\ dust = "retained" => isOpen /\ pc \in {"ack", "end", "idle", "start"}

\* The last obligation was ended by a DELETE of ours.
Stripped == \A g \in Gens : book[g].st \in Resting \cup {"done"} =>
                               \E h \in Gens : h > g /\ book[h].st # "none"

Guarded == \/ ~Listed \/ ~Stripped \/ state = "UNKNOWN"
           \/ "recovery" \in incidents \/ "operator-exit" \in incidents

\* The labels and incidents that keep the gate closed over a stripped position.
GuardOK ==
    /\ OperatorRequest => "operator-exit" \in incidents /\ state # "DUST_RETAINED"
    /\ pc = "operator_cancel" => OperatorRequest
    /\ pc \in {"import", "imported"} => state = "UNKNOWN"
    /\ pc = "promote" => ~Stripped
    /\ pc = "ack" => \/ ~Listed \/ ~Stripped \/ state = "UNKNOWN"
                     \/ OperatorRequest
    /\ pc = "end" /\ ~failed => Guarded
    /\ ready => pc \in {"idle", "start"} /\ Guarded

IInv == /\ TypeOK /\ NoRepeatedPost /\ NoOversell
        /\ BookOK /\ RowsOK /\ GensOK /\ TradeOK /\ PassOK /\ SnapOK /\ ScanOK
        /\ PostOK /\ PromotionOK /\ DustOK /\ GuardOK

-----------------------------------------------------------------------------
(* Totals over the generations. *)

LEMMA GensFinite == IsFiniteSet(Gens) /\ 1 \in Gens /\ Gens \subseteq Nat \ {0}
  BY ProtectionAssumption, FS_Interval DEF Gens

\* A total of naturals is a natural, and no term exceeds it.
LEMMA TotalType ==
    ASSUME NEW F, \A g \in Gens : F[g] \in Nat
    PROVE  Total(F) \in Nat /\ \A g \in Gens : F[g] <= Total(F)
<1>1. Total(F) \in Nat
  BY GensFinite, SumNat DEF Total
<1>2. ASSUME NEW g \in Gens PROVE F[g] <= Total(F)
  <2>0. \A x \in Gens : F[x] \in Int
    OBVIOUS
  <2>1. Total(F) = F[g] + SumFunctionOnSet(F, Gens \ {g})
    <3>1. IsFiniteSet(Gens)
      BY GensFinite
    <3>2. SumFunctionOnSet(F, Gens) = F[g] + SumFunctionOnSet(F, Gens \ {g})
      BY <2>0, <3>1, SumRemove
    <3>3. QED
      BY <3>2 DEF Total
  <2>2. SumFunctionOnSet(F, Gens \ {g}) \in Nat
    BY GensFinite, FS_Subset, SumNat
  <2>3. QED
    BY <2>1, <2>2
<1>3. QED
  BY <1>1, <1>2

\* A total of sums, and a total of which one term changed.
LEMMA TotalAdd ==
    ASSUME NEW F, NEW G, NEW H,
           \A g \in Gens : F[g] \in Int /\ G[g] \in Int /\ H[g] = F[g] + G[g]
    PROVE  Total(H) = Total(F) + Total(G)
<1>1. IsFiniteSet(Gens)
  BY GensFinite
<1>2. SumFunctionOnSet(H, Gens) = SumFunctionOnSet(F, Gens) + SumFunctionOnSet(G, Gens)
  BY <1>1, SumAdd
<1>3. QED
  BY <1>2 DEF Total

LEMMA TotalUpdate ==
    ASSUME NEW F, NEW G, NEW g \in Gens,
           \A h \in Gens : F[h] \in Int /\ G[h] \in Int,
           \A h \in Gens \ {g} : G[h] = F[h]
    PROVE  Total(G) = (Total(F) - F[g]) + G[g]
<1>1. IsFiniteSet(Gens)
  BY GensFinite
<1>2. SumFunctionOnSet(G, Gens) = (SumFunctionOnSet(F, Gens) - F[g]) + G[g]
  BY <1>1, SumUpdate
<1>3. QED
  BY <1>2 DEF Total

\* Sold and possibly sold, per generation.
UsedQty == [g \in Gens |-> SoldQty[g] + LeftQty[g]]

Totals ==
    /\ \A g \in Gens : /\ SoldQty[g] = book[g].sold /\ ImportedQty[g] = imported[g].qty
                       /\ LeftQty[g] = IF book[g].st \in Resting THEN book[g].left ELSE 0
                       /\ SoldQty[g] \in Nat /\ LeftQty[g] \in Nat /\ ImportedQty[g] \in Nat
                       /\ UsedQty[g] = SoldQty[g] + LeftQty[g] /\ UsedQty[g] <= Total(UsedQty)
    /\ Total(SoldQty) \in Nat /\ Total(LeftQty) \in Nat /\ Total(ImportedQty) \in Nat
    /\ Total(UsedQty) = Total(SoldQty) + Total(LeftQty)

\* The quantities are naturals, and the totals relate as their terms do.
LEMMA TotalsOfState == TypeOK => Totals
<1> SUFFICES ASSUME TypeOK PROVE Totals
  OBVIOUS
<1>1. \A g \in Gens : /\ SoldQty[g] = book[g].sold /\ ImportedQty[g] = imported[g].qty
                      /\ LeftQty[g] = IF book[g].st \in Resting THEN book[g].left ELSE 0
                      /\ SoldQty[g] \in Nat /\ LeftQty[g] \in Nat /\ ImportedQty[g] \in Nat
                      /\ UsedQty[g] = SoldQty[g] + LeftQty[g]
  BY ProtectionAssumption DEF TypeOK, Obligations, SoldQty, LeftQty, ImportedQty, UsedQty
<1>2. Total(SoldQty) \in Nat /\ Total(LeftQty) \in Nat /\ Total(ImportedQty) \in Nat
  BY <1>1, TotalType
<1>3. Total(UsedQty) = Total(SoldQty) + Total(LeftQty)
  <2>1. \A g \in Gens : SoldQty[g] \in Int /\ LeftQty[g] \in Int /\ UsedQty[g] = SoldQty[g] + LeftQty[g]
    BY <1>1
  <2>2. QED
    BY <2>1, TotalAdd
<1>4. \A g \in Gens : UsedQty[g] <= Total(UsedQty)
  <2>1. \A g \in Gens : UsedQty[g] \in Nat
    BY <1>1
  <2>2. QED
    BY <2>1, TotalType
<1>5. QED
  BY <1>1, <1>2, <1>3, <1>4 DEF Totals

LEMMA TotalsOfNext == TypeOK' => Totals'
  BY TotalsOfState, PTL

\* Terms that are zero add up to zero.
LEMMA RestIsZero ==
    ASSUME NEW F, NEW R \in SUBSET Gens, \A g \in R : F[g] = 0
    PROVE  SumFunctionOnSet(F, R) = 0
<1> DEFINE P == {s \in SUBSET R : SumFunctionOnSet(F, s) = 0}
<1>0. IsFiniteSet(R)
  BY GensFinite, FS_Subset
<1>1. {} \in P
  BY SumEmpty
<1>2. ASSUME NEW s \in SUBSET R, s # {}, \A x \in s : s \ {x} \in P PROVE s \in P
  <2>1. IsFiniteSet(s) /\ Pick(s) \in s
    BY <1>0, <1>2, FS_Subset, PickRemoves
  <2>2. SumFunctionOnSet(F, s) = F[Pick(s)] + SumFunctionOnSet(F, s \ {Pick(s)})
    BY <1>2, <2>1, SumUnfolds
  <2>3. QED
    BY <1>2, <2>1, <2>2
<1> HIDE DEF P
<1>3. R \in P
  BY <1>0, <1>1, <1>2, SubsetInduction
<1>4. QED
  BY <1>3 DEF P

\* Sold quantities never exceed the amount; neither do imported ones.
LEMMA TotalsBounded ==
    ASSUME IInv
    PROVE  /\ Total(UsedQty) <= Amount /\ Total(SoldQty) <= Amount
           /\ Total(ImportedQty) <= Total(SoldQty)
           /\ canonical \in 0..Amount
<1>1. TypeOK /\ NoOversell /\ RowsOK
  BY DEF IInv
<1>2. Total(ImportedQty) <= Total(SoldQty)
  <2>1. \A g \in Gens : /\ ImportedQty[g] \in Int /\ SoldQty[g] \in Int
                        /\ ImportedQty[g] <= SoldQty[g]
    BY <1>1, TotalsOfState DEF RowsOK, Totals
  <2>2. QED
    BY <2>1, GensFinite, SumMonotone DEF Total
<1>3. QED
  BY <1>1, <1>2, TotalsOfState, ProtectionAssumption DEF NoOversell, canonical, Totals

\* When every generation is settled, what is not imported is not sold.
LEMMA TotalsSettled ==
    ASSUME TypeOK, \A g \in Gens : imported[g].qty = book[g].sold
    PROVE  Total(ImportedQty) = Total(SoldQty)
<1>1. \A g \in Gens : ImportedQty[g] = SoldQty[g] /\ SoldQty[g] \in Int
  BY TotalsOfState DEF Totals
<1>2. QED
  BY <1>1, GensFinite, SumCongruent DEF Total

\* When nothing rests, only what was sold is used.
LEMMA TotalsBare ==
    ASSUME TypeOK, OpenOrders = {}
    PROVE  Total(UsedQty) = Total(SoldQty)
<1>1. \A g \in Gens : UsedQty[g] = SoldQty[g] /\ SoldQty[g] \in Int
  BY TotalsOfState DEF OpenOrders, Totals
<1>2. QED
  BY <1>1, GensFinite, SumCongruent DEF Total

-----------------------------------------------------------------------------
(* What a step does to the exchange and to the Trade: one of five effects. *)

Quiet == UNCHANGED <<book, posts, imported, isOpen>>

\* A POST of the last generation.
Sends ==
    /\ pc \in {"post", "promote_post"}
    /\ Create(latest) \/ NotCreated(latest)
    /\ pc' \in {"bind", "lost", "promote_bind", "promote_query"}
    /\ pc' \in {"bind", "promote_bind"} => Create(latest)
    /\ pc' \in {"promote_bind", "promote_query"} => pc = "promote_post"
    /\ UNCHANGED <<gens, latest, state, incidents, imported, isOpen, dust, ready, failed>>

\* A DELETE.
Cancels ==
    /\ pc \in {"cancel", "operator_cancel"} /\ pc' \in {"verify_old", "ack", "end"}
    /\ \E g \in Gens : Delete(g)
    /\ UNCHANGED <<imported, isOpen, dust>>

\* An import, of the row that is open or of the executions that the scan noted.
Imports ==
    /\ \E g \in Gens :
          \/ /\ pc = "idle" /\ pc' = "start" /\ Listed /\ imported[g].open
             /\ ImportCommits(g, book[g])
          \/ /\ pc = "import" /\ pc' = "imported" /\ g = pending
             /\ ImportCommits(g, snap[g])
    /\ UNCHANGED <<gens, latest, state, dust, book, posts>>

LEMMA LoopEffects ==
    ASSUME IInv,
           \/ ManageOpenOrders \/ StartPass \/ AcknowledgeClosed \/ AcknowledgmentBlocked \/ FinishPass
           \/ RequestOperatorExit \/ Crash
    PROVE  Quiet \/ Imports
<1>1. CASE ManageOpenOrders
  <2>1. pc = "idle" /\ pc' = "start" /\ UNCHANGED <<gens, latest, state, book, posts>>
    BY <1>1 DEF ManageOpenOrders, Goto, exchange
  <2>2. \/ UNCHANGED <<imported, isOpen>>
        \/ \E g \in Gens : Listed /\ imported[g].open /\ ImportCommits(g, book[g])
    BY <1>1 DEF ManageOpenOrders, trade
  <2>3. \A g \in Gens : ImportCommits(g, book[g]) => UNCHANGED dust
    BY DEF ImportCommits
  <2>4. QED
    BY <2>1, <2>2, <2>3 DEF Quiet, Imports
<1>2. CASE \/ StartPass \/ AcknowledgeClosed \/ AcknowledgmentBlocked \/ FinishPass
           \/ RequestOperatorExit \/ Crash
  BY <1>2 DEF StartPass, AcknowledgeClosed, AcknowledgmentBlocked, FinishPass, RequestOperatorExit,
              Crash, Quiet, trade, exchange
<1>3. QED
  BY <1>1, <1>2

LEMMA SettleEffects ==
    ASSUME IInv, Settle
    PROVE  Quiet \/ Imports
<1>1. CASE ImportExit
  <2>1. pending \in Gens
    BY <1>1 DEF ImportExit, IInv, ScanOK, TypeOK, Gens
  <2>2. QED
    BY <1>1, <2>1 DEF ImportExit, Imports, Leave, store, exchange, ImportCommits
<1>2. CASE \/ CanonicalFails \/ AcknowledgeImport \/ AcknowledgeCanonical
           \/ DustPrepare \/ DustAcknowledge \/ DustRetain
  BY <1>2 DEF CanonicalFails, AcknowledgeImport, AcknowledgeCanonical, DustPrepare, DustAcknowledge,
              DustRetain, Quiet, trade, exchange
<1>3. QED
  BY <1>1, <1>2 DEF Settle

LEMMA PassEffects ==
    ASSUME IInv, Scan \/ ReconcileRaises \/ Decide
    PROVE  Quiet
<1>1. CASE Scan
  BY <1>1 DEF Scan, SkipGeneration, ProveAbsent, RecoverIds, ReadGeneration, Quiet, trade, exchange
<1>2. CASE ReconcileRaises
  BY <1>2 DEF ReconcileRaises, Quiet, trade, exchange
<1>3. CASE Decide
  BY <1>3 DEF Decide, ImportFirst, OperatorCancel, OperatorPrepare, OperatorDust, DustPending,
              MarkProtected, NewGeneration, Quiet, trade, exchange
<1>4. QED
  BY <1>1, <1>2, <1>3

LEMMA SubmitEffects ==
    ASSUME IInv, Submit
    PROVE  Quiet \/ Sends \/ Cancels
<1>1. CASE OperatorCancelAnswered
  BY <1>1 DEF OperatorCancelAnswered, active_histories, Cancels, Leave, trade
<1>2. CASE OperatorCancelUnknown
  BY <1>2 DEF OperatorCancelUnknown, active_histories, Cancels, Quiet, EndPass, Leave, trade, exchange
<1>3. CASE Post
  BY <1>3 DEF Post, Sends, Goto, store, trade
<1>4. CASE Bind \/ VerifyNew
  BY <1>4 DEF Bind, VerifyNew, Quiet, trade, exchange
<1>5. QED
  BY <1>1, <1>2, <1>3, <1>4 DEF Submit

LEMMA PromoteEffects ==
    ASSUME IInv, Promote
    PROVE  Quiet \/ Sends \/ Cancels
<1>0. 1 \in Gens /\ (pc \in PromotionPcs => latest = 2)
  BY GensFinite DEF IInv, PromotionOK
<1>1. CASE CancelAnswered
  BY <1>0, <1>1 DEF CancelAnswered, Cancels, Goto, trade
<1>2. CASE CancelUnknown
  BY <1>0, <1>2 DEF CancelUnknown, PromotionStops, Cancels, Quiet, EndPass, Leave, trade, exchange
<1>3. CASE PromotePost
  BY <1>0, <1>3 DEF PromotePost, Sends, Goto, store, trade, PromotionPcs
<1>4. CASE \/ NoPromotion \/ PromotionIntent \/ OldChildUnverified \/ OldFillUnverified
           \/ PromotionNotNeeded \/ ResidualPlanInvalid \/ ReplacementPending
           \/ PromoteQueryFinds \/ PromoteUnknown \/ PromoteBind
  BY <1>4 DEF NoPromotion, PromotionIntent, OldChildUnverified, OldFillUnverified, PromotionNotNeeded,
              ResidualPlanInvalid, ReplacementPending, PromoteQueryFinds, PromoteUnknown, PromoteBind,
              PromotionStops, Quiet, trade, exchange
<1>5. QED
  BY <1>1, <1>2, <1>3, <1>4 DEF Promote

LEMMA Effects ==
    ASSUME IInv, Next
    PROVE  Quiet \/ Match \/ Sends \/ Cancels \/ Imports
  BY LoopEffects, SettleEffects, PassEffects, SubmitEffects, PromoteEffects DEF Next, OwnerStep

-----------------------------------------------------------------------------
(* The exchange. *)

\* The last generation may be posted: it never was, nothing rests, and its
\* quantity is not sold.
PostReady == /\ posts[latest] = 0 /\ book[latest].st = "none" /\ OpenOrders = {}
             /\ ~gens[latest].known
             /\ gens[latest].status \in {"SUBMISSION_PENDING", "REPLACEMENT_PENDING"}
             /\ gens[latest].qty <= Amount - Total(SoldQty)

\* A promotion posts under the same conditions as a recovery.
LEMMA PostsAreReady ==
    ASSUME IInv, pc \in {"post", "promote_post"}
    PROVE  PostReady
<1>1. CASE pc = "post"
  BY <1>1 DEF IInv, PostOK, PostReady
<1>2. CASE pc = "promote_post"
  <2>1. /\ latest = 2 /\ book[2].st = "none" /\ posts[2] = 0 /\ book[1].st \in Ended
        /\ gens[2].qty + book[1].sold <= Amount /\ ~gens[2].known
        /\ gens[2].status = "REPLACEMENT_PENDING"
    BY <1>2 DEF IInv, PromotionOK, PromotionPcs
  <2>2. \A g \in Gens : g # 1 => book[g].st = "none" /\ book[g].sold = 0
    BY <2>1, GensFinite DEF IInv, GensOK, BookOK, Nothing, Obligation, TypeOK
  <2>3. OpenOrders = {}
    BY <2>1, <2>2 DEF OpenOrders, Resting, Ended
  <2>4. Total(SoldQty) = book[1].sold
    <3> DEFINE Zero == [g \in Gens |-> 0]
    <3>1. Totals /\ 1 \in Gens /\ IsFiniteSet(Gens)
      BY TotalsOfState, GensFinite DEF IInv
    <3>2. SumFunctionOnSet(SoldQty, Gens)
            = SoldQty[1] + SumFunctionOnSet(SoldQty, Gens \ {1})
      <4>1. \A g \in Gens : SoldQty[g] \in Int
        BY <3>1 DEF Totals
      <4>2. QED
        BY <3>1, <4>1, SumRemove
    <3>3. SumFunctionOnSet(SoldQty, Gens \ {1}) = 0
      BY <2>2, <3>1, RestIsZero DEF Totals
    <3>4. QED
      BY <3>1, <3>2, <3>3 DEF Total, Totals
  <2>5. gens[2].qty \in Nat /\ book[1].sold \in Nat
    BY <2>1, GensFinite, ProtectionAssumption DEF IInv, TypeOK, Generations, Obligations
  <2>6. QED
    BY <2>1, <2>3, <2>4, <2>5, ProtectionAssumption DEF PostReady
<1>3. QED
  BY <1>1, <1>2

\* The exchange keeps its types.
LEMMA TypeExchange ==
    ASSUME IInv, Next
    PROVE  book' \in [Gens -> Obligations] /\ posts' \in [Gens -> Nat]
<1>1. /\ book \in [Gens -> Obligations] /\ posts \in [Gens -> Nat] /\ latest \in Gens
      /\ gens \in [Gens -> Generations] /\ Amount \in Nat
  BY ProtectionAssumption DEF IInv, TypeOK
<1>2. CASE Quiet \/ Imports
  BY <1>1, <1>2 DEF Quiet, Imports
<1>3. CASE Sends
  BY <1>1, <1>3 DEF Sends, Create, NotCreated, Obligation, Obligations, Generations, Resting
<1>4. CASE Cancels
  BY <1>1, <1>4 DEF Cancels, Delete, Obligation, Obligations, Ended
<1>5. CASE Match
  <2>1. UNCHANGED posts
    BY <1>5 DEF Match
  <2>2. ASSUME NEW g \in Gens, Trigger(g) \/ Expire(g) PROVE book' \in [Gens -> Obligations]
    BY <1>1, <2>2 DEF Trigger, Expire, Obligation, Obligations, Resting, Ended
  <2>3. ASSUME NEW g \in Gens, NEW q \in 1..Amount, Fill(g, q) PROVE book' \in [Gens -> Obligations]
    <3>1. book[g].sold + book[g].left <= Amount
      <4>1. Totals /\ Total(UsedQty) <= Amount
        BY TotalsOfState, TotalsBounded DEF IInv
      <4>2. /\ UsedQty[g] = SoldQty[g] + LeftQty[g] /\ UsedQty[g] <= Total(UsedQty)
            /\ SoldQty[g] = book[g].sold /\ LeftQty[g] = book[g].left
            /\ SoldQty[g] \in Nat /\ LeftQty[g] \in Nat /\ Total(UsedQty) \in Nat
        BY <2>3, <4>1 DEF Totals, Fill
      <4>3. QED
        BY <1>1, <4>1, <4>2
    <3>2. book[g].left \in Nat /\ book[g].sold \in Nat /\ q <= book[g].left
      BY <1>1, <2>3 DEF Fill, Obligations
    <3>3. book[g].left - q \in 0..Amount /\ book[g].sold + q \in 0..Amount
      BY <1>1, <3>1, <3>2
    <3>4. Obligation(IF q = book[g].left THEN "done" ELSE "working", book[g].left - q, book[g].sold + q)
            \in Obligations
      BY <3>3 DEF Obligation, Obligations, Resting, Ended
    <3>5. QED
      BY <1>1, <2>3, <3>4 DEF Fill
  <2>4. book' \in [Gens -> Obligations]
    BY <1>5, <2>2, <2>3 DEF Match
  <2>5. QED
    BY <1>1, <2>1, <2>4
<1>6. QED
  BY <1>2, <1>3, <1>4, <1>5, Effects

\* Obligations are created one after the other, and only when nothing rests.
LEMMA BookStep ==
    ASSUME IInv, Next
    PROVE  BookOK'
<1>1. /\ book \in [Gens -> Obligations] /\ latest \in Gens /\ BookOK /\ Gens \subseteq Nat
      /\ gens \in [Gens -> Generations] /\ 1 \in Gens
  BY GensFinite DEF IInv, TypeOK
<1>2. CASE Quiet \/ Imports
  BY <1>1, <1>2 DEF Quiet, Imports, BookOK
<1>3. CASE Sends
  <2>1. OpenOrders = {} /\ book[latest].st = "none"
    BY <1>3, PostsAreReady DEF Sends, PostReady
  <2>2. \A g \in Gens : book[g].st \notin Resting
    BY <2>1 DEF OpenOrders
  <2>3. \A g \in Gens : g > latest => book[g].st = "none"
    BY DEF IInv, GensOK, Nothing, Obligation
  <2>4. CASE Create(latest)
    BY <1>1, <2>2, <2>3, <2>4 DEF Create, BookOK, Obligation, Nothing, Resting
  <2>5. CASE NotCreated(latest)
    BY <1>1, <2>5 DEF NotCreated, BookOK
  <2>6. QED
    BY <1>3, <2>4, <2>5 DEF Sends
<1>4. CASE Cancels
  BY <1>1, <1>4 DEF Cancels, Delete, BookOK, Obligation, Nothing, Resting
<1>5. CASE Match
  BY <1>1, <1>5 DEF Match, Trigger, Expire, Fill, BookOK, Obligation, Nothing, Resting
<1>6. QED
  BY <1>2, <1>3, <1>4, <1>5, Effects

\* A generation is posted once.
LEMMA PostsStep ==
    ASSUME IInv, Next
    PROVE  NoRepeatedPost'
<1>1. NoRepeatedPost /\ posts \in [Gens -> Nat] /\ latest \in Gens
  BY DEF IInv, TypeOK
<1>2. CASE Quiet \/ Imports \/ Cancels \/ Match
  BY <1>1, <1>2 DEF Quiet, Imports, Cancels, Delete, Match, NoRepeatedPost
<1>3. CASE Sends
  <2>1. posts[latest] = 0 /\ posts' = [posts EXCEPT ![latest] = @ + 1]
    BY <1>3, PostsAreReady DEF Sends, PostReady, Create, NotCreated
  <2>2. QED
    BY <1>1, <2>1 DEF NoRepeatedPost
<1>4. QED
  BY <1>2, <1>3, Effects

\* No step raises what was sold and may be sold above the amount.
LEMMA OversellStep ==
    ASSUME IInv, Next, TypeOK'
    PROVE  NoOversell'
<1>1. /\ book \in [Gens -> Obligations] /\ latest \in Gens /\ BookOK
      /\ gens \in [Gens -> Generations] /\ Totals /\ Totals' /\ Amount \in Nat
      /\ Total(UsedQty) <= Amount
  BY TotalsOfState, TotalsOfNext, TotalsBounded, ProtectionAssumption DEF IInv, TypeOK
<1>s. SUFFICES Total(UsedQty)' <= Amount
  BY <1>1 DEF NoOversell, Totals
<1>2. CASE \A g \in Gens : UsedQty'[g] <= UsedQty[g]
  <2>1. \A g \in Gens : UsedQty'[g] \in Int /\ UsedQty[g] \in Int
    BY <1>1 DEF Totals
  <2>2. Total(UsedQty') <= Total(UsedQty)
    BY <1>2, <2>1, GensFinite, SumMonotone DEF Total
  <2>3. Total(UsedQty) \in Int /\ Total(UsedQty') \in Int
    BY <2>1, GensFinite, SumType DEF Total
  <2>4. QED
    BY <1>1, <2>2, <2>3
<1>3. CASE Quiet \/ Imports
  <2>1. book' = book
    BY <1>3 DEF Quiet, Imports
  <2>2. QED
    BY <1>1, <1>2, <2>1 DEF Totals
<1>4. CASE Cancels
  <2>1. \A g \in Gens : UsedQty'[g] <= UsedQty[g]
    BY <1>1, <1>4 DEF Totals, Cancels, Delete, Obligation, Resting
  <2>2. QED
    BY <1>2, <2>1
<1>5. CASE Match
  <2>1. ASSUME NEW h \in Gens, Trigger(h) \/ Expire(h) PROVE \A g \in Gens : UsedQty'[g] <= UsedQty[g]
    BY <1>1, <2>1 DEF Totals, Trigger, Expire, Obligation, Resting, BookOK
  <2>2. ASSUME NEW h \in Gens, NEW q \in 1..Amount, Fill(h, q)
        PROVE  \A g \in Gens : UsedQty'[g] <= UsedQty[g]
    BY <1>1, <2>2 DEF Totals, Fill, Obligation, Resting, Obligations
  <2>3. QED
    BY <1>2, <1>5, <2>1, <2>2 DEF Match
<1>6. CASE Sends
  <2>1. PostReady
    BY <1>6, PostsAreReady DEF Sends
  <2>2. CASE NotCreated(latest)
    BY <1>1, <1>2, <2>2 DEF NotCreated, Totals
  <2>3. CASE Create(latest)
    <3>1. /\ book'[latest].sold = 0 /\ book'[latest].left = gens[latest].qty
          /\ book'[latest].st \in Resting
          /\ \A g \in Gens \ {latest} : book'[g] = book[g]
      BY <1>1, <2>3 DEF Create, Obligation, Resting
    <3>2. book[latest] = Nothing
      BY <1>1, <2>1 DEF BookOK, PostReady
    <3>3. UsedQty[latest] = 0 /\ UsedQty'[latest] = gens[latest].qty
      BY <1>1, <3>1, <3>2 DEF Totals, Nothing, Obligation, Resting, Generations
    <3>4. \A g \in Gens \ {latest} : UsedQty'[g] = UsedQty[g]
      BY <1>1, <3>1 DEF Totals
    <3>5. \A g \in Gens : UsedQty[g] \in Int /\ UsedQty'[g] \in Int
      BY <1>1 DEF Totals
    <3>6. Total(UsedQty') = (Total(UsedQty) - UsedQty[latest]) + UsedQty'[latest]
      BY <1>1, <3>4, <3>5, TotalUpdate
    <3>7. Total(UsedQty) = Total(SoldQty)
      BY <2>1, TotalsBare DEF IInv, PostReady
    <3>8. Total(SoldQty) \in Nat /\ gens[latest].qty \in Nat
      BY <1>1 DEF Totals, Generations
    <3>9. QED
      BY <1>1, <2>1, <3>3, <3>6, <3>7, <3>8 DEF PostReady
  <2>4. QED
    BY <1>6, <2>2, <2>3 DEF Sends
<1>7. QED
  BY <1>3, <1>4, <1>5, <1>6, Effects

-----------------------------------------------------------------------------
(* The Trade. *)

\* An import of g is due, books what g sold, and leaves the row open unless g ended.
ImportOf(g) ==
    /\ book[g].sold > 0 /\ ~Settled(g) /\ isOpen
    /\ imported' = [imported EXCEPT ![g] = SellRow(book[g].sold, imported'[g].open)]
    /\ imported'[g].open \in BOOLEAN
    /\ ~imported'[g].open => book[g].st \notin Resting
    /\ isOpen' = ~(canonical' = 0 /\ \A h \in Gens : ~imported'[h].open)
    /\ ~isOpen' => OpenOrders = {}
    /\ UNCHANGED <<gens, latest, state, dust, book, posts>>

LEMMA ImportFacts ==
    ASSUME IInv, Imports
    PROVE  \E g \in Gens : ImportOf(g)
<1>t. /\ imported \in [Gens -> [qty : 0..Amount, open : BOOLEAN]] /\ book \in [Gens -> Obligations]
      /\ snap \in [Gens -> Obligations] /\ RowsOK /\ Amount \in Nat
  BY ProtectionAssumption DEF IInv, TypeOK
<1>0. PICK g \in Gens :
         \/ pc = "idle" /\ Listed /\ imported[g].open /\ ImportCommits(g, book[g])
         \/ pc = "import" /\ g = pending /\ ImportCommits(g, snap[g])
  BY DEF Imports
<1>1. PICK order \in {book[g], snap[g]} :
         /\ ImportCommits(g, order)
         /\ \/ pc = "idle" /\ Listed /\ imported[g].open /\ order = book[g]
            \/ pc = "import" /\ g = pending /\ order = snap[g]
  BY <1>0
<1>2. /\ imported' = [imported EXCEPT ![g] = SellRow(order.sold, order.st \in Resting)]
      /\ book[g].sold = order.sold
      /\ UNCHANGED <<gens, latest, state, dust, book, posts>>
  BY <1>1 DEF ImportCommits, Imports
<1>3. imported'[g] = SellRow(book[g].sold, order.st \in Resting)
  BY <1>2, <1>t
<1>5. /\ isOpen' = ~(canonical' = 0 /\ \A h \in Gens : ~imported'[h].open)
      /\ ~isOpen' => OpenOrders = {}
  BY <1>1, Zenon DEF ImportCommits
<1>6. /\ book[g].sold > 0 /\ ~Settled(g) /\ isOpen
      /\ order.st \notin Resting => book[g].st \notin Resting
  <2>1. CASE pc = "idle" /\ Listed /\ imported[g].open /\ order = book[g]
    BY <2>1, <1>t DEF RowsOK, Settled, Settles, SellRow, Listed, Obligations
  <2>2. CASE pc = "import" /\ g = pending /\ order = snap[g]
    <3>1. /\ snap[g].st # "none" /\ snap[g].sold > 0 /\ isOpen
          /\ imported[g].open \/ imported[g].qty < snap[g].sold
          /\ snap[g].st \in Ended => snap[g] = book[g]
      BY <2>2, GensFinite DEF IInv, ScanOK, SnapOK, PassOK, OpenPcs
    <3>2. book[g].sold > 0 /\ ~Settled(g)
      BY <1>2, <1>t, <2>2, <3>1 DEF Settled, Settles, SellRow, Obligations
    <3>3. order.st \notin Resting => book[g].st \notin Resting
      BY <1>t, <2>2, <3>1 DEF Obligations, Resting, Ended
    <3>4. QED
      BY <3>1, <3>2, <3>3
  <2>3. QED
    BY <1>1, <2>1, <2>2
<1>7. /\ imported'[g].open = (order.st \in Resting)
      /\ imported' = [imported EXCEPT ![g] = SellRow(book[g].sold, imported'[g].open)]
  <2>1. imported'[g].open = (order.st \in Resting)
    BY <1>3 DEF SellRow
  <2>2. QED
    BY <1>2, <2>1
<1>8. /\ imported'[g].open \in BOOLEAN
      /\ ~imported'[g].open => book[g].st \notin Resting
  <2>1. CASE order.st \in Resting
    <3>1. imported'[g].open = TRUE
      BY <1>7, <2>1
    <3>2. QED
      BY <3>1
  <2>2. CASE order.st \notin Resting
    <3>0. (order.st \in Resting) = FALSE
      BY <2>2
    <3>1. imported'[g].open = FALSE
      BY <1>7, <3>0, Zenon
    <3>2. QED
      BY <1>6, <2>2, <3>1
  <2>3. QED
    BY <2>1, <2>2
<1>9. ImportOf(g)
  BY <1>2, <1>5, <1>6, <1>7, <1>8, Zenon DEF ImportOf
<1>10. QED
  BY <1>9

\* The rows keep their types.
LEMMA TypeTrade ==
    ASSUME IInv, Next
    PROVE  /\ imported' \in [Gens -> [qty : 0..Amount, open : BOOLEAN]]
           /\ isOpen' \in BOOLEAN
<1>1. /\ imported \in [Gens -> [qty : 0..Amount, open : BOOLEAN]] /\ isOpen \in BOOLEAN
      /\ book \in [Gens -> Obligations]
  BY DEF IInv, TypeOK
<1>2. CASE Quiet \/ Match \/ Sends \/ Cancels
  BY <1>1, <1>2 DEF Quiet, Match, Sends, Cancels, trade
<1>3. CASE Imports
  <2>1. PICK g \in Gens : ImportOf(g)
    BY <1>3, ImportFacts
  <2>2. SellRow(book[g].sold, imported'[g].open) \in [qty : 0..Amount, open : BOOLEAN]
    BY <1>1, <2>1 DEF ImportOf, SellRow, Obligations
  <2>3. imported' \in [Gens -> [qty : 0..Amount, open : BOOLEAN]]
    BY <1>1, <2>1, <2>2 DEF ImportOf
  <2>4. isOpen' \in BOOLEAN
    BY <2>1, Zenon DEF ImportOf
  <2>5. QED
    BY <2>3, <2>4
<1>4. QED
  BY <1>2, <1>3, Effects

\* The rows of the Trade are executions of the exchange.
LEMMA RowsStep ==
    ASSUME IInv, Next
    PROVE  RowsOK'
<1>1. /\ imported \in [Gens -> [qty : 0..Amount, open : BOOLEAN]]
      /\ book \in [Gens -> Obligations] /\ RowsOK /\ BookOK /\ latest \in Gens
      /\ gens \in [Gens -> Generations]
  BY DEF IInv, TypeOK
<1>2. CASE Quiet
  BY <1>1, <1>2 DEF Quiet, RowsOK
<1>3. CASE Sends
  <2>1. book[latest] = Nothing
    BY <1>1, <1>3, PostsAreReady DEF Sends, PostReady, BookOK
  <2>2. UNCHANGED imported
    BY <1>3 DEF Sends
  <2>3. CASE Create(latest)
    BY <1>1, <2>1, <2>2, <2>3 DEF Create, RowsOK, Nothing, Obligation, Resting
  <2>4. CASE NotCreated(latest)
    BY <1>1, <2>2, <2>4 DEF NotCreated, RowsOK
  <2>5. QED
    BY <1>3, <2>3, <2>4 DEF Sends
<1>4. CASE Cancels
  BY <1>1, <1>4 DEF Cancels, Delete, RowsOK, Obligation, Resting
<1>5. CASE Match
  <2>1. UNCHANGED imported
    BY <1>5 DEF Match, trade
  <2>2. ASSUME NEW g \in Gens, Trigger(g) \/ Expire(g) PROVE RowsOK'
    BY <1>1, <2>1, <2>2 DEF Trigger, Expire, RowsOK, BookOK, Obligation, Resting
  <2>3. ASSUME NEW g \in Gens, NEW q \in 1..Amount, Fill(g, q) PROVE RowsOK'
    BY <1>1, <2>1, <2>3 DEF Fill, RowsOK, Obligation, Obligations, Resting
  <2>4. QED
    BY <1>5, <2>2, <2>3 DEF Match
<1>6. CASE Imports
  <2>1. PICK g \in Gens : ImportOf(g)
    BY <1>6, ImportFacts
  <2>2. QED
    BY <1>1, <2>1 DEF ImportOf, RowsOK, SellRow, Obligations
<1>7. QED
  BY <1>2, <1>3, <1>4, <1>5, <1>6, Effects

-----------------------------------------------------------------------------
(* The generations. *)

\* An obligation that was never created is settled.
LEMMA NothingSettled ==
    ASSUME IInv, NEW g \in Gens, book[g].st = "none"
    PROVE  Settled(g)
  BY DEF IInv, BookOK, RowsOK, TypeOK, Settled, Settles, SellRow, Nothing, Obligation, Resting

\* What the scan passes over is settled.
LEMMA SkippedSettled ==
    ASSUME IInv, NEW g \in Gens, Skipped(g)
    PROVE  Settled(g)
<1>1. book[g].st = "none" \/ Settled(g)
  BY DEF IInv, GensOK, Consistent, Skipped, Settled
<1>2. QED
  BY <1>1, NothingSettled

\* A decision that finds nothing open and nothing to import finds every
\* generation settled.
LEMMA DecisionSettled ==
    ASSUME IInv, Verified, active_histories = {}
    PROVE  \A g \in Gens : Settled(g)
<1>1. SUFFICES ASSUME NEW g \in Gens PROVE Settled(g)
  OBVIOUS
<1>2. /\ pc = "decide" /\ pending = 0 /\ k = latest + 1 /\ latest \in Nat /\ g \in Nat
      /\ snap[g] \in Obligations /\ book[g] \in Obligations
      /\ imported[g] \in [qty : 0..Amount, open : BOOLEAN] /\ Amount \in Nat
  BY GensFinite, ProtectionAssumption DEF Verified, IInv, PassOK, TypeOK
<1>3. CASE g > latest
  BY <1>3, NothingSettled DEF IInv, GensOK, Nothing, Obligation
<1>4. CASE g <= latest /\ snap[g].st # "none"
  <2>1. snap[g].st \in Ended
    BY <1>2, <1>4 DEF active_histories, Obligations, Resting, Ended
  <2>2. snap[g] = book[g]
    BY <1>2, <2>1 DEF IInv, SnapOK
  <2>3. book[g].sold > 0 => ~imported[g].open /\ imported[g].qty >= book[g].sold
    BY <1>2, <1>4, <2>2 DEF IInv, ScanOK
  <2>4. imported[g].qty <= book[g].sold /\ (imported[g].open => imported[g].qty > 0)
    BY DEF IInv, RowsOK
  <2>5. imported[g].qty = book[g].sold /\ imported[g].open = FALSE
    BY <1>2, <2>3, <2>4 DEF Obligations
  <2>6. imported[g] = SellRow(book[g].sold, FALSE)
    BY <1>2, <2>5 DEF SellRow
  <2>7. QED
    BY <2>1, <2>2, <2>6 DEF Settled, Settles, Ended, Resting
<1>5. CASE g <= latest /\ snap[g].st = "none"
  BY <1>2, <1>5 DEF IInv, ScanOK
<1>6. QED
  BY <1>2, <1>3, <1>4, <1>5

\* What a step may write to the protection table: consistent rows, and a new one
\* only after the last.
Writes ==
    /\ latest' \in Gens /\ latest' >= latest
    /\ gens' \in [Gens -> Generations]
    /\ \A g \in Gens : \/ gens'[g] = gens[g]
                       \/ g <= latest' /\ Consistent(gens'[g], book[g], posts[g], imported[g])

LEMMA NothingWritten ==
    ASSUME IInv, UNCHANGED <<gens, latest>>
    PROVE  Writes
  BY GensFinite DEF Writes, IInv, TypeOK

LEMMA RowWritten ==
    ASSUME IInv, latest' \in Gens, latest' >= latest, NEW g \in Gens, g <= latest',
           NEW row \in Generations, gens' = [gens EXCEPT ![g] = row],
           Consistent(row, book[g], posts[g], imported[g])
    PROVE  Writes
  BY DEF Writes, IInv, TypeOK

\* The statuses that claim nothing about the obligation.
PlainStatus == GenStatus \ (OPERATOR_PRE_SUBMISSION \cup NoPostPhases
                              \cup {"OPERATOR_REMAINDER_DUST", "DUST_PENDING", "DUST_RETAINED"})

LEMMA PlainConsistent ==
    ASSUME NEW m, NEW s \in PlainStatus, NEW kn \in BOOLEAN, NEW q, NEW ob, NEW n, NEW row,
           kn => ob.st # "none"
    PROVE  Consistent(Gen(m, s, kn, q), ob, n, row)
  BY DEF Consistent, Gen, PlainStatus

\* A row whose status is rewritten.
LEMMA StatusWritten ==
    ASSUME IInv, UNCHANGED latest, NEW g \in Gens, g <= latest, NEW s \in GenStatus, SetStatus(g, s),
           Consistent(Gen(gens[g].mode, s, gens[g].known, gens[g].qty), book[g], posts[g], imported[g])
    PROVE  Writes
<1>1. Gen(gens[g].mode, s, gens[g].known, gens[g].qty) \in Generations
  BY DEF IInv, TypeOK, Gen, Generations
<1>2. latest' \in Gens /\ latest' >= latest /\ g <= latest'
  BY GensFinite DEF IInv, TypeOK
<1>3. QED
  BY <1>1, <1>2, RowWritten DEF SetStatus

LEMMA PlainStatusWritten ==
    ASSUME IInv, UNCHANGED latest, NEW g \in Gens, g <= latest, NEW s \in PlainStatus, SetStatus(g, s)
    PROVE  Writes
<1>1. gens[g].known \in BOOLEAN /\ (gens[g].known => book[g].st # "none") /\ s \in GenStatus
  BY DEF IInv, TypeOK, Generations, GensOK, Consistent, PlainStatus
<1>2. Consistent(Gen(gens[g].mode, s, gens[g].known, gens[g].qty), book[g], posts[g], imported[g])
  BY <1>1, PlainConsistent
<1>3. QED
  BY <1>1, <1>2, StatusWritten

\* A row whose ids are saved.
LEMMA IdsWritten ==
    ASSUME IInv, UNCHANGED latest, NEW g \in Gens, g <= latest, book[g].st # "none",
           SaveIds(g, "SUBMITTED_UNVERIFIED")
    PROVE  Writes
<1>1. Gen(gens[g].mode, "SUBMITTED_UNVERIFIED", TRUE, gens[g].qty) \in Generations
  BY DEF IInv, TypeOK, Gen, Generations, GenStatus
<1>2. Consistent(Gen(gens[g].mode, "SUBMITTED_UNVERIFIED", TRUE, gens[g].qty),
                 book[g], posts[g], imported[g])
  BY DEF Consistent, Gen, OPERATOR_PRE_SUBMISSION
<1>3. latest' \in Gens /\ latest' >= latest /\ g <= latest'
  BY GensFinite DEF IInv, TypeOK
<1>4. QED
  BY <1>1, <1>2, <1>3, RowWritten DEF SaveIds

\* The rows of a promotion.
LEMMA BothWritten ==
    ASSUME IInv, NEW old \in GenStatus, NEW row \in Generations, SetBoth(old, row),
           2 \in Gens, latest' = 2, latest <= 2,
           Consistent(row, book[2], posts[2], imported[2])
    PROVE  Writes
<1>1. Gen("FIXED_OCO", old, TRUE, gens[1].qty) \in Generations
  BY GensFinite DEF IInv, TypeOK, Gen, Generations, ListModes
<1>2. Consistent(Gen("FIXED_OCO", old, TRUE, gens[1].qty), book[1], posts[1], imported[1])
  BY DEF Consistent, Gen, IInv, BookOK
<1>3. gens \in [Gens -> Generations] /\ 1 \in Gens /\ latest \in Nat
  BY GensFinite DEF IInv, TypeOK
<1>4. gens' = [gens EXCEPT ![1] = Gen("FIXED_OCO", old, TRUE, gens[1].qty), ![2] = row]
  BY DEF SetBoth
<1>5. gens' \in [Gens -> Generations]
  BY <1>1, <1>3, <1>4
<1>6. \A g \in Gens : gens'[g] = IF g = 2 THEN row
                                 ELSE IF g = 1 THEN Gen("FIXED_OCO", old, TRUE, gens[1].qty)
                                 ELSE gens[g]
  BY <1>3, <1>4
<1>7. ASSUME NEW g \in Gens
      PROVE  \/ gens'[g] = gens[g]
             \/ g <= 2 /\ Consistent(gens'[g], book[g], posts[g], imported[g])
  <2>1. CASE g = 2
    <3>1. gens'[g] = row
      BY <1>6, <2>1, Zenon
    <3>2. Consistent(row, book[g], posts[g], imported[g])
      BY <2>1, Zenon
    <3>3. g <= 2
      BY <2>1
    <3>4. QED
      BY <3>1, <3>2, <3>3, Zenon
  <2>2. CASE g = 1
    <3>1. gens'[g] = Gen("FIXED_OCO", old, TRUE, gens[1].qty)
      <4>1. g # 2
        BY <2>2
      <4>2. QED
        BY <1>6, <2>2, <4>1, Zenon
    <3>2. Consistent(Gen("FIXED_OCO", old, TRUE, gens[1].qty), book[g], posts[g], imported[g])
      BY <1>2, <2>2, Zenon
    <3>3. g <= 2
      BY <2>2
    <3>4. QED
      BY <3>1, <3>2, <3>3, Zenon
  <2>3. CASE g # 1 /\ g # 2
    BY <1>6, <2>3
  <2>4. QED
    BY <2>1, <2>2, <2>3
<1>8. QED
  BY <1>3, <1>5, <1>7 DEF Writes

LEMMA LoopWrites ==
    ASSUME IInv,
           \/ ManageOpenOrders \/ StartPass \/ AcknowledgeClosed \/ AcknowledgmentBlocked \/ FinishPass
           \/ RequestOperatorExit \/ Crash \/ Match
    PROVE  Writes
<1>t. /\ gens \in [Gens -> Generations] /\ latest \in Gens /\ Gens \subseteq Nat \ {0} /\ GensOK
      /\ Amount \in Nat
  BY GensFinite, ProtectionAssumption DEF IInv, TypeOK
<1>1. CASE ManageOpenOrders \/ StartPass \/ AcknowledgmentBlocked \/ FinishPass \/ Crash \/ Match
  <2>1. UNCHANGED <<gens, latest>>
    BY <1>1 DEF ManageOpenOrders, StartPass, AcknowledgmentBlocked, FinishPass, Crash, Match, store
  <2>2. QED
    BY <2>1, NothingWritten
<1>2. CASE AcknowledgeClosed
  <2>1. latest' = latest
    BY <1>2 DEF AcknowledgeClosed
  <2>2. gens' = [g \in Gens |->
                  IF gens[g].known THEN Gen(gens[g].mode, "TERMINAL", TRUE, gens[g].qty)
                  ELSE IF gens[g].mode = "OPERATOR_EXIT"
                  THEN Gen("OPERATOR_EXIT", "NOT_NEEDED_POSITION_EXITED", FALSE, gens[g].qty)
                  ELSE gens[g]]
    BY <1>2 DEF AcknowledgeClosed
  <2>3. ASSUME NEW g \in Gens
        PROVE  /\ gens'[g] \in Generations
               /\ \/ gens'[g] = gens[g]
                  \/ g <= latest /\ Consistent(gens'[g], book[g], posts[g], imported[g])
    <3>0. g <= latest \/ gens[g] = NoGen
      BY <1>t DEF GensOK
    <3>1. CASE gens[g].known
      <4>1. gens'[g] = Gen(gens[g].mode, "TERMINAL", TRUE, gens[g].qty)
        BY <2>2, <3>1
      <4>2. Gen(gens[g].mode, "TERMINAL", TRUE, gens[g].qty) \in Generations
        BY <1>t DEF Gen, Generations, GenStatus
      <4>3. book[g].st # "none" /\ g <= latest
        BY <1>t, <3>0, <3>1 DEF GensOK, Consistent, NoGen, Gen
      <4>4. Consistent(Gen(gens[g].mode, "TERMINAL", TRUE, gens[g].qty), book[g], posts[g], imported[g])
        BY <4>3 DEF Consistent, Gen, OPERATOR_PRE_SUBMISSION
      <4>5. QED
        BY <4>1, <4>2, <4>3, <4>4
    <3>2. CASE ~gens[g].known /\ gens[g].mode = "OPERATOR_EXIT"
      <4>1. gens'[g] = Gen("OPERATOR_EXIT", "NOT_NEEDED_POSITION_EXITED", FALSE, gens[g].qty)
        BY <2>2, <3>2
      <4>2. Gen("OPERATOR_EXIT", "NOT_NEEDED_POSITION_EXITED", FALSE, gens[g].qty) \in Generations
        BY <1>t DEF Gen, Generations, GenStatus, NoPostPhases, SingleModes
      <4>3. g <= latest
        BY <3>0, <3>2 DEF NoGen, Gen
      <4>4. NeverSubmitted(g)
        <5>1. g \in 1..latest
          BY <1>t, <4>3
        <5>2. \A h \in 1..latest : ~gens[h].known => NeverSubmitted(h)
          BY <1>2 DEF AcknowledgeClosed
        <5>3. QED
          BY <3>2, <5>1, <5>2
      <4>5. book[g].st = "none"
        BY <1>t, <3>2, <4>4 DEF NeverSubmitted, GensOK, Consistent
      <4>6. Consistent(Gen("OPERATOR_EXIT", "NOT_NEEDED_POSITION_EXITED", FALSE, gens[g].qty),
                       book[g], posts[g], imported[g])
        BY <4>5 DEF Consistent, Gen, OPERATOR_PRE_SUBMISSION
      <4>7. QED
        BY <4>1, <4>2, <4>3, <4>6
    <3>3. CASE ~gens[g].known /\ gens[g].mode # "OPERATOR_EXIT"
      BY <1>t, <2>2, <3>3
    <3>4. QED
      BY <3>1, <3>2, <3>3
  <2>4. gens' \in [Gens -> Generations]
    BY <2>2, <2>3
  <2>5. QED
    BY <1>t, <2>1, <2>3, <2>4 DEF Writes
<1>3. CASE RequestOperatorExit
  <2> DEFINE row == Gen("OPERATOR_EXIT", "EXIT_REQUESTED", FALSE, 0)
  <2>1. /\ latest' = latest + 1 /\ gens' = [gens EXCEPT ![latest + 1] = row] /\ latest < MaxGen
    BY <1>3 DEF RequestOperatorExit
  <2>2. latest + 1 \in Gens /\ latest' \in Gens /\ latest' >= latest /\ latest + 1 <= latest'
    BY <1>t, <2>1, ProtectionAssumption DEF Gens
  <2>3. book[latest + 1] = Nothing /\ posts[latest + 1] = 0
    BY <1>t, <2>2 DEF GensOK
  <2>4. row \in Generations
    BY <1>t DEF Gen, Generations, GenStatus, OPERATOR_PRE_SUBMISSION, SingleModes
  <2>5. Consistent(row, book[latest + 1], posts[latest + 1], imported[latest + 1])
    BY <2>3 DEF Consistent, Gen, OPERATOR_PRE_SUBMISSION, NoPostPhases, Nothing, Obligation
  <2> HIDE DEF row
  <2>6. QED
    BY <2>1, <2>2, <2>4, <2>5, RowWritten
<1>4. QED
  BY <1>1, <1>2, <1>3

LEMMA ScanWrites ==
    ASSUME IInv, Scan
    PROVE  Writes
<1>t. k \in Gens /\ k <= latest /\ UNCHANGED latest
  <2>1. pc = "scan" /\ UNCHANGED latest
    BY DEF Scan, SkipGeneration, ProveAbsent, RecoverIds, ReadGeneration, store
  <2>2. k <= latest /\ k \in 1..(MaxGen + 1) /\ latest \in 1..MaxGen
    BY <2>1 DEF IInv, PassOK, TypeOK, Gens
  <2>3. QED
    BY <2>1, <2>2, ProtectionAssumption DEF Gens
<1>1. CASE SkipGeneration
  BY <1>1, NothingWritten DEF SkipGeneration, store
<1>2. CASE ProveAbsent
  <2>1. SetStatus(k, "SUBMISSION_ABSENT") /\ "SUBMISSION_ABSENT" \in PlainStatus
    BY <1>2 DEF ProveAbsent, PlainStatus, GenStatus, OPERATOR_PRE_SUBMISSION, NoPostPhases
  <2>2. QED
    BY <1>t, <2>1, PlainStatusWritten
<1>3. CASE RecoverIds
  BY <1>t, <1>3, IdsWritten DEF RecoverIds
<1>4. CASE ReadGeneration
  <2>1. "TERMINAL" \in PlainStatus
    BY DEF PlainStatus, GenStatus, OPERATOR_PRE_SUBMISSION, NoPostPhases
  <2>2. SetStatus(k, "TERMINAL") \/ UNCHANGED gens
    BY <1>4 DEF ReadGeneration
  <2>3. QED
    BY <1>t, <2>1, <2>2, PlainStatusWritten, NothingWritten
<1>5. QED
  BY <1>1, <1>2, <1>3, <1>4 DEF Scan

LEMMA RaiseWrites ==
    ASSUME IInv, ReconcileRaises
    PROVE  Writes
<1>1. /\ latest \in Gens /\ latest <= latest /\ UNCHANGED latest
  BY GensFinite DEF ReconcileRaises, IInv, TypeOK
<1>2. {"ORDER_HISTORY_UNAVAILABLE", "VERIFICATION_UNKNOWN"} \subseteq PlainStatus
  BY DEF PlainStatus, GenStatus, OPERATOR_PRE_SUBMISSION, NoPostPhases
<1>3. \/ SetStatus(latest, "ORDER_HISTORY_UNAVAILABLE") \/ SetStatus(latest, "VERIFICATION_UNKNOWN")
      \/ UNCHANGED gens
  BY DEF ReconcileRaises
<1>4. QED
  BY <1>1, <1>2, <1>3, PlainStatusWritten, NothingWritten

\* The quantities that a new generation may have.
LEMMA QuantityTypes ==
    ASSUME IInv
    PROVE  /\ canonical \in 0..Amount
           /\ RecoveryQuantity \in 0..Amount /\ RecoveryQuantity <= canonical
<1>1. \A g \in Gens : SeenSold[g] \in Nat
  BY ProtectionAssumption DEF SeenSold, IInv, TypeOK, Obligations
<1>2. sell_total \in Nat
  BY <1>1, TotalType DEF sell_total
<1>3. canonical \in 0..Amount /\ Protected \in Nat /\ Amount \in Nat
  BY TotalsBounded, ProtectionAssumption
<1>4. QED
  BY <1>2, <1>3 DEF RecoveryQuantity, residual_quantity, Least, Most

LEMMA DecideWrites ==
    ASSUME IInv, Decide
    PROVE  Writes
<1>t. /\ gens \in [Gens -> Generations] /\ latest \in Gens /\ Gens \subseteq Nat \ {0} /\ GensOK
      /\ Amount \in Nat /\ latest <= latest
  BY GensFinite, ProtectionAssumption DEF IInv, TypeOK
<1>1. CASE ImportFirst
  BY <1>1, NothingWritten DEF ImportFirst
<1>2. CASE OperatorCancel \/ OperatorDust
  <2>1. PICK s \in {"EXIT_CANCEL_PENDING", "OPERATOR_REMAINDER_DUST"} :
           SetStatus(latest, s) /\ UNCHANGED latest /\ OperatorRequest
    BY <1>2 DEF OperatorCancel, OperatorDust, OperatorVerified
  <2>2. s \in GenStatus
    BY DEF GenStatus, OPERATOR_PRE_SUBMISSION
  <2>3. ~gens[latest].known /\ book[latest].st = "none" /\ posts[latest] = 0
    BY <1>t, <2>1 DEF OperatorRequest, GensOK, Consistent
  <2>4. Consistent(Gen(gens[latest].mode, s, gens[latest].known, gens[latest].qty),
                   book[latest], posts[latest], imported[latest])
    BY <2>1, <2>3 DEF Consistent, Gen, OPERATOR_PRE_SUBMISSION
  <2>5. QED
    BY <1>t, <2>1, <2>2, <2>4, StatusWritten
<1>3. CASE OperatorPrepare
  <2> DEFINE row == Gen("OPERATOR_EXIT", "SUBMISSION_PENDING", FALSE, canonical)
  <2>1. gens' = [gens EXCEPT ![latest] = row] /\ UNCHANGED latest
    BY <1>3 DEF OperatorPrepare
  <2>2. row \in Generations
    BY QuantityTypes DEF Gen, Generations, GenStatus, SingleModes
  <2>3. Consistent(row, book[latest], posts[latest], imported[latest])
    BY DEF Consistent, Gen, OPERATOR_PRE_SUBMISSION, NoPostPhases
  <2> HIDE DEF row
  <2>4. QED
    BY <1>t, <2>1, <2>2, <2>3, RowWritten
<1>4. CASE DustPending
  <2>1. SetStatus(latest, "DUST_PENDING") /\ UNCHANGED latest /\ "DUST_PENDING" \in GenStatus
    BY <1>4 DEF DustPending, GenStatus
  <2>2. Settled(latest)
    BY <1>4, <1>t, DecisionSettled DEF DustPending
  <2>3. Consistent(Gen(gens[latest].mode, "DUST_PENDING", gens[latest].known, gens[latest].qty),
                   book[latest], posts[latest], imported[latest])
    BY <1>t, <2>2 DEF Consistent, Gen, OPERATOR_PRE_SUBMISSION, NoPostPhases, Settled, GensOK
  <2>4. QED
    BY <1>t, <2>1, <2>3, StatusWritten
<1>5. ASSUME NEW g \in Gens, MarkProtected(g) PROVE Writes
  <2>1. PICK s \in ActiveStatus : SetStatus(g, s) /\ UNCHANGED latest
    BY <1>5 DEF MarkProtected, ActiveStatus
  <2>2. s \in PlainStatus
    BY DEF ActiveStatus, PlainStatus, GenStatus, OPERATOR_PRE_SUBMISSION, NoPostPhases
  <2>3. book[g].st # "none"
    BY <1>5 DEF MarkProtected, Verified, active_histories, IInv, SnapOK, Resting
  <2>4. g <= latest
    BY <1>t, <2>3 DEF GensOK, Nothing, Obligation
  <2>5. QED
    BY <2>1, <2>2, <2>4, PlainStatusWritten
<1>6. ASSUME NEW mode \in ListModes \cup SingleModes, NewGeneration(mode) PROVE Writes
  <2> DEFINE row == Gen(mode, "SUBMISSION_PENDING", FALSE, RecoveryQuantity)
  <2>1. latest' = latest + 1 /\ gens' = [gens EXCEPT ![latest + 1] = row] /\ latest < MaxGen
    BY <1>6 DEF NewGeneration
  <2>2. latest + 1 \in Gens /\ latest' \in Gens /\ latest' >= latest /\ latest + 1 <= latest'
    BY <1>t, <2>1, ProtectionAssumption DEF Gens
  <2>3. row \in Generations
    BY QuantityTypes DEF Gen, Generations, GenStatus
  <2>4. Consistent(row, book[latest + 1], posts[latest + 1], imported[latest + 1])
    BY DEF Consistent, Gen, OPERATOR_PRE_SUBMISSION, NoPostPhases
  <2> HIDE DEF row
  <2>5. QED
    BY <2>1, <2>2, <2>3, <2>4, RowWritten
<1>7. QED
  BY <1>1, <1>2, <1>3, <1>4, <1>5, <1>6 DEF Decide

LEMMA SubmitWrites ==
    ASSUME IInv, Submit
    PROVE  Writes
<1>t. /\ latest \in Gens /\ latest <= latest /\ UNCHANGED latest
  BY GensFinite DEF IInv, TypeOK, Submit, OperatorCancelAnswered, OperatorCancelUnknown, Post, Bind,
     VerifyNew, store
<1>1. CASE OperatorCancelAnswered \/ Post
  BY <1>1, NothingWritten DEF OperatorCancelAnswered, Post, store
<1>2. CASE OperatorCancelUnknown
  <2>1. SetStatus(latest, "EXIT_CANCEL_UNKNOWN") /\ OperatorRequest
    BY <1>2 DEF OperatorCancelUnknown, IInv, GuardOK
  <2>2. "EXIT_CANCEL_UNKNOWN" \in GenStatus
    BY DEF GenStatus, OPERATOR_PRE_SUBMISSION
  <2>3. ~gens[latest].known /\ book[latest].st = "none" /\ posts[latest] = 0
    BY <1>t, <2>1 DEF OperatorRequest, IInv, GensOK, Consistent
  <2>4. Consistent(Gen(gens[latest].mode, "EXIT_CANCEL_UNKNOWN", gens[latest].known, gens[latest].qty),
                   book[latest], posts[latest], imported[latest])
    BY <2>3 DEF Consistent, Gen, OPERATOR_PRE_SUBMISSION
  <2>5. QED
    BY <1>t, <2>1, <2>2, <2>4, StatusWritten
<1>3. CASE Bind
  <2>1. SaveIds(latest, "SUBMITTED_UNVERIFIED") /\ book[latest].st # "none"
    BY <1>3 DEF Bind, IInv, PostOK, Resting
  <2>2. QED
    BY <1>t, <2>1, IdsWritten
<1>4. CASE VerifyNew
  <2>1. PICK s \in ActiveStatus : SetStatus(latest, s)
    BY <1>4 DEF VerifyNew, ActiveStatus
  <2>2. s \in PlainStatus
    BY DEF ActiveStatus, PlainStatus, GenStatus, OPERATOR_PRE_SUBMISSION, NoPostPhases
  <2>3. QED
    BY <1>t, <2>1, <2>2, PlainStatusWritten
<1>5. QED
  BY <1>1, <1>2, <1>3, <1>4 DEF Submit

LEMMA SettleWrites ==
    ASSUME IInv, Settle
    PROVE  Writes
<1>1. CASE \/ ImportExit \/ CanonicalFails \/ AcknowledgeImport \/ AcknowledgeCanonical
           \/ DustPrepare \/ DustRetain
  <2>1. UNCHANGED <<gens, latest>>
    BY <1>1 DEF ImportExit, CanonicalFails, AcknowledgeImport, AcknowledgeCanonical, DustPrepare,
                DustRetain, store
  <2>2. QED
    BY <2>1, NothingWritten
<1>2. CASE DustAcknowledge
  <2>1. SetStatus(latest, "DUST_RETAINED") /\ UNCHANGED latest /\ "DUST_RETAINED" \in GenStatus
    BY <1>2 DEF DustAcknowledge, GenStatus
  <2>2. latest \in Gens /\ latest <= latest
    BY GensFinite DEF IInv, TypeOK
  <2>3. Settled(latest)
    BY <1>2, <2>2 DEF DustAcknowledge, IInv, DustOK, DustPcs
  <2>4. gens[latest].known => book[latest].st # "none"
    BY <2>2 DEF IInv, GensOK, Consistent
  <2>5. Consistent(Gen(gens[latest].mode, "DUST_RETAINED", gens[latest].known, gens[latest].qty),
                   book[latest], posts[latest], imported[latest])
    BY <2>3, <2>4 DEF Consistent, Gen, OPERATOR_PRE_SUBMISSION, NoPostPhases, Settled
  <2>6. QED
    BY <2>1, <2>2, <2>5, StatusWritten
<1>3. QED
  BY <1>1, <1>2 DEF Settle

\* A promotion that stops before its POST has no second obligation.
LEMMA StopWrites ==
    ASSUME IInv, pc \in PromotionPcs, NEW old \in GenStatus, NEW s \in GenStatus,
           s \in PlainStatus \/ (s \in NoPostPhases /\ book[2].st = "none"),
           PromotionStops(old, s)
    PROVE  Writes
<1> DEFINE row == Gen("TRAILING_OCO", s, FALSE, gens[2].qty)
<1>1. latest = 2 /\ latest' = 2 /\ 2 \in Gens
  BY DEF IInv, PromotionOK, PromotionStops, TypeOK
<1>2. row \in Generations
  BY <1>1 DEF IInv, TypeOK, Gen, Generations, ListModes
<1>3. Consistent(row, book[2], posts[2], imported[2])
  BY DEF Consistent, Gen, PlainStatus
<1>4. SetBoth(old, row)
  BY DEF PromotionStops
<1> HIDE DEF row
<1>5. QED
  BY <1>1, <1>2, <1>3, <1>4, BothWritten

LEMMA PromoteWrites ==
    ASSUME IInv, Promote
    PROVE  Writes
<1>t. /\ gens \in [Gens -> Generations] /\ book \in [Gens -> Obligations]
      /\ 1 \in Gens /\ Gens \subseteq Nat \ {0} /\ latest \in Gens /\ Amount \in Nat
      /\ pc \in PromotionPcs => latest = 2 /\ 2 \in Gens
  BY GensFinite, ProtectionAssumption DEF IInv, TypeOK, PromotionOK
<1>o. OldChildStatus \in GenStatus /\ "REPLACING" \in GenStatus /\ "REPLACED" \in GenStatus
      /\ NoPostPhases \subseteq GenStatus /\ "SUBMISSION_UNKNOWN" \in PlainStatus
  BY <1>t DEF OldChildStatus, GenStatus, Generations, PlainStatus, NoPostPhases, OPERATOR_PRE_SUBMISSION
<1>1. CASE NoPromotion \/ CancelAnswered \/ PromotePost \/ PromoteQueryFinds
  <2>1. UNCHANGED <<gens, latest>>
    BY <1>1 DEF NoPromotion, CancelAnswered, PromotePost, PromoteQueryFinds, store
  <2>2. QED
    BY <2>1, NothingWritten
<1>2. CASE PromotionIntent
  <2> DEFINE row == Gen("TRAILING_OCO", "PROMOTION_INTENT", FALSE, gens[1].qty)
  <2>1. latest = 1 /\ latest' = 2 /\ 2 \in Gens /\ SetBoth("REPLACING", row)
    <3>1. latest = 1 /\ latest' = 2 /\ MaxGen > 1 /\ SetBoth("REPLACING", row)
      BY <1>2 DEF PromotionIntent
    <3>2. 2 \in Gens
      BY <3>1, ProtectionAssumption DEF Gens
    <3>3. QED
      BY <3>1, <3>2
  <2>2. book[2].st = "none"
    BY <2>1 DEF IInv, GensOK, Nothing, Obligation
  <2>3. row \in Generations
    BY <1>t DEF Gen, Generations, ListModes, GenStatus, NoPostPhases
  <2>4. Consistent(row, book[2], posts[2], imported[2])
    BY <2>2 DEF Consistent, Gen
  <2> HIDE DEF row
  <2>5. QED
    BY <1>o, <2>1, <2>3, <2>4, BothWritten
<1>3. CASE CancelUnknown \/ OldChildUnverified \/ OldFillUnverified
  <2>1. PICK s \in {"CANCEL_UNKNOWN", "FILL_RECONCILIATION_UNKNOWN"} : PromotionStops("REPLACING", s)
    BY <1>3 DEF CancelUnknown, OldChildUnverified, OldFillUnverified
  <2>2. pc \in PromotionPcs /\ book[2].st = "none"
    BY <1>3 DEF CancelUnknown, OldChildUnverified, OldFillUnverified, PromotionPcs, IInv, PromotionOK
  <2>3. s \in NoPostPhases
    BY DEF NoPostPhases
  <2>4. QED
    BY <1>o, <2>1, <2>2, <2>3, StopWrites
<1>4. CASE PromotionNotNeeded \/ ResidualPlanInvalid
  <2>1. PICK s \in {"NOT_NEEDED_POSITION_EXITED", "RESIDUAL_PLAN_INVALID"} :
           PromotionStops(OldChildStatus, s)
    BY <1>4 DEF PromotionNotNeeded, ResidualPlanInvalid
  <2>2. pc \in PromotionPcs /\ book[2].st = "none"
    BY <1>4 DEF PromotionNotNeeded, ResidualPlanInvalid, PromotionPcs, IInv, PromotionOK
  <2>3. s \in NoPostPhases
    BY DEF NoPostPhases
  <2>4. QED
    BY <1>o, <2>1, <2>2, <2>3, StopWrites
<1>5. CASE PromoteUnknown
  <2>1. PromotionStops(OldChildStatus, "SUBMISSION_UNKNOWN") /\ pc \in PromotionPcs
    BY <1>5 DEF PromoteUnknown, PromotionPcs
  <2>2. "SUBMISSION_UNKNOWN" \in GenStatus
    BY DEF GenStatus
  <2>3. QED
    BY <1>o, <2>1, <2>2, StopWrites
<1>6. CASE ReplacementPending
  <2> DEFINE row == Gen("TRAILING_OCO", "REPLACEMENT_PENDING", FALSE, PromotionResidual)
  <2>1. SetBoth(OldChildStatus, row) /\ pc \in PromotionPcs /\ latest' = latest
    BY <1>6 DEF ReplacementPending, PromotionPcs
  <2>2. PromotionResidual \in 0..Amount
    BY <1>t, <2>1 DEF PromotionResidual, Most, Generations, Obligations
  <2>3. row \in Generations
    BY <2>2 DEF Gen, Generations, ListModes, GenStatus
  <2>4. Consistent(row, book[2], posts[2], imported[2])
    BY DEF Consistent, Gen, OPERATOR_PRE_SUBMISSION, NoPostPhases
  <2> HIDE DEF row
  <2>5. QED
    BY <1>t, <1>o, <2>1, <2>3, <2>4, BothWritten
<1>7. CASE PromoteBind
  <2> DEFINE row == Gen("TRAILING_OCO", "SUBMITTED_UNVERIFIED", TRUE, gens[2].qty)
  <2>1. SetBoth("REPLACED", row) /\ pc \in PromotionPcs /\ latest' = latest /\ book[2].st # "none"
    BY <1>7 DEF PromoteBind, PromotionPcs, IInv, PromotionOK
  <2>3. row \in Generations
    BY <1>t, <2>1 DEF Gen, Generations, ListModes, GenStatus
  <2>4. Consistent(row, book[2], posts[2], imported[2])
    BY <2>1 DEF Consistent, Gen, OPERATOR_PRE_SUBMISSION
  <2> HIDE DEF row
  <2>5. QED
    BY <1>t, <1>o, <2>1, <2>3, <2>4, BothWritten
<1>8. QED
  BY <1>1, <1>2, <1>3, <1>4, <1>5, <1>6, <1>7 DEF Promote

\* Every step writes consistent rows.
LEMMA WritesStep ==
    ASSUME IInv, Next
    PROVE  Writes
  BY LoopWrites, ScanWrites, RaiseWrites, DecideWrites, PromoteWrites, SubmitWrites, SettleWrites
  DEF Next, OwnerStep

\* A consistent row stays consistent when the exchange or the Trade moves, unless
\* its own POST is sent.
LEMMA ConsistentKept ==
    ASSUME IInv, Quiet \/ Match \/ Cancels \/ Imports, NEW g \in Gens, NEW row \in Generations,
           Consistent(row, book[g], posts[g], imported[g])
    PROVE  Consistent(row, book'[g], posts'[g], imported'[g])
<1>1. /\ book \in [Gens -> Obligations] /\ posts \in [Gens -> Nat]
      /\ imported \in [Gens -> [qty : 0..Amount, open : BOOLEAN]]
  BY DEF IInv, TypeOK
<1>2. CASE Quiet
  BY <1>2 DEF Quiet
<1>3. CASE Imports
  <2>1. PICK h \in Gens : ImportOf(h)
    BY <1>3, ImportFacts
  <2>2. book'[g] = book[g] /\ posts'[g] = posts[g]
    BY <2>1 DEF ImportOf
  <2>3. imported'[g] = imported[g] \/ ~Settles(book[g], imported[g])
    BY <1>1, <2>1 DEF ImportOf, Settled
  <2>4. QED
    BY <2>2, <2>3 DEF Consistent
<1>4. CASE Cancels \/ Match
  <2>1. posts'[g] = posts[g] /\ imported'[g] = imported[g]
    BY <1>4 DEF Cancels, Match, Delete, trade
  <2>2. /\ book[g].st \notin Resting => book'[g] = book[g]
        /\ book[g].st \in Resting => book'[g].st \in Resting \cup Ended
    <3>1. CASE Cancels
      BY <1>1, <3>1 DEF Cancels, Delete, Obligation, Resting, Ended
    <3>2. CASE Match
      BY <1>1, <3>2 DEF Match, Trigger, Expire, Fill, Obligation, Resting, Ended
    <3>3. QED
      BY <1>4, <3>1, <3>2
  <2>3. QED
    BY <1>1, <2>1, <2>2 DEF Consistent, Settles, Resting, Ended
<1>5. QED
  BY <1>2, <1>3, <1>4

\* The protection table stays consistent with the exchange and the Trade.
LEMMA GensStep ==
    ASSUME IInv, Next
    PROVE  GensOK'
<1>t. /\ book \in [Gens -> Obligations] /\ posts \in [Gens -> Nat]
      /\ gens \in [Gens -> Generations] /\ latest \in Gens /\ Gens \subseteq Nat /\ GensOK
      /\ imported \in [Gens -> [qty : 0..Amount, open : BOOLEAN]]
  BY GensFinite DEF IInv, TypeOK
<1>w. Writes
  BY WritesStep
<1>1. ASSUME NEW g \in Gens, g > latest' PROVE gens'[g] = NoGen /\ book'[g] = Nothing /\ posts'[g] = 0
  <2>1. gens'[g] = gens[g] /\ g > latest
    BY <1>t, <1>w, <1>1 DEF Writes
  <2>2. gens[g] = NoGen /\ book[g] = Nothing /\ posts[g] = 0
    BY <1>t, <2>1 DEF GensOK
  <2>3. book'[g] = book[g] /\ posts'[g] = posts[g]
    <3>1. CASE Quiet \/ Imports
      BY <3>1 DEF Quiet, Imports
    <3>2. CASE Sends
      BY <1>t, <2>1, <3>2 DEF Sends, Create, NotCreated
    <3>3. CASE Cancels
      BY <1>t, <2>2, <3>3 DEF Cancels, Delete, Nothing, Obligation, Resting
    <3>4. CASE Match
      BY <1>t, <2>2, <3>4 DEF Match, Trigger, Expire, Fill, Nothing, Obligation, Resting
    <3>5. QED
      BY <3>1, <3>2, <3>3, <3>4, Effects
  <2>4. QED
    BY <2>1, <2>2, <2>3
<1>2. ASSUME NEW g \in Gens PROVE Consistent(gens'[g], book'[g], posts'[g], imported'[g])
  <2>1. Consistent(gens'[g], book[g], posts[g], imported[g]) /\ gens'[g] \in Generations
    BY <1>t, <1>w DEF Writes, GensOK
  <2>2. CASE ~Sends
    BY <2>1, <2>2, ConsistentKept, Effects
  <2>3. CASE Sends
    <3>1. gens' = gens /\ imported' = imported /\ PostReady
      BY <2>3, PostsAreReady DEF Sends
    <3>2. CASE g # latest
      <4>1. book'[g] = book[g] /\ posts'[g] = posts[g]
        BY <1>t, <2>3, <3>2 DEF Sends, Create, NotCreated
      <4>2. QED
        BY <2>1, <3>1, <4>1
    <3>3. CASE g = latest
      <4>1. gens'[g].status \in {"SUBMISSION_PENDING", "REPLACEMENT_PENDING"} /\ ~gens'[g].known
        BY <3>1, <3>3 DEF PostReady
      <4>2. QED
        BY <4>1 DEF Consistent, OPERATOR_PRE_SUBMISSION, NoPostPhases
    <3>4. QED
      BY <3>2, <3>3
  <2>4. QED
    BY <2>2, <2>3
<1>3. QED
  BY <1>1, <1>2 DEF GensOK

-----------------------------------------------------------------------------
(* The pass. *)

ThreadOK == /\ ready \in BOOLEAN /\ failed \in BOOLEAN /\ pc \in Pcs /\ k \in 1..(MaxGen + 1)
            /\ snap \in [Gens -> Obligations] /\ pending \in 0..MaxGen

LEMMA UnreadType == Unread \in [Gens -> Obligations] /\ \A g \in Gens : Unread[g] = Nothing
  BY ProtectionAssumption DEF Unread, Obligation, Obligations, Nothing

\* A step from an open Trade leaves it open, unless it imports.
LEMMA OpenKept ==
    ASSUME IInv, Next, isOpen, pc \notin {"idle", "import"}
    PROVE  isOpen'
  BY Effects DEF Quiet, Match, Sends, Cancels, Imports, trade

LEMMA LeaveStep ==
    ASSUME IInv, NEW p \in Pcs \ {"scan", "decide", "closed"}, Leave(p), p \in OpenPcs => isOpen'
    PROVE  ThreadOK' /\ PassOK'
<1>1. pc' = p /\ k' = 1 /\ snap' = Unread /\ pending' = 0 /\ UNCHANGED <<ready, failed>>
  BY DEF Leave
<1>2. ThreadOK'
  BY <1>1, UnreadType, ProtectionAssumption DEF ThreadOK, IInv, TypeOK
<1>3. PassOK'
  BY <1>1 DEF PassOK
<1>4. QED
  BY <1>2, <1>3

LEMMA FailStep ==
    ASSUME IInv, Fail
    PROVE  ThreadOK' /\ PassOK'
<1>1. pc' = "end" /\ k' = 1 /\ snap' = Unread /\ pending' = 0 /\ failed' = TRUE /\ UNCHANGED ready
  BY DEF Fail
<1>2. ThreadOK'
  BY <1>1, UnreadType, ProtectionAssumption DEF ThreadOK, IInv, TypeOK, Pcs
<1>3. PassOK'
  BY <1>1 DEF PassOK, OpenPcs, PromotionPcs, DustPcs
<1>4. QED
  BY <1>2, <1>3

LEMMA GotoStep ==
    ASSUME IInv, NEW p \in Pcs \ {"scan", "decide", "closed", "idle", "start", "end"}, Goto(p),
           p \in OpenPcs => isOpen'
    PROVE  ThreadOK' /\ PassOK'
<1>1. pc' = p /\ UNCHANGED <<ready, k, snap, pending, failed>>
  BY DEF Goto
<1>2. ThreadOK'
  BY <1>1 DEF ThreadOK, IInv, TypeOK
<1>3. PassOK'
  BY <1>1 DEF PassOK
<1>4. QED
  BY <1>2, <1>3

LEMMA LoopPass ==
    ASSUME IInv, Next,
           \/ ManageOpenOrders \/ StartPass \/ AcknowledgeClosed \/ AcknowledgmentBlocked \/ FinishPass
           \/ RequestOperatorExit \/ Crash \/ Match
    PROVE  ThreadOK' /\ PassOK'
<1>t. /\ ThreadOK /\ PassOK /\ latest \in Gens /\ Gens \subseteq Nat \ {0} /\ isOpen \in BOOLEAN
  BY GensFinite DEF IInv, TypeOK, ThreadOK
<1>1. CASE ManageOpenOrders
  <2>1. pc = "idle" /\ pc' = "start" /\ UNCHANGED <<ready, k, snap, pending, failed>>
    BY <1>1 DEF ManageOpenOrders, Goto
  <2>2. QED
    BY <1>t, <2>1 DEF ThreadOK, PassOK, Pcs, OpenPcs, PromotionPcs, DustPcs
<1>2. CASE StartPass
  <2>1. /\ pc = "start" /\ ready' = FALSE /\ UNCHANGED <<k, snap, pending, failed, isOpen, latest>>
        /\ \/ pc' = "closed" /\ ~isOpen
           \/ pc' = "scan" /\ isOpen
           \/ pc' = "end"
    BY <1>2 DEF StartPass, NeedsAcknowledgment, Listed, store, trade
  <2>2. ThreadOK'
    BY <1>t, <2>1 DEF ThreadOK, Pcs
  <2>3. k = 1 /\ snap = Unread /\ pending = 0 /\ k <= latest
    BY <1>t, <2>1 DEF PassOK
  <2>4. CASE pc' = "closed" /\ ~isOpen
    BY <2>1, <2>2, <2>4 DEF PassOK, OpenPcs, PromotionPcs, DustPcs
  <2>5. CASE pc' = "scan" /\ isOpen
    BY <2>1, <2>2, <2>3, <2>5 DEF PassOK
  <2>6. CASE pc' = "end"
    BY <2>1, <2>2, <2>3, <2>6 DEF PassOK, OpenPcs, PromotionPcs, DustPcs
  <2>7. QED
    BY <2>1, <2>4, <2>5, <2>6
<1>3. CASE AcknowledgeClosed
  BY <1>3, LeaveStep DEF AcknowledgeClosed, EndPass, Pcs, OpenPcs, PromotionPcs, DustPcs
<1>4. CASE AcknowledgmentBlocked
  BY <1>4, FailStep DEF AcknowledgmentBlocked
<1>5. CASE FinishPass
  <2>1. pc = "end" /\ pc' = "idle" /\ ready' = ~failed /\ failed' = FALSE /\ UNCHANGED <<k, snap, pending>>
    BY <1>5 DEF FinishPass
  <2>2. ready' \in BOOLEAN /\ failed' \in BOOLEAN
    BY <2>1, Zenon
  <2>3. ThreadOK'
    BY <1>t, <2>1, <2>2 DEF ThreadOK, Pcs
  <2>4. PassOK'
    BY <1>t, <2>1 DEF PassOK, OpenPcs, PromotionPcs, DustPcs
  <2>5. QED
    BY <2>3, <2>4
<1>6. CASE RequestOperatorExit
  <2>1. pc \in {"idle", "start"} /\ UNCHANGED <<ready, pc, k, snap, pending, failed, isOpen>>
    BY <1>6 DEF RequestOperatorExit, thread, trade
  <2>2. QED
    BY <1>t, <2>1 DEF ThreadOK, PassOK, OpenPcs, PromotionPcs, DustPcs
<1>7. CASE Crash
  <2>1. ready' = FALSE /\ pc' = "idle" /\ k' = 1 /\ snap' = Unread /\ pending' = 0 /\ failed' = FALSE
    BY <1>7 DEF Crash
  <2>0. 1 \in 1..(MaxGen + 1) /\ 0 \in 0..MaxGen /\ "idle" \in Pcs
    BY ProtectionAssumption DEF Pcs
  <2>2. ThreadOK'
    BY <2>0, <2>1, UnreadType, Zenon DEF ThreadOK
  <2>3. PassOK'
    BY <2>1 DEF PassOK, OpenPcs, PromotionPcs, DustPcs
  <2>4. QED
    BY <2>2, <2>3
<1>8. CASE Match
  <2>1. UNCHANGED <<ready, pc, k, snap, pending, failed, isOpen, latest>>
    BY <1>8 DEF Match, thread, trade, store
  <2>2. QED
    BY <1>t, <2>1 DEF ThreadOK, PassOK
<1>9. QED
  BY <1>1, <1>2, <1>3, <1>4, <1>5, <1>6, <1>7, <1>8

LEMMA ScanPass ==
    ASSUME IInv, Next, Scan \/ ReconcileRaises
    PROVE  ThreadOK' /\ PassOK'
<1>t. ThreadOK /\ PassOK /\ latest \in Gens /\ Gens \subseteq Nat \ {0} /\ book \in [Gens -> Obligations]
  BY GensFinite DEF IInv, TypeOK, ThreadOK
<1>1. CASE SkipGeneration \/ ProveAbsent \/ ReadGeneration
  <2>1. /\ pc = "scan" /\ Advance(k) /\ UNCHANGED <<ready, failed, latest>>
        /\ \/ UNCHANGED <<snap, pending>>
           \/ snap' = [snap EXCEPT ![k] = book[k]] /\ pending' \in {pending, k}
    BY <1>1 DEF SkipGeneration, ProveAbsent, ReadGeneration, store
  <2>2. isOpen /\ isOpen'
    BY <1>t, <2>1, OpenKept DEF PassOK, OpenPcs
  <2>3. k \in Gens /\ k <= latest
    BY <1>t, <2>1, ProtectionAssumption DEF PassOK, ThreadOK, Gens
  <2>4. k' = k + 1 /\ pc' = IF k = latest THEN "decide" ELSE "scan"
    BY <2>1 DEF Advance
  <2>5. k + 1 \in 1..(MaxGen + 1) /\ k \in 0..MaxGen /\ (k # latest => k + 1 <= latest)
    BY <1>t, <2>3, ProtectionAssumption DEF Gens
  <2>6. snap' \in [Gens -> Obligations] /\ pending' \in 0..MaxGen
    BY <1>t, <2>1, <2>3, <2>5 DEF ThreadOK
  <2>7. ThreadOK'
    BY <1>t, <2>1, <2>4, <2>5, <2>6 DEF ThreadOK, Pcs
  <2>8. PassOK'
    BY <1>t, <2>1, <2>2, <2>4, <2>5 DEF PassOK
  <2>9. QED
    BY <2>7, <2>8
<1>2. CASE RecoverIds
  <2>1. pc = "scan" /\ UNCHANGED <<ready, pc, k, snap, pending, failed, latest>>
    BY <1>2 DEF RecoverIds, thread
  <2>2. isOpen'
    BY <1>t, <2>1, OpenKept DEF PassOK, OpenPcs
  <2>3. QED
    BY <1>t, <2>1, <2>2 DEF ThreadOK, PassOK
<1>3. CASE ReconcileRaises
  BY <1>3, LeaveStep DEF ReconcileRaises, EndPass, Pcs, OpenPcs, PromotionPcs, DustPcs
<1>4. QED
  BY <1>1, <1>2, <1>3 DEF Scan

LEMMA DecidePass ==
    ASSUME IInv, Next, Decide
    PROVE  ThreadOK' /\ PassOK'
<1>t. ThreadOK /\ PassOK
  BY DEF IInv, TypeOK, ThreadOK
<1>0. pc = "decide" /\ isOpen'
  <2>1. pc = "decide"
    BY DEF Decide, ImportFirst, OperatorCancel, OperatorPrepare, OperatorDust, DustPending,
           MarkProtected, NewGeneration, OperatorVerified, Verified
  <2>2. QED
    BY <1>t, <2>1, OpenKept DEF PassOK, OpenPcs
<1>1. CASE ImportFirst \/ OperatorCancel
  <2>1. PICK p \in {"import", "operator_cancel"} : Goto(p)
    BY <1>1 DEF ImportFirst, OperatorCancel
  <2>2. QED
    BY <1>0, <2>1, GotoStep DEF Pcs
<1>2. CASE OperatorDust
  <2>1. UNCHANGED <<ready, pc, k, snap, pending, failed, latest>>
    BY <1>2 DEF OperatorDust, thread
  <2>2. QED
    BY <1>0, <1>t, <2>1 DEF ThreadOK, PassOK
<1>3. CASE \/ OperatorPrepare \/ DustPending \/ (\E g \in Gens : MarkProtected(g))
           \/ \E mode \in ListModes \cup SingleModes : NewGeneration(mode)
  <2>1. PICK p \in {"post", "dust_prepare", "promote", "ack"} : Leave(p)
    BY <1>3 DEF OperatorPrepare, DustPending, MarkProtected, NewGeneration
  <2>2. QED
    BY <1>0, <2>1, LeaveStep DEF Pcs
<1>4. QED
  BY <1>1, <1>2, <1>3 DEF Decide

LEMMA SubmitPass ==
    ASSUME IInv, Next, Submit
    PROVE  ThreadOK' /\ PassOK'
<1>t. PassOK
  BY DEF IInv
<1>0. isOpen'
  <2>1. pc \in {"operator_cancel", "post", "bind", "verify_new"}
    BY DEF Submit, OperatorCancelAnswered, OperatorCancelUnknown, Post, Bind, VerifyNew
  <2>2. QED
    BY <1>t, <2>1, OpenKept DEF PassOK, OpenPcs
<1>1. CASE OperatorCancelAnswered \/ OperatorCancelUnknown
  <2>1. PICK p \in {"ack", "end"} : Leave(p)
    BY <1>1 DEF OperatorCancelAnswered, OperatorCancelUnknown, EndPass
  <2>2. QED
    BY <1>0, <2>1, LeaveStep DEF Pcs
<1>2. CASE Post \/ Bind \/ VerifyNew
  <2>1. PICK p \in {"bind", "lost", "verify_new", "ack"} : Goto(p)
    BY <1>2 DEF Post, Bind, VerifyNew
  <2>2. QED
    BY <1>0, <2>1, GotoStep DEF Pcs
<1>3. QED
  BY <1>1, <1>2 DEF Submit

LEMMA PromotePass ==
    ASSUME IInv, Next, Promote
    PROVE  ThreadOK' /\ PassOK'
<1>t. ThreadOK /\ PassOK
  BY DEF IInv, TypeOK, ThreadOK
<1>0. isOpen'
  <2>1. pc \in PromotionPcs \cup {"promote"}
    BY DEF Promote, NoPromotion, PromotionIntent, CancelAnswered, CancelUnknown, OldChildUnverified,
           OldFillUnverified, PromotionNotNeeded, ResidualPlanInvalid, ReplacementPending, PromotePost,
           PromoteQueryFinds, PromoteUnknown, PromoteBind, PromotionPcs
  <2>2. QED
    BY <1>t, <2>1, OpenKept DEF PassOK, OpenPcs, PromotionPcs
<1>1. CASE \/ CancelUnknown \/ OldChildUnverified \/ OldFillUnverified \/ PromotionNotNeeded
           \/ ResidualPlanInvalid \/ PromoteUnknown
  <2>1. Leave("end")
    BY <1>1 DEF CancelUnknown, OldChildUnverified, OldFillUnverified, PromotionNotNeeded,
                ResidualPlanInvalid, PromoteUnknown, PromotionStops, EndPass
  <2>2. QED
    BY <1>0, <2>1, LeaveStep DEF Pcs
<1>2. CASE \/ NoPromotion \/ PromotionIntent \/ CancelAnswered \/ ReplacementPending \/ PromotePost
           \/ PromoteQueryFinds
  <2>1. PICK p \in PromotionPcs \cup {"ack"} : Goto(p)
    BY <1>2 DEF NoPromotion, PromotionIntent, CancelAnswered, ReplacementPending, PromotePost,
                PromoteQueryFinds, PromotionPcs
  <2>2. QED
    BY <1>0, <2>1, GotoStep DEF Pcs, PromotionPcs
<1>3. CASE PromoteBind
  <2>1. /\ pc' = "scan" /\ k' = 1 /\ snap' = Unread /\ pending' = 0 /\ UNCHANGED <<ready, failed, latest>>
    BY <1>3 DEF PromoteBind
  <2>2. latest \in Nat \ {0}
    BY GensFinite DEF IInv, TypeOK
  <2>3. QED
    BY <1>0, <1>t, <2>1, <2>2, UnreadType, ProtectionAssumption DEF ThreadOK, PassOK, Pcs
<1>4. QED
  BY <1>1, <1>2, <1>3 DEF Promote

LEMMA SettlePass ==
    ASSUME IInv, Next, Settle
    PROVE  ThreadOK' /\ PassOK'
<1>1. CASE ImportExit
  BY <1>1, LeaveStep DEF ImportExit, Pcs, OpenPcs, PromotionPcs, DustPcs
<1>2. CASE CanonicalFails
  BY <1>2, FailStep DEF CanonicalFails
<1>3. CASE AcknowledgeImport \/ DustRetain
  <2>1. Goto("ack")
    BY <1>3 DEF AcknowledgeImport, DustRetain
  <2>2. QED
    BY <2>1, GotoStep DEF Pcs, OpenPcs, PromotionPcs, DustPcs
<1>4. CASE AcknowledgeCanonical
  BY <1>4, LeaveStep DEF AcknowledgeCanonical, EndPass, Pcs, OpenPcs, PromotionPcs, DustPcs
<1>5. CASE DustPrepare \/ DustAcknowledge
  <2>1. pc \in DustPcs /\ \E p \in DustPcs : Goto(p)
    BY <1>5 DEF DustPrepare, DustAcknowledge, DustPcs
  <2>2. isOpen'
    BY <2>1, OpenKept DEF IInv, PassOK, OpenPcs, DustPcs
  <2>3. QED
    BY <2>1, <2>2, GotoStep DEF Pcs, DustPcs
<1>6. QED
  BY <1>1, <1>2, <1>3, <1>4, <1>5 DEF Settle

LEMMA PassStep ==
    ASSUME IInv, Next
    PROVE  ThreadOK' /\ PassOK'
  BY LoopPass, ScanPass, DecidePass, PromotePass, SubmitPass, SettlePass DEF Next, OwnerStep

-----------------------------------------------------------------------------
(* The labels, and the types. *)

\* The label, the incidents and the dust phase keep their types, and only a closed
\* Trade is labelled EXIT_FILLED.
LabelOK == /\ state' \in Labels /\ incidents' \subseteq Incidents
           /\ dust' \in {"none", "prepared", "retained"} /\ crashes' \in 0..MaxCrashes
           /\ state' = "EXIT_FILLED" => state = "EXIT_FILLED" \/ ~isOpen'

LEMMA LoopLabels ==
    ASSUME IInv,
           \/ ManageOpenOrders \/ StartPass \/ AcknowledgeClosed \/ AcknowledgmentBlocked \/ FinishPass
           \/ RequestOperatorExit \/ Crash \/ Match
    PROVE  LabelOK
<1>t. /\ state \in Labels /\ incidents \subseteq Incidents /\ dust \in {"none", "prepared", "retained"}
      /\ crashes \in 0..MaxCrashes /\ MaxCrashes \in Nat
  BY ProtectionAssumption DEF IInv, TypeOK
<1>1. CASE ManageOpenOrders
  <2>1. UNCHANGED <<state, crashes, dust>>
    BY <1>1 DEF ManageOpenOrders, trade, ImportCommits
  <2>2. incidents' \subseteq Incidents
    BY <1>1, <1>t DEF ManageOpenOrders, Incidents
  <2>3. QED
    BY <1>t, <2>1, <2>2 DEF LabelOK
<1>2. CASE StartPass \/ FinishPass \/ Match
  <2>1. UNCHANGED <<state, incidents, dust, crashes>>
    BY <1>2 DEF StartPass, FinishPass, Match, store, trade
  <2>2. QED
    BY <1>t, <2>1 DEF LabelOK
<1>3. CASE AcknowledgeClosed
  <2>1. state' = "EXIT_FILLED" /\ incidents' = {} /\ UNCHANGED <<dust, isOpen, crashes>> /\ pc = "closed"
    BY <1>3 DEF AcknowledgeClosed, trade
  <2>2. ~isOpen'
    BY <2>1 DEF IInv, PassOK
  <2>3. QED
    BY <1>t, <2>1, <2>2 DEF LabelOK, Labels
<1>4. CASE AcknowledgmentBlocked \/ RequestOperatorExit
  <2>1. /\ UNCHANGED <<dust, crashes>> /\ state' \in {state, "EXIT_PENDING"}
        /\ incidents' \subseteq incidents \cup {"closed-ack", "operator-exit"}
    BY <1>4 DEF AcknowledgmentBlocked, RequestOperatorExit, trade
  <2>2. QED
    BY <1>t, <2>1 DEF LabelOK, Labels, Incidents
<1>5. CASE Crash
  <2>1. UNCHANGED <<state, incidents, dust>> /\ crashes < MaxCrashes /\ crashes' = crashes + 1
    BY <1>5 DEF Crash, store, trade
  <2>2. QED
    BY <1>t, <2>1 DEF LabelOK
<1>6. QED
  BY <1>1, <1>2, <1>3, <1>4, <1>5

LEMMA PassLabels ==
    ASSUME IInv, Scan \/ ReconcileRaises \/ Decide \/ Promote \/ Submit
    PROVE  LabelOK
<1>t. /\ state \in Labels /\ incidents \subseteq Incidents /\ dust \in {"none", "prepared", "retained"}
      /\ crashes \in 0..MaxCrashes
  BY DEF IInv, TypeOK
<1>1. UNCHANGED <<dust, crashes>>
  BY DEF Scan, SkipGeneration, ProveAbsent, RecoverIds, ReadGeneration, ReconcileRaises,
         Decide, ImportFirst, OperatorCancel, OperatorPrepare, OperatorDust, DustPending, MarkProtected,
         NewGeneration, Promote, NoPromotion, PromotionIntent, CancelAnswered, CancelUnknown,
         OldChildUnverified, OldFillUnverified, PromotionNotNeeded, ResidualPlanInvalid,
         ReplacementPending, PromotePost, PromoteQueryFinds, PromoteUnknown, PromoteBind, PromotionStops,
         Submit, OperatorCancelAnswered, OperatorCancelUnknown, Post, Bind, VerifyNew, trade
<1>2. \/ UNCHANGED <<state, incidents>>
      \/ Block
      \/ VerifiedOpen
      \/ state' = "EXIT_PENDING" /\ UNCHANGED incidents
  BY DEF Scan, SkipGeneration, ProveAbsent, RecoverIds, ReadGeneration, ReconcileRaises,
         Decide, ImportFirst, OperatorCancel, OperatorPrepare, OperatorDust, DustPending, MarkProtected,
         NewGeneration, Promote, NoPromotion, PromotionIntent, CancelAnswered, CancelUnknown,
         OldChildUnverified, OldFillUnverified, PromotionNotNeeded, ResidualPlanInvalid,
         ReplacementPending, PromotePost, PromoteQueryFinds, PromoteUnknown, PromoteBind, PromotionStops,
         Submit, OperatorCancelAnswered, OperatorCancelUnknown, Post, Bind, VerifyNew, store
<1>3. QED
  BY <1>t, <1>1, <1>2 DEF LabelOK, Labels, Incidents, Block, VerifiedOpen

LEMMA SettleLabels ==
    ASSUME IInv, Settle
    PROVE  LabelOK
<1>t. /\ state \in Labels /\ incidents \subseteq Incidents /\ dust \in {"none", "prepared", "retained"}
      /\ crashes \in 0..MaxCrashes
  BY DEF IInv, TypeOK
<1>1. CASE ImportExit \/ CanonicalFails \/ AcknowledgeCanonical
  <2>1. UNCHANGED <<state, dust, crashes>>
    BY <1>1 DEF ImportExit, CanonicalFails, AcknowledgeCanonical, ImportCommits, store, trade
  <2>2. incidents' \subseteq Incidents
    BY <1>1, <1>t DEF ImportExit, CanonicalFails, AcknowledgeCanonical, Incidents, store
  <2>3. QED
    BY <1>t, <2>1, <2>2 DEF LabelOK
<1>2. CASE AcknowledgeImport
  <2>1. /\ UNCHANGED <<dust, isOpen, crashes>> /\ incidents' \subseteq incidents
        /\ UNCHANGED state \/ (~isOpen /\ state' = "EXIT_FILLED")
    BY <1>2 DEF AcknowledgeImport, trade
  <2>2. QED
    BY <1>t, <2>1 DEF LabelOK, Labels
<1>3. CASE DustPrepare \/ DustAcknowledge \/ DustRetain
  <2>1. /\ dust' \in {dust, "prepared", "retained"} /\ UNCHANGED crashes /\ incidents' \subseteq incidents
        /\ state' \in {state, "DUST_RETAINED"}
    BY <1>3 DEF DustPrepare, DustAcknowledge, DustRetain, store, trade
  <2>2. QED
    BY <1>t, <2>1 DEF LabelOK, Labels
<1>4. QED
  BY <1>1, <1>2, <1>3 DEF Settle

LEMMA LabelStep ==
    ASSUME IInv, Next
    PROVE  LabelOK
  BY LoopLabels, PassLabels, SettleLabels DEF Next, OwnerStep

\* Every step keeps the types.
LEMMA TypeStep ==
    ASSUME IInv, Next
    PROVE  TypeOK'
  BY TypeExchange, TypeTrade, WritesStep, PassStep, LabelStep DEF TypeOK, Writes, ThreadOK, LabelOK

\* Rows that do not change leave the Trade's amount.
LEMMA CanonicalKept ==
    ASSUME UNCHANGED imported
    PROVE  canonical' = canonical
<1>1. ImportedQty' = ImportedQty
  BY DEF ImportedQty
<1>2. QED
  BY <1>1, Zenon DEF canonical, Total

\* The Trade is closed exactly when it is settled.
LEMMA TradeStep ==
    ASSUME IInv, Next
    PROVE  TradeOK'
<1>t. TradeOK /\ book \in [Gens -> Obligations] /\ isOpen \in BOOLEAN
  BY DEF IInv, TypeOK
<1>1. CASE ~Imports
  <2>1. UNCHANGED <<imported, isOpen>>
    BY <1>1, Effects DEF Quiet, Match, Sends, Cancels, trade
  <2>2. canonical' = canonical
    BY <2>1, CanonicalKept
  <2>3. isOpen' = ~(canonical' = 0 /\ \A h \in Gens : ~imported'[h].open)
    BY <1>t, <2>1, <2>2, Zenon DEF TradeOK
  <2>4. ~isOpen' => OpenOrders' = {}
    <3>1. SUFFICES ASSUME ~isOpen PROVE OpenOrders' = {}
      BY <2>1
    <3>2. \A g \in Gens : book[g].st \notin Resting
      BY <1>t, <3>1 DEF TradeOK, OpenOrders
    <3>3. ~Sends
      BY <3>1 DEF Sends, IInv, PassOK, OpenPcs, PromotionPcs
    <3>4. ~Match
      BY <3>2 DEF Match, Trigger, Expire, Fill, Resting
    <3>5. \A g \in Gens : book'[g] = book[g]
      BY <1>1, <1>t, <3>2, <3>3, <3>4, Effects DEF Quiet, Cancels, Delete
    <3>6. QED
      BY <3>2, <3>5 DEF OpenOrders
  <2>5. state' = "EXIT_FILLED" => ~isOpen'
    BY <1>t, <2>1, LabelStep DEF LabelOK, TradeOK
  <2>6. QED
    BY <2>3, <2>4, <2>5, Zenon DEF TradeOK
<1>2. CASE Imports
  <2>1. PICK g \in Gens : ImportOf(g)
    BY <1>2, ImportFacts
  <2>2. isOpen' = ~(canonical' = 0 /\ \A h \in Gens : ~imported'[h].open)
    BY <2>1, Zenon DEF ImportOf
  <2>3. ~isOpen' => OpenOrders' = {}
    BY <2>1 DEF ImportOf, OpenOrders
  <2>4. state' = "EXIT_FILLED" => ~isOpen'
    BY <1>t, <2>1 DEF ImportOf, TradeOK
  <2>5. QED
    BY <2>2, <2>3, <2>4, Zenon DEF TradeOK
<1>3. QED
  BY <1>1, <1>2

-----------------------------------------------------------------------------
(* What the pass has read. *)

ReadPcs == {"scan", "decide", "operator_cancel", "import"}

\* A scan begins.
Begins == pc' = "scan" /\ k' = 1 /\ snap' = Unread /\ pending' = 0

\* What was read stays, in the same place of the pass or on the way to its use.
Keeps == /\ UNCHANGED <<k, snap, pending>> /\ pc \in ReadPcs
         /\ \/ pc' = pc
            \/ pc = "decide" /\ pc' = "operator_cancel"
            \/ pc = "decide" /\ pc' = "import" /\ pending # 0

\* The scan passes a generation without reading it, or reads it.
Passes == /\ pc = "scan" /\ k \in Gens /\ Quiet /\ k' = k + 1 /\ pc' \in {"scan", "decide"}
          /\ UNCHANGED <<snap, pending>> /\ Settled(k)

Reads == /\ pc = "scan" /\ k \in Gens /\ Quiet /\ k' = k + 1 /\ pc' \in {"scan", "decide"}
         /\ book[k].st # "none" /\ snap' = [snap EXCEPT ![k] = book[k]]
         /\ pending' = IF pending = 0 /\ book[k].sold > 0 /\ ~Applied(k) THEN k ELSE pending

\* The steps after which what was read is still to be used.
LEMMA ReadSteps ==
    ASSUME IInv, Next, pc' \in ReadPcs
    PROVE  \/ Begins
           \/ Keeps /\ (Quiet \/ Match)
           \/ Passes
           \/ Reads
<1>1. CASE \/ ManageOpenOrders \/ AcknowledgeClosed \/ AcknowledgmentBlocked \/ FinishPass \/ Crash
  BY <1>1 DEF ManageOpenOrders, AcknowledgeClosed, AcknowledgmentBlocked, FinishPass, Crash, Goto,
              EndPass, Leave, Fail, ReadPcs
<1>2. CASE StartPass
  <2>1. pc = "start" /\ UNCHANGED <<k, snap, pending>> /\ pc' \in {"closed", "scan", "end"}
    BY <1>2 DEF StartPass
  <2>2. k = 1 /\ snap = Unread /\ pending = 0
    BY <2>1 DEF IInv, PassOK
  <2>3. QED
    BY <2>1, <2>2 DEF Begins, ReadPcs
<1>3. CASE RequestOperatorExit
  BY <1>3 DEF RequestOperatorExit, thread, ReadPcs
<1>4. CASE Match
  BY <1>4 DEF Match, thread, Keeps
<1>5. CASE Scan
  <2>0. Quiet
    BY <1>5, PassEffects
  <2>1. pc = "scan" /\ k \in Gens /\ latest \in Gens
    <3>1. pc = "scan"
      BY <1>5 DEF Scan, SkipGeneration, ProveAbsent, RecoverIds, ReadGeneration
    <3>2. k <= latest /\ k \in 1..(MaxGen + 1) /\ latest \in 1..MaxGen
      BY <3>1 DEF IInv, PassOK, TypeOK, Gens
    <3>3. QED
      BY <3>1, <3>2, ProtectionAssumption DEF Gens
  <2>2. CASE SkipGeneration
    <3>1. Settled(k)
      BY <2>1, <2>2, SkippedSettled DEF SkipGeneration
    <3>2. QED
      BY <2>0, <2>1, <2>2, <3>1 DEF SkipGeneration, Advance, Passes
  <2>3. CASE ProveAbsent
    <3>1. Settled(k)
      BY <2>1, <2>3, NothingSettled DEF ProveAbsent, AbsenceProven
    <3>2. QED
      BY <2>0, <2>1, <2>3, <3>1 DEF ProveAbsent, Advance, Passes
  <2>4. CASE RecoverIds
    BY <2>0, <2>1, <2>4 DEF RecoverIds, thread, Keeps, ReadPcs
  <2>5. CASE ReadGeneration
    <3>1. book[k].st # "none"
      BY <2>1, <2>5 DEF ReadGeneration, IInv, GensOK, Consistent
    <3>2. /\ k' = k + 1 /\ pc' \in {"scan", "decide"}
          /\ snap' = [snap EXCEPT ![k] = book[k]]
          /\ pending' = IF pending = 0 /\ book[k].sold > 0 /\ ~Applied(k) THEN k ELSE pending
      BY <2>5 DEF ReadGeneration, Advance
    <3>3. QED
      BY <2>0, <2>1, <3>1, <3>2 DEF Reads
  <2>6. QED
    BY <1>5, <2>2, <2>3, <2>4, <2>5 DEF Scan
<1>6. CASE ReconcileRaises
  BY <1>6 DEF ReconcileRaises, EndPass, Leave, ReadPcs
<1>7. CASE Decide
  <2>0. Quiet
    BY <1>7, PassEffects
  <2>1. CASE ImportFirst \/ OperatorCancel \/ OperatorDust
    BY <2>0, <2>1 DEF ImportFirst, OperatorCancel, OperatorDust, OperatorVerified, Verified, Goto, thread,
                      Keeps, ReadPcs
  <2>2. CASE \/ OperatorPrepare \/ DustPending \/ (\E g \in Gens : MarkProtected(g))
             \/ \E mode \in ListModes \cup SingleModes : NewGeneration(mode)
    BY <2>2 DEF OperatorPrepare, DustPending, MarkProtected, NewGeneration, Leave, ReadPcs
  <2>3. QED
    BY <1>7, <2>1, <2>2 DEF Decide
<1>8. CASE Promote
  <2>1. CASE PromoteBind
    BY <2>1 DEF PromoteBind, Begins
  <2>2. CASE ~PromoteBind
    BY <1>8, <2>2 DEF Promote, NoPromotion, PromotionIntent, CancelAnswered, CancelUnknown,
         OldChildUnverified, OldFillUnverified, PromotionNotNeeded, ResidualPlanInvalid,
         ReplacementPending, PromotePost, PromoteQueryFinds, PromoteUnknown, PromotionStops, Goto,
         EndPass, Leave, ReadPcs
  <2>3. QED
    BY <2>1, <2>2
<1>9. CASE Submit
  BY <1>9 DEF Submit, OperatorCancelAnswered, OperatorCancelUnknown, Post, Bind, VerifyNew, Goto, EndPass,
              Leave, ReadPcs
<1>10. CASE Settle
  BY <1>10 DEF Settle, ImportExit, CanonicalFails, AcknowledgeImport, AcknowledgeCanonical, DustPrepare,
               DustAcknowledge, DustRetain, Goto, EndPass, Leave, Fail, ReadPcs
<1>11. QED
  BY <1>1, <1>2, <1>3, <1>4, <1>5, <1>6, <1>7, <1>8, <1>9, <1>10 DEF Next, OwnerStep

\* The market moves only what rests, and ends it as "done".
LEMMA MatchMoves ==
    ASSUME IInv, Quiet \/ Match, NEW g \in Gens
    PROVE  /\ book'[g].sold >= book[g].sold
           /\ book[g].st \notin Resting => book'[g] = book[g]
           /\ book[g].st \in Resting => book'[g].st \in Resting \cup {"done"}
           /\ UNCHANGED imported
<1>t. book \in [Gens -> Obligations] /\ BookOK /\ Amount \in Nat
  BY ProtectionAssumption DEF IInv, TypeOK
<1>1. CASE Quiet
  BY <1>t, <1>1 DEF Quiet, Obligations
<1>2. CASE Match
  <2>0. UNCHANGED imported
    BY <1>2 DEF Match, trade
  <2>1. ASSUME NEW h \in Gens, Trigger(h) \/ Expire(h)
        PROVE  /\ book'[g].sold >= book[g].sold
               /\ book[g].st \notin Resting => book'[g] = book[g]
               /\ book[g].st \in Resting => book'[g].st \in Resting \cup {"done"}
    BY <1>t, <2>1 DEF Trigger, Expire, Obligation, Obligations, Resting, BookOK
  <2>2. ASSUME NEW h \in Gens, NEW q \in 1..Amount, Fill(h, q)
        PROVE  /\ book'[g].sold >= book[g].sold
               /\ book[g].st \notin Resting => book'[g] = book[g]
               /\ book[g].st \in Resting => book'[g].st \in Resting \cup {"done"}
    BY <1>t, <2>2 DEF Fill, Obligation, Obligations, Resting
  <2>3. QED
    BY <1>2, <2>0, <2>1, <2>2 DEF Match
<1>3. QED
  BY <1>1, <1>2

\* What ended stays as it was read.
LEMMA SnapStep ==
    ASSUME IInv, Next
    PROVE  SnapOK'
<1>1. SUFFICES ASSUME pc' \in ReadPcs, NEW g \in Gens
               PROVE  /\ snap'[g].st # "none" => snap'[g].sold <= book'[g].sold
                      /\ snap'[g].st \in Ended => snap'[g] = book'[g]
                      /\ snap'[g].st \in Resting => /\ book'[g].st \in Resting \cup {"done"}
                                                    /\ \A h \in Gens : h > g => book'[h].st = "none"
  BY DEF SnapOK, ReadPcs
<1>t. /\ book \in [Gens -> Obligations] /\ snap \in [Gens -> Obligations] /\ BookOK /\ Amount \in Nat
  BY ProtectionAssumption DEF IInv, TypeOK
<1>r. pc \in ReadPcs =>
         /\ snap[g].st # "none" => snap[g].sold <= book[g].sold
         /\ snap[g].st \in Ended => snap[g] = book[g]
         /\ snap[g].st \in Resting => /\ book[g].st \in Resting \cup {"done"}
                                      /\ \A h \in Gens : h > g => book[h].st = "none"
  BY DEF IInv, SnapOK, ReadPcs
<1>2. CASE Begins
  <2>1. snap'[g] = Nothing
    BY <1>2, UnreadType DEF Begins
  <2>2. QED
    BY <2>1 DEF Nothing, Obligation, Resting, Ended
<1>3. CASE Keeps /\ (Quiet \/ Match)
  <2>1. snap'[g] = snap[g] /\ pc \in ReadPcs
    BY <1>3 DEF Keeps
  <2>2. /\ book'[g].sold >= book[g].sold
        /\ book[g].st \notin Resting => book'[g] = book[g]
        /\ book[g].st \in Resting => book'[g].st \in Resting \cup {"done"}
        /\ book'[g] \in Obligations
    BY <1>3, MatchMoves, TypeExchange
  <2>3. \A h \in Gens : book[h].st = "none" => book'[h].st = "none"
    BY <1>3, MatchMoves DEF Resting
  <2>4. snap'[g].st # "none" => snap'[g].sold <= book'[g].sold
    BY <1>r, <1>t, <2>1, <2>2 DEF Obligations
  <2>5. snap'[g].st \in Ended => snap'[g] = book'[g]
    BY <1>r, <2>1, <2>2 DEF Resting, Ended
  <2>6. snap'[g].st \in Resting => /\ book'[g].st \in Resting \cup {"done"}
                                   /\ \A h \in Gens : h > g => book'[h].st = "none"
    BY <1>r, <2>1, <2>2, <2>3 DEF Resting
  <2>7. QED
    BY <2>4, <2>5, <2>6
<1>4. CASE Passes
  BY <1>4, <1>r DEF Passes, Quiet, ReadPcs
<1>5. CASE Reads
  <2>1. book' = book /\ snap'[g] = IF g = k THEN book[k] ELSE snap[g]
    BY <1>5, <1>t DEF Reads, Quiet
  <2>2. pc \in ReadPcs
    BY <1>5 DEF Reads, ReadPcs
  <2>3. CASE g = k
    BY <1>t, <2>1, <2>3 DEF BookOK, Obligations, Resting, Ended
  <2>4. CASE g # k
    BY <1>r, <2>1, <2>2, <2>4
  <2>5. QED
    BY <2>3, <2>4
<1>6. QED
  BY <1>1, <1>2, <1>3, <1>4, <1>5, ReadSteps

\* The scan leaves nothing behind it that is neither settled nor read.
LEMMA ScanStep ==
    ASSUME IInv, Next
    PROVE  ScanOK'
<1> DEFINE ScanPcs == {"scan", "decide", "import"}
<1>1. SUFFICES ASSUME pc' \in ScanPcs
               PROVE  /\ \A g \in Gens : g < k' => snap'[g].st # "none" \/ Settled(g)'
                      /\ pending' = 0 =>
                            /\ pc' # "import"
                            /\ \A g \in Gens : snap'[g].st # "none" /\ snap'[g].sold > 0
                                  => ~imported'[g].open /\ imported'[g].qty >= snap'[g].sold
                      /\ pending' # 0 =>
                            /\ snap'[pending'].st # "none" /\ snap'[pending'].sold > 0
                            /\ imported'[pending'].open \/ imported'[pending'].qty < snap'[pending'].sold
  BY DEF ScanOK
<1>t. /\ book \in [Gens -> Obligations] /\ snap \in [Gens -> Obligations] /\ BookOK /\ Amount \in Nat
      /\ Gens \subseteq Nat \ {0} /\ k \in Nat /\ imported \in [Gens -> [qty : 0..Amount, open : BOOLEAN]]
      /\ pending = 0 \/ pending \in Gens
  BY ProtectionAssumption, GensFinite DEF IInv, TypeOK, Gens
<1>r. pc \in ScanPcs =>
         /\ \A g \in Gens : g < k => snap[g].st # "none" \/ Settled(g)
         /\ pending = 0 =>
               /\ pc # "import"
               /\ \A g \in Gens : snap[g].st # "none" /\ snap[g].sold > 0
                     => ~imported[g].open /\ imported[g].qty >= snap[g].sold
         /\ pending # 0 =>
               /\ snap[pending].st # "none" /\ snap[pending].sold > 0
               /\ imported[pending].open \/ imported[pending].qty < snap[pending].sold
  BY DEF IInv, ScanOK
<1>2. CASE Begins
  <2>1. /\ \A g \in Gens : snap'[g].st = "none" /\ ~(g < k')
        /\ pending' = 0 /\ pc' # "import"
    BY <1>2, <1>t, UnreadType DEF Begins, Nothing, Obligation
  <2>2. QED
    BY <2>1
<1>3. CASE Keeps /\ (Quiet \/ Match)
  <2>1. /\ UNCHANGED <<k, snap, pending>> /\ pc \in ScanPcs
        /\ pc' = pc \/ pending # 0
    BY <1>1, <1>3 DEF Keeps
  <2>2. imported' = imported
    BY <1>3 DEF Quiet, Match, trade
  <2>3. ASSUME NEW g \in Gens, Settled(g) PROVE Settled(g)'
    <3>1. book'[g] = book[g]
      BY <1>3, <2>3, MatchMoves DEF Settled, Settles
    <3>2. QED
      BY <2>2, <2>3, <3>1 DEF Settled, Settles
  <2>4. QED
    BY <1>r, <2>1, <2>2, <2>3
<1>4. CASE Passes
  <2>1. /\ UNCHANGED <<snap, pending, imported, book>> /\ k' = k + 1 /\ Settled(k) /\ k \in Gens
        /\ pc \in ScanPcs /\ pc' # "import"
    BY <1>4 DEF Passes, Quiet
  <2>2. \A g \in Gens : Settled(g) => Settled(g)'
    BY <2>1 DEF Settled, Settles
  <2>3. \A g \in Gens : g < k' => snap'[g].st # "none" \/ Settled(g)'
    <3>1. SUFFICES ASSUME NEW g \in Gens, g < k' PROVE snap[g].st # "none" \/ Settled(g)
      BY <2>1, <2>2
    <3>2. g < k \/ g = k
      BY <1>t, <2>1, <3>1
    <3>3. QED
      BY <1>r, <2>1, <3>2
  <2>4. QED
    BY <1>r, <2>1, <2>3
<1>5. CASE Reads
  <2>1. /\ UNCHANGED <<imported, book>> /\ k' = k + 1 /\ k \in Gens /\ pc \in ScanPcs /\ pc' # "import"
        /\ pc \in ReadPcs /\ book[k].st # "none"
    BY <1>5 DEF Reads, Quiet, ReadPcs
  <2>2. \A g \in Gens : snap'[g] = IF g = k THEN book[k] ELSE snap[g]
    BY <1>5, <1>t DEF Reads
  <2>3. \A g \in Gens : Settled(g) => Settled(g)'
    BY <2>1 DEF Settled, Settles
  <2>4. \A g \in Gens : g < k' => snap'[g].st # "none" \/ Settled(g)'
    <3>1. SUFFICES ASSUME NEW g \in Gens, g < k' PROVE snap'[g].st # "none" \/ Settled(g)
      BY <2>1, <2>3
    <3>2. g < k \/ g = k
      BY <1>t, <2>1, <3>1
    <3>3. CASE g = k
      BY <2>1, <2>2, <3>3
    <3>4. CASE g # k
      BY <1>r, <2>1, <2>2, <3>2, <3>4
    <3>5. QED
      BY <3>3, <3>4
  <2>5. CASE pending = 0 /\ book[k].sold > 0 /\ ~Applied(k)
    <3>1. pending' = k /\ k # 0
      BY <1>5, <1>t, <2>1, <2>5 DEF Reads
    <3>2. /\ snap'[k].st # "none" /\ snap'[k].sold > 0
          /\ imported'[k].open \/ imported'[k].qty < snap'[k].sold
      BY <1>t, <2>1, <2>2, <2>5 DEF Applied, Obligations
    <3>3. QED
      BY <2>4, <3>1, <3>2
  <2>6. CASE pending = 0 /\ (book[k].sold > 0 => Applied(k))
    <3>1. pending' = 0
      BY <1>5, <2>6 DEF Reads
    <3>2. ASSUME NEW g \in Gens, snap'[g].st # "none", snap'[g].sold > 0
          PROVE  ~imported'[g].open /\ imported'[g].qty >= snap'[g].sold
      <4>1. CASE g = k
        BY <2>1, <2>2, <2>6, <3>2, <4>1 DEF Applied
      <4>2. CASE g # k
        BY <1>r, <2>1, <2>2, <2>6, <3>2, <4>2
      <4>3. QED
        BY <4>1, <4>2
    <3>3. QED
      BY <2>1, <2>4, <3>1, <3>2
  <2>7. CASE pending # 0
    <3>1. pending' = pending /\ pending \in Gens
      BY <1>5, <1>t, <2>7 DEF Reads
    <3>2. /\ snap[pending].st # "none" /\ snap[pending].sold > 0
          /\ imported[pending].open \/ imported[pending].qty < snap[pending].sold
      BY <1>r, <2>1, <2>7
    <3>3. snap[pending].sold <= book[pending].sold
      BY <2>1, <3>1, <3>2 DEF IInv, SnapOK, ReadPcs
    <3>4. snap'[pending] \in {snap[pending], book[pending]} /\ snap'[pending].st # "none"
      BY <2>1, <2>2, <3>1, <3>2
    <3>5. snap'[pending].sold >= snap[pending].sold /\ snap'[pending].sold \in Nat
      BY <1>t, <3>1, <3>3, <3>4 DEF Obligations
    <3>6. snap'[pending].sold > 0 /\ (imported[pending].open \/ imported[pending].qty < snap'[pending].sold)
      BY <1>t, <3>1, <3>2, <3>5 DEF Obligations
    <3>7. QED
      BY <2>1, <2>4, <2>7, <3>1, <3>4, <3>6
  <2>8. QED
    BY <2>5, <2>6, <2>7
<1>6. QED
  BY <1>1, <1>2, <1>3, <1>4, <1>5, ReadSteps DEF ReadPcs

-----------------------------------------------------------------------------
(* Submissions. *)

\* An unchanged exchange has sold what it had sold.
LEMMA SoldKept ==
    ASSUME UNCHANGED book
    PROVE  Total(SoldQty)' = Total(SoldQty) /\ OpenOrders' = OpenOrders
<1>1. SoldQty' = SoldQty
  BY DEF SoldQty
<1>2. Total(SoldQty)' = Total(SoldQty)
  BY <1>1, Zenon DEF Total
<1>3. QED
  BY <1>2 DEF OpenOrders

\* Where a submission begins, and where it stands after a step.
LEMMA PostSteps ==
    ASSUME IInv, Next, pc' \in {"post", "bind", "verify_new"}
    PROVE  \/ Match /\ pc' = pc
           \/ pc' = "post" /\ OperatorPrepare
           \/ pc' = "post" /\ \E mode \in ListModes \cup SingleModes : NewGeneration(mode)
           \/ pc' = "bind" /\ pc = "post" /\ Create(latest) /\ UNCHANGED latest
           \/ pc' = "verify_new" /\ pc = "bind" /\ UNCHANGED <<book, latest>>
<1>1. CASE \/ ManageOpenOrders \/ StartPass \/ AcknowledgeClosed \/ AcknowledgmentBlocked \/ FinishPass
           \/ Crash \/ RequestOperatorExit
  BY <1>1 DEF ManageOpenOrders, StartPass, AcknowledgeClosed, AcknowledgmentBlocked, FinishPass, Crash,
              RequestOperatorExit, Goto, EndPass, Leave, Fail, thread
<1>2. CASE Match
  BY <1>2 DEF Match, thread
<1>3. CASE Scan \/ ReconcileRaises
  BY <1>3 DEF Scan, SkipGeneration, ProveAbsent, RecoverIds, ReadGeneration, Advance, ReconcileRaises,
              EndPass, Leave, thread
<1>4. CASE Decide
  <2>1. CASE OperatorPrepare
    BY <2>1 DEF OperatorPrepare, Leave
  <2>2. ASSUME NEW mode \in ListModes \cup SingleModes, NewGeneration(mode)
        PROVE  pc' = "post"
    BY <2>2 DEF NewGeneration, Leave
  <2>3. CASE ImportFirst \/ OperatorCancel \/ OperatorDust \/ DustPending \/ \E g \in Gens : MarkProtected(g)
    BY <2>3 DEF ImportFirst, OperatorCancel, OperatorDust, DustPending, MarkProtected, Verified,
                Goto, Leave, thread
  <2>4. QED
    BY <1>4, <2>1, <2>2, <2>3 DEF Decide
<1>5. CASE Promote
  BY <1>5 DEF Promote, NoPromotion, PromotionIntent, CancelAnswered, CancelUnknown,
       OldChildUnverified, OldFillUnverified, PromotionNotNeeded, ResidualPlanInvalid,
       ReplacementPending, PromotePost, PromoteQueryFinds, PromoteUnknown, PromoteBind, PromotionStops,
       Goto, EndPass, Leave
<1>6. CASE Submit
  BY <1>6 DEF Submit, OperatorCancelAnswered, OperatorCancelUnknown, Post, Bind, VerifyNew, Goto, EndPass,
              Leave, store, exchange
<1>7. CASE Settle
  BY <1>7 DEF Settle, ImportExit, CanonicalFails, AcknowledgeImport, AcknowledgeCanonical, DustPrepare,
              DustAcknowledge, DustRetain, Goto, EndPass, Leave, Fail
<1>8. QED
  BY <1>1, <1>2, <1>3, <1>4, <1>5, <1>6, <1>7 DEF Next, OwnerStep

\* The row of a settled generation.
LEMMA SettledRow ==
    ASSUME NEW g \in Gens, Settled(g)
    PROVE  ~imported[g].open /\ imported[g].qty = book[g].sold
<1>1. imported[g] = SellRow(book[g].sold, FALSE)
  BY Zenon DEF Settled, Settles
<1>2. imported[g].open = FALSE /\ imported[g].qty = book[g].sold
  BY <1>1 DEF SellRow
<1>3. QED
  BY <1>2, Zenon

\* A decision that posts finds everything that was sold in the Trade.
LEMMA DecisionTotals ==
    ASSUME IInv, Verified, active_histories = {}
    PROVE  canonical = Amount - Total(SoldQty)
<1>1. \A g \in Gens : imported[g].qty = book[g].sold
  BY DecisionSettled, SettledRow
<1>2. QED
  BY <1>1, TotalsSettled DEF IInv, canonical

\* A POST is only due when nothing rests and its quantity is not sold.
LEMMA PostStep ==
    ASSUME IInv, Next
    PROVE  PostOK'
<1>t. /\ gens \in [Gens -> Generations] /\ latest \in Gens /\ Gens \subseteq Nat \ {0} /\ GensOK
      /\ book \in [Gens -> Obligations] /\ posts \in [Gens -> Nat] /\ BookOK /\ PostOK
  BY GensFinite DEF IInv, TypeOK
<1>1. CASE pc' \notin {"post", "bind", "verify_new"}
  BY <1>1 DEF PostOK
<1>2. CASE Match /\ pc' = pc
  <2>1. UNCHANGED <<gens, latest, posts>>
    BY <1>2 DEF Match, store
  <2>2. CASE pc = "post"
    <3>1. OpenOrders = {}
      BY <1>t, <2>2 DEF PostOK
    <3>2. QED
      BY <1>2, <3>1 DEF Match, Trigger, Expire, Fill, OpenOrders, Resting
  <2>3. CASE pc \in {"bind", "verify_new"}
    <3>1. book[latest].st \in Resting \cup {"done"}
      BY <1>t, <2>3 DEF PostOK
    <3>2. book'[latest].st \in Resting \cup {"done"}
      BY <1>2, <1>t, <3>1, MatchMoves
    <3>3. QED
      BY <1>2, <2>1, <2>3, <3>2 DEF PostOK
  <2>4. CASE pc \notin {"post", "bind", "verify_new"}
    BY <1>2, <2>4 DEF PostOK
  <2>5. QED
    BY <2>2, <2>3, <2>4
<1>3. CASE pc' = "post" /\ OperatorPrepare
  <2>1. /\ Verified /\ OperatorRequest /\ active_histories = {} /\ OpenOrders = {}
        /\ gens' = [gens EXCEPT ![latest] = Gen("OPERATOR_EXIT", "SUBMISSION_PENDING", FALSE, canonical)]
        /\ UNCHANGED <<latest, book, posts>>
    BY <1>3 DEF OperatorPrepare, OperatorVerified, exchange
  <2>2. /\ gens'[latest].status = "SUBMISSION_PENDING" /\ ~gens'[latest].known
        /\ gens'[latest].qty = canonical
    BY <1>t, <2>1 DEF Gen
  <2>3. posts[latest] = 0 /\ book[latest].st = "none"
    BY <1>t, <2>1 DEF OperatorRequest, GensOK, Consistent
  <2>4. Total(SoldQty)' = Total(SoldQty) /\ OpenOrders' = OpenOrders
    BY <2>1, SoldKept
  <2>5. canonical = Amount - Total(SoldQty) /\ canonical \in 0..Amount
    BY <2>1, DecisionTotals, QuantityTypes
  <2>6. gens'[latest].qty <= Amount - Total(SoldQty)'
    BY <2>2, <2>4, <2>5, ProtectionAssumption
  <2>7. QED
    BY <1>3, <2>1, <2>2, <2>3, <2>4, <2>6 DEF PostOK
<1>4. ASSUME NEW mode \in ListModes \cup SingleModes, pc' = "post", NewGeneration(mode) PROVE PostOK'
  <2>1. /\ Verified /\ active_histories = {} /\ OpenOrders = {} /\ latest < MaxGen
        /\ gens' = [gens EXCEPT ![latest + 1] = Gen(mode, "SUBMISSION_PENDING", FALSE, RecoveryQuantity)]
        /\ latest' = latest + 1 /\ UNCHANGED <<book, posts>>
    BY <1>4 DEF NewGeneration, exchange
  <2>2. latest + 1 \in Gens /\ latest + 1 > latest
    BY <1>t, <2>1, ProtectionAssumption DEF Gens
  <2>3. /\ gens'[latest'].status = "SUBMISSION_PENDING" /\ ~gens'[latest'].known
        /\ gens'[latest'].qty = RecoveryQuantity
    BY <1>t, <2>1, <2>2 DEF Gen
  <2>4. posts[latest + 1] = 0 /\ book[latest + 1].st = "none"
    BY <1>t, <2>2 DEF GensOK, Nothing, Obligation
  <2>5. Total(SoldQty)' = Total(SoldQty) /\ OpenOrders' = OpenOrders
    BY <2>1, SoldKept
  <2>6. /\ canonical = Amount - Total(SoldQty) /\ canonical \in 0..Amount
        /\ RecoveryQuantity \in 0..Amount /\ RecoveryQuantity <= canonical
    BY <2>1, DecisionTotals, QuantityTypes
  <2>7. gens'[latest'].qty <= Amount - Total(SoldQty)'
    BY <2>3, <2>5, <2>6, ProtectionAssumption
  <2>8. QED
    BY <1>4, <2>1, <2>3, <2>4, <2>5, <2>7 DEF PostOK
<1>5. CASE pc' = "bind" /\ pc = "post" /\ Create(latest) /\ UNCHANGED latest
  <2>1. book'[latest].st \in Resting
    BY <1>5, <1>t DEF Create, Obligation, Resting
  <2>2. QED
    BY <1>5, <2>1 DEF PostOK
<1>6. CASE pc' = "verify_new" /\ pc = "bind" /\ UNCHANGED <<book, latest>>
  BY <1>6, <1>t DEF PostOK
<1>7. QED
  BY <1>1, <1>2, <1>3, <1>4, <1>5, <1>6, PostSteps

\* Where a promotion begins, and where it stands after a step.
LEMMA PromotionSteps ==
    ASSUME IInv, Next, pc' \in PromotionPcs
    PROVE  \/ Match /\ pc' = pc
           \/ PromotionIntent \/ CancelAnswered \/ ReplacementPending \/ PromotePost \/ PromoteQueryFinds
<1>1. CASE \/ ManageOpenOrders \/ StartPass \/ AcknowledgeClosed \/ AcknowledgmentBlocked \/ FinishPass
           \/ Crash \/ RequestOperatorExit
  BY <1>1 DEF ManageOpenOrders, StartPass, AcknowledgeClosed, AcknowledgmentBlocked, FinishPass, Crash,
              RequestOperatorExit, Goto, EndPass, Leave, Fail, thread, PromotionPcs
<1>2. CASE Match
  BY <1>2 DEF Match, thread
<1>3. CASE Scan \/ ReconcileRaises
  BY <1>3 DEF Scan, SkipGeneration, ProveAbsent, RecoverIds, ReadGeneration, Advance, ReconcileRaises,
              EndPass, Leave, thread, PromotionPcs
<1>4. CASE Decide
  BY <1>4 DEF Decide, ImportFirst, OperatorCancel, OperatorPrepare, OperatorDust, DustPending,
              MarkProtected, NewGeneration, Verified, Goto, Leave, thread, PromotionPcs
<1>5. CASE Promote
  BY <1>5 DEF Promote, NoPromotion, CancelUnknown, OldChildUnverified, OldFillUnverified,
       PromotionNotNeeded, ResidualPlanInvalid, PromoteUnknown, PromoteBind, PromotionStops,
       Goto, EndPass, Leave, PromotionPcs
<1>6. CASE Submit
  BY <1>6 DEF Submit, OperatorCancelAnswered, OperatorCancelUnknown, Post, Bind, VerifyNew, Goto, EndPass,
              Leave, PromotionPcs
<1>7. CASE Settle
  BY <1>7 DEF Settle, ImportExit, CanonicalFails, AcknowledgeImport, AcknowledgeCanonical, DustPrepare,
              DustAcknowledge, DustRetain, Goto, EndPass, Leave, Fail, PromotionPcs
<1>8. QED
  BY <1>1, <1>2, <1>3, <1>4, <1>5, <1>6, <1>7 DEF Next, OwnerStep

\* A replacement is only posted when the old OCO has ended, for what it did not sell.
LEMMA PromotionStep ==
    ASSUME IInv, Next
    PROVE  PromotionOK'
<1>t. /\ gens \in [Gens -> Generations] /\ latest \in Gens /\ Gens \subseteq Nat \ {0} /\ GensOK
      /\ book \in [Gens -> Obligations] /\ posts \in [Gens -> Nat] /\ PromotionOK /\ 1 \in Gens
      /\ Amount \in Nat
  BY GensFinite, ProtectionAssumption DEF IInv, TypeOK
<1>0. CASE pc' \notin PromotionPcs
  BY <1>0 DEF PromotionOK, PromotionPcs
<1>1. CASE Match /\ pc' = pc /\ pc \in PromotionPcs
  <2>1. UNCHANGED <<gens, latest, posts>> /\ latest = 2 /\ 2 \in Gens
    BY <1>1, <1>t DEF Match, store, PromotionOK
  <2>2. /\ book[2].st = "none" => book'[2].st = "none"
        /\ book[2].st # "none" => book'[2].st # "none"
        /\ book[1].st \in Ended => book'[1] = book[1]
    BY <1>1, <1>t, <2>1, MatchMoves DEF Resting, Ended
  <2>3. QED
    BY <1>1, <1>t, <2>1, <2>2 DEF PromotionOK
<1>2. CASE PromotionIntent
  <2>1. latest = 1 /\ MaxGen > 1 /\ latest' = 2 /\ pc' = "cancel" /\ UNCHANGED <<book, posts>>
    BY <1>2 DEF PromotionIntent, Goto, exchange
  <2>2. 2 \in Gens
    BY <2>1, ProtectionAssumption DEF Gens
  <2>3. book[2].st = "none" /\ posts[2] = 0
    BY <1>t, <2>1, <2>2 DEF GensOK, Nothing, Obligation
  <2>4. QED
    BY <2>1, <2>3 DEF PromotionOK
<1>3. CASE CancelAnswered
  <2>1. pc = "cancel" /\ pc' = "verify_old" /\ Delete(1) /\ UNCHANGED <<gens, latest>>
    BY <1>3 DEF CancelAnswered, Goto, store
  <2>2. latest = 2 /\ book[2].st = "none" /\ posts[2] = 0 /\ 2 \in Gens
    BY <1>t, <2>1 DEF PromotionOK, PromotionPcs
  <2>3. book'[2] = book[2] /\ posts' = posts
    BY <1>t, <2>1, <2>2 DEF Delete
  <2>4. QED
    BY <2>1, <2>2, <2>3 DEF PromotionOK
<1>4. CASE ReplacementPending
  <2> DEFINE row == Gen("TRAILING_OCO", "REPLACEMENT_PENDING", FALSE, PromotionResidual)
  <2>1. /\ pc = "verify_old" /\ pc' = "promote_post" /\ UNCHANGED <<latest, book, posts>>
        /\ book[1].st \in Ended /\ PromotionResidual > 0
        /\ SetBoth(OldChildStatus, row)
    BY <1>4 DEF ReplacementPending, Goto, exchange
  <2>2. latest = 2 /\ book[2].st = "none" /\ posts[2] = 0 /\ 2 \in Gens
    BY <1>t, <2>1 DEF PromotionOK, PromotionPcs
  <2>3. gens'[2] = row
    BY <1>t, <2>1, <2>2 DEF SetBoth
  <2>4. gens'[2].status = "REPLACEMENT_PENDING" /\ ~gens'[2].known /\ gens'[2].qty = PromotionResidual
    BY <2>3 DEF Gen
  <2>5. PromotionResidual + book[1].sold <= Amount
    BY <1>t, <2>1, <2>2 DEF PromotionResidual, Most, Generations, Obligations
  <2>6. QED
    BY <2>1, <2>2, <2>4, <2>5 DEF PromotionOK
<1>5. CASE PromotePost
  <2>1. /\ pc = "promote_post" /\ UNCHANGED <<gens, latest>>
        /\ \/ pc' = "promote_bind" /\ Create(2)
           \/ pc' = "promote_query"
    BY <1>5 DEF PromotePost, Goto, store
  <2>2. latest = 2 /\ 2 \in Gens
    BY <1>t, <2>1 DEF PromotionOK, PromotionPcs
  <2>3. Create(2) => book'[2].st # "none"
    BY <1>t, <2>2 DEF Create, Obligation
  <2>4. QED
    BY <2>1, <2>2, <2>3 DEF PromotionOK
<1>6. CASE PromoteQueryFinds
  <2>1. pc = "promote_query" /\ pc' = "promote_bind" /\ UNCHANGED <<latest, book>> /\ book[2].st # "none"
    BY <1>6 DEF PromoteQueryFinds, Goto, store, exchange
  <2>2. QED
    BY <1>t, <2>1 DEF PromotionOK, PromotionPcs
<1>7. QED
  BY <1>0, <1>1, <1>2, <1>3, <1>4, <1>5, <1>6, PromotionSteps

-----------------------------------------------------------------------------
(* Dust. *)

\* Where a retention begins, and where it stands after a step.
LEMMA DustSteps ==
    ASSUME IInv, Next, pc' \in DustPcs \/ dust' = "retained"
    PROVE  \/ DustPending
           \/ pc \in DustPcs \/ dust = "retained"
<1>1. CASE \/ ManageOpenOrders \/ StartPass \/ AcknowledgeClosed \/ AcknowledgmentBlocked \/ FinishPass
           \/ Crash \/ RequestOperatorExit
  BY <1>1 DEF ManageOpenOrders, StartPass, AcknowledgeClosed, AcknowledgmentBlocked, FinishPass, Crash,
              RequestOperatorExit, Goto, EndPass, Leave, Fail, thread, trade, ImportCommits, DustPcs
<1>2. CASE Match
  BY <1>2 DEF Match, thread, trade
<1>3. CASE Scan \/ ReconcileRaises
  BY <1>3 DEF Scan, SkipGeneration, ProveAbsent, RecoverIds, ReadGeneration, Advance, ReconcileRaises,
              EndPass, Leave, thread, trade, DustPcs
<1>4. CASE Decide
  BY <1>4 DEF Decide, ImportFirst, OperatorCancel, OperatorPrepare, OperatorDust,
              MarkProtected, NewGeneration, Verified, Goto, Leave, thread, trade, DustPcs
<1>5. CASE Promote
  BY <1>5 DEF Promote, NoPromotion, PromotionIntent, CancelAnswered, CancelUnknown,
       OldChildUnverified, OldFillUnverified, PromotionNotNeeded, ResidualPlanInvalid,
       ReplacementPending, PromotePost, PromoteQueryFinds, PromoteUnknown, PromoteBind, PromotionStops,
       Goto, EndPass, Leave, trade, DustPcs
<1>6. CASE Submit
  BY <1>6 DEF Submit, OperatorCancelAnswered, OperatorCancelUnknown, Post, Bind, VerifyNew, Goto, EndPass,
              Leave, trade, DustPcs
<1>7. CASE Settle
  BY <1>7 DEF Settle, ImportExit, CanonicalFails, AcknowledgeImport, AcknowledgeCanonical, DustPrepare,
              DustAcknowledge, DustRetain, Goto, EndPass, Leave, Fail, ImportCommits, trade, DustPcs
<1>8. QED
  BY <1>1, <1>2, <1>3, <1>4, <1>5, <1>6, <1>7 DEF Next, OwnerStep

\* Nothing moves while dust is being retained, or after it was.
LEMMA DustQuiet ==
    ASSUME IInv, Next, pc \in DustPcs \/ dust = "retained"
    PROVE  Quiet
<1>1. pc \in DustPcs \cup {"ack", "end", "idle", "start"}
  BY DEF IInv, DustOK
<1>2. ~Sends /\ ~Cancels
  BY <1>1 DEF Sends, Cancels, DustPcs
<1>3. ~Imports
  BY <1>1 DEF Imports, Listed, DustPcs
<1>4. ~Match
  BY DEF IInv, DustOK, Settled, Settles, Match, Trigger, Expire, Fill, Resting
<1>5. QED
  BY <1>2, <1>3, <1>4, Effects

\* Dust that is retained stays where the loop passes over it.
LEMMA DustStays ==
    ASSUME IInv, Next, dust = "retained"
    PROVE  isOpen /\ isOpen' /\ pc' \in {"ack", "end", "idle", "start"}
<1>1. isOpen /\ pc \in {"ack", "end", "idle", "start"} /\ ~Listed
  BY DEF IInv, DustOK, Listed
<1>2. isOpen'
  BY <1>1, DustQuiet DEF Quiet
<1>3. CASE \/ ManageOpenOrders \/ StartPass \/ FinishPass \/ Crash \/ Match
  BY <1>1, <1>2, <1>3
  DEF ManageOpenOrders, StartPass, NeedsAcknowledgment, FinishPass, Crash, Match, Goto, thread
<1>4. CASE AcknowledgeCanonical
  BY <1>1, <1>2, <1>4 DEF AcknowledgeCanonical, EndPass, Leave
<1>5. CASE \/ AcknowledgeClosed \/ AcknowledgmentBlocked \/ RequestOperatorExit \/ Scan \/ ReconcileRaises
  BY <1>1, <1>5 DEF AcknowledgeClosed, AcknowledgmentBlocked, RequestOperatorExit, Scan, SkipGeneration,
       ProveAbsent, RecoverIds, ReadGeneration, ReconcileRaises
<1>6. CASE Decide \/ Submit
  BY <1>1, <1>6 DEF Decide, ImportFirst, OperatorCancel, OperatorPrepare, OperatorDust, DustPending,
       MarkProtected, NewGeneration, OperatorVerified, Verified, Submit, OperatorCancelAnswered,
       OperatorCancelUnknown, Post, Bind, VerifyNew
<1>7. CASE Promote
  BY <1>1, <1>7 DEF Promote, NoPromotion, PromotionIntent, CancelAnswered, CancelUnknown,
       OldChildUnverified, OldFillUnverified, PromotionNotNeeded, ResidualPlanInvalid,
       ReplacementPending, PromotePost, PromoteQueryFinds, PromoteUnknown, PromoteBind
<1>8. CASE ImportExit \/ CanonicalFails \/ AcknowledgeImport \/ DustPrepare \/ DustAcknowledge \/ DustRetain
  BY <1>1, <1>8 DEF ImportExit, CanonicalFails, AcknowledgeImport, DustPrepare, DustAcknowledge, DustRetain
<1>9. QED
  BY <1>1, <1>2, <1>3, <1>4, <1>5, <1>6, <1>7, <1>8 DEF Next, OwnerStep, Settle

\* Dust is only retained of a settled, open Trade with a remainder that is not executable.
LEMMA DustStep ==
    ASSUME IInv, Next
    PROVE  DustOK'
<1>1. ASSUME pc' \in DustPcs \/ dust' = "retained"
      PROVE  Quiet /\ (\A g \in Gens : Settled(g)) /\ canonical \in 1..(MinExec - 1)
  <2>1. CASE pc \in DustPcs \/ dust = "retained"
    BY <2>1, DustQuiet DEF IInv, DustOK
  <2>2. CASE DustPending
    <3>1. Verified /\ active_histories = {} /\ canonical < MinExec
      BY <2>2 DEF DustPending
    <3>2. Quiet
      BY <2>2, PassEffects DEF Decide
    <3>3. \A g \in Gens : Settled(g)
      BY <3>1, DecisionSettled
    <3>4. \A g \in Gens : ~imported[g].open
      BY <3>3, SettledRow
    <3>5. isOpen
      BY <3>1 DEF Verified, IInv, PassOK, OpenPcs
    <3>6. isOpen = ~(canonical = 0 /\ \A h \in Gens : ~imported[h].open)
      BY Zenon DEF IInv, TradeOK
    <3>7. canonical # 0
      BY <3>4, <3>5, <3>6
    <3>8. canonical \in 1..(MinExec - 1)
      BY <3>1, <3>7, QuantityTypes, ProtectionAssumption
    <3>9. QED
      BY <3>2, <3>3, <3>8
  <2>3. QED
    BY <1>1, <2>1, <2>2, DustSteps
<1>2. ASSUME pc' \in DustPcs \/ dust' = "retained"
      PROVE  (\A g \in Gens : Settled(g)') /\ canonical' \in 1..(MinExec - 1)
  <2>1. \A g \in Gens : Settled(g)'
    BY <1>1, <1>2 DEF Quiet, Settled, Settles
  <2>2. canonical' = canonical
    BY <1>1, <1>2, CanonicalKept DEF Quiet
  <2>3. QED
    BY <1>1, <1>2, <2>1, <2>2
<1>3. ASSUME dust' = "retained"
      PROVE  isOpen' /\ pc' \in {"ack", "end", "idle", "start"}
  <2>1. CASE dust = "retained"
    BY <2>1, DustStays
  <2>2. CASE dust # "retained"
    <3>1. pc \in DustPcs \/ DustPending
      BY <1>3, <2>2, DustSteps
    <3>2. pc = "dust_retain" /\ pc' = "ack"
      <4>1. CASE DustPending
        BY <1>3, <2>2, <4>1 DEF DustPending, trade
      <4>2. CASE pc \in DustPcs
        <5>1. CASE Settle
          BY <1>3, <2>2, <4>2, <5>1 DEF Settle, ImportExit, CanonicalFails, AcknowledgeImport,
             AcknowledgeCanonical, DustPrepare, DustAcknowledge, DustRetain, Goto, trade, DustPcs
        <5>2. CASE Scan \/ ReconcileRaises \/ Decide \/ Promote \/ Submit
          <6>1. UNCHANGED dust
            BY <5>2 DEF Scan, SkipGeneration, ProveAbsent, RecoverIds, ReadGeneration, ReconcileRaises,
         Decide, ImportFirst, OperatorCancel, OperatorPrepare, OperatorDust, DustPending, MarkProtected,
         NewGeneration, Promote, NoPromotion, PromotionIntent, CancelAnswered, CancelUnknown,
         OldChildUnverified, OldFillUnverified, PromotionNotNeeded, ResidualPlanInvalid,
         ReplacementPending, PromotePost, PromoteQueryFinds, PromoteUnknown, PromoteBind, PromotionStops,
         Submit, OperatorCancelAnswered, OperatorCancelUnknown, Post, Bind, VerifyNew, trade
          <6>2. QED
            BY <1>3, <2>2, <6>1
        <5>3. CASE \/ ManageOpenOrders \/ StartPass \/ AcknowledgeClosed \/ AcknowledgmentBlocked
                   \/ FinishPass \/ RequestOperatorExit \/ Crash \/ Match
          <6>1. UNCHANGED dust
            BY <5>3 DEF ManageOpenOrders, StartPass, AcknowledgeClosed, AcknowledgmentBlocked, FinishPass,
                        RequestOperatorExit, Crash, Match, ImportCommits, trade
          <6>2. QED
            BY <1>3, <2>2, <6>1
        <5>4. QED
          BY <5>1, <5>2, <5>3 DEF Next, OwnerStep
      <4>3. QED
        BY <3>1, <4>1, <4>2
    <3>3. isOpen'
      BY <3>2, OpenKept DEF IInv, PassOK, OpenPcs, DustPcs
    <3>4. QED
      BY <3>2, <3>3
  <2>3. QED
    BY <2>1, <2>2
<1>4. QED
  BY <1>2, <1>3 DEF DustOK

-----------------------------------------------------------------------------
(* The guard over a stripped position. *)

\* A position whose last obligation we did not cancel.
Covers(g) == /\ book[g].st \in Resting \cup {"done"}
             /\ \A h \in Gens : h > g => book[h].st = "none"

LEMMA CoversNotStripped ==
    ASSUME NEW g \in Gens, Covers(g)
    PROVE  ~Stripped
  BY DEF Covers, Stripped

LEMMA NotStrippedCovers ==
    ASSUME ~Stripped
    PROVE  \E g \in Gens : Covers(g)
  BY DEF Covers, Stripped

\* The market strips no position.
LEMMA CoverKept ==
    ASSUME IInv, ~Stripped, Quiet \/ Match \/ UNCHANGED book
    PROVE  ~Stripped'
<1>1. PICK g \in Gens : Covers(g)
  BY NotStrippedCovers
<1>2. CASE UNCHANGED book
  BY <1>2 DEF Stripped
<1>3. CASE Quiet \/ Match
  <2>1. book'[g].st \in Resting \cup {"done"}
    BY <1>1, <1>3, MatchMoves DEF Covers
  <2>2. \A h \in Gens : h > g => book'[h].st = "none"
    BY <1>1, <1>3, MatchMoves DEF Covers, Resting
  <2>3. QED
    BY <2>1, <2>2 DEF Stripped
<1>4. QED
  BY <1>2, <1>3

\* An obligation that was read open, or the last one that was posted, covers the position.
LEMMA SeenCovers ==
    ASSUME IInv, pc = "decide", NEW g \in active_histories
    PROVE  ~Stripped
<1>1. g \in Gens /\ Covers(g)
  BY DEF active_histories, IInv, SnapOK, Covers
<1>2. QED
  BY <1>1, CoversNotStripped

LEMMA PostedCovers ==
    ASSUME IInv, pc \in {"bind", "verify_new"}
    PROVE  ~Stripped
<1>1. latest \in Gens /\ Covers(latest)
  BY DEF IInv, TypeOK, PostOK, GensOK, Nothing, Obligation, Covers
<1>2. QED
  BY <1>1, CoversNotStripped

\* An operator's request is made by the operator and survives no step that
\* submits, ends or drops it.
LEMMA LoopRequests ==
    ASSUME IInv, OperatorRequest',
           \/ ManageOpenOrders \/ StartPass \/ AcknowledgeClosed \/ AcknowledgmentBlocked \/ FinishPass
           \/ Crash \/ Match
    PROVE  OperatorRequest /\ ~AcknowledgeClosed
<1>t. gens \in [Gens -> Generations] /\ latest \in Gens
  BY DEF IInv, TypeOK
<1>1. ~AcknowledgeClosed
  <2>1. SUFFICES ASSUME AcknowledgeClosed PROVE FALSE
    OBVIOUS
  <2>2. /\ latest' = latest
        /\ gens' = [g \in Gens |->
                     IF gens[g].known THEN Gen(gens[g].mode, "TERMINAL", TRUE, gens[g].qty)
                     ELSE IF gens[g].mode = "OPERATOR_EXIT"
                     THEN Gen("OPERATOR_EXIT", "NOT_NEEDED_POSITION_EXITED", FALSE, gens[g].qty)
                     ELSE gens[g]]
    BY <2>1 DEF AcknowledgeClosed
  <2>3. gens'[latest].mode = "OPERATOR_EXIT"
        => gens'[latest].status \in {"TERMINAL", "NOT_NEEDED_POSITION_EXITED"}
    BY <1>t, <2>2 DEF Gen
  <2>4. QED
    BY <2>2, <2>3 DEF OperatorRequest, OPERATOR_PRE_SUBMISSION
<1>2. UNCHANGED <<gens, latest>>
  BY <1>1 DEF ManageOpenOrders, StartPass, AcknowledgmentBlocked, FinishPass, Crash, Match, store
<1>3. QED
  BY <1>1, <1>2 DEF OperatorRequest

LEMMA StatusRequests ==
    ASSUME IInv, OperatorRequest', UNCHANGED latest, NEW g \in Gens, NEW s, SetStatus(g, s)
    PROVE  \/ OperatorRequest
           \/ g = latest /\ s \in OPERATOR_PRE_SUBMISSION
<1>t. gens \in [Gens -> Generations] /\ latest \in Gens
  BY DEF IInv, TypeOK
<1>1. CASE g = latest
  <2>1. gens'[latest] = Gen(gens[g].mode, s, gens[g].known, gens[g].qty)
    BY <1>t, <1>1 DEF SetStatus
  <2>2. QED
    BY <1>1, <2>1 DEF OperatorRequest, Gen
<1>2. CASE g # latest
  <2>1. gens'[latest] = gens[latest]
    BY <1>t, <1>2 DEF SetStatus
  <2>2. QED
    BY <2>1 DEF OperatorRequest
<1>3. QED
  BY <1>1, <1>2

LEMMA ScanRequests ==
    ASSUME IInv, OperatorRequest', Scan \/ ReconcileRaises
    PROVE  OperatorRequest
<1>t. gens \in [Gens -> Generations] /\ latest \in Gens /\ UNCHANGED latest
  BY DEF IInv, TypeOK, Scan, SkipGeneration, ProveAbsent, RecoverIds, ReadGeneration, ReconcileRaises, store
<1>k. Scan => k \in Gens
  <2>1. SUFFICES ASSUME Scan PROVE k \in Gens
    OBVIOUS
  <2>2. pc = "scan"
    BY <2>1 DEF Scan, SkipGeneration, ProveAbsent, RecoverIds, ReadGeneration
  <2>3. k <= latest /\ k \in 1..(MaxGen + 1) /\ latest \in 1..MaxGen
    BY <2>2 DEF IInv, PassOK, TypeOK, Gens
  <2>4. QED
    BY <2>3, ProtectionAssumption DEF Gens
<1>1. CASE UNCHANGED gens
  BY <1>t, <1>1 DEF OperatorRequest
<1>2. ASSUME NEW g \in Gens, NEW s \in GenStatus \ OPERATOR_PRE_SUBMISSION, SetStatus(g, s)
      PROVE  OperatorRequest
  BY <1>2, <1>t, StatusRequests
<1>3. CASE RecoverIds
  <2>1. SaveIds(k, "SUBMITTED_UNVERIFIED") /\ k \in Gens
    BY <1>3, <1>k DEF RecoverIds, Scan
  <2>2. /\ k = latest => gens'[latest].status = "SUBMITTED_UNVERIFIED"
        /\ k # latest => gens'[latest] = gens[latest]
    BY <1>t, <2>1 DEF SaveIds, Gen
  <2>3. QED
    BY <1>t, <2>2 DEF OperatorRequest, OPERATOR_PRE_SUBMISSION
<1>4. CASE SkipGeneration \/ ProveAbsent \/ ReadGeneration
  <2>1. UNCHANGED gens \/ SetStatus(k, "SUBMISSION_ABSENT") \/ SetStatus(k, "TERMINAL")
    BY <1>4 DEF SkipGeneration, ProveAbsent, ReadGeneration, store
  <2>2. {"SUBMISSION_ABSENT", "TERMINAL"} \subseteq GenStatus \ OPERATOR_PRE_SUBMISSION
    BY DEF GenStatus, OPERATOR_PRE_SUBMISSION
  <2>3. k \in Gens
    BY <1>4, <1>k DEF Scan
  <2>4. QED
    BY <1>1, <1>2, <2>1, <2>2, <2>3
<1>5. CASE ReconcileRaises
  <2>1. \/ UNCHANGED gens \/ SetStatus(latest, "ORDER_HISTORY_UNAVAILABLE")
        \/ SetStatus(latest, "VERIFICATION_UNKNOWN")
    BY <1>5 DEF ReconcileRaises
  <2>2. {"ORDER_HISTORY_UNAVAILABLE", "VERIFICATION_UNKNOWN"} \subseteq GenStatus \ OPERATOR_PRE_SUBMISSION
    BY DEF GenStatus, OPERATOR_PRE_SUBMISSION
  <2>3. QED
    BY <1>1, <1>2, <1>t, <2>1, <2>2
<1>6. QED
  BY <1>3, <1>4, <1>5 DEF Scan

LEMMA DecideRequests ==
    ASSUME IInv, OperatorRequest', Decide
    PROVE  OperatorRequest
<1>t. gens \in [Gens -> Generations] /\ latest \in Gens
  BY DEF IInv, TypeOK
<1>1. CASE ImportFirst
  BY <1>1 DEF ImportFirst, OperatorRequest
<1>2. CASE OperatorCancel \/ OperatorPrepare \/ OperatorDust
  BY <1>2 DEF OperatorCancel, OperatorPrepare, OperatorDust, OperatorVerified
<1>3. CASE DustPending
  <2>1. SetStatus(latest, "DUST_PENDING") /\ UNCHANGED latest
    BY <1>3 DEF DustPending
  <2>2. "DUST_PENDING" \notin OPERATOR_PRE_SUBMISSION
    BY DEF OPERATOR_PRE_SUBMISSION
  <2>3. QED
    BY <1>t, <2>1, <2>2, StatusRequests
<1>4. ASSUME NEW g \in Gens, MarkProtected(g) PROVE OperatorRequest
  <2>1. PICK s \in ActiveStatus : SetStatus(g, s) /\ UNCHANGED latest
    BY <1>4 DEF MarkProtected, ActiveStatus
  <2>2. s \notin OPERATOR_PRE_SUBMISSION
    BY DEF ActiveStatus, OPERATOR_PRE_SUBMISSION
  <2>3. QED
    BY <2>1, <2>2, StatusRequests
<1>5. ASSUME NEW mode \in ListModes \cup SingleModes, NewGeneration(mode) PROVE OperatorRequest
  <2>1. /\ latest' = latest + 1 /\ latest < MaxGen
        /\ gens' = [gens EXCEPT ![latest + 1] = Gen(mode, "SUBMISSION_PENDING", FALSE, RecoveryQuantity)]
    BY <1>5 DEF NewGeneration
  <2>2. latest + 1 \in Gens
    BY <1>t, <2>1, ProtectionAssumption DEF Gens
  <2>3. gens'[latest'].status = "SUBMISSION_PENDING"
    BY <1>t, <2>1, <2>2 DEF Gen
  <2>4. QED
    BY <2>3 DEF OperatorRequest, OPERATOR_PRE_SUBMISSION
<1>6. QED
  BY <1>1, <1>2, <1>3, <1>4, <1>5 DEF Decide

LEMMA PromoteRequests ==
    ASSUME IInv, OperatorRequest', Promote
    PROVE  OperatorRequest
<1>t. gens \in [Gens -> Generations] /\ latest \in Gens /\ (pc \in PromotionPcs => latest = 2)
  BY DEF IInv, TypeOK, PromotionOK
<1>1. CASE NoPromotion \/ CancelAnswered \/ PromotePost \/ PromoteQueryFinds
  BY <1>1 DEF NoPromotion, CancelAnswered, PromotePost, PromoteQueryFinds, store, OperatorRequest
<1>2. CASE \/ PromotionIntent \/ CancelUnknown \/ OldChildUnverified \/ OldFillUnverified
           \/ PromotionNotNeeded \/ ResidualPlanInvalid \/ ReplacementPending \/ PromoteUnknown \/ PromoteBind
  <2>1. latest' = 2 /\ 2 \in Gens
    <3>1. CASE PromotionIntent
      BY <3>1, ProtectionAssumption DEF PromotionIntent, Gens
    <3>2. CASE ~PromotionIntent
      BY <1>2, <1>t, <3>2 DEF CancelUnknown, OldChildUnverified, OldFillUnverified, PromotionNotNeeded,
         ResidualPlanInvalid, ReplacementPending, PromoteUnknown, PromoteBind, PromotionStops, PromotionPcs
    <3>3. QED
      BY <3>1, <3>2
  <2>2. \E old, s, kn, q : SetBoth(old, Gen("TRAILING_OCO", s, kn, q))
    BY <1>2 DEF PromotionIntent, CancelUnknown, OldChildUnverified, OldFillUnverified, PromotionNotNeeded,
       ResidualPlanInvalid, ReplacementPending, PromoteUnknown, PromoteBind, PromotionStops
  <2>3. PICK old, s, kn, q : SetBoth(old, Gen("TRAILING_OCO", s, kn, q))
    BY <2>2
  <2>4. gens'[2] = Gen("TRAILING_OCO", s, kn, q)
    BY <1>t, <2>1, <2>3 DEF SetBoth
  <2>5. gens'[2].mode = "TRAILING_OCO"
    BY <2>4 DEF Gen
  <2>6. QED
    BY <2>1, <2>5 DEF OperatorRequest
<1>3. QED
  BY <1>1, <1>2 DEF Promote

LEMMA SubmitRequests ==
    ASSUME IInv, OperatorRequest', Submit
    PROVE  OperatorRequest
<1>t. gens \in [Gens -> Generations] /\ latest \in Gens
  BY DEF IInv, TypeOK
<1>1. CASE OperatorCancelAnswered \/ Post
  BY <1>1 DEF OperatorCancelAnswered, Post, store, OperatorRequest
<1>2. CASE OperatorCancelUnknown
  BY <1>2 DEF OperatorCancelUnknown, IInv, GuardOK
<1>3. CASE Bind
  <2>1. SaveIds(latest, "SUBMITTED_UNVERIFIED") /\ latest' = latest
    BY <1>3 DEF Bind
  <2>2. gens'[latest].status = "SUBMITTED_UNVERIFIED"
    BY <1>t, <2>1 DEF SaveIds, Gen
  <2>3. QED
    BY <2>1, <2>2 DEF OperatorRequest, OPERATOR_PRE_SUBMISSION
<1>4. CASE VerifyNew
  <2>1. PICK s \in ActiveStatus : SetStatus(latest, s) /\ UNCHANGED latest
    BY <1>4 DEF VerifyNew, ActiveStatus
  <2>2. s \notin OPERATOR_PRE_SUBMISSION
    BY DEF ActiveStatus, OPERATOR_PRE_SUBMISSION
  <2>3. QED
    BY <1>t, <2>1, <2>2, StatusRequests
<1>5. QED
  BY <1>1, <1>2, <1>3, <1>4 DEF Submit

LEMMA SettleRequests ==
    ASSUME IInv, OperatorRequest', Settle
    PROVE  OperatorRequest /\ ~DustAcknowledge
<1>t. gens \in [Gens -> Generations] /\ latest \in Gens
  BY DEF IInv, TypeOK
<1>1. ~DustAcknowledge
  <2>1. SUFFICES ASSUME DustAcknowledge PROVE FALSE
    OBVIOUS
  <2>2. SetStatus(latest, "DUST_RETAINED") /\ latest' = latest
    BY <2>1 DEF DustAcknowledge
  <2>3. gens'[latest].status = "DUST_RETAINED"
    BY <1>t, <2>2 DEF SetStatus, Gen
  <2>4. QED
    BY <2>2, <2>3 DEF OperatorRequest, OPERATOR_PRE_SUBMISSION
<1>2. UNCHANGED <<gens, latest>>
  BY <1>1 DEF Settle, ImportExit, CanonicalFails, AcknowledgeImport, AcknowledgeCanonical, DustPrepare,
     DustRetain, store
<1>3. QED
  BY <1>1, <1>2 DEF OperatorRequest

\* The incident and the label of a request outlive every other step.
LEMMA RequestStep ==
    ASSUME IInv, Next, OperatorRequest'
    PROVE  "operator-exit" \in incidents' /\ state' # "DUST_RETAINED"
<1>1. CASE RequestOperatorExit
  BY <1>1 DEF RequestOperatorExit
<1>i. OperatorRequest => "operator-exit" \in incidents /\ state # "DUST_RETAINED"
  BY DEF IInv, GuardOK
<1>2. CASE \/ ManageOpenOrders \/ StartPass \/ AcknowledgeClosed \/ AcknowledgmentBlocked \/ FinishPass
           \/ Crash \/ Match
  <2>1. OperatorRequest /\ ~AcknowledgeClosed
    BY <1>2, LoopRequests
  <2>2. UNCHANGED state /\ ("operator-exit" \in incidents => "operator-exit" \in incidents')
    BY <1>2, <2>1 DEF ManageOpenOrders, StartPass, AcknowledgmentBlocked, FinishPass, Crash, Match, store
  <2>3. QED
    BY <1>i, <2>1, <2>2
<1>3. CASE Scan \/ ReconcileRaises \/ Decide \/ Promote \/ Submit
  <2>1. OperatorRequest
    BY <1>3, ScanRequests, DecideRequests, PromoteRequests, SubmitRequests
  <2>2. \/ UNCHANGED <<state, incidents>>
        \/ Block
        \/ VerifiedOpen
        \/ state' = "EXIT_PENDING" /\ UNCHANGED incidents
    BY <1>3 DEF Scan, SkipGeneration, ProveAbsent, RecoverIds, ReadGeneration, ReconcileRaises,
         Decide, ImportFirst, OperatorCancel, OperatorPrepare, OperatorDust, DustPending, MarkProtected,
         NewGeneration, Promote, NoPromotion, PromotionIntent, CancelAnswered, CancelUnknown,
         OldChildUnverified, OldFillUnverified, PromotionNotNeeded, ResidualPlanInvalid,
         ReplacementPending, PromotePost, PromoteQueryFinds, PromoteUnknown, PromoteBind, PromotionStops,
         Submit, OperatorCancelAnswered, OperatorCancelUnknown, Post, Bind, VerifyNew, store
  <2>3. QED
    BY <1>i, <2>1, <2>2 DEF Block, VerifiedOpen
<1>4. CASE Settle
  <2>1. OperatorRequest /\ ~DustAcknowledge
    BY <1>4, SettleRequests
  <2>2. CASE AcknowledgeCanonical
    <3>1. gens[latest].mode \notin ListModes
      BY <2>1 DEF OperatorRequest, ListModes
    <3>2. QED
      BY <1>i, <2>1, <2>2, <3>1 DEF AcknowledgeCanonical
  <2>3. CASE ~AcknowledgeCanonical
    <3>1. /\ UNCHANGED state \/ state' = "EXIT_FILLED"
          /\ "operator-exit" \in incidents => "operator-exit" \in incidents'
      BY <1>4, <2>1, <2>3 DEF Settle, ImportExit, CanonicalFails, AcknowledgeImport, DustPrepare,
         DustRetain, store
    <3>2. QED
      BY <1>i, <2>1, <3>1
  <2>4. QED
    BY <2>2, <2>3
<1>5. QED
  BY <1>1, <1>2, <1>3, <1>4 DEF Next, OwnerStep

\* The rest of the guard, by where the pass is.
GuardRest ==
    /\ pc = "operator_cancel" => OperatorRequest
    /\ pc \in {"import", "imported"} => state = "UNKNOWN"
    /\ pc = "promote" => ~Stripped
    /\ pc = "ack" => \/ ~Listed \/ ~Stripped \/ state = "UNKNOWN"
                     \/ OperatorRequest
    /\ pc = "end" /\ ~failed => Guarded
    /\ ready => pc \in {"idle", "start"} /\ Guarded

LEMMA LoopGuard ==
    ASSUME IInv, Next,
           \/ ManageOpenOrders \/ StartPass \/ AcknowledgeClosed \/ AcknowledgmentBlocked \/ FinishPass
           \/ RequestOperatorExit \/ Crash \/ Match
    PROVE  GuardRest'
<1>t. GuardRest
  BY DEF IInv, GuardOK, GuardRest
<1>1. CASE ManageOpenOrders
  <2>1. /\ pc' = "start" /\ UNCHANGED <<ready, book, state, dust>>
        /\ "recovery" \in incidents => "recovery" \in incidents'
        /\ "operator-exit" \in incidents => "operator-exit" \in incidents'
    BY <1>1 DEF ManageOpenOrders, Goto, exchange, trade, ImportCommits
  <2>2. isOpen' => isOpen
    BY <1>1 DEF ManageOpenOrders, Listed, trade
  <2>3. Stripped' => Stripped
    BY <2>1 DEF Stripped
  <2>4. ready' => Guarded'
    BY <1>t, <2>1, <2>2, <2>3 DEF GuardRest, Guarded, Listed
  <2>5. QED
    BY <2>1, <2>4 DEF GuardRest
<1>2. CASE StartPass
  <2>1. ready' = FALSE /\ pc' \in {"closed", "scan", "end"} /\ (pc' = "end" => ~Listed')
    BY <1>2 DEF StartPass, Listed, trade
  <2>2. QED
    BY <2>1 DEF GuardRest, Guarded
<1>3. CASE AcknowledgeClosed
  <2>1. pc = "closed" /\ pc' = "end" /\ UNCHANGED <<ready, isOpen>>
    BY <1>3 DEF AcknowledgeClosed, EndPass, Leave, trade
  <2>2. ~Listed' /\ ~ready'
    BY <1>t, <2>1 DEF IInv, PassOK, Listed, GuardRest
  <2>3. QED
    BY <2>1, <2>2 DEF GuardRest, Guarded
<1>4. CASE AcknowledgmentBlocked
  <2>1. pc = "closed" /\ pc' = "end" /\ failed' = TRUE /\ UNCHANGED ready
    BY <1>4 DEF AcknowledgmentBlocked, Fail
  <2>2. ~ready'
    BY <1>t, <2>1 DEF GuardRest
  <2>3. QED
    BY <2>1, <2>2 DEF GuardRest
<1>5. CASE FinishPass
  <2>1. pc = "end" /\ pc' = "idle" /\ ready' = ~failed /\ UNCHANGED <<book, state, incidents, isOpen, dust>>
    BY <1>5 DEF FinishPass, store, trade, exchange
  <2>2. Guarded => Guarded'
    BY <2>1 DEF Guarded, Stripped, Listed
  <2>3. ready' => ~failed
    BY <2>1, Zenon
  <2>4. QED
    BY <1>t, <2>1, <2>2, <2>3 DEF GuardRest
<1>6. CASE RequestOperatorExit
  <2>1. pc' \in {"idle", "start"} /\ "operator-exit" \in incidents'
    BY <1>6 DEF RequestOperatorExit, thread
  <2>2. QED
    BY <2>1 DEF GuardRest, Guarded
<1>7. CASE Crash
  <2>1. pc' = "idle" /\ ready' = FALSE
    BY <1>7 DEF Crash
  <2>2. QED
    BY <2>1 DEF GuardRest
<1>8. CASE Match
  <2>1. UNCHANGED <<ready, pc, failed, gens, latest, state, incidents, isOpen, dust>>
    BY <1>8 DEF Match, thread, store, trade
  <2>2. ~Stripped => ~Stripped'
    BY <1>8, CoverKept
  <2>3. OperatorRequest' = OperatorRequest /\ Listed' = Listed
    BY <2>1, Zenon DEF OperatorRequest, Listed
  <2>4. Guarded => Guarded'
    BY <2>1, <2>2, <2>3 DEF Guarded
  <2>5. QED
    BY <1>t, <2>1, <2>2, <2>3, <2>4 DEF GuardRest
<1>9. QED
  BY <1>1, <1>2, <1>3, <1>4, <1>5, <1>6, <1>7, <1>8

LEMMA PassGuard ==
    ASSUME IInv, Next, Scan \/ ReconcileRaises \/ Decide
    PROVE  GuardRest'
<1>t. /\ GuardRest /\ gens \in [Gens -> Generations] /\ latest \in Gens
  BY DEF IInv, TypeOK, GuardOK, GuardRest
<1>0. ~ready'
  <2>1. pc \notin {"idle", "start"} /\ UNCHANGED ready
    BY DEF Scan, SkipGeneration, ProveAbsent, RecoverIds, ReadGeneration, ReconcileRaises, Decide,
       ImportFirst, OperatorCancel, OperatorPrepare, OperatorDust, DustPending, MarkProtected,
       NewGeneration, OperatorVerified, Verified, Goto, EndPass, Leave, thread
  <2>2. QED
    BY <1>t, <2>1 DEF GuardRest
<1>1. CASE Scan
  <2>1. pc' \in {"scan", "decide"}
    BY <1>1 DEF Scan, SkipGeneration, ProveAbsent, RecoverIds, ReadGeneration, Advance, thread
  <2>2. QED
    BY <1>0, <2>1 DEF GuardRest
<1>2. CASE ReconcileRaises
  <2>1. pc' = "end" /\ state' = "UNKNOWN"
    BY <1>2 DEF ReconcileRaises, Block, EndPass, Leave
  <2>2. QED
    BY <1>0, <2>1 DEF GuardRest, Guarded
<1>3. CASE ImportFirst
  <2>1. pc' = "import" /\ state' = "UNKNOWN"
    BY <1>3 DEF ImportFirst, Block, Goto
  <2>2. QED
    BY <1>0, <2>1 DEF GuardRest
<1>4. CASE OperatorCancel
  <2>1. /\ pc' = "operator_cancel" /\ OperatorRequest /\ SetStatus(latest, "EXIT_CANCEL_PENDING")
        /\ latest' = latest
    BY <1>4 DEF OperatorCancel, OperatorVerified, Goto
  <2>2. gens'[latest].mode = "OPERATOR_EXIT" /\ gens'[latest].status = "EXIT_CANCEL_PENDING"
    BY <1>t, <2>1 DEF SetStatus, Gen, OperatorRequest
  <2>3. OperatorRequest'
    BY <2>1, <2>2 DEF OperatorRequest, OPERATOR_PRE_SUBMISSION
  <2>4. QED
    BY <1>0, <2>1, <2>3 DEF GuardRest
<1>5. CASE \/ OperatorPrepare \/ OperatorDust \/ DustPending
           \/ \E mode \in ListModes \cup SingleModes : NewGeneration(mode)
  <2>1. pc' \in {"post", "decide", "dust_prepare"}
    BY <1>5 DEF OperatorPrepare, OperatorDust, DustPending, NewGeneration, Verified, Leave, thread
  <2>2. QED
    BY <1>0, <2>1 DEF GuardRest
<1>6. ASSUME NEW g \in Gens, MarkProtected(g) PROVE GuardRest'
  <2>1. pc = "decide" /\ g \in active_histories /\ UNCHANGED book /\ pc' \in {"promote", "ack"}
    BY <1>6 DEF MarkProtected, Verified, Leave, exchange
  <2>2. ~Stripped
    BY <2>1, SeenCovers
  <2>3. ~Stripped'
    BY <2>1, <2>2, CoverKept
  <2>4. QED
    BY <1>0, <2>1, <2>3 DEF GuardRest
<1>7. QED
  BY <1>1, <1>2, <1>3, <1>4, <1>5, <1>6 DEF Decide

LEMMA PromoteGuard ==
    ASSUME IInv, Next, Promote
    PROVE  GuardRest'
<1>t. GuardRest
  BY DEF IInv, GuardOK, GuardRest
<1>0. ~ready'
  <2>1. pc \notin {"idle", "start"} /\ UNCHANGED ready
    BY DEF Promote, NoPromotion, PromotionIntent, CancelAnswered, CancelUnknown, OldChildUnverified,
           OldFillUnverified, PromotionNotNeeded, ResidualPlanInvalid, ReplacementPending, PromotePost,
           PromoteQueryFinds, PromoteUnknown, PromoteBind, PromotionStops, Goto, EndPass, Leave
  <2>2. QED
    BY <1>t, <2>1 DEF GuardRest
<1>1. CASE NoPromotion
  <2>1. pc = "promote" /\ pc' = "ack" /\ UNCHANGED book
    BY <1>1 DEF NoPromotion, Goto, exchange
  <2>2. ~Stripped'
    BY <1>t, <2>1, CoverKept DEF GuardRest
  <2>3. QED
    BY <1>0, <2>1, <2>2 DEF GuardRest
<1>2. CASE \/ CancelUnknown \/ OldChildUnverified \/ OldFillUnverified \/ PromotionNotNeeded
           \/ ResidualPlanInvalid \/ PromoteUnknown
  <2>1. pc' = "end" /\ state' = "UNKNOWN"
    BY <1>2 DEF CancelUnknown, OldChildUnverified, OldFillUnverified, PromotionNotNeeded,
                ResidualPlanInvalid, PromoteUnknown, PromotionStops, Block, EndPass, Leave
  <2>2. QED
    BY <1>0, <2>1 DEF GuardRest, Guarded
<1>3. CASE \/ PromotionIntent \/ CancelAnswered \/ ReplacementPending \/ PromotePost
           \/ PromoteQueryFinds \/ PromoteBind
  <2>1. pc' \in PromotionPcs \cup {"scan"}
    BY <1>3 DEF PromotionIntent, CancelAnswered, ReplacementPending, PromotePost,
                PromoteQueryFinds, PromoteBind, Goto, PromotionPcs
  <2>2. QED
    BY <1>0, <2>1 DEF GuardRest, PromotionPcs
<1>4. QED
  BY <1>1, <1>2, <1>3 DEF Promote

LEMMA SubmitGuard ==
    ASSUME IInv, Next, Submit
    PROVE  GuardRest'
<1>t. GuardRest
  BY DEF IInv, GuardOK, GuardRest
<1>0. ~ready'
  <2>1. pc \notin {"idle", "start"} /\ UNCHANGED ready
    BY DEF Submit, OperatorCancelAnswered, OperatorCancelUnknown, Post, Bind, VerifyNew, Goto, EndPass, Leave
  <2>2. QED
    BY <1>t, <2>1 DEF GuardRest
<1>1. CASE OperatorCancelAnswered
  <2>1. pc = "operator_cancel" /\ pc' = "ack" /\ UNCHANGED <<gens, latest>>
    BY <1>1 DEF OperatorCancelAnswered, Leave, store
  <2>2. OperatorRequest'
    BY <1>t, <2>1 DEF GuardRest, OperatorRequest
  <2>3. QED
    BY <1>0, <2>1, <2>2 DEF GuardRest
<1>2. CASE OperatorCancelUnknown
  <2>1. pc' = "end" /\ state' = "UNKNOWN"
    BY <1>2 DEF OperatorCancelUnknown, Block, EndPass, Leave
  <2>2. QED
    BY <1>0, <2>1 DEF GuardRest, Guarded
<1>3. CASE Post
  <2>1. pc' \in {"bind", "lost"}
    BY <1>3 DEF Post, Goto
  <2>2. QED
    BY <1>0, <2>1 DEF GuardRest
<1>4. CASE Bind \/ VerifyNew
  <2>1. pc \in {"bind", "verify_new"} /\ pc' \in {"verify_new", "ack"} /\ UNCHANGED book
    BY <1>4 DEF Bind, VerifyNew, Goto, exchange
  <2>2. ~Stripped'
    BY <2>1, PostedCovers, CoverKept
  <2>3. QED
    BY <1>0, <2>1, <2>2 DEF GuardRest
<1>5. QED
  BY <1>1, <1>2, <1>3, <1>4 DEF Submit

LEMMA SettleGuard ==
    ASSUME IInv, Next, Settle
    PROVE  GuardRest'
<1>t. GuardRest /\ (OperatorRequest => "operator-exit" \in incidents /\ state # "DUST_RETAINED")
  BY DEF IInv, GuardOK, GuardRest
<1>0. ~ready'
  <2>1. pc \notin {"idle", "start"} /\ UNCHANGED ready
    BY DEF Settle, ImportExit, CanonicalFails, AcknowledgeImport, AcknowledgeCanonical, DustPrepare,
           DustAcknowledge, DustRetain, Goto, EndPass, Leave, Fail
  <2>2. QED
    BY <1>t, <2>1 DEF GuardRest
<1>1. CASE ImportExit
  <2>1. pc = "import" /\ pc' = "imported" /\ UNCHANGED state
    BY <1>1 DEF ImportExit, Leave, store
  <2>2. QED
    BY <1>0, <1>t, <2>1 DEF GuardRest
<1>2. CASE CanonicalFails
  <2>1. pc' = "end" /\ failed' = TRUE
    BY <1>2 DEF CanonicalFails, Fail
  <2>2. QED
    BY <1>0, <2>1 DEF GuardRest
<1>3. CASE AcknowledgeImport
  <2>1. /\ pc = "imported" /\ pc' = "ack" /\ UNCHANGED isOpen
        /\ ~isOpen \/ UNCHANGED state
    BY <1>3 DEF AcknowledgeImport, Goto, trade
  <2>2. ~Listed' \/ state' = "UNKNOWN"
    BY <1>t, <2>1 DEF GuardRest, Listed
  <2>3. QED
    BY <1>0, <2>1, <2>2 DEF GuardRest
<1>4. CASE AcknowledgeCanonical
  <2>1. pc = "ack" /\ pc' = "end" /\ UNCHANGED <<gens, latest, state, isOpen, dust, book>>
    BY <1>4 DEF AcknowledgeCanonical, EndPass, Leave, trade, exchange
  <2>2. OperatorRequest => "operator-exit" \in incidents'
    <3>1. OperatorRequest => gens[latest].mode \notin ListModes
      BY DEF OperatorRequest, ListModes
    <3>2. QED
      BY <1>4, <1>t, <3>1 DEF AcknowledgeCanonical
  <2>3. ~Stripped => ~Stripped'
    BY <2>1, CoverKept
  <2>4. Listed' => Listed
    BY <2>1 DEF Listed
  <2>5. Guarded'
    BY <1>t, <2>1, <2>2, <2>3, <2>4 DEF GuardRest, Guarded
  <2>6. QED
    BY <1>0, <2>1, <2>5 DEF GuardRest
<1>5. CASE DustPrepare \/ DustAcknowledge
  <2>1. pc' \in {"dust_ack", "dust_retain"}
    BY <1>5 DEF DustPrepare, DustAcknowledge, Goto
  <2>2. QED
    BY <1>0, <2>1 DEF GuardRest
<1>6. CASE DustRetain
  <2>1. pc' = "ack" /\ dust' = "retained"
    BY <1>6 DEF DustRetain, Goto
  <2>2. QED
    BY <1>0, <2>1 DEF GuardRest, Listed
<1>7. QED
  BY <1>1, <1>2, <1>3, <1>4, <1>5, <1>6 DEF Settle

\* A stripped position stays labelled.
LEMMA GuardStep ==
    ASSUME IInv, Next
    PROVE  GuardOK'
<1>1. GuardRest'
  BY LoopGuard, PassGuard, PromoteGuard, SubmitGuard, SettleGuard DEF Next, OwnerStep
<1>2. OperatorRequest' => "operator-exit" \in incidents' /\ state' # "DUST_RETAINED"
  BY RequestStep
<1>3. QED
  BY <1>1, <1>2 DEF GuardOK, GuardRest

-----------------------------------------------------------------------------
(* The invariant. *)

LEMMA Initially ==
    ASSUME Init
    PROVE  IInv
<1>a. /\ Amount \in Nat /\ Protected \in 1..Amount /\ MaxGen \in Nat \ {0} /\ MaxCrashes \in Nat
      /\ 1 \in Gens /\ Gens \subseteq Nat \ {0} /\ IsFiniteSet(Gens)
  BY ProtectionAssumption, GensFinite
<1>1. TypeOK
  <2>1. gens \in [Gens -> Generations]
    <3>1. Gen("FIXED_OCO", "ENTRY_PENDING", TRUE, Protected) \in Generations /\ NoGen \in Generations
      BY <1>a DEF Gen, NoGen, Generations, GenStatus, ListModes
    <3>2. QED
      BY <3>1 DEF Init
  <2>2. imported \in [Gens -> [qty : 0..Amount, open : BOOLEAN]]
    <3>1. SellRow(0, FALSE) \in [qty : 0..Amount, open : BOOLEAN]
      BY <1>a DEF SellRow
    <3>2. QED
      BY <3>1 DEF Init
  <2>3. book \in [Gens -> Obligations] /\ snap \in [Gens -> Obligations]
    <3>1. Obligation("live", Protected, 0) \in Obligations /\ Obligation("none", 0, 0) \in Obligations
      BY <1>a DEF Obligation, Obligations, Resting
    <3>2. QED
      BY <3>1, UnreadType DEF Init
  <2>4. posts \in [Gens -> Nat] /\ latest \in Gens /\ state \in Labels /\ incidents \subseteq Incidents
    BY <1>a DEF Init, Labels
  <2>5. isOpen \in BOOLEAN /\ ready \in BOOLEAN /\ failed \in BOOLEAN
    BY Zenon DEF Init
  <2>6. /\ dust \in {"none", "prepared", "retained"} /\ pc \in Pcs /\ k \in 1..(MaxGen + 1)
        /\ pending \in 0..MaxGen /\ crashes \in 0..MaxCrashes
    BY <1>a DEF Init, Pcs
  <2>7. QED
    BY <2>1, <2>2, <2>3, <2>4, <2>5, <2>6 DEF TypeOK
<1>b. /\ book[1] = Obligation("live", Protected, 0) /\ posts[1] = 1
      /\ gens[1] = Gen("FIXED_OCO", "ENTRY_PENDING", TRUE, Protected)
      /\ \A g \in Gens : g # 1 => book[g] = Nothing /\ posts[g] = 0 /\ gens[g] = NoGen
      /\ \A g \in Gens : imported[g] = SellRow(0, FALSE)
      /\ \A g \in Gens : snap[g] = Nothing
  BY <1>a, UnreadType DEF Init, Nothing
<1>c. Totals
  BY <1>1, TotalsOfState
<1>2. NoRepeatedPost
  <2>1. \A g \in Gens : posts[g] \in {0, 1}
    BY <1>b
  <2>2. QED
    BY <2>1 DEF NoRepeatedPost
<1>3. NoOversell
  <2>1. UsedQty[1] = Protected /\ \A g \in Gens \ {1} : UsedQty[g] = 0
    BY <1>a, <1>b, <1>c DEF Totals, Nothing, Obligation, Resting
  <2>2. SumFunctionOnSet(UsedQty, Gens) = UsedQty[1] + SumFunctionOnSet(UsedQty, Gens \ {1})
    <3>1. \A g \in Gens : UsedQty[g] \in Int
      BY <1>c DEF Totals
    <3>2. IsFiniteSet(Gens) /\ 1 \in Gens
      BY <1>a
    <3>3. QED
      BY <3>1, <3>2, SumRemove
  <2>3. SumFunctionOnSet(UsedQty, Gens \ {1}) = 0
    BY <2>1, RestIsZero
  <2>4. Total(UsedQty) = Protected
    BY <1>a, <2>1, <2>2, <2>3 DEF Total
  <2>5. QED
    BY <1>a, <1>c, <2>4 DEF Totals, NoOversell
<1>4. BookOK
  BY <1>a, <1>b DEF BookOK, Nothing, Obligation, Resting
<1>5. RowsOK
  BY <1>a, <1>b DEF RowsOK, SellRow, Nothing, Obligation, Resting
<1>6. GensOK
  BY <1>a, <1>b
  DEF Init, GensOK, Consistent, NoGen, Gen, Nothing, Obligation, OPERATOR_PRE_SUBMISSION, NoPostPhases
<1>7. TradeOK
  <2>1. \A g \in Gens : ImportedQty[g] = 0
    BY <1>b, <1>c DEF Totals, SellRow
  <2>2. Total(ImportedQty) = 0
    BY <2>1, RestIsZero DEF Total
  <2>3. canonical # 0
    BY <1>a, <2>2 DEF canonical
  <2>4. (canonical = 0 /\ \A h \in Gens : ~imported[h].open) = FALSE
    BY <2>3
  <2>5. isOpen = TRUE /\ state = "ENTRY_PENDING"
    BY DEF Init
  <2>6. isOpen = ~(canonical = 0 /\ \A h \in Gens : ~imported[h].open)
    BY <2>4, <2>5, Zenon
  <2>7. (~isOpen => OpenOrders = {}) /\ (state = "EXIT_FILLED" => ~isOpen)
    BY <2>5
  <2>8. QED
    BY <2>6, <2>7, Zenon DEF TradeOK
<1>8. PassOK /\ SnapOK /\ ScanOK /\ PostOK /\ PromotionOK
  BY DEF Init, PassOK, SnapOK, ScanOK, PostOK, PromotionOK, OpenPcs, PromotionPcs, DustPcs
<1>9. DustOK
  BY DEF Init, DustOK, DustPcs
<1>10. GuardOK
  <2>1. ~OperatorRequest
    BY <1>b DEF Init, OperatorRequest, Gen
  <2>2. QED
    BY <2>1 DEF Init, GuardOK
<1>11. QED
  BY <1>1, <1>2, <1>3, <1>4, <1>5, <1>6, <1>7, <1>8, <1>9, <1>10 DEF IInv

LEMMA Stutters ==
    ASSUME IInv, UNCHANGED vars
    PROVE  IInv'
<1>1. UNCHANGED <<gens, latest, state, incidents, imported, isOpen, dust, book, posts,
                  ready, pc, k, snap, pending, failed, crashes>>
  BY DEF vars
<1>2. canonical' = canonical /\ Total(SoldQty)' = Total(SoldQty) /\ OpenOrders' = OpenOrders
  BY <1>1, CanonicalKept, SoldKept
<1>3. Total(LeftQty)' = Total(LeftQty)
  <2>1. LeftQty' = LeftQty
    BY <1>1 DEF LeftQty
  <2>2. QED
    BY <2>1, Zenon DEF Total
<1>4. TypeOK' /\ NoRepeatedPost' /\ BookOK' /\ RowsOK' /\ GensOK' /\ PassOK'
  BY <1>1 DEF IInv, TypeOK, NoRepeatedPost, BookOK, RowsOK, GensOK, PassOK
<1>5. NoOversell' /\ PostOK' /\ PromotionOK'
  BY <1>1, <1>2, <1>3 DEF IInv, NoOversell, PostOK, PromotionOK
<1>6. TradeOK'
  BY <1>1, <1>2, Zenon DEF IInv, TradeOK
<1>7. \A g \in Gens : Settled(g)' = Settled(g)
  BY <1>1, Zenon DEF Settled
<1>8. SnapOK' /\ ScanOK' /\ DustOK'
  BY <1>1, <1>2, <1>7 DEF IInv, SnapOK, ScanOK, DustOK
<1>9. GuardOK'
  BY <1>1 DEF IInv, GuardOK, Guarded, Stripped, Listed, OperatorRequest
<1>10. QED
  BY <1>4, <1>5, <1>6, <1>8, <1>9 DEF IInv

\* The inductive invariant: what every property below follows from.
THEOREM Inductive == Spec => []IInv
<1>1. Init => IInv
  BY Initially
<1>2. IInv /\ [Next]_vars => IInv'
  <2>1. ASSUME IInv, Next PROVE IInv'
    BY <2>1, TypeStep, PostsStep, OversellStep, BookStep, RowsStep, GensStep, TradeStep, PassStep, SnapStep,
       ScanStep, PostStep, PromotionStep, DustStep, GuardStep DEF IInv
  <2>2. QED
    BY <2>1, Stutters
<1>3. QED
  BY <1>1, <1>2, PTL DEF Spec

-----------------------------------------------------------------------------
(* What it proves. *)

\* Every variable keeps its type: quantities stay within the amount that the entry
\* bought, generations within the bound.
THEOREM TypeCorrect == Spec => []TypeOK
<1>1. IInv => TypeOK
  BY DEF IInv
<1>2. QED
  BY <1>1, Inductive, PTL

\* At most one obligation rests on the exchange, for any number of generations,
\* promotions, operator exits, crashes and lost answers.
THEOREM SingleObligation == Spec => []OneObligation
<1>1. ASSUME IInv PROVE OneObligation
  <2>1. SUFFICES ASSUME NEW g \in Gens, NEW h \in Gens, book[g].st \in Resting, book[h].st \in Resting
                 PROVE  g = h
    BY DEF OneObligation, OpenOrders
  <2>2. ~(h > g) /\ ~(g > h)
    BY <1>1, <2>1 DEF IInv, BookOK, Resting
  <2>3. g \in Nat /\ h \in Nat
    BY GensFinite
  <2>4. QED
    BY <2>2, <2>3
<1>2. QED
  BY <1>1, Inductive, PTL

\* What was sold and what may still be sold never exceeds what the entry bought.
THEOREM NeverOversold == Spec => []NoOversell
<1>1. IInv => NoOversell
  BY DEF IInv
<1>2. QED
  BY <1>1, Inductive, PTL

\* A generation is posted at most once, however often the process restarts and
\* whichever answers are lost.
THEOREM NeverRepeated == Spec => []NoRepeatedPost
<1>1. IInv => NoRepeatedPost
  BY DEF IInv
<1>2. QED
  BY <1>1, Inductive, PTL

\* The sell rows of the Trade are executions of the exchange, closed rows all of them.
THEOREM RowsAreExecutions == Spec => []ImportsAreExecutions
<1>1. IInv => ImportsAreExecutions
  BY DEF IInv, RowsOK, ImportsAreExecutions
<1>2. QED
  BY <1>1, Inductive, PTL

\* A closed Trade was sold and imported whole, nothing rests, and only a closed
\* Trade is labelled EXIT_FILLED.
THEOREM ClosedSettled == Spec => []ClosedIsSettled
<1>1. ASSUME IInv PROVE ClosedIsSettled
  <2>1. isOpen = ~(canonical = 0 /\ \A h \in Gens : ~imported[h].open)
    BY <1>1, Zenon DEF IInv, TradeOK
  <2>2. ~isOpen => canonical = 0
    BY <2>1
  <2>3. Total(ImportedQty) \in Nat /\ Amount \in Nat
    BY <1>1, TotalsOfState, ProtectionAssumption DEF IInv, Totals
  <2>4. ~isOpen => Total(ImportedQty) = Amount
    BY <2>2, <2>3 DEF canonical
  <2>5. (~isOpen => OpenOrders = {}) /\ (state = "EXIT_FILLED" => ~isOpen)
    BY <1>1 DEF IInv, TradeOK
  <2>6. QED
    BY <2>4, <2>5 DEF ClosedIsSettled
<1>2. QED
  BY <1>1, Inductive, PTL

\* Retained dust is settled: nothing rests, nothing is left to import, and the
\* remainder is neither zero nor executable.
THEOREM DustFinal == Spec => []DustIsFinal
<1>1. ASSUME IInv PROVE DustIsFinal
  <2>1. SUFFICES ASSUME dust = "retained"
                 PROVE  /\ OpenOrders = {}
                        /\ Amount - Total(SoldQty) \in 1..(MinExec - 1)
                        /\ \A g \in Gens : imported[g].qty = book[g].sold
    BY DEF DustIsFinal
  <2>2. (\A g \in Gens : Settled(g)) /\ canonical \in 1..(MinExec - 1)
    BY <1>1, <2>1 DEF IInv, DustOK
  <2>3. OpenOrders = {}
    BY <2>2 DEF OpenOrders, Settled, Settles
  <2>4. \A g \in Gens : imported[g].qty = book[g].sold
    BY <2>2, SettledRow
  <2>5. canonical = Amount - Total(SoldQty)
    BY <1>1, <2>4, TotalsSettled DEF IInv, canonical
  <2>6. QED
    BY <2>2, <2>3, <2>4, <2>5
<1>2. QED
  BY <1>1, Inductive, PTL

\* Entries are never admitted over a position that a cancel of ours left without
\* an obligation, unless a label or an incident blocks them.
THEOREM StrippedBlocks == Spec => []StrippedPositionBlocks
<1>1. ASSUME IInv PROVE StrippedPositionBlocks
  <2>1. SUFFICES ASSUME ready, Listed, state # "UNKNOWN", incidents = {}
                 PROVE  \E g \in Gens : Covers(g)
    BY DEF StrippedPositionBlocks, Covers
  <2>2. Guarded
    BY <1>1, <2>1 DEF IInv, GuardOK
  <2>3. QED
    BY <2>1, <2>2, NotStrippedCovers DEF Guarded
<1>2. QED
  BY <1>1, Inductive, PTL

\* The phase of the dust is only written by its retention.
LEMMA DustFrame ==
    ASSUME Next, pc \notin DustPcs
    PROVE  dust' = dust
<1>1. CASE \/ ManageOpenOrders \/ StartPass \/ AcknowledgeClosed \/ AcknowledgmentBlocked \/ FinishPass
           \/ Crash \/ RequestOperatorExit \/ Match
  BY <1>1 DEF ManageOpenOrders, StartPass, AcknowledgeClosed, AcknowledgmentBlocked, FinishPass, Crash,
              RequestOperatorExit, Match, trade, ImportCommits
<1>2. CASE Scan \/ ReconcileRaises
  BY <1>2 DEF Scan, SkipGeneration, ProveAbsent, RecoverIds, ReadGeneration, ReconcileRaises, trade
<1>3. CASE Decide
  BY <1>3 DEF Decide, ImportFirst, OperatorCancel, OperatorPrepare, OperatorDust, DustPending,
              MarkProtected, NewGeneration, trade
<1>4. CASE Promote
  BY <1>4 DEF Promote, NoPromotion, PromotionIntent, CancelAnswered, CancelUnknown,
       OldChildUnverified, OldFillUnverified, PromotionNotNeeded, ResidualPlanInvalid,
       ReplacementPending, PromotePost, PromoteQueryFinds, PromoteUnknown, PromoteBind, PromotionStops, trade
<1>5. CASE Submit
  BY <1>5 DEF Submit, OperatorCancelAnswered, OperatorCancelUnknown, Post, Bind, VerifyNew, trade
<1>6. CASE Settle
  BY <1>6 DEF Settle, ImportExit, CanonicalFails, AcknowledgeImport, AcknowledgeCanonical, DustPrepare,
              DustAcknowledge, DustRetain, ImportCommits, trade, DustPcs
<1>7. QED
  BY <1>1, <1>2, <1>3, <1>4, <1>5, <1>6 DEF Next, OwnerStep

\* Once the Trade is closed or its dust retained, neither the exchange nor the Trade
\* moves again, whatever the next passes, the operator and crashes do.
SettledForGood == [][~Listed => UNCHANGED <<book, posts, imported, isOpen, dust>>]_vars

\* No pass posts, cancels or imports for a position that was settled.
THEOREM SettlementFinal == Spec => SettledForGood
<1>1. ASSUME IInv, Next, ~Listed PROVE UNCHANGED <<book, posts, imported, isOpen, dust>>
  <2>1. CASE dust = "retained"
    <3>1. Quiet
      BY <1>1, <2>1, DustQuiet
    <3>2. pc \notin DustPcs
      BY <1>1, <2>1 DEF IInv, DustOK, DustPcs
    <3>3. QED BY <1>1, <3>1, <3>2, DustFrame DEF Quiet
  <2>2. CASE ~isOpen
    <3>1. pc \notin OpenPcs /\ OpenOrders = {}
      BY <1>1, <2>2 DEF IInv, PassOK, TradeOK
    <3>2. ~Sends /\ ~Cancels
      BY <3>1 DEF Sends, Cancels, OpenPcs, PromotionPcs
    <3>3. ~Imports
      BY <1>1, <3>1 DEF Imports, OpenPcs
    <3>4. ~Match
      BY <3>1 DEF OpenOrders, Match, Trigger, Expire, Fill, Resting
    <3>5. Quiet
      BY <1>1, <3>2, <3>3, <3>4, Effects
    <3>6. pc \notin DustPcs
      BY <3>1 DEF OpenPcs
    <3>7. QED BY <1>1, <3>5, <3>6, DustFrame DEF Quiet
  <2>3. QED BY <1>1, <2>1, <2>2 DEF Listed
<1>2. IInv /\ [Next]_vars => [~Listed => UNCHANGED <<book, posts, imported, isOpen, dust>>]_vars
  BY <1>1
<1>3. QED
  BY <1>2, Inductive, PTL DEF Spec, SettledForGood

-----------------------------------------------------------------------------
(* The ledger that the position implements. *)

\* A step that touches one generation at most.
LEMMA OneMoves ==
    ASSUME TypeOK, TypeOK', NEW g \in Gens, \A h \in Gens \ {g} : book'[h] = book[h]
    PROVE  /\ Total(SoldQty)' = (Total(SoldQty) - SoldQty[g]) + SoldQty'[g]
           /\ Total(LeftQty)' = (Total(LeftQty) - LeftQty[g]) + LeftQty'[g]
<1>1. Totals /\ Totals'
  BY TotalsOfState, TotalsOfNext
<1>2. /\ \A h \in Gens : SoldQty[h] \in Int /\ SoldQty'[h] \in Int
      /\ \A h \in Gens \ {g} : SoldQty'[h] = SoldQty[h]
  BY <1>1 DEF Totals
<1>3. /\ \A h \in Gens : LeftQty[h] \in Int /\ LeftQty'[h] \in Int
      /\ \A h \in Gens \ {g} : LeftQty'[h] = LeftQty[h]
  BY <1>1 DEF Totals
<1>4. Total(SoldQty') = (Total(SoldQty) - SoldQty[g]) + SoldQty'[g]
  BY <1>2, TotalUpdate
<1>5. Total(LeftQty') = (Total(LeftQty) - LeftQty[g]) + LeftQty'[g]
  BY <1>3, TotalUpdate
<1>6. QED BY <1>4, <1>5 DEF Total

LEMMA BookSame ==
    ASSUME book' = book
    PROVE  Total(SoldQty)' = Total(SoldQty) /\ Total(LeftQty)' = Total(LeftQty)
  BY DEF Total, SoldQty, LeftQty

LEMMA RowsSame ==
    ASSUME imported' = imported
    PROVE  Total(ImportedQty)' = Total(ImportedQty)
  BY DEF Total, ImportedQty

LEMMA NothingLeft == TypeOK /\ OpenOrders = {} => Total(LeftQty) = 0
<1> SUFFICES ASSUME TypeOK, OpenOrders = {} PROVE Total(LeftQty) = 0
  OBVIOUS
<1>1. \A g \in Gens : LeftQty[g] = 0
  BY TotalsOfState DEF Totals, OpenOrders
<1>2. QED BY <1>1, RestIsZero DEF Total

LEMMA NothingLeftNext == (TypeOK /\ OpenOrders = {})' => (Total(LeftQty) = 0)'
  BY NothingLeft, PTL

LEMMA BookedIsSold == IInv => Total(ImportedQty) <= Total(SoldQty)
  BY TotalsBounded

LEMMA BookedIsSoldNext == IInv' => (Total(ImportedQty) <= Total(SoldQty))'
  BY BookedIsSold, PTL

\* A position on which something rests, or for which something is sent, cancelled
\* or imported, is held.
LEMMA MovesAreHeld ==
    ASSUME IInv, Match \/ Sends \/ Cancels \/ Imports
    PROVE  isOpen /\ dust # "retained" /\ StatusOf = "held"
<1>1. CASE Match
  <2>1. OpenOrders # {}
    BY <1>1 DEF Match, Trigger, Expire, Fill, OpenOrders, Resting
  <2>2. isOpen
    BY <2>1 DEF IInv, TradeOK
  <2>3. dust # "retained"
    BY <2>1 DEF IInv, DustOK, Settled, Settles, OpenOrders
  <2>4. QED BY <2>2, <2>3 DEF StatusOf
<1>2. CASE Sends \/ Cancels
  BY <1>2 DEF IInv, PassOK, DustOK, OpenPcs, PromotionPcs, Sends, Cancels, StatusOf
<1>3. CASE Imports
  BY <1>3 DEF IInv, PassOK, DustOK, OpenPcs, Imports, Listed, StatusOf
<1>4. QED BY <1>1, <1>2, <1>3

LEMMA QuietRefines ==
    ASSUME IInv, IInv', Next, Quiet
    PROVE  [Position!PNext]_(Position!pvars)
<1>1. /\ Total(SoldQty)' = Total(SoldQty) /\ Total(LeftQty)' = Total(LeftQty)
      /\ Total(ImportedQty)' = Total(ImportedQty) /\ isOpen' = isOpen
  BY BookSame, RowsSame DEF Quiet
<1>2. CASE StatusOf' = StatusOf
  BY <1>1, <1>2 DEF Position!pvars
<1>3. CASE StatusOf' # StatusOf
  <2>1. isOpen /\ dust # "retained" /\ dust' = "retained"
    <3>1. CASE dust = "retained"
      <4>1. pc \notin DustPcs
        BY <3>1 DEF IInv, DustOK, DustPcs
      <4>2. QED BY <1>1, <1>3, <4>1, DustFrame DEF StatusOf
    <3>2. QED BY <1>1, <1>3, <3>1 DEF StatusOf
  <2>2. (\A g \in Gens : Settled(g)') /\ (canonical \in 1..(MinExec - 1))'
    BY <2>1 DEF IInv, DustOK
  <2>3. \A g \in Gens : Settled(g)
    BY <2>2 DEF Quiet, Settled
  <2>4. canonical \in 1..(MinExec - 1)
    BY <1>1, <2>2 DEF canonical
  <2>5. OpenOrders = {}
    BY <2>3 DEF OpenOrders, Settled, Settles
  <2>6. Total(LeftQty) = 0
    BY <2>5, NothingLeft DEF IInv
  <2>7. canonical = Amount - Total(SoldQty) /\ Total(ImportedQty) = Total(SoldQty)
    <3>1. \A g \in Gens : imported[g].qty = book[g].sold
      BY <2>3, SettledRow
    <3>2. canonical = Amount - Total(SoldQty)
      BY <3>1, TotalsSettled DEF IInv, canonical
    <3>3. Amount \in Nat /\ Total(ImportedQty) \in Nat /\ Total(SoldQty) \in Nat
      BY TotalsOfState, ProtectionAssumption DEF IInv, Totals
    <3>4. QED BY <3>2, <3>3 DEF canonical
  <2>8. StatusOf = "held" /\ StatusOf' = "retained"
    BY <1>1, <2>1 DEF StatusOf
  <2>9. Position!Retain
    BY <1>1, <2>4, <2>6, <2>7, <2>8 DEF Position!Retain
  <2>10. QED BY <2>9 DEF Position!PNext
<1>4. QED BY <1>2, <1>3

LEMMA ImportRefines ==
    ASSUME IInv, IInv', Next, Imports
    PROVE  Position!PNext
<1>1. PICK g \in Gens : ImportOf(g)
  BY ImportFacts
<1>2. Totals /\ Totals' /\ Amount \in Nat
  BY TotalsOfState, TotalsOfNext, ProtectionAssumption DEF IInv
<1>3. StatusOf = "held" /\ dust # "retained" /\ dust' = dust /\ book' = book
  BY <1>1, MovesAreHeld DEF ImportOf
<1>4. imported \in [Gens -> [qty : 0..Amount, open : BOOLEAN]] /\ RowsOK
  BY DEF IInv, TypeOK
<1>5. /\ imported'[g].qty = book[g].sold
      /\ \A h \in Gens \ {g} : imported'[h] = imported[h]
  BY <1>1, <1>4 DEF ImportOf, SellRow
<1>6. Total(ImportedQty') = (Total(ImportedQty) - ImportedQty[g]) + ImportedQty'[g]
  <2>1. /\ \A h \in Gens : ImportedQty[h] \in Int /\ ImportedQty'[h] \in Int
        /\ \A h \in Gens \ {g} : ImportedQty'[h] = ImportedQty[h]
    BY <1>2, <1>5 DEF Totals
  <2>2. QED BY <2>1, TotalUpdate
<1>7. ImportedQty[g] <= ImportedQty'[g] /\ ImportedQty[g] \in Nat /\ ImportedQty'[g] \in Nat
  BY <1>2, <1>4, <1>5 DEF Totals, RowsOK
<1>8. Total(ImportedQty)' = Total(ImportedQty')
  BY DEF Total
<1>9. Total(SoldQty)' = Total(SoldQty) /\ Total(LeftQty)' = Total(LeftQty)
  BY <1>3, BookSame
<1>10. Total(ImportedQty)' <= Total(SoldQty)'
  BY BookedIsSoldNext
<1>11. /\ Total(ImportedQty) \in Nat /\ Total(ImportedQty)' \in Nat /\ Total(SoldQty) \in Nat
  BY <1>2 DEF Totals
<1>12. Total(ImportedQty)' \in Total(ImportedQty)..Total(SoldQty)
  BY <1>6, <1>7, <1>8, <1>9, <1>10, <1>11
<1>13. CASE isOpen'
  <2>1. StatusOf' = StatusOf
    BY <1>3, <1>13 DEF StatusOf
  <2>2. Position!Book(Total(ImportedQty)')
    BY <1>3, <1>9, <2>1 DEF Position!Book
  <2>3. QED BY <1>12, <2>2 DEF Position!PNext
<1>14. CASE ~isOpen'
  <2>1. canonical' = 0
    <3>1. isOpen' = ~(canonical' = 0 /\ \A h \in Gens : ~imported'[h].open)
      BY <1>1 DEF ImportOf
    <3>2. QED BY <1>14, <3>1
  <2>2. Total(ImportedQty)' = Amount
    BY <1>2, <1>11, <2>1 DEF canonical
  <2>3. OpenOrders = {}
    BY <1>1, <1>14 DEF ImportOf
  <2>4. Total(LeftQty) = 0
    BY <2>3, NothingLeft DEF IInv
  <2>5. StatusOf' = "closed"
    BY <1>14 DEF StatusOf
  <2>6. Position!Book(Total(ImportedQty)')
    BY <1>3, <1>9, <2>2, <2>4, <2>5 DEF Position!Book
  <2>7. QED BY <1>12, <2>6 DEF Position!PNext
<1>15. QED BY <1>13, <1>14

LEMMA SendRefines ==
    ASSUME IInv, IInv', Next, Sends
    PROVE  [Position!PNext]_(Position!pvars)
<1>1. /\ Total(ImportedQty)' = Total(ImportedQty) /\ StatusOf' = StatusOf /\ StatusOf = "held"
  BY RowsSame, MovesAreHeld DEF Sends, StatusOf
<1>2. CASE NotCreated(latest)
  <2>1. Total(SoldQty)' = Total(SoldQty) /\ Total(LeftQty)' = Total(LeftQty)
    BY <1>2, BookSame DEF NotCreated
  <2>2. QED BY <1>1, <2>1 DEF Position!pvars
<1>3. CASE Create(latest)
  <2>1. PostReady
    BY PostsAreReady DEF Sends
  <2>2. /\ book \in [Gens -> Obligations] /\ latest \in Gens /\ BookOK
        /\ gens \in [Gens -> Generations] /\ Totals /\ Totals' /\ Amount \in Nat
    BY TotalsOfState, TotalsOfNext, ProtectionAssumption DEF IInv, TypeOK
  <2>3. /\ book'[latest].sold = 0 /\ book'[latest].left = gens[latest].qty
        /\ book'[latest].st \in Resting
        /\ \A g \in Gens \ {latest} : book'[g] = book[g]
    BY <1>3, <2>2 DEF Create, Obligation, Resting
  <2>4. book[latest] = Nothing
    BY <2>1, <2>2 DEF BookOK, PostReady
  <2>5. /\ SoldQty[latest] = 0 /\ SoldQty'[latest] = 0 /\ LeftQty[latest] = 0
        /\ LeftQty'[latest] = gens[latest].qty
    BY <2>2, <2>3, <2>4 DEF Totals, Nothing, Obligation, Resting
  <2>6. /\ Total(SoldQty)' = (Total(SoldQty) - SoldQty[latest]) + SoldQty'[latest]
        /\ Total(LeftQty)' = (Total(LeftQty) - LeftQty[latest]) + LeftQty'[latest]
    BY <2>2, <2>3, OneMoves DEF IInv
  <2>7. Total(LeftQty) = 0
    BY <2>1, NothingLeft DEF PostReady, IInv
  <2>8. Total(SoldQty) \in Nat /\ gens[latest].qty \in Nat
    BY <2>2 DEF Totals, Generations
  <2>9. Total(SoldQty)' = Total(SoldQty) /\ Total(LeftQty)' = gens[latest].qty
    BY <2>5, <2>6, <2>7, <2>8
  <2>10. gens[latest].qty <= Amount - Total(SoldQty)
    BY <2>1 DEF PostReady
  <2>11. CASE gens[latest].qty = 0
    BY <1>1, <2>7, <2>9, <2>11 DEF Position!pvars
  <2>12. CASE gens[latest].qty # 0
    <3>1. gens[latest].qty \in 1..(Amount - Total(SoldQty))
      BY <2>2, <2>8, <2>10, <2>12
    <3>2. Position!Cover(gens[latest].qty)
      BY <1>1, <2>7, <2>9 DEF Position!Cover
    <3>3. QED BY <3>1, <3>2 DEF Position!PNext
  <2>13. QED BY <2>11, <2>12
<1>4. QED BY <1>2, <1>3 DEF Sends

\* An obligation that ends, by a DELETE of ours or by itself.
LEMMA EndRefines ==
    ASSUME IInv, IInv', NEW g \in Gens, NEW s \in Ended, book[g].st \in Resting,
           book' = [book EXCEPT ![g] = Obligation(s, 0, book[g].sold)],
           imported' = imported, StatusOf = "held", StatusOf' = StatusOf
    PROVE  Position!PNext
<1>1. /\ book \in [Gens -> Obligations] /\ BookOK /\ TypeOK /\ TypeOK' /\ Totals /\ Totals'
  BY TotalsOfState, TotalsOfNext DEF IInv, TypeOK
<1>2. /\ book'[g].sold = book[g].sold /\ book'[g].st = s
      /\ \A h \in Gens \ {g} : book'[h] = book[h]
  BY <1>1 DEF Obligation
<1>3. \A h \in Gens \ {g} : book[h].st \notin Resting
  <2>1. SUFFICES ASSUME NEW h \in Gens, h # g, book[h].st \in Resting PROVE FALSE
    OBVIOUS
  <2>2. ~(h > g) /\ ~(g > h)
    BY <1>1, <2>1 DEF BookOK, Resting
  <2>3. g \in Nat /\ h \in Nat
    BY GensFinite
  <2>4. QED BY <2>1, <2>2, <2>3
<1>4. OpenOrders' = {}
  BY <1>2, <1>3 DEF OpenOrders, Resting, Ended
<1>5. Total(LeftQty)' = 0
  BY <1>1, <1>4, NothingLeftNext
<1>6. Total(SoldQty)' = Total(SoldQty)
  <2>1. Total(SoldQty)' = (Total(SoldQty) - SoldQty[g]) + SoldQty'[g]
    BY <1>1, <1>2, OneMoves
  <2>2. SoldQty'[g] = SoldQty[g] /\ SoldQty[g] \in Nat /\ Total(SoldQty) \in Nat
    BY <1>1, <1>2 DEF Totals
  <2>3. QED BY <2>1, <2>2
<1>7. Total(ImportedQty)' = Total(ImportedQty)
  BY RowsSame
<1>8. Position!Uncover
  BY <1>5, <1>6, <1>7 DEF Position!Uncover
<1>9. QED BY <1>8 DEF Position!PNext

LEMMA CancelRefines ==
    ASSUME IInv, IInv', Next, Cancels
    PROVE  [Position!PNext]_(Position!pvars)
<1>1. PICK g \in Gens : Delete(g)
  BY DEF Cancels
<1>2. imported' = imported /\ StatusOf' = StatusOf /\ StatusOf = "held"
  BY MovesAreHeld DEF Cancels, StatusOf
<1>3. CASE book[g].st \in Resting
  <2>1. book' = [book EXCEPT ![g] = Obligation("cancelled", 0, book[g].sold)]
    BY <1>1, <1>3 DEF Delete
  <2>2. "cancelled" \in Ended
    BY DEF Ended
  <2>3. QED BY <1>2, <1>3, <2>1, <2>2, EndRefines
<1>4. CASE book[g].st \notin Resting
  <2>1. book' = book
    BY <1>1, <1>4 DEF Delete, IInv, TypeOK
  <2>2. Total(SoldQty)' = Total(SoldQty) /\ Total(LeftQty)' = Total(LeftQty)
    BY <2>1, BookSame
  <2>3. Total(ImportedQty)' = Total(ImportedQty)
    BY <1>2, RowsSame
  <2>4. QED BY <1>2, <2>2, <2>3 DEF Position!pvars
<1>5. QED BY <1>3, <1>4

LEMMA MatchRefines ==
    ASSUME IInv, IInv', Next, Match
    PROVE  [Position!PNext]_(Position!pvars)
<1>1. imported' = imported /\ StatusOf' = StatusOf /\ StatusOf = "held"
  BY MovesAreHeld DEF Match, trade, StatusOf
<1>2. Total(ImportedQty)' = Total(ImportedQty)
  BY <1>1, RowsSame
<1>3. /\ book \in [Gens -> Obligations] /\ BookOK /\ TypeOK /\ TypeOK' /\ Totals /\ Totals'
      /\ Amount \in Nat
  BY TotalsOfState, TotalsOfNext, ProtectionAssumption DEF IInv, TypeOK
<1>4. ASSUME NEW g \in Gens, Expire(g) PROVE Position!PNext
  <2>1. /\ book[g].st \in Resting /\ "done" \in Ended
        /\ book' = [book EXCEPT ![g] = Obligation("done", 0, book[g].sold)]
    BY <1>4 DEF Expire, Ended
  <2>2. QED BY <1>1, <2>1, EndRefines
<1>5. ASSUME NEW g \in Gens, Trigger(g) PROVE UNCHANGED Position!pvars
  <2>1. /\ book'[g].sold = book[g].sold /\ book'[g].left = book[g].left
        /\ book'[g].st \in Resting /\ book[g].st \in Resting
        /\ \A h \in Gens \ {g} : book'[h] = book[h]
    BY <1>3, <1>5 DEF Trigger, Obligation, Resting, BookOK
  <2>2. SoldQty'[g] = SoldQty[g] /\ LeftQty'[g] = LeftQty[g]
    BY <1>3, <2>1 DEF Totals
  <2>3. /\ Total(SoldQty)' = (Total(SoldQty) - SoldQty[g]) + SoldQty'[g]
        /\ Total(LeftQty)' = (Total(LeftQty) - LeftQty[g]) + LeftQty'[g]
    BY <1>3, <2>1, OneMoves
  <2>4. /\ SoldQty[g] \in Nat /\ LeftQty[g] \in Nat /\ Total(SoldQty) \in Nat /\ Total(LeftQty) \in Nat
    BY <1>3 DEF Totals
  <2>5. Total(SoldQty)' = Total(SoldQty) /\ Total(LeftQty)' = Total(LeftQty)
    BY <2>2, <2>3, <2>4
  <2>6. QED BY <1>1, <1>2, <2>5 DEF Position!pvars
<1>6. ASSUME NEW g \in Gens, NEW q \in 1..Amount, Fill(g, q) PROVE Position!PNext
  <2>1. /\ book[g].st \in Resting /\ q <= book[g].left
        /\ book'[g].sold = book[g].sold + q /\ book'[g].left = book[g].left - q
        /\ book'[g].st = IF q = book[g].left THEN "done" ELSE "working"
        /\ \A h \in Gens \ {g} : book'[h] = book[h]
    BY <1>3, <1>6 DEF Fill, Obligation
  <2>2. book[g].left \in Nat /\ book[g].sold \in Nat /\ q \in Nat
    BY <1>3 DEF Obligations
  <2>3. SoldQty[g] = book[g].sold /\ LeftQty[g] = book[g].left
    BY <1>3, <2>1 DEF Totals
  <2>4. SoldQty'[g] = book[g].sold + q
    BY <1>3, <2>1 DEF Totals
  <2>5. LeftQty'[g] = book[g].left - q
    BY <1>3, <2>1, <2>2 DEF Totals, Resting
  <2>6. /\ Total(SoldQty)' = (Total(SoldQty) - SoldQty[g]) + SoldQty'[g]
        /\ Total(LeftQty)' = (Total(LeftQty) - LeftQty[g]) + LeftQty'[g]
    BY <1>3, <2>1, OneMoves
  <2>7. Total(SoldQty) \in Nat /\ Total(LeftQty) \in Nat
    BY <1>3 DEF Totals
  <2>8. Total(SoldQty)' = Total(SoldQty) + q /\ Total(LeftQty)' = Total(LeftQty) - q
    BY <2>2, <2>3, <2>4, <2>5, <2>6, <2>7
  <2>9. q \in 1..Total(LeftQty)
    <3>1. LeftQty[g] <= Total(LeftQty)
      BY <1>3, TotalType DEF Totals
    <3>2. QED BY <2>1, <2>2, <2>3, <2>7, <3>1
  <2>10. Position!Sell(q)
    BY <1>1, <1>2, <2>8 DEF Position!Sell
  <2>11. QED BY <2>9, <2>10 DEF Position!PNext
<1>7. QED BY <1>4, <1>5, <1>6 DEF Match

LEMMA InitRefines == Init => Position!PInit
<1> SUFFICES ASSUME Init PROVE Position!PInit
  OBVIOUS
<1>1. TypeOK /\ Totals
  BY Initially, TotalsOfState DEF IInv
<1>2. \A g \in Gens : SoldQty[g] = 0 /\ ImportedQty[g] = 0
  BY <1>1 DEF Totals, Init, Obligation, SellRow
<1>3. Total(SoldQty) = 0 /\ Total(ImportedQty) = 0
  BY <1>2, RestIsZero DEF Total
<1>4. Total(LeftQty) \in 1..Amount
  <2>1. 1 \in Gens /\ LeftQty[1] = Protected
    BY <1>1, GensFinite DEF Totals, Init, Obligation, Resting
  <2>2. LeftQty[1] <= Total(LeftQty)
    BY <1>1, <2>1, TotalType DEF Totals
  <2>3. Total(LeftQty) <= Amount
    BY <1>1, <1>3, Initially DEF IInv, NoOversell, Totals
  <2>4. QED BY <1>1, <2>1, <2>2, <2>3, ProtectionAssumption DEF Totals
<1>5. StatusOf = "held"
  BY DEF Init, StatusOf
<1>6. QED BY <1>3, <1>4, <1>5 DEF Position!PInit

\* A step of the position is a step of the ledger, or none.
LEMMA StepRefines == IInv /\ IInv' /\ [Next]_vars => [Position!PNext]_(Position!pvars)
<1>1. ASSUME IInv, IInv', Next PROVE [Position!PNext]_(Position!pvars)
  BY <1>1, Effects, QuietRefines, ImportRefines, SendRefines, CancelRefines, MatchRefines
<1>2. ASSUME UNCHANGED vars PROVE UNCHANGED Position!pvars
  <2>1. book' = book /\ imported' = imported /\ StatusOf' = StatusOf
    BY <1>2 DEF vars, StatusOf
  <2>2. QED BY <2>1, BookSame, RowsSame DEF Position!pvars
<1>3. QED BY <1>1, <1>2

\* Passes, promotions, operator exits, imports, lost answers and crashes implement
\* the ledger of PositionContract.
THEOREM PositionRefines == Spec => ImplementsPosition
  BY InitRefines, Inductive, StepRefines, PTL DEF Spec, ImplementsPosition, Position!PSpec

================================================================================
