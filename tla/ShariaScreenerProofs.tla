-------------------------- MODULE ShariaScreenerProofs --------------------------
(***************************************************************************)
(* Proofs about ShariaScreener, for any bases, requests, decisions and     *)
(* quotas, and for any number of days, attempts, failed writes and crashes.*)
(***************************************************************************)
EXTENDS ShariaScreener, SumLemmas

-----------------------------------------------------------------------------
(* The inductive invariant, in named parts. *)

Rows == [status : Statuses, attempts : Nat]
Cards == [id : Ids, version : Nat, action : {"APPROVE", "REJECT"}]
Records == [id : Ids \cup Decisions, report : Reports, day : 1..Days]
Jobs == [id : Ids \cup Decisions, report : {None} \cup Reports, publish : BOOLEAN,
         then : {"ingest", "decision", "done", "fail"}]

ScanPcs == {"claim", "screen", "mark", "remark"}
WritePcs == {"report", "result", "status"}

\* A decision waits only after its card was shown.
InboxOK == \A d \in Decisions : d \in inbox => card[d] # None

\* A report of the owner's decision on the card c: it names the card's version, and
\* opens the gate only for an approval.
DecidedOn(c, report) ==
    /\ c # None /\ report.version = c.version
    /\ report.code = "green" => c.action = "APPROVE"

\* What is being published: a denial, the owner's decision or a screening, and only
\* a decision is ever green.
JobOK ==
    /\ at \in ScanPcs \cup WritePcs => job \in Jobs
    /\ at \in ScanPcs => job.id \in Ids /\ job.then \in {"done", "fail"}
    /\ at \in WritePcs =>
          /\ job.report \in Reports
          /\ job.publish = (job.then # "ingest")
          /\ job.then = "decision" => job.id \in Decisions /\ DecidedOn(card[job.id], job.report)
          /\ job.then # "decision" => job.id \in Ids /\ job.report.code # "green"

\* Work that is not urgent was chosen while the reserve was untouched.
ClaimOK == at = "claim" /\ ~Urgent(job.id) => Cost(Ids) < Daily - Reserve

Green(b) == record[b] # None /\ record[b].report.code = "green"

\* A green record is the owner's approval of a card of its base.
RecordOK ==
    \A b \in Bases : Green(b) => /\ record[b].id \in Decisions
                                 /\ DecidedOn(card[record[b].id], record[b].report)
                                 /\ card[record[b].id].id.base = b

\* A screening is marked done when its record has replaced what was there.
MarkOK == at = "mark" /\ job.then = "done" => ~Green(job.id.base)

IInv == /\ ScreenerTypeOK /\ QuotaHolds /\ InboxOK /\ JobOK /\ ClaimOK
        /\ RecordOK /\ MarkOK

-----------------------------------------------------------------------------
(* Ids and what they cost. *)

LEMMA OwnIdsFinite == IsFiniteSet([class : {"all", "idle"}, base : Bases, n : 1..Days])
<1> DEFINE Triples == ({"all", "idle"} \X Bases) \X (1..Days)
           Own == [class : {"all", "idle"}, base : Bases, n : 1..Days]
           f == [t \in Triples |-> [class |-> t[1][1], base |-> t[1][2], n |-> t[2]]]
<1>1. IsFiniteSet({"all", "idle"})
  <2>1. IsFiniteSet({"all"}) /\ IsFiniteSet({"idle"})
    BY FS_Singleton
  <2>2. IsFiniteSet({"all"} \cup {"idle"})
    BY <2>1, FS_Union
  <2>3. {"all"} \cup {"idle"} = {"all", "idle"}
    OBVIOUS
  <2>4. QED BY <2>2, <2>3
<1>2. IsFiniteSet(1..Days)
  <2>1. 1 \in Int /\ Days \in Int
    BY ScreenerAssumption
  <2>2. QED BY <2>1, FS_Interval
<1>3. IsFiniteSet(Triples)
  BY <1>1, <1>2, ScreenerAssumption, FS_Product
<1>4. f \in Surjection(Triples, Own)
  <2>1. f \in [Triples -> Own]
    OBVIOUS
  <2>2. ASSUME NEW r \in Own PROVE \E t \in Triples : f[t] = r
    <3>1. <<<<r.class, r.base>>, r.n>> \in Triples
      OBVIOUS
    <3>2. f[<<<<r.class, r.base>>, r.n>>] = [class |-> r.class, base |-> r.base, n |-> r.n]
      BY <3>1
    <3>3. r = [class |-> r.class, base |-> r.base, n |-> r.n]
      OBVIOUS
    <3>4. QED BY <3>1, <3>2, <3>3
  <2>3. QED BY <2>1, <2>2 DEF Surjection
<1>5. QED BY <1>3, <1>4, FS_Surjection

LEMMA IdsFinite ==
    /\ IsFiniteSet(Ids)
    /\ \A S \in SUBSET Ids : IsFiniteSet(S)
<1>1. IsFiniteSet(Ids)
  BY OwnIdsFinite, ScreenerAssumption, FS_Union DEF Ids
<1>2. QED BY <1>1, FS_Subset

LEMMA IdFields == \A id \in Ids : id.class \in Classes /\ id.base \in Bases
BY ScreenerAssumption DEF Ids, Classes

LEMMA CostNat ==
    ASSUME NEW F \in [Ids -> Nat], NEW S \in SUBSET Ids
    PROVE  SumFunctionOnSet(F, S) \in Nat
<1>1. IsFiniteSet(S)
  BY IdsFinite
<1>2. \A x \in S : F[x] \in Nat
  OBVIOUS
<1>3. QED BY <1>1, <1>2, SumNat

\* A claim adds one to the cost of the sets its request belongs to.
LEMMA CostOfClaim ==
    ASSUME NEW F \in [Ids -> Nat], NEW G \in [Ids -> Nat], NEW id \in Ids, NEW S \in SUBSET Ids,
           G[id] = F[id] + 1, \A x \in Ids \ {id} : G[x] = F[x]
    PROVE  /\ id \in S => SumFunctionOnSet(G, S) = SumFunctionOnSet(F, S) + 1
           /\ id \notin S => SumFunctionOnSet(G, S) = SumFunctionOnSet(F, S)
<1>1. IsFiniteSet(S)
  BY IdsFinite
<1>2. /\ \A x \in S : F[x] \in Int /\ G[x] \in Int
      /\ G[id] = F[id] + 1
      /\ \A x \in S \ {id} : G[x] = F[x]
  OBVIOUS
<1>3. SumFunctionOnSet(F, S) \in Nat
  BY CostNat
<1>4. F[id] \in Nat
  OBVIOUS
<1>5. ASSUME id \in S PROVE SumFunctionOnSet(G, S) = SumFunctionOnSet(F, S) + 1
  <2>1. id \in S
    BY <1>5
  <2>2. \A x \in S : F[x] \in Int /\ G[x] \in Int
    BY <1>2
  <2>3. \A x \in S \ {id} : G[x] = F[x]
    BY <1>2
  <2>4. SumFunctionOnSet(G, S) = (SumFunctionOnSet(F, S) - F[id]) + G[id]
    BY <1>1, <2>1, <2>2, <2>3, SumUpdate
  <2>5. QED BY <2>4, <1>2, <1>3, <1>4
<1>6. ASSUME id \notin S PROVE SumFunctionOnSet(G, S) = SumFunctionOnSet(F, S)
  <2>1. \A x \in S : F[x] \in Int /\ G[x] = F[x]
    BY <1>2, <1>6
  <2>2. QED BY <1>1, <2>1, SumCongruent
<1>7. QED BY <1>5, <1>6

\* At midnight nothing has been spent.
LEMMA CostOfNothing ==
    ASSUME NEW F \in [Ids -> Nat], NEW S \in SUBSET Ids, NEW G,
           G = [id \in Ids |-> 0]
    PROVE  SumFunctionOnSet(G, S) <= SumFunctionOnSet(F, S)
<1>1. IsFiniteSet(S)
  BY IdsFinite
<1>2. \A x \in S : G[x] \in Int /\ F[x] \in Int /\ G[x] <= F[x]
  OBVIOUS
<1>3. QED BY <1>1, <1>2, SumMonotone

LEMMA NoCost ==
    ASSUME NEW S \in SUBSET Ids, NEW G, G = [id \in Ids |-> 0]
    PROVE  SumFunctionOnSet(G, S) = 0
<1> DEFINE P == {s \in SUBSET S : SumFunctionOnSet(G, s) = 0}
<1>1. IsFiniteSet(S)
  BY IdsFinite
<1>2. {} \in P
  BY SumEmpty
<1>3. ASSUME NEW s \in SUBSET S, s # {}, \A x \in s : s \ {x} \in P PROVE s \in P
  <2>1. PICK x \in s : TRUE
    BY <1>3
  <2>2. IsFiniteSet(s)
    BY IdsFinite
  <2>3. \A y \in s : G[y] \in Int
    OBVIOUS
  <2>4. SumFunctionOnSet(G, s) = G[x] + SumFunctionOnSet(G, s \ {x})
    BY <2>2, <2>3, SumRemove
  <2>5. G[x] = 0 /\ SumFunctionOnSet(G, s \ {x}) = 0
    BY <1>3
  <2>6. QED BY <2>4, <2>5
<1>4. S \in P
  <2> HIDE DEF P
  <2>1. QED BY <1>1, <1>2, <1>3, SubsetInduction
<1>5. QED BY <1>4

-----------------------------------------------------------------------------
(* The rows of the queue. *)

\* Same attempts everywhere, and nothing becomes DONE.
SameAttempts(table) ==
    /\ table \in [Ids -> Rows]
    /\ \A id \in Ids : /\ table[id].attempts = rows[id].attempts
                       /\ table[id].status = "DONE" => rows[id].status = "DONE"

LEMMA StatusUpdate ==
    ASSUME rows \in [Ids -> Rows], NEW id \in Ids, NEW s \in Statuses, s # "DONE"
    PROVE  /\ SameAttempts([rows EXCEPT ![id].status = s])
           /\ SameAttempts([rows EXCEPT ![id] = [status |-> s, attempts |-> rows[id].attempts]])
<1>1. /\ rows[id].attempts \in Nat
      /\ [rows EXCEPT ![id].status = s] \in [Ids -> Rows]
      /\ [rows EXCEPT ![id] = [status |-> s, attempts |-> rows[id].attempts]] \in [Ids -> Rows]
  BY DEF Rows
<1>2. \A i \in Ids : [rows EXCEPT ![id].status = s][i] =
                         IF i = id THEN [rows[id] EXCEPT !.status = s] ELSE rows[i]
  OBVIOUS
<1>3. \A i \in Ids : [rows EXCEPT ![id] = [status |-> s, attempts |-> rows[id].attempts]][i] =
                         IF i = id THEN [status |-> s, attempts |-> rows[id].attempts] ELSE rows[i]
  OBVIOUS
<1>4. /\ [rows[id] EXCEPT !.status = s].attempts = rows[id].attempts
      /\ [rows[id] EXCEPT !.status = s].status = s
  BY DEF Rows
<1>5. QED BY <1>1, <1>2, <1>3, <1>4 DEF SameAttempts

LEMMA RowsSame == ASSUME rows \in [Ids -> Rows] PROVE SameAttempts(rows)
BY DEF SameAttempts

LEMMA EnqueueKeeps ==
    ASSUME rows \in [Ids -> Rows], NEW id \in Ids
    PROVE  SameAttempts(Enqueue(id, rows))
<1>1. CASE rows[id].status # "NONE"
  BY <1>1, RowsSame DEF Enqueue
<1>2. CASE rows[id].status = "NONE"
  <2> DEFINE s == IF Suppressed(id, rows) THEN "REJECTED" ELSE "QUEUED"
  <2>1. s \in Statuses /\ s # "DONE"
    BY DEF Statuses
  <2>2. Enqueue(id, rows) = [rows EXCEPT ![id].status = s]
    BY <1>2 DEF Enqueue
  <2>3. QED
    <3> HIDE DEF s
    <3>1. QED BY <2>1, <2>2, StatusUpdate
<1>3. QED BY <1>1, <1>2

LEMMA EnqueueAllKeeps ==
    ASSUME rows \in [Ids -> Rows], NEW class, NEW S
    PROVE  SameAttempts(EnqueueAll(class, S))
<1>1. \A id \in Ids : /\ Enqueue(id, rows)[id] \in Rows
                      /\ Enqueue(id, rows)[id].attempts = rows[id].attempts
                      /\ Enqueue(id, rows)[id].status = "DONE" => rows[id].status = "DONE"
  BY EnqueueKeeps DEF SameAttempts
<1>2. QED BY <1>1, Zenon DEF EnqueueAll, SameAttempts

LEMMA FailedKeeps ==
    ASSUME rows \in [Ids -> Rows], NEW id \in Ids
    PROVE  SameAttempts(Failed(id))
<1>1. "QUEUED" \in Statuses /\ "FAILED" \in Statuses
  BY DEF Statuses
<1>2. \/ Failed(id) = [rows EXCEPT ![id] = [status |-> "QUEUED", attempts |-> rows[id].attempts]]
      \/ Failed(id) = [rows EXCEPT ![id] = [status |-> "FAILED", attempts |-> rows[id].attempts]]
  BY DEF Failed
<1>3. QED BY <1>1, <1>2, StatusUpdate

LEMMA RequeueKeeps ==
    ASSUME rows \in [Ids -> Rows]
    PROVE  SameAttempts([id \in Ids |-> IF rows[id].status = "RUNNING"
                                        THEN [rows[id] EXCEPT !.status = "QUEUED"] ELSE rows[id]])
<1>1. \A id \in Ids : /\ [rows[id] EXCEPT !.status = "QUEUED"] \in Rows
                      /\ [rows[id] EXCEPT !.status = "QUEUED"].attempts = rows[id].attempts
                      /\ [rows[id] EXCEPT !.status = "QUEUED"].status = "QUEUED"
  BY DEF Rows, Statuses
<1>2. QED BY <1>1 DEF SameAttempts

\* Only a claim adds an attempt and only MarkDone finishes a row.
LEMMA RowMoves ==
    ASSUME ScreenerTypeOK, ScreenerNext
    PROVE  SameAttempts(rows') \/ Claim \/ MarkDone
<1>1. rows \in [Ids -> Rows]
  BY DEF ScreenerTypeOK, Rows
<1>2. SUFFICES ASSUME rows' # rows, ~Claim, ~MarkDone PROVE SameAttempts(rows')
  BY <1>1, RowsSame
<1>3. CASE \E id \in Requests : IngestRequest(id)
  BY <1>1, <1>3, EnqueueKeeps DEF IngestRequest, Ids
<1>4. CASE IngestScanAll
  BY <1>1, <1>4, EnqueueAllKeeps DEF IngestScanAll
<1>5. CASE MarkFailed
  <2>1. job.id \in Ids
    BY <1>5 DEF MarkFailed, ScreenerTypeOK
  <2>2. QED BY <1>1, <1>5, <2>1, FailedKeeps DEF MarkFailed
<1>6. CASE IdleEnqueue
  BY <1>1, <1>2, <1>6, EnqueueAllKeeps DEF IdleEnqueue
<1>7. CASE ScreenerStart
  BY <1>1, <1>7, RequeueKeeps DEF ScreenerStart
<1>8. CASE IngestFails
  BY <1>1, <1>2, <1>8, EnqueueAllKeeps DEF IngestFails
<1>9. CASE \/ LoopBegins \/ IngestEnds \/ DecisionsEnd \/ Choose \/ ChooseNothing \/ ClaimDeferred
           \/ WriteReport \/ WriteResult \/ WriteStatus
           \/ \E x \in Requests \cup {ScanAll} : DropRequest(x)
           \/ \E d \in Decisions : RefuseDecision(d) \/ RepeatDecision(d) \/ ApplyDecision(d)
           \/ \E code \in Verdicts \cup {"denied"} : Screen(code)
  BY <1>2, <1>9 DEF LoopBegins, IngestEnds, DecisionsEnd, Choose, ChooseNothing, ClaimDeferred,
                    WriteReport, WriteResult, WriteStatus, RefuseDecision, RepeatDecision,
                    ApplyDecision, Screen, DropRequest, queue
<1>10. CASE Producers \/ WriteFails \/ MarkRaises \/ ScreenerCrash \/ Midnight
  BY <1>2, <1>10 DEF Producers, SendRequest, SendScanAll, ShowCard, TapDecision, WriteFails,
                     MarkRaises, ScreenerCrash, Midnight, queue
<1>11. QED
  BY <1>2, <1>3, <1>4, <1>5, <1>6, <1>7, <1>8, <1>9, <1>10 DEF ScreenerNext, ScreenerStep

-----------------------------------------------------------------------------
(* Who writes what. *)

ShowsCard == \E d \in Decisions, id \in Ids, action \in {"APPROVE", "REJECT"} : ShowCard(d, id, action)

Drops == \E x \in Requests \cup {ScanAll} : DropRequest(x)

LEMMA Frames ==
    ASSUME ScreenerNext
    PROVE  /\ spent' = spent \/ Claim \/ Midnight
           /\ (UNCHANGED files) \/ WriteReport \/ WriteResult \/ WriteStatus
           /\ card' = card \/ ShowsCard
           /\ day' = day \/ Midnight
           /\ stranded' = stranded \/ MarkRaises \/ ScreenerStart
           /\ superseded' = superseded \/ MarkDone
           /\ dropped' = dropped \/ Drops
           /\ upsets' = upsets \/ Upset
<1>1. CASE ScreenerStep
  <2>1. CASE \/ LoopBegins \/ IngestScanAll \/ IngestEnds \/ DecisionsEnd \/ Choose \/ ChooseNothing
             \/ Claim \/ ClaimDeferred \/ \E id \in Requests : IngestRequest(id)
    BY <2>1 DEF LoopBegins, IngestScanAll, IngestEnds, DecisionsEnd, Choose, ChooseNothing, Claim,
                ClaimDeferred, IngestRequest, queue, files, history
  <2>2. CASE \/ \E d \in Decisions : RefuseDecision(d) \/ RepeatDecision(d) \/ ApplyDecision(d)
             \/ \E code \in Verdicts \cup {"denied"} : Screen(code)
             \/ Drops
    BY <2>2 DEF RefuseDecision, RepeatDecision, ApplyDecision, Screen, Drops, DropRequest, queue, files, history
  <2>3. CASE WriteReport \/ WriteResult \/ WriteStatus
    BY <2>3 DEF WriteReport, WriteResult, WriteStatus, queue, history
  <2>4. CASE MarkDone \/ MarkFailed \/ IdleEnqueue \/ ScreenerStart
    BY <2>4 DEF MarkDone, MarkFailed, IdleEnqueue, ScreenerStart, files, history
  <2>5. QED BY <1>1, <2>1, <2>2, <2>3, <2>4 DEF ScreenerStep, Drops
<1>2. CASE Producers
  <2>1. CASE ShowsCard
    BY <2>1 DEF ShowsCard, ShowCard, queue, files, history
  <2>2. CASE \/ (\E id \in Requests : SendRequest(id)) \/ SendScanAll
             \/ \E d \in Decisions : TapDecision(d)
    BY <2>2 DEF SendRequest, SendScanAll, TapDecision, queue, files, history
  <2>3. QED BY <1>2, <2>1, <2>2 DEF Producers, ShowsCard
<1>3. CASE IngestFails \/ WriteFails \/ MarkRaises \/ ScreenerCrash \/ Midnight
  BY <1>3 DEF IngestFails, WriteFails, MarkRaises, ScreenerCrash, Midnight, queue, files, history
<1>4. QED BY <1>1, <1>2, <1>3 DEF ScreenerNext

\* The inbox loses files; it gains requests, and decisions whose card was shown.
LEMMA InboxMoves ==
    ASSUME ScreenerTypeOK, ScreenerNext
    PROVE  /\ \A x \in inbox' : \/ x \in inbox \/ x \in Requests \/ x = ScanAll
                                \/ x \in Decisions /\ card[x] # None
           /\ batch' \subseteq inbox'
<1>0. batch \subseteq inbox
  BY DEF ScreenerTypeOK
<1>1. CASE inbox' = inbox /\ batch' \subseteq inbox
  BY <1>1
<1>2. CASE \E x : Archive(x)
  BY <1>0, <1>2 DEF Archive
<1>3. CASE LoopBegins \/ IngestEnds \/ DecisionsEnd \/ Choose \/ ChooseNothing \/ Claim \/ ClaimDeferred
  BY <1>0, <1>1, <1>3 DEF LoopBegins, IngestEnds, DecisionsEnd, Choose, ChooseNothing, Claim, ClaimDeferred
<1>4. CASE \E id \in Requests : IngestRequest(id)
  <2>1. PICK id \in Requests : IngestRequest(id)
    BY <1>4
  <2>2. UNCHANGED <<inbox, batch>> \/ Archive(id)
    BY <2>1 DEF IngestRequest
  <2>3. QED BY <1>0, <1>1, <1>2, <2>2
<1>5. CASE IngestScanAll \/ Drops
  BY <1>2, <1>5 DEF IngestScanAll, Drops, DropRequest
<1>6. CASE \E d \in Decisions : RefuseDecision(d) \/ RepeatDecision(d) \/ ApplyDecision(d)
  BY <1>0, <1>1, <1>2, <1>6 DEF RefuseDecision, RepeatDecision, ApplyDecision
<1>7. CASE \E code \in Verdicts \cup {"denied"} : Screen(code)
  BY <1>0, <1>1, <1>7 DEF Screen
<1>8. CASE WriteReport \/ WriteResult \/ WriteStatus
  <2>1. CASE WriteReport
    BY <1>0, <1>1, <2>1 DEF WriteReport
  <2>2. CASE UNCHANGED <<inbox, batch, job>>
    BY <1>0, <1>1, <2>2
  <2>3. CASE Published
    BY <1>2, <2>2, <2>3 DEF Published
  <2>4. QED BY <1>8, <2>1, <2>2, <2>3 DEF WriteResult, WriteStatus
<1>9. CASE MarkDone \/ MarkFailed \/ IdleEnqueue \/ ScreenerStart
  BY <1>0, <1>1, <1>9 DEF MarkDone, MarkFailed, IdleEnqueue, ScreenerStart
<1>10. CASE Producers
  BY <1>0, <1>10 DEF Producers, SendRequest, SendScanAll, ShowCard, TapDecision
<1>11. CASE IngestFails \/ WriteFails \/ MarkRaises \/ ScreenerCrash \/ Midnight
  BY <1>0, <1>1, <1>11 DEF IngestFails, WriteFails, LoopEnds, MarkRaises, ScreenerCrash, Midnight
<1>12. QED
  BY <1>3, <1>4, <1>5, <1>6, <1>7, <1>8, <1>9, <1>10, <1>11 DEF ScreenerNext, ScreenerStep, Drops

-----------------------------------------------------------------------------
(* The loop and what it publishes. *)

Pcs == {"loop", "ingest", "decisions", "choose", "idle", "down"} \cup ScanPcs \cup WritePcs

\* A card that was shown is never changed.
LEMMA CardsKept ==
    ASSUME ScreenerTypeOK, ScreenerNext, NEW d \in Decisions, card[d] # None
    PROVE  card'[d] = card[d]
<1>1. card \in [Decisions -> {None} \cup Cards]
  BY DEF ScreenerTypeOK, Cards
<1>2. CASE ShowsCard
  BY <1>1, <1>2 DEF ShowsCard, ShowCard
<1>3. QED BY <1>2, Frames

\* What JobOK asks of a job j that is being written.
Writable(j) ==
    /\ j \in Jobs /\ j.report \in Reports
    /\ j.publish = (j.then # "ingest")
    /\ j.then = "decision" => j.id \in Decisions /\ DecidedOn(card[j.id], j.report)
    /\ j.then # "decision" => j.id \in Ids /\ j.report.code # "green"

LEMMA WritableKept ==
    ASSUME ScreenerTypeOK, ScreenerNext, NEW j, Writable(j)
    PROVE  Writable(j)'
BY CardsKept DEF Writable, DecidedOn

LEMMA WritableJob ==
    ASSUME JobOK, at \in WritePcs
    PROVE  Writable(job)
BY DEF JobOK, Writable

LEMMA StartsWriting ==
    ASSUME ScreenerTypeOK, ScreenerNext, at' \in WritePcs, NEW j, Writable(j), job' = j
    PROVE  JobOK'
<1>1. Writable(j)'
  BY WritableKept
<1>2. Writable(job)'
  BY <1>1 DEF Writable
<1>3. at' \notin ScanPcs
  BY DEF ScanPcs, WritePcs
<1>4. QED BY <1>2, <1>3 DEF JobOK, Writable

LEMMA IngestJob ==
    ASSUME IInv, ScreenerNext, NEW id \in Requests, IngestRequest(id)
    PROVE  at' \in Pcs /\ JobOK'
<1>1. CASE at' = at
  BY <1>1 DEF IngestRequest, Pcs, JobOK, ScanPcs, WritePcs
<1>2. CASE at' # at
  <2> DEFINE j == [id |-> id, report |-> [code |-> "denied", version |-> 0],
                   publish |-> FALSE, then |-> "ingest"]
  <2>1. at' = "report" /\ job' = j
    BY <1>2 DEF IngestRequest
  <2>2. Writable(j)
    BY DEF Writable, Jobs, Reports, Ids
  <2>3. at' \in WritePcs /\ ScreenerTypeOK
    BY <2>1 DEF WritePcs, IInv
  <2>4. JobOK'
    <3> HIDE DEF j
    <3>1. QED BY <2>1, <2>2, <2>3, StartsWriting
  <2>5. QED BY <2>3, <2>4 DEF Pcs
<1>3. QED BY <1>1, <1>2

LEMMA DecisionJob ==
    ASSUME IInv, ScreenerNext, NEW d \in Decisions, ApplyDecision(d)
    PROVE  at' \in Pcs /\ JobOK'
<1> DEFINE code == IF card[d].action = "APPROVE" THEN "green" ELSE "rejected"
           report == [code |-> code, version |-> reports[card[d].id].version]
           j == [id |-> d, report |-> report, publish |-> TRUE, then |-> "decision"]
<1>1. at' = "report" /\ job' = j
  BY DEF ApplyDecision
<1>2. card[d] # None /\ card[d] \in Cards
  BY DEF ApplyDecision, IInv, InboxOK, ScreenerTypeOK, Cards
<1>3. reports[card[d].id].version = card[d].version /\ card[d].version \in Nat
  BY <1>2 DEF ApplyDecision, Unchanged, Cards
<1>4. report \in Reports
  BY <1>3 DEF Reports
<1>5. DecidedOn(card[d], report)
  BY <1>2, <1>3 DEF DecidedOn
<1>6. Writable(j)
  <2> HIDE DEF report
  <2>1. QED BY <1>4, <1>5 DEF Writable, Jobs
<1>7. at' \in WritePcs /\ ScreenerTypeOK
  BY <1>1 DEF WritePcs, IInv
<1>8. JobOK'
  <2> HIDE DEF j
  <2>1. QED BY <1>1, <1>6, <1>7, StartsWriting
<1>9. QED BY <1>7, <1>8 DEF Pcs

LEMMA ScreenJob ==
    ASSUME IInv, ScreenerNext, NEW code \in Verdicts \cup {"denied"}, Screen(code)
    PROVE  at' \in Pcs /\ JobOK'
<1> DEFINE report == [code |-> code, version |-> rows[job.id].attempts]
           then == IF code = "denied" THEN "fail" ELSE "done"
           j == [id |-> job.id, report |-> report, publish |-> TRUE, then |-> then]
<1>1. at' = "report" /\ job' = j
  BY DEF Screen
<1>2. job.id \in Ids /\ rows[job.id].attempts \in Nat
  BY DEF Screen, IInv, ScreenerTypeOK
<1>3. report \in Reports /\ report.code # "green"
  BY <1>2, ScreenerAssumption DEF Reports
<1>4. Writable(j)
  <2> HIDE DEF report
  <2>1. QED BY <1>2, <1>3 DEF Writable, Jobs
<1>5. at' \in WritePcs /\ ScreenerTypeOK
  BY <1>1 DEF WritePcs, IInv
<1>6. JobOK'
  <2> HIDE DEF j
  <2>1. QED BY <1>1, <1>4, <1>5, StartsWriting
<1>7. QED BY <1>5, <1>6 DEF Pcs

\* After the last file: back to the inbox, or the row is marked.
LEMMA PublishedJob ==
    ASSUME IInv, at \in WritePcs, Published
    PROVE  at' \in Pcs /\ JobOK'
<1>1. Writable(job)
  BY WritableJob DEF IInv
<1>2. CASE job.then \in {"ingest", "decision"}
  <2>1. at' \in {"ingest", "decisions"}
    BY <1>2 DEF Published
  <2>2. QED BY <2>1 DEF Pcs, JobOK, ScanPcs, WritePcs
<1>3. CASE job.then \notin {"ingest", "decision"}
  <2>1. at' = "mark" /\ job' = job
    BY <1>3 DEF Published
  <2>2. job \in Jobs /\ job.id \in Ids /\ job.then \in {"done", "fail"}
    BY <1>1, <1>3 DEF Writable, Jobs
  <2>3. QED BY <2>1, <2>2 DEF Pcs, JobOK, ScanPcs, WritePcs
<1>4. QED BY <1>2, <1>3

LEMMA WriteFailsJob ==
    ASSUME IInv, WriteFails
    PROVE  at' \in Pcs /\ JobOK'
<1>1. Writable(job)
  BY WritableJob DEF IInv, WriteFails, WritePcs
<1>2. CASE job.then \in {"ingest", "decision"}
  <2>1. at' \in {"loop", "decisions"}
    BY <1>2 DEF WriteFails, LoopEnds
  <2>2. QED BY <2>1 DEF Pcs, JobOK, ScanPcs, WritePcs
<1>3. CASE job.then = "done"
  <2>1. at' = "mark" /\ job' = [job EXCEPT !.then = "fail"]
    BY <1>3 DEF WriteFails
  <2>2. job \in Jobs /\ job.id \in Ids
    BY <1>1, <1>3 DEF Writable
  <2>3. job' \in Jobs /\ job'.id \in Ids /\ job'.then = "fail"
    BY <2>1, <2>2 DEF Jobs
  <2>4. QED BY <2>1, <2>3 DEF Pcs, JobOK, ScanPcs, WritePcs
<1>4. CASE job.then = "fail"
  <2>1. at' = "remark" /\ job' = job
    BY <1>4 DEF WriteFails
  <2>2. job \in Jobs /\ job.id \in Ids
    BY <1>1, <1>4 DEF Writable
  <2>3. QED BY <1>4, <2>1, <2>2 DEF Pcs, JobOK, ScanPcs, WritePcs
<1>5. job.then \in {"ingest", "decision", "done", "fail"}
  BY <1>1 DEF Writable, Jobs
<1>6. QED BY <1>2, <1>3, <1>4, <1>5

LEMMA MarkRaisesJob ==
    ASSUME IInv, MarkRaises
    PROVE  at' \in Pcs /\ JobOK'
<1>1. job \in Jobs /\ job.id \in Ids
  BY DEF MarkRaises, IInv, JobOK, ScanPcs
<1>2. CASE at' = "loop"
  BY <1>2 DEF Pcs, JobOK, ScanPcs, WritePcs
<1>3. CASE at' # "loop"
  <2>1. /\ at' \in {"mark", "remark"}
        /\ \/ job' = [job EXCEPT !.then = "fail"]
           \/ job' = job /\ job.then = "fail"
    BY <1>3 DEF MarkRaises, LoopEnds
  <2>2. job' \in Jobs /\ job'.id \in Ids /\ job'.then = "fail"
    BY <1>1, <2>1 DEF Jobs
  <2>3. QED BY <2>1, <2>2 DEF Pcs, JobOK, ScanPcs, WritePcs
<1>4. QED BY <1>2, <1>3

LEMMA ChooseJob ==
    ASSUME IInv, Choose
    PROVE  at' \in Pcs /\ JobOK'
<1>0. PICK late \in SUBSET Retried : \E id \in Choice(Ids \ late) :
          job' = [id |-> id, report |-> None, publish |-> TRUE, then |-> "done"]
  BY DEF Choose
<1>1. PICK id \in Choice(Ids \ late) :
          job' = [id |-> id, report |-> None, publish |-> TRUE, then |-> "done"]
  BY <1>0
<1>2. id \in Ids
  BY <1>1 DEF Choice, NextRequests
<1>3. job' \in Jobs /\ job'.id \in Ids /\ job'.then = "done"
  BY <1>1, <1>2 DEF Jobs
<1>4. at' = "claim"
  BY DEF Choose
<1>5. QED BY <1>3, <1>4 DEF Pcs, JobOK, ScanPcs, WritePcs

LEMMA JobStep ==
    ASSUME IInv, ScreenerNext
    PROVE  at' \in Pcs /\ JobOK'
<1>0. at \in Pcs /\ JobOK /\ ScreenerTypeOK
  BY DEF IInv, ScreenerTypeOK, Pcs, ScanPcs, WritePcs
<1>1. CASE at' \in Pcs \ (ScanPcs \cup WritePcs)
  BY <1>1 DEF JobOK
<1>2. CASE at' = at /\ job' = job /\ at \in WritePcs
  BY <1>0, <1>2, WritableJob, StartsWriting
<1>3. CASE at' = at /\ job' = job /\ at \in ScanPcs
  BY <1>0, <1>3 DEF JobOK, Pcs, ScanPcs, WritePcs
<1>4. CASE \/ LoopBegins \/ IngestScanAll \/ IngestEnds \/ DecisionsEnd \/ ChooseNothing \/ ClaimDeferred
           \/ Drops \/ \E d \in Decisions : RefuseDecision(d) \/ RepeatDecision(d)
  <2>1. at' \in {"ingest", "decisions", "choose", "idle", "loop"}
    BY <1>4 DEF LoopBegins, IngestScanAll, IngestEnds, DecisionsEnd, ChooseNothing, ClaimDeferred,
                RefuseDecision, RepeatDecision, Drops, DropRequest, LoopEnds
  <2>2. QED BY <1>1, <2>1 DEF Pcs, ScanPcs, WritePcs
<1>5. CASE MarkDone \/ MarkFailed \/ IdleEnqueue \/ ScreenerStart \/ IngestFails \/ ScreenerCrash \/ Producers
  <2>1. at' \in {"loop", "down"}
    BY <1>5 DEF MarkDone, MarkFailed, IdleEnqueue, ScreenerStart, IngestFails, ScreenerCrash, LoopEnds,
                Producers, SendRequest, SendScanAll, ShowCard, TapDecision
  <2>2. QED BY <1>1, <2>1 DEF Pcs, ScanPcs, WritePcs
<1>6. CASE Claim
  <2>1. at = "claim" /\ at' = "screen" /\ job' = job
    BY <1>6 DEF Claim
  <2>2. QED BY <1>0, <2>1 DEF JobOK, Pcs, ScanPcs, WritePcs
<1>7. CASE WriteReport
  <2>1. at \in WritePcs /\ at' \in WritePcs /\ job' = job
    BY <1>7 DEF WriteReport, WritePcs
  <2>2. QED BY <1>0, <2>1, WritableJob, StartsWriting DEF Pcs
<1>8. CASE WriteResult \/ WriteStatus
  <2>1. at \in WritePcs
    BY <1>8 DEF WriteResult, WriteStatus, WritePcs
  <2>2. CASE Published
    BY <2>1, <2>2, PublishedJob
  <2>3. CASE ~Published
    <3>1. at' = "status" /\ job' = job
      BY <1>8, <2>3 DEF WriteResult, WriteStatus
    <3>2. at' \in WritePcs
      BY <3>1 DEF WritePcs
    <3>3. QED BY <1>0, <2>1, <3>1, <3>2, WritableJob, StartsWriting DEF Pcs
  <2>4. QED BY <2>2, <2>3
<1>9. CASE Midnight
  <2>1. at' = at /\ job' = job
    BY <1>9 DEF Midnight
  <2>2. QED BY <1>0, <1>1, <1>2, <1>3, <2>1
<1>10. CASE \/ (\E id \in Requests : IngestRequest(id)) \/ (\E d \in Decisions : ApplyDecision(d))
            \/ (\E code \in Verdicts \cup {"denied"} : Screen(code))
            \/ Choose \/ WriteFails \/ MarkRaises
  BY <1>10, IngestJob, DecisionJob, ScreenJob, ChooseJob, WriteFailsJob, MarkRaisesJob
<1>11. QED
  BY <1>4, <1>5, <1>6, <1>7, <1>8, <1>9, <1>10 DEF ScreenerNext, ScreenerStep, Drops

-----------------------------------------------------------------------------
(* Types. *)

LEMMA QueueType ==
    ASSUME IInv, ScreenerNext
    PROVE  /\ rows' \in [Ids -> Rows] /\ spent' \in [Ids -> Nat]
           /\ \A id \in Ids : spent'[id] <= rows'[id].attempts
<1>1. /\ rows \in [Ids -> Rows] /\ spent \in [Ids -> Nat]
      /\ \A id \in Ids : spent[id] <= rows[id].attempts
  BY DEF IInv, ScreenerTypeOK, Rows
<1>2. CASE Claim
  <2>1. job.id \in Ids
    BY <1>2 DEF Claim, IInv, ScreenerTypeOK
  <2>2. /\ rows' = [rows EXCEPT ![job.id] = [status |-> "RUNNING", attempts |-> rows[job.id].attempts + 1]]
        /\ spent' = [spent EXCEPT ![job.id] = spent[job.id] + 1]
    BY <1>2 DEF Claim
  <2>3. rows[job.id].attempts \in Nat /\ spent[job.id] \in Nat
    BY <1>1, <2>1 DEF Rows
  <2>4. [status |-> "RUNNING", attempts |-> rows[job.id].attempts + 1] \in Rows
    BY <2>3 DEF Rows, Statuses
  <2>5. rows' \in [Ids -> Rows] /\ spent' \in [Ids -> Nat]
    <3>1. rows' \in [Ids -> Rows]
      BY <1>1, <2>1, <2>2, <2>4, Zenon
    <3>2. spent' \in [Ids -> Nat]
      BY <1>1, <2>1, <2>2, <2>3
    <3>3. QED BY <3>1, <3>2
  <2>6. /\ rows'[job.id].attempts = rows[job.id].attempts + 1 /\ spent'[job.id] = spent[job.id] + 1
        /\ \A id \in Ids \ {job.id} : rows'[id] = rows[id] /\ spent'[id] = spent[id]
    BY <1>1, <2>1, <2>2
  <2>7. ASSUME NEW id \in Ids PROVE spent'[id] <= rows'[id].attempts
    <3>1. CASE id = job.id
      BY <1>1, <2>1, <2>3, <2>6, <3>1
    <3>2. CASE id # job.id
      BY <1>1, <2>6, <3>2
    <3>3. QED BY <3>1, <3>2
  <2>8. QED BY <2>5, <2>7
<1>3. CASE MarkDone
  <2>1. job.id \in Ids
    BY <1>3 DEF MarkDone, IInv, ScreenerTypeOK
  <2>2. rows' = [rows EXCEPT ![job.id].status = "DONE"] /\ spent' = spent
    BY <1>3 DEF MarkDone
  <2>3. /\ rows' \in [Ids -> Rows]
        /\ \A id \in Ids : rows'[id].attempts = rows[id].attempts
    BY <1>1, <2>1, <2>2 DEF Rows, Statuses
  <2>4. QED BY <1>1, <2>2, <2>3
<1>4. CASE SameAttempts(rows') /\ spent' = spent
  BY <1>1, <1>4 DEF SameAttempts
<1>5. CASE Midnight
  <2>1. spent' = [id \in Ids |-> 0] /\ rows' = rows
    BY <1>5 DEF Midnight
  <2>2. \A id \in Ids : rows[id].attempts \in Nat
    BY <1>1 DEF Rows
  <2>3. QED BY <1>1, <2>1, <2>2
<1>6. ScreenerTypeOK
  BY DEF IInv
<1>7. QED BY <1>2, <1>3, <1>4, <1>5, <1>6, RowMoves, Frames

\* Decisions and requests have different ids.
LEMMA IdsApart == \A d \in Decisions : d \notin Ids /\ d \notin Requests /\ d # ScanAll
BY ScreenerAssumption DEF Ids

\* The base of what is being published.
LEMMA WrittenBase ==
    ASSUME IInv, at \in WritePcs
    PROVE  /\ job.id \in Ids \cup Decisions /\ BaseOf(job.id) \in Bases
           /\ job.id \in Ids => BaseOf(job.id) = job.id.base
           /\ job.id \in Decisions => card[job.id] \in Cards /\ BaseOf(job.id) = card[job.id].id.base
<1>1. Writable(job)
  BY WritableJob DEF IInv
<1>2. CASE job.then = "decision"
  <2>1. job.id \in Decisions /\ card[job.id] # None
    BY <1>1, <1>2 DEF Writable, DecidedOn
  <2>2. card[job.id] \in Cards
    BY <2>1 DEF IInv, ScreenerTypeOK, Cards
  <2>3. card[job.id].id.base \in Bases
    BY <2>2, IdFields DEF Cards
  <2>4. QED BY <2>1, <2>2, <2>3, IdsApart DEF BaseOf
<1>3. CASE job.then # "decision"
  <2>1. job.id \in Ids /\ job.id \notin Decisions
    BY <1>1, <1>3, IdsApart DEF Writable
  <2>2. QED BY <2>1, IdFields DEF BaseOf
<1>4. QED BY <1>2, <1>3

LEMMA FilesType ==
    ASSUME IInv, ScreenerNext
    PROVE  /\ reports' \in [Ids \cup Decisions -> {None} \cup Reports]
           /\ results' \in [Ids \cup Decisions -> {None} \cup Reports]
           /\ latest' \in [Bases -> {None} \cup Ids \cup Decisions]
           /\ record' \in [Bases -> {None} \cup Records]
<1>1. /\ reports \in [Ids \cup Decisions -> {None} \cup Reports]
      /\ results \in [Ids \cup Decisions -> {None} \cup Reports]
      /\ latest \in [Bases -> {None} \cup Ids \cup Decisions]
      /\ record \in [Bases -> {None} \cup Records]
      /\ day \in 1..Days
  BY DEF IInv, ScreenerTypeOK, Records
<1>2. ASSUME at \in WritePcs
      PROVE  job.id \in Ids \cup Decisions /\ job.report \in Reports /\ BaseOf(job.id) \in Bases
  BY <1>2, WrittenBase, WritableJob DEF IInv, Writable
<1>3. CASE UNCHANGED files
  BY <1>1, <1>3 DEF files
<1>4. CASE WriteReport
  <2>1. at \in WritePcs
    BY <1>4 DEF WriteReport, WritePcs
  <2>2. QED BY <1>1, <1>2, <1>4, <2>1 DEF WriteReport
<1>5. CASE WriteResult
  <2>1. at \in WritePcs
    BY <1>5 DEF WriteResult, WritePcs
  <2>2. QED BY <1>1, <1>2, <1>5, <2>1 DEF WriteResult, PutResult
<1>6. CASE WriteStatus
  <2>1. at \in WritePcs
    BY <1>6 DEF WriteStatus, WritePcs
  <2>2. [id |-> job.id, report |-> job.report, day |-> day] \in Records
    BY <1>1, <1>2, <2>1 DEF Records
  <2>3. record' \in [Bases -> {None} \cup Records]
    BY <1>1, <1>6, <2>2 DEF WriteStatus
  <2>4. QED BY <1>1, <1>6, <2>3 DEF WriteStatus
<1>7. QED BY <1>3, <1>4, <1>5, <1>6, Frames

LEMMA CardsType ==
    ASSUME IInv, ScreenerNext
    PROVE  card' \in [Decisions -> {None} \cup Cards]
<1>1. card \in [Decisions -> {None} \cup Cards]
  BY DEF IInv, ScreenerTypeOK, Cards
<1>2. CASE ShowsCard
  <2>1. PICK d \in Decisions, id \in Ids, action \in {"APPROVE", "REJECT"} : ShowCard(d, id, action)
    BY <1>2 DEF ShowsCard
  <2>2. results[id] \in Reports
    BY <2>1 DEF ShowCard, Intact, HasResult, IInv, ScreenerTypeOK
  <2>3. [id |-> id, version |-> results[id].version, action |-> action] \in Cards
    BY <2>2 DEF Cards, Reports
  <2>4. QED BY <1>1, <2>1, <2>3 DEF ShowCard
<1>3. QED BY <1>1, <1>2, Frames

LEMMA TypeStep ==
    ASSUME IInv, ScreenerNext
    PROVE  ScreenerTypeOK'
<1>0. ScreenerTypeOK
  BY DEF IInv
<1>1. inbox' \subseteq Requests \cup {ScanAll} \cup Decisions /\ batch' \subseteq inbox'
  <2>1. inbox \subseteq Requests \cup {ScanAll} \cup Decisions
    BY <1>0 DEF ScreenerTypeOK
  <2>2. QED BY <1>0, <2>1, InboxMoves
<1>2. at' \in Pcs /\ JobOK'
  BY JobStep
<1>3. at' \in {"claim", "screen", "mark", "remark"} => job'.id \in Ids
  BY <1>2 DEF JobOK, ScanPcs
<1>4. day' \in 1..Days
  BY <1>0, ScreenerAssumption, Frames DEF ScreenerTypeOK, Midnight
<1>5. upsets' \in 0..MaxUpsets
  BY <1>0, ScreenerAssumption, Frames DEF ScreenerTypeOK, Upset
<1>6. stranded' \subseteq Ids
  <2>1. stranded \subseteq Ids
    BY <1>0 DEF ScreenerTypeOK
  <2>2. CASE MarkRaises
    <3>1. job.id \in Ids
      BY <1>0, <2>2 DEF ScreenerTypeOK, MarkRaises
    <3>2. stranded' = stranded \/ stranded' = stranded \cup {job.id}
      BY <2>2 DEF MarkRaises
    <3>3. QED BY <2>1, <3>1, <3>2
  <2>3. CASE ScreenerStart
    BY <2>3 DEF ScreenerStart
  <2>4. QED BY <2>1, <2>2, <2>3, Frames
<1>7. superseded' \subseteq Decisions /\ dropped' \subseteq Requests
  BY <1>0, Frames DEF ScreenerTypeOK, MarkDone, OlderCards, Drops, DropRequest
<1>8. QED
  BY <1>1, <1>2, <1>3, <1>4, <1>5, <1>6, <1>7, QueueType, FilesType, CardsType
     DEF ScreenerTypeOK, Pcs, ScanPcs, WritePcs, Rows, Cards, Records

-----------------------------------------------------------------------------
(* Quotas. *)

NotUrgent == {id \in Ids : ~Urgent(id)}

\* The sets that QuotaHolds counts.
LEMMA CountedSets ==
    /\ Ids \in SUBSET Ids /\ NotUrgent \in SUBSET Ids
    /\ \A b : OfBase(b) \in SUBSET Ids
    /\ \A a : OfActor(a) \in SUBSET Ids
BY DEF NotUrgent, OfBase, OfActor

LEMMA QuotaStep ==
    ASSUME IInv, ScreenerNext
    PROVE  QuotaHolds'
<1>1. /\ SumFunctionOnSet(spent, Ids) <= Daily
      /\ \A b \in Bases : SumFunctionOnSet(spent, OfBase(b)) <= PerBase
      /\ \A a \in {Actor[c] : c \in Classes} : SumFunctionOnSet(spent, OfActor(a)) <= PerActor
      /\ SumFunctionOnSet(spent, NotUrgent) <= Daily - Reserve
  BY DEF IInv, QuotaHolds, AttemptsToday, NotUrgent
<1>2. spent \in [Ids -> Nat] /\ spent' \in [Ids -> Nat]
  BY QueueType DEF IInv, ScreenerTypeOK
<1>3. \A S \in SUBSET Ids : SumFunctionOnSet(spent, S) \in Nat /\ SumFunctionOnSet(spent', S) \in Nat
  BY <1>2, CostNat
<1>4. Daily \in Nat /\ Reserve \in Nat /\ PerBase \in Nat /\ PerActor \in Nat
  BY ScreenerAssumption
<1>5. SUFFICES /\ SumFunctionOnSet(spent', Ids) <= Daily
               /\ \A b \in Bases : SumFunctionOnSet(spent', OfBase(b)) <= PerBase
               /\ \A a \in {Actor[c] : c \in Classes} : SumFunctionOnSet(spent', OfActor(a)) <= PerActor
               /\ SumFunctionOnSet(spent', NotUrgent) <= Daily - Reserve
  BY DEF QuotaHolds, AttemptsToday, NotUrgent, OfBase, OfActor, Urgent, Priority
<1>6. CASE spent' = spent
  BY <1>1, <1>6, Zenon
<1>7. CASE Midnight
  <2>1. spent' = [id \in Ids |-> 0]
    BY <1>7 DEF Midnight
  <2>2. \A S \in SUBSET Ids : SumFunctionOnSet(spent', S) <= SumFunctionOnSet(spent, S)
    BY <1>2, <2>1, CostOfNothing
  <2>3. /\ SumFunctionOnSet(spent', Ids) <= Daily
        /\ SumFunctionOnSet(spent', NotUrgent) <= Daily - Reserve
    BY <1>1, <1>3, <1>4, <2>2, CountedSets
  <2>4. ASSUME NEW b \in Bases PROVE SumFunctionOnSet(spent', OfBase(b)) <= PerBase
    BY <1>1, <1>3, <1>4, <2>2, CountedSets
  <2>5. ASSUME NEW a \in {Actor[c] : c \in Classes} PROVE SumFunctionOnSet(spent', OfActor(a)) <= PerActor
    <3>1. OfActor(a) \in SUBSET Ids /\ SumFunctionOnSet(spent, OfActor(a)) <= PerActor
      BY <1>1, CountedSets
    <3>2. QED BY <1>3, <1>4, <2>2, <3>1
  <2>6. QED BY <2>3, <2>4, <2>5
<1>8. CASE Claim
  <2> DEFINE id == job.id
  <2>1. id \in Ids
    BY <1>8 DEF Claim, IInv, ScreenerTypeOK
  <2>2. spent' = [spent EXCEPT ![id] = spent[id] + 1]
    BY <1>8 DEF Claim
  <2>3. spent'[id] = spent[id] + 1 /\ \A x \in Ids \ {id} : spent'[x] = spent[x]
    BY <1>2, <2>1, <2>2
  <2>4. /\ SumFunctionOnSet(spent, Ids) < Daily
        /\ SumFunctionOnSet(spent, OfBase(id.base)) < PerBase
        /\ SumFunctionOnSet(spent, OfActor(Actor[id.class])) < PerActor
    BY <1>8 DEF Claim, WithinCaps, Cost
  <2>5. ~Urgent(id) => SumFunctionOnSet(spent, Ids) < Daily - Reserve
    BY <1>8 DEF Claim, IInv, ClaimOK, Cost
  <2> HIDE DEF id
  <2>6. \A S \in SUBSET Ids :
           /\ id \in S => SumFunctionOnSet(spent', S) = SumFunctionOnSet(spent, S) + 1
           /\ id \notin S => SumFunctionOnSet(spent', S) = SumFunctionOnSet(spent, S)
    BY <1>2, <2>1, <2>3, CostOfClaim
  <2>7. SumFunctionOnSet(spent', Ids) <= Daily
    <3>1. SumFunctionOnSet(spent', Ids) = SumFunctionOnSet(spent, Ids) + 1
      BY <2>1, <2>6, CountedSets
    <3>2. QED BY <1>3, <1>4, <2>4, <3>1, CountedSets
  <2>8. ASSUME NEW b \in Bases PROVE SumFunctionOnSet(spent', OfBase(b)) <= PerBase
    <3>1. OfBase(b) \in SUBSET Ids /\ SumFunctionOnSet(spent, OfBase(b)) \in Nat
      BY <1>3, CountedSets
    <3>2. CASE b = id.base
      <4>1. id \in OfBase(b)
        BY <2>1, <3>2 DEF OfBase
      <4>2. SumFunctionOnSet(spent', OfBase(b)) = SumFunctionOnSet(spent, OfBase(b)) + 1
        BY <2>6, <3>1, <4>1
      <4>3. QED BY <1>4, <2>4, <3>1, <3>2, <4>2
    <3>3. CASE b # id.base
      <4>1. id \notin OfBase(b)
        BY <3>3 DEF OfBase
      <4>2. QED BY <1>1, <2>6, <3>1, <4>1
    <3>4. QED BY <3>2, <3>3
  <2>9. ASSUME NEW a \in {Actor[c] : c \in Classes} PROVE SumFunctionOnSet(spent', OfActor(a)) <= PerActor
    <3>1. OfActor(a) \in SUBSET Ids /\ SumFunctionOnSet(spent, OfActor(a)) \in Nat
      BY <1>3, CountedSets
    <3>2. CASE a = Actor[id.class]
      <4>1. id \in OfActor(a)
        BY <2>1, <3>2 DEF OfActor
      <4>2. SumFunctionOnSet(spent', OfActor(a)) = SumFunctionOnSet(spent, OfActor(a)) + 1
        BY <2>6, <3>1, <4>1
      <4>3. QED BY <1>4, <2>4, <3>1, <3>2, <4>2
    <3>3. CASE a # Actor[id.class]
      <4>1. id \notin OfActor(a)
        BY <3>3 DEF OfActor
      <4>2. SumFunctionOnSet(spent', OfActor(a)) = SumFunctionOnSet(spent, OfActor(a))
        BY <2>6, <3>1, <4>1
      <4>3. QED BY <1>1, <4>2
    <3>4. QED BY <3>2, <3>3
  <2>10. SumFunctionOnSet(spent', NotUrgent) <= Daily - Reserve
    <3>1. NotUrgent \in SUBSET Ids /\ SumFunctionOnSet(spent, NotUrgent) \in Nat
          /\ SumFunctionOnSet(spent, Ids) \in Nat
      BY <1>3, CountedSets
    <3>2. CASE Urgent(id)
      <4>1. id \notin NotUrgent
        BY <3>2 DEF NotUrgent
      <4>2. QED BY <1>1, <2>6, <3>1, <4>1
    <3>3. CASE ~Urgent(id)
      <4>1. id \in NotUrgent
        BY <2>1, <3>3 DEF NotUrgent
      <4>2. SumFunctionOnSet(spent', NotUrgent) = SumFunctionOnSet(spent, NotUrgent) + 1
        BY <2>6, <3>1, <4>1
      <4>3. SumFunctionOnSet(spent, NotUrgent) <= SumFunctionOnSet(spent, Ids)
        <5>1. IsFiniteSet(Ids)
          BY IdsFinite
        <5>2. \A x \in Ids : spent[x] \in Nat
          BY <1>2
        <5>3. NotUrgent \in SUBSET Ids
          BY <3>1
        <5>4. QED BY <5>1, <5>2, <5>3, SumSubset
      <4>4. QED BY <1>4, <2>5, <3>1, <3>3, <4>2, <4>3
    <3>4. QED BY <3>2, <3>3
  <2>11. QED BY <2>7, <2>8, <2>9, <2>10
<1>9. QED BY <1>6, <1>7, <1>8, Frames

\* Only Choose leads to a claim, and it looks at the reserve first.
LEMMA ClaimStep ==
    ASSUME IInv, ScreenerNext
    PROVE  ClaimOK'
<1>1. SUFFICES ASSUME at' = "claim", ~Urgent(job'.id)
               PROVE  SumFunctionOnSet(spent', Ids) < Daily - Reserve
  BY DEF ClaimOK, Cost, Urgent, Priority
<1>2. spent \in [Ids -> Nat] /\ Ids \in SUBSET Ids
  BY DEF IInv, ScreenerTypeOK
<1>3. CASE Choose
  <2>0. PICK late \in SUBSET Retried : \E id \in Choice(Ids \ late) :
            job' = [id |-> id, report |-> None, publish |-> TRUE, then |-> "done"]
    BY <1>3 DEF Choose
  <2>1. PICK id \in Choice(Ids \ late) :
            job' = [id |-> id, report |-> None, publish |-> TRUE, then |-> "done"]
    BY <2>0
  <2>2. ~Urgent(id)
    BY <1>1, <2>1
  <2>3. id \notin NextRequests({i \in Ids \ late : Urgent(i)})
    BY <2>2 DEF NextRequests
  <2>4. ~(Cost(Ids) >= Daily - Reserve)
    BY <2>1, <2>3 DEF Choice
  <2>5. SumFunctionOnSet(spent, Ids) \in Nat
    BY <1>2, CostNat
  <2>6. Daily \in Nat /\ Reserve \in Nat
    BY ScreenerAssumption
  <2>7. spent' = spent
    BY <1>3 DEF Choose, queue
  <2>8. QED BY <2>4, <2>5, <2>6, <2>7 DEF Cost
<1>4. CASE Midnight
  <2>1. at = "claim" /\ job' = job /\ spent' = [id \in Ids |-> 0]
    BY <1>1, <1>4 DEF Midnight
  <2>2. SumFunctionOnSet(spent, Ids) < Daily - Reserve
    BY <1>1, <2>1 DEF IInv, ClaimOK, Cost
  <2>3. SumFunctionOnSet(spent', Ids) <= SumFunctionOnSet(spent, Ids)
    BY <1>2, <2>1, CostOfNothing
  <2>4. SumFunctionOnSet(spent, Ids) \in Nat /\ SumFunctionOnSet(spent', Ids) \in Nat
    BY <1>2, QueueType, CostNat
  <2>5. Daily \in Nat /\ Reserve \in Nat
    BY ScreenerAssumption
  <2>6. QED BY <2>2, <2>3, <2>4, <2>5
<1>5. CASE \/ LoopBegins \/ IngestScanAll \/ IngestEnds \/ DecisionsEnd \/ ChooseNothing \/ ClaimDeferred
           \/ Claim \/ MarkDone \/ MarkFailed \/ IdleEnqueue \/ ScreenerStart \/ IngestFails
           \/ ScreenerCrash \/ Producers \/ MarkRaises
  BY <1>1, <1>5 DEF LoopBegins, IngestScanAll, IngestEnds, DecisionsEnd, ChooseNothing, ClaimDeferred,
        Claim, MarkDone, MarkFailed, IdleEnqueue, ScreenerStart, IngestFails, ScreenerCrash, Producers,
        SendRequest, SendScanAll, ShowCard, TapDecision, MarkRaises, LoopEnds
<1>6. CASE \/ (\E id \in Requests : IngestRequest(id))
           \/ (\E d \in Decisions : RefuseDecision(d) \/ RepeatDecision(d) \/ ApplyDecision(d))
           \/ (\E code \in Verdicts \cup {"denied"} : Screen(code)) \/ Drops
  BY <1>1, <1>6 DEF IngestRequest, RefuseDecision, RepeatDecision, ApplyDecision, Screen, Drops, DropRequest
<1>7. CASE WriteReport \/ WriteFails
  BY <1>1, <1>7 DEF WriteReport, WriteFails, LoopEnds
<1>8. CASE WriteResult \/ WriteStatus
  <2>1. Published => at' \in {"ingest", "decisions", "mark"}
    BY DEF Published
  <2>2. at' = "status" \/ Published
    BY <1>8 DEF WriteResult, WriteStatus
  <2>3. QED BY <1>1, <2>1, <2>2
<1>9. QED
  BY <1>3, <1>4, <1>5, <1>6, <1>7, <1>8 DEF ScreenerNext, ScreenerStep, Drops

-----------------------------------------------------------------------------
(* What the gate reads. *)

LEMMA InboxStep ==
    ASSUME IInv, ScreenerNext
    PROVE  InboxOK'
<1>1. SUFFICES ASSUME NEW d \in Decisions, d \in inbox' PROVE card'[d] # None
  BY DEF InboxOK
<1>2. ScreenerTypeOK
  BY DEF IInv
<1>3. d \in inbox \/ card[d] # None
  BY <1>1, <1>2, InboxMoves, IdsApart
<1>4. card[d] # None
  BY <1>1, <1>3 DEF IInv, InboxOK
<1>5. QED BY <1>2, <1>4, CardsKept

LEMMA RecordStep ==
    ASSUME IInv, ScreenerNext
    PROVE  RecordOK'
<1>0. ScreenerTypeOK /\ RecordOK
  BY DEF IInv
<1>1. SUFFICES ASSUME NEW b \in Bases, record'[b] # None, record'[b].report.code = "green"
               PROVE  /\ record'[b].id \in Decisions
                      /\ DecidedOn(card'[record'[b].id], record'[b].report)
                      /\ card'[record'[b].id].id.base = b
  BY DEF RecordOK, Green, DecidedOn
<1>2. CASE record'[b] = record[b]
  <2>1. Green(b)
    BY <1>1, <1>2 DEF Green
  <2>2. /\ record[b].id \in Decisions /\ DecidedOn(card[record[b].id], record[b].report)
        /\ card[record[b].id].id.base = b
    BY <1>0, <2>1 DEF RecordOK
  <2>3. card'[record[b].id] = card[record[b].id]
    BY <1>0, <2>2, CardsKept DEF DecidedOn
  <2>4. QED BY <1>2, <2>2, <2>3
<1>3. CASE WriteStatus
  <2>1. at \in WritePcs
    BY <1>3 DEF WriteStatus, WritePcs
  <2>2. Writable(job)
    BY <2>1, WritableJob DEF IInv
  <2>3. \/ record'[b] = [id |-> job.id, report |-> job.report, day |-> day] /\ b = BaseOf(job.id)
        \/ record'[b] \in {record[b], None} /\ b # BaseOf(job.id)
    BY <1>3 DEF WriteStatus
  <2>4. CASE b = BaseOf(job.id)
    <3>1. record'[b] = [id |-> job.id, report |-> job.report, day |-> day]
      BY <2>3, <2>4
    <3>2. record'[b].id = job.id /\ record'[b].report = job.report
      BY <3>1
    <3>3. job.id \in Decisions /\ DecidedOn(card[job.id], job.report)
      BY <1>1, <2>2, <3>2 DEF Writable
    <3>4. card[job.id].id.base = b
      BY <2>1, <2>4, <3>3, WrittenBase
    <3>5. card'[job.id] = card[job.id]
      BY <1>0, <3>3, CardsKept DEF DecidedOn
    <3>6. QED BY <3>2, <3>3, <3>4, <3>5
  <2>5. CASE b # BaseOf(job.id)
    BY <1>1, <1>2, <2>3, <2>5
  <2>6. QED BY <2>4, <2>5
<1>4. QED BY <1>2, <1>3, Frames DEF files, WriteReport, WriteResult

LEMMA MarkStep ==
    ASSUME IInv, ScreenerNext
    PROVE  MarkOK'
<1>1. SUFFICES ASSUME at' = "mark", job'.then = "done"
               PROVE  ~(record'[job'.id.base] # None /\ record'[job'.id.base].report.code = "green")
  BY DEF MarkOK, Green
<1>2. CASE WriteStatus
  <2>1. at \in WritePcs
    BY <1>2 DEF WriteStatus, WritePcs
  <2>2. Writable(job)
    BY <2>1, WritableJob DEF IInv
  <2>3. job' = job
    BY <1>1, <1>2 DEF WriteStatus, Published
  <2>4. job.id \in Ids /\ job.report.code # "green"
    BY <1>1, <2>2, <2>3 DEF Writable
  <2>5. BaseOf(job.id) = job.id.base /\ job.id.base \in Bases
    BY <2>1, <2>4, WrittenBase, IdFields
  <2>6. record'[job.id.base] = [id |-> job.id, report |-> job.report, day |-> day]
    BY <1>2, <2>5 DEF WriteStatus
  <2>7. record'[job.id.base].report.code # "green"
    BY <2>4, <2>6
  <2>8. QED BY <2>3, <2>7
<1>3. CASE WriteResult
  <2>1. Writable(job)
    BY <1>3, WritableJob DEF WriteResult, WritePcs, IInv
  <2>2. Published /\ ~job.publish
    BY <1>1, <1>3 DEF WriteResult
  <2>3. job.then = "ingest"
    BY <2>1, <2>2 DEF Writable
  <2>4. at' = "ingest"
    BY <2>2, <2>3 DEF Published
  <2>5. QED BY <1>1, <2>4
<1>4. CASE WriteFails \/ MarkRaises
  <2>1. CASE WriteFails
    <3>1. Writable(job)
      BY <2>1, WritableJob DEF WriteFails, WritePcs, IInv
    <3>2. job' = [job EXCEPT !.then = "fail"]
      BY <1>1, <2>1 DEF WriteFails, LoopEnds
    <3>3. job'.then = "fail"
      BY <3>1, <3>2 DEF Writable, Jobs
    <3>4. QED BY <1>1, <3>3
  <2>2. CASE MarkRaises
    <3>1. job \in Jobs
      BY <2>2 DEF MarkRaises, IInv, JobOK, ScanPcs
    <3>2. job' = [job EXCEPT !.then = "fail"]
      BY <1>1, <2>2 DEF MarkRaises, LoopEnds
    <3>3. job'.then = "fail"
      BY <3>1, <3>2 DEF Jobs
    <3>4. QED BY <1>1, <3>3
  <2>3. QED BY <1>4, <2>1, <2>2
<1>5. CASE \/ LoopBegins \/ IngestScanAll \/ IngestEnds \/ DecisionsEnd \/ ChooseNothing \/ ClaimDeferred
           \/ Claim \/ MarkDone \/ MarkFailed \/ IdleEnqueue \/ ScreenerStart \/ IngestFails
           \/ ScreenerCrash \/ Producers \/ Choose \/ WriteReport \/ Midnight
  BY <1>1, <1>5 DEF LoopBegins, IngestScanAll, IngestEnds, DecisionsEnd, ChooseNothing, ClaimDeferred,
        Claim, MarkDone, MarkFailed, IdleEnqueue, ScreenerStart, IngestFails, ScreenerCrash, Producers,
        SendRequest, SendScanAll, ShowCard, TapDecision, Choose, WriteReport, Midnight, LoopEnds
<1>6. CASE \/ (\E id \in Requests : IngestRequest(id))
           \/ (\E d \in Decisions : RefuseDecision(d) \/ RepeatDecision(d) \/ ApplyDecision(d))
           \/ (\E code \in Verdicts \cup {"denied"} : Screen(code)) \/ Drops
  BY <1>1, <1>6 DEF IngestRequest, RefuseDecision, RepeatDecision, ApplyDecision, Screen, Drops, DropRequest
<1>7. QED
  BY <1>2, <1>3, <1>4, <1>5, <1>6 DEF ScreenerNext, ScreenerStep, Drops

-----------------------------------------------------------------------------
(* The theorems. *)

LEMMA InitInvariant == ScreenerInit => IInv
<1> SUFFICES ASSUME ScreenerInit PROVE IInv
  OBVIOUS
<1>1. ScreenerTypeOK
  <2>1. /\ rows \in [Ids -> [status : Statuses, attempts : Nat]]
        /\ spent \in [Ids -> Nat] /\ \A id \in Ids : spent[id] <= rows[id].attempts
    BY DEF ScreenerInit, Statuses
  <2>2. day \in 1..Days /\ upsets \in 0..MaxUpsets
    BY ScreenerAssumption DEF ScreenerInit
  <2>3. QED BY <2>1, <2>2 DEF ScreenerInit, ScreenerTypeOK
<1>2. QuotaHolds
  <2>1. \A S \in SUBSET Ids : SumFunctionOnSet(spent, S) = 0
    BY NoCost DEF ScreenerInit
  <2>2. 0 <= Daily /\ 0 <= PerBase /\ 0 <= PerActor /\ 0 <= Daily - Reserve
    BY ScreenerAssumption
  <2>3. QED BY <2>1, <2>2, CountedSets DEF QuotaHolds, AttemptsToday, NotUrgent
<1>3. InboxOK /\ JobOK /\ ClaimOK /\ MarkOK
  BY DEF ScreenerInit, InboxOK, JobOK, ClaimOK, MarkOK, ScanPcs, WritePcs
<1>4. RecordOK
  BY DEF ScreenerInit, RecordOK, Green
<1>5. QED BY <1>1, <1>2, <1>3, <1>4 DEF IInv

LEMMA StepInvariant == IInv /\ [ScreenerNext]_qvars => IInv'
<1>1. ASSUME IInv, ScreenerNext PROVE IInv'
  BY <1>1, TypeStep, QuotaStep, InboxStep, JobStep, ClaimStep, RecordStep, MarkStep DEF IInv
<1>2. ASSUME IInv, UNCHANGED qvars PROVE IInv'
  <2>1. ScreenerTypeOK' /\ QuotaHolds'
    BY <1>2 DEF qvars, IInv, ScreenerTypeOK, QuotaHolds, AttemptsToday, OfBase, OfActor, Urgent, Priority
  <2>2. InboxOK' /\ RecordOK' /\ MarkOK'
    BY <1>2 DEF qvars, IInv, InboxOK, RecordOK, DecidedOn, Green, MarkOK
  <2>3. JobOK' /\ ClaimOK'
    BY <1>2 DEF qvars, IInv, JobOK, DecidedOn, ClaimOK, Cost, Urgent, Priority
  <2>4. QED BY <2>1, <2>2, <2>3 DEF IInv
<1>3. QED BY <1>1, <1>2

\* The invariant holds whatever is sent, shown and tapped, whichever write fails and
\* wherever the process dies.
THEOREM ScreenerInductive == ScreenerSpec => []IInv
BY InitInvariant, StepInvariant, PTL DEF ScreenerSpec

\* Every row, report, result, record and job keeps its type, and no request has
\* spent more today than it has attempts.
THEOREM ScreenerTypeCorrect == ScreenerSpec => []ScreenerTypeOK
<1>1. IInv => ScreenerTypeOK
  BY DEF IInv
<1>2. QED BY <1>1, ScreenerInductive, PTL

\* mark_running and next_request: no day costs more than the quotas of the day, of
\* a base and of an actor, and what is not urgent leaves the reserve alone, although
\* only _throttled_next looks at the reserve, one step before the claim.
THEOREM QuotaBounded == ScreenerSpec => []QuotaHolds
<1>1. IInv => QuotaHolds
  BY DEF IInv
<1>2. QED BY <1>1, ScreenerInductive, PTL

\* update_status_projection and _load_bound_proposal: what the gate lets through is
\* an approval of a card of this base, bound to the report that the owner saw.
THEOREM ApprovalExact == ScreenerSpec => []ApprovalIsExact
<1>1. IInv => ApprovalIsExact
  BY DEF IInv, RecordOK, Green, DecidedOn, ApprovalIsExact, GateAllows, Bound
<1>2. QED BY <1>1, ScreenerInductive, PTL

\* mark_done: when a row becomes DONE the gate of its base is closed.
THEOREM ScansClose == ScreenerSpec => FinishedScanCloses
<1>1. ASSUME IInv, [ScreenerNext]_qvars, NEW id \in Ids,
             rows[id].status # "DONE", rows'[id].status = "DONE"
      PROVE  ~GateAllows(id.base)'
  <2>1. ScreenerTypeOK /\ rows \in [Ids -> Rows]
    BY <1>1 DEF IInv, ScreenerTypeOK, Rows
  <2>2. ScreenerNext
    BY <1>1 DEF qvars
  <2>3. ~SameAttempts(rows')
    BY <1>1 DEF SameAttempts
  <2>4. CASE Claim
    <3>1. rows' = [rows EXCEPT ![job.id] = [status |-> "RUNNING", attempts |-> rows[job.id].attempts + 1]]
      BY <2>4 DEF Claim
    <3>2. QED BY <1>1, <2>1, <3>1
  <2>5. CASE MarkDone
    <3>1. rows' = [rows EXCEPT ![job.id].status = "DONE"] /\ record' = record
      BY <2>5 DEF MarkDone, files
    <3>2. job.id = id
      BY <1>1, <2>1, <3>1
    <3>3. ~Green(id.base)
      BY <1>1, <2>5, <3>2 DEF MarkDone, IInv, MarkOK
    <3>4. QED BY <3>1, <3>3 DEF Green, GateAllows, Bound
  <2>6. QED BY <2>1, <2>2, <2>3, <2>4, <2>5, RowMoves
<1>2. IInv /\ [ScreenerNext]_qvars =>
          [\A id \in Ids : rows[id].status # "DONE" /\ rows'[id].status = "DONE"
                              => ~GateAllows(id.base)']_qvars
  BY <1>1
<1>3. QED BY <1>2, ScreenerInductive, PTL DEF ScreenerSpec, FinishedScanCloses

================================================================================
