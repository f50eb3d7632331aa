----------------------------- MODULE ShariaScreener -----------------------------
(***************************************************************************)
(* The Sharia screener service: one loop that ingests signed requests and  *)
(* signed owner decisions, claims queued work under daily quotas, screens  *)
(* it, and publishes report, result and gate record in three files.  Queue *)
(* and attempt ledger are in SQLite.  Between any two writes the process   *)
(* may die, and each write may fail.                                       *)
(*                                                                         *)
(* Data: a screening ends as a "proposal" the owner may approve, as a      *)
(* "stop", or "denied" (fail closed); a report is its code and the attempt *)
(* that wrote it, which is what its SHA-256 tells apart.  Requests of one  *)
(* priority are taken in any order.  The runner, the retriever and the     *)
(* signatures are external.  Time is the day; whether the spacing between  *)
(* scans, the backoff of a retry or the life of an envelope (600 s) has    *)
(* passed is left open each time.  A file is noticed by the next pass: it  *)
(* arrives between two iterations, and the owner looks at the results      *)
(* there.                                                                  *)
(***************************************************************************)
EXTENDS Integers, FiniteSets, Functions

CONSTANTS Bases,
          Requests,      \* ids that producers send: [class, base, n]
          ScanAll,       \* the id of a confirmed scan of all pairs
          Decisions,     \* ids of owner decisions
          Verdicts,      \* codes of valid reports: "proposal", "stop"
          Actor,         \* [class -> requested_by]
          Daily, Reserve, PerBase, PerActor,   \* _quota_settings
          IdleMaxAttempts,                     \* idle_retry_max_attempts
          ApprovedDays,  \* days an approval lasts
          Days,          \* bound: days of a behaviour
          MaxScans,      \* bound: attempts of a behaviour
          MaxUpsets,     \* bound: failed writes, expired decisions and crashes
          None

Classes == {"signal", "manual", "bulk", "all", "idle"}

\* bulk-<base>-<day> and idle-<base>-<day>, which the service makes itself.
Ids == Requests \cup [class : {"all", "idle"}, base : Bases, n : 1..Days]

\* A decision is published under an id of its own (decision-<hex>).
ASSUME ScreenerAssumption ==
    /\ IsFiniteSet(Bases) /\ IsFiniteSet(Requests)
    /\ Decisions \cap (Ids \cup {ScanAll}) = {}
    /\ None \notin Ids
    /\ Requests \subseteq [class : {"signal", "manual", "bulk"}, base : Bases, n : Nat]
    /\ Verdicts \subseteq {"proposal", "stop"}
    /\ Daily \in Nat /\ Reserve \in 1..Daily /\ PerBase \in 1..Daily /\ PerActor \in 1..Daily
    /\ IdleMaxAttempts \in Nat /\ ApprovedDays \in Nat /\ Days \in Nat \ {0}
    /\ MaxScans \in Nat /\ MaxUpsets \in Nat

VARIABLES inbox,     \* files of requests and decisions that wait
          card,      \* [Decisions -> the card the owner saw and the answer]
          rows,      \* screening_requests: [Ids -> [status, attempts]]
          spent,     \* screening_attempts of today: [Ids -> Nat]
          reports,   \* [Ids and Decisions -> report file]
          results,   \* [Ids and Decisions -> report that the result file names]
          latest,    \* [Bases -> id of the newest result file of the base]
          record,    \* sharia_status.json: [Bases -> record]
          at,        \* where the loop is
          batch,     \* files of the inbox that this pass still looks at
          job,       \* what is being published: [id, report, publish, then]
          day,
          upsets,
          stranded,    \* history: ids whose failure could not be recorded
          superseded,  \* history: cards older than a finished screening of their base
          dropped      \* history: suppressed ids whose file went before their answer

qvars == <<inbox, card, rows, spent, reports, results, latest, record, at, batch, job, day,
           upsets, stranded, superseded, dropped>>

PRIORITIES == [c \in Classes |->
    CASE c = "signal" -> 0 [] c = "manual" -> 1 [] c \in {"bulk", "all"} -> 2 [] c = "idle" -> 3]

Priority(id) == PRIORITIES[id.class]
Urgent(id) == Priority(id) <= PRIORITIES["manual"]

Reports == [code : {"proposal", "stop", "denied", "green", "rejected"}, version : Nat]
Statuses == {"NONE", "QUEUED", "RUNNING", "DONE", "FAILED", "REJECTED"}
ACTIVE == {"QUEUED", "RUNNING"}

ScreenerTypeOK ==
    /\ inbox \subseteq Requests \cup {ScanAll} \cup Decisions
    /\ card \in [Decisions -> {None} \cup [id : Ids, version : Nat, action : {"APPROVE", "REJECT"}]]
    /\ rows \in [Ids -> [status : Statuses, attempts : Nat]]
    /\ spent \in [Ids -> Nat] /\ \A id \in Ids : spent[id] <= rows[id].attempts
    /\ reports \in [Ids \cup Decisions -> {None} \cup Reports]
    /\ results \in [Ids \cup Decisions -> {None} \cup Reports]
    /\ latest \in [Bases -> {None} \cup Ids \cup Decisions]
    /\ record \in [Bases -> {None} \cup [id : Ids \cup Decisions, report : Reports, day : 1..Days]]
    /\ at \in {"loop", "ingest", "decisions", "choose", "claim", "screen", "report", "result",
               "status", "mark", "remark", "idle", "down"}
    /\ batch \subseteq inbox
    /\ (at \in {"claim", "screen", "mark", "remark"} => job.id \in Ids)
    /\ day \in 1..Days /\ upsets \in 0..MaxUpsets
    /\ stranded \subseteq Ids /\ superseded \subseteq Decisions /\ dropped \subseteq Requests

ScreenerInit ==
    /\ inbox = {} /\ card = [d \in Decisions |-> None]
    /\ rows = [id \in Ids |-> [status |-> "NONE", attempts |-> 0]]
    /\ spent = [id \in Ids |-> 0]
    /\ reports = [id \in Ids \cup Decisions |-> None]
    /\ results = [id \in Ids \cup Decisions |-> None]
    /\ latest = [b \in Bases |-> None] /\ record = [b \in Bases |-> None]
    /\ at = "loop" /\ batch = {} /\ job = None
    /\ day = 1 /\ upsets = 0
    /\ stranded = {} /\ superseded = {} /\ dropped = {}

Upset == upsets < MaxUpsets /\ upsets' = upsets + 1

HasResult(id) == results[id] # None

\* This iteration is over.
LoopEnds == at' = "loop" /\ job' = None

queue == <<rows, spent>>
files == <<reports, results, latest, record>>
history == <<stranded, superseded, dropped>>

-----------------------------------------------------------------------------
(* The producers: the sidecar and the Telegram broker. *)

\* A new request, or the copy of an old one.
SendRequest(id) ==
    /\ at = "loop" /\ id \notin inbox
    /\ \/ rows[id].status = "NONE" /\ UNCHANGED upsets
       \/ rows[id].status # "NONE" /\ Upset
    /\ inbox' = inbox \cup {id}
    /\ UNCHANGED <<card, queue, files, at, batch, job, day, history>>

\* Bound: one confirmed scan of all pairs in a behaviour.
SendScanAll ==
    /\ at = "loop" /\ ScanAll \notin inbox
    /\ \A id \in Ids : id.class = "all" => rows[id].status = "NONE"
    /\ inbox' = inbox \cup {ScanAll}
    /\ UNCHANGED <<card, queue, files, at, batch, job, day, upsets, history>>

\* The report that the result names is on disk with the hash it names.
Intact(id) == HasResult(id) /\ reports[id] = results[id]

\* _latest_local_review_card: buttons bound to the report of the newest result whose
\* report is intact.  Only the newest result is known here: when its report was
\* rewritten since, the card may be that of any older one.
ShowCard(d, id, action) ==
    /\ at = "loop" /\ card[d] = None
    /\ Intact(id) /\ results[id].code = "proposal"
    /\ latest[id.base] = id \/ ~Intact(latest[id.base])
    /\ card' = [card EXCEPT ![d] = [id |-> id, version |-> results[id].version, action |-> action]]
    /\ UNCHANGED <<inbox, queue, files, at, batch, job, day, upsets, history>>

\* sharia_owner_decision, when the owner taps the button (within 120 s).  A refused
\* decision that is tapped again stands for a new one on the same card.
TapDecision(d) ==
    /\ at = "loop" /\ card[d] # None /\ d \notin inbox /\ ~HasResult(d)
    /\ inbox' = inbox \cup {d}
    /\ UNCHANGED <<card, queue, files, at, batch, job, day, upsets, history>>

-----------------------------------------------------------------------------
(* queue_store.py. *)

\* An active request of the base at an equal or more urgent priority.
Suppressed(id, table) ==
    \E j \in Ids : /\ j.base = id.base /\ table[j].status \in ACTIVE
                   /\ Priority(j) <= Priority(id)

\* enqueue: idempotent, and a suppressed id is kept as REJECTED.
Enqueue(id, table) ==
    IF table[id].status # "NONE" THEN table
    ELSE [table EXCEPT ![id].status = IF Suppressed(id, table) THEN "REJECTED" ELSE "QUEUED"]

\* enqueue for each base of a set; the bases do not affect each other.
EnqueueAll(class, S) ==
    [id \in Ids |-> IF id.class = class /\ id.base \in S /\ id.n = day
                    THEN Enqueue(id, rows)[id] ELSE rows[id]]

\* Mutant: only finished requests are counted.
Cost_Completed(S) == SumFunctionOnSet(spent, {id \in S : rows[id].status \in {"DONE", "FAILED"}})

\* cost_today and the counts of next_request and mark_running: every attempt of
\* the day, retries and crashes included.
Cost(S) == SumFunctionOnSet(spent, S)

OfBase(b) == {id \in Ids : id.base = b}
OfActor(a) == {id \in Ids : Actor[id.class] = a}

WithinCaps(id) ==
    /\ Cost(OfBase(id.base)) < PerBase
    /\ Cost(OfActor(Actor[id.class])) < PerActor

\* next_request: due work within its caps, the most urgent first.
NextRequests(S) ==
    LET open == {id \in S : rows[id].status = "QUEUED" /\ WithinCaps(id)}
    IN  {id \in open : \A j \in open : Priority(id) <= Priority(j)}

\* Mutant: a retry starts from zero.
Failed_ResetsAttempts(id) ==
    [rows EXCEPT ![id] =
        IF id.class = "idle" /\ @.attempts < IdleMaxAttempts
        THEN [status |-> "QUEUED", attempts |-> 0]
        ELSE [status |-> "FAILED", attempts |-> @.attempts]]

\* mark_failed: idle work is retried behind a backoff, anything else is over.
Failed(id) ==
    [rows EXCEPT ![id] =
        IF id.class = "idle" /\ @.attempts < IdleMaxAttempts
        THEN [status |-> "QUEUED", attempts |-> @.attempts]
        ELSE [status |-> "FAILED", attempts |-> @.attempts]]

-----------------------------------------------------------------------------
(* ingest_requests. *)

LoopBegins ==
    /\ at = "loop"
    /\ at' = "ingest" /\ batch' = inbox \ Decisions
    /\ UNCHANGED <<inbox, card, queue, files, job, day, upsets, history>>

\* The file of x leaves the inbox: renamed into the processed directory, or unlinked.
Archive(x) == inbox' = inbox \ {x} /\ batch' = batch \ {x}

\* Enqueue commits.  A suppressed id that has no result gets one, and its file
\* stays in the inbox until then.
IngestRequest(id) ==
    /\ at = "ingest" /\ id \in batch
    /\ rows' = Enqueue(id, rows)
    /\ IF rows'[id].status = "REJECTED" /\ ~HasResult(id)
       THEN /\ at' = "report"
            /\ job' = [id |-> id, report |-> [code |-> "denied", version |-> 0],
                       publish |-> FALSE, then |-> "ingest"]
            /\ UNCHANGED <<inbox, batch>>
       ELSE Archive(id) /\ UNCHANGED <<at, job>>
    /\ UNCHANGED <<card, spent, files, day, upsets, history>>

\* The envelope has expired, is not authentic or cannot be read: its file is unlinked
\* before anything is looked up, and nobody is answered.
DropRequest(x) ==
    /\ at = "ingest" /\ x \in batch
    /\ Archive(x)
    /\ dropped' = dropped \cup {id \in Requests \cap {x} : rows[id].status = "REJECTED" /\ ~HasResult(id)}
    /\ UNCHANGED <<card, queue, files, at, job, day, upsets, stranded, superseded>>

\* _enqueue_bulk_all: one transaction for each base.
IngestScanAll ==
    /\ at = "ingest" /\ ScanAll \in batch
    /\ rows' = EnqueueAll("all", Bases)
    /\ Archive(ScanAll)
    /\ UNCHANGED <<card, spent, files, at, job, day, upsets, history>>

\* SQLite or the list of pairs fails: the pass ends, the file stays, and a scan of
\* all pairs may be half done.
IngestFails ==
    /\ at = "ingest" /\ batch # {} /\ Upset
    /\ \/ rows' = rows
       \/ ScanAll \in batch /\ \E S \in SUBSET Bases : rows' = EnqueueAll("all", S)
    /\ at' = "loop" /\ batch' = {}
    /\ UNCHANGED <<inbox, card, spent, files, job, day, history>>

IngestEnds ==
    /\ at = "ingest" /\ batch = {}
    /\ at' = "decisions" /\ batch' = inbox \cap Decisions
    /\ UNCHANGED <<inbox, card, queue, files, job, day, upsets, history>>

-----------------------------------------------------------------------------
(* ingest_owner_decisions. *)

\* Mutant: the report is found by its name only.
Unchanged_NameOnly(d) == reports[card[d].id] # None /\ reports[card[d].id].code = "proposal"

\* _load_bound_proposal: the report on disk has the hash of the card.
Unchanged(d) == reports[card[d].id] = [code |-> "proposal", version |-> card[d].version]

\* The envelope has expired, or the proposal is gone or has changed.
RefuseDecision(d) ==
    /\ at = "decisions" /\ d \in batch
    /\ \/ ~Unchanged(d) /\ UNCHANGED upsets
       \/ Upset
    /\ Archive(d)
    /\ UNCHANGED <<card, queue, files, at, job, day, history>>

\* Its result exists: a duplicate.
RepeatDecision(d) ==
    /\ at = "decisions" /\ d \in batch
    /\ Unchanged(d) /\ HasResult(d)
    /\ Archive(d)
    /\ UNCHANGED <<card, queue, files, at, job, day, upsets, history>>

ApplyDecision(d) ==
    /\ at = "decisions" /\ d \in batch
    /\ Unchanged(d) /\ ~HasResult(d)
    /\ at' = "report"
    /\ job' = [id |-> d,
               report |-> [code |-> IF card[d].action = "APPROVE" THEN "green" ELSE "rejected",
                           version |-> reports[card[d].id].version],
               publish |-> TRUE, then |-> "decision"]
    /\ UNCHANGED <<inbox, card, queue, files, batch, day, upsets, history>>

DecisionsEnd ==
    /\ at = "decisions" /\ batch = {}
    /\ at' = "choose"
    /\ UNCHANGED <<inbox, card, queue, files, batch, job, day, upsets, history>>

-----------------------------------------------------------------------------
(* _throttled_next, process_request and idle_enqueue. *)

\* Idle requests that were tried before, whose next_attempt_at may not have come.
Retried == {id \in Ids : id.class = "idle" /\ rows[id].attempts > 0}

\* The day's ceiling, then urgent work, then the rest as long as it leaves the
\* urgent reserve alone.
Choice(open) ==
    LET urgent == NextRequests({id \in open : Urgent(id)})
    IN  IF Cost(Ids) >= Daily THEN {}
        ELSE IF urgent # {} THEN urgent
        ELSE IF Cost(Ids) >= Daily - Reserve THEN {}
        ELSE NextRequests(open)

Choose ==
    /\ at = "choose"
    /\ at' = "claim"
    /\ \E late \in SUBSET Retried : \E id \in Choice(Ids \ late) :
          job' = [id |-> id, report |-> None, publish |-> TRUE, then |-> "done"]
    /\ UNCHANGED <<inbox, card, queue, files, batch, day, upsets, history>>

\* Nothing is due within the quotas, or the last scan is too recent.
ChooseNothing ==
    /\ at = "choose"
    /\ at' = "idle"
    /\ UNCHANGED <<inbox, card, queue, files, batch, job, day, upsets, history>>

\* Bound: the attempts of a behaviour.
AllAttempts == SumFunctionOnSet([id \in Ids |-> rows[id].attempts], Ids)

\* mark_running: the claim and its row in the attempt ledger are one transaction.
Claim ==
    /\ at = "claim" /\ AllAttempts < MaxScans
    /\ LET id == job.id IN
       /\ rows[id].status = "QUEUED" /\ Cost(Ids) < Daily /\ WithinCaps(id)
       /\ rows' = [rows EXCEPT ![id] = [status |-> "RUNNING", attempts |-> @.attempts + 1]]
       /\ spent' = [spent EXCEPT ![id] = @ + 1]
    /\ at' = "screen"
    /\ UNCHANGED <<inbox, card, files, batch, job, day, upsets, history>>

\* The spacing defers the claim, or SQLite fails.
ClaimDeferred ==
    /\ at = "claim"
    /\ LoopEnds
    /\ UNCHANGED <<inbox, card, queue, files, batch, day, upsets, history>>

\* The runner ends: with a valid report, or without one (the pair is not eligible,
\* the backend fails, the report is invalid), which is published as fail closed.
Screen(code) ==
    /\ at = "screen"
    /\ at' = "report"
    /\ job' = [id |-> job.id, report |-> [code |-> code, version |-> rows[job.id].attempts],
               publish |-> TRUE, then |-> IF code = "denied" THEN "fail" ELSE "done"]
    /\ UNCHANGED <<inbox, card, queue, files, batch, day, upsets, history>>

-----------------------------------------------------------------------------
(* write_screening_outcome: report, result and record, in this order. *)

BaseOf(id) == IF id \in Decisions THEN card[id].id.base ELSE id.base

WriteReport ==
    /\ at = "report"
    /\ reports' = [reports EXCEPT ![job.id] = job.report]
    /\ at' = "result"
    /\ UNCHANGED <<inbox, card, queue, results, latest, record, batch, job, day, upsets, history>>

\* What follows a published outcome: its file is archived, or its row is marked.
Published ==
    CASE job.then = "ingest" -> at' = "ingest" /\ Archive(job.id) /\ job' = None
      [] job.then = "decision" -> at' = "decisions" /\ Archive(job.id) /\ job' = None
      [] OTHER -> at' = "mark" /\ UNCHANGED <<inbox, batch, job>>

PutResult ==
    /\ results' = [results EXCEPT ![job.id] = job.report]
    /\ latest' = [latest EXCEPT ![BaseOf(job.id)] = job.id]

\* Mutant: a result is enough, the record follows with a later one.
WriteResult_SkipsRecord ==
    /\ at = "result"
    /\ PutResult
    /\ IF job.then = "decision" THEN at' = "status" /\ UNCHANGED <<inbox, batch, job>> ELSE Published
    /\ UNCHANGED <<card, queue, reports, record, day, upsets, history>>

\* Mutant: a suppressed request needs no result.
WriteResult_OnlyWork ==
    /\ at = "result"
    /\ IF job.publish THEN PutResult ELSE UNCHANGED <<results, latest>>
    /\ IF job.publish THEN at' = "status" /\ UNCHANGED <<inbox, batch, job>> ELSE Published
    /\ UNCHANGED <<card, queue, reports, record, day, upsets, history>>

WriteResult ==
    /\ at = "result"
    /\ PutResult
    /\ IF job.publish THEN at' = "status" /\ UNCHANGED <<inbox, batch, job>> ELSE Published
    /\ UNCHANGED <<card, queue, reports, record, day, upsets, history>>

\* _record_binding_error: the record's report is on disk with the record's hash.
Bound(b) == record[b] # None /\ reports[record[b].id] = record[b].report

\* update_status_projection: unbound records of other bases are dropped, and all of
\* them when the file cannot be read.
WriteStatus ==
    /\ at = "status"
    /\ \E readable \in BOOLEAN : record' = [b \in Bases |->
           IF b = BaseOf(job.id) THEN [id |-> job.id, report |-> job.report, day |-> day]
           ELSE IF readable /\ Bound(b) THEN record[b] ELSE None]
    /\ Published
    /\ UNCHANGED <<card, queue, reports, results, latest, day, upsets, history>>

\* Mutant: only the loop handles an outcome that could not be written.
WriteFails_OnlyLogged ==
    /\ at \in {"report", "result", "status"} /\ Upset
    /\ IF job.then = "decision" THEN at' = "decisions" /\ batch' = batch \ {job.id} /\ job' = None
       ELSE LoopEnds /\ batch' = {}
    /\ UNCHANGED <<inbox, card, queue, files, day, history>>

\* A write raises.  A request file or a decision stays in the inbox; the row of a
\* screening is failed, by the handler around the write or by the outer one.
WriteFails ==
    /\ at \in {"report", "result", "status"} /\ Upset
    /\ \/ /\ job.then = "ingest"
          /\ LoopEnds /\ batch' = {}
       \/ /\ job.then = "decision"
          /\ at' = "decisions" /\ batch' = batch \ {job.id} /\ job' = None
       \/ /\ job.then = "done"
          /\ at' = "mark" /\ job' = [job EXCEPT !.then = "fail"] /\ UNCHANGED batch
       \/ /\ job.then = "fail"
          /\ at' = "remark" /\ UNCHANGED <<job, batch>>
    /\ UNCHANGED <<inbox, card, queue, files, day, history>>

\* Cards that a finished screening of the base leaves behind.
OlderCards(id) ==
    {d \in Decisions : /\ card[d] # None /\ card[d].id.base = id.base
                       /\ card[d].id # id \/ card[d].version # rows[id].attempts}

MarkDone ==
    /\ at = "mark" /\ job.then = "done"
    /\ rows' = [rows EXCEPT ![job.id].status = "DONE"]
    /\ superseded' = superseded \cup OlderCards(job.id)
    /\ LoopEnds
    /\ UNCHANGED <<inbox, card, spent, files, batch, day, upsets, stranded, dropped>>

MarkFailed ==
    /\ at \in {"mark", "remark"} /\ job.then = "fail"
    /\ rows' = Failed(job.id)
    /\ LoopEnds
    /\ UNCHANGED <<inbox, card, spent, files, batch, day, upsets, history>>

\* SQLite fails.  mark_failed is tried by the handler around the write and again by
\* the outer one; after that the loop logs the error and the row stays RUNNING.
MarkRaises ==
    /\ at \in {"mark", "remark"} /\ Upset
    /\ \/ /\ at = "mark" /\ job.then = "done"
          /\ job' = [job EXCEPT !.then = "fail"] /\ UNCHANGED <<at, stranded>>
       \/ /\ at = "mark" /\ job.then = "fail"
          /\ at' = "remark" /\ UNCHANGED <<job, stranded>>
       \/ /\ at = "remark"
          /\ LoopEnds /\ stranded' = stranded \cup {job.id}
    /\ UNCHANGED <<inbox, card, queue, files, batch, day, superseded, dropped>>

-----------------------------------------------------------------------------
(* Idle work, the clock, crashes. *)

\* Missing, unbound, fail closed (it expires within the margin) or due again.
NeedsScan(b) ==
    \/ ~Bound(b) \/ record[b].report.code = "denied"
    \/ day - record[b].day >= ApprovedDays - 1

HasActive(b) == \E id \in OfBase(b) : rows[id].status \in ACTIVE

\* idle_enqueue, unless it ran a moment ago.
IdleEnqueue ==
    /\ at = "idle"
    /\ rows' \in {rows, EnqueueAll("idle", {b \in Bases : NeedsScan(b) /\ ~HasActive(b)})}
    /\ at' = "loop"
    /\ UNCHANGED <<inbox, card, spent, files, batch, job, day, upsets, history>>

\* Midnight (UTC), where the day is read next: the ledger of the day is empty.
Midnight ==
    /\ at \in {"loop", "claim", "status"}
    /\ day < Days /\ day' = day + 1
    /\ spent' = [id \in Ids |-> 0]
    /\ UNCHANGED <<inbox, card, rows, files, at, batch, job, upsets, history>>

ScreenerCrash ==
    /\ at # "down" /\ Upset
    /\ at' = "down" /\ batch' = {} /\ job' = None
    /\ UNCHANGED <<inbox, card, queue, files, day, history>>

\* requeue_running.
ScreenerStart ==
    /\ at = "down"
    /\ at' = "loop"
    /\ rows' = [id \in Ids |-> IF rows[id].status = "RUNNING"
                               THEN [rows[id] EXCEPT !.status = "QUEUED"] ELSE rows[id]]
    /\ stranded' = {}
    /\ UNCHANGED <<inbox, card, spent, files, batch, job, day, upsets, superseded, dropped>>

ScreenerStep ==
    \/ LoopBegins \/ (\E id \in Requests : IngestRequest(id)) \/ IngestScanAll
    \/ (\E x \in Requests \cup {ScanAll} : DropRequest(x)) \/ IngestEnds
    \/ (\E d \in Decisions : RefuseDecision(d) \/ RepeatDecision(d) \/ ApplyDecision(d))
    \/ DecisionsEnd \/ Choose \/ ChooseNothing \/ Claim \/ ClaimDeferred \/ (\E code \in Verdicts \cup {"denied"} : Screen(code))
    \/ WriteReport \/ WriteResult \/ WriteStatus \/ MarkDone \/ MarkFailed
    \/ IdleEnqueue \/ ScreenerStart

Producers ==
    \/ (\E id \in Requests : SendRequest(id)) \/ SendScanAll
    \/ \E d \in Decisions, id \in Ids, action \in {"APPROVE", "REJECT"} : ShowCard(d, id, action)
    \/ \E d \in Decisions : TapDecision(d)

ScreenerNext ==
    \/ ScreenerStep \/ Producers
    \/ IngestFails \/ WriteFails \/ MarkRaises \/ ScreenerCrash \/ Midnight

ScreenerSpec == ScreenerInit /\ [][ScreenerNext]_qvars

\* The loop goes on and a dead service is restarted by its supervisor.
ScreenerFairness == WF_qvars(ScreenerStep)

-----------------------------------------------------------------------------
(* Properties. *)

AttemptsToday(S) == SumFunctionOnSet(spent, S)

\* No day costs more than its quotas, however often a request is retried, requeued
\* after a crash or left behind by a failed write; and bulk and idle work, its
\* retries included, never spends the attempts that are reserved for signals and
\* for the owner, which the claim itself does not look at.
QuotaHolds ==
    /\ AttemptsToday(Ids) <= Daily
    /\ \A b \in Bases : AttemptsToday(OfBase(b)) <= PerBase
    /\ \A a \in {Actor[c] : c \in Classes} : AttemptsToday(OfActor(a)) <= PerActor
    /\ AttemptsToday({id \in Ids : ~Urgent(id)}) <= Daily - Reserve

\* ShariaFilter.decision on the record that the screener has written.  It reads this
\* file where the screener's tree is the operational one; where the owner has chosen
\* the manual registry, ManualRegistryFilter decides and the file is research.
GateAllows(b) ==
    /\ Bound(b) /\ record[b].report.code = "green"
    /\ day - record[b].day < ApprovedDays

\* What the gate lets through is what the owner approved: an APPROVE of a proposal
\* for this base, bound to the very report that the owner saw, although reports are
\* rewritten by retries and restarts while a decision is on its way.
ApprovalIsExact ==
    \A b \in Bases : GateAllows(b) =>
        LET d == record[b].id
        IN  /\ d \in Decisions /\ card[d].action = "APPROVE" /\ card[d].id.base = b
            /\ record[b].report.version = card[d].version

\* A screening that ends DONE has closed the gate of its base, whatever it held:
\* no row is finished before its verdict is in force.
FinishedScanCloses ==
    [][\A id \in Ids : rows[id].status # "DONE" /\ rows'[id].status = "DONE"
                         => ~GateAllows(id.base)']_qvars

\* A request that is suppressed in favour of an active one still gets a result of
\* its own, although enqueue has committed when the write fails or the process
\* dies: again and again, every suppressed request is answered, unless its envelope
\* expires before the retry and the service drops the file.
SuppressedAnswered ==
    []<>(\A id \in Requests : rows[id].status = "REJECTED" => HasResult(id) \/ id \in dropped)

\* No request stays RUNNING, whichever write fails and wherever the process dies,
\* as long as its failure can be recorded.
RunningEnds ==
    []<>(\A id \in Ids : rows[id].status = "RUNNING" => id \in stranded)

\* "stale or changed evidence blocks new entries until a new exact proposal is
\* approved": after a newer screening of the base has finished, an approval of an
\* older card opens nothing.
NewVerdictBlocks ==
    \A b \in Bases : GateAllows(b) => record[b].id \notin superseded
================================================================================
