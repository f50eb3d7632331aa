----------------------------- MODULE OwnerReadiness -----------------------------
(***************************************************************************)
(* What the owner must know before it takes new exposure: the evidence that*)
(* refresh_runtime_evidence and refresh_retained_inventory gather in the   *)
(* owner loop, the incidents they open and close, and release_status, which*)
(* the loop and the RPC threads evaluate at any moment.                    *)
(*                                                                         *)
(* Retained dust stays in the wallet after a position is settled.  Several *)
(* residuals of one pair, or a price move, may make it executable again:   *)
(* then an obligation exists that no slot accounts for.  The market is     *)
(* external and moves at any time.                                         *)
(*                                                                         *)
(* Time passes in ticks (5 s in the code's numbers); instants are ages.    *)
(* The other conjuncts of release_status (certificate, disk, user stream,  *)
(* market context) can only turn an approval into a refusal and are left   *)
(* out; the stream is module UserStream.                                   *)
(***************************************************************************)
EXTENDS Integers, FiniteSets

CONSTANTS Pairs,          \* pairs with retained dust
          Verification,   \* the incident retained-inventory-verification
          EvidenceFor,    \* 35 s: age at which rest and retained health expire
          RestPeriod,     \* 20 s: the throttle of refresh_runtime_evidence
          ScanTime,       \* bound: longest scan, request timeouts included
          MaxLapses       \* bound: failed requests, failed writes and crashes

ASSUME ReadinessAssumption ==
    /\ Verification \notin Pairs
    /\ EvidenceFor \in Nat /\ RestPeriod \in Nat /\ ScanTime \in Nat /\ MaxLapses \in Nat

VARIABLES step,        \* where the owner loop is
          canonical,   \* canonical_reconciliation_ready
          rest,        \* _rest_health: [ok, age]
          retained,    \* _retained_health: [ok, age, executable]
          checked,     \* age of _rest_checked_at
          seen,        \* the pairs that the running or last scan classed EXECUTABLE
          todo,        \* pairs whose result is not yet written
          incidents,   \* open incidents, in SQLite
          executable,  \* the market's truth: pairs whose dust is executable now
          since,       \* age of that
          scanning,    \* age of the running scan
          lapses,
          flagged      \* history: pairs executable ever since their incident was opened

rvars == <<step, canonical, rest, retained, checked, seen, todo, incidents, executable, since,
           scanning, lapses, flagged>>

Horizon == EvidenceFor + ScanTime

ReadinessTypeOK ==
    /\ step \in {"loop", "reconcile", "refresh", "account", "scan", "write"}
    /\ canonical \in BOOLEAN
    /\ rest \in [ok : BOOLEAN, age : 0..EvidenceFor]
    /\ retained \in [ok : BOOLEAN, age : 0..EvidenceFor, executable : BOOLEAN]
    /\ checked \in 0..RestPeriod /\ scanning \in 0..ScanTime
    /\ seen \subseteq Pairs /\ todo \subseteq Pairs /\ executable \subseteq Pairs
    /\ incidents \subseteq Pairs \cup {Verification}
    /\ since \in [Pairs -> 0..Horizon]
    /\ flagged \subseteq executable
    /\ lapses \in 0..MaxLapses

\* A new process: nothing is known.
ReadinessInit ==
    /\ step = "loop" /\ canonical = FALSE
    /\ rest = [ok |-> FALSE, age |-> EvidenceFor]
    /\ retained = [ok |-> FALSE, age |-> EvidenceFor, executable |-> FALSE]
    /\ checked = RestPeriod /\ seen = {} /\ todo = {} /\ scanning = 0
    /\ incidents = {} /\ executable \in SUBSET Pairs
    /\ since = [p \in Pairs |-> 0]
    /\ lapses = 0 /\ flagged = {}

Lapse == lapses < MaxLapses /\ lapses' = lapses + 1

market == <<executable, since>>
memory == <<canonical, rest, retained, checked>>

-----------------------------------------------------------------------------
(* The owner loop. *)

\* _binana_reconcile_external_exits, running or stopped: not ready while it runs.
ReconcileBegin ==
    /\ step = "loop"
    /\ step' = "reconcile" /\ canonical' = FALSE
    /\ UNCHANGED <<rest, retained, checked, seen, todo, incidents, market, scanning, lapses, flagged>>

\* Mutant: failures are never forgotten.
ReconcileEnd_FailuresStick ==
    /\ step = "reconcile"
    /\ step' = "refresh"
    /\ \/ canonical' = (lapses = 0) /\ UNCHANGED lapses
       \/ canonical' = FALSE /\ Lapse
    /\ UNCHANGED <<rest, retained, checked, seen, todo, incidents, market, scanning, flagged>>

ReconcileEnd ==
    /\ step = "reconcile"
    /\ step' = "refresh"
    /\ \/ canonical' = TRUE /\ UNCHANGED lapses
       \/ canonical' = FALSE /\ Lapse
    /\ UNCHANGED <<rest, retained, checked, seen, todo, incidents, market, scanning, flagged>>

\* refresh_runtime_evidence: at most every 20 s, and unknown until it succeeds.
RefreshThrottled ==
    /\ step = "refresh" /\ checked < RestPeriod
    /\ step' = "loop"
    /\ UNCHANGED <<memory, seen, todo, incidents, market, scanning, lapses, flagged>>

RefreshBegin ==
    /\ step = "refresh" /\ checked = RestPeriod
    /\ step' = "account" /\ checked' = 0 /\ scanning' = 0
    /\ rest' = [ok |-> FALSE, age |-> 0]
    /\ UNCHANGED <<canonical, retained, seen, todo, incidents, market, lapses, flagged>>

\* A request fails, the account may not trade, or an order or a list of it is not
\* ours: the loop goes on with the evidence it has.
AccountRefused ==
    /\ step = "account" /\ Lapse
    /\ step' = "loop"
    /\ UNCHANGED <<memory, seen, todo, incidents, market, scanning, flagged>>

\* Account, open orders and lists are ours.  The retained health is unknown from
\* here until the scan is complete.
AccountVerified ==
    /\ step = "account"
    /\ step' = "scan"
    /\ retained' = [ok |-> FALSE, age |-> 0, executable |-> FALSE]
    /\ UNCHANGED <<canonical, rest, checked, seen, todo, incidents, market, scanning, lapses, flagged>>

\* Mutant: incidents are closed while the pairs are classed.
Classify_ClosesFirst ==
    /\ step = "scan"
    /\ step' = "write"
    /\ seen' = executable /\ todo' = Pairs
    /\ incidents' = incidents \ Pairs
    /\ UNCHANGED <<memory, market, scanning, lapses, flagged>>

\* One answer of the ticker classes every pair.
Classify ==
    /\ step = "scan"
    /\ step' = "write"
    /\ seen' = executable /\ todo' = Pairs
    /\ UNCHANGED <<memory, incidents, market, scanning, lapses, flagged>>

\* refresh_retained_inventory swallows its exception: the pass ends verified, with
\* an incident and an unknown retained health.
EndUnverified ==
    /\ step' = "loop" /\ todo' = {}
    /\ rest' = [ok |-> TRUE, age |-> 0]
    /\ incidents' = incidents \cup {Verification}
    /\ UNCHANGED <<canonical, retained, checked, seen, market, scanning, flagged>>

\* Metadata, ticker or a receipt is missing, or an order of a retained pair has no
\* open trade: nothing is closed.
ScanFails ==
    /\ step = "scan" /\ Lapse
    /\ EndUnverified

\* The result of one pair, in a transaction of its own.
WriteResult(p) ==
    /\ step = "write" /\ p \in todo
    /\ todo' = todo \ {p}
    /\ incidents' = IF p \in seen THEN incidents \cup {p} ELSE incidents \ {p}
    /\ flagged' = IF p \in seen \cap executable THEN flagged \cup {p} ELSE flagged
    /\ UNCHANGED <<step, memory, seen, market, scanning, lapses>>

\* A write fails.  So may the write of the incident that says so: then the
\* exception reaches refresh_runtime_evidence and the REST health stays unknown.
WriteFails ==
    /\ step = "write" /\ Lapse
    /\ \/ EndUnverified
       \/ /\ step' = "loop" /\ todo' = {}
          /\ UNCHANGED <<memory, incidents, seen, market, scanning, flagged>>

\* Every result is written: the verification incident is closed and both healths
\* carry the time of this moment, not of the ticker.
ScanComplete ==
    /\ step = "write" /\ todo = {}
    /\ step' = "loop"
    /\ incidents' = incidents \ {Verification}
    /\ retained' = [ok |-> TRUE, age |-> 0, executable |-> seen # {}]
    /\ rest' = [ok |-> TRUE, age |-> 0]
    /\ UNCHANGED <<canonical, checked, seen, todo, market, scanning, lapses, flagged>>

\* The process dies and restarts; the incidents are in SQLite.
OwnerCrash ==
    /\ Lapse
    /\ step' = "loop" /\ canonical' = FALSE
    /\ rest' = [ok |-> FALSE, age |-> EvidenceFor]
    /\ retained' = [ok |-> FALSE, age |-> EvidenceFor, executable |-> FALSE]
    /\ checked' = RestPeriod /\ seen' = {} /\ todo' = {} /\ scanning' = 0
    /\ UNCHANGED <<incidents, market, flagged>>

-----------------------------------------------------------------------------
(* The market and the clock. *)

\* More dust is retained, or the price moves.
MarketMoves(p) ==
    /\ executable' = IF p \in executable THEN executable \ {p} ELSE executable \cup {p}
    /\ since' = [since EXCEPT ![p] = 0]
    /\ flagged' = flagged \ {p}
    /\ UNCHANGED <<step, memory, seen, todo, incidents, scanning, lapses>>

Aged(age, limit) == IF age < limit THEN age + 1 ELSE age

Running == step \in {"account", "scan", "write"}

ClockTicks ==
    /\ Running => scanning < ScanTime
    /\ scanning' = IF Running THEN scanning + 1 ELSE 0
    /\ rest' = [ok |-> rest.ok, age |-> Aged(rest.age, EvidenceFor)]
    /\ retained' = [ok |-> retained.ok, age |-> Aged(retained.age, EvidenceFor),
                    executable |-> retained.executable]
    /\ checked' = Aged(checked, RestPeriod)
    /\ since' = [p \in Pairs |-> IF p \in executable THEN Aged(since[p], Horizon) ELSE 0]
    /\ UNCHANGED <<step, canonical, seen, todo, incidents, executable, lapses, flagged>>

LoopStep ==
    \/ ReconcileBegin \/ ReconcileEnd \/ RefreshThrottled \/ RefreshBegin
    \/ AccountVerified \/ Classify \/ (\E p \in Pairs : WriteResult(p)) \/ ScanComplete

ReadinessNext ==
    \/ LoopStep \/ AccountRefused \/ ScanFails \/ WriteFails \/ OwnerCrash
    \/ (\E p \in Pairs : MarketMoves(p)) \/ ClockTicks

ReadinessSpec == ReadinessInit /\ [][ReadinessNext]_rvars

\* The worker iterates for ever and the clock advances; nothing obliges the market.
ReadinessFairness == WF_rvars(LoopStep) /\ WF_rvars(ClockTicks)

-----------------------------------------------------------------------------
(* release_status, and the properties. *)

\* Mutant: an expired scan still counts.
ReleaseApproved_AnyAge ==
    /\ canonical /\ rest.ok /\ retained.ok /\ ~retained.executable
    /\ incidents = {}

\* What release_status concludes at this moment.
ReleaseApproved ==
    /\ canonical
    /\ rest.ok /\ rest.age < EvidenceFor
    /\ retained.ok /\ retained.age < EvidenceFor /\ ~retained.executable
    /\ incidents = {}

\* An approval, whenever and by whichever thread it is computed, never overlooks
\* retained inventory that has been executable for longer than the evidence may be
\* old: the 35 s of its age and the duration of the scan it comes from.
ApprovalSeesInventory ==
    ReleaseApproved => \A p \in executable : since[p] < Horizon

\* An alarm holds as long as its reason: dust that has been executable ever since
\* its incident was opened has it open, through failed scans, half-written results
\* and restarts.
AlarmHolds == flagged \subseteq incidents

\* A healthy verdict agrees with what is durable: after a complete scan the open
\* incidents are exactly its executable pairs, whatever was interrupted before.
VerdictIsDurable ==
    retained.ok => incidents = seen /\ retained.executable = (seen # {})

\* Refusals end: when the market leaves nothing executable and requests stop
\* failing, the owner approves again, again and again; no incident outlives the
\* scan that could close it.
ApprovalReturns == <>[](executable = {}) => []<>ReleaseApproved

-----------------------------------------------------------------------------
(* The inductive invariant behind them. *)

\* Results are written while a scan is in its last step only, and until then the
\* health that the last scan left is withdrawn.
ScanInProgress ==
    /\ step # "write" => todo = {}
    /\ step \in {"scan", "write"} => ~retained.ok

\* A result that is written agrees with the classification; one that is not yet
\* written cannot take an alarm away whose reason has lasted.
ResultsAgree ==
    /\ step = "write" => \A p \in Pairs \ todo : p \in incidents <=> p \in seen
    /\ \A p \in flagged \cap todo : p \in seen

\* What the classification did not see has become executable after it: no longer
\* ago than the scan has lasted, and then than the age of the health besides.
UnseenIsRecent ==
    /\ step = "write" => \A p \in executable \ seen : since[p] <= scanning
    /\ retained.ok => \A p \in executable \ seen : since[p] <= retained.age + ScanTime

ReadinessInv ==
    /\ ReadinessTypeOK /\ AlarmHolds /\ VerdictIsDurable
    /\ ScanInProgress /\ ResultsAgree /\ UnseenIsRecent
================================================================================
