---------------------------- MODULE MCOwnerServices ----------------------------
(* Instances of the owner's journal, its private stream and its readiness for  *)
(* TLC.  The three share no variable: each is explored on its own, chosen by   *)
(* the initial value of part, while the other two stay in their first state.   *)
EXTENDS DurableJournal, UserStream, OwnerReadiness

CONSTANTS e1, e2, e3, l1, l2, l3, l4

VARIABLE part

\* The lines of an earlier release: two events, a malformed line between them, and
\* an object that cannot be encoded; the second file holds that one.
MCParsed == [l \in RawLines |-> CASE l = l1 -> e1 [] l = l2 -> Malformed
                                  [] l = l3 -> e2 [] l = l4 -> Unencodable]
MCLegacyFiles == {<<l1, l2, l3>>, <<l1, l4>>}

ServicesInit ==
    /\ part \in {"journal", "stream", "readiness"}
    /\ JournalInit /\ StreamInit /\ ReadinessInit
    /\ part # "journal" => legacy = <<l1, l4>>
    /\ part # "readiness" => executable = {}
    /\ part # "stream" => owner = "running"

ServicesNext ==
    /\ UNCHANGED part
    /\ \/ part = "journal" /\ JournalNext /\ UNCHANGED <<svars, rvars>>
       \/ part = "stream" /\ StreamNext /\ UNCHANGED <<jvars, rvars>>
       \/ part = "readiness" /\ ReadinessNext /\ UNCHANGED <<jvars, svars>>

\* The fairness of each part, as its specification states it.
ServicesSpec ==
    /\ ServicesInit
    /\ [][ServicesNext]_<<part, jvars, svars, rvars>>
    /\ WF_jvars(part = "journal" /\ (\E w \in Writers, e \in Events : AppendEvent(w, e)))
    /\ \A w \in Writers : WF_jvars(part = "journal" /\ JournalStep(w))
    /\ SF_svars(part = "stream" /\ Subscribe)
    /\ WF_svars(part = "stream" /\ RecvTimesOut)
    /\ WF_svars(part = "stream" /\ Pong)
    /\ WF_svars(part = "stream" /\ TimesOut)
    /\ WF_svars(part = "stream" /\ Supervise)
    /\ WF_svars(part = "stream" /\ Reconnect)
    /\ WF_svars(part = "stream" /\ Cancelled)
    /\ WF_svars(part = "stream" /\ Start)
    /\ WF_svars(part = "stream" /\ TimePasses)
    /\ WF_rvars(part = "readiness" /\ LoopStep)
    /\ WF_rvars(part = "readiness" /\ ClockTicks)

-----------------------------------------------------------------------------
(* The liveness properties, of the behaviours of their part. *)

\* Journal: an event in the table reaches the file, after any crash and any number
\* of failed writes, unless the file is removed and no later event comes.
EventReachesFileLive == part = "journal" => EventReachesFile

\* Stream: while the exchange answers and the thread is not over, the stream
\* becomes fresh (again), after any disconnect, timeout or failed subscription; and
\* a stopped bot gets its stream back even after the thread has died of a failed
\* write, so the operator can resume unless the exchange is silent.
StreamRecoversLive == part = "stream" => StreamRecovers /\ StoppedRegainsStream

\* Readiness: when the market leaves nothing executable and requests stop failing,
\* the owner approves again and again; no incident outlives the scan that could
\* close it.
ApprovalReturnsLive == part = "readiness" => ApprovalReturns
================================================================================
