------------------------------- MODULE UserStream -------------------------------
(***************************************************************************)
(* The private user stream of the owner (binana/user_stream.py): a thread  *)
(* that keeps one authenticated websocket open, journals its events and    *)
(* publishes a health record that release_status reads from other threads  *)
(* before it lets a new entry through.                                     *)
(*                                                                         *)
(* Time passes in ticks (5 s in the code's numbers).  Instants are kept as *)
(* ages: since the last verified sign of life, since the wire went silent. *)
(* The exchange is external: the wire is up or silent, and a silent one    *)
(* gives no error until a timeout of the client.                           *)
(***************************************************************************)
EXTENDS Integers

CONSTANTS ConnectTimeout,   \* open_timeout and the wait for the reply
          RecvTimeout,      \* wait_for(socket.recv(), 15)
          PongTimeout,      \* wait_for(pong, 10)
          FreshFor,         \* 35 s: health_is_fresh and valid_until
          MaxStreamFaults   \* bound: silences, failed writes, lost connections, stops

ASSUME StreamAssumption ==
    /\ ConnectTimeout \in Nat \ {0} /\ RecvTimeout \in Nat \ {0} /\ PongTimeout \in Nat \ {0}
    /\ FreshFor \in Nat /\ RecvTimeout + PongTimeout < FreshFor
    /\ MaxStreamFaults \in Nat

VARIABLES stream,     \* where the thread is; "dead": there is none
          timer,      \* age of the wait the thread is in
          health,     \* [ok, age]: the record in memory; age of last_verified_at
          owner,      \* State of the bot: "running" or "stopped"
          wire,       \* the exchange answers
          silent,     \* age of the silence, 0 while the wire is up
          sfaults

svars == <<stream, timer, health, owner, wire, silent, sfaults>>

InSession == {"listening", "pinging"}

StreamTypeOK ==
    /\ stream \in {"dead", "connecting", "failing", "backoff", "cancelled"} \cup InSession
    /\ timer \in Nat
    /\ stream = "connecting" => timer <= ConnectTimeout
    /\ stream = "listening" => timer <= RecvTimeout
    /\ stream = "pinging" => timer <= PongTimeout
    /\ silent \in 0..FreshFor /\ (wire => silent = 0)
    /\ health \in [ok : BOOLEAN, age : 0..FreshFor]
    /\ owner \in {"running", "stopped"}
    /\ wire \in BOOLEAN
    /\ sfaults \in 0..MaxStreamFaults

\* startup() has called start(); nothing is known yet.
StreamInit ==
    /\ stream = "connecting" /\ timer = 0
    /\ health = [ok |-> FALSE, age |-> FreshFor]
    /\ owner \in {"running", "stopped"}
    /\ wire = TRUE /\ silent = 0 /\ sfaults = 0

\* health_is_fresh: subscribed and verified less than 35 s ago.
HealthIsFresh == health.ok /\ health.age < FreshFor

StreamFault == sfaults < MaxStreamFaults /\ sfaults' = sfaults + 1

\* _publish with a new last_verified_at.  The record in memory changes first; the
\* file may then refuse the write, and the session ends with that exception.
PublishVerified(next) ==
    /\ health' = [ok |-> TRUE, age |-> 0]
    /\ timer' = 0
    /\ \/ stream' = next /\ UNCHANGED sfaults
       \/ stream' = "failing" /\ StreamFault
    /\ UNCHANGED <<owner, wire, silent>>

-----------------------------------------------------------------------------
(* start, _session, _supervise and _run. *)

\* start(): nothing to do while the thread lives.  process_stopped calls it in
\* every iteration of a stopped bot; a running bot called it at its startup only.
Start ==
    /\ owner = "stopped" /\ stream = "dead"
    /\ stream' = "connecting" /\ timer' = 0
    /\ UNCHANGED <<health, owner, wire, silent, sfaults>>

Subscribe ==
    /\ stream = "connecting" /\ wire
    /\ PublishVerified("listening")

\* An event is journalled, then published.
ReceiveEvent ==
    /\ stream = "listening" /\ wire
    /\ PublishVerified("listening")

\* Silence for 15 s: ask for a pong.
RecvTimesOut ==
    /\ stream = "listening" /\ timer = RecvTimeout
    /\ stream' = "pinging" /\ timer' = 0
    /\ UNCHANGED <<health, owner, wire, silent, sfaults>>

Pong ==
    /\ stream = "pinging" /\ wire
    /\ PublishVerified("listening")

\* Mutant: the handler of a silent recv also takes the missing pong.
TimesOut_CountsAsPong ==
    /\ \/ stream = "connecting" /\ timer = ConnectTimeout
          /\ stream' = "failing" /\ UNCHANGED <<timer, health>>
       \/ stream = "pinging" /\ timer = PongTimeout
          /\ stream' = "listening" /\ timer' = 0 /\ health' = [ok |-> TRUE, age |-> 0]
    /\ UNCHANGED <<owner, wire, silent, sfaults>>

\* No reply, or no pong: the session ends with an exception.
TimesOut ==
    /\ \/ stream = "connecting" /\ timer = ConnectTimeout
       \/ stream = "pinging" /\ timer = PongTimeout
    /\ stream' = "failing"
    /\ UNCHANGED <<timer, health, owner, wire, silent, sfaults>>

\* Any other end of a session: a refused subscription, a foreign or terminating
\* event, a journal error, a closed connection, or 23 hours.
SessionEnds ==
    /\ stream \in InSession \cup {"connecting"}
    /\ StreamFault
    /\ stream' = "failing"
    /\ UNCHANGED <<timer, health, owner, wire, silent>>

\* Mutant: only the reconnect counter is published.
Supervise_KeepsHealth ==
    /\ stream = "failing"
    /\ timer' = 0
    /\ \/ stream' = "backoff" /\ UNCHANGED sfaults
       \/ stream' = "dead" /\ StreamFault
    /\ UNCHANGED <<health, owner, wire, silent>>

\* The supervisor publishes the end and waits.  When that write fails too the
\* exception leaves _supervise, _run publishes once more, and the thread is over.
Supervise ==
    /\ stream = "failing"
    /\ timer' = 0
    /\ health' = [ok |-> FALSE, age |-> health.age]
    /\ \/ stream' = "backoff" /\ UNCHANGED sfaults
       \/ stream' = "dead" /\ StreamFault
    /\ UNCHANGED <<owner, wire, silent>>

\* Mutant: the deadline moves with every look at the clock.
Reconnect_DeadlineMoves ==
    /\ stream = "backoff"
    /\ timer' = 0
    /\ UNCHANGED <<stream, health, owner, wire, silent, sfaults>>

Reconnect ==
    /\ stream = "backoff"
    /\ stream' = "connecting" /\ timer' = 0
    /\ UNCHANGED <<health, owner, wire, silent, sfaults>>

\* stop(): the task is cancelled; _run publishes the end and the thread is over.
\* cleanup calls it before the process, or this bot object, goes away.
Stop ==
    /\ StreamFault
    /\ stream \notin {"dead", "cancelled"}
    /\ stream' = "cancelled"
    /\ UNCHANGED <<timer, health, owner, wire, silent>>

Cancelled ==
    /\ stream = "cancelled"
    /\ stream' = "dead"
    /\ health' = [ok |-> FALSE, age |-> health.age]
    /\ UNCHANGED <<timer, owner, wire, silent, sfaults>>

\* A new process, or the bot object of a reloaded configuration: startup() starts
\* a new stream whose record says that nothing is known.
Restart ==
    /\ stream = "dead"
    /\ StreamFault
    /\ stream' = "connecting" /\ timer' = 0
    /\ health' = [ok |-> FALSE, age |-> FreshFor]
    /\ UNCHANGED <<owner, wire, silent>>

-----------------------------------------------------------------------------
(* The operator, the exchange and the clock. *)

\* _rpc_start asks for readiness, of which a fresh stream is a part; _rpc_stop asks
\* for nothing.
ResumeOrStop ==
    /\ \/ owner = "stopped" /\ HealthIsFresh /\ owner' = "running"
       \/ owner = "running" /\ owner' = "stopped"
    /\ UNCHANGED <<stream, timer, health, wire, silent, sfaults>>

Silence ==
    /\ wire /\ StreamFault
    /\ wire' = FALSE
    /\ UNCHANGED <<stream, timer, health, owner, silent>>

Answer ==
    /\ ~wire
    /\ wire' = TRUE /\ silent' = 0
    /\ UNCHANGED <<stream, timer, health, owner, sfaults>>

\* An age stops at the value after which nothing depends on it.
Older(age) == IF age < FreshFor THEN age + 1 ELSE age

\* Time passes unless a wait of the thread is over; what it does without waiting
\* takes no time.
TimePasses ==
    /\ stream \notin {"failing", "cancelled"}
    /\ stream = "connecting" => timer < ConnectTimeout
    /\ stream = "listening" => timer < RecvTimeout
    /\ stream = "pinging" => timer < PongTimeout
    /\ timer' = IF stream \in InSession \cup {"connecting"} THEN timer + 1 ELSE 0
    /\ health' = [ok |-> health.ok, age |-> Older(health.age)]
    /\ silent' = IF wire THEN 0 ELSE Older(silent)
    /\ UNCHANGED <<stream, owner, wire, sfaults>>

ThreadStep ==
    \/ Subscribe \/ ReceiveEvent \/ RecvTimesOut \/ Pong \/ TimesOut
    \/ Supervise \/ Reconnect \/ Cancelled

StreamNext ==
    \/ ThreadStep \/ Start \/ SessionEnds \/ Stop \/ Restart
    \/ ResumeOrStop \/ Silence \/ Answer \/ TimePasses

StreamSpec == StreamInit /\ [][StreamNext]_svars

\* The event loop runs its thread, a stopped bot keeps iterating, and the clock
\* advances.  An exchange that answers does not answer just after the timeout for
\* ever (SF).  Nothing obliges the operator.
StreamFairness ==
    /\ SF_svars(Subscribe) /\ WF_svars(RecvTimesOut) /\ WF_svars(Pong) /\ WF_svars(TimesOut)
    /\ WF_svars(Supervise) /\ WF_svars(Reconnect) /\ WF_svars(Cancelled)
    /\ WF_svars(Start) /\ WF_svars(TimePasses)

-----------------------------------------------------------------------------
(* Properties. *)

\* A reader that finds the health fresh, at any moment and from any thread, is
\* less than 35 s away from a moment at which the exchange answered: no reconnect,
\* failed write, cancelled task or half-open connection makes it look alive longer.
FreshMeansAlive == HealthIsFresh => silent < FreshFor

\* A connection that is merely quiet is never taken for a dead one: as long as a
\* session lasts its record stays fresh, however the waits for events and for
\* pongs follow each other, and a thread that is over never leaves a fresh record.
SessionStaysFresh ==
    /\ stream \in InSession => HealthIsFresh
    /\ stream \in {"dead", "backoff"} => ~HealthIsFresh

\* While the exchange answers and the thread is not over, the stream becomes fresh
\* (again), after any disconnect, timeout or failed subscription.
StreamRecovers ==
    [](wire /\ stream # "dead") ~> HealthIsFresh

\* A stopped bot gets its stream back, even after the thread has died of a failed
\* write: the operator can resume unless the exchange is silent.
StoppedRegainsStream ==
    (owner = "stopped") ~> (HealthIsFresh \/ owner = "running" \/ ~wire)

-----------------------------------------------------------------------------
(* The inductive invariant behind them. *)

\* The last sign of life came before the silence, if there is one.
SilenceIsYounger == silent <= health.age

\* How old the record of a session can be: the wait it is in, and the wait before.
SessionAge ==
    /\ stream = "listening" => health.ok /\ health.age <= timer
    /\ stream = "pinging" => health.ok /\ health.age <= RecvTimeout + timer
    /\ stream \in {"dead", "backoff"} => ~health.ok

StreamInv == StreamTypeOK /\ SilenceIsYounger /\ SessionAge
================================================================================
