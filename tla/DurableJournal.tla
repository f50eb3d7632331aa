----------------------------- MODULE DurableJournal -----------------------------
(***************************************************************************)
(* The lifecycle journal of the owner (binana/durable_journal.py).  SQLite *)
(* holds the events; a JSONL file is a projection of them that the Telegram*)
(* panel and the operator read.  append_event is called by the owner thread*)
(* and by the private stream thread, each call on a connection of its own: *)
(* BEGIN IMMEDIATE gives one of them the write lock.  The file is written  *)
(* and synced before the projection row that says so is committed, a crash *)
(* or an exception may come between any two steps, and the operator or a   *)
(* log rotation may remove the file.                                       *)
(*                                                                         *)
(* Data: an event stands for its identity and its encoded line; offsets    *)
(* count lines.  A line of the file is an encoded event, a line of the     *)
(* legacy file (raw), or the debris of a torn write.                       *)
(***************************************************************************)
EXTENDS Integers, Sequences

CONSTANTS Writers,      \* threads that call append_event
          Events,       \* lifecycle events, one per identity
          RawLines,     \* lines a JSONL file of an earlier release may hold
          Parsed,       \* [RawLines -> Events \cup {Malformed, Unencodable}]
          LegacyFiles,  \* the files that the first start may find
          Malformed,    \* a line that is not a JSON object
          Unencodable,  \* a JSON object whose identity() raises
          Debris,
          BatchLimit,   \* LIMIT 500 of project()
          MaxFaults,    \* bound: exceptions, crashes and removals of the file
          NoWriter, NoEvent

ASSUME JournalAssumption ==
    /\ NoWriter \notin Writers
    /\ {Malformed, Unencodable, NoEvent} \cap Events = {} /\ Malformed # Unencodable
    /\ RawLines \cap Events = {}
    /\ Parsed \in [RawLines -> Events \cup {Malformed, Unencodable}]
    /\ LegacyFiles \subseteq Seq(RawLines)
    /\ BatchLimit \in Nat \ {0}
    /\ MaxFaults \in Nat

VARIABLES rows,      \* lifecycle_events, in the order of seq
          cursor,    \* the projection row; seq = -1: there is none
          file,      \* the lines of the JSONL file
          backup,    \* the .legacy-<digest> copy: "none", "torn" or "full"
          lock,      \* holder of SQLite's write lock
          at,        \* [Writers -> step of append_event]
          event,     \* [Writers -> the event it appends]
          raw,       \* lock holder: legacy lines still to import
          pending,   \* lock holder: uncommitted rows of the import
          batch,     \* lock holder: rows being projected
          unlinked,  \* lock holder: its file handle is no longer the file
          faults,
          removed,   \* history: the file was removed some time
          legacy     \* history: the file that the first start found

jvars == <<rows, cursor, file, backup, lock, at, event, raw, pending, batch, unlinked, faults,
           removed, legacy>>

Lines == Events \cup RawLines \cup {Debris}

JournalTypeOK ==
    /\ rows \in Seq(Events) /\ pending \in Seq(Events) /\ batch \in Seq(Events)
    /\ file \in Seq(Lines) /\ raw \in Seq(Lines)
    /\ cursor \in [seq : Nat \cup {-1}, offset : Nat]
    /\ cursor.seq <= Len(rows)
    /\ backup \in {"none", "torn", "full"}
    /\ lock \in Writers \cup {NoWriter}
    /\ at \in [Writers -> {"idle", "initialize", "backup", "import", "insert",
                           "project", "write", "commit"}]
    /\ event \in [Writers -> Events \cup {NoEvent}]
    /\ unlinked \in BOOLEAN
    /\ faults \in 0..MaxFaults /\ removed \in BOOLEAN
    /\ legacy \in LegacyFiles

JournalInit ==
    /\ rows = <<>> /\ cursor = [seq |-> -1, offset |-> 0]
    /\ legacy \in LegacyFiles /\ file = legacy /\ backup = "none"
    /\ lock = NoWriter
    /\ at = [w \in Writers |-> "idle"] /\ event = [w \in Writers |-> NoEvent]
    /\ raw = <<>> /\ pending = <<>> /\ batch = <<>> /\ unlinked = FALSE
    /\ faults = 0 /\ removed = FALSE

Initialized == cursor.seq >= 0

InSeq(e, s) == \E k \in 1..Len(s) : s[k] = e

\* The event of a line of the file, as json.loads and identity() see it.
EventOf(l) == IF l \in Events THEN l ELSE IF l \in RawLines THEN Parsed[l] ELSE Malformed

\* INSERT OR IGNORE on the unique event_id.
InsertOrIgnore(s, e) == IF InSeq(e, s) THEN s ELSE Append(s, e)

Goto(w, step) == at' = [at EXCEPT ![w] = step]

\* A committed or rolled back transaction: the locals of its holder are gone.
Unlock ==
    /\ lock' = NoWriter
    /\ raw' = <<>> /\ pending' = <<>> /\ batch' = <<>> /\ unlinked' = FALSE

locals == <<raw, pending, batch, unlinked>>
injury == <<faults, removed, legacy>>

-----------------------------------------------------------------------------
(* append_event. *)

AppendEvent(w, e) ==
    /\ at[w] = "idle"
    /\ Goto(w, "initialize")
    /\ event' = [event EXCEPT ![w] = e]
    /\ UNCHANGED <<rows, cursor, file, backup, lock, locals, injury>>

\* _initialize, in one transaction: nothing to do when the projection row exists;
\* otherwise the file is read and copied aside, unless a copy exists already.
InitializeBegin(w) ==
    /\ at[w] = "initialize" /\ lock = NoWriter
    /\ IF Initialized
       THEN /\ Goto(w, "insert")
            /\ UNCHANGED <<lock, raw, pending>>
       ELSE /\ lock' = w
            /\ raw' = file /\ pending' = rows
            /\ Goto(w, IF file # <<>> /\ backup = "none" THEN "backup" ELSE "import")
    /\ UNCHANGED <<rows, cursor, file, backup, event, batch, unlinked, injury>>

WriteBackup(w) ==
    /\ at[w] = "backup"
    /\ backup' = "full"
    /\ Goto(w, "import")
    /\ UNCHANGED <<rows, cursor, file, lock, event, locals, injury>>

\* Mutant: the first malformed line ends the import.
ImportLine_StopsAtMalformed(w) ==
    /\ at[w] = "import" /\ raw # <<>> /\ EventOf(Head(raw)) # Unencodable
    /\ raw' = IF EventOf(Head(raw)) = Malformed THEN <<>> ELSE Tail(raw)
    /\ pending' = IF EventOf(Head(raw)) = Malformed THEN pending
                  ELSE InsertOrIgnore(pending, EventOf(Head(raw)))
    /\ UNCHANGED <<rows, cursor, file, backup, lock, at, event, batch, unlinked, injury>>

\* One line: malformed ones are skipped, known identities are ignored.
ImportLine(w) ==
    /\ at[w] = "import" /\ raw # <<>> /\ EventOf(Head(raw)) # Unencodable
    /\ raw' = Tail(raw)
    /\ pending' = IF EventOf(Head(raw)) = Malformed THEN pending
                  ELSE InsertOrIgnore(pending, EventOf(Head(raw)))
    /\ UNCHANGED <<rows, cursor, file, backup, lock, at, event, batch, unlinked, injury>>

\* identity() is outside the try of the line: the import is rolled back and
\* append_event raises, now and at every later call that finds this file.
ImportRaises(w) ==
    /\ at[w] = "import" /\ raw # <<>> /\ EventOf(Head(raw)) = Unencodable
    /\ Unlock
    /\ Goto(w, "idle")
    /\ event' = [event EXCEPT ![w] = NoEvent]
    /\ UNCHANGED <<rows, cursor, file, backup, injury>>

\* The imported rows and the projection row are committed together.
InitializeCommit(w) ==
    /\ at[w] = "import" /\ raw = <<>>
    /\ rows' = pending
    /\ cursor' = [seq |-> 0, offset |-> 0]
    /\ Unlock
    /\ Goto(w, "insert")
    /\ UNCHANGED <<file, backup, event, injury>>

\* Mutant: an event that is already in the table needs no projection.
Insert_DuplicateReturns(w) ==
    /\ at[w] = "insert" /\ lock = NoWriter
    /\ rows' = InsertOrIgnore(rows, event[w])
    /\ Goto(w, IF InSeq(event[w], rows) THEN "idle" ELSE "project")
    /\ UNCHANGED <<cursor, file, backup, lock, event, locals, injury>>

Insert(w) ==
    /\ at[w] = "insert" /\ lock = NoWriter
    /\ rows' = InsertOrIgnore(rows, event[w])
    /\ Goto(w, "project")
    /\ UNCHANGED <<cursor, file, backup, lock, event, locals, injury>>

-----------------------------------------------------------------------------
(* project: one transaction per batch. *)

\* No row after the cursor: append_event returns.
ProjectNothing(w) ==
    /\ at[w] = "project" /\ lock = NoWriter
    /\ cursor.seq = Len(rows)
    /\ Goto(w, "idle")
    /\ event' = [event EXCEPT ![w] = NoEvent]
    /\ UNCHANGED <<rows, cursor, file, backup, lock, locals, injury>>

\* The file is shorter than the projection says: start again from the first row.
ProjectRebuild(w) ==
    /\ at[w] = "project" /\ lock = NoWriter
    /\ cursor.seq < Len(rows) /\ Len(file) < cursor.offset
    /\ cursor' = [seq |-> 0, offset |-> 0]
    /\ UNCHANGED <<rows, file, backup, lock, at, event, locals, injury>>

\* The next batch, with the file opened and measured under the lock.
ProjectRead(w) ==
    /\ at[w] = "project" /\ lock = NoWriter
    /\ cursor.seq < Len(rows) /\ Len(file) >= cursor.offset
    /\ lock' = w
    /\ batch' = SubSeq(rows, cursor.seq + 1,
                       IF cursor.seq + BatchLimit < Len(rows)
                       THEN cursor.seq + BatchLimit ELSE Len(rows))
    /\ Goto(w, "write")
    /\ UNCHANGED <<rows, cursor, file, backup, event, raw, pending, unlinked, injury>>

\* Mutant: the batch is written at the end of the file, not at the offset.
ProjectWrite_Appends(w) ==
    /\ at[w] = "write"
    /\ file' = file \o batch
    /\ Goto(w, "commit")
    /\ UNCHANGED <<rows, cursor, backup, lock, event, locals, injury>>

\* Seek to the offset, write the batch if it is not there, truncate, sync.  A
\* handle on a removed file writes to nowhere.
ProjectWrite(w) ==
    /\ at[w] = "write"
    /\ file' = IF unlinked THEN file ELSE SubSeq(file, 1, cursor.offset) \o batch
    /\ Goto(w, "commit")
    /\ UNCHANGED <<rows, cursor, backup, lock, event, locals, injury>>

\* The projection row follows the file, and the loop goes on.
ProjectCommit(w) ==
    /\ at[w] = "commit"
    /\ cursor' = [seq |-> cursor.seq + Len(batch), offset |-> cursor.offset + Len(batch)]
    /\ Unlock
    /\ Goto(w, "project")
    /\ UNCHANGED <<rows, file, backup, event, injury>>

-----------------------------------------------------------------------------
(* Faults. *)

Fault == faults < MaxFaults /\ faults' = faults + 1

\* What an interrupted write may leave: some lines of the batch after the offset,
\* a cut line, and what the file held after them.
Torn ==
    UNION {{SubSeq(file, 1, cursor.offset) \o SubSeq(batch, 1, k) \o t :
               t \in {<<>>, <<Debris>>,
                      <<Debris>> \o SubSeq(file, cursor.offset + k + 2, Len(file))}} :
           k \in 0..Len(batch)}

\* The file operation that lock holder w was in the middle of.
Interrupt(w) ==
    /\ \/ file' = file
       \/ /\ at[w] = "write" /\ ~unlinked
          /\ file' \in Torn
    /\ \/ backup' = backup
       \/ at[w] = "backup" /\ backup' = "torn"

\* An exception of SQLite (the lock is not obtained in 10 s, the disk is full) or
\* of the file: the transaction of w is rolled back and append_event raises.
Raise(w) ==
    /\ Fault /\ at[w] # "idle"
    /\ IF lock = w THEN Interrupt(w) /\ Unlock
                   ELSE UNCHANGED <<file, backup, lock, locals>>
    /\ Goto(w, "idle")
    /\ event' = [event EXCEPT ![w] = NoEvent]
    /\ UNCHANGED <<rows, cursor, removed, legacy>>

\* The process dies and restarts: SQLite rolls the open transaction back.
JournalCrash ==
    /\ Fault /\ \E w \in Writers : at[w] # "idle"
    /\ IF lock # NoWriter THEN Interrupt(lock) ELSE UNCHANGED <<file, backup>>
    /\ Unlock
    /\ at' = [w \in Writers |-> "idle"] /\ event' = [w \in Writers |-> NoEvent]
    /\ UNCHANGED <<rows, cursor, removed, legacy>>

\* The operator or a log rotation removes the file.
Remove ==
    /\ Fault /\ file # <<>>
    /\ file' = <<>>
    /\ unlinked' = (lock # NoWriter)
    /\ removed' = TRUE
    /\ UNCHANGED <<rows, cursor, backup, lock, at, event, raw, pending, batch, legacy>>

JournalStep(w) ==
    \/ InitializeBegin(w) \/ WriteBackup(w) \/ ImportLine(w) \/ ImportRaises(w)
    \/ InitializeCommit(w)
    \/ Insert(w)
    \/ ProjectNothing(w) \/ ProjectRebuild(w) \/ ProjectRead(w) \/ ProjectWrite(w) \/ ProjectCommit(w)

JournalNext ==
    \/ \E w \in Writers, e \in Events : AppendEvent(w, e)
    \/ \E w \in Writers : JournalStep(w) \/ Raise(w)
    \/ JournalCrash \/ Remove

JournalSpec == JournalInit /\ [][JournalNext]_jvars

\* Events keep coming and a call that runs goes on; MaxFaults bounds what disturbs it.
JournalFairness ==
    /\ WF_jvars(\E w \in Writers, e \in Events : AppendEvent(w, e))
    /\ \A w \in Writers : WF_jvars(JournalStep(w))

-----------------------------------------------------------------------------
(* Properties. *)

\* What the projection row vouches for is in the file: whatever was interrupted,
\* repeated or removed, a file that reaches the committed offset starts with
\* exactly the first seq events of the table, in order, each once.
ProjectionFaithful ==
    Initialized /\ Len(file) >= cursor.offset =>
        /\ cursor.offset = cursor.seq
        /\ \A k \in 1..cursor.offset : file[k] = rows[k]
        /\ \A j, k \in 1..cursor.offset : file[j] = file[k] => j = k

\* A reader of a finished projection sees no debris: once the cursor has reached
\* the last event, nothing of a torn write or of the legacy file is left behind it.
NoDebrisAfterCatchUp ==
    cursor.seq = Len(rows) /\ rows # <<>> => Len(file) <= cursor.offset

\* Wherever the first start is interrupted or raises, the legacy file is untouched
\* until every event in it is committed, in one transaction; a file with a line
\* that cannot be encoded is never replaced.  Of the lines that are no events only
\* the copy keeps the text, and the copy only if nothing interrupted its writing:
\* a torn one is never written again.
LegacyEventsSurvive ==
    ~removed =>
        IF Initialized
        THEN /\ \A k \in 1..Len(legacy) :
                   Parsed[legacy[k]] = Malformed \/ InSeq(Parsed[legacy[k]], rows)
             /\ legacy # <<>> /\ backup # "torn" => backup = "full"
        ELSE file = legacy /\ rows = <<>>

\* An event that is in the table reaches the file, after any crash and any number
\* of failed writes, unless the file is removed and no later event comes.
EventReachesFile ==
    \A e \in Events :
        InSeq(e, rows) ~> (InSeq(e, file) \/ Len(file) < cursor.offset)
-----------------------------------------------------------------------------
(* The inductive invariant behind ProjectionFaithful, NoDebrisAfterCatchUp and    *)
(* LegacyEventsSurvive.                                                                *)

Distinct(s) == \A j, k \in 1..Len(s) : s[j] = s[k] => j = k

\* The lock and the steps that need it; what a step has established before.
Exclusive ==
    /\ \A w \in Writers : at[w] \in {"backup", "import", "write", "commit"} <=> lock = w
    /\ \A w \in Writers : at[w] \in {"insert", "project", "write", "commit"} => Initialized
    /\ \A w \in Writers : at[w] \in {"backup", "import"} => ~Initialized
    /\ \A w \in Writers : at[w] # "idle" => event[w] \in Events
    /\ ~Initialized => rows = <<>>

\* The rows are distinct, the cursor counts them, the file starts with them.
Aligned ==
    /\ Distinct(rows) /\ Distinct(pending)
    /\ Initialized => cursor.offset = cursor.seq
    /\ Initialized /\ Len(file) >= cursor.offset =>
           \A k \in 1..cursor.offset : file[k] = rows[k]

\* What the lock holder projects, before and after it has written.
Projecting ==
    /\ unlinked => file = <<>>
    /\ \A w \in Writers : at[w] \in {"write", "commit"} =>
           /\ Len(batch) >= 1 /\ cursor.seq + Len(batch) <= Len(rows)
           /\ \A k \in 1..Len(batch) : batch[k] = rows[cursor.seq + k]
    /\ \A w \in Writers : at[w] = "write" => unlinked \/ Len(file) >= cursor.offset
    /\ \A w \in Writers : at[w] = "commit" =>
           \/ unlinked
           \/ /\ Len(file) = cursor.seq + Len(batch)
              /\ \A k \in 1..Len(file) : file[k] = rows[k]

\* How far the import of the legacy file has come.
Importing ==
    ~removed =>
        /\ ~Initialized => file = legacy
        /\ \A w \in Writers : at[w] = "backup" => raw = legacy
        /\ \A w \in Writers : at[w] = "import" =>
               /\ legacy # <<>> => backup # "none"
               /\ Len(raw) <= Len(legacy)
               /\ \A k \in 1..Len(raw) : raw[k] = legacy[Len(legacy) - Len(raw) + k]
               /\ \A k \in 1..(Len(legacy) - Len(raw)) :
                      Parsed[legacy[k]] = Malformed \/ InSeq(Parsed[legacy[k]], pending)

JournalInv ==
    /\ JournalTypeOK /\ Exclusive /\ Aligned /\ Projecting /\ Importing
    /\ NoDebrisAfterCatchUp /\ LegacyEventsSurvive
================================================================================
