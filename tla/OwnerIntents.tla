------------------------------ MODULE OwnerIntents ------------------------------
(***************************************************************************)
(* The vocabulary of the owner's durable store (binana/state_store.py):    *)
(* the life-cycle states of an intent, the sets of states its queries name,*)
(* and the predicates those queries compute over the `intents` table.      *)
(* Every module of the owner shares these definitions.                     *)
(*                                                                         *)
(* An intent is one signal: (scope, pair, entry tag, candle), hashed into  *)
(* intent_id.  The queries read two columns of its row: state, the life-   *)
(* cycle label ("ABSENT": there is no row), and bound, whether             *)
(* freqtrade_trade_id is set.                                              *)
(***************************************************************************)
EXTENDS Integers, FiniteSets, FiniteSetsExt

CONSTANT Intents   \* signals the strategies may emit

\* reject_admission writes these states when a market or policy check fails.  No
\* query tells REJECTED_CAPABILITY, _CONFLUENCE and _SEQUENCE_BOOK from
\* REJECTED_EXECUTION: one label stands for the four.
RejectStates == {"PAIR_NOT_READY", "REJECTED_EXECUTION", "REJECTED_FLOW"}

\* States from which reject_admission and reserve_admission may still move.
ReservableStates == {"HALAL_DECIDED", "PAIR_NOT_READY", "REJECTED_FLOW"}

\* States of an intent whose entry submission has been claimed.
OwnedStates == {"ENTRY_PENDING", "ENTRY_PARTIAL", "OPEN", "EXIT_PENDING", "UNKNOWN"}

\* ENTRY_PARTIAL and CLOSED are named by queries and written by no code.
TERMINAL_INTENT_STATES == {"EXIT_FILLED", "DUST_RETAINED", "CLOSED_NO_FILL", "CLOSED"}

\* The states reconciliation writes to a claimed intent.
ReconciledStates == {"OPEN", "EXIT_PENDING", "UNKNOWN", "EXIT_FILLED",
                     "DUST_RETAINED", "CLOSED_NO_FILL"}

OCCUPYING_STATES == {"HALAL_DECIDED", "RESERVED"} \cup OwnedStates

FinalRejections == (RejectStates \ ReservableStates)
                     \cup {"REJECTED_HALAL", "REJECTED_MAX_SLOTS", "REJECTED_ALLOCATION"}

IntentStates == {"ABSENT", "RESERVED"} \cup ReservableStates \cup FinalRejections
                  \cup OwnedStates \cup TERMINAL_INTENT_STATES

\* Mutant: an entry that is pending without a Trade does not block.
BlockingIntents_UnknownOnly(table) ==
    {i \in Intents : table[i].state \in {"UNKNOWN", "ENTRY_PARTIAL"}}

\* Intents that has_blockers() reports: unknown or partial ones, and owned ones
\* no Freqtrade Trade is bound to.
BlockingIntents(table) ==
    {i \in Intents : \/ table[i].state \in {"UNKNOWN", "ENTRY_PARTIAL"}
                     \/ /\ ~table[i].bound
                        /\ table[i].state \in {"ENTRY_PENDING", "OPEN", "EXIT_PENDING"}}

\* has_blockers(): an OPEN incident or a blocking intent.
HasBlockers(table, openIncidents) ==
    openIncidents # {} \/ BlockingIntents(table) # {}

\* Intents that occupied_count() and occupied_nominal_usdt() count.
Occupying(table) == {i \in Intents : table[i].state \in OCCUPYING_STATES}

\* Intents that hold a reservation or an exposure: an occupying intent that has
\* gone past the decision to its reservation.
Committed(table) ==
    {i \in Intents : table[i].state \in OCCUPYING_STATES \ {"HALAL_DECIDED"}}
================================================================================
