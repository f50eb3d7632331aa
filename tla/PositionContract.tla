---------------------------- MODULE PositionContract ----------------------------
(***************************************************************************)
(* What the owner promises about one position, without generations, passes *)
(* or exchange ids: at most one obligation covers it, only what is covered *)
(* is sold, the Trade books what was sold, and a position is left for good *)
(* only when it is sold and booked whole, or when what remains is booked   *)
(* dust.                                                                   *)
(***************************************************************************)
EXTENDS Integers

CONSTANTS Amount,    \* what the entry bought
          MinExec    \* smallest quantity that can be sold

VARIABLES sold,      \* what the exchange has sold
          covered,   \* what the resting obligation may still sell
          booked,    \* what the Trade has booked
          status     \* "held", "closed" or "retained"

pvars == <<sold, covered, booked, status>>

PInit == sold = 0 /\ covered \in 1..Amount /\ booked = 0 /\ status = "held"

\* A new obligation, when none rests, over no more than what is unsold.
Cover(q) ==
    /\ status = "held" /\ covered = 0
    /\ covered' = q
    /\ UNCHANGED <<sold, booked, status>>

Sell(q) ==
    /\ status = "held"
    /\ sold' = sold + q /\ covered' = covered - q
    /\ UNCHANGED <<booked, status>>

\* The obligation ends: it expired, or the owner cancelled it.
Uncover ==
    /\ status = "held"
    /\ covered' = 0
    /\ UNCHANGED <<sold, booked, status>>

\* Executions are booked; the position is closed with the last of them.
Book(b) ==
    /\ status = "held"
    /\ booked' = b
    /\ \/ UNCHANGED status
       \/ b = Amount /\ covered = 0 /\ status' = "closed"
    /\ UNCHANGED <<sold, covered>>

Retain ==
    /\ status = "held" /\ covered = 0 /\ booked = sold
    /\ Amount - sold \in 1..(MinExec - 1)
    /\ status' = "retained"
    /\ UNCHANGED <<sold, covered, booked>>

PNext ==
    \/ \E q \in 1..(Amount - sold) : Cover(q)
    \/ \E q \in 1..covered : Sell(q)
    \/ \E b \in booked..sold : Book(b)
    \/ Uncover \/ Retain

PSpec == PInit /\ [][PNext]_pvars
================================================================================
