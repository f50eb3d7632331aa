----------------------------- MODULE EntryContract -----------------------------
(***************************************************************************)
(* What the owner promises about entry orders, without saying how: each    *)
(* signal is submitted at most once, at most one submission is unsettled at*)
(* a time, and a submission is settled only by the truth about its order:  *)
(* it is owned by a Trade if and only if the order filled, and given up    *)
(* only if no order exists that could still fill.                          *)
(***************************************************************************)
CONSTANT Intents

VARIABLES outcome,  \* what the owner has durably concluded about each signal
          fate      \* what has become of its entry order on the exchange

cvars == <<outcome, fate>>

CInit ==
    /\ outcome = [i \in Intents |-> "unclaimed"]
    /\ fate = [i \in Intents |-> "unsent"]

\* One submission is authorised, when no other one is unsettled.
Submit(i) ==
    /\ outcome[i] = "unclaimed"
    /\ \A j \in Intents : outcome[j] # "submitted"
    /\ outcome' = [outcome EXCEPT ![i] = "submitted"]
    /\ UNCHANGED fate

Send(i) ==
    /\ outcome[i] = "submitted" /\ fate[i] = "unsent"
    /\ fate' = [fate EXCEPT ![i] = "open"]
    /\ UNCHANGED outcome

\* The exchange settles the order, or the request never reaches it.
Resolve(i, f) ==
    /\ outcome[i] = "submitted" /\ fate[i] = "open"
    /\ fate' = [fate EXCEPT ![i] = f]
    /\ UNCHANGED outcome

Own(i) ==
    /\ outcome[i] = "submitted" /\ fate[i] = "filled"
    /\ outcome' = [outcome EXCEPT ![i] = "owned"]
    /\ UNCHANGED fate

GiveUp(i) ==
    /\ outcome[i] = "submitted" /\ fate[i] \in {"unsent", "dead"}
    /\ outcome' = [outcome EXCEPT ![i] = "given_up"]
    /\ UNCHANGED fate

CNext == \E i \in Intents :
    \/ Submit(i) \/ Send(i) \/ Own(i) \/ GiveUp(i)
    \/ \E f \in {"filled", "dead"} : Resolve(i, f)

CSpec == CInit /\ [][CNext]_cvars
================================================================================
