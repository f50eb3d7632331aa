---------------------------- MODULE MCShariaScreener ----------------------------
(* Instances of ShariaScreener for TLC: one base, a manual and a bulk request,  *)
(* an idle scanner with a quota of its own, one owner decision.                 *)
EXTENDS ShariaScreener

CONSTANTS b1

MCRequests == {[class |-> "manual", base |-> b1, n |-> 1], [class |-> "bulk", base |-> b1, n |-> 1]}
MCActor == [c \in Classes |-> IF c = "idle" THEN "idle-scanner" ELSE "telegram-owner"]

FairSpec == ScreenerSpec /\ ScreenerFairness
================================================================================
