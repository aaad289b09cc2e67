----------------------------- MODULE MCBilling -----------------------------
(* Two orders of one coaching, each for a plan or for a credit pack.       *)
EXTENDS Billing, TLC

CONSTANTS c1, o1, o2, r1

MCCredits == "PLAN_UPGRADE" :> 2 @@ "AI_CREDITS" :> 1
=============================================================================
