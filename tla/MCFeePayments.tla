--------------------------- MODULE MCFeePayments ---------------------------
(* One installment that takes two payments, one that takes one.            *)
EXTENDS FeePayments, TLC

CONSTANTS i1, i2, s1, s2, h1, h2, x1, r1

MCAmount == i1 :> 2 @@ i2 :> 1
=============================================================================
