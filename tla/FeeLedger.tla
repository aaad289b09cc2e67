----------------------------- MODULE FeeLedger -----------------------------
(***************************************************************************)
(* What fee collection promises: a ledger in which each payment and each   *)
(* waiver is one indivisible step.  A payment never exceeds what is left,  *)
(* a payment reference is used once, and receipts of a series are numbered *)
(* without a gap.                                                          *)
(***************************************************************************)
EXTENDS Integers

CONSTANTS
  Installments,
  Amount,   \* Amount[i]: what is due for installment i, in paise
  Refs,     \* references of payments
  NoRef,    \* a payment without a reference
  Series    \* receipt series: a prefix and a financial year

VARIABLES
  inst,     \* inst[i]: [status, paid]
  txns      \* the recorded payments

Open == {"PENDING", "PARTIAL"}

Init ==
  /\ inst = [i \in Installments |-> [status |-> "PENDING", paid |-> 0]]
  /\ txns = {}

Issued(s) == {t.number : t \in {u \in txns : u.series = s}}

\* The least number of the series that no receipt has.
NextNumber(s, n) == n \notin Issued(s) /\ 1..(n - 1) \subseteq Issued(s)

Pay(t) ==
  /\ inst[t.inst].status \in Open
  /\ t.amount > 0
  /\ inst[t.inst].paid + t.amount <= Amount[t.inst]
  /\ t.ref = NoRef \/ \A u \in txns : u.ref # t.ref
  /\ t.number > 0
  /\ NextNumber(t.series, t.number)
  /\ txns' = txns \cup {t}
  /\ inst' = [inst EXCEPT ![t.inst] =
       [status |-> IF inst[t.inst].paid + t.amount = Amount[t.inst]
                   THEN "PAID" ELSE "PARTIAL",
        paid |-> inst[t.inst].paid + t.amount]]

Waive(i) ==
  /\ inst[i].status \in Open
  /\ inst' = [inst EXCEPT ![i] = [status |-> "WAIVED", paid |-> inst[i].paid]]
  /\ UNCHANGED txns

Txn == [inst: Installments, amount: Nat, ref: Refs \cup {NoRef},
        series: Series, number: Nat]

\* The new payment is named by the step itself, so that TLC need not search Txn.
Next == (\E t \in txns' : t \in Txn /\ Pay(t)) \/ (\E i \in Installments : Waive(i))

Spec == Init /\ [][Next]_<<inst, txns>>
=============================================================================
