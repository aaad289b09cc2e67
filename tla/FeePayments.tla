---------------------------- MODULE FeePayments ----------------------------
(***************************************************************************)
(* Collecting fees: recordPayment as a database transaction that locks the *)
(* installment, looks for the payment's reference, checks the balance,     *)
(* takes the next receipt number from a locked counter row and commits;    *)
(* waiveInstallment as one conditional UPDATE; and online payments, whose  *)
(* gateway delivers webhooks late, twice, and again after an error.        *)
(*                                                                         *)
(* Transactions run at READ COMMITTED: a statement sees what is committed, *)
(* and waits for a row that another transaction has locked.                *)
(***************************************************************************)
EXTENDS Integers, FiniteSets, FiniteSetsExt

CONSTANTS
  Installments,  \* fee_installments of one coaching
  Amount,        \* Amount[i]: the amount of installment i, in paise
  Staff,         \* concurrent calls of recordPayment by staff
  Hooks,         \* concurrent calls of handlePaymentWebhook
  Online,        \* ids of gateway payments
  StaffRefs,     \* references staff type in (of a bank transfer, say)
  NoRef,         \* no reference given
  Series,        \* receipt series, 1 and others: a prefix and a financial year
  Nobody         \* no transaction

Calls == Staff \cup Hooks

Refs == Online \cup StaffRefs

ASSUME FeePaymentsAssumption ==
  /\ Installments # {}
  /\ Amount \in [Installments -> Nat \ {0}]
  /\ Staff \cap Hooks = {}
  /\ NoRef \notin Refs
  /\ Online \cap StaffRefs = {}
  /\ 1 \in Series
  /\ Nobody \notin Calls

VARIABLES
  inst,      \* inst[i]: the committed row of installment i, [status, paid]
  txns,      \* the committed rows of fee_transactions
  last,      \* last[s]: the committed last_value of series s
  lock,      \* lock[i]: the transaction that has installment i locked
  seqLock,   \* seqLock[s]: the transaction that has the counter row of s locked
  call,      \* call[c]: the transaction that call c is in
  series,    \* the series of today's receipts
  order,     \* order[x]: [inst, amount] of the payment link of x, amount 0: none
  captured,  \* gateway payments whose money was taken
  rejected   \* gateway payments answered REJECTED, to be reconciled by a person

vars == <<inst, txns, last, lock, seqLock, call, series, order, captured, rejected>>

Open == {"PENDING", "PARTIAL"}

Status == Open \cup {"PAID", "WAIVED"}

Txn == [inst: Installments, amount: Nat, ref: Refs \cup {NoRef},
        series: Series, number: Nat]

Call == [pc: {"idle", "locked", "checked", "numbered"}, inst: Installments,
         amount: Nat, ref: Refs \cup {NoRef}, series: Series, number: Nat]

TypeOK ==
  /\ inst \in [Installments -> [status: Status, paid: Nat]]
  /\ txns \in SUBSET Txn
  /\ last \in [Series -> Nat]
  /\ lock \in [Installments -> Calls \cup {Nobody}]
  /\ seqLock \in [Series -> Calls \cup {Nobody}]
  /\ call \in [Calls -> Call]
  /\ series \in Series
  /\ order \in [Online -> [inst: Installments, amount: Nat]]
  /\ captured \in SUBSET Online
  /\ rejected \in SUBSET Online

Idle == [pc |-> "idle", inst |-> CHOOSE i \in Installments : TRUE, amount |-> 0,
         ref |-> NoRef, series |-> 1, number |-> 0]

Init ==
  /\ inst = [i \in Installments |-> [status |-> "PENDING", paid |-> 0]]
  /\ txns = {}
  /\ last = [s \in Series |-> 0]
  /\ lock = [i \in Installments |-> Nobody]
  /\ seqLock = [s \in Series |-> Nobody]
  /\ call = [c \in Calls |-> Idle]
  /\ series = 1
  /\ order = [x \in Online |-> [inst |-> CHOOSE i \in Installments : TRUE, amount |-> 0]]
  /\ captured = {}
  /\ rejected = {}

-----------------------------------------------------------------------------
\* A reference that a committed payment has; no reference is never a repeat.
Recorded(ref) == ref # NoRef /\ \E t \in txns : t.ref = ref

Balance(i) == Amount[i] - inst[i].paid

\* The end of c's transaction: its row locks are released.
Release(c) ==
  /\ lock' = [i \in Installments |-> IF lock[i] = c THEN Nobody ELSE lock[i]]
  /\ seqLock' = [s \in Series |-> IF seqLock[s] = c THEN Nobody ELSE seqLock[s]]
  /\ call' = [call EXCEPT ![c] = Idle]

-----------------------------------------------------------------------------
(* recordPaymentTransaction.                                               *)

\* SELECT ... FOR UPDATE of the installment.
Begin(c, i, amount, ref) ==
  /\ call[c].pc = "idle"
  /\ lock[i] = Nobody
  /\ lock' = [lock EXCEPT ![i] = c]
  /\ call' = [call EXCEPT ![c] = [pc |-> "locked", inst |-> i, amount |-> amount,
                                  ref |-> ref, series |-> 1, number |-> 0]]
  /\ UNCHANGED <<inst, txns, last, seqLock, series, order, captured, rejected>>

\* Staff record what was paid in cash or by transfer.
BeginStaff(c) ==
  /\ c \in Staff
  /\ \E i \in Installments : \E amount \in 1..Amount[i] : \E ref \in StaffRefs \cup {NoRef} :
       Begin(c, i, amount, ref)

\* A webhook of x: payment.captured, payment_link.paid, or one of them again.
BeginHook(c, x) ==
  /\ c \in Hooks
  /\ x \in captured
  /\ Begin(c, order[x].inst, order[x].amount, x)

\* The reference is recorded already: the call ends as a duplicate.
Duplicate(c) ==
  /\ call[c].pc = "locked"
  /\ Recorded(call[c].ref)
  /\ Release(c)
  /\ UNCHANGED <<inst, txns, last, series, order, captured, rejected>>

\* Mutant: only the status is looked at.
AppliesStatusOnly(c) == inst[call[c].inst].status \in Open

\* The payment fits the open balance of the locked installment.
Applies(c) ==
  /\ inst[call[c].inst].status \in Open
  /\ call[c].amount <= Balance(call[c].inst)

\* Mutant: status and balance are looked at before the reference.
RefuseStatusFirst(c) ==
  /\ call[c].pc = "locked"
  /\ ~ Applies(c)
  /\ rejected' = IF c \in Hooks THEN rejected \cup {call[c].ref} ELSE rejected
  /\ Release(c)
  /\ UNCHANGED <<inst, txns, last, series, order, captured>>

\* Mutant: a refused webhook is answered with an error, and comes again.
RefuseAsError(c) ==
  /\ call[c].pc = "locked"
  /\ ~ Recorded(call[c].ref)
  /\ ~ Applies(c)
  /\ Release(c)
  /\ UNCHANGED <<inst, txns, last, series, order, captured, rejected>>

\* INSTALLMENT_ALREADY_PAID, INSTALLMENT_WAIVED, AMOUNT_EXCEEDS_BALANCE: an
\* error for staff; a webhook is answered REJECTED.
Refuse(c) ==
  /\ call[c].pc = "locked"
  /\ ~ Recorded(call[c].ref)
  /\ ~ Applies(c)
  /\ rejected' = IF c \in Hooks THEN rejected \cup {call[c].ref} ELSE rejected
  /\ Release(c)
  /\ UNCHANGED <<inst, txns, last, series, order, captured>>

\* The payment is acceptable; the receipt prefix and the date give its series.
Accept(c) ==
  /\ call[c].pc = "locked"
  /\ ~ Recorded(call[c].ref)
  /\ Applies(c)
  /\ call' = [call EXCEPT ![c] = [pc |-> "checked", inst |-> call[c].inst,
                amount |-> call[c].amount, ref |-> call[c].ref,
                series |-> series, number |-> 0]]
  /\ UNCHANGED <<inst, txns, last, lock, seqLock, series, order, captured, rejected>>

\* Mutant: the counter is incremented outside the payment's transaction.
TakeNumberOutside(c) ==
  LET s == call[c].series
  IN /\ call[c].pc = "checked"
     /\ seqLock[s] = Nobody
     /\ last' = [last EXCEPT ![s] = @ + 1]
     /\ call' = [call EXCEPT ![c] = [pc |-> "numbered", inst |-> call[c].inst,
                   amount |-> call[c].amount, ref |-> call[c].ref,
                   series |-> s, number |-> last[s] + 1]]
     /\ UNCHANGED <<inst, txns, lock, seqLock, series, order, captured, rejected>>

\* nextDocumentNumber: the counter row stays locked until the transaction ends.
TakeNumber(c) ==
  LET s == call[c].series
  IN /\ call[c].pc = "checked"
     /\ seqLock[s] = Nobody
     /\ seqLock' = [seqLock EXCEPT ![s] = c]
     /\ call' = [call EXCEPT ![c] = [pc |-> "numbered", inst |-> call[c].inst,
                   amount |-> call[c].amount, ref |-> call[c].ref,
                   series |-> s, number |-> last[s] + 1]]
     /\ UNCHANGED <<inst, txns, last, lock, series, order, captured, rejected>>

TxnOf(c) == [inst |-> call[c].inst, amount |-> call[c].amount, ref |-> call[c].ref,
             series |-> call[c].series, number |-> call[c].number]

\* The INSERT (unless the unique index on the reference refuses it), the UPDATE
\* of the installment, and COMMIT.
Commit(c) ==
  LET i == call[c].inst
      paid == inst[i].paid + call[c].amount
  IN /\ call[c].pc = "numbered"
     /\ ~ Recorded(call[c].ref)
     /\ txns' = txns \cup {TxnOf(c)}
     /\ last' = [last EXCEPT ![call[c].series] = call[c].number]
     /\ inst' = [inst EXCEPT ![i] =
                   [status |-> IF paid >= Amount[i] THEN "PAID" ELSE "PARTIAL",
                    paid |-> paid]]
     /\ Release(c)
     /\ UNCHANGED <<series, order, captured, rejected>>

\* The unique index refuses a reference that was recorded since it was checked.
RefuseInsert(c) ==
  /\ call[c].pc = "numbered"
  /\ Recorded(call[c].ref)
  /\ Release(c)
  /\ UNCHANGED <<inst, txns, last, series, order, captured, rejected>>

\* A crash, a lost connection or the timeout of the transaction.
Rollback(c) ==
  /\ call[c].pc # "idle"
  /\ Release(c)
  /\ UNCHANGED <<inst, txns, last, series, order, captured, rejected>>

-----------------------------------------------------------------------------
\* Mutant: the UPDATE does not look at the status again.
WaiveUnconditionally(i) ==
  /\ lock[i] = Nobody
  /\ inst' = [inst EXCEPT ![i] = [status |-> "WAIVED", paid |-> inst[i].paid]]
  /\ UNCHANGED <<txns, last, lock, seqLock, call, series, order, captured, rejected>>

\* waiveInstallment: one UPDATE, which waits for the row and sees its last state.
Waive(i) ==
  /\ lock[i] = Nobody
  /\ inst[i].status \in Open
  /\ inst' = [inst EXCEPT ![i] = [status |-> "WAIVED", paid |-> inst[i].paid]]
  /\ UNCHANGED <<txns, last, lock, seqLock, call, series, order, captured, rejected>>

\* createPaymentLink: for the balance of the moment.
CreateLink(x, i) ==
  /\ order[x].amount = 0
  /\ inst[i].status \in Open
  /\ order' = [order EXCEPT ![x] = [inst |-> i, amount |-> Balance(i)]]
  /\ UNCHANGED <<inst, txns, last, lock, seqLock, call, series, captured, rejected>>

\* The parent pays; the gateway takes the money and will call the webhook.
Capture(x) ==
  /\ x \notin captured
  /\ order[x].amount > 0
  /\ captured' = captured \cup {x}
  /\ UNCHANGED <<inst, txns, last, lock, seqLock, call, series, order, rejected>>

\* A new financial year, or another receipt prefix in the settings, which may
\* also be one that was used before.
NewSeries ==
  /\ series' \in Series \ {series}
  /\ UNCHANGED <<inst, txns, last, lock, seqLock, call, order, captured, rejected>>

-----------------------------------------------------------------------------
Step(c) == \/ Duplicate(c) \/ Refuse(c) \/ Accept(c)
           \/ TakeNumber(c) \/ Commit(c) \/ RefuseInsert(c)

Next ==
  \/ \E c \in Calls : BeginStaff(c) \/ Step(c) \/ Rollback(c)
  \/ \E c \in Calls, x \in Online : BeginHook(c, x)
  \/ \E i \in Installments : Waive(i)
  \/ \E x \in Online : Capture(x) \/ \E i \in Installments : CreateLink(x, i)
  \/ NewSeries

Spec == Init /\ [][Next]_vars

Settled(x) == Recorded(x) \/ x \in rejected

\* A transaction goes on, a row lock is granted in turn, and the gateway repeats
\* the webhook of a payment until it is answered.
FairSpec ==
  /\ Spec
  /\ \A c \in Calls : SF_vars(Step(c))
  /\ \A x \in Online : SF_vars(\E c \in Hooks : ~ Settled(x) /\ BeginHook(c, x))

-----------------------------------------------------------------------------
(* Properties.                                                             *)

PaymentsOf(i) == {t \in txns : t.inst = i}

\* To the paisa: an installment has been paid what its recorded payments add up
\* to, never more than its amount, and its status says which of the two it is.
Balanced ==
  \A i \in Installments :
    /\ inst[i].paid = MapThenSumSet(LAMBDA t : t.amount, PaymentsOf(i))
    /\ inst[i].paid <= Amount[i]
    /\ inst[i].status = "PAID" <=> inst[i].paid = Amount[i]
    /\ inst[i].status = "PENDING" => inst[i].paid = 0
    /\ inst[i].status = "PARTIAL" => inst[i].paid > 0

\* The receipts of a series are numbered 1, 2, ... without a gap, and no two
\* payments have the same one, whatever was rolled back in between.
GapFree ==
  /\ \A s \in Series : {t.number : t \in {u \in txns : u.series = s}} = 1..last[s]
  /\ \A t, u \in txns : t.series = u.series /\ t.number = u.number => t = u

\* A gateway payment, and any payment reference, is recorded once, however
\* often and however concurrently its webhooks arrive.
OncePerReference ==
  \A t, u \in txns : t.ref = u.ref /\ t.ref # NoRef => t = u

\* A gateway payment that was recorded is never also given to a person to
\* reconcile: a later webhook of it is a duplicate even if the balance is gone.
NeverBothWays == \A x \in rejected : ~ Recorded(x)

Ledger == INSTANCE FeeLedger

\* Concurrent transactions, rollbacks, waivers and webhooks amount to payments
\* and waivers made one after another in an ideal ledger.
LedgerSpec == Ledger!Spec

\* While transactions that passed their checks do not keep being rolled back,
\* every payment the gateway took is recorded in the end or handed to a person.
CapturedIsSettled ==
  <>[][\A c \in Calls : call[c].pc # "locked" => ~ Rollback(c)]_vars =>
    \A x \in Online : x \in captured ~> Settled(x)
=============================================================================
