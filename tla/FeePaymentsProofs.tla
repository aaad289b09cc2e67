-------------------------- MODULE FeePaymentsProofs --------------------------
(***************************************************************************)
(* Proofs about FeePayments, for any number of installments, concurrent    *)
(* calls, gateway payments and series: receipts have no gap, references    *)
(* are recorded once, no recorded payment is also given to a person, what  *)
(* is paid is the sum of the payments recorded, and the locked             *)
(* transactions implement the ledger of FeeLedger.                         *)
(***************************************************************************)
EXTENDS FeePayments, Sums

\* What Idle says, without its CHOOSE.
LEMMA IdleType == Idle \in Call /\ Idle.pc = "idle" /\ Idle.ref = NoRef
<1>1. (CHOOSE i \in Installments : TRUE) \in Installments
  BY FeePaymentsAssumption
<1> QED
  BY <1>1, FeePaymentsAssumption DEF Idle, Call

\* The end of a transaction leaves locks and calls of their types.
LEMMA ReleaseType ==
  ASSUME TypeOK, NEW c \in Calls, Release(c)
  PROVE  /\ lock' \in [Installments -> Calls \cup {Nobody}]
         /\ seqLock' \in [Series -> Calls \cup {Nobody}]
         /\ call' \in [Calls -> Call]
  BY IdleType DEF TypeOK, Release

-----------------------------------------------------------------------------
(* The inductive invariant.                                                *)

Fits(i, amount) == inst[i].status \in Open /\ amount <= Balance(i)

\* What a transaction in progress holds and has found out.  Others cannot change
\* what it found: they would need a lock that it holds.
CallOK(c) ==
  call[c].pc # "idle" =>
    /\ lock[call[c].inst] = c
    /\ call[c].amount > 0
    /\ c \in Hooks => /\ call[c].ref \in captured
                      /\ call[c].inst = order[call[c].ref].inst
                      /\ call[c].amount = order[call[c].ref].amount
    /\ c \in Staff => call[c].ref \notin Online
    /\ call[c].pc # "locked" => Fits(call[c].inst, call[c].amount)
    /\ call[c].pc = "numbered" => /\ seqLock[call[c].series] = c
                                  /\ call[c].number = last[call[c].series] + 1

\* Paid amounts and statuses agree.
RowOK(i) ==
  /\ inst[i].paid <= Amount[i]
  /\ inst[i].status = "PAID" <=> inst[i].paid = Amount[i]

\* A refused payment stays refused: its link's amount is fixed, and a balance
\* never grows back.
RejectedOK(x) == /\ x \in captured
                 /\ ~ Recorded(x)
                 /\ ~ Fits(order[x].inst, order[x].amount)

CallsInv == \A c \in Calls : CallOK(c)

RowsInv == \A i \in Installments : RowOK(i)

LinksInv == \A x \in captured : order[x].amount > 0

RejectedInv == \A x \in rejected : RejectedOK(x)

IInv == /\ TypeOK /\ CallsInv /\ RowsInv /\ LinksInv /\ RejectedInv
        /\ GapFree /\ OncePerReference

-----------------------------------------------------------------------------
\* The initial state satisfies the invariant.
LEMMA InitIInv == Init => IInv
<1> SUFFICES ASSUME Init
             PROVE  IInv
  OBVIOUS
<1>1. (CHOOSE i \in Installments : TRUE) \in Installments
  BY FeePaymentsAssumption
<1>2. TypeOK
  BY <1>1, IdleType, FeePaymentsAssumption DEF Init, TypeOK, Status, Open
<1>3. CallsInv
  BY IdleType DEF Init, CallsInv, CallOK
<1>4. RowsInv /\ LinksInv /\ RejectedInv
  BY FeePaymentsAssumption DEF Init, RowsInv, RowOK, LinksInv, RejectedInv
<1>5. GapFree
  <2>1. 1..0 = {}
    OBVIOUS
  <2> QED
    BY <2>1 DEF Init, GapFree
<1>6. OncePerReference
  BY DEF Init, OncePerReference
<1> QED
  BY <1>2, <1>3, <1>4, <1>5, <1>6 DEF IInv

\* Locking an installment keeps the types.
LEMMA BeginType ==
  ASSUME TypeOK, NEW c \in Calls, NEW i \in Installments, NEW amount \in Nat,
         NEW ref \in Refs \cup {NoRef}, Begin(c, i, amount, ref)
  PROVE  TypeOK'
<1>1. [pc |-> "locked", inst |-> i, amount |-> amount, ref |-> ref,
       series |-> 1, number |-> 0] \in Call
  BY FeePaymentsAssumption DEF Call
<1> QED
  BY <1>1 DEF TypeOK, Begin

\* Every step keeps the types.
LEMMA NextTypeOK == IInv /\ [Next]_vars => TypeOK'
<1> SUFFICES ASSUME IInv, [Next]_vars
             PROVE  TypeOK'
  OBVIOUS
<1> USE DEF IInv
<1>1. ASSUME NEW c \in Calls, BeginStaff(c)
      PROVE  TypeOK'
  <2>1. PICK i \in Installments :
          \E amount \in 1..Amount[i] : \E ref \in StaffRefs \cup {NoRef} :
            Begin(c, i, amount, ref)
    BY <1>1 DEF BeginStaff
  <2>2. PICK amount \in 1..Amount[i] : \E ref \in StaffRefs \cup {NoRef} :
            Begin(c, i, amount, ref)
    BY <2>1
  <2>3. PICK ref \in StaffRefs \cup {NoRef} : Begin(c, i, amount, ref)
    BY <2>2
  <2>4. amount \in Nat /\ ref \in Refs \cup {NoRef}
    BY FeePaymentsAssumption DEF Refs
  <2> QED
    BY <2>3, <2>4, BeginType
<1>2. ASSUME NEW c \in Calls, NEW x \in Online, BeginHook(c, x)
      PROVE  TypeOK'
  <2>1. order[x].inst \in Installments /\ order[x].amount \in Nat /\ x \in Refs \cup {NoRef}
    BY DEF TypeOK, Refs
  <2> QED
    BY <1>2, <2>1, BeginType DEF BeginHook
<1>3. ASSUME NEW c \in Calls, Duplicate(c) \/ RefuseInsert(c) \/ Rollback(c)
      PROVE  TypeOK'
  BY <1>3, ReleaseType DEF Duplicate, RefuseInsert, Rollback, TypeOK
<1>4. ASSUME NEW c \in Calls, Refuse(c)
      PROVE  TypeOK'
  <2>1. rejected' \in SUBSET Online
    BY <1>4 DEF Refuse, TypeOK, CallsInv, CallOK
  <2> QED
    BY <1>4, <2>1, ReleaseType DEF Refuse, TypeOK
<1>5. ASSUME NEW c \in Calls, Accept(c)
      PROVE  TypeOK'
  <2>1. [pc |-> "checked", inst |-> call[c].inst, amount |-> call[c].amount,
         ref |-> call[c].ref, series |-> series, number |-> 0] \in Call
    BY DEF TypeOK, Call
  <2> QED
    BY <1>5, <2>1 DEF Accept, TypeOK
<1>6. ASSUME NEW c \in Calls, TakeNumber(c)
      PROVE  TypeOK'
  <2>1. [pc |-> "numbered", inst |-> call[c].inst, amount |-> call[c].amount,
         ref |-> call[c].ref, series |-> call[c].series,
         number |-> last[call[c].series] + 1] \in Call
    BY DEF TypeOK, Call
  <2> QED
    BY <1>6, <2>1 DEF TakeNumber, TypeOK
<1>7. ASSUME NEW c \in Calls, Commit(c)
      PROVE  TypeOK'
  <2>1. TxnOf(c) \in Txn /\ call[c].inst \in Installments /\ call[c].series \in Series
         /\ call[c].number \in Nat /\ inst[call[c].inst].paid + call[c].amount \in Nat
    BY DEF TypeOK, Call, TxnOf, Txn
  <2>2. inst' \in [Installments -> [status: Status, paid: Nat]]
    BY <1>7, <2>1 DEF Commit, TypeOK, Status, Open
  <2> QED
    BY <1>7, <2>1, <2>2, ReleaseType DEF Commit, TypeOK
<1>8. ASSUME NEW i \in Installments, Waive(i)
      PROVE  TypeOK'
  BY <1>8 DEF Waive, TypeOK, Status
<1>9. ASSUME NEW x \in Online, NEW i \in Installments, CreateLink(x, i)
      PROVE  TypeOK'
  <2>1. Balance(i) \in Nat
    BY FeePaymentsAssumption DEF Balance, TypeOK, RowsInv, RowOK
  <2> QED
    BY <1>9, <2>1 DEF CreateLink, TypeOK
<1>10. ASSUME NEW x \in Online, Capture(x)
       PROVE  TypeOK'
  BY <1>10 DEF Capture, TypeOK
<1>11. CASE NewSeries
  BY <1>11 DEF NewSeries, TypeOK
<1>12. CASE UNCHANGED vars
  BY <1>12 DEF vars, TypeOK
<1> QED
  BY <1>1, <1>2, <1>3, <1>4, <1>5, <1>6, <1>7, <1>8, <1>9, <1>10, <1>11, <1>12
     DEF Next, Step

-----------------------------------------------------------------------------
(* Locks protect what a transaction has found.                             *)

\* A call whose transaction ends leaves the others what they hold.
LEMMA ReleaseKeepsCalls ==
  ASSUME IInv, NEW c \in Calls, Release(c),
         UNCHANGED <<inst, last, order, captured>>
  PROVE  CallsInv'
<1> SUFFICES ASSUME NEW d \in Calls
             PROVE  CallOK(d)'
  BY DEF CallsInv
<1>1. CASE d = c
  BY <1>1, IdleType DEF CallOK, Release, IInv, TypeOK
<1>2. CASE d # c
  <2>1. call'[d] = call[d] /\ CallOK(d)
    BY <1>2 DEF Release, IInv, TypeOK, CallsInv
  <2>2. lock[call[d].inst] = d => lock'[call[d].inst] = d
    BY <1>2 DEF Release, IInv, TypeOK, Call
  <2>3. seqLock[call[d].series] = d => seqLock'[call[d].series] = d
    BY <1>2 DEF Release, IInv, TypeOK, Call
  <2> QED
    BY <2>1, <2>2, <2>3 DEF CallOK, Fits, Balance
<1> QED
  BY <1>1, <1>2

\* A call that locks a free installment takes nothing from the others.
LEMMA BeginKeepsCalls ==
  ASSUME IInv, NEW c \in Calls, NEW i \in Installments, NEW amount \in Nat \ {0},
         NEW ref \in Refs \cup {NoRef}, Begin(c, i, amount, ref),
         c \in Hooks => /\ ref \in captured
                        /\ i = order[ref].inst
                        /\ amount = order[ref].amount,
         c \in Staff => ref \notin Online
  PROVE  CallsInv'
<1> SUFFICES ASSUME NEW d \in Calls
             PROVE  CallOK(d)'
  BY DEF CallsInv
<1>1. CASE d = c
  BY <1>1 DEF CallOK, Begin, IInv, TypeOK
<1>2. CASE d # c
  <2>1. call'[d] = call[d] /\ CallOK(d)
    BY <1>2 DEF Begin, IInv, TypeOK, CallsInv
  <2>2. lock[call[d].inst] = d => lock'[call[d].inst] = d
    BY FeePaymentsAssumption DEF Begin, IInv, TypeOK, Call
  <2> QED
    BY <2>1, <2>2 DEF CallOK, Fits, Balance, Begin
<1> QED
  BY <1>1, <1>2

\* What a transaction in progress holds and has found stays so.
LEMMA NextCalls == IInv /\ [Next]_vars => CallsInv'
<1> SUFFICES ASSUME IInv, [Next]_vars
             PROVE  CallsInv'
  OBVIOUS
<1> USE DEF IInv
<1>1. ASSUME NEW c \in Calls, BeginStaff(c)
      PROVE  CallsInv'
  <2>1. PICK i \in Installments :
          \E amount \in 1..Amount[i] : \E ref \in StaffRefs \cup {NoRef} :
            Begin(c, i, amount, ref)
    BY <1>1 DEF BeginStaff
  <2>2. PICK amount \in 1..Amount[i] : \E ref \in StaffRefs \cup {NoRef} :
            Begin(c, i, amount, ref)
    BY <2>1
  <2>3. PICK ref \in StaffRefs \cup {NoRef} : Begin(c, i, amount, ref)
    BY <2>2
  <2>4. amount \in Nat \ {0} /\ ref \in Refs \cup {NoRef} /\ ref \notin Online
    BY FeePaymentsAssumption DEF Refs
  <2>5. c \notin Hooks
    BY <1>1, FeePaymentsAssumption DEF BeginStaff
  <2> QED
    BY <2>3, <2>4, <2>5, BeginKeepsCalls
<1>2. ASSUME NEW c \in Calls, NEW x \in Online, BeginHook(c, x)
      PROVE  CallsInv'
  <2>1. order[x].inst \in Installments /\ order[x].amount \in Nat \ {0}
         /\ x \in Refs \cup {NoRef}
    BY <1>2 DEF TypeOK, Refs, BeginHook, LinksInv
  <2>2. c \notin Staff
    BY <1>2, FeePaymentsAssumption DEF BeginHook
  <2> QED
    BY <1>2, <2>1, <2>2, BeginKeepsCalls DEF BeginHook
<1>3. ASSUME NEW c \in Calls,
             Duplicate(c) \/ RefuseInsert(c) \/ Rollback(c) \/ Refuse(c)
      PROVE  CallsInv'
  BY <1>3, ReleaseKeepsCalls DEF Duplicate, RefuseInsert, Rollback, Refuse
<1>4. ASSUME NEW c \in Calls, Accept(c)
      PROVE  CallsInv'
  BY <1>4 DEF Accept, CallsInv, CallOK, TypeOK, Applies, Fits, Balance
<1>5. ASSUME NEW c \in Calls, TakeNumber(c)
      PROVE  CallsInv'
  <2> SUFFICES ASSUME NEW d \in Calls
               PROVE  CallOK(d)'
    BY DEF CallsInv
  <2>1. CASE d = c
    BY <1>5, <2>1 DEF TakeNumber, CallsInv, CallOK, TypeOK, Call, Fits, Balance
  <2>2. CASE d # c
    <3>1. call'[d] = call[d] /\ CallOK(d)
      BY <1>5, <2>2 DEF TakeNumber, TypeOK, CallsInv
    <3>2. seqLock[call[d].series] = d => seqLock'[call[d].series] = d
      BY <1>5, FeePaymentsAssumption DEF TakeNumber, TypeOK, Call
    <3> QED
      BY <1>5, <3>1, <3>2 DEF TakeNumber, CallOK, Fits, Balance
  <2> QED
    BY <2>1, <2>2
<1>6. ASSUME NEW c \in Calls, Commit(c)
      PROVE  CallsInv'
  <2> SUFFICES ASSUME NEW d \in Calls
               PROVE  CallOK(d)'
    BY DEF CallsInv
  <2>1. CASE d = c
    BY <1>6, <2>1, IdleType DEF Commit, Release, CallOK, TypeOK
  <2>2. CASE d # c
    <3>1. call'[d] = call[d] /\ CallOK(d) /\ CallOK(c)
      BY <1>6, <2>2 DEF Commit, Release, TypeOK, CallsInv
    <3>2. lock[call[d].inst] = d => /\ lock'[call[d].inst] = d
                                    /\ inst'[call[d].inst] = inst[call[d].inst]
      <4>1. lock[call[d].inst] = d => call[d].inst # call[c].inst
        BY <1>6, <2>2, <3>1 DEF Commit, CallOK
      <4> QED
        BY <1>6, <2>2, <4>1 DEF Commit, Release, TypeOK, Call
    <3>3. seqLock[call[d].series] = d => /\ seqLock'[call[d].series] = d
                                         /\ last'[call[d].series] = last[call[d].series]
      <4>1. seqLock[call[d].series] = d => call[d].series # call[c].series
        BY <1>6, <2>2, <3>1 DEF Commit, CallOK
      <4> QED
        BY <1>6, <2>2, <4>1 DEF Commit, Release, TypeOK, Call
    <3> QED
      BY <1>6, <3>1, <3>2, <3>3 DEF Commit, CallOK, Fits, Balance
  <2> QED
    BY <2>1, <2>2
<1>7. ASSUME NEW i \in Installments, Waive(i)
      PROVE  CallsInv'
  <2> SUFFICES ASSUME NEW d \in Calls
               PROVE  CallOK(d)'
    BY DEF CallsInv
  <2>1. lock[call[d].inst] = d => inst'[call[d].inst] = inst[call[d].inst]
    BY <1>7, FeePaymentsAssumption DEF Waive, TypeOK, Call
  <2> QED
    BY <1>7, <2>1 DEF Waive, CallsInv, CallOK, Fits, Balance
<1>8. ASSUME NEW x \in Online, NEW i \in Installments, CreateLink(x, i)
      PROVE  CallsInv'
  <2> SUFFICES ASSUME NEW d \in Calls
               PROVE  CallOK(d)'
    BY DEF CallsInv
  <2>1. \A y \in captured : order'[y] = order[y]
    BY <1>8 DEF CreateLink, LinksInv, TypeOK
  <2> QED
    BY <1>8, <2>1 DEF CreateLink, CallsInv, CallOK, Fits, Balance
<1>9. ASSUME NEW x \in Online, Capture(x)
      PROVE  CallsInv'
  BY <1>9 DEF Capture, CallsInv, CallOK, Fits, Balance
<1>10. CASE NewSeries
  BY <1>10 DEF NewSeries, CallsInv, CallOK, Fits, Balance
<1>11. CASE UNCHANGED vars
  BY <1>11 DEF vars, CallsInv, CallOK, Fits, Balance
<1> QED
  BY <1>1, <1>2, <1>3, <1>4, <1>5, <1>6, <1>7, <1>8, <1>9, <1>10, <1>11
     DEF Next, Step

-----------------------------------------------------------------------------
(* The committed rows.                                                     *)

\* All steps but three leave installments and payments alone, and forget no
\* captured payment nor its link.
RowsKept == UNCHANGED <<inst, txns, last, rejected>>

LinksKept == /\ captured \subseteq captured'
             /\ \A x \in captured : order'[x] = order[x]

\* Which steps touch the committed rows.
LEMMA WhoTouchesRows ==
  ASSUME IInv, [Next]_vars
  PROVE  /\ LinksKept
         /\ \/ RowsKept
            \/ \E c \in Calls : Commit(c) \/ Refuse(c)
            \/ \E i \in Installments : Waive(i)
<1> USE DEF RowsKept, LinksKept
<1>1. ASSUME NEW c \in Calls, BeginStaff(c)
      PROVE  LinksKept /\ RowsKept
  BY <1>1 DEF BeginStaff, Begin
<1>2. ASSUME NEW c \in Calls, NEW x \in Online, BeginHook(c, x)
      PROVE  LinksKept /\ RowsKept
  BY <1>2 DEF BeginHook, Begin
<1>3. ASSUME NEW c \in Calls, Step(c) \/ Rollback(c)
      PROVE  /\ LinksKept
             /\ RowsKept \/ Commit(c) \/ Refuse(c)
  BY <1>3 DEF Step, Duplicate, Refuse, Accept, TakeNumber, Commit, RefuseInsert, Rollback
<1>4. ASSUME NEW i \in Installments, Waive(i)
      PROVE  LinksKept
  BY <1>4 DEF Waive
<1>5. ASSUME NEW x \in Online, NEW i \in Installments, CreateLink(x, i)
      PROVE  LinksKept /\ RowsKept
  BY <1>5 DEF CreateLink, IInv, TypeOK, LinksInv
<1>6. ASSUME NEW x \in Online, Capture(x)
      PROVE  LinksKept /\ RowsKept
  BY <1>6 DEF Capture
<1>7. CASE NewSeries
  BY <1>7 DEF NewSeries
<1>8. CASE UNCHANGED vars
  BY <1>8 DEF vars
<1> QED
  BY <1>1, <1>2, <1>3, <1>4, <1>5, <1>6, <1>7, <1>8 DEF Next

\* Paid amounts and statuses go on agreeing, and a captured payment has a link.
LEMMA NextRows == IInv /\ [Next]_vars => RowsInv' /\ LinksInv'
<1> SUFFICES ASSUME IInv, [Next]_vars
             PROVE  RowsInv' /\ LinksInv'
  OBVIOUS
<1>1. LinksInv'
  <2>1. ASSUME NEW x \in Online, Capture(x)
        PROVE  LinksInv'
    BY <2>1 DEF Capture, IInv, LinksInv
  <2>2. CASE UNCHANGED captured
    BY <2>2, WhoTouchesRows DEF LinksKept, IInv, LinksInv
  <2>3. UNCHANGED captured \/ \E x \in Online : Capture(x)
    <3>1. \A c \in Calls : BeginStaff(c) => UNCHANGED captured
      BY DEF BeginStaff, Begin
    <3>2. \A c \in Calls, x \in Online : BeginHook(c, x) => UNCHANGED captured
      BY DEF BeginHook, Begin
    <3>3. \A c \in Calls : Step(c) \/ Rollback(c) => UNCHANGED captured
      BY DEF Step, Duplicate, Refuse, Accept, TakeNumber, Commit, RefuseInsert, Rollback
    <3> QED
      BY <3>1, <3>2, <3>3 DEF Next, Waive, CreateLink, NewSeries, vars
  <2> QED
    BY <2>1, <2>2, <2>3
<1>2. RowsInv'
  <2>1. CASE UNCHANGED inst
    BY <2>1 DEF IInv, RowsInv, RowOK
  <2>2. ASSUME NEW c \in Calls, Commit(c)
        PROVE  RowsInv'
    <3>1. Fits(call[c].inst, call[c].amount) /\ call[c].inst \in Installments
          /\ call[c].amount \in Nat
      BY <2>2 DEF Commit, IInv, CallsInv, CallOK, TypeOK, Call
    <3> SUFFICES ASSUME NEW i \in Installments
                 PROVE  RowOK(i)'
      BY DEF RowsInv
    <3>2. inst[i].paid \in Nat /\ Amount[i] \in Nat
      BY FeePaymentsAssumption DEF IInv, TypeOK
    <3>3. CASE i = call[c].inst
      <4>1. inst'[i] = [status |-> IF inst[i].paid + call[c].amount >= Amount[i]
                                   THEN "PAID" ELSE "PARTIAL",
                        paid |-> inst[i].paid + call[c].amount]
        BY <2>2, <3>3 DEF Commit, IInv, TypeOK
      <4>2. inst[i].paid + call[c].amount <= Amount[i]
        BY <3>1, <3>2, <3>3 DEF Fits, Balance
      <4> QED
        BY <3>1, <3>2, <4>1, <4>2 DEF RowOK
    <3>4. CASE i # call[c].inst
      <4>1. inst'[i] = inst[i]
        BY <2>2, <3>4 DEF Commit, IInv, TypeOK
      <4> QED
        BY <4>1 DEF IInv, RowsInv, RowOK
    <3> QED
      BY <3>3, <3>4
  <2>3. ASSUME NEW i \in Installments, Waive(i)
        PROVE  RowsInv'
    BY <2>3 DEF Waive, IInv, TypeOK, RowsInv, RowOK, Open
  <2> QED
    BY <2>1, <2>2, <2>3, WhoTouchesRows DEF RowsKept, Refuse
<1> QED
  BY <1>1, <1>2

\* A commit adds the next number of its series, and only commits do.
LEMMA NextGapFree == IInv /\ [Next]_vars => GapFree'
<1> SUFFICES ASSUME IInv, [Next]_vars
             PROVE  GapFree'
  OBVIOUS
<1>1. CASE UNCHANGED <<txns, last>>
  BY <1>1 DEF IInv, GapFree
<1>2. ASSUME NEW c \in Calls, Commit(c)
      PROVE  GapFree'
  <2> DEFINE s == call[c].series
             n == call[c].number
  <2>1. s \in Series /\ n = last[s] + 1 /\ last[s] \in Nat
    BY <1>2 DEF Commit, IInv, CallsInv, CallOK, TypeOK, Call
  <2>2. TxnOf(c).series = s /\ TxnOf(c).number = n
    BY DEF TxnOf
  <2>3. \A t \in txns : t.series \in Series /\ t.number \in 1..last[t.series]
    BY DEF IInv, GapFree, TypeOK, Txn
  <2>4. last'[s] = n /\ \A r \in Series \ {s} : last'[r] = last[r]
    BY <1>2, <2>1 DEF Commit, IInv, TypeOK
  <2>5. txns' = txns \cup {TxnOf(c)}
    BY <1>2 DEF Commit
  <2>6. \A t, u \in txns' : t.series = u.series /\ t.number = u.number => t = u
    <3>1. \A t \in txns : t.series = s => t.number # n
      BY <2>1, <2>3
    <3> QED
      BY <2>2, <2>5, <3>1 DEF IInv, GapFree
  <2>7. ASSUME NEW r \in Series
        PROVE  {t.number : t \in {u \in txns' : u.series = r}} = 1..last'[r]
    <3>1. {t.number : t \in {u \in txns : u.series = r}} = 1..last[r]
      BY DEF IInv, GapFree
    <3>2. CASE r = s
      <4>1. {t.number : t \in {u \in txns' : u.series = r}}
              = {t.number : t \in {u \in txns : u.series = r}} \cup {n}
        BY <2>2, <2>5, <3>2
      <4>2. 1..n = 1..last[s] \cup {n}
        BY <2>1
      <4> QED
        BY <3>1, <3>2, <4>1, <4>2, <2>4
    <3>3. CASE r # s
      BY <2>2, <2>4, <2>5, <3>1, <3>3
    <3> QED
      BY <3>2, <3>3
  <2> QED
    BY <2>6, <2>7 DEF GapFree
<1> QED
  BY <1>1, <1>2, WhoTouchesRows DEF RowsKept, Refuse, Waive

\* A commit adds a reference that no committed payment has.
LEMMA NextOnce == IInv /\ [Next]_vars => OncePerReference'
<1> SUFFICES ASSUME IInv, [Next]_vars
             PROVE  OncePerReference'
  OBVIOUS
<1>1. CASE UNCHANGED txns
  BY <1>1 DEF IInv, OncePerReference
<1>2. ASSUME NEW c \in Calls, Commit(c)
      PROVE  OncePerReference'
  BY <1>2 DEF Commit, TxnOf, Recorded, IInv, OncePerReference
<1> QED
  BY <1>1, <1>2, WhoTouchesRows DEF RowsKept, Refuse, Waive

\* A refused payment never fits again, so that nothing can record it.
LEMMA NextRejected == IInv /\ [Next]_vars => RejectedInv'
<1> SUFFICES ASSUME IInv, [Next]_vars
             PROVE  RejectedInv'
  OBVIOUS
<1>0. LinksKept
  BY WhoTouchesRows
<1>1. CASE RowsKept
  BY <1>0, <1>1 DEF RowsKept, LinksKept, IInv, RejectedInv, RejectedOK, Recorded, Fits, Balance
<1>2. ASSUME NEW c \in Calls, Refuse(c)
      PROVE  RejectedInv'
  <2>1. CASE c \in Hooks
    <3>1. RejectedOK(call[c].ref)
      BY <1>2, <2>1 DEF Refuse, IInv, CallsInv, CallOK, RejectedOK, Applies, Fits
    <3> QED
      BY <1>2, <2>1, <3>1
         DEF Refuse, IInv, RejectedInv, RejectedOK, Recorded, Fits, Balance
  <2>2. CASE c \notin Hooks
    BY <1>2, <2>2 DEF Refuse, IInv, RejectedInv, RejectedOK, Recorded, Fits, Balance
  <2> QED
    BY <2>1, <2>2
<1>3. ASSUME NEW c \in Calls, Commit(c)
      PROVE  RejectedInv'
  <2> SUFFICES ASSUME NEW x \in rejected
               PROVE  RejectedOK(x)'
    BY <1>3 DEF Commit, RejectedInv
  <2>1. RejectedOK(x) /\ x \in Online /\ x # NoRef
    BY FeePaymentsAssumption DEF IInv, RejectedInv, TypeOK, Refs
  <2>2. call[c].ref # x
    <3>1. CallOK(c) /\ call[c].pc = "numbered" /\ c \in Staff \cup Hooks
      BY <1>3 DEF Commit, IInv, CallsInv, Calls
    <3> QED
      BY <2>1, <3>1 DEF CallOK, RejectedOK
  <2>3. ~ Recorded(x)'
    BY <1>3, <2>1, <2>2 DEF Commit, TxnOf, Recorded, RejectedOK
  <2>4. order' = order /\ captured' = captured
    BY <1>3 DEF Commit
  <2>5. ~ Fits(order[x].inst, order[x].amount)'
    <3> DEFINE i == order[x].inst
    <3>1. i \in Installments /\ order[x].amount \in Nat
          /\ call[c].inst \in Installments /\ call[c].amount \in Nat
          /\ inst[i].paid \in Nat /\ Amount[i] \in Nat
      BY <2>1, FeePaymentsAssumption DEF IInv, TypeOK, Call
    <3>2. Fits(call[c].inst, call[c].amount)
      BY <1>3 DEF Commit, IInv, CallsInv, CallOK
    <3>3. CASE i = call[c].inst
      <4>1. inst'[i] = [status |-> IF inst[i].paid + call[c].amount >= Amount[i]
                                   THEN "PAID" ELSE "PARTIAL",
                        paid |-> inst[i].paid + call[c].amount]
        BY <1>3, <3>3 DEF Commit, IInv, TypeOK
      <4>2. inst[i].status \in Open /\ ~ order[x].amount <= Amount[i] - inst[i].paid
        BY <2>1, <3>2, <3>3 DEF RejectedOK, Fits, Balance
      <4>3. ~ order[x].amount <= Amount[i] - inst'[i].paid
        BY <3>1, <4>1, <4>2
      <4> QED
        BY <2>4, <4>3 DEF Fits, Balance
    <3>4. CASE i # call[c].inst
      <4>1. inst'[i] = inst[i]
        BY <1>3, <3>1, <3>4 DEF Commit, IInv, TypeOK
      <4> QED
        BY <2>1, <2>4, <4>1 DEF RejectedOK, Fits, Balance
    <3> QED
      BY <3>3, <3>4
  <2> QED
    BY <2>1, <2>3, <2>4, <2>5 DEF RejectedOK
<1>4. ASSUME NEW i \in Installments, Waive(i)
      PROVE  RejectedInv'
  <2> SUFFICES ASSUME NEW x \in rejected
               PROVE  RejectedOK(x)'
    BY <1>4 DEF Waive, RejectedInv
  <2>1. RejectedOK(x) /\ order[x].inst \in Installments
    BY DEF IInv, RejectedInv, TypeOK
  <2> QED
    BY <1>4, <2>1 DEF Waive, RejectedOK, Recorded, Fits, Balance, IInv, TypeOK, Open
<1> QED
  BY <1>1, <1>2, <1>3, <1>4, WhoTouchesRows

-----------------------------------------------------------------------------
(* Paid amounts and payments.                                              *)

\* What a set of payments adds up to.
Received(S) == MapThenSumSet(LAMBDA t : t.amount, S)

\* The sum in the form of Sums: the values are those of a function.
LEMMA ReceivedIsSum ==
  ASSUME NEW S
  PROVE  Received(S) = SumOver([t \in S |-> t.amount], S)
<1> DEFINE f == [t \in S |-> t.amount]
           P(g) == g = [s \in SUBSET S |->
                          IF s = {} THEN 0 ELSE Pick(s).amount + g[s \ {Pick(s)}]]
<1>1. Received(S) = (CHOOSE g : P(g))[S]
  BY DEF Received, MapThenSumSet, MapThenFoldSet, Pick
<1>2. SumOver(f, S) = (CHOOSE g : Iterates(g, f, S))[S]
  BY DEF SumOver, MapThenSumSet, MapThenFoldSet, Iterates, Pick
<1>3. ASSUME NEW g
      PROVE  P(g) <=> Iterates(g, f, S)
  <2>1. \A s \in SUBSET S : s # {} => f[Pick(s)] = Pick(s).amount
    BY DEF Pick
  <2> QED
    BY <2>1 DEF Iterates
<1>4. (CHOOSE g : P(g)) = (CHOOSE g : Iterates(g, f, S))
  BY <1>3
<1> QED
  BY <1>1, <1>2, <1>4

\* One payment more adds its amount.
LEMMA ReceivedWith ==
  ASSUME NEW S, IsFiniteSet(S), NEW u, u \notin S,
         \A t \in S \cup {u} : t.amount \in Nat
  PROVE  Received(S \cup {u}) = Received(S) + u.amount
<1> DEFINE f == [t \in S |-> t.amount]
           g == [t \in S \cup {u} |-> t.amount]
<1>1. g[u] = u.amount /\ \A t \in S : g[t] = f[t]
  OBVIOUS
<1>2. \A t \in S \cup {u} : g[t] \in Nat
  OBVIOUS
<1>3. Received(S \cup {u}) = SumOver(g, S \cup {u}) /\ Received(S) = SumOver(f, S)
  BY ReceivedIsSum
<1> HIDE DEF f, g
<1>4. SumOver(g, S \cup {u}) = SumOver(g, S) + g[u]
  BY <1>2, SumWith
<1>5. SumOver(g, S) = SumOver(f, S)
  BY <1>1, SumOfEquals
<1> QED
  BY <1>1, <1>3, <1>4, <1>5

\* What an installment was paid is what its payments add up to, and its status
\* says whether that is nothing or something.
AccountOK(i) ==
  /\ inst[i].paid = Received(PaymentsOf(i))
  /\ inst[i].status = "PENDING" => inst[i].paid = 0
  /\ inst[i].status = "PARTIAL" => inst[i].paid > 0

AccountsInv == IsFiniteSet(txns) /\ \A i \in Installments : AccountOK(i)

LEMMA InitAccounts == Init => AccountsInv
<1> SUFFICES ASSUME Init
             PROVE  AccountsInv
  OBVIOUS
<1>1. IsFiniteSet(txns)
  BY FS_EmptySet DEF Init
<1>2. ASSUME NEW i \in Installments
      PROVE  AccountOK(i)
  <2>1. PaymentsOf(i) = {}
    BY DEF Init, PaymentsOf
  <2>2. Received({}) = 0
    BY ReceivedIsSum, SumOfNothing
  <2>3. inst[i].paid = 0 /\ inst[i].status = "PENDING"
    BY DEF Init
  <2> QED
    BY <2>1, <2>2, <2>3 DEF AccountOK
<1> QED
  BY <1>1, <1>2 DEF AccountsInv

\* A commit books a payment that is not in the table yet: its number is new.
LEMMA NextAccounts == IInv /\ AccountsInv /\ [Next]_vars => AccountsInv'
<1> SUFFICES ASSUME IInv, AccountsInv, [Next]_vars
             PROVE  AccountsInv'
  OBVIOUS
<1>1. CASE UNCHANGED <<txns, inst>>
  BY <1>1 DEF AccountsInv, AccountOK, PaymentsOf
<1>2. ASSUME NEW i \in Installments, Waive(i)
      PROVE  AccountsInv'
  <2>1. txns' = txns
    BY <1>2 DEF Waive
  <2>2. ASSUME NEW j \in Installments
        PROVE  AccountOK(j)'
    <3>1. PaymentsOf(j)' = PaymentsOf(j) /\ AccountOK(j)
      BY <2>1 DEF PaymentsOf, AccountsInv
    <3>2. \/ inst'[j] = inst[j]
          \/ inst'[j].status = "WAIVED" /\ inst'[j].paid = inst[j].paid
      BY <1>2 DEF Waive, IInv, TypeOK
    <3> QED
      BY <3>1, <3>2 DEF AccountOK
  <2> QED
    BY <2>1, <2>2 DEF AccountsInv
<1>3. ASSUME NEW c \in Calls, Commit(c)
      PROVE  AccountsInv'
  <2>0. PICK t, k : t = TxnOf(c) /\ k = call[c].inst
    OBVIOUS
  <2>1. /\ k \in Installments /\ t.inst = k /\ t.amount = call[c].amount
        /\ call[c].amount \in Nat /\ call[c].amount > 0
    BY <1>3, <2>0 DEF Commit, TxnOf, IInv, TypeOK, Call, CallsInv, CallOK
  <2>2. txns' = txns \cup {t}
    BY <1>3, <2>0 DEF Commit
  <2>3. t \notin txns
    <3>1. /\ call[c].series \in Series
          /\ call[c].number = last[call[c].series] + 1
          /\ last[call[c].series] \in Nat
      BY <1>3 DEF Commit, IInv, CallsInv, CallOK, TypeOK, Call
    <3>2. \A u \in txns : u.series \in Series => u.number \in 1..last[u.series]
      BY DEF IInv, GapFree
    <3> QED
      BY <2>0, <3>1, <3>2 DEF TxnOf
  <2>4. IsFiniteSet(txns')
    BY <2>2, FS_AddElement DEF AccountsInv
  <2>5. ASSUME NEW j \in Installments, j # k
        PROVE  AccountOK(j)'
    <3>1. PaymentsOf(j)' = PaymentsOf(j)
      BY <2>1, <2>2, <2>5 DEF PaymentsOf
    <3>2. inst'[j] = inst[j]
      BY <1>3, <2>0, <2>5 DEF Commit, IInv, TypeOK
    <3> QED
      BY <3>1, <3>2 DEF AccountsInv, AccountOK
  <2>6. AccountOK(k)'
    <3>1. PaymentsOf(k)' = PaymentsOf(k) \cup {t}
      BY <2>1, <2>2 DEF PaymentsOf
    <3>2. IsFiniteSet(PaymentsOf(k)) /\ t \notin PaymentsOf(k)
      BY <2>3, FS_Subset DEF AccountsInv, PaymentsOf
    <3>3. \A u \in PaymentsOf(k) \cup {t} : u.amount \in Nat
      BY <2>1 DEF PaymentsOf, IInv, TypeOK, Txn
    <3>4. Received(PaymentsOf(k) \cup {t}) = Received(PaymentsOf(k)) + t.amount
      BY <3>2, <3>3, ReceivedWith
    <3>5. inst'[k] = [status |-> IF inst[k].paid + call[c].amount >= Amount[k]
                                 THEN "PAID" ELSE "PARTIAL",
                      paid |-> inst[k].paid + call[c].amount]
      BY <1>3, <2>0, <2>1 DEF Commit, IInv, TypeOK
    <3>6. inst[k].paid \in Nat /\ inst[k].paid = Received(PaymentsOf(k))
      BY <2>1 DEF IInv, TypeOK, AccountsInv, AccountOK
    <3>7. inst'[k].paid = inst[k].paid + t.amount /\ inst'[k].paid > 0
          /\ inst'[k].status # "PENDING"
      BY <2>1, <3>5, <3>6
    <3>8. inst'[k].paid = Received(PaymentsOf(k)')
      BY <3>1, <3>4, <3>6, <3>7
    <3> QED
      BY <3>7, <3>8 DEF AccountOK
  <2> QED
    BY <2>4, <2>5, <2>6 DEF AccountsInv
<1> QED
  BY <1>1, <1>2, <1>3, WhoTouchesRows DEF RowsKept, Refuse

-----------------------------------------------------------------------------
(* The theorems.                                                           *)

\* The locks, rows, links and receipts fit together in every reachable state: the
\* inductive invariant behind the theorems below.
THEOREM Invariant == Spec => []IInv
<1>1. IInv /\ [Next]_vars => IInv'
  BY NextTypeOK, NextCalls, NextRows, NextGapFree, NextOnce, NextRejected DEF IInv
<1> QED
  BY <1>1, InitIInv, PTL DEF Spec

\* Rows, payments, locks and calls have their types: in particular no payment
\* link is ever made for a negative amount.
THEOREM TypeCorrect == Spec => []TypeOK
<1>1. IInv => TypeOK
  BY DEF IInv
<1> QED
  BY <1>1, Invariant, PTL

\* Receipts of a series are numbered 1, 2, ... without a gap or a repetition,
\* however many transactions are rolled back and whenever the series changes.
THEOREM ReceiptsHaveNoGap == Spec => []GapFree
<1>1. IInv => GapFree
  BY DEF IInv
<1> QED
  BY <1>1, Invariant, PTL

\* A payment reference is recorded once, however many webhooks of it arrive.
THEOREM ReferencesAreRecordedOnce == Spec => []OncePerReference
<1>1. IInv => OncePerReference
  BY DEF IInv
<1> QED
  BY <1>1, Invariant, PTL

\* No gateway payment is both recorded and handed to a person to reconcile.
THEOREM RejectedIsNotRecorded == Spec => []NeverBothWays
<1>1. IInv => NeverBothWays
  BY DEF IInv, RejectedInv, RejectedOK, NeverBothWays
<1> QED
  BY <1>1, Invariant, PTL

\* No installment is paid more than its amount, and it is PAID exactly when it
\* is paid in full, also when waivers and payments race.
THEOREM NoOverpayment == Spec => []RowsInv
<1>1. IInv => RowsInv
  BY DEF IInv
<1> QED
  BY <1>1, Invariant, PTL

\* To the paisa, what an installment was paid is what its recorded payments add up
\* to, never more than its amount, and its status fits, however transactions,
\* rollbacks, webhooks and waivers interleave.
THEOREM PaidIsWhatWasRecorded == Spec => []Balanced
<1>1. AccountsInv /\ RowsInv => Balanced
  BY DEF AccountsInv, RowsInv, RowOK, AccountOK, Received, Balanced
<1>2. IInv => RowsInv
  BY DEF IInv
<1> QED
  BY <1>1, <1>2, InitAccounts, NextAccounts, Invariant, PTL DEF Spec

-----------------------------------------------------------------------------
(* The refinement.                                                         *)

\* A commit is a payment of the ledger: the locks make what the transaction
\* found earlier true at the moment of its commit.
LEMMA CommitPays ==
  ASSUME IInv, NEW c \in Calls, Commit(c)
  PROVE  Ledger!Next
<1> DEFINE i == call[c].inst
           s == call[c].series
           n == call[c].number
           t == TxnOf(c)
<1>1. t \in Ledger!Txn /\ t.inst = i /\ t.amount = call[c].amount
      /\ t.ref = call[c].ref /\ t.series = s /\ t.number = n
  BY DEF IInv, TypeOK, Call, TxnOf, Ledger!Txn
<1>2. i \in Installments /\ s \in Series /\ call[c].amount \in Nat /\ call[c].amount > 0
      /\ n = last[s] + 1 /\ Fits(i, call[c].amount)
  BY DEF IInv, TypeOK, Call, CallsInv, CallOK, Commit
<1>3. inst[i].paid \in Nat /\ Amount[i] \in Nat /\ last[s] \in Nat
  BY <1>2, FeePaymentsAssumption DEF IInv, TypeOK
<1>4. inst[i].status \in Ledger!Open /\ inst[i].paid + t.amount <= Amount[i]
  BY <1>1, <1>2, <1>3 DEF Fits, Balance, Open, Ledger!Open
<1>5. t.ref = NoRef \/ \A u \in txns : u.ref # t.ref
  BY <1>1 DEF Commit, Recorded
<1>6. t.number > 0 /\ Ledger!NextNumber(t.series, t.number)
  <2>1. Ledger!Issued(s) = 1..last[s]
    BY <1>2 DEF IInv, GapFree, Ledger!Issued
  <2>2. n > 0 /\ n \notin 1..last[s] /\ 1..(n - 1) \subseteq 1..last[s]
    BY <1>2, <1>3
  <2> QED
    BY <1>1, <2>1, <2>2 DEF Ledger!NextNumber
<1>7. txns' = txns \cup {t}
  BY DEF Commit
<1>8. inst' = [inst EXCEPT ![t.inst] =
        [status |-> IF inst[t.inst].paid + t.amount = Amount[t.inst]
                    THEN "PAID" ELSE "PARTIAL",
         paid |-> inst[t.inst].paid + t.amount]]
  <2>1. inst[i].paid + t.amount >= Amount[i] <=> inst[i].paid + t.amount = Amount[i]
    BY <1>1, <1>2, <1>3, <1>4
  <2> QED
    BY <1>1, <2>1 DEF Commit
<1>9. Ledger!Pay(t)
  BY <1>1, <1>2, <1>4, <1>5, <1>6, <1>7, <1>8 DEF Ledger!Pay
<1> QED
  BY <1>1, <1>7, <1>9 DEF Ledger!Next

\* Transactions that interleave, roll back, wait and repeat amount to payments and
\* waivers made one at a time in the ledger of FeeLedger.
THEOREM ImplementsLedger == Spec => LedgerSpec
<1>1. Init => Ledger!Init
  BY DEF Init, Ledger!Init
<1>2. IInv /\ [Next]_vars => [Ledger!Next]_<<inst, txns>>
  <2> SUFFICES ASSUME IInv, [Next]_vars
               PROVE  [Ledger!Next]_<<inst, txns>>
    OBVIOUS
  <2>1. ASSUME NEW c \in Calls, Commit(c)
        PROVE  Ledger!Next
    BY <2>1, CommitPays
  <2>2. ASSUME NEW i \in Installments, Waive(i)
        PROVE  Ledger!Next
    BY <2>2 DEF Waive, Open, Ledger!Next, Ledger!Waive, Ledger!Open
  <2>3. CASE UNCHANGED <<inst, txns>>
    BY <2>3
  <2> QED
    BY <2>1, <2>2, <2>3, WhoTouchesRows DEF RowsKept, Refuse
<1> QED
  BY <1>1, <1>2, Invariant, PTL DEF Spec, LedgerSpec, Ledger!Spec
=============================================================================
