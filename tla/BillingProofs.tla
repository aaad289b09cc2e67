--------------------------- MODULE BillingProofs ---------------------------
(***************************************************************************)
(* Proofs about Billing, for any number of coachings, orders and requests: *)
(* invoices have no gap, a paid order is booked once, nobody gets in       *)
(* without a trial or a paid period, and the gate uses an outdated state   *)
(* no longer than a cache entry lives.                                     *)
(***************************************************************************)
EXTENDS Billing, Sums

-----------------------------------------------------------------------------
(* Types.                                                                  *)

LEMMA InitType == Init => TypeOK
  BY BillingAssumption
  DEF Init, TypeOK, Times, Ends, Subscription, Status, SeriesSet

LEMMA RowType ==
  ASSUME NEW row \in Subscription
  PROVE  EndsAt(row) \in Nat /\ StateOf(row) \in State
  BY BillingAssumption DEF EndsAt, StateOf, State, Subscription, Ends, Status

\* What a settlement in progress has found out: others cannot change it, they
\* would need one of the two locks it holds.
TxOK(o) ==
  tx[o] # None =>
    /\ order[o] \in Unpaid
    /\ paid[o] # None
    /\ tx[o].number = last[tx[o].series] + 1
    /\ \A p \in Orders : tx[p] # None /\ tx[p].series = tx[o].series => p = o

TxInv == \A o \in Orders : TxOK(o)

LEMMA UnsettledType ==
  ASSUME TypeOK, NEW o \in Orders, Unsettled(o)
  PROVE  order[o] \in Unpaid
  BY DEF TypeOK, Unsettled, Unpaid, Invoiced

\* Every step keeps the types, given what settlements in progress know.
LEMMA NextType ==
  ASSUME TypeOK, TxInv, [Next]_vars
  PROVE  TypeOK'
<1> USE BillingAssumption DEF TypeOK, Times, Ends
<1>1. CASE Tick
  BY <1>1 DEF Tick
<1>2. CASE \E o \in Orders, c \in Coachings, type \in Types : CreateOrder(o, c, type)
  BY <1>2 DEF CreateOrder, Unpaid
<1>3. CASE \E o \in Orders, exact \in BOOLEAN : Pay(o, exact)
  BY <1>3 DEF Pay, Payment
<1>4. CASE \E o \in Orders : SettleMismatch(o)
  BY <1>4 DEF SettleMismatch
<1>5. CASE \E o \in Orders : SettleBegin(o)
  <2> PICK o \in Orders : SettleBegin(o)
    BY <1>5
  <2>1. order[o] \in Unpaid
    BY UnsettledType DEF SettleBegin
  <2>2. sub[order[o].coaching] \in Subscription
    BY <2>1 DEF Unpaid
  <2>3. SeriesOf(paid[o].at) \in SeriesSet
    BY DEF SeriesOf, SeriesSet
  <2>4. NextNumber(SeriesOf(paid[o].at)) \in Nat \ {0}
    BY <2>3 DEF NextNumber
  <2> QED
    BY <2>2, <2>3, <2>4 DEF SettleBegin, Settlement
<1>6. CASE \E o \in Orders : SettleCommit(o)
  <2> PICK o \in Orders : SettleCommit(o)
    BY <1>6
  <2>1. /\ tx[o] \in Settlement
        /\ order[o] \in Unpaid
        /\ paid[o] \in Payment
    BY DEF SettleCommit, TxInv, TxOK
  <2>2. Start(tx[o].current, paid[o].at) \in Nat
    BY <2>1 DEF Start, Settlement, Subscription, Payment
  <2>3. order' \in [Orders -> Unpaid \cup Invoiced \cup {None}]
    BY <2>1 DEF SettleCommit, Settlement, Unpaid, Invoiced
  <2>4. sub' \in [Coachings -> Subscription]
    BY <2>1, <2>2 DEF SettleCommit, Subscription, Status, Unpaid
  <2>5. granted' \in [Orders -> Grant \cup {None}]
    BY <2>1, <2>2 DEF SettleCommit, Settlement, Subscription, Grant
  <2>6. wallet' \in [Coachings -> Nat]
    BY <2>1 DEF SettleCommit, Unpaid
  <2>7. last' \in [SeriesSet -> Nat]
    BY <2>1 DEF SettleCommit, Settlement
  <2> QED
    BY <2>3, <2>4, <2>5, <2>6, <2>7 DEF SettleCommit
<1>7. CASE \E o \in Orders : SettleAbort(o)
  BY <1>7 DEF SettleAbort, Fail
<1>8. CASE \E o \in Orders : SettleFinish(o)
  BY <1>8 DEF SettleFinish, Invalidate, Fail
<1>9. CASE \E o \in Orders : SettleCrash(o)
  BY <1>9 DEF SettleCrash, Fail
<1>10. CASE ScanRead
  BY <1>10 DEF ScanRead
<1>11. CASE \E c \in Coachings : ScanExpire(c)
  <2> PICK c \in Coachings : ScanExpire(c)
    BY <1>11
  <2>1. sub' = [sub EXCEPT ![c] = [sub[c] EXCEPT !.status = "EXPIRED", !.updatedAt = now]]
    BY DEF ScanExpire
  <2>2. [sub[c] EXCEPT !.status = "EXPIRED", !.updatedAt = now] \in Subscription
    <3>1. sub[c] \in Subscription /\ now \in Times /\ "EXPIRED" \in Status
      BY DEF Status
    <3>2. QED
      BY <3>1 DEF Subscription
  <2>3. sub' \in [Coachings -> Subscription]
    BY <2>1, <2>2
  <2> QED
    BY <2>3 DEF ScanExpire
<1>12. CASE \E c \in Coachings : ScanInvalidate(c)
  BY <1>12 DEF ScanInvalidate, Invalidate, Fail
<1>13. CASE ScanCrash
  BY <1>13 DEF ScanCrash, Fail
<1>14. CASE \E r \in Requests, c \in Coachings : Load(r, c)
  BY <1>14, RowType DEF Load, Fail, Reading
<1>15. CASE \E r \in Requests : Fill(r)
  BY <1>15 DEF Fill, Fail, Entry, Reading, Expiry
<1>16. CASE UNCHANGED vars
  BY <1>16 DEF vars
<1> QED
  BY <1>1, <1>2, <1>3, <1>4, <1>5, <1>6, <1>7, <1>8, <1>9, <1>10, <1>11, <1>12,
     <1>13, <1>14, <1>15, <1>16 DEF Next

-----------------------------------------------------------------------------
(* Settlements and their invoice numbers.                                  *)

LEMMA NextTx ==
  ASSUME TypeOK, TxInv, [Next]_vars
  PROVE  TxInv'
<1> USE DEF TxInv, TxOK
<1>1. CASE \E o \in Orders, c \in Coachings, type \in Types : CreateOrder(o, c, type)
  BY <1>1 DEF CreateOrder, Unpaid
<1>2. CASE \E o \in Orders, exact \in BOOLEAN : Pay(o, exact)
  <2> PICK o \in Orders, exact \in BOOLEAN : Pay(o, exact)
    BY <1>2
  <2>1. tx[o] = None
    BY DEF Pay
  <2> QED
    BY <2>1 DEF Pay, TypeOK
<1>3. CASE \E o \in Orders : SettleBegin(o)
  <2> PICK o \in Orders : SettleBegin(o)
    BY <1>3
  <2> DEFINE s == SeriesOf(paid[o].at)
  <2>1. order[o] \in Unpaid
    BY UnsettledType DEF SettleBegin
  <2>2. /\ tx' = [tx EXCEPT ![o] = [series |-> s, number |-> NextNumber(s),
                                   current |-> sub[order[o].coaching]]]
        /\ paid[o] # None
        /\ CounterFree(s)
        /\ UNCHANGED <<order, paid, last>>
    BY DEF SettleBegin, Delivered
  <2> QED
    BY <2>1, <2>2 DEF CounterFree, NextNumber, TypeOK
<1>4. CASE \E o \in Orders : SettleCommit(o)
  <2> PICK o \in Orders : SettleCommit(o)
    BY <1>4
  <2>1. \A p \in Orders : tx'[p] # None => /\ p # o
                                          /\ tx'[p] = tx[p]
                                          /\ tx[p].series # tx[o].series
                                          /\ order'[p] = order[p]
    BY DEF SettleCommit, TypeOK
  <2>2. \A s \in SeriesSet : s # tx[o].series => last'[s] = last[s]
    BY DEF SettleCommit, TypeOK
  <2> QED
    BY <2>1, <2>2 DEF SettleCommit, TypeOK, Settlement
<1>5. CASE \E o \in Orders : SettleAbort(o)
  BY <1>5 DEF SettleAbort, TypeOK
<1>6. CASE UNCHANGED <<order, paid, last, tx>>
  BY <1>6
<1>7. QED
  BY <1>1, <1>2, <1>3, <1>4, <1>5, <1>6
  DEF Next, vars, Tick, SettleMismatch, SettleFinish, SettleCrash, ScanRead,
      ScanExpire, ScanInvalidate, ScanCrash, Load, Fill

LEMMA NextGapFree ==
  ASSUME TypeOK, TxInv, InvoicesGapFree, [Next]_vars
  PROVE  InvoicesGapFree'
<1> USE DEF InvoicesGapFree, PaidOrders
<1>1. CASE \E o \in Orders, c \in Coachings, type \in Types : CreateOrder(o, c, type)
  <2> PICK o \in Orders, c \in Coachings, type \in Types : CreateOrder(o, c, type)
    BY <1>1
  <2>1. PaidOrders' = PaidOrders /\ last' = last
    BY DEF CreateOrder, TypeOK
  <2>2. \A p \in PaidOrders : order'[p] = order[p]
    BY DEF CreateOrder, TypeOK
  <2> QED
    BY <2>1, <2>2
<1>2. CASE \E o \in Orders : SettleCommit(o)
  <2> PICK o \in Orders : SettleCommit(o)
    BY <1>2
  <2> DEFINE issued(t) == {p \in PaidOrders : order[p].series = t}
  <2>0. tx[o] \in Settlement
    BY DEF SettleCommit, TypeOK
  <2> PICK s \in SeriesSet, n \in Nat : s = tx[o].series /\ n = tx[o].number
    BY <2>0 DEF Settlement
  <2>1. /\ order[o] \in Unpaid
        /\ last[s] \in Nat
        /\ n = last[s] + 1
    BY DEF SettleCommit, TxInv, TxOK, TypeOK
  <2>2. order'[o] \in Invoiced /\ order'[o].series = s /\ order'[o].number = n
    BY <2>1 DEF SettleCommit, TypeOK, Settlement, Unpaid, Invoiced
  <2>3. \A p \in Orders : p # o => order'[p] = order[p]
    BY DEF SettleCommit, TypeOK
  <2>4. o \notin PaidOrders /\ PaidOrders' = PaidOrders \cup {o}
    BY <2>1, <2>2, <2>3, NoneAssumption DEF Unpaid, Invoiced
  <2>5. /\ \A t \in SeriesSet : t # s => last'[t] = last[t]
        /\ last'[s] = n
    BY DEF SettleCommit, TypeOK
  <2>6. \A t \in SeriesSet : t # s => issued(t)' = issued(t)
    BY <2>2, <2>3, <2>4
  <2>7. issued(s)' = issued(s) \cup {o}
    BY <2>2, <2>3, <2>4
  <2>8. \A p \in issued(s) : order[p].number \in 1..last[s]
    OBVIOUS
  <2>9. 1..n = 1..last[s] \cup {n}
    BY <2>1
  <2>10. {order'[p].number : p \in issued(s)'} = 1..n
    BY <2>1, <2>2, <2>3, <2>4, <2>7, <2>9
  <2>11. \A p, q \in issued(s)' : order'[p].number = order'[q].number => p = q
    BY <2>1, <2>2, <2>3, <2>4, <2>7, <2>8
  <2> QED
    BY <2>3, <2>4, <2>5, <2>6, <2>10, <2>11
<1>3. CASE UNCHANGED <<order, last>>
  BY <1>3
<1>4. QED
  BY <1>1, <1>2, <1>3
  DEF Next, vars, Tick, Pay, SettleMismatch, SettleBegin, SettleAbort, SettleFinish,
      SettleCrash, ScanRead, ScanExpire, ScanInvalidate, ScanCrash, Load, Fill

-----------------------------------------------------------------------------
(* The end of every period is paid for.                                    *)

Backed(c, end) ==
  \/ end <= TrialEnd
  \/ \E o \in PlansOf(c) : granted[o] \in Grant /\ end <= granted[o].end

\* Whatever state of a coaching somebody holds, its period is a trial or bought.
BackedInv ==
  /\ \A c \in Coachings : Backed(c, sub[c].currentPeriodEnd)
  /\ \A c \in Coachings : cache[c] # None => Backed(c, cache[c].state.accessUntil)
  /\ \A r \in Requests :
       request[r] # None => Backed(request[r].coaching, request[r].state.accessUntil)

\* What was bought is never taken back: no order leaves PAID, no grant changes.
LEMMA GrantsStay ==
  ASSUME TypeOK, TxInv, [Next]_vars, NEW c \in Coachings
  PROVE  /\ PlansOf(c) \subseteq PlansOf(c)'
         /\ \A o \in PlansOf(c) : granted'[o] = granted[o]
<1> USE DEF PlansOf, PaidOrders
<1>1. CASE \E o \in Orders, d \in Coachings, type \in Types : CreateOrder(o, d, type)
  BY <1>1 DEF CreateOrder, TypeOK
<1>2. CASE \E o \in Orders : SettleCommit(o)
  <2> PICK o \in Orders : SettleCommit(o)
    BY <1>2
  <2>1. order[o] \in Unpaid
    BY DEF SettleCommit, TxInv, TxOK
  <2>2. o \notin PaidOrders
    BY <2>1 DEF Unpaid
  <2>3. \A p \in Orders : p # o => order'[p] = order[p] /\ granted'[p] = granted[p]
    BY DEF SettleCommit, TypeOK
  <2> QED
    BY <2>2, <2>3
<1>3. CASE UNCHANGED <<order, granted>>
  BY <1>3
<1>4. QED
  BY <1>1, <1>2, <1>3
  DEF Next, vars, Tick, Pay, SettleMismatch, SettleBegin, SettleAbort, SettleFinish,
      SettleCrash, ScanRead, ScanExpire, ScanInvalidate, ScanCrash, Load, Fill

LEMMA BackedStays ==
  ASSUME TypeOK, TxInv, [Next]_vars, NEW c \in Coachings, NEW end \in Nat, Backed(c, end)
  PROVE  Backed(c, end)'
  BY GrantsStay DEF Backed

LEMMA NextBacked ==
  ASSUME TypeOK, TxInv, BackedInv, [Next]_vars
  PROVE  BackedInv'
<1>1. \A c \in Coachings, end \in Nat : Backed(c, end) => Backed(c, end)'
  BY BackedStays
<1>2. \A c \in Coachings : sub[c].currentPeriodEnd \in Nat
  BY DEF TypeOK, Subscription, Ends
<1>3. \A c \in Coachings : cache[c] # None => cache[c].state.accessUntil \in Nat
  BY DEF TypeOK, Entry, State, Ends
<1>4. \A r \in Requests : request[r] # None => /\ request[r].coaching \in Coachings
                                               /\ request[r].state.accessUntil \in Nat
  BY DEF TypeOK, Reading, State, Ends
<1>5. CASE \E o \in Orders : SettleCommit(o)
  <2> PICK o \in Orders : SettleCommit(o)
    BY <1>5
  <2>1. UNCHANGED <<cache, request>>
    BY DEF SettleCommit
  <2>2. CASE order[o].type = "AI_CREDITS"
    BY <1>1, <1>2, <1>3, <1>4, <2>1, <2>2 DEF SettleCommit, Backed, BackedInv
  <2>3. CASE order[o].type = "PLAN_UPGRADE"
    <3>1. /\ order[o] \in Unpaid
          /\ tx[o] \in Settlement
          /\ paid[o] \in Payment
      BY DEF SettleCommit, TxInv, TxOK, TypeOK
    <3>2. Start(tx[o].current, paid[o].at) + Period \in Nat
      BY <3>1, BillingAssumption
      DEF Start, Settlement, Subscription, Payment, Times, Ends
    <3> PICK c \in Coachings, end \in Nat :
               /\ c = order[o].coaching
               /\ end = Start(tx[o].current, paid[o].at) + Period
      BY <3>1, <3>2 DEF Unpaid
    <3>3. order'[o] \in Invoiced /\ order'[o].coaching = c /\ order'[o].type = order[o].type
      BY <3>1 DEF SettleCommit, TypeOK, Settlement, Unpaid, Invoiced
    <3>4. o \in PlansOf(c)'
      BY <2>3, <3>3, NoneAssumption DEF PlansOf, PaidOrders, Invoiced
    <3>5. granted'[o] \in Grant /\ granted'[o].end = end
      <4>1. /\ Start(tx[o].current, paid[o].at) \in Nat
            /\ tx[o].current.status \in Status
        BY <3>1 DEF Start, Settlement, Subscription, Payment, Times, Ends
      <4> QED
        BY <2>3, <4>1 DEF SettleCommit, TypeOK, Grant, Ends
    <3>6. sub' = [sub EXCEPT ![c] = [status |-> "ACTIVE", updatedAt |-> now,
                                     currentPeriodEnd |-> end]]
      BY <2>3 DEF SettleCommit
    <3>7. sub'[c].currentPeriodEnd = end
      BY <3>6 DEF TypeOK
    <3>8. \A d \in Coachings : d # c => sub'[d] = sub[d]
      BY <3>6 DEF TypeOK
    <3>9. Backed(c, sub[c].currentPeriodEnd)'
      BY <3>4, <3>5, <3>7 DEF Backed
    <3>10. \A d \in Coachings : d # c => Backed(d, sub[d].currentPeriodEnd)'
      BY <1>1, <1>2, <3>8 DEF Backed, BackedInv
    <3> QED
      BY <1>1, <1>3, <1>4, <2>1, <3>9, <3>10 DEF Backed, BackedInv
  <2> QED
    BY <2>2, <2>3 DEF SettleCommit, TxInv, TxOK, Unpaid, Types
<1>6. CASE \E c \in Coachings : ScanExpire(c)
  <2>1. \A c \in Coachings : sub'[c].currentPeriodEnd = sub[c].currentPeriodEnd
    BY <1>6 DEF ScanExpire, TypeOK, Subscription
  <2>2. UNCHANGED <<cache, request>>
    BY <1>6 DEF ScanExpire
  <2> QED
    BY <1>1, <1>2, <1>3, <1>4, <2>1, <2>2 DEF Backed, BackedInv
<1>7. CASE \/ \E o \in Orders : SettleFinish(o)
           \/ \E c \in Coachings : ScanInvalidate(c)
  <2>1. \A c \in Coachings : cache'[c] # None => cache'[c] = cache[c]
    BY <1>7 DEF SettleFinish, ScanInvalidate, Invalidate, TypeOK
  <2>2. UNCHANGED <<sub, request>>
    BY <1>7 DEF SettleFinish, ScanInvalidate
  <2> QED
    BY <1>1, <1>2, <1>3, <1>4, <2>1, <2>2 DEF Backed, BackedInv
<1>8. CASE \E r \in Requests, c \in Coachings : Load(r, c)
  <2> PICK r \in Requests, c \in Coachings : Load(r, c)
    BY <1>8
  <2>1. request' = [request EXCEPT ![r] = [coaching |-> c, state |-> StateOf(sub[c])]]
    BY DEF Load
  <2>2. /\ request'[r].coaching = c
        /\ request'[r].state.accessUntil = EndsAt(sub[c])
        /\ \A q \in Requests : q # r => request'[q] = request[q]
    BY <2>1 DEF TypeOK, StateOf
  <2>3. Backed(c, EndsAt(sub[c]))
    BY BillingAssumption DEF Backed, BackedInv, EndsAt
  <2>4. EndsAt(sub[c]) \in Nat
    BY RowType DEF TypeOK
  <2>5. Backed(c, EndsAt(sub[c]))'
    BY <1>1, <2>3, <2>4 DEF Load, EndsAt
  <2>6. UNCHANGED <<sub, cache>>
    BY DEF Load
  <2>7. \A q \in Requests : request'[q] # None =>
          Backed(request[q].coaching, request[q].state.accessUntil)'
    <3> SUFFICES ASSUME NEW q \in Requests, request'[q] # None
                 PROVE  Backed(request[q].coaching, request[q].state.accessUntil)'
      OBVIOUS
    <3>1. CASE q = r
      BY <2>2, <2>5, <2>6, <3>1 DEF Backed, EndsAt
    <3>2. CASE q # r
      BY <1>1, <1>4, <2>2, <3>2 DEF Backed, BackedInv
    <3> QED
      BY <3>1, <3>2
  <2> QED
    BY <1>1, <1>2, <1>3, <2>6, <2>7 DEF Backed, BackedInv
<1>9. CASE \E r \in Requests : Fill(r)
  <2> PICK r \in Requests : Fill(r)
    BY <1>9
  <2>1. \A q \in Requests : request'[q] # None => request'[q] = request[q]
    BY DEF Fill, TypeOK
  <2>2. request[r] # None /\ request[r].coaching \in Coachings
    BY <1>4 DEF Fill
  <2>3. \A c \in Coachings : cache'[c] # cache[c] =>
          c = request[r].coaching /\ cache'[c].state = request[r].state
    BY <2>2 DEF Fill, TypeOK
  <2>4. \A c \in Coachings : cache'[c] # None => Backed(c, cache[c].state.accessUntil)'
    BY <1>1, <1>3, <1>4, <2>2, <2>3 DEF Backed, BackedInv
  <2>5. UNCHANGED sub
    BY DEF Fill
  <2> QED
    BY <1>1, <1>2, <1>4, <2>1, <2>4, <2>5 DEF Backed, BackedInv
<1>10. CASE UNCHANGED <<sub, cache, request>>
  BY <1>1, <1>2, <1>3, <1>4, <1>10 DEF Backed, BackedInv
<1>11. QED
  BY <1>5, <1>6, <1>7, <1>8, <1>9, <1>10
  DEF Next, vars, Tick, CreateOrder, Pay, SettleMismatch, SettleBegin, SettleAbort,
      SettleCrash, ScanRead, ScanCrash

-----------------------------------------------------------------------------
(* How old the state is that the gate uses.                                *)

\* A request holds the state of the row as it was at some moment of the current
\* time; an entry that is not the row any more was stored by a request that was
\* at most as late as the change of the row.
FreshInv ==
  /\ \A c \in Coachings : sub[c].updatedAt <= now
  /\ \A r \in Requests : request[r] # None =>
       LET row == sub[request[r].coaching] IN
       request[r].state # StateOf(row) => row.updatedAt = now
  /\ \A c \in Coachings : cache[c] # None =>
       /\ cache[c].expires <= now + TTL
       /\ cache[c].state # StateOf(sub[c]) => cache[c].expires <= sub[c].updatedAt + TTL

LEMMA NextFresh ==
  ASSUME TypeOK, TxInv, FreshInv, [Next]_vars
  PROVE  FreshInv'
<1> USE DEF FreshInv
<1>1. now \in Nat /\ TTL \in Nat
  BY BillingAssumption DEF TypeOK, Times
<1>2. \A c \in Coachings : sub[c].updatedAt \in Nat
  BY BillingAssumption DEF TypeOK, Subscription, Times
<1>3. \A c \in Coachings : cache[c] # None => cache[c].expires \in Nat
  BY DEF TypeOK, Entry
<1>4. \A r \in Requests : request[r] # None => request[r].coaching \in Coachings
  BY DEF TypeOK, Reading
<1>5. ASSUME /\ UNCHANGED <<now, cache, request>>
             /\ \A c \in Coachings : sub'[c] = sub[c] \/ sub'[c].updatedAt = now
      PROVE  FreshInv'
  <2>1. \A c \in Coachings : sub'[c].updatedAt <= now'
    BY <1>1, <1>5
  <2>2. ASSUME NEW r \in Requests, request[r] # None,
               request[r].state # StateOf(sub'[request[r].coaching])
        PROVE  sub'[request[r].coaching].updatedAt = now
    BY <1>4, <1>5, <2>2
  <2>3. ASSUME NEW c \in Coachings, cache[c] # None
        PROVE  /\ cache[c].expires <= now + TTL
               /\ cache[c].state # StateOf(sub'[c]) =>
                    cache[c].expires <= sub'[c].updatedAt + TTL
    <3>1. CASE sub'[c] = sub[c]
      BY <2>3, <3>1
    <3>2. CASE sub'[c].updatedAt = now
      BY <2>3, <3>2
    <3> QED
      BY <1>5, <3>1, <3>2
  <2> QED
    BY <1>5, <2>1, <2>2, <2>3 DEF StateOf, EndsAt
<1>6. CASE Tick
  <2>1. /\ now' = now + 1
        /\ UNCHANGED <<sub, cache, request>>
        /\ \A r \in Requests : request[r] = None
    BY <1>6 DEF Tick
  <2>2. \A c \in Coachings : sub'[c].updatedAt <= now'
    BY <1>1, <1>2, <2>1
  <2>3. \A c \in Coachings : cache'[c] # None => cache'[c].expires <= now' + TTL
    BY <1>1, <1>3, <2>1
  <2> QED
    BY <2>1, <2>2, <2>3 DEF StateOf, EndsAt
<1>7. CASE \E o \in Orders : SettleCommit(o)
  <2> PICK o \in Orders : SettleCommit(o)
    BY <1>7
  <2>1. \A c \in Coachings : sub'[c] = sub[c] \/ sub'[c].updatedAt = now
    BY DEF SettleCommit, TypeOK
  <2> QED
    BY <1>5, <2>1 DEF SettleCommit
<1>8. CASE \E c \in Coachings : ScanExpire(c)
  <2>1. \A c \in Coachings : sub'[c] = sub[c] \/ sub'[c].updatedAt = now
    BY <1>8 DEF ScanExpire, TypeOK, Subscription
  <2> QED
    BY <1>5, <1>8, <2>1 DEF ScanExpire
<1>9. CASE \/ \E o \in Orders : SettleFinish(o)
           \/ \E c \in Coachings : ScanInvalidate(c)
  <2>1. \A c \in Coachings : cache'[c] # None => cache'[c] = cache[c]
    BY <1>9 DEF SettleFinish, ScanInvalidate, Invalidate, TypeOK
  <2>2. UNCHANGED <<now, sub, request>>
    BY <1>9 DEF SettleFinish, ScanInvalidate
  <2> QED
    BY <1>4, <2>1, <2>2 DEF StateOf, EndsAt
<1>10. CASE \E r \in Requests, c \in Coachings : Load(r, c)
  <2> PICK r \in Requests, c \in Coachings : Load(r, c)
    BY <1>10
  <2>1. /\ request'[r] = [coaching |-> c, state |-> StateOf(sub[c])]
        /\ \A q \in Requests : q # r => request'[q] = request[q]
    BY DEF Load, TypeOK
  <2>2. UNCHANGED <<now, sub, cache>>
    BY DEF Load
  <2> QED
    BY <1>4, <2>1, <2>2 DEF StateOf, EndsAt
<1>11. CASE \E r \in Requests : Fill(r)
  <2> PICK r \in Requests : Fill(r)
    BY <1>11
  <2>1. \A q \in Requests : request'[q] # None => request'[q] = request[q]
    BY DEF Fill, TypeOK
  <2>2. request[r] # None /\ UNCHANGED <<now, sub>>
    BY DEF Fill
  <2>3. \A c \in Coachings : cache'[c] # cache[c] =>
          c = request[r].coaching /\ cache'[c] = [state |-> request[r].state,
                                                 expires |-> now + TTL]
    BY <1>4, <2>2 DEF Fill, Expiry, TypeOK
  <2> QED
    BY <1>1, <1>2, <1>4, <2>1, <2>2, <2>3 DEF StateOf, EndsAt
<1>12. CASE UNCHANGED <<now, sub, cache, request>>
  BY <1>4, <1>12 DEF StateOf, EndsAt
<1>13. QED
  BY <1>6, <1>7, <1>8, <1>9, <1>10, <1>11, <1>12
  DEF Next, vars, CreateOrder, Pay, SettleMismatch, SettleBegin, SettleAbort,
      SettleCrash, ScanRead, ScanCrash

-----------------------------------------------------------------------------
(* Renewals.                                                               *)

LastPlan(c, o) == o \in PlansOf(c) /\ \A q \in PlansOf(c) : order[q].number <= order[o].number

\* The row carries on the last period bought, and so does what a settlement read
\* of it, unless that settlement is of another financial year.
Carries(row, c) ==
  \A o \in PlansOf(c) :
    LastPlan(c, o) => row.status # "TRIALING" /\ row.currentPeriodEnd = granted[o].end

RowCarries(c) == OneSeries(c) => Carries(sub[c], c)

TxCarries(o) ==
  tx[o] # None /\ order[o].type = "PLAN_UPGRADE"
    /\ (\A q \in PlansOf(order[o].coaching) : order[q].series = tx[o].series)
  => Carries(tx[o].current, order[o].coaching)

RenewInv ==
  /\ \A c \in Coachings : RowCarries(c)
  /\ \A o \in Orders : (tx[o] # None => order[o] # None) /\ TxCarries(o)
  /\ \A c \in Coachings : \A o \in PlansOf(c) : granted[o] \in Grant
  /\ RenewalsExtend

\* Nothing about the plans of c and its row changes.
Untouched(c) ==
  /\ PlansOf(c)' = PlansOf(c)
  /\ \A o \in PlansOf(c) : order'[o] = order[o] /\ granted'[o] = granted[o]

LEMMA UntouchedKeeps ==
  ASSUME NEW c \in Coachings, Untouched(c)
  PROVE  /\ OneSeries(c)' <=> OneSeries(c)
         /\ \A row : Carries(row, c)' <=> Carries(row, c)
         /\ \A o, p \in PlansOf(c) : Follows(c, o, p)' <=> Follows(c, o, p)
  BY DEF Untouched, OneSeries, Carries, LastPlan, Follows

\* It is enough to look at the rows, the settlements and the coaching of a commit.
LEMMA UntouchedRenews ==
  ASSUME RenewInv, NEW c \in Coachings, Untouched(c)
  PROVE  /\ \A o \in PlansOf(c)' : granted'[o] \in Grant
         /\ OneSeries(c)' =>
              \A o, p \in PlansOf(c)' :
                Follows(c, o, p)' /\ granted'[p].start < granted'[o].end
                  => granted'[p].over = "EXPIRED"
  BY UntouchedKeeps DEF RenewInv, RenewalsExtend, Untouched

\* A settlement starts the period where the row it read ends, if that is ACTIVE
\* and not over.
LEMMA StartExtends ==
  ASSUME NEW current \in Subscription, NEW at \in Times,
         current.status # "TRIALING", Start(current, at) < current.currentPeriodEnd
  PROVE  current.status = "EXPIRED"
  BY BillingAssumption DEF Start, Subscription, Status, Ends, Times

\* A step that touches the plans of no coaching and keeps the rows but for their
\* expiry: only settlements that begin or end are left to look at.
LEMMA QuietRenews ==
  ASSUME RenewInv, \A c \in Coachings : Untouched(c),
         \A c \in Coachings : sub'[c].currentPeriodEnd = sub[c].currentPeriodEnd
                              /\ sub'[c].status \in {sub[c].status, "EXPIRED"},
         \A o \in Orders : (tx'[o] # None => order'[o] # None) /\ TxCarries(o)'
  PROVE  RenewInv'
<1>1. ASSUME NEW c \in Coachings
      PROVE  RowCarries(c)'
  <2>1. SUFFICES ASSUME OneSeries(c)', NEW o \in PlansOf(c)', LastPlan(c, o)'
                 PROVE  sub'[c].status # "TRIALING" /\ sub'[c].currentPeriodEnd = granted'[o].end
    BY DEF RowCarries, Carries
  <2>2. OneSeries(c) /\ o \in PlansOf(c) /\ LastPlan(c, o) /\ granted'[o] = granted[o]
    BY <2>1, UntouchedKeeps DEF LastPlan, Untouched
  <2>3. sub[c].status # "TRIALING" /\ sub[c].currentPeriodEnd = granted[o].end
    BY <2>2 DEF RenewInv, RowCarries, Carries
  <2>4. QED
    BY <2>2, <2>3
<1>2. RenewalsExtend'
  BY UntouchedRenews DEF RenewalsExtend
<1>3. \A c \in Coachings : \A o \in PlansOf(c)' : granted'[o] \in Grant
  BY UntouchedRenews
<1>4. QED
  BY <1>1, <1>2, <1>3 DEF RenewInv

\* What a settlement carries stays true while the plans of its coaching do.
LEMMA UntouchedTx ==
  ASSUME RenewInv, NEW o \in Orders, order[o].coaching \in Coachings,
         Untouched(order[o].coaching), order'[o] = order[o], tx'[o] = tx[o]
  PROVE  TxCarries(o)'
<1>1. SUFFICES ASSUME tx[o] # None, order[o].type = "PLAN_UPGRADE",
                      \A q \in PlansOf(order[o].coaching) : order[q].series = tx[o].series
               PROVE  Carries(tx[o].current, order[o].coaching)'
  BY DEF TxCarries, Untouched
<1>2. Carries(tx[o].current, order[o].coaching)
  BY <1>1 DEF RenewInv, TxCarries
<1>3. QED
  BY <1>2, UntouchedKeeps

\* The commit of a plan order: its period follows the last one, and is the last now.
LEMMA CommitRenews ==
  ASSUME TypeOK, TxInv, InvoicesGapFree, RenewInv,
         NEW o \in Orders, SettleCommit(o), order[o].type = "PLAN_UPGRADE"
  PROVE  RenewInv'
<1>1. /\ tx[o] \in Settlement /\ tx[o] # None
      /\ order[o] \in Unpaid
      /\ paid[o].at \in Times
      /\ tx[o].current \in Subscription
      /\ tx[o].number = last[tx[o].series] + 1 /\ last[tx[o].series] \in Nat
  BY DEF SettleCommit, TypeOK, TxInv, TxOK, Unpaid, Settlement, Payment
<1>2. Start(tx[o].current, paid[o].at) \in Nat
  BY <1>1, BillingAssumption DEF Start, Subscription, Ends, Times
<1> PICK c \in Coachings, s \in SeriesSet, start \in Nat :
       c = order[o].coaching /\ s = tx[o].series /\ start = Start(tx[o].current, paid[o].at)
  BY <1>1, <1>2 DEF Unpaid, Settlement
<1>3. /\ order'[o] \in Invoiced /\ order'[o] # None
      /\ order'[o].coaching = c /\ order'[o].type = "PLAN_UPGRADE"
      /\ order'[o].series = s /\ order'[o].number = tx[o].number
  BY <1>1, NoneAssumption DEF SettleCommit, TypeOK, Settlement, Unpaid, Invoiced
<1>4. /\ \A q \in Orders \ {o} : order'[q] = order[q] /\ granted'[q] = granted[q] /\ tx'[q] = tx[q]
      /\ tx'[o] = None
      /\ \A d \in Coachings \ {c} : sub'[d] = sub[d]
  BY DEF SettleCommit, TypeOK
<1>5. /\ granted'[o] = [start |-> start, end |-> start + Period, over |-> tx[o].current.status]
      /\ granted'[o] \in Grant
      /\ sub'[c].status = "ACTIVE" /\ sub'[c].currentPeriodEnd = start + Period
  BY <1>1, <1>2, BillingAssumption DEF SettleCommit, TypeOK, Grant, Ends, Subscription
<1>6. o \notin PaidOrders /\ PaidOrders' = PaidOrders \cup {o}
  BY <1>1, <1>3, <1>4 DEF PaidOrders, Unpaid, Invoiced
<1>7. PlansOf(c)' = PlansOf(c) \cup {o}
  BY <1>3, <1>4, <1>6 DEF PlansOf, PaidOrders
<1>8. \A d \in Coachings \ {c} : Untouched(d)
  BY <1>3, <1>4, <1>6 DEF PlansOf, PaidOrders, Untouched
<1>9. \A q \in PlansOf(c) : q \in Orders \ {o} /\ order'[q] = order[q] /\ granted'[q] = granted[q]
  BY <1>4, <1>6 DEF PlansOf, PaidOrders
<1>10. \A q \in PlansOf(c) : order[q].series = s => order[q].number \in 1..last[s]
  BY <1>1 DEF InvoicesGapFree, PlansOf
<1>11. ASSUME OneSeries(c)'
       PROVE  /\ OneSeries(c)
              /\ \A q \in PlansOf(c) : order[q].series = s /\ order[q].number < order'[o].number
              /\ Carries(tx[o].current, c)
  <2>1. \A q \in PlansOf(c) : order[q].series = s
    BY <1>3, <1>7, <1>9, <1>11 DEF OneSeries
  <2>2. OneSeries(c)
    BY <2>1 DEF OneSeries
  <2>3. Carries(tx[o].current, c)
    BY <1>1, <2>1 DEF RenewInv, TxCarries
  <2>4. QED
    BY <1>1, <1>3, <1>10, <2>1, <2>2, <2>3
<1>12. RowCarries(c)'
  <2>1. ASSUME OneSeries(c)', NEW q \in PlansOf(c)', LastPlan(c, q)'
        PROVE  q = o
    BY <1>1, <1>3, <1>7, <1>9, <1>10, <1>11, <2>1 DEF LastPlan
  <2>2. QED
    BY <1>5, <2>1 DEF RowCarries, Carries
<1>13. \A q \in Orders : (tx'[q] # None => order'[q] # None) /\ TxCarries(q)'
  <2>1. SUFFICES ASSUME NEW q \in Orders, q # o, tx[q] # None
                 PROVE  order'[q] # None /\ TxCarries(q)'
    BY <1>4 DEF TxCarries
  <2>2. order'[q] = order[q] /\ order[q] \in Unpaid /\ tx[q].series # s
    BY <1>1, <1>4, <2>1 DEF TxInv, TxOK
  <2>3. CASE order[q].coaching = c
    BY <1>3, <1>4, <1>7, <2>1, <2>2, <2>3 DEF TxCarries, RenewInv
  <2>4. CASE order[q].coaching # c
    BY <1>4, <1>8, <2>1, <2>2, <2>4, UntouchedTx DEF RenewInv, Unpaid
  <2>5. QED
    BY <2>3, <2>4
<1>14. ASSUME OneSeries(c)', NEW a \in PlansOf(c)', NEW b \in PlansOf(c)',
              Follows(c, a, b)', granted'[b].start < granted'[a].end
       PROVE  granted'[b].over = "EXPIRED"
  <2>1. a # o
    BY <1>1, <1>3, <1>7, <1>9, <1>10, <1>11, <1>14 DEF Follows
  <2>2. CASE b = o
    <3>1. LastPlan(c, a)
      BY <1>1, <1>3, <1>7, <1>9, <1>10, <1>11, <1>14, <2>1, <2>2 DEF Follows, LastPlan
    <3>2. tx[o].current.status # "TRIALING" /\ tx[o].current.currentPeriodEnd = granted'[a].end
      BY <1>7, <1>9, <1>11, <1>14, <2>1, <3>1 DEF Carries
    <3>3. QED
      BY <1>1, <1>5, <1>14, <2>2, <3>2, StartExtends
  <2>3. CASE b # o
    <3>1. a \in PlansOf(c) /\ b \in PlansOf(c) /\ OneSeries(c) /\ Follows(c, a, b)
      BY <1>7, <1>9, <1>11, <1>14, <2>1, <2>3 DEF Follows
    <3>2. QED
      BY <1>9, <1>14, <3>1 DEF RenewInv, RenewalsExtend
  <2>4. QED
    BY <2>2, <2>3
<1>15. RenewalsExtend'
  BY <1>8, <1>14, UntouchedRenews DEF RenewalsExtend
<1>16. \A d \in Coachings : RowCarries(d)'
  <2>1. ASSUME NEW d \in Coachings, d # c
        PROVE  RowCarries(d)'
    BY <1>4, <1>8, <2>1, UntouchedKeeps DEF RenewInv, RowCarries
  <2>2. QED
    BY <1>12, <2>1
<1>17. \A d \in Coachings : \A q \in PlansOf(d)' : granted'[q] \in Grant
  BY <1>5, <1>7, <1>8, <1>9, UntouchedRenews DEF RenewInv
<1>18. QED
  BY <1>13, <1>15, <1>16, <1>17 DEF RenewInv

LEMMA NextRenew ==
  ASSUME TypeOK, TxInv, InvoicesGapFree, RenewInv, [Next]_vars
  PROVE  RenewInv'
<1>0. \A q \in Orders : tx[q] # None => order[q].coaching \in Coachings
  BY DEF TxInv, TxOK, Unpaid
<1>1. CASE UNCHANGED <<order, tx, granted>> /\ (sub' = sub \/ \E c \in Coachings : ScanExpire(c))
  <2>1. \A c \in Coachings : Untouched(c)
    BY <1>1 DEF Untouched, PlansOf, PaidOrders
  <2>2. ASSUME NEW c \in Coachings
        PROVE  sub'[c].currentPeriodEnd = sub[c].currentPeriodEnd
               /\ sub'[c].status \in {sub[c].status, "EXPIRED"}
    <3>1. sub[c] \in Subscription
      BY DEF TypeOK
    <3>2. CASE \E d \in Coachings : ScanExpire(d)
      <4> PICK d \in Coachings : ScanExpire(d)
        BY <3>2
      <4>1. sub' = [sub EXCEPT ![d] = [sub[d] EXCEPT !.status = "EXPIRED", !.updatedAt = now]]
        BY DEF ScanExpire
      <4>2. QED
        BY <3>1, <4>1 DEF TypeOK, Subscription
    <3>3. QED
      BY <1>1, <3>2
  <2>3. \A q \in Orders : TxCarries(q)'
    BY <1>0, <1>1, <2>1, UntouchedTx DEF TxCarries
  <2>4. QED
    BY <1>1, <2>1, <2>2, <2>3, QuietRenews DEF RenewInv
<1>2. CASE \E o \in Orders, c \in Coachings, type \in Types : CreateOrder(o, c, type)
  <2> PICK o \in Orders, c \in Coachings, type \in Types : CreateOrder(o, c, type)
    BY <1>2
  <2>1. /\ tx[o] = None /\ UNCHANGED <<tx, sub, granted>>
        /\ \A q \in Orders \ {o} : order'[q] = order[q]
        /\ o \notin PaidOrders /\ PaidOrders' = PaidOrders
    BY DEF CreateOrder, TypeOK, RenewInv, PaidOrders
  <2>2. \A d \in Coachings : Untouched(d)
    BY <2>1 DEF Untouched, PlansOf, PaidOrders
  <2>3. \A q \in Orders : (tx'[q] # None => order'[q] # None) /\ TxCarries(q)'
    BY <1>0, <2>1, <2>2, UntouchedTx DEF TxCarries, RenewInv
  <2>4. QED
    BY <2>1, <2>2, <2>3, QuietRenews
<1>3. CASE \E o \in Orders : SettleBegin(o) \/ SettleAbort(o)
  <2> PICK o \in Orders : SettleBegin(o) \/ SettleAbort(o)
    BY <1>3
  <2>1. UNCHANGED <<order, sub, granted>> /\ \A q \in Orders \ {o} : tx'[q] = tx[q]
    BY DEF SettleBegin, SettleAbort, TypeOK
  <2>2. \A c \in Coachings : Untouched(c)
    BY <2>1 DEF Untouched, PlansOf, PaidOrders
  <2>3. ASSUME NEW q \in Orders, q # o
        PROVE  (tx'[q] # None => order'[q] # None) /\ TxCarries(q)'
    BY <1>0, <2>1, <2>2, <2>3, UntouchedTx DEF TxCarries, RenewInv
  <2>4. (tx'[o] # None => order'[o] # None) /\ TxCarries(o)'
    <3>1. CASE SettleAbort(o)
      BY <3>1 DEF SettleAbort, TypeOK, TxCarries
    <3>2. CASE SettleBegin(o)
      <4> DEFINE c == order[o].coaching
      <4>1. order[o] # None /\ c \in Coachings /\ tx'[o].current = sub[c]
        BY <3>2, UnsettledType DEF SettleBegin, Unsettled, Unpaid, TypeOK
      <4>2. (\A q \in PlansOf(c) : order[q].series = tx'[o].series) => Carries(sub[c], c)
        BY <4>1 DEF RenewInv, RowCarries, OneSeries
      <4>3. QED
        BY <2>1, <2>2, <4>1, <4>2, UntouchedKeeps DEF TxCarries, Untouched
    <3>3. QED
      BY <3>1, <3>2
  <2>5. QED
    BY <2>1, <2>2, <2>3, <2>4, QuietRenews
<1>4. CASE \E o \in Orders : SettleCommit(o)
  <2> PICK o \in Orders : SettleCommit(o)
    BY <1>4
  <2>1. CASE order[o].type = "PLAN_UPGRADE"
    BY <2>1, CommitRenews
  <2>2. CASE order[o].type # "PLAN_UPGRADE"
    <3>1. order[o] \in Unpaid /\ order[o].type = "AI_CREDITS"
      BY <2>2 DEF SettleCommit, TxInv, TxOK, Unpaid, Types
    <3>2. /\ UNCHANGED <<sub, granted>> /\ tx'[o] = None
          /\ \A q \in Orders \ {o} : order'[q] = order[q] /\ tx'[q] = tx[q]
          /\ order'[o].type = "AI_CREDITS"
      BY <3>1 DEF SettleCommit, TypeOK, Unpaid
    <3>3. \A c \in Coachings : Untouched(c)
      BY <3>1, <3>2 DEF Untouched, PlansOf, PaidOrders, Unpaid
    <3>4. \A q \in Orders : (tx'[q] # None => order'[q] # None) /\ TxCarries(q)'
      BY <1>0, <3>2, <3>3, UntouchedTx DEF TxCarries, RenewInv
    <3>5. QED
      BY <3>2, <3>3, <3>4, QuietRenews
  <2>3. QED
    BY <2>1, <2>2
<1>5. QED
  BY <1>1, <1>2, <1>3, <1>4
  DEF Next, vars, Tick, Pay, SettleMismatch, SettleFinish, SettleCrash, ScanRead,
      ScanExpire, ScanInvalidate, ScanCrash, Load, Fill

-----------------------------------------------------------------------------
(* Credits and periods are booked once.                                    *)

PaidBy(c) == {o \in PaidOrders : order[o].coaching = c}

\* What the orders of S add to a wallet, rows being the table of orders.
Bought(rows, S) == MapThenSumSet(LAMBDA o : Credits[rows[o].type], S)

\* The sum in the form of Sums, with f for what each order adds.
LEMMA BoughtIsSum ==
  ASSUME NEW rows, NEW S, NEW f, \A o \in S : f[o] = Credits[rows[o].type]
  PROVE  Bought(rows, S) = SumOver(f, S)
<1> DEFINE P(g) == g = [s \in SUBSET S |->
                          IF s = {} THEN 0
                          ELSE Credits[rows[Pick(s)].type] + g[s \ {Pick(s)}]]
<1>1. Bought(rows, S) = (CHOOSE g : P(g))[S]
  BY DEF Bought, MapThenSumSet, MapThenFoldSet, Pick
<1>2. SumOver(f, S) = (CHOOSE g : Iterates(g, f, S))[S]
  BY DEF SumOver, MapThenSumSet, MapThenFoldSet, Iterates, Pick
<1>3. ASSUME NEW g
      PROVE  P(g) <=> Iterates(g, f, S)
  <2>1. \A s \in SUBSET S : s # {} => f[Pick(s)] = Credits[rows[Pick(s)].type]
    BY DEF Pick
  <2> QED
    BY <2>1 DEF Iterates
<1>4. (CHOOSE g : P(g)) = (CHOOSE g : Iterates(g, f, S))
  BY <1>3
<1> QED
  BY <1>1, <1>2, <1>4

\* Orders that have the same types in two tables add the same.
LEMMA BoughtSame ==
  ASSUME NEW rows, NEW rows2, NEW S, IsFiniteSet(S),
         \A o \in S : rows[o].type = rows2[o].type
  PROVE  Bought(rows, S) = Bought(rows2, S)
<1> DEFINE f == [o \in S |-> Credits[rows[o].type]]
<1>1. \A o \in S : f[o] = Credits[rows[o].type] /\ f[o] = Credits[rows2[o].type]
  OBVIOUS
<1> HIDE DEF f
<1> QED
  BY <1>1, BoughtIsSum

\* One order more adds its credits.
LEMMA BoughtWith ==
  ASSUME NEW rows, NEW S, IsFiniteSet(S), NEW e, e \notin S,
         \A o \in S \cup {e} : rows[o].type \in Types
  PROVE  Bought(rows, S \cup {e}) = Bought(rows, S) + Credits[rows[e].type]
<1> DEFINE f == [o \in S \cup {e} |-> Credits[rows[o].type]]
<1>1. \A o \in S \cup {e} : f[o] = Credits[rows[o].type] /\ f[o] \in Nat
  BY BillingAssumption
<1> HIDE DEF f
<1>2. Bought(rows, S \cup {e}) = SumOver(f, S \cup {e}) /\ Bought(rows, S) = SumOver(f, S)
  BY <1>1, BoughtIsSum
<1>3. SumOver(f, S \cup {e}) = SumOver(f, S) + f[e]
  BY <1>1, SumWith
<1> QED
  BY <1>1, <1>2, <1>3

\* A wallet holds what the paid orders of its coaching add up to.
WalletsInv ==
  /\ IsFiniteSet(PaidOrders)
  /\ \A c \in Coachings : wallet[c] = Bought(order, PaidBy(c))

\* The orders that bought a period are the paid orders of a plan.
PeriodsInv ==
  \A o \in Orders :
    granted[o] # None <=> o \in PaidOrders /\ order[o].type = "PLAN_UPGRADE"

LEMMA InitBooks == Init => WalletsInv /\ PeriodsInv
<1> SUFFICES ASSUME Init
             PROVE  WalletsInv /\ PeriodsInv
  OBVIOUS
<1>1. PaidOrders = {} /\ \A c \in Coachings : PaidBy(c) = {}
  BY DEF Init, PaidOrders, PaidBy
<1>2. Bought(order, {}) = 0
  BY BoughtIsSum, SumOfNothing
<1> QED
  BY <1>1, <1>2, FS_EmptySet DEF Init, WalletsInv, PeriodsInv

\* A commit pays one order that was not paid, adds its credits to the wallet of
\* its coaching and, for a plan, its period; nothing else touches either.
LEMMA NextBooks ==
  ASSUME TypeOK, TxInv, WalletsInv, PeriodsInv, [Next]_vars
  PROVE  WalletsInv' /\ PeriodsInv'
<1>1. CASE \E o \in Orders, c \in Coachings, type \in Types : CreateOrder(o, c, type)
  <2> PICK o \in Orders, c \in Coachings, type \in Types : CreateOrder(o, c, type)
    BY <1>1
  <2>1. PaidOrders' = PaidOrders /\ o \notin PaidOrders
    BY DEF CreateOrder, TypeOK, PaidOrders
  <2>2. \A p \in PaidOrders : order'[p] = order[p]
    BY <2>1 DEF CreateOrder, TypeOK, PaidOrders
  <2>3. UNCHANGED <<wallet, granted>>
    BY DEF CreateOrder
  <2>4. WalletsInv'
    <3>1. \A d \in Coachings : PaidBy(d)' = PaidBy(d) /\ IsFiniteSet(PaidBy(d))
      BY <2>1, <2>2, FS_Subset DEF PaidBy, WalletsInv
    <3>2. \A d \in Coachings : Bought(order', PaidBy(d)) = Bought(order, PaidBy(d))
      BY <2>2, <3>1, BoughtSame DEF PaidBy
    <3> QED
      BY <2>1, <2>3, <3>1, <3>2 DEF WalletsInv
  <2>5. PeriodsInv'
    BY <2>1, <2>2, <2>3 DEF PeriodsInv
  <2> QED
    BY <2>4, <2>5
<1>2. CASE \E o \in Orders : SettleCommit(o)
  <2> PICK o \in Orders : SettleCommit(o)
    BY <1>2
  <2>1. order[o] \in Unpaid /\ tx[o] \in Settlement
    BY DEF SettleCommit, TxInv, TxOK, TypeOK
  <2>2. /\ order'[o] \in Invoiced
        /\ order'[o].type = order[o].type
        /\ order'[o].coaching = order[o].coaching
    BY <2>1 DEF SettleCommit, TypeOK, Settlement, Unpaid, Invoiced
  <2>3. \A p \in Orders : p # o => order'[p] = order[p]
    BY DEF SettleCommit, TypeOK
  <2>4. o \notin PaidOrders /\ PaidOrders' = PaidOrders \cup {o}
    BY <2>1, <2>2, <2>3, NoneAssumption DEF Unpaid, Invoiced, PaidOrders
  <2>5. IsFiniteSet(PaidOrders')
    BY <2>4, FS_AddElement DEF WalletsInv
  <2> PICK c \in Coachings : c = order[o].coaching
    BY <2>1 DEF Unpaid
  <2>6. /\ order'[o].coaching = c
        /\ \A p \in PaidOrders : order'[p] = order[p]
    BY <2>2, <2>3, <2>4 DEF PaidOrders
  <2>7. /\ wallet'[c] = wallet[c] + Credits[order[o].type]
        /\ \A d \in Coachings : d # c => wallet'[d] = wallet[d]
    BY DEF SettleCommit, TypeOK
  <2>8. ASSUME NEW d \in Coachings
        PROVE  /\ IsFiniteSet(PaidBy(d))
               /\ o \notin PaidBy(d)
               /\ Bought(order', PaidBy(d)) = wallet[d]
    <3>1. IsFiniteSet(PaidBy(d)) /\ o \notin PaidBy(d)
      BY <2>4, FS_Subset DEF PaidBy, WalletsInv
    <3>2. \A p \in PaidBy(d) : order'[p].type = order[p].type
      BY <2>3, <3>1 DEF PaidBy, PaidOrders
    <3>3. Bought(order', PaidBy(d)) = Bought(order, PaidBy(d))
      BY <3>1, <3>2, BoughtSame
    <3> QED
      BY <3>1, <3>3 DEF WalletsInv
  <2>9. ASSUME NEW d \in Coachings, d # c
        PROVE  wallet'[d] = Bought(order', PaidBy(d)')
    <3>1. PaidBy(d)' = PaidBy(d)
      BY <2>4, <2>6, <2>9 DEF PaidBy
    <3> QED
      BY <2>7, <2>8, <2>9, <3>1
  <2>10. wallet'[c] = Bought(order', PaidBy(c)')
    <3>1. PaidBy(c)' = PaidBy(c) \cup {o}
      BY <2>4, <2>6 DEF PaidBy
    <3>2. \A p \in PaidBy(c) \cup {o} : order'[p].type \in Types
      BY <2>1, <2>2, <2>3, <2>4 DEF TypeOK, PaidBy, PaidOrders, Unpaid, Invoiced
    <3>3. Bought(order', PaidBy(c) \cup {o})
            = Bought(order', PaidBy(c)) + Credits[order'[o].type]
      BY <2>8, <3>2, BoughtWith
    <3> QED
      BY <2>2, <2>7, <2>8, <3>1, <3>3
  <2>11. WalletsInv'
    BY <2>5, <2>9, <2>10 DEF WalletsInv
  <2>12. PeriodsInv'
    <3>1. \A p \in Orders : p # o => granted'[p] = granted[p]
      BY DEF SettleCommit, TypeOK
    <3>2. CASE order[o].type = "AI_CREDITS"
      <4>1. granted'[o] = granted[o] /\ granted[o] = None
        BY <2>4, <3>2 DEF SettleCommit, PeriodsInv
      <4> QED
        BY <2>2, <2>3, <2>4, <3>1, <3>2, <4>1 DEF PeriodsInv
    <3>3. CASE order[o].type = "PLAN_UPGRADE"
      <4>1. granted'[o] # None
        <5>1. paid[o] \in Payment
          BY DEF SettleCommit, TxInv, TxOK, TypeOK
        <5>2. Start(tx[o].current, paid[o].at) \in Nat
              /\ Start(tx[o].current, paid[o].at) + Period \in Nat
          BY <2>1, <5>1, BillingAssumption
          DEF Start, Settlement, Subscription, Payment, Times, Ends
        <5>3. tx[o].current.status \in Status
          BY <2>1 DEF Settlement, Subscription
        <5>4. granted'[o] \in Grant
          BY <3>3, <5>2, <5>3 DEF SettleCommit, TypeOK, Grant, Ends
        <5> QED
          BY <5>4, NoneAssumption
      <4> QED
        BY <2>2, <2>3, <2>4, <3>1, <3>3, <4>1 DEF PeriodsInv
    <3> QED
      BY <2>1, <3>2, <3>3 DEF Unpaid, Types
  <2> QED
    BY <2>11, <2>12
<1>3. CASE UNCHANGED <<order, wallet, granted>>
  BY <1>3 DEF WalletsInv, PeriodsInv, PaidBy, PaidOrders
<1> QED
  BY <1>1, <1>2, <1>3
  DEF Next, vars, Tick, Pay, SettleMismatch, SettleBegin, SettleAbort, SettleFinish,
      SettleCrash, ScanRead, ScanExpire, ScanInvalidate, ScanCrash, Load, Fill

-----------------------------------------------------------------------------
(* The theorems.                                                           *)

IInv == TypeOK /\ TxInv /\ InvoicesGapFree /\ BackedInv /\ FreshInv /\ RenewInv

LEMMA InitIInv == Init => IInv
<1> SUFFICES ASSUME Init PROVE IInv
  OBVIOUS
<1>1. TypeOK
  BY InitType
<1>2. TxInv /\ PaidOrders = {}
  BY DEF Init, TxInv, TxOK, PaidOrders
<1>3. InvoicesGapFree
  <2>1. \A s \in SeriesSet : last[s] = 0
    BY DEF Init
  <2>2. 1..0 = {}
    OBVIOUS
  <2> QED
    BY <1>2, <2>1, <2>2 DEF InvoicesGapFree
<1>4. BackedInv
  BY BillingAssumption DEF Init, BackedInv, Backed
<1>5. FreshInv
  BY DEF Init, FreshInv
<1>6. RenewInv
  <2>1. \A c \in Coachings : PlansOf(c) = {}
    BY <1>2 DEF PlansOf
  <2> QED
    BY <2>1 DEF Init, RenewInv, RowCarries, Carries, TxCarries, RenewalsExtend
<1> QED
  BY <1>1, <1>2, <1>3, <1>4, <1>5, <1>6 DEF IInv

LEMMA SpecIInv == Spec => []IInv
<1>1. IInv /\ [Next]_vars => IInv'
  BY NextType, NextTx, NextGapFree, NextBacked, NextFresh, NextRenew DEF IInv
<1> QED
  BY InitIInv, <1>1, PTL DEF Spec

\* Every variable has its type in every reachable state, for any number of
\* coachings, orders and requests: a settlement commits only an order that is
\* still CREATED, so PAID rows carry a number of their own.
THEOREM TypeCorrect == Spec => []TypeOK
<1>1. IInv => TypeOK
  BY DEF IInv
<1> QED
  BY SpecIInv, <1>1, PTL

\* However webhooks are repeated, interleaved and rolled back, the invoices of a
\* financial year are numbered 1, 2, 3, ... without a gap and without a repeat:
\* nextInvoiceNumber increments in the transaction that uses the number.
THEOREM InvoicesHaveNoGap == Spec => []InvoicesGapFree
<1>1. IInv => InvoicesGapFree
  BY DEF IInv
<1> QED
  BY SpecIInv, <1>1, PTL

\* Whatever is delivered twice, interleaved or rolled back, an order is booked
\* once: the wallet holds exactly the credits of the paid orders, and the orders
\* that bought a period are exactly the paid orders of a plan.
THEOREM OrdersAreBookedOnce == Spec => []Booked
<1>1. ASSUME TypeOK, PeriodsInv
      PROVE  {o \in Orders : granted[o] # None} = UNION {PlansOf(c) : c \in Coachings}
  <2>1. \A o \in PaidOrders : order[o].coaching \in Coachings
    BY <1>1 DEF TypeOK, PaidOrders, Unpaid, Invoiced
  <2>2. \A o \in Orders :
          granted[o] # None <=> \E c \in Coachings : o \in PlansOf(c)
    BY <1>1, <2>1 DEF PeriodsInv, PlansOf, PaidOrders
  <2>3. \A c \in Coachings : PlansOf(c) \subseteq Orders
    BY DEF PlansOf, PaidOrders
  <2> QED
    BY <2>2, <2>3
<1>2. IInv /\ WalletsInv /\ PeriodsInv => Booked
  BY <1>1 DEF IInv, WalletsInv, Bought, PaidBy, Booked
<1>3. IInv /\ WalletsInv /\ PeriodsInv /\ [Next]_vars => WalletsInv' /\ PeriodsInv'
  BY NextBooks DEF IInv
<1> QED
  BY SpecIInv, InitBooks, <1>2, <1>3, PTL DEF Spec

\* The feature gate lets no request of a coaching through after both its trial
\* and every period it paid for are over, whatever state is cached.
THEOREM GateNeedsPayment == Spec => []AccessIsPaidFor
<1>1. ASSUME IInv
      PROVE  AccessIsPaidFor
  <2> USE <1>1 DEF IInv
  <2>1. now \in Nat /\ TrialEnd \in Nat
    BY BillingAssumption DEF TypeOK, Times
  <2>2. ASSUME NEW c \in Coachings, NEW state \in State,
               Backed(c, state.accessUntil), Evaluate(state)
        PROVE  now <= TrialEnd \/ \E o \in PlansOf(c) : now <= granted[o].end
    BY <2>1, <2>2 DEF Backed, Evaluate, State, Grant, Ends
  <2> QED
    BY <2>2 DEF AccessIsPaidFor, LetIn, Cached, BackedInv, TypeOK, Entry, Reading
<1>2. IInv => AccessIsPaidFor
  BY <1>1
<1> QED
  BY SpecIInv, <1>2, PTL

\* The gate never decides with a state that the row left longer than a cache
\* entry's lifetime ago, whether an invalidation failed or a request that had
\* read the old row stored it afterwards.
THEOREM GateIsStaleOnlyForTTL == Spec => []StaleOnlyForTTL
<1>1. IInv => StaleOnlyForTTL
  <2> SUFFICES ASSUME IInv, NEW c \in Coachings, Cached(c),
                      cache[c].state # StateOf(sub[c])
               PROVE  now < sub[c].updatedAt + TTL
    BY DEF StaleOnlyForTTL
  <2>1. /\ now \in Nat /\ TTL \in Nat
        /\ sub[c].updatedAt \in Nat
        /\ cache[c] # None /\ cache[c].expires \in Nat
    BY BillingAssumption DEF IInv, TypeOK, Times, Subscription, Cached, Entry
  <2>2. cache[c].expires <= sub[c].updatedAt + TTL
    BY <2>1 DEF IInv, FreshInv
  <2> QED
    BY <2>1, <2>2 DEF Cached
<1> QED
  BY SpecIInv, <1>1, PTL

\* Renewals of one financial year extend each other: a period starts before the end
\* of the one bought before it only if the row had been marked EXPIRED, for any
\* number of renewals that race.  The lock of the invoice counter is what does it.
THEOREM RenewalsFollow == Spec => []RenewalsExtend
<1>1. IInv => RenewalsExtend
  BY DEF IInv, RenewInv
<1> QED
  BY SpecIInv, <1>1, PTL
=============================================================================
