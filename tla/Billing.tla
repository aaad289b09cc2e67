------------------------------ MODULE Billing ------------------------------
(***************************************************************************)
(* What a coaching pays Vargly: orders priced on the server and paid at    *)
(* the gateway, webhooks that settle an order in one transaction (invoice  *)
(* number, subscription period, AI credits), the daily scan that marks     *)
(* lapsed subscriptions EXPIRED, and the feature gate that lets requests   *)
(* through by a subscription state cached in Redis.                        *)
(*                                                                         *)
(* Transactions run at READ COMMITTED.  A settlement takes its locks (the  *)
(* order row, then the invoice counter row) and reads in SettleBegin and   *)
(* writes in SettleCommit: in between others see the old rows.             *)
(***************************************************************************)
EXTENDS Integers, FiniteSets, FiniteSetsExt

CONSTANTS
  Coachings,
  Orders,
  Credits,         \* Credits[t]: what an order of type t adds to the wallet
  Requests,        \* concurrent HTTP requests that pass the feature gate
  TrialEnd,        \* trialEndsAt of every coaching
  Period,          \* length of a billing cycle
  TTL,             \* CACHE_TTL_SECONDS
  NewYear,         \* when the invoice series changes: 1 April
  Horizon,         \* bound on time
  MaxFailures,     \* bound on rollbacks, crashes and Redis errors
  None

Types == {"PLAN_UPGRADE", "AI_CREDITS"}

ASSUME BillingAssumption ==
  /\ Coachings # {}
  /\ Credits \in [Types -> Nat]
  /\ TrialEnd \in Nat /\ Period \in Nat \ {0} /\ TTL \in Nat \ {0}
  /\ NewYear \in Nat /\ Horizon \in Nat /\ MaxFailures \in Nat

VARIABLES
  now,
  order,     \* order[o]: the billing_payments row, [status, coaching, type, series, number]
  paid,      \* paid[o]: what the gateway took, [at, exact], or None
  sub,       \* sub[c]: the subscription row
  wallet,    \* wallet[c]: credits allocated by settlements
  last,      \* last[s]: committed last_value of invoice series s
  tx,        \* tx[o]: the settlement of o in progress, or None
  after,     \* orders committed by a process that has not yet answered
  dismissed, \* orders of which a webhook was answered 200 and nothing settled
  doomed,    \* coachings the running scan read as lapsed and has not reached
  toDrop,    \* coachings whose cache entry the scan has still to delete
  cache,     \* cache[c]: the Redis entry, [state, expires], or None
  request,   \* request[r]: [coaching, state] read from the database, or None
  failures,
  granted    \* history: the period a plan order bought, [start, end, over]

vars == <<now, order, paid, sub, wallet, last, tx, after, dismissed, doomed, toDrop,
          cache, request, failures, granted>>

Times == 0..Horizon
Ends == Nat
Status == {"TRIALING", "ACTIVE", "EXPIRED"}
SeriesSet == {1, 2}
Unpaid == [status: {"CREATED"}, coaching: Coachings, type: Types, series: {1}, number: {0}]
Invoiced == [status: {"PAID"}, coaching: Coachings, type: Types, series: SeriesSet,
             number: Nat \ {0}]
Subscription == [status: Status, currentPeriodEnd: Ends, updatedAt: Times]
Settlement == [series: SeriesSet, number: Nat \ {0}, current: Subscription]
State == [status: Status, accessUntil: Ends]
Reading == [coaching: Coachings, state: State]
Grant == [start: Ends, end: Ends, over: Status]

Payment == [at: Times, exact: BOOLEAN]
Entry == [state: State, expires: Nat]

ASSUME NoneAssumption == None \notin Invoiced /\ None \notin Grant

TypeOK ==
  /\ now \in Times
  /\ order \in [Orders -> Unpaid \cup Invoiced \cup {None}]
  /\ paid \in [Orders -> Payment \cup {None}]
  /\ sub \in [Coachings -> Subscription]
  /\ wallet \in [Coachings -> Nat]
  /\ last \in [SeriesSet -> Nat]
  /\ tx \in [Orders -> Settlement \cup {None}]
  /\ after \subseteq Orders
  /\ dismissed \subseteq Orders
  /\ doomed \subseteq Coachings
  /\ toDrop \subseteq Coachings
  /\ cache \in [Coachings -> Entry \cup {None}]
  /\ request \in [Requests -> Reading \cup {None}]
  /\ failures \in 0..MaxFailures
  /\ granted \in [Orders -> Grant \cup {None}]

Init ==
  /\ now = 0
  /\ order = [o \in Orders |-> None]
  /\ paid = [o \in Orders |-> None]
  /\ sub = [c \in Coachings |->
              [status |-> "TRIALING", currentPeriodEnd |-> TrialEnd, updatedAt |-> 0]]
  /\ wallet = [c \in Coachings |-> 0]
  /\ last = [s \in SeriesSet |-> 0]
  /\ tx = [o \in Orders |-> None]
  /\ after = {}
  /\ dismissed = {}
  /\ doomed = {}
  /\ toDrop = {}
  /\ cache = [c \in Coachings |-> None]
  /\ request = [r \in Requests |-> None]
  /\ failures = 0
  /\ granted = [o \in Orders |-> None]

-----------------------------------------------------------------------------
(* Time.  A request to the API is over before time moves on; transactions, *)
(* webhooks and scans may take any time.                                   *)

Tick ==
  /\ now < Horizon
  /\ \A r \in Requests : request[r] = None
  /\ now' = now + 1
  /\ UNCHANGED <<order, paid, sub, wallet, last, tx, after, dismissed, doomed, toDrop,
                 cache, request, failures, granted>>

Fail == failures < MaxFailures /\ failures' = failures + 1

\* invalidateSubscriptionFeatureCache: a Redis error is swallowed.
Invalidate(c) ==
  \/ cache' = [cache EXCEPT ![c] = None] /\ UNCHANGED failures
  \/ Fail /\ UNCHANGED cache

-----------------------------------------------------------------------------
(* Orders and payments.                                                    *)

\* createOrder: the gateway's order, then its record at the server's price.
CreateOrder(o, c, type) ==
  /\ order[o] = None
  /\ order' = [order EXCEPT ![o] = [status |-> "CREATED", coaching |-> c, type |-> type,
                                    series |-> 1, number |-> 0]]
  /\ UNCHANGED <<now, paid, sub, wallet, last, tx, after, dismissed, doomed, toDrop,
                 cache, request, failures, granted>>

\* The customer, who has the order id from createOrder, pays at the gateway.
Pay(o, exact) ==
  /\ order[o] # None
  /\ paid[o] = None
  /\ paid' = [paid EXCEPT ![o] = [at |-> now, exact |-> exact]]
  /\ UNCHANGED <<now, order, sub, wallet, last, tx, after, dismissed, doomed, toDrop,
                 cache, request, failures, granted>>

\* A webhook of o arrives (payment.captured and order.paid, late, or again
\* because an earlier one was not answered) and gets the lock of the order row.
Delivered(o) == paid[o] # None /\ tx[o] = None

\* Mutant: a settled order is settled again.
UnsettledAlways(o) == order[o] # None

Unsettled(o) == order[o] # None /\ order[o].status = "CREATED"

\* amount_mismatch: answered 200, nothing applied.  (A webhook of a settled
\* order is answered DUPLICATE and changes nothing at all.)
SettleMismatch(o) ==
  /\ Delivered(o)
  /\ Unsettled(o) /\ ~paid[o].exact
  /\ dismissed' = dismissed \cup {o}
  /\ UNCHANGED <<now, order, paid, sub, wallet, last, tx, after, doomed, toDrop,
                 cache, request, failures, granted>>

\* The financial year of the payment.
SeriesOf(time) == IF time < NewYear THEN 1 ELSE 2

\* Mutant: the counter row is read without a lock.
CounterFreeAlways(series) == TRUE

\* The counter row stays locked until the transaction that incremented it ends.
CounterFree(series) == \A o \in Orders : tx[o] # None => tx[o].series # series

NextNumber(series) == last[series] + 1

\* settlePayment: the next invoice number, then the current subscription.
SettleBegin(o) ==
  LET series == SeriesOf(paid[o].at) IN
  /\ Delivered(o)
  /\ Unsettled(o) /\ paid[o].exact
  /\ CounterFree(series)
  /\ tx' = [tx EXCEPT ![o] = [series |-> series, number |-> NextNumber(series),
                              current |-> sub[order[o].coaching]]]
  /\ UNCHANGED <<now, order, paid, sub, wallet, last, after, dismissed, doomed, toDrop,
                 cache, request, failures, granted>>

\* Renewing an active paid period extends it; otherwise the new one starts now.
Start(current, at) ==
  IF current.status = "ACTIVE" /\ current.currentPeriodEnd > at
  THEN current.currentPeriodEnd ELSE at

\* settlePayment commits: invoice, subscription and credits together.
SettleCommit(o) ==
  LET c     == order[o].coaching
      start == Start(tx[o].current, paid[o].at)
  IN
  /\ tx[o] # None
  /\ order' = [order EXCEPT ![o].status = "PAID", ![o].series = tx[o].series,
                                  ![o].number = tx[o].number]
  /\ last' = [last EXCEPT ![tx[o].series] = tx[o].number]
  /\ sub' = IF order[o].type = "AI_CREDITS" THEN sub
            ELSE [sub EXCEPT ![c] = [status |-> "ACTIVE", updatedAt |-> now,
                                     currentPeriodEnd |-> start + Period]]
  /\ granted' = IF order[o].type = "AI_CREDITS" THEN granted
                ELSE [granted EXCEPT ![o] = [start |-> start, end |-> start + Period,
                                             over |-> tx[o].current.status]]
  /\ wallet' = [wallet EXCEPT ![c] = @ + Credits[order[o].type]]
  /\ tx' = [tx EXCEPT ![o] = None]
  /\ after' = after \cup {o}
  /\ UNCHANGED <<now, paid, dismissed, doomed, toDrop, cache, request, failures>>

\* Mutant: a rolled back settlement is answered as if it were done.
SettleAbortAnswered(o) ==
  /\ tx[o] # None
  /\ Fail
  /\ tx' = [tx EXCEPT ![o] = None]
  /\ dismissed' = dismissed \cup {o}
  /\ UNCHANGED <<now, order, paid, sub, wallet, last, after, doomed, toDrop,
                 cache, request, granted>>

\* The transaction is rolled back; the webhook gets a 5xx and comes again.
SettleAbort(o) ==
  /\ tx[o] # None
  /\ Fail
  /\ tx' = [tx EXCEPT ![o] = None]
  /\ UNCHANGED <<now, order, paid, sub, wallet, last, after, dismissed, doomed, toDrop,
                 cache, request, granted>>

\* settleOrder after the commit: the cache is invalidated, PROCESSED is answered.
SettleFinish(o) ==
  /\ o \in after
  /\ after' = after \ {o}
  /\ Invalidate(order[o].coaching)
  /\ UNCHANGED <<now, order, paid, sub, wallet, last, tx, dismissed, doomed, toDrop,
                 request, granted>>

\* The process dies between the commit and the invalidation.
SettleCrash(o) ==
  /\ o \in after
  /\ Fail
  /\ after' = after \ {o}
  /\ UNCHANGED <<now, order, paid, sub, wallet, last, tx, dismissed, doomed, toDrop, cache,
                 request, granted>>

-----------------------------------------------------------------------------
(* The daily expiry scan.                                                  *)

\* Trials end at trialEndsAt, paid plans at the end of the current period.
EndsAt(row) == IF row.status = "TRIALING" THEN TrialEnd ELSE row.currentPeriodEnd

\* Read by the scan and no day remaining.
Due(row) == \/ row.status = "TRIALING" /\ TrialEnd <= now
            \/ row.status = "ACTIVE" /\ row.currentPeriodEnd <= now

\* findExpiringSubscriptions.
ScanRead ==
  /\ doomed = {} /\ toDrop = {}
  /\ doomed' = {c \in Coachings : Due(sub[c])}
  /\ UNCHANGED <<now, order, paid, sub, wallet, last, tx, after, dismissed, toDrop,
                 cache, request, failures, granted>>

\* updateSubscriptionStatus(sub.id, EXPIRED), whatever the row is by now.
ScanExpire(c) ==
  /\ c \in doomed /\ toDrop = {}
  /\ sub' = [sub EXCEPT ![c].status = "EXPIRED", ![c].updatedAt = now]
  /\ doomed' = doomed \ {c}
  /\ toDrop' = {c}
  /\ UNCHANGED <<now, order, paid, wallet, last, tx, after, dismissed, cache, request,
                 failures, granted>>

ScanInvalidate(c) ==
  /\ c \in toDrop
  /\ toDrop' = {}
  /\ Invalidate(c)
  /\ UNCHANGED <<now, order, paid, sub, wallet, last, tx, after, dismissed, doomed, request,
                 granted>>

\* The worker dies during the scan; the next scan reads again.
ScanCrash ==
  /\ doomed # {} \/ toDrop # {}
  /\ Fail
  /\ doomed' = {} /\ toDrop' = {}
  /\ UNCHANGED <<now, order, paid, sub, wallet, last, tx, after, dismissed, cache, request,
                 granted>>

-----------------------------------------------------------------------------
(* The feature gate.                                                       *)

\* Mutant: the status column is trusted.
EvaluateByStatus(state) == state.status # "EXPIRED"

\* evaluateSubscriptionAccess.
Evaluate(state) == state.status # "EXPIRED" /\ now <= state.accessUntil

\* The row as loadSubscriptionState caches it.
StateOf(row) == [status |-> row.status, accessUntil |-> EndsAt(row)]

\* Redis drops an entry when its time is over.
Cached(c) == cache[c] # None /\ now < cache[c].expires

\* A request that finds no entry, or no Redis, reads the database.
Load(r, c) ==
  /\ request[r] = None
  /\ IF Cached(c) THEN Fail ELSE UNCHANGED failures
  /\ request' = [request EXCEPT ![r] = [coaching |-> c, state |-> StateOf(sub[c])]]
  /\ UNCHANGED <<now, order, paid, sub, wallet, last, tx, after, dismissed, doomed, toDrop,
                 cache, granted>>

\* Mutant: the entry is stored without an expiry.
ExpiryNever(time) == Horizon + TTL

Expiry(time) == time + TTL

\* The request stores what it read, decides and is done.
Fill(r) ==
  LET c == request[r].coaching IN
  /\ request[r] # None
  /\ request' = [request EXCEPT ![r] = None]
  /\ \/ /\ cache' = [cache EXCEPT ![c] = [state |-> request[r].state,
                                          expires |-> Expiry(now)]]
        /\ UNCHANGED failures
     \/ Fail /\ UNCHANGED cache
  /\ UNCHANGED <<now, order, paid, sub, wallet, last, tx, after, dismissed, doomed, toDrop,
                 granted>>

-----------------------------------------------------------------------------
Next ==
  \/ Tick
  \/ \E o \in Orders : \/ \E c \in Coachings, type \in Types : CreateOrder(o, c, type)
                       \/ \E exact \in BOOLEAN : Pay(o, exact)
                       \/ SettleMismatch(o)
                       \/ SettleBegin(o)
                       \/ SettleCommit(o)
                       \/ SettleAbort(o)
                       \/ SettleFinish(o)
                       \/ SettleCrash(o)
  \/ ScanRead
  \/ \E c \in Coachings : ScanExpire(c) \/ ScanInvalidate(c)
  \/ ScanCrash
  \/ \E r \in Requests : Fill(r) \/ \E c \in Coachings : Load(r, c)

Spec == Init /\ [][Next]_vars

\* The gateway delivers until it is answered, what runs goes on, and the scan
\* comes every day.
Fairness ==
  /\ \A o \in Orders :
       /\ WF_vars(SettleMismatch(o))
       /\ WF_vars(o \notin dismissed /\ SettleBegin(o))
       /\ WF_vars(SettleCommit(o))
       /\ WF_vars(SettleFinish(o))
  /\ WF_vars(ScanRead)
  /\ \A c \in Coachings : WF_vars(ScanExpire(c)) /\ WF_vars(ScanInvalidate(c))

FairSpec == Spec /\ Fairness

-----------------------------------------------------------------------------
(* Properties.                                                             *)

PaidOrders == {o \in Orders : order[o] # None /\ order[o].status = "PAID"}

PlansOf(c) == {o \in PaidOrders : order[o].coaching = c /\ order[o].type = "PLAN_UPGRADE"}

\* Invoices of a series are 1, 2, ... over all coachings.
InvoicesGapFree ==
  \A s \in SeriesSet :
    LET issued == {o \in PaidOrders : order[o].series = s} IN
    /\ {order[o].number : o \in issued} = 1..last[s]
    /\ \A o, p \in issued : order[o].number = order[p].number => o = p

\* Whatever is delivered twice or rolled back, an order is booked once: its
\* invoice leaves no gap and repeats no number, the wallet got the credits of
\* the settled orders, and every settled plan order bought one period.
Booked ==
  /\ InvoicesGapFree
  /\ \A c \in Coachings :
       wallet[c] = MapThenSumSet(LAMBDA o : Credits[order[o].type],
                                 {o \in PaidOrders : order[o].coaching = c})
  /\ {o \in Orders : granted[o] # None} = UNION {PlansOf(c) : c \in Coachings}

\* A request of c gets in now, with the cached state or with one it has read.
LetIn(c) ==
  \/ Cached(c) /\ Evaluate(cache[c].state)
  \/ \E r \in Requests : /\ request[r] # None
                         /\ request[r].coaching = c
                         /\ Evaluate(request[r].state)

\* Nobody gets in without a trial or a paid period that lasts until now,
\* however old the cached state is and however late the scan: the gate looks
\* at the date as well as at the status.
AccessIsPaidFor ==
  \A c \in Coachings :
    LetIn(c) => \/ now <= TrialEnd
                \/ \E o \in PlansOf(c) : now <= granted[o].end

\* The gate may use an outdated state (a request that read the row before it
\* changed stores it after the invalidation, or the invalidation fails), but
\* not for longer than the entry lives.
StaleOnlyForTTL ==
  \A c \in Coachings :
    Cached(c) /\ cache[c].state # StateOf(sub[c]) => now < sub[c].updatedAt + TTL

\* p is the plan order of c that was settled next after o
Follows(c, o, p) ==
  /\ o # p /\ order[o].number <= order[p].number
  /\ \A q \in PlansOf(c) : ~(order[o].number < order[q].number /\ order[q].number < order[p].number)

OneSeries(c) == \A o, p \in PlansOf(c) : order[o].series = order[p].series

\* In one financial year a period starts before the end of the one bought before
\* it only when that was already marked EXPIRED: settlements of one coaching read
\* and write its subscription one after the other, because all of them queue for
\* the row of the invoice counter.
RenewalsExtend ==
  \A c \in Coachings : OneSeries(c) =>
    \A o, p \in PlansOf(c) :
      Follows(c, o, p) /\ granted[p].start < granted[o].end => granted[p].over = "EXPIRED"

\* Money taken for an order, at its price, gets it settled in the end.
CapturedIsSettled ==
  \A o \in Orders : paid[o] # None /\ paid[o].exact ~> o \in PaidOrders

\* "Dates are enforced here rather than trusting the status column"
\* (require-feature.decorator.ts): a coaching whose period goes on gets in.
\* Not so: the scan may mark a row EXPIRED that was renewed since it was read.
PaidIsServed ==
  \A c \in Coachings : now < EndsAt(sub[c]) => Evaluate(StateOf(sub[c]))
=============================================================================
