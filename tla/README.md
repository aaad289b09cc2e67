# Vargly, in TLA+

Specifications of the parts of the Vargly backend (`src/apps/api`) whose
correctness depends on interleavings, crashes, retries and reordered messages:
TLC checks them on small instances, TLAPS proves the central theorems for every
value of the constants. Paths below are relative to `src/apps/api/src`.

## The system and its parts

Vargly is one TypeScript backend for many coaching institutes: an API process and
worker processes over one PostgreSQL database (row-level security per institute)
and one Redis with BullMQ queues.

| component | state it keeps | operations | talks to |
|---|---|---|---|
| event bus, store, relay (`events/`, `workers/event-relay.worker.ts`) | `domain_events` rows; dispatches being awaited | publish, dispatch, saveOutcome, claimDue, redeliverDue | called by every module after its commit; calls the subscribers |
| notification queueing (`modules/notifications/notification.service.ts`, `.subscribers.ts`) | `notification_history` rows, BullMQ jobs, opt-outs | enqueueNotification, optOut, optIn | called by event handlers; adds jobs |
| notification sending (`workers/whatsapp.worker.ts`, `email.worker.ts`, `notification.repository.ts`) | the same rows; jobs and attempts | processJob, claimForSending, retryNotification, handleWebhookStatus | provider, provider's webhooks |
| fees (`modules/fees/`, `common/money/`) | installments, transactions, receipt counters | recordPayment, handlePaymentWebhook, waiveInstallment, createPaymentLink | gateway; publishes FEE_PAID |
| billing (`modules/billing/`) | orders, subscription, invoice counter | createOrder, settleOrder, expiry scan, feature gate and its cache | gateway; Redis |
| AI (`modules/ai/`) | credit wallet, usage log, prompt cache, knowledge chunks | generateCompletion: reserve, call, refund, log | model providers, Redis, billing |
| auth (`modules/auth/`; `apps/web/src/lib/auth`, `app/api/auth`) | refresh tokens and their families; the browser's cookie; each tab's session | login, refresh, logout, logoutAllDevices | the web server's routes between browser and API |
| roles (`common/security/`, `common/decorators/`) | the cached access of a user | resolve, invalidate, requireBatchAccess | Redis; guards the routes |
| WhatsApp assistant (`modules/whatsapp-assistant/`, `workers/inbound-whatsapp.worker.ts`) | inbound jobs, claims, what was said before | processInboundMessage | webhook, Redis, notifications |
| tenancy (`database/prisma/`, `common/services/request-context.service.ts`) | the request's scope; settings of each connection | every statement of every module | PostgreSQL's row-level security |
| batches, tests (`modules/batches/`, `modules/tests/`) | batches, enrolments, tests, marks | enroll, withdraw, transfer, delete; create, update, upload | behind the role guards; publish events |
| attendance, homework, students, ... | their rows | create, update, list | publish events |
| reports, dashboard, timeline, audit | read models | queries, append | subscribe to events |

What is hard here: handlers run twice or are cut in the middle (relay, BullMQ
stalls and retries); a lease or claim is only as good as its time-out; webhooks
come twice, late or after an error; money is written by concurrent transactions
at READ COMMITTED; caches are filled from reads that an invalidation overtakes.
`PROJECT.json` lists each such hazard at its line, with the properties that
would catch it.

What makes each part correct: an event is reported delivered only when every
handler has taken effect, and every recorded event settles; a person gets a
notification once and its row tells the truth about it; an institute stays
within its daily share; a payment is recorded once, to the paisa, with a receipt
without gaps; a paid subscription is never expired; a credit is never lost or
spent twice; a session that was signed out stays so, and one that was not goes on;
a parent's message is answered once and about the right child; no tenant sees
another's rows, by whichever layer; a teacher writes only where assigned.

## Modules

| module | models |
|---|---|
| `DomainEvents` | publishers, `domain_events`, relays; crashes, lost updates, time as "due" and "stale" per row |
| `EventDelivery` | the promise of the bus, in four actions; refined by `DomainEvents` |
| `NotificationSending` | one row, its jobs (the first and the owner's retries), the provider, the receipts |
| `NotificationQueueing` | enqueueNotification as handlers call it, step by step, with crashes and reruns |
| `FeePayments` | payments and waivers as transactions with row locks, receipt counter, gateway webhooks |
| `FeeLedger` | an ideal ledger in which each payment and waiver is one step; refined by `FeePayments` |
| `Billing` | orders, settlements as transactions, the expiry scan, the feature gate with its cache |
| `AiCredits` | completions with the wallet, the prompt cache and the usage log, call by call |
| `CreditAccount` | the account a wallet is meant to be: charge, give back, buy; refined by `AiCredits` |
| `WebSessions` | tabs, the cookie, the web server's auth routes and the API's rotating tokens |
| `WhatsAppAssistant` | one person's messages: webhook, inbound queue, claim, opt-out, choices, answer |
| `TenantIsolation` | statements and transactions over a connection pool, the extension, the policy |
| `ClassRecords` | enrolments, a test with its marks, and a teacher behind the cached access |
| `DomainEventsProofs`, `FeePaymentsProofs`, `BillingProofs`, `AiCreditsProofs`, `WhatsAppAssistantProofs` | theorems about the module of that name, with proofs |
| `NotificationProofs` | the same for `NotificationSending` and `NotificationQueueing` |
| `AccessProofs` | the same for `WebSessions`, `TenantIsolation` and `ClassRecords` |
| `Sums` | what the proofs need to know of sums over finite sets |
| `MC*` | constants for TLC |

Operators named as mutants in the modules are plausible wrong versions of the
definition below them; none of the specifications uses them. They exist so that
every property can be shown to notice a bug in the code it is about.

### DomainEvents

`row[e]` is the row of event e (status, completed handlers, attempts); `flights`
are the calls of dispatch() somebody awaits; `claims[r]` the rest of a relay's
batch. `PublishRecorded`, `PublishUnheard` and `PublishUnrecorded` are the three
ways through publish() (event-bus.ts:42-70); all handlers start at once and settle
one by one; `SaveOutcome` is the one UPDATE of markResult (event-store.ts:73-92),
which overwrites any status. `ClaimDue` takes a subset of what is claimable up to
the batch size, as LIMIT and SKIP LOCKED may. Two clocks matter, the 120 s after
which a PENDING row is stale and `next_attempt_at`; each is a Boolean of the row
that a `Tick` sets. Nothing in the code bounds how long handlers take:
`MayOverrun` says whether ticks may happen while somebody works on the event.

### NotificationSending

`row[n]` is the history row (status, whether a SENDING claim is stale, the stored
provider id), `job[n][k]` the queue's job (k = 0) and the owner's k-th retry,
`mail[n]` the messages the provider accepted and what became of them. processJob
is the path waiting - sending - accepted or refused - reported - ended; a worker
may die and an update may throw anywhere on it. BullMQ is modelled from its use:
`AfterThrow` is the next of the job's attempts, `AfterStall` its recovery of a
stalled job (once). `Prompt` says that a job ends before its claim is ten minutes
old: five attempts with exponential backoff from 5 s take 75 s. `doubt` and `hurt`
are history variables: what the row could not know, and what an infrastructure
failure hit; the properties name the exception they make with them.

### NotificationQueueing

`call[q]` is the running enqueueNotification of request q: targets, index,
allowance. Recording and adding the job are separate steps, because the process
can die between them; `StepThrows` is the catch of the loop (the first target
rethrows, the others go on) together with the catch of the subscriber, which
makes the handler succeed for the bus. `Crash` cuts all running calls, and the
relay calls them again from the start. Owner alerts (`Unlimited`) have no daily limit;
answers of the assistant (`Replies`) have none either and go to whoever wrote, also
after STOP; both count towards the limit of the others. Keys that BullMQ has seen stay seen; in
the code it forgets completed jobs after a thousand others, and a job added again
after that finds a row that is not claimable.

### FeePayments

A transaction is `Begin` (SELECT ... FOR UPDATE), one of `Duplicate`, `Refuse`,
`Accept` (what it reads under the lock), `TakeNumber` (the counter row, locked
until the end) and `Commit` or `RefuseInsert` (the unique index), and may be
rolled back at any point. `inst`, `txns` and `last` are the committed rows; a
transaction's own writes appear at its commit. Money is in paise. A webhook call
is the same transaction with the payment's id as reference; what it throws below
500 is answered REJECTED and left to a person (`rejected`), anything else makes
the gateway come again.

### Billing

`SettleBegin` is settlePayment up to its last read (the order row and the invoice
counter row locked, the subscription read), `SettleCommit` all its writes, which
others see at once; `SettleAbort` a rollback, after which the gateway comes again.
`SettleFinish` and `SettleCrash` are settleOrder after the commit: the cache entry
is deleted, or not. The scan reads which rows are due (`doomed`) and writes each of
them later, by id. A request that misses the cache reads the row (`Load`) and
stores what it read (`Fill`), whatever happened in between. A unit of time is
longer than a request and may be longer than nothing else. The history variable
`granted` remembers which period an order bought and which status it replaced.
gracePeriodEndsAt is left out because nothing in the code ever sets it, as are
GRACE, PAST_DUE and CANCELLED, which nothing ever writes.

### AiCredits

`stage[r]` is where the completion r is in generateCompletion (ai.service.ts): look
for the wallet, create it, look into the cache, reserve by the conditional UPDATE,
call the provider, refund after its error, log, store, answer. Every await is a step.
`Throw` is a database call that fails, `ThrowLate` one that fails after it took effect,
`Die` a process with all it works on; the code has no way to give back what a fault
swallowed, so `hurt` names the requests for which nothing is promised. `BuyPack` is
what the settlement of `Billing` does to the wallet. Retrieval for the prompt and the
choice of a model change nothing here and are left out.

### WebSessions

`job[w]` is a refresh on its way from the tab (session.ts, under the Web Lock) through
the route handler to the API: sent - found - revoked - rotated - answered, or reused -
rejected. The three writes of the API's refresh are separate statements, as in
auth.service.ts. When a tab loses its answer (`LoseRefresh`), the servers go on for
a ghost without it. `form[t]` is a sign-in or sign-out. The histories `lost`, `left` and
`crossed` name the families whose answer was lost, that were signed out, and whose
refresh and sign-in or sign-out overlapped: what the properties except, since the
code cannot rule it out.

### WhatsAppAssistant

A message has a job (id `inbound.<id>`, forgotten on completion, so that a webhook
that comes again adds it again) and, when `queue.add` throws, a handler in the
webhook itself. Both go through claiming - obeying or resolving - choosing, entering -
prompting, picking, answering or replying - closing, each stage one await of
handleClaimedMessage and replyForParent. A throw gives the claim back, a death does
not. `choice` and `context` are the two things Redis remembers of a person; they
may be forgotten at any quiet moment. `silent` names messages whose reply the code
returns but nobody sends: see the findings.

### TenantIsolation

A statement has a scope (`runForTenant`, `runAsSystem` or none), a connection with its
two settings, and what it names: a coaching in its filter or data, deletedAt, and
whether it slips past the extension (raw SQL, nested connect). `Passes` and
`ScopeWhere` are the extension, `Policy` the row-level security policy; a row must
pass both. Outside a transaction each statement is a transaction of its own;
an interactive one (`BeginTransaction` ... `Commit`) keeps its connection and the settings made
at its start. `enforced` is whether the database role is subject to the policies: the
server refuses to start in production without that, so raw SQL is let by only with
it. `by`, part of each row, is the history of who wrote it last.

### ClassRecords

Requests of the owner and of a teacher, each a sequence of statements (`pc`) that keeps
what it read (`held`). A teacher's request passes the cached access (`ReadCache`,
`LoadAccess`, `FillCache`: an entry may be of an access that was taken away meanwhile)
and `Guard`, which reads the assignment afresh. A transfer's transaction locks the row
it closes; opposite transfers may deadlock, and PostgreSQL aborts one.
`entitled` is the history the teacher property needs. `clashed` names the groups of
records (roster, test) on which requests overlapped: the code checks before it writes
without a lock, so two owners at once can delete a batch while a student enters it,
lower a total under a mark that is being given, or leave a student in two batches.
The properties claim nothing of those.

## Runs

| run | checks | instance |
|---|---|---|
| `EventsTimely` | DISPATCHED rows are true, reruns only after interruptions, refinement of `EventDelivery`, settlement | 3 events (2 handlers, 1, none), 2 relays, 2 attempts |
| `Sending` | delivered once, true status, settled in the end | 1 note, 1 owner retry, 2 attempts, 3 messages |
| `Queueing` | once per person, limit kept, complete when settled, settled in the end | 3 requests, 2 people, limit 2, 1 crash |
| `Fees` | balance, gap-free receipts, never both recorded and rejected, refinement of `FeeLedger`, captured money is settled | 2 installments (2 and 1 paise), 2 staff and 2 webhook calls, 1 gateway payment, 2 series |
| `Billing` | orders booked once, access only for paid time, staleness bounded by the TTL, renewals extend, captured money is settled | 1 coaching, 2 orders of either type, 1 request at a time, 3 instants, 2 series, 1 failure |
| `BillingScanRace` | violated: a coaching whose paid period goes on is let in | the same |
| `AiCredits` | what is consumed is held by requests, charges are explained, refinement of `CreditAccount`, reservations settle | 3 completions, 2 prompts, balance 2, 1 pack, 2 faults |
| `WebSessions` | no replay without a loss, the cookie is the live token, signed out stays out, refreshes settle | 2 tabs, 3 tokens, 1 fault |
| `Assistant` | answered once, handled is answered, the last STOP or START counts, the right child | 2 messages, 2 institutes with 2 and 1 children, 1 repetition, 2 attempts, 1 fault |
| `AssistantUnanswered` | violated: a question handled without a fault is answered | the same |
| `Tenancy` | reads and writes stay at home, transactions are whole | 2 tenants, 2 rows, 2 tasks, 3 connections |
| `ClassRecords` | teachers stay in their batches, deleted batches are empty, transfers move, marks fit | 3 requests, 2 batches, 1 student, totals 1 and 2 |

Why the bounds are enough to be interesting. Two relays and one publisher give
every pair of owners of an event; two attempts reach both FAILED and DEAD; an event
nobody listens to is settled by its publisher.
Notifications share no state, so one shows all; two attempts and one retry give
two jobs of which one is retried by the queue, three messages a resend and a
receipt of an older one. A group of two with a shared member, an answer (which no
limit or STOP holds back) and a limit of two put a target over the limit, in the
middle of a fan-out, and two handlers at once. An installment of two paise takes a part payment and a full
one; two webhook calls are payment.captured and payment_link.paid of one payment;
the second installment makes the unique index, not the lock, decide about a
reference. Two orders of one coaching are a renewal or a plan next to a pack; the
second one's number shows that the counter is shared. The three instants are before
the trial's end, at it and after it; a period lasts one instant and a cache entry
two, so that an entry outlives what it says, and the last instant is in the next
financial year. One failure is a rollback, a crash of the process or of the scan, or
a Redis error. A balance of two and costs of one and two refuse some completions and
let others race for the rest; a pack arrives in between; two faults hit a request and
another. Two tabs and three tokens give a rotation, a sign-in over a session and a
reuse; one fault is enough for every kind of loss. Two messages are a command and its
revocation, or a question and the number that answers the follow-up; each may be
handled by a job and by the webhook at once. Two
tasks and a connection more than they hold leave one for the statements outside any
transaction; every connection is used again by the other tenant's task, which is where
a setting that stays behind would be met. Three
requests are two that race and a third that shows the outcome; one student enters two
batches in any order and number of times.

`Tenancy` declares tenants, rows, tasks and connections symmetric, `ClassRecords` its
requests: their properties are safety and name none of them. `EventsTimely` and `Tenancy` look for
deadlock. In all others the system may really stop: notifications, payments, orders,
completions, messages and requests are finite in number, and a visitor may just leave.

The type invariant of every module is a theorem, not a run. Modules that one proof
module extends together have their own names for what every specification has:
`QueueSpec` and `QueueTypeOK`, `SessionSpec`, `TenancySpec`, next to `Spec` and `TypeOK`
of `NotificationSending` and `ClassRecords`.

The violated runs are findings: in each, the code does something that a comment or a
document denies. `PROJECT.json` quotes them. `BillingScanRace`: the scan writes by
id what it read before, over a renewal that was settled in between.
`AssistantUnanswered`: the question which child is meant, the confirmation of the
choice, and the reply to somebody without children are returned by
processInboundMessage but neither published nor marked to be sent, so the person
hears nothing although the next message is taken as the answer.

Three more things were seen while modelling that no property claims otherwise, as the
exceptions in the properties say. A SENDING row whose claim has grown stale is looked
for by nobody. The owner's retry resets a row whatever its status, also while a job is
sending. The keys of a fan-out depend on the order of the targets, which a rerun may
see differently (`StableTargets` assumes it does not); and nobody looks for STOP again
between resolving the targets and sending.

## Fairness

* Events: handlers settle, clocks advance, and the relay job repeats every 30 s
  and takes rows in the order of `next_attempt_at`, so a row that is claimable
  again and again is claimed in the end (strong fairness for that one action).
  Faults have no fairness; `RecordedEventuallySettles` says what holds once they
  cease.
* Sending: BullMQ hands every waiting job to a worker, a send ends in some answer
  (the adapters catch everything), the clock advances. Owners, messages and
  receipts need not act.
* Queueing: a live process carries its handlers on, and the relay runs again what
  a crash cut; the number of crashes is bounded.
* Fees: a transaction goes on and row locks are granted in turn (strong fairness
  of a call's next step), and the gateway repeats the webhook of a payment it got
  no answer for. `CapturedIsSettled` assumes that transactions which passed their
  checks are not rolled back for ever.

* Billing: the gateway comes again until it is answered, a transaction goes on, the
  answering process goes on, and the scan comes every day. Failures are bounded by
  MaxFailures.
* AI credits: a completion's process carries it on while it lives; fetch gives up on a
  silent provider. Faults are bounded by MaxFaults.
* Web sessions: servers and answers go on; the Web Lock is granted in the order it was
  asked for, so a waiting refresh gets it in the end (strong fairness of `Send`).
  Tabs and visitors need not act.
* The assistant, tenancy and class records have safety properties only, and no fairness.

## Proofs

`DomainEventsProofs`: types; `Truth`, an inductive invariant that no row, dispatch
or claim says more than handlers have done, and from it `DispatchedIsTrue` and
`CompletedNeverShrinks`, without any assumption on time; then, assuming
`MayOverrun = FALSE`, `Exclusion`: an event that somebody holds is neither
claimable nor settled, which is what makes `OneDispatchPerEvent` inductive; from it
`Accounted`: of an event that was never interrupted, the row and whoever dispatches it
know between them every handler that has taken effect, and a claim holds the row's list as
it still is; hence `RerunsHaveAReason`; and `ImplementsDelivery`, the refinement, which
needs the types, `Truth` and `Exclusion`.

`NotificationProofs`, about sending, assumes `Prompt = TRUE`. The invariant `Good(n)` of
one note says that a job that was accepted knows a message that exists, that a claim grows
stale only when no job is left, that the row tells the truth, and, while the note is
not in doubt, that the one sending job has the row to itself (`Claimed`) and that every
message but the one the row or that job names was lost (`OthersLost`). The last two need
each other: a second claim would send a second message, and a message nobody names would
let FAILED lie. From it `ClaimExcludes`, `SentOnce` and `RowsAreTrue`.

About queueing, the invariant `QueueInv` has four parts. `CallsInv`: a running call goes
through distinct targets, so its keys differ. `LimitInv`: while calls did not race, the
day's limited messages plus what a call's allowance still lets it create stay within the
limit; the call's own index is the measure, since a call that is past its allowance creates
FAILED rows only. Hence `TheLimitIsKept`, for any number of calls. `CompleteInv`: of a
request nothing has hindered, the keys before the loop's index are done with and the ones
from it on untouched, so a row or job that `Record` or `AddJob` finds is never somebody
else's; this is what `EveryTargetIsAccountedFor` needs at the end of the loop. `OnceInv`,
with `StableTargets`: every job of a request has its target's own key or, for the first
target only, the request's, and as long as the request may be run again a rerun finds the
same first target. Without the last part it would not be inductive: the first key alone
does not say who the job under it is for. Hence `NobodyIsSentTwice`, whose hypothesis
`StableTargets` is the one the code does not secure; `MayChange` is part of it.

`FeePaymentsProofs`: the invariant `IInv` adds to the types what a transaction in
progress holds and has found (`CallOK`: the lock, a balance that still fits, a
number that is still the next one), why a refused payment stays refused
(`RejectedOK`: its amount is fixed and balances never grow) and that a row is PAID
exactly when paid in full. From it follow gap-free receipts, references recorded
once, no overpayment, and `ImplementsLedger`: a commit is a payment of the ledger
because the locks keep what was found true until then; every step that is neither
a commit nor a waiver is a stutter. `PaidIsWhatWasRecorded` adds that the paid amount of
an installment is the sum of its recorded transactions: whoever holds its row lock has
read that sum, and adds what it records.

`BillingProofs`: `TxInv` says what a settlement in progress knows and others cannot
change (its order is CREATED, its number is the next one, no other settlement works
in its series), from which types and `InvoicesHaveNoGap` follow. `BackedInv` says
that every period end that is stored, cached or held by a request is the trial's or
that of a bought period; since grants stay (`GrantsStay`), a copy of any age remains
backed, and the gate, which looks at the date, lets nobody in unpaid
(`GateNeedsPayment`). `FreshInv` says that a request holds the row as it was at some
moment of the current instant, so an entry that differs from the row was stored no
later than the row changed; this is `GateIsStaleOnlyForTTL`, and it rests on the
assumption that a request ends before time moves on. `RenewInv` says that, while all
invoices of a coaching are of one series, its row and what a settlement has read of it
carry the end of the period bought last; what a settlement has read stays true because it
holds the counter row that every other one needs. So a new period starts where the last
one ends, or at the payment if the row had been marked EXPIRED (`RenewalsFollow`, for any
number of renewals; the run has two). `OrdersAreBookedOnce` is the books as a whole: the
invoices, what each paid order bought, and the wallet as the sum of the packs that were
paid; an order is settled by whoever holds its row, which is CREATED until then.

`AiCreditsProofs`: what each stage says of the reservation and the log
(`StageMeans`), and that the wallet's three numbers agree and none is negative
(`WalletMeans`); from them `WalletIsSolvent`, `ChargesAreExplained`, and
`ImplementsAccount`: the conditional UPDATE is the account's charge, which happens while
the request is not over and holds nothing, the refund the give-back of what is held.
`ConsumedIsWhatRequestsHold` says that what the wallet has consumed is the sum over the
requests of what each holds, which every step changes for one request and by one amount.

`PaidIsWhatWasRecorded`, `OrdersAreBookedOnce` and `ConsumedIsWhatRequestsHold` rest on
`Sums`. A sum over a finite set is a
fold of the community modules, which chooses an iteration of the set (`Iterates`). All
iterations of a set end in the same value (`IterationsAgree`), and one exists
(`IterationExists`). Both are proved by looking at a minimal subset for which they fail
(`Least`: among sets of subsets of a finite set one is minimal, since the strict subset
relation is well-founded there), because induction theorems with an operator parameter
cannot be used. Hence the element that the definition picks can be taken out
(`SumUnfolds`), then any element (`SumWithout`), one more element adds its value
(`SumWith`), and values outside the set do not matter (`SumOfEquals`).

`WhatsAppAssistantProofs`: per message, who is past the claim holds it and is alone
(`Once`), a claim is never held by nobody unless an answer, a silent reply or a failure
explains it (`Kept`), and a delivered message is always waiting, in somebody's hands or
done (`Carried`, which needs `Kept`: a handler that is refused may rely on the one that
was granted). Hence `ClaimsHold` and `NothingIsLost`, for any number of faults, where
the run has one. `AnswersFit` rests on `Remembered` (what Redis remembers was picked by
the person) and `RunFits` (a handler stays with an institute that knows the number).
`LastWordHolds` rests on `Ordered`: when a STOP or START was sent after the person waited
for the one before, that one had been obeyed (by `Carried`), so whoever obeys a command
obeys the last one so far; and it is obeyed once, since its claim stays (`Commanded`).

`AccessProofs`, about tenants: connections of the pool carry no settings and those of a
transaction its scope's (`SettingsFit`), and what is pending is its own tenant's on rows
nobody else has written (`PendingIsHome`). For a statement under the settings of its own
scope the two layers together let by only its tenant's rows (`MatchesHome`), whether or
not it slips past the first. Hence `ReadsHome`, `WritesHome` and `Whole`.

About records: `TeachersAreKeptIn` needs only that whoever is past the guard was
entitled (`PastTheGuard`), so the cache, however stale, does not matter for writes.
`MarksFitKept` and `DeletedStaysEmpty` assume no overlap, and their invariants (`TestSafe`,
`RosterSafe`) say that what a request found is still so when it writes; `TransfersMove`
adds that a student has at most one row in a batch.

About sessions: the invariant `WebInv` first says that the Web Lock is held by exactly the
tab whose refresh is under way (`LockInv`), that a refresh whose tab has gone is of a
family that is lost (`GhostOK`), and that nobody but the tab that signs in knows a session
that has just begun (`NewSession`). `ReplayInv`: what a tab presents is live, or of a
family that was lost or signed out; and so is the cookie, unless the one refresh that holds
the lock is about to replace it. The lock is what makes this inductive: a second refresh
at the server would find its token revoked by the first. Hence `OnlyTheLostAreReplayed`.
`OutInv`: of a family that was signed out while nothing of it was under way, refreshes find
a revoked token, and a sign-out that crosses nothing takes the very token of the
cookie along; hence `SignOutHolds`. `CleanInv`: a family of which nothing was lost, crossed
or signed out has one live token, the cookie's, or the one its refresh has made; hence
`TheNextRefreshSucceeds`. `RoomInv` shows that the bound on tokens never stops a rotation
half-way: whoever may still make a token has room for it.

The assumptions of the theorems are the named ASSUMEs of the modules, which TLC
evaluates on every run, for the three last event theorems `MayOverrun = FALSE`, for
`NotificationSending` `Prompt = TRUE`, and for `NobodyIsSentTwice` `StableTargets`.

Proved without being run, since they are parts of what is run or follow from the same
invariants: `CompletedNeverShrinks`, `DispatchesExclude`, `ClaimExcludes`,
`ReferencesAreRecordedOnce`, `NoOverpayment`, `InvoicesHaveNoGap`, `WalletIsSolvent`.

Only model-checked: liveness, the last property of each run that has one, since neither
fairness nor ENABLED is within the prover's reach. Every invariant, action property and
refinement that a run checks is a theorem too. Three of the proof modules hold more than
one component or a library, since theorems are kept in few modules.

What the properties of `Billing` leave open on purpose: `RenewalsExtend` speaks of
payments of one financial year, because settlements of different years take
different counter rows and nothing else keeps two renewals of one coaching apart;
and it allows an overlap after EXPIRED, because a renewal paid in time but settled
after the scan starts at its payment and loses the rest of the old period.

## Not modelled

Of billing: which plan and features were bought, yearly next to monthly cycles,
simulatePayment, the warnings 7, 3 and 1 days ahead and the events after the
commit; a coaching without a subscription row (registration always creates one).
Of auth: one-time codes and lockout counters, action tokens, the seven-day expiry,
browsers without Web Locks. Of the assistant: which intent a text has and what answers
say. Of tenancy: models without a coaching, relations that nested writes reach, the
translation of statements to SQL. Of class records: students, parents, homework,
notices, imports, the assignment of roles.
Also: payload encoding, message text, mappers, validation and plain reads; creation of
fee plans; the FEE_PAID event after the commit (lost when the process dies in
between, see the hazards). Attendance is one upsert in a transaction before an event;
the risk engine computes a score anew from rows of others; reminders are a scan that
publishes an event per installment and stage, whose keys `NotificationQueueing` has.
Reports, timeline and audit are queries and append-only logs. The web and mobile
clients, which are more than half of the repository, are user interfaces over the API;
their one protocol, the session, is `WebSessions`. `PROJECT.json` lists each with the
reason.

## Plan

1. done: `DomainEvents` / `EventDelivery`; `NotificationSending`;
   `NotificationQueueing`; `FeePayments` / `FeeLedger`; `Billing`; proofs about the
   events, the fees and billing.
2. done: `AiCredits` / `CreditAccount`; `WebSessions`; `WhatsAppAssistant`;
   `TenantIsolation`; `ClassRecords`; proofs about sending, credits, the assistant,
   tenancy and class records.
3. done: `NotificationQueueing` and `WebSessions` as theorems; sums, and with them
   `Balanced`, `Booked` and `ConsumedIsHeld`.
4. Invariants between components: the bus that runs queueing's handlers again, the
   settlement that fills the wallet of `AiCredits`.
5. One-time codes and lockout in `WebSessions`; reminders with time zones; attendance
   next to the enrolments of `ClassRecords`.
