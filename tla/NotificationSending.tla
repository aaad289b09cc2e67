------------------------- MODULE NotificationSending -------------------------
(***************************************************************************)
(* Sending one notification: its row in notification_history, the BullMQ   *)
(* jobs that try to send it (the one enqueueNotification adds and one per  *)
(* retryNotification of the owner), the provider that accepts or refuses   *)
(* each try, and the provider's delivery receipts.  The WhatsApp and the   *)
(* e-mail worker run the same code.  Notifications share no state here.    *)
(*                                                                         *)
(* Time is one fact per row, "aged": it has been SENDING for               *)
(* SENDING_CLAIM_STALE_MS (10 minutes).  With Prompt = TRUE the queue ends *)
(* a job within that time: its five attempts are 75 seconds apart in all.  *)
(***************************************************************************)
EXTENDS Naturals, Sequences, FiniteSets

CONSTANTS
  Notes,        \* idempotency keys of the notifications
  MaxRetries,   \* bound: times the owner retries one notification
  MaxAttempts,  \* attempts BullMQ gives a job
  MaxMessages,  \* bound: messages the provider accepts for one notification
  Prompt        \* do jobs end before a claim they hold grows stale?

ASSUME NotificationSendingAssumption ==
  /\ MaxRetries \in Nat
  /\ MaxAttempts \in Nat \ {0}
  /\ MaxMessages \in Nat
  /\ Prompt \in BOOLEAN

VARIABLES
  row,     \* row[n]: the notification_history row of n
  job,     \* job[n][k]: job 0 is the first one, job k the owner's k-th retry
  mail,    \* mail[n][i]: fate of the i-th message the provider accepted for n
  listed,  \* notes the owner has seen in the list of failed notifications
  doubt,   \* history: notes whose row does not know of an accepted message, or
           \* was taken from a job that was sending
  hurt     \* history: notes hit by a crash, a lost update or a lost job

vars == <<row, job, mail, listed, doubt, hurt>>

Jobs == 0..MaxRetries

Status == {"NONE", "QUEUED", "SENDING", "SENT", "DELIVERED", "READ", "FAILED"}

Row == [status: Status, aged: BOOLEAN, pid: Nat]

\* "resetting": retryNotification has reset the row and not yet added the job.
Pc == {"none", "resetting", "waiting", "sending", "accepted", "refused",
       "reportedSent", "reportedFailed", "ended"}

Job == [pc: Pc, tries: 0..(MaxAttempts - 1), stalled: BOOLEAN, msg: Nat]

Fate == {"out", "arrived", "lost"}

TypeOK ==
  /\ row \in [Notes -> Row]
  /\ job \in [Notes -> [Jobs -> Job]]
  /\ mail \in [Notes -> Seq(Fate)]
  /\ listed \in SUBSET Notes
  /\ doubt \in SUBSET Notes
  /\ hurt \in SUBSET Notes

NoJob == [pc |-> "none", tries |-> 0, stalled |-> FALSE, msg |-> 0]

EndedJob == [pc |-> "ended", tries |-> 0, stalled |-> FALSE, msg |-> 0]

Init ==
  /\ row = [n \in Notes |-> [status |-> "NONE", aged |-> FALSE, pid |-> 0]]
  /\ job = [n \in Notes |-> [k \in Jobs |-> NoJob]]
  /\ mail = [n \in Notes |-> <<>>]
  /\ listed = {}
  /\ doubt = {}
  /\ hurt = {}

-----------------------------------------------------------------------------
\* An UPDATE of the status refreshes updatedAt; providerMessageId stays.
SetStatus(n, s) ==
  row' = [row EXCEPT ![n] = [status |-> s, aged |-> FALSE, pid |-> @.pid]]

SetPc(n, k, p) == job' = [job EXCEPT ![n][k].pc = p]

\* The job now knows the id the provider gave its message, or has stored it.
SetMessage(n, k, p, i) ==
  job' = [job EXCEPT ![n][k] =
            [pc |-> p, tries |-> @.tries, stalled |-> @.stalled, msg |-> i]]

\* Jobs that hold, or believe they hold, the claim of n.
Senders(n) == {k \in Jobs : job[n][k].pc \in {"sending", "accepted", "refused"}}

\* Jobs that will still do something for n.
LiveJobs(n) == {k \in Jobs : job[n][k].pc \notin {"none", "ended"}}

-----------------------------------------------------------------------------
(* Queueing: createHistory and queue.add, in the detail that matters here. *)

Enqueue(n) ==
  /\ row[n].status = "NONE"
  /\ SetStatus(n, "QUEUED")
  /\ SetPc(n, 0, "waiting")
  /\ UNCHANGED <<mail, listed, doubt, hurt>>

\* Over the daily limit: a FAILED row without a job, the owner may retry it.
EnqueueOverLimit(n) ==
  /\ row[n].status = "NONE"
  /\ SetStatus(n, "FAILED")
  /\ UNCHANGED <<job, mail, listed, doubt, hurt>>

\* queue.add failed after the row was created.
EnqueueWithoutJob(n) ==
  /\ row[n].status = "NONE"
  /\ SetStatus(n, "QUEUED")
  /\ hurt' = hurt \cup {n}
  /\ UNCHANGED <<job, mail, listed, doubt>>

-----------------------------------------------------------------------------
(* The worker: processJob.                                                 *)

\* Mutant: a claim is taken over however fresh it is.
ClaimableAnyAge(n) == row[n].status \in {"QUEUED", "FAILED", "SENDING"}

\* The WHERE clause of claimForSending.
Claimable(n) ==
  \/ row[n].status \in {"QUEUED", "FAILED"}
  \/ row[n].status = "SENDING" /\ row[n].aged

\* claimForSending updated one row: this job sends.
Claim(n, k) ==
  /\ job[n][k].pc = "waiting"
  /\ Claimable(n)
  /\ SetStatus(n, "SENDING")
  /\ SetPc(n, k, "sending")
  /\ UNCHANGED <<mail, listed, doubt, hurt>>

\* claimForSending updated none: the job returns and counts as completed.
Skip(n, k) ==
  /\ job[n][k].pc = "waiting"
  /\ ~ Claimable(n)
  /\ job' = [job EXCEPT ![n][k] = EndedJob]
  /\ UNCHANGED <<row, mail, listed, doubt, hurt>>

ProviderAccepts(n, k) ==
  /\ job[n][k].pc = "sending"
  /\ Len(mail[n]) < MaxMessages
  /\ mail' = [mail EXCEPT ![n] = Append(@, "out")]
  /\ SetMessage(n, k, "accepted", Len(mail[n]) + 1)
  /\ UNCHANGED <<row, listed, doubt, hurt>>

\* The adapters never throw: an error is a FAILED result.
ProviderRefuses(n, k) ==
  /\ job[n][k].pc = "sending"
  /\ SetPc(n, k, "refused")
  /\ UNCHANGED <<row, mail, listed, doubt, hurt>>

\* The provider accepts, but its answer is lost: a FAILED result as well.
AnswerLost(n, k) ==
  /\ job[n][k].pc = "sending"
  /\ Len(mail[n]) < MaxMessages
  /\ mail' = [mail EXCEPT ![n] = Append(@, "out")]
  /\ SetPc(n, k, "refused")
  /\ doubt' = doubt \cup {n}
  /\ UNCHANGED <<row, listed, hurt>>

\* updateStatus(SENT) with the provider's id.
RecordSent(n, k) ==
  /\ job[n][k].pc = "accepted"
  /\ row' = [row EXCEPT ![n] =
               [status |-> "SENT", aged |-> FALSE, pid |-> job[n][k].msg]]
  /\ SetMessage(n, k, "reportedSent", 0)
  /\ UNCHANGED <<mail, listed, doubt, hurt>>

\* Mutant: the job throws before it has updated the row.
RecordFailedThrowsFirst(n, k) ==
  /\ job[n][k].pc = "refused"
  /\ SetPc(n, k, "reportedFailed")
  /\ UNCHANGED <<row, mail, listed, doubt, hurt>>

\* updateStatus(FAILED).
RecordFailed(n, k) ==
  /\ job[n][k].pc = "refused"
  /\ SetStatus(n, "FAILED")
  /\ SetPc(n, k, "reportedFailed")
  /\ UNCHANGED <<mail, listed, doubt, hurt>>

\* BullMQ retries a job that threw until its attempts are used up.
AfterThrow(j) ==
  IF j.tries + 1 < MaxAttempts
  THEN [pc |-> "waiting", tries |-> j.tries + 1, stalled |-> j.stalled, msg |-> 0]
  ELSE EndedJob

\* BullMQ finds the job of a dead worker stalled and queues it again, once.
AfterStall(j) ==
  IF j.stalled THEN EndedJob
  ELSE [pc |-> "waiting", tries |-> j.tries, stalled |-> TRUE, msg |-> 0]

\* The event is published; then the job returns, or throws after a failure.
Finish(n, k) ==
  /\ \/ /\ job[n][k].pc = "reportedSent"
        /\ job' = [job EXCEPT ![n][k] = EndedJob]
     \/ /\ job[n][k].pc = "reportedFailed"
        /\ job' = [job EXCEPT ![n][k] = AfterThrow(@)]
  /\ UNCHANGED <<row, mail, listed, doubt, hurt>>

\* updateStatus itself throws: so does the job, and the row stays SENDING.
RecordingThrows(n, k) ==
  /\ job[n][k].pc \in {"accepted", "refused"}
  /\ job' = [job EXCEPT ![n][k] = AfterThrow(@)]
  /\ doubt' = IF job[n][k].pc = "accepted" THEN doubt \cup {n} ELSE doubt
  /\ hurt' = hurt \cup {n}
  /\ UNCHANGED <<row, mail, listed>>

\* The worker dies at any point of processJob.
WorkerCrashes(n, k) ==
  /\ job[n][k].pc \in {"sending", "accepted", "refused",
                       "reportedSent", "reportedFailed"}
  /\ job' = [job EXCEPT ![n][k] = AfterStall(@)]
  /\ \/ /\ doubt' = IF job[n][k].pc = "accepted" THEN doubt \cup {n} ELSE doubt
        /\ UNCHANGED mail
     \/ /\ Len(mail[n]) < MaxMessages
        /\ job[n][k].pc = "sending"  \* the request had reached the provider
        /\ mail' = [mail EXCEPT ![n] = Append(@, "out")]
        /\ doubt' = doubt \cup {n}
  /\ hurt' = hurt \cup {n}
  /\ UNCHANGED <<row, listed>>

ClaimAges(n) ==
  /\ row[n].status = "SENDING"
  /\ ~ row[n].aged
  /\ Prompt => LiveJobs(n) = {}
  /\ row' = [row EXCEPT ![n] = [status |-> "SENDING", aged |-> TRUE, pid |-> @.pid]]
  /\ UNCHANGED <<job, mail, listed, doubt, hurt>>

-----------------------------------------------------------------------------
(* The owner: findFailed, and retryNotification of something once listed.  *)

ListFailed(n) ==
  /\ row[n].status = "FAILED"
  /\ n \notin listed
  /\ listed' = listed \cup {n}
  /\ UNCHANGED <<row, job, mail, doubt, hurt>>

\* The row becomes QUEUED again whatever its status is by now.
RetryResets(n, k) ==
  /\ n \in listed
  /\ k # 0
  /\ job[n][k].pc = "none"
  /\ \A l \in 1..(k - 1) : job[n][l].pc # "none"
  /\ SetStatus(n, "QUEUED")
  /\ SetPc(n, k, "resetting")
  /\ doubt' = IF row[n].status = "FAILED" THEN doubt ELSE doubt \cup {n}
  /\ UNCHANGED <<mail, listed, hurt>>

RetryAddsJob(n, k) ==
  /\ job[n][k].pc = "resetting"
  /\ SetPc(n, k, "waiting")
  /\ UNCHANGED <<row, mail, listed, doubt, hurt>>

RetryLosesJob(n, k) ==
  /\ job[n][k].pc = "resetting"
  /\ job' = [job EXCEPT ![n][k] = EndedJob]
  /\ hurt' = hurt \cup {n}
  /\ UNCHANGED <<row, mail, listed, doubt>>

-----------------------------------------------------------------------------
(* The provider: fates of accepted messages and their receipts, which may  *)
(* come late, twice, or in any order.                                      *)

MessageEnds(n, i) ==
  /\ mail[n][i] = "out"
  /\ \E fate \in {"arrived", "lost"} : mail' = [mail EXCEPT ![n][i] = fate]
  /\ UNCHANGED <<row, job, listed, doubt, hurt>>

ReceiptsOf(fate) == IF fate = "arrived" THEN {"DELIVERED", "READ"}
                    ELSE IF fate = "lost" THEN {"FAILED"} ELSE {}

\* Mutant: the receipt is applied to the notification, whichever message of it.
ReceiptAnyMessage(n, i) ==
  /\ row[n].pid # 0
  /\ \E s \in ReceiptsOf(mail[n][i]) : SetStatus(n, s)
  /\ doubt' = IF row[n].status = "SENDING" THEN doubt \cup {n} ELSE doubt
  /\ UNCHANGED <<job, mail, listed, hurt>>

\* handleWebhookStatus: the row that has this providerMessageId takes the
\* status; a receipt that no row knows is dropped (it changes nothing).
Receipt(n, i) ==
  /\ row[n].pid = i
  /\ \E s \in ReceiptsOf(mail[n][i]) : SetStatus(n, s)
  /\ doubt' = IF row[n].status = "SENDING" THEN doubt \cup {n} ELSE doubt
  /\ UNCHANGED <<job, mail, listed, hurt>>

-----------------------------------------------------------------------------
Work(n, k) ==
  \/ Claim(n, k) \/ Skip(n, k)
  \/ ProviderAccepts(n, k) \/ ProviderRefuses(n, k) \/ AnswerLost(n, k)
  \/ RecordSent(n, k) \/ RecordFailed(n, k) \/ Finish(n, k)
  \/ RetryAddsJob(n, k)

Fault(n, k) == RecordingThrows(n, k) \/ WorkerCrashes(n, k) \/ RetryLosesJob(n, k)

Next ==
  \E n \in Notes :
    \/ Enqueue(n) \/ EnqueueOverLimit(n) \/ EnqueueWithoutJob(n)
    \/ \E k \in Jobs : Work(n, k) \/ Fault(n, k) \/ RetryResets(n, k)
    \/ ClaimAges(n) \/ ListFailed(n)
    \/ \E i \in DOMAIN mail[n] : MessageEnds(n, i) \/ Receipt(n, i)

Spec == Init /\ [][Next]_vars

\* BullMQ hands every waiting job to a worker, a send ends with some answer,
\* and the clock advances.  Owners and providers' receipts need not act.
FairSpec ==
  /\ Spec
  /\ \A n \in Notes : WF_vars(ClaimAges(n)) /\ \A k \in Jobs : WF_vars(Work(n, k))

-----------------------------------------------------------------------------
(* Properties.                                                             *)

\* Two jobs never send the same notification at once, unless the owner's retry
\* or a receipt of an older message took the claim from a job that was sending.
OneSender == \A n \in Notes \ doubt : Cardinality(Senders(n)) <= 1

\* The recipient gets a notification once: of the messages the provider took,
\* all but one were lost, unless the row could not know of one of them.
DeliveredOnce ==
  \A n \in Notes \ doubt :
    Cardinality({i \in DOMAIN mail[n] : mail[n][i] # "lost"}) <= 1

\* What the row says of the message is so: FAILED means that nobody got it (but
\* for the doubtful cases), DELIVERED and READ that the message named arrived,
\* SENT that the provider accepted it.
StatusIsTrue ==
  \A n \in Notes :
    /\ row[n].status = "FAILED" /\ n \notin doubt =>
         \A i \in DOMAIN mail[n] : mail[n][i] = "lost"
    /\ row[n].status \in {"SENT", "DELIVERED", "READ"} => row[n].pid \in DOMAIN mail[n]
    /\ row[n].status \in {"DELIVERED", "READ"} => mail[n][row[n].pid] = "arrived"

\* Every queued notification is settled in the end, with the same exception.
EventuallySettled ==
  \A n \in Notes :
    row[n].status = "QUEUED" ~>
      row[n].status \in {"SENT", "DELIVERED", "READ", "FAILED"} \/ n \in hurt
=============================================================================
