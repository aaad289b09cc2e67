------------------------- MODULE NotificationProofs -------------------------
(***************************************************************************)
(* Proofs about NotificationSending and NotificationQueueing.              *)
(*                                                                         *)
(* Sending: what is true of a notification in progress for any notes,      *)
(* retries, attempts and messages, as long as jobs end before their claims *)
(* are stale.  Queueing: the daily limit, the rows and the jobs of any     *)
(* requests to any people.                                                 *)
(***************************************************************************)
EXTENDS NotificationSending, NotificationQueueing, FiniteSetTheorems, TLAPS

-----------------------------------------------------------------------------
(* NotificationSending.                                                    *)

Sending == {"sending", "accepted", "refused"}
Known == {"SENT", "DELIVERED", "READ"}

-----------------------------------------------------------------------------
(* Types.                                                                    *)

LEMMA ThrownIsJob ==
  ASSUME NEW j \in Job
  PROVE  /\ AfterThrow(j) \in Job
         /\ AfterThrow(j).pc \in {"waiting", "ended"}
BY NotificationSendingAssumption DEF AfterThrow, EndedJob, NoJob, Job, Pc

LEMMA StalledIsJob ==
  ASSUME NEW j \in Job
  PROVE  /\ AfterStall(j) \in Job
         /\ AfterStall(j).pc \in {"waiting", "ended"}
BY NotificationSendingAssumption DEF AfterStall, EndedJob, NoJob, Job, Pc

LEMMA EndedIsJob == EndedJob \in Job /\ EndedJob.pc = "ended"
BY NotificationSendingAssumption DEF EndedJob, NoJob, Job, Pc

\* One job of one note is replaced.
LEMMA JobUpdate ==
  ASSUME TypeOK, NEW n \in Notes, NEW k \in Jobs, NEW j \in Job,
         job' = [job EXCEPT ![n][k] = j]
  PROVE  /\ job' \in [Notes -> [Jobs -> Job]]
         /\ job'[n][k] = j
         /\ \A l \in Jobs \ {k} : job'[n][l] = job[n][l]
         /\ \A m \in Notes \ {n} : job'[m] = job[m]
BY DEF TypeOK

LEMMA PcUpdate ==
  ASSUME TypeOK, NEW n \in Notes, NEW k \in Jobs, NEW p \in Pc, SetPc(n, k, p)
  PROVE  /\ job' \in [Notes -> [Jobs -> Job]]
         /\ job'[n][k].pc = p /\ job'[n][k].msg = job[n][k].msg
         /\ \A l \in Jobs \ {k} : job'[n][l] = job[n][l]
         /\ \A m \in Notes \ {n} : job'[m] = job[m]
<1> DEFINE j == [pc |-> p, tries |-> job[n][k].tries, stalled |-> job[n][k].stalled,
                 msg |-> job[n][k].msg]
<1>1. job[n] \in [Jobs -> Job] /\ job[n][k] \in Job
  BY DEF TypeOK
<1>2. j \in Job
  BY <1>1 DEF Job
<1>3. [job[n][k] EXCEPT !.pc = p] = j
  BY <1>1 DEF Job
<1>4. job' = [job EXCEPT ![n][k] = j]
  BY <1>3 DEF SetPc
<1>5. QED
  <2> HIDE DEF j
  <2>1. j.pc = p /\ j.msg = job[n][k].msg
    BY DEF j
  <2>2. /\ job' \in [Notes -> [Jobs -> Job]] /\ job'[n][k] = j
        /\ \A l \in Jobs \ {k} : job'[n][l] = job[n][l]
        /\ \A m \in Notes \ {n} : job'[m] = job[m]
    BY <1>2, <1>4 DEF TypeOK
  <2>3. QED
    BY <2>1, <2>2

LEMMA StatusUpdate ==
  ASSUME TypeOK, NEW n \in Notes, NEW s \in Status, SetStatus(n, s)
  PROVE  /\ row' \in [Notes -> Row]
         /\ row'[n] = [status |-> s, aged |-> FALSE, pid |-> row[n].pid]
         /\ \A m \in Notes \ {n} : row'[m] = row[m]
BY DEF TypeOK, SetStatus, Row

LEMMA MessageUpdate ==
  ASSUME TypeOK, NEW n \in Notes, NEW k \in Jobs, NEW p \in Pc, NEW i \in Nat,
         SetMessage(n, k, p, i)
  PROVE  /\ job' \in [Notes -> [Jobs -> Job]]
         /\ job'[n][k].pc = p /\ job'[n][k].msg = i
         /\ \A l \in Jobs \ {k} : job'[n][l] = job[n][l]
         /\ \A m \in Notes \ {n} : job'[m] = job[m]
<1> DEFINE j == [pc |-> p, tries |-> job[n][k].tries, stalled |-> job[n][k].stalled,
                 msg |-> i]
<1>1. job[n][k] \in Job
  BY DEF TypeOK
<1>2. j \in Job /\ j.pc = p /\ j.msg = i
  BY <1>1 DEF Job
<1>3. job' = [job EXCEPT ![n][k] = j]
  BY DEF SetMessage
<1>4. QED
  <2> HIDE DEF j
  <2>1. /\ job' \in [Notes -> [Jobs -> Job]] /\ job'[n][k] = j
        /\ \A l \in Jobs \ {k} : job'[n][l] = job[n][l]
        /\ \A m \in Notes \ {n} : job'[m] = job[m]
    BY <1>2, <1>3 DEF TypeOK
  <2>2. QED
    BY <1>2, <2>1

LEMMA MailUpdate ==
  ASSUME TypeOK, NEW n \in Notes, mail' = [mail EXCEPT ![n] = Append(@, "out")]
  PROVE  /\ mail' \in [Notes -> Seq(Fate)]
         /\ mail'[n] = Append(mail[n], "out")
         /\ Len(mail'[n]) = Len(mail[n]) + 1
         /\ \A i \in 1..Len(mail[n]) : mail'[n][i] = mail[n][i]
         /\ \A m \in Notes \ {n} : mail'[m] = mail[m]
<1>1. mail[n] \in Seq(Fate) /\ "out" \in Fate
  BY DEF TypeOK, Fate
<1>2. QED
  BY <1>1 DEF TypeOK

-----------------------------------------------------------------------------
(* What a job, a row and the provider's messages of one note have to do with *)
(* each other.                                                               *)

MessagesExist(n) ==
  \A k \in Jobs : job[n][k].pc = "accepted" => job[n][k].msg \in 1..Len(mail[n])

\* A claim grows stale only when no job is left.
AgedIsIdle(n) ==
  row[n].aged => /\ row[n].status = "SENDING"
                 /\ \A k \in Jobs : job[n][k].pc \in {"none", "ended"}

RowIsTrue(n) ==
  /\ row[n].status \in Known => row[n].pid \in 1..Len(mail[n])
  /\ row[n].status \in {"DELIVERED", "READ"} => mail[n][row[n].pid] = "arrived"

\* The one job past the claim has the row to itself.
Claimed(n) ==
  \A k \in Senders(n) : row[n].status = "SENDING" /\ \A l \in Senders(n) : l = k

\* A message that was not lost is the one the row names or is about to name.
Named(n, i) ==
  \/ \E k \in Jobs : job[n][k].pc = "accepted" /\ job[n][k].msg = i
  \/ row[n].status \in Known /\ row[n].pid = i

OthersLost(n) == \A i \in 1..Len(mail[n]) : mail[n][i] = "lost" \/ Named(n, i)

Good(n) ==
  /\ MessagesExist(n) /\ AgedIsIdle(n) /\ RowIsTrue(n)
  /\ n \notin doubt => Claimed(n) /\ OthersLost(n)

IInv == TypeOK /\ \A n \in Notes : Good(n)

\* A note to which nothing happens stays good.
LEMMA Frame ==
  ASSUME NEW n \in Notes, Good(n), row'[n] = row[n], job'[n] = job[n],
         mail'[n] = mail[n], n \in doubt => n \in doubt'
  PROVE  Good(n)'
BY DEF Good, MessagesExist, AgedIsIdle, RowIsTrue, Claimed, OthersLost, Named, Senders

\* A live job stops, or waits again, and nobody else does anything.
LEMMA JobLeaves ==
  ASSUME TypeOK, NEW n \in Notes, NEW k \in Jobs, Good(n),
         job[n][k].pc \notin {"none", "ended"},
         job'[n][k].pc \notin Sending,
         \A l \in Jobs \ {k} : job'[n][l] = job[n][l],
         row'[n] = row[n], mail'[n] = mail[n], n \in doubt => n \in doubt',
         job[n][k].pc = "accepted" => n \in doubt'
  PROVE  Good(n)'
<1>1. MessagesExist(n)' /\ AgedIsIdle(n)' /\ RowIsTrue(n)'
  BY DEF Good, MessagesExist, AgedIsIdle, RowIsTrue, Sending
<1>2. ASSUME n \notin doubt'
      PROVE  Claimed(n)' /\ OthersLost(n)'
  <2>1. Claimed(n)
    BY <1>2 DEF Good
  <2>2. Senders(n)' \subseteq Senders(n)
    BY DEF Senders, Sending
  <2>3. \A i : Named(n, i) => Named(n, i)'
    BY <1>2 DEF Named
  <2>4. OthersLost(n)
    BY <1>2 DEF Good
  <2>5. Claimed(n)'
    BY <2>1, <2>2 DEF Claimed
  <2>6. OthersLost(n)'
    BY <2>3, <2>4 DEF OthersLost
  <2>7. QED
    BY <2>5, <2>6
<1>3. QED
  BY <1>1, <1>2 DEF Good

\* The row gets another status while no job is past the claim, or goes into doubt.
LEMMA RowChanges ==
  ASSUME TypeOK, NEW n \in Notes, Good(n), NEW s \in {"QUEUED", "FAILED"},
         row'[n] = [status |-> s, aged |-> FALSE, pid |-> row[n].pid],
         \A k \in Jobs : job'[n][k].pc \in Sending => job'[n][k] = job[n][k],
         mail'[n] = mail[n], n \in doubt => n \in doubt',
         n \notin doubt' => /\ row[n].status # "SENDING"
                            /\ \A i \in 1..Len(mail[n]) : mail[n][i] = "lost"
  PROVE  Good(n)'
<1>1. MessagesExist(n)' /\ AgedIsIdle(n)' /\ RowIsTrue(n)'
  BY DEF Good, MessagesExist, AgedIsIdle, RowIsTrue, Sending, Known
<1>2. ASSUME n \notin doubt'
      PROVE  Claimed(n)' /\ OthersLost(n)'
  <2>1. Senders(n) = {}
    BY <1>2 DEF Good, Claimed
  <2>2. Senders(n)' = {}
    BY <2>1 DEF Senders, Sending
  <2>3. QED
    BY <1>2, <2>2 DEF Claimed, OthersLost
<1>3. QED
  BY <1>1, <1>2 DEF Good

-----------------------------------------------------------------------------
(* One lemma per action: the note it is about keeps its types and stays good.*)

\* Only the note n is touched.
Elsewhere(n) ==
  /\ \A m \in Notes \ {n} : row'[m] = row[m] /\ job'[m] = job[m] /\ mail'[m] = mail[m]
  /\ \A m \in Notes \ {n} : m \in doubt => m \in doubt'

\* In a row that no job has claimed and nobody doubts, all messages are lost.
LEMMA UnclaimedIsLost ==
  ASSUME NEW n \in Notes, Good(n), n \notin doubt, row[n].status \notin Known,
         \A k \in Jobs : job[n][k].pc # "accepted"
  PROVE  \A i \in 1..Len(mail[n]) : mail[n][i] = "lost"
BY DEF Good, OthersLost, Named

LEMMA SettledIsLost ==
  ASSUME NEW n \in Notes, Good(n), n \notin doubt,
         row[n].status \in {"NONE", "QUEUED", "FAILED"}
  PROVE  /\ Senders(n) = {}
         /\ \A i \in 1..Len(mail[n]) : mail[n][i] = "lost"
<1>1. Senders(n) = {}
  BY DEF Good, Claimed
<1>2. \A k \in Jobs : job[n][k].pc # "accepted"
  BY <1>1 DEF Senders
<1>3. QED
  BY <1>1, <1>2, UnclaimedIsLost DEF Known

LEMMA StepEnqueue ==
  ASSUME TypeOK, NEW n \in Notes, Good(n),
         Enqueue(n) \/ EnqueueOverLimit(n) \/ EnqueueWithoutJob(n)
  PROVE  TypeOK' /\ Good(n)' /\ Elsewhere(n)
<1> USE DEF Elsewhere
<1>0. n \notin doubt => \A i \in 1..Len(mail[n]) : mail[n][i] = "lost"
  BY SettledIsLost DEF Enqueue, EnqueueOverLimit, EnqueueWithoutJob
<1>1. CASE Enqueue(n)
  <2>1. 0 \in Jobs /\ "waiting" \in Pc /\ "QUEUED" \in Status
    BY NotificationSendingAssumption DEF Jobs, Pc, Status
  <2>2. TypeOK' /\ Elsewhere(n)
    <3>1. /\ SetStatus(n, "QUEUED") /\ SetPc(n, 0, "waiting")
          /\ UNCHANGED <<mail, listed, doubt, hurt>>
      BY <1>1 DEF Enqueue
    <3>2. row' \in [Notes -> Row] /\ \A m \in Notes \ {n} : row'[m] = row[m]
      BY <2>1, <3>1, StatusUpdate
    <3>3. job' \in [Notes -> [Jobs -> Job]] /\ \A m \in Notes \ {n} : job'[m] = job[m]
      BY <2>1, <3>1, PcUpdate
    <3>4. QED
      BY <3>1, <3>2, <3>3 DEF TypeOK
  <2>3. /\ row'[n] = [status |-> "QUEUED", aged |-> FALSE, pid |-> row[n].pid]
        /\ job'[n][0].pc = "waiting" /\ \A l \in Jobs \ {0} : job'[n][l] = job[n][l]
    BY <1>1, <2>1, PcUpdate, StatusUpdate DEF Enqueue
  <2>4. \A k \in Jobs : job'[n][k].pc \in Sending => job'[n][k] = job[n][k]
    BY <2>3 DEF Sending
  <2>5. Good(n)'
    BY <1>0, <1>1, <2>3, <2>4, RowChanges DEF Enqueue
  <2>6. QED
    BY <2>2, <2>5
<1>2. CASE EnqueueOverLimit(n)
  <2>1. "FAILED" \in Status
    BY DEF Status
  <2>2. TypeOK' /\ Elsewhere(n)
    BY <1>2, <2>1, StatusUpdate DEF EnqueueOverLimit, TypeOK
  <2>3. row'[n] = [status |-> "FAILED", aged |-> FALSE, pid |-> row[n].pid]
    BY <1>2, <2>1, StatusUpdate DEF EnqueueOverLimit
  <2>4. Good(n)'
    BY <1>0, <1>2, <2>3, RowChanges DEF EnqueueOverLimit
  <2>5. QED
    BY <2>2, <2>4
<1>3. CASE EnqueueWithoutJob(n)
  <2>1. "QUEUED" \in Status
    BY DEF Status
  <2>2. TypeOK' /\ Elsewhere(n)
    BY <1>3, <2>1, StatusUpdate DEF EnqueueWithoutJob, TypeOK
  <2>3. row'[n] = [status |-> "QUEUED", aged |-> FALSE, pid |-> row[n].pid]
    BY <1>3, <2>1, StatusUpdate DEF EnqueueWithoutJob
  <2>4. Good(n)'
    BY <1>0, <1>3, <2>3, RowChanges DEF EnqueueWithoutJob
  <2>5. QED
    BY <2>2, <2>4
<1>4. QED
  BY <1>1, <1>2, <1>3

\* Skip, Finish, RetryAddsJob, RetryLosesJob, RecordingThrows: the job moves on
\* without the row.
LEMMA StepJobOnly ==
  ASSUME TypeOK, NEW n \in Notes, Good(n), NEW k \in Jobs, NEW j \in Job,
         job' = [job EXCEPT ![n][k] = j], j.pc \in {"waiting", "ended"},
         job[n][k].pc \notin {"none", "ended"},
         job[n][k].pc = "accepted" => n \in doubt',
         UNCHANGED <<row, mail, listed>>,
         doubt' \in {doubt, doubt \cup {n}}, hurt' \in {hurt, hurt \cup {n}}
  PROVE  TypeOK' /\ Good(n)' /\ Elsewhere(n)
<1>1. TypeOK' /\ Elsewhere(n)
  <2>1. job' \in [Notes -> [Jobs -> Job]] /\ \A m \in Notes \ {n} : job'[m] = job[m]
    BY DEF TypeOK
  <2>2. QED
    BY <2>1 DEF TypeOK, Elsewhere
<1>2. job'[n][k] = j /\ \A l \in Jobs \ {k} : job'[n][l] = job[n][l]
  BY DEF TypeOK
<1>3. Good(n)'
  BY <1>2, JobLeaves DEF Sending
<1>4. QED
  BY <1>1, <1>3

LEMMA StepWithoutRow ==
  ASSUME TypeOK, NEW n \in Notes, Good(n), NEW k \in Jobs,
         \/ Skip(n, k) \/ Finish(n, k) \/ RetryLosesJob(n, k) \/ RecordingThrows(n, k)
         \/ WorkerCrashes(n, k) /\ UNCHANGED mail
  PROVE  TypeOK' /\ Good(n)' /\ Elsewhere(n)
<1>0. job[n][k] \in Job
  BY DEF TypeOK
<1>1. CASE Skip(n, k)
  BY <1>1, EndedIsJob, StepJobOnly DEF Skip
<1>2. CASE Finish(n, k)
  <2>1. PICK j \in {EndedJob, AfterThrow(job[n][k])} : job' = [job EXCEPT ![n][k] = j]
    BY <1>2 DEF Finish
  <2>2. j \in Job /\ j.pc \in {"waiting", "ended"}
    BY <1>0, <2>1, EndedIsJob, ThrownIsJob
  <2>3. job[n][k].pc \in {"reportedSent", "reportedFailed"}
    BY <1>2 DEF Finish
  <2>4. UNCHANGED <<row, mail, listed, doubt, hurt>>
    BY <1>2 DEF Finish
  <2>5. QED
    BY <2>1, <2>2, <2>3, <2>4, StepJobOnly
<1>3. CASE RetryLosesJob(n, k)
  BY <1>3, EndedIsJob, StepJobOnly DEF RetryLosesJob
<1>4. CASE RecordingThrows(n, k)
  <2>1. AfterThrow(job[n][k]) \in Job /\ AfterThrow(job[n][k]).pc \in {"waiting", "ended"}
    BY <1>0, ThrownIsJob
  <2>2. job' = [job EXCEPT ![n][k] = AfterThrow(job[n][k])]
    BY <1>4 DEF RecordingThrows
  <2>3. QED
    BY <1>4, <2>1, <2>2, StepJobOnly DEF RecordingThrows
<1>5. CASE WorkerCrashes(n, k) /\ UNCHANGED mail
  <2>1. AfterStall(job[n][k]) \in Job /\ AfterStall(job[n][k]).pc \in {"waiting", "ended"}
    BY <1>0, StalledIsJob
  <2>2. job' = [job EXCEPT ![n][k] = AfterStall(job[n][k])]
    BY <1>5 DEF WorkerCrashes
  <2>3. /\ doubt' \in {doubt, doubt \cup {n}}
        /\ job[n][k].pc = "accepted" => n \in doubt'
    BY <1>5 DEF WorkerCrashes
  <2>4. QED
    BY <1>5, <2>1, <2>2, <2>3, StepJobOnly DEF WorkerCrashes
<1>6. QED
  BY <1>1, <1>2, <1>3, <1>4, <1>5

LEMMA StepRetryAddsJob ==
  ASSUME TypeOK, NEW n \in Notes, Good(n), NEW k \in Jobs, RetryAddsJob(n, k)
  PROVE  TypeOK' /\ Good(n)' /\ Elsewhere(n)
<1>1. "waiting" \in Pc
  BY DEF Pc
<1>2. TypeOK' /\ Elsewhere(n)
  BY <1>1, PcUpdate DEF RetryAddsJob, TypeOK, Elsewhere
<1>3. job'[n][k].pc = "waiting" /\ \A l \in Jobs \ {k} : job'[n][l] = job[n][l]
  BY <1>1, PcUpdate DEF RetryAddsJob
<1>4. Good(n)'
  BY <1>3, JobLeaves DEF RetryAddsJob, Sending
<1>5. QED
  BY <1>2, <1>4

LEMMA StepRetryResets ==
  ASSUME TypeOK, NEW n \in Notes, Good(n), NEW k \in Jobs, RetryResets(n, k)
  PROVE  TypeOK' /\ Good(n)' /\ Elsewhere(n)
<1>1. "resetting" \in Pc /\ "QUEUED" \in Status
  BY DEF Pc, Status
<1>2. TypeOK' /\ Elsewhere(n)
  BY <1>1, PcUpdate, StatusUpdate DEF RetryResets, TypeOK, Elsewhere
<1>3. /\ row'[n] = [status |-> "QUEUED", aged |-> FALSE, pid |-> row[n].pid]
      /\ job'[n][k].pc = "resetting" /\ \A l \in Jobs \ {k} : job'[n][l] = job[n][l]
  BY <1>1, PcUpdate, StatusUpdate DEF RetryResets
<1>4. \A l \in Jobs : job'[n][l].pc \in Sending => job'[n][l] = job[n][l]
  BY <1>3 DEF Sending
<1>5. n \notin doubt' => /\ n \notin doubt /\ row[n].status = "FAILED"
  BY DEF RetryResets
<1>6. n \notin doubt' => \A i \in 1..Len(mail[n]) : mail[n][i] = "lost"
  BY <1>5, SettledIsLost
<1>7. mail'[n] = mail[n] /\ (n \in doubt => n \in doubt')
  BY DEF RetryResets
<1>8. Good(n)'
  BY <1>3, <1>4, <1>5, <1>6, <1>7, RowChanges
<1>9. QED
  BY <1>2, <1>8

\* A claim is granted on a row that no other job has claimed: a stale claim has
\* outlived all jobs, this one included.
LEMMA StepClaim ==
  ASSUME TypeOK, NEW n \in Notes, Good(n), NEW k \in Jobs, Claim(n, k)
  PROVE  TypeOK' /\ Good(n)' /\ Elsewhere(n)
<1>1. "sending" \in Pc /\ "SENDING" \in Status
  BY DEF Pc, Status
<1>2. TypeOK' /\ Elsewhere(n)
  <2>1. /\ SetStatus(n, "SENDING") /\ SetPc(n, k, "sending")
        /\ UNCHANGED <<mail, listed, doubt, hurt>>
    BY DEF Claim
  <2>2. row' \in [Notes -> Row] /\ \A m \in Notes \ {n} : row'[m] = row[m]
    BY <1>1, <2>1, StatusUpdate
  <2>3. job' \in [Notes -> [Jobs -> Job]] /\ \A m \in Notes \ {n} : job'[m] = job[m]
    BY <1>1, <2>1, PcUpdate
  <2>4. QED
    BY <2>1, <2>2, <2>3 DEF TypeOK, Elsewhere
<1>3. /\ row'[n] = [status |-> "SENDING", aged |-> FALSE, pid |-> row[n].pid]
      /\ job'[n][k].pc = "sending" /\ \A l \in Jobs \ {k} : job'[n][l] = job[n][l]
      /\ job[n][k].pc = "waiting" /\ mail' = mail /\ doubt' = doubt
  BY <1>1, PcUpdate, StatusUpdate DEF Claim
<1>4. row[n].status \in {"QUEUED", "FAILED"}
  BY DEF Claim, Claimable, Good, AgedIsIdle
<1>5. MessagesExist(n)' /\ AgedIsIdle(n)' /\ RowIsTrue(n)'
  BY <1>3 DEF Good, MessagesExist, AgedIsIdle, RowIsTrue, Known
<1>6. ASSUME n \notin doubt'
      PROVE  Claimed(n)' /\ OthersLost(n)'
  <2>1. Senders(n) = {} /\ \A i \in 1..Len(mail[n]) : mail[n][i] = "lost"
    BY <1>3, <1>4, <1>6, SettledIsLost
  <2>2. Senders(n)' = {k}
    BY <1>3, <2>1 DEF Senders
  <2>3. QED
    BY <1>3, <2>1, <2>2 DEF Claimed, OthersLost
<1>7. QED
  BY <1>2, <1>5, <1>6 DEF Good

\* The claiming job learns that the provider took its message, or did not.
LEMMA StepProviderAccepts ==
  ASSUME TypeOK, NEW n \in Notes, Good(n), NEW k \in Jobs, ProviderAccepts(n, k)
  PROVE  TypeOK' /\ Good(n)' /\ Elsewhere(n)
<1>0. mail[n] \in Seq(Fate) /\ Len(mail[n]) \in Nat
  BY DEF TypeOK
<1>1. "accepted" \in Pc /\ Len(mail[n]) + 1 \in Nat
  BY <1>0 DEF Pc
<1>2. TypeOK' /\ Elsewhere(n)
  <2>1. /\ mail' = [mail EXCEPT ![n] = Append(@, "out")]
        /\ SetMessage(n, k, "accepted", Len(mail[n]) + 1)
        /\ UNCHANGED <<row, listed, doubt, hurt>>
    BY DEF ProviderAccepts
  <2>2. mail' \in [Notes -> Seq(Fate)] /\ \A m \in Notes \ {n} : mail'[m] = mail[m]
    BY <2>1, MailUpdate
  <2>3. job' \in [Notes -> [Jobs -> Job]] /\ \A m \in Notes \ {n} : job'[m] = job[m]
    BY <1>1, <2>1, MessageUpdate
  <2>4. QED
    BY <2>1, <2>2, <2>3 DEF TypeOK, Elsewhere
<1>3. /\ job'[n][k].pc = "accepted" /\ job'[n][k].msg = Len(mail[n]) + 1
      /\ \A l \in Jobs \ {k} : job'[n][l] = job[n][l]
      /\ Len(mail'[n]) = Len(mail[n]) + 1
      /\ \A i \in 1..Len(mail[n]) : mail'[n][i] = mail[n][i]
  <2>1. SetMessage(n, k, "accepted", Len(mail[n]) + 1)
    BY DEF ProviderAccepts
  <2>2. mail' = [mail EXCEPT ![n] = Append(@, "out")]
    BY DEF ProviderAccepts
  <2>3. /\ job'[n][k].pc = "accepted" /\ job'[n][k].msg = Len(mail[n]) + 1
        /\ \A l \in Jobs \ {k} : job'[n][l] = job[n][l]
    BY <1>1, <2>1, MessageUpdate
  <2>4. QED
    BY <2>2, <2>3, MailUpdate
<1>4. job[n][k].pc = "sending" /\ row' = row /\ doubt' = doubt
  BY DEF ProviderAccepts
<1>5. MessagesExist(n)' /\ AgedIsIdle(n)' /\ RowIsTrue(n)'
  <2>1. MessagesExist(n)'
    BY <1>0, <1>3 DEF Good, MessagesExist
  <2>2. AgedIsIdle(n)'
    BY <1>3, <1>4 DEF Good, AgedIsIdle
  <2>3. RowIsTrue(n)'
    BY <1>0, <1>3, <1>4 DEF Good, RowIsTrue, Known
  <2>4. QED
    BY <2>1, <2>2, <2>3
<1>6. ASSUME n \notin doubt'
      PROVE  Claimed(n)' /\ OthersLost(n)'
  <2>1. Claimed(n) /\ k \in Senders(n)
    BY <1>4, <1>6 DEF Good, Senders
  <2>2. Senders(n) = {k} /\ row[n].status = "SENDING"
    BY <2>1 DEF Claimed
  <2>3. \A l \in Jobs : job[n][l].pc # "accepted"
    BY <1>4, <2>2 DEF Senders
  <2>4. \A i \in 1..Len(mail[n]) : mail[n][i] = "lost"
    BY <1>4, <1>6, <2>2, <2>3, UnclaimedIsLost DEF Known
  <2>5. Senders(n)' = {k}
    BY <1>3, <2>2 DEF Senders
  <2>7. Claimed(n)'
    BY <1>4, <2>2, <2>5 DEF Claimed
  <2>8. ASSUME NEW i \in 1..Len(mail'[n])
        PROVE  mail'[n][i] = "lost" \/ Named(n, i)'
    <3>1. i \in 1..Len(mail[n]) \/ i = Len(mail[n]) + 1
      BY <1>0, <1>3, <2>8
    <3>2. CASE i \in 1..Len(mail[n])
      BY <1>3, <2>4, <3>2
    <3>3. CASE i = Len(mail[n]) + 1
      BY <1>3, <3>3 DEF Named
    <3>4. QED
      BY <3>1, <3>2, <3>3
  <2>9. OthersLost(n)'
    BY <2>8 DEF OthersLost
  <2>10. QED
    BY <2>7, <2>9
<1>7. QED
  BY <1>2, <1>5, <1>6 DEF Good

LEMMA StepProviderRefuses ==
  ASSUME TypeOK, NEW n \in Notes, Good(n), NEW k \in Jobs, ProviderRefuses(n, k)
  PROVE  TypeOK' /\ Good(n)' /\ Elsewhere(n)
<1>1. "refused" \in Pc
  BY DEF Pc
<1>2. TypeOK' /\ Elsewhere(n)
  BY <1>1, PcUpdate DEF ProviderRefuses, TypeOK, Elsewhere
<1>3. /\ job'[n][k].pc = "refused" /\ \A l \in Jobs \ {k} : job'[n][l] = job[n][l]
      /\ job[n][k].pc = "sending" /\ row' = row /\ mail' = mail /\ doubt' = doubt
  BY <1>1, PcUpdate DEF ProviderRefuses
<1>4. MessagesExist(n)' /\ AgedIsIdle(n)' /\ RowIsTrue(n)'
  BY <1>3 DEF Good, MessagesExist, AgedIsIdle, RowIsTrue
<1>5. Senders(n)' = Senders(n)
  BY <1>3 DEF Senders
<1>6. \A i : Named(n, i) => Named(n, i)'
  BY <1>3 DEF Named
<1>7. ASSUME n \notin doubt'
      PROVE  Claimed(n)' /\ OthersLost(n)'
  <2>1. Claimed(n) /\ OthersLost(n)
    BY <1>3, <1>7 DEF Good
  <2>2. QED
    BY <1>3, <1>5, <1>6, <2>1 DEF Claimed, OthersLost
<1>8. QED
  BY <1>2, <1>4, <1>7 DEF Good

\* An answer that is lost, on its own or with the worker, leaves the row in doubt.
LEMMA StepAnswerLost ==
  ASSUME TypeOK, NEW n \in Notes, Good(n), NEW k \in Jobs,
         AnswerLost(n, k) \/ (WorkerCrashes(n, k) /\ ~UNCHANGED mail)
  PROVE  TypeOK' /\ Good(n)' /\ Elsewhere(n)
<1>0. mail[n] \in Seq(Fate) /\ Len(mail[n]) \in Nat /\ job[n][k] \in Job
  BY DEF TypeOK
<1>1. "refused" \in Pc
  BY DEF Pc
<1>2. AfterStall(job[n][k]) \in Job /\ AfterStall(job[n][k]).pc \in {"waiting", "ended"}
  BY <1>0, StalledIsJob
<1>3. /\ mail' = [mail EXCEPT ![n] = Append(@, "out")]
      /\ doubt' = doubt \cup {n} /\ row' = row /\ listed' = listed
      /\ hurt' \in {hurt, hurt \cup {n}}
      /\ job[n][k].pc = "sending"
      /\ SetPc(n, k, "refused") \/ job' = [job EXCEPT ![n][k] = AfterStall(job[n][k])]
  BY DEF AnswerLost, WorkerCrashes
<1>4. /\ job' \in [Notes -> [Jobs -> Job]]
      /\ job'[n][k].pc \in {"refused", "waiting", "ended"}
      /\ \A l \in Jobs \ {k} : job'[n][l] = job[n][l]
      /\ \A m \in Notes \ {n} : job'[m] = job[m]
  <2>1. CASE SetPc(n, k, "refused")
    BY <1>1, <2>1, PcUpdate
  <2>2. CASE job' = [job EXCEPT ![n][k] = AfterStall(job[n][k])]
    <3>1. job'[n][k] = AfterStall(job[n][k])
      BY <1>2, <2>2, JobUpdate
    <3>2. /\ job' \in [Notes -> [Jobs -> Job]]
          /\ \A l \in Jobs \ {k} : job'[n][l] = job[n][l]
          /\ \A m \in Notes \ {n} : job'[m] = job[m]
      BY <1>2, <2>2, JobUpdate
    <3>3. QED
      BY <1>2, <3>1, <3>2
  <2>3. QED
    BY <1>3, <2>1, <2>2
<1>5. TypeOK' /\ Elsewhere(n)
  BY <1>3, <1>4, MailUpdate DEF TypeOK, Elsewhere
<1>6. /\ Len(mail'[n]) = Len(mail[n]) + 1
      /\ \A i \in 1..Len(mail[n]) : mail'[n][i] = mail[n][i]
  BY <1>3, MailUpdate
<1>7. MessagesExist(n)' /\ AgedIsIdle(n)' /\ RowIsTrue(n)'
  <2>1. \A l \in Jobs : job'[n][l].pc = "accepted" => l # k
    BY <1>4
  <2>2. MessagesExist(n)'
    BY <1>0, <1>4, <1>6, <2>1 DEF Good, MessagesExist
  <2>3. ~row[n].aged
    BY <1>3 DEF Good, AgedIsIdle
  <2>4. AgedIsIdle(n)'
    BY <1>3, <2>3 DEF AgedIsIdle
  <2>5. RowIsTrue(n)'
    BY <1>0, <1>3, <1>6 DEF Good, RowIsTrue, Known
  <2>6. QED
    BY <2>2, <2>4, <2>5
<1>8. QED
  BY <1>3, <1>5, <1>7 DEF Good

\* The claiming job writes the outcome of its own message.
LEMMA StepRecordSent ==
  ASSUME TypeOK, NEW n \in Notes, Good(n), NEW k \in Jobs, RecordSent(n, k)
  PROVE  TypeOK' /\ Good(n)' /\ Elsewhere(n)
<1>0. job[n][k] \in Job /\ job[n][k].msg \in Nat
  BY DEF TypeOK, Job
<1>1. "reportedSent" \in Pc /\ 0 \in Nat /\ "SENT" \in Status
  BY DEF Pc, Status
<1>2. SetMessage(n, k, "reportedSent", 0)
  BY DEF RecordSent
<1>3. /\ job' \in [Notes -> [Jobs -> Job]] /\ job'[n][k].pc = "reportedSent"
      /\ \A l \in Jobs \ {k} : job'[n][l] = job[n][l]
      /\ \A m \in Notes \ {n} : job'[m] = job[m]
  BY <1>1, <1>2, MessageUpdate
<1>4. /\ row' = [row EXCEPT ![n] = [status |-> "SENT", aged |-> FALSE, pid |-> job[n][k].msg]]
      /\ mail' = mail /\ listed' = listed /\ doubt' = doubt /\ hurt' = hurt
      /\ job[n][k].pc = "accepted"
  BY DEF RecordSent
<1>5. /\ row' \in [Notes -> Row]
      /\ row'[n] = [status |-> "SENT", aged |-> FALSE, pid |-> job[n][k].msg]
      /\ \A m \in Notes \ {n} : row'[m] = row[m]
  BY <1>0, <1>1, <1>4 DEF TypeOK, Row
<1>6. TypeOK' /\ Elsewhere(n)
  BY <1>3, <1>4, <1>5 DEF TypeOK, Elsewhere
<1>7. MessagesExist(n)' /\ AgedIsIdle(n)' /\ RowIsTrue(n)'
  BY <1>3, <1>4, <1>5 DEF Good, MessagesExist, AgedIsIdle, RowIsTrue
<1>8. ASSUME n \notin doubt'
      PROVE  Claimed(n)' /\ OthersLost(n)'
  <2>1. Claimed(n) /\ OthersLost(n) /\ k \in Senders(n)
    BY <1>4, <1>8 DEF Good, Senders
  <2>2. Senders(n) = {k} /\ row[n].status = "SENDING"
    BY <2>1 DEF Claimed
  <2>3. Senders(n)' = {}
    BY <1>3, <2>2 DEF Senders
  <2>4. ASSUME NEW i, Named(n, i)
        PROVE  i = job[n][k].msg
    BY <2>2, <2>4 DEF Named, Senders, Known
  <2>6. \A i : Named(n, i) => Named(n, i)'
    BY <1>5, <2>4 DEF Named, Known
  <2>7. OthersLost(n)'
    BY <1>4, <2>1, <2>6 DEF OthersLost
  <2>8. Claimed(n)'
    BY <2>3 DEF Claimed
  <2>9. QED
    BY <2>7, <2>8
<1>9. QED
  BY <1>6, <1>7, <1>8 DEF Good

LEMMA StepRecordFailed ==
  ASSUME TypeOK, NEW n \in Notes, Good(n), NEW k \in Jobs, RecordFailed(n, k)
  PROVE  TypeOK' /\ Good(n)' /\ Elsewhere(n)
<1>1. "reportedFailed" \in Pc /\ "FAILED" \in Status
  BY DEF Pc, Status
<1>2. TypeOK' /\ Elsewhere(n)
  <2>1. /\ SetStatus(n, "FAILED") /\ SetPc(n, k, "reportedFailed")
        /\ UNCHANGED <<mail, listed, doubt, hurt>>
    BY DEF RecordFailed
  <2>2. row' \in [Notes -> Row] /\ \A m \in Notes \ {n} : row'[m] = row[m]
    BY <1>1, <2>1, StatusUpdate
  <2>3. job' \in [Notes -> [Jobs -> Job]] /\ \A m \in Notes \ {n} : job'[m] = job[m]
    BY <1>1, <2>1, PcUpdate
  <2>4. QED
    BY <2>1, <2>2, <2>3 DEF TypeOK, Elsewhere
<1>3. /\ row'[n] = [status |-> "FAILED", aged |-> FALSE, pid |-> row[n].pid]
      /\ job'[n][k].pc = "reportedFailed" /\ \A l \in Jobs \ {k} : job'[n][l] = job[n][l]
      /\ job[n][k].pc = "refused" /\ mail' = mail /\ doubt' = doubt
  BY <1>1, PcUpdate, StatusUpdate DEF RecordFailed
<1>4. MessagesExist(n)' /\ AgedIsIdle(n)' /\ RowIsTrue(n)'
  BY <1>3 DEF Good, MessagesExist, AgedIsIdle, RowIsTrue, Known
<1>5. ASSUME n \notin doubt'
      PROVE  Claimed(n)' /\ OthersLost(n)'
  <2>1. Claimed(n) /\ k \in Senders(n)
    BY <1>3, <1>5 DEF Good, Senders
  <2>2. Senders(n) = {k} /\ row[n].status = "SENDING"
    BY <2>1 DEF Claimed
  <2>3. Senders(n)' = {}
    BY <1>3, <2>2 DEF Senders
  <2>4. \A l \in Jobs : job[n][l].pc # "accepted"
    BY <1>3, <2>2 DEF Senders
  <2>5. \A i \in 1..Len(mail[n]) : mail[n][i] = "lost"
    BY <1>3, <1>5, <2>2, <2>4, UnclaimedIsLost DEF Known
  <2>6. QED
    BY <1>3, <2>3, <2>5 DEF Claimed, OthersLost
<1>6. QED
  BY <1>2, <1>4, <1>5 DEF Good

\* Here the claim outlives every job.
LEMMA StepClaimAges ==
  ASSUME Prompt = TRUE, TypeOK, NEW n \in Notes, Good(n), ClaimAges(n)
  PROVE  TypeOK' /\ Good(n)' /\ Elsewhere(n)
<1>1. row[n] \in Row /\ row[n].status = "SENDING" /\ LiveJobs(n) = {}
  BY DEF ClaimAges, TypeOK
<1>2. row' = [row EXCEPT ![n] = [status |-> "SENDING", aged |-> TRUE, pid |-> @.pid]]
  BY DEF ClaimAges
<1>3. /\ row' \in [Notes -> Row]
      /\ row'[n] = [status |-> row[n].status, aged |-> TRUE, pid |-> row[n].pid]
      /\ \A m \in Notes \ {n} : row'[m] = row[m]
  BY <1>1, <1>2 DEF TypeOK, Row
<1>4. job' = job /\ mail' = mail /\ doubt' = doubt /\ listed' = listed /\ hurt' = hurt
  BY DEF ClaimAges
<1>5. TypeOK' /\ Elsewhere(n)
  BY <1>3, <1>4 DEF TypeOK, Elsewhere
<1>6. AgedIsIdle(n)'
  BY <1>1, <1>3, <1>4 DEF AgedIsIdle, LiveJobs
<1>7. MessagesExist(n)' /\ RowIsTrue(n)'
  BY <1>3, <1>4 DEF Good, MessagesExist, RowIsTrue
<1>8. n \notin doubt' => Claimed(n)' /\ OthersLost(n)'
  BY <1>3, <1>4 DEF Good, Claimed, OthersLost, Named, Senders
<1>9. QED
  BY <1>5, <1>6, <1>7, <1>8 DEF Good

LEMMA StepMessageEnds ==
  ASSUME TypeOK, NEW n \in Notes, Good(n), NEW i \in 1..Len(mail[n]), MessageEnds(n, i)
  PROVE  TypeOK' /\ Good(n)' /\ Elsewhere(n)
<1>0. mail[n] \in Seq(Fate) /\ Len(mail[n]) \in Nat
  BY DEF TypeOK
<1>1. PICK fate \in {"arrived", "lost"} : mail' = [mail EXCEPT ![n][i] = fate]
  BY DEF MessageEnds
<1>2. mail[n][i] = "out" /\ UNCHANGED <<row, job, listed, doubt, hurt>>
  BY DEF MessageEnds
<1>3. [mail[n] EXCEPT ![i] = fate] \in Seq(Fate)
  BY <1>0 DEF Fate
<1>4. /\ mail' \in [Notes -> Seq(Fate)]
      /\ mail'[n] = [mail[n] EXCEPT ![i] = fate]
      /\ \A m \in Notes \ {n} : mail'[m] = mail[m]
  BY <1>1, <1>3 DEF TypeOK
<1>5. /\ Len(mail'[n]) = Len(mail[n])
      /\ \A j \in 1..Len(mail[n]) \ {i} : mail'[n][j] = mail[n][j]
  BY <1>0, <1>4
<1>6. TypeOK' /\ Elsewhere(n)
  BY <1>2, <1>4 DEF TypeOK, Elsewhere
<1>7. MessagesExist(n)' /\ AgedIsIdle(n)'
  BY <1>2, <1>5 DEF Good, MessagesExist, AgedIsIdle
<1>8. RowIsTrue(n)'
  BY <1>2, <1>5 DEF Good, RowIsTrue, Known
<1>9. ASSUME n \notin doubt'
      PROVE  Claimed(n)' /\ OthersLost(n)'
  <2>1. Claimed(n) /\ OthersLost(n)
    BY <1>2, <1>9 DEF Good
  <2>2. Claimed(n)'
    BY <1>2, <2>1 DEF Claimed, Senders
  <2>3. \A j : Named(n, j) => Named(n, j)'
    BY <1>2 DEF Named
  <2>4. Named(n, i)
    BY <1>2, <2>1 DEF OthersLost
  <2>5. OthersLost(n)'
    BY <1>5, <2>1, <2>3, <2>4 DEF OthersLost
  <2>6. QED
    BY <2>2, <2>5
<1>10. QED
  BY <1>6, <1>7, <1>8, <1>9 DEF Good

LEMMA StepReceipt ==
  ASSUME TypeOK, NEW n \in Notes, Good(n), NEW i \in 1..Len(mail[n]), Receipt(n, i)
  PROVE  TypeOK' /\ Good(n)' /\ Elsewhere(n)
<1>1. PICK s \in ReceiptsOf(mail[n][i]) : SetStatus(n, s)
  BY DEF Receipt
<1>2. /\ \/ s \in {"DELIVERED", "READ"} /\ mail[n][i] = "arrived"
         \/ s = "FAILED" /\ mail[n][i] = "lost"
      /\ s \in Status
  <2>1. CASE mail[n][i] = "arrived"
    BY <1>1, <2>1 DEF ReceiptsOf, Status
  <2>2. CASE mail[n][i] = "lost"
    BY <1>1, <2>2 DEF ReceiptsOf, Status
  <2>3. CASE mail[n][i] \notin {"arrived", "lost"}
    BY <1>1, <2>3 DEF ReceiptsOf
  <2>4. QED
    BY <2>1, <2>2, <2>3
<1>3. /\ row[n].pid = i /\ UNCHANGED <<job, mail, listed, hurt>>
      /\ doubt' \in {doubt, doubt \cup {n}}
      /\ n \notin doubt' => row[n].status # "SENDING" /\ n \notin doubt
  BY DEF Receipt
<1>4. /\ row' \in [Notes -> Row]
      /\ row'[n] = [status |-> s, aged |-> FALSE, pid |-> i]
      /\ \A m \in Notes \ {n} : row'[m] = row[m]
  BY <1>1, <1>2, <1>3, StatusUpdate
<1>5. TypeOK' /\ Elsewhere(n)
  BY <1>3, <1>4 DEF TypeOK, Elsewhere
<1>6. MessagesExist(n)' /\ AgedIsIdle(n)' /\ RowIsTrue(n)'
  BY <1>2, <1>3, <1>4 DEF Good, MessagesExist, AgedIsIdle, RowIsTrue, Known
<1>7. ASSUME n \notin doubt'
      PROVE  Claimed(n)' /\ OthersLost(n)'
  <2>1. Claimed(n) /\ OthersLost(n) /\ row[n].status # "SENDING"
    BY <1>3, <1>7 DEF Good
  <2>2. Senders(n) = {}
    BY <2>1 DEF Claimed
  <2>3. Senders(n)' = {}
    BY <1>3, <2>2 DEF Senders
  <2>4. \A j : Named(n, j) => j = i
    BY <1>3, <2>2 DEF Named, Senders
  <2>5. mail[n][i] = "lost" \/ Named(n, i)'
    BY <1>2, <1>4 DEF Named, Known
  <2>6. OthersLost(n)'
    BY <1>3, <2>1, <2>4, <2>5 DEF OthersLost
  <2>7. Claimed(n)'
    BY <2>3 DEF Claimed
  <2>8. QED
    BY <2>6, <2>7
<1>8. QED
  BY <1>5, <1>6, <1>7 DEF Good

-----------------------------------------------------------------------------
(* The theorems.                                                             *)

LEMMA InitIsGood == Init => IInv
<1> SUFFICES ASSUME Init PROVE IInv
  OBVIOUS
<1>1. NoJob \in Job /\ NoJob.pc = "none"
  BY NotificationSendingAssumption DEF NoJob, Job, Pc
<1>2. TypeOK
  BY <1>1 DEF Init, TypeOK, Row, Status
<1>3. ASSUME NEW n \in Notes
      PROVE  Good(n)
  <2>1. /\ row[n] = [status |-> "NONE", aged |-> FALSE, pid |-> 0]
        /\ \A k \in Jobs : job[n][k].pc = "none"
        /\ Len(mail[n]) = 0
    BY <1>1 DEF Init
  <2>2. Senders(n) = {}
    BY <2>1 DEF Senders
  <2>3. QED
    BY <2>1, <2>2
       DEF Good, MessagesExist, AgedIsIdle, RowIsTrue, Claimed, OthersLost, Known
<1>4. QED
  BY <1>2, <1>3 DEF IInv

LEMMA StepOfNote ==
  ASSUME Prompt = TRUE, TypeOK, NEW n \in Notes, Good(n),
         \/ Enqueue(n) \/ EnqueueOverLimit(n) \/ EnqueueWithoutJob(n)
         \/ \E k \in Jobs : Work(n, k) \/ Fault(n, k) \/ RetryResets(n, k)
         \/ ClaimAges(n) \/ ListFailed(n)
         \/ \E i \in DOMAIN mail[n] : MessageEnds(n, i) \/ Receipt(n, i)
  PROVE  TypeOK' /\ Good(n)' /\ Elsewhere(n)
<1>1. CASE Enqueue(n) \/ EnqueueOverLimit(n) \/ EnqueueWithoutJob(n)
  BY <1>1, StepEnqueue
<1>2. CASE \E k \in Jobs : Work(n, k)
  <2>1. PICK k \in Jobs : Work(n, k)
    BY <1>2
  <2>2. CASE Skip(n, k) \/ Finish(n, k)
    BY <2>2, StepWithoutRow
  <2>3. CASE Claim(n, k)
    BY <2>3, StepClaim
  <2>4. CASE ProviderAccepts(n, k)
    BY <2>4, StepProviderAccepts
  <2>5. CASE ProviderRefuses(n, k)
    BY <2>5, StepProviderRefuses
  <2>6. CASE AnswerLost(n, k)
    BY <2>6, StepAnswerLost
  <2>7. CASE RecordSent(n, k)
    BY <2>7, StepRecordSent
  <2>8. CASE RecordFailed(n, k)
    BY <2>8, StepRecordFailed
  <2>9. CASE RetryAddsJob(n, k)
    BY <2>9, StepRetryAddsJob
  <2>10. QED
    BY <2>1, <2>2, <2>3, <2>4, <2>5, <2>6, <2>7, <2>8, <2>9 DEF Work
<1>3. CASE \E k \in Jobs : Fault(n, k)
  <2>1. PICK k \in Jobs : Fault(n, k)
    BY <1>3
  <2>2. CASE RecordingThrows(n, k) \/ RetryLosesJob(n, k)
    BY <2>2, StepWithoutRow
  <2>3. CASE WorkerCrashes(n, k) /\ UNCHANGED mail
    BY <2>3, StepWithoutRow
  <2>4. CASE WorkerCrashes(n, k) /\ ~UNCHANGED mail
    BY <2>4, StepAnswerLost
  <2>5. QED
    BY <2>1, <2>2, <2>3, <2>4 DEF Fault
<1>4. CASE \E k \in Jobs : RetryResets(n, k)
  BY <1>4, StepRetryResets
<1>5. CASE ClaimAges(n)
  BY <1>5, StepClaimAges
<1>6. CASE ListFailed(n)
  <2>1. TypeOK' /\ Elsewhere(n)
    BY <1>6 DEF ListFailed, TypeOK, Elsewhere
  <2>2. Good(n)'
    BY <1>6, Frame DEF ListFailed
  <2>3. QED
    BY <2>1, <2>2
<1>7. CASE \E i \in DOMAIN mail[n] : MessageEnds(n, i) \/ Receipt(n, i)
  <2>1. DOMAIN mail[n] = 1..Len(mail[n])
    BY DEF TypeOK
  <2>2. QED
    BY <1>7, <2>1, StepMessageEnds, StepReceipt
<1>8. QED
  BY <1>1, <1>2, <1>3, <1>4, <1>5, <1>6, <1>7

LEMMA NextKeepsGood ==
  ASSUME Prompt = TRUE
  PROVE  IInv /\ [Next]_vars => IInv'
<1> SUFFICES ASSUME IInv, [Next]_vars PROVE IInv'
  OBVIOUS
<1>1. CASE Next
  <2>1. PICK n \in Notes :
          \/ Enqueue(n) \/ EnqueueOverLimit(n) \/ EnqueueWithoutJob(n)
          \/ \E k \in Jobs : Work(n, k) \/ Fault(n, k) \/ RetryResets(n, k)
          \/ ClaimAges(n) \/ ListFailed(n)
          \/ \E i \in DOMAIN mail[n] : MessageEnds(n, i) \/ Receipt(n, i)
    BY <1>1 DEF Next
  <2>2. TypeOK' /\ Good(n)' /\ Elsewhere(n)
    BY <2>1, StepOfNote DEF IInv
  <2>3. ASSUME NEW m \in Notes \ {n}
        PROVE  Good(m)'
    BY <2>2, <2>3, Frame DEF IInv, Elsewhere
  <2>4. QED
    BY <2>2, <2>3 DEF IInv
<1>2. CASE UNCHANGED vars
  <2>1. TypeOK'
    BY <1>2 DEF IInv, TypeOK, vars
  <2>2. ASSUME NEW n \in Notes
        PROVE  Good(n)'
    BY <1>2, Frame DEF IInv, vars
  <2>3. QED
    BY <2>1, <2>2 DEF IInv
<1>3. QED
  BY <1>1, <1>2

LEMMA Invariance ==
  ASSUME Prompt = TRUE
  PROVE  Spec => []IInv
<1>1. IInv /\ [Next]_vars => IInv'
  BY NextKeepsGood
<1>2. QED
  BY <1>1, InitIsGood, PTL DEF Spec

\* Rows, jobs, messages and lists keep their types.
THEOREM TypeCorrect ==
  ASSUME Prompt = TRUE
  PROVE  Spec => []TypeOK
<1>1. IInv => TypeOK
  BY DEF IInv
<1>2. Spec => []IInv
  BY Invariance
<1>3. QED
  BY <1>1, <1>2, PTL

LEMMA AtMostOne ==
  ASSUME NEW S, \A x, y \in S : x = y
  PROVE  Cardinality(S) <= 1
<1>1. CASE S = {}
  BY <1>1, FS_EmptySet
<1>2. CASE S # {}
  <2>1. PICK x \in S : TRUE
    BY <1>2
  <2>2. S = {x}
    BY <2>1
  <2>3. QED
    BY <2>2, FS_Singleton
<1>3. QED
  BY <1>1, <1>2

\* Only the job that wins the claim sends (claimForSending), until the owner's
\* retry or an older receipt takes the claim away.
THEOREM ClaimExcludes ==
  ASSUME Prompt = TRUE
  PROVE  Spec => []OneSender
<1>1. IInv => OneSender
  <2> SUFFICES ASSUME IInv, NEW n \in Notes \ doubt
               PROVE  Cardinality(Senders(n)) <= 1
    BY DEF OneSender
  <2>1. Claimed(n)
    BY DEF IInv, Good
  <2>2. QED
    BY <2>1, AtMostOne DEF Claimed
<1>2. Spec => []IInv
  BY Invariance
<1>3. QED
  BY <1>1, <1>2, PTL

\* Nobody gets a notification twice, as long as the row could know of every message
\* that the provider accepted.
THEOREM SentOnce ==
  ASSUME Prompt = TRUE
  PROVE  Spec => []DeliveredOnce
<1>1. IInv => DeliveredOnce
  <2> SUFFICES ASSUME IInv, NEW n \in Notes \ doubt
               PROVE  Cardinality({i \in DOMAIN mail[n] : mail[n][i] # "lost"}) <= 1
    BY DEF DeliveredOnce
  <2>1. Claimed(n) /\ OthersLost(n) /\ DOMAIN mail[n] = 1..Len(mail[n])
    BY DEF IInv, Good, TypeOK
  <2>2. ASSUME NEW i \in DOMAIN mail[n], mail[n][i] # "lost",
               NEW j \in DOMAIN mail[n], mail[n][j] # "lost"
        PROVE  i = j
    <3>1. Named(n, i) /\ Named(n, j)
      BY <2>1, <2>2 DEF OthersLost
    <3>2. QED
      BY <2>1, <3>1 DEF Named, Claimed, Senders, Known
  <2>3. QED
    BY <2>2, AtMostOne
<1>2. Spec => []IInv
  BY Invariance
<1>3. QED
  BY <1>1, <1>2, PTL

\* What a row says of its message is so: FAILED that nobody got it, DELIVERED and
\* READ that the message it names arrived, SENT that there is such a message.
THEOREM RowsAreTrue ==
  ASSUME Prompt = TRUE
  PROVE  Spec => []StatusIsTrue
<1>1. IInv => StatusIsTrue
  <2> SUFFICES ASSUME IInv, NEW n \in Notes
               PROVE  /\ row[n].status = "FAILED" /\ n \notin doubt =>
                            \A i \in DOMAIN mail[n] : mail[n][i] = "lost"
                      /\ row[n].status \in Known => row[n].pid \in DOMAIN mail[n]
                      /\ row[n].status \in {"DELIVERED", "READ"} =>
                            mail[n][row[n].pid] = "arrived"
    BY DEF StatusIsTrue, Known
  <2>1. Good(n) /\ DOMAIN mail[n] = 1..Len(mail[n])
    BY DEF IInv, TypeOK
  <2>2. QED
    BY <2>1, SettledIsLost DEF Good, RowIsTrue
<1>2. Spec => []IInv
  BY Invariance
<1>3. QED
  BY <1>1, <1>2, PTL

-----------------------------------------------------------------------------
(* NotificationQueueing: the parts of its inductive invariant.             *)

\* What enqueueNotification holds while it runs, as records.
Calls == [pc: CallPc, targets: Seq(People), index: Nat, allowance: 0..DailyLimit]

Distinct(ts) == \A i, j \in DOMAIN ts : ts[i] = ts[j] => i = j

\* The key of the i-th of the targets ts.
KeyIn(q, ts, i) == <<q, IF i = 1 THEN First ELSE ts[i]>>

\* A call runs through distinct targets, and its request is open until then.
CallOK(q) ==
  /\ call[q].targets \in Seq(Group[q])
  /\ call[q].pc \in {"idle", "resolved"} => call[q].index = 1
  /\ Running(q) =>
       /\ q \notin settled
       /\ call[q].index \in 1..Len(call[q].targets)
       /\ Distinct(call[q].targets)
  /\ ~ Running(q) /\ q \notin settled => call[q].targets = <<>>

CallsInv ==
  /\ call \in [Requests -> Calls]
  /\ \A q \in Requests : CallOK(q)

Untouched(k) == history[k].status = "NONE" /\ jobs[k] = Nobody

\* The keys of a request that nothing has hindered yet: behind the loop, under
\* its hands, or untouched.
FreshOK(q) ==
  q \notin hindered \cup settled =>
    \A k \in Keys : k[1] = q =>
      \/ Untouched(k)
      \/ \E i \in DOMAIN call[q].targets : i < call[q].index /\ k = KeyIn(q, call[q].targets, i)
      \/ call[q].pc = "adding" /\ k = Key(q) /\ jobs[k] = Nobody

\* Key k tells how it went with p.
Done(k, p) == history[k].to = p /\ (history[k].status = "QUEUED" => jobs[k] = p)

\* Targets behind the loop are done with.
DoneOK(q) ==
  q \notin hindered /\ Running(q) =>
    /\ \A i \in DOMAIN call[q].targets :
         i < call[q].index => Done(KeyIn(q, call[q].targets, i), call[q].targets[i])
    /\ call[q].pc = "adding" => history[Key(q)].to = Target(q)

\* After the loop all of them are.
SettledOK(q) ==
  q \in settled \ hindered =>
    \A i \in DOMAIN call[q].targets : \E k \in Keys :
      k[1] = q /\ Done(k, call[q].targets[i])

CompleteOK(q) == FreshOK(q) /\ DoneOK(q) /\ SettledOK(q)

CompleteInv == \A q \in Requests : CompleteOK(q)

\* Today's messages that the limit counts.
Limited == {k \in today : history[k].status = "QUEUED" /\ k[1] \notin Unlimited \cup Replies}

\* Together with what the call may still create, they stay within the limit.
LimitOK(q) ==
  ~ raced /\ q \notin Unlimited \cup Replies /\ call[q].index <= call[q].allowance =>
    /\ call[q].pc = "recording" =>
         Cardinality(Limited) + call[q].allowance - call[q].index + 1 <= DailyLimit
    /\ call[q].pc = "adding" =>
         Cardinality(Limited) + call[q].allowance - call[q].index <= DailyLimit

LimitInv ==
  /\ IsFiniteSet(today)
  /\ ~ raced => Cardinality(Limited) <= DailyLimit
  /\ \A q \in Requests : LimitOK(q)

HasJobs(q) == \E k \in Keys : k[1] = q /\ jobs[k] # Nobody

\* The one order in which the targets come back.
InOrder(q) == CHOOSE ts \in Bijection(1..Cardinality(Reachable(q)), Reachable(q)) : TRUE

\* A person has a job under the key of their own or, who comes first in the
\* order, under the request's; a request that is open may be run again, and
\* then finds the order that its jobs were added in.
OnceOK(q) ==
  /\ \A p \in People : /\ jobs[<<q, p>>] \in {Nobody, p}
                       /\ jobs[<<q, First>>] = p => jobs[<<q, p>>] = Nobody
  /\ q \notin settled /\ HasJobs(q) =>
       /\ Running(q) \/ q \in hindered
       /\ Reachable(q) # {}
       /\ jobs[<<q, First>>] \in {Nobody, InOrder(q)[1]}
       /\ jobs[<<q, InOrder(q)[1]>>] = Nobody
  /\ Running(q) => call[q].targets = InOrder(q) /\ Reachable(q) # {}

OnceInv == StableTargets => \A q \in Requests : OnceOK(q)

\* What holds in every state.
QueueInv == QueueTypeOK /\ CallsInv /\ LimitInv /\ CompleteInv /\ OnceInv

-----------------------------------------------------------------------------
(* What the actions do.                                                    *)

\* What the assumptions say of the requests and their people.
LEMMA RequestFacts ==
  /\ \A q \in Requests : Group[q] \subseteq People /\ IsFiniteSet(Group[q])
  /\ First \notin People /\ DailyLimit \in Nat
  /\ \A q \in Requests : Reachable(q) \subseteq Group[q]
  /\ \A q \in Requests, S \in SUBSET People : Seq(S) \subseteq Seq(People)
<1>1. \A q \in Requests : Group[q] \subseteq People
  BY NotificationQueueingAssumption
<1>2. \A q \in Requests : IsFiniteSet(Group[q])
  BY <1>1, NotificationQueueingAssumption, FS_Subset
<1> QED
  BY <1>1, <1>2, NotificationQueueingAssumption DEF Reachable

\* Keys of different targets differ.
LEMMA KeysDiffer ==
  ASSUME NEW q \in Requests, NEW ts \in Seq(People), Distinct(ts)
  PROVE  /\ \A i \in DOMAIN ts : KeyIn(q, ts, i) \in Keys /\ KeyIn(q, ts, i)[1] = q /\ ts[i] \in People
         /\ \A i, j \in DOMAIN ts : KeyIn(q, ts, i) = KeyIn(q, ts, j) => i = j
         /\ \A i \in DOMAIN ts : i # 1 => KeyIn(q, ts, i) = <<q, ts[i]>>
         /\ KeyIn(q, ts, 1) = <<q, First>>
<1>1. \A i \in DOMAIN ts : ts[i] \in People /\ i \in Nat
  OBVIOUS
<1>2. First \notin People
  BY RequestFacts
<1> QED
  BY <1>1, <1>2 DEF KeyIn, Keys, Distinct

\* What the queries behind resolveRecipients return.
LEMMA OrdersAre ==
  ASSUME NEW S, IsFiniteSet(S), S # {}, NEW ts \in Orders(S)
  PROVE  /\ ts \in Seq(S) /\ 1 \in 1..Len(ts) /\ Distinct(ts)
         /\ StableTargets => ts = CHOOSE us \in Bijection(1..Cardinality(S), S) : TRUE
<1>1. Cardinality(S) \in Nat /\ Bijection(1..Cardinality(S), S) # {}
  BY FS_CardinalityType DEF ExistsBijection
<1>2. ts \in Bijection(1..Cardinality(S), S)
  BY <1>1 DEF Orders
<1>3. ts \in [1..Cardinality(S) -> S] /\ \A i, j \in 1..Cardinality(S) : ts[i] = ts[j] => i = j
  BY <1>2 DEF Bijection, Injection, IsInjective
<1>4. ts \in Seq(S) /\ Len(ts) = Cardinality(S) /\ DOMAIN ts = 1..Cardinality(S)
  BY <1>1, <1>3
<1>5. Cardinality(S) # 0
  BY FS_EmptySet
<1>6. StableTargets => ts = CHOOSE us \in Bijection(1..Cardinality(S), S) : TRUE
  BY DEF Orders
<1> QED
  BY <1>1, <1>3, <1>4, <1>5, <1>6 DEF Distinct

\* What a step makes of the call of one request.
CallIs(q, pc, ts, i, a) ==
  /\ call' \in [Requests -> Calls]
  /\ call'[q].pc = pc /\ call'[q].targets = ts /\ call'[q].index = i /\ call'[q].allowance = a
  /\ \A r \in Requests : r # q => call'[r] = call[r]

Returned(q) ==
  /\ CallIs(q, "idle", call[q].targets, 1, 0)
  /\ settled' = settled \cup {q}

GoesOn(q) ==
  /\ CallIs(q, "recording", call[q].targets, call[q].index + 1, call[q].allowance)
  /\ call[q].index + 1 \in 1..Len(call[q].targets)
  /\ UNCHANGED settled

Advanced(q) == (call[q].index = Len(call[q].targets) /\ Returned(q)) \/ GoesOn(q)

\* A call that does not run.
LEMMA IdleType ==
  /\ Idle \in Calls /\ Idle.pc = "idle" /\ Idle.targets = <<>> /\ Idle.index = 1 /\ Idle.allowance = 0
  /\ {"idle", "resolved", "recording", "adding"} = CallPc
  BY RequestFacts DEF Idle, Calls, CallPc

\* A call is replaced.
LEMMA CallSet ==
  ASSUME CallsInv, NEW q \in Requests, NEW c \in Calls, call' = [call EXCEPT ![q] = c]
  PROVE  CallIs(q, c.pc, c.targets, c.index, c.allowance)
  BY DEF CallsInv, CallIs

\* A call returns.
LEMMA ReturnDoes ==
  ASSUME CallsInv, NEW q \in Requests, Return(q)
  PROVE  Returned(q)
<1>1. PICK c : c = [Idle EXCEPT !.targets = call[q].targets]
  OBVIOUS
<1>2. /\ c \in Calls /\ c.pc = "idle" /\ c.targets = call[q].targets
      /\ c.index = 1 /\ c.allowance = 0
  BY <1>1, IdleType DEF CallsInv, Calls, Idle
<1>3. call' = [call EXCEPT ![q] = c]
  BY <1>1 DEF Return
<1>4. CallIs(q, c.pc, c.targets, c.index, c.allowance)
  BY <1>2, <1>3, CallSet
<1> QED
  BY <1>2, <1>4 DEF Return, Returned

\* A call goes on to its next target, or returns behind the last.
LEMMA AdvanceDoes ==
  ASSUME CallsInv, NEW q \in Requests, Running(q), Advance(q)
  PROVE  Advanced(q)
<1>1. CASE call[q].index = Len(call[q].targets)
  BY <1>1, ReturnDoes DEF Advance, Advanced
<1>2. CASE call[q].index # Len(call[q].targets)
  <2>1. PICK c : c = [call[q] EXCEPT !.pc = "recording", !.index = @ + 1]
    OBVIOUS
  <2>2. call[q].index \in 1..Len(call[q].targets) /\ Len(call[q].targets) \in Nat
    BY DEF CallsInv, CallOK, Calls
  <2>3. /\ c \in Calls /\ c.pc = "recording" /\ c.targets = call[q].targets
        /\ c.index = call[q].index + 1 /\ c.allowance = call[q].allowance
    <3>1. call[q] \in Calls /\ call[q].index + 1 \in Nat
      BY <2>2 DEF CallsInv
    <3>2. c = [pc |-> "recording", targets |-> call[q].targets,
               index |-> call[q].index + 1, allowance |-> call[q].allowance]
      BY <2>1, <3>1 DEF Calls
    <3> QED
      BY <3>1, <3>2, IdleType DEF Calls
  <2>4. call' = [call EXCEPT ![q] = c] /\ UNCHANGED settled
    BY <1>2, <2>1 DEF Advance
  <2>5. CallIs(q, c.pc, c.targets, c.index, c.allowance)
    BY <2>3, <2>4, CallSet
  <2>6. call[q].index + 1 \in 1..Len(call[q].targets)
    BY <1>2, <2>2
  <2> QED
    BY <2>3, <2>4, <2>5, <2>6 DEF GoesOn, Advanced
<1> QED
  BY <1>1, <1>2

BooksKept == UNCHANGED <<history, jobs, today, raced>>

\* What each action does, in terms of the facts above.  The targets are resolved.
LEMMA ResolveDoes ==
  ASSUME QueueTypeOK, CallsInv, NEW q \in Requests, Resolve(q)
  PROVE  /\ ~ Running(q) /\ q \notin settled /\ Reachable(q) # {}
         /\ \E ts \in Seq(Group[q]) :
              /\ CallIs(q, "resolved", ts, 1, 0)
              /\ 1 \in 1..Len(ts) /\ Distinct(ts)
              /\ StableTargets => ts = InOrder(q)
         /\ BooksKept /\ UNCHANGED <<settled, out, crashes, hindered>>
<1>1. PICK ts \in Orders(Reachable(q)) :
        call' = [call EXCEPT ![q] = [Idle EXCEPT !.pc = "resolved", !.targets = ts]]
  BY DEF Resolve
<1>2. IsFiniteSet(Reachable(q)) /\ Reachable(q) # {} /\ Reachable(q) \subseteq Group[q]
  BY RequestFacts, FS_Subset DEF Resolve
<1>3. /\ ts \in Seq(Reachable(q)) /\ 1 \in 1..Len(ts) /\ Distinct(ts)
      /\ StableTargets => ts = InOrder(q)
  BY <1>2, OrdersAre DEF InOrder
<1>4. ts \in Seq(Group[q]) /\ ts \in Seq(People)
  BY <1>2, <1>3, RequestFacts
<1>5. PICK c : c = [Idle EXCEPT !.pc = "resolved", !.targets = ts]
  OBVIOUS
<1>6. c \in Calls /\ c.pc = "resolved" /\ c.targets = ts /\ c.index = 1 /\ c.allowance = 0
  BY <1>4, <1>5, IdleType DEF Calls, Idle
<1>7. CallIs(q, c.pc, c.targets, c.index, c.allowance)
  BY <1>1, <1>5, <1>6, CallSet
<1> QED
  BY <1>3, <1>4, <1>6, <1>7 DEF Resolve, BooksKept

\* There is nobody to send to.
LEMMA ResolveNobodyDoes ==
  ASSUME CallsInv, NEW q \in Requests, ResolveNobody(q)
  PROVE  /\ ~ Running(q) /\ q \notin settled
         /\ Returned(q)
         /\ BooksKept /\ UNCHANGED <<out, crashes, hindered>>
  BY ReturnDoes DEF ResolveNobody, BooksKept

\* What the day has left is counted.
LEMMA CountAllowanceDoes ==
  ASSUME QueueTypeOK, CallsInv, IsFiniteSet(today), NEW q \in Requests, CountAllowance(q)
  PROVE  /\ call[q].pc = "resolved"
         /\ \E a \in 0..DailyLimit :
              /\ CallIs(q, "recording", call[q].targets, call[q].index, a)
              /\ a > 0 => Cardinality(today) + a <= DailyLimit
         /\ BooksKept /\ UNCHANGED <<settled, out, crashes, hindered>>
<1>1. PICK a : a = IF Cardinality(today) >= DailyLimit THEN 0 ELSE DailyLimit - Cardinality(today)
  OBVIOUS
<1>2. Cardinality(today) \in Nat /\ DailyLimit \in Nat
  BY FS_CardinalityType, RequestFacts
<1>3. a \in 0..DailyLimit /\ (a > 0 => Cardinality(today) + a <= DailyLimit)
  BY <1>1, <1>2
<1>4. PICK c : c = [call[q] EXCEPT !.pc = "recording", !.allowance = a]
  OBVIOUS
<1>5. /\ c \in Calls /\ c.pc = "recording" /\ c.targets = call[q].targets
      /\ c.index = call[q].index /\ c.allowance = a
  BY <1>3, <1>4, IdleType DEF CallsInv, Calls
<1>6. call' = [call EXCEPT ![q] = c]
  BY <1>1, <1>4 DEF CountAllowance
<1>7. CallIs(q, c.pc, c.targets, c.index, c.allowance)
  BY <1>5, <1>6, CallSet
<1> QED
  BY <1>3, <1>5, <1>7 DEF CountAllowance, BooksKept

\* A row that createHistory finds stays; a new one is the limit's or the queue's.
RowIs(q) ==
  IF history[Key(q)].status = "NONE"
  THEN /\ history'[Key(q)].status = IF OverLimit(q) THEN "FAILED" ELSE "QUEUED"
       /\ history'[Key(q)].to = Target(q)
       /\ \A k \in Keys : k # Key(q) => history'[k] = history[k]
       /\ today' = today \cup {Key(q)}
       /\ raced' <=> raced \/ \E r \in Requests \ {q} : call[r].pc \in {"recording", "adding"}
  ELSE UNCHANGED <<history, today>> /\ (raced' <=> raced)

\* The target that a running call is at, and its key.
LEMMA CurrentTarget ==
  ASSUME QueueTypeOK, CallsInv, NEW q \in Requests, Running(q)
  PROVE  /\ call[q].index \in DOMAIN call[q].targets
         /\ Key(q) = KeyIn(q, call[q].targets, call[q].index)
         /\ Key(q) \in Keys /\ Key(q)[1] = q /\ Target(q) \in People
         /\ call[q].targets \in Seq(People) /\ Distinct(call[q].targets)
<1>1. call[q].targets \in Seq(People) /\ call[q].index \in 1..Len(call[q].targets) /\ Distinct(call[q].targets)
  BY DEF CallsInv, Calls, CallOK
<1>2. Key(q) = KeyIn(q, call[q].targets, call[q].index)
  BY DEF Key, KeyIn
<1> QED
  BY <1>1, <1>2, KeysDiffer DEF Target

\* The row of a target is created, or found.
LEMMA RecordDoes ==
  ASSUME QueueTypeOK, CallsInv, NEW q \in Requests, Record(q)
  PROVE  /\ call[q].pc = "recording" /\ Running(q)
         /\ RowIs(q)
         /\ history' \in [Keys -> [status: {"NONE", "QUEUED", "FAILED"}, to: People \cup {Nobody}]]
         /\ raced' \in BOOLEAN
         /\ \/ OverLimit(q) /\ Advanced(q)
            \/ /\ ~ OverLimit(q)
               /\ CallIs(q, "adding", call[q].targets, call[q].index, call[q].allowance)
               /\ UNCHANGED settled
         /\ UNCHANGED <<jobs, out, crashes, hindered>>
<1>1. call[q].pc = "recording" /\ Running(q)
  BY DEF Record, Running
<1>2. Key(q) \in Keys /\ Target(q) \in People
  BY <1>1, CurrentTarget
<1>3. PICK r : r = [status |-> IF OverLimit(q) THEN "FAILED" ELSE "QUEUED", to |-> Target(q)]
  OBVIOUS
<1>4. /\ r \in [status: {"NONE", "QUEUED", "FAILED"}, to: People \cup {Nobody}]
      /\ r.status = (IF OverLimit(q) THEN "FAILED" ELSE "QUEUED") /\ r.to = Target(q)
  BY <1>2, <1>3
<1>5. /\ history' = IF history[Key(q)].status = "NONE" THEN [history EXCEPT ![Key(q)] = r] ELSE history
      /\ today' = IF history[Key(q)].status = "NONE" THEN today \cup {Key(q)} ELSE today
  BY <1>3 DEF Record
<1>6. /\ raced' \in BOOLEAN
      /\ raced' <=> \/ raced
                    \/ /\ history[Key(q)].status = "NONE"
                       /\ \E s \in Requests \ {q} : call[s].pc \in {"recording", "adding"}
  BY DEF Record, QueueTypeOK
<1>7. history' \in [Keys -> [status: {"NONE", "QUEUED", "FAILED"}, to: People \cup {Nobody}]]
  BY <1>2, <1>4, <1>5 DEF QueueTypeOK
<1>8. RowIs(q)
  BY <1>2, <1>4, <1>5, <1>6 DEF RowIs, QueueTypeOK
<1>9. CASE OverLimit(q)
  <2>1. Advanced(q)
    BY <1>1, <1>9, AdvanceDoes DEF Record
  <2> QED
    BY <1>1, <1>6, <1>7, <1>8, <1>9, <2>1 DEF Record
<1>10. CASE ~ OverLimit(q)
  <2>1. PICK c : c = [call[q] EXCEPT !.pc = "adding"]
    OBVIOUS
  <2>2. /\ c \in Calls /\ c.pc = "adding" /\ c.targets = call[q].targets
        /\ c.index = call[q].index /\ c.allowance = call[q].allowance
    BY <2>1, IdleType DEF CallsInv, Calls
  <2>3. call' = [call EXCEPT ![q] = c] /\ UNCHANGED settled
    BY <1>10, <2>1 DEF Record
  <2>4. CallIs(q, c.pc, c.targets, c.index, c.allowance)
    BY <2>2, <2>3, CallSet
  <2> QED
    BY <1>1, <1>6, <1>7, <1>8, <1>10, <2>2, <2>3, <2>4 DEF Record
<1> QED
  BY <1>9, <1>10

\* The job of a target is added, or found.
LEMMA AddJobDoes ==
  ASSUME QueueTypeOK, CallsInv, NEW q \in Requests, AddJob(q)
  PROVE  /\ call[q].pc = "adding" /\ Running(q)
         /\ jobs' \in [Keys -> People \cup {Nobody}]
         /\ jobs'[Key(q)] = IF jobs[Key(q)] = Nobody THEN Target(q) ELSE jobs[Key(q)]
         /\ \A k \in Keys : k # Key(q) => jobs'[k] = jobs[k]
         /\ Advanced(q)
         /\ UNCHANGED <<history, out, today, crashes, hindered, raced>>
<1>1. call[q].pc = "adding" /\ Running(q)
  BY DEF AddJob, Running
<1>2. Key(q) \in Keys /\ Target(q) \in People
  BY <1>1, CurrentTarget
<1>3. Advanced(q)
  BY <1>1, AdvanceDoes DEF AddJob
<1> QED
  BY <1>1, <1>2, <1>3 DEF AddJob, QueueTypeOK

\* A statement throws.
LEMMA StepThrowsDoes ==
  ASSUME CallsInv, NEW q \in Requests, StepThrows(q)
  PROVE  /\ call[q].pc \in {"recording", "adding"} /\ Running(q)
         /\ Returned(q) \/ (Advanced(q) /\ call[q].index # 1)
         /\ hindered' = hindered \cup {q}
         /\ BooksKept /\ UNCHANGED <<out, crashes>>
<1>1. call[q].pc \in {"recording", "adding"} /\ Running(q)
  BY DEF StepThrows, Running
<1>2. Returned(q) \/ (Advanced(q) /\ call[q].index # 1)
  BY <1>1, AdvanceDoes, ReturnDoes DEF StepThrows
<1> QED
  BY <1>1, <1>2 DEF StepThrows, BooksKept

\* The process dies.
LEMMA CrashDoes ==
  ASSUME CallsInv, Crash, crashes \in 0..MaxCrashes
  PROVE  /\ call' \in [Requests -> Calls] /\ \A q \in Requests : call'[q] = Idle
         /\ crashes' \in 0..MaxCrashes
         /\ hindered' = hindered \cup {q \in Requests : Running(q)}
         /\ BooksKept /\ UNCHANGED <<settled, out>>
  BY IdleType, NotificationQueueingAssumption DEF Crash, BooksKept

\* Somebody opts out or in.
LEMMA OptDoes ==
  ASSUME QueueTypeOK, NEW p \in People, OptOut(p) \/ OptIn(p)
  PROVE  /\ MayChange(p) /\ out' \subseteq People
         /\ \A u \in People : u # p => (u \in out' <=> u \in out)
         /\ BooksKept /\ UNCHANGED <<call, settled, crashes, hindered>>
  BY DEF OptOut, OptIn, QueueTypeOK, BooksKept

\* A day begins.
LEMMA NewDayDoes ==
  ASSUME NewDay
  PROVE  today' = {} /\ UNCHANGED <<history, jobs, call, settled, out, crashes, hindered, raced>>
  BY DEF NewDay

\* Nothing happens.
LEMMA QueueStutterDoes ==
  ASSUME UNCHANGED queueVars
  PROVE  BooksKept /\ UNCHANGED <<call, settled, out, crashes, hindered>>
  BY DEF queueVars, BooksKept

-----------------------------------------------------------------------------
(* Calls and types.                                                        *)

\* One call changes, and stays a good one.
LEMMA CallsFollow ==
  ASSUME CallsInv, NEW q \in Requests, NEW pc, NEW ts \in Seq(Group[q]), NEW i, NEW a,
         CallIs(q, pc, ts, i, a),
         settled' = settled \/ settled' = settled \cup {q},
         pc \in {"idle", "resolved"} => i = 1,
         pc # "idle" => q \notin settled' /\ i \in 1..Len(ts) /\ Distinct(ts),
         pc = "idle" => q \in settled'
  PROVE  CallsInv'
<1>1. CallOK(q)'
  BY DEF CallIs, CallOK, Running
<1>2. ASSUME NEW r \in Requests, r # q
      PROVE  CallOK(r)'
  BY <1>2 DEF CallIs, CallsInv, CallOK, Running
<1> QED
  BY <1>1, <1>2 DEF CallIs, CallsInv

\* A call that goes on or returns stays a good one.
LEMMA AdvancedIsOK ==
  ASSUME CallsInv, NEW q \in Requests, Running(q), Returned(q) \/ Advanced(q)
  PROVE  CallsInv'
<1>1. CallOK(q)
  BY DEF CallsInv
<1>2. CASE Returned(q)
  BY <1>1, <1>2, CallsFollow DEF Returned, CallOK
<1>3. CASE GoesOn(q)
  BY <1>1, <1>3, CallsFollow DEF GoesOn, CallOK
<1> QED
  BY <1>2, <1>3 DEF Advanced

\* A call runs through the targets it resolved, and ends for good when it returns.
LEMMA CallsKept ==
  ASSUME QueueTypeOK, CallsInv, IsFiniteSet(today), [QueueNext]_queueVars
  PROVE  CallsInv'
<1>1. ASSUME NEW q \in Requests, Resolve(q)
      PROVE  CallsInv'
  <2>1. PICK ts \in Seq(Group[q]) :
          /\ CallIs(q, "resolved", ts, 1, 0)
          /\ 1 \in 1..Len(ts) /\ Distinct(ts)
    BY <1>1, ResolveDoes
  <2> QED
    BY <1>1, <2>1, ResolveDoes, CallsFollow
<1>2. ASSUME NEW q \in Requests, ResolveNobody(q)
      PROVE  CallsInv'
  <2>1. /\ CallIs(q, "idle", call[q].targets, 1, 0) /\ settled' = settled \cup {q}
        /\ call[q].targets \in Seq(Group[q])
    BY <1>2, ResolveNobodyDoes DEF Returned, CallsInv, CallOK
  <2> QED
    BY <2>1, CallsFollow
<1>3. ASSUME NEW q \in Requests, CountAllowance(q)
      PROVE  CallsInv'
  <2>1. PICK a : CallIs(q, "recording", call[q].targets, call[q].index, a)
    BY <1>3, CountAllowanceDoes
  <2>2. call[q].pc = "resolved" /\ settled' = settled /\ CallOK(q)
    BY <1>3, CountAllowanceDoes DEF CallsInv
  <2> QED
    BY <2>1, <2>2, CallsFollow DEF CallOK, Running
<1>4. ASSUME NEW q \in Requests, Record(q)
      PROVE  CallsInv'
  <2>1. CallOK(q) /\ Running(q)
    BY <1>4, RecordDoes DEF CallsInv
  <2>2. CASE Advanced(q)
    BY <2>1, <2>2, AdvancedIsOK
  <2>3. CASE CallIs(q, "adding", call[q].targets, call[q].index, call[q].allowance) /\ settled' = settled
    BY <2>1, <2>3, CallsFollow DEF CallOK
  <2> QED
    BY <1>4, <2>2, <2>3, RecordDoes
<1>5. ASSUME NEW q \in Requests, AddJob(q)
      PROVE  CallsInv'
  BY <1>5, AddJobDoes, AdvancedIsOK
<1>6. ASSUME NEW q \in Requests, StepThrows(q)
      PROVE  CallsInv'
  BY <1>6, StepThrowsDoes, AdvancedIsOK
<1>7. CASE Crash
  <2>1. /\ call' \in [Requests -> Calls] /\ settled' = settled
        /\ \A q \in Requests : call'[q].pc = "idle" /\ call'[q].targets = <<>> /\ call'[q].index = 1
    BY <1>7, CrashDoes, IdleType DEF QueueTypeOK
  <2>2. \A q \in Requests : <<>> \in Seq(Group[q])
    OBVIOUS
  <2> QED
    BY <2>1, <2>2 DEF CallsInv, CallOK, Running
<1>8. ASSUME NEW p \in People, OptOut(p) \/ OptIn(p)
      PROVE  CallsInv'
  BY <1>8, OptDoes
  DEF BooksKept, CallsInv, CallOK, Running
<1>9. CASE NewDay
  BY <1>9, NewDayDoes
  DEF CallsInv, CallOK, Running
<1>10. CASE UNCHANGED queueVars
  BY <1>10, QueueStutterDoes
  DEF BooksKept, CallsInv, CallOK, Running
<1> QED
  BY <1>1, <1>2, <1>3, <1>4, <1>5, <1>6, <1>7, <1>8, <1>9, <1>10
  DEF QueueNext, Handle

\* The types of the next state, but for what CallsInv says of the calls.
LEMMA QueueTypesAgain ==
  ASSUME CallsInv',
         history' \in [Keys -> [status: {"NONE", "QUEUED", "FAILED"}, to: People \cup {Nobody}]],
         jobs' \in [Keys -> People \cup {Nobody}],
         settled' \subseteq Requests, out' \subseteq People, today' \subseteq Keys,
         crashes' \in 0..MaxCrashes, hindered' \subseteq Requests, raced' \in BOOLEAN
  PROVE  QueueTypeOK'
<1>1. \A q \in Requests :
        /\ call'[q].pc \in CallPc /\ call'[q].targets \in Seq(Group[q]) /\ call'[q].allowance \in 0..DailyLimit
        /\ call'[q].index \in 1..Len(call'[q].targets) \/ call'[q].index = 1
  BY DEF CallsInv, CallOK, Calls, Running, CallPc
<1> QED
  BY <1>1 DEF QueueTypeOK

\* Every step keeps the types.
LEMMA QueueTypesKept ==
  ASSUME QueueTypeOK, CallsInv, CallsInv', IsFiniteSet(today), [QueueNext]_queueVars
  PROVE  QueueTypeOK'
<1>1. ASSUME NEW q \in Requests, Resolve(q)
      PROVE  QueueTypeOK'
  BY <1>1, ResolveDoes, QueueTypesAgain DEF BooksKept, QueueTypeOK
<1>2. ASSUME NEW q \in Requests, ResolveNobody(q)
      PROVE  QueueTypeOK'
  BY <1>2, ResolveNobodyDoes, QueueTypesAgain
  DEF Returned, CallIs, BooksKept, QueueTypeOK
<1>3. ASSUME NEW q \in Requests, CountAllowance(q)
      PROVE  QueueTypeOK'
  BY <1>3, CountAllowanceDoes, QueueTypesAgain DEF BooksKept, QueueTypeOK
<1>4. ASSUME NEW q \in Requests, Record(q)
      PROVE  QueueTypeOK'
  <2>1. settled' \subseteq Requests
    BY <1>4, RecordDoes DEF Advanced, Returned, GoesOn, QueueTypeOK
  <2>2. today' \subseteq Keys
    BY <1>4, RecordDoes, CurrentTarget DEF RowIs, QueueTypeOK
  <2> QED
    BY <1>4, <2>1, <2>2, RecordDoes, QueueTypesAgain DEF QueueTypeOK
<1>5. ASSUME NEW q \in Requests, AddJob(q)
      PROVE  QueueTypeOK'
  <2>1. settled' \subseteq Requests
    BY <1>5, AddJobDoes DEF Advanced, Returned, GoesOn, QueueTypeOK
  <2> QED
    BY <1>5, <2>1, AddJobDoes, QueueTypesAgain DEF QueueTypeOK
<1>6. ASSUME NEW q \in Requests, StepThrows(q)
      PROVE  QueueTypeOK'
  <2>1. settled' \subseteq Requests
    BY <1>6, StepThrowsDoes DEF Advanced, Returned, GoesOn, QueueTypeOK
  <2> QED
    BY <1>6, <2>1, StepThrowsDoes, QueueTypesAgain DEF QueueTypeOK, BooksKept
<1>7. CASE Crash
  BY <1>7, CrashDoes, QueueTypesAgain DEF QueueTypeOK, BooksKept
<1>8. ASSUME NEW p \in People, OptOut(p) \/ OptIn(p)
      PROVE  QueueTypeOK'
  BY <1>8, OptDoes, QueueTypesAgain
  DEF BooksKept, QueueTypeOK
<1>9. CASE NewDay
  BY <1>9, NewDayDoes, QueueTypesAgain
  DEF QueueTypeOK
<1>10. CASE UNCHANGED queueVars
  BY <1>10, QueueStutterDoes, QueueTypesAgain
  DEF BooksKept, QueueTypeOK
<1> QED
  BY <1>1, <1>2, <1>3, <1>4, <1>5, <1>6, <1>7, <1>8, <1>9, <1>10
  DEF QueueNext, Handle

-----------------------------------------------------------------------------
(* The daily limit.                                                        *)

\* The calls of the next state keep within what the limit leaves, when nothing was created.
LEMMA NothingCreated ==
  ASSUME LimitInv, today' \subseteq today, \A k \in today' : history'[k] = history[k], raced' = raced
  PROVE  /\ IsFiniteSet(today') /\ Cardinality(Limited) \in Nat /\ Cardinality(Limited') \in Nat
         /\ Cardinality(Limited') <= Cardinality(Limited)
         /\ ~ raced' => Cardinality(Limited') <= DailyLimit
<1>1. Limited' \subseteq Limited /\ Limited \subseteq today
  BY DEF Limited
<1>2. IsFiniteSet(today) /\ IsFiniteSet(today')
  BY FS_Subset DEF LimitInv
<1>3. IsFiniteSet(Limited)
  BY <1>1, <1>2, FS_Subset
<1>4. /\ Cardinality(Limited) \in Nat /\ Cardinality(Limited') \in Nat
      /\ Cardinality(Limited') <= Cardinality(Limited)
  BY <1>1, <1>3, FS_Subset, FS_CardinalityType
<1> QED
  BY <1>2, <1>4, RequestFacts DEF LimitInv

\* Where a call goes after a step that creates nothing.
LEMMA LimitFollows ==
  ASSUME QueueTypeOK, CallsInv, LimitInv, NEW q \in Requests,
         today' \subseteq today, \A k \in today' : history'[k] = history[k], raced' = raced,
         \A r \in Requests : r # q => call'[r] = call[r],
         \/ call'[q] = call[q]
         \/ call'[q].pc = "idle"
         \/ call'[q].pc = "resolved"
         \/ /\ call[q].pc \in {"recording", "adding"} /\ call'[q].pc = "recording"
            /\ call'[q].index = call[q].index + 1 /\ call'[q].allowance = call[q].allowance
         \/ /\ call[q].pc = "recording" /\ call'[q].pc = "adding"
            /\ call'[q].index = call[q].index /\ call'[q].allowance = call[q].allowance
  PROVE  LimitInv'
<1>1. /\ IsFiniteSet(today') /\ Cardinality(Limited) \in Nat /\ Cardinality(Limited') \in Nat
      /\ Cardinality(Limited') <= Cardinality(Limited)
      /\ ~ raced' => Cardinality(Limited') <= DailyLimit
  BY NothingCreated
<1>2. DailyLimit \in Nat /\ \A r \in Requests : call[r].index \in Nat /\ call[r].allowance \in Nat
  BY RequestFacts DEF CallsInv, Calls
<1>3. \A r \in Requests : LimitOK(r)
  BY DEF LimitInv
<1>4. ASSUME NEW r \in Requests, call'[r] = call[r]
      PROVE  LimitOK(r)'
  BY <1>1, <1>2, <1>3, <1>4 DEF LimitOK
<1>5. LimitOK(q)'
  <2>1. CASE call'[q] = call[q]
    BY <1>4, <2>1
  <2>2. CASE call'[q].pc \in {"idle", "resolved"}
    BY <2>2 DEF LimitOK
  <2>3. CASE /\ call[q].pc \in {"recording", "adding"} /\ call'[q].pc = "recording"
             /\ call'[q].index = call[q].index + 1 /\ call'[q].allowance = call[q].allowance
    BY <1>1, <1>2, <1>3, <2>3 DEF LimitOK
  <2>4. CASE /\ call[q].pc = "recording" /\ call'[q].pc = "adding"
             /\ call'[q].index = call[q].index /\ call'[q].allowance = call[q].allowance
    BY <1>1, <1>2, <1>3, <2>4 DEF LimitOK
  <2> QED
    BY <2>1, <2>2, <2>3, <2>4
<1> QED
  BY <1>1, <1>4, <1>5 DEF LimitInv

\* A row is created while no other call is between its count and its last row.
LEMMA LimitCreates ==
  ASSUME QueueTypeOK, CallsInv, LimitInv, NEW q \in Requests, Record(q), history[Key(q)].status = "NONE"
  PROVE  LimitInv'
<1>1. /\ call[q].pc = "recording" /\ RowIs(q) /\ Key(q) \in Keys /\ Key(q)[1] = q
      /\ \/ OverLimit(q) /\ Advanced(q)
         \/ ~ OverLimit(q) /\ CallIs(q, "adding", call[q].targets, call[q].index, call[q].allowance)
  BY RecordDoes, CurrentTarget
<1>2. /\ history'[Key(q)].status = IF OverLimit(q) THEN "FAILED" ELSE "QUEUED"
      /\ \A k \in Keys : k # Key(q) => history'[k] = history[k]
      /\ today' = today \cup {Key(q)} /\ today \subseteq Keys
      /\ raced' <=> raced \/ \E r \in Requests \ {q} : call[r].pc \in {"recording", "adding"}
  BY <1>1 DEF RowIs, QueueTypeOK
<1>3. DailyLimit \in Nat /\ call[q].index \in Nat /\ call[q].allowance \in Nat
  BY RequestFacts DEF CallsInv, Calls
<1>4. IsFiniteSet(today) /\ Limited \subseteq today /\ IsFiniteSet(today')
  BY <1>2, FS_AddElement DEF LimitInv, Limited
<1>5. IsFiniteSet(Limited) /\ Cardinality(Limited) \in Nat
  BY <1>4, FS_Subset, FS_CardinalityType
<1>6. Key(q) \notin Limited
  BY DEF Limited
<1>7. CASE OverLimit(q) \/ q \in Unlimited \cup Replies
  <2>1. Limited' = Limited
    BY <1>1, <1>2, <1>6, <1>7 DEF Limited
  <2>2. \A r \in Requests : LimitOK(r)'
    <3>1. CASE raced'
      BY <3>1 DEF LimitOK
    <3>2. CASE ~ raced'
      <4>1. ASSUME NEW r \in Requests, r # q
            PROVE  LimitOK(r)'
        BY <1>1, <1>2, <3>2, <4>1 DEF LimitOK, Advanced, Returned, GoesOn, CallIs
      <4>2. LimitOK(q)'
        BY <1>1, <1>3, <1>7 DEF LimitOK, Advanced, Returned, GoesOn, CallIs, OverLimit
      <4> QED
        BY <4>1, <4>2
    <3> QED
      BY <3>1, <3>2
  <2> QED
    BY <1>2, <1>4, <2>1, <2>2 DEF LimitInv
<1>8. CASE ~ OverLimit(q) /\ q \notin Unlimited \cup Replies
  <2>1. Limited' = Limited \cup {Key(q)}
    BY <1>1, <1>2, <1>6, <1>8 DEF Limited
  <2>2. Cardinality(Limited') = Cardinality(Limited) + 1
    BY <1>5, <1>6, <2>1, FS_AddElement
  <2>3. CASE raced'
    BY <1>4, <2>3 DEF LimitInv, LimitOK
  <2>4. CASE ~ raced'
    <3>1. Cardinality(Limited) + call[q].allowance - call[q].index + 1 <= DailyLimit /\ call[q].index <= call[q].allowance
      BY <1>1, <1>2, <1>3, <1>8, <2>4 DEF LimitInv, LimitOK, OverLimit
    <3>2. Cardinality(Limited') <= DailyLimit
      BY <1>3, <1>5, <2>2, <3>1
    <3>3. LimitOK(q)'
      BY <1>1, <1>3, <1>5, <1>8, <2>2, <3>1 DEF LimitOK, CallIs
    <3>4. ASSUME NEW r \in Requests, r # q
          PROVE  LimitOK(r)'
      BY <1>1, <1>2, <1>8, <2>4, <3>4 DEF LimitOK, CallIs
    <3> QED
      BY <1>4, <3>2, <3>3, <3>4 DEF LimitInv
  <2> QED
    BY <2>3, <2>4
<1> QED
  BY <1>7, <1>8

\* Within one call at a time, the day's limited messages and what the call may still
\* send stay within the limit.
LEMMA LimitStays ==
  ASSUME QueueTypeOK, CallsInv, LimitInv, [QueueNext]_queueVars
  PROVE  LimitInv'
<1>1. ASSUME NEW q \in Requests, Resolve(q)
      PROVE  LimitInv'
  BY <1>1, ResolveDoes, LimitFollows DEF BooksKept, CallIs
<1>2. ASSUME NEW q \in Requests, ResolveNobody(q)
      PROVE  LimitInv'
  BY <1>2, ResolveNobodyDoes, LimitFollows DEF BooksKept, Returned, CallIs
<1>3. ASSUME NEW q \in Requests, CountAllowance(q)
      PROVE  LimitInv'
  <2>1. PICK a \in 0..DailyLimit :
          /\ CallIs(q, "recording", call[q].targets, call[q].index, a)
          /\ a > 0 => Cardinality(today) + a <= DailyLimit
    BY <1>3, CountAllowanceDoes DEF LimitInv
  <2>2. UNCHANGED <<history, today, raced>> /\ call[q].index = 1
    BY <1>3, CountAllowanceDoes DEF LimitInv, BooksKept, CallsInv, CallOK
  <2>3. Limited' = Limited /\ Limited \subseteq today
    BY <2>2 DEF Limited
  <2>4. /\ Cardinality(Limited) \in Nat /\ Cardinality(today) \in Nat /\ DailyLimit \in Nat
        /\ Cardinality(Limited) <= Cardinality(today)
    BY <2>3, FS_Subset, FS_CardinalityType, RequestFacts DEF LimitInv
  <2>5. LimitOK(q)'
    BY <2>1, <2>2, <2>3, <2>4 DEF LimitOK, CallIs
  <2>6. ASSUME NEW r \in Requests, r # q
        PROVE  LimitOK(r)'
    BY <2>1, <2>2, <2>3, <2>6 DEF LimitInv, LimitOK, CallIs
  <2> QED
    BY <2>2, <2>3, <2>5, <2>6 DEF LimitInv
<1>4. ASSUME NEW q \in Requests, Record(q)
      PROVE  LimitInv'
  <2>1. CASE history[Key(q)].status = "NONE"
    BY <1>4, <2>1, LimitCreates DEF LimitInv
  <2>2. CASE history[Key(q)].status # "NONE"
    <3>1. UNCHANGED <<history, today>> /\ raced' = raced
      BY <1>4, <2>2, RecordDoes DEF RowIs, QueueTypeOK
    <3> QED
      BY <1>4, <3>1, RecordDoes, LimitFollows DEF Advanced, Returned, GoesOn, CallIs
  <2> QED
    BY <2>1, <2>2
<1>5. ASSUME NEW q \in Requests, AddJob(q)
      PROVE  LimitInv'
  BY <1>5, AddJobDoes, LimitFollows DEF Advanced, Returned, GoesOn, CallIs
<1>6. ASSUME NEW q \in Requests, StepThrows(q)
      PROVE  LimitInv'
  BY <1>6, StepThrowsDoes, LimitFollows DEF BooksKept, Advanced, Returned, GoesOn, CallIs
<1>7. CASE Crash
  <2>1. UNCHANGED <<history, today, raced>> /\ \A q \in Requests : call'[q].pc = "idle"
    BY <1>7, CrashDoes, IdleType DEF QueueTypeOK, BooksKept
  <2>2. Limited' = Limited
    BY <2>1 DEF Limited
  <2> QED
    BY <2>1, <2>2 DEF LimitInv, LimitOK
<1>8. ASSUME NEW p \in People, OptOut(p) \/ OptIn(p)
      PROVE  LimitInv'
  <2>1. UNCHANGED <<history, today, raced, call>>
    BY <1>8, OptDoes DEF BooksKept
  <2>2. Limited' = Limited
    BY <2>1 DEF Limited
  <2> QED
    BY <2>1, <2>2 DEF LimitInv, LimitOK
<1>9. CASE NewDay
  <2>1. today' = {} /\ UNCHANGED <<call, raced>>
    BY <1>9, NewDayDoes
  <2>2. Limited' = {} /\ IsFiniteSet(today') /\ Cardinality(Limited') = 0
    BY <2>1, FS_EmptySet DEF Limited
  <2>3. /\ DailyLimit \in Nat
        /\ \A r \in Requests : call[r].allowance \in Nat /\ call[r].allowance <= DailyLimit
        /\ \A r \in Requests : call[r].pc # "idle" => call[r].index \in Nat /\ call[r].index >= 1
    BY RequestFacts DEF CallsInv, CallOK, Calls, Running
  <2>4. ASSUME NEW r \in Requests
        PROVE  LimitOK(r)'
    <3>1. CASE call[r].pc \in {"recording", "adding"}
      <4>1. /\ 0 + call[r].allowance - call[r].index + 1 <= DailyLimit
            /\ 0 + call[r].allowance - call[r].index <= DailyLimit
        BY <2>3, <3>1
      <4> QED
        BY <2>1, <2>2, <4>1 DEF LimitOK
    <3>2. CASE call[r].pc \notin {"recording", "adding"}
      BY <2>1, <3>2 DEF LimitOK
    <3> QED
      BY <3>1, <3>2
  <2> QED
    BY <2>2, <2>3, <2>4 DEF LimitInv
<1>10. CASE UNCHANGED queueVars
  <2>1. UNCHANGED <<history, today, raced, call>>
    BY <1>10, QueueStutterDoes DEF BooksKept
  <2>2. Limited' = Limited
    BY <2>1 DEF Limited
  <2> QED
    BY <2>1, <2>2 DEF LimitInv, LimitOK
<1> QED
  BY <1>1, <1>2, <1>3, <1>4, <1>5, <1>6, <1>7, <1>8, <1>9, <1>10
  DEF QueueNext, Handle

-----------------------------------------------------------------------------
(* Every target is accounted for.                                          *)

\* What a step of one request leaves alone of another.
LEMMA CompleteElsewhere ==
  ASSUME QueueTypeOK, CallsInv, NEW r \in Requests, CompleteOK(r), call'[r] = call[r],
         r \in hindered => r \in hindered', r \in settled' <=> r \in settled,
         \A k \in Keys : k[1] = r => history'[k] = history[k] /\ jobs'[k] = jobs[k]
  PROVE  CompleteOK(r)'
<1>1. Key(r)' = Key(r) /\ (Running(r)' <=> Running(r)) /\ Target(r)' = Target(r)
  BY DEF Key, Running, Target
<1>2. FreshOK(r)'
  BY <1>1 DEF CompleteOK, FreshOK, Untouched
<1>3. SettledOK(r)'
  BY DEF CompleteOK, SettledOK, Done
<1>4. DoneOK(r)'
  <2>1. ASSUME r \notin hindered', Running(r)'
        PROVE  /\ \A i \in DOMAIN call[r].targets :
                    i < call[r].index => Done(KeyIn(r, call[r].targets, i), call[r].targets[i])'
               /\ call[r].pc = "adding" => history'[Key(r)].to = Target(r)
    <3>1. DoneOK(r) /\ r \notin hindered /\ Running(r)
      BY <1>1, <2>1 DEF CompleteOK
    <3>2. \A i \in DOMAIN call[r].targets : KeyIn(r, call[r].targets, i) \in Keys /\ KeyIn(r, call[r].targets, i)[1] = r
      BY <3>1, CurrentTarget, KeysDiffer
    <3>3. Key(r) \in Keys /\ Key(r)[1] = r
      BY <3>1, CurrentTarget
    <3> QED
      BY <3>1, <3>2, <3>3 DEF DoneOK, Done
  <2> QED
    BY <1>1, <2>1 DEF DoneOK
<1> QED
  BY <1>2, <1>3, <1>4 DEF CompleteOK

\* The loop leaves a target that is done with.
LEMMA CompleteGoesOn ==
  ASSUME QueueTypeOK, CallsInv, NEW q \in Requests, Running(q), Advanced(q),
         NEW ts, NEW n, ts = call[q].targets, n = call[q].index,
         \A i \in DOMAIN ts : i <= n => Done(KeyIn(q, ts, i), ts[i])',
         \A k \in Keys : k[1] = q =>
            \/ history'[k].status = "NONE" /\ jobs'[k] = Nobody
            \/ \E i \in DOMAIN ts : i <= n /\ k = KeyIn(q, ts, i)
  PROVE  CompleteOK(q)'
<1>1. ts \in Seq(People) /\ Distinct(ts) /\ n \in 1..Len(ts) /\ q \notin settled
  BY DEF Running, CallsInv, CallOK, Calls
<1>2. \A i \in DOMAIN ts : KeyIn(q, ts, i) \in Keys /\ KeyIn(q, ts, i)[1] = q
  BY <1>1, KeysDiffer
<1>3. CASE GoesOn(q)
  <2>1. /\ call'[q].pc = "recording" /\ call'[q].targets = ts /\ call'[q].index = n + 1
        /\ settled' = settled
    BY <1>3 DEF GoesOn, CallIs
  <2>2. \A i \in DOMAIN ts : i < n + 1 <=> i <= n
    BY <1>1
  <2>3. FreshOK(q)'
    BY <2>1, <2>2 DEF FreshOK, Untouched
  <2>4. DoneOK(q)'
    BY <2>1, <2>2 DEF DoneOK
  <2> QED
    BY <1>1, <2>1, <2>3, <2>4 DEF CompleteOK, SettledOK
<1>4. CASE n = Len(ts) /\ Returned(q)
  <2>1. /\ call'[q].pc = "idle" /\ call'[q].targets = ts /\ q \in settled'
    BY <1>4 DEF Returned, CallIs
  <2>2. \A i \in DOMAIN ts : i <= n
    BY <1>1, <1>4
  <2>3. SettledOK(q)'
    BY <1>2, <2>1, <2>2 DEF SettledOK
  <2> QED
    BY <2>1, <2>3 DEF CompleteOK, FreshOK, DoneOK, Running
<1> QED
  BY <1>3, <1>4 DEF Advanced

\* Until something hinders it, a request finds its next key untouched.
LEMMA NextKeyIsFree ==
  ASSUME QueueTypeOK, CallsInv, NEW q \in Requests, Running(q), CompleteOK(q), q \notin hindered
  PROVE  /\ \A i \in DOMAIN call[q].targets :
              i # call[q].index => KeyIn(q, call[q].targets, i) # Key(q)
         /\ jobs[Key(q)] = Nobody
         /\ call[q].pc # "adding" => history[Key(q)].status = "NONE"
<1>1. PICK ts, n : ts = call[q].targets /\ n = call[q].index
  OBVIOUS
<1>2. ts \in Seq(People) /\ Distinct(ts) /\ n \in DOMAIN ts /\ q \notin settled /\ n \in Nat
  BY <1>1, CurrentTarget DEF Running, CallsInv, CallOK, Calls
<1>3. Key(q) = KeyIn(q, ts, n) /\ Key(q) \in Keys /\ Key(q)[1] = q
  BY <1>1, CurrentTarget
<1>4. \A i \in DOMAIN ts : KeyIn(q, ts, i) = KeyIn(q, ts, n) => i = n
  BY <1>2, KeysDiffer
<1>5. \A i \in DOMAIN ts : i < n => KeyIn(q, ts, i) # Key(q)
  BY <1>2, <1>3, <1>4
<1> QED
  BY <1>1, <1>2, <1>3, <1>4, <1>5 DEF CompleteOK, FreshOK, Untouched

\* What a call has passed has its row, and its job if it may have one.
LEMMA CompleteStays ==
  ASSUME QueueTypeOK, CallsInv, IsFiniteSet(today), CompleteInv, [QueueNext]_queueVars
  PROVE  CompleteInv'
<1>1. ASSUME NEW q \in Requests, Resolve(q)
      PROVE  CompleteInv'
  <2>1. ASSUME NEW r \in Requests, r # q
        PROVE  CompleteOK(r)'
    BY <1>1, <2>1, ResolveDoes, CompleteElsewhere DEF CompleteInv, BooksKept, Advanced, Returned, GoesOn, CallIs
  <2>2. CompleteOK(q)'
    <3>1. PICK ts \in Seq(Group[q]) : CallIs(q, "resolved", ts, 1, 0)
      BY <1>1, ResolveDoes
    <3>2. /\ q \notin settled /\ settled' = settled /\ hindered' = hindered
          /\ \A k \in Keys : history'[k] = history[k] /\ jobs'[k] = jobs[k]
          /\ call[q].index = 1 /\ call[q].pc = "idle" /\ call[q].targets \in Seq(Group[q])
      BY <1>1, ResolveDoes DEF BooksKept, CallsInv, CallOK, Running
    <3>3. q \notin hindered => \A k \in Keys : k[1] = q => Untouched(k)
      BY <3>2 DEF CompleteInv, CompleteOK, FreshOK
    <3> QED
      BY <3>1, <3>2, <3>3 DEF CallIs, CompleteOK, FreshOK, DoneOK, SettledOK, Untouched
  <2> QED
    BY <2>1, <2>2 DEF CompleteInv
<1>2. ASSUME NEW q \in Requests, ResolveNobody(q)
      PROVE  CompleteInv'
  <2>1. ASSUME NEW r \in Requests, r # q
        PROVE  CompleteOK(r)'
    BY <1>2, <2>1, ResolveNobodyDoes, CompleteElsewhere DEF CompleteInv, BooksKept, Advanced, Returned, GoesOn, CallIs
  <2>2. CompleteOK(q)'
    <3>1. call[q].targets = <<>>
      BY <1>2, ResolveNobodyDoes DEF CallsInv, CallOK
    <3>2. call'[q].targets = <<>> /\ call'[q].pc = "idle" /\ q \in settled'
      BY <1>2, <3>1, ResolveNobodyDoes DEF Returned, CallIs
    <3> QED
      BY <3>2 DEF CompleteOK, FreshOK, DoneOK, SettledOK, Running
  <2> QED
    BY <2>1, <2>2 DEF CompleteInv
<1>3. ASSUME NEW q \in Requests, CountAllowance(q)
      PROVE  CompleteInv'
  <2>1. ASSUME NEW r \in Requests, r # q
        PROVE  CompleteOK(r)'
    BY <1>3, <2>1, CountAllowanceDoes, CompleteElsewhere DEF CompleteInv, BooksKept, Advanced, Returned, GoesOn, CallIs
  <2>2. CompleteOK(q)'
    <3>1. PICK a : CallIs(q, "recording", call[q].targets, call[q].index, a)
      BY <1>3, CountAllowanceDoes
    <3>2. /\ settled' = settled /\ hindered' = hindered /\ history' = history /\ jobs' = jobs
          /\ Running(q) /\ call[q].pc = "resolved" /\ q \notin settled
      BY <1>3, CountAllowanceDoes DEF BooksKept, CallsInv, CallOK, Running
    <3>3. CompleteOK(q)
      BY DEF CompleteInv
    <3>4. FreshOK(q)'
      BY <3>1, <3>2, <3>3 DEF CallIs, CompleteOK, FreshOK, Untouched
    <3>5. DoneOK(q)'
      BY <3>1, <3>2, <3>3 DEF CallIs, CompleteOK, DoneOK, Done
    <3> QED
      BY <3>2, <3>4, <3>5 DEF CompleteOK, SettledOK
  <2> QED
    BY <2>1, <2>2 DEF CompleteInv
<1>4. ASSUME NEW q \in Requests, Record(q)
      PROVE  CompleteInv'
  <2>1. ASSUME NEW r \in Requests, r # q
        PROVE  CompleteOK(r)'
    <3>1. Key(q)[1] = q /\ jobs' = jobs /\ RowIs(q)
      BY <1>4, RecordDoes, CurrentTarget
    <3>2. \A k \in Keys : k[1] = r => history'[k] = history[k]
      BY <2>1, <3>1 DEF RowIs
    <3> QED
      BY <1>4, <2>1, <3>1, <3>2, RecordDoes, CompleteElsewhere DEF CompleteInv, Advanced, Returned, GoesOn, CallIs
  <2>2. CompleteOK(q)'
    <3>1. /\ Running(q) /\ call[q].pc = "recording" /\ RowIs(q) /\ jobs' = jobs /\ hindered' = hindered
          /\ CompleteOK(q) /\ q \notin settled
      BY <1>4, RecordDoes DEF CompleteInv, CallsInv, CallOK
    <3>2. CASE q \in hindered
      <4>1. q \in hindered'
        BY <3>1, <3>2
      <4> QED
        BY <4>1 DEF CompleteOK, FreshOK, DoneOK, SettledOK
    <3>3. CASE q \notin hindered
      <4>1. PICK ts, n : ts = call[q].targets /\ n = call[q].index
        OBVIOUS
      <4>2. /\ n \in DOMAIN ts /\ n \in Nat /\ ts \in Seq(People) /\ Key(q) = KeyIn(q, ts, n) /\ Target(q) = ts[n]
            /\ Key(q) \in Keys /\ Key(q)[1] = q
            /\ \A i \in DOMAIN ts : i # n => KeyIn(q, ts, i) # Key(q)
            /\ \A i \in DOMAIN ts : KeyIn(q, ts, i) \in Keys /\ i \in Nat
            /\ history[Key(q)].status = "NONE" /\ jobs[Key(q)] = Nobody
        BY <3>1, <3>3, <4>1, CurrentTarget, KeysDiffer, NextKeyIsFree DEF Target
      <4>3. /\ history'[Key(q)].to = ts[n] /\ (OverLimit(q) => history'[Key(q)].status = "FAILED")
            /\ \A k \in Keys : k # Key(q) => history'[k] = history[k]
        BY <3>1, <4>2 DEF RowIs
      <4>4. \A i \in DOMAIN ts : i < n => Done(KeyIn(q, ts, i), ts[i])
        BY <3>1, <3>3, <4>1 DEF CompleteOK, DoneOK
      <4>5. \A i \in DOMAIN ts : i < n => Done(KeyIn(q, ts, i), ts[i])'
        BY <3>1, <4>2, <4>3, <4>4 DEF Done
      <4>6. \A k \in Keys : k[1] = q =>
              \/ Untouched(k)
              \/ \E i \in DOMAIN ts : i < n /\ k = KeyIn(q, ts, i)
        BY <3>1, <3>3, <4>1 DEF CompleteOK, FreshOK
      <4>7. \A k \in Keys : k[1] = q =>
              \/ k = KeyIn(q, ts, n)
              \/ Untouched(k)'
              \/ \E i \in DOMAIN ts : i < n /\ k = KeyIn(q, ts, i)
        BY <3>1, <4>2, <4>3, <4>6 DEF Untouched
      <4>8. CASE OverLimit(q) /\ Advanced(q)
        <5>1. Done(KeyIn(q, ts, n), ts[n])'
          BY <4>2, <4>3, <4>8 DEF Done
        <5>2. \A i \in DOMAIN ts : i <= n => Done(KeyIn(q, ts, i), ts[i])'
          BY <4>2, <4>5, <5>1
        <5>3. \A k \in Keys : k[1] = q =>
                \/ history'[k].status = "NONE" /\ jobs'[k] = Nobody
                \/ \E i \in DOMAIN ts : i <= n /\ k = KeyIn(q, ts, i)
          BY <4>2, <4>7 DEF Untouched
        <5> QED
          BY <3>1, <4>1, <4>8, <5>2, <5>3, CompleteGoesOn
      <4>9. CASE CallIs(q, "adding", call[q].targets, call[q].index, call[q].allowance) /\ settled' = settled
        <5>1. call'[q].pc = "adding" /\ call'[q].targets = ts /\ call'[q].index = n
          BY <4>1, <4>9 DEF CallIs
        <5>2. Key(q)' = KeyIn(q, ts, n) /\ Target(q)' = ts[n]
          BY <5>1 DEF Key, KeyIn, Target
        <5>3. FreshOK(q)'
          BY <3>1, <4>2, <4>7, <5>1, <5>2 DEF FreshOK, Untouched
        <5>4. DoneOK(q)'
          BY <4>2, <4>3, <4>5, <5>1, <5>2 DEF DoneOK
        <5> QED
          BY <3>1, <4>9, <5>3, <5>4 DEF CompleteOK, SettledOK
      <4> QED
        BY <1>4, <4>8, <4>9, RecordDoes
    <3> QED
      BY <3>2, <3>3
  <2> QED
    BY <2>1, <2>2 DEF CompleteInv
<1>5. ASSUME NEW q \in Requests, AddJob(q)
      PROVE  CompleteInv'
  <2>1. ASSUME NEW r \in Requests, r # q
        PROVE  CompleteOK(r)'
    <3>1. Key(q)[1] = q
      BY <1>5, AddJobDoes, CurrentTarget
    <3>2. \A k \in Keys : k[1] = r => history'[k] = history[k] /\ jobs'[k] = jobs[k]
      BY <1>5, <2>1, <3>1, AddJobDoes
    <3> QED
      BY <1>5, <2>1, <3>2, AddJobDoes, CompleteElsewhere DEF CompleteInv, Advanced, Returned, GoesOn, CallIs
  <2>2. CompleteOK(q)'
    <3>1. /\ Running(q) /\ call[q].pc = "adding" /\ history' = history /\ hindered' = hindered
          /\ CompleteOK(q) /\ q \notin settled
      BY <1>5, AddJobDoes DEF CompleteInv, CallsInv, CallOK
    <3>2. CASE q \in hindered
      <4>1. q \in hindered'
        BY <3>1, <3>2
      <4> QED
        BY <4>1 DEF CompleteOK, FreshOK, DoneOK, SettledOK
    <3>3. CASE q \notin hindered
      <4>1. PICK ts, n : ts = call[q].targets /\ n = call[q].index
        OBVIOUS
      <4>2. /\ n \in DOMAIN ts /\ n \in Nat /\ ts \in Seq(People) /\ Key(q) = KeyIn(q, ts, n) /\ Target(q) = ts[n]
            /\ Key(q) \in Keys /\ Key(q)[1] = q
            /\ \A i \in DOMAIN ts : i # n => KeyIn(q, ts, i) # Key(q)
            /\ \A i \in DOMAIN ts : KeyIn(q, ts, i) \in Keys /\ i \in Nat
            /\ jobs[Key(q)] = Nobody
        BY <3>1, <3>3, <4>1, CurrentTarget, KeysDiffer, NextKeyIsFree DEF Target
      <4>3. jobs'[Key(q)] = ts[n] /\ \A k \in Keys : k # Key(q) => jobs'[k] = jobs[k]
        BY <1>5, <4>2, AddJobDoes
      <4>4. (\A i \in DOMAIN ts : i < n => Done(KeyIn(q, ts, i), ts[i])) /\ history[Key(q)].to = ts[n]
        BY <3>1, <3>3, <4>1, <4>2 DEF CompleteOK, DoneOK
      <4>5. \A i \in DOMAIN ts : i < n => Done(KeyIn(q, ts, i), ts[i])'
        BY <3>1, <4>2, <4>3, <4>4 DEF Done
      <4>6. Done(KeyIn(q, ts, n), ts[n])'
        BY <3>1, <4>2, <4>3, <4>4 DEF Done
      <4>7. \A i \in DOMAIN ts : i <= n => Done(KeyIn(q, ts, i), ts[i])'
        BY <4>2, <4>5, <4>6
      <4>8. \A k \in Keys : k[1] = q =>
              \/ Untouched(k)
              \/ k = Key(q)
              \/ \E i \in DOMAIN ts : i < n /\ k = KeyIn(q, ts, i)
        BY <3>1, <3>3, <4>1 DEF CompleteOK, FreshOK
      <4>9. \A k \in Keys : k[1] = q =>
              \/ history'[k].status = "NONE" /\ jobs'[k] = Nobody
              \/ \E i \in DOMAIN ts : i <= n /\ k = KeyIn(q, ts, i)
        BY <3>1, <4>2, <4>3, <4>8 DEF Untouched
      <4> QED
        BY <1>5, <3>1, <4>1, <4>7, <4>9, AddJobDoes, CompleteGoesOn
    <3> QED
      BY <3>2, <3>3
  <2> QED
    BY <2>1, <2>2 DEF CompleteInv
<1>6. ASSUME NEW q \in Requests, StepThrows(q)
      PROVE  CompleteInv'
  <2>1. ASSUME NEW r \in Requests, r # q
        PROVE  CompleteOK(r)'
    BY <1>6, <2>1, StepThrowsDoes, CompleteElsewhere DEF CompleteInv, BooksKept, Advanced, Returned, GoesOn, CallIs
  <2>2. CompleteOK(q)'
    BY <1>6, StepThrowsDoes DEF CompleteOK, FreshOK, DoneOK, SettledOK
  <2> QED
    BY <2>1, <2>2 DEF CompleteInv
<1>7. CASE Crash
  <2> SUFFICES ASSUME NEW q \in Requests
               PROVE  CompleteOK(q)'
    BY DEF CompleteInv
  <2>1. /\ call'[q].pc = "idle" /\ call'[q].targets = <<>> /\ call'[q].index = 1
        /\ settled' = settled /\ hindered \subseteq hindered' /\ (Running(q) => q \in hindered')
        /\ history' = history /\ jobs' = jobs
    BY <1>7, CrashDoes, IdleType DEF QueueTypeOK, BooksKept
  <2>2. ~ Running(q) => call[q].pc = "idle" /\ call[q].index = 1 /\ call[q].targets \in Seq(Group[q])
    BY DEF Running, CallsInv, CallOK
  <2>3. FreshOK(q)'
    BY <2>1, <2>2 DEF CompleteInv, CompleteOK, FreshOK, Untouched
  <2> QED
    BY <2>1, <2>3 DEF CompleteOK, DoneOK, SettledOK, Running
<1>8. ASSUME NEW p \in People, OptOut(p) \/ OptIn(p)
      PROVE  CompleteInv'
  BY <1>8, OptDoes, CompleteElsewhere DEF CompleteInv, BooksKept
<1>9. CASE NewDay
  BY <1>9, NewDayDoes, CompleteElsewhere DEF CompleteInv, BooksKept
<1>10. CASE UNCHANGED queueVars
  BY <1>10, QueueStutterDoes, CompleteElsewhere DEF CompleteInv, BooksKept
<1> QED
  BY <1>1, <1>2, <1>3, <1>4, <1>5, <1>6, <1>7, <1>8, <1>9, <1>10
  DEF QueueNext, Handle

-----------------------------------------------------------------------------
(* Nobody is sent twice.                                                   *)

\* The keys of one request.
LEMMA KeysOf ==
  ASSUME NEW q \in Requests
  PROVE  /\ <<q, First>> \in Keys /\ \A p \in People : <<q, p>> \in Keys
         /\ \A k \in Keys : k[1] = q => k = <<q, First>> \/ \E p \in People : k = <<q, p>>
         /\ \A p \in People : <<q, p>> # <<q, First>> /\ p # Nobody
         /\ \A p, u \in People : <<q, p>> = <<q, u>> => p = u
  BY RequestFacts DEF Keys, Nobody

\* The first of the targets is one of them.
LEMMA FirstInOrder ==
  ASSUME NEW q \in Requests, Reachable(q) # {}
  PROVE  InOrder(q)[1] \in People
<1>1. IsFiniteSet(Reachable(q)) /\ Reachable(q) \subseteq People
  BY RequestFacts, FS_Subset
<1>2. Cardinality(Reachable(q)) \in Nat /\ Cardinality(Reachable(q)) # 0
      /\ Bijection(1..Cardinality(Reachable(q)), Reachable(q)) # {}
  BY <1>1, FS_CardinalityType, FS_EmptySet DEF ExistsBijection
<1>3. InOrder(q) \in [1..Cardinality(Reachable(q)) -> Reachable(q)]
  BY <1>2 DEF InOrder, Bijection, Injection
<1> QED
  BY <1>1, <1>2, <1>3

\* What a step leaves alone of a request that it gives no job.
LEMMA OnceElsewhere ==
  ASSUME NEW r \in Requests, OnceOK(r),
         r \in settled => r \in settled',
         r \in hindered => r \in hindered',
         Running(r) => Running(r)' \/ r \in hindered' \/ r \in settled',
         Running(r)' => Reachable(r) # {} /\ call'[r].targets = InOrder(r),
         \A k \in Keys : k[1] = r => jobs'[k] = jobs[k],
         Reachable(r)' = Reachable(r)
  PROVE  OnceOK(r)'
<1>1. \A p \in People : jobs'[<<r, p>>] = jobs[<<r, p>>]
  BY KeysOf
<1>2. jobs'[<<r, First>>] = jobs[<<r, First>>]
  BY KeysOf
<1>3. HasJobs(r)' <=> HasJobs(r)
  BY DEF HasJobs, Keys, Nobody
<1>4. InOrder(r)' = InOrder(r)
  BY DEF InOrder
<1>5. r \notin settled' /\ HasJobs(r)' =>
       /\ Running(r)' \/ r \in hindered'
       /\ Reachable(r) # {} /\ InOrder(r)[1] \in People
       /\ jobs[<<r, First>>] \in {Nobody, InOrder(r)[1]}
       /\ jobs[<<r, InOrder(r)[1]>>] = Nobody
  BY <1>3, FirstInOrder DEF OnceOK
<1>6. \A p \in People : /\ jobs[<<r, p>>] \in {Nobody, p}
                        /\ jobs[<<r, First>>] = p => jobs[<<r, p>>] = Nobody
  BY DEF OnceOK
<1> QED
  BY <1>1, <1>2, <1>4, <1>5, <1>6 DEF OnceOK, Nobody

\* Calls that go on, and rows, give nobody a job.
LEMMA OnceFollows ==
  ASSUME CallsInv, \A q \in Requests : OnceOK(q), NEW q \in Requests, jobs' = jobs, out' = out,
         \A r \in Requests : r # q => call'[r] = call[r],
         settled \subseteq settled' /\ hindered \subseteq hindered',
         \/ q \in settled' /\ call'[q].pc = "idle"
         \/ /\ Running(q) /\ call'[q].pc # "idle" /\ call'[q].targets = call[q].targets
         \/ /\ ~ Running(q) /\ Reachable(q) # {} /\ call'[q].targets = InOrder(q)
  PROVE  (\A r \in Requests : OnceOK(r))'
<1> SUFFICES ASSUME NEW r \in Requests
             PROVE  OnceOK(r)'
  OBVIOUS
<1>1. Reachable(r)' = Reachable(r) /\ OnceOK(r)
  BY DEF Reachable
<1>2. CASE r # q
  BY <1>1, <1>2, OnceElsewhere DEF OnceOK, Running
<1>3. CASE r = q
  BY <1>1, <1>3, OnceElsewhere DEF OnceOK, Running
<1> QED
  BY <1>2, <1>3

\* A job more, of the order that all runs share.
LEMMA AddedJob ==
  ASSUME NEW q \in Requests, Reachable(q)' # {}, Advanced(q), call[q].targets = InOrder(q)',
         jobs'[<<q, First>>] \in {Nobody, InOrder(q)'[1]}, jobs'[<<q, InOrder(q)'[1]>>] = Nobody,
         \A p \in People : jobs'[<<q, p>>] \in {Nobody, p},
         \A p \in People : jobs'[<<q, First>>] = p => jobs'[<<q, p>>] = Nobody
  PROVE  OnceOK(q)'
<1>1. CASE Returned(q)
  BY <1>1 DEF Returned, CallIs, OnceOK, Running, Nobody
<1>2. CASE GoesOn(q)
  BY <1>2 DEF GoesOn, CallIs, OnceOK, Running, Nobody
<1> QED
  BY <1>1, <1>2 DEF Advanced

\* Every run of a request gives its people the same keys.
LEMMA OnceStays ==
  ASSUME QueueTypeOK, CallsInv, IsFiniteSet(today), StableTargets, \A q \in Requests : OnceOK(q), [QueueNext]_queueVars
  PROVE  (\A q \in Requests : OnceOK(q))'
<1>1. ASSUME NEW q \in Requests, Resolve(q)
      PROVE  (\A r \in Requests : OnceOK(r))'
  BY <1>1, ResolveDoes, OnceFollows DEF BooksKept, CallIs
<1>2. ASSUME NEW q \in Requests, ResolveNobody(q)
      PROVE  (\A r \in Requests : OnceOK(r))'
  BY <1>2, ResolveNobodyDoes, OnceFollows DEF BooksKept, Returned, CallIs
<1>3. ASSUME NEW q \in Requests, CountAllowance(q)
      PROVE  (\A r \in Requests : OnceOK(r))'
  BY <1>3, CountAllowanceDoes, OnceFollows DEF BooksKept, CallIs, Running
<1>4. ASSUME NEW q \in Requests, Record(q)
      PROVE  (\A r \in Requests : OnceOK(r))'
  BY <1>4, RecordDoes, OnceFollows DEF Advanced, Returned, GoesOn, CallIs
<1>5. ASSUME NEW q \in Requests, AddJob(q)
      PROVE  (\A r \in Requests : OnceOK(r))'
  <2>1. ASSUME NEW r \in Requests, r # q
        PROVE  OnceOK(r)'
    <3>1. Key(q)[1] = q
      BY <1>5, AddJobDoes, CurrentTarget
    <3>2. \A k \in Keys : k[1] = r => jobs'[k] = jobs[k]
      BY <1>5, <2>1, <3>1, AddJobDoes
    <3>3. out' = out /\ hindered' = hindered /\ Advanced(q)
      BY <1>5, AddJobDoes
    <3>4. Reachable(r)' = Reachable(r)
      BY <3>3 DEF Reachable
    <3>5. call'[r] = call[r] /\ (r \in settled' <=> r \in settled)
      BY <2>1, <3>3 DEF Advanced, Returned, GoesOn, CallIs
    <3> QED
      BY <2>1, <3>2, <3>3, <3>4, <3>5, OnceElsewhere DEF OnceOK, Running
  <2>2. OnceOK(q)'
    <3>1. PICK ts, n : ts = call[q].targets /\ n = call[q].index
      OBVIOUS
    <3>2. /\ OnceOK(q) /\ ts = InOrder(q) /\ Reachable(q) # {} /\ q \notin settled
          /\ Reachable(q)' = Reachable(q) /\ InOrder(q)' = ts
      <4>1. Running(q) /\ out' = out
        BY <1>5, AddJobDoes
      <4>2. Reachable(q)' = Reachable(q)
        BY <4>1 DEF Reachable
      <4>3. InOrder(q)' = InOrder(q)
        BY <4>2 DEF InOrder
      <4>4. OnceOK(q) /\ q \notin settled
        BY <4>1 DEF CallsInv, CallOK
      <4>5. ts = InOrder(q) /\ Reachable(q) # {}
        BY <3>1, <4>1, <4>4 DEF OnceOK
      <4> QED
        BY <4>2, <4>3, <4>4, <4>5
    <3>3. /\ n \in DOMAIN ts /\ n \in Nat /\ ts \in Seq(People) /\ Distinct(ts) /\ Key(q) = KeyIn(q, ts, n)
          /\ Target(q) = ts[n] /\ 1 \in DOMAIN ts /\ ts[1] \in People /\ ts[n] \in People
      <4>1. /\ n \in DOMAIN ts /\ ts \in Seq(People) /\ Distinct(ts) /\ Key(q) = KeyIn(q, ts, n)
            /\ Target(q) = ts[n]
        BY <1>5, <3>1, AddJobDoes, CurrentTarget DEF Target
      <4>2. 1 \in DOMAIN ts /\ n \in Nat
        BY <4>1
      <4> QED
        BY <4>1, <4>2
    <3>4. /\ jobs[<<q, First>>] \in {Nobody, ts[1]} /\ jobs[<<q, ts[1]>>] = Nobody
          /\ \A p \in People : jobs[<<q, p>>] \in {Nobody, p}
      BY <3>2, <3>3, KeysOf DEF OnceOK, HasJobs
    <3>5. /\ jobs'[Key(q)] = IF jobs[Key(q)] = Nobody THEN ts[n] ELSE jobs[Key(q)]
          /\ \A k \in Keys : k # Key(q) => jobs'[k] = jobs[k]
      BY <1>5, <3>3, AddJobDoes
    <3>6. CASE n = 1
      <4>1. Key(q) = <<q, First>>
        BY <3>3, <3>6, KeysDiffer
      <4>2. jobs'[<<q, First>>] = ts[1] /\ \A p \in People : jobs'[<<q, p>>] = jobs[<<q, p>>]
        BY <3>3, <3>4, <3>5, <3>6, <4>1, KeysOf
      <4> QED
        BY <3>2, <3>3, <3>4, <4>2, KeysOf, AddedJob, <1>5, AddJobDoes, <3>1
    <3>7. CASE n # 1
      <4>1. Key(q) = <<q, ts[n]>> /\ ts[n] # ts[1]
        BY <3>3, <3>7, KeysDiffer DEF Distinct
      <4>2. jobs'[<<q, First>>] = jobs[<<q, First>>] /\ \A p \in People : p # ts[n] => jobs'[<<q, p>>] = jobs[<<q, p>>]
        BY <3>3, <3>5, <4>1, KeysOf
      <4>3. jobs'[<<q, ts[n]>>] = ts[n]
        BY <3>3, <3>4, <3>5, <4>1
      <4>4. /\ Reachable(q)' # {} /\ Advanced(q) /\ call[q].targets = InOrder(q)'
            /\ ts = InOrder(q)'
        BY <1>5, <3>1, <3>2, AddJobDoes
      <4>5. /\ ts[1] \in People /\ jobs'[<<q, First>>] \in {Nobody, ts[1]}
            /\ jobs'[<<q, ts[1]>>] = Nobody
            /\ \A p \in People : jobs'[<<q, p>>] \in {Nobody, p}
        BY <3>3, <3>4, <4>1, <4>2, <4>3
      <4>6. \A p \in People : jobs'[<<q, First>>] = p => jobs'[<<q, p>>] = Nobody
        BY <4>5, KeysOf
      <4> QED
        BY <4>4, <4>5, <4>6, AddedJob
    <3> QED
      BY <3>6, <3>7
  <2> QED
    BY <2>1, <2>2
<1>6. ASSUME NEW q \in Requests, StepThrows(q)
      PROVE  (\A r \in Requests : OnceOK(r))'
  BY <1>6, StepThrowsDoes, OnceFollows DEF BooksKept, Advanced, Returned, GoesOn, CallIs
<1>7. CASE Crash
  <2> SUFFICES ASSUME NEW r \in Requests
               PROVE  OnceOK(r)'
    OBVIOUS
  <2>1. /\ ~ Running(r)' /\ settled' = settled /\ hindered \subseteq hindered' /\ (Running(r) => r \in hindered')
        /\ jobs' = jobs /\ Reachable(r)' = Reachable(r)
    BY <1>7, CrashDoes, IdleType DEF QueueTypeOK, BooksKept, Running, Reachable
  <2> QED
    BY <2>1, OnceElsewhere
<1>8. ASSUME NEW p \in People, OptOut(p) \/ OptIn(p)
      PROVE  (\A q \in Requests : OnceOK(q))'
  <2> SUFFICES ASSUME NEW r \in Requests
               PROVE  OnceOK(r)'
    OBVIOUS
  <2>1. /\ MayChange(p) /\ UNCHANGED <<jobs, call, settled, hindered>>
        /\ \A u \in People : u # p => (u \in out' <=> u \in out)
    BY <1>8, OptDoes DEF BooksKept
  <2>2. CASE r \notin settled /\ (Running(r) \/ r \in hindered)
    <3>1. r \in Replies \/ p \notin Group[r]
      BY <2>1, <2>2 DEF MayChange
    <3>2. Reachable(r)' = Reachable(r)
      BY <2>1, <3>1, RequestFacts DEF Reachable
    <3> QED
      BY <2>1, <3>2, OnceElsewhere DEF OnceOK, Running
  <2>3. CASE ~ (r \notin settled /\ (Running(r) \/ r \in hindered))
    <3>1. ~ Running(r) /\ OnceOK(r)
      BY <2>3 DEF CallsInv, CallOK
    <3>2. ~ Running(r)' /\ (HasJobs(r)' <=> HasJobs(r))
      BY <2>1, <3>1 DEF Running, HasJobs, Keys, Nobody
    <3>3. r \in settled \/ ~ HasJobs(r)
      BY <2>3, <3>1 DEF OnceOK
    <3> QED
      BY <2>1, <3>1, <3>2, <3>3 DEF OnceOK, Nobody
  <2> QED
    BY <2>2, <2>3
<1>9. CASE NewDay
  <2> SUFFICES ASSUME NEW r \in Requests
               PROVE  OnceOK(r)'
    OBVIOUS
  <2>1. UNCHANGED <<jobs, call, settled, hindered>> /\ Reachable(r)' = Reachable(r)
    BY <1>9, NewDayDoes DEF BooksKept, Reachable
  <2> QED
    BY <2>1, OnceElsewhere DEF OnceOK, Running
<1>10. CASE UNCHANGED queueVars
  <2> SUFFICES ASSUME NEW r \in Requests
               PROVE  OnceOK(r)'
    OBVIOUS
  <2>1. UNCHANGED <<jobs, call, settled, hindered>> /\ Reachable(r)' = Reachable(r)
    BY <1>10, QueueStutterDoes DEF BooksKept, Reachable
  <2> QED
    BY <2>1, OnceElsewhere DEF OnceOK, Running
<1> QED
  BY <1>1, <1>2, <1>3, <1>4, <1>5, <1>6, <1>7, <1>8, <1>9, <1>10
  DEF QueueNext, Handle

-----------------------------------------------------------------------------
(* The theorems.                                                           *)

\* At first nothing runs, no row exists and nobody has a job.
LEMMA InitQueue ==
  ASSUME QueueInit
  PROVE  QueueInv
<1>1. /\ \A q \in Requests : call[q] = Idle
      /\ \A k \in Keys : history[k] = NoRow /\ history[k].status = "NONE" /\ jobs[k] = Nobody
      /\ settled = {} /\ hindered = {} /\ today = {} /\ raced = FALSE
      /\ out = {} /\ crashes = 0
  BY DEF QueueInit, NoRow
<1>2. CallsInv
  <2>1. call \in [Requests -> Calls]
    BY IdleType DEF QueueInit
  <2>2. \A q \in Requests : <<>> \in Seq(Group[q])
    OBVIOUS
  <2> QED
    BY <1>1, <2>1, <2>2, IdleType DEF CallsInv, CallOK, Running
<1>3. QueueTypeOK
  <2>1. NoRow \in [status: {"NONE", "QUEUED", "FAILED"}, to: People \cup {Nobody}]
    BY DEF NoRow
  <2>2. \A q \in Requests :
          /\ call[q].pc \in CallPc /\ call[q].targets \in Seq(Group[q]) /\ call[q].allowance \in 0..DailyLimit
          /\ call[q].index = 1
    BY <1>1, <1>2, IdleType DEF CallsInv, CallOK, Calls
  <2>3. 0 \in 0..MaxCrashes
    BY NotificationQueueingAssumption
  <2> QED
    BY <1>1, <2>1, <2>2, <2>3 DEF QueueTypeOK, QueueInit
<1>4. LimitInv
  <2>1. Limited = {} /\ IsFiniteSet(today)
    BY <1>1, FS_EmptySet DEF Limited
  <2>2. Cardinality(Limited) = 0 /\ DailyLimit \in Nat
    BY <2>1, FS_EmptySet, RequestFacts
  <2>3. Cardinality(Limited) <= DailyLimit
    BY <2>2
  <2>4. \A q \in Requests : LimitOK(q)
    BY <1>1, IdleType DEF LimitOK
  <2> QED
    BY <2>1, <2>3, <2>4 DEF LimitInv
<1>5. CompleteInv
  BY <1>1, IdleType DEF CompleteInv, CompleteOK, FreshOK, DoneOK, SettledOK, Untouched, Running
<1>6. OnceInv
  <2>1. \A q \in Requests : OnceOK(q)
    BY <1>1, IdleType, KeysOf DEF OnceOK, HasJobs, Running
  <2> QED
    BY <2>1 DEF OnceInv
<1> QED
  BY <1>2, <1>3, <1>4, <1>5, <1>6 DEF QueueInv

\* Every step keeps it.
LEMMA NextQueue ==
  ASSUME QueueInv, [QueueNext]_queueVars
  PROVE  QueueInv'
<1>1. QueueTypeOK /\ CallsInv /\ LimitInv /\ CompleteInv /\ OnceInv /\ IsFiniteSet(today)
  BY DEF QueueInv, LimitInv
<1>2. CallsInv'
  BY <1>1, CallsKept
<1>3. QueueTypeOK'
  BY <1>1, <1>2, QueueTypesKept
<1>4. LimitInv' /\ CompleteInv'
  BY <1>1, LimitStays, CompleteStays
<1>5. OnceInv'
  <2>1. CASE StableTargets
    BY <1>1, <2>1, OnceStays DEF OnceInv
  <2>2. CASE ~ StableTargets
    BY <2>2 DEF OnceInv
  <2> QED
    BY <2>1, <2>2
<1> QED
  BY <1>2, <1>3, <1>4, <1>5 DEF QueueInv

\* It always holds.
LEMMA AlwaysQueue == QueueSpec => []QueueInv
BY InitQueue, NextQueue, PTL DEF QueueSpec

\* Rows, jobs and calls keep their types, for any requests, people and limit.
THEOREM QueueingIsTyped == QueueSpec => []QueueTypeOK
<1>1. QueueInv => QueueTypeOK
  BY DEF QueueInv
<1> QED
  BY AlwaysQueue, <1>1, PTL

\* The limited messages that an institute creates on one day stay within its
\* limit, however many calls there are, as long as no two of them count and
\* create rows at the same time.
THEOREM TheLimitIsKept == QueueSpec => []LimitKept
<1>1. QueueInv => LimitKept
  BY DEF QueueInv, LimitInv, LimitKept, Limited
<1> QED
  BY AlwaysQueue, <1>1, PTL

\* When a handler has returned, each of its targets has a row that tells how it
\* went, held back by the limit or queued with a job, unless an error was
\* swallowed or a crash cut the call.
THEOREM EveryTargetIsAccountedFor == QueueSpec => []SettledIsComplete
<1>1. ASSUME QueueInv, NEW q \in settled \ hindered, NEW i \in DOMAIN call[q].targets
      PROVE  \E k \in Keys :
               /\ k[1] = q
               /\ history[k].to = call[q].targets[i]
               /\ history[k].status = "QUEUED" => jobs[k] = history[k].to
  BY <1>1 DEF QueueInv, QueueTypeOK, CompleteInv, CompleteOK, SettledOK, Done
<1>2. QueueInv => SettledIsComplete
  BY <1>1 DEF SettledIsComplete
<1> QED
  BY AlwaysQueue, <1>2, PTL

\* However often a handler is cut and run again, and whatever was opted out of or
\* into meanwhile, no person gets two jobs of one request, provided that the
\* queries behind resolveRecipients give its runs the same targets in one order.
THEOREM NobodyIsSentTwice ==
  ASSUME StableTargets
  PROVE  QueueSpec => []EachIsSentOnce
<1>1. ASSUME QueueInv, NEW q \in Requests, NEW p \in People
      PROVE  Cardinality({k \in Keys : k[1] = q /\ jobs[k] = p}) <= 1
  <2>1. OnceOK(q)
    BY <1>1 DEF QueueInv, OnceInv
  <2>2. \A u \in People : jobs[<<q, u>>] = p => u = p
    BY <2>1, KeysOf DEF OnceOK
  <2>3. jobs[<<q, First>>] = p => jobs[<<q, p>>] # p
    BY <2>1, KeysOf DEF OnceOK
  <2>4. PICK S : S = {k \in Keys : k[1] = q /\ jobs[k] = p}
    OBVIOUS
  <2>5. ASSUME NEW k \in S
        PROVE  k = <<q, First>> \/ k = <<q, p>>
    <3>1. k = <<q, First>> \/ \E u \in People : k = <<q, u>>
      BY <2>4, KeysOf
    <3>2. ASSUME NEW u \in People, k = <<q, u>>
          PROVE  u = p
      BY <2>2, <2>4, <3>2
    <3> QED
      BY <3>1, <3>2
  <2>6. S = {} \/ S = {<<q, First>>} \/ S = {<<q, p>>}
    BY <2>3, <2>4, <2>5
  <2>7. Cardinality(S) = 0 \/ Cardinality(S) = 1
    BY <2>6, FS_EmptySet, FS_Singleton
  <2> QED
    BY <2>4, <2>7
<1>2. QueueInv => EachIsSentOnce
  BY <1>1 DEF EachIsSentOnce
<1> QED
  BY AlwaysQueue, <1>2, PTL
=============================================================================
