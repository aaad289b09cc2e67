------------------------ MODULE NotificationQueueing ------------------------
(***************************************************************************)
(* enqueueNotification as event handlers call it: resolve the recipients,  *)
(* leave out those who replied STOP, read how many messages the institute  *)
(* has created today, then, recipient by recipient, create the history row *)
(* under an idempotency key and add a BullMQ job under the same key.       *)
(*                                                                         *)
(* The subscriber swallows what enqueueNotification throws, so that for    *)
(* the event bus the handler has succeeded; after a crash the relay runs   *)
(* the handler again from the start.                                       *)
(***************************************************************************)
EXTENDS Integers, Sequences, FiniteSets, Functions

CONSTANTS
  Requests,       \* notifications that handlers ask for, by dto.idempotencyKey
  People,         \* possible recipients
  Group,          \* Group[q]: the people the recipient token of q stands for
  Unlimited,      \* requests without a daily limit (owner alerts)
  Replies,        \* answers of the assistant: no limit, and no look at opt-outs
  DailyLimit,     \* WHATSAPP_DAILY_LIMIT_PER_COACHING
  First,          \* the key suffix of the first target: none
  StableTargets,  \* do a request's reruns see the same targets in one order?
  MaxCrashes      \* bound: crashes of the process that runs the handlers

ASSUME NotificationQueueingAssumption ==
  /\ IsFiniteSet(People)
  /\ Group \in [Requests -> SUBSET People]
  /\ Unlimited \subseteq Requests /\ Replies \subseteq Requests
  /\ DailyLimit \in Nat
  /\ First \notin People
  /\ StableTargets \in BOOLEAN
  /\ MaxCrashes \in Nat

VARIABLES
  history,   \* history[k]: [status, to] of notification_history under key k
  jobs,      \* jobs[k]: who the job added under key k goes to, or Nobody
  call,      \* call[q]: the running enqueueNotification of q
  settled,   \* requests whose handler has returned, and will not run again
  out,       \* people who have opted out
  today,     \* keys whose rows were created since startOfIndiaDay
  crashes,   \* number of crashes so far
  hindered,  \* ghost: requests with an error swallowed or a crash
  raced      \* ghost: did another request create a row between the count
             \* of one request and its last row?

queueVars == <<history, jobs, call, settled, out, today, crashes, hindered, raced>>

Keys == Requests \X (People \cup {First})

Nobody == First

NoRow == [status |-> "NONE", to |-> Nobody]

Idle == [pc |-> "idle", targets |-> <<>>, index |-> 1, allowance |-> 0]

CallPc == {"idle", "resolved", "recording", "adding"}

QueueTypeOK ==
  /\ history \in [Keys -> [status: {"NONE", "QUEUED", "FAILED"}, to: People \cup {Nobody}]]
  /\ jobs \in [Keys -> People \cup {Nobody}]
  /\ \A q \in Requests :
       /\ call[q].pc \in CallPc
       /\ call[q].targets \in Seq(Group[q])
       /\ call[q].index \in 1..Len(call[q].targets) \/ call[q].index = 1
       /\ call[q].allowance \in 0..DailyLimit
  /\ settled \in SUBSET Requests
  /\ out \in SUBSET People
  /\ today \in SUBSET Keys
  /\ crashes \in 0..MaxCrashes
  /\ hindered \in SUBSET Requests
  /\ raced \in BOOLEAN

QueueInit ==
  /\ history = [k \in Keys |-> NoRow]
  /\ jobs = [k \in Keys |-> Nobody]
  /\ call = [q \in Requests |-> Idle]
  /\ settled = {}
  /\ out = {}
  /\ today = {}
  /\ crashes = 0
  /\ hindered = {}
  /\ raced = FALSE

-----------------------------------------------------------------------------
\* Mutant: every target has the request's own key.
KeyShared(q) == <<q, First>>

\* The first target has the request's own key, the others one with their id.
Key(q) == <<q, IF call[q].index = 1 THEN First ELSE call[q].targets[call[q].index]>>

Target(q) == call[q].targets[call[q].index]

OverLimit(q) == q \notin Unlimited \cup Replies /\ call[q].index > call[q].allowance

Running(q) == call[q].pc # "idle"

\* The handler returns; whom it was for is kept for the properties.
Return(q) ==
  /\ call' = [call EXCEPT ![q] = [Idle EXCEPT !.targets = call[q].targets]]
  /\ settled' = settled \cup {q}

\* The next target, or the end of the loop.
Advance(q) ==
  IF call[q].index = Len(call[q].targets)
  THEN Return(q)
  ELSE /\ call' = [call EXCEPT ![q].pc = "recording", ![q].index = @ + 1]
       /\ UNCHANGED settled

\* Mutant: nothing fixes the order of the targets from one run to the next.
OrdersAny(S) == Bijection(1..Cardinality(S), S)

\* The queries behind resolveRecipients state no order: any may come back.
Orders(S) ==
  IF StableTargets
  THEN {CHOOSE ts \in Bijection(1..Cardinality(S), S) : TRUE}
  ELSE Bijection(1..Cardinality(S), S)

\* The targets that have not opted out; who writes is answered all the same.
Reachable(q) == IF q \in Replies THEN Group[q] ELSE Group[q] \ out

\* The handler starts: recipients and opt-outs are read.
Resolve(q) ==
  /\ ~ Running(q)
  /\ q \notin settled
  /\ Reachable(q) # {}
  /\ \E ts \in Orders(Reachable(q)) :
       call' = [call EXCEPT ![q] = [Idle EXCEPT !.pc = "resolved", !.targets = ts]]
  /\ UNCHANGED <<history, jobs, settled, out, today, crashes, hindered, raced>>

\* NO_RECIPIENTS or RECIPIENT_OPTED_OUT: thrown, and caught by the subscriber.
ResolveNobody(q) ==
  /\ ~ Running(q)
  /\ q \notin settled
  /\ Reachable(q) = {}
  /\ Return(q)
  /\ UNCHANGED <<history, jobs, out, today, crashes, hindered, raced>>

\* Mutant: what the institute has created today is not subtracted.
CountAllowanceIgnoresToday(q) ==
  /\ call[q].pc = "resolved"
  /\ call' = [call EXCEPT ![q].pc = "recording", ![q].allowance = DailyLimit]
  /\ UNCHANGED <<history, jobs, settled, out, today, crashes, hindered, raced>>

\* countSince(startOfIndiaDay()) and the rest of the day's allowance.
CountAllowance(q) ==
  /\ call[q].pc = "resolved"
  /\ call' = [call EXCEPT ![q].pc = "recording",
                ![q].allowance = IF Cardinality(today) >= DailyLimit THEN 0
                                 ELSE DailyLimit - Cardinality(today)]
  /\ UNCHANGED <<history, jobs, settled, out, today, crashes, hindered, raced>>

\* Mutant: an over-limit target ends the step, not the loop's turn.
RecordStopsAtLimit(q) ==
  /\ call[q].pc = "recording"
  /\ ~ OverLimit(q)
  /\ history' = [history EXCEPT ![Key(q)] = IF @.status # "NONE" THEN @
                                    ELSE [status |-> "QUEUED", to |-> Target(q)]]
  /\ today' = today \cup {Key(q)}
  /\ call' = [call EXCEPT ![q].pc = "adding"]
  /\ UNCHANGED <<jobs, settled, out, crashes, hindered, raced>>

\* createHistory: an upsert that leaves a row it finds as it is.
Record(q) ==
  /\ call[q].pc = "recording"
  /\ LET k == Key(q)
         new == history[k].status = "NONE"
     IN /\ history' = IF new
                  THEN [history EXCEPT ![k] = [status |-> IF OverLimit(q) THEN "FAILED"
                                                      ELSE "QUEUED",
                                           to |-> Target(q)]]
                  ELSE history
        /\ today' = IF new THEN today \cup {k} ELSE today
        /\ raced' = \/ raced
                    \/ /\ new
                       /\ \E r \in Requests \ {q} : call[r].pc \in {"recording", "adding"}
  /\ IF OverLimit(q) THEN Advance(q)
     ELSE call' = [call EXCEPT ![q].pc = "adding"] /\ UNCHANGED settled
  /\ UNCHANGED <<jobs, out, crashes, hindered>>

\* queue.add: BullMQ ignores a job id it already has.
AddJob(q) ==
  /\ call[q].pc = "adding"
  /\ jobs' = [jobs EXCEPT ![Key(q)] = IF @ = Nobody THEN Target(q) ELSE @]
  /\ Advance(q)
  /\ UNCHANGED <<history, out, today, crashes, hindered, raced>>

\* createHistory or queue.add throws: for the first target this ends the whole
\* call, for another one it is logged and the loop goes on.  The subscriber
\* catches what is thrown, so that the handler has succeeded for the event bus.
StepThrows(q) ==
  /\ call[q].pc \in {"recording", "adding"}
  /\ IF call[q].index = 1 THEN Return(q) ELSE Advance(q)
  /\ hindered' = hindered \cup {q}
  /\ UNCHANGED <<history, jobs, out, today, crashes, raced>>

\* The process dies; the relay will run the handlers it was running again.
Crash ==
  /\ crashes < MaxCrashes
  /\ crashes' = crashes + 1
  /\ \E q \in Requests : Running(q)
  /\ call' = [q \in Requests |-> Idle]
  /\ hindered' = hindered \cup {q \in Requests : Running(q)}
  /\ UNCHANGED <<history, jobs, settled, out, today, raced>>

-----------------------------------------------------------------------------
(* The world.                                                              *)

\* With StableTargets nobody opts in or out while a request to them is open.
MayChange(p) == StableTargets =>
  \A q \in Requests \ Replies : p \in Group[q] => q \in settled \/ ~ (Running(q) \/ q \in hindered)

OptOut(p) ==
  /\ p \notin out
  /\ MayChange(p)
  /\ out' = out \cup {p}
  /\ UNCHANGED <<history, jobs, call, settled, today, crashes, hindered, raced>>

OptIn(p) ==
  /\ p \in out
  /\ MayChange(p)
  /\ out' = out \ {p}
  /\ UNCHANGED <<history, jobs, call, settled, today, crashes, hindered, raced>>

NewDay ==
  /\ today # {}
  /\ today' = {}
  /\ UNCHANGED <<history, jobs, call, settled, out, crashes, hindered, raced>>

-----------------------------------------------------------------------------
Handle(q) == Resolve(q) \/ ResolveNobody(q) \/ CountAllowance(q) \/ Record(q) \/ AddJob(q)

QueueNext ==
  \/ \E q \in Requests : Handle(q) \/ StepThrows(q)
  \/ Crash
  \/ \E p \in People : OptOut(p) \/ OptIn(p)
  \/ NewDay

QueueSpec == QueueInit /\ [][QueueNext]_queueVars

\* A live process carries its handlers on, and the relay runs cut ones again.
FairQueueSpec == QueueSpec /\ \A q \in Requests : WF_queueVars(Handle(q))

-----------------------------------------------------------------------------
(* Properties.                                                             *)

\* Whoever a request reaches gets it once: no person has two jobs of one
\* request, however often the handler was cut and run again ("each extra
\* person gets their own key so each is sent once").
EachIsSentOnce ==
  \A q \in Requests : \A p \in People :
    Cardinality({k \in Keys : k[1] = q /\ jobs[k] = p}) <= 1

\* An institute's limited messages of one day stay within its daily share, as
\* long as no two calls read and created rows at the same time.
LimitKept ==
  ~ raced => Cardinality({k \in today : history[k].status = "QUEUED"
                                        /\ k[1] \notin Unlimited \cup Replies}) <= DailyLimit

\* When a handler has returned, each of its targets has a row that tells how it
\* went: held back by the limit, or queued and then with a job.  Calls that an
\* error was swallowed in, or that a crash cut, are excepted.
SettledIsComplete ==
  \A q \in settled \ hindered : \A i \in DOMAIN call[q].targets :
    \E k \in Keys :
      /\ k[1] = q
      /\ history[k].to = call[q].targets[i]
      /\ history[k].status = "QUEUED" => jobs[k] = history[k].to

\* Every request is dealt with in the end, whatever errors and crashes it met.
EveryRequestSettles == <>(settled = Requests)
=============================================================================
