---------------------------- MODULE DomainEvents ----------------------------
(***************************************************************************)
(* Durable domain events: EventBus.publish records an event in the         *)
(* domain_events table, runs every subscribed handler and saves which of   *)
(* them succeeded; the relay worker later claims the rows that failed or   *)
(* were left PENDING and runs the handlers that are not yet saved as       *)
(* completed.                                                              *)
(*                                                                         *)
(* Time is abstracted to two facts per row: "due" (next_attempt_at <=      *)
(* now()) and "stale" (created_at is STALE_PENDING_SECONDS old).  With     *)
(* MayOverrun = FALSE a dispatch ends within the window that protects it   *)
(* (120 s for a publisher, the 300 s lease for a relay); with TRUE it may  *)
(* outlast it, as nothing in the code bounds how long handlers take.       *)
(***************************************************************************)
EXTENDS Integers, FiniteSets

CONSTANTS
  Events,       \* ids of the events that are published
  Handlers,     \* names of the registered handlers
  HandlersOf,   \* HandlersOf[e]: the handlers subscribed to e's name
  Relays,       \* worker processes that run the relay
  Api,          \* the publishing side, as the owner of a dispatch
  MaxAttempts,  \* MAX_EVENT_ATTEMPTS
  BatchSize,    \* BATCH_SIZE of the relay
  MayOverrun    \* may a dispatch outlast its staleness window or lease?

ASSUME DomainEventsAssumption ==
  /\ HandlersOf \in [Events -> SUBSET Handlers]
  /\ Api \notin Relays
  /\ MaxAttempts \in Nat \ {0}
  /\ BatchSize \in Nat \ {0}
  /\ MayOverrun \in BOOLEAN

VARIABLES
  published,   \* events whose publish() has been called
  row,         \* row[e]: the row of e in domain_events
  flights,     \* dispatch() calls being awaited, each by a publisher or a relay
  claims,      \* claims[r]: the rest of the batch relay r has claimed
  done,        \* history: done[e] are the handlers that took effect for e
  interrupted  \* history: events one of whose dispatches was cut or not saved

vars == <<published, row, flights, claims, done, interrupted>>

Status == {"NONE", "PENDING", "FAILED", "DISPATCHED", "DEAD"}

Row == [status: Status, completed: SUBSET Handlers, attempts: Nat,
        due: BOOLEAN, stale: BOOLEAN]

Flight == [by: Relays \cup {Api}, event: Events, running: SUBSET Handlers,
           ok: SUBSET Handlers, failed: BOOLEAN, recorded: BOOLEAN]

Claim == [event: Events, completed: SUBSET Handlers]

TypeOK ==
  /\ published \in SUBSET Events
  /\ row \in [Events -> Row]
  /\ flights \in SUBSET Flight
  /\ claims \in [Relays -> SUBSET Claim]
  /\ done \in [Events -> SUBSET Handlers]
  /\ interrupted \in SUBSET Events

NoRow == [status |-> "NONE", completed |-> {}, attempts |-> 0,
          due |-> FALSE, stale |-> FALSE]

\* The column defaults: PENDING, no attempt, next_attempt_at = now().
PendingRow == [status |-> "PENDING", completed |-> {}, attempts |-> 0,
               due |-> TRUE, stale |-> FALSE]

Init ==
  /\ published = {}
  /\ row = [e \in Events |-> NoRow]
  /\ flights = {}
  /\ claims = [r \in Relays |-> {}]
  /\ done = [e \in Events |-> {}]
  /\ interrupted = {}

-----------------------------------------------------------------------------
(* The two statements of the store that are more than one assignment.      *)

\* The UPDATE of markResult: whatever the row's status was, it is overwritten.
MarkResult(old, ok, failed) ==
  [status |-> IF ~failed THEN "DISPATCHED"
              ELSE IF old.attempts + 1 >= MaxAttempts THEN "DEAD" ELSE "FAILED",
   completed |-> old.completed \cup ok,
   attempts |-> old.attempts + 1,
   due |-> FALSE,
   stale |-> old.stale]

\* Mutant: rows left PENDING by a crash are not claimed.
ClaimableFailedOnly(e) == row[e].due /\ row[e].status = "FAILED"

\* Mutant: a PENDING row is claimed at once, while its publisher still runs.
ClaimableAtOnce(e) == row[e].due /\ row[e].status \in {"FAILED", "PENDING"}

\* The WHERE clause of claimDue.
Claimable(e) ==
  /\ row[e].due
  /\ \/ row[e].status = "FAILED"
     \/ row[e].status = "PENDING" /\ row[e].stale

-----------------------------------------------------------------------------
(* Publishing.                                                             *)

\* dispatch() starts every handler it is given before it awaits any of them.
NewFlight(by, e, handlers, recorded) ==
  [by |-> by, event |-> e, running |-> handlers, ok |-> {},
   failed |-> FALSE, recorded |-> recorded]

\* publish() of an event nobody listens to returns before recording it.
PublishUnheard(e) ==
  /\ e \notin published
  /\ HandlersOf[e] = {}
  /\ published' = published \cup {e}
  /\ UNCHANGED <<row, flights, claims, done, interrupted>>

\* publish(): the row is committed, then all handlers start.
PublishRecorded(e) ==
  /\ e \notin published
  /\ HandlersOf[e] # {}
  /\ published' = published \cup {e}
  /\ row' = [row EXCEPT ![e] = PendingRow]
  /\ flights' = flights \cup {NewFlight(Api, e, HandlersOf[e], TRUE)}
  /\ UNCHANGED <<claims, done, interrupted>>

\* publish() when record() throws: delivered in memory only.  The INSERT may
\* nevertheless have committed (an acknowledgement that was lost).
PublishUnrecorded(e) ==
  /\ e \notin published
  /\ HandlersOf[e] # {}
  /\ published' = published \cup {e}
  /\ \/ UNCHANGED row
     \/ row' = [row EXCEPT ![e] = PendingRow]
  /\ flights' = flights \cup {NewFlight(Api, e, HandlersOf[e], FALSE)}
  /\ interrupted' = interrupted \cup {e}
  /\ UNCHANGED <<claims, done>>

-----------------------------------------------------------------------------
(* Handlers and outcomes, the same for publishers and relays.              *)

HandlerSucceeds(f, h) ==
  /\ h \in f.running
  /\ flights' = (flights \ {f})
                  \cup {[f EXCEPT !.running = @ \ {h}, !.ok = @ \cup {h}]}
  /\ done' = [done EXCEPT ![f.event] = @ \cup {h}]
  /\ UNCHANGED <<published, row, claims, interrupted>>

HandlerFails(f, h) ==
  /\ h \in f.running
  /\ flights' = (flights \ {f})
                  \cup {[f EXCEPT !.running = @ \ {h}, !.failed = TRUE]}
  /\ UNCHANGED <<published, row, claims, done, interrupted>>

\* Mutant: the outcome is saved without the failures.
SaveOutcomeIgnoresFailure(f) ==
  /\ f.running = {}
  /\ flights' = flights \ {f}
  /\ row' = IF f.recorded
            THEN [row EXCEPT ![f.event] = MarkResult(@, f.ok, FALSE)]
            ELSE row
  /\ UNCHANGED <<published, claims, done, interrupted>>

\* All handlers have settled: saveOutcome, skipped for an unrecorded event.
SaveOutcome(f) ==
  /\ f.running = {}
  /\ flights' = flights \ {f}
  /\ row' = IF f.recorded
            THEN [row EXCEPT ![f.event] = MarkResult(@, f.ok, f.failed)]
            ELSE row
  /\ UNCHANGED <<published, claims, done, interrupted>>

\* saveOutcome swallows the error of markResult: the row stays as it was.
SaveLost(f) ==
  /\ f.running = {}
  /\ f.recorded
  /\ flights' = flights \ {f}
  /\ interrupted' = interrupted \cup {f.event}
  /\ UNCHANGED <<published, row, claims, done>>

-----------------------------------------------------------------------------
(* The relay.                                                              *)

Busy(r) == claims[r] # {} \/ \E f \in flights : f.by = r

\* claimDue(limit): one UPDATE that leases up to BatchSize rows (rows another
\* transaction holds are skipped, so a claim may take fewer than are due).
ClaimDue(r, batch) ==
  /\ ~ Busy(r)
  /\ Cardinality(batch) <= BatchSize
  /\ \A e \in batch : Claimable(e)
  /\ row' = [e \in Events |->
               IF e \in batch THEN [row[e] EXCEPT !.due = FALSE] ELSE row[e]]
  /\ claims' = [claims EXCEPT
                  ![r] = {[event |-> e, completed |-> row[e].completed] : e \in batch}]
  /\ UNCHANGED <<published, flights, done, interrupted>>

\* Mutant: every handler of the event runs again.
RedeliverAll(r) ==
  /\ ~ \E f \in flights : f.by = r
  /\ \E c \in claims[r] :
       /\ claims' = [claims EXCEPT ![r] = @ \ {c}]
       /\ flights' = flights \cup {NewFlight(r, c.event, HandlersOf[c.event], TRUE)}
  /\ UNCHANGED <<published, row, done, interrupted>>

\* The loop of redeliverDue: one claimed event at a time, with the handlers
\* that the claimed row does not list as completed (possibly none).
Redeliver(r) ==
  /\ ~ \E f \in flights : f.by = r
  /\ \E c \in claims[r] :
       /\ claims' = [claims EXCEPT ![r] = @ \ {c}]
       /\ flights' = flights
            \cup {NewFlight(r, c.event, HandlersOf[c.event] \ c.completed, TRUE)}
  /\ UNCHANGED <<published, row, done, interrupted>>

-----------------------------------------------------------------------------
(* Crashes.  A handler that was running may have taken effect already.     *)

PublisherCrashes(f) ==
  /\ f.by = Api
  /\ flights' = flights \ {f}
  /\ \E S \in SUBSET f.running :
       done' = [done EXCEPT ![f.event] = @ \cup S]
  /\ interrupted' = interrupted \cup {f.event}
  /\ UNCHANGED <<published, row, claims>>

\* The worker restarts with no claim; the leases it took run out.
RelayCrashes(r) ==
  /\ Busy(r)
  /\ claims' = [claims EXCEPT ![r] = {}]
  /\ flights' = {f \in flights : f.by # r}
  /\ LET cut == {f \in flights : f.by = r}
     IN /\ interrupted' = interrupted \cup {f.event : f \in cut}
        /\ \E S \in SUBSET Handlers :
             done' = [e \in Events |->
                        done[e] \cup UNION {f.running \cap S :
                                              f \in {g \in cut : g.event = e}}]
  /\ UNCHANGED <<published, row>>

-----------------------------------------------------------------------------
(* Time.                                                                   *)

Held(e) == \/ \E f \in flights : f.event = e
           \/ \E r \in Relays : \E c \in claims[r] : c.event = e

\* created_at becomes older than STALE_PENDING_SECONDS.
PendingGrowsStale(e) ==
  /\ row[e].status = "PENDING"
  /\ ~ row[e].stale
  /\ MayOverrun \/ ~ Held(e)
  /\ row' = [row EXCEPT ![e].stale = TRUE]
  /\ UNCHANGED <<published, flights, claims, done, interrupted>>

\* next_attempt_at passes: the backoff of a failed row, or a lease.
NextAttemptComes(e) ==
  /\ row[e].status \in {"PENDING", "FAILED"}
  /\ ~ row[e].due
  /\ MayOverrun \/ ~ Held(e)
  /\ row' = [row EXCEPT ![e].due = TRUE]
  /\ UNCHANGED <<published, flights, claims, done, interrupted>>

-----------------------------------------------------------------------------
Publish(e) == PublishUnheard(e) \/ PublishRecorded(e) \/ PublishUnrecorded(e)

\* What a live process does with a dispatch it has started.
Advance(f) == \/ \E h \in f.running : HandlerSucceeds(f, h) \/ HandlerFails(f, h)
              \/ SaveOutcome(f)

Relay(r) == (\E batch \in SUBSET Events : ClaimDue(r, batch)) \/ Redeliver(r)

Fault == \/ \E f \in flights : SaveLost(f) \/ PublisherCrashes(f)
         \/ \E r \in Relays : RelayCrashes(r)

Tick(e) == PendingGrowsStale(e) \/ NextAttemptComes(e)

Next ==
  \/ \E e \in Events : Publish(e) \/ Tick(e)
  \/ \E f \in flights : Advance(f)
  \/ \E r \in Relays : Relay(r)
  \/ Fault

(* Handlers settle, clocks advance, the relay job repeats every 30 seconds  *)
(* and takes the rows in the order of next_attempt_at, so that a row which  *)
(* keeps being claimable is claimed in the end.                             *)
Fairness ==
  /\ \A e \in Events :
       /\ WF_vars(PendingGrowsStale(e))
       /\ WF_vars(NextAttemptComes(e))
       /\ SF_vars(\E r \in Relays, batch \in SUBSET Events :
                    e \in batch /\ ClaimDue(r, batch))
  /\ \A r \in Relays : WF_vars(Redeliver(r))
  /\ \A o \in Relays \cup {Api}, e \in Events :
       WF_vars(\E f \in flights : f.by = o /\ f.event = e /\ Advance(f))

Spec == Init /\ [][Next]_vars

FairSpec == Spec /\ Fairness

-----------------------------------------------------------------------------
(* Properties.                                                             *)

\* A row that says DISPATCHED is never wrong: every handler of the event has
\* taken effect, however publishers, relays and crashes interleaved.
DispatchedIsDelivered ==
  \A e \in Events :
    row[e].status = "DISPATCHED" =>
      HandlersOf[e] \subseteq done[e] /\ HandlersOf[e] \subseteq row[e].completed

\* A handler once saved as completed stays so: no late outcome of a slower
\* dispatch takes it back (it would run again).
CompletedIsKept ==
  [][\A e \in Events : row[e].completed \subseteq row'[e].completed]_vars

\* While no dispatch outlasts its window, two processes never work on the
\* same event: the lease and the staleness window are a lock.
OneDispatchPerEvent ==
  \A e \in Events :
    /\ \A f, g \in flights : f.event = e /\ g.event = e => f = g
    /\ \A r \in Relays : \A c \in claims[r] :
         c.event = e =>
           /\ ~ \E f \in flights : f.event = e
           /\ \A s \in Relays : \A d \in claims[s] : d.event = e => s = r /\ d = c

Started(f) == ~ \E g \in flights : g.by = f.by /\ g.event = f.event

\* While no dispatch outlasts its window, a handler that took effect is started
\* again only for an event whose dispatch was cut or whose outcome was not saved.
RerunOnlyAfterInterruption ==
  [][\A f \in flights' :
       Started(f) => f.running \cap done[f.event] = {} \/ f.event \in interrupted]_vars

\* What EventDelivery calls the outcome of an event, read off its row.
OutcomeOf(status) ==
  IF status = "NONE" THEN "unrecorded"
  ELSE IF status = "DISPATCHED" THEN "delivered"
  ELSE IF status = "DEAD" THEN "abandoned"
  ELSE "open"

Outcome == [e \in Events |-> OutcomeOf(row[e].status)]

Delivery == INSTANCE EventDelivery WITH outcome <- Outcome

\* While no dispatch outlasts its window, the bus, its store and its relays
\* implement the delivery promise: in particular a DISPATCHED or DEAD row is
\* never reopened by a late outcome.
DeliverySpec == Delivery!Spec

\* Once crashes and lost updates cease, every recorded event is settled: all its
\* handlers have completed, or it has used up its attempts.
RecordedEventuallySettles ==
  <>[][~ Fault]_vars =>
    \A e \in Events :
      row[e].status # "NONE" ~> row[e].status \in {"DISPATCHED", "DEAD"}
=============================================================================
