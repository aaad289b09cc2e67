------------------------- MODULE DomainEventsProofs -------------------------
(***************************************************************************)
(* Proofs about DomainEvents: typing, the truth of a DISPATCHED row and    *)
(* the permanence of completed handlers without any timing assumption;     *)
(* mutual exclusion of dispatches and the refinement of EventDelivery when *)
(* no dispatch outlasts its window.                                        *)
(***************************************************************************)
EXTENDS DomainEvents, TLAPS

-----------------------------------------------------------------------------
(* Type correctness.                                                       *)

\* The initial state is type-correct.
LEMMA InitTypeOK == Init => TypeOK
  BY DEF Init, TypeOK, Row, NoRow, Status

\* The row that markResult leaves is again a row.
LEMMA MarkResultType ==
  ASSUME NEW old \in Row, NEW ok \in SUBSET Handlers, NEW failed \in BOOLEAN
  PROVE  MarkResult(old, ok, failed) \in Row
<1>1. old.attempts \in Nat /\ old.completed \in SUBSET Handlers
  BY DEF Row
<1>2. (IF ~failed THEN "DISPATCHED"
       ELSE IF old.attempts + 1 >= MaxAttempts THEN "DEAD" ELSE "FAILED") \in Status
  BY DEF Status
<1>3. old.stale \in BOOLEAN
  BY DEF Row
<1> QED
  BY <1>1, <1>2, <1>3 DEF MarkResult, Row

\* Every step keeps the types.
LEMMA NextTypeOK == TypeOK /\ [Next]_vars => TypeOK'
<1> SUFFICES ASSUME TypeOK, [Next]_vars PROVE TypeOK'
  OBVIOUS
<1> USE DomainEventsAssumption
<1>1. ASSUME NEW e \in Events, Publish(e) PROVE TypeOK'
  <2>1. PendingRow \in Row
    BY DEF PendingRow, Row, Status
  <2>2. \A rec \in BOOLEAN : NewFlight(Api, e, HandlersOf[e], rec) \in Flight
    BY DEF NewFlight, Flight
  <2>3. CASE PublishUnheard(e)
    BY <2>3 DEF PublishUnheard, TypeOK
  <2>4. CASE PublishRecorded(e)
    BY <2>1, <2>2, <2>4 DEF PublishRecorded, TypeOK
  <2>5. CASE PublishUnrecorded(e)
    <3>1. row' \in [Events -> Row]
      BY <2>1, <2>5 DEF PublishUnrecorded, TypeOK
    <3>2. flights' \in SUBSET Flight
      BY <2>2, <2>5 DEF PublishUnrecorded, TypeOK
    <3> QED
      BY <2>5, <3>1, <3>2 DEF PublishUnrecorded, TypeOK
  <2> QED
    BY <1>1, <2>3, <2>4, <2>5 DEF Publish
<1>2. ASSUME NEW e \in Events, Tick(e) PROVE TypeOK'
  <2>1. row[e] \in Row
    BY DEF TypeOK
  <2>2. /\ [row[e] EXCEPT !.stale = TRUE] \in Row
        /\ [row[e] EXCEPT !.due = TRUE] \in Row
    BY <2>1 DEF Row
  <2>3. row' \in [Events -> Row]
    BY <1>2, <2>2 DEF Tick, PendingGrowsStale, NextAttemptComes, TypeOK
  <2> QED
    BY <1>2, <2>3 DEF Tick, PendingGrowsStale, NextAttemptComes, TypeOK
<1>3. ASSUME NEW f \in flights, NEW h \in f.running, HandlerSucceeds(f, h)
      PROVE  TypeOK'
  <2>1. f \in Flight /\ h \in Handlers
    BY DEF TypeOK, Flight
  <2>2. [f EXCEPT !.running = @ \ {h}, !.ok = @ \cup {h}] \in Flight
    BY <2>1 DEF Flight
  <2>3. done' \in [Events -> SUBSET Handlers]
    BY <1>3, <2>1 DEF HandlerSucceeds, TypeOK, Flight
  <2> QED
    BY <1>3, <2>2, <2>3 DEF HandlerSucceeds, TypeOK
<1>4. ASSUME NEW f \in flights, NEW h \in f.running, HandlerFails(f, h)
      PROVE  TypeOK'
  <2>1. f \in Flight
    BY DEF TypeOK
  <2>2. [f EXCEPT !.running = @ \ {h}, !.failed = TRUE] \in Flight
    BY <2>1 DEF Flight
  <2> QED
    BY <1>4, <2>2 DEF HandlerFails, TypeOK
<1>5. ASSUME NEW f \in flights, SaveOutcome(f) PROVE TypeOK'
  <2>1. f \in Flight
    BY DEF TypeOK
  <2>2. MarkResult(row[f.event], f.ok, f.failed) \in Row
    BY <2>1, MarkResultType DEF TypeOK, Flight
  <2>3. row' \in [Events -> Row]
    BY <1>5, <2>1, <2>2 DEF SaveOutcome, TypeOK, Flight
  <2> QED
    BY <1>5, <2>3 DEF SaveOutcome, TypeOK
<1>6. ASSUME NEW r \in Relays, NEW batch \in SUBSET Events, ClaimDue(r, batch)
      PROVE  TypeOK'
  <2>1. row' \in [Events -> Row]
    <3>1. \A e \in Events : row[e] \in Row /\ [row[e] EXCEPT !.due = FALSE] \in Row
      BY DEF TypeOK, Row
    <3> QED
      BY <1>6, <3>1 DEF ClaimDue
  <2>2. claims' \in [Relays -> SUBSET Claim]
    <3>1. \A e \in batch : [event |-> e, completed |-> row[e].completed] \in Claim
      BY DEF TypeOK, Claim, Row
    <3> QED
      BY <1>6, <3>1 DEF ClaimDue, TypeOK
  <2> QED
    BY <1>6, <2>1, <2>2 DEF ClaimDue, TypeOK
<1>7. ASSUME NEW r \in Relays, Redeliver(r) PROVE TypeOK'
  <2>1. PICK c \in claims[r] :
          /\ claims' = [claims EXCEPT ![r] = @ \ {c}]
          /\ flights' = flights
               \cup {NewFlight(r, c.event, HandlersOf[c.event] \ c.completed, TRUE)}
    BY <1>7 DEF Redeliver
  <2>2. c.event \in Events
    BY DEF TypeOK, Claim
  <2>3. NewFlight(r, c.event, HandlersOf[c.event] \ c.completed, TRUE) \in Flight
    BY <2>2 DEF NewFlight, Flight
  <2> QED
    BY <1>7, <2>1, <2>3 DEF Redeliver, TypeOK
<1>8. ASSUME NEW f \in flights, SaveLost(f) PROVE TypeOK'
  BY <1>8 DEF SaveLost, TypeOK, Flight
<1>9. ASSUME NEW f \in flights, PublisherCrashes(f) PROVE TypeOK'
  <2>1. f \in Flight
    BY DEF TypeOK
  <2>2. done' \in [Events -> SUBSET Handlers]
    BY <1>9, <2>1 DEF PublisherCrashes, TypeOK, Flight
  <2> QED
    BY <1>9, <2>1, <2>2 DEF PublisherCrashes, TypeOK, Flight
<1>10. ASSUME NEW r \in Relays, RelayCrashes(r) PROVE TypeOK'
  <2>1. done' \in [Events -> SUBSET Handlers]
    BY <1>10 DEF RelayCrashes, TypeOK, Flight
  <2>2. interrupted' \in SUBSET Events
    BY <1>10 DEF RelayCrashes, TypeOK, Flight
  <2> QED
    BY <1>10, <2>1, <2>2 DEF RelayCrashes, TypeOK
<1>11. CASE UNCHANGED vars
  BY <1>11 DEF vars, TypeOK
<1> QED
  BY <1>1, <1>2, <1>3, <1>4, <1>5, <1>6, <1>7, <1>8, <1>9, <1>10, <1>11
     DEF Next, Advance, Relay, Fault

\* In every reachable state the rows, the dispatches in progress, the claims
\* and the histories have their types, for any events, handlers and relays.
THEOREM TypeCorrect == Spec => []TypeOK
<1>1. Init => TypeOK
  BY InitTypeOK
<1>2. TypeOK /\ [Next]_vars => TypeOK'
  BY NextTypeOK
<1> QED
  BY <1>1, <1>2, PTL DEF Spec

-----------------------------------------------------------------------------
(* The truth of rows, without any assumption on timing.                    *)

UnpublishedIsBlank ==
  \A e \in Events : e \notin published => row[e] = NoRow /\ done[e] = {}

FlightOK(f) ==
  /\ f.event \in published
  /\ f.ok \subseteq done[f.event]
  /\ f.running \subseteq HandlersOf[f.event]
  /\ f.recorded => row[f.event].status # "NONE"
  /\ ~ f.failed =>
       HandlersOf[f.event] \subseteq f.running \cup f.ok \cup row[f.event].completed

ClaimOK(c) ==
  /\ c.event \in published
  /\ row[c.event].status # "NONE"
  /\ c.completed \subseteq row[c.event].completed

RowOK(e) ==
  /\ row[e].completed \subseteq done[e]
  /\ row[e].status = "DISPATCHED" => HandlersOf[e] \subseteq row[e].completed

\* Why a DISPATCHED row is true: a dispatch without a failure accounts for every
\* handler, either among its own or among those saved before it was claimed,
\* and what is saved only grows.
TruthInv ==
  /\ UnpublishedIsBlank
  /\ \A f \in flights : FlightOK(f)
  /\ \A r \in Relays : \A c \in claims[r] : ClaimOK(c)
  /\ \A e \in Events : RowOK(e)

\* A step that changes no row except by adding to its completed handlers, and
\* takes back no effect, keeps the flights and claims it leaves alone sound.
RowsGrow ==
  /\ published \subseteq published'
  /\ \A e \in Events :
       /\ row[e].completed \subseteq row'[e].completed
       /\ done[e] \subseteq done'[e]
       /\ row[e].status # "NONE" => row'[e].status # "NONE"

\* What is true of a dispatch stays true while rows and histories only grow.
LEMMA FlightStaysOK ==
  ASSUME TypeOK, RowsGrow, NEW f \in Flight, FlightOK(f)
  PROVE  FlightOK(f)'
<1>1. f.event \in Events
  BY DEF Flight
<1> QED
  BY <1>1 DEF RowsGrow, FlightOK

\* What is true of a claim stays true while rows and histories only grow.
LEMMA ClaimStaysOK ==
  ASSUME TypeOK, RowsGrow, NEW c \in Claim, ClaimOK(c)
  PROVE  ClaimOK(c)'
<1>1. c.event \in Events
  BY DEF Claim
<1> QED
  BY <1>1 DEF RowsGrow, ClaimOK

\* Nothing is claimed or in progress at first, so the truth invariant holds.
LEMMA InitTruth == Init => TruthInv
  BY DEF Init, TruthInv, UnpublishedIsBlank, RowOK, NoRow

\* markResult adds to the completed handlers and leaves a status.
LEMMA MarkResultGrows ==
  ASSUME NEW old \in Row, NEW ok \in SUBSET Handlers, NEW failed \in BOOLEAN
  PROVE  /\ MarkResult(old, ok, failed).completed = old.completed \cup ok
         /\ MarkResult(old, ok, failed).status \in {"DISPATCHED", "FAILED", "DEAD"}
         /\ MarkResult(old, ok, failed).status = "DISPATCHED" <=> ~ failed
  BY DEF MarkResult

\* Every step keeps the truth invariant, and lets no row shrink.
LEMMA NextTruth == TypeOK /\ TruthInv /\ [Next]_vars => TruthInv' /\ RowsGrow
<1> SUFFICES ASSUME TypeOK, TruthInv, [Next]_vars PROVE TruthInv' /\ RowsGrow
  OBVIOUS
<1> USE DomainEventsAssumption
<1>0. /\ flights \in SUBSET Flight
      /\ \A r \in Relays : claims[r] \in SUBSET Claim
  BY DEF TypeOK
<1>1. ASSUME NEW e \in Events, Publish(e) PROVE TruthInv' /\ RowsGrow
  <2>1. /\ e \notin published
        /\ row[e] = NoRow
        /\ done[e] = {}
        /\ published' = published \cup {e}
        /\ UNCHANGED <<claims, done>>
    BY <1>1 DEF Publish, PublishUnheard, PublishRecorded, PublishUnrecorded,
                TruthInv, UnpublishedIsBlank
  <2>2. row' = row \/ row' = [row EXCEPT ![e] = PendingRow]
    BY <1>1 DEF Publish, PublishUnheard, PublishRecorded, PublishUnrecorded
  <2>3. RowsGrow
    BY <2>1, <2>2 DEF RowsGrow, TypeOK, NoRow, PendingRow
  <2>4. \A r \in Relays : \A c \in claims'[r] : ClaimOK(c)'
    BY <1>0, <2>1, <2>3, ClaimStaysOK DEF TruthInv
  <2>5. \A x \in Events : RowOK(x)'
    BY <2>1, <2>2 DEF TruthInv, RowOK, PendingRow, TypeOK
  <2>6. UnpublishedIsBlank'
    BY <2>1, <2>2 DEF TruthInv, UnpublishedIsBlank, TypeOK
  <2>7. ASSUME NEW f \in flights' PROVE FlightOK(f)'
    <3>1. CASE f \in flights
      BY <1>0, <2>3, <3>1, FlightStaysOK DEF TruthInv
    <3>2. CASE f \notin flights
      <4>1. PICK rec \in BOOLEAN :
              /\ f = NewFlight(Api, e, HandlersOf[e], rec)
              /\ rec => row' = [row EXCEPT ![e] = PendingRow]
        BY <1>1, <3>2 DEF Publish, PublishUnheard, PublishRecorded, PublishUnrecorded
      <4> QED
        BY <2>1, <4>1 DEF NewFlight, FlightOK, PendingRow, TypeOK
    <3> QED
      BY <3>1, <3>2
  <2> QED
    BY <2>3, <2>4, <2>5, <2>6, <2>7 DEF TruthInv
<1>2. ASSUME NEW e \in Events, Tick(e) PROVE TruthInv' /\ RowsGrow
  <2>1. /\ UNCHANGED <<published, flights, claims, done>>
        /\ row[e].status # "NONE"
        /\ \/ row' = [row EXCEPT ![e].stale = TRUE]
           \/ row' = [row EXCEPT ![e].due = TRUE]
    BY <1>2 DEF Tick, PendingGrowsStale, NextAttemptComes
  <2>2. \A x \in Events : /\ row'[x].completed = row[x].completed
                          /\ row'[x].status = row[x].status
                          /\ x # e => row'[x] = row[x]
    BY <2>1 DEF TypeOK, Row
  <2>3. RowsGrow
    BY <2>1, <2>2 DEF RowsGrow
  <2>4. e \in published
    BY <2>1 DEF TruthInv, UnpublishedIsBlank, NoRow
  <2> QED
    BY <1>0, <2>1, <2>2, <2>3, <2>4, FlightStaysOK, ClaimStaysOK
       DEF TruthInv, UnpublishedIsBlank, RowOK
<1>3. ASSUME NEW f \in flights, NEW h \in f.running, HandlerSucceeds(f, h)
      PROVE  TruthInv' /\ RowsGrow
  <2> DEFINE g == [f EXCEPT !.running = @ \ {h}, !.ok = @ \cup {h}]
  <2>1. /\ f \in Flight
        /\ FlightOK(f)
        /\ g.event = f.event
        /\ g.running = f.running \ {h}
        /\ g.ok = f.ok \cup {h}
        /\ g.failed = f.failed
        /\ g.recorded = f.recorded
    BY DEF TypeOK, Flight, TruthInv
  <2>2. /\ UNCHANGED <<published, row, claims>>
        /\ flights' = (flights \ {f}) \cup {g}
        /\ done' = [done EXCEPT ![f.event] = @ \cup {h}]
    BY <1>3 DEF HandlerSucceeds
  <2>3. f.event \in Events /\ done'[f.event] = done[f.event] \cup {h}
    BY <2>1, <2>2 DEF TypeOK, Flight
  <2>4. RowsGrow
    BY <2>2 DEF RowsGrow, TypeOK
  <2>5. FlightOK(g)'
    <3> HIDE DEF g
    <3> QED
      BY <2>1, <2>2, <2>3 DEF FlightOK
  <2>6. \A x \in Events : RowOK(x)'
    BY <2>2, <2>4 DEF TruthInv, RowOK, RowsGrow
  <2>7. UnpublishedIsBlank'
    BY <2>1, <2>2 DEF TruthInv, UnpublishedIsBlank, FlightOK, TypeOK
  <2> HIDE DEF g
  <2> QED
    BY <1>0, <2>2, <2>4, <2>5, <2>6, <2>7, FlightStaysOK, ClaimStaysOK DEF TruthInv
<1>4. ASSUME NEW f \in flights, NEW h \in f.running, HandlerFails(f, h)
      PROVE  TruthInv' /\ RowsGrow
  <2> DEFINE g == [f EXCEPT !.running = @ \ {h}, !.failed = TRUE]
  <2>1. /\ f \in Flight
        /\ FlightOK(f)
        /\ g.event = f.event
        /\ g.running = f.running \ {h}
        /\ g.ok = f.ok
        /\ g.failed
        /\ g.recorded = f.recorded
    BY DEF TypeOK, Flight, TruthInv
  <2>2. /\ UNCHANGED <<published, row, claims, done>>
        /\ flights' = (flights \ {f}) \cup {g}
    BY <1>4 DEF HandlerFails
  <2>3. RowsGrow
    BY <2>2 DEF RowsGrow
  <2>4. FlightOK(g)'
    <3> HIDE DEF g
    <3> QED
      BY <2>1, <2>2 DEF FlightOK
  <2> HIDE DEF g
  <2> QED
    BY <1>0, <2>2, <2>3, <2>4, FlightStaysOK, ClaimStaysOK
       DEF TruthInv, UnpublishedIsBlank, RowOK
<1>5. ASSUME NEW f \in flights, SaveOutcome(f) PROVE TruthInv' /\ RowsGrow
  <2>1. f \in Flight /\ FlightOK(f) /\ f.event \in Events /\ f.running = {}
    BY <1>5 DEF TypeOK, Flight, TruthInv, SaveOutcome
  <2>2. /\ UNCHANGED <<published, claims, done>>
        /\ flights' = flights \ {f}
    BY <1>5 DEF SaveOutcome
  <2>3. CASE ~ f.recorded
    <3>1. row' = row
      BY <1>5, <2>3 DEF SaveOutcome
    <3>2. RowsGrow
      BY <2>2, <3>1 DEF RowsGrow
    <3> QED
      BY <1>0, <2>2, <3>1, <3>2, FlightStaysOK, ClaimStaysOK
         DEF TruthInv, UnpublishedIsBlank, RowOK
  <2>4. CASE f.recorded
    <3> DEFINE new == MarkResult(row[f.event], f.ok, f.failed)
    <3>1. /\ row' = [row EXCEPT ![f.event] = new]
          /\ row[f.event] \in Row
          /\ f.ok \in SUBSET Handlers
          /\ f.failed \in BOOLEAN
      BY <1>5, <2>1, <2>4 DEF SaveOutcome, TypeOK, Flight
    <3>2. /\ new.completed = row[f.event].completed \cup f.ok
          /\ new.status \in {"DISPATCHED", "FAILED", "DEAD"}
          /\ new.status = "DISPATCHED" => ~ f.failed
      BY <3>1, MarkResultGrows
    <3> HIDE DEF new
    <3>3. row'[f.event] = new /\ \A x \in Events : x # f.event => row'[x] = row[x]
      BY <2>1, <3>1 DEF TypeOK
    <3>4. RowsGrow
      BY <2>1, <2>2, <3>2, <3>3 DEF RowsGrow
    <3>5. \A x \in Events : RowOK(x)'
      BY <2>1, <2>2, <3>2, <3>3 DEF TruthInv, RowOK, FlightOK
    <3>6. UnpublishedIsBlank'
      BY <2>1, <2>2, <3>3 DEF TruthInv, UnpublishedIsBlank, FlightOK
    <3> QED
      BY <1>0, <2>2, <3>4, <3>5, <3>6, FlightStaysOK, ClaimStaysOK DEF TruthInv
  <2> QED
    BY <2>3, <2>4
<1>6. ASSUME NEW r \in Relays, NEW batch \in SUBSET Events, ClaimDue(r, batch)
      PROVE  TruthInv' /\ RowsGrow
  <2>1. /\ UNCHANGED <<published, flights, done>>
        /\ \A x \in Events : /\ row'[x].completed = row[x].completed
                             /\ row'[x].status = row[x].status
                             /\ x \notin batch => row'[x] = row[x]
        /\ \A x \in batch : row[x].status # "NONE"
    BY <1>6 DEF ClaimDue, TypeOK, Row, Claimable
  <2>2. RowsGrow
    BY <2>1 DEF RowsGrow
  <2>3. \A x \in batch : x \in published
    BY <2>1 DEF TruthInv, UnpublishedIsBlank, NoRow
  <2>4. \A s \in Relays : \A c \in claims'[s] :
          c \in claims[s]
            \/ \E x \in batch : c = [event |-> x, completed |-> row[x].completed]
    BY <1>6 DEF ClaimDue, TypeOK
  <2>5. ASSUME NEW x \in batch, NEW c \in Claim,
               c = [event |-> x, completed |-> row[x].completed]
        PROVE  ClaimOK(c)'
    BY <2>1, <2>3, <2>5 DEF ClaimOK
  <2>6. ASSUME NEW s \in Relays, NEW c \in claims'[s] PROVE ClaimOK(c)'
    <3>1. CASE c \in claims[s]
      BY <1>0, <2>2, <3>1, ClaimStaysOK DEF TruthInv
    <3>2. CASE \E x \in batch : c = [event |-> x, completed |-> row[x].completed]
      BY <2>5, <3>2 DEF TypeOK, Row, Claim
    <3> QED
      BY <2>4, <3>1, <3>2
  <2> QED
    BY <1>0, <2>1, <2>2, <2>3, <2>6, FlightStaysOK
       DEF TruthInv, UnpublishedIsBlank, RowOK
<1>7. ASSUME NEW r \in Relays, Redeliver(r) PROVE TruthInv' /\ RowsGrow
  <2>1. PICK c \in claims[r] :
          /\ claims' = [claims EXCEPT ![r] = @ \ {c}]
          /\ flights' = flights
               \cup {NewFlight(r, c.event, HandlersOf[c.event] \ c.completed, TRUE)}
    BY <1>7 DEF Redeliver
  <2>2. UNCHANGED <<published, row, done>>
    BY <1>7 DEF Redeliver
  <2>3. RowsGrow
    BY <2>2 DEF RowsGrow
  <2>4. ClaimOK(c) /\ c.event \in Events
    BY <1>0 DEF TruthInv, Claim
  <2>5. FlightOK(NewFlight(r, c.event, HandlersOf[c.event] \ c.completed, TRUE))'
    BY <2>2, <2>4 DEF NewFlight, FlightOK, ClaimOK
  <2>6. \A s \in Relays : claims'[s] \subseteq claims[s]
    BY <2>1 DEF TypeOK
  <2> QED
    BY <1>0, <2>1, <2>2, <2>3, <2>5, <2>6, FlightStaysOK, ClaimStaysOK
       DEF TruthInv, UnpublishedIsBlank, RowOK
<1>8. ASSUME NEW f \in flights, SaveLost(f) PROVE TruthInv' /\ RowsGrow
  <2>1. flights' = flights \ {f} /\ UNCHANGED <<published, row, claims, done>>
    BY <1>8 DEF SaveLost
  <2>2. RowsGrow
    BY <2>1 DEF RowsGrow
  <2> QED
    BY <1>0, <2>1, <2>2, FlightStaysOK, ClaimStaysOK
       DEF TruthInv, UnpublishedIsBlank, RowOK
<1>9. ASSUME NEW f \in flights, PublisherCrashes(f) PROVE TruthInv' /\ RowsGrow
  <2>1. f \in Flight /\ FlightOK(f) /\ f.event \in Events
    BY DEF TypeOK, Flight, TruthInv
  <2>2. flights' = flights \ {f} /\ UNCHANGED <<published, row, claims>>
    BY <1>9 DEF PublisherCrashes
  <2>3. \A x \in Events : /\ done[x] \subseteq done'[x]
                          /\ x # f.event => done'[x] = done[x]
    BY <1>9, <2>1 DEF PublisherCrashes, TypeOK
  <2>4. RowsGrow
    BY <2>2, <2>3 DEF RowsGrow
  <2>5. UnpublishedIsBlank'
    BY <2>1, <2>2, <2>3 DEF TruthInv, UnpublishedIsBlank, FlightOK
  <2>6. \A x \in Events : RowOK(x)'
    BY <2>2, <2>3 DEF TruthInv, RowOK
  <2> QED
    BY <1>0, <2>2, <2>4, <2>5, <2>6, FlightStaysOK, ClaimStaysOK DEF TruthInv
<1>10. ASSUME NEW r \in Relays, RelayCrashes(r) PROVE TruthInv' /\ RowsGrow
  <2>1. /\ UNCHANGED <<published, row>>
        /\ flights' \subseteq flights
        /\ \A s \in Relays : claims'[s] \subseteq claims[s]
    BY <1>10 DEF RelayCrashes, TypeOK
  <2>2. \A x \in Events :
          /\ done[x] \subseteq done'[x]
          /\ (~ \E f \in flights : f.event = x) => done'[x] = done[x]
    BY <1>10 DEF RelayCrashes
  <2>3. RowsGrow
    BY <2>1, <2>2 DEF RowsGrow
  <2>4. UnpublishedIsBlank'
    BY <2>1, <2>2 DEF TruthInv, UnpublishedIsBlank, FlightOK
  <2>5. \A x \in Events : RowOK(x)'
    BY <2>1, <2>2 DEF TruthInv, RowOK
  <2> QED
    BY <1>0, <2>1, <2>3, <2>4, <2>5, FlightStaysOK, ClaimStaysOK DEF TruthInv
<1>11. CASE UNCHANGED vars
  <2>1. UNCHANGED <<published, row, flights, claims, done>>
    BY <1>11 DEF vars
  <2> QED
    BY <2>1 DEF TruthInv, UnpublishedIsBlank, FlightOK, ClaimOK, RowOK, RowsGrow
<1> QED
  BY <1>1, <1>2, <1>3, <1>4, <1>5, <1>6, <1>7, <1>8, <1>9, <1>10, <1>11
     DEF Next, Advance, Relay, Fault

\* Rows, dispatches and claims never say more than the handlers have done: the
\* invariant from which DispatchedIsDelivered follows.
THEOREM Truth == Spec => []TruthInv
<1>1. Init => TruthInv
  BY InitTruth
<1>2. TypeOK /\ TruthInv /\ [Next]_vars => TruthInv'
  BY NextTruth
<1> QED
  BY <1>1, <1>2, TypeCorrect, PTL DEF Spec

\* A row that says DISPATCHED tells the truth in every reachable state, whatever
\* crashes, lost updates and overrunning dispatches there were.
THEOREM DispatchedIsTrue == Spec => []DispatchedIsDelivered
<1>1. TypeOK /\ TruthInv => DispatchedIsDelivered
  BY DEF TruthInv, RowOK, DispatchedIsDelivered
<1> QED
  BY <1>1, Truth, TypeCorrect, PTL

\* No step takes a saved completion back.
THEOREM CompletedNeverShrinks == Spec => CompletedIsKept
<1>1. TypeOK /\ TruthInv /\ [Next]_vars
        => [\A e \in Events : row[e].completed \subseteq row'[e].completed]_vars
  BY NextTruth DEF RowsGrow
<1> QED
  BY <1>1, Truth, TypeCorrect, PTL DEF Spec, CompletedIsKept

-----------------------------------------------------------------------------
(* Mutual exclusion, when no dispatch outlasts its window.                 *)

OneFlightPerRelay ==
  \A f, g \in flights : f.by \in Relays /\ f.by = g.by => f = g

\* An event somebody works on cannot be claimed and is not settled.
HeldIsLocked ==
  \A e \in Events :
    Held(e) => ~ Claimable(e) /\ row[e].status \notin {"DISPATCHED", "DEAD"}

ExclusionInv == OneDispatchPerEvent /\ OneFlightPerRelay /\ HeldIsLocked

\* Dropping work never breaks exclusion.
LEMMA FewerHolders ==
  ASSUME TypeOK, ExclusionInv, UNCHANGED row, flights' \subseteq flights,
         \A r \in Relays : claims'[r] \subseteq claims[r]
  PROVE  ExclusionInv'
<1>1. \A e \in Events : Held(e)' => Held(e)
  BY DEF Held
<1>2. HeldIsLocked'
  BY <1>1 DEF ExclusionInv, HeldIsLocked, Claimable
<1>3. OneDispatchPerEvent'
  BY DEF ExclusionInv, OneDispatchPerEvent
<1>4. OneFlightPerRelay'
  BY DEF ExclusionInv, OneFlightPerRelay
<1> QED
  BY <1>2, <1>3, <1>4 DEF ExclusionInv

\* A dispatch that goes on (one handler settles) holds what it held.
LEMMA SameHolders ==
  ASSUME TypeOK, ExclusionInv, UNCHANGED <<row, claims>>, NEW f \in flights, NEW g,
         flights' = (flights \ {f}) \cup {g}, g.by = f.by, g.event = f.event
  PROVE  ExclusionInv'
<1>1. \A e \in Events : Held(e)' => Held(e)
  BY DEF Held
<1>2. HeldIsLocked'
  BY <1>1 DEF ExclusionInv, HeldIsLocked, Claimable
<1>3. OneDispatchPerEvent'
  <2>1. \A e \in Events : \A x, y \in flights' : x.event = e /\ y.event = e => x = y
    BY DEF ExclusionInv, OneDispatchPerEvent
  <2>2. ASSUME NEW e \in Events, NEW r \in Relays, NEW c \in claims'[r], c.event = e
        PROVE  /\ ~ \E x \in flights' : x.event = e
               /\ \A s \in Relays : \A d \in claims'[s] : d.event = e => s = r /\ d = c
    BY <2>2 DEF ExclusionInv, OneDispatchPerEvent
  <2> QED
    BY <2>1, <2>2 DEF OneDispatchPerEvent
<1>4. OneFlightPerRelay'
  BY DEF ExclusionInv, OneFlightPerRelay
<1> QED
  BY <1>2, <1>3, <1>4 DEF ExclusionInv

\* Nothing is held at first.
LEMMA InitExclusion == Init => ExclusionInv
  BY DEF Init, ExclusionInv, OneDispatchPerEvent, OneFlightPerRelay, HeldIsLocked, Held

\* Without overruns, every step keeps the exclusion invariant.
LEMMA NextExclusion ==
  ASSUME MayOverrun = FALSE, TypeOK, TruthInv, ExclusionInv, [Next]_vars
  PROVE  ExclusionInv'
<1> USE DomainEventsAssumption
<1>0. /\ flights \in SUBSET Flight
      /\ \A r \in Relays : claims[r] \in SUBSET Claim
  BY DEF TypeOK
<1>1. ASSUME NEW e \in Events, Publish(e) PROVE ExclusionInv'
  <2>1. e \notin published /\ row[e] = NoRow /\ UNCHANGED claims
    BY <1>1 DEF Publish, PublishUnheard, PublishRecorded, PublishUnrecorded,
                TruthInv, UnpublishedIsBlank
  <2>2. row' = row \/ row' = [row EXCEPT ![e] = PendingRow]
    BY <1>1 DEF Publish, PublishUnheard, PublishRecorded, PublishUnrecorded
  <2>3. ~ Held(e)
    BY <2>1 DEF Held, TruthInv, FlightOK, ClaimOK
  <2>4. /\ flights \subseteq flights'
        /\ \A x \in flights' \ flights : x.event = e /\ x.by = Api
        /\ \A x, y \in flights' \ flights : x = y
    <3>1. CASE PublishUnheard(e)
      BY <3>1 DEF PublishUnheard
    <3>2. ASSUME NEW x, x.event = e, x.by = Api, flights' = flights \cup {x}
          PROVE  /\ flights \subseteq flights'
                 /\ \A y \in flights' \ flights : y.event = e /\ y.by = Api
                 /\ \A y, z \in flights' \ flights : y = z
      BY <3>2
    <3>3. CASE PublishRecorded(e)
      <4> DEFINE x == NewFlight(Api, e, HandlersOf[e], TRUE)
      <4>1. flights' = flights \cup {x}
        BY <3>3 DEF PublishRecorded
      <4>2. x.event = e /\ x.by = Api
        BY DEF NewFlight
      <4> HIDE DEF x
      <4> QED
        BY <3>2, <4>1, <4>2
    <3>4. CASE PublishUnrecorded(e)
      <4> DEFINE x == NewFlight(Api, e, HandlersOf[e], FALSE)
      <4>1. flights' = flights \cup {x}
        BY <3>4 DEF PublishUnrecorded
      <4>2. x.event = e /\ x.by = Api
        BY DEF NewFlight
      <4> HIDE DEF x
      <4> QED
        BY <3>2, <4>1, <4>2
    <3> QED
      BY <1>1, <3>1, <3>3, <3>4 DEF Publish
  <2>5. OneDispatchPerEvent'
    BY <2>1, <2>3, <2>4 DEF ExclusionInv, OneDispatchPerEvent, Held
  <2>6. OneFlightPerRelay'
    BY <2>4 DEF ExclusionInv, OneFlightPerRelay
  <2>7. ASSUME NEW x \in Events, Held(x)'
        PROVE  ~ Claimable(x)' /\ row'[x].status \notin {"DISPATCHED", "DEAD"}
    <3>1. CASE x = e
      BY <2>1, <2>2, <3>1 DEF Claimable, NoRow, PendingRow, TypeOK
    <3>2. CASE x # e
      <4>1. Held(x)
        BY <2>1, <2>4, <2>7, <3>2 DEF Held
      <4>2. row'[x] = row[x]
        BY <2>2, <3>2 DEF TypeOK
      <4> QED
        BY <4>1, <4>2 DEF ExclusionInv, HeldIsLocked, Claimable
    <3> QED
      BY <3>1, <3>2
  <2> QED
    BY <2>5, <2>6, <2>7 DEF ExclusionInv, HeldIsLocked
<1>2. ASSUME NEW e \in Events, Tick(e) PROVE ExclusionInv'
  <2>1. /\ ~ Held(e)
        /\ UNCHANGED <<flights, claims>>
        /\ \A x \in Events : x # e => row'[x] = row[x]
    BY <1>2 DEF Tick, PendingGrowsStale, NextAttemptComes, TypeOK
  <2>2. HeldIsLocked'
    BY <2>1 DEF ExclusionInv, HeldIsLocked, Claimable, Held
  <2> QED
    BY <2>1, <2>2 DEF ExclusionInv, OneDispatchPerEvent, OneFlightPerRelay
<1>3. ASSUME NEW f \in flights, NEW h \in f.running, HandlerSucceeds(f, h)
      PROVE  ExclusionInv'
  <2> DEFINE g == [f EXCEPT !.running = @ \ {h}, !.ok = @ \cup {h}]
  <2>1. g.by = f.by /\ g.event = f.event
    BY <1>0 DEF Flight
  <2>2. UNCHANGED <<row, claims>> /\ flights' = (flights \ {f}) \cup {g}
    BY <1>3 DEF HandlerSucceeds
  <2> HIDE DEF g
  <2> QED
    BY <2>1, <2>2, SameHolders
<1>4. ASSUME NEW f \in flights, NEW h \in f.running, HandlerFails(f, h)
      PROVE  ExclusionInv'
  <2> DEFINE g == [f EXCEPT !.running = @ \ {h}, !.failed = TRUE]
  <2>1. g.by = f.by /\ g.event = f.event
    BY <1>0 DEF Flight
  <2>2. UNCHANGED <<row, claims>> /\ flights' = (flights \ {f}) \cup {g}
    BY <1>4 DEF HandlerFails
  <2> HIDE DEF g
  <2> QED
    BY <2>1, <2>2, SameHolders
<1>5. ASSUME NEW f \in flights, SaveOutcome(f) PROVE ExclusionInv'
  <2>1. /\ UNCHANGED claims
        /\ flights' = flights \ {f}
        /\ \A x \in Events : x # f.event => row'[x] = row[x]
    BY <1>5 DEF SaveOutcome, TypeOK
  <2>2. f.event \in Events
    BY <1>0 DEF Flight
  <2>3. ~ Held(f.event)'
    BY <2>1, <2>2 DEF Held, ExclusionInv, OneDispatchPerEvent
  <2>4. HeldIsLocked'
    BY <2>1, <2>3 DEF ExclusionInv, HeldIsLocked, Claimable, Held
  <2> QED
    BY <2>1, <2>4 DEF ExclusionInv, OneDispatchPerEvent, OneFlightPerRelay
<1>6. ASSUME NEW r \in Relays, NEW batch \in SUBSET Events, ClaimDue(r, batch)
      PROVE  ExclusionInv'
  <2>1. /\ UNCHANGED flights
        /\ \A x \in Events : x \notin batch => row'[x] = row[x]
        /\ \A x \in batch : /\ ~ row'[x].due
                            /\ row'[x].status = row[x].status
                            /\ Claimable(x)
    BY <1>6 DEF ClaimDue, TypeOK, Row
  <2>2. claims[r] = {}
    BY <1>6 DEF ClaimDue, Busy
  <2>3. /\ \A s \in Relays : s # r => claims'[s] = claims[s]
        /\ claims'[r] = {[event |-> x, completed |-> row[x].completed] : x \in batch}
    BY <1>6 DEF ClaimDue, TypeOK
  <2>4. \A x \in batch : ~ Held(x)
    BY <2>1 DEF ExclusionInv, HeldIsLocked
  <2>5. \A c \in claims'[r] : /\ c.event \in batch
                              /\ \A d \in claims'[r] : d.event = c.event => d = c
    BY <2>3
  <2>6. \A x \in Events : Held(x)' => Held(x) \/ x \in batch
    BY <2>1, <2>3, <2>5 DEF Held
  <2>7. HeldIsLocked'
    BY <2>1, <2>6 DEF ExclusionInv, HeldIsLocked, Claimable
  <2>8. ASSUME NEW e \in Events, NEW s \in Relays, NEW c \in claims'[s], c.event = e
        PROVE  /\ ~ \E f \in flights' : f.event = e
               /\ \A t \in Relays : \A d \in claims'[t] : d.event = e => t = s /\ d = c
    <3>1. CASE s = r
      BY <2>1, <2>3, <2>4, <2>5, <2>8, <3>1 DEF Held
    <3>2. CASE s # r
      <4>1. c \in claims[s] /\ e \notin batch
        BY <2>3, <2>4, <2>8, <3>2 DEF Held
      <4>2. \A d \in claims'[r] : d.event # e
        BY <2>5, <4>1
      <4> QED
        BY <2>1, <2>3, <2>8, <4>1, <4>2 DEF ExclusionInv, OneDispatchPerEvent
    <3> QED
      BY <3>1, <3>2
  <2>9. OneDispatchPerEvent'
    BY <2>1, <2>8 DEF ExclusionInv, OneDispatchPerEvent
  <2> QED
    BY <2>1, <2>7, <2>9 DEF ExclusionInv, OneFlightPerRelay
<1>7. ASSUME NEW r \in Relays, Redeliver(r) PROVE ExclusionInv'
  <2>1. PICK c \in claims[r] :
          /\ claims' = [claims EXCEPT ![r] = @ \ {c}]
          /\ flights' = flights
               \cup {NewFlight(r, c.event, HandlersOf[c.event] \ c.completed, TRUE)}
    BY <1>7 DEF Redeliver
  <2> DEFINE g == NewFlight(r, c.event, HandlersOf[c.event] \ c.completed, TRUE)
  <2>2. g.by = r /\ g.event = c.event /\ flights' = flights \cup {g}
    BY <2>1 DEF NewFlight
  <2>3. UNCHANGED row /\ ~ \E f \in flights : f.by = r
    BY <1>7 DEF Redeliver
  <2>4. /\ claims'[r] = claims[r] \ {c}
        /\ \A s \in Relays : s # r => claims'[s] = claims[s]
    BY <2>1 DEF TypeOK
  <2>5. c.event \in Events
    BY <1>0 DEF Claim
  <2> HIDE DEF g
  <2>6. \A x \in Events : Held(x)' => Held(x)
    BY <2>2, <2>4 DEF Held
  <2>7. HeldIsLocked'
    BY <2>3, <2>6 DEF ExclusionInv, HeldIsLocked, Claimable
  <2>8. OneFlightPerRelay'
    BY <2>2, <2>3 DEF ExclusionInv, OneFlightPerRelay
  <2>9. \A e \in Events : \A x, y \in flights' : x.event = e /\ y.event = e => x = y
    BY <2>2, <2>5 DEF ExclusionInv, OneDispatchPerEvent
  <2>10. ASSUME NEW e \in Events, NEW s \in Relays, NEW d \in claims'[s], d.event = e
         PROVE  /\ ~ \E f \in flights' : f.event = e
                /\ \A t \in Relays : \A b \in claims'[t] : b.event = e => t = s /\ b = d
    <3>1. d \in claims[s] /\ (s = r => d # c)
      BY <2>4
    <3>2. e # c.event
      BY <2>5, <2>10, <3>1 DEF ExclusionInv, OneDispatchPerEvent
    <3> QED
      BY <2>2, <2>4, <2>10, <3>1, <3>2 DEF ExclusionInv, OneDispatchPerEvent
  <2> QED
    BY <2>7, <2>8, <2>9, <2>10 DEF ExclusionInv, OneDispatchPerEvent
<1>8. ASSUME NEW f \in flights, SaveLost(f) PROVE ExclusionInv'
  BY <1>8, FewerHolders DEF SaveLost
<1>9. ASSUME NEW f \in flights, PublisherCrashes(f) PROVE ExclusionInv'
  BY <1>9, FewerHolders DEF PublisherCrashes
<1>10. ASSUME NEW r \in Relays, RelayCrashes(r) PROVE ExclusionInv'
  <2>1. /\ UNCHANGED row
        /\ flights' \subseteq flights
        /\ \A s \in Relays : claims'[s] \subseteq claims[s]
    BY <1>10 DEF RelayCrashes, TypeOK
  <2> QED
    BY <2>1, FewerHolders
<1>11. CASE UNCHANGED vars
  BY <1>11, FewerHolders DEF vars
<1> QED
  BY <1>1, <1>2, <1>3, <1>4, <1>5, <1>6, <1>7, <1>8, <1>9, <1>10, <1>11
     DEF Next, Advance, Relay, Fault

\* Without overruns, a held event is locked: its row is not claimable, and one
\* process holds it.
THEOREM Exclusion ==
  ASSUME MayOverrun = FALSE
  PROVE  Spec => []ExclusionInv
<1>1. Init => ExclusionInv
  BY InitExclusion
<1>2. TypeOK /\ TruthInv /\ ExclusionInv /\ [Next]_vars => ExclusionInv'
  BY NextExclusion
<1> QED
  BY <1>1, <1>2, TypeCorrect, Truth, PTL DEF Spec

\* If no dispatch outlasts its window, staleness window and lease work as a lock:
\* two processes never run handlers of the same event at the same time.
THEOREM DispatchesExclude ==
  ASSUME MayOverrun = FALSE
  PROVE  Spec => []OneDispatchPerEvent
<1>1. ExclusionInv => OneDispatchPerEvent
  BY DEF ExclusionInv
<1> QED
  BY <1>1, Exclusion, PTL

-----------------------------------------------------------------------------
(* No handler runs again without a reason, when no dispatch outlasts its   *)
(* window.                                                                 *)

\* Whatever took effect for e is saved, or known to the dispatch that works on e,
\* and what a relay has claimed is what the row says.
AccountedFor(e) ==
  /\ \A f \in flights : f.event = e => f.recorded /\ done[e] \subseteq row[e].completed \cup f.ok
  /\ (\A f \in flights : f.event # e) => done[e] \subseteq row[e].completed
  /\ \A r \in Relays : \A c \in claims[r] : c.event = e => c.completed = row[e].completed

Accounted == \A e \in Events : e \in interrupted \/ AccountedFor(e)

\* A step that leaves an event alone, or one that starts to be interrupted.
LEMMA AloneAccounted ==
  ASSUME Accounted, NEW e \in Events, interrupted \subseteq interrupted',
         e \notin interrupted' =>
           /\ done'[e] = done[e] /\ row'[e].completed = row[e].completed
           /\ \A f \in flights' : f.event = e => f \in flights
           /\ \A f \in flights : f.event = e => f \in flights'
           /\ \A r \in Relays : \A c \in claims'[r] : c.event = e => c \in claims[r]
  PROVE  e \in interrupted' \/ AccountedFor(e)'
  BY DEF Accounted, AccountedFor

LEMMA NextAccounted ==
  ASSUME TypeOK, TruthInv, ExclusionInv, Accounted, [Next]_vars
  PROVE  Accounted'
<1> USE DomainEventsAssumption
<1>0. /\ \A f \in flights : f \in Flight /\ f.event \in Events
      /\ \A r \in Relays : \A c \in claims[r] : c \in Claim /\ c.event \in Events
  BY DEF TypeOK, Flight, Claim
<1>1. ASSUME NEW e \in Events, Publish(e) PROVE Accounted'
  <2>1. /\ e \notin published /\ done[e] = {} /\ row[e] = NoRow
        /\ UNCHANGED <<claims, done>> /\ interrupted \subseteq interrupted'
        /\ row' = row \/ row' = [row EXCEPT ![e] = PendingRow]
    BY <1>1 DEF Publish, PublishUnheard, PublishRecorded, PublishUnrecorded, TruthInv,
                UnpublishedIsBlank
  <2>2. row'[e].completed = {} /\ \A x \in Events : x # e => row'[x] = row[x]
    BY <2>1 DEF NoRow, PendingRow, TypeOK
  <2>3. /\ \A f \in flights : f.event # e
        /\ \A r \in Relays : \A c \in claims[r] : c.event # e
    BY <2>1 DEF TruthInv, FlightOK, ClaimOK
  <2> DEFINE saved == NewFlight(Api, e, HandlersOf[e], TRUE)
             unsaved == NewFlight(Api, e, HandlersOf[e], FALSE)
  <2>4. \/ flights' = flights
        \/ flights' = flights \cup {saved}
        \/ flights' = flights \cup {unsaved} /\ e \in interrupted'
    BY <1>1 DEF Publish, PublishUnheard, PublishRecorded, PublishUnrecorded
  <2>5. saved.event = e /\ saved.recorded /\ unsaved.event = e
    BY DEF NewFlight
  <2> HIDE DEF saved, unsaved
  <2>6. /\ flights \subseteq flights'
        /\ \A f \in flights' : f \in flights \/ (f.event = e /\ (f.recorded \/ e \in interrupted'))
    BY <2>4, <2>5
  <2>7. e \in interrupted' \/ AccountedFor(e)'
    BY <2>1, <2>2, <2>3, <2>6 DEF AccountedFor
  <2>8. \A x \in Events : x # e => x \in interrupted' \/ AccountedFor(x)'
    BY <2>1, <2>2, <2>6, AloneAccounted
  <2> QED
    BY <2>7, <2>8 DEF Accounted
<1>2. ASSUME NEW e \in Events, Tick(e) PROVE Accounted'
  <2>1. UNCHANGED <<flights, claims, done, interrupted>>
    BY <1>2 DEF Tick, PendingGrowsStale, NextAttemptComes
  <2>2. \/ row' = [row EXCEPT ![e].stale = TRUE]
        \/ row' = [row EXCEPT ![e].due = TRUE]
    BY <1>2 DEF Tick, PendingGrowsStale, NextAttemptComes
  <2>3. \A x \in Events : row'[x].completed = row[x].completed
    <3>1. CASE row' = [row EXCEPT ![e].stale = TRUE]
      BY <3>1 DEF TypeOK, Row
    <3>2. CASE row' = [row EXCEPT ![e].due = TRUE]
      BY <3>2 DEF TypeOK, Row
    <3> QED
      BY <2>2, <3>1, <3>2
  <2> QED
    BY <2>1, <2>3, AloneAccounted DEF Accounted
<1>3. ASSUME NEW f \in flights, NEW h \in f.running, HandlerSucceeds(f, h)
      PROVE  Accounted'
  <2> DEFINE g == [f EXCEPT !.running = @ \ {h}, !.ok = @ \cup {h}]
  <2>1. g.event = f.event /\ g.ok = f.ok \cup {h} /\ g.recorded = f.recorded
    BY <1>0 DEF Flight
  <2>2. /\ UNCHANGED <<row, claims, interrupted>> /\ flights' = (flights \ {f}) \cup {g}
        /\ done'[f.event] = done[f.event] \cup {h}
        /\ \A x \in Events : x # f.event => done'[x] = done[x]
    BY <1>0, <1>3 DEF HandlerSucceeds, TypeOK
  <2> HIDE DEF g
  <2>3. f.event \in interrupted' \/ AccountedFor(f.event)'
    BY <1>0, <2>1, <2>2 DEF Accounted, AccountedFor, ExclusionInv, OneDispatchPerEvent
  <2>4. \A x \in Events : x # f.event => x \in interrupted' \/ AccountedFor(x)'
    BY <2>1, <2>2, AloneAccounted
  <2> QED
    BY <2>3, <2>4 DEF Accounted
<1>4. ASSUME NEW f \in flights, NEW h \in f.running, HandlerFails(f, h)
      PROVE  Accounted'
  <2> DEFINE g == [f EXCEPT !.running = @ \ {h}, !.failed = TRUE]
  <2>1. g.event = f.event /\ g.ok = f.ok /\ g.recorded = f.recorded
    BY <1>0 DEF Flight
  <2>2. UNCHANGED <<row, claims, done, interrupted>> /\ flights' = (flights \ {f}) \cup {g}
    BY <1>4 DEF HandlerFails
  <2> HIDE DEF g
  <2> QED
    BY <2>1, <2>2 DEF Accounted, AccountedFor
<1>5. ASSUME NEW f \in flights, SaveOutcome(f) PROVE Accounted'
  <2> DEFINE e == f.event
             new == MarkResult(row[e], f.ok, f.failed)
  <2>1. /\ UNCHANGED <<claims, done, interrupted>> /\ flights' = flights \ {f}
        /\ f.recorded => row' = [row EXCEPT ![e] = new]
        /\ ~ f.recorded => row' = row
    BY <1>5 DEF SaveOutcome
  <2>2. /\ e \in Events /\ new.completed = row[e].completed \cup f.ok
        /\ \A k \in flights' : k.event # e
        /\ \A r \in Relays : \A c \in claims[r] : c.event # e
    BY <1>0, <2>1, MarkResultGrows DEF TypeOK, Flight, ExclusionInv, OneDispatchPerEvent
  <2> HIDE DEF new
  <2>3. e \in interrupted' \/ AccountedFor(e)'
    BY <2>1, <2>2 DEF Accounted, AccountedFor, TypeOK
  <2>4. \A x \in Events : x # e => x \in interrupted' \/ AccountedFor(x)'
    BY <2>1, <2>2, AloneAccounted DEF TypeOK
  <2> QED
    BY <2>3, <2>4 DEF Accounted
<1>6. ASSUME NEW r \in Relays, NEW batch \in SUBSET Events, ClaimDue(r, batch)
      PROVE  Accounted'
  <2>1. /\ UNCHANGED <<flights, done, interrupted>>
        /\ \A x \in Events : row'[x].completed = row[x].completed
        /\ \A s \in Relays : s # r => claims'[s] = claims[s]
        /\ claims'[r] = {[event |-> x, completed |-> row[x].completed] : x \in batch}
    BY <1>6 DEF ClaimDue, TypeOK, Row
  <2>2. \A s \in Relays : \A c \in claims'[s] :
          c \in claims[s] \/ c.completed = row[c.event].completed
    BY <2>1
  <2> QED
    BY <2>1, <2>2 DEF Accounted, AccountedFor
<1>7. ASSUME NEW r \in Relays, Redeliver(r) PROVE Accounted'
  <2>1. PICK c \in claims[r] :
          /\ claims' = [claims EXCEPT ![r] = @ \ {c}]
          /\ flights' = flights
               \cup {NewFlight(r, c.event, HandlersOf[c.event] \ c.completed, TRUE)}
    BY <1>7 DEF Redeliver
  <2> DEFINE g == NewFlight(r, c.event, HandlersOf[c.event] \ c.completed, TRUE)
  <2>2. g.event = c.event /\ g.ok = {} /\ g.recorded /\ flights' = flights \cup {g}
    BY <2>1 DEF NewFlight
  <2>3. /\ UNCHANGED <<row, done, interrupted>>
        /\ \A s \in Relays : claims'[s] \subseteq claims[s]
    BY <1>7, <2>1 DEF Redeliver, TypeOK
  <2>4. \A f \in flights : f.event # c.event
    BY <1>0 DEF ExclusionInv, OneDispatchPerEvent
  <2> HIDE DEF g
  <2> QED
    BY <1>0, <2>2, <2>3, <2>4 DEF Accounted, AccountedFor
<1>8. ASSUME NEW f \in flights, SaveLost(f) \/ PublisherCrashes(f) PROVE Accounted'
  <2>1. /\ UNCHANGED <<row, claims>> /\ flights' = flights \ {f}
        /\ interrupted' = interrupted \cup {f.event}
        /\ \A x \in Events : x # f.event => done'[x] = done[x]
    BY <1>8 DEF SaveLost, PublisherCrashes, TypeOK
  <2> QED
    BY <2>1, AloneAccounted DEF Accounted
<1>9. ASSUME NEW r \in Relays, RelayCrashes(r) PROVE Accounted'
  <2> DEFINE cut == {f \in flights : f.by = r}
  <2>1. /\ UNCHANGED row /\ flights' = flights \ cut
        /\ interrupted' = interrupted \cup {f.event : f \in cut}
        /\ \A s \in Relays : claims'[s] \subseteq claims[s]
    BY <1>9 DEF RelayCrashes, TypeOK
  <2>2. ASSUME NEW x \in Events, x \notin interrupted'
        PROVE  done'[x] = done[x]
    <3>1. {f \in cut : f.event = x} = {}
      BY <2>1, <2>2
    <3>2. PICK S \in SUBSET Handlers :
            done'[x] = done[x] \cup UNION {f.running \cap S : f \in {g \in cut : g.event = x}}
      BY <1>9 DEF RelayCrashes
    <3> QED
      BY <3>1, <3>2
  <2>3. ASSUME NEW x \in Events
        PROVE  x \in interrupted' \/ AccountedFor(x)'
    BY <2>1, <2>2, AloneAccounted
  <2> QED
    BY <2>3 DEF Accounted
<1>10. CASE UNCHANGED vars
  BY <1>10, AloneAccounted DEF vars, Accounted
<1> QED
  BY <1>1, <1>2, <1>3, <1>4, <1>5, <1>6, <1>7, <1>8, <1>9, <1>10
     DEF Next, Advance, Relay, Fault

\* A dispatch that starts runs nothing that took effect before.
LEMMA StartsFresh ==
  ASSUME TypeOK, TruthInv, ExclusionInv, Accounted, [Next]_vars,
         NEW f \in flights', Started(f)
  PROVE  f.running \cap done[f.event] = {} \/ f.event \in interrupted
<1>0. f \notin flights
  BY DEF Started
<1>1. CASE \E e \in Events : Publish(e)
  <2> PICK e \in Events : Publish(e)
    BY <1>1
  <2>1. f.event = e /\ done[e] = {}
    BY <1>0 DEF Publish, PublishUnheard, PublishRecorded, PublishUnrecorded, NewFlight,
                TruthInv, UnpublishedIsBlank
  <2> QED
    BY <2>1
<1>2. CASE \E g \in flights : \E h \in g.running : HandlerSucceeds(g, h) \/ HandlerFails(g, h)
  <2> PICK g \in flights : \E h \in g.running : HandlerSucceeds(g, h) \/ HandlerFails(g, h)
    BY <1>2
  <2> PICK h \in g.running : HandlerSucceeds(g, h) \/ HandlerFails(g, h)
    OBVIOUS
  <2>1. g \in Flight
    BY DEF TypeOK
  <2>3. \/ f = [g EXCEPT !.running = @ \ {h}, !.ok = @ \cup {h}]
        \/ f = [g EXCEPT !.running = @ \ {h}, !.failed = TRUE]
    BY <1>0 DEF HandlerSucceeds, HandlerFails
  <2>2. f.by = g.by /\ f.event = g.event
    BY <2>1, <2>3 DEF Flight
  <2> QED
    BY <2>2 DEF Started
<1>3. CASE \E r \in Relays : Redeliver(r)
  <2> PICK r \in Relays : \E c \in claims[r] :
        flights' = flights \cup {NewFlight(r, c.event, HandlersOf[c.event] \ c.completed, TRUE)}
    BY <1>3 DEF Redeliver
  <2> PICK c \in claims[r] :
        flights' = flights \cup {NewFlight(r, c.event, HandlersOf[c.event] \ c.completed, TRUE)}
    OBVIOUS
  <2>1. c.event \in Events
    BY DEF TypeOK, Claim
  <2>2. f.event = c.event /\ f.running = HandlersOf[c.event] \ c.completed
    BY <1>0 DEF NewFlight
  <2>3. \A g \in flights : g.event # c.event
    BY <2>1 DEF ExclusionInv, OneDispatchPerEvent
  <2>4. c.event \in interrupted \/ done[c.event] \subseteq c.completed
    BY <2>1, <2>3 DEF Accounted, AccountedFor
  <2> QED
    BY <2>2, <2>4
<1>4. CASE flights' \subseteq flights
  BY <1>0, <1>4
<1> QED
  BY <1>1, <1>2, <1>3, <1>4
     DEF Next, vars, Tick, PendingGrowsStale, NextAttemptComes, Advance, SaveOutcome, Relay,
         ClaimDue, Fault, SaveLost, PublisherCrashes, RelayCrashes

\* If no dispatch outlasts its window, a handler that took effect is started again
\* only after its event's dispatch was cut or could not be saved.
THEOREM RerunsHaveAReason ==
  ASSUME MayOverrun = FALSE
  PROVE  Spec => RerunOnlyAfterInterruption
<1>1. Init => Accounted
  BY DEF Init, Accounted, AccountedFor
<1>2. TypeOK /\ TruthInv /\ ExclusionInv /\ Accounted /\ [Next]_vars => Accounted'
  BY NextAccounted
<1>3. TypeOK /\ TruthInv /\ ExclusionInv /\ Accounted /\ [Next]_vars
        => [\A f \in flights' :
              Started(f) => f.running \cap done[f.event] = {} \/ f.event \in interrupted]_vars
  BY StartsFresh
<1> QED
  BY <1>1, <1>2, <1>3, TypeCorrect, Truth, Exclusion, PTL
     DEF Spec, RerunOnlyAfterInterruption

-----------------------------------------------------------------------------
(* Refinement of EventDelivery, when no dispatch outlasts its window.      *)

\* The initial states are initial states of EventDelivery.
LEMMA InitRefines == Init => Delivery!Init
  BY DEF Init, NoRow, Outcome, OutcomeOf, Delivery!Init

\* Every step is a step of EventDelivery or leaves its variables alone.
LEMMA NextRefines ==
  ASSUME MayOverrun = FALSE, TypeOK, TruthInv, ExclusionInv, [Next]_vars
  PROVE  [Delivery!Next]_(Delivery!vars)
<1> USE DomainEventsAssumption
<1>a. ASSUME UNCHANGED done, \A e \in Events : row'[e].status = row[e].status
      PROVE  UNCHANGED Delivery!vars
  BY <1>a DEF Outcome, Delivery!vars
<1>b. \A e \in Events : Held(e) => Outcome[e] \in {"unrecorded", "open"}
  BY DEF ExclusionInv, HeldIsLocked, Outcome, OutcomeOf
<1>c. \A f \in flights : /\ f.event \in Events
                         /\ Held(f.event)
                         /\ f.running \subseteq HandlersOf[f.event]
  BY DEF TypeOK, Flight, Held, TruthInv, FlightOK
<1>d. ASSUME NEW f \in flights, NEW S \in SUBSET f.running, UNCHANGED row,
             done' = [done EXCEPT ![f.event] = @ \cup S]
      PROVE  Delivery!Next
  <2>1. Outcome' = Outcome
    BY <1>d DEF Outcome
  <2>2. Delivery!Handle(f.event, S)
    BY <1>b, <1>c, <1>d, <2>1 DEF Delivery!Handle
  <2>3. S \in SUBSET HandlersOf[f.event] /\ f.event \in Events
    BY <1>c
  <2> QED
    BY <2>2, <2>3 DEF Delivery!Next
<1>1. ASSUME NEW e \in Events, Publish(e) PROVE [Delivery!Next]_(Delivery!vars)
  <2>1. row[e] = NoRow /\ done[e] = {} /\ UNCHANGED done
    BY <1>1 DEF Publish, PublishUnheard, PublishRecorded, PublishUnrecorded,
                TruthInv, UnpublishedIsBlank
  <2>2. CASE row' = row
    BY <1>a, <2>1, <2>2
  <2>3. CASE row' = [row EXCEPT ![e] = PendingRow]
    <3>1. /\ row'[e].status = "PENDING"
          /\ \A x \in Events : x # e => row'[x] = row[x]
      BY <2>3 DEF PendingRow, TypeOK
    <3>2. Outcome[e] = "unrecorded"
      BY <2>1 DEF Outcome, OutcomeOf, NoRow
    <3>3. Outcome' = [Outcome EXCEPT ![e] = "open"]
      BY <3>1 DEF Outcome, OutcomeOf
    <3> QED
      BY <2>1, <3>2, <3>3 DEF Delivery!Next, Delivery!Record
  <2> QED
    BY <1>1, <2>2, <2>3 DEF Publish, PublishUnheard, PublishRecorded, PublishUnrecorded
<1>2. ASSUME NEW e \in Events, Tick(e) PROVE [Delivery!Next]_(Delivery!vars)
  <2>1. /\ UNCHANGED done
        /\ \/ row' = [row EXCEPT ![e].stale = TRUE]
           \/ row' = [row EXCEPT ![e].due = TRUE]
    BY <1>2 DEF Tick, PendingGrowsStale, NextAttemptComes
  <2>2. \A x \in Events : row'[x].status = row[x].status
    <3>1. CASE row' = [row EXCEPT ![e].stale = TRUE]
      BY <3>1 DEF TypeOK, Row
    <3>2. CASE row' = [row EXCEPT ![e].due = TRUE]
      BY <3>2 DEF TypeOK, Row
    <3> QED
      BY <2>1, <3>1, <3>2
  <2> QED
    BY <1>a, <2>1, <2>2
<1>3. ASSUME NEW f \in flights, NEW h \in f.running, HandlerSucceeds(f, h)
      PROVE  [Delivery!Next]_(Delivery!vars)
  <2>1. {h} \in SUBSET f.running
    OBVIOUS
  <2>2. Delivery!Next
    BY <1>3, <1>d, <2>1 DEF HandlerSucceeds
  <2> QED
    BY <2>2
<1>4. ASSUME NEW f \in flights, NEW h \in f.running, HandlerFails(f, h)
      PROVE  [Delivery!Next]_(Delivery!vars)
  BY <1>4, <1>a DEF HandlerFails
<1>5. ASSUME NEW f \in flights, SaveOutcome(f)
      PROVE  [Delivery!Next]_(Delivery!vars)
  <2>1. CASE ~ f.recorded
    BY <1>5, <1>a, <2>1 DEF SaveOutcome
  <2>2. CASE f.recorded
    <3> DEFINE e == f.event
               new == MarkResult(row[e], f.ok, f.failed)
    <3>1. /\ e \in Events
          /\ Outcome[e] = "open"
          /\ FlightOK(f)
          /\ f.running = {}
      BY <1>5, <1>b, <1>c, <2>2
         DEF TruthInv, FlightOK, Outcome, OutcomeOf, SaveOutcome
    <3>2. /\ row[e] \in Row
          /\ f.ok \in SUBSET Handlers
          /\ f.failed \in BOOLEAN
      BY <3>1 DEF TypeOK, Flight
    <3>3. /\ new.status \in {"DISPATCHED", "FAILED", "DEAD"}
          /\ new.status = "DISPATCHED" => ~ f.failed
      BY <3>2, MarkResultGrows
    <3>4. row' = [row EXCEPT ![e] = new] /\ UNCHANGED done
      BY <1>5, <2>2 DEF SaveOutcome
    <3>5. Outcome' = [Outcome EXCEPT ![e] = OutcomeOf(new.status)]
      <4> HIDE DEF new
      <4> QED
        BY <3>1, <3>4 DEF Outcome, TypeOK
    <3>6. CASE new.status = "DISPATCHED"
      <4>1. HandlersOf[e] \subseteq done[e]
        BY <3>1, <3>3, <3>6 DEF FlightOK, TruthInv, RowOK
      <4>2. Delivery!Deliver(e)
        BY <3>1, <3>4, <3>5, <3>6, <4>1 DEF Delivery!Deliver, OutcomeOf
      <4> QED
        BY <3>1, <4>2 DEF Delivery!Next
    <3>7. CASE new.status = "DEAD"
      <4>1. Delivery!Abandon(e)
        BY <3>1, <3>4, <3>5, <3>7 DEF Delivery!Abandon, OutcomeOf
      <4> QED
        BY <3>1, <4>1 DEF Delivery!Next
    <3>8. CASE new.status = "FAILED"
      <4>1. Outcome' = Outcome
        BY <3>1, <3>5, <3>8 DEF OutcomeOf, Outcome
      <4> QED
        BY <3>4, <4>1 DEF Delivery!vars
    <3> QED
      BY <3>3, <3>6, <3>7, <3>8
  <2> QED
    BY <2>1, <2>2
<1>6. ASSUME NEW r \in Relays, NEW batch \in SUBSET Events, ClaimDue(r, batch)
      PROVE  [Delivery!Next]_(Delivery!vars)
  BY <1>6, <1>a DEF ClaimDue, TypeOK, Row
<1>7. ASSUME NEW r \in Relays, Redeliver(r) PROVE [Delivery!Next]_(Delivery!vars)
  BY <1>7, <1>a DEF Redeliver
<1>8. ASSUME NEW f \in flights, SaveLost(f) PROVE [Delivery!Next]_(Delivery!vars)
  BY <1>8, <1>a DEF SaveLost
<1>9. ASSUME NEW f \in flights, PublisherCrashes(f)
      PROVE  [Delivery!Next]_(Delivery!vars)
  BY <1>9, <1>d DEF PublisherCrashes
<1>10. ASSUME NEW r \in Relays, RelayCrashes(r) PROVE [Delivery!Next]_(Delivery!vars)
  <2>1. UNCHANGED row
    BY <1>10 DEF RelayCrashes
  <2>2. PICK S \in SUBSET Handlers :
          done' = [e \in Events |->
                     done[e] \cup UNION {f.running \cap S :
                         f \in {g \in {h \in flights : h.by = r} : g.event = e}}]
    BY <1>10 DEF RelayCrashes
  <2>3. CASE \E f \in flights : f.by = r
    <3>1. PICK f \in flights : f.by = r
      BY <2>3
    <3>2. \A g \in flights : g.by = r => g = f
      BY <3>1 DEF ExclusionInv, OneFlightPerRelay
    <3>3. done' = [done EXCEPT ![f.event] = @ \cup (f.running \cap S)]
      <4>1. \A e \in Events :
              done'[e] = IF e = f.event THEN done[e] \cup (f.running \cap S) ELSE done[e]
        BY <2>2, <3>1, <3>2
      <4> QED
        BY <2>2, <4>1, <1>c DEF TypeOK
    <3>4. f.running \cap S \in SUBSET f.running
      OBVIOUS
    <3>5. Delivery!Next
      BY <1>d, <2>1, <3>3, <3>4
    <3> QED
      BY <3>5
  <2>4. CASE ~ \E f \in flights : f.by = r
    <3>1. \A e \in Events : done'[e] = done[e]
      BY <2>2, <2>4
    <3>2. done' = done
      BY <2>2, <3>1 DEF TypeOK
    <3> QED
      BY <1>a, <2>1, <3>2
  <2> QED
    BY <2>3, <2>4
<1>11. CASE UNCHANGED vars
  BY <1>11, <1>a DEF vars
<1> QED
  BY <1>1, <1>2, <1>3, <1>4, <1>5, <1>6, <1>7, <1>8, <1>9, <1>10, <1>11
     DEF Next, Advance, Relay, Fault

\* If no dispatch outlasts its window, publishers, store and relays together
\* implement EventDelivery: recorded before handled, delivered only when all
\* handlers have taken effect, delivered and abandoned for good.
THEOREM ImplementsDelivery ==
  ASSUME MayOverrun = FALSE
  PROVE  Spec => DeliverySpec
<1>1. Init => Delivery!Init
  BY InitRefines
<1>2. TypeOK /\ TruthInv /\ ExclusionInv /\ [Next]_vars
        => [Delivery!Next]_(Delivery!vars)
  BY NextRefines
<1> QED
  BY <1>1, <1>2, TypeCorrect, Truth, Exclusion, PTL
     DEF Spec, DeliverySpec, Delivery!Spec
=============================================================================
