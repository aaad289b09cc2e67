---------------------- MODULE WhatsAppAssistantProofs ----------------------
(***************************************************************************)
(* Proofs about WhatsAppAssistant, for any institutes, children, messages, *)
(* repetitions and failures.  What the claim, the job and the handlers of  *)
(* one message know of each other gives "answered once" and "handled is    *)
(* answered"; what is remembered of the person gives "the right child";    *)
(* the order of commands that were waited for gives "the last word counts".*)
(***************************************************************************)
EXTENDS WhatsAppAssistant, TLAPS

\* A handler that got past the claim and has not answered
Working(h) == run[h].stage \notin {"idle", "claiming", "closing"}

\* The queue's job and the handler that it started; where a handler is
JobFits(m) ==
    /\ job[m] = "active" <=> run[<<m, "job">>].stage # "idle"
    /\ job[m] = "waiting" => tries[m] < Attempts
    /\ job[m] = "active" => tries[m] > 0
    /\ m \notin delivered => job[m] = "none"
    /\ \A via \in Vias : run[<<m, via>>].stage = "entering" => run[<<m, via>>].at \in Coachings

\* Who works has the claim to himself, and no answer has gone out
Once(m) ==
    m \notin undeduped =>
        /\ answers[m] <= 1
        /\ answers[m] = 1 => m \in claims
        /\ \A via \in Vias : Working(<<m, via>>) =>
             m \in claims /\ answers[m] = 0 /\ \A u \in Vias : Working(<<m, u>>) => u = via

Done(m) == answers[m] > 0 \/ m \in silent \cup hurt

\* A claim is never left behind by nobody
Kept(m) == m \in claims => Done(m) \/ \E via \in Vias : Working(<<m, via>>)

Carried(m) ==
    m \in delivered =>
        \/ Done(m) \/ job[m] = "waiting"
        \/ \E via \in Vias : Working(<<m, via>>) \/ run[<<m, via>>].stage = "claiming"

Good(m) == JobFits(m) /\ Once(m) /\ Kept(m) /\ Carried(m)

IInv == TypeOK /\ \A m \in Messages : Good(m)

-----------------------------------------------------------------------------
LEMMA HandlerIs ==
    ASSUME NEW h \in Handlers
    PROVE  /\ h[1] \in Messages /\ h[2] \in Vias /\ h = <<h[1], h[2]>>
           /\ \A m \in Messages, via \in Vias :
                <<m, via>> \in Handlers /\ (<<m, via>> = h <=> m = h[1] /\ via = h[2])
  BY DEF Handlers

LEMMA RunIs ==
    ASSUME TypeOK, NEW h \in Handlers, NEW r \in Runs, run' = [run EXCEPT ![h] = r]
    PROVE  /\ run' \in [Handlers -> Runs] /\ run'[h] = r
           /\ \A g \in Handlers \ {h} : run'[g] = run[g]
  BY DEF TypeOK

LEMMA StageIs ==
    ASSUME TypeOK, NEW h \in Handlers, NEW s \in Stages, run' = [run EXCEPT ![h].stage = s]
    PROVE  /\ run' \in [Handlers -> Runs]
           /\ run'[h] = [stage |-> s, at |-> run[h].at, child |-> run[h].child]
           /\ \A g \in Handlers \ {h} : run'[g] = run[g]
  <1> DEFINE r == [stage |-> s, at |-> run[h].at, child |-> run[h].child]
  <1>1. run[h] \in Runs
    BY DEF TypeOK
  <1>2. r \in Runs /\ [run[h] EXCEPT !.stage = s] = r
    BY <1>1 DEF Runs
  <1>3. run' = [run EXCEPT ![h] = r]
    BY <1>2
  <1>4. QED
    <2> HIDE DEF r
    <2>1. run' \in [Handlers -> Runs] /\ run'[h] = r /\ \A g \in Handlers \ {h} : run'[g] = run[g]
      BY <1>2, <1>3, RunIs
    <2>2. QED
      BY <2>1 DEF r

\* Nothing that matters happens to k
Same(k) ==
    /\ \A via \in Vias : run'[<<k, via>>] = run[<<k, via>>]
    /\ job'[k] = job[k] /\ tries'[k] = tries[k] /\ answers'[k] = answers[k]
    /\ k \in delivered <=> k \in delivered'
    /\ k \in claims <=> k \in claims'
    /\ k \in undeduped <=> k \in undeduped'
    /\ k \in silent \cup hurt => k \in silent' \cup hurt'

LEMMA SameIsGood ==
    ASSUME NEW k \in Messages, Good(k), Same(k)
    PROVE  Good(k)'
  <1>1. \A via \in Vias : Working(<<k, via>>)' <=> Working(<<k, via>>)
    BY DEF Same, Working
  <1>2. JobFits(k)'
    BY DEF Good, JobFits, Same, Vias
  <1>3. Once(k)'
    BY <1>1 DEF Good, Once, Same
  <1>4. Kept(k)' /\ Carried(k)'
    BY <1>1 DEF Good, Kept, Carried, Done, Same
  <1>5. QED
    BY <1>2, <1>3, <1>4 DEF Good

\* The handler h, and no other, is now at the stage s
Moves(h, s) ==
    run' \in [Handlers -> Runs] /\ run'[h].stage = s /\ \A g \in Handlers \ {h} : run'[g] = run[g]

LEMMA StageMoves ==
    ASSUME TypeOK, NEW h \in Handlers, NEW s \in Stages, run' = [run EXCEPT ![h].stage = s]
    PROVE  Moves(h, s) /\ run'[h].at = run[h].at /\ run'[h].child = run[h].child
  <1>1. /\ run' \in [Handlers -> Runs]
        /\ run'[h] = [stage |-> s, at |-> run[h].at, child |-> run[h].child]
        /\ \A g \in Handlers \ {h} : run'[g] = run[g]
    BY StageIs
  <1>2. QED
    BY <1>1 DEF Moves

LEMMA IdleMoves ==
    ASSUME TypeOK, NEW h \in Handlers, run' = [run EXCEPT ![h] = Idle]
    PROVE  Moves(h, "idle")
  <1>1. Idle \in Runs /\ Idle.stage = "idle"
    BY DEF Idle, Runs, Stages
  <1>2. QED
    BY <1>1, RunIs DEF Moves

LEMMA Others ==
    ASSUME \A k \in Messages : Good(k), NEW m \in Messages,
           \A k \in Messages \ {m} : Same(k), Good(m)'
    PROVE  \A k \in Messages : Good(k)'
  BY SameIsGood

\* A handler's move leaves the handlers of other messages alone
LEMMA MovesApart ==
    ASSUME NEW h \in Handlers, NEW s \in Stages, Moves(h, s)
    PROVE  /\ \A k \in Messages \ {h[1]}, via \in Vias : run'[<<k, via>>] = run[<<k, via>>]
           /\ \A via \in Vias \ {h[2]} : run'[<<h[1], via>>] = run[<<h[1], via>>]
           /\ run'[<<h[1], h[2]>>].stage = s
  BY HandlerIs DEF Moves

LEMMA Proceeds ==
    ASSUME TypeOK, \A k \in Messages : Good(k), NEW h \in Handlers, Working(h),
           NEW s \in Stages \ {"idle", "claiming", "closing"}, Moves(h, s),
           s = "entering" => run'[h].at \in Coachings,
           UNCHANGED <<job, tries, answers, claims, delivered, undeduped, hurt>>,
           silent \subseteq silent'
    PROVE  \A k \in Messages : Good(k)'
  <1> DEFINE m == h[1]
             v == h[2]
  <1>1. m \in Messages /\ v \in Vias /\ h = <<m, v>>
    BY HandlerIs
  <1> HIDE DEF m, v
  <1>2. /\ \A k \in Messages \ {m}, via \in Vias : run'[<<k, via>>] = run[<<k, via>>]
        /\ \A via \in Vias \ {v} : run'[<<m, via>>] = run[<<m, via>>]
        /\ run'[<<m, v>>].stage = s /\ run[<<m, v>>].stage \notin {"idle", "claiming", "closing"}
    BY <1>1, MovesApart DEF m, v, Working
  <1>3. \A k \in Messages \ {m} : Same(k)
    BY <1>2 DEF Same
  <1>4. \A via \in Vias : Working(<<m, via>>)' <=> Working(<<m, via>>)
    BY <1>1, <1>2 DEF Working
  <1>5. JobFits(m)'
    BY <1>1, <1>2 DEF Good, JobFits, Vias
  <1>6. Once(m)'
    BY <1>1, <1>4 DEF Good, Once
  <1>7. Kept(m)' /\ Carried(m)'
    BY <1>1, <1>2, <1>4 DEF Good, Kept, Carried, Done, Working
  <1>8. QED
    BY <1>1, <1>3, <1>5, <1>6, <1>7, Others DEF Good

\* The answer is sent, or given to somebody who does not send it
LEMMA Finishes ==
    ASSUME TypeOK, \A k \in Messages : Good(k), NEW h \in Handlers, Working(h),
           Moves(h, "closing"), UNCHANGED <<job, tries, claims, delivered, undeduped, hurt>>,
           \/ answers' = answers /\ silent' = silent \cup {h[1]}
           \/ answers' = [answers EXCEPT ![h[1]] = @ + 1] /\ silent' = silent
    PROVE  \A k \in Messages : Good(k)'
  <1> DEFINE m == h[1]
             v == h[2]
  <1>1. m \in Messages /\ v \in Vias /\ h = <<m, v>>
    BY HandlerIs
  <1> HIDE DEF m, v
  <1>2. /\ \A k \in Messages \ {m}, via \in Vias : run'[<<k, via>>] = run[<<k, via>>]
        /\ \A via \in Vias \ {v} : run'[<<m, via>>] = run[<<m, via>>]
        /\ run'[<<m, v>>].stage = "closing" /\ run[<<m, v>>].stage \notin {"idle", "claiming", "closing"}
    BY <1>1, MovesApart DEF m, v, Working, Stages
  <1>3. /\ answers \in [Messages -> Nat]
        /\ \A k \in Messages \ {m} : answers'[k] = answers[k]
        /\ \/ answers'[m] = answers[m] /\ m \in silent'
           \/ answers'[m] = answers[m] + 1
        /\ silent \subseteq silent'
    BY <1>1 DEF m, TypeOK
  <1>4. \A k \in Messages \ {m} : Same(k)
    BY <1>2, <1>3 DEF Same
  <1>5. ~Working(<<m, v>>)' /\ \A via \in Vias \ {v} : Working(<<m, via>>)' <=> Working(<<m, via>>)
    BY <1>1, <1>2 DEF Working
  <1>6. JobFits(m)'
    BY <1>1, <1>2 DEF Good, JobFits, Vias
  <1>7. Once(m)'
    <2>1. SUFFICES ASSUME m \notin undeduped PROVE Once(m)'
      BY DEF Once
    <2>2. m \in claims /\ answers[m] = 0 /\ \A u \in Vias : Working(<<m, u>>) => u = v
      BY <1>1, <2>1 DEF Good, Once
    <2>3. \A u \in Vias : ~Working(<<m, u>>)'
      BY <1>1, <1>5, <2>2
    <2>4. QED
      BY <1>3, <2>2, <2>3 DEF Once
  <1>8. Done(m)'
    BY <1>1, <1>3 DEF Done
  <1>9. QED
    BY <1>1, <1>4, <1>6, <1>7, <1>8, Others DEF Good, Kept, Carried

-----------------------------------------------------------------------------
(* One lemma per action *)

LEMMA StepSend ==
    ASSUME IInv, NEW b \in Bodies, Send(b)
    PROVE  IInv'
  <1>1. sent' \in Seq(Bodies) /\ rushed' \subseteq rushed \cup {Len(sent) + 1} /\ Len(sent) < MaxMessages
    BY DEF Send, IInv, TypeOK
  <1>2. sent \in Seq(Bodies)
    BY DEF IInv, TypeOK
  <1>3. Len(sent) + 1 \in Messages
    BY <1>1, <1>2, BoundAssumption DEF Messages
  <1>4. TypeOK'
    BY <1>1, <1>3 DEF Send, IInv, TypeOK, queue, memory, replies
  <1>5. \A k \in Messages : Same(k)
    BY DEF Send, Same, queue, replies
  <1>6. QED
    BY <1>4, <1>5, SameIsGood DEF IInv

\* The webhook came, and its job is there
LEMMA AddedFits ==
    ASSUME IInv, NEW m \in Messages, Added(m)
    PROVE  /\ job' \in [Messages -> {"none", "waiting", "active", "failed"}]
           /\ tries' \in [Messages -> 0..Attempts]
           /\ \A k \in Messages \ {m} : job'[k] = job[k] /\ tries'[k] = tries[k]
           /\ \/ job[m] = "none" /\ job'[m] = "waiting" /\ tries'[m] = 0
              \/ job[m] # "none" /\ job'[m] = job[m] /\ tries'[m] = tries[m]
  BY BoundAssumption DEF Added, IInv, TypeOK

LEMMA CalledIs ==
    ASSUME IInv, NEW m \in Messages, Called(m)
    PROVE  repeats' \in 0..MaxRepeats /\ delivered' = delivered \cup {m}
  BY BoundAssumption DEF Called, IInv, TypeOK

LEMMA StepWebhook ==
    ASSUME IInv, NEW m \in Messages, Webhook(m)
    PROVE  IInv'
  <1>1. /\ UNCHANGED <<registered, sent, rushed, claims, run, optedOut, choice, context, picked>>
        /\ UNCHANGED <<answers, about, silent, undeduped, hurt, faults>>
        /\ Called(m) /\ Added(m) /\ TypeOK /\ Good(m) /\ m \in Messages
    BY DEF Webhook, memory, replies, IInv
  <1>2. repeats' \in 0..MaxRepeats /\ delivered' = delivered \cup {m}
    BY <1>1, CalledIs
  <1>3. /\ job' \in [Messages -> {"none", "waiting", "active", "failed"}]
        /\ tries' \in [Messages -> 0..Attempts]
        /\ \A k \in Messages \ {m} : job'[k] = job[k] /\ tries'[k] = tries[k]
        /\ \/ job[m] = "none" /\ job'[m] = "waiting" /\ tries'[m] = 0
           \/ job[m] # "none" /\ job'[m] = job[m] /\ tries'[m] = tries[m]
    BY <1>1, AddedFits
  <1>4. TypeOK'
    BY <1>1, <1>2, <1>3 DEF TypeOK
  <1>5. \A k \in Messages \ {m} : Same(k)
    BY <1>1, <1>2, <1>3 DEF Same
  <1>6. JobFits(m)'
    BY <1>1, <1>2, <1>3, BoundAssumption DEF Good, JobFits
  <1>7. Once(m)' /\ Kept(m)'
    BY <1>1 DEF Good, Once, Kept, Done, Working
  <1>8. Carried(m)'
    BY <1>1, <1>2, <1>3 DEF Good, JobFits, Carried, Done, Working
  <1>9. QED
    BY <1>4, <1>5, <1>6, <1>7, <1>8, Others DEF IInv, Good

\* The handler of the webhook itself begins
LEMMA StepWebhookWithoutQueue ==
    ASSUME IInv, NEW m \in Messages, WebhookWithoutQueue(m)
    PROVE  IInv'
  <1> DEFINE h == <<m, "direct">>
  <1>1. /\ UNCHANGED <<registered, sent, rushed, claims, optedOut, choice, context, picked>>
        /\ UNCHANGED <<answers, about, silent, undeduped, hurt>>
        /\ Called(m) /\ (Added(m) \/ UNCHANGED <<job, tries>>) /\ TypeOK /\ Good(m)
        /\ run[h].stage = "idle" /\ run' = [run EXCEPT ![h].stage = "claiming"]
        /\ faults < MaxFaults /\ faults' = faults + 1
    BY DEF WebhookWithoutQueue, Fault, Goes, queue, memory, replies, IInv
  <1>2. repeats' \in 0..MaxRepeats /\ delivered' = delivered \cup {m}
    BY <1>1, CalledIs
  <1>3. /\ job' \in [Messages -> {"none", "waiting", "active", "failed"}]
        /\ tries' \in [Messages -> 0..Attempts]
        /\ \A k \in Messages \ {m} : job'[k] = job[k] /\ tries'[k] = tries[k]
        /\ \/ job[m] = "none" /\ job'[m] = "waiting" /\ tries'[m] = 0
           \/ job'[m] = job[m] /\ tries'[m] = tries[m]
    BY <1>1, AddedFits DEF TypeOK
  <1>4. h \in Handlers /\ "claiming" \in Stages /\ h[1] = m /\ h[2] = "direct"
    BY DEF Handlers, Vias, Stages
  <1> HIDE DEF h
  <1>5. Moves(h, "claiming")
    BY <1>1, <1>4, StageMoves
  <1>6. /\ \A k \in Messages \ {m}, via \in Vias : run'[<<k, via>>] = run[<<k, via>>]
        /\ run'[<<m, "job">>] = run[<<m, "job">>]
        /\ run'[<<m, "direct">>].stage = "claiming" /\ run[<<m, "direct">>].stage = "idle"
    BY <1>1, <1>4, <1>5, MovesApart DEF Vias, h
  <1>7. TypeOK'
    <2>1. faults' \in 0..MaxFaults
      BY <1>1, BoundAssumption DEF TypeOK
    <2>2. run' \in [Handlers -> Runs] /\ delivered' \subseteq Messages
      BY <1>1, <1>2, <1>5 DEF TypeOK, Moves
    <2>3. QED
      BY <1>1, <1>2, <1>3, <2>1, <2>2 DEF TypeOK
  <1>8. \A k \in Messages \ {m} : Same(k)
    BY <1>1, <1>2, <1>3, <1>6 DEF Same
  <1>9. \A via \in Vias : Working(<<m, via>>)' <=> Working(<<m, via>>)
    BY <1>6 DEF Working, Vias
  <1>10. JobFits(m)'
    BY <1>1, <1>2, <1>3, <1>6, BoundAssumption DEF Good, JobFits, Vias
  <1>11. Once(m)' /\ Kept(m)'
    BY <1>1, <1>9 DEF Good, Once, Kept, Done
  <1>12. Carried(m)'
    BY <1>6 DEF Carried, Vias
  <1>13. QED
    BY <1>7, <1>8, <1>10, <1>11, <1>12, Others DEF IInv, Good

LEMMA StepTake ==
    ASSUME IInv, NEW m \in Messages, Take(m)
    PROVE  IInv'
  <1> DEFINE h == <<m, "job">>
  <1>1. /\ UNCHANGED <<registered, sent, delivered, repeats, rushed, claims, optedOut>>
        /\ UNCHANGED <<choice, context, picked, answers, about, silent, undeduped, hurt, faults>>
        /\ job[m] = "waiting" /\ job' = [job EXCEPT ![m] = "active"]
        /\ tries' = [tries EXCEPT ![m] = @ + 1]
        /\ run[h].stage = "idle" /\ run' = [run EXCEPT ![h].stage = "claiming"]
        /\ TypeOK /\ Good(m)
    BY DEF Take, Goes, inbox, memory, replies, IInv
  <1>2. h \in Handlers /\ "claiming" \in Stages /\ h[1] = m /\ h[2] = "job"
    BY DEF Handlers, Vias, Stages
  <1> HIDE DEF h
  <1>3. Moves(h, "claiming")
    BY <1>1, <1>2, StageMoves
  <1>4. /\ \A k \in Messages \ {m}, via \in Vias : run'[<<k, via>>] = run[<<k, via>>]
        /\ run'[<<m, "direct">>] = run[<<m, "direct">>]
        /\ run'[<<m, "job">>].stage = "claiming" /\ run[<<m, "job">>].stage = "idle"
    BY <1>1, <1>2, <1>3, MovesApart DEF Vias, h
  <1>5. tries[m] \in 0..Attempts /\ tries[m] < Attempts
    BY <1>1 DEF Good, JobFits, TypeOK
  <1>6. /\ job' \in [Messages -> {"none", "waiting", "active", "failed"}]
        /\ tries' \in [Messages -> 0..Attempts]
        /\ job'[m] = "active" /\ tries'[m] > 0
        /\ \A k \in Messages \ {m} : job'[k] = job[k] /\ tries'[k] = tries[k]
    BY <1>1, <1>5, BoundAssumption DEF TypeOK
  <1>7. TypeOK'
    BY <1>1, <1>3, <1>6 DEF TypeOK, Moves
  <1>8. \A k \in Messages \ {m} : Same(k)
    BY <1>1, <1>4, <1>6 DEF Same
  <1>9. \A via \in Vias : Working(<<m, via>>)' <=> Working(<<m, via>>)
    BY <1>4 DEF Working, Vias
  <1>10. JobFits(m)'
    BY <1>1, <1>4, <1>6 DEF Good, JobFits, Vias
  <1>11. Once(m)' /\ Kept(m)'
    BY <1>1, <1>9 DEF Good, Once, Kept, Done
  <1>12. Carried(m)'
    BY <1>4 DEF Carried, Vias
  <1>13. QED
    BY <1>7, <1>8, <1>10, <1>11, <1>12, Others DEF IInv, Good


\* Granted: nobody worked and no answer had gone out; refused: somebody holds the claim
LEMMA StepClaim ==
    ASSUME IInv, NEW h \in Handlers, Claim(h)
    PROVE  IInv'
  <1> DEFINE m == h[1]
             v == h[2]
             s == IF Granted(m) THEN AfterClaim(m) ELSE "closing"
  <1>1. /\ UNCHANGED <<registered, sent, delivered, repeats, rushed, job, tries, optedOut>>
        /\ UNCHANGED <<choice, context, picked, answers, about, silent, undeduped, hurt, faults>>
        /\ run[h].stage = "claiming" /\ run' = [run EXCEPT ![h].stage = s]
        /\ claims' = claims \cup {m}
    BY DEF Claim, Goes, inbox, queue, memory, replies
  <1>2. m \in Messages /\ v \in Vias /\ h = <<m, v>>
    BY HandlerIs
  <1>3. /\ s \in Stages /\ s \in {"obeying", "resolving", "closing"}
        /\ m \in claims <=> s = "closing"
    BY DEF Granted, AfterClaim, Stages
  <1>4. TypeOK /\ Good(m)
    BY <1>2 DEF IInv
  <1> HIDE DEF m, v, s
  <1>5. Moves(h, s)
    BY <1>1, <1>3, <1>4, StageMoves
  <1>6. /\ \A k \in Messages \ {m}, via \in Vias : run'[<<k, via>>] = run[<<k, via>>]
        /\ \A via \in Vias \ {v} : run'[<<m, via>>] = run[<<m, via>>]
        /\ run'[<<m, v>>].stage = s /\ run[<<m, v>>].stage = "claiming"
    BY <1>1, <1>2, <1>3, <1>5, MovesApart DEF m, v
  <1>7. TypeOK'
    <2>1. run' \in [Handlers -> Runs] /\ claims' \subseteq Messages
      BY <1>1, <1>2, <1>4, <1>5 DEF TypeOK, Moves
    <2>2. QED
      BY <1>1, <1>4, <2>1 DEF TypeOK
  <1>8. \A k \in Messages \ {m} : Same(k)
    BY <1>1, <1>6 DEF Same
  <1>9. \A via \in Vias \ {v} : Working(<<m, via>>)' <=> Working(<<m, via>>)
    BY <1>6 DEF Working
  <1>10. ~Working(<<m, v>>) /\ (Working(<<m, v>>)' <=> m \notin claims)
    BY <1>3, <1>6 DEF Working
  <1>11. JobFits(m)'
    BY <1>1, <1>2, <1>3, <1>4, <1>6 DEF Good, JobFits, Vias
  <1>12. Once(m)'
    <2>1. SUFFICES ASSUME m \notin undeduped PROVE Once(m)'
      BY <1>1 DEF Once
    <2>2. CASE m \in claims
      BY <1>1, <1>4, <1>9, <1>10, <2>1, <2>2 DEF Good, Once
    <2>3. CASE m \notin claims
      <3>1. answers[m] = 0 /\ \A via \in Vias : ~Working(<<m, via>>)
        BY <1>2, <1>4, <2>1, <2>3 DEF Good, Once, TypeOK
      <3>2. QED
        BY <1>1, <1>9, <3>1 DEF Once
    <2>4. QED
      BY <2>2, <2>3
  <1>13. Kept(m)'
    BY <1>1, <1>2, <1>4, <1>9, <1>10 DEF Good, Kept, Done
  <1>14. Carried(m)'
    BY <1>1, <1>2, <1>13 DEF Kept, Carried, Done
  <1>15. QED
    BY <1>2, <1>7, <1>8, <1>11, <1>12, <1>13, <1>14, Others DEF IInv, Good

LEMMA StepClaimUnavailable ==
    ASSUME IInv, NEW h \in Handlers, ClaimUnavailable(h)
    PROVE  IInv'
  <1> DEFINE m == h[1]
             v == h[2]
             s == AfterClaim(m)
  <1>1. /\ UNCHANGED <<registered, sent, delivered, repeats, rushed, job, tries, optedOut>>
        /\ UNCHANGED <<choice, context, picked, answers, about, silent, claims, hurt>>
        /\ run[h].stage = "claiming" /\ run' = [run EXCEPT ![h].stage = s]
        /\ undeduped' = undeduped \cup {m}
        /\ faults < MaxFaults /\ faults' = faults + 1
    BY DEF ClaimUnavailable, Goes, Fault, inbox, queue, memory, replies
  <1>2. m \in Messages /\ v \in Vias /\ h = <<m, v>>
    BY HandlerIs
  <1>3. s \in Stages /\ s \in {"obeying", "resolving"}
    BY DEF AfterClaim, Stages
  <1>4. TypeOK /\ Good(m)
    BY <1>2 DEF IInv
  <1> HIDE DEF m, v, s
  <1>5. Moves(h, s)
    BY <1>1, <1>3, <1>4, StageMoves
  <1>6. /\ \A k \in Messages \ {m}, via \in Vias : run'[<<k, via>>] = run[<<k, via>>]
        /\ \A via \in Vias \ {v} : run'[<<m, via>>] = run[<<m, via>>]
        /\ run'[<<m, v>>].stage = s /\ run[<<m, v>>].stage = "claiming"
    BY <1>1, <1>2, <1>3, <1>5, MovesApart DEF m, v
  <1>7. TypeOK'
    <2>1. faults' \in 0..MaxFaults
      BY <1>1, <1>4, BoundAssumption DEF TypeOK
    <2>2. run' \in [Handlers -> Runs] /\ undeduped' \subseteq Messages
      BY <1>1, <1>2, <1>4, <1>5 DEF TypeOK, Moves
    <2>3. QED
      BY <1>1, <1>4, <2>1, <2>2 DEF TypeOK
  <1>8. \A k \in Messages \ {m} : Same(k)
    BY <1>1, <1>6 DEF Same
  <1>9. Working(<<m, v>>)'
    BY <1>3, <1>6 DEF Working
  <1>10. JobFits(m)'
    BY <1>1, <1>2, <1>3, <1>4, <1>6 DEF Good, JobFits, Vias
  <1>11. Once(m)' /\ Kept(m)' /\ Carried(m)'
    BY <1>1, <1>2, <1>9 DEF Once, Kept, Carried
  <1>12. QED
    BY <1>2, <1>7, <1>8, <1>10, <1>11, Others DEF IInv, Good

LEMMA StepObey ==
    ASSUME IInv, NEW h \in Handlers, Obey(h)
    PROVE  IInv'
  <1>1. /\ UNCHANGED <<registered, sent, delivered, repeats, rushed, job, tries, claims>>
        /\ UNCHANGED <<choice, context, picked, answers, about, silent, undeduped, hurt, faults>>
        /\ run[h].stage = "obeying" /\ run' = [run EXCEPT ![h].stage = "replying"]
        /\ optedOut' \in BOOLEAN
    BY DEF Obey, Goes, inbox, queue, memory, replies
  <1>2. Moves(h, "replying") /\ "replying" \in Stages
    BY <1>1, StageMoves DEF IInv, Stages
  <1>3. TypeOK'
    BY <1>1, <1>2 DEF IInv, TypeOK, Moves
  <1>4. QED
    BY <1>1, <1>2, <1>3, Proceeds DEF IInv, Working

LEMMA StepResolve ==
    ASSUME IInv, NEW h \in Handlers, Resolve(h)
    PROVE  IInv'
  <1>1. /\ UNCHANGED <<registered, sent, delivered, repeats, rushed, job, tries, claims, optedOut>>
        /\ UNCHANGED <<choice, context, picked, answers, about, silent, undeduped, hurt, faults>>
        /\ run[h].stage = "resolving"
    BY DEF Resolve, inbox, queue, memory, replies
  <1>2. \E s \in {"entering", "choosing", "replying"} :
            Moves(h, s) /\ (s = "entering" => run'[h].at \in Coachings)
    <2>1. CASE \E enter \in registered :
                 run' = [run EXCEPT ![h] = [stage |-> "entering", at |-> enter, child |-> None]]
      <3>1. PICK enter \in registered :
                 run' = [run EXCEPT ![h] = [stage |-> "entering", at |-> enter, child |-> None]]
        BY <2>1
      <3> DEFINE r == [stage |-> "entering", at |-> enter, child |-> None]
      <3>2. r \in Runs /\ r.stage = "entering" /\ r.at \in Coachings
        BY DEF Runs, Stages, IInv, TypeOK
      <3> HIDE DEF r
      <3>3. run' = [run EXCEPT ![h] = r]
        BY <3>1 DEF r
      <3>4. Moves(h, "entering") /\ run'[h].at \in Coachings
        BY <3>2, <3>3, RunIs DEF IInv, Moves
      <3>5. QED
        BY <3>4
    <2>2. CASE \E s \in {"choosing", "replying"} : run' = [run EXCEPT ![h].stage = s]
      <3>1. PICK s \in {"choosing", "replying"} : run' = [run EXCEPT ![h].stage = s]
        BY <2>2
      <3>2. Moves(h, s)
        BY <3>1, StageMoves DEF IInv, Stages
      <3>3. QED
        BY <3>2
    <2>3. QED
      BY <2>1, <2>2 DEF Resolve
  <1>3. PICK s \in {"entering", "choosing", "replying"} :
            Moves(h, s) /\ (s = "entering" => run'[h].at \in Coachings)
    BY <1>2
  <1>4. TypeOK'
    BY <1>1, <1>3 DEF IInv, TypeOK, Moves
  <1>5. s \in Stages \ {"idle", "claiming", "closing"}
    BY DEF Stages
  <1>6. QED
    BY <1>1, <1>3, <1>4, <1>5, Proceeds DEF IInv, Working

LEMMA StepSaveChoice ==
    ASSUME IInv, NEW h \in Handlers, SaveChoice(h)
    PROVE  IInv'
  <1>1. /\ UNCHANGED <<registered, sent, delivered, repeats, rushed, job, tries, claims, optedOut>>
        /\ UNCHANGED <<context, answers, about, silent, undeduped, hurt, faults>>
        /\ run[h].stage = "choosing" /\ run' = [run EXCEPT ![h].stage = "replying"]
        /\ choice' \in picked'
    BY DEF SaveChoice, Goes, inbox, queue, replies
  <1>2. Moves(h, "replying") /\ "replying" \in Stages
    BY <1>1, StageMoves DEF IInv, Stages
  <1>3. TypeOK'
    BY <1>1, <1>2 DEF IInv, TypeOK, Moves
  <1>4. QED
    BY <1>1, <1>2, <1>3, Proceeds DEF IInv, Working


\* What Enter finds out about the child, and where that leads
EnterChild(h) ==
    LET c == run[h].at
        kids == ChildrenOf[c]
        picks == context[c] = Awaiting /\ PickedFrom(kids, sent[h[1]])
        known == context[c] \in Children
    IN CASE picks -> kids[Number[sent[h[1]]]]
         [] ~picks /\ known -> context[c]
         [] ~picks /\ ~known /\ OnlyChild(kids) -> kids[1]
         [] OTHER -> None

LEMMA EnterChildIs ==
    ASSUME NEW h \in Handlers, run[h].at \in Coachings
    PROVE  /\ EnterChild(h) \in Children \cup {None}
           /\ \/ EnterChild(h) = None
              \/ EnterChild(h) \in Kids(run[h].at)
              \/ context[run[h].at] \in Children /\ EnterChild(h) = context[run[h].at]
  <1> DEFINE c == run[h].at
             kids == ChildrenOf[c]
             picks == context[c] = Awaiting /\ PickedFrom(kids, sent[h[1]])
             known == context[c] \in Children
  <1>1. kids \in Seq(Kids(c)) /\ Kids(c) \subseteq Children
    BY PeopleAssumption DEF Children
  <1>2. CASE picks
    <2>1. EnterChild(h) = kids[Number[sent[h[1]]]] /\ Number[sent[h[1]]] \in DOMAIN kids
      BY <1>2 DEF EnterChild, PickedFrom
    <2>2. EnterChild(h) \in Kids(c)
      BY <2>1 DEF Kids
    <2>3. QED
      BY <1>1, <2>2
  <1>3. CASE ~picks /\ known
    BY <1>3 DEF EnterChild
  <1>4. CASE ~picks /\ ~known /\ OnlyChild(kids)
    <2>1. EnterChild(h) = kids[1]
      BY <1>4 DEF EnterChild
    <2>2. kids[1] \in Kids(c)
      BY <1>1, <1>4 DEF OnlyChild
    <2>3. QED
      BY <1>1, <2>1, <2>2
  <1>5. CASE ~picks /\ ~known /\ ~OnlyChild(kids)
    BY <1>5 DEF EnterChild
  <1>6. QED
    BY <1>2, <1>3, <1>4, <1>5

LEMMA EnterIs ==
    ASSUME TypeOK, NEW h \in Handlers, Enter(h), run[h].at \in Coachings
    PROVE  \E s \in {"closing", "picking", "prompting", "answering"} :
             /\ Moves(h, s) /\ run'[h].at = run[h].at
             /\ \/ s = "closing" /\ silent' = silent \cup {h[1]} /\ run'[h].child = None
                \/ s # "closing" /\ silent' = silent /\ run'[h].child = EnterChild(h)
             /\ s = "picking" => context[run[h].at] = Awaiting
                                 /\ PickedFrom(ChildrenOf[run[h].at], sent[h[1]])
             /\ s = "prompting" => run'[h].child = None
             /\ s = "answering" =>
                  /\ ~(context[run[h].at] = Awaiting
                         /\ PickedFrom(ChildrenOf[run[h].at], sent[h[1]]))
                  /\ run'[h].child # None
  <1> DEFINE c == run[h].at
             kids == ChildrenOf[c]
             picks == context[c] = Awaiting /\ PickedFrom(kids, sent[h[1]])
             child == EnterChild(h)
             next == CASE kids = <<>> -> "closing"
                       [] kids # <<>> /\ picks -> "picking"
                       [] kids # <<>> /\ ~picks /\ child = None -> "prompting"
                       [] OTHER -> "answering"
             r == [stage |-> next, at |-> c, child |-> IF kids = <<>> THEN None ELSE child]
  <1>1. /\ run' = [run EXCEPT ![h] = r]
        /\ silent' = IF kids = <<>> THEN silent \cup {h[1]} ELSE silent
    BY DEF Enter, EnterChild
  <1>2. child \in Children \cup {None}
    BY EnterChildIs
  <1> HIDE DEF child
  <1>3. next \in {"closing", "picking", "prompting", "answering"}
    OBVIOUS
  <1>4. /\ next = "closing" <=> kids = <<>>
        /\ next = "picking" => picks
        /\ next = "prompting" => child = None
        /\ next = "answering" => ~picks /\ child # None
    OBVIOUS
  <1> HIDE DEF next
  <1>5. /\ r \in Runs /\ r.stage = next /\ r.at = c
        /\ r.child = IF kids = <<>> THEN None ELSE child
    BY <1>2, <1>3 DEF Runs, Stages
  <1> HIDE DEF r
  <1>6. Moves(h, next) /\ run'[h] = r
    BY <1>1, <1>5, RunIs DEF Moves
  <1>7. QED
    BY <1>1, <1>3, <1>4, <1>5, <1>6 DEF child

LEMMA StepEnter ==
    ASSUME IInv, NEW h \in Handlers, Enter(h)
    PROVE  IInv'
  <1>1. /\ UNCHANGED <<registered, sent, delivered, repeats, rushed, job, tries, claims, optedOut>>
        /\ UNCHANGED <<choice, context, picked, answers, about, undeduped, hurt, faults>>
        /\ run[h].stage = "entering"
    BY DEF Enter, inbox, queue, memory
  <1>2. run[h].at \in Coachings /\ h[1] \in Messages
    <2>1. h[1] \in Messages /\ h[2] \in Vias /\ h = <<h[1], h[2]>>
      BY HandlerIs
    <2>2. \A via \in Vias : run[<<h[1], via>>].stage = "entering" => run[<<h[1], via>>].at \in Coachings
      BY <2>1 DEF IInv, Good, JobFits
    <2>3. QED
      BY <1>1, <2>1, <2>2
  <1>3. \E s \in {"closing", "picking", "prompting", "answering"} :
            /\ Moves(h, s)
            /\ \/ s = "closing" /\ silent' = silent \cup {h[1]}
               \/ s # "closing" /\ silent' = silent
    BY <1>2, EnterIs DEF IInv
  <1>4. PICK s \in {"closing", "picking", "prompting", "answering"} :
            /\ Moves(h, s)
            /\ \/ s = "closing" /\ silent' = silent \cup {h[1]}
               \/ s # "closing" /\ silent' = silent
    BY <1>3
  <1>5. TypeOK'
    BY <1>1, <1>2, <1>4 DEF IInv, TypeOK, Moves
  <1>6. CASE s = "closing"
    BY <1>1, <1>4, <1>5, <1>6, Finishes DEF IInv, Working
  <1>7. CASE s # "closing"
    <2>1. s \in Stages \ {"idle", "claiming", "closing"} /\ s # "entering"
      BY <1>7 DEF Stages
    <2>2. QED
      BY <1>1, <1>4, <1>5, <1>7, <2>1, Proceeds DEF IInv, Working
  <1>8. QED
    BY <1>6, <1>7

LEMMA StepSaveContext ==
    ASSUME IInv, NEW h \in Handlers, SaveContext(h)
    PROVE  IInv'
  <1>1. /\ UNCHANGED <<registered, sent, delivered, repeats, rushed, job, tries, claims, optedOut>>
        /\ UNCHANGED <<choice, answers, about, undeduped, hurt, faults>>
        /\ run[h].stage \in {"prompting", "picking"} /\ run' = [run EXCEPT ![h].stage = "closing"]
        /\ silent' = silent \cup {h[1]} /\ picked \subseteq picked'
    BY DEF SaveContext, inbox, queue
  <1>2. Moves(h, "closing") /\ "closing" \in Stages /\ h[1] \in Messages
    BY <1>1, StageMoves, HandlerIs DEF IInv, Stages
  <1>3. context' \in [Coachings -> Children \cup {None, Awaiting}]
    <2>1. run[h].child \in Children \cup {None} /\ context \in [Coachings -> Children \cup {None, Awaiting}]
      BY DEF IInv, TypeOK, Runs
    <2>2. QED
      BY <2>1 DEF SaveContext
  <1>4. TypeOK'
    BY <1>1, <1>2, <1>3 DEF IInv, TypeOK, Moves
  <1>5. QED
    BY <1>1, <1>2, <1>4, Finishes DEF IInv, Working

LEMMA StepAnswer ==
    ASSUME IInv, NEW h \in Handlers, Answer(h)
    PROVE  IInv'
  <1>1. /\ UNCHANGED <<registered, sent, delivered, repeats, rushed, job, tries, claims, optedOut>>
        /\ UNCHANGED <<choice, context, picked, silent, undeduped, hurt, faults>>
        /\ run[h].stage = "answering" /\ run' = [run EXCEPT ![h].stage = "closing"]
        /\ answers' = [answers EXCEPT ![h[1]] = @ + 1]
        /\ about' = [about EXCEPT ![h[1]] = run[h].child]
    BY DEF Answer, Goes, Answered, inbox, queue, memory
  <1>2. Moves(h, "closing") /\ "closing" \in Stages /\ h[1] \in Messages
    BY <1>1, StageMoves, HandlerIs DEF IInv, Stages
  <1>3. run[h].child \in Children \cup {None}
    BY DEF IInv, TypeOK, Runs
  <1>4. TypeOK'
    BY <1>1, <1>2, <1>3 DEF IInv, TypeOK, Moves
  <1>5. QED
    BY <1>1, <1>2, <1>4, Finishes DEF IInv, Working

LEMMA StepReply ==
    ASSUME IInv, NEW h \in Handlers, Reply(h)
    PROVE  IInv'
  <1>1. /\ UNCHANGED <<registered, sent, delivered, repeats, rushed, job, tries, claims, optedOut>>
        /\ UNCHANGED <<choice, context, picked, about, undeduped, hurt, faults>>
        /\ run[h].stage = "replying" /\ run' = [run EXCEPT ![h].stage = "closing"]
        /\ \/ answers' = answers /\ silent' = silent \cup {h[1]}
           \/ answers' = [answers EXCEPT ![h[1]] = @ + 1] /\ silent' = silent
    BY DEF Reply, Goes, Answered, inbox, queue, memory
  <1>2. Moves(h, "closing") /\ "closing" \in Stages /\ h[1] \in Messages
    BY <1>1, StageMoves, HandlerIs DEF IInv, Stages
  <1>3. TypeOK'
    <2>1. run' \in [Handlers -> Runs]
      BY <1>2 DEF IInv, TypeOK, Moves
    <2>2. answers' \in [Messages -> Nat] /\ silent' \in SUBSET Messages
      <3>1. answers \in [Messages -> Nat] /\ silent \subseteq Messages
        BY DEF IInv, TypeOK
      <3>2. QED
        BY <1>1, <1>2, <3>1
    <2>3. QED
      BY <1>1, <2>1, <2>2 DEF IInv, TypeOK
  <1>4. QED
    BY <1>1, <1>2, <1>3, Finishes DEF IInv, Working

LEMMA StepClose ==
    ASSUME IInv, NEW h \in Handlers, Close(h)
    PROVE  IInv'
  <1> DEFINE m == h[1]
             v == h[2]
  <1>1. /\ UNCHANGED <<registered, sent, delivered, repeats, rushed, tries, claims, optedOut>>
        /\ UNCHANGED <<choice, context, picked, answers, about, silent, undeduped, hurt, faults>>
        /\ run[h].stage = "closing" /\ run' = [run EXCEPT ![h] = Idle]
        /\ job' = IF v = "job" THEN [job EXCEPT ![m] = "none"] ELSE job
    BY DEF Close, inbox, memory, replies
  <1>2. m \in Messages /\ v \in Vias /\ h = <<m, v>>
    BY HandlerIs
  <1>3. TypeOK /\ Good(m)
    BY <1>2 DEF IInv
  <1> HIDE DEF m, v
  <1>4. Moves(h, "idle") /\ "idle" \in Stages
    BY <1>1, <1>3, IdleMoves DEF Stages
  <1>5. /\ \A k \in Messages \ {m}, via \in Vias : run'[<<k, via>>] = run[<<k, via>>]
        /\ \A via \in Vias \ {v} : run'[<<m, via>>] = run[<<m, via>>]
        /\ run'[<<m, v>>].stage = "idle" /\ run[<<m, v>>].stage = "closing"
    BY <1>1, <1>2, <1>4, MovesApart DEF m, v
  <1>6. /\ job' \in [Messages -> {"none", "waiting", "active", "failed"}]
        /\ \A k \in Messages \ {m} : job'[k] = job[k]
        /\ v = "job" => job'[m] = "none" /\ job[m] = "active"
        /\ v # "job" => job'[m] = job[m]
    BY <1>1, <1>2, <1>3, <1>5 DEF TypeOK, Good, JobFits
  <1>7. TypeOK'
    BY <1>1, <1>3, <1>4, <1>6 DEF TypeOK, Moves
  <1>8. \A k \in Messages \ {m} : Same(k)
    BY <1>1, <1>5, <1>6 DEF Same
  <1>9. \A via \in Vias : /\ Working(<<m, via>>)' <=> Working(<<m, via>>)
                          /\ run'[<<m, via>>].stage = "claiming" <=> run[<<m, via>>].stage = "claiming"
    BY <1>2, <1>5 DEF Working
  <1>10. JobFits(m)'
    BY <1>1, <1>2, <1>3, <1>5, <1>6 DEF Good, JobFits, Vias
  <1>11. Once(m)' /\ Kept(m)'
    BY <1>1, <1>3, <1>9 DEF Good, Once, Kept, Done
  <1>12. Carried(m)'
    BY <1>1, <1>3, <1>6, <1>9 DEF Good, Carried, Done
  <1>13. QED
    BY <1>2, <1>7, <1>8, <1>10, <1>11, <1>12, Others DEF IInv, Good

\* The claim is given back, and the queue has the job again unless it is lost for good
LEMMA StepThrow ==
    ASSUME IInv, NEW h \in Handlers, Throw(h)
    PROVE  IInv'
  <1> DEFINE m == h[1]
             v == h[2]
             again == v = "job" /\ tries[m] < Attempts
  <1>1. /\ UNCHANGED <<registered, sent, delivered, repeats, rushed, tries, optedOut>>
        /\ UNCHANGED <<choice, context, picked, answers, about, silent, undeduped>>
        /\ run[h].stage \in {"obeying", "resolving", "entering", "answering"}
        /\ run' = [run EXCEPT ![h] = Idle] /\ claims' = claims \ {m}
        /\ job' = IF v = "direct" THEN job
                  ELSE [job EXCEPT ![m] = IF again THEN "waiting" ELSE "failed"]
        /\ hurt' = IF again THEN hurt ELSE hurt \cup {m}
        /\ faults < MaxFaults /\ faults' = faults + 1
    BY DEF Throw, Released, Fault, inbox, memory, replies
  <1>2. m \in Messages /\ v \in Vias /\ h = <<m, v>>
    BY HandlerIs
  <1>3. TypeOK /\ Good(m)
    BY <1>2 DEF IInv
  <1> HIDE DEF m, v
  <1>4. Moves(h, "idle") /\ "idle" \in Stages
    BY <1>1, <1>3, IdleMoves DEF Stages
  <1>5. /\ \A k \in Messages \ {m}, via \in Vias : run'[<<k, via>>] = run[<<k, via>>]
        /\ \A via \in Vias \ {v} : run'[<<m, via>>] = run[<<m, via>>]
        /\ run'[<<m, v>>].stage = "idle" /\ Working(<<m, v>>)
    BY <1>1, <1>2, <1>4, MovesApart DEF m, v, Working
  <1>6. /\ job' \in [Messages -> {"none", "waiting", "active", "failed"}]
        /\ \A k \in Messages \ {m} : job'[k] = job[k]
        /\ v = "job" => job[m] = "active" /\ job'[m] = IF again THEN "waiting" ELSE "failed"
        /\ v = "direct" => job'[m] = job[m]
    BY <1>1, <1>2, <1>3, <1>5 DEF TypeOK, Good, JobFits, Working
  <1>7. TypeOK'
    <2>1. faults' \in 0..MaxFaults /\ hurt' \subseteq Messages /\ claims' \subseteq Messages
      BY <1>1, <1>2, <1>3, BoundAssumption DEF TypeOK
    <2>2. run' \in [Handlers -> Runs]
      BY <1>4 DEF Moves
    <2>3. QED
      BY <1>1, <1>3, <1>6, <2>1, <2>2 DEF TypeOK
  <1>8. \A k \in Messages \ {m} : Same(k)
    BY <1>1, <1>5, <1>6 DEF Same
  <1>9. ~Working(<<m, v>>)' /\ \A via \in Vias \ {v} : Working(<<m, via>>)' <=> Working(<<m, via>>)
    BY <1>5 DEF Working
  <1>10. JobFits(m)'
    BY <1>1, <1>2, <1>3, <1>5, <1>6 DEF Good, JobFits, Vias
  <1>11. Once(m)'
    <2>1. SUFFICES ASSUME m \notin undeduped PROVE Once(m)'
      BY <1>1 DEF Once
    <2>2. answers[m] = 0 /\ \A u \in Vias : Working(<<m, u>>) => u = v
      BY <1>2, <1>3, <1>5, <2>1 DEF Good, Once
    <2>3. \A u \in Vias : ~Working(<<m, u>>)'
      BY <1>2, <1>9, <2>2
    <2>4. QED
      BY <1>1, <2>2, <2>3 DEF Once
  <1>12. Kept(m)'
    BY <1>1 DEF Kept
  <1>13. Carried(m)'
    BY <1>1, <1>2, <1>6 DEF Carried, Done, Vias
  <1>14. QED
    BY <1>2, <1>7, <1>8, <1>10, <1>11, <1>12, <1>13, Others DEF IInv, Good

\* The claim stays: only before it may the queue's job still be answered
LEMMA StepDie ==
    ASSUME IInv, NEW h \in Handlers, Die(h)
    PROVE  IInv'
  <1> DEFINE m == h[1]
             v == h[2]
  <1>1. /\ UNCHANGED <<registered, sent, delivered, repeats, rushed, claims, optedOut>>
        /\ UNCHANGED <<choice, context, picked, answers, about, silent, undeduped>>
        /\ run[h].stage # "idle" /\ run' = [run EXCEPT ![h] = Idle]
        /\ job' = IF v = "job" THEN [job EXCEPT ![m] = "waiting"] ELSE job
        /\ tries' = [tries EXCEPT ![m] = IF v = "job" THEN @ - 1 ELSE @]
        /\ hurt' = IF v = "job" /\ run[h].stage = "claiming" THEN hurt ELSE hurt \cup {m}
        /\ faults < MaxFaults /\ faults' = faults + 1
    BY DEF Die, Fault, inbox, memory, replies
  <1>2. m \in Messages /\ v \in Vias /\ h = <<m, v>>
    BY HandlerIs
  <1>3. TypeOK /\ Good(m)
    BY <1>2 DEF IInv
  <1> HIDE DEF m, v
  <1>4. Moves(h, "idle") /\ "idle" \in Stages
    BY <1>1, <1>3, IdleMoves DEF Stages
  <1>5. /\ \A k \in Messages \ {m}, via \in Vias : run'[<<k, via>>] = run[<<k, via>>]
        /\ \A via \in Vias \ {v} : run'[<<m, via>>] = run[<<m, via>>]
        /\ run'[<<m, v>>].stage = "idle" /\ run[<<m, v>>].stage # "idle"
        /\ run[<<m, v>>].stage = run[h].stage
    BY <1>1, <1>2, <1>4, MovesApart DEF m, v
  <1>6. tries[m] \in 0..Attempts /\ (v = "job" => job[m] = "active" /\ tries[m] > 0)
    BY <1>2, <1>3, <1>5 DEF TypeOK, Good, JobFits
  <1>7. /\ job' \in [Messages -> {"none", "waiting", "active", "failed"}]
        /\ tries' \in [Messages -> 0..Attempts]
        /\ \A k \in Messages \ {m} : job'[k] = job[k] /\ tries'[k] = tries[k]
        /\ v = "job" => job'[m] = "waiting" /\ tries'[m] < Attempts
        /\ v # "job" => job'[m] = job[m] /\ tries'[m] = tries[m]
    BY <1>1, <1>2, <1>3, <1>6, BoundAssumption DEF TypeOK
  <1>8. TypeOK'
    <2>1. faults' \in 0..MaxFaults /\ hurt' \subseteq Messages
      BY <1>1, <1>2, <1>3, BoundAssumption DEF TypeOK
    <2>2. run' \in [Handlers -> Runs]
      BY <1>4 DEF Moves
    <2>3. QED
      BY <1>1, <1>3, <1>7, <2>1, <2>2 DEF TypeOK
  <1>9. \A k \in Messages \ {m} : Same(k)
    BY <1>1, <1>5, <1>7 DEF Same
  <1>10. ~Working(<<m, v>>)' /\ \A via \in Vias \ {v} : Working(<<m, via>>)' <=> Working(<<m, via>>)
    BY <1>5 DEF Working
  <1>11. JobFits(m)'
    BY <1>1, <1>2, <1>3, <1>5, <1>6, <1>7 DEF Good, JobFits, Vias
  <1>12. Once(m)'
    BY <1>1, <1>2, <1>3, <1>10 DEF Good, Once
  <1>13. \/ m \in hurt'
         \/ v = "job" /\ hurt' = hurt /\ run[<<m, v>>].stage = "claiming"
    BY <1>1, <1>5
  <1>14. Kept(m)'
    <2>1. CASE m \in hurt'
      BY <2>1 DEF Kept, Done
    <2>2. CASE hurt' = hurt /\ run[<<m, v>>].stage = "claiming"
      <3>1. \A via \in Vias : Working(<<m, via>>)' <=> Working(<<m, via>>)
        BY <1>10, <2>2 DEF Working
      <3>2. QED
        BY <1>1, <1>3, <2>2, <3>1 DEF Good, Kept, Done
    <2>3. QED
      BY <1>13, <2>1, <2>2
  <1>15. Carried(m)'
    BY <1>7, <1>13 DEF Carried, Done
  <1>16. QED
    BY <1>2, <1>8, <1>9, <1>11, <1>12, <1>14, <1>15, Others DEF IInv, Good

LEMMA StepForget ==
    ASSUME IInv, Forget
    PROVE  IInv'
  <1>1. /\ UNCHANGED <<registered, sent, delivered, repeats, rushed, job, tries, claims, run, optedOut>>
        /\ UNCHANGED <<picked, answers, about, silent, undeduped, hurt, faults>>
        /\ choice' \in {choice, None}
    BY DEF Forget, inbox, queue, replies
  <1>2. context' \in [Coachings -> Children \cup {None, Awaiting}]
    BY DEF Forget, IInv, TypeOK
  <1>3. TypeOK'
    BY <1>1, <1>2 DEF IInv, TypeOK
  <1>4. \A k \in Messages : Same(k)
    BY <1>1 DEF Same
  <1>5. QED
    BY <1>3, <1>4, SameIsGood DEF IInv

-----------------------------------------------------------------------------
LEMMA InitOK == Init => IInv
  <1> SUFFICES ASSUME Init PROVE IInv
    OBVIOUS
  <1>1. Idle \in Runs /\ Idle.stage = "idle"
    BY DEF Idle, Runs, Stages
  <1>2. /\ run \in [Handlers -> Runs] /\ \A h \in Handlers : run[h].stage = "idle"
        /\ \A m \in Messages, via \in Vias : <<m, via>> \in Handlers
    BY <1>1 DEF Init, Handlers
  <1>3. TypeOK
    <2>1. context \in [Coachings -> Children \cup {None, Awaiting}]
      BY DEF Init
    <2>2. sent \in Seq(Bodies) /\ choice \in picked \cup {None}
      BY DEF Init
    <2>3. repeats \in 0..MaxRepeats /\ faults \in 0..MaxFaults /\ tries \in [Messages -> 0..Attempts]
      BY BoundAssumption DEF Init
    <2>4. QED
      BY <1>2, <2>1, <2>2, <2>3 DEF Init, TypeOK
  <1>4. \A m \in Messages : Good(m)
    <2> TAKE m \in Messages
    <2>1. \A via \in Vias : run[<<m, via>>].stage = "idle"
      BY <1>2
    <2>2. JobFits(m) /\ Kept(m) /\ Carried(m)
      BY <2>1 DEF Init, JobFits, Kept, Carried, Vias
    <2>3. Once(m)
      BY <2>1 DEF Init, Once, Working
    <2>4. QED
      BY <2>2, <2>3 DEF Good
  <1>5. QED
    BY <1>3, <1>4 DEF IInv

LEMMA NextOK == IInv /\ [Next]_vars => IInv'
  <1> SUFFICES ASSUME IInv, [Next]_vars PROVE IInv'
    OBVIOUS
  <1>1. CASE \E b \in Bodies : Send(b)
    BY <1>1, StepSend
  <1>2. CASE \E m \in Messages : Webhook(m) \/ WebhookWithoutQueue(m) \/ Take(m)
    BY <1>2, StepWebhook, StepWebhookWithoutQueue, StepTake
  <1>3. ASSUME NEW h \in Handlers, Step(h) \/ ClaimUnavailable(h) \/ Throw(h) \/ Die(h)
        PROVE  IInv'
    <2>1. CASE Step(h)
      BY <2>1, StepClaim, StepObey, StepResolve, StepSaveChoice, StepEnter, StepSaveContext,
         StepAnswer, StepReply, StepClose DEF Step
    <2>2. QED
      BY <1>3, <2>1, StepClaimUnavailable, StepThrow, StepDie
  <1>4. CASE Forget
    BY <1>4, StepForget
  <1>5. CASE UNCHANGED vars
    <2>1. /\ UNCHANGED <<registered, sent, delivered, repeats, rushed, job, tries, claims, run>>
          /\ UNCHANGED <<optedOut, choice, context, picked, answers, about, silent, undeduped>>
          /\ UNCHANGED <<hurt, faults>>
      BY <1>5 DEF vars, inbox, queue, memory, replies
    <2>2. TypeOK'
      BY <2>1 DEF IInv, TypeOK
    <2>3. \A k \in Messages : Same(k)
      BY <2>1 DEF Same
    <2>4. QED
      BY <2>2, <2>3, SameIsGood DEF IInv
  <1>6. QED
    BY <1>1, <1>2, <1>3, <1>4, <1>5 DEF Next

\* processInboundMessage, the queue and the webhook keep the types of everything they store
THEOREM TypeCorrect == Spec => []TypeOK
  <1>1. IInv => TypeOK
    BY DEF IInv
  <1>2. QED
    BY <1>1, InitOK, NextOK, PTL DEF Spec

\* The claim of processInboundMessage: a message is answered once, however often its
\* webhook comes and whoever handles it
THEOREM ClaimsHold == Spec => []AnsweredOnce
  <1>1. IInv => AnsweredOnce
    <2> SUFFICES ASSUME IInv, NEW m \in Messages, answers[m] > 1 PROVE m \in undeduped
      BY DEF AnsweredOnce
    <2>1. Once(m) /\ answers[m] \in Nat
      BY DEF IInv, Good, TypeOK
    <2>2. QED
      BY <2>1 DEF Once
  <1>2. QED
    BY <1>1, InitOK, NextOK, PTL DEF Spec

\* No claim, retry or handling by the webhook loses a message that came in
THEOREM NothingIsLost == Spec => []HandledIsAnswered
  <1>1. IInv => HandledIsAnswered
    <2> SUFFICES ASSUME IInv, NEW m \in Messages, Settled(m), m \notin silent \cup hurt
                 PROVE  answers[m] > 0
      BY DEF HandledIsAnswered
    <2>1. m \in delivered /\ job[m] # "waiting" /\ \A via \in Vias : run[<<m, via>>].stage = "idle"
      BY DEF Settled, Open, Handled
    <2>2. Carried(m)
      BY DEF IInv, Good
    <2>3. QED
      BY <2>1, <2>2 DEF Carried, Done, Working
  <1>2. QED
    BY <1>1, InitOK, NextOK, PTL DEF Spec


-----------------------------------------------------------------------------
(* The child an answer is about: what is remembered of the person was said   *)
(* by the person, and at an institute that knows the number.                 *)

\* A handler may be at c: the only institute, or one that was picked
MayBeAt(c) == c \in registered /\ (Cardinality(registered) = 1 \/ c \in picked)

MayAnswer(c, s) == s \in Kids(c) /\ (Len(ChildrenOf[c]) = 1 \/ s \in picked)

RunFits(h) ==
    /\ run[h].stage \in {"entering", "prompting", "picking", "answering"} => MayBeAt(run[h].at)
    /\ run[h].stage = "picking" => run[h].child \in Kids(run[h].at)
    /\ run[h].stage = "prompting" => run[h].child = None
    /\ run[h].stage = "answering" => MayAnswer(run[h].at, run[h].child)

\* What is remembered was picked
Remembered ==
    /\ choice = None \/ choice \in picked
    /\ \A c \in Coachings : context[c] \in Children => context[c] \in Kids(c) \cap picked

AboutFits(m) ==
    about[m] # None => \E c \in Coachings : MayBeAt(c) /\ MayAnswer(c, about[m])

RInv ==
    /\ IInv /\ Remembered
    /\ \A h \in Handlers : RunFits(h)
    /\ \A m \in Messages : AboutFits(m)

\* What was picked stays picked: a handler that does not move may go on
LEMMA RunStays ==
    ASSUME NEW h \in Handlers, RunFits(h), run'[h] = run[h], registered' = registered,
           picked \subseteq picked'
    PROVE  RunFits(h)'
  BY DEF RunFits, MayBeAt, MayAnswer

LEMMA AboutStays ==
    ASSUME NEW m \in Messages, AboutFits(m), about'[m] = about[m], registered' = registered,
           picked \subseteq picked'
    PROVE  AboutFits(m)'
  BY DEF AboutFits, MayBeAt, MayAnswer

\* A handler moves to where nothing is asked of it
LEMMA MovesAway ==
    ASSUME RInv, NEW h \in Handlers,
           NEW s \in Stages \ {"entering", "prompting", "picking", "answering"}, Moves(h, s),
           registered' = registered, picked \subseteq picked'
    PROVE  \A g \in Handlers : RunFits(g)'
  <1> TAKE g \in Handlers
  <1>1. CASE g = h
    BY <1>1 DEF Moves, RunFits
  <1>2. CASE g # h
    BY <1>2, RunStays DEF Moves, RInv
  <1>3. QED
    BY <1>1, <1>2

\* Whatever else happens, nobody moves and nothing is remembered
LEMMA NothingMoves ==
    ASSUME RInv, UNCHANGED <<run, about, context, choice, picked, registered>>
    PROVE  Remembered' /\ (\A h \in Handlers : RunFits(h)') /\ \A m \in Messages : AboutFits(m)'
  <1>1. Remembered'
    BY DEF RInv, Remembered
  <1>2. QED
    BY <1>1, RunStays, AboutStays DEF RInv

RStep == Remembered' /\ (\A h \in Handlers : RunFits(h)') /\ \A m \in Messages : AboutFits(m)'

\* A move to a stage of which nothing is asked, with nothing learned
LEMMA PlainMove ==
    ASSUME RInv, NEW h \in Handlers,
           NEW s \in Stages \ {"entering", "prompting", "picking", "answering"}, Moves(h, s),
           UNCHANGED <<about, context, choice, picked, registered>>
    PROVE  RStep
  <1>1. Remembered'
    BY DEF RInv, Remembered
  <1>2. QED
    BY <1>1, MovesAway, AboutStays DEF RInv, RStep

LEMMA RightQueue ==
    ASSUME RInv, NEW m \in Messages, WebhookWithoutQueue(m) \/ Take(m)
    PROVE  RStep
  <1>1. UNCHANGED <<about, context, choice, picked, registered>>
    BY DEF WebhookWithoutQueue, Take, memory, replies
  <1>2. PICK via \in Vias : run' = [run EXCEPT ![<<m, via>>].stage = "claiming"]
    BY DEF WebhookWithoutQueue, Take, Goes, Vias
  <1> DEFINE h == <<m, via>>
  <1>3. h \in Handlers
    BY DEF Handlers
  <1> HIDE DEF h
  <1>4. run' = [run EXCEPT ![h].stage = "claiming"]
    BY <1>2 DEF h
  <1>5. "claiming" \in Stages \ {"entering", "prompting", "picking", "answering"} /\ TypeOK
    BY DEF Stages, RInv, IInv
  <1>6. Moves(h, "claiming")
    BY <1>3, <1>4, <1>5, StageMoves
  <1>7. QED
    BY <1>1, <1>3, <1>5, <1>6, PlainMove

LEMMA RightClaim ==
    ASSUME RInv, NEW h \in Handlers, Claim(h) \/ ClaimUnavailable(h)
    PROVE  RStep
  <1>1. UNCHANGED <<about, context, choice, picked, registered>>
    BY DEF Claim, ClaimUnavailable, memory, replies
  <1>2. \E s \in {"obeying", "resolving", "closing"} : run' = [run EXCEPT ![h].stage = s]
    BY DEF Claim, ClaimUnavailable, Goes, AfterClaim
  <1>3. PICK s \in {"obeying", "resolving", "closing"} : run' = [run EXCEPT ![h].stage = s]
    BY <1>2
  <1>4. s \in Stages \ {"entering", "prompting", "picking", "answering"} /\ TypeOK
    BY DEF Stages, RInv, IInv
  <1>5. Moves(h, s)
    BY <1>3, <1>4, StageMoves
  <1>6. QED
    BY <1>1, <1>4, <1>5, PlainMove

LEMMA RightReply ==
    ASSUME RInv, NEW h \in Handlers, Obey(h) \/ Reply(h)
    PROVE  RStep
  <1>1. UNCHANGED <<about, context, choice, picked, registered>>
    BY DEF Obey, Reply, memory, replies
  <1>2. PICK s \in {"replying", "closing"} : run' = [run EXCEPT ![h].stage = s]
    BY DEF Obey, Reply, Goes
  <1>3. s \in Stages \ {"entering", "prompting", "picking", "answering"} /\ TypeOK
    BY DEF Stages, RInv, IInv
  <1>4. Moves(h, s)
    BY <1>2, <1>3, StageMoves
  <1>5. QED
    BY <1>1, <1>3, <1>4, PlainMove

LEMMA RightEnd ==
    ASSUME RInv, NEW h \in Handlers, Close(h) \/ Throw(h) \/ Die(h)
    PROVE  RStep
  <1>1. UNCHANGED <<about, context, choice, picked, registered>> /\ run' = [run EXCEPT ![h] = Idle]
    BY DEF Close, Throw, Die, memory, replies
  <1>2. Moves(h, "idle") /\ "idle" \in Stages
    BY <1>1, IdleMoves DEF RInv, IInv, Stages
  <1>3. QED
    BY <1>1, <1>2, PlainMove


\* A handler enters the only institute or the one remembered
LEMMA RightResolve ==
    ASSUME RInv, NEW h \in Handlers, Resolve(h)
    PROVE  RStep
  <1>1. UNCHANGED <<about, context, choice, picked, registered>>
    BY DEF Resolve, memory, replies
  <1>2. CASE \E enter \in {c \in registered : Cardinality(registered) = 1 \/ c = choice} :
                 run' = [run EXCEPT ![h] = [stage |-> "entering", at |-> enter, child |-> None]]
    <2>1. PICK enter \in registered :
              /\ Cardinality(registered) = 1 \/ enter = choice
              /\ run' = [run EXCEPT ![h] = [stage |-> "entering", at |-> enter, child |-> None]]
      BY <1>2
    <2> DEFINE r == [stage |-> "entering", at |-> enter, child |-> None]
    <2>2. r \in Runs /\ r.stage = "entering" /\ r.at = enter /\ enter \in Coachings
      BY DEF Runs, Stages, RInv, IInv, TypeOK
    <2> HIDE DEF r
    <2>3. run'[h] = r /\ \A g \in Handlers \ {h} : run'[g] = run[g]
      BY <2>1, <2>2, RunIs DEF RInv, IInv, r
    <2>4. MayBeAt(enter)
      BY <2>1, <2>2, PeopleAssumption DEF RInv, Remembered, MayBeAt
    <2>5. MayBeAt(enter)'
      BY <1>1, <2>4 DEF MayBeAt
    <2>6. RunFits(h)'
      BY <2>2, <2>3, <2>5 DEF RunFits
    <2>7. \A g \in Handlers : RunFits(g)'
      BY <1>1, <2>3, <2>6, RunStays DEF RInv
    <2>8. Remembered' /\ \A m \in Messages : AboutFits(m)'
      BY <1>1, AboutStays DEF RInv, Remembered
    <2>9. QED
      BY <2>7, <2>8 DEF RStep
  <1>3. CASE \E s \in {"choosing", "replying"} : run' = [run EXCEPT ![h].stage = s]
    <2>1. PICK s \in {"choosing", "replying"} : run' = [run EXCEPT ![h].stage = s]
      BY <1>3
    <2>2. s \in Stages \ {"entering", "prompting", "picking", "answering"} /\ TypeOK
      BY DEF Stages, RInv, IInv
    <2>3. Moves(h, s)
      BY <2>1, <2>2, StageMoves
    <2>4. QED
      BY <1>1, <2>2, <2>3, PlainMove
  <1>4. QED
    BY <1>2, <1>3 DEF Resolve

LEMMA RightSaveChoice ==
    ASSUME RInv, NEW h \in Handlers, SaveChoice(h)
    PROVE  RStep
  <1>1. /\ UNCHANGED <<about, context, registered>> /\ run' = [run EXCEPT ![h].stage = "replying"]
        /\ choice' \in picked' /\ picked \subseteq picked'
    BY DEF SaveChoice, Goes, replies
  <1>2. "replying" \in Stages \ {"entering", "prompting", "picking", "answering"} /\ TypeOK
    BY DEF Stages, RInv, IInv
  <1>3. Moves(h, "replying")
    BY <1>1, <1>2, StageMoves
  <1>4. \A g \in Handlers : RunFits(g)'
    BY <1>1, <1>2, <1>3, MovesAway
  <1>5. Remembered' /\ \A m \in Messages : AboutFits(m)'
    BY <1>1, AboutStays DEF RInv, Remembered
  <1>6. QED
    BY <1>4, <1>5 DEF RStep

\* The child is picked, remembered, or the only one
LEMMA RightEnter ==
    ASSUME RInv, NEW h \in Handlers, Enter(h)
    PROVE  RStep
  <1> DEFINE c == run[h].at
             picks == context[c] = Awaiting /\ PickedFrom(ChildrenOf[c], sent[h[1]])
  <1>1. UNCHANGED <<about, context, choice, picked, registered>> /\ run[h].stage = "entering" /\ TypeOK
    BY DEF Enter, memory, RInv, IInv
  <1>2. MayBeAt(c) /\ c \in Coachings
    BY <1>1 DEF RInv, RunFits, MayBeAt, TypeOK
  <1>3. PICK s \in {"closing", "picking", "prompting", "answering"} :
             /\ Moves(h, s) /\ run'[h].at = c
             /\ s # "closing" => run'[h].child = EnterChild(h)
             /\ s = "picking" => picks
             /\ s = "prompting" => run'[h].child = None
             /\ s = "answering" => ~picks /\ run'[h].child # None
    <2>1. \E s \in {"closing", "picking", "prompting", "answering"} :
             /\ Moves(h, s) /\ run'[h].at = run[h].at
             /\ \/ s = "closing" /\ silent' = silent \cup {h[1]} /\ run'[h].child = None
                \/ s # "closing" /\ silent' = silent /\ run'[h].child = EnterChild(h)
             /\ s = "picking" => context[run[h].at] = Awaiting
                                 /\ PickedFrom(ChildrenOf[run[h].at], sent[h[1]])
             /\ s = "prompting" => run'[h].child = None
             /\ s = "answering" =>
                  /\ ~(context[run[h].at] = Awaiting
                         /\ PickedFrom(ChildrenOf[run[h].at], sent[h[1]]))
                  /\ run'[h].child # None
      BY <1>1, <1>2, EnterIs
    <2>2. QED
      BY <2>1
  <1>4. picks => EnterChild(h) \in Kids(c)
    BY DEF EnterChild, PickedFrom, Kids
  <1>5. ~picks /\ EnterChild(h) # None => MayAnswer(c, EnterChild(h))
    <2> SUFFICES ASSUME ~picks, EnterChild(h) # None PROVE MayAnswer(c, EnterChild(h))
      OBVIOUS
    <2>1. CASE context[c] \in Children
      <3>1. EnterChild(h) = context[c]
        BY <2>1 DEF EnterChild
      <3>2. context[c] \in Kids(c) \cap picked
        BY <1>2, <2>1 DEF RInv, Remembered
      <3>3. QED
        BY <3>1, <3>2 DEF MayAnswer
    <2>2. CASE context[c] \notin Children
      <3>1. OnlyChild(ChildrenOf[c]) /\ EnterChild(h) = ChildrenOf[c][1]
        BY <2>2 DEF EnterChild
      <3>2. ChildrenOf[c] \in Seq(Kids(c)) /\ Len(ChildrenOf[c]) = 1
        BY <1>2, <3>1, PeopleAssumption DEF OnlyChild
      <3>3. ChildrenOf[c][1] \in Kids(c)
        BY <3>2
      <3>4. QED
        BY <3>1, <3>2, <3>3 DEF MayAnswer
    <2>3. QED
      BY <2>1, <2>2
  <1> HIDE DEF c, picks
  <1>6. RunFits(h)'
    <2> DEFINE s1 == run'[h].stage
               c1 == run'[h].at
               k1 == run'[h].child
    <2>1. s1 = s /\ c1 = c
      BY <1>3 DEF Moves
    <2>2. s1 \in {"entering", "prompting", "picking", "answering"} =>
             c1 \in registered' /\ (Cardinality(registered') = 1 \/ c1 \in picked')
      BY <1>1, <1>2, <2>1 DEF MayBeAt
    <2>3. s1 = "picking" => k1 \in Kids(c1)
      BY <1>3, <1>4, <2>1
    <2>4. s1 = "prompting" => k1 = None
      BY <1>3, <2>1
    <2>5. s1 = "answering" => k1 \in Kids(c1) /\ (Len(ChildrenOf[c1]) = 1 \/ k1 \in picked')
      BY <1>1, <1>3, <1>5, <2>1 DEF MayAnswer
    <2>6. QED
      BY <2>2, <2>3, <2>4, <2>5 DEF RunFits, MayBeAt, MayAnswer
  <1>7. \A g \in Handlers : RunFits(g)'
    BY <1>1, <1>3, <1>6, RunStays DEF Moves, RInv
  <1>8. Remembered' /\ \A m \in Messages : AboutFits(m)'
    BY <1>1, AboutStays DEF RInv, Remembered
  <1>9. QED
    BY <1>7, <1>8 DEF RStep

\* The child just picked is what is remembered
LEMMA RightSaveContext ==
    ASSUME RInv, NEW h \in Handlers, SaveContext(h)
    PROVE  RStep
  <1> DEFINE c == run[h].at
             s == run[h].child
  <1>1. /\ UNCHANGED <<about, choice, registered>> /\ run' = [run EXCEPT ![h].stage = "closing"]
        /\ run[h].stage \in {"prompting", "picking"}
        /\ context' = [context EXCEPT ![c] = IF s # None THEN s ELSE Awaiting]
        /\ picked' = IF s # None THEN picked \cup {s} ELSE picked
    BY DEF SaveContext
  <1>2. "closing" \in Stages \ {"entering", "prompting", "picking", "answering"} /\ TypeOK
    BY DEF Stages, RInv, IInv
  <1>3. Moves(h, "closing") /\ picked \subseteq picked'
    BY <1>1, <1>2, StageMoves
  <1>4. \A g \in Handlers : RunFits(g)'
    BY <1>1, <1>2, <1>3, MovesAway
  <1>5. s # None => s \in Kids(c)
    BY <1>1 DEF RInv, RunFits
  <1> HIDE DEF c, s
  <1>6. Remembered'
    <2>1. choice' = None \/ choice' \in picked'
      BY <1>1, <1>3 DEF RInv, Remembered
    <2>2. ASSUME NEW d \in Coachings, context'[d] \in Children
          PROVE  context'[d] \in Kids(d) \cap picked'
      <3>1. CASE d = c
        <4>1. context'[d] = IF s # None THEN s ELSE Awaiting
          BY <1>1, <1>2, <3>1 DEF TypeOK
        <4>2. s # None /\ context'[d] = s
          BY <2>2, <4>1, PeopleAssumption
        <4>3. QED
          BY <1>1, <1>5, <3>1, <4>2
      <3>2. CASE d # c
        BY <1>1, <1>2, <1>3, <2>2, <3>2 DEF RInv, Remembered, TypeOK
      <3>3. QED
        BY <3>1, <3>2
    <2>3. QED
      BY <2>1, <2>2 DEF Remembered
  <1>7. \A m \in Messages : AboutFits(m)'
    BY <1>1, <1>3, AboutStays DEF RInv
  <1>8. QED
    BY <1>4, <1>6, <1>7 DEF RStep

LEMMA RightAnswer ==
    ASSUME RInv, NEW h \in Handlers, Answer(h)
    PROVE  RStep
  <1> DEFINE m == h[1]
             c == run[h].at
             s == run[h].child
  <1>1. /\ UNCHANGED <<context, choice, picked, registered>> /\ run[h].stage = "answering"
        /\ run' = [run EXCEPT ![h].stage = "closing"] /\ about' = [about EXCEPT ![m] = s]
    BY DEF Answer, Goes, memory
  <1>2. "closing" \in Stages \ {"entering", "prompting", "picking", "answering"} /\ TypeOK
    BY DEF Stages, RInv, IInv
  <1>3. Moves(h, "closing")
    BY <1>1, <1>2, StageMoves
  <1>4. \A g \in Handlers : RunFits(g)'
    BY <1>1, <1>2, <1>3, MovesAway
  <1>5. MayBeAt(c) /\ MayAnswer(c, s) /\ c \in Coachings
    BY <1>1, <1>2 DEF RInv, RunFits, MayBeAt, TypeOK
  <1>6. m \in Messages
    BY HandlerIs
  <1> HIDE DEF m, c, s
  <1>7. /\ about'[m] = s /\ \A k \in Messages \ {m} : about'[k] = about[k]
        /\ c \in registered' /\ (Cardinality(registered') = 1 \/ c \in picked')
        /\ s \in Kids(c) /\ (Len(ChildrenOf[c]) = 1 \/ s \in picked')
    BY <1>1, <1>2, <1>5, <1>6 DEF TypeOK, MayBeAt, MayAnswer
  <1>8. AboutFits(m)'
    BY <1>5, <1>7 DEF AboutFits, MayBeAt, MayAnswer
  <1>9. \A k \in Messages : AboutFits(k)'
    BY <1>1, <1>7, <1>8, AboutStays DEF RInv
  <1>10. Remembered'
    BY <1>1 DEF RInv, Remembered
  <1>11. QED
    BY <1>4, <1>9, <1>10 DEF RStep

LEMMA RightForget ==
    ASSUME RInv, Forget
    PROVE  RStep
  <1>1. /\ UNCHANGED <<run, about, picked, registered>> /\ choice' \in {choice, None}
        /\ \A c \in Coachings : context'[c] \in {context[c], None}
    BY DEF Forget, replies, RInv, IInv, TypeOK
  <1>2. Remembered'
    BY <1>1, PeopleAssumption DEF RInv, Remembered
  <1>3. QED
    BY <1>1, <1>2, RunStays, AboutStays DEF RInv, RStep

LEMMA RightNext == RInv /\ [Next]_vars => RInv'
  <1> SUFFICES ASSUME RInv, [Next]_vars PROVE RInv'
    OBVIOUS
  <1>1. IInv'
    BY NextOK DEF RInv
  <1>2. CASE (\E b \in Bodies : Send(b)) \/ (\E m \in Messages : Webhook(m)) \/ UNCHANGED vars
    <2>1. UNCHANGED <<run, about, context, choice, picked, registered>>
      BY <1>2 DEF Send, Webhook, vars, memory, replies
    <2>2. QED
      BY <1>1, <2>1, NothingMoves DEF RInv
  <1>3. CASE \E m \in Messages : WebhookWithoutQueue(m) \/ Take(m)
    BY <1>1, <1>3, RightQueue DEF RInv, RStep
  <1>4. ASSUME NEW h \in Handlers, Step(h) \/ ClaimUnavailable(h) \/ Throw(h) \/ Die(h)
        PROVE  RInv'
    <2>1. RStep
      BY <1>4, RightClaim, RightReply, RightEnd, RightResolve, RightSaveChoice, RightEnter,
         RightSaveContext, RightAnswer DEF Step
    <2>2. QED
      BY <1>1, <2>1 DEF RInv, RStep
  <1>5. CASE Forget
    BY <1>1, <1>5, RightForget DEF RInv, RStep
  <1>6. QED
    BY <1>2, <1>3, <1>4, <1>5 DEF Next

LEMMA RightInit == Init => RInv
  <1> SUFFICES ASSUME Init PROVE RInv
    OBVIOUS
  <1>1. Remembered
    <2>1. \A c \in Coachings : context[c] \in {None, Awaiting}
      BY DEF Init
    <2>2. QED
      BY <2>1, PeopleAssumption DEF Init, Remembered
  <1>2. \A h \in Handlers : run[h].stage = "idle"
    BY DEF Init, Idle
  <1>3. \A h \in Handlers : RunFits(h)
    BY <1>2 DEF RunFits
  <1>4. QED
    BY <1>1, <1>3, InitOK DEF RInv, AboutFits, Init

\* The choice among institutes and children: an answer is about a child at an institute
\* that knows the person, and where there are several about one the person chose
THEOREM AnswersFit == Spec => []RightChild
  <1>1. RInv => RightChild
    <2> SUFFICES ASSUME RInv, NEW m \in Messages, about[m] # None
                 PROVE  LET c == CoachingOf(about[m])
                        IN /\ c \in registered
                           /\ Cardinality(registered) = 1 \/ c \in picked
                           /\ Len(ChildrenOf[c]) = 1 \/ about[m] \in picked
      BY DEF RightChild
    <2>1. PICK d \in Coachings : MayBeAt(d) /\ MayAnswer(d, about[m])
      BY DEF RInv, AboutFits
    <2>2. CoachingOf(about[m]) = d
      BY <2>1, PeopleAssumption DEF CoachingOf, MayAnswer
    <2>3. QED
      BY <2>1, <2>2 DEF MayBeAt, MayAnswer
  <1>2. QED
    BY <1>1, RightInit, RightNext, PTL DEF Spec

-----------------------------------------------------------------------------
(* The last STOP or START: a command is obeyed once, in the order in which   *)
(* the person waited for one after the other.                                *)

Said == {m \in DOMAIN sent : sent[m] \in Commands}

Clean(m) == m \notin hurt \cup undeduped

\* The command has been obeyed
Past(m) ==
    answers[m] > 0 \/ m \in silent \/ \E via \in Vias : run[<<m, via>>].stage = "replying"

CommandStages == {"idle", "claiming", "obeying", "replying", "closing"}

\* Of a message that was not sent nobody knows; commands alone are obeyed, and
\* once a command's reply is dropped, its claim keeps others away
Commanded(m) ==
    /\ m \notin DOMAIN sent => m \notin delivered /\ ~Handled(m) /\ answers[m] = 0 /\ m \notin silent
    /\ \A via \in Vias : /\ m \in Said => run[<<m, via>>].stage \in CommandStages
                         /\ run[<<m, via>>].stage = "obeying" => m \in Said
    /\ m \in Said /\ Clean(m) /\ m \in silent => m \in claims /\ \A via \in Vias : ~Working(<<m, via>>)

\* Who waited for an earlier command spoke after it was obeyed
Ordered == \A k \in Said \ rushed : \A m \in Said : m < k /\ Clean(m) => Past(m)

\* The person's row says what the last command that was obeyed asks for
Latest ==
    (\A k \in Said : Clean(k) /\ k \notin rushed) =>
        \A m \in Said : Past(m) /\ (\A k \in Said : k > m => ~Past(k))
            => (optedOut <=> sent[m] = "stop")

HasLast == Said = {} \/ \E m \in Said : \A k \in Said : k <= m

LInv ==
    /\ Len(sent) <= MaxMessages
    /\ \A m \in Messages : Commanded(m)
    /\ Ordered /\ Latest /\ HasLast

\* Only the message m is touched, and nothing is unsaid
Frame(m) ==
    /\ UNCHANGED <<sent, rushed>> /\ undeduped \subseteq undeduped' /\ hurt \subseteq hurt'
    /\ delivered' \subseteq delivered \cup DOMAIN sent
    /\ \A k \in Messages \ {m} :
         /\ \A via \in Vias : run'[<<k, via>>] = run[<<k, via>>]
         /\ answers'[k] = answers[k] /\ (k \in silent' <=> k \in silent)
         /\ k \in claims => k \in claims'

LEMMA SaidType ==
    ASSUME IInv, LInv
    PROVE  /\ sent \in Seq(Bodies) /\ DOMAIN sent = 1..Len(sent) /\ Len(sent) \in Nat
           /\ Said \subseteq DOMAIN sent /\ DOMAIN sent \subseteq Messages /\ Said \subseteq Nat
  <1>1. sent \in Seq(Bodies) /\ DOMAIN sent = 1..Len(sent) /\ Len(sent) \in Nat
    BY DEF IInv, TypeOK
  <1>2. QED
    BY <1>1, BoundAssumption DEF LInv, Said, Messages

LEMMA FrameKeeps ==
    ASSUME IInv, LInv, NEW m, Frame(m)
    PROVE  /\ Said' = Said
           /\ \A k \in Messages \ {m} : Commanded(k)' /\ (Past(k)' <=> Past(k))
           /\ \A k \in Messages : Clean(k)' => Clean(k)
  <1>1. Said' = Said /\ \A k \in Messages : Clean(k)' => Clean(k)
    BY DEF Frame, Said, Clean
  <1>2. ASSUME NEW k \in Messages \ {m}
        PROVE  Commanded(k)' /\ (Past(k)' <=> Past(k))
    <2>1. /\ Handled(k)' <=> Handled(k)
          /\ \A via \in Vias : Working(<<k, via>>)' <=> Working(<<k, via>>)
      BY DEF Frame, Handled, Working
    <2>2. Past(k)' <=> Past(k)
      BY DEF Frame, Past
    <2>3. k \notin DOMAIN sent' => k \notin delivered'
      BY DEF Frame, LInv, Commanded
    <2>4. QED
      BY <1>1, <2>1, <2>2, <2>3 DEF LInv, Commanded, Frame
  <1>3. QED
    BY <1>1, <1>2

\* A step that obeys no command
LEMMA Unobeyed ==
    ASSUME IInv, LInv, NEW m \in Messages, Frame(m), UNCHANGED optedOut, Commanded(m)',
           m \in Said /\ Clean(m)' => (Past(m)' <=> Past(m))
    PROVE  LInv'
  <1>1. /\ Said' = Said /\ UNCHANGED <<sent, rushed>>
        /\ \A k \in Messages \ {m} : Commanded(k)' /\ (Past(k)' <=> Past(k))
        /\ \A k \in Messages : Clean(k)' => Clean(k)
    BY FrameKeeps DEF Frame
  <1>2. Said \subseteq Messages
    BY SaidType
  <1>3. \A k \in Said : Clean(k)' => (Past(k)' <=> Past(k))
    BY <1>1, <1>2
  <1>4. Ordered'
    BY <1>1, <1>2, <1>3 DEF LInv, Ordered
  <1>5. Latest'
    BY <1>1, <1>2, <1>3 DEF LInv, Latest
  <1>6. HasLast' /\ Len(sent') <= MaxMessages
    BY <1>1 DEF LInv, HasLast
  <1>7. QED
    BY <1>1, <1>4, <1>5, <1>6 DEF LInv

\* What a handler may do, but for obeying
Begins(h) ==
    /\ run[h].stage = "idle" /\ run'[h].stage = "claiming" /\ h[1] \in DOMAIN sent
    /\ UNCHANGED <<answers, silent, claims>>
Asks(h) ==
    /\ run[h].stage = "claiming"
    /\ \/ run'[h].stage = "closing"
       \/ run'[h].stage = AfterClaim(h[1]) /\ (h[1] \notin claims \/ h[1] \in undeduped')
    /\ claims \subseteq claims' /\ UNCHANGED <<answers, silent>>
Talks(h) ==
    /\ run[h].stage \notin CommandStages /\ run'[h].stage # "obeying"
Replies(h) ==
    /\ run[h].stage = "replying" /\ run'[h].stage = "closing"
    /\ answers'[h[1]] > 0 \/ h[1] \in silent'
    /\ h[1] \in claims => h[1] \in claims'
Ends(h) ==
    /\ run[h].stage # "idle" /\ run'[h].stage = "idle"
    /\ UNCHANGED <<answers, silent>>
    /\ \/ run[h].stage \in {"claiming", "closing"} /\ UNCHANGED claims
       \/ run[h].stage = "obeying"
       \/ h[1] \in hurt'

Turn(h) ==
    /\ Frame(h[1]) /\ UNCHANGED optedOut
    /\ \A g \in Handlers \ {h} : run'[g] = run[g]
    /\ Begins(h) \/ Asks(h) \/ Talks(h) \/ Replies(h) \/ Ends(h)

LEMMA TurnKeeps ==
    ASSUME IInv, LInv, NEW h \in Handlers, Turn(h)
    PROVE  LInv'
  <1> DEFINE m == h[1]
             v == h[2]
  <1>1. m \in Messages /\ v \in Vias /\ h = <<m, v>>
    BY HandlerIs
  <1>2. \A via \in Vias \ {v} : run'[<<m, via>>] = run[<<m, via>>]
    BY HandlerIs DEF Turn
  <1>3. Frame(m) /\ UNCHANGED optedOut /\ Said' = Said /\ (Clean(m)' => Clean(m))
    BY <1>1, FrameKeeps DEF Turn
  <1>4. m \in DOMAIN sent /\ DOMAIN sent' = DOMAIN sent
    <2>1. CASE m \notin DOMAIN sent
      <3>1. run[h].stage = "idle"
        BY <1>1, <2>1 DEF LInv, Commanded, Handled
      <3>2. QED
        BY <2>1, <3>1 DEF Turn, Begins, Asks, Talks, Replies, Ends, CommandStages
    <2>2. QED
      BY <2>1, <1>3 DEF Frame
  <1>5. Commanded(m) /\ Once(m) /\ answers[m] \in Nat
    BY <1>1 DEF LInv, IInv, Good, TypeOK
  <1> HIDE DEF m, v
  <1>6. /\ \A via \in Vias : /\ m \in Said => run[<<m, via>>].stage \in CommandStages
                             /\ run[<<m, via>>].stage = "obeying" => m \in Said
        /\ m \in Said /\ Clean(m) /\ m \in silent => m \in claims /\ \A via \in Vias : ~Working(<<m, via>>)
    BY <1>5 DEF Commanded
  <1>7. /\ \A via \in Vias : /\ m \in Said => run'[<<m, via>>].stage \in CommandStages
                             /\ run'[<<m, via>>].stage = "obeying" => m \in Said
    BY <1>1, <1>2, <1>4, <1>6
    DEF Turn, Begins, Asks, Talks, Replies, Ends, CommandStages, AfterClaim, Said, m
  <1>8. m \in Said /\ Clean(m)' => (Past(m)' <=> Past(m))
    BY <1>1, <1>2, <1>3, <1>5, <1>6
    DEF Turn, Begins, Asks, Talks, Replies, Ends, CommandStages, AfterClaim, Said, Past, Clean, m
  <1>9. ASSUME m \in Said, Clean(m)', m \in silent'
        PROVE  m \in claims' /\ \A via \in Vias : ~Working(<<m, via>>)'
    <2>1. Clean(m) /\ m \notin undeduped /\ m \notin undeduped' /\ m \notin hurt'
      BY <1>3, <1>9 DEF Clean
    <2>2. CASE Begins(h) \/ Asks(h) \/ Ends(h)
      <3>1. m \in silent
        BY <1>9, <2>2 DEF Begins, Asks, Ends
      <3>2. m \in claims /\ \A via \in Vias : ~Working(<<m, via>>)
        BY <1>6, <1>9, <2>1, <3>1
      <3>3. \A via \in Vias \ {v} : ~Working(<<m, via>>)'
        BY <1>2, <3>2 DEF Working
      <3>4. CASE Begins(h)
        BY <1>1, <3>2, <3>3, <3>4 DEF Begins, Working
      <3>5. CASE Asks(h)
        <4>1. run'[h].stage = "closing"
          BY <2>1, <3>2, <3>5 DEF Asks, m
        <4>2. m \in claims'
          BY <1>3, <3>2, <3>5, <2>1, <1>9 DEF Asks
        <4>3. QED
          BY <1>1, <3>3, <4>1, <4>2 DEF Working
      <3>6. CASE Ends(h)
        <4>1. UNCHANGED claims
          BY <1>1, <2>1, <3>2, <3>6 DEF Ends, Working, m
        <4>2. QED
          BY <1>1, <3>2, <3>3, <3>6, <4>1 DEF Ends, Working
      <3>7. QED
        BY <2>2, <3>4, <3>5, <3>6
    <2>3. CASE Talks(h)
      BY <1>1, <1>6, <1>9, <2>3 DEF Talks
    <2>4. CASE Replies(h)
      <3>1. Working(<<m, v>>) /\ ~Working(<<m, v>>)'
        BY <1>1, <2>4 DEF Replies, Working
      <3>2. m \in claims /\ \A u \in Vias : Working(<<m, u>>) => u = v
        BY <1>1, <1>5, <2>1, <3>1 DEF Once
      <3>3. QED
        BY <1>1, <1>2, <2>4, <3>1, <3>2 DEF Replies, Working, m
    <2>5. QED
      BY <2>2, <2>3, <2>4 DEF Turn
  <1>10. Commanded(m)'
    BY <1>3, <1>4, <1>7, <1>9 DEF Commanded
  <1>11. QED
    BY <1>1, <1>3, <1>8, <1>10, Unobeyed


\* Who else is not touched
Apart(h) ==
    /\ UNCHANGED <<sent, rushed, optedOut>> /\ undeduped \subseteq undeduped' /\ hurt \subseteq hurt'
    /\ delivered' \subseteq delivered \cup DOMAIN sent
    /\ \A g \in Handlers \ {h} : run'[g] = run[g]
    /\ \A k \in Messages \ {h[1]} :
         /\ answers'[k] = answers[k] /\ (k \in silent' <=> k \in silent)
         /\ k \in claims => k \in claims'

LEMMA ApartIsTurn ==
    ASSUME NEW h \in Handlers, Apart(h), Begins(h) \/ Asks(h) \/ Talks(h) \/ Replies(h) \/ Ends(h)
    PROVE  Turn(h)
  <1>1. \A k \in Messages \ {h[1]} : \A via \in Vias : run'[<<k, via>>] = run[<<k, via>>]
    BY HandlerIs DEF Apart
  <1>2. QED
    BY <1>1 DEF Apart, Frame, Turn

\* A handler that goes on leaves the others where they are
LEMMA GoesIs ==
    ASSUME IInv, NEW h \in Handlers, NEW from, NEW s \in Stages, Goes(h, from, s)
    PROVE  /\ run[h].stage = from /\ run'[h].stage = s
           /\ \A g \in Handlers \ {h} : run'[g] = run[g]
  <1>1. TypeOK /\ run' = [run EXCEPT ![h].stage = s] /\ run[h].stage = from
    BY DEF IInv, Goes
  <1>2. Moves(h, s)
    BY <1>1, StageMoves
  <1>3. QED
    BY <1>1, <1>2 DEF Moves

LEMMA LastBegins ==
    ASSUME IInv, LInv, NEW m \in Messages, WebhookWithoutQueue(m) \/ Take(m)
    PROVE  LInv'
  <1>1. "claiming" \in Stages
    BY DEF Stages
  <1>2. m \in DOMAIN sent
    <2>1. CASE WebhookWithoutQueue(m)
      BY <2>1 DEF WebhookWithoutQueue, Called
    <2>2. CASE Take(m)
      BY <2>2 DEF Take, IInv, LInv, Good, JobFits, Commanded
    <2>3. QED
      BY <2>1, <2>2
  <1>3. PICK via \in Vias : Goes(<<m, via>>, "idle", "claiming")
    BY DEF WebhookWithoutQueue, Take, Vias
  <1>4. <<m, via>> \in Handlers
    BY DEF Handlers
  <1>5. /\ run[<<m, via>>].stage = "idle" /\ run'[<<m, via>>].stage = "claiming"
        /\ \A g \in Handlers \ {<<m, via>>} : run'[g] = run[g]
    BY <1>1, <1>3, <1>4, GoesIs
  <1>6. Apart(<<m, via>>) /\ Begins(<<m, via>>)
    BY <1>2, <1>5 DEF Apart, Begins, WebhookWithoutQueue, Take, Called, inbox, replies
  <1>7. QED
    BY <1>4, <1>6, ApartIsTurn, TurnKeeps

LEMMA LastAsks ==
    ASSUME IInv, LInv, NEW h \in Handlers, Claim(h) \/ ClaimUnavailable(h)
    PROVE  LInv'
  <1>1. PICK s \in Stages : Goes(h, "claiming", s) /\
          (s = "closing" \/ (s = AfterClaim(h[1]) /\ (h[1] \notin claims \/ h[1] \in undeduped')))
    <2>1. CASE Claim(h)
      BY <2>1 DEF Claim, Granted, AfterClaim, Stages
    <2>2. CASE ClaimUnavailable(h)
      BY <2>2 DEF ClaimUnavailable, AfterClaim, Stages
    <2>3. QED
      BY <2>1, <2>2
  <1>2. /\ run[h].stage = "claiming" /\ run'[h].stage = s
        /\ \A g \in Handlers \ {h} : run'[g] = run[g]
    BY <1>1, GoesIs
  <1>3. Apart(h)
    BY <1>2 DEF Apart, Claim, ClaimUnavailable, inbox, replies
  <1>4. Asks(h)
    BY <1>1, <1>2 DEF Asks, Claim, ClaimUnavailable, replies
  <1>5. QED
    BY <1>3, <1>4, ApartIsTurn, TurnKeeps

LEMMA LastTalks ==
    ASSUME IInv, LInv, NEW h \in Handlers,
           Resolve(h) \/ SaveChoice(h) \/ Enter(h) \/ SaveContext(h) \/ Answer(h)
    PROVE  LInv'
  <1>1. TypeOK /\ h[1] \in Messages
    BY HandlerIs DEF IInv
  <1>2. Talks(h) /\ \A g \in Handlers \ {h} : run'[g] = run[g]
    <2>1. CASE Resolve(h)
      <3>1. CASE \E enter \in registered : run' = [run EXCEPT ![h] = [stage |-> "entering", at |-> enter, child |-> None]]
        <4>1. PICK enter \in registered :
                run' = [run EXCEPT ![h] = [stage |-> "entering", at |-> enter, child |-> None]]
          BY <3>1
        <4>2. [stage |-> "entering", at |-> enter, child |-> None] \in Runs
          BY <1>1, <4>1 DEF TypeOK, Runs, Stages
        <4>3. QED
          BY <1>1, <2>1, <4>1, <4>2, RunIs DEF Talks, Resolve, CommandStages
      <3>2. CASE \E s \in {"choosing", "replying"} : run' = [run EXCEPT ![h].stage = s]
        <4>1. PICK s \in {"choosing", "replying"} : run' = [run EXCEPT ![h].stage = s]
          BY <3>2
        <4>2. s \in Stages
          BY DEF Stages
        <4>3. QED
          BY <1>1, <2>1, <4>1, <4>2, StageMoves DEF Moves, Talks, Resolve, CommandStages
      <3>3. QED
        BY <2>1, <3>1, <3>2 DEF Resolve
    <2>2. CASE SaveChoice(h)
      <3>1. Goes(h, "choosing", "replying") /\ "replying" \in Stages
        BY <2>2 DEF SaveChoice, Stages
      <3>2. QED
        BY <3>1, GoesIs DEF Talks, CommandStages
    <2>3. CASE Enter(h)
      <3>1. run[h].stage = "entering" /\ run[h].at \in Coachings
        <4>1. JobFits(h[1]) /\ run[h].stage = "entering"
          BY <1>1, <2>3 DEF Enter, IInv, Good
        <4>2. h[2] \in Vias /\ h = <<h[1], h[2]>>
          BY HandlerIs
        <4>3. QED
          BY <4>1, <4>2 DEF JobFits
      <3>2. PICK s \in {"closing", "picking", "prompting", "answering"} : Moves(h, s)
        BY <1>1, <2>3, <3>1, EnterIs
      <3>3. QED
        BY <3>1, <3>2 DEF Moves, Talks, CommandStages
    <2>4. CASE SaveContext(h)
      <3>1. run' = [run EXCEPT ![h].stage = "closing"] /\ "closing" \in Stages
        BY <2>4 DEF SaveContext, Stages
      <3>2. Moves(h, "closing")
        BY <1>1, <3>1, StageMoves
      <3>3. QED
        BY <2>4, <3>2 DEF SaveContext, Moves, Talks, CommandStages
    <2>5. CASE Answer(h)
      <3>1. Goes(h, "answering", "closing") /\ "closing" \in Stages
        BY <2>5 DEF Answer, Stages
      <3>2. QED
        BY <3>1, GoesIs DEF Talks, CommandStages
    <2>6. QED
      BY <2>1, <2>2, <2>3, <2>4, <2>5
  <1>3. Apart(h)
    BY <1>1, <1>2
    DEF Apart, Resolve, SaveChoice, Enter, SaveContext, Answer, Answered, TypeOK, inbox, replies
  <1>4. QED
    BY <1>2, <1>3, ApartIsTurn, TurnKeeps

LEMMA LastReplies ==
    ASSUME IInv, LInv, NEW h \in Handlers, Reply(h)
    PROVE  LInv'
  <1>1. TypeOK /\ h[1] \in Messages
    BY HandlerIs DEF IInv
  <1>2. /\ run[h].stage = "replying" /\ run'[h].stage = "closing"
        /\ \A g \in Handlers \ {h} : run'[g] = run[g]
    <2>1. Goes(h, "replying", "closing") /\ "closing" \in Stages
      BY DEF Reply, Stages
    <2>2. QED
      BY <2>1, GoesIs
  <1>3. Apart(h)
    BY <1>1, <1>2 DEF Apart, Reply, Answered, TypeOK, inbox
  <1>4. Replies(h)
    BY <1>1, <1>2 DEF Replies, Reply, Answered, TypeOK
  <1>5. QED
    BY <1>3, <1>4, ApartIsTurn, TurnKeeps

LEMMA LastEnds ==
    ASSUME IInv, LInv, NEW h \in Handlers, Close(h) \/ Throw(h) \/ Die(h)
    PROVE  LInv'
  <1>1. TypeOK /\ h[1] \in Messages
    BY HandlerIs DEF IInv
  <1>2. Idle \in Runs
    BY DEF Idle, Runs, Stages
  <1>3. /\ run[h].stage # "idle" /\ run'[h].stage = "idle"
        /\ \A g \in Handlers \ {h} : run'[g] = run[g]
    BY <1>1, <1>2, RunIs DEF Close, Throw, Die, Idle
  <1>4. Apart(h)
    BY <1>1, <1>3 DEF Apart, Close, Throw, Die, Released, inbox, replies
  <1>5. Talks(h) \/ Ends(h)
    <2>1. CASE Close(h)
      BY <1>3, <2>1 DEF Ends, Close, replies
    <2>2. CASE Throw(h)
      BY <1>3, <2>2 DEF Ends, Talks, Throw, replies, CommandStages
    <2>3. CASE Die(h)
      BY <1>3, <2>3 DEF Ends, Die, replies
    <2>4. QED
      BY <2>1, <2>2, <2>3
  <1>6. QED
    BY <1>4, <1>5, ApartIsTurn, TurnKeeps

LEMMA LastWebhook ==
    ASSUME IInv, LInv, NEW m \in Messages, Webhook(m)
    PROVE  LInv'
  <1>1. /\ UNCHANGED <<sent, rushed, run, answers, silent, claims, undeduped, hurt, optedOut>>
        /\ delivered' = delivered \cup {m} /\ m \in DOMAIN sent
    BY DEF Webhook, Called, replies
  <1>2. Frame(m)
    BY <1>1 DEF Frame
  <1>3. Commanded(m)'
    BY <1>1 DEF LInv, Commanded, Said, Clean, Working
  <1>4. Past(m)' <=> Past(m)
    BY <1>1 DEF Past
  <1>5. QED
    BY <1>1, <1>2, <1>3, <1>4, Unobeyed

LEMMA LastStays ==
    ASSUME LInv,
           UNCHANGED <<sent, rushed, delivered, run, answers, silent, claims, undeduped, hurt, optedOut>>
    PROVE  LInv'
  <1>1. Said' = Said /\ (HasLast' <=> HasLast)
    BY DEF Said, HasLast
  <1>2. \A m \in Messages : Commanded(m)'
    BY <1>1 DEF LInv, Commanded, Handled, Clean, Working
  <1>3. Ordered'
    BY <1>1 DEF LInv, Ordered, Clean, Past
  <1>4. Latest'
    BY <1>1 DEF LInv, Latest, Clean, Past
  <1>5. QED
    BY <1>1, <1>2, <1>3, <1>4 DEF LInv

\* A message that is open no longer was obeyed, if it is a command and nothing went wrong
LEMMA SettledIsPast ==
    ASSUME IInv, NEW m \in Messages, m \in delivered, ~Open(m), m \notin hurt
    PROVE  Past(m)
  <1>1. Carried(m) /\ job[m] # "waiting" /\ \A via \in Vias : run[<<m, via>>].stage = "idle"
    BY DEF IInv, Good, Open, Handled
  <1>2. Done(m)
    BY <1>1 DEF Carried, Working
  <1>3. QED
    BY <1>2 DEF Done, Past

LEMMA LastSend ==
    ASSUME IInv, LInv, NEW b \in Bodies, Send(b)
    PROVE  LInv'
  <1>1. /\ sent \in Seq(Bodies) /\ DOMAIN sent = 1..Len(sent) /\ Len(sent) \in Nat
        /\ DOMAIN sent \subseteq Messages /\ Said \subseteq DOMAIN sent
    BY SaidType
  <1>2. PICK n \in Nat : n = Len(sent) + 1
    BY <1>1
  <1>3. /\ n \notin DOMAIN sent /\ DOMAIN sent' = DOMAIN sent \cup {n} /\ sent'[n] = b
        /\ Len(sent') = n /\ \A k \in DOMAIN sent : sent'[k] = sent[k] /\ k < n
    BY <1>1, <1>2 DEF Send
  <1>4. n \in Messages /\ n <= MaxMessages
    BY <1>1, <1>2, BoundAssumption DEF Send, Messages
  <1>5. UNCHANGED <<delivered, run, answers, silent, claims, undeduped, hurt, optedOut>>
    BY DEF Send, replies
  <1>6. Said' = IF b \in Commands THEN Said \cup {n} ELSE Said
    BY <1>1, <1>3 DEF Said
  <1>7. /\ n \notin delivered /\ ~Handled(n) /\ answers[n] = 0 /\ n \notin silent
    BY <1>3, <1>4 DEF LInv, Commanded
  <1>8. \A k \in Messages : (Past(k)' <=> Past(k)) /\ (Clean(k)' <=> Clean(k))
    BY <1>5 DEF Past, Clean
  <1>9. ~Past(n)
    BY <1>7 DEF Past, Handled
  <1>10. \A m \in Messages : Commanded(m)'
    <2>1. SUFFICES ASSUME NEW m \in Messages PROVE Commanded(m)'
      OBVIOUS
    <2>2. CASE m = n
      <3>1. \A via \in Vias : run'[<<n, via>>].stage = "idle"
        BY <1>5, <1>7 DEF Handled
      <3>2. n \notin silent' /\ n \in DOMAIN sent'
        BY <1>3, <1>5, <1>7
      <3>3. QED
        BY <2>2, <3>1, <3>2 DEF Commanded, CommandStages
    <2>3. CASE m # n
      <3>1. /\ m \in Said' <=> m \in Said
            /\ m \in DOMAIN sent' <=> m \in DOMAIN sent
        BY <1>3, <1>6, <2>3
      <3>2. QED
        BY <1>5, <3>1 DEF LInv, Commanded, Handled, Clean, Working
    <2>4. QED
      BY <2>2, <2>3
  <1>11. rushed' \ {n} = rushed \ {n}
    BY <1>2 DEF Send
  <1>12. Ordered'
    <2>1. SUFFICES ASSUME NEW k \in Said' \ rushed', NEW m \in Said', m < k, Clean(m)'
                   PROVE  Past(m)'
      BY DEF Ordered
    <2>2. m # n /\ m \in Said /\ m \in Messages /\ Clean(m)
      BY <1>1, <1>3, <1>6, <1>8, <2>1
    <2>3. CASE k = n
      <3>1. ~Open(m)
        BY <1>1, <1>2, <2>1, <2>2, <2>3 DEF Send
      <3>2. Past(m)
        BY <2>2, <3>1, SettledIsPast DEF Open, Clean
      <3>3. QED
        BY <1>8, <2>2, <3>2
    <2>4. CASE k # n
      BY <1>6, <1>8, <1>11, <2>1, <2>2, <2>4 DEF LInv, Ordered
    <2>5. QED
      BY <2>3, <2>4
  <1>13. Latest'
    <2>1. SUFFICES ASSUME \A k \in Said' : Clean(k)' /\ k \notin rushed',
                          NEW m \in Said', Past(m)', \A k \in Said' : k > m => ~Past(k)'
                   PROVE  optedOut' <=> sent'[m] = "stop"
      BY DEF Latest
    <2>2. m # n /\ m \in Said /\ sent'[m] = sent[m] /\ Past(m)
      BY <1>1, <1>3, <1>4, <1>6, <1>8, <1>9, <2>1
    <2>3. \A k \in Said : Clean(k) /\ k \notin rushed /\ (k > m => ~Past(k))
      BY <1>1, <1>3, <1>6, <1>8, <1>11, <2>1
    <2>4. QED
      BY <1>5, <2>2, <2>3 DEF LInv, Latest
  <1>14. HasLast'
    BY <1>1, <1>3, <1>6 DEF LInv, HasLast
  <1>15. QED
    BY <1>3, <1>4, <1>10, <1>12, <1>13, <1>14 DEF LInv

LEMMA LastObey ==
    ASSUME IInv, LInv, NEW h \in Handlers, Obey(h)
    PROVE  LInv'
  <1>1. PICK m \in Messages, v \in Vias : h = <<m, v>> /\ h[1] = m
    BY HandlerIs
  <1>2. Goes(h, "obeying", "replying") /\ "replying" \in Stages
    BY DEF Obey, Stages
  <1>3. /\ run[h].stage = "obeying" /\ run'[h].stage = "replying"
        /\ \A g \in Handlers \ {h} : run'[g] = run[g]
    BY <1>2, GoesIs
  <1>4. /\ UNCHANGED <<sent, delivered, rushed, answers, silent, claims, undeduped, hurt>>
        /\ optedOut' = (sent[m] = "stop")
    BY <1>1 DEF Obey, inbox, replies
  <1>5. /\ \A k \in Messages \ {m} : \A via \in Vias : run'[<<k, via>>] = run[<<k, via>>]
        /\ \A via \in Vias \ {v} : run'[<<m, via>>] = run[<<m, via>>]
    BY <1>1, <1>3, HandlerIs
  <1>6. Frame(m)
    BY <1>4, <1>5 DEF Frame
  <1>7. /\ Said' = Said /\ Said \subseteq Nat /\ Said \subseteq Messages
        /\ \A k \in Messages \ {m} : Commanded(k)' /\ (Past(k)' <=> Past(k))
        /\ \A k \in Messages : Clean(k)' <=> Clean(k)
    BY <1>4, <1>6, FrameKeeps, SaidType DEF Clean
  <1>8. Commanded(m) /\ Once(m) /\ m \in Said /\ m \in DOMAIN sent /\ Working(<<m, v>>)
    BY <1>1, <1>3 DEF LInv, IInv, Good, Commanded, Working, Said
  <1>9. Clean(m) => m \notin silent
    BY <1>8 DEF Commanded
  <1>10. Clean(m) => ~Past(m)
    <2>1. SUFFICES ASSUME Clean(m) PROVE ~Past(m)
      OBVIOUS
    <2>2. answers[m] = 0 /\ \A u \in Vias : Working(<<m, u>>) => u = v
      BY <1>8, <2>1 DEF Once, Clean
    <2>3. \A u \in Vias : run[<<m, u>>].stage # "replying"
      BY <1>1, <1>3, <2>2 DEF Working
    <2>4. ~(answers[m] > 0) /\ m \notin silent
      BY <1>9, <2>1, <2>2
    <2>5. QED
      BY <2>3, <2>4 DEF Past
  <1>11. Past(m)'
    BY <1>1, <1>3 DEF Past
  <1>12. Commanded(m)'
    BY <1>1, <1>3, <1>4, <1>5, <1>7, <1>8, <1>9 DEF Commanded, CommandStages
  <1>13. Ordered'
    BY <1>4, <1>7, <1>11 DEF LInv, Ordered
  <1>14. Latest'
    <2>1. SUFFICES ASSUME \A k \in Said : Clean(k) /\ k \notin rushed,
                          NEW k \in Said, Past(k)', \A j \in Said : j > k => ~Past(j)'
                   PROVE  optedOut' <=> sent[k] = "stop"
      BY <1>4, <1>7 DEF Latest
    <2>2. ~(m > k)
      BY <1>8, <1>11, <2>1
    <2>3. CASE m < k
      <3>1. Past(m)
        BY <1>8, <2>1, <2>3 DEF LInv, Ordered
      <3>2. QED
        BY <1>8, <1>10, <2>1, <3>1
    <2>4. CASE m = k
      BY <1>4, <2>4
    <2>5. m < k \/ m = k
      <3>1. m \in Nat /\ k \in Nat
        BY <1>7, <1>8
      <3>2. QED
        BY <2>2, <3>1
    <2>6. QED
      BY <2>3, <2>4, <2>5
  <1>15. HasLast' /\ Len(sent') <= MaxMessages
    BY <1>4, <1>7 DEF LInv, HasLast
  <1>16. QED
    BY <1>7, <1>12, <1>13, <1>14, <1>15 DEF LInv

LEMMA LastInit == Init => LInv
  <1>1. SUFFICES ASSUME Init PROVE LInv
    OBVIOUS
  <1>2. sent = <<>> /\ Said = {} /\ Len(sent) = 0
    BY <1>1 DEF Init, Said
  <1>3. \A m \in Messages, via \in Vias : run[<<m, via>>].stage = "idle"
    BY <1>1 DEF Init, Idle, Handlers
  <1>4. \A m \in Messages : Commanded(m)
    BY <1>1, <1>2, <1>3 DEF Init, Commanded, Handled, CommandStages
  <1>5. QED
    BY <1>2, <1>4, BoundAssumption DEF LInv, Ordered, Latest, HasLast

LEMMA LastNext == IInv /\ LInv /\ [Next]_vars => LInv'
  <1>1. SUFFICES ASSUME IInv, LInv, [Next]_vars PROVE LInv'
    OBVIOUS
  <1>2. CASE \E b \in Bodies : Send(b)
    BY <1>1, <1>2, LastSend
  <1>3. CASE \E m \in Messages : Webhook(m) \/ WebhookWithoutQueue(m) \/ Take(m)
    BY <1>1, <1>3, LastWebhook, LastBegins
  <1>4. CASE \E h \in Handlers : Step(h) \/ ClaimUnavailable(h) \/ Throw(h) \/ Die(h)
    <2>1. PICK h \in Handlers : Step(h) \/ ClaimUnavailable(h) \/ Throw(h) \/ Die(h)
      BY <1>4
    <2>2. CASE Claim(h) \/ ClaimUnavailable(h)
      BY <1>1, <2>2, LastAsks
    <2>3. CASE Obey(h)
      BY <1>1, <2>3, LastObey
    <2>4. CASE Resolve(h) \/ SaveChoice(h) \/ Enter(h) \/ SaveContext(h) \/ Answer(h)
      BY <1>1, <2>4, LastTalks
    <2>5. CASE Reply(h)
      BY <1>1, <2>5, LastReplies
    <2>6. CASE Close(h) \/ Throw(h) \/ Die(h)
      BY <1>1, <2>6, LastEnds
    <2>7. QED
      BY <2>1, <2>2, <2>3, <2>4, <2>5, <2>6 DEF Step
  <1>5. CASE Forget \/ UNCHANGED vars
    BY <1>1, <1>5, LastStays DEF Forget, vars, inbox, replies
  <1>6. QED
    BY <1>1, <1>2, <1>3, <1>4, <1>5 DEF Next

\* When all is quiet the person's row says what the last STOP or START asks for, whatever
\* came again in between (handleStopStart behind the claim of handleInboundMessage).
THEOREM LastWordHolds == Spec => []LastWordCounts
  <1>1. IInv /\ LInv => LastWordCounts
    <2>1. SUFFICES ASSUME IInv, LInv, Said # {},
                          \A m \in Said : Settled(m) /\ m \notin hurt \cup undeduped \cup rushed
                   PROVE  optedOut = (sent[CHOOSE m \in Said : \A k \in Said : k <= m] = "stop")
      BY DEF LastWordCounts, Said
    <2>2. PICK last : last = CHOOSE m \in Said : \A k \in Said : k <= m
      OBVIOUS
    <2>3. last \in Said /\ \A k \in Said : k <= last
      BY <2>1, <2>2 DEF LInv, HasLast
    <2>4. last \in Messages /\ Said \subseteq Nat
      BY <2>1, <2>3, SaidType
    <2>5. Past(last)
      BY <2>1, <2>3, <2>4, SettledIsPast DEF Settled, Open
    <2>6. optedOut <=> sent[last] = "stop"
      BY <2>1, <2>3, <2>4, <2>5 DEF LInv, Latest, Clean
    <2>7. optedOut \in BOOLEAN
      BY <2>1 DEF IInv, TypeOK
    <2>8. QED
      BY <2>2, <2>6, <2>7
  <1>2. QED
    BY <1>1, InitOK, NextOK, LastInit, LastNext, PTL DEF Spec

=============================================================================
