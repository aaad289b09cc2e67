------------------------- MODULE WhatsAppAssistant -------------------------
(***************************************************************************)
(* The messages one person sends to the WhatsApp number that all           *)
(* institutes share, from the provider's webhook (notification.controller) *)
(* through the inbound queue (inbound-whatsapp.worker) to the assistant    *)
(* (modules/whatsapp-assistant): the claim that makes it handle a message  *)
(* once, STOP and START, the choice among institutes and children, the     *)
(* answer.  Handlers of different messages interleave at every await.      *)
(* What an answer says, and replies about fees or marks, are left out.     *)
(***************************************************************************)
EXTENDS Integers, Sequences, FiniteSets, TLC

CONSTANTS
    Menu,          \* institutes, sorted by name
    ChildrenOf,    \* the person's children at each of them
    Number,        \* texts that are numbers, and which
    None,          \* nothing remembered
    Awaiting,      \* a conversation that waits for the choice of a child
    Attempts,      \* of a job
    MaxMessages,   \* bound: messages sent
    MaxRepeats,    \* bound: webhook calls that come again
    MaxFaults      \* bound: failures

ASSUME BoundAssumption ==
    /\ Attempts \in Nat \ {0}
    /\ MaxMessages \in Nat /\ MaxRepeats \in Nat /\ MaxFaults \in Nat

Coachings == {Menu[i] : i \in DOMAIN Menu}
Kids(c) == {ChildrenOf[c][i] : i \in DOMAIN ChildrenOf[c]}
Children == UNION {Kids(c) : c \in Coachings}
CoachingOf(s) == CHOOSE c \in Coachings : s \in Kids(c)

\* A child is at one institute
ASSUME PeopleAssumption ==
    /\ None \notin Coachings \cup Children /\ Awaiting \notin Children
    /\ \A c \in Coachings : ChildrenOf[c] \in Seq(Kids(c))
    /\ \A c, d \in Coachings : c # d => Kids(c) \cap Kids(d) = {}

Numbers == DOMAIN Number
Commands == {"stop", "start"}
Bodies == Numbers \cup Commands \cup {"question"}
Messages == 1..MaxMessages
Vias == {"job", "direct"}
Handlers == Messages \X Vias

VARIABLES
    registered,   \* institutes that know the phone number
    sent,         \* the messages' texts
    delivered,    \* messages whose webhook has come
    repeats,      \* webhook calls that came again
    job,          \* its BullMQ job; a completed one is removed at once
    tries,        \* attempts the job has used
    claims,       \* wa:inbound:<message>
    run,          \* what handles it: the job, or the webhook itself
    optedOut,     \* the person's row in whatsapp_opt_outs
    choice,       \* wa:coaching-choice
    context,      \* wa:conv of each institute
    answers,      \* messages sent back for each message
    about,        \* history: the child an answer was about
    picked,       \* history: institutes and children that the person chose
    silent,       \* history: messages whose reply nobody sends
    rushed,       \* history: messages sent while an earlier one was open
    undeduped,    \* history: messages handled without a claim
    hurt,         \* history: messages a failure cut off for good
    faults        \* failures so far

inbox == <<sent, delivered, repeats, rushed>>
queue == <<job, tries>>
memory == <<choice, context, picked>>
replies == <<answers, about, silent>>
vars == <<registered, inbox, queue, claims, run, optedOut, memory, replies, undeduped, hurt, faults>>

Stages == {"idle", "claiming", "obeying", "resolving", "choosing", "entering",
           "prompting", "picking", "answering", "replying", "closing"}
Runs == [stage: Stages, at: Coachings \cup {None}, child: Children \cup {None}]

TypeOK ==
    /\ registered \subseteq Coachings
    /\ sent \in Seq(Bodies)
    /\ delivered \subseteq Messages
    /\ repeats \in 0..MaxRepeats
    /\ job \in [Messages -> {"none", "waiting", "active", "failed"}]
    /\ tries \in [Messages -> 0..Attempts]
    /\ claims \subseteq Messages
    /\ run \in [Handlers -> Runs]
    /\ optedOut \in BOOLEAN
    /\ choice \in picked \cup {None}
    /\ context \in [Coachings -> Children \cup {None, Awaiting}]
    /\ answers \in [Messages -> Nat]
    /\ about \in [Messages -> Children \cup {None}]
    /\ silent \cup rushed \cup undeduped \cup hurt \subseteq Messages
    /\ faults \in 0..MaxFaults

Idle == [stage |-> "idle", at |-> None, child |-> None]

\* An institute chosen earlier may be remembered still, or that a child is to be chosen
Init ==
    /\ registered \in SUBSET Coachings
    /\ sent = <<>>
    /\ delivered = {}
    /\ repeats = 0
    /\ job = [m \in Messages |-> "none"]
    /\ tries = [m \in Messages |-> 0]
    /\ claims = {}
    /\ run = [h \in Handlers |-> Idle]
    /\ optedOut = FALSE
    /\ choice \in IF Cardinality(registered) > 1 THEN registered \cup {None} ELSE {None}
    /\ context \in {x \in [Coachings -> {None, Awaiting}] :
           \A c \in Coachings : x[c] = Awaiting => c \in registered /\ Len(ChildrenOf[c]) > 1}
    /\ answers = [m \in Messages |-> 0]
    /\ about = [m \in Messages |-> None]
    /\ picked = {choice} \ {None}
    /\ silent = {} /\ rushed = {} /\ undeduped = {} /\ hurt = {}
    /\ faults = 0

Fault == faults < MaxFaults /\ faults' = faults + 1

Handled(m) == \E via \in Vias : run[<<m, via>>].stage # "idle"
Open(m) == m \notin delivered \/ job[m] = "waiting" \/ Handled(m)
Goes(h, from, to) == run[h].stage = from /\ run' = [run EXCEPT ![h].stage = to]

-----------------------------------------------------------------------------
(* The person, the provider and the queue *)

Send(b) ==
    /\ Len(sent) < MaxMessages
    /\ sent' = Append(sent, b)
    /\ rushed' = IF \E m \in DOMAIN sent : Open(m) THEN rushed \cup {Len(sent) + 1} ELSE rushed
    /\ UNCHANGED <<registered, delivered, repeats, queue, claims, run, optedOut, memory, replies, undeduped, hurt, faults>>

Called(m) ==
    /\ m \in DOMAIN sent
    /\ delivered' = delivered \cup {m}
    /\ IF m \in delivered THEN repeats < MaxRepeats /\ repeats' = repeats + 1 ELSE UNCHANGED repeats

\* A job id that the queue still knows is not added again
Added(m) ==
    /\ job' = [job EXCEPT ![m] = IF @ = "none" THEN "waiting" ELSE @]
    /\ tries' = [tries EXCEPT ![m] = IF job[m] = "none" THEN 0 ELSE @]

Webhook(m) ==
    /\ Called(m)
    /\ Added(m)
    /\ UNCHANGED <<registered, sent, rushed, claims, run, optedOut, memory, replies, undeduped, hurt, faults>>

\* queue.add throws, perhaps after it added the job: the webhook handles the message itself
WebhookWithoutQueue(m) ==
    /\ Called(m)
    /\ Added(m) \/ UNCHANGED queue
    /\ Goes(<<m, "direct">>, "idle", "claiming")
    /\ Fault
    /\ UNCHANGED <<registered, sent, rushed, claims, optedOut, memory, replies, undeduped, hurt>>

Take(m) ==
    /\ job[m] = "waiting"
    /\ job' = [job EXCEPT ![m] = "active"]
    /\ tries' = [tries EXCEPT ![m] = @ + 1]
    /\ Goes(<<m, "job">>, "idle", "claiming")
    /\ UNCHANGED <<registered, inbox, claims, optedOut, memory, replies, undeduped, hurt, faults>>

-----------------------------------------------------------------------------
(* processInboundMessage *)

\* Mutant: no claim, the job's id alone
GrantedAlways(m) == TRUE
Granted(m) == m \notin claims

AfterClaim(m) == IF sent[m] \in Commands THEN "obeying" ELSE "resolving"

Claim(h) ==
    /\ Goes(h, "claiming", IF Granted(h[1]) THEN AfterClaim(h[1]) ELSE "closing")
    /\ claims' = claims \cup {h[1]}
    /\ UNCHANGED <<registered, inbox, queue, optedOut, memory, replies, undeduped, hurt, faults>>

\* Without Redis the message is handled without a claim
ClaimUnavailable(h) ==
    /\ Goes(h, "claiming", AfterClaim(h[1]))
    /\ undeduped' = undeduped \cup {h[1]}
    /\ Fault
    /\ UNCHANGED <<registered, inbox, queue, claims, optedOut, memory, replies, hurt>>

\* STOP and START work for everybody
Obey(h) ==
    /\ Goes(h, "obeying", "replying")
    /\ optedOut' = (sent[h[1]] = "stop")
    /\ UNCHANGED <<registered, inbox, queue, claims, memory, replies, undeduped, hurt, faults>>

Options == SelectSeq(Menu, LAMBDA c : c \in registered)
PickedFrom(seq, b) == b \in Numbers /\ Number[b] \in DOMAIN seq

\* One institute, the one remembered, or a reply before any is known
Resolve(h) ==
    /\ run[h].stage = "resolving"
    /\ \/ \E enter \in {c \in registered : Cardinality(registered) = 1 \/ c = choice} :
             run' = [run EXCEPT ![h] = [stage |-> "entering", at |-> enter, child |-> None]]
       \/ /\ Cardinality(registered) # 1 /\ choice \notin registered
          /\ run' = [run EXCEPT ![h].stage =
                 IF registered # {} /\ PickedFrom(Options, sent[h[1]]) THEN "choosing" ELSE "replying"]
    /\ UNCHANGED <<registered, inbox, queue, claims, optedOut, memory, replies, undeduped, hurt, faults>>

SaveChoice(h) ==
    /\ Goes(h, "choosing", "replying")
    /\ LET c == Options[Number[sent[h[1]]]] IN choice' = c /\ picked' = picked \cup {c}
    /\ UNCHANGED <<registered, inbox, queue, claims, optedOut, context, replies, undeduped, hurt, faults>>

\* Mutant: the first child stands for all
OnlyChildFirst(kids) == kids # <<>>
OnlyChild(kids) == Len(kids) = 1

\* The conversation as it is now decides whether a child was picked, is known, or must be asked for
Enter(h) ==
    /\ run[h].stage = "entering"
    /\ LET c == run[h].at
           kids == ChildrenOf[c]
           picks == context[c] = Awaiting /\ PickedFrom(kids, sent[h[1]])
           known == context[c] \in Children
           child == CASE picks -> kids[Number[sent[h[1]]]]
                      [] ~picks /\ known -> context[c]
                      [] ~picks /\ ~known /\ OnlyChild(kids) -> kids[1]
                      [] OTHER -> None
           next == CASE kids = <<>> -> "closing"
                     [] kids # <<>> /\ picks -> "picking"
                     [] kids # <<>> /\ ~picks /\ child = None -> "prompting"
                     [] OTHER -> "answering"
       IN /\ run' = [run EXCEPT ![h] = [stage |-> next, at |-> c, child |-> IF kids = <<>> THEN None ELSE child]]
          /\ silent' = IF kids = <<>> THEN silent \cup {h[1]} ELSE silent
    /\ UNCHANGED <<registered, inbox, queue, claims, optedOut, memory, answers, about, undeduped, hurt, faults>>

\* The question which child, and the confirmation: returned as replies, but neither
\* published nor marked to be sent directly
SaveContext(h) ==
    /\ run[h].stage \in {"prompting", "picking"}
    /\ LET known == run[h].child # None
       IN /\ context' = [context EXCEPT ![run[h].at] = IF known THEN run[h].child ELSE Awaiting]
          /\ picked' = IF known THEN picked \cup {run[h].child} ELSE picked
    /\ run' = [run EXCEPT ![h].stage = "closing"]
    /\ silent' = silent \cup {h[1]}
    /\ UNCHANGED <<registered, inbox, queue, claims, optedOut, choice, answers, about, undeduped, hurt, faults>>

Answered(m) == answers' = [answers EXCEPT ![m] = @ + 1]

\* The answer goes out through the event and the notification queue
Answer(h) ==
    /\ Goes(h, "answering", "closing")
    /\ Answered(h[1])
    /\ about' = [about EXCEPT ![h[1]] = run[h].child]
    /\ UNCHANGED <<registered, inbox, queue, claims, optedOut, memory, silent, undeduped, hurt, faults>>

\* Other replies are sent by the worker; the webhook drops what it gets back
Reply(h) ==
    /\ Goes(h, "replying", "closing")
    /\ IF h[2] = "job" THEN Answered(h[1]) /\ UNCHANGED silent
       ELSE silent' = silent \cup {h[1]} /\ UNCHANGED answers
    /\ UNCHANGED <<registered, inbox, queue, claims, optedOut, memory, about, undeduped, hurt, faults>>

\* removeOnComplete
Close(h) ==
    /\ run[h].stage = "closing"
    /\ run' = [run EXCEPT ![h] = Idle]
    /\ job' = IF h[2] = "job" THEN [job EXCEPT ![h[1]] = "none"] ELSE job
    /\ UNCHANGED <<registered, inbox, tries, claims, optedOut, memory, replies, undeduped, hurt, faults>>

Step(h) ==
    \/ Claim(h) \/ Obey(h) \/ Resolve(h) \/ SaveChoice(h) \/ Enter(h)
    \/ SaveContext(h) \/ Answer(h) \/ Reply(h) \/ Close(h)

-----------------------------------------------------------------------------
(* Failures and time *)

\* Mutant: the claim of a message that failed is kept
ReleasedNever(m) == claims
Released(m) == claims \ {m}

\* A query throws: the claim is given back and the queue tries again, up to its attempts
Throw(h) ==
    /\ run[h].stage \in {"obeying", "resolving", "entering", "answering"}
    /\ run' = [run EXCEPT ![h] = Idle]
    /\ claims' = Released(h[1])
    /\ LET again == h[2] = "job" /\ tries[h[1]] < Attempts
       IN /\ job' = IF h[2] = "direct" THEN job
                    ELSE [job EXCEPT ![h[1]] = IF again THEN "waiting" ELSE "failed"]
          /\ hurt' = IF again THEN hurt ELSE hurt \cup {h[1]}
    /\ Fault
    /\ UNCHANGED <<registered, inbox, tries, optedOut, memory, replies, undeduped>>

\* A process dies: its job is stalled and taken again, but the claim stays; a webhook's
\* own handling is gone
Die(h) ==
    /\ run[h].stage # "idle"
    /\ run' = [run EXCEPT ![h] = Idle]
    /\ job' = IF h[2] = "job" THEN [job EXCEPT ![h[1]] = "waiting"] ELSE job
    /\ tries' = [tries EXCEPT ![h[1]] = IF h[2] = "job" THEN @ - 1 ELSE @]
    /\ hurt' = IF h[2] = "job" /\ run[h].stage = "claiming" THEN hurt ELSE hurt \cup {h[1]}
    /\ Fault
    /\ UNCHANGED <<registered, inbox, claims, optedOut, memory, replies, undeduped>>

\* Conversations are forgotten after a day, choices after thirty; a handler needs seconds
Forget ==
    /\ \A m \in Messages : ~Handled(m)
    /\ \/ choice # None /\ choice' = None /\ UNCHANGED context
       \/ \E c \in Coachings : context[c] # None /\ context' = [context EXCEPT ![c] = None] /\ UNCHANGED choice
    /\ UNCHANGED <<registered, inbox, queue, claims, run, optedOut, picked, replies, undeduped, hurt, faults>>

Next ==
    \/ \E b \in Bodies : Send(b)
    \/ \E m \in Messages : Webhook(m) \/ WebhookWithoutQueue(m) \/ Take(m)
    \/ \E h \in Handlers : Step(h) \/ ClaimUnavailable(h) \/ Throw(h) \/ Die(h)
    \/ Forget

Spec == Init /\ [][Next]_vars

-----------------------------------------------------------------------------
(* Properties *)

\* However often the webhook comes, and whether the queue or the webhook handles it,
\* a message is answered once, as long as the claim can be asked for.
AnsweredOnce == \A m \in Messages : answers[m] > 1 => m \in undeduped

Settled(m) == m \in DOMAIN sent /\ ~Open(m)

\* A message that was delivered and is handled no longer got an answer, unless its
\* reply is one that nobody sends, its process died, or every attempt failed.
HandledIsAnswered ==
    \A m \in Messages :
        Settled(m) /\ m \notin silent \cup hurt => answers[m] > 0

\* When all is quiet the last STOP or START counts, if the person waited for the one
\* before it: no webhook that comes again turns it back.
LastWordCounts ==
    LET said == {m \in DOMAIN sent : sent[m] \in Commands}
    IN /\ said # {} /\ \A m \in said : Settled(m) /\ m \notin hurt \cup undeduped \cup rushed
       => optedOut = (sent[CHOOSE m \in said : \A k \in said : k <= m] = "stop")

\* An answer is about a child at an institute that knows the person; where there
\* are several institutes or several children, about one that the person chose.
RightChild ==
    \A m \in Messages : about[m] # None =>
        LET c == CoachingOf(about[m])
        IN /\ c \in registered
           /\ Cardinality(registered) = 1 \/ c \in picked
           /\ Len(ChildrenOf[c]) = 1 \/ about[m] \in picked

\* Every message that was handled without a failure is answered ("the assistant asks a
\* disambiguating follow-up").
EveryMessageIsAnswered ==
    \A m \in Messages : Settled(m) /\ faults = 0 => answers[m] > 0
=============================================================================
