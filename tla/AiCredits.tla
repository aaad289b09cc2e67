----------------------------- MODULE AiCredits -----------------------------
(***************************************************************************)
(* The credit wallet of one institute (modules/ai): a completion reserves  *)
(* its credits, calls a model provider, gives the credits back if the      *)
(* provider fails, and records what it used.  Each await is a step, so     *)
(* completions interleave at every one of them, a database call may throw  *)
(* before or after it took effect, and a process may die with all the      *)
(* completions it works on.  The prompt cache answers repeated prompts for *)
(* nothing; it forgets at any time (24 h, Redis away, another process).    *)
(***************************************************************************)
EXTENDS Integers, FiniteSetsExt

CONSTANTS
    Requests,         \* completions asked for
    Prompts,          \* feature, prompt and model: what the cache key hashes
    PromptOf,         \* the prompt of each request
    Cost,             \* 1, 2 or 3 credits, by the kind of completion
    InitialBalance,   \* credits of a new institute
    PackCredits,      \* credits of a pack
    MaxPacks,         \* bound: packs bought
    MaxFaults         \* bound: throwing database calls and dying processes

ASSUME RequestAssumption ==
    /\ PromptOf \in [Requests -> Prompts]
    /\ Cost \in [Requests -> Nat \ {0}]
ASSUME AmountAssumption ==
    /\ InitialBalance \in Nat
    /\ PackCredits \in Nat \ {0}
    /\ MaxPacks \in Nat
    /\ MaxFaults \in Nat

VARIABLES
    wallet,   \* the row of ai_credit_wallets
    usage,    \* requests with a row in ai_usage_logs
    cache,    \* prompts with a cached completion
    stage,    \* where each request is
    held,     \* credits taken for the request and not given back
    hurt,     \* history: requests that a fault hit
    packs,    \* packs bought
    faults    \* faults so far

vars == <<wallet, usage, cache, stage, held, hurt, packs, faults>>

NoWallet == [exists |-> FALSE, balance |-> 0, allocated |-> 0, consumed |-> 0]
\* The row after its three numbers have moved
Moved(w, left, granted, used) ==
    [exists |-> TRUE, balance |-> w.balance + left,
     allocated |-> w.allocated + granted, consumed |-> w.consumed + used]
Grant(w, n) == Moved(w, n, n, 0)

InFlight == {"creating", "looking", "reserving", "calling", "refunding", "logging", "storing", "answering"}
Over == {"answered", "refused", "failed", "lost"}
Stage == {"new"} \cup InFlight \cup Over

Wallets == [exists: BOOLEAN, balance: Int, allocated: Nat, consumed: Int]

TypeOK ==
    /\ wallet \in Wallets
    /\ usage \in SUBSET Requests
    /\ cache \in SUBSET Prompts
    /\ stage \in [Requests -> Stage]
    /\ held \in [Requests -> BOOLEAN]
    /\ hurt \in SUBSET Requests
    /\ packs \in Nat
    /\ faults \in Nat

\* Registration creates the wallet; institutes from before it have none
Init ==
    /\ wallet \in {NoWallet, Grant(NoWallet, InitialBalance)}
    /\ usage = {}
    /\ cache = {}
    /\ stage = [r \in Requests |-> "new"]
    /\ held = [r \in Requests |-> FALSE]
    /\ hurt = {}
    /\ packs = 0
    /\ faults = 0

Goes(r, from, to) ==
    /\ stage[r] = from
    /\ stage' = [stage EXCEPT ![r] = to]

-----------------------------------------------------------------------------
(* The wallet *)

Take(w, n) == Moved(w, -n, 0, n)
\* Mutant: the refund forgets the counter of consumed credits
GiveBackHalf(w, n) == Moved(w, n, 0, 0)
GiveBack(w, n) == Moved(w, n, 0, -n)

\* Mutant: the UPDATE without its condition, as after a check made earlier
CoversUnchecked(w, n) == w.exists
Covers(w, n) == w.balance >= n

\* The settlement of a payment credits the pack in its transaction (an upsert)
BuyPack ==
    /\ packs < MaxPacks
    /\ packs' = packs + 1
    /\ wallet' = Grant(wallet, PackCredits)
    /\ UNCHANGED <<usage, cache, stage, held, hurt, faults>>

-----------------------------------------------------------------------------
(* A completion *)

\* createOrGetWallet: what findUnique finds
FindWallet(r) ==
    /\ Goes(r, "new", IF wallet.exists THEN "looking" ELSE "creating")
    /\ UNCHANGED <<wallet, usage, cache, held, hurt, packs, faults>>

\* coachingId is unique: whoever creates the wallet second fails
CreateWallet(r) ==
    /\ Goes(r, "creating", IF wallet.exists THEN "failed" ELSE "looking")
    /\ wallet' = IF wallet.exists THEN wallet ELSE Grant(NoWallet, InitialBalance)
    /\ UNCHANGED <<usage, cache, held, hurt, packs, faults>>

\* A hit answers for nothing
LookUp(r) ==
    /\ Goes(r, "looking", IF PromptOf[r] \in cache THEN "answered" ELSE "reserving")
    /\ UNCHANGED <<wallet, usage, cache, held, hurt, packs, faults>>

\* The row and the request after the conditional UPDATE
Reserved(r) ==
    /\ Covers(wallet, Cost[r])
    /\ wallet' = Take(wallet, Cost[r])
    /\ held' = [held EXCEPT ![r] = TRUE]

Reserve(r) ==
    /\ Goes(r, "reserving", "calling")
    /\ Reserved(r)
    /\ UNCHANGED <<usage, cache, hurt, packs, faults>>

\* The UPDATE matched no row: 402
Refuse(r) ==
    /\ Goes(r, "reserving", "refused")
    /\ ~Covers(wallet, Cost[r])
    /\ UNCHANGED <<wallet, usage, cache, held, hurt, packs, faults>>

\* Mutant: a provider's error goes straight to the caller
AfterErrorThrow == {"logging", "failed"}
AfterProvider == {"logging", "refunding"}

\* The provider answers, or its adapter throws
Provider(r) ==
    /\ \E next \in AfterProvider : Goes(r, "calling", next)
    /\ UNCHANGED <<wallet, usage, cache, held, hurt, packs, faults>>

Refunded(r) ==
    /\ wallet' = GiveBack(wallet, Cost[r])
    /\ held' = [held EXCEPT ![r] = FALSE]

Refund(r) ==
    /\ Goes(r, "refunding", "failed")
    /\ Refunded(r)
    /\ UNCHANGED <<usage, cache, hurt, packs, faults>>

LogUsage(r) ==
    /\ Goes(r, "logging", "storing")
    /\ usage' = usage \cup {r}
    /\ UNCHANGED <<wallet, cache, held, hurt, packs, faults>>

\* Never throws: without Redis the process remembers the completion itself
StoreInCache(r) ==
    /\ Goes(r, "storing", "answering")
    /\ cache' = cache \cup {PromptOf[r]}
    /\ UNCHANGED <<wallet, usage, held, hurt, packs, faults>>

\* The two events, whose publication never throws, and the answer
Answer(r) ==
    /\ Goes(r, "answering", "answered")
    /\ UNCHANGED <<wallet, usage, cache, held, hurt, packs, faults>>

Step(r) ==
    \/ FindWallet(r) \/ CreateWallet(r) \/ LookUp(r) \/ Reserve(r) \/ Refuse(r)
    \/ Provider(r) \/ Refund(r) \/ LogUsage(r) \/ StoreInCache(r) \/ Answer(r)

-----------------------------------------------------------------------------
(* Faults and the cache *)

Hurts(S) ==
    /\ faults < MaxFaults
    /\ faults' = faults + 1
    /\ hurt' = hurt \cup S

\* A database call throws and did nothing; a failed refund replaces the provider's error
Throw(r) ==
    /\ stage[r] \in {"new", "creating", "reserving", "refunding", "logging"}
    /\ stage' = [stage EXCEPT ![r] = "failed"]
    /\ Hurts({r})
    /\ UNCHANGED <<wallet, usage, cache, held, packs>>

\* It throws although it took effect, or the read after the conditional UPDATE throws
ThrowLate(r) ==
    /\ \/ /\ stage[r] = "creating"
          /\ ~wallet.exists
          /\ wallet' = Grant(NoWallet, InitialBalance)
          /\ UNCHANGED <<usage, held>>
       \/ stage[r] = "reserving" /\ Reserved(r) /\ UNCHANGED usage
       \/ stage[r] = "refunding" /\ Refunded(r) /\ UNCHANGED usage
       \/ stage[r] = "logging" /\ usage' = usage \cup {r} /\ UNCHANGED <<wallet, held>>
    /\ stage' = [stage EXCEPT ![r] = "failed"]
    /\ Hurts({r})
    /\ UNCHANGED <<cache, packs>>

\* A process dies with all it was working on
Die ==
    /\ \E S \in SUBSET {r \in Requests : stage[r] \in InFlight} :
          /\ S # {}
          /\ stage' = [r \in Requests |-> IF r \in S THEN "lost" ELSE stage[r]]
          /\ Hurts(S)
    /\ UNCHANGED <<wallet, usage, cache, held, packs>>

\* Time to live, Redis away, another process's memory
Forget ==
    /\ \E p \in cache : cache' = cache \ {p}
    /\ UNCHANGED <<wallet, usage, stage, held, hurt, packs, faults>>

Next == BuyPack \/ Die \/ Forget \/ \E r \in Requests : Step(r) \/ Throw(r) \/ ThrowLate(r)

\* A request goes on while its process lives: fetch gives up on a silent provider
Fairness == \A r \in Requests : WF_vars(Step(r))

Spec == Init /\ [][Next]_vars /\ Fairness

-----------------------------------------------------------------------------
(* Properties *)

Charged == {r \in Requests : held[r]}

\* The wallet never goes below zero however many completions check it at once
\* (comment "Conditional decrement: concurrent requests cannot take the balance
\* below zero"), and its three numbers agree.
Solvent ==
    /\ wallet.balance >= 0
    /\ wallet.balance + wallet.consumed = wallet.allocated

\* The wallet is solvent, and what it counts as consumed is what the requests
\* hold: no interleaving of reservations, refunds and packs loses an update.
ConsumedIsHeld ==
    /\ Solvent
    /\ wallet.consumed = MapThenSumSet(LAMBDA r : Cost[r], Charged)

\* Credits buy a completion: whoever is charged in the end got an answer and has
\* a row in the usage log, unless a fault hit the request; what is logged is
\* charged.  A refusal, a cached answer and an error of the provider are free.
ChargeIsExplained ==
    \A r \in Requests :
        /\ r \in usage => held[r]
        /\ stage[r] \in Over /\ held[r] /\ r \notin hurt => stage[r] = "answered" /\ r \in usage

\* A reservation does not stay open: the completion is logged or the credits come
\* back, unless a fault hits the request.
ReservationSettles ==
    \A r \in Requests :
        held[r] /\ r \notin usage ~> r \in usage \/ ~held[r] \/ r \in hurt

\* For its institute the wallet is the account of CreditAccount: one charge for a
\* request at most, given back at most once, both before the request is over.
Account ==
    INSTANCE CreditAccount WITH
        balance <- wallet.balance,
        charged <- Charged,
        over <- {r \in Requests : stage[r] \in Over}

AccountSpec == Account!AccountSpec
=============================================================================
