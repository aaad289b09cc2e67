-------------------------- MODULE AiCreditsProofs --------------------------
(***************************************************************************)
(* Proofs about AiCredits, for any number of requests, any costs, packs    *)
(* and faults: types, the wallet is solvent, every charge is explained,    *)
(* what is consumed is the sum of what the requests hold, and the wallet   *)
(* implements CreditAccount.  The inductive invariant says what each stage *)
(* of a request means for the credits taken for it.                        *)
(***************************************************************************)
EXTENDS AiCredits, Sums

\* What the stage of a request says about its credits and its usage row
StageMeans(r) ==
    /\ stage[r] \in {"new", "creating", "looking", "reserving", "refused"} => ~held[r] /\ r \notin usage
    /\ stage[r] \in {"calling", "refunding", "logging"} => held[r] /\ r \notin usage
    /\ stage[r] \in {"storing", "answering"} => held[r] /\ r \in usage
    /\ stage[r] = "answered" => (held[r] <=> r \in usage)
    /\ stage[r] \in {"failed", "lost"} => (held[r] => r \in hurt) /\ (r \in usage => held[r])

\* An institute without a wallet has nothing, and nothing is taken from it
WalletMeans ==
    /\ ~wallet.exists => wallet = NoWallet
    /\ \A r \in Requests : held[r] => wallet.exists

IInv ==
    /\ TypeOK
    /\ Solvent
    /\ WalletMeans
    /\ \A r \in Requests : StageMeans(r)

-----------------------------------------------------------------------------
(* The wallet row *)

LEMMA TakeWallet ==
    ASSUME NEW w \in Wallets, NEW n \in Nat
    PROVE  /\ Take(w, n) \in Wallets /\ Take(w, n).exists
           /\ Take(w, n).balance = w.balance - n
           /\ Take(w, n).allocated = w.allocated
           /\ Take(w, n).consumed = w.consumed + n
  BY DEF Take, Moved, Wallets

LEMMA GiveBackWallet ==
    ASSUME NEW w \in Wallets, NEW n \in Nat
    PROVE  /\ GiveBack(w, n) \in Wallets /\ GiveBack(w, n).exists
           /\ GiveBack(w, n).balance = w.balance + n
           /\ GiveBack(w, n).allocated = w.allocated
           /\ GiveBack(w, n).consumed = w.consumed - n
  BY DEF GiveBack, Moved, Wallets

LEMMA GrantWallet ==
    ASSUME NEW w \in Wallets, NEW n \in Nat
    PROVE  /\ Grant(w, n) \in Wallets /\ Grant(w, n).exists
           /\ Grant(w, n).balance = w.balance + n
           /\ Grant(w, n).allocated = w.allocated + n
           /\ Grant(w, n).consumed = w.consumed
  BY DEF Grant, Moved, Wallets

LEMMA NoWalletType == NoWallet \in Wallets
  BY DEF NoWallet, Wallets

\* Only a wallet that exists can cover a cost
LEMMA CoveredExists ==
    ASSUME TypeOK, Solvent, WalletMeans, NEW r \in Requests, Covers(wallet, Cost[r])
    PROVE  wallet.exists /\ Cost[r] \in Nat /\ Cost[r] > 0
  <1>1. Cost[r] \in Nat /\ Cost[r] > 0
    BY RequestAssumption
  <1>2. wallet.balance > 0
    BY <1>1 DEF Covers, TypeOK, Wallets
  <1>3. QED
    BY <1>1, <1>2 DEF WalletMeans, NoWallet, TypeOK, Wallets

-----------------------------------------------------------------------------
(* Types *)

LEMMA TypeInit == Init => TypeOK
  <1>1. NoWallet \in Wallets /\ Grant(NoWallet, InitialBalance) \in Wallets
    BY AmountAssumption, GrantWallet, NoWalletType
  <1>2. QED
    BY <1>1 DEF Init, TypeOK, Stage

LEMMA TypeNext == TypeOK /\ [Next]_vars => TypeOK'
  <1> SUFFICES ASSUME TypeOK, [Next]_vars PROVE TypeOK'
    OBVIOUS
  <1> USE DEF TypeOK
  <1>1. CASE BuyPack
    <2>1. wallet' \in Wallets
      BY <1>1, AmountAssumption, GrantWallet, NoWalletType DEF BuyPack
    <2>2. QED
      BY <1>1, <2>1 DEF BuyPack
  <1>2. CASE Die
    <2>1. stage' \in [Requests -> Stage]
      BY <1>2 DEF Die, Stage, Over
    <2>2. hurt' \in SUBSET Requests /\ faults' \in Nat
      BY <1>2 DEF Die, Hurts
    <2>3. QED
      BY <1>2, <2>1, <2>2 DEF Die
  <1>3. CASE Forget
    BY <1>3 DEF Forget
  <1>4. ASSUME NEW r \in Requests, Step(r) PROVE TypeOK'
    <2> USE RequestAssumption
    <2>1. CASE FindWallet(r)
      BY <2>1 DEF FindWallet, Goes, Stage, InFlight
    <2>2. CASE CreateWallet(r)
      BY <2>2, AmountAssumption, GrantWallet, NoWalletType DEF CreateWallet, Goes, Stage, InFlight, Over
    <2>3. CASE LookUp(r)
      BY <2>3 DEF LookUp, Goes, Stage, InFlight, Over
    <2>4. CASE Reserve(r)
      BY <2>4, TakeWallet DEF Reserve, Reserved, Goes, Stage, InFlight
    <2>5. CASE Refuse(r)
      BY <2>5 DEF Refuse, Goes, Stage, Over
    <2>6. CASE Provider(r)
      BY <2>6 DEF Provider, AfterProvider, Goes, Stage, InFlight
    <2>7. CASE Refund(r)
      BY <2>7, GiveBackWallet DEF Refund, Refunded, Goes, Stage, Over
    <2>8. CASE LogUsage(r)
      BY <2>8 DEF LogUsage, Goes, Stage, InFlight
    <2>9. CASE StoreInCache(r)
      BY <2>9 DEF StoreInCache, Goes, Stage, InFlight
    <2>10. CASE Answer(r)
      BY <2>10 DEF Answer, Goes, Stage, Over
    <2>11. QED
      BY <1>4, <2>1, <2>2, <2>3, <2>4, <2>5, <2>6, <2>7, <2>8, <2>9, <2>10 DEF Step
  <1>5. ASSUME NEW r \in Requests, Throw(r) PROVE TypeOK'
    BY <1>5 DEF Throw, Hurts, Stage, Over
  <1>6. ASSUME NEW r \in Requests, ThrowLate(r) PROVE TypeOK'
    <2>1. stage' \in [Requests -> Stage] /\ hurt' \in SUBSET Requests /\ faults' \in Nat
      BY <1>6 DEF ThrowLate, Hurts, Stage, Over
    <2>2. wallet' \in Wallets
      <3>1. Cost[r] \in Nat
        BY RequestAssumption
      <3>2. Take(wallet, Cost[r]) \in Wallets /\ GiveBack(wallet, Cost[r]) \in Wallets
        BY <3>1, TakeWallet, GiveBackWallet
      <3>3. Grant(NoWallet, InitialBalance) \in Wallets
        BY AmountAssumption, GrantWallet, NoWalletType
      <3>4. QED
        BY <1>6, <3>2, <3>3 DEF ThrowLate, Reserved, Refunded
    <2>3. usage' \in SUBSET Requests /\ held' \in [Requests -> BOOLEAN]
      BY <1>6 DEF ThrowLate, Reserved, Refunded
    <2>4. QED
      BY <1>6, <2>1, <2>2, <2>3 DEF ThrowLate
  <1>7. CASE UNCHANGED vars
    BY <1>7 DEF vars
  <1>8. QED
    BY <1>1, <1>2, <1>3, <1>4, <1>5, <1>6, <1>7 DEF Next

\* Every variable keeps its type.
THEOREM TypesHold == Spec => []TypeOK
  BY TypeInit, TypeNext, PTL DEF Spec

-----------------------------------------------------------------------------
(* The inductive invariant *)

LEMMA InitInv == Init => IInv
  <1> SUFFICES ASSUME Init PROVE IInv
    OBVIOUS
  <1>1. InitialBalance \in Nat
    BY AmountAssumption
  <1>2. TypeOK
    BY TypeInit
  <1>3. Solvent /\ WalletMeans
    BY <1>1 DEF Init, Solvent, WalletMeans, NoWallet, Grant, Moved
  <1>4. \A r \in Requests : StageMeans(r)
    BY DEF Init, StageMeans
  <1>5. QED
    BY <1>2, <1>3, <1>4 DEF IInv

\* Credits that stay in place keep the wallet's meaning
LEMMA WalletKept ==
    ASSUME Solvent, WalletMeans, UNCHANGED wallet,
           \A r \in Requests : held'[r] => held[r] \/ wallet.exists
    PROVE  Solvent' /\ WalletMeans'
  BY DEF Solvent, WalletMeans

\* A reservation
LEMMA ReservedInv ==
    ASSUME TypeOK, Solvent, WalletMeans, NEW r \in Requests, Reserved(r)
    PROVE  Solvent' /\ WalletMeans'
  <1>1. wallet.exists /\ Cost[r] \in Nat
    BY CoveredExists DEF Reserved
  <1>2. /\ wallet'.exists
        /\ wallet'.balance = wallet.balance - Cost[r]
        /\ wallet'.allocated = wallet.allocated
        /\ wallet'.consumed = wallet.consumed + Cost[r]
    BY <1>1, TakeWallet DEF Reserved, TypeOK
  <1>3. wallet.balance \in Int /\ wallet.consumed \in Int /\ wallet.allocated \in Int
    BY DEF TypeOK, Wallets
  <1>4. wallet.balance >= Cost[r]
    BY DEF Reserved, Covers
  <1>5. QED
    BY <1>1, <1>2, <1>3, <1>4 DEF Solvent, WalletMeans

\* A refund
LEMMA RefundedInv ==
    ASSUME TypeOK, Solvent, WalletMeans, NEW r \in Requests, Refunded(r)
    PROVE  Solvent' /\ WalletMeans'
  <1>1. Cost[r] \in Nat
    BY RequestAssumption
  <1>2. /\ wallet'.exists
        /\ wallet'.balance = wallet.balance + Cost[r]
        /\ wallet'.allocated = wallet.allocated
        /\ wallet'.consumed = wallet.consumed - Cost[r]
    BY <1>1, GiveBackWallet DEF Refunded, TypeOK
  <1>3. wallet.balance \in Int /\ wallet.consumed \in Int /\ wallet.allocated \in Int
    BY DEF TypeOK, Wallets
  <1>4. QED
    BY <1>1, <1>2, <1>3 DEF Solvent, WalletMeans

\* The first grant, or a pack
LEMMA GrantInv ==
    ASSUME TypeOK, Solvent, WalletMeans, NEW n \in Nat, wallet' = Grant(wallet, n), UNCHANGED held
    PROVE  Solvent' /\ WalletMeans'
  <1>1. /\ wallet'.exists
        /\ wallet'.balance = wallet.balance + n
        /\ wallet'.allocated = wallet.allocated + n
        /\ wallet'.consumed = wallet.consumed
    BY GrantWallet DEF TypeOK
  <1>2. wallet.balance \in Int /\ wallet.consumed \in Int /\ wallet.allocated \in Int
    BY DEF TypeOK, Wallets
  <1>3. QED
    BY <1>1, <1>2 DEF Solvent, WalletMeans

LEMMA InvNext == IInv /\ [Next]_vars => IInv'
  <1> SUFFICES ASSUME IInv, [Next]_vars PROVE IInv'
    OBVIOUS
  <1> USE DEF IInv
  <1>0. TypeOK'
    BY TypeNext
  <1>1. CASE BuyPack
    <2>1. Solvent' /\ WalletMeans'
      BY <1>1, GrantInv, AmountAssumption DEF BuyPack
    <2>2. \A s \in Requests : StageMeans(s)'
      BY <1>1 DEF BuyPack, StageMeans
    <2>3. QED
      BY <1>0, <2>1, <2>2
  <1>2. CASE Die
    <2>1. Solvent' /\ WalletMeans'
      BY <1>2, WalletKept DEF Die
    <2>2. PICK S \in SUBSET {r \in Requests : stage[r] \in InFlight} :
             /\ stage' = [r \in Requests |-> IF r \in S THEN "lost" ELSE stage[r]]
             /\ hurt' = hurt \cup S
      BY <1>2 DEF Die, Hurts
    <2>3. \A s \in Requests : StageMeans(s)'
      BY <1>2, <2>2 DEF Die, InFlight, StageMeans
    <2>4. QED
      BY <1>0, <2>1, <2>3
  <1>3. CASE Forget
    BY <1>0, <1>3 DEF Forget, Solvent, WalletMeans, StageMeans
  <1>4. ASSUME NEW r \in Requests, Step(r) PROVE IInv'
    <2> USE DEF TypeOK
    <2>1. CASE FindWallet(r)
      BY <1>0, <2>1, WalletKept DEF FindWallet, Goes, StageMeans
    <2>2. CASE CreateWallet(r)
      <3>1. Solvent' /\ WalletMeans'
        <4>1. CASE wallet.exists
          BY <2>2, <4>1, WalletKept DEF CreateWallet
        <4>2. CASE ~wallet.exists
          BY <2>2, <4>2, GrantInv, AmountAssumption DEF CreateWallet, WalletMeans
        <4>3. QED
          BY <4>1, <4>2
      <3>2. \A s \in Requests : StageMeans(s)'
        BY <2>2 DEF CreateWallet, Goes, StageMeans
      <3>3. QED
        BY <1>0, <3>1, <3>2
    <2>3. CASE LookUp(r)
      BY <1>0, <2>3, WalletKept DEF LookUp, Goes, StageMeans
    <2>4. CASE Reserve(r)
      <3>1. Solvent' /\ WalletMeans'
        BY <2>4, ReservedInv DEF Reserve
      <3>2. \A s \in Requests : StageMeans(s)'
        BY <2>4 DEF Reserve, Reserved, Goes, StageMeans
      <3>3. QED
        BY <1>0, <3>1, <3>2
    <2>5. CASE Refuse(r)
      BY <1>0, <2>5, WalletKept DEF Refuse, Goes, StageMeans
    <2>6. CASE Provider(r)
      BY <1>0, <2>6, WalletKept DEF Provider, AfterProvider, Goes, StageMeans
    <2>7. CASE Refund(r)
      <3>1. Solvent' /\ WalletMeans'
        BY <2>7, RefundedInv DEF Refund
      <3>2. \A s \in Requests : StageMeans(s)'
        BY <2>7 DEF Refund, Refunded, Goes, StageMeans
      <3>3. QED
        BY <1>0, <3>1, <3>2
    <2>8. CASE LogUsage(r)
      BY <1>0, <2>8, WalletKept DEF LogUsage, Goes, StageMeans
    <2>9. CASE StoreInCache(r)
      BY <1>0, <2>9, WalletKept DEF StoreInCache, Goes, StageMeans
    <2>10. CASE Answer(r)
      BY <1>0, <2>10, WalletKept DEF Answer, Goes, StageMeans
    <2>11. QED
      BY <1>4, <2>1, <2>2, <2>3, <2>4, <2>5, <2>6, <2>7, <2>8, <2>9, <2>10 DEF Step
  <1>5. ASSUME NEW r \in Requests, Throw(r) PROVE IInv'
    BY <1>0, <1>5, WalletKept DEF Throw, Hurts, StageMeans, TypeOK
  <1>6. ASSUME NEW r \in Requests, ThrowLate(r) PROVE IInv'
    <2>1. Solvent' /\ WalletMeans'
      <3>1. CASE ~wallet.exists /\ wallet' = Grant(NoWallet, InitialBalance) /\ UNCHANGED held
        BY <3>1, GrantInv, AmountAssumption DEF WalletMeans
      <3>2. CASE Reserved(r)
        BY <3>2, ReservedInv
      <3>3. CASE Refunded(r)
        BY <3>3, RefundedInv
      <3>4. CASE UNCHANGED <<wallet, held>>
        BY <3>4, WalletKept
      <3>5. QED
        BY <1>6, <3>1, <3>2, <3>3, <3>4 DEF ThrowLate
    <2>2. \A s \in Requests : StageMeans(s)'
      BY <1>6 DEF ThrowLate, Hurts, Reserved, Refunded, StageMeans, TypeOK
    <2>3. QED
      BY <1>0, <2>1, <2>2
  <1>7. CASE UNCHANGED vars
    BY <1>7 DEF vars, TypeOK, Solvent, WalletMeans, StageMeans
  <1>8. QED
    BY <1>1, <1>2, <1>3, <1>4, <1>5, <1>6, <1>7 DEF Next

LEMMA InvHolds == Spec => []IInv
  BY InitInv, InvNext, PTL DEF Spec

-----------------------------------------------------------------------------
(* What is consumed is what the requests hold *)

\* What a set of requests costs
Spent(S) == MapThenSumSet(LAMBDA r : Cost[r], S)

\* It is a sum of Sums
LEMMA SpentIsSum ==
    ASSUME NEW S
    PROVE  Spent(S) = SumOver(Cost, S)
  BY DEF Spent, SumOver, MapThenSumSet, MapThenFoldSet

\* The counter of consumed credits is the cost of the charged requests
SpentInv ==
    /\ IsFiniteSet(Charged)
    /\ wallet.consumed = Spent(Charged)

LEMMA InitSpent == Init => SpentInv
  <1> SUFFICES ASSUME Init PROVE SpentInv
    OBVIOUS
  <1>1. Charged = {}
    BY DEF Init, Charged
  <1>2. Spent({}) = 0
    BY SpentIsSum, SumOfNothing
  <1>3. wallet.consumed = 0
    BY DEF Init, NoWallet, Grant, Moved
  <1>4. QED
    BY <1>1, <1>2, <1>3, FS_EmptySet DEF SpentInv

\* A reservation adds the cost of a request that had nothing
LEMMA ReservedSpent ==
    ASSUME IInv, SpentInv, NEW r \in Requests, stage[r] = "reserving", Reserved(r)
    PROVE  SpentInv'
  <1>1. Charged' = Charged \cup {r} /\ r \notin Charged /\ Charged \subseteq Requests
    BY DEF IInv, TypeOK, StageMeans, Reserved, Charged
  <1>2. Spent(Charged \cup {r}) = Spent(Charged) + Cost[r]
    <2>1. \A q \in Charged \cup {r} : Cost[q] \in Nat
      BY <1>1, RequestAssumption
    <2>2. SumOver(Cost, Charged \cup {r}) = SumOver(Cost, Charged) + Cost[r]
      BY <1>1, <2>1, SumWith DEF SpentInv
    <2>3. QED
      BY <2>2, SpentIsSum
  <1>3. wallet'.consumed = wallet.consumed + Cost[r]
    <2>1. wallet \in Wallets /\ Cost[r] \in Nat /\ wallet' = Take(wallet, Cost[r])
      BY RequestAssumption DEF IInv, TypeOK, Reserved
    <2>2. QED
      BY <2>1, TakeWallet
  <1>4. IsFiniteSet(Charged \cup {r})
    BY FS_AddElement DEF SpentInv
  <1>5. QED
    BY <1>1, <1>2, <1>3, <1>4 DEF SpentInv

\* A refund takes the cost of a request out again that had it
LEMMA RefundedSpent ==
    ASSUME IInv, SpentInv, NEW r \in Requests, stage[r] = "refunding", Refunded(r)
    PROVE  SpentInv'
  <1>1. Charged' = Charged \ {r} /\ r \in Charged /\ Charged \subseteq Requests
    BY DEF IInv, TypeOK, StageMeans, Refunded, Charged
  <1>2. IsFiniteSet(Charged \ {r})
    BY FS_Subset DEF SpentInv
  <1>3. Spent(Charged) = Cost[r] + Spent(Charged \ {r})
    <2>1. \A q \in Charged : Cost[q] \in Nat
      BY <1>1, RequestAssumption
    <2>2. SumOver(Cost, Charged) = Cost[r] + SumOver(Cost, Charged \ {r})
      BY <1>1, <2>1, SumWithout DEF SpentInv
    <2>3. QED
      BY <2>2, SpentIsSum
  <1>4. Spent(Charged \ {r}) \in Nat /\ Cost[r] \in Nat
    <2>1. \A q \in Charged \ {r} : Cost[q] \in Nat
      BY <1>1, RequestAssumption
    <2>2. SumOver(Cost, Charged \ {r}) \in Nat
      BY <1>2, <2>1, SumType
    <2>3. QED
      BY <2>2, SpentIsSum, RequestAssumption
  <1>5. wallet'.consumed = wallet.consumed - Cost[r]
    <2>1. wallet \in Wallets /\ Cost[r] \in Nat /\ wallet' = GiveBack(wallet, Cost[r])
      BY RequestAssumption DEF IInv, TypeOK, Refunded
    <2>2. QED
      BY <2>1, GiveBackWallet
  <1>6. wallet'.consumed = Spent(Charged \ {r})
    BY <1>3, <1>4, <1>5 DEF SpentInv
  <1>7. QED
    BY <1>1, <1>2, <1>6 DEF SpentInv

\* The first grant or a pack consumes nothing
LEMMA GrantSpent ==
    ASSUME IInv, SpentInv, NEW n \in Nat, wallet' = Grant(wallet, n), UNCHANGED held
    PROVE  SpentInv'
  <1>1. wallet'.consumed = wallet.consumed
    BY GrantWallet DEF IInv, TypeOK
  <1>2. Charged' = Charged
    BY DEF Charged
  <1>3. QED
    BY <1>1, <1>2 DEF SpentInv

LEMMA NextSpent == IInv /\ SpentInv /\ [Next]_vars => SpentInv'
  <1> SUFFICES ASSUME IInv, SpentInv, [Next]_vars PROVE SpentInv'
    OBVIOUS
  <1>1. CASE UNCHANGED <<wallet, held>>
    BY <1>1 DEF SpentInv, Charged
  <1>2. CASE BuyPack
    BY <1>2, GrantSpent, AmountAssumption DEF BuyPack
  <1>3. ASSUME NEW r \in Requests, CreateWallet(r) PROVE SpentInv'
    <2>1. CASE wallet.exists
      BY <1>1, <1>3, <2>1 DEF CreateWallet
    <2>2. CASE ~wallet.exists
      BY <1>3, <2>2, GrantSpent, AmountAssumption DEF CreateWallet, IInv, WalletMeans
    <2>3. QED
      BY <2>1, <2>2
  <1>4. ASSUME NEW r \in Requests, Step(r), ~CreateWallet(r) PROVE SpentInv'
    <2>1. CASE Reserve(r)
      BY <2>1, ReservedSpent DEF Reserve, Goes
    <2>2. CASE Refund(r)
      BY <2>2, RefundedSpent DEF Refund, Goes
    <2>3. QED
      BY <1>1, <1>4, <2>1, <2>2 DEF Step, FindWallet, LookUp, Refuse, Provider,
         LogUsage, StoreInCache, Answer
  <1>5. ASSUME NEW r \in Requests, ThrowLate(r) PROVE SpentInv'
    <2>1. CASE wallet' = Grant(NoWallet, InitialBalance) /\ ~wallet.exists /\ UNCHANGED held
      BY <2>1, GrantSpent, AmountAssumption DEF IInv, WalletMeans
    <2>2. CASE stage[r] = "reserving" /\ Reserved(r)
      BY <2>2, ReservedSpent
    <2>3. CASE stage[r] = "refunding" /\ Refunded(r)
      BY <2>3, RefundedSpent
    <2>4. QED
      BY <1>1, <1>5, <2>1, <2>2, <2>3 DEF ThrowLate
  <1>6. CASE Die \/ Forget \/ UNCHANGED vars
    BY <1>1, <1>6 DEF Die, Forget, vars
  <1>7. ASSUME NEW r \in Requests, Throw(r) PROVE SpentInv'
    BY <1>1, <1>7 DEF Throw
  <1>8. QED
    BY <1>2, <1>3, <1>4, <1>5, <1>6, <1>7 DEF Next

-----------------------------------------------------------------------------
(* What follows *)

\* The wallet is never overdrawn and its three numbers always agree, however
\* many completions check the balance at once.
THEOREM WalletIsSolvent == Spec => []Solvent
  <1>1. IInv => Solvent
    BY DEF IInv
  <1>2. QED
    BY <1>1, InvHolds, PTL

\* Credits are kept only for a completion that was answered and logged, or from
\* a request that a fault hit: refusals, cached answers and errors of the
\* provider cost nothing.
THEOREM ChargesAreExplained == Spec => []ChargeIsExplained
  <1>1. IInv => ChargeIsExplained
    BY DEF IInv, TypeOK, Stage, Over, InFlight, StageMeans, ChargeIsExplained
  <1>2. QED
    BY <1>1, InvHolds, PTL

\* What the wallet counts as consumed is exactly what the charged requests cost,
\* however reservations, refunds, packs and late failures interleave: no update of
\* the row is lost.
THEOREM ConsumedIsWhatRequestsHold == Spec => []ConsumedIsHeld
  <1>1. IInv /\ SpentInv => ConsumedIsHeld
    BY DEF IInv, SpentInv, Spent, ConsumedIsHeld
  <1>2. QED
    BY <1>1, InvHolds, InitSpent, NextSpent, PTL DEF Spec

-----------------------------------------------------------------------------
(* The wallet is a credit account *)

Ended == {r \in Requests : stage[r] \in Over}

\* Nothing moves, and ended requests stay ended: a step End or a stutter
LEMMA EndStep ==
    ASSUME IInv, UNCHANGED <<wallet, held>>, Ended \subseteq Ended'
    PROVE  [Account!AccountNext]_(Account!accountVars)
  <1>1. Account!End
    BY DEF Account!End, Account!Ends, Charged, Ended
  <1>2. QED
    BY <1>1 DEF Account!AccountNext

\* A grant is a deposit
LEMMA GrantStep ==
    ASSUME IInv, NEW n \in Nat, wallet' = Grant(wallet, n), UNCHANGED held, Ended \subseteq Ended'
    PROVE  [Account!AccountNext]_(Account!accountVars)
  <1>1. /\ wallet'.balance = wallet.balance + n
        /\ wallet.balance \in Int
        /\ wallet.balance >= 0
    BY GrantWallet DEF IInv, TypeOK, Wallets, Solvent
  <1>2. wallet'.balance \in Nat /\ wallet'.balance >= wallet.balance
    BY <1>1
  <1>3. Account!Deposit
    BY <1>2 DEF Account!Deposit, Account!Ends, Charged, Ended
  <1>4. QED
    BY <1>3 DEF Account!AccountNext

\* A reservation is a charge, also one whose request ends with it
LEMMA ReserveStep ==
    ASSUME IInv, NEW r \in Requests, stage[r] = "reserving", Reserved(r),
           Ended' \in {Ended, Ended \cup {r}}
    PROVE  [Account!AccountNext]_(Account!accountVars)
  <1>1. r \notin Charged /\ r \notin Ended
    BY DEF IInv, StageMeans, Charged, Ended, Over
  <1>2. Cost[r] \in Nat
    BY RequestAssumption
  <1>3. wallet'.balance = wallet.balance - Cost[r]
    BY <1>2, TakeWallet DEF IInv, TypeOK, Reserved
  <1>4. Charged' = Charged \cup {r}
    BY DEF IInv, TypeOK, Reserved, Charged
  <1>5. wallet.balance >= Cost[r]
    BY DEF Reserved, Covers
  <1>6. Account!Charge(r)
    BY <1>1, <1>3, <1>4, <1>5 DEF Account!Charge, Ended
  <1>7. QED
    BY <1>6 DEF Account!AccountNext

\* A refund gives back
LEMMA RefundStep ==
    ASSUME IInv, NEW r \in Requests, stage[r] = "refunding", Refunded(r),
           stage' = [stage EXCEPT ![r] = "failed"]
    PROVE  [Account!AccountNext]_(Account!accountVars)
  <1>1. r \in Charged /\ r \notin Ended
    BY DEF IInv, StageMeans, Charged, Ended, Over
  <1>2. Cost[r] \in Nat
    BY RequestAssumption
  <1>3. wallet'.balance = wallet.balance + Cost[r]
    BY <1>2, GiveBackWallet DEF IInv, TypeOK, Refunded
  <1>4. Charged' = Charged \ {r}
    BY DEF IInv, TypeOK, Refunded, Charged
  <1>5. Ended' = Ended \cup {r}
    BY DEF IInv, TypeOK, Ended, Over
  <1>6. Account!GiveBack(r)
    BY <1>1, <1>3, <1>4, <1>5 DEF Account!GiveBack, Ended
  <1>7. QED
    BY <1>6 DEF Account!AccountNext

LEMMA StepRefines ==
    ASSUME IInv, NEW r \in Requests, Step(r)
    PROVE  [Account!AccountNext]_(Account!accountVars)
  <1> USE DEF IInv, TypeOK
  <1>1. CASE FindWallet(r)
    BY <1>1, EndStep DEF FindWallet, Goes, Ended, Over
  <1>2. CASE CreateWallet(r)
    <2>1. Ended \subseteq Ended'
      BY <1>2 DEF CreateWallet, Goes, Ended, Over
    <2>2. CASE wallet.exists
      BY <1>2, <2>1, <2>2, EndStep DEF CreateWallet
    <2>3. CASE ~wallet.exists
      BY <1>2, <2>1, <2>3, GrantStep, AmountAssumption DEF CreateWallet, WalletMeans
    <2>4. QED
      BY <2>2, <2>3
  <1>3. CASE LookUp(r)
    BY <1>3, EndStep DEF LookUp, Goes, Ended, Over
  <1>4. CASE Reserve(r)
    <2>1. Ended' = Ended
      BY <1>4 DEF Reserve, Goes, Ended, Over
    <2>2. QED
      BY <1>4, <2>1, ReserveStep DEF Reserve, Goes
  <1>5. CASE Refuse(r)
    BY <1>5, EndStep DEF Refuse, Goes, Ended, Over
  <1>6. CASE Provider(r)
    BY <1>6, EndStep DEF Provider, AfterProvider, Goes, Ended, Over
  <1>7. CASE Refund(r)
    BY <1>7, RefundStep DEF Refund, Goes
  <1>8. CASE LogUsage(r)
    BY <1>8, EndStep DEF LogUsage, Goes, Ended, Over
  <1>9. CASE StoreInCache(r)
    BY <1>9, EndStep DEF StoreInCache, Goes, Ended, Over
  <1>10. CASE Answer(r)
    BY <1>10, EndStep DEF Answer, Goes, Ended, Over
  <1>11. QED
    BY <1>1, <1>2, <1>3, <1>4, <1>5, <1>6, <1>7, <1>8, <1>9, <1>10 DEF Step

LEMMA NextRefines == IInv /\ [Next]_vars => [Account!AccountNext]_(Account!accountVars)
  <1> SUFFICES ASSUME IInv, [Next]_vars PROVE [Account!AccountNext]_(Account!accountVars)
    OBVIOUS
  <1>1. CASE BuyPack
    BY <1>1, GrantStep, AmountAssumption DEF BuyPack, Ended
  <1>2. CASE Die
    <2>1. Ended \subseteq Ended'
      BY <1>2 DEF Die, Ended, Over
    <2>2. QED
      BY <1>2, <2>1, EndStep DEF Die
  <1>3. CASE Forget
    BY <1>3, EndStep DEF Forget, Ended
  <1>4. ASSUME NEW r \in Requests, Step(r)
        PROVE  [Account!AccountNext]_(Account!accountVars)
    BY <1>4, StepRefines
  <1>5. ASSUME NEW r \in Requests, Throw(r)
        PROVE  [Account!AccountNext]_(Account!accountVars)
    <2>1. Ended \subseteq Ended'
      BY <1>5 DEF Throw, Ended, Over, IInv, TypeOK
    <2>2. QED
      BY <1>5, <2>1, EndStep DEF Throw
  <1>6. ASSUME NEW r \in Requests, ThrowLate(r)
        PROVE  [Account!AccountNext]_(Account!accountVars)
    <2>1. stage' = [stage EXCEPT ![r] = "failed"]
      BY <1>6 DEF ThrowLate
    <2>2. Ended' = Ended \cup {r}
      BY <2>1 DEF Ended, Over, IInv, TypeOK
    <2>3. CASE ~wallet.exists /\ wallet' = Grant(NoWallet, InitialBalance) /\ UNCHANGED held
      BY <2>2, <2>3, GrantStep, AmountAssumption DEF IInv, WalletMeans
    <2>4. CASE stage[r] = "reserving" /\ Reserved(r)
      BY <2>2, <2>4, ReserveStep
    <2>5. CASE stage[r] = "refunding" /\ Refunded(r)
      BY <2>1, <2>5, RefundStep
    <2>6. CASE UNCHANGED <<wallet, held>>
      BY <2>2, <2>6, EndStep
    <2>7. QED
      BY <1>6, <2>3, <2>4, <2>5, <2>6 DEF ThrowLate
  <1>7. CASE UNCHANGED vars
    BY <1>7, EndStep DEF vars, Ended
  <1>8. QED
    BY <1>1, <1>2, <1>3, <1>4, <1>5, <1>6, <1>7 DEF Next

\* Seen from its institute the wallet is the account of CreditAccount: no request
\* is charged twice or given back twice, and none after it is over.
THEOREM ImplementsAccount == Spec => AccountSpec
  <1>1. Init => Account!AccountInit
    BY AmountAssumption
    DEF Init, Account!AccountInit, Charged, NoWallet, Grant, Moved, Over
  <1>2. QED
    BY <1>1, NextRefines, InvHolds, PTL DEF Spec, AccountSpec, Account!AccountSpec
=============================================================================
