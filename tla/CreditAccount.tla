--------------------------- MODULE CreditAccount ---------------------------
(***************************************************************************)
(* An ideal credit account, with nothing in between: a request is charged  *)
(* at most once, what it was charged is given back at most once, both only *)
(* while it is open, and the account never owes anything.  AiCredits is    *)
(* shown to implement it.                                                  *)
(***************************************************************************)
EXTENDS Integers

CONSTANTS
    Requests,   \* completions asked for
    Cost        \* the credits each of them costs, at least one

VARIABLES
    balance,    \* credits left
    charged,    \* requests whose credits are taken
    over        \* requests that have come to an end

accountVars == <<balance, charged, over>>

AccountInit ==
    /\ balance \in Nat
    /\ charged = {}
    /\ over = {}

\* Requests end without moving credits, alone or those of a process that died
Ends ==
    /\ over' \in SUBSET Requests
    /\ over \subseteq over'

\* The first grant and every pack of credits bought
Deposit ==
    /\ balance' \in Nat
    /\ balance' >= balance
    /\ UNCHANGED charged
    /\ Ends

\* The caller may learn of it, or the request ends with it
Charge(r) ==
    /\ r \notin charged \cup over
    /\ balance >= Cost[r]
    /\ balance' = balance - Cost[r]
    /\ charged' = charged \cup {r}
    /\ over' \in {over, over \cup {r}}

\* Giving back ends the request, so nothing can be given back twice
GiveBack(r) ==
    /\ r \in charged \ over
    /\ balance' = balance + Cost[r]
    /\ charged' = charged \ {r}
    /\ over' = over \cup {r}

End ==
    /\ Ends
    /\ UNCHANGED <<balance, charged>>

AccountNext == Deposit \/ End \/ \E r \in Requests : Charge(r) \/ GiveBack(r)

AccountSpec == AccountInit /\ [][AccountNext]_accountVars
=============================================================================
