---------------------------- MODULE WebSessions ----------------------------
(***************************************************************************)
(* The session of one visitor in one browser: the tabs of the web app      *)
(* (lib/auth/session.ts), the refresh cookie they share, the web server's  *)
(* auth routes (app/api/auth), and the refresh tokens of the API           *)
(* (modules/auth).  The API takes each refresh token once: one that was    *)
(* used already ends its whole family, the tokens of one sign-in.  Tabs    *)
(* therefore refresh one at a time, under a Web Lock, and the answer must  *)
(* reach the cookie.  Browsers without Web Locks are left out.             *)
(***************************************************************************)
EXTENDS Integers, FiniteSets

CONSTANTS
    Tabs,        \* tabs of the browser
    NoTab,       \* nobody holds the lock
    MaxTokens,   \* bound: refresh tokens made
    MaxFaults    \* bound: lost answers, failing calls

ASSUME BoundAssumption == MaxTokens \in Nat /\ MaxFaults \in Nat
ASSUME TabAssumption == NoTab \notin Tabs /\ Tabs \cap Nat = {}

VARIABLES
    minted,   \* tokens 1..minted exist; a token is named by its number
    live,     \* those that are not revoked
    family,   \* the token of the sign-in that each token goes back to
    active,   \* the user's isActive
    cookie,   \* the token in the refresh cookie, 0 without one
    lock,     \* the tab that holds the lock vargly-auth-refresh
    page,     \* what each tab shows
    job,      \* the refresh of each tab, and refreshes whose tab has gone
    form,     \* the sign-in or sign-out of each tab
    lost,     \* history: families whose rotation did not reach the cookie
    crossed,  \* history: families whose refresh and sign-in or sign-out overlapped
    left,     \* history: families that were signed out
    faults    \* faults so far

tokenVars == <<minted, live, family, active>>
browserVars == <<cookie, lock, page>>
historyVars == <<lost, crossed, left>>
sessionVars == <<tokenVars, browserVars, job, form, historyVars, faults>>

Tokens == 1..MaxTokens
Ghosts == 1..MaxFaults
Refreshers == Tabs \cup Ghosts

AtServer == {"sent", "found", "revoked", "rotated", "reused"}
Answers == {"answered", "rejected", "failed"}
Stages == {"idle", "waiting"} \cup AtServer \cup Answers
Jobs == [stage: Stages, old: Tokens \cup {0}, new: Tokens \cup {0}]
Forms == [stage: {"none", "revoking", "signingOut", "signingIn"}, token: Tokens \cup {0}]

SessionTypeOK ==
    /\ minted \in Tokens \cup {0}
    /\ live \in SUBSET Tokens
    /\ family \in [Tokens -> Tokens \cup {0}]
    /\ active \in BOOLEAN
    /\ cookie \in Tokens \cup {0}
    /\ lock \in Tabs \cup {NoTab}
    /\ page \in [Tabs -> {"loading", "signedIn", "signedOut"}]
    /\ job \in [Refreshers -> Jobs]
    /\ form \in [Tabs -> Forms]
    /\ lost \in SUBSET Tokens
    /\ crossed \in SUBSET Tokens
    /\ left \in SUBSET Tokens
    /\ faults \in 0..MaxFaults

NoJob == [stage |-> "idle", old |-> 0, new |-> 0]
NoForm == [stage |-> "none", token |-> 0]

\* A visitor who has not signed in yet
SessionInit ==
    /\ minted = 0
    /\ live = {}
    /\ family = [k \in Tokens |-> 0]
    /\ active = TRUE
    /\ cookie = 0
    /\ lock = NoTab
    /\ page = [t \in Tabs |-> "loading"]
    /\ job = [w \in Refreshers |-> NoJob]
    /\ form = [t \in Tabs |-> NoForm]
    /\ lost = {}
    /\ crossed = {}
    /\ left = {}
    /\ faults = 0

-----------------------------------------------------------------------------
(* Tokens *)

FamilyOf(k) == IF k = 0 THEN {} ELSE {family[k]}
Busy == {w \in Refreshers : job[w].stage # "idle"}
InFlight == {w \in Refreshers : job[w].stage \in AtServer \cup Answers}
SigningIn == {t \in Tabs : form[t].stage = "signingIn"}

\* Whatever is under way may still make a token each
RoomForAToken == minted + Cardinality(Busy) < MaxTokens

Mint(f) ==
    /\ minted' = minted + 1
    /\ live' = live \cup {minted + 1}
    /\ family' = [family EXCEPT ![minted + 1] = f]

Move(w, stage) == job' = [job EXCEPT ![w].stage = stage]

\* A call fails, or an answer is lost
Fault == faults < MaxFaults /\ faults' = faults + 1

-----------------------------------------------------------------------------
(* A refresh, from the tab to the API and back *)

\* Mutant: a browser without Web Locks
LockFreeIgnored == TRUE
LockFree == lock = NoTab

\* A page load, or the API's 401 to an expired access token; one at a time in a tab
StartRefresh(t) ==
    /\ page[t] \in {"loading", "signedIn"}
    /\ job[t].stage = "idle"
    /\ RoomForAToken
    /\ Move(t, "waiting")
    /\ UNCHANGED <<tokenVars, browserVars, form, historyVars, faults>>

\* The lock is granted and the request sent with the cookie of this moment;
\* without one the web server answers 401 itself
Send(t) ==
    /\ job[t].stage = "waiting"
    /\ LockFree
    /\ lock' = t
    /\ job' = [job EXCEPT ![t] =
           [stage |-> IF cookie = 0 THEN "rejected" ELSE "sent", old |-> cookie, new |-> 0]]
    /\ crossed' = IF \E u \in Tabs : form[u].stage # "none"
                  THEN crossed \cup FamilyOf(cookie) ELSE crossed
    /\ UNCHANGED <<tokenVars, cookie, page, form, lost, left, faults>>

Usable(k) == k \in live

\* findByTokenHash and the check of isRevoked
Find(w) ==
    /\ job[w].stage = "sent"
    /\ Move(w, IF Usable(job[w].old) THEN "found" ELSE "reused")
    /\ UNCHANGED <<tokenVars, browserVars, form, historyVars, faults>>

RevokeFamily(w) ==
    /\ job[w].stage = "reused"
    /\ live' = {k \in live : family[k] # family[job[w].old]}
    /\ Move(w, "rejected")
    /\ UNCHANGED <<minted, family, active, browserVars, form, historyVars, faults>>

\* The old token goes first; an inactive user gets no new one
Revoke(w) ==
    /\ job[w].stage = "found"
    /\ live' = live \ {job[w].old}
    /\ Move(w, IF active THEN "revoked" ELSE "rejected")
    /\ UNCHANGED <<minted, family, active, browserVars, form, historyVars, faults>>

Create(w) ==
    /\ job[w].stage = "revoked"
    /\ Mint(family[job[w].old])
    /\ job' = [job EXCEPT ![w].stage = "rotated", ![w].new = minted + 1]
    /\ UNCHANGED <<active, browserVars, form, historyVars, faults>>

\* The web server reads /auth/me and answers with the cookie
Me(w) ==
    /\ job[w].stage = "rotated"
    /\ Move(w, "answered")
    /\ UNCHANGED <<tokenVars, browserVars, form, historyVars, faults>>

\* Mutant: the answer's token does not reach the cookie
CookieAfterUnchanged(j) == cookie
CookieAfter(j) ==
    CASE j.stage = "answered" -> j.new [] j.stage = "rejected" -> 0 [] OTHER -> cookie

\* Mutant: a request that fails leaves the lock taken
AfterLockStuck(j) == IF j.stage = "failed" THEN lock ELSE NoTab
AfterLock(j) == NoTab

\* The answer reaches the tab: the cookie, the page, the end of the lock.  Other
\* failures than 401 keep cookie and page
Receive(t) ==
    /\ job[t].stage \in Answers
    /\ cookie' = CookieAfter(job[t])
    /\ lock' = AfterLock(job[t])
    /\ page' = [page EXCEPT ![t] =
           CASE job[t].stage = "answered" -> "signedIn" [] job[t].stage = "rejected" -> "signedOut" [] OTHER -> @]
    /\ job' = [job EXCEPT ![t] = NoJob]
    /\ UNCHANGED <<tokenVars, form, historyVars, faults>>

\* Nobody waits for this answer
Drop(g) ==
    /\ job[g].stage \in Answers
    /\ job' = [job EXCEPT ![g] = NoJob]
    /\ UNCHANGED <<tokenVars, browserVars, form, historyVars, faults>>

ServerStep(w) == Find(w) \/ RevokeFamily(w) \/ Revoke(w) \/ Create(w) \/ Me(w)

-----------------------------------------------------------------------------
(* Signing in and out *)

\* The page of signed-out visitors is the sign-in form
SignIn(t) ==
    /\ page[t] = "signedOut" /\ form[t].stage = "none" /\ job[t].stage = "idle"
    /\ active
    /\ RoomForAToken
    /\ Mint(minted + 1)
    /\ form' = [form EXCEPT ![t] = [stage |-> "signingIn", token |-> minted + 1]]
    /\ UNCHANGED <<active, browserVars, job, historyVars, faults>>

\* The new session takes the place of the one in the cookie
SignedIn(t) ==
    /\ form[t].stage = "signingIn"
    /\ cookie' = form[t].token
    /\ page' = [page EXCEPT ![t] = "signedIn"]
    /\ form' = [form EXCEPT ![t] = NoForm]
    /\ left' = left \cup FamilyOf(cookie)
    /\ crossed' = IF InFlight # {} \/ \E u \in Tabs \ {t} : form[u].stage # "none"
                  THEN crossed \cup {form[t].token} \cup FamilyOf(cookie) ELSE crossed
    /\ UNCHANGED <<tokenVars, lock, job, lost, faults>>

\* The web server reads the cookie; without one there is nothing to revoke
SignOut(t) ==
    /\ page[t] = "signedIn" /\ form[t].stage = "none"
    /\ form' = [form EXCEPT ![t] =
           [stage |-> IF cookie = 0 THEN "signingOut" ELSE "revoking", token |-> cookie]]
    /\ crossed' = IF InFlight # {} THEN crossed \cup FamilyOf(cookie) ELSE crossed
    /\ UNCHANGED <<tokenVars, browserVars, job, lost, left, faults>>

\* The API's logout; the web server goes on if it fails
Logout(t) ==
    /\ form[t].stage = "revoking"
    /\ form' = [form EXCEPT ![t].stage = "signingOut"]
    /\ \/ /\ live' = live \ {form[t].token}
          /\ left' = left \cup FamilyOf(form[t].token)
          /\ UNCHANGED faults
       \/ Fault /\ UNCHANGED <<live, left>>
    /\ UNCHANGED <<minted, family, active, browserVars, job, lost, crossed>>

\* Mutant: the web server gives up when the API does, and the cookie stays
CookieAfterSignOutKept == IF faults > 0 THEN cookie ELSE 0
CookieAfterSignOut == 0

SignedOut(t) ==
    /\ form[t].stage = "signingOut"
    /\ cookie' = CookieAfterSignOut
    /\ page' = [page EXCEPT ![t] = "signedOut"]
    /\ form' = [form EXCEPT ![t] = NoForm]
    /\ left' = left \cup FamilyOf(form[t].token)
    /\ UNCHANGED <<tokenVars, lock, job, lost, crossed, faults>>

\* Sign-out of all devices, a new password, or the user is deactivated
RevokeAll ==
    /\ live # {} \/ active
    /\ live' = {}
    /\ active' \in {active, FALSE}
    /\ left' = left \cup {family[k] : k \in 1..minted}
    /\ crossed' = crossed \cup {family[job[w].old] : w \in {v \in InFlight : job[v].old # 0}}
    /\ UNCHANGED <<minted, family, browserVars, job, form, lost, faults>>

-----------------------------------------------------------------------------
(* What may go wrong on the way *)

\* The database, the API or /auth/me fails: the web server answers with an error
Fail(w) ==
    /\ job[w].stage \in AtServer
    /\ Move(w, "failed")
    /\ lost' = IF job[w].stage \in {"revoked", "rotated"} THEN lost \cup FamilyOf(job[w].old) ELSE lost
    /\ Fault
    /\ UNCHANGED <<tokenVars, browserVars, form, crossed, left>>

\* The tab loses the connection, or is loaded again: the servers go on without it
LoseRefresh(t) ==
    /\ job[t].stage \in AtServer \cup Answers
    /\ Fault
    /\ job' = [job EXCEPT ![t] = NoJob, ![faults'] = job[t]]
    /\ lock' = NoTab
    /\ page' \in {page, [page EXCEPT ![t] = "loading"]}
    /\ lost' = lost \cup FamilyOf(job[t].old)
    /\ UNCHANGED <<tokenVars, cookie, form, crossed, left>>

\* The sign-in's or sign-out's answer is lost; who signs out sees the login page anyhow
LoseForm(t) ==
    /\ form[t].stage \in {"signingIn", "signingOut"}
    /\ form' = [form EXCEPT ![t] = NoForm]
    /\ page' = [page EXCEPT ![t] = "signedOut"]
    /\ lost' = lost \cup FamilyOf(form[t].token)
    /\ Fault
    /\ UNCHANGED <<tokenVars, cookie, lock, job, crossed, left>>

\* A page load: the access token is gone from memory
Reload(t) ==
    /\ job[t].stage = "idle" /\ form[t].stage = "none"
    /\ page[t] # "loading"
    /\ page' = [page EXCEPT ![t] = "loading"]
    /\ UNCHANGED <<tokenVars, cookie, lock, job, form, historyVars, faults>>

SessionNext ==
    \/ RevokeAll
    \/ \E t \in Tabs :
          \/ StartRefresh(t) \/ Send(t) \/ Receive(t)
          \/ SignIn(t) \/ SignedIn(t) \/ SignOut(t) \/ Logout(t) \/ SignedOut(t)
          \/ LoseRefresh(t) \/ LoseForm(t) \/ Reload(t)
    \/ \E w \in Refreshers : ServerStep(w) \/ Fail(w)
    \/ \E g \in Ghosts : Drop(g)

\* Servers answer, answers arrive, and the lock is granted in the order asked for
Fairness ==
    /\ \A w \in Refreshers : WF_sessionVars(ServerStep(w))
    /\ \A t \in Tabs : WF_sessionVars(Receive(t)) /\ SF_sessionVars(Send(t))

SessionSpec == SessionInit /\ [][SessionNext]_sessionVars /\ Fairness

-----------------------------------------------------------------------------
(* Properties *)

\* A family is ended for reuse only after a rotation was lost on the way back or
\* the family was signed out: tabs never send a token another tab just used
\* (comment of refreshSession).
NoReplayWithoutLoss ==
    \A w \in Refreshers :
        job[w].stage = "reused" => family[job[w].old] \in lost \cup left

InProgress(f) ==
    \/ \E w \in InFlight : job[w].old # 0 /\ family[job[w].old] = f
    \/ \E t \in Tabs : form[t].token = f

\* When nothing was lost, left or crossed, a family at rest has one live token and
\* the cookie holds it: the next refresh will succeed.
CookieIsTheLiveToken ==
    \A f \in {family[k] : k \in 1..minted} :
        f \notin lost \cup crossed \cup left /\ ~InProgress(f)
            => cookie # 0 /\ {k \in live : family[k] = f} = {cookie}

\* The cookie of a session that was signed out opens nothing, whether or not the
\* API could be reached ("the visitor is signed out locally even if the API is
\* unreachable"), unless a refresh was under way at the time.
SignedOutStaysOut ==
    cookie # 0 /\ family[cookie] \in left \ (crossed \cup lost) => cookie \notin live

\* Every refresh ends, whatever becomes of it: no tab waits for ever for the lock.
RefreshSettles ==
    \A t \in Tabs : job[t].stage # "idle" ~> job[t].stage = "idle"
=============================================================================
