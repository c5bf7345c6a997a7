---------------------------- MODULE AgentSession ----------------------------
(***************************************************************************)
(* Signing in and staying signed in: the login of an agent with its rate   *)
(* windows, lock and captcha in Redis (handler/http.go,                    *)
(* security/ratelimit.go), the tokens it issues (security/jwt.go), the     *)
(* check of every later request against the account's row                  *)
(* (middleware/middleware.go), and what ends a session: logout and the     *)
(* disabling of an account (store/store.go).                               *)
(*                                                                         *)
(* A request is a goroutine of the HTTP server.  Each call to Redis or     *)
(* MySQL is one step; a transaction pipeline, a script and a statement are *)
(* atomic.  A call may fail, and when it writes it may have been applied   *)
(* all the same; any request ends early when the server stops.             *)
(*                                                                         *)
(* Names are compared in lower case, by strings.ToLower and by the         *)
(* collation of agents.username; a row is never deleted, so the name also  *)
(* stands for the id.  Counts that only matter up to a limit stop there.   *)
(***************************************************************************)
EXTENDS Naturals, FiniteSets

CONSTANTS Requests,     \* requests the server handles at a time
          Names,        \* usernames, with an account or without
          Typed,        \* those that clients log in with (a bound)
          Admins,       \* those whose row, once inserted, says "admin"
          Sources,      \* client addresses
          Sessions,     \* identities of sessions, never used twice (a bound)
          Bootstrap,    \* cfg.BootstrapUsername
          MaxFailures,  \* failures that lock, 5 in RecordLoginFailure
          CaptchaAfter, \* failures that ask for a captcha, 3
          MaxVersion,   \* bound on agents.token_version
          None

Keys == Names \cup Sources

ASSUME SessionAssumption ==
    /\ IsFiniteSet(Requests)
    /\ Names \cap Sources = {}
    /\ Typed \subseteq Names /\ Admins \subseteq Names
    /\ Bootstrap \in Admins
    /\ None \notin Keys \cup Sessions
    /\ MaxFailures \in Nat \ {0} /\ CaptchaAfter \in Nat
    /\ MaxVersion \in Nat

VARIABLES
    up,        \* the server runs
    fails,     \* auth:fail counters by key
    locks,     \* keys with an auth:lock
    account,   \* the table agents
    req,       \* where each request stands and what it has read
    tokens,    \* tokens handed out, less than a day past their expiry
    tries,     \* wrong passwords answered as such, by key, since the key's
               \* count or lock last lapsed or was cleared (history)
    owner,     \* the account of each session (history)
    ended      \* sessions that a logout or a disabling has ended (history)

gate == <<fails, locks, tries>>
sessions == <<account, tokens, owner, ended>>
vars == <<up, gate, req, sessions>>

(* A row's role is written once, by the insertion: see Admins.             *)
Accounts == [exists : BOOLEAN, active : BOOLEAN, version : 0..MaxVersion]

NoAccount == [exists |-> FALSE, active |-> FALSE, version |-> 0]

(***************************************************************************)
(* The claims of a token.  Of its age only the order counts: good for half *)
(* an hour, then good for a refresh only.                                  *)
(***************************************************************************)
Tokens == [name : Names, version : 0..MaxVersion, session : Sessions,
           age : {"fresh", "expired"}]

(* From the check of the name's lock, or of the source's, to the answer.   *)
PasswordSteps == {"captcha", "verify", "row", "count", "lockout"}
LoginSteps == {"window_from", "window_name", "lock_name", "lock_from"}
                  \cup PasswordSteps \cup {"clear", "issue"}
HolderSteps == {"auth", "refresh", "renew", "handle"}

Reqs == [pc : {"idle"} \cup LoginSteps \cup HolderSteps,
         name : Names \cup {None}, from : Sources \cup {None},
         version : 0..MaxVersion, session : Sessions \cup {None}]

Idle == [pc |-> "idle", name |-> None, from |-> None, version |-> 0,
         session |-> None]

(***************************************************************************)
(* The types: every token carries a session, which only PasswordAccepted   *)
(* hands out, and the counts stay within what the code tells apart.        *)
(***************************************************************************)
TypeOK ==
    /\ up \in BOOLEAN
    /\ fails \in [Keys -> 0..MaxFailures]
    /\ locks \subseteq Keys
    /\ account \in [Names -> Accounts]
    /\ req \in [Requests -> Reqs]
    /\ tokens \subseteq Tokens
    /\ tries \in [Keys -> Nat]
    /\ owner \in [Sessions -> Names \cup {None}]
    /\ ended \subseteq Sessions

Init ==
    /\ up = FALSE
    /\ fails = [k \in Keys |-> 0]
    /\ locks = {}
    /\ account = [n \in Names |-> NoAccount]
    /\ req = [r \in Requests |-> Idle]
    /\ tokens = {}
    /\ tries = [k \in Keys |-> 0]
    /\ owner = [s \in Sessions |-> None]
    /\ ended = {}

-----------------------------------------------------------------------------
KeysOf(r) == {req[r].name, req[r].from} \cap Keys

Goto(r, step) == req' = [req EXCEPT ![r].pc = step]

Answer(r) == req' = [req EXCEPT ![r] = Idle]

(* The answer 401 "wrong name or password". *)
AnswerWrong(r) ==
    /\ Answer(r)
    /\ tries' = [k \in Keys |->
                    IF k \in KeysOf(r) THEN tries[k] + 1 ELSE tries[k]]

SessionsOf(n) == {s \in Sessions : owner[s] = n}

CountedUp(r) ==
    [k \in Keys |-> IF k \in KeysOf(r) /\ fails[k] < MaxFailures
                    THEN fails[k] + 1 ELSE fails[k]]

-----------------------------------------------------------------------------
(***************************************************************************)
(* Faulty variants of the definitions below: each is a slip that one of    *)
(* the properties at the end of the module must expose.  Spec uses none.   *)
(***************************************************************************)
(* The return after the failure's answer is missing. *)
CountFailureFallsThrough(r) ==
    /\ req[r].pc = "count"
    /\ fails' = CountedUp(r)
    /\ Goto(r, "clear")
    /\ UNCHANGED <<up, locks, tries, sessions>>

(* The count must exceed the limit before the lock is set. *)
CountFailureLate(r) ==
    /\ req[r].pc = "count"
    /\ fails' = CountedUp(r)
    /\ IF \E k \in KeysOf(r) : fails[k] >= MaxFailures
       THEN Goto(r, "lockout") /\ UNCHANGED tries
       ELSE AnswerWrong(r)
    /\ UNCHANGED <<up, locks, sessions>>

(* The account is switched without a new token version. *)
SetAgentActiveOnly(n, active) ==
    /\ account' = [account EXCEPT ![n].active = active]
    /\ ended' = IF active THEN ended ELSE ended \cup SessionsOf(n)

-----------------------------------------------------------------------------
(***************************************************************************)
(* The server starts, creating the administrator's row unless it is there, *)
(* and stops with whatever its requests were doing.  Redis and MySQL run   *)
(* on.                                                                     *)
(***************************************************************************)
NewAccount == [exists |-> TRUE, active |-> TRUE, version |-> 0]

EnsureBootstrapAdmin ==
    /\ ~up
    /\ up' = TRUE
    /\ account' = IF account[Bootstrap].exists THEN account
                  ELSE [account EXCEPT ![Bootstrap] = NewAccount]
    /\ UNCHANGED <<gate, req, tokens, owner, ended>>

Stop ==
    /\ up
    /\ up' = FALSE
    /\ req' = [r \in Requests |-> Idle]
    /\ UNCHANGED <<gate, sessions>>

-----------------------------------------------------------------------------
(***************************************************************************)
(* AgentLogin, step by step.                                               *)
(***************************************************************************)
AgentLogin(r, n, s) ==
    /\ up
    /\ req[r].pc = "idle"
    /\ req' = [req EXCEPT ![r].pc = "window_from", ![r].name = n, ![r].from = s]
    /\ UNCHANGED <<up, gate, sessions>>

(***************************************************************************)
(* The window of a key counts its logins, those that it refuses too, and   *)
(* may lapse between any two of them: in a model without a clock a login   *)
(* is let through or refused, and the count would add nothing.             *)
(***************************************************************************)
Allow(r, step, next) ==
    /\ req[r].pc = step
    /\ \/ Goto(r, next)
       \/ Answer(r)          \* over the limit, or not to be counted
    /\ UNCHANGED <<up, gate, sessions>>

AllowAction(r) ==
    \/ Allow(r, "window_from", "window_name")
    \/ Allow(r, "window_name", "lock_name")

LoginLockedBy(r, step, k, next) ==
    /\ req[r].pc = step
    /\ \/ k \notin locks /\ Goto(r, next)
       \/ Answer(r)          \* locked, or not to be told
    /\ UNCHANGED <<up, gate, sessions>>

LoginLocked(r) ==
    \/ LoginLockedBy(r, "lock_name", req[r].name, "lock_from")
    \/ LoginLockedBy(r, "lock_from", req[r].from, "captcha")

(***************************************************************************)
(* The count of the name is looked up under the name as typed, although it *)
(* is kept under the name in lower case, and a count that cannot be read   *)
(* asks for nothing.                                                       *)
(***************************************************************************)
LoginCaptchaRequired(r) ==
    /\ req[r].pc = "captcha"
    /\ \E typedLower, nameRead, fromRead \in BOOLEAN :
          IF \/ typedLower /\ nameRead /\ fails[req[r].name] >= CaptchaAfter
             \/ fromRead /\ fails[req[r].from] >= CaptchaAfter
          THEN Goto(r, "verify")
          ELSE Goto(r, "row")
    /\ UNCHANGED <<up, gate, sessions>>

(***************************************************************************)
(* A solution is right or not; the store of captchas, whose entries are    *)
(* deleted after the comparison by a command that may fail, is left out.   *)
(* A missing or wrong solution is answered with a new captcha.             *)
(***************************************************************************)
VerifyCaptcha(r) ==
    /\ req[r].pc = "verify"
    /\ Goto(r, "row")
    /\ UNCHANGED <<up, gate, sessions>>

IssueCaptcha(r) ==
    /\ req[r].pc = "verify"
    /\ Answer(r)
    /\ UNCHANGED <<up, gate, sessions>>

(***************************************************************************)
(* The row and the password.  No row, a row that cannot be read and a      *)
(* wrong password count as failures; a disabled account is told so.        *)
(***************************************************************************)
PasswordRefused(r) ==
    LET row == account[req[r].name] IN
    /\ req[r].pc = "row"
    /\ \/ Goto(r, "count")
       \/ row.exists /\ ~row.active /\ Answer(r)
    /\ UNCHANGED <<up, gate, sessions>>

(***************************************************************************)
(* With the right password a session begins: what the row says now is what *)
(* the token will say.                                                     *)
(***************************************************************************)
PasswordAccepted(r, s) ==
    LET row == account[req[r].name] IN
    /\ req[r].pc = "row"
    /\ row.exists /\ row.active
    /\ owner[s] = None
    /\ owner' = [owner EXCEPT ![s] = req[r].name]
    /\ req' = [req EXCEPT ![r].pc = "clear", ![r].session = s,
                          ![r].version = row.version]
    /\ UNCHANGED <<up, gate, account, tokens, ended>>

(***************************************************************************)
(* RecordLoginFailure: one transaction counts under both keys; below the   *)
(* limit the answer follows, at the limit a second transaction locks both. *)
(***************************************************************************)
CountFailure(r) ==
    /\ req[r].pc = "count"
    /\ fails' = CountedUp(r)
    /\ IF \E k \in KeysOf(r) : fails'[k] >= MaxFailures
       THEN Goto(r, "lockout") /\ UNCHANGED tries
       ELSE AnswerWrong(r)
    /\ UNCHANGED <<up, locks, sessions>>

LockOut(r) ==
    /\ req[r].pc = "lockout"
    /\ AnswerWrong(r)
    /\ locks' = locks \cup KeysOf(r)
    /\ UNCHANGED <<up, fails, sessions>>

(* Either transaction fails: the answer is 503. *)
RecordLoginFailureFails(r) ==
    /\ Answer(r)
    /\ \/ /\ req[r].pc = "count"
          /\ fails' \in {fails, CountedUp(r)}
          /\ UNCHANGED locks
       \/ /\ req[r].pc = "lockout"
          /\ locks' \in {locks, locks \cup KeysOf(r)}
          /\ UNCHANGED fails
    /\ UNCHANGED <<up, tries, sessions>>

(* One DEL of both counts and both locks; its error is ignored. *)
ClearLoginFailures(r) ==
    /\ req[r].pc = "clear"
    /\ Goto(r, "issue")
    /\ \/ /\ fails' = [k \in Keys |-> IF k \in KeysOf(r) THEN 0 ELSE fails[k]]
          /\ tries' = [k \in Keys |-> IF k \in KeysOf(r) THEN 0 ELSE tries[k]]
          /\ locks' = locks \ KeysOf(r)
       \/ UNCHANGED <<fails, tries, locks>>
    /\ UNCHANGED <<up, sessions>>

(* IssueAgentTokenWithVersion, from the row that login or refresh has read. *)
IssueAgentToken(r) ==
    /\ req[r].pc \in {"issue", "renew"}
    /\ Answer(r)
    /\ tokens' = tokens \cup
          {[name |-> req[r].name, version |-> req[r].version,
            session |-> req[r].session, age |-> "fresh"]}
    /\ UNCHANGED <<up, gate, account, owner, ended>>

-----------------------------------------------------------------------------
(***************************************************************************)
(* Requests with a token: a refresh takes it also when it has expired, any *)
(* other route only before.  Both read the account's row.                  *)
(***************************************************************************)
Present(r, t, step) ==
    /\ up
    /\ req[r].pc = "idle"
    /\ t \in tokens
    /\ step = "auth" => t.age = "fresh"
    /\ req' = [req EXCEPT ![r].pc = step, ![r].name = t.name,
                          ![r].version = t.version, ![r].session = t.session]
    /\ UNCHANGED <<up, gate, sessions>>

RowAgrees(r) ==
    LET row == account[req[r].name] IN
    row.exists /\ row.active /\ row.version = req[r].version

AgentAuth(r) ==
    /\ req[r].pc = "auth"
    /\ \/ RowAgrees(r) /\ Goto(r, "handle")
       \/ Answer(r)          \* refused, or the row cannot be read
    /\ UNCHANGED <<up, gate, sessions>>

(* The new token says what the row says now. *)
RefreshAgentToken(r) ==
    LET row == account[req[r].name] IN
    /\ req[r].pc = "refresh"
    /\ \/ /\ RowAgrees(r)
          /\ req' = [req EXCEPT ![r].pc = "renew", ![r].version = row.version]
       \/ Answer(r)
    /\ UNCHANGED <<up, gate, sessions>>

-----------------------------------------------------------------------------
(***************************************************************************)
(* Handlers behind the check.  Which one a request is for matters only     *)
(* here.                                                                   *)
(***************************************************************************)
BumpAgentTokenVersion(n) ==
    /\ account[n].version < MaxVersion
    /\ account' = [account EXCEPT ![n].version = @ + 1]
    /\ ended' = ended \cup SessionsOf(n)

(* One statement sets the flag and advances the version. *)
SetAgentActive(n, active) ==
    /\ account[n].exists /\ account[n].version < MaxVersion
    /\ account' = [account EXCEPT ![n] =
                      [exists |-> TRUE, active |-> active, version |-> @.version + 1]]
    /\ ended' = IF active THEN ended ELSE ended \cup SessionsOf(n)

(* Closing the sockets of the account is HubRegistry's part. *)
AgentLogout(r) ==
    /\ req[r].pc = "handle"
    /\ Answer(r)
    /\ BumpAgentTokenVersion(req[r].name)
    /\ UNCHANGED <<up, gate, tokens, owner>>

AdminOnly(r) == req[r].pc = "handle" /\ req[r].name \in Admins

DisableAgent(r, n, active) ==
    /\ AdminOnly(r)
    /\ Answer(r)
    /\ SetAgentActive(n, active)
    /\ UNCHANGED <<up, gate, tokens, owner>>

(* The unique key of the table refuses a name that is taken. *)
CreateAgent(r, n) ==
    /\ AdminOnly(r)
    /\ ~account[n].exists
    /\ Answer(r)
    /\ account' = [account EXCEPT ![n] = NewAccount]
    /\ UNCHANGED <<up, gate, tokens, owner, ended>>

(***************************************************************************)
(* The other routes; 403 from AdminOnly, 400, 409 or 500 from the three    *)
(* handlers above when nothing was written.                                *)
(***************************************************************************)
HandleOther(r) ==
    /\ req[r].pc = "handle"
    /\ Answer(r)
    /\ UNCHANGED <<up, gate, sessions>>

-----------------------------------------------------------------------------
(***************************************************************************)
(* Time: a key of Redis lapses, a token expires, and after a day more it   *)
(* is of no use.                                                           *)
(***************************************************************************)
Lapse(k) ==
    \/ /\ fails' = [fails EXCEPT ![k] = 0]
       /\ tries' = [tries EXCEPT ![k] = 0]
       /\ UNCHANGED locks
    \/ /\ k \in locks
       /\ locks' = locks \ {k}
       /\ tries' = [tries EXCEPT ![k] = 0]
       /\ UNCHANGED fails

RedisLapses ==
    /\ \E k \in Keys : Lapse(k)
    /\ UNCHANGED <<up, req, sessions>>

TokenAges ==
    /\ \E t \in tokens :
          \/ /\ t.age = "fresh"
             /\ tokens' = (tokens \ {t}) \cup {[t EXCEPT !.age = "expired"]}
          \/ /\ t.age = "expired"
             /\ tokens' = tokens \ {t}
    /\ UNCHANGED <<up, gate, req, account, owner, ended>>

-----------------------------------------------------------------------------
LoginStep(r) ==
    \/ \E n \in Typed, s \in Sources : AgentLogin(r, n, s)
    \/ AllowAction(r)
    \/ LoginLocked(r)
    \/ LoginCaptchaRequired(r)
    \/ VerifyCaptcha(r)
    \/ IssueCaptcha(r)
    \/ PasswordRefused(r)
    \/ \E s \in Sessions : PasswordAccepted(r, s)
    \/ CountFailure(r)
    \/ LockOut(r)
    \/ RecordLoginFailureFails(r)
    \/ ClearLoginFailures(r)
    \/ IssueAgentToken(r)

HolderStep(r) ==
    \/ \E t \in tokens, step \in {"auth", "refresh"} : Present(r, t, step)
    \/ AgentAuth(r)
    \/ RefreshAgentToken(r)
    \/ AgentLogout(r)
    \/ \E n \in Names, active \in BOOLEAN : DisableAgent(r, n, active)
    \/ \E n \in Names : CreateAgent(r, n)
    \/ HandleOther(r)

Next ==
    \/ EnsureBootstrapAdmin
    \/ Stop
    \/ \E r \in Requests : LoginStep(r) \/ HolderStep(r)
    \/ RedisLapses
    \/ TokenAges

Spec == Init /\ [][Next]_vars

-----------------------------------------------------------------------------
(***************************************************************************)
(* Guessing is bounded although the lock is checked long before the        *)
(* failure is counted: between two lapses a name, and a source, is told    *)
(* "wrong" at most once less than the limit, and once more by each request *)
(* that had passed the check before the lock was set.  Names tried from    *)
(* many sources and sources that try many names share counts and locks     *)
(* (security-release-0.7.4.md, item 6: five failures lock for 15 minutes). *)
(***************************************************************************)
TriesAreBounded ==
    \A k \in Keys : tries[k] <= MaxFailures - 1 + Cardinality(Requests)

(***************************************************************************)
(* No request is let in on a session that a logout, or the disabling of    *)
(* its account, had ended: not with an older token of it, not with one     *)
(* that a refresh or a slow login issued after the end, and not after the  *)
(* account was enabled again (security-release-0.7.4.md, item 5: the old   *)
(* token is void at once; a refresh checks the version too).               *)
(***************************************************************************)
SessionIsCurrent ==
    [][\A r \in Requests :
          req[r].pc = "auth" /\ req'[r].pc = "handle" =>
              req[r].session \notin ended /\ account[req[r].name].active]_vars

=============================================================================
