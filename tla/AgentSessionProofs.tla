------------------------- MODULE AgentSessionProofs -------------------------
(***************************************************************************)
(* Proofs about AgentSession for every number of requests, names, sources  *)
(* and sessions and any limits.                                            *)
(*                                                                         *)
(* The bound on tries is not inductive: what has to be counted with the    *)
(* wrong answers given are those that may still come, of the requests past *)
(* the key's lock check.  While a key is not locked its wrong answers are  *)
(* no more than its count, which is below the limit for each of them;      *)
(* once it is locked, every further wrong answer is of a request that was  *)
(* past the check, and leaves one such request less.                       *)
(*                                                                         *)
(* For sessions the invariant follows the version: whatever carries an     *)
(* ended session, token or request, carries a version that the account has *)
(* left behind.                                                            *)
(***************************************************************************)
EXTENDS AgentSession, FiniteSetTheorems, TLAPS

(* The name, address and session that a request has by its step.           *)
RequestsAreNamed ==
    \A r \in Requests :
        /\ req[r].pc \in LoginSteps \ {"issue"} => req[r].name \in Names /\ req[r].from \in Sources
        /\ req[r].pc \in {"clear", "issue"} \cup HolderSteps =>
              req[r].name \in Names /\ req[r].session \in Sessions

Shape == TypeOK /\ RequestsAreNamed

(* The requests whose wrong password may still be answered for key k.      *)
PastCheck(q, k) ==
    /\ k \in {q.name, q.from}
    /\ \/ q.pc \in PasswordSteps
       \/ q.pc = "lock_from" /\ k \in Names

Past(k) == {r \in Requests : PastCheck(req[r], k)}

TriesAreCounted ==
    \A k \in Keys : k \notin locks => tries[k] <= fails[k] /\ tries[k] <= MaxFailures - 1

Room(k) == tries[k] + Cardinality(Past(k)) <= MaxFailures - 1 + Cardinality(Requests)

RoomIsLeft == \A k \in Keys : Room(k)

GateInv == TriesAreCounted /\ RoomIsLeft

(* What carries version v of session s of account n.                       *)
Carried(n, v, s) ==
    /\ n \in Names /\ s \in Sessions
    /\ owner[s] = n
    /\ v <= account[n].version
    /\ s \in ended => v < account[n].version

SessionsAreOwned ==
    \A s \in Sessions : /\ owner[s] # None => account[owner[s]].exists
                        /\ s \in ended => owner[s] # None

TokensAreCarried ==
    \A t \in tokens : Carried(t.name, t.version, t.session)

RequestsAreCarried ==
    \A r \in Requests :
        req[r].pc \in {"clear", "issue"} \cup HolderSteps =>
            Carried(req[r].name, req[r].version, req[r].session)

SessionInv == SessionsAreOwned /\ TokensAreCarried /\ RequestsAreCarried

SessionIInv == Shape /\ GateInv /\ SessionInv

-----------------------------------------------------------------------------
USE SessionAssumption DEF Keys, LoginSteps, HolderSteps, PasswordSteps

LEMMA NewAccountType == NewAccount \in Accounts /\ NoAccount \in Accounts
BY DEF NewAccount, NoAccount, Accounts

LEMMA IdleType == Idle \in Reqs
BY DEF Idle, Reqs

LEMMA SessionInitTypes == Init => TypeOK
<1> SUFFICES ASSUME Init PROVE TypeOK
  OBVIOUS
<1>1. 0 \in 0..MaxFailures /\ 0 \in Nat
  OBVIOUS
<1>2. /\ fails \in [Keys -> 0..MaxFailures]
      /\ tries \in [Keys -> Nat]
      /\ owner \in [Sessions -> Names \cup {None}]
  BY <1>1 DEF Init
<1>3. account \in [Names -> Accounts] /\ req \in [Requests -> Reqs]
  BY NewAccountType, IdleType DEF Init
<1>4. QED
  BY <1>2, <1>3 DEF Init, TypeOK

(* A request moved on, or answered, is still a request.                    *)
Steps == {"idle"} \cup LoginSteps \cup HolderSteps

LEMMA SessionInitShape == Init => Shape
BY SessionInitTypes DEF Init, Shape, RequestsAreNamed, Idle

(* A step that changes one request, and how.                               *)
Becomes(r, q) == req' = [req EXCEPT ![r] = q]

LEMMA GotoBecomes ==
  ASSUME TypeOK, NEW r \in Requests, NEW step \in Steps, Goto(r, step)
  PROVE  /\ [req[r] EXCEPT !.pc = step] \in Reqs
         /\ Becomes(r, [req[r] EXCEPT !.pc = step])
BY DEF TypeOK, Reqs, Goto, Becomes, Steps

(* The two steps of a login that set more than where it stands.            *)
LEMMA LoginBecomes ==
  ASSUME NEW r \in Requests, NEW n, NEW s, req[r] \in Reqs, AgentLogin(r, n, s)
  PROVE  Becomes(r, [req[r] EXCEPT !.pc = "window_from", !.name = n, !.from = s])
<1>1. req' = [req EXCEPT ![r].pc = "window_from", ![r].name = n, ![r].from = s]
  BY DEF AgentLogin
<1>2. QED
  BY <1>1 DEF Becomes, Reqs

LEMMA AcceptedBecomes ==
  ASSUME NEW r \in Requests, NEW s, req[r] \in Reqs, PasswordAccepted(r, s)
  PROVE  Becomes(r, [req[r] EXCEPT !.pc = "clear", !.session = s,
                                   !.version = account[req[r].name].version])
<1> DEFINE v == account[req[r].name].version
<1>1. req' = [req EXCEPT ![r].pc = "clear", ![r].session = s, ![r].version = v]
  BY DEF PasswordAccepted
<1> HIDE DEF v
<1>2. Becomes(r, [req[r] EXCEPT !.pc = "clear", !.session = s, !.version = v])
  BY <1>1 DEF Becomes, Reqs
<1>3. QED
  BY <1>2 DEF v

LEMMA AnswerBecomes ==
  ASSUME NEW r \in Requests, Answer(r)
  PROVE  Idle \in Reqs /\ Becomes(r, Idle)
BY IdleType DEF Answer, Becomes

(* A request is well named: what RequestsAreNamed says of it.              *)
Named(q) ==
    /\ q.pc \in LoginSteps \ {"issue"} => q.name \in Names /\ q.from \in Sources
    /\ q.pc \in {"clear", "issue"} \cup HolderSteps =>
          q.name \in Names /\ q.session \in Sessions

LEMMA BecomesShape ==
  ASSUME Shape, NEW r \in Requests, NEW q \in Reqs, Becomes(r, q), Named(q)
  PROVE  req' \in [Requests -> Reqs] /\ RequestsAreNamed'
<1>1. req' \in [Requests -> Reqs]
  BY DEF Shape, TypeOK, Becomes
<1>2. ASSUME NEW p \in Requests
      PROVE  Named(req'[p])
  <2>1. Named(req[p])
    BY DEF Shape, RequestsAreNamed, Named
  <2>2. req'[p] = q \/ req'[p] = req[p]
    BY DEF Shape, TypeOK, Becomes
  <2>3. QED
    BY <2>1, <2>2
<1>3. QED
  BY <1>1, <1>2 DEF RequestsAreNamed, Named

LEMMA AnswerShape ==
  ASSUME Shape, NEW r \in Requests, Answer(r)
  PROVE  req' \in [Requests -> Reqs] /\ RequestsAreNamed'
BY AnswerBecomes, BecomesShape DEF Named, Idle

(* Moving on keeps the names as long as the login goes on.                 *)
LEMMA GotoShape ==
  ASSUME Shape, NEW r \in Requests, NEW step \in Steps, Goto(r, step),
         \/ req[r].pc \in LoginSteps \ {"issue"} /\ step \in LoginSteps \ {"clear", "issue"}
         \/ req[r].pc = "clear" /\ step = "issue"
         \/ req[r].pc \in HolderSteps /\ step \in HolderSteps
  PROVE  req' \in [Requests -> Reqs] /\ RequestsAreNamed'
<1>1. Named([req[r] EXCEPT !.pc = step])
  <2>1. Named(req[r]) /\ req[r] \in Reqs
    BY DEF Shape, TypeOK, RequestsAreNamed, Named
  <2>2. QED
    BY <2>1 DEF Named, Reqs
<1>2. QED
  BY <1>1, GotoBecomes, BecomesShape DEF Shape

LEMMA CountedUpTypes ==
  ASSUME TypeOK, NEW r \in Requests
  PROVE  CountedUp(r) \in [Keys -> 0..MaxFailures]
<1>1. ASSUME NEW k \in Keys
      PROVE  fails[k] \in 0..MaxFailures
                /\ (fails[k] < MaxFailures => fails[k] + 1 \in 0..MaxFailures)
  BY DEF TypeOK
<1>2. QED
  BY <1>1 DEF CountedUp

LEMMA WrongTypes ==
  ASSUME TypeOK, NEW r \in Requests, AnswerWrong(r)
  PROVE  tries' \in [Keys -> Nat]
BY DEF TypeOK, AnswerWrong

(* A new version, with or without a new flag, is a row again.              *)
LEMMA VersionTypes ==
  ASSUME TypeOK, NEW n \in Names, account[n].version < MaxVersion,
         \/ account' = [account EXCEPT ![n].version = @ + 1]
         \/ \E active \in BOOLEAN :
              account' = [account EXCEPT ![n] =
                [exists |-> TRUE, active |-> active, version |-> @.version + 1]],
         ended' \in {ended, ended \cup SessionsOf(n)}
  PROVE  account' \in [Names -> Accounts] /\ ended' \subseteq Sessions
<1>1. account[n] \in Accounts /\ account[n].version + 1 \in 0..MaxVersion
  BY DEF TypeOK, Accounts
<1>2. account' \in [Names -> Accounts]
  <2>1. /\ [account[n] EXCEPT !.version = account[n].version + 1] \in Accounts
        /\ \A active \in BOOLEAN :
              [exists |-> TRUE, active |-> active, version |-> account[n].version + 1]
                 \in Accounts
    BY <1>1 DEF Accounts
  <2>2. QED
    BY <2>1 DEF TypeOK
<1>3. ended' \subseteq Sessions
  BY DEF TypeOK, SessionsOf
<1>4. QED
  BY <1>2, <1>3

LEMMA KeysOfTypes ==
  ASSUME NEW r \in Requests
  PROVE  KeysOf(r) \subseteq Keys
BY DEF KeysOf

-----------------------------------------------------------------------------
LEMMA LoginShape ==
  ASSUME Shape, NEW r \in Requests, LoginStep(r)
  PROVE  Shape'
<1> USE DEF Steps
<1>1. ASSUME NEW n \in Typed, NEW s \in Sources, AgentLogin(r, n, s)
      PROVE  Shape'
  <2> DEFINE q == [req[r] EXCEPT !.pc = "window_from", !.name = n, !.from = s]
  <2>0. req[r] \in Reqs /\ n \in Names
    BY <1>1 DEF Shape, TypeOK
  <2>1. q \in Reqs /\ Named(q)
    BY <1>1, <2>0 DEF Reqs, Named
  <2>2. Becomes(r, q)
    BY <1>1, <2>0, LoginBecomes
  <2>3. QED
    BY <1>1, <2>1, <2>2, BecomesShape DEF AgentLogin, Shape, TypeOK, gate, sessions
<1>2. CASE \/ AllowAction(r) \/ LoginLocked(r) \/ LoginCaptchaRequired(r)
           \/ VerifyCaptcha(r) \/ IssueCaptcha(r) \/ PasswordRefused(r)
  <2>1. \/ /\ req[r].pc \in LoginSteps \ {"issue"}
           /\ \E step \in LoginSteps \ {"clear", "issue"} : Goto(r, step)
        \/ Answer(r)
    BY <1>2 DEF AllowAction, Allow, LoginLocked, LoginLockedBy, LoginCaptchaRequired,
                VerifyCaptcha, IssueCaptcha, PasswordRefused
  <2>2. UNCHANGED <<up, gate, sessions>>
    BY <1>2 DEF AllowAction, Allow, LoginLocked, LoginLockedBy, LoginCaptchaRequired,
                VerifyCaptcha, IssueCaptcha, PasswordRefused
  <2>3. req' \in [Requests -> Reqs] /\ RequestsAreNamed'
    BY <2>1, AnswerShape, GotoShape
  <2>4. QED
    BY <2>2, <2>3 DEF Shape, TypeOK, gate, sessions
<1>3. ASSUME NEW s \in Sessions, PasswordAccepted(r, s)
      PROVE  Shape'
  <2> DEFINE v == account[req[r].name].version
             q == [req[r] EXCEPT !.pc = "clear", !.session = s, !.version = v]
  <2>1. req[r] \in Reqs /\ req[r].name \in Names /\ req[r].from \in Sources
    BY <1>3 DEF PasswordAccepted, Shape, TypeOK, RequestsAreNamed
  <2>2. v \in 0..MaxVersion
    BY <2>1 DEF Shape, TypeOK, Accounts
  <2>3. q \in Reqs /\ Named(q)
    BY <2>1, <2>2 DEF Reqs, Named
  <2>4. Becomes(r, q)
    BY <1>3, <2>1, AcceptedBecomes
  <2>5. owner' \in [Sessions -> Names \cup {None}]
    BY <1>3, <2>1 DEF PasswordAccepted, Shape, TypeOK
  <2>6. QED
    BY <1>3, <2>3, <2>4, <2>5, BecomesShape DEF PasswordAccepted, Shape, TypeOK, gate
<1>4. CASE CountFailure(r)
  <2>1. req' \in [Requests -> Reqs] /\ RequestsAreNamed'
    BY <1>4, AnswerShape, GotoShape DEF CountFailure, AnswerWrong
  <2>2. fails' \in [Keys -> 0..MaxFailures]
    BY <1>4, CountedUpTypes DEF CountFailure, Shape
  <2>3. tries' \in [Keys -> Nat]
    BY <1>4, WrongTypes DEF CountFailure, Shape, TypeOK
  <2>4. QED
    BY <1>4, <2>1, <2>2, <2>3 DEF CountFailure, Shape, TypeOK, sessions
<1>5. CASE LockOut(r)
  <2>1. req' \in [Requests -> Reqs] /\ RequestsAreNamed' /\ tries' \in [Keys -> Nat]
    BY <1>5, AnswerShape, WrongTypes DEF LockOut, AnswerWrong, Shape
  <2>2. locks' \subseteq Keys
    BY <1>5, KeysOfTypes DEF LockOut, Shape, TypeOK
  <2>3. QED
    BY <1>5, <2>1, <2>2 DEF LockOut, Shape, TypeOK, sessions
<1>6. CASE RecordLoginFailureFails(r)
  <2>1. req' \in [Requests -> Reqs] /\ RequestsAreNamed'
    BY <1>6, AnswerShape DEF RecordLoginFailureFails
  <2>2. fails' \in [Keys -> 0..MaxFailures]
    BY <1>6, CountedUpTypes DEF RecordLoginFailureFails, Shape, TypeOK
  <2>3. locks' \subseteq Keys
    BY <1>6, KeysOfTypes DEF RecordLoginFailureFails, Shape, TypeOK
  <2>4. QED
    BY <1>6, <2>1, <2>2, <2>3 DEF RecordLoginFailureFails, Shape, TypeOK, sessions
<1>7. CASE ClearLoginFailures(r)
  <2>1. req' \in [Requests -> Reqs] /\ RequestsAreNamed'
    BY <1>7, GotoShape DEF ClearLoginFailures
  <2>2. fails' \in [Keys -> 0..MaxFailures] /\ tries' \in [Keys -> Nat]
    BY <1>7 DEF ClearLoginFailures, Shape, TypeOK
  <2>3. QED
    BY <1>7, <2>1, <2>2 DEF ClearLoginFailures, Shape, TypeOK, sessions
<1>8. CASE IssueAgentToken(r)
  <2>1. req' \in [Requests -> Reqs] /\ RequestsAreNamed'
    BY <1>8, AnswerShape DEF IssueAgentToken
  <2>2. /\ req[r].name \in Names /\ req[r].session \in Sessions
        /\ req[r].version \in 0..MaxVersion
    BY <1>8 DEF IssueAgentToken, Shape, TypeOK, RequestsAreNamed, Reqs
  <2>3. tokens' \subseteq Tokens
    BY <1>8, <2>2 DEF IssueAgentToken, Shape, TypeOK, Tokens
  <2>4. QED
    BY <1>8, <2>1, <2>3 DEF IssueAgentToken, Shape, TypeOK, gate
<1>9. QED
  BY <1>1, <1>2, <1>3, <1>4, <1>5, <1>6, <1>7, <1>8 DEF LoginStep

LEMMA HolderShape ==
  ASSUME Shape, NEW r \in Requests, HolderStep(r)
  PROVE  Shape'
<1> USE DEF Steps
<1>1. ASSUME NEW t \in tokens, NEW step \in {"auth", "refresh"}, Present(r, t, step)
      PROVE  Shape'
  <2> DEFINE q == [req[r] EXCEPT !.pc = step, !.name = t.name,
                                 !.version = t.version, !.session = t.session]
  <2>1. t \in Tokens /\ req[r] \in Reqs
    BY <1>1 DEF Shape, TypeOK
  <2>2. q \in Reqs /\ Named(q)
    BY <1>1, <2>1 DEF Tokens, Reqs, Named
  <2>3. Becomes(r, q)
    BY <1>1, <2>1 DEF Present, Becomes, Reqs
  <2>4. QED
    BY <1>1, <2>2, <2>3, BecomesShape DEF Present, Shape, TypeOK, gate, sessions
<1>2. CASE AgentAuth(r) \/ HandleOther(r)
  <2>1. /\ \/ Goto(r, "handle") /\ req[r].pc = "auth"
           \/ Answer(r)
        /\ UNCHANGED <<up, gate, sessions>>
    BY <1>2 DEF AgentAuth, HandleOther
  <2>2. req' \in [Requests -> Reqs] /\ RequestsAreNamed'
    BY <2>1, AnswerShape, GotoShape
  <2>3. QED
    BY <2>1, <2>2 DEF Shape, TypeOK, gate, sessions
<1>3. CASE RefreshAgentToken(r)
  <2>1. CASE Answer(r)
    BY <1>3, <2>1, AnswerShape DEF RefreshAgentToken, Shape, TypeOK, gate, sessions
  <2>2. CASE ~Answer(r)
    <3> DEFINE v == account[req[r].name].version
               q == [req[r] EXCEPT !.pc = "renew", !.version = v]
    <3>1. req[r] \in Reqs /\ req[r].name \in Names /\ req[r].session \in Sessions
      BY <1>3 DEF RefreshAgentToken, Shape, TypeOK, RequestsAreNamed
    <3>2. v \in 0..MaxVersion
      BY <3>1 DEF Shape, TypeOK, Accounts
    <3>3. q \in Reqs /\ Named(q)
      BY <3>1, <3>2 DEF Reqs, Named
    <3>4. Becomes(r, q)
      BY <1>3, <2>2, <3>1 DEF RefreshAgentToken, Becomes, Reqs
    <3>5. QED
      BY <1>3, <3>3, <3>4, BecomesShape DEF RefreshAgentToken, Shape, TypeOK, gate, sessions
  <2>3. QED
    BY <2>1, <2>2
<1>4. ASSUME AgentLogout(r) \/ (\E n \in Names, active \in BOOLEAN : DisableAgent(r, n, active))
                 \/ (\E n \in Names : CreateAgent(r, n))
      PROVE  Shape'
  <2>1. Answer(r) /\ UNCHANGED <<up, gate, tokens, owner>>
    BY <1>4 DEF AgentLogout, DisableAgent, CreateAgent, AdminOnly
  <2>2. req' \in [Requests -> Reqs] /\ RequestsAreNamed'
    BY <2>1, AnswerShape
  <2>3. account' \in [Names -> Accounts] /\ ended' \subseteq Sessions
    <3>1. CASE AgentLogout(r)
      <4>1. req[r].name \in Names
        BY <3>1 DEF AgentLogout, Shape, RequestsAreNamed
      <4>2. QED
        BY <3>1, <4>1, VersionTypes DEF AgentLogout, BumpAgentTokenVersion, Shape
    <3>2. ASSUME NEW n \in Names, NEW active \in BOOLEAN, DisableAgent(r, n, active)
          PROVE  account' \in [Names -> Accounts] /\ ended' \subseteq Sessions
      BY <3>2, VersionTypes DEF DisableAgent, SetAgentActive, Shape
    <3>3. ASSUME NEW n \in Names, CreateAgent(r, n)
          PROVE  account' \in [Names -> Accounts] /\ ended' \subseteq Sessions
      BY <3>3, NewAccountType DEF CreateAgent, Shape, TypeOK
    <3>4. QED
      BY <1>4, <3>1, <3>2, <3>3
  <2>4. QED
    BY <2>1, <2>2, <2>3 DEF Shape, TypeOK, gate
<1>5. QED
  BY <1>1, <1>2, <1>3, <1>4 DEF HolderStep

LEMMA SessionNextShape == Shape /\ [Next]_vars => Shape'
<1> SUFFICES ASSUME Shape, [Next]_vars PROVE Shape'
  OBVIOUS
<1>1. CASE EnsureBootstrapAdmin
  BY <1>1, NewAccountType DEF EnsureBootstrapAdmin, Shape, TypeOK, RequestsAreNamed, gate
<1>2. CASE Stop
  <2>1. req' \in [Requests -> Reqs] /\ RequestsAreNamed'
    BY <1>2, IdleType DEF Stop, RequestsAreNamed, Idle
  <2>2. QED
    BY <1>2, <2>1 DEF Stop, Shape, TypeOK, gate, sessions
<1>3. ASSUME NEW r \in Requests, LoginStep(r) \/ HolderStep(r)
      PROVE  Shape'
  BY <1>3, LoginShape, HolderShape
<1>4. CASE RedisLapses
  <2>1. PICK k \in Keys : Lapse(k)
    BY <1>4 DEF RedisLapses
  <2>2. /\ fails' \in [Keys -> 0..MaxFailures] /\ tries' \in [Keys -> Nat]
        /\ locks' \subseteq Keys
    BY <2>1 DEF Lapse, Shape, TypeOK
  <2>3. QED
    BY <1>4, <2>2 DEF RedisLapses, Shape, TypeOK, RequestsAreNamed, sessions
<1>5. CASE TokenAges
  <2>1. tokens' \subseteq Tokens
    BY <1>5 DEF TokenAges, Shape, TypeOK, Tokens
  <2>2. QED
    BY <1>5, <2>1 DEF TokenAges, Shape, TypeOK, RequestsAreNamed, gate
<1>6. CASE UNCHANGED vars
  BY <1>6 DEF vars, gate, sessions, Shape, TypeOK, RequestsAreNamed
<1>7. QED
  BY <1>1, <1>2, <1>3, <1>4, <1>5, <1>6 DEF Next

(***************************************************************************)
(* The types hold, and every request that a step works on carries the name *)
(* and session that the step uses (handler/http.go, AgentLogin and         *)
(* RefreshAgentToken).                                                     *)
(***************************************************************************)
THEOREM SessionTypeCorrect == Spec => []TypeOK
<1>1. Init => Shape
  BY SessionInitShape
<1>2. Shape /\ [Next]_vars => Shape'
  BY SessionNextShape
<1>3. Shape => TypeOK
  BY DEF Shape
<1>4. QED
  BY <1>1, <1>2, <1>3, PTL DEF Spec

-----------------------------------------------------------------------------
(* Past(k) is a set of requests, so it has a cardinality.                  *)
LEMMA PastCounts ==
  ASSUME NEW k
  PROVE  /\ IsFiniteSet(Past(k)) /\ Cardinality(Past(k)) \in Nat
         /\ Cardinality(Requests) \in Nat
         /\ Cardinality(Past(k)) <= Cardinality(Requests)
<1>1. Past(k) \subseteq Requests
  BY DEF Past
<1>2. QED
  BY <1>1, FS_Subset, FS_CardinalityType

LEMMA PastCountsNext ==
  ASSUME NEW k
  PROVE  /\ IsFiniteSet(Past(k)') /\ Cardinality(Past(k)') \in Nat
         /\ Cardinality(Past(k)') <= Cardinality(Requests)
<1>1. Past(k)' \subseteq Requests
  BY DEF Past
<1>2. QED
  BY <1>1, FS_Subset, FS_CardinalityType

(* Room stays where nobody passes the check and no wrong answer is given;  *)
LEMMA RoomKept ==
  ASSUME NEW k \in Keys, TypeOK, TypeOK', Room(k),
         Past(k)' \subseteq Past(k), tries'[k] <= tries[k]
  PROVE  Room(k)'
<1> DEFINE n == Cardinality(Past(k))
           m == Cardinality(Past(k)')
           all == Cardinality(Requests)
<1>1. n \in Nat /\ m \in Nat /\ all \in Nat /\ m <= n
  BY PastCounts, FS_Subset, FS_CardinalityType
<1>2. tries[k] \in Nat /\ tries'[k] \in Nat
  BY DEF TypeOK
<1>3. tries[k] + n <= MaxFailures - 1 + all
  BY DEF Room
<1> HIDE DEF n, m, all
<1>4. tries'[k] + m <= MaxFailures - 1 + all
  BY <1>1, <1>2, <1>3
<1>5. QED
  BY <1>4 DEF Room, m, all

(* it stays when a request that was past the check is told "wrong";        *)
LEMMA RoomMoved ==
  ASSUME NEW k \in Keys, NEW r \in Past(k), TypeOK, TypeOK', Room(k),
         Past(k)' \subseteq Past(k) \ {r}, tries'[k] <= tries[k] + 1
  PROVE  Room(k)'
<1> DEFINE n == Cardinality(Past(k))
           m == Cardinality(Past(k)')
           l == Cardinality(Past(k) \ {r})
           all == Cardinality(Requests)
<1>1. n \in Nat /\ all \in Nat /\ IsFiniteSet(Past(k))
  BY PastCounts
<1>2. l \in Nat /\ l = n - 1 /\ IsFiniteSet(Past(k) \ {r})
  <2>1. l = n - 1 /\ IsFiniteSet(Past(k) \ {r})
    BY <1>1, FS_RemoveElement
  <2>2. l \in Nat
    BY <2>1, FS_CardinalityType
  <2>3. QED
    BY <2>1, <2>2
<1>3. m \in Nat /\ m <= l
  BY <1>2, FS_Subset, FS_CardinalityType
<1>4. tries[k] \in Nat /\ tries'[k] \in Nat
  BY DEF TypeOK
<1>5. tries[k] + n <= MaxFailures - 1 + all
  BY DEF Room
<1> HIDE DEF n, m, l, all
<1>6. tries'[k] + m <= MaxFailures - 1 + all
  BY <1>1, <1>2, <1>3, <1>4, <1>5
<1>7. QED
  BY <1>6 DEF Room, m, all

(* and there is room for every request while few wrong answers were given. *)
LEMMA RoomForAll ==
  ASSUME NEW k \in Keys, TypeOK', tries'[k] <= MaxFailures - 1
  PROVE  Room(k)'
<1> DEFINE m == Cardinality(Past(k)')
           all == Cardinality(Requests)
<1>1. m \in Nat /\ all \in Nat /\ m <= all
  BY PastCounts, PastCountsNext
<1>2. tries'[k] \in Nat
  BY DEF TypeOK
<1> HIDE DEF m, all
<1>3. tries'[k] + m <= MaxFailures - 1 + all
  BY <1>1, <1>2
<1>4. QED
  BY <1>3 DEF Room, m, all

(* What one request's step does to the requests past a check.              *)
LEMMA BecomesPast ==
  ASSUME Shape, NEW r \in Requests, NEW q, Becomes(r, q), NEW k
  PROVE  /\ (PastCheck(q, k) => PastCheck(req[r], k)) => Past(k)' \subseteq Past(k)
         /\ ~PastCheck(q, k) => Past(k)' \subseteq Past(k) \ {r}
<1>1. req \in [Requests -> Reqs]
  BY DEF Shape, TypeOK
<1>2. req'[r] = q /\ \A p \in Requests \ {r} : req'[p] = req[p]
  BY <1>1 DEF Becomes
<1>3. ASSUME NEW p \in Past(k)'
      PROVE  p \in Requests /\ PastCheck(req'[p], k)
  BY <1>3 DEF Past
<1>4. QED
  BY <1>2, <1>3 DEF Past

(* A step of a request that does not touch the counts and does not bring   *)
(* it past a check.                                                        *)
LEMMA GateKept ==
  ASSUME Shape, Shape', GateInv, NEW r \in Requests, NEW q, Becomes(r, q),
         UNCHANGED gate,
         \A k \in Keys : PastCheck(q, k) => PastCheck(req[r], k) \/ k \notin locks
  PROVE  GateInv'
<1>1. ASSUME NEW k \in Keys
      PROVE  Room(k)'
  <2>1. Room(k) /\ tries' = tries /\ TypeOK /\ TypeOK' /\ tries[k] \in Nat
    BY DEF GateInv, RoomIsLeft, gate, Shape, TypeOK
  <2>2. CASE PastCheck(q, k) => PastCheck(req[r], k)
    BY <2>1, <2>2, BecomesPast, RoomKept
  <2>3. CASE k \notin locks
    BY <2>1, <2>3, RoomForAll DEF GateInv, TriesAreCounted
  <2>4. QED
    BY <2>2, <2>3
<1>2. TriesAreCounted'
  BY DEF GateInv, TriesAreCounted, gate
<1>3. QED
  BY <1>1, <1>2 DEF GateInv, RoomIsLeft

LEMMA AnswerKept ==
  ASSUME Shape, Shape', GateInv, NEW r \in Requests, Answer(r), UNCHANGED gate
  PROVE  GateInv'
<1>1. Becomes(r, Idle) /\ \A k : ~PastCheck(Idle, k)
  BY AnswerBecomes DEF PastCheck, Idle
<1>2. QED
  BY <1>1, GateKept

LEMMA GotoKept ==
  ASSUME Shape, Shape', GateInv, NEW r \in Requests, NEW step \in Steps, Goto(r, step),
         UNCHANGED gate,
         step \in PasswordSteps => req[r].pc \in PasswordSteps,
         step # "lock_from"
  PROVE  GateInv'
<1> DEFINE q == [req[r] EXCEPT !.pc = step]
<1>1. Becomes(r, q) /\ req[r] \in Reqs
  BY GotoBecomes DEF Shape, TypeOK
<1>2. q.pc = step /\ q.name = req[r].name /\ q.from = req[r].from
  BY <1>1 DEF Reqs
<1>3. \A k \in Keys : PastCheck(q, k) => PastCheck(req[r], k)
  BY <1>2 DEF PastCheck
<1> HIDE DEF q
<1>4. QED
  BY <1>1, <1>3, GateKept

-----------------------------------------------------------------------------
(* The names of a login that counts are the two keys it counts under.      *)
LEMMA KeysAreNamed ==
  ASSUME Shape, NEW r \in Requests, req[r].pc \in LoginSteps \ {"issue"}
  PROVE  KeysOf(r) = {req[r].name, req[r].from}
BY DEF Shape, RequestsAreNamed, KeysOf

(***************************************************************************)
(* A wrong answer: one more for both keys, and the request is past their   *)
(* checks no longer.                                                       *)
(***************************************************************************)
LEMMA WrongKept ==
  ASSUME Shape, Shape', GateInv, NEW r \in Requests, req[r].pc \in PasswordSteps,
         AnswerWrong(r),
         \A k \in Keys : k \notin locks' =>
             /\ k \notin locks
             /\ k \in KeysOf(r) => fails'[k] = fails[k] + 1 /\ fails'[k] <= MaxFailures - 1
             /\ fails'[k] >= fails[k]
  PROVE  GateInv'
<1>1. Becomes(r, Idle) /\ \A k : ~PastCheck(Idle, k)
  BY AnswerBecomes DEF AnswerWrong, PastCheck, Idle
<1>2. ASSUME NEW k \in Keys
      PROVE  /\ tries[k] \in Nat /\ fails[k] \in Nat /\ fails'[k] \in Nat
             /\ k \in KeysOf(r) => tries'[k] = tries[k] + 1
             /\ k \notin KeysOf(r) => tries'[k] = tries[k]
  BY DEF AnswerWrong, Shape, TypeOK
<1>3. ASSUME NEW k \in Keys
      PROVE  Room(k)'
  <2>1. Room(k) /\ TypeOK /\ TypeOK' /\ Past(k)' \subseteq Past(k) \ {r}
    BY <1>1, BecomesPast DEF GateInv, RoomIsLeft, Shape
  <2>2. CASE k \in KeysOf(r)
    <3>1. r \in Past(k)
      <4>1. k \in {req[r].name, req[r].from}
        BY <2>2 DEF KeysOf
      <4>2. PastCheck(req[r], k)
        BY <4>1 DEF PastCheck
      <4>3. QED
        BY <4>2 DEF Past
    <3>2. tries'[k] <= tries[k] + 1
      BY <1>2, <2>2
    <3>3. QED
      BY <2>1, <3>1, <3>2, RoomMoved
  <2>3. CASE k \notin KeysOf(r)
    <3>1. tries'[k] <= tries[k]
      BY <1>2, <2>3
    <3>2. QED
      BY <2>1, <3>1, RoomKept
  <2>4. QED
    BY <2>2, <2>3
<1>4. ASSUME NEW k \in Keys, k \notin locks'
      PROVE  tries'[k] <= fails'[k] /\ tries'[k] <= MaxFailures - 1
  <2>1. tries[k] <= fails[k] /\ tries[k] <= MaxFailures - 1
    BY <1>4 DEF GateInv, TriesAreCounted
  <2>2. QED
    BY <1>2, <1>4, <2>1
<1>5. QED
  BY <1>3, <1>4 DEF GateInv, RoomIsLeft, TriesAreCounted

(* Counts go up, locks come on, and the request leaves or goes on.         *)
LEMMA CountKept ==
  ASSUME Shape, Shape', GateInv, NEW r \in Requests,
         req[r].pc \in PasswordSteps,
         Answer(r) \/ Goto(r, "lockout"),
         UNCHANGED tries, locks \subseteq locks',
         \A k \in Keys : fails'[k] >= fails[k]
  PROVE  GateInv'
<1>1. PICK q : Becomes(r, q) /\ \A k : PastCheck(q, k) => PastCheck(req[r], k)
  <2>1. CASE Answer(r)
    BY <2>1, AnswerBecomes DEF PastCheck, Idle
  <2>2. CASE Goto(r, "lockout")
    <3> DEFINE q == [req[r] EXCEPT !.pc = "lockout"]
    <3>1. Becomes(r, q) /\ req[r] \in Reqs
      BY <2>2, GotoBecomes DEF Shape, TypeOK, Steps
    <3>2. q.name = req[r].name /\ q.from = req[r].from
      BY <3>1 DEF Reqs
    <3>3. q.pc = "lockout"
      BY <3>1 DEF Reqs
    <3>4. \A k : PastCheck(q, k) => PastCheck(req[r], k)
      BY <3>2, <3>3 DEF PastCheck
    <3> HIDE DEF q
    <3>5. QED
      BY <3>1, <3>4
  <2>3. QED
    BY <2>1, <2>2
<1>2. ASSUME NEW k \in Keys
      PROVE  /\ Room(k)'
             /\ k \notin locks' => tries'[k] <= fails'[k] /\ tries'[k] <= MaxFailures - 1
  <2>1. tries[k] \in Nat /\ fails[k] \in Nat /\ fails'[k] \in Nat /\ tries'[k] = tries[k]
    BY DEF Shape, TypeOK
  <2>2. Room(k) /\ TypeOK /\ TypeOK' /\ Past(k)' \subseteq Past(k)
    BY <1>1, BecomesPast DEF GateInv, RoomIsLeft, Shape
  <2>3. Room(k)'
    BY <2>1, <2>2, RoomKept
  <2>4. k \notin locks' => tries'[k] <= fails'[k] /\ tries'[k] <= MaxFailures - 1
    BY <2>1 DEF GateInv, TriesAreCounted
  <2>5. QED
    BY <2>3, <2>4
<1>3. QED
  BY <1>2 DEF GateInv, RoomIsLeft, TriesAreCounted

(* Fewer wrong answers on the books, and nobody new past a check: each key *)
(* that this unlocks, or whose count it takes away, starts anew.           *)
LEMMA ClearedKept ==
  ASSUME Shape, Shape', GateInv,
         \A k \in Keys : Past(k)' \subseteq Past(k),
         \A k \in Keys :
             \/ tries'[k] = 0
             \/ /\ tries'[k] = tries[k] /\ fails'[k] = fails[k]
                /\ k \in locks => k \in locks'
  PROVE  GateInv'
<1>1. ASSUME NEW k \in Keys
      PROVE  /\ Room(k)'
             /\ k \notin locks' => tries'[k] <= fails'[k] /\ tries'[k] <= MaxFailures - 1
  <2>1. /\ tries[k] \in Nat /\ fails[k] \in Nat /\ fails'[k] \in Nat /\ TypeOK /\ TypeOK'
        /\ Room(k)
    BY DEF Shape, TypeOK, GateInv, RoomIsLeft
  <2>2. CASE tries'[k] = 0
    <3>1. tries'[k] <= MaxFailures - 1 /\ tries'[k] <= fails'[k]
      BY <2>1, <2>2
    <3>2. QED
      BY <2>1, <3>1, RoomForAll
  <2>3. CASE tries'[k] = tries[k] /\ fails'[k] = fails[k] /\ (k \in locks => k \in locks')
    <3>1. Room(k)'
      BY <2>1, <2>3, RoomKept
    <3>2. QED
      BY <2>3, <3>1 DEF GateInv, TriesAreCounted
  <2>4. QED
    BY <2>2, <2>3
<1>2. QED
  BY <1>1 DEF GateInv, RoomIsLeft, TriesAreCounted

-----------------------------------------------------------------------------
(***************************************************************************)
(* The login, step by step: only the lock check brings a request past a    *)
(* key, and only then if the key is not locked.                            *)
(***************************************************************************)
LEMMA LoginGate ==
  ASSUME Shape, Shape', GateInv, NEW r \in Requests, LoginStep(r)
  PROVE  GateInv'
<1> USE DEF Steps
<1>0. req[r] \in Reqs
  BY DEF Shape, TypeOK
<1>1. ASSUME NEW n \in Typed, NEW s \in Sources, AgentLogin(r, n, s)
      PROVE  GateInv'
  <2> DEFINE q == [req[r] EXCEPT !.pc = "window_from", !.name = n, !.from = s]
  <2>1. Becomes(r, q) /\ UNCHANGED gate
    BY <1>1, <1>0, LoginBecomes DEF AgentLogin
  <2>2. q.pc = "window_from"
    BY <1>0 DEF Reqs
  <2>3. \A k \in Keys : ~PastCheck(q, k)
    BY <2>2 DEF PastCheck
  <2> HIDE DEF q
  <2>4. QED
    BY <2>1, <2>3, GateKept
<1>2. CASE AllowAction(r)
  <2>1. UNCHANGED gate
    BY <1>2 DEF AllowAction, Allow
  <2>2. Answer(r) \/ Goto(r, "window_name") \/ Goto(r, "lock_name")
    BY <1>2 DEF AllowAction, Allow
  <2>3. QED
    BY <2>1, <2>2, AnswerKept, GotoKept
<1>3. CASE LoginLocked(r)
  <2>1. UNCHANGED gate
    BY <1>3 DEF LoginLocked, LoginLockedBy
  <2>2. CASE Answer(r)
    BY <2>1, <2>2, AnswerKept
  <2>3. CASE req[r].pc = "lock_name" /\ req[r].name \notin locks /\ Goto(r, "lock_from")
    <3> DEFINE q == [req[r] EXCEPT !.pc = "lock_from"]
    <3>1. /\ q.pc = "lock_from" /\ q.name = req[r].name /\ q.from = req[r].from
          /\ req[r].from \in Sources
      BY <1>0, <2>3 DEF Reqs, Shape, RequestsAreNamed
    <3>2. Becomes(r, q)
      BY <2>3, GotoBecomes DEF Shape
    <3>3. \A k \in Keys : PastCheck(q, k) => k \notin locks
      BY <2>3, <3>1 DEF PastCheck
    <3> HIDE DEF q
    <3>4. QED
      BY <2>1, <3>2, <3>3, GateKept
  <2>4. CASE req[r].pc = "lock_from" /\ req[r].from \notin locks /\ Goto(r, "captcha")
    <3> DEFINE q == [req[r] EXCEPT !.pc = "captcha"]
    <3>1. /\ q.name = req[r].name /\ q.from = req[r].from
          /\ req[r].name \in Names
      BY <1>0, <2>4 DEF Reqs, Shape, RequestsAreNamed
    <3>2. Becomes(r, q)
      BY <2>4, GotoBecomes DEF Shape
    <3>3. \A k \in Keys : PastCheck(q, k) => PastCheck(req[r], k) \/ k \notin locks
      BY <2>4, <3>1 DEF PastCheck
    <3> HIDE DEF q
    <3>4. QED
      BY <2>1, <3>2, <3>3, GateKept
  <2>5. QED
    BY <1>3, <2>2, <2>3, <2>4 DEF LoginLocked, LoginLockedBy
<1>4. CASE \/ LoginCaptchaRequired(r) \/ VerifyCaptcha(r) \/ IssueCaptcha(r)
           \/ PasswordRefused(r)
  <2>1. /\ req[r].pc \in PasswordSteps
        /\ Answer(r) \/ Goto(r, "verify") \/ Goto(r, "row") \/ Goto(r, "count")
        /\ UNCHANGED gate
    BY <1>4 DEF LoginCaptchaRequired, VerifyCaptcha, IssueCaptcha, PasswordRefused
  <2>2. QED
    BY <2>1, AnswerKept, GotoKept
<1>5. ASSUME NEW s \in Sessions, PasswordAccepted(r, s)
      PROVE  GateInv'
  <2> DEFINE q == [req[r] EXCEPT !.pc = "clear", !.session = s,
                                 !.version = account[req[r].name].version]
  <2>1. Becomes(r, q)
    BY <1>5, <1>0, AcceptedBecomes
  <2>2. UNCHANGED gate
    BY <1>5 DEF PasswordAccepted
  <2>3. q.pc = "clear"
    BY <1>0 DEF Reqs
  <2>4. \A k \in Keys : ~PastCheck(q, k)
    BY <2>3 DEF PastCheck
  <2> HIDE DEF q
  <2>5. QED
    BY <2>1, <2>2, <2>4, GateKept
<1>6. CASE CountFailure(r)
  <2>1. \A k \in Keys : fails'[k] >= fails[k]
    BY <1>6 DEF CountFailure, CountedUp, Shape, TypeOK
  <2>2. CASE Goto(r, "lockout") /\ UNCHANGED tries
    BY <1>6, <2>1, <2>2, CountKept DEF CountFailure
  <2>3. CASE AnswerWrong(r) /\ ~\E k \in KeysOf(r) : fails'[k] >= MaxFailures
    <3>1. ASSUME NEW k \in Keys, k \in KeysOf(r)
          PROVE  fails'[k] = fails[k] + 1 /\ fails'[k] <= MaxFailures - 1
      <4>1. fails[k] \in 0..MaxFailures /\ fails'[k] \in 0..MaxFailures
        BY DEF Shape, TypeOK
      <4>2. fails'[k] < MaxFailures
        BY <2>3, <3>1, <4>1
      <4>3. fails'[k] = IF fails[k] < MaxFailures THEN fails[k] + 1 ELSE fails[k]
        BY <1>6, <3>1 DEF CountFailure, CountedUp
      <4>4. QED
        BY <4>1, <4>2, <4>3
    <3>2. QED
      BY <1>6, <2>1, <2>3, <3>1, WrongKept DEF CountFailure
  <2>4. QED
    BY <1>6, <2>2, <2>3 DEF CountFailure
<1>7. CASE LockOut(r)
  <2>1. req[r].pc \in PasswordSteps /\ AnswerWrong(r) /\ fails' = fails
    BY <1>7 DEF LockOut
  <2>2. ASSUME NEW k \in Keys, k \notin locks'
        PROVE  k \notin locks /\ k \notin KeysOf(r) /\ fails'[k] >= fails[k]
    BY <1>7, <2>1, <2>2 DEF LockOut, Shape, TypeOK
  <2>3. QED
    BY <2>1, <2>2, WrongKept
<1>8. CASE RecordLoginFailureFails(r)
  <2>1. /\ req[r].pc \in PasswordSteps /\ Answer(r) /\ UNCHANGED tries
        /\ locks \subseteq locks' /\ fails' \in {fails, CountedUp(r)}
    BY <1>8 DEF RecordLoginFailureFails
  <2>2. \A k \in Keys : fails'[k] >= fails[k]
    BY <2>1 DEF CountedUp, Shape, TypeOK
  <2>3. QED
    BY <2>1, <2>2, CountKept
<1>9. CASE ClearLoginFailures(r)
  <2>1. ASSUME NEW k \in Keys PROVE Past(k)' \subseteq Past(k)
    <3> DEFINE q == [req[r] EXCEPT !.pc = "issue"]
    <3>1. Becomes(r, q)
      BY <1>9, GotoBecomes DEF ClearLoginFailures, Shape
    <3>2. q.pc = "issue"
      BY <1>0 DEF Reqs
    <3>3. ~PastCheck(q, k)
      BY <3>2 DEF PastCheck
    <3> HIDE DEF q
    <3>4. QED
      BY <3>1, <3>3, BecomesPast
  <2>2. ASSUME NEW k \in Keys
        PROVE  \/ tries'[k] = 0
               \/ /\ tries'[k] = tries[k] /\ fails'[k] = fails[k]
                  /\ k \in locks => k \in locks'
    BY <1>9, <2>2 DEF ClearLoginFailures
  <2>3. QED
    BY <2>1, <2>2, ClearedKept
<1>10. CASE IssueAgentToken(r)
  BY <1>10, AnswerKept DEF IssueAgentToken
<1>11. QED
  BY <1>1, <1>2, <1>3, <1>4, <1>5, <1>6, <1>7, <1>8, <1>9, <1>10 DEF LoginStep

(* A request with a token has nothing to do with the counts.               *)
LEMMA HolderGate ==
  ASSUME Shape, Shape', GateInv, NEW r \in Requests, HolderStep(r)
  PROVE  GateInv'
<1> USE DEF Steps
<1>0. req[r] \in Reqs
  BY DEF Shape, TypeOK
<1>1. UNCHANGED gate
  BY DEF HolderStep, Present, AgentAuth, RefreshAgentToken, AgentLogout, DisableAgent,
         CreateAgent, HandleOther
<1>2. ASSUME NEW t \in tokens, NEW step \in {"auth", "refresh"}, Present(r, t, step)
      PROVE  GateInv'
  <2> DEFINE q == [req[r] EXCEPT !.pc = step, !.name = t.name,
                                 !.version = t.version, !.session = t.session]
  <2>1. Becomes(r, q)
    BY <1>0, <1>2 DEF Present, Becomes, Reqs
  <2>2. q.pc = step
    BY <1>0 DEF Reqs
  <2>3. \A k \in Keys : ~PastCheck(q, k)
    BY <1>2, <2>2 DEF PastCheck
  <2> HIDE DEF q
  <2>4. QED
    BY <1>1, <2>1, <2>3, GateKept
<1>3. CASE Goto(r, "handle") \/ Answer(r)
  BY <1>1, <1>3, AnswerKept, GotoKept
<1>4. CASE RefreshAgentToken(r) /\ ~Answer(r)
  <2> DEFINE q == [req[r] EXCEPT !.pc = "renew", !.version = account[req[r].name].version]
  <2>1. Becomes(r, q)
    BY <1>0, <1>4 DEF RefreshAgentToken, Becomes, Reqs
  <2>2. q.pc = "renew"
    BY <1>0 DEF Reqs
  <2>3. \A k \in Keys : ~PastCheck(q, k)
    BY <2>2 DEF PastCheck
  <2> HIDE DEF q
  <2>4. QED
    BY <1>1, <2>1, <2>3, GateKept
<1>5. QED
  BY <1>2, <1>3, <1>4 DEF HolderStep, AgentAuth, AgentLogout, DisableAgent, CreateAgent,
                          HandleOther

LEMMA GateNext == Shape /\ Shape' /\ GateInv /\ [Next]_vars => GateInv'
<1> SUFFICES ASSUME Shape, Shape', GateInv, [Next]_vars PROVE GateInv'
  OBVIOUS
<1>1. CASE UNCHANGED <<gate, req>>
  BY <1>1 DEF gate, GateInv, TriesAreCounted, RoomIsLeft, Room, Past, PastCheck
<1>2. CASE Stop
  <2>1. ASSUME NEW k \in Keys PROVE Past(k)' \subseteq Past(k)
    BY <1>2 DEF Stop, Past, PastCheck, Idle
  <2>2. UNCHANGED gate
    BY <1>2 DEF Stop
  <2>3. QED
    BY <2>1, <2>2, ClearedKept DEF gate
<1>3. ASSUME NEW r \in Requests, LoginStep(r) \/ HolderStep(r)
      PROVE  GateInv'
  BY <1>3, LoginGate, HolderGate
<1>4. CASE RedisLapses
  <2>1. PICK k \in Keys : Lapse(k)
    BY <1>4 DEF RedisLapses
  <2>2. ASSUME NEW l \in Keys PROVE Past(l)' \subseteq Past(l)
    BY <1>4 DEF RedisLapses, Past, PastCheck
  <2>3. ASSUME NEW l \in Keys
        PROVE  \/ tries'[l] = 0
               \/ /\ tries'[l] = tries[l] /\ fails'[l] = fails[l]
                  /\ l \in locks => l \in locks'
    BY <2>1, <2>3 DEF Lapse, Shape, TypeOK
  <2>4. QED
    BY <2>2, <2>3, ClearedKept
<1>5. QED
  BY <1>1, <1>2, <1>3, <1>4 DEF Next, EnsureBootstrapAdmin, TokenAges, vars

LEMMA GateInit == Init => GateInv
<1> SUFFICES ASSUME Init PROVE GateInv
  OBVIOUS
<1>1. ASSUME NEW k \in Keys
      PROVE  Room(k) /\ tries[k] <= fails[k] /\ tries[k] <= MaxFailures - 1
  <2> DEFINE n == Cardinality(Past(k))
             all == Cardinality(Requests)
  <2>1. n \in Nat /\ all \in Nat /\ n <= all
    BY PastCounts
  <2>2. tries[k] = 0 /\ fails[k] = 0
    BY DEF Init
  <2> HIDE DEF n, all
  <2>3. tries[k] + n <= MaxFailures - 1 + all
    BY <2>1, <2>2
  <2>4. QED
    BY <2>2, <2>3 DEF Room, n, all
<1>2. QED
  BY <1>1 DEF GateInv, TriesAreCounted, RoomIsLeft

(***************************************************************************)
(* However many logins are under way for a name or from a source, the      *)
(* number of wrong answers before the lock is below the limit plus the     *)
(* number of requests (LoginLocked and RecordLoginFailure of ratelimit.go).*)
(***************************************************************************)
THEOREM SessionTriesAreBounded == Spec => []TriesAreBounded
<1>1. Init => Shape /\ GateInv
  BY SessionInitShape, GateInit
<1>2. Shape /\ GateInv /\ [Next]_vars => (Shape /\ GateInv)'
  BY SessionNextShape, GateNext
<1>3. Shape /\ GateInv => TriesAreBounded
  <2> SUFFICES ASSUME Shape, GateInv, NEW k \in Keys
               PROVE  tries[k] <= MaxFailures - 1 + Cardinality(Requests)
    BY DEF TriesAreBounded
  <2> DEFINE n == Cardinality(Past(k))
             all == Cardinality(Requests)
  <2>1. n \in Nat /\ all \in Nat /\ tries[k] \in Nat
    BY PastCounts DEF Shape, TypeOK
  <2>2. tries[k] + n <= MaxFailures - 1 + all
    BY DEF GateInv, RoomIsLeft, Room
  <2> HIDE DEF n, all
  <2>3. tries[k] <= MaxFailures - 1 + all
    BY <2>1, <2>2
  <2>4. QED
    BY <2>3 DEF all
<1>4. QED
  BY <1>1, <1>2, <1>3, PTL DEF Spec
-----------------------------------------------------------------------------
(***************************************************************************)
(* Sessions.  Carried, of the next state.                                  *)
(***************************************************************************)
CarriedNext(n, v, s) ==
    /\ n \in Names /\ s \in Sessions
    /\ owner'[s] = n
    /\ v <= account'[n].version
    /\ s \in ended' => v < account'[n].version

(* What was carried stays carried.                                         *)
CarriedOn ==
    \A n, s : \A v \in 0..MaxVersion : Carried(n, v, s) => CarriedNext(n, v, s)

LEMMA SessionsStay ==
  ASSUME SessionsAreOwned, UNCHANGED <<account, owner, ended>>
  PROVE  CarriedOn /\ SessionsAreOwned'
BY DEF CarriedOn, Carried, CarriedNext, SessionsAreOwned

(* A session that nobody owned carries nothing yet.                        *)
LEMMA SessionBegins ==
  ASSUME Shape, SessionsAreOwned, NEW s \in Sessions, NEW n \in Names,
         owner[s] = None, account[n].exists, owner' = [owner EXCEPT ![s] = n],
         UNCHANGED <<account, ended>>
  PROVE  /\ CarriedOn /\ SessionsAreOwned' /\ s \notin ended'
         /\ CarriedNext(n, account[n].version, s)
<1>1. /\ owner'[s] = n /\ \A t \in Sessions \ {s} : owner'[t] = owner[t]
      /\ s \notin ended'
  BY DEF Shape, TypeOK, SessionsAreOwned
<1>2. CarriedOn
  BY <1>1 DEF CarriedOn, Carried, CarriedNext
<1>3. SessionsAreOwned'
  BY <1>1 DEF SessionsAreOwned
<1>4. account[n].version \in Nat
  BY DEF Shape, TypeOK, Accounts
<1>5. CarriedNext(n, account[n].version, s)
  BY <1>1, <1>4 DEF CarriedNext
<1>6. QED
  BY <1>1, <1>2, <1>3, <1>5

(* A row that was not there had no session.                                *)
LEMMA AccountBegins ==
  ASSUME Shape, SessionsAreOwned, NEW n \in Names, ~account[n].exists,
         account' = [account EXCEPT ![n] = NewAccount], UNCHANGED <<owner, ended>>
  PROVE  CarriedOn /\ SessionsAreOwned'
<1>1. account'[n].exists /\ \A m \in Names \ {n} : account'[m] = account[m]
  BY DEF Shape, TypeOK, NewAccount
<1>2. \A s \in Sessions : owner[s] # n /\ owner[s] \in Names \cup {None}
  BY DEF Shape, TypeOK, SessionsAreOwned
<1>3. CarriedOn
  BY <1>1, <1>2 DEF CarriedOn, Carried, CarriedNext
<1>4. SessionsAreOwned'
  BY <1>1, <1>2 DEF SessionsAreOwned
<1>5. QED
  BY <1>3, <1>4

(* A new version leaves behind every session that the account had.         *)
LEMMA VersionMoves ==
  ASSUME Shape, SessionsAreOwned, NEW n \in Names, account[n].version < MaxVersion,
         \/ account' = [account EXCEPT ![n].version = @ + 1]
         \/ /\ account[n].exists
            /\ \E active \in BOOLEAN :
                 account' = [account EXCEPT ![n] =
                   [exists |-> TRUE, active |-> active, version |-> @.version + 1]],
         ended' \in {ended, ended \cup SessionsOf(n)},
         UNCHANGED owner
  PROVE  CarriedOn /\ SessionsAreOwned'
<1>1. /\ account'[n].version = account[n].version + 1
      /\ account[n].exists => account'[n].exists
      /\ \A m \in Names \ {n} : account'[m] = account[m]
      /\ \A m \in Names : account[m].version \in Nat
  <2>1. account \in [Names -> Accounts]
    BY DEF Shape, TypeOK
  <2>2. account[n] \in Accounts
    BY <2>1
  <2>3. CASE account' = [account EXCEPT ![n].version = @ + 1]
    <3> DEFINE row == [account[n] EXCEPT !.version = @ + 1]
    <3>1. account'[n] = row /\ \A m \in Names \ {n} : account'[m] = account[m]
      BY <2>1, <2>3
    <3>2. row.version = account[n].version + 1 /\ row.exists = account[n].exists
      BY <2>2 DEF Accounts
    <3>3. QED
      BY <2>1, <3>1, <3>2 DEF Accounts
  <2>4. CASE account' # [account EXCEPT ![n].version = @ + 1]
    <3>1. PICK active \in BOOLEAN :
            account' = [account EXCEPT ![n] =
              [exists |-> TRUE, active |-> active, version |-> @.version + 1]]
      BY <2>4
    <3>2. /\ account'[n] = [exists |-> TRUE, active |-> active,
                            version |-> account[n].version + 1]
          /\ \A m \in Names \ {n} : account'[m] = account[m]
      BY <2>1, <3>1
    <3>3. QED
      BY <2>1, <3>2 DEF Accounts
  <2>5. QED
    BY <2>3, <2>4
<1>2. \A s \in ended' : s \in ended \/ owner[s] = n
  BY DEF SessionsOf
<1>3. \A s \in Sessions : owner[s] \in Names \cup {None}
  BY DEF Shape, TypeOK
<1>4. ASSUME NEW m, NEW s, NEW v \in 0..MaxVersion, Carried(m, v, s)
      PROVE  CarriedNext(m, v, s)
  <2>1. CASE m = n
    BY <1>1, <1>4, <2>1 DEF Carried, CarriedNext
  <2>2. CASE m # n
    BY <1>1, <1>2, <1>4, <2>2 DEF Carried, CarriedNext
  <2>3. QED
    BY <2>1, <2>2
<1>5. SessionsAreOwned'
  BY <1>1, <1>2, <1>3 DEF SessionsAreOwned
<1>6. QED
  BY <1>4, <1>5 DEF CarriedOn

(* The requests and tokens that are carried on, and the new ones.          *)
LEMMA TokensCarriedOn ==
  ASSUME Shape, TokensAreCarried, CarriedOn,
         \A t \in tokens' : \/ CarriedNext(t.name, t.version, t.session)
                            \/ \E u \in tokens : /\ t.name = u.name
                                                 /\ t.version = u.version
                                                 /\ t.session = u.session
  PROVE  TokensAreCarried'
<1>1. ASSUME NEW t \in tokens'
      PROVE  CarriedNext(t.name, t.version, t.session)
  <2>1. ASSUME NEW u \in tokens
        PROVE  CarriedNext(u.name, u.version, u.session)
    <3>1. u.version \in 0..MaxVersion
      BY DEF Shape, TypeOK, Tokens
    <3>2. QED
      BY <3>1 DEF TokensAreCarried, CarriedOn
  <2>2. QED
    BY <1>1, <2>1
<1>2. QED
  BY <1>1 DEF TokensAreCarried, Carried, CarriedNext

CarryingSteps == {"clear", "issue"} \cup HolderSteps

LEMMA RequestsCarriedOn ==
  ASSUME Shape, RequestsAreCarried, CarriedOn, NEW r \in Requests, NEW q, Becomes(r, q),
         q.pc \in CarryingSteps => CarriedNext(q.name, q.version, q.session)
  PROVE  RequestsAreCarried'
<1>1. req \in [Requests -> Reqs]
  BY DEF Shape, TypeOK
<1>2. req'[r] = q /\ \A p \in Requests \ {r} : req'[p] = req[p]
  BY <1>1 DEF Becomes
<1>3. ASSUME NEW p \in Requests, req'[p].pc \in CarryingSteps
      PROVE  CarriedNext(req'[p].name, req'[p].version, req'[p].session)
  <2>1. CASE p = r
    BY <1>2, <1>3, <2>1
  <2>2. CASE p # r
    <3>1. req[p].version \in 0..MaxVersion
      BY <1>1 DEF Reqs
    <3>2. req[p].pc \in CarryingSteps /\ req'[p] = req[p]
      BY <1>2, <1>3, <2>2
    <3>3. Carried(req[p].name, req[p].version, req[p].session)
      BY <3>2 DEF RequestsAreCarried, CarryingSteps
    <3>4. CarriedNext(req[p].name, req[p].version, req[p].session)
      BY <3>1, <3>3 DEF CarriedOn
    <3>5. QED
      BY <3>2, <3>4
  <2>3. QED
    BY <2>1, <2>2
<1>4. QED
  BY <1>3 DEF RequestsAreCarried, Carried, CarriedNext, CarryingSteps

(* A step that answers a request, or moves it on within what it carries.   *)
LEMMA AnswerCarried ==
  ASSUME Shape, SessionInv, CarriedOn, SessionsAreOwned', NEW r \in Requests,
         Answer(r), UNCHANGED tokens
  PROVE  SessionInv'
<1>1. Becomes(r, Idle) /\ Idle.pc \notin CarryingSteps
  BY AnswerBecomes DEF Idle, CarryingSteps
<1>2. RequestsAreCarried'
  BY <1>1, RequestsCarriedOn DEF SessionInv
<1>3. TokensAreCarried'
  BY TokensCarriedOn DEF SessionInv
<1>4. QED
  BY <1>2, <1>3 DEF SessionInv

LEMMA GotoCarried ==
  ASSUME Shape, SessionInv, NEW r \in Requests, NEW step \in Steps, Goto(r, step),
         step \in CarryingSteps => req[r].pc \in CarryingSteps,
         UNCHANGED sessions
  PROVE  SessionInv'
<1> DEFINE q == [req[r] EXCEPT !.pc = step]
<1>1. Becomes(r, q) /\ req[r] \in Reqs
  BY GotoBecomes DEF Shape, TypeOK
<1>2. /\ q.pc = step /\ q.name = req[r].name /\ q.version = req[r].version
      /\ q.session = req[r].session /\ req[r].version \in 0..MaxVersion
  BY <1>1 DEF Reqs
<1>3. CarriedOn /\ SessionsAreOwned'
  BY SessionsStay DEF SessionInv, sessions
<1>4. q.pc \in CarryingSteps => CarriedNext(q.name, q.version, q.session)
  <2>1. SUFFICES ASSUME q.pc \in CarryingSteps
                 PROVE  CarriedNext(req[r].name, req[r].version, req[r].session)
    BY <1>2
  <2>2. Carried(req[r].name, req[r].version, req[r].session)
    BY <1>2, <2>1 DEF SessionInv, RequestsAreCarried, CarryingSteps
  <2>3. QED
    BY <1>2, <1>3, <2>2 DEF CarriedOn
<1> HIDE DEF q
<1>5. RequestsAreCarried'
  BY <1>1, <1>3, <1>4, RequestsCarriedOn DEF SessionInv
<1>6. TokensAreCarried'
  BY <1>3, TokensCarriedOn DEF SessionInv, sessions
<1>7. QED
  BY <1>3, <1>5, <1>6 DEF SessionInv

-----------------------------------------------------------------------------
LEMMA LoginCarried ==
  ASSUME Shape, SessionInv, NEW r \in Requests, LoginStep(r)
  PROVE  SessionInv'
<1> USE DEF Steps
<1>0. req[r] \in Reqs
  BY DEF Shape, TypeOK
<1>1. ASSUME NEW n \in Typed, NEW s \in Sources, AgentLogin(r, n, s)
      PROVE  SessionInv'
  <2> DEFINE q == [req[r] EXCEPT !.pc = "window_from", !.name = n, !.from = s]
  <2>1. Becomes(r, q)
    BY <1>1, <1>0, LoginBecomes
  <2>2. q.pc = "window_from"
    BY <1>0 DEF Reqs
  <2>3. CarriedOn /\ SessionsAreOwned' /\ UNCHANGED tokens
    BY <1>1, SessionsStay DEF AgentLogin, SessionInv, sessions
  <2>4. q.pc \notin CarryingSteps
    BY <2>2 DEF CarryingSteps
  <2> HIDE DEF q
  <2>5. RequestsAreCarried' /\ TokensAreCarried'
    BY <2>1, <2>3, <2>4, RequestsCarriedOn, TokensCarriedOn DEF SessionInv
  <2>6. QED
    BY <2>3, <2>5 DEF SessionInv
<1>2. CASE \/ AllowAction(r) \/ LoginLocked(r) \/ LoginCaptchaRequired(r)
           \/ VerifyCaptcha(r) \/ IssueCaptcha(r) \/ PasswordRefused(r)
           \/ CountFailure(r) \/ LockOut(r) \/ RecordLoginFailureFails(r)
           \/ ClearLoginFailures(r)
  <2>1. /\ \/ Answer(r)
           \/ \E step \in Steps \ CarryingSteps : Goto(r, step)
           \/ Goto(r, "issue") /\ req[r].pc = "clear"
        /\ UNCHANGED sessions
    BY <1>2 DEF AllowAction, Allow, LoginLocked, LoginLockedBy, LoginCaptchaRequired,
                VerifyCaptcha, IssueCaptcha, PasswordRefused, CountFailure, LockOut,
                RecordLoginFailureFails, ClearLoginFailures, AnswerWrong, CarryingSteps
  <2>2. CASE Answer(r)
    BY <2>1, <2>2, AnswerCarried, SessionsStay DEF SessionInv, sessions
  <2>3. ASSUME NEW step \in Steps \ CarryingSteps, Goto(r, step)
        PROVE  SessionInv'
    BY <2>1, <2>3, GotoCarried
  <2>4. CASE Goto(r, "issue") /\ req[r].pc = "clear"
    BY <2>1, <2>4, GotoCarried DEF CarryingSteps
  <2>5. QED
    BY <2>1, <2>2, <2>3, <2>4
<1>3. ASSUME NEW s \in Sessions, PasswordAccepted(r, s)
      PROVE  SessionInv'
  <2> DEFINE n == req[r].name
             v == account[n].version
             q == [req[r] EXCEPT !.pc = "clear", !.session = s, !.version = v]
  <2>1. Becomes(r, q)
    BY <1>3, <1>0, AcceptedBecomes
  <2>2. q.name = n /\ q.version = v /\ q.session = s
    BY <1>0 DEF Reqs
  <2>3. n \in Names
    BY <1>3 DEF PasswordAccepted, Shape, RequestsAreNamed
  <2>4. CarriedOn /\ SessionsAreOwned' /\ CarriedNext(n, v, s) /\ UNCHANGED tokens
    BY <1>3, <2>3, SessionBegins DEF PasswordAccepted, SessionInv
  <2>5. CarriedNext(q.name, q.version, q.session)
    BY <2>2, <2>4
  <2> HIDE DEF q
  <2>6. RequestsAreCarried' /\ TokensAreCarried'
    BY <2>1, <2>4, <2>5, RequestsCarriedOn, TokensCarriedOn DEF SessionInv
  <2>7. QED
    BY <2>4, <2>6 DEF SessionInv
<1>4. CASE IssueAgentToken(r)
  <2>1. CarriedOn /\ SessionsAreOwned'
    BY <1>4, SessionsStay DEF IssueAgentToken, SessionInv
  <2>2. CarriedNext(req[r].name, req[r].version, req[r].session)
    <3>1. req[r].version \in 0..MaxVersion /\ req[r].pc \in CarryingSteps
      BY <1>4, <1>0 DEF IssueAgentToken, Reqs, CarryingSteps
    <3>2. Carried(req[r].name, req[r].version, req[r].session)
      BY <3>1 DEF SessionInv, RequestsAreCarried, CarryingSteps
    <3>3. QED
      BY <2>1, <3>1, <3>2 DEF CarriedOn
  <2>3. TokensAreCarried'
    BY <1>4, <2>1, <2>2, TokensCarriedOn DEF IssueAgentToken, SessionInv
  <2>4. RequestsAreCarried'
    <3>1. Becomes(r, Idle) /\ Idle.pc \notin CarryingSteps
      BY <1>4, AnswerBecomes DEF IssueAgentToken, Idle, CarryingSteps
    <3>2. QED
      BY <2>1, <3>1, RequestsCarriedOn DEF SessionInv
  <2>5. QED
    BY <2>1, <2>3, <2>4 DEF SessionInv
<1>5. QED
  BY <1>1, <1>2, <1>3, <1>4 DEF LoginStep

LEMMA HolderCarried ==
  ASSUME Shape, SessionInv, NEW r \in Requests, HolderStep(r)
  PROVE  SessionInv'
<1> USE DEF Steps
<1>0. req[r] \in Reqs
  BY DEF Shape, TypeOK
<1>1. ASSUME NEW t \in tokens, NEW step \in {"auth", "refresh"}, Present(r, t, step)
      PROVE  SessionInv'
  <2> DEFINE q == [req[r] EXCEPT !.pc = step, !.name = t.name,
                                 !.version = t.version, !.session = t.session]
  <2>1. Becomes(r, q)
    BY <1>0, <1>1 DEF Present, Becomes, Reqs
  <2>2. /\ q.name = t.name /\ q.version = t.version /\ q.session = t.session
        /\ t.version \in 0..MaxVersion
    BY <1>0 DEF Reqs, Shape, TypeOK, Tokens
  <2>3. CarriedOn /\ SessionsAreOwned' /\ UNCHANGED tokens
    BY <1>1, SessionsStay DEF Present, SessionInv, sessions
  <2>4. Carried(t.name, t.version, t.session)
    BY DEF SessionInv, TokensAreCarried
  <2>5. CarriedNext(q.name, q.version, q.session)
    BY <2>2, <2>3, <2>4 DEF CarriedOn
  <2> HIDE DEF q
  <2>6. RequestsAreCarried' /\ TokensAreCarried'
    BY <2>1, <2>3, <2>5, RequestsCarriedOn, TokensCarriedOn DEF SessionInv
  <2>7. QED
    BY <2>3, <2>6 DEF SessionInv
<1>2. CASE AgentAuth(r) \/ HandleOther(r)
  <2>1. /\ \/ Answer(r)
           \/ Goto(r, "handle") /\ req[r].pc = "auth"
        /\ UNCHANGED sessions
    BY <1>2 DEF AgentAuth, HandleOther
  <2>2. CASE Answer(r)
    BY <2>1, <2>2, AnswerCarried, SessionsStay DEF SessionInv, sessions
  <2>3. CASE Goto(r, "handle") /\ req[r].pc = "auth"
    BY <2>1, <2>3, GotoCarried DEF CarryingSteps
  <2>4. QED
    BY <2>1, <2>2, <2>3
<1>3. CASE RefreshAgentToken(r)
  <2>0. CarriedOn /\ SessionsAreOwned' /\ UNCHANGED tokens
    BY <1>3, SessionsStay DEF RefreshAgentToken, SessionInv, sessions
  <2>1. CASE Answer(r)
    BY <2>0, <2>1, AnswerCarried
  <2>2. CASE ~Answer(r)
    <3> DEFINE q == [req[r] EXCEPT !.pc = "renew", !.version = account[req[r].name].version]
    <3>1. Becomes(r, q)
      BY <1>0, <1>3, <2>2 DEF RefreshAgentToken, Becomes, Reqs
    <3>2. /\ q.name = req[r].name /\ q.session = req[r].session
          /\ q.version = req[r].version /\ req[r].version \in 0..MaxVersion
      BY <1>0, <1>3, <2>2 DEF Reqs, RefreshAgentToken, RowAgrees
    <3>3. Carried(req[r].name, req[r].version, req[r].session)
      BY <1>3 DEF RefreshAgentToken, SessionInv, RequestsAreCarried
    <3>4. CarriedNext(q.name, q.version, q.session)
      BY <2>0, <3>2, <3>3 DEF CarriedOn
    <3> HIDE DEF q
    <3>5. RequestsAreCarried' /\ TokensAreCarried'
      BY <2>0, <3>1, <3>4, RequestsCarriedOn, TokensCarriedOn DEF SessionInv
    <3>6. QED
      BY <2>0, <3>5 DEF SessionInv
  <2>3. QED
    BY <2>1, <2>2
<1>4. CASE AgentLogout(r)
  <2>1. req[r].name \in Names
    BY <1>4 DEF AgentLogout, Shape, RequestsAreNamed
  <2>2. CarriedOn /\ SessionsAreOwned'
    BY <1>4, <2>1, VersionMoves DEF AgentLogout, BumpAgentTokenVersion, SessionInv
  <2>3. QED
    BY <1>4, <2>2, AnswerCarried DEF AgentLogout
<1>5. ASSUME NEW n \in Names, NEW active \in BOOLEAN, DisableAgent(r, n, active)
      PROVE  SessionInv'
  <2>1. CarriedOn /\ SessionsAreOwned'
    BY <1>5, VersionMoves DEF DisableAgent, SetAgentActive, SessionInv
  <2>2. QED
    BY <1>5, <2>1, AnswerCarried DEF DisableAgent
<1>6. ASSUME NEW n \in Names, CreateAgent(r, n)
      PROVE  SessionInv'
  <2>1. CarriedOn /\ SessionsAreOwned'
    BY <1>6, AccountBegins DEF CreateAgent, SessionInv
  <2>2. QED
    BY <1>6, <2>1, AnswerCarried DEF CreateAgent
<1>7. QED
  BY <1>1, <1>2, <1>3, <1>4, <1>5, <1>6 DEF HolderStep

LEMMA SessionNext == Shape /\ SessionInv /\ [Next]_vars => SessionInv'
<1> SUFFICES ASSUME Shape, SessionInv, [Next]_vars PROVE SessionInv'
  OBVIOUS
<1>1. CASE EnsureBootstrapAdmin
  <2>1. Bootstrap \in Names /\ UNCHANGED <<req, tokens, owner, ended>>
    BY <1>1 DEF EnsureBootstrapAdmin
  <2>2. CarriedOn /\ SessionsAreOwned'
    BY <1>1, <2>1, AccountBegins, SessionsStay DEF EnsureBootstrapAdmin, SessionInv
  <2>3. TokensAreCarried'
    BY <2>1, <2>2, TokensCarriedOn DEF SessionInv
  <2>4. RequestsAreCarried'
    <3>1. ASSUME NEW r \in Requests, req[r].pc \in CarryingSteps
          PROVE  CarriedNext(req[r].name, req[r].version, req[r].session)
      <4>1. req[r].version \in 0..MaxVersion
        BY DEF Shape, TypeOK, Reqs
      <4>2. Carried(req[r].name, req[r].version, req[r].session)
        BY <3>1 DEF SessionInv, RequestsAreCarried, CarryingSteps
      <4>3. QED
        BY <2>2, <4>1, <4>2 DEF CarriedOn
    <3>2. QED
      BY <2>1, <3>1 DEF RequestsAreCarried, Carried, CarriedNext, CarryingSteps
  <2>5. QED
    BY <2>2, <2>3, <2>4 DEF SessionInv
<1>2. CASE Stop
  <2>1. RequestsAreCarried'
    BY <1>2 DEF Stop, RequestsAreCarried, Idle
  <2>2. QED
    BY <1>2, <2>1 DEF Stop, sessions, SessionInv, SessionsAreOwned, TokensAreCarried, Carried
<1>3. ASSUME NEW r \in Requests, LoginStep(r) \/ HolderStep(r)
      PROVE  SessionInv'
  BY <1>3, LoginCarried, HolderCarried
<1>4. CASE RedisLapses \/ UNCHANGED vars
  BY <1>4 DEF RedisLapses, vars, sessions, SessionInv, SessionsAreOwned, TokensAreCarried,
              RequestsAreCarried, Carried
<1>5. CASE TokenAges
  <2>1. CarriedOn /\ SessionsAreOwned'
    BY <1>5, SessionsStay DEF TokenAges, SessionInv
  <2>2. ASSUME NEW t \in tokens'
        PROVE  \E u \in tokens : /\ t.name = u.name /\ t.version = u.version
                                 /\ t.session = u.session
    <3>1. PICK u \in tokens : tokens' \subseteq tokens \cup {[u EXCEPT !.age = "expired"]}
      BY <1>5 DEF TokenAges
    <3>2. u \in Tokens
      BY DEF Shape, TypeOK
    <3> DEFINE w == [u EXCEPT !.age = "expired"]
    <3>3. w.name = u.name /\ w.version = u.version /\ w.session = u.session
      BY <3>2 DEF Tokens
    <3> HIDE DEF w
    <3>4. t \in tokens \/ t = w
      BY <2>2, <3>1 DEF w
    <3>5. QED
      BY <3>3, <3>4
  <2>3. TokensAreCarried'
    BY <2>1, <2>2, TokensCarriedOn DEF SessionInv
  <2>4. RequestsAreCarried'
    BY <1>5 DEF TokenAges, SessionInv, RequestsAreCarried, Carried
  <2>5. QED
    BY <2>1, <2>3, <2>4 DEF SessionInv
<1>6. QED
  BY <1>1, <1>2, <1>3, <1>4, <1>5 DEF Next

LEMMA SessionInit == Init => SessionInv
BY DEF Init, SessionInv, SessionsAreOwned, TokensAreCarried, RequestsAreCarried, Idle

-----------------------------------------------------------------------------
(* Only the check of the row brings a request from "auth" to "handle".     *)
LEMMA OnlyAuthLetsIn ==
  ASSUME Shape, NEW r \in Requests, Next, req[r].pc = "auth", req'[r].pc = "handle"
  PROVE  AgentAuth(r) /\ RowAgrees(r)
<1>1. req \in [Requests -> Reqs]
  BY DEF Shape, TypeOK
<1>2. PICK p \in Requests : LoginStep(p) \/ HolderStep(p)
  <2>1. CASE Stop
    BY <2>1 DEF Stop, Idle
  <2>2. CASE UNCHANGED req
    BY <2>2
  <2>3. QED
    BY <2>1, <2>2 DEF Next, EnsureBootstrapAdmin, RedisLapses, TokenAges
<1>3. \E q : Becomes(p, q)
  <2>1. CASE LoginStep(p)
    BY <2>1, <1>1 DEF LoginStep, AgentLogin, AllowAction, Allow, LoginLocked, LoginLockedBy,
       LoginCaptchaRequired, VerifyCaptcha, IssueCaptcha, PasswordRefused,
       PasswordAccepted, CountFailure, LockOut, RecordLoginFailureFails, AnswerWrong,
       ClearLoginFailures, IssueAgentToken, Goto, Answer, Becomes
  <2>2. CASE HolderStep(p)
    BY <2>2, <1>1 DEF HolderStep, Present, AgentAuth, RefreshAgentToken, AgentLogout,
       DisableAgent, CreateAgent, HandleOther, Goto, Answer, Becomes
  <2>3. QED
    BY <1>2, <2>1, <2>2
<1>4. p = r
  BY <1>1, <1>3 DEF Becomes
<1>5. ~Answer(r)
  BY <1>1 DEF Answer, Idle
<1>6. ~LoginStep(r)
  BY DEF LoginStep, AgentLogin, AllowAction, Allow, LoginLocked, LoginLockedBy,
     LoginCaptchaRequired, VerifyCaptcha, IssueCaptcha, PasswordRefused,
     PasswordAccepted, CountFailure, LockOut, RecordLoginFailureFails,
     ClearLoginFailures, IssueAgentToken
<1>7. QED
  BY <1>2, <1>4, <1>5, <1>6 DEF HolderStep, Present, AgentAuth, RefreshAgentToken,
     AgentLogout, DisableAgent, CreateAgent, AdminOnly, HandleOther

(***************************************************************************)
(* No request is let in on an ended session (agentAuth of middleware.go,   *)
(* with the logins, refreshes, logouts and disablings of http.go).         *)
(***************************************************************************)
THEOREM SessionStaysCurrent == Spec => SessionIsCurrent
<1>1. Init => Shape /\ SessionInv
  BY SessionInitShape, SessionInit
<1>2. Shape /\ SessionInv /\ [Next]_vars => (Shape /\ SessionInv)'
  BY SessionNextShape, SessionNext
<1>3. Shape /\ SessionInv /\ [Next]_vars =>
        [\A r \in Requests :
            req[r].pc = "auth" /\ req'[r].pc = "handle" =>
                req[r].session \notin ended /\ account[req[r].name].active]_vars
  <2> SUFFICES ASSUME Shape, SessionInv, Next, NEW r \in Requests,
                      req[r].pc = "auth", req'[r].pc = "handle"
               PROVE  req[r].session \notin ended /\ account[req[r].name].active
    OBVIOUS
  <2>1. RowAgrees(r)
    BY OnlyAuthLetsIn
  <2>2. Carried(req[r].name, req[r].version, req[r].session)
    BY DEF SessionInv, RequestsAreCarried
  <2>3. req[r].version \in Nat
    BY DEF Shape, TypeOK, Reqs
  <2>4. QED
    BY <2>1, <2>2, <2>3 DEF RowAgrees, Carried
<1>4. QED
  BY <1>1, <1>2, <1>3, PTL DEF Spec, SessionIsCurrent

=============================================================================
