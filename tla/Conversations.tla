---------------------------- MODULE Conversations ----------------------------
(***************************************************************************)
(* The conversations of the visitors and who serves them: the rows of the  *)
(* conversations table (internal/store) and the HTTP handlers that read    *)
(* and write them concurrently (internal/handler/http.go):                 *)
(*                                                                         *)
(*   VisitorSession   reuses, renews or opens the visitor's conversation   *)
(*   VisitorWS        finds or opens it and binds the connection to it     *)
(*   AssignSelf       an agent claims a conversation or takes it over      *)
(*   CloseConv        an agent closes it                                   *)
(*   MarkRead, delete, restore and purge                                   *)
(*                                                                         *)
(* Every SQL statement or transaction is one step; between two of them a   *)
(* handler keeps only what it has read, and any other handler may run.     *)
(* MessagePipeline adds the messages to this module.                       *)
(***************************************************************************)
EXTENDS Naturals

CONSTANTS Visitors, Agents,
          Admins,         \* the agents with the role admin
          Requests,       \* slots for the visitors' concurrent requests
          InitialConvs,   \* the conversations in the database at start-up
          MaxConvs,       \* bound: conversations that can ever exist
          MaxVisits,      \* bound: requests of the visitors
          MaxClaims,      \* bound: calls of AssignSelf
          MaxDesk,        \* bound: closes, deletes, restores and purges
          MaxDrops,       \* bound: agents disconnected or disabled
          MaxUnread,      \* bound: visitor messages an agent has not read
          NoOne           \* no agent serves the conversation (agent_id NULL)

Convs == 1..MaxConvs      \* in the order they are created

\* A deleted conversation is also closed; "none": not created yet.
Statuses == {"none", "open", "closed", "deleted", "purged"}

Conversation == [visitor : Visitors, owner : Agents \cup {NoOne},
                 status : Statuses, unread : Nat]

ASSUME ConversationsAssumption ==
    /\ MaxConvs \in Nat /\ MaxUnread \in Nat
    /\ MaxVisits \in Nat /\ MaxClaims \in Nat
    /\ MaxDesk \in Nat /\ MaxDrops \in Nat
    /\ Admins \subseteq Agents
    /\ NoOne \notin Agents /\ NoOne \notin Visitors
    /\ InitialConvs \in [Convs -> Conversation]

VARIABLES
    convs,     \* the conversations table
    disabled,  \* agents whose account is disabled
    online,    \* agents with a connection (hub.agents)
    bound,     \* the conversation an agent's last connection is bound to, or 0
    present,   \* visitors with a connection (hub.visitors)
    seat,      \* the conversation a visitor's last connection is bound to, or 0
    claim,     \* an agent's AssignSelf request
    closing,   \* the conversation an agent's CloseConv is about to close, or 0
    reading,   \* the conversation an agent's MarkRead is about to update, or 0
    visit,     \* the visitors' VisitorSession and VisitorWS requests
    purging,   \* the conversations the purge has listed
    used,      \* how much of each bound is used up
    away,      \* agents seen offline or disabled since an agent's claim came in
    entitled   \* conversations seen open to an agent since its claim came in

rowVars   == <<convs, purging>>
agentVars == <<disabled, online, bound>>
seatVars  == <<present, seat>>
deskVars  == <<claim, closing, reading>>
seenVars  == <<away, entitled>>
convVars  == <<rowVars, agentVars, seatVars, deskVars, visit, used, seenVars>>

IdleClaim == [pc |-> "idle", conv |-> 0, from |-> NoOne, active |-> TRUE]
IdleVisit == [pc |-> "idle", visitor |-> NoOne, conv |-> 0, owner |-> NoOne]

Claims == [pc : {"idle", "assign", "lookup", "decide", "take", "detach", "attach"},
           conv : Convs \cup {0}, from : Agents \cup {NoOne}, active : BOOLEAN]

Visits == [pc : {"idle", "close", "create", "open", "join"},
           visitor : Visitors \cup {NoOne}, conv : Convs \cup {0},
           owner : Agents \cup {NoOne}]

ConvTypeOK ==
    /\ convs \in [Convs -> Conversation]
    /\ disabled \subseteq Agents /\ online \subseteq Agents
    /\ bound \in [Agents -> Convs \cup {0}]
    /\ present \subseteq Visitors
    /\ seat \in [Visitors -> Convs \cup {0}]
    /\ claim \in [Agents -> Claims]
    /\ closing \in [Agents -> Convs \cup {0}] /\ reading \in [Agents -> Convs \cup {0}]
    /\ visit \in [Requests -> Visits]
    /\ purging \subseteq Convs
    /\ used \in [{"visits", "claims", "desk", "drops"} -> Nat]
    /\ away \in [Agents -> SUBSET Agents]
    /\ entitled \in [Agents -> SUBSET Convs]

ConvInit ==
    /\ convs = InitialConvs
    /\ disabled = {} /\ online = {} /\ present = {} /\ purging = {}
    /\ bound = [a \in Agents |-> 0]
    /\ seat = [v \in Visitors |-> 0]
    /\ claim = [a \in Agents |-> IdleClaim]
    /\ closing = [a \in Agents |-> 0] /\ reading = [a \in Agents |-> 0]
    /\ visit = [r \in Requests |-> IdleVisit]
    /\ used = [visits |-> 0, claims |-> 0, desk |-> 0, drops |-> 0]
    /\ away = [a \in Agents |-> {}]
    /\ entitled = [a \in Agents |-> {}]

-----------------------------------------------------------------------------
(***************************************************************************)
(* Conditions of the SQL statements.                                       *)
(***************************************************************************)
Live(i) == convs[i].status \in {"open", "closed"}        \* deleted_at IS NULL

\* AgentOwnsConversation: an unassigned conversation is everybody's.
Owns(a, i) == Live(i) /\ convs[i].owner \in {a, NoOne}

OpenOf(v) == {i \in Convs : convs[i].visitor = v /\ convs[i].status = "open"}

IsLatestOpen(v, i) == i \in OpenOf(v) /\ \A j \in OpenOf(v) : j <= i

IsNextConv(i) == /\ convs[i].status = "none"
                 /\ \A j \in Convs : convs[j].status = "none" => i <= j

Create(i, v, a) ==
    convs' = [convs EXCEPT ![i] = [visitor |-> v, owner |-> a,
                                   status |-> "open", unread |-> 0]]

Close(i) == convs' = [convs EXCEPT ![i].status = IF @ = "open" THEN "closed" ELSE @]

Use(budget, max) == /\ used[budget] < max
                    /\ used' = [used EXCEPT ![budget] = @ + 1]

(***************************************************************************)
(* What could be seen while a claim was being handled: a history of the    *)
(* other variables that no action reads.                                   *)
(***************************************************************************)
Gone == disabled \cup (Agents \ online)

Observe ==
    /\ away' = [a \in Agents |-> IF claim'[a].pc = "idle" THEN {}
                                 ELSE away[a] \cup Gone \cup Gone']
    /\ entitled' = [a \in Agents |->
                       IF claim'[a].pc = "idle" THEN {}
                       ELSE entitled[a] \cup {i \in Convs : Owns(a, i) \/ Owns(a, i)'}]

-----------------------------------------------------------------------------
(***************************************************************************)
(* Faulty variants of the actions below: each is a slip in the code that   *)
(* one of the properties must expose.  Next uses none.                     *)
(***************************************************************************)
\* the takeover does not ask whether the serving agent is connected.
ClaimDecidesBlindly(a) ==
    /\ claim[a].pc = "decide"
    /\ claim' = [claim EXCEPT ![a].pc = "take"]
    /\ UNCHANGED <<rowVars, agentVars, seatVars, closing, reading, visit, used>>
    /\ Observe

\* the UPDATE of the takeover has no condition on agent_id.
ClaimTakesAnyway(a) ==
    /\ claim[a].pc = "take"
    /\ convs' = [convs EXCEPT ![claim[a].conv].owner = a]
    /\ claim' = [claim EXCEPT ![a].pc = "detach"]
    /\ UNCHANGED <<purging, agentVars, seatVars, closing, reading, visit, used>>
    /\ Observe

\* the purge trusts the list it has made.
PurgeAppliesUnchecked ==
    /\ purging # {}
    /\ convs' = [i \in Convs |-> IF i \in purging
                                THEN [convs[i] EXCEPT !.status = "purged"]
                                ELSE convs[i]]
    /\ purging' = {}
    /\ UNCHANGED <<agentVars, seatVars, deskVars, visit, used>>
    /\ Observe

-----------------------------------------------------------------------------
(***************************************************************************)
(* AssignSelf.  The request comes in and AgentOwnsConversation is asked.   *)
(***************************************************************************)
ClaimChecks(a, i) ==
    /\ claim[a].pc = "idle"
    /\ a \notin disabled
    /\ convs[i].status # "none"
    /\ Use("claims", MaxClaims)
    /\ claim' = [claim EXCEPT ![a] = [IdleClaim EXCEPT
                     !.pc = IF Owns(a, i) THEN "assign" ELSE "lookup", !.conv = i]]
    /\ UNCHANGED <<rowVars, agentVars, seatVars, closing, reading, visit>>
    /\ Observe

(***************************************************************************)
(* Not the caller's: ConversationOwner reads who serves it and whether     *)
(* that account is active; a deleted or unassigned one is refused (40302). *)
(***************************************************************************)
ClaimLooksUp(a) ==
    /\ claim[a].pc = "lookup"
    /\ LET i == claim[a].conv IN
       claim' = [claim EXCEPT ![a] =
                    IF Live(i) /\ convs[i].owner # NoOne
                    THEN [pc |-> "decide", conv |-> i, from |-> convs[i].owner,
                          active |-> convs[i].owner \notin disabled]
                    ELSE IdleClaim]
    /\ UNCHANGED <<rowVars, agentVars, seatVars, closing, reading, visit, used>>
    /\ Observe

(***************************************************************************)
(* An administrator may take over, anybody may when the serving agent is   *)
(* disabled or not connected; otherwise the answer is 40303.               *)
(***************************************************************************)
ClaimDecides(a) ==
    /\ claim[a].pc = "decide"
    /\ claim' = [claim EXCEPT ![a] =
                    IF a \in Admins \/ ~@.active \/ @.from \notin online
                    THEN [@ EXCEPT !.pc = "take"] ELSE IdleClaim]
    /\ UNCHANGED <<rowVars, agentVars, seatVars, closing, reading, visit, used>>
    /\ Observe

(***************************************************************************)
(* TakeOverConversation updates the row only while it is still the looked  *)
(* up agent's and not deleted; no row changed is answered 40903.           *)
(***************************************************************************)
ClaimTakes(a) ==
    /\ claim[a].pc = "take"
    /\ LET i == claim[a].conv IN
       IF Live(i) /\ convs[i].owner = claim[a].from
       THEN /\ convs' = [convs EXCEPT ![i].owner = a]
            /\ claim' = [claim EXCEPT ![a].pc = "detach"]
       ELSE /\ claim' = [claim EXCEPT ![a] = IdleClaim]
            /\ UNCHANGED convs
    /\ UNCHANGED <<purging, agentVars, seatVars, closing, reading, visit, used>>
    /\ Observe

(***************************************************************************)
(* DetachAgentFromConv unbinds the connection of the agent taken over.     *)
(***************************************************************************)
ClaimDetaches(a) ==
    /\ claim[a].pc = "detach"
    /\ bound' = [bound EXCEPT ![claim[a].from] =
                    IF claim[a].from \in online /\ @ = claim[a].conv THEN 0 ELSE @]
    /\ claim' = [claim EXCEPT ![a].pc = "attach"]
    /\ UNCHANGED <<rowVars, disabled, online, seatVars, closing, reading, visit, used>>
    /\ Observe

(***************************************************************************)
(* The caller's own or unassigned: AssignAgent updates it if it is open,   *)
(* whoever serves it by now.                                               *)
(***************************************************************************)
ClaimAssigns(a) ==
    /\ claim[a].pc = "assign"
    /\ LET i == claim[a].conv IN
       convs' = [convs EXCEPT ![i].owner =
                    IF convs[i].status = "open" THEN a ELSE @]
    /\ claim' = [claim EXCEPT ![a].pc = "attach"]
    /\ UNCHANGED <<purging, agentVars, seatVars, closing, reading, visit, used>>
    /\ Observe

(***************************************************************************)
(* AttachAgentConnToConv, or AttachAgentToConv for an old client, binds    *)
(* the caller's connection, if there is one, and the claim is answered.    *)
(***************************************************************************)
ClaimAttaches(a) ==
    /\ claim[a].pc = "attach"
    /\ bound' = [bound EXCEPT ![a] = IF a \in online THEN claim[a].conv ELSE @]
    /\ claim' = [claim EXCEPT ![a] = IdleClaim]
    /\ UNCHANGED <<rowVars, disabled, online, seatVars, closing, reading, visit, used>>
    /\ Observe

-----------------------------------------------------------------------------
(***************************************************************************)
(* The agents' connections, one per account.  A connection starts unbound; *)
(* its binding outlives it, for the frames still on their way.             *)
(***************************************************************************)
AgentConnects(a) ==
    /\ a \notin online /\ a \notin disabled
    /\ online' = online \cup {a}
    /\ bound' = [bound EXCEPT ![a] = 0]
    /\ UNCHANGED <<rowVars, disabled, seatVars, deskVars, visit, used>>
    /\ Observe

AgentLeaves(a) ==
    /\ a \in online
    /\ Use("drops", MaxDrops)
    /\ online' = online \ {a}
    /\ UNCHANGED <<rowVars, disabled, bound, seatVars, deskVars, visit>>
    /\ Observe

(***************************************************************************)
(* DisableAgent: the account first, then CloseAgent its connections, which *)
(* is an AgentLeaves that follows.                                         *)
(***************************************************************************)
AgentIsDisabled(a) ==
    /\ a \notin disabled
    /\ Use("drops", MaxDrops)
    /\ disabled' = disabled \cup {a}
    /\ UNCHANGED <<rowVars, online, bound, seatVars, deskVars, visit>>
    /\ Observe

-----------------------------------------------------------------------------
(***************************************************************************)
(* CloseConv: AgentOwnsConversation, then CloseConversation.               *)
(***************************************************************************)
CloseChecks(a, i) ==
    /\ closing[a] = 0
    /\ a \notin disabled
    /\ Owns(a, i)
    /\ Use("desk", MaxDesk)
    /\ closing' = [closing EXCEPT ![a] = i]
    /\ UNCHANGED <<rowVars, agentVars, seatVars, claim, reading, visit>>
    /\ Observe

CloseApplies(a) ==
    /\ closing[a] # 0
    /\ Close(closing[a])
    /\ closing' = [closing EXCEPT ![a] = 0]
    /\ UNCHANGED <<purging, agentVars, seatVars, claim, reading, visit, used>>
    /\ Observe

(***************************************************************************)
(* MarkRead: AgentCanReadConversation, then UpdateLastRead up to now,      *)
(* which leaves nothing unread, wherever the conversation is by then.  An  *)
(* agent only asks for what is unread.                                     *)
(***************************************************************************)
ReadChecks(a, i) ==
    /\ reading[a] = 0
    /\ a \notin disabled
    /\ Live(i) /\ convs[i].unread > 0
    /\ a \in Admins \/ \E j \in Convs : /\ convs[j].visitor = convs[i].visitor
                                        /\ Owns(a, j)
    /\ Use("desk", MaxDesk)
    /\ reading' = [reading EXCEPT ![a] = i]
    /\ UNCHANGED <<rowVars, agentVars, seatVars, claim, closing, visit>>
    /\ Observe

AgentReads(a) ==
    /\ reading[a] # 0
    /\ convs' = [convs EXCEPT ![reading[a]].unread = 0]
    /\ reading' = [reading EXCEPT ![a] = 0]
    /\ UNCHANGED <<purging, agentVars, seatVars, claim, closing, visit, used>>
    /\ Observe

(***************************************************************************)
(* DeleteVisitors moves a visitor's conversations to the recycle bin in a  *)
(* transaction, RestoreVisitors takes them back, closed.  The visitor's    *)
(* connection stays bound: RebindVisitor is called with an empty           *)
(* conversation, which RebindClient ignores.                               *)
(***************************************************************************)
DeleteVisitor(v) ==
    /\ \E i \in Convs : convs[i].visitor = v /\ Live(i)
    /\ Use("desk", MaxDesk)
    /\ convs' = [i \in Convs |-> IF convs[i].visitor = v /\ Live(i)
                                THEN [convs[i] EXCEPT !.status = "deleted"]
                                ELSE convs[i]]
    /\ UNCHANGED <<purging, agentVars, seatVars, deskVars, visit>>
    /\ Observe

RestoreVisitor(v) ==
    /\ \E i \in Convs : convs[i].visitor = v /\ convs[i].status = "deleted"
    /\ Use("desk", MaxDesk)
    /\ convs' = [i \in Convs |-> IF convs[i].visitor = v /\ convs[i].status = "deleted"
                                THEN [convs[i] EXCEPT !.status = "closed"]
                                ELSE convs[i]]
    /\ UNCHANGED <<purging, agentVars, seatVars, deskVars, visit>>
    /\ Observe

(***************************************************************************)
(* PurgeVisitors and the hourly job: DeletedConversationIDs lists, then    *)
(* PurgeConversations confirms under lock what is still in the bin.        *)
(***************************************************************************)
PurgeLists ==
    /\ purging = {}
    /\ Use("desk", MaxDesk)
    /\ purging' \in (SUBSET {i \in Convs : convs[i].status = "deleted"}) \ {{}}
    /\ UNCHANGED <<convs, agentVars, seatVars, deskVars, visit>>
    /\ Observe

PurgeApplies ==
    /\ purging # {}
    /\ convs' = [i \in Convs |-> IF i \in purging /\ convs[i].status = "deleted"
                                THEN [convs[i] EXCEPT !.status = "purged"]
                                ELSE convs[i]]
    /\ purging' = {}
    /\ UNCHANGED <<agentVars, seatVars, deskVars, visit, used>>
    /\ Observe

-----------------------------------------------------------------------------
(***************************************************************************)
(* VisitorSession, EnsureFreshConversation: an open conversation is        *)
(* renewed if it is stale and has nothing unread, as just read; otherwise  *)
(* it is reused, which changes nothing.                                    *)
(***************************************************************************)
SessionFinds(r, v) ==
    /\ visit[r].pc = "idle"
    /\ Use("visits", MaxVisits)
    /\ \/ /\ OpenOf(v) = {}
          /\ visit' = [visit EXCEPT ![r] = [pc |-> "create", visitor |-> v,
                                            conv |-> 0, owner |-> NoOne]]
       \/ \E i \in Convs :
            /\ IsLatestOpen(v, i)
            /\ convs[i].unread = 0          \* and updated_at is too old
            /\ visit' = [visit EXCEPT ![r] = [pc |-> "close", visitor |-> v,
                                             conv |-> i, owner |-> convs[i].owner]]
    /\ UNCHANGED <<rowVars, agentVars, seatVars, deskVars>>
    /\ Observe

SessionCloses(r) ==
    /\ visit[r].pc = "close"
    /\ Close(visit[r].conv)
    /\ visit' = [visit EXCEPT ![r].pc = "create"]
    /\ UNCHANGED <<purging, agentVars, seatVars, deskVars, used>>
    /\ Observe

\* createConversation: the renewed conversation inherits the agent.
SessionCreates(r) ==
    /\ visit[r].pc = "create"
    /\ \E i \in Convs : IsNextConv(i) /\ Create(i, visit[r].visitor, visit[r].owner)
    /\ visit' = [visit EXCEPT ![r] = IdleVisit]
    /\ UNCHANGED <<purging, agentVars, seatVars, deskVars, used>>
    /\ Observe

(***************************************************************************)
(* VisitorWS, OpenOrGetConversation: SELECT, then INSERT if there is none; *)
(* then the connection is registered with the conversation.                *)
(***************************************************************************)
ConnectFinds(r, v) ==
    /\ visit[r].pc = "idle"
    /\ Use("visits", MaxVisits)
    /\ \/ /\ OpenOf(v) = {}
          /\ visit' = [visit EXCEPT ![r] = [pc |-> "open", visitor |-> v,
                                            conv |-> 0, owner |-> NoOne]]
       \/ \E i \in Convs :
            /\ IsLatestOpen(v, i)
            /\ visit' = [visit EXCEPT ![r] = [pc |-> "join", visitor |-> v,
                                             conv |-> i, owner |-> NoOne]]
    /\ UNCHANGED <<rowVars, agentVars, seatVars, deskVars>>
    /\ Observe

ConnectOpens(r) ==
    /\ visit[r].pc = "open"
    /\ \E i \in Convs :
         /\ IsNextConv(i)
         /\ Create(i, visit[r].visitor, NoOne)
         /\ visit' = [visit EXCEPT ![r] = [pc |-> "join", visitor |-> @.visitor,
                                          conv |-> i, owner |-> NoOne]]
    /\ UNCHANGED <<purging, agentVars, seatVars, deskVars, used>>
    /\ Observe

ConnectJoins(r) ==
    /\ visit[r].pc = "join"
    /\ present' = present \cup {visit[r].visitor}
    /\ seat' = [seat EXCEPT ![visit[r].visitor] = visit[r].conv]
    /\ visit' = [visit EXCEPT ![r] = IdleVisit]
    /\ UNCHANGED <<rowVars, agentVars, deskVars, used>>
    /\ Observe

VisitorLeaves(v) ==
    /\ v \in present
    /\ present' = present \ {v}
    /\ UNCHANGED <<rowVars, agentVars, seat, deskVars, visit, used>>
    /\ Observe

(***************************************************************************)
(* What the storing of a visitor's message does to its conversation row    *)
(* (insertMessageTx); the message itself is MessagePipeline's.             *)
(***************************************************************************)
VisitorWrites(v) ==
    /\ seat[v] # 0
    /\ Live(seat[v])
    /\ convs[seat[v]].unread < MaxUnread
    /\ convs' = [convs EXCEPT ![seat[v]].unread = @ + 1]
    /\ UNCHANGED <<purging, agentVars, seatVars, deskVars, visit, used>>
    /\ Observe

-----------------------------------------------------------------------------
ClaimNext ==
    \E a \in Agents :
        \/ \E i \in Convs : ClaimChecks(a, i)
        \/ ClaimLooksUp(a) \/ ClaimDecides(a) \/ ClaimTakes(a)
        \/ ClaimDetaches(a) \/ ClaimAssigns(a) \/ ClaimAttaches(a)

DeskNext ==
    \/ \E a \in Agents, i \in Convs : CloseChecks(a, i) \/ ReadChecks(a, i)
    \/ \E a \in Agents : CloseApplies(a) \/ AgentReads(a)
    \/ \E v \in Visitors : DeleteVisitor(v) \/ RestoreVisitor(v)
    \/ PurgeLists

PresenceNext ==
    \/ \E a \in Agents : AgentLeaves(a) \/ AgentIsDisabled(a)
    \/ \E v \in Visitors : VisitorLeaves(v)

VisitNext ==
    \/ \E r \in Requests, v \in Visitors : SessionFinds(r, v) \/ ConnectFinds(r, v)
    \/ \E r \in Requests : SessionCloses(r) \/ SessionCreates(r) \/ ConnectOpens(r)

\* MessagePipeline adds to the steps of SharedNext and leaves QuietNext as it is.
QuietNext == ClaimNext \/ DeskNext \/ PresenceNext \/ VisitNext

SharedNext ==
    \/ PurgeApplies
    \/ \E a \in Agents : AgentConnects(a)
    \/ \E r \in Requests : ConnectJoins(r)

ConvNext == QuietNext \/ SharedNext

ConvSpec == ConvInit /\ [][ConvNext \/ \E v \in Visitors : VisitorWrites(v)]_convVars

-----------------------------------------------------------------------------
(***************************************************************************)
(* Nobody's conversation is seized.  Whenever AssignSelf gives a           *)
(* conversation to another agent, the new agent is an administrator, or    *)
(* the agent who loses it was offline or disabled at some moment since the *)
(* request came in, or the conversation was the new agent's or unassigned  *)
(* at some such moment.  The checks are reads of earlier states than the   *)
(* update; the condition of the UPDATE is what keeps them good.            *)
(***************************************************************************)
OwnershipIsNotSeized ==
    [][\A i \in Convs :
          LET loser == convs[i].owner
              winner == convs'[i].owner
          IN  convs[i].status # "none" /\ winner # loser =>
                 \/ winner \in Admins
                 \/ loser \in away[winner]
                 \/ i \in entitled[winner]]_convVars

(***************************************************************************)
(* The purge destroys nothing that has been taken back from the recycle    *)
(* bin, whenever the restore comes between its list and its deletion.      *)
(***************************************************************************)
PurgeSparesRestored ==
    [][\A i \in Convs : convs'[i].status = "purged" =>
          convs[i].status \in {"deleted", "purged"}]_convVars

(***************************************************************************)
(* What comments of the repository say and the code does not do.           *)
(***************************************************************************)
\* http.go, AssignSelf: of concurrent claims only one succeeds.  AssignAgent
\* has no condition on the agent, so the later claim takes the conversation
\* from the agent whose claim has just succeeded.
OneClaimSucceeds ==
    [][\A a \in Agents :
          claim[a].pc = "assign" /\ claim'[a].pc = "attach" =>
             LET i == claim[a].conv IN
             convs[i].status = "open" => convs[i].owner \in {a, NoOne}]_convVars

\* store.go, EnsureFreshConversation: a conversation with unread messages is
\* never closed for being stale.  A message stored after the read is buried.
UnreadIsNotBuried ==
    [][\A r \in Requests :
          visit[r].pc = "close" /\ visit'[r].pc = "create" =>
             convs[visit[r].conv].unread = 0]_convVars

\* store.go, EnsureFreshConversation: the renewed conversation inherits the
\* agent of the old one.  An agent who took the old one over meanwhile loses
\* the visitor to the agent taken over.
RenewalKeepsTheAgent ==
    [][\A r \in Requests :
          visit[r].pc = "create" /\ visit[r].conv # 0 /\ visit'[r].pc = "idle" =>
             visit[r].owner = convs[visit[r].conv].owner]_convVars

\* store.go, EnsureConversation: the visitor's open conversation is found or
\* created.  Two requests that both find none both create one.
OneOpenConversation ==
    \A v \in Visitors, i, j \in Convs : i \in OpenOf(v) /\ j \in OpenOf(v) => i = j

=============================================================================
