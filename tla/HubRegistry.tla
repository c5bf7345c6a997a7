---------------------------- MODULE HubRegistry ----------------------------
(***************************************************************************)
(* The connection registry of one node, backend/internal/ws: which         *)
(* connections the hub lists (hub.go), which conversation each is bound to *)
(* and the index from conversations to connections (hub_features.go), the  *)
(* hall subscribers (hub_hall.go) and how a connection closes (client.go). *)
(*                                                                         *)
(* Hub.Run is one goroutine, here the process Loop.  HTTP handlers and the *)
(* bounded worker pools are the Workers.  The maps are sync.Maps: every    *)
(* load and store is a step of its own, and Range is a snapshot.           *)
(* Client.close reports to the hub through the bounded channel unregister, *)
(* which only Loop drains; whoever closes waits there for room.            *)
(*                                                                         *)
(* Frames and envelopes are abstracted to the fact that one is sent: what  *)
(* counts is whether the send queue has room.                              *)
(***************************************************************************)
EXTENDS Naturals, Sequences, FiniteSets

CONSTANTS Visitors, Agents, \* accounts
          Clients,          \* WebSocket connections
          Account,          \* the account of each connection
          Convs,            \* conversations
          Workers, Loop,    \* goroutines
          RegisterCap, UnregisterCap, \* channel capacities, 256 in NewHub
          HighCap,          \* sendBufHigh
          Jobs,             \* the jobs the goroutines take on (a bound)
          None

Procs == Workers \cup {Loop}
JobKinds == {"rebind", "attach_all", "detach_owner", "close_all", "fan", "hall"}
Marks == {"open", "pump", "sent"}

ASSUME RegistryAssumption ==
    /\ Account \in [Clients -> Visitors \cup Agents]
    /\ Visitors \cap Agents = {}
    /\ IsFiniteSet(Clients)
    /\ Loop \notin Workers
    /\ Procs \cap Marks = {}
    /\ None \notin Clients \cup Convs \cup Agents
    /\ RegisterCap \in Nat \ {0} /\ UnregisterCap \in Nat \ {0}
    /\ HighCap \in Nat \ {0}
    /\ Jobs \subseteq JobKinds

VARIABLES
    phase,       \* how far the hub has taken a connection
    bound,       \* Client.convID
    closeAt,     \* Client.closed, and who is closing the connection
    high,        \* frames in Client.high
    registerQ, unregisterQ, \* the channels
    visitors,    \* Hub.visitors
    newest,      \* the connection of a visitor the hub listed last (history)
    agents,      \* Hub.agents
    byConv,      \* Hub.byConv
    hallSubs,    \* hallRegistry.subs
    sub,         \* where a HallSubscribe of the connection stands
    revoked,     \* accounts disabled or logged out in the database
    task         \* what each goroutine is doing

listing == <<visitors, newest, agents>>
hall == <<hallSubs, sub>>
queues == <<registerQ, unregisterQ>>
vars == <<phase, bound, closeAt, high, queues, listing, byConv, hall,
          revoked, task>>

\* An unregister that Loop handles before the register of the same connection
\* leaves it "overtaken"; the register that follows makes it a "ghost".
Phases == {"new", "admitted", "queued", "listed", "gone", "overtaken", "ghost"}
Departed == {"gone", "overtaken", "ghost"}

Steps == {"idle", "load", "pick", "detach", "delete", "set", "attach",
          "store", "greet", "unhall"}
Tasks == [op : JobKinds \cup {"idle", "register", "unregister"}, at : Steps,
          conn : Clients \cup {None}, conv : Convs \cup {None},
          key : Convs \cup {None}, acct : Agents \cup {None},
          todo : SUBSET Clients]
Idle == [op |-> "idle", at |-> "idle", conn |-> None, conv |-> None,
         key |-> None, acct |-> None, todo |-> {}]

TypeOK ==
    /\ phase \in [Clients -> Phases]
    /\ bound \in [Clients -> Convs \cup {None}]
    /\ closeAt \in [Clients -> Marks \cup Procs]
    /\ high \in [Clients -> 0..HighCap]
    /\ registerQ \in Seq(Clients) /\ unregisterQ \in Seq(Clients)
    /\ visitors \in [Visitors -> Clients \cup {None}]
    /\ newest \in [Visitors -> Clients \cup {None}]
    /\ agents \in [Agents -> SUBSET Clients]
    /\ byConv \in [Convs -> SUBSET Clients]
    /\ hallSubs \subseteq Clients
    /\ sub \in [Clients -> {"idle", "checked", "stored"}]
    /\ revoked \subseteq Agents
    /\ task \in [Procs -> Tasks]

Init ==
    /\ phase = [c \in Clients |-> "new"]
    /\ bound = [c \in Clients |-> None]
    /\ closeAt = [c \in Clients |-> "open"]
    /\ high = [c \in Clients |-> 0]
    /\ registerQ = <<>> /\ unregisterQ = <<>>
    /\ visitors = [v \in Visitors |-> None]
    /\ newest = [v \in Visitors |-> None]
    /\ agents = [a \in Agents |-> {}]
    /\ byConv = [k \in Convs |-> {}]
    /\ hallSubs = {}
    /\ sub = [c \in Clients |-> "idle"]
    /\ revoked = {}
    /\ task = [p \in Procs |-> Idle]

IsVisitor(c) == Account[c] \in Visitors
Started(c) == phase[c] \notin {"new", "admitted"}  \* its pumps are running
Open(c) == closeAt[c] = "open"
Unblocked(p) == \A c \in Clients : closeAt[c] # p
Free(p) == task[p] = Idle /\ Unblocked(p)
At(p, step) == task[p].at = step /\ Unblocked(p)

-----------------------------------------------------------------------------
(***************************************************************************)
(* Faulty variants of the definitions below: each is a slip in the code    *)
(* that one of the properties at the end of the module must expose.  Spec  *)
(* uses none of them.                                                      *)
(***************************************************************************)
\* close does not ask whether the connection is closed already.
CloseAgain(c, p) == closeAt' = [closeAt EXCEPT ![c] = p]

\* the ping ticker takes a frame that is not there.
WritePumpOnTick(c) ==
    /\ Started(c) /\ Open(c)
    /\ high' = [high EXCEPT ![c] = @ - 1]
    /\ UNCHANGED <<phase, bound, closeAt, queues, listing, byConv, hall,
                   revoked, task>>

\* readPump marks the connection closed and does not report it.
PumpFailsUnreported(c) ==
    /\ Started(c) /\ Open(c)
    /\ closeAt' = [closeAt EXCEPT ![c] = "sent"]
    /\ UNCHANGED <<phase, bound, high, queues, listing, byConv, hall,
                   revoked, task>>

\* handleUnregister strikes out the account, not the connection.
TakeUnregisterOfAccount ==
    /\ Free(Loop) /\ unregisterQ # <<>>
    /\ LET c == Head(unregisterQ)
           a == Account[c] IN
       /\ unregisterQ' = Tail(unregisterQ)
       /\ phase' = [phase EXCEPT ![c] = IF @ = "queued" THEN "overtaken"
                                                        ELSE "gone"]
       /\ IF IsVisitor(c)
            THEN /\ visitors' = [visitors EXCEPT ![a] = None]
                 /\ UNCHANGED agents
            ELSE /\ agents' = [agents EXCEPT ![a] = {}]
                 /\ UNCHANGED visitors
       /\ task' = [task EXCEPT ![Loop] =
             [Idle EXCEPT !.op = "unregister", !.conn = c, !.at = "detach"]]
    /\ UNCHANGED <<bound, closeAt, high, registerQ, newest, byConv, hall, revoked>>

\* DetachAgentFromConv leaves the binding in place.
SetBindingKeepsOwner(p) ==
    /\ At(p, "set")
    /\ IF task[p].op = "detach_owner" THEN /\ task' = [task EXCEPT ![p] = Idle]
              /\ UNCHANGED bound
       ELSE /\ bound' = [bound EXCEPT ![task[p].conn] = task[p].conv]
            /\ task' = [task EXCEPT ![p].at = "attach"]
    /\ UNCHANGED <<phase, closeAt, high, queues, listing, byConv, hall, revoked>>

\* HallSubscribe does not look at the closed flag again.
HallSubscribeOnce(c) ==
    /\ sub[c] = "stored"
    /\ sub' = [sub EXCEPT ![c] = "idle"]
    /\ UNCHANGED <<phase, bound, closeAt, high, queues, listing, byConv,
                   hallSubs, revoked, task>>

-----------------------------------------------------------------------------
(***************************************************************************)
(* Client.Send and Client.close.                                           *)
(***************************************************************************)
\* Goroutine p closes c: only the first close reports, and p waits to report.
Close(c, p) == closeAt' = IF Open(c) THEN [closeAt EXCEPT ![c] = p] ELSE closeAt

\* Goroutine p sends a frame to c; a full queue closes the connection.
Send(c, p) ==
    /\ high' = IF Open(c) /\ high[c] < HighCap
                 THEN [high EXCEPT ![c] = @ + 1] ELSE high
    /\ IF high[c] = HighCap THEN Close(c, p) ELSE UNCHANGED closeAt

\* The report of a close enters the channel once it has room.
ReportClose(c) ==
    /\ closeAt[c] \notin {"open", "sent"}
    /\ Len(unregisterQ) < UnregisterCap
    /\ unregisterQ' = Append(unregisterQ, c)
    /\ closeAt' = [closeAt EXCEPT ![c] = "sent"]
    /\ UNCHANGED <<phase, bound, high, registerQ, listing, byConv, hall,
                   revoked, task>>

\* readPump or writePump ends: the peer left, a deadline or a write failed.
PumpFails(c) ==
    /\ Started(c) /\ Open(c)
    /\ Close(c, "pump")
    /\ UNCHANGED <<phase, bound, high, queues, listing, byConv, hall,
                   revoked, task>>

\* writePump takes a frame out of the queue.
WritePump(c) ==
    /\ Started(c) /\ Open(c) /\ high[c] > 0
    /\ high' = [high EXCEPT ![c] = @ - 1]
    /\ UNCHANGED <<phase, bound, closeAt, queues, listing, byConv, hall,
                   revoked, task>>

-----------------------------------------------------------------------------
(***************************************************************************)
(* Connecting: VisitorWS and AgentWS, then Hub.Register.                   *)
(***************************************************************************)
\* AgentWS: the account is active and the token's version is the present one.
MayConnect(a) == a \notin revoked

\* The checks before the upgrade pass; a visitor gets its conversation here.
Admit(c) ==
    /\ phase[c] = "new"
    /\ \/ /\ IsVisitor(c)
          /\ \E k \in Convs : bound' = [bound EXCEPT ![c] = k]
       \/ /\ ~IsVisitor(c) /\ MayConnect(Account[c])
          /\ UNCHANGED bound
    /\ phase' = [phase EXCEPT ![c] = "admitted"]
    /\ UNCHANGED <<closeAt, high, queues, listing, byConv, hall, revoked, task>>

\* The connection enters the channel and its pumps start.
Register(c) ==
    /\ phase[c] = "admitted"
    /\ Len(registerQ) < RegisterCap
    /\ registerQ' = Append(registerQ, c)
    /\ phase' = [phase EXCEPT ![c] = "queued"]
    /\ UNCHANGED <<bound, closeAt, high, unregisterQ, listing, byConv, hall,
                   revoked, task>>

\* Loop takes a connection from register and lists it.
TakeRegister ==
    /\ Free(Loop) /\ registerQ # <<>>
    /\ LET c == Head(registerQ)
           a == Account[c] IN
       /\ registerQ' = Tail(registerQ)
       /\ phase' = [phase EXCEPT ![c] = IF @ = "overtaken" THEN "ghost"
                                                           ELSE "listed"]
       /\ IF IsVisitor(c)
            THEN /\ visitors' = [visitors EXCEPT ![a] = c]
                 /\ newest' = [newest EXCEPT ![a] = c]
                 /\ UNCHANGED agents
            ELSE /\ agents' = [agents EXCEPT ![a] = @ \cup {c}]
                 /\ UNCHANGED <<visitors, newest>>
       /\ task' = [task EXCEPT ![Loop] =
             [Idle EXCEPT !.op = "register", !.conn = c,
                          !.at = IF IsVisitor(c) THEN "attach" ELSE "greet"]]
    /\ UNCHANGED <<bound, closeAt, high, unregisterQ, byConv, hall, revoked>>

\* The replayed calls and the hello frame.
Greet ==
    /\ At(Loop, "greet")
    /\ Send(task[Loop].conn, Loop)
    /\ task' = [task EXCEPT ![Loop] = Idle]
    /\ UNCHANGED <<phase, bound, queues, listing, byConv, hall, revoked>>

\* Loop takes a closed connection from unregister and strikes it out, a
\* visitor only where its own connection is the one listed.
TakeUnregister ==
    /\ Free(Loop) /\ unregisterQ # <<>>
    /\ LET c == Head(unregisterQ)
           a == Account[c] IN
       /\ unregisterQ' = Tail(unregisterQ)
       /\ phase' = [phase EXCEPT ![c] = IF @ = "queued" THEN "overtaken"
                                                        ELSE "gone"]
       /\ IF IsVisitor(c)
            THEN /\ visitors' = [visitors EXCEPT ![a] = IF @ = c THEN None ELSE @]
                 /\ UNCHANGED agents
            ELSE /\ agents' = [agents EXCEPT ![a] = @ \ {c}]
                 /\ UNCHANGED visitors
       /\ task' = [task EXCEPT ![Loop] =
             [Idle EXCEPT !.op = "unregister", !.conn = c, !.at = "detach"]]
    /\ UNCHANGED <<bound, closeAt, high, registerQ, newest, byConv, hall, revoked>>

\* HallUnsubscribe ends handleUnregister.
Unhall ==
    /\ At(Loop, "unhall")
    /\ hallSubs' = hallSubs \ {task[Loop].conn}
    /\ task' = [task EXCEPT ![Loop] = Idle]
    /\ UNCHANGED <<phase, bound, closeAt, high, queues, listing, byConv, sub,
                   revoked>>

-----------------------------------------------------------------------------
(***************************************************************************)
(* Binding: detachConv, SetConversationID and attachConv, which no lock    *)
(* covers as a whole.                                                      *)
(***************************************************************************)
\* What p does once it is through with a connection.
Proceed(p) ==
    task' = [task EXCEPT ![p] =
        CASE @.op = "register" -> [@ EXCEPT !.at = "greet", !.key = None]
          [] @.op # "register" /\ @.todo # {} ->
               [@ EXCEPT !.at = "pick", !.conn = None, !.key = None]
          [] OTHER -> Idle]

AfterDetach(op) == IF op = "unregister" THEN "unhall" ELSE "set"

\* detachConv reads the binding, then takes the connection out of the index.
ReadDetach(p) ==
    /\ At(p, "detach")
    /\ LET k == bound[task[p].conn] IN
       task' = [task EXCEPT ![p] =
          IF k = None THEN [@ EXCEPT !.at = AfterDetach(task[p].op)]
                      ELSE [@ EXCEPT !.at = "delete", !.key = k]]
    /\ UNCHANGED <<phase, bound, closeAt, high, queues, listing, byConv, hall,
                   revoked>>

DeleteIndex(p) ==
    /\ At(p, "delete")
    /\ byConv' = [byConv EXCEPT ![task[p].key] = @ \ {task[p].conn}]
    /\ task' = [task EXCEPT ![p].at = AfterDetach(task[p].op), ![p].key = None]
    /\ UNCHANGED <<phase, bound, closeAt, high, queues, listing, hall, revoked>>

SetBinding(p) ==
    /\ At(p, "set")
    /\ IF task[p].op = "detach_owner"
         THEN /\ bound' = [bound EXCEPT ![task[p].conn] = None]
              /\ Proceed(p)
         ELSE /\ bound' = [bound EXCEPT ![task[p].conn] = task[p].conv]
              /\ task' = [task EXCEPT ![p].at = "attach"]
    /\ UNCHANGED <<phase, closeAt, high, queues, listing, byConv, hall, revoked>>

\* attachConv reads the binding again, then enters the connection.
ReadAttach(p) ==
    /\ At(p, "attach")
    /\ LET k == bound[task[p].conn] IN
       IF k = None THEN Proceed(p)
       ELSE task' = [task EXCEPT ![p].at = "store", ![p].key = k]
    /\ UNCHANGED <<phase, bound, closeAt, high, queues, listing, byConv, hall,
                   revoked>>

StoreIndex(p) ==
    /\ At(p, "store")
    /\ byConv' = [byConv EXCEPT ![task[p].key] = @ \cup {task[p].conn}]
    /\ Proceed(p)
    /\ UNCHANGED <<phase, bound, closeAt, high, queues, listing, hall, revoked>>

-----------------------------------------------------------------------------
(***************************************************************************)
(* Jobs over a set of connections.                                         *)
(***************************************************************************)
Begin(p, op, k, conns) ==
    /\ op \in Jobs /\ Free(p) /\ conns # {}
    /\ task' = [task EXCEPT ![p] =
          [Idle EXCEPT !.op = op, !.at = "pick", !.conv = k, !.todo = conns]]
    /\ UNCHANGED <<phase, bound, closeAt, high, queues, listing, byConv, hall,
                   revoked>>

\* RebindClient: the persistence workers for a visitor, Loop for an agent
\* that names another conversation, an HTTP handler for a listed agent.
StartRebind(p, c, k) ==
    /\ IF IsVisitor(c) THEN p \in Workers /\ Started(c)
       ELSE \/ p = Loop /\ Started(c)
            \/ p \in Workers /\ c \in agents[Account[c]]
    /\ Begin(p, "rebind", k, {c})

\* AttachAgentToConv, DetachAgentFromConv.
StartAttachAll(p, a, k) == p \in Workers /\ Begin(p, "attach_all", k, agents[a])
StartDetachOwner(p, a, k) == p \in Workers /\ Begin(p, "detach_owner", k, agents[a])

\* fanoutLocal: Loop forwards typing to the conversation, the workers send
\* messages and receipts to every agent as well.
StartFan(p, k) ==
    Begin(p, "fan", k,
          byConv[k] \cup IF p = Loop THEN {} ELSE UNION {agents[a] : a \in Agents})

\* DisableAgent, AgentLogout: the account is disabled or its tokens are revoked in
\* the database; CloseAgent follows.
Revoke(p, a) ==
    /\ "close_all" \in Jobs /\ p \in Workers /\ Free(p)
    /\ a \notin revoked
    /\ revoked' = revoked \cup {a}
    /\ task' = [task EXCEPT ![p] =
          [Idle EXCEPT !.op = "close_all", !.at = "load", !.acct = a]]
    /\ UNCHANGED <<phase, bound, closeAt, high, queues, listing, byConv, hall>>

LoadConnections(p) ==
    /\ At(p, "load")
    /\ LET conns == agents[task[p].acct] IN
       task' = [task EXCEPT ![p] = IF conns = {} THEN Idle
                                   ELSE [@ EXCEPT !.at = "pick", !.todo = conns]]
    /\ UNCHANGED <<phase, bound, closeAt, high, queues, listing, byConv, hall,
                   revoked>>

Without(t, c) == IF t.todo = {c} THEN Idle ELSE [t EXCEPT !.todo = @ \ {c}]
Drop(p, c) == task' = [task EXCEPT ![p] = Without(@, c)]

\* The connections a binding job leaves alone.
Skips(op, c, k) ==
    \/ op = "rebind" /\ bound[c] = k
    \/ op = "detach_owner" /\ bound[c] # k

PickBind(p, c) ==
    /\ At(p, "pick") /\ c \in task[p].todo
    /\ task[p].op \in {"rebind", "attach_all", "detach_owner"}
    /\ IF Skips(task[p].op, c, task[p].conv) THEN Drop(p, c)
       ELSE task' = [task EXCEPT ![p].at = "detach", ![p].conn = c,
                                 ![p].todo = @ \ {c}]
    /\ UNCHANGED <<phase, bound, closeAt, high, queues, listing, byConv, hall,
                   revoked>>

\* A visitor in a stale index entry is passed over.
PickSend(p, c) ==
    /\ At(p, "pick") /\ c \in task[p].todo /\ task[p].op = "fan"
    /\ IF IsVisitor(c) /\ bound[c] # task[p].conv
         THEN UNCHANGED <<high, closeAt>> ELSE Send(c, p)
    /\ Drop(p, c)
    /\ UNCHANGED <<phase, bound, queues, listing, byConv, hall, revoked>>

PickClose(p, c) ==
    /\ At(p, "pick") /\ c \in task[p].todo /\ task[p].op = "close_all"
    /\ Close(c, p)
    /\ Drop(p, c)
    /\ UNCHANGED <<phase, bound, high, queues, listing, byConv, hall, revoked>>

\* Loop answers a frame of c (pong, error), which may be gone by then.
Answer(c) ==
    /\ Free(Loop) /\ Started(c)
    /\ Send(c, Loop)
    /\ UNCHANGED <<phase, bound, queues, listing, byConv, hall, revoked, task>>

-----------------------------------------------------------------------------
(***************************************************************************)
(* The hall subscription of a connection, run by a worker of the hall.     *)
(***************************************************************************)
HallCheck(c) ==
    /\ "hall" \in Jobs /\ Started(c) /\ sub[c] = "idle"
    /\ Open(c)
    /\ sub' = [sub EXCEPT ![c] = "checked"]
    /\ UNCHANGED <<phase, bound, closeAt, high, queues, listing, byConv,
                   hallSubs, revoked, task>>

HallStore(c) ==
    /\ sub[c] = "checked"
    /\ hallSubs' = hallSubs \cup {c}
    /\ sub' = [sub EXCEPT ![c] = "stored"]
    /\ UNCHANGED <<phase, bound, closeAt, high, queues, listing, byConv,
                   revoked, task>>

HallRecheck(c) ==
    /\ sub[c] = "stored"
    /\ hallSubs' = IF Open(c) THEN hallSubs ELSE hallSubs \ {c}
    /\ sub' = [sub EXCEPT ![c] = "idle"]
    /\ UNCHANGED <<phase, bound, closeAt, high, queues, listing, byConv,
                   revoked, task>>

\* hall_unsubscribe, a kick, or the hall closing.
HallDrop(c) ==
    /\ c \in hallSubs
    /\ hallSubs' = hallSubs \ {c}
    /\ UNCHANGED <<phase, bound, closeAt, high, queues, listing, byConv, sub,
                   revoked, task>>

-----------------------------------------------------------------------------
LoopStep ==
    \/ TakeRegister \/ TakeUnregister \/ Greet \/ Unhall
    \/ \E c \in Clients : Answer(c)

BindStep(p) ==
    \/ ReadDetach(p) \/ DeleteIndex(p) \/ SetBinding(p)
    \/ ReadAttach(p) \/ StoreIndex(p)

PickStep(p) ==
    \E c \in Clients : PickBind(p, c) \/ PickSend(p, c) \/ PickClose(p, c)

Start(p) ==
    \/ \E c \in Clients, k \in Convs : StartRebind(p, c, k)
    \/ \E a \in Agents, k \in Convs : StartAttachAll(p, a, k)
    \/ \E a \in Agents, k \in Convs : StartDetachOwner(p, a, k)
    \/ \E k \in Convs : StartFan(p, k)
    \/ \E a \in Agents : Revoke(p, a)

ClientStep(c) ==
    \/ Admit(c) \/ Register(c) \/ PumpFails(c) \/ WritePump(c) \/ ReportClose(c)
    \/ HallCheck(c) \/ HallStore(c) \/ HallRecheck(c) \/ HallDrop(c)

Next ==
    \/ LoopStep
    \/ \E c \in Clients : ClientStep(c)
    \/ \E p \in Procs : Start(p) \/ LoadConnections(p) \/ BindStep(p) \/ PickStep(p)

Spec == Init /\ [][Next]_vars

\* A goroutine that can go on does, a waiting sender gets the room the channel
\* has, and select does not pass over a ready channel for ever.
Fairness ==
    /\ \A c \in Clients : WF_vars(ReportClose(c))
    /\ WF_vars(Greet \/ Unhall \/ BindStep(Loop) \/ PickStep(Loop))
    /\ SF_vars(TakeUnregister)

FairSpec == Spec /\ Fairness

-----------------------------------------------------------------------------
\* While the newest connection of a visitor stays connected the visitor is
\* reachable through it, whatever an older tab does, and every connection of an
\* agent is reachable until its own departure is handled (handleRegister,
\* handleUnregister).
LiveIsListed ==
    /\ \A v \in Visitors :
          newest[v] # None /\ phase[newest[v]] = "listed" => visitors[v] = newest[v]
    /\ \A c \in Clients :
          ~IsVisitor(c) /\ phase[c] = "listed" => c \in agents[Account[c]]

\* Some goroutine has yet to index the present binding of c.
Indexing(c) ==
    \E p \in Procs :
       /\ task[p].conn = c
       /\ task[p].op # "unregister"
       /\ \/ task[p].at \in {"set", "attach"}
          \/ task[p].at = "store" /\ task[p].key = bound[c]

\* However rebinds of one connection interleave, a listed connection is found
\* under the conversation it is bound to, or a rebind still at work will put it
\* there: no customer falls out of the fan-out (RebindClient,
\* AttachAgentToConv, DetachAgentFromConv).
BoundIsIndexed ==
    \A c \in Clients :
       phase[c] = "listed" /\ bound[c] # None /\ c \notin byConv[bound[c]]
          => Indexing(c)

\* A connection whose departure has been handled is in no listing any more, if
\* the hub had seen it arrive first, and takes part in the hall only until the
\* subscription at work looks at the closed flag again (HallSubscribe).
GoneIsForgotten ==
    \A c \in Clients :
       /\ phase[c] = "gone" =>
             /\ \A v \in Visitors : visitors[v] # c
             /\ \A a \in Agents : c \notin agents[a]
       /\ c \in hallSubs /\ phase[c] \in Departed =>
             \/ sub[c] = "stored"
             \/ task[Loop].op = "unregister" /\ task[Loop].conn = c

\* The hub never waits for room in the channel that only the hub drains
\* (Client.Send closes a slow connection to keep the hub from blocking).
LoopNeverStuck ==
    \A c \in Clients : closeAt[c] = Loop => Len(unregisterQ) < UnregisterCap

\* Every connection that closes is struck out in the end, however busy the hub
\* is with other frames and new connections (close, handleUnregister).
ClosedIsHandled ==
    \A c \in Clients : closeAt[c] # "open" ~> phase[c] \in Departed

\* An account is reported online only while one of its connections is there to
\* hear the hub (AgentOnline).
OnlineIsConnected ==
    \A a \in Agents, c \in Clients : c \in agents[a] => phase[c] # "ghost"

\* A visitor with an open connection the hub has listed is reported online
\* (VisitorOnline).
ConnectedIsOnline ==
    \A c \in Clients : IsVisitor(c) /\ phase[c] = "listed" /\ Open(c)
                          => visitors[Account[c]] # None

\* Once CloseAgent is through, a revoked account has no open connection left in
\* the hub (CloseAgent).
RevokedIsClosed ==
    \A c \in Clients :
       /\ Account[c] \in revoked /\ phase[c] = "listed"
       /\ \A p \in Procs : task[p].acct # Account[c]
       => ~Open(c)
=============================================================================
