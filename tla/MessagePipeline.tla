--------------------------- MODULE MessagePipeline ---------------------------
(***************************************************************************)
(* The way of a chat message through the server:                           *)
(*                                                                         *)
(*   Hub.handleIncoming    takes one frame at a time off hub.incoming and  *)
(*                         decides the conversation (internal/ws)          *)
(*   Preprocess...         limits and checks it, on the Hub's goroutine    *)
(*   PersistMessageAsync   a bounded number of tasks store the message,    *)
(*                         then acknowledge it, then fan it out            *)
(*   PersistDeliveryAsync, ReplayUndeliveredAsync                          *)
(*                         (internal/service/message_pipeline.go)          *)
(*                                                                         *)
(* It is composed with Conversations, whose handlers move the              *)
(* conversations, their agents and the connections' bindings meanwhile.    *)
(* Every database statement or transaction is one step.  The process may   *)
(* crash and start again: the database and the clients' outboxes survive.  *)
(***************************************************************************)
EXTENDS Conversations, Sequences, FiniteSets

CONSTANTS Msgs, Author,     \* the messages and who writes each
          Slots,            \* Service.messageSlots
          MaxSends,         \* bound: frames a client sends for one message
          MaxQueue,         \* hub.incoming's capacity
          MaxFaults,        \* bound: database errors
          MaxCrashes,       \* bound: crashes of the process
          MaxBlocks,        \* bound: times a visitor is blocked or unblocked
          NoMsg             \* no message

ASSUME PipelineAssumption ==
    /\ Author \in [Msgs -> Visitors \cup Agents]
    /\ Visitors \cap Agents = {} /\ NoMsg \notin Msgs /\ IsFiniteSet(Slots)
    /\ MaxSends \in Nat /\ MaxQueue \in Nat /\ MaxFaults \in Nat
    /\ MaxCrashes \in Nat /\ MaxBlocks \in Nat

FromAgent(m) == Author[m] \in Agents

VARIABLES
    declared,   \* the conversation an agent's message names, or 0
    received,   \* how many frames of a message have reached the server
    inbox,      \* hub.incoming
    handling,   \* the agent's frame the Hub is working on
    task,       \* the running tasks of PersistMessageAsync
    row,        \* the messages table: the conversation of a message, or 0
    stored,     \* how often a message has been inserted
    answered,   \* how many frames of a message have been answered
    lost,       \* how many frames of a message a crash has taken
    acked,      \* messages whose author has got the ACK
    refused,    \* messages answered "identifier conflict"
    pushed,     \* which insertions of a message have been fanned out
    heard,      \* which agents' messages which visitors' clients have been sent
    delivered,  \* messages.delivered_ws
    receipts,   \* delivery receipts on their way
    replay,     \* the conversation a new connection replays, or 0
    blocked,    \* visitors blocked in visitor_profiles
    spent,      \* how much of this module's bounds is used up
    mayWrite,   \* conversations seen open to the author since the first frame
    silent      \* messages of visitors blocked ever since the frame came

tableVars   == <<row, stored, delivered>>
clientVars  == <<declared, received, acked, heard>>
answerVars  == <<answered, lost, refused>>
visitorVars == <<receipts, replay, blocked>>
msgVars     == <<tableVars, clientVars, answerVars, visitorVars, inbox, handling,
                 task, pushed, spent>>
pipelineVars == <<convVars, msgVars, mayWrite, silent>>

NoFrame == [pc |-> "idle", msg |-> NoMsg, conv |-> 0]
NoTask  == [pc |-> "idle", msg |-> NoMsg, conv |-> 0, live |-> FALSE,
            mute |-> FALSE, nth |-> 0]

\* resolve, again: the conversation is to be read from the connection, once
\* more if there was none; owns: AgentOwnsConversation is to be asked.
Handlings == [pc : {"idle", "resolve", "again", "owns", "follow", "assign"},
              msg : Msgs \cup {NoMsg}, conv : Convs \cup {0}]

\* live: the author is still on the connection the frame came from;
\* mute: the visitor was found blocked; nth: which insertion this task made.
Tasks == [pc : {"idle", "check", "find", "open", "blocked", "insert", "ack", "push"},
          msg : Msgs \cup {NoMsg}, conv : Convs \cup {0},
          live : BOOLEAN, mute : BOOLEAN, nth : Nat]

MsgTypeOK ==
    /\ declared \in [Msgs -> Convs \cup {0}]
    /\ received \in [Msgs -> Nat]
    /\ inbox \in Seq(Msgs)
    /\ handling \in Handlings
    /\ task \in [Slots -> Tasks]
    /\ row \in [Msgs -> Convs \cup {0}]
    /\ stored \in [Msgs -> Nat]
    /\ answered \in [Msgs -> Nat] /\ lost \in [Msgs -> Nat]
    /\ acked \subseteq Msgs /\ refused \subseteq Msgs
    /\ pushed \in [Msgs -> SUBSET Nat]
    /\ heard \subseteq Msgs \X Visitors /\ delivered \subseteq Msgs
    /\ receipts \subseteq [msg : Msgs, conv : Convs \cup {0}]
    /\ replay \in [Visitors -> Convs \cup {0}]
    /\ blocked \subseteq Visitors
    /\ spent \in [{"faults", "crashes", "blocks"} -> Nat]
    /\ mayWrite \in [Msgs -> SUBSET Convs]
    /\ silent \subseteq Msgs

PipelineTypeOK == ConvTypeOK /\ MsgTypeOK

PipelineInit ==
    /\ ConvInit
    /\ declared = [m \in Msgs |-> 0] /\ received = [m \in Msgs |-> 0]
    /\ inbox = <<>> /\ handling = NoFrame
    /\ task = [s \in Slots |-> NoTask]
    /\ row = [m \in Msgs |-> 0] /\ stored = [m \in Msgs |-> 0]
    /\ answered = [m \in Msgs |-> 0] /\ lost = [m \in Msgs |-> 0]
    /\ acked = {} /\ refused = {} /\ pushed = [m \in Msgs |-> {}]
    /\ heard = {} /\ delivered = {} /\ receipts = {} /\ blocked = {}
    /\ replay = [v \in Visitors |-> 0]
    /\ spent = [faults |-> 0, crashes |-> 0, blocks |-> 0]
    /\ mayWrite = [m \in Msgs |-> {}] /\ silent = {}

-----------------------------------------------------------------------------
NewTask(m, i) == [pc |-> IF FromAgent(m) THEN "insert" ELSE "check", msg |-> m, conv |-> i,
                  live |-> TRUE, mute |-> FALSE, nth |-> 0]

Spend(budget, max) == /\ spent[budget] < max
                      /\ spent' = [spent EXCEPT ![budget] = @ + 1]

Fault == Spend("faults", MaxFaults)      \* a database statement fails

Answer(m) == answered' = [answered EXCEPT ![m] = @ + 1]

IsQueued(x) == \/ \E k \in DOMAIN inbox : Author[inbox[k]] = x
               \/ handling.pc # "idle" /\ Author[handling.msg] = x

\* Frames of a message received, and neither answered nor lost.
InFlight(m) == Cardinality({k \in DOMAIN inbox : inbox[k] = m})
             + (IF handling.pc # "idle" /\ handling.msg = m THEN 1 ELSE 0)
             + Cardinality({s \in Slots : task[s].pc \notin {"idle", "push"}
                                          /\ task[s].msg = m})

\* What a step records about the frames and tasks in progress at its end.
Remember ==
    /\ mayWrite' = [m \in Msgs |->
                       IF received'[m] = 0 \/ ~FromAgent(m) THEN {}
                       ELSE mayWrite[m] \cup {i \in Convs : \/ Owns(Author[m], i)
                                                            \/ Owns(Author[m], i)'}]
    /\ silent' = {m \in Msgs : /\ received'[m] > 0
                               /\ Author[m] \in blocked'
                               /\ received[m] = 0 \/ m \in silent}

-----------------------------------------------------------------------------
(***************************************************************************)
(* Faulty variants of the actions below: each is a slip in the code that   *)
(* one of the properties must expose.  Next uses none.                     *)
(***************************************************************************)
\* PreprocessAgentMessage trusts the binding of the connection.
HubResolvesUnchecked ==
    /\ handling.pc = "owns"
    /\ handling' = [handling EXCEPT !.pc = "follow"]
    /\ UNCHANGED <<convVars, tableVars, clientVars, answerVars, visitorVars, inbox,
                   task, pushed, spent>>
    /\ Remember

\* the duplicate of a message is taken for a new one.
TaskFindsDuplicateNew(s) ==
    /\ task[s].pc = "insert"
    /\ LET m == task[s].msg IN
       /\ row[m] = task[s].conv
       /\ task' = [task EXCEPT ![s] = [@ EXCEPT !.pc = "ack", !.nth = stored[m]]]
    /\ UNCHANGED <<convVars, tableVars, clientVars, answerVars, visitorVars, inbox,
                   handling, pushed, spent>>
    /\ Remember

\* the ACK is sent although the transaction has failed.
TaskFailsToInsertAndAcks(s) ==
    /\ task[s].pc = "insert"
    /\ Fault
    /\ row[task[s].msg] = 0
    /\ task' = [task EXCEPT ![s].pc = "ack"]
    /\ UNCHANGED <<convVars, tableVars, clientVars, answerVars, visitorVars, inbox,
                   handling, pushed>>
    /\ Remember

\* a message whose task finds no free slot is dropped without an answer.
DispatchOrDrop(m, i) ==
    LET free == {s \in Slots : task[s].pc = "idle"} IN
    \/ /\ \E s \in free :
            task' = [task EXCEPT ![s] = NewTask(m, i)]
       /\ UNCHANGED answered
    \/ free = {} /\ UNCHANGED <<answered, task>>

\* the columns conv_id and sender_ref of the INSERT are swapped.
StoresUnderAuthor(m, i) ==
    /\ row[m] = 0
    /\ row' = [row EXCEPT ![m] = Author[m]]
    /\ stored' = [stored EXCEPT ![m] = @ + 1]
    /\ UNCHANGED convs

\* IsVisitorBlocked is not asked.
TaskChecksNothing(s) ==
    /\ task[s].pc = "blocked"
    /\ task' = [task EXCEPT ![s].pc = "insert"]
    /\ UNCHANGED <<convVars, tableVars, clientVars, answerVars, visitorVars, inbox,
                   handling, pushed, spent>>
    /\ Remember

-----------------------------------------------------------------------------
(***************************************************************************)
(* runBounded: a task takes a free slot, or the frame is answered "busy".  *)
(***************************************************************************)
Dispatch(m, i) ==
    LET free == {s \in Slots : task[s].pc = "idle"} IN
    \/ /\ \E s \in free :
            task' = [task EXCEPT ![s] = NewTask(m, i)]
       /\ UNCHANGED answered
    \/ /\ free = {}
       /\ Answer(m)
       /\ UNCHANGED task

-----------------------------------------------------------------------------
(***************************************************************************)
(* The clients.  The widget sends a message once; the agents' outbox sends *)
(* it again, naming the same conversation, until it has got the ACK.       *)
(***************************************************************************)
VisitorSends(m) ==
    /\ ~FromAgent(m) /\ Author[m] \in present
    /\ received[m] = 0
    /\ Len(inbox) < MaxQueue
    /\ received' = [received EXCEPT ![m] = 1]
    /\ inbox' = Append(inbox, m)
    /\ UNCHANGED <<convVars, tableVars, declared, acked, heard, answerVars, visitorVars,
                   handling, task, pushed, spent>>
    /\ Remember

AgentSends(m, i) ==
    /\ FromAgent(m) /\ Author[m] \in online
    /\ m \notin acked /\ received[m] < MaxSends
    /\ IF received[m] = 0 THEN convs[i].status # "none" ELSE i = declared[m]
    /\ Len(inbox) < MaxQueue
    /\ declared' = [declared EXCEPT ![m] = i]
    /\ received' = [received EXCEPT ![m] = @ + 1]
    /\ inbox' = Append(inbox, m)
    /\ UNCHANGED <<convVars, tableVars, acked, heard, answerVars, visitorVars,
                   handling, task, pushed, spent>>
    /\ Remember

-----------------------------------------------------------------------------
(***************************************************************************)
(* handleIncoming, a visitor's message: the conversation is the one the    *)
(* connection is bound to; the limiter may refuse the message.             *)
(***************************************************************************)
HubTakesVisitor ==
    /\ handling.pc = "idle"
    /\ inbox # <<>> /\ ~FromAgent(Head(inbox))
    /\ inbox' = Tail(inbox)
    /\ \/ Dispatch(Head(inbox), seat[Author[Head(inbox)]])
       \/ Answer(Head(inbox)) /\ UNCHANGED task
    /\ UNCHANGED <<convVars, tableVars, clientVars, lost, refused, visitorVars, handling,
                   pushed, spent>>
    /\ Remember

(***************************************************************************)
(* An agent's message: bindAgentConv binds the connection to the declared  *)
(* conversation if that is the agent's or unassigned.                      *)
(***************************************************************************)
HubBinds ==
    /\ handling.pc = "idle"
    /\ inbox # <<>> /\ FromAgent(Head(inbox))
    /\ inbox' = Tail(inbox)
    /\ LET m == Head(inbox)
           a == Author[m]
       IN  \/ /\ declared[m] = bound[a] \/ Owns(a, declared[m])
              /\ bound' = [bound EXCEPT ![a] = declared[m]]
              /\ handling' = [pc |-> "resolve", msg |-> m, conv |-> 0]
              /\ UNCHANGED <<answered, spent>>
           \/ /\ declared[m] # bound[a]
              /\ (~Owns(a, declared[m]) /\ UNCHANGED spent) \/ Fault
              /\ Answer(m)
              /\ UNCHANGED <<bound, handling>>
    /\ UNCHANGED <<rowVars, disabled, online, seatVars, deskVars, visit, used, seenVars,
                   tableVars, clientVars, lost, refused, visitorVars, task, pushed>>
    /\ Remember

(***************************************************************************)
(* The conversation is read from the connection again, by handleIncoming   *)
(* and, if the connection is bound to none, by PreprocessAgentMessage.     *)
(***************************************************************************)
HubReads ==
    /\ handling.pc \in {"resolve", "again"}
    /\ LET m == handling.msg
           i == bound[Author[m]]
       IN  \/ /\ i # 0
              /\ handling' = [pc |-> "owns", msg |-> m, conv |-> i]
              /\ UNCHANGED answered
           \/ /\ i = 0 /\ handling.pc = "resolve"
              /\ handling' = [pc |-> "again", msg |-> m, conv |-> 0]
              /\ UNCHANGED answered
           \/ /\ i = 0 /\ handling.pc = "again"
              /\ handling' = NoFrame
              /\ Answer(m)
    /\ UNCHANGED <<convVars, tableVars, clientVars, lost, refused, visitorVars, inbox,
                   task, pushed, spent>>
    /\ Remember

\* PreprocessAgentMessage asks AgentOwnsConversation about what was read.
HubResolves ==
    /\ handling.pc = "owns"
    /\ LET m == handling.msg
           owns == Owns(Author[m], handling.conv)
       IN  \/ /\ owns
              /\ handling' = [handling EXCEPT !.pc = "follow"]
              /\ UNCHANGED <<answered, spent>>
           \/ /\ (~owns /\ UNCHANGED spent) \/ Fault
              /\ Answer(m)
              /\ handling' = NoFrame
    /\ UNCHANGED <<convVars, tableVars, clientVars, lost, refused, visitorVars, inbox,
                   task, pushed>>
    /\ Remember

(***************************************************************************)
(* FollowUpConversation: if the conversation has been closed and its       *)
(* visitor has an open one, the message goes there, unless another agent   *)
(* serves it.  An error of the lookup is ignored.                          *)
(***************************************************************************)
HubFollows ==
    /\ handling.pc = "follow"
    /\ LET m == handling.msg
           a == Author[m]
           i == handling.conv
           next == IF convs[i].status \in {"closed", "deleted"}
                   THEN OpenOf(convs[i].visitor) ELSE {}
       IN  \/ /\ (next = {} /\ UNCHANGED spent) \/ Fault
              /\ Dispatch(m, i)
              /\ handling' = NoFrame /\ UNCHANGED bound
           \/ \E n \in next :
                 /\ UNCHANGED spent
                 /\ \/ /\ convs[n].owner = NoOne
                       /\ handling' = [pc |-> "assign", msg |-> m, conv |-> n]
                       /\ UNCHANGED <<bound, answered, task>>
                    \/ /\ convs[n].owner = a
                       /\ bound' = [bound EXCEPT ![a] = n]
                       /\ Dispatch(m, n)
                       /\ handling' = NoFrame
                    \/ /\ convs[n].owner \notin {a, NoOne}
                       /\ Answer(m)
                       /\ handling' = NoFrame /\ UNCHANGED <<bound, task>>
    /\ UNCHANGED <<rowVars, disabled, online, seatVars, deskVars, visit, used, seenVars,
                   tableVars, clientVars, lost, refused, visitorVars, inbox, pushed>>
    /\ Remember

\* AssignAgent takes the open conversation, whoever serves it by now.
HubAssigns ==
    /\ handling.pc = "assign"
    /\ LET m == handling.msg
           a == Author[m]
           n == handling.conv
       IN  \/ /\ convs' = [convs EXCEPT ![n].owner =
                               IF convs[n].status = "open" THEN a ELSE @]
              /\ bound' = [bound EXCEPT ![a] = n]
              /\ Dispatch(m, n)
              /\ UNCHANGED spent
           \/ /\ Fault
              /\ Answer(m)
              /\ UNCHANGED <<convs, bound, task>>
    /\ handling' = NoFrame
    /\ UNCHANGED <<purging, disabled, online, seatVars, deskVars, visit, used,
                   tableVars, clientVars, lost, refused, visitorVars, inbox, pushed>>
    /\ Observe
    /\ Remember

-----------------------------------------------------------------------------
(***************************************************************************)
(* PersistMessageAsync.  A visitor's conversation that has been deleted is *)
(* replaced by an open one; an error of the question is ignored.           *)
(***************************************************************************)
TaskChecks(s) ==
    /\ task[s].pc = "check"
    /\ LET gone == convs[task[s].conv].status \in {"deleted", "purged"} IN
       \/ /\ gone
          /\ task' = [task EXCEPT ![s].pc = "find"]
          /\ UNCHANGED spent
       \/ /\ (~gone /\ UNCHANGED spent) \/ Fault
          /\ task' = [task EXCEPT ![s].pc = "blocked"]
    /\ UNCHANGED <<convVars, tableVars, clientVars, answerVars, visitorVars, inbox,
                   handling, pushed>>
    /\ Remember

\* The task's answer to a failed statement.
Fails(s) == /\ Fault
            /\ Answer(task[s].msg)
            /\ task' = [task EXCEPT ![s] = NoTask]

\* RebindClient on the connection the frame came from.
MovesTo(s, i) ==
    /\ task' = [task EXCEPT ![s] = [@ EXCEPT !.pc = "blocked", !.conv = i]]
    /\ seat' = IF task[s].live THEN [seat EXCEPT ![Author[task[s].msg]] = i] ELSE seat

TaskFinds(s) ==
    /\ task[s].pc = "find"
    /\ LET v == Author[task[s].msg] IN
       \/ /\ OpenOf(v) = {}
          /\ task' = [task EXCEPT ![s].pc = "open"]
          /\ UNCHANGED <<seat, answered, spent>>
       \/ /\ \E i \in Convs : IsLatestOpen(v, i) /\ MovesTo(s, i)
          /\ UNCHANGED <<answered, spent>>
       \/ Fails(s) /\ UNCHANGED seat
    /\ UNCHANGED <<rowVars, agentVars, present, deskVars, visit, used, seenVars,
                   tableVars, clientVars, lost, refused, visitorVars, inbox, handling,
                   pushed>>
    /\ Remember

TaskOpens(s) ==
    /\ task[s].pc = "open"
    /\ \/ /\ \E i \in Convs : /\ IsNextConv(i)
                              /\ Create(i, Author[task[s].msg], NoOne)
                              /\ MovesTo(s, i)
          /\ UNCHANGED <<answered, spent>>
       \/ Fails(s) /\ UNCHANGED <<convs, seat>>
    /\ UNCHANGED <<purging, agentVars, present, deskVars, visit, used,
                   tableVars, clientVars, lost, refused, visitorVars, inbox, handling,
                   pushed>>
    /\ Observe
    /\ Remember

\* IsVisitorBlocked; an error leaves the visitor unblocked.
TaskChecksBlock(s) ==
    /\ task[s].pc = "blocked"
    /\ \/ /\ LET mute == Author[task[s].msg] \in blocked IN
             task' = [task EXCEPT ![s] = [@ EXCEPT !.pc = "insert", !.mute = mute]]
          /\ UNCHANGED spent
       \/ /\ task' = [task EXCEPT ![s].pc = "insert"]
          /\ Fault
    /\ UNCHANGED <<convVars, tableVars, clientVars, answerVars, visitorVars, inbox,
                   handling, pushed>>
    /\ Remember

(***************************************************************************)
(* InsertMessageIdempotent: the message becomes a row, which also counts   *)
(* as unread, unless a row of that identifier exists: the same message is  *)
(* acknowledged again, one of another conversation is a conflict.          *)
(***************************************************************************)
Stores(m, i) ==
    /\ row[m] = 0
    /\ row' = [row EXCEPT ![m] = i]
    /\ stored' = [stored EXCEPT ![m] = @ + 1]
    /\ convs' = IF FromAgent(m) \/ convs[i].status = "purged" THEN convs
                ELSE [convs EXCEPT ![i].unread = @ + 1]

TaskInserts(s) ==
    /\ task[s].pc = "insert"
    /\ LET m == task[s].msg IN
       /\ Stores(m, task[s].conv)
       /\ task' = [task EXCEPT ![s] = [@ EXCEPT !.pc = "ack", !.nth = stored[m] + 1]]
    /\ UNCHANGED <<purging, agentVars, seatVars, deskVars, visit, used, delivered,
                   clientVars, answerVars, visitorVars, inbox, handling, pushed, spent>>
    /\ Observe
    /\ Remember

TaskFindsDuplicate(s) ==
    /\ task[s].pc = "insert"
    /\ row[task[s].msg] # 0 /\ row[task[s].msg] = task[s].conv
    /\ task' = [task EXCEPT ![s].pc = "ack"]
    /\ UNCHANGED <<convVars, tableVars, clientVars, answerVars, visitorVars, inbox,
                   handling, pushed, spent>>
    /\ Remember

TaskFindsConflict(s) ==
    /\ task[s].pc = "insert"
    /\ LET m == task[s].msg IN
       /\ row[m] \notin {0, task[s].conv}
       /\ Answer(m)
       /\ refused' = refused \cup {m}
    /\ task' = [task EXCEPT ![s] = NoTask]
    /\ UNCHANGED <<convVars, tableVars, clientVars, lost, visitorVars, inbox, handling,
                   pushed, spent>>
    /\ Remember

\* The transaction fails, or it is committed and the connection is lost.
TaskFailsToInsert(s) ==
    /\ task[s].pc = "insert"
    /\ Fails(s)
    /\ Stores(task[s].msg, task[s].conv) \/ UNCHANGED <<row, stored, convs>>
    /\ UNCHANGED <<purging, agentVars, seatVars, deskVars, visit, used, delivered,
                   clientVars, lost, refused, visitorVars, inbox, handling, pushed>>
    /\ Observe
    /\ Remember

(***************************************************************************)
(* The ACK goes to every connection of the agent, or to the visitor's      *)
(* connection; then a new message is fanned out, a blocked visitor's not.  *)
(***************************************************************************)
TaskAcks(s) ==
    /\ task[s].pc = "ack"
    /\ LET m == task[s].msg
           there == IF FromAgent(m) THEN Author[m] \in online
                    ELSE task[s].live /\ Author[m] \in present
       IN  /\ Answer(m)
           /\ acked' = IF there THEN acked \cup {m} ELSE acked
    /\ task' = [task EXCEPT ![s] = IF @.nth # 0 /\ ~@.mute
                                   THEN [@ EXCEPT !.pc = "push"] ELSE NoTask]
    /\ UNCHANGED <<convVars, tableVars, declared, received, heard, lost, refused,
                   visitorVars, inbox, handling, pushed, spent>>
    /\ Remember

\* FanoutToConv: the visitor gets it if still bound to the conversation.
TaskPushes(s) ==
    /\ task[s].pc = "push"
    /\ LET m == task[s].msg IN
       /\ pushed' = [pushed EXCEPT ![m] = @ \cup {task[s].nth}]
       /\ heard' = IF FromAgent(m)
                   THEN heard \cup {<<m, v>> : v \in {w \in present : seat[w] = task[s].conv}}
                   ELSE heard
    /\ task' = [task EXCEPT ![s] = NoTask]
    /\ UNCHANGED <<convVars, tableVars, declared, received, acked, answerVars,
                   visitorVars, inbox, handling, spent>>
    /\ Remember

-----------------------------------------------------------------------------
(***************************************************************************)
(* PersistDeliveryAsync: a receipt names a message; its conversation is    *)
(* the one the connection is bound to when the frame is handled.           *)
(***************************************************************************)
VisitorConfirms(m, v) ==
    /\ <<m, v>> \in heard /\ v \in present /\ m \notin delivered
    /\ receipts' = receipts \cup {[msg |-> m, conv |-> seat[v]]}
    /\ receipts' # receipts
    /\ UNCHANGED <<convVars, tableVars, clientVars, answerVars, replay, blocked, inbox,
                   handling, task, pushed, spent>>
    /\ Remember

DeliveryApplies(x) ==
    /\ delivered' = IF FromAgent(x.msg) /\ row[x.msg] = x.conv
                    THEN delivered \cup {x.msg} ELSE delivered
    /\ receipts' = receipts \ {x}
    /\ UNCHANGED <<convVars, row, stored, clientVars, answerVars, replay, blocked, inbox,
                   handling, task, pushed, spent>>
    /\ Remember

(***************************************************************************)
(* ReplayUndeliveredAsync sends the agents' messages without a receipt.    *)
(* ListUndeliveredAgentMessages selects one column more than it scans, and *)
(* so fails on the first row.                                              *)
(***************************************************************************)
SelectedColumns == 12
ScanTargets == 11

Undelivered(i) == {m \in Msgs : row[m] = i /\ FromAgent(m) /\ m \notin delivered}

ReplayRuns(v) ==
    /\ replay[v] # 0
    /\ heard' = IF v \in present /\ ScanTargets = SelectedColumns
                THEN heard \cup (Undelivered(replay[v]) \X {v}) ELSE heard
    /\ replay' = [replay EXCEPT ![v] = 0]
    /\ UNCHANGED <<convVars, tableVars, declared, received, acked, answerVars, receipts,
                   blocked, inbox, handling, task, pushed, spent>>
    /\ Remember

BlocksVisitor(v) ==
    /\ Spend("blocks", MaxBlocks)
    /\ blocked' = IF v \in blocked THEN blocked \ {v} ELSE blocked \cup {v}
    /\ UNCHANGED <<convVars, tableVars, clientVars, answerVars, receipts, replay, inbox,
                   handling, task, pushed>>
    /\ Remember

-----------------------------------------------------------------------------
(***************************************************************************)
(* The steps of Conversations the messages have a part in.  A client's     *)
(* frames are off the queue before its next connection comes.              *)
(***************************************************************************)
AgentArrives(a) ==
    /\ ~IsQueued(a)
    /\ AgentConnects(a)
    /\ UNCHANGED msgVars
    /\ Remember

\* A new connection of the visitor replaces the one the tasks know.
VisitorArrives(r) ==
    LET v == visit[r].visitor IN
    /\ ~IsQueued(v)
    /\ ConnectJoins(r)
    /\ replay' = [replay EXCEPT ![v] = visit[r].conv]
    /\ task' = [s \in Slots |-> IF task[s].pc # "idle" /\ Author[task[s].msg] = v
                                THEN [task[s] EXCEPT !.live = FALSE] ELSE task[s]]
    /\ UNCHANGED <<tableVars, clientVars, answerVars, receipts, blocked, inbox, handling,
                   pushed, spent>>
    /\ Remember

\* PurgeConversations deletes the messages with their conversations.
PurgeTakesMessages ==
    LET goes == {m \in Msgs : /\ row[m] \in purging
                              /\ convs[row[m]].status = "deleted"}
    IN
    /\ PurgeApplies
    /\ row' = [m \in Msgs |-> IF m \in goes THEN 0 ELSE row[m]]
    /\ delivered' = delivered \ goes
    /\ UNCHANGED <<stored, clientVars, answerVars, visitorVars, inbox, handling, task,
                   pushed, spent>>
    /\ Remember

(***************************************************************************)
(* The process ends: its queue, tasks, requests and connections are gone.  *)
(***************************************************************************)
Crash ==
    /\ Spend("crashes", MaxCrashes)
    /\ lost' = [m \in Msgs |-> lost[m] + InFlight(m)]
    /\ inbox' = <<>> /\ handling' = NoFrame
    /\ task' = [s \in Slots |-> NoTask]
    /\ receipts' = {} /\ replay' = [v \in Visitors |-> 0]
    /\ online' = {} /\ present' = {} /\ purging' = {}
    /\ claim' = [a \in Agents |-> IdleClaim] /\ closing' = [a \in Agents |-> 0]
    /\ reading' = [a \in Agents |-> 0]
    /\ visit' = [r \in Requests |-> IdleVisit]
    /\ UNCHANGED <<convs, disabled, bound, seat, used, tableVars, clientVars, answered,
                   refused, blocked, pushed>>
    /\ Observe
    /\ Remember

-----------------------------------------------------------------------------
HubNext == HubTakesVisitor \/ HubBinds \/ HubReads \/ HubResolves \/ HubFollows \/ HubAssigns

TaskNext ==
    \E s \in Slots :
        \/ TaskChecks(s) \/ TaskFinds(s) \/ TaskOpens(s) \/ TaskChecksBlock(s)
        \/ TaskInserts(s) \/ TaskFindsDuplicate(s) \/ TaskFindsConflict(s)
        \/ TaskFailsToInsert(s) \/ TaskAcks(s) \/ TaskPushes(s)

ClientNext ==
    \/ \E m \in Msgs, i \in Convs : AgentSends(m, i)
    \/ \E m \in Msgs : VisitorSends(m)
    \/ \E m \in Msgs, v \in Visitors : VisitorConfirms(m, v)
    \/ \E a \in Agents : AgentArrives(a)
    \/ \E r \in Requests : VisitorArrives(r)

ReceiptNext ==
    \/ \E x \in receipts : DeliveryApplies(x)
    \/ \E v \in Visitors : ReplayRuns(v) \/ BlocksVisitor(v)

PipelineNext ==
    \/ HubNext \/ TaskNext \/ ClientNext \/ ReceiptNext
    \/ PurgeTakesMessages \/ Crash
    \/ QuietNext /\ UNCHANGED msgVars /\ Remember

PipelineSpec == PipelineInit /\ [][PipelineNext]_pipelineVars

-----------------------------------------------------------------------------
(***************************************************************************)
(* The ACK means that the transaction has been committed: its author never *)
(* holds one for a message that has not been stored, whatever fails.       *)
(***************************************************************************)
AckedIsStored == \A m \in acked : stored[m] > 0

(***************************************************************************)
(* A message is fanned out at most once for each time it is stored, even   *)
(* when its frame comes again and two tasks work on it at the same time:   *)
(* a task about to fan out holds an insertion nobody has fanned out, and   *)
(* no other task holds it.                                                 *)
(***************************************************************************)
PushedOncePerRow ==
    \A s, t \in Slots :
        task[s].pc = "push" =>
           /\ task[s].nth \in 1..stored[task[s].msg]
           /\ task[s].nth \notin pushed[task[s].msg]
           /\ s # t /\ task[t].pc = "push" =>
                 \/ task[s].msg # task[t].msg
                 \/ task[s].nth # task[t].nth

(***************************************************************************)
(* An agent's message is stored only in a conversation that was the        *)
(* agent's or unassigned at some moment since its first frame came in.     *)
(***************************************************************************)
RowIsEntitled == \A m \in Msgs : FromAgent(m) /\ row[m] # 0 => row[m] \in mayWrite[m]

(***************************************************************************)
(* No frame disappears: each is waiting, being worked on, answered with an *)
(* ACK or an error, or was lost in a crash.                                *)
(***************************************************************************)
FramesAreAccounted ==
    \A m \in Msgs : received[m] = InFlight(m) + answered[m] + lost[m]

(***************************************************************************)
(* What comments of the repository say and the code does not always do.    *)
(***************************************************************************)
\* message_pipeline.go [113]: a blocked visitor's message is not pushed to the
\* agents, here one who has been blocked ever since it came in.  True as long
\* as the database answers; an error of IsVisitorBlocked counts as unblocked.
BlockedIsSilent ==
    [][\A m \in Msgs : pushed'[m] # pushed[m] => m \notin silent]_pipelineVars

\* hub.go [117]: an agent's message goes to the conversation the client has
\* declared, never to another one left on the connection.  AssignSelf may
\* bind the connection between the check and the second read.
DeclaredVisitorGetsIt ==
    \A m \in Msgs : FromAgent(m) /\ row[m] # 0 =>
        convs[row[m]].visitor = convs[declared[m]].visitor

\* message_pipeline.go: a repeated retry gets the same ACK.  If the
\* conversation is renewed meanwhile, the retry is a conflict.
RetryIsAcked == refused = {}

\* message_pipeline.go: a visitor's new connection is sent the agents'
\* messages that have not been confirmed.
ReplayDelivers ==
    [][\A v \in present : replay[v] # 0 /\ replay'[v] = 0 /\ v \in present' =>
          \A m \in Undelivered(replay[v]) : <<m, v>> \in heard']_pipelineVars

\* service.go [077]: no agent's message is stored where no conversation shows
\* it.  The purge may come between the check and the insertion.
NoOrphanRow == \A m \in Msgs : row[m] # 0 => convs[row[m]].status # "purged"

=============================================================================
