------------------------ MODULE MessagePipelineProofs ------------------------
(***************************************************************************)
(* Proofs about MessagePipeline for every set of clients, messages and     *)
(* slots and every bound.  The invariant says what a frame or a task may   *)
(* rely on at each point: the conversation it goes to has been seen open   *)
(* to its author, and an insertion it is about to fan out is its alone.    *)
(* FramesAddUp counts the frames in every place they pass through.         *)
(***************************************************************************)
EXTENDS MessagePipeline, ConversationsProofs, FiniteSetTheorems

\* The frame the Hub works on, and where it may go.
HubIsFounded ==
    /\ \A k \in DOMAIN inbox : received[inbox[k]] > 0
    /\ handling.pc # "idle" =>
          /\ handling.msg \in Msgs /\ FromAgent(handling.msg)
          /\ received[handling.msg] > 0
    /\ handling.pc \in {"owns", "follow", "assign"} => handling.conv \in Convs
    /\ handling.pc \in {"follow", "assign"} => handling.conv \in mayWrite[handling.msg]

\* A running task and where its message may go.
TaskIsFounded(s) ==
    task[s].pc # "idle" =>
       /\ task[s].msg \in Msgs /\ received[task[s].msg] > 0
       /\ IF FromAgent(task[s].msg)
          THEN task[s].pc \in {"insert", "ack", "push"}
               /\ task[s].conv \in mayWrite[task[s].msg]
          ELSE Author[task[s].msg] \in Visitors

\* The insertion a task has made is not yet fanned out.
TaskIsFresh(s) ==
    /\ task[s].pc \notin {"ack", "push"} => task[s].nth = 0
    /\ task[s].pc = "push" => task[s].nth # 0
    /\ task[s].pc = "ack" => stored[task[s].msg] > 0
    /\ task[s].nth # 0 => /\ task[s].nth \in 1..stored[task[s].msg]
                          /\ task[s].nth \notin pushed[task[s].msg]

TasksAreFounded == \A s \in Slots : TaskIsFounded(s)

TasksAreFresh == \A s \in Slots : TaskIsFresh(s)

TasksAreApart ==
    \A s, t \in Slots : s # t /\ task[s].nth # 0 /\ task[t].nth # 0 =>
        task[s].msg # task[t].msg \/ task[s].nth # task[t].nth

RowsAreFounded ==
    \A m \in Msgs : row[m] # 0 =>
        /\ received[m] > 0 /\ stored[m] > 0
        /\ FromAgent(m) => row[m] \in mayWrite[m]

PushedIsStored == \A m \in Msgs : pushed[m] \subseteq 1..stored[m]

MsgInv == /\ HubIsFounded /\ TasksAreFounded /\ TasksAreFresh /\ TasksAreApart
          /\ RowsAreFounded /\ PushedIsStored /\ AckedIsStored

PipelineInv == ConvInv /\ MsgTypeOK /\ MsgInv

-----------------------------------------------------------------------------
USE ConversationsAssumption, PipelineAssumption
    DEF rowVars, agentVars, seatVars, deskVars, seenVars, convVars,
        tableVars, clientVars, answerVars, visitorVars, msgVars, pipelineVars

(* The steps that change nothing of the conversations but a binding.       *)
LEMMA BindingsKeepConv ==
  ASSUME ConvInv,
         UNCHANGED <<rowVars, disabled, online, present, deskVars, visit, used, seenVars>>,
         bound' \in [Agents -> Convs \cup {0}], seat' \in [Visitors -> Convs \cup {0}]
  PROVE  ConvInv'
BY DEF ConvInv, ConvTypeOK, ClaimsAreFounded, ClaimIsFounded, VisitsAreFounded

(* The steps that change rows and bindings and leave the requests alone.   *)
LEMMA RowsKeepConv ==
  ASSUME ConvInv, Observe,
         UNCHANGED <<purging, disabled, online, present, deskVars, visit, used>>,
         convs' \in [Convs -> Conversation],
         bound' \in [Agents -> Convs \cup {0}], seat' \in [Visitors -> Convs \cup {0}]
  PROVE  ConvInv'
<1>1. ConvTypeOK'
  BY Observed DEF ConvInv, ConvTypeOK
<1>2. \A a \in Agents : claim'[a].pc # "idle" =>
          away[a] \subseteq away'[a] /\ entitled[a] \subseteq entitled'[a]
  BY Observed DEF ConvInv, ConvTypeOK
<1>3. ClaimsAreFounded'
  BY <1>2 DEF ConvInv, ClaimsAreFounded, ClaimIsFounded
<1>4. VisitsAreFounded'
  BY DEF ConvInv, VisitsAreFounded
<1> QED
  BY <1>1, <1>3, <1>4 DEF ConvInv

(* Storing a message keeps rows rows.                                      *)
LEMMA StoresKeepsRows ==
  ASSUME ConvTypeOK, NEW m \in Msgs, NEW i \in Convs \cup {0}, Stores(m, i)
  PROVE  convs' \in [Convs -> Conversation]
<1>1. CASE convs' = convs
  BY <1>1 DEF ConvTypeOK
<1>2. CASE convs' = [convs EXCEPT ![i].unread = @ + 1]
  <2>1. CASE i \in Convs
    <3>1. convs[i].unread + 1 \in Nat
      BY <2>1 DEF ConvTypeOK, Conversation
    <3> QED
      BY <1>2, <2>1, <3>1, RowsStayRows
  <2>2. CASE i \notin Convs
    BY <1>2, <2>2 DEF ConvTypeOK
  <2> QED
    BY <2>1, <2>2
<1> QED
  BY <1>1, <1>2 DEF Stores

(* Every step of the pipeline keeps the invariant of the conversations.    *)
LEMMA ConvKept ==
  ASSUME ConvInv, MsgTypeOK, HubIsFounded, TasksAreFounded, PipelineNext
  PROVE  ConvInv'
<1>1. ASSUME ConvStep PROVE ConvInv'
  BY <1>1, TypeStep, ClaimsStep, VisitsStep DEF ConvInv
<1>2. ASSUME UNCHANGED convVars PROVE ConvInv'
  BY <1>2 DEF ConvInv, ConvTypeOK, ClaimsAreFounded, ClaimIsFounded, VisitsAreFounded
<1>3. bound \in [Agents -> Convs \cup {0}] /\ seat \in [Visitors -> Convs \cup {0}]
  BY DEF ConvInv, ConvTypeOK
<1>4. CASE HubBinds
  <2>1. Head(inbox) \in Msgs
    BY <1>4 DEF HubBinds, MsgTypeOK
  <2>2. declared[Head(inbox)] \in Convs \cup {0}
    BY <2>1 DEF MsgTypeOK
  <2>3. bound' \in [Agents -> Convs \cup {0}]
    BY <1>3, <1>4, <2>2 DEF HubBinds
  <2> QED
    BY <1>3, <1>4, <2>3, BindingsKeepConv DEF HubBinds
<1>5. CASE HubFollows
  <2>1. bound' \in [Agents -> Convs \cup {0}]
    BY <1>3, <1>5 DEF HubFollows, OpenOf
  <2> QED
    BY <1>3, <1>5, <2>1, BindingsKeepConv DEF HubFollows
<1>6. CASE HubAssigns
  <2> DEFINE n == handling.conv
             a == Author[handling.msg]
  <2>1. n \in Convs /\ a \in Agents
    BY <1>6 DEF HubAssigns, HubIsFounded, FromAgent
  <2>2. bound' \in [Agents -> Convs \cup {0}]
    BY <1>3, <1>6, <2>1 DEF HubAssigns
  <2>3. convs[n].owner \in Agents \cup {NoOne}
    BY <2>1 DEF ConvInv, ConvTypeOK, Conversation
  <2>4. \/ \E o \in Agents \cup {NoOne} : convs' = [convs EXCEPT ![n].owner = o]
        \/ convs' = convs
    BY <1>6, <2>1, <2>3 DEF HubAssigns
  <2>5. convs' \in [Convs -> Conversation]
    <3>1. CASE convs' = convs
      BY <3>1 DEF ConvInv, ConvTypeOK
    <3>2. ASSUME NEW o \in Agents \cup {NoOne}, convs' = [convs EXCEPT ![n].owner = o]
          PROVE  convs' \in [Convs -> Conversation]
      BY <2>1, <3>2, RowsStayRows DEF ConvInv
    <3> QED
      BY <2>4, <3>1, <3>2
  <2> QED
    BY <1>3, <1>6, <2>2, <2>5, RowsKeepConv DEF HubAssigns
<1>7. ASSUME NEW s \in Slots, NEW i \in Convs, MovesTo(s, i)
      PROVE  seat' \in [Visitors -> Convs \cup {0}]
  BY <1>3, <1>7 DEF MovesTo
<1>8. ASSUME NEW s \in Slots, TaskFinds(s) PROVE ConvInv'
  <2>1. seat' \in [Visitors -> Convs \cup {0}]
    BY <1>3, <1>7, <1>8 DEF TaskFinds
  <2> QED
    BY <1>3, <1>8, <2>1, BindingsKeepConv DEF TaskFinds
<1>9. ASSUME NEW s \in Slots, TaskOpens(s) PROVE ConvInv'
  <2>1. Author[task[s].msg] \in Visitors
    BY <1>9 DEF TaskOpens, TasksAreFounded, TaskIsFounded
  <2>2. seat' \in [Visitors -> Convs \cup {0}]
    BY <1>3, <1>7, <1>9 DEF TaskOpens
  <2>3. convs' \in [Convs -> Conversation]
    BY <1>9, <2>1, RowsStayRows DEF TaskOpens, ConvInv, ConvTypeOK
  <2> QED
    BY <1>3, <1>9, <2>2, <2>3, RowsKeepConv DEF TaskOpens
<1>10. ASSUME NEW s \in Slots, TaskInserts(s) \/ TaskFailsToInsert(s) PROVE ConvInv'
  <2>1. task[s].msg \in Msgs /\ task[s].conv \in Convs \cup {0}
    BY <1>10 DEF TaskInserts, TaskFailsToInsert, TasksAreFounded, TaskIsFounded, MsgTypeOK, Tasks
  <2>2. Stores(task[s].msg, task[s].conv) \/ convs' = convs
    BY <1>10 DEF TaskInserts, TaskFailsToInsert
  <2>3. convs' \in [Convs -> Conversation]
    BY <2>1, <2>2, StoresKeepsRows DEF ConvInv, ConvTypeOK
  <2> QED
    BY <1>3, <1>10, <2>3, RowsKeepConv DEF TaskInserts, TaskFailsToInsert
<1>11. CASE Crash
  <2>1. claim' = [a \in Agents |-> IdleClaim] /\ visit' = [r \in Requests |-> IdleVisit]
    BY <1>11 DEF Crash
  <2>2. IdleClaim \in Claims /\ IdleVisit \in Visits
    BY RequestRecords DEF ConvInv
  <2>3. away' \in [Agents -> SUBSET Agents] /\ entitled' \in [Agents -> SUBSET Convs]
    BY <1>11, Observed DEF Crash, ConvInv, ConvTypeOK
  <2>4. ConvTypeOK'
    BY <1>11, <2>1, <2>2, <2>3 DEF Crash, ConvInv, ConvTypeOK
  <2> QED
    BY <2>1, <2>4 DEF ConvInv, ClaimsAreFounded, ClaimIsFounded, VisitsAreFounded, IdleClaim,
       IdleVisit
<1>12. CASE QuietNext \/ PurgeTakesMessages
  BY <1>1, <1>12 DEF PurgeTakesMessages, ConvStep, ConvNext, SharedNext
<1>13. CASE ClientNext
  <2>1. ASSUME NEW a \in Agents, AgentArrives(a) PROVE ConvInv'
    BY <1>1, <2>1 DEF AgentArrives, ConvStep, ConvNext, SharedNext
  <2>2. ASSUME NEW r \in Requests, VisitorArrives(r) PROVE ConvInv'
    BY <1>1, <2>2 DEF VisitorArrives, ConvStep, ConvNext, SharedNext
  <2>3. ASSUME NEW m \in Msgs,
               \/ VisitorSends(m) \/ \E i \in Convs : AgentSends(m, i)
               \/ \E v \in Visitors : VisitorConfirms(m, v)
        PROVE  UNCHANGED convVars
    BY <2>3 DEF VisitorSends, AgentSends, VisitorConfirms
  <2> QED
    BY <1>2, <1>13, <2>1, <2>2, <2>3 DEF ClientNext
<1>14. CASE ReceiptNext
  BY <1>2, <1>14 DEF ReceiptNext, DeliveryApplies, ReplayRuns, BlocksVisitor
<1>15. CASE HubNext
  BY <1>2, <1>4, <1>5, <1>6, <1>15 DEF HubNext, HubTakesVisitor, HubReads, HubResolves
<1>16. CASE TaskNext
  BY <1>2, <1>8, <1>9, <1>10, <1>16 DEF TaskNext, TaskChecks, TaskChecksBlock,
     TaskFindsDuplicate, TaskFindsConflict, TaskAcks, TaskPushes
<1> QED
  BY <1>11, <1>12, <1>13, <1>14, <1>15, <1>16 DEF PipelineNext

-----------------------------------------------------------------------------
(* The records of the frames and tasks.                                    *)
LEMMA TaskRecords ==
  ASSUME MsgTypeOK
  PROVE  /\ NoFrame \in Handlings /\ NoTask \in Tasks
         /\ NoTask.pc = "idle" /\ NoTask.nth = 0
         /\ \A m \in Msgs, i \in Convs \cup {0} :
               /\ NewTask(m, i) \in Tasks
               /\ \A p \in {"resolve", "again", "owns", "follow", "assign"} :
                     [pc |-> p, msg |-> m, conv |-> i] \in Handlings
         /\ \A s \in Slots :
               /\ task[s] \in Tasks
               /\ \A p \in {"find", "open", "blocked", "insert", "ack", "push"},
                     i \in Convs \cup {0}, b \in BOOLEAN, n \in Nat :
                     /\ [task[s] EXCEPT !.pc = p] \in Tasks
                     /\ [task[s] EXCEPT !.pc = p, !.conv = i] \in Tasks
                     /\ [task[s] EXCEPT !.pc = p, !.mute = b] \in Tasks
                     /\ [task[s] EXCEPT !.pc = p, !.nth = n] \in Tasks
                     /\ [task[s] EXCEPT !.live = b] \in Tasks
<1>1. /\ NoFrame \in Handlings /\ NoTask \in Tasks
      /\ NoTask.pc = "idle" /\ NoTask.nth = 0
  BY DEF NoFrame, NoTask, Handlings, Tasks
<1>2. ASSUME NEW m \in Msgs, NEW i \in Convs \cup {0}
      PROVE  /\ NewTask(m, i) \in Tasks
             /\ \A p \in {"resolve", "again", "owns", "follow", "assign"} :
                   [pc |-> p, msg |-> m, conv |-> i] \in Handlings
  BY <1>2 DEF NewTask, Tasks, Handlings
<1>3. ASSUME NEW s \in Slots PROVE task[s] \in Tasks
  BY DEF MsgTypeOK
<1>4. ASSUME NEW s \in Slots,
             NEW p \in {"find", "open", "blocked", "insert", "ack", "push"},
             NEW i \in Convs \cup {0}, NEW b \in BOOLEAN, NEW n \in Nat
      PROVE  /\ [task[s] EXCEPT !.pc = p] \in Tasks
             /\ [task[s] EXCEPT !.pc = p, !.conv = i] \in Tasks
             /\ [task[s] EXCEPT !.pc = p, !.mute = b] \in Tasks
             /\ [task[s] EXCEPT !.pc = p, !.nth = n] \in Tasks
             /\ [task[s] EXCEPT !.live = b] \in Tasks
  BY <1>3 DEF Tasks
<1> QED
  BY <1>1, <1>2, <1>3, <1>4

(* The counts of frames in progress are numbers.                           *)
LEMMA InFlightIsNat ==
  ASSUME MsgTypeOK, NEW m \in Msgs
  PROVE  InFlight(m) \in Nat
<1>1. IsFiniteSet(DOMAIN inbox)
  <2>1. DOMAIN inbox = 1..Len(inbox) /\ Len(inbox) \in Nat
    BY DEF MsgTypeOK
  <2> QED
    BY <2>1, FS_Interval
<1>2. /\ Cardinality({k \in DOMAIN inbox : inbox[k] = m}) \in Nat
      /\ Cardinality({s \in Slots : task[s].pc \notin {"idle", "push"}
                                    /\ task[s].msg = m}) \in Nat
  BY <1>1, FS_Subset, FS_CardinalityType
<1> QED
  BY <1>2 DEF InFlight

(* What the history remembers of the messages.                             *)
LEMMA Remembers ==
  ASSUME ConvTypeOK, MsgTypeOK, Remember
  PROVE  /\ mayWrite' \in [Msgs -> SUBSET Convs]
         /\ silent' \subseteq Msgs
         /\ \A m \in Msgs : received'[m] # 0 /\ FromAgent(m) =>
               /\ mayWrite[m] \subseteq mayWrite'[m]
               /\ {i \in Convs : Owns(Author[m], i)} \subseteq mayWrite'[m]
BY DEF Remember, MsgTypeOK

-----------------------------------------------------------------------------
(* A budget, an answer and the start of a task keep the types.             *)
LEMMA Counted ==
  ASSUME MsgTypeOK
  PROVE  /\ \A b \in {"faults", "crashes", "blocks"}, n \in Nat :
               Spend(b, n) => spent' \in [{"faults", "crashes", "blocks"} -> Nat]
         /\ Fault => spent' \in [{"faults", "crashes", "blocks"} -> Nat]
         /\ \A m \in Msgs : Answer(m) => answered' \in [Msgs -> Nat]
         /\ \A m \in Msgs, i \in Convs \cup {0} :
               Dispatch(m, i) => /\ task' \in [Slots -> Tasks]
                                 /\ answered' \in [Msgs -> Nat]
<1>1. ASSUME NEW b \in {"faults", "crashes", "blocks"}, NEW n, Spend(b, n)
      PROVE  spent' \in [{"faults", "crashes", "blocks"} -> Nat]
  <2>1. spent[b] + 1 \in Nat
    BY DEF MsgTypeOK
  <2> QED
    BY <1>1, <2>1 DEF Spend, MsgTypeOK
<1>2. ASSUME NEW m \in Msgs, Answer(m) PROVE answered' \in [Msgs -> Nat]
  <2>1. answered[m] + 1 \in Nat
    BY DEF MsgTypeOK
  <2> QED
    BY <1>2, <2>1 DEF Answer, MsgTypeOK
<1>3. ASSUME NEW m \in Msgs, NEW i \in Convs \cup {0}, Dispatch(m, i)
      PROVE  task' \in [Slots -> Tasks] /\ answered' \in [Msgs -> Nat]
  <2>1. NewTask(m, i) \in Tasks
    BY TaskRecords
  <2>2. ASSUME NEW s \in Slots, task' = [task EXCEPT ![s] = NewTask(m, i)]
        PROVE  task' \in [Slots -> Tasks]
    BY <2>1, <2>2 DEF MsgTypeOK
  <2>3. \/ Answer(m) /\ UNCHANGED task
        \/ /\ \E s \in Slots : task' = [task EXCEPT ![s] = NewTask(m, i)]
           /\ UNCHANGED answered
    BY <1>3 DEF Dispatch
  <2> QED
    BY <1>2, <2>2, <2>3 DEF MsgTypeOK
<1> QED
  BY <1>1, <1>2, <1>3 DEF Fault

(* Every step keeps the types of the messages, frames and tasks.           *)
LEMMA MsgTypeStep ==
  ASSUME ConvInv, MsgTypeOK, HubIsFounded, TasksAreFounded, PipelineNext
  PROVE  MsgTypeOK'
<1> USE DEF ConvInv
<1>1. ASSUME Remember PROVE mayWrite' \in [Msgs -> SUBSET Convs] /\ silent' \subseteq Msgs
  BY <1>1, Remembers
<1>2. ASSUME NEW s \in Slots, task[s].pc # "idle"
      PROVE  task[s].msg \in Msgs /\ task[s].conv \in Convs \cup {0}
  BY <1>2 DEF TasksAreFounded, TaskIsFounded, MsgTypeOK, Tasks
<1>3. ASSUME UNCHANGED msgVars, Remember PROVE MsgTypeOK'
  BY <1>1, <1>3 DEF MsgTypeOK
<1>4. CASE ClientNext
  <2>1. ASSUME NEW m \in Msgs, VisitorSends(m) PROVE MsgTypeOK'
    <3>1. Append(inbox, m) \in Seq(Msgs)
      BY DEF MsgTypeOK
    <3> QED
      BY <1>1, <2>1, <3>1 DEF VisitorSends, MsgTypeOK
  <2>2. ASSUME NEW m \in Msgs, NEW i \in Convs, AgentSends(m, i) PROVE MsgTypeOK'
    <3>1. Append(inbox, m) \in Seq(Msgs) /\ received[m] + 1 \in Nat
      BY DEF MsgTypeOK
    <3> QED
      BY <1>1, <2>2, <3>1 DEF AgentSends, MsgTypeOK
  <2>3. ASSUME NEW m \in Msgs, NEW v \in Visitors, VisitorConfirms(m, v) PROVE MsgTypeOK'
    <3>1. seat[v] \in Convs \cup {0}
      BY DEF ConvTypeOK
    <3>2. [msg |-> m, conv |-> seat[v]] \in [msg : Msgs, conv : Convs \cup {0}]
      BY <3>1
    <3>3. receipts' \subseteq [msg : Msgs, conv : Convs \cup {0}]
      BY <2>3, <3>2 DEF VisitorConfirms, MsgTypeOK
    <3> QED
      BY <1>1, <2>3, <3>3 DEF VisitorConfirms, MsgTypeOK
  <2>4. ASSUME NEW a \in Agents, AgentArrives(a) PROVE MsgTypeOK'
    BY <1>3, <2>4 DEF AgentArrives
  <2>5. ASSUME NEW r \in Requests, VisitorArrives(r) PROVE MsgTypeOK'
    <3> DEFINE v == visit[r].visitor
    <3>1. visit[r].pc # "idle" /\ visit[r].conv \in Convs \cup {0} /\ v \in Visitors
      BY <2>5 DEF VisitorArrives, ConnectJoins, VisitsAreFounded, ConvTypeOK, Visits
    <3>2. replay' \in [Visitors -> Convs \cup {0}]
      BY <2>5, <3>1 DEF VisitorArrives, MsgTypeOK
    <3>3. \A s \in Slots : task[s] \in Tasks /\ [task[s] EXCEPT !.live = FALSE] \in Tasks
      BY TaskRecords
    <3>4. task' \in [Slots -> Tasks]
      BY <2>5, <3>3 DEF VisitorArrives
    <3> QED
      BY <1>1, <2>5, <3>2, <3>4 DEF VisitorArrives, MsgTypeOK
  <2> QED
    BY <1>4, <2>1, <2>2, <2>3, <2>4, <2>5 DEF ClientNext
<1>5. CASE HubNext
  <2>1. CASE HubTakesVisitor
    <3> DEFINE m == Head(inbox)
    <3>1. m \in Msgs /\ Tail(inbox) \in Seq(Msgs)
      BY <2>1 DEF HubTakesVisitor, MsgTypeOK
    <3>2. Author[m] \in Visitors
      BY <2>1, <3>1 DEF HubTakesVisitor, FromAgent
    <3>3. seat[Author[m]] \in Convs \cup {0}
      BY <3>2 DEF ConvTypeOK
    <3>4. task' \in [Slots -> Tasks] /\ answered' \in [Msgs -> Nat]
      BY <2>1, <3>1, <3>3, Counted DEF HubTakesVisitor, MsgTypeOK
    <3> QED
      BY <1>1, <2>1, <3>1, <3>4 DEF HubTakesVisitor, MsgTypeOK
  <2>2. CASE HubBinds
    <3> DEFINE m == Head(inbox)
    <3>1. m \in Msgs /\ Tail(inbox) \in Seq(Msgs)
      BY <2>2 DEF HubBinds, MsgTypeOK
    <3>2. [pc |-> "resolve", msg |-> m, conv |-> 0] \in Handlings
      BY <3>1, TaskRecords
    <3>3. handling' \in Handlings
      BY <2>2, <3>2 DEF HubBinds, MsgTypeOK
    <3>4. answered' \in [Msgs -> Nat]
      BY <2>2, <3>1, Counted DEF HubBinds, MsgTypeOK
    <3>5. spent' \in [{"faults", "crashes", "blocks"} -> Nat]
      BY <2>2, Counted DEF HubBinds, MsgTypeOK
    <3> QED
      BY <1>1, <2>2, <3>1, <3>3, <3>4, <3>5 DEF HubBinds, MsgTypeOK
  <2>3. CASE HubReads
    <3> DEFINE m == handling.msg
               i == bound[Author[m]]
    <3>1. m \in Msgs /\ i \in Convs \cup {0}
      BY <2>3 DEF HubReads, HubIsFounded, FromAgent, ConvTypeOK
    <3>2. /\ [pc |-> "owns", msg |-> m, conv |-> i] \in Handlings
          /\ [pc |-> "again", msg |-> m, conv |-> 0] \in Handlings
      BY <3>1, TaskRecords
    <3>3. handling' \in Handlings
      BY <2>3, <3>2, TaskRecords DEF HubReads
    <3>4. answered' \in [Msgs -> Nat]
      BY <2>3, <3>1, Counted DEF HubReads, MsgTypeOK
    <3> QED
      BY <1>1, <2>3, <3>3, <3>4 DEF HubReads, MsgTypeOK
  <2>4. CASE HubResolves
    <3>1. handling.msg \in Msgs
      BY <2>4 DEF HubResolves, HubIsFounded
    <3>2. [handling EXCEPT !.pc = "follow"] \in Handlings
      BY DEF MsgTypeOK, Handlings
    <3>3. handling' \in Handlings
      BY <2>4, <3>2, TaskRecords DEF HubResolves
    <3>4. answered' \in [Msgs -> Nat]
      BY <2>4, <3>1, Counted DEF HubResolves, MsgTypeOK
    <3>5. spent' \in [{"faults", "crashes", "blocks"} -> Nat]
      BY <2>4, Counted DEF HubResolves, MsgTypeOK
    <3> QED
      BY <1>1, <2>4, <3>3, <3>4, <3>5 DEF HubResolves, MsgTypeOK
  <2>5. CASE HubFollows
    <3> DEFINE m == handling.msg
               i == handling.conv
    <3>1. m \in Msgs /\ i \in Convs
      BY <2>5 DEF HubFollows, HubIsFounded
    <3>2. \A n \in Convs : [pc |-> "assign", msg |-> m, conv |-> n] \in Handlings
      BY <3>1, TaskRecords
    <3>3. \A v : OpenOf(v) \subseteq Convs
      BY DEF OpenOf
    <3>4. handling' \in Handlings
      BY <2>5, <3>2, <3>3, TaskRecords DEF HubFollows
    <3>5. \A n \in Convs : Dispatch(m, n) => task' \in [Slots -> Tasks]
                                             /\ answered' \in [Msgs -> Nat]
      BY <3>1, Counted
    <3>6. Answer(m) => answered' \in [Msgs -> Nat]
      BY <3>1, Counted
    <3>7. task' \in [Slots -> Tasks] /\ answered' \in [Msgs -> Nat]
      BY <2>5, <3>1, <3>3, <3>5, <3>6 DEF HubFollows, MsgTypeOK
    <3>8. spent' \in [{"faults", "crashes", "blocks"} -> Nat]
      BY <2>5, Counted DEF HubFollows, MsgTypeOK
    <3> QED
      BY <1>1, <2>5, <3>4, <3>7, <3>8 DEF HubFollows, MsgTypeOK
  <2>6. CASE HubAssigns
    <3>1. handling.msg \in Msgs /\ handling.conv \in Convs
      BY <2>6 DEF HubAssigns, HubIsFounded
    <3>2. task' \in [Slots -> Tasks] /\ answered' \in [Msgs -> Nat]
      BY <2>6, <3>1, Counted DEF HubAssigns, MsgTypeOK
    <3>3. spent' \in [{"faults", "crashes", "blocks"} -> Nat]
      BY <2>6, Counted DEF HubAssigns, MsgTypeOK
    <3> QED
      BY <1>1, <2>6, <3>2, <3>3, TaskRecords DEF HubAssigns, MsgTypeOK
  <2> QED
    BY <1>5, <2>1, <2>2, <2>3, <2>4, <2>5, <2>6 DEF HubNext
<1>6. ASSUME NEW s \in Slots, NEW t \in Tasks, task' = [task EXCEPT ![s] = t]
      PROVE  task' \in [Slots -> Tasks]
  BY <1>6 DEF MsgTypeOK
<1>7. ASSUME NEW s \in Slots, NEW i \in Convs \cup {0}, NEW n \in Nat, NEW b \in BOOLEAN,
             NEW p \in {"find", "open", "blocked", "insert", "ack", "push"},
             \/ task' = [task EXCEPT ![s].pc = p]
             \/ task' = [task EXCEPT ![s] = [@ EXCEPT !.pc = p]]
             \/ task' = [task EXCEPT ![s] = [@ EXCEPT !.pc = p, !.conv = i]]
             \/ task' = [task EXCEPT ![s] = [@ EXCEPT !.pc = p, !.mute = b]]
             \/ task' = [task EXCEPT ![s] = [@ EXCEPT !.pc = p, !.nth = n]]
      PROVE  task' \in [Slots -> Tasks]
  <2>1. PICK t \in Tasks : task' = [task EXCEPT ![s] = t]
    <3>1. /\ [task[s] EXCEPT !.pc = p] \in Tasks
          /\ [task[s] EXCEPT !.pc = p, !.conv = i] \in Tasks
          /\ [task[s] EXCEPT !.pc = p, !.mute = b] \in Tasks
          /\ [task[s] EXCEPT !.pc = p, !.nth = n] \in Tasks
      <4>1. task[s] \in Tasks
        BY DEF MsgTypeOK
      <4> QED
        BY <4>1 DEF Tasks
    <3> QED
      BY <1>7, <3>1
  <2> QED
    BY <1>6, <2>1
<1>8. ASSUME NEW s \in Slots, task[s].pc # "idle", Fails(s)
      PROVE  /\ task' \in [Slots -> Tasks] /\ answered' \in [Msgs -> Nat]
             /\ spent' \in [{"faults", "crashes", "blocks"} -> Nat]
  BY <1>2, <1>6, <1>8, Counted, TaskRecords DEF Fails
<1>9. ASSUME NEW m \in Msgs, NEW i \in Convs \cup {0}, Stores(m, i)
      PROVE  row' \in [Msgs -> Convs \cup {0}] /\ stored' \in [Msgs -> Nat]
  <2>1. stored[m] + 1 \in Nat
    BY DEF MsgTypeOK
  <2> QED
    BY <1>9, <2>1 DEF Stores, MsgTypeOK
<1>10. ASSUME NEW s \in Slots, TaskChecks(s) PROVE MsgTypeOK'
  <2>1. task' \in [Slots -> Tasks]
    BY <1>7, <1>10 DEF TaskChecks
  <2>2. spent' \in [{"faults", "crashes", "blocks"} -> Nat]
    BY <1>10, Counted DEF TaskChecks, MsgTypeOK
  <2> QED
    BY <1>1, <1>10, <2>1, <2>2 DEF TaskChecks, MsgTypeOK
<1>11. ASSUME NEW s \in Slots, TaskFinds(s) PROVE MsgTypeOK'
  <2>1. \/ Fails(s)
        \/ task' \in [Slots -> Tasks] /\ UNCHANGED <<answered, spent>>
    BY <1>7, <1>11 DEF TaskFinds, MovesTo
  <2> QED
    BY <1>1, <1>8, <1>11, <2>1 DEF TaskFinds, MsgTypeOK
<1>12. ASSUME NEW s \in Slots, TaskOpens(s) PROVE MsgTypeOK'
  <2>1. \/ Fails(s)
        \/ task' \in [Slots -> Tasks] /\ UNCHANGED <<answered, spent>>
    BY <1>7, <1>12 DEF TaskOpens, MovesTo
  <2> QED
    BY <1>1, <1>8, <1>12, <2>1 DEF TaskOpens, MsgTypeOK
<1>13. ASSUME NEW s \in Slots, TaskChecksBlock(s) PROVE MsgTypeOK'
  <2>1. (Author[task[s].msg] \in blocked) \in BOOLEAN
    OBVIOUS
  <2>2. task' \in [Slots -> Tasks]
    BY <1>7, <1>13, <2>1 DEF TaskChecksBlock
  <2>3. spent' \in [{"faults", "crashes", "blocks"} -> Nat]
    BY <1>13, Counted DEF TaskChecksBlock, MsgTypeOK
  <2> QED
    BY <1>1, <1>13, <2>2, <2>3 DEF TaskChecksBlock, MsgTypeOK
<1>14. ASSUME NEW s \in Slots, TaskInserts(s) PROVE MsgTypeOK'
  <2>1. task[s].msg \in Msgs /\ task[s].conv \in Convs \cup {0}
    BY <1>2, <1>14 DEF TaskInserts
  <2>2. stored[task[s].msg] + 1 \in Nat
    BY <2>1 DEF MsgTypeOK
  <2>3. task' \in [Slots -> Tasks]
    BY <1>7, <1>14, <2>2 DEF TaskInserts
  <2>4. row' \in [Msgs -> Convs \cup {0}] /\ stored' \in [Msgs -> Nat]
    BY <1>9, <1>14, <2>1 DEF TaskInserts
  <2> QED
    BY <1>1, <1>14, <2>3, <2>4 DEF TaskInserts, MsgTypeOK
<1>15. ASSUME NEW s \in Slots, TaskFindsDuplicate(s) PROVE MsgTypeOK'
  <2>1. task' \in [Slots -> Tasks]
    BY <1>7, <1>15 DEF TaskFindsDuplicate
  <2> QED
    BY <1>1, <1>15, <2>1 DEF TaskFindsDuplicate, MsgTypeOK
<1>16. ASSUME NEW s \in Slots, TaskFindsConflict(s) PROVE MsgTypeOK'
  <2>1. task' \in [Slots -> Tasks]
    BY <1>6, <1>16, TaskRecords DEF TaskFindsConflict
  <2>2. answered' \in [Msgs -> Nat] /\ refused' \subseteq Msgs
    <3>1. /\ task[s].msg \in Msgs /\ Answer(task[s].msg)
          /\ refused' = refused \cup {task[s].msg}
      BY <1>2, <1>16 DEF TaskFindsConflict
    <3> QED
      BY <3>1, Counted DEF MsgTypeOK
  <2> QED
    BY <1>1, <1>16, <2>1, <2>2 DEF TaskFindsConflict, MsgTypeOK
<1>17. ASSUME NEW s \in Slots, TaskFailsToInsert(s) PROVE MsgTypeOK'
  <2>1. row' \in [Msgs -> Convs \cup {0}] /\ stored' \in [Msgs -> Nat]
    BY <1>2, <1>9, <1>17 DEF TaskFailsToInsert, MsgTypeOK
  <2> QED
    BY <1>1, <1>8, <1>17, <2>1 DEF TaskFailsToInsert, MsgTypeOK
<1>18. ASSUME NEW s \in Slots, TaskAcks(s) PROVE MsgTypeOK'
  <2>1. task[s].msg \in Msgs
    BY <1>2, <1>18 DEF TaskAcks
  <2>2. acked' \subseteq Msgs /\ answered' \in [Msgs -> Nat]
    BY <1>18, <2>1, Counted DEF TaskAcks, MsgTypeOK
  <2>3. \/ task' = [task EXCEPT ![s] = [@ EXCEPT !.pc = "push"]]
        \/ task' = [task EXCEPT ![s] = NoTask]
    BY <1>18 DEF TaskAcks, MsgTypeOK
  <2>4. task' \in [Slots -> Tasks]
    BY <1>6, <1>7, <2>3, TaskRecords
  <2> QED
    BY <1>1, <1>18, <2>2, <2>4 DEF TaskAcks, MsgTypeOK
<1>19. ASSUME NEW s \in Slots, TaskPushes(s) PROVE MsgTypeOK'
  <2>1. task[s].msg \in Msgs /\ task[s].nth \in Nat
    BY <1>2, <1>19 DEF TaskPushes, MsgTypeOK, Tasks
  <2>2. pushed' \in [Msgs -> SUBSET Nat]
    BY <1>19, <2>1 DEF TaskPushes, MsgTypeOK
  <2>3. heard' \subseteq Msgs \X Visitors
    <3>1. present \subseteq Visitors
      BY DEF ConvTypeOK
    <3> QED
      BY <1>19, <2>1, <3>1 DEF TaskPushes, MsgTypeOK
  <2>4. task' \in [Slots -> Tasks]
    BY <1>6, <1>19, TaskRecords DEF TaskPushes
  <2> QED
    BY <1>1, <1>19, <2>2, <2>3, <2>4 DEF TaskPushes, MsgTypeOK
<1>20. CASE TaskNext
  BY <1>10, <1>11, <1>12, <1>13, <1>14, <1>15, <1>16, <1>17, <1>18, <1>19, <1>20
     DEF TaskNext
<1>21. CASE ReceiptNext
  <2>1. ASSUME NEW x \in receipts, DeliveryApplies(x) PROVE MsgTypeOK'
    BY <1>1, <2>1 DEF DeliveryApplies, MsgTypeOK
  <2>2. ASSUME NEW v \in Visitors, ReplayRuns(v) PROVE MsgTypeOK'
    <3>1. Undelivered(replay[v]) \X {v} \subseteq Msgs \X Visitors
      BY DEF Undelivered
    <3>2. heard' \subseteq Msgs \X Visitors
      BY <2>2, <3>1 DEF ReplayRuns, MsgTypeOK
    <3> QED
      BY <1>1, <2>2, <3>2 DEF ReplayRuns, MsgTypeOK
  <2>3. ASSUME NEW v \in Visitors, BlocksVisitor(v) PROVE MsgTypeOK'
    <3>1. spent' \in [{"faults", "crashes", "blocks"} -> Nat]
      BY <2>3, Counted DEF BlocksVisitor
    <3> QED
      BY <1>1, <2>3, <3>1 DEF BlocksVisitor, MsgTypeOK
  <2> QED
    BY <1>21, <2>1, <2>2, <2>3 DEF ReceiptNext
<1>22. CASE PurgeTakesMessages
  <2>1. row' \in [Msgs -> Convs \cup {0}]
    BY <1>22 DEF PurgeTakesMessages, MsgTypeOK
  <2> QED
    BY <1>1, <1>22, <2>1 DEF PurgeTakesMessages, MsgTypeOK
<1>23. CASE Crash
  <2>1. ASSUME NEW m \in Msgs PROVE lost[m] + InFlight(m) \in Nat
    <3>1. lost[m] \in Nat /\ InFlight(m) \in Nat
      BY InFlightIsNat DEF MsgTypeOK
    <3> QED
      BY <3>1
  <2>2. lost' \in [Msgs -> Nat]
    BY <1>23, <2>1 DEF Crash
  <2>3. spent' \in [{"faults", "crashes", "blocks"} -> Nat]
    BY <1>23, Counted DEF Crash
  <2>4. inbox' \in Seq(Msgs)
    BY <1>23 DEF Crash
  <2> QED
    BY <1>1, <1>23, <2>2, <2>3, <2>4, TaskRecords DEF Crash, MsgTypeOK
<1> QED
  BY <1>3, <1>4, <1>5, <1>20, <1>21, <1>22, <1>23 DEF PipelineNext

-----------------------------------------------------------------------------
(***************************************************************************)
(* What a step may do to the task in a slot: let it go on or end it, or    *)
(* start a new one, for a message whose conversation has been seen open.   *)
(***************************************************************************)
TaskGoesOn(s) ==
    \/ task'[s].pc = "idle" /\ task'[s].nth = 0
    \/ /\ task[s].pc # "idle" /\ task'[s].pc # "idle"
       /\ task'[s].msg = task[s].msg /\ task'[s].nth = task[s].nth
       /\ FromAgent(task[s].msg) => /\ task'[s].conv = task[s].conv
                                    /\ task'[s].pc \in {"insert", "ack", "push"}
       /\ task'[s].pc \notin {"ack", "push"} => task[s].nth = 0
       /\ task'[s].pc = "push" => task[s].nth # 0
       /\ task'[s].pc = "ack" => stored[task[s].msg] > 0

TaskStarts(s) ==
    /\ task'[s].pc \in {"check", "insert"} /\ task'[s].nth = 0
    /\ task'[s].msg \in Msgs /\ received[task'[s].msg] > 0
    /\ IF FromAgent(task'[s].msg)
       THEN task'[s].pc = "insert" /\ task'[s].conv \in mayWrite'[task'[s].msg]
       ELSE Author[task'[s].msg] \in Visitors

\* No step forgets a frame or an insertion.
NothingForgotten ==
    /\ \A m \in Msgs : received[m] > 0 => received'[m] > 0
    /\ \A m \in Msgs : stored[m] <= stored'[m]

PipelineTypes == ConvTypeOK /\ MsgTypeOK /\ MsgTypeOK'

(* An agent's conversations seen open stay so, and those open now are seen. *)
LEMMA MayWriteGrows ==
  ASSUME PipelineTypes, Remember, NothingForgotten,
         NEW m \in Msgs, FromAgent(m), received[m] > 0
  PROVE  /\ mayWrite[m] \subseteq mayWrite'[m]
         /\ \A i \in Convs : Owns(Author[m], i) => i \in mayWrite'[m]
<1>1. received'[m] # 0
  BY DEF NothingForgotten, PipelineTypes, MsgTypeOK
<1> QED
  BY <1>1, Remembers DEF PipelineTypes

(* A step that leaves a table or a queue alone keeps what is known of it.  *)
LEMMA FrameKept ==
  ASSUME PipelineTypes, MsgInv, Remember, NothingForgotten
  PROVE  /\ UNCHANGED <<inbox, handling>> => HubIsFounded'
         /\ UNCHANGED row => RowsAreFounded'
         /\ UNCHANGED pushed => PushedIsStored'
         /\ UNCHANGED acked => AckedIsStored'
<1> USE DEF MsgInv, PipelineTypes
<1>1. ASSUME UNCHANGED <<inbox, handling>> PROVE HubIsFounded'
  <2>1. \A k \in DOMAIN inbox : inbox[k] \in Msgs
    BY DEF MsgTypeOK
  <2>2. \A k \in DOMAIN inbox : received'[inbox[k]] > 0
    BY <2>1 DEF HubIsFounded, NothingForgotten
  <2>3. handling.pc # "idle" => received'[handling.msg] > 0
    BY DEF HubIsFounded, NothingForgotten
  <2>4. handling.pc \in {"follow", "assign"} => handling.conv \in mayWrite'[handling.msg]
    BY MayWriteGrows DEF HubIsFounded
  <2> QED
    BY <1>1, <2>2, <2>3, <2>4 DEF HubIsFounded, FromAgent
<1>2. ASSUME UNCHANGED row, NEW m \in Msgs, row[m] # 0
      PROVE  /\ received'[m] > 0 /\ stored'[m] > 0
             /\ FromAgent(m) => row[m] \in mayWrite'[m]
  <2>1. received[m] > 0 /\ stored[m] > 0 /\ (FromAgent(m) => row[m] \in mayWrite[m])
    BY <1>2 DEF RowsAreFounded
  <2>2. stored[m] \in Nat /\ stored'[m] \in Nat
    BY DEF MsgTypeOK
  <2> QED
    BY <2>1, <2>2, MayWriteGrows DEF NothingForgotten
<1>3. ASSUME NEW m \in Msgs PROVE 1..stored[m] \subseteq 1..stored'[m]
  <2>1. stored[m] \in Nat /\ stored'[m] \in Nat /\ stored[m] <= stored'[m]
    BY DEF MsgTypeOK, NothingForgotten
  <2> QED
    BY <2>1
<1>4. UNCHANGED pushed => PushedIsStored'
  BY <1>3 DEF PushedIsStored
<1>5. ASSUME UNCHANGED acked PROVE AckedIsStored'
  <2>1. ASSUME NEW m \in acked PROVE stored'[m] > 0
    <3>1. m \in Msgs /\ stored[m] > 0
      BY DEF MsgTypeOK, AckedIsStored
    <3>2. stored[m] \in Nat /\ stored'[m] \in Nat /\ stored[m] <= stored'[m]
      BY <3>1 DEF MsgTypeOK, NothingForgotten
    <3> QED
      BY <3>1, <3>2
  <2> QED
    BY <1>5, <2>1 DEF AckedIsStored
<1> QED
  BY <1>1, <1>2, <1>4, <1>5 DEF RowsAreFounded, FromAgent

(* The invariants of the tasks, when every task goes on or starts.         *)
LEMMA TasksGoOn ==
  ASSUME PipelineTypes, MsgInv, Remember, NothingForgotten,
         \A s \in Slots : TaskGoesOn(s) \/ TaskStarts(s),
         \A s \in Slots : task'[s].nth # 0 => task'[s].nth \notin pushed'[task'[s].msg]
  PROVE  TasksAreFounded' /\ TasksAreFresh' /\ TasksAreApart'
<1> USE DEF MsgInv, PipelineTypes
<1>1. ASSUME NEW s \in Slots PROVE TaskIsFounded(s)'
  <2>1. CASE task'[s].pc = "idle"
    BY <2>1 DEF TaskIsFounded
  <2>2. CASE TaskStarts(s)
    BY <2>2 DEF TaskStarts, TaskIsFounded, NothingForgotten, FromAgent
  <2>3. CASE TaskGoesOn(s) /\ task'[s].pc # "idle"
    <3> DEFINE m == task[s].msg
    <3>1. /\ m \in Msgs /\ received[m] > 0 /\ task'[s].msg = m
          /\ ~FromAgent(m) => Author[m] \in Visitors
          /\ FromAgent(m) => /\ task[s].conv \in mayWrite[m]
                             /\ task'[s].conv = task[s].conv
                             /\ task'[s].pc \in {"insert", "ack", "push"}
      BY <2>3 DEF TaskGoesOn, TasksAreFounded, TaskIsFounded
    <3>2. received'[m] > 0
      BY <3>1 DEF NothingForgotten
    <3>3. FromAgent(m) => task[s].conv \in mayWrite'[m]
      BY <3>1, MayWriteGrows
    <3> QED
      BY <3>1, <3>2, <3>3 DEF TaskIsFounded, FromAgent
  <2> QED
    BY <2>1, <2>2, <2>3
<1>2. ASSUME NEW s \in Slots, task'[s].nth # 0
      PROVE  /\ task[s].pc # "idle" /\ task[s].msg \in Msgs
             /\ task'[s].msg = task[s].msg /\ task'[s].nth = task[s].nth
             /\ task'[s].nth \in 1..stored'[task[s].msg]
  <2> DEFINE m == task[s].msg
  <2>1. /\ task[s].pc # "idle" /\ m \in Msgs
        /\ task'[s].msg = m /\ task'[s].nth = task[s].nth
        /\ task[s].nth \in 1..stored[m]
    BY <1>2 DEF TaskGoesOn, TaskStarts, TasksAreFounded, TaskIsFounded, TasksAreFresh,
       TaskIsFresh
  <2>2. stored[m] \in Nat /\ stored'[m] \in Nat /\ stored[m] <= stored'[m]
    BY <2>1 DEF MsgTypeOK, NothingForgotten
  <2> QED
    BY <2>1, <2>2
<1>3. ASSUME NEW s \in Slots, task'[s].pc = "ack" PROVE stored'[task'[s].msg] > 0
  <2> DEFINE m == task[s].msg
  <2>1. m \in Msgs /\ task'[s].msg = m /\ stored[m] > 0
    BY <1>3 DEF TaskGoesOn, TaskStarts, TasksAreFounded, TaskIsFounded
  <2>2. stored[m] \in Nat /\ stored'[m] \in Nat /\ stored[m] <= stored'[m]
    BY <2>1 DEF MsgTypeOK, NothingForgotten
  <2> QED
    BY <2>1, <2>2
<1>4. ASSUME NEW s \in Slots
      PROVE  /\ task'[s].pc \notin {"ack", "push"} => task'[s].nth = 0
             /\ task'[s].pc = "push" => task'[s].nth # 0
  BY DEF TaskGoesOn, TaskStarts
<1>5. TasksAreFresh'
  BY <1>2, <1>3, <1>4 DEF TasksAreFresh, TaskIsFresh
<1>6. TasksAreApart'
  BY <1>2 DEF TasksAreApart
<1> QED
  BY <1>1, <1>5, <1>6 DEF TasksAreFounded

(* A task nothing touches goes on.                                         *)
LEMMA UntouchedGoesOn ==
  ASSUME MsgInv, NEW s \in Slots, task'[s] = task[s]
  PROVE  TaskGoesOn(s)
BY DEF MsgInv, TasksAreFounded, TaskIsFounded, TasksAreFresh, TaskIsFresh, TaskGoesOn

(* A step that touches the task of one slot at most.                       *)
LEMMA OneTaskMoves ==
  ASSUME PipelineTypes, MsgInv, Remember, NothingForgotten, UNCHANGED pushed,
         NEW s \in Slots, NEW t, task' = [task EXCEPT ![s] = t],
         TaskGoesOn(s) \/ TaskStarts(s)
  PROVE  TasksAreFounded' /\ TasksAreFresh' /\ TasksAreApart'
<1>1. \A u \in Slots \ {s} : task'[u] = task[u]
  BY DEF PipelineTypes, MsgTypeOK
<1>2. \A u \in Slots : TaskGoesOn(u) \/ TaskStarts(u)
  BY <1>1, UntouchedGoesOn
<1>3. \A u \in Slots : task'[u].nth # 0 => task'[u].nth \notin pushed'[task'[u].msg]
  BY <1>2 DEF TaskGoesOn, TaskStarts, MsgInv, TasksAreFresh, TaskIsFresh
<1> QED
  BY <1>2, <1>3, TasksGoOn

(* A step that touches no task.                                            *)
LEMMA NoTaskMoves ==
  ASSUME PipelineTypes, MsgInv, Remember, NothingForgotten, UNCHANGED <<pushed, task>>
  PROVE  TasksAreFounded' /\ TasksAreFresh' /\ TasksAreApart'
<1>1. \A u \in Slots : TaskGoesOn(u)
  BY UntouchedGoesOn
<1>2. \A u \in Slots : task'[u].nth # 0 => task'[u].nth \notin pushed'[task'[u].msg]
  BY DEF MsgInv, TasksAreFresh, TaskIsFresh
<1> QED
  BY <1>1, <1>2, TasksGoOn

(* What the Hub hands over becomes a task, or nothing.                     *)
LEMMA DispatchStarts ==
  ASSUME PipelineTypes, MsgInv, Remember, NothingForgotten, UNCHANGED pushed,
         NEW m \in Msgs, received[m] > 0, NEW i \in Convs \cup {0},
         Dispatch(m, i) \/ UNCHANGED task,
         IF FromAgent(m) THEN i \in mayWrite'[m] ELSE Author[m] \in Visitors
  PROVE  TasksAreFounded' /\ TasksAreFresh' /\ TasksAreApart'
<1>1. ASSUME NEW s \in Slots, task' = [task EXCEPT ![s] = NewTask(m, i)]
      PROVE  TaskStarts(s)
  <2>1. task'[s] = NewTask(m, i)
    BY <1>1 DEF PipelineTypes, MsgTypeOK
  <2>2. /\ task'[s].pc = IF FromAgent(m) THEN "insert" ELSE "check"
        /\ task'[s].msg = m /\ task'[s].conv = i /\ task'[s].nth = 0
    BY <2>1 DEF NewTask
  <2> QED
    BY <2>2 DEF TaskStarts
<1>2. \/ UNCHANGED task
      \/ \E s \in Slots : task' = [task EXCEPT ![s] = NewTask(m, i)]
  BY DEF Dispatch
<1> QED
  BY <1>1, <1>2, NoTaskMoves, OneTaskMoves

(* A task that ends, or moves on without another message or insertion.     *)
LEMMA TaskMovesOn ==
  ASSUME PipelineTypes, MsgInv, Remember, NothingForgotten, UNCHANGED pushed,
         NEW s \in Slots, task[s].pc # "idle",
         NEW p \in {"find", "open", "blocked", "insert", "ack", "push"}, NEW i, NEW b,
         \/ task' = [task EXCEPT ![s] = NoTask]
         \/ /\ \/ task' = [task EXCEPT ![s].pc = p]
               \/ task' = [task EXCEPT ![s] = [@ EXCEPT !.pc = p]]
               \/ task' = [task EXCEPT ![s] = [@ EXCEPT !.pc = p, !.mute = b]]
               \/ /\ task' = [task EXCEPT ![s] = [@ EXCEPT !.pc = p, !.conv = i]]
                  /\ ~FromAgent(task[s].msg)
            /\ FromAgent(task[s].msg) => p \in {"insert", "ack", "push"}
            /\ p \notin {"ack", "push"} => task[s].nth = 0
            /\ p = "push" => task[s].nth # 0
            /\ p = "ack" => stored[task[s].msg] > 0
  PROVE  TasksAreFounded' /\ TasksAreFresh' /\ TasksAreApart'
<1>1. task[s] \in Tasks /\ task = [u \in Slots |-> task[u]]
  BY DEF PipelineTypes, MsgTypeOK
<1>2. task' = [task EXCEPT ![s] = task'[s]]
  BY <1>1
<1>3. CASE task' = [task EXCEPT ![s] = NoTask]
  <2>1. TaskGoesOn(s)
    BY <1>1, <1>3, TaskRecords DEF TaskGoesOn, PipelineTypes
  <2> QED
    BY <1>2, <2>1, OneTaskMoves
<1>4. CASE task' # [task EXCEPT ![s] = NoTask]
  <2>1. /\ task'[s].pc = p /\ task'[s].msg = task[s].msg /\ task'[s].nth = task[s].nth
        /\ FromAgent(task[s].msg) => task'[s].conv = task[s].conv
    <3>1. \/ task'[s] = [task[s] EXCEPT !.pc = p]
          \/ task'[s] = [task[s] EXCEPT !.pc = p, !.mute = b]
          \/ task'[s] = [task[s] EXCEPT !.pc = p, !.conv = i] /\ ~FromAgent(task[s].msg)
      BY <1>1, <1>4
    <3> QED
      BY <1>1, <3>1 DEF Tasks
  <2>2. TaskGoesOn(s)
    BY <1>4, <2>1 DEF TaskGoesOn
  <2> QED
    BY <1>2, <2>2, OneTaskMoves
<1> QED
  BY <1>3, <1>4

(* A step that stores nothing, receives nothing, acknowledges nothing and  *)
(* fans nothing out.                                                       *)
LEMMA QuietStep ==
  ASSUME PipelineTypes, MsgInv, Remember, UNCHANGED <<received, stored, row, acked, pushed>>
  PROVE  /\ NothingForgotten
         /\ RowsAreFounded' /\ PushedIsStored' /\ AckedIsStored'
         /\ UNCHANGED <<inbox, handling>> => HubIsFounded'
         /\ UNCHANGED task => TasksAreFounded' /\ TasksAreFresh' /\ TasksAreApart'
<1>1. NothingForgotten
  BY DEF NothingForgotten, PipelineTypes, MsgTypeOK
<1> QED
  BY <1>1, FrameKept, NoTaskMoves

(* Taking a frame off the queue leaves frames that have been received.     *)
LEMMA TailIsReceived ==
  ASSUME MsgTypeOK, HubIsFounded, inbox # <<>>
  PROVE  /\ Head(inbox) \in Msgs /\ received[Head(inbox)] > 0
         /\ \A k \in DOMAIN Tail(inbox) : received[Tail(inbox)[k]] > 0
<1>1. inbox \in Seq(Msgs)
  BY DEF MsgTypeOK
<1>2. 1 \in DOMAIN inbox /\ Head(inbox) = inbox[1]
  BY <1>1
<1>3. \A k \in DOMAIN Tail(inbox) : k + 1 \in DOMAIN inbox /\ Tail(inbox)[k] = inbox[k + 1]
  BY <1>1
<1> QED
  BY <1>1, <1>2, <1>3 DEF HubIsFounded

(* The Hub's steps keep the invariant.                                     *)
LEMMA HubStep ==
  ASSUME ConvInv, PipelineTypes, MsgInv, HubNext
  PROVE  MsgInv'
<1> USE DEF PipelineTypes, MsgInv
<1>1. CASE HubTakesVisitor
  <2> DEFINE m == Head(inbox)
  <2>1. /\ m \in Msgs /\ received[m] > 0 /\ Author[m] \in Visitors
        /\ \A k \in DOMAIN Tail(inbox) : received[Tail(inbox)[k]] > 0
    BY <1>1, TailIsReceived DEF HubTakesVisitor, FromAgent
  <2>2. /\ NothingForgotten /\ RowsAreFounded' /\ PushedIsStored' /\ AckedIsStored'
    BY <1>1, QuietStep DEF HubTakesVisitor
  <2>3. seat[Author[m]] \in Convs \cup {0}
    BY <2>1 DEF ConvTypeOK
  <2>4. TasksAreFounded' /\ TasksAreFresh' /\ TasksAreApart'
    BY <1>1, <2>1, <2>2, <2>3, DispatchStarts DEF HubTakesVisitor
  <2>5. HubIsFounded'
    BY <1>1, <2>1 DEF HubTakesVisitor, HubIsFounded
  <2> QED
    BY <2>2, <2>4, <2>5
<1>2. CASE HubBinds
  <2> DEFINE m == Head(inbox)
  <2>1. /\ m \in Msgs /\ received[m] > 0 /\ FromAgent(m)
        /\ \A k \in DOMAIN Tail(inbox) : received[Tail(inbox)[k]] > 0
    BY <1>2, TailIsReceived DEF HubBinds
  <2>2. /\ RowsAreFounded' /\ PushedIsStored' /\ AckedIsStored'
        /\ TasksAreFounded' /\ TasksAreFresh' /\ TasksAreApart'
    BY <1>2, QuietStep DEF HubBinds
  <2>3. \/ handling' = [pc |-> "resolve", msg |-> m, conv |-> 0]
        \/ handling' = handling
    BY <1>2 DEF HubBinds
  <2>4. HubIsFounded'
    BY <1>2, <2>1, <2>3 DEF HubBinds, HubIsFounded, FromAgent
  <2> QED
    BY <2>2, <2>4
<1>3. CASE HubReads
  <2> DEFINE m == handling.msg
             i == bound[Author[m]]
  <2>1. m \in Msgs /\ received[m] > 0 /\ FromAgent(m)
    BY <1>3 DEF HubReads, HubIsFounded
  <2>2. /\ RowsAreFounded' /\ PushedIsStored' /\ AckedIsStored'
        /\ TasksAreFounded' /\ TasksAreFresh' /\ TasksAreApart'
    BY <1>3, QuietStep DEF HubReads
  <2>3. \/ handling' = [pc |-> "owns", msg |-> m, conv |-> i] /\ i \in Convs
        \/ handling' = [pc |-> "again", msg |-> m, conv |-> 0]
        \/ handling' = NoFrame
    BY <1>3, <2>1 DEF HubReads, ConvTypeOK, FromAgent
  <2>4. HubIsFounded'
    BY <1>3, <2>1, <2>3 DEF HubReads, HubIsFounded, FromAgent, NoFrame
  <2> QED
    BY <2>2, <2>4
<1>4. CASE HubResolves
  <2> DEFINE m == handling.msg
             i == handling.conv
  <2>1. m \in Msgs /\ received[m] > 0 /\ FromAgent(m) /\ i \in Convs
    BY <1>4 DEF HubResolves, HubIsFounded
  <2>2. /\ RowsAreFounded' /\ PushedIsStored' /\ AckedIsStored' /\ NothingForgotten
        /\ TasksAreFounded' /\ TasksAreFresh' /\ TasksAreApart'
    BY <1>4, QuietStep DEF HubResolves
  <2>3. \/ /\ handling' = [handling EXCEPT !.pc = "follow"]
           /\ Owns(Author[m], i)
        \/ handling' = NoFrame
    BY <1>4 DEF HubResolves
  <2>4. Owns(Author[m], i) => i \in mayWrite'[m]
    BY <1>4, <2>1, <2>2, MayWriteGrows DEF HubResolves
  <2>5. [handling EXCEPT !.pc = "follow"] = [pc |-> "follow", msg |-> m, conv |-> i]
    <3>1. handling \in Handlings
      BY DEF MsgTypeOK
    <3> QED
      BY <3>1 DEF Handlings
  <2>6. HubIsFounded'
    BY <1>4, <2>1, <2>3, <2>4, <2>5 DEF HubResolves, HubIsFounded, FromAgent, NoFrame
  <2> QED
    BY <2>2, <2>6
<1>5. CASE HubFollows
  <2> DEFINE m == handling.msg
             a == Author[m]
             i == handling.conv
  <2>1. m \in Msgs /\ received[m] > 0 /\ FromAgent(m) /\ i \in Convs /\ i \in mayWrite[m]
    BY <1>5 DEF HubFollows, HubIsFounded
  <2>2. RowsAreFounded' /\ PushedIsStored' /\ AckedIsStored' /\ NothingForgotten
    BY <1>5, QuietStep DEF HubFollows
  <2>3. i \in mayWrite'[m]
    BY <1>5, <2>1, <2>2, MayWriteGrows DEF HubFollows
  <2>4. \A n \in Convs : convs[n].status = "open" /\ convs[n].owner \in {a, NoOne} =>
                         n \in mayWrite'[m]
    BY <1>5, <2>1, <2>2, MayWriteGrows DEF HubFollows, Owns, Live
  <2>5. \/ handling' = NoFrame /\ (Dispatch(m, i) \/ UNCHANGED task)
        \/ \E n \in Convs :
              /\ convs[n].status = "open" /\ convs[n].owner \in {a, NoOne}
              /\ \/ handling' = NoFrame /\ Dispatch(m, n)
                 \/ handling' = [pc |-> "assign", msg |-> m, conv |-> n] /\ UNCHANGED task
    BY <1>5 DEF HubFollows, OpenOf
  <2>6. TasksAreFounded' /\ TasksAreFresh' /\ TasksAreApart'
    <3>1. ASSUME NEW n \in Convs, n \in mayWrite'[m], Dispatch(m, n) \/ UNCHANGED task
          PROVE  TasksAreFounded' /\ TasksAreFresh' /\ TasksAreApart'
      BY <1>5, <2>1, <2>2, <3>1, DispatchStarts DEF HubFollows
    <3> QED
      BY <2>1, <2>3, <2>4, <2>5, <3>1
  <2>7. \/ handling' = NoFrame
        \/ \E n \in Convs : /\ handling' = [pc |-> "assign", msg |-> m, conv |-> n]
                            /\ n \in mayWrite'[m]
    BY <2>4, <2>5
  <2>8. HubIsFounded'
    BY <1>5, <2>1, <2>7 DEF HubFollows, HubIsFounded, FromAgent, NoFrame
  <2> QED
    BY <2>2, <2>6, <2>8
<1>6. CASE HubAssigns
  <2> DEFINE m == handling.msg
             n == handling.conv
  <2>1. m \in Msgs /\ received[m] > 0 /\ FromAgent(m) /\ n \in Convs /\ n \in mayWrite[m]
    BY <1>6 DEF HubAssigns, HubIsFounded
  <2>2. RowsAreFounded' /\ PushedIsStored' /\ AckedIsStored' /\ NothingForgotten
    BY <1>6, QuietStep DEF HubAssigns
  <2>3. n \in mayWrite'[m]
    BY <1>6, <2>1, <2>2, MayWriteGrows DEF HubAssigns
  <2>4. TasksAreFounded' /\ TasksAreFresh' /\ TasksAreApart'
    BY <1>6, <2>1, <2>2, <2>3, DispatchStarts DEF HubAssigns
  <2>5. HubIsFounded'
    BY <1>6 DEF HubAssigns, HubIsFounded, NoFrame
  <2> QED
    BY <2>2, <2>4, <2>5
<1> QED
  BY <1>1, <1>2, <1>3, <1>4, <1>5, <1>6 DEF HubNext

(* A step of a task that stores nothing and fans nothing out.              *)
LEMMA TaskQuietStep ==
  ASSUME ConvInv, PipelineTypes, MsgInv, NEW s \in Slots,
         \/ TaskChecks(s) \/ TaskFinds(s) \/ TaskOpens(s) \/ TaskChecksBlock(s)
         \/ TaskFindsDuplicate(s) \/ TaskFindsConflict(s) \/ TaskAcks(s)
  PROVE  MsgInv'
<1> USE DEF PipelineTypes, MsgInv
<1> DEFINE m == task[s].msg
<1>1. /\ UNCHANGED <<received, stored, row, pushed, inbox, handling>> /\ Remember
      /\ task[s].pc # "idle"
  BY DEF TaskChecks, TaskFinds, TaskOpens, TaskChecksBlock, TaskFindsDuplicate,
     TaskFindsConflict, TaskAcks
<1>2. NothingForgotten
  BY <1>1 DEF NothingForgotten, MsgTypeOK
<1>3. HubIsFounded' /\ RowsAreFounded' /\ PushedIsStored'
  BY <1>1, <1>2, FrameKept
<1>4. m \in Msgs /\ task[s].pc \notin {"ack", "push"} => task[s].nth = 0
  BY <1>1 DEF TasksAreFounded, TaskIsFounded, TasksAreFresh, TaskIsFresh
<1>5. m \in Msgs
  BY <1>1 DEF TasksAreFounded, TaskIsFounded
<1>6. task[s].pc \notin {"insert", "ack", "push"} => ~FromAgent(m)
  BY <1>1 DEF TasksAreFounded, TaskIsFounded
<1>7. ASSUME TaskChecks(s) \/ TaskFinds(s) \/ TaskOpens(s) \/ TaskChecksBlock(s)
      PROVE  AckedIsStored' /\ TasksAreFounded' /\ TasksAreFresh' /\ TasksAreApart'
  <2>1. task[s].pc \in {"check", "find", "open", "blocked"} /\ UNCHANGED acked
    BY <1>7 DEF TaskChecks, TaskFinds, TaskOpens, TaskChecksBlock, Fails
  <2>2. task[s].nth = 0 /\ ~FromAgent(m)
    BY <1>4, <1>5, <1>6, <2>1
  <2>3. \/ task' = [task EXCEPT ![s] = NoTask]
        \/ \E p \in {"find", "open", "blocked", "insert"}, b \in BOOLEAN, i \in Convs \cup {0} :
              \/ task' = [task EXCEPT ![s].pc = p]
              \/ task' = [task EXCEPT ![s] = [@ EXCEPT !.pc = p, !.mute = b]]
              \/ task' = [task EXCEPT ![s] = [@ EXCEPT !.pc = p, !.conv = i]]
    <3>1. CASE TaskChecks(s)
      BY <3>1 DEF TaskChecks
    <3>2. CASE TaskFinds(s)
      BY <3>2 DEF TaskFinds, Fails, MovesTo
    <3>3. CASE TaskOpens(s)
      BY <3>3 DEF TaskOpens, Fails, MovesTo
    <3>4. CASE TaskChecksBlock(s)
      <4>1. (Author[m] \in blocked) \in BOOLEAN
        OBVIOUS
      <4> QED
        BY <3>4, <4>1 DEF TaskChecksBlock
    <3> QED
      BY <1>7, <3>1, <3>2, <3>3, <3>4
  <2>4. TasksAreFounded' /\ TasksAreFresh' /\ TasksAreApart'
    <3>1. CASE task' = [task EXCEPT ![s] = NoTask]
      BY <1>1, <1>2, <3>1, TaskMovesOn
    <3>2. ASSUME NEW p \in {"find", "open", "blocked", "insert"}, NEW b, NEW i,
                 \/ task' = [task EXCEPT ![s].pc = p]
                 \/ task' = [task EXCEPT ![s] = [@ EXCEPT !.pc = p, !.mute = b]]
                 \/ task' = [task EXCEPT ![s] = [@ EXCEPT !.pc = p, !.conv = i]]
          PROVE  TasksAreFounded' /\ TasksAreFresh' /\ TasksAreApart'
      BY <1>1, <1>2, <2>2, <3>2, TaskMovesOn
    <3> QED
      BY <2>3, <3>1, <3>2
  <2> QED
    BY <1>1, <1>2, <2>1, <2>4, FrameKept
<1>8. CASE TaskFindsDuplicate(s)
  <2>1. task' = [task EXCEPT ![s].pc = "ack"] /\ UNCHANGED acked /\ row[m] # 0
    BY <1>8 DEF TaskFindsDuplicate
  <2>2. stored[m] > 0
    BY <1>5, <2>1 DEF RowsAreFounded
  <2> QED
    BY <1>1, <1>2, <1>3, <2>1, <2>2, TaskMovesOn, FrameKept
<1>9. CASE TaskFindsConflict(s)
  <2>1. task' = [task EXCEPT ![s] = NoTask] /\ UNCHANGED acked
    BY <1>9 DEF TaskFindsConflict
  <2> QED
    BY <1>1, <1>2, <1>3, <2>1, TaskMovesOn, FrameKept
<1>10. CASE TaskAcks(s)
  <2>1. task[s].pc = "ack" /\ stored[m] > 0
    BY <1>10 DEF TaskAcks, TasksAreFresh, TaskIsFresh
  <2>2. \/ task' = [task EXCEPT ![s] = [@ EXCEPT !.pc = "push"]] /\ task[s].nth # 0
        \/ task' = [task EXCEPT ![s] = NoTask]
    BY <1>10 DEF TaskAcks, MsgTypeOK
  <2>3. TasksAreFounded' /\ TasksAreFresh' /\ TasksAreApart'
    BY <1>1, <1>2, <2>1, <2>2, TaskMovesOn
  <2>4. acked' \subseteq acked \cup {m} /\ UNCHANGED stored
    BY <1>1, <1>10 DEF TaskAcks
  <2>5. AckedIsStored'
    BY <2>1, <2>4 DEF AckedIsStored
  <2> QED
    BY <1>3, <2>3, <2>5
<1> QED
  BY <1>3, <1>7, <1>8, <1>9, <1>10

(* Storing a message keeps what is known of the tables.                    *)
LEMMA StoresFounded ==
  ASSUME PipelineTypes, MsgInv, Remember, UNCHANGED <<received, pushed, inbox, handling, acked>>,
         NEW s \in Slots, task[s].pc = "insert", Stores(task[s].msg, task[s].conv)
  PROVE  /\ NothingForgotten /\ stored[task[s].msg] + 1 \in Nat
         /\ stored' = [stored EXCEPT ![task[s].msg] = stored[task[s].msg] + 1]
         /\ HubIsFounded' /\ RowsAreFounded' /\ PushedIsStored' /\ AckedIsStored'
<1> USE DEF PipelineTypes, MsgInv
<1> DEFINE m == task[s].msg
<1>1. /\ m \in Msgs /\ received[m] > 0
      /\ FromAgent(m) => task[s].conv \in mayWrite[m]
  BY DEF TasksAreFounded, TaskIsFounded
<1>2. /\ stored[m] + 1 \in Nat /\ stored'[m] = stored[m] + 1 /\ stored[m] \in Nat
      /\ row'[m] = task[s].conv
      /\ \A k \in Msgs \ {m} : row'[k] = row[k] /\ stored'[k] = stored[k]
      /\ stored' = [stored EXCEPT ![m] = stored[m] + 1]
  <2>1. /\ row' = [row EXCEPT ![m] = task[s].conv]
        /\ stored' = [stored EXCEPT ![m] = stored[m] + 1]
    BY DEF Stores
  <2>2. /\ stored[m] \in Nat /\ stored[m] + 1 \in Nat
        /\ DOMAIN row = Msgs /\ DOMAIN stored = Msgs
    BY <1>1, SMTT(30) DEF MsgTypeOK
  <2> QED
    BY <1>1, <2>1, <2>2
<1>3. NothingForgotten
  <2>1. \A k \in Msgs : stored[k] \in Nat /\ (k # m => stored'[k] = stored[k])
    BY <1>2 DEF MsgTypeOK
  <2> QED
    BY <1>2, <2>1 DEF NothingForgotten
<1>4. ASSUME NEW k \in Msgs, row'[k] # 0
      PROVE  /\ received'[k] > 0 /\ stored'[k] > 0
             /\ FromAgent(k) => row'[k] \in mayWrite'[k]
  <2>1. CASE k = m
    BY <1>1, <1>2, <1>3, <2>1, MayWriteGrows
  <2>2. CASE k # m
    <3>1. /\ received[k] > 0 /\ stored[k] > 0 /\ row'[k] = row[k] /\ stored'[k] = stored[k]
          /\ FromAgent(k) => row[k] \in mayWrite[k]
      BY <1>2, <1>4, <2>2 DEF RowsAreFounded
    <3> QED
      BY <1>3, <3>1, MayWriteGrows
  <2> QED
    BY <2>1, <2>2
<1>5. RowsAreFounded'
  BY <1>4 DEF RowsAreFounded, FromAgent
<1> QED
  BY <1>2, <1>3, <1>5, FrameKept

(* The insertion, the failing insertion and the fan-out.                   *)
LEMMA TaskStoreStep ==
  ASSUME ConvInv, PipelineTypes, MsgInv, NEW s \in Slots,
         TaskInserts(s) \/ TaskFailsToInsert(s) \/ TaskPushes(s)
  PROVE  MsgInv'
<1> USE DEF PipelineTypes, MsgInv
<1> DEFINE m == task[s].msg
<1>1. task[s].pc # "idle" /\ m \in Msgs /\ Remember
  BY DEF TaskInserts, TaskFailsToInsert, TaskPushes, TasksAreFounded, TaskIsFounded
<1>2. CASE TaskFailsToInsert(s)
  <2>1. /\ UNCHANGED <<received, pushed, inbox, handling, acked>> /\ task[s].pc = "insert"
        /\ task' = [task EXCEPT ![s] = NoTask]
        /\ Stores(m, task[s].conv) \/ UNCHANGED <<row, stored>>
    BY <1>2 DEF TaskFailsToInsert, Fails
  <2>2. NothingForgotten /\ HubIsFounded' /\ RowsAreFounded' /\ PushedIsStored' /\ AckedIsStored'
    BY <1>1, <2>1, StoresFounded, QuietStep
  <2> QED
    BY <1>1, <2>1, <2>2, TaskMovesOn
<1>3. CASE TaskInserts(s)
  <2>1. /\ UNCHANGED <<received, pushed, inbox, handling, acked>> /\ task[s].pc = "insert"
        /\ task' = [task EXCEPT ![s] = [@ EXCEPT !.pc = "ack", !.nth = stored[m] + 1]]
        /\ Stores(m, task[s].conv)
    BY <1>3 DEF TaskInserts
  <2>2. /\ NothingForgotten /\ stored[m] + 1 \in Nat /\ stored[m] \in Nat
        /\ stored' = [stored EXCEPT ![m] = stored[m] + 1]
        /\ HubIsFounded' /\ RowsAreFounded' /\ PushedIsStored' /\ AckedIsStored'
    BY <1>1, <2>1, StoresFounded DEF MsgTypeOK
  <2>3. /\ stored'[m] = stored[m] + 1
        /\ \A k \in Msgs : stored[k] \in Nat /\ stored'[k] \in Nat /\ stored[k] <= stored'[k]
    BY <1>1, <2>2 DEF MsgTypeOK, NothingForgotten
  <2>4. /\ task'[s].pc = "ack" /\ task'[s].msg = m /\ task'[s].conv = task[s].conv
        /\ task'[s].nth = stored[m] + 1
        /\ \A u \in Slots \ {s} : task'[u] = task[u]
    <3>1. task[s] \in Tasks
      BY DEF MsgTypeOK
    <3>2. task'[s] = [task[s] EXCEPT !.pc = "ack", !.nth = stored[m] + 1]
      BY <2>1 DEF MsgTypeOK
    <3> QED
      BY <2>1, <3>1, <3>2 DEF MsgTypeOK, Tasks
  <2>5. TasksAreFounded'
    <3>1. ASSUME NEW u \in Slots PROVE TaskIsFounded(u)'
      <4>1. /\ task'[u].pc # "idle" => task[u].pc # "idle"
            /\ task'[u].msg = task[u].msg /\ task'[u].conv = task[u].conv
            /\ task'[u].pc = task[u].pc \/ (task'[u].pc = "ack" /\ task[u].pc = "insert")
        <5>1. CASE u = s
          BY <2>1, <2>4, <5>1
        <5>2. CASE u # s
          BY <2>4, <5>2
        <5> QED
          BY <5>1, <5>2
      <4>2. task[u].pc # "idle" => received'[task[u].msg] > 0
        BY <2>1 DEF TasksAreFounded, TaskIsFounded
      <4>3. task[u].pc # "idle" /\ FromAgent(task[u].msg) =>
              task[u].conv \in mayWrite'[task[u].msg]
        BY <1>1, <2>2, MayWriteGrows DEF TasksAreFounded, TaskIsFounded
      <4> QED
        BY <4>1, <4>2, <4>3 DEF TasksAreFounded, TaskIsFounded, FromAgent
    <3> QED
      BY <3>1 DEF TasksAreFounded
  <2>6. ASSUME NEW u \in Slots, u # s, task[u].nth # 0
        PROVE  task[u].msg \in Msgs /\ task[u].nth \in 1..stored[task[u].msg]
    BY <2>6 DEF TasksAreFounded, TaskIsFounded, TasksAreFresh, TaskIsFresh
  <2>7. TasksAreFresh'
    <3>1. TaskIsFresh(s)'
      <4>1. stored[m] + 1 \in 1..stored'[m] /\ stored'[m] > 0
        BY <2>2, <2>3
      <4>2. stored[m] + 1 \notin pushed[m]
        BY <1>1, <2>2 DEF PushedIsStored
      <4> QED
        BY <2>1, <2>4, <4>1, <4>2 DEF TaskIsFresh
    <3>2. ASSUME NEW u \in Slots, u # s PROVE TaskIsFresh(u)'
      <4>1. /\ task'[u] = task[u]
            /\ task[u].nth # 0 => task[u].nth \notin pushed[task[u].msg]
            /\ task[u].pc = "ack" => stored[task[u].msg] > 0
        BY <2>4, <3>2 DEF TasksAreFresh, TaskIsFresh
      <4>2. task[u].nth # 0 => task[u].nth \in 1..stored'[task[u].msg]
        BY <2>3, <2>6, <3>2
      <4>3. task[u].pc = "ack" => stored'[task[u].msg] > 0
        BY <2>3, <4>1 DEF TasksAreFounded, TaskIsFounded
      <4> QED
        BY <2>1, <4>1, <4>2, <4>3 DEF TasksAreFresh, TaskIsFresh
    <3> QED
      BY <3>1, <3>2 DEF TasksAreFresh
  <2>8. TasksAreApart'
    <3>1. \A u \in Slots : u # s /\ task[u].nth # 0 =>
             task[u].msg # m \/ task[u].nth # stored[m] + 1
      BY <2>2, <2>6
    <3> QED
      BY <2>4, <3>1 DEF TasksAreApart
  <2> QED
    BY <2>2, <2>5, <2>7, <2>8
<1>4. CASE TaskPushes(s)
  <2>1. /\ UNCHANGED <<received, stored, row, inbox, handling, acked>> /\ task[s].pc = "push"
        /\ pushed' = [pushed EXCEPT ![m] = @ \cup {task[s].nth}]
        /\ task' = [task EXCEPT ![s] = NoTask]
    BY <1>4 DEF TaskPushes
  <2>2. NothingForgotten
    BY <2>1 DEF NothingForgotten, MsgTypeOK
  <2>3. HubIsFounded' /\ RowsAreFounded' /\ AckedIsStored'
    BY <1>1, <2>1, <2>2, FrameKept
  <2>4. task[s].nth # 0 /\ task[s].nth \in 1..stored[m]
    BY <2>1 DEF TasksAreFresh, TaskIsFresh
  <2>5. PushedIsStored'
    BY <1>1, <2>1, <2>4 DEF PushedIsStored, MsgTypeOK
  <2>6. /\ task'[s] = NoTask /\ NoTask.pc = "idle" /\ NoTask.nth = 0
        /\ \A u \in Slots \ {s} : task'[u] = task[u]
    BY <2>1, TaskRecords DEF MsgTypeOK
  <2>7. \A u \in Slots : TaskGoesOn(u)
    BY <2>6, UntouchedGoesOn DEF TaskGoesOn
  <2>8. ASSUME NEW u \in Slots, task'[u].nth # 0 PROVE task'[u].nth \notin pushed'[task'[u].msg]
    <3>1. u # s /\ task'[u] = task[u] /\ task[u].msg \in Msgs
      BY <2>6, <2>8 DEF TasksAreFresh, TaskIsFresh, TasksAreFounded, TaskIsFounded
    <3>2. task[u].nth \notin pushed[task[u].msg]
      BY <2>8, <3>1 DEF TasksAreFresh, TaskIsFresh
    <3>3. task[u].msg # m \/ task[u].nth # task[s].nth
      BY <2>4, <2>8, <3>1 DEF TasksAreApart
    <3> QED
      BY <1>1, <2>1, <3>1, <3>2, <3>3 DEF MsgTypeOK
  <2> QED
    BY <1>1, <2>2, <2>3, <2>5, <2>7, <2>8, TasksGoOn
<1> QED
  BY <1>2, <1>3, <1>4

(* A client's frame or connection keeps the invariant.                     *)
LEMMA ClientStep ==
  ASSUME ConvInv, PipelineTypes, MsgInv, ClientNext
  PROVE  MsgInv'
<1> USE DEF PipelineTypes, MsgInv
<1>1. ASSUME NEW m \in Msgs,
             \/ VisitorSends(m)
             \/ \E i \in Convs : AgentSends(m, i)
      PROVE  MsgInv'
  <2>1. /\ UNCHANGED <<stored, row, pushed, handling, acked, task>> /\ Remember
        /\ inbox' = Append(inbox, m)
        /\ \/ received' = [received EXCEPT ![m] = 1]
           \/ received' = [received EXCEPT ![m] = received[m] + 1]
    BY <1>1 DEF VisitorSends, AgentSends
  <2>2. /\ received'[m] > 0
        /\ \A k \in Msgs : received[k] > 0 => received'[k] > 0
    <3>1. received[m] + 1 > 0 /\ DOMAIN received = Msgs
      <4>1. received \in [Msgs -> Nat]
        BY DEF MsgTypeOK
      <4> QED
        BY <4>1
    <3>2. received'[m] > 0 /\ \A k \in Msgs \ {m} : received'[k] = received[k]
      BY <2>1, <3>1
    <3> QED
      BY <3>2
  <2>3. NothingForgotten
    <3>1. \A k \in Msgs : stored[k] \in Nat /\ stored'[k] = stored[k]
      BY <2>1 DEF MsgTypeOK
    <3> QED
      BY <2>2, <3>1 DEF NothingForgotten
  <2>4. /\ RowsAreFounded' /\ PushedIsStored' /\ AckedIsStored'
        /\ TasksAreFounded' /\ TasksAreFresh' /\ TasksAreApart'
    BY <2>1, <2>3, FrameKept, NoTaskMoves
  <2>5. \A k \in DOMAIN inbox' : received'[inbox'[k]] > 0
    <3>1. ASSUME NEW k \in DOMAIN inbox' PROVE received'[inbox'[k]] > 0
      <4>1. CASE inbox'[k] = m
        BY <2>2, <4>1
      <4>2. CASE inbox'[k] # m
        <5>1. inbox \in Seq(Msgs) /\ k \in DOMAIN Append(inbox, m)
          BY <2>1, <3>1 DEF MsgTypeOK
        <5>2. k \in 1..Len(inbox) /\ inbox'[k] = inbox[k]
          BY <2>1, <4>2, <5>1
        <5>3. k \in DOMAIN inbox /\ inbox'[k] = inbox[k] /\ inbox[k] \in Msgs
          BY <5>1, <5>2
        <5> QED
          BY <2>2, <5>3 DEF HubIsFounded
      <4> QED
        BY <4>1, <4>2
    <3> QED
      BY <3>1
  <2>6. handling.pc # "idle" => received'[handling.msg] > 0
    BY <2>2 DEF HubIsFounded
  <2>7. handling.pc \in {"follow", "assign"} => handling.conv \in mayWrite'[handling.msg]
    BY <2>1, <2>3, MayWriteGrows DEF HubIsFounded
  <2>8. HubIsFounded'
    BY <2>1, <2>5, <2>6, <2>7 DEF HubIsFounded, FromAgent
  <2> QED
    BY <2>4, <2>8
<1>2. ASSUME NEW m \in Msgs, NEW v \in Visitors, VisitorConfirms(m, v) PROVE MsgInv'
  BY <1>2, QuietStep DEF VisitorConfirms
<1>3. ASSUME NEW a \in Agents, AgentArrives(a) PROVE MsgInv'
  BY <1>3, QuietStep DEF AgentArrives
<1>4. ASSUME NEW r \in Requests, VisitorArrives(r) PROVE MsgInv'
  <2>1. /\ UNCHANGED <<received, stored, row, pushed, inbox, handling, acked>> /\ Remember
        /\ \A s \in Slots : task'[s] \in {task[s], [task[s] EXCEPT !.live = FALSE]}
    BY <1>4 DEF VisitorArrives
  <2>2. /\ NothingForgotten /\ HubIsFounded' /\ RowsAreFounded' /\ PushedIsStored' /\ AckedIsStored'
    BY <2>1, QuietStep
  <2>3. ASSUME NEW s \in Slots
        PROVE  /\ task'[s].pc = task[s].pc /\ task'[s].msg = task[s].msg
               /\ task'[s].conv = task[s].conv /\ task'[s].nth = task[s].nth
    <3>1. task[s] \in Tasks
      BY DEF MsgTypeOK
    <3> QED
      BY <2>1, <3>1 DEF Tasks
  <2>4. \A s \in Slots : TaskGoesOn(s)
    BY <2>3 DEF TaskGoesOn, TasksAreFounded, TaskIsFounded, TasksAreFresh, TaskIsFresh
  <2>5. \A s \in Slots : task'[s].nth # 0 => task'[s].nth \notin pushed'[task'[s].msg]
    BY <2>1, <2>3 DEF TasksAreFresh, TaskIsFresh
  <2> QED
    BY <2>1, <2>2, <2>4, <2>5, TasksGoOn
<1> QED
  BY <1>1, <1>2, <1>3, <1>4 DEF ClientNext

(* A crash leaves nothing in progress, the purge takes rows away.          *)
LEMMA CrashStep ==
  ASSUME ConvInv, PipelineTypes, MsgInv, Crash \/ PurgeTakesMessages
  PROVE  MsgInv'
<1> USE DEF PipelineTypes, MsgInv
<1>1. CASE Crash
  <2>1. /\ UNCHANGED <<received, stored, row, pushed, acked>> /\ Remember
        /\ inbox' = <<>> /\ handling' = NoFrame
        /\ \A s \in Slots : task'[s] = NoTask
    BY <1>1 DEF Crash
  <2>2. NothingForgotten /\ RowsAreFounded' /\ PushedIsStored' /\ AckedIsStored'
    BY <2>1, QuietStep
  <2>3. HubIsFounded'
    BY <2>1 DEF HubIsFounded, NoFrame
  <2>4. TasksAreFounded' /\ TasksAreFresh' /\ TasksAreApart'
    BY <2>1, TaskRecords
       DEF TasksAreFounded, TaskIsFounded, TasksAreFresh, TaskIsFresh, TasksAreApart
  <2> QED
    BY <2>2, <2>3, <2>4
<1>2. CASE PurgeTakesMessages
  <2>1. /\ UNCHANGED <<received, stored, pushed, acked, inbox, handling, task>> /\ Remember
        /\ \A m \in Msgs : row'[m] \in {0, row[m]}
    BY <1>2 DEF PurgeTakesMessages
  <2>2. NothingForgotten
    BY <2>1 DEF NothingForgotten, MsgTypeOK
  <2>3. /\ HubIsFounded' /\ PushedIsStored' /\ AckedIsStored'
        /\ TasksAreFounded' /\ TasksAreFresh' /\ TasksAreApart'
    BY <2>1, <2>2, FrameKept, NoTaskMoves
  <2>4. ASSUME NEW m \in Msgs, row'[m] # 0
        PROVE  /\ received'[m] > 0 /\ stored'[m] > 0
               /\ FromAgent(m) => row'[m] \in mayWrite'[m]
    <3>1. /\ row'[m] = row[m] /\ received[m] > 0 /\ stored[m] > 0
          /\ FromAgent(m) => row[m] \in mayWrite[m]
      BY <2>1, <2>4 DEF RowsAreFounded
    <3> QED
      BY <2>1, <2>2, <3>1, MayWriteGrows
  <2> QED
    BY <2>3, <2>4 DEF RowsAreFounded, FromAgent
<1> QED
  BY <1>1, <1>2

(* The invariant is inductive.                                             *)
LEMMA PipelineInvariant == PipelineSpec => []PipelineInv
<1>1. PipelineInit => PipelineInv
  <2> SUFFICES ASSUME PipelineInit PROVE PipelineInv
    OBVIOUS
  <2>1. ConvInv
    BY ConvInitially DEF PipelineInit
  <2>2. /\ handling = NoFrame /\ inbox = <<>> /\ row = [m \in Msgs |-> 0]
        /\ task = [s \in Slots |-> NoTask] /\ acked = {}
        /\ pushed = [m \in Msgs |-> {}] /\ stored = [m \in Msgs |-> 0]
    BY DEF PipelineInit
  <2>3. MsgTypeOK
    BY DEF PipelineInit, MsgTypeOK, NoFrame, NoTask, Handlings, Tasks
  <2>4. HubIsFounded /\ RowsAreFounded /\ PushedIsStored /\ AckedIsStored
    BY <2>2 DEF HubIsFounded, RowsAreFounded, PushedIsStored, AckedIsStored, NoFrame
  <2>5. TasksAreFounded /\ TasksAreFresh /\ TasksAreApart
    BY <2>2, <2>3, TaskRecords
       DEF TasksAreFounded, TaskIsFounded, TasksAreFresh, TaskIsFresh, TasksAreApart
  <2> QED
    BY <2>1, <2>3, <2>4, <2>5 DEF PipelineInv, MsgInv
<1>2. PipelineInv /\ [PipelineNext]_pipelineVars => PipelineInv'
  <2> SUFFICES ASSUME PipelineInv, [PipelineNext]_pipelineVars PROVE PipelineInv'
    OBVIOUS
  <2>1. CASE PipelineNext
    <3>1. ConvInv' /\ MsgTypeOK'
      BY <2>1, ConvKept, MsgTypeStep DEF PipelineInv, MsgInv
    <3>2. PipelineTypes
      BY <3>1 DEF PipelineInv, PipelineTypes, ConvInv
    <3>3. ASSUME ReceiptNext \/ (QuietNext /\ UNCHANGED msgVars /\ Remember) PROVE MsgInv'
      <4>1. Remember /\ UNCHANGED <<received, stored, row, acked, pushed, inbox, handling, task>>
        BY <3>3 DEF ReceiptNext, DeliveryApplies, ReplayRuns, BlocksVisitor
      <4> QED
        BY <3>2, <4>1, QuietStep DEF PipelineInv, MsgInv
    <3>4. ASSUME TaskNext PROVE MsgInv'
      BY <3>2, <3>4, TaskQuietStep, TaskStoreStep DEF PipelineInv, TaskNext
    <3> QED
      BY <2>1, <3>1, <3>2, <3>3, <3>4, HubStep, ClientStep, CrashStep
         DEF PipelineInv, PipelineNext
  <2>2. CASE UNCHANGED pipelineVars
    BY <2>2 DEF PipelineInv, ConvInv, ConvTypeOK, ClaimsAreFounded, ClaimIsFounded,
       VisitsAreFounded, MsgTypeOK, MsgInv, HubIsFounded, TasksAreFounded, TaskIsFounded,
       TasksAreFresh, TaskIsFresh, TasksAreApart, RowsAreFounded, PushedIsStored,
       AckedIsStored, FromAgent
  <2> QED
    BY <2>1, <2>2
<1> QED
  BY <1>1, <1>2, PTL DEF PipelineSpec

-----------------------------------------------------------------------------
(***************************************************************************)
(* Where the frames are.  A frame received adds one to the queue; one      *)
(* taken off the queue is in the Hub's hand, then with a task, and leaves  *)
(* by an answer; a crash counts what it takes.                             *)
(***************************************************************************)
Bit(b) == IF b THEN 1 ELSE 0

Queued(q, m) == {k \in DOMAIN q : q[k] = m}

IsBusy(t, m) == t.pc \notin {"idle", "push"} /\ t.msg = m

Working(tasks, m) == {s \in Slots : IsBusy(tasks[s], m)}

InHand(h, m) == Bit(h.pc # "idle" /\ h.msg = m)

\* what comes in goes somewhere
Balanced ==
    \A m \in Msgs :
        received'[m] + Cardinality(Queued(inbox, m)) + InHand(handling, m)
            + Cardinality(Working(task, m)) + answered[m] + lost[m]
      = received[m] + Cardinality(Queued(inbox', m)) + InHand(handling', m)
            + Cardinality(Working(task', m)) + answered'[m] + lost'[m]

(* The frames of every message, wherever they are, add up.                 *)
FramesAddUp ==
    \A m \in Msgs : received[m] = Cardinality(Queued(inbox, m)) + InHand(handling, m)
                                 + Cardinality(Working(task, m)) + answered[m] + lost[m]

LEMMA FramesAreCounted ==
  ASSUME NEW q \in Seq(Msgs), NEW tasks, NEW m
  PROVE  /\ IsFiniteSet(Queued(q, m)) /\ Cardinality(Queued(q, m)) \in Nat
         /\ IsFiniteSet(Working(tasks, m)) /\ Cardinality(Working(tasks, m)) \in Nat
<1>1. IsFiniteSet(DOMAIN q)
  <2>1. DOMAIN q = 1..Len(q) /\ Len(q) \in Nat
    OBVIOUS
  <2> QED
    BY <2>1, FS_Interval
<1>2. IsFiniteSet(Queued(q, m)) /\ IsFiniteSet(Working(tasks, m))
  BY <1>1, FS_Subset DEF Queued, Working
<1> QED
  BY <1>2, FS_CardinalityType

(* Two sets that differ in one element only.                               *)
LEMMA Differing ==
  ASSUME NEW S, NEW T, NEW x, IsFiniteSet(S), IsFiniteSet(T), T \ {x} = S \ {x}
  PROVE  Cardinality(T) + Bit(x \in S) = Cardinality(S) + Bit(x \in T)
<1> DEFINE R == S \ {x}
<1>1. /\ IsFiniteSet(R)
      /\ Cardinality(R) = IF x \in S THEN Cardinality(S) - 1 ELSE Cardinality(S)
  BY FS_RemoveElement
<1>2. Cardinality(R) = IF x \in T THEN Cardinality(T) - 1 ELSE Cardinality(T)
  BY FS_RemoveElement
<1>3. Cardinality(S) \in Nat /\ Cardinality(T) \in Nat
  BY FS_CardinalityType
<1> HIDE DEF R
<1> QED
  BY <1>1, <1>2, <1>3 DEF Bit

LEMMA QueueGrows ==
  ASSUME NEW q \in Seq(Msgs), NEW x \in Msgs, NEW m
  PROVE  Cardinality(Queued(Append(q, x), m)) = Cardinality(Queued(q, m)) + Bit(x = m)
<1> DEFINE n == Len(q) + 1
<1>1. /\ Append(q, x) \in Seq(Msgs) /\ n \notin DOMAIN q /\ n \in DOMAIN Append(q, x)
      /\ Append(q, x)[n] = x
      /\ \A k : k # n => /\ k \in DOMAIN Append(q, x) <=> k \in DOMAIN q
                         /\ k \in DOMAIN q => Append(q, x)[k] = q[k]
  OBVIOUS
<1>2. Queued(Append(q, x), m) \ {n} = Queued(q, m) \ {n}
  BY <1>1 DEF Queued
<1>3. n \notin Queued(q, m) /\ (n \in Queued(Append(q, x), m) <=> x = m)
  BY <1>1 DEF Queued
<1> HIDE DEF n
<1>4. Cardinality(Queued(Append(q, x), m)) + Bit(n \in Queued(q, m)) =
      Cardinality(Queued(q, m)) + Bit(n \in Queued(Append(q, x), m))
  BY <1>1, <1>2, FramesAreCounted, Differing
<1>5. Cardinality(Queued(Append(q, x), m)) \in Nat /\ Cardinality(Queued(q, m)) \in Nat
  BY <1>1, FramesAreCounted
<1> QED
  BY <1>3, <1>4, <1>5 DEF Bit

LEMMA QueueShrinks ==
  ASSUME NEW q \in Seq(Msgs), q # <<>>, NEW m
  PROVE  Cardinality(Queued(q, m)) = Cardinality(Queued(Tail(q), m)) + Bit(Head(q) = m)
<1> DEFINE S == Queued(Tail(q), m)
           T == Queued(q, m) \ {1}
           f == [k \in S |-> k + 1]
<1>1. /\ Tail(q) \in Seq(Msgs) /\ Len(q) \in Nat \ {0}
      /\ DOMAIN q = 1..Len(q) /\ DOMAIN Tail(q) = 1..(Len(q) - 1)
      /\ \A k \in DOMAIN Tail(q) : Tail(q)[k] = q[k + 1]
      /\ Head(q) = q[1]
  OBVIOUS
<1>2. \A k \in S : k \in Nat /\ k + 1 \in T
  BY <1>1 DEF Queued
<1>3. \A j \in T : j - 1 \in S /\ (j - 1) + 1 = j
  <2> SUFFICES ASSUME NEW j \in T PROVE j - 1 \in S /\ (j - 1) + 1 = j
    OBVIOUS
  <2>1. j \in 2..Len(q) /\ q[j] = m
    BY <1>1 DEF Queued
  <2>2. j - 1 \in DOMAIN Tail(q) /\ (j - 1) + 1 = j
    BY <1>1, <2>1
  <2>3. Tail(q)[j - 1] = m
    BY <1>1, <2>1, <2>2
  <2> QED
    BY <2>2, <2>3 DEF Queued
<1>4. IsFiniteSet(S) /\ Cardinality(S) \in Nat /\ IsFiniteSet(Queued(q, m))
  BY <1>1, FramesAreCounted
<1> HIDE DEF S, T
<1>5. f \in Bijection(S, T)
  BY <1>2, <1>3 DEF Bijection, Injection, Surjection, IsInjective
<1>6. Cardinality(T) = Cardinality(S)
  BY <1>4, <1>5, FS_Bijection DEF ExistsBijection
<1>7. Cardinality(T) = IF 1 \in Queued(q, m) THEN Cardinality(Queued(q, m)) - 1
                       ELSE Cardinality(Queued(q, m))
  BY <1>4, FS_RemoveElement DEF T
<1>8. 1 \in Queued(q, m) <=> Head(q) = m
  BY <1>1 DEF Queued
<1>9. Cardinality(Queued(q, m)) \in Nat
  BY FramesAreCounted
<1> QED
  BY <1>4, <1>6, <1>7, <1>8, <1>9 DEF Bit, S

LEMMA TaskChanges ==
  ASSUME NEW s \in Slots, DOMAIN task = Slots, NEW t, task' = [task EXCEPT ![s] = t], NEW m
  PROVE  Cardinality(Working(task', m)) + Bit(IsBusy(task[s], m)) =
         Cardinality(Working(task, m)) + Bit(IsBusy(t, m))
<1>1. task'[s] = t /\ \A u \in Slots : u # s => task'[u] = task[u]
  OBVIOUS
<1>2. Working(task', m) \ {s} = Working(task, m) \ {s}
  BY <1>1 DEF Working
<1>3. /\ s \in Working(task, m) <=> IsBusy(task[s], m)
      /\ s \in Working(task', m) <=> IsBusy(t, m)
  BY <1>1 DEF Working
<1>4. IsFiniteSet(Working(task, m)) /\ IsFiniteSet(Working(task', m))
  BY FS_Subset DEF Working
<1>5. Cardinality(Working(task', m)) + Bit(s \in Working(task, m)) =
      Cardinality(Working(task, m)) + Bit(s \in Working(task', m))
  BY <1>2, <1>4, Differing
<1> QED
  BY <1>3, <1>5 DEF Bit

(* What is counted before and after a step are numbers.                    *)
LEMMA SumsAreNumbers ==
  ASSUME PipelineTypes, NEW m \in Msgs
  PROVE  /\ {received[m], answered[m], lost[m], received'[m], answered'[m], lost'[m]} \subseteq Nat
         /\ {Cardinality(Queued(inbox, m)), Cardinality(Queued(inbox', m)),
             Cardinality(Working(task, m)), Cardinality(Working(task', m))} \subseteq Nat
         /\ {InHand(handling, m), InHand(handling', m)} \subseteq {0, 1}
<1>1. {received[m], answered[m], lost[m], received'[m], answered'[m], lost'[m]} \subseteq Nat
  BY DEF PipelineTypes, MsgTypeOK
<1>2. Cardinality(Queued(inbox, m)) \in Nat /\ Cardinality(Queued(inbox', m)) \in Nat
  <2>1. inbox \in Seq(Msgs) /\ inbox' \in Seq(Msgs)
    BY DEF PipelineTypes, MsgTypeOK
  <2> QED
    BY <2>1, FramesAreCounted
<1>3. Cardinality(Working(task, m)) \in Nat /\ Cardinality(Working(task', m)) \in Nat
  <2>1. <<>> \in Seq(Msgs)
    OBVIOUS
  <2> QED
    BY <2>1, FramesAreCounted
<1>4. InHand(handling, m) \in {0, 1} /\ InHand(handling', m) \in {0, 1}
  BY DEF InHand, Bit
<1> QED
  BY <1>1, <1>2, <1>3, <1>4

(* An answer counts for its message.                                       *)
LEMMA AnswerCounts ==
  ASSUME PipelineTypes, NEW x \in Msgs, NEW m \in Msgs, Answer(x)
  PROVE  answered'[m] = answered[m] + Bit(x = m)
<1>1. answered \in [Msgs -> Nat]
  BY DEF PipelineTypes, MsgTypeOK
<1> QED
  BY <1>1 DEF Answer, Bit

(* A free slot takes a frame.                                              *)
LEMMA TaskTakes ==
  ASSUME PipelineTypes, NEW s \in Slots, task[s].pc = "idle", NEW x \in Msgs, NEW m \in Msgs,
         NEW i, task' = [task EXCEPT ![s] = NewTask(x, i)], UNCHANGED answered
  PROVE  Cardinality(Working(task', m)) + answered'[m] =
         Cardinality(Working(task, m)) + answered[m] + Bit(x = m)
<1>1. /\ Cardinality(Working(task, m)) \in Nat /\ Cardinality(Working(task', m)) \in Nat
      /\ answered[m] \in Nat
  BY SumsAreNumbers
<1>2. PICK t : t = NewTask(x, i)
  OBVIOUS
<1>3. ~IsBusy(task[s], m) /\ (IsBusy(t, m) <=> x = m)
  BY <1>2 DEF IsBusy, NewTask
<1>4. Cardinality(Working(task', m)) + Bit(IsBusy(task[s], m)) =
      Cardinality(Working(task, m)) + Bit(IsBusy(t, m))
  <2>1. task \in [Slots -> Tasks] /\ task' = [task EXCEPT ![s] = t]
    BY <1>2 DEF PipelineTypes, MsgTypeOK
  <2> QED
    BY <2>1, TaskChanges
<1> QED
  BY <1>1, <1>3, <1>4 DEF Bit

(* A frame the Hub hands over is with a task, or answered.                 *)
LEMMA DispatchBalances ==
  ASSUME PipelineTypes, NEW x \in Msgs, NEW m \in Msgs, NEW i,
         Dispatch(x, i) \/ (Answer(x) /\ UNCHANGED task)
  PROVE  Cardinality(Working(task', m)) + answered'[m] =
         Cardinality(Working(task, m)) + answered[m] + Bit(x = m)
<1>1. /\ Cardinality(Working(task, m)) \in Nat /\ Cardinality(Working(task', m)) \in Nat
      /\ answered[m] \in Nat /\ Bit(x = m) \in Nat
  BY SumsAreNumbers DEF Bit
<1>2. CASE Answer(x) /\ UNCHANGED task
  BY <1>1, <1>2, AnswerCounts
<1> QED
  BY <1>2, TaskTakes DEF Dispatch

(* A task goes on with its frame, or answers it and is done with it.       *)
LEMMA TaskBalances ==
  ASSUME PipelineTypes, NEW s \in Slots, task[s].pc \notin {"idle", "push"},
         task[s].msg \in Msgs, NEW m \in Msgs, NEW t, task' = [task EXCEPT ![s] = t],
         IF t.pc \in {"idle", "push"} THEN Answer(task[s].msg)
         ELSE t.msg = task[s].msg /\ UNCHANGED answered
  PROVE  Cardinality(Working(task', m)) + answered'[m] =
         Cardinality(Working(task, m)) + answered[m]
<1>1. /\ Cardinality(Working(task, m)) \in Nat /\ Cardinality(Working(task', m)) \in Nat
      /\ answered[m] \in Nat /\ answered'[m] \in Nat
  BY SumsAreNumbers
<1>2. Cardinality(Working(task', m)) + Bit(IsBusy(task[s], m)) =
      Cardinality(Working(task, m)) + Bit(IsBusy(t, m))
  BY TaskChanges DEF PipelineTypes, MsgTypeOK
<1>3. IsBusy(task[s], m) <=> task[s].msg = m
  BY DEF IsBusy
<1>4. CASE t.pc \in {"idle", "push"}
  <2>1. ~IsBusy(t, m) /\ answered'[m] = answered[m] + Bit(task[s].msg = m)
    BY <1>4, AnswerCounts DEF IsBusy
  <2> QED
    BY <1>1, <1>2, <1>3, <2>1 DEF Bit
<1>5. CASE t.pc \notin {"idle", "push"}
  <2>1. (IsBusy(t, m) <=> IsBusy(task[s], m)) /\ UNCHANGED answered
    BY <1>5 DEF IsBusy
  <2> QED
    BY <1>1, <1>2, <2>1 DEF Bit
<1> QED
  BY <1>4, <1>5

(* The Hub's steps lose no frame.                                          *)
LEMMA HubBalances ==
  ASSUME PipelineTypes, MsgInv, HubNext
  PROVE  Balanced
<1> SUFFICES ASSUME NEW m \in Msgs
             PROVE  received'[m] + Cardinality(Queued(inbox, m)) + InHand(handling, m)
                        + Cardinality(Working(task, m)) + answered[m] + lost[m]
                  = received[m] + Cardinality(Queued(inbox', m)) + InHand(handling', m)
                        + Cardinality(Working(task', m)) + answered'[m] + lost'[m]
  BY DEF Balanced
<1> USE DEF PipelineTypes, MsgInv
<1>1. UNCHANGED <<received, lost>>
  BY DEF HubNext, HubTakesVisitor, HubBinds, HubReads, HubResolves, HubFollows,
     HubAssigns
<1>2. NoFrame.pc = "idle" /\ inbox \in Seq(Msgs)
  BY DEF NoFrame, MsgTypeOK
<1>3. CASE inbox # <<>> /\ inbox' = Tail(inbox) /\ handling.pc = "idle"
  <2> DEFINE x == Head(inbox)
  <2>1. x \in Msgs /\ InHand(handling, m) = 0
    BY <1>2, <1>3, TailIsReceived DEF InHand, Bit
  <2>2. Cardinality(Queued(inbox, m)) = Cardinality(Queued(inbox', m)) + Bit(x = m)
    BY <1>2, <1>3, QueueShrinks
  <2>3. CASE /\ UNCHANGED handling
             /\ \/ \E i : Dispatch(x, i)
                \/ Answer(x) /\ UNCHANGED task
    <3> HIDE DEF x
    <3>1. Cardinality(Working(task', m)) + answered'[m] =
          Cardinality(Working(task, m)) + answered[m] + Bit(x = m)
      BY <2>1, <2>3, DispatchBalances
    <3> QED
      BY <1>1, <2>1, <2>2, <2>3, <3>1, SumsAreNumbers DEF Bit
  <2>4. CASE /\ handling' = [pc |-> "resolve", msg |-> x, conv |-> 0]
             /\ UNCHANGED <<answered, task>>
    <3>1. InHand(handling', m) = Bit(x = m)
      BY <2>4 DEF InHand
    <3> HIDE DEF x
    <3> QED
      BY <1>1, <2>1, <2>2, <2>4, <3>1, SumsAreNumbers DEF Bit
  <2>5. CASE HubTakesVisitor
    BY <2>3, <2>5 DEF HubTakesVisitor
  <2>6. CASE HubBinds
    BY <2>3, <2>4, <2>6 DEF HubBinds
  <2> QED
    BY <1>3, <2>5, <2>6 DEF HubNext, HubReads, HubResolves, HubFollows, HubAssigns
<1>4. CASE UNCHANGED inbox /\ handling.pc # "idle"
  <2> DEFINE x == handling.msg
  <2>1. x \in Msgs /\ InHand(handling, m) = Bit(x = m)
    BY <1>4 DEF HubIsFounded, InHand
  <2>2. CASE /\ handling' = NoFrame
             /\ \/ \E i : Dispatch(x, i)
                \/ Answer(x) /\ UNCHANGED task
    <3>1. InHand(handling', m) = 0
      BY <1>2, <2>2 DEF InHand, Bit
    <3> HIDE DEF x
    <3>2. Cardinality(Working(task', m)) + answered'[m] =
          Cardinality(Working(task, m)) + answered[m] + Bit(x = m)
      BY <2>1, <2>2, DispatchBalances
    <3> QED
      BY <1>1, <1>4, <2>1, <3>1, <3>2, SumsAreNumbers DEF Bit
  <2>3. CASE /\ handling'.pc # "idle" /\ handling'.msg = x
             /\ UNCHANGED <<answered, task>>
    <3>1. InHand(handling', m) = InHand(handling, m)
      BY <2>1, <2>3 DEF InHand
    <3> QED
      BY <1>1, <1>4, <2>3, <3>1, SumsAreNumbers
  <2>4. CASE HubReads
    BY <2>2, <2>3, <2>4 DEF HubReads
  <2>7. CASE HubResolves
    <3>1. handling.pc = "owns" /\ handling \in Handlings
      BY <2>7 DEF HubResolves, MsgTypeOK
    <3> QED
      BY <2>2, <2>3, <2>7, <3>1 DEF HubResolves, Handlings
  <2>5. CASE HubFollows
    BY <2>2, <2>3, <2>5 DEF HubFollows
  <2>6. CASE HubAssigns
    BY <2>2, <2>6 DEF HubAssigns
  <2> QED
    BY <1>4, <2>4, <2>5, <2>6, <2>7 DEF HubNext, HubTakesVisitor, HubBinds
<1> QED
  BY <1>3, <1>4 DEF HubNext, HubTakesVisitor, HubBinds, HubReads, HubResolves, HubFollows,
     HubAssigns

(* A task answers its frame once: by an error or by the ACK.               *)
LEMMA TaskStepBalances ==
  ASSUME PipelineTypes, MsgInv, TaskNext
  PROVE  Balanced
<1> USE DEF PipelineTypes, MsgInv
<1>1. UNCHANGED <<received, lost, inbox, handling>>
  BY DEF TaskNext, TaskChecks, TaskFinds, TaskOpens, TaskChecksBlock, TaskInserts,
         TaskFindsDuplicate, TaskFindsConflict, TaskFailsToInsert, TaskAcks, TaskPushes
<1>2. ASSUME NEW m \in Msgs,
             Cardinality(Working(task', m)) + answered'[m] =
             Cardinality(Working(task, m)) + answered[m]
      PROVE  received'[m] + Cardinality(Queued(inbox, m)) + InHand(handling, m)
                 + Cardinality(Working(task, m)) + answered[m] + lost[m]
           = received[m] + Cardinality(Queued(inbox', m)) + InHand(handling', m)
                 + Cardinality(Working(task', m)) + answered'[m] + lost'[m]
  BY <1>1, <1>2, SumsAreNumbers
<1>3. PICK s \in Slots :
        \/ TaskChecks(s) \/ TaskFinds(s) \/ TaskOpens(s) \/ TaskChecksBlock(s)
        \/ TaskInserts(s) \/ TaskFindsDuplicate(s) \/ TaskFindsConflict(s)
        \/ TaskFailsToInsert(s) \/ TaskAcks(s) \/ TaskPushes(s)
  BY DEF TaskNext
<1>4. task \in [Slots -> Tasks] /\ task[s] \in Tasks /\ NoTask.pc = "idle"
  BY TaskRecords DEF MsgTypeOK
<1>5. task[s].pc # "idle" => task[s].msg \in Msgs
  BY DEF TasksAreFounded, TaskIsFounded
<1>6. ASSUME task[s].pc \notin {"idle", "push"},
             NEW t, task' = [task EXCEPT ![s] = t],
             IF t.pc \in {"idle", "push"} THEN Answer(task[s].msg)
             ELSE t.msg = task[s].msg /\ UNCHANGED answered
      PROVE  Balanced
  <2>1. ASSUME NEW m \in Msgs
        PROVE  Cardinality(Working(task', m)) + answered'[m] =
               Cardinality(Working(task, m)) + answered[m]
    BY <1>5, <1>6, TaskBalances
  <2> QED
    BY <1>2, <2>1 DEF Balanced
<1>7. ASSUME NEW p \in {"find", "open", "blocked", "insert", "ack"}, NEW i, NEW b, NEW n,
             task[s].pc \notin {"idle", "push"}, UNCHANGED answered,
             \/ task' = [task EXCEPT ![s].pc = p]
             \/ task' = [task EXCEPT ![s] = [@ EXCEPT !.pc = p, !.conv = i]]
             \/ task' = [task EXCEPT ![s] = [@ EXCEPT !.pc = p, !.mute = b]]
             \/ task' = [task EXCEPT ![s] = [@ EXCEPT !.pc = p, !.nth = n]]
      PROVE  Balanced
  <2>1. \A j \in {task[s]} : /\ [j EXCEPT !.pc = p].pc = p /\ [j EXCEPT !.pc = p].msg = j.msg
                             /\ [j EXCEPT !.pc = p, !.conv = i].pc = p
                             /\ [j EXCEPT !.pc = p, !.conv = i].msg = j.msg
                             /\ [j EXCEPT !.pc = p, !.mute = b].pc = p
                             /\ [j EXCEPT !.pc = p, !.mute = b].msg = j.msg
                             /\ [j EXCEPT !.pc = p, !.nth = n].pc = p
                             /\ [j EXCEPT !.pc = p, !.nth = n].msg = j.msg
    BY <1>4 DEF Tasks
  <2>2. PICK t : task' = [task EXCEPT ![s] = t] /\ t.pc = p /\ t.msg = task[s].msg
    BY <1>7, <2>1
  <2> QED
    BY <1>6, <1>7, <2>2
<1>8. ASSUME task[s].pc \notin {"idle", "push"}, task' = [task EXCEPT ![s] = NoTask],
             Answer(task[s].msg)
      PROVE  Balanced
  BY <1>4, <1>6, <1>8
<1>9. CASE TaskChecks(s)
  BY <1>7, <1>9 DEF TaskChecks
<1>10. CASE TaskFinds(s)
  BY <1>7, <1>8, <1>10 DEF TaskFinds, MovesTo, Fails
<1>11. CASE TaskOpens(s)
  BY <1>7, <1>8, <1>11 DEF TaskOpens, MovesTo, Fails
<1>12. CASE TaskChecksBlock(s)
  BY <1>7, <1>12 DEF TaskChecksBlock
<1>13. CASE TaskInserts(s)
  BY <1>7, <1>13 DEF TaskInserts
<1>14. CASE TaskFindsDuplicate(s)
  BY <1>7, <1>14 DEF TaskFindsDuplicate
<1>15. CASE TaskFindsConflict(s) \/ TaskFailsToInsert(s)
  BY <1>8, <1>15 DEF TaskFindsConflict, TaskFailsToInsert, Fails
<1>16. CASE TaskAcks(s)
  <2>1. /\ task[s].pc = "ack" /\ Answer(task[s].msg)
        /\ \/ task' = [task EXCEPT ![s] = NoTask]
           \/ task' = [task EXCEPT ![s] = [task[s] EXCEPT !.pc = "push"]]
    BY <1>4, <1>16 DEF TaskAcks
  <2>2. [task[s] EXCEPT !.pc = "push"].pc = "push"
    BY <1>4 DEF Tasks
  <2> QED
    BY <1>6, <1>8, <2>1, <2>2
<1>17. CASE TaskPushes(s)
  <2>1. task[s].pc = "push" /\ task' = [task EXCEPT ![s] = NoTask] /\ UNCHANGED answered
    BY <1>17 DEF TaskPushes
  <2>2. ASSUME NEW m \in Msgs PROVE Working(task', m) = Working(task, m)
    BY <1>4, <2>1 DEF Working, IsBusy
  <2> QED
    BY <1>2, <2>1, <2>2 DEF Balanced
<1> QED
  BY <1>3, <1>9, <1>10, <1>11, <1>12, <1>13, <1>14, <1>15, <1>16, <1>17

(* What comes in is queued.                                                *)
LEMMA ClientBalances ==
  ASSUME PipelineTypes, MsgInv, ClientNext
  PROVE  Balanced
<1> USE DEF PipelineTypes, MsgInv
<1>1. ASSUME UNCHANGED <<received, inbox, handling, answered, lost>>,
             \A s \in Slots, m \in Msgs : IsBusy(task'[s], m) <=> IsBusy(task[s], m)
      PROVE  Balanced
  BY <1>1, SumsAreNumbers DEF Balanced, Working
<1>2. ASSUME NEW x \in Msgs, received' = [received EXCEPT ![x] = received[x] + 1],
             inbox' = Append(inbox, x), UNCHANGED <<handling, task, answered, lost>>
      PROVE  Balanced
  <2> SUFFICES ASSUME NEW m \in Msgs
               PROVE  received'[m] + Cardinality(Queued(inbox, m)) =
                      received[m] + Cardinality(Queued(inbox', m))
    BY <1>2, SumsAreNumbers DEF Balanced
  <2>1. Cardinality(Queued(inbox', m)) = Cardinality(Queued(inbox, m)) + Bit(x = m)
    BY <1>2, QueueGrows DEF MsgTypeOK
  <2>2. received'[m] = received[m] + Bit(x = m)
    <3>1. received \in [Msgs -> Nat]
      BY DEF MsgTypeOK
    <3> QED
      BY <1>2, <3>1 DEF Bit
  <2> QED
    BY <2>1, <2>2, SumsAreNumbers DEF Bit
<1>3. ASSUME NEW x \in Msgs, VisitorSends(x) PROVE Balanced
  <2>1. /\ received' = [received EXCEPT ![x] = 1] /\ received[x] = 0
        /\ inbox' = Append(inbox, x) /\ UNCHANGED <<handling, task, answered, lost>>
    BY <1>3 DEF VisitorSends
  <2>2. received' = [received EXCEPT ![x] = received[x] + 1]
    BY <2>1
  <2> QED
    BY <1>2, <2>1, <2>2
<1>4. ASSUME NEW x \in Msgs, NEW i \in Convs, AgentSends(x, i) PROVE Balanced
  BY <1>2, <1>4 DEF AgentSends
<1>5. ASSUME NEW x \in Msgs, NEW v \in Visitors, VisitorConfirms(x, v) PROVE Balanced
  BY <1>1, <1>5 DEF VisitorConfirms
<1>6. ASSUME NEW a \in Agents, AgentArrives(a) PROVE Balanced
  BY <1>1, <1>6 DEF AgentArrives
<1>7. ASSUME NEW r \in Requests, VisitorArrives(r) PROVE Balanced
  <2>1. \A s \in Slots : \/ task'[s] = task[s]
                         \/ task'[s] = [task[s] EXCEPT !.live = FALSE]
    BY <1>7 DEF VisitorArrives
  <2>2. \A s \in Slots : task'[s].pc = task[s].pc /\ task'[s].msg = task[s].msg
    <3>1. \A s \in Slots : task[s] \in Tasks
      BY DEF MsgTypeOK
    <3>2. \A j \in Tasks : /\ [j EXCEPT !.live = FALSE].pc = j.pc
                           /\ [j EXCEPT !.live = FALSE].msg = j.msg
      BY DEF Tasks
    <3> QED
      BY <2>1, <3>1, <3>2
  <2> QED
    BY <1>1, <1>7, <2>2 DEF VisitorArrives, IsBusy
<1> QED
  BY <1>3, <1>4, <1>5, <1>6, <1>7 DEF ClientNext

(* A crash counts what it takes; the other steps move no frame.            *)
LEMMA OtherBalances ==
  ASSUME PipelineTypes, MsgInv,
         \/ ReceiptNext \/ PurgeTakesMessages \/ Crash
         \/ UNCHANGED msgVars
  PROVE  Balanced
<1> USE DEF PipelineTypes, MsgInv
<1>1. CASE UNCHANGED <<received, inbox, handling, task, answered, lost>>
  BY <1>1, SumsAreNumbers DEF Balanced
<1>2. CASE Crash
  <2> SUFFICES ASSUME NEW m \in Msgs
               PROVE  received'[m] + Cardinality(Queued(inbox, m)) + InHand(handling, m)
                          + Cardinality(Working(task, m)) + answered[m] + lost[m]
                    = received[m] + Cardinality(Queued(inbox', m)) + InHand(handling', m)
                          + Cardinality(Working(task', m)) + answered'[m] + lost'[m]
    BY DEF Balanced
  <2>1. /\ UNCHANGED <<received, answered>> /\ inbox' = <<>> /\ handling' = NoFrame
        /\ \A s \in Slots : task'[s] = NoTask
        /\ lost'[m] = lost[m] + InFlight(m)
    BY <1>2 DEF Crash
  <2>2. InFlight(m) = Cardinality(Queued(inbox, m)) + InHand(handling, m)
                    + Cardinality(Working(task, m))
    BY DEF InFlight, Queued, InHand, Bit, Working, IsBusy
  <2>3. Queued(inbox', m) = {} /\ Working(task', m) = {} /\ InHand(handling', m) = 0
    BY <2>1 DEF Queued, Working, IsBusy, InHand, Bit, NoFrame, NoTask
  <2>4. Cardinality(Queued(inbox', m)) = 0 /\ Cardinality(Working(task', m)) = 0
    BY <2>3, FS_EmptySet
  <2> DEFINE q == Cardinality(Queued(inbox, m))
             w == Cardinality(Working(task, m))
             h == InHand(handling, m)
  <2>5. q \in Nat /\ w \in Nat /\ h \in Nat /\ received[m] \in Nat
        /\ answered[m] \in Nat /\ lost[m] \in Nat
    BY SumsAreNumbers
  <2>6. received'[m] = received[m] /\ answered'[m] = answered[m] /\ lost'[m] = lost[m] + (q + h + w)
    BY <2>1, <2>2
  <2> HIDE DEF q, w, h
  <2>7. received'[m] + q + h + w + answered[m] + lost[m]
        = received[m] + 0 + 0 + 0 + answered'[m] + lost'[m]
    BY <2>5, <2>6
  <2> QED
    BY <2>3, <2>4, <2>7 DEF q, w, h
<1> QED
  BY <1>1, <1>2 DEF ReceiptNext, DeliveryApplies, ReplayRuns, BlocksVisitor, PurgeTakesMessages

(* Every variable of the pipeline keeps its type, whatever the clients,    *)
(* messages and slots and whatever fails.                                  *)
THEOREM PipelineTypeCorrect == PipelineSpec => []PipelineTypeOK
<1>1. PipelineInv => PipelineTypeOK
  BY DEF PipelineInv, ConvInv, PipelineTypeOK
<1> QED
  BY <1>1, PipelineInvariant, PTL

(* PersistMessageAsync acknowledges only what a transaction has stored.    *)
THEOREM PipelineAckedIsStored == PipelineSpec => []AckedIsStored
<1>1. PipelineInv => AckedIsStored
  BY DEF PipelineInv, MsgInv
<1> QED
  BY <1>1, PipelineInvariant, PTL

(* No insertion is fanned out twice, whatever tasks work on the message.   *)
THEOREM PipelinePushedOnce == PipelineSpec => []PushedOncePerRow
<1>1. ASSUME PipelineInv PROVE PushedOncePerRow
  <2>1. TasksAreFresh /\ TasksAreApart
    BY <1>1 DEF PipelineInv, MsgInv
  <2> QED
    BY <2>1 DEF PushedOncePerRow, TasksAreFresh, TaskIsFresh, TasksAreApart
<1> QED
  BY <1>1, PipelineInvariant, PTL

(* An agent's message is stored only where the agent could have been seen  *)
(* to be entitled, through every step between the checks and the INSERT.   *)
THEOREM PipelineRowIsEntitled == PipelineSpec => []RowIsEntitled
<1>1. PipelineInv => RowIsEntitled
  BY DEF PipelineInv, MsgInv, RowsAreFounded, RowIsEntitled
<1> QED
  BY <1>1, PipelineInvariant, PTL

(* No frame disappears: with any number of frames, tasks, errors, retries  *)
(* and crashes, each frame that came in is in the queue, in the Hub's      *)
(* hand, with a task, answered, or lost in a crash.                        *)
THEOREM PipelineFramesAreAccounted == PipelineSpec => []FramesAreAccounted
<1>1. PipelineInit => FramesAddUp
  <2> SUFFICES ASSUME PipelineInit, NEW m \in Msgs
               PROVE  received[m] = Cardinality(Queued(inbox, m)) + InHand(handling, m)
                                  + Cardinality(Working(task, m)) + answered[m] + lost[m]
    BY DEF FramesAddUp
  <2>1. /\ inbox = <<>> /\ handling = NoFrame /\ task = [s \in Slots |-> NoTask]
        /\ received[m] = 0 /\ answered[m] = 0 /\ lost[m] = 0
    BY DEF PipelineInit
  <2>2. Queued(inbox, m) = {} /\ Working(task, m) = {} /\ InHand(handling, m) = 0
    BY <2>1 DEF Queued, Working, IsBusy, InHand, Bit, NoFrame, NoTask
  <2>3. Cardinality(Queued(inbox, m)) = 0 /\ Cardinality(Working(task, m)) = 0
    BY <2>2, FS_EmptySet
  <2> QED
    BY <2>1, <2>2, <2>3
<1>2. PipelineInv /\ PipelineInv' /\ FramesAddUp /\ [PipelineNext]_pipelineVars => FramesAddUp'
  <2> SUFFICES ASSUME PipelineInv, PipelineInv', FramesAddUp, [PipelineNext]_pipelineVars
               PROVE  FramesAddUp'
    OBVIOUS
  <2>1. PipelineTypes /\ MsgInv
    BY DEF PipelineInv, PipelineTypes, ConvInv
  <2>2. Balanced
    <3>1. CASE UNCHANGED pipelineVars
      BY <2>1, <3>1, OtherBalances
    <3> QED
      BY <2>1, <3>1, HubBalances, TaskStepBalances, ClientBalances, OtherBalances
         DEF PipelineNext
  <2> SUFFICES ASSUME NEW m \in Msgs
               PROVE  received'[m] = Cardinality(Queued(inbox', m)) + InHand(handling', m)
                                   + Cardinality(Working(task', m)) + answered'[m] + lost'[m]
    BY DEF FramesAddUp, Queued, InHand, Working
  <2>3. received[m] = Cardinality(Queued(inbox, m)) + InHand(handling, m)
                    + Cardinality(Working(task, m)) + answered[m] + lost[m]
    BY DEF FramesAddUp
  <2>4. received'[m] + Cardinality(Queued(inbox, m)) + InHand(handling, m)
            + Cardinality(Working(task, m)) + answered[m] + lost[m]
      = received[m] + Cardinality(Queued(inbox', m)) + InHand(handling', m)
            + Cardinality(Working(task', m)) + answered'[m] + lost'[m]
    BY <2>2 DEF Balanced
  <2> QED
    BY <2>1, <2>3, <2>4, SumsAreNumbers
<1>3. FramesAddUp => FramesAreAccounted
  <2>1. \A m \in Msgs : InFlight(m) = Cardinality(Queued(inbox, m)) + InHand(handling, m)
                                    + Cardinality(Working(task, m))
    BY DEF InFlight, Queued, InHand, Bit, Working, IsBusy
  <2> QED
    BY <2>1 DEF FramesAddUp, FramesAreAccounted
<1> QED
  BY <1>1, <1>2, <1>3, PipelineInvariant, PTL DEF PipelineSpec

-----------------------------------------------------------------------------
(***************************************************************************)
(* Blocked visitors.  A task asks once; from then on a message that is     *)
(* silent carries the answer, until a statement fails and the answer is    *)
(* taken for no.  The task of an agent's message never asks.               *)
(***************************************************************************)
HasAsked(t) == t.pc \in {"insert", "ack", "push"}

TaskIsMuted(s) ==
    HasAsked(task[s]) /\ task[s].msg \in silent => task[s].mute /\ task[s].pc # "push"

SilenceInv == /\ \A m \in silent : Author[m] \in blocked
              /\ spent["faults"] <= MaxFaults
              /\ spent["faults"] = 0 => \A s \in Slots : TaskIsMuted(s)

\* What a step without an error does to the answer a task has got.
KeepsAnswer(s) ==
    \/ ~HasAsked(task'[s])
    \/ task'[s].pc = "insert" /\ FromAgent(task'[s].msg) /\ task'[s].msg \in Msgs
    \/ task'[s].pc = "insert" /\ task'[s].mute = (Author[task'[s].msg] \in blocked')
    \/ /\ HasAsked(task[s])
       /\ task'[s].msg = task[s].msg /\ task'[s].mute = task[s].mute
       /\ task'[s].pc = "push" => task[s].pc = "push" \/ ~task[s].mute

(* A message becomes silent with its first frame only.                     *)
LEMMA SilenceIsKept ==
  ASSUME PipelineTypes, MsgInv, Remember, NEW s \in Slots, TaskIsMuted(s), KeepsAnswer(s)
  PROVE  TaskIsMuted(s)'
<1> USE DEF PipelineTypes, MsgInv, HasAsked
<1>1. \A m \in silent' : m \in Msgs /\ Author[m] \in blocked' /\ (received[m] = 0 \/ m \in silent)
  BY DEF Remember
<1>2. blocked' \subseteq Visitors
  BY DEF MsgTypeOK
<1>3. CASE ~HasAsked(task'[s])
  BY <1>3 DEF TaskIsMuted
<1>4. CASE task'[s].pc = "insert" /\ FromAgent(task'[s].msg) /\ task'[s].msg \in Msgs
  BY <1>1, <1>2, <1>4 DEF TaskIsMuted, FromAgent
<1>5. CASE task'[s].pc = "insert" /\ task'[s].mute = (Author[task'[s].msg] \in blocked')
  BY <1>1, <1>5 DEF TaskIsMuted
<1>6. CASE /\ HasAsked(task[s])
           /\ task'[s].msg = task[s].msg /\ task'[s].mute = task[s].mute
           /\ task'[s].pc = "push" => task[s].pc = "push" \/ ~task[s].mute
  <2>1. task[s].msg \in Msgs /\ received[task[s].msg] > 0 /\ received[task[s].msg] \in Nat
    BY <1>6 DEF TasksAreFounded, TaskIsFounded, MsgTypeOK
  <2>2. task[s].msg \in silent' => task[s].msg \in silent
    BY <1>1, <2>1
  <2> QED
    BY <1>6, <2>2 DEF TaskIsMuted
<1> QED
  BY <1>3, <1>4, <1>5, <1>6 DEF KeepsAnswer

(* A task nothing touches, or that ends, keeps its answer.                 *)
LEMMA UntouchedKeepsAnswer ==
  ASSUME NEW s \in Slots, task'[s] \in {task[s], NoTask}
  PROVE  KeepsAnswer(s)
BY DEF KeepsAnswer, HasAsked, NoTask

(* A step that touches the task of one slot at most.                       *)
LEMMA OneTaskAnswers ==
  ASSUME MsgTypeOK, NEW s \in Slots, NEW t, task' = [task EXCEPT ![s] = t],
         task'[s] = t => KeepsAnswer(s)
  PROVE  \A u \in Slots : KeepsAnswer(u)
<1>1. task'[s] = t /\ \A u \in Slots \ {s} : task'[u] = task[u]
  BY DEF MsgTypeOK
<1> QED
  BY <1>1, UntouchedKeepsAnswer

(* A task that starts has asked nothing, or is an agent's.                 *)
LEMMA DispatchAnswers ==
  ASSUME MsgTypeOK, NEW m \in Msgs, NEW i, Dispatch(m, i) \/ UNCHANGED task
  PROVE  \A u \in Slots : KeepsAnswer(u)
<1>1. ASSUME NEW s \in Slots, task' = [task EXCEPT ![s] = NewTask(m, i)]
      PROVE  \A u \in Slots : KeepsAnswer(u)
  <2>1. task'[s] = NewTask(m, i)
    BY <1>1 DEF MsgTypeOK
  <2>2. task'[s].msg = m /\ task'[s].pc = IF FromAgent(m) THEN "insert" ELSE "check"
    BY <2>1 DEF NewTask
  <2>3. KeepsAnswer(s)
    BY <2>2 DEF KeepsAnswer, HasAsked
  <2> QED
    BY <1>1, <2>3, OneTaskAnswers
<1>2. \/ UNCHANGED task
      \/ \E s \in Slots : task' = [task EXCEPT ![s] = NewTask(m, i)]
  BY DEF Dispatch
<1> QED
  BY <1>1, <1>2, UntouchedKeepsAnswer

(* The budget of errors only grows.                                        *)
LEMMA FaultsAreSpent ==
  ASSUME MsgTypeOK, spent["faults"] <= MaxFaults
  PROVE  /\ UNCHANGED spent => spent'["faults"] <= MaxFaults
         /\ Fault => spent'["faults"] <= MaxFaults /\ spent'["faults"] # 0
         /\ \A b \in {"crashes", "blocks"}, n \in Nat :
               Spend(b, n) => spent'["faults"] = spent["faults"]
<1>1. spent["faults"] \in Nat /\ spent["faults"] + 1 \in Nat
  BY DEF MsgTypeOK
<1>2. ASSUME Fault PROVE spent'["faults"] = spent["faults"] + 1 /\ spent["faults"] < MaxFaults
  BY <1>2 DEF Fault, Spend, MsgTypeOK
<1>3. ASSUME NEW b \in {"crashes", "blocks"}, NEW n \in Nat, Spend(b, n)
      PROVE  spent'["faults"] = spent["faults"]
  BY <1>3 DEF Spend, MsgTypeOK
<1> QED
  BY <1>1, <1>2, <1>3

(* Without an error, every step keeps the answers the tasks have got.      *)
LEMMA AnswersAreKept ==
  ASSUME PipelineTypes, MsgInv, PipelineNext, ~Fault
  PROVE  \A s \in Slots : KeepsAnswer(s)
<1> USE DEF PipelineTypes, MsgInv
<1>1. CASE UNCHANGED task
  BY <1>1, UntouchedKeepsAnswer
<1>2. CASE HubNext /\ ~UNCHANGED task
  <2>1. CASE HubTakesVisitor
    <3>1. Head(inbox) \in Msgs
      BY <2>1, TailIsReceived DEF HubTakesVisitor
    <3> QED
      BY <2>1, <3>1, DispatchAnswers DEF HubTakesVisitor
  <2>2. CASE HubFollows
    <3>1. handling.msg \in Msgs
      BY <2>2 DEF HubFollows, HubIsFounded
    <3>2. \E i \in Convs : Dispatch(handling.msg, i)
      BY <1>2, <2>2 DEF HubFollows, OpenOf, HubIsFounded
    <3> QED
      BY <3>1, <3>2, DispatchAnswers
  <2>3. CASE HubAssigns
    <3>1. handling.msg \in Msgs
      BY <2>3 DEF HubAssigns, HubIsFounded
    <3>2. Dispatch(handling.msg, handling.conv)
      BY <2>3 DEF HubAssigns
    <3> QED
      BY <3>1, <3>2, DispatchAnswers
  <2> QED
    BY <1>2, <2>1, <2>2, <2>3 DEF HubNext, HubBinds, HubReads, HubResolves
<1>3. ASSUME TaskNext PROVE \A u \in Slots : KeepsAnswer(u)
  <2>1. PICK s \in Slots :
           \/ TaskChecks(s) \/ TaskFinds(s) \/ TaskOpens(s) \/ TaskChecksBlock(s)
           \/ TaskInserts(s) \/ TaskFindsDuplicate(s) \/ TaskFindsConflict(s)
           \/ TaskFailsToInsert(s) \/ TaskAcks(s) \/ TaskPushes(s)
    BY <1>3 DEF TaskNext
  <2>2. task[s] \in Tasks /\ DOMAIN task = Slots /\ NoTask.pc = "idle"
    BY TaskRecords DEF MsgTypeOK
  <2>3. \A u \in Slots \ {s} : task'[u] = task[u]
    BY <2>1, <2>2 DEF TaskChecks, TaskFinds, TaskOpens, TaskChecksBlock, TaskInserts,
       TaskFindsDuplicate, TaskFindsConflict, TaskFailsToInsert, TaskAcks, TaskPushes,
       Fails, MovesTo, MsgTypeOK
  <2>4. ASSUME TaskChecks(s) \/ TaskFinds(s) \/ TaskOpens(s) PROVE KeepsAnswer(s)
    <3>1. task'[s].pc \in {"idle", "find", "open", "blocked"}
      <4>1. \/ task'[s] = NoTask
            \/ \E p \in {"find", "open", "blocked"} :
                  \/ task'[s] = [task[s] EXCEPT !.pc = p]
                  \/ \E i \in Convs : task'[s] = [task[s] EXCEPT !.pc = p, !.conv = i]
        BY <2>2, <2>4 DEF TaskChecks, TaskFinds, TaskOpens, Fails, MovesTo
      <4> QED
        BY <2>2, <4>1 DEF Tasks
    <3> QED
      BY <3>1 DEF KeepsAnswer, HasAsked
  <2>5. ASSUME TaskChecksBlock(s) PROVE KeepsAnswer(s)
    <3> DEFINE m == task[s].msg
    <3>1. /\ task'[s] = [task[s] EXCEPT !.pc = "insert", !.mute = (Author[m] \in blocked)]
          /\ blocked' = blocked
      BY <2>2, <2>5 DEF TaskChecksBlock
    <3>2. task'[s].pc = "insert" /\ task'[s].msg = m /\ task'[s].mute = (Author[m] \in blocked)
      BY <2>2, <3>1 DEF Tasks
    <3> QED
      BY <3>1, <3>2 DEF KeepsAnswer
  <2>6. ASSUME TaskFindsConflict(s) \/ TaskFailsToInsert(s) \/ TaskPushes(s) PROVE KeepsAnswer(s)
    <3>1. task'[s] = NoTask
      BY <2>2, <2>6 DEF TaskFindsConflict, TaskFailsToInsert, TaskPushes, Fails
    <3> QED
      BY <3>1, UntouchedKeepsAnswer
  <2>7. ASSUME TaskInserts(s) \/ TaskFindsDuplicate(s) PROVE KeepsAnswer(s)
    <3>1. /\ task[s].pc = "insert"
          /\ \/ task'[s] = [task[s] EXCEPT !.pc = "ack", !.nth = stored[task[s].msg] + 1]
             \/ task'[s] = [task[s] EXCEPT !.pc = "ack"]
      BY <2>2, <2>7 DEF TaskInserts, TaskFindsDuplicate
    <3>2. /\ task'[s].pc = "ack" /\ task'[s].msg = task[s].msg
          /\ task'[s].mute = task[s].mute
      BY <2>2, <3>1 DEF Tasks
    <3> QED
      BY <3>1, <3>2 DEF KeepsAnswer, HasAsked
  <2>8. ASSUME TaskAcks(s) PROVE KeepsAnswer(s)
    <3>1. /\ task[s].pc = "ack"
          /\ \/ task'[s] = NoTask
             \/ task'[s] = [task[s] EXCEPT !.pc = "push"] /\ ~task[s].mute
      BY <2>2, <2>8 DEF TaskAcks
    <3>2. CASE task'[s] = NoTask
      BY <3>2, UntouchedKeepsAnswer
    <3>3. CASE task'[s] = [task[s] EXCEPT !.pc = "push"] /\ ~task[s].mute
      <4>1. /\ task'[s].pc = "push" /\ task'[s].msg = task[s].msg
            /\ task'[s].mute = task[s].mute
        BY <2>2, <3>3 DEF Tasks
      <4> QED
        BY <3>1, <3>3, <4>1 DEF KeepsAnswer, HasAsked
    <3> QED
      BY <3>1, <3>2, <3>3
  <2>9. KeepsAnswer(s)
    BY <2>1, <2>4, <2>5, <2>6, <2>7, <2>8
  <2> QED
    BY <2>3, <2>9, UntouchedKeepsAnswer
<1>4. CASE ClientNext /\ ~UNCHANGED task
  <2>1. \E r \in Requests : VisitorArrives(r)
    BY <1>4 DEF ClientNext, AgentSends, VisitorSends, VisitorConfirms, AgentArrives
  <2>2. ASSUME NEW s \in Slots PROVE KeepsAnswer(s)
    <3>1. task[s] \in Tasks
      BY DEF MsgTypeOK
    <3>2. task'[s] \in {task[s], [task[s] EXCEPT !.live = FALSE]}
      BY <2>1 DEF VisitorArrives
    <3>3. /\ task'[s].pc = task[s].pc /\ task'[s].msg = task[s].msg
          /\ task'[s].mute = task[s].mute
      BY <3>1, <3>2 DEF Tasks
    <3> QED
      BY <3>3 DEF KeepsAnswer, HasAsked
  <2> QED
    BY <2>2
<1>5. CASE Crash
  BY <1>5, UntouchedKeepsAnswer DEF Crash
<1>6. ASSUME \/ ReceiptNext \/ PurgeTakesMessages
             \/ QuietNext /\ UNCHANGED msgVars /\ Remember
      PROVE  UNCHANGED task
  BY <1>6 DEF ReceiptNext, DeliveryApplies, ReplayRuns, BlocksVisitor, PurgeTakesMessages
<1> QED
  BY <1>1, <1>2, <1>3, <1>4, <1>5, <1>6 DEF PipelineNext

(* Every step remembers, and spends on an error, on something else or on   *)
(* nothing.                                                                *)
LEMMA StepRemembers ==
  ASSUME PipelineNext
  PROVE  /\ Remember
         /\ \/ UNCHANGED spent \/ Fault
            \/ Spend("crashes", MaxCrashes) \/ Spend("blocks", MaxBlocks)
<1>1. ASSUME HubNext PROVE Remember /\ (UNCHANGED spent \/ Fault)
  BY <1>1 DEF HubNext, HubTakesVisitor, HubBinds, HubReads, HubResolves, HubFollows,
     HubAssigns
<1>2. ASSUME TaskNext PROVE Remember /\ (UNCHANGED spent \/ Fault)
  BY <1>2 DEF TaskNext, TaskChecks, TaskFinds, TaskOpens, TaskChecksBlock, TaskInserts,
     TaskFindsDuplicate, TaskFindsConflict, TaskFailsToInsert, TaskAcks, TaskPushes, Fails
<1>3. ASSUME ClientNext PROVE Remember /\ UNCHANGED spent
  BY <1>3 DEF ClientNext, AgentSends, VisitorSends, VisitorConfirms, AgentArrives,
     VisitorArrives
<1>4. ASSUME ReceiptNext \/ PurgeTakesMessages \/ Crash
      PROVE  /\ Remember
             /\ UNCHANGED spent \/ Spend("crashes", MaxCrashes) \/ Spend("blocks", MaxBlocks)
  BY <1>4 DEF ReceiptNext, DeliveryApplies, ReplayRuns, BlocksVisitor, PurgeTakesMessages,
     Crash
<1> QED
  BY <1>1, <1>2, <1>3, <1>4 DEF PipelineNext

(* The answers are an invariant.                                           *)
LEMMA SilenceInvariant == PipelineSpec => []SilenceInv
<1>1. PipelineInit => SilenceInv
  BY DEF PipelineInit, SilenceInv, TaskIsMuted
<1>2. PipelineInv /\ PipelineInv' /\ SilenceInv /\ [PipelineNext]_pipelineVars => SilenceInv'
  <2> SUFFICES ASSUME PipelineInv, PipelineInv', SilenceInv, [PipelineNext]_pipelineVars
               PROVE  SilenceInv'
    OBVIOUS
  <2>1. PipelineTypes /\ MsgInv /\ MsgTypeOK
    BY DEF PipelineInv, PipelineTypes, ConvInv
  <2>2. CASE PipelineNext
    <3>1. /\ Remember
          /\ \/ UNCHANGED spent \/ Fault
             \/ Spend("crashes", MaxCrashes) \/ Spend("blocks", MaxBlocks)
      BY <2>2, StepRemembers
    <3>2. \A m \in silent' : Author[m] \in blocked'
      BY <3>1 DEF Remember
    <3>3. /\ spent'["faults"] <= MaxFaults
          /\ spent'["faults"] = 0 => ~Fault /\ spent["faults"] = 0
      BY <2>1, <3>1, FaultsAreSpent DEF SilenceInv
    <3>4. ASSUME spent'["faults"] = 0, NEW s \in Slots PROVE TaskIsMuted(s)'
      <4>1. KeepsAnswer(s)
        BY <2>1, <2>2, <3>3, <3>4, AnswersAreKept
      <4> QED
        BY <2>1, <3>1, <3>3, <3>4, <4>1, SilenceIsKept DEF SilenceInv
    <3> QED
      BY <3>2, <3>3, <3>4 DEF SilenceInv
  <2>3. CASE UNCHANGED pipelineVars
    BY <2>3 DEF SilenceInv, TaskIsMuted, HasAsked
  <2> QED
    BY <2>2, <2>3
<1> QED
  BY <1>1, <1>2, PipelineInvariant, PTL DEF PipelineSpec

(* Until a database statement fails, no step fans out the message of a     *)
(* visitor who has been blocked ever since its frame came in.              *)
BlockedUntilFault ==
    [][\A m \in Msgs : pushed'[m] # pushed[m] /\ spent["faults"] = 0
                          => m \notin silent]_pipelineVars

(* Only TaskPushes fans out, and what a task holds there is not silent.    *)
LEMMA PushesNoSilent ==
  ASSUME PipelineTypes, MsgInv, SilenceInv, PipelineNext, spent["faults"] = 0,
         NEW m \in Msgs, pushed'[m] # pushed[m]
  PROVE  m \notin silent
<1> USE DEF PipelineTypes, MsgInv
<1>1. \E s \in Slots : TaskPushes(s)
  <2>1. HubNext => UNCHANGED pushed
    BY DEF HubNext, HubTakesVisitor, HubBinds, HubReads, HubResolves, HubFollows,
       HubAssigns
  <2>2. TaskNext => UNCHANGED pushed \/ \E s \in Slots : TaskPushes(s)
    BY DEF TaskNext, TaskChecks, TaskFinds, TaskOpens, TaskChecksBlock, TaskInserts,
       TaskFindsDuplicate, TaskFindsConflict, TaskFailsToInsert, TaskAcks
  <2>3. ClientNext => UNCHANGED pushed
    BY DEF ClientNext, AgentSends, VisitorSends, VisitorConfirms, AgentArrives,
       VisitorArrives
  <2>4. ReceiptNext \/ PurgeTakesMessages \/ Crash => UNCHANGED pushed
    BY DEF ReceiptNext, DeliveryApplies, ReplayRuns, BlocksVisitor, PurgeTakesMessages,
       Crash
  <2> QED
    BY <2>1, <2>2, <2>3, <2>4 DEF PipelineNext
<1>2. PICK s \in Slots : TaskPushes(s)
  BY <1>1
<1>3. task[s].pc = "push" /\ m = task[s].msg
  BY <1>2 DEF TaskPushes, MsgTypeOK
<1> QED
  BY <1>3 DEF SilenceInv, TaskIsMuted, HasAsked

(* Up to the first error of the database, whatever the order of frames,    *)
(* blocking, connections and crashes, PersistMessageAsync fans out no      *)
(* message of a visitor who has stayed blocked.                            *)
THEOREM PipelineBlockedUntilFault == PipelineSpec => BlockedUntilFault
<1>1. PipelineInv /\ SilenceInv /\ [PipelineNext]_pipelineVars
        => [\A m \in Msgs : pushed'[m] # pushed[m] /\ spent["faults"] = 0
                               => m \notin silent]_pipelineVars
  <2> SUFFICES ASSUME PipelineInv, SilenceInv, PipelineNext, NEW m \in Msgs,
                      pushed'[m] # pushed[m], spent["faults"] = 0
               PROVE  m \notin silent
    OBVIOUS
  <2>1. MsgTypeOK'
    BY MsgTypeStep DEF PipelineInv, MsgInv
  <2>2. PipelineTypes /\ MsgInv
    BY <2>1 DEF PipelineInv, PipelineTypes, ConvInv
  <2> QED
    BY <2>2, PushesNoSilent
<1> QED
  BY <1>1, PipelineInvariant, SilenceInvariant, PTL DEF PipelineSpec, BlockedUntilFault

(* Where no database statement fails, a blocked visitor's message is       *)
(* stored and acknowledged and reaches nobody, whatever else happens.      *)
THEOREM PipelineBlockedIsSilent == MaxFaults = 0 => (PipelineSpec => BlockedIsSilent)
<1> SUFFICES ASSUME MaxFaults = 0 PROVE PipelineSpec => BlockedIsSilent
  OBVIOUS
<1>1. PipelineInv /\ SilenceInv /\ [PipelineNext]_pipelineVars
        => [\A m \in Msgs : pushed'[m] # pushed[m] => m \notin silent]_pipelineVars
  <2> SUFFICES ASSUME PipelineInv, SilenceInv, PipelineNext, NEW m \in Msgs,
                      pushed'[m] # pushed[m]
               PROVE  m \notin silent
    OBVIOUS
  <2>1. PipelineTypes /\ MsgInv
    <3>1. MsgTypeOK'
      BY MsgTypeStep DEF PipelineInv, MsgInv
    <3> QED
      BY <3>1 DEF PipelineInv, PipelineTypes, ConvInv
  <2>2. spent["faults"] = 0
    BY <2>1 DEF SilenceInv, PipelineTypes, MsgTypeOK
  <2> QED
    BY <2>1, <2>2, PushesNoSilent
<1> QED
  BY <1>1, PipelineInvariant, SilenceInvariant, PTL DEF PipelineSpec, BlockedIsSilent
=============================================================================
