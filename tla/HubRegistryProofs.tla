------------------------- MODULE HubRegistryProofs -------------------------
(***************************************************************************)
(* Proofs about HubRegistry for any connections, conversations, goroutines *)
(* and channel capacities.  RegistryInv adds to the invariants what makes  *)
(* them inductive: a connection reports its close once and is handled      *)
(* after it has reported (Channels); the goroutines only deal with         *)
(* connections whose pumps run, and only Loop's unregister touches the     *)
(* index of one that has departed (TasksFit); the maps hold a connection   *)
(* under its own account (MapsFit); every binding is indexed, also before  *)
(* an agent's connection is listed (BindingsIndexed).                      *)
(***************************************************************************)
EXTENDS HubRegistry, TLAPS, FiniteSetTheorems

OnceEach(q) == \A i, j \in 1..Len(q) : q[i] = q[j] => i = j

Channels ==
    /\ \A c \in Clients : ~Open(c) => Started(c)
    /\ \A c \in Clients : phase[c] \in Departed => closeAt[c] = "sent"
    /\ \A i \in 1..Len(registerQ) : phase[registerQ[i]] \in {"queued", "overtaken"}
    /\ \A i \in 1..Len(unregisterQ) : /\ closeAt[unregisterQ[i]] = "sent"
                                      /\ phase[unregisterQ[i]] \in {"queued", "listed"}
    /\ OnceEach(registerQ) /\ OnceEach(unregisterQ)

TaskFits(t) ==
    /\ t.conn # None => Started(t.conn)
    /\ \A c \in t.todo : Started(c)
    /\ t.at \in {"detach", "delete", "set", "attach", "store", "greet", "unhall"}
          => t.conn # None
    /\ t.at = "load" => t.acct \in Agents
    /\ t.op = "unregister" => /\ t.at \in {"detach", "delete", "unhall"}
                              /\ phase[t.conn] \in Departed

TasksFit == \A p \in Procs : TaskFits(task[p])

MapsFit ==
    /\ \A v \in Visitors : visitors[v] # None => Account[visitors[v]] = v
    /\ \A v \in Visitors : newest[v] # None => Account[newest[v]] = v
    /\ \A a \in Agents : \A c \in agents[a] : Account[c] = a /\ Started(c)
    /\ \A k \in Convs : \A c \in byConv[k] : Started(c)

BindingsIndexed ==
    \A c \in Clients :
       /\ bound[c] # None /\ c \notin byConv[bound[c]]
       /\ phase[c] = "listed" \/ (~IsVisitor(c) /\ phase[c] \notin Departed)
       => Indexing(c)

RegistryInv ==
    /\ TypeOK
    /\ Channels
    /\ TasksFit
    /\ MapsFit
    /\ BindingsIndexed
    /\ LiveIsListed
    /\ GoneIsForgotten

-----------------------------------------------------------------------------
USE RegistryAssumption DEF Procs, Marks, JobKinds, Phases, Departed, Steps

(* The idle task is a task, and so is a task with some fields replaced. *)
LEMMA IdleTask ==
  /\ Idle \in Tasks
  /\ Idle.op = "idle" /\ Idle.at = "idle" /\ Idle.conn = None
  /\ Idle.key = None /\ Idle.todo = {}
  BY DEF Idle, Tasks

LEMMA TaskFields ==
  ASSUME NEW t \in Tasks
  PROVE  /\ t = [op |-> t.op, at |-> t.at, conn |-> t.conn, conv |-> t.conv,
                 key |-> t.key, acct |-> t.acct, todo |-> t.todo]
         /\ t.op \in JobKinds \cup {"idle", "register", "unregister"}
         /\ t.at \in Steps /\ t.conn \in Clients \cup {None}
         /\ t.conv \in Convs \cup {None} /\ t.key \in Convs \cup {None}
         /\ t.acct \in Agents \cup {None} /\ t.todo \subseteq Clients
  BY DEF Tasks

(* A goroutine that is through with a connection greets it, goes on or rests. *)
LEMMA ProceedTask ==
  ASSUME TypeOK, NEW p \in Procs, Proceed(p)
  PROVE  /\ task' \in [Procs -> Tasks]
         /\ \A q \in Procs : q # p => task'[q] = task[q]
         /\ task'[p].todo \subseteq task[p].todo
         /\ \/ /\ task[p].op = "register"
               /\ task'[p].op = "register" /\ task'[p].at = "greet"
               /\ task'[p].conn = task[p].conn
            \/ /\ task[p].op # "register"
               /\ task'[p].op = task[p].op /\ task'[p].at = "pick"
               /\ task'[p].conn = None
            \/ task'[p] = Idle
<1> DEFINE t == task[p]
           greeting == [t EXCEPT !.at = "greet", !.key = None]
           picking == [t EXCEPT !.at = "pick", !.conn = None, !.key = None]
<1>1. t \in Tasks
  BY DEF TypeOK
<1>2. /\ greeting \in Tasks /\ greeting.op = t.op /\ greeting.at = "greet"
      /\ greeting.conn = t.conn /\ greeting.todo = t.todo
  BY <1>1 DEF Tasks
<1>3. /\ picking \in Tasks /\ picking.op = t.op /\ picking.at = "pick"
      /\ picking.conn = None /\ picking.todo = t.todo
  BY <1>1 DEF Tasks
<1>4. \/ t.op = "register" /\ task' = [task EXCEPT ![p] = greeting]
      \/ t.op # "register" /\ task' = [task EXCEPT ![p] = picking]
      \/ task' = [task EXCEPT ![p] = Idle]
  BY DEF Proceed
<1> HIDE DEF greeting, picking
<1>5. /\ task \in [Procs -> Tasks]
      /\ t.todo \subseteq Clients
  BY <1>1, TaskFields DEF TypeOK
<1> QED
  BY <1>2, <1>3, <1>4, <1>5, IdleTask

(* A task at work on a connection has one. *)
LEMMA TaskHasConn ==
  ASSUME TypeOK, TasksFit, NEW p \in Procs,
         task[p].at \in {"detach", "delete", "set", "attach", "store", "greet", "unhall"}
  PROVE  /\ task[p] \in Tasks
         /\ task[p].conn \in Clients
         /\ Started(task[p].conn)
         /\ bound[task[p].conn] \in Convs \cup {None}
<1>1. task[p] \in Tasks
  BY DEF TypeOK
<1>2. task[p].conn \in Clients /\ Started(task[p].conn)
  BY <1>1, TaskFields DEF TasksFit, TaskFits
<1> QED
  BY <1>1, <1>2 DEF TypeOK

(* Each step of detachConv, SetConversationID and attachConv moves its own task on. *)
LEMMA ReadDetachTask ==
  ASSUME TypeOK, TasksFit, NEW p \in Procs, ReadDetach(p)
  PROVE  /\ task' \in [Procs -> Tasks]
         /\ \A q \in Procs : q # p => task'[q] = task[q]
         /\ task'[p].op = task[p].op /\ task'[p].conn = task[p].conn
         /\ task'[p].todo = task[p].todo
         /\ task'[p].at \in {AfterDetach(task[p].op), "delete"}
<1> DEFINE t == task[p]
           k == bound[t.conn]
           past == [t EXCEPT !.at = AfterDetach(t.op)]
           reading == [t EXCEPT !.at = "delete", !.key = k]
<1>1. t \in Tasks /\ k \in Convs \cup {None}
  BY TaskHasConn DEF ReadDetach, At
<1>2. /\ past \in Tasks /\ past.op = t.op /\ past.conn = t.conn
      /\ past.todo = t.todo /\ past.at = AfterDetach(t.op)
  BY <1>1 DEF Tasks, AfterDetach
<1>3. /\ reading \in Tasks /\ reading.op = t.op /\ reading.conn = t.conn
      /\ reading.todo = t.todo /\ reading.at = "delete"
  BY <1>1 DEF Tasks
<1>4. task' = [task EXCEPT ![p] = IF k = None THEN past ELSE reading]
  BY DEF ReadDetach
<1> QED
  BY <1>2, <1>3, <1>4 DEF TypeOK

LEMMA DeleteIndexTask ==
  ASSUME TypeOK, TasksFit, NEW p \in Procs, DeleteIndex(p)
  PROVE  /\ task' \in [Procs -> Tasks]
         /\ \A q \in Procs : q # p => task'[q] = task[q]
         /\ task'[p].op = task[p].op /\ task'[p].conn = task[p].conn
         /\ task'[p].todo = task[p].todo
         /\ task'[p].at = AfterDetach(task[p].op)
<1> DEFINE t == task[p]
           past == [t EXCEPT !.at = AfterDetach(t.op), !.key = None]
<1>1. t \in Tasks
  BY DEF TypeOK
<1>2. /\ past \in Tasks /\ past.op = t.op /\ past.conn = t.conn
      /\ past.todo = t.todo /\ past.at = AfterDetach(t.op)
  BY <1>1, ZenonT(30) DEF Tasks, AfterDetach
<1>3. task' = [task EXCEPT ![p] = past]
  BY DEF DeleteIndex, TypeOK
<1> QED
  BY <1>2, <1>3 DEF TypeOK

LEMMA SetBindingTask ==
  ASSUME TypeOK, TasksFit, NEW p \in Procs, SetBinding(p), task[p].op # "detach_owner"
  PROVE  /\ task' \in [Procs -> Tasks]
         /\ \A q \in Procs : q # p => task'[q] = task[q]
         /\ task'[p].op = task[p].op /\ task'[p].conn = task[p].conn
         /\ task'[p].todo = task[p].todo
         /\ task'[p].at = "attach"
<1> DEFINE t == task[p]
           attaching == [t EXCEPT !.at = "attach"]
<1>1. t \in Tasks
  BY DEF TypeOK
<1>2. /\ attaching \in Tasks /\ attaching.op = t.op /\ attaching.conn = t.conn
      /\ attaching.todo = t.todo /\ attaching.at = "attach"
  BY <1>1 DEF Tasks
<1>3. task' = [task EXCEPT ![p] = attaching]
  BY DEF SetBinding, TypeOK
<1> QED
  BY <1>2, <1>3 DEF TypeOK

LEMMA ReadAttachTask ==
  ASSUME TypeOK, TasksFit, NEW p \in Procs, ReadAttach(p), bound[task[p].conn] # None
  PROVE  /\ task' \in [Procs -> Tasks]
         /\ \A q \in Procs : q # p => task'[q] = task[q]
         /\ task'[p].op = task[p].op /\ task'[p].conn = task[p].conn
         /\ task'[p].todo = task[p].todo
         /\ task'[p].at = "store" /\ task'[p].key = bound[task[p].conn]
<1> DEFINE t == task[p]
           k == bound[t.conn]
           storing == [t EXCEPT !.at = "store", !.key = k]
<1>1. t \in Tasks /\ k \in Convs \cup {None}
  BY TaskHasConn DEF ReadAttach, At
<1>2. /\ storing \in Tasks /\ storing.op = t.op /\ storing.conn = t.conn
      /\ storing.todo = t.todo /\ storing.at = "store" /\ storing.key = k
  BY <1>1 DEF Tasks
<1>3. task' = [task EXCEPT ![p] = storing]
  BY DEF ReadAttach, TypeOK
<1> QED
  BY <1>2, <1>3 DEF TypeOK

(* A job begins with the connections it is given and none at work yet. *)
LEMMA BeginTask ==
  ASSUME TypeOK, NEW p \in Procs, NEW op \in JobKinds, NEW k \in Convs,
         NEW conns \in SUBSET Clients, Begin(p, op, k, conns)
  PROVE  /\ task' \in [Procs -> Tasks]
         /\ \A q \in Procs : q # p => task'[q] = task[q]
         /\ task'[p].op = op /\ task'[p].conn = None
         /\ task'[p].todo = conns
         /\ task'[p].at = "pick"
         /\ task[p] = Idle
<1> DEFINE job == [Idle EXCEPT !.op = op, !.at = "pick", !.conv = k, !.todo = conns]
<1>1. /\ job \in Tasks /\ job.op = op /\ job.conn = None
      /\ job.todo = conns /\ job.at = "pick"
  BY DEF Tasks, Idle
<1>2. task' = [task EXCEPT ![p] = job] /\ task[p] = Idle
  BY DEF Begin, Free
<1> QED
  BY <1>1, <1>2 DEF TypeOK

LEMMA RevokeTask ==
  ASSUME TypeOK, NEW p \in Procs, NEW a \in Agents, Revoke(p, a)
  PROVE  /\ task' \in [Procs -> Tasks]
         /\ \A q \in Procs : q # p => task'[q] = task[q]
         /\ task'[p].op = "close_all" /\ task'[p].conn = None
         /\ task'[p].todo = {} /\ task'[p].at = "load" /\ task'[p].acct = a
         /\ task[p] = Idle
<1> DEFINE job == [Idle EXCEPT !.op = "close_all", !.at = "load", !.acct = a]
<1>1. /\ job \in Tasks /\ job.op = "close_all" /\ job.conn = None
      /\ job.todo = {} /\ job.at = "load" /\ job.acct = a
  BY DEF Tasks, Idle
<1>2. task' = [task EXCEPT ![p] = job] /\ task[p] = Idle
  BY DEF Revoke, Free
<1> QED
  BY <1>1, <1>2 DEF TypeOK

LEMMA LoadConnectionsTask ==
  ASSUME TypeOK, TasksFit, NEW p \in Procs, LoadConnections(p)
  PROVE  /\ task' \in [Procs -> Tasks]
         /\ \A q \in Procs : q # p => task'[q] = task[q]
         /\ \/ task'[p] = Idle
            \/ /\ task'[p].op = task[p].op /\ task'[p].conn = task[p].conn
               /\ task'[p].at = "pick"
               /\ \E a \in Agents : task'[p].todo = agents[a]
<1> DEFINE t == task[p]
           conns == agents[t.acct]
           picking == [t EXCEPT !.at = "pick", !.todo = conns]
<1>1. t \in Tasks /\ t.acct \in Agents
  BY DEF LoadConnections, At, TasksFit, TaskFits, TypeOK
<1>2. conns \in SUBSET Clients
  BY <1>1 DEF TypeOK
<1>3. /\ picking \in Tasks /\ picking.op = t.op /\ picking.conn = t.conn
      /\ picking.todo = conns /\ picking.at = "pick"
  BY <1>1, <1>2 DEF Tasks
<1>4. task' = [task EXCEPT ![p] = IF conns = {} THEN Idle ELSE picking]
  BY DEF LoadConnections
<1> QED
  BY <1>1, <1>3, <1>4, IdleTask DEF TypeOK

(* A connection that is dropped leaves the rest of the job or ends it. *)
LEMMA DropTask ==
  ASSUME TypeOK, NEW p \in Procs, NEW c \in Clients, Drop(p, c)
  PROVE  /\ task' \in [Procs -> Tasks]
         /\ \A q \in Procs : q # p => task'[q] = task[q]
         /\ \/ task'[p] = Idle
            \/ /\ task'[p].op = task[p].op /\ task'[p].conn = task[p].conn
               /\ task'[p].at = task[p].at /\ task'[p].acct = task[p].acct
               /\ task'[p].key = task[p].key
               /\ task'[p].todo \subseteq task[p].todo
<1> DEFINE t == task[p]
           rest == [t EXCEPT !.todo = @ \ {c}]
<1>1. t \in Tasks
  BY DEF TypeOK
<1>2. /\ rest \in Tasks /\ rest.op = t.op /\ rest.conn = t.conn /\ rest.at = t.at
      /\ rest.acct = t.acct /\ rest.key = t.key /\ rest.todo \subseteq t.todo
  BY <1>1 DEF Tasks
<1>3. task' = [task EXCEPT ![p] = IF t.todo = {c} THEN Idle ELSE rest]
  BY DEF Drop, Without, TypeOK
<1> QED
  BY <1>2, <1>3, IdleTask DEF TypeOK

LEMMA PickBindTask ==
  ASSUME TypeOK, NEW p \in Procs, NEW c \in Clients, PickBind(p, c),
         ~Skips(task[p].op, c, task[p].conv)
  PROVE  /\ task' \in [Procs -> Tasks]
         /\ \A q \in Procs : q # p => task'[q] = task[q]
         /\ task'[p].op = task[p].op /\ task'[p].conn = c
         /\ task'[p].at = "detach"
         /\ task'[p].todo \subseteq task[p].todo
<1> DEFINE t == task[p]
           detaching == [t EXCEPT !.at = "detach", !.conn = c, !.todo = @ \ {c}]
<1>1. t \in Tasks
  BY DEF TypeOK
<1>2. /\ detaching \in Tasks /\ detaching.op = t.op /\ detaching.conn = c
      /\ detaching.at = "detach" /\ detaching.todo \subseteq t.todo
  BY <1>1 DEF Tasks
<1>3. task' = [task EXCEPT ![p] = detaching]
  BY DEF PickBind, TypeOK
<1> QED
  BY <1>2, <1>3 DEF TypeOK

(* Loop's handlers begin with the connection at the head of their channel. *)
LEMMA HeadOfQueue ==
  ASSUME NEW S, NEW q \in Seq(S), q # <<>>
  PROVE  /\ Head(q) = q[1] /\ Head(q) \in S /\ 1 \in 1..Len(q)
         /\ Tail(q) \in Seq(S) /\ Len(Tail(q)) = Len(q) - 1
         /\ \A i \in 1..Len(Tail(q)) : Tail(q)[i] = q[i + 1] /\ i + 1 \in 1..Len(q)
  OBVIOUS

LEMMA TakeRegisterTask ==
  ASSUME TypeOK, TakeRegister
  PROVE  /\ task' \in [Procs -> Tasks]
         /\ \A q \in Procs : q # Loop => task'[q] = task[q]
         /\ task'[Loop].op = "register" /\ task'[Loop].conn = Head(registerQ)
         /\ task'[Loop].todo = {}
         /\ task'[Loop].at = IF IsVisitor(Head(registerQ)) THEN "attach" ELSE "greet"
         /\ task[Loop] = Idle
<1> DEFINE c == Head(registerQ)
           job == [Idle EXCEPT !.op = "register", !.conn = c,
                               !.at = IF IsVisitor(c) THEN "attach" ELSE "greet"]
<1>1. c \in Clients
  BY HeadOfQueue DEF TakeRegister, TypeOK
<1>2. /\ job \in Tasks /\ job.op = "register" /\ job.conn = c /\ job.todo = {}
      /\ job.at = IF IsVisitor(c) THEN "attach" ELSE "greet"
  BY <1>1 DEF Tasks, Idle
<1>3. task' = [task EXCEPT ![Loop] = job] /\ task[Loop] = Idle
  BY DEF TakeRegister, Free
<1> QED
  BY <1>2, <1>3 DEF TypeOK

LEMMA TakeUnregisterTask ==
  ASSUME TypeOK, TakeUnregister
  PROVE  /\ task' \in [Procs -> Tasks]
         /\ \A q \in Procs : q # Loop => task'[q] = task[q]
         /\ task'[Loop].op = "unregister" /\ task'[Loop].conn = Head(unregisterQ)
         /\ task'[Loop].todo = {}
         /\ task'[Loop].at = "detach"
         /\ task[Loop] = Idle
<1> DEFINE c == Head(unregisterQ)
           job == [Idle EXCEPT !.op = "unregister", !.conn = c, !.at = "detach"]
<1>1. c \in Clients
  BY HeadOfQueue DEF TakeUnregister, TypeOK
<1>2. /\ job \in Tasks /\ job.op = "unregister" /\ job.conn = c /\ job.todo = {}
      /\ job.at = "detach"
  BY <1>1 DEF Tasks, Idle
<1>3. task' = [task EXCEPT ![Loop] = job] /\ task[Loop] = Idle
  BY DEF TakeUnregister, Free
<1> QED
  BY <1>2, <1>3 DEF TypeOK

(* A close marks one connection, once; sending may close it. *)
LEMMA CloseMarks ==
  ASSUME TypeOK, NEW c \in Clients, NEW p \in Procs \cup {"pump"}, Close(c, p)
  PROVE  /\ closeAt' \in [Clients -> Marks \cup Procs]
         /\ \A d \in Clients : \/ closeAt'[d] = closeAt[d]
                               \/ d = c /\ closeAt[d] = "open" /\ closeAt'[d] = p
  BY DEF Close, Open, TypeOK

LEMMA SendMarks ==
  ASSUME TypeOK, NEW c \in Clients, NEW p \in Procs, Send(c, p)
  PROVE  /\ high' \in [Clients -> 0..HighCap]
         /\ closeAt' \in [Clients -> Marks \cup Procs]
         /\ \A d \in Clients : \/ closeAt'[d] = closeAt[d]
                               \/ d = c /\ closeAt[d] = "open" /\ closeAt'[d] = p
<1>1. high' \in [Clients -> 0..HighCap]
  BY DEF Send, TypeOK
<1> QED
  BY <1>1, CloseMarks DEF Send, TypeOK

-----------------------------------------------------------------------------
(* Every step keeps the types. *)
LEMMA TypeOKStep ==
  ASSUME TypeOK, TasksFit, [Next]_vars
  PROVE  TypeOK'
<1> USE DEF listing, hall, queues
<1>a. /\ phase \in [Clients -> Phases]
      /\ bound \in [Clients -> Convs \cup {None}]
  BY DEF TypeOK
<1>b. /\ visitors \in [Visitors -> Clients \cup {None}]
      /\ newest \in [Visitors -> Clients \cup {None}]
      /\ agents \in [Agents -> SUBSET Clients]
  BY DEF TypeOK
<1>1. CASE TakeRegister
  <2>1. Head(registerQ) \in Clients /\ Tail(registerQ) \in Seq(Clients)
    BY <1>1, HeadOfQueue DEF TakeRegister, TypeOK
  <2>2. task' \in [Procs -> Tasks]
    BY <1>1, TakeRegisterTask
  <2>3. phase' \in [Clients -> Phases]
    BY <1>a, <1>1, <2>1 DEF TakeRegister
  <2>4. /\ visitors' \in [Visitors -> Clients \cup {None}]
        /\ newest' \in [Visitors -> Clients \cup {None}]
        /\ agents' \in [Agents -> SUBSET Clients]
    BY <1>b, <1>1, <2>1 DEF TakeRegister, IsVisitor
  <2> QED
    BY <1>1, <2>1, <2>2, <2>3, <2>4 DEF TakeRegister, TypeOK
<1>2. CASE TakeUnregister
  <2>1. Head(unregisterQ) \in Clients /\ Tail(unregisterQ) \in Seq(Clients)
    BY <1>2, HeadOfQueue DEF TakeUnregister, TypeOK
  <2>2. task' \in [Procs -> Tasks]
    BY <1>2, TakeUnregisterTask
  <2>3. phase' \in [Clients -> Phases]
    BY <1>a, <1>2, <2>1 DEF TakeUnregister
  <2>4. /\ visitors' \in [Visitors -> Clients \cup {None}]
        /\ agents' \in [Agents -> SUBSET Clients]
    <3>1. CASE IsVisitor(Head(unregisterQ))
      BY <1>b, <1>2, <2>1, <3>1 DEF TakeUnregister
    <3>2. CASE ~IsVisitor(Head(unregisterQ))
      BY <1>b, <1>2, <2>1, <3>2 DEF TakeUnregister
    <3> QED
      BY <3>1, <3>2
  <2> QED
    BY <1>2, <2>1, <2>2, <2>3, <2>4 DEF TakeUnregister, TypeOK
<1>3. CASE Greet
  <2>1. task[Loop].conn \in Clients
    BY <1>3, TaskHasConn DEF Greet, At, TypeOK
  <2>2. task' \in [Procs -> Tasks]
    BY <1>3, IdleTask DEF Greet, TypeOK
  <2> QED
    BY <1>3, <2>1, <2>2, SendMarks DEF Greet, TypeOK
<1>4. CASE Unhall
  <2>1. task' \in [Procs -> Tasks]
    BY <1>4, IdleTask DEF Unhall, TypeOK
  <2> QED
    BY <1>4, <2>1 DEF Unhall, TypeOK
<1>5. ASSUME NEW c \in Clients, Answer(c) PROVE TypeOK'
  BY <1>5, SendMarks DEF Answer, TypeOK
<1>6. ASSUME NEW c \in Clients, ClientStep(c) PROVE TypeOK'
  <2>1. CASE Admit(c)
    <3>1. bound' \in [Clients -> Convs \cup {None}]
      BY <1>a, <2>1 DEF Admit, IsVisitor
    <3>2. phase' \in [Clients -> Phases]
      BY <1>a, <2>1 DEF Admit
    <3> QED
      BY <2>1, <3>1, <3>2 DEF Admit, TypeOK
  <2>2. CASE Register(c)
    BY <2>2 DEF Register, TypeOK
  <2>3. CASE PumpFails(c)
    BY <2>3, CloseMarks DEF PumpFails, TypeOK
  <2>4. CASE WritePump(c)
    BY <2>4 DEF WritePump, TypeOK
  <2>5. CASE ReportClose(c)
    BY <2>5 DEF ReportClose, TypeOK
  <2>6. CASE HallCheck(c) \/ HallStore(c) \/ HallRecheck(c) \/ HallDrop(c)
    BY <2>6, ZenonT(30) DEF HallCheck, HallStore, HallRecheck, HallDrop, TypeOK
  <2> QED
    BY <1>6, <2>1, <2>2, <2>3, <2>4, <2>5, <2>6 DEF ClientStep
<1>7. ASSUME NEW p \in Procs, Start(p) PROVE TypeOK'
  <2>1. ASSUME NEW op \in JobKinds, NEW k \in Convs, NEW conns \in SUBSET Clients,
               Begin(p, op, k, conns)
        PROVE  TypeOK'
    <3>1. task' \in [Procs -> Tasks]
      BY <2>1, BeginTask, ZenonT(30)
    <3> QED
      BY <2>1, <3>1 DEF Begin, TypeOK
  <2>2. ASSUME NEW a \in Agents, Revoke(p, a) PROVE TypeOK'
    <3>1. task' \in [Procs -> Tasks]
      BY <2>2, RevokeTask
    <3> QED
      BY <2>2, <3>1 DEF Revoke, TypeOK
  <2>3. ASSUME NEW k \in Convs, StartFan(p, k) PROVE TypeOK'
    <3>1. byConv[k] \cup (IF p = Loop THEN {} ELSE UNION {agents[a] : a \in Agents})
             \in SUBSET Clients
      BY DEF TypeOK
    <3> QED
      BY <2>1, <2>3, <3>1 DEF StartFan
  <2>4. ASSUME NEW c \in Clients, NEW k \in Convs, StartRebind(p, c, k) PROVE TypeOK'
    <3>1. Begin(p, "rebind", k, {c})
      BY <2>4 DEF StartRebind
    <3> QED
      BY <2>1, <3>1
  <2>5. ASSUME NEW a \in Agents, NEW k \in Convs,
               StartAttachAll(p, a, k) \/ StartDetachOwner(p, a, k)
        PROVE  TypeOK'
    <3>1. agents[a] \in SUBSET Clients
      BY DEF TypeOK
    <3>2. Begin(p, "attach_all", k, agents[a]) \/ Begin(p, "detach_owner", k, agents[a])
      BY <2>5 DEF StartAttachAll, StartDetachOwner
    <3> QED
      BY <2>1, <3>1, <3>2
  <2> QED
    BY <1>7, <2>2, <2>3, <2>4, <2>5 DEF Start
<1>8. ASSUME NEW p \in Procs, LoadConnections(p) PROVE TypeOK'
  <2>1. task' \in [Procs -> Tasks]
    BY <1>8, LoadConnectionsTask
  <2> QED
    BY <1>8, <2>1 DEF LoadConnections, TypeOK
<1>9. ASSUME NEW p \in Procs, BindStep(p) PROVE TypeOK'
  <2>1. CASE ReadDetach(p)
    BY <2>1, ReadDetachTask DEF ReadDetach, TypeOK
  <2>2. CASE DeleteIndex(p)
    BY <2>2, DeleteIndexTask DEF DeleteIndex, TypeOK
  <2>3. CASE SetBinding(p)
    <3>1. task[p].conn \in Clients /\ task[p].conv \in Convs \cup {None}
      BY <2>3, TaskHasConn, TaskFields DEF SetBinding, At, TypeOK
    <3>2. task' \in [Procs -> Tasks]
      BY <2>3, SetBindingTask, ProceedTask DEF SetBinding, TypeOK
    <3> QED
      BY <2>3, <3>1, <3>2 DEF SetBinding, TypeOK
  <2>4. CASE ReadAttach(p)
    <3>1. task' \in [Procs -> Tasks]
      BY <2>4, ReadAttachTask, ProceedTask DEF ReadAttach, TypeOK
    <3> QED
      BY <2>4, <3>1 DEF ReadAttach, TypeOK
  <2>5. CASE StoreIndex(p)
    <3>1. task[p].conn \in Clients
      BY <2>5, TaskHasConn DEF StoreIndex, At, TypeOK
    <3>2. task' \in [Procs -> Tasks]
      BY <2>5, ProceedTask DEF StoreIndex, TypeOK
    <3> QED
      BY <2>5, <3>1, <3>2 DEF StoreIndex, TypeOK
  <2> QED
    BY <1>9, <2>1, <2>2, <2>3, <2>4, <2>5 DEF BindStep
<1>10. ASSUME NEW p \in Procs, NEW c \in Clients,
              PickBind(p, c) \/ PickSend(p, c) \/ PickClose(p, c)
       PROVE  TypeOK'
  <2>1. CASE PickBind(p, c)
    <3>1. task' \in [Procs -> Tasks]
      BY <2>1, PickBindTask, DropTask DEF PickBind, TypeOK
    <3> QED
      BY <2>1, <3>1 DEF PickBind, TypeOK
  <2>2. CASE PickSend(p, c)
    <3>1. task' \in [Procs -> Tasks]
      BY <2>2, DropTask DEF PickSend, TypeOK
    <3> QED
      BY <2>2, <3>1, SendMarks DEF PickSend, TypeOK
  <2>3. CASE PickClose(p, c)
    <3>1. task' \in [Procs -> Tasks]
      BY <2>3, DropTask DEF PickClose, TypeOK
    <3> QED
      BY <2>3, <3>1, CloseMarks DEF PickClose, TypeOK
  <2> QED
    BY <1>10, <2>1, <2>2, <2>3
<1>11. CASE UNCHANGED vars
  BY <1>11 DEF vars, TypeOK
<1> QED
  BY <1>1, <1>2, <1>3, <1>4, <1>5, <1>6, <1>7, <1>8, <1>9, <1>10, <1>11
     DEF Next, LoopStep, PickStep

-----------------------------------------------------------------------------
(* A connection whose pumps run never loses them to the past, and one that  *)
(* has departed does not come back.                                         *)
LEMMA PhaseGrows ==
  ASSUME TypeOK, Channels, [Next]_vars
  PROVE  \A c \in Clients : /\ Started(c) => Started(c)'
                            /\ phase[c] \in Departed => phase'[c] \in Departed
<1>1. CASE TakeRegister
  <2>1. /\ Head(registerQ) \in Clients
        /\ phase[Head(registerQ)] \in {"queued", "overtaken"}
    <3>1. registerQ \in Seq(Clients) /\ registerQ # <<>>
      BY <1>1 DEF TakeRegister, TypeOK
    <3> QED
      BY <3>1, HeadOfQueue DEF Channels
  <2> QED
    BY <1>1, <2>1 DEF TakeRegister, Started, TypeOK
<1>2. CASE TakeUnregister
  <2>1. /\ Head(unregisterQ) \in Clients
        /\ phase[Head(unregisterQ)] \in {"queued", "listed"}
    BY <1>2, HeadOfQueue DEF TakeUnregister, TypeOK, Channels
  <2> QED
    BY <1>2, <2>1 DEF TakeUnregister, Started, TypeOK
<1>3. ASSUME NEW c \in Clients, Admit(c) \/ Register(c)
      PROVE  \A d \in Clients : /\ Started(d) => Started(d)'
                                /\ phase[d] \in Departed => phase'[d] \in Departed
  BY <1>3 DEF Admit, Register, Started, TypeOK
<1>4. CASE UNCHANGED phase
  BY <1>4 DEF Started
<1>5. \/ TakeRegister \/ TakeUnregister \/ UNCHANGED phase
      \/ \E c \in Clients : Admit(c) \/ Register(c)
  <2>1. ASSUME NEW p \in Procs, Start(p) PROVE UNCHANGED phase
    BY <2>1 DEF Start, StartRebind, StartAttachAll, StartDetachOwner, StartFan,
                Begin, Revoke
  <2>2. ASSUME NEW p \in Procs, LoadConnections(p) \/ BindStep(p) \/ PickStep(p)
        PROVE  UNCHANGED phase
    BY <2>2 DEF LoadConnections, BindStep, ReadDetach, DeleteIndex, SetBinding,
                ReadAttach, StoreIndex, PickStep, PickBind, PickSend, PickClose
  <2>3. ASSUME NEW c \in Clients, ClientStep(c)
        PROVE  Admit(c) \/ Register(c) \/ UNCHANGED phase
    BY <2>3 DEF ClientStep, PumpFails, WritePump, ReportClose, HallCheck, HallStore,
                HallRecheck, HallDrop
  <2>4. CASE LoopStep
    BY <2>4 DEF LoopStep, Greet, Unhall, Answer
  <2> QED
    BY <2>1, <2>2, <2>3, <2>4 DEF Next, vars
<1> QED
  BY <1>1, <1>2, <1>3, <1>4, <1>5

(* The tasks keep to the connections the registry knows. *)
LEMMA TasksFitStep ==
  ASSUME TypeOK, Channels, TasksFit, MapsFit, [Next]_vars
  PROVE  TasksFit'
<1> DEFINE Fits(p) == TaskFits(task[p])
<1>a. \A c \in Clients : /\ Started(c) => Started(c)'
                         /\ phase[c] \in Departed => phase'[c] \in Departed
  BY PhaseGrows
<1>b. ASSUME NEW p \in Procs, task'[p] = task[p] PROVE Fits(p)'
  <2>1. task[p].conn \in Clients \cup {None} /\ task[p].todo \subseteq Clients
    BY TaskFields DEF TypeOK
  <2> QED
    BY <1>a, <1>b, <2>1 DEF TasksFit, TaskFits
<1>c. ASSUME NEW p \in Procs, task'[p] = Idle PROVE Fits(p)'
  BY <1>c, IdleTask DEF TaskFits
<1>d. ASSUME NEW p \in Procs,
             task'[p].op = task[p].op, task'[p].conn = task[p].conn,
             task'[p].todo \subseteq task[p].todo,
             task'[p].at # "load",
             task[p].conn # None,
             task[p].op # "unregister" \/ task'[p].at \in {"delete", "unhall"}
      PROVE  Fits(p)'
  <2>1. task[p].conn \in Clients \cup {None} /\ task[p].todo \subseteq Clients
    BY TaskFields DEF TypeOK
  <2> QED
    BY <1>a, <1>d, <2>1 DEF TasksFit, TaskFits
<1>1. CASE TakeRegister
  <2>1. /\ Head(registerQ) \in Clients
        /\ phase'[Head(registerQ)] \in {"listed", "ghost"}
    <3>1. registerQ \in Seq(Clients) /\ registerQ # <<>>
      BY <1>1 DEF TakeRegister, TypeOK
    <3> QED
      BY <1>1, <3>1, HeadOfQueue DEF TakeRegister, TypeOK
  <2>2. Fits(Loop)'
    BY <1>1, <2>1, TakeRegisterTask DEF TaskFits, Started
  <2> QED
    BY <1>1, <1>b, <2>2, TakeRegisterTask DEF TasksFit
<1>2. CASE TakeUnregister
  <2>1. /\ Head(unregisterQ) \in Clients
        /\ phase'[Head(unregisterQ)] \in {"overtaken", "gone"}
    <3>1. unregisterQ \in Seq(Clients) /\ unregisterQ # <<>>
      BY <1>2 DEF TakeUnregister, TypeOK
    <3> QED
      BY <1>2, <3>1, HeadOfQueue DEF TakeUnregister, TypeOK
  <2>2. Fits(Loop)'
    BY <1>2, <2>1, TakeUnregisterTask DEF TaskFits, Started
  <2> QED
    BY <1>2, <1>b, <2>2, TakeUnregisterTask DEF TasksFit
<1>3. CASE Greet \/ Unhall
  <2>1. task'[Loop] = Idle /\ \A p \in Procs : p # Loop => task'[p] = task[p]
    BY <1>3 DEF Greet, Unhall, TypeOK
  <2> QED
    BY <1>b, <1>c, <2>1 DEF TasksFit
<1>4. CASE UNCHANGED task
  BY <1>4, <1>b DEF TasksFit
<1>5. ASSUME NEW p \in Procs, Start(p) PROVE TasksFit'
  <2>1. ASSUME NEW op \in JobKinds, NEW k \in Convs, NEW conns \in SUBSET Clients,
               Begin(p, op, k, conns), \A c \in conns : Started(c)
        PROVE  TasksFit'
    <3>1. Fits(p)'
      BY <1>a, <2>1, BeginTask DEF TaskFits
    <3> QED
      BY <1>b, <2>1, <3>1, BeginTask DEF TasksFit
  <2>2. ASSUME NEW a \in Agents, Revoke(p, a) PROVE TasksFit'
    <3>1. Fits(p)'
      BY <2>2, RevokeTask DEF TaskFits
    <3> QED
      BY <1>b, <2>2, <3>1, RevokeTask DEF TasksFit
  <2>3. \A a \in Agents : /\ agents[a] \in SUBSET Clients
                          /\ \A c \in agents[a] : Started(c)
    BY DEF TypeOK, MapsFit
  <2>4. ASSUME NEW k \in Convs, StartFan(p, k) PROVE TasksFit'
    <3> DEFINE conns == byConv[k] \cup
                        (IF p = Loop THEN {} ELSE UNION {agents[a] : a \in Agents})
    <3>1. conns \in SUBSET Clients /\ \A c \in conns : Started(c)
      BY <2>3 DEF TypeOK, MapsFit
    <3>2. Begin(p, "fan", k, conns)
      BY <2>4 DEF StartFan
    <3> QED
      BY <2>1, <3>1, <3>2
  <2>5. ASSUME NEW c \in Clients, NEW k \in Convs, StartRebind(p, c, k) PROVE TasksFit'
    <3>1. Begin(p, "rebind", k, {c}) /\ Started(c)
      <4>1. CASE IsVisitor(c)
        BY <2>5, <4>1 DEF StartRebind
      <4>2. CASE ~IsVisitor(c)
        BY <2>3, <2>5, <4>2 DEF StartRebind, IsVisitor
      <4> QED
        BY <4>1, <4>2
    <3> QED
      BY <2>1, <3>1
  <2>6. ASSUME NEW a \in Agents, NEW k \in Convs,
               StartAttachAll(p, a, k) \/ StartDetachOwner(p, a, k)
        PROVE  TasksFit'
    <3>1. Begin(p, "attach_all", k, agents[a]) \/ Begin(p, "detach_owner", k, agents[a])
      BY <2>6 DEF StartAttachAll, StartDetachOwner
    <3> QED
      BY <2>1, <2>3, <3>1
  <2> QED
    BY <1>5, <2>2, <2>4, <2>5, <2>6 DEF Start
<1>6. ASSUME NEW p \in Procs, LoadConnections(p) PROVE TasksFit'
  <2>1. task[p].op # "unregister"
    BY <1>6 DEF LoadConnections, At, TasksFit, TaskFits
  <2>2. Fits(p)'
    <3>1. CASE task'[p] = Idle
      BY <1>c, <3>1
    <3>2. ASSUME NEW a \in Agents,
                 task'[p].op = task[p].op, task'[p].conn = task[p].conn,
                 task'[p].at = "pick", task'[p].todo = agents[a]
          PROVE  Fits(p)'
      <4>1. task[p].conn \in Clients \cup {None} /\ agents[a] \subseteq Clients
        BY TaskFields DEF TypeOK
      <4> QED
        BY <1>a, <2>1, <3>2, <4>1 DEF TasksFit, TaskFits, MapsFit
    <3> QED
      BY <1>6, <3>1, <3>2, LoadConnectionsTask
  <2> QED
    BY <1>6, <1>b, <2>2, LoadConnectionsTask DEF TasksFit
<1>7. ASSUME NEW p \in Procs, BindStep(p) PROVE TasksFit'
  <2>1. task[p].conn \in Clients /\ task[p].conn # None
    BY <1>7, TaskHasConn DEF BindStep, ReadDetach, DeleteIndex, SetBinding,
       ReadAttach, StoreIndex, At
  <2>2. ASSUME Proceed(p), task[p].op # "unregister" PROVE TasksFit'
    <3>1. Fits(p)'
      <4>1. task[p].todo \subseteq Clients
        BY TaskFields DEF TypeOK
      <4> QED
        BY <1>a, <1>c, <2>1, <2>2, <4>1, ProceedTask DEF TasksFit, TaskFits
    <3> QED
      BY <1>b, <2>2, <3>1, ProceedTask DEF TasksFit
  <2>3. CASE ReadDetach(p)
    <3>1. Fits(p)'
      BY <1>d, <2>1, <2>3, ReadDetachTask DEF AfterDetach
    <3> QED
      BY <1>b, <2>3, <3>1, ReadDetachTask DEF TasksFit
  <2>4. CASE DeleteIndex(p)
    <3>1. Fits(p)'
      BY <1>d, <2>1, <2>4, DeleteIndexTask DEF AfterDetach
    <3> QED
      BY <1>b, <2>4, <3>1, DeleteIndexTask DEF TasksFit
  <2>5. CASE SetBinding(p)
    <3>1. task[p].op # "unregister"
      BY <2>5 DEF SetBinding, At, TasksFit, TaskFits
    <3>2. CASE task[p].op = "detach_owner"
      BY <2>2, <2>5, <3>1, <3>2 DEF SetBinding
    <3>3. CASE task[p].op # "detach_owner"
      <4>1. Fits(p)'
        BY <1>d, <2>1, <2>5, <3>1, <3>3, SetBindingTask
      <4> QED
        BY <1>b, <2>5, <3>3, <4>1, SetBindingTask DEF TasksFit
    <3> QED
      BY <3>2, <3>3
  <2>6. CASE ReadAttach(p)
    <3>1. task[p].op # "unregister"
      BY <2>6 DEF ReadAttach, At, TasksFit, TaskFits
    <3>2. CASE bound[task[p].conn] = None
      BY <2>2, <2>6, <3>1, <3>2 DEF ReadAttach
    <3>3. CASE bound[task[p].conn] # None
      <4>1. Fits(p)'
        BY <1>d, <2>1, <2>6, <3>1, <3>3, ReadAttachTask
      <4> QED
        BY <1>b, <2>6, <3>3, <4>1, ReadAttachTask DEF TasksFit
    <3> QED
      BY <3>2, <3>3
  <2>7. CASE StoreIndex(p)
    <3>1. task[p].op # "unregister"
      BY <2>7 DEF StoreIndex, At, TasksFit, TaskFits
    <3> QED
      BY <2>2, <2>7, <3>1 DEF StoreIndex
  <2> QED
    BY <1>7, <2>3, <2>4, <2>5, <2>6, <2>7 DEF BindStep
<1>8. ASSUME NEW p \in Procs, NEW c \in Clients,
             PickBind(p, c) \/ PickSend(p, c) \/ PickClose(p, c)
      PROVE  TasksFit'
  <2>1. /\ task[p].at = "pick" /\ c \in task[p].todo
        /\ task[p].op # "unregister"
        /\ task[p].todo \subseteq Clients /\ task[p].conn \in Clients \cup {None}
    BY <1>8, TaskFields DEF PickBind, PickSend, PickClose, At, TasksFit, TaskFits, TypeOK
  <2>2. ASSUME Drop(p, c) PROVE TasksFit'
    <3>1. Fits(p)'
      BY <1>a, <1>c, <2>1, <2>2, DropTask DEF TasksFit, TaskFits
    <3> QED
      BY <1>b, <2>2, <3>1, DropTask DEF TasksFit
  <2>3. ASSUME PickBind(p, c), ~Skips(task[p].op, c, task[p].conv) PROVE TasksFit'
    <3>1. Fits(p)'
      BY <1>a, <2>1, <2>3, PickBindTask DEF TasksFit, TaskFits
    <3> QED
      BY <1>b, <2>3, <3>1, PickBindTask DEF TasksFit
  <2> QED
    BY <1>8, <2>2, <2>3 DEF PickBind, PickSend, PickClose
<1>9. ASSUME NEW c \in Clients, ClientStep(c) \/ Answer(c) PROVE UNCHANGED task
  BY <1>9 DEF ClientStep, Admit, Register, PumpFails, WritePump, ReportClose,
     HallCheck, HallStore, HallRecheck, HallDrop, Answer
<1> QED
  BY <1>1, <1>2, <1>3, <1>4, <1>5, <1>6, <1>7, <1>8, <1>9
     DEF Next, LoopStep, PickStep, vars

-----------------------------------------------------------------------------
(* Joining a queue and leaving it keep every connection in it once. *)
LEMMA JoinedOnce ==
  ASSUME NEW q \in Seq(Clients), NEW c \in Clients,
         OnceEach(q), \A i \in 1..Len(q) : q[i] # c
  PROVE  /\ OnceEach(Append(q, c))
         /\ \A i \in 1..Len(Append(q, c)) :
               \/ Append(q, c)[i] = c
               \/ i \in 1..Len(q) /\ Append(q, c)[i] = q[i]
<1>1. /\ Len(Append(q, c)) = Len(q) + 1
      /\ \A i \in 1..Len(q) : Append(q, c)[i] = q[i]
      /\ Append(q, c)[Len(q) + 1] = c
  OBVIOUS
<1>2. \A i \in 1..Len(q) + 1 : i \in 1..Len(q) \/ i = Len(q) + 1
  OBVIOUS
<1>3. OnceEach(Append(q, c))
  <2> SUFFICES ASSUME NEW i \in 1..Len(q) + 1, NEW j \in 1..Len(q) + 1,
                      Append(q, c)[i] = Append(q, c)[j]
               PROVE  i = j
    BY <1>1 DEF OnceEach
  <2>1. CASE i \in 1..Len(q) /\ j \in 1..Len(q)
    BY <1>1, <2>1 DEF OnceEach
  <2>2. CASE i = Len(q) + 1 /\ j \in 1..Len(q)
    BY <1>1, <2>2
  <2>3. CASE i \in 1..Len(q) /\ j = Len(q) + 1
    BY <1>1, <2>3
  <2> QED
    BY <1>2, <2>1, <2>2, <2>3
<1>4. \A i \in 1..Len(Append(q, c)) :
         \/ Append(q, c)[i] = c
         \/ i \in 1..Len(q) /\ Append(q, c)[i] = q[i]
  BY <1>1, <1>2
<1> QED
  BY <1>3, <1>4

LEMMA LeftOnce ==
  ASSUME NEW q \in Seq(Clients), q # <<>>, OnceEach(q)
  PROVE  /\ OnceEach(Tail(q))
         /\ \A i \in 1..Len(Tail(q)) : \E j \in 1..Len(q) :
               Tail(q)[i] = q[j] /\ q[j] # Head(q)
<1>1. \A i \in 1..Len(Tail(q)) : Tail(q)[i] = q[i + 1] /\ i + 1 \in 1..Len(q)
  BY HeadOfQueue
<1>2. Head(q) = q[1] /\ 1 \in 1..Len(q)
  BY HeadOfQueue
<1>3. \A i \in 1..Len(Tail(q)) : q[i + 1] # Head(q)
  BY <1>1, <1>2 DEF OnceEach
<1>4. OnceEach(Tail(q))
  BY <1>1 DEF OnceEach
<1> QED
  BY <1>1, <1>3, <1>4

(* A connection reports its close once, and departs after its report. *)
LEMMA ChannelsStep ==
  ASSUME TypeOK, Channels, TasksFit, [Next]_vars
  PROVE  Channels'
<1> USE DEF Open, Started, queues
<1>a. /\ registerQ \in Seq(Clients) /\ unregisterQ \in Seq(Clients)
      /\ \A i \in 1..Len(registerQ) : registerQ[i] \in Clients
      /\ \A i \in 1..Len(unregisterQ) : unregisterQ[i] \in Clients
  BY DEF TypeOK
<1>b. phase \in [Clients -> Phases] /\ closeAt \in [Clients -> Marks \cup Procs]
  BY DEF TypeOK
<1>1. ASSUME NEW c \in Clients, Started(c), NEW p,
             \A d \in Clients : \/ closeAt'[d] = closeAt[d]
                                \/ d = c /\ closeAt[d] = "open" /\ closeAt'[d] = p,
             UNCHANGED <<phase, queues>>
      PROVE  Channels'
  BY <1>a, <1>1 DEF Channels
<1>2. CASE TakeRegister
  <2> DEFINE c == Head(registerQ)
  <2>1. registerQ # <<>> /\ c \in Clients /\ phase[c] \in {"queued", "overtaken"}
    BY <1>2, <1>a, HeadOfQueue DEF TakeRegister, Channels
  <2>2. /\ \A d \in Clients : d # c => phase'[d] = phase[d]
        /\ phase'[c] = IF phase[c] = "overtaken" THEN "ghost" ELSE "listed"
        /\ UNCHANGED <<closeAt, unregisterQ>> /\ registerQ' = Tail(registerQ)
    BY <1>2, <1>b, <2>1 DEF TakeRegister
  <2>3. /\ OnceEach(registerQ')
        /\ \A i \in 1..Len(registerQ') :
              \E j \in 1..Len(registerQ) : registerQ'[i] = registerQ[j] /\ registerQ[j] # c
    BY <1>a, <2>1, <2>2, LeftOnce DEF Channels
  <2>4. \A i \in 1..Len(registerQ') : phase'[registerQ'[i]] \in {"queued", "overtaken"}
    BY <1>a, <2>2, <2>3 DEF Channels
  <2>5. \A i \in 1..Len(unregisterQ) : /\ closeAt[unregisterQ[i]] = "sent"
                                       /\ phase'[unregisterQ[i]] \in {"queued", "listed"}
    BY <1>a, <2>1, <2>2 DEF Channels
  <2> QED
    BY <2>1, <2>2, <2>3, <2>4, <2>5 DEF Channels
<1>3. CASE TakeUnregister
  <2> DEFINE c == Head(unregisterQ)
  <2>1. /\ unregisterQ # <<>> /\ c \in Clients
        /\ phase[c] \in {"queued", "listed"} /\ closeAt[c] = "sent"
    BY <1>3, <1>a, HeadOfQueue DEF TakeUnregister, Channels
  <2>2. /\ \A d \in Clients : d # c => phase'[d] = phase[d]
        /\ phase'[c] = IF phase[c] = "queued" THEN "overtaken" ELSE "gone"
        /\ UNCHANGED <<closeAt, registerQ>> /\ unregisterQ' = Tail(unregisterQ)
    BY <1>3, <1>b, <2>1 DEF TakeUnregister
  <2>3. /\ OnceEach(unregisterQ')
        /\ \A i \in 1..Len(unregisterQ') :
              \E j \in 1..Len(unregisterQ) :
                 unregisterQ'[i] = unregisterQ[j] /\ unregisterQ[j] # c
    BY <1>a, <2>1, <2>2, LeftOnce DEF Channels
  <2>4. \A i \in 1..Len(registerQ) : phase'[registerQ[i]] \in {"queued", "overtaken"}
    BY <1>a, <2>1, <2>2 DEF Channels
  <2>5. \A i \in 1..Len(unregisterQ') : /\ closeAt[unregisterQ'[i]] = "sent"
                                        /\ phase'[unregisterQ'[i]] \in {"queued", "listed"}
    BY <1>a, <2>2, <2>3 DEF Channels
  <2> QED
    BY <2>1, <2>2, <2>3, <2>4, <2>5 DEF Channels
<1>4. ASSUME NEW c \in Clients, Admit(c) PROVE Channels'
  <2>1. /\ \A d \in Clients : d # c => phase'[d] = phase[d]
        /\ phase[c] = "new" /\ phase'[c] = "admitted"
        /\ UNCHANGED <<closeAt, registerQ, unregisterQ>>
    BY <1>4, <1>b DEF Admit
  <2> QED
    BY <1>a, <2>1 DEF Channels
<1>5. ASSUME NEW c \in Clients, Register(c) PROVE Channels'
  <2>1. /\ \A d \in Clients : d # c => phase'[d] = phase[d]
        /\ phase[c] = "admitted" /\ phase'[c] = "queued"
        /\ UNCHANGED <<closeAt, unregisterQ>> /\ registerQ' = Append(registerQ, c)
    BY <1>5, <1>b DEF Register
  <2>2. \A i \in 1..Len(registerQ) : registerQ[i] # c
    BY <2>1 DEF Channels
  <2>3. /\ OnceEach(registerQ')
        /\ \A i \in 1..Len(registerQ') :
              \/ registerQ'[i] = c
              \/ i \in 1..Len(registerQ) /\ registerQ'[i] = registerQ[i]
    BY <1>a, <2>1, <2>2, JoinedOnce DEF Channels
  <2>4. \A i \in 1..Len(registerQ') : phase'[registerQ'[i]] \in {"queued", "overtaken"}
    BY <1>a, <2>1, <2>3 DEF Channels
  <2>5. \A i \in 1..Len(unregisterQ) : /\ closeAt[unregisterQ[i]] = "sent"
                                       /\ phase'[unregisterQ[i]] \in {"queued", "listed"}
    BY <1>a, <2>1 DEF Channels
  <2>6. \A d \in Clients : /\ closeAt[d] # "open" => phase'[d] \notin {"new", "admitted"}
                          /\ phase'[d] \in Departed => closeAt[d] = "sent"
    BY <2>1 DEF Channels
  <2> QED
    BY <2>1, <2>3, <2>4, <2>5, <2>6 DEF Channels
<1>6. ASSUME NEW c \in Clients, ReportClose(c) PROVE Channels'
  <2>1. /\ \A d \in Clients : d # c => closeAt'[d] = closeAt[d]
        /\ closeAt[c] \notin {"open", "sent"} /\ closeAt'[c] = "sent"
        /\ UNCHANGED <<phase, registerQ>> /\ unregisterQ' = Append(unregisterQ, c)
    BY <1>6, <1>b DEF ReportClose
  <2>2. \A i \in 1..Len(unregisterQ) : unregisterQ[i] # c
    BY <2>1 DEF Channels
  <2>3. /\ OnceEach(unregisterQ')
        /\ \A i \in 1..Len(unregisterQ') :
              \/ unregisterQ'[i] = c
              \/ i \in 1..Len(unregisterQ) /\ unregisterQ'[i] = unregisterQ[i]
    BY <1>a, <2>1, <2>2, JoinedOnce DEF Channels
  <2>4. phase[c] \in {"queued", "listed"}
    BY <1>b, <2>1 DEF Channels
  <2>5. \A i \in 1..Len(unregisterQ') : /\ closeAt'[unregisterQ'[i]] = "sent"
                                        /\ phase[unregisterQ'[i]] \in {"queued", "listed"}
    BY <1>a, <2>1, <2>3, <2>4 DEF Channels
  <2> QED
    BY <1>a, <2>1, <2>3, <2>5 DEF Channels
<1>7. ASSUME NEW c \in Clients, PumpFails(c) PROVE Channels'
  BY <1>1, <1>7, CloseMarks DEF PumpFails
<1>8. ASSUME NEW c \in Clients, Answer(c) PROVE Channels'
  BY <1>1, <1>8, SendMarks DEF Answer
<1>9. CASE Greet
  <2>1. task[Loop].conn \in Clients /\ Started(task[Loop].conn)
    BY <1>9, TaskHasConn DEF Greet, At
  <2> QED
    BY <1>1, <1>9, <2>1, SendMarks, SMTT(30) DEF Greet
<1>10. ASSUME NEW p \in Procs, NEW c \in Clients, PickSend(p, c) \/ PickClose(p, c)
       PROVE  Channels'
  <2>1. Started(c)
    BY <1>10 DEF PickSend, PickClose, TasksFit, TaskFits
  <2> QED
    BY <1>1, <1>10, <2>1, SendMarks, CloseMarks DEF PickSend, PickClose
<1>11. CASE UNCHANGED <<phase, closeAt, registerQ, unregisterQ>>
  BY <1>11 DEF Channels
<1>12. ASSUME NEW p \in Procs, Start(p) \/ LoadConnections(p) \/ BindStep(p)
       PROVE  UNCHANGED <<phase, closeAt, registerQ, unregisterQ>>
  BY <1>12 DEF Start, StartRebind, StartAttachAll, StartDetachOwner, StartFan, Begin,
     Revoke, LoadConnections, BindStep, ReadDetach, DeleteIndex, SetBinding,
     ReadAttach, StoreIndex
<1>13. ASSUME NEW p \in Procs, NEW c \in Clients, PickBind(p, c)
       PROVE  UNCHANGED <<phase, closeAt, registerQ, unregisterQ>>
  BY <1>13 DEF PickBind
<1>14. ASSUME NEW c \in Clients, ClientStep(c)
       PROVE  \/ Admit(c) \/ Register(c) \/ PumpFails(c) \/ ReportClose(c)
              \/ UNCHANGED <<phase, closeAt, registerQ, unregisterQ>>
  BY <1>14 DEF ClientStep, WritePump, HallCheck, HallStore, HallRecheck, HallDrop
<1>15. Unhall => UNCHANGED <<phase, closeAt, registerQ, unregisterQ>>
  BY DEF Unhall
<1> QED
  BY <1>2, <1>3, <1>4, <1>5, <1>6, <1>7, <1>8, <1>9, <1>10, <1>11, <1>12, <1>13,
     <1>14, <1>15 DEF Next, LoopStep, PickStep, vars

-----------------------------------------------------------------------------
(* Only Loop's handlers list a connection, only five steps move one through *)
(* its phases, and only detachConv and attachConv write the index.          *)
LEMMA OtherSteps ==
  ASSUME [Next]_vars
  PROVE  /\ TakeRegister \/ TakeUnregister \/ UNCHANGED listing
         /\ \/ TakeRegister \/ TakeUnregister
            \/ \E c \in Clients : Admit(c) \/ Register(c)
            \/ UNCHANGED <<phase, listing>>
         /\ \/ TakeRegister \/ TakeUnregister
            \/ \E p \in Procs : DeleteIndex(p) \/ StoreIndex(p)
            \/ UNCHANGED <<listing, byConv>>
<1> USE DEF listing, hall, queues
<1>1. ASSUME NEW p \in Procs, Start(p) PROVE UNCHANGED <<phase, listing, byConv>>
  BY <1>1 DEF Start, StartRebind, StartAttachAll, StartDetachOwner, StartFan, Begin,
     Revoke
<1>2. ASSUME NEW p \in Procs, LoadConnections(p) \/ PickStep(p)
      PROVE  UNCHANGED <<phase, listing, byConv>>
  BY <1>2 DEF LoadConnections, PickStep, PickBind, PickSend, PickClose
<1>3. ASSUME NEW p \in Procs, BindStep(p)
      PROVE  /\ UNCHANGED <<phase, listing>>
             /\ DeleteIndex(p) \/ StoreIndex(p) \/ UNCHANGED byConv
  BY <1>3 DEF BindStep, ReadDetach, DeleteIndex, SetBinding, ReadAttach, StoreIndex
<1>4. ASSUME NEW c \in Clients, ClientStep(c)
      PROVE  /\ UNCHANGED <<listing, byConv>>
             /\ Admit(c) \/ Register(c) \/ UNCHANGED phase
  BY <1>4 DEF ClientStep, Admit, Register, PumpFails, WritePump, ReportClose,
     HallCheck, HallStore, HallRecheck, HallDrop
<1>5. CASE LoopStep
  BY <1>5 DEF LoopStep, Greet, Unhall, Answer
<1>6. CASE UNCHANGED vars
  BY <1>6 DEF vars
<1> QED
  BY <1>1, <1>2, <1>3, <1>4, <1>5, <1>6 DEF Next

-----------------------------------------------------------------------------
(* A step that lists nobody anew keeps the maps in order. *)
LEMMA MapsFitStep ==
  ASSUME TypeOK, Channels, TasksFit, MapsFit, [Next]_vars
  PROVE  MapsFit'
<1> USE DEF listing
<1>a. \A c \in Clients : Started(c) => Started(c)'
  BY PhaseGrows
<1>b. /\ visitors \in [Visitors -> Clients \cup {None}]
      /\ newest \in [Visitors -> Clients \cup {None}]
      /\ agents \in [Agents -> SUBSET Clients]
      /\ byConv \in [Convs -> SUBSET Clients]
      /\ phase \in [Clients -> Phases]
      /\ Account \in [Clients -> Visitors \cup Agents]
  BY DEF TypeOK
<1>c. ASSUME UNCHANGED byConv PROVE \A k \in Convs : \A c \in byConv'[k] : Started(c)'
  BY <1>a, <1>b, <1>c DEF MapsFit
<1>d. ASSUME UNCHANGED agents
      PROVE  \A a \in Agents : \A c \in agents'[a] : Account[c] = a /\ Started(c)'
  BY <1>a, <1>b, <1>d DEF MapsFit
<1>1. CASE TakeRegister
  <2> DEFINE c == Head(registerQ)
  <2>1. /\ c \in Clients
        /\ phase[c] \in {"queued", "overtaken"}
    <3>1. registerQ \in Seq(Clients) /\ registerQ # <<>>
      BY <1>1 DEF TakeRegister, TypeOK
    <3> QED
      BY <3>1, HeadOfQueue DEF Channels
  <2>2. Started(c)
    BY <2>1 DEF Started
  <2>3. CASE IsVisitor(c)
    <3>1. /\ visitors' = [visitors EXCEPT ![Account[c]] = c]
          /\ newest' = [newest EXCEPT ![Account[c]] = c]
          /\ UNCHANGED <<agents, byConv>>
      BY <1>1, <2>3 DEF TakeRegister
    <3> QED
      BY <1>b, <1>c, <1>d, <3>1 DEF MapsFit
  <2>4. CASE ~IsVisitor(c)
    <3>1. /\ agents' = [agents EXCEPT ![Account[c]] = @ \cup {c}]
          /\ UNCHANGED <<visitors, newest, byConv>>
      BY <1>1, <2>4 DEF TakeRegister
    <3>2. \A a \in Agents : \A d \in agents'[a] : Account[d] = a /\ Started(d)'
      BY <1>a, <1>b, <2>1, <2>2, <3>1 DEF MapsFit
    <3> QED
      BY <1>c, <3>1, <3>2 DEF MapsFit
  <2> QED
    BY <2>3, <2>4
<1>2. CASE TakeUnregister
  <2> DEFINE c == Head(unregisterQ)
  <2>1. CASE IsVisitor(c)
    <3>1. /\ visitors' = [visitors EXCEPT ![Account[c]] = IF @ = c THEN None ELSE @]
          /\ UNCHANGED <<newest, agents, byConv>>
      BY <1>2, <2>1 DEF TakeUnregister
    <3>2. \A v \in Visitors : visitors'[v] \in {visitors[v], None}
      BY <1>b, <3>1
    <3> QED
      BY <1>c, <1>d, <3>1, <3>2 DEF MapsFit
  <2>2. CASE ~IsVisitor(c)
    <3>1. /\ agents' = [agents EXCEPT ![Account[c]] = @ \ {c}]
          /\ UNCHANGED <<visitors, newest, byConv>>
      BY <1>2, <2>2 DEF TakeUnregister
    <3>2. \A a \in Agents : agents'[a] \subseteq agents[a]
      BY <1>b, <3>1
    <3>3. \A a \in Agents : \A d \in agents'[a] : Account[d] = a /\ Started(d)'
      BY <1>a, <1>b, <3>2 DEF MapsFit
    <3> QED
      BY <1>c, <3>1, <3>3 DEF MapsFit
  <2> QED
    BY <2>1, <2>2
<1>3. ASSUME NEW p \in Procs, StoreIndex(p) PROVE MapsFit'
  <2>1. task[p].conn \in Clients /\ Started(task[p].conn)
    BY <1>3, TaskHasConn DEF StoreIndex, At
  <2>2. /\ byConv' = [byConv EXCEPT ![task[p].key] = @ \cup {task[p].conn}]
        /\ UNCHANGED listing
    BY <1>3 DEF StoreIndex
  <2>3. \A k \in Convs : \A c \in byConv'[k] : Started(c)'
    BY <1>a, <1>b, <2>1, <2>2 DEF MapsFit
  <2> QED
    BY <1>d, <2>2, <2>3 DEF MapsFit
<1>4. ASSUME NEW p \in Procs, DeleteIndex(p) PROVE MapsFit'
  <2>1. /\ byConv' = [byConv EXCEPT ![task[p].key] = @ \ {task[p].conn}]
        /\ UNCHANGED listing
    BY <1>4 DEF DeleteIndex
  <2>2. \A k \in Convs : byConv'[k] \subseteq byConv[k]
    BY <1>b, <2>1
  <2>3. \A k \in Convs : \A c \in byConv'[k] : Started(c)'
    BY <1>a, <1>b, <2>2 DEF MapsFit
  <2> QED
    BY <1>d, <2>1, <2>3 DEF MapsFit
<1>5. CASE UNCHANGED <<listing, byConv>>
  BY <1>c, <1>d, <1>5 DEF MapsFit
<1> QED
  BY <1>1, <1>2, <1>3, <1>4, <1>5, OtherSteps

(* A visitor's newest connection and every agent's connection stay listed. *)
LEMMA LiveIsListedStep ==
  ASSUME TypeOK, Channels, TasksFit, MapsFit, LiveIsListed, [Next]_vars
  PROVE  LiveIsListed'
<1> USE DEF listing
<1>b. /\ visitors \in [Visitors -> Clients \cup {None}]
      /\ newest \in [Visitors -> Clients \cup {None}]
      /\ agents \in [Agents -> SUBSET Clients]
      /\ phase \in [Clients -> Phases]
      /\ Account \in [Clients -> Visitors \cup Agents]
  BY DEF TypeOK
<1>1. CASE TakeRegister
  <2> DEFINE c == Head(registerQ)
  <2>1. /\ c \in Clients
        /\ phase[c] \in {"queued", "overtaken"}
        /\ \A d \in Clients : d # c => phase'[d] = phase[d]
    <3>1. registerQ \in Seq(Clients) /\ registerQ # <<>>
      BY <1>1 DEF TakeRegister, TypeOK
    <3> QED
      BY <1>1, <1>b, <3>1, HeadOfQueue DEF Channels, TakeRegister
  <2>2. CASE IsVisitor(c)
    <3>1. /\ visitors' = [visitors EXCEPT ![Account[c]] = c]
          /\ newest' = [newest EXCEPT ![Account[c]] = c]
          /\ UNCHANGED agents
      BY <1>1, <2>2 DEF TakeRegister
    <3>2. \A v \in Visitors : newest'[v] # None /\ phase'[newest'[v]] = "listed"
                                 => visitors'[v] = newest'[v]
      <4> SUFFICES ASSUME NEW v \in Visitors, newest'[v] # None,
                          phase'[newest'[v]] = "listed"
                   PROVE  visitors'[v] = newest'[v]
        OBVIOUS
      <4>1. CASE v = Account[c]
        BY <1>b, <3>1, <4>1
      <4>2. CASE v # Account[c]
        <5>1. newest'[v] = newest[v] /\ visitors'[v] = visitors[v]
          BY <1>b, <3>1, <4>2
        <5>2. newest[v] # c /\ newest[v] \in Clients
          BY <1>b, <4>2, <5>1 DEF MapsFit
        <5> QED
          BY <2>1, <5>1, <5>2 DEF LiveIsListed
      <4> QED
        BY <4>1, <4>2
    <3>3. \A d \in Clients : ~IsVisitor(d) /\ phase'[d] = "listed" => d \in agents'[Account[d]]
      BY <2>1, <2>2, <3>1 DEF LiveIsListed
    <3> QED
      BY <3>2, <3>3 DEF LiveIsListed, IsVisitor
  <2>3. CASE ~IsVisitor(c)
    <3>1. /\ agents' = [agents EXCEPT ![Account[c]] = @ \cup {c}]
          /\ UNCHANGED <<visitors, newest>>
      BY <1>1, <2>3 DEF TakeRegister
    <3>2. \A v \in Visitors : newest[v] # None => newest[v] \in Clients /\ newest[v] # c
      BY <1>b, <2>3 DEF MapsFit, IsVisitor
    <3>3. \A v \in Visitors : newest[v] # None /\ phase'[newest[v]] = "listed"
                                 => visitors[v] = newest[v]
      BY <2>1, <3>2 DEF LiveIsListed
    <3>4. \A d \in Clients : ~IsVisitor(d) /\ phase'[d] = "listed" => d \in agents'[Account[d]]
      <4>1. \A d \in Clients : ~IsVisitor(d) => Account[d] \in Agents
        BY <1>b DEF IsVisitor
      <4>2. \A a \in Agents : agents[a] \subseteq agents'[a]
        BY <1>b, <3>1
      <4>3. c \in agents'[Account[c]]
        BY <1>b, <2>1, <2>3, <3>1, <4>1
      <4> QED
        BY <2>1, <4>1, <4>2, <4>3 DEF LiveIsListed
    <3> QED
      BY <3>1, <3>3, <3>4 DEF LiveIsListed, IsVisitor
  <2> QED
    BY <2>2, <2>3
<1>2. CASE TakeUnregister
  <2> DEFINE c == Head(unregisterQ)
  <2>1. /\ c \in Clients
        /\ phase'[c] # "listed"
        /\ \A d \in Clients : d # c => phase'[d] = phase[d]
    <3>1. unregisterQ \in Seq(Clients) /\ unregisterQ # <<>>
      BY <1>2 DEF TakeUnregister, TypeOK
    <3> QED
      BY <1>2, <1>b, <3>1, HeadOfQueue DEF Channels, TakeUnregister
  <2>2. CASE IsVisitor(c)
    <3>1. /\ visitors' = [visitors EXCEPT ![Account[c]] = IF @ = c THEN None ELSE @]
          /\ UNCHANGED <<newest, agents>>
      BY <1>2, <2>2 DEF TakeUnregister
    <3>2. \A v \in Visitors : visitors'[v] = visitors[v] \/ visitors[v] = c
      BY <1>b, <3>1
    <3>3. \A v \in Visitors : newest[v] # None /\ phase'[newest[v]] = "listed"
                                 => visitors'[v] = newest[v]
      BY <1>b, <2>1, <3>2 DEF LiveIsListed
    <3>4. \A d \in Clients : ~IsVisitor(d) /\ phase'[d] = "listed" => d \in agents[Account[d]]
      BY <2>1 DEF LiveIsListed
    <3> QED
      BY <3>1, <3>3, <3>4 DEF LiveIsListed, IsVisitor
  <2>3. CASE ~IsVisitor(c)
    <3>1. /\ agents' = [agents EXCEPT ![Account[c]] = @ \ {c}]
          /\ UNCHANGED <<visitors, newest>>
      BY <1>2, <2>3 DEF TakeUnregister
    <3>2. \A v \in Visitors : newest[v] # None /\ phase'[newest[v]] = "listed"
                                 => visitors[v] = newest[v]
      BY <1>b, <2>1 DEF LiveIsListed
    <3>3. \A d \in Clients : ~IsVisitor(d) => Account[d] \in Agents
      BY <1>b DEF IsVisitor
    <3>4. \A a \in Agents : \A d \in agents[a] : d # c => d \in agents'[a]
      BY <1>b, <3>1
    <3>5. \A d \in Clients : ~IsVisitor(d) /\ phase'[d] = "listed" => d \in agents'[Account[d]]
      BY <2>1, <3>3, <3>4 DEF LiveIsListed
    <3> QED
      BY <3>1, <3>2, <3>5 DEF LiveIsListed, IsVisitor
  <2> QED
    BY <2>2, <2>3
<1>3. ASSUME NEW c \in Clients, Admit(c) \/ Register(c) PROVE LiveIsListed'
  <2>1. /\ \A d \in Clients : d # c => phase'[d] = phase[d]
        /\ phase'[c] # "listed"
        /\ UNCHANGED listing
    BY <1>3, <1>b DEF Admit, Register
  <2>2. \A d \in Clients : phase'[d] = "listed" => phase[d] = "listed"
    BY <2>1
  <2> QED
    BY <1>b, <2>1, <2>2 DEF LiveIsListed, IsVisitor
<1>4. CASE UNCHANGED <<phase, listing>>
  BY <1>4 DEF LiveIsListed, IsVisitor
<1> QED
  BY <1>1, <1>2, <1>3, <1>4, OtherSteps

-----------------------------------------------------------------------------
(* Until Unhall, an unregister of Loop stays with its connection; no other  *)
(* step reads or writes a task at rest.                                     *)
LEMMA LoopUnregisters ==
  ASSUME TypeOK, TasksFit, [Next]_vars, task[Loop].op = "unregister"
  PROVE  \/ Unhall
         \/ task'[Loop].op = "unregister" /\ task'[Loop].conn = task[Loop].conn
<1> DEFINE Kept == task'[Loop].op = "unregister" /\ task'[Loop].conn = task[Loop].conn
<1>a. task[Loop] # Idle /\ task[Loop].at \in {"detach", "delete", "unhall"}
  BY IdleTask DEF TasksFit, TaskFits
<1>1. ASSUME LoopStep PROVE Unhall \/ Kept
  BY <1>1, <1>a DEF LoopStep, TakeRegister, TakeUnregister, Free, Greet, At, Answer
<1>2. ASSUME NEW p \in Procs, Start(p) PROVE Kept
  <2>1. \A q \in Procs : q # p => task'[q] = task[q]
    BY <1>2 DEF Start, StartRebind, StartAttachAll, StartDetachOwner, StartFan, Begin,
       Revoke, TypeOK
  <2>2. task[p] = Idle
    BY <1>2 DEF Start, StartRebind, StartAttachAll, StartDetachOwner, StartFan, Begin,
       Revoke, Free
  <2> QED
    BY <1>a, <2>1, <2>2
<1>3. ASSUME NEW p \in Procs, LoadConnections(p) PROVE Kept
  <2>1. p # Loop
    BY <1>3, <1>a DEF LoadConnections, At
  <2> QED
    BY <1>3, <2>1, LoadConnectionsTask
<1>4. ASSUME NEW p \in Procs, BindStep(p) PROVE Kept
  <2>1. CASE ReadDetach(p)
    BY <2>1, ReadDetachTask
  <2>2. CASE DeleteIndex(p)
    BY <2>2, DeleteIndexTask
  <2>3. CASE SetBinding(p) \/ ReadAttach(p) \/ StoreIndex(p)
    <3>1. p # Loop
      BY <2>3, <1>a DEF SetBinding, ReadAttach, StoreIndex, At
    <3>2. \A q \in Procs : q # p => task'[q] = task[q]
      BY <2>3 DEF SetBinding, ReadAttach, StoreIndex, Proceed, TypeOK
    <3> QED
      BY <3>1, <3>2
  <2> QED
    BY <1>4, <2>1, <2>2, <2>3 DEF BindStep
<1>5. ASSUME NEW p \in Procs, PickStep(p) PROVE Kept
  <2>1. p # Loop
    BY <1>5, <1>a DEF PickStep, PickBind, PickSend, PickClose, At
  <2>2. \A q \in Procs : q # p => task'[q] = task[q]
    BY <1>5 DEF PickStep, PickBind, PickSend, PickClose, Drop, TypeOK
  <2> QED
    BY <2>1, <2>2
<1>6. ASSUME NEW c \in Clients, ClientStep(c) PROVE Kept
  BY <1>6 DEF ClientStep, Admit, Register, PumpFails, WritePump, ReportClose,
     HallCheck, HallStore, HallRecheck, HallDrop
<1>7. ASSUME UNCHANGED vars PROVE Kept
  BY <1>7 DEF vars
<1> QED
  BY <1>1, <1>2, <1>3, <1>4, <1>5, <1>6, <1>7 DEF Next

(* Only the hall's own steps and Unhall touch the hall. *)
LEMMA HallSteps ==
  ASSUME [Next]_vars
  PROVE  \/ Unhall
         \/ \E c \in Clients : HallCheck(c) \/ HallStore(c) \/ HallRecheck(c) \/ HallDrop(c)
         \/ UNCHANGED hall
<1> USE DEF hall
<1>1. ASSUME NEW p \in Procs, Start(p) \/ LoadConnections(p) \/ BindStep(p) \/ PickStep(p)
      PROVE  UNCHANGED hall
  BY <1>1 DEF Start, StartRebind, StartAttachAll, StartDetachOwner, StartFan, Begin,
     Revoke, LoadConnections, PickStep, PickBind, PickSend, PickClose,
     BindStep, ReadDetach, DeleteIndex, SetBinding, ReadAttach, StoreIndex
<1>2. ASSUME NEW c \in Clients, ClientStep(c)
      PROVE  \/ HallCheck(c) \/ HallStore(c) \/ HallRecheck(c) \/ HallDrop(c)
             \/ UNCHANGED hall
  BY <1>2 DEF ClientStep, Admit, Register, PumpFails, WritePump, ReportClose
<1>3. CASE LoopStep
  BY <1>3 DEF LoopStep, TakeRegister, TakeUnregister, Greet, Answer
<1>4. CASE UNCHANGED vars
  BY <1>4 DEF vars
<1> QED
  BY <1>1, <1>2, <1>3, <1>4 DEF Next

(* What has departed stays out of the listings and the hall. *)
LEMMA GoneIsForgottenStep ==
  ASSUME TypeOK, Channels, TasksFit, MapsFit, GoneIsForgotten, [Next]_vars
  PROVE  GoneIsForgotten'
<1> DEFINE Unlisted(c) == /\ \A v \in Visitors : visitors[v] # c
                          /\ \A a \in Agents : c \notin agents[a]
           UnlistedNext(c) == /\ \A v \in Visitors : visitors'[v] # c
                              /\ \A a \in Agents : c \notin agents'[a]
           Leaving(c) == \/ sub[c] = "stored"
                         \/ task[Loop].op = "unregister" /\ task[Loop].conn = c
<1> USE DEF listing, hall
<1>b. /\ visitors \in [Visitors -> Clients \cup {None}]
      /\ agents \in [Agents -> SUBSET Clients]
      /\ phase \in [Clients -> Phases]
      /\ Account \in [Clients -> Visitors \cup Agents]
      /\ hallSubs \subseteq Clients
      /\ sub \in [Clients -> {"idle", "checked", "stored"}]
  BY DEF TypeOK
<1>1. ASSUME TakeRegister PROVE GoneIsForgotten'
  <2> DEFINE c == Head(registerQ)
  <2>1. /\ c \in Clients
        /\ \A d \in Clients : d # c => phase'[d] = phase[d]
        /\ phase'[c] = IF phase[c] = "overtaken" THEN "ghost" ELSE "listed"
    <3>1. registerQ \in Seq(Clients) /\ registerQ # <<>>
      BY <1>1 DEF TakeRegister, TypeOK
    <3> QED
      BY <1>1, <1>b, <3>1, HeadOfQueue DEF TakeRegister
  <2>2. /\ \A v \in Visitors : visitors'[v] \in {visitors[v], c}
        /\ \A a \in Agents : agents'[a] \subseteq agents[a] \cup {c}
    <3>1. CASE IsVisitor(c)
      BY <1>1, <1>b, <3>1 DEF TakeRegister
    <3>2. CASE ~IsVisitor(c)
      BY <1>1, <1>b, <3>2 DEF TakeRegister
    <3> QED
      BY <3>1, <3>2
  <2>3. \A d \in Clients : phase'[d] = "gone" => UnlistedNext(d)
    BY <2>1, <2>2 DEF GoneIsForgotten
  <2>4. task[Loop] = Idle /\ UNCHANGED hall
    BY <1>1 DEF TakeRegister, Free
  <2>5. \A d \in Clients : d \in hallSubs /\ phase[d] \in Departed => sub[d] = "stored"
    BY <2>4, IdleTask DEF GoneIsForgotten
  <2>6. \A d \in Clients : d \in hallSubs' /\ phase'[d] \in Departed => Leaving(d)'
    BY <2>1, <2>4, <2>5
  <2> QED
    BY <2>3, <2>6 DEF GoneIsForgotten
<1>2. ASSUME TakeUnregister PROVE GoneIsForgotten'
  <2> DEFINE c == Head(unregisterQ)
  <2>1. /\ c \in Clients
        /\ \A d \in Clients : d # c => phase'[d] = phase[d]
    <3>1. unregisterQ \in Seq(Clients) /\ unregisterQ # <<>>
      BY <1>2 DEF TakeUnregister, TypeOK
    <3> QED
      BY <1>2, <1>b, <3>1, HeadOfQueue DEF TakeUnregister
  <2>2. /\ \A v \in Visitors : visitors'[v] \in {visitors[v], None}
        /\ \A a \in Agents : agents'[a] \subseteq agents[a]
    <3>1. CASE IsVisitor(c)
      BY <1>2, <1>b, <3>1 DEF TakeUnregister
    <3>2. CASE ~IsVisitor(c)
      BY <1>2, <1>b, <3>2 DEF TakeUnregister
    <3> QED
      BY <3>1, <3>2
  <2>3. UnlistedNext(c)
    <3>1. CASE IsVisitor(c)
      <4>1. /\ visitors' = [visitors EXCEPT ![Account[c]] = IF @ = c THEN None ELSE @]
            /\ UNCHANGED agents
        BY <1>2, <3>1 DEF TakeUnregister
      <4>2. \A v \in Visitors : visitors'[v] # c
        BY <1>b, <2>1, <4>1 DEF MapsFit
      <4>3. \A a \in Agents : c \notin agents[a]
        BY <1>b, <3>1 DEF MapsFit, IsVisitor
      <4> QED
        BY <4>1, <4>2, <4>3
    <3>2. CASE ~IsVisitor(c)
      <4>1. /\ agents' = [agents EXCEPT ![Account[c]] = @ \ {c}]
            /\ UNCHANGED visitors
        BY <1>2, <3>2 DEF TakeUnregister
      <4>2. \A a \in Agents : c \notin agents'[a]
        BY <1>b, <2>1, <4>1 DEF MapsFit
      <4>3. \A v \in Visitors : visitors[v] # c
        BY <1>b, <2>1, <3>2 DEF MapsFit, IsVisitor
      <4> QED
        BY <4>1, <4>2, <4>3
    <3> QED
      BY <3>1, <3>2
  <2>4. \A d \in Clients : phase'[d] = "gone" => UnlistedNext(d)
    <3> SUFFICES ASSUME NEW d \in Clients, d # c, phase'[d] = "gone"
                 PROVE  UnlistedNext(d)
      BY <2>3
    <3>1. Unlisted(d) /\ d # None
      BY <2>1 DEF GoneIsForgotten
    <3> QED
      BY <2>2, <3>1
  <2>5. /\ task[Loop] = Idle /\ UNCHANGED hall
        /\ task'[Loop].op = "unregister" /\ task'[Loop].conn = c
    BY <1>2, TakeUnregisterTask DEF TakeUnregister
  <2>6. \A d \in Clients : d \in hallSubs /\ phase[d] \in Departed => sub[d] = "stored"
    BY <2>5, IdleTask DEF GoneIsForgotten
  <2>7. \A d \in Clients : d \in hallSubs' /\ phase'[d] \in Departed => Leaving(d)'
    BY <2>1, <2>5, <2>6
  <2> QED
    BY <2>4, <2>7 DEF GoneIsForgotten
<1>3. ASSUME UNCHANGED listing, \A c \in Clients : phase'[c] \in Departed => phase'[c] = phase[c]
      PROVE  GoneIsForgotten'
  <2>1. \A c \in Clients : phase'[c] = "gone" => UnlistedNext(c)
    BY <1>3 DEF GoneIsForgotten
  <2>2. \A c \in Clients : phase[c] \in Departed => ~Open(c)
    BY DEF Channels, Open
  <2>3. ASSUME NEW d \in Clients, d \in hallSubs', phase'[d] \in Departed PROVE Leaving(d)'
    <3>1. CASE Unhall
      <4>1. d \in hallSubs /\ d # task[Loop].conn /\ sub' = sub
        BY <2>3, <3>1 DEF Unhall
      <4> QED
        BY <1>3, <2>3, <4>1 DEF GoneIsForgotten
    <3>2. ASSUME ~Unhall, Leaving(d), UNCHANGED sub PROVE Leaving(d)'
      BY <3>2, LoopUnregisters
    <3>3. ASSUME NEW c \in Clients, HallCheck(c) PROVE Leaving(d)'
      <4>1. d # c
        BY <1>3, <2>2, <2>3, <3>3 DEF HallCheck
      <4>2. d \in hallSubs /\ sub'[d] = sub[d] /\ task' = task
        BY <1>b, <2>3, <3>3, <4>1 DEF HallCheck
      <4> QED
        BY <1>3, <2>3, <4>2 DEF GoneIsForgotten
    <3>4. ASSUME NEW c \in Clients, HallStore(c) PROVE Leaving(d)'
      <4>1. CASE d = c
        BY <1>b, <3>4, <4>1 DEF HallStore
      <4>2. CASE d # c
        <5>1. d \in hallSubs /\ sub'[d] = sub[d] /\ task' = task
          BY <1>b, <2>3, <3>4, <4>2 DEF HallStore
        <5> QED
          BY <1>3, <2>3, <5>1 DEF GoneIsForgotten
      <4> QED
        BY <4>1, <4>2
    <3>5. ASSUME NEW c \in Clients, HallRecheck(c) PROVE Leaving(d)'
      <4>1. d # c /\ d \in hallSubs
        BY <1>3, <2>2, <2>3, <3>5 DEF HallRecheck
      <4>2. sub'[d] = sub[d] /\ task' = task
        BY <1>b, <3>5, <4>1 DEF HallRecheck
      <4> QED
        BY <1>3, <2>3, <4>1, <4>2 DEF GoneIsForgotten
    <3>6. ASSUME NEW c \in Clients, HallDrop(c) PROVE Leaving(d)'
      <4>1. d \in hallSubs /\ sub' = sub /\ task' = task
        BY <2>3, <3>6 DEF HallDrop
      <4> QED
        BY <1>3, <2>3, <4>1 DEF GoneIsForgotten
    <3>7. ASSUME UNCHANGED hall PROVE Leaving(d)'
      <4>1. Leaving(d)
        BY <1>3, <2>3, <3>7 DEF GoneIsForgotten
      <4> QED
        BY <3>1, <3>2, <3>7, <4>1
    <3> QED
      BY <3>1, <3>3, <3>4, <3>5, <3>6, <3>7, HallSteps
  <2> QED
    BY <2>1, <2>3 DEF GoneIsForgotten
<1>4. ASSUME NEW c \in Clients, Admit(c) \/ Register(c)
      PROVE  /\ UNCHANGED listing
             /\ \A d \in Clients : phase'[d] \in Departed => phase'[d] = phase[d]
  BY <1>4, <1>b DEF Admit, Register
<1> QED
  BY <1>1, <1>2, <1>3, <1>4, OtherSteps

-----------------------------------------------------------------------------
(* However binding steps interleave, a connection bound to a conversation is *)
(* under it in the index or some goroutine will put it there.                *)
LEMMA BindingsIndexedStep ==
  ASSUME TypeOK, Channels, TasksFit, BindingsIndexed, [Next]_vars
  PROVE  BindingsIndexed'
<1> DEFINE Kept(c) == phase[c] = "listed" \/ (~IsVisitor(c) /\ phase[c] \notin Departed)
           KeptNext(c) == phase'[c] = "listed" \/ (~IsVisitor(c) /\ phase'[c] \notin Departed)
           Lost(c) == bound[c] # None /\ c \notin byConv[bound[c]]
           LostNext(c) == bound'[c] # None /\ c \notin byConv'[bound'[c]]
           Works(p, c) == /\ task[p].conn = c
                          /\ task[p].op # "unregister"
                          /\ \/ task[p].at \in {"set", "attach"}
                             \/ task[p].at = "store" /\ task[p].key = bound[c]
           WorksNext(p, c) == /\ task'[p].conn = c
                              /\ task'[p].op # "unregister"
                              /\ \/ task'[p].at \in {"set", "attach"}
                                 \/ task'[p].at = "store" /\ task'[p].key = bound'[c]
<1>a. \A c \in Clients : Kept(c) /\ Lost(c) => \E p \in Procs : Works(p, c)
  BY DEF BindingsIndexed, Indexing
<1>b. ASSUME \A c \in Clients : KeptNext(c) /\ LostNext(c) => \E p \in Procs : WorksNext(p, c)
      PROVE  BindingsIndexed'
  BY <1>b DEF BindingsIndexed, Indexing, IsVisitor
<1>c. /\ phase \in [Clients -> Phases]
      /\ bound \in [Clients -> Convs \cup {None}]
      /\ byConv \in [Convs -> SUBSET Clients]
      /\ Account \in [Clients -> Visitors \cup Agents]
  BY DEF TypeOK
<1> HIDE DEF Kept, KeptNext
<1>1. ASSUME NEW p \in Procs, \A q \in Procs : q # p => task'[q] = task[q],
             task[p].at \notin {"set", "attach", "store"},
             UNCHANGED <<phase, bound, byConv>>
      PROVE  BindingsIndexed'
  <2>1. \A c \in Clients : KeptNext(c) => Kept(c)
    BY <1>1 DEF Kept, KeptNext
  <2> QED
    BY <1>a, <1>b, <1>1, <2>1
<1>2. ASSUME UNCHANGED <<bound, byConv, task>>, \A c \in Clients : KeptNext(c) => Kept(c)
      PROVE  BindingsIndexed'
  BY <1>a, <1>b, <1>2
<1>3. ASSUME NEW c \in Clients, Admit(c) \/ Register(c) PROVE BindingsIndexed'
  <2>1. /\ \A d \in Clients : d # c => phase'[d] = phase[d] /\ bound'[d] = bound[d]
        /\ phase[c] \notin Departed /\ phase'[c] \notin {"listed"}
        /\ ~IsVisitor(c) => bound'[c] = bound[c]
        /\ UNCHANGED <<byConv, task>>
    BY <1>3, <1>c DEF Admit, Register
  <2>2. \A d \in Clients : KeptNext(d) => Kept(d) /\ bound'[d] = bound[d]
    BY <2>1 DEF Kept, KeptNext
  <2> QED
    BY <1>a, <1>b, <2>1, <2>2
<1>4. CASE TakeRegister
  <2> DEFINE c == Head(registerQ)
  <2>1. /\ c \in Clients /\ phase[c] \in {"queued", "overtaken"}
        /\ \A d \in Clients : d # c => phase'[d] = phase[d]
        /\ phase'[c] = IF phase[c] = "overtaken" THEN "ghost" ELSE "listed"
        /\ UNCHANGED <<bound, byConv>>
    <3>1. registerQ \in Seq(Clients) /\ registerQ # <<>>
      BY <1>4 DEF TakeRegister, TypeOK
    <3> QED
      BY <1>4, <1>c, <3>1, HeadOfQueue DEF TakeRegister, Channels
  <2>2. /\ \A q \in Procs : q # Loop => task'[q] = task[q]
        /\ task[Loop].at = "idle"
        /\ task'[Loop].op = "register" /\ task'[Loop].conn = c
        /\ IsVisitor(c) => task'[Loop].at = "attach"
    BY <1>4, TakeRegisterTask, IdleTask
  <2>3. \A d \in Clients : KeptNext(d) => Kept(d) \/ (d = c /\ IsVisitor(c))
    BY <2>1 DEF Kept, KeptNext
  <2>4. IsVisitor(c) => WorksNext(Loop, c)
    BY <2>2
  <2>5. \A d \in Clients, p \in Procs : Works(p, d) => WorksNext(p, d)
    BY <2>1, <2>2
  <2>6. \A d \in Clients : LostNext(d) => Lost(d)
    BY <2>1
  <2> QED
    BY <1>a, <1>b, <2>3, <2>4, <2>5, <2>6
<1>5. CASE TakeUnregister
  <2> DEFINE c == Head(unregisterQ)
  <2>1. /\ c \in Clients
        /\ \A d \in Clients : d # c => phase'[d] = phase[d]
        /\ phase'[c] \in Departed
        /\ UNCHANGED <<bound, byConv>>
    <3>1. unregisterQ \in Seq(Clients) /\ unregisterQ # <<>>
      BY <1>5 DEF TakeUnregister, TypeOK
    <3> QED
      BY <1>5, <1>c, <3>1, HeadOfQueue DEF TakeUnregister
  <2>2. \A d \in Clients : KeptNext(d) => Kept(d)
    BY <2>1 DEF Kept, KeptNext
  <2>3. /\ \A q \in Procs : q # Loop => task'[q] = task[q]
        /\ task[Loop].at = "idle"
    BY <1>5, TakeUnregisterTask, IdleTask
  <2> QED
    BY <1>a, <1>b, <2>1, <2>2, <2>3
<1>6. ASSUME NEW p \in Procs, BindStep(p) PROVE BindingsIndexed'
  <2> DEFINE c == task[p].conn
  <2>1. c \in Clients /\ bound[c] \in Convs \cup {None}
    BY <1>6, TaskHasConn DEF BindStep, ReadDetach, DeleteIndex, SetBinding,
       ReadAttach, StoreIndex, At
  <2>2. \A d \in Clients : KeptNext(d) = Kept(d)
    BY <1>6 DEF Kept, KeptNext, BindStep, ReadDetach, DeleteIndex, SetBinding,
       ReadAttach, StoreIndex
  <2>3. /\ phase[c] \in Departed => ~Kept(c)
        /\ task[p].op = "unregister" => phase[c] \in Departed
    BY <2>1 DEF TasksFit, TaskFits, Kept
  <2>4. CASE ReadDetach(p)
    BY <1>1, <2>4, ReadDetachTask DEF ReadDetach, At
  <2>5. CASE DeleteIndex(p)
    <3>1. /\ \A q \in Procs : q # p => task'[q] = task[q]
          /\ task[p].at = "delete" /\ task'[p].op = task[p].op /\ task'[p].conn = c
          /\ task[p].op # "unregister" => task'[p].at = "set"
          /\ UNCHANGED bound
      BY <2>5, DeleteIndexTask DEF DeleteIndex, At, AfterDetach
    <3>2. byConv' = [byConv EXCEPT ![task[p].key] = @ \ {c}]
      BY <2>5 DEF DeleteIndex
    <3>3. \A d \in Clients : d # c /\ LostNext(d) => Lost(d)
      BY <1>c, <3>1, <3>2
    <3>4. Kept(c) => WorksNext(p, c)
      BY <2>3, <3>1
    <3>5. \A d \in Clients, q \in Procs : Works(q, d) => WorksNext(q, d)
      BY <3>1
    <3> QED
      BY <1>a, <1>b, <2>2, <3>3, <3>4, <3>5
  <2>6. CASE SetBinding(p)
    <3>1. /\ \A q \in Procs : q # p => task'[q] = task[q]
          /\ UNCHANGED byConv
          /\ \A d \in Clients : d # c => bound'[d] = bound[d]
      BY <1>c, <2>1, <2>6, ProceedTask, SetBindingTask DEF SetBinding
    <3>2. bound'[c] = None \/ WorksNext(p, c)
      <4>1. CASE task[p].op = "detach_owner"
        BY <1>c, <2>1, <2>6, <4>1 DEF SetBinding
      <4>2. CASE task[p].op # "detach_owner"
        <5>1. task[p].op # "unregister"
          BY <2>6 DEF SetBinding, At, TasksFit, TaskFits
        <5> QED
          BY <2>6, <4>2, <5>1, SetBindingTask
      <4> QED
        BY <4>1, <4>2
    <3>3. \A d \in Clients, q \in Procs : d # c /\ Works(q, d) => WorksNext(q, d)
      BY <3>1
    <3>4. \A d \in Clients : d # c /\ LostNext(d) => Lost(d)
      BY <3>1
    <3> QED
      BY <1>a, <1>b, <2>2, <3>2, <3>3, <3>4
  <2>7. CASE ReadAttach(p)
    <3>1. /\ \A q \in Procs : q # p => task'[q] = task[q]
          /\ UNCHANGED <<bound, byConv>>
      BY <2>7, ProceedTask, ReadAttachTask DEF ReadAttach
    <3>2. bound'[c] = None \/ WorksNext(p, c)
      <4>1. task[p].op # "unregister"
        BY <2>7 DEF ReadAttach, At, TasksFit, TaskFits
      <4> QED
        BY <2>7, <3>1, <4>1, ReadAttachTask
    <3>3. \A d \in Clients, q \in Procs : d # c /\ Works(q, d) => WorksNext(q, d)
      BY <3>1
    <3>4. \A d \in Clients : LostNext(d) => Lost(d)
      BY <3>1
    <3> QED
      BY <1>a, <1>b, <2>2, <3>2, <3>3, <3>4
  <2>8. CASE StoreIndex(p)
    <3>1. /\ \A q \in Procs : q # p => task'[q] = task[q]
          /\ UNCHANGED bound /\ task[p].at = "store"
          /\ byConv' = [byConv EXCEPT ![task[p].key] = @ \cup {c}]
      BY <2>8, ProceedTask DEF StoreIndex, At
    <3>2. LostNext(c) => ~Works(p, c)
      BY <1>c, <2>1, <3>1
    <3>3. \A d \in Clients : LostNext(d) => Lost(d)
      <4>1. \A k \in Convs : byConv[k] \subseteq byConv'[k]
        BY <1>c, <3>1
      <4> QED
        BY <1>c, <3>1, <4>1
    <3>4. \A d \in Clients, q \in Procs :
             Works(q, d) /\ LostNext(d) => q # p /\ WorksNext(q, d)
      BY <3>1, <3>2
    <3> QED
      BY <1>a, <1>b, <2>2, <3>3, <3>4
  <2> QED
    BY <1>6, <2>4, <2>5, <2>6, <2>7, <2>8 DEF BindStep
<1>7. ASSUME NEW p \in Procs, Start(p) \/ LoadConnections(p) \/ PickStep(p)
      PROVE  BindingsIndexed'
  <2>1. task[p].at \notin {"set", "attach", "store"}
    BY <1>7, IdleTask DEF Start, StartRebind, StartAttachAll, StartDetachOwner,
       StartFan, Begin, Revoke, Free, LoadConnections, PickStep, PickBind, PickSend,
       PickClose, At
  <2>2. \A q \in Procs : q # p => task'[q] = task[q]
    BY <1>7 DEF Start, StartRebind, StartAttachAll, StartDetachOwner, StartFan, Begin,
       Revoke, LoadConnections, PickStep, PickBind, PickSend, PickClose, Drop, TypeOK
  <2>3. UNCHANGED <<phase, bound, byConv>>
    BY <1>7 DEF Start, StartRebind, StartAttachAll, StartDetachOwner, StartFan, Begin,
       Revoke, LoadConnections, PickStep, PickBind, PickSend, PickClose
  <2> QED
    BY <1>1, <2>1, <2>2, <2>3
<1>8. CASE Greet \/ Unhall
  <2>1. task[Loop].at \notin {"set", "attach", "store"}
    BY <1>8 DEF Greet, Unhall, At
  <2>2. \A q \in Procs : q # Loop => task'[q] = task[q]
    BY <1>8 DEF Greet, Unhall, TypeOK
  <2>3. UNCHANGED <<phase, bound, byConv>>
    BY <1>8 DEF Greet, Unhall
  <2> QED
    BY <1>1, <2>1, <2>2, <2>3
<1>9. CASE UNCHANGED <<phase, bound, byConv, task>>
  BY <1>2, <1>9 DEF Kept, KeptNext
<1>10. ASSUME NEW c \in Clients, ClientStep(c) \/ Answer(c)
       PROVE  Admit(c) \/ Register(c) \/ UNCHANGED <<phase, bound, byConv, task>>
  BY <1>10 DEF ClientStep, PumpFails, WritePump, ReportClose, HallCheck, HallStore,
     HallRecheck, HallDrop, Answer
<1> QED
  BY <1>3, <1>4, <1>5, <1>6, <1>7, <1>8, <1>9, <1>10 DEF Next, LoopStep, vars

-----------------------------------------------------------------------------
LEMMA InitRegistryInv ==
  ASSUME Init
  PROVE  RegistryInv
<1>1. TypeOK
  BY IdleTask DEF Init, TypeOK
<1>2. Channels
  BY DEF Init, Channels, OnceEach, Open
<1>3. TasksFit
  BY IdleTask DEF Init, TasksFit, TaskFits
<1>4. MapsFit
  BY DEF Init, MapsFit
<1>5. BindingsIndexed
  BY DEF Init, BindingsIndexed
<1>6. LiveIsListed /\ GoneIsForgotten
  BY DEF Init, LiveIsListed, GoneIsForgotten
<1> QED
  BY <1>1, <1>2, <1>3, <1>4, <1>5, <1>6 DEF RegistryInv

(* The invariant of the registry holds in every reachable state: types, the  *)
(* channels, the tasks, the maps and the index (Hub.Run, Client.close).      *)
THEOREM RegistrySafe == Spec => []RegistryInv
<1>1. Init => RegistryInv
  BY InitRegistryInv
<1>2. RegistryInv /\ [Next]_vars => RegistryInv'
  <2> SUFFICES ASSUME RegistryInv, [Next]_vars PROVE RegistryInv'
    OBVIOUS
  <2>1. /\ TypeOK /\ Channels /\ TasksFit /\ MapsFit /\ BindingsIndexed
        /\ LiveIsListed /\ GoneIsForgotten
    BY DEF RegistryInv
  <2> QED
    BY <2>1, TypeOKStep, ChannelsStep, TasksFitStep, MapsFitStep, BindingsIndexedStep,
       LiveIsListedStep, GoneIsForgottenStep DEF RegistryInv
<1> QED
  BY <1>1, <1>2, PTL DEF Spec

(* The maps, the channels and the tasks keep their types (hub.go). *)
THEOREM RegistryTypeOK == Spec => []TypeOK
<1>1. RegistryInv => TypeOK
  BY DEF RegistryInv
<1> QED
  BY <1>1, RegistrySafe, PTL

(* The newest connection of a visitor and every connection of an agent stay  *)
(* reachable until their departure is handled, for any number of tabs         *)
(* (handleRegister, handleUnregister).                                        *)
THEOREM RegistryLiveIsListed == Spec => []LiveIsListed
<1>1. RegistryInv => LiveIsListed
  BY DEF RegistryInv
<1> QED
  BY <1>1, RegistrySafe, PTL

(* However many goroutines rebind a connection at once, it is indexed under  *)
(* its conversation or will be (attachConv, detachConv).                     *)
THEOREM RegistryBoundIsIndexed == Spec => []BoundIsIndexed
<1>1. RegistryInv => BoundIsIndexed
  BY DEF RegistryInv, BindingsIndexed, BoundIsIndexed
<1> QED
  BY <1>1, RegistrySafe, PTL

(* A departed connection leaves the listings at once and the hall with the   *)
(* subscription at work (handleUnregister, HallSubscribe).                   *)
THEOREM RegistryGoneIsForgotten == Spec => []GoneIsForgotten
<1>1. RegistryInv => GoneIsForgotten
  BY DEF RegistryInv
<1> QED
  BY <1>1, RegistrySafe, PTL

-----------------------------------------------------------------------------
(* The reports waiting in unregister are of different connections, none of   *)
(* which is still being closed.                                              *)
LEMMA ReportsFit ==
  ASSUME TypeOK, Channels, NEW c \in Clients, closeAt[c] = Loop
  PROVE  Len(unregisterQ) < Cardinality(Clients)
<1> DEFINE n == Len(unregisterQ)
           others == Clients \ {c}
<1>1. unregisterQ \in Seq(Clients) /\ n \in Nat
  BY DEF TypeOK
<1>2. \A i \in 1..n : unregisterQ[i] \in others
  BY <1>1 DEF Channels
<1>3. unregisterQ \in [1..n -> others]
  BY <1>1, <1>2
<1>4. unregisterQ \in Injection(1..n, others)
  BY <1>3 DEF Channels, OnceEach, Injection, IsInjective
<1>5. /\ Cardinality(Clients) \in Nat
      /\ IsFiniteSet(others) /\ Cardinality(others) = Cardinality(Clients) - 1
  BY FS_CardinalityType, FS_RemoveElement
<1>6. Cardinality(1..n) <= Cardinality(others)
  BY <1>4, <1>5, FS_Injection
<1>7. Cardinality(1..n) = n
  BY <1>1, FS_Interval
<1> QED
  BY <1>1, <1>5, <1>6, <1>7

(* As long as unregister has room for every connection, the hub never waits  *)
(* for itself (Client.close called from the hub's own loop).                 *)
THEOREM RoomyHubNeverStuck ==
  ASSUME Cardinality(Clients) <= UnregisterCap
  PROVE  Spec => []LoopNeverStuck
<1>1. RegistryInv => LoopNeverStuck
  <2> SUFFICES ASSUME TypeOK, Channels, NEW c \in Clients, closeAt[c] = Loop
               PROVE  Len(unregisterQ) < UnregisterCap
    BY DEF RegistryInv, LoopNeverStuck
  <2>1. Len(unregisterQ) \in Nat /\ Cardinality(Clients) \in Nat /\ UnregisterCap \in Nat
    BY FS_CardinalityType DEF TypeOK
  <2> QED
    BY <2>1, ReportsFit
<1> QED
  BY <1>1, RegistrySafe, PTL
=============================================================================
